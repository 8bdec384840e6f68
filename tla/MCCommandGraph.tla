--------------------------- MODULE MCCommandGraph ---------------------------
EXTENDS CommandGraph

AdminReq(kind) == [Request EXCEPT !.kind = kind]
Create(kind) == [AdminReq(kind) EXCEPT !.entries = Depth]
SetNq == [AdminReq("SET_NQ") EXCEPT !.feature = TRUE]
Io(kind) == [Request EXCEPT !.kind = kind, !.class = "IO", !.ns = 1, !.data = kind # "FLUSH"]
GraphBase == [kind |-> "graph", slots |-> 4, origins |-> <<1, 2, 3, 4>>, max |-> 9, amax |-> 99,
              requests |-> {}, late |-> 0, odd |-> 0, bad |-> 0, stuck |-> FALSE]
\* the queue pair's life, with odd facts and answers
GQueues == [GraphBase EXCEPT !.requests =
  <<{SetNq}, {Create("CREATE_CQ")}, {Create("CREATE_SQ"), AdminReq("DELETE_CQ")},
    {Create("CREATE_SQ"), AdminReq("DELETE_SQ"), AdminReq("DELETE_CQ")}>>, !.odd = 1]
GBad == [GQueues EXCEPT !.odd = 0, !.bad = 1]
GLate == [GQueues EXCEPT !.odd = 0, !.late = 1, !.requests[3] = {Create("CREATE_SQ")}]
\* aborts naming each other and block commands
GActions == [GraphBase EXCEPT !.slots = 3, !.origins = <<1, 2, 3>>,
  !.requests = <<{AdminReq("ABORT")}, {AdminReq("ABORT"), Io("FLUSH")}, {AdminReq("ABORT"), Io("WRITE")}>>,
  !.odd = 1]
GActionsBad == [GActions EXCEPT !.odd = 0, !.bad = 1, !.requests[2] = {AdminReq("ABORT")}]
\* a queue provider that never answers, beside an abort and a write
GStuck == [GraphBase EXCEPT !.slots = 4, !.late = 1, !.stuck = TRUE,
  !.requests = <<{SetNq}, {Create("CREATE_CQ")}, {AdminReq("ABORT")}, {Io("WRITE")}>>]
\* action identities for exactly two commands, or one short; two keys of one
\* origin; a full graph
GCounters == {[GraphBase EXCEPT !.slots = 3, !.origins = c[2], !.late = 1, !.amax = c[1],
                 !.requests = [k \in DOMAIN c[2] |-> {AdminReq("ABORT")}]]
              : c \in {<<15, <<1, 2>>>>, <<16, <<1, 1, 2>>>>, <<31, <<1, 2, 3, 4>>>>}}
\* every decision of the policy
Kinds == IdentifyKinds \cup QueueKinds \cup BlockKinds \cup {"SET_NQ", "ABORT", "UNSUPPORTED"}
Requests ==
  {r \in [kind : Kinds, class : {"ADMIN", "IO"}, fault : {"NONE", "FORMAT", "STALE", "QUEUE_MEMORY", "DATA"},
          bad : BOOLEAN, data : BOOLEAN, fua : BOOLEAN, ns : 0 .. 1, entries : {0}, slba : {0},
          nlb : {0}, feature : BOOLEAN] : (r.fault # "NONE" => ~r.bad /\ ~r.fua) /\ request_branch_valid(r)}
  \cup {[Create(k) EXCEPT !.entries = n] : k \in {"CREATE_CQ", "CREATE_SQ"}, n \in {0, 3, 4, 5}}
  \cup {[Io(k) EXCEPT !.slba = b, !.nlb = n, !.fua = f]
         : k \in {"READ", "WRITE"}, b \in 0 .. 9, n \in 0 .. 9, f \in BOOLEAN}
GPolicy == [GraphBase EXCEPT !.slots = 1, !.origins = <<1>>, !.requests = <<Requests>>]
GraphSettings == {GQueues, GBad, GLate, GActions, GActionsBad, GStuck, GPolicy} \cup GCounters
============================================================================
