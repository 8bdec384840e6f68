---------------------------- MODULE Persistence ----------------------------
(***************************************************************************)
(* The executable persistence policy (core/c32): two logical atoms on a    *)
(* medium of three groups of three slots.  A write puts a data record and  *)
(* then a map record on the medium, a trim a tombstone, a checkpoint an    *)
(* image and then its anchor, a collection a copy, a relocation and then   *)
(* an erase.  Every physical operation freezes its outcome at B, changes   *)
(* the medium at A and commits at C.  At any moment a cut may come: the    *)
(* open operations settle, the protected envelopes drain, and the recovery *)
(* reads back what the medium alone says.                                  *)
(*                                                                         *)
(* set is the scenario, dev the state before the cut, env what a cut made  *)
(* of it.                                                                  *)
(***************************************************************************)
EXTENDS Integers, FiniteSets, Sequences, SequencesExt, FiniteSetsExt

VARIABLES set, dev, env

vars == <<set, dev, env>>

Atoms == {0, 1}

Groups == 0 .. 2

Slots == 0 .. 2

Pairs == {0, 1}

MaxVersion == 3

Places == Groups \X Slots

Events == {"reset", "power", "daemon", "host"}

NoRef == <<>>

NoRecord == [kind |-> "empty", atom |-> 0, ver |-> 0, val |-> 0, copy |-> 0,
             whole |-> FALSE, sum |-> FALSE, c |-> FALSE, id |-> 0, mut |-> 0,
             pred |-> 0, seq |-> 0, self |-> NoRef, data |-> NoRef]

NoLogical == [kind |-> "none", atom |-> 0, ver |-> 0, copy |-> 0, val |-> 0,
              id |-> 0, pred |-> 0, auth |-> 0, data |-> NoRef]

NoImage == [state |-> "empty", gen |-> 0, whole |-> FALSE, sum |-> FALSE,
            c |-> FALSE, prov |-> FALSE, mark |-> 0, hash |-> 0,
            target |-> 0, entry |-> [a \in Atoms |-> NoLogical]]

NoOp == [phase |-> "FREE", purpose |-> "DATA", outcome |-> "applied",
         domain |-> "media", group |-> 0, slot |-> 0, epoch |-> 0, begin |-> 0,
         seq |-> 0, delivered |-> FALSE, frozen |-> NoRecord,
         image |-> NoImage]

NoEnvelope == [state |-> "FREE", atoms |-> {}, cost |-> 0, marker |-> FALSE,
               survives |-> {}, drained |-> {}, mut |-> 0, id |-> 0,
               redo |-> [a \in Atoms |-> NoLogical],
               meta |-> [a \in Atoms |-> NoRef]]

NoMutation == [used |-> FALSE, atoms |-> {}, pub |-> "none", epoch |-> 0,
               seq |-> 0, scope |-> 0, kind |-> [a \in Atoms |-> "none"],
               ver |-> [a \in Atoms |-> 0], val |-> [a \in Atoms |-> 0],
               closure |-> [a \in Atoms |-> "open"]]

NoFence == [used |-> FALSE, success |-> FALSE, epoch |-> 0, scope |-> 0,
            frontier |-> 0]

NoGc == [used |-> FALSE, atom |-> 0, ver |-> 0, stage |-> 0, lease |-> FALSE,
         source |-> NoRef]

NoCut == [event |-> "none"]

-----------------------------------------------------------------------------
(* The medium and its records. *)

phys_ref(d, g, s) == <<g, s, d.egen[g]>>

ref_in_range(ref) == ref # NoRef /\ ref[1] \in Groups /\ ref[2] \in Slots

genesis_state(a) ==
    [NoLogical EXCEPT !.kind = "value", !.atom = a, !.val = 1, !.id = a + 1]

occupy_record(d, r) ==
    [d EXCEPT !.media[<<r.self[1], r.self[2]>>] = r,
              !.free = @ \ {<<r.self[1], r.self[2]>>}]

data_record(d, p, a, ver, val, id, mut, seq) ==
    [NoRecord EXCEPT !.kind = "data", !.atom = a, !.ver = ver, !.val = val,
                     !.whole = TRUE, !.sum = TRUE, !.c = TRUE, !.id = id,
                     !.mut = mut, !.seq = seq,
                     !.self = phys_ref(d, p[1], p[2])]

metadata_record(d, p, kind, a, ver, val, pred, id, mut, seq, data) ==
    [data_record(d, p, a, ver, val, id, mut, seq) EXCEPT
        !.kind = kind, !.pred = pred, !.data = data]

logical_from_record(r) ==
    [kind |-> IF r.kind = "tomb" THEN "tomb" ELSE "value", atom |-> r.atom,
     ver |-> r.ver, copy |-> r.copy, val |-> r.val, id |-> r.id,
     pred |-> r.pred, auth |-> r.id, data |-> r.data]

operation_record_id(subject, purpose) ==
    100 + (subject + 1) * 16
        + (CASE purpose = "DATA" -> 0 [] purpose = "MAP" -> 2 [] OTHER -> 4)

find_record_by_mutation(d, mut, kind) ==
    {d.media[p] : p \in {q \in Places : /\ d.media[q].kind = kind
                                        /\ d.media[q].c
                                        /\ d.media[q].mut = mut}}

find_record_id(d, id) ==
    {d.media[p] : p \in {q \in Places : d.media[q].id = id}}

-----------------------------------------------------------------------------
(* The scenarios. *)

profile_make(p) ==
    [cache |-> p \in {"on", "on_plp2", "on_plp1", "claimed"},
     plp |-> CASE p \in {"off", "on"} -> "none"
               [] p = "claimed" -> "claimed"
               [] OTHER -> "validated",
     credits |-> CASE p \in {"off", "on"} -> 0
                   [] p = "on_plp1" -> 1
                   [] OTHER -> 2,
     survives |-> CASE p \in {"off", "on"} -> {}
                    [] p = "claimed" -> {"reset", "power"}
                    [] OTHER -> {"reset", "power", "daemon"}]

profile_validate(p) ==
    \/ p.plp = "none" /\ p.credits = 0 /\ p.survives = {}
    \/ /\ p.plp = "validated" /\ p.credits \in 1 .. Cardinality(Atoms)
       /\ {"reset", "power"} \subseteq p.survives

install_value(d, a, ver, val, dp, mp, did, mid, dseq, mseq, pred) ==
    LET data == data_record(d, dp, a, ver, val, did, 0, dseq)
        map == metadata_record(d, mp, "map", a, ver, val, pred, mid, 0, mseq,
                               data.self)
    IN [d EXCEPT !.media = [@ EXCEPT ![dp] = data, ![mp] = map],
                 !.free = @ \ {dp, mp},
                 !.ram[a] = logical_from_record(map),
                 !.floor[a] = logical_from_record(map),
                 !.commit = mseq + 1]

checkpoint_pair_install(d, slot, gen, mark, hash, entry) ==
    LET image == [NoImage EXCEPT !.state = "valid", !.gen = gen, !.c = TRUE,
                                 !.whole = TRUE, !.sum = TRUE, !.mark = mark,
                                 !.hash = hash]
    IN [d EXCEPT !.ckpt[slot] = [image EXCEPT !.prov = TRUE, !.entry = entry],
                 !.anchor[slot] = [image EXCEPT !.target = slot]]

mutation_observation(d, atoms, pub, kind, ver, val) ==
    [d EXCEPT !.mut[0] =
        [NoMutation EXCEPT
            !.used = TRUE, !.atoms = atoms, !.pub = pub, !.epoch = d.epoch,
            !.scope = 1,
            !.kind = [a \in Atoms |-> IF a \in atoms THEN kind ELSE "none"],
            !.ver = [a \in Atoms |-> IF a \in atoms THEN ver ELSE 0],
            !.val = [a \in Atoms |-> IF a \in atoms THEN val ELSE 0]]]

state_base_init(sc) ==
    LET genesis == [a \in Atoms |-> genesis_state(a)]
    IN [epoch |-> 1, accept |-> 0, begin |-> 0, commit |-> 1,
        egen |-> [g \in Groups |-> 0], free |-> Places, resv |-> {},
        done |-> {}, chose |-> {}, media |-> [p \in Places |-> NoRecord],
        ops |-> [i \in Pairs |-> NoOp], ckpt |-> [i \in Pairs |-> NoImage],
        anchor |-> [i \in Pairs |-> NoImage],
        plp |-> [i \in Pairs |-> NoEnvelope],
        mut |-> [i \in Pairs |-> NoMutation], fence |-> NoFence, gc |-> NoGc,
        ram |-> genesis, host |-> genesis, odd |-> {}, floor |-> genesis,
        genesis |-> genesis]

\* An old live value, and a relocation of it that only the tombstone's own
\* identity could make current again.
scenario_trim_init(d) ==
    LET live == install_value(d, 0, 1, 2, <<0, 0>>, <<0, 1>>, 10, 11, 1, 2,
                              d.genesis[0].id)
        copy == data_record(live, <<1, 0>>, 0, 1, 2, 40, 0, 4)
        move == [metadata_record(live, <<1, 1>>, "reloc", 0, 1, 2,
                                 operation_record_id(0, "TOMB"), 41, 0, 5,
                                 copy.self) EXCEPT !.copy = 1]
    IN occupy_record(occupy_record(live, copy), move)

scenario_checkpoint_init(d) ==
    LET one == install_value(d, 0, 1, 2, <<0, 0>>, <<0, 1>>, 10, 11, 1, 2,
                             d.genesis[0].id)
    IN install_value(checkpoint_pair_install(one, 0, 1, 2, 1, one.floor),
                     0, 2, 3, <<0, 2>>, <<1, 0>>, 12, 13, 3, 4, one.ram[0].id)

scenario_gc_init(d) ==
    LET live == install_value(d, 0, 1, 2, <<0, 0>>, <<0, 1>>, 10, 11, 1, 2,
                              d.genesis[0].id)
    IN checkpoint_pair_install(live, 0, 1, 2, 3, live.floor)

\* A map record that must not count: torn, without its data, of an erased
\* group, or not newer than what there is.
scenario_checkpoint_invalid_init(d, variant) ==
    LET seen == mutation_observation(d, {0}, "volatile", "value", 1, 2)
        data == data_record(seen, <<0, 0>>, 0, 1, 2, 10, 1, 1)
        map == metadata_record(seen, <<0, 1>>, "map", 0, 1, 2,
                               d.genesis[0].id, 11, 1, 2, data.self)
        old == [d.genesis[0] EXCEPT !.ver = 1]
    IN CASE variant = 0 ->
              occupy_record(occupy_record(seen, data), [map EXCEPT !.sum = FALSE])
         [] variant = 1 ->
              occupy_record(occupy_record(seen, [data EXCEPT !.c = FALSE]), map)
         [] variant = 2 ->
              [occupy_record(occupy_record(seen, data), map) EXCEPT !.egen[0] = 1]
         [] OTHER ->
              [occupy_record(occupy_record(seen, data), map) EXCEPT
                  !.genesis[0] = old, !.ram[0] = old, !.floor[0] = old]

\* An operation an earlier epoch left open.
scenario_epoch_init(d, variant) ==
    LET record == data_record(d, <<0, 0>>, 0, 1, 2, 60, 1, 1)
        op(phase) == [NoOp EXCEPT !.phase = phase, !.frozen = record]
        held == [d EXCEPT !.free = @ \ {<<0, 0>>}, !.resv = {<<0, 0>>}]
    IN CASE variant = 0 -> [held EXCEPT !.ops[0] = op("B")]
         [] variant = 1 -> [held EXCEPT !.ops[0] = op("A_APPLIED"),
                                        !.media[<<0, 0>>] = [record EXCEPT !.c = FALSE]]
         [] OTHER -> [occupy_record(d, record) EXCEPT !.ops[0] = op("C_APPLIED")]

\* Versions at their limit, no free slot, or a Host cache that disagrees.
scenario_limits_init(d, variant) ==
    LET top == [a \in Atoms |-> [d.genesis[a] EXCEPT !.ver = MaxVersion]]
    IN CASE variant = 0 -> [d EXCEPT !.genesis = top, !.ram = top, !.floor = top]
         [] variant = 2 ->
              [d EXCEPT !.free = {},
                        !.media = [p \in Places |->
                            [NoRecord EXCEPT !.kind = "invalid",
                                             !.id = 200 + p[1] * 3 + p[2],
                                             !.self = phys_ref(d, p[1], p[2])]]]
         [] variant = 3 -> [d EXCEPT !.host[0].id = 999, !.odd = {0}]
         [] OTHER -> d

scenario_init(sc) ==
    LET d == state_base_init(sc)
    IN CASE sc.family = "trim" -> scenario_trim_init(d)
         [] sc.family = "checkpoint" -> scenario_checkpoint_init(d)
         [] sc.family = "gc" -> scenario_gc_init(d)
         [] sc.family = "epoch" -> scenario_epoch_init(d, sc.variant)
         [] sc.family = "invalid" -> scenario_checkpoint_invalid_init(d, sc.variant)
         [] sc.family = "limits" -> scenario_limits_init(d, sc.variant)
         [] OTHER -> d

-----------------------------------------------------------------------------
(* What each scenario may do next: the set of its enabled steps. *)

When(guard, acts) == IF guard THEN acts ELSE {}

emit(kind, purpose, subject, step, variant) ==
    {[kind |-> kind, purpose |-> purpose, outcome |-> "applied",
      subject |-> subject, step |-> step, variant |-> variant]}

emit_b_pair(purpose, subject, step) ==
    {[kind |-> "B_PHYS", purpose |-> purpose, outcome |-> outcome,
      subject |-> subject, step |-> step, variant |-> {}]
        : outcome \in {"applied", "no_effect"}}

\* The operation in flight for a purpose and a subject, if there is one.
find_operation(d, purpose, subject) ==
    {i \in Pairs : /\ d.ops[i].phase # "FREE" /\ d.ops[i].purpose = purpose
                   /\ purpose \in {"DATA", "MAP", "TOMB"}
                        => d.ops[i].frozen.mut = subject + 1
                   /\ purpose \in {"CKPT_IMAGE", "CKPT_ANCHOR"}
                        => d.ops[i].slot = subject}

operation_phase_in(d, purpose, subject, phases) ==
    \E i \in find_operation(d, purpose, subject) : d.ops[i].phase \in phases

emit_a_if_ready(d, purpose, subject, step) ==
    When(step \notin d.done /\ operation_phase_in(d, purpose, subject, {"B"}),
         emit("A_PHYS", purpose, subject, step, {}))

emit_c_if_ready(d, purpose, subject, step) ==
    When(/\ step \notin d.done
         /\ operation_phase_in(d, purpose, subject, {"A_APPLIED", "A_NO_EFFECT"}),
         emit("C_PHYS", purpose, subject, step, {}))

emit_delivery_if_ready(d, purpose, subject, step) ==
    When(/\ step \notin d.done
         /\ \E i \in find_operation(d, purpose, subject) :
               /\ d.ops[i].phase \in {"C_APPLIED", "C_NO_EFFECT"}
               /\ d.ops[i].epoch = d.epoch,
         emit("DELIVER", purpose, subject, step, {}))

Ready(d, after, step) == after \subseteq d.done /\ step \notin d.done

Unpublished(d, m) == d.mut[m].pub = "none"

\* A fence that does not look whether the writes before it are closed.
mutation_closed_any(m) == TRUE

mutation_closed(m) ==
    \A a \in m.atoms : m.closure[a] \in {"c_map", "plp", "no_commit"}

generate_single(d, sc) ==
    UNION {
        When(Ready(d, {}, 0) /\ d.ram[0].ver < MaxVersion,
             emit("ACCEPT_WRITE", "DATA", 0, 0, {0})),
        When(Ready(d, {0}, 1), emit_b_pair("DATA", 0, 1)),
        emit_a_if_ready(d, "DATA", 0, 2), emit_c_if_ready(d, "DATA", 0, 3),
        When(Ready(d, {3}, 4) /\ 1 \in d.chose, emit_b_pair("MAP", 0, 4)),
        emit_a_if_ready(d, "MAP", 0, 5), emit_c_if_ready(d, "MAP", 0, 6),
        When(/\ Ready(d, {0}, 7) /\ profile_make(sc.profile).cache
             /\ sc.request = "default" /\ Unpublished(d, 0),
             emit("PUBLISH_VOLATILE", "MAP", 0, 7, {})),
        When(Ready(d, {6}, 8) /\ 4 \in d.chose /\ Unpublished(d, 0),
             emit("PUBLISH_DURABLE", "MAP", 0, 8, {})),
        When(/\ 9 \notin d.done
             /\ \/ 3 \in d.done /\ 1 \notin d.chose
                \/ 6 \in d.done /\ 4 \notin d.chose,
             emit("CLOSE_NO_COMMIT", "MAP", 0, 9, {})),
        When(Ready(d, {1}, 10) /\ 2 \notin d.done,
             emit("CLOSE_INDETERMINATE", "DATA", 0, 10, {}))}

generate_dual(d, sc) ==
    UNION {
        When(Ready(d, {}, 0), emit("ACCEPT_WRITE", "DATA", 0, 0, {0, 1})),
        When(Ready(d, {0}, 1), emit("PLP_PREPARE", "MAP", 0, 1, {})),
        When(/\ Ready(d, {1}, 2) /\ profile_make(sc.profile).plp = "validated"
             /\ profile_make(sc.profile).credits >= 2,
             emit("PLP_ADMIT", "MAP", 0, 2, {})),
        When(Ready(d, {2}, 3), emit("PUBLISH_DURABLE", "MAP", 0, 3, {}))}

generate_trim(d, sc) ==
    UNION {
        When(Ready(d, {}, 0), emit("ACCEPT_TRIM", "TOMB", 0, 0, {0})),
        When(Ready(d, {0}, 1), emit_b_pair("TOMB", 0, 1)),
        emit_a_if_ready(d, "TOMB", 0, 2), emit_c_if_ready(d, "TOMB", 0, 3),
        When(/\ Ready(d, {0}, 4) /\ profile_make(sc.profile).cache
             /\ sc.request = "default" /\ Unpublished(d, 0),
             emit("PUBLISH_VOLATILE", "TOMB", 0, 4, {})),
        When(Ready(d, {3}, 5) /\ 1 \in d.chose /\ Unpublished(d, 0),
             emit("PUBLISH_DURABLE", "TOMB", 0, 5, {})),
        When(Ready(d, {3}, 6) /\ 1 \in d.chose /\ d.ram[0].ver < MaxVersion,
             emit("ACCEPT_WRITE", "DATA", 1, 6, {0}))}

generate_checkpoint(d) ==
    UNION {
        When(Ready(d, {}, 0), emit("START_CHECKPOINT", "CKPT_IMAGE", 1, 0, {})),
        When(Ready(d, {0}, 1), emit_b_pair("CKPT_IMAGE", 1, 1)),
        emit_a_if_ready(d, "CKPT_IMAGE", 1, 2),
        emit_c_if_ready(d, "CKPT_IMAGE", 1, 3),
        emit_delivery_if_ready(d, "CKPT_IMAGE", 1, 4),
        When(Ready(d, {3}, 5) /\ 1 \in d.chose,
             emit("START_CHECKPOINT", "CKPT_ANCHOR", 1, 5, {})),
        When(Ready(d, {5}, 6), emit_b_pair("CKPT_ANCHOR", 1, 6)),
        emit_a_if_ready(d, "CKPT_ANCHOR", 1, 7),
        emit_c_if_ready(d, "CKPT_ANCHOR", 1, 8)}

generate_gc(d) ==
    UNION {
        When(Ready(d, {}, 0), emit("START_GC_COPY", "GC_COPY", 0, 0, {})),
        When(Ready(d, {0}, 1), emit_b_pair("GC_COPY", 0, 1)),
        emit_a_if_ready(d, "GC_COPY", 0, 2), emit_c_if_ready(d, "GC_COPY", 0, 3),
        emit_delivery_if_ready(d, "GC_COPY", 0, 4),
        When(Ready(d, {4}, 5) /\ 1 \in d.chose,
             emit("START_GC_COPY", "RELOCATION", 0, 5, {})),
        When(Ready(d, {5}, 6), emit_b_pair("RELOCATION", 0, 6)),
        emit_a_if_ready(d, "RELOCATION", 0, 7),
        emit_c_if_ready(d, "RELOCATION", 0, 8),
        emit_delivery_if_ready(d, "RELOCATION", 0, 9),
        When(Ready(d, {9}, 10) /\ 6 \in d.chose,
             emit("RELEASE_GC_LEASE", "ERASE", 0, 10, {})),
        When(Ready(d, {10}, 11) /\ ~d.gc.lease, emit_b_pair("ERASE", 0, 11)),
        emit_a_if_ready(d, "ERASE", 0, 12), emit_c_if_ready(d, "ERASE", 0, 13)}

generate_fence(d) ==
    UNION {
        When(Ready(d, {}, 0), emit("ACCEPT_WRITE", "DATA", 0, 0, {0})),
        When(Ready(d, {0}, 1) /\ Unpublished(d, 0),
             emit("PUBLISH_VOLATILE", "DATA", 0, 1, {})),
        When(Ready(d, {0}, 2), emit("CAPTURE_FENCE", "MAP", 0, 2, {})),
        When(Ready(d, {2}, 3), emit("ACCEPT_WRITE", "DATA", 1, 3, {1})),
        When(Ready(d, {0}, 4), emit("CLOSE_NO_COMMIT", "MAP", 0, 4, {})),
        When(Ready(d, {2}, 5) /\ mutation_closed(d.mut[0]),
             emit("PUBLISH_FENCE", "MAP", 0, 5, {}))}

generate_unrelated(d) ==
    UNION {
        When(Ready(d, {}, 0), emit("ACCEPT_WRITE", "DATA", 0, 0, {0})),
        When(Ready(d, {0}, 1), emit("ACCEPT_WRITE", "DATA", 1, 1, {1})),
        When(Ready(d, {1}, 2), emit("PLP_PREPARE", "MAP", 1, 2, {})),
        When(Ready(d, {2}, 3), emit("PLP_ADMIT", "MAP", 1, 3, {})),
        When(Ready(d, {3}, 4), emit("PUBLISH_DURABLE", "MAP", 1, 4, {}))}

generate_plp(d, sc) ==
    LET mask == IF sc.variant = 0 THEN {0} ELSE {0, 1}
    IN UNION {
        When(Ready(d, {}, 0), emit("ACCEPT_WRITE", "DATA", 0, 0, mask)),
        When(Ready(d, {0}, 1), emit("PLP_PREPARE", "MAP", 0, 1, {})),
        When(/\ Ready(d, {1}, 2)
             /\ profile_make(sc.profile).credits >= Cardinality(mask),
             emit("PLP_ADMIT", "MAP", 0, 2, {})),
        When(Ready(d, {2}, 3), emit("PUBLISH_DURABLE", "MAP", 0, 3, {}))}

\* The epoch, invalid and limits scenarios only cut the state they begin in.
generate_actions(d, sc) ==
    CASE sc.family = "single" -> generate_single(d, sc)
      [] sc.family = "dual" -> generate_dual(d, sc)
      [] sc.family = "trim" -> generate_trim(d, sc)
      [] sc.family = "checkpoint" -> generate_checkpoint(d)
      [] sc.family = "gc" -> generate_gc(d)
      [] sc.family = "fence" -> generate_fence(d)
      [] sc.family = "unrelated" -> generate_unrelated(d)
      [] sc.family = "plp" -> generate_plp(d, sc)
      [] OTHER -> {}

-----------------------------------------------------------------------------
(* What a step does: the states it may lead to, none where it is refused. *)

\* The first free slot; a collection does not write into the group it empties.
allocate_slot(d, purpose) ==
    LET first == IF purpose \in {"GC_COPY", "RELOCATION"} THEN 1 ELSE 0
        fit == {p \in d.free : p[1] >= first}
    IN {p \in fit : \A q \in fit : p[1] * 3 + p[2] <= q[1] * 3 + q[2]}

\* The record an operation freezes for the slot it has allocated.
frozen_record(d, a, p, seq) ==
    LET m == d.mut[a.subject]
        first == {x \in m.atoms : \A y \in m.atoms : x <= y}
        live == d.ram[d.gc.atom]
    IN CASE a.purpose = "GC_COPY" ->
              {data_record(d, p, d.gc.atom, d.gc.ver, live.val, 300, 0, seq)}
         [] a.purpose = "RELOCATION" ->
              {[metadata_record(d, p, "reloc", d.gc.atom, d.gc.ver, live.val,
                                live.id, 301, 0, seq, r.self) EXCEPT !.copy = 1]
                  : r \in find_record_id(d, 300)}
         [] a.purpose = "DATA" ->
              {data_record(d, p, atom, m.ver[atom], m.val[atom],
                           operation_record_id(a.subject, "DATA"),
                           a.subject + 1, seq) : atom \in first}
         [] a.purpose = "MAP" ->
              {metadata_record(d, p, "map", atom, m.ver[atom], m.val[atom],
                               d.ram[atom].pred,
                               operation_record_id(a.subject, "MAP"),
                               a.subject + 1, seq, r.self)
                  : atom \in first,
                    r \in find_record_by_mutation(d, a.subject + 1, "data")}
         [] OTHER ->
              {metadata_record(d, p, "tomb", atom, m.ver[atom], 0,
                               d.ram[atom].pred,
                               operation_record_id(a.subject, "TOMB"),
                               a.subject + 1, seq, NoRef) : atom \in first}

start_media_operation(d, i, op, a) ==
    IF a.purpose = "ERASE"
    THEN {[d EXCEPT !.ops[i] = [op EXCEPT !.domain = "erase",
                                          !.group = d.gc.source[1]]]}
    ELSE UNION {{[d EXCEPT !.free = @ \ {p}, !.resv = @ \cup {p},
                           !.ops[i] = [op EXCEPT !.group = p[1], !.slot = p[2],
                                                 !.frozen = [r EXCEPT !.c = FALSE]]]
                    : r \in frozen_record(d, a, p, op.seq)}
                : p \in allocate_slot(d, a.purpose)}

start_checkpoint_operation(d, i, op, a, sc) ==
    LET image == [NoImage EXCEPT !.state = "valid", !.gen = 2, !.sum = TRUE,
                                 !.whole = TRUE, !.mark = 4, !.hash = 2]
    IN {[d EXCEPT !.ops[i] =
          IF a.purpose = "CKPT_IMAGE"
          THEN [op EXCEPT !.domain = "checkpoint", !.slot = a.subject,
                          !.image = [image EXCEPT !.whole = sc.variant # 1,
                                                  !.prov = sc.variant # 2,
                                                  !.entry = d.floor]]
          ELSE [op EXCEPT !.domain = "anchor", !.slot = a.subject,
                          !.image = [image EXCEPT !.target = a.subject]]]}

start_operation(d, a, sc) ==
    UNION {LET op == [NoOp EXCEPT !.phase = "B", !.purpose = a.purpose,
                                  !.outcome = a.outcome, !.epoch = d.epoch,
                                  !.begin = d.begin, !.seq = d.commit]
               e == [d EXCEPT !.begin = @ + 1, !.commit = @ + 1]
           IN IF a.purpose \in {"CKPT_IMAGE", "CKPT_ANCHOR"}
              THEN start_checkpoint_operation(e, i, op, a, sc)
              ELSE start_media_operation(e, i, op, a)
           : i \in {j \in Pairs : /\ d.ops[j].phase = "FREE" /\ d.begin <= 3
                                  /\ \A k \in 0 .. (j - 1) : d.ops[k].phase # "FREE"}}

\* An operation takes effect on the medium, at A and again, committed, at C;
\* an erase only at C.
model_materialize(d, op, committed) ==
    CASE op.domain = "media" ->
           {[d EXCEPT !.media[<<op.group, op.slot>>] =
               [op.frozen EXCEPT !.self = phys_ref(d, op.group, op.slot),
                                 !.c = committed]]}
      [] op.domain = "checkpoint" ->
           {[d EXCEPT !.ckpt[op.slot] = [op.image EXCEPT !.c = committed]]}
      [] op.domain = "anchor" ->
           {[d EXCEPT !.anchor[op.slot] = [op.image EXCEPT !.c = committed]]}
      [] op.domain = "erase" /\ ~committed -> {d}
      [] OTHER ->
           IF d.egen[op.group] >= 1 THEN {}
           ELSE {[d EXCEPT !.egen[op.group] = @ + 1,
                           !.media = [p \in Places |-> IF p[1] = op.group
                                                       THEN NoRecord ELSE @[p]],
                           !.free = @ \cup {p \in Places : p[1] = op.group}]}

apply_a(d, a) ==
    UNION {IF d.ops[i].outcome = "applied"
           THEN model_materialize([d EXCEPT !.ops[i].phase = "A_APPLIED"],
                                  d.ops[i], FALSE)
           ELSE {[d EXCEPT !.ops[i].phase = "A_NO_EFFECT"]}
           : i \in {j \in find_operation(d, a.purpose, a.subject) :
                        d.ops[j].phase = "B"}}

close_operation_mutation(d, op, applied) ==
    CASE op.purpose \in {"GC_COPY", "RELOCATION", "ERASE"} ->
           IF ~applied THEN d
           ELSE [d EXCEPT !.gc.stage = CASE op.purpose = "GC_COPY" -> 2
                                         [] op.purpose = "RELOCATION" -> 3
                                         [] OTHER -> 5]
      [] op.purpose \in {"MAP", "TOMB"} ->
           [d EXCEPT !.mut[op.frozen.mut - 1].closure =
               [x \in Atoms |->
                   IF x \notin d.mut[op.frozen.mut - 1].atoms THEN @[x]
                   ELSE IF applied THEN "c_map" ELSE "no_commit"]]
      [] OTHER -> d

apply_c(d, a) ==
    UNION {LET op == d.ops[i]
               place == IF op.domain = "media" THEN {<<op.group, op.slot>>} ELSE {}
           IN {close_operation_mutation(
                   [e EXCEPT !.resv = @ \ place], op, op.phase = "A_APPLIED")
               : e \in IF op.phase = "A_APPLIED"
                       THEN model_materialize(
                               [d EXCEPT !.ops[i].phase = "C_APPLIED"], op, TRUE)
                       ELSE {[d EXCEPT !.ops[i].phase = "C_NO_EFFECT",
                                       !.free = @ \cup place,
                                       !.media = [p \in Places |-> IF p \in place
                                                     THEN NoRecord ELSE @[p]]]}}
           : i \in {j \in find_operation(d, a.purpose, a.subject) :
                        d.ops[j].phase \in {"A_APPLIED", "A_NO_EFFECT"}}}

accept_mutation(d, a, kind, sc) ==
    LET moved == {x \in a.variant : d.ram[x].ver < MaxVersion}
        val == IF kind = "tomb" THEN 0 ELSE 2 + a.subject
        per(f, none) == [x \in Atoms |-> IF x \in moved THEN f[x] ELSE none]
        ver == [x \in Atoms |-> d.ram[x].ver + 1]
    IN IF d.accept > 1 \/ d.mut[a.subject].used \/ a.variant = {} THEN {}
       ELSE {[d EXCEPT
                !.accept = @ + 1,
                !.mut[a.subject] =
                    [NoMutation EXCEPT
                        !.used = TRUE, !.atoms = a.variant, !.epoch = d.epoch,
                        !.seq = d.accept,
                        !.scope = IF sc.family = "unrelated" THEN a.subject + 1 ELSE 1,
                        !.kind = per([x \in Atoms |-> kind], "none"),
                        !.ver = per(ver, 0),
                        !.val = per([x \in Atoms |-> val], 0)],
                !.ram = [x \in Atoms |->
                    IF x \notin moved THEN @[x]
                    ELSE [@[x] EXCEPT !.kind = kind, !.ver = ver[x], !.val = val,
                                      !.pred = d.ram[x].id, !.id = 0, !.auth = 0]]]}

plp_for_subject(d, subject) ==
    {i \in Pairs : d.plp[i].state # "FREE" /\ d.plp[i].mut = subject + 1}

\* The envelope holds the redo of every atom and the slots it will drain to.
prepare_plp(d, subject, sc) ==
    LET m == d.mut[subject]
        idle == {i \in Pairs : d.plp[i].state = "FREE"}
        redo(x) == [kind |-> m.kind[x], atom |-> x, ver |-> m.ver[x], copy |-> 0,
                    val |-> m.val[x], id |-> 0, pred |-> d.ram[x].pred,
                    auth |-> 0, data |-> phys_ref(d, 0, x * 2)]
    IN IF \/ ~m.used \/ profile_make(sc.profile).plp # "validated"
          \/ plp_for_subject(d, subject) # {}
       THEN {}
       ELSE {[d EXCEPT !.plp[i] =
                [state |-> "PREPARED", atoms |-> m.atoms,
                 cost |-> Cardinality(m.atoms), marker |-> FALSE,
                 survives |-> profile_make(sc.profile).survives, drained |-> {},
                 mut |-> subject + 1, id |-> i + 1,
                 redo |-> [x \in Atoms |-> IF x \in m.atoms THEN redo(x) ELSE NoLogical],
                 meta |-> [x \in Atoms |-> IF x \in m.atoms
                             THEN phys_ref(d, 0, x * 2 + 1) ELSE NoRef]]]
             : i \in {j \in idle : \A k \in idle : j <= k}}

\* The records an envelope drains one atom to, its map record after its data.
drain_one_plp_atom(img, v, x) ==
    LET redo == v.redo[x]
        at(ref) == <<ref[1], ref[2]>>
        data == data_record(img, at(redo.data), x, redo.ver, redo.val,
                            v.id * 8 + x * 2 + 1, v.mut, v.id * 4 + x * 2 + 1)
        meta == metadata_record(img, at(v.meta[x]),
                                IF redo.kind = "tomb" THEN "tomb" ELSE "map",
                                x, redo.ver, redo.val, redo.pred,
                                v.id * 8 + x * 2 + 2, v.mut,
                                v.id * 4 + x * 2 + 2, redo.data)
    IN IF \/ ~ref_in_range(v.meta[x])
          \/ redo.kind = "value" /\ ~ref_in_range(redo.data)
       THEN {}
       ELSE {[img EXCEPT !.media = [p \in Places |->
                CASE p = at(v.meta[x]) -> meta
                  [] p = at(redo.data) /\ redo.kind = "value" -> data
                  [] OTHER -> @[p]]]}

persist_plp_atom(d, i, x) ==
    {[e EXCEPT !.free = {p \in @ : e.media[p] = d.media[p]},
               !.plp[i].drained = @ \cup {x}]
        : e \in drain_one_plp_atom(d, d.plp[i], x)}

admit_plp(d, subject, sc) ==
    LET closed(e) == [e EXCEPT !.mut[subject].closure =
                        [x \in Atoms |-> IF x \in d.mut[subject].atoms
                                         THEN "plp" ELSE @[x]]]
        admitted(i) == [d EXCEPT !.plp[i].marker = TRUE, !.plp[i].state = "ADMITTED"]
    IN UNION {{closed(e) : e \in
                 IF sc.family = "plp" /\ sc.variant = 2 /\ 0 \in d.plp[i].atoms
                 THEN persist_plp_atom(admitted(i), i, 0) ELSE {admitted(i)}}
              : i \in {j \in plp_for_subject(d, subject) :
                          /\ d.plp[j].state = "PREPARED"
                          /\ Cardinality(d.plp[j].atoms)
                                \in 1 .. profile_make(sc.profile).credits}}

mutation_logical_state(d, subject, x) ==
    LET m == d.mut[subject]
    IN IF m.closure[x] = "plp"
       THEN {[kind |-> m.kind[x], atom |-> x, ver |-> m.ver[x], copy |-> 0,
              val |-> m.val[x], id |-> d.plp[i].id * 8 + x * 2 + 2,
              pred |-> d.ram[x].pred, auth |-> d.plp[i].id * 8 + x * 2 + 2,
              data |-> d.plp[i].redo[x].data] : i \in plp_for_subject(d, subject)}
       ELSE {logical_from_record(r) : r \in find_record_by_mutation(d, subject + 1,
                IF m.kind[x] = "tomb" THEN "tomb" ELSE "map")}

publish_mutation(d, subject, pub) ==
    LET m == d.mut[subject]
        state(x) == mutation_logical_state(d, subject, x)
    IN IF \/ ~m.used \/ m.pub # "none"
          \/ /\ pub = "durable"
             /\ \E x \in m.atoms : \/ m.closure[x] \notin {"c_map", "plp"}
                                    \/ state(x) = {}
       THEN {}
       ELSE {[d EXCEPT !.mut[subject].pub = pub,
                       !.floor = [x \in Atoms |->
                           IF pub = "durable" /\ x \in m.atoms
                           THEN CHOOSE l \in state(x) : TRUE ELSE @[x]]]}

close_mutation(d, subject, closure, pub) ==
    IF ~d.mut[subject].used THEN {}
    ELSE {[d EXCEPT !.mut[subject].closure =
                        [x \in Atoms |-> IF x \in d.mut[subject].atoms
                                         THEN closure ELSE @[x]],
                    !.mut[subject].pub = IF @ = "none" THEN pub ELSE @]}

capture_fence(d) ==
    IF d.fence.used \/ d.accept = 0 THEN {}
    ELSE {[d EXCEPT !.fence = [used |-> TRUE, success |-> FALSE, epoch |-> d.epoch,
                               scope |-> 1, frontier |-> d.accept - 1]]}

publish_fence(d) ==
    IF d.fence.used /\ mutation_closed(d.mut[0])
    THEN {[d EXCEPT !.fence.success = TRUE]} ELSE {}

deliver_outcome(d, a) ==
    {[d EXCEPT !.ops[i] = NoOp]
        : i \in {j \in find_operation(d, a.purpose, a.subject) :
                    /\ d.ops[j].phase \in {"C_APPLIED", "C_NO_EFFECT"}
                    /\ d.ops[j].epoch = d.epoch}}

start_gc_copy(d, a) ==
    IF a.purpose = "GC_COPY" /\ ~d.gc.used
    THEN {[d EXCEPT !.gc = [used |-> TRUE, atom |-> 0, ver |-> d.ram[0].ver,
                            stage |-> 1, lease |-> TRUE,
                            source |-> d.ram[0].data]]}
    ELSE IF a.purpose = "RELOCATION" /\ d.gc.stage = 2 THEN {d} ELSE {}

release_gc_lease(d) ==
    IF d.gc.used /\ d.gc.stage = 3 /\ d.gc.lease
    THEN {[d EXCEPT !.gc.lease = FALSE, !.gc.stage = 4]} ELSE {}

apply_action(d, a, sc) ==
    {[e EXCEPT !.done = @ \cup {a.step},
               !.chose = IF a.kind = "B_PHYS" /\ a.outcome = "applied"
                         THEN @ \cup {a.step} ELSE @]
     : e \in CASE a.kind = "ACCEPT_WRITE" -> accept_mutation(d, a, "value", sc)
              [] a.kind = "ACCEPT_TRIM" -> accept_mutation(d, a, "tomb", sc)
              [] a.kind = "CAPTURE_FENCE" -> capture_fence(d)
              [] a.kind = "PLP_PREPARE" -> prepare_plp(d, a.subject, sc)
              [] a.kind = "PLP_ADMIT" -> admit_plp(d, a.subject, sc)
              [] a.kind = "B_PHYS" -> start_operation(d, a, sc)
              [] a.kind = "A_PHYS" -> apply_a(d, a)
              [] a.kind = "C_PHYS" -> apply_c(d, a)
              [] a.kind = "DELIVER" -> deliver_outcome(d, a)
              [] a.kind = "PUBLISH_VOLATILE" -> publish_mutation(d, a.subject, "volatile")
              [] a.kind = "PUBLISH_DURABLE" -> publish_mutation(d, a.subject, "durable")
              [] a.kind = "CLOSE_NO_COMMIT" ->
                   close_mutation(d, a.subject, "no_commit", "failed_no_commit")
              [] a.kind = "CLOSE_INDETERMINATE" ->
                   close_mutation(d, a.subject, "indeterminate", "failed_indeterminate")
              [] a.kind = "PUBLISH_FENCE" -> publish_fence(d)
              [] a.kind = "START_CHECKPOINT" -> {d}
              [] a.kind = "START_GC_COPY" -> start_gc_copy(d, a)
              [] OTHER -> release_gc_lease(d)}

-----------------------------------------------------------------------------
(* A cut: what is open settles, what is protected drains. *)

\* The projection the recovery may read.
Image(d) == [egen |-> d.egen, media |-> d.media, ckpt |-> d.ckpt,
             anchor |-> d.anchor, genesis |-> d.genesis]

materialize_operation(img, op) ==
    CASE op.domain = "media" ->
           {[img EXCEPT !.media[<<op.group, op.slot>>] =
               [op.frozen EXCEPT !.self = phys_ref(img, op.group, op.slot),
                                 !.c = TRUE]]}
      [] op.domain = "checkpoint" ->
           {[img EXCEPT !.ckpt[op.slot] = [op.image EXCEPT !.c = TRUE]]}
      [] op.domain = "anchor" ->
           {[img EXCEPT !.anchor[op.slot] = [op.image EXCEPT !.c = TRUE]]}
      [] OTHER ->
           IF img.egen[op.group] >= 1 THEN {}
           ELSE {[img EXCEPT !.egen[op.group] = @ + 1,
                             !.media = [p \in Places |-> IF p[1] = op.group
                                                         THEN NoRecord ELSE @[p]]]}

InOrder(S, key(_)) == SetToSortSeq(S, LAMBDA x, y : key(x) < key(y))

settle_operations(d, imgs) ==
    LET open == {i \in Pairs : d.ops[i].phase \in {"B", "A_APPLIED", "A_NO_EFFECT"}}
        order(i) == d.ops[i].begin
        applied(op) == \/ op.phase = "A_APPLIED"
                       \/ op.phase = "B" /\ op.outcome = "applied"
    IN FoldLeft(LAMBDA acc, i : IF applied(d.ops[i])
                                THEN UNION {materialize_operation(img, d.ops[i])
                                            : img \in acc}
                                ELSE acc,
                imgs, InOrder(open, order))

plp_drainable(d, v, event, sc) ==
    /\ v.marker /\ v.cost \in 1 .. profile_make(sc.profile).credits
    /\ v.cost = Cardinality(v.atoms) /\ event \in v.survives

drain_plp(d, event, sc, imgs) ==
    LET held == {i \in Pairs : d.plp[i].state = "ADMITTED"}
        order(i) == d.plp[i].id
        left(v) == InOrder(v.atoms \ v.drained, LAMBDA x : x)
    IN FoldLeft(LAMBDA acc, i :
                  IF ~plp_drainable(d, d.plp[i], event, sc) THEN {}
                  ELSE FoldLeft(LAMBDA some, x :
                                  UNION {drain_one_plp_atom(img, d.plp[i], x)
                                         : img \in some},
                                acc, left(d.plp[i])),
                imgs, InOrder(held, order))

\* The settled image, or a medium that fails closed.
physical_settle(d, event, sc) ==
    LET settled == drain_plp(d, event, sc, settle_operations(d, {Image(d)}))
    IN [ok |-> settled # {},
        drained |-> \E i \in Pairs : d.plp[i].state = "ADMITTED",
        image |-> IF settled # {} THEN CHOOSE img \in settled : TRUE ELSE Image(d)]

-----------------------------------------------------------------------------
(* The recovery, from the image alone. *)

record_at(img, ref) ==
    IF ref_in_range(ref) /\ ref[3] = img.egen[ref[1]]
    THEN {img.media[<<ref[1], ref[2]>>]} ELSE {}

strict(img, r, p) ==
    /\ r.kind \notin {"empty", "invalid"} /\ r.c /\ r.whole /\ r.sum
    /\ r.self = phys_ref(img, p[1], p[2])

strict_record(img, p) == strict(img, img.media[p], p)

strict_checkpoint(k) == k.state = "valid" /\ k.c /\ k.sum /\ k.prov /\ k.whole

strict_anchor(k) == k.state = "valid" /\ k.c /\ k.whole /\ k.sum

\* An anchor and the complete image it names.
checkpoint_pair(img, i) ==
    LET anchor == img.anchor[i]
        image == img.ckpt[anchor.target]
    IN /\ strict_anchor(anchor) /\ strict_checkpoint(image)
       /\ image.gen = anchor.gen /\ image.mark = anchor.mark
       /\ image.hash = anchor.hash

\* The newest pair; the state the medium began with when there is none.
select_checkpoint(img) ==
    LET pairs == {img.anchor[i].target : i \in {j \in Pairs : checkpoint_pair(img, j)}}
        newest == {t \in pairs : \A u \in pairs : img.ckpt[u].gen <= img.ckpt[t].gen}
    IN [ok |-> Cardinality(newest) <= 1, selected |-> newest,
        mark |-> IF newest = {} THEN 0
                 ELSE img.ckpt[CHOOSE t \in newest : TRUE].mark,
        atom |-> IF newest = {} THEN img.genesis
                 ELSE img.ckpt[CHOOSE t \in newest : TRUE].entry]

data_dependency_valid(img, meta) ==
    \E r \in record_at(img, meta.data) :
        /\ strict(img, r, <<meta.data[1], meta.data[2]>>)
        /\ r.kind = "data" /\ r.atom = meta.atom /\ r.ver = meta.ver
        /\ r.val = meta.val /\ r.seq < meta.seq

\* What one record makes of an atom's current state, if it may follow it.
candidate_from_record(img, r, now) ==
    LET next == [kind |-> IF r.kind = "tomb" THEN "tomb" ELSE "value",
                 atom |-> r.atom, ver |-> r.ver, copy |-> 0,
                 val |-> IF r.kind = "tomb" THEN 0 ELSE r.val, id |-> r.id,
                 pred |-> now.id, auth |-> r.id,
                 data |-> IF r.kind = "tomb" THEN NoRef ELSE r.data]
        moved == [now EXCEPT !.copy = r.copy, !.auth = r.id, !.data = r.data]
    IN IF r.atom # now.atom \/ r.pred # now.id THEN {}
       ELSE CASE r.kind = "map" ->
                   {x \in {next} : r.ver > now.ver /\ data_dependency_valid(img, r)}
              [] r.kind = "tomb" -> {x \in {next} : r.ver > now.ver}
              [] r.kind = "reloc" ->
                   {x \in {moved} : /\ now.kind # "tomb"
                                    /\ r.ver = now.ver /\ r.val = now.val
                                    /\ r.copy > now.copy
                                    /\ data_dependency_valid(img, r)}
              [] OTHER -> {}

\* A recovery that stops at the checkpoint.
replay_tail_none(img, start) == start

\* The metadata after the checkpoint, in the order it committed.
replay_tail(img, start) ==
    LET tail == {p \in Places : strict_record(img, p) /\ img.media[p].kind # "data"}
        seqs == {img.media[p].seq : p \in tail} \cap {n \in 1 .. 100 : n > start.mark}
        next(seq, now) == UNION {candidate_from_record(img, img.media[p], now)
                                 : p \in {q \in Places : /\ strict_record(img, q)
                                                         /\ img.media[q].seq = seq}}
    IN FoldLeft(LAMBDA acc, seq :
                  [acc EXCEPT
                     !.ok = @ /\ \A x \in Atoms : Cardinality(next(seq, acc.atom[x])) <= 1,
                     !.atom = [x \in Atoms |->
                         IF next(seq, acc.atom[x]) = {} THEN @[x]
                         ELSE CHOOSE l \in next(seq, acc.atom[x]) : TRUE]],
                start, InOrder(seqs, LAMBDA n : n))

logical_recover(img) ==
    LET end == replay_tail(img, select_checkpoint(img))
    IN [end EXCEPT !.atom = [x \in Atoms |-> [@[x] EXCEPT !.atom = x]]]

-----------------------------------------------------------------------------
(* The specification. *)

Case(family, profile, variant, request) ==
    [kind |-> "persist", family |-> family, profile |-> profile,
     variant |-> variant, request |-> request]

Profiles == {"off", "on", "off_plp2", "on_plp2", "on_plp1", "claimed"}

run_positive_cases ==
    UNION {
        {Case("single", p, 0, r) : p \in Profiles, r \in {"default", "self"}},
        {Case("dual", p, 0, "self") : p \in {"off_plp2", "on_plp2", "on_plp1"}},
        {Case("trim", p, 0, r) : p \in {"off", "on"}, r \in {"default", "self"}},
        {Case("checkpoint", "off", v, "self") : v \in 0 .. 2},
        {Case("gc", "off", 0, "self"), Case("fence", "on", 0, "default"),
         Case("unrelated", "on_plp1", 0, "self")},
        {Case("plp", p, v, "self") : p \in {"on_plp2", "on_plp1"}, v \in 0 .. 2},
        {Case("epoch", "off", v, "default") : v \in 0 .. 2},
        {Case("invalid", "off", v, "default") : v \in 0 .. 3},
        {Case("limits", IF v = 1 THEN "claimed" ELSE "off", v, "default") : v \in 0 .. 3}}

\* A profile whose protection is claimed but not validated never starts.
run_positive_case(sc) == profile_validate(profile_make(sc.profile))

Init ==
    /\ set \in {sc \in run_positive_cases : run_positive_case(sc)}
    /\ dev = scenario_init(set)
    /\ env = NoCut

cut_count_for_state(sc) ==
    IF sc.family = "limits" /\ sc.variant = 3 THEN Events ELSE Events \ {"host"}

check_cut(d, event, sc) ==
    LET physical == physical_settle(d, event, sc)
    IN [event |-> event, physical |-> physical,
        recovered |-> IF physical.ok THEN logical_recover(physical.image)
                      ELSE [ok |-> TRUE, selected |-> {}, mark |-> 0,
                            atom |-> d.genesis]]

Perform(a) ==
    /\ env = NoCut
    /\ dev' \in apply_action(dev, a, set)
    /\ UNCHANGED <<set, env>>

Cut(event) ==
    /\ env = NoCut
    /\ env' = check_cut(dev, event, set)
    /\ UNCHANGED <<set, dev>>

Next ==
    \/ \E a \in generate_actions(dev, set) : Perform(a)
    \/ \E event \in cut_count_for_state(set) : Cut(event)

Spec == Init /\ [][Next]_vars

-----------------------------------------------------------------------------
(* The policy: what a request may be told. *)

plp_validate(p, v) ==
    /\ p.plp = "validated" /\ v.atoms # {} /\ v.cost = Cardinality(v.atoms)
    /\ v.cost <= p.credits /\ v.marker /\ p.survives \subseteq v.survives
    /\ v.drained \subseteq v.atoms

Protected(d, p, subject, atoms) ==
    \E i \in plp_for_subject(d, subject) :
        plp_validate(p, d.plp[i]) /\ atoms \subseteq d.plp[i].atoms

command_witness(d, subject, sc) ==
    LET m == d.mut[subject]
        p == profile_make(sc.profile)
        durable(x) == \/ m.closure[x] = "c_map"
                      \/ /\ m.closure[x] = "plp" /\ p.cache /\ p.plp = "validated"
                         /\ Protected(d, p, subject, m.atoms)
    IN IF \E x \in m.atoms : m.closure[x] = "indeterminate" THEN "failed"
       ELSE IF \A x \in m.atoms : durable(x) THEN "durable"
       ELSE IF sc.request = "default" /\ p.cache /\ p.plp = "none" THEN "volatile"
       ELSE "none"

fence_witness(d, sc) ==
    LET covered == {i \in Pairs : /\ d.mut[i].used /\ d.mut[i].epoch = d.fence.epoch
                                  /\ d.mut[i].scope = d.fence.scope
                                  /\ d.mut[i].seq <= d.fence.frontier}
        met(i) == \A x \in d.mut[i].atoms :
                    \/ d.mut[i].closure[x] \in {"c_map", "no_commit"}
                    \/ /\ d.mut[i].closure[x] = "plp"
                       /\ Protected(d, profile_make(sc.profile), i, d.mut[i].atoms)
    IN IF \E i \in covered : \E x \in d.mut[i].atoms :
            d.mut[i].closure[x] = "indeterminate" THEN "failed"
       ELSE IF \A i \in covered : met(i) THEN "durable" ELSE "none"

-----------------------------------------------------------------------------
(* What must hold of a cut, of the state before it, and of what it brought    *)
(* back.                                                                    *)

logical_equal(l, r) ==
    /\ l.kind = r.kind /\ l.ver = r.ver /\ l.val = r.val /\ l.copy = r.copy
    /\ l.id = r.id /\ l.auth = r.auth

find_record(img, id) == {p \in Places : img.media[p].id = id}

check_unique(img, rec) ==
    /\ rec.ok
    /\ \A p, q \in {x \in Places : strict_record(img, x) /\ img.media[x].kind # "data"} :
          LET one == img.media[p]
              two == img.media[q]
          IN one.atom = two.atom /\ one.seq = two.seq /\ one.pred = two.pred
               => one.kind = two.kind /\ one.ver = two.ver /\ one.val = two.val

check_no_torn(img, rec) ==
    \A x \in Atoms :
        \/ rec.atom[x].auth = 0
        \/ \E t \in rec.selected : logical_equal(rec.atom[x], img.ckpt[t].entry[x])
        \/ \E p \in find_record(img, rec.atom[x].auth) : strict_record(img, p)

check_depend(img, rec) ==
    \A x \in Atoms : rec.atom[x].auth # 0 =>
        \A p \in find_record(img, rec.atom[x].auth) :
            img.media[p].kind # "tomb" => data_dependency_valid(img, img.media[p])

check_durable_floor(d, rec) ==
    \A x \in Atoms :
        /\ rec.atom[x].ver >= d.floor[x].ver
        /\ rec.atom[x].ver = d.floor[x].ver
             => rec.atom[x].kind = d.floor[x].kind /\ rec.atom[x].val = d.floor[x].val

logical_bit(kind, ver) == IF kind = "tomb" THEN 8 ELSE ver

\* What the publications and the open operations allow an atom to become.
allowed_sets(d, x) ==
    LET published(acc, m) ==
            LET target == logical_bit(m.kind[x], m.ver[x])
            IN IF ~m.used \/ x \notin m.atoms THEN acc
               ELSE IF \/ m.pub = "durable"
                       \/ m.pub = "none" /\ m.closure[x] \in {"c_map", "plp"}
                    THEN {target}
               ELSE IF m.pub \in {"volatile", "failed_indeterminate"}
                    THEN acc \cup {target} ELSE acc
        order(i) == d.mut[i].seq * 2 + i
        open == {d.ops[i].frozen : i \in {j \in Pairs :
                    /\ d.ops[j].purpose \in {"MAP", "TOMB"}
                    /\ d.ops[j].outcome = "applied"
                    /\ d.ops[j].phase \in {"B", "A_APPLIED", "C_APPLIED"}
                    /\ d.ops[j].frozen.mut # 0
                    /\ d.mut[d.ops[j].frozen.mut - 1].pub
                         \in {"none", "volatile", "failed_indeterminate"}}}
    IN FoldLeft(LAMBDA acc, i : published(acc, d.mut[i]),
                {logical_bit(d.floor[x].kind, d.floor[x].ver)}, InOrder(Pairs, order))
         \cup {logical_bit(r.kind, r.ver) : r \in {f \in open : f.atom = x}}

check_volatile_bound(d, rec) ==
    \A x \in Atoms : logical_bit(rec.atom[x].kind, rec.atom[x].ver) \in allowed_sets(d, x)

check_trim(d, rec) ==
    \A x \in Atoms, i \in Pairs :
        d.mut[i].used /\ d.mut[i].pub = "durable" /\ d.mut[i].kind[x] = "tomb"
          => rec.atom[x].kind = "tomb" \/ rec.atom[x].ver > d.mut[i].ver[x]

check_gc(d, img) ==
    d.gc.used /\ d.gc.stage >= 4 =>
        /\ ~d.gc.lease
        /\ \E p \in Places : /\ strict_record(img, p) /\ img.media[p].kind = "reloc"
                              /\ img.media[p].atom = d.gc.atom
                              /\ img.media[p].ver = d.gc.ver

check_checkpoint(img, rec) ==
    /\ rec.ok
    /\ \A t \in rec.selected :
          \E i \in Pairs : img.anchor[i].target = t /\ checkpoint_pair(img, i)

check_epoch(d) ==
    /\ \A i \in Pairs : d.ops[i].phase # "FREE" /\ d.ops[i].epoch # d.epoch
                            => ~d.ops[i].delivered
    /\ \A i \in Pairs : d.mut[i].used /\ d.mut[i].epoch # d.epoch
                            => Unpublished(d, i)

check_fence(d) ==
    d.fence.used /\ d.fence.success =>
        \A i \in Pairs : /\ d.mut[i].used /\ d.mut[i].epoch = d.fence.epoch
                         /\ d.mut[i].scope = d.fence.scope
                         /\ d.mut[i].seq <= d.fence.frontier
                         => mutation_closed(d.mut[i])

check_plp(d, event, physical, rec, sc) ==
    \A i \in Pairs :
        LET m == d.mut[i]
            held == {j \in plp_for_subject(d, i) : d.plp[j].state = "ADMITTED"}
        IN m.used /\ m.pub = "durable" /\ (\E x \in Atoms : m.closure[x] = "plp") =>
             /\ \E j \in held :
                   /\ plp_drainable(d, d.plp[j], event, sc)
                   /\ d.plp[j].drained = d.plp[j].atoms \/ physical.drained
             /\ \A x \in m.atoms :
                   /\ rec.atom[x].ver >= m.ver[x]
                   /\ rec.atom[x].ver = m.ver[x]
                        => rec.atom[x].kind = m.kind[x] /\ rec.atom[x].val = m.val[x]

check_conserve(d) ==
    LET reserved == {<<d.ops[i].group, d.ops[i].slot>> : i \in {j \in Pairs :
                        /\ d.ops[j].phase \in {"B", "A_APPLIED", "A_NO_EFFECT"}
                        /\ d.ops[j].domain = "media"}}
    IN /\ d.resv = reserved
       /\ d.free = {p \in Places \ reserved : d.media[p].kind = "empty"}

check_no_host(d, physical, rec) ==
    d.odd # {} =>
        LET strictly == logical_recover(physical.image)
        IN /\ strictly.ok = rec.ok
           /\ \A x \in d.odd : logical_equal(d.host[x], rec.atom[x])
                                 => logical_equal(d.host[x], strictly.atom[x])

-----------------------------------------------------------------------------
(* Properties. *)

\* Whatever is open when a cut comes, a recovery that reads the medium alone
\* finds one state per atom (P-UNIQUE), backed by whole, committed records
\* (P-NO-TORN, P-DEPEND) and a complete checkpoint pair (P-CHECKPOINT); it is
\* no older than what was published durable (P-DURABLE-FLOOR, P-TRIM, P-PLP),
\* no other than what the publications and the open operations allow
\* (P-VOLATILE-BOUND), and never the Host's word (P-NO-HOST-AUTHORITY).
RecoveryTruthful ==
    env # NoCut /\ env.physical.ok =>
        LET img == env.physical.image
            rec == env.recovered
        IN /\ check_unique(img, rec) /\ check_no_torn(img, rec)
           /\ check_depend(img, rec) /\ check_checkpoint(img, rec)
           /\ check_durable_floor(dev, rec) /\ check_volatile_bound(dev, rec)
           /\ check_trim(dev, rec)
           /\ check_plp(dev, env.event, env.physical, rec, set)
           /\ check_no_host(dev, env.physical, rec)

\* Before any cut: a source group is not erased before its relocation holds
\* and its lease is gone (P-GC), nothing of an old epoch is delivered
\* (P-EPOCH), a fence that succeeded has every write it covers closed
\* (P-FENCE), every slot is free, reserved or occupied and only one of them
\* (P-CONSERVE); and run_bfs never meets a step its scenario offers and
\* apply_action refuses.
ScenarioSound ==
    /\ env # NoCut /\ env.physical.ok => check_gc(dev, env.physical.image)
    /\ check_epoch(dev) /\ check_fence(dev) /\ check_conserve(dev)
    /\ \A a \in generate_actions(dev, set) : apply_action(dev, a, set) # {}

\* Nothing is published before the policy's facts allow it: durable when every
\* atom is mapped or in an admitted envelope that covers the mutation, volatile
\* (without power-loss protection) only where command_witness says so, and a
\* fence only when fence_witness finds every obligation it covers met.
PublishedAsWitnessed ==
    /\ \A i \in Pairs : Unpublished(dev, i) =>
         /\ dev.mut[i].pub' = "durable" => \A x \in dev.mut[i].atoms :
              \/ dev.mut[i].closure[x]' = "c_map"
              \/ /\ dev.mut[i].closure[x]' = "plp"
                 /\ Protected(dev, profile_make(set.profile), i, dev.mut[i].atoms)'
         /\ dev.mut[i].pub' = "volatile" /\ profile_make(set.profile).plp = "none"
              => command_witness(dev, i, set)' \in {"volatile", "durable"}
    /\ dev.fence.success' => fence_witness(dev, set)' = "durable"

=============================================================================
