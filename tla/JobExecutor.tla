---------------------------- MODULE JobExecutor ----------------------------
(***************************************************************************)
(* What fwlab_nfc_channel_executor promises the channel hub: one job per   *)
(* channel is posted, finishes or breaks once, and is handed back once;    *)
(* after shutdown no job is taken any more.                                *)
(***************************************************************************)
CONSTANT Channels

VARIABLES
  box,     \* channel -> where its job is
  ended    \* shutdown has completed

vars == <<box, ended>>

Boxes == {"EMPTY", "POSTED", "DONE", "BROKEN"}

Init == box = [c \in Channels |-> "EMPTY"] /\ ended = FALSE

Move(c, from, to) ==
  /\ box[c] = from
  /\ box' = [box EXCEPT ![c] = to]
  /\ UNCHANGED ended

Submit(c) == ~ended /\ Move(c, "EMPTY", "POSTED")
Finish(c) == Move(c, "POSTED", "DONE")
Break(c) == Move(c, "POSTED", "BROKEN")
Poll(c) == Move(c, "DONE", "EMPTY")

Shutdown ==
  /\ ~ended /\ \A c \in Channels : box[c] = "EMPTY"
  /\ ended' = TRUE
  /\ UNCHANGED box

Next ==
  \/ \E c \in Channels : Submit(c) \/ Finish(c) \/ Break(c) \/ Poll(c)
  \/ Shutdown

Spec == Init /\ [][Next]_vars

============================================================================
