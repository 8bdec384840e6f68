----------------------------- MODULE MCPageLab -----------------------------
EXTENDS PageLab, TLC

A0 == [chan |-> 0, lun |-> 0, plane |-> 0]
A1 == [chan |-> 0, lun |-> 0, plane |-> 1]
B0 == [chan |-> 0, lun |-> 1, plane |-> 0]
MCTargets == {A0, A1, B0}
R(k, t, f, n) == [kind |-> k, t |-> t, first |-> f, count |-> n]
PlaneRequests == {R("READ", A0, 0, 1), R("READ", A1, 0, 1), R("PROGRAM", A0, 0, 2)}
LunRequests == {R("READ", A1, 0, 2), R("PROGRAM", A0, 0, 2), R("PROGRAM", B0, 0, 1), R("ERASE", A0, 0, 1)}
PrepRequests == {R("READ", A0, 0, 2), R("READ", A1, 0, 1), R("PROGRAM", A0, 0, 2), R("PROGRAM", A0, 1, 1),
                 R("PROGRAM", A0, 1, 2), R("ERASE", A0, 0, 1)}
Setting(requests, many, faults, planes, parallel, readonly, floors) ==
  [requests |-> requests, many |-> many, faults |-> faults, planes |-> planes,
   parallel |-> parallel, readonly |-> readonly, floors |-> floors]
MCSettings ==
  { Setting(PlaneRequests, 3, FALSE, TRUE, 2, FALSE, {}),     \* three operations on two planes
    Setting(LunRequests, 2, TRUE, FALSE, 1, FALSE, {3}),    \* two LUNs, exclusive policy, failing media
    Setting(PrepRequests, 2, TRUE, TRUE, 2, TRUE, {3}) }    \* PREP over R0 and the timed reads

Fresh == [next |-> 0, gen |-> 0, bad |-> {}]
Torn == [next |-> 1, gen |-> 0, bad |-> {0}]
MCMedia == {A0 :> Fresh @@ A1 :> Torn @@ B0 :> Fresh}
MCTime == [command |-> 1, array |-> 2, transfer |-> 1, confirm |-> 1, program |-> 2,
           erase_command |-> 1, erase |-> 3, status |-> 1]
============================================================================
