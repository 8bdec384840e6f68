---------------------------- MODULE MCNativeHif ----------------------------
EXTENDS NativeHif

Identify == <<<<"ID", 0>>>>
One == <<<<"CCQ", 1>>, <<"CSQ", 1>>>>
Two == One \o <<<<"CCQ", 2>>, <<"CSQ", 2>>>>
Drop == <<<<"DSQ", 1>>, <<"DCQ", 1>>>>
Pairs(n) == <<<<"NUMQ", n>>>>

Sc(p, script, ios, lives, menu, faults) ==
    [profile |-> p, script |-> script, ios |-> ios, lives |-> lives, menu |-> menu, faults |-> faults]

\* A driver that deletes a submission queue with a command still on it.
MCForced == {Sc("MQ2", Pairs(1) \o One \o <<<<"DSQ", 1>>>>, 1, 2, {"force"}, 0)}

\* Each profile with its resets, queue life cycle, owner change and one fault
\* of every kind the driver or the worker can meet.
MCSettings == {
    Sc("SMALL", Identify, 0, 2, {"late", "bus", "flr", "lost"}, 1),
    Sc("SMALL", One, 1, 1, {"lost", "mask"}, 1),
    Sc("SMALL", Identify, 0, 1, {"bus", "lost"}, 2),
    Sc("SMALL", Identify, 0, 1, {"crash"}, 1),
    Sc("LARGE", One \o Drop, 1, 2, {"shn"}, 0),
    Sc("LARGE", Identify, 0, 2, {"shn", "flr", "lost", "late"}, 1),
    Sc("LARGE", One, 1, 2, {"revoke"}, 0),
    Sc("MQ2", Pairs(1) \o One \o Drop, 1, 2, {}, 0),
    Sc("MQ2", Pairs(1) \o One, 1, 1, {"lost", "mask"}, 1),
    Sc("MQ2", Pairs(2) \o Two, 2, 1, {}, 0),
    Sc("MQ2", Pairs(1), 0, 2, {"bus", "flr", "late"}, 1),
    Sc("MQ2", Identify, 0, 2, {"revoke", "crash"}, 1)} \cup MCForced
=============================================================================
