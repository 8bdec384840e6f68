--------------------------- MODULE MCCrashMapping ---------------------------
EXTENDS CrashMapping

Req(kind, mask, durable) == [kind |-> kind, mask |-> mask, durable |-> durable]
W0 == Req("write", {0}, FALSE)
W01 == Req("write", {0, 1}, FALSE)
D01 == Req("write", {0, 1}, TRUE)
T0 == Req("trim", {0}, FALSE)
R0 == Req("read", {0}, FALSE)
F == Req("fence", {}, FALSE)

Base == [kind |-> "c34", cmds |-> 2, cancels |-> 0, cuts |-> 0, resets |-> 0, maint |-> 0, most |-> 0,
         faults |-> {}, menu |-> {W0, W01, T0, R0}, cached |-> FALSE, ahead |-> 1, inner |-> 0, careful |-> TRUE]
AllFaults == {"grown bad", "no effect", "torn", "ecc"}
\* the write cache off: power may fail anywhere; any operation may fail
CPlain == [Base EXCEPT !.cuts = 1]
CFaulty == [Base EXCEPT !.most = 1, !.faults = AllFaults]
\* the write cache on: volatile and durable writes, fences, a cancel, a reset followed by a cut
CCached == [Base EXCEPT !.menu = {W0, T0, R0, F, D01}, !.cached = TRUE, !.cancels = 1]
CReset == [Base EXCEPT !.menu = {W01, F}, !.cached = TRUE, !.cuts = 1, !.resets = 1]
CDoubt == [Base EXCEPT !.menu = {W0, R0, F}, !.cached = TRUE, !.most = 1, !.faults = {"torn", "no effect"}, !.cmds = 3]
\* checkpoints and relocation, with a cut, a reset or a fault
CMaint == [Base EXCEPT !.menu = {W0}, !.maint = 2, !.cuts = 1]
CDrain == [Base EXCEPT !.cmds = 1, !.menu = {W0}, !.maint = 2, !.resets = 1]
CMaintBad == [Base EXCEPT !.cmds = 1, !.menu = {W0}, !.maint = 2, !.most = 1, !.faults = AllFaults]
\* two requests registered ahead; more versions than the format has; the operation counter's end
CAhead == [Base EXCEPT !.cmds = 4, !.menu = {W0}, !.ahead = 2, !.cached = TRUE]
CInner == [Base EXCEPT !.menu = {W01}, !.inner = 9]
CrashSettings == {CPlain, CFaulty, CCached, CReset, CDoubt, CMaint, CDrain, CMaintBad, CAhead, CInner}
\* relocation without a checkpoint before it
CareLess == {[Base EXCEPT !.cmds = 1, !.menu = {W0}, !.maint = 1, !.careful = FALSE]}
=============================================================================
