------------------------- MODULE MCPortableLifecycle -------------------------
EXTENDS PortableLifecycle

Plain == Command
Nfc == [Command EXCEPT !.prov = "NFC"]
Dma(dir, cap) == [Command EXCEPT !.prov = "DMA", !.dir = dir, !.cap = cap, !.len = 2, !.origin = 1]
LifeBase == [kind |-> "life", commands |-> 2, tickets |-> 1, active |-> 2, uids |-> 2, calls |-> 1,
             asks |-> 1, takes |-> 2, fake |-> [DMA |-> "dma", NFC |-> "nfc"], caps |-> <<>>, work |-> <<>>,
             slotLimit |-> 9, opLimit |-> 9, uidLimit |-> 9, leaseLimit |-> 9, ticketLimit |-> 9,
             epochLimit |-> 9, honest |-> TRUE]
Failed(w, domain) == [w EXCEPT !.terminal = "FAILED", !.fault = Fault(domain, "PROVIDER_FAILED")]
\* two commands at a time, one provider entry; cancels that win and lose,
\* backpressure, delay; then two through one slot
NfcWork == {[Nfc EXCEPT !.wins = TRUE, !.delay = 1], [Nfc EXCEPT !.bp = 1], Failed(Nfc, "MEDIA"),
            [Nfc EXCEPT !.known = FALSE]}
LMixed == [LifeBase EXCEPT !.active = 1, !.takes = 0,
             !.work = <<{[Nfc EXCEPT !.wins = TRUE, !.delay = 1]}, NfcWork>>]
LReuse == [LifeBase EXCEPT !.commands = 1, !.asks = 2, !.takes = 3,
             !.work = <<{[Nfc EXCEPT !.wins = TRUE]}, {Nfc, Plain}>>]
\* transfers both ways, with every effect class, over capabilities of either
\* epoch, either direction and another origin
Caps == <<[epoch |-> 1, origin |-> 1, dir |-> "FROM", len |-> 2], [epoch |-> 1, origin |-> 1, dir |-> "TO", len |-> 3],
          [epoch |-> 2, origin |-> 1, dir |-> "FROM", len |-> 2], [epoch |-> 1, origin |-> 2, dir |-> "FROM", len |-> 2]>>
DmaWork ==
  {[Dma("FROM", 1) EXCEPT !.terminal = t, !.wins = win, !.effect = e, !.actual = n, !.reported = 1]
     : t \in {"SUCCESS", "FAILED"}, win \in BOOLEAN, e \in {"NONE", "FULL", "EXACT", "UNKNOWN"}, n \in {1, 3}}
  \cup {[Dma("TO", 2) EXCEPT !.terminal = t, !.wins = win, !.effect = "EXACT", !.actual = 1]
     : t \in {"SUCCESS", "FAILED"}, win \in BOOLEAN}
LDma == {[LifeBase EXCEPT !.caps = Caps, !.uids = 1, !.work = <<DmaWork>>],
         [LifeBase EXCEPT !.caps = Caps, !.asks = 0, !.takes = 0,
            !.work = <<{Dma("FROM", 1)}, {Dma("FROM", c) : c \in {1, 3}}>>]}
LRange == [LifeBase EXCEPT !.caps = Caps, !.uids = 1, !.asks = 0, !.takes = 0, !.calls = 0,
             !.work = <<{[Dma(dir, c) EXCEPT !.off = o, !.coff = p]
                           : dir \in {"TO", "FROM"}, c \in 1 .. 5, o \in 0 .. 2, p \in 0 .. 2}>>]
\* a provider that breaks the contract
Odd == [Command EXCEPT !.prov = "NFC"]
OddWork == {[Odd EXCEPT !.dup = TRUE, !.wins = TRUE, !.fault = [NoFault EXCEPT !.effect = "UNKNOWN"]],
            [Odd EXCEPT !.reject = TRUE], [Odd EXCEPT !.reject = TRUE, !.refusal = Fault("PROVIDER", "QUEUE")],
            [Odd EXCEPT !.terminal = "FAILED"], [Odd EXCEPT !.fault = [NoFault EXCEPT !.prefix = 1]],
            [Odd EXCEPT !.fault = [NoFault EXCEPT !.effect = "EXACT", !.prefix = 1]]}
OddBase == [LifeBase EXCEPT !.fake = [DMA |-> "scripted", NFC |-> "scripted"], !.honest = FALSE, !.calls = 2,
              !.asks = 0, !.takes = 0]
LOdd == {[OddBase EXCEPT !.uids = 1, !.asks = 1, !.work = <<OddWork>>],
         [OddBase EXCEPT !.work = <<{[Odd EXCEPT !.dup = TRUE]},
            {[Odd EXCEPT !.prov = "DMA", !.dup = TRUE, !.dir = "TO", !.cap = 1, !.len = 1]}>>]}
\* every counter at its limit, and a provider that is not there
LLimits == {[LifeBase EXCEPT !.fake.NFC = "none", !.commands = 1, !.work = <<{Nfc}, {Nfc, Plain}>>,
               !.leaseLimit = 1, !.slotLimit = l[1], !.opLimit = l[2], !.uidLimit = l[3],
               !.ticketLimit = l[4], !.epochLimit = l[5], !.asks = IF l[4] = 1 THEN 2 ELSE 0]
            : l \in {<<1, 9, 9, 9, 9>>, <<9, 1, 9, 9, 9>>, <<9, 9, 1, 9, 9>>, <<9, 9, 9, 1, 9>>, <<9, 9, 9, 9, 1>>}}
LifeSettings == {LMixed, LReuse, LRange} \cup LDma \cup LOdd \cup LLimits
============================================================================
