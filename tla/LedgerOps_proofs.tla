-------------------------- MODULE LedgerOps_proofs --------------------------
(* What the methods of the barrier do to a ledger, for the proofs of the modules
   that call them.                                                             *)
EXTENDS LedgerOps, TLAPS

\* Acknowledgements belong to a pending command, the pending command is the next
\* one, and both acknowledgements are never left standing.
Linked(l) ==
    /\ HasPending(l) => l.pending.seq = l.committed + 1
    /\ ~HasPending(l) => l.acked = {}
    /\ l.acked # Consumers

LEMMA NewLedgerTyped == NewLedger \in Ledgers
  BY LedgerAssumption DEF NewLedger, Ledgers, FaultReasons

\* Latching changes the reason and nothing else, and only the first time.
LEMMA LatchKeeps ==
  ASSUME NEW l \in Ledgers, NEW why \in FaultReasons
  PROVE  /\ Latch(l, why) \in Ledgers
         /\ Latch(l, why).previous = l.previous
         /\ Latch(l, why).committed = l.committed
         /\ Latch(l, why).pending = l.pending
         /\ Latch(l, why).acked = l.acked
         /\ ~Healthy(l) => Latch(l, why) = l
  BY DEF Latch, Healthy, Ledgers

LEMMA FaultsAreReasons ==
  ASSUME NEW l \in Ledgers, NEW cmd, NEW seq, NEW t
  PROVE  /\ StageFault(l, cmd, t) \in FaultReasons
         /\ AckFault(l, seq, t) \in FaultReasons
         /\ DeadlineFault(l, t) \in FaultReasons
  BY DEF StageFault, AckFault, DeadlineFault, FaultReasons

\* stage either takes the next command, computed from the committed action, with
\* no acknowledgement standing, or leaves all but the reason alone.
LEMMA StageEffect ==
  ASSUME NEW l \in Ledgers, NEW cmd, NEW t
  PROVE  \/ /\ StageAccepts(l, cmd, t)
            /\ ~HasPending(l)
            /\ cmd.seq = l.committed + 1
            /\ cmd.previous = l.previous
            /\ Stage(l, cmd, t) = [l EXCEPT !.pending = cmd, !.acked = {}]
         \/ /\ ~StageAccepts(l, cmd, t)
            /\ \E why \in FaultReasons : Stage(l, cmd, t) = Latch(l, why)
<1>1. CASE StageAccepts(l, cmd, t)
  BY <1>1 DEF StageAccepts, StageFault, Stage
<1>2. CASE ~StageAccepts(l, cmd, t)
  BY <1>2, FaultsAreReasons DEF Stage
<1>3. QED BY <1>1, <1>2

\* acknowledge either counts an acknowledgement of the pending command, or leaves
\* all but the reason alone.
LEMMA AckEffect ==
  ASSUME NEW l \in Ledgers, NEW c \in Consumers, NEW seq, NEW t
  PROVE  \/ /\ AckAccepts(l, seq, t)
            /\ HasPending(l)
            /\ seq = l.pending.seq
            /\ Acknowledge(l, c, seq, t) = AcceptAck(l, c)
         \/ /\ ~AckAccepts(l, seq, t)
            /\ \/ Acknowledge(l, c, seq, t) = l
               \/ \E why \in FaultReasons : Acknowledge(l, c, seq, t) = Latch(l, why)
<1>0. AckFault(l, seq, t) \in FaultReasons
  BY DEF AckFault, FaultReasons
<1>1. CASE AckAccepts(l, seq, t)
  BY <1>1 DEF AckAccepts, AckFault, Acknowledge
<1>2. CASE ~AckAccepts(l, seq, t)
  BY <1>0, <1>2 DEF Acknowledge
<1>3. QED BY <1>1, <1>2

\* What a typed ledger keeps typed, and how the commit rewrites it.
LEMMA UpdatesTyped ==
  ASSUME NEW l \in Ledgers, NEW cmd \in Commands, NEW c \in Consumers
  PROVE  /\ [l EXCEPT !.pending = cmd, !.acked = {}] \in Ledgers
         /\ HasPending(l) => AcceptAck(l, c) \in Ledgers
<1>1. [l EXCEPT !.pending = cmd, !.acked = {}] \in Ledgers
  BY DEF Ledgers
<1>2. ASSUME HasPending(l)
      PROVE  AcceptAck(l, c) \in Ledgers
  <2>1. l.pending \in Commands
    BY <1>2 DEF HasPending, Ledgers, NoCommand
  <2>2. l.pending.seq \in Nat /\ l.pending.executed \in Actions
    BY <2>1 DEF Commands
  <2>3. QED BY <2>2 DEF AcceptAck, Ledgers
<1>3. QED BY <1>1, <1>2

=============================================================================
