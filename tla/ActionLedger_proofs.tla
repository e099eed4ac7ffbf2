------------------------- MODULE ActionLedger_proofs -------------------------
(* What ActionLedger's run shows for two commands of one producer holds for any
   number of producers, actions and sequences.

   CommitMeansBothAcked and PreviousIsExecuted are not inductive: both lean on
   how the ledger's own fields hang together (Linked), which no caller sees.   *)
EXTENDS ActionLedger, LedgerOps_proofs

IInv == /\ TypeOK
        /\ Linked(ledger)
        /\ CommitMeansBothAcked
        /\ PreviousIsExecuted

(* steps that change little -------------------------------------------------- *)

\* A step that moves neither the histories nor any field they are compared with
\* keeps every part of the invariant but the type: latching a fault, and all that
\* happens outside the ledger.
LEMMA QuietStep ==
  ASSUME IInv,
         ledger'.previous = ledger.previous, ledger'.committed = ledger.committed,
         ledger'.pending = ledger.pending, ledger'.acked = ledger.acked,
         staged' = staged, acks' = acks
  PROVE  Linked(ledger)' /\ CommitMeansBothAcked' /\ PreviousIsExecuted'
<1>1. Linked(ledger)'
  BY DEF IInv, Linked, HasPending
<1>2. CommitMeansBothAcked'
  BY DEF IInv, CommitMeansBothAcked
<1>3. PreviousIsExecuted'
  BY DEF IInv, PreviousIsExecuted, HasPending
<1>4. QED BY <1>1, <1>2, <1>3

(* the initial state ---------------------------------------------------------- *)

LEMMA InitIInv == Init => IInv
<1> SUFFICES ASSUME Init PROVE IInv
  OBVIOUS
<1>1. TypeOK
  BY NewLedgerTyped DEF Init, TypeOK, Producer, Executor
<1>2. Linked(ledger)
  BY DEF Init, Linked, HasPending, NewLedger, NoCommand, Consumers
<1>3. CommitMeansBothAcked
  BY DEF Init, CommitMeansBothAcked, NewLedger
<1>4. PreviousIsExecuted
  BY DEF Init, PreviousIsExecuted, HasPending, NewLedger, NoCommand
<1>5. QED BY <1>1, <1>2, <1>3, <1>4 DEF IInv

(* the steps ------------------------------------------------------------------ *)

\* The producer stages the command it prepared, however long ago that was.
LEMMA CallStageIInv ==
  ASSUME IInv, NEW p \in Producers, CallStage(p)
  PROVE  IInv'
<1> DEFINE cmd == producer[p].cmd
<1>1. /\ ledger \in Ledgers /\ now \in Nat /\ staged \in Seq(Commands)
      /\ acks \in [Consumers -> SUBSET Nat]
      /\ cmd \in Commands \cup {NoCommand}
  BY DEF IInv, TypeOK, Producer
<1>2. now' = now /\ executor' = executor /\ acks' = acks
      /\ ledger' = Stage(ledger, cmd, now)
  BY DEF CallStage
<1>3. producer' \in [Producers -> Producer]
  BY DEF CallStage, IInv, TypeOK, Producer
<1>4. CASE StageAccepts(ledger, cmd, now)
  <2>1. /\ ~HasPending(ledger)
        /\ cmd.seq = ledger.committed + 1
        /\ cmd.previous = ledger.previous
        /\ ledger' = [ledger EXCEPT !.pending = cmd, !.acked = {}]
    BY <1>1, <1>2, <1>4, StageEffect
  <2>2. ledger.committed \in Nat
    BY <1>1 DEF Ledgers
  <2>3. cmd \in Commands
    BY <1>1, <2>1, <2>2 DEF NoCommand
  <2>4. staged' = Append(staged, cmd)
    BY <1>4 DEF CallStage
  <2>5. /\ ledger'.pending = cmd /\ ledger'.acked = {}
        /\ ledger'.committed = ledger.committed
        /\ ledger'.previous = ledger.previous
    BY <1>1, <2>1 DEF Ledgers
  <2>6. cmd.seq # 0
    BY <2>3 DEF Commands
  <2>7. TypeOK'
    <3>1. ledger' \in Ledgers
      BY <1>1, <2>1, <2>3 DEF Ledgers
    <3>2. staged' \in Seq(Commands)
      BY <1>1, <2>3, <2>4
    <3>3. QED BY <1>2, <1>3, <3>1, <3>2 DEF IInv, TypeOK
  <2>8. Linked(ledger)'
    BY <2>1, <2>5, <2>6 DEF Linked, HasPending, Consumers
  <2>9. CommitMeansBothAcked'
    BY <1>2, <2>1, <2>5 DEF CommitMeansBothAcked, IInv, Linked
  <2>10. PreviousIsExecuted'
    <3>1. Len(staged) = ledger.committed
      BY <2>1, <2>2 DEF IInv, PreviousIsExecuted
    <3>2. /\ Len(staged') = Len(staged) + 1
          /\ staged'[Len(staged) + 1] = cmd
          /\ \A i \in 1 .. Len(staged) : staged'[i] = staged[i]
          /\ DOMAIN staged' = 1 .. Len(staged) + 1
          /\ DOMAIN staged = 1 .. Len(staged)
      BY <1>1, <2>3, <2>4
    <3>3. HasPending(ledger)'
      BY <2>5, <2>6 DEF HasPending
    <3>4. ledger.previous = IF ledger.committed = 0 THEN InitialPrevious
                            ELSE staged[ledger.committed].executed
      BY DEF IInv, PreviousIsExecuted
    <3>5. \A i \in 1 .. Len(staged) :
            /\ staged[i].seq = i
            /\ staged[i].previous = IF i = 1 THEN InitialPrevious
                                    ELSE staged[i-1].executed
      BY <3>2 DEF IInv, PreviousIsExecuted
    <3>6. \A i \in DOMAIN staged' :
            /\ staged'[i].seq = i
            /\ staged'[i].previous = IF i = 1 THEN InitialPrevious
                                     ELSE staged'[i-1].executed
      <4> SUFFICES ASSUME NEW i \in 1 .. Len(staged) + 1
                   PROVE  /\ staged'[i].seq = i
                          /\ staged'[i].previous = IF i = 1 THEN InitialPrevious
                                                   ELSE staged'[i-1].executed
        BY <3>2
      <4>1. CASE i = Len(staged) + 1
        BY <2>1, <2>2, <3>1, <3>2, <3>4, <4>1
      <4>2. CASE i \in 1 .. Len(staged)
        BY <2>2, <3>1, <3>2, <3>5, <4>2
      <4>3. QED BY <2>2, <3>1, <4>1, <4>2
    <3>7. ledger'.previous = IF ledger'.committed = 0 THEN InitialPrevious
                             ELSE staged'[ledger'.committed].executed
      BY <2>2, <2>5, <3>1, <3>2, <3>4
    <3>8. /\ Len(staged') = ledger'.committed + 1
          /\ ledger'.pending = staged'[Len(staged')]
      BY <2>5, <3>1, <3>2
    <3>9. QED BY <3>3, <3>6, <3>7, <3>8 DEF PreviousIsExecuted
  <2>11. QED BY <2>7, <2>8, <2>9, <2>10 DEF IInv
<1>5. CASE ~StageAccepts(ledger, cmd, now)
  <2>1. PICK why \in FaultReasons : ledger' = Latch(ledger, why)
    BY <1>1, <1>2, <1>5, StageEffect
  <2>2. staged' = staged
    BY <1>5 DEF CallStage
  <2>3. TypeOK'
    BY <1>1, <1>2, <1>3, <2>1, <2>2, LatchKeeps DEF IInv, TypeOK
  <2>4. QED BY <1>1, <1>2, <2>1, <2>2, <2>3, LatchKeeps, QuietStep DEF IInv
<1>6. QED BY <1>4, <1>5

\* An owner acknowledges the sequence it took, however long ago that was.
LEMMA CallAcknowledgeIInv ==
  ASSUME IInv, NEW c \in Consumers, CallAcknowledge(c)
  PROVE  IInv'
<1> DEFINE seq == executor[c].seq
           at  == executor[c].at
<1>1. /\ ledger \in Ledgers /\ acks \in [Consumers -> SUBSET Nat]
      /\ staged \in Seq(Commands) /\ ledger.committed \in Nat
      /\ ledger.acked \subseteq Consumers
  BY DEF IInv, TypeOK, Ledgers
<1>2. now' = now /\ producer' = producer /\ staged' = staged
      /\ ledger' = Acknowledge(ledger, c, seq, at)
  BY DEF CallAcknowledge
<1>3. executor' \in [Consumers -> Executor]
  BY DEF CallAcknowledge, IInv, TypeOK, Executor
<1>4. CASE AckAccepts(ledger, seq, at)
  <2>1. /\ HasPending(ledger)
        /\ seq = ledger.pending.seq
        /\ ledger' = AcceptAck(ledger, c)
    BY <1>1, <1>2, <1>4, AckEffect
  <2>2. seq = ledger.committed + 1
    BY <2>1 DEF IInv, Linked
  <2>3. acks' = [acks EXCEPT ![c] = @ \cup {seq}]
    BY <1>4 DEF CallAcknowledge
  <2>4. TypeOK'
    <3>1. ledger' \in Ledgers
      <4>1. ledger.pending \in Commands
        BY <1>1, <2>1 DEF HasPending, Ledgers, NoCommand
      <4>2. QED BY <1>1, <2>1, <4>1, UpdatesTyped
    <3>2. acks' \in [Consumers -> SUBSET Nat]
      BY <1>1, <2>2, <2>3
    <3>3. QED BY <1>2, <1>3, <3>1, <3>2 DEF IInv, TypeOK
  <2>5. CASE ledger.acked \cup {c} = Consumers
    <3>1. /\ ledger'.previous = ledger.pending.executed
          /\ ledger'.committed = ledger.committed + 1
          /\ ledger'.pending = NoCommand
          /\ ledger'.acked = {}
      BY <1>1, <2>1, <2>2, <2>5 DEF AcceptAck, Ledgers
    <3>2. ~HasPending(ledger)'
      BY <3>1 DEF HasPending, NoCommand
    <3>3. Linked(ledger)'
      BY <3>1, <3>2 DEF Linked, Consumers
    <3>4. CommitMeansBothAcked'
      <4> SUFFICES ASSUME NEW d \in Consumers
                   PROVE  acks'[d] = 1 .. ledger.committed + 1
        BY <3>1 DEF CommitMeansBothAcked
      <4>1. acks[d] = (1 .. ledger.committed)
                        \cup (IF d \in ledger.acked THEN {ledger.committed + 1}
                              ELSE {})
        BY DEF IInv, CommitMeansBothAcked
      <4>2. acks'[d] = (1 .. ledger.committed) \cup {ledger.committed + 1}
        <5>1. CASE d = c
          BY <1>1, <2>2, <2>3, <4>1, <5>1
        <5>2. CASE d # c
          BY <1>1, <2>3, <2>5, <4>1, <5>2
        <5>3. QED BY <5>1, <5>2
      <4>3. QED BY <1>1, <4>2
    <3>5. PreviousIsExecuted'
      BY <1>1, <1>2, <2>1, <3>1, <3>2 DEF IInv, PreviousIsExecuted
    <3>6. QED BY <2>4, <3>3, <3>4, <3>5 DEF IInv
  <2>6. CASE ledger.acked \cup {c} # Consumers
    <3>1. /\ ledger'.previous = ledger.previous
          /\ ledger'.committed = ledger.committed
          /\ ledger'.pending = ledger.pending
          /\ ledger'.acked = ledger.acked \cup {c}
      BY <1>1, <2>1, <2>6 DEF AcceptAck, Ledgers
    <3>2. HasPending(ledger)'
      BY <2>1, <3>1 DEF HasPending
    <3>3. Linked(ledger)'
      BY <2>1, <2>6, <3>1, <3>2 DEF IInv, Linked
    <3>4. CommitMeansBothAcked'
      <4> SUFFICES ASSUME NEW d \in Consumers
                   PROVE  acks'[d] = (1 .. ledger.committed)
                            \cup (IF d \in ledger.acked \cup {c}
                                  THEN {ledger.committed + 1} ELSE {})
        BY <3>1 DEF CommitMeansBothAcked
      <4>1. acks[d] = (1 .. ledger.committed)
                        \cup (IF d \in ledger.acked THEN {ledger.committed + 1}
                              ELSE {})
        BY DEF IInv, CommitMeansBothAcked
      <4>2. CASE d = c
        BY <1>1, <2>2, <2>3, <4>1, <4>2
      <4>3. CASE d # c
        BY <1>1, <2>3, <4>1, <4>3
      <4>4. QED BY <4>2, <4>3
    <3>5. PreviousIsExecuted'
      BY <1>2, <2>1, <3>1, <3>2 DEF IInv, PreviousIsExecuted
    <3>6. QED BY <2>4, <3>3, <3>4, <3>5 DEF IInv
  <2>7. QED BY <2>5, <2>6
<1>5. CASE ~AckAccepts(ledger, seq, at)
  <2>1. acks' = acks
    BY <1>5 DEF CallAcknowledge
  <2>2. \/ ledger' = ledger
        \/ \E why \in FaultReasons : ledger' = Latch(ledger, why)
    BY <1>1, <1>2, <1>5, AckEffect
  <2>3. /\ ledger' \in Ledgers
        /\ ledger'.previous = ledger.previous
        /\ ledger'.committed = ledger.committed
        /\ ledger'.pending = ledger.pending
        /\ ledger'.acked = ledger.acked
    BY <1>1, <2>2, LatchKeeps
  <2>4. TypeOK'
    BY <1>2, <1>3, <2>1, <2>3 DEF IInv, TypeOK
  <2>5. QED BY <1>2, <2>1, <2>3, <2>4, QuietStep DEF IInv
<1>6. QED BY <1>4, <1>5

\* The deadline and the device failure only latch.
LEMMA LatchingIInv ==
  ASSUME IInv, NEW why \in FaultReasons, ledger' = Latch(ledger, why),
         now' = now, staged' = staged, acks' = acks,
         producer' \in [Producers -> Producer],
         executor' \in [Consumers -> Executor]
  PROVE  IInv'
<1>1. ledger \in Ledgers
  BY DEF IInv, TypeOK
<1>2. TypeOK'
  BY <1>1, LatchKeeps DEF IInv, TypeOK
<1>3. QED BY <1>1, <1>2, LatchKeeps, QuietStep DEF IInv

\* Everything else a thread does alone leaves the ledger as it is.
LEMMA OutsideIInv ==
  ASSUME IInv, UNCHANGED <<ledger, staged, acks>>, now' \in Nat,
         producer' \in [Producers -> Producer],
         executor' \in [Consumers -> Executor]
  PROVE  IInv'
<1>1. TypeOK'
  BY DEF IInv, TypeOK
<1>2. QED BY <1>1, QuietStep DEF IInv

LEMMA NextIInv == IInv /\ [Next]_vars => IInv'
<1> SUFFICES ASSUME IInv, [Next]_vars PROVE IInv'
  OBVIOUS
<1>1. /\ ledger \in Ledgers /\ now \in Nat
      /\ producer \in [Producers -> Producer]
      /\ executor \in [Consumers -> Executor]
  BY DEF IInv, TypeOK
<1>2. ledger.committed \in Nat /\ ledger.previous \in Actions
  BY <1>1 DEF Ledgers
<1>3. CASE Tick
  BY <1>1, <1>3, OutsideIInv DEF Tick
<1>4. ASSUME NEW p \in Producers, Prepare(p) PROVE IInv'
  <2>1. PICK a \in Actions :
          producer' = [producer EXCEPT ![p] =
            [pc |-> "prepared", at |-> now,
             cmd |-> [seq |-> ledger.committed + 1, previous |-> ledger.previous,
                      executed |-> a, produced |-> now]]]
    BY <1>4 DEF Prepare
  <2>2. [seq |-> ledger.committed + 1, previous |-> ledger.previous,
         executed |-> a, produced |-> now] \in Commands
    BY <1>1, <1>2 DEF Commands
  <2>3. producer' \in [Producers -> Producer]
    BY <1>1, <2>1, <2>2 DEF Producer
  <2>4. QED BY <1>1, <1>4, <2>3, OutsideIInv DEF Prepare
<1>5. ASSUME NEW p \in Producers, CallStage(p) PROVE IInv'
  BY <1>5, CallStageIInv
<1>6. ASSUME NEW p \in Producers, SampleDeadline(p) PROVE IInv'
  <2>1. producer' \in [Producers -> Producer]
    BY <1>1, <1>6 DEF SampleDeadline, Producer
  <2>2. QED BY <1>1, <1>6, <2>1, OutsideIInv DEF SampleDeadline
<1>7. ASSUME NEW p \in Producers, CallDeadline(p) PROVE IInv'
  <2>1. producer' \in [Producers -> Producer]
    BY <1>1, <1>7 DEF CallDeadline, Producer
  <2>2. DeadlineFault(ledger, producer[p].at) \in FaultReasons
    BY <1>1, FaultsAreReasons
  <2>3. ledger' = Latch(ledger, DeadlineFault(ledger, producer[p].at))
    BY <1>7 DEF CallDeadline, RequireCommitDeadline
  <2>4. QED BY <1>1, <1>7, <2>1, <2>2, <2>3, LatchingIInv DEF CallDeadline
<1>8. ASSUME NEW c \in Consumers, Take(c) PROVE IInv'
  <2>1. ledger.pending.seq \in Nat
    BY <1>1 DEF Ledgers, Commands, NoCommand
  <2>2. executor' \in [Consumers -> Executor]
    BY <1>1, <1>8, <2>1 DEF Take, Executor
  <2>3. QED BY <1>1, <1>8, <2>2, OutsideIInv DEF Take
<1>9. ASSUME NEW c \in Consumers, SampleAck(c) PROVE IInv'
  <2>1. executor' \in [Consumers -> Executor]
    BY <1>1, <1>9 DEF SampleAck, Executor
  <2>2. QED BY <1>1, <1>9, <2>1, OutsideIInv DEF SampleAck
<1>10. ASSUME NEW c \in Consumers, CallAcknowledge(c) PROVE IInv'
  BY <1>10, CallAcknowledgeIInv
<1>11. ASSUME NEW c \in Consumers, CallFail(c) PROVE IInv'
  <2>1. executor' \in [Consumers -> Executor]
    BY <1>1, <1>11 DEF CallFail, Executor
  <2>2. "device" \in FaultReasons
    BY DEF FaultReasons
  <2>3. QED BY <1>1, <1>11, <2>1, <2>2, LatchingIInv DEF CallFail, Fail
<1>12. CASE UNCHANGED vars
  BY <1>1, <1>12, OutsideIInv DEF vars
<1>13. QED
  BY <1>3, <1>4, <1>5, <1>6, <1>7, <1>8, <1>9, <1>10, <1>11, <1>12 DEF Next

(* the theorems --------------------------------------------------------------- *)

THEOREM Invariant == Spec => []IInv
<1>1. QED BY InitIInv, NextIInv, PTL DEF Spec

\* The ledger and every thread that calls it hold values of their types: whatever
\* the callers pass, no method leaves a record the class does not define.
THEOREM TypeCorrect == Spec => []TypeOK
<1>1. IInv => TypeOK
  BY DEF IInv
<1>2. QED BY <1>1, Invariant, PTL

\* acknowledge commits a sequence when both devices have acknowledged that very
\* sequence, for any number of producers racing to stage and executors running
\* late or twice.
THEOREM BothAcked == Spec => []CommitMeansBothAcked
<1>1. IInv => CommitMeansBothAcked
  BY DEF IInv
<1>2. QED BY <1>1, Invariant, PTL

\* The previous action committed_snapshot returns is the one executed last, and
\* each accepted command was computed from its predecessor's executed action.
THEOREM PreviousExecuted == Spec => []PreviousIsExecuted
<1>1. IInv => PreviousIsExecuted
  BY DEF IInv
<1>2. QED BY <1>1, Invariant, PTL

\* A faulted ledger does not move: no late acknowledgement commits, no retry stages,
\* no second fault rewrites the reason that is reported.
THEOREM FaultFreezes == Spec => FaultFreezesLedger
<1>1. IInv /\ [Next]_vars => [~Healthy(ledger) => UNCHANGED ledger]_ledger
  <2> SUFFICES ASSUME IInv, Next, ~Healthy(ledger)
               PROVE  UNCHANGED ledger
    BY DEF vars
  <2>1. \A why : Latch(ledger, why) = ledger
    BY DEF Latch
  <2>2. ASSUME NEW p \in Producers, CallStage(p) PROVE UNCHANGED ledger
    BY <2>1, <2>2 DEF CallStage, Stage, StageAccepts
  <2>3. ASSUME NEW p \in Producers, CallDeadline(p) PROVE UNCHANGED ledger
    BY <2>1, <2>3 DEF CallDeadline, RequireCommitDeadline
  <2>4. ASSUME NEW c \in Consumers, CallAcknowledge(c) PROVE UNCHANGED ledger
    BY <2>4 DEF CallAcknowledge, Acknowledge
  <2>5. ASSUME NEW c \in Consumers, CallFail(c) PROVE UNCHANGED ledger
    BY <2>1, <2>5 DEF CallFail, Fail
  <2>6. CASE \/ Tick
             \/ \E p \in Producers : Prepare(p) \/ SampleDeadline(p)
             \/ \E c \in Consumers : Take(c) \/ SampleAck(c)
    BY <2>6 DEF Tick, Prepare, SampleDeadline, Take, SampleAck
  <2>7. QED BY <2>2, <2>3, <2>4, <2>5, <2>6 DEF Next
<1>2. QED BY <1>1, Invariant, PTL DEF Spec, FaultFreezesLedger

\* The class implements the atomic commit of actions: every method call is one step
\* of it (an actuator executes, the action counts with its value, the barrier
\* halts) or is invisible.
THEOREM Implements == Spec => CommitsAtomically
<1>1. Init => Barrier!Init
  BY DEF Init, Barrier!Init, NewLedger, Healthy
<1>2. IInv /\ [Next]_vars => [Barrier!Next]_Barrier!vars
  <2> SUFFICES ASSUME IInv, Next
               PROVE  [Barrier!Next]_Barrier!vars
    BY DEF vars, Barrier!vars
  <2>1. ledger \in Ledgers /\ ledger.committed \in Nat
    BY DEF IInv, TypeOK, Ledgers
  <2>2. ASSUME NEW why \in FaultReasons, ledger' = Latch(ledger, why)
        PROVE  [Barrier!Next]_Barrier!vars
    <3>1. /\ ledger'.previous = ledger.previous
          /\ ledger'.committed = ledger.committed
          /\ ledger'.acked = ledger.acked
          /\ ~Healthy(ledger) => ledger' = ledger
      BY <2>1, <2>2, LatchKeeps
    <3>2. CASE Healthy(ledger) <=> Healthy(ledger)'
      BY <3>1, <3>2 DEF Barrier!vars
    <3>3. CASE Healthy(ledger) /\ ~Healthy(ledger)'
      BY <3>1, <3>3 DEF Barrier!Next, Barrier!Halt
    <3>4. QED BY <3>1, <3>2, <3>3
  <2>3. ASSUME UNCHANGED ledger PROVE [Barrier!Next]_Barrier!vars
    BY <2>3 DEF Barrier!vars, Healthy
  <2>4. ASSUME NEW p \in Producers, CallStage(p) PROVE [Barrier!Next]_Barrier!vars
    <3>1. CASE StageAccepts(ledger, producer[p].cmd, now)
      <4>1. ~HasPending(ledger)
            /\ ledger' = [ledger EXCEPT !.pending = producer[p].cmd, !.acked = {}]
        BY <2>1, <2>4, <3>1, StageEffect DEF CallStage
      <4>2. ledger.acked = {}
        BY <4>1 DEF IInv, Linked
      <4>3. /\ ledger'.previous = ledger.previous /\ ledger'.acked = ledger.acked
            /\ ledger'.committed = ledger.committed /\ ledger'.fault = ledger.fault
        BY <2>1, <4>1, <4>2 DEF Ledgers
      <4>4. QED BY <4>3 DEF Barrier!vars, Healthy
    <3>2. CASE ~StageAccepts(ledger, producer[p].cmd, now)
      BY <2>1, <2>2, <2>4, <3>2, StageEffect DEF CallStage
    <3>3. QED BY <3>1, <3>2
  <2>5. ASSUME NEW p \in Producers, CallDeadline(p)
        PROVE  [Barrier!Next]_Barrier!vars
    BY <2>1, <2>2, <2>5, FaultsAreReasons DEF CallDeadline, RequireCommitDeadline
  <2>6. ASSUME NEW c \in Consumers, CallAcknowledge(c)
        PROVE  [Barrier!Next]_Barrier!vars
    <3> DEFINE seq == executor[c].seq
               at  == executor[c].at
    <3>1. ledger' = Acknowledge(ledger, c, seq, at)
      BY <2>6 DEF CallAcknowledge
    <3>2. CASE AckAccepts(ledger, seq, at)
      <4>1. HasPending(ledger) /\ ledger' = AcceptAck(ledger, c) /\ Healthy(ledger)
        BY <2>1, <3>1, <3>2, AckEffect DEF AckAccepts
      <4>2. ledger.pending.executed \in Actions
        BY <2>1, <4>1 DEF HasPending, Ledgers, Commands, NoCommand
      <4>3. ledger.pending.seq = ledger.committed + 1
        BY <4>1 DEF IInv, Linked
      <4>4. CASE ledger.acked \cup {c} = Consumers
        <5>1. /\ ledger'.previous = ledger.pending.executed
              /\ ledger'.committed = ledger.committed + 1
              /\ ledger'.acked = {} /\ ledger'.fault = ledger.fault
          BY <2>1, <4>1, <4>3, <4>4 DEF AcceptAck, Ledgers
        <5>2. Barrier!Commit(c, ledger.pending.executed)
          BY <4>1, <4>4, <5>1 DEF Barrier!Commit, Healthy
        <5>3. QED BY <4>2, <5>2 DEF Barrier!Next
      <4>5. CASE ledger.acked \cup {c} # Consumers
        <5>1. /\ ledger'.previous = ledger.previous
              /\ ledger'.committed = ledger.committed
              /\ ledger'.acked = ledger.acked \cup {c}
              /\ ledger'.fault = ledger.fault
          BY <2>1, <4>1, <4>5 DEF AcceptAck, Ledgers
        <5>2. Barrier!Execute(c)
          BY <4>1, <4>5, <5>1 DEF Barrier!Execute, Healthy
        <5>3. QED BY <5>2 DEF Barrier!Next
      <4>6. QED BY <4>4, <4>5
    <3>3. CASE ~AckAccepts(ledger, seq, at)
      BY <2>1, <2>2, <2>3, <3>1, <3>3, AckEffect
    <3>4. QED BY <3>2, <3>3
  <2>7. ASSUME NEW c \in Consumers, CallFail(c) PROVE [Barrier!Next]_Barrier!vars
    BY <2>2, <2>7 DEF CallFail, Fail, FaultReasons
  <2>8. CASE \/ Tick
             \/ \E p \in Producers : Prepare(p) \/ SampleDeadline(p)
             \/ \E c \in Consumers : Take(c) \/ SampleAck(c)
    BY <2>3, <2>8 DEF Tick, Prepare, SampleDeadline, Take, SampleAck
  <2>9. QED BY <2>4, <2>5, <2>6, <2>7, <2>8 DEF Next
<1>3. QED BY <1>1, <1>2, Invariant, PTL DEF Spec, CommitsAtomically, Barrier!Spec
=============================================================================
