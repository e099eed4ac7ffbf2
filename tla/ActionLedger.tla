---------------------------- MODULE ActionLedger ----------------------------
(* ExecutedActionLedger and the threads that may call it, in every order its
   lock admits.  A producer reads a committed snapshot, builds a command from
   it, and stages it later; it samples the clock and checks the deadline later.
   An executor takes the pending sequence, executes it, samples the clock, and
   acknowledges later, or reports that its device failed.  Between the reading
   and the call the ledger may have moved on: that is what its checks are for. *)
EXTENDS LedgerOps, FiniteSets, Sequences

CONSTANTS Producers,      \* threads that stage commands
          MaxSequence,    \* bound: sequence numbers produced
          MaxTime         \* bound: the clock

ASSUME ActionLedgerAssumption ==
    /\ MaxSequence \in Nat
    /\ MaxTime \in Nat

VARIABLES ledger,
          now,            \* the monotonic clock
          producer,       \* per producer: [pc, cmd, at]
          executor,       \* per consumer: [pc, seq, at]
          staged,         \* history: the commands accepted by stage, in order
          acks            \* history: per consumer, sequences it acknowledged

vars == <<ledger, now, producer, executor, staged, acks>>

Producer == [pc : {"idle", "prepared", "sampled"},
             cmd : Commands \cup {NoCommand}, at : Nat]
Executor == [pc : {"idle", "holding", "sampled"}, seq : Nat, at : Nat]

TypeOK == /\ ledger \in Ledgers
          /\ now \in Nat
          /\ producer \in [Producers -> Producer]
          /\ executor \in [Consumers -> Executor]
          /\ staged \in Seq(Commands)
          /\ acks \in [Consumers -> SUBSET Nat]

Init == /\ ledger = NewLedger
        /\ now = 0
        /\ producer = [p \in Producers |->
                         [pc |-> "idle", cmd |-> NoCommand, at |-> 0]]
        /\ executor = [c \in Consumers |-> [pc |-> "idle", seq |-> 0, at |-> 0]]
        /\ staged = <<>>
        /\ acks = [c \in Consumers |-> {}]

Tick == /\ now < MaxTime
        /\ now' = now + 1
        /\ UNCHANGED <<ledger, producer, executor, staged, acks>>

(* producers --------------------------------------------------------------- *)

\* committed_snapshot, and the command the policy computes from it.
Prepare(p) ==
    /\ producer[p].pc = "idle"
    /\ ledger.committed < MaxSequence
    /\ now + MaxCommitLatency < MaxTime    \* bound: the deadline stays reachable
    /\ \E a \in Actions :
         producer' = [producer EXCEPT ![p] =
           [pc |-> "prepared", at |-> now,
            cmd |-> [seq |-> ledger.committed + 1, previous |-> ledger.previous,
                     executed |-> a, produced |-> now]]]
    /\ UNCHANGED <<ledger, now, executor, staged, acks>>

CallStage(p) ==
    /\ producer[p].pc = "prepared"
    /\ ledger' = Stage(ledger, producer[p].cmd, now)
    /\ staged' = IF StageAccepts(ledger, producer[p].cmd, now)
                 THEN Append(staged, producer[p].cmd) ELSE staged
    /\ producer' = [producer EXCEPT ![p] =
                      [pc |-> "idle", cmd |-> NoCommand, at |-> 0]]
    /\ UNCHANGED <<now, executor, acks>>

\* The clock is read before require_commit_deadline takes the lock.
SampleDeadline(p) ==
    /\ producer[p].pc = "idle"
    /\ producer' = [producer EXCEPT ![p] =
                      [pc |-> "sampled", cmd |-> NoCommand, at |-> now]]
    /\ UNCHANGED <<ledger, now, executor, staged, acks>>

CallDeadline(p) ==
    /\ producer[p].pc = "sampled"
    /\ ledger' = RequireCommitDeadline(ledger, producer[p].at)
    /\ producer' = [producer EXCEPT ![p] =
                      [pc |-> "idle", cmd |-> NoCommand, at |-> 0]]
    /\ UNCHANGED <<now, executor, staged, acks>>

(* executors --------------------------------------------------------------- *)

\* The owner of device c starts on the pending command.
Take(c) ==
    /\ executor[c].pc = "idle"
    /\ HasPending(ledger)
    /\ executor' = [executor EXCEPT ![c] =
                      [pc |-> "holding", seq |-> ledger.pending.seq, at |-> 0]]
    /\ UNCHANGED <<ledger, now, producer, staged, acks>>

SampleAck(c) ==
    /\ executor[c].pc = "holding"
    /\ executor' = [executor EXCEPT ![c].pc = "sampled", ![c].at = now]
    /\ UNCHANGED <<ledger, now, producer, staged, acks>>

CallAcknowledge(c) ==
    /\ executor[c].pc = "sampled"
    /\ ledger' = Acknowledge(ledger, c, executor[c].seq, executor[c].at)
    /\ acks' = IF AckAccepts(ledger, executor[c].seq, executor[c].at)
               THEN [acks EXCEPT ![c] = @ \cup {executor[c].seq}] ELSE acks
    /\ executor' = [executor EXCEPT ![c] = [pc |-> "idle", seq |-> 0, at |-> 0]]
    /\ UNCHANGED <<now, producer, staged>>

\* The device failed, with or without a command in hand.
CallFail(c) ==
    /\ ledger' = Fail(ledger)
    /\ executor' = [executor EXCEPT ![c] = [pc |-> "idle", seq |-> 0, at |-> 0]]
    /\ UNCHANGED <<now, producer, staged, acks>>

Next == \/ Tick
        \/ \E p \in Producers : \/ Prepare(p)
                                \/ CallStage(p)
                                \/ SampleDeadline(p)
                                \/ CallDeadline(p)
        \/ \E c \in Consumers : \/ Take(c)
                                \/ SampleAck(c)
                                \/ CallAcknowledge(c)
                                \/ CallFail(c)

Spec == Init /\ [][Next]_vars

\* The clock runs, and a producer keeps polling the deadline while it waits
\* for the commit (_wait_for_dual_commit).
FairSpec == /\ Spec
            /\ WF_vars(Tick)
            /\ \A p \in Producers : /\ WF_vars(CallStage(p))
                                    /\ SF_vars(SampleDeadline(p))
                                    /\ WF_vars(CallDeadline(p))

(* properties -------------------------------------------------------------- *)

\* The committed sequence is what both devices have acknowledged, each sequence
\* in turn: neither device's acknowledgement is lost, invented, or carried from
\* one command to the next, and a device is ahead by at most the pending one.
CommitMeansBothAcked ==
    \A c \in Consumers :
       acks[c] = (1 .. ledger.committed)
                   \cup (IF c \in ledger.acked THEN {ledger.committed + 1} ELSE {})

\* The previous action handed to the policy is the one both devices executed
\* last, and every accepted command was computed from exactly that action.
PreviousIsExecuted ==
    /\ Len(staged) = ledger.committed + (IF HasPending(ledger) THEN 1 ELSE 0)
    /\ HasPending(ledger) => ledger.pending = staged[Len(staged)]
    /\ ledger.previous = IF ledger.committed = 0 THEN InitialPrevious
                         ELSE staged[ledger.committed].executed
    /\ \A i \in DOMAIN staged :
          /\ staged[i].seq = i
          /\ staged[i].previous = IF i = 1 THEN InitialPrevious
                                  ELSE staged[i-1].executed

\* A latched ledger never moves again: not its first reason, not the pending
\* command the failure report quotes, not the committed action.
FaultFreezesLedger == [][~Healthy(ledger) => UNCHANGED ledger]_ledger

\* A staged command is not outstanding for ever: it commits, or the deadline
\* latches the fault that stops both devices.
PendingResolves ==
    \A n \in 1 .. MaxSequence :
       (ledger.pending.seq = n) ~> (ledger.committed >= n \/ ~Healthy(ledger))

\* The barrier implements the atomic commit of actions.
Barrier == INSTANCE AtomicActionCommit
             WITH Actuators <- Consumers, Values <- Actions,
                  FirstValue <- InitialPrevious,
                  count <- ledger.committed, executed <- ledger.previous,
                  done <- ledger.acked, halted <- ~Healthy(ledger)

CommitsAtomically == Barrier!Spec
=============================================================================
