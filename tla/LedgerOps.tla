------------------------------ MODULE LedgerOps ------------------------------
(* The dual-actuator commit barrier, ExecutedActionLedger, as a value and the
   operations its methods perform on it.  Every method of the class runs under
   one lock, so each is one function from ledger to ledger; the modules that
   use the barrier (ActionLedger alone, RH56Owner, FrankaOwner and ClosedLoop
   together) decide who calls it, with which arguments and when.

   Policy actions are members of Actions, timestamps are integers, and the text
   of a fault reason is abstracted to the check that latched it.              *)
EXTENDS Integers

CONSTANTS Actions,           \* values of an executed policy action
          InitialPrevious,   \* INITIAL_PREVIOUS_ACTION13
          MaxCommitLatency   \* maximum_commit_latency_s

ASSUME LedgerAssumption ==
    /\ InitialPrevious \in Actions
    /\ MaxCommitLatency \in Nat

\* COMMAND_CONSUMERS: both must acknowledge a sequence before it commits.
Consumers == {"franka", "rh56"}

FaultReasons == {"none", "double_stage", "sequence", "previous", "stale",
                 "ack_sequence", "ack_future", "ack_late", "clock", "deadline",
                 "device"}

\* The fields of ClosedLoopCommand that the barrier reads.
Commands == [seq : Nat \ {0}, previous : Actions, executed : Actions,
             produced : Int]

\* `_pending is None`; the sequence of a real command is positive.
NoCommand == [seq |-> 0, previous |-> InitialPrevious,
              executed |-> InitialPrevious, produced |-> 0]

Ledgers == [previous : Actions, committed : Nat,
            pending : Commands \cup {NoCommand},
            acked : SUBSET Consumers, fault : FaultReasons]

NewLedger == [previous |-> InitialPrevious, committed |-> 0,
              pending |-> NoCommand, acked |-> {}, fault |-> "none"]

Healthy(l) == l.fault = "none"

HasPending(l) == l.pending.seq # 0

\* _fault_locked: the first reason is kept.
Latch(l, why) == IF Healthy(l) THEN [l EXCEPT !.fault = why] ELSE l

Age(cmd, now) == now - cmd.produced

(* stage ----------------------------------------------------------------- *)

\* The check of stage that latches, in the order the method makes them.
StageFault(l, cmd, now) ==
    IF HasPending(l) THEN "double_stage"
    ELSE IF cmd.seq # l.committed + 1 THEN "sequence"
    ELSE IF cmd.previous # l.previous THEN "previous"
    ELSE IF Age(cmd, now) > MaxCommitLatency THEN "stale"
    ELSE "none"

\* stage returns normally.  A timestamp in the future raises and latches
\* nothing, so it is neither an acceptance nor a fault.
StageAccepts(l, cmd, now) ==
    Healthy(l) /\ StageFault(l, cmd, now) = "none" /\ Age(cmd, now) >= 0

\* The ledger after stage, whether it returned or raised.
Stage(l, cmd, now) ==
    IF StageAccepts(l, cmd, now)
    THEN [l EXCEPT !.pending = cmd, !.acked = {}]
    ELSE Latch(l, StageFault(l, cmd, now))

(* acknowledge ----------------------------------------------------------- *)

AckFault(l, seq, now) ==
    IF seq # l.pending.seq THEN "ack_sequence"
    ELSE IF Age(l.pending, now) < 0 THEN "ack_future"
    ELSE IF Age(l.pending, now) > MaxCommitLatency THEN "ack_late"
    ELSE "none"

AckAccepts(l, seq, now) ==
    Healthy(l) /\ HasPending(l) /\ AckFault(l, seq, now) = "none"

\* Mutant: one acknowledgement commits.
AcceptAckAlone(l, c) ==
    [l EXCEPT !.previous = l.pending.executed, !.committed = l.pending.seq,
              !.pending = NoCommand, !.acked = {}]

\* Mutant: the commit leaves the acknowledgements behind.
AcceptAckDirty(l, c) ==
    IF l.acked \cup {c} = Consumers
    THEN [l EXCEPT !.previous = l.pending.executed,
                   !.committed = l.pending.seq,
                   !.pending = NoCommand]
    ELSE [l EXCEPT !.acked = @ \cup {c}]

\* Mutant: the sequence advances and the executed action does not.
AcceptAckTorn(l, c) ==
    IF l.acked \cup {c} = Consumers
    THEN [l EXCEPT !.committed = l.pending.seq,
                   !.pending = NoCommand, !.acked = {}]
    ELSE [l EXCEPT !.acked = @ \cup {c}]

\* Mutant: the pending command is cleared by its number only.
AcceptAckHalfCleared(l, c) ==
    IF l.acked \cup {c} = Consumers
    THEN [l EXCEPT !.previous = l.pending.executed,
                   !.committed = l.pending.seq,
                   !.pending.seq = 0, !.acked = {}]
    ELSE [l EXCEPT !.acked = @ \cup {c}]

\* The second acknowledgement commits sequence and action together.
AcceptAck(l, c) ==
    IF l.acked \cup {c} = Consumers
    THEN [l EXCEPT !.previous = l.pending.executed,
                   !.committed = l.pending.seq,
                   !.pending = NoCommand, !.acked = {}]
    ELSE [l EXCEPT !.acked = @ \cup {c}]

\* Without a pending command, or on a failed ledger, the call raises and
\* changes nothing.
Acknowledge(l, c, seq, now) ==
    IF ~Healthy(l) \/ ~HasPending(l) THEN l
    ELSE IF AckAccepts(l, seq, now) THEN AcceptAck(l, c)
    ELSE Latch(l, AckFault(l, seq, now))

(* deadline, device failure, query --------------------------------------- *)

\* Mutant: the deadline is never enforced.
DeadlineFaultNever(l, now) == "none"

DeadlineFault(l, now) ==
    IF ~HasPending(l) THEN "none"
    ELSE IF Age(l.pending, now) < 0 THEN "clock"
    ELSE IF Age(l.pending, now) > MaxCommitLatency THEN "deadline"
    ELSE "none"

\* require_commit_deadline
RequireCommitDeadline(l, now) == Latch(l, DeadlineFault(l, now))

\* fail: any owner may report its device, whatever is pending.
Fail(l) == Latch(l, "device")

\* consumer_acknowledged: the query is legal for the pending sequence and for
\* the last committed one; any other raises.
QueryLegal(l, seq) ==
    Healthy(l) /\ (seq = l.committed \/ (HasPending(l) /\ seq = l.pending.seq))

ConsumerAcknowledged(l, c, seq) ==
    QueryLegal(l, seq) /\ (seq = l.committed \/ c \in l.acked)
=============================================================================
