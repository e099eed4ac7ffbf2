----------------------------- MODULE FrankaOwner -----------------------------
(* FrankaPersistentSession.run: the one thread that owns the arm.  Each cycle
   reads the state, samples the held policy target, asks the gate again, writes,
   and acknowledges a new target once; any exception ends the session, and the
   arm is stopped on every way out.

   `fr` is the thread's local state.  A check on measured state, torque flags,
   limits or timing that the loop may fail is a nondeterministic failure.      *)
EXTENDS LoopShared

CONSTANTS TargetMaxAge,      \* policy_command_max_age_s
          WriteDeadline      \* read_to_write_deadline_s

ASSUME FrankaAssumption == TargetMaxAge \in Nat /\ WriteDeadline \in Nat

VARIABLE fr

FrankaSteps == {"cycle", "read", "sample", "admit", "regate", "write", "ack",
                "fail_ledger", "fail_gate", "stop", "stop_ledger", "stop_gate",
                "done"}

Sessions == [pc : FrankaSteps,
             read : 0 .. MaxTime,          \* read_complete
             target : [seq : 0 .. MaxSequence, produced : 0 .. MaxTime],
             current : 0 .. MaxSequence,   \* current_target
             acked : 0 .. MaxSequence,     \* last_franka_acked_sequence
             failed : BOOLEAN,             \* failure is not None
             stopped : BOOLEAN,            \* stop_requested and stop_verified
             late : BOOLEAN]               \* history: see Admit

FrankaTypeOK == fr \in Sessions

FrankaInit ==
    fr = [pc |-> "cycle", read |-> 0, target |-> NoTarget, current |-> 0,
          acked |-> 0, failed |-> FALSE, stopped |-> FALSE, late |-> FALSE]

\* A cycle's own variables are dropped where the loop is left or starts again.
Dropped == [fr EXCEPT !.read = 0, !.target = NoTarget]

\* The loop raises: `failure` is kept and nothing more is written.
Raises == fr' = [Dropped EXCEPT !.pc = "fail_ledger", !.failed = TRUE]

Advances(step) == fr' = [fr EXCEPT !.pc = step]

\* The loop condition and the gate before the blocking read.
Cycle ==
    /\ fr.pc = "cycle"
    /\ IF cleanStop THEN Advances("stop")
       ELSE IF MotionPermitted THEN Advances("read") ELSE Raises
    /\ UNCHANGED shared

\* read_once and the validation of the measured state; the time of the read is
\* taken before both the validation and the sampling of the target.
Read ==
    /\ fr.pc = "read"
    /\ \/ fr' = [fr EXCEPT !.pc = "sample", !.read = now]
       \/ Raises
    /\ UNCHANGED shared

\* FrankaTargetSampleHold.sample judges the target by the time of the read: one
\* published since has a timestamp in the future.
SampleFuture == fr.read < hold.produced
SampleStale == fr.read - hold.produced > TargetMaxAge

\* Without a target the arm holds its bootstrap pose.
Sample ==
    /\ fr.pc = "sample"
    /\ IF hold = NoTarget THEN Advances("regate")
       ELSE IF SampleFuture \/ SampleStale THEN Raises
       ELSE fr' = [fr EXCEPT !.target = hold,
                             !.pc = IF hold.seq # fr.current THEN "admit"
                                    ELSE "regate"]
    /\ UNCHANGED shared

\* A new target is the next one, exactly the pending transaction, and follows
\* the last commit.
FollowsLedger ==
    /\ fr.target.seq = fr.current + 1
    /\ ledger.pending.seq = fr.target.seq
    /\ ledger.committed = fr.target.seq - 1

\* Its joint limits, rates and envelope may still refuse it.  `late` keeps whether
\* the gate had closed by then.
Admit ==
    /\ fr.pc = "admit"
    /\ IF FollowsLedger
       THEN \/ fr' = [fr EXCEPT !.pc = "regate", !.current = fr.target.seq,
                                !.late = gate.state # "armed"]
            \/ Raises
       ELSE Raises
    /\ UNCHANGED shared

TargetFresh == fr.current # 0 => now - fr.target.produced \in 0 .. TargetMaxAge

\* Mutant: the gate is asked only at the top of the cycle.
RegateTrustsCycle ==
    /\ fr.pc = "regate"
    /\ IF ~TargetFresh \/ now - fr.read > WriteDeadline THEN Raises
       ELSE Advances("write")
    /\ UNCHANGED shared

\* The final no-write boundary: gate, age and read-to-write deadline once more.
Regate ==
    /\ fr.pc = "regate"
    /\ IF ~MotionPermitted THEN Raises
       ELSE IF ~TargetFresh \/ now - fr.read > WriteDeadline THEN Raises
       ELSE Advances("write")
    /\ UNCHANGED shared

\* write_once, or write_bootstrap_hold without a target.
WriteOnce ==
    /\ fr.pc = "write"
    /\ \/ fr' = [fr EXCEPT !.pc = "ack"]
       \/ Raises
    /\ UNCHANGED shared

\* A new target is acknowledged once, by the time its write completed.
AckOnce ==
    /\ fr.pc = "ack"
    /\ IF now - fr.read > WriteDeadline
       THEN Raises /\ UNCHANGED ledger
       ELSE IF fr.current = fr.acked
       THEN fr' = [Dropped EXCEPT !.pc = "cycle"] /\ UNCHANGED ledger
       ELSE /\ ledger' = Acknowledge(ledger, "franka", fr.current, now)
            /\ IF AckAccepts(ledger, fr.current, now)
               THEN fr' = [Dropped EXCEPT !.pc = "cycle", !.acked = fr.current]
               ELSE Raises
    /\ UNCHANGED <<gate, now, hold, stopEvent, cleanStop, callbackFault>>

\* The handler of the loop, and the verdict of a stop that failed: the ledger
\* learns it first, then the gate closes.
FailLedger ==
    /\ fr.pc \in {"fail_ledger", "stop_ledger"}
    /\ ledger' = Fail(ledger)
    /\ Advances(IF fr.pc = "fail_ledger" THEN "fail_gate" ELSE "stop_gate")
    /\ UNCHANGED <<gate, now, hold, stopEvent, cleanStop, callbackFault>>

FailGate ==
    /\ fr.pc \in {"fail_gate", "stop_gate"}
    /\ gate' = LatchGate(gate, "external")
    /\ fr' = [fr EXCEPT !.pc = IF @ = "fail_gate" THEN "stop" ELSE "done",
                        !.failed = TRUE]
    /\ UNCHANGED <<ledger, now, hold, stopEvent, cleanStop, callbackFault>>

\* The finally clause up to its verdict: finish, a position write, is sent only
\* when nothing has failed; request_stop, _verify_stop and close are tried in any
\* case, and none that fails keeps the others from running.
StopBackend ==
    /\ fr.pc = "stop"
    /\ \E finishes, requested, verified, closes \in BOOLEAN :
         /\ fr.failed => finishes
         /\ fr' = [fr EXCEPT !.stopped = requested /\ verified,
                             !.pc = IF finishes /\ requested /\ verified /\ closes
                                    THEN "done" ELSE "stop_ledger"]
    /\ UNCHANGED shared

Franka ==
    \/ Cycle \/ Read \/ Sample \/ Admit \/ Regate \/ WriteOnce \/ AckOnce
    \/ FailLedger \/ FailGate \/ StopBackend

\* What the runtime reads of the ended thread: _franka_done and _franka_error.
FrankaDone == fr.pc = "done"
FrankaFailed == FrankaDone /\ fr.failed
=============================================================================
