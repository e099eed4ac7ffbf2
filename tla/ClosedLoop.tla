------------------------------ MODULE ClosedLoop ------------------------------
(* One closed-loop run, from the end of its setup: the policy thread
   (BoundedV94C2Runtime.run), the RH56 owner's worker and the Franka owner, over
   one ledger, one gate and one held target.  The specification is the supervised
   run of run_supervised_v94: the arm before the hand, a final hold and settle, an
   Event of its own that nobody sets, Ctrl+C as a KeyboardInterrupt, and the
   verdict of the audit.  The policy's steps also know the formal run, which
   BoundedC2Run puts under its orchestrator.

   `pol` is the policy thread.  Flags that only go up and that all raise when they
   are up are read in one action; a read whose outcome may differ from that of the
   next one is a step of its own, and so is each signal of a stop.             *)
EXTENDS RH56Owner, FrankaOwner, FiniteSets

CONSTANTS Period,          \* 1 / policy_rate_hz
          ResponseTimeout, \* of RH56WatchdogOwner.execute
          HardDeadline,    \* hard_deadline_monotonic_s
          HoldLimit        \* maximum_consecutive_no_stage_hold_s

ASSUME ClosedLoopAssumption ==
    /\ TRUE \in Modes            \* the run's owner is supervised
    /\ Period \in Nat \ {0}      \* a later command has a later timestamp
    /\ HardDeadline \in Nat
    /\ ResponseTimeout \in Nat \ {0}
    /\ HoldLimit \in Nat \ {0}

VARIABLES pol,
          external,        \* the Event passed to run
          records          \* sequences in _committed_commands

vars == <<shared, ownerVars, fr, pol, external, records>>

Releases == {"release", "release_stop", "release_recheck", "release_external",
             "release_due"}
InRun == Releases \cup
    {"prepare", "health", "stage", "publish", "barrier", "submit", "ticket",
     "faultcheck", "commit", "record", "source", "settle", "settle_call",
     "settle_ready", "settle_wait", "result"}
Stops == {"stop_loop", "stop_arm", "stop_hand"}
PolicySteps == InRun \cup Stops \cup
    {"exc_ledger", "exc_gate", "join_hand", "join_arm", "verdict", "end"}
Outcomes == {"running", "PASS", "FAIL", "STOPPED_VERIFIED", "FAULT_LATCHED"}

Policies == [pc : PolicySteps,
             cmd : Commands \cup {NoCommand},     \* `command`
             pending : BOOLEAN,                   \* _pending_command is set
             failurePending : 0 .. MaxSequence,   \* _failure_pending_command
             notBefore : 0 .. MaxTime + Period,
             holdSince : {Never} \cup 0 .. MaxTime, \* start of the no-stage holds
             final : BOOLEAN,                     \* in the final policy hold
             waitBy : 0 .. MaxTime + TrackingTimeout + FeedbackHardAge
                             + ResponseTimeout,   \* when the wait gives up
             failed : BOOLEAN,                    \* runtime.run raised
             hand : BOOLEAN, arm : BOOLEAN,       \* the stop proof
             errors : BOOLEAN,                    \* stop_errors # ()
             outcome : Outcomes]

PolicyTypeOK ==
    /\ pol \in Policies
    /\ external \in BOOLEAN
    /\ records \subseteq Sequences1

ClosedLoopTypeOK == SharedTypeOK /\ OwnerTypeOK /\ FrankaTypeOK /\ PolicyTypeOK

NewPolicy == [pc |-> "release", cmd |-> NoCommand, pending |-> FALSE,
              failurePending |-> 0, notBefore |-> 0, holdSince |-> Never,
              final |-> FALSE, waitBy |-> 0, failed |-> FALSE, hand |-> FALSE,
              arm |-> FALSE, errors |-> FALSE, outcome |-> "running"]

\* Setup has left the RH56 owner running, the arm holding its bootstrap pose and
\* no target published.
RunInit(supervised, heartbeat) ==
    /\ SharedInit
    /\ own = [NewOwner EXCEPT !.supervised = supervised, !.state = "running"]
    /\ act = ArmedActuator(heartbeat)
    /\ pc = "top" /\ why = "none"
    /\ ticket = [n \in Sequences1 |-> "none"]
    /\ lastFeedback = 0
    /\ tracking = [state |-> "idle", by |-> 0]
    /\ port = [disable |-> FALSE, serial |-> "open"]
    /\ writes = [n \in Sequences1 |-> 0]
    /\ FrankaInit
    /\ pol = NewPolicy
    /\ external = FALSE
    /\ records = {}

\* The supervised hand has no heartbeat before its first target.
Init == RunInit(TRUE, Never)

(* helpers ------------------------------------------------------------------ *)

\* The deadlines of a wait are dropped with it, as locals of the method are; a
\* streak of holds is closed where a command or the end of the loop wins.
Step(step) == pol' = [pol EXCEPT !.pc = step,
                        !.notBefore = IF step \in Releases THEN @ ELSE 0,
                        !.holdSince = IF step \in Releases \cup {"prepare"} THEN @
                                      ELSE Never,
                        !.waitBy = IF step = "settle_wait" THEN @ ELSE 0]

\* An exception reaches run's except clause.
Throws == Step("exc_ledger")

\* _require_rh56_healthy passes.
HandHealthy == ~own.fault /\ own.state # "fault_latched" /\ ~callbackFault

Stopping == stopEvent \/ external

OnlyPolicy == UNCHANGED <<shared, ownerVars, fr, external, records>>

\* When the policy may run again: at 20 Hz the first slot of an absolute grid after
\* now (_advance_phase_locked_policy_release), however many slots have been overrun;
\* at any other rate a period after the last tick, which may be over.
SlotsAfter(tick) == now + (IF tick + Period > now THEN 1 ELSE 0) .. now + Period

(* the loop of run ---------------------------------------------------------- *)

\* _wait_for_policy_release, one round: both owners, the stop event, the owners
\* once more if it is set, the event of the caller, then the clock.
Release ==
    /\ pol.pc = "release"
    /\ IF FrankaFailed \/ ~HandHealthy THEN Throws ELSE Step("release_stop")
    /\ OnlyPolicy

ReleaseStop ==
    /\ pol.pc = "release_stop"
    /\ Step(IF stopEvent THEN "release_recheck" ELSE "release_external")
    /\ OnlyPolicy

\* The wait returns for a stop: the loop is left; in the final hold this raises.
LeaveLoop == IF pol.final THEN Throws ELSE Step("result")

\* Mutant: a stop seen after the checks is taken for an asked one.
ReleaseUnchecked ==
    /\ pol.pc = "release_recheck"
    /\ LeaveLoop
    /\ OnlyPolicy

\* The RH56 callback raises the stop event too, after it has kept its fault.
ReleaseRecheck ==
    /\ pol.pc = "release_recheck"
    /\ IF FrankaFailed \/ ~HandHealthy THEN Throws ELSE LeaveLoop
    /\ OnlyPolicy

ReleaseExternal ==
    /\ pol.pc = "release_external"
    /\ IF external THEN LeaveLoop ELSE Step("release_due")
    /\ OnlyPolicy

\* A streak of holds is bounded from its first one.
HoldDue == pol.holdSince # Never /\ now >= pol.holdSince + HoldLimit

AtRelease ==
    IF now >= pol.notBefore THEN Step(IF pol.final THEN "settle" ELSE "prepare")
    ELSE IF MotionPermitted THEN Step("release") ELSE Throws

\* Mutant: the hard deadline is left to the waits on the devices.
ReleaseUndue ==
    /\ pol.pc = "release_due"
    /\ IF FrankaDone \/ HoldDue THEN Throws ELSE AtRelease
    /\ OnlyPolicy

ReleaseDue ==
    /\ pol.pc = "release_due"
    /\ IF FrankaDone \/ HoldDue \/ now >= HardDeadline THEN Throws ELSE AtRelease
    /\ OnlyPolicy

\* The live boundary, the committed snapshot and source.prepare: a command, a
\* hold that stages nothing, or an exception.
Prepare ==
    /\ pol.pc = "prepare"
    /\ \/ Throws
       \/ /\ MotionPermitted /\ ~HoldDue
          /\ Supervised => HandHealthy
          /\ \E slot \in now .. now + Period :
               pol' = [pol EXCEPT !.pc = "release", !.notBefore = slot,
                         !.holdSince = IF @ = Never THEN now ELSE @]
       \/ /\ MotionPermitted /\ ~HoldDue
          /\ \E a \in Actions :
               pol' = [pol EXCEPT !.pc = IF Supervised THEN "health" ELSE "stage",
                         !.pending = ~Supervised, !.holdSince = Never,
                         !.cmd = [seq |-> ledger.committed + 1,
                                  previous |-> ledger.previous,
                                  executed |-> a, produced |-> now]]
    /\ OnlyPolicy

\* The supervised run looks at the hand once more before it publishes.
Health ==
    /\ pol.pc = "health"
    /\ IF HandHealthy /\ MotionPermitted
       THEN pol' = [pol EXCEPT !.pc = "stage", !.pending = TRUE]
       ELSE Throws
    /\ OnlyPolicy

StageStep ==
    /\ pol.pc = "stage"
    /\ ledger' = Stage(ledger, pol.cmd, now)
    /\ IF StageAccepts(ledger, pol.cmd, now) THEN Step("publish") ELSE Throws
    /\ UNCHANGED <<gate, now, hold, stopEvent, cleanStop, callbackFault,
                   ownerVars, fr, external, records>>

PublishStep ==
    /\ pol.pc = "publish"
    /\ IF PublishAccepts(pol.cmd)
       THEN hold' = Published(pol.cmd) /\ Step(IF Supervised THEN "barrier" ELSE "submit")
       ELSE Throws /\ UNCHANGED hold
    /\ UNCHANGED <<ledger, gate, now, stopEvent, cleanStop, callbackFault,
                   ownerVars, fr, external, records>>

\* What makes a wait on the devices raise.
WaitBroken == FrankaFailed \/ ~HandHealthy \/ FrankaDone \/ Stopping

\* The end of one round of a wait that has not been answered: the hard deadline,
\* the live boundary and the ledger's commit deadline.
WaitOn ==
    /\ ledger' = IF now >= HardDeadline \/ ~MotionPermitted THEN ledger
                 ELSE RequireCommitDeadline(ledger, now)
    /\ IF now >= HardDeadline \/ ~MotionPermitted \/ ~Healthy(ledger')
       THEN Throws ELSE UNCHANGED pol

\* Mutant: the hand is commanded without waiting for the arm.
BarrierOpen ==
    /\ pol.pc = "barrier"
    /\ Step("submit")
    /\ OnlyPolicy

\* _wait_for_franka_ack_before_rh56, one round.
Barrier ==
    /\ pol.pc = "barrier"
    /\ \/ (WaitBroken \/ ~QueryLegal(ledger, pol.cmd.seq)) /\ Throws /\ UNCHANGED ledger
       \/ /\ ~WaitBroken /\ ConsumerAcknowledged(ledger, "franka", pol.cmd.seq)
          /\ IF MotionPermitted THEN Step("submit") ELSE Throws
          /\ UNCHANGED ledger
       \/ /\ ~WaitBroken /\ QueryLegal(ledger, pol.cmd.seq)
          /\ ~ConsumerAcknowledged(ledger, "franka", pol.cmd.seq)
          /\ WaitOn
    /\ UNCHANGED <<gate, now, hold, stopEvent, cleanStop, callbackFault,
                   ownerVars, fr, external, records>>

\* owner.execute: submit, then wait for the ticket with a timeout that stops the
\* owner.
SubmitStep ==
    /\ pol.pc = "submit"
    /\ \/ /\ Submit(pol.cmd.seq)
          /\ pol' = [pol EXCEPT !.pc = "ticket", !.waitBy = now + ResponseTimeout]
       \/ ~SubmitAccepts(pol.cmd.seq) /\ Throws /\ UNCHANGED ownerVars
    /\ UNCHANGED <<shared, fr, external, records>>

TicketStep ==
    /\ pol.pc = "ticket"
    /\ \/ ticket[pol.cmd.seq] = "receipt" /\ Step("faultcheck") /\ UNCHANGED ownerVars
       \/ ticket[pol.cmd.seq] = "error" /\ Throws /\ UNCHANGED ownerVars
       \/ /\ ticket[pol.cmd.seq] = "queued"
          /\ now >= pol.waitBy
          /\ Throws /\ RequestOwnerStop
    /\ UNCHANGED <<shared, fr, external, records>>

FaultCheck ==
    /\ pol.pc = "faultcheck"
    /\ IF own.fault \/ own.state = "fault_latched" THEN Throws ELSE Step("commit")
    /\ OnlyPolicy

\* _wait_for_dual_commit, one round.  Behind the barrier a receipt is the second
\* acknowledgement, and there is nothing left to wait for (CommitMeansBothMoved);
\* in the formal run the arm's may come later.
CommitWait ==
    /\ pol.pc = "commit"
    /\ \/ /\ ledger.committed < pol.cmd.seq
          /\ \/ WaitBroken /\ Throws /\ UNCHANGED ledger
             \/ ~WaitBroken /\ WaitOn
       \/ /\ ledger.committed >= pol.cmd.seq
          /\ IF ledger.committed = pol.cmd.seq /\ ~HasPending(ledger)
             THEN Step("record") ELSE Throws
          /\ UNCHANGED ledger
    /\ UNCHANGED <<gate, now, hold, stopEvent, cleanStop, callbackFault,
                   ownerVars, fr, external, records>>

\* The audit record comes before the policy's own bookkeeping can fail.
Record ==
    /\ pol.pc = "record"
    /\ records' = records \cup {pol.cmd.seq}
    /\ Step("source")
    /\ UNCHANGED <<shared, ownerVars, fr, external>>

\* source.commit and the feedback of the committed step; then the next slot, or
\* the end of the loop, which in the supervised run holds the last target first.
SourceCommit ==
    /\ pol.pc = "source"
    /\ \/ Throws
       \/ /\ ledger.committed < MaxSequence
          /\ \E slot \in SlotsAfter(pol.cmd.produced) :
               pol' = [pol EXCEPT !.pc = "release", !.pending = FALSE,
                                  !.cmd = NoCommand, !.notBefore = slot]
       \/ /\ ledger.committed = MaxSequence /\ Supervised
          /\ pol' = [pol EXCEPT !.pc = "release", !.pending = FALSE,
                                !.cmd = NoCommand, !.notBefore = now + Period,
                                !.final = TRUE]
       \/ /\ ledger.committed = MaxSequence /\ ~Supervised
          /\ pol' = [pol EXCEPT !.pc = "result", !.pending = FALSE,
                                !.cmd = NoCommand]
    /\ OnlyPolicy

(* the final settle of the hand ---------------------------------------------- *)

\* _wait_for_final_rh56_physical_tracking: a challenge still open stops the arm
\* first, then holds the hand until motion is evidenced.
Settle ==
    /\ pol.pc = "settle"
    /\ \/ /\ tracking.state \in {"idle", "verified", "failed"}
          /\ IF tracking.state = "failed" THEN Throws ELSE Step("result")
          /\ UNCHANGED cleanStop
       \/ /\ tracking.state \in {"active", "lapsed"}
          /\ Step("settle_call")
          /\ cleanStop' = TRUE
    /\ UNCHANGED <<ledger, gate, now, hold, stopEvent, callbackFault, ownerVars,
                   fr, external, records>>

\* begin_final_tracking_settle: refused, granted at once to a hand that has just
\* been verified, or requested from the worker.
SettleCall ==
    /\ pol.pc = "settle_call"
    /\ \/ /\ BeginSettle
          /\ pol' = [pol EXCEPT !.pc = "settle_ready", !.waitBy = own'.settleBy]
       \/ /\ SettleIdle /\ tracking.state = "verified"
          /\ pol' = [pol EXCEPT !.pc = "settle_wait", !.waitBy = now]
          /\ UNCHANGED ownerVars
       \/ /\ ~SettleAccepts /\ ~(SettleIdle /\ tracking.state = "verified")
          /\ Throws /\ UNCHANGED ownerVars
    /\ UNCHANGED <<shared, fr, external, records>>

SettleReady ==
    /\ pol.pc = "settle_ready"
    /\ \/ own.settle = "active" /\ Step("settle_wait") /\ UNCHANGED ownerVars
       \/ SettleGivesUp /\ Throws
       \/ own.settle = "no" /\ Throws /\ UNCHANGED ownerVars
    /\ UNCHANGED <<shared, fr, external, records>>

\* Its rounds.  The arm may have stopped by now, but not without proof.
SettleBroken ==
    \/ Stopping \/ FrankaFailed \/ ~HandHealthy
    \/ FrankaDone /\ ~fr.stopped
    \/ tracking.state = "failed"

SettleWait ==
    /\ pol.pc = "settle_wait"
    /\ IF SettleBroken THEN Throws
       ELSE IF tracking.state = "verified" THEN Step("result")
       ELSE IF now >= HardDeadline \/ now >= pol.waitBy \/ ~MotionPermitted THEN Throws
       ELSE UNCHANGED pol
    /\ OnlyPolicy

\* The result is built unless a challenged hand was never seen to move.
Result ==
    /\ pol.pc = "result"
    /\ IF tracking.state \in {"active", "lapsed", "failed"}
       THEN Throws ELSE Step("stop_loop")
    /\ OnlyPolicy

(* the except clause, the stop and the verdict --------------------------------- *)

\* The failing command is kept for the audit while it is still pending, and the
\* pending transaction is failed.
ExceptLedger ==
    /\ pol.pc = "exc_ledger"
    /\ LET open == pol.pending /\ ledger.pending.seq = pol.cmd.seq
       IN  /\ ledger' = IF open THEN Fail(ledger) ELSE ledger
           /\ pol' = [pol EXCEPT !.pc = "exc_gate", !.failed = TRUE,
                         !.pending = FALSE, !.cmd = NoCommand,
                         !.failurePending = IF open THEN pol.cmd.seq ELSE @]
    /\ UNCHANGED <<gate, now, hold, stopEvent, cleanStop, callbackFault,
                   ownerVars, fr, external, records>>

ExceptGate ==
    /\ pol.pc = "exc_gate"
    /\ gate' = LatchGate(gate, "external")
    /\ Step("stop_loop")
    /\ UNCHANGED <<ledger, now, hold, stopEvent, cleanStop, callbackFault,
                   ownerVars, fr, external, records>>

\* request_stop: the loop, the arm, then the hand.  The except clause calls it, the
\* caller's finally clause once more, and stop_and_verify a third time; a signal
\* that is up stays up, so one call stands for all.
StopLoop ==
    /\ pol.pc = "stop_loop"
    /\ stopEvent' = TRUE
    /\ Step("stop_arm")
    /\ UNCHANGED <<ledger, gate, now, hold, cleanStop, callbackFault, ownerVars,
                   fr, external, records>>

StopArm ==
    /\ pol.pc = "stop_arm"
    /\ cleanStop' = TRUE
    /\ Step("stop_hand")
    /\ UNCHANGED <<ledger, gate, now, hold, stopEvent, callbackFault, ownerVars,
                   fr, external, records>>

StopHand ==
    /\ pol.pc = "stop_hand"
    /\ RequestOwnerStop
    /\ Step("join_hand")
    /\ UNCHANGED <<shared, fr, external, records>>

\* stop_and_verify: the join of each owner is bounded, and one that has not ended
\* proves nothing.  Only the supervised run asks for the attempt and the port.
HandProven == /\ DisabledVerified
              /\ Supervised => port.disable /\ port.serial = "closed"

\* Mutant: a fault of the hand whose stop was verified is no error of the stop.
JoinHandForgives ==
    /\ pol.pc = "join_hand"
    /\ LET proven == pc = "done" /\ HandProven
       IN  pol' = [pol EXCEPT !.pc = "join_arm", !.hand = proven, !.errors = ~proven]
    /\ OnlyPolicy

JoinHand ==
    /\ pol.pc = "join_hand"
    /\ LET proven == pc = "done" /\ HandProven
       IN  pol' = [pol EXCEPT !.pc = "join_arm", !.hand = proven,
                              !.errors = ~proven \/ (Supervised /\ own.fault)]
    /\ OnlyPolicy

\* A failure of the arm's owner whose stop was verified is no error of the stop;
\* the close of the policy source, last of all, may be one.
JoinArm ==
    /\ pol.pc = "join_arm"
    /\ LET proven == FrankaDone /\ fr.stopped
       IN  \E closes \in BOOLEAN :
             pol' = [pol EXCEPT !.pc = "verdict", !.arm = proven,
                                !.errors = @ \/ ~proven \/ ~closes]
    /\ OnlyPolicy

Proven == pol.hand /\ pol.arm

\* The audit's result and the last lines of run_supervised_v94.  Its other checks
\* of the tracking have been made by Result.
Verdict ==
    /\ pol.pc = "verdict"
    /\ LET passes == /\ ~pol.failed /\ Proven /\ ~pol.errors
                     /\ ledger.committed = MaxSequence
       IN  /\ pol' = [pol EXCEPT !.pc = "end",
                                 !.outcome = IF passes THEN "PASS" ELSE "FAIL"]
           /\ gate' = IF passes THEN Disarm(gate, "run", TRUE, TRUE) ELSE gate
    /\ UNCHANGED <<ledger, now, hold, stopEvent, cleanStop, callbackFault,
                   ownerVars, fr, external, records>>

\* The steps of the runtime, whoever runs it.
Runtime ==
    \/ Release \/ ReleaseStop \/ ReleaseRecheck \/ ReleaseExternal \/ ReleaseDue
    \/ Prepare \/ Health \/ StageStep \/ PublishStep
    \/ Barrier \/ SubmitStep \/ TicketStep \/ FaultCheck \/ CommitWait \/ Record
    \/ SourceCommit \/ Settle \/ SettleCall \/ SettleReady \/ SettleWait \/ Result
    \/ ExceptLedger \/ ExceptGate \/ StopLoop \/ StopArm \/ StopHand
    \/ JoinHand \/ JoinArm

Policy == Runtime \/ Verdict

(* the environment ------------------------------------------------------------ *)

\* Ctrl+C is a KeyboardInterrupt in the main thread, which the policy is: it may
\* come at any step of run, whose except clause catches it.  RH56WatchdogOwner.
\* execute stops the owner before it lets it pass.
Interrupted ==
    /\ pol.pc \in InRun
    /\ Throws
    /\ IF pol.pc = "ticket" /\ ticket[pol.cmd.seq] = "queued"
       THEN RequestOwnerStop ELSE UNCHANGED ownerVars
    /\ UNCHANGED <<shared, fr, external, records>>

InterlockOpens ==
    /\ gate.deadman = "ok"
    /\ gate' = UpdateInterlocks(gate, "open", "ok")
    /\ UNCHANGED <<ledger, now, hold, stopEvent, cleanStop, callbackFault,
                   ownerVars, fr, pol, external, records>>

Tick ==
    /\ now < MaxTime
    /\ now' = now + 1
    /\ UNCHANGED <<ledger, gate, hold, stopEvent, cleanStop, callbackFault,
                   ownerVars, fr, pol, external, records>>

HandThread == Worker /\ UNCHANGED <<fr, pol, external, records>>
ArmThread == Franka /\ UNCHANGED <<ownerVars, pol, external, records>>
Alone == HandThread \/ ArmThread \/ Policy \/ Tick

Next == Alone \/ Interrupted \/ InterlockOpens

Spec == Init /\ [][Next]_vars

(* properties --------------------------------------------------------------- *)

\* _wait_for_franka_ack_before_rh56: a target the arm rejected or never wrote does
\* not move the hand.
FrankaFirst ==
    Supervised => \A n \in Sequences1 : writes[n] > 0 => fr.acked >= n

\* A committed sequence was written by both owners, whoever acknowledged last, and
\* the hand's receipt tells the policy of a commit that the ledger really holds.
CommitMeansBothMoved ==
    /\ pol.pc \in {"record", "source"} \/ (Supervised /\ pol.pc = "commit") =>
         ledger.committed = pol.cmd.seq
    /\ fr.acked >= ledger.committed
    /\ act.acked >= ledger.committed
    /\ act.holds >= ledger.committed

\* A target that the arm took up after the gate had closed is neither written by
\* the arm nor passed to the hand, though it was staged and published before.
NoTargetAfterLatch ==
    Supervised /\ fr.late =>
        /\ fr.pc \notin {"write", "ack"}
        /\ fr.acked < fr.current
        /\ writes[fr.current] = 0

\* PASS is earned: every requested sequence was committed and is in the audit
\* records, nothing is left pending and no challenge of the hand unproven; the
\* hand's owner saw no fault up to its own end, which came with a verified stop and
\* a closed port; the arm is proven stopped; and the gate is not left armed.
PassMeansCleanRun ==
    pol.outcome = "PASS" =>
        /\ ledger.committed = MaxSequence /\ ~HasPending(ledger)
        /\ records = Sequences1
        /\ tracking.state \in {"idle", "verified"}
        /\ pc = "done" /\ ~own.fault /\ act.confirmed
        /\ port.disable /\ port.serial = "closed"
        /\ FrankaDone /\ fr.stopped
        /\ gate.state # "armed"

\* In a run that nobody asks to stop, the stop event of the loop is the hand's
\* fault, and it never ends the loop like an asked stop: run returns a result only
\* after the last sequence, and raises otherwise.
StopIsNoResult ==
    Supervised /\ pol.pc \in {"result", "verdict"} \cup Stops /\ ~pol.failed =>
        ledger.committed = MaxSequence

\* The bounded run ends: no wait of the policy thread outlives the hard deadline,
\* whatever the devices do.
RunEnds == <>(pol.pc = "end")

\* The records ``remain populated on a FAIL after dual ACK'': at the end of a run
\* every committed sequence has a record or is the failing pending command.
AuditComplete ==
    pol.pc = "end" =>
        \A n \in 1 .. ledger.committed : n \in records \/ pol.failurePending = n
===============================================================================
