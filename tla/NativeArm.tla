----------------------------- MODULE NativeArm -----------------------------
(* The native arm owner: the servo process, the session proxy and the threads
   that call it, over one link.  Either process may die at any point.          *)
EXTENDS NativeSession

nativeVars == <<link, servoVars, sessionVars>>

Init == LinkInit /\ ServoInit /\ SessionInit

\* Time passes, for both processes.
Clock ==
    /\ servo' = OlderServo
    /\ sess' = [sess EXCEPT !.due = IF @ = 0 THEN 0 ELSE @ - 1]
    /\ ledger' = OlderLedger
    /\ toServo' = OlderPackets(toServo)
    /\ UNCHANGED <<toSession, proc, arm, main>>

Servo == ServoStep /\ UNCHANGED sessionVars

Crash == (ServoDies /\ UNCHANGED sessionVars) \/ ParentDies

Next == Clock \/ Servo \/ SessionStep \/ DrainDeadline \/ ThreadStep
        \/ Sigint \/ Crash

\* The main thread does not stop inside a call.
MainGoesOn == EncodeTarget \/ SendTarget \/ ClaimStop \/ SendClaimedStop

\* Time passes; both processes, where they run, are scheduled, and the calls of
\* libfranka return or throw.  Nothing here hangs.
Fairness ==
    /\ WF_nativeVars(Clock)
    /\ WF_nativeVars(Servo)
    /\ WF_nativeVars(SessionStep)
    /\ WF_nativeVars(MainGoesOn)

Spec == Init /\ [][Next]_nativeVars

FairSpec == Spec /\ Fairness

(* Properties -------------------------------------------------------------- *)

\* The types of all parts.
NativeTypeOK == LinkTypeOK /\ ServoTypeOK /\ SessionTypeOK

\* A stop the parent takes as proven (NativeStopProofEvent.parent_stop_verified,
\* which telemetry reports even of a failed run) is true: the child has released
\* its control handle and the arm is at rest, whatever was lost on the way.
ProvenMeansAtRest ==
    sess.proof.verified => ~servo.active /\ arm = "rest"

\* A supervisor that had already been silent for too long when a cycle read the
\* robot is not revived by a heartbeat that waited in the socket: that cycle
\* writes nothing (servo_core.cpp, heartbeat_expired_before_drain).
NoWriteUnsupervised ==
    [][WriteOnce /\ arm' = "moving" => ~servo.expired]_nativeVars

\* A stop that was claimed by one thread and kept from all others is not lost with
\* it: once nobody is about to send it, the child has STOP in its socket, has
\* SIGTERM, or is already leaving (_send_stop_once backs every refused STOP with
\* terminate).
StopIsHeard ==
    sess.stopSent /\ main # "send" /\ sess.pc \notin {"stop", "last_stop"} =>
        sess.encoded \/ proc.term \/ ~Running

\* A control handle is given back at last, whatever the parent does: it dies,
\* hangs, floods the child or never stops (the watchdogs behind the drain).  Only
\* the servo process has to be scheduled.
HandleGivenBack ==
    WF_nativeVars(Clock) /\ WF_nativeVars(Servo)
        => (servo.active ~> ~servo.active)

\* Once a stop is requested, by any thread and at any point of the session, run
\* returns.  This rests on a child that is scheduled: the loop of run has no
\* deadline for one that lives and is silent.
RunReturns == Fairness => (sess.stopReq ~> sess.pc = "done")

\* Behind its loop, run has a deadline for everything: the last STOP, the proof,
\* the end of file and the exit of the child do not keep it, even if the child
\* hangs for ever.  Only the parent has to be scheduled, and a drain whose time is
\* up ends.
LeftLoopEnds ==
    WF_nativeVars(SessionStep) /\ WF_nativeVars(DrainDeadline)
        /\ WF_nativeVars(MainGoesOn)
    => (sess.pc \in {"last_stop", "drain", "drain_silent", "eof", "join"}
            ~> sess.pc = "done")

\* The owner keeps the promise of ArmOwner, with the barrier's own view of what
\* is acknowledged.
Promise == INSTANCE ArmOwner WITH
    written <- servo.wrote,
    acked <- IF "franka" \in ledger.acked THEN ledger.pending.seq
                                          ELSE ledger.committed,
    result <- sess.result

ImplementsArmOwner == Promise!Spec

\* A stop request alone is no fault: a heartbeat that finds the channel open and
\* writable does not fail the session.
StopIsNoFault ==
    [][SendHeartbeat /\ ~Full /\ ~proc.closed
        => sess'.failure = sess.failure]_nativeVars
=============================================================================
