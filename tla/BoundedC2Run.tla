---------------------------- MODULE BoundedC2Run ----------------------------
(* The formal run: BoundedV94C2Runtime under BoundedC2Orchestrator.run.  Its hand
   owner is not supervised, its arm and hand are commanded side by side, and the
   operator's SIGINT is a handler that runs on the policy thread and asks for the
   stop in four steps, between which the owners go on.

   `sig` is that handler.  The orchestrator's own request, after run has ended, is
   the one that ClosedLoop's stop steps make; the event it sets as well is not read
   any more.                                                                  *)
EXTENDS ClosedLoop

VARIABLE sig     \* "none", the last event the handler has set, or "over"

formalVars == <<vars, sig>>

\* The formal hand counts its heartbeat from arming.
FormalInit == RunInit(FALSE, 0) /\ sig = "none"

\* While the handler runs, the thread it interrupts does not.
Interrupts == sig \in {"external", "loop", "arm"}

(* on_sigint: orchestrator.request_stop --------------------------------------- *)

\* The handler is installed around runtime.run; a second signal finds everything
\* set, and one during the stop itself adds nothing.
SignalExternal ==
    /\ sig = "none"
    /\ pol.pc \in InRun \cup {"exc_ledger", "exc_gate"}
    /\ sig' = "external"
    /\ external' = TRUE
    /\ UNCHANGED <<shared, ownerVars, fr, pol, records>>

SignalLoop ==
    /\ sig = "external"
    /\ sig' = "loop"
    /\ stopEvent' = TRUE
    /\ UNCHANGED <<ledger, gate, now, hold, cleanStop, callbackFault, ownerVars,
                   fr, pol, external, records>>

SignalArm ==
    /\ sig = "loop"
    /\ sig' = "arm"
    /\ cleanStop' = TRUE
    /\ UNCHANGED <<ledger, gate, now, hold, stopEvent, callbackFault, ownerVars,
                   fr, pol, external, records>>

SignalHand ==
    /\ sig = "arm"
    /\ sig' = "over"
    /\ RequestOwnerStop
    /\ UNCHANGED <<shared, fr, pol, external, records>>

Handler == SignalLoop \/ SignalArm \/ SignalHand

(* the verdict ----------------------------------------------------------------- *)

\* Mutant: a run without a failure of its own is taken for a verified stop.
DisarmGateUnproven ==
    /\ pol.pc = "verdict"
    /\ gate' = IF pol.failed THEN LatchGate(gate, "external")
               ELSE Disarm(gate, "run", TRUE, TRUE)
    /\ pol' = [pol EXCEPT !.pc = "end",
                 !.outcome = IF pol.failed THEN "FAULT_LATCHED" ELSE "STOPPED_VERIFIED"]
    /\ UNCHANGED <<ledger, now, hold, stopEvent, cleanStop, callbackFault,
                   ownerVars, fr, external, records>>

\* A run without failure whose stop is proven disarms the gate; every other end,
\* and a gate that refuses to be disarmed, latches it.
DisarmGate ==
    /\ pol.pc = "verdict"
    /\ LET disarmed == Disarm(gate, "run", TRUE, TRUE)
           clean == ~pol.failed /\ Proven /\ gate.state = "armed"
       IN  /\ gate' = IF clean THEN disarmed ELSE LatchGate(gate, "external")
           /\ pol' = [pol EXCEPT !.pc = "end",
                         !.outcome = IF clean THEN "STOPPED_VERIFIED"
                                              ELSE "FAULT_LATCHED"]
    /\ UNCHANGED <<ledger, now, hold, stopEvent, cleanStop, callbackFault,
                   ownerVars, fr, external, records>>

(* the run --------------------------------------------------------------------- *)

FormalPolicy == ~Interrupts /\ (Runtime \/ DisarmGate) /\ UNCHANGED sig
Devices == (HandThread \/ ArmThread \/ Tick) /\ UNCHANGED sig
Opening == InterlockOpens /\ UNCHANGED sig

FormalNext == FormalPolicy \/ Devices \/ SignalExternal \/ Handler \/ Opening

FormalSpec == FormalInit /\ [][FormalNext]_formalVars

\* The owners' threads are scheduled, their device exchanges are bounded by serial
\* and network timeouts, the handler does not wait, and the clock runs.  Nothing is
\* assumed of the operator.
Scheduled ==
    /\ WF_formalVars(Handler)
    /\ WF_formalVars(HandThread /\ UNCHANGED sig)
    /\ WF_formalVars(ArmThread /\ UNCHANGED sig)
    /\ WF_formalVars(Tick /\ UNCHANGED sig)

FormalFairSpec == FormalSpec /\ Scheduled /\ WF_formalVars(FormalPolicy)

\* Either run of the runtime.
SupervisedPolicy == Supervised /\ Policy /\ UNCHANGED sig
EitherPolicy == SupervisedPolicy \/ (~Supervised /\ FormalPolicy)

EitherInit == FormalInit \/ (Init /\ sig = "none")
EitherNext == \/ EitherPolicy \/ Devices \/ Opening
              \/ Supervised /\ Interrupted /\ UNCHANGED sig
              \/ ~Supervised /\ (SignalExternal \/ Handler)

EitherSpec == EitherInit /\ [][EitherNext]_formalVars

\* Either run while nobody outside stops it: it has to come to its end alone.
UnaskedSpec ==
    /\ EitherInit /\ [][EitherPolicy \/ Devices]_formalVars
    /\ Scheduled /\ WF_formalVars(EitherPolicy)

(* properties ------------------------------------------------------------------- *)

\* STOPPED_VERIFIED is the end of a run, complete or stopped by the operator, in
\* which no owner failed at any time up to its own stop: both devices are proven
\* stopped, the ledger is healthy and settled, every commit is in the audit
\* records, and the gate is disarmed.
VerifiedStopMeansCleanRun ==
    pol.outcome = "STOPPED_VERIFIED" =>
        /\ gate.state = "disarmed"
        /\ pc = "done" /\ ~own.fault /\ act.confirmed
        /\ FrankaDone /\ ~FrankaFailed /\ fr.stopped
        /\ Healthy(ledger) /\ ~HasPending(ledger)
        /\ records = 1 .. ledger.committed

\* ``The internal edge is checked first so a simultaneous hardware fault cannot be
\* rewritten as Ctrl+C'': the wait that returns for the operator's event has no
\* fault of the hand behind it.
FaultIsNotCtrlC ==
    [][pol.pc = "release_external" /\ pol'.pc = "result" => ~callbackFault]_formalVars
===============================================================================
