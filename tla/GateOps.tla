------------------------------- MODULE GateOps -------------------------------
(* ClosedLoopSafetyGate as a value and the operations its methods perform on
   it, each atomic under the gate's lock.  Authorizations are records
   [id, run, issued, expires]; an interlock is TRUE, FALSE or not yet reported.
   `clock` is _last_motion_check_by_thread, with NoSample for an absent entry;
   `highest` is the audit high-water mark _last_motion_check_monotonic_s.     *)
EXTENDS Integers

CONSTANTS Threads,          \* threads that call the gate
          Runs,             \* run identifiers
          Authorizations    \* motion authorizations the operator may issue

ASSUME GateAssumption ==
    \A a \in Authorizations : /\ a.run \in Runs
                              /\ a.issued \in Nat
                              /\ a.expires \in Nat
                              /\ a.issued < a.expires

NoSample == -1
NoAuthorization == [id |-> "none", run |-> "none", issued |-> 0, expires |-> 0]
Interlocks == {"unknown", "ok", "open"}
GateStates == {"disarmed", "armed", "fault_latched"}
GateReasons == {"none", "estop", "deadman", "run_id", "regressed", "expired",
                "interlock", "unverified_stop", "external"}

NewGate == [state |-> "disarmed", deadman |-> "unknown", estop |-> "unknown",
            auth |-> NoAuthorization, reason |-> "none", used |-> {},
            highest |-> NoSample, clock |-> [t \in Threads |-> NoSample]]

InterlocksHealthy(g) == g.deadman = "ok" /\ g.estop = "ok"

\* _latch_locked, latch_fault: the first reason is kept, the authorization goes.
LatchGate(g, why) ==
    [g EXCEPT !.reason = IF g.state = "fault_latched" THEN @ ELSE why,
              !.auth = NoAuthorization,
              !.state = "fault_latched"]

\* Mutant: an opened interlock is stored and left to the next motion check.
UpdateInterlocksLazily(g, d, e) == [g EXCEPT !.deadman = d, !.estop = e]

\* update_interlocks: an interlock that opens under an armed gate latches.
UpdateInterlocks(g, d, e) ==
    LET told == [g EXCEPT !.deadman = d, !.estop = e]
    IN  IF g.state = "armed" /\ ~InterlocksHealthy(told)
        THEN LatchGate(told, IF e # "ok" THEN "estop" ELSE "deadman")
        ELSE told

\* Mutant: a consumed authorization is accepted again.
ArmAcceptsUsed(g, a, run, now, frankaRest, handDisabled) ==
    /\ g.state = "disarmed"
    /\ a.run = run
    /\ a.issued <= now /\ now < a.expires
    /\ InterlocksHealthy(g)
    /\ frankaRest /\ handDisabled

\* arm returns normally; each failed check raises and changes nothing.
ArmAccepts(g, a, run, now, frankaRest, handDisabled) ==
    /\ g.state = "disarmed"
    /\ a.run = run
    /\ a.id \notin g.used
    /\ a.issued <= now /\ now < a.expires
    /\ InterlocksHealthy(g)
    /\ frankaRest /\ handDisabled

Armed(g, a, now, t) ==
    [g EXCEPT !.auth = a, !.used = @ \cup {a.id}, !.highest = now,
              !.clock = [u \in Threads |-> IF u = t THEN now ELSE NoSample],
              !.state = "armed"]

\* Mutant: one high-water mark for all threads.
MotionFaultGlobalClock(g, run, now, t) ==
    IF g.auth.run # run THEN "run_id"
    ELSE IF now < g.highest THEN "regressed"
    ELSE IF now >= g.auth.expires THEN "expired"
    ELSE IF ~InterlocksHealthy(g) THEN "interlock"
    ELSE "none"

\* The checks of require_motion on an armed gate, in their order.
MotionFault(g, run, now, t) ==
    IF g.auth.run # run THEN "run_id"
    ELSE IF now < g.clock[t] THEN "regressed"
    ELSE IF now >= g.auth.expires THEN "expired"
    ELSE IF ~InterlocksHealthy(g) THEN "interlock"
    ELSE "none"

\* require_motion returns normally.
MotionAllowed(g, run, now, t) ==
    g.state = "armed" /\ MotionFault(g, run, now, t) = "none"

\* The gate after require_motion.  The sample is recorded once the run and the
\* caller's own clock have been accepted, before expiry and interlocks.
RequireMotion(g, run, now, t) ==
    LET why  == MotionFault(g, run, now, t)
        seen == IF why \in {"run_id", "regressed"} THEN g
                ELSE [g EXCEPT !.clock[t] = now,
                               !.highest = IF now > @ THEN now ELSE @]
    IN  IF g.state # "armed" THEN g
        ELSE IF why = "none" THEN seen ELSE LatchGate(seen, why)

\* disarm_after_verified_stop
Disarm(g, run, frankaStopped, handDisabled) ==
    IF g.state # "armed" \/ g.auth.run # run THEN g
    ELSE IF ~(frankaStopped /\ handDisabled) THEN LatchGate(g, "unverified_stop")
    ELSE [g EXCEPT !.auth = NoAuthorization, !.highest = NoSample,
                   !.clock = [t \in Threads |-> NoSample],
                   !.state = "disarmed"]
=============================================================================
