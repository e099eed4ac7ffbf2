----------------------------- MODULE SafetyGate -----------------------------
(* ClosedLoopSafetyGate under concurrent callers.  The gate's methods are
   atomic, but each is given a clock value the caller read before it waited for
   the lock, so samples reach the gate out of order across threads.           *)
EXTENDS GateOps, Sequences

CONSTANT MaxGateTime      \* bound: the clock

ASSUME SafetyGateAssumption == MaxGateTime \in Nat

VARIABLES gate,
          now,            \* the monotonic clock
          thread,         \* per thread: a clock sample not yet handed over
          armings,        \* history: authorizations that armed the gate
          unsafe          \* history: a device stop went unverified, an interlock
                          \* opened while armed, or a fault was reported

vars == <<gate, now, thread, armings, unsafe>>

TypeOK ==
    /\ gate \in [state : GateStates, deadman : Interlocks, estop : Interlocks,
                 auth : Authorizations \cup {NoAuthorization},
                 reason : GateReasons,
                 used : SUBSET {a.id : a \in Authorizations},
                 highest : Nat \cup {NoSample},
                 clock : [Threads -> Nat \cup {NoSample}]]
    /\ gate.state = "armed" <=> gate.auth # NoAuthorization
    /\ now \in Nat
    /\ thread \in [Threads -> Nat \cup {NoSample}]
    /\ armings \in Seq(Authorizations)
    /\ unsafe \in BOOLEAN

Init == /\ gate = NewGate
        /\ now = 0
        /\ thread = [t \in Threads |-> NoSample]
        /\ armings = <<>>
        /\ unsafe = FALSE

Tick == /\ now < MaxGateTime
        /\ now' = now + 1
        /\ UNCHANGED <<gate, thread, armings, unsafe>>

\* now_monotonic_s is evaluated in the caller, before the lock.
Sample(t) == /\ thread[t] = NoSample
             /\ thread' = [thread EXCEPT ![t] = now]
             /\ UNCHANGED <<gate, now, armings, unsafe>>

Consume(t) == thread' = [thread EXCEPT ![t] = NoSample]

Arm(t) ==
    /\ thread[t] # NoSample
    /\ \E a \in Authorizations, run \in Runs, rest, disabled \in BOOLEAN :
         IF ArmAccepts(gate, a, run, thread[t], rest, disabled)
         THEN /\ gate' = Armed(gate, a, thread[t], t)
              /\ armings' = Append(armings, a)
         ELSE UNCHANGED <<gate, armings>>
    /\ Consume(t)
    /\ UNCHANGED <<now, unsafe>>

CheckMotion(t) ==
    /\ thread[t] # NoSample
    /\ \E run \in Runs : gate' = RequireMotion(gate, run, thread[t], t)
    /\ Consume(t)
    /\ UNCHANGED <<now, armings, unsafe>>

\* The interlock monitor reports both interlocks at once.
ReportInterlocks ==
    /\ \E d, e \in {"ok", "open"} :
         /\ gate' = UpdateInterlocks(gate, d, e)
         /\ unsafe' = (unsafe \/ (gate.state = "armed" /\ {d, e} # {"ok"}))
    /\ UNCHANGED <<now, thread, armings>>

\* latch_fault: any owner reports a fault, in any state.
ReportFault == /\ gate' = LatchGate(gate, "external")
               /\ unsafe' = TRUE
               /\ UNCHANGED <<now, thread, armings>>

DisarmAfterStop ==
    /\ \E run \in Runs, stopped, disabled \in BOOLEAN :
         /\ gate' = Disarm(gate, run, stopped, disabled)
         /\ unsafe' = (unsafe \/ (/\ gate.state = "armed"
                                  /\ gate.auth.run = run
                                  /\ ~(stopped /\ disabled)))
    /\ UNCHANGED <<now, thread, armings>>

Next == \/ Tick
        \/ \E t \in Threads : Sample(t) \/ Arm(t) \/ CheckMotion(t)
        \/ ReportInterlocks
        \/ ReportFault
        \/ DisarmAfterStop

Spec == Init /\ [][Next]_vars

(* properties -------------------------------------------------------------- *)

\* While the gate lets motion through, both interlocks are closed, an
\* authorization is held, and nothing unsafe has been reported since the gate
\* was made: no order of arming, interlock reports, faults and stops leaves the
\* gate armed over an open interlock or an unverified stop.
ArmedMeansSafe ==
    gate.state = "armed" => /\ InterlocksHealthy(gate)
                            /\ gate.auth # NoAuthorization
                            /\ ~unsafe

\* An authorization arms the gate once, however often the gate is disarmed.
AuthorizationSpentOnce ==
    \A i, j \in DOMAIN armings : armings[i].id = armings[j].id => i = j

\* The clock never regresses here, so the gate must never say it did: two
\* threads whose samples reach the lock in the other order are no fault
\* (the comment at _last_motion_check_by_thread).
NoFalseRegression == gate.reason # "regressed"

\* A fault cannot be cleared in place (class docstring): state, first reason
\* and the withdrawn authorization stay.
FaultIsTerminal ==
    [][gate.state = "fault_latched" =>
         /\ gate'.state = "fault_latched"
         /\ gate'.reason = gate.reason
         /\ gate'.auth = NoAuthorization]_gate
=============================================================================
