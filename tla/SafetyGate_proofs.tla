-------------------------- MODULE SafetyGate_proofs --------------------------
(* What SafetyGate's run shows for two threads and two authorizations holds for
   any number of them, any set of runs and a clock without a bound.

   NoFalseRegression is not inductive: it needs the relation between a thread's
   last recorded sample and the one it still holds (Clocked).  That a thread
   samples and calls in its own order is what makes the per-thread high-water
   mark sound.  AuthorizationSpentOnce needs that the gate remembers every
   authorization that armed it (Remembered), and ArmedMeansSafe that whatever is
   unsafe has latched the gate, not merely kept it from being armed
   (UnsafeLatched): otherwise a later arm would let motion through again.      *)
EXTENDS SafetyGate, TLAPS

Gates == [state : GateStates, deadman : Interlocks, estop : Interlocks,
          auth : Authorizations \cup {NoAuthorization},
          reason : GateReasons,
          used : SUBSET {a.id : a \in Authorizations},
          highest : Nat \cup {NoSample},
          clock : [Threads -> Nat \cup {NoSample}]]

\* A sample the gate has recorded for a thread is not later than the one the
\* thread holds, and neither is later than the clock.
Clocked == \A t \in Threads : /\ gate.clock[t] <= now
                              /\ thread[t] <= now
                              /\ thread[t] # NoSample => gate.clock[t] <= thread[t]

Remembered == \A i \in DOMAIN armings : armings[i].id \in gate.used

UnsafeLatched == unsafe => gate.state = "fault_latched"

IInv == /\ TypeOK
        /\ ArmedMeansSafe
        /\ UnsafeLatched
        /\ Clocked
        /\ NoFalseRegression
        /\ Remembered
        /\ AuthorizationSpentOnce

(* the operations of the gate ------------------------------------------------- *)

LEMMA RealAuthorizations == \A a \in Authorizations : a # NoAuthorization
  BY GateAssumption DEF NoAuthorization

\* A latch withdraws the authorization, keeps the first reason, and leaves the
\* interlocks, the used authorizations and the samples alone.
LEMMA LatchEffect ==
  ASSUME NEW g \in Gates, NEW why \in GateReasons
  PROVE  /\ LatchGate(g, why) \in Gates
         /\ LatchGate(g, why).state = "fault_latched"
         /\ LatchGate(g, why).auth = NoAuthorization
         /\ LatchGate(g, why).reason = IF g.state = "fault_latched"
                                       THEN g.reason ELSE why
         /\ LatchGate(g, why).used = g.used
         /\ LatchGate(g, why).clock = g.clock
  BY DEF LatchGate, Gates, GateStates

\* What every method but arm guarantees: a gate that is armed afterwards was armed
\* with the same authorization before, a faulted one stays as it is, the used
\* authorizations stand.
Tame(g, h) ==
    /\ h \in Gates
    /\ h.state = "armed" => g.state = "armed" /\ h.auth = g.auth
    /\ h.state # "armed" => h.auth = NoAuthorization
    /\ h.used = g.used
    /\ g.state = "fault_latched" => /\ h.state = "fault_latched"
                                    /\ h.reason = g.reason

LEMMA LatchTame ==
  ASSUME NEW g \in Gates, NEW why \in GateReasons
  PROVE  Tame(g, LatchGate(g, why))
  BY LatchEffect DEF Tame

\* update_interlocks: an armed gate stays armed only over closed interlocks.
LEMMA InterlocksEffect ==
  ASSUME NEW g \in Gates, NEW d \in Interlocks, NEW e \in Interlocks,
         g.state # "armed" => g.auth = NoAuthorization
  PROVE  LET h == UpdateInterlocks(g, d, e)
         IN  /\ Tame(g, h)
             /\ h.state = "armed" => d = "ok" /\ e = "ok" /\ InterlocksHealthy(h)
             /\ h.clock = g.clock
             /\ h.reason \in {g.reason, "estop", "deadman"}
<1> DEFINE told == [g EXCEPT !.deadman = d, !.estop = e]
           why  == IF e # "ok" THEN "estop" ELSE "deadman"
<1>1. /\ told \in Gates /\ told.state = g.state /\ told.auth = g.auth
      /\ told.used = g.used /\ told.clock = g.clock /\ told.reason = g.reason
      /\ told.deadman = d /\ told.estop = e
  BY DEF Gates
<1>2. why \in GateReasons
  BY DEF GateReasons
<1>3. CASE g.state = "armed" /\ ~InterlocksHealthy(told)
  <2>1. UpdateInterlocks(g, d, e) = LatchGate(told, why)
    BY <1>3 DEF UpdateInterlocks
  <2> HIDE DEF told, why
  <2>2. LatchGate(told, why) \in Gates
        /\ LatchGate(told, why).state = "fault_latched"
        /\ LatchGate(told, why).auth = NoAuthorization
        /\ LatchGate(told, why).reason = why
        /\ LatchGate(told, why).used = g.used
        /\ LatchGate(told, why).clock = g.clock
    BY <1>1, <1>2, <1>3, LatchEffect
  <2>3. why \in {"estop", "deadman"}
    BY DEF why
  <2>4. QED BY <1>3, <2>1, <2>2, <2>3 DEF Tame
<1>4. CASE ~(g.state = "armed" /\ ~InterlocksHealthy(told))
  <2>1. UpdateInterlocks(g, d, e) = told
    BY <1>4 DEF UpdateInterlocks
  <2>2. told.state = "armed" => InterlocksHealthy(told)
    BY <1>1, <1>4
  <2> HIDE DEF told
  <2>3. QED BY <1>1, <2>1, <2>2 DEF Tame, InterlocksHealthy
<1>5. QED BY <1>3, <1>4

\* require_motion: it records at most the caller's own sample, and it reports a
\* regression only when the sample lies before the caller's last one.
LEMMA MotionEffect ==
  ASSUME NEW g \in Gates, NEW run, NEW at \in Nat, NEW t \in Threads,
         g.state # "armed" => g.auth = NoAuthorization
  PROVE  LET h == RequireMotion(g, run, at, t)
         IN  /\ Tame(g, h)
             /\ h.state = "armed" => InterlocksHealthy(h)
             /\ \/ h.clock = g.clock
                \/ h.clock = [g.clock EXCEPT ![t] = at]
             /\ h.reason # g.reason /\ h.reason = "regressed" => at < g.clock[t]
<1> DEFINE why  == MotionFault(g, run, at, t)
           seen == IF why \in {"run_id", "regressed"} THEN g
                   ELSE [g EXCEPT !.clock[t] = at,
                                  !.highest = IF at > @ THEN at ELSE @]
<1>1. /\ why \in GateReasons
      /\ why = "regressed" => at < g.clock[t]
      /\ why = "none" => InterlocksHealthy(g)
  BY DEF MotionFault, GateReasons
<1>2. /\ seen \in Gates /\ seen.state = g.state /\ seen.auth = g.auth
      /\ seen.used = g.used /\ seen.reason = g.reason
      /\ seen.deadman = g.deadman /\ seen.estop = g.estop
      /\ seen.clock = g.clock \/ seen.clock = [g.clock EXCEPT ![t] = at]
  <2>1. CASE why \in {"run_id", "regressed"}
    BY <2>1
  <2>2. CASE why \notin {"run_id", "regressed"}
    <3>1. [g.clock EXCEPT ![t] = at] \in [Threads -> Nat \cup {NoSample}]
      BY DEF Gates
    <3>2. (IF at > g.highest THEN at ELSE g.highest) \in Nat \cup {NoSample}
      BY DEF Gates
    <3>3. seen = [g EXCEPT !.clock = [g.clock EXCEPT ![t] = at],
                           !.highest = IF at > g.highest THEN at ELSE g.highest]
      BY <2>2 DEF Gates
    <3> HIDE DEF seen
    <3>4. QED BY <3>1, <3>2, <3>3 DEF Gates
  <2>3. QED BY <2>1, <2>2
<1>3. RequireMotion(g, run, at, t) =
        IF g.state # "armed" THEN g
        ELSE IF why = "none" THEN seen ELSE LatchGate(seen, why)
  BY DEF RequireMotion
<1> HIDE DEF why, seen
<1>4. CASE g.state # "armed"
  BY <1>3, <1>4 DEF Tame
<1>5. CASE g.state = "armed" /\ why = "none"
  <2>1. RequireMotion(g, run, at, t) = seen
    BY <1>3, <1>5
  <2>2. InterlocksHealthy(seen)
    BY <1>1, <1>2, <1>5 DEF InterlocksHealthy
  <2>3. QED BY <1>2, <1>5, <2>1, <2>2 DEF Tame
<1>6. CASE g.state = "armed" /\ why # "none"
  <2>1. RequireMotion(g, run, at, t) = LatchGate(seen, why)
    BY <1>3, <1>6
  <2>2. /\ LatchGate(seen, why) \in Gates
        /\ LatchGate(seen, why).state = "fault_latched"
        /\ LatchGate(seen, why).auth = NoAuthorization
        /\ LatchGate(seen, why).reason = why
        /\ LatchGate(seen, why).used = g.used
        /\ LatchGate(seen, why).clock = seen.clock
    BY <1>1, <1>2, <1>6, LatchEffect
  <2>3. QED BY <1>1, <1>2, <1>6, <2>1, <2>2 DEF Tame
<1>7. QED BY <1>4, <1>5, <1>6

\* disarm_after_verified_stop leaves the gate armed only when it refuses the call.
LEMMA DisarmEffect ==
  ASSUME NEW g \in Gates, NEW run, NEW stopped \in BOOLEAN, NEW disabled \in BOOLEAN,
         g.state # "armed" => g.auth = NoAuthorization
  PROVE  LET h == Disarm(g, run, stopped, disabled)
         IN  /\ Tame(g, h)
             /\ h.state = "armed" => h = g /\ g.auth.run # run
             /\ \/ h.clock = g.clock
                \/ h.clock = [t \in Threads |-> NoSample]
             /\ h.reason \in {g.reason, "unverified_stop"}
<1>1. CASE g.state # "armed" \/ g.auth.run # run
  BY <1>1 DEF Disarm, Tame
<1>2. CASE g.state = "armed" /\ g.auth.run = run /\ ~(stopped /\ disabled)
  <2>1. Disarm(g, run, stopped, disabled) = LatchGate(g, "unverified_stop")
    BY <1>2 DEF Disarm
  <2>2. "unverified_stop" \in GateReasons
    BY DEF GateReasons
  <2>3. QED BY <1>2, <2>1, <2>2, LatchEffect, LatchTame
<1>3. CASE g.state = "armed" /\ g.auth.run = run /\ stopped /\ disabled
  <2> DEFINE h == [g EXCEPT !.auth = NoAuthorization, !.highest = NoSample,
                            !.clock = [t \in Threads |-> NoSample],
                            !.state = "disarmed"]
  <2>1. Disarm(g, run, stopped, disabled) = h
    BY <1>3 DEF Disarm
  <2>2. [t \in Threads |-> NoSample] \in [Threads -> Nat \cup {NoSample}]
    OBVIOUS
  <2>3. /\ h \in Gates /\ h.state = "disarmed" /\ h.auth = NoAuthorization
        /\ h.used = g.used /\ h.reason = g.reason
        /\ h.clock = [t \in Threads |-> NoSample]
    BY <2>2 DEF Gates, GateStates
  <2> HIDE DEF h
  <2>4. QED BY <1>3, <2>1, <2>3 DEF Tame
<1>4. QED BY <1>1, <1>2, <1>3

\* arm: the accepted authorization is new, is remembered, and starts every clock
\* afresh.
LEMMA ArmEffect ==
  ASSUME NEW g \in Gates, NEW a \in Authorizations, NEW at \in Nat,
         NEW t \in Threads
  PROVE  LET h == Armed(g, a, at, t)
         IN  /\ h \in Gates
             /\ h.state = "armed" /\ h.auth = a
             /\ h.used = g.used \cup {a.id}
             /\ h.deadman = g.deadman /\ h.estop = g.estop /\ h.reason = g.reason
             /\ h.clock = [u \in Threads |-> IF u = t THEN at ELSE NoSample]
<1>1. [u \in Threads |-> IF u = t THEN at ELSE NoSample]
        \in [Threads -> Nat \cup {NoSample}]
  OBVIOUS
<1>2. g.used \cup {a.id} \in SUBSET {b.id : b \in Authorizations}
  BY DEF Gates
<1>3. QED BY <1>1, <1>2 DEF Armed, Gates, GateStates

(* the steps ------------------------------------------------------------------ *)

LEMMA InitIInv == Init => IInv
<1> SUFFICES ASSUME Init PROVE IInv
  OBVIOUS
<1>1. TypeOK
  <2>1. [t \in Threads |-> NoSample] \in [Threads -> Nat \cup {NoSample}]
    OBVIOUS
  <2>2. gate \in Gates /\ gate.state = "disarmed" /\ gate.auth = NoAuthorization
    BY <2>1 DEF Init, NewGate, Gates, GateStates, Interlocks, GateReasons
  <2>3. thread \in [Threads -> Nat \cup {NoSample}]
    BY <2>1 DEF Init
  <2>4. /\ now \in Nat
        /\ armings \in Seq(Authorizations)
        /\ unsafe \in BOOLEAN
    <3>1. now \in Nat
      BY DEF Init
    <3>2. armings \in Seq(Authorizations)
      BY DEF Init
    <3>3. unsafe \in BOOLEAN
      BY Zenon DEF Init
    <3>4. QED BY <3>1, <3>2, <3>3
  <2>5. gate.state = "armed" <=> gate.auth # NoAuthorization
    BY <2>2
  <2>6. QED BY <2>2, <2>3, <2>4, <2>5, Zenon DEF TypeOK, Gates
<1>2. ArmedMeansSafe /\ UnsafeLatched /\ NoFalseRegression
  BY DEF Init, ArmedMeansSafe, UnsafeLatched, NoFalseRegression, NewGate
<1>3. Clocked
  <2>1. \A t \in Threads : gate.clock[t] = NoSample /\ thread[t] = NoSample
    BY DEF Init, NewGate
  <2>2. NoSample <= 0
    BY DEF NoSample
  <2>3. QED BY <2>1, <2>2 DEF Init, Clocked
<1>4. Remembered /\ AuthorizationSpentOnce
  BY DEF Init, Remembered, AuthorizationSpentOnce
<1>5. QED BY <1>1, <1>2, <1>3, <1>4 DEF IInv

LEMMA Typed ==
  ASSUME IInv
  PROVE  /\ gate \in Gates
         /\ gate.state # "armed" => gate.auth = NoAuthorization
         /\ now \in Nat /\ unsafe \in BOOLEAN
         /\ thread \in [Threads -> Nat \cup {NoSample}]
         /\ armings \in Seq(Authorizations)
         /\ \A t \in Threads : gate.clock[t] \in Nat \cup {NoSample}
  BY DEF IInv, TypeOK, Gates

\* Every call but a successful arm: the gate is tame, no clock moves past the
\* caller's sample, and a gate left armed is left safe.
LEMMA TameStep ==
  ASSUME IInv, Tame(gate, gate'), armings' = armings, now' = now,
         thread' \in [Threads -> Nat \cup {NoSample}], unsafe' \in BOOLEAN,
         Clocked', gate'.reason # "regressed",
         gate'.state = "armed" => InterlocksHealthy(gate'),
         unsafe' => gate'.state = "fault_latched"
  PROVE  IInv'
<1>1. TypeOK'
  <2>1. gate' \in Gates /\ (gate'.state = "armed" <=> gate'.auth # NoAuthorization)
    BY Typed, RealAuthorizations DEF Tame, IInv, TypeOK
  <2>2. QED BY <2>1, Typed DEF TypeOK, Gates
<1>2. ArmedMeansSafe' /\ UnsafeLatched'
  BY <1>1 DEF ArmedMeansSafe, UnsafeLatched, TypeOK
<1>3. Remembered' /\ AuthorizationSpentOnce'
  BY DEF IInv, Remembered, AuthorizationSpentOnce, Tame
<1>4. QED BY <1>1, <1>2, <1>3 DEF IInv, NoFalseRegression

LEMMA NextIInv == IInv /\ [Next]_vars => IInv'
<1> SUFFICES ASSUME IInv, [Next]_vars PROVE IInv'
  OBVIOUS
<1>1. /\ gate \in Gates
      /\ gate.state # "armed" => gate.auth = NoAuthorization
      /\ now \in Nat /\ unsafe \in BOOLEAN
      /\ thread \in [Threads -> Nat \cup {NoSample}]
      /\ armings \in Seq(Authorizations)
      /\ \A t \in Threads : gate.clock[t] \in Nat \cup {NoSample}
      /\ gate.clock \in [Threads -> Nat \cup {NoSample}]
  BY Typed DEF Gates
<1>2. ASSUME NEW t \in Threads, thread[t] # NoSample
      PROVE  thread[t] \in Nat /\ gate.clock[t] <= thread[t]
  BY <1>1, <1>2 DEF IInv, Clocked
<1>3. Tame(gate, gate)
  BY <1>1 DEF Tame
<1>4. ASSUME gate' = gate, armings' = armings, unsafe' = unsafe, now' \in Nat,
             thread' \in [Threads -> Nat \cup {NoSample}], Clocked'
      PROVE  IInv'
  BY <1>4 DEF IInv, TypeOK, ArmedMeansSafe, UnsafeLatched, NoFalseRegression,
              Remembered, AuthorizationSpentOnce
<1>5. CASE Tick
  <2>1. Clocked'
    BY <1>1, <1>5 DEF Tick, IInv, Clocked, NoSample
  <2>2. QED BY <1>1, <1>4, <1>5, <2>1 DEF Tick
<1>6. ASSUME NEW t \in Threads, Sample(t) PROVE IInv'
  <2>1. thread' = [thread EXCEPT ![t] = now]
    BY <1>6 DEF Sample
  <2>2. thread' \in [Threads -> Nat \cup {NoSample}]
    BY <1>1, <2>1
  <2>3. Clocked'
    BY <1>1, <1>6, <2>1 DEF Sample, IInv, Clocked
  <2>4. QED BY <1>1, <1>4, <1>6, <2>2, <2>3 DEF Sample
<1>7. ASSUME NEW t \in Threads, Arm(t) PROVE IInv'
  <2>1. thread' = [thread EXCEPT ![t] = NoSample] /\ now' = now /\ unsafe' = unsafe
    BY <1>7 DEF Arm, Consume
  <2>2. thread[t] \in Nat /\ gate.clock[t] <= thread[t] /\ thread[t] <= now
    BY <1>2, <1>7 DEF Arm, IInv, Clocked
  <2>3. thread' \in [Threads -> Nat \cup {NoSample}]
    BY <1>1, <2>1
  <2>4. CASE gate' = gate /\ armings' = armings
    <3>1. Clocked'
      BY <1>1, <2>1, <2>4 DEF IInv, Clocked, NoSample
    <3>2. QED BY <1>1, <1>4, <2>1, <2>3, <2>4, <3>1
  <2>5. ASSUME NEW a \in Authorizations, NEW run, NEW rest, NEW disabled,
               ArmAccepts(gate, a, run, thread[t], rest, disabled),
               gate' = Armed(gate, a, thread[t], t), armings' = Append(armings, a)
        PROVE  IInv'
    <3>1. /\ gate' \in Gates /\ gate'.state = "armed" /\ gate'.auth = a
          /\ gate'.used = gate.used \cup {a.id}
          /\ gate'.deadman = gate.deadman /\ gate'.estop = gate.estop
          /\ gate'.reason = gate.reason
          /\ gate'.clock = [u \in Threads |-> IF u = t THEN thread[t] ELSE NoSample]
      BY <1>1, <2>2, <2>5, ArmEffect
    <3>2. a.id \notin gate.used /\ InterlocksHealthy(gate)
      BY <2>5 DEF ArmAccepts
    <3>3. /\ armings' \in Seq(Authorizations)
          /\ DOMAIN armings' = 1 .. Len(armings) + 1
          /\ DOMAIN armings = 1 .. Len(armings)
          /\ armings'[Len(armings) + 1] = a
          /\ \A i \in 1 .. Len(armings) : armings'[i] = armings[i]
          /\ Len(armings) \in Nat
      BY <1>1, <2>5
    <3>4. TypeOK'
      BY <1>1, <2>1, <2>3, <3>1, <3>3, RealAuthorizations DEF TypeOK, Gates
    <3>5. ArmedMeansSafe' /\ UnsafeLatched'
      <4>1. ~unsafe
        BY <2>5 DEF ArmAccepts, IInv, UnsafeLatched
      <4>2. QED BY <2>1, <3>1, <3>2, <4>1, RealAuthorizations
                DEF ArmedMeansSafe, UnsafeLatched, InterlocksHealthy
    <3>6. Clocked'
      BY <1>1, <2>1, <2>2, <3>1 DEF IInv, Clocked, NoSample
    <3>7. Remembered'
      BY <3>1, <3>3 DEF IInv, Remembered
    <3>8. AuthorizationSpentOnce'
      <4>1. \A i \in 1 .. Len(armings) : armings[i].id # a.id
        BY <3>2, <3>3 DEF IInv, Remembered
      <4>2. QED BY <3>3, <4>1 DEF IInv, AuthorizationSpentOnce
    <3>9. NoFalseRegression'
      BY <3>1 DEF IInv, NoFalseRegression
    <3>10. QED BY <3>4, <3>5, <3>6, <3>7, <3>8, <3>9 DEF IInv
  <2>6. QED BY <1>7, <2>4, <2>5 DEF Arm
<1>8. ASSUME NEW t \in Threads, CheckMotion(t) PROVE IInv'
  <2>1. PICK run \in Runs : gate' = RequireMotion(gate, run, thread[t], t)
    BY <1>8 DEF CheckMotion
  <2>2. /\ thread' = [thread EXCEPT ![t] = NoSample] /\ now' = now
        /\ unsafe' = unsafe /\ armings' = armings
    BY <1>8 DEF CheckMotion, Consume
  <2>3. thread[t] \in Nat /\ gate.clock[t] <= thread[t] /\ thread[t] <= now
    BY <1>2, <1>8 DEF CheckMotion, IInv, Clocked
  <2>4. /\ Tame(gate, gate')
        /\ gate'.state = "armed" => InterlocksHealthy(gate')
        /\ gate'.clock = gate.clock \/ gate'.clock = [gate.clock EXCEPT ![t] = thread[t]]
        /\ gate'.reason # gate.reason /\ gate'.reason = "regressed"
             => thread[t] < gate.clock[t]
    BY <1>1, <2>1, <2>3, MotionEffect
  <2>5. gate'.reason # "regressed"
    BY <1>1, <2>3, <2>4 DEF IInv, NoFalseRegression, NoSample
  <2>6. Clocked'
    BY <1>1, <2>2, <2>3, <2>4 DEF IInv, Clocked, NoSample
  <2>7. unsafe' => gate'.state = "fault_latched"
    BY <2>2, <2>4 DEF IInv, UnsafeLatched, Tame
  <2>8. thread' \in [Threads -> Nat \cup {NoSample}]
    BY <1>1, <2>2
  <2>9. QED BY <1>1, <2>2, <2>4, <2>5, <2>6, <2>7, <2>8, TameStep
<1>9. CASE ReportInterlocks
  <2>1. PICK d \in {"ok", "open"}, e \in {"ok", "open"} :
          /\ gate' = UpdateInterlocks(gate, d, e)
          /\ unsafe' = (unsafe \/ (gate.state = "armed" /\ {d, e} # {"ok"}))
    BY <1>9 DEF ReportInterlocks
  <2>2. now' = now /\ thread' = thread /\ armings' = armings
    BY <1>9 DEF ReportInterlocks
  <2>3. /\ Tame(gate, gate')
        /\ gate'.state = "armed" => d = "ok" /\ e = "ok" /\ InterlocksHealthy(gate')
        /\ gate'.clock = gate.clock
        /\ gate'.reason \in {gate.reason, "estop", "deadman"}
    BY <1>1, <2>1, InterlocksEffect DEF Interlocks
  <2>4. Clocked'
    BY <2>2, <2>3 DEF IInv, Clocked
  <2>5. gate.state = "armed" /\ {d, e} # {"ok"} => gate'.state = "fault_latched"
    <3> SUFFICES ASSUME gate.state = "armed", {d, e} # {"ok"}
                 PROVE  gate'.state = "fault_latched"
      OBVIOUS
    <3> DEFINE told == [gate EXCEPT !.deadman = d, !.estop = e]
    <3>1. told.deadman = d /\ told.estop = e
      BY <1>1 DEF Gates
    <3>2. ~InterlocksHealthy(told)
      BY <3>1 DEF InterlocksHealthy
    <3>3. gate' = LatchGate(told, IF e # "ok" THEN "estop" ELSE "deadman")
      BY <2>1, <3>2 DEF UpdateInterlocks
    <3>4. told \in Gates
      BY <1>1, <2>1 DEF Gates, Interlocks
    <3>5. (IF e # "ok" THEN "estop" ELSE "deadman") \in GateReasons
      BY DEF GateReasons
    <3> HIDE DEF told
    <3>6. QED BY <3>3, <3>4, <3>5, LatchEffect
  <2>6. unsafe' => gate'.state = "fault_latched"
    BY <2>1, <2>3, <2>5 DEF IInv, UnsafeLatched, Tame
  <2>7. gate'.reason # "regressed"
    BY <2>3 DEF IInv, NoFalseRegression
  <2>8. unsafe' \in BOOLEAN
    BY <1>1, <2>1
  <2>9. QED BY <1>1, <2>2, <2>3, <2>4, <2>6, <2>7, <2>8, TameStep
<1>10. CASE ReportFault
  <2>1. "external" \in GateReasons
    BY DEF GateReasons
  <2>2. /\ gate'.state = "fault_latched" /\ gate'.clock = gate.clock
        /\ gate'.reason \in {gate.reason, "external"}
        /\ Tame(gate, gate')
    BY <1>1, <1>10, <2>1, LatchEffect, LatchTame DEF ReportFault
  <2>3. /\ now' = now /\ thread' = thread /\ armings' = armings /\ unsafe' = TRUE
    BY <1>10 DEF ReportFault
  <2>4. Clocked' /\ gate'.reason # "regressed"
    BY <2>2, <2>3 DEF IInv, Clocked, NoFalseRegression
  <2>5. QED BY <1>1, <2>2, <2>3, <2>4, TameStep
<1>11. CASE DisarmAfterStop
  <2>1. PICK run \in Runs, stopped \in BOOLEAN, disabled \in BOOLEAN :
          /\ gate' = Disarm(gate, run, stopped, disabled)
          /\ unsafe' = (unsafe \/ (/\ gate.state = "armed"
                                   /\ gate.auth.run = run
                                   /\ ~(stopped /\ disabled)))
    BY <1>11 DEF DisarmAfterStop
  <2>2. now' = now /\ thread' = thread /\ armings' = armings
    BY <1>11 DEF DisarmAfterStop
  <2>3. /\ Tame(gate, gate')
        /\ gate'.state = "armed" => gate' = gate /\ gate.auth.run # run
        /\ \/ gate'.clock = gate.clock
           \/ gate'.clock = [t \in Threads |-> NoSample]
        /\ gate'.reason \in {gate.reason, "unverified_stop"}
    BY <1>1, <2>1, DisarmEffect
  <2>4. Clocked'
    BY <1>1, <2>2, <2>3 DEF IInv, Clocked, NoSample
  <2>5. unsafe' => gate'.state = "fault_latched"
    <3>1. CASE unsafe
      BY <2>3, <3>1 DEF IInv, UnsafeLatched, Tame
    <3>2. CASE gate.state = "armed" /\ gate.auth.run = run /\ ~(stopped /\ disabled)
      <4>1. gate' = LatchGate(gate, "unverified_stop")
        BY <2>1, <3>2 DEF Disarm
      <4>2. QED BY <1>1, <4>1, LatchEffect DEF GateReasons
    <3>3. QED BY <2>1, <3>1, <3>2
  <2>6. gate'.state = "armed" => InterlocksHealthy(gate')
    BY <2>3 DEF IInv, ArmedMeansSafe
  <2>7. gate'.reason # "regressed" /\ unsafe' \in BOOLEAN
    BY <1>1, <2>1, <2>3 DEF IInv, NoFalseRegression
  <2>8. QED BY <1>1, <2>2, <2>3, <2>4, <2>5, <2>6, <2>7, TameStep
<1>12. CASE UNCHANGED vars
  <2>1. Clocked'
    BY <1>12 DEF vars, IInv, Clocked
  <2>2. QED BY <1>1, <1>4, <1>12, <2>1 DEF vars
<1>13. QED
  BY <1>5, <1>6, <1>7, <1>8, <1>9, <1>10, <1>11, <1>12 DEF Next

(* the theorems --------------------------------------------------------------- *)

THEOREM Invariant == Spec => []IInv
<1>1. QED BY InitIInv, NextIInv, PTL DEF Spec

\* Every record the gate keeps has its type, and an authorization is held exactly
\* while the gate is armed.
THEOREM TypeCorrect == Spec => []TypeOK
<1>1. IInv => TypeOK
  BY DEF IInv
<1>2. QED BY <1>1, Invariant, PTL

\* require_motion lets motion through only over closed interlocks, under an
\* authorization, and when nothing unsafe was ever reported to this gate.
THEOREM ArmedIsSafe == Spec => []ArmedMeansSafe
<1>1. IInv => ArmedMeansSafe
  BY DEF IInv
<1>2. QED BY <1>1, Invariant, PTL

\* The used set of arm rejects an authorization for ever, whatever happens between.
THEOREM SpentOnce == Spec => []AuthorizationSpentOnce
<1>1. IInv => AuthorizationSpentOnce
  BY DEF IInv
<1>2. QED BY <1>1, Invariant, PTL

\* With one high-water mark per thread, samples that threads deliver to the lock in
\* any order are never called a regression.
THEOREM SamplesMayCross == Spec => []NoFalseRegression
<1>1. IInv => NoFalseRegression
  BY DEF IInv
<1>2. QED BY <1>1, Invariant, PTL

\* A fault cannot be cleared in place: no method of a faulted gate changes its state
\* or its first reason, or gives an authorization back.
THEOREM FaultStays == Spec => FaultIsTerminal
<1>1. IInv /\ [Next]_vars =>
        [gate.state = "fault_latched" =>
           /\ gate'.state = "fault_latched"
           /\ gate'.reason = gate.reason
           /\ gate'.auth = NoAuthorization]_gate
  <2> SUFFICES ASSUME IInv, Next, gate.state = "fault_latched"
               PROVE  /\ gate'.state = "fault_latched"
                      /\ gate'.reason = gate.reason
                      /\ gate'.auth = NoAuthorization
    BY DEF vars
  <2>1. gate \in Gates /\ gate.auth = NoAuthorization
    BY Typed
  <2>2. Tame(gate, gate)
    BY <2>1 DEF Tame
  <2>3. Tame(gate, gate') => /\ gate'.state = "fault_latched"
                             /\ gate'.reason = gate.reason
                             /\ gate'.auth = NoAuthorization
    BY DEF Tame
  <2>4. CASE Tick
    BY <2>2, <2>3, <2>4 DEF Tick
  <2>5. ASSUME NEW t \in Threads, Sample(t) PROVE Tame(gate, gate')
    BY <2>2, <2>5 DEF Sample
  <2>6. ASSUME NEW t \in Threads, Arm(t) PROVE Tame(gate, gate')
    BY <2>2, <2>6 DEF Arm, ArmAccepts
  <2>7. ASSUME NEW t \in Threads, CheckMotion(t) PROVE Tame(gate, gate')
    <3>1. gate' = gate
      BY <2>7 DEF CheckMotion, RequireMotion
    <3>2. QED BY <2>2, <3>1
  <2>8. CASE ReportInterlocks
    <3>1. PICK d \in {"ok", "open"}, e \in {"ok", "open"} :
            gate' = UpdateInterlocks(gate, d, e)
      BY <2>8 DEF ReportInterlocks
    <3>2. QED BY <2>1, <2>3, <3>1, InterlocksEffect DEF Interlocks
  <2>9. CASE ReportFault
    BY <2>1, <2>3, <2>9, LatchTame DEF ReportFault, GateReasons
  <2>10. CASE DisarmAfterStop
    BY <2>2, <2>3, <2>10 DEF DisarmAfterStop, Disarm
  <2>11. QED BY <2>3, <2>4, <2>5, <2>6, <2>7, <2>8, <2>9, <2>10 DEF Next
<1>2. QED BY <1>1, Invariant, PTL DEF Spec, FaultIsTerminal
=============================================================================
