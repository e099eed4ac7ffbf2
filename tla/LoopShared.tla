----------------------------- MODULE LoopShared -----------------------------
(* The state that the threads of one closed-loop run share: the commit barrier,
   the safety gate, the Franka target, the stop events and the clock.  RH56Owner
   and FrankaOwner extend this module with the state of one thread each, and
   ClosedLoop joins them under the policy thread.

   Clock samples handed to the gate, and the expiry they decide, are the subject
   of SafetyGate; here every call passes the same time on behalf of the same
   caller, so what is left of the gate is whether it is armed and why not.    *)
EXTENDS LedgerOps, GateOps, Sequences

CONSTANTS MaxSequence,     \* maximum_policy_steps, and the bound on sequences
          MaxTime          \* bound: the clock

ASSUME LoopAssumption == MaxSequence \in Nat \ {0} /\ MaxTime \in Nat

VARIABLES ledger,          \* ExecutedActionLedger
          gate,            \* ClosedLoopSafetyGate
          now,             \* time.monotonic
          hold,            \* FrankaTargetSampleHold._latest
          stopEvent,       \* runtime _stop_requested
          cleanStop,       \* FrankaPersistentSession._clean_stop
          callbackFault    \* runtime _rh56_callback_fault is set

shared == <<ledger, gate, now, hold, stopEvent, cleanStop, callbackFault>>

Sequences1 == 1 .. MaxSequence

RunAuthorization == [id |-> "auth", run |-> "run", issued |-> 0, expires |-> 1]
Caller == "loop"

\* The authorization the threads of the run work under.
ArmedGate ==
    Armed(UpdateInterlocks(NewGate, "ok", "ok"), RunAuthorization, 0, Caller)

\* No target yet: the Franka owner holds its measured bootstrap pose.
NoTarget == [seq |-> 0, produced |-> 0]

SharedTypeOK ==
    /\ ledger \in Ledgers
    /\ ledger.committed <= MaxSequence
    /\ gate.state \in GateStates
    /\ now \in 0 .. MaxTime
    /\ hold \in [seq : 0 .. MaxSequence, produced : 0 .. MaxTime]
    /\ {stopEvent, cleanStop, callbackFault} \subseteq BOOLEAN

SharedInit ==
    /\ ledger = NewLedger
    /\ gate = ArmedGate
    /\ now = 0
    /\ hold = NoTarget
    /\ stopEvent = FALSE
    /\ cleanStop = FALSE
    /\ callbackFault = FALSE

MotionPermitted == MotionAllowed(gate, "run", 0, Caller)

\* FrankaTargetSampleHold.publish accepts the next sequence, produced later.
PublishAccepts(cmd) ==
    /\ cmd.seq = hold.seq + 1
    /\ hold.seq # 0 => cmd.produced > hold.produced

Published(cmd) == [seq |-> cmd.seq, produced |-> cmd.produced]
=============================================================================
