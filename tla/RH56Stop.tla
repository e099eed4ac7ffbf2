------------------------------ MODULE RH56Stop ------------------------------
(* TransactionalRH56Actuator._disable_and_verify and its three callers: hold the
   measured pose, see the hand motionless, release the targets twice, and see a
   wholly fresh idle tail, all inside one stop_timeout_s.  The hand is the
   environment: it may lose the response to a write it applied or did not
   apply, fail a read, keep moving, or report running status and current.
   Time counts the module's IO and sleep bounds; computation takes no time
   except one scheduling delay of at most Margin.                            *)
EXTENDS Integers, Sequences, FiniteSets

CONSTANTS Samples,        \* stop_verify_samples
          WriteTime,      \* RH56_SUPERVISED_WRITE_RESPONSE_GRACE_S
          ReadTime,       \* RH56_SUPERVISED_EXCHANGE_TIMEOUT_S, per register read
          SleepTime,      \* stop_verify_interval_s
          Margin,         \* RH56_STOP_RELEASE_SCHEDULING_MARGIN_S
          StopTimeout,    \* stop_timeout_s
          Positions       \* hand positions; two differ by more than the drift

ASSUME StopAssumption ==
    /\ {WriteTime, ReadTime, Margin} \subseteq Nat \ {0}
    /\ SleepTime \in Nat             \* stop_verify_interval_s may be zero
    /\ Samples \in Nat \ {0, 1}
    /\ StopTimeout \in Nat
    /\ Positions # {}

Smaller(a, b) == IF a < b THEN a ELSE b

\* Mutant: the reserve counts one register read per tail sample, not three.
ReleaseReserveShort ==
    Smaller(StopTimeout \div 2,
            2 * (WriteTime + ReadTime) + Samples * ReadTime
              + (Samples - 1) * SleepTime + Margin)

\* release_reserve_s: two disable passes, a fresh tail of three register reads
\* per sample, the sleeps between them, and one scheduling delay.
ReleaseReserve ==
    Smaller(StopTimeout \div 2,
            2 * (WriteTime + ReadTime) + 3 * Samples * ReadTime
              + (Samples - 1) * SleepTime + Margin)

Deadline == StopTimeout
SettleDeadline == Deadline - ReleaseReserve

\* What a feedback read shows: a position, STATUS idle, current under the strict
\* idle cap, and otherwise sound (no ERROR, fault status, over-temperature or
\* current above the settle cap).
Readings == [pos : Positions, idle : BOOLEAN, low : BOOLEAN, sound : BOOLEAN]

Targets == {"policy", "hold", "released"}

VARIABLES pc,
          now,            \* time since the stop began
          state,          \* RH56ActuatorState
          preserve,       \* preserve_fault
          hand,           \* ANGLE_SET held by the hand
          stable,         \* stable_samples, each with the target it was read under
          motion,         \* hold_motion_samples
          pass,           \* disable pass in progress
          proved,         \* hold_verified, motionless hold, passes, stable tail
          failed,         \* `failures` is not empty
          delayed,        \* the scheduling delay has been taken
          released,       \* history: release frames put on the bus
          cause           \* history: the hand or the bus gave a reason to fail

vars == <<pc, now, state, preserve, hand, stable, motion, pass, proved, failed,
          delayed, released, cause>>

Phases == {"armed", "seed", "hold_write", "hold_readback", "settle_target",
           "settle_feedback", "disable_write", "disable_readback",
           "post_target", "post_feedback", "verdict", "confirmed",
           "unconfirmed"}

Sample == [reading : Readings, under : Targets]

TypeOK == /\ pc \in Phases
          /\ now \in Nat
          /\ state \in {"armed", "fault_latched", "disarmed"}
          /\ preserve \in BOOLEAN
          /\ hand \in Targets
          /\ stable \in Seq(Sample) /\ Len(stable) <= Samples
          /\ motion \in Seq(Sample) /\ Len(motion) <= Samples
          /\ pass \in 1 .. 2
          /\ proved \in [hold : BOOLEAN, still : BOOLEAN, passes : 0 .. 2,
                         tail : BOOLEAN]
          /\ failed \in BOOLEAN
          /\ delayed \in BOOLEAN
          /\ released \in 0 .. 2
          /\ cause \in BOOLEAN

Init == /\ pc = "armed"
        /\ now = 0
        /\ state = "armed"
        /\ preserve = FALSE
        /\ hand \in {"policy", "released"}   \* released: no numeric target yet
        /\ stable = <<>>
        /\ motion = <<>>
        /\ pass = 1
        /\ proved = [hold |-> FALSE, still |-> FALSE, passes |-> 0,
                     tail |-> FALSE]
        /\ failed = FALSE
        /\ delayed = FALSE
        /\ released = 0
        /\ cause = FALSE

(* helpers ----------------------------------------------------------------- *)

\* deque(maxlen=Samples).append
Roll(q, x) == IF Len(q) < Samples THEN Append(q, x) ELSE Append(Tail(q), x)

\* _stop_tail_motion_error is None
Motionless(q) ==
    /\ Len(q) = Samples
    /\ \A i, j \in DOMAIN q : q[i].reading.pos = q[j].reading.pos

\* One exchange of at most `bound`, begun now and due by `limit`, gets through;
\* `_before_deadline` is asked before and after it.
Exchange(bound, limit) ==
    \E d \in 1 .. bound : /\ now + d <= limit
                          /\ now' = now + d

\* It fails: too late to begin, cut off at its limit, or lost on the bus.  Only
\* the loss is the bus's fault.
ExchangeFails(bound, limit) ==
    \/ now > limit /\ UNCHANGED <<now, cause>>
    \/ /\ now <= limit
       /\ now' = Smaller(now + bound, limit)
       /\ cause' = (cause \/ now + bound <= limit)

\* Mutant: a failed hold phase is reported at once.
HoldPhaseFailsAtOnce == pc' = "verdict" /\ failed' = TRUE

\* Control returns from the except clause of the hold phase.
HoldPhaseFails == pc' = "disable_write" /\ failed' = TRUE

Moved(q, r) == q # <<>> /\ q[Len(q)].reading.pos # r.pos

\* The one scheduling delay.
Delay == /\ pc \notin {"armed", "confirmed", "unconfirmed"}
         /\ ~delayed
         /\ delayed' = TRUE
         /\ now' = now + Margin
         /\ UNCHANGED <<pc, state, preserve, hand, stable, motion, pass, proved,
                        failed, released, cause>>

(* entry points ------------------------------------------------------------ *)

\* disable_and_verify of an armed hand.
BeginNormalStop ==
    /\ pc = "armed"
    /\ pc' = "seed"
    /\ UNCHANGED <<now, state, preserve, hand, stable, motion, pass, proved,
                   failed, delayed, released, cause>>

\* enforce_policy_watchdog past its deadline, fault_and_disable, and
\* disable_and_verify of a faulted hand: the fault is latched and preserved.
BeginFaultStop ==
    /\ pc = "armed"
    /\ pc' = "seed"
    /\ state' = "fault_latched"
    /\ preserve' = TRUE
    /\ UNCHANGED <<now, hand, stable, motion, pass, proved, failed, delayed,
                   released, cause>>

(* hold phase -------------------------------------------------------------- *)

SeedFeedback ==
    /\ pc = "seed"
    /\ \/ \E r \in Readings :
            /\ Exchange(2 * ReadTime, SettleDeadline)
            /\ cause' = (cause \/ ~r.sound)
            /\ IF r.sound THEN pc' = "hold_write" /\ UNCHANGED failed
                          ELSE HoldPhaseFails
       \/ ExchangeFails(2 * ReadTime, SettleDeadline) /\ HoldPhaseFails
    /\ UNCHANGED <<state, preserve, hand, stable, motion, pass, proved, delayed,
                   released>>

\* _transport_write_once_then_verify never repeats a write: a missing response
\* leaves it to the readback to tell whether the hand applied it.
HoldWrite ==
    /\ pc = "hold_write"
    /\ pc' = "hold_readback"
    /\ \/ Exchange(WriteTime, SettleDeadline) /\ hand' = "hold" /\ UNCHANGED cause
       \/ /\ ExchangeFails(WriteTime, SettleDeadline)
          /\ hand' \in (IF now > SettleDeadline THEN {hand} ELSE {hand, "hold"})
    /\ UNCHANGED <<state, preserve, stable, motion, pass, proved, failed,
                   delayed, released>>

HoldReadback ==
    /\ pc = "hold_readback"
    /\ \/ /\ Exchange(ReadTime, SettleDeadline)
          /\ IF hand = "hold"
             THEN /\ pc' = "settle_target"
                  /\ proved' = [proved EXCEPT !.hold = TRUE]
                  /\ UNCHANGED failed
             ELSE HoldPhaseFails /\ UNCHANGED proved
          /\ UNCHANGED cause
       \/ /\ ExchangeFails(ReadTime, SettleDeadline)
          /\ HoldPhaseFails
          /\ UNCHANGED proved
    /\ UNCHANGED <<state, preserve, hand, stable, motion, pass, delayed,
                   released>>

\* Top of the settle loop: time is up, or the hold target is read back.
SettleTarget ==
    /\ pc = "settle_target"
    /\ \/ /\ now >= SettleDeadline
          /\ HoldPhaseFails
          /\ UNCHANGED <<now, cause>>
       \/ /\ now < SettleDeadline
          /\ Exchange(ReadTime, SettleDeadline)
          /\ pc' = "settle_feedback"
          /\ UNCHANGED <<failed, cause>>
       \/ /\ now < SettleDeadline
          /\ ExchangeFails(ReadTime, SettleDeadline)
          /\ HoldPhaseFails
    /\ UNCHANGED <<state, preserve, hand, stable, motion, pass, proved, delayed,
                   released>>

\* A sound reading rolls into both deques; a motionless full tail ends the loop,
\* otherwise the loop sleeps what is left of the interval.  A hold phase that comes
\* to its end leaves no cause for a failure behind.
SettleSample(r) ==
    LET x  == [reading |-> r, under |-> hand]
        mv == Roll(motion, x)
    IN  /\ motion' = mv
        /\ stable' = IF r.idle THEN Roll(stable, x) ELSE <<>>
        /\ cause' = (~Motionless(mv) /\ (cause \/ Moved(motion, r)))
        /\ \E d \in 1 .. 2 * ReadTime :
             /\ now + d <= SettleDeadline
             /\ IF Motionless(mv)
                THEN /\ now' = now + d
                     /\ pc' = "disable_write"
                     /\ proved' = [proved EXCEPT !.still = TRUE]
                ELSE /\ now' = Smaller(now + d + SleepTime, SettleDeadline)
                     /\ pc' = "settle_target"
                     /\ UNCHANGED proved
        /\ UNCHANGED failed

SettleFeedback ==
    /\ pc = "settle_feedback"
    /\ \/ \E r \in Readings : r.sound /\ SettleSample(r)
       \/ /\ Exchange(2 * ReadTime, SettleDeadline)    \* an unsound reading
          /\ HoldPhaseFails
          /\ cause' = TRUE
          /\ UNCHANGED <<stable, motion, proved>>
       \/ /\ ExchangeFails(2 * ReadTime, SettleDeadline)
          /\ HoldPhaseFails
          /\ UNCHANGED <<stable, motion, proved>>
    /\ UNCHANGED <<state, preserve, hand, pass, delayed, released>>

(* release phase ----------------------------------------------------------- *)

\* A disable pass is attempted whatever the hold phase came to; past the
\* deadline no frame reaches the bus.
DisableWrite ==
    /\ pc = "disable_write"
    /\ pc' = "disable_readback"
    /\ released' = IF now <= Deadline THEN released + 1 ELSE released
    /\ \/ Exchange(WriteTime, Deadline) /\ hand' = "released" /\ UNCHANGED cause
       \/ /\ ExchangeFails(WriteTime, Deadline)
          /\ hand' \in (IF now > Deadline THEN {hand} ELSE {hand, "released"})
    /\ UNCHANGED <<state, preserve, stable, motion, pass, proved, failed,
                   delayed>>

\* Mutant: the tail collected under the numeric hold counts after the release.
AfterPassReusesTail(passes) ==
    IF pass = 1
    THEN pass' = 2 /\ pc' = "disable_write" /\ UNCHANGED stable
    ELSE /\ pc' = IF passes = 2 THEN "post_target" ELSE "verdict"
         /\ UNCHANGED <<pass, stable>>

\* After each pass: the second one, the fresh tail, or nothing more to prove.
AfterPass(passes) ==
    IF pass = 1
    THEN pass' = 2 /\ pc' = "disable_write" /\ UNCHANGED stable
    ELSE /\ pc' = IF passes = 2 THEN "post_target" ELSE "verdict"
         /\ stable' = IF passes = 2 THEN <<>> ELSE stable
         /\ UNCHANGED pass

DisableReadback ==
    /\ pc = "disable_readback"
    /\ \/ /\ Exchange(ReadTime, Deadline)
          /\ UNCHANGED cause
          /\ IF hand = "released"
             THEN /\ proved' = [proved EXCEPT !.passes = @ + 1]
                  /\ AfterPass(proved.passes + 1)
                  /\ UNCHANGED failed
             ELSE failed' = TRUE /\ AfterPass(proved.passes) /\ UNCHANGED proved
       \/ /\ ExchangeFails(ReadTime, Deadline)
          /\ failed' = TRUE
          /\ AfterPass(proved.passes)
          /\ UNCHANGED proved
    /\ UNCHANGED <<state, preserve, hand, motion, delayed, released>>

\* Top of the post-disable loop.
PostTarget ==
    /\ pc = "post_target"
    /\ \/ /\ now >= Deadline
          /\ pc' = "verdict" /\ failed' = TRUE
          /\ UNCHANGED <<now, cause>>
       \/ /\ now < Deadline
          /\ Exchange(ReadTime, Deadline)
          /\ pc' = "post_feedback"
          /\ UNCHANGED <<failed, cause>>
       \/ /\ now < Deadline
          /\ ExchangeFails(ReadTime, Deadline)
          /\ pc' = "verdict" /\ failed' = TRUE
    /\ UNCHANGED <<state, preserve, hand, stable, motion, pass, proved, delayed,
                   released>>

\* A post-disable sample counts when idle and under the strict current cap.
Qualifies(r) == r.idle /\ r.low

PostSample(r) ==
    LET tail == IF Qualifies(r)
                THEN Roll(stable, [reading |-> r, under |-> hand]) ELSE <<>>
    IN  /\ stable' = tail
        /\ cause' = (cause \/ ~r.idle \/ ~r.low \/ Moved(stable, r))
        /\ \E d \in 1 .. 2 * ReadTime :
             /\ now + d <= Deadline
             /\ IF Motionless(tail)
                THEN /\ now' = now + d
                     /\ pc' = "verdict"
                     /\ proved' = [proved EXCEPT !.tail = TRUE]
                ELSE /\ now' = Smaller(now + d + SleepTime, Deadline)
                     /\ pc' = "post_target"
                     /\ UNCHANGED proved
        /\ UNCHANGED failed

PostFeedback ==
    /\ pc = "post_feedback"
    /\ \/ \E r \in Readings : r.sound /\ PostSample(r)
       \/ /\ Exchange(2 * ReadTime, Deadline)          \* an unsound reading
          /\ pc' = "verdict" /\ failed' = TRUE
          /\ cause' = TRUE
          /\ UNCHANGED <<stable, proved>>
       \/ /\ ExchangeFails(2 * ReadTime, Deadline)
          /\ pc' = "verdict" /\ failed' = TRUE
          /\ UNCHANGED <<stable, proved>>
    /\ UNCHANGED <<state, preserve, hand, motion, pass, delayed, released>>

\* Every part of the proof, and no recorded failure.
ProofComplete == /\ ~failed
                 /\ proved.hold
                 /\ proved.tail
                 /\ proved.passes = 2
                 /\ Len(stable) = Samples

\* Mutant: a confirmed stop disarms a faulted hand too.
VerdictForgetsFault ==
    /\ pc = "verdict"
    /\ IF ProofComplete
       THEN pc' = "confirmed" /\ state' = "disarmed"
       ELSE pc' = "unconfirmed" /\ state' = "fault_latched"
    /\ UNCHANGED <<now, preserve, hand, stable, motion, pass, proved, failed,
                   delayed, released, cause>>

\* The report, or RH56StopUnconfirmed with the fault latched.
Verdict ==
    /\ pc = "verdict"
    /\ IF ProofComplete
       THEN /\ pc' = "confirmed"
            /\ state' = IF preserve THEN state ELSE "disarmed"
       ELSE pc' = "unconfirmed" /\ state' = "fault_latched"
    /\ UNCHANGED <<now, preserve, hand, stable, motion, pass, proved, failed,
                   delayed, released, cause>>

Next == \/ Delay
        \/ BeginNormalStop \/ BeginFaultStop
        \/ SeedFeedback \/ HoldWrite \/ HoldReadback
        \/ SettleTarget \/ SettleFeedback
        \/ DisableWrite \/ DisableReadback
        \/ PostTarget \/ PostFeedback
        \/ Verdict

Spec == Init /\ [][Next]_vars

(* properties -------------------------------------------------------------- *)

Ended == pc \in {"confirmed", "unconfirmed"}

\* A confirmed stop rests on a full tail of idle, low-current, motionless
\* samples every one of which was read after the targets were released, and on
\* a hand that was seen holding still before that: ``The final proof never
\* reuses a pre-release sample''.
ConfirmedMeansProven ==
    pc = "confirmed" =>
       /\ hand = "released"
       /\ proved.hold /\ proved.still /\ proved.passes = 2
       /\ Len(stable) = Samples
       /\ \A i \in DOMAIN stable :
             /\ stable[i].under = "released"
             /\ stable[i].reading.idle /\ stable[i].reading.low
             /\ stable[i].reading.pos = stable[1].reading.pos

\* Whatever the hold phase met, both release frames are put on the bus before
\* the stop ends: the hold phase cannot consume the time the release needs.
ReleaseAlwaysSent == Ended => released = 2

\* A stop is left unconfirmed only because the bus lost an exchange, the hand never
\* came to rest under the hold, or moved or ran above idle after the release.  A hand
\* that rests only late in the hold phase is still proven stopped: release_reserve_s
\* leaves time for full-length exchanges and one scheduling delay.
UnconfirmedHasCause == pc = "unconfirmed" => cause

\* A faulted hand stays faulted through its own stop, confirmed or not; and an
\* unconfirmed stop never leaves the hand disarmed.
FaultSurvivesStop ==
    /\ [][state = "fault_latched" => state' = "fault_latched"]_vars
    /\ [](state = "disarmed" => pc = "confirmed")
=============================================================================
