--------------------------- MODULE RH56Stop_proofs ---------------------------
(* The verified stop, for any number of samples and positions and any times.

   What a confirmed stop rests on (ProofInv) and what a latched fault may become
   (FaultInv) hold whatever the times are.  That both release frames are sent
   needs half of the budget to hold one disable pass beside the scheduling delay
   (ReleaseFits); that only a real cause leaves a stop unconfirmed needs the whole
   of release_reserve_s and time for one motionless hold (TimeSuffices), as in
   the deployed configuration of five seconds.                                 *)
EXTENDS RH56Stop, SequenceTheorems, TLAPS

(* the inductive invariant ---------------------------------------------------- *)

Early == {"armed", "seed", "hold_write", "hold_readback", "settle_target",
          "settle_feedback"}
Settling == {"settle_target", "settle_feedback"}
Disabling == {"disable_write", "disable_readback"}
Post == {"post_target", "post_feedback"}

Steady(q) == \A i, j \in DOMAIN q : q[i].reading.pos = q[j].reading.pos

\* Read of a released hand, idle and under the strict current cap.
Fresh(q) == \A i \in DOMAIN q : /\ q[i].under = "released"
                                /\ q[i].reading.idle /\ q[i].reading.low

\* How far the proof has come; it never runs ahead of what the hand has shown.
ProofInv ==
    /\ pc \in Early => /\ pass = 1 /\ ~failed
                       /\ ~proved.still /\ proved.passes = 0 /\ ~proved.tail
                       /\ released = 0
    /\ pc = "disable_write" => released < pass
    /\ pc = "disable_readback" => released <= pass
    /\ pc \in Settling => proved.hold
    /\ pc \in Disabling => proved.passes < pass /\ ~proved.tail
    /\ pc \notin Early /\ ~failed => proved.hold /\ proved.still
    /\ proved.passes > 0 => hand = "released"
    /\ pc \in Post => proved.passes = 2 /\ ~proved.tail /\ Fresh(stable)
    /\ pc \in {"verdict", "confirmed"} /\ proved.tail =>
           proved.passes = 2 /\ Motionless(stable) /\ Fresh(stable)
    /\ pc = "confirmed" => ProofComplete

FaultInv == /\ state = "fault_latched" => preserve \/ pc = "unconfirmed"
            /\ state = "disarmed" => pc = "confirmed"

\* The scheduling delay, once it has been taken.
Late == IF delayed THEN Margin ELSE 0

\* When a disable pass begins, and the release frames sent by then.
TimeInv ==
    /\ pc \in Early => released = 0 /\ now <= SettleDeadline + Late
    /\ pc = "disable_write" =>
           /\ released = pass - 1
           /\ now <= SettleDeadline + (pass - 1) * (WriteTime + ReadTime) + Late
    /\ pc = "disable_readback" =>
           /\ released = pass
           /\ now <= SettleDeadline + (pass - 1) * (WriteTime + ReadTime)
                       + WriteTime + Late
    /\ pc \notin Early \cup Disabling => released = 2

ReleaseFits == WriteTime + ReadTime + Margin <= StopTimeout \div 2

\* The time of n rounds of one target and two feedback registers and a sleep.
Rounds(n) == n * (3 * ReadTime + SleepTime)

FullReserve == 2 * (WriteTime + ReadTime) + 3 * Samples * ReadTime
                 + (Samples - 1) * SleepTime + Margin

TimeSuffices ==
    /\ FullReserve <= StopTimeout \div 2
    /\ 3 * ReadTime + WriteTime + Rounds(Samples - 1) + 3 * ReadTime + Margin
         <= SettleDeadline

\* Where a stop without any cause to fail stands, and when.
OnTime ==
    /\ pc = "armed" => now = 0 /\ ~delayed
    /\ pc = "seed" => now <= Late
    /\ pc = "hold_write" => now <= 2 * ReadTime + Late
    /\ pc = "hold_readback" =>
          now <= 2 * ReadTime + WriteTime + Late /\ hand = "hold"
    /\ pc \in Settling =>
          /\ Len(motion) < Samples /\ Steady(motion)
          /\ now <= 3 * ReadTime + WriteTime + Rounds(Len(motion)) + Late
                      + (IF pc = "settle_feedback" THEN ReadTime ELSE 0)
    /\ pc \in Disabling => ~failed /\ proved.passes = pass - 1
    /\ pc = "disable_readback" => hand = "released"
    /\ pc \in Post =>
          /\ ~failed
          /\ Len(stable) < Samples /\ Steady(stable)
          /\ now <= SettleDeadline + 2 * (WriteTime + ReadTime)
                      + Rounds(Len(stable)) + Late
                      + (IF pc = "post_feedback" THEN ReadTime ELSE 0)
    /\ pc = "verdict" => ProofComplete
    /\ pc # "unconfirmed"

CleanInv ==
    /\ pc \in {"armed", "seed", "hold_write", "hold_readback"} => motion = <<>>
    /\ ~cause => OnTime

(* lemmas about the operators -------------------------------------------------- *)

\* The release reserve is at most half of the budget, and positive times stay so.
LEMMA Times ==
  /\ WriteTime \in Nat /\ WriteTime > 0 /\ ReadTime \in Nat /\ ReadTime > 0
  /\ Margin \in Nat /\ Margin > 0 /\ SleepTime \in Nat
  /\ Samples \in Nat /\ Samples > 1
  /\ StopTimeout \in Nat
  /\ ReleaseReserve \in Nat /\ ReleaseReserve <= StopTimeout \div 2
  /\ Deadline = StopTimeout
  /\ SettleDeadline \in Nat /\ SettleDeadline = Deadline - ReleaseReserve
<1>1. /\ WriteTime \in Nat /\ WriteTime > 0 /\ ReadTime \in Nat /\ ReadTime > 0
      /\ Margin \in Nat /\ Margin > 0 /\ SleepTime \in Nat
      /\ Samples \in Nat /\ Samples > 1 /\ StopTimeout \in Nat
  BY StopAssumption
<1>2. StopTimeout \div 2 \in Nat /\ StopTimeout \div 2 <= StopTimeout
  BY <1>1
<1>3. 3 * Samples * ReadTime \in Nat /\ (Samples - 1) * SleepTime \in Nat
  BY <1>1
<1>4. 2 * (WriteTime + ReadTime) + 3 * Samples * ReadTime
        + (Samples - 1) * SleepTime + Margin \in Nat
  BY <1>1, <1>3
<1>5. ReleaseReserve \in Nat /\ ReleaseReserve <= StopTimeout \div 2
  BY <1>2, <1>4 DEF ReleaseReserve, Smaller
<1> QED BY <1>1, <1>2, <1>5 DEF Deadline, SettleDeadline

LEMMA RollTyped ==
  ASSUME NEW q \in Seq(Sample), Len(q) <= Samples, NEW x \in Sample
  PROVE  /\ Roll(q, x) \in Seq(Sample) /\ Len(Roll(q, x)) <= Samples
         /\ Len(q) < Samples => Len(Roll(q, x)) = Len(q) + 1
  BY Times DEF Roll

\* What a deque holds after an append is the new sample or was there before.
LEMMA RollMembers ==
  ASSUME NEW q \in Seq(Sample), NEW x \in Sample, Len(q) <= Samples
  PROVE  \A i \in DOMAIN Roll(q, x) :
            Roll(q, x)[i] = x \/ \E j \in DOMAIN q : Roll(q, x)[i] = q[j]
<1>1. CASE Len(q) < Samples
  BY <1>1 DEF Roll
<1>2. CASE ~(Len(q) < Samples)
  <2>1. Len(q) > 0 /\ Roll(q, x) = Append(Tail(q), x)
    BY <1>2, Times DEF Roll
  <2>2. Tail(q) \in Seq(Sample) /\ Len(Tail(q)) = Len(q) - 1
    BY <2>1
  <2>3. \A i \in 1 .. Len(q) - 1 : Tail(q)[i] = q[i + 1]
    BY <2>1
  <2> QED BY <2>1, <2>2, <2>3
<1> QED BY <1>1, <1>2

LEMMA RollFresh ==
  ASSUME NEW q \in Seq(Sample), NEW x \in Sample, Len(q) <= Samples, Fresh(q),
         x.under = "released", x.reading.idle, x.reading.low
  PROVE  Fresh(Roll(q, x))
  BY RollMembers DEF Fresh

\* A reading that has not moved leaves the samples steady.
LEMMA RollSteady ==
  ASSUME NEW q \in Seq(Sample), NEW x \in Sample, Len(q) <= Samples, Steady(q),
         ~Moved(q, x.reading)
  PROVE  Steady(Roll(q, x))
<1>1. \A i \in DOMAIN q : q[i].reading.pos = x.reading.pos
  BY DEF Moved, Steady
<1> QED BY <1>1, RollMembers DEF Steady

LEMMA SteadyFull ==
  ASSUME NEW q, Steady(q), Len(q) = Samples
  PROVE  Motionless(q)
  BY DEF Steady, Motionless

LEMMA RoundsStep ==
  /\ Rounds(0) = 0
  /\ \A n \in Nat : Rounds(n) \in Nat /\ Rounds(n + 1) = Rounds(n) + 3 * ReadTime + SleepTime
  /\ \A n \in Nat : n < Samples => Rounds(n) <= Rounds(Samples - 1)
<1> DEFINE k == 3 * ReadTime + SleepTime
<1>1. k \in Nat
  BY Times
<1>2. \A n \in Nat : Rounds(n) = n * k
  BY DEF Rounds
<1> HIDE DEF k
<1>3. \A n \in Nat : n * k \in Nat /\ (n + 1) * k = n * k + k
  BY <1>1
<1>4. \A n \in Nat : n < Samples => n * k <= (Samples - 1) * k
  <2> SUFFICES ASSUME NEW n \in Nat, n < Samples PROVE n * k <= (Samples - 1) * k
    OBVIOUS
  <2> DEFINE m == Samples - 1 - n
  <2>1. m \in Nat /\ Samples - 1 = n + m
    BY Times
  <2> HIDE DEF m
  <2>2. (n + m) * k = n * k + m * k /\ m * k \in Nat /\ n * k \in Nat
    BY <1>1, <2>1
  <2> QED BY <2>1, <2>2
<1>5. Rounds(0) = 0
  BY <1>1, <1>2
<1>6. \A n \in Nat : n < Samples => Rounds(n) <= Rounds(Samples - 1)
  BY <1>2, <1>4, Times
<1>7. \A n \in Nat : Rounds(n) \in Nat /\ Rounds(n + 1) = Rounds(n) + k
  BY <1>2, <1>3
<1>8. \A n \in Nat : Rounds(n) + k = Rounds(n) + 3 * ReadTime + SleepTime
  BY <1>7, Times DEF k
<1> QED BY <1>5, <1>6, <1>7, <1>8

\* With the whole reserve, the fresh tail fits between the passes and the deadline.
LEMMA ReserveFits ==
  ASSUME TimeSuffices
  PROVE  /\ ReleaseFits
         /\ Deadline = SettleDeadline + 2 * (WriteTime + ReadTime)
                          + Rounds(Samples - 1) + 3 * ReadTime + Margin
         /\ 6 * ReadTime + WriteTime + Rounds(Samples - 1) + Margin <= SettleDeadline
<1> DEFINE a == Samples * ReadTime
           b == (Samples - 1) * SleepTime
<1>1. a \in Nat /\ b \in Nat /\ 3 * Samples * ReadTime = 3 * a
  BY Times
<1>2. Rounds(Samples - 1) = 3 * a - 3 * ReadTime + b
  BY Times DEF Rounds
<1> HIDE DEF a, b
<1>3. FullReserve = 2 * (WriteTime + ReadTime) + 3 * a + b + Margin
  BY <1>1 DEF FullReserve, b
<1>4. ReleaseReserve = FullReserve
  <2>1. FullReserve <= StopTimeout \div 2
    BY DEF TimeSuffices
  <2>2. StopTimeout \div 2 \in Nat /\ FullReserve \in Nat
    BY Times, <1>1, <1>3
  <2>3. ReleaseReserve = Smaller(StopTimeout \div 2, FullReserve)
    BY DEF ReleaseReserve, FullReserve
  <2> QED BY <2>1, <2>2, <2>3 DEF Smaller
<1> QED BY <1>1, <1>2, <1>3, <1>4, Times DEF TimeSuffices, ReleaseFits

\* The deployed actuator, in units of 10 ms: stop_timeout_s of 5 s, three samples
\* 20 ms apart, 20 ms write grace, 50 ms exchanges, 100 ms scheduling margin.
LEMMA DeployedTimesSuffice ==
  ASSUME StopTimeout = 500, Samples = 3, SleepTime = 2, WriteTime = 2, ReadTime = 5,
         Margin = 10
  PROVE  TimeSuffices
<1>1. FullReserve = 73 /\ StopTimeout \div 2 = 250
  BY DEF FullReserve
<1>2. ReleaseReserve = 73
  BY <1>1 DEF ReleaseReserve, FullReserve, Smaller
<1>3. SettleDeadline = 427 /\ Rounds(Samples - 1) = 34
  BY <1>2 DEF SettleDeadline, Deadline, Rounds
<1> QED BY <1>1, <1>3 DEF TimeSuffices

(* what a stop has proven ------------------------------------------------------ *)

SafeInv == TypeOK /\ ProofInv /\ FaultInv

LEMMA InitSafe == Init => SafeInv
<1> SUFFICES ASSUME Init PROVE SafeInv OBVIOUS
<1>1. TypeOK
  <2>1. /\ stable \in Seq(Sample) /\ Len(stable) <= Samples
        /\ motion \in Seq(Sample) /\ Len(motion) <= Samples
    BY Times DEF Init
  <2>2. proved \in [hold : BOOLEAN, still : BOOLEAN, passes : 0 .. 2, tail : BOOLEAN]
    BY DEF Init
  <2>3. /\ pc \in Phases /\ now \in Nat /\ state = "armed" /\ hand \in Targets
        /\ pass = 1 /\ released = 0
        /\ {preserve, failed, delayed, cause} \subseteq BOOLEAN
    BY DEF Init, Phases, Targets
  <2> QED BY <2>1, <2>2, <2>3 DEF TypeOK
<1>2. ProofInv /\ FaultInv
  BY DEF Init, ProofInv, FaultInv, Early, Settling, Disabling, Post
<1> QED BY <1>1, <1>2 DEF SafeInv

\* An exchange that gets through or fails leaves a time behind it.
LEMMA ExchangeTyped ==
  ASSUME now \in Nat, NEW bound \in Nat, NEW limit \in Nat
  PROVE  /\ Exchange(bound, limit) => now' \in Nat /\ now' <= limit
         /\ ExchangeFails(bound, limit) => now' \in Nat
  BY DEF Exchange, ExchangeFails, Smaller

LEMMA HoldSafe ==
  ASSUME SafeInv, SeedFeedback \/ HoldWrite \/ HoldReadback \/ SettleTarget
  PROVE  SafeInv'
<1> USE DEF SafeInv
<1>1. CASE SeedFeedback
  <2>0. now' \in Nat
    BY <1>1, Times, ExchangeTyped DEF SeedFeedback, TypeOK
  <2>1. cause' \in BOOLEAN
    BY <1>1 DEF SeedFeedback, TypeOK, ExchangeFails
  <2>2. TypeOK'
    BY <1>1, <2>0, <2>1 DEF SeedFeedback, TypeOK, HoldPhaseFails, Phases
  <2>3. ProofInv' /\ FaultInv'
    BY <1>1 DEF SeedFeedback, HoldPhaseFails, ProofInv, FaultInv, TypeOK, Early,
                Settling, Disabling, Post
  <2> QED BY <2>2, <2>3
<1>2. CASE HoldWrite
  <2>1. now' \in Nat /\ cause' \in BOOLEAN
    BY <1>2, Times, ExchangeTyped DEF HoldWrite, TypeOK, ExchangeFails
  <2>2. TypeOK'
    BY <1>2, <2>1 DEF HoldWrite, TypeOK, HoldPhaseFails, Phases, Targets
  <2>3. ProofInv' /\ FaultInv'
    BY <1>2 DEF HoldWrite, ProofInv, FaultInv, TypeOK, Early,
                Settling, Disabling, Post
  <2> QED BY <2>2, <2>3
<1>3. CASE HoldReadback
  <2>1. now' \in Nat /\ cause' \in BOOLEAN
    BY <1>3, Times, ExchangeTyped DEF HoldReadback, TypeOK, ExchangeFails
  <2>2. TypeOK'
    BY <1>3, <2>1 DEF HoldReadback, TypeOK, HoldPhaseFails, Phases
  <2>3. ProofInv' /\ FaultInv'
    BY <1>3 DEF HoldReadback, HoldPhaseFails, ProofInv, FaultInv, TypeOK, Early,
                Settling, Disabling, Post
  <2> QED BY <2>2, <2>3
<1>4. CASE SettleTarget
  <2>1. now' \in Nat /\ cause' \in BOOLEAN
    BY <1>4, Times, ExchangeTyped DEF SettleTarget, TypeOK, ExchangeFails
  <2>2. TypeOK'
    BY <1>4, <2>1 DEF SettleTarget, TypeOK, HoldPhaseFails, Phases
  <2>3. ProofInv' /\ FaultInv'
    BY <1>4 DEF SettleTarget, HoldPhaseFails, ProofInv, FaultInv, TypeOK, Early,
                Settling, Disabling, Post
  <2> QED BY <2>2, <2>3
<1> QED BY <1>1, <1>2, <1>3, <1>4

LEMMA BeginSafe ==
  ASSUME SafeInv, Delay \/ BeginNormalStop \/ BeginFaultStop
  PROVE  SafeInv'
<1> USE DEF SafeInv
<1>1. CASE Delay
  <2>1. TypeOK'
    BY <1>1, Times DEF Delay, TypeOK
  <2>2. ProofInv' /\ FaultInv'
    BY <1>1 DEF Delay, ProofInv, FaultInv, TypeOK, Early, Settling, Disabling, Post,
                Fresh, Motionless
  <2> QED BY <2>1, <2>2
<1>2. CASE BeginNormalStop
  BY <1>2 DEF BeginNormalStop, TypeOK, ProofInv, FaultInv, Phases, Early, Settling,
              Disabling, Post
<1>3. CASE BeginFaultStop
  BY <1>3 DEF BeginFaultStop, TypeOK, ProofInv, FaultInv, Phases, Early, Settling,
              Disabling, Post
<1> QED BY <1>1, <1>2, <1>3

\* A sample of the hand, and what the deques keep of it.
LEMMA SampleTyped ==
  ASSUME SafeInv, NEW r \in Readings
  PROVE  LET x == [reading |-> r, under |-> hand]
         IN  /\ x \in Sample
             /\ Roll(motion, x) \in Seq(Sample) /\ Len(Roll(motion, x)) <= Samples
             /\ Roll(stable, x) \in Seq(Sample) /\ Len(Roll(stable, x)) <= Samples
             /\ <<>> \in Seq(Sample) /\ Len(<<>>) <= Samples
<1> DEFINE x == [reading |-> r, under |-> hand]
<1>1. x \in Sample
  BY DEF SafeInv, TypeOK, Sample
<1> HIDE DEF x
<1>2. <<>> \in Seq(Sample) /\ Len(<<>>) <= Samples
  BY Times
<1>3. /\ Roll(motion, x) \in Seq(Sample) /\ Len(Roll(motion, x)) <= Samples
      /\ Roll(stable, x) \in Seq(Sample) /\ Len(Roll(stable, x)) <= Samples
  BY <1>1, RollTyped DEF SafeInv, TypeOK
<1> QED BY <1>1, <1>2, <1>3 DEF x

LEMMA SettleSafe ==
  ASSUME SafeInv, SettleFeedback
  PROVE  SafeInv'
<1> USE DEF SafeInv
<1>1. CASE \E r \in Readings : r.sound /\ SettleSample(r)
  <2>1. PICK r \in Readings : r.sound /\ SettleSample(r)
    BY <1>1
  <2> DEFINE x == [reading |-> r, under |-> hand]
             mv == Roll(motion, x)
  <2>2. /\ mv \in Seq(Sample) /\ Len(mv) <= Samples
        /\ Roll(stable, x) \in Seq(Sample) /\ Len(Roll(stable, x)) <= Samples
        /\ <<>> \in Seq(Sample) /\ Len(<<>>) <= Samples
    BY SampleTyped
  <2>3. /\ motion' = mv
        /\ stable' = IF r.idle THEN Roll(stable, x) ELSE <<>>
        /\ cause' = (~Motionless(mv) /\ (cause \/ Moved(motion, r)))
        /\ \E d \in 1 .. 2 * ReadTime :
             /\ now + d <= SettleDeadline
             /\ IF Motionless(mv)
                THEN /\ now' = now + d
                     /\ pc' = "disable_write"
                     /\ proved' = [proved EXCEPT !.still = TRUE]
                ELSE /\ now' = Smaller(now + d + SleepTime, SettleDeadline)
                     /\ pc' = "settle_target"
                     /\ UNCHANGED proved
        /\ UNCHANGED failed
    BY <2>1 DEF SettleSample
  <2> HIDE DEF x, mv
  <2>4. now' \in Nat
    BY <2>3, Times DEF TypeOK, Smaller
  <2>5. cause' \in BOOLEAN
    BY <2>3
  <2>6. stable' \in Seq(Sample) /\ Len(stable') <= Samples
    BY <2>2, <2>3
  <2>7. pc = "settle_feedback" /\ UNCHANGED <<state, preserve, hand, pass, delayed, released>>
    BY DEF SettleFeedback
  <2>8. TypeOK'
    BY <2>2, <2>3, <2>4, <2>5, <2>6, <2>7 DEF TypeOK, Phases
  <2>9. ProofInv' /\ FaultInv'
    BY <2>3, <2>7 DEF ProofInv, FaultInv, TypeOK, Early, Settling, Disabling, Post
  <2> QED BY <2>8, <2>9
<1>2. CASE /\ Exchange(2 * ReadTime, SettleDeadline) \/ ExchangeFails(2 * ReadTime, SettleDeadline)
           /\ HoldPhaseFails
           /\ cause' \in BOOLEAN
           /\ UNCHANGED <<stable, motion, proved>>
  <2>1. now' \in Nat
    BY <1>2, Times, ExchangeTyped DEF TypeOK
  <2>2. TypeOK'
    BY <1>2, <2>1 DEF SettleFeedback, TypeOK, HoldPhaseFails, Phases
  <2>3. ProofInv' /\ FaultInv'
    BY <1>2 DEF SettleFeedback, HoldPhaseFails, ProofInv, FaultInv, TypeOK, Early,
                Settling, Disabling, Post
  <2> QED BY <2>2, <2>3
<1>3. ExchangeFails(2 * ReadTime, SettleDeadline) => cause' \in BOOLEAN
  BY DEF ExchangeFails, TypeOK
<1> QED BY <1>1, <1>2, <1>3 DEF SettleFeedback

LEMMA DisableSafe ==
  ASSUME SafeInv, DisableWrite \/ DisableReadback
  PROVE  SafeInv'
<1> USE DEF SafeInv
<1>1. CASE DisableWrite
  <2>1. now' \in Nat
    BY <1>1, Times, ExchangeTyped DEF DisableWrite, TypeOK
  <2>2. cause' \in BOOLEAN
    BY <1>1 DEF DisableWrite, TypeOK, ExchangeFails
  <2>3. TypeOK'
    BY <1>1, <2>1, <2>2 DEF DisableWrite, ProofInv, TypeOK, Phases, Targets
  <2>4. ProofInv' /\ FaultInv'
    BY <1>1 DEF DisableWrite, ProofInv, FaultInv, TypeOK, Early, Settling, Disabling, Post
  <2> QED BY <2>3, <2>4
<1>2. CASE DisableReadback
  <2>1. now' \in Nat
    BY <1>2, Times, ExchangeTyped DEF DisableReadback, TypeOK
  <2>2. cause' \in BOOLEAN
    BY <1>2 DEF DisableReadback, TypeOK, ExchangeFails
  <2>3. <<>> \in Seq(Sample) /\ Len(<<>>) <= Samples
    BY Times
  <2>4. stable' \in Seq(Sample) /\ Len(stable') <= Samples
    BY <1>2, <2>3 DEF DisableReadback, AfterPass, TypeOK
  <2>5. proved.passes + 1 \in 0 .. 2
    BY <1>2 DEF DisableReadback, ProofInv, Disabling, TypeOK
  <2>6. /\ proved' \in [hold : BOOLEAN, still : BOOLEAN, passes : 0 .. 2, tail : BOOLEAN]
        /\ failed' \in BOOLEAN
    BY <1>2, <2>5 DEF DisableReadback, TypeOK
  <2>7. pc' \in Phases /\ pass' \in 1 .. 2
    BY <1>2 DEF DisableReadback, AfterPass, TypeOK, Phases
  <2>8. TypeOK'
    BY <1>2, <2>1, <2>2, <2>4, <2>6, <2>7 DEF DisableReadback, TypeOK
  <2>9. Fresh(<<>>)
    BY DEF Fresh
  <2>10. ProofInv' /\ FaultInv'
    BY <1>2, <2>9 DEF DisableReadback, AfterPass, ProofInv, FaultInv, TypeOK, Early,
                Settling, Disabling, Post
  <2> QED BY <2>8, <2>10
<1> QED BY <1>1, <1>2

LEMMA PostSafe ==
  ASSUME SafeInv, PostTarget \/ PostFeedback \/ Verdict
  PROVE  SafeInv'
<1> USE DEF SafeInv
<1>1. CASE PostTarget
  <2>1. now' \in Nat
    BY <1>1, Times, ExchangeTyped DEF PostTarget, TypeOK
  <2>2. cause' \in BOOLEAN
    BY <1>1 DEF PostTarget, TypeOK, ExchangeFails
  <2>3. TypeOK'
    BY <1>1, <2>1, <2>2 DEF PostTarget, TypeOK, Phases
  <2>4. ProofInv' /\ FaultInv'
    BY <1>1 DEF PostTarget, ProofInv, FaultInv, TypeOK, Early, Settling, Disabling, Post, Fresh
  <2> QED BY <2>3, <2>4
<1>2. CASE PostFeedback /\ \E r \in Readings : r.sound /\ PostSample(r)
  <2>1. PICK r \in Readings : r.sound /\ PostSample(r)
    BY <1>2
  <2> DEFINE x == [reading |-> r, under |-> hand]
             tail == IF Qualifies(r) THEN Roll(stable, x) ELSE <<>>
  <2>2. /\ tail \in Seq(Sample) /\ Len(tail) <= Samples
    BY SampleTyped
  <2>3. Fresh(tail)
    <3>1. Fresh(<<>>)
      BY DEF Fresh
    <3>2. Fresh(stable) /\ hand = "released"
      BY <1>2 DEF PostFeedback, ProofInv, Post
    <3>3. x \in Sample
      BY SampleTyped
    <3>4. x.under = hand /\ x.reading = r
      OBVIOUS
    <3> HIDE DEF x
    <3> QED BY <3>1, <3>2, <3>3, <3>4, RollFresh DEF Qualifies, TypeOK
  <2>4. /\ stable' = tail
        /\ cause' = (cause \/ ~r.idle \/ ~r.low \/ Moved(stable, r))
        /\ \E d \in 1 .. 2 * ReadTime :
             /\ now + d <= Deadline
             /\ IF Motionless(tail)
                THEN /\ now' = now + d
                     /\ pc' = "verdict"
                     /\ proved' = [proved EXCEPT !.tail = TRUE]
                ELSE /\ now' = Smaller(now + d + SleepTime, Deadline)
                     /\ pc' = "post_target"
                     /\ UNCHANGED proved
        /\ UNCHANGED failed
    BY <2>1 DEF PostSample
  <2> HIDE DEF tail
  <2>5. now' \in Nat
    BY <2>4, Times DEF TypeOK, Smaller
  <2>6. cause' \in BOOLEAN
    BY <2>4
  <2>7. pc = "post_feedback" /\ UNCHANGED <<state, preserve, hand, motion, pass, delayed, released>>
    BY <1>2 DEF PostFeedback
  <2>8. TypeOK'
    BY <2>2, <2>4, <2>5, <2>6, <2>7 DEF TypeOK, Phases
  <2>9. Fresh(stable)' /\ (pc' = "verdict" => Motionless(stable)')
    BY <2>3, <2>4 DEF Fresh, Motionless
  <2>10. ProofInv' /\ FaultInv'
    BY <2>4, <2>7, <2>9 DEF ProofInv, FaultInv, TypeOK, Early, Settling, Disabling, Post
  <2> QED BY <2>8, <2>10
<1>3. CASE /\ PostFeedback
           /\ Exchange(2 * ReadTime, Deadline) \/ ExchangeFails(2 * ReadTime, Deadline)
           /\ pc' = "verdict" /\ failed' = TRUE
           /\ cause' \in BOOLEAN
           /\ UNCHANGED <<stable, proved>>
  <2>1. now' \in Nat
    BY <1>3, Times, ExchangeTyped DEF TypeOK
  <2>2. TypeOK'
    BY <1>3, <2>1 DEF PostFeedback, TypeOK, Phases
  <2>3. ProofInv' /\ FaultInv'
    BY <1>3 DEF PostFeedback, ProofInv, FaultInv, TypeOK, Early, Settling, Disabling, Post
  <2> QED BY <2>2, <2>3
<1>4. ExchangeFails(2 * ReadTime, Deadline) => cause' \in BOOLEAN
  BY DEF ExchangeFails, TypeOK
<1>5. CASE Verdict
  <2>1. TypeOK'
    BY <1>5 DEF Verdict, TypeOK, Phases
  <2>2. ProofInv' /\ FaultInv'
    BY <1>5 DEF Verdict, ProofInv, FaultInv, ProofComplete, TypeOK, Early, Settling,
                Disabling, Post, Fresh, Motionless
  <2> QED BY <2>1, <2>2
<1> QED BY <1>1, <1>2, <1>3, <1>4, <1>5 DEF PostFeedback

LEMMA StepSafe == SafeInv /\ [Next]_vars => SafeInv'
<1> SUFFICES ASSUME SafeInv, [Next]_vars PROVE SafeInv' OBVIOUS
<1>1. CASE Next
  BY <1>1, BeginSafe, HoldSafe, SettleSafe, DisableSafe, PostSafe DEF Next
<1>2. CASE UNCHANGED vars
  BY <1>2 DEF vars, SafeInv, TypeOK, ProofInv, FaultInv, ProofComplete, Fresh, Motionless
<1> QED BY <1>1, <1>2

LEMMA Safe == Spec => []SafeInv
<1>1. Init => SafeInv
  BY InitSafe
<1>2. SafeInv /\ [Next]_vars => SafeInv'
  BY StepSafe
<1> QED BY <1>1, <1>2, PTL DEF Spec

\* _disable_and_verify: every variable of the stop stays in its type, whatever the
\* hand and the bus do.
THEOREM StopTypeCorrect == Spec => []TypeOK
<1>1. SafeInv => TypeOK
  BY DEF SafeInv
<1> QED BY <1>1, Safe, PTL

\* _disable_and_verify reports a stop only on a fresh, full and motionless tail of
\* the released hand, for every number of samples and whatever the times are.
THEOREM ConfirmedIsProven == Spec => []ConfirmedMeansProven
<1>1. SafeInv => ConfirmedMeansProven
  <2> SUFFICES ASSUME SafeInv, pc = "confirmed" PROVE ConfirmedMeansProven
    BY DEF ConfirmedMeansProven
  <2>1. /\ ~failed /\ proved.hold /\ proved.tail /\ proved.passes = 2
        /\ proved.still /\ hand = "released" /\ Len(stable) = Samples
    BY DEF SafeInv, ProofInv, ProofComplete, Early
  <2>2. Fresh(stable) /\ Motionless(stable)
    BY <2>1 DEF SafeInv, ProofInv
  <2>3. 1 \in DOMAIN stable
    BY <2>1, Times DEF SafeInv, TypeOK
  <2> QED BY <2>1, <2>2, <2>3 DEF ConfirmedMeansProven, Fresh, Motionless
<1> QED BY <1>1, Safe, PTL

\* fault_and_disable, enforce_policy_watchdog: a latched fault survives its own stop,
\* and a hand is disarmed by nothing but a confirmed stop.
THEOREM FaultSurvives == Spec => FaultSurvivesStop
<1>1. SafeInv /\ [Next]_vars => [state = "fault_latched" => state' = "fault_latched"]_vars
  <2> SUFFICES ASSUME SafeInv, Next, state = "fault_latched"
               PROVE  state' = "fault_latched"
    OBVIOUS
  <2>1. CASE Verdict
    BY <2>1 DEF Verdict, SafeInv, FaultInv
  <2>2. CASE ~Verdict
    BY <2>2 DEF Next, Delay, BeginNormalStop, BeginFaultStop, SeedFeedback, HoldWrite,
                HoldReadback, SettleTarget, SettleFeedback, DisableWrite,
                DisableReadback, PostTarget, PostFeedback
  <2> QED BY <2>1, <2>2
<1>2. SafeInv => (state = "disarmed" => pc = "confirmed")
  BY DEF SafeInv, FaultInv
<1> QED BY <1>1, <1>2, Safe, PTL DEF Spec, FaultSurvivesStop

(* the release is sent in time -------------------------------------------------- *)

\* An exchange takes its bound at most; one begun by its limit ends by it, and one
\* that fails within its bound has been lost on the bus.
LEMMA ExchangeTakes ==
  ASSUME now \in Nat, NEW bound \in Nat, NEW limit \in Nat
  PROVE  /\ Exchange(bound, limit) => now' <= now + bound /\ now' <= limit
         /\ ExchangeFails(bound, limit) =>
               now' <= now + bound /\ (now' <= limit \/ now' = now)
  BY DEF Exchange, ExchangeFails, Smaller

LEMMA SettleTakes ==
  ASSUME now \in Nat, NEW r, SettleSample(r)
  PROVE  /\ now' <= SettleDeadline
         /\ now' <= now + 2 * ReadTime + SleepTime
<1>1. PICK d \in 1 .. 2 * ReadTime :
         /\ now + d <= SettleDeadline
         /\ now' = now + d \/ now' = Smaller(now + d + SleepTime, SettleDeadline)
  BY DEF SettleSample
<1> QED BY <1>1, Times DEF Smaller

LEMMA LateTyped ==
  SafeInv => Late \in Nat /\ Late <= Margin
  BY Times DEF SafeInv, TypeOK, Late

LEMMA StepTime ==
  ASSUME ReleaseFits, SafeInv, TimeInv, [Next]_vars
  PROVE  TimeInv'
<1> USE DEF Early, Disabling
<1>0. /\ now \in Nat /\ pass \in 1 .. 2 /\ Late \in Nat /\ Late <= Margin /\ delayed \in BOOLEAN
      /\ WriteTime + ReadTime + Margin <= ReleaseReserve
      /\ SettleDeadline + WriteTime + ReadTime + Margin <= Deadline
  <2>1. WriteTime + ReadTime + Margin <= ReleaseReserve
    <3>1. /\ 3 * Samples * ReadTime \in Nat /\ (Samples - 1) * SleepTime \in Nat
          /\ StopTimeout \div 2 \in Nat
      BY Times
    <3>2. WriteTime + ReadTime + Margin <= FullReserve /\ FullReserve \in Nat
      BY <3>1, Times DEF FullReserve
    <3>3. ReleaseReserve = Smaller(StopTimeout \div 2, FullReserve)
      BY DEF ReleaseReserve, FullReserve
    <3> QED BY <3>1, <3>2, <3>3 DEF ReleaseFits, Smaller
  <2> QED BY <2>1, LateTyped, Times DEF SafeInv, TypeOK
<1>1. CASE Delay
  <2>1. Late' = Margin /\ Late = 0
    BY <1>1, <1>0 DEF Delay, Late
  <2>2. pc' = pc /\ pass' = pass /\ released' = released /\ now' = now + Margin
    BY <1>1 DEF Delay
  <2> QED BY <2>1, <2>2, <1>0, Times DEF TimeInv
<1>2. CASE BeginNormalStop \/ BeginFaultStop
  BY <1>2 DEF BeginNormalStop, BeginFaultStop, TimeInv, Late
<1>3. CASE SeedFeedback \/ HoldWrite \/ HoldReadback \/ SettleTarget \/ SettleFeedback
  <2>1. /\ pc \in Early /\ pc' \in Early \cup {"disable_write"}
        /\ UNCHANGED <<delayed, released, pass>>
    BY <1>3 DEF SeedFeedback, HoldWrite, HoldReadback, SettleTarget, SettleFeedback,
                SettleSample, HoldPhaseFails
  <2>2. now <= SettleDeadline + Late /\ released = 0 /\ pass = 1 /\ Late' = Late
    BY <2>1 DEF TimeInv, SafeInv, ProofInv, Late
  <2>3. now' <= SettleDeadline \/ now' = now
    <3>1. 2 * ReadTime \in Nat /\ ReadTime \in Nat /\ WriteTime \in Nat
      BY Times
    <3>2. CASE SeedFeedback
      BY <3>1, <3>2, <1>0, Times, ExchangeTakes DEF SeedFeedback
    <3>3. CASE HoldWrite \/ HoldReadback
      BY <3>1, <3>3, <1>0, Times, ExchangeTakes DEF HoldWrite, HoldReadback
    <3>4. CASE SettleTarget
      BY <3>1, <3>4, <1>0, Times, ExchangeTakes DEF SettleTarget
    <3>5. CASE SettleFeedback
      BY <3>1, <3>5, <1>0, Times, ExchangeTakes, SettleTakes DEF SettleFeedback
    <3> QED BY <1>3, <3>2, <3>3, <3>4, <3>5
  <2>4. now' <= SettleDeadline + Late'
    <3>1. now' \in Nat
      BY StepSafe DEF SafeInv, TypeOK
    <3> QED BY <2>2, <2>3, <3>1, <1>0, Times
  <2> QED BY <2>1, <2>2, <2>4, <1>0, Times DEF TimeInv
<1>4. CASE DisableWrite
  <2>1. /\ pc' = "disable_readback" /\ UNCHANGED <<pass, delayed>>
        /\ released' = IF now <= Deadline THEN released + 1 ELSE released
    BY <1>4 DEF DisableWrite
  <2>2. now' <= now + WriteTime /\ Late' = Late
    BY <1>4, <1>0, ExchangeTakes, Times DEF DisableWrite, Late
  <2>3. now <= Deadline /\ released = pass - 1
    BY <1>4, <1>0, Times DEF DisableWrite, TimeInv
  <2>4. now' <= SettleDeadline + (pass - 1) * (WriteTime + ReadTime) + WriteTime + Late
    BY <1>4, <2>2, <1>0, Times, ExchangeTyped DEF DisableWrite, TimeInv
  <2> QED BY <2>1, <2>2, <2>3, <2>4, <1>0 DEF TimeInv
<1>5. CASE DisableReadback
  <2>1. /\ \/ pass = 1 /\ pass' = 2 /\ pc' = "disable_write"
           \/ pass = 2 /\ pc' \in {"post_target", "verdict"}
        /\ UNCHANGED <<released, delayed>>
    BY <1>5, <1>0 DEF DisableReadback, AfterPass
  <2>2. now' <= now + ReadTime /\ now' \in Nat /\ Late' = Late
    BY <1>5, <1>0, ExchangeTakes, ExchangeTyped, Times DEF DisableReadback, Late
  <2>3. /\ released = pass
        /\ now <= SettleDeadline + (pass - 1) * (WriteTime + ReadTime) + WriteTime + Late
    BY <1>5 DEF DisableReadback, TimeInv
  <2> QED BY <2>1, <2>2, <2>3, <1>0, Times DEF TimeInv
<1>6. CASE PostTarget \/ PostFeedback \/ Verdict
  BY <1>6 DEF PostTarget, PostFeedback, PostSample, Verdict, TimeInv
<1>7. CASE UNCHANGED vars
  BY <1>7 DEF vars, TimeInv, Late
<1> QED BY <1>1, <1>2, <1>3, <1>4, <1>5, <1>6, <1>7 DEF Next

\* _disable_and_verify attempts ``both disable passes ... in the remaining deadline'':
\* both release frames reach the bus before the stop ends, whatever the hold phase
\* met, when half of the budget holds one pass and the scheduling delay.
THEOREM ReleaseIsSent ==
  ASSUME ReleaseFits
  PROVE  Spec => []ReleaseAlwaysSent
<1>1. Init => TimeInv
  BY Times DEF Init, TimeInv, Late, Early, Disabling
<1>2. SafeInv /\ TimeInv /\ [Next]_vars => TimeInv'
  BY StepTime
<1>3. TimeInv => ReleaseAlwaysSent
  BY DEF TimeInv, ReleaseAlwaysSent, Ended, Early, Disabling
<1> QED BY <1>1, <1>2, <1>3, Safe, PTL DEF Spec

(* only a cause leaves a stop unconfirmed ---------------------------------------- *)

\* An exchange that fails though its bound fits was lost on the bus.
LEMMA FailureHasCause ==
  ASSUME now \in Nat, cause \in BOOLEAN, NEW bound \in Nat, NEW limit \in Nat,
         ExchangeFails(bound, limit)
  PROVE  /\ cause => cause' = TRUE
         /\ now + bound <= limit => cause' = TRUE
<1> DEFINE fits == now + bound <= limit
<1>1. now > limit => ~fits
  OBVIOUS
<1>2. \/ now > limit /\ cause' = cause
      \/ cause' = (cause \/ fits)
  BY DEF ExchangeFails
<1> HIDE DEF fits
<1>3. (cause => cause' = TRUE) /\ (fits => cause' = TRUE)
  BY <1>1, <1>2, Zenon
<1> QED BY <1>3 DEF fits

\* What the steps below need of the state they start from.
Clean == TimeSuffices /\ SafeInv /\ TimeInv /\ CleanInv

LEMMA CleanFacts ==
  ASSUME Clean
  PROVE  /\ now \in Nat /\ Late \in Nat /\ Late <= Margin
         /\ pass \in 1 .. 2 /\ delayed \in BOOLEAN /\ cause \in BOOLEAN
         /\ motion \in Seq(Sample) /\ Len(motion) <= Samples /\ Len(motion) \in Nat
         /\ stable \in Seq(Sample) /\ Len(stable) <= Samples /\ Len(stable) \in Nat
         /\ Rounds(Samples - 1) \in Nat /\ Rounds(Len(motion)) \in Nat /\ Rounds(Len(stable)) \in Nat
         /\ Len(motion) < Samples => Rounds(Len(motion)) <= Rounds(Samples - 1)
         /\ Len(stable) < Samples => Rounds(Len(stable)) <= Rounds(Samples - 1)
<1>1. /\ motion \in Seq(Sample) /\ Len(motion) <= Samples /\ Len(motion) \in Nat
      /\ stable \in Seq(Sample) /\ Len(stable) <= Samples /\ Len(stable) \in Nat
  BY DEF Clean, SafeInv, TypeOK
<1>2. Samples - 1 \in Nat
  BY Times
<1>3. /\ Late \in Nat /\ Late <= Margin
      /\ now \in Nat /\ pass \in 1 .. 2 /\ delayed \in BOOLEAN /\ cause \in BOOLEAN
  BY LateTyped DEF Clean, SafeInv, TypeOK
<1> QED BY <1>1, <1>2, <1>3, RoundsStep

\* Up to the first sample there is time for every exchange.
LEMMA CleanHold ==
  ASSUME Clean, cause' = FALSE, SeedFeedback \/ HoldWrite \/ HoldReadback
  PROVE  OnTime'
<1> USE DEF Settling, Disabling, Post
<1>1. /\ now \in Nat /\ cause \in BOOLEAN /\ Late \in Nat /\ Late <= Margin
      /\ ReadTime \in Nat /\ WriteTime \in Nat /\ SettleDeadline \in Nat /\ Margin \in Nat
      /\ 2 * ReadTime \in Nat
  BY CleanFacts, Times
<1>2. ~cause
  BY <1>1, FailureHasCause DEF SeedFeedback, HoldWrite, HoldReadback
<1>a. ASSUME NEW b \in Nat, now + b <= SettleDeadline
      PROVE  ~ExchangeFails(b, SettleDeadline)
  <2>1. ExchangeFails(b, SettleDeadline) => cause' = TRUE
    BY <1>a, <1>1, FailureHasCause
  <2> QED BY <2>1
<1>3. OnTime /\ motion = <<>> /\ Late' = Late
  BY <1>2 DEF Clean, CleanInv, SeedFeedback, HoldWrite, HoldReadback, Late
<1>4. 5 * ReadTime + WriteTime + Margin <= SettleDeadline
  BY <1>1, CleanFacts, ReserveFits DEF Clean
<1>5. CASE SeedFeedback
  <2>1. now <= Late
    BY <1>3, <1>5 DEF OnTime, SeedFeedback
  <2>2. ~ExchangeFails(2 * ReadTime, SettleDeadline)
    BY <1>1, <1>4, <1>a, <2>1
  <2>3. PICK r \in Readings :
           /\ Exchange(2 * ReadTime, SettleDeadline)
           /\ cause' = (cause \/ ~r.sound)
           /\ r.sound => pc' = "hold_write"
    BY <1>5, <2>2 DEF SeedFeedback
  <2>4. r.sound
    <3>1. cause' = FALSE /\ cause' = (cause \/ ~r.sound)
      BY <2>3
    <3> QED BY <3>1, Zenon
  <2>5. pc' = "hold_write"
    BY <2>3, <2>4
  <2>6. now' \in Nat /\ now' <= now + 2 * ReadTime
    BY <1>1, <2>3, ExchangeTakes, ExchangeTyped, Times
  <2>7. now' <= 2 * ReadTime + Late
    BY <1>1, <2>1, <2>6
  <2> QED BY <1>3, <2>5, <2>7 DEF OnTime
<1>6. CASE HoldWrite
  <2>1. now <= 2 * ReadTime + Late /\ pc' = "hold_readback"
    BY <1>3, <1>6 DEF OnTime, HoldWrite
  <2>2. ~ExchangeFails(WriteTime, SettleDeadline)
    BY <1>1, <1>4, <1>a, <2>1
  <2>3. Exchange(WriteTime, SettleDeadline) /\ hand' = "hold"
    BY <1>6, <2>2 DEF HoldWrite
  <2>4. now' <= 2 * ReadTime + WriteTime + Late
    BY <1>1, <2>1, <2>3 DEF Exchange
  <2> QED BY <1>3, <2>1, <2>3, <2>4 DEF OnTime
<1>7. CASE HoldReadback
  <2>1. now <= 2 * ReadTime + WriteTime + Late /\ hand = "hold"
    BY <1>3, <1>7 DEF OnTime, HoldReadback
  <2>2. ~ExchangeFails(ReadTime, SettleDeadline)
    BY <1>1, <1>4, <1>a, <2>1
  <2>3. Exchange(ReadTime, SettleDeadline) /\ pc' = "settle_target" /\ motion' = <<>>
    BY <1>3, <1>7, <2>1, <2>2 DEF HoldReadback
  <2>4. now' <= 3 * ReadTime + WriteTime + Late
    BY <1>1, <2>1, <2>3 DEF Exchange
  <2>5. Len(motion') = 0 /\ Steady(motion')
    BY <2>3 DEF Steady
  <2>6. now' \in Nat
    BY <1>1, <2>3 DEF Exchange
  <2>7. now' <= 3 * ReadTime + WriteTime + Rounds(Len(motion')) + Late' + 0
    BY <1>1, <1>3, <2>4, <2>5, <2>6, RoundsStep
  <2> QED BY <2>3, <2>5, <2>7, Times DEF OnTime
<1> QED BY <1>5, <1>6, <1>7

\* The settle loop: a hand that keeps still is sampled within its time.
LEMMA CleanSettleTarget ==
  ASSUME Clean, cause' = FALSE, SettleTarget
  PROVE  OnTime'
<1> USE DEF Settling, Disabling, Post
<1>1. /\ now \in Nat /\ cause \in BOOLEAN /\ Late \in Nat /\ Late <= Margin
      /\ ReadTime \in Nat /\ ReadTime > 0 /\ WriteTime \in Nat /\ SettleDeadline \in Nat
      /\ Margin \in Nat /\ Rounds(Len(motion)) \in Nat /\ Rounds(Samples - 1) \in Nat
  BY CleanFacts, Times
<1>2. ~cause
  BY <1>1, FailureHasCause DEF SettleTarget
<1>3. /\ Len(motion) < Samples /\ Steady(motion)
      /\ now <= 3 * ReadTime + WriteTime + Rounds(Len(motion)) + Late
  BY <1>1, <1>2 DEF Clean, CleanInv, OnTime, SettleTarget
<1>4. now + 3 * ReadTime <= SettleDeadline
  <2>1. Rounds(Len(motion)) <= Rounds(Samples - 1)
    BY <1>3, CleanFacts
  <2>2. 6 * ReadTime + WriteTime + Rounds(Samples - 1) + Margin <= SettleDeadline
    BY ReserveFits DEF Clean
  <2> QED BY <1>1, <1>3, <2>1, <2>2
<1>5. ~ExchangeFails(ReadTime, SettleDeadline)
  <2>1. now + ReadTime <= SettleDeadline
    BY <1>1, <1>4
  <2>2. ExchangeFails(ReadTime, SettleDeadline) => cause' = TRUE
    BY <1>1, <2>1, FailureHasCause
  <2> QED BY <2>2
<1>6. /\ Exchange(ReadTime, SettleDeadline) /\ pc' = "settle_feedback"
      /\ motion' = motion /\ Late' = Late
  BY <1>1, <1>4, <1>5 DEF SettleTarget, Late
<1>7. now' \in Nat /\ now' <= now + ReadTime
  BY <1>1, <1>6, ExchangeTakes, ExchangeTyped
<1>8. now' <= 3 * ReadTime + WriteTime + Rounds(Len(motion')) + Late' + ReadTime
  BY <1>1, <1>3, <1>6, <1>7
<1>9. Len(motion') < Samples /\ Steady(motion')
  BY <1>3, <1>6
<1> QED BY <1>6, <1>8, <1>9 DEF OnTime

LEMMA CleanSettleFeedback ==
  ASSUME Clean, cause' = FALSE, SettleFeedback
  PROVE  OnTime'
<1> USE DEF Settling, Disabling, Post
<1>1. /\ now \in Nat /\ cause \in BOOLEAN /\ Late \in Nat /\ Late <= Margin
      /\ ReadTime \in Nat /\ ReadTime > 0 /\ WriteTime \in Nat /\ SettleDeadline \in Nat
      /\ SleepTime \in Nat /\ 2 * ReadTime \in Nat
      /\ Margin \in Nat /\ Rounds(Len(motion)) \in Nat /\ Rounds(Samples - 1) \in Nat
  BY CleanFacts, Times
<1>2. ~failed /\ pass = 1 /\ proved.passes = 0 /\ Late' = Late
  BY DEF Clean, SafeInv, ProofInv, SettleFeedback, Early, Late
<1>3. ~cause => /\ Len(motion) < Samples /\ Steady(motion)
                /\ now <= 4 * ReadTime + WriteTime + Rounds(Len(motion)) + Late
  BY <1>1 DEF Clean, CleanInv, OnTime, SettleFeedback
<1>4. ~cause => now + 2 * ReadTime <= SettleDeadline
  <2>1. ~cause => Rounds(Len(motion)) <= Rounds(Samples - 1)
    BY <1>3, CleanFacts
  <2>2. 6 * ReadTime + WriteTime + Rounds(Samples - 1) + Margin <= SettleDeadline
    BY ReserveFits DEF Clean
  <2> QED BY <1>1, <1>3, <2>1, <2>2
<1>5. ~ExchangeFails(2 * ReadTime, SettleDeadline)
  <2>1. ExchangeFails(2 * ReadTime, SettleDeadline) => cause' = TRUE
    BY <1>1, <1>4, FailureHasCause
  <2> QED BY <2>1
<1>6. PICK r \in Readings : SettleSample(r)
  <2>1. cause' # TRUE
    OBVIOUS
  <2> QED BY <1>5, <2>1 DEF SettleFeedback
<1> DEFINE x == [reading |-> r, under |-> hand]
           mv == Roll(motion, x)
<1>7. /\ motion' = mv
      /\ cause' = (~Motionless(mv) /\ (cause \/ Moved(motion, r)))
      /\ \/ /\ Motionless(mv)
            /\ pc' = "disable_write"
            /\ proved' = [proved EXCEPT !.still = TRUE]
         \/ /\ ~Motionless(mv)
            /\ pc' = "settle_target"
      /\ failed' = failed
  BY <1>6 DEF SettleSample
<1>8. x \in Sample /\ x.reading = r /\ motion \in Seq(Sample) /\ Len(motion) <= Samples
  BY SampleTyped DEF Clean, SafeInv, TypeOK
<1> HIDE DEF x, mv
<1>9. CASE Motionless(mv)
  <2>1. proved'.passes = 0 /\ pass' = 1 /\ ~failed' /\ pc' = "disable_write"
    BY <1>2, <1>7, <1>9 DEF SettleFeedback, Clean, SafeInv, TypeOK
  <2> QED BY <2>1 DEF OnTime
<1>10. CASE ~Motionless(mv)
  <2>1. ~cause /\ ~Moved(motion, r)
    <3>1. /\ cause' = FALSE /\ ~Motionless(mv)
          /\ cause' = (~Motionless(mv) /\ (cause \/ Moved(motion, r)))
      BY <1>7, <1>10
    <3> QED BY <3>1, Zenon
  <2>2. Steady(mv) /\ Len(mv) = Len(motion) + 1 /\ mv \in Seq(Sample) /\ Len(mv) <= Samples
    BY <1>3, <1>8, <2>1, RollSteady, RollTyped DEF mv
  <2>3. Len(mv) < Samples
    BY <1>8, <1>10, <2>2, SteadyFull, Times
  <2>4. Rounds(Len(mv)) = Rounds(Len(motion)) + 3 * ReadTime + SleepTime
    BY <1>8, <2>2, RoundsStep
  <2>5. now' <= now + 2 * ReadTime + SleepTime /\ now' \in Nat
    <3>1. SafeInv'
      BY SettleSafe DEF Clean
    <3> QED BY <1>1, <1>6, <3>1, SettleTakes DEF SafeInv, TypeOK
  <2>6. now' <= 3 * ReadTime + WriteTime + Rounds(Len(motion')) + Late' + 0
    <3>1. now <= 4 * ReadTime + WriteTime + Rounds(Len(motion)) + Late
      BY <1>3, <2>1
    <3>2. now' <= 3 * ReadTime + WriteTime + Rounds(Len(mv)) + Late + 0
      BY <1>1, <2>4, <2>5, <3>1
    <3> QED BY <1>2, <1>7, <3>2
  <2>7. pc' = "settle_target" /\ Len(motion') < Samples /\ Steady(motion')
    BY <1>7, <1>10, <2>2, <2>3
  <2> QED BY <2>6, <2>7 DEF OnTime
<1> QED BY <1>9, <1>10

\* The release: two passes with time to spare, then a fresh tail.
LEMMA CleanDisable ==
  ASSUME Clean, cause' = FALSE, DisableWrite \/ DisableReadback
  PROVE  OnTime'
<1> USE DEF Settling, Disabling, Post
<1>1. /\ now \in Nat /\ cause \in BOOLEAN /\ Late \in Nat /\ Late <= Margin
      /\ ReadTime \in Nat /\ ReadTime > 0 /\ WriteTime \in Nat /\ SettleDeadline \in Nat
      /\ Margin \in Nat /\ Deadline \in Nat /\ Rounds(Samples - 1) \in Nat
      /\ pass \in 1 .. 2
  BY CleanFacts, Times
<1>2. ~cause
  BY <1>1, FailureHasCause DEF DisableWrite, DisableReadback
<1>3. ~failed /\ proved.passes = pass - 1 /\ Late' = Late
  BY <1>2 DEF Clean, CleanInv, OnTime, DisableWrite, DisableReadback, Late
<1>4. SettleDeadline + 2 * (WriteTime + ReadTime) + Margin + 3 * ReadTime <= Deadline
  BY <1>1, ReserveFits DEF Clean
<1>a. ASSUME NEW b \in Nat, now + b <= Deadline
      PROVE  ~ExchangeFails(b, Deadline)
  <2>1. ExchangeFails(b, Deadline) => cause' = TRUE
    BY <1>a, <1>1, FailureHasCause
  <2> QED BY <2>1
<1>5. CASE DisableWrite
  <2>1. now <= SettleDeadline + WriteTime + ReadTime + Margin
    BY <1>1, <1>5 DEF Clean, TimeInv, DisableWrite
  <2>2. now + WriteTime <= Deadline
    BY <1>1, <1>4, <2>1
  <2>3. ~ExchangeFails(WriteTime, Deadline)
    BY <1>1, <1>a, <2>2
  <2>4. hand' = "released" /\ pc' = "disable_readback" /\ UNCHANGED <<pass, proved, failed>>
    BY <1>5, <2>3 DEF DisableWrite
  <2> QED BY <1>3, <2>4 DEF OnTime
<1>6. CASE DisableReadback
  <2>1. now <= SettleDeadline + (pass - 1) * (WriteTime + ReadTime) + WriteTime + Late
    BY <1>6 DEF Clean, TimeInv, DisableReadback
  <2>2. /\ pass = 1 => now <= SettleDeadline + WriteTime + Late
        /\ pass = 2 => now <= SettleDeadline + 2 * WriteTime + ReadTime + Late
    BY <1>1, <2>1
  <2>3. now + ReadTime <= Deadline
    BY <1>1, <1>4, <2>2
  <2>4. ~ExchangeFails(ReadTime, Deadline)
    BY <1>1, <1>a, <2>3
  <2>5. hand = "released"
    BY <1>2, <1>6 DEF Clean, CleanInv, OnTime, DisableReadback
  <2>6. /\ Exchange(ReadTime, Deadline)
        /\ proved' = [proved EXCEPT !.passes = @ + 1]
        /\ AfterPass(proved.passes + 1)
        /\ failed' = failed
    BY <1>6, <2>4, <2>5 DEF DisableReadback
  <2>7. proved'.passes = proved.passes + 1
    BY <2>6 DEF Clean, SafeInv, TypeOK
  <2>8. now' \in Nat /\ now' <= now + ReadTime
    BY <1>1, <2>6, ExchangeTakes, ExchangeTyped
  <2>9. CASE pass = 1
    <3>1. pass' = 2 /\ pc' = "disable_write"
      BY <2>6, <2>9 DEF AfterPass
    <3> QED BY <1>3, <2>6, <2>7, <2>9, <3>1 DEF OnTime
  <2>10. CASE pass = 2
    <3>1. pc' = "post_target" /\ stable' = <<>>
      BY <1>3, <2>6, <2>10 DEF AfterPass
    <3>2. now' <= SettleDeadline + 2 * (WriteTime + ReadTime) + 0 + Late
      BY <1>1, <2>2, <2>8, <2>10
    <3>3. Len(stable') = 0 /\ Steady(stable') /\ Rounds(Len(stable')) = 0
      BY <3>1, RoundsStep DEF Steady
    <3>4. now' <= SettleDeadline + 2 * (WriteTime + ReadTime) + Rounds(Len(stable')) + Late' + 0
      BY <1>1, <1>3, <2>8, <3>2, <3>3
    <3> QED BY <1>3, <2>6, <3>1, <3>3, <3>4, Times DEF OnTime
  <2> QED BY <1>1, <2>9, <2>10
<1> QED BY <1>5, <1>6

LEMMA CleanPostTarget ==
  ASSUME Clean, cause' = FALSE, PostTarget
  PROVE  OnTime'
<1> USE DEF Settling, Disabling, Post
<1>1. /\ now \in Nat /\ cause \in BOOLEAN /\ Late \in Nat /\ Late <= Margin
      /\ ReadTime \in Nat /\ ReadTime > 0 /\ WriteTime \in Nat /\ SettleDeadline \in Nat
      /\ Margin \in Nat /\ Deadline \in Nat
      /\ Rounds(Len(stable)) \in Nat /\ Rounds(Samples - 1) \in Nat
  BY CleanFacts, Times
<1>2. ~cause
  BY <1>1, FailureHasCause DEF PostTarget
<1>3. /\ Len(stable) < Samples /\ Steady(stable) /\ ~failed
      /\ now <= SettleDeadline + 2 * (WriteTime + ReadTime) + Rounds(Len(stable)) + Late
  BY <1>1, <1>2 DEF Clean, CleanInv, OnTime, PostTarget
<1>4. now + 3 * ReadTime <= Deadline
  <2>1. Rounds(Len(stable)) <= Rounds(Samples - 1)
    BY <1>3, CleanFacts
  <2>2. Deadline = SettleDeadline + 2 * (WriteTime + ReadTime)
                     + Rounds(Samples - 1) + 3 * ReadTime + Margin
    BY ReserveFits DEF Clean
  <2> QED BY <1>1, <1>3, <2>1, <2>2
<1>5. ~ExchangeFails(ReadTime, Deadline)
  <2>1. now + ReadTime <= Deadline
    BY <1>1, <1>4
  <2>2. ExchangeFails(ReadTime, Deadline) => cause' = TRUE
    BY <1>1, <2>1, FailureHasCause
  <2> QED BY <2>2
<1>6. now < Deadline
  BY <1>1, <1>4
<1>7. /\ Exchange(ReadTime, Deadline) /\ pc' = "post_feedback"
      /\ stable' = stable /\ Late' = Late /\ failed' = failed
  BY <1>1, <1>5, <1>6 DEF PostTarget, Late
<1>8. now' \in Nat /\ now' <= now + ReadTime
  BY <1>1, <1>7, ExchangeTakes, ExchangeTyped
<1>9. now' <= SettleDeadline + 2 * (WriteTime + ReadTime) + Rounds(Len(stable')) + Late'
               + ReadTime
  BY <1>1, <1>3, <1>7, <1>8
<1>10. Len(stable') < Samples /\ Steady(stable')
  BY <1>3, <1>7
<1> QED BY <1>3, <1>7, <1>9, <1>10 DEF OnTime

LEMMA CleanPostFeedback ==
  ASSUME Clean, cause' = FALSE, PostFeedback
  PROVE  OnTime'
<1> USE DEF Settling, Disabling, Post
<1>1. /\ now \in Nat /\ cause \in BOOLEAN /\ Late \in Nat /\ Late <= Margin
      /\ ReadTime \in Nat /\ ReadTime > 0 /\ WriteTime \in Nat /\ SettleDeadline \in Nat
      /\ SleepTime \in Nat /\ 2 * ReadTime \in Nat
      /\ Margin \in Nat /\ Deadline \in Nat
      /\ Rounds(Len(stable)) \in Nat /\ Rounds(Samples - 1) \in Nat
  BY CleanFacts, Times
<1>2. ~cause => /\ Len(stable) < Samples /\ Steady(stable) /\ ~failed
                /\ now <= SettleDeadline + 2 * (WriteTime + ReadTime)
                            + Rounds(Len(stable)) + Late + ReadTime
  BY <1>1 DEF Clean, CleanInv, OnTime, PostFeedback
<1>3. ~cause => now + 2 * ReadTime <= Deadline
  <2>1. ~cause => Rounds(Len(stable)) <= Rounds(Samples - 1)
    BY <1>2, CleanFacts
  <2>2. Deadline = SettleDeadline + 2 * (WriteTime + ReadTime)
                     + Rounds(Samples - 1) + 3 * ReadTime + Margin
    BY ReserveFits DEF Clean
  <2> QED BY <1>1, <1>2, <2>1, <2>2
<1>4. ~ExchangeFails(2 * ReadTime, Deadline)
  <2>1. ExchangeFails(2 * ReadTime, Deadline) => cause' = TRUE
    BY <1>1, <1>3, FailureHasCause
  <2> QED BY <2>1
<1>5. PICK r \in Readings : PostSample(r)
  <2>1. cause' # TRUE
    OBVIOUS
  <2> QED BY <1>4, <2>1 DEF PostFeedback
<1> DEFINE x == [reading |-> r, under |-> hand]
           full == Roll(stable, x)
<1>6. x \in Sample /\ x.reading = r /\ stable \in Seq(Sample) /\ Len(stable) <= Samples
  BY SampleTyped DEF Clean, SafeInv, TypeOK
<1>7. ~cause /\ Qualifies(r) /\ ~Moved(stable, r)
  <2>1. cause' = FALSE /\ cause' = (cause \/ ~r.idle \/ ~r.low \/ Moved(stable, r))
    BY <1>5 DEF PostSample
  <2>2. ~cause /\ r.idle /\ r.low /\ ~Moved(stable, r)
    BY <2>1, Zenon
  <2> QED BY <2>2 DEF Qualifies
<1>8. /\ stable' = full
      /\ failed' = failed
      /\ \E d \in 1 .. 2 * ReadTime :
           \/ /\ Motionless(full)
              /\ pc' = "verdict"
              /\ proved' = [proved EXCEPT !.tail = TRUE]
           \/ /\ ~Motionless(full)
              /\ now' = Smaller(now + d + SleepTime, Deadline)
              /\ pc' = "post_target"
  BY <1>5, <1>7 DEF PostSample
<1> HIDE DEF x
<1>9. Steady(full) /\ Len(full) = Len(stable) + 1 /\ full \in Seq(Sample) /\ Len(full) <= Samples
  BY <1>2, <1>6, <1>7, RollSteady, RollTyped
<1> HIDE DEF full
<1>10. CASE Motionless(full)
  <2>1. /\ proved.hold /\ proved.passes = 2 /\ ~failed
        /\ proved \in [hold : BOOLEAN, still : BOOLEAN, passes : 0 .. 2, tail : BOOLEAN]
    BY <1>2, <1>7 DEF Clean, SafeInv, ProofInv, TypeOK, PostFeedback, Early
  <2>2. /\ proved' = [proved EXCEPT !.tail = TRUE] /\ pc' = "verdict"
        /\ Len(stable') = Samples /\ ~failed'
    BY <1>8, <1>10, <2>1 DEF Motionless
  <2>3. ProofComplete'
    BY <2>1, <2>2 DEF ProofComplete
  <2> QED BY <2>2, <2>3 DEF OnTime
<1>11. CASE ~Motionless(full)
  <2>1. Len(full) < Samples
    BY <1>6, <1>9, <1>11, SteadyFull, Times
  <2>2. Rounds(Len(full)) = Rounds(Len(stable)) + 3 * ReadTime + SleepTime
    BY <1>6, <1>9, RoundsStep
  <2>3. pc' = "post_target"
    BY <1>8, <1>11
  <2>4. now' <= now + 2 * ReadTime + SleepTime /\ now' \in Nat
    <3>1. PICK d \in 1 .. 2 * ReadTime : now' = Smaller(now + d + SleepTime, Deadline)
      BY <1>8, <1>11
    <3> QED BY <1>1, <3>1 DEF Smaller
  <2>5. now <= SettleDeadline + 2 * (WriteTime + ReadTime)
                 + Rounds(Len(stable)) + Late + ReadTime
    BY <1>2, <1>7
  <2>6. now' <= SettleDeadline + 2 * (WriteTime + ReadTime) + Rounds(Len(full)) + Late + 0
    BY <1>1, <2>2, <2>4, <2>5
  <2>7. Late' = Late /\ ~failed' /\ Len(stable') < Samples /\ Steady(stable')
    BY <1>2, <1>7, <1>8, <1>9, <2>1 DEF PostFeedback, Late
  <2>8. now' <= SettleDeadline + 2 * (WriteTime + ReadTime) + Rounds(Len(stable')) + Late' + 0
    BY <1>8, <2>6, <2>7
  <2> QED BY <2>3, <2>7, <2>8 DEF OnTime
<1> QED BY <1>10, <1>11

LEMMA CleanOther ==
  ASSUME Clean, cause' = FALSE, Delay \/ BeginNormalStop \/ BeginFaultStop \/ Verdict
  PROVE  OnTime'
<1> USE DEF Settling, Disabling, Post
<1>1. /\ now \in Nat /\ Late \in Nat /\ delayed \in BOOLEAN /\ Margin \in Nat
      /\ ReadTime \in Nat /\ WriteTime \in Nat /\ SettleDeadline \in Nat
      /\ Rounds(Len(motion)) \in Nat /\ Rounds(Len(stable)) \in Nat
  BY CleanFacts, Times
<1>2. OnTime
  BY DEF Clean, CleanInv, Delay, BeginNormalStop, BeginFaultStop, Verdict
<1>3. CASE Delay
  <2>1. /\ Late = 0 /\ Late' = Margin /\ now' = now + Margin
        /\ UNCHANGED <<pc, hand, stable, motion, pass, proved, failed>>
        /\ pc \notin {"armed", "confirmed", "unconfirmed"}
    BY <1>3 DEF Delay, Late
  <2>2. ProofComplete' = ProofComplete
    BY <2>1 DEF ProofComplete
  <2>3. Steady(motion') = Steady(motion) /\ Steady(stable') = Steady(stable)
    BY <2>1
  <2>4. CASE pc \in Settling
    <3>1. now' <= 3 * ReadTime + WriteTime + Rounds(Len(motion')) + Late'
                    + (IF pc' = "settle_feedback" THEN ReadTime ELSE 0)
      BY <1>1, <1>2, <2>1, <2>4 DEF OnTime
    <3> QED BY <1>2, <2>1, <2>3, <2>4, <3>1 DEF OnTime
  <2>5. CASE pc \in Post
    <3>1. now' <= SettleDeadline + 2 * (WriteTime + ReadTime)
                    + Rounds(Len(stable')) + Late'
                    + (IF pc' = "post_feedback" THEN ReadTime ELSE 0)
      BY <1>1, <1>2, <2>1, <2>5 DEF OnTime
    <3> QED BY <1>2, <2>1, <2>3, <2>5, <3>1 DEF OnTime
  <2>6. CASE pc \notin Settling \cup Post
    BY <1>1, <1>2, <2>1, <2>2, <2>6 DEF OnTime
  <2> QED BY <2>4, <2>5, <2>6
<1>4. CASE BeginNormalStop \/ BeginFaultStop
  BY <1>1, <1>2, <1>4 DEF BeginNormalStop, BeginFaultStop, OnTime, Late
<1>5. CASE Verdict
  BY <1>2, <1>5 DEF Verdict, OnTime
<1> QED BY <1>3, <1>4, <1>5

LEMMA StepClean ==
  ASSUME TimeSuffices, SafeInv, TimeInv, CleanInv, [Next]_vars
  PROVE  CleanInv'
<1>1. CASE Next
  <2>1. cause' \in BOOLEAN
    BY StepSafe DEF SafeInv, TypeOK
  <2>2. ~cause' => OnTime'
    <3> SUFFICES ASSUME ~cause' PROVE OnTime' OBVIOUS
    <3>1. Clean /\ cause' = FALSE
      BY <2>1 DEF Clean
    <3> QED BY <1>1, <3>1, CleanHold, CleanSettleTarget, CleanSettleFeedback, CleanDisable,
               CleanPostTarget, CleanPostFeedback, CleanOther DEF Next
  <2>3. pc' \in {"armed", "seed", "hold_write", "hold_readback"} => motion' = <<>>
    BY <1>1 DEF CleanInv, Next, Delay, BeginNormalStop, BeginFaultStop, SeedFeedback,
       HoldWrite, HoldReadback, SettleTarget, SettleFeedback, SettleSample, HoldPhaseFails,
       DisableWrite, DisableReadback, AfterPass, PostTarget, PostFeedback, PostSample, Verdict
  <2> QED BY <2>2, <2>3 DEF CleanInv
<1>2. CASE UNCHANGED vars
  BY <1>2 DEF vars, CleanInv, OnTime, Late, ProofComplete, Settling, Disabling, Post, Steady
<1> QED BY <1>1, <1>2

\* release_reserve_s: with the whole reserve and time for one motionless hold, a stop
\* stays unconfirmed only because the bus lost an exchange or the hand did not rest,
\* whenever the one scheduling delay comes.
THEOREM UnconfirmedOnlyByCause ==
  ASSUME TimeSuffices
  PROVE  Spec => []UnconfirmedHasCause
<1>1. ReleaseFits
  BY ReserveFits
<1>2. Init => TimeInv /\ CleanInv
  BY Times DEF Init, TimeInv, CleanInv, OnTime, Late, Early, Settling, Disabling, Post
<1>3. SafeInv /\ TimeInv /\ CleanInv /\ [Next]_vars => TimeInv' /\ CleanInv'
  BY <1>1, StepTime, StepClean
<1>4. CleanInv => UnconfirmedHasCause
  BY DEF CleanInv, OnTime, UnconfirmedHasCause
<1> QED BY <1>2, <1>3, <1>4, Safe, PTL DEF Spec
=============================================================================
