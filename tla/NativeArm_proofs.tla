-------------------------- MODULE NativeArm_proofs --------------------------
(* The native pair, for any number of targets, any capacity and any times: a stop
   that the parent takes as proven is one, a claimed STOP is heard, no write
   follows a supervisor's silence, and the two processes together keep the promise
   of ArmOwner, whichever of them dies and whatever their threads interleave.

   The invariant has a part for each process and for what is on its way between
   them.  A step of the servo is related to it by ServoSide, one of the session
   or of another thread that moves no counter by QuietSession.                 *)
EXTENDS NativeArm, LedgerOps_proofs, SequenceTheorems, WellFoundedInduction

(* the inductive invariant ---------------------------------------------------- *)

Loop == {"read", "drain", "write"}
Unstarted == {"unborn", "hello", "await", "open", "start"}
Over == {"exit", "gone"}

\* The last target the barrier knows of, and the last one it has the arm's
\* acknowledgement of; the first is at most one ahead.
Published == IF HasPending(ledger) THEN ledger.pending.seq ELSE ledger.committed

Acked == IF "franka" \in ledger.acked THEN ledger.pending.seq ELSE ledger.committed

\* What has been sent and not been used up.
Orders == {toServo[i] : i \in DOMAIN toServo}
InSession == {toSession[i] : i \in DOMAIN toSession}
Replies == InSession \cup {sess.proof}

LaunchInv ==
    sess.pc = "launch" =>
        /\ toSession = <<>> /\ sess.proof = NoProof /\ ~sess.stopSent
        /\ servo.pc = "unborn" /\ ~proc.servo

LedgerInv ==
    /\ Linked(ledger)
    /\ "rh56" \notin ledger.acked
    /\ ledger.pending.produced <= 0

\* The loop writes what it has taken, one target at a time, and has acknowledged
\* what it wrote; only its faults leave a write unacknowledged.
ServoInv ==
    /\ servo.active => servo.pc \in Loop \cup {"release"}
    /\ servo.pc \in Unstarted => servo = [ServoStart EXCEPT !.pc = servo.pc]
    /\ servo.pc \in Loop =>
          /\ servo.waiting => servo.ready
          /\ servo.target = servo.wrote + (IF servo.waiting THEN 1 ELSE 0)
          /\ servo.target <= Published
          /\ servo.acks = servo.wrote
          /\ ~servo.fault
    /\ servo.pc = "write" => ~servo.expired
    /\ servo.pc \in {"release", "verify"} /\ ~servo.fault =>
          servo.acks = servo.wrote

\* A verified proof is on its way, or has arrived, only when the child is over and
\* the arm at rest; without a fault in it, it accounts for every write.
ReplyOK(p) ==
    /\ p.verified => /\ p.kind = "STOP_PROOF"
                     /\ servo.pc \in Over /\ arm = "rest"
                     /\ ~p.fault => p.seq = servo.wrote
    /\ p.kind = "ACK" => p.seq <= servo.wrote
    /\ p.kind = "FAULT" => p.seq = 0

PacketsInv ==
    /\ \A p \in Orders : p.kind = "TARGET" => p.seq <= Published
    /\ \A p \in Replies : ReplyOK(p)

\* The session's counters follow the barrier's.
SessionInv ==
    /\ sess.sent <= Published
    /\ sess.acked + (IF sess.pc = "acked" THEN 1 ELSE 0) <= Acked
    /\ sess.pending # 0 /\ sess.pc # "acked" => Acked < sess.pending
    /\ sess.pc # "done" => sess.result = "open"
    /\ sess.result = "verified" => servo.pc \in Over /\ Acked = servo.wrote

CountsInv == Acked <= servo.wrote /\ servo.wrote <= Published

Inv == /\ NativeTypeOK /\ LaunchInv /\ LedgerInv /\ ServoInv
       /\ PacketsInv /\ SessionInv /\ CountsInv /\ StopIsHeard

(* sequences, and numbers ------------------------------------------------------- *)

LEMMA Constants ==
  /\ MaxSequence \in Nat /\ MaxSequence > 0 /\ TargetMaxAge \in Nat
  /\ Capacity \in Nat /\ Capacity > 0
  /\ PacketsPerCycle \in Nat /\ PacketsPerCycle > 0
  /\ HeartbeatTimeout \in Nat /\ SessionDuration \in Nat
  /\ FirstTargetTimeout \in Nat /\ TargetTimeout \in Nat /\ TargetLimit \in Nat
  /\ HeartbeatInterval \in Nat /\ HeartbeatInterval > 0
  /\ MaxCommitLatency \in Nat /\ InitialPrevious \in Actions
  BY LinkAssumption, ServoAssumption, SessionAssumption, LedgerAssumption DEF TargetLimit

LEMMA OlderTyped ==
  ASSUME NEW limit \in Nat, NEW age \in AgesUpTo(limit)
  PROVE  Older(age, limit) \in AgesUpTo(limit)
  BY DEF Older, AgesUpTo

\* What a queue keeps when its first packet is taken or one is appended.
LEMMA TailMembers ==
  ASSUME NEW S, NEW q \in Seq(S), q # <<>>
  PROVE  /\ Head(q) \in S /\ Tail(q) \in Seq(S) /\ Len(Tail(q)) <= Len(q)
         /\ Head(q) \in {q[i] : i \in DOMAIN q}
         /\ {Tail(q)[i] : i \in DOMAIN Tail(q)} \subseteq {q[i] : i \in DOMAIN q}
<1>1. /\ Head(q) \in S /\ Tail(q) \in Seq(S) /\ Len(Tail(q)) = Len(q) - 1
      /\ \A i \in 1 .. Len(Tail(q)) : Tail(q)[i] = q[i + 1]
  BY HeadTailProperties
<1>2. /\ DOMAIN q = 1 .. Len(q) /\ DOMAIN Tail(q) = 1 .. Len(Tail(q))
      /\ Len(q) \in Nat /\ Len(Tail(q)) \in Nat
  BY <1>1, LenProperties
<1>3. Len(q) > 0
  BY <1>1, <1>2
<1>4. Head(q) = q[1] /\ 1 \in DOMAIN q
  BY <1>2, <1>3
<1>5. ASSUME NEW i \in DOMAIN Tail(q)
      PROVE  Tail(q)[i] \in {q[j] : j \in DOMAIN q}
  <2>1. Tail(q)[i] = q[i + 1] /\ i + 1 \in DOMAIN q
    BY <1>1, <1>2
  <2> QED BY <2>1
<1> QED BY <1>1, <1>2, <1>4, <1>5

LEMMA AppendMembers ==
  ASSUME NEW S, NEW q \in Seq(S), NEW e \in S
  PROVE  /\ Append(q, e) \in Seq(S) /\ Len(Append(q, e)) = Len(q) + 1
         /\ \A p \in {Append(q, e)[i] : i \in DOMAIN Append(q, e)} :
               p = e \/ p \in {q[i] : i \in DOMAIN q}
<1>1. /\ Append(q, e) \in Seq(S) /\ Len(Append(q, e)) = Len(q) + 1
      /\ \A i \in 1 .. Len(q) : Append(q, e)[i] = q[i]
      /\ Append(q, e)[Len(q) + 1] = e
  BY AppendProperties
<1>2. /\ DOMAIN q = 1 .. Len(q) /\ DOMAIN Append(q, e) = 1 .. Len(q) + 1
      /\ Len(q) \in Nat
  BY <1>1, LenProperties
<1>3. ASSUME NEW i \in DOMAIN Append(q, e)
      PROVE  Append(q, e)[i] = e \/ Append(q, e)[i] \in {q[j] : j \in DOMAIN q}
  <2>1. CASE i = Len(q) + 1
    BY <1>1, <2>1
  <2>2. CASE i # Len(q) + 1
    <3>1. i \in DOMAIN q /\ Append(q, e)[i] = q[i]
      BY <1>1, <1>2, <2>2
    <3> QED BY <3>1
  <2> QED BY <2>1, <2>2
<1> QED BY <1>1, <1>3

LEMMA NothingSent ==
  ASSUME NEW S
  PROVE  <<>> \in Seq(S) /\ Len(<<>>) = 0 /\ {<<>>[i] : i \in DOMAIN <<>>} = {}
  BY EmptySeq

\* A queue of which the first packets were taken.
LEMMA RestMembers ==
  ASSUME NEW S, NEW q \in Seq(S), NEW n \in 0 .. Len(q)
  PROVE  /\ SubSeq(q, n + 1, Len(q)) \in Seq(S)
         /\ Len(SubSeq(q, n + 1, Len(q))) <= Len(q)
         /\ {SubSeq(q, n + 1, Len(q))[i] : i \in DOMAIN SubSeq(q, n + 1, Len(q))}
               \subseteq {q[i] : i \in DOMAIN q}
<1> DEFINE r == SubSeq(q, n + 1, Len(q))
<1>1. DOMAIN q = 1 .. Len(q) /\ Len(q) \in Nat /\ \A i \in DOMAIN q : q[i] \in S
  BY LenProperties, ElementOfSeq
<1>2. /\ r \in Seq(S)
      /\ Len(r) = IF n + 1 <= Len(q) THEN Len(q) - n ELSE 0
      /\ \A i \in 1 .. Len(q) - n : r[i] = q[n + i]
  <2>1. \A i \in n + 1 .. Len(q) : q[i] \in S
    BY <1>1
  <2>2. /\ SubSeq(q, n + 1, Len(q)) \in Seq(S)
        /\ Len(SubSeq(q, n + 1, Len(q)))
              = IF n + 1 <= Len(q) THEN Len(q) - (n + 1) + 1 ELSE 0
        /\ \A i \in 1 .. Len(q) - (n + 1) + 1 :
              SubSeq(q, n + 1, Len(q))[i] = q[n + 1 + i - 1]
    BY <1>1, <2>1, SubSeqProperties
  <2> HIDE DEF r
  <2>3. /\ Len(q) - (n + 1) + 1 = Len(q) - n
        /\ \A i \in 1 .. Len(q) - n : n + 1 + i - 1 = n + i
    BY <1>1
  <2> QED BY <2>2, <2>3 DEF r
<1> HIDE DEF r
<1>3. DOMAIN r = 1 .. Len(r) /\ Len(r) \in Nat
  BY <1>2, LenProperties
<1>6. /\ n \in Nat /\ Len(r) <= Len(q)
      /\ \A i \in 1 .. Len(r) : i \in 1 .. Len(q) - n /\ n + i \in 1 .. Len(q)
  <2>1. n \in Nat /\ Len(q) \in Nat /\ n <= Len(q)
    BY <1>1
  <2>2. Len(r) = Len(q) - n
    BY <1>2, <2>1
  <2> QED BY <2>1, <2>2
<1>4. ASSUME NEW i \in DOMAIN r
      PROVE  r[i] \in {q[j] : j \in DOMAIN q}
  <2>1. r[i] = q[n + i] /\ n + i \in DOMAIN q
    BY <1>1, <1>2, <1>3, <1>6
  <2> QED BY <2>1
<1>5. r \in Seq(S) /\ Len(r) <= Len(q) /\ {r[i] : i \in DOMAIN r} \subseteq {q[i] : i \in DOMAIN q}
  BY <1>2, <1>4, <1>6
<1> QED BY <1>5 DEF r

\* Packets that have grown older carry the same kind and number.
LEMMA OlderPacketsKeep ==
  ASSUME toServo \in Seq(ParentPackets)
  PROVE  /\ OlderPackets(toServo) \in Seq(ParentPackets)
         /\ Len(OlderPackets(toServo)) = Len(toServo)
         /\ \A p \in {OlderPackets(toServo)[i] : i \in DOMAIN OlderPackets(toServo)} :
               \E o \in Orders : p.kind = o.kind /\ p.seq = o.seq
<1> DEFINE older(p) == IF p.kind # "TARGET" THEN p
                       ELSE [p EXCEPT !.age = Older(@, TargetMaxAge)]
<1>1. /\ DOMAIN toServo = 1 .. Len(toServo) /\ Len(toServo) \in Nat
      /\ \A i \in DOMAIN toServo : toServo[i] \in ParentPackets
  BY LenProperties, ElementOfSeq
<1>2. \A p \in ParentPackets :
         older(p) \in ParentPackets /\ older(p).kind = p.kind /\ older(p).seq = p.seq
  BY OlderTyped, Constants DEF ParentPackets
<1>3. OlderPackets(toServo) = [i \in DOMAIN toServo |-> older(toServo[i])]
  BY DEF OlderPackets
<1> HIDE DEF older
<1>4. OlderPackets(toServo) \in [1 .. Len(toServo) -> ParentPackets]
  BY <1>1, <1>2, <1>3
<1>5. OlderPackets(toServo) \in Seq(ParentPackets)
      /\ Len(OlderPackets(toServo)) = Len(toServo)
  BY <1>1, <1>4
<1>6. DOMAIN OlderPackets(toServo) = DOMAIN toServo
      /\ \A i \in DOMAIN toServo : OlderPackets(toServo)[i] = older(toServo[i])
  BY <1>3
<1>7. ASSUME NEW i \in DOMAIN toServo
      PROVE  /\ toServo[i] \in Orders
             /\ OlderPackets(toServo)[i].kind = toServo[i].kind
             /\ OlderPackets(toServo)[i].seq = toServo[i].seq
  BY <1>1, <1>2, <1>6 DEF Orders
<1> QED BY <1>5, <1>6, <1>7

LEMMA LeastElement ==
  ASSUME NEW T, T \subseteq Nat, T # {}
  PROVE  \E m \in T : \A k \in T : m <= k
<1> DEFINE R == OpToRel(<, Nat)
<1>1. IsWellFoundedOn(R, Nat)
  BY NatLessThanWellFounded
<1>2. \A k, m \in Nat : k < m => <<k, m>> \in R
  BY DEF OpToRel
<1> HIDE DEF R
<1>3. PICK m \in T : \A k \in T : ~(<<k, m>> \in R)
  BY <1>1, WFMin
<1>4. ASSUME NEW k \in T PROVE m <= k
  <2>1. ~(k < m)
    BY <1>2, <1>3
  <2> QED BY <2>1
<1> QED BY <1>4

LEMMA MinIsLeast ==
  ASSUME NEW T, T \subseteq Nat, T # {}
  PROVE  Min(T) \in T /\ \A k \in T : Min(T) <= k
<1>1. \E m \in T : \A k \in T : m <= k
  BY LeastElement
<1> QED BY <1>1 DEF Min

(* the packets of one drain ------------------------------------------------------- *)

\* The states behind the packets: the function exists, step by step.
LEMMA AcceptedUnfolds ==
  Accepted = [n \in 0 .. PacketsPerCycle |->
                 IF n = 0 THEN servo ELSE Accept(Accepted[n - 1], toServo[n])]
<1> DEFINE Chain(f, m) == f = [n \in 0 .. m |->
                 IF n = 0 THEN servo ELSE Accept(f[n - 1], toServo[n])]
           bad == {m \in Nat : ~ \E f : Chain(f, m)}
<1>1. \A m \in Nat : \E f : Chain(f, m)
  <2> SUFFICES ASSUME bad # {} PROVE FALSE
    OBVIOUS
  <2>1. PICK m \in bad : \A k \in bad : m <= k
    <3> HIDE DEF Chain
    <3>1. bad \subseteq Nat
      OBVIOUS
    <3> HIDE DEF bad
    <3> QED BY <3>1, LeastElement
  <2>2. CASE m = 0
    <3>1. Chain([n \in 0 .. 0 |-> servo], 0)
      OBVIOUS
    <3> QED BY <2>1, <2>2, <3>1
  <2>3. CASE m > 0
    <3>1. m \in Nat /\ m - 1 \in Nat /\ m - 1 \notin bad
      BY <2>1, <2>3
    <3>2. PICK g : Chain(g, m - 1)
      BY <3>1
    <3> DEFINE f == [n \in 0 .. m |->
                       IF n = m THEN Accept(g[m - 1], toServo[m]) ELSE g[n]]
    <3>3. \A n \in 0 .. m : f[n] = IF n = 0 THEN servo ELSE Accept(f[n - 1], toServo[n])
      <4> SUFFICES ASSUME NEW n \in 0 .. m
                   PROVE  f[n] = IF n = 0 THEN servo ELSE Accept(f[n - 1], toServo[n])
        OBVIOUS
      <4>1. CASE n = m
        <5>1. f[n] = Accept(g[m - 1], toServo[m])
          BY <4>1
        <5>2. f[n - 1] = g[m - 1]
          BY <4>1, <3>1, <2>3
        <5> QED BY <5>1, <5>2, <4>1, <2>3
      <4>2. CASE n # m
        <5>1. f[n] = g[n] /\ n \in 0 .. m - 1 /\ (n # 0 => f[n - 1] = g[n - 1])
          BY <4>2, <3>1
        <5>2. g[n] = IF n = 0 THEN servo ELSE Accept(g[n - 1], toServo[n])
          BY <5>1, <3>2
        <5> QED BY <5>1, <5>2
      <4> QED BY <4>1, <4>2
    <3>4. Chain(f, m)
      <4>1. f = [n \in 0 .. m |-> f[n]]
        OBVIOUS
      <4> HIDE DEF f
      <4> QED BY <4>1, <3>3
    <3> HIDE DEF f, Chain
    <3> QED BY <2>1, <3>4
  <2> QED BY <2>1, <2>2, <2>3
<1>2. PacketsPerCycle \in Nat
  BY ServoAssumption
<1> HIDE DEF Chain
<1>3. Chain(CHOOSE f : Chain(f, PacketsPerCycle), PacketsPerCycle)
  BY <1>1, <1>2
<1> QED BY <1>3 DEF Accepted, Chain

(* the barrier ------------------------------------------------------------------- *)

\* A ledger that only faults or grows older has the same counts.
Quiet == ledger' \in Ledgers /\ LedgerInv' /\ Published' = Published /\ Acked' = Acked

LEMMA LedgerTyped ==
  ASSUME ledger \in Ledgers
  PROVE  /\ Published \in Nat /\ Acked \in Nat /\ ledger.committed \in Nat
         /\ ledger.pending.seq \in Nat /\ ledger.pending.produced \in Int
         /\ ledger.acked \subseteq Consumers
         /\ ledger.pending \in Commands \cup {NoCommand}
  BY DEF Ledgers, Commands, NoCommand, Published, Acked

LEMMA QuietLedger ==
  ASSUME ledger \in Ledgers, LedgerInv, ledger' \in Ledgers,
         ledger'.committed = ledger.committed, ledger'.acked = ledger.acked,
         ledger'.pending.seq = ledger.pending.seq,
         ledger'.pending.produced <= 0
  PROVE  Quiet
  BY DEF Quiet, LedgerInv, Linked, HasPending, Published, Acked

LEMMA FailIsQuiet ==
  ASSUME ledger \in Ledgers, LedgerInv, ledger' \in {ledger, FailPending, Fail(ledger)}
  PROVE  Quiet
<1>1. "device" \in FaultReasons
  BY DEF FaultReasons
<1>2. \/ ledger' = ledger
      \/ ledger' = Latch(ledger, "device")
  BY DEF FailPending, Fail
<1>3. /\ ledger' \in Ledgers /\ ledger'.committed = ledger.committed
      /\ ledger'.acked = ledger.acked /\ ledger'.pending = ledger.pending
  BY <1>1, <1>2, LatchKeeps
<1> QED BY <1>3, QuietLedger DEF LedgerInv

LEMMA OlderIsQuiet ==
  ASSUME ledger \in Ledgers, LedgerInv, ledger' = OlderLedger
  PROVE  Quiet
<1>1. CASE ledger' = ledger
  BY <1>1, FailIsQuiet
<1>2. CASE HasPending(ledger) /\ ledger' = [ledger EXCEPT !.pending.produced = @ - 1]
  <2>1. ledger.pending \in Commands
    BY <1>2, LedgerTyped DEF HasPending, NoCommand
  <2>2. ledger.pending.produced \in Int /\ ledger.pending.produced <= 0
    BY LedgerTyped DEF LedgerInv
  <2>3. [ledger.pending EXCEPT !.produced = @ - 1] \in Commands
    BY <2>1, <2>2 DEF Commands
  <2>4. ledger' = [ledger EXCEPT !.pending = [ledger.pending EXCEPT !.produced = @ - 1]]
    BY <1>2
  <2>5. /\ ledger' \in Ledgers /\ ledger'.committed = ledger.committed
        /\ ledger'.acked = ledger.acked
        /\ ledger'.pending = [ledger.pending EXCEPT !.produced = @ - 1]
    BY <2>3, <2>4 DEF Ledgers
  <2>6. ledger'.pending.seq = ledger.pending.seq
        /\ ledger'.pending.produced = ledger.pending.produced - 1
    BY <2>1, <2>5 DEF Commands
  <2> QED BY <2>2, <2>5, <2>6, QuietLedger
<1> QED BY <1>1, <1>2 DEF OlderLedger

\* An ACK that does not land leaves at most a fault behind.
LEMMA RefusedAckIsQuiet ==
  ASSUME ledger \in Ledgers, LedgerInv, NEW p, ~AckLands(p),
         ledger' = IF HasPending(ledger) THEN Fail(AckedLedger(p)) ELSE ledger
  PROVE  Quiet
<1>1. \/ AckedLedger(p) = ledger
      \/ \E why \in FaultReasons : AckedLedger(p) = Latch(ledger, why)
  BY AckEffect DEF AckedLedger, AckLands, Consumers
<1>2. /\ AckedLedger(p) \in Ledgers /\ AckedLedger(p).committed = ledger.committed
      /\ AckedLedger(p).acked = ledger.acked /\ AckedLedger(p).pending = ledger.pending
  BY <1>1, LatchKeeps
<1>3. "device" \in FaultReasons
  BY DEF FaultReasons
<1>4. /\ ledger' \in Ledgers /\ ledger'.committed = ledger.committed
      /\ ledger'.acked = ledger.acked /\ ledger'.pending = ledger.pending
  BY <1>2, <1>3, LatchKeeps DEF Fail
<1> QED BY <1>4, QuietLedger DEF LedgerInv

\* An ACK that lands is the arm's acknowledgement of the pending command; the hand
\* never comes first.
LEMMA LandedAck ==
  ASSUME ledger \in Ledgers, LedgerInv, NEW p, AckLands(p), ledger' = AckedLedger(p)
  PROVE  /\ ledger' \in Ledgers /\ LedgerInv' /\ Published' = Published
         /\ Acked' = p.seq /\ p.seq = Published /\ p.seq = sess.pending /\ p.seq # 0
<1>1. /\ HasPending(ledger) /\ p.seq = ledger.pending.seq
      /\ p.seq = sess.pending /\ p.seq # 0
      /\ ledger' = AcceptAck(ledger, "franka")
  BY AckEffect DEF AckLands, AckFits, AckedLedger, Consumers
<1>2. /\ ledger.acked \cup {"franka"} # Consumers
      /\ ledger.acked \cup {"franka"} \subseteq Consumers
  BY LedgerTyped DEF LedgerInv, Consumers
<1>3. ledger' = [ledger EXCEPT !.acked = @ \cup {"franka"}]
  BY <1>1, <1>2 DEF AcceptAck
<1>4. /\ ledger' \in Ledgers /\ ledger'.committed = ledger.committed
      /\ ledger'.acked = ledger.acked \cup {"franka"}
      /\ ledger'.pending = ledger.pending
  BY <1>2, <1>3 DEF Ledgers
<1>5. LedgerInv'
  BY <1>1, <1>2, <1>4 DEF LedgerInv, Linked, HasPending
<1> QED BY <1>1, <1>4, <1>5 DEF Published, Acked, HasPending

\* The hand's acknowledgement commits what the arm has acknowledged.
LEMMA HandAckIsQuiet ==
  ASSUME ledger \in Ledgers, LedgerInv, ConsumerAcknowledged(ledger, "franka", sess.sent),
         ledger' = Acknowledge(ledger, "rh56", sess.sent, Now)
  PROVE  Quiet
<1>1. CASE AckAccepts(ledger, sess.sent, Now)
  <2>1. /\ HasPending(ledger) /\ sess.sent = ledger.pending.seq
        /\ ledger' = AcceptAck(ledger, "rh56")
    BY <1>1, AckEffect DEF Consumers
  <2>2. ledger.pending.seq = ledger.committed + 1 /\ ledger.committed \in Nat
        /\ ledger.pending.seq \in Nat
    BY <2>1, LedgerTyped DEF LedgerInv, Linked
  <2>3. "franka" \in ledger.acked
    BY <2>1, <2>2 DEF ConsumerAcknowledged
  <2>4. ledger.acked \cup {"rh56"} = Consumers
    BY <2>3, LedgerTyped DEF Consumers
  <2>5. ledger' = [ledger EXCEPT !.previous = ledger.pending.executed,
                                 !.committed = ledger.pending.seq,
                                 !.pending = NoCommand, !.acked = {}]
    BY <2>1, <2>4 DEF AcceptAck
  <2>6. ledger' \in Ledgers
    <3>1. "rh56" \in Consumers /\ ledger.pending \in Commands
      BY <2>1, LedgerTyped DEF Consumers, HasPending, NoCommand
    <3> QED BY <2>1, <3>1, UpdatesTyped
  <2>7. /\ ledger'.committed = ledger.pending.seq /\ ledger'.acked = {}
        /\ ledger'.pending = NoCommand
    BY <2>5 DEF Ledgers
  <2>8. LedgerInv'
    BY <2>7 DEF LedgerInv, Linked, HasPending, NoCommand, Consumers
  <2>9. Published' = Published /\ Acked' = Acked
    BY <2>1, <2>3, <2>7 DEF Published, Acked, HasPending, NoCommand
  <2> QED BY <2>6, <2>8, <2>9 DEF Quiet
<1>2. CASE ~AckAccepts(ledger, sess.sent, Now)
  <2>1. \/ ledger' = ledger
        \/ \E why \in FaultReasons : ledger' = Latch(ledger, why)
    BY <1>2, AckEffect DEF Consumers
  <2>2. /\ ledger' \in Ledgers /\ ledger'.committed = ledger.committed
        /\ ledger'.acked = ledger.acked /\ ledger'.pending = ledger.pending
    BY <2>1, LatchKeeps
  <2> QED BY <2>2, QuietLedger DEF LedgerInv
<1> QED BY <1>1, <1>2

\* A command that is staged is the next one, and nobody has acknowledged it.
LEMMA StagedIsNext ==
  ASSUME ledger \in Ledgers, LedgerInv, NEW a \in Actions, NEW cmd,
         cmd = [seq |-> ledger.committed + 1, previous |-> ledger.previous,
                executed |-> a, produced |-> Now],
         StageAccepts(ledger, cmd, Now),
         ledger' \in {Stage(ledger, cmd, Now), Fail(Stage(ledger, cmd, Now))}
  PROVE  /\ ledger' \in Ledgers /\ LedgerInv'
         /\ Published' = Published + 1 /\ Published' = cmd.seq /\ Acked' = Acked
         /\ Published = Acked
<1> DEFINE l == Stage(ledger, cmd, Now)
<1>1. cmd \in Commands /\ cmd.seq = ledger.committed + 1 /\ cmd.produced = 0
  BY LedgerTyped DEF Commands, Ledgers, Now
<1>2. ~HasPending(ledger) /\ l = [ledger EXCEPT !.pending = cmd, !.acked = {}]
  BY <1>1, StageEffect
<1>3. l \in Ledgers /\ l.committed = ledger.committed /\ l.pending = cmd /\ l.acked = {}
  BY <1>1, <1>2 DEF Ledgers
<1> HIDE DEF l
<1>4. "device" \in FaultReasons /\ ledger' \in {l, Latch(l, "device")}
  BY DEF FaultReasons, Fail, l
<1>5. /\ ledger' \in Ledgers /\ ledger'.committed = ledger.committed
      /\ ledger'.pending = cmd /\ ledger'.acked = {}
  BY <1>3, <1>4, LatchKeeps
<1>6. ledger.acked = {} /\ ledger.committed \in Nat
  BY <1>2, LedgerTyped DEF LedgerInv, Linked
<1>7. LedgerInv'
  BY <1>1, <1>5, <1>6 DEF LedgerInv, Linked, HasPending, Consumers
<1>8. /\ Published' = ledger.committed + 1 /\ Published = ledger.committed
      /\ Acked' = ledger.committed /\ Acked = ledger.committed
  BY <1>1, <1>2, <1>5, <1>6 DEF Published, Acked, HasPending
<1> QED BY <1>1, <1>5, <1>6, <1>7, <1>8

\* A command that is refused leaves at most a fault behind.
LEMMA RefusedStageIsQuiet ==
  ASSUME ledger \in Ledgers, LedgerInv, NEW cmd, ~StageAccepts(ledger, cmd, Now),
         ledger' = Stage(ledger, cmd, Now)
  PROVE  Quiet
<1>1. PICK why \in FaultReasons : ledger' = Latch(ledger, why)
  BY StageEffect
<1>2. /\ ledger' \in Ledgers /\ ledger'.committed = ledger.committed
      /\ ledger'.acked = ledger.acked /\ ledger'.pending = ledger.pending
  BY <1>1, LatchKeeps
<1> QED BY <1>2, QuietLedger DEF LedgerInv

(* the session's control ---------------------------------------------------------- *)

\* t is s with other flags: no counter, no proof, no result is changed.
Kept(s, t) ==
    /\ t \in SessionStates
    /\ t.sent = s.sent /\ t.pending = s.pending /\ t.acked = s.acked
    /\ t.proof = s.proof /\ t.result = s.result
    /\ s.encoded => t.encoded

LEMMA KeptTwice ==
  ASSUME NEW s, NEW t, NEW u, Kept(s, t), Kept(t, u)
  PROVE  Kept(s, u)
  BY DEF Kept

LEMMA FlagsKept ==
  ASSUME NEW s \in SessionStates
  PROVE  /\ Kept(s, s)
         /\ Kept(s, Stopping(s)) /\ Stopping(s).pc = s.pc
                                 /\ Stopping(s).stopSent = s.stopSent
         /\ Kept(s, Failed(s)) /\ Failed(s).pc = s.pc
                               /\ Failed(s).stopSent = s.stopSent
         /\ Kept(s, Latched(s)) /\ Latched(s).pc = s.pc
                                /\ Latched(s).stopSent = s.stopSent
         /\ Kept(s, PastStop(s)) /\ PastStop(s).pc \in {"eof", "drain"}
                                 /\ PastStop(s).stopSent = s.stopSent
<1>1. 0 \in 0 .. HeartbeatInterval
  BY Constants
<1>2. Kept(s, s)
  BY DEF Kept
<1>3. /\ Kept(s, Stopping(s)) /\ Stopping(s).pc = s.pc
      /\ Stopping(s).stopSent = s.stopSent
  BY <1>1 DEF Kept, Stopping, SessionStates
<1>4. Kept(s, Failed(s)) /\ Failed(s).pc = s.pc /\ Failed(s).stopSent = s.stopSent
  BY DEF Kept, Failed, SessionStates
<1>5. /\ Kept(s, Latched(s)) /\ Latched(s).pc = s.pc
      /\ Latched(s).stopSent = s.stopSent
  BY <1>1 DEF Kept, Latched, Stopping, SessionStates
<1>6. /\ Kept(s, PastStop(s)) /\ PastStop(s).pc \in {"eof", "drain"}
      /\ PastStop(s).stopSent = s.stopSent
  BY DEF Kept, PastStop, SessionStates
<1> QED BY <1>2, <1>3, <1>4, <1>5, <1>6

\* The finally block claims STOP, or finds it claimed and goes past it.
LEMMA FinallyKept ==
  ASSUME NEW s \in SessionStates
  PROVE  /\ Kept(s, Finally(s))
         /\ IF s.stopSent THEN Finally(s).pc \in {"eof", "drain"}
                          ELSE Finally(s).pc = "last_stop"
<1>1. Kept(s, Stopping(s)) /\ Stopping(s) \in SessionStates
  BY FlagsKept DEF Kept
<1>2. CASE s.stopSent
  <2>1. /\ Kept(Stopping(s), PastStop(Stopping(s)))
        /\ PastStop(Stopping(s)).pc \in {"eof", "drain"}
    BY <1>1, FlagsKept
  <2>2. Finally(s) = PastStop(Stopping(s))
    BY <1>2 DEF Finally
  <2> QED BY <1>1, <1>2, <2>1, <2>2, KeptTwice
<1>3. CASE ~s.stopSent
  <2>1. Finally(s) = [Stopping(s) EXCEPT !.pc = "last_stop", !.stopSent = TRUE]
    BY <1>3 DEF Finally
  <2>2. Kept(Stopping(s), Finally(s)) /\ Finally(s).pc = "last_stop"
    BY <1>1, <2>1 DEF Kept, SessionStates
  <2> QED BY <1>1, <1>3, <2>2, KeptTwice
<1> QED BY <1>2, <1>3

\* What a turn of the loop decides: STOP is claimed with the step to send it.
LEMMA DecideKept ==
  ASSUME NEW s \in SessionStates, NEW pc \in {"receive"}
  PROVE  /\ Kept(s, StopOr(s, pc))
         /\ StopOr(s, pc).pc \in {"stop", pc}
         /\ StopOr(s, pc).pc = pc => StopOr(s, pc).stopSent = s.stopSent
         /\ Kept(s, Decide(s))
         /\ Decide(s).pc \in {"arm", "beat", "stop", "receive"}
         /\ Decide(s).pc # "stop" => Decide(s).stopSent = s.stopSent
<1>1. /\ Kept(s, StopOr(s, "receive"))
      /\ StopOr(s, "receive").pc \in {"stop", "receive"}
      /\ StopOr(s, "receive").pc = "receive" => StopOr(s, "receive").stopSent = s.stopSent
  BY DEF Kept, StopOr, SessionStates
<1>2. HeartbeatInterval \in 0 .. HeartbeatInterval
  BY Constants
<1>3. CASE s.hello /\ ~s.armed /\ ~s.stopReq
  <2>1. Decide(s) = [s EXCEPT !.pc = "arm", !.due = HeartbeatInterval]
    BY <1>3 DEF Decide
  <2>2. Kept(s, Decide(s)) /\ Decide(s).pc = "arm" /\ Decide(s).stopSent = s.stopSent
    BY <1>2, <2>1 DEF Kept, SessionStates
  <2> QED BY <1>1, <2>2
<1>4. CASE ~(s.hello /\ ~s.armed /\ ~s.stopReq) /\ ~s.stopReq /\ s.armed /\ s.due = 0
  <2>1. Decide(s) = [s EXCEPT !.pc = "beat", !.due = HeartbeatInterval]
    BY <1>4 DEF Decide
  <2>2. Kept(s, Decide(s)) /\ Decide(s).pc = "beat" /\ Decide(s).stopSent = s.stopSent
    BY <1>2, <2>1 DEF Kept, SessionStates
  <2> QED BY <1>1, <2>2
<1>5. CASE /\ ~(s.hello /\ ~s.armed /\ ~s.stopReq)
           /\ ~(~s.stopReq /\ s.armed /\ s.due = 0)
  <2>1. Decide(s) = StopOr(s, "receive")
    BY <1>5 DEF Decide
  <2> QED BY <1>1, <2>1
<1> QED BY <1>3, <1>4, <1>5

(* one side moves ---------------------------------------------------------------- *)

\* A step that keeps the invariant and is a step of ArmOwner, or none of its.
Sound == Inv' /\ [Promise!Next]_(Promise!armOwnerVars)

LEMMA UnmovedIsSound ==
  ASSUME Inv', servo'.wrote = servo.wrote, Acked' = Acked, sess'.result = sess.result
  PROVE  Sound
<1>1. UNCHANGED Promise!armOwnerVars
  BY DEF Promise!armOwnerVars, Acked
<1> QED BY <1>1 DEF Sound

\* The barrier is at most one command ahead of the arm's acknowledgement.
LEMMA OneAhead ==
  ASSUME ledger \in Ledgers, LedgerInv
  PROVE  Published <= Acked + 1
  BY LedgerTyped DEF LedgerInv, Linked, Published, Acked

\* STOP is claimed and nobody is about to send it.
Claimed ==
    sess.stopSent /\ main # "send" /\ sess.pc \notin {"stop", "last_stop"}

\* The session as another step of its control finds it: sess itself, or with a
\* packet that has arrived as its proof.
Received(s) == s = sess \/ \E p \in Replies : s = [sess EXCEPT !.proof = p]

\* A step of the session, or of another thread, that moves no counter and at most
\* takes packets from its queue.
LEMMA QuietSession ==
  ASSUME Inv, UNCHANGED servoVars, LinkTypeOK', main' \in MainPcs, Quiet,
         NEW s, Received(s), Kept(s, sess'),
         InSession' \subseteq InSession,
         \A p \in Orders' : p \in Orders \/ p.kind # "TARGET" \/ p.seq <= Published,
         sess'.pc = "acked" <=> sess.pc = "acked",
         sess.pc = "done" => sess'.pc = "done",
         sess'.pc = "launch" => /\ sess.pc = "launch" /\ toSession' = toSession
                                /\ sess'.stopSent = sess.stopSent /\ s = sess
                                /\ proc'.servo = proc.servo,
         Claimed' => Claimed \/ sess'.encoded \/ proc'.term \/ ~Running,
         proc.term => proc'.term
  PROVE  Sound
<1>1. /\ servo' = servo /\ arm' = arm
      /\ Published' = Published /\ Acked' = Acked
      /\ sess'.sent = sess.sent /\ sess'.pending = sess.pending
      /\ sess'.acked = sess.acked /\ sess'.proof \in Replies
      /\ (s = sess => sess'.proof = sess.proof)
      /\ sess'.result = sess.result /\ (sess.encoded => sess'.encoded)
  <2>1. sess \in SessionStates /\ sess.proof \in Replies
    BY DEF Inv, NativeTypeOK, SessionTypeOK, Replies
  <2>2. /\ s.sent = sess.sent /\ s.pending = sess.pending /\ s.acked = sess.acked
        /\ s.proof \in Replies /\ s.result = sess.result
        /\ (sess.encoded => s.encoded)
    BY <2>1 DEF Received, SessionStates
  <2> QED BY <2>2 DEF servoVars, Quiet, Kept
<1>2. NativeTypeOK'
  BY <1>1 DEF Inv, NativeTypeOK, ServoTypeOK, SessionTypeOK, Quiet, Kept
<1>3. LaunchInv'
  BY <1>1 DEF Inv, LaunchInv
<1>4. LedgerInv'
  BY DEF Quiet
<1>5. ServoInv'
  BY <1>1 DEF Inv, ServoInv
<1>6. PacketsInv'
  <2>1. ASSUME NEW p \in Orders', p.kind = "TARGET"
        PROVE  p.seq <= Published'
    BY <1>1, <2>1 DEF Inv, PacketsInv
  <2>2. ASSUME NEW p \in Replies'
        PROVE  ReplyOK(p)'
    <3>1. p \in Replies
      BY <1>1 DEF Replies
    <3> QED BY <1>1, <3>1 DEF Inv, PacketsInv, ReplyOK
  <2> QED BY <2>1, <2>2 DEF PacketsInv
<1>7. SessionInv'
  BY <1>1 DEF Inv, SessionInv
<1>8. CountsInv'
  BY <1>1 DEF Inv, CountsInv
<1>9. StopIsHeard'
  <2>1. Running' <=> Running
    BY <1>1 DEF Running
  <2> QED BY <1>1, <2>1 DEF Inv, StopIsHeard, Claimed
<1>10. Inv'
  BY <1>2, <1>3, <1>4, <1>5, <1>6, <1>7, <1>8, <1>9 DEF Inv
<1> QED BY <1>1, <1>10, UnmovedIsSound

\* A step of the servo, or its death: the session sees its packets and its end.
LEMMA ServoSide ==
  ASSUME Inv, UNCHANGED sessionVars, LinkTypeOK', ServoTypeOK', ServoInv',
         servo.wrote <= servo'.wrote, servo'.wrote <= Published,
         servo.pc \in Over =>
             servo'.pc \in Over /\ servo'.wrote = servo.wrote /\ arm' = arm,
         Running' => Running /\ (proc.term => proc'.term),
         \A p \in InSession' : p \in InSession \/ ReplyOK(p)',
         Orders' \subseteq Orders,
         sess.pc = "launch" =>
             toSession' = <<>> /\ servo'.pc = "unborn" /\ ~proc'.servo
  PROVE  Sound
<1>1. /\ sess' = sess /\ main' = main /\ ledger' = ledger
      /\ Published' = Published /\ Acked' = Acked
  BY DEF sessionVars, Published, Acked, HasPending
<1>2. NativeTypeOK'
  BY <1>1 DEF Inv, NativeTypeOK, SessionTypeOK
<1>3. LaunchInv'
  BY <1>1 DEF Inv, LaunchInv
<1>4. LedgerInv'
  BY <1>1 DEF Inv, LedgerInv, Linked, HasPending
<1>5. servo.wrote \in Nat /\ servo'.wrote \in Nat
  BY Constants DEF Inv, NativeTypeOK, ServoTypeOK, ServoStates, Sequences0
<1>6. PacketsInv'
  <2>1. ASSUME NEW p \in Orders', p.kind = "TARGET"
        PROVE  p.seq <= Published'
    BY <1>1, <2>1 DEF Inv, PacketsInv
  <2>2. ASSUME NEW p \in Replies, p \in ChildPackets
        PROVE  ReplyOK(p)'
    <3>1. ReplyOK(p) /\ p.seq \in Nat
      BY <2>2, Constants DEF Inv, PacketsInv, ChildPackets, Sequences0
    <3> QED BY <1>5, <3>1 DEF ReplyOK
  <2>3. ASSUME NEW p \in Replies'
        PROVE  ReplyOK(p)'
    <3>1. p \in Replies \/ ReplyOK(p)'
      BY <1>1 DEF Replies
    <3>2. Replies \subseteq ChildPackets
      BY ElementOfSeq, LenProperties
         DEF Inv, NativeTypeOK, LinkTypeOK, SessionTypeOK, SessionStates, Replies, InSession
    <3> QED BY <2>2, <3>1, <3>2
  <2> QED BY <2>1, <2>3 DEF PacketsInv
<1>7. SessionInv'
  BY <1>1 DEF Inv, SessionInv
<1>8. CountsInv'
  BY <1>1, <1>5, LedgerTyped DEF Inv, CountsInv, NativeTypeOK, SessionTypeOK
<1>9. StopIsHeard'
  BY <1>1 DEF Inv, StopIsHeard
<1>10. Inv'
  BY <1>2, <1>3, <1>4, <1>6, <1>7, <1>8, <1>9 DEF Inv
<1>11. CASE servo'.wrote = servo.wrote
  BY <1>1, <1>10, <1>11, UnmovedIsSound
<1>12. CASE servo'.wrote # servo.wrote
  <2>1. /\ Acked <= servo.wrote /\ Published <= Acked + 1
        /\ Published \in Nat /\ Acked \in Nat
    BY OneAhead, LedgerTyped DEF Inv, CountsInv, NativeTypeOK, SessionTypeOK
  <2>2. servo'.wrote = servo.wrote + 1 /\ servo.wrote = Acked
    BY <1>5, <1>12, <2>1
  <2>3. servo.wrote < MaxSequence
    BY <1>5, <2>2, Constants DEF ServoTypeOK, ServoStates, Sequences0
  <2>4. sess.result # "verified"
    BY <1>12 DEF Inv, SessionInv
  <2>5. Promise!Write
    BY <1>1, <2>2, <2>3, <2>4 DEF Promise!Write, Acked
  <2> QED BY <1>10, <2>5 DEF Sound, Promise!Next
<1> QED BY <1>11, <1>12

(* the steps of the servo ---------------------------------------------------------- *)

LEMMA InvTyped ==
  ASSUME Inv
  PROVE  /\ toServo \in Seq(ParentPackets) /\ Len(toServo) <= Capacity
         /\ Len(toServo) \in Nat
         /\ toSession \in Seq(ChildPackets)
         /\ proc \in ProcessPairs /\ servo \in ServoStates /\ arm \in {"rest", "moving"}
         /\ sess \in SessionStates /\ main \in MainPcs /\ ledger \in Ledgers
         /\ servo.wrote \in Nat /\ servo.acks \in Nat /\ servo.target \in Nat
         /\ Published \in Nat /\ Acked \in Nat
<1>1. servo.wrote \in Nat /\ servo.acks \in Nat /\ servo.target \in Nat
  BY Constants DEF Inv, NativeTypeOK, ServoTypeOK, ServoStates, Sequences0
<1> QED BY <1>1, LedgerTyped, LenProperties
        DEF Inv, NativeTypeOK, LinkTypeOK, ServoTypeOK, SessionTypeOK

LEMMA SendsFacts ==
  ASSUME toSession \in Seq(ChildPackets), NEW p \in ChildPackets, Sends(p)
  PROVE  /\ toSession' \in Seq(ChildPackets)
         /\ \A q \in InSession' : q \in InSession \/ q = p
<1>1. CASE toSession' = toSession
  BY <1>1 DEF InSession
<1>2. CASE toSession' = Append(toSession, p)
  BY <1>2, AppendMembers DEF InSession
<1> QED BY <1>1, <1>2 DEF Sends

\* A packet without a proof in it.
LEMMA ReplyFacts ==
  ASSUME NEW kind \in {"HELLO", "IPC_READY", "ACTION_READY", "ACK", "FAULT"},
         NEW n \in Sequences0
  PROVE  /\ Reply(kind, n) \in ChildPackets /\ ~Reply(kind, n).verified
         /\ Reply(kind, n).kind = kind /\ Reply(kind, n).seq = n
  BY DEF Reply, ChildPackets

LEMMA LeaveFacts ==
  ASSUME NEW s \in ServoStates
  PROVE  /\ Leave(s) \in ServoStates /\ Leave(s).pc = "release"
         /\ Leave(s).active = s.active /\ Leave(s).wrote = s.wrote
         /\ Leave(s).acks = s.acks /\ Leave(s).fault = s.fault
         /\ Leave(s).expired = FALSE
<1>1. /\ 0 \in AgesUpTo(SessionDuration) /\ 0 \in AgesUpTo(HeartbeatTimeout)
      /\ 0 \in AgesUpTo(TargetLimit) /\ 0 \in Sequences0
  BY Constants DEF Sequences0, AgesUpTo
<1> QED BY <1>1 DEF Leave, ServoStates

LEMMA OneTaken ==
  ASSUME Inv, toServo # <<>>, toServo' = Tail(toServo)
  PROVE  /\ toServo' \in Seq(ParentPackets) /\ Len(toServo') <= Capacity
         /\ Orders' \subseteq Orders
<1>1. /\ Tail(toServo) \in Seq(ParentPackets) /\ Len(Tail(toServo)) <= Len(toServo)
      /\ {Tail(toServo)[i] : i \in DOMAIN Tail(toServo)} \subseteq Orders
  BY TailMembers, InvTyped DEF Orders
<1>2. Len(Tail(toServo)) \in Nat
  BY <1>1, LenProperties
<1>3. Len(Tail(toServo)) <= Capacity
  BY <1>1, <1>2, InvTyped, Constants
<1> QED BY <1>1, <1>3 DEF Orders

\* A ServoFault, wherever it is raised before the cleanup.
LEMMA RaiseStep ==
  ASSUME Inv, UNCHANGED sessionVars, proc' = proc, servo.pc \notin Over \cup {"unborn"},
         NEW s \in ServoStates, Raise(s),
         servo.wrote <= s.wrote, s.wrote <= Published,
         arm' \in {"rest", "moving"},
         toServo' \in Seq(ParentPackets), Len(toServo') <= Capacity,
         Orders' \subseteq Orders
  PROVE  Sound
<1>1. servo' = [Leave(s) EXCEPT !.fault = TRUE]
  BY DEF Raise
<1>2. /\ servo' \in ServoStates /\ servo'.pc = "release" /\ servo'.wrote = s.wrote
      /\ servo'.fault = TRUE
  BY <1>1, LeaveFacts DEF ServoStates
<1>3. 0 \in Sequences0
  BY Constants DEF Sequences0
<1>4. /\ Reply("FAULT", 0) \in ChildPackets /\ ~Reply("FAULT", 0).verified
      /\ Reply("FAULT", 0).kind = "FAULT" /\ Reply("FAULT", 0).seq = 0
  BY <1>3, ReplyFacts
<1>5. /\ toSession' \in Seq(ChildPackets)
      /\ \A q \in InSession' : q \in InSession \/ q = Reply("FAULT", 0)
  BY <1>4, SendsFacts, InvTyped DEF Raise
<1>6. \A q \in InSession' : q \in InSession \/ ReplyOK(q)'
  BY <1>4, <1>5 DEF ReplyOK
<1>7. ServoInv'
  BY <1>2 DEF ServoInv, Loop, Unstarted
<1>8. LinkTypeOK' /\ ServoTypeOK'
  BY <1>2, <1>5, InvTyped DEF LinkTypeOK, ServoTypeOK
<1>9. ~Running' /\ sess.pc # "launch"
  BY <1>2 DEF Running, Inv, LaunchInv
<1> QED BY <1>2, <1>6, <1>7, <1>8, <1>9, ServoSide

\* A step of start-up or loop that sends nothing or p, and takes nothing.
LEMMA GoesOn ==
  ASSUME Inv, UNCHANGED sessionVars, UNCHANGED <<toServo, proc>>,
         servo.pc \notin Over \cup {"unborn"}, Running,
         servo' \in ServoStates, ServoInv', arm' \in {"rest", "moving"},
         servo.wrote <= servo'.wrote, servo'.wrote <= Published,
         \/ UNCHANGED toSession
         \/ \E p \in ChildPackets : Sends(p) /\ ReplyOK(p)'
  PROVE  Sound
<1>1. /\ toSession' \in Seq(ChildPackets)
      /\ \A q \in InSession' : q \in InSession \/ ReplyOK(q)'
  <2>1. CASE UNCHANGED toSession
    BY <2>1, InvTyped DEF InSession
  <2>2. ASSUME NEW p \in ChildPackets, Sends(p), ReplyOK(p)' PROVE <1>1!1 /\ <1>1!2
    BY <2>2, SendsFacts, InvTyped
  <2> QED BY <2>1, <2>2
<1>2. LinkTypeOK' /\ ServoTypeOK'
  BY <1>1, InvTyped DEF LinkTypeOK, ServoTypeOK
<1>3. Orders' = Orders /\ proc' = proc /\ sess.pc # "launch"
  BY DEF Orders, Inv, LaunchInv
<1> QED BY <1>1, <1>2, <1>3, ServoSide

LEMMA StartedFresh ==
  ASSUME Inv, servo.pc \in Unstarted
  PROVE  /\ ~servo.active /\ ~servo.ready /\ ~servo.waiting /\ ~servo.fault
         /\ ~servo.expired /\ servo.target = 0 /\ servo.wrote = 0 /\ servo.acks = 0
  BY DEF Inv, ServoInv, ServoStart

LEMMA StartUpStep ==
  ASSUME Inv, UNCHANGED sessionVars, Hello \/ AwaitArm \/ OpenRobot \/ StartControl
  PROVE  Sound
<1>1. /\ servo.pc \in Unstarted \ {"unborn"} /\ Running
      /\ servo.pc \notin Over \cup {"unborn"}
      /\ servo.wrote <= Published /\ servo.wrote <= servo.wrote
      /\ servo = [ServoStart EXCEPT !.pc = servo.pc]
  BY InvTyped DEF Inv, Hello, AwaitArm, OpenRobot, StartControl, At, Unstarted, Running, Over,
     CountsInv, ServoInv
<1>2. UNCHANGED <<proc, arm>>
  BY DEF Hello, AwaitArm, OpenRobot, StartControl
<1>3. ASSUME NEW s \in ServoStates, s.wrote = servo.wrote, Raise(s),
             \/ UNCHANGED toServo
             \/ toServo # <<>> /\ toServo' = Tail(toServo)
      PROVE  Sound
  <2>1. /\ toServo' \in Seq(ParentPackets) /\ Len(toServo') <= Capacity
        /\ Orders' \subseteq Orders
    <3>1. CASE UNCHANGED toServo
      BY <3>1, InvTyped DEF Orders
    <3>2. CASE toServo # <<>> /\ toServo' = Tail(toServo)
      BY <3>2, OneTaken
    <3> QED BY <1>3, <3>1, <3>2
  <2> QED BY <1>1, <1>2, <1>3, <2>1, RaiseStep, InvTyped
<1>4. ASSUME NEW pc \in Unstarted \ {"unborn"}, NEW kind \in {"HELLO", "IPC_READY"},
             servo' = [servo EXCEPT !.pc = pc],
             Sends(Reply(kind, 0)) \/ UNCHANGED toSession,
             UNCHANGED toServo
      PROVE  Sound
  <2>1. servo' \in ServoStates /\ servo'.pc = pc /\ servo'.wrote = servo.wrote
    BY <1>4, InvTyped DEF ServoStates, Unstarted
  <2>2. ServoInv'
    <3>1. servo' = [ServoStart EXCEPT !.pc = servo'.pc] /\ ~servo'.active
      BY <1>1, <1>4, <2>1 DEF ServoStart
    <3> QED BY <1>4, <2>1, <3>1 DEF ServoInv, Unstarted, Loop
  <2>3. 0 \in Sequences0
    BY Constants DEF Sequences0
  <2>4. Reply(kind, 0) \in ChildPackets /\ ReplyOK(Reply(kind, 0))'
    BY <1>4, <2>3, ReplyFacts DEF ReplyOK
  <2> QED BY <1>1, <1>2, <1>4, <2>1, <2>2, <2>4, GoesOn, InvTyped
<1>9. ASSUME NEW pc \in {"await", "start"}
      PROVE  /\ [servo EXCEPT !.pc = pc] \in ServoStates
             /\ [servo EXCEPT !.pc = pc].wrote = servo.wrote
  BY <1>9, InvTyped DEF ServoStates
<1>5. CASE Hello
  <2>1. CASE Raise([servo EXCEPT !.pc = "await"])
    BY <1>3, <1>5, <1>9, <2>1 DEF Hello
  <2>2. CASE servo' = [servo EXCEPT !.pc = "await"] /\ Sends(Reply("HELLO", 0))
    BY <1>4, <1>5, <2>2 DEF Hello, Unstarted
  <2> QED BY <1>5, <2>1, <2>2 DEF Hello, SendOr
<1>6. CASE AwaitArm
  <2>1. CASE Raise(servo)
    BY <1>3, <1>6, <2>1, InvTyped DEF AwaitArm
  <2>2. CASE /\ toServo # <<>> /\ toServo' = Tail(toServo)
             /\ servo' = [servo EXCEPT !.pc = "open"] /\ UNCHANGED toSession
    <3>1. /\ servo' \in ServoStates /\ servo'.pc = "open" /\ servo'.wrote = servo.wrote
          /\ servo' = [ServoStart EXCEPT !.pc = servo'.pc] /\ ~servo'.active
      BY <1>1, <2>2, InvTyped DEF ServoStates, ServoStart
    <3>2. ServoInv'
      BY <3>1 DEF ServoInv, Unstarted, Loop
    <3>3. /\ toServo' \in Seq(ParentPackets) /\ Len(toServo') <= Capacity
          /\ Orders' \subseteq Orders
      BY <2>2, OneTaken
    <3>4. LinkTypeOK' /\ ServoTypeOK'
      BY <1>2, <2>2, <3>1, <3>3, InvTyped DEF LinkTypeOK, ServoTypeOK
    <3>5. sess.pc # "launch" /\ InSession' = InSession
      BY <1>1, <2>2 DEF Inv, LaunchInv, InSession
    <3> QED BY <1>1, <1>2, <3>1, <3>2, <3>3, <3>4, <3>5, ServoSide, InvTyped
  <2> QED BY <1>6, <2>1, <2>2 DEF AwaitArm
<1>7. CASE OpenRobot
  <2>1. CASE Raise([servo EXCEPT !.pc = "start"])
    BY <1>3, <1>7, <1>9, <2>1 DEF OpenRobot
  <2>2. CASE servo' = [servo EXCEPT !.pc = "start"] /\ Sends(Reply("IPC_READY", 0))
    BY <1>4, <1>7, <2>2 DEF OpenRobot, Unstarted
  <2>3. CASE Raise(servo)
    BY <1>3, <1>7, <2>3, InvTyped DEF OpenRobot
  <2> QED BY <1>7, <2>1, <2>2, <2>3 DEF OpenRobot, SendOr
<1>8. CASE StartControl
  <2>1. CASE Raise(servo)
    BY <1>3, <1>8, <2>1, InvTyped DEF StartControl
  <2>2. CASE servo' = [servo EXCEPT !.pc = "read", !.active = TRUE] /\ UNCHANGED toSession
    <3>1. /\ servo' \in ServoStates /\ servo'.pc = "read" /\ servo'.active = TRUE
          /\ servo'.waiting = servo.waiting /\ servo'.ready = servo.ready
          /\ servo'.target = servo.target /\ servo'.wrote = servo.wrote
          /\ servo'.acks = servo.acks /\ servo'.fault = servo.fault
      BY <2>2, InvTyped DEF ServoStates
    <3>2. ServoInv'
      BY <1>1, <3>1, StartedFresh, InvTyped DEF ServoInv, Loop, Unstarted, Published, HasPending, sessionVars
    <3> QED BY <1>1, <1>2, <1>8, <2>2, <3>1, <3>2, GoesOn, InvTyped DEF StartControl
  <2> QED BY <1>8, <2>1, <2>2 DEF StartControl
<1> QED BY <1>5, <1>6, <1>7, <1>8

\* What holds of the loop's state at each of its places.
LEMMA InLoop ==
  ASSUME Inv, servo.pc \in Loop
  PROVE  /\ servo.waiting => servo.ready
         /\ servo.target = servo.wrote + (IF servo.waiting THEN 1 ELSE 0)
         /\ servo.target <= Published /\ servo.wrote <= servo.target
         /\ servo.wrote <= Published
         /\ servo.acks = servo.wrote /\ ~servo.fault
         /\ servo.pc \notin Over \cup {"unborn"} /\ Running
         /\ servo.pc = "write" => ~servo.expired
  BY InvTyped DEF Inv, ServoInv, Loop, Over, Running, CountsInv

LEMMA ReadOnceStep ==
  ASSUME Inv, UNCHANGED sessionVars, ReadOnce
  PROVE  Sound
<1>1. servo.pc \in Loop /\ servo.pc = "read" /\ UNCHANGED <<toServo, proc, arm>>
  BY DEF ReadOnce, At, Loop
<1>2. Published' = Published
  BY DEF sessionVars, Published, HasPending
<1>3. CASE Raise(servo)
  <2>1. toServo' = toServo /\ Orders' = Orders /\ servo.wrote <= servo.wrote
    BY <1>1, InvTyped DEF Orders
  <2> QED BY <1>1, <1>3, <2>1, InLoop, InvTyped, RaiseStep
<1>4. CASE servo' = Leave(servo) /\ UNCHANGED toSession
  <2>1. /\ servo' \in ServoStates /\ servo'.pc = "release"
        /\ servo'.wrote = servo.wrote /\ servo'.acks = servo.acks
    BY <1>4, LeaveFacts, InvTyped
  <2>2. ServoInv'
    BY <1>1, <2>1, InLoop DEF ServoInv, Loop, Unstarted
  <2> QED BY <1>1, <1>4, <2>1, <2>2, InLoop, InvTyped, GoesOn
<1>5. CASE /\ servo' = [servo EXCEPT !.pc = "drain", !.expired = servo.beat > HeartbeatTimeout]
           /\ UNCHANGED toSession
  <2> DEFINE late == servo.beat > HeartbeatTimeout
  <2>1. late \in BOOLEAN
    OBVIOUS
  <2>2. servo' = [servo EXCEPT !.pc = "drain", !.expired = late]
    BY <1>5
  <2> HIDE DEF late
  <2>3. /\ servo' \in ServoStates /\ servo'.pc = "drain" /\ servo'.active = servo.active
        /\ servo'.waiting = servo.waiting /\ servo'.ready = servo.ready
        /\ servo'.target = servo.target /\ servo'.wrote = servo.wrote
        /\ servo'.acks = servo.acks /\ servo'.fault = servo.fault
    BY <2>1, <2>2, InvTyped DEF ServoStates
  <2>4. ServoInv'
    BY <1>1, <1>2, <2>3, InLoop DEF ServoInv, Loop, Unstarted
  <2> QED BY <1>1, <1>5, <2>3, <2>4, InLoop, InvTyped, GoesOn
<1> QED BY <1>3, <1>4, <1>5 DEF ReadOnce

\* A write of the target, and the reply behind it.
LEMMA WriteOnceStep ==
  ASSUME Inv, UNCHANGED sessionVars, WriteOnce
  PROVE  Sound
<1> DEFINE w == [servo EXCEPT !.wrote = servo.target]
<1>1. /\ servo.pc \in Loop /\ servo.pc = "write" /\ UNCHANGED <<toServo, proc>>
      /\ arm' \in {"rest", "moving"} /\ Orders' = Orders
  BY InvTyped DEF WriteOnce, At, Loop, Orders
<1>2. Published' = Published
  BY DEF sessionVars, Published, HasPending
<1>3. /\ w \in ServoStates /\ w.wrote = servo.target /\ w.pc = servo.pc
      /\ w.active = servo.active /\ w.ready = servo.ready /\ w.waiting = servo.waiting
      /\ w.target = servo.target /\ w.acks = servo.wrote /\ ~w.fault
      /\ servo.target \in Sequences0 /\ servo.target \in Nat
      /\ w.start = servo.start /\ w.beat = servo.beat
  BY <1>1, InLoop, InvTyped DEF ServoStates
<1> HIDE DEF w
<1>4. ASSUME NEW s \in ServoStates, s.wrote \in {servo.wrote, servo.target}, Raise(s)
      PROVE  Sound
  BY <1>1, <1>4, InLoop, InvTyped, RaiseStep
<1>5. ASSUME NEW t \in ServoStates, t.pc = "read", t.wrote = servo.target,
             t.target = servo.target, t.acks = servo.target, t.active = servo.active,
             ~t.waiting, ~t.fault, servo' = t,
             \/ UNCHANGED toSession
             \/ \E p \in ChildPackets : Sends(p) /\ ReplyOK(p)'
      PROVE  Sound
  <2>1. ServoInv'
    BY <1>1, <1>2, <1>3, <1>5, InLoop DEF ServoInv, Loop, Unstarted
  <2> QED BY <1>1, <1>5, <2>1, InLoop, GoesOn
<1>6. ASSUME NEW healthy \in BOOLEAN, AfterWrite(w, healthy)
      PROVE  Sound
  <2>1. CASE ~w.ready /\ healthy
    <3> DEFINE t == [w EXCEPT !.pc = "read", !.ready = TRUE, !.since = 0]
    <3>1. SendOr(Reply("ACTION_READY", 0), t)
      BY <1>6, <2>1 DEF AfterWrite
    <3>2. 0 \in AgesUpTo(TargetLimit) /\ 0 \in Sequences0
      BY Constants DEF AgesUpTo, Sequences0
    <3>3. ~servo.waiting /\ servo.target = servo.wrote
      BY <1>1, <1>3, <2>1, InLoop, InvTyped
    <3>4. /\ t \in ServoStates /\ t.pc = "read" /\ t.wrote = servo.target
          /\ t.target = servo.target /\ t.acks = servo.target /\ t.active = servo.active
          /\ ~t.waiting /\ ~t.fault
      BY <1>3, <3>2, <3>3 DEF ServoStates
    <3> HIDE DEF t
    <3>5. /\ Reply("ACTION_READY", 0) \in ChildPackets
          /\ ReplyOK(Reply("ACTION_READY", 0))'
      BY <3>2, ReplyFacts DEF ReplyOK
    <3> QED BY <1>4, <1>5, <3>1, <3>4, <3>5 DEF SendOr
  <2>2. CASE ~(~w.ready /\ healthy) /\ w.waiting
    <3> DEFINE t == [w EXCEPT !.pc = "read", !.waiting = FALSE,
                              !.acks = IF proc.open THEN @ + 1 ELSE @]
    <3>1. SendOr(Reply("ACK", w.target), t)
      BY <1>6, <2>2 DEF AfterWrite
    <3>2. servo.target = servo.wrote + 1
      BY <1>1, <1>3, <2>2, InLoop
    <3>3. CASE proc.open
      <4>1. t = [w EXCEPT !.pc = "read", !.waiting = FALSE, !.acks = servo.target]
        BY <1>3, <3>2, <3>3
      <4>2. /\ t \in ServoStates /\ t.pc = "read" /\ t.wrote = servo.target
            /\ t.target = servo.target /\ t.acks = servo.target
            /\ t.active = servo.active /\ ~t.waiting /\ ~t.fault
        BY <1>3, <4>1 DEF ServoStates
      <4> HIDE DEF t
      <4>3. servo' = t /\ Sends(Reply("ACK", servo.target))
        BY <1>3, <3>1, <3>3 DEF SendOr
      <4>4. /\ Reply("ACK", servo.target) \in ChildPackets
            /\ ~Reply("ACK", servo.target).verified
            /\ Reply("ACK", servo.target).kind = "ACK"
            /\ Reply("ACK", servo.target).seq = servo.target
        BY <1>3, ReplyFacts
      <4>5. ReplyOK(Reply("ACK", servo.target))'
        BY <1>3, <4>2, <4>3, <4>4 DEF ReplyOK
      <4> QED BY <1>5, <4>2, <4>3, <4>4, <4>5
    <3>4. CASE ~proc.open
      <4>1. t \in ServoStates /\ t.wrote = servo.target
        BY <1>3, <3>4 DEF ServoStates
      <4> HIDE DEF t
      <4> QED BY <1>4, <3>1, <3>4, <4>1 DEF SendOr
    <3> QED BY <3>3, <3>4
  <2>3. CASE ~(~w.ready /\ healthy) /\ ~w.waiting
    <3> DEFINE t == [w EXCEPT !.pc = "read"]
    <3>1. servo' = t /\ UNCHANGED toSession
      BY <1>6, <2>3 DEF AfterWrite
    <3>2. servo.target = servo.wrote
      BY <1>1, <1>3, <2>3, InLoop, InvTyped
    <3>3. /\ t \in ServoStates /\ t.pc = "read" /\ t.wrote = servo.target
          /\ t.target = servo.target /\ t.acks = servo.target /\ t.active = servo.active
          /\ ~t.waiting /\ ~t.fault
      BY <1>3, <2>3, <3>2 DEF ServoStates
    <3> QED BY <1>5, <3>1, <3>3
  <2> QED BY <2>1, <2>2, <2>3
<1>7. CASE Raise(servo)
  BY <1>4, <1>7, InvTyped
<1>8. CASE Raise(w)
  BY <1>3, <1>4, <1>8
<1> QED BY <1>6, <1>7, <1>8 DEF WriteOnce, w

\* What the packets of one drain make of the loop's state: as long as none of them
\* is at fault, at most the next target has been taken.
Drained(s) ==
    /\ s \in ServoStates
    /\ s.pc = servo.pc /\ s.active = servo.active /\ s.expired = servo.expired
    /\ s.wrote = servo.wrote /\ s.acks = servo.acks
    /\ ~s.fault =>
          /\ s.waiting => s.ready
          /\ s.target = s.wrote + (IF s.waiting THEN 1 ELSE 0)
          /\ s.target <= Published

LEMMA AcceptDrains ==
  ASSUME Inv, NEW s, Drained(s), NEW p \in ParentPackets,
         p.kind = "TARGET" => p.seq <= Published
  PROVE  Drained(Accept(s, p))
<1>1. s \in ServoStates /\ p.seq \in Sequences0 /\ s.wrote \in Nat /\ s.target \in Nat
  BY Constants DEF Drained, ParentPackets, ServoStates, Sequences0
<1>2. /\ 0 \in AgesUpTo(HeartbeatTimeout) /\ 0 \in AgesUpTo(TargetLimit)
  BY Constants DEF AgesUpTo
<1>3. CASE s.fault
  BY <1>3 DEF Accept
<1>4. CASE ~s.fault /\ p.exact /\ p.kind = "HEARTBEAT"
  <2>1. Accept(s, p) = [s EXCEPT !.beat = 0]
    BY <1>4 DEF Accept
  <2> QED BY <1>1, <1>2, <2>1 DEF Drained, ServoStates
<1>5. CASE ~s.fault /\ p.exact /\ p.kind = "STOP"
  <2>1. Accept(s, p) = [s EXCEPT !.asked = TRUE]
    BY <1>5 DEF Accept
  <2> QED BY <1>1, <2>1 DEF Drained, ServoStates
<1>6. CASE ~s.fault /\ p.exact /\ p.kind = "TARGET" /\ Admissible(s, p)
  <2>1. Accept(s, p) = [s EXCEPT !.target = p.seq, !.since = 0, !.waiting = TRUE]
    BY <1>6 DEF Accept
  <2>2. /\ s.ready /\ ~s.waiting /\ p.seq = s.target + 1 /\ s.target = s.wrote
        /\ p.seq <= Published
    BY <1>1, <1>6 DEF Admissible, Drained
  <2> DEFINE t == [s EXCEPT !.target = p.seq, !.since = 0, !.waiting = TRUE]
  <2>3. /\ t \in ServoStates /\ t.target = p.seq /\ t.waiting = TRUE /\ t.fault = s.fault
        /\ t.pc = s.pc /\ t.active = s.active /\ t.expired = s.expired
        /\ t.wrote = s.wrote /\ t.acks = s.acks /\ t.ready = s.ready
    BY <1>1, <1>2 DEF ServoStates
  <2> HIDE DEF t
  <2>4. Drained(t)
    BY <1>1, <2>2, <2>3 DEF Drained
  <2> QED BY <2>1, <2>4 DEF t
<1>7. CASE /\ ~s.fault /\ ~(p.exact /\ p.kind = "HEARTBEAT")
           /\ ~(p.exact /\ p.kind = "STOP")
           /\ ~(p.exact /\ p.kind = "TARGET" /\ Admissible(s, p))
  <2>1. Accept(s, p) = [s EXCEPT !.fault = TRUE]
    BY <1>7 DEF Accept
  <2> QED BY <1>1, <2>1 DEF Drained, ServoStates
<1> QED BY <1>3, <1>4, <1>5, <1>6, <1>7

\* By the least place of the queue at which it would not hold.
LEMMA AcceptedDrains ==
  ASSUME Inv, servo.pc = "drain"
  PROVE  \A n \in 0 .. PacketsPerCycle : n <= Len(toServo) => Drained(Accepted[n])
<1> DEFINE bad == {n \in 0 .. PacketsPerCycle : n <= Len(toServo) /\ ~Drained(Accepted[n])}
<1>1. SUFFICES ASSUME bad # {} PROVE FALSE
  OBVIOUS
<1>2. PacketsPerCycle \in Nat /\ bad \subseteq Nat
  BY Constants
<1>3. PICK n \in bad : \A k \in bad : n <= k
  <2> HIDE DEF bad
  <2> QED BY <1>1, <1>2, LeastElement
<1>4. /\ n \in 0 .. PacketsPerCycle /\ n \in Nat /\ n <= Len(toServo)
      /\ ~Drained(Accepted[n])
  BY <1>2, <1>3
<1>5. Accepted[n] = IF n = 0 THEN servo ELSE Accept(Accepted[n - 1], toServo[n])
  BY <1>4, AcceptedUnfolds
<1>6. CASE n = 0
  <2>1. servo.pc \in Loop
    BY DEF Loop
  <2>2. Drained(servo)
    BY <2>1, InLoop, InvTyped DEF Drained
  <2> QED BY <1>4, <1>5, <1>6, <2>2
<1>7. CASE n # 0
  <2>1. n - 1 \in 0 .. PacketsPerCycle /\ n - 1 <= Len(toServo) /\ n - 1 \notin bad
    BY <1>2, <1>3, <1>4, <1>7, InvTyped
  <2>2. Drained(Accepted[n - 1])
    BY <2>1
  <2>3. n \in DOMAIN toServo /\ toServo[n] \in ParentPackets
    BY <1>4, <1>7, InvTyped, LenProperties, ElementOfSeq
  <2>4. toServo[n] \in Orders
    BY <2>3 DEF Orders
  <2>5. toServo[n].kind = "TARGET" => toServo[n].seq <= Published
    BY <2>4 DEF Inv, PacketsInv
  <2> QED BY <1>4, <1>5, <1>7, <2>2, <2>3, <2>5, AcceptDrains
<1> QED BY <1>6, <1>7

LEMMA DrainCriticalStep ==
  ASSUME Inv, UNCHANGED sessionVars, DrainCritical
  PROVE  Sound
<1> DEFINE limit == IF proc.servoReset THEN 0 ELSE Min({Len(toServo), PacketsPerCycle})
           count == Min({limit} \cup {n \in 0 .. limit : Accepted[n].fault})
           s == Accepted[count]
           cut == ~proc.open /\ count < PacketsPerCycle
<1>1. /\ servo.pc = "drain" /\ UNCHANGED <<proc, arm>>
      /\ toServo' = SubSeq(toServo, count + 1, Len(toServo))
      /\ \/ Raise([s EXCEPT !.asked = FALSE])
         \/ /\ ~s.fault /\ ~cut
            /\ s.asked \/ ~WatchdogFires(s)
            /\ servo' = IF s.asked THEN Leave(s) ELSE [s EXCEPT !.pc = "write"]
            /\ UNCHANGED toSession
  BY DEF DrainCritical, At
<1>2. limit \in Nat /\ limit <= Len(toServo) /\ limit <= PacketsPerCycle
  <2>1. {Len(toServo), PacketsPerCycle} \subseteq Nat /\ PacketsPerCycle \in Nat
    BY InvTyped, Constants
  <2>2. /\ Min({Len(toServo), PacketsPerCycle}) \in Nat
        /\ Min({Len(toServo), PacketsPerCycle}) <= Len(toServo)
        /\ Min({Len(toServo), PacketsPerCycle}) <= PacketsPerCycle
    BY <2>1, MinIsLeast
  <2> QED BY <2>1, <2>2, InvTyped
<1> HIDE DEF limit
<1>3. count \in 0 .. limit
  <2> DEFINE T == {limit} \cup {n \in 0 .. limit : Accepted[n].fault}
  <2>1. T \subseteq 0 .. limit /\ T \subseteq Nat /\ T # {}
    BY <1>2
  <2> HIDE DEF T
  <2>2. Min(T) \in T
    BY <2>1, MinIsLeast
  <2> QED BY <2>1, <2>2 DEF T
<1> HIDE DEF count
<1>4. count \in 0 .. PacketsPerCycle /\ count <= Len(toServo) /\ count \in 0 .. Len(toServo)
  BY <1>2, <1>3, InvTyped, Constants
<1>5. Drained(s)
  BY <1>1, <1>4, AcceptedDrains
<1> HIDE DEF s, cut
<1>6. /\ toServo' \in Seq(ParentPackets) /\ Len(toServo') <= Capacity
      /\ Orders' \subseteq Orders
  <2>1. /\ SubSeq(toServo, count + 1, Len(toServo)) \in Seq(ParentPackets)
        /\ Len(SubSeq(toServo, count + 1, Len(toServo))) <= Len(toServo)
        /\ {SubSeq(toServo, count + 1, Len(toServo))[i] :
               i \in DOMAIN SubSeq(toServo, count + 1, Len(toServo))} \subseteq Orders
    BY <1>4, RestMembers, InvTyped DEF Orders
  <2>2. Len(SubSeq(toServo, count + 1, Len(toServo))) \in Nat
    BY <2>1, LenProperties
  <2>3. Len(SubSeq(toServo, count + 1, Len(toServo))) <= Capacity
    BY <2>1, <2>2, InvTyped, Constants
  <2> QED BY <1>1, <2>1, <2>3 DEF Orders
<1>7. /\ servo.pc \in Loop /\ servo.pc \notin Over \cup {"unborn"} /\ Running
      /\ s \in ServoStates /\ s.wrote = servo.wrote /\ s.active = servo.active
      /\ s.pc = "drain" /\ servo.wrote <= Published /\ s.acks = servo.wrote
  BY <1>1, <1>5, InLoop DEF Drained, Loop
<1>8. Published' = Published
  BY DEF sessionVars, Published, HasPending
<1>9. CASE Raise([s EXCEPT !.asked = FALSE])
  <2> DEFINE t == [s EXCEPT !.asked = FALSE]
  <2>1. t \in ServoStates /\ t.wrote = servo.wrote /\ Raise(t)
    BY <1>7, <1>9 DEF ServoStates
  <2> HIDE DEF t
  <2>2. servo.wrote <= t.wrote /\ t.wrote <= Published /\ arm' \in {"rest", "moving"}
    BY <1>1, <1>7, <2>1, InvTyped
  <2>3. proc' = proc
    BY <1>1
  <2> QED BY <1>6, <1>7, <2>1, <2>2, <2>3, RaiseStep
<1>10. ASSUME ~s.fault, s.asked \/ ~WatchdogFires(s),
              servo' = IF s.asked THEN Leave(s) ELSE [s EXCEPT !.pc = "write"],
              UNCHANGED toSession
       PROVE  Sound
  <2>1. /\ s.waiting => s.ready
        /\ s.target = s.wrote + (IF s.waiting THEN 1 ELSE 0)
        /\ s.target <= Published
    BY <1>5, <1>10 DEF Drained
  <2>2. servo' \in ServoStates /\ servo'.wrote = servo.wrote /\ ServoInv'
    <3>1. CASE s.asked
      <4>1. /\ servo' \in ServoStates /\ servo'.pc = "release"
            /\ servo'.wrote = servo.wrote /\ servo'.acks = servo.wrote
        BY <1>7, <1>10, <3>1, LeaveFacts
      <4> QED BY <4>1 DEF ServoInv, Loop, Unstarted
    <3>2. CASE ~s.asked
      <4>1. servo' = [s EXCEPT !.pc = "write"] /\ ~s.expired
        BY <1>10, <3>2 DEF WatchdogFires
      <4>2. /\ servo' \in ServoStates /\ servo'.pc = "write"
            /\ servo'.wrote = servo.wrote /\ servo'.acks = servo.wrote
            /\ servo'.waiting = s.waiting /\ servo'.ready = s.ready
            /\ servo'.target = s.target /\ ~servo'.fault /\ ~servo'.expired
        BY <1>7, <1>10, <4>1 DEF ServoStates
      <4> QED BY <1>7, <1>8, <2>1, <4>2 DEF ServoInv, Loop, Unstarted
    <3> QED BY <3>1, <3>2
  <2>3. LinkTypeOK' /\ ServoTypeOK'
    BY <1>1, <1>6, <1>10, <2>2, InvTyped DEF LinkTypeOK, ServoTypeOK
  <2>4. InSession' = InSession /\ sess.pc # "launch"
    BY <1>7, <1>10 DEF InSession, Inv, LaunchInv
  <2> QED BY <1>1, <1>6, <1>7, <2>2, <2>3, <2>4, InvTyped, ServoSide
<1> QED BY <1>1, <1>9, <1>10

(* the end of the servo ---------------------------------------------------------- *)

LEMMA ReleaseRobotStep ==
  ASSUME Inv, UNCHANGED sessionVars, ReleaseRobot
  PROVE  Sound
<1>1. /\ servo.pc = "release" /\ UNCHANGED <<toServo, toSession, arm>>
      /\ servo' = [servo EXCEPT !.pc = "verify", !.active = FALSE,
                                !.stopped = servo.active]
      /\ proc' = [proc EXCEPT !.term = FALSE]
  BY DEF ReleaseRobot, At
<1>2. /\ servo' \in ServoStates /\ servo'.pc = "verify" /\ ~servo'.active
      /\ servo'.wrote = servo.wrote /\ servo'.acks = servo.acks
      /\ servo'.fault = servo.fault
  BY <1>1, InvTyped DEF ServoStates
<1>3. proc' \in ProcessPairs /\ proc'.servo = proc.servo
  BY <1>1, InvTyped DEF ProcessPairs
<1>4. ServoInv'
  BY <1>1, <1>2 DEF Inv, ServoInv, Loop, Unstarted
<1>5. LinkTypeOK' /\ ServoTypeOK'
  BY <1>1, <1>2, <1>3, InvTyped DEF LinkTypeOK, ServoTypeOK
<1>6. /\ servo.pc \notin Over /\ ~Running' /\ sess.pc # "launch"
      /\ InSession' = InSession /\ Orders' = Orders
      /\ servo.wrote <= Published /\ servo.wrote <= servo.wrote
  BY <1>1, <1>2, InvTyped DEF Over, Running, Inv, LaunchInv, CountsInv, InSession, Orders
<1> QED BY <1>2, <1>4, <1>5, <1>6, ServoSide

LEMMA ChildEndClosedTyped ==
  ASSUME proc \in ProcessPairs
  PROVE  /\ ChildEndClosed(proc) \in ProcessPairs
         /\ ChildEndClosed(proc).servo = proc.servo /\ ChildEndClosed(proc).term = proc.term
<1> DEFINE reset == proc.parentReset \/ (proc.open /\ toServo # <<>>)
<1>1. reset \in BOOLEAN
  OBVIOUS
<1>2. ChildEndClosed(proc) = [proc EXCEPT !.closed = TRUE, !.parentReset = reset]
  BY DEF ChildEndClosed
<1> HIDE DEF reset
<1> QED BY <1>1, <1>2 DEF ProcessPairs

\* The proof claims a stop only of an arm at rest, and accounts for every write.
LEMMA ProveStopStep ==
  ASSUME Inv, UNCHANGED sessionVars, ProveStop
  PROVE  Sound
<1>1. /\ servo.pc = "verify" /\ arm' \in {arm, "rest"} /\ toServo' = <<>>
      /\ proc' = ChildEndClosed(proc)
  BY DEF ProveStop, At
<1>2. PICK idle \in IdleVerdicts(arm') :
        /\ servo' = [servo EXCEPT !.pc = "exit", !.acks = 0, !.stopped = FALSE,
                        !.asked = FALSE, !.fault = FALSE,
                        !.clean = idle /\ servo.stopped /\ ~servo.fault]
        /\ Sends([Reply("STOP_PROOF", servo.acks) EXCEPT
                     !.fault = servo.fault, !.asked = servo.asked,
                     !.verified = idle /\ servo.stopped])
  BY DEF ProveStop
<1>3. /\ idle \in BOOLEAN /\ servo.stopped \in BOOLEAN /\ servo.fault \in BOOLEAN
      /\ servo.asked \in BOOLEAN
  BY InvTyped DEF IdleVerdicts, ServoStates
<1>4. PICK clean \in BOOLEAN, verified \in BOOLEAN :
        /\ clean = (idle /\ servo.stopped /\ ~servo.fault)
        /\ verified = (idle /\ servo.stopped)
  OBVIOUS
<1>5. 0 \in Sequences0 /\ servo.acks \in Sequences0
  BY Constants, InvTyped DEF Sequences0, ServoStates
<1>6. /\ servo' \in ServoStates /\ servo'.pc = "exit" /\ servo'.wrote = servo.wrote
      /\ servo'.active = servo.active
  <2>1. servo' = [servo EXCEPT !.pc = "exit", !.acks = 0, !.stopped = FALSE,
                      !.asked = FALSE, !.fault = FALSE, !.clean = clean]
    BY <1>2, <1>4
  <2> QED BY <2>1, <1>5, InvTyped DEF ServoStates
<1>7. PICK proof \in ChildPackets :
        /\ proof.kind = "STOP_PROOF" /\ proof.seq = servo.acks
        /\ proof.fault = servo.fault /\ proof.verified = verified
        /\ Sends(proof)
  <2> DEFINE p == [Reply("STOP_PROOF", servo.acks) EXCEPT
                        !.fault = servo.fault, !.asked = servo.asked,
                        !.verified = verified]
  <2>1. Sends(p)
    BY <1>2, <1>4
  <2>2. /\ p \in ChildPackets /\ p.kind = "STOP_PROOF" /\ p.seq = servo.acks
        /\ p.fault = servo.fault /\ p.verified = verified
    BY <1>3, <1>5 DEF Reply, ChildPackets
  <2> HIDE DEF p
  <2> QED BY <2>1, <2>2
<1>8. ~servo.active /\ (~servo.fault => servo.acks = servo.wrote)
  BY <1>1 DEF Inv, ServoInv, Loop
<1>9. ReplyOK(proof)'
  <2>1. verified => arm' = "rest"
    BY <1>4 DEF IdleVerdicts
  <2>2. servo'.pc \in Over
    BY <1>6 DEF Over
  <2>3. ~proof.fault => proof.seq = servo'.wrote
    BY <1>6, <1>7, <1>8
  <2> QED BY <1>7, <2>1, <2>2, <2>3 DEF ReplyOK
<1>10. /\ toSession' \in Seq(ChildPackets)
       /\ \A q \in InSession' : q \in InSession \/ ReplyOK(q)'
  <2>1. /\ toSession' \in Seq(ChildPackets)
        /\ \A q \in InSession' : q \in InSession \/ q = proof
    BY <1>7, SendsFacts, InvTyped
  <2> QED BY <1>9, <2>1
<1>11. ServoInv'
  BY <1>6, <1>8 DEF ServoInv, Loop, Unstarted
<1>12. /\ toServo' \in Seq(ParentPackets) /\ Len(toServo') <= Capacity
       /\ Orders' \subseteq Orders
  BY <1>1, NothingSent, Constants DEF Orders
<1>13. proc' \in ProcessPairs /\ arm' \in {"rest", "moving"}
  BY <1>1, ChildEndClosedTyped, InvTyped
<1>14. LinkTypeOK' /\ ServoTypeOK'
  BY <1>6, <1>10, <1>12, <1>13 DEF LinkTypeOK, ServoTypeOK
<1>15. /\ servo.pc \notin Over /\ ~Running' /\ sess.pc # "launch"
       /\ servo.wrote <= Published /\ servo.wrote <= servo.wrote
  BY <1>1, <1>6, InvTyped DEF Over, Running, Inv, LaunchInv, CountsInv
<1> QED BY <1>6, <1>10, <1>11, <1>12, <1>14, <1>15, ServoSide

LEMMA ExitServoStep ==
  ASSUME Inv, UNCHANGED sessionVars, ExitServo
  PROVE  Sound
<1>1. /\ servo.pc = "exit" /\ UNCHANGED <<toServo, toSession, arm>>
      /\ servo' = [servo EXCEPT !.pc = "gone", !.clean = FALSE]
      /\ \E exit \in {"zero", "nonzero"} :
            proc' = [proc EXCEPT !.servo = FALSE, !.exit = exit]
  BY DEF ExitServo, At
<1>2. /\ servo' \in ServoStates /\ servo'.pc = "gone" /\ servo'.wrote = servo.wrote
      /\ servo'.active = servo.active
  BY <1>1, InvTyped DEF ServoStates
<1>3. proc' \in ProcessPairs
  BY <1>1, InvTyped DEF ProcessPairs
<1>4. ServoInv'
  BY <1>1, <1>2 DEF Inv, ServoInv, Loop, Unstarted
<1>5. LinkTypeOK' /\ ServoTypeOK'
  BY <1>1, <1>2, <1>3, InvTyped DEF LinkTypeOK, ServoTypeOK
<1>6. /\ servo'.pc \in Over /\ ~Running' /\ sess.pc # "launch"
      /\ InSession' = InSession /\ Orders' = Orders
      /\ servo.wrote <= Published /\ servo.wrote <= servo.wrote
  BY <1>1, <1>2, InvTyped DEF Over, Running, Inv, LaunchInv, CountsInv, InSession, Orders
<1> QED BY <1>1, <1>2, <1>4, <1>5, <1>6, ServoSide

LEMMA ServoDiesStep ==
  ASSUME Inv, UNCHANGED sessionVars, ServoDies
  PROVE  Sound
<1>1. /\ proc.servo /\ UNCHANGED <<toSession, arm>> /\ toServo' = <<>>
      /\ servo' = [ServoStart EXCEPT !.pc = "gone", !.wrote = servo.wrote]
      /\ proc' = [ChildEndClosed(proc) EXCEPT !.servo = FALSE, !.term = FALSE,
                                              !.exit = "nonzero"]
  BY DEF ServoDies
<1>2. /\ 0 \in AgesUpTo(SessionDuration) /\ 0 \in AgesUpTo(HeartbeatTimeout)
      /\ 0 \in AgesUpTo(TargetLimit) /\ 0 \in Sequences0 /\ servo.wrote \in Sequences0
  BY Constants, InvTyped DEF AgesUpTo, Sequences0, ServoStates
<1>3. ServoStart \in ServoStates /\ ~ServoStart.active
  BY <1>2 DEF ServoStart, ServoStates
<1>4. /\ servo' \in ServoStates /\ servo'.pc = "gone" /\ servo'.wrote = servo.wrote
      /\ servo'.active = ServoStart.active
  BY <1>1, <1>2, <1>3 DEF ServoStates
<1>5. proc' \in ProcessPairs
  BY <1>1, ChildEndClosedTyped, InvTyped DEF ProcessPairs
<1>6. ServoInv'
  BY <1>3, <1>4 DEF ServoInv, Loop, Unstarted
<1>7. /\ toServo' \in Seq(ParentPackets) /\ Len(toServo') <= Capacity
      /\ Orders' \subseteq Orders
  BY <1>1, NothingSent, Constants DEF Orders
<1>8. LinkTypeOK' /\ ServoTypeOK'
  BY <1>1, <1>4, <1>5, <1>7, InvTyped DEF LinkTypeOK, ServoTypeOK
<1>9. /\ servo'.pc \in Over /\ ~Running' /\ sess.pc # "launch"
      /\ InSession' = InSession
      /\ servo.wrote <= Published /\ servo.wrote <= servo.wrote
  BY <1>1, <1>4, InvTyped DEF Over, Running, Inv, LaunchInv, CountsInv, InSession
<1> QED BY <1>1, <1>4, <1>6, <1>7, <1>8, <1>9, ServoSide

LEMMA ServoStepInv ==
  ASSUME Inv, UNCHANGED sessionVars, ServoStep \/ ServoDies
  PROVE  Sound
  BY StartUpStep, ReadOnceStep, DrainCriticalStep, WriteOnceStep, ReleaseRobotStep,
     ProveStopStep, ExitServoStep, ServoDiesStep DEF ServoStep

LEMMA InitInv ==
  ASSUME Init
  PROVE  Inv
<1>1. /\ toServo = <<>> /\ toSession = <<>> /\ servo = ServoStart /\ arm = "rest"
      /\ sess = NewSession /\ main = "idle" /\ ledger = NewLedger
      /\ proc = [parent |-> TRUE, open |-> TRUE, servo |-> FALSE, closed |-> FALSE,
                 term |-> FALSE, exit |-> "none",
                 parentReset |-> FALSE, servoReset |-> FALSE]
  BY DEF Init, LinkInit, ServoInit, SessionInit
<1>2. /\ 0 \in AgesUpTo(SessionDuration) /\ 0 \in AgesUpTo(HeartbeatTimeout)
      /\ 0 \in AgesUpTo(TargetLimit) /\ 0 \in Sequences0 /\ 0 \in 0 .. HeartbeatInterval
  BY Constants DEF AgesUpTo, Sequences0
<1>3. NoProof \in ChildPackets /\ ~NoProof.verified /\ NoProof.kind = "HELLO"
  BY <1>2, ReplyFacts DEF NoProof
<1>4. Orders = {} /\ InSession = {} /\ Replies = {NoProof}
  <2>1. Orders = {} /\ InSession = {}
    BY <1>1, NothingSent DEF Orders, InSession
  <2>2. sess.proof = NoProof
    BY <1>1 DEF NewSession
  <2> QED BY <2>1, <2>2 DEF Replies
<1>5. LinkTypeOK
  <2>1. proc \in ProcessPairs
    BY <1>1 DEF ProcessPairs
  <2>2. /\ toServo \in Seq(ParentPackets) /\ Len(toServo) <= Capacity
        /\ toSession \in Seq(ChildPackets)
    BY <1>1, NothingSent, Constants
  <2> QED BY <2>1, <2>2 DEF LinkTypeOK
<1>6. ServoTypeOK
  BY <1>1, <1>2 DEF ServoTypeOK, ServoStates, ServoStart
<1>7. SessionTypeOK
  <2>1. NewSession \in SessionStates
    BY <1>2, <1>3 DEF NewSession, SessionStates
  <2> QED BY <1>1, <2>1, NewLedgerTyped DEF SessionTypeOK, MainPcs
<1>8. LaunchInv
  BY <1>1 DEF LaunchInv, NewSession, ServoStart
<1>9. LedgerInv /\ Published = 0 /\ Acked = 0
  BY <1>1 DEF LedgerInv, Linked, HasPending, NewLedger, NoCommand, Consumers, Published, Acked
<1>10. ServoInv
  <2>1. servo.pc = "unborn" /\ ~servo.active
    BY <1>1 DEF ServoStart
  <2>2. servo = [ServoStart EXCEPT !.pc = servo.pc]
    BY <1>1 DEF ServoStart
  <2> QED BY <2>1, <2>2 DEF ServoInv, Loop
<1>11. PacketsInv
  BY <1>3, <1>4 DEF PacketsInv, ReplyOK
<1>12. SessionInv
  BY <1>1, <1>9 DEF SessionInv, NewSession
<1>13. CountsInv
  BY <1>1, <1>9 DEF CountsInv, ServoStart
<1>14. StopIsHeard
  BY <1>1 DEF StopIsHeard, NewSession
<1> QED BY <1>5, <1>6, <1>7, <1>8, <1>9, <1>10, <1>11, <1>12, <1>13, <1>14 DEF Inv, NativeTypeOK

\* Time passes for both processes; nothing that is counted moves.
LEMMA ClockStep ==
  ASSUME Inv, Clock
  PROVE  Sound
<1>1. /\ servo' = OlderServo /\ ledger' = OlderLedger
      /\ sess' = [sess EXCEPT !.due = IF @ = 0 THEN 0 ELSE @ - 1]
      /\ toServo' = OlderPackets(toServo)
      /\ UNCHANGED <<toSession, proc, arm, main>>
  BY DEF Clock
<1>2. Quiet
  BY <1>1, InvTyped, OlderIsQuiet DEF Inv
<1>3. /\ servo' \in ServoStates /\ servo'.pc = servo.pc /\ servo'.active = servo.active
      /\ servo'.ready = servo.ready /\ servo'.target = servo.target
      /\ servo'.waiting = servo.waiting /\ servo'.expired = servo.expired
      /\ servo'.wrote = servo.wrote /\ servo'.acks = servo.acks
      /\ servo'.fault = servo.fault /\ (servo.pc \in Unstarted => servo' = servo)
  <2>1. CASE servo.pc \notin {"read", "drain", "write"}
    BY <1>1, <2>1, InvTyped DEF OlderServo
  <2>2. CASE servo.pc \in {"read", "drain", "write"}
    <3>1. /\ Older(servo.start, SessionDuration) \in AgesUpTo(SessionDuration)
          /\ Older(servo.beat, HeartbeatTimeout) \in AgesUpTo(HeartbeatTimeout)
          /\ Older(servo.since, TargetLimit) \in AgesUpTo(TargetLimit)
          /\ servo.since \in AgesUpTo(TargetLimit)
      BY OlderTyped, InvTyped, Constants DEF ServoStates
    <3>2. PICK start \in AgesUpTo(SessionDuration), beat \in AgesUpTo(HeartbeatTimeout),
               since \in AgesUpTo(TargetLimit) :
            servo' = [servo EXCEPT !.start = start, !.beat = beat, !.since = since]
      <4>1. servo' = [servo EXCEPT
                !.start = Older(servo.start, SessionDuration),
                !.beat = Older(servo.beat, HeartbeatTimeout),
                !.since = IF servo.ready THEN Older(servo.since, TargetLimit)
                                         ELSE servo.since]
        BY <1>1, <2>2 DEF OlderServo
      <4> QED BY <3>1, <4>1
    <3> QED BY <2>2, <3>2, InvTyped DEF ServoStates, Unstarted
  <2> QED BY <2>1, <2>2
<1>4. /\ sess' \in SessionStates /\ sess'.pc = sess.pc /\ sess'.sent = sess.sent
      /\ sess'.pending = sess.pending /\ sess'.acked = sess.acked
      /\ sess'.proof = sess.proof /\ sess'.result = sess.result
      /\ sess'.stopSent = sess.stopSent /\ sess'.encoded = sess.encoded
  <2>1. PICK due \in 0 .. HeartbeatInterval : sess' = [sess EXCEPT !.due = due]
    <3>1. sess.due \in 0 .. HeartbeatInterval /\ HeartbeatInterval \in Nat
      BY InvTyped, Constants DEF SessionStates
    <3>2. (IF sess.due = 0 THEN 0 ELSE sess.due - 1) \in 0 .. HeartbeatInterval
      BY <3>1
    <3>3. sess' = [sess EXCEPT !.due = IF sess.due = 0 THEN 0 ELSE sess.due - 1]
      BY <1>1
    <3> QED BY <3>2, <3>3
  <2> QED BY <2>1, InvTyped DEF SessionStates
<1>5. /\ toServo' \in Seq(ParentPackets) /\ Len(toServo') <= Capacity
      /\ \A p \in Orders' : \E o \in Orders : p.kind = o.kind /\ p.seq = o.seq
  BY <1>1, OlderPacketsKeep, InvTyped DEF Orders
<1>6. NativeTypeOK'
  BY <1>1, <1>2, <1>3, <1>4, <1>5, InvTyped
     DEF NativeTypeOK, LinkTypeOK, ServoTypeOK, SessionTypeOK, Quiet
<1>7. LaunchInv'
  BY <1>1, <1>3, <1>4 DEF Inv, LaunchInv
<1>8. Published' = Published /\ Acked' = Acked /\ LedgerInv'
  BY <1>2 DEF Quiet
<1>9. ServoInv'
  BY <1>3, <1>8 DEF Inv, ServoInv
<1>10. PacketsInv'
  <2>1. ASSUME NEW p \in Orders', p.kind = "TARGET"
        PROVE  p.seq <= Published'
    BY <1>5, <1>8, <2>1 DEF Inv, PacketsInv
  <2>2. ASSUME NEW p \in Replies'
        PROVE  ReplyOK(p)'
    <3>1. p \in Replies
      BY <1>1, <1>4 DEF Replies, InSession
    <3> QED BY <1>1, <1>3, <3>1 DEF Inv, PacketsInv, ReplyOK
  <2> QED BY <2>1, <2>2 DEF PacketsInv
<1>11. SessionInv'
  BY <1>3, <1>4, <1>8 DEF Inv, SessionInv
<1>12. CountsInv'
  BY <1>3, <1>8 DEF Inv, CountsInv
<1>13. StopIsHeard'
  BY <1>1, <1>3, <1>4 DEF Inv, StopIsHeard, Running
<1>14. Inv'
  BY <1>6, <1>7, <1>8, <1>9, <1>10, <1>11, <1>12, <1>13 DEF Inv
<1> QED BY <1>3, <1>4, <1>8, <1>14, UnmovedIsSound

(* the steps of the session thread ------------------------------------------------ *)

LEMMA TerminatedFacts ==
  ASSUME proc \in ProcessPairs, NEW reset \in BOOLEAN
  PROVE  /\ Terminated(proc) \in ProcessPairs
         /\ [Terminated(proc) EXCEPT !.parentReset = reset] \in ProcessPairs
         /\ [Terminated(proc) EXCEPT !.parentReset = reset].servo = proc.servo
         /\ Terminated(proc).servo = proc.servo
         /\ (proc.term \/ Running) =>
               /\ Terminated(proc).term
               /\ [Terminated(proc) EXCEPT !.parentReset = reset].term
<1>1. PICK term \in BOOLEAN : term = (proc.term \/ Running)
  OBVIOUS
<1>2. Terminated(proc) = [proc EXCEPT !.term = term]
  BY <1>1 DEF Terminated
<1>3. [proc EXCEPT !.term = term] \in ProcessPairs
  BY DEF ProcessPairs
<1>4. /\ [Terminated(proc) EXCEPT !.parentReset = reset]
            = [proc EXCEPT !.term = term, !.parentReset = reset]
      /\ [proc EXCEPT !.term = term, !.parentReset = reset] \in ProcessPairs
  BY <1>2 DEF ProcessPairs
<1>5. Terminated(proc).servo = proc.servo /\ Terminated(proc).term = term
  BY <1>2 DEF ProcessPairs
<1>6. /\ [Terminated(proc) EXCEPT !.parentReset = reset].servo = proc.servo
      /\ [Terminated(proc) EXCEPT !.parentReset = reset].term = term
  BY <1>4 DEF ProcessPairs
<1> QED BY <1>1, <1>2, <1>3, <1>4, <1>5, <1>6

LEMMA PacketFacts ==
  ASSUME NEW kind \in {"ARM", "HEARTBEAT", "STOP"}, NEW exact \in BOOLEAN
  PROVE  /\ Packet(kind, exact) \in ParentPackets
         /\ Packet(kind, exact).kind = kind
<1>1. 0 \in Sequences0 /\ 0 \in AgesUpTo(TargetMaxAge)
  BY Constants DEF Sequences0, AgesUpTo
<1> QED BY <1>1 DEF Packet, ParentPackets

LEMMA QueuedFacts ==
  ASSUME Inv, NEW p \in ParentPackets, Queued(p)
  PROVE  /\ toServo' \in Seq(ParentPackets) /\ Len(toServo') <= Capacity
         /\ proc' = proc
         /\ \A q \in Orders' : q \in Orders \/ q = p
<1>1. toServo' = Append(toServo, p) /\ proc' = proc /\ ~(Len(toServo) >= Capacity)
  BY DEF Queued, Full
<1>2. /\ Append(toServo, p) \in Seq(ParentPackets)
      /\ Len(Append(toServo, p)) = Len(toServo) + 1
      /\ \A q \in {Append(toServo, p)[i] : i \in DOMAIN Append(toServo, p)} :
            q = p \/ q \in Orders
  BY AppendMembers, InvTyped DEF Orders
<1>3. Len(toServo) + 1 <= Capacity
  BY <1>1, InvTyped, Constants
<1> QED BY <1>1, <1>2, <1>3 DEF Orders

\* The session thread goes on from s to t, and claims STOP only to send it next.
Turn(s, t) ==
    /\ Kept(s, t)
    /\ t.pc \notin {"launch", "acked"}
    /\ t.stopSent => s.stopSent \/ t.pc \in {"stop", "last_stop"}

\* A turn of the session thread that moves no counter.
LEMMA TurnStep ==
  ASSUME Inv, UNCHANGED servoVars, main' = main, Quiet,
         NEW s, Received(s), Turn(s, sess'),
         sess.pc \notin {"launch", "acked", "done", "stop", "last_stop"},
         proc' \in ProcessPairs, proc.term => proc'.term,
         \/ toServo' = toServo
         \/ \E p \in ParentPackets : p.kind # "TARGET" /\ Queued(p),
         \/ toSession' = toSession
         \/ toSession # <<>> /\ toSession' = Tail(toSession)
  PROVE  Sound
<1>1. /\ toServo' \in Seq(ParentPackets) /\ Len(toServo') <= Capacity
      /\ \A q \in Orders' : q \in Orders \/ q.kind # "TARGET"
  <2>1. CASE toServo' = toServo
    BY <2>1, InvTyped DEF Orders
  <2>2. ASSUME NEW p \in ParentPackets, p.kind # "TARGET", Queued(p)
        PROVE  /\ toServo' \in Seq(ParentPackets) /\ Len(toServo') <= Capacity
               /\ \A q \in Orders' : q \in Orders \/ q.kind # "TARGET"
    BY <2>2, QueuedFacts
  <2> QED BY <2>1, <2>2
<1>2. toSession' \in Seq(ChildPackets) /\ InSession' \subseteq InSession
  <2>1. CASE toSession' = toSession
    BY <2>1, InvTyped DEF InSession
  <2>2. CASE toSession # <<>> /\ toSession' = Tail(toSession)
    BY <2>2, TailMembers, InvTyped DEF InSession
  <2> QED BY <2>1, <2>2
<1>3. LinkTypeOK'
  BY <1>1, <1>2 DEF LinkTypeOK
<1>4. Kept(s, sess') /\ main' \in MainPcs
  BY InvTyped DEF Turn
<1>5. sess'.pc # "acked" /\ sess'.pc # "launch"
  BY DEF Turn
<1>6. Claimed' => Claimed
  <2>1. s.stopSent = sess.stopSent
    BY InvTyped DEF Received, SessionStates
  <2> QED BY <2>1 DEF Claimed, Turn
<1> QED BY <1>1, <1>2, <1>3, <1>4, <1>5, <1>6, QuietSession

\* The ways of a turn.
LEMMA TurnFacts ==
  ASSUME NEW s \in SessionStates
  PROVE  /\ Turn(s, Finally(s))
         /\ Turn(s, Finally(Latched(s)))
         /\ Turn(s, Finally(Latched(Failed(s))))
         /\ \A pc \in {"head", "receive", "silent", "drain", "drain_silent", "join"} :
               /\ Turn(s, [s EXCEPT !.pc = pc])
               /\ Turn(s, [Failed(s) EXCEPT !.pc = pc])
<1>1. ASSUME NEW t \in SessionStates, Kept(s, t), t.stopSent = s.stopSent
      PROVE  Turn(s, Finally(t))
  <2>1. Kept(s, Finally(t))
    BY <1>1, FinallyKept, KeptTwice
  <2> QED BY <1>1, <2>1, FinallyKept DEF Turn
<1>2. /\ Latched(s) \in SessionStates /\ Failed(s) \in SessionStates
      /\ Kept(s, s) /\ Kept(s, Latched(s)) /\ Kept(s, Failed(s))
      /\ Latched(s).stopSent = s.stopSent /\ Failed(s).stopSent = s.stopSent
  BY FlagsKept DEF Kept
<1>3. /\ Latched(Failed(s)) \in SessionStates
      /\ Kept(Failed(s), Latched(Failed(s)))
      /\ Latched(Failed(s)).stopSent = s.stopSent
  BY <1>2, FlagsKept DEF Kept
<1>4. Kept(s, Latched(Failed(s)))
  BY <1>2, <1>3, KeptTwice
<1>5. ASSUME NEW pc \in {"head", "receive", "silent", "drain", "drain_silent", "join"},
             NEW t \in SessionStates, Kept(s, t), t.stopSent = s.stopSent
      PROVE  Turn(s, [t EXCEPT !.pc = pc])
  BY <1>5 DEF Turn, Kept, SessionStates
<1> QED BY <1>1, <1>2, <1>3, <1>4, <1>5

\* An exception of the loop.
LEMMA ThrowStep ==
  ASSUME Inv, UNCHANGED servoVars, main' = main,
         sess.pc \notin {"launch", "acked", "done", "stop", "last_stop"},
         Throw(sess) \/ Throw(Failed(sess)),
         proc' \in ProcessPairs, proc.term => proc'.term,
         toServo' = toServo,
         \/ toSession' = toSession
         \/ toSession # <<>> /\ toSession' = Tail(toSession)
  PROVE  Sound
<1>1. Quiet
  BY FailIsQuiet, InvTyped DEF Throw, Inv
<1>2. Failed(Failed(sess)) = Failed(sess)
  BY InvTyped DEF Failed, SessionStates
<1>3. sess' = Finally(Latched(Failed(sess)))
  BY <1>2 DEF Throw
<1>4. Turn(sess, sess') /\ Received(sess)
  BY <1>3, TurnFacts, InvTyped DEF Received
<1> QED BY <1>1, <1>4, TurnStep

LEMMA LoopHeadStep ==
  ASSUME Inv, LoopHead
  PROVE  Sound
<1>1. /\ sess.pc \notin {"launch", "acked", "done", "stop", "last_stop"}
      /\ UNCHANGED servoVars /\ main' = main
      /\ toServo' = toServo /\ toSession' = toSession /\ proc' = proc
      /\ proc' \in ProcessPairs
  BY InvTyped DEF LoopHead, Here, link
<1>2. ASSUME Throw(sess) \/ Throw(Failed(sess)) PROVE Sound
  BY <1>1, <1>2, ThrowStep
<1>3. ASSUME NEW s \in {sess, Failed(sess)}, sess' = Decide(s), ledger' = ledger
      PROVE  Sound
  <2>1. /\ s \in SessionStates /\ Kept(sess, s) /\ s.stopSent = sess.stopSent
    BY <1>3, FlagsKept, InvTyped DEF Kept
  <2>2. Kept(sess, sess')
    BY <1>3, <2>1, DecideKept, KeptTwice
  <2>3. Turn(sess, sess') /\ Received(sess)
    BY <1>3, <2>1, <2>2, DecideKept DEF Turn, Received
  <2>4. Quiet
    BY <1>3, FailIsQuiet, InvTyped DEF Inv
  <2> QED BY <1>1, <2>3, <2>4, TurnStep
<1> QED BY <1>2, <1>3 DEF LoopHead

\* ARM and HEARTBEAT: refused, failed at a closed end, or queued.
LEMMA SendParentStep ==
  ASSUME Inv, NEW kind \in {"ARM", "HEARTBEAT"}, NEW s, Turn(sess, s),
         sess.pc \in {"arm", "beat"}, SendParent(kind, s)
  PROVE  Sound
<1>1. /\ UNCHANGED servoVars /\ main' = main /\ toSession' = toSession
      /\ sess.pc \notin {"launch", "acked", "done", "stop", "last_stop"}
      /\ proc \in ProcessPairs
  BY InvTyped DEF SendParent
<1>2. CASE Throw(sess) /\ UNCHANGED <<toServo, proc>>
  BY <1>1, <1>2, ThrowStep
<1>3. CASE SendFails /\ Throw(sess)
  <2>1. /\ proc' \in ProcessPairs /\ (proc.term => proc'.term)
        /\ toServo' = toServo
    BY <1>1, <1>3, TerminatedFacts DEF SendFails
  <2> QED BY <1>1, <1>3, <2>1, ThrowStep
<1>4. CASE Queued(Packet(kind, ~sess.hole)) /\ sess' = s /\ UNCHANGED ledger
  <2>1. (~sess.hole) \in BOOLEAN
    OBVIOUS
  <2>2. PICK p \in ParentPackets : p.kind # "TARGET" /\ Queued(p)
    <3>1. Packet(kind, ~sess.hole) \in ParentPackets /\ Packet(kind, ~sess.hole).kind = kind
      BY <2>1, PacketFacts
    <3> QED BY <1>4, <3>1
  <2>3. proc' = proc
    BY <2>2 DEF Queued
  <2>4. Quiet /\ Received(sess)
    BY <1>4, FailIsQuiet, InvTyped DEF Inv, Received
  <2> QED BY <1>1, <1>4, <2>2, <2>3, <2>4, TurnStep
<1> QED BY <1>2, <1>3, <1>4 DEF SendParent

LEMMA SendArmStep ==
  ASSUME Inv, SendArm
  PROVE  Sound
<1> DEFINE t == [sess EXCEPT !.armed = TRUE]
<1>1. /\ t \in SessionStates /\ Kept(sess, t) /\ t.stopSent = sess.stopSent
  BY InvTyped DEF Kept, SessionStates
<1>2. Turn(sess, StopOr(t, "receive"))
  <2> HIDE DEF t
  <2>1. Kept(sess, StopOr(t, "receive"))
    BY <1>1, DecideKept, KeptTwice
  <2> QED BY <1>1, <2>1, DecideKept DEF Turn
<1> QED BY <1>2, SendParentStep DEF SendArm, Here

LEMMA SendHeartbeatStep ==
  ASSUME Inv, SendHeartbeat
  PROVE  Sound
<1>1. Turn(sess, [sess EXCEPT !.pc = "receive"])
  BY TurnFacts, InvTyped
<1> QED BY <1>1, SendParentStep DEF SendHeartbeat, Here

\* STOP goes out, or the child is terminated: a claimed STOP is heard either way.
LEMMA SendStopStep ==
  ASSUME Inv, UNCHANGED servoVars, toSession' = toSession, main' \in MainPcs,
         NEW s, NEW failed, SendStop(s, failed),
         Kept(sess, s), Kept(sess, failed),
         \A t \in {s, failed} :
            /\ t.pc = "acked" <=> sess.pc = "acked"
            /\ sess.pc = "done" => t.pc = "done"
            /\ t.pc = "launch" => sess.pc = "launch" /\ t.stopSent = sess.stopSent
  PROVE  Sound
<1>1. Received(sess) /\ InSession' = InSession
  BY DEF Received, InSession
<1>2. CASE /\ Queued(Packet("STOP", ~sess.hole)) /\ UNCHANGED ledger
           /\ sess' = [s EXCEPT !.hole = FALSE, !.encoded = TRUE]
  <2>1. /\ Kept(sess, sess') /\ sess'.pc = s.pc /\ sess'.stopSent = s.stopSent
        /\ sess'.encoded
    BY <1>2 DEF Kept, SessionStates
  <2>2. (~sess.hole) \in BOOLEAN
    OBVIOUS
  <2>3. PICK p \in ParentPackets : p.kind # "TARGET" /\ Queued(p)
    <3>1. Packet("STOP", ~sess.hole) \in ParentPackets /\ Packet("STOP", ~sess.hole).kind = "STOP"
      BY <2>2, PacketFacts
    <3> QED BY <1>2, <3>1
  <2>4. /\ toServo' \in Seq(ParentPackets) /\ Len(toServo') <= Capacity
        /\ proc' = proc /\ \A q \in Orders' : q \in Orders \/ q.kind # "TARGET"
    BY <2>3, QueuedFacts
  <2>5. LinkTypeOK'
    BY <2>4, InvTyped DEF LinkTypeOK
  <2>6. Quiet
    BY <1>2, FailIsQuiet, InvTyped DEF Inv
  <2> QED BY <1>1, <2>1, <2>4, <2>5, <2>6, QuietSession
<1>3. CASE /\ proc' = [Terminated(proc) EXCEPT
                          !.parentReset = @ /\ ~(proc.closed /\ sess.hello)]
           /\ sess' = Latched(failed) /\ ledger' = FailPending /\ UNCHANGED toServo
  <2>1. PICK reset \in BOOLEAN : proc' = [Terminated(proc) EXCEPT !.parentReset = reset]
    BY <1>3
  <2>2. /\ proc' \in ProcessPairs /\ proc'.servo = proc.servo
        /\ (proc.term \/ Running => proc'.term)
    BY <2>1, TerminatedFacts, InvTyped
  <2>3. LinkTypeOK' /\ Orders' = Orders
    BY <1>3, <2>2, InvTyped DEF LinkTypeOK, Orders
  <2>4. failed \in SessionStates
    BY DEF Kept
  <2>5. /\ Kept(sess, sess') /\ sess'.pc = failed.pc /\ sess'.stopSent = failed.stopSent
    BY <1>3, <2>4, FlagsKept, KeptTwice
  <2>6. Quiet
    BY <1>3, FailIsQuiet, InvTyped DEF Inv
  <2> QED BY <1>1, <2>2, <2>3, <2>5, <2>6, QuietSession
<1> QED BY <1>2, <1>3 DEF SendStop

LEMMA SendOwnStopStep ==
  ASSUME Inv, SendOwnStop
  PROVE  Sound
<1>1. /\ sess.pc \in {"stop", "last_stop"} /\ UNCHANGED servoVars
      /\ toSession' = toSession /\ main' \in MainPcs /\ sess \in SessionStates
  BY InvTyped DEF SendOwnStop, Here
<1>2. /\ Kept(sess, Failed(sess)) /\ Failed(sess) \in SessionStates
  BY <1>1, FlagsKept DEF Kept
<1>3. CASE SendStop([sess EXCEPT !.pc = "receive"], Finally(Failed(sess)))
  <2>1. Kept(sess, [sess EXCEPT !.pc = "receive"]) /\ [sess EXCEPT !.pc = "receive"].pc = "receive"
    BY <1>1 DEF Kept, SessionStates
  <2>2. Kept(sess, Finally(Failed(sess)))
        /\ Finally(Failed(sess)).pc \in {"eof", "drain", "last_stop"}
    BY <1>2, FinallyKept, KeptTwice
  <2> QED BY <1>1, <1>3, <2>1, <2>2, SendStopStep
<1>4. CASE SendStop(PastStop(sess), PastStop(Failed(sess)))
  <2>1. Kept(sess, PastStop(sess)) /\ PastStop(sess).pc \in {"eof", "drain"}
    BY <1>1, FlagsKept
  <2>2. Kept(sess, PastStop(Failed(sess))) /\ PastStop(Failed(sess)).pc \in {"eof", "drain"}
    BY <1>2, FlagsKept, KeptTwice
  <2> QED BY <1>1, <1>4, <2>1, <2>2, SendStopStep
<1> QED BY <1>3, <1>4 DEF SendOwnStop

\* The child is started, or nothing is.
LEMMA LaunchStep ==
  ASSUME Inv, Launch
  PROVE  Sound
<1>1. /\ sess.pc = "launch" /\ UNCHANGED <<toServo, toSession, arm, main>>
      /\ toSession = <<>> /\ sess.proof = NoProof /\ ~sess.stopSent
      /\ servo.pc = "unborn" /\ ~proc.servo /\ sess.result = "open"
      /\ Orders' = Orders /\ InSession' = InSession
      /\ servo.wrote <= Published /\ servo.wrote <= servo.wrote
  BY InvTyped DEF Launch, Here, Inv, LaunchInv, SessionInv, CountsInv, Orders, InSession
<1>2. CASE /\ sess' = [sess EXCEPT !.pc = "head"] /\ proc' = [proc EXCEPT !.servo = TRUE]
           /\ servo' = [servo EXCEPT !.pc = "hello"] /\ UNCHANGED ledger
  <2>1. /\ servo' \in ServoStates /\ servo'.pc = "hello" /\ servo'.wrote = servo.wrote
        /\ servo'.active = servo.active
    BY <1>2, InvTyped DEF ServoStates
  <2>2. proc' \in ProcessPairs
    BY <1>2, InvTyped DEF ProcessPairs
  <2>3. /\ sess' \in SessionStates /\ sess'.pc = "head" /\ sess'.sent = sess.sent
        /\ sess'.pending = sess.pending /\ sess'.acked = sess.acked
        /\ sess'.proof = sess.proof /\ sess'.result = sess.result
        /\ sess'.stopSent = sess.stopSent
    BY <1>2, InvTyped DEF SessionStates
  <2>4. Published' = Published /\ Acked' = Acked
    BY <1>2 DEF Published, Acked, HasPending
  <2>5. NativeTypeOK'
    BY <1>1, <1>2, <2>1, <2>2, <2>3, InvTyped
       DEF NativeTypeOK, LinkTypeOK, ServoTypeOK, SessionTypeOK
  <2>6. LaunchInv' /\ LedgerInv' /\ CountsInv' /\ StopIsHeard'
    BY <1>1, <1>2, <2>1, <2>3, <2>4
       DEF Inv, LaunchInv, LedgerInv, Linked, HasPending, CountsInv, StopIsHeard
  <2>7. ServoInv'
    <3>1. servo = [ServoStart EXCEPT !.pc = servo.pc]
      BY <1>1 DEF Inv, ServoInv, Unstarted
    <3>2. servo' = [ServoStart EXCEPT !.pc = servo'.pc] /\ ~servo'.active
      BY <1>2, <2>1, <3>1 DEF ServoStart
    <3> QED BY <2>1, <3>2 DEF ServoInv, Unstarted, Loop
  <2>8. PacketsInv'
    <3>1. ASSUME NEW p \in Orders', p.kind = "TARGET"
          PROVE  p.seq <= Published'
      BY <1>1, <2>4, <3>1 DEF Inv, PacketsInv
    <3>2. ASSUME NEW p \in Replies'
          PROVE  ReplyOK(p)'
      <4>1. p \in Replies
        BY <1>1, <2>3 DEF Replies
      <4> QED BY <1>1, <2>1, <4>1 DEF Inv, PacketsInv, ReplyOK, Over
    <3> QED BY <3>1, <3>2 DEF PacketsInv
  <2>9. SessionInv'
    BY <1>1, <2>3, <2>4 DEF Inv, SessionInv
  <2>10. Inv'
    BY <2>5, <2>6, <2>7, <2>8, <2>9 DEF Inv
  <2> QED BY <2>1, <2>3, <2>4, <2>10, UnmovedIsSound
<1>3. CASE /\ sess' = [Latched(sess) EXCEPT
                         !.failure = TRUE, !.pc = "done", !.result = "failed"]
           /\ ledger' = FailPending /\ UNCHANGED <<proc, servo>>
  <2>1. Kept(sess, Latched(sess)) /\ Latched(sess).stopSent = sess.stopSent
    BY FlagsKept, InvTyped
  <2>2. /\ sess' \in SessionStates /\ sess'.pc = "done" /\ sess'.sent = sess.sent
        /\ sess'.pending = sess.pending /\ sess'.acked = sess.acked
        /\ sess'.proof = sess.proof /\ sess'.result = "failed"
        /\ sess'.stopSent = sess.stopSent
    BY <1>3, <2>1 DEF Kept, SessionStates
  <2>3. Quiet
    BY <1>3, FailIsQuiet, InvTyped DEF Inv
  <2>4. Published' = Published /\ Acked' = Acked /\ LedgerInv'
    BY <2>3 DEF Quiet
  <2>5. NativeTypeOK'
    BY <1>1, <1>3, <2>2, <2>3, InvTyped
       DEF NativeTypeOK, LinkTypeOK, ServoTypeOK, SessionTypeOK, Quiet
  <2>6. LaunchInv' /\ CountsInv' /\ StopIsHeard'
    BY <1>1, <1>3, <2>2, <2>4 DEF Inv, LaunchInv, CountsInv, StopIsHeard
  <2>7. ServoInv'
    BY <1>3, <2>4 DEF Inv, ServoInv
  <2>8. PacketsInv'
    <3>1. ASSUME NEW p \in Orders', p.kind = "TARGET"
          PROVE  p.seq <= Published'
      BY <1>1, <2>4, <3>1 DEF Inv, PacketsInv
    <3>2. ASSUME NEW p \in Replies'
          PROVE  ReplyOK(p)'
      <4>1. p \in Replies
        BY <1>1, <2>2 DEF Replies
      <4> QED BY <1>1, <1>3, <4>1 DEF Inv, PacketsInv, ReplyOK
    <3> QED BY <3>1, <3>2 DEF PacketsInv
  <2>9. SessionInv'
    BY <1>1, <2>2, <2>4 DEF Inv, SessionInv
  <2>10. Inv'
    BY <2>4, <2>5, <2>6, <2>7, <2>8, <2>9 DEF Inv
  <2>11. Promise!Return
    BY <1>1, <1>3, <2>2, <2>4 DEF Promise!Return, Acked
  <2> QED BY <2>10, <2>11 DEF Sound, Promise!Next
<1> QED BY <1>2, <1>3 DEF Launch

\* What the first packet of the queue may say.
LEMMA FirstReply ==
  ASSUME Inv, toSession # <<>>
  PROVE  Head(toSession) \in ChildPackets /\ Head(toSession) \in Replies
         /\ ReplyOK(Head(toSession)) /\ Head(toSession).seq \in Sequences0
<1>1. Head(toSession) \in ChildPackets /\ Head(toSession) \in InSession
  BY TailMembers, InvTyped DEF InSession
<1> QED BY <1>1 DEF Replies, Inv, PacketsInv, ChildPackets

\* An ACK that lands: the barrier takes it before the session counts it.
LEMMA AckStep ==
  ASSUME Inv, UNCHANGED servoVars, UNCHANGED <<toServo, proc, main>>,
         toSession # <<>>, toSession' = Tail(toSession),
         NEW p, p = Head(toSession), p.kind = "ACK", AckLands(p),
         ledger' = AckedLedger(p), sess.pc \in {"receive", "drain"},
         \/ sess' = [sess EXCEPT !.pc = "acked"]
         \/ sess' = [sess EXCEPT !.acked = @ + 1, !.pending = 0]
  PROVE  Sound
<1>1. /\ servo' = servo /\ arm' = arm /\ toServo' = toServo /\ proc' = proc /\ main' = main
      /\ Orders' = Orders
  BY DEF servoVars, Orders
<1>2. /\ p \in ChildPackets /\ p.seq \in Sequences0 /\ p.seq \in Nat /\ p.seq <= servo.wrote
  BY FirstReply, Constants DEF ReplyOK, Sequences0
<1>3. /\ ledger' \in Ledgers /\ LedgerInv' /\ Published' = Published
      /\ Acked' = p.seq /\ p.seq = Published /\ p.seq = sess.pending /\ p.seq # 0
  BY LandedAck, InvTyped DEF Inv
<1>4. /\ sess.acked <= Acked /\ Acked < p.seq /\ sess.result = "open"
      /\ sess.acked \in Nat /\ sess.acked + 1 <= p.seq
  <2>1. sess.acked \in Nat
    BY InvTyped, Constants DEF SessionStates, Sequences0
  <2>2. sess.acked <= Acked /\ Acked < p.seq /\ sess.result = "open"
    BY <1>3, <2>1, InvTyped DEF Inv, SessionInv
  <2> QED BY <1>2, <2>1, <2>2, InvTyped
<1>5. 0 \in Sequences0 /\ sess.acked + 1 \in Sequences0
  BY <1>2, <1>4, Constants DEF Sequences0
<1>6. /\ sess' \in SessionStates /\ sess'.sent = sess.sent /\ sess'.proof = sess.proof
      /\ sess'.result = "open" /\ sess'.stopSent = sess.stopSent
      /\ sess'.encoded = sess.encoded
      /\ \/ sess'.pc = "acked" /\ sess'.acked = sess.acked /\ sess'.pending = sess.pending
         \/ sess'.pc = sess.pc /\ sess'.acked = sess.acked + 1 /\ sess'.pending = 0
  <2>1. CASE sess' = [sess EXCEPT !.pc = "acked"]
    BY <1>4, <2>1, InvTyped DEF SessionStates
  <2>2. CASE sess' = [sess EXCEPT !.acked = sess.acked + 1, !.pending = 0]
    BY <1>4, <1>5, <2>2, InvTyped DEF SessionStates
  <2> QED BY <2>1, <2>2
<1>7. toSession' \in Seq(ChildPackets) /\ InSession' \subseteq InSession
  BY TailMembers, InvTyped DEF InSession
<1>8. NativeTypeOK'
  BY <1>1, <1>3, <1>6, <1>7, InvTyped
     DEF NativeTypeOK, LinkTypeOK, ServoTypeOK, SessionTypeOK
<1>9. LaunchInv' /\ StopIsHeard'
  <2>1. sess'.pc # "launch" /\ sess'.pc \notin {"stop", "last_stop"}
    BY <1>6
  <2>2. sess.pc \notin {"stop", "last_stop"}
    OBVIOUS
  <2>3. StopIsHeard'
    BY <1>1, <1>6, <2>2 DEF Inv, StopIsHeard, Running
  <2> QED BY <2>1, <2>3 DEF LaunchInv
<1>10. ServoInv' /\ CountsInv'
  BY <1>1, <1>2, <1>3 DEF Inv, ServoInv, CountsInv
<1>11. PacketsInv'
  <2>1. ASSUME NEW q \in Orders', q.kind = "TARGET"
        PROVE  q.seq <= Published'
    BY <1>1, <1>3, <2>1 DEF Inv, PacketsInv
  <2>2. ASSUME NEW q \in Replies'
        PROVE  ReplyOK(q)'
    <3>1. q \in Replies
      BY <1>6, <1>7 DEF Replies
    <3> QED BY <1>1, <3>1 DEF Inv, PacketsInv, ReplyOK
  <2> QED BY <2>1, <2>2 DEF PacketsInv
<1>12. SessionInv'
  BY <1>3, <1>4, <1>6 DEF Inv, SessionInv
<1>13. Inv'
  BY <1>3, <1>8, <1>9, <1>10, <1>11, <1>12 DEF Inv
<1>14. Promise!Ack
  <2>1. servo.wrote <= Published /\ servo.wrote \in Nat
    BY InvTyped DEF Inv, CountsInv
  <2>2. Acked' = servo.wrote /\ Acked < servo.wrote
    BY <1>2, <1>3, <1>4, <2>1, InvTyped
  <2> QED BY <1>1, <1>4, <1>6, <2>2 DEF Promise!Ack, Acked
<1> QED BY <1>13, <1>14 DEF Sound, Promise!Next

\* STOP_PROOF arrives.
LEMMA ProvenStep ==
  ASSUME Inv, UNCHANGED servoVars, UNCHANGED <<toServo, proc, main>>,
         toSession # <<>>, toSession' = Tail(toSession),
         sess.pc \in {"receive", "drain"}, Proven(Head(toSession))
  PROVE  Sound
<1> DEFINE p == Head(toSession)
           s == [sess EXCEPT !.proof = p]
<1>1. p \in ChildPackets /\ p \in Replies
  BY FirstReply
<1>2. s \in SessionStates /\ Received(s)
  BY <1>1, InvTyped DEF SessionStates, Received
<1>3. /\ sess' \in {Finally(s), Finally(Latched(s))}
      /\ ledger' \in {ledger, FailPending}
  BY DEF Proven
<1> HIDE DEF s
<1>4. Turn(s, sess')
  BY <1>2, <1>3, TurnFacts
<1>5. Quiet
  BY <1>3, FailIsQuiet, InvTyped DEF Inv
<1>6. sess.pc \notin {"launch", "acked", "done", "stop", "last_stop"} /\ proc' = proc
  OBVIOUS
<1> QED BY <1>2, <1>4, <1>5, <1>6, TurnStep, InvTyped

LEMMA ReceiveStep ==
  ASSUME Inv, Receive
  PROVE  Sound
<1>1. /\ sess.pc = "receive" /\ UNCHANGED servoVars /\ UNCHANGED <<toServo, main>>
      /\ sess.pc \notin {"launch", "acked", "done", "stop", "last_stop"}
      /\ sess \in SessionStates /\ proc \in ProcessPairs /\ Received(sess)
  BY InvTyped DEF Receive, Here, Received
<1>2. CASE ConsumeReset /\ Throw(sess) /\ UNCHANGED toSession
  <2>1. proc' \in ProcessPairs /\ proc'.term = proc.term
    BY <1>1, <1>2 DEF ConsumeReset, ProcessPairs
  <2> QED BY <1>1, <1>2, <2>1, ThrowStep
<1>3. CASE sess' = [sess EXCEPT !.pc = "silent"] /\ UNCHANGED <<proc, toSession, ledger>>
  <2>1. Quiet
    BY <1>3, FailIsQuiet, InvTyped DEF Inv
  <2>2. Turn(sess, sess')
    BY <1>1, <1>3, TurnFacts
  <2> QED BY <1>1, <1>3, <2>1, <2>2, TurnStep
<1>4. ASSUME toSession # <<>>, toSession' = Tail(toSession), proc' = proc,
             NEW p, p = Head(toSession), HandleEvent(p)
      PROVE  Sound
  <2>1. p \in ChildPackets
    BY <1>4, FirstReply
  <2>2. CASE p.kind \in {"HELLO", "IPC_READY", "ACTION_READY"}
    <3>1. PICK t \in {[sess EXCEPT !.hello = TRUE], [sess EXCEPT !.ready = TRUE],
                      [sess EXCEPT !.action = TRUE]} :
             sess' = [t EXCEPT !.pc = "head"] /\ ledger' = ledger
      <4>1. /\ [sess EXCEPT !.pc = "head", !.hello = TRUE]
                  = [[sess EXCEPT !.hello = TRUE] EXCEPT !.pc = "head"]
            /\ [sess EXCEPT !.pc = "head", !.ready = TRUE]
                  = [[sess EXCEPT !.ready = TRUE] EXCEPT !.pc = "head"]
            /\ [sess EXCEPT !.pc = "head", !.action = TRUE]
                  = [[sess EXCEPT !.action = TRUE] EXCEPT !.pc = "head"]
        BY <1>1 DEF SessionStates
      <4> QED BY <1>4, <2>2, <4>1 DEF HandleEvent
    <3>2. t \in SessionStates /\ Kept(sess, t) /\ t.stopSent = sess.stopSent
      BY <1>1 DEF Kept, SessionStates
    <3>3. Turn(t, sess')
      BY <3>1, <3>2, TurnFacts
    <3>4. Turn(sess, sess')
      BY <3>2, <3>3, KeptTwice DEF Turn
    <3>5. Quiet
      BY <3>1, FailIsQuiet, InvTyped DEF Inv
    <3> QED BY <1>1, <1>4, <3>4, <3>5, TurnStep
  <2>3. CASE p.kind = "ACK" /\ AckLands(p)
    <3>1. sess' = [sess EXCEPT !.pc = "acked"] /\ ledger' = AckedLedger(p)
      BY <1>4, <2>3 DEF HandleEvent
    <3> QED BY <1>1, <1>4, <2>3, <3>1, AckStep
  <2>4. CASE p.kind = "ACK" /\ ~AckLands(p)
    <3>1. /\ sess' = Finally(Latched(Failed(sess)))
          /\ ledger' = IF HasPending(ledger) THEN Fail(AckedLedger(p)) ELSE ledger
      BY <1>4, <2>4 DEF HandleEvent
    <3>2. Quiet
      BY <2>4, <3>1, RefusedAckIsQuiet, InvTyped DEF Inv
    <3>3. Turn(sess, sess')
      BY <1>1, <3>1, TurnFacts
    <3> QED BY <1>1, <1>4, <3>2, <3>3, TurnStep
  <2>5. CASE p.kind = "FAULT"
    <3>1. Throw(sess)
      BY <1>4, <2>5 DEF HandleEvent
    <3> QED BY <1>1, <1>4, <3>1, ThrowStep
  <2>6. CASE p.kind = "STOP_PROOF"
    <3>1. Proven(p)
      BY <1>4, <2>6 DEF HandleEvent
    <3> QED BY <1>1, <1>4, <3>1, ProvenStep
  <2> QED BY <2>1, <2>2, <2>3, <2>4, <2>5, <2>6 DEF ChildPackets
<1> QED BY <1>2, <1>3, <1>4 DEF Receive

LEMMA DrainFailsStep ==
  ASSUME Inv, UNCHANGED servoVars, UNCHANGED <<toServo, main>>, sess.pc = "drain",
         NEW p, ~AckLands(p), DrainFails(p),
         proc' \in ProcessPairs, proc.term => proc'.term,
         \/ toSession' = toSession
         \/ toSession # <<>> /\ toSession' = Tail(toSession)
  PROVE  Sound
<1>1. Quiet
  BY RefusedAckIsQuiet, InvTyped DEF DrainFails, Inv
<1>2. Turn(sess, sess') /\ Received(sess)
  BY TurnFacts, InvTyped DEF DrainFails, Received
<1> QED BY <1>1, <1>2, TurnStep

LEMMA DrainStep ==
  ASSUME Inv, Drain
  PROVE  Sound
<1>1. /\ sess.pc = "drain" /\ UNCHANGED servoVars /\ UNCHANGED <<toServo, main>>
      /\ sess.pc \notin {"launch", "acked", "done", "stop", "last_stop"}
      /\ sess \in SessionStates /\ proc \in ProcessPairs /\ Received(sess)
  BY InvTyped DEF Drain, Here, Received
<1>2. CASE ConsumeReset /\ DrainFails(NoProof) /\ UNCHANGED toSession
  <2>1. proc' \in ProcessPairs /\ proc'.term = proc.term
    BY <1>1, <1>2 DEF ConsumeReset, ProcessPairs
  <2>2. ~AckLands(NoProof)
    BY DEF AckLands, AckFits, NoProof, Reply
  <2> QED BY <1>1, <1>2, <2>1, <2>2, DrainFailsStep
<1>3. CASE sess' = [sess EXCEPT !.pc = "drain_silent"] /\ UNCHANGED <<proc, toSession, ledger>>
  <2>1. Quiet
    BY <1>3, FailIsQuiet, InvTyped DEF Inv
  <2>2. Turn(sess, sess')
    BY <1>1, <1>3, TurnFacts
  <2> QED BY <1>1, <1>3, <2>1, <2>2, TurnStep
<1>4. ASSUME toSession # <<>>, toSession' = Tail(toSession), proc' = proc,
             NEW p, p = Head(toSession), DrainEvent(p)
      PROVE  Sound
  <2>1. p \in ChildPackets /\ ReplyOK(p)
    BY <1>4, FirstReply
  <2>2. CASE p.kind \in {"HELLO", "IPC_READY", "ACTION_READY"}
    <3>1. sess' = sess /\ ledger' = ledger
      BY <1>4, <2>2 DEF DrainEvent
    <3>2. Turn(sess, sess')
      BY <1>1, <3>1, FlagsKept DEF Turn
    <3>3. Quiet
      BY <3>1, FailIsQuiet, InvTyped DEF Inv
    <3> QED BY <1>1, <1>4, <3>2, <3>3, TurnStep
  <2>3. CASE p.kind = "ACK" /\ AckLands(p)
    <3>1. sess' = [sess EXCEPT !.acked = @ + 1, !.pending = 0] /\ ledger' = AckedLedger(p)
      BY <1>4, <2>3 DEF DrainEvent
    <3> QED BY <1>1, <1>4, <2>3, <3>1, AckStep
  <2>4. CASE p.kind = "FAULT" \/ (p.kind = "ACK" /\ ~AckLands(p))
    <3>1. DrainFails(p)
      BY <1>4, <2>4 DEF DrainEvent
    <3>2. ~AckLands(p)
      BY <2>1, <2>4 DEF ReplyOK, AckLands, AckFits
    <3> QED BY <1>1, <1>4, <3>1, <3>2, DrainFailsStep
  <2>5. CASE p.kind = "STOP_PROOF"
    <3>1. Proven(p)
      BY <1>4, <2>5 DEF DrainEvent
    <3> QED BY <1>1, <1>4, <3>1, ProvenStep
  <2> QED BY <2>1, <2>2, <2>3, <2>4, <2>5 DEF ChildPackets
<1> QED BY <1>2, <1>3, <1>4 DEF Drain

\* The waits of the end of run: they lead on to the join.
LEMMA WaitStep ==
  ASSUME Inv, DrainSilent \/ DrainDeadline \/ AwaitEof
  PROVE  Sound
<1>1. /\ sess.pc \in {"drain", "drain_silent", "eof"} /\ UNCHANGED servoVars
      /\ main' = main /\ toServo' = toServo /\ toSession' = toSession /\ ledger' = ledger
      /\ proc' \in {proc, [proc EXCEPT !.parentReset = FALSE]}
      /\ \/ \E pc \in {"drain", "join"} : sess' = [sess EXCEPT !.pc = pc]
         \/ sess' = [Failed(sess) EXCEPT !.pc = "join"]
  BY DEF DrainSilent, DrainDeadline, AwaitEof, Here, link, ConsumeReset
<1>2. proc' \in ProcessPairs /\ proc'.term = proc.term
  BY <1>1, InvTyped DEF ProcessPairs
<1>3. Turn(sess, sess') /\ Received(sess)
  BY <1>1, TurnFacts, InvTyped DEF Received
<1>4. Quiet
  BY <1>1, FailIsQuiet, InvTyped DEF Inv
<1> QED BY <1>1, <1>2, <1>3, <1>4, TurnStep

\* The session counts what the barrier has.
LEMMA ClearPendingStep ==
  ASSUME Inv, ClearPending
  PROVE  Sound
<1>1. /\ sess.pc = "acked" /\ UNCHANGED <<link, servoVars, main, ledger>>
      /\ sess' = [sess EXCEPT !.pc = "head", !.acked = @ + 1, !.pending = 0]
  BY DEF ClearPending, Here
<1>2. /\ servo' = servo /\ arm' = arm /\ toServo' = toServo /\ toSession' = toSession
      /\ proc' = proc /\ main' = main /\ ledger' = ledger
  BY <1>1 DEF link, servoVars
<1>3. Published' = Published /\ Acked' = Acked
  BY <1>2 DEF Published, Acked, HasPending
<1>4. /\ sess.acked + 1 <= Acked /\ Acked <= servo.wrote /\ servo.wrote \in Sequences0
      /\ sess.acked \in Nat /\ sess.result = "open"
  <2>1. servo.wrote \in Sequences0 /\ sess.acked \in Nat
    BY InvTyped, Constants DEF SessionStates, ServoStates, Sequences0
  <2>2. sess.acked + 1 <= Acked /\ sess.result = "open"
    BY <1>1 DEF Inv, SessionInv
  <2>3. Acked <= servo.wrote
    BY DEF Inv, CountsInv
  <2> QED BY <2>1, <2>2, <2>3
<1>5. sess.acked + 1 \in Sequences0 /\ 0 \in Sequences0
  BY <1>4, InvTyped, Constants DEF Sequences0
<1>6. /\ sess' \in SessionStates /\ sess'.pc = "head" /\ sess'.acked = sess.acked + 1
      /\ sess'.pending = 0 /\ sess'.sent = sess.sent /\ sess'.proof = sess.proof
      /\ sess'.result = "open" /\ sess'.stopSent = sess.stopSent
      /\ sess'.encoded = sess.encoded
  BY <1>1, <1>4, <1>5, InvTyped DEF SessionStates
<1>7. NativeTypeOK'
  BY <1>2, <1>6, InvTyped DEF NativeTypeOK, LinkTypeOK, ServoTypeOK, SessionTypeOK
<1>8. LaunchInv' /\ LedgerInv' /\ StopIsHeard'
  BY <1>1, <1>2, <1>6
     DEF Inv, LaunchInv, LedgerInv, Linked, HasPending, StopIsHeard, Running
<1>9. ServoInv' /\ CountsInv'
  BY <1>2, <1>3 DEF Inv, ServoInv, CountsInv
<1>10. PacketsInv'
  <2>1. Orders' = Orders /\ Replies' = Replies
    BY <1>2, <1>6 DEF Orders, Replies, InSession
  <2> QED BY <1>2, <1>3, <2>1 DEF Inv, PacketsInv, ReplyOK
<1>11. SessionInv'
  BY <1>3, <1>4, <1>6 DEF Inv, SessionInv
<1>12. Inv'
  BY <1>7, <1>8, <1>9, <1>10, <1>11 DEF Inv
<1> QED BY <1>2, <1>3, <1>4, <1>6, <1>12, UnmovedIsSound

LEMMA ParentEndClosedTyped ==
  ASSUME proc \in ProcessPairs
  PROVE  /\ ParentEndClosed(proc) \in ProcessPairs
         /\ ParentEndClosed(proc).servo = proc.servo
         /\ ParentEndClosed(proc).term = proc.term
         /\ ParentEndClosed(Terminated(proc)) \in ProcessPairs
         /\ Orphaned(proc) \in ProcessPairs
<1>1. ASSUME NEW q \in ProcessPairs
      PROVE  /\ ParentEndClosed(q) \in ProcessPairs
             /\ ParentEndClosed(q).servo = q.servo /\ ParentEndClosed(q).term = q.term
  <2>1. PICK reset \in BOOLEAN : reset = (~q.closed /\ toSession # <<>>)
    OBVIOUS
  <2>2. ParentEndClosed(q)
           = [q EXCEPT !.open = FALSE, !.parentReset = FALSE, !.servoReset = reset]
    BY <2>1 DEF ParentEndClosed
  <2> QED BY <2>2 DEF ProcessPairs
<1>2. ASSUME NEW q \in ProcessPairs
      PROVE  Terminated(q) \in ProcessPairs
  <2>1. PICK term \in BOOLEAN : term = (q.term \/ Running)
    OBVIOUS
  <2>2. Terminated(q) = [q EXCEPT !.term = term]
    BY <2>1 DEF Terminated
  <2> QED BY <2>2 DEF ProcessPairs
<1>3. Terminated(ParentEndClosed(proc)) \in ProcessPairs
  BY <1>1, <1>2
<1>4. Orphaned(proc) \in ProcessPairs
  BY <1>3 DEF Orphaned, ProcessPairs
<1> QED BY <1>1, <1>2, <1>4

\* The verdict: what a verified run returns accounts for every write.
LEMMA JoinStep ==
  ASSUME Inv, Join
  PROVE  Sound
<1>1. /\ sess.pc = "join" /\ UNCHANGED <<toServo, servoVars, main, ledger>>
      /\ toSession' = <<>> /\ proc' = ParentEndClosed(Terminated(proc))
      /\ \E s \in {sess, Failed(sess)} :
            sess' = [s EXCEPT !.pc = "done", !.hole = FALSE,
                        !.result = IF Verified(s) THEN "verified" ELSE "failed"]
  BY DEF Join, Here
<1>2. PICK s \in {sess, Failed(sess)}, result \in {"verified", "failed"} :
         /\ sess' = [s EXCEPT !.pc = "done", !.hole = FALSE, !.result = result]
         /\ result = "verified" => Verified(s)
  BY <1>1
<1>3. /\ s \in SessionStates /\ Kept(sess, s) /\ s.stopSent = sess.stopSent
  BY FlagsKept, InvTyped DEF Kept
<1>4. /\ sess' \in SessionStates /\ sess'.pc = "done" /\ sess'.acked = sess.acked
      /\ sess'.pending = sess.pending /\ sess'.sent = sess.sent
      /\ sess'.proof = sess.proof /\ sess'.result = result
      /\ sess'.stopSent = sess.stopSent /\ (sess.encoded => sess'.encoded)
  BY <1>2, <1>3 DEF Kept, SessionStates
<1>5. /\ servo' = servo /\ arm' = arm /\ toServo' = toServo /\ main' = main
      /\ ledger' = ledger /\ Published' = Published /\ Acked' = Acked
      /\ Orders' = Orders /\ InSession' = {}
  BY <1>1, NothingSent DEF servoVars, Published, Acked, HasPending, Orders, InSession
<1>6. result = "verified" => servo.pc \in Over /\ Acked = servo.wrote
  <2>1. ASSUME result = "verified"
        PROVE  servo.pc \in Over /\ Acked = servo.wrote
    <3>1. /\ sess.proof.verified /\ ~sess.proof.fault
          /\ sess.proof.seq = sess.acked
      BY <1>2, <1>3, <2>1 DEF Verified, Kept
    <3>2. ReplyOK(sess.proof)
      BY DEF Inv, PacketsInv, Replies
    <3>3. servo.pc \in Over /\ sess.acked = servo.wrote
      BY <3>1, <3>2 DEF ReplyOK
    <3>4. sess.acked <= Acked /\ Acked <= servo.wrote
      BY <1>1, <3>3, InvTyped DEF Inv, SessionInv, CountsInv
    <3> QED BY <3>3, <3>4, InvTyped
  <2> QED BY <2>1
<1>7. /\ toSession' \in Seq(ChildPackets) /\ proc' \in ProcessPairs
  BY <1>1, NothingSent, ParentEndClosedTyped, InvTyped
<1>8. Running \/ proc.term => proc'.term
  <2>1. /\ Terminated(proc) \in ProcessPairs
        /\ (Running \/ proc.term => Terminated(proc).term)
    BY TerminatedFacts, InvTyped
  <2>2. ParentEndClosed(Terminated(proc)).term = Terminated(proc).term
    BY <2>1 DEF ParentEndClosed, ProcessPairs
  <2> QED BY <1>1, <2>1, <2>2
<1>9. NativeTypeOK'
  BY <1>4, <1>5, <1>7, InvTyped DEF NativeTypeOK, LinkTypeOK, ServoTypeOK, SessionTypeOK
<1>10. LaunchInv' /\ LedgerInv' /\ StopIsHeard'
  <2>1. Running' = Running
    BY <1>5 DEF Running
  <2> QED BY <1>4, <1>5, <1>8, <2>1
          DEF Inv, LaunchInv, LedgerInv, Linked, HasPending, StopIsHeard
<1>11. ServoInv' /\ CountsInv'
  BY <1>5 DEF Inv, ServoInv, CountsInv
<1>12. PacketsInv'
  <2>1. Replies' \subseteq Replies
    BY <1>4, <1>5 DEF Replies
  <2> QED BY <1>5, <2>1 DEF Inv, PacketsInv, ReplyOK
<1>13. SessionInv'
  BY <1>1, <1>4, <1>5, <1>6 DEF Inv, SessionInv
<1>14. Inv'
  BY <1>9, <1>10, <1>11, <1>12, <1>13 DEF Inv
<1>15. Promise!Return
  <2>1. sess.result = "open"
    BY <1>1 DEF Inv, SessionInv
  <2> QED BY <1>2, <1>4, <1>5, <1>6, <2>1 DEF Promise!Return, Acked
<1> QED BY <1>14, <1>15 DEF Sound, Promise!Next

LEMMA SessionStepInv ==
  ASSUME Inv, SessionStep \/ DrainDeadline
  PROVE  Sound
  BY LaunchStep, LoopHeadStep, SendArmStep, SendHeartbeatStep, SendOwnStopStep,
     ReceiveStep, ClearPendingStep, DrainStep, WaitStep, JoinStep DEF SessionStep

(* the steps of the other threads ------------------------------------------------- *)

\* A step of another thread: it moves no counter, claims STOP only to send it, and
\* one that was about to send it is not forgotten.
LEMMA ThreadQuiet ==
  ASSUME Inv, UNCHANGED servoVars, toSession' = toSession, Quiet,
         Kept(sess, sess'), sess'.pc = sess.pc,
         main' \in MainPcs,
         sess'.stopSent => sess.stopSent \/ main' = "send",
         sess.stopSent => sess'.stopSent,
         main = "send" => main' = "send" \/ proc'.term \/ ~Running,
         sess.pc = "launch" => sess'.stopSent = sess.stopSent,
         proc' \in ProcessPairs, proc'.servo = proc.servo, proc.term => proc'.term,
         \/ toServo' = toServo
         \/ \E p \in ParentPackets : p.seq <= Published /\ Queued(p)
  PROVE  Sound
<1>1. /\ toServo' \in Seq(ParentPackets) /\ Len(toServo') <= Capacity
      /\ \A q \in Orders' : q \in Orders \/ q.seq <= Published
  <2>1. CASE toServo' = toServo
    BY <2>1, InvTyped DEF Orders
  <2>2. ASSUME NEW p \in ParentPackets, p.seq <= Published, Queued(p)
        PROVE  /\ toServo' \in Seq(ParentPackets) /\ Len(toServo') <= Capacity
               /\ \A q \in Orders' : q \in Orders \/ q.seq <= Published
    BY <2>2, QueuedFacts
  <2> QED BY <2>1, <2>2
<1>2. LinkTypeOK' /\ InSession' \subseteq InSession
  BY <1>1, InvTyped DEF LinkTypeOK, InSession
<1>3. Received(sess)
  BY DEF Received
<1>4. Claimed' => Claimed \/ proc'.term \/ ~Running
  BY DEF Claimed
<1> QED BY <1>1, <1>2, <1>3, <1>4, QuietSession

LEMMA MainStopsFacts ==
  ASSUME MainStops
  PROVE  main' \in {"end", "flag"} /\ main' \in MainPcs
  BY DEF MainStops, MainPcs

\* A publication that fails, and a wait that is given up.
LEMMA FailedPublication ==
  ASSUME Inv, UNCHANGED servoVars, toSession' = toSession, main # "send",
         PublishFails \/ Abandon,
         proc' \in ProcessPairs, proc'.servo = proc.servo, proc.term => proc'.term,
         toServo' = toServo
  PROVE  Sound
<1>1. PICK hole \in BOOLEAN :
         sess' \in {Latched([sess EXCEPT !.hole = hole]), Stopping(sess)}
  <2>1. (sess.hole \/ MainAt("encoded")) \in BOOLEAN
    BY InvTyped DEF SessionStates, MainAt, ProcessPairs
  <2> QED BY <2>1 DEF PublishFails, Abandon
<1> DEFINE t == [sess EXCEPT !.hole = hole]
<1>2. t \in SessionStates /\ Kept(sess, t) /\ t.pc = sess.pc /\ t.stopSent = sess.stopSent
  BY InvTyped DEF Kept, SessionStates
<1> HIDE DEF t
<1>3. /\ Kept(t, Latched(t)) /\ Latched(t).pc = t.pc /\ Latched(t).stopSent = t.stopSent
      /\ Kept(sess, Stopping(sess)) /\ Stopping(sess).pc = sess.pc
      /\ Stopping(sess).stopSent = sess.stopSent
  BY <1>2, FlagsKept, InvTyped
<1>4. Kept(sess, Latched(t))
  BY <1>2, <1>3, KeptTwice
<1>5. Kept(sess, sess') /\ sess'.pc = sess.pc /\ sess'.stopSent = sess.stopSent
  BY <1>1, <1>2, <1>3, <1>4 DEF t
<1>6. Quiet
  BY FailIsQuiet, InvTyped DEF PublishFails, Abandon, Inv
<1>7. main' \in MainPcs
  BY MainStopsFacts DEF PublishFails, Abandon
<1> QED BY <1>5, <1>6, <1>7, ThreadQuiet

\* A command is staged: the barrier and the session number it alike.
LEMMA StageTargetStep ==
  ASSUME Inv, StageTarget
  PROVE  Sound
<1>1. /\ main = "idle" /\ UNCHANGED <<link, servoVars>> /\ ledger.committed < MaxSequence
      /\ servo' = servo /\ arm' = arm /\ toServo' = toServo /\ toSession' = toSession
      /\ proc' = proc
  BY DEF StageTarget, MainAt, link, servoVars
<1>2. PICK a \in Actions :
        LET cmd == [seq |-> ledger.committed + 1, previous |-> ledger.previous,
                    executed |-> a, produced |-> Now]
        IN IF /\ StageAccepts(ledger, cmd, Now)
              /\ sess.pc # "done" /\ ~sess.stopReq /\ sess.pending = 0
              /\ cmd.seq = sess.sent + 1
           THEN /\ sess' = [sess EXCEPT !.pending = cmd.seq, !.sent = cmd.seq]
                /\ main' = "lock"
                /\ ledger' = Stage(ledger, cmd, Now)
           ELSE /\ MainStops
                /\ IF StageAccepts(ledger, cmd, Now)
                   THEN sess' = Latched(sess) /\ ledger' = Fail(Stage(ledger, cmd, Now))
                   ELSE sess' = Stopping(sess) /\ ledger' = Stage(ledger, cmd, Now)
  BY DEF StageTarget
<1> DEFINE cmd == [seq |-> ledger.committed + 1, previous |-> ledger.previous,
                   executed |-> a, produced |-> Now]
<1>3. /\ cmd.seq = ledger.committed + 1 /\ ledger.committed \in Nat
      /\ cmd.seq \in Sequences0 /\ cmd.seq \in Nat
  <2>1. cmd.seq = ledger.committed + 1
    OBVIOUS
  <2> HIDE DEF cmd
  <2>2. ledger.committed \in Nat
    BY InvTyped, LedgerTyped
  <2> QED BY <1>1, <2>1, <2>2, Constants DEF Sequences0
<1>4. CASE ~StageAccepts(ledger, cmd, Now)
  <2>1. /\ MainStops /\ sess' = Stopping(sess) /\ ledger' = Stage(ledger, cmd, Now)
    BY <1>2, <1>4
  <2>2. Quiet
    BY <1>4, <2>1, RefusedStageIsQuiet, InvTyped DEF Inv
  <2>3. Kept(sess, sess') /\ sess'.pc = sess.pc /\ sess'.stopSent = sess.stopSent
    BY <2>1, FlagsKept, InvTyped
  <2> QED BY <1>1, <2>1, <2>2, <2>3, MainStopsFacts, ThreadQuiet, InvTyped
<1>5. CASE StageAccepts(ledger, cmd, Now)
  <2>1. /\ ledger' \in {Stage(ledger, cmd, Now), Fail(Stage(ledger, cmd, Now))}
        /\ main' \in MainPcs \ {"send"}
        /\ \/ /\ sess' = [sess EXCEPT !.pending = cmd.seq, !.sent = cmd.seq]
              /\ sess.pc # "done"
           \/ sess' = Latched(sess)
    BY <1>2, <1>5, MainStopsFacts DEF MainPcs
  <2>2. /\ ledger' \in Ledgers /\ LedgerInv'
        /\ Published' = Published + 1 /\ Published' = cmd.seq /\ Acked' = Acked
        /\ Published = Acked
    BY <1>2, <1>5, <2>1, StagedIsNext, InvTyped DEF Inv
  <2>3. /\ sess' \in SessionStates /\ sess'.pc = sess.pc /\ sess'.acked = sess.acked
        /\ sess'.proof = sess.proof /\ sess'.result = sess.result
        /\ sess'.stopSent = sess.stopSent /\ sess'.encoded = sess.encoded
        /\ \/ sess'.sent = cmd.seq /\ sess'.pending = cmd.seq
           \/ sess'.sent = sess.sent /\ sess'.pending = sess.pending
    <3>1. CASE sess' = [sess EXCEPT !.pending = cmd.seq, !.sent = cmd.seq]
      BY <1>3, <3>1, InvTyped DEF SessionStates
    <3>2. CASE sess' = Latched(sess)
      <4>1. 0 \in 0 .. HeartbeatInterval
        BY Constants
      <4> QED BY <3>2, <4>1, InvTyped DEF Latched, Stopping, SessionStates
    <3> QED BY <2>1, <3>1, <3>2
  <2>4. Published' \in Nat /\ Published <= Published' /\ Acked' < cmd.seq
    BY <1>3, <2>2, InvTyped
  <2>5. NativeTypeOK'
    BY <1>1, <2>1, <2>2, <2>3, InvTyped DEF NativeTypeOK, LinkTypeOK, ServoTypeOK, SessionTypeOK
  <2>6. LaunchInv'
    BY <1>1, <2>3 DEF Inv, LaunchInv
  <2>7. StopIsHeard'
    BY <1>1, <2>3 DEF Inv, StopIsHeard, Running
  <2>8. servo.pc \in Loop => servo.target <= Published'
    BY <2>4, InLoop, InvTyped
  <2>9. ServoInv'
    BY <1>1, <2>8 DEF Inv, ServoInv
  <2>10. CountsInv'
    BY <1>1, <2>2, <2>4, InvTyped DEF Inv, CountsInv
  <2>11. PacketsInv'
    <3>1. ASSUME NEW p \in Orders', p.kind = "TARGET"
          PROVE  p.seq <= Published'
      <4>1. p \in Orders
        BY <1>1, <3>1 DEF Orders
      <4>2. p \in ParentPackets
        BY <4>1, InvTyped, LenProperties, ElementOfSeq DEF Orders
      <4>3. p.seq \in Nat /\ p.seq <= Published
        BY <3>1, <4>1, <4>2, Constants DEF Inv, PacketsInv, ParentPackets, Sequences0
      <4> QED BY <2>4, <4>3, InvTyped
    <3>2. ASSUME NEW p \in Replies'
          PROVE  ReplyOK(p)'
      <4>1. p \in Replies
        BY <1>1, <2>3, <3>2 DEF Replies, InSession
      <4> QED BY <1>1, <4>1 DEF Inv, PacketsInv, ReplyOK
    <3> QED BY <3>1, <3>2 DEF PacketsInv
  <2>12. SessionInv'
    <3>1. sess.sent \in Nat /\ sess.sent <= Published
      BY InvTyped, Constants DEF Inv, SessionInv, SessionStates, Sequences0
    <3>2. sess'.sent <= Published'
      BY <1>3, <2>2, <2>3, <2>4, <3>1, InvTyped
    <3>3. sess'.pending # 0 /\ sess'.pc # "acked" => Acked' < sess'.pending
      BY <2>2, <2>3, <2>4 DEF Inv, SessionInv
    <3> QED BY <1>1, <2>2, <2>3, <3>2, <3>3 DEF Inv, SessionInv
  <2>13. Inv'
    BY <2>2, <2>5, <2>6, <2>7, <2>9, <2>10, <2>11, <2>12 DEF Inv
  <2> QED BY <1>1, <2>2, <2>3, <2>13, UnmovedIsSound
<1> QED BY <1>4, <1>5

LEMMA EncodeTargetStep ==
  ASSUME Inv, EncodeTarget
  PROVE  Sound
<1>1. /\ main = "lock" /\ UNCHANGED servoVars /\ toSession' = toSession
      /\ toServo' = toServo /\ proc' = proc
  BY DEF EncodeTarget, MainAt, link
<1>2. CASE PublishFails
  BY <1>1, <1>2, FailedPublication, InvTyped
<1>3. CASE main' = "encoded" /\ UNCHANGED <<sess, ledger>>
  <2>1. Quiet /\ Kept(sess, sess')
    BY <1>3, FailIsQuiet, FlagsKept, InvTyped DEF Inv
  <2> QED BY <1>1, <1>3, <2>1, ThreadQuiet, InvTyped DEF MainPcs
<1> QED BY <1>2, <1>3 DEF EncodeTarget

LEMMA SendTargetStep ==
  ASSUME Inv, SendTarget
  PROVE  Sound
<1>1. main = "encoded" /\ UNCHANGED servoVars /\ toSession' = toSession
  BY DEF SendTarget, MainAt
<1>2. CASE PublishFails /\ UNCHANGED <<toServo, proc>>
  BY <1>1, <1>2, FailedPublication, InvTyped
<1>3. CASE SendFails /\ PublishFails
  <2>1. /\ proc' \in ProcessPairs /\ proc'.servo = proc.servo /\ (proc.term => proc'.term)
        /\ toServo' = toServo
    BY <1>3, TerminatedFacts, InvTyped DEF SendFails
  <2> QED BY <1>1, <1>3, <2>1, FailedPublication
<1>4. CASE /\ ~Stale
           /\ Queued([Packet("TARGET", ~sess.hole) EXCEPT
                        !.seq = sess.sent, !.age = Age(ledger.pending, Now)])
           /\ main' = "wait" /\ UNCHANGED <<sess, ledger>>
  <2>1. Age(ledger.pending, Now) \in AgesUpTo(TargetMaxAge)
    <3>1. ledger.pending.produced \in Int /\ ledger.pending.produced <= 0
      BY LedgerTyped, InvTyped DEF Inv, LedgerInv
    <3>2. Age(ledger.pending, Now) = 0 - ledger.pending.produced
      BY DEF Age, Now
    <3>3. ~(0 - ledger.pending.produced > TargetMaxAge)
      BY <1>4, <3>2 DEF Stale
    <3> QED BY <3>1, <3>2, <3>3, Constants DEF AgesUpTo
  <2>2. sess.sent \in Sequences0 /\ sess.sent <= Published
    BY InvTyped DEF Inv, SessionInv, SessionStates
  <2>3. PICK p \in ParentPackets : p.seq <= Published /\ Queued(p)
    <3>1. PICK exact \in BOOLEAN : exact = (~sess.hole)
      OBVIOUS
    <3>2. 0 \in Sequences0 /\ 0 \in AgesUpTo(TargetMaxAge)
      BY Constants DEF Sequences0, AgesUpTo
    <3> DEFINE q == [Packet("TARGET", exact) EXCEPT
                        !.seq = sess.sent, !.age = Age(ledger.pending, Now)]
    <3>3. q \in ParentPackets /\ q.seq = sess.sent
      BY <2>1, <2>2, <3>2 DEF Packet, ParentPackets
    <3>4. Queued(q)
      BY <1>4, <3>1
    <3> HIDE DEF q
    <3> QED BY <2>2, <3>3, <3>4
  <2>4. Quiet /\ Kept(sess, sess') /\ proc' = proc
    BY <1>4, <2>3, FailIsQuiet, FlagsKept, InvTyped DEF Inv, Queued
  <2> QED BY <1>1, <1>4, <2>3, <2>4, ThreadQuiet, InvTyped DEF MainPcs
<1> QED BY <1>2, <1>3, <1>4 DEF SendTarget

\* The arm has acknowledged, then the hand does: the barrier commits, and knows as
\* much as before.
LEMMA HandAcknowledgesStep ==
  ASSUME Inv, HandAcknowledges
  PROVE  Sound
<1>1. /\ main = "wait" /\ main' = "idle" /\ UNCHANGED servoVars
      /\ toSession' = toSession /\ toServo' = toServo /\ proc' = proc /\ sess' = sess
  BY DEF HandAcknowledges, MainAt, link
<1>2. Quiet
  BY HandAckIsQuiet, InvTyped DEF HandAcknowledges, Inv
<1>3. Kept(sess, sess')
  BY <1>1, FlagsKept, InvTyped
<1> QED BY <1>1, <1>2, <1>3, ThreadQuiet, InvTyped DEF MainPcs

LEMMA GiveUpStep ==
  ASSUME Inv, GiveUp
  PROVE  Sound
<1>1. /\ main # "send" /\ Abandon /\ UNCHANGED servoVars
      /\ toSession' = toSession /\ toServo' = toServo /\ proc' = proc
  BY DEF GiveUp, MainAt, link
<1> QED BY <1>1, FailedPublication, InvTyped

LEMMA ClaimStopStep ==
  ASSUME Inv, ClaimStop
  PROVE  Sound
<1>1. /\ main = "flag" /\ UNCHANGED servoVars /\ ledger' = ledger
      /\ toSession' = toSession /\ toServo' = toServo /\ proc' = proc
      /\ \/ main' = "end" /\ sess' = sess
         \/ /\ main' = "send" /\ sess' = [sess EXCEPT !.stopSent = TRUE]
            /\ sess.pc # "launch"
  BY DEF ClaimStop, MainAt, link
<1>2. /\ Kept(sess, sess') /\ sess'.pc = sess.pc
      /\ (sess.stopSent => sess'.stopSent)
      /\ (sess'.stopSent => sess.stopSent \/ main' = "send")
      /\ (sess.pc = "launch" => sess'.stopSent = sess.stopSent)
  BY <1>1, InvTyped DEF Kept, SessionStates
<1>3. Quiet
  BY <1>1, FailIsQuiet, InvTyped DEF Inv
<1> QED BY <1>1, <1>2, <1>3, ThreadQuiet, InvTyped DEF MainPcs

LEMMA SendClaimedStopStep ==
  ASSUME Inv, SendClaimedStop
  PROVE  Sound
<1>1. /\ SendStop(sess, sess) /\ UNCHANGED servoVars /\ toSession' = toSession
      /\ main' \in MainPcs
  BY DEF SendClaimedStop, MainPcs
<1>2. Kept(sess, sess)
  BY FlagsKept, InvTyped
<1> QED BY <1>1, <1>2, SendStopStep

\* Ctrl-C: whoever has claimed STOP and is not going to send it has terminated the
\* child.
LEMMA SigintStep ==
  ASSUME Inv, Sigint
  PROVE  Sound
<1>1. /\ Interrupted /\ UNCHANGED servoVars /\ toSession' = toSession
      /\ toServo' = toServo
      /\ proc' \in {proc, Terminated(proc)}
      /\ main = "send" => proc' = Terminated(proc)
  BY DEF Sigint
<1>2. /\ proc' \in ProcessPairs /\ proc'.servo = proc.servo /\ (proc.term => proc'.term)
      /\ main = "send" => proc'.term \/ ~Running
  BY <1>1, TerminatedFacts, InvTyped
<1>3. CASE main # "send" /\ (PublishFails \/ Abandon)
  BY <1>1, <1>2, <1>3, FailedPublication
<1>4. CASE /\ UNCHANGED <<sess, ledger>>
           /\ \/ main' = main
              \/ main = "send" /\ main' = "end"
  <2>1. Quiet /\ Kept(sess, sess')
    BY <1>4, FailIsQuiet, FlagsKept, InvTyped DEF Inv
  <2>2. main' \in MainPcs
    BY <1>4, InvTyped DEF MainPcs
  <2> QED BY <1>1, <1>2, <1>4, <2>1, <2>2, ThreadQuiet
<1>5. CASE /\ main = "send" /\ main' = "end"
           /\ sess' = Latched(sess) /\ ledger' = FailPending
  <2>1. Quiet
    BY <1>5, FailIsQuiet, InvTyped DEF Inv
  <2>2. Kept(sess, sess') /\ sess'.pc = sess.pc /\ sess'.stopSent = sess.stopSent
    BY <1>5, FlagsKept, InvTyped
  <2>3. main' \in MainPcs
    BY <1>5 DEF MainPcs
  <2> QED BY <1>1, <1>2, <1>5, <2>1, <2>2, <2>3, ThreadQuiet
<1> QED BY <1>1, <1>3, <1>4, <1>5 DEF Interrupted

\* The parent's end: what it knew is gone, its verdict stands.
LEMMA ParentDiesStep ==
  ASSUME Inv, ParentDies
  PROVE  Sound
<1>1. /\ proc' = Orphaned(proc) /\ toSession' = <<>> /\ main' = "end"
      /\ sess' = [NewSession EXCEPT !.pc = "done", !.result = sess.result]
      /\ toServo' = toServo /\ servo' = servo /\ arm' = arm /\ ledger' = ledger
  BY DEF ParentDies, servoVars
<1>2. 0 \in Sequences0 /\ 0 \in 0 .. HeartbeatInterval
  BY Constants DEF Sequences0
<1>3. NoProof \in ChildPackets /\ ~NoProof.verified /\ NoProof.kind = "HELLO"
  BY <1>2, ReplyFacts DEF NoProof
<1>4. NewSession \in SessionStates
  BY <1>2, <1>3 DEF NewSession, SessionStates
<1>5. /\ sess' \in SessionStates /\ sess'.pc = "done" /\ sess'.sent = 0
      /\ sess'.pending = 0 /\ sess'.acked = 0 /\ sess'.proof = NoProof
      /\ sess'.result = sess.result /\ sess'.stopSent = FALSE
  <2>1. sess.result \in {"open", "verified", "failed"}
    BY InvTyped DEF SessionStates
  <2>2. sess' \in SessionStates
    BY <1>1, <1>4, <2>1 DEF SessionStates
  <2>3. /\ NewSession.sent = 0 /\ NewSession.pending = 0 /\ NewSession.acked = 0
        /\ NewSession.proof = NoProof /\ NewSession.stopSent = FALSE
    BY DEF NewSession
  <2> QED BY <1>1, <1>4, <2>2, <2>3 DEF SessionStates
<1>6. Published' = Published /\ Acked' = Acked /\ Orders' = Orders
  BY <1>1 DEF Published, Acked, HasPending, Orders
<1>7. /\ toSession' \in Seq(ChildPackets) /\ Replies' = {NoProof}
  BY <1>1, <1>5, NothingSent DEF Replies, InSession
<1>8. proc' \in ProcessPairs
  BY <1>1, ParentEndClosedTyped, InvTyped
<1>9. NativeTypeOK'
  BY <1>1, <1>5, <1>7, <1>8, InvTyped
     DEF NativeTypeOK, LinkTypeOK, ServoTypeOK, SessionTypeOK, MainPcs
<1>10. LaunchInv' /\ LedgerInv' /\ StopIsHeard'
  BY <1>1, <1>5 DEF Inv, LaunchInv, LedgerInv, Linked, HasPending, StopIsHeard
<1>11. ServoInv' /\ CountsInv'
  BY <1>1, <1>6 DEF Inv, ServoInv, CountsInv
<1>12. PacketsInv'
  BY <1>3, <1>6, <1>7 DEF Inv, PacketsInv, ReplyOK
<1>13. SessionInv'
  BY <1>1, <1>5, <1>6, InvTyped DEF Inv, SessionInv
<1>14. Inv'
  BY <1>9, <1>10, <1>11, <1>12, <1>13 DEF Inv
<1> QED BY <1>1, <1>5, <1>6, <1>14, UnmovedIsSound

LEMMA NextSound ==
  ASSUME Inv, [Next]_nativeVars
  PROVE  Sound
<1>1. CASE Servo \/ (ServoDies /\ UNCHANGED sessionVars)
  BY <1>1, ServoStepInv DEF Servo
<1>2. CASE ThreadStep
  BY <1>2, StageTargetStep, EncodeTargetStep, SendTargetStep, HandAcknowledgesStep,
     GiveUpStep, ClaimStopStep, SendClaimedStopStep DEF ThreadStep
<1>3. CASE UNCHANGED nativeVars
  <2>1. /\ UNCHANGED <<toServo, toSession, proc, servo, arm, sess, main, ledger>>
    BY <1>3 DEF nativeVars, link, servoVars, sessionVars
  <2>2. Quiet /\ Kept(sess, sess')
    BY <2>1, FailIsQuiet, FlagsKept, InvTyped DEF Inv
  <2> QED BY <2>1, <2>2, ThreadQuiet, InvTyped DEF servoVars
<1> QED BY <1>1, <1>2, <1>3, ClockStep, SessionStepInv, SigintStep, ParentDiesStep
        DEF Next, Crash

(* the results ---------------------------------------------------------------------- *)

\* The invariant holds of every reachable state, whichever process dies and whatever
\* the two processes and their threads interleave.
THEOREM NativeInvariant == Spec => []Inv
<1>1. Init => Inv
  BY InitInv
<1>2. Inv /\ [Next]_nativeVars => Inv'
  BY NextSound DEF Sound
<1> QED BY <1>1, <1>2, PTL DEF Spec

\* All parts keep their types: no queue of the child's socket is longer than it is,
\* no counter passes maximum_target_count.
THEOREM NativeTypeCorrect == Spec => []NativeTypeOK
<1>1. Inv => NativeTypeOK
  BY DEF Inv
<1> QED BY <1>1, NativeInvariant, PTL

\* NativeStopProofEvent.parent_stop_verified is only ever true of a child that has
\* released its control handle and of an arm at rest.
THEOREM ProvenIsAtRest == Spec => []ProvenMeansAtRest
<1>1. Inv => ProvenMeansAtRest
  <2>1. ASSUME Inv, sess.proof.verified
        PROVE  ~servo.active /\ arm = "rest"
    <3>1. servo.pc \in Over /\ arm = "rest"
      BY <2>1 DEF Inv, PacketsInv, Replies, ReplyOK
    <3> QED BY <2>1, <3>1 DEF Inv, ServoInv, Over, Loop
  <2> QED BY <2>1 DEF ProvenMeansAtRest
<1> QED BY <1>1, NativeInvariant, PTL

\* A STOP that one thread claimed is encoded, or SIGTERM is on its way, or the child
\* is leaving, as soon as nobody is about to send it.
THEOREM StopHeard == Spec => []StopIsHeard
<1>1. Inv => StopIsHeard
  BY DEF Inv
<1> QED BY <1>1, NativeInvariant, PTL

\* heartbeat_expired_before_drain: a cycle that read the robot after the supervisor's
\* silence writes nothing, whatever the drain finds.
THEOREM NeverUnsupervised == Spec => NoWriteUnsupervised
<1>1. Inv /\ [Next]_nativeVars
         => [WriteOnce /\ arm' = "moving" => ~servo.expired]_nativeVars
  BY DEF Inv, ServoInv, WriteOnce, At
<1> QED BY <1>1, NativeInvariant, PTL DEF Spec, NoWriteUnsupervised

\* The servo, the session and the barrier together keep ArmOwner's promise: targets
\* are written in order and one at a time, acknowledged behind their own write, and
\* a verified stop is the end of all writing.
THEOREM PromiseKept == Spec => ImplementsArmOwner
<1>1. Init => Promise!Init
  BY DEF Init, ServoInit, SessionInit, ServoStart, NewSession, NewLedger, Promise!Init
<1>2. Inv /\ [Next]_nativeVars => [Promise!Next]_(Promise!armOwnerVars)
  BY NextSound DEF Sound
<1> QED BY <1>1, <1>2, NativeInvariant, PTL DEF Spec, ImplementsArmOwner, Promise!Spec
=============================================================================
