----------------------- MODULE TelemetryStream_proofs -----------------------
(* The telemetry stream keeps its promise for any number of writers, readers,
   words, values, sequences and attempts.

   The refinement rests on LatestIsIntact: a reader whose number is still the
   latest when it looks again has read, all the time, a slot nobody was writing.
   LatestIsIntact is not inductive: it needs that only the claimant is anywhere
   between its stores (WriterOK), that the number it writes is the next, whose
   slot is the other one, and that what it announces is complete.             *)
EXTENDS TelemetryStream, SequenceTheorems, TLAPS

\* What holds of a writer w with locals s.
WriterOK(w, s) ==
    /\ s.pc \in {"claimed", "idle", "store", "publish"} => claim = w
    /\ s.pc \in {"idle", "store", "publish"} => s.next = published + 1
    /\ s.pc \in {"store", "publish"} => s.sample \in Samples /\ s.next <= MaxSequence
    /\ s.pc = "store" =>
           \A x \in Words \ s.left : words[SlotOf(s.next)][x] = s.sample[x]
    /\ s.pc = "publish" => /\ guard[SlotOf(s.next)] = Stable(s.next)
                           /\ words[SlotOf(s.next)] = s.sample

\* What holds of a reader with locals s.
ReaderOK(s) ==
    /\ s.pc \in {"before", "words", "latest"} => s.sequence \in 1 .. published
    /\ s.pc \in {"words", "latest"} /\ published = s.sequence =>
           \A x \in Words \ s.left : s.got[x] = log[s.sequence][x]
    /\ s.pc = "latest" => s.left = {}

IInv == /\ StreamTypeOK
        /\ Len(log) = published
        /\ LatestIsIntact
        /\ \A w \in Writers : WriterOK(w, writer[w])
        /\ \A r \in Readers : ReaderOK(reader[r])

\* Two slots: the next number never falls on the slot of the latest.
LEMMA OtherSlot ==
  ASSUME NEW n \in Nat
  PROVE  SlotOf(n) \in 0 .. 1 /\ SlotOf(n + 1) \in 0 .. 1 /\ SlotOf(n + 1) # SlotOf(n)
  BY DEF SlotOf

LEMMA OutTyped ==
  /\ Blank \in Payloads /\ Out \in WriterLocals
  /\ \A n \in 0 .. MaxSequence + 1 :
        Holds(n) \in WriterLocals /\ Holds(n).pc = "idle" /\ Holds(n).next = n
  /\ [Out EXCEPT !.pc = "dead"] \in WriterLocals
<1>1. Blank \in Payloads
  BY DEF Blank, Payloads
<1>2. Out \in WriterLocals
  BY <1>1, StreamAssumption DEF Out, WriterLocals
<1>3. ASSUME NEW n \in 0 .. MaxSequence + 1
      PROVE  Holds(n) \in WriterLocals /\ Holds(n).pc = "idle" /\ Holds(n).next = n
  BY <1>2 DEF Holds, WriterLocals
<1>4. [Out EXCEPT !.pc = "dead"] \in WriterLocals
  BY <1>2 DEF WriterLocals
<1> QED BY <1>1, <1>2, <1>3, <1>4

LEMMA AsleepTyped ==
  ASSUME NEW a \in Answers
  PROVE  Asleep(a) \in ReaderLocals /\ ReaderOK(Asleep(a)) /\ Asleep(a).answer = a
  BY OutTyped, StreamAssumption DEF Asleep, ReaderLocals, ReaderOK

LEMMA InitIInv == Init => IInv
<1> SUFFICES ASSUME Init PROVE IInv OBVIOUS
<1>1. Asleep([code |-> "none"]) \in ReaderLocals /\ ReaderOK(Asleep([code |-> "none"]))
  BY AsleepTyped DEF Answers
<1>2. /\ StreamTypeOK
  BY <1>1, OutTyped, StreamAssumption DEF Init, StreamTypeOK
<1>3. /\ Len(log) = published /\ LatestIsIntact
  BY DEF Init, LatestIsIntact
<1>4. \A w \in Writers : WriterOK(w, writer[w])
  BY DEF Init, WriterOK, Out
<1>5. \A r \in Readers : ReaderOK(reader[r])
  BY <1>1 DEF Init
<1> QED BY <1>2, <1>3, <1>4, <1>5 DEF IInv

(* the steps of a reader ------------------------------------------------------ *)

LEMMA ReaderMove ==
  ASSUME IInv, NEW r \in Readers, NEW s \in ReaderLocals, ReaderOK(s),
         reader' = [reader EXCEPT ![r] = s],
         UNCHANGED <<layout, published, claim, guard, words, writer, log>>
  PROVE  IInv'
<1>1. reader' \in [Readers -> ReaderLocals] /\ \A q \in Readers : ReaderOK(reader'[q])
  <2> HIDE DEF ReaderLocals, ReaderOK
  <2> QED BY DEF IInv, StreamTypeOK
<1>2. \A q \in Readers : ReaderOK(reader[q])'
  BY <1>1 DEF ReaderOK
<1>3. \A w \in Writers : WriterOK(w, writer[w])'
  BY DEF IInv, WriterOK
<1> QED BY <1>1, <1>2, <1>3 DEF IInv, StreamTypeOK, LatestIsIntact

LEMMA RetryIInv ==
  ASSUME IInv, NEW r \in Readers, Retry(r),
         UNCHANGED <<layout, published, claim, guard, words, writer, log>>
  PROVE  IInv'
<1>0. reader[r] \in ReaderLocals
  <2> HIDE DEF ReaderLocals
  <2> QED BY DEF IInv, StreamTypeOK
<1>1. CASE reader[r].attempt < MaxAttempts
  <2> DEFINE s == [Asleep(reader[r].answer) EXCEPT
                      !.pc = "sequence", !.attempt = reader[r].attempt + 1]
  <2>1. reader' = [reader EXCEPT ![r] = s]
    BY <1>1 DEF Retry
  <2>2. Asleep(reader[r].answer) \in ReaderLocals
    BY <1>0, AsleepTyped DEF ReaderLocals
  <2>3. reader[r].attempt + 1 \in 0 .. MaxAttempts
    BY <1>0, <1>1, StreamAssumption DEF ReaderLocals
  <2>4. s \in ReaderLocals /\ s.pc = "sequence"
    BY <2>2, <2>3 DEF ReaderLocals
  <2>5. ReaderOK(s)
    BY <2>4 DEF ReaderOK
  <2> QED BY <2>1, <2>4, <2>5, ReaderMove
<1>2. CASE ~(reader[r].attempt < MaxAttempts)
  <2> DEFINE s == Asleep([code |-> "contended"])
  <2>1. reader' = [reader EXCEPT ![r] = s]
    BY <1>2 DEF Retry
  <2>2. s \in ReaderLocals /\ ReaderOK(s)
    BY AsleepTyped DEF Answers
  <2> QED BY <2>1, <2>2, ReaderMove
<1> QED BY <1>1, <1>2

LEMMA LoadSequenceIInv ==
  ASSUME IInv, NEW r \in Readers, LoadSequence(r)
  PROVE  IInv'
<1>0. reader[r] \in ReaderLocals /\ published \in 0 .. MaxSequence
  <2> HIDE DEF ReaderLocals
  <2> QED BY DEF IInv, StreamTypeOK
<1>1. CASE published = 0
  <2>1. reader' = [reader EXCEPT ![r] = Asleep([code |-> "no_data"])]
    BY <1>1 DEF LoadSequence
  <2>2. [code |-> "no_data"] \in Answers
    BY DEF Answers
  <2> QED BY <2>1, <2>2, AsleepTyped, ReaderMove DEF LoadSequence
<1>2. CASE published # 0
  <2> DEFINE s == [reader[r] EXCEPT !.pc = "before", !.sequence = published]
  <2>1. reader' = [reader EXCEPT ![r] = s]
    BY <1>2 DEF LoadSequence
  <2>2. s \in ReaderLocals /\ s.pc = "before" /\ s.sequence = published
    BY <1>0 DEF ReaderLocals
  <2>3. published \in 1 .. published
    BY <1>0, <1>2, StreamAssumption
  <2>4. ReaderOK(s)
    BY <2>2, <2>3 DEF ReaderOK
  <2> QED BY <2>1, <2>2, <2>4, ReaderMove DEF LoadSequence
<1> QED BY <1>1, <1>2

LEMMA LoadBeforeIInv ==
  ASSUME IInv, NEW r \in Readers, LoadBefore(r)
  PROVE  IInv'
<1>0. reader[r] \in ReaderLocals /\ ReaderOK(reader[r])
  <2> HIDE DEF ReaderLocals
  <2> QED BY DEF IInv, StreamTypeOK
<1>1. CASE guard[SlotOf(reader[r].sequence)] = Stable(reader[r].sequence)
  <2> DEFINE s == [reader[r] EXCEPT !.pc = "words", !.left = Words]
  <2>1. reader' = [reader EXCEPT ![r] = s]
    BY <1>0, <1>1 DEF LoadBefore, ReaderLocals
  <2>2. s \in ReaderLocals /\ ReaderOK(s)
    BY <1>0 DEF ReaderLocals, ReaderOK, LoadBefore, Reads
  <2> QED BY <2>1, <2>2, ReaderMove DEF LoadBefore
<1>2. CASE guard[SlotOf(reader[r].sequence)] # Stable(reader[r].sequence)
  BY <1>2, RetryIInv DEF LoadBefore
<1> QED BY <1>1, <1>2

LEMMA LoadWordIInv ==
  ASSUME IInv, NEW r \in Readers, LoadWord(r)
  PROVE  IInv'
<1>0. /\ reader[r] \in ReaderLocals /\ ReaderOK(reader[r])
      /\ words \in [0 .. 1 -> Payloads] /\ published \in Nat /\ LatestIsIntact
  <2> HIDE DEF ReaderLocals, ReaderOK, LatestIsIntact
  <2> QED BY StreamAssumption DEF IInv, StreamTypeOK
<1>1. PICK x \in reader[r].left :
          reader' = [reader EXCEPT
                        ![r].got[x] = words[SlotOf(reader[r].sequence)][x],
                        ![r].left = @ \ {x}]
  BY DEF LoadWord
<1> DEFINE v == words[SlotOf(reader[r].sequence)][x]
           s == [reader[r] EXCEPT !.got[x] = v, !.left = @ \ {x}]
<1>2. reader' = [reader EXCEPT ![r] = s]
  BY <1>0, <1>1 DEF ReaderLocals
<1>3. x \in Words /\ reader[r].sequence \in 1 .. published /\ reader[r].pc = "words"
  BY <1>0 DEF ReaderLocals, ReaderOK, LoadWord, Reads
<1>4. v \in Values \cup {Empty}
  BY <1>0, <1>3, OtherSlot DEF Payloads
<1>5. /\ s \in ReaderLocals /\ s.pc = "words" /\ s.sequence = reader[r].sequence
      /\ s.left = reader[r].left \ {x}
      /\ s.got[x] = v
      /\ \A y \in Words : y # x => s.got[y] = reader[r].got[y]
  BY <1>0, <1>3, <1>4 DEF ReaderLocals, Payloads
<1>6. ASSUME published = s.sequence, NEW y \in Words \ s.left
      PROVE  s.got[y] = log[s.sequence][y]
  <2>1. CASE y = x
    BY <1>0, <1>3, <1>5, <1>6, <2>1 DEF LatestIsIntact
  <2>2. CASE y # x
    BY <1>0, <1>3, <1>5, <1>6, <2>2 DEF ReaderOK
  <2> QED BY <2>1, <2>2
<1>7. ReaderOK(s)
  BY <1>3, <1>5, <1>6 DEF ReaderOK
<1> QED BY <1>2, <1>5, <1>7, ReaderMove DEF LoadWord

LEMMA LoadAfterIInv ==
  ASSUME IInv, NEW r \in Readers, LoadAfter(r)
  PROVE  IInv'
<1>0. reader[r] \in ReaderLocals /\ ReaderOK(reader[r])
  <2> HIDE DEF ReaderLocals
  <2> QED BY DEF IInv, StreamTypeOK
<1> DEFINE b == guard[SlotOf(reader[r].sequence)] = Stable(reader[r].sequence)
           s == [reader[r] EXCEPT !.pc = "latest", !.stable = b]
<1>1. reader' = [reader EXCEPT ![r] = s]
  BY <1>0 DEF LoadAfter, ReaderLocals
<1>2. b \in BOOLEAN
  OBVIOUS
<1>3. s \in ReaderLocals /\ ReaderOK(s)
  <2> HIDE DEF b
  <2> QED BY <1>0, <1>2 DEF ReaderLocals, ReaderOK, LoadAfter, Reads
<1> QED BY <1>1, <1>3, ReaderMove DEF LoadAfter

LEMMA LoadLatestIInv ==
  ASSUME IInv, NEW r \in Readers, LoadLatest(r)
  PROVE  IInv'
<1>0. reader[r] \in ReaderLocals /\ ReaderOK(reader[r])
  <2> HIDE DEF ReaderLocals
  <2> QED BY DEF IInv, StreamTypeOK
<1>1. CASE Accepts(r)
  <2> DEFINE a == [code |-> "ok", sequence |-> reader[r].sequence,
                   sample |-> reader[r].got]
  <2>1. reader' = [reader EXCEPT ![r] = Asleep(a)]
    BY <1>0, <1>1 DEF LoadLatest
  <2>2. reader[r].sequence \in 1 .. MaxSequence /\ reader[r].got \in Samples
    <3>1. reader[r].sequence \in 1 .. published /\ published \in 0 .. MaxSequence
      BY <1>0 DEF LoadLatest, Reads, ReaderOK, IInv, StreamTypeOK
    <3> QED BY <1>1, <3>1, StreamAssumption DEF Accepts
  <2>3. a \in Answers
    BY <2>2 DEF Answers
  <2> QED BY <2>1, <2>3, AsleepTyped, ReaderMove DEF LoadLatest
<1>2. CASE ~Accepts(r)
  BY <1>2, RetryIInv DEF LoadLatest
<1> QED BY <1>1, <1>2

LEMMA ReaderIInv ==
  ASSUME IInv, NEW r \in Readers, Reader(r)
  PROVE  IInv'
<1>1. CASE BeginRead(r)
  BY <1>1, RetryIInv DEF BeginRead
<1> QED BY <1>1, LoadSequenceIInv, LoadBeforeIInv, LoadWordIInv, LoadAfterIInv,
           LoadLatestIInv DEF Reader

(* the steps of a writer ------------------------------------------------------ *)

\* A step of w that stores nothing into the mapping but the claim.
LEMMA WriterMove ==
  ASSUME IInv, NEW w \in Writers, NEW s \in WriterLocals,
         writer' = [writer EXCEPT ![w] = s],
         UNCHANGED <<layout, published, guard, words, reader, log>>,
         claim' = claim \/ (claim \in {w, Nobody} /\ claim' \in {w, Nobody}),
         WriterOK(w, s)'
  PROVE  IInv'
<1>1. writer' \in [Writers -> WriterLocals] /\ claim' \in Writers \cup {Nobody}
  <2> HIDE DEF WriterLocals
  <2> QED BY DEF IInv, StreamTypeOK
<1>2. ASSUME NEW v \in Writers PROVE WriterOK(v, writer[v])'
  <2>1. CASE v = w
    BY <2>1 DEF IInv, StreamTypeOK, WriterOK
  <2>2. CASE v # w
    <3>1. WriterOK(v, writer[v]) /\ writer'[v] = writer[v]
      BY <2>2 DEF IInv
    <3>2. claim = v => claim' = v
      BY <2>2, StreamAssumption
    <3> QED BY <3>1, <3>2 DEF WriterOK
  <2> QED BY <2>1, <2>2
<1>3. \A r \in Readers : ReaderOK(reader[r])'
  BY DEF IInv, ReaderOK
<1> QED BY <1>1, <1>2, <1>3 DEF IInv, StreamTypeOK, LatestIsIntact

\* What a writer's step starts from.
LEMMA Here ==
  ASSUME IInv, NEW w \in Writers
  PROVE  /\ writer[w] \in WriterLocals /\ WriterOK(w, writer[w])
         /\ published \in 0 .. MaxSequence /\ w # Nobody
<1> HIDE DEF WriterLocals
<1> QED BY StreamAssumption DEF IInv, StreamTypeOK

LEMMA ClaimIInv ==
  ASSUME IInv, NEW w \in Writers, ClaimStream(w) \/ ResumeAfter(w)
  PROVE  IInv'
<1>0. /\ writer[w] \in WriterLocals /\ WriterOK(w, writer[w])
      /\ published \in 0 .. MaxSequence
  BY Here
<1>1. CASE ClaimStream(w)
  <2>0. PICK s : s = [writer[w] EXCEPT !.pc = "claimed"]
    OBVIOUS
  <2>1. writer' = [writer EXCEPT ![w] = s] /\ s \in WriterLocals /\ s.pc = "claimed"
    BY <1>0, <1>1, <2>0 DEF ClaimStream, WriterLocals
  <2>2. WriterOK(w, s)'
    BY <1>1, <2>1 DEF WriterOK, ClaimStream
  <2> QED BY <1>1, <2>1, <2>2, WriterMove DEF ClaimStream
<1>2. CASE ResumeAfter(w)
  <2>1. published + 1 \in 0 .. MaxSequence + 1
    BY <1>0, StreamAssumption
  <2>2. /\ Holds(published + 1) \in WriterLocals
        /\ Holds(published + 1).pc = "idle" /\ Holds(published + 1).next = published + 1
    BY <2>1, OutTyped
  <2>3. writer' = [writer EXCEPT ![w] = Holds(published + 1)]
    BY <1>2 DEF ResumeAfter
  <2>4. claim = w /\ UNCHANGED <<claim, published>>
    BY <1>0, <1>2 DEF WriterOK, ResumeAfter, Writes
  <2>5. WriterOK(w, Holds(published + 1))'
    BY <2>2, <2>4 DEF WriterOK, Holds, Out
  <2> QED BY <1>2, <2>2, <2>3, <2>5, WriterMove DEF ResumeAfter
<1> QED BY <1>1, <1>2

LEMMA LeaveIInv ==
  ASSUME IInv, NEW w \in Writers, ReleaseStream(w) \/ Die(w)
  PROVE  IInv'
<1>1. CASE ReleaseStream(w)
  <2>1. WriterOK(w, Out)'
    BY DEF WriterOK, Out
  <2> QED BY <1>1, <2>1, OutTyped, WriterMove DEF ReleaseStream
<1>2. CASE Die(w)
  <2>0. PICK s : s = [Out EXCEPT !.pc = "dead"]
    OBVIOUS
  <2>1. s \in WriterLocals /\ s.pc = "dead"
    BY <2>0, OutTyped DEF Out
  <2>2. WriterOK(w, s)'
    BY <2>1 DEF WriterOK, Out
  <2> QED BY <1>2, <2>0, <2>1, <2>2, WriterMove DEF Die
<1> QED BY <1>1, <1>2

LEMMA PublishIInv ==
  ASSUME IInv, NEW w \in Writers, Publish(w)
  PROVE  IInv'
<1>0. writer[w] \in WriterLocals /\ WriterOK(w, writer[w])
  BY Here
<1>1. PICK a \in Samples :
          writer' = [writer EXCEPT ![w].pc = "store", ![w].sample = a, ![w].left = Words]
  BY DEF Publish
<1>p. PICK s : s = [writer[w] EXCEPT !.pc = "store", !.sample = a, !.left = Words]
  OBVIOUS
<1>2. writer' = [writer EXCEPT ![w] = s]
  BY <1>0, <1>1, <1>p DEF WriterLocals
<1>3. a \in Payloads
  BY DEF Samples, Payloads
<1>4. /\ s \in WriterLocals /\ s.pc = "store" /\ s.sample = a /\ s.left = Words
      /\ s.next = writer[w].next
  BY <1>0, <1>3, <1>p DEF WriterLocals
<1>5. WriterOK(w, s)'
  BY <1>0, <1>4 DEF WriterOK, Publish, Writes
<1> QED BY <1>2, <1>4, <1>5, WriterMove DEF Publish

\* A step of w that stores into the slot it is writing.
LEMMA StoreMove ==
  ASSUME IInv, NEW w \in Writers, NEW s \in WriterLocals, writer[w].pc = "store",
         writer' = [writer EXCEPT ![w] = s],
         UNCHANGED <<layout, published, claim, reader, log>>,
         guard' \in [0 .. 1 -> 0 .. 2 * MaxSequence + 1],
         words' \in [0 .. 1 -> Payloads],
         \A k \in 0 .. 1 : k # SlotOf(published + 1) =>
                               guard'[k] = guard[k] /\ words'[k] = words[k],
         WriterOK(w, s)'
  PROVE  IInv'
<1>1. writer' \in [Writers -> WriterLocals] /\ writer'[w] = s
  <2> HIDE DEF WriterLocals
  <2> QED BY DEF IInv, StreamTypeOK
<1>2. claim = w /\ published \in Nat
  BY Here, StreamAssumption DEF WriterOK
<1>3. ASSUME NEW v \in Writers PROVE WriterOK(v, writer[v])'
  <2>1. CASE v = w
    BY <1>1, <2>1
  <2>2. CASE v # w
    <3>1. WriterOK(v, writer[v]) /\ writer'[v] = writer[v]
      BY <2>2 DEF IInv
    <3>2. writer[v].pc \notin {"claimed", "idle", "store", "publish"}
      BY <1>2, <2>2, <3>1 DEF WriterOK
    <3> QED BY <3>1, <3>2 DEF WriterOK
  <2> QED BY <2>1, <2>2
<1>4. LatestIsIntact'
  BY <1>2, OtherSlot DEF IInv, LatestIsIntact
<1>5. \A r \in Readers : ReaderOK(reader[r])'
  BY DEF IInv, ReaderOK
<1> QED BY <1>1, <1>3, <1>4, <1>5 DEF IInv, StreamTypeOK

LEMMA ExchangeGuardIInv ==
  ASSUME IInv, NEW w \in Writers, ExchangeGuard(w)
  PROVE  IInv'
<1>0. /\ writer[w] \in WriterLocals /\ WriterOK(w, writer[w])
      /\ published \in 0 .. MaxSequence /\ writer[w].pc = "store"
  BY Here DEF ExchangeGuard, Writes
<1>1. /\ writer[w].next = published + 1 /\ published + 1 \in 0 .. MaxSequence
      /\ SlotOf(published + 1) \in 0 .. 1
      /\ Stable(published + 1) + 1 \in 0 .. 2 * MaxSequence + 1
  BY <1>0, StreamAssumption, OtherSlot DEF WriterOK, Stable
<1>p. PICK s : s = [writer[w] EXCEPT !.odd = TRUE]
  OBVIOUS
<1>2. /\ writer' = [writer EXCEPT ![w] = s] /\ s \in WriterLocals
      /\ s.pc = "store" /\ s.next = published + 1
      /\ s.sample = writer[w].sample /\ s.left = writer[w].left
  BY <1>0, <1>1, <1>p DEF ExchangeGuard, WriterLocals
<1>3. /\ guard' \in [0 .. 1 -> 0 .. 2 * MaxSequence + 1]
      /\ \A k \in 0 .. 1 : k # SlotOf(published + 1) => guard'[k] = guard[k]
      /\ UNCHANGED <<published, claim, words>> /\ words \in [0 .. 1 -> Payloads]
  BY <1>1 DEF ExchangeGuard, IInv, StreamTypeOK
<1>4. WriterOK(w, s)'
  BY <1>0, <1>2, <1>3 DEF WriterOK
<1> QED BY <1>0, <1>2, <1>3, <1>4, StoreMove DEF ExchangeGuard

LEMMA StoreWordIInv ==
  ASSUME IInv, NEW w \in Writers, StoreWord(w)
  PROVE  IInv'
<1>0. /\ writer[w] \in WriterLocals /\ WriterOK(w, writer[w])
      /\ published \in Nat /\ writer[w].pc = "store"
  BY Here, StreamAssumption DEF StoreWord, Writes
<1>1. writer[w].next = published + 1 /\ SlotOf(published + 1) \in 0 .. 1
  BY <1>0, OtherSlot DEF WriterOK
<1>2. PICK x \in writer[w].left :
        /\ words' = [words EXCEPT ![SlotOf(writer[w].next)][x] = writer[w].sample[x]]
        /\ writer' = [writer EXCEPT ![w].left = @ \ {x}]
  BY DEF StoreWord
<1>p. PICK s : s = [writer[w] EXCEPT !.left = @ \ {x}]
  OBVIOUS
<1>3. /\ writer' = [writer EXCEPT ![w] = s] /\ s \in WriterLocals
      /\ s.pc = "store" /\ s.next = published + 1 /\ x \in Words
      /\ s.sample = writer[w].sample /\ s.left = writer[w].left \ {x}
  BY <1>0, <1>1, <1>2, <1>p DEF WriterLocals
<1>4. /\ words \in [0 .. 1 -> Payloads]
      /\ words[SlotOf(published + 1)] \in [Words -> Values \cup {Empty}]
      /\ writer[w].sample \in Samples
  BY <1>0, <1>1 DEF WriterOK, IInv, StreamTypeOK, Payloads
<1>5. /\ words' \in [0 .. 1 -> Payloads]
      /\ \A k \in 0 .. 1 : k # SlotOf(published + 1) => words'[k] = words[k]
      /\ words'[SlotOf(published + 1)][x] = s.sample[x]
      /\ \A y \in Words : y # x =>
             words'[SlotOf(published + 1)][y] = words[SlotOf(published + 1)][y]
  BY <1>1, <1>2, <1>3, <1>4 DEF Samples, Payloads
<1>6. UNCHANGED <<published, claim, guard>> /\ guard \in [0 .. 1 -> 0 .. 2 * MaxSequence + 1]
  BY DEF StoreWord, IInv, StreamTypeOK
<1>7. WriterOK(w, s)'
  BY <1>0, <1>1, <1>3, <1>4, <1>5, <1>6 DEF WriterOK
<1> QED BY <1>0, <1>3, <1>5, <1>6, <1>7, StoreMove, StreamAssumption DEF StoreWord

LEMMA StoreGuardIInv ==
  ASSUME IInv, NEW w \in Writers, StoreGuard(w)
  PROVE  IInv'
<1>0. /\ writer[w] \in WriterLocals /\ WriterOK(w, writer[w])
      /\ published \in 0 .. MaxSequence /\ writer[w].pc = "store"
  BY Here DEF StoreGuard, Writes
<1>1. /\ writer[w].next = published + 1 /\ published + 1 \in 0 .. MaxSequence
      /\ SlotOf(published + 1) \in 0 .. 1
      /\ Stable(published + 1) \in 0 .. 2 * MaxSequence + 1
  BY <1>0, StreamAssumption, OtherSlot DEF WriterOK, Stable
<1>p. PICK s : s = [writer[w] EXCEPT !.pc = "publish"]
  OBVIOUS
<1>2. /\ writer' = [writer EXCEPT ![w] = s] /\ s \in WriterLocals
      /\ s.pc = "publish" /\ s.next = published + 1 /\ s.sample = writer[w].sample
  BY <1>0, <1>1, <1>p DEF StoreGuard, WriterLocals
<1>3. /\ guard' \in [0 .. 1 -> 0 .. 2 * MaxSequence + 1]
      /\ guard'[SlotOf(published + 1)] = Stable(published + 1)
      /\ \A k \in 0 .. 1 : k # SlotOf(published + 1) => guard'[k] = guard[k]
      /\ UNCHANGED <<published, claim, words>> /\ words \in [0 .. 1 -> Payloads]
  BY <1>1 DEF StoreGuard, IInv, StreamTypeOK
<1>4. words[SlotOf(published + 1)] = writer[w].sample
  <2>1. \A x \in Words : words[SlotOf(published + 1)][x] = writer[w].sample[x]
    BY <1>0, <1>1 DEF WriterOK, StoreGuard
  <2>2. /\ words[SlotOf(published + 1)] \in [Words -> Values \cup {Empty}]
        /\ writer[w].sample \in [Words -> Values]
    BY <1>0, <1>1, <1>3 DEF WriterOK, Payloads, Samples
  <2> QED BY <2>1, <2>2
<1>5. WriterOK(w, s)'
  BY <1>0, <1>1, <1>2, <1>3, <1>4 DEF WriterOK
<1> QED BY <1>0, <1>2, <1>3, <1>5, StoreMove DEF StoreGuard

LEMMA StorePublishedIInv ==
  ASSUME IInv, NEW w \in Writers, StorePublished(w)
  PROVE  IInv'
<1>0. /\ writer[w] \in WriterLocals /\ WriterOK(w, writer[w])
      /\ published \in 0 .. MaxSequence /\ writer[w].pc = "publish" /\ claim = w
  BY Here DEF StorePublished, Writes, WriterOK
<1>1. /\ writer[w].next = published + 1 /\ published + 1 \in 0 .. MaxSequence
      /\ writer[w].sample \in Samples
  BY <1>0, StreamAssumption DEF WriterOK
<1>p. PICK s : s = Holds(published + 2)
  OBVIOUS
<1>2. /\ writer' = [writer EXCEPT ![w] = s] /\ s \in WriterLocals
      /\ s.pc = "idle" /\ s.next = published + 2
  <2>1. published + 2 \in 0 .. MaxSequence + 1 /\ writer[w].next + 1 = published + 2
    BY <1>0, <1>1, StreamAssumption
  <2> QED BY <1>p, <2>1, OutTyped DEF StorePublished
<1>3. /\ published' = published + 1 /\ log' = Append(log, writer[w].sample)
      /\ UNCHANGED <<layout, claim, guard, words, reader>>
  BY <1>1 DEF StorePublished
<1>4. /\ log' \in Seq(Samples) /\ Len(log') = published'
      /\ log'[published + 1] = writer[w].sample
      /\ \A k \in 1 .. published : log'[k] = log[k]
  <2>1. log \in Seq(Samples) /\ Len(log) = published
    BY DEF IInv, StreamTypeOK
  <2> QED BY <1>1, <1>3, <2>1, AppendProperties
<1>5. StreamTypeOK'
  <2>1. writer' \in [Writers -> WriterLocals]
    <3> HIDE DEF WriterLocals
    <3> QED BY <1>2 DEF IInv, StreamTypeOK
  <2> QED BY <1>1, <1>3, <1>4, <2>1 DEF IInv, StreamTypeOK
<1>6. LatestIsIntact'
  BY <1>0, <1>1, <1>3, <1>4 DEF LatestIsIntact, WriterOK
<1>7. ASSUME NEW v \in Writers PROVE WriterOK(v, writer[v])'
  <2>1. CASE v = w
    <3>1. writer'[w] = s
      BY <1>2 DEF IInv, StreamTypeOK
    <3>2. s.next = published' + 1
      BY <1>0, <1>2, <1>3
    <3> QED BY <1>0, <1>2, <1>3, <2>1, <3>1, <3>2 DEF WriterOK
  <2>2. CASE v # w
    <3>1. WriterOK(v, writer[v]) /\ writer'[v] = writer[v]
      BY <1>2, <2>2 DEF IInv
    <3>2. writer[v].pc \notin {"claimed", "idle", "store", "publish"}
      BY <1>0, <2>2, <3>1 DEF WriterOK
    <3> QED BY <3>1, <3>2 DEF WriterOK
  <2> QED BY <2>1, <2>2
<1>8. ASSUME NEW r \in Readers PROVE ReaderOK(reader[r])'
  <2>1. ReaderOK(reader[r]) /\ reader'[r] = reader[r]
    BY <1>3 DEF IInv
  <2>2. reader[r].sequence \in 1 .. published =>
           /\ reader[r].sequence \in 1 .. published'
           /\ reader[r].sequence # published'
    BY <1>0, <1>3
  <2> QED BY <2>1, <2>2 DEF ReaderOK
<1> QED BY <1>4, <1>5, <1>6, <1>7, <1>8 DEF IInv

LEMMA WriterIInv ==
  ASSUME IInv, NEW w \in Writers, Writer(w)
  PROVE  IInv'
BY ClaimIInv, LeaveIInv, PublishIInv, ExchangeGuardIInv, StoreWordIInv,
   StoreGuardIInv, StorePublishedIInv DEF Writer

\* A step that changes nothing but the layout's state.
LEMMA LayoutIInv ==
  ASSUME IInv, layout' \in {"absent", "sized", "ready"},
         UNCHANGED <<published, claim, guard, words, writer, reader, log>>
  PROVE  IInv'
<1>1. \A w \in Writers : WriterOK(w, writer[w])'
  BY DEF IInv, WriterOK
<1>2. \A r \in Readers : ReaderOK(reader[r])'
  BY DEF IInv, ReaderOK
<1>3. StreamTypeOK' /\ LatestIsIntact'
  BY DEF IInv, StreamTypeOK, LatestIsIntact
<1> QED BY <1>1, <1>2, <1>3 DEF IInv

LEMMA NextIInv == IInv /\ [Next]_streamVars => IInv'
<1> SUFFICES ASSUME IInv, [Next]_streamVars PROVE IInv'
  OBVIOUS
<1>1. CASE Create \/ CreateFails \/ CommitLayout
  BY <1>1, LayoutIInv DEF Create, CreateFails, CommitLayout
<1>2. CASE \E w \in Writers : Writer(w)
  BY <1>2, WriterIInv
<1>3. CASE \E r \in Readers : Reader(r)
  BY <1>3, ReaderIInv
<1>4. CASE UNCHANGED streamVars
  <2>1. layout' \in {"absent", "sized", "ready"}
    BY <1>4 DEF streamVars, IInv, StreamTypeOK
  <2> QED BY <1>4, <2>1, LayoutIInv DEF streamVars
<1> QED BY <1>1, <1>2, <1>3, <1>4 DEF Next

(* the theorems ---------------------------------------------------------------- *)

\* What the proof of everything below rests on.
THEOREM Invariant == Spec => []IInv
<1>1. Init => IInv
  BY InitIInv
<1>2. IInv /\ [Next]_streamVars => IInv'
  BY NextIInv
<1> QED BY <1>1, <1>2, PTL DEF Spec

\* The shared words and everybody's locals keep their types.
THEOREM TypeCorrect == Spec => []StreamTypeOK
<1>1. IInv => StreamTypeOK
  BY DEF IInv
<1> QED BY <1>1, Invariant, PTL

\* The slot of the latest sample holds it, whole and under its own even guard,
\* whatever the writers do and whenever they die.
THEOREM LatestStands == Spec => []LatestIsIntact
<1>1. IInv => LatestIsIntact
  BY DEF IInv
<1> QED BY <1>1, Invariant, PTL

(* the refinement -------------------------------------------------------------- *)

LEMMA InitMaps == Init => Log!Init
<1> SUFFICES ASSUME Init PROVE Log!Init
  OBVIOUS
<1>1. {w \in Writers : writer[w].pc = "dead"} = {}
  BY DEF Init, Out
<1>2. [r \in Readers |-> reader[r].answer] = [r \in Readers |-> [code |-> "none"]]
  BY DEF Init, Asleep
<1> QED BY <1>1, <1>2 DEF Init, Log!Init

\* A step of a reader that leaves its answer alone, or gives one the log allows.
LEMMA ReaderMaps ==
  ASSUME IInv, NEW r \in Readers, NEW s, reader' = [reader EXCEPT ![r] = s],
         UNCHANGED <<claim, writer, log>>,
         s.answer = reader[r].answer \/ s.answer \in Log!Answers
  PROVE  Log!Next \/ UNCHANGED Log!logVars
<1>1. /\ \A q \in Readers : reader'[q] = IF q = r THEN s ELSE reader[q]
  <2> HIDE DEF ReaderLocals
  <2> QED BY DEF IInv, StreamTypeOK
<1>2. UNCHANGED <<log, claim, {w \in Writers : writer[w].pc = "dead"}>>
  OBVIOUS
<1>3. [q \in Readers |-> reader[q].answer]'
          = [[q \in Readers |-> reader[q].answer] EXCEPT ![r] = s.answer]
  <2>1. [q \in Readers |-> reader'[q].answer]
            = [q \in Readers |-> IF q = r THEN s.answer ELSE reader[q].answer]
    BY <1>1
  <2>2. [[q \in Readers |-> reader[q].answer] EXCEPT ![r] = s.answer]
            = [q \in Readers |-> IF q = r THEN s.answer ELSE reader[q].answer]
    OBVIOUS
  <2> QED BY <2>1, <2>2
<1>4. CASE s.answer = reader[r].answer
  <2>1. UNCHANGED [q \in Readers |-> reader[q].answer]
    BY <1>1, <1>4
  <2> QED BY <1>2, <2>1 DEF Log!logVars
<1>5. CASE s.answer \in Log!Answers
  <2>1. Log!Answer(r)
    BY <1>2, <1>3, <1>5 DEF Log!Answer
  <2> QED BY <2>1 DEF Log!Next
<1> QED BY <1>4, <1>5

LEMMA RetryMaps ==
  ASSUME IInv, NEW r \in Readers, Retry(r), UNCHANGED <<claim, writer, log>>
  PROVE  Log!Next \/ UNCHANGED Log!logVars
<1>1. CASE reader[r].attempt < MaxAttempts
  <2>1. PICK s : s = [Asleep(reader[r].answer) EXCEPT
                         !.pc = "sequence", !.attempt = reader[r].attempt + 1]
    OBVIOUS
  <2>2. reader' = [reader EXCEPT ![r] = s] /\ s.answer = reader[r].answer
    BY <1>1, <2>1 DEF Retry, Asleep
  <2> QED BY <2>2, ReaderMaps
<1>2. CASE ~(reader[r].attempt < MaxAttempts)
  <2>1. PICK s : s = Asleep([code |-> "contended"])
    OBVIOUS
  <2>2. reader' = [reader EXCEPT ![r] = s] /\ s.answer \in Log!Answers
    BY <1>2, <2>1 DEF Retry, Asleep, Log!Answers
  <2> QED BY <2>2, ReaderMaps
<1> QED BY <1>1, <1>2

\* What a reader accepts is the last entry of the log: its number is still the
\* latest, so every word it has read is the entry's.
LEMMA AcceptedIsLatest ==
  ASSUME IInv, NEW r \in Readers, reader[r].pc = "latest", Accepts(r)
  PROVE  /\ reader[r].sequence = Len(log) /\ log # <<>>
         /\ reader[r].got = log[Len(log)]
<1>1. /\ ReaderOK(reader[r]) /\ Len(log) = published
      /\ log \in Seq(Samples)
  BY DEF IInv, StreamTypeOK
<1>2. reader[r].sequence = published /\ published \in 1 .. published
      /\ reader[r].got \in Samples
  BY <1>1 DEF Accepts, ReaderOK
<1>3. published \in 1 .. Len(log) /\ log[published] \in Samples
  BY <1>1, <1>2
<1>4. \A x \in Words : reader[r].got[x] = log[published][x]
  BY <1>1, <1>2 DEF ReaderOK
<1>5. reader[r].got = log[published]
  BY <1>2, <1>3, <1>4 DEF Samples
<1> QED BY <1>1, <1>2, <1>3, <1>5

LEMMA ReadMaps ==
  ASSUME IInv, NEW r \in Readers, Reader(r)
  PROVE  Log!Next \/ UNCHANGED Log!logVars
<1>0. reader[r] \in ReaderLocals /\ UNCHANGED <<claim, writer, log>>
  <2>1. reader[r] \in ReaderLocals
    <3> HIDE DEF ReaderLocals
    <3> QED BY DEF IInv, StreamTypeOK
  <2> QED BY <2>1 DEF Reader, BeginRead, LoadSequence, LoadBefore, LoadWord,
                      LoadAfter, LoadLatest
<1>1. CASE BeginRead(r)
  BY <1>0, <1>1, RetryMaps DEF BeginRead
<1>2. CASE LoadSequence(r) /\ published = 0
  <2>1. PICK s : s = Asleep([code |-> "no_data"])
    OBVIOUS
  <2>2. log = <<>>
    BY <1>2, EmptySeq DEF IInv, StreamTypeOK
  <2>3. reader' = [reader EXCEPT ![r] = s] /\ s.answer \in Log!Answers
    BY <1>2, <2>1, <2>2 DEF LoadSequence, Asleep, Log!Answers
  <2> QED BY <1>0, <2>3, ReaderMaps
<1>3. CASE LoadSequence(r) /\ published # 0
  <2>1. PICK s : s = [reader[r] EXCEPT !.pc = "before", !.sequence = published]
    OBVIOUS
  <2>2. reader' = [reader EXCEPT ![r] = s] /\ s.answer = reader[r].answer
    BY <1>0, <1>3, <2>1 DEF LoadSequence, ReaderLocals
  <2> QED BY <1>0, <2>2, ReaderMaps
<1>4. CASE LoadBefore(r)
  <2>1. CASE guard[SlotOf(reader[r].sequence)] = Stable(reader[r].sequence)
    <3>1. PICK s : s = [reader[r] EXCEPT !.pc = "words", !.left = Words]
      OBVIOUS
    <3>2. reader' = [reader EXCEPT ![r] = s] /\ s.answer = reader[r].answer
      BY <1>0, <1>4, <2>1, <3>1 DEF LoadBefore, ReaderLocals
    <3> QED BY <1>0, <3>2, ReaderMaps
  <2>2. CASE guard[SlotOf(reader[r].sequence)] # Stable(reader[r].sequence)
    BY <1>0, <1>4, <2>2, RetryMaps DEF LoadBefore
  <2> QED BY <2>1, <2>2
<1>5. CASE LoadWord(r)
  <2>1. PICK x \in reader[r].left :
            reader' = [reader EXCEPT
                          ![r].got[x] = words[SlotOf(reader[r].sequence)][x],
                          ![r].left = @ \ {x}]
    BY <1>5 DEF LoadWord
  <2>2. PICK s : s = [reader[r] EXCEPT
                         !.got[x] = words[SlotOf(reader[r].sequence)][x],
                         !.left = @ \ {x}]
    OBVIOUS
  <2>3. reader' = [reader EXCEPT ![r] = s] /\ s.answer = reader[r].answer
    BY <1>0, <2>1, <2>2 DEF ReaderLocals
  <2> QED BY <1>0, <2>3, ReaderMaps
<1>6. CASE LoadAfter(r)
  <2>1. PICK s : s = [reader[r] EXCEPT !.pc = "latest",
                         !.stable = (guard[SlotOf(reader[r].sequence)]
                                         = Stable(reader[r].sequence))]
    OBVIOUS
  <2>2. reader' = [reader EXCEPT ![r] = s] /\ s.answer = reader[r].answer
    BY <1>0, <1>6, <2>1 DEF LoadAfter, ReaderLocals
  <2> QED BY <1>0, <2>2, ReaderMaps
<1>7. CASE LoadLatest(r) /\ Accepts(r)
  <2>1. PICK s : s = Asleep([code |-> "ok", sequence |-> reader[r].sequence,
                             sample |-> reader[r].got])
    OBVIOUS
  <2>2. reader' = [reader EXCEPT ![r] = s]
    BY <1>0, <1>7, <2>1 DEF LoadLatest
  <2>3. s.answer = [code |-> "ok", sequence |-> Len(log), sample |-> log[Len(log)]]
        /\ log # <<>>
    BY <1>7, <2>1, AcceptedIsLatest DEF LoadLatest, Reads, Asleep
  <2>4. s.answer \in Log!Answers
    BY <2>3 DEF Log!Answers
  <2> QED BY <1>0, <2>2, <2>4, ReaderMaps
<1>8. CASE LoadLatest(r) /\ ~Accepts(r)
  BY <1>0, <1>8, RetryMaps DEF LoadLatest
<1> QED BY <1>1, <1>2, <1>3, <1>4, <1>5, <1>6, <1>7, <1>8 DEF Reader

\* A step of w that neither dies nor comes back to life leaves the dead alone.
LEMMA DeadStay ==
  ASSUME IInv, NEW w \in Writers, NEW s, writer' = [writer EXCEPT ![w] = s],
         writer[w].pc # "dead", s.pc # "dead"
  PROVE  {v \in Writers : writer[v].pc = "dead"}'
             = {v \in Writers : writer[v].pc = "dead"}
<1>1. \A v \in Writers : writer'[v] = IF v = w THEN s ELSE writer[v]
  <2> HIDE DEF WriterLocals
  <2> QED BY DEF IInv, StreamTypeOK
<1> QED BY <1>1

LEMMA WriteMaps ==
  ASSUME IInv, NEW w \in Writers, Writer(w)
  PROVE  Log!Next \/ UNCHANGED Log!logVars
<1>0. /\ writer[w] \in WriterLocals /\ WriterOK(w, writer[w]) /\ w # Nobody
      /\ published \in 0 .. MaxSequence /\ Len(log) = published
  BY Here DEF IInv
<1> DEFINE dead == {v \in Writers : writer[v].pc = "dead"}
           answers == [r \in Readers |-> reader[r].answer]
<1>a. ASSUME UNCHANGED reader PROVE UNCHANGED answers
  BY <1>a
<1>b. ASSUME writer[w].pc # "dead" PROVE w \notin dead
  BY <1>b
<1>1. CASE ClaimStream(w)
  <2>1. PICK s : s = [writer[w] EXCEPT !.pc = "claimed"]
    OBVIOUS
  <2>2. writer' = [writer EXCEPT ![w] = s] /\ s.pc # "dead" /\ writer[w].pc # "dead"
    BY <1>0, <1>1, <2>1 DEF ClaimStream, Writes, WriterLocals
  <2>3. UNCHANGED dead
    BY <2>2, DeadStay
  <2>4. Log!Claim(w)
    BY <1>1, <1>a, <1>b, <2>2, <2>3 DEF ClaimStream, Log!Claim
  <2> QED BY <2>4 DEF Log!Next
<1>2. CASE ResumeAfter(w)
  <2>1. writer[w].pc # "dead" /\ Holds(published + 1).pc # "dead"
    BY <1>0, <1>2, OutTyped DEF ResumeAfter, Writes, Holds, Out
  <2>2. UNCHANGED dead
    BY <1>2, <2>1, DeadStay DEF ResumeAfter
  <2> QED BY <1>2, <1>a, <2>2 DEF ResumeAfter, Log!logVars
<1>3. CASE ReleaseStream(w)
  <2>1. writer[w].pc # "dead" /\ Out.pc # "dead"
    BY <1>3 DEF ReleaseStream, Writes, Out
  <2>2. UNCHANGED dead
    BY <1>3, <2>1, DeadStay DEF ReleaseStream
  <2>3. claim = w /\ claim' = Nobody
    BY <1>0, <1>3 DEF ReleaseStream, Writes, WriterOK
  <2>4. Log!Release(w)
    BY <1>3, <1>a, <1>b, <2>1, <2>2, <2>3 DEF ReleaseStream, Log!Release
  <2> QED BY <2>4 DEF Log!Next
<1>4. CASE Publish(w)
  <2>1. PICK a \in Samples : writer' = [writer EXCEPT ![w].pc = "store",
                                           ![w].sample = a, ![w].left = Words]
    BY <1>4 DEF Publish
  <2>2. PICK s : s = [writer[w] EXCEPT !.pc = "store", !.sample = a, !.left = Words]
    OBVIOUS
  <2>3. writer' = [writer EXCEPT ![w] = s] /\ s.pc # "dead" /\ writer[w].pc # "dead"
    BY <1>0, <1>4, <2>1, <2>2 DEF Publish, Writes, WriterLocals
  <2>4. UNCHANGED dead
    BY <2>3, DeadStay
  <2> QED BY <1>4, <1>a, <2>4 DEF Publish, Log!logVars
<1>5. CASE ExchangeGuard(w)
  <2>1. PICK s : s = [writer[w] EXCEPT !.odd = TRUE]
    OBVIOUS
  <2>2. writer' = [writer EXCEPT ![w] = s] /\ s.pc # "dead" /\ writer[w].pc # "dead"
    BY <1>0, <1>5, <2>1 DEF ExchangeGuard, Writes, WriterLocals
  <2>3. UNCHANGED dead
    BY <2>2, DeadStay
  <2> QED BY <1>5, <1>a, <2>3 DEF ExchangeGuard, Log!logVars
<1>6. CASE StoreWord(w)
  <2>1. PICK x \in Words : writer' = [writer EXCEPT ![w].left = @ \ {x}]
    BY <1>0, <1>6 DEF StoreWord, WriterLocals
  <2>2. PICK s : s = [writer[w] EXCEPT !.left = @ \ {x}]
    OBVIOUS
  <2>3. writer' = [writer EXCEPT ![w] = s] /\ s.pc # "dead" /\ writer[w].pc # "dead"
    BY <1>0, <1>6, <2>1, <2>2 DEF StoreWord, Writes, WriterLocals
  <2>4. UNCHANGED dead
    BY <2>3, DeadStay
  <2> QED BY <1>6, <1>a, <2>4 DEF StoreWord, Log!logVars
<1>7. CASE StoreGuard(w)
  <2>1. PICK s : s = [writer[w] EXCEPT !.pc = "publish"]
    OBVIOUS
  <2>2. writer' = [writer EXCEPT ![w] = s] /\ s.pc # "dead" /\ writer[w].pc # "dead"
    BY <1>0, <1>7, <2>1 DEF StoreGuard, Writes, WriterLocals
  <2>3. UNCHANGED dead
    BY <2>2, DeadStay
  <2> QED BY <1>7, <1>a, <2>3 DEF StoreGuard, Log!logVars
<1>8. CASE StorePublished(w)
  <2>1. writer[w].pc # "dead" /\ Holds(writer[w].next + 1).pc # "dead"
    BY <1>8 DEF StorePublished, Writes, Holds, Out
  <2>2. UNCHANGED dead
    BY <1>8, <2>1, DeadStay DEF StorePublished
  <2>3. /\ claim = w /\ writer[w].sample \in Samples
        /\ Len(log) < MaxSequence
    BY <1>0, <1>8, StreamAssumption DEF StorePublished, Writes, WriterOK
  <2>4. Log!Publish(w, writer[w].sample)
    BY <1>8, <1>a, <1>b, <2>1, <2>2, <2>3 DEF StorePublished, Log!Publish
  <2> QED BY <2>3, <2>4 DEF Log!Next
<1>9. CASE Die(w)
  <2>1. PICK s : s = [Out EXCEPT !.pc = "dead"]
    OBVIOUS
  <2>2. writer' = [writer EXCEPT ![w] = s] /\ s.pc = "dead"
    BY <1>9, <2>1 DEF Die, Out
  <2>3. \A v \in Writers : writer'[v] = IF v = w THEN s ELSE writer[v]
    <3> HIDE DEF WriterLocals
    <3> QED BY <2>2 DEF IInv, StreamTypeOK
  <2>4. dead' = dead \cup {w}
    BY <2>2, <2>3
  <2>5. Log!Die(w)
    BY <1>9, <1>a, <2>4 DEF Die, Log!Die
  <2> QED BY <2>5 DEF Log!Next
<1> QED BY <1>1, <1>2, <1>3, <1>4, <1>5, <1>6, <1>7, <1>8, <1>9 DEF Writer

LEMMA StepMaps == IInv /\ [Next]_streamVars => [Log!Next]_(Log!logVars)
<1> SUFFICES ASSUME IInv, [Next]_streamVars
             PROVE  Log!Next \/ UNCHANGED Log!logVars
  OBVIOUS
<1>1. CASE Create \/ CreateFails \/ CommitLayout
  BY <1>1 DEF Create, CreateFails, CommitLayout, Log!logVars
<1>2. CASE \E w \in Writers : Writer(w)
  BY <1>2, WriteMaps
<1>3. CASE \E r \in Readers : Reader(r)
  BY <1>3, ReadMaps
<1>4. CASE UNCHANGED streamVars
  BY <1>4 DEF streamVars, Log!logVars
<1> QED BY <1>1, <1>2, <1>3, <1>4 DEF Next

\* The stream is a log with one writer at a time, and a reader that is answered
\* with a sample is answered with the log's last entry, whole.
THEOREM Implements == Spec => ImplementsTelemetryLog
<1>1. Init => Log!Init
  BY InitMaps
<1>2. IInv /\ [Next]_streamVars => [Log!Next]_(Log!logVars)
  BY StepMaps
<1> QED BY <1>1, <1>2, Invariant, PTL DEF Spec, ImplementsTelemetryLog, Log!Spec
=============================================================================
