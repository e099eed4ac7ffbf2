--------------------------- MODULE TelemetryStream ---------------------------
(* One stream (arm or hand) of the shared telemetry mapping, telemetry.cpp: two
   slots of 64-bit atomic words, each under a guard that is odd while the slot is
   written, and the number of the latest sample.  Writers are processes that map
   the file read-write, readers map it read-only; none of them ever waits.

   Every access to a shared word is a step.  Steps are seen by all processes in
   the order in which they are taken, which is the order of the code but for what
   its memory orders leave open on the processors it is built for: the exchange
   that makes a guard odd is acquire-release, so on AArch64 the payload's relaxed
   stores may be seen before it (never before the publication that precedes it);
   and a reader's relaxed loads may be taken in any order between its two loads
   of the guard, which an acquire and a fence bound.

   A sample is what its words hold; validation accepts every sample that can be
   published and never an empty slot.  publish_count is read by nobody.        *)
EXTENDS Naturals, Sequences

CONSTANTS Writers, Readers,
          Words,          \* the indices of a slot's words
          Values,         \* what a word may hold in a sample
          Empty,          \* what it holds before
          Nobody,         \* writer_claim 0
          MaxSequence,    \* kMaximumSequence
          MaxAttempts     \* a reader's max_attempts

ASSUME StreamAssumption ==
    /\ Nobody \notin Writers /\ Empty \notin Values
    /\ MaxSequence \in Nat /\ MaxAttempts \in Nat

VARIABLES layout,      \* the file, and its bootstrap.state
          published,   \* published_sequence
          claim,       \* writer_claim, by the process whose token it is
          guard,       \* by slot
          words,       \* by slot, by index
          writer,      \* by process: its locals
          reader,      \* by process: its locals and its last ReadResult
          log          \* history: the samples published, by sequence

streamVars == <<layout, published, claim, guard, words, writer, reader, log>>

Samples == [Words -> Values]
Payloads == [Words -> Values \cup {Empty}]

Blank == [x \in Words |-> Empty]

\* Mutant: there is only one slot.
SlotOfOne(n) == 0

\* sequence & 1
SlotOf(n) == n % 2

Stable(n) == 2 * n

\* Locals are kept blank while they mean nothing.
Out == [pc |-> "out", next |-> 0, sample |-> Blank, odd |-> FALSE, left |-> {}]
Holds(n) == [Out EXCEPT !.pc = "idle", !.next = n]

Asleep(a) == [pc |-> "idle", attempt |-> 0, sequence |-> 0, left |-> {},
              got |-> Blank, stable |-> FALSE, answer |-> a]

Init ==
    /\ layout = "absent"
    /\ published = 0 /\ claim = Nobody
    /\ guard = [k \in 0 .. 1 |-> 0]
    /\ words = [k \in 0 .. 1 |-> Blank]
    /\ writer = [w \in Writers |-> Out]
    /\ reader = [r \in Readers |-> Asleep([code |-> "none"])]
    /\ log = <<>>

(* The mapping ------------------------------------------------------------- *)

\* open with O_EXCL and ftruncate: whoever comes second gets kAlreadyExists.
Create ==
    /\ layout = "absent"
    /\ layout' = "sized"
    /\ UNCHANGED <<published, claim, guard, words, writer, reader, log>>

\* A mapping that cannot be made is unlinked again.  (So it is when there is no
\* memory for its owner behind the commit: the file is then as if it had no name.)
CreateFails ==
    /\ layout = "sized"
    /\ layout' = "absent"
    /\ UNCHANGED <<published, claim, guard, words, writer, reader, log>>

\* The words are initialised, and then bootstrap.state is kLayoutReady: before,
\* OpenImpl refuses with kLayoutNotReady.
CommitLayout ==
    /\ layout = "sized"
    /\ layout' = "ready"
    /\ UNCHANGED <<published, claim, guard, words, writer, reader, log>>

(* Writers ----------------------------------------------------------------- *)

Writes(w, pc) == layout = "ready" /\ writer[w].pc = pc

\* claim_stream, with a token that is not zero.
ClaimStream(w) ==
    /\ Writes(w, "out") /\ claim = Nobody
    /\ claim' = w
    /\ writer' = [writer EXCEPT ![w].pc = "claimed"]
    /\ UNCHANGED <<layout, published, guard, words, reader, log>>

\* The next sequence is read once, behind the claim.
ResumeAfter(w) ==
    /\ Writes(w, "claimed")
    /\ writer' = [writer EXCEPT ![w] = Holds(published + 1)]
    /\ UNCHANGED <<layout, published, claim, guard, words, reader, log>>

\* release_stream, by the destructor or because there is no memory for a writer.
ReleaseStream(w) ==
    /\ Writes(w, "idle") \/ Writes(w, "claimed")
    /\ claim' = IF claim = w THEN Nobody ELSE claim
    /\ writer' = [writer EXCEPT ![w] = Out]
    /\ UNCHANGED <<layout, published, guard, words, reader, log>>

\* Mutant: the sequence is not compared with its limit.
PublishUnbounded(w) ==
    /\ Writes(w, "idle")
    /\ \E s \in Samples :
          writer' = [writer EXCEPT ![w].pc = "store", ![w].sample = s, ![w].left = Words]
    /\ UNCHANGED <<layout, published, claim, guard, words, reader, log>>

\* publish_sample with a valid sample: the stores to come are the odd guard and
\* the words.
Publish(w) ==
    /\ Writes(w, "idle") /\ writer[w].next <= MaxSequence
    /\ \E s \in Samples :
          writer' = [writer EXCEPT ![w].pc = "store", ![w].sample = s, ![w].left = Words]
    /\ UNCHANGED <<layout, published, claim, guard, words, reader, log>>

\* guard.exchange(stable_guard | 1)
ExchangeGuard(w) ==
    /\ Writes(w, "store") /\ ~writer[w].odd
    /\ guard' = [guard EXCEPT ![SlotOf(writer[w].next)] = Stable(writer[w].next) + 1]
    /\ writer' = [writer EXCEPT ![w].odd = TRUE]
    /\ UNCHANGED <<layout, published, claim, words, reader, log>>

StoreWord(w) ==
    /\ Writes(w, "store")
    /\ \E x \in writer[w].left :
          /\ words' = [words EXCEPT ![SlotOf(writer[w].next)][x] = writer[w].sample[x]]
          /\ writer' = [writer EXCEPT ![w].left = @ \ {x}]
    /\ UNCHANGED <<layout, published, claim, guard, reader, log>>

\* guard.store(stable_guard), release
StoreGuard(w) ==
    /\ Writes(w, "store") /\ writer[w].odd /\ writer[w].left = {}
    /\ guard' = [guard EXCEPT ![SlotOf(writer[w].next)] = Stable(writer[w].next)]
    /\ writer' = [writer EXCEPT ![w].pc = "publish"]
    /\ UNCHANGED <<layout, published, claim, words, reader, log>>

\* published_sequence.store(sequence), release
StorePublished(w) ==
    /\ Writes(w, "publish")
    /\ published' = writer[w].next
    /\ log' = Append(log, writer[w].sample)
    /\ writer' = [writer EXCEPT ![w] = Holds(writer[w].next + 1)]
    /\ UNCHANGED <<layout, claim, guard, words, reader>>

\* A writer's process dies between two of its stores, its claim left behind.
Die(w) ==
    /\ writer[w].pc # "dead"
    /\ writer' = [writer EXCEPT ![w] = [Out EXCEPT !.pc = "dead"]]
    /\ UNCHANGED <<layout, published, claim, guard, words, reader, log>>

Writer(w) == ClaimStream(w) \/ ResumeAfter(w) \/ ReleaseStream(w) \/ Publish(w)
             \/ ExchangeGuard(w) \/ StoreWord(w) \/ StoreGuard(w)
             \/ StorePublished(w) \/ Die(w)

(* Readers: read_sample ---------------------------------------------------- *)

Reads(r, pc) == layout = "ready" /\ reader[r].pc = pc

\* The next attempt, or kContended when there is none left.
Retry(r) ==
    reader' = [reader EXCEPT ![r] =
        IF @.attempt < MaxAttempts
        THEN [Asleep(@.answer) EXCEPT !.pc = "sequence", !.attempt = reader[r].attempt + 1]
        ELSE Asleep([code |-> "contended"])]

BeginRead(r) ==
    /\ Reads(r, "idle")
    /\ Retry(r)
    /\ UNCHANGED <<layout, published, claim, guard, words, writer, log>>

LoadSequence(r) ==
    /\ Reads(r, "sequence")
    /\ reader' = [reader EXCEPT ![r] =
                     IF published = 0 THEN Asleep([code |-> "no_data"])
                     ELSE [@ EXCEPT !.pc = "before", !.sequence = published]]
    /\ UNCHANGED <<layout, published, claim, guard, words, writer, log>>

LoadBefore(r) ==
    /\ Reads(r, "before")
    /\ IF guard[SlotOf(reader[r].sequence)] = Stable(reader[r].sequence)
       THEN reader' = [reader EXCEPT ![r].pc = "words", ![r].left = Words]
       ELSE Retry(r)
    /\ UNCHANGED <<layout, published, claim, guard, words, writer, log>>

LoadWord(r) ==
    /\ Reads(r, "words")
    /\ \E x \in reader[r].left :
          reader' = [reader EXCEPT
                        ![r].got[x] = words[SlotOf(reader[r].sequence)][x],
                        ![r].left = @ \ {x}]
    /\ UNCHANGED <<layout, published, claim, guard, words, writer, log>>

LoadAfter(r) ==
    /\ Reads(r, "words") /\ reader[r].left = {}
    /\ reader' = [reader EXCEPT ![r].pc = "latest",
                     ![r].stable = guard[SlotOf(reader[r].sequence)]
                                       = Stable(reader[r].sequence)]
    /\ UNCHANGED <<layout, published, claim, guard, words, writer, log>>

\* Mutant: two equal guards are enough.
AcceptsStable(r) == reader[r].stable /\ reader[r].got \in Samples

\* before == after, latest == sequence and validate(decoded)
Accepts(r) ==
    /\ reader[r].stable /\ published = reader[r].sequence
    /\ reader[r].got \in Samples

LoadLatest(r) ==
    /\ Reads(r, "latest")
    /\ IF Accepts(r)
       THEN reader' = [reader EXCEPT ![r] =
                          Asleep([code |-> "ok", sequence |-> @.sequence,
                                  sample |-> @.got])]
       ELSE Retry(r)
    /\ UNCHANGED <<layout, published, claim, guard, words, writer, log>>

Reader(r) == BeginRead(r) \/ LoadSequence(r) \/ LoadBefore(r) \/ LoadWord(r)
             \/ LoadAfter(r) \/ LoadLatest(r)

(* ------------------------------------------------------------------------- *)

Next == \/ Create \/ CreateFails \/ CommitLayout
        \/ \E w \in Writers : Writer(w)
        \/ \E r \in Readers : Reader(r)

Spec == Init /\ [][Next]_streamVars

(* Properties -------------------------------------------------------------- *)

Answers == [code : {"none", "no_data", "contended"}]
           \cup [code : {"ok"}, sequence : 1 .. MaxSequence, sample : Samples]

WriterLocals ==
    [pc : {"out", "claimed", "idle", "store", "publish", "dead"},
     next : 0 .. MaxSequence + 1, sample : Payloads, odd : BOOLEAN,
     left : SUBSET Words]

ReaderLocals ==
    [pc : {"idle", "sequence", "before", "words", "latest"},
     attempt : 0 .. MaxAttempts, sequence : 0 .. MaxSequence,
     left : SUBSET Words, got : Payloads, stable : BOOLEAN, answer : Answers]

\* The types of the shared words and of everybody's locals.
StreamTypeOK ==
    /\ layout \in {"absent", "sized", "ready"}
    /\ published \in 0 .. MaxSequence
    /\ claim \in Writers \cup {Nobody}
    /\ guard \in [0 .. 1 -> 0 .. 2 * MaxSequence + 1]
    /\ words \in [0 .. 1 -> Payloads]
    /\ writer \in [Writers -> WriterLocals]
    /\ reader \in [Readers -> ReaderLocals]
    /\ log \in Seq(Samples)

\* The slot of the latest sample holds that sample, whole and under its own even
\* guard, at every moment: while the next one is written, after a writer died in
\* the middle of it, and after another has taken the stream over.  So a reader is
\* only ever turned away by a sample that was published during its call.
LatestIsIntact ==
    published > 0 => /\ guard[SlotOf(published)] = Stable(published)
                     /\ words[SlotOf(published)] = log[published]

\* The stream keeps the promise of TelemetryLog: one writer at a time, no claim
\* taken from the dead, and no answer but the whole sample that was the latest
\* when its number was last looked at ("it never returns a possibly torn or
\* invariant-invalid payload").
Log == INSTANCE TelemetryLog WITH
    dead <- {w \in Writers : writer[w].pc = "dead"},
    answer <- [r \in Readers |-> reader[r].answer]

ImplementsTelemetryLog == Log!Spec
=============================================================================
