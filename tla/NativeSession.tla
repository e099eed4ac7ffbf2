--------------------------- MODULE NativeSession ---------------------------
(* FrankaNativeSupervisedSessionProxy, the parent's half of the native arm owner,
   and the two threads that call it: the session thread in run, and the main
   thread, which publishes targets and stops at any time.  (The hand owner's
   failure callback runs the same stop procedure from a third thread.)  SIGINT is
   a KeyboardInterrupt in the main thread, wherever it is.

   _send_lock is taken for every encode and send.  Only a TARGET looks at shared
   state again between its encode and its send, so only the TARGET's critical
   section is two steps, and the lock is held exactly when the main thread is
   between them.  A section of _state_lock is one step.                        *)
EXTENDS NativeServo

CONSTANT HeartbeatInterval

ASSUME SessionAssumption == HeartbeatInterval \in Nat \ {0}

VARIABLES sess,      \* the proxy's fields, and the session thread's place in run
          main,      \* where the main thread is
          ledger     \* ExecutedActionLedger

sessionVars == <<sess, main, ledger>>

\* No STOP_PROOF has been received: a packet that is none.
NoProof == Reply("HELLO", 0)

MainPcs == {"idle", "lock", "encoded", "wait", "flag", "send", "end"}

SessionStates ==
    [pc : {"launch", "head", "arm", "beat", "stop", "receive",
           "silent", "acked", "last_stop", "drain",
           "drain_silent", "eof", "join", "done"},
     stopReq : BOOLEAN,      \* _stop_requested
     stopSent : BOOLEAN,     \* _stop_packet_sent
     encoded : BOOLEAN,      \* the codec's _stop_encoded
     hello : BOOLEAN, ready : BOOLEAN, action : BOOLEAN,
     armed : BOOLEAN,
     due : 0 .. HeartbeatInterval,  \* until next_heartbeat_s
     hole : BOOLEAN,         \* a packet number was not sent
     pending : Sequences0, sent : Sequences0, acked : Sequences0,
     async : BOOLEAN,        \* _async_failure is set
     failure : BOOLEAN,      \* run's failure is set
     proof : ChildPackets,
     result : {"open", "verified", "failed"}]

SessionTypeOK == sess \in SessionStates /\ main \in MainPcs /\ ledger \in Ledgers

NewSession == [pc |-> "launch", stopReq |-> FALSE, stopSent |-> FALSE,
               encoded |-> FALSE, hello |-> FALSE, ready |-> FALSE,
               action |-> FALSE, armed |-> FALSE, due |-> 0, hole |-> FALSE,
               pending |-> 0, sent |-> 0, acked |-> 0, async |-> FALSE,
               failure |-> FALSE, proof |-> NoProof, result |-> "open"]

SessionInit ==
    /\ sess = NewSession
    /\ main = "idle"
    /\ ledger = NewLedger

\* Timestamps of the barrier are relative to the present.
Now == 0

\* Time passes for the pending command, as long as its age can matter.
OlderLedger ==
    IF HasPending(ledger) /\ Healthy(ledger)
          /\ \/ Age(ledger.pending, Now) <= TargetMaxAge
             \/ Age(ledger.pending, Now) <= MaxCommitLatency
    THEN [ledger EXCEPT !.pending.produced = @ - 1]
    ELSE ledger

Here(pc) == proc.parent /\ sess.pc = pc

\* _send_lock is held between the steps of a TARGET.
LockFree == main # "encoded"

\* _fail_pending_ledger
FailPending == IF HasPending(ledger) THEN Fail(ledger) ELSE ledger

\* _stop_requested.set(); no heartbeat is due any more.
Stopping(s) == [s EXCEPT !.stopReq = TRUE, !.due = 0]

\* _latch_async_failure
Latched(s) == Stopping([s EXCEPT !.async = TRUE])

(* Sending ----------------------------------------------------------------- *)

\* Mutant: the writable check lets one packet more in.
FullLate == ~proc.closed /\ Len(toServo) > Capacity

\* The outcomes of a send under the lock: refused by the writable check, failed
\* at a closed end (the child is terminated), or queued.
Full == ~proc.closed /\ Len(toServo) >= Capacity

SendFails ==
    /\ proc.closed \/ ~proc.open
    /\ proc' = [Terminated(proc) EXCEPT !.parentReset = FALSE]
    /\ UNCHANGED toServo

Queued(packet) ==
    /\ ~proc.closed /\ proc.open /\ ~Full
    /\ toServo' = Append(toServo, packet)
    /\ UNCHANGED proc

\* Mutant: a full channel drops STOP and leaves the child as it is.
SendStopQuietly(s, failed) ==
    \/ /\ sess.hello
       /\ Queued(Packet("STOP", ~sess.hole))
       /\ sess' = [s EXCEPT !.hole = FALSE, !.encoded = TRUE]
       /\ UNCHANGED ledger
    \/ /\ Full \/ proc.closed \/ ~proc.open \/ ~sess.hello
       /\ sess' = Latched(failed)
       /\ ledger' = FailPending
       /\ UNCHANGED <<toServo, proc>>

\* _send_stop_once behind its flag, by any thread: STOP goes out with s, or
\* something refuses it; then the child is terminated and the failure latched.
\* encode_stop refuses before HELLO; behind it nothing is encoded any more.
SendStop(s, failed) ==
    \/ /\ sess.hello
       /\ Queued(Packet("STOP", ~sess.hole))
       /\ sess' = [s EXCEPT !.hole = FALSE, !.encoded = TRUE]
       /\ UNCHANGED ledger
    \/ /\ Full \/ proc.closed \/ ~proc.open \/ ~sess.hello
       /\ proc' = [Terminated(proc) EXCEPT
                      !.parentReset = @ /\ ~(proc.closed /\ sess.hello)]
       /\ sess' = Latched(failed)
       /\ ledger' = FailPending
       /\ UNCHANGED toServo

(* The session thread: run --------------------------------------------------- *)

\* The finally block, up to the claim of STOP and then past it.
PastStop(s) == [s EXCEPT !.pc = IF s.proof # NoProof THEN "eof" ELSE "drain"]

Finally(s) ==
    IF s.stopSent THEN PastStop(Stopping(s))
    ELSE [Stopping(s) EXCEPT !.pc = "last_stop", !.stopSent = TRUE]

Failed(s) == [s EXCEPT !.failure = TRUE]

\* Any exception of the loop.
Throw(s) ==
    /\ sess' = Finally(Latched(Failed(s)))
    /\ ledger' = FailPending

\* The launcher starts the child, or raises.
Launch ==
    /\ Here("launch")
    /\ \/ /\ sess' = [sess EXCEPT !.pc = "head"]
          /\ proc' = [proc EXCEPT !.servo = TRUE]
          /\ servo' = [servo EXCEPT !.pc = "hello"]
          /\ UNCHANGED ledger
       \/ /\ sess' = [Latched(sess) EXCEPT
                         !.failure = TRUE, !.pc = "done", !.result = "failed"]
          /\ ledger' = FailPending
          /\ UNCHANGED <<proc, servo>>
    /\ UNCHANGED <<toServo, toSession, arm, main>>

\* _send_stop_once of the session thread, up to its flag.
StopOr(s, pc) == IF s.stopReq /\ ~s.stopSent
                 THEN [s EXCEPT !.pc = "stop", !.stopSent = TRUE]
                 ELSE [s EXCEPT !.pc = pc]

\* What the turn sends; the send is a step of its own.
Decide(s) ==
    IF s.hello /\ ~s.armed /\ ~s.stopReq
    THEN [s EXCEPT !.pc = "arm", !.due = HeartbeatInterval]
    ELSE IF ~s.stopReq /\ s.armed /\ s.due = 0
    THEN [s EXCEPT !.pc = "beat", !.due = HeartbeatInterval]
    ELSE StopOr(s, "receive")

\* The head of the loop; behind a silent wait the child must still be alive, and
\* the wait for HELLO, which is not timed here, may be over.
LoopHead ==
    /\ Here("head") \/ Here("silent")
    /\ LET s == IF sess.async THEN Failed(sess) ELSE sess
       IN IF Here("silent") /\ ~proc.servo
          THEN Throw(sess)
          ELSE \/ sess' = Decide(s) /\ UNCHANGED ledger
               \/ ~s.hello /\ Throw(s)
    /\ UNCHANGED <<link, servoVars, main>>

\* encode_arm and encode_heartbeat refuse behind another thread's STOP.
SendParent(kind, s) ==
    /\ LockFree
    /\ \/ /\ Full \/ sess.encoded
          /\ Throw(sess)
          /\ UNCHANGED <<toServo, proc>>
       \/ /\ ~sess.encoded
          /\ SendFails
          /\ Throw(sess)
       \/ /\ ~sess.encoded
          /\ Queued(Packet(kind, ~sess.hole))
          /\ sess' = s
          /\ UNCHANGED ledger
    /\ UNCHANGED <<toSession, servoVars, main>>

SendArm ==
    /\ Here("arm")
    /\ SendParent("ARM", StopOr([sess EXCEPT !.armed = TRUE], "receive"))

SendHeartbeat ==
    /\ Here("beat")
    /\ SendParent("HEARTBEAT", [sess EXCEPT !.pc = "receive"])

\* The STOP of the session thread, in the loop and in the final clean-up.
SendOwnStop ==
    /\ Here("stop") \/ Here("last_stop")
    /\ LockFree
    /\ IF Here("stop")
       THEN SendStop([sess EXCEPT !.pc = "receive"], Finally(Failed(sess)))
       ELSE SendStop(PastStop(sess), PastStop(Failed(sess)))
    /\ UNCHANGED <<toSession, servoVars, main>>

(* Receiving --------------------------------------------------------------- *)

\* The ACK of the pending target: the barrier first, the pending target next.
AckFits(p) == sess.pending # 0 /\ p.seq = sess.pending

AckLands(p) == AckFits(p) /\ AckAccepts(ledger, p.seq, Now)

AckedLedger(p) == IF AckFits(p) THEN Acknowledge(ledger, "franka", p.seq, Now)
                                ELSE ledger

\* STOP_PROOF, which ends the waiting; a terminal fault in it is latched.
Proven(p) ==
    LET s == [sess EXCEPT !.proof = p]
    IN /\ sess' = Finally(IF p.fault THEN Latched(s) ELSE s)
       /\ ledger' = IF p.fault THEN FailPending ELSE ledger

\* _receive_packet meets the end of the channel, or the kernel's reset.
ChannelBroken == proc.parentReset \/ (toSession = <<>> /\ proc.closed)

ConsumeReset == proc' = [proc EXCEPT !.parentReset = FALSE]

\* _handle_event in the loop.
HandleEvent(p) ==
    CASE p.kind = "HELLO" ->
            sess' = [sess EXCEPT !.pc = "head", !.hello = TRUE] /\ UNCHANGED ledger
      [] p.kind = "IPC_READY" ->
            sess' = [sess EXCEPT !.pc = "head", !.ready = TRUE] /\ UNCHANGED ledger
      [] p.kind = "ACTION_READY" ->
            sess' = [sess EXCEPT !.pc = "head", !.action = TRUE] /\ UNCHANGED ledger
      [] p.kind = "ACK" /\ AckLands(p) ->
            /\ sess' = [sess EXCEPT !.pc = "acked"]
            /\ ledger' = AckedLedger(p)
      [] p.kind = "ACK" /\ ~AckLands(p) ->
            /\ sess' = Finally(Latched(Failed(sess)))
            /\ ledger' = IF HasPending(ledger) THEN Fail(AckedLedger(p)) ELSE ledger
      [] p.kind = "FAULT" -> Throw(sess)
      [] p.kind = "STOP_PROOF" -> Proven(p)

\* One wait of the loop: an event, the end of the channel, or silence (STATE
\* telemetry changes nothing here).  The READY deadline is only looked at behind
\* an event while armed and not ready, and such a child sends none but FAULT.
Receive ==
    /\ Here("receive")
    /\ \/ /\ ChannelBroken
          /\ ConsumeReset
          /\ Throw(sess)
          /\ UNCHANGED toSession
       \/ /\ ~ChannelBroken /\ toSession # <<>>
          /\ toSession' = Tail(toSession)
          /\ HandleEvent(Head(toSession))
          /\ UNCHANGED proc
       \/ /\ ~ChannelBroken /\ toSession = <<>>
          /\ sess' = [sess EXCEPT !.pc = "silent"]
          /\ UNCHANGED <<proc, toSession, ledger>>
    /\ UNCHANGED <<toServo, servoVars, main>>

\* The barrier has the acknowledgement; now the target is no longer pending.
ClearPending ==
    /\ Here("acked")
    /\ sess' = [sess EXCEPT !.pc = "head", !.acked = @ + 1, !.pending = 0]
    /\ UNCHANGED <<link, servoVars, main, ledger>>

(* The end of run ------------------------------------------------------------ *)

\* An exception in _drain_until_stop_proof ends it only if the child is gone.
DrainFails(p) ==
    /\ sess' = [Failed(sess) EXCEPT
                   !.pc = IF proc.servo THEN "drain" ELSE "join"]
    /\ ledger' = IF HasPending(ledger) THEN Fail(AckedLedger(p)) ELSE ledger

DrainEvent(p) ==
    CASE p.kind \in {"HELLO", "IPC_READY", "ACTION_READY"} ->
            UNCHANGED <<sess, ledger>>
      [] p.kind = "ACK" /\ AckLands(p) ->
            /\ sess' = [sess EXCEPT !.acked = @ + 1, !.pending = 0]
            /\ ledger' = AckedLedger(p)
      [] p.kind = "FAULT" \/ (p.kind = "ACK" /\ ~AckLands(p)) -> DrainFails(p)
      [] p.kind = "STOP_PROOF" -> Proven(p)

\* _drain_until_stop_proof, until its deadline.  A packet that arrives between a
\* silent wait and the look at the child is not read if the child is gone.
Drain ==
    /\ Here("drain")
    /\ \/ /\ ChannelBroken
          /\ ConsumeReset
          /\ DrainFails(NoProof)
          /\ UNCHANGED toSession
       \/ /\ ~ChannelBroken /\ toSession # <<>>
          /\ toSession' = Tail(toSession)
          /\ DrainEvent(Head(toSession))
          /\ UNCHANGED proc
       \/ /\ ~ChannelBroken /\ toSession = <<>>
          /\ sess' = [sess EXCEPT !.pc = "drain_silent"]
          /\ UNCHANGED <<proc, toSession, ledger>>
    /\ UNCHANGED <<toServo, servoVars, main>>

DrainSilent ==
    /\ Here("drain_silent")
    /\ sess' = [sess EXCEPT !.pc = IF proc.servo THEN "drain" ELSE "join"]
    /\ UNCHANGED <<link, servoVars, main, ledger>>

\* Mutant: the drain has no deadline while the child is alive.
DrainDeadlineOfTheDead ==
    /\ Here("drain") \/ Here("drain_silent")
    /\ ~proc.servo
    /\ sess' = [sess EXCEPT !.pc = "join"]
    /\ UNCHANGED <<link, servoVars, main, ledger>>

DrainDeadline ==
    /\ Here("drain") \/ Here("drain_silent")
    /\ sess' = [sess EXCEPT !.pc = "join"]
    /\ UNCHANGED <<link, servoVars, main, ledger>>

\* _wait_for_critical_eof: the end of file, anything else, or the deadline.
AwaitEof ==
    /\ Here("eof")
    /\ LET clean == ~proc.parentReset /\ proc.closed /\ toSession = <<>>
           s == IF clean THEN sess ELSE Failed(sess)
       IN sess' = [s EXCEPT !.pc = "join"]
    /\ ConsumeReset
    /\ UNCHANGED <<toServo, toSession, servoVars, main, ledger>>

\* run returns its telemetry, whose stop is verified, and does not raise.
Verified(s) ==
    /\ ~s.failure
    /\ s.proof.verified /\ ~s.proof.fault
    /\ s.proof.asked => proc.exit = "zero"
    /\ s.proof.seq = s.acked

\* The join, the verdict, and the parent's end is closed.  A child that has not
\* ended gets SIGTERM and a second wait, which changes nothing here any more.
Join ==
    /\ Here("join")
    /\ LET s == IF proc.servo THEN Failed(sess) ELSE sess
       IN sess' = [s EXCEPT !.pc = "done", !.hole = FALSE,
                      !.result = IF Verified(s) THEN "verified" ELSE "failed"]
    /\ proc' = ParentEndClosed(Terminated(proc))
    /\ toSession' = <<>>
    /\ UNCHANGED <<toServo, servoVars, main, ledger>>

SessionStep == Launch \/ LoopHead \/ SendArm \/ SendHeartbeat \/ SendOwnStop
               \/ Receive \/ ClearPending \/ Drain \/ DrainSilent
               \/ AwaitEof \/ Join

(* The other threads --------------------------------------------------------- *)

MainAt(pc) == proc.parent /\ main = pc

\* request_clean_stop begins: the request is set, the claim of STOP is a step of
\* its own.  Once somebody has claimed it nothing is left to do.
MainStops == main' = IF sess.stopSent THEN "end" ELSE "flag"

\* A target raises: async failure, failed barrier, stop.  Behind its encode it
\* leaves a hole in the packet numbers.
PublishFails ==
    /\ sess' = Latched([sess EXCEPT !.hole = @ \/ MainAt("encoded")])
    /\ ledger' = FailPending
    /\ MainStops

\* The policy thread stages the next command and publishes its arm target:
\* _publish_target under _state_lock.
StageTarget ==
    /\ MainAt("idle")
    /\ sess.action /\ ledger.committed < MaxSequence
    /\ \E a \in Actions :
          LET cmd == [seq |-> ledger.committed + 1, previous |-> ledger.previous,
                      executed |-> a, produced |-> Now]
              staged == Stage(ledger, cmd, Now)
          IN IF /\ StageAccepts(ledger, cmd, Now)
                /\ sess.pc # "done" /\ ~sess.stopReq /\ sess.pending = 0
                /\ cmd.seq = sess.sent + 1
             THEN /\ sess' = [sess EXCEPT !.pending = cmd.seq, !.sent = cmd.seq]
                  /\ main' = "lock"
                  /\ ledger' = staged
             ELSE /\ MainStops
                  /\ IF StageAccepts(ledger, cmd, Now)
                     THEN sess' = Latched(sess) /\ ledger' = Fail(staged)
                     ELSE sess' = Stopping(sess) /\ ledger' = staged
    /\ UNCHANGED <<link, servoVars>>

Stale == Age(ledger.pending, Now) > TargetMaxAge

\* _send_encoded up to the encode: the lock, the writable check, the stop request
\* and the age.
EncodeTarget ==
    /\ MainAt("lock")
    /\ IF Full \/ sess.stopReq \/ Stale
       THEN PublishFails
       ELSE /\ main' = "encoded"
            /\ UNCHANGED <<sess, ledger>>
    /\ UNCHANGED <<link, servoVars>>

\* Mutant: a stop that comes behind the encode leaves the lock taken.
SendTargetWaits ==
    /\ MainAt("encoded")
    /\ ~sess.stopReq /\ ~Stale
    /\ \/ SendFails /\ PublishFails
       \/ /\ Queued([Packet("TARGET", ~sess.hole) EXCEPT
                        !.seq = sess.sent, !.age = Age(ledger.pending, Now)])
          /\ main' = "wait"
          /\ UNCHANGED <<sess, ledger>>
    /\ UNCHANGED <<toSession, servoVars>>

\* Behind the encode the stop request and the age are looked at again.
SendTarget ==
    /\ MainAt("encoded")
    /\ \/ /\ sess.stopReq \/ Stale
          /\ PublishFails
          /\ UNCHANGED <<toServo, proc>>
       \/ /\ ~sess.stopReq /\ ~Stale
          /\ SendFails
          /\ PublishFails
       \/ /\ ~sess.stopReq /\ ~Stale
          /\ Queued([Packet("TARGET", ~sess.hole) EXCEPT
                        !.seq = sess.sent, !.age = Age(ledger.pending, Now)])
          /\ main' = "wait"
          /\ UNCHANGED <<sess, ledger>>
    /\ UNCHANGED <<toSession, servoVars>>

\* The arm has acknowledged; the hand moves and acknowledges, and the barrier
\* commits.
HandAcknowledges ==
    /\ MainAt("wait")
    /\ ConsumerAcknowledged(ledger, "franka", sess.sent)
    /\ ledger' = Acknowledge(ledger, "rh56", sess.sent, Now)
    /\ main' = "idle"
    /\ UNCHANGED <<link, servoVars, sess>>

\* The run is over, or anything raises while the main thread waits: the pending
\* command is aborted and everything stopped.
Abandon ==
    /\ ledger' = FailPending
    /\ sess' = Stopping(sess)
    /\ MainStops

GiveUp ==
    /\ MainAt("idle") \/ MainAt("wait")
    /\ Abandon
    /\ UNCHANGED <<link, servoVars>>

\* There is an endpoint, the run is not finished, and nobody has sent STOP.
ClaimStop ==
    /\ MainAt("flag")
    /\ IF sess.pc \in {"launch", "done"} \/ sess.stopSent
       THEN main' = "end" /\ UNCHANGED sess
       ELSE /\ main' = "send"
            /\ sess' = [sess EXCEPT !.stopSent = TRUE]
    /\ UNCHANGED <<link, servoVars, ledger>>

SendClaimedStop ==
    /\ MainAt("send")
    /\ LockFree
    /\ SendStop(sess, sess)
    /\ main' = "end"
    /\ UNCHANGED <<toSession, servoVars>>

\* KeyboardInterrupt: a publication fails, a wait is abandoned, a stop procedure
\* that has not claimed STOP is begun again.  One that has claimed it terminates
\* the child instead, from wherever it is.  Ctrl-C reaches the child as well.
Interrupted ==
    \/ main \in {"idle", "wait"} /\ Abandon
    \/ main \in {"lock", "encoded"} /\ PublishFails
    \/ main = "flag" /\ UNCHANGED <<sess, main, ledger>>
    \/ /\ main = "send" /\ main' = "end"
       /\ \/ UNCHANGED <<sess, ledger>>
          \/ sess' = Latched(sess) /\ ledger' = FailPending

Sigint ==
    /\ proc.parent
    /\ Interrupted
    /\ \/ main # "send" /\ UNCHANGED proc
       \/ proc' = Terminated(proc)
    /\ UNCHANGED <<toServo, toSession, servoVars>>

ThreadStep ==
    \/ StageTarget \/ EncodeTarget \/ SendTarget
    \/ HandAcknowledges \/ GiveUp
    \/ ClaimStop \/ SendClaimedStop

\* The parent is killed, at any point.
ParentDies ==
    /\ proc.parent
    /\ proc' = Orphaned(proc)
    /\ toSession' = <<>>
    /\ sess' = [NewSession EXCEPT !.pc = "done", !.result = sess.result]
    /\ main' = "end"
    /\ UNCHANGED <<toServo, servoVars, ledger>>
=============================================================================
