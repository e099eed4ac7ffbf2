---------------------------- MODULE NativeServo ----------------------------
(* The V94 Franka servo process: run_servo_process and what it calls.  One cycle
   of the active loop is three steps, because the signal flag, the clock and the
   socket may change between them: the read, which notes whether the supervisor
   is already late; the drain of the critical channel with the watchdogs behind
   it; the write with its replies.  A ServoFault, wherever it is raised, sends
   FAULT and leaves for the same cleanup as a stop.

   Joint values, limits, interpolation and the robot's own state machine are
   abstracted to calls that succeed or raise.  Fields that nothing reads any
   more are reset when the loop is left.                                       *)
EXTENDS NativeLink, FiniteSetsExt

CONSTANTS PacketsPerCycle,       \* kMaximumCriticalPacketsPerCycle
          HeartbeatTimeout, SessionDuration, FirstTargetTimeout, TargetTimeout

ASSUME ServoAssumption ==
    /\ PacketsPerCycle \in Nat \ {0}
    /\ {HeartbeatTimeout, SessionDuration, FirstTargetTimeout, TargetTimeout}
          \subseteq Nat

VARIABLES servo,   \* RuntimeState and the locals of run_servo_process
          arm      \* the robot: external

servoVars == <<servo, arm>>

TargetLimit == IF FirstTargetTimeout > TargetTimeout THEN FirstTargetTimeout
                                                     ELSE TargetTimeout

ServoStates ==
    [pc : {"unborn", "hello", "await", "open", "start", "read",
           "drain", "write", "release", "verify", "exit", "gone"},
     active : BOOLEAN,       \* the ActiveRobotSession exists
     ready : BOOLEAN,        \* action_ready
     \* the ages of session_start_ns, of last_heartbeat_ns, and of
     \* action_ready_ns, later last_target_received_ns
     start : AgesUpTo(SessionDuration),
     beat : AgesUpTo(HeartbeatTimeout),
     since : AgesUpTo(TargetLimit),
     target : Sequences0,    \* last_target_sequence
     waiting : BOOLEAN,      \* target_pending_ack
     expired : BOOLEAN,      \* heartbeat_expired_before_drain
     wrote : Sequences0,     \* the last target written
     acks : Sequences0,      \* target_ack_count
     asked : BOOLEAN,        \* StopReason::kRequested
     fault : BOOLEAN,
     stopped : BOOLEAN,      \* robot_stop_attempted
     clean : BOOLEAN]        \* exit code zero

ServoTypeOK == servo \in ServoStates /\ arm \in {"rest", "moving"}

ServoStart ==
    [pc |-> "unborn", active |-> FALSE, start |-> 0, beat |-> 0,
     ready |-> FALSE, since |-> 0, target |-> 0, waiting |-> FALSE,
     expired |-> FALSE, wrote |-> 0, acks |-> 0, asked |-> FALSE,
     fault |-> FALSE, stopped |-> FALSE, clean |-> FALSE]

ServoInit == servo = ServoStart /\ arm = "rest"

At(pc) == servo.pc = pc

\* The signal flag is still going to be read.
Running == servo.pc \in {"hello", "await", "open", "start", "read", "drain",
                        "write"}

\* process.terminate, where the child still runs.
Terminated(p) == [p EXCEPT !.term = @ \/ Running]

\* The parent is gone, and PR_SET_PDEATHSIG sends the child SIGTERM.
Orphaned(p) == [Terminated(ParentEndClosed(p)) EXCEPT !.parent = FALSE]

(* Leaving, and sending ---------------------------------------------------- *)

Leave(s) == [s EXCEPT !.pc = "release", !.start = 0, !.beat = 0,
                     !.ready = FALSE, !.since = 0, !.target = 0,
                     !.waiting = FALSE, !.expired = FALSE]

\* channels->send_critical: the buffer towards the parent holds far more than a
\* session sends, so only a closed end refuses.
Sends(packet) ==
    toSession' = IF proc.open THEN Append(toSession, packet) ELSE toSession

\* The catch blocks: FAULT is sent as far as possible.
Raise(s) ==
    /\ servo' = [Leave(s) EXCEPT !.fault = TRUE]
    /\ Sends(Reply("FAULT", 0))

\* send_critical_or_fault, then t.
SendOr(packet, t) ==
    IF proc.open THEN servo' = t /\ Sends(packet)
                 ELSE Raise(t)

(* Start-up ---------------------------------------------------------------- *)

Hello ==
    /\ At("hello")
    /\ SendOr(Reply("HELLO", 0), [servo EXCEPT !.pc = "await"])
    /\ UNCHANGED <<toServo, proc, arm>>

\* wait_for_arm: the first packet must be ARM, with a contract that holds.  The
\* wait ends without one at its deadline, which is not timed here, or when the
\* parent's end is closed.
AwaitArm ==
    /\ At("await")
    /\ \/ Raise(servo) /\ UNCHANGED toServo
       \/ /\ toServo # <<>> /\ ~proc.servoReset
          /\ toServo' = Tail(toServo)
          /\ IF Head(toServo).kind = "ARM"
             THEN /\ servo' = [servo EXCEPT !.pc = "open"]
                  /\ UNCHANGED toSession
             ELSE Raise(servo)
    /\ UNCHANGED <<proc, arm>>

\* create_enforced, the scheduler proof and the preflight read: the network and
\* the robot decide when they return, and how.
OpenRobot ==
    /\ At("open")
    /\ \/ SendOr(Reply("IPC_READY", 0), [servo EXCEPT !.pc = "start"])
       \/ Raise(servo)
    /\ UNCHANGED <<toServo, proc, arm>>

StartControl ==
    /\ At("start")
    /\ \/ /\ servo' = [servo EXCEPT !.pc = "read", !.active = TRUE]
          /\ UNCHANGED toSession
       \/ Raise(servo)
    /\ UNCHANGED <<toServo, proc, arm>>

(* The active loop --------------------------------------------------------- *)

\* The signal flag, readOnce and every check of the returned state.
ReadOnce ==
    /\ At("read")
    /\ IF proc.term
       THEN servo' = Leave(servo) /\ UNCHANGED toSession
       ELSE \/ /\ servo' = [servo EXCEPT !.pc = "drain",
                               !.expired = servo.beat > HeartbeatTimeout]
               /\ UNCHANGED toSession
            \/ Raise(servo)
    /\ UNCHANGED <<toServo, proc, arm>>

\* The checks of a TARGET.  Its header is no older than produced, so its own age
\* check follows from this one.
Admissible(s, p) ==
    /\ s.ready /\ ~s.waiting
    /\ s.target < MaxSequence /\ p.seq = s.target + 1
    /\ p.age <= TargetMaxAge

\* One packet of drain_critical; the first fault ends the drain.
Accept(s, p) ==
    CASE s.fault -> s
      [] ~s.fault /\ p.exact /\ p.kind = "HEARTBEAT" -> [s EXCEPT !.beat = 0]
      [] ~s.fault /\ p.exact /\ p.kind = "STOP" -> [s EXCEPT !.asked = TRUE]
      [] ~s.fault /\ p.exact /\ p.kind = "TARGET" /\ Admissible(s, p) ->
            [s EXCEPT !.target = p.seq, !.since = 0, !.waiting = TRUE]
      [] OTHER -> [s EXCEPT !.fault = TRUE]

\* The states after each of the first packets of the queue.
Accepted[n \in 0 .. PacketsPerCycle] ==
    IF n = 0 THEN servo ELSE Accept(Accepted[n - 1], toServo[n])

\* Mutant: a heartbeat that was only queued revives an expired supervisor.
WatchdogFiresRevived(s) ==
    \/ s.beat > HeartbeatTimeout
    \/ s.start > SessionDuration
    \/ s.ready /\ s.since > (IF s.target = 0 THEN FirstTargetTimeout
                                                   ELSE TargetTimeout)

\* Mutant: a supervisor that goes on sending is served without a limit.
WatchdogFiresUnlimited(s) ==
    \/ s.expired
    \/ s.beat > HeartbeatTimeout
    \/ s.ready /\ s.since > (IF s.target = 0 THEN FirstTargetTimeout
                                                   ELSE TargetTimeout)

\* The watchdogs behind the drain.
WatchdogFires(s) ==
    \/ s.expired
    \/ s.beat > HeartbeatTimeout
    \/ s.start > SessionDuration
    \/ s.ready /\ s.since > (IF s.target = 0 THEN FirstTargetTimeout
                                                   ELSE TargetTimeout)

\* drain_critical and the decisions behind it.  The peer's end of file is met
\* when the queue runs out before the packet limit; a fault of the drain and the
\* end of the authorization, which may come at any time, win over STOP, and STOP
\* wins over the watchdogs.
DrainCritical ==
    /\ At("drain")
    /\ LET limit == IF proc.servoReset THEN 0
                    ELSE Min({Len(toServo), PacketsPerCycle})
           count == Min({limit} \cup {n \in 0 .. limit : Accepted[n].fault})
           s == Accepted[count]
           cut == ~proc.open /\ count < PacketsPerCycle
       IN /\ toServo' = SubSeq(toServo, count + 1, Len(toServo))
          /\ \/ Raise([s EXCEPT !.asked = FALSE])
             \/ /\ ~s.fault /\ ~cut
                /\ s.asked \/ ~WatchdogFires(s)
                /\ servo' = IF s.asked THEN Leave(s) ELSE [s EXCEPT !.pc = "write"]
                /\ UNCHANGED toSession
    /\ UNCHANGED <<proc, arm>>

\* The replies behind a write in time: ACTION_READY once, after enough healthy
\* cycles, or the ACK of the target this write was the first to use.
AfterWrite(s, healthy) ==
    IF ~s.ready /\ healthy
    THEN SendOr(Reply("ACTION_READY", 0),
                [s EXCEPT !.pc = "read", !.ready = TRUE, !.since = 0])
    ELSE IF s.waiting
    THEN SendOr(Reply("ACK", s.target),
                [s EXCEPT !.pc = "read", !.waiting = FALSE,
                          !.acks = IF proc.open THEN @ + 1 ELSE @])
    ELSE servo' = [s EXCEPT !.pc = "read"] /\ UNCHANGED toSession

\* Mutant: the acknowledgement is of the target that only the next write uses.
WriteOnceAhead ==
    /\ At("write")
    /\ arm' = "moving"
    /\ \E healthy \in BOOLEAN : AfterWrite(servo, healthy)
    /\ UNCHANGED <<toServo, proc>>

\* The limiter and its checks, the pre-write deadline, writeOnce, and the
\* deadline behind it: a late write is a fault, and has moved the arm.
WriteOnce ==
    /\ At("write")
    /\ \/ Raise(servo) /\ UNCHANGED arm
       \/ /\ arm' = "moving"
          /\ LET w == [servo EXCEPT !.wrote = servo.target]
             IN Raise(w) \/ \E healthy \in BOOLEAN : AfterWrite(w, healthy)
    /\ UNCHANGED <<toServo, proc>>

\* Time passes for the timestamps of the loop.
OlderServo ==
    IF servo.pc \notin {"read", "drain", "write"} THEN servo
    ELSE [servo EXCEPT !.start = Older(@, SessionDuration),
                       !.beat = Older(@, HeartbeatTimeout),
                       !.since = IF servo.ready THEN Older(@, TargetLimit) ELSE @]

(* Cleanup ----------------------------------------------------------------- *)

\* cleanup_robot: the handle is released, then Robot::stop is called if there
\* was one.  The signal flag is not read again.
ReleaseRobot ==
    /\ At("release")
    /\ servo' = [servo EXCEPT !.pc = "verify", !.active = FALSE,
                              !.stopped = servo.active]
    /\ proc' = [proc EXCEPT !.term = FALSE]
    /\ UNCHANGED <<toServo, toSession, arm>>

\* Mutant: the samples are taken for the verdict without their velocities.
IdleVerdictsBlind(a) == BOOLEAN

IdleVerdicts(a) == IF a = "rest" THEN BOOLEAN ELSE {FALSE}

\* The verification samples, STOP_PROOF and, right behind it, the closed channel.
\* idle_dq_verified takes three fresh samples of an arm at rest; they may fail.
\* Without a control handle the arm comes to rest, before them or only later.
ProveStop ==
    /\ At("verify")
    /\ arm' \in {arm, "rest"}
    /\ \E idle \in IdleVerdicts(arm') :
          /\ servo' = [servo EXCEPT !.pc = "exit", !.acks = 0, !.stopped = FALSE,
                          !.asked = FALSE, !.fault = FALSE,
                          !.clean = idle /\ servo.stopped /\ ~servo.fault]
          /\ Sends([Reply("STOP_PROOF", servo.acks) EXCEPT
                       !.fault = servo.fault, !.asked = servo.asked,
                       !.verified = idle /\ servo.stopped])
    /\ proc' = ChildEndClosed(proc)
    /\ toServo' = <<>>

\* The process ends, a little later.
ExitServo ==
    /\ At("exit")
    /\ servo' = [servo EXCEPT !.pc = "gone", !.clean = FALSE]
    /\ proc' = [proc EXCEPT !.servo = FALSE,
                            !.exit = IF servo.clean THEN "zero" ELSE "nonzero"]
    /\ UNCHANGED <<toServo, toSession, arm>>

(* The environment --------------------------------------------------------- *)

\* The process is killed.  Its connection to the robot goes with it.
ServoDies ==
    /\ proc.servo
    /\ servo' = [ServoStart EXCEPT !.pc = "gone", !.wrote = servo.wrote]
    /\ proc' = [ChildEndClosed(proc) EXCEPT !.servo = FALSE, !.term = FALSE,
                                            !.exit = "nonzero"]
    /\ toServo' = <<>>
    /\ UNCHANGED <<toSession, arm>>

ServoStep == Hello \/ AwaitArm \/ OpenRobot \/ StartControl \/ ReadOnce
             \/ DrainCritical \/ WriteOnce \/ ReleaseRobot \/ ProveStop
             \/ ExitServo
=============================================================================
