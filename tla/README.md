# A TLA+ model of the Franka / RH56 closed-loop deployment

This directory models the part of the repository that moves hardware: the loop
of `src/sim2real/` that sends one policy action at a time to a Franka arm and an
Inspire RH56 hand, the two owner threads of `src/robot_control/` that execute it,
the native servo process that may stand behind the arm's owner, the deployment
lease that lets one process at a time do all this, and the telemetry stream the
native processes publish through.  The rest of the repository (perception, policies,
planners, examples) feeds that loop or stands beside it, and is listed under "What is
not modelled".

Contents: [the system](#1-the-system), [what is hard](#2-what-is-hard-in-it),
[modules](#3-the-modules), [runs](#4-the-runs), [fairness](#5-fairness),
[proofs](#6-the-proofs), [findings](#7-findings),
[modelling decisions](#8-modelling-decisions), [what is not
modelled](#9-what-is-not-modelled), [plan](#10-plan).

To check a run: `tlc -config <run>.cfg <module>.tla`; to check the proofs:
`tlapm` on the modules whose names end in `_proofs`.

## 1. The system

One *run* has three threads: the policy loop (the main thread), the RH56 owner's
worker, and the Franka owner.  They share a commit barrier, a safety gate, the
held Franka target and two stop events.  The loop knows two kinds of run, and one
program for each: the *supervised* run of `run_supervised_v94`, which commands the
arm before the hand and ends with an audit, and the *formal* run under
`BoundedC2Orchestrator`, which commands both at once and has a SIGINT handler.

    policy thread ──stage──▶ ledger ◀──acknowledge── Franka owner ──▶ arm
         │  └────publish──▶ sample-hold ──sample────────▲
         └──submit / ticket──▶ RH56 owner's worker ──▶ hand
                                     └──acknowledge──▶ ledger
    every thread: gate.require_motion_allowed before it lets anything move
    RH56 fault ──callback──▶ gate, loop stop event, Franka stop event

The arm's owner has two implementations: the in-process session above, and a
session proxy whose thread talks over a socket pair to a C++ servo process.

    main thread ──publish / request_clean_stop──▶ session proxy's thread
         └────────── TARGET, STOP ──────┐              │ ARM, HEARTBEAT, STOP
                                        ▼              ▼
      SIGTERM, parent death ──▶ servo process ◀── critical channel
                                        └── READY, TARGET_ACK, FAULT, STOP_PROOF ──▶

Around a run stands the deployment: a process takes the hardware lock (`flock`),
claims a run id for ever, resets the arm, runs the policy, writes its audit and
then its verdict, and exits with a code.  Native processes publish arm and hand
samples into a shared mapping that any number of readers may look at.

| component | state | operations | what makes it correct |
|---|---|---|---|
| Commit barrier, `closed_loop/ledger.py` | pending command, acknowledgements, last commit, fault | stage, acknowledge, require_commit_deadline, fail | a command commits iff both devices acknowledged it; the next is computed from it; a fault freezes everything; a staged command never stays pending |
| Safety gate, `closed_loop/authorization.py` | armed / disarmed / latched, interlocks, the authorization, consumed ids, one clock per thread | update_interlocks, report_fault, arm, require_motion_allowed, disarm | never armed over an open interlock; an authorization opens it once; latching is final; crossing clock samples of two threads are no fault |
| RH56 actuator, `rh56/actuator.py` | armed state, heartbeat, acknowledged sequence | execute, execute_target_and_ack, poll, refresh, the verified stop | at most one frame per sequence; a stop is confirmed only by what the hand reported after the release; the release is sent whatever came before |
| RH56 owner, `rh56/watchdog.py` | request, in-flight sequence, fault, stop, settle, tickets | start, submit, execute, begin_final_tracking_settle, request_stop, stop_and_close, the worker loop | every ticket answered; a hand once moving is stopped if everybody falls silent; faults reach the arm before the slow stop; the port is never closed over an armed hand |
| Franka owner, `franka/session.py` | cycle locals, failure, stop verdict | publish, sample, run | no write after a gate seen closed; each target follows the last commit and is acknowledged once; stopped on every way out |
| Policy loop, `runtime/bounded_c2_runtime.py` | command, pending marks, records | run, its waits, its except clause, stop_and_verify | the arm first, then the hand; a fault is not taken for a stop that was asked for; the run ends; records are complete |
| Supervised runtime, `runtime/supervised_v94_runtime.py` | failure, stop proof, audit | run_supervised_v94's stop, verdict and disarm | PASS only after a complete run without failure, a hand without a fault and a proven stop of both devices |
| Orchestrator, `runtime/bounded_c2_orchestrator.py` | stop event, failure | run's finally clause, disarm, SIGINT | STOPPED_VERIFIED only after a run without failure and a proven stop of both devices |
| Session proxy, `franka/native_session.py` | codec counters, held target, stop flag, proof, failure | run, publish, request_clean_stop, the sends, event handling | a claimed STOP reaches the child or the child is terminated; targets are acknowledged in order; a verified result rests on the child's proof |
| Servo process, `native/v94_franka_servo` | active session, receipt times, target, reply counters | wait_for_arm, the 1 kHz loop, drain, cleanup, STOP_PROOF | no write for a silent supervisor; no acknowledgement before the write; the handle is given back on every way out |
| Deployment lease, `deployment/lease.py` | flock, claim file | acquire, mark_phase, finalize, release | one holder; a run id is used once and for ever; the lock is given back on every way out |
| Deployment runner, `deployment/runner.py` (with `execution_reset.py` and the audit of `supervised_v94_runtime.py`) | phase, audit, exit code | execute_deployment, main | PASS and exit code 0 only with the audit, the stop and the claim that justify them |
| Telemetry stream, `native/telemetry` | slots, guards, published number, claim | create, open, claim, publish, read, release | readers get the whole latest sample or none; one writer; no claim taken from the dead |

## 2. What is hard in it

* *Two device threads and one commit.*  Acknowledgements come in either order,
  late, or for a command that has failed; the deadline is judged with a clock
  value read before the lock.
* *Check, then act.*  Gate, age and ledger are checked before a blocking read,
  before shaping, before the write; each may change in between.
* *Exceptions on every line.*  The worker's faults leave through an inner handler,
  an outer handler, the watchdog or the close; on each path a ticket may be open
  and the hand may be armed.
* *Lost responses.*  A serial write whose answer is missing may have been applied.
* *Deadlines that race.*  The heartbeat, the command age, the feedback age, the
  tracking window, the settle, the hard deadline and the bounded joins.
* *Two processes and a socket.*  STOP may come from two threads, may be refused by
  a full buffer, may be overtaken by SIGTERM or by the other process's death; a
  heartbeat may wait in the socket until its sender is long silent.
* *Crashes with something held.*  A killed deployment leaves a claim, maybe empty,
  an audit, and a servo that has not yet noticed; a killed telemetry writer leaves
  its claim and half a slot.
* *Reading what is being written.*  Telemetry readers take no lock, and the
  processor may show them a payload before the guard that announces it.
* *One event, two meanings.*  The loop's stop event is set by an operator and by a
  hardware fault, and the operator's stop is several signals, one after the other.
* *The other side hangs.*  A process that is alive and silent is seen only by a
  deadline, and not every wait has one.

`PROJECT.json` lists the hazards one by one, each at its line with the properties
that would notice it going wrong.

## 3. The modules

| module | models | builds on |
|---|---|---|
| `LedgerOps` | the barrier's methods as operators on a ledger record, with what they refuse | |
| `ActionLedger` | the barrier among producers that built their command from an older snapshot, devices that repeat or delay acknowledgements, and a deadline check with an old clock sample | `LedgerOps`, instance of `AtomicActionCommit` |
| `AtomicActionCommit` | what the barrier promises: actions are committed one by one, each on top of its predecessor, until a fault ends it | |
| `GateOps` | the gate's methods as operators on a gate record | |
| `SafetyGate` | the gate called by threads that sample the clock first and get the lock later | `GateOps` |
| `RH56Stop` | `_disable_and_verify`: hold, settle, release, final samples, one deadline, and its entry points | |
| `LoopShared` | the state the three threads share | `LedgerOps`, `GateOps` |
| `RH56Owner` | the worker and the calls made on it | `LoopShared` |
| `FrankaOwner` | one cycle after the other of `FrankaPersistentSession.run`, and its end | `LoopShared` |
| `OwnerClients` | the RH56 owner among clients that call it in any order its methods admit | `RH56Owner` |
| `ClosedLoop` | the policy loop with both owners, in the supervised run up to its verdict, with Ctrl+C as an exception and an interlock | `RH56Owner`, `FrankaOwner` |
| `BoundedC2Run` | the same loop in the formal run: the orchestrator's verdict and its SIGINT handler | `ClosedLoop` |
| `NativeLink` | what the two native processes share: the critical channel, signals, each other's death | `LedgerOps` |
| `NativeServo` | `run_servo_process`, three steps per cycle, and its cleanup | `NativeLink` |
| `NativeSession` | the session proxy, its thread, the main thread that publishes and stops | `NativeServo` |
| `NativeArm` | both processes, the clock and crashes | `NativeSession`, instance of `ArmOwner` |
| `ArmOwner` | what an owner of the arm promises to the barrier: writes in order, each acknowledged before the next and never before its write; verified is the end of writing | |
| `DeploymentLease` | processes that run `execute_deployment` and `main` under `lease.py`, and what they leave on disk | instance of `RunRegistry` |
| `RunRegistry` | what the lease promises: one holder, an id used once, verdicts that stand, success only of a PASS | |
| `TelemetryStream` | the two-slot stream of `telemetry.cpp`, one step per access to a shared word | instance of `TelemetryLog` |
| `TelemetryLog` | what a stream promises: an append-only log with one writer, answered by its last entry | |
| `MCSafetyGate`, `MCBoundedC2Run`, `MCDeploymentLease` | values, a VIEW and a symmetry for TLC | |
| `LedgerOps_proofs` | lemmas on the barrier's methods, for every proof that uses them | `LedgerOps` |
| `ActionLedger_proofs`, `SafetyGate_proofs`, `DeploymentLease_proofs`, `TelemetryStream_proofs`, `RH56Stop_proofs`, `NativeArm_proofs` | theorems and proofs | |
| `ClosedLoop_proofs` | theorems and proofs on the hand's owner among its clients, and on the run | `ClosedLoop`, `OwnerClients`, `LedgerOps_proofs` |

How the modules correspond to the code:

* A method that runs under a lock is one operator: `Stage(ledger, cmd, t)` is the
  ledger after `stage`, whether it accepted, refused or failed; `StageAccepts` says
  whether the caller got an exception.  `now` arguments are parameters, as in the
  code, so a caller may pass an old one.
* A thread is a program counter and its locals.  In the worker `pc` names the
  place between two lock operations or two exchanges with the hand: `decide` is
  the `with self._condition` block of the loop, `pub_ledger` to `pub_stop` are the
  steps of `_publish_fault` and the runtime's callback, `fault_disable` the slow
  stop.  `why` is the handler the worker is in.  In `fr.pc` each step is one stage
  of the Franka cycle.  In `pol.pc` each step is one method of the runtime, or one
  round of a wait; `_wait_for_policy_release` is five steps, one for each flag whose
  value may differ by the time the next is read.
* A process of the native pair, of the deployment or of the telemetry stream is the
  same, with `servo.pc`, `sess.pc`, `main`, `procs[p].pc`, `writer[w].pc` and
  `reader[r].pc`; a crash is a step that loses the locals and leaves what is shared
  or on disk.
* An exception is an assignment of the program counter (`Escapes`, `ToHandler`,
  `Raises`, `Throws`), named for the except clause that catches it.
* Operators whose comment starts with "Mutant:" are plausible mistakes, kept
  beside the operator they distort.  No specification uses them: they show that
  each property can tell the code from such a mistake.

## 4. The runs

| run | question | checked |
|---|---|---|
| `ledger` | does the barrier implement an atomic commit under stale callers? | `CommitMeansBothAcked`, `PreviousIsExecuted`, `CommitsAtomically` (refinement), `PendingResolves` (liveness) |
| `gate` | is the gate safe when threads' samples cross and authorizations are reused? | `ArmedMeansSafe`, `AuthorizationSpentOnce`, `NoFalseRegression` |
| `stop` | what does a confirmed stop of the hand rest on? | `ConfirmedMeansProven`, `ReleaseAlwaysSent`, `UnconfirmedHasCause`, `FaultSurvivesStop` |
| `owner` | is the owner safe whatever its clients do and whatever session its factory returns, in supervised mode and in formal mode, which stops the hand inside the transaction; and are clients answered and the hand stopped if they do nothing any more? | `StopEdgeBeforeDisable`, `NeverClosedArmed`, `AcknowledgedMeansApplied`, `VerifiedStopIsTrue`, and the liveness properties `TicketsAreAnswered`, `StopEnds`, `SilenceStopsHand` |
| `loop` | the supervised run with Ctrl+C and the formal run with SIGINT, an interlock in both | `ClosedLoopTypeOK`, `FrankaFirst`, `CommitMeansBothMoved`, `NoTargetAfterLatch`, `PassMeansCleanRun`, `StopIsNoResult`, `VerifiedStopMeansCleanRun` |
| `loop_live` | does a run of either kind end if it is left alone? | `RunEnds` |
| `loop_audit` | is every commit in the records? (not always, see 7) | `AuditComplete` |
| `formal_fault` | may a recorded fault be passed over for Ctrl+C? (for a moment, see 7) | `FaultIsNotCtrlC` |
| `native` | session proxy and servo over one link; either process may die, the link may be full: is a proven stop true, is STOP heard, does a requested stop end `run`, is the control handle given back if the parent hangs, does `run`, once out of its loop, return if the child hangs? | `NativeTypeOK`, `ProvenMeansAtRest`, `StopIsHeard`, `NoWriteUnsupervised`, `ImplementsArmOwner` (refinement), and the liveness properties `RunReturns`, `HandleGivenBack`, `LeftLoopEnds` |
| `native_stop` | can a clean stop fail the run by itself? (it can, see 7) | `StopIsNoFault` |
| `deployment` | several deployments that contend, fail, are interrupted and are killed | `LeaseTypeOK`, `SuccessIsEarned`, `ImplementsRegistry` (refinement) |
| `telemetry` | is every answer the whole latest sample, with writers that die and stores seen early? | `StreamTypeOK`, `LatestIsIntact`, `ImplementsTelemetryLog` (refinement) |

The types of the ledger, the gate and the stop, and that a latched gate or ledger is
frozen, are proved for every value of the constants (section 6) and not checked once
more.

### Bounds, and why they are enough

Every bound is a constant of its module, and a guard names it.

* `MaxSequence`: the number of commands.  Two are needed where a command meets
  the trace of an earlier one (`ledger`, `owner`: acknowledgements carried over,
  a second frame, a heartbeat already running).  The composed runs have one
  command: the code admits one outstanding command, and what a second meets is
  what `owner` explores.  One command already passes through release,
  staging, barrier, commit, final hold and settle.
* `MaxTime`: ticks of the clock.  The deadlines are one or two ticks each, so that
  each can pass before, at and after any step, in every relative order the
  constants' assumptions allow.  In `owner` the clock outruns each of them;
  `LastCommandTime` keeps the last command early enough for its
  deadlines to pass within the bound.  In `loop` the clock ends at the hard
  deadline, after which the policy thread only leaves.  A settle's deadline lies
  beyond that: `owner` lets it pass, `loop` does not.  `loop_live` and
  `formal_fault` have one tick and deadlines of one tick, so that each wait is
  left by its deadline or by its answer.
* `ledger` uses one producer: its commands are already stale, because the next one
  is built while an earlier one is outstanding and staged after that has committed.
  With two actions `PreviousIsExecuted` can tell them apart.  The theorems
  cover any number of producers.
* `gate`: two threads suffice for a crossing; two authorizations and two run names
  suffice for a reuse and a mismatch.
* `stop`: two samples per proof instead of the code's number, so that a proof is
  more than one sample; the deadline is computed from the exchange times, with one
  scheduling delay of `Margin`.

* `native`: two targets, so that a second meets the acknowledgement of the first;
  a socket that holds two packets, so that the third is refused (`Capacity`); two
  packets drained per cycle, so that two may wait behind each other; limits of zero
  to two ticks, so that every watchdog may fire at once, later or never.  There is
  no bound on time: timestamps are kept as ages that saturate.
* `deployment`: three processes and two run ids: one that holds, one that waits,
  one that comes after a crash; a used id and a free one.  Processes that start
  again are new processes.  The theorems cover any number.
* `telemetry`: two writers (one may take over from the other), a reader, two words
  (a torn sample has at least two), two values, three samples, so that a slot is
  rewritten while its first sample is read, and two attempts.  The theorems cover
  any number of each.

Deadlock checking is off in every run: a run, a session, a ledger and a deployment
end, and a telemetry stream whose claimant died is never written again.

## 5. Fairness

* `PendingResolves` (ledger): the policy thread polls the deadline check while a
  command is pending (`_wait_for_dual_commit`) and the clock runs.  Starting a check
  has strong fairness because a producer is not idle all the time; finishing one,
  weak.  The devices are not assumed to answer.
* `OwnerClients!ClientsFairSpec`: weak fairness of the worker and of the clock.  The
  worker is a thread that waits only on its condition, with a timeout computed
  from its deadlines, and on serial exchanges that have timeouts.  Nothing is
  assumed of clients; that is the point of `SilenceStopsHand`.
* `BoundedC2Run!UnaskedSpec`: weak fairness of the three threads and of the clock, and
  no outside stop: with one the run ends for a simpler reason.  `FormalFairSpec` adds
  the handler, which runs on the policy thread.
* `NativeArm!Spec` has no fairness: each liveness property names the one it rests on,
  because they answer three questions.
  `RunReturns` (`Fairness`): weak fairness of the clock, of the servo's steps, of the
  session thread's steps, and of the main thread inside a call.  Nothing hangs there:
  the servo is a real-time loop that blocks only in calls of libfranka, which are
  taken to return or throw, and in polls with a timeout; the session thread waits at
  most for one poll interval.  A crashed process does nothing, and the main thread is
  not assumed to call anything.
  `HandleGivenBack`: only the clock and the servo.  The parent may
  stop at any place and stay alive, with its end of the socket open.
  `LeftLoopEnds`: only the session thread, the deadline of its drain
  and the main thread inside a call.  The servo process may stop at any place.
  What the code does not promise is not assumed away either: with a child that is
  alive and silent the loop of `run` (`native_session.py:2672`) goes on after a
  requested stop, for it has no deadline there; the runtime's bounded join then
  reports an arm that is not stopped.

The models give a step that the code repeats (a wait's round) no progress of its
own, so a liveness property holds only because some deadline ends the wait.

## 6. The proofs

The theorems hold for every value of the constants: any set of actions, threads,
producers and authorizations, of processes and run ids, of writers, readers, words
and values, any bound on sequences, attempts and time.  The only assumptions are the
`ASSUME`s of the modules they extend, which TLC evaluates in the runs.

*Commit barrier.*  `CommitMeansBothAcked` is not inductive: a ledger whose pending
command is not the next one, or that has kept acknowledgements with nothing pending,
satisfies it and breaks it one step later.  The invariant adds `Linked`: the pending
command, when there is one, is the successor of the last commit; without one nothing
is acknowledged; and never have both devices acknowledged what is still pending.
With `Linked`, each action of the module is one step of the proof; a lemma for each
method says what a ledger is after it.  `Implements` shows the refinement of
`AtomicActionCommit`: staging, single acknowledgements and refusals are stutters,
the second acknowledgement is the commit, and a fault is a fault.

*Safety gate.*  A lemma shows that every method but `arm` is `Tame`: a gate armed
after it was armed before with the same authorization, a latched one stays as it is,
and what is used stays used.  `ArmedMeansSafe` then is a matter of `arm` and of the
interlocks' update alone.  `AuthorizationSpentOnce` needs `Remembered`: what was
armed is in the consumed set, which no method shrinks.  `NoFalseRegression` needs
`Clocked`: the gate's last time for a thread is not above what that thread has
sampled; hence comparing per thread never sees a regression, and it is here that a
single last time for all threads would fail.  `UnsafeLatched` says that an interlock
which opened over an armed gate has latched it.

*Deployment lease.*  Neither the evidence behind a PASS nor the registry's promise
is inductive.  `ProcessOK` adds, for each process, that it holds the lock exactly
between taking and giving it back, that its claim names it while it works, and
what it has when it is about to judge; `RunOK`, for each run id, that whoever its
claim names has this run and no other and is past its policy when a verdict is on
disk: else a later phase would rewrite the verdict.  One lemma per group of steps
says what a step does field by field, and `Promise` maps it: taking and dropping
the lock, creating the claim, judging, and reporting are the registry's steps,
everything else is a stutter; a killed holder drops.

*Telemetry stream.*  `LatestIsIntact` holds because the next number falls on the
other slot, but only as long as nobody writes another number: `WriterOK` says that
whoever is anywhere between claiming and publishing is the claimant, that it writes
the successor of the published number, and which of its words are already in the
slot.  `ReaderOK` says what a reader has in hand: if its number is still the latest,
each word it has read is that of the log.  `AcceptedIsLatest` then needs neither of
the reader's looks at the guard: the comparison of the number with the latest
one, after the words, is what carries the proof, whatever the order in which stores
are seen within a slot.  `Implements` maps the store of the published number to the
log's `Publish` and each return of `read_sample` to its `Answer`.

*Verified stop.*  `ConfirmedMeansProven` looks at the last state of a stop; `ProofInv`
follows the proof from the first exchange on and says how far it can have come at
each place: no pass is counted before its release frame is on the bus, a tail is
only collected from a released hand, nothing but a failed phase may skip the hold.
These two and `FaultInv` hold for all times, so no deadline can make a stop
confirmed that is not.  `ReleaseAlwaysSent` is about time and needs a hypothesis,
`ReleaseFits`: half of the budget, which the code keeps for the release, holds one
pass and the scheduling delay; `TimeInv` bounds the clock at the start of each pass.
`UnconfirmedHasCause` needs more, `TimeSuffices`: the reserve for two passes and a
tail of `Samples`, and a first half that holds one motionless hold.  `OnTime`
(`CleanInv`) says where a stop without a cause may be at which time; the lemma
`DeployedTimesSuffice` shows that the deployed times (five seconds, three samples)
satisfy the hypotheses, `stop` checks them at their bound.

*Native pair.*  `Inv` has a part for each process and one for what is on its way.
`PacketsInv` is the link between the ends: a TARGET in the socket is one the barrier
knows, an ACK in the other direction is of a target that was written, a verified
proof was sent by a child that is over.  `ServoInv` ties the loop's target to its
last write and to its replies, `SessionInv` the proxy's counters to the barrier's,
`LedgerInv` repeats `Linked` and adds that the hand never acknowledges first.  The
two sides are proved apart: `ServoSide` says which steps of the servo the rest of
the invariant survives, `QuietSession` which steps of the session or of another
thread, and only the steps that move a counter (launch, a landing acknowledgement,
staging, the verdict) are proved by themselves.  Both lemmas conclude `Sound`, that
the step keeps `Inv` and is a step of `ArmOwner` or a stutter: the refinement
needs no second case analysis, because a write can only raise the count by one.
The states of one drain are a recursive function; that it exists, and that each of
its values is `Drained`, is shown by the least index at which it would fail.

*Hand's owner.*  What the worker keeps by itself is `HandInv`, in five courses.
`FaultCourse`: a fault is kept, told to the arm and to the gate, and only then
followed by the slow stop.  `PortCourse`: the port is given up after a stop was
attempted, or belongs to an actuator that was refused unarmed; `mine` tells the
worker's own actuator from one that another thread has claimed.  `SilentCourse`: a
hand that was not armed was sent nothing.  `ReportCourse`: a verified stop is
reported late, and no step after it takes the confirmation away.  `FrameCourse`: one
frame for each sequence, in order, each after the last was counted, and behind a
frame without an answer nothing is counted before the readback.  A lemma per course
goes through the worker's 25 steps (`WorkerFaults`, `WorkerPorts`, `WorkerSilent`,
`WorkerReports`, `WorkerFrames`); the other threads cannot disturb it as long as
they take no signal back and move the barrier as its methods do (`OthersKeep`,
`CallKeeps`).  With these two facts the invariant holds among clients that call in
any order (`ClientsSpec`), which the first four theorems use, and again in the run.

*Run.*  `FrankaFirst` fails of induction by itself: it needs to know that a request
handed to the hand, or being executed, is the pending command, that the arm has
acknowledged it, and that the policy is waiting for its ticket or has failed
(`BarrierCourse`); that the arm takes up targets once, in order (`ArmCourse`); and
what the barrier holds at each place of the policy's round (`RoundCourse`).  From
these the hand's acknowledgement is always the second one (`HandCommits`), so that a
receipt is a commit and `CommitMeansBothMoved` follows; `FrameCourse` gives it the
frame on the hand's side.  `RecordCourse` says which commits are recorded at which
place.  `PassMeansCleanRun` and `StopIsNoResult` rest on `StopCourse`: outside an
exception nobody but a fault of the hand raises the stop event of a supervised run,
and a fault is recorded before the event is.  So the look at both owners behind the
event finds the fault, wherever the callback fell, and the loop is left for a result
only when everything is committed; what `Result`, the joins and the verdict look at
is then carried to the end (`EndCourse`). `NoTargetAfterLatch` follows from the same
invariant.  The proof has one lemma per step or group of steps of the policy thread;
what they share is `PolicyKeeps`, which lists what a step of that thread must
respect when it leaves the hand alone.  `ArmStep` and `HandStep` are the other two
threads; `HandMoves` is what the rest of the run notices of a step of the worker.
The run is the supervised one, so `Modes` is assumed to contain it.

| theorem | property |
|---|---|
| `ActionLedger_proofs!TypeCorrect` | `TypeOK` (proved only) |
| `BothAcked` | `CommitMeansBothAcked` |
| `PreviousExecuted` | `PreviousIsExecuted` |
| `FaultFreezes` | `FaultFreezesLedger` (proved only) |
| `Implements` | `CommitsAtomically` |
| `SafetyGate_proofs!TypeCorrect` | `TypeOK` (proved only) |
| `ArmedIsSafe` | `ArmedMeansSafe` |
| `SpentOnce` | `AuthorizationSpentOnce` |
| `SamplesMayCross` | `NoFalseRegression` |
| `FaultStays` | `FaultIsTerminal` (proved only) |
| `DeploymentLease_proofs!TypeCorrect` | `LeaseTypeOK` |
| `EvidenceAgrees` | `SuccessIsEarned` |
| `Promise` | `ImplementsRegistry` |
| `TelemetryStream_proofs!TypeCorrect` | `StreamTypeOK` |
| `LatestStands` | `LatestIsIntact` |
| `Implements` | `ImplementsTelemetryLog` |
| `RH56Stop_proofs!StopTypeCorrect` | `TypeOK` (proved only) |
| `ConfirmedIsProven` | `ConfirmedMeansProven` |
| `FaultSurvives` | `FaultSurvivesStop` |
| `ReleaseIsSent` | `ReleaseAlwaysSent` |
| `UnconfirmedOnlyByCause` | `UnconfirmedHasCause` |
| `NativeArm_proofs!NativeTypeCorrect` | `NativeTypeOK` |
| `ProvenIsAtRest` | `ProvenMeansAtRest` |
| `StopHeard` | `StopIsHeard` |
| `NeverUnsupervised` | `NoWriteUnsupervised` |
| `PromiseKept` | `ImplementsArmOwner` |
| `ClosedLoop_proofs!OthersToldFirst` | `StopEdgeBeforeDisable` |
| `GivenUpStopped` | `NeverClosedArmed` |
| `AppliedOnce` | `AcknowledgedMeansApplied` |
| `ReportIsTrue` | `VerifiedStopIsTrue` |
| `LoopTyped` | `ClosedLoopTypeOK` |
| `ArmMovesFirst` | `FrankaFirst` |
| `BothMoved` | `CommitMeansBothMoved` |
| `LateTargetsRest` | `NoTargetAfterLatch` |
| `PassIsEarned` | `PassMeansCleanRun` |
| `StopGivesNoResult` | `StopIsNoResult` |

Every safety property of the passing runs is proved, each refinement included, but
for the formal run: `ClosedLoop!Spec`, of which the theorems speak, is the
supervised run, and `VerifiedStopMeansCleanRun` is only model-checked.  So are the
liveness properties (`PendingResolves`, `TicketsAreAnswered`, `StopEnds`,
`SilenceStopsHand`, `RunEnds`, `RunReturns`, `HandleGivenBack`, `LeftLoopEnds`): the
prover has no rules for fairness.  The three properties of section 7 are false of
the code.

## 7. Findings

* *A committed sequence may be missing from the records* (`loop_audit`).  The hand
  answers its ticket before it reads the feedback that is due.  If that read
  faults, the policy thread leaves at `bounded_c2_runtime.py:2418`, after the dual
  commit and before the record at 2476; nothing is pending any more, so the except
  clause keeps no failing command either.  A Ctrl+C between 2418 and 2476 does the
  same.
* *A clean stop may fail the run* (`native_stop`).  The session thread finds its stop
  flag clear (`native_session.py:2699`) and goes on to encode a heartbeat; if the
  main thread's STOP is encoded in between, the codec refuses the heartbeat
  (876-879), and that refusal is latched as the run's failure although the arm is
  stopped and proved at rest.

* *A recorded fault may be passed over for Ctrl+C, for a moment* (`formal_fault`).
  The release wait looks at the loop's event (`bounded_c2_runtime.py:1852`), then at
  the orchestrator's (1867).  The SIGINT handler sets the orchestrator's first, and
  the hand's callback may record its fault in the same interval: the wait returns for
  the operator although a fault was recorded, against the comment at 1868-1870, and
  `run` returns a result.  The end is not deceived: the callback latches the gate, the
  disarm is refused, and the run ends FAULT_LATCHED (`VerifiedStopMeansCleanRun`).

Seen while modelling, and not stated as properties because no text of the
repository promises otherwise:

* An owner of the hand whose final settle was verified still faults when it is not
  stopped before the settle's deadline (`watchdog.py:1347` looks at the clock only).
* After a requested stop, a servo process that is alive and silent keeps `run` of the
  session proxy in its loop (`native_session.py:2672`); section 5 says what is bounded.
* An actuator that another thread has claimed stays as it is when the worker refuses
  its session: `_require_owner` refuses the worker's stop as well.
* The Franka owner judges the held target by a time read before the state was
  validated (`session.py:2264`); a target published meanwhile is refused as "in the
  future" although it is not newer than the clock.
* When a deployment is killed, its `flock` is free at once, while a servo it spawned
  drives the arm until it sees its channel closed; the next deployment may take
  the lock in between.
* The comment at `telemetry.cpp:447` gives the exchange more than its memory order
  does on AArch64, where the payload's stores may be seen before the odd guard.  The
  stream does not depend on it: the reader's comparison with the latest number
  rejects such a read.

## 8. Modelling decisions

* *Time* is an integer that only `Tick` advances; any number of steps may share a
  tick.  A comparison of floats is a comparison of ticks; the grid of the
  phase-locked release is any slot within one period after now (`SlotsAfter`).
* *Data*: an action vector is a member of `Actions`; measured state, limits,
  shaping and register contents are checks that may fail (a disjunct that raises).
* *Physical tracking* follows one axis: idle, active, lapsed (its target came too
  near to prove motion), verified, failed.  Whether a read shows progress is open.
* *The gate inside the loop* is called at one fixed time on behalf of one caller:
  clock samples and expiry are `SafetyGate`'s subject, and what the threads react
  to is whether it is armed.
* *Stops are signals.*  `request_stop` is a step per signal: the orchestrator's event,
  the loop's, the arm's, the hand's (`SignalExternal` to `SignalHand`, `StopLoop` to
  `StopHand`).  The handler runs on the policy thread between two of its steps; the
  owners go on meanwhile.  In a supervised run Ctrl+C is a KeyboardInterrupt at any
  step of `run`.  The except clause, the caller's finally clause and
  `stop_and_verify` request the stop again; a signal that is up stays up, so one call
  stands for all.  An interrupt during the stop itself is left out.
* *Reads* of several flags between two sleeps are one action only where the flags do
  nothing but go up and all raise when they are up (`WaitBroken`); where the outcomes
  differ, as in the release wait, each read is a step.  `FollowsLedger` reads the
  pending command and the commit together: while a command is pending only the
  acknowledging thread's own step could part them.  The orchestrator's disarm is one
  step with the gate's look at its own state, as the gate's lock makes it.
* *One frame*: a successful answer to a write is taken as the device's word that the
  target is applied, as the code takes it.  Without an answer the target may be
  applied or not; the supervised transaction then asks once (`Readback`), the formal
  one asks after every write.  `RH56Stop` counts a readback that does not match among
  its failed exchanges.
* *The session proxy's refusals*: of the checks of `encode_arm` the model keeps the one
  that another thread can cause (STOP was encoded); `_latch_async_failure` is one step.
* *Bounded joins and waits* (`stop_and_close`, the settle's readiness) may end at
  any time without an answer; this includes the timeouts of the code.
* *Locals that are not read again* are reset (`DropTimers`, `Dropped`, `Step`): it
  merges states that behave alike.  The VIEW of `MCBoundedC2Run` leaves out what no
  step or property reads: the text of a fault and the interlocks of a closed gate.
* *The Franka loop's clean stop* (`cleanStop`) is the session's own event; a
  failure never sets it, as in the code.
* *Packets* are records of their kind, number, age and content; nonce, CRC and
  layout are abstracted to whether a number was skipped.  The STATE channel, which
  may lose packets and decides nothing, is left out.
* *Calls of libfranka* succeed or raise; joint values, shaping and limits are not
  computed.  The servo's cycle is split where the signal flag, the clock and the
  socket may change: read, drain, write.
* *Kernel behaviour* is external: packets stay in order, a full buffer refuses, a
  socket closed over unread packets makes the peer's next call fail once, a lock
  goes with the last descriptor.
* *Files*: a rewrite of a claim goes through a temporary file and a rename, so it
  happens or not, but it may raise either way (`MayHaveSet`).
* *Memory order* (`TelemetryStream`): all processes see the steps in the order in
  which they are taken; the orders the code leaves open are choices of the step.
  The words of a sample are stored in any order, and before or after the odd guard,
  but after the previous publication and before the stable guard; they are read in
  any order between the reader's two looks at the guard.
* *Setup* of a run (arming, bootstrap poses, preflight) is the initial state of
  `ClosedLoop`; `Boot` and `Start` of the RH56 owner are steps in `OwnerClients`.

## 9. What is not modelled

* of the native pair: the STATE telemetry, the codec's bytes, the numeric shaping
  and limits of the servo, HELLO's and the startup's timing beyond their outcome;
* of the policy loop: setup, startup ticks, replay sources, the optional arrival gate,
  a second signal while the stop is on its way, and the run whose arm is the native
  session proxy (`ClosedLoop` has the in-process session; `ArmOwner` is what both
  promise);
* of the deployment: configuration and admission, the perception service, preflight
  and bundle verification (read-only checks), the serial ownership flag;
* of the telemetry mapping: header and provenance checks, sample validation (it
  accepts what is published and refuses a blank slot), the failure to allocate the
  mapping's owner after its layout is committed, which unlinks the file;
* the RH56 Linux transport below one exchange;
* the command mapper, contracts, policy inference, observation and point clouds:
  numeric data processing; the loop sees their result or their exception;
* online tabletop planning, the anydex pipeline and its recovery;
* commissioning, diagnostics, replay, examples, skills and reference code;
* hazards without a property: the SIGINT handler taking a lock the main thread
  already holds, in the hand's owner or in an Event (needs the instruction level of
  the policy thread), rounding in the phase-locked release (floats), a servo that
  would not fault on a hole in the packet numbers (nothing follows such a hole but
  STOP), a settle verified and not stopped in time, and those of section 7 that no
  text of the repository decides.

Most of the repository's lines are of the last kinds: perception, data processing,
planners and operator tools, which keep no state that several actors share and
whose correctness is numeric.  The model covers the control core, some six and
a half thousand lines of it.

## 10. Plan

The order is: what decides whether hardware moves, then what stops it, then what
surrounds a run.

1. Commit barrier, gate, verified stop, RH56 owner, Franka owner, and the run that
   joins them, with theorems on barrier and gate.  *Done.*
2. The native session proxy and the servo, shown to implement an abstract arm
   owner; the deployment lease; the telemetry stream, both with theorems.  *Done.*
3. The RH56 Linux transport (late answers without sequence numbers); the lock order
   of owner, callback and SIGINT handler; interrupted recovery of the anydex driver;
   the periodic-release arithmetic over bounded integers.
4. Theorems on the verified stop, on the native pair, on the hand's owner and on the
   run.  *Done.*  Next: theorems on the formal run, and the commit barrier as the
   runs use it, shown to implement `AtomicActionCommit` there too.
