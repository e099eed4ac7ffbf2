------------------------------ MODULE RH56Owner ------------------------------
(* RH56WatchdogOwner: the one thread that owns the hand's serial port, its
   transactions on the actuator, and the calls other threads make on it.

   `own` is the state under the owner's condition, `act` the actuator the worker
   owns, `pc` where the worker is between two lock operations or exchanges, and
   `why` what it goes back to once a fault has been published and the hand has
   been stopped.  The stop itself is RH56Stop; here it ends confirmed or not.

   Supervised is supervised_target_only: the hand is fed by target writes, polled
   for complete feedback, and its faults are published before it is stopped.
   Otherwise (formal C2) a transaction reads feedback itself and stops the hand
   itself before its failure is published.                                    *)
EXTENDS LoopShared

CONSTANTS Modes,               \* values of supervised_target_only
          HeartbeatTimeout,    \* inter_command_watchdog_timeout_s
          CommandTimeout,      \* command_watchdog_timeout_s
          FeedbackPeriod,      \* _feedback_period_s
          FeedbackHardAge,     \* _feedback_hard_age_s
          TrackingTimeout      \* _tracking_timeout_s

ASSUME OwnerAssumption ==
    /\ Modes \in (SUBSET BOOLEAN) \ {{}}
    /\ {HeartbeatTimeout, CommandTimeout, FeedbackPeriod, FeedbackHardAge,
        TrackingTimeout} \subseteq Nat \ {0}
    /\ FeedbackPeriod < FeedbackHardAge

VARIABLES own, act, pc, why, ticket, lastFeedback, tracking,
          port,            \* [disable: _disable_attempted, serial]
          writes           \* history: numeric frames on the bus, per sequence

ownerVars == <<own, act, pc, why, ticket, lastFeedback, tracking, port, writes>>

Never == -1                \* no heartbeat: awaiting the first numeric command

OwnerStates == {"created", "starting", "running", "fault_latched", "stopped"}
Settles == {"no", "requested", "active"}
Tickets == {"none", "queued", "receipt", "error"}
WorkerSteps ==
    {"new", "boot", "top", "decide", "wait", "settle_begin", "precheck", "write",
     "readback", "recheck", "ack", "uninflight", "complete", "after_ack", "poll",
     "inline_disable", "normal_disable", "pub_ledger", "pub_owner",
     "pub_callback", "pub_gate", "pub_stop", "fault_disable", "handler_complete",
     "close", "exit", "done"}
Reasons == {"none", "handler", "watchdog", "outer", "closing"}

Owners == [supervised : Modes, state : OwnerStates, stop : BOOLEAN,
           request : 0 .. MaxSequence, inflight : 0 .. MaxSequence,
           settle : Settles,
           settleBy : 0 .. MaxTime + TrackingTimeout + FeedbackHardAge,
           fault : BOOLEAN, confirmed : BOOLEAN, report : BOOLEAN, sent : BOOLEAN]

\* `mine`: claimed by the worker (owner_ident); "none": no session returned one.
Actuators == [state : {"none", "disarmed", "armed", "fault_latched"},
              mine : BOOLEAN, confirmed : BOOLEAN, acked : 0 .. MaxSequence,
              heartbeat : {Never} \cup 0 .. MaxTime, holds : 0 .. MaxSequence]

Trackings == [state : {"idle", "active", "lapsed", "verified", "failed"},
              by : 0 .. MaxTime + TrackingTimeout]

Ports == [disable : BOOLEAN, serial : {"none", "open", "closed", "failed"}]

OwnerTypeOK ==
    /\ own \in Owners
    /\ act \in Actuators
    /\ pc \in WorkerSteps /\ why \in Reasons
    /\ ticket \in [Sequences1 -> Tickets]
    /\ lastFeedback \in 0 .. MaxTime
    /\ tracking \in Trackings
    /\ port \in Ports
    /\ writes \in [Sequences1 -> 0 .. 2]

NewOwner == [supervised |-> TRUE, state |-> "created", stop |-> FALSE,
             request |-> 0, inflight |-> 0, settle |-> "no", settleBy |-> 0,
             fault |-> FALSE, confirmed |-> FALSE, report |-> FALSE,
             sent |-> FALSE]

\* The actuator as the session factory returns it: armed, no numeric target.
ArmedActuator(hb) == [state |-> "armed", mine |-> TRUE, confirmed |-> FALSE,
                      acked |-> 0, heartbeat |-> hb, holds |-> 0]

NoActuator == [ArmedActuator(Never) EXCEPT !.state = "none", !.mine = FALSE]

OwnerInit ==
    /\ \E mode \in Modes : own = [NewOwner EXCEPT !.supervised = mode]
    /\ act = NoActuator
    /\ pc = "new" /\ why = "none"
    /\ ticket = [n \in Sequences1 |-> "none"]
    /\ lastFeedback = 0
    /\ tracking = [state |-> "idle", by |-> 0]
    /\ port = [disable |-> FALSE, serial |-> "none"]
    /\ writes = [n \in Sequences1 |-> 0]

(* helpers ----------------------------------------------------------------- *)

LatchActuator == act' = [act EXCEPT !.state = "fault_latched", !.confirmed = FALSE]

Smallest(a, b) == IF a < b THEN a ELSE b

\* The timers of a worker on its way out are never read again.
DropTimers(a) ==
    /\ act' = [a EXCEPT !.heartbeat = Never]
    /\ lastFeedback' = 0
    /\ tracking' = [tracking EXCEPT !.by = 0]

\* RH56OwnerTicket._complete: the first outcome stays.
Answer(n, outcome) ==
    IF n # 0 /\ ticket[n] = "queued" THEN [ticket EXCEPT ![n] = outcome] ELSE ticket

Supervised == own.supervised

\* The formal mode has one timeout for both.
HeartbeatLimit == IF Supervised THEN HeartbeatTimeout ELSE CommandTimeout

HeartbeatDue == act.heartbeat # Never /\ now >= act.heartbeat + HeartbeatLimit
HeartbeatGone == act.heartbeat # Never /\ now > act.heartbeat + HeartbeatLimit
FeedbackDue == Supervised /\ now >= lastFeedback + FeedbackPeriod
FeedbackExpired == Supervised /\ now >= lastFeedback + FeedbackHardAge

\* An exception reaches the worker's outer except clause.
Escapes == pc' = "pub_ledger" /\ why' = "outer"

\* The exception raised inside one execution reaches its own handler.
ToHandler == pc' = "pub_ledger" /\ why' = "handler"

Goto(step) == pc' = step /\ UNCHANGED why

(* calls of other threads -------------------------------------------------- *)

\* start: the worker thread exists from here on.
Start == /\ own.state = "created"
         /\ own' = [own EXCEPT !.state = "starting"]
         /\ Goto("boot")
         /\ UNCHANGED <<act, ticket, lastFeedback, tracking, port, writes>>

\* submit returns a ticket.  Each refusal raises and changes nothing.
SubmitAccepts(n) ==
    /\ own.state = "running"
    /\ ~own.stop
    /\ own.settle = "no"
    /\ own.request = 0 /\ own.inflight = 0
    /\ ledger.pending.seq = n /\ n # 0

Submit(n) ==
    /\ SubmitAccepts(n)
    /\ own' = [own EXCEPT !.request = n]
    /\ ticket' = [ticket EXCEPT ![n] = "queued"]
    /\ UNCHANGED <<act, pc, why, lastFeedback, tracking, port, writes>>

\* begin_final_tracking_settle, up to its wait: an idle request boundary, nothing
\* pending, a committed sequence, and a challenge that is still open.
SettleDeadline == Smallest(tracking.by + FeedbackHardAge,
                           now + TrackingTimeout + FeedbackHardAge)

SettleIdle ==
    /\ Supervised
    /\ own.state = "running"
    /\ ~own.stop
    /\ own.request = 0 /\ own.inflight = 0
    /\ own.settle = "no"
    /\ ~HasPending(ledger) /\ ledger.committed >= 1

SettleAccepts == SettleIdle /\ tracking.state = "active" /\ SettleDeadline > now

BeginSettle ==
    /\ SettleAccepts
    /\ own' = [own EXCEPT !.settle = "requested", !.settleBy = SettleDeadline]
    /\ UNCHANGED <<act, pc, why, ticket, lastFeedback, tracking, port, writes>>

\* Its wait ends without an active settle: timed out, stopped, or faulted.
SettleGivesUp ==
    /\ own.settle = "requested"
    /\ own' = [own EXCEPT !.settle = "no"]
    /\ UNCHANGED <<act, pc, why, ticket, lastFeedback, tracking, port, writes>>

\* request_stop never touches the device.
RequestOwnerStop ==
    /\ own' = [own EXCEPT !.stop = TRUE]
    /\ UNCHANGED <<act, pc, why, ticket, lastFeedback, tracking, port, writes>>

(* worker: startup and the choice of the next action ------------------------ *)

\* What the worker refuses of a session: no actuator at all, one that another
\* thread has claimed, or one of its own that is not armed, was faulted by a
\* bootstrap poll (which stops the formal hand), or has no live heartbeat.
RefusedActuators ==
    {NoActuator} \cup
    {a \in [state : {"disarmed", "armed", "fault_latched"}, mine : BOOLEAN,
            confirmed : BOOLEAN, acked : {0}, heartbeat : {Never}, holds : {0}] :
        a.confirmed => a.state # "armed"}

\* The session factory, the checks of what it returned, and the bootstrap polls.
\* The factory may also raise and leave no session.  The formal hand counts its
\* heartbeat from arming.
Boot ==
    /\ pc = "boot"
    /\ \/ /\ own' = [own EXCEPT !.state = "running"]
          /\ act' = ArmedActuator(IF Supervised THEN Never ELSE now)
          /\ port' = [port EXCEPT !.serial = "open"]
          /\ lastFeedback' = now
          /\ Goto("top")
       \/ /\ act' \in RefusedActuators
          /\ port' = [port EXCEPT !.serial = "open"]
          /\ Escapes
          /\ UNCHANGED <<own, lastFeedback>>
       \/ /\ Escapes
          /\ UNCHANGED <<own, act, port, lastFeedback>>
    /\ UNCHANGED <<shared, ticket, tracking, writes>>

\* refresh_supervised_sample_hold_heartbeat succeeds: the target is committed,
\* the gate lets motion through and the heartbeat it extends is still live.
RefreshAccepts == /\ act.state = "armed" /\ MotionPermitted
                  /\ act.heartbeat # Never
                  /\ ~HeartbeatGone

\* Top of the loop.  An active settle past its deadline is a fault, whatever the
\* tracking has come to; before it the heartbeat is kept alive.
Top ==
    /\ pc = "top"
    /\ IF own.settle = "active" /\ ~own.stop
       THEN IF now < own.settleBy /\ RefreshAccepts
            THEN act' = [act EXCEPT !.heartbeat = now] /\ Goto("decide")
            ELSE Escapes /\ UNCHANGED act
       ELSE Goto("decide") /\ UNCHANGED act
    /\ UNCHANGED <<shared, own, ticket, lastFeedback, tracking, port, writes>>

\* One decision under the condition.  A stop wins over everything, a settle over
\* the watchdog, the watchdog over stale feedback, both over a queued command.
TakeRequest == own' = [own EXCEPT !.request = 0]

DecideStop ==
    /\ own.stop
    /\ TakeRequest
    /\ ledger' = IF own.request # 0 /\ HasPending(ledger) THEN Fail(ledger) ELSE ledger
    /\ ticket' = Answer(own.request, "error")
    /\ Goto("normal_disable")

DecideSettle ==
    /\ ~own.stop
    /\ own.settle = "requested"
    /\ own' = [own EXCEPT !.settle = "no"]
    /\ Goto("settle_begin")
    /\ UNCHANGED <<ledger, ticket>>

NoStopNorSettle == ~own.stop /\ own.settle # "requested"

DecideWatchdog ==
    /\ NoStopNorSettle
    /\ HeartbeatDue
    /\ TakeRequest
    /\ ticket' = Answer(own.request, "error")
    /\ pc' = "pub_ledger" /\ why' = "watchdog"
    /\ UNCHANGED ledger

DecideStale ==
    /\ NoStopNorSettle
    /\ ~HeartbeatDue /\ FeedbackExpired
    /\ TakeRequest
    /\ ticket' = Answer(own.request, "error")
    /\ Escapes
    /\ UNCHANGED ledger

DecideExecute ==
    /\ NoStopNorSettle
    /\ ~HeartbeatDue /\ ~FeedbackExpired
    /\ own.request # 0
    /\ own' = [own EXCEPT !.request = 0, !.inflight = own.request]
    /\ Goto("precheck")
    /\ UNCHANGED <<ledger, ticket>>

DecidePoll ==
    /\ NoStopNorSettle
    /\ ~HeartbeatDue /\ ~FeedbackExpired
    /\ own.request = 0 /\ FeedbackDue
    /\ Goto("poll")
    /\ UNCHANGED <<ledger, own, ticket>>

\* Nothing to do: wait on the condition until a deadline or a notify.
DecideWait ==
    /\ NoStopNorSettle
    /\ ~HeartbeatDue /\ ~FeedbackExpired
    /\ own.request = 0 /\ ~FeedbackDue
    /\ Goto("wait")
    /\ UNCHANGED <<ledger, own, ticket>>

Decide ==
    /\ pc = "decide"
    /\ \/ DecideStop
       \/ DecideSettle
       \/ DecideWatchdog
       \/ DecideStale
       \/ DecideExecute
       \/ DecidePoll
       \/ DecideWait
    /\ UNCHANGED <<gate, now, hold, stopEvent, cleanStop, callbackFault, act,
                   lastFeedback, tracking, port, writes>>

\* Mutant: the wait has no timeout.
WakeOnNotify ==
    /\ pc = "wait"
    /\ own.stop \/ own.settle = "requested" \/ own.request # 0
    /\ Goto("top")
    /\ UNCHANGED <<shared, own, act, ticket, lastFeedback, tracking, port, writes>>

Wake ==
    /\ pc = "wait"
    /\ \/ own.stop \/ own.settle = "requested" \/ own.request # 0
       \/ HeartbeatDue \/ FeedbackDue
       \/ own.settle = "active" /\ now >= own.settleBy
    /\ Goto("top")
    /\ UNCHANGED <<shared, own, act, ticket, lastFeedback, tracking, port, writes>>

\* The worker enters the settle; feedback too slow to keep it alive is a fault.
SettleBegin ==
    /\ pc = "settle_begin"
    /\ IF RefreshAccepts /\ FeedbackPeriod < HeartbeatTimeout
       THEN /\ act' = [act EXCEPT !.heartbeat = now]
            /\ own' = IF own.stop THEN own ELSE [own EXCEPT !.settle = "active"]
            /\ Goto("top")
       ELSE Escapes /\ UNCHANGED <<own, act>>
    /\ UNCHANGED <<shared, ticket, lastFeedback, tracking, port, writes>>

(* worker: one transaction --------------------------------------------------- *)

\* The checks of execute_target_and_ack and execute before the bus is used.
PrecheckAccepts(n) ==
    /\ IF act.heartbeat = Never THEN n = 1 ELSE ~HeartbeatGone
    /\ n = act.acked + 1
    /\ ledger.pending.seq = n
    /\ Age(ledger.pending, now) <= CommandTimeout

\* A failure inside the transaction: the ledger learns it first, the actuator
\* latches; only the formal hand is stopped before the failure is published.
TransactionFails ==
    /\ ledger' = Fail(ledger)
    /\ LatchActuator
    /\ IF Supervised THEN ToHandler ELSE Goto("inline_disable")

Precheck ==
    /\ pc = "precheck"
    /\ \/ /\ ~MotionPermitted                      \* _require_armed, before the try
          /\ ToHandler
          /\ UNCHANGED <<ledger, act>>
       \/ /\ MotionPermitted /\ PrecheckAccepts(own.inflight)
          /\ Goto("write")
          /\ UNCHANGED <<ledger, act>>
       \/ /\ MotionPermitted /\ ~PrecheckAccepts(own.inflight)
          /\ TransactionFails
    /\ UNCHANGED <<gate, now, hold, stopEvent, cleanStop, callbackFault, own,
                   ticket, lastFeedback, tracking, port, writes>>

\* Mutant: a write without a response is taken for applied.
WriteTrusts ==
    /\ pc = "write"
    /\ writes' = [writes EXCEPT ![own.inflight] = @ + 1]
    /\ \E h \in {act.holds, own.inflight} : act' = [act EXCEPT !.holds = h]
    /\ Goto("recheck")
    /\ UNCHANGED <<shared, own, ticket, lastFeedback, tracking, port>>

\* One numeric frame, never repeated.  A successful response means the hand took
\* the target; without one nobody knows, and only the supervised transaction goes
\* on to ask.  A target equal to the last acknowledged one needs no frame.
Write ==
    /\ pc = "write"
    /\ \/ /\ writes' = [writes EXCEPT ![own.inflight] = @ + 1]
          /\ act' = [act EXCEPT !.holds = own.inflight]
          /\ Goto(IF Supervised THEN "recheck" ELSE "readback")
          /\ UNCHANGED ledger
       \/ /\ writes' = [writes EXCEPT ![own.inflight] = @ + 1]
          /\ \E h \in {act.holds, own.inflight} :
               IF Supervised
               THEN /\ act' = [act EXCEPT !.holds = h]
                    /\ Goto("readback")
                    /\ UNCHANGED ledger
               ELSE /\ act' = [act EXCEPT !.holds = h, !.state = "fault_latched"]
                    /\ Goto("inline_disable")
                    /\ ledger' = Fail(ledger)
       \/ /\ Supervised /\ act.acked # 0
          /\ act' = [act EXCEPT !.holds = own.inflight]
          /\ Goto("recheck")
          /\ UNCHANGED <<ledger, writes>>
    /\ UNCHANGED <<gate, now, hold, stopEvent, cleanStop, callbackFault, own,
                   ticket, lastFeedback, tracking, port>>

\* One exact readback: supervised after a missing response, formal after every
\* write, where the safety feedback follows it.  It may fail to arrive, or show
\* that the hand holds another target.
Readback ==
    /\ pc = "readback"
    /\ \/ act.holds = own.inflight /\ Goto("recheck") /\ UNCHANGED <<ledger, act>>
       \/ TransactionFails
    /\ UNCHANGED <<gate, now, hold, stopEvent, cleanStop, callbackFault, own,
                   ticket, lastFeedback, tracking, port, writes>>

\* Age and authorization once more before the acknowledgement.
Recheck ==
    /\ pc = "recheck"
    /\ IF /\ MotionPermitted
          /\ ledger.pending.seq = own.inflight
          /\ Age(ledger.pending, now) <= CommandTimeout
       THEN Goto("ack") /\ UNCHANGED <<ledger, act>>
       ELSE TransactionFails
    /\ UNCHANGED <<gate, now, hold, stopEvent, cleanStop, callbackFault, own,
                   ticket, lastFeedback, tracking, port, writes>>

\* action_ledger.acknowledge raises on a ledger that failed meanwhile.
Ack ==
    /\ pc = "ack"
    /\ IF AckAccepts(ledger, own.inflight, now)
       THEN /\ ledger' = Acknowledge(ledger, "rh56", own.inflight, now)
            /\ act' = [act EXCEPT !.acked = own.inflight, !.heartbeat = now]
            /\ lastFeedback' = IF Supervised THEN lastFeedback ELSE now
            /\ Goto(IF Supervised THEN "uninflight" ELSE "complete")
       ELSE /\ ledger' = Fail(Acknowledge(ledger, "rh56", own.inflight, now))
            /\ LatchActuator
            /\ IF Supervised THEN ToHandler ELSE Goto("inline_disable")
            /\ UNCHANGED lastFeedback
    /\ UNCHANGED <<gate, now, hold, stopEvent, cleanStop, callbackFault, own,
                   ticket, tracking, port, writes>>

\* _register_physical_tracking_target, for one axis: a written target may open a
\* tracking window, move one to the other direction with a new deadline, or come so
\* near that the window lapses and the challenge stays unproven; a proven axis is
\* not challenged again.
Challenge ==
    \/ UNCHANGED tracking
    \/ /\ writes[own.inflight] > 0
       /\ tracking.state \in {"idle", "lapsed", "active"}
       /\ tracking' = [state |-> "active", by |-> act.heartbeat + TrackingTimeout]
    \/ /\ writes[own.inflight] > 0
       /\ tracking.state = "active"
       /\ tracking' = [state |-> "lapsed", by |-> 0]

\* The supervised slot is freed before the ticket is answered, and both before
\* the feedback that may be due is read.
Uninflight ==
    /\ pc = "uninflight"
    /\ Challenge
    /\ own' = [own EXCEPT !.inflight = 0]
    /\ Goto("complete")
    /\ UNCHANGED <<shared, act, ticket, lastFeedback, port, writes>>

Complete ==
    /\ pc = "complete"
    /\ ticket' = Answer(act.acked, "receipt")
    /\ own' = IF Supervised THEN own ELSE [own EXCEPT !.inflight = 0]
    /\ Goto(IF Supervised THEN "after_ack" ELSE "top")
    /\ UNCHANGED <<shared, act, lastFeedback, tracking, port, writes>>

\* What a complete feedback read can come to: progress, no progress yet, or no
\* progress by the tracking deadline, which the tracker raises.
PollGood ==
    /\ lastFeedback' = now
    /\ \/ UNCHANGED tracking /\ ~(tracking.state = "active" /\ now >= tracking.by)
       \/ tracking.state = "active" /\ tracking' = [tracking EXCEPT !.state = "verified"]

PollUntracked ==
    /\ lastFeedback' = lastFeedback
    /\ tracking.state = "active" /\ now >= tracking.by
    /\ tracking' = [tracking EXCEPT !.state = "failed"]

\* poll_safety asks the gate and the heartbeat before the hand.
PollPermitted == MotionPermitted /\ ~HeartbeatGone

PollReadFails == UNCHANGED <<lastFeedback, tracking>>

\* Feedback after the acknowledgement, still inside the handler of sequence n.
AfterAck ==
    /\ pc = "after_ack"
    /\ \/ FeedbackExpired /\ ToHandler /\ UNCHANGED <<act, lastFeedback, tracking>>
       \/ /\ ~FeedbackExpired /\ ~FeedbackDue
          /\ Goto("top")
          /\ UNCHANGED <<act, lastFeedback, tracking>>
       \/ /\ ~FeedbackExpired /\ FeedbackDue
          /\ \/ PollPermitted /\ PollGood /\ Goto("top") /\ UNCHANGED act
             \/ PollPermitted /\ PollUntracked /\ ToHandler /\ UNCHANGED act
             \/ ~MotionPermitted /\ PollReadFails /\ ToHandler /\ UNCHANGED act
             \/ MotionPermitted /\ PollReadFails /\ ToHandler /\ LatchActuator
    /\ UNCHANGED <<shared, own, ticket, port, writes>>

Poll ==
    /\ pc = "poll"
    /\ \/ ~MotionPermitted /\ Escapes /\ UNCHANGED <<act, lastFeedback, tracking>>
       \/ PollPermitted /\ PollGood /\ Goto("top") /\ UNCHANGED act
       \/ PollPermitted /\ PollUntracked /\ Escapes /\ UNCHANGED act
       \/ MotionPermitted /\ PollReadFails /\ Escapes /\ LatchActuator
    /\ UNCHANGED <<shared, own, ticket, port, writes>>

(* worker: publishing a fault, stopping the hand, closing the port ----------- *)

\* The formal transaction stops the hand itself before its exception leaves.
InlineDisable ==
    /\ pc = "inline_disable"
    /\ \E proven \in BOOLEAN : act' = [act EXCEPT !.confirmed = proven]
    /\ ToHandler
    /\ UNCHANGED <<shared, own, ticket, lastFeedback, tracking, port, writes>>

\* Mutant: the report is kept whatever it says.
NormalDisableReports ==
    /\ pc = "normal_disable"
    /\ port' = [port EXCEPT !.disable = TRUE]
    /\ own' = [own EXCEPT !.report = TRUE]
    /\ \/ /\ DropTimers([act EXCEPT !.confirmed = TRUE,
                                     !.state = IF @ = "armed" THEN "disarmed" ELSE @])
          /\ Goto("close")
       \/ /\ DropTimers([act EXCEPT !.state = "fault_latched", !.confirmed = FALSE])
          /\ Escapes
    /\ UNCHANGED <<shared, ticket, writes>>

\* _normal_disable after a requested stop; an unconfirmed one latches and escapes.
NormalDisable ==
    /\ pc = "normal_disable"
    /\ port' = [port EXCEPT !.disable = TRUE]
    /\ \/ /\ DropTimers([act EXCEPT !.confirmed = TRUE,
                                     !.state = IF @ = "armed" THEN "disarmed" ELSE @])
          /\ own' = [own EXCEPT !.report = TRUE]
          /\ Goto("close")
       \/ /\ DropTimers([act EXCEPT !.state = "fault_latched", !.confirmed = FALSE])
          /\ Escapes /\ UNCHANGED own
    /\ UNCHANGED <<shared, ticket, writes>>

\* _publish_fault: the pending sequence fails before anyone is told.
PubLedger ==
    /\ pc = "pub_ledger"
    /\ ledger' = IF HasPending(ledger) THEN Fail(ledger) ELSE ledger
    /\ DropTimers(act)
    /\ Goto("pub_owner")
    /\ UNCHANGED <<gate, now, hold, stopEvent, cleanStop, callbackFault, own,
                   ticket, port, writes>>

\* Mutant: a failure outside a transaction needs no stop of the hand.
AfterPublishUnstopped ==
    IF why = "closing" \/ (why = "outer" /\ port.serial = "none") THEN "exit"
    ELSE IF why = "handler" /\ act.confirmed THEN "handler_complete"
    ELSE IF why = "outer" THEN "close"
    ELSE "fault_disable"

\* Mutant: a port that fails to close is closed again.
AfterPublishRecloses ==
    IF why = "outer" /\ port.serial = "none" THEN "exit"
    ELSE IF why \in {"handler", "outer"} /\ act.confirmed THEN "handler_complete"
    ELSE IF why = "closing" \/ act.state \in {"none", "disarmed"} THEN "close"
    ELSE "fault_disable"

\* Where the worker goes once the fault is known to everyone.  There may be no
\* session to close, no actuator to stop, or one that refuses the write of a stop
\* because it was never armed.
AfterPublish ==
    IF why = "closing" \/ (why = "outer" /\ port.serial = "none") THEN "exit"
    ELSE IF why # "watchdog" /\ act.confirmed THEN "handler_complete"
    ELSE IF why = "outer" /\ act.state \in {"none", "disarmed"} THEN "close"
    ELSE "fault_disable"

\* Mutant: the queued command of a faulted owner is left unanswered.
PubOwnerKeepsRequest ==
    /\ pc = "pub_owner"
    /\ own' = [own EXCEPT !.fault = TRUE, !.state = "fault_latched",
                          !.sent = TRUE]
    /\ Goto(IF own.sent THEN AfterPublish ELSE "pub_callback")
    /\ UNCHANGED <<shared, act, ticket, lastFeedback, tracking, port, writes>>

\* Mutant: the hand is stopped first and the other owner told afterwards.
PubOwnerSilent ==
    /\ pc = "pub_owner"
    /\ own' = [own EXCEPT !.fault = TRUE, !.state = "fault_latched",
                          !.request = 0, !.sent = TRUE]
    /\ ticket' = Answer(own.request, "error")
    /\ Goto(AfterPublish)
    /\ UNCHANGED <<shared, act, lastFeedback, tracking, port, writes>>

\* Under the condition: the first fault is kept, the owner is faulted, a queued
\* command is refused, and the callback is due once.
PubOwner ==
    /\ pc = "pub_owner"
    /\ own' = [own EXCEPT !.fault = TRUE, !.state = "fault_latched",
                          !.request = 0, !.sent = TRUE]
    /\ ticket' = Answer(own.request, "error")
    /\ Goto(IF own.sent THEN AfterPublish ELSE "pub_callback")
    /\ UNCHANGED <<shared, act, lastFeedback, tracking, port, writes>>

\* The runtime's callback, in the worker: keep the fault, latch the gate, then
\* stop the policy loop and the arm.
PubCallback ==
    /\ pc = "pub_callback"
    /\ callbackFault' = TRUE
    /\ Goto("pub_gate")
    /\ UNCHANGED <<ledger, gate, now, hold, stopEvent, cleanStop, own, act,
                   ticket, lastFeedback, tracking, port, writes>>

PubGate ==
    /\ pc = "pub_gate"
    /\ gate' = LatchGate(gate, "external")
    /\ Goto("pub_stop")
    /\ UNCHANGED <<ledger, now, hold, stopEvent, cleanStop, callbackFault, own,
                   act, ticket, lastFeedback, tracking, port, writes>>

PubStop ==
    /\ pc = "pub_stop"
    /\ stopEvent' = TRUE
    /\ cleanStop' = TRUE
    /\ Goto(AfterPublish)
    /\ UNCHANGED <<ledger, gate, now, hold, callbackFault, own, act, ticket,
                   lastFeedback, tracking, port, writes>>

\* enforce_policy_watchdog or fault_and_disable, and _finish_fault_stop: a stop
\* once confirmed is not unconfirmed by a later one.  The actuator of another
\* thread refuses this one (_require_owner) and stays as it is.
FaultDisable ==
    /\ pc = "fault_disable"
    /\ port' = [port EXCEPT !.disable = TRUE]
    /\ \/ /\ act.mine
          /\ \E proven \in BOOLEAN :
               /\ act' = [act EXCEPT !.state = "fault_latched", !.confirmed = proven]
               /\ own' = [own EXCEPT !.confirmed = @ \/ proven, !.report = @ \/ proven]
       \/ ~act.mine /\ UNCHANGED <<act, own>>
    /\ Goto(IF why = "watchdog" THEN "close" ELSE "handler_complete")
    /\ UNCHANGED <<shared, ticket, lastFeedback, tracking, writes>>

\* The handler answers its own ticket last; the slot is freed on the way out.
HandlerComplete ==
    /\ pc = "handler_complete"
    /\ ticket' = IF why = "handler" THEN Answer(own.inflight, "error") ELSE ticket
    /\ own' = [own EXCEPT !.inflight = 0, !.confirmed = @ \/ act.confirmed]
    /\ port' = [port EXCEPT !.disable = TRUE]
    /\ Goto("close")
    /\ UNCHANGED <<shared, act, lastFeedback, tracking, writes>>

\* The port is closed last of all; a close that fails is published too.
Close ==
    /\ pc = "close"
    /\ \/ port' = [port EXCEPT !.serial = "closed"] /\ Goto("exit")
       \/ /\ port' = [port EXCEPT !.serial = "failed"]
          /\ pc' = "pub_ledger" /\ why' = "closing"
    /\ UNCHANGED <<shared, own, act, ticket, lastFeedback, tracking, writes>>

Exit ==
    /\ pc = "exit"
    /\ own' = [own EXCEPT !.settle = "no", !.settleBy = 0,
                          !.confirmed = @ \/ (why = "closing" /\ act.confirmed),
                          !.state = IF own.fault THEN "fault_latched" ELSE "stopped"]
    /\ pc' = "done" /\ why' = "none"
    /\ UNCHANGED <<shared, act, ticket, lastFeedback, tracking, port, writes>>

\* What stop_and_close reads of an ended worker: a stop report that verified, or
\* a fault whose stop was confirmed.
DisabledVerified == own.report \/ (own.fault /\ own.confirmed)

Worker ==
    \/ Boot \/ Top \/ Decide \/ Wake \/ SettleBegin
    \/ Precheck \/ Write \/ Readback \/ Recheck \/ Ack \/ Uninflight \/ Complete
    \/ AfterAck \/ Poll
    \/ InlineDisable \/ NormalDisable
    \/ PubLedger \/ PubOwner \/ PubCallback \/ PubGate \/ PubStop
    \/ FaultDisable \/ HandlerComplete \/ Close \/ Exit
=============================================================================
