-------------------------- MODULE ClosedLoop_proofs --------------------------
(* What is proved of the threads of a run.  The RH56 owner is the same in both
   modules that use it, so what its worker preserves by itself is proved once and
   used twice: among clients that call it in any order (ClientsSpec), and under
   the policy thread, next to the arm's owner (Spec).                          *)
EXTENDS ClosedLoop, OwnerClients, LedgerOps_proofs

(* the invariant of the hand's owner ------------------------------------------ *)

\* The gate as a record: an authorization and an interlock more or less do not
\* matter here, only the state does.
Gates == [state : GateStates, deadman : Interlocks, estop : Interlocks,
          auth : {RunAuthorization, NoAuthorization}, reason : GateReasons,
          used : SUBSET {"auth"}, highest : Int, clock : [Threads -> Int]]

SharedTyped ==
    /\ ledger \in Ledgers
    /\ ledger.committed \in 0 .. MaxSequence
    /\ ledger.pending.seq \in 0 .. MaxSequence
    /\ gate \in Gates
    /\ now \in 0 .. MaxTime
    /\ hold \in [seq : 0 .. MaxSequence, produced : 0 .. MaxTime]
    /\ stopEvent \in BOOLEAN /\ cleanStop \in BOOLEAN /\ callbackFault \in BOOLEAN

\* Steps of a worker that has not failed and has not been stopped.
LiveSteps == {"new", "boot", "top", "decide", "wait", "settle_begin", "precheck",
              "write", "readback", "recheck", "ack", "uninflight", "complete",
              "after_ack", "poll"}
Executing == pc \in {"precheck", "write", "readback", "recheck", "ack"}
StopEdges == stopEvent /\ cleanStop /\ gate.state = "fault_latched"
Announcing == {"pub_callback", "pub_gate", "pub_stop"}
Publishing == {"pub_ledger", "pub_owner"} \cup Announcing

\* A fault has one course: it is kept, told to the others, and only then followed
\* by the stop of the hand.
FaultCourse ==
    /\ own.sent = own.fault
    /\ pc \in LiveSteps \cup {"normal_disable", "inline_disable"} =>
         why = "none" /\ ~own.fault
    /\ pc \in {"fault_disable", "handler_complete"} => why # "closing"
    /\ pc \in Announcing \cup {"fault_disable", "handler_complete"} => own.fault
    /\ own.fault => own.request = 0 /\ own.state = "fault_latched"
    /\ own.fault /\ pc \notin Announcing => StopEdges
    /\ pc = "pub_stop" => gate.state = "fault_latched"
    /\ own.state = "created" => pc = "new"

\* The port is given up after a stop was attempted, or by a hand that was not armed;
\* what the worker had claimed is not armed any more.
GivenUp == port.serial \in {"closed", "failed"} \/ pc = "close" \/ why = "closing"

PortCourse ==
    /\ GivenUp => port.disable \/ (act.state \in {"none", "disarmed"} /\ ~act.confirmed)
    /\ pc \in {"new", "boot"} => port.serial = "none"
    /\ port.serial = "none" => /\ act.state = "none" /\ ~act.confirmed
                               /\ \/ pc \in {"new", "boot", "exit", "done"}
                                  \/ pc \in Publishing /\ why = "outer"
    /\ act.confirmed => act.state # "armed"
    /\ pc = "inline_disable" => act.state = "fault_latched"
    /\ pc \in {"handler_complete", "close", "exit", "done"} /\ act.mine =>
         act.state # "armed"
    /\ why = "closing" /\ act.mine => act.state # "armed"

\* A hand that has not been armed was sent nothing.
SilentCourse ==
    /\ pc \in LiveSteps \ {"new", "boot"} => act.state = "armed"
    /\ act.state \in {"none", "disarmed"} /\ ~port.disable =>
         \A n \in Sequences1 : writes[n] = 0

\* A report of a verified stop is made late, and nothing after it undoes it.
ReportCourse ==
    /\ own.report \/ own.confirmed => port.disable /\ act.confirmed
    /\ pc \notin {"handler_complete", "close", "exit", "done"} /\ why # "closing"
         => ~own.report /\ ~own.confirmed

\* One frame for each sequence, in their order, each after the last was counted.
FrameCourse ==
    /\ "rh56" \in ledger.acked => /\ act.acked = ledger.pending.seq
                                  /\ act.holds = ledger.pending.seq
    /\ ledger.committed <= act.acked
    /\ act.acked <= act.holds
    /\ pc \in {"new", "boot"} => act.acked = 0 /\ act.holds = 0
    /\ Executing => own.inflight # 0
    /\ pc \in {"write", "readback", "recheck", "ack"} =>
         ledger.pending.seq = own.inflight /\ own.inflight = act.acked + 1
    /\ pc \in {"recheck", "ack"} => act.holds = own.inflight
    /\ pc \in LiveSteps =>
         \A n \in Sequences1 :
            /\ n > act.acked /\ pc \notin {"readback", "recheck", "ack"} => writes[n] = 0
            /\ n > act.acked + 1 => writes[n] = 0
    /\ \A n \in Sequences1 : writes[n] <= 1

HandInv == FaultCourse /\ PortCourse /\ SilentCourse /\ ReportCourse /\ FrameCourse

ClientsInv == SharedTyped /\ OwnerTypeOK /\ HandInv

(* the invariant of the loop --------------------------------------------------- *)

RoundStart == Releases \cup {"prepare"}
Final == {"settle", "settle_call", "settle_ready", "settle_wait", "result"}
Ending == Stops \cup {"exc_gate", "join_hand", "join_arm", "verdict", "end"}

CommandSteps == {"health", "stage", "publish", "barrier", "submit", "ticket",
                 "faultcheck", "commit", "record", "source"}

PolicyTyped ==
    /\ PolicyTypeOK
    /\ pol.cmd.seq \in 0 .. MaxSequence
    /\ pol.cmd.produced \in 0 .. MaxTime
    /\ pol.pc \in CommandSteps => pol.cmd \in Commands
    /\ pol.pc \in RoundStart /\ ~pol.final => ledger.committed < MaxSequence
    /\ pol.pc = "prepare" => ~pol.final

\* The policy has handed the sequence over and has nothing left to do but wait for
\* it or to end the run.
HandedOver == pol.pc \in {"ticket", "exc_ledger"} \/ pol.failed

\* The barrier as the threads of one run use it: the arm acknowledges first, so the
\* hand's acknowledgement commits.
BarrierCourse ==
    /\ HasPending(ledger) => ledger.pending.seq = ledger.committed + 1
    /\ ~HasPending(ledger) => ledger.acked = {}
    /\ "rh56" \notin ledger.acked
    /\ act.acked = ledger.committed
    /\ own.request # 0 => /\ own.request = ledger.pending.seq
                          /\ "franka" \in ledger.acked
                          /\ ticket[own.request] = "queued"
                          /\ HandedOver
    /\ Executing => /\ own.request = 0
                    /\ own.inflight = ledger.pending.seq
                    /\ "franka" \in ledger.acked
                    /\ HandedOver
    /\ \A n \in Sequences1 : ticket[n] = "receipt" => n <= ledger.committed
    /\ pc \in {"uninflight", "complete"} => /\ act.acked # 0
                                           /\ ticket[act.acked] # "receipt"
                                           /\ HandedOver

\* The arm takes up a target once, in order, and none that it took up too late.
ArmCourse ==
    /\ "franka" \in ledger.acked => fr.acked = ledger.pending.seq
    /\ ledger.committed <= fr.acked
    /\ fr.acked <= fr.current
    /\ fr.failed => fr.pc \in {"fail_ledger", "fail_gate", "stop", "stop_ledger",
                               "stop_gate", "done"}
    /\ fr.pc \in {"fail_ledger", "fail_gate"} => fr.failed
    /\ fr.failed /\ fr.pc \notin {"fail_ledger", "fail_gate"} =>
         gate.state = "fault_latched"
    /\ fr.late => /\ gate.state # "armed"
                  /\ fr.acked < fr.current
                  /\ fr.pc \in {"regate", "fail_ledger", "fail_gate", "stop",
                                "stop_ledger", "stop_gate", "done"}

\* Where the policy thread is in its round tells what the barrier holds.
RoundCourse ==
    /\ pol.failed => pol.pc \in Ending
    /\ pol.pc = "exc_gate" => pol.failed
    /\ ~pol.failed /\ pol.pc \in RoundStart \cup Final \cup Ending \cup
                                 {"health", "stage", "faultcheck", "commit",
                                  "record", "source"} => ~HasPending(ledger)
    /\ pol.pc \in {"health", "stage"} => pol.cmd.seq = ledger.committed + 1
    /\ pol.pc \in {"publish", "barrier", "submit"} => ledger.pending = pol.cmd
    /\ pol.pc = "submit" => "franka" \in ledger.acked
    /\ pol.pc = "ticket" =>
         \/ ledger.pending = pol.cmd /\ "franka" \in ledger.acked
         \/ ~HasPending(ledger) /\ ledger.committed = pol.cmd.seq
    /\ pol.pc \in {"faultcheck", "commit", "record", "source"} =>
         ledger.committed = pol.cmd.seq

\* Every commit is recorded before the next round, or the run has failed.
RecordCourse ==
    /\ ~pol.failed /\ pol.pc \in RoundStart \cup Final \cup Ending \cup
                                 {"health", "stage", "source"} =>
         records = 1 .. ledger.committed
    /\ pol.pc \in {"publish", "barrier", "submit", "ticket", "faultcheck",
                   "commit", "record"} => records = 1 .. (pol.cmd.seq - 1)

\* The loop is stopped by nobody but the hand, whose fault is kept before, and by
\* the policy itself, which comes to the end of a run through its last sequence.
StopCourse ==
    /\ ~external
    /\ pc \in {"pub_gate", "pub_stop"} => callbackFault
    /\ stopEvent => callbackFault \/ pol.pc \in Ending \ {"exc_gate", "stop_loop"}
    /\ pol.pc = "release_recheck" => stopEvent
    /\ pol.final => ledger.committed = MaxSequence
    /\ ~pol.failed /\ pol.pc \in Final \cup Ending => ledger.committed = MaxSequence

\* The verdict rests on owners that have ended, and on a hand that left no
\* challenge open.
EndCourse ==
    /\ gate.state = "armed" => gate.auth = RunAuthorization
    /\ pol.pc # "end" => pol.outcome = "running"
    /\ ~pol.failed /\ pol.pc \in Ending => tracking.state \in {"idle", "verified"}
    /\ ~pol.errors /\ pol.pc \in {"join_arm", "verdict"} =>
         pc = "done" /\ HandProven /\ ~own.fault
    /\ ~pol.errors /\ pol.pc = "verdict" => FrankaDone /\ fr.stopped

LoopInv ==
    /\ BarrierCourse /\ ArmCourse /\ RoundCourse /\ RecordCourse
    /\ StopCourse /\ EndCourse

Inv ==
    /\ SharedTyped /\ OwnerTypeOK /\ FrankaTypeOK /\ PolicyTyped
    /\ Supervised
    /\ HandInv /\ LoopInv
    /\ FrankaFirst /\ PassMeansCleanRun

(* what the worker does that the others notice ---------------------------------- *)

\* A request is taken or refused, and a request that stays is not answered.
RequestMoves ==
    /\ own'.request \in {0, own.request}
    /\ own'.request # 0 => ticket'[own'.request] = ticket[own'.request]

\* An execution goes on with its sequence, or starts with the one requested.
ExecutionMoves ==
    Executing' => \/ Executing /\ own'.inflight = own.inflight
                  \/ /\ own.request # 0 /\ own'.inflight = own.request
                     /\ own'.request = 0

\* A receipt is given for the sequence counted last, and no error is taken back.
AnswerMoves ==
    \A n \in Sequences1 :
       /\ ticket'[n] = "receipt" => ticket[n] = "receipt" \/ n = act.acked
       /\ ticket[n] = "error" => ticket'[n] = "error"

FrameMoves ==
    \A n \in Sequences1 :
       writes'[n] > 0 => writes[n] > 0 \/ (Executing /\ n = own.inflight)

\* Whatever a thread does to a ledger short of a new acknowledgement.
LedgerStands ==
    /\ ledger'.committed = ledger.committed
    /\ ledger'.pending = ledger.pending
    /\ ledger'.acked = ledger.acked

\* The worker may fail the ledger, and counts a sequence when it has executed it.
CountMoves ==
    \/ LedgerStands /\ act'.acked = act.acked
    \/ /\ Executing /\ ~Executing' /\ HasPending(ledger)
       /\ act'.acked = own.inflight
       /\ ledger' = AcceptAck(ledger, "rh56")

\* A counted sequence has its ticket answered in two further steps, and only the
\* first of them may open a challenge.
TailMoves ==
    /\ pc' \in {"uninflight", "complete"} =>
         /\ ticket' = ticket
         /\ \/ pc = "ack" /\ act'.acked = own.inflight
            \/ pc = "uninflight" /\ act'.acked = act.acked
    /\ tracking'.state = tracking.state \/ tracking.state = "active"
         \/ pc = "uninflight"

\* The loop is stopped by a callback that has kept the fault before.
CallbackMoves ==
    /\ callbackFault => callbackFault'
    /\ pc' \in {"pub_gate", "pub_stop"} => pc = "pub_gate" \/ callbackFault'
    /\ stopEvent' => stopEvent \/ pc = "pub_stop"

HandMoves ==
    /\ pc # "done" /\ own'.supervised = own.supervised
    /\ RequestMoves /\ ExecutionMoves /\ AnswerMoves /\ FrameMoves /\ CountMoves
    /\ TailMoves /\ CallbackMoves

(* what the policy leaves alone --------------------------------------------------- *)

\* The hand, its requests and the barrier are as they were, and no signal was
\* taken back.
HandStands ==
    /\ SharedTyped' /\ OwnerTypeOK' /\ HandInv'
    /\ own'.request = own.request /\ own'.inflight = own.inflight
    /\ own'.fault = own.fault
    /\ own'.report = own.report /\ own'.confirmed = own.confirmed
    /\ own'.supervised = own.supervised
    /\ UNCHANGED <<act, pc, port, ticket, tracking, writes, callbackFault>>
    /\ LedgerStands
    /\ gate' = gate \/ gate'.state = "fault_latched"

\* A step of the worker keeps the course of a fault.
LEMMA WorkerFaults ==
  ASSUME own \in Owners, gate \in Gates, FaultCourse, Worker
  PROVE  FaultCourse'
<1>1. CASE Boot
  <2>1. /\ pc = "boot"
        /\ \/ pc' = "top" /\ why' = why
           \/ pc' = "pub_ledger" /\ why' = "outer"
        /\ own' \in {own, [own EXCEPT !.state = "running"]}
        /\ UNCHANGED <<gate, stopEvent, cleanStop>>
    BY <1>1 DEF Boot, Goto, Escapes, shared
  <2>2. QED
    BY <2>1 DEF FaultCourse, StopEdges, Announcing, LiveSteps, Owners
<1>2. CASE Top
  BY <1>2 DEF Top, Goto, Escapes, shared,
         FaultCourse, StopEdges, Announcing, LiveSteps, Owners, Gates, LatchGate
<1>3. CASE Decide
  BY <1>3 DEF Decide, DecideStop, DecideSettle, DecideWatchdog, DecideStale,
         DecideExecute, DecidePoll, DecideWait, TakeRequest, Goto, Escapes,
         FaultCourse, StopEdges, Announcing, LiveSteps, Owners, Gates, LatchGate
<1>4. CASE Wake
  BY <1>4 DEF Wake, Goto, shared,
         FaultCourse, StopEdges, Announcing, LiveSteps, Owners, Gates, LatchGate
<1>5. CASE SettleBegin
  BY <1>5 DEF SettleBegin, Goto, Escapes, shared,
         FaultCourse, StopEdges, Announcing, LiveSteps, Owners, Gates, LatchGate
<1>6. CASE Precheck
  BY <1>6 DEF Precheck, TransactionFails, LatchActuator, Goto, ToHandler,
         FaultCourse, StopEdges, Announcing, LiveSteps, Owners, Gates, LatchGate
<1>7. CASE Write
  BY <1>7 DEF Write, Goto, ToHandler,
         FaultCourse, StopEdges, Announcing, LiveSteps, Owners, Gates, LatchGate
<1>7b. CASE Readback
  BY <1>7b DEF Readback, TransactionFails, LatchActuator, Goto, ToHandler,
         FaultCourse, StopEdges, Announcing, LiveSteps, Owners, Gates, LatchGate
<1>8. CASE Recheck
  BY <1>8 DEF Recheck, TransactionFails, LatchActuator, Goto, ToHandler,
         FaultCourse, StopEdges, Announcing, LiveSteps, Owners, Gates, LatchGate
<1>9. CASE Ack
  BY <1>9 DEF Ack, LatchActuator, Goto, ToHandler,
         FaultCourse, StopEdges, Announcing, LiveSteps, Owners, Gates, LatchGate
<1>10. CASE Uninflight
  BY <1>10 DEF Uninflight, Goto, shared,
         FaultCourse, StopEdges, Announcing, LiveSteps, Owners, Gates, LatchGate
<1>11. CASE Complete
  BY <1>11 DEF Complete, Goto, shared,
         FaultCourse, StopEdges, Announcing, LiveSteps, Owners, Gates, LatchGate
<1>12. CASE AfterAck
  BY <1>12 DEF AfterAck, LatchActuator, Goto, ToHandler, shared,
         FaultCourse, StopEdges, Announcing, LiveSteps, Owners, Gates, LatchGate
<1>13. CASE Poll
  BY <1>13 DEF Poll, LatchActuator, Goto, Escapes, shared,
         FaultCourse, StopEdges, Announcing, LiveSteps, Owners, Gates, LatchGate
<1>14. CASE InlineDisable
  BY <1>14 DEF InlineDisable, ToHandler, shared,
         FaultCourse, StopEdges, Announcing, LiveSteps, Owners, Gates, LatchGate
<1>15. CASE NormalDisable
  BY <1>15 DEF NormalDisable, DropTimers, Goto, Escapes, shared,
         FaultCourse, StopEdges, Announcing, LiveSteps, Owners, Gates, LatchGate
<1>16. CASE PubLedger
  BY <1>16 DEF PubLedger, DropTimers, Goto,
         FaultCourse, StopEdges, Announcing, LiveSteps, Owners, Gates, LatchGate
<1>17. CASE PubOwner
  BY <1>17 DEF PubOwner, AfterPublish, Goto, shared,
         FaultCourse, StopEdges, Announcing, LiveSteps, Owners, Gates, LatchGate
<1>18. CASE PubCallback
  BY <1>18 DEF PubCallback, Goto,
         FaultCourse, StopEdges, Announcing, LiveSteps, Owners, Gates, LatchGate
<1>19. CASE PubGate
  BY <1>19 DEF PubGate, Goto,
         FaultCourse, StopEdges, Announcing, LiveSteps, Owners, Gates, LatchGate
<1>20. CASE PubStop
  BY <1>20 DEF PubStop, AfterPublish, Goto,
         FaultCourse, StopEdges, Announcing, LiveSteps, Owners, Gates, LatchGate
<1>21. CASE FaultDisable
  BY <1>21 DEF FaultDisable, Goto, shared,
         FaultCourse, StopEdges, Announcing, LiveSteps, Owners, Gates, LatchGate
<1>22. CASE HandlerComplete
  BY <1>22 DEF HandlerComplete, Goto, shared,
         FaultCourse, StopEdges, Announcing, LiveSteps, Owners, Gates, LatchGate
<1>23. CASE Close
  BY <1>23 DEF Close, Goto, shared,
         FaultCourse, StopEdges, Announcing, LiveSteps, Owners, Gates, LatchGate
<1>24. CASE Exit
  BY <1>24 DEF Exit, shared,
         FaultCourse, StopEdges, Announcing, LiveSteps, Owners, Gates, LatchGate
<1>25. QED
  BY <1>1, <1>2, <1>3, <1>4, <1>5, <1>6, <1>7, <1>7b, <1>8, <1>9, <1>10, <1>11,
     <1>12, <1>13, <1>14, <1>15, <1>16, <1>17, <1>18, <1>19, <1>20, <1>21,
     <1>22, <1>23, <1>24 DEF Worker

\* A step of the worker gives the port up after a stop only.
LEMMA WorkerPorts ==
  ASSUME own \in Owners, act \in Actuators, port \in Ports, FaultCourse, PortCourse,
         SilentCourse, Worker
  PROVE  PortCourse'
<1>0. pc \in LiveSteps \ {"new", "boot"} => act.state = "armed"
  BY DEF SilentCourse
<1>1. CASE Boot
  <2>1. /\ pc = "boot" /\ why = "none"
        /\ \/ pc' = "top" /\ why' = why
           \/ pc' = "pub_ledger" /\ why' = "outer"
    BY <1>1 DEF Boot, Goto, Escapes, FaultCourse, LiveSteps
  <2>2. \/ port' = port /\ act' = act /\ pc' = "pub_ledger"
        \/ /\ port' = [port EXCEPT !.serial = "open"]
           /\ act' \in RefusedActuators \/ \E h : act' = ArmedActuator(h)
    BY <1>1 DEF Boot, Goto, Escapes
  <2>3. \/ port'.serial = "open" /\ port'.disable = port.disable
        \/ port' = port /\ act' = act /\ pc' = "pub_ledger"
    BY <2>2 DEF Ports
  <2>4. act'.confirmed => act'.state # "armed"
    <3>1. CASE act' \in RefusedActuators
      BY <3>1 DEF RefusedActuators, NoActuator, ArmedActuator
    <3>2. CASE \E h : act' = ArmedActuator(h)
      BY <3>2 DEF ArmedActuator
    <3>3. QED BY <2>2, <3>1, <3>2 DEF PortCourse
  <2>5. QED
    BY <2>1, <2>3, <2>4
    DEF PortCourse, GivenUp, LiveSteps, Publishing, Announcing
<1>2. CASE Top
  BY <1>2 DEF Top, Goto, Escapes, shared,
         FaultCourse, PortCourse, GivenUp, LiveSteps, Publishing, Announcing, Owners,
         Actuators, Ports
<1>3. CASE Decide
  BY <1>3 DEF Decide, DecideStop, DecideSettle, DecideWatchdog, DecideStale,
         DecideExecute, DecidePoll, DecideWait, TakeRequest, Goto, Escapes,
         FaultCourse, PortCourse, GivenUp, LiveSteps, Publishing, Announcing, Owners,
         Actuators, Ports
<1>4. CASE Wake
  BY <1>4 DEF Wake, Goto, shared,
         FaultCourse, PortCourse, GivenUp, LiveSteps, Publishing, Announcing, Owners,
         Actuators, Ports
<1>5. CASE SettleBegin
  BY <1>5 DEF SettleBegin, Goto, Escapes, shared,
         FaultCourse, PortCourse, GivenUp, LiveSteps, Publishing, Announcing, Owners,
         Actuators, Ports
<1>6. CASE Precheck
  BY <1>0, <1>6 DEF Precheck, TransactionFails, LatchActuator, Goto, ToHandler,
         FaultCourse, PortCourse, GivenUp, LiveSteps, Publishing, Announcing, Owners,
         Actuators, Ports
<1>7. CASE Write
  BY <1>0, <1>7 DEF Write, Goto,
         FaultCourse, PortCourse, GivenUp, LiveSteps, Publishing, Announcing, Owners,
         Actuators, Ports
<1>7b. CASE Readback
  BY <1>0, <1>7b DEF Readback, TransactionFails, LatchActuator, Goto, ToHandler,
         FaultCourse, PortCourse, GivenUp, LiveSteps, Publishing, Announcing, Owners,
         Actuators, Ports
<1>8. CASE Recheck
  BY <1>0, <1>8 DEF Recheck, TransactionFails, LatchActuator, Goto, ToHandler,
         FaultCourse, PortCourse, GivenUp, LiveSteps, Publishing, Announcing, Owners,
         Actuators, Ports
<1>9. CASE Ack
  BY <1>0, <1>9 DEF Ack, LatchActuator, Goto, ToHandler,
         FaultCourse, PortCourse, GivenUp, LiveSteps, Publishing, Announcing, Owners,
         Actuators, Ports
<1>10. CASE Uninflight
  BY <1>10 DEF Uninflight, Goto, shared,
         FaultCourse, PortCourse, GivenUp, LiveSteps, Publishing, Announcing, Owners,
         Actuators, Ports
<1>11. CASE Complete
  BY <1>11 DEF Complete, Goto, shared,
         FaultCourse, PortCourse, GivenUp, LiveSteps, Publishing, Announcing, Owners,
         Actuators, Ports
<1>12. CASE AfterAck
  BY <1>0, <1>12 DEF AfterAck, LatchActuator, Goto, ToHandler, shared,
         FaultCourse, PortCourse, GivenUp, LiveSteps, Publishing, Announcing, Owners,
         Actuators, Ports
<1>13. CASE Poll
  BY <1>0, <1>13 DEF Poll, LatchActuator, Goto, Escapes, shared,
         FaultCourse, PortCourse, GivenUp, LiveSteps, Publishing, Announcing, Owners,
         Actuators, Ports
<1>14. CASE InlineDisable
  <2>1. act'.state = act.state /\ act'.mine = act.mine
    BY <1>14 DEF InlineDisable, Actuators
  <2>2. /\ pc = "inline_disable" /\ port' = port
        /\ pc' = "pub_ledger" /\ why' = "handler"
    BY <1>14 DEF InlineDisable, ToHandler
  <2>3. QED
    BY <2>1, <2>2 DEF PortCourse, GivenUp, LiveSteps, Publishing, Announcing
<1>15. CASE NormalDisable
  <2>1. /\ port'.disable /\ port'.serial = port.serial
        /\ act'.state # "armed"
    BY <1>15 DEF NormalDisable, DropTimers, Actuators, Ports
  <2>2. /\ pc = "normal_disable"
        /\ pc' \in {"close", "pub_ledger"}
        /\ why' = why \/ why' = "outer"
    BY <1>15 DEF NormalDisable, Goto, Escapes
  <2>3. QED
    BY <2>1, <2>2 DEF PortCourse, GivenUp, LiveSteps, Publishing, Announcing
<1>16. CASE PubLedger
  BY <1>16 DEF PubLedger, DropTimers, Goto,
         FaultCourse, PortCourse, GivenUp, LiveSteps, Publishing, Announcing, Owners,
         Actuators, Ports
<1>17. CASE PubOwner
  BY <1>17 DEF PubOwner, AfterPublish, Goto, shared,
         FaultCourse, PortCourse, GivenUp, LiveSteps, Publishing, Announcing, Owners,
         Actuators, Ports
<1>18. CASE PubCallback
  BY <1>18 DEF PubCallback, Goto,
         FaultCourse, PortCourse, GivenUp, LiveSteps, Publishing, Announcing, Owners,
         Actuators, Ports
<1>19. CASE PubGate
  BY <1>19 DEF PubGate, Goto,
         FaultCourse, PortCourse, GivenUp, LiveSteps, Publishing, Announcing, Owners,
         Actuators, Ports
<1>20. CASE PubStop
  BY <1>20 DEF PubStop, AfterPublish, Goto,
         FaultCourse, PortCourse, GivenUp, LiveSteps, Publishing, Announcing, Owners,
         Actuators, Ports
<1>21. CASE FaultDisable
  <2>1. /\ port'.disable /\ port'.serial = port.serial
        /\ (act' = act /\ ~act.mine) \/ act'.state = "fault_latched"
    BY <1>21 DEF FaultDisable, Actuators, Ports
  <2>2. /\ pc = "fault_disable" /\ why' = why
        /\ pc' \in {"close", "handler_complete"}
    BY <1>21 DEF FaultDisable, Goto
  <2>3. QED
    BY <2>1, <2>2 DEF PortCourse, GivenUp, LiveSteps, Publishing, Announcing
<1>22. CASE HandlerComplete
  BY <1>22 DEF HandlerComplete, Goto, shared,
         FaultCourse, PortCourse, GivenUp, LiveSteps, Publishing, Announcing, Owners,
         Actuators, Ports
<1>23. CASE Close
  BY <1>23 DEF Close, Goto, shared,
         FaultCourse, PortCourse, GivenUp, LiveSteps, Publishing, Announcing, Owners,
         Actuators, Ports
<1>24. CASE Exit
  BY <1>24 DEF Exit, shared,
         FaultCourse, PortCourse, GivenUp, LiveSteps, Publishing, Announcing, Owners,
         Actuators, Ports
<1>25. QED
  BY <1>1, <1>2, <1>3, <1>4, <1>5, <1>6, <1>7, <1>7b, <1>8, <1>9, <1>10, <1>11,
     <1>12, <1>13, <1>14, <1>15, <1>16, <1>17, <1>18, <1>19, <1>20, <1>21,
     <1>22, <1>23, <1>24 DEF Worker

\* A step of the worker sends a target to an armed hand only.
LEMMA WorkerSilent ==
  ASSUME own \in Owners, act \in Actuators, port \in Ports,
         writes \in [Sequences1 -> 0 .. 2], FrameCourse, SilentCourse, Worker
  PROVE  SilentCourse'
<1>1. CASE Boot
  <2>1. /\ pc = "boot" /\ writes' = writes
        /\ \/ pc' = "top" /\ \E h : act' = ArmedActuator(h)
           \/ pc' = "pub_ledger"
    BY <1>1 DEF Boot, Goto, Escapes
  <2>2. \A n \in Sequences1 : writes[n] = 0
    BY <2>1, LoopAssumption DEF FrameCourse, LiveSteps, Sequences1
  <2>3. QED BY <2>1, <2>2 DEF SilentCourse, LiveSteps, ArmedActuator
<1>2. CASE Write
  <2>1. /\ pc = "write" /\ act.state = "armed"
        /\ pc' \in {"readback", "recheck", "inline_disable"}
    BY <1>2 DEF Write, Goto, SilentCourse, LiveSteps
  <2>2. /\ act'.state \in {"armed", "fault_latched"}
        /\ act'.state = "armed" \/ pc' = "inline_disable"
    BY <1>2, <2>1 DEF Write, Goto, Actuators
  <2>3. QED BY <2>1, <2>2 DEF SilentCourse, LiveSteps
<1>3. CASE NormalDisable
  <2>1. port'.disable /\ pc' \in {"close", "pub_ledger"}
    BY <1>3 DEF NormalDisable, Goto, Escapes, Ports
  <2>2. QED BY <2>1 DEF SilentCourse, LiveSteps
<1>4. CASE FaultDisable
  <2>1. port'.disable /\ pc' \in {"close", "handler_complete"}
    BY <1>4 DEF FaultDisable, Goto, Ports
  <2>2. QED BY <2>1 DEF SilentCourse, LiveSteps
<1>5. CASE HandlerComplete
  <2>1. port'.disable /\ pc' = "close"
    BY <1>5 DEF HandlerComplete, Goto, Ports
  <2>2. QED BY <2>1 DEF SilentCourse, LiveSteps
<1>6. CASE ~Boot /\ ~Write /\ ~NormalDisable /\ ~FaultDisable /\ ~HandlerComplete
  <2>1. /\ writes' = writes /\ port'.disable = port.disable
        /\ act'.state \in {act.state, "fault_latched"}
        /\ pc' \in LiveSteps \ {"new", "boot"} =>
             pc \in LiveSteps \ {"new", "boot"} /\ act'.state = act.state
    <3>1. CASE Top
      BY <3>1 DEF Top, Goto, Escapes, shared,
         LiveSteps, Actuators, Ports
    <3>2. CASE Decide
      BY <3>2 DEF Decide, DecideStop, DecideSettle, DecideWatchdog, DecideStale,
         DecideExecute, DecidePoll, DecideWait, Goto, Escapes,
         LiveSteps, Actuators, Ports
    <3>3. CASE Wake
      BY <3>3 DEF Wake, Goto,
         LiveSteps, Actuators, Ports
    <3>4. CASE SettleBegin
      BY <3>4 DEF SettleBegin, Goto, Escapes,
         LiveSteps, Actuators, Ports
    <3>5. CASE Precheck
      BY <3>5 DEF Precheck, TransactionFails, LatchActuator, Goto, ToHandler,
         LiveSteps, Actuators, Ports
    <3>6. CASE Readback
      BY <3>6 DEF Readback, TransactionFails, LatchActuator, Goto, ToHandler,
         LiveSteps, Actuators, Ports
    <3>7. CASE Recheck
      BY <3>7 DEF Recheck, TransactionFails, LatchActuator, Goto, ToHandler,
         LiveSteps, Actuators, Ports
    <3>8. CASE Ack
      BY <3>8 DEF Ack, LatchActuator, Goto, ToHandler,
         LiveSteps, Actuators, Ports
    <3>9. CASE Uninflight
      BY <3>9 DEF Uninflight, Goto,
         LiveSteps, Actuators, Ports
    <3>10. CASE Complete
      BY <3>10 DEF Complete, Goto,
         LiveSteps, Actuators, Ports
    <3>11. CASE AfterAck
      BY <3>11 DEF AfterAck, LatchActuator, Goto, ToHandler,
         LiveSteps, Actuators, Ports
    <3>12. CASE Poll
      BY <3>12 DEF Poll, LatchActuator, Goto, Escapes,
         LiveSteps, Actuators, Ports
    <3>13. CASE InlineDisable
      BY <3>13 DEF InlineDisable, ToHandler,
         LiveSteps, Actuators, Ports
    <3>14. CASE PubLedger
      BY <3>14 DEF PubLedger, DropTimers, Goto,
         LiveSteps, Actuators, Ports
    <3>15. CASE PubOwner
      BY <3>15 DEF PubOwner, AfterPublish, Goto,
         LiveSteps, Actuators, Ports
    <3>16. CASE PubCallback
      BY <3>16 DEF PubCallback, Goto,
         LiveSteps, Actuators, Ports
    <3>17. CASE PubGate
      BY <3>17 DEF PubGate, Goto,
         LiveSteps, Actuators, Ports
    <3>18. CASE PubStop
      BY <3>18 DEF PubStop, AfterPublish, Goto,
         LiveSteps, Actuators, Ports
    <3>19. CASE Close
      BY <3>19 DEF Close, Goto,
         LiveSteps, Actuators, Ports
    <3>20. CASE Exit
      BY <3>20 DEF Exit,
         LiveSteps, Actuators, Ports
    <3>21. QED
      BY <1>6, <3>1, <3>2, <3>3, <3>4, <3>5, <3>6, <3>7, <3>8, <3>9, <3>10, <3>11,
         <3>12, <3>13, <3>14, <3>15, <3>16, <3>17, <3>18, <3>19, <3>20
        DEF Worker
  <2>2. QED BY <2>1 DEF SilentCourse
<1>7. QED BY <1>1, <1>2, <1>3, <1>4, <1>5, <1>6

\* A step of the worker reports no stop that was not verified.
LEMMA WorkerReports ==
  ASSUME own \in Owners, act \in Actuators, port \in Ports, FaultCourse, PortCourse,
         ReportCourse, Worker
  PROVE  ReportCourse'
<1>1. CASE Boot
  BY <1>1 DEF Boot, Goto, Escapes, ArmedActuator, shared,
         FaultCourse, PortCourse, ReportCourse, LiveSteps, Owners, Actuators, Ports
<1>2. CASE Top
  BY <1>2 DEF Top, Goto, Escapes, shared,
         FaultCourse, PortCourse, ReportCourse, LiveSteps, Owners, Actuators, Ports
<1>3. CASE Decide
  BY <1>3 DEF Decide, DecideStop, DecideSettle, DecideWatchdog, DecideStale,
         DecideExecute, DecidePoll, DecideWait, TakeRequest, Goto, Escapes,
         FaultCourse, PortCourse, ReportCourse, LiveSteps, Owners, Actuators, Ports
<1>4. CASE Wake
  BY <1>4 DEF Wake, Goto, shared,
         FaultCourse, PortCourse, ReportCourse, LiveSteps, Owners, Actuators, Ports
<1>5. CASE SettleBegin
  BY <1>5 DEF SettleBegin, Goto, Escapes, shared,
         FaultCourse, PortCourse, ReportCourse, LiveSteps, Owners, Actuators, Ports
<1>6. CASE Precheck
  BY <1>6 DEF Precheck, TransactionFails, LatchActuator, Goto, ToHandler,
         FaultCourse, PortCourse, ReportCourse, LiveSteps, Owners, Actuators, Ports
<1>7. CASE Write
  BY <1>7 DEF Write, Goto, ToHandler,
         FaultCourse, PortCourse, ReportCourse, LiveSteps, Owners, Actuators, Ports
<1>7b. CASE Readback
  BY <1>7b DEF Readback, TransactionFails, LatchActuator, Goto, ToHandler,
         FaultCourse, PortCourse, ReportCourse, LiveSteps, Owners, Actuators, Ports
<1>8. CASE Recheck
  BY <1>8 DEF Recheck, TransactionFails, LatchActuator, Goto, ToHandler,
         FaultCourse, PortCourse, ReportCourse, LiveSteps, Owners, Actuators, Ports
<1>9. CASE Ack
  BY <1>9 DEF Ack, LatchActuator, Goto, ToHandler,
         FaultCourse, PortCourse, ReportCourse, LiveSteps, Owners, Actuators, Ports
<1>10. CASE Uninflight
  BY <1>10 DEF Uninflight, Goto, shared,
         FaultCourse, PortCourse, ReportCourse, LiveSteps, Owners, Actuators, Ports
<1>11. CASE Complete
  BY <1>11 DEF Complete, Goto, shared,
         FaultCourse, PortCourse, ReportCourse, LiveSteps, Owners, Actuators, Ports
<1>12. CASE AfterAck
  BY <1>12 DEF AfterAck, LatchActuator, Goto, ToHandler, shared,
         FaultCourse, PortCourse, ReportCourse, LiveSteps, Owners, Actuators, Ports
<1>13. CASE Poll
  BY <1>13 DEF Poll, LatchActuator, Goto, Escapes, shared,
         FaultCourse, PortCourse, ReportCourse, LiveSteps, Owners, Actuators, Ports
<1>14. CASE InlineDisable
  <2>1. /\ pc = "inline_disable" /\ own' = own
        /\ pc' = "pub_ledger" /\ why' = "handler"
    BY <1>14 DEF InlineDisable, ToHandler
  <2>2. ~own.report /\ ~own.confirmed
    BY <2>1 DEF ReportCourse, FaultCourse
  <2>3. QED
    BY <2>1, <2>2 DEF ReportCourse
<1>15. CASE NormalDisable
  BY <1>15 DEF NormalDisable, DropTimers, Goto, Escapes, shared,
         FaultCourse, PortCourse, ReportCourse, LiveSteps, Owners, Actuators, Ports
<1>16. CASE PubLedger
  BY <1>16 DEF PubLedger, DropTimers, Goto,
         FaultCourse, PortCourse, ReportCourse, LiveSteps, Owners, Actuators, Ports
<1>17. CASE PubOwner
  BY <1>17 DEF PubOwner, AfterPublish, Goto, shared,
         FaultCourse, PortCourse, ReportCourse, LiveSteps, Owners, Actuators, Ports
<1>18. CASE PubCallback
  BY <1>18 DEF PubCallback, Goto,
         FaultCourse, PortCourse, ReportCourse, LiveSteps, Owners, Actuators, Ports
<1>19. CASE PubGate
  BY <1>19 DEF PubGate, Goto,
         FaultCourse, PortCourse, ReportCourse, LiveSteps, Owners, Actuators, Ports
<1>20. CASE PubStop
  BY <1>20 DEF PubStop, AfterPublish, Goto,
         FaultCourse, PortCourse, ReportCourse, LiveSteps, Owners, Actuators, Ports
<1>21. CASE FaultDisable
  BY <1>21 DEF FaultDisable, Goto, shared,
         FaultCourse, PortCourse, ReportCourse, LiveSteps, Owners, Actuators, Ports
<1>22. CASE HandlerComplete
  BY <1>22 DEF HandlerComplete, Goto, shared,
         FaultCourse, PortCourse, ReportCourse, LiveSteps, Owners, Actuators, Ports
<1>23. CASE Close
  BY <1>23 DEF Close, Goto, shared,
         FaultCourse, PortCourse, ReportCourse, LiveSteps, Owners, Actuators, Ports
<1>24. CASE Exit
  BY <1>24 DEF Exit, shared,
         FaultCourse, PortCourse, GivenUp, ReportCourse, LiveSteps, Owners, Actuators,
         Ports
<1>25. QED
  BY <1>1, <1>2, <1>3, <1>4, <1>5, <1>6, <1>7, <1>7b, <1>8, <1>9, <1>10, <1>11,
     <1>12, <1>13, <1>14, <1>15, <1>16, <1>17, <1>18, <1>19, <1>20, <1>21,
     <1>22, <1>23, <1>24 DEF Worker

\* A ledger that fails keeps all it holds.
LEMMA FailKeeps ==
  ASSUME NEW l \in Ledgers
  PROVE  /\ Fail(l) \in Ledgers
         /\ Fail(l).committed = l.committed
         /\ Fail(l).pending = l.pending
         /\ Fail(l).acked = l.acked
         /\ ~Healthy(Fail(l))
         /\ ~Healthy(l) => Fail(l) = l
<1>1. "device" \in FaultReasons
  BY DEF FaultReasons
<1>2. QED BY <1>1, LatchKeeps DEF Fail, Latch, Healthy, Ledgers

\* A step without a frame that counts nothing, and reaches no later step of a
\* transaction, keeps the frames in order.
LEMMA FramesStay ==
  ASSUME FrameCourse,
         act'.acked = act.acked, act'.holds = act.holds,
         ledger'.committed = ledger.committed, ledger'.acked = ledger.acked,
         ledger'.pending = ledger.pending, writes' = writes,
         pc' \notin {"new", "boot", "write", "readback", "recheck", "ack"},
         pc' \in LiveSteps => pc \in LiveSteps \ {"readback", "recheck", "ack"},
         pc' = "precheck" => own'.inflight # 0
  PROVE  FrameCourse'
BY DEF FrameCourse, Executing

\* A latched actuator holds and has counted what it did.
LEMMA LatchedActuator ==
  ASSUME act \in Actuators, LatchActuator
  PROVE  act'.acked = act.acked /\ act'.holds = act.holds
BY DEF LatchActuator, Actuators

\* A step of the worker writes each sequence once, in its turn.
LEMMA WorkerFrames ==
  ASSUME own \in Owners, act \in Actuators, ledger \in Ledgers, writes \in
         [Sequences1 -> 0 .. 2], FrameCourse, Worker
  PROVE  FrameCourse'
<1>1. CASE Boot
  <2>1. /\ pc = "boot" /\ pc' \in {"top", "pub_ledger"}
        /\ UNCHANGED <<ledger, writes>>
    BY <1>1 DEF Boot, Goto, Escapes, shared
  <2>2. \/ act' = act
        \/ act'.acked = 0 /\ act'.holds = 0
    <3>1. act' = act \/ act' \in RefusedActuators \/ \E h : act' = ArmedActuator(h)
      BY <1>1 DEF Boot
    <3>2. CASE act' \in RefusedActuators
      BY <3>2 DEF RefusedActuators, NoActuator, ArmedActuator
    <3>3. CASE \E h : act' = ArmedActuator(h)
      BY <3>3 DEF ArmedActuator
    <3>4. QED BY <3>1, <3>2, <3>3
  <2>3. QED
    BY <2>1, <2>2, FramesStay DEF FrameCourse, LiveSteps
<1>2. CASE Top
  BY <1>2, FailKeeps DEF Top, Goto, Escapes, shared,
         FrameCourse, Executing, LiveSteps, Owners, Actuators, Ledgers, shared
<1>3. CASE Decide
  <2>1. /\ pc = "decide" /\ UNCHANGED <<act, writes>>
        /\ pc' \in {"normal_disable", "settle_begin", "pub_ledger", "precheck",
                     "poll", "wait"}
        /\ ledger' \in {ledger, Fail(ledger)}
    BY <1>3 DEF Decide, DecideStop, DecideSettle, DecideWatchdog, DecideStale,
             DecideExecute, DecidePoll, DecideWait, Goto, Escapes
  <2>2. pc' = "precheck" => own'.inflight # 0
    BY <1>3 DEF Decide, DecideStop, DecideSettle, DecideWatchdog, DecideStale,
             DecideExecute, DecidePoll, DecideWait, Goto, Escapes, Owners
  <2>3. QED
    BY <2>1, <2>2, FailKeeps, FramesStay DEF LiveSteps
<1>4. CASE Wake
  BY <1>4, FailKeeps DEF Wake, Goto, shared,
         FrameCourse, Executing, LiveSteps, Owners, Actuators, Ledgers, shared
<1>5. CASE SettleBegin
  BY <1>5, FailKeeps DEF SettleBegin, Goto, Escapes, shared,
         FrameCourse, Executing, LiveSteps, Owners, Actuators, Ledgers, shared
<1>6. CASE Precheck
  <2>1. pc = "precheck" /\ UNCHANGED <<own, writes>>
    BY <1>6 DEF Precheck
  <2>2. CASE /\ PrecheckAccepts(own.inflight) /\ pc' = "write"
             /\ UNCHANGED <<ledger, act>>
    BY <2>1, <2>2 DEF PrecheckAccepts, FrameCourse, Executing, LiveSteps
  <2>3. CASE /\ ledger' \in {ledger, Fail(ledger)}
             /\ act' = act \/ LatchActuator
             /\ pc' \in {"pub_ledger", "inline_disable"}
    <3>1. act'.acked = act.acked /\ act'.holds = act.holds
      BY <2>3, LatchedActuator
    <3>2. QED BY <2>1, <2>3, <3>1, FailKeeps, FramesStay DEF LiveSteps
  <2>4. QED
    BY <1>6, <2>2, <2>3 DEF Precheck, TransactionFails, Goto, ToHandler
<1>7. CASE Write
  <2>1. /\ pc = "write" /\ own' = own
        /\ own.inflight \in Sequences1
        /\ own.inflight = act.acked + 1
        /\ act.acked \in Nat
    BY <1>7, LoopAssumption DEF Write, FrameCourse, Executing, Owners, Actuators,
                             Sequences1
  <2>2. /\ ledger'.committed = ledger.committed
        /\ ledger'.acked = ledger.acked /\ ledger'.pending = ledger.pending
    BY <1>7, FailKeeps DEF Write
  <2>3. \/ writes' = writes
        \/ writes' = [writes EXCEPT ![own.inflight] = writes[own.inflight] + 1]
    BY <1>7 DEF Write
  <2>4. \A n \in Sequences1 :
          /\ writes'[n] <= 1
          /\ n > act.acked + 1 => writes'[n] = 0
    BY <2>1, <2>3 DEF FrameCourse, LiveSteps
  <2>5. /\ act'.acked = act.acked
        /\ act'.holds = act.holds \/ act'.holds = own.inflight
        /\ pc' \in {"readback", "recheck", "inline_disable"}
        /\ pc' = "recheck" => act'.holds = own.inflight
    BY <1>7 DEF Write, Goto, Actuators
  <2>6. "rh56" \notin ledger.acked
    BY <2>1 DEF FrameCourse
  <2>7. act'.holds \in Nat /\ act.holds \in Nat /\ act.acked <= act.holds
    BY <2>1, <2>5 DEF Actuators, FrameCourse, Owners
  <2>8. QED
    BY <2>1, <2>2, <2>4, <2>5, <2>6, <2>7 DEF FrameCourse, Executing, LiveSteps
<1>7b. CASE Readback
  <2>1. pc = "readback" /\ UNCHANGED <<own, writes>>
    BY <1>7b DEF Readback
  <2>2. CASE /\ act.holds = own.inflight /\ pc' = "recheck"
             /\ UNCHANGED <<ledger, act>>
    BY <2>1, <2>2 DEF FrameCourse, Executing, LiveSteps
  <2>3. CASE /\ ledger' = Fail(ledger) /\ LatchActuator
             /\ pc' \in {"pub_ledger", "inline_disable"}
    BY <2>1, <2>3, LatchedActuator, FailKeeps, FramesStay DEF LiveSteps
  <2>4. QED
    BY <1>7b, <2>2, <2>3 DEF Readback, TransactionFails, Goto, ToHandler
<1>8. CASE Recheck
  <2>1. pc = "recheck" /\ UNCHANGED <<own, writes>>
    BY <1>8 DEF Recheck
  <2>2. CASE pc' = "ack" /\ UNCHANGED <<ledger, act>>
    BY <2>1, <2>2 DEF FrameCourse, Executing, LiveSteps
  <2>3. CASE /\ ledger' = Fail(ledger) /\ LatchActuator
             /\ pc' \in {"pub_ledger", "inline_disable"}
    BY <2>1, <2>3, LatchedActuator, FailKeeps, FramesStay DEF LiveSteps
  <2>4. QED
    BY <1>8, <2>2, <2>3 DEF Recheck, TransactionFails, Goto, ToHandler
<1>9. CASE Ack
  <2>1. /\ pc = "ack" /\ UNCHANGED <<own, writes>>
        /\ own.inflight = ledger.pending.seq /\ own.inflight = act.acked + 1
        /\ act.holds = own.inflight
        /\ act.acked \in Nat
    BY <1>9 DEF Ack, FrameCourse, Actuators
  <2>2. CASE AckAccepts(ledger, own.inflight, now)
    <3>1. ledger' = AcceptAck(ledger, "rh56")
      BY <1>9, <2>2 DEF Ack, AckAccepts, Acknowledge
    <3>2. \/ /\ ledger'.committed = own.inflight /\ ledger'.acked = {}
          \/ /\ ledger'.committed = ledger.committed
             /\ ledger'.pending = ledger.pending
      BY <2>1, <3>1 DEF AcceptAck, Ledgers
    <3>3. act'.acked = own.inflight /\ act'.holds = own.inflight
      BY <1>9, <2>1, <2>2 DEF Ack, Actuators
    <3>4. pc' \in {"uninflight", "complete"}
      BY <1>9, <2>2 DEF Ack, Goto
    <3>5. ledger.committed <= own.inflight /\ ledger.committed \in Nat
      BY <2>1 DEF FrameCourse, Ledgers
    <3>6. "rh56" \in ledger'.acked => /\ act'.acked = ledger'.pending.seq
                                      /\ act'.holds = ledger'.pending.seq
      BY <2>1, <3>2, <3>3
    <3>7. ledger'.committed <= act'.acked /\ act'.acked <= act'.holds
      BY <2>1, <3>2, <3>3, <3>5
    <3>8. \A n \in Sequences1 :
            /\ writes'[n] <= 1
            /\ n > act'.acked => writes'[n] = 0
            /\ n > act'.acked + 1 => writes'[n] = 0
      <4>1. \A n \in Sequences1 : n \in Nat
        BY LoopAssumption DEF Sequences1
      <4>2. QED BY <2>1, <3>3, <4>1 DEF FrameCourse, LiveSteps
    <3>9. QED
      BY <3>4, <3>6, <3>7, <3>8 DEF FrameCourse, Executing
  <2>3. CASE ~AckAccepts(ledger, own.inflight, now)
    <3>1. PICK l \in Ledgers :
            /\ ledger' = Fail(l)
            /\ l.committed = ledger.committed
            /\ l.pending = ledger.pending /\ l.acked = ledger.acked
      <4>1. Acknowledge(ledger, "rh56", own.inflight, now) \in
              {ledger} \cup {Latch(ledger, r) : r \in FaultReasons}
        BY <2>3, AckEffect DEF Consumers
      <4>2. QED BY <1>9, <2>3, <4>1, LatchKeeps DEF Ack
    <3>2. LatchActuator /\ pc' \in {"pub_ledger", "inline_disable"}
      BY <1>9, <2>3 DEF Ack, Goto, ToHandler
    <3>3. QED
      BY <2>1, <3>1, <3>2, LatchedActuator, FailKeeps, FramesStay DEF LiveSteps
  <2>4. QED BY <2>2, <2>3
<1>10. CASE Uninflight
  BY <1>10, FailKeeps DEF Uninflight, Goto, shared,
         FrameCourse, Executing, LiveSteps, Owners, Actuators, Ledgers, shared
<1>11. CASE Complete
  BY <1>11, FailKeeps DEF Complete, Goto, shared,
         FrameCourse, Executing, LiveSteps, Owners, Actuators, Ledgers, shared
<1>12. CASE AfterAck
  <2>1. /\ pc = "after_ack" /\ UNCHANGED <<own, writes, ledger>>
        /\ pc' \in {"top", "pub_ledger"}
        /\ act' = act \/ LatchActuator
    BY <1>12 DEF AfterAck, Goto, ToHandler, shared
  <2>2. QED BY <2>1, LatchedActuator, FramesStay DEF LiveSteps
<1>13. CASE Poll
  <2>1. /\ pc = "poll" /\ UNCHANGED <<own, writes, ledger>>
        /\ pc' \in {"top", "pub_ledger"}
        /\ act' = act \/ LatchActuator
    BY <1>13 DEF Poll, Goto, Escapes, shared
  <2>2. QED BY <2>1, LatchedActuator, FramesStay DEF LiveSteps
<1>14. CASE InlineDisable
  BY <1>14, FailKeeps DEF InlineDisable, ToHandler, shared,
         FrameCourse, Executing, LiveSteps, Owners, Actuators, Ledgers, shared
<1>15. CASE NormalDisable
  <2>1. /\ pc = "normal_disable" /\ UNCHANGED <<writes, ledger>>
        /\ pc' \in {"close", "pub_ledger"}
    BY <1>15 DEF NormalDisable, Goto, Escapes, shared
  <2>2. act'.acked = act.acked /\ act'.holds = act.holds
    BY <1>15 DEF NormalDisable, DropTimers, Actuators
  <2>3. QED BY <2>1, <2>2, FramesStay DEF LiveSteps
<1>16. CASE PubLedger
  BY <1>16, FailKeeps DEF PubLedger, DropTimers, Goto,
         FrameCourse, Executing, LiveSteps, Owners, Actuators, Ledgers, shared
<1>17. CASE PubOwner
  BY <1>17, FailKeeps DEF PubOwner, AfterPublish, Goto, shared,
         FrameCourse, Executing, LiveSteps, Owners, Actuators, Ledgers, shared
<1>18. CASE PubCallback
  BY <1>18, FailKeeps DEF PubCallback, Goto,
         FrameCourse, Executing, LiveSteps, Owners, Actuators, Ledgers, shared
<1>19. CASE PubGate
  BY <1>19, FailKeeps DEF PubGate, Goto,
         FrameCourse, Executing, LiveSteps, Owners, Actuators, Ledgers, shared
<1>20. CASE PubStop
  BY <1>20, FailKeeps DEF PubStop, AfterPublish, Goto,
         FrameCourse, Executing, LiveSteps, Owners, Actuators, Ledgers, shared
<1>21. CASE FaultDisable
  <2>1. /\ pc = "fault_disable" /\ UNCHANGED <<writes, ledger>>
        /\ pc' \in {"close", "handler_complete"}
    BY <1>21 DEF FaultDisable, Goto, shared
  <2>2. act'.acked = act.acked /\ act'.holds = act.holds
    BY <1>21 DEF FaultDisable, Actuators
  <2>3. QED BY <2>1, <2>2, FramesStay DEF LiveSteps
<1>22. CASE HandlerComplete
  BY <1>22, FailKeeps DEF HandlerComplete, Goto, shared,
         FrameCourse, Executing, LiveSteps, Owners, Actuators, Ledgers, shared
<1>23. CASE Close
  BY <1>23, FailKeeps DEF Close, Goto, shared,
         FrameCourse, Executing, LiveSteps, Owners, Actuators, Ledgers, shared
<1>24. CASE Exit
  BY <1>24, FailKeeps DEF Exit, shared,
         FrameCourse, Executing, LiveSteps, Owners, Actuators, Ledgers, shared
<1>25. QED
  BY <1>1, <1>2, <1>3, <1>4, <1>5, <1>6, <1>7, <1>7b, <1>8, <1>9, <1>10, <1>11,
     <1>12, <1>13, <1>14, <1>15, <1>16, <1>17, <1>18, <1>19, <1>20, <1>21,
     <1>22, <1>23, <1>24 DEF Worker

\* The worker keeps the type of its own state ...
LEMMA WorkerOwn ==
  ASSUME own \in Owners, Worker
  PROVE  own' \in Owners
<1>0. /\ 0 \in 0 .. MaxSequence /\ MaxSequence \in Nat
      /\ 0 \in 0 .. MaxTime + TrackingTimeout + FeedbackHardAge
  BY LoopAssumption, OwnerAssumption
<1>1. CASE Top \/ Wake \/ Precheck \/ Write \/ Readback \/ Recheck \/ Ack \/ AfterAck \/
           Poll \/ InlineDisable \/ PubLedger \/ PubCallback \/ PubGate \/
           PubStop \/ Close
  BY <1>1
    DEF Top, shared, Wake, Precheck, Write, Readback, Recheck, Ack, AfterAck, Poll,
        InlineDisable, PubLedger, PubCallback, PubGate, PubStop, Close
<1>2. CASE Boot
  <2>1. own' \in {own, [own EXCEPT !.state = "running"]}
    BY <1>2 DEF Boot, Goto, Escapes, ArmedActuator, shared
  <2>2. QED BY <1>0, <2>1 DEF Owners, OwnerStates, Settles
<1>3. CASE Decide
  <2>1. \/ own' \in {own, [own EXCEPT !.request = 0], [own EXCEPT !.settle = "no"]}
        \/ own' = [own EXCEPT !.request = 0, !.inflight = own.request]
    BY <1>3 DEF Decide, DecideStop, DecideSettle, DecideWatchdog, DecideStale,
          DecideExecute, DecidePoll, DecideWait, TakeRequest, Goto, Escapes
  <2>2. QED BY <1>0, <2>1 DEF Owners, OwnerStates, Settles
<1>4. CASE SettleBegin
  <2>1. own' \in {own, [own EXCEPT !.settle = "active"]}
    BY <1>4 DEF SettleBegin, Goto, Escapes, shared
  <2>2. QED BY <1>0, <2>1 DEF Owners, OwnerStates, Settles
<1>5. CASE Uninflight
  <2>1. own' = [own EXCEPT !.inflight = 0]
    BY <1>5 DEF Uninflight, Goto, shared
  <2>2. QED BY <1>0, <2>1 DEF Owners, OwnerStates, Settles
<1>6. CASE Complete
  <2>1. own' \in {own, [own EXCEPT !.inflight = 0]}
    BY <1>6 DEF Complete, Goto, shared
  <2>2. QED BY <1>0, <2>1 DEF Owners, OwnerStates, Settles
<1>7. CASE NormalDisable
  <2>1. own' \in {own, [own EXCEPT !.report = TRUE]}
    BY <1>7 DEF NormalDisable, DropTimers, Goto, Escapes, shared
  <2>2. QED BY <1>0, <2>1 DEF Owners, OwnerStates, Settles
<1>8. CASE PubOwner
  <2>1. own' = [own EXCEPT !.fault = TRUE, !.state = "fault_latched",
                                !.request = 0, !.sent = TRUE]
    BY <1>8 DEF PubOwner, AfterPublish, Goto, shared
  <2>2. QED BY <1>0, <2>1 DEF Owners, OwnerStates, Settles
<1>9. CASE FaultDisable
  <2>1. own' = own \/ \E proven \in BOOLEAN :
          own' = [own EXCEPT !.confirmed = @ \/ proven, !.report = @ \/ proven]
    BY <1>9 DEF FaultDisable
  <2>2. CASE \E proven \in BOOLEAN :
          own' = [own EXCEPT !.confirmed = @ \/ proven, !.report = @ \/ proven]
    <3>1. PICK proven \in BOOLEAN :
            own' = [own EXCEPT !.confirmed = @ \/ proven, !.report = @ \/ proven]
      BY <2>2
    <3>2. PICK b \in BOOLEAN : b = (own.confirmed \/ proven)
      OBVIOUS
    <3>3. PICK c \in BOOLEAN : c = (own.report \/ proven)
      OBVIOUS
    <3>4. own' = [own EXCEPT !.confirmed = b, !.report = c]
      BY <3>1, <3>2, <3>3
    <3>5. QED BY <3>4 DEF Owners
  <2>3. QED BY <2>1, <2>2
<1>10. CASE HandlerComplete
  <2>1. PICK b \in BOOLEAN : b = (own.confirmed \/ act.confirmed)
    OBVIOUS
  <2>2. own' = [own EXCEPT !.inflight = 0, !.confirmed = b]
    BY <1>10, <2>1 DEF HandlerComplete
  <2>3. QED BY <1>0, <2>2 DEF Owners
<1>11. CASE Exit
  <2>1. PICK b \in BOOLEAN :
          b = (own.confirmed \/ (why = "closing" /\ act.confirmed))
    OBVIOUS
  <2>2. PICK s \in {"fault_latched", "stopped"} :
          s = (IF own.fault THEN "fault_latched" ELSE "stopped")
    OBVIOUS
  <2>3. own' = [own EXCEPT !.settle = "no", !.settleBy = 0, !.confirmed = b,
                           !.state = s]
    BY <1>11, <2>1, <2>2 DEF Exit
  <2>4. QED BY <1>0, <2>3 DEF Owners, OwnerStates, Settles
<1>12. QED
  BY <1>1, <1>2, <1>3, <1>4, <1>5, <1>6, <1>7, <1>8, <1>9, <1>10, <1>11 DEF Worker

\* ... of the actuator ...
LEMMA WorkerAct ==
  ASSUME act \in Actuators, own \in Owners, now \in 0 .. MaxTime, Worker
  PROVE  act' \in Actuators
<1>0. 0 \in 0 .. MaxSequence /\ now \in {Never} \cup 0 .. MaxTime
  BY LoopAssumption
<1>1. CASE Decide \/ Wake \/ Uninflight \/ Complete \/ PubOwner \/ PubCallback
           \/ PubGate \/ PubStop \/ HandlerComplete \/ Close \/ Exit
  BY <1>1 DEF Decide, Wake, shared, Uninflight, Complete, PubOwner, PubCallback,
      PubGate, PubStop, HandlerComplete, Close, Exit
<1>2. CASE Boot
  <2>1. \/ act' = act
        \/ act' \in RefusedActuators
        \/ act' = ArmedActuator(Never)
        \/ act' = ArmedActuator(now)
    BY <1>2 DEF Boot
  <2>2. CASE act' \in RefusedActuators
    BY <1>0, <2>2 DEF RefusedActuators, NoActuator, ArmedActuator, Actuators
  <2>3. CASE act' = ArmedActuator(Never)
    BY <1>0, <2>3 DEF ArmedActuator, Actuators
  <2>4. CASE act' = ArmedActuator(now)
    BY <1>0, <2>4 DEF ArmedActuator, Actuators
  <2>5. QED BY <2>1, <2>2, <2>3, <2>4
<1>3. CASE Top
  <2>1. act' \in {act, [act EXCEPT !.heartbeat = now]}
    BY <1>3 DEF Top
  <2>2. QED BY <1>0, <2>1 DEF Actuators
<1>4. CASE SettleBegin
  <2>1. act' \in {act, [act EXCEPT !.heartbeat = now]}
    BY <1>4 DEF SettleBegin
  <2>2. QED BY <1>0, <2>1 DEF Actuators
<1>5. CASE Precheck
  <2>1. act' = act \/ LatchActuator
    BY <1>5 DEF Precheck, TransactionFails
  <2>2. QED BY <2>1 DEF LatchActuator, Actuators
<1>6. CASE Write
  <2>1. own.inflight \in 0 .. MaxSequence
    BY DEF Owners
  <2>2. \/ act' = [act EXCEPT !.holds = own.inflight]
        \/ \E h \in {act.holds, own.inflight} :
              act' \in {[act EXCEPT !.holds = h],
                        [act EXCEPT !.holds = h, !.state = "fault_latched"]}
    BY <1>6 DEF Write
  <2>3. QED BY <2>1, <2>2 DEF Actuators
<1>7b. CASE Readback
  <2>1. act' = act \/ LatchActuator
    BY <1>7b DEF Readback, TransactionFails
  <2>2. QED BY <2>1 DEF LatchActuator, Actuators
<1>7. CASE Recheck
  <2>1. act' = act \/ LatchActuator
    BY <1>7 DEF Recheck, TransactionFails
  <2>2. QED BY <2>1 DEF LatchActuator, Actuators
<1>8. CASE Ack
  <2>1. own.inflight \in 0 .. MaxSequence
    BY DEF Owners
  <2>2. \/ act' = [act EXCEPT !.acked = own.inflight, !.heartbeat = now]
        \/ LatchActuator
    BY <1>8 DEF Ack
  <2>3. QED BY <1>0, <2>1, <2>2 DEF LatchActuator, Actuators
<1>9. CASE AfterAck
  <2>1. act' = act \/ LatchActuator
    BY <1>9 DEF AfterAck
  <2>2. QED BY <2>1 DEF LatchActuator, Actuators
<1>10. CASE Poll
  <2>1. act' = act \/ LatchActuator
    BY <1>10 DEF Poll
  <2>2. QED BY <2>1 DEF LatchActuator, Actuators
<1>11. CASE InlineDisable
  <2>1. \E b \in BOOLEAN : act' = [act EXCEPT !.confirmed = b]
    BY <1>11 DEF InlineDisable
  <2>2. QED BY <2>1 DEF Actuators
<1>12. CASE NormalDisable
  <2>1. \/ act' = [act EXCEPT !.confirmed = TRUE, !.heartbeat = Never,
                              !.state = IF @ = "armed" THEN "disarmed" ELSE @]
        \/ act' = [act EXCEPT !.confirmed = FALSE, !.heartbeat = Never,
                              !.state = "fault_latched"]
    BY <1>12 DEF NormalDisable, DropTimers, Actuators
  <2>2. QED BY <2>1 DEF Actuators
<1>13. CASE PubLedger
  <2>1. act' = [act EXCEPT !.heartbeat = Never]
    BY <1>13 DEF PubLedger, DropTimers
  <2>2. QED BY <2>1 DEF Actuators
<1>14. CASE FaultDisable
  <2>1. act' = act \/ \E b \in BOOLEAN :
          act' = [act EXCEPT !.state = "fault_latched", !.confirmed = b]
    BY <1>14 DEF FaultDisable
  <2>2. QED BY <2>1 DEF Actuators
<1>15. QED
  BY <1>1, <1>2, <1>3, <1>4, <1>5, <1>6, <1>7, <1>7b, <1>8, <1>9, <1>10, <1>11,
     <1>12, <1>13, <1>14 DEF Worker

\* ... of the port ...
LEMMA WorkerPort ==
  ASSUME port \in Ports, Worker
  PROVE  port' \in Ports
<1>1. CASE Top \/ Decide \/ Wake \/ SettleBegin \/ Precheck \/ Write \/
           Readback \/ Recheck \/ Ack \/ Uninflight \/ Complete \/ AfterAck \/ Poll \/
           InlineDisable \/ PubLedger \/ PubOwner \/ PubCallback \/ PubGate \/
           PubStop \/ Exit
  BY <1>1
    DEF Top, shared, Decide, Wake, SettleBegin, Precheck, Write, Readback, Recheck,
        Ack, Uninflight, Complete, AfterAck, Poll, InlineDisable, PubLedger, PubOwner,
        PubCallback, PubGate, PubStop, Exit
<1>2. CASE Boot
  <2>1. port' \in {port, [port EXCEPT !.serial = "open"]}
    BY <1>2 DEF Boot
  <2>2. QED BY <2>1 DEF Ports
<1>3. CASE NormalDisable
  <2>1. port' \in {port, [port EXCEPT !.disable = TRUE]}
    BY <1>3 DEF NormalDisable
  <2>2. QED BY <2>1 DEF Ports
<1>4. CASE FaultDisable
  <2>1. port' \in {port, [port EXCEPT !.disable = TRUE]}
    BY <1>4 DEF FaultDisable
  <2>2. QED BY <2>1 DEF Ports
<1>5. CASE HandlerComplete
  <2>1. port' \in {port, [port EXCEPT !.disable = TRUE]}
    BY <1>5 DEF HandlerComplete
  <2>2. QED BY <2>1 DEF Ports
<1>6. CASE Close
  <2>1. port' \in {port, [port EXCEPT !.serial = "closed"],
                   [port EXCEPT !.serial = "failed"]}
    BY <1>6 DEF Close
  <2>2. QED BY <2>1 DEF Ports
<1>7. QED
  BY <1>1, <1>2, <1>3, <1>4, <1>5, <1>6 DEF Worker

\* ... of the tickets ...
LEMMA WorkerTicket ==
  ASSUME ticket \in [Sequences1 -> Tickets], Worker
  PROVE  ticket' \in [Sequences1 -> Tickets]
<1>1. CASE Boot \/ Top \/ Wake \/ SettleBegin \/ Precheck \/ Write \/ Readback \/ Recheck
           \/ Ack \/ Uninflight \/ AfterAck \/ Poll \/ InlineDisable \/
           NormalDisable \/ PubLedger \/ PubCallback \/ PubGate \/ PubStop \/
           FaultDisable \/ Close \/ Exit
  BY <1>1
    DEF Boot, shared, Top, Wake, SettleBegin, Precheck, Write, Readback, Recheck, Ack,
        Uninflight, AfterAck, Poll, InlineDisable, NormalDisable, PubLedger, PubCallback,
        PubGate, PubStop, FaultDisable, Close, Exit
<1>2. CASE Decide
  <2>1. ticket' \in {ticket, Answer(own.request, "error")}
    BY <1>2 DEF Decide, DecideStop, DecideSettle, DecideWatchdog, DecideStale,
              DecideExecute, DecidePoll, DecideWait
  <2>2. QED BY <2>1 DEF Answer, Tickets
<1>3. CASE Complete
  <2>1. ticket' \in {ticket, Answer(act.acked, "receipt")}
    BY <1>3 DEF Complete
  <2>2. QED BY <2>1 DEF Answer, Tickets
<1>4. CASE PubOwner
  <2>1. ticket' \in {ticket, Answer(own.request, "error")}
    BY <1>4 DEF PubOwner
  <2>2. QED BY <2>1 DEF Answer, Tickets
<1>5. CASE HandlerComplete
  <2>1. ticket' \in {ticket, Answer(own.inflight, "error")}
    BY <1>5 DEF HandlerComplete
  <2>2. QED BY <2>1 DEF Answer, Tickets
<1>6. QED
  BY <1>1, <1>2, <1>3, <1>4, <1>5 DEF Worker

\* ... of the time of the last feedback ...
LEMMA WorkerFeedback ==
  ASSUME lastFeedback \in 0 .. MaxTime, now \in 0 .. MaxTime, Worker
  PROVE  lastFeedback' \in 0 .. MaxTime
<1>0. 0 \in 0 .. MaxTime
  BY LoopAssumption
<1>1. CASE Top \/ Decide \/ Wake \/ SettleBegin \/ Precheck \/ Write \/
           Readback \/ Recheck \/ Uninflight \/ Complete \/ InlineDisable \/ PubOwner \/
           PubCallback \/ PubGate \/ PubStop \/ FaultDisable \/
           HandlerComplete \/ Close \/ Exit
  BY <1>1
    DEF Top, shared, Decide, Wake, SettleBegin, Precheck, Write, Readback, Recheck,
        Uninflight, Complete, InlineDisable, PubOwner, PubCallback, PubGate, PubStop,
        FaultDisable, HandlerComplete, Close, Exit
<1>2. CASE Boot
  BY <1>2, <1>0 DEF Boot, Goto, Escapes, ArmedActuator, shared
<1>3. CASE Ack
  BY <1>3, <1>0 DEF Ack, LatchActuator, Goto, ToHandler
<1>4. CASE AfterAck
  BY <1>4, <1>0 DEF AfterAck, LatchActuator, Goto, ToHandler, shared, PollGood,
         PollUntracked, PollReadFails
<1>5. CASE Poll
  BY <1>5, <1>0 DEF Poll, LatchActuator, Goto, Escapes, shared, PollGood, PollUntracked,
         PollReadFails
<1>6. CASE NormalDisable
  BY <1>6, <1>0 DEF NormalDisable, DropTimers, Goto, Escapes, shared
<1>7. CASE PubLedger
  BY <1>7, <1>0 DEF PubLedger, DropTimers, Goto
<1>8. QED
  BY <1>1, <1>2, <1>3, <1>4, <1>5, <1>6, <1>7 DEF Worker

\* ... of the tracking ...
LEMMA WorkerTracking ==
  ASSUME tracking \in Trackings, act \in Actuators, Worker
  PROVE  tracking' \in Trackings
<1>0. /\ act.heartbeat + TrackingTimeout \in 0 .. MaxTime + TrackingTimeout
      /\ 0 \in 0 .. MaxTime + TrackingTimeout
  <2>1. act.heartbeat = -1 \/ act.heartbeat \in 0 .. MaxTime
    BY DEF Actuators, Never
  <2>2. QED BY <2>1, LoopAssumption, OwnerAssumption
<1>1. CASE Boot \/ Top \/ Decide \/ Wake \/ SettleBegin \/ Precheck \/ Write
           \/ Readback \/ Recheck \/ Ack \/ Complete \/ InlineDisable \/ PubOwner \/
           PubCallback \/ PubGate \/ PubStop \/ FaultDisable \/
           HandlerComplete \/ Close \/ Exit
  BY <1>1
    DEF Boot, shared, Top, Decide, Wake, SettleBegin, Precheck, Write, Readback,
        Recheck, Ack, Complete, InlineDisable, PubOwner, PubCallback, PubGate, PubStop,
        FaultDisable, HandlerComplete, Close, Exit
<1>2. CASE Uninflight
  <2>1. \/ tracking' = tracking
        \/ tracking' = [state |-> "active", by |-> act.heartbeat + TrackingTimeout]
        \/ tracking' = [state |-> "lapsed", by |-> 0]
    BY <1>2 DEF Uninflight, Challenge
  <2>2. QED BY <1>0, <2>1 DEF Trackings
<1>3. CASE AfterAck
  <2>1. \/ tracking' = tracking
        \/ tracking' = [tracking EXCEPT !.state = "verified"]
        \/ tracking' = [tracking EXCEPT !.state = "failed"]
    BY <1>3 DEF AfterAck, PollGood, PollUntracked, PollReadFails
  <2>2. QED BY <2>1 DEF Trackings
<1>4. CASE Poll
  <2>1. \/ tracking' = tracking
        \/ tracking' = [tracking EXCEPT !.state = "verified"]
        \/ tracking' = [tracking EXCEPT !.state = "failed"]
    BY <1>4 DEF Poll, PollGood, PollUntracked, PollReadFails
  <2>2. QED BY <2>1 DEF Trackings
<1>5. CASE NormalDisable
  <2>1. tracking' = [tracking EXCEPT !.by = 0]
    BY <1>5 DEF NormalDisable, DropTimers
  <2>2. QED BY <1>0, <2>1 DEF Trackings
<1>6. CASE PubLedger
  <2>1. tracking' = [tracking EXCEPT !.by = 0]
    BY <1>6 DEF PubLedger, DropTimers
  <2>2. QED BY <1>0, <2>1 DEF Trackings
<1>7. QED
  BY <1>1, <1>2, <1>3, <1>4, <1>5, <1>6 DEF Worker

\* ... of the history ...
LEMMA WorkerWrites ==
  ASSUME writes \in [Sequences1 -> 0 .. 2], own \in Owners, act \in Actuators,
         FrameCourse, Worker
  PROVE  writes' \in [Sequences1 -> 0 .. 2]
<1>1. CASE Boot \/ Top \/ Decide \/ Wake \/ SettleBegin \/ Precheck \/ Readback \/ Recheck
           \/ Ack \/ Uninflight \/ Complete \/ AfterAck \/ Poll \/
           InlineDisable \/ NormalDisable \/ PubLedger \/ PubOwner \/
           PubCallback \/ PubGate \/ PubStop \/ FaultDisable \/
           HandlerComplete \/ Close \/ Exit
  BY <1>1
    DEF Boot, shared, Top, Decide, Wake, SettleBegin, Precheck, Readback, Recheck,
        Ack, Uninflight, Complete, AfterAck, Poll, InlineDisable, NormalDisable,
        PubLedger, PubOwner, PubCallback, PubGate, PubStop, FaultDisable, HandlerComplete,
        Close, Exit
<1>2. CASE Write
  <2>1. /\ own.inflight \in Sequences1 /\ own.inflight = act.acked + 1
        /\ act.acked \in Nat /\ pc = "write"
    BY <1>2, LoopAssumption DEF Write, FrameCourse, Executing, Owners, Actuators,
                             Sequences1
  <2>2. writes[own.inflight] <= 1 /\ writes[own.inflight] \in 0 .. 2
    BY <2>1 DEF FrameCourse
  <2>3. \/ writes' = writes
        \/ writes' = [writes EXCEPT ![own.inflight] = writes[own.inflight] + 1]
    BY <1>2 DEF Write
  <2>4. QED BY <2>2, <2>3
<1>3. QED
  BY <1>1, <1>2 DEF Worker

\* ... of its place ...
LEMMA WorkerAt ==
  ASSUME why \in Reasons, Worker
  PROVE  pc' \in WorkerSteps /\ why' \in Reasons
<1>1. CASE Boot
  BY <1>1 DEF Boot, Goto, Escapes, ArmedActuator, shared,
         WorkerSteps, Reasons
<1>2. CASE Top
  BY <1>2 DEF Top, Goto, Escapes, shared,
         WorkerSteps, Reasons
<1>3. CASE Decide
  BY <1>3 DEF Decide, DecideStop, DecideSettle, DecideWatchdog, DecideStale,
         DecideExecute, DecidePoll, DecideWait, TakeRequest, Goto, Escapes,
         WorkerSteps, Reasons
<1>4. CASE Wake
  BY <1>4 DEF Wake, Goto, shared,
         WorkerSteps, Reasons
<1>5. CASE SettleBegin
  BY <1>5 DEF SettleBegin, Goto, Escapes, shared,
         WorkerSteps, Reasons
<1>6. CASE Precheck
  BY <1>6 DEF Precheck, TransactionFails, LatchActuator, Goto, ToHandler,
         WorkerSteps, Reasons
<1>7. CASE Write
  BY <1>7 DEF Write, Goto, ToHandler,
         WorkerSteps, Reasons
<1>7b. CASE Readback
  BY <1>7b DEF Readback, TransactionFails, LatchActuator, Goto, ToHandler,
         WorkerSteps, Reasons
<1>8. CASE Recheck
  BY <1>8 DEF Recheck, TransactionFails, LatchActuator, Goto, ToHandler,
         WorkerSteps, Reasons
<1>9. CASE Ack
  BY <1>9 DEF Ack, LatchActuator, Goto, ToHandler,
         WorkerSteps, Reasons
<1>10. CASE Uninflight
  BY <1>10 DEF Uninflight, Goto, shared,
         WorkerSteps, Reasons
<1>11. CASE Complete
  BY <1>11 DEF Complete, Goto, shared,
         WorkerSteps, Reasons
<1>12. CASE AfterAck
  BY <1>12 DEF AfterAck, LatchActuator, Goto, ToHandler, shared,
         WorkerSteps, Reasons
<1>13. CASE Poll
  BY <1>13 DEF Poll, LatchActuator, Goto, Escapes, shared,
         WorkerSteps, Reasons
<1>14. CASE InlineDisable
  BY <1>14 DEF InlineDisable, ToHandler, shared,
         WorkerSteps, Reasons
<1>15. CASE NormalDisable
  BY <1>15 DEF NormalDisable, DropTimers, Goto, Escapes, shared,
         WorkerSteps, Reasons
<1>16. CASE PubLedger
  BY <1>16 DEF PubLedger, DropTimers, Goto,
         WorkerSteps, Reasons
<1>17. CASE PubOwner
  BY <1>17 DEF PubOwner, AfterPublish, Goto, shared,
         WorkerSteps, Reasons
<1>18. CASE PubCallback
  BY <1>18 DEF PubCallback, Goto,
         WorkerSteps, Reasons
<1>19. CASE PubGate
  BY <1>19 DEF PubGate, Goto,
         WorkerSteps, Reasons
<1>20. CASE PubStop
  BY <1>20 DEF PubStop, AfterPublish, Goto,
         WorkerSteps, Reasons
<1>21. CASE FaultDisable
  BY <1>21 DEF FaultDisable, Goto, shared,
         WorkerSteps, Reasons
<1>22. CASE HandlerComplete
  BY <1>22 DEF HandlerComplete, Goto, shared,
         WorkerSteps, Reasons
<1>23. CASE Close
  BY <1>23 DEF Close, Goto, shared,
         WorkerSteps, Reasons
<1>24. CASE Exit
  BY <1>24 DEF Exit, shared,
         WorkerSteps, Reasons
<1>25. QED
  BY <1>1, <1>2, <1>3, <1>4, <1>5, <1>6, <1>7, <1>7b, <1>8, <1>9, <1>10, <1>11,
     <1>12, <1>13, <1>14, <1>15, <1>16, <1>17, <1>18, <1>19, <1>20, <1>21,
     <1>22, <1>23, <1>24 DEF Worker

\* ... and of the ledger and of the rest of what the threads share.
LEMMA WorkerLedger ==
  ASSUME ledger \in Ledgers, ledger.committed \in 0 .. MaxSequence,
         ledger.pending.seq \in 0 .. MaxSequence, Worker
  PROVE  /\ ledger' \in Ledgers
         /\ ledger'.committed \in 0 .. MaxSequence
         /\ ledger'.pending.seq \in 0 .. MaxSequence
<1>0. 0 \in 0 .. MaxSequence
  BY LoopAssumption
<1>1. CASE Boot \/ Top \/ Wake \/ SettleBegin \/ Uninflight \/ Complete \/
           AfterAck \/ Poll \/ InlineDisable \/ NormalDisable \/ PubOwner \/
           PubCallback \/ PubGate \/ PubStop \/ FaultDisable \/
           HandlerComplete \/ Close \/ Exit
  BY <1>1 DEF Boot, shared, Top, Wake, SettleBegin, Uninflight, Complete, AfterAck,
      Poll, InlineDisable, NormalDisable, PubOwner, PubCallback, PubGate,
      PubStop, FaultDisable, HandlerComplete, Close, Exit
<1>2. CASE Decide
  <2>1. ledger' \in {ledger, Fail(ledger)}
    BY <1>2 DEF Decide, DecideStop, DecideSettle, DecideWatchdog, DecideStale,
              DecideExecute, DecidePoll, DecideWait
  <2>2. QED BY <2>1, FailKeeps
<1>3. CASE Precheck
  <2>1. ledger' \in {ledger, Fail(ledger)}
    BY <1>3 DEF Precheck, TransactionFails
  <2>2. QED BY <2>1, FailKeeps
<1>4. CASE Write
  <2>1. ledger' \in {ledger, Fail(ledger)}
    BY <1>4 DEF Write
  <2>2. QED BY <2>1, FailKeeps
<1>5. CASE Readback \/ Recheck
  <2>1. ledger' \in {ledger, Fail(ledger)}
    BY <1>5 DEF Readback, Recheck, TransactionFails
  <2>2. QED BY <2>1, FailKeeps
<1>6. CASE PubLedger
  <2>1. ledger' \in {ledger, Fail(ledger)}
    BY <1>6 DEF PubLedger
  <2>2. QED BY <2>1, FailKeeps
<1>7. CASE Ack
  <2>1. PICK l :
          /\ l = Acknowledge(ledger, "rh56", own.inflight, now)
          /\ ledger' \in {l, Fail(l)}
    BY <1>7 DEF Ack
  <2>2. CASE AckAccepts(ledger, own.inflight, now)
    <3>1. HasPending(ledger) /\ l = AcceptAck(ledger, "rh56")
      BY <2>1, <2>2, AckEffect DEF Consumers
    <3>2. AcceptAck(ledger, "rh56") \in Ledgers
      <4>1. ledger.pending \in Commands
        BY <3>1 DEF HasPending, Ledgers, NoCommand
      <4>2. QED BY <3>1, <4>1, UpdatesTyped DEF Consumers
    <3>3. /\ AcceptAck(ledger, "rh56").committed \in 0 .. MaxSequence
          /\ AcceptAck(ledger, "rh56").pending.seq \in 0 .. MaxSequence
      BY <1>0 DEF AcceptAck, Ledgers, NoCommand
    <3>4. QED BY <2>1, <3>1, <3>2, <3>3, FailKeeps
  <2>3. CASE ~AckAccepts(ledger, own.inflight, now)
    <3>1. l = ledger \/ \E r \in FaultReasons : l = Latch(ledger, r)
      BY <2>1, <2>3, AckEffect DEF Consumers
    <3>2. l \in Ledgers /\ l.committed = ledger.committed /\ l.pending = ledger.pending
      BY <3>1, LatchKeeps
    <3>3. QED BY <2>1, <3>2, FailKeeps
  <2>4. QED BY <2>2, <2>3
<1>8. QED
  BY <1>1, <1>2, <1>3, <1>4, <1>5, <1>6, <1>7 DEF Worker

\* The clock and the target are not the worker's, and it takes no signal back.
LEMMA WorkerSignals ==
  ASSUME Worker
  PROVE  /\ now' = now /\ hold' = hold
         /\ gate' = gate \/ gate' = LatchGate(gate, "external")
         /\ stopEvent' \in {stopEvent, TRUE} /\ cleanStop' \in {cleanStop, TRUE}
         /\ callbackFault' \in {callbackFault, TRUE}
<1>1. CASE Boot
  BY <1>1 DEF Boot, Goto, Escapes, ArmedActuator, shared
<1>2. CASE Top
  BY <1>2 DEF Top, Goto, Escapes, shared
<1>3. CASE Decide
  BY <1>3 DEF Decide, DecideStop, DecideSettle, DecideWatchdog, DecideStale,
         DecideExecute, DecidePoll, DecideWait, TakeRequest, Goto, Escapes
<1>4. CASE Wake
  BY <1>4 DEF Wake, Goto, shared
<1>5. CASE SettleBegin
  BY <1>5 DEF SettleBegin, Goto, Escapes, shared
<1>6. CASE Precheck
  BY <1>6 DEF Precheck, TransactionFails, LatchActuator, Goto, ToHandler
<1>7. CASE Write
  BY <1>7 DEF Write, Goto, ToHandler
<1>7b. CASE Readback
  BY <1>7b DEF Readback, TransactionFails, LatchActuator, Goto, ToHandler
<1>8. CASE Recheck
  BY <1>8 DEF Recheck, TransactionFails, LatchActuator, Goto, ToHandler
<1>9. CASE Ack
  BY <1>9 DEF Ack, LatchActuator, Goto, ToHandler
<1>10. CASE Uninflight
  BY <1>10 DEF Uninflight, Goto, shared
<1>11. CASE Complete
  BY <1>11 DEF Complete, Goto, shared
<1>12. CASE AfterAck
  BY <1>12 DEF AfterAck, LatchActuator, Goto, ToHandler, shared
<1>13. CASE Poll
  BY <1>13 DEF Poll, LatchActuator, Goto, Escapes, shared
<1>14. CASE InlineDisable
  BY <1>14 DEF InlineDisable, ToHandler, shared
<1>15. CASE NormalDisable
  BY <1>15 DEF NormalDisable, DropTimers, Goto, Escapes, shared
<1>16. CASE PubLedger
  BY <1>16 DEF PubLedger, DropTimers, Goto
<1>17. CASE PubOwner
  BY <1>17 DEF PubOwner, AfterPublish, Goto, shared
<1>18. CASE PubCallback
  BY <1>18 DEF PubCallback, Goto
<1>19. CASE PubGate
  BY <1>19 DEF PubGate, Goto
<1>20. CASE PubStop
  BY <1>20 DEF PubStop, AfterPublish, Goto
<1>21. CASE FaultDisable
  BY <1>21 DEF FaultDisable, Goto, shared
<1>22. CASE HandlerComplete
  BY <1>22 DEF HandlerComplete, Goto, shared
<1>23. CASE Close
  BY <1>23 DEF Close, Goto, shared
<1>24. CASE Exit
  BY <1>24 DEF Exit, shared
<1>25. QED
  BY <1>1, <1>2, <1>3, <1>4, <1>5, <1>6, <1>7, <1>7b, <1>8, <1>9, <1>10, <1>11,
     <1>12, <1>13, <1>14, <1>15, <1>16, <1>17, <1>18, <1>19, <1>20, <1>21,
     <1>22, <1>23, <1>24 DEF Worker

\* Closing the gate.
LEMMA LatchedGate ==
  ASSUME gate \in Gates, NEW r \in GateReasons
  PROVE  /\ LatchGate(gate, r) \in Gates
         /\ LatchGate(gate, r).state = "fault_latched"
BY DEF LatchGate, Gates, GateStates

\* A step of the worker keeps the types of what the threads share.
LEMMA WorkerShared ==
  ASSUME SharedTyped, Worker
  PROVE  SharedTyped'
<1>1. "external" \in GateReasons
  BY DEF GateReasons
<1>2. /\ ledger \in Ledgers /\ ledger.committed \in 0 .. MaxSequence
      /\ ledger.pending.seq \in 0 .. MaxSequence /\ gate \in Gates
  BY DEF SharedTyped
<1>3. gate' \in Gates
  BY <1>1, <1>2, WorkerSignals, LatchedGate
<1>4. /\ ledger' \in Ledgers /\ ledger'.committed \in 0 .. MaxSequence
      /\ ledger'.pending.seq \in 0 .. MaxSequence
  BY <1>2, WorkerLedger
<1>5. QED BY <1>3, <1>4, WorkerSignals DEF SharedTyped

\* What the worker does by itself keeps its invariant, whoever else uses it.
LEMMA WorkerKeeps ==
  ASSUME SharedTyped, OwnerTypeOK, HandInv, Worker
  PROVE  SharedTyped' /\ OwnerTypeOK' /\ HandInv'
<1>1. /\ own \in Owners /\ act \in Actuators /\ port \in Ports
      /\ tracking \in Trackings /\ why \in Reasons
      /\ ticket \in [Sequences1 -> Tickets]
      /\ writes \in [Sequences1 -> 0 .. 2]
      /\ lastFeedback \in 0 .. MaxTime
  BY DEF OwnerTypeOK
<1>2. ledger \in Ledgers /\ gate \in Gates /\ now \in 0 .. MaxTime
  BY DEF SharedTyped
<1>3. FaultCourse /\ PortCourse /\ SilentCourse /\ ReportCourse /\ FrameCourse
  BY DEF HandInv
<1>4. OwnerTypeOK'
  BY <1>1, <1>2, <1>3, WorkerOwn, WorkerAct, WorkerPort, WorkerTicket,
     WorkerFeedback, WorkerTracking, WorkerWrites, WorkerAt DEF OwnerTypeOK
<1>5. HandInv'
  BY <1>1, <1>2, <1>3, WorkerFaults, WorkerPorts, WorkerSilent, WorkerReports,
     WorkerFrames
  DEF HandInv
<1>6. QED BY <1>4, <1>5, WorkerShared

(* the calls of other threads ---------------------------------------------- *)

\* The calls on the owner that do not start it.
Call == (\E n \in Sequences1 : Submit(n)) \/ BeginSettle \/ SettleGivesUp
        \/ RequestOwnerStop

\* A call touches what it asks for, and only while there is somebody to ask.
LEMMA CallEffect ==
  ASSUME own \in Owners, Call
  PROVE  /\ own'.state = own.state /\ own'.fault = own.fault
         /\ own'.sent = own.sent /\ own'.report = own.report
         /\ own'.confirmed = own.confirmed /\ own'.inflight = own.inflight
         /\ own'.request = own.request \/ own.state = "running"
         /\ UNCHANGED <<act, pc, why, lastFeedback, tracking, port, writes>>
<1>1. CASE \E n \in Sequences1 : Submit(n)
  BY <1>1 DEF Submit, SubmitAccepts, Owners
<1>2. CASE BeginSettle
  BY <1>2 DEF BeginSettle, Owners
<1>3. CASE SettleGivesUp
  BY <1>3 DEF SettleGivesUp, Owners
<1>4. CASE RequestOwnerStop
  BY <1>4 DEF RequestOwnerStop, Owners
<1>5. QED BY <1>1, <1>2, <1>3, <1>4 DEF Call

\* A call on the owner keeps its types.
LEMMA CallTyped ==
  ASSUME OwnerTypeOK, now \in 0 .. MaxTime, Call
  PROVE  OwnerTypeOK'
<1>1. own \in Owners /\ tracking \in Trackings /\ ticket \in [Sequences1 -> Tickets]
  BY DEF OwnerTypeOK
<1>2. own' \in Owners /\ ticket' \in [Sequences1 -> Tickets]
  <2>1. CASE \E n \in Sequences1 : Submit(n)
    <3>1. PICK n \in Sequences1 : Submit(n)
      BY <2>1
    <3>2. n \in 0 .. MaxSequence
      BY LoopAssumption DEF Sequences1
    <3>3. /\ own' = [own EXCEPT !.request = n]
          /\ ticket' = [ticket EXCEPT ![n] = "queued"]
      BY <3>1 DEF Submit
    <3>4. own' \in Owners
      BY <1>1, <3>2, <3>3 DEF Owners
    <3>5. QED BY <1>1, <3>3, <3>4 DEF Tickets
  <2>2. CASE BeginSettle
    <3>1. SettleDeadline \in 0 .. MaxTime + TrackingTimeout + FeedbackHardAge
      BY <1>1, LoopAssumption, OwnerAssumption
      DEF SettleDeadline, Smallest, Trackings
    <3>2. /\ own' = [own EXCEPT !.settle = "requested", !.settleBy = SettleDeadline]
          /\ ticket' = ticket
      BY <2>2 DEF BeginSettle
    <3>3. QED BY <1>1, <3>1, <3>2 DEF Owners, Settles
  <2>3. CASE SettleGivesUp
    <3>1. own' = [own EXCEPT !.settle = "no"] /\ ticket' = ticket
      BY <2>3 DEF SettleGivesUp
    <3>2. QED BY <1>1, <3>1 DEF Owners, Settles
  <2>4. CASE RequestOwnerStop
    <3>1. own' = [own EXCEPT !.stop = TRUE] /\ ticket' = ticket
      BY <2>4 DEF RequestOwnerStop
    <3>2. QED BY <1>1, <3>1 DEF Owners
  <2>5. QED BY <2>1, <2>2, <2>3, <2>4 DEF Call
<1>3. QED
  BY <1>1, <1>2, CallEffect DEF OwnerTypeOK

\* The gate stays closed and the events stay set: no thread takes a signal back.
SignalsStay ==
    /\ gate.state = "fault_latched" => gate'.state = "fault_latched"
    /\ stopEvent => stopEvent'
    /\ cleanStop => cleanStop'

\* A call on the owner keeps the five courses: it never touches the device.
LEMMA CallKeeps ==
  ASSUME OwnerTypeOK, HandInv, Call, ledger' = ledger, SignalsStay
  PROVE  HandInv'
<1>1. own \in Owners
  BY DEF OwnerTypeOK
<1>2. /\ own'.state = own.state /\ own'.fault = own.fault
      /\ own'.sent = own.sent /\ own'.report = own.report
      /\ own'.confirmed = own.confirmed /\ own'.inflight = own.inflight
      /\ own'.request = own.request \/ own.state = "running"
      /\ UNCHANGED <<act, pc, why, lastFeedback, tracking, port, writes>>
  BY <1>1, CallEffect
<1>3. FaultCourse'
  BY <1>2 DEF HandInv, FaultCourse, StopEdges, SignalsStay
<1>4. PortCourse' /\ SilentCourse' /\ ReportCourse'
  BY <1>2 DEF HandInv, PortCourse, GivenUp, SilentCourse, ReportCourse
<1>5. FrameCourse'
  BY <1>2 DEF HandInv, FrameCourse, Executing
<1>6. QED BY <1>3, <1>4, <1>5 DEF HandInv

\* What the other users of the barrier do to it, seen from the hand's owner.
BarrierMoves ==
    \/ /\ ledger'.committed = ledger.committed
       /\ ledger'.pending = ledger.pending
       /\ ledger'.acked \in {ledger.acked, ledger.acked \cup {"franka"}}
    \/ /\ ~HasPending(ledger)
       /\ ledger'.committed = ledger.committed /\ ledger'.acked = {}
    \/ /\ "rh56" \in ledger.acked
       /\ ledger'.committed = ledger.pending.seq /\ ledger'.acked = {}

\* A step of somebody else keeps the five courses, if it moves the barrier as
\* its methods do and takes no signal back.
LEMMA OthersKeep ==
  ASSUME OwnerTypeOK, HandInv, UNCHANGED ownerVars, BarrierMoves, SignalsStay
  PROVE  HandInv'
<1>1. FaultCourse'
  BY DEF HandInv, FaultCourse, StopEdges, SignalsStay, ownerVars
<1>2. PortCourse' /\ SilentCourse' /\ ReportCourse'
  BY DEF HandInv, PortCourse, GivenUp, SilentCourse, ReportCourse, ownerVars
<1>3. FrameCourse'
  <2>1. act.acked \in Nat /\ act.holds \in Nat
    BY LoopAssumption DEF OwnerTypeOK, Actuators
  <2>2. UNCHANGED <<own, act, pc, writes>>
    BY DEF ownerVars
  <2>3. CASE ledger'.committed = ledger.committed /\ ledger'.pending = ledger.pending
             /\ ledger'.acked \in {ledger.acked, ledger.acked \cup {"franka"}}
    BY <2>2, <2>3 DEF HandInv, FrameCourse, Executing
  <2>4. CASE ~HasPending(ledger)
             /\ ledger'.committed = ledger.committed /\ ledger'.acked = {}
    <3>1. pc \notin {"write", "readback", "recheck", "ack"}
      BY <2>1, <2>4 DEF HandInv, FrameCourse, HasPending
    <3>2. QED BY <2>2, <2>4, <3>1 DEF HandInv, FrameCourse, Executing
  <2>5. CASE "rh56" \in ledger.acked
             /\ ledger'.committed = ledger.pending.seq /\ ledger'.acked = {}
    <3>1. pc \notin {"write", "readback", "recheck", "ack"}
      BY <2>1, <2>5 DEF HandInv, FrameCourse
    <3>2. ledger'.committed <= act.acked
      BY <2>1, <2>5 DEF HandInv, FrameCourse
    <3>3. QED BY <2>2, <2>5, <3>1, <3>2 DEF HandInv, FrameCourse, Executing
  <2>6. QED BY <2>3, <2>4, <2>5 DEF BarrierMoves
<1>4. QED BY <1>1, <1>2, <1>3 DEF HandInv

\* A ledger that is failed keeps its command and its acknowledgements.
LEMMA LatchedMoves ==
  ASSUME SharedTyped, NEW r \in FaultReasons, ledger' \in {ledger, Latch(ledger, r)}
  PROVE  /\ ledger' \in Ledgers /\ ledger'.committed = ledger.committed
         /\ ledger'.pending = ledger.pending /\ ledger'.acked = ledger.acked
         /\ BarrierMoves
BY LatchKeeps DEF SharedTyped, BarrierMoves

\* stage, and the arm's acknowledgement, seen from the hand's owner.
LEMMA StageMoves ==
  ASSUME SharedTyped, NEW cmd \in Commands, cmd.seq \in 0 .. MaxSequence,
         ledger' = Stage(ledger, cmd, now)
  PROVE  /\ ledger' \in Ledgers /\ ledger'.committed = ledger.committed
         /\ ledger'.pending \in {ledger.pending, cmd}
         /\ BarrierMoves
<1>1. ledger \in Ledgers
  BY DEF SharedTyped
<1>2. CASE StageAccepts(ledger, cmd, now)
  <2>1. ~HasPending(ledger) /\ ledger' = [ledger EXCEPT !.pending = cmd, !.acked = {}]
    BY <1>1, <1>2, StageEffect
  <2>2. ledger' \in Ledgers
    BY <1>1, <2>1, UpdatesTyped DEF Consumers
  <2>3. /\ ledger'.committed = ledger.committed /\ ledger'.pending = cmd
        /\ ledger'.acked = {}
    BY <1>1, <2>1 DEF Ledgers
  <2>4. QED BY <2>1, <2>2, <2>3 DEF BarrierMoves
<1>3. CASE ~StageAccepts(ledger, cmd, now)
  <2>1. PICK r \in FaultReasons : ledger' = Latch(ledger, r)
    BY <1>1, <1>3, StageEffect
  <2>2. QED BY <2>1, LatchedMoves
<1>4. QED BY <1>2, <1>3

\* The arm's acknowledgement is added, or commits after the hand's.
LEMMA FrankaAckMoves ==
  ASSUME SharedTyped, NEW n, ledger' = Acknowledge(ledger, "franka", n, now)
  PROVE  /\ ledger' \in Ledgers
         /\ ledger'.committed \in {ledger.committed, ledger.pending.seq}
         /\ ledger'.pending.seq \in 0 .. MaxSequence
         /\ BarrierMoves
<1>1. /\ ledger \in Ledgers /\ ledger.pending.seq \in 0 .. MaxSequence
      /\ 0 \in 0 .. MaxSequence
  BY LoopAssumption DEF SharedTyped
<1>2. CASE AckAccepts(ledger, n, now)
  <2>1. HasPending(ledger) /\ ledger' = AcceptAck(ledger, "franka")
    BY <1>1, <1>2, AckEffect DEF Consumers
  <2>2. ledger' \in Ledgers
    <3>1. ledger.pending \in Commands
      BY <1>1, <2>1 DEF HasPending, Ledgers, NoCommand
    <3>2. QED BY <1>1, <2>1, <3>1, UpdatesTyped DEF Consumers
  <2>3. CASE ledger.acked \cup {"franka"} = Consumers
    <3>1. "rh56" \in ledger.acked
      BY <2>3 DEF Consumers
    <3>2. ledger' = [ledger EXCEPT !.previous = ledger.pending.executed,
                                   !.committed = ledger.pending.seq,
                                   !.pending = NoCommand, !.acked = {}]
      BY <2>1, <2>3 DEF AcceptAck
    <3>3. /\ ledger'.committed = ledger.pending.seq /\ ledger'.acked = {}
          /\ ledger'.pending = NoCommand
      BY <1>1, <3>2 DEF Ledgers
    <3>4. ledger'.pending.seq = 0
      BY <3>3 DEF NoCommand
    <3>5. QED BY <1>1, <2>2, <3>1, <3>3, <3>4 DEF BarrierMoves
  <2>4. CASE ledger.acked \cup {"franka"} # Consumers
    <3>1. /\ ledger'.committed = ledger.committed
          /\ ledger'.pending = ledger.pending
          /\ ledger'.acked = ledger.acked \cup {"franka"}
      BY <1>1, <2>1, <2>4 DEF AcceptAck, Ledgers
    <3>2. QED BY <1>1, <2>2, <3>1 DEF BarrierMoves
  <2>5. QED BY <2>3, <2>4
<1>3. CASE ~AckAccepts(ledger, n, now)
  <2>1. \/ ledger' = ledger
        \/ \E r \in FaultReasons : ledger' = Latch(ledger, r)
    BY <1>1, <1>3, AckEffect DEF Consumers
  <2>2. "device" \in FaultReasons
    BY DEF FaultReasons
  <2>3. QED BY <1>1, <2>1, <2>2, LatchedMoves
<1>4. QED BY <1>2, <1>3

\* An interlock that opens latches an armed gate and leaves any other in its
\* state.
LEMMA TrippedGate ==
  ASSUME gate \in Gates
  PROVE  /\ UpdateInterlocks(gate, "open", "ok") \in Gates
         /\ gate.state = "fault_latched" =>
              UpdateInterlocks(gate, "open", "ok").state = "fault_latched"
         /\ gate.state # "armed" =>
              UpdateInterlocks(gate, "open", "ok").state = gate.state
         /\ UpdateInterlocks(gate, "open", "ok").state = "disarmed" =>
              gate.state = "disarmed"
         /\ UpdateInterlocks(gate, "open", "ok").state # "armed"
<1>1. PICK told : told = [gate EXCEPT !.deadman = "open", !.estop = "ok"]
  OBVIOUS
<1>2. told \in Gates /\ told.state = gate.state
  BY <1>1 DEF Gates, Interlocks
<1>3. UpdateInterlocks(gate, "open", "ok") \in {told, LatchGate(told, "deadman")}
  BY <1>1 DEF UpdateInterlocks, Gates
<1>4. gate.state # "armed" => UpdateInterlocks(gate, "open", "ok") = told
  BY <1>1 DEF UpdateInterlocks, Gates
<1>5. LatchGate(told, "deadman") \in Gates
      /\ LatchGate(told, "deadman").state = "fault_latched"
  BY <1>2 DEF LatchGate, Gates, GateStates, GateReasons
<1>6. gate.state = "armed" => UpdateInterlocks(gate, "open", "ok") =
                                LatchGate(told, "deadman")
  BY <1>1 DEF UpdateInterlocks, InterlocksHealthy, Gates
<1>7. QED BY <1>2, <1>3, <1>4, <1>5, <1>6

(* the owner among its clients ------------------------------------------------ *)

\* The gate as the setup of the run leaves it.
LEMMA ArmedGateTyped == ArmedGate \in Gates /\ ArmedGate.state = "armed"
<1>1. PICK g : g = [NewGate EXCEPT !.deadman = "ok", !.estop = "ok"]
  OBVIOUS
<1>2. UpdateInterlocks(NewGate, "ok", "ok") = g
  BY <1>1 DEF UpdateInterlocks, NewGate
<1> DEFINE c == [u \in Threads |-> IF u = Caller THEN 0 ELSE NoSample]
<1>3. c \in [Threads -> Int]
  BY DEF NoSample
<1>4. ArmedGate = Armed(g, RunAuthorization, 0, Caller)
  BY <1>2 DEF ArmedGate
<1>5. ArmedGate = [state |-> "armed", deadman |-> "ok", estop |-> "ok",
                   auth |-> RunAuthorization, reason |-> "none",
                   used |-> {} \cup {RunAuthorization.id},
                   highest |-> 0, clock |-> c]
  BY <1>1, <1>4 DEF NewGate, Armed
<1>6. {} \cup {RunAuthorization.id} \in SUBSET {"auth"}
  BY DEF RunAuthorization
<1> HIDE DEF c
<1>7. QED BY <1>3, <1>5, <1>6 DEF Gates, GateStates, Interlocks, GateReasons

\* A created owner has no session, no requests and nothing to report.
LEMMA ClientsStart ==
  ASSUME ClientsInit
  PROVE  ClientsInv
<1>1. /\ 0 \in 0 .. MaxSequence /\ 0 \in 0 .. MaxTime
      /\ 0 \in 0 .. MaxTime + TrackingTimeout + FeedbackHardAge
      /\ 0 \in 0 .. MaxTime + TrackingTimeout
  BY LoopAssumption, OwnerAssumption
<1>2. SharedTyped
  <2>1. NewLedger \in Ledgers /\ NewLedger.committed = 0 /\ NewLedger.pending.seq = 0
    BY NewLedgerTyped DEF NewLedger, NoCommand
  <2>2. ArmedGate \in Gates
    BY ArmedGateTyped
  <2>3. QED BY <1>1, <2>1, <2>2 DEF ClientsInit, SharedInit, SharedTyped, NoTarget
<1>3. OwnerTypeOK
  <2>1. own \in Owners
    <3>1. PICK m \in Modes : own = [NewOwner EXCEPT !.supervised = m]
      BY DEF ClientsInit, OwnerInit
    <3>2. QED BY <1>1, <3>1 DEF NewOwner, Owners, OwnerStates, Settles
  <2>2. act \in Actuators
    BY <1>1 DEF ClientsInit, OwnerInit, NoActuator, ArmedActuator, Actuators
  <2>3. tracking \in Trackings /\ port \in Ports
    BY <1>1 DEF ClientsInit, OwnerInit, Trackings, Ports
  <2>4. QED
    BY <1>1, <2>1, <2>2, <2>3
    DEF ClientsInit, OwnerInit, OwnerTypeOK, WorkerSteps, Reasons, Tickets
<1>4. HandInv
  <2>1. /\ own.state = "created" /\ own.request = 0 /\ ~own.fault
        /\ own.sent = own.fault
        /\ ~own.report /\ ~own.confirmed
    BY DEF ClientsInit, OwnerInit, NewOwner
  <2>2. /\ act.state = "none" /\ ~act.confirmed /\ act.acked = 0 /\ act.holds = 0
    BY DEF ClientsInit, OwnerInit, NoActuator, ArmedActuator
  <2>3. /\ pc = "new" /\ why = "none"
        /\ port.serial = "none"
        /\ \A n \in Sequences1 : writes[n] = 0
        /\ ledger.committed = 0 /\ ledger.acked = {}
    BY DEF ClientsInit, OwnerInit, SharedInit, NewLedger
  <2>4. FaultCourse
    BY <2>1, <2>3 DEF FaultCourse, LiveSteps, Announcing
  <2>5. PortCourse /\ SilentCourse /\ ReportCourse
    BY <2>1, <2>2, <2>3
    DEF PortCourse, GivenUp, SilentCourse, LiveSteps, ReportCourse
  <2>6. FrameCourse
    BY <2>2, <2>3 DEF FrameCourse, LiveSteps, Executing
  <2>7. QED BY <2>4, <2>5, <2>6 DEF HandInv
<1>5. QED BY <1>2, <1>3, <1>4 DEF ClientsInv

\* Every step of the worker, of a client and of the clock keeps the owner's
\* invariant.
LEMMA ClientsStep ==
  ASSUME ClientsInv, ClientsNext
  PROVE  ClientsInv'
<1>1. /\ SharedTyped /\ OwnerTypeOK /\ HandInv
      /\ ledger \in Ledgers /\ gate \in Gates /\ now \in 0 .. MaxTime
      /\ "device" \in FaultReasons /\ "external" \in GateReasons
  BY DEF ClientsInv, SharedTyped, FaultReasons, GateReasons
<1>2. ASSUME gate' = gate, UNCHANGED <<stopEvent, cleanStop>>
      PROVE  SignalsStay
  BY <1>2 DEF SignalsStay
<1>3. ASSUME UNCHANGED ownerVars
      PROVE  OwnerTypeOK'
  BY <1>1, <1>3 DEF OwnerTypeOK, ownerVars
<1>4. ASSUME ledger' \in Ledgers, ledger'.committed \in 0 .. MaxSequence,
             ledger'.pending.seq \in 0 .. MaxSequence,
             UNCHANGED <<gate, now, hold, stopEvent, cleanStop, callbackFault>>
      PROVE  SharedTyped'
  BY <1>1, <1>4 DEF SharedTyped
<1>5. CASE Worker
  BY <1>1, <1>5, WorkerKeeps DEF ClientsInv
<1>6. CASE Start /\ UNCHANGED shared
  <2>1. /\ own.state = "created" /\ pc = "new" /\ pc' = "boot" /\ why' = why
        /\ own' = [own EXCEPT !.state = "starting"]
        /\ UNCHANGED <<act, ticket, lastFeedback, tracking, port, writes>>
        /\ UNCHANGED <<ledger, gate, now, hold, stopEvent, cleanStop, callbackFault>>
    BY <1>1, <1>6 DEF Start, Goto, HandInv, FaultCourse, shared
  <2>2. own \in Owners
    BY <1>1 DEF OwnerTypeOK
  <2>3. /\ own' \in Owners /\ own'.state = "starting"
        /\ own'.fault = own.fault /\ own'.sent = own.sent
        /\ own'.report = own.report /\ own'.confirmed = own.confirmed
        /\ own'.inflight = own.inflight /\ own'.request = own.request
    BY <2>1, <2>2 DEF Owners, OwnerStates
  <2>4. SharedTyped' /\ OwnerTypeOK'
    BY <1>1, <2>1, <2>3 DEF SharedTyped, OwnerTypeOK, WorkerSteps
  <2>5. FaultCourse'
    BY <1>1, <2>1, <2>3 DEF HandInv, FaultCourse, LiveSteps, Announcing, StopEdges
  <2>6. PortCourse' /\ SilentCourse' /\ ReportCourse'
    BY <1>1, <2>1, <2>3
    DEF HandInv, PortCourse, GivenUp, SilentCourse, LiveSteps, ReportCourse
  <2>7. FrameCourse'
    BY <1>1, <2>1, <2>3 DEF HandInv, FrameCourse, LiveSteps, Executing
  <2>8. QED BY <2>4, <2>5, <2>6, <2>7 DEF ClientsInv, HandInv
<1>7. CASE Call /\ UNCHANGED shared
  <2>1. ledger' = ledger /\ gate' = gate /\ UNCHANGED <<stopEvent, cleanStop>>
    BY <1>7 DEF shared
  <2>2. OwnerTypeOK' /\ HandInv'
    BY <1>1, <1>2, <1>7, <2>1, CallTyped, CallKeeps
  <2>3. SharedTyped'
    BY <1>1, <1>7 DEF SharedTyped, shared
  <2>4. QED BY <2>2, <2>3 DEF ClientsInv
<1>8. CASE StageCommand
  <2>1. PICK a \in Actions :
          ledger' = Stage(ledger, [seq |-> ledger.committed + 1,
                                   previous |-> ledger.previous,
                                   executed |-> a, produced |-> now], now)
    BY <1>8 DEF StageCommand
  <2>2. PICK cmd : cmd = [seq |-> ledger.committed + 1,
                          previous |-> ledger.previous,
                          executed |-> a, produced |-> now]
    OBVIOUS
  <2>3. cmd \in Commands /\ cmd.seq \in 0 .. MaxSequence
    <3>1. ledger.committed + 1 \in 0 .. MaxSequence /\ ledger.committed + 1 # 0
      BY <1>1, <1>8, LoopAssumption DEF StageCommand, SharedTyped
    <3>2. ledger.previous \in Actions /\ now \in Int
      BY <1>1, LoopAssumption DEF Ledgers
    <3>3. QED BY <2>2, <3>1, <3>2, LoopAssumption DEF Commands
  <2>4. UNCHANGED ownerVars
        /\ UNCHANGED <<gate, now, hold, stopEvent, cleanStop, callbackFault>>
    BY <1>8 DEF StageCommand
  <2>5. /\ ledger' \in Ledgers /\ ledger'.committed = ledger.committed
        /\ ledger'.pending \in {ledger.pending, cmd} /\ BarrierMoves
    BY <1>1, <2>1, <2>2, <2>3, StageMoves
  <2>6. SharedTyped'
    BY <1>1, <1>4, <2>3, <2>4, <2>5 DEF SharedTyped
  <2>7. QED BY <1>1, <1>2, <1>3, <2>4, <2>5, <2>6, OthersKeep DEF ClientsInv
<1>9. CASE FrankaAcknowledges
  <2>1. /\ ledger' = Acknowledge(ledger, "franka", ledger.pending.seq, now)
        /\ UNCHANGED ownerVars
        /\ UNCHANGED <<gate, now, hold, stopEvent, cleanStop, callbackFault>>
    BY <1>9 DEF FrankaAcknowledges
  <2>2. /\ ledger' \in Ledgers
        /\ ledger'.committed \in {ledger.committed, ledger.pending.seq}
        /\ ledger'.pending.seq \in 0 .. MaxSequence
        /\ BarrierMoves
    BY <1>1, <2>1, FrankaAckMoves
  <2>3. SharedTyped'
    BY <1>1, <1>4, <2>1, <2>2 DEF SharedTyped
  <2>4. QED BY <1>1, <1>2, <1>3, <2>1, <2>2, <2>3, OthersKeep DEF ClientsInv
<1>10. CASE CheckDeadline
  <2>1. /\ UNCHANGED ownerVars
        /\ UNCHANGED <<gate, now, hold, stopEvent, cleanStop, callbackFault>>
    BY <1>10 DEF CheckDeadline
  <2>2. PICK r \in FaultReasons : ledger' = Latch(ledger, r)
    BY <1>1, <1>10, FaultsAreReasons DEF CheckDeadline, RequireCommitDeadline
  <2>3. /\ ledger' \in Ledgers /\ ledger'.committed = ledger.committed
        /\ ledger'.pending = ledger.pending /\ BarrierMoves
    BY <1>1, <2>2, LatchedMoves
  <2>4. SharedTyped'
    BY <1>1, <1>4, <2>1, <2>3 DEF SharedTyped
  <2>5. QED BY <1>1, <1>2, <1>3, <2>1, <2>3, <2>4, OthersKeep DEF ClientsInv
<1>11. CASE FrankaFails
  <2>1. /\ UNCHANGED ownerVars
        /\ UNCHANGED <<now, hold, stopEvent, cleanStop, callbackFault>>
        /\ ledger' = Latch(ledger, "device")
        /\ gate' = LatchGate(gate, "external")
    BY <1>11 DEF FrankaFails, Fail
  <2>2. /\ ledger' \in Ledgers /\ ledger'.committed = ledger.committed
        /\ ledger'.pending = ledger.pending /\ BarrierMoves
    BY <1>1, <2>1, LatchedMoves
  <2>3. gate' \in Gates /\ gate'.state = "fault_latched"
    BY <1>1, <2>1, LatchedGate
  <2>4. SharedTyped' /\ SignalsStay
    BY <1>1, <2>1, <2>2, <2>3 DEF SharedTyped, SignalsStay
  <2>5. QED BY <1>1, <1>3, <2>1, <2>2, <2>4, OthersKeep DEF ClientsInv
<1>12. CASE InterlockTrips
  <2>1. /\ UNCHANGED ownerVars
        /\ UNCHANGED <<ledger, now, hold, stopEvent, cleanStop, callbackFault>>
        /\ gate' = UpdateInterlocks(gate, "open", "ok")
    BY <1>12 DEF InterlockTrips
  <2>2. BarrierMoves
    BY <2>1 DEF BarrierMoves
  <2>3. gate' \in Gates /\ SignalsStay
    BY <1>1, <2>1, TrippedGate DEF SignalsStay
  <2>4. SharedTyped'
    BY <1>1, <2>1, <2>3 DEF SharedTyped
  <2>5. QED BY <1>1, <1>3, <2>1, <2>2, <2>3, <2>4, OthersKeep DEF ClientsInv
<1>13. CASE ClientsTick
  <2>1. /\ UNCHANGED ownerVars
        /\ UNCHANGED <<ledger, gate, hold, stopEvent, cleanStop, callbackFault>>
        /\ now < MaxTime /\ now' = now + 1
    BY <1>13 DEF ClientsTick
  <2>2. BarrierMoves
    BY <2>1 DEF BarrierMoves
  <2>3. SharedTyped'
    BY <1>1, <2>1, LoopAssumption DEF SharedTyped
  <2>4. QED BY <1>1, <1>2, <1>3, <2>1, <2>2, <2>3, OthersKeep DEF ClientsInv
<1>14. QED
  BY <1>5, <1>6, <1>7, <1>8, <1>9, <1>10, <1>11, <1>12, <1>13
  DEF ClientsNext, Client, Call

\* RH56WatchdogOwner: whatever its clients call and in whatever order, its worker
\* keeps the five courses.
THEOREM ClientsInvariant == ClientsSpec => []ClientsInv
<1>1. ClientsInv /\ [ClientsNext]_clientVars => ClientsInv'
  <2>1. CASE ClientsNext
    BY <2>1, ClientsStep
  <2>2. CASE UNCHANGED clientVars
    BY <2>2
    DEF clientVars, shared, ownerVars, ClientsInv, SharedTyped, OwnerTypeOK, HandInv,
        FaultCourse, StopEdges, PortCourse, GivenUp, SilentCourse, ReportCourse,
        FrameCourse, Executing
  <2>3. QED BY <2>1, <2>2
<1>2. QED BY ClientsStart, <1>1, PTL DEF ClientsSpec

\* The arm has been told, and the gate is closed, before the worker spends seconds
\* stopping a faulted hand.
THEOREM OthersToldFirst == ClientsSpec => []StopEdgeBeforeDisable
<1>1. ClientsInv => StopEdgeBeforeDisable
  BY DEF ClientsInv, HandInv, FaultCourse, StopEdges, Announcing,
         StopEdgeBeforeDisable
<1>2. QED BY ClientsInvariant, <1>1, PTL

\* A port given up before a stop was attempted belongs to a hand that was not armed
\* and was sent no target, and no worker ends with an actuator of its own armed.
THEOREM GivenUpStopped == ClientsSpec => []NeverClosedArmed
<1>1. ClientsInv => NeverClosedArmed
  BY DEF ClientsInv, HandInv, PortCourse, GivenUp, SilentCourse, NeverClosedArmed
<1>2. QED BY ClientsInvariant, <1>1, PTL

\* What the ledger counts for the hand the hand holds, by one frame at most.
THEOREM AppliedOnce == ClientsSpec => []AcknowledgedMeansApplied
<1>1. ClientsInv => AcknowledgedMeansApplied
  <2> SUFFICES ASSUME ClientsInv PROVE AcknowledgedMeansApplied
    OBVIOUS
  <2>1. ledger.committed \in Nat /\ act.acked \in Nat /\ act.holds \in Nat
    BY LoopAssumption DEF ClientsInv, SharedTyped, OwnerTypeOK, Actuators
  <2>2. QED
    BY <2>1 DEF ClientsInv, HandInv, FrameCourse, AcknowledgedMeansApplied
<1>2. QED BY ClientsInvariant, <1>1, PTL

\* stop_and_close: a stop it reports as verified was attempted and confirmed, and
\* nothing that failed after it took the confirmation away.
THEOREM ReportIsTrue == ClientsSpec => []VerifiedStopIsTrue
<1>1. ClientsInv => VerifiedStopIsTrue
  BY DEF ClientsInv, HandInv, ReportCourse, VerifiedStopIsTrue, DisabledVerified
<1>2. QED BY ClientsInvariant, <1>1, PTL

(* the worker, seen from the others ----------------------------------------- *)

\* A step of the worker moves the request as RequestMoves says ...
LEMMA HandRequest ==
  ASSUME own \in Owners, ticket \in [Sequences1 -> Tickets], ledger \in Ledgers,
         FaultCourse, BarrierCourse, Worker
  PROVE  RequestMoves
<1> USE DEF RequestMoves
<1>1. CASE Top \/ Wake \/ Precheck \/ Write \/ Readback \/ Recheck \/ Ack \/ AfterAck \/
           Poll \/ InlineDisable \/ PubLedger \/ PubCallback \/ PubGate \/
           PubStop \/ Close
  BY <1>1
    DEF Top, shared, Wake, Precheck, Write, Readback, Recheck, Ack, AfterAck, Poll,
        InlineDisable, PubLedger, PubCallback, PubGate, PubStop, Close
<1>2. CASE Boot
  <2>1. own' \in {own, [own EXCEPT !.state = "running"]} /\ ticket' = ticket
    BY <1>2 DEF Boot, shared
  <2>2. QED BY <2>1 DEF Owners
<1>3. CASE Decide
  <2>1. \/ own' \in {own, [own EXCEPT !.settle = "no"]} /\ ticket' = ticket
        \/ own' = [own EXCEPT !.request = 0]
        \/ own' = [own EXCEPT !.request = 0, !.inflight = own.request]
    BY <1>3 DEF Decide, DecideStop, DecideSettle, DecideWatchdog, DecideStale,
          DecideExecute, DecidePoll, DecideWait, TakeRequest, Goto, Escapes
  <2>2. QED BY <2>1 DEF Owners
<1>4. CASE SettleBegin
  <2>1. own' \in {own, [own EXCEPT !.settle = "active"]} /\ ticket' = ticket
    BY <1>4 DEF SettleBegin
  <2>2. QED BY <2>1 DEF Owners
<1>5. CASE Uninflight
  <2>1. own' = [own EXCEPT !.inflight = 0] /\ ticket' = ticket
    BY <1>5 DEF Uninflight
  <2>2. QED BY <2>1 DEF Owners
<1>6. CASE Complete
  <2>1. own' \in {own, [own EXCEPT !.inflight = 0]}
        /\ ticket' = Answer(act.acked, "receipt")
    BY <1>6 DEF Complete
  <2>2. own'.request = own.request /\ own.request \in 0 .. MaxSequence
    BY <2>1 DEF Owners
  <2>3. own.request # 0 => own.request # act.acked
    BY DEF BarrierCourse, HasPending, Ledgers
  <2>4. own.request # 0 => own.request \in Sequences1
    BY <2>2, LoopAssumption DEF Sequences1
  <2>5. QED BY <2>1, <2>2, <2>3, <2>4 DEF Answer
<1>7. CASE NormalDisable
  <2>1. own' \in {own, [own EXCEPT !.report = TRUE]} /\ ticket' = ticket
    BY <1>7 DEF NormalDisable
  <2>2. QED BY <2>1 DEF Owners
<1>8. CASE PubOwner
  <2>1. own' = [own EXCEPT !.fault = TRUE, !.state = "fault_latched",
                           !.request = 0, !.sent = TRUE]
    BY <1>8 DEF PubOwner
  <2>2. QED BY <2>1 DEF Owners
<1>9. CASE FaultDisable
  <2>1. own' = own \/ \E proven \in BOOLEAN :
          own' = [own EXCEPT !.confirmed = @ \/ proven, !.report = @ \/ proven]
    BY <1>9 DEF FaultDisable
  <2>2. own'.request = own.request /\ ticket' = ticket
    BY <1>9, <2>1 DEF FaultDisable, Owners
  <2>3. QED BY <2>2
<1>10. CASE HandlerComplete
  <2>1. own' = [own EXCEPT !.inflight = 0, !.confirmed = @ \/ act.confirmed]
    BY <1>10 DEF HandlerComplete
  <2>2. own.request = 0
    BY <1>10 DEF HandlerComplete, FaultCourse
  <2>3. QED BY <2>1, <2>2 DEF Owners
<1>11. CASE Exit
  <2>1. own'.request = own.request /\ ticket' = ticket
    BY <1>11 DEF Exit, Owners
  <2>2. QED BY <2>1
<1>12. QED
  BY <1>1, <1>2, <1>3, <1>4, <1>5, <1>6, <1>7, <1>8, <1>9, <1>10, <1>11 DEF Worker

\* ... starts and continues an execution as ExecutionMoves says ...
LEMMA HandExecution ==
  ASSUME own \in Owners, Worker
  PROVE  ExecutionMoves
<1> USE DEF ExecutionMoves
<1>1. CASE Boot
  BY <1>1 DEF Boot, Goto, Escapes, Executing
<1>2. CASE Top
  BY <1>2 DEF Top, Goto, Escapes, Executing
<1>3. CASE Decide
  <2>1. CASE DecideExecute
    <3>1. own' = [own EXCEPT !.request = 0, !.inflight = own.request] /\ own.request # 0
      BY <2>1 DEF DecideExecute
    <3>2. QED BY <3>1 DEF Owners
  <2>2. CASE ~DecideExecute
    BY <1>3, <2>2 DEF Decide, DecideStop, DecideSettle, DecideWatchdog, DecideStale,
          DecidePoll, DecideWait, Goto, Escapes, Executing
  <2>3. QED BY <2>1, <2>2
<1>4. CASE Wake
  BY <1>4 DEF Wake, Goto, Executing
<1>5. CASE SettleBegin
  BY <1>5 DEF SettleBegin, Goto, Escapes, Executing
<1>6. CASE Precheck
  <2>1. Executing /\ own' = own
    BY <1>6 DEF Precheck, Executing
  <2>2. QED BY <2>1
<1>7. CASE Write
  <2>1. Executing /\ own' = own
    BY <1>7 DEF Write, Executing
  <2>2. QED BY <2>1
<1>7b. CASE Readback
  <2>1. Executing /\ own' = own
    BY <1>7b DEF Readback, Executing
  <2>2. QED BY <2>1
<1>8. CASE Recheck
  <2>1. Executing /\ own' = own
    BY <1>8 DEF Recheck, Executing
  <2>2. QED BY <2>1
<1>9. CASE Ack
  BY <1>9 DEF Ack, Goto, ToHandler, Executing
<1>10. CASE Uninflight
  BY <1>10 DEF Uninflight, Goto, Executing
<1>11. CASE Complete
  BY <1>11 DEF Complete, Goto, Executing
<1>12. CASE AfterAck
  BY <1>12 DEF AfterAck, Goto, ToHandler, Executing
<1>13. CASE Poll
  BY <1>13 DEF Poll, Goto, Escapes, Executing
<1>14. CASE InlineDisable
  BY <1>14 DEF InlineDisable, ToHandler, Executing
<1>15. CASE NormalDisable
  BY <1>15 DEF NormalDisable, Goto, Escapes, Executing
<1>16. CASE PubLedger
  BY <1>16 DEF PubLedger, Goto, Executing
<1>17. CASE PubOwner
  BY <1>17 DEF PubOwner, AfterPublish, Goto, Executing
<1>18. CASE PubCallback
  BY <1>18 DEF PubCallback, Goto, Executing
<1>19. CASE PubGate
  BY <1>19 DEF PubGate, Goto, Executing
<1>20. CASE PubStop
  BY <1>20 DEF PubStop, AfterPublish, Goto, Executing
<1>21. CASE FaultDisable
  BY <1>21 DEF FaultDisable, Goto, Executing
<1>22. CASE HandlerComplete
  BY <1>22 DEF HandlerComplete, Goto, Executing
<1>23. CASE Close
  BY <1>23 DEF Close, Goto, Executing
<1>24. CASE Exit
  BY <1>24 DEF Exit, Executing
<1>25. QED
  BY <1>1, <1>2, <1>3, <1>4, <1>5, <1>6, <1>7, <1>7b, <1>8, <1>9, <1>10, <1>11,
     <1>12, <1>13, <1>14, <1>15, <1>16, <1>17, <1>18, <1>19, <1>20, <1>21,
     <1>22, <1>23, <1>24 DEF Worker

\* ... answers as AnswerMoves says ...
LEMMA HandAnswers ==
  ASSUME ticket \in [Sequences1 -> Tickets], Worker
  PROVE  AnswerMoves
<1> USE DEF AnswerMoves
<1>1. CASE Boot \/ Top \/ Wake \/ SettleBegin \/ Precheck \/ Write \/ Readback \/ Recheck
           \/ Ack \/ Uninflight \/ AfterAck \/ Poll \/ InlineDisable \/
           NormalDisable \/ PubLedger \/ PubCallback \/ PubGate \/ PubStop \/
           FaultDisable \/ Close \/ Exit
  BY <1>1
    DEF Boot, shared, Top, Wake, SettleBegin, Precheck, Write, Readback, Recheck, Ack,
        Uninflight, AfterAck, Poll, InlineDisable, NormalDisable, PubLedger, PubCallback,
        PubGate, PubStop, FaultDisable, Close, Exit
<1>2. CASE Decide
  <2>1. ticket' \in {ticket, Answer(own.request, "error")}
    BY <1>2 DEF Decide, DecideStop, DecideSettle, DecideWatchdog, DecideStale,
          DecideExecute, DecidePoll, DecideWait, TakeRequest, Goto, Escapes
  <2>2. QED BY <2>1 DEF Answer, Tickets
<1>3. CASE Complete
  <2>1. ticket' \in {ticket, Answer(act.acked, "receipt")}
    BY <1>3 DEF Complete
  <2>2. QED BY <2>1 DEF Answer, Tickets
<1>4. CASE PubOwner
  <2>1. ticket' \in {ticket, Answer(own.request, "error")}
    BY <1>4 DEF PubOwner
  <2>2. QED BY <2>1 DEF Answer, Tickets
<1>5. CASE HandlerComplete
  <2>1. ticket' \in {ticket, Answer(own.inflight, "error")}
    BY <1>5 DEF HandlerComplete
  <2>2. QED BY <2>1 DEF Answer, Tickets
<1>6. QED
  BY <1>1, <1>2, <1>3, <1>4, <1>5 DEF Worker

\* ... sends frames as FrameMoves says ...
LEMMA HandFrames ==
  ASSUME writes \in [Sequences1 -> 0 .. 2], Worker
  PROVE  FrameMoves
<1> USE DEF FrameMoves
<1>1. CASE Boot \/ Top \/ Decide \/ Wake \/ SettleBegin \/ Precheck \/ Readback \/ Recheck
           \/ Ack \/ Uninflight \/ Complete \/ AfterAck \/ Poll \/
           InlineDisable \/ NormalDisable \/ PubLedger \/ PubOwner \/
           PubCallback \/ PubGate \/ PubStop \/ FaultDisable \/
           HandlerComplete \/ Close \/ Exit
  BY <1>1
    DEF Boot, shared, Top, Decide, Wake, SettleBegin, Precheck, Readback, Recheck,
        Ack, Uninflight, Complete, AfterAck, Poll, InlineDisable, NormalDisable,
        PubLedger, PubOwner, PubCallback, PubGate, PubStop, FaultDisable, HandlerComplete,
        Close, Exit
<1>2. CASE Write
  <2>1. Executing
    BY <1>2 DEF Write, Executing
  <2>2. \/ writes' = writes
        \/ writes' = [writes EXCEPT ![own.inflight] = writes[own.inflight] + 1]
    BY <1>2 DEF Write
  <2>3. QED BY <2>1, <2>2
<1>3. QED
  BY <1>1, <1>2 DEF Worker

\* ... is not yet done, and stays in its mode ...
LEMMA HandStays ==
  ASSUME own \in Owners, Worker
  PROVE  pc # "done" /\ own'.supervised = own.supervised
<1>1. CASE Boot
  BY <1>1 DEF Boot, Goto, Escapes, Owners
<1>2. CASE Top
  BY <1>2 DEF Top, Goto, Escapes, Owners
<1>3. CASE Decide
  BY <1>3 DEF Decide, DecideStop, DecideSettle, DecideWatchdog, DecideStale,
         DecideExecute, DecidePoll, DecideWait, TakeRequest, Goto, Escapes, Owners
<1>4. CASE Wake
  BY <1>4 DEF Wake, Goto, Owners
<1>5. CASE SettleBegin
  BY <1>5 DEF SettleBegin, Goto, Escapes, Owners
<1>6. CASE Precheck
  BY <1>6 DEF Precheck, TransactionFails, LatchActuator, Goto, ToHandler, Owners
<1>7. CASE Write
  BY <1>7 DEF Write, Goto, Owners
<1>8. CASE Readback
  BY <1>8 DEF Readback, TransactionFails, LatchActuator, Goto, ToHandler, Owners
<1>9. CASE Recheck
  BY <1>9 DEF Recheck, TransactionFails, LatchActuator, Goto, ToHandler, Owners
<1>10. CASE Ack
  BY <1>10 DEF Ack, LatchActuator, Goto, ToHandler, Owners
<1>11. CASE Uninflight
  BY <1>11 DEF Uninflight, Goto, Owners
<1>12. CASE Complete
  BY <1>12 DEF Complete, Goto, Owners
<1>13. CASE AfterAck
  BY <1>13 DEF AfterAck, LatchActuator, Goto, ToHandler, Owners
<1>14. CASE Poll
  BY <1>14 DEF Poll, LatchActuator, Goto, Escapes, Owners
<1>15. CASE InlineDisable
  BY <1>15 DEF InlineDisable, ToHandler, Owners
<1>16. CASE NormalDisable
  BY <1>16 DEF NormalDisable, DropTimers, Goto, Escapes, Owners
<1>17. CASE PubLedger
  BY <1>17 DEF PubLedger, DropTimers, Goto, Owners
<1>18. CASE PubOwner
  BY <1>18 DEF PubOwner, AfterPublish, Goto, Owners
<1>19. CASE PubCallback
  BY <1>19 DEF PubCallback, Goto, Owners
<1>20. CASE PubGate
  BY <1>20 DEF PubGate, Goto, Owners
<1>21. CASE PubStop
  BY <1>21 DEF PubStop, AfterPublish, Goto, Owners
<1>22. CASE FaultDisable
  <2>1. own' = own \/ \E proven \in BOOLEAN :
          own' = [own EXCEPT !.confirmed = @ \/ proven, !.report = @ \/ proven]
    BY <1>22 DEF FaultDisable
  <2>2. QED BY <1>22, <2>1 DEF FaultDisable, Owners
<1>23. CASE HandlerComplete
  <2>1. own' = [own EXCEPT !.inflight = 0, !.confirmed = @ \/ act.confirmed]
    BY <1>23 DEF HandlerComplete
  <2>2. QED BY <1>23, <2>1 DEF HandlerComplete, Owners
<1>24. CASE Close
  BY <1>24 DEF Close, Goto, Owners
<1>25. CASE Exit
  BY <1>25 DEF Exit, Owners
<1>26. QED
  BY <1>1, <1>2, <1>3, <1>4, <1>5, <1>6, <1>7, <1>8, <1>9, <1>10, <1>11, <1>12,
     <1>13, <1>14, <1>15, <1>16, <1>17, <1>18, <1>19, <1>20, <1>21, <1>22,
     <1>23, <1>24, <1>25 DEF Worker

\* ... answers a counted sequence as TailMoves says ...
LEMMA HandTail ==
  ASSUME own \in Owners, act \in Actuators, tracking \in Trackings, Worker
  PROVE  TailMoves
<1> USE DEF TailMoves
<1>1. CASE Boot
  BY <1>1 DEF Boot, Goto, Escapes, Actuators, Trackings
<1>2. CASE Top
  BY <1>2 DEF Top, Goto, Escapes, Actuators, Trackings
<1>3. CASE Decide
  BY <1>3 DEF Decide, DecideStop, DecideSettle, DecideWatchdog, DecideStale,
         DecideExecute, DecidePoll, DecideWait, TakeRequest, Goto, Escapes, Actuators,
         Trackings
<1>4. CASE Wake
  BY <1>4 DEF Wake, Goto, Actuators, Trackings
<1>5. CASE SettleBegin
  BY <1>5 DEF SettleBegin, Goto, Escapes, Actuators, Trackings
<1>6. CASE Precheck
  BY <1>6
    DEF Precheck, TransactionFails, LatchActuator, Goto, ToHandler, Actuators,
        Trackings
<1>7. CASE Write
  BY <1>7 DEF Write, Goto, Actuators, Trackings
<1>8. CASE Readback
  BY <1>8
    DEF Readback, TransactionFails, LatchActuator, Goto, ToHandler, Actuators,
        Trackings
<1>9. CASE Recheck
  BY <1>9
    DEF Recheck, TransactionFails, LatchActuator, Goto, ToHandler, Actuators,
        Trackings
<1>10. CASE Ack
  BY <1>10 DEF Ack, LatchActuator, Goto, ToHandler, Actuators, Trackings
<1>11. CASE Uninflight
  BY <1>11 DEF Uninflight, Goto, Actuators, Trackings
<1>12. CASE Complete
  BY <1>12 DEF Complete, Goto, Actuators, Trackings
<1>13. CASE AfterAck
  BY <1>13 DEF AfterAck, PollGood, PollUntracked, PollReadFails, Goto, ToHandler,
         Trackings
<1>14. CASE Poll
  BY <1>14 DEF Poll, PollGood, PollUntracked, PollReadFails, Goto, Escapes,
         Trackings
<1>15. CASE InlineDisable
  BY <1>15 DEF InlineDisable, ToHandler, Actuators, Trackings
<1>16. CASE NormalDisable
  BY <1>16 DEF NormalDisable, DropTimers, Goto, Escapes, Actuators, Trackings
<1>17. CASE PubLedger
  BY <1>17 DEF PubLedger, DropTimers, Goto, Actuators, Trackings
<1>18. CASE PubOwner
  BY <1>18 DEF PubOwner, AfterPublish, Goto, Actuators, Trackings
<1>19. CASE PubCallback
  BY <1>19 DEF PubCallback, Goto, Actuators, Trackings
<1>20. CASE PubGate
  BY <1>20 DEF PubGate, Goto, Actuators, Trackings
<1>21. CASE PubStop
  BY <1>21 DEF PubStop, AfterPublish, Goto, Actuators, Trackings
<1>22. CASE FaultDisable
  <2>1. pc' \notin {"uninflight", "complete"} /\ tracking' = tracking
    BY <1>22 DEF FaultDisable, Goto
  <2>2. QED BY <2>1
<1>23. CASE HandlerComplete
  <2>1. pc' \notin {"uninflight", "complete"} /\ tracking' = tracking
    BY <1>23 DEF HandlerComplete, Goto
  <2>2. QED BY <2>1
<1>24. CASE Close
  BY <1>24 DEF Close, Goto, Actuators, Trackings
<1>25. CASE Exit
  BY <1>25 DEF Exit, Actuators, Trackings
<1>26. QED
  BY <1>1, <1>2, <1>3, <1>4, <1>5, <1>6, <1>7, <1>8, <1>9, <1>10, <1>11, <1>12,
     <1>13, <1>14, <1>15, <1>16, <1>17, <1>18, <1>19, <1>20, <1>21, <1>22,
     <1>23, <1>24, <1>25 DEF Worker

\* ... signals as CallbackMoves says ...
LEMMA HandSignals ==
  ASSUME Worker
  PROVE  CallbackMoves
<1> USE DEF CallbackMoves, shared
<1>1. CASE Boot
  BY <1>1 DEF Boot, Goto, Escapes
<1>2. CASE Top
  BY <1>2 DEF Top, Goto, Escapes
<1>3. CASE Decide
  BY <1>3 DEF Decide, DecideStop, DecideSettle, DecideWatchdog, DecideStale,
         DecideExecute, DecidePoll, DecideWait, TakeRequest, Goto, Escapes
<1>4. CASE Wake
  BY <1>4 DEF Wake, Goto
<1>5. CASE SettleBegin
  BY <1>5 DEF SettleBegin, Goto, Escapes
<1>6. CASE Precheck
  BY <1>6 DEF Precheck, TransactionFails, LatchActuator, Goto, ToHandler
<1>7. CASE Write
  BY <1>7 DEF Write, Goto
<1>8. CASE Readback
  BY <1>8 DEF Readback, TransactionFails, LatchActuator, Goto, ToHandler
<1>9. CASE Recheck
  BY <1>9 DEF Recheck, TransactionFails, LatchActuator, Goto, ToHandler
<1>10. CASE Ack
  BY <1>10 DEF Ack, LatchActuator, Goto, ToHandler
<1>11. CASE Uninflight
  BY <1>11 DEF Uninflight, Goto
<1>12. CASE Complete
  BY <1>12 DEF Complete, Goto
<1>13. CASE AfterAck
  BY <1>13 DEF AfterAck, LatchActuator, Goto, ToHandler
<1>14. CASE Poll
  BY <1>14 DEF Poll, LatchActuator, Goto, Escapes
<1>15. CASE InlineDisable
  BY <1>15 DEF InlineDisable, ToHandler
<1>16. CASE NormalDisable
  BY <1>16 DEF NormalDisable, DropTimers, Goto, Escapes
<1>17. CASE PubLedger
  BY <1>17 DEF PubLedger, DropTimers, Goto
<1>18. CASE PubOwner
  BY <1>18 DEF PubOwner, AfterPublish, Goto
<1>19. CASE PubCallback
  BY <1>19 DEF PubCallback, Goto
<1>20. CASE PubGate
  BY <1>20 DEF PubGate, Goto
<1>21. CASE PubStop
  BY <1>21 DEF PubStop, AfterPublish, Goto
<1>22. CASE FaultDisable
  BY <1>22 DEF FaultDisable, Goto
<1>23. CASE HandlerComplete
  BY <1>23 DEF HandlerComplete, Goto
<1>24. CASE Close
  BY <1>24 DEF Close, Goto
<1>25. CASE Exit
  BY <1>25 DEF Exit
<1>26. QED
  BY <1>1, <1>2, <1>3, <1>4, <1>5, <1>6, <1>7, <1>8, <1>9, <1>10, <1>11, <1>12,
     <1>13, <1>14, <1>15, <1>16, <1>17, <1>18, <1>19, <1>20, <1>21, <1>22,
     <1>23, <1>24, <1>25 DEF Worker

\* ... and counts as CountMoves says.
LEMMA HandCounts ==
  ASSUME own \in Owners, act \in Actuators, ledger \in Ledgers,
         FrameCourse, Worker
  PROVE  CountMoves
<1> USE DEF CountMoves
<1>0. /\ ledger' = ledger => LedgerStands
      /\ ledger' = Fail(ledger) => LedgerStands
  BY FailKeeps DEF LedgerStands
<1>1. CASE Wake \/ Uninflight \/ Complete \/ PubOwner \/ PubCallback \/
           PubGate \/ PubStop \/ HandlerComplete \/ Close \/ Exit
  BY <1>1, <1>0 DEF Wake, shared, Uninflight, Complete, PubOwner, PubCallback, PubGate,
      PubStop, HandlerComplete, Close, Exit
<1>2. CASE Boot
  <2>1. ledger' = ledger /\ act.acked = 0
    BY <1>2 DEF Boot, shared, FrameCourse
  <2>2. act'.acked = 0
    <3>1. act' = act \/ act' \in RefusedActuators \/ \E h : act' = ArmedActuator(h)
      BY <1>2 DEF Boot
    <3>2. CASE act' \in RefusedActuators
      BY <3>2 DEF RefusedActuators, NoActuator, ArmedActuator
    <3>3. CASE \E h : act' = ArmedActuator(h)
      BY <3>3 DEF ArmedActuator
    <3>4. QED BY <2>1, <3>1, <3>2, <3>3
  <2>3. QED BY <1>0, <2>1, <2>2
<1>3. CASE Top
  <2>1. ledger' = ledger /\ act'.acked = act.acked
    BY <1>3 DEF Top, shared, Actuators
  <2>2. QED BY <1>0, <2>1
<1>4. CASE Decide
  <2>1. /\ act'.acked = act.acked
        /\ ledger' \in {ledger, Fail(ledger)}
    BY <1>4 DEF Decide, DecideStop, DecideSettle, DecideWatchdog, DecideStale,
          DecideExecute, DecidePoll, DecideWait, TakeRequest, Goto, Escapes
  <2>2. QED BY <1>0, <2>1
<1>5. CASE SettleBegin
  <2>1. ledger' = ledger /\ act'.acked = act.acked
    BY <1>5 DEF SettleBegin, shared, Actuators
  <2>2. QED BY <1>0, <2>1
<1>6. CASE Precheck
  <2>1. ledger' \in {ledger, Fail(ledger)} /\ (act' = act \/ LatchActuator)
    BY <1>6 DEF Precheck, TransactionFails
  <2>2. act'.acked = act.acked
    BY <2>1 DEF LatchActuator, Actuators
  <2>3. QED BY <1>0, <2>1, <2>2
<1>7. CASE Write
  <2>1. /\ ledger' \in {ledger, Fail(ledger)}
        /\ \E h, s : act' \in {[act EXCEPT !.holds = h],
                               [act EXCEPT !.holds = h, !.state = s]}
    BY <1>7 DEF Write
  <2>2. act'.acked = act.acked
    BY <2>1 DEF Actuators
  <2>3. QED BY <1>0, <2>1, <2>2
<1>7b. CASE Readback
  <2>1. ledger' \in {ledger, Fail(ledger)} /\ (act' = act \/ LatchActuator)
    BY <1>7b DEF Readback, TransactionFails
  <2>2. act'.acked = act.acked
    BY <2>1 DEF LatchActuator, Actuators
  <2>3. QED BY <1>0, <2>1, <2>2
<1>8. CASE Recheck
  <2>1. ledger' \in {ledger, Fail(ledger)} /\ (act' = act \/ LatchActuator)
    BY <1>8 DEF Recheck, TransactionFails
  <2>2. act'.acked = act.acked
    BY <2>1 DEF LatchActuator, Actuators
  <2>3. QED BY <1>0, <2>1, <2>2
<1>9. CASE Ack
  <2>1. CASE AckAccepts(ledger, own.inflight, now)
    <3>1. /\ ledger' = Acknowledge(ledger, "rh56", own.inflight, now)
          /\ act' = [act EXCEPT !.acked = own.inflight, !.heartbeat = now]
          /\ pc = "ack" /\ pc' \in {"uninflight", "complete"}
      BY <1>9, <2>1 DEF Ack, Goto
    <3>2. HasPending(ledger) /\ ledger' = AcceptAck(ledger, "rh56")
      BY <2>1, <3>1, AckEffect DEF Consumers
    <3>3. act'.acked = own.inflight
      BY <3>1 DEF Actuators
    <3>4. QED BY <3>1, <3>2, <3>3 DEF Executing
  <2>2. CASE ~AckAccepts(ledger, own.inflight, now)
    <3>1. PICK l : l = Acknowledge(ledger, "rh56", own.inflight, now)
      OBVIOUS
    <3>2. /\ ledger' = Fail(l) /\ LatchActuator
          /\ pc' \in {"pub_ledger", "inline_disable"}
      BY <1>9, <2>2, <3>1 DEF Ack, ToHandler, Goto
    <3>3. l = ledger \/ \E r \in FaultReasons : l = Latch(ledger, r)
      BY <2>2, <3>1, AckEffect DEF Consumers
    <3>4. /\ l \in Ledgers /\ l.committed = ledger.committed
          /\ l.pending = ledger.pending /\ l.acked = ledger.acked
      BY <3>3, LatchKeeps
    <3>5. act'.acked = act.acked
      BY <3>2 DEF LatchActuator, Actuators
    <3>6. LedgerStands
      BY <3>2, <3>4, FailKeeps DEF LedgerStands
    <3>7. QED BY <3>2, <3>5, <3>6
  <2>3. QED BY <2>1, <2>2
<1>10. CASE AfterAck
  <2>1. ledger' = ledger /\ (act' = act \/ LatchActuator)
    BY <1>10 DEF AfterAck, shared
  <2>2. act'.acked = act.acked
    BY <2>1 DEF LatchActuator, Actuators
  <2>3. QED BY <1>0, <2>1, <2>2
<1>11. CASE Poll
  <2>1. ledger' = ledger /\ (act' = act \/ LatchActuator)
    BY <1>11 DEF Poll, shared
  <2>2. act'.acked = act.acked
    BY <2>1 DEF LatchActuator, Actuators
  <2>3. QED BY <1>0, <2>1, <2>2
<1>12. CASE InlineDisable
  <2>1. ledger' = ledger /\ act'.acked = act.acked
    BY <1>12 DEF InlineDisable, shared, Actuators
  <2>2. QED BY <1>0, <2>1
<1>13. CASE NormalDisable
  <2>1. ledger' = ledger /\ act'.acked = act.acked
    BY <1>13 DEF NormalDisable, DropTimers, shared, Actuators
  <2>2. QED BY <1>0, <2>1
<1>14. CASE PubLedger
  <2>1. /\ ledger' \in {ledger, Fail(ledger)}
        /\ act' = [act EXCEPT !.heartbeat = Never]
    BY <1>14 DEF PubLedger, DropTimers
  <2>2. act'.acked = act.acked
    BY <2>1 DEF Actuators
  <2>3. QED BY <1>0, <2>1, <2>2
<1>15. CASE FaultDisable
  <2>1. act' = act \/ \E b \in BOOLEAN :
          act' = [act EXCEPT !.state = "fault_latched", !.confirmed = b]
    BY <1>15 DEF FaultDisable
  <2>2. act'.acked = act.acked /\ ledger' = ledger
    BY <1>15, <2>1 DEF FaultDisable, shared, Actuators
  <2>3. QED BY <1>0, <2>2
<1>16. QED
  BY <1>1, <1>2, <1>3, <1>4, <1>5, <1>6, <1>7, <1>7b, <1>8, <1>9, <1>10, <1>11,
     <1>12, <1>13, <1>14, <1>15 DEF Worker

\* What the other threads of a run notice of a step of the worker.
LEMMA WorkerMoves ==
  ASSUME SharedTyped, OwnerTypeOK, HandInv, BarrierCourse, Worker
  PROVE  HandMoves
<1>1. /\ own \in Owners /\ act \in Actuators /\ ticket \in [Sequences1 -> Tickets]
      /\ tracking \in Trackings /\ writes \in [Sequences1 -> 0 .. 2]
      /\ ledger \in Ledgers /\ FaultCourse /\ FrameCourse
  BY DEF SharedTyped, OwnerTypeOK, HandInv
<1>2. QED
  BY <1>1, HandRequest, HandExecution, HandAnswers, HandFrames, HandStays, HandTail,
     HandSignals, HandCounts
  DEF HandMoves

\* The acknowledgement of the hand is the second one, so it commits.
LEMMA HandCommits ==
  ASSUME ledger \in Ledgers, BarrierCourse, Executing,
         ledger' = AcceptAck(ledger, "rh56")
  PROVE  /\ ledger'.committed = own.inflight /\ ledger'.acked = {}
         /\ ledger'.pending.seq = 0
         /\ own.inflight = ledger.pending.seq /\ own.inflight = ledger.committed + 1
<1>1. /\ own.inflight = ledger.pending.seq /\ "franka" \in ledger.acked
      /\ HasPending(ledger) /\ ledger.pending.seq = ledger.committed + 1
  BY DEF BarrierCourse
<1>2. ledger.acked \cup {"rh56"} = Consumers
  BY <1>1 DEF Ledgers, Consumers
<1>3. ledger' = [ledger EXCEPT !.previous = ledger.pending.executed,
                               !.committed = ledger.pending.seq,
                               !.pending = NoCommand, !.acked = {}]
  BY <1>2 DEF AcceptAck
<1>4. /\ ledger'.committed = ledger.pending.seq /\ ledger'.acked = {}
      /\ ledger'.pending = NoCommand
  BY <1>3 DEF Ledgers
<1>5. NoCommand.seq = 0
  BY DEF NoCommand
<1>6. QED BY <1>1, <1>4, <1>5

\* The worker's steps keep the invariant of the loop.
LEMMA HandStep ==
  ASSUME Inv, HandThread
  PROVE  Inv'
<1>1. /\ SharedTyped /\ OwnerTypeOK /\ FrankaTypeOK /\ PolicyTyped /\ HandInv
      /\ BarrierCourse /\ ArmCourse /\ RoundCourse /\ RecordCourse /\ StopCourse
      /\ EndCourse /\ Supervised /\ FrankaFirst /\ PassMeansCleanRun
  BY DEF Inv, LoopInv
<1>2. /\ Worker /\ fr' = fr /\ pol' = pol /\ external' = external
      /\ records' = records
  BY DEF HandThread
<1>3. SharedTyped' /\ OwnerTypeOK' /\ HandInv' /\ HandMoves
  BY <1>1, <1>2, WorkerKeeps, WorkerMoves
<1>4. /\ pc # "done" /\ RequestMoves /\ ExecutionMoves /\ AnswerMoves /\ FrameMoves
      /\ CountMoves /\ TailMoves /\ CallbackMoves /\ Supervised'
  BY <1>1, <1>3 DEF HandMoves, Supervised
<1>5. /\ own \in Owners /\ own' \in Owners /\ ledger \in Ledgers
      /\ ledger.committed \in 0 .. MaxSequence /\ MaxSequence \in Nat
      /\ ticket \in [Sequences1 -> Tickets]
  BY <1>1, <1>3, LoopAssumption DEF OwnerTypeOK, SharedTyped
<1>6. gate' = gate \/ gate'.state = "fault_latched"
  BY <1>1, <1>2, WorkerSignals, LatchedGate DEF SharedTyped, GateReasons
<1>7. /\ own.request \in 0 .. MaxSequence
      /\ own.request # 0 => own.request \in Sequences1
  BY <1>5 DEF Owners, Sequences1
<1>8. FrankaTypeOK' /\ PolicyTypeOK'
  BY <1>1, <1>2 DEF FrankaTypeOK, PolicyTyped, PolicyTypeOK
<1>9. FrankaFirst'
  <2>1. ASSUME NEW n \in Sequences1, writes'[n] > 0
        PROVE  fr.acked >= n
    <3>1. CASE writes[n] > 0
      BY <1>1, <3>1 DEF FrankaFirst
    <3>2. CASE Executing /\ n = own.inflight
      <4>1. "franka" \in ledger.acked /\ n = ledger.pending.seq
        BY <1>1, <3>2 DEF BarrierCourse
      <4>2. QED BY <1>1, <4>1, <2>1, LoopAssumption DEF ArmCourse, Sequences1
    <3>3. QED BY <1>4, <2>1, <3>1, <3>2 DEF FrameMoves
  <2>2. QED BY <1>2, <2>1 DEF FrankaFirst
<1>10. PassMeansCleanRun'
  BY <1>1, <1>2, <1>4 DEF PassMeansCleanRun
<1>10a. pc' \in {"uninflight", "complete"} => /\ act'.acked # 0
                                              /\ ticket'[act'.acked] # "receipt"
                                              /\ HandedOver'
  <2> SUFFICES ASSUME pc' \in {"uninflight", "complete"}
               PROVE  /\ act'.acked # 0 /\ ticket'[act'.acked] # "receipt"
                      /\ HandedOver
    BY <1>2 DEF HandedOver
  <2>1. ticket' = ticket
    BY <1>4 DEF TailMoves
  <2>2. CASE pc = "ack" /\ act'.acked = own.inflight
    <3>1. own.inflight = act.acked + 1 /\ act.acked = ledger.committed /\ HandedOver
      BY <1>1, <2>2 DEF HandInv, FrameCourse, BarrierCourse, Executing
    <3>2. own.inflight \in Sequences1 /\ ~(own.inflight <= ledger.committed)
      BY <1>5, <3>1 DEF Owners, Sequences1
    <3>3. QED BY <1>1, <1>5, <2>1, <2>2, <3>1, <3>2 DEF BarrierCourse
  <2>3. CASE pc = "uninflight" /\ act'.acked = act.acked
    BY <1>1, <2>1, <2>3 DEF BarrierCourse
  <2>4. QED BY <1>4, <2>2, <2>3 DEF TailMoves
<1>10b. EndCourse'
  <2>1. gate'.state = "armed" => gate'.auth = RunAuthorization
    BY <1>1, <1>6 DEF EndCourse
  <2>2. ~pol.failed /\ pol.pc \in Ending => tracking'.state \in {"idle", "verified"}
    <3>1. ~pol.failed /\ pol.pc \in Ending => tracking.state \in {"idle", "verified"}
      BY <1>1 DEF EndCourse
    <3>2. ~pol.failed /\ pol.pc \in Ending => pc # "uninflight"
      BY <1>1 DEF BarrierCourse, HandedOver, Ending, Stops
    <3>3. QED BY <1>4, <3>1, <3>2 DEF TailMoves
  <2>3. QED BY <1>1, <1>2, <1>4, <2>1, <2>2 DEF EndCourse, FrankaDone
<1>10c. /\ ~external' /\ (stopEvent => stopEvent')
        /\ pc' \in {"pub_gate", "pub_stop"} => callbackFault'
        /\ stopEvent' => callbackFault' \/ stopEvent
        /\ callbackFault => callbackFault'
  BY <1>1, <1>2, <1>4, WorkerSignals DEF StopCourse, CallbackMoves
<1>11. CASE LedgerStands /\ act'.acked = act.acked
  <2>1. BarrierCourse'
    <3>1. HasPending(ledger)' = HasPending(ledger)
      BY <1>11 DEF LedgerStands, HasPending
    <3>2. HandedOver' = HandedOver
      BY <1>2 DEF HandedOver
    <3>3. own'.request # 0 =>
            /\ own'.request = ledger'.pending.seq
            /\ "franka" \in ledger'.acked
            /\ ticket'[own'.request] = "queued"
            /\ HandedOver'
      BY <1>1, <1>4, <1>11, <3>2 DEF LedgerStands, RequestMoves, BarrierCourse
    <3>4. Executing' => /\ own'.request = 0
                        /\ own'.inflight = ledger'.pending.seq
                        /\ "franka" \in ledger'.acked
                        /\ HandedOver'
      BY <1>1, <1>4, <1>11, <3>2
      DEF LedgerStands, RequestMoves, ExecutionMoves, BarrierCourse
    <3>5. \A n \in Sequences1 : ticket'[n] = "receipt" => n <= ledger'.committed
      BY <1>1, <1>4, <1>5, <1>11 DEF LedgerStands, AnswerMoves, BarrierCourse
    <3>6. QED
      BY <1>1, <1>10a, <1>11, <3>1, <3>3, <3>4, <3>5 DEF LedgerStands, BarrierCourse
  <2>2. ArmCourse'
    BY <1>1, <1>2, <1>6, <1>11 DEF LedgerStands, ArmCourse
  <2>3. RoundCourse' /\ RecordCourse'
    BY <1>1, <1>2, <1>11 DEF LedgerStands, RoundCourse, RecordCourse, HasPending
  <2>4. PolicyTyped'
    BY <1>1, <1>2, <1>8, <1>11 DEF LedgerStands, PolicyTyped
  <2>5. StopCourse'
    <3>1. stopEvent' => callbackFault' \/ pol'.pc \in Ending \ {"exc_gate", "stop_loop"}
      BY <1>1, <1>2, <1>10c DEF StopCourse
    <3>2. pol'.pc = "release_recheck" => stopEvent'
      BY <1>1, <1>2, <1>10c DEF StopCourse
    <3>3. ledger'.committed = ledger.committed
      BY <1>11 DEF LedgerStands
    <3>4. QED BY <1>1, <1>2, <1>10c, <3>1, <3>2, <3>3 DEF StopCourse
  <2>6. QED
    BY <1>3, <1>4, <1>8, <1>9, <1>10, <1>10b, <2>1, <2>2, <2>3, <2>4, <2>5
    DEF Inv, LoopInv
<1>12. CASE /\ Executing /\ ~Executing' /\ HasPending(ledger)
            /\ act'.acked = own.inflight
            /\ ledger' = AcceptAck(ledger, "rh56")
  <2>1. /\ ledger'.committed = own.inflight /\ ledger'.acked = {}
        /\ ledger'.pending.seq = 0
        /\ own.inflight = ledger.pending.seq /\ own.inflight = ledger.committed + 1
    BY <1>1, <1>5, <1>12, HandCommits
  <2>2. /\ own.request = 0 /\ "franka" \in ledger.acked /\ HandedOver
        /\ act.acked = ledger.committed
    BY <1>1, <1>12 DEF BarrierCourse
  <2>3. own'.request = 0
    BY <1>4, <2>2 DEF RequestMoves
  <2>4. BarrierCourse'
    <3>1. \A n \in Sequences1 : ticket'[n] = "receipt" => n <= ledger'.committed
      <4>1. ASSUME NEW n \in Sequences1, ticket'[n] = "receipt"
            PROVE  n <= ledger.committed
        <5>1. ticket[n] = "receipt" \/ n = act.acked
          BY <1>4, <4>1 DEF AnswerMoves
        <5>2. QED BY <1>1, <1>5, <2>2, <5>1 DEF BarrierCourse
      <4>2. QED BY <1>5, <2>1, <4>1 DEF Sequences1
    <3>2. QED BY <1>10a, <1>12, <2>1, <2>3, <3>1 DEF BarrierCourse, HasPending
  <2>5. ArmCourse'
    <3>1. ledger'.committed <= fr.acked /\ ledger'.acked = {}
      BY <1>1, <1>5, <2>1, <2>2 DEF ArmCourse, FrankaTypeOK, Sessions
    <3>2. QED BY <1>1, <1>2, <1>6, <3>1 DEF ArmCourse
  <2>6. pol.pc \in {"ticket", "exc_ledger"} \/ (pol.failed /\ pol.pc \in Ending)
    <3>1. pol.failed => pol.pc \in Ending
      BY <1>1 DEF RoundCourse
    <3>2. QED BY <2>2, <3>1 DEF HandedOver
  <2>7. RoundCourse'
    <3>1. ~HasPending(ledger)'
      BY <2>1 DEF HasPending
    <3>2. pol.pc = "ticket" => ledger'.committed = pol.cmd.seq
      BY <1>1, <1>12, <2>1 DEF RoundCourse
    <3>3. QED BY <1>1, <1>2, <2>6, <3>1, <3>2
      DEF RoundCourse, Ending, Stops, RoundStart, Releases, Final
  <2>8. RecordCourse'
    BY <1>1, <1>2, <2>6 DEF RecordCourse, Ending, Stops, RoundStart, Releases, Final
  <2>9. PolicyTyped'
    BY <1>1, <1>2, <1>8, <2>6 DEF PolicyTyped, Ending, Stops, RoundStart, Releases
  <2>10. StopCourse'
    <3>1. ~pol.final
      <4>1. own.inflight \in 0 .. MaxSequence
        BY <1>5 DEF Owners
      <4>2. ledger.committed # MaxSequence
        BY <1>5, <2>1, <4>1
      <4>3. QED BY <1>1, <4>2 DEF StopCourse
    <3>2. ~(~pol.failed /\ pol.pc \in Final \cup Ending)
      BY <2>6 DEF Final, Ending, Stops
    <3>3. stopEvent' => callbackFault' \/ pol'.pc \in Ending \ {"exc_gate", "stop_loop"}
      BY <1>1, <1>2, <1>10c DEF StopCourse
    <3>4. pol'.pc = "release_recheck" => stopEvent'
      BY <1>1, <1>2, <1>10c DEF StopCourse
    <3>5. QED BY <1>1, <1>2, <1>10c, <3>1, <3>2, <3>3, <3>4 DEF StopCourse
  <2>11. QED
    BY <1>3, <1>4, <1>8, <1>9, <1>10, <1>10b, <2>4, <2>5, <2>7, <2>8, <2>9, <2>10
    DEF Inv, LoopInv
<1>13. QED BY <1>4, <1>11, <1>12 DEF CountMoves

(* the arm's owner in the loop --------------------------------------------------- *)

\* A step of the arm's owner that leaves its own course in order, and owns up to
\* what it did to the ledger, keeps the rest.
LEMMA ArmKeeps ==
  ASSUME Inv, UNCHANGED <<ownerVars, pol, external, records>>,
         UNCHANGED <<now, hold, stopEvent, cleanStop, callbackFault>>,
         gate' = gate \/ gate' = LatchGate(gate, "external"),
         ledger' \in Ledgers, ledger'.committed = ledger.committed,
         ledger'.pending = ledger.pending,
         ledger'.acked = ledger.acked
           \/ (ledger'.acked = ledger.acked \cup {"franka"} /\ HasPending(ledger)),
         fr.pc # "done", FrankaTypeOK', ArmCourse', fr'.acked >= fr.acked
  PROVE  Inv'
<1>1. /\ SharedTyped /\ OwnerTypeOK /\ FrankaTypeOK /\ PolicyTyped /\ HandInv
      /\ BarrierCourse /\ ArmCourse /\ RoundCourse /\ RecordCourse /\ StopCourse
      /\ EndCourse /\ Supervised /\ FrankaFirst /\ PassMeansCleanRun
  BY DEF Inv, LoopInv
<1>2. /\ UNCHANGED <<own, act, pc, why, ticket, lastFeedback, tracking, port, writes>>
      /\ UNCHANGED <<pol, external, records, stopEvent, cleanStop, callbackFault>>
  BY DEF ownerVars
<1>3. /\ gate' \in Gates /\ SignalsStay
      /\ gate' = gate \/ gate'.state = "fault_latched"
  <2>1. gate \in Gates /\ "external" \in GateReasons
    BY <1>1 DEF SharedTyped, GateReasons
  <2>2. /\ LatchGate(gate, "external") \in Gates
        /\ LatchGate(gate, "external").state = "fault_latched"
    BY <2>1, LatchedGate
  <2>3. QED BY <1>2, <2>1, <2>2 DEF SignalsStay
<1>4. SharedTyped'
  BY <1>1, <1>3 DEF SharedTyped
<1>5. BarrierMoves
  BY DEF BarrierMoves
<1>6. OwnerTypeOK' /\ HandInv'
  BY <1>1, <1>2, <1>3, <1>5, OthersKeep DEF OwnerTypeOK
<1>7. PolicyTyped'
  BY <1>1, <1>2 DEF PolicyTyped, PolicyTypeOK
<1>8. BarrierCourse'
  BY <1>1, <1>2 DEF BarrierCourse, HasPending, Executing, HandedOver
<1>9. RoundCourse' /\ RecordCourse'
  BY <1>1, <1>2 DEF RoundCourse, RecordCourse, HasPending
<1>10. EndCourse'
  <2>1. gate'.state = "armed" => gate'.auth = RunAuthorization
    BY <1>1, <1>3 DEF EndCourse
  <2>2. ~(~pol.errors /\ pol.pc = "verdict")
    BY <1>1 DEF EndCourse, FrankaDone
  <2>3. ~pol.errors /\ pol.pc \in {"join_arm", "verdict"} =>
          pc' = "done" /\ HandProven' /\ ~own'.fault
    BY <1>1, <1>2 DEF EndCourse, HandProven, DisabledVerified, Supervised
  <2>4. QED BY <1>1, <1>2, <2>1, <2>2, <2>3 DEF EndCourse
<1>10a. StopCourse' /\ Supervised'
  BY <1>1, <1>2 DEF StopCourse, Supervised
<1>11. FrankaFirst'
  <2>1. fr.acked \in Nat /\ fr'.acked \in Nat
    BY <1>1, LoopAssumption DEF FrankaTypeOK, Sessions
  <2>2. ASSUME NEW n \in Sequences1, writes'[n] > 0
        PROVE  fr'.acked >= n
    <3>1. fr.acked >= n
      BY <1>1, <1>2, <2>2 DEF FrankaFirst
    <3>2. n \in Nat
      BY LoopAssumption DEF Sequences1
    <3>3. QED BY <2>1, <3>1, <3>2
  <2>3. QED BY <2>2 DEF FrankaFirst
<1>12. PassMeansCleanRun'
  BY <1>1, <1>2 DEF PassMeansCleanRun, FrankaDone
<1>13. QED
  BY <1>4, <1>6, <1>7, <1>8, <1>9, <1>10, <1>10a, <1>11, <1>12 DEF Inv, LoopInv

\* The loop raises.
LEMMA RaisesEffect ==
  ASSUME fr \in Sessions, Raises
  PROVE  /\ fr' \in Sessions /\ fr'.pc = "fail_ledger" /\ fr'.failed
         /\ fr'.current = fr.current /\ fr'.acked = fr.acked /\ fr'.late = fr.late
<1>1. /\ NoTarget \in [seq : 0 .. MaxSequence, produced : 0 .. MaxTime]
      /\ 0 \in 0 .. MaxTime
  BY LoopAssumption DEF NoTarget
<1>2. Dropped = [fr EXCEPT !.read = 0, !.target = NoTarget]
  BY DEF Dropped
<1>3. /\ Dropped \in Sessions
      /\ Dropped.current = fr.current /\ Dropped.acked = fr.acked
      /\ Dropped.late = fr.late
  BY <1>1, <1>2 DEF Sessions
<1> HIDE DEF Dropped
<1>4. fr' = [Dropped EXCEPT !.pc = "fail_ledger", !.failed = TRUE]
  BY DEF Raises
<1>5. QED BY <1>3, <1>4 DEF Sessions, FrankaSteps

\* It goes on to another step.
LEMMA AdvancesEffect ==
  ASSUME fr \in Sessions, NEW step \in FrankaSteps, Advances(step)
  PROVE  /\ fr' \in Sessions /\ fr'.pc = step
         /\ fr'.failed = fr.failed /\ fr'.stopped = fr.stopped
         /\ fr'.current = fr.current /\ fr'.acked = fr.acked /\ fr'.late = fr.late
BY DEF Advances, Sessions

\* Neither of them disturbs the course of the arm where the barrier stands.
LEMMA RaisesKeeps ==
  ASSUME FrankaTypeOK, ArmCourse, LedgerStands, gate' = gate, Raises
  PROVE  FrankaTypeOK' /\ ArmCourse' /\ fr'.failed /\ fr'.acked >= fr.acked
<1>1. fr \in Sessions
  BY DEF FrankaTypeOK
<1>2. /\ fr' \in Sessions /\ fr'.pc = "fail_ledger" /\ fr'.failed
      /\ fr'.current = fr.current /\ fr'.acked = fr.acked /\ fr'.late = fr.late
  BY <1>1, RaisesEffect
<1>3. fr.acked \in Nat
  BY <1>1, LoopAssumption DEF Sessions
<1>4. QED BY <1>2, <1>3 DEF FrankaTypeOK, ArmCourse, LedgerStands

\* The arm's steps keep the invariant of the loop.
LEMMA ArmStep ==
  ASSUME Inv, ArmThread
  PROVE  Inv'
<1>1. /\ SharedTyped /\ FrankaTypeOK /\ fr \in Sessions
      /\ BarrierCourse /\ ArmCourse
      /\ ledger \in Ledgers /\ now \in 0 .. MaxTime
      /\ ledger.pending.seq \in 0 .. MaxSequence
      /\ hold \in [seq : 0 .. MaxSequence, produced : 0 .. MaxTime]
      /\ 0 \in 0 .. MaxTime /\ fr.acked \in Nat /\ fr.current \in Nat
  BY LoopAssumption DEF Inv, LoopInv, SharedTyped, FrankaTypeOK, Sessions
<1>2. Franka /\ UNCHANGED <<ownerVars, pol, external, records>>
  BY DEF ArmThread
<1>3. ASSUME UNCHANGED shared, fr.pc \notin {"done", "stop_gate"},
             FrankaTypeOK', ArmCourse', fr'.acked >= fr.acked,
             fr.failed => fr'.failed
      PROVE  Inv'
  <2>1. /\ UNCHANGED <<now, hold, stopEvent, cleanStop, callbackFault>>
        /\ gate' = gate /\ ledger' = ledger
    BY <1>3 DEF shared
  <2>2. QED BY <1>1, <1>2, <1>3, <2>1, ArmKeeps
<1>4. ASSUME UNCHANGED shared, fr.pc \notin {"done", "stop_gate"}, Raises
      PROVE  Inv'
  <2>1. LedgerStands /\ gate' = gate
    BY <1>4 DEF shared, LedgerStands
  <2>2. QED BY <1>1, <1>3, <1>4, <2>1, RaisesKeeps
<1>5. ASSUME UNCHANGED shared, NEW step \in {"read", "stop", "regate", "write"},
             fr.pc \notin {"done", "stop_gate"}, Advances(step),
             ~fr.failed, fr.late => step \in {"regate", "stop"}
      PROVE  Inv'
  <2>1. /\ fr' \in Sessions /\ fr'.pc = step
        /\ fr'.failed = fr.failed /\ fr'.stopped = fr.stopped
        /\ fr'.current = fr.current /\ fr'.acked = fr.acked /\ fr'.late = fr.late
    BY <1>1, <1>5, AdvancesEffect DEF FrankaSteps
  <2>2. ledger' = ledger /\ gate' = gate
    BY <1>5 DEF shared
  <2>3. FrankaTypeOK' /\ ArmCourse'
    BY <1>1, <1>5, <2>1, <2>2 DEF FrankaTypeOK, ArmCourse
  <2>4. QED BY <1>1, <1>3, <1>5, <2>1, <2>3
<1>6. CASE Cycle
  <2>1. /\ fr.pc = "cycle" /\ UNCHANGED shared
        /\ Advances("stop") \/ Advances("read") \/ Raises
    BY <1>6 DEF Cycle
  <2>2. ~fr.failed /\ ~fr.late
    BY <1>1, <2>1 DEF ArmCourse
  <2>3. QED BY <1>4, <1>5, <2>1, <2>2
<1>7. CASE Read
  <2>1. /\ fr.pc = "read" /\ UNCHANGED shared
        /\ fr' = [fr EXCEPT !.pc = "sample", !.read = now] \/ Raises
    BY <1>7 DEF Read
  <2>2. ~fr.failed /\ ~fr.late
    BY <1>1, <2>1 DEF ArmCourse
  <2>3. CASE fr' = [fr EXCEPT !.pc = "sample", !.read = now]
    <3>1. /\ fr' \in Sessions /\ fr'.pc = "sample" /\ fr'.failed = fr.failed
          /\ fr'.current = fr.current /\ fr'.acked = fr.acked /\ fr'.late = fr.late
      BY <1>1, <2>3 DEF Sessions, FrankaSteps
    <3>2. FrankaTypeOK' /\ ArmCourse'
      BY <1>1, <2>1, <2>2, <3>1 DEF FrankaTypeOK, ArmCourse, shared
    <3>3. QED BY <1>1, <1>3, <2>1, <3>1, <3>2
  <2>4. QED BY <1>4, <2>1, <2>3
<1>8. CASE Sample
  <2>1. /\ fr.pc = "sample" /\ UNCHANGED shared
        /\ \/ Advances("regate") \/ Raises
           \/ \E step \in {"admit", "regate"} :
                fr' = [fr EXCEPT !.target = hold, !.pc = step]
    BY <1>8 DEF Sample
  <2>2. ~fr.failed /\ ~fr.late
    BY <1>1, <2>1 DEF ArmCourse
  <2>3. CASE \E step \in {"admit", "regate"} :
               fr' = [fr EXCEPT !.target = hold, !.pc = step]
    <3>1. PICK step \in {"admit", "regate"} :
            fr' = [fr EXCEPT !.target = hold, !.pc = step]
      BY <2>3
    <3>2. /\ fr' \in Sessions /\ fr'.pc = step /\ fr'.failed = fr.failed
          /\ fr'.current = fr.current /\ fr'.acked = fr.acked /\ fr'.late = fr.late
      BY <1>1, <3>1 DEF Sessions, FrankaSteps
    <3>3. FrankaTypeOK' /\ ArmCourse'
      BY <1>1, <2>1, <2>2, <3>2 DEF FrankaTypeOK, ArmCourse, shared
    <3>4. QED BY <1>1, <1>3, <2>1, <3>2, <3>3
  <2>4. QED BY <1>4, <1>5, <2>1, <2>2, <2>3
<1>9. CASE Admit
  <2>1. fr.pc = "admit" /\ UNCHANGED shared
    BY <1>9 DEF Admit
  <2>2. ~fr.failed /\ ~fr.late
    BY <1>1, <2>1 DEF ArmCourse
  <2>3. CASE Raises
    BY <1>4, <2>1, <2>3
  <2>4. CASE ~Raises
    <3>1. /\ FollowsLedger
          /\ fr' = [fr EXCEPT !.pc = "regate", !.current = fr.target.seq,
                              !.late = gate.state # "armed"]
      BY <1>9, <2>4 DEF Admit
    <3>2. fr.target.seq = fr.current + 1 /\ fr.target.seq \in 0 .. MaxSequence
      BY <1>1, <3>1 DEF FollowsLedger
    <3>3. PICK b \in BOOLEAN : b = (gate.state # "armed")
      OBVIOUS
    <3>4. fr' = [fr EXCEPT !.pc = "regate", !.current = fr.target.seq, !.late = b]
      BY <3>1, <3>3
    <3>5. /\ fr' \in Sessions /\ fr'.pc = "regate" /\ fr'.failed = fr.failed
          /\ fr'.current = fr.current + 1 /\ fr'.acked = fr.acked
          /\ fr'.late = b
      BY <1>1, <3>2, <3>4 DEF Sessions, FrankaSteps
    <3>6. fr.acked <= fr.current
      BY <1>1 DEF ArmCourse
    <3>7. fr.acked <= fr.current + 1 /\ fr.acked < fr.current + 1
      BY <1>1, <3>6
    <3>8. ledger' = ledger /\ gate' = gate
      BY <2>1 DEF shared
    <3>9. FrankaTypeOK' /\ ArmCourse'
      BY <1>1, <2>2, <3>3, <3>5, <3>7, <3>8 DEF FrankaTypeOK, ArmCourse
    <3>10. QED BY <1>1, <1>3, <2>1, <2>2, <3>5, <3>9
  <2>5. QED BY <2>3, <2>4
<1>10. CASE Regate
  <2>1. /\ fr.pc = "regate" /\ UNCHANGED shared
        /\ Raises \/ (MotionPermitted /\ Advances("write"))
    BY <1>10 DEF Regate
  <2>2. ~fr.failed
    BY <1>1, <2>1 DEF ArmCourse
  <2>3. MotionPermitted => ~fr.late
    BY <1>1, <2>1 DEF ArmCourse, MotionPermitted, MotionAllowed
  <2>4. QED BY <1>4, <1>5, <2>1, <2>2, <2>3
<1>11. CASE WriteOnce
  <2>1. /\ fr.pc = "write" /\ UNCHANGED shared
        /\ Raises \/ fr' = [fr EXCEPT !.pc = "ack"]
    BY <1>11 DEF WriteOnce
  <2>2. ~fr.failed /\ ~fr.late
    BY <1>1, <2>1 DEF ArmCourse
  <2>3. CASE fr' = [fr EXCEPT !.pc = "ack"]
    <3>1. /\ fr' \in Sessions /\ fr'.pc = "ack" /\ fr'.failed = fr.failed
          /\ fr'.current = fr.current /\ fr'.acked = fr.acked /\ fr'.late = fr.late
      BY <1>1, <2>3 DEF Sessions, FrankaSteps
    <3>2. FrankaTypeOK' /\ ArmCourse'
      BY <1>1, <2>1, <2>2, <3>1 DEF FrankaTypeOK, ArmCourse, shared
    <3>3. QED BY <1>1, <1>3, <2>1, <3>1, <3>2
  <2>4. QED BY <1>4, <2>1, <2>3
<1>12. CASE AckOnce
  <2>1. fr.pc = "ack" /\ UNCHANGED <<gate, now, hold, stopEvent, cleanStop,
         callbackFault>>
    BY <1>12 DEF AckOnce
  <2>2. ~fr.failed /\ ~fr.late
    BY <1>1, <2>1 DEF ArmCourse
  <2>3. PICK d : d = [fr EXCEPT !.read = 0, !.target = NoTarget]
    OBVIOUS
  <2>4. /\ d \in Sessions /\ d.failed = fr.failed
        /\ d.current = fr.current /\ d.acked = fr.acked /\ d.late = fr.late
    <3>1. NoTarget \in [seq : 0 .. MaxSequence, produced : 0 .. MaxTime]
      BY LoopAssumption DEF NoTarget
    <3>2. QED BY <1>1, <2>3, <3>1 DEF Sessions
  <2>5. CASE Raises /\ LedgerStands /\ ledger' \in Ledgers
    <3>1. FrankaTypeOK' /\ ArmCourse' /\ fr'.failed /\ fr'.acked >= fr.acked
      BY <1>1, <2>1, <2>5, RaisesKeeps
    <3>2. QED BY <1>1, <1>2, <2>1, <2>5, <3>1, ArmKeeps DEF LedgerStands
  <2>6. CASE ledger' = ledger /\ fr' = [d EXCEPT !.pc = "cycle"]
    <3>1. /\ fr' \in Sessions /\ fr'.pc = "cycle" /\ fr'.failed = fr.failed
          /\ fr'.current = fr.current /\ fr'.acked = fr.acked /\ fr'.late = fr.late
      BY <2>4, <2>6 DEF Sessions, FrankaSteps
    <3>2. FrankaTypeOK' /\ ArmCourse'
      BY <1>1, <2>1, <2>2, <2>6, <3>1 DEF FrankaTypeOK, ArmCourse
    <3>3. UNCHANGED shared
      BY <2>1, <2>6 DEF shared
    <3>4. QED BY <1>1, <1>3, <2>1, <3>1, <3>2, <3>3
  <2>7. CASE /\ AckAccepts(ledger, fr.current, now)
             /\ ledger' = Acknowledge(ledger, "franka", fr.current, now)
             /\ fr' = [d EXCEPT !.pc = "cycle", !.acked = fr.current]
    <3>1. /\ HasPending(ledger) /\ fr.current = ledger.pending.seq
          /\ ledger' = AcceptAck(ledger, "franka")
      BY <1>1, <2>7, AckEffect DEF Consumers
    <3>2. ledger.acked \cup {"franka"} # Consumers
      BY <1>1 DEF BarrierCourse, Consumers
    <3>3. ledger' = [ledger EXCEPT !.acked = @ \cup {"franka"}]
      BY <3>1, <3>2 DEF AcceptAck
    <3>4. /\ ledger' \in Ledgers /\ ledger'.committed = ledger.committed
          /\ ledger'.pending = ledger.pending
          /\ ledger'.acked = ledger.acked \cup {"franka"}
          /\ Healthy(ledger') = Healthy(ledger)
      BY <1>1, <3>3 DEF Ledgers, Consumers, Healthy
    <3>5. /\ fr' \in Sessions /\ fr'.pc = "cycle" /\ fr'.failed = fr.failed
          /\ fr'.current = fr.current /\ fr'.acked = fr.current /\ fr'.late = fr.late
      BY <1>1, <2>4, <2>7 DEF Sessions, FrankaSteps
    <3>6. ledger.committed <= fr.acked /\ fr.acked <= fr.current
      BY <1>1 DEF ArmCourse
    <3>7. ledger.committed <= fr.current /\ fr.current <= fr.current
          /\ fr.current >= fr.acked
      BY <1>1, <3>6 DEF Ledgers
    <3>8. FrankaTypeOK' /\ ArmCourse'
      BY <2>1, <2>2, <3>1, <3>4, <3>5, <3>7 DEF FrankaTypeOK, ArmCourse
    <3>9. QED BY <1>1, <1>2, <2>1, <2>2, <3>1, <3>4, <3>5, <3>7, <3>8, ArmKeeps
  <2>8. CASE /\ ~AckAccepts(ledger, fr.current, now)
             /\ ledger' = Acknowledge(ledger, "franka", fr.current, now) /\ Raises
    <3>1. \/ ledger' = ledger
          \/ \E r \in FaultReasons : ledger' = Latch(ledger, r)
      BY <1>1, <2>8, AckEffect DEF Consumers
    <3>2. LedgerStands /\ ledger' \in Ledgers
      BY <1>1, <3>1, LatchKeeps DEF LedgerStands
    <3>3. QED BY <2>5, <2>8, <3>2
  <2>9. ledger' = ledger => LedgerStands /\ ledger' \in Ledgers
    BY <1>1 DEF LedgerStands
  <2>10. Dropped = d
    BY <2>3 DEF Dropped
  <2>11. QED BY <1>12, <2>5, <2>6, <2>7, <2>8, <2>9, <2>10 DEF AckOnce
<1>13. CASE FailLedger
  <2>1. /\ UNCHANGED <<gate, now, hold, stopEvent, cleanStop, callbackFault>>
        /\ ledger' = Fail(ledger)
        /\ \/ fr.pc = "fail_ledger" /\ Advances("fail_gate")
           \/ fr.pc = "stop_ledger" /\ Advances("stop_gate")
    BY <1>13 DEF FailLedger
  <2>2. /\ fr' \in Sessions /\ fr'.failed = fr.failed
        /\ \/ fr.pc = "fail_ledger" /\ fr'.pc = "fail_gate"
           \/ fr.pc = "stop_ledger" /\ fr'.pc = "stop_gate"
        /\ fr'.current = fr.current /\ fr'.acked = fr.acked /\ fr'.late = fr.late
    BY <1>1, <2>1, AdvancesEffect DEF FrankaSteps
  <2>3. LedgerStands /\ ledger' \in Ledgers
    BY <1>1, <2>1, FailKeeps DEF LedgerStands
  <2>4. FrankaTypeOK' /\ ArmCourse'
    BY <1>1, <2>1, <2>2, <2>3 DEF FrankaTypeOK, ArmCourse, LedgerStands
  <2>5. QED BY <1>1, <1>2, <2>1, <2>2, <2>3, <2>4, ArmKeeps DEF LedgerStands
<1>14. CASE FailGate
  <2>1. /\ UNCHANGED <<ledger, now, hold, stopEvent, cleanStop, callbackFault>>
        /\ gate' = LatchGate(gate, "external")
        /\ fr.pc \in {"fail_gate", "stop_gate"}
        /\ \E step \in {"stop", "done"} :
             fr' = [fr EXCEPT !.pc = step, !.failed = TRUE]
    BY <1>14 DEF FailGate
  <2>2. PICK step \in {"stop", "done"} : fr' = [fr EXCEPT !.pc = step, !.failed = TRUE]
    BY <2>1
  <2>3. /\ fr' \in Sessions /\ fr'.failed /\ fr'.pc = step
        /\ fr'.current = fr.current /\ fr'.acked = fr.acked /\ fr'.late = fr.late
    BY <1>1, <2>2 DEF Sessions, FrankaSteps
  <2>4. gate'.state = "fault_latched"
    BY <1>1, <2>1, LatchedGate DEF SharedTyped, GateReasons
  <2>5. FrankaTypeOK' /\ ArmCourse'
    BY <1>1, <2>1, <2>3, <2>4 DEF FrankaTypeOK, ArmCourse
  <2>6. QED BY <1>1, <1>2, <2>1, <2>3, <2>5, ArmKeeps
<1>15. CASE StopBackend
  <2>1. /\ fr.pc = "stop" /\ UNCHANGED shared
        /\ \E b \in BOOLEAN, step \in {"done", "stop_ledger"} :
             fr' = [fr EXCEPT !.stopped = b, !.pc = step]
    <3>1. PICK finishes, requested, verified, closes \in BOOLEAN :
            fr' = [fr EXCEPT !.stopped = requested /\ verified,
                             !.pc = IF finishes /\ requested /\ verified /\ closes
                                    THEN "done" ELSE "stop_ledger"]
      BY <1>15 DEF StopBackend
    <3>2. PICK b \in BOOLEAN : b = (requested /\ verified)
      OBVIOUS
    <3>3. PICK step \in {"done", "stop_ledger"} :
            step = (IF finishes /\ requested /\ verified /\ closes
                    THEN "done" ELSE "stop_ledger")
      OBVIOUS
    <3>4. fr' = [fr EXCEPT !.stopped = b, !.pc = step]
      BY <3>1, <3>2, <3>3
    <3>5. QED BY <1>15, <3>4 DEF StopBackend
  <2>2. PICK b \in BOOLEAN, step \in {"done", "stop_ledger"} :
          fr' = [fr EXCEPT !.stopped = b, !.pc = step]
    BY <2>1
  <2>3. /\ fr' \in Sessions /\ fr'.pc = step /\ fr'.failed = fr.failed
        /\ fr'.current = fr.current /\ fr'.acked = fr.acked /\ fr'.late = fr.late
    BY <1>1, <2>2 DEF Sessions, FrankaSteps
  <2>4. FrankaTypeOK' /\ ArmCourse'
    BY <1>1, <2>1, <2>3 DEF FrankaTypeOK, ArmCourse, shared
  <2>5. QED BY <1>1, <1>3, <2>1, <2>3, <2>4
<1>16. QED
  BY <1>2, <1>6, <1>7, <1>8, <1>9, <1>10, <1>11, <1>12, <1>13, <1>14, <1>15
  DEF Franka

(* the policy thread ---------------------------------------------------------- *)

\* The parts of the invariant, with the types that the steps below need.
LEMMA InvParts ==
  ASSUME Inv
  PROVE  /\ SharedTyped /\ OwnerTypeOK /\ FrankaTypeOK /\ PolicyTyped /\ HandInv
         /\ BarrierCourse /\ ArmCourse /\ RoundCourse /\ RecordCourse /\ StopCourse
         /\ EndCourse /\ Supervised /\ FrankaFirst /\ PassMeansCleanRun
         /\ pol \in Policies /\ external \in BOOLEAN /\ records \subseteq Sequences1
         /\ ledger \in Ledgers /\ ledger.committed \in 0 .. MaxSequence
         /\ ledger.pending.seq \in 0 .. MaxSequence
         /\ gate \in Gates /\ now \in 0 .. MaxTime
         /\ hold \in [seq : 0 .. MaxSequence, produced : 0 .. MaxTime]
         /\ stopEvent \in BOOLEAN /\ cleanStop \in BOOLEAN
         /\ own \in Owners /\ ticket \in [Sequences1 -> Tickets]
         /\ fr.acked \in Nat /\ fr.current \in Nat /\ act.acked \in Nat
BY LoopAssumption
DEF Inv, LoopInv, PolicyTyped, PolicyTypeOK, SharedTyped, OwnerTypeOK, FrankaTypeOK,
    Sessions, Actuators

\* A step that does not touch the owner.
LEMMA AloneStands ==
  ASSUME Inv, UNCHANGED ownerVars, UNCHANGED <<now, callbackFault>>,
         stopEvent' \in BOOLEAN, stopEvent => stopEvent',
         hold' \in [seq : 0 .. MaxSequence, produced : 0 .. MaxTime],
         cleanStop' \in BOOLEAN, cleanStop => cleanStop',
         gate' = gate \/ gate' = LatchGate(gate, "external"),
         ledger' \in Ledgers, LedgerStands
  PROVE  HandStands
<1>1. /\ SharedTyped /\ OwnerTypeOK /\ HandInv /\ gate \in Gates
  BY InvParts
<1>2. /\ LatchGate(gate, "external") \in Gates
      /\ LatchGate(gate, "external").state = "fault_latched"
  BY <1>1, LatchedGate DEF GateReasons
<1>3. SharedTyped'
  BY <1>1, <1>2 DEF SharedTyped, LedgerStands
<1>4. BarrierMoves
  BY DEF BarrierMoves, LedgerStands
<1>5. SignalsStay /\ (gate' = gate \/ gate'.state = "fault_latched")
  BY <1>2 DEF SignalsStay
<1>6. OwnerTypeOK' /\ HandInv'
  BY <1>1, <1>4, <1>5, OthersKeep DEF OwnerTypeOK, ownerVars
<1>7. QED BY <1>3, <1>5, <1>6 DEF HandStands, ownerVars, LedgerStands

\* A call on the owner other than submit.
LEMMA CallStands ==
  ASSUME Inv, BeginSettle \/ SettleGivesUp \/ RequestOwnerStop,
         ledger' = ledger, UNCHANGED <<gate, now, hold, callbackFault>>,
         stopEvent' \in BOOLEAN, stopEvent => stopEvent',
         cleanStop' \in BOOLEAN, cleanStop => cleanStop'
  PROVE  HandStands
<1>1. /\ SharedTyped /\ OwnerTypeOK /\ HandInv /\ own \in Owners
      /\ now \in 0 .. MaxTime
  BY InvParts
<1>2. Call /\ SignalsStay
  BY DEF Call, SignalsStay
<1>3. SharedTyped' /\ OwnerTypeOK' /\ HandInv'
  BY <1>1, <1>2, CallTyped, CallKeeps DEF SharedTyped
<1>4. /\ own'.request = own.request /\ own'.inflight = own.inflight
      /\ own'.fault = own.fault
      /\ own'.report = own.report /\ own'.confirmed = own.confirmed
      /\ own'.supervised = own.supervised
      /\ UNCHANGED <<act, pc, port, ticket, tracking, writes>>
  BY <1>1 DEF BeginSettle, SettleGivesUp, RequestOwnerStop, Owners
<1>5. QED BY <1>3, <1>4 DEF HandStands, LedgerStands

\* The course of a stop goes on where the events stay and the loop is left in order.
LEMMA StopStays ==
  ASSUME Inv, HandStands, UNCHANGED <<external, stopEvent>>,
         pol.pc \in Ending \ {"exc_gate", "stop_loop"} =>
           pol'.pc \in Ending \ {"exc_gate", "stop_loop"},
         pol'.pc = "release_recheck" => stopEvent,
         pol'.final => ledger.committed = MaxSequence,
         ~pol'.failed /\ pol'.pc \in Final \cup Ending => ledger.committed = MaxSequence
  PROVE  StopCourse'
<1>1. StopCourse
  BY InvParts
<1>2. UNCHANGED <<pc, callbackFault>> /\ ledger'.committed = ledger.committed
  BY DEF HandStands, LedgerStands
<1>3. QED BY <1>1, <1>2 DEF StopCourse

\* A step of the policy thread that keeps to its round, hands over what it took,
\* and gives the stop proof it has, keeps the rest.
LEMMA PolicyKeeps ==
  ASSUME Inv, HandStands, fr' = fr,
         PolicyTyped', RoundCourse', RecordCourse', StopCourse',
         pol.pc # "end", pol'.pc # "end", pol'.outcome = pol.outcome,
         HandedOver => \/ HandedOver'
                       \/ ~HasPending(ledger) /\ pc \notin {"uninflight", "complete"},
         ~pol'.failed /\ pol'.pc \in Ending => tracking.state \in {"idle", "verified"},
         ~pol'.errors /\ pol'.pc \in {"join_arm", "verdict"} =>
           pc = "done" /\ HandProven /\ ~own.fault,
         ~pol'.errors /\ pol'.pc = "verdict" => FrankaDone /\ fr.stopped
  PROVE  Inv'
<1>1. /\ BarrierCourse /\ ArmCourse /\ EndCourse /\ FrankaTypeOK /\ HandInv
      /\ FrankaFirst /\ Supervised
  BY InvParts
<1>2. /\ SharedTyped' /\ OwnerTypeOK' /\ HandInv'
      /\ own'.request = own.request /\ own'.inflight = own.inflight
      /\ own'.fault = own.fault
      /\ own'.report = own.report /\ own'.confirmed = own.confirmed
      /\ own'.supervised = own.supervised
      /\ UNCHANGED <<act, pc, port, ticket, tracking, writes>>
      /\ ledger'.committed = ledger.committed /\ ledger'.pending = ledger.pending
      /\ ledger'.acked = ledger.acked
      /\ gate' = gate \/ gate'.state = "fault_latched"
  BY DEF HandStands, LedgerStands
<1>3. BarrierCourse'
  <2>1. own.request # 0 \/ Executing => HasPending(ledger) /\ HandedOver
    BY <1>1 DEF BarrierCourse, HandInv, FrameCourse, HasPending
  <2>2. own.request # 0 \/ Executing => HandedOver'
    BY <2>1
  <2>3. pc \in {"uninflight", "complete"} => HandedOver'
    BY <1>1 DEF BarrierCourse
  <2>4. QED BY <1>1, <1>2, <2>2, <2>3 DEF BarrierCourse, HasPending, Executing
<1>4. ArmCourse'
  BY <1>1, <1>2 DEF ArmCourse
<1>5. EndCourse'
  <2>1. gate'.state = "armed" => gate'.auth = RunAuthorization
    BY <1>1, <1>2 DEF EndCourse
  <2>2. pol'.outcome = "running"
    BY <1>1 DEF EndCourse
  <2>3. HandProven' = HandProven /\ FrankaDone' = FrankaDone
    BY <1>2 DEF HandProven, DisabledVerified, FrankaDone, Supervised
  <2>4. QED BY <1>2, <2>1, <2>2, <2>3 DEF EndCourse
<1>6. FrankaTypeOK' /\ FrankaFirst' /\ Supervised'
  BY <1>1, <1>2 DEF FrankaTypeOK, FrankaFirst, Supervised
<1>7. PassMeansCleanRun'
  BY <1>1 DEF EndCourse, PassMeansCleanRun
<1>8. QED BY <1>2, <1>3, <1>4, <1>5, <1>6, <1>7 DEF Inv, LoopInv

\* Going to another step of the code, with the deadlines kept or dropped.
LEMMA StepEffect ==
  ASSUME pol \in Policies, NEW step \in PolicySteps, Step(step)
  PROVE  /\ pol' \in Policies /\ pol'.pc = step
         /\ pol'.cmd = pol.cmd /\ pol'.final = pol.final
         /\ pol'.failed = pol.failed /\ pol'.outcome = pol.outcome
         /\ pol'.errors = pol.errors
<1>1. /\ 0 \in 0 .. MaxTime + Period
      /\ 0 \in 0 .. MaxTime + TrackingTimeout + FeedbackHardAge + ResponseTimeout
  BY LoopAssumption, OwnerAssumption, ClosedLoopAssumption
<1>2. PICK nb \in {pol.notBefore, 0} :
        nb = (IF step \in Releases THEN pol.notBefore ELSE 0)
  OBVIOUS
<1>3. PICK wb \in {pol.waitBy, 0} : wb = (IF step = "settle_wait" THEN pol.waitBy ELSE 0)
  OBVIOUS
<1>4. PICK hs \in {pol.holdSince, Never} :
        hs = (IF step \in Releases \cup {"prepare"} THEN pol.holdSince ELSE Never)
  OBVIOUS
<1>5. pol' = [pol EXCEPT !.pc = step, !.notBefore = nb, !.holdSince = hs,
                         !.waitBy = wb]
  BY <1>2, <1>3, <1>4 DEF Step
<1>6. /\ nb \in 0 .. MaxTime + Period
      /\ hs \in {Never} \cup 0 .. MaxTime
      /\ wb \in 0 .. MaxTime + TrackingTimeout + FeedbackHardAge + ResponseTimeout
  BY <1>1, <1>2, <1>3, <1>4 DEF Policies
<1>7. QED BY <1>5, <1>6 DEF Policies

\* An exception raised anywhere before the except clause.
LEMMA ThrowsKeeps ==
  ASSUME Inv, HandStands, Throws, UNCHANGED <<fr, external, records, stopEvent>>,
         pol.pc \notin Ending \cup {"exc_ledger"}
  PROVE  Inv'
<1>1. /\ pol \in Policies /\ PolicyTyped /\ RoundCourse /\ StopCourse
      /\ external \in BOOLEAN
  BY InvParts
<1>2. /\ pol' \in Policies /\ pol'.pc = "exc_ledger"
      /\ pol'.cmd = pol.cmd /\ pol'.final = pol.final
      /\ pol'.failed = pol.failed /\ pol'.outcome = pol.outcome
  BY <1>1, StepEffect DEF Throws, PolicySteps
<1>3. ~pol.failed /\ pol.pc # "end"
  BY <1>1 DEF RoundCourse, Ending
<1>4. PolicyTyped'
  BY <1>1, <1>2 DEF PolicyTyped, PolicyTypeOK, CommandSteps, RoundStart, Releases
<1>5. "exc_ledger" \notin RoundStart \cup Final \cup Ending
  BY DEF RoundStart, Releases, Final, Ending, Stops
<1>6. RoundCourse' /\ RecordCourse'
  BY <1>2, <1>3, <1>5 DEF RoundCourse, RecordCourse
<1>7. HandedOver'
  BY <1>2 DEF HandedOver
<1>8. StopCourse'
  BY <1>1, <1>2, <1>5, StopStays DEF StopCourse
<1>9. QED BY <1>2, <1>3, <1>4, <1>5, <1>6, <1>7, <1>8, PolicyKeeps

\* A step between two rounds, or of the final settle, with nothing pending.
LEMMA QuietKeeps ==
  ASSUME Inv, HandStands, UNCHANGED <<fr, external, records, stopEvent>>,
         ledger' = ledger,
         pol.pc \in RoundStart \cup Final,
         pol' \in Policies,
         pol'.pc \in RoundStart \cup Final \cup {"stop_loop"},
         pol'.cmd = pol.cmd, pol'.final = pol.final,
         pol'.failed = pol.failed, pol'.outcome = pol.outcome,
         pol'.pc \in RoundStart => pol.pc \in RoundStart,
         pol'.pc = "prepare" => ~pol.final,
         pol'.pc = "release_recheck" => stopEvent,
         pol'.pc \in Final => pol.final \/ pol.pc \in Final,
         pol'.pc = "stop_loop" => /\ pol.pc \in Final
                                  /\ tracking.state \in {"idle", "verified"}
  PROVE  Inv'
<1>1. /\ pol \in Policies /\ PolicyTyped /\ RoundCourse /\ RecordCourse /\ StopCourse
      /\ external \in BOOLEAN
  BY InvParts
<1>2. ~pol.failed /\ pol.pc \notin Ending \cup {"exc_ledger", "ticket"}
  BY <1>1 DEF RoundCourse, Ending, Stops, RoundStart, Releases, Final
<1>3. pol'.pc \notin CommandSteps \cup {"end", "exc_ledger", "exc_gate", "ticket",
                                      "join_arm", "verdict"}
  BY DEF CommandSteps, RoundStart, Releases, Final
<1>4. PolicyTyped'
  BY <1>1, <1>3 DEF PolicyTyped, PolicyTypeOK
<1>5. RoundCourse' /\ RecordCourse'
  <2>1. pol'.pc \notin {"health", "stage", "publish", "barrier", "submit", "ticket",
                        "faultcheck", "commit", "record", "source", "exc_gate"}
    BY <1>3 DEF CommandSteps
  <2>2. ~HasPending(ledger) /\ records = 1 .. ledger.committed
    BY <1>1, <1>2 DEF RoundCourse, RecordCourse
  <2>3. QED BY <1>2, <2>1, <2>2 DEF RoundCourse, RecordCourse
<1>6. ~HandedOver
  BY <1>2 DEF HandedOver
<1>7. StopCourse'
  <2>1. pol'.pc \in Final \cup Ending => pol'.pc \in Final \/ pol'.pc = "stop_loop"
    BY DEF RoundStart, Releases, Final, Ending, Stops
  <2>2. pol.final \/ pol.pc \in Final => ledger.committed = MaxSequence
    BY <1>1, <1>2 DEF StopCourse
  <2>3. QED BY <1>1, <1>2, <2>1, <2>2, StopStays DEF StopCourse
<1>8. pol'.pc \in Ending => tracking.state \in {"idle", "verified"}
  BY DEF RoundStart, Releases, Final, Ending, Stops
<1>9. pol.pc # "end"
  BY <1>2 DEF Ending
<1>10. QED
  BY <1>2, <1>3, <1>4, <1>5, <1>6, <1>7, <1>8, <1>9, PolicyKeeps

\* A step that touches nothing but the policy's own state.
LEMMA OnlyStands ==
  ASSUME Inv, OnlyPolicy
  PROVE  /\ HandStands /\ ledger' = ledger
         /\ UNCHANGED <<fr, external, records, stopEvent>>
<1>1. /\ UNCHANGED <<ledger, gate, now, hold, stopEvent, cleanStop, callbackFault>>
      /\ UNCHANGED ownerVars /\ UNCHANGED <<fr, external, records>>
  BY DEF OnlyPolicy, shared
<1>2. LedgerStands
  BY <1>1 DEF LedgerStands
<1>3. QED BY <1>1, <1>2, InvParts, AloneStands

\* The same for a step that only goes on.
LEMMA QuietStep ==
  ASSUME Inv, HandStands, UNCHANGED <<fr, external, records, stopEvent>>,
         ledger' = ledger,
         pol.pc \in RoundStart \cup Final,
         NEW step \in RoundStart \cup Final \cup {"stop_loop"}, Step(step),
         step \in RoundStart => pol.pc \in RoundStart,
         step = "prepare" => ~pol.final,
         step = "release_recheck" => stopEvent,
         step \in Final => pol.final \/ pol.pc \in Final,
         step = "stop_loop" => /\ pol.pc \in Final
                               /\ tracking.state \in {"idle", "verified"}
  PROVE  Inv'
<1>1. pol \in Policies /\ step \in PolicySteps
  BY InvParts DEF RoundStart, Releases, Final, PolicySteps, InRun, Stops
<1>2. /\ pol' \in Policies /\ pol'.pc = step
      /\ pol'.cmd = pol.cmd /\ pol'.final = pol.final
      /\ pol'.failed = pol.failed /\ pol'.outcome = pol.outcome
  BY <1>1, StepEffect
<1>3. QED BY <1>2, QuietKeeps

\* An exception of a step that touches nothing else.
LEMMA ThrowsAlone ==
  ASSUME Inv, OnlyPolicy, Throws, pol.pc \notin Ending \cup {"exc_ledger"}
  PROVE  Inv'
BY OnlyStands, ThrowsKeeps

(* ... at the start of a round ------------------------------------------------ *)

\* Waiting for the slot: on to the round, to the settle, or a fault; a stop that
\* is seen is the hand's fault, which the second look at the hand finds.
LEMMA ReleaseKeeps ==
  ASSUME Inv,
         Release \/ ReleaseStop \/ ReleaseRecheck \/ ReleaseExternal \/ ReleaseDue
  PROVE  Inv'
<1>1. /\ OnlyPolicy /\ pol.pc \in Releases
      /\ \/ Throws \/ Step("release") \/ Step("release_stop")
         \/ Step("release_external") \/ Step("release_due")
         \/ stopEvent /\ Step("release_recheck")
         \/ pol.final /\ Step("settle")
         \/ ~pol.final /\ Step("prepare")
  <2>1. StopCourse
    BY InvParts
  <2>2. CASE Release
    BY <2>2 DEF Release, Releases
  <2>3. CASE ReleaseStop
    BY <2>3 DEF ReleaseStop, Releases
  <2>4. CASE ReleaseRecheck
    <3>1. callbackFault
      BY <2>1, <2>4 DEF ReleaseRecheck, StopCourse, Ending, Stops
    <3>2. Throws
      BY <2>4, <3>1 DEF ReleaseRecheck, HandHealthy
    <3>3. QED BY <2>4, <3>2 DEF ReleaseRecheck, Releases
  <2>5. CASE ReleaseExternal
    <3>1. ~external
      BY <2>1 DEF StopCourse
    <3>2. QED BY <2>5, <3>1 DEF ReleaseExternal, Releases
  <2>6. CASE ReleaseDue
    BY <2>6 DEF ReleaseDue, AtRelease, Releases
  <2>7. QED BY <2>2, <2>3, <2>4, <2>5, <2>6
<1>2. HandStands /\ ledger' = ledger /\ UNCHANGED <<fr, external, records, stopEvent>>
  BY <1>1, OnlyStands
<1>3. pol.pc \in RoundStart
  BY <1>1 DEF RoundStart
<1>4. pol.pc \notin Ending \cup {"exc_ledger"}
  BY <1>1 DEF Releases, Ending, Stops
<1>5. ASSUME NEW step \in RoundStart \cup {"settle"}, Step(step),
             step = "prepare" => ~pol.final,
             step = "release_recheck" => stopEvent,
             step = "settle" => pol.final
      PROVE  Inv'
  <2>1. step \in RoundStart \cup Final \cup {"stop_loop"}
    BY DEF Final
  <2>2. step \in Final => step = "settle"
    BY DEF Final, RoundStart, Releases
  <2>3. step # "stop_loop"
    BY DEF RoundStart, Releases
  <2>4. QED BY <1>2, <1>3, <1>5, <2>1, <2>2, <2>3, QuietStep
<1>6. CASE Throws
  BY <1>1, <1>4, <1>6, ThrowsAlone
<1>7. CASE ~Throws
  BY <1>1, <1>5, <1>7 DEF RoundStart, Releases
<1>8. QED BY <1>6, <1>7

\* A slot of the release grid.
LEMMA SlotTyped ==
  ASSUME now \in 0 .. MaxTime, NEW tick,
         NEW slot \in SlotsAfter(tick) \cup now .. now + Period
  PROVE  slot \in 0 .. MaxTime + Period
BY LoopAssumption, ClosedLoopAssumption DEF SlotsAfter

\* The next command follows the committed snapshot, with nothing pending.
LEMMA PrepareKeeps ==
  ASSUME Inv, Prepare
  PROVE  Inv'
<1>1. /\ pol \in Policies /\ PolicyTyped /\ RoundCourse /\ RecordCourse /\ StopCourse
      /\ ledger \in Ledgers /\ ledger.committed \in 0 .. MaxSequence
      /\ now \in 0 .. MaxTime /\ external \in BOOLEAN /\ Supervised
  BY InvParts
<1>2. /\ pol.pc = "prepare" /\ OnlyPolicy /\ HandStands /\ ledger' = ledger
      /\ UNCHANGED <<fr, external, records, stopEvent>>
  BY OnlyStands DEF Prepare
<1>3. ~pol.failed /\ ~pol.final /\ ~HasPending(ledger)
      /\ ledger.committed < MaxSequence
  BY <1>1, <1>2 DEF RoundCourse, PolicyTyped, Ending, Stops, RoundStart
<1>4. CASE Throws
  BY <1>2, <1>4, ThrowsAlone DEF Ending, Stops
<1>5. CASE \E slot \in now .. now + Period :
             pol' = [pol EXCEPT !.pc = "release", !.notBefore = slot,
                       !.holdSince = IF @ = Never THEN now ELSE @]
  <2>1. PICK slot \in now .. now + Period, since \in {now, pol.holdSince} :
          pol' = [pol EXCEPT !.pc = "release", !.notBefore = slot,
                             !.holdSince = since]
    BY <1>5
  <2>2. slot \in 0 .. MaxTime + Period /\ since \in {Never} \cup 0 .. MaxTime
    BY <1>1, <2>1, SlotTyped DEF Policies
  <2>3. /\ pol' \in Policies /\ pol'.pc = "release"
        /\ pol'.cmd = pol.cmd /\ pol'.final = pol.final
        /\ pol'.failed = pol.failed /\ pol'.outcome = pol.outcome
    BY <1>1, <2>1, <2>2 DEF Policies, PolicySteps, InRun, Releases
  <2>4. QED BY <1>2, <2>3, QuietKeeps DEF RoundStart, Releases, Final
<1>6. CASE \E a \in Actions :
             pol' = [pol EXCEPT !.pc = IF Supervised THEN "health" ELSE "stage",
                       !.pending = ~Supervised, !.holdSince = Never,
                       !.cmd = [seq |-> ledger.committed + 1,
                                previous |-> ledger.previous,
                                executed |-> a, produced |-> now]]
  <2>1. PICK a \in Actions :
          pol' = [pol EXCEPT !.pc = "health", !.pending = FALSE, !.holdSince = Never,
                    !.cmd = [seq |-> ledger.committed + 1,
                             previous |-> ledger.previous,
                             executed |-> a, produced |-> now]]
    <3>1. PICK p \in BOOLEAN : p = ~Supervised
      OBVIOUS
    <3>2. p = FALSE
      BY <1>1, <3>1
    <3>3. QED BY <1>1, <1>6, <3>1, <3>2
  <2> DEFINE cmd == [seq |-> ledger.committed + 1, previous |-> ledger.previous,
                     executed |-> a, produced |-> now]
  <2>2. ledger.committed + 1 \in 0 .. MaxSequence /\ ledger.committed + 1 # 0
    BY <1>1, <1>3, LoopAssumption
  <2>3. /\ cmd \in Commands /\ cmd.seq = ledger.committed + 1
        /\ cmd.seq \in 0 .. MaxSequence /\ cmd.produced \in 0 .. MaxTime
    <3>1. ledger.previous \in Actions /\ now \in Int
      BY <1>1, LoopAssumption DEF Ledgers
    <3>2. QED BY <1>1, <2>2, <3>1, LoopAssumption DEF Commands
  <2> HIDE DEF cmd
  <2>4. pol' = [pol EXCEPT !.pc = "health", !.pending = FALSE, !.holdSince = Never,
                           !.cmd = cmd]
    BY <2>1 DEF cmd
  <2>5. /\ pol' \in Policies /\ pol'.pc = "health" /\ pol'.cmd = cmd
        /\ pol'.final = pol.final
        /\ pol'.failed = pol.failed /\ pol'.outcome = pol.outcome
    BY <1>1, <2>4, <2>3 DEF Policies, PolicySteps, InRun
  <2>6. "health" \notin RoundStart \cup Final \cup Ending
    BY DEF RoundStart, Releases, Final, Ending, Stops
  <2>7. PolicyTyped'
    BY <1>1, <1>2, <2>3, <2>5, <2>6 DEF PolicyTyped, PolicyTypeOK
  <2>8. RoundCourse' /\ RecordCourse'
    <3>1. records = 1 .. ledger.committed
      BY <1>1, <1>2, <1>3 DEF RecordCourse, RoundStart
    <3>2. QED
      BY <1>2, <1>3, <2>3, <2>5, <2>6, <3>1 DEF RoundCourse, RecordCourse
  <2>9. StopCourse'
    BY <1>1, <1>2, <1>3, <2>5, <2>6, StopStays DEF Ending, Stops
  <2>10. ~HandedOver
    BY <1>2, <1>3 DEF HandedOver
  <2>11. QED
    BY <1>2, <1>3, <2>5, <2>6, <2>7, <2>8, <2>9, <2>10, PolicyKeeps
<1>7. QED BY <1>4, <1>5, <1>6 DEF Prepare

\* The command is kept for the audit before it is staged.
LEMMA HealthKeeps ==
  ASSUME Inv, Health
  PROVE  Inv'
<1>1. /\ pol \in Policies /\ PolicyTyped /\ RoundCourse /\ RecordCourse /\ StopCourse
      /\ external \in BOOLEAN
  BY InvParts
<1>2. /\ pol.pc = "health" /\ OnlyPolicy /\ HandStands /\ ledger' = ledger
      /\ UNCHANGED <<fr, external, records, stopEvent>>
  BY OnlyStands DEF Health
<1>3. CASE Throws
  BY <1>2, <1>3, ThrowsAlone DEF Ending, Stops
<1>4. CASE pol' = [pol EXCEPT !.pc = "stage", !.pending = TRUE]
  <2>1. /\ pol' \in Policies /\ pol'.pc = "stage" /\ pol'.cmd = pol.cmd
        /\ pol'.final = pol.final
        /\ pol'.failed = pol.failed /\ pol'.outcome = pol.outcome
    BY <1>1, <1>4 DEF Policies, PolicySteps, InRun
  <2>2. ~pol.failed
    BY <1>1, <1>2 DEF RoundCourse, Ending, Stops
  <2>3. "stage" \notin RoundStart \cup Final \cup Ending
    BY DEF RoundStart, Releases, Final, Ending, Stops
  <2>4. PolicyTyped'
    BY <1>1, <1>2, <2>1, <2>3 DEF PolicyTyped, PolicyTypeOK, CommandSteps
  <2>5. RoundCourse' /\ RecordCourse'
    BY <1>1, <1>2, <2>1, <2>2, <2>3 DEF RoundCourse, RecordCourse, HasPending
  <2>6. StopCourse'
    BY <1>1, <1>2, <2>1, <2>3, StopStays DEF StopCourse, Ending, Stops
  <2>7. ~HandedOver
    BY <1>2, <2>2 DEF HandedOver
  <2>8. QED
    BY <1>2, <2>1, <2>3, <2>4, <2>5, <2>6, <2>7, PolicyKeeps
<1>5. QED BY <1>3, <1>4 DEF Health

(* ... where a command is taken through the barrier ----------------------------- *)

\* What the policy knows before a step of a round, and what a plain step leaves.
LEMMA RoundStep ==
  ASSUME Inv, HandStands, UNCHANGED <<fr, external, records, stopEvent>>,
         ledger' = ledger,
         pol.pc \in CommandSteps,
         NEW step \in CommandSteps, Step(step),
         RoundCourse', RecordCourse',
         pol.pc = "ticket" =>
           ~HasPending(ledger) /\ pc \notin {"uninflight", "complete"}
  PROVE  Inv'
<1>1. /\ pol \in Policies /\ PolicyTyped /\ RoundCourse /\ StopCourse
      /\ external \in BOOLEAN
  BY InvParts
<1>2. step \in PolicySteps
  BY DEF CommandSteps, PolicySteps, InRun
<1>3. /\ pol' \in Policies /\ pol'.pc = step
      /\ pol'.cmd = pol.cmd /\ pol'.final = pol.final
      /\ pol'.failed = pol.failed /\ pol'.outcome = pol.outcome
  BY <1>1, <1>2, StepEffect
<1>4. /\ step \notin RoundStart \cup Final \cup Ending
      /\ pol.pc \notin Ending \cup {"exc_ledger"}
  BY DEF CommandSteps, RoundStart, Releases, Final, Ending, Stops
<1>5. PolicyTyped'
  BY <1>1, <1>3, <1>4 DEF PolicyTyped, PolicyTypeOK, RoundStart
<1>6. ~pol.failed /\ pol.pc # "end" /\ step \notin {"end", "join_arm", "verdict"}
  BY <1>1, <1>4 DEF RoundCourse, Ending
<1>7. HandedOver => ~HasPending(ledger) /\ pc \notin {"uninflight", "complete"}
  BY <1>4, <1>6 DEF HandedOver
<1>8. StopCourse'
  <2>1. step # "release_recheck"
    BY <1>4 DEF RoundStart, Releases
  <2>2. QED BY <1>1, <1>3, <1>4, <2>1, StopStays DEF StopCourse
<1>9. QED BY <1>3, <1>4, <1>5, <1>6, <1>7, <1>8, PolicyKeeps

\* stage opens the transaction of the next sequence, or the run fails.
LEMMA StageKeeps ==
  ASSUME Inv, StageStep
  PROVE  Inv'
<1>1. /\ pol \in Policies /\ PolicyTyped /\ RoundCourse /\ RecordCourse /\ StopCourse
      /\ EndCourse /\ BarrierCourse /\ ArmCourse /\ HandInv /\ SharedTyped
      /\ OwnerTypeOK /\ FrankaTypeOK /\ FrankaFirst /\ Supervised
      /\ ledger \in Ledgers /\ external \in BOOLEAN
  BY InvParts
<1>2. /\ pol.pc = "stage" /\ ledger' = Stage(ledger, pol.cmd, now)
      /\ UNCHANGED <<gate, now, hold, stopEvent, cleanStop, callbackFault>>
      /\ UNCHANGED ownerVars /\ UNCHANGED <<fr, external, records>>
  BY DEF StageStep
<1>3. /\ pol.cmd \in Commands /\ pol.cmd.seq \in 0 .. MaxSequence
      /\ ~pol.failed /\ pol.cmd.seq = ledger.committed + 1
  BY <1>1, <1>2 DEF PolicyTyped, CommandSteps, RoundCourse, Ending, Stops
<1>4. /\ ledger' \in Ledgers /\ ledger'.committed = ledger.committed
      /\ ledger'.pending \in {ledger.pending, pol.cmd} /\ BarrierMoves
  BY <1>1, <1>2, <1>3, StageMoves
<1>5. CASE ~StageAccepts(ledger, pol.cmd, now)
  <2>1. Throws
    BY <1>5 DEF StageStep
  <2>2. LedgerStands
    <3>1. \E r \in FaultReasons : ledger' = Latch(ledger, r)
      BY <1>1, <1>2, <1>5, StageEffect
    <3>2. QED BY <1>1, <3>1, LatchKeeps DEF LedgerStands
  <2>3. HandStands
    BY <1>1, <1>2, <1>4, <2>2, AloneStands DEF SharedTyped
  <2>4. QED BY <1>2, <2>1, <2>3, ThrowsKeeps DEF Ending, Stops
<1>6. CASE StageAccepts(ledger, pol.cmd, now)
  <2>1. Step("publish")
    BY <1>6 DEF StageStep
  <2>2. /\ ~HasPending(ledger)
        /\ ledger' = [ledger EXCEPT !.pending = pol.cmd, !.acked = {}]
    BY <1>1, <1>2, <1>6, StageEffect
  <2>3. ledger'.pending = pol.cmd /\ ledger'.acked = {}
    BY <1>1, <2>2 DEF Ledgers
  <2>4. /\ pol' \in Policies /\ pol'.pc = "publish"
        /\ pol'.cmd = pol.cmd /\ pol'.final = pol.final
        /\ pol'.failed = pol.failed /\ pol'.outcome = pol.outcome
    BY <1>1, <2>1, StepEffect DEF PolicySteps, InRun
  <2>5. SharedTyped'
    BY <1>1, <1>2, <1>3, <1>4 DEF SharedTyped
  <2>6. OwnerTypeOK' /\ HandInv'
    <3>1. SignalsStay
      BY <1>2 DEF SignalsStay
    <3>2. QED BY <1>1, <1>2, <1>4, <3>1, OthersKeep DEF OwnerTypeOK, ownerVars
  <2>7. "publish" \notin RoundStart \cup Final \cup Ending
    BY DEF RoundStart, Releases, Final, Ending, Stops
  <2>8. PolicyTyped'
    BY <1>1, <1>2, <1>4, <2>4, <2>7 DEF PolicyTyped, PolicyTypeOK, CommandSteps
  <2>9. UNCHANGED <<own, act, pc, why, ticket, tracking, port, writes>>
    BY <1>2 DEF ownerVars
  <2>10. BarrierCourse'
    <3>1. ~HandedOver
      BY <1>2, <1>3 DEF HandedOver
    <3>2. own.request = 0 /\ ~Executing /\ pc \notin {"uninflight", "complete"}
      BY <1>1, <3>1 DEF BarrierCourse
    <3>3. HasPending(ledger)' /\ ledger'.pending.seq = ledger.committed + 1
      BY <1>3, <2>3 DEF HasPending, Commands
    <3>4. QED
      BY <1>1, <1>4, <2>3, <2>9, <3>2, <3>3 DEF BarrierCourse, Executing
  <2>11. ArmCourse'
    BY <1>1, <1>2, <1>4, <2>3 DEF ArmCourse
  <2>12. RoundCourse' /\ RecordCourse'
    <3>1. RoundCourse'
      BY <1>3, <2>3, <2>4, <2>7 DEF RoundCourse
    <3>2. records = 1 .. (pol.cmd.seq - 1)
      <4>1. ledger.committed \in Int /\ records = 1 .. ledger.committed
        BY <1>1, <1>2, <1>3 DEF RecordCourse, Ledgers
      <4>2. ledger.committed = pol.cmd.seq - 1
        BY <1>3, <4>1
      <4>3. QED BY <4>1, <4>2
    <3>3. QED
      BY <1>2, <2>4, <2>7, <3>1, <3>2 DEF RecordCourse
  <2>13. StopCourse'
    BY <1>1, <1>2, <1>4, <2>4, <2>7, <2>9 DEF StopCourse, Ending, Stops
  <2>14. EndCourse'
    BY <1>1, <1>2, <2>4, <2>7 DEF EndCourse
  <2>15. FrankaTypeOK' /\ FrankaFirst' /\ Supervised'
    BY <1>1, <1>2, <2>9 DEF FrankaTypeOK, FrankaFirst, Supervised
  <2>16. PassMeansCleanRun'
    BY <1>1, <1>2, <2>4 DEF EndCourse, PassMeansCleanRun
  <2>17. QED
    BY <2>5, <2>6, <2>8, <2>10, <2>11, <2>12, <2>13, <2>14, <2>15, <2>16
    DEF Inv, LoopInv
<1>7. QED BY <1>5, <1>6

\* The target is published to the arm; the barrier stays as it is.
LEMMA PublishKeeps ==
  ASSUME Inv, PublishStep
  PROVE  Inv'
<1>1. /\ pol \in Policies /\ PolicyTyped /\ RoundCourse /\ RecordCourse
      /\ SharedTyped /\ ledger \in Ledgers /\ Supervised
  BY InvParts
<1>2. /\ pol.pc = "publish"
      /\ UNCHANGED <<ledger, gate, now, stopEvent, cleanStop, callbackFault>>
      /\ UNCHANGED ownerVars /\ UNCHANGED <<fr, external, records>>
      /\ \/ Throws /\ hold' = hold
         \/ Step("barrier") /\ hold' = Published(pol.cmd)
  BY <1>1 DEF PublishStep
<1>3. hold' \in [seq : 0 .. MaxSequence, produced : 0 .. MaxTime]
  BY <1>1, <1>2 DEF SharedTyped, PolicyTyped, Published
<1>4. HandStands
  BY <1>1, <1>2, <1>3, AloneStands DEF SharedTyped, LedgerStands
<1>5. CASE Throws
  BY <1>2, <1>4, <1>5, ThrowsKeeps DEF Ending, Stops
<1>6. CASE Step("barrier")
  <2>1. /\ pol'.pc = "barrier" /\ pol'.cmd = pol.cmd /\ pol'.failed = pol.failed
    BY <1>1, <1>6, StepEffect DEF PolicySteps, InRun
  <2>2. RoundCourse' /\ RecordCourse'
    BY <1>1, <1>2, <2>1
    DEF RoundCourse, RecordCourse, RoundStart, Releases, Final, Ending, Stops
  <2>3. QED
    BY <1>2, <1>4, <1>6, <2>2, RoundStep DEF CommandSteps
<1>7. QED BY <1>2, <1>5, <1>6

\* The wait ends with the acknowledgement of the arm, or with a fault.
LEMMA BarrierKeeps ==
  ASSUME Inv, Barrier
  PROVE  Inv'
<1>1. /\ pol \in Policies /\ PolicyTyped /\ RoundCourse /\ RecordCourse /\ StopCourse
      /\ BarrierCourse /\ SharedTyped /\ ledger \in Ledgers
      /\ external \in BOOLEAN
  BY InvParts
<1>2. /\ pol.pc = "barrier"
      /\ UNCHANGED <<gate, now, hold, stopEvent, cleanStop, callbackFault>>
      /\ UNCHANGED ownerVars /\ UNCHANGED <<fr, external, records>>
  BY DEF Barrier
<1>3. ~pol.failed
  BY <1>1, <1>2 DEF RoundCourse, Ending, Stops
<1>4. /\ LedgerStands /\ ledger' \in Ledgers
      /\ \/ Throws
         \/ /\ ledger' = ledger /\ Step("submit")
            /\ ConsumerAcknowledged(ledger, "franka", pol.cmd.seq)
         \/ pol' = pol
  <2>1. \/ ledger' = ledger
        \/ \E r \in FaultReasons : ledger' = Latch(ledger, r)
    BY <1>1, FaultsAreReasons DEF Barrier, WaitOn, RequireCommitDeadline
  <2>2. LedgerStands /\ ledger' \in Ledgers
    BY <1>1, <2>1, LatchKeeps DEF LedgerStands
  <2>3. QED BY <2>2 DEF Barrier, WaitOn
<1>5. HandStands
  BY <1>1, <1>2, <1>4, AloneStands DEF SharedTyped
<1>6. CASE Throws
  BY <1>2, <1>5, <1>6, ThrowsKeeps DEF Ending, Stops
<1>7. CASE /\ ledger' = ledger /\ Step("submit")
           /\ ConsumerAcknowledged(ledger, "franka", pol.cmd.seq)
  <2>1. "franka" \in ledger.acked
    <3>1. ledger.pending = pol.cmd /\ pol.cmd.seq # 0
      BY <1>1, <1>2 DEF RoundCourse, PolicyTyped, CommandSteps, Commands
    <3>2. pol.cmd.seq = ledger.committed + 1
      BY <1>1, <3>1 DEF BarrierCourse, HasPending
    <3>3. QED BY <1>1, <1>7, <3>2 DEF ConsumerAcknowledged, Ledgers
  <2>2. /\ pol'.pc = "submit" /\ pol'.cmd = pol.cmd /\ pol'.failed = pol.failed
    BY <1>1, <1>7, StepEffect DEF PolicySteps, InRun
  <2>3. RoundCourse' /\ RecordCourse'
    BY <1>1, <1>2, <1>3, <1>7, <2>1, <2>2
    DEF RoundCourse, RecordCourse, RoundStart, Releases, Final, Ending, Stops
  <2>4. QED
    BY <1>2, <1>5, <1>7, <2>3, RoundStep DEF CommandSteps
<1>8. CASE pol' = pol
  <2>1. PolicyTyped' /\ RoundCourse' /\ RecordCourse'
    BY <1>1, <1>2, <1>4, <1>8
    DEF PolicyTyped, PolicyTypeOK, RoundCourse, RecordCourse, LedgerStands, HasPending
  <2>2. StopCourse'
    BY <1>1, <1>2, <1>5, <1>8, StopStays DEF StopCourse, Final, Ending, Stops
  <2>3. HandedOver' = HandedOver
    BY <1>8 DEF HandedOver
  <2>4. pol.pc \notin Ending
    BY <1>2 DEF Ending, Stops
  <2>5. QED BY <1>2, <1>5, <1>8, <2>1, <2>2, <2>3, <2>4, PolicyKeeps
<1>9. QED BY <1>4, <1>6, <1>7, <1>8

(* ... where the hand is commanded --------------------------------------------- *)

\* The hand is given the sequence that the arm has acknowledged.
LEMMA SubmitKeeps ==
  ASSUME Inv, SubmitStep
  PROVE  Inv'
<1>1. /\ pol \in Policies /\ PolicyTyped /\ RoundCourse /\ RecordCourse /\ StopCourse
      /\ EndCourse /\ BarrierCourse /\ ArmCourse /\ HandInv /\ SharedTyped
      /\ OwnerTypeOK /\ FrankaTypeOK /\ FrankaFirst /\ Supervised
      /\ own \in Owners /\ ticket \in [Sequences1 -> Tickets]
      /\ ledger \in Ledgers /\ external \in BOOLEAN /\ now \in 0 .. MaxTime
  BY InvParts
<1>2. /\ pol.pc = "submit" /\ UNCHANGED shared /\ UNCHANGED <<fr, external, records>>
  BY DEF SubmitStep
<1>3. /\ UNCHANGED <<ledger, gate, now, hold, stopEvent, cleanStop, callbackFault>>
      /\ SignalsStay
  BY <1>2 DEF shared, SignalsStay
<1>4. CASE Throws /\ UNCHANGED ownerVars
  <2>1. OnlyPolicy
    BY <1>2, <1>4 DEF OnlyPolicy
  <2>2. QED BY <1>2, <1>4, <2>1, ThrowsAlone DEF Ending, Stops
<1>5. CASE /\ Submit(pol.cmd.seq)
           /\ pol' = [pol EXCEPT !.pc = "ticket", !.waitBy = now + ResponseTimeout]
  <2>1. /\ pol.cmd \in Commands /\ pol.cmd.seq \in 0 .. MaxSequence
        /\ pol.cmd.seq # 0 /\ ledger.pending = pol.cmd /\ "franka" \in ledger.acked
    BY <1>1, <1>2 DEF PolicyTyped, CommandSteps, RoundCourse, Commands
  <2>2. pol.cmd.seq \in Sequences1
    BY <2>1, LoopAssumption DEF Sequences1
  <2>3. /\ own.request = 0
        /\ own' = [own EXCEPT !.request = pol.cmd.seq]
        /\ ticket' = [ticket EXCEPT ![pol.cmd.seq] = "queued"]
        /\ UNCHANGED <<act, pc, tracking, port, writes>>
    BY <1>5 DEF Submit, SubmitAccepts
  <2>4. /\ own'.request = pol.cmd.seq /\ own'.inflight = own.inflight
        /\ own'.fault = own.fault /\ own'.supervised = own.supervised
    BY <1>1, <2>3 DEF Owners
  <2>5. /\ ticket'[pol.cmd.seq] = "queued"
        /\ \A n \in Sequences1 : ticket'[n] = "receipt" => ticket[n] = "receipt"
    BY <1>1, <2>2, <2>3
  <2>6. now + ResponseTimeout \in 0 .. MaxTime + TrackingTimeout + FeedbackHardAge
                                       + ResponseTimeout
    BY <1>1, LoopAssumption, OwnerAssumption, ClosedLoopAssumption
  <2>7. /\ pol' \in Policies /\ pol'.pc = "ticket"
        /\ pol'.cmd = pol.cmd /\ pol'.final = pol.final
        /\ pol'.failed = pol.failed /\ pol'.outcome = pol.outcome
    BY <1>1, <1>5, <2>6 DEF Policies, PolicySteps, InRun
  <2>8. /\ Call /\ SharedTyped'
    BY <1>1, <1>3, <1>5, <2>2 DEF Call, SharedTyped
  <2>9. OwnerTypeOK' /\ HandInv'
    BY <1>1, <1>3, <2>8, CallTyped, CallKeeps
  <2>10. "ticket" \notin RoundStart \cup Final \cup Ending
    BY DEF RoundStart, Releases, Final, Ending, Stops
  <2>11. PolicyTyped'
    BY <1>1, <1>2, <1>3, <2>7, <2>10 DEF PolicyTyped, PolicyTypeOK, CommandSteps
  <2>12. ~HandedOver /\ ~pol.failed
    BY <1>1, <1>2 DEF RoundCourse, Ending, Stops, HandedOver
  <2>13. BarrierCourse'
    <3>1. ~Executing /\ pc \notin {"uninflight", "complete"}
      BY <1>1, <2>12 DEF BarrierCourse
    <3>2. HandedOver'
      BY <2>7 DEF HandedOver
    <3>3. QED
      BY <1>1, <1>3, <2>1, <2>3, <2>4, <2>5, <3>1, <3>2
      DEF BarrierCourse, Executing, HasPending
  <2>14. ArmCourse'
    BY <1>1, <1>2, <1>3 DEF ArmCourse
  <2>15. RoundCourse' /\ RecordCourse'
    BY <1>1, <1>2, <1>3, <2>1, <2>7, <2>10, <2>12 DEF RoundCourse, RecordCourse
  <2>16. StopCourse'
    BY <1>1, <1>2, <1>3, <2>3, <2>7, <2>10 DEF StopCourse, Ending, Stops
  <2>17. EndCourse'
    BY <1>1, <1>3, <2>7, <2>10, <1>2 DEF EndCourse
  <2>18. FrankaTypeOK' /\ FrankaFirst' /\ Supervised'
    BY <1>1, <1>2, <2>3, <2>4 DEF FrankaTypeOK, FrankaFirst, Supervised
  <2>19. PassMeansCleanRun'
    BY <1>1, <1>2, <2>7 DEF EndCourse, PassMeansCleanRun
  <2>20. QED
    BY <2>8, <2>9, <2>11, <2>13, <2>14, <2>15, <2>16, <2>17, <2>18, <2>19
    DEF Inv, LoopInv
<1>6. QED BY <1>4, <1>5 DEF SubmitStep

\* A receipt tells of a commit; an error or a timeout fails the run.
LEMMA TicketKeeps ==
  ASSUME Inv, TicketStep
  PROVE  Inv'
<1>1. /\ pol \in Policies /\ PolicyTyped /\ RoundCourse /\ RecordCourse
      /\ BarrierCourse /\ SharedTyped
      /\ ledger \in Ledgers /\ ledger.committed \in 0 .. MaxSequence
  BY InvParts
<1>2. /\ pol.pc = "ticket" /\ UNCHANGED shared /\ UNCHANGED <<fr, external, records>>
  BY DEF TicketStep
<1>3. UNCHANGED <<ledger, gate, now, hold, stopEvent, cleanStop, callbackFault>>
  BY <1>2 DEF shared
<1>4. CASE Throws /\ RequestOwnerStop
  <2>1. HandStands
    BY <1>1, <1>3, <1>4, CallStands DEF SharedTyped
  <2>2. QED BY <1>2, <1>3, <1>4, <2>1, ThrowsKeeps DEF Ending, Stops
<1>5. CASE Throws /\ UNCHANGED ownerVars
  <2>1. OnlyPolicy
    BY <1>2, <1>5 DEF OnlyPolicy
  <2>2. QED BY <1>2, <1>5, <2>1, ThrowsAlone DEF Ending, Stops
<1>6. CASE ticket[pol.cmd.seq] = "receipt" /\ Step("faultcheck") /\ UNCHANGED ownerVars
  <2>1. OnlyPolicy
    BY <1>2, <1>6 DEF OnlyPolicy
  <2>2. HandStands /\ ledger' = ledger
    BY <2>1, OnlyStands
  <2>3. /\ pol.cmd \in Commands /\ pol.cmd.seq \in 0 .. MaxSequence /\ pol.cmd.seq # 0
    BY <1>1, <1>2 DEF PolicyTyped, CommandSteps, Commands
  <2>4. pol.cmd.seq <= ledger.committed
    BY <1>1, <1>6, <2>3, LoopAssumption DEF BarrierCourse, Sequences1
  <2>5. ~HasPending(ledger) /\ ledger.committed = pol.cmd.seq
    <3>1. ledger.pending = pol.cmd => HasPending(ledger)
      BY <2>3 DEF HasPending
    <3>2. ledger.pending = pol.cmd => pol.cmd.seq = ledger.committed + 1
      BY <1>1, <3>1 DEF BarrierCourse
    <3>3. ledger.pending # pol.cmd
      BY <1>1, <2>4, <3>2
    <3>4. QED BY <1>1, <1>2, <3>3 DEF RoundCourse
  <2>5a. pc \notin {"uninflight", "complete"}
    <3>1. act.acked = pol.cmd.seq
      BY <1>1, <2>5 DEF BarrierCourse
    <3>2. QED BY <1>1, <1>6, <3>1 DEF BarrierCourse
  <2>6. /\ pol'.pc = "faultcheck" /\ pol'.cmd = pol.cmd /\ pol'.failed = pol.failed
    BY <1>1, <1>6, StepEffect DEF PolicySteps, InRun
  <2>7. RoundCourse'
    BY <1>1, <1>2, <2>2, <2>5, <2>6
    DEF RoundCourse, RoundStart, Releases, Final, Ending, Stops, HasPending
  <2>8. RecordCourse'
    BY <1>1, <1>2, <2>6
    DEF RecordCourse, RoundStart, Releases, Final, Ending, Stops
  <2>9. QED
    BY <1>2, <1>3, <1>6, <2>2, <2>5, <2>5a, <2>7, <2>8, RoundStep DEF CommandSteps
<1>7. QED BY <1>4, <1>5, <1>6 DEF TicketStep

\* Between the receipt and the record: the receipt was the commit.
LEMMA CommitKeeps ==
  ASSUME Inv, FaultCheck \/ CommitWait
  PROVE  Inv'
<1>1. /\ pol \in Policies /\ RoundCourse /\ RecordCourse
      /\ ledger.committed \in 0 .. MaxSequence
  BY InvParts
<1>2. /\ OnlyPolicy /\ pol.pc \in {"faultcheck", "commit"}
      /\ \/ Throws
         \/ pol.pc = "faultcheck" /\ Step("commit")
         \/ pol.pc = "commit" /\ Step("record")
  <2>1. CASE FaultCheck
    BY <2>1 DEF FaultCheck
  <2>2. CASE CommitWait
    <3>1. ~(ledger.committed < pol.cmd.seq)
      BY <1>1, <2>2 DEF CommitWait, RoundCourse
    <3>2. ledger' = ledger
      BY <2>2, <3>1 DEF CommitWait
    <3>3. QED BY <2>2, <3>1, <3>2 DEF CommitWait, OnlyPolicy, shared
  <2>3. QED BY <2>1, <2>2
<1>3. HandStands /\ ledger' = ledger /\ UNCHANGED <<fr, external, records, stopEvent>>
  BY <1>2, OnlyStands
<1>4. CASE Throws
  BY <1>2, <1>4, ThrowsAlone DEF Ending, Stops
<1>5. ASSUME NEW step \in {"commit", "record"}, Step(step)
      PROVE  Inv'
  <2>1. step \in PolicySteps /\ step \in CommandSteps
    BY DEF PolicySteps, InRun, CommandSteps
  <2>2. /\ pol'.pc = step /\ pol'.cmd = pol.cmd /\ pol'.failed = pol.failed
    BY <1>1, <1>5, <2>1, StepEffect
  <2>3. RoundCourse' /\ RecordCourse'
    BY <1>1, <1>2, <1>3, <2>2
    DEF RoundCourse, RecordCourse, RoundStart, Releases, Final, Ending, Stops,
        HasPending
  <2>4. QED BY <1>2, <1>3, <1>5, <2>1, <2>3, RoundStep DEF CommandSteps
<1>6. QED BY <1>2, <1>4, <1>5

\* The record of the new commit completes the records.
LEMMA RecordKeeps ==
  ASSUME Inv, Record
  PROVE  Inv'
<1>1. /\ pol \in Policies /\ PolicyTyped /\ RoundCourse /\ RecordCourse /\ StopCourse
      /\ SharedTyped /\ external \in BOOLEAN /\ records \subseteq Sequences1
      /\ ledger \in Ledgers /\ ledger.committed \in 0 .. MaxSequence
  BY InvParts
<1>2. /\ pol.pc = "record" /\ records' = records \cup {pol.cmd.seq} /\ Step("source")
      /\ UNCHANGED shared /\ UNCHANGED ownerVars /\ UNCHANGED <<fr, external>>
  BY DEF Record
<1>3. UNCHANGED <<ledger, gate, now, hold, stopEvent, cleanStop, callbackFault>>
  BY <1>2 DEF shared
<1>4. HandStands
  BY <1>1, <1>2, <1>3, AloneStands DEF SharedTyped, LedgerStands
<1>5. /\ pol' \in Policies /\ pol'.pc = "source" /\ pol'.cmd = pol.cmd
      /\ pol'.final = pol.final
      /\ pol'.failed = pol.failed /\ pol'.outcome = pol.outcome
  BY <1>1, <1>2, StepEffect DEF PolicySteps, InRun
<1>6. ~pol.failed
  BY <1>1, <1>2 DEF RoundCourse, Ending, Stops
<1>7. /\ records = 1 .. (pol.cmd.seq - 1) /\ ledger.committed = pol.cmd.seq
      /\ ~HasPending(ledger)
  BY <1>1, <1>2, <1>6 DEF RecordCourse, RoundCourse
<1>8. pol.cmd.seq \in 1 .. MaxSequence
  <2>1. pol.cmd.seq # 0
    BY <1>1, <1>2 DEF PolicyTyped, CommandSteps, Commands
  <2>2. QED BY <1>1, <1>7, <2>1, LoopAssumption
<1>9. records' = 1 .. ledger.committed /\ records' \subseteq Sequences1
  BY <1>2, <1>7, <1>8, LoopAssumption DEF Sequences1
<1>9a. "source" \notin RoundStart \cup Final \cup Ending
  BY DEF RoundStart, Releases, Final, Ending, Stops
<1>10. PolicyTyped'
  BY <1>1, <1>2, <1>5, <1>9, <1>9a DEF PolicyTyped, PolicyTypeOK, CommandSteps
<1>11. RoundCourse' /\ RecordCourse'
  BY <1>3, <1>5, <1>6, <1>7, <1>9, <1>9a DEF RoundCourse, RecordCourse
<1>12. ~HandedOver
  BY <1>2, <1>6 DEF HandedOver
<1>13. StopCourse'
  BY <1>1, <1>2, <1>3, <1>4, <1>5, <1>9a, StopStays DEF StopCourse, Ending, Stops
<1>14. QED
  BY <1>2, <1>4, <1>5, <1>9a, <1>10, <1>11, <1>12, <1>13, PolicyKeeps

\* The next round starts recorded and with nothing pending, below the last
\* sequence, or in the final hold.
LEMMA SourceKeeps ==
  ASSUME Inv, SourceCommit
  PROVE  Inv'
<1>1. /\ pol \in Policies /\ PolicyTyped /\ RoundCourse /\ RecordCourse /\ StopCourse
      /\ external \in BOOLEAN /\ now \in 0 .. MaxTime /\ Supervised
      /\ ledger \in Ledgers /\ ledger.committed \in 0 .. MaxSequence
  BY InvParts
<1>2. /\ pol.pc = "source" /\ OnlyPolicy /\ HandStands /\ ledger' = ledger
      /\ UNCHANGED <<fr, external, records, stopEvent>>
  BY OnlyStands DEF SourceCommit
<1>3. CASE Throws
  BY <1>2, <1>3, ThrowsAlone DEF Ending, Stops
<1>4. ASSUME NEW slot \in 0 .. MaxTime + Period, NEW fin \in BOOLEAN,
             fin => ledger.committed = MaxSequence,
             ~fin => ledger.committed < MaxSequence,
             pol' = [pol EXCEPT !.pc = "release", !.pending = FALSE,
                                !.cmd = NoCommand, !.notBefore = slot, !.final = fin]
      PROVE  Inv'
  <2>1. /\ pol' \in Policies /\ pol'.pc = "release" /\ pol'.cmd = NoCommand
        /\ pol'.final = fin
        /\ pol'.failed = pol.failed /\ pol'.outcome = pol.outcome
    BY <1>1, <1>4 DEF Policies, PolicySteps, InRun, Releases
  <2>2. NoCommand.seq = 0 /\ NoCommand.produced = 0 /\ 0 \in 0 .. MaxSequence
        /\ 0 \in 0 .. MaxTime
    BY LoopAssumption DEF NoCommand
  <2>3. PolicyTyped'
    BY <1>1, <1>2, <1>4, <2>1, <2>2 DEF PolicyTyped, PolicyTypeOK, CommandSteps
  <2>4. ~pol.failed
    BY <1>1, <1>2 DEF RoundCourse, Ending, Stops
  <2>5. ~HasPending(ledger) /\ records = 1 .. ledger.committed
    BY <1>1, <1>2, <2>4 DEF RoundCourse, RecordCourse
  <2>6. "release" \notin Final \cup Ending
    BY DEF Final, Ending, Stops
  <2>7. RoundCourse' /\ RecordCourse'
    BY <1>2, <2>1, <2>4, <2>5, <2>6 DEF RoundCourse, RecordCourse
  <2>8. StopCourse'
    BY <1>2, <1>4, <2>1, <2>6, StopStays DEF Ending, Stops
  <2>9. ~HandedOver
    BY <1>2, <2>4 DEF HandedOver
  <2>10. QED
    BY <1>2, <2>1, <2>3, <2>6, <2>7, <2>8, <2>9, PolicyKeeps
<1>5. CASE /\ ledger.committed < MaxSequence
           /\ \E slot \in SlotsAfter(pol.cmd.produced) :
                pol' = [pol EXCEPT !.pc = "release", !.pending = FALSE,
                                   !.cmd = NoCommand, !.notBefore = slot]
  <2>1. PICK slot \in SlotsAfter(pol.cmd.produced) :
          pol' = [pol EXCEPT !.pc = "release", !.pending = FALSE,
                             !.cmd = NoCommand, !.notBefore = slot]
    BY <1>5
  <2>2. slot \in 0 .. MaxTime + Period
    BY <1>1, SlotTyped
  <2>3. ~pol.final
    BY <1>1, <1>5 DEF StopCourse
  <2>4. pol' = [pol EXCEPT !.pc = "release", !.pending = FALSE, !.cmd = NoCommand,
                           !.notBefore = slot, !.final = FALSE]
    BY <1>1, <2>1, <2>3 DEF Policies
  <2>5. QED BY <1>4, <1>5, <2>2, <2>4
<1>6. CASE /\ ledger.committed = MaxSequence
           /\ pol' = [pol EXCEPT !.pc = "release", !.pending = FALSE,
                                 !.cmd = NoCommand, !.notBefore = now + Period,
                                 !.final = TRUE]
  <2>1. now + Period \in 0 .. MaxTime + Period
    BY <1>1, LoopAssumption, ClosedLoopAssumption
  <2>2. QED BY <1>4, <1>6, <2>1
<1>7. QED BY <1>1, <1>3, <1>5, <1>6 DEF SourceCommit

(* ... at the end of the run ---------------------------------------------------- *)

\* The final settle keeps its waiting time in the type of the policy's state.
LEMMA SettleWaitTyped ==
  ASSUME pol \in Policies, now \in 0 .. MaxTime, tracking \in Trackings,
         NEW step \in PolicySteps,
         NEW by, by = now \/ (by = SettleDeadline /\ SettleDeadline > now),
         pol' = [pol EXCEPT !.pc = step, !.waitBy = by]
  PROVE  /\ pol' \in Policies /\ pol'.pc = step
         /\ pol'.cmd = pol.cmd /\ pol'.final = pol.final
         /\ pol'.failed = pol.failed /\ pol'.outcome = pol.outcome
<1>1. by \in 0 .. MaxTime + TrackingTimeout + FeedbackHardAge + ResponseTimeout
  BY LoopAssumption, OwnerAssumption, ClosedLoopAssumption
  DEF SettleDeadline, Smallest, Trackings
<1>2. QED BY <1>1 DEF Policies

\* The final settle starts with the stop of the arm if the hand is still
\* challenged.
LEMMA SettleKeeps ==
  ASSUME Inv, Settle
  PROVE  Inv'
<1>1. /\ SharedTyped /\ ledger \in Ledgers /\ pol \in Policies
  BY InvParts
<1>2. /\ pol.pc = "settle" /\ cleanStop' \in BOOLEAN /\ (cleanStop => cleanStop')
      /\ UNCHANGED <<ledger, gate, now, hold, stopEvent, callbackFault>>
      /\ UNCHANGED ownerVars /\ UNCHANGED <<fr, external, records>>
      /\ Throws \/ Step("result") \/ Step("settle_call")
  <2>1. cleanStop \in BOOLEAN
    BY <1>1 DEF SharedTyped
  <2>2. /\ pol.pc = "settle"
        /\ UNCHANGED <<ledger, gate, now, hold, stopEvent, callbackFault>>
        /\ UNCHANGED ownerVars /\ UNCHANGED <<fr, external, records>>
        /\ \/ (Throws \/ Step("result")) /\ cleanStop' = cleanStop
           \/ Step("settle_call") /\ cleanStop' = TRUE
    BY Zenon DEF Settle
  <2>3. QED BY <2>1, <2>2
<1>3. HandStands
  BY <1>1, <1>2, AloneStands DEF SharedTyped, LedgerStands
<1>4. CASE Throws
  BY <1>2, <1>3, <1>4, ThrowsKeeps DEF Ending, Stops
<1>5. ASSUME NEW step \in {"result", "settle_call"}, Step(step)
      PROVE  Inv'
  BY <1>2, <1>3, <1>5, QuietStep DEF Final, RoundStart, Releases
<1>6. QED BY <1>2, <1>4, <1>5

\* The call of the settle is refused, granted at once, or handed to the worker.
LEMMA SettleCallKeeps ==
  ASSUME Inv, SettleCall
  PROVE  Inv'
<1>1. /\ SharedTyped /\ pol \in Policies /\ own \in Owners /\ now \in 0 .. MaxTime
      /\ tracking \in Trackings
  BY InvParts DEF OwnerTypeOK
<1>2. /\ pol.pc = "settle_call" /\ UNCHANGED shared
      /\ UNCHANGED <<fr, external, records>>
  BY DEF SettleCall
<1>3. /\ UNCHANGED <<ledger, gate, now, hold, stopEvent, cleanStop, callbackFault>>
      /\ pol.pc \in RoundStart \cup Final
  BY <1>2 DEF shared, Final
<1>4. CASE /\ BeginSettle
           /\ pol' = [pol EXCEPT !.pc = "settle_ready", !.waitBy = own'.settleBy]
  <2>1. HandStands
    BY <1>1, <1>3, <1>4, CallStands DEF SharedTyped
  <2>2. own'.settleBy = SettleDeadline /\ SettleDeadline > now
    BY <1>1, <1>4 DEF BeginSettle, SettleAccepts, Owners
  <2>3. /\ pol' \in Policies /\ pol'.pc = "settle_ready"
        /\ pol'.cmd = pol.cmd /\ pol'.final = pol.final
        /\ pol'.failed = pol.failed /\ pol'.outcome = pol.outcome
    BY <1>1, <1>4, <2>2, SettleWaitTyped DEF PolicySteps, InRun
  <2>4. QED
    BY <1>2, <1>3, <2>1, <2>3, QuietKeeps DEF Final, RoundStart, Releases
<1>5. CASE UNCHANGED ownerVars
  <2>1. OnlyPolicy
    BY <1>2, <1>5 DEF OnlyPolicy
  <2>2. HandStands
    BY <2>1, OnlyStands
  <2>3. CASE pol' = [pol EXCEPT !.pc = "settle_wait", !.waitBy = now]
    <3>1. /\ pol' \in Policies /\ pol'.pc = "settle_wait"
          /\ pol'.cmd = pol.cmd /\ pol'.final = pol.final
          /\ pol'.failed = pol.failed /\ pol'.outcome = pol.outcome
      BY <1>1, <2>3, SettleWaitTyped DEF PolicySteps, InRun
    <3>2. QED
      BY <1>2, <1>3, <2>2, <3>1, QuietKeeps DEF Final, RoundStart, Releases
  <2>4. CASE Throws
    BY <1>2, <2>1, <2>4, ThrowsAlone DEF Ending, Stops
  <2>5. CASE BeginSettle
           /\ pol' = [pol EXCEPT !.pc = "settle_ready", !.waitBy = own'.settleBy]
    BY <1>4, <2>5
  <2>6. QED BY <2>3, <2>4, <2>5 DEF SettleCall
<1>6. QED BY <1>4, <1>5 DEF SettleCall

\* The waits of the settle, and the result.
LEMMA SettleRoundKeeps ==
  ASSUME Inv, SettleReady \/ SettleWait \/ Result
  PROVE  Inv'
<1>1. SharedTyped /\ pol \in Policies
  BY InvParts
<1>2. CASE SettleReady
  <2>1. /\ pol.pc = "settle_ready" /\ UNCHANGED shared
        /\ UNCHANGED <<fr, external, records>>
        /\ \/ Step("settle_wait") /\ UNCHANGED ownerVars
           \/ Throws /\ UNCHANGED ownerVars
           \/ Throws /\ SettleGivesUp
    BY <1>2 DEF SettleReady
  <2>2. UNCHANGED <<ledger, gate, now, hold, stopEvent, cleanStop, callbackFault>>
    BY <2>1 DEF shared
  <2>3. CASE UNCHANGED ownerVars
    <3>1. OnlyPolicy
      BY <2>1, <2>3 DEF OnlyPolicy
    <3>2. CASE Step("settle_wait")
      BY <2>1, <2>2, <3>1, <3>2, OnlyStands, QuietStep
      DEF Final, RoundStart, Releases
    <3>3. CASE Throws
      BY <2>1, <3>1, <3>3, ThrowsAlone DEF Ending, Stops
    <3>4. QED BY <2>1, <3>2, <3>3
  <2>4. CASE Throws /\ SettleGivesUp
    <3>1. HandStands
      BY <1>1, <2>2, <2>4, CallStands DEF SharedTyped
    <3>2. QED BY <2>1, <2>2, <2>4, <3>1, ThrowsKeeps DEF Ending, Stops
  <2>5. QED BY <2>1, <2>3, <2>4
<1>3. CASE SettleWait
  <2>1. /\ pol.pc = "settle_wait" /\ OnlyPolicy
        /\ Throws \/ Step("result") \/ pol' = pol
    BY <1>3 DEF SettleWait
  <2>2. CASE Throws
    BY <2>1, <2>2, ThrowsAlone DEF Ending, Stops
  <2>3. CASE Step("result")
    BY <2>1, <2>3, OnlyStands, QuietStep DEF Final, RoundStart, Releases
  <2>4. CASE pol' = pol
    BY <1>1, <2>1, <2>4, OnlyStands, QuietKeeps DEF Final, RoundStart, Releases
  <2>5. QED BY <2>1, <2>2, <2>3, <2>4
<1>4. CASE Result
  <2>1. /\ pol.pc = "result" /\ OnlyPolicy
        /\ Throws \/ (Step("stop_loop") /\ tracking.state \in {"idle", "verified"})
    BY <1>4, InvParts DEF Result, OwnerTypeOK, Trackings
  <2>2. CASE Throws
    BY <2>1, <2>2, ThrowsAlone DEF Ending, Stops
  <2>3. CASE Step("stop_loop") /\ tracking.state \in {"idle", "verified"}
    BY <2>1, <2>3, OnlyStands, QuietStep DEF Final, RoundStart, Releases
  <2>4. QED BY <2>1, <2>2, <2>3
<1>5. QED BY <1>2, <1>3, <1>4

\* The except clause fails the ledger and marks the run.
LEMMA ExceptKeeps ==
  ASSUME Inv, ExceptLedger
  PROVE  Inv'
<1>1. /\ pol \in Policies /\ PolicyTyped /\ RoundCourse /\ StopCourse
      /\ SharedTyped /\ ledger \in Ledgers /\ external \in BOOLEAN
  BY InvParts
<1>2. /\ pol.pc = "exc_ledger"
      /\ UNCHANGED <<gate, now, hold, stopEvent, cleanStop, callbackFault>>
      /\ UNCHANGED ownerVars /\ UNCHANGED <<fr, external, records>>
      /\ ledger' \in {Fail(ledger), ledger}
  BY DEF ExceptLedger
<1>3. PICK kept \in {pol.cmd.seq, pol.failurePending} :
        pol' = [pol EXCEPT !.pc = "exc_gate", !.failed = TRUE, !.pending = FALSE,
                           !.cmd = NoCommand, !.failurePending = kept]
  BY DEF ExceptLedger
<1>4. kept \in 0 .. MaxSequence
  BY <1>1, <1>3 DEF PolicyTyped, Policies
<1>5. /\ pol' \in Policies /\ pol'.pc = "exc_gate" /\ pol'.failed
      /\ pol'.cmd = NoCommand /\ pol'.outcome = pol.outcome
      /\ pol'.final = pol.final
  BY <1>1, <1>3, <1>4 DEF Policies, PolicySteps
<1>6. ledger' \in Ledgers /\ LedgerStands
  <2>1. "device" \in FaultReasons
    BY DEF FaultReasons
  <2>2. QED BY <1>1, <1>2, <2>1, LatchKeeps DEF Fail, LedgerStands
<1>7. HandStands
  BY <1>1, <1>2, <1>6, AloneStands DEF SharedTyped
<1>8. NoCommand.seq = 0 /\ NoCommand.produced = 0 /\ 0 \in 0 .. MaxSequence
      /\ 0 \in 0 .. MaxTime
  BY LoopAssumption DEF NoCommand
<1>9. PolicyTyped'
  BY <1>1, <1>2, <1>5, <1>8
  DEF PolicyTyped, PolicyTypeOK, CommandSteps, RoundStart, Releases
<1>10. RoundCourse' /\ RecordCourse'
  BY <1>5 DEF RoundCourse, RecordCourse, Ending
<1>11. HandedOver'
  BY <1>5 DEF HandedOver
<1>12. StopCourse'
  BY <1>1, <1>2, <1>5, <1>7, StopStays DEF StopCourse, Ending, Stops
<1>13. pol.pc # "end"
  BY <1>2
<1>14. QED
  BY <1>2, <1>5, <1>7, <1>9, <1>10, <1>11, <1>12, <1>13, PolicyKeeps

\* Steps of the ending that keep the proof of the stop.
LEMMA EndingStep ==
  ASSUME Inv, HandStands, ledger' = ledger, UNCHANGED <<fr, external, records>>,
         pol.pc \in Ending, pol.pc # "end",
         pol' \in Policies, pol'.pc \in Ending \ {"exc_gate", "end"},
         pol'.cmd = pol.cmd, pol'.final = pol.final,
         pol'.failed = pol.failed, pol'.outcome = pol.outcome,
         pol'.pc = "stop_loop" => pol.pc = "exc_gate" /\ stopEvent' = stopEvent,
         ~pol'.errors /\ pol'.pc \in {"join_arm", "verdict"} =>
           pc = "done" /\ HandProven /\ ~own.fault,
         ~pol'.errors /\ pol'.pc = "verdict" => FrankaDone /\ fr.stopped
  PROVE  Inv'
<1>1. /\ PolicyTyped /\ RoundCourse /\ RecordCourse /\ StopCourse /\ EndCourse
      /\ external \in BOOLEAN
  BY InvParts
<1>2. pol'.pc \notin CommandSteps \cup RoundStart \cup Final \cup {"exc_ledger"}
  BY DEF CommandSteps, RoundStart, Releases, Final, Ending, Stops
<1>3. PolicyTyped'
  BY <1>1, <1>2 DEF PolicyTyped, PolicyTypeOK, RoundStart
<1>4. RoundCourse' /\ RecordCourse'
  <2>1. pol'.pc \notin {"health", "stage", "publish", "barrier", "submit", "ticket",
                        "faultcheck", "commit", "record", "source"}
    BY <1>2 DEF CommandSteps
  <2>2. ~pol.failed => ~HasPending(ledger) /\ records = 1 .. ledger.committed
    BY <1>1 DEF RoundCourse, RecordCourse
  <2>3. QED BY <2>1, <2>2 DEF RoundCourse, RecordCourse, HasPending
<1>5. StopCourse'
  <2>1. UNCHANGED <<pc, callbackFault>>
    BY DEF HandStands
  <2>2. stopEvent' => callbackFault \/ pol'.pc \in Ending \ {"exc_gate", "stop_loop"}
    BY <1>1 DEF StopCourse
  <2>3. pol'.pc # "release_recheck"
    BY <1>2 DEF RoundStart, Releases
  <2>4. QED BY <1>1, <2>1, <2>2, <2>3 DEF StopCourse
<1>6. HandedOver => HandedOver'
  BY DEF HandedOver, Ending, Stops
<1>7. ~pol'.failed /\ pol'.pc \in Ending => tracking.state \in {"idle", "verified"}
  BY <1>1 DEF EndCourse
<1>8. QED
  BY <1>3, <1>4, <1>5, <1>6, <1>7, PolicyKeeps

\* The gate is latched and everybody is stopped, one signal after the other.
LEMMA StoppingKeeps ==
  ASSUME Inv, ExceptGate \/ StopLoop \/ StopArm \/ StopHand
  PROVE  Inv'
<1>1. /\ SharedTyped /\ pol \in Policies /\ ledger \in Ledgers
      /\ stopEvent \in BOOLEAN /\ cleanStop \in BOOLEAN
  BY InvParts
<1>2. ASSUME NEW step \in {"stop_loop", "stop_arm", "stop_hand", "join_hand"},
             Step(step), HandStands, ledger' = ledger,
             UNCHANGED <<fr, external, records>>,
             pol.pc \in Ending, pol.pc # "end",
             step = "stop_loop" => pol.pc = "exc_gate" /\ stopEvent' = stopEvent
      PROVE  Inv'
  <2>1. step \in PolicySteps /\ step \in Ending \ {"exc_gate", "end"}
    BY DEF PolicySteps, Stops, Ending
  <2>2. /\ pol' \in Policies /\ pol'.pc = step
        /\ pol'.cmd = pol.cmd /\ pol'.final = pol.final
        /\ pol'.failed = pol.failed /\ pol'.outcome = pol.outcome
    BY <1>1, <1>2, <2>1, StepEffect
  <2>3. pol'.pc \notin {"join_arm", "verdict"}
    BY <2>2
  <2>4. QED BY <1>2, <2>1, <2>2, <2>3, EndingStep
<1>3. CASE ExceptGate
  <2>1. /\ pol.pc = "exc_gate" /\ gate' = LatchGate(gate, "external")
        /\ Step("stop_loop")
        /\ UNCHANGED <<ledger, now, hold, stopEvent, cleanStop, callbackFault>>
        /\ UNCHANGED ownerVars /\ UNCHANGED <<fr, external, records>>
    BY <1>3 DEF ExceptGate
  <2>2. HandStands
    BY <1>1, <2>1, AloneStands DEF SharedTyped, LedgerStands
  <2>3. QED BY <1>2, <2>1, <2>2 DEF Ending, Stops
<1>4. CASE StopLoop
  <2>1. /\ pol.pc = "stop_loop" /\ stopEvent' = TRUE /\ Step("stop_arm")
        /\ UNCHANGED <<ledger, gate, now, hold, cleanStop, callbackFault>>
        /\ UNCHANGED ownerVars /\ UNCHANGED <<fr, external, records>>
    BY <1>4 DEF StopLoop
  <2>2. HandStands
    BY <1>1, <2>1, AloneStands DEF SharedTyped, LedgerStands
  <2>3. QED BY <1>2, <2>1, <2>2 DEF Ending, Stops
<1>5. CASE StopArm
  <2>1. /\ pol.pc = "stop_arm" /\ cleanStop' = TRUE /\ Step("stop_hand")
        /\ UNCHANGED <<ledger, gate, now, hold, stopEvent, callbackFault>>
        /\ UNCHANGED ownerVars /\ UNCHANGED <<fr, external, records>>
    BY <1>5 DEF StopArm
  <2>2. HandStands
    BY <1>1, <2>1, AloneStands DEF SharedTyped, LedgerStands
  <2>3. QED BY <1>2, <2>1, <2>2 DEF Ending, Stops
<1>6. CASE StopHand
  <2>1. /\ pol.pc = "stop_hand" /\ RequestOwnerStop /\ Step("join_hand")
        /\ UNCHANGED <<ledger, gate, now, hold, stopEvent, cleanStop, callbackFault>>
        /\ UNCHANGED <<fr, external, records>>
    BY <1>6 DEF StopHand, shared
  <2>2. HandStands
    BY <1>1, <2>1, CallStands
  <2>3. QED BY <1>2, <2>1, <2>2 DEF Ending, Stops
<1>7. QED BY <1>3, <1>4, <1>5, <1>6

\* A join that found no error has the proof of its owner, which has ended.
LEMMA JoinKeeps ==
  ASSUME Inv, JoinHand \/ JoinArm
  PROVE  Inv'
<1>1. /\ EndCourse /\ Supervised /\ pol \in Policies /\ fr \in Sessions
      /\ own \in Owners
  BY InvParts DEF FrankaTypeOK
<1>2. OnlyPolicy
  BY DEF JoinHand, JoinArm
<1>3. /\ HandStands /\ ledger' = ledger
      /\ UNCHANGED <<fr, external, records, stopEvent>>
  BY <1>2, OnlyStands
<1>4. CASE JoinHand
  <2>1. PICK b \in BOOLEAN, e \in BOOLEAN :
          /\ b = (pc = "done" /\ HandProven)
          /\ e = (~b \/ (Supervised /\ own.fault))
    OBVIOUS
  <2>2. pol' = [pol EXCEPT !.pc = "join_arm", !.hand = b, !.errors = e]
    BY <1>4, <2>1 DEF JoinHand
  <2>3. /\ pol' \in Policies /\ pol'.pc = "join_arm" /\ pol'.errors = e
        /\ pol'.cmd = pol.cmd /\ pol'.final = pol.final
        /\ pol'.failed = pol.failed /\ pol'.outcome = pol.outcome
    BY <1>1, <2>2 DEF Policies, PolicySteps
  <2>4. ~e => pc = "done" /\ HandProven /\ ~own.fault
    BY <1>1, <2>1
  <2>5. pol.pc = "join_hand"
    BY <1>4 DEF JoinHand
  <2>6. QED
    BY <1>3, <2>3, <2>4, <2>5, EndingStep DEF Ending
<1>5. CASE JoinArm
  <2>1. pol.pc = "join_arm"
    BY <1>5 DEF JoinArm
  <2>2. PICK b \in BOOLEAN : b = (FrankaDone /\ fr.stopped)
    OBVIOUS
  <2>3. PICK closes \in BOOLEAN :
          pol' = [pol EXCEPT !.pc = "verdict", !.arm = b,
                             !.errors = @ \/ ~b \/ ~closes]
    BY <1>5, <2>2 DEF JoinArm
  <2>4. PICK e \in BOOLEAN : e = (pol.errors \/ ~b \/ ~closes)
    BY <1>1 DEF Policies
  <2>5. pol' = [pol EXCEPT !.pc = "verdict", !.arm = b, !.errors = e]
    BY <1>1, <2>3, <2>4
  <2>6. /\ pol' \in Policies /\ pol'.pc = "verdict" /\ pol'.errors = e
        /\ pol'.cmd = pol.cmd /\ pol'.final = pol.final
        /\ pol'.failed = pol.failed /\ pol'.outcome = pol.outcome
    BY <1>1, <2>5 DEF Policies, PolicySteps
  <2>7. ~e => FrankaDone /\ fr.stopped
    BY <2>2, <2>4
  <2>8. ~e => pc = "done" /\ HandProven /\ ~own.fault
    BY <1>1, <2>1, <2>4 DEF EndCourse
  <2>9. QED
    BY <1>3, <2>1, <2>6, <2>7, <2>8, EndingStep DEF Ending
<1>6. QED BY <1>4, <1>5

\* What the verdict requires of the stop and of the ledger makes the run clean.
LEMMA PassIsClean ==
  ASSUME Inv, pol.pc = "verdict", ~pol.failed, ~pol.errors,
         ledger.committed = MaxSequence
  PROVE  /\ ~HasPending(ledger) /\ records = Sequences1
         /\ tracking.state \in {"idle", "verified"}
         /\ pc = "done" /\ ~own.fault /\ act.confirmed
         /\ port.disable /\ port.serial = "closed"
         /\ FrankaDone /\ fr.stopped
<1>1. /\ HandInv /\ EndCourse /\ RoundCourse /\ RecordCourse /\ Supervised
  BY InvParts
<1>2. /\ pc = "done" /\ HandProven /\ ~own.fault /\ FrankaDone /\ fr.stopped
      /\ tracking.state \in {"idle", "verified"}
  BY <1>1 DEF EndCourse, Ending
<1>3. /\ act.confirmed /\ port.disable /\ port.serial = "closed"
  BY <1>1, <1>2 DEF HandProven, DisabledVerified, HandInv, ReportCourse
<1>4. ~HasPending(ledger) /\ records = 1 .. ledger.committed
  BY <1>1 DEF RoundCourse, RecordCourse, Ending
<1>5. QED BY <1>2, <1>3, <1>4 DEF Sequences1

\* The gate of the run disarms if it is still armed, and stays as it is otherwise.
LEMMA DisarmedGate ==
  ASSUME Inv
  PROVE  /\ Disarm(gate, "run", TRUE, TRUE) \in Gates
         /\ Disarm(gate, "run", TRUE, TRUE).state # "armed"
         /\ gate.state # "armed" => Disarm(gate, "run", TRUE, TRUE) = gate
<1>1. gate \in Gates /\ (gate.state = "armed" => gate.auth = RunAuthorization)
  BY InvParts DEF EndCourse
<1>2. CASE gate.state # "armed"
  BY <1>1, <1>2 DEF Disarm
<1>3. CASE gate.state = "armed"
  <2>1. gate.auth.run = "run"
    BY <1>1, <1>3 DEF RunAuthorization
  <2> DEFINE c == [t \in Threads |-> NoSample]
  <2>2. c \in [Threads -> Int] /\ NoSample \in Int
    BY DEF NoSample
  <2>3. Disarm(gate, "run", TRUE, TRUE) =
          [gate EXCEPT !.auth = NoAuthorization, !.highest = NoSample,
                       !.clock = c, !.state = "disarmed"]
    BY <1>3, <2>1 DEF Disarm
  <2> HIDE DEF c
  <2>4. QED BY <1>1, <1>3, <2>2, <2>3 DEF Gates, GateStates
<1>4. QED BY <1>2, <1>3

\* The verdict, and the gate that a passed run does not leave armed.
LEMMA VerdictKeeps ==
  ASSUME Inv, Verdict
  PROVE  Inv'
<1>1. /\ SharedTyped /\ OwnerTypeOK /\ FrankaTypeOK /\ PolicyTyped /\ HandInv
      /\ BarrierCourse /\ ArmCourse /\ RoundCourse /\ RecordCourse /\ StopCourse
      /\ EndCourse /\ Supervised /\ FrankaFirst
      /\ pol \in Policies /\ gate \in Gates /\ external \in BOOLEAN
  BY InvParts
<1>2. /\ pol.pc = "verdict"
      /\ UNCHANGED <<ledger, now, hold, stopEvent, cleanStop, callbackFault>>
      /\ UNCHANGED ownerVars /\ UNCHANGED <<fr, external, records>>
  BY DEF Verdict
<1>3. UNCHANGED <<own, act, pc, why, ticket, tracking, port, writes>>
  BY <1>2 DEF ownerVars
<1>4. PICK outcome \in {"PASS", "FAIL"} :
        /\ pol' = [pol EXCEPT !.pc = "end", !.outcome = outcome]
        /\ outcome = "PASS" => /\ ~pol.failed /\ ~pol.errors
                               /\ ledger.committed = MaxSequence
                               /\ gate' = Disarm(gate, "run", TRUE, TRUE)
        /\ outcome = "FAIL" => gate' = gate
  <2> DEFINE passes == /\ ~pol.failed /\ Proven /\ ~pol.errors
                       /\ ledger.committed = MaxSequence
  <2>1. /\ pol' = [pol EXCEPT !.pc = "end",
                              !.outcome = IF passes THEN "PASS" ELSE "FAIL"]
        /\ gate' = IF passes THEN Disarm(gate, "run", TRUE, TRUE) ELSE gate
    BY DEF Verdict
  <2>2. passes => ~pol.failed /\ ~pol.errors /\ ledger.committed = MaxSequence
    OBVIOUS
  <2> HIDE DEF passes
  <2>3. CASE passes
    BY <2>1, <2>2, <2>3
  <2>4. CASE ~passes
    BY <2>1, <2>4
  <2>5. QED BY <2>3, <2>4
<1>5. /\ pol' \in Policies /\ pol'.pc = "end" /\ pol'.outcome = outcome
      /\ pol'.cmd = pol.cmd /\ pol'.failed = pol.failed /\ pol'.final = pol.final
  BY <1>1, <1>4 DEF Policies, PolicySteps, Outcomes
<1>6. /\ gate' \in Gates /\ (gate.state # "armed" => gate' = gate)
      /\ (gate'.state = "armed" => gate' = gate)
      /\ (outcome = "PASS" => gate'.state # "armed")
  BY <1>1, <1>4, DisarmedGate
<1>7. SharedTyped'
  BY <1>1, <1>2, <1>6 DEF SharedTyped
<1>8. OwnerTypeOK' /\ HandInv'
  <2>1. SignalsStay
    BY <1>2, <1>6 DEF SignalsStay
  <2>2. BarrierMoves
    BY <1>2 DEF BarrierMoves
  <2>3. QED BY <1>1, <1>2, <2>1, <2>2, OthersKeep DEF OwnerTypeOK, ownerVars
<1>9. "end" \notin CommandSteps \cup RoundStart \cup Final
  BY DEF CommandSteps, RoundStart, Releases, Final
<1>10. PolicyTyped'
  BY <1>1, <1>2, <1>5, <1>9 DEF PolicyTyped, PolicyTypeOK, RoundStart
<1>11. BarrierCourse'
  <2>1. HandedOver => HandedOver'
    BY <1>2, <1>5 DEF HandedOver
  <2>2. QED
    BY <1>1, <1>2, <1>3, <2>1 DEF BarrierCourse, Executing, HasPending
<1>12. ArmCourse'
  BY <1>1, <1>2, <1>6 DEF ArmCourse
<1>13. RoundCourse' /\ RecordCourse' /\ StopCourse'
  <2>1. "verdict" \in Ending \ {"exc_gate", "stop_loop"}
        /\ "end" \in Ending \ {"exc_gate", "stop_loop"}
    BY DEF Ending, Stops
  <2>2. "end" \notin RoundStart \cup Final /\ "end" # "release_recheck"
    BY <1>9
  <2>3. RoundCourse' /\ RecordCourse'
    BY <1>1, <1>2, <1>5, <1>9, <2>1
    DEF RoundCourse, RecordCourse, CommandSteps, HasPending
  <2>4. StopCourse'
    BY <1>1, <1>2, <1>3, <1>5, <2>1, <2>2 DEF StopCourse
  <2>5. QED BY <2>3, <2>4
<1>14. EndCourse'
  <2>1. gate'.state = "armed" => gate'.auth = RunAuthorization
    BY <1>1, <1>6 DEF EndCourse
  <2>2. ~pol'.failed => tracking'.state \in {"idle", "verified"}
    BY <1>1, <1>2, <1>3, <1>5 DEF EndCourse, Ending
  <2>3. QED BY <1>5, <2>1, <2>2 DEF EndCourse
<1>15. FrankaTypeOK' /\ FrankaFirst' /\ Supervised'
  BY <1>1, <1>2, <1>3 DEF FrankaTypeOK, FrankaFirst, Supervised
<1>16. PassMeansCleanRun'
  <2>1. CASE outcome = "PASS"
    <3>1. ~pol.failed /\ ~pol.errors /\ ledger.committed = MaxSequence
      BY <1>4, <2>1
    <3>2. gate'.state # "armed"
      BY <1>6, <2>1
    <3>3. QED
      BY <1>2, <1>3, <3>1, <3>2, PassIsClean
      DEF PassMeansCleanRun, FrankaDone, HasPending
  <2>2. CASE outcome # "PASS"
    BY <1>5, <2>2 DEF PassMeansCleanRun
  <2>3. QED BY <2>1, <2>2
<1>17. QED
  BY <1>7, <1>8, <1>10, <1>11, <1>12, <1>13, <1>14, <1>15, <1>16 DEF Inv, LoopInv

(* the rest of the run, and what follows ------------------------------------------- *)

\* A step outside the three threads moves the clock or an interlock.
LEMMA OutsideKeeps ==
  ASSUME Inv, SharedTyped', SignalsStay,
         UNCHANGED <<ledger, stopEvent, callbackFault, ownerVars, fr, pol,
                     external, records>>,
         gate.state # "armed" => gate'.state = gate.state,
         gate' = gate \/ gate'.state # "armed"
  PROVE  Inv'
<1>1. /\ FrankaTypeOK /\ OwnerTypeOK /\ PolicyTyped /\ HandInv /\ BarrierCourse
      /\ ArmCourse /\ RoundCourse /\ RecordCourse /\ StopCourse /\ EndCourse
      /\ FrankaFirst /\ PassMeansCleanRun /\ Supervised
  BY InvParts
<1>2. /\ UNCHANGED <<own, act, pc, why, ticket, tracking, port, writes>>
      /\ UNCHANGED <<ledger, stopEvent, callbackFault, fr, pol, external, records>>
  BY DEF ownerVars
<1>3. OwnerTypeOK' /\ HandInv'
  <2>1. BarrierMoves
    BY <1>2 DEF BarrierMoves
  <2>2. QED BY <1>1, <2>1, OthersKeep DEF OwnerTypeOK, ownerVars
<1>4. BarrierCourse'
  BY <1>1, <1>2 DEF BarrierCourse, Executing, HasPending, HandedOver
<1>5. ArmCourse'
  BY <1>1, <1>2 DEF ArmCourse
<1>6. RoundCourse' /\ RecordCourse' /\ StopCourse'
  BY <1>1, <1>2 DEF RoundCourse, RecordCourse, StopCourse, HasPending
<1>7. EndCourse'
  <2>1. HandProven' = HandProven /\ FrankaDone' = FrankaDone
    BY <1>2 DEF HandProven, DisabledVerified, FrankaDone, Supervised
  <2>2. gate'.state = "armed" => gate'.auth = RunAuthorization
    BY <1>1 DEF EndCourse
  <2>3. QED BY <1>1, <1>2, <2>1, <2>2 DEF EndCourse
<1>8. /\ FrankaTypeOK' /\ PolicyTyped' /\ FrankaFirst' /\ Supervised'
  BY <1>1, <1>2 DEF FrankaTypeOK, PolicyTyped, PolicyTypeOK, FrankaFirst, Supervised
<1>9. PassMeansCleanRun'
  <2>1. gate.state # "armed" => gate'.state # "armed"
    OBVIOUS
  <2>2. QED
    BY <1>1, <1>2, <2>1 DEF PassMeansCleanRun, FrankaDone, HasPending
<1>10. QED BY <1>3, <1>4, <1>5, <1>6, <1>7, <1>8, <1>9 DEF Inv, LoopInv

\* The interlocks and the clock keep the invariant, and so does no step.
LEMMA OutsideStep ==
  ASSUME Inv, InterlockOpens \/ Tick \/ UNCHANGED vars
  PROVE  Inv'
<1>1. SharedTyped /\ gate \in Gates /\ now \in 0 .. MaxTime
  BY InvParts
<1>2. CASE InterlockOpens
  <2>1. /\ gate' = UpdateInterlocks(gate, "open", "ok")
        /\ UNCHANGED <<ledger, now, hold, stopEvent, cleanStop, callbackFault>>
        /\ UNCHANGED ownerVars /\ UNCHANGED <<fr, pol, external, records>>
    BY <1>2 DEF InterlockOpens
  <2>2. /\ gate' \in Gates /\ gate'.state # "armed"
        /\ gate.state # "armed" => gate'.state = gate.state
    BY <1>1, <2>1, TrippedGate
  <2>3. SharedTyped' /\ SignalsStay
    BY <1>1, <2>1, <2>2 DEF SharedTyped, SignalsStay
  <2>4. QED BY <2>1, <2>2, <2>3, OutsideKeeps
<1>3. CASE Tick
  <2>1. /\ now < MaxTime /\ now' = now + 1
        /\ UNCHANGED <<ledger, gate, hold, stopEvent, cleanStop, callbackFault>>
        /\ UNCHANGED ownerVars /\ UNCHANGED <<fr, pol, external, records>>
    BY <1>3 DEF Tick
  <2>2. SharedTyped' /\ SignalsStay
    BY <1>1, <2>1, LoopAssumption DEF SharedTyped, SignalsStay
  <2>3. QED BY <2>1, <2>2, OutsideKeeps
<1>4. CASE UNCHANGED vars
  <2>1. /\ UNCHANGED <<ledger, gate, now, hold, stopEvent, cleanStop, callbackFault>>
        /\ UNCHANGED ownerVars /\ UNCHANGED <<fr, pol, external, records>>
    BY <1>4 DEF vars, shared
  <2>2. SharedTyped' /\ SignalsStay
    BY <1>1, <2>1 DEF SharedTyped, SignalsStay
  <2>3. QED BY <2>1, <2>2, OutsideKeeps
<1>5. QED BY <1>2, <1>3, <1>4

\* Ctrl+C raises in run, where every step may raise.
LEMMA InterruptedKeeps ==
  ASSUME Inv, Interrupted
  PROVE  Inv'
<1>1. /\ pol.pc \in InRun /\ Throws /\ UNCHANGED shared
      /\ UNCHANGED <<fr, external, records>>
      /\ RequestOwnerStop \/ UNCHANGED ownerVars
  BY DEF Interrupted
<1>2. pol.pc \notin Ending \cup {"exc_ledger"}
  BY <1>1 DEF InRun, Releases, Ending, Stops
<1>3. /\ UNCHANGED <<ledger, gate, now, hold, stopEvent, cleanStop, callbackFault>>
      /\ stopEvent \in BOOLEAN /\ cleanStop \in BOOLEAN
  BY <1>1, InvParts DEF shared
<1>4. CASE RequestOwnerStop
  <2>1. HandStands
    BY <1>3, <1>4, CallStands
  <2>2. QED BY <1>1, <1>2, <1>3, <2>1, ThrowsKeeps
<1>5. CASE UNCHANGED ownerVars
  BY <1>1, <1>2, <1>5, ThrowsAlone DEF OnlyPolicy
<1>6. QED BY <1>1, <1>4, <1>5

\* The policy thread's steps keep the invariant of the loop.
LEMMA PolicyStep ==
  ASSUME Inv, Policy
  PROVE  Inv'
BY ReleaseKeeps, PrepareKeeps, HealthKeeps, StageKeeps, PublishKeeps, BarrierKeeps,
   SubmitKeeps, TicketKeeps, CommitKeeps, RecordKeeps, SourceKeeps, SettleKeeps,
   SettleCallKeeps, SettleRoundKeeps, ExceptKeeps, StoppingKeeps, JoinKeeps,
   VerdictKeeps DEF Policy, Runtime

\* Setup leaves a run in which nobody has done or failed anything.
LEMMA LoopStart ==
  ASSUME Init
  PROVE  Inv
<1>1. /\ 0 \in 0 .. MaxSequence /\ 0 \in 0 .. MaxTime
      /\ 0 \in 0 .. MaxTime + TrackingTimeout + FeedbackHardAge
      /\ 0 \in 0 .. MaxTime + TrackingTimeout
      /\ 0 \in 0 .. MaxTime + Period
      /\ 0 \in 0 .. MaxTime + TrackingTimeout + FeedbackHardAge + ResponseTimeout
      /\ 0 < MaxSequence
  BY LoopAssumption, OwnerAssumption, ClosedLoopAssumption
<1>2. /\ ledger = NewLedger /\ gate = ArmedGate /\ now = 0 /\ hold = NoTarget
      /\ stopEvent = FALSE /\ cleanStop = FALSE /\ callbackFault = FALSE
      /\ external = FALSE /\ records = {}
  BY DEF Init, RunInit, SharedInit
<1>3. /\ ledger \in Ledgers /\ ledger.committed = 0 /\ ledger.pending.seq = 0
      /\ ledger.acked = {} /\ gate.state = "armed" /\ gate.auth = RunAuthorization
  <2>1. ArmedGate.auth = RunAuthorization
    BY DEF ArmedGate, Armed, UpdateInterlocks, NewGate
  <2>2. QED
    BY <1>2, <2>1, NewLedgerTyped, ArmedGateTyped DEF NewLedger, NoCommand
<1>4. SharedTyped
  BY <1>1, <1>2, <1>3, ArmedGateTyped DEF SharedTyped, NoTarget
<1>5. /\ own = [NewOwner EXCEPT !.supervised = TRUE, !.state = "running"]
      /\ act = ArmedActuator(Never) /\ pc = "top" /\ why = "none"
      /\ ticket = [n \in Sequences1 |-> "none"] /\ lastFeedback = 0
      /\ tracking = [state |-> "idle", by |-> 0]
      /\ port = [disable |-> FALSE, serial |-> "open"]
      /\ writes = [n \in Sequences1 |-> 0]
  BY DEF Init, RunInit
<1>6. OwnerTypeOK
  <2>1. own \in Owners
    BY <1>1, <1>5, ClosedLoopAssumption DEF NewOwner, Owners, OwnerStates, Settles
  <2>2. act \in Actuators
    BY <1>1, <1>5 DEF ArmedActuator, Actuators
  <2>3. tracking \in Trackings /\ port \in Ports
    BY <1>1, <1>5 DEF Trackings, Ports
  <2>4. QED
    BY <1>1, <1>5, <2>1, <2>2, <2>3 DEF OwnerTypeOK, WorkerSteps, Reasons, Tickets
<1>7. /\ own.state = "running" /\ own.request = 0 /\ own.inflight = 0
      /\ own.fault = FALSE /\ own.sent = FALSE /\ ~own.report /\ ~own.confirmed
      /\ own.supervised = TRUE
      /\ act.state = "armed" /\ ~act.confirmed /\ act.acked = 0 /\ act.holds = 0
      /\ ~port.disable /\ port.serial = "open"
      /\ \A n \in Sequences1 : ticket[n] = "none" /\ writes[n] = 0
  BY <1>5 DEF NewOwner, ArmedActuator
<1>8. HandInv
  <2>1. FaultCourse
    BY <1>5, <1>7 DEF FaultCourse, Announcing
  <2>2. PortCourse /\ SilentCourse /\ ReportCourse
    BY <1>5, <1>7 DEF PortCourse, GivenUp, SilentCourse, ReportCourse
  <2>3. FrameCourse
    BY <1>3, <1>5, <1>7 DEF FrameCourse, Executing
  <2>4. QED BY <2>1, <2>2, <2>3 DEF HandInv
<1>9. FrankaTypeOK
  BY <1>1 DEF Init, RunInit, FrankaInit, FrankaTypeOK, Sessions, FrankaSteps, NoTarget
<1>10. /\ fr.pc = "cycle" /\ fr.acked = 0 /\ fr.current = 0 /\ ~fr.failed /\ ~fr.late
  BY DEF Init, RunInit, FrankaInit
<1>11. /\ pol \in Policies /\ pol.pc = "release" /\ pol.cmd = NoCommand
       /\ ~pol.failed /\ ~pol.final /\ pol.outcome = "running"
  BY <1>1
  DEF Init, RunInit, NewPolicy, Policies, PolicySteps, InRun, Releases, Outcomes
<1>12. PolicyTyped
  <2>1. NoCommand.seq = 0 /\ NoCommand.produced = 0
    BY DEF NoCommand
  <2>2. QED
    BY <1>1, <1>2, <1>3, <1>11, <2>1 DEF PolicyTyped, PolicyTypeOK, CommandSteps
<1>13. BarrierCourse
  BY <1>3, <1>5, <1>7 DEF BarrierCourse, HasPending, Executing
<1>14. ArmCourse
  BY <1>3, <1>10 DEF ArmCourse
<1>15. "release" \notin Final \cup Ending
  BY DEF Final, Ending, Stops
<1>16. RoundCourse /\ RecordCourse
  BY <1>2, <1>3, <1>11, <1>15 DEF RoundCourse, RecordCourse, HasPending
<1>17. StopCourse /\ EndCourse
  BY <1>2, <1>3, <1>5, <1>11, <1>15 DEF StopCourse, EndCourse
<1>18. FrankaFirst /\ PassMeansCleanRun /\ Supervised
  BY <1>7, <1>11 DEF FrankaFirst, PassMeansCleanRun, Supervised
<1>19. QED
  BY <1>4, <1>6, <1>8, <1>9, <1>12, <1>13, <1>14, <1>16, <1>17, <1>18
  DEF Inv, LoopInv

\* One supervised run, its three threads, Ctrl+C and the interlocks in any order:
\* each keeps the courses that the others rely on.
THEOREM LoopInvariant == Spec => []Inv
<1>1. Inv /\ [Next]_vars => Inv'
  BY HandStep, ArmStep, PolicyStep, InterruptedKeeps, OutsideStep DEF Next, Alone
<1>2. QED BY LoopStart, <1>1, PTL DEF Spec

\* Every field of the run's state keeps its type, whatever the threads do.
THEOREM LoopTyped == Spec => []ClosedLoopTypeOK
<1>1. Inv => ClosedLoopTypeOK
  BY LoopAssumption
  DEF Inv, SharedTyped, PolicyTyped, ClosedLoopTypeOK, SharedTypeOK, Gates
<1>2. QED BY LoopInvariant, <1>1, PTL

\* _wait_for_franka_ack_before_rh56: the hand is never sent a target that the arm
\* has not written and acknowledged.
THEOREM ArmMovesFirst == Spec => []FrankaFirst
<1>1. Inv => FrankaFirst
  BY DEF Inv
<1>2. QED BY LoopInvariant, <1>1, PTL

\* A sequence that the barrier counts as executed was executed by both devices.
THEOREM BothMoved == Spec => []CommitMeansBothMoved
<1>1. Inv => CommitMeansBothMoved
  <2> SUFFICES ASSUME Inv PROVE CommitMeansBothMoved
    OBVIOUS
  <2>1. /\ RoundCourse /\ ArmCourse /\ BarrierCourse /\ HandInv
        /\ ledger.committed \in 0 .. MaxSequence
    BY InvParts
  <2>2. act.acked \in Nat /\ act.holds \in Nat /\ ledger.committed \in Nat
        /\ fr.acked \in Nat
    BY <2>1, InvParts, LoopAssumption DEF OwnerTypeOK, Actuators
  <2>3. act.acked = ledger.committed /\ act.acked <= act.holds
    BY <2>1 DEF BarrierCourse, HandInv, FrameCourse
  <2>4. QED
    BY <2>1, <2>2, <2>3 DEF CommitMeansBothMoved, RoundCourse, ArmCourse
<1>2. QED BY LoopInvariant, <1>1, PTL

\* FrankaPersistentSession: what the arm takes up behind a closed gate stays with
\* it, unwritten by the arm and unseen by the hand.
THEOREM LateTargetsRest == Spec => []NoTargetAfterLatch
<1>1. Inv => NoTargetAfterLatch
  <2> SUFFICES ASSUME Inv, fr.late
               PROVE  /\ fr.pc \notin {"write", "ack"}
                      /\ fr.acked < fr.current
                      /\ writes[fr.current] = 0
    BY DEF NoTargetAfterLatch
  <2>1. /\ fr.acked < fr.current /\ fr.pc \notin {"write", "ack"}
    BY InvParts DEF ArmCourse
  <2>2. /\ fr.acked \in Nat /\ fr.current \in 0 .. MaxSequence
        /\ writes \in [Sequences1 -> 0 .. 2]
    BY InvParts DEF FrankaTypeOK, Sessions, OwnerTypeOK
  <2>3. fr.current \in Sequences1 /\ ~(fr.acked >= fr.current)
    BY <2>1, <2>2, LoopAssumption DEF Sequences1
  <2>4. ~(writes[fr.current] > 0) /\ writes[fr.current] \in 0 .. 2
    BY <2>2, <2>3, InvParts DEF FrankaFirst
  <2>5. QED BY <2>1, <2>4
<1>2. QED BY LoopInvariant, <1>1, PTL

\* run_supervised_v94: a run that is reported as passed committed and recorded every
\* sequence, saw no fault of the hand up to its end, and leaves both devices with a
\* proven stop and the gate not armed.
THEOREM PassIsEarned == Spec => []PassMeansCleanRun
<1>1. Inv => PassMeansCleanRun
  BY DEF Inv
<1>2. QED BY LoopInvariant, <1>1, PTL

\* _wait_for_policy_release: the loop's stop event is the hand's, which keeps its
\* fault first, and the second look at the hand finds it; so a run that has not
\* raised has come to its result through its last sequence.
THEOREM StopGivesNoResult == Spec => []StopIsNoResult
<1>1. Inv => StopIsNoResult
  BY InvParts DEF StopCourse, StopIsNoResult, Final, Ending
<1>2. QED BY LoopInvariant, <1>1, PTL
=============================================================================
