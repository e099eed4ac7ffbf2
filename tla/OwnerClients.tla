---------------------------- MODULE OwnerClients ----------------------------
(* The RH56 owner and the threads that use it, in every order its methods admit:
   the policy stages and submits commands, waits for their tickets, settles and
   stops; the Franka side acknowledges, fails, or loses its gate.  ClosedLoop has
   the threads as they are; here they are only what the owner can notice.     *)
EXTENDS RH56Owner, FiniteSets

CONSTANT LastCommandTime     \* bound: no command is produced later

clientVars == <<shared, ownerVars>>

ClientsInit == SharedInit /\ OwnerInit

ClientsTick == /\ now < MaxTime
        /\ now' = now + 1
        /\ UNCHANGED <<ledger, gate, hold, stopEvent, cleanStop, callbackFault,
                       ownerVars>>

StageCommand ==
    /\ Healthy(ledger) /\ ~HasPending(ledger)
    /\ ledger.committed < MaxSequence
    /\ now <= LastCommandTime
    /\ \E a \in Actions :
         ledger' = Stage(ledger, [seq |-> ledger.committed + 1,
                                  previous |-> ledger.previous,
                                  executed |-> a, produced |-> now], now)
    /\ UNCHANGED <<gate, now, hold, stopEvent, cleanStop, callbackFault, ownerVars>>

FrankaAcknowledges ==
    /\ HasPending(ledger) /\ "franka" \notin ledger.acked
    /\ ledger' = Acknowledge(ledger, "franka", ledger.pending.seq, now)
    /\ UNCHANGED <<gate, now, hold, stopEvent, cleanStop, callbackFault, ownerVars>>

CheckDeadline ==
    /\ ledger' = RequireCommitDeadline(ledger, now)
    /\ UNCHANGED <<gate, now, hold, stopEvent, cleanStop, callbackFault, ownerVars>>

\* The Franka owner faults: ledger, then gate; or the gate closes by itself.
FrankaFails ==
    /\ ledger' = Fail(ledger)
    /\ gate' = LatchGate(gate, "external")
    /\ UNCHANGED <<now, hold, stopEvent, cleanStop, callbackFault, ownerVars>>

InterlockTrips ==
    /\ gate' = UpdateInterlocks(gate, "open", "ok")
    /\ UNCHANGED <<ledger, now, hold, stopEvent, cleanStop, callbackFault, ownerVars>>

Client ==
    \/ Start /\ UNCHANGED shared
    \/ \E n \in Sequences1 : Submit(n) /\ UNCHANGED shared
    \/ BeginSettle /\ UNCHANGED shared
    \/ SettleGivesUp /\ UNCHANGED shared
    \/ RequestOwnerStop /\ UNCHANGED shared
    \/ StageCommand \/ FrankaAcknowledges \/ CheckDeadline
    \/ FrankaFails \/ InterlockTrips

ClientsNext == Worker \/ Client \/ ClientsTick

ClientsSpec == ClientsInit /\ [][ClientsNext]_clientVars

\* The worker thread is scheduled and its exchanges are bounded, so each of its
\* steps is eventually taken; the clock runs.  Nothing is assumed of clients.
ClientsFairSpec == ClientsSpec /\ WF_clientVars(Worker) /\ WF_clientVars(ClientsTick)

(* properties -------------------------------------------------------------- *)

\* Supervised: the arm has been told to stop, and the gate is closed, before the
\* worker spends seconds stopping a faulted hand.
StopEdgeBeforeDisable ==
    Supervised /\ pc = "fault_disable" =>
       cleanStop /\ stopEvent /\ gate.state = "fault_latched"

\* "A returned armed session is never closed before a disable was attempted": a
\* port given up without one belongs to a hand that was not armed and was sent no
\* target.  An actuator the worker had claimed is not armed when the worker ends;
\* one that another thread had claimed may be.
NeverClosedArmed ==
    /\ port.serial \in {"closed", "failed"} /\ ~port.disable =>
         /\ act.state \notin {"armed", "fault_latched"}
         /\ \A n \in Sequences1 : writes[n] = 0
    /\ pc = "done" /\ act.mine => act.state # "armed"

\* An RH56 acknowledgement in the ledger means the hand holds that target, put
\* there by at most one frame.  A frame whose response was lost may have reached
\* the hand or not: the owner neither sends it again nor takes it for applied
\* before a readback has shown the target.
AcknowledgedMeansApplied ==
    /\ "rh56" \in ledger.acked => act.holds = ledger.pending.seq
    /\ act.holds >= ledger.committed
    /\ \A n \in Sequences1 : writes[n] <= 1

\* What stop_and_close reports as a verified disable was verified: every report
\* goes back to a stop attempted on the port and confirmed by the actuator, and
\* nothing that failed after it took the confirmation away.
VerifiedStopIsTrue ==
    (pc = "done" /\ DisabledVerified) => port.disable /\ act.confirmed

\* A ticket the owner accepted is answered, whatever happens to the worker.
TicketsAreAnswered ==
    \A n \in Sequences1 : (ticket[n] = "queued") ~> (ticket[n] # "queued")

\* A fault or a requested stop always ends the worker with the port given up.
StopEnds == ((own.stop /\ own.state # "created") \/ own.fault) ~> (pc = "done")

\* Once the hand has been given a target, silence of every other thread stops it:
\* the watchdog needs no client, no gate and no ledger.  Only a heartbeat, or a
\* settle's refresh of one, that is so late that the bounded clock ends before it is
\* overdue tells nothing.
SilenceStopsHand ==
    act.heartbeat # Never ~> port.disable \/ (now = MaxTime /\ ~HeartbeatGone)
=============================================================================
