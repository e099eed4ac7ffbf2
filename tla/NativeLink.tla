----------------------------- MODULE NativeLink -----------------------------
(* What the two processes of the native arm owner share.  The Python process
   keeps the policy and FrankaNativeSupervisedSessionProxy; the servo is a C++
   child of it, which owns the robot.  Between them are a SOCK_SEQPACKET pair
   (the critical channel; STATE telemetry has a lossy channel of its own and is
   left out), SIGTERM, and what each learns of the other's death.

   A packet is a record; its codec (nonce, CRC, layout) is abstracted to what its
   number tells the receiver: whether one before it is missing.  The kernel's part is external: packets are
   delivered in order, a full buffer refuses, and a socket closed over unread
   packets makes the peer's next call fail once with ECONNRESET, even when there
   is something to read.                                                       *)
EXTENDS LedgerOps, Sequences

CONSTANTS MaxSequence,     \* maximum_target_count
          TargetMaxAge,    \* kMaximumTargetAgeNs, _PARENT_TARGET_MAX_AGE_S
          Capacity         \* packets that fit into the child's socket buffer

ASSUME LinkAssumption ==
    MaxSequence \in Nat \ {0} /\ TargetMaxAge \in Nat /\ Capacity \in Nat \ {0}

VARIABLES toServo,         \* parent -> child packets not yet received
          toSession,       \* child -> parent packets not yet received
          proc             \* the two processes, as the kernel sees them

link == <<toServo, toSession, proc>>

Sequences0 == 0 .. MaxSequence

\* There is no clock variable: every timestamp is kept as its age, or as the time
\* that is left, up to the first value at which its limit has passed.
AgesUpTo(limit) == 0 .. limit + 1
Older(age, limit) == IF age > limit THEN age ELSE age + 1

\* seq and age (of produced_monotonic_ns) belong to a TARGET.
ParentPackets == [kind : {"ARM", "HEARTBEAT", "TARGET", "STOP"}, exact : BOOLEAN,
                  seq : Sequences0, age : AgesUpTo(TargetMaxAge)]

Packet(kind, exact) == [kind |-> kind, exact |-> exact, seq |-> 0, age |-> 0]

OlderPackets(queue) ==
    [i \in DOMAIN queue |->
        IF queue[i].kind # "TARGET" THEN queue[i]
        ELSE [queue[i] EXCEPT !.age = Older(@, TargetMaxAge)]]

\* seq is an ACK's target, or STOP_PROOF's target_ack_count.  The rest is
\* STOP_PROOF's: a terminal fault, a stop the parent asked for (stop_reason 1),
\* and what its raw evidence (path taken, handles released, samples) verifies.
ChildPackets == [kind : {"HELLO", "IPC_READY", "ACTION_READY", "ACK", "FAULT",
                         "STOP_PROOF"},
                 seq : Sequences0, fault : BOOLEAN, asked : BOOLEAN,
                 verified : BOOLEAN]

Reply(kind, seq) == [kind |-> kind, seq |-> seq, fault |-> FALSE,
                     asked |-> FALSE, verified |-> FALSE]

ProcessPairs == [parent : BOOLEAN,       \* the Python process runs
                 open : BOOLEAN,         \* the parent's end is open
                 servo : BOOLEAN,        \* the child runs (is_alive)
                 closed : BOOLEAN,       \* the child's end is closed
                 term : BOOLEAN,         \* g_stop_requested: SIGTERM, SIGINT
                 exit : {"none", "zero", "nonzero"},
                 parentReset : BOOLEAN,  \* ECONNRESET waits for the parent
                 servoReset : BOOLEAN]   \* ECONNRESET waits for the child

LinkTypeOK ==
    /\ toServo \in Seq(ParentPackets) /\ Len(toServo) <= Capacity
    /\ toSession \in Seq(ChildPackets)
    /\ proc \in ProcessPairs

LinkInit ==
    /\ toServo = <<>>
    /\ toSession = <<>>
    /\ proc = [parent |-> TRUE, open |-> TRUE, servo |-> FALSE, closed |-> FALSE,
               term |-> FALSE, exit |-> "none",
               parentReset |-> FALSE, servoReset |-> FALSE]

\* The child's end is closed, by close or by the end of the process.
ChildEndClosed(p) ==
    [p EXCEPT !.closed = TRUE, !.parentReset = @ \/ (p.open /\ toServo # <<>>)]

\* The parent's end is closed, by close or by the end of the process.
ParentEndClosed(p) ==
    [p EXCEPT !.open = FALSE, !.parentReset = FALSE,
              !.servoReset = ~p.closed /\ toSession # <<>>]
=============================================================================
