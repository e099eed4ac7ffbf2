------------------------------ MODULE ArmOwner ------------------------------
(* What an owner of the arm promises to the commit barrier and to its caller:
   targets are written in order, one at a time, each acknowledged before the next
   is written and never before its own write; and a stop that is returned as
   verified is the end of all writing.                                         *)
EXTENDS Naturals

CONSTANT MaxSequence

VARIABLES written,   \* the last target the arm was commanded with
          acked,     \* the last target acknowledged towards the barrier
          result     \* what the owner's run returned

armOwnerVars == <<written, acked, result>>

Init == written = 0 /\ acked = 0 /\ result = "open"

Write == /\ result # "verified"
         /\ written = acked /\ written < MaxSequence
         /\ written' = written + 1
         /\ UNCHANGED <<acked, result>>

Ack == /\ result # "verified"
       /\ acked < written
       /\ acked' = written
       /\ UNCHANGED <<written, result>>

\* Verified only with every write accounted for; a failure may come at any time,
\* with the last write still open.
Return == /\ result = "open"
          /\ \/ result' = "failed"
             \/ result' = "verified" /\ acked = written
          /\ UNCHANGED <<written, acked>>

Next == Write \/ Ack \/ Return

Spec == Init /\ [][Next]_armOwnerVars
=============================================================================
