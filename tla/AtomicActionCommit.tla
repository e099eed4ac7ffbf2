------------------------- MODULE AtomicActionCommit -------------------------
(* What the commit barrier promises: a sequence of actions, each of which both
   actuators execute before it counts, counted together with its value, until
   the barrier halts for ever.                                               *)
EXTENDS Naturals

CONSTANTS Actuators,      \* who must execute an action
          Values,         \* what an action can be
          FirstValue      \* the action in force before any commit

VARIABLES count,          \* number of actions executed by every actuator
          executed,       \* the last of them
          done,           \* actuators that have executed the next one
          halted

vars == <<count, executed, done, halted>>

Init == /\ count = 0
        /\ executed = FirstValue
        /\ done = {}
        /\ halted = FALSE

\* One actuator executes the next action and another has still to follow.
Execute(a) == /\ ~halted
              /\ done \cup {a} # Actuators
              /\ done' = done \cup {a}
              /\ UNCHANGED <<count, executed, halted>>

\* The last actuator executes it: the action counts.
Commit(a, v) == /\ ~halted
                /\ done \cup {a} = Actuators
                /\ count' = count + 1
                /\ executed' = v
                /\ done' = {}
                /\ UNCHANGED halted

Halt == /\ halted' = TRUE
        /\ UNCHANGED <<count, executed, done>>

Next == \/ \E a \in Actuators : Execute(a) \/ \E v \in Values : Commit(a, v)
        \/ Halt

Spec == Init /\ [][Next]_vars
=============================================================================
