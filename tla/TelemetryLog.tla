---------------------------- MODULE TelemetryLog ----------------------------
(* What one telemetry stream promises: a log that one process at a time extends,
   and readers that are answered with its last entry and that entry's number, at
   one instant of their call.  They may also be turned away.  A claim that is not
   given back, because its process died, is never taken over.                 *)
EXTENDS Naturals, Sequences

CONSTANTS Writers, Readers, Samples, Nobody, MaxSequence

VARIABLES log,      \* the samples published so far
          claim,    \* the process that may publish
          dead,     \* the writers that have died
          answer    \* by reader: its last result

logVars == <<log, claim, dead, answer>>

Answers == {[code |-> "contended"]}
           \cup (IF log = <<>> THEN {[code |-> "no_data"]}
                 ELSE {[code |-> "ok", sequence |-> Len(log), sample |-> log[Len(log)]]})

Init == /\ log = <<>>
        /\ claim = Nobody
        /\ dead = {}
        /\ answer = [r \in Readers |-> [code |-> "none"]]

Claim(w) == /\ claim = Nobody /\ w \notin dead
            /\ claim' = w
            /\ UNCHANGED <<log, dead, answer>>

Publish(w, s) == /\ claim = w /\ w \notin dead /\ Len(log) < MaxSequence
                 /\ log' = Append(log, s)
                 /\ UNCHANGED <<claim, dead, answer>>

Release(w) == /\ claim = w /\ w \notin dead
              /\ claim' = Nobody
              /\ UNCHANGED <<log, dead, answer>>

Die(w) == /\ dead' = dead \cup {w}
          /\ UNCHANGED <<log, claim, answer>>

Answer(r) == /\ \E a \in Answers : answer' = [answer EXCEPT ![r] = a]
             /\ UNCHANGED <<log, claim, dead>>

Next == \/ \E w \in Writers : \/ Claim(w) \/ Release(w) \/ Die(w)
                              \/ \E s \in Samples : Publish(w, s)
        \/ \E r \in Readers : Answer(r)

Spec == Init /\ [][Next]_logVars
=============================================================================
