---------------------------- MODULE MCSafetyGate ----------------------------
(* Two threads and two authorizations of which the first runs out inside the
   clock's bound: samples cross, authorizations expire and are re-used.       *)
EXTENDS SafetyGate

MCAuthorizations ==
    {[id |-> "first", run |-> "run1", issued |-> 0, expires |-> 2],
     [id |-> "second", run |-> "run2", issued |-> 1, expires |-> 9]}
=============================================================================
