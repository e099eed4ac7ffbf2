---------------------------- MODULE RunRegistry ----------------------------
(* What the deployment lease promises about runs: one process at a time may use
   run ids and judge them, an id is used once and for ever by one process, a
   judgement stands once its process has let go, and success is reported only of
   a run that stands judged PASS.                                             *)
CONSTANTS Processes, RunIds, Nobody, Verdicts

VARIABLES holder,      \* the process that may use and judge
          user,        \* by run id: who has used it
          verdict,     \* by run id: the judgement on record
          succeeded    \* the processes that have reported success

registryVars == <<holder, user, verdict, succeeded>>

Init == /\ holder = Nobody
        /\ user = [r \in RunIds |-> Nobody]
        /\ verdict = [r \in RunIds |-> "open"]
        /\ succeeded = {}

Take(p) == /\ holder = Nobody
           /\ holder' = p
           /\ UNCHANGED <<user, verdict, succeeded>>

Use(p, r) == /\ holder = p
             /\ user[r] = Nobody
             /\ \A other \in RunIds : user[other] # p
             /\ user' = [user EXCEPT ![r] = p]
             /\ UNCHANGED <<holder, verdict, succeeded>>

Judge(p, r, v) == /\ holder = p
                  /\ user[r] = p
                  /\ verdict' = [verdict EXCEPT ![r] = v]
                  /\ UNCHANGED <<holder, user, succeeded>>

Drop(p) == /\ holder = p
           /\ holder' = Nobody
           /\ UNCHANGED <<user, verdict, succeeded>>

Succeed(p) == /\ holder # p
              /\ \E r \in RunIds : user[r] = p /\ verdict[r] = "PASS"
              /\ succeeded' = succeeded \cup {p}
              /\ UNCHANGED <<holder, user, verdict>>

Next == \E p \in Processes :
            \/ Take(p) \/ Drop(p) \/ Succeed(p)
            \/ \E r \in RunIds : Use(p, r) \/ \E v \in Verdicts : Judge(p, r, v)

Spec == Init /\ [][Next]_registryVars
=============================================================================
