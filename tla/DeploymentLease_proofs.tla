----------------------- MODULE DeploymentLease_proofs -----------------------
(* What the deployment run shows for three processes and two run ids holds for any
   number of them.

   SuccessIsEarned and the promise of RunRegistry are not inductive.  They need
   that a process behind its claim is still the one named in it (ProcessOK), that
   whoever a claim names has that run and no other, and that a verdict is on disk
   only of a process past its policy run (RunOK): otherwise a later phase would
   rewrite it.                                                                *)
EXTENDS DeploymentLease, TLAPS

Process == [pc : PCs, run : RunIds, exc : Exceptions, final : BOOLEAN, code : Codes]
ClaimStates == {"absent", "empty", "CLAIMED", "ACTIVE"} \cup Verdicts
ClaimFile == [by : Processes \cup {Nobody}, state : ClaimStates]
AuditFile == [by : Processes \cup {Nobody}, result : {"none", "PASS", "FAIL"}]
Typed == /\ lock \in Processes \cup {Nobody}
         /\ claims \in [RunIds -> ClaimFile]
         /\ audits \in [RunIds -> AuditFile]
         /\ arm \in [Processes -> {"free", "own", "servo"}]
         /\ procs \in [Processes -> Process]

\* Places before a process has its claim, and places at which the verdict of its
\* run may be on disk.
Before == {"off", "lock", "claim"}
After == {"closing", "exit", "release", "report"} \cup Ended

Passed(r, p) == audits[r].by = p /\ audits[r].result = "PASS"

ProcessOK(p) ==
    /\ lock = p <=> procs[p].pc \in Holding
    /\ procs[p].pc \notin Before \cup Ended => Claim(p).by = p
    /\ procs[p].pc = "finalize" => arm[p] = "free" /\ Passed(procs[p].run, p)
    /\ procs[p].final =>
           procs[p].pc \in After /\ Claim(p).by = p /\ Claim(p).state = "PASS"
    /\ procs[p].pc \in After \ Ended /\ procs[p].exc = "none" => procs[p].final
    /\ procs[p].code = 0 => procs[p].pc = "ended" /\ procs[p].final

RunOK(r) ==
    /\ claims[r].state = "absent" <=> claims[r].by = Nobody
    /\ claims[r].by # Nobody =>
           procs[claims[r].by].run = r /\ procs[claims[r].by].pc \notin Before
    /\ claims[r].state \in Verdicts => procs[claims[r].by].pc \in After
    /\ claims[r].state = "PASS" =>
           arm[claims[r].by] = "free" /\ Passed(r, claims[r].by)

IInv == /\ Typed
        /\ \A p \in Processes : ProcessOK(p)
        /\ \A r \in RunIds : RunOK(r)

(* steps of one process --------------------------------------------------- *)

\* What a step of p does to p, field by field.
LEMMA BecomesEffect ==
  ASSUME Typed, NEW p \in Processes, NEW s \in Process, Becomes(p, s)
  PROVE  /\ procs' \in [Processes -> Process]
         /\ procs'[p] = s
         /\ \A q \in Processes : q # p => procs'[q] = procs[q]
  BY DEF Typed, Becomes

\* A step of p: its new place, exception, finality and exit code.
Moves(p, w, e, f, c) ==
    /\ procs' \in [Processes -> Process]
    /\ procs'[p].pc = w /\ procs'[p].exc = e /\ procs'[p].final = f
    /\ procs'[p].code = c /\ procs'[p].run = procs[p].run
    /\ \A q \in Processes : q # p => procs'[q] = procs[q]

LEMMA GoesEffect ==
  ASSUME Typed, NEW p \in Processes, NEW w \in PCs, Goes(p, w)
  PROVE  Moves(p, w, procs[p].exc, procs[p].final, procs[p].code)
<1>1. /\ [procs[p] EXCEPT !.pc = w] \in Process
      /\ [procs[p] EXCEPT !.pc = w].pc = w
      /\ [procs[p] EXCEPT !.pc = w].exc = procs[p].exc
      /\ [procs[p] EXCEPT !.pc = w].final = procs[p].final
      /\ [procs[p] EXCEPT !.pc = w].code = procs[p].code
      /\ [procs[p] EXCEPT !.pc = w].run = procs[p].run
  BY DEF Typed, Process
<1> QED BY <1>1, BecomesEffect DEF Goes, Moves

LEMMA EndsEffect ==
  ASSUME Typed, NEW p \in Processes, NEW c \in Codes, Ends(p, c)
  PROVE  Moves(p, "ended", procs[p].exc, procs[p].final, c)
<1> DEFINE s == [procs[p] EXCEPT !.pc = "ended", !.code = c]
<1>1. /\ s \in Process /\ s.pc = "ended" /\ s.exc = procs[p].exc
      /\ s.final = procs[p].final /\ s.code = c /\ s.run = procs[p].run
  BY DEF Typed, Process, PCs, Ended
<1> QED BY <1>1, BecomesEffect DEF Ends, Moves

LEMMA RaisesEffect ==
  ASSUME Typed, NEW p \in Processes, NEW e \in Exceptions, Raises(p, e)
  PROVE  \E w \in {"closing", "exit"} :
             Moves(p, w, e, procs[p].final, procs[p].code)
<1> DEFINE w == IF procs[p].pc = "held" THEN "exit" ELSE "closing"
           s == [procs[p] EXCEPT !.exc = e, !.pc = w]
<1>1. /\ s \in Process /\ s.pc = w /\ s.exc = e
      /\ s.final = procs[p].final /\ s.code = procs[p].code /\ s.run = procs[p].run
  BY DEF Typed, Process, PCs, Holding, InLease
<1>2. Becomes(p, s) BY DEF Raises
<1>3. Moves(p, w, e, procs[p].final, procs[p].code)
  BY <1>1, <1>2, BecomesEffect DEF Moves
<1> QED BY <1>3

\* A rewrite of p's claim.
LEMMA SetClaimEffect ==
  ASSUME Typed, NEW p \in Processes, NEW v \in ClaimStates, SetClaim(p, v)
  PROVE  /\ claims' \in [RunIds -> ClaimFile]
         /\ claims'[procs[p].run].by = p /\ claims'[procs[p].run].state = v
         /\ \A r \in RunIds : r # procs[p].run => claims'[r] = claims[r]
<1>1. procs[p].run \in RunIds /\ [by |-> p, state |-> v] \in ClaimFile
  BY DEF Typed, Process, ClaimFile
<1>2. /\ claims' \in [RunIds -> ClaimFile]
      /\ claims'[procs[p].run] = [by |-> p, state |-> v]
      /\ \A r \in RunIds : r # procs[p].run => claims'[r] = claims[r]
  <2> HIDE DEF ClaimFile
  <2> QED BY <1>1 DEF Typed, SetClaim
<1> QED BY <1>2

\* What the steps of p leave alone, besides the places of the others.
Local(p) ==
    /\ claims' \in [RunIds -> ClaimFile] /\ audits' \in [RunIds -> AuditFile]
    /\ arm' \in [Processes -> {"free", "own", "servo"}]
    /\ \A q \in Processes : q # p => arm'[q] = arm[q]
    /\ \A r \in RunIds : r # procs[p].run =>
                             claims'[r] = claims[r] /\ audits'[r] = audits[r]
    /\ lock' = lock \/ (lock \in {p, Nobody} /\ lock' \in {p, Nobody})
    /\ \/ claims'[procs[p].run] = claims[procs[p].run]
       \/ Claim(p).by \in {p, Nobody} /\ claims'[procs[p].run].by = p
    /\ audits'[procs[p].run] = audits[procs[p].run]
       \/ Claim(p).by = p

\* So it is enough to look at p and at its run.
LEMMA Frame ==
  ASSUME IInv, NEW p \in Processes, NEW w, NEW e, NEW f, NEW c,
         Moves(p, w, e, f, c), Local(p),
         procs[p].pc \notin Before => w \notin Before,
         NEW run, run = procs[p].run, ProcessOK(p)', RunOK(run)'
  PROVE  IInv'
<1>0. procs[p].run \in RunIds /\ \A q \in Processes : procs[q].run \in RunIds
  BY DEF IInv, Typed, Process
<1>1. Typed'
  BY NobodyAssumption DEF IInv, Typed, Local, Moves
<1>2. ASSUME NEW q \in Processes, q # p PROVE ProcessOK(q)'
  <2>0. /\ procs'[q] = procs[q] /\ arm'[q] = arm[q] /\ ProcessOK(q)
        /\ lock' = q <=> lock = q
    BY <1>2, NobodyAssumption DEF IInv, Local, Moves
  <2>1. CASE procs[q].run # procs[p].run
    <3>1. /\ claims'[procs[q].run] = claims[procs[q].run]
          /\ audits'[procs[q].run] = audits[procs[q].run]
      BY <1>0, <2>1 DEF Local
    <3> QED BY <2>0, <3>1 DEF ProcessOK, Claim, Passed
  <2>2. CASE procs[q].run = procs[p].run /\ Claim(q).by = q
    <3>1. /\ claims'[procs[q].run] = claims[procs[q].run]
          /\ audits'[procs[q].run] = audits[procs[q].run]
      BY <1>2, <2>2, NobodyAssumption DEF Local, Claim
    <3> QED BY <2>0, <3>1 DEF ProcessOK, Claim, Passed
  <2>3. CASE Claim(q).by # q
    <3>1. procs[q].pc \in Before \cup Ended /\ ~procs[q].final
      BY <2>0, <2>3 DEF ProcessOK
    <3> QED BY <2>0, <3>1 DEF ProcessOK, Claim, Before, After, Ended, Holding
  <2> QED BY <2>1, <2>2, <2>3
<1>3. ASSUME NEW r \in RunIds, r # procs[p].run PROVE RunOK(r)'
  <2>1. /\ claims'[r] = claims[r] /\ audits'[r] = audits[r] /\ RunOK(r)
    BY <1>3 DEF IInv, Local
  <2>2. claims[r].by # p
    BY <1>3, <2>1, NobodyAssumption DEF RunOK
  <2>3. claims[r].by \in Processes \cup {Nobody}
    BY DEF IInv, Typed, ClaimFile
  <2>4. claims[r].by \in Processes =>
            procs'[claims[r].by] = procs[claims[r].by] /\ arm'[claims[r].by] = arm[claims[r].by]
    BY <2>2, <2>3 DEF Local, Moves
  <2>5. claims[r].by = Nobody => claims[r].state \notin Verdicts
    BY <2>1 DEF RunOK, Verdicts
  <2> QED BY <2>1, <2>2, <2>3, <2>4, <2>5 DEF RunOK, Passed, Verdicts
<1>4. \A q \in Processes : ProcessOK(q)'
  BY <1>2
<1>5. \A r \in RunIds : RunOK(r)'
  BY <1>3
<1> QED BY <1>1, <1>4, <1>5 DEF IInv

LEMMA InitIInv == Init => IInv
<1> SUFFICES ASSUME Init PROVE IInv OBVIOUS
<1>1. /\ NoClaim \in ClaimFile /\ NoAudit \in AuditFile
      /\ \A r \in RunIds : NewProcess(r) \in Process
  BY DEF NoClaim, NoAudit, ClaimFile, ClaimStates, AuditFile, NewProcess, Process,
         PCs, Exceptions, Codes
<1>2. Typed
  <2> HIDE DEF ClaimFile, AuditFile, Process
  <2> QED BY <1>1 DEF Init, Typed
<1>3. \A p \in Processes : \E r \in RunIds : procs[p] = NewProcess(r)
  BY DEF Init
<1>4. ASSUME NEW p \in Processes PROVE ProcessOK(p)
  BY <1>3, NobodyAssumption
  DEF Init, ProcessOK, NewProcess, Before, After, Ended, Holding, InLease, Following
<1>5. ASSUME NEW r \in RunIds PROVE RunOK(r)
  BY DEF Init, RunOK, NoClaim, Verdicts
<1> QED BY <1>2, <1>4, <1>5 DEF IInv

(* two kinds of steps --------------------------------------------------------- *)

\* The lock goes to p or back, or stays.
LockStep(p) == lock' = lock \/ (lock \in {p, Nobody} /\ lock' \in {p, Nobody})

\* Where a step of p leaves the arm: taken only by a process before its verdict.
ArmStep(p) ==
    /\ arm' \in [Processes -> {"free", "own", "servo"}]
    /\ \A q \in Processes : q # p => arm'[q] = arm[q]
    /\ arm[p] = "free" => arm'[p] = "free" \/ procs[p].pc \notin After \cup {"finalize"}

LEMMA LetGoArm ==
  ASSUME Typed, NEW p \in Processes, LetGo(p) \/ UNCHANGED arm
  PROVE  ArmStep(p)
  BY DEF Typed, LetGo, ArmStep

\* Steps that leave the files alone.
LEMMA QuietMove ==
  ASSUME IInv, NEW p \in Processes, NEW w \in PCs, NEW e \in Exceptions,
         NEW c \in Codes, Moves(p, w, e, procs[p].final, c),
         UNCHANGED <<claims, audits>>,
         LockStep(p), lock' = p <=> w \in Holding,
         ArmStep(p),
         w \notin Before \cup Ended => procs[p].pc \notin Before \cup Ended,
         procs[p].pc \notin Before => w \notin Before,
         w = "finalize" => procs[p].pc = "finalize",
         procs[p].pc \in After => w \in After,
         w \in After \ Ended /\ e = "none" =>
             procs[p].final \/ (procs[p].pc \in After \ Ended /\ procs[p].exc = "none"),
         c = 0 => w = "ended" /\ procs[p].final
  PROVE  IInv'
<1>1. PICK run \in RunIds : run = procs[p].run
  BY DEF IInv, Typed, Process
<1>3. Local(p)
  BY DEF IInv, Typed, Local, LockStep, ArmStep
<1>4. ProcessOK(p)'
  BY DEF IInv, ProcessOK, Moves, Claim, Passed, ArmStep, Before, After, Ended
<1>5. RunOK(run)'
  <2>1. RunOK(run) /\ claims' = claims /\ audits' = audits
    BY DEF IInv
  <2>2. claims[run].by \in Processes \cup {Nobody}
    BY DEF IInv, Typed, ClaimFile
  <2>3. CASE claims[run].by = p
    BY <1>1, <2>1, <2>3 DEF RunOK, Passed, Moves, ArmStep, Verdicts
  <2>4. CASE claims[run].by \in Processes /\ claims[run].by # p
    BY <2>1, <2>4 DEF RunOK, Passed, Moves, ArmStep
  <2>5. CASE claims[run].by = Nobody
    BY <2>1, <2>5 DEF RunOK, Passed, Verdicts
  <2> QED BY <2>2, <2>3, <2>4, <2>5
<1> QED BY <1>1, <1>3, <1>4, <1>5, Frame

\* Steps that rewrite the claim of p: it is p's own or nobody's, and a verdict is
\* written only behind the policy run, PASS only with its evidence.
LEMMA ClaimMove ==
  ASSUME IInv, NEW p \in Processes, NEW w \in PCs, NEW e \in Exceptions,
         NEW f \in BOOLEAN, NEW c \in Codes, Moves(p, w, e, f, c),
         NEW v \in ClaimStates, SetClaim(p, v), v # "absent",
         UNCHANGED <<audits, arm>>,
         LockStep(p), lock' = p <=> w \in Holding,
         Claim(p).by \in {p, Nobody}, w \notin Before, w # "finalize",
         v \in Verdicts => w \in After,
         v = "PASS" => arm[p] = "free" /\ Passed(procs[p].run, p),
         f => w \in After /\ v = "PASS",
         w \in After \ Ended /\ e = "none" => f,
         c = 0 => w = "ended" /\ f
  PROVE  IInv'
<1>1. PICK run \in RunIds : run = procs[p].run
  BY DEF IInv, Typed, Process
<1>2. /\ claims' \in [RunIds -> ClaimFile]
      /\ claims'[run].by = p /\ claims'[run].state = v
      /\ \A r \in RunIds : r # run => claims'[r] = claims[r]
  BY <1>1, SetClaimEffect DEF IInv
<1>3. Local(p)
  BY <1>1, <1>2 DEF IInv, Typed, Local, LockStep
<1>4. ProcessOK(p)'
  BY <1>1, <1>2 DEF IInv, ProcessOK, Moves, Claim, Passed
<1>5. RunOK(run)'
  BY <1>1, <1>2, NobodyAssumption DEF RunOK, Passed, Moves
<1> QED BY <1>1, <1>3, <1>4, <1>5, Frame

(* the actions ------------------------------------------------------------------ *)

\* The invariant of one process, and its types, as the actions need them.
LEMMA Here ==
  ASSUME IInv, NEW p \in Processes
  PROVE  /\ Typed /\ ProcessOK(p) /\ procs[p] \in Process /\ p # Nobody
         /\ procs[p].pc \in PCs /\ procs[p].exc \in Exceptions
         /\ procs[p].final \in BOOLEAN /\ procs[p].code \in Codes
<1>1. Typed /\ ProcessOK(p) /\ p # Nobody
  BY NobodyAssumption DEF IInv
<1>2. procs[p] \in Process
  <2> HIDE DEF Process
  <2> QED BY <1>1 DEF Typed
<1> QED BY <1>1, <1>2 DEF Process

LEMMA AdmitIInv ==
  ASSUME IInv, NEW p \in Processes, Admit(p)
  PROVE  IInv'
<1>0. Typed /\ ProcessOK(p) /\ p # Nobody BY Here
<1>1. CASE Goes(p, "lock")
  <2>1. Moves(p, "lock", procs[p].exc, procs[p].final, procs[p].code)
    BY <1>0, <1>1, GoesEffect DEF PCs
  <2> QED BY <1>0, <2>1, Here, LetGoArm, QuietMove
          DEF Admit, At, LockStep, ProcessOK, PCs, Holding, InLease, Following, Before, After, Ended
<1>2. ASSUME NEW code \in {1, 2}, Ends(p, code) PROVE IInv'
  <2>1. Moves(p, "ended", procs[p].exc, procs[p].final, code)
    BY <1>0, <1>2, EndsEffect DEF Codes
  <2> QED BY <1>0, <2>1, Here, LetGoArm, QuietMove
          DEF Admit, At, LockStep, ProcessOK, Codes, PCs, Holding, InLease, Following, Before, After, Ended
<1> QED BY <1>1, <1>2 DEF Admit

LEMMA TakeLockIInv ==
  ASSUME IInv, NEW p \in Processes, TakeLock(p)
  PROVE  IInv'
<1>0. Typed /\ ProcessOK(p) /\ p # Nobody BY Here
<1>1. CASE lock = Nobody /\ lock' = p /\ Goes(p, "claim")
  <2>1. Moves(p, "claim", procs[p].exc, procs[p].final, procs[p].code)
    BY <1>0, <1>1, GoesEffect DEF PCs, Holding
  <2> QED BY <1>0, <1>1, <2>1, Here, LetGoArm, QuietMove
          DEF TakeLock, At, LockStep, ProcessOK, PCs, Holding, InLease, Following, Before, After, Ended
<1>2. CASE Ends(p, 2) /\ UNCHANGED lock
  <2>1. Moves(p, "ended", procs[p].exc, procs[p].final, 2)
    BY <1>0, <1>2, EndsEffect DEF Codes
  <2> QED BY <1>0, <1>2, <2>1, Here, LetGoArm, QuietMove
          DEF TakeLock, At, LockStep, ProcessOK, Codes, PCs, Holding, InLease, Following, Before, After, Ended
<1> QED BY <1>1, <1>2 DEF TakeLock

LEMMA CreateClaimIInv ==
  ASSUME IInv, NEW p \in Processes, CreateClaim(p)
  PROVE  IInv'
<1>0. Typed /\ ProcessOK(p) /\ p # Nobody BY Here
<1>1. CASE Claim(p) = NoClaim /\ SetClaim(p, "empty") /\ Goes(p, "write") /\ UNCHANGED lock
  <2>1. Moves(p, "write", procs[p].exc, procs[p].final, procs[p].code)
    BY <1>0, <1>1, GoesEffect DEF PCs, Holding
  <2> QED BY <1>0, <1>1, <2>1, Here, ClaimMove
          DEF CreateClaim, At, LockStep, ProcessOK, NoClaim, ClaimStates, Verdicts,
              PCs, Holding, InLease, Following, Before, After, Ended
<1>2. CASE Refused(p) /\ UNCHANGED claims
  <2>1. Moves(p, "ended", procs[p].exc, procs[p].final, 2)
    BY <1>0, <1>2, EndsEffect DEF Refused, Codes
  <2> QED BY <1>0, <1>2, <2>1, Here, LetGoArm, QuietMove
          DEF CreateClaim, Refused, At, LockStep, ProcessOK, Codes,
              PCs, Holding, InLease, Following, Before, After, Ended
<1> QED BY <1>1, <1>2 DEF CreateClaim

LEMMA WriteClaimIInv ==
  ASSUME IInv, NEW p \in Processes, WriteClaim(p)
  PROVE  IInv'
<1>0. Typed /\ ProcessOK(p) /\ p # Nobody BY Here
<1>1. CASE SetClaim(p, "CLAIMED") /\ Goes(p, "acquired") /\ UNCHANGED lock
  <2>1. Moves(p, "acquired", procs[p].exc, procs[p].final, procs[p].code)
    BY <1>0, <1>1, GoesEffect DEF PCs, Holding
  <2> QED BY <1>0, <1>1, <2>1, Here, ClaimMove
          DEF WriteClaim, At, LockStep, ProcessOK, ClaimStates, Verdicts,
              PCs, Holding, InLease, Following, Before, After, Ended
<1>2. CASE MayHaveSet(p, "CLAIMED") /\ Refused(p)
  <2>1. Moves(p, "ended", procs[p].exc, procs[p].final, 2)
    BY <1>0, <1>2, EndsEffect DEF Refused, Codes
  <2>2. CASE UNCHANGED claims
    BY <1>0, <1>2, <2>1, <2>2, Here, LetGoArm, QuietMove
    DEF WriteClaim, Refused, At, LockStep, ProcessOK, Codes,
        PCs, Holding, InLease, Following, Before, After, Ended
  <2>3. CASE SetClaim(p, "CLAIMED")
    BY <1>0, <1>2, <2>1, <2>3, Here, ClaimMove
    DEF WriteClaim, Refused, At, LockStep, ProcessOK, Codes, ClaimStates, Verdicts,
        PCs, Holding, InLease, Following, Before, After, Ended
  <2> QED BY <1>2, <2>2, <2>3 DEF MayHaveSet
<1> QED BY <1>1, <1>2 DEF WriteClaim

LEMMA EnterIInv ==
  ASSUME IInv, NEW p \in Processes, Enter(p)
  PROVE  IInv'
<1>0. Typed /\ ProcessOK(p) /\ p # Nobody BY Here
<1>1. Moves(p, "held", procs[p].exc, procs[p].final, procs[p].code)
  BY <1>0, GoesEffect DEF Enter, PCs, Holding, InLease, Following
<1>2. ArmStep(p)
  BY <1>0, LetGoArm DEF Enter, At, ArmStep, Typed, After, Ended
<1> QED BY <1>0, <1>1, <1>2, Here, QuietMove
        DEF Enter, At, LockStep, ProcessOK, PCs, Holding, InLease, Following, Before, After, Ended

LEMMA ResetIInv ==
  ASSUME IInv, NEW p \in Processes, Reset(p)
  PROVE  IInv'
<1>0. Typed /\ ProcessOK(p) /\ p # Nobody BY Here
<1>1. Moves(p, "resetting", procs[p].exc, procs[p].final, procs[p].code)
  BY <1>0, GoesEffect DEF Reset, PCs, Holding, InLease
<1>2. ArmStep(p)
  BY <1>0, LetGoArm DEF Reset, At, ArmStep, Typed, After, Ended
<1> QED BY <1>0, <1>1, <1>2, Here, QuietMove
        DEF Reset, At, LockStep, ProcessOK, PCs, Holding, InLease, Following, Before, After, Ended

LEMMA ResetReturnsIInv ==
  ASSUME IInv, NEW p \in Processes, ResetReturns(p)
  PROVE  IInv'
<1>0. Typed /\ ProcessOK(p) /\ p # Nobody BY Here
<1>1. Moves(p, "homed", procs[p].exc, procs[p].final, procs[p].code)
  BY <1>0, GoesEffect DEF ResetReturns, PCs, Holding, InLease, Following
<1>2. ArmStep(p)
  BY <1>0, LetGoArm DEF ResetReturns, At, ArmStep, Typed, After, Ended
<1> QED BY <1>0, <1>1, <1>2, Here, QuietMove
        DEF ResetReturns, At, LockStep, ProcessOK, PCs, Holding, InLease, Following, Before, After, Ended

LEMMA RunPolicyIInv ==
  ASSUME IInv, NEW p \in Processes, RunPolicy(p)
  PROVE  IInv'
<1>0. Typed /\ ProcessOK(p) /\ p # Nobody BY Here
<1>1. Moves(p, "running", procs[p].exc, procs[p].final, procs[p].code)
  BY <1>0, GoesEffect DEF RunPolicy, PCs, Holding, InLease
<1>2. ArmStep(p)
  BY <1>0, LetGoArm DEF RunPolicy, At, ArmStep, Typed, After, Ended
<1> QED BY <1>0, <1>1, <1>2, Here, QuietMove
        DEF RunPolicy, At, LockStep, ProcessOK, PCs, Holding, InLease, Following, Before, After, Ended

LEMMA ReleaseIInv ==
  ASSUME IInv, NEW p \in Processes, Release(p)
  PROVE  IInv'
<1>0. Typed /\ ProcessOK(p) /\ p # Nobody BY Here
<1>1. Moves(p, "report", procs[p].exc, procs[p].final, procs[p].code)
  BY <1>0, GoesEffect DEF Release, PCs, Holding, InLease
<1>2. ArmStep(p)
  BY <1>0, LetGoArm DEF Release, At, ArmStep, Typed, After, Ended
<1> QED BY <1>0, <1>1, <1>2, Here, QuietMove
        DEF Release, At, LockStep, ProcessOK, PCs, Holding, InLease, Following, Before, After, Ended

LEMMA MarkPhaseIInv ==
  ASSUME IInv, NEW p \in Processes, MarkPhase(p)
  PROVE  IInv'
<1>0. Typed /\ ProcessOK(p) /\ p # Nobody BY Here
<1>1. CASE SetClaim(p, "ACTIVE") /\ Goes(p, Following[procs[p].pc])
  <2>1. Following[procs[p].pc] \in {"prewarm", "reset", "preflight", "policy"}
    BY DEF MarkPhase, Following
  <2>2. Moves(p, Following[procs[p].pc], procs[p].exc, procs[p].final, procs[p].code)
    BY <1>0, <1>1, <2>1, GoesEffect DEF PCs, Holding, InLease, Following
  <2> QED BY <1>0, <1>1, <2>1, <2>2, Here, ClaimMove
          DEF MarkPhase, LockStep, ProcessOK, ClaimStates, Verdicts,
              PCs, Holding, InLease, Following, Before, After, Ended
<1>2. CASE MayHaveSet(p, "ACTIVE") /\ Raises(p, "error")
  <2>1. PICK w \in {"closing", "exit"} :
            Moves(p, w, "error", procs[p].final, procs[p].code)
    BY <1>0, <1>2, RaisesEffect DEF Exceptions
  <2>2. CASE UNCHANGED claims
    BY <1>0, <2>1, <2>2, Here, LetGoArm, QuietMove
    DEF MarkPhase, LockStep, ProcessOK, Exceptions,
        PCs, Holding, InLease, Following, Before, After, Ended
  <2>3. CASE SetClaim(p, "ACTIVE")
    BY <1>0, <2>1, <2>3, Here, ClaimMove
    DEF MarkPhase, LockStep, ProcessOK, Exceptions, ClaimStates, Verdicts,
        PCs, Holding, InLease, Following, Before, After, Ended
  <2> QED BY <1>2, <2>2, <2>3 DEF MayHaveSet
<1> QED BY <1>1, <1>2 DEF MarkPhase

LEMMA PhaseFailsIInv ==
  ASSUME IInv, NEW p \in Processes, PhaseFails(p)
  PROVE  IInv'
<1>0. Typed /\ ProcessOK(p) /\ p # Nobody BY Here
<1>1. PICK w \in {"closing", "exit"} :
          Moves(p, w, "error", procs[p].final, procs[p].code)
  BY <1>0, RaisesEffect DEF PhaseFails, Exceptions
<1> QED BY <1>0, <1>1, Here, LetGoArm, QuietMove
        DEF PhaseFails, LockStep, ProcessOK, Exceptions,
            PCs, Holding, InLease, Following, Before, After, Ended

LEMMA ServoEndsIInv ==
  ASSUME IInv, NEW p \in Processes, ServoEnds(p)
  PROVE  IInv'
<1>0. Typed /\ ProcessOK(p) /\ p # Nobody BY Here
<1>1. Moves(p, procs[p].pc, procs[p].exc, procs[p].final, procs[p].code)
  <2> HIDE DEF Process
  <2> QED BY <1>0 DEF ServoEnds, Moves, Typed
<1>2. ArmStep(p)
  BY <1>0 DEF ServoEnds, ArmStep, Typed
<1> QED BY <1>0, <1>1, <1>2, Here, QuietMove
        DEF ServoEnds, LockStep, ProcessOK, PCs, Holding, InLease, Following, Before, After, Ended

LEMMA PolicyEndsIInv ==
  ASSUME IInv, NEW p \in Processes, PolicyEnds(p)
  PROVE  IInv'
<1>0. Typed /\ ProcessOK(p) /\ p # Nobody BY Here
<1>1. PICK failure \in Exceptions :
          Becomes(p, [procs[p] EXCEPT !.pc = "stopping", !.exc = failure])
  BY DEF PolicyEnds
<1> DEFINE s == [procs[p] EXCEPT !.pc = "stopping", !.exc = failure]
<1>2. /\ s \in Process /\ s.pc = "stopping" /\ s.exc = failure /\ s.run = procs[p].run
      /\ s.final = procs[p].final /\ s.code = procs[p].code
  BY Here DEF Process, PCs, Holding, InLease
<1>3. Moves(p, "stopping", failure, procs[p].final, procs[p].code)
  BY <1>0, <1>1, <1>2, BecomesEffect DEF Moves
<1> QED BY <1>0, <1>3, Here, LetGoArm, QuietMove
        DEF PolicyEnds, At, LockStep, ProcessOK, PCs, Holding, InLease, Following, Before, After, Ended

\* The one writer of an audit is the process its claim names; an audit that says PASS
\* finds the arm free.
LEMMA WriteAuditIInv ==
  ASSUME IInv, NEW p \in Processes, WriteAudit(p)
  PROVE  IInv'
<1>0. Typed /\ ProcessOK(p) /\ p # Nobody BY Here
<1>1. PICK run \in RunIds : run = procs[p].run
  BY Here DEF Process
<1>2. /\ procs[p].pc = "stopping" /\ ~procs[p].final /\ procs[p].code # 0
      /\ lock = p /\ claims[run].by = p /\ claims[run].state \notin Verdicts
      /\ RunOK(run)
  BY <1>0, <1>1 DEF WriteAudit, At, ProcessOK, Claim, IInv, RunOK,
                    PCs, Holding, InLease, Following, Before, After, Ended
<1>3. ASSUME NEW e \in {"error", "interrupt"}, Raises(p, e),
             audits' \in [RunIds -> AuditFile],
             \A r \in RunIds : r # run => audits'[r] = audits[r]
      PROVE  IInv'
  <2>1. PICK w \in {"closing", "exit"} :
            Moves(p, w, e, procs[p].final, procs[p].code)
    BY <1>0, <1>3, RaisesEffect DEF Exceptions
  <2>2. Local(p)
    BY <1>0, <1>1, <1>2, <1>3 DEF Local, Typed, Claim, WriteAudit
  <2>3. ProcessOK(p)'
    BY <1>1, <1>2, <1>3, <2>1 DEF ProcessOK, WriteAudit, Moves, Claim,
                    PCs, Holding, InLease, Following, Before, After, Ended
  <2>4. RunOK(run)'
    BY <1>1, <1>2, <2>1 DEF RunOK, Passed, WriteAudit, Moves, Verdicts, Before
  <2> QED BY <1>1, <2>1, <2>2, <2>3, <2>4, Frame DEF Before
<1>4. ASSUME NEW result \in {"PASS", "FAIL"},
             audits' = [audits EXCEPT ![run] = [by |-> p, result |-> result]]
      PROVE  /\ audits' \in [RunIds -> AuditFile]
             /\ audits'[run].by = p /\ audits'[run].result = result
             /\ \A r \in RunIds : r # run => audits'[r] = audits[r]
  <2>1. [by |-> p, result |-> result] \in AuditFile
    BY DEF AuditFile
  <2>2. /\ audits' \in [RunIds -> AuditFile]
        /\ audits'[run] = [by |-> p, result |-> result]
        /\ \A r \in RunIds : r # run => audits'[r] = audits[r]
    <3> HIDE DEF AuditFile
    <3> QED BY <1>0, <1>4, <2>1 DEF Typed
  <2> QED BY <2>2
<1>5. CASE UNCHANGED audits /\ Raises(p, "error")
  BY <1>0, <1>3, <1>5 DEF Typed
<1>6. ASSUME NEW stopped \in BOOLEAN,
             stopped => arm[p] = "free",
             ~(procs[p].exc = "none" /\ stopped),
             audits' = [audits EXCEPT ![run] = [by |-> p, result |-> "FAIL"]],
             Raises(p, IF procs[p].exc = "none" THEN "error" ELSE procs[p].exc)
      PROVE  IInv'
  <2>1. (IF procs[p].exc = "none" THEN "error" ELSE procs[p].exc) \in {"error", "interrupt"}
    BY Here DEF Exceptions
  <2> QED BY <1>3, <1>4, <1>6, <2>1
<1>7. ASSUME arm[p] = "free", procs[p].exc = "none", Goes(p, "finalize"),
             audits' = [audits EXCEPT ![run] = [by |-> p, result |-> "PASS"]]
      PROVE  IInv'
  <2>1. Moves(p, "finalize", procs[p].exc, procs[p].final, procs[p].code)
    BY <1>0, <1>7, GoesEffect DEF PCs, Holding, InLease
  <2>2. Local(p)
    BY <1>0, <1>1, <1>2, <1>4, <1>7 DEF Local, Typed, Claim, WriteAudit
  <2>3. ProcessOK(p)'
    BY <1>1, <1>2, <1>4, <1>7, <2>1 DEF ProcessOK, WriteAudit, Moves, Claim, Passed,
                    PCs, Holding, InLease, Following, Before, After, Ended
  <2>4. RunOK(run)'
    BY <1>1, <1>2, <2>1 DEF RunOK, Passed, WriteAudit, Moves, Verdicts, Before
  <2> QED BY <1>1, <2>1, <2>2, <2>3, <2>4, Frame DEF Before
<1> QED BY <1>1, <1>5, <1>6, <1>7 DEF WriteAudit

LEMMA FinalizePassIInv ==
  ASSUME IInv, NEW p \in Processes, FinalizePass(p)
  PROVE  IInv'
<1>0. Typed /\ ProcessOK(p) /\ p # Nobody BY Here
<1>3. /\ procs[p].pc = "finalize" /\ lock = p /\ UNCHANGED <<lock, audits, arm>>
      /\ Claim(p).by = p /\ arm[p] = "free" /\ Passed(procs[p].run, p)
      /\ ~procs[p].final /\ procs[p].code # 0
  BY <1>0 DEF FinalizePass, At, ProcessOK, Before, After, Ended, Holding, InLease
<1>4. LockStep(p) /\ {"closing", "exit"} \subseteq Holding \cap After /\ "PASS" \in ClaimStates
  BY <1>3 DEF LockStep, Holding, InLease, After, ClaimStates, Verdicts
<1>1. CASE /\ SetClaim(p, "PASS")
          /\ Becomes(p, [procs[p] EXCEPT !.pc = "closing", !.final = TRUE])
  <2> DEFINE s == [procs[p] EXCEPT !.pc = "closing", !.final = TRUE]
  <2>1. /\ s \in Process /\ s.pc = "closing" /\ s.exc = procs[p].exc
        /\ s.run = procs[p].run /\ s.final = TRUE /\ s.code = procs[p].code
    BY Here DEF Process, PCs, Holding, InLease
  <2>2. /\ Moves(p, "closing", procs[p].exc, s.final, procs[p].code)
        /\ s.final \in BOOLEAN /\ s.final = TRUE
    BY <1>0, <1>1, <2>1, BecomesEffect DEF Moves
  <2>3. PICK run \in RunIds : run = procs[p].run
    BY Here DEF Process
  <2>4. /\ claims' \in [RunIds -> ClaimFile]
        /\ claims'[run].by = p /\ claims'[run].state = "PASS"
        /\ \A r \in RunIds : r # run => claims'[r] = claims[r]
    BY <1>0, <1>1, <1>4, <2>3, SetClaimEffect
  <2>5. Local(p)
    BY <1>0, <1>3, <2>3, <2>4 DEF Typed, Local
  <2>6. ProcessOK(p)'
    BY <1>3, <1>4, <2>2, <2>3, <2>4 DEF ProcessOK, Moves, Claim, Before, Ended
  <2>7. RunOK(run)'
    BY <1>0, <1>3, <1>4, <2>2, <2>3, <2>4 DEF RunOK, Moves, Passed, Before
  <2> QED BY <2>2, <2>3, <2>5, <2>6, <2>7, Frame DEF Before
<1>2. CASE MayHaveSet(p, "PASS") /\ Raises(p, "error")
  <2>1. PICK w \in {"closing", "exit"} :
            Moves(p, w, "error", procs[p].final, procs[p].code)
    BY <1>0, <1>2, RaisesEffect DEF Exceptions
  <2>2. CASE UNCHANGED claims
    BY <1>0, <1>3, <1>4, <2>1, <2>2, Here, LetGoArm, QuietMove
    DEF PCs, Before, Ended, Exceptions
  <2>3. CASE SetClaim(p, "PASS")
    BY <1>3, <1>4, <2>1, <2>3, Here, ClaimMove DEF PCs, Before, Ended, Exceptions
  <2> QED BY <1>2, <2>2, <2>3 DEF MayHaveSet
<1> QED BY <1>1, <1>2 DEF FinalizePass

LEMMA CloseIInv ==
  ASSUME IInv, NEW p \in Processes, Close(p)
  PROVE  IInv'
<1>0. Typed /\ ProcessOK(p) /\ p # Nobody BY Here
<1>1. CASE Goes(p, "exit")
  <2>1. Moves(p, "exit", procs[p].exc, procs[p].final, procs[p].code)
    BY <1>0, <1>1, GoesEffect DEF PCs, Holding, InLease
  <2> QED BY <1>0, <2>1, Here, LetGoArm, QuietMove
          DEF Close, At, LockStep, ProcessOK, PCs, Holding, InLease, Following, Before, After, Ended
<1>2. CASE Becomes(p, [procs[p] EXCEPT !.pc = "exit", !.exc = "error"])
  <2> DEFINE s == [procs[p] EXCEPT !.pc = "exit", !.exc = "error"]
  <2>1. /\ s \in Process /\ s.pc = "exit" /\ s.exc = "error" /\ s.run = procs[p].run
        /\ s.final = procs[p].final /\ s.code = procs[p].code
    BY Here DEF Process, PCs, Holding, InLease, Exceptions
  <2>2. Moves(p, "exit", "error", procs[p].final, procs[p].code)
    BY <1>0, <1>2, <2>1, BecomesEffect DEF Moves
  <2> QED BY <1>0, <2>2, Here, LetGoArm, QuietMove
          DEF Close, At, LockStep, ProcessOK, Exceptions, PCs, Holding, InLease, Following, Before, After, Ended
<1> QED BY <1>1, <1>2 DEF Close

LEMMA ExitIInv ==
  ASSUME IInv, NEW p \in Processes, Exit(p)
  PROVE  IInv'
<1>0. Typed /\ ProcessOK(p) /\ p # Nobody BY Here
<1>1. Moves(p, "release", procs[p].exc, procs[p].final, procs[p].code)
  BY <1>0, GoesEffect DEF Exit, PCs, Holding, InLease
<1>2. CASE UNCHANGED claims
  BY <1>0, <1>1, <1>2, Here, LetGoArm, QuietMove
  DEF Exit, At, LockStep, ProcessOK, PCs, Holding, InLease, Following, Before, After, Ended
<1>3. ASSUME NEW v \in {"INTERRUPTED", "FAILED"}, SetClaim(p, v), ~procs[p].final
      PROVE  IInv'
  BY <1>0, <1>1, <1>3, Here, ClaimMove
  DEF Exit, At, LockStep, ProcessOK, ClaimStates, Verdicts, PCs, Holding, InLease, Following, Before, After, Ended
<1> QED BY <1>2, <1>3 DEF Exit, MayHaveSet

LEMMA ReportIInv ==
  ASSUME IInv, NEW p \in Processes, Report(p)
  PROVE  IInv'
<1>0. Typed /\ ProcessOK(p) /\ p # Nobody BY Here
<1>1. PICK code \in Codes : Ends(p, code) /\ (code = 0 => procs[p].exc = "none")
  BY DEF Report, Codes
<1>2. Moves(p, "ended", procs[p].exc, procs[p].final, code)
  BY <1>0, <1>1, EndsEffect
<1> QED BY <1>0, <1>1, <1>2, Here, LetGoArm, QuietMove
        DEF Report, At, LockStep, ProcessOK, PCs, Holding, InLease, Following, Before, After, Ended

LEMMA InterruptIInv ==
  ASSUME IInv, NEW p \in Processes, Interrupt(p)
  PROVE  IInv'
<1>0. Typed /\ ProcessOK(p) /\ p # Nobody BY Here
<1>1. CASE Ends(p, 130) /\ UNCHANGED arm /\ LockStep(p) /\ lock' # p
  <2>1. Moves(p, "ended", procs[p].exc, procs[p].final, 130)
    BY <1>0, <1>1, EndsEffect DEF Codes
  <2> QED BY <1>0, <1>1, <2>1, Here, LetGoArm, QuietMove
          DEF Interrupt, At, ProcessOK, Codes, PCs, Holding, InLease, Following, Before, After, Ended
<1>2. CASE /\ At(p, "release") /\ lock' = Nobody /\ UNCHANGED arm
          /\ Becomes(p, [procs[p] EXCEPT !.pc = "report", !.exc = "interrupt"])
  <2> DEFINE s == [procs[p] EXCEPT !.pc = "report", !.exc = "interrupt"]
  <2>1. /\ s \in Process /\ s.pc = "report" /\ s.exc = "interrupt"
        /\ s.run = procs[p].run /\ s.final = procs[p].final /\ s.code = procs[p].code
    BY Here DEF Process, PCs, Exceptions
  <2>2. Moves(p, "report", "interrupt", procs[p].final, procs[p].code)
    BY <1>0, <1>2, <2>1, BecomesEffect DEF Moves
  <2> QED BY <1>0, <1>2, <2>2, Here, LetGoArm, QuietMove
          DEF Interrupt, At, LockStep, ProcessOK, Exceptions, PCs, Holding, InLease, Following, Before, After, Ended
<1>3. CASE /\ procs[p].pc \in InLease \ {"running", "exit", "release"}
          /\ Raises(p, "interrupt") /\ LetGo(p) /\ UNCHANGED lock
  <2>1. PICK w \in {"closing", "exit"} :
            Moves(p, w, "interrupt", procs[p].final, procs[p].code)
    BY <1>0, <1>3, RaisesEffect DEF Exceptions
  <2> QED BY <1>0, <1>3, <2>1, Here, LetGoArm, QuietMove
          DEF Interrupt, LockStep, ProcessOK, Exceptions, PCs, Holding, InLease, Following, Before, After, Ended
<1> QED BY <1>0, <1>1, <1>2, <1>3
        DEF Interrupt, LockStep, ProcessOK, PCs, Holding, InLease, Following, Before, After, Ended

LEMMA KilledIInv ==
  ASSUME IInv, NEW p \in Processes, Killed(p)
  PROVE  IInv'
<1>0. Typed /\ ProcessOK(p) /\ p # Nobody BY Here
<1>1. Moves(p, "killed", procs[p].exc, procs[p].final, procs[p].code)
  BY <1>0, GoesEffect DEF Killed, PCs, Ended
<1> QED BY <1>0, <1>1, Here, LetGoArm, QuietMove
        DEF Killed, LockStep, ProcessOK, PCs, Holding, InLease, Following, Before, After, Ended

LEMMA NextIInv == IInv /\ [Next]_leaseVars => IInv'
<1> SUFFICES ASSUME IInv, [Next]_leaseVars PROVE IInv'
  OBVIOUS
<1>1. CASE UNCHANGED leaseVars
  BY <1>1 DEF leaseVars, IInv, Typed, ProcessOK, RunOK, Claim, Passed
<1>2. ASSUME NEW p \in Processes, Acquire(p) PROVE IInv'
  BY <1>2, AdmitIInv, TakeLockIInv, CreateClaimIInv, WriteClaimIInv, EnterIInv DEF Acquire
<1>3. ASSUME NEW p \in Processes, Work(p) PROVE IInv'
  BY <1>3, MarkPhaseIInv, ResetIInv, ResetReturnsIInv, PhaseFailsIInv, RunPolicyIInv,
     PolicyEndsIInv, WriteAuditIInv DEF Work
<1>4. ASSUME NEW p \in Processes, Leave(p) PROVE IInv'
  BY <1>4, FinalizePassIInv, CloseIInv, ExitIInv, ReleaseIInv, ReportIInv DEF Leave
<1> QED BY <1>1, <1>2, <1>3, <1>4, ServoEndsIInv, InterruptIInv, KilledIInv DEF Next

\* The inductive invariant, for every set of processes and run ids.
THEOREM Invariant == Spec => []IInv
BY InitIInv, NextIInv, PTL DEF Spec

\* The types hold, and a process holds the flock exactly from TakeLock to its way
\* out: so no two processes are inside at once.
THEOREM TypeCorrect == Spec => []LeaseTypeOK
<1>1. IInv => LeaseTypeOK
  BY DEF IInv, Typed, ProcessOK, LeaseTypeOK, Process, ClaimFile, ClaimStates, AuditFile
<1> QED BY <1>1, Invariant, PTL

\* A PASS on disk has the passing audit of the same process and a stopped servo, and
\* exit code 0 has a PASS of its own.
THEOREM EvidenceAgrees == Spec => []SuccessIsEarned
<1>1. ASSUME IInv PROVE SuccessIsEarned
  <2>1. ASSUME NEW r \in RunIds, claims[r].state = "PASS"
        PROVE  /\ audits[r] = [by |-> claims[r].by, result |-> "PASS"]
               /\ arm[claims[r].by] = "free"
    <3>1. audits[r] \in AuditFile /\ Passed(r, claims[r].by) /\ arm[claims[r].by] = "free"
      BY <1>1, <2>1 DEF IInv, Typed, RunOK
    <3> QED BY <3>1 DEF AuditFile, Passed
  <2>2. ASSUME NEW p \in Processes, procs[p].code = 0
        PROVE  Claim(p) = [by |-> p, state |-> "PASS"]
    <3>1. Claim(p) \in ClaimFile
      BY <1>1, Here DEF Typed, Claim, Process
    <3>2. Claim(p).by = p /\ Claim(p).state = "PASS"
      BY <1>1, <2>2, Here DEF ProcessOK
    <3> QED BY <3>1, <3>2 DEF ClaimFile
  <2> QED BY <2>1, <2>2 DEF SuccessIsEarned
<1> QED BY <1>1, Invariant, PTL

(* the promise ------------------------------------------------------------------ *)

Users == [r \in RunIds |-> claims[r].by]
VerdictOf == [r \in RunIds |-> IF claims[r].state \in Verdicts
                               THEN claims[r].state ELSE "open"]
Succeeded == {p \in Processes : procs[p].code = 0}

\* A process is running when it takes a step, and has reported nothing.
LEMMA Unreported ==
  ASSUME IInv, NEW p \in Processes, procs[p].pc \notin Ended, NEW s \in Process,
         Becomes(p, s), s.code # 0
  PROVE  Succeeded' = Succeeded
<1>1. procs[p].code # 0
  BY Here DEF ProcessOK, Ended
<1>2. \A q \in Processes : procs'[q].code = 0 <=> procs[q].code = 0
  BY <1>1, Here, BecomesEffect
<1> QED BY <1>2 DEF Succeeded

\* So it is for every way a process goes on, raises or refuses.
LEMMA NoSuccess ==
  ASSUME IInv, NEW p \in Processes, procs[p].pc \notin Ended,
         \/ \E w \in PCs : Goes(p, w)
         \/ \E c \in Codes \ {0} : Ends(p, c)
         \/ \E e \in Exceptions : Raises(p, e)
         \/ \E w \in PCs, e \in Exceptions :
                Becomes(p, [procs[p] EXCEPT !.pc = w, !.exc = e])
         \/ \E w \in PCs, f \in BOOLEAN :
                Becomes(p, [procs[p] EXCEPT !.pc = w, !.final = f])
  PROVE  Succeeded' = Succeeded
<1>0. procs[p] \in Process /\ procs[p].code # 0
  BY Here DEF ProcessOK, Ended
<1>1. ASSUME NEW w \in PCs
      PROVE  [procs[p] EXCEPT !.pc = w] \in Process
             /\ [procs[p] EXCEPT !.pc = w].code # 0
  BY <1>0 DEF Process
<1>2. ASSUME NEW c \in Codes \ {0}
      PROVE  [procs[p] EXCEPT !.pc = "ended", !.code = c] \in Process
             /\ [procs[p] EXCEPT !.pc = "ended", !.code = c].code # 0
  BY <1>0 DEF Process, PCs, Ended
<1>3. ASSUME NEW w \in PCs, NEW e \in Exceptions
      PROVE  /\ [procs[p] EXCEPT !.pc = w, !.exc = e] \in Process
             /\ [procs[p] EXCEPT !.pc = w, !.exc = e].code # 0
             /\ [procs[p] EXCEPT !.exc = e, !.pc = w] \in Process
             /\ [procs[p] EXCEPT !.exc = e, !.pc = w].code # 0
  BY <1>0 DEF Process
<1>4. ASSUME NEW w \in PCs, NEW f \in BOOLEAN
      PROVE  [procs[p] EXCEPT !.pc = w, !.final = f] \in Process
             /\ [procs[p] EXCEPT !.pc = w, !.final = f].code # 0
  BY <1>0 DEF Process
<1>5. (IF procs[p].pc = "held" THEN "exit" ELSE "closing") \in PCs
  BY DEF PCs, Holding, InLease
<1> HIDE DEF Process
<1>6. ASSUME NEW e \in Exceptions, Raises(p, e) PROVE Succeeded' = Succeeded
  BY <1>3, <1>5, <1>6, Unreported DEF Raises
<1> QED BY <1>1, <1>2, <1>3, <1>4, <1>6, Unreported DEF Goes, Ends

\* A step that shows in the lock alone.
LEMMA LockRefines ==
  ASSUME NEW p \in Processes, LockStep(p),
         Users' = Users, VerdictOf' = VerdictOf, Succeeded' = Succeeded
  PROVE  [Registry!Next]_Registry!registryVars
  BY DEF LockStep, Users, VerdictOf, Succeeded, Registry!Next, Registry!Take,
         Registry!Drop, Registry!registryVars

\* Neither does a rewrite of p's own claim that records no verdict show.
LEMMA NoVerdict ==
  ASSUME IInv, NEW p \in Processes, NEW v \in ClaimStates \ Verdicts,
         Claim(p).by = p, Claim(p).state \notin Verdicts, MayHaveSet(p, v)
  PROVE  Users' = Users /\ VerdictOf' = VerdictOf
<1>1. CASE UNCHANGED claims
  BY <1>1 DEF Users, VerdictOf
<1>2. CASE SetClaim(p, v)
  <2>0. /\ claims'[procs[p].run].by = p /\ claims'[procs[p].run].state = v
        /\ \A r \in RunIds : r # procs[p].run => claims'[r] = claims[r]
    BY <1>2, Here, SetClaimEffect
  <2>1. \A r \in RunIds : claims'[r].by = claims[r].by
    BY <2>0 DEF Claim
  <2>2. ASSUME NEW r \in RunIds
        PROVE  \/ claims'[r].state = claims[r].state
               \/ claims'[r].state \notin Verdicts /\ claims[r].state \notin Verdicts
    <3>1. CASE r = procs[p].run
      BY <2>0, <3>1, v \notin Verdicts DEF Claim
    <3>2. CASE r # procs[p].run
      BY <2>0, <3>2
    <3> QED BY <3>1, <3>2
  <2> QED BY <2>1, <2>2 DEF Users, VerdictOf
<1> QED BY <1>1, <1>2 DEF MayHaveSet

\* A verdict is recorded by the holder, of the run it has used.
LEMMA JudgeRefines ==
  ASSUME IInv, NEW p \in Processes, NEW v \in Verdicts,
         Claim(p).by = p, lock = p, UNCHANGED lock, SetClaim(p, v),
         Succeeded' = Succeeded
  PROVE  [Registry!Next]_Registry!registryVars
<1>1. PICK run \in RunIds : run = procs[p].run
  BY Here DEF Process
<1>2. /\ claims'[run].by = p /\ claims'[run].state = v
      /\ \A r \in RunIds : r # run => claims'[r] = claims[r]
  BY <1>1, Here, SetClaimEffect DEF ClaimStates
<1>3. Users' = Users
  BY <1>1, <1>2 DEF Users, Claim
<1>4. VerdictOf' = [VerdictOf EXCEPT ![run] = v]
  BY <1>2 DEF VerdictOf
<1>5. Registry!Judge(p, run, v)
  BY <1>1, <1>3, <1>4 DEF Registry!Judge, Users, VerdictOf, Succeeded, Claim
<1> QED BY <1>5 DEF Registry!Next

\* An exit code of failure is no success.
LEMMA FailureIsNoSuccess ==
  ASSUME IInv, NEW p \in Processes, procs[p].pc \notin Ended,
         NEW c \in {1, 2, 130}, Ends(p, c)
  PROVE  Succeeded' = Succeeded
<1>1. c \in Codes \ {0}
  BY DEF Codes
<1> QED BY <1>1, NoSuccess

\* Steps that leave the claims alone show in the lock at most.
LEMMA QuietRefines ==
  ASSUME IInv, NEW p \in Processes, UNCHANGED claims, LockStep(p),
         Succeeded' = Succeeded
  PROVE  [Registry!Next]_Registry!registryVars
<1>1. Users' = Users /\ VerdictOf' = VerdictOf
  BY DEF Users, VerdictOf
<1> QED BY <1>1, LockRefines

\* Acquisition takes the lock, uses the run id, or gives the lock back.
LEMMA AcquireRefines ==
  ASSUME IInv, NEW p \in Processes, Acquire(p)
  PROVE  [Registry!Next]_Registry!registryVars
<1>0. Typed /\ ProcessOK(p) /\ p # Nobody BY Here
<1>1. CASE Admit(p)
  <2>1. Succeeded' = Succeeded
    <3>1. procs[p].pc \notin Ended /\ "lock" \in PCs
      BY <1>1 DEF Admit, At, PCs, Ended
    <3> QED BY <1>1, <3>1, NoSuccess, FailureIsNoSuccess DEF Admit
  <2> QED BY <1>1, <2>1, QuietRefines DEF Admit, LockStep
<1>2. CASE TakeLock(p)
  <2>1. Succeeded' = Succeeded
    <3>1. procs[p].pc \notin Ended /\ "claim" \in PCs
      BY <1>2 DEF TakeLock, At, PCs, Ended, Holding
    <3> QED BY <1>2, <3>1, NoSuccess, FailureIsNoSuccess DEF TakeLock
  <2> QED BY <1>2, <2>1, QuietRefines DEF TakeLock, LockStep
<1>3. ASSUME Refused(p), procs[p].pc \in {"claim", "write"} PROVE Succeeded' = Succeeded
  BY <1>3, FailureIsNoSuccess DEF Refused, Ended
<1>4. CASE CreateClaim(p)
  <2>1. procs[p].pc = "claim" /\ lock = p
    BY <1>0, <1>4 DEF CreateClaim, At, ProcessOK, Holding
  <2>2. CASE Refused(p) /\ UNCHANGED claims
    BY <1>3, <2>1, <2>2, QuietRefines DEF Refused, LockStep
  <2>3. CASE /\ Claim(p) = NoClaim /\ SetClaim(p, "empty")
             /\ Goes(p, "write") /\ UNCHANGED lock
    <3>1. PICK run \in RunIds : run = procs[p].run
      BY Here DEF Process
    <3>2. /\ claims'[run].by = p /\ claims'[run].state = "empty"
          /\ \A r \in RunIds : r # run => claims'[r] = claims[r]
      BY <1>0, <2>3, <3>1, SetClaimEffect DEF ClaimStates
    <3>3. claims[run].by = Nobody /\ claims[run].state = "absent"
      BY <2>3, <3>1 DEF Claim, NoClaim
    <3>4. \A r \in RunIds : claims[r].by # p
      BY <1>0, <2>1 DEF IInv, RunOK, Before
    <3>5. Users' = [Users EXCEPT ![run] = p]
      BY <3>2 DEF Users
    <3>6. VerdictOf' = VerdictOf
      <4>1. \A r \in RunIds :
                (IF claims'[r].state \in Verdicts THEN claims'[r].state ELSE "open")
                = (IF claims[r].state \in Verdicts THEN claims[r].state ELSE "open")
        BY <3>2, <3>3 DEF Verdicts
      <4> QED BY <4>1 DEF VerdictOf
    <3>7. Succeeded' = Succeeded
      BY <2>1, <2>3, NoSuccess DEF Ended, PCs, Holding
    <3>8. Registry!Use(p, run)
      BY <2>1, <2>3, <3>3, <3>4, <3>5, <3>6, <3>7
      DEF Registry!Use, Users, VerdictOf, Succeeded
    <3> QED BY <3>8 DEF Registry!Next
  <2> QED BY <1>4, <2>2, <2>3 DEF CreateClaim
<1>5. CASE WriteClaim(p)
  <2>1. /\ procs[p].pc = "write" /\ lock = p /\ Claim(p).by = p
        /\ Claim(p).state \notin Verdicts
    BY <1>0, <1>5, Here
    DEF WriteClaim, At, IInv, ProcessOK, RunOK, Claim, Process,
        Holding, InLease, Following, Before, After, Ended
  <2>2. Users' = Users /\ VerdictOf' = VerdictOf
    BY <1>5, <2>1, NoVerdict DEF WriteClaim, MayHaveSet, ClaimStates, Verdicts
  <2>3. Succeeded' = Succeeded
    <3>1. CASE Goes(p, "acquired")
      BY <2>1, <3>1, NoSuccess DEF Ended, PCs, Holding
    <3>2. CASE Refused(p)
      BY <1>3, <2>1, <3>2
    <3> QED BY <1>5, <3>1, <3>2 DEF WriteClaim
  <2> QED BY <1>5, <2>1, <2>2, <2>3, LockRefines DEF WriteClaim, Refused, LockStep
<1>6. CASE Enter(p)
  <2>1. Succeeded' = Succeeded
    BY <1>6, NoSuccess DEF Enter, At, PCs, Ended, Holding, InLease, Following
  <2> QED BY <1>6, <2>1, QuietRefines DEF Enter, LockStep
<1> QED BY <1>1, <1>2, <1>4, <1>5, <1>6 DEF Acquire

\* The work of the phases does not show.
LEMMA WorkRefines ==
  ASSUME IInv, NEW p \in Processes, Work(p)
  PROVE  [Registry!Next]_Registry!registryVars
<1>0. Typed /\ ProcessOK(p) /\ p # Nobody BY Here
<1>1. CASE MarkPhase(p)
  <2>1. procs[p].pc \in {"held", "prewarm", "homed", "preflight"}
    BY <1>1 DEF MarkPhase, Following
  <2>2. Claim(p).by = p /\ Claim(p).state \notin Verdicts
    BY <1>0, <2>1, Here
    DEF IInv, ProcessOK, RunOK, Claim, Process, Before, After, Ended
  <2>3. Users' = Users /\ VerdictOf' = VerdictOf
    BY <1>1, <2>2, NoVerdict DEF MarkPhase, MayHaveSet, ClaimStates, Verdicts
  <2>4. Following[procs[p].pc] \in PCs
    BY <2>1 DEF Following, PCs, Holding, InLease
  <2>5. Succeeded' = Succeeded
    BY <1>1, <2>1, <2>4, NoSuccess DEF MarkPhase, Ended, Exceptions
  <2> QED BY <1>1, <2>3, <2>5, LockRefines DEF MarkPhase, LockStep
<1>2. ASSUME procs[p].pc \notin Ended, NEW w \in PCs, Goes(p, w) PROVE Succeeded' = Succeeded
  BY <1>2, NoSuccess
<1>3. CASE Reset(p) \/ ResetReturns(p) \/ RunPolicy(p)
  <2>1. /\ procs[p].pc \notin Ended /\ UNCHANGED claims /\ LockStep(p)
        /\ Goes(p, "resetting") \/ Goes(p, "homed") \/ Goes(p, "running")
    BY <1>3 DEF Reset, ResetReturns, RunPolicy, At, Ended, LockStep
  <2>2. {"resetting", "homed", "running"} \subseteq PCs
    BY DEF PCs, Holding, InLease, Following
  <2> QED BY <1>2, <2>1, <2>2, QuietRefines
<1>4. CASE PhaseFails(p)
  <2>1. Succeeded' = Succeeded
    BY <1>4, NoSuccess DEF PhaseFails, Ended, Exceptions
  <2> QED BY <1>4, <2>1, QuietRefines DEF PhaseFails, LockStep
<1>5. CASE PolicyEnds(p)
  <2>1. Succeeded' = Succeeded
    BY <1>5, NoSuccess DEF PolicyEnds, At, Ended, PCs, Holding, InLease
  <2> QED BY <1>5, <2>1, QuietRefines DEF PolicyEnds, LockStep
<1>6. CASE WriteAudit(p)
  <2>1. /\ procs[p].pc = "stopping" /\ UNCHANGED <<lock, claims>>
        /\ Goes(p, "finalize") \/ \E e \in Exceptions : Raises(p, e)
    BY <1>6, Here DEF WriteAudit, At, Exceptions
  <2>2. Succeeded' = Succeeded
    BY <2>1, NoSuccess DEF Ended, PCs, Holding, InLease
  <2> QED BY <2>1, <2>2, QuietRefines DEF LockStep
<1> QED BY <1>1, <1>3, <1>4, <1>5, <1>6 DEF Work

\* Leaving judges the run, drops the lock, and may report a success.
LEMMA LeaveRefines ==
  ASSUME IInv, NEW p \in Processes, Leave(p)
  PROVE  [Registry!Next]_Registry!registryVars
<1>0. Typed /\ ProcessOK(p) /\ p # Nobody BY Here
<1>1. CASE FinalizePass(p)
  <2>1. procs[p].pc = "finalize" /\ lock = p /\ Claim(p).by = p /\ UNCHANGED lock
    BY <1>0, <1>1 DEF FinalizePass, At, ProcessOK, Before, Ended, Holding, InLease
  <2>2. Succeeded' = Succeeded
    BY <1>1, <2>1, NoSuccess
    DEF FinalizePass, Ended, Exceptions, PCs, Holding, InLease
  <2>3. CASE SetClaim(p, "PASS")
    BY <2>1, <2>2, <2>3, JudgeRefines DEF Verdicts
  <2>4. CASE UNCHANGED claims
    BY <2>1, <2>2, <2>4, QuietRefines DEF LockStep
  <2> QED BY <1>1, <2>3, <2>4 DEF FinalizePass, MayHaveSet
<1>2. CASE Close(p)
  <2>1. Succeeded' = Succeeded
    BY <1>2, NoSuccess DEF Close, At, Ended, Exceptions, PCs, Holding, InLease
  <2> QED BY <1>2, <2>1, QuietRefines DEF Close, LockStep
<1>3. CASE Exit(p)
  <2>1. procs[p].pc = "exit" /\ lock = p /\ Claim(p).by = p /\ UNCHANGED lock
    BY <1>0, <1>3 DEF Exit, At, ProcessOK, Before, Ended, Holding, InLease
  <2>2. Succeeded' = Succeeded
    BY <1>3, <2>1, NoSuccess DEF Exit, Ended, PCs, Holding, InLease
  <2>3. ASSUME NEW v \in {"FAILED", "INTERRUPTED"}, SetClaim(p, v)
        PROVE  [Registry!Next]_Registry!registryVars
    BY <2>1, <2>2, <2>3, JudgeRefines DEF Verdicts
  <2>4. CASE UNCHANGED claims
    BY <2>1, <2>2, <2>4, QuietRefines DEF LockStep
  <2> QED BY <1>3, <2>3, <2>4 DEF Exit, MayHaveSet
<1>4. CASE Release(p)
  <2>1. lock = p
    BY <1>0, <1>4 DEF Release, At, ProcessOK, Holding, InLease
  <2>2. Succeeded' = Succeeded
    BY <1>4, NoSuccess DEF Release, At, Ended, PCs
  <2> QED BY <1>4, <2>1, <2>2, QuietRefines DEF Release, LockStep
<1>5. CASE Report(p)
  <2>1. /\ procs[p].pc = "report" /\ lock # p /\ UNCHANGED <<lock, claims>>
        /\ Claim(p).by = p
    BY <1>0, <1>5 DEF Report, At, ProcessOK, Before, Ended, Holding, InLease, Following
  <2>2. PICK code \in Codes : Ends(p, code) /\ (code = 0 => procs[p].exc = "none")
    BY <1>5 DEF Report, Codes
  <2>3. CASE code # 0
    <3>1. Succeeded' = Succeeded
      BY <2>1, <2>2, <2>3, NoSuccess DEF Ended
    <3> QED BY <2>1, <3>1, QuietRefines DEF LockStep
  <2>4. CASE code = 0
    <3>1. Moves(p, "ended", procs[p].exc, procs[p].final, 0)
      BY <1>0, <2>2, <2>4, EndsEffect
    <3>2. Succeeded' = Succeeded \cup {p}
      BY <3>1 DEF Moves, Succeeded
    <3>3. Claim(p).state = "PASS"
      BY <1>0, <2>1, <2>2, <2>4 DEF ProcessOK, After, Ended
    <3>4. Users' = Users /\ VerdictOf' = VerdictOf
      BY <2>1 DEF Users, VerdictOf
    <3>5. PICK run \in RunIds : run = procs[p].run
      BY Here DEF Process
    <3>6. Users[run] = p /\ VerdictOf[run] = "PASS"
      BY <2>1, <3>3, <3>5 DEF Users, VerdictOf, Claim, Verdicts
    <3>7. Registry!Succeed(p)
      BY <2>1, <3>2, <3>4, <3>6 DEF Registry!Succeed, Users, VerdictOf, Succeeded
    <3> QED BY <3>7 DEF Registry!Next
  <2> QED BY <2>3, <2>4
<1> QED BY <1>1, <1>2, <1>3, <1>4, <1>5 DEF Leave

\* What is done to a process from outside shows in the lock at most.
LEMMA OutsideRefines ==
  ASSUME IInv, NEW p \in Processes, ServoEnds(p) \/ Interrupt(p) \/ Killed(p)
  PROVE  [Registry!Next]_Registry!registryVars
<1>0. Typed /\ ProcessOK(p) /\ p # Nobody BY Here
<1>1. CASE ServoEnds(p)
  BY <1>1, QuietRefines DEF ServoEnds, LockStep, Succeeded
<1>2. CASE Interrupt(p)
  <2>1. procs[p].pc \notin Ended /\ LockStep(p) /\ UNCHANGED claims
    BY <1>0, <1>2
    DEF Interrupt, At, LockStep, ProcessOK, Ended, Holding, InLease, Following
  <2>2. CASE Ends(p, 130)
    BY <2>1, <2>2, FailureIsNoSuccess, QuietRefines
  <2>3. CASE Becomes(p, [procs[p] EXCEPT !.pc = "report", !.exc = "interrupt"])
    BY <2>1, <2>3, NoSuccess, QuietRefines DEF PCs, Exceptions
  <2>4. CASE Raises(p, "interrupt")
    BY <2>1, <2>4, NoSuccess, QuietRefines DEF Exceptions
  <2> QED BY <1>2, <2>2, <2>3, <2>4 DEF Interrupt
<1>3. CASE Killed(p)
  <2>1. Succeeded' = Succeeded
    BY <1>3, NoSuccess DEF Killed, PCs, Ended
  <2> QED BY <1>3, <2>1, QuietRefines DEF Killed, LockStep
<1> QED BY <1>1, <1>2, <1>3

\* The lease implements the registry of runs: an id is used once and for ever, by
\* one process that judges it while it holds the lock, and success is reported only
\* of a run that stands judged PASS.
THEOREM Promise == Spec => ImplementsRegistry
<1>1. Init => Registry!Init
  <2> SUFFICES ASSUME Init PROVE Registry!Init OBVIOUS
  <2>1. \A r \in RunIds : claims[r].by = Nobody /\ claims[r].state \notin Verdicts
    BY DEF Init, NoClaim, Verdicts
  <2>2. \A p \in Processes : procs[p].code # 0
    <3>1. \A p \in Processes : \E r \in RunIds : procs[p] = NewProcess(r)
      BY DEF Init
    <3>2. \A r \in RunIds : NewProcess(r).code # 0
      BY DEF NewProcess
    <3> QED BY <3>1, <3>2
  <2> QED BY <2>1, <2>2 DEF Init, Registry!Init
<1>2. IInv /\ [Next]_leaseVars => [Registry!Next]_Registry!registryVars
  <2> SUFFICES ASSUME IInv, [Next]_leaseVars
               PROVE  [Registry!Next]_Registry!registryVars
    OBVIOUS
  <2>1. CASE UNCHANGED leaseVars
    BY <2>1 DEF leaseVars, Registry!registryVars
  <2>2. CASE Next
    BY <2>2, AcquireRefines, WorkRefines, LeaveRefines, OutsideRefines DEF Next
  <2> QED BY <2>1, <2>2
<1> QED BY <1>1, <1>2, Invariant, PTL DEF Spec, ImplementsRegistry, Registry!Spec
=============================================================================
