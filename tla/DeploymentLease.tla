-------------------------- MODULE DeploymentLease --------------------------
(* sim2real/deployment/lease.py under execute_deployment and main of runner.py:
   processes that contend for the hardware lock, claim a run id, take a run
   through its phases, record its verdict and exit.  What survives a process is on
   disk: claims and audits.  A rewrite of a claim goes through a temporary file
   and a rename, so it happens or not, but it may raise either way.            *)
EXTENDS Integers

CONSTANTS Processes, RunIds, Nobody

ASSUME NobodyAssumption == Nobody \notin Processes

VARIABLES lock,      \* the process holding the flock
          claims,    \* by run id: the claim file, who created it and its state
          audits,    \* by run id: the audit file, who wrote it and its result
          arm,       \* by process: whether it drives the robot, itself or by a servo
          procs      \* by process: where it is, its run, the exception it carries,
                     \* whether its lease is finalized, its exit code

leaseVars == <<lock, claims, audits, arm, procs>>

(* A process --------------------------------------------------------------- *)

\* Where a process goes from one phase to the next, and the phase it marks.
Following == [held |-> "prewarm", prewarm |-> "reset",
              homed |-> "preflight", preflight |-> "policy"]

InLease == DOMAIN Following
           \cup {"reset", "resetting", "policy", "running", "stopping", "finalize",
                 "closing", "exit", "release"}
Holding == InLease \cup {"claim", "write", "acquired"}
Ended == {"ended", "killed"}
PCs == Holding \cup Ended \cup {"off", "lock", "report"}

Verdicts == {"PASS", "FAILED", "INTERRUPTED"}
Exceptions == {"none", "error", "interrupt"}
Codes == {-1, 0, 1, 2, 130}       \* -1: still running, or killed

NewProcess(r) == [pc |-> "off", run |-> r, exc |-> "none", final |-> FALSE,
                  code |-> -1]

At(p, where) == procs[p].pc = where
Becomes(p, s) == procs' = [procs EXCEPT ![p] = s]
Goes(p, where) == Becomes(p, [procs[p] EXCEPT !.pc = where])
Ends(p, code) == Becomes(p, [procs[p] EXCEPT !.pc = "ended", !.code = code])

\* An exception leaves the body of the lease, by way of the camera and the
\* perception service once there are any.
Raises(p, e) ==
    Becomes(p, [procs[p] EXCEPT !.exc = e,
                                !.pc = IF @ = "held" THEN "exit" ELSE "closing"])

NoClaim == [by |-> Nobody, state |-> "absent"]
NoAudit == [by |-> Nobody, result |-> "none"]

Claim(p) == claims[procs[p].run]
SetClaim(p, state) == claims' = [claims EXCEPT ![procs[p].run] =
                                     [by |-> p, state |-> state]]

\* _replace_claim raised: before the rename, or behind it.
MayHaveSet(p, state) == UNCHANGED claims \/ SetClaim(p, state)

(* Acquisition ------------------------------------------------------------- *)

\* Artifact preparation: the audit of the run must not exist yet.
Admit(p) ==
    /\ At(p, "off")
    /\ IF audits[procs[p].run] = NoAudit
       THEN Goes(p, "lock") \/ \E code \in {1, 2} : Ends(p, code)
       ELSE Ends(p, 1)
    /\ UNCHANGED <<lock, claims, audits, arm>>

TakeLock(p) ==
    /\ At(p, "lock")
    /\ \/ /\ lock = Nobody
          /\ lock' = p
          /\ Goes(p, "claim")
       \/ /\ lock # Nobody
          /\ Ends(p, 2)
          /\ UNCHANGED lock
    /\ UNCHANGED <<claims, audits, arm>>

\* Mutant: only an error behind the claim gives the lock back.
RefusedHolding(p) == Ends(p, 2) /\ lock' = IF At(p, "write") THEN Nobody ELSE lock

\* acquire_v94_deployment_lease raises: the lock is given back.
Refused(p) == lock' = Nobody /\ Ends(p, 2)

\* Mutant: a claim that never got its content is taken over.
CreateClaimOver(p) ==
    /\ At(p, "claim")
    /\ \/ /\ Claim(p).state \in {"absent", "empty"}
          /\ SetClaim(p, "empty")
          /\ Goes(p, "write")
          /\ UNCHANGED lock
       \/ Refused(p) /\ UNCHANGED claims
    /\ UNCHANGED <<audits, arm>>

\* O_CREAT | O_EXCL: an existing claim, even an empty one, refuses the run.
CreateClaim(p) ==
    /\ At(p, "claim")
    /\ \/ /\ Claim(p) = NoClaim
          /\ SetClaim(p, "empty")
          /\ Goes(p, "write")
          /\ UNCHANGED lock
       \/ Refused(p) /\ UNCHANGED claims
    /\ UNCHANGED <<audits, arm>>

WriteClaim(p) ==
    /\ At(p, "write")
    /\ \/ SetClaim(p, "CLAIMED") /\ Goes(p, "acquired") /\ UNCHANGED lock
       \/ MayHaveSet(p, "CLAIMED") /\ Refused(p)
    /\ UNCHANGED <<audits, arm>>

Enter(p) ==
    /\ At(p, "acquired")
    /\ Goes(p, "held")
    /\ UNCHANGED <<lock, claims, audits, arm>>

(* The phases -------------------------------------------------------------- *)

\* The work of a phase is done; mark_phase records the next one.
MarkPhase(p) ==
    /\ procs[p].pc \in DOMAIN Following
    /\ \/ SetClaim(p, "ACTIVE") /\ Goes(p, Following[procs[p].pc])
       \/ MayHaveSet(p, "ACTIVE") /\ Raises(p, "error")
    /\ UNCHANGED <<lock, audits, arm>>

\* run_v94_execution_reset drives hand and arm from this process.
Reset(p) ==
    /\ At(p, "reset")
    /\ arm' = [arm EXCEPT ![p] = "own"]
    /\ Goes(p, "resetting")
    /\ UNCHANGED <<lock, claims, audits>>

\* The reset runs in this process alone: once it is left, in whatever way, the
\* robot is not driven from here.
LetGo(p) == arm' = [arm EXCEPT ![p] = IF @ = "own" THEN "free" ELSE @]

ResetReturns(p) ==
    /\ At(p, "resetting")
    /\ LetGo(p)
    /\ Goes(p, "homed")
    /\ UNCHANGED <<lock, claims, audits>>

\* Prewarm, reset, preflight or the setting up of the policy run raises.
PhaseFails(p) ==
    /\ procs[p].pc \in {"prewarm", "resetting", "preflight", "policy"}
    /\ Raises(p, "error")
    /\ LetGo(p)
    /\ UNCHANGED <<lock, claims, audits>>

\* run_supervised_v94 prepares once more and starts the servo child.
RunPolicy(p) ==
    /\ At(p, "policy")
    /\ audits[procs[p].run] = NoAudit
    /\ arm' = [arm EXCEPT ![p] = "servo"]
    /\ Goes(p, "running")
    /\ UNCHANGED <<lock, claims, audits>>

\* The child ends, stopped by its parent or of itself.
ServoEnds(p) ==
    /\ arm[p] = "servo"
    /\ arm' = [arm EXCEPT ![p] = "free"]
    /\ UNCHANGED <<lock, claims, audits, procs>>

\* runtime.run returns or raises; the verified stop begins.
PolicyEnds(p) ==
    /\ At(p, "running")
    /\ \E failure \in Exceptions :
          Becomes(p, [procs[p] EXCEPT !.pc = "stopping", !.exc = failure])
    /\ UNCHANGED <<lock, claims, audits, arm>>

\* Mutant: the audit and the result look at the run only, not at the stop.
WriteAuditUnstopped(p) ==
    /\ At(p, "stopping")
    /\ LET good == procs[p].exc = "none"
       IN /\ audits' = [audits EXCEPT ![procs[p].run] =
                            [by |-> p, result |-> IF good THEN "PASS" ELSE "FAIL"]]
          /\ IF good THEN Goes(p, "finalize") ELSE Raises(p, procs[p].exc)
    /\ UNCHANGED <<lock, claims, arm>>

\* The stop is proven only of an arm that is free, and not always then: the join
\* may time out.  The audit is written either way; the result follows it.
WriteAudit(p) ==
    /\ At(p, "stopping")
    /\ \/ \E stopped \in BOOLEAN :
             LET exc == procs[p].exc
                 good == exc = "none" /\ stopped
             IN /\ stopped => arm[p] = "free"
                /\ audits' = [audits EXCEPT ![procs[p].run] =
                       [by |-> p, result |-> IF good THEN "PASS" ELSE "FAIL"]]
                /\ IF good THEN Goes(p, "finalize")
                   ELSE Raises(p, IF exc = "none" THEN "error" ELSE exc)
       \/ UNCHANGED audits /\ Raises(p, "error")
    /\ UNCHANGED <<lock, claims, arm>>

(* Leaving ----------------------------------------------------------------- *)

\* finalize(PASS): the lease counts as finalized only behind the whole rewrite.
FinalizePass(p) ==
    /\ At(p, "finalize")
    /\ \/ /\ SetClaim(p, "PASS")
          /\ Becomes(p, [procs[p] EXCEPT !.pc = "closing", !.final = TRUE])
       \/ MayHaveSet(p, "PASS") /\ Raises(p, "error")
    /\ UNCHANGED <<lock, audits, arm>>

\* camera_handoff.close and the perception service; an exception of theirs
\* replaces the one on its way.
Close(p) ==
    /\ At(p, "closing")
    /\ \/ Goes(p, "exit")
       \/ Becomes(p, [procs[p] EXCEPT !.pc = "exit", !.exc = "error"])
    /\ UNCHANGED <<lock, claims, audits, arm>>

\* __exit__: a lease that is not finalized gets the verdict of its exception, if
\* that can be written.
Exit(p) ==
    /\ At(p, "exit")
    /\ IF procs[p].final THEN UNCHANGED claims
       ELSE MayHaveSet(p, IF procs[p].exc = "interrupt" THEN "INTERRUPTED"
                                                        ELSE "FAILED")
    /\ Goes(p, "release")
    /\ UNCHANGED <<lock, audits, arm>>

Release(p) ==
    /\ At(p, "release")
    /\ lock' = Nobody
    /\ Goes(p, "report")
    /\ UNCHANGED <<claims, audits, arm>>

\* main turns the result into the exit code; printing it may fail.
Report(p) ==
    /\ At(p, "report")
    /\ \E code \in {2, CASE procs[p].exc = "none" -> 0
                         [] procs[p].exc = "interrupt" -> 130
                         [] OTHER -> 1} : Ends(p, code)
    /\ UNCHANGED <<lock, claims, audits, arm>>

\* KeyboardInterrupt, by where the process is.  Between acquisition and `with`
\* nobody closes the lease: the kernel does, and the claim stays as it is.
Interrupt(p) ==
    /\ \/ /\ procs[p].pc \in {"off", "lock", "report"}
          /\ Ends(p, 130)
          /\ UNCHANGED <<lock, arm>>
       \/ /\ procs[p].pc \in {"claim", "write", "acquired"}
          /\ Ends(p, 130)
          /\ lock' = Nobody
          /\ UNCHANGED arm
       \/ /\ At(p, "release")
          /\ Becomes(p, [procs[p] EXCEPT !.pc = "report", !.exc = "interrupt"])
          /\ lock' = Nobody
          /\ UNCHANGED arm
       \/ /\ procs[p].pc \in InLease \ {"running", "exit", "release"}
          /\ Raises(p, "interrupt")
          /\ LetGo(p)
          /\ UNCHANGED lock
    /\ UNCHANGED <<claims, audits>>

\* SIGKILL: the kernel frees the lock, and tells a servo child, which goes on until
\* it has stopped.
Killed(p) ==
    /\ procs[p].pc \notin Ended
    /\ Goes(p, "killed")
    /\ lock' = IF lock = p THEN Nobody ELSE lock
    /\ LetGo(p)
    /\ UNCHANGED <<claims, audits>>

(* Specification ----------------------------------------------------------- *)

Init ==
    /\ lock = Nobody
    /\ claims = [r \in RunIds |-> NoClaim]
    /\ audits = [r \in RunIds |-> NoAudit]
    /\ arm = [p \in Processes |-> "free"]
    /\ procs \in [Processes -> {NewProcess(r) : r \in RunIds}]

Acquire(p) == Admit(p) \/ TakeLock(p) \/ CreateClaim(p) \/ WriteClaim(p) \/ Enter(p)
Work(p) == MarkPhase(p) \/ Reset(p) \/ ResetReturns(p) \/ PhaseFails(p)
           \/ RunPolicy(p) \/ PolicyEnds(p) \/ WriteAudit(p)
Leave(p) == FinalizePass(p) \/ Close(p) \/ Exit(p) \/ Release(p) \/ Report(p)

Next == \E p \in Processes :
            Acquire(p) \/ Work(p) \/ Leave(p)
            \/ ServoEnds(p) \/ Interrupt(p) \/ Killed(p)

Spec == Init /\ [][Next]_leaseVars

(* Properties -------------------------------------------------------------- *)

\* The types, and the lock: a process holds it (flock) exactly from the place where
\* it has taken it to the place where it gives it back, on every way out.
LeaseTypeOK ==
    /\ lock \in Processes \cup {Nobody}
    /\ claims \in [RunIds -> [by : Processes \cup {Nobody},
                    state : {"absent", "empty", "CLAIMED", "ACTIVE"} \cup Verdicts]]
    /\ audits \in [RunIds -> [by : Processes \cup {Nobody},
                              result : {"none", "PASS", "FAIL"}]]
    /\ arm \in [Processes -> {"free", "own", "servo"}]
    /\ procs \in [Processes -> [pc : PCs, run : RunIds, exc : Exceptions,
                                final : BOOLEAN, code : Codes]]
    /\ \A p \in Processes : lock = p <=> procs[p].pc \in Holding

\* A success has its evidence, on disk and at the robot: a claim that says PASS has
\* a passing audit of the same process, whose servo is gone; and exit code 0 (main)
\* is that of a process whose own claim says PASS.
SuccessIsEarned ==
    /\ \A r \in RunIds : claims[r].state = "PASS" =>
           /\ audits[r] = [by |-> claims[r].by, result |-> "PASS"]
           /\ arm[claims[r].by] = "free"
    /\ \A p \in Processes : procs[p].code = 0 =>
           Claim(p) = [by |-> p, state |-> "PASS"]

\* The lease keeps the promise of RunRegistry ("permanent tombstones so a run id
\* cannot be silently reused", lease.py).
Registry == INSTANCE RunRegistry WITH
    holder <- lock,
    user <- [r \in RunIds |-> claims[r].by],
    verdict <- [r \in RunIds |-> IF claims[r].state \in Verdicts
                                 THEN claims[r].state ELSE "open"],
    succeeded <- {p \in Processes : procs[p].code = 0}

ImplementsRegistry == Registry!Spec
=============================================================================
