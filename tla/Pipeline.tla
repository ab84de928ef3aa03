------------------------------ MODULE Pipeline ------------------------------
(***************************************************************************)
(* What `CriblAdmin.apply` promises its callers, one step per leader call  *)
(* that moves the fork routes: the read of the version to fall back on,    *)
(* the PATCH of the route table, the commit, the deploy, the wait, and the *)
(* rollback.  A configuration is the set of fork routes it holds.  Outputs,*)
(* polling and the routes the portal does not own are in CriblAdmin, which *)
(* implements this module.                                                 *)
(*                                                                         *)
(* The portal takes no lock around `apply`: several callers may be inside  *)
(* it at once and they share one leader.                                   *)
(***************************************************************************)

CONSTANTS
    Callers,      \* the threads that may call apply
    Routes,       \* every fork route that can be asked for
    WorkersLag    \* TRUE: workers fetch a deployed version some time later

VARIABLES
    table,        \* fork routes in the leader's (uncommitted) route table
    deployed,     \* fork routes of the group's configVersion
    running,      \* fork routes of the group's deployedVersion (the workers)
    jobs          \* one record per caller: its call of apply

leaderVars == <<table, deployed, running>>
pipeVars == <<table, deployed, running, jobs>>

Configs == SUBSET Routes

JobPc == {"idle", "begun", "patched", "committed", "deployed", "rolling",
          "ok", "failed"}

\* prev holds at most one configuration: {} is Python's None.
Job == [pc: JobPc, want: Configs, prev: SUBSET Configs, commit: Configs]

IdleJob == [pc |-> "idle", want |-> {}, prev |-> {}, commit |-> {}]

PipeTypeOK ==
    /\ table \in Configs
    /\ deployed \in Configs
    /\ running \in Configs
    /\ jobs \in [Callers -> Job]

PipeInit ==
    /\ table = {}
    /\ deployed = {}
    /\ running = {}
    /\ jobs = [c \in Callers |-> IdleJob]

At(c, pc) == jobs[c].pc = pc

\* Deploying v moves configVersion at once and the workers when they fetch it.
DeployVersion(v) ==
    /\ deployed' = v
    /\ running' = IF WorkersLag THEN running ELSE v

\* Login and the read of `previous`: an arbitrary one of the two version
\* fields, or None when the group could not be read (readFails).
Begin(c, w, readFails) ==
    /\ At(c, "idle")
    /\ \E p \in IF readFails THEN {{}} ELSE {{deployed}, {running}} :
         jobs' = [jobs EXCEPT ![c] = [pc |-> "begun", want |-> w,
                                      prev |-> p, commit |-> {}]]
    /\ UNCHANGED leaderVars

\* The login fails before anything is tried: no rollback.
Refuse(c, w) ==
    /\ At(c, "idle")
    /\ jobs' = [jobs EXCEPT ![c] = [pc |-> "failed", want |-> w,
                                    prev |-> {}, commit |-> {}]]
    /\ UNCHANGED leaderVars

\* Mutant: the routes are added to the table instead of replacing it.
PatchAdds(c) ==
    /\ At(c, "begun")
    /\ table' = table \cup jobs[c].want
    /\ jobs' = [jobs EXCEPT ![c].pc = "patched"]
    /\ UNCHANGED <<deployed, running>>

\* The route table is replaced as a whole by the caller's routes.
Patch(c) ==
    /\ At(c, "begun")
    /\ table' = jobs[c].want
    /\ jobs' = [jobs EXCEPT ![c].pc = "patched"]
    /\ UNCHANGED <<deployed, running>>

\* The commit takes the table as it is now, whoever patched it last.
Commit(c) ==
    /\ At(c, "patched")
    /\ jobs' = [jobs EXCEPT ![c].pc = "committed", ![c].commit = table]
    /\ UNCHANGED leaderVars

Deploy(c) ==
    /\ At(c, "committed")
    /\ DeployVersion(jobs[c].commit)
    /\ jobs' = [jobs EXCEPT ![c].pc = "deployed"]
    /\ UNCHANGED table

\* The group shows this caller's commit in one of its two version fields.
Converged(c) == jobs[c].commit \in {deployed, running}

Succeed(c) ==
    /\ At(c, "deployed")
    /\ Converged(c)
    /\ jobs' = [jobs EXCEPT ![c].pc = "ok"]
    /\ UNCHANGED leaderVars

\* A call is refused, times out or never converges: on to the rollback.
Fail(c) ==
    /\ jobs[c].pc \in {"begun", "patched", "committed", "deployed"}
    /\ jobs' = [jobs EXCEPT ![c].pc = "rolling"]
    /\ UNCHANGED leaderVars

\* Redeploys `previous`; with None, or when the redeploy itself fails (its
\* exception is swallowed), the leader keeps what it has.
Rollback(c, redeployFails) ==
    /\ At(c, "rolling")
    /\ IF redeployFails \/ jobs[c].prev = {}
       THEN UNCHANGED <<deployed, running>>
       ELSE \E v \in jobs[c].prev : DeployVersion(v)
    /\ jobs' = [jobs EXCEPT ![c].pc = "failed"]
    /\ UNCHANGED table

\* apply returns (or raises) to its caller.
Return(c) ==
    /\ jobs[c].pc \in {"ok", "failed"}
    /\ jobs' = [jobs EXCEPT ![c] = IdleJob]
    /\ UNCHANGED leaderVars

\* The portal process dies with calls in flight; the leader keeps its state.
AbortAll ==
    /\ jobs' = [c \in Callers |-> IdleJob]
    /\ UNCHANGED leaderVars

\* A worker's heartbeat fetches the deployed version.
Fetch ==
    /\ running # deployed
    /\ running' = deployed
    /\ UNCHANGED <<table, deployed, jobs>>

PipeNext ==
    \/ \E c \in Callers :
         \/ /\ At(c, "idle")
            /\ \E w \in Configs : Refuse(c, w) \/ \E f \in BOOLEAN : Begin(c, w, f)
         \/ Patch(c) \/ Commit(c) \/ Deploy(c) \/ Succeed(c) \/ Fail(c)
         \/ \E f \in BOOLEAN : Rollback(c, f)
         \/ Return(c)
    \/ AbortAll
    \/ Fetch

PipeSpec == PipeInit /\ [][PipeNext]_pipeVars
=============================================================================
