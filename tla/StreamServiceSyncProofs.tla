---------------------- MODULE StreamServiceSyncProofs ----------------------
(***************************************************************************)
(* The promise of main.py that "any later mutation re-syncs", for every    *)
(* value of the constants of StreamService: a reapply that no other        *)
(* request overlaps and that succeeds leaves the leader with the fork set  *)
(* the database asks for.                                                  *)
(*                                                                         *)
(*   SoloApplySyncsHolds   from SyncInv                                    *)
(*                                                                         *)
(* While a request is solo no other can take a step, and its own reapply   *)
(* writes neither streams nor rows; so what it has collected, handed to    *)
(* apply, patched, committed and deployed stays the fork set of the        *)
(* database, whatever was on the leader when it began.  A request that is  *)
(* taken up in the meantime ends the claim.                                *)
(***************************************************************************)
EXTENDS StreamServiceProofs

\* A call of apply is under way for a request that is inside apply only.
Coupled == \A t \in Threads : jobs[t].pc # "idle" => At(t, "applying")

\* A solo request is the only one there is.
Alone == \A t \in Threads : req[t].solo =>
            ~At(t, "idle") /\ \A o \in Threads \ {t} : At(o, "idle")

\* What a solo reapply has brought towards the leader.
Sync(t) ==
    /\ At(t, "collect") =>
         Desired = req[t].want \cup UNION {ActiveRoutes(s) : s \in req[t].live}
    /\ At(t, "apply") => req[t].want = Desired
    /\ At(t, "applying") =>
         /\ jobs[t].pc = "begun" => jobs[t].want = Desired
         /\ jobs[t].pc = "patched" => table = Desired
         /\ jobs[t].pc = "committed" => jobs[t].commit = Desired
         /\ jobs[t].pc \in {"deployed", "ok"} => deployed = Desired

Synced == \A t \in Threads : req[t].solo => Sync(t)
SyncInv == Coupled /\ Alone /\ Synced

LEMMA DesiredKept == ASSUME UNCHANGED <<streams, members>> PROVE Desired' = Desired
<1>1. LiveStreams' = LiveStreams
  BY DEF LiveStreams
<1>2. ASSUME NEW s \in StreamId PROVE ActiveRoutes(s)' = ActiveRoutes(s)
  BY DEF ActiveRoutes
<1>3. \A s \in LiveStreams : s \in StreamId
  BY DEF LiveStreams
<1> QED BY <1>1, <1>2, <1>3 DEF Desired

LEMMA SyncKept ==
    ASSUME UNCHANGED <<streams, members, table, deployed, req, jobs>>,
           NEW t \in Threads, Sync(t)
    PROVE Sync(t)'
<1>1. Desired' = Desired
  BY DesiredKept
<1>2. ASSUME NEW s PROVE ActiveRoutes(s)' = ActiveRoutes(s)
  BY DEF ActiveRoutes
<1>3. UNION {ActiveRoutes(s)' : s \in req[t].live} =
         UNION {ActiveRoutes(s) : s \in req[t].live}
  BY <1>2
<1> QED BY <1>1, <1>3 DEF Sync, At

-----------------------------------------------------------------------------
(* Whose request moves. *)

\* A request other than t's takes no step while t is solo.
LEMMA SoloSteps ==
    ASSUME Alone, NEW t \in Threads, req[t].solo, NEW o \in Threads,
           Step(o) \/ Fault(o)
    PROVE o = t
<1>1. ~At(o, "idle")
  BY DEF Step, Fault, Insert, Provision, ProvisionInUse, FlagError,
     GoLive, Mint, PutPolicy, Record, InsertMember, Remove, MarkDeleted, Relive,
     Reread, ApproveLookup, ReadLive, Collect, ApplyBegin, ApplyStep,
     ApplyDisturbed, ApplyReturns, FlagApply, DelPolicy, DelRole, NoteRole,
     DelResource, NoteResource, ProvisionFails, MintFails,
     ApplyBeginFails, ApplyFails, DelRoleFails, DelResourceFails, At
<1> QED BY <1>1 DEF Alone

\* The steps that concern Sync.
InReapply(t) ==
    \/ ReadLive(t) \/ Collect(t) \/ ApplyBegin(t) \/ ApplyBeginFails(t)
    \/ ApplyStep(t) \/ ApplyDisturbed(t) \/ ApplyFails(t)

\* The request of t is over, or goes on outside of Sync's claims.
Leaves(t) ==
    \/ req'[t] = Idle
    \/ /\ req'[t].pc \notin {"idle", "collect", "apply", "applying"}
       /\ req'[t].solo => req[t].solo

\* A step of the reapply: it leaves, or brings the leader closer.
Follows(t) ==
    \/ Leaves(t)
    \/ /\ ~At(t, "idle")' /\ req'[t].solo = req[t].solo
       /\ Sync(t) => Sync(t)'

LEMMA GotoLeaves ==
    ASSUME TypeInv, NEW t \in Threads,
           \/ Finish(t)
           \/ \E pc \in Pc \ {"idle", "collect", "apply", "applying"} :
                Goto(t, pc) \/ FaultTo(t, pc)
    PROVE Leaves(t)
  BY DEF Leaves, Goto, FaultTo, Finish, TypeInv, TypeOK, Request

LEMMA StepLeaves ==
    ASSUME TypeInv, NEW t \in Threads, Step(t) \/ Fault(t), ~InReapply(t)
    PROVE Leaves(t)
<1> DEFINE On == \/ Finish(t)
                 \/ \E pc \in Pc \ {"idle", "collect", "apply", "applying"} :
                      Goto(t, pc) \/ FaultTo(t, pc)
<1>0. ASSUME On PROVE Leaves(t)
  BY <1>0, GotoLeaves
<1> HIDE DEF On
<1>1. CASE Insert(t)
  <2>1. ASSUME NEW s \in StreamId,
               req' = [req EXCEPT ![t].pc = "provision", ![t].sid = s]
        PROVE Leaves(t)
    BY <2>1 DEF Leaves, TypeInv, TypeOK, Request
  <2>2. ASSUME Finish(t) PROVE Leaves(t)
    BY <2>2, GotoLeaves
  <2> QED BY <1>1, <2>1, <2>2 DEF Insert
<1>2. CASE InsertMember(t)
  <2>1. ASSUME NEW p \in req[t].todo,
               req' = [req EXCEPT ![t].todo = @ \ {p},
                  ![t].pc = IF req[t].todo = {p} THEN "reapply" ELSE "members"]
        PROVE Leaves(t)
    BY <2>1 DEF Leaves, TypeInv, TypeOK, Request
  <2>2. ASSUME Finish(t) PROVE Leaves(t)
    BY <2>2, GotoLeaves
  <2> QED BY <1>2, <2>1, <2>2 DEF InsertMember
<1>3. CASE ApproveLookup(t)
  <2>1. ASSUME NEW m \in members,
               req' = [req EXCEPT ![t].pc = "reapply", ![t].sid = m.sid]
        PROVE Leaves(t)
    BY <2>1 DEF Leaves, TypeInv, TypeOK, Request
  <2>2. ASSUME Finish(t) PROVE Leaves(t)
    BY <2>2, GotoLeaves
  <2> QED BY <1>3, <2>1, <2>2 DEF ApproveLookup
<1>4. CASE \/ Provision(t) \/ ProvisionInUse(t) \/ FlagError(t) \/ GoLive(t)
           \/ Mint(t) \/ PutPolicy(t) \/ Record(t) \/ Fault(t)
  <2>1. On
    BY <1>4 DEF On, Provision, ProvisionInUse, FlagError, GoLive, Mint, PutPolicy,
       Record, Fault, ProvisionFails, MintFails, DelRoleFails,
       DelResourceFails, Pc, InReapply
  <2> QED BY <1>0, <2>1
<1>5. CASE \/ Remove(t) \/ MarkDeleted(t) \/ Relive(t) \/ Reread(t)
           \/ FlagApply(t) \/ DelPolicy(t)
  <2>1. \/ Finish(t) \/ Goto(t, "reapply") \/ Goto(t, "reread")
        \/ Goto(t, "mint") \/ Goto(t, "delrole")
    BY <1>5 DEF Remove, MarkDeleted, Relive, Reread, FlagApply, DelPolicy
  <2>2. On
    BY <2>1 DEF On, Pc
  <2> QED BY <1>0, <2>2
<1>7. CASE DelRole(t) \/ NoteRole(t)
  <2>1. Goto(t, "noterole") \/ \E noted \in BOOLEAN : AfterRole(t, noted)
    BY <1>7 DEF DelRole, NoteRole
  <2>2. ASSUME NEW noted, AfterRole(t, noted) PROVE Leaves(t)
    <3>1. CASE req' = [req EXCEPT ![t].pc = "delresource", ![t].noted = noted]
      BY <3>1 DEF Leaves, TypeInv, TypeOK, Request
    <3>2. CASE Finish(t)
      BY <3>2, GotoLeaves
    <3> QED BY <2>2, <3>1, <3>2 DEF AfterRole
  <2>3. CASE Goto(t, "noterole")
    BY <2>3, GotoLeaves DEF Pc
  <2> QED BY <2>1, <2>2, <2>3
<1>6. CASE DelResource(t) \/ NoteResource(t) \/ ApplyReturns(t)
  <2>1. \/ Finish(t) \/ Goto(t, "noteresource") \/ Goto(t, "delpolicy")
        \/ Goto(t, "flagapply")
    BY <1>6 DEF DelResource, NoteResource, ApplyReturns
  <2>2. On
    BY <2>1 DEF On, Pc
  <2> QED BY <1>0, <2>2
<1> QED BY <1>1, <1>2, <1>3, <1>4, <1>5, <1>6, <1>7 DEF Step, InReapply

\* A request that is taken up is not solo, and no other is any more.
LEMMA StartUnsolo ==
    ASSUME TypeInv, NEW t \in Threads, Start(t), NEW o \in Threads
    PROVE ~req'[o].solo
<1>1. ASSUME NEW op, NEW r, Accept(t, op, r), ~r.solo PROVE ~req'[o].solo
  BY <1>1, GoodIsRequest DEF Accept, Request
<1>2. ASSUME NEW u \in Users, NEW n \in Names, NEW ty \in Types, NEW l \in FqnLists,
             NEW tree \in Cat!Answers, StartCreate(t, u, n, ty, l, tree)
      PROVE ~req'[o].solo
  <2> DEFINE r == [Idle EXCEPT !.pc = "insert", !.op = "create", !.user = u,
                               !.name = n, !.type = ty, !.todo = Resolve(l, tree)]
  <2>1. Accept(t, "create", r) /\ ~r.solo
    BY <1>2 DEF StartCreate, Idle
  <2> HIDE DEF r
  <2> QED BY <1>1, <2>1
<1>3. ASSUME NEW u \in Users, NEW s \in StreamId, NEW l \in FqnLists,
             NEW tree \in Cat!Answers, StartAdd(t, u, s, l, tree)
      PROVE ~req'[o].solo
  <2> DEFINE r == [Idle EXCEPT !.pc = "members", !.op = "add", !.user = u,
                               !.sid = s, !.todo = Fresh(s, l, tree)]
  <2>1. Accept(t, "add", r) /\ ~r.solo
    BY <1>3 DEF StartAdd, Idle
  <2> HIDE DEF r
  <2> QED BY <1>1, <2>1
<1>4. ASSUME NEW u \in Users, NEW s \in StreamId, NEW op, NEW pc,
             StartOn(t, op, pc, u, s)
      PROVE ~req'[o].solo
  <2> DEFINE r == [Idle EXCEPT !.pc = pc, !.op = op, !.user = u, !.sid = s,
                               !.ref = streams[s].ref]
  <2>1. Accept(t, op, r) /\ ~r.solo
    BY <1>4 DEF StartOn, Idle
  <2> HIDE DEF r
  <2> QED BY <1>1, <2>1
<1>5. ASSUME NEW u \in Users, NEW m \in members, StartApprove(t, u, m) \/ Reject(t, u, m)
      PROVE ~req'[o].solo
  <2> DEFINE r == [Idle EXCEPT !.pc = "approved", !.op = "approve", !.user = u,
                               !.row = m.id]
  <2>1. /\ Accept(t, "approve", r) \/ Accept(t, "approve", Idle)
        /\ ~r.solo /\ ~Idle.solo
    BY <1>5 DEF StartApprove, Reject, Idle
  <2> HIDE DEF r
  <2> QED BY <1>1, <2>1
<1>6. ASSUME NEW u \in Users, NEW s \in StreamId,
             StartRemove(t, u, s) \/ StartDelete(t, u, s) \/ StartRetry(t, u, s)
      PROVE ~req'[o].solo
  BY <1>4, <1>6 DEF StartRemove, StartDelete, StartRetry
<1> QED BY <1>2, <1>3, <1>5, <1>6 DEF Start

-----------------------------------------------------------------------------
(* The call of apply belongs to the request that is in it. *)

LEMMA CoupledKept ==
    ASSUME Coupled, UNCHANGED jobs,
           \A t \in Threads : At(t, "applying") => At(t, "applying")'
    PROVE Coupled'
  BY DEF Coupled, At

LEMMA NextCoupled == ASSUME TypeInv, Coupled, [Next]_vars PROVE Coupled'
<1>1. ASSUME NEW t \in Threads, Start(t) PROVE Coupled'
  <2>1. PICK op, q : Accept(t, op, q)
    BY <1>1, StartLeaves
  <2>2. UNCHANGED jobs
    BY <1>1, StartLeaves DEF pipeVars
  <2>3. ASSUME NEW o \in Threads, At(o, "applying") PROVE At(o, "applying")'
    BY <2>1, <2>3, GoodIsRequest DEF Accept, At, Request
  <2> QED BY <2>2, <2>3, CoupledKept
<1>2. ASSUME NEW t \in Threads, Step(t) \/ Fault(t) PROVE Coupled'
  <2>0. \A o \in Threads \ {t} : req'[o] = req[o]
    BY <1>2, OwnStep
  <2>1. CASE ApplyBegin(t) \/ ApplyBeginFails(t)
    <3>1. /\ req' = [req EXCEPT ![t].pc = "applying"]
          /\ \E f \in BOOLEAN : \/ Pipe!Begin(t, req[t].want, f)
                                \/ Pipe!Refuse(t, req[t].want)
      BY <2>1 DEF ApplyBegin, ApplyBeginFails, Goto, FaultTo
    <3>2. /\ req'[t].pc = "applying"
          /\ \A o \in Threads \ {t} : jobs'[o] = jobs[o]
      BY <3>1 DEF Pipe!Begin, Pipe!Refuse, TypeInv, TypeOK, Request, Pipe!PipeTypeOK
    <3> QED BY <2>0, <3>2 DEF Coupled, At
  <2>2. CASE ApplyStep(t) \/ ApplyDisturbed(t) \/ ApplyFails(t)
    <3>1. ApplyMove(t) /\ At(t, "applying") /\ At(t, "applying")'
      BY <2>2 DEF ApplyMove, ApplyStep, ApplyDisturbed, ApplyFails, FaultTo, Goto,
         At, TypeInv, TypeOK, Request
    <3>2. \A o \in Threads \ {t} : jobs'[o] = jobs[o]
      BY <3>1 DEF ApplyMove, Pipe!Patch, Pipe!Commit, Pipe!Deploy, Pipe!Succeed,
         Pipe!Fail, Pipe!Rollback, TypeInv, TypeOK, Pipe!PipeTypeOK
    <3> QED BY <2>0, <3>1, <3>2 DEF Coupled, At
  <2>3. CASE ApplyReturns(t)
    <3>1. jobs'[t].pc = "idle" /\ \A o \in Threads \ {t} : jobs'[o] = jobs[o]
      BY <2>3 DEF ApplyReturns, Pipe!Return, Pipe!IdleJob, TypeInv, TypeOK,
         Pipe!PipeTypeOK
    <3> QED BY <2>0, <3>1 DEF Coupled, At
  <2>4. CASE UNCHANGED pipeVars /\ ~At(t, "applying")
    BY <2>0, <2>4, CoupledKept DEF At, pipeVars
  <2> QED BY <1>2, <2>1, <2>2, <2>3, <2>4 DEF Step, Fault, Insert, Provision,
     ProvisionInUse, FlagError, GoLive, Mint, PutPolicy, Record, InsertMember,
     Remove, MarkDeleted, Relive, Reread, ApproveLookup, ReadLive, Collect,
     FlagApply, DelPolicy, DelRole, NoteRole, DelResource, NoteResource,
     ProvisionFails, MintFails, DelRoleFails, DelResourceFails, At
<1>3. ASSUME NEW t \in Threads, Startup(t) PROVE Coupled'
  BY <1>3, CoupledKept DEF Startup, At, pipeVars, TypeInv, TypeOK
<1>4. CASE Crash
  BY <1>4 DEF Crash, Pipe!AbortAll, Pipe!IdleJob, Coupled
<1>5. CASE UNCHANGED <<req, jobs>>
  BY <1>5 DEF Coupled, At
<1> QED BY <1>1, <1>2, <1>3, <1>4, <1>5
        DEF Next, Rest, WorkersFetch, Pipe!Fetch, Reclassify, vars, pipeVars

-----------------------------------------------------------------------------
(* The reapply of a solo request, step by step. *)

LEMMA ReadLiveSyncs ==
    ASSUME TypeInv, NEW t \in Threads, ReadLive(t)
    PROVE Sync(t)' /\ ~At(t, "idle")'
          /\ (req'[t].solo => \A o \in Threads \ {t} : At(o, "idle"))
<1> DEFINE pc == IF LiveStreams = {} THEN "apply" ELSE "collect"
           solo == \A o \in Threads \ {t} : At(o, "idle")
<1>0. req' = [req EXCEPT ![t].live = LiveStreams, ![t].want = {},
                         ![t].solo = solo, ![t].pc = pc]
  BY DEF ReadLive
<1> HIDE DEF solo, pc
<1>1. /\ req'[t].pc = pc /\ req'[t].live = LiveStreams /\ req'[t].want = {}
      /\ req'[t].solo = solo
  BY <1>0 DEF TypeInv, TypeOK, Request
<1>2. Desired' = Desired /\ LiveStreams' = LiveStreams
      /\ \A s : ActiveRoutes(s)' = ActiveRoutes(s)
  BY DesiredKept DEF ReadLive, dbVars, LiveStreams, ActiveRoutes
<1>3. LiveStreams = {} => Desired = {}
  BY DEF Desired
<1>4. UNION {ActiveRoutes(s)' : s \in LiveStreams} = Desired
  BY <1>2 DEF Desired
<1>5. Sync(t)'
  <2>1. Desired' = {} \cup UNION {ActiveRoutes(s)' : s \in LiveStreams}
    BY <1>2, <1>4
  <2>2. req'[t].pc # "applying" /\ (req'[t].pc = "apply" => Desired' = {})
    BY <1>1, <1>2, <1>3 DEF pc
  <2> QED BY <1>1, <2>1, <2>2 DEF Sync, At
<1> QED BY <1>1, <1>5 DEF At, pc, solo

LEMMA CollectSyncs ==
    ASSUME TypeInv, NEW t \in Threads, Collect(t)
    PROVE Follows(t)
<1>1. ASSUME AfterValueError(t) PROVE Leaves(t)
  <2>1. Finish(t) \/ Goto(t, "flagapply")
    BY <1>1 DEF AfterValueError
  <2> QED BY <2>1, GotoLeaves DEF Pc
<1>2. ASSUME NEW s \in req[t].live,
             req' = [req EXCEPT ![t].live = @ \ {s},
                            ![t].want = @ \cup ActiveRoutes(s),
                            ![t].pc = IF req[t].live = {s} THEN "apply"
                                      ELSE "collect"]
      PROVE Follows(t)
  <2> DEFINE pc == IF req[t].live = {s} THEN "apply" ELSE "collect"
  <2>1. /\ req'[t].pc = pc /\ req'[t].live = req[t].live \ {s}
        /\ req'[t].want = req[t].want \cup ActiveRoutes(s)
        /\ req'[t].solo = req[t].solo
    BY <1>2 DEF TypeInv, TypeOK, Request
  <2> SUFFICES ASSUME Sync(t) PROVE Sync(t)'
    BY <2>1 DEF Follows, At
  <2>2. Desired = req[t].want \cup UNION {ActiveRoutes(x) : x \in req[t].live}
    BY DEF Collect, At, Sync
  <2>3. Desired' = Desired /\ \A x : ActiveRoutes(x)' = ActiveRoutes(x)
    BY DesiredKept DEF Collect, dbVars, ActiveRoutes
  <2>4. UNION {ActiveRoutes(x) : x \in req[t].live} =
           ActiveRoutes(s) \cup UNION {ActiveRoutes(x) : x \in req[t].live \ {s}}
    OBVIOUS
  <2>5. UNION {ActiveRoutes(x)' : x \in req'[t].live} =
           UNION {ActiveRoutes(x) : x \in req[t].live \ {s}}
    BY <2>1, <2>3
  <2>6. Desired' = req'[t].want \cup UNION {ActiveRoutes(x)' : x \in req'[t].live}
    BY <2>1, <2>2, <2>3, <2>4, <2>5
  <2>7. req[t].live = {s} => UNION {ActiveRoutes(x) : x \in req[t].live \ {s}} = {}
    OBVIOUS
  <2>8. req[t].live = {s} => req'[t].want = Desired'
    BY <2>5, <2>6, <2>7
  <2> QED BY <2>1, <2>6, <2>8 DEF Sync, At
<1> QED BY <1>1, <1>2 DEF Collect, Follows

LEMMA BeginSyncs ==
    ASSUME TypeInv, NEW t \in Threads, ApplyBegin(t) \/ ApplyBeginFails(t)
    PROVE Follows(t)
<1>1. /\ req' = [req EXCEPT ![t].pc = "applying"]
      /\ \E f \in BOOLEAN : Pipe!Begin(t, req[t].want, f) \/ Pipe!Refuse(t, req[t].want)
      /\ UNCHANGED dbVars /\ At(t, "apply")
  BY DEF ApplyBegin, ApplyBeginFails, Goto, FaultTo
<1>2. req'[t].pc = "applying" /\ req'[t].solo = req[t].solo
  BY <1>1 DEF TypeInv, TypeOK, Request
<1> SUFFICES ASSUME Sync(t) PROVE Sync(t)'
  BY <1>2 DEF Follows, At
<1>5. req[t].want = Desired
  BY <1>1 DEF Sync
<1>3. jobs'[t].want = Desired /\ jobs'[t].pc \in {"begun", "failed"}
  BY <1>1, <1>5 DEF Pipe!Begin, Pipe!Refuse, TypeInv, TypeOK, Pipe!PipeTypeOK
<1>4. Desired' = Desired
  BY <1>1, DesiredKept DEF dbVars
<1> QED BY <1>2, <1>3, <1>4 DEF Sync, At

LEMMA MoveSyncs ==
    ASSUME TypeInv, NEW t \in Threads,
           ApplyStep(t) \/ ApplyDisturbed(t) \/ ApplyFails(t)
    PROVE Follows(t)
<1>1. /\ ApplyMove(t) /\ At(t, "applying") /\ UNCHANGED dbVars
      /\ req' = req \/ req' = [req EXCEPT ![t].pc = "applying"]
  BY DEF ApplyMove, ApplyStep, ApplyDisturbed, ApplyFails, FaultTo, Goto
<1>2. req'[t].pc = "applying" /\ req'[t].solo = req[t].solo
  BY <1>1 DEF At, TypeInv, TypeOK, Request
<1> SUFFICES ASSUME Sync(t) PROVE Sync(t)'
  BY <1>2 DEF Follows, At
<1>3. Desired' = Desired
  BY <1>1, DesiredKept DEF dbVars
<1>4. jobs[t] \in Pipe!Job /\ jobs \in [Threads -> Pipe!Job]
  BY DEF TypeInv, TypeOK, Pipe!PipeTypeOK
<1>5. /\ jobs[t].pc = "begun" => jobs[t].want = Desired
      /\ jobs[t].pc = "patched" => table = Desired
      /\ jobs[t].pc = "committed" => jobs[t].commit = Desired
      /\ jobs[t].pc \in {"deployed", "ok"} => deployed = Desired
  BY <1>1 DEF Sync, At
<1>6. /\ jobs'[t].pc = "begun" => jobs'[t].want = Desired
      /\ jobs'[t].pc = "patched" => table' = Desired
      /\ jobs'[t].pc = "committed" => jobs'[t].commit = Desired
      /\ jobs'[t].pc \in {"deployed", "ok"} => deployed' = Desired
  <2>1. CASE Pipe!Patch(t)
    BY <1>4, <1>5, <2>1 DEF Pipe!Patch, Pipe!Job, Pipe!At
  <2>2. CASE Pipe!Commit(t)
    BY <1>4, <1>5, <2>2 DEF Pipe!Commit, Pipe!Job, Pipe!At
  <2>3. CASE Pipe!Deploy(t)
    BY <1>4, <1>5, <2>3 DEF Pipe!Deploy, Pipe!DeployVersion, Pipe!Job, Pipe!At
  <2>4. CASE Pipe!Succeed(t)
    BY <1>4, <1>5, <2>4 DEF Pipe!Succeed, Pipe!leaderVars, Pipe!Job, Pipe!At
  <2>5. CASE Pipe!Fail(t)
    BY <1>4, <2>5 DEF Pipe!Fail, Pipe!Job
  <2>6. CASE Pipe!Rollback(t, TRUE) \/ Pipe!Rollback(t, FALSE)
    BY <1>4, <2>6 DEF Pipe!Rollback, Pipe!Job
  <2> QED BY <1>1, <2>1, <2>2, <2>3, <2>4, <2>5, <2>6 DEF ApplyMove
<1> QED BY <1>2, <1>3, <1>6 DEF Sync, At

-----------------------------------------------------------------------------

LEMMA NobodySolo ==
    ASSUME \A t \in Threads : ~req'[t].solo PROVE (Alone /\ Synced)'
  BY DEF Alone, Synced

LEMMA StepSyncs ==
    ASSUME TypeInv, Alone, Synced, NEW t \in Threads, Step(t) \/ Fault(t)
    PROVE (Alone /\ Synced)'
<1>1. \A o \in Threads \ {t} : req'[o] = req[o]
  BY OwnStep
<1>2. ASSUME NEW o \in Threads \ {t} PROVE ~req'[o].solo
  BY <1>1, SoloSteps
<1>3. ASSUME req'[t].solo
      PROVE /\ Sync(t)' /\ ~At(t, "idle")'
            /\ \A o \in Threads \ {t} : At(o, "idle")
  <2>1. CASE ReadLive(t)
    BY <1>3, <2>1, ReadLiveSyncs
  <2>2. CASE ~ReadLive(t)
    <3>1. Follows(t)
      BY <2>2, StepLeaves, CollectSyncs, BeginSyncs, MoveSyncs DEF InReapply, Follows
    <3>2. ASSUME Leaves(t) PROVE req[t].solo /\ Sync(t)' /\ ~At(t, "idle")'
      BY <1>3, <3>2 DEF Leaves, Idle, Sync, At
    <3> QED BY <1>3, <3>1, <3>2 DEF Follows, Alone, Synced
  <2> QED BY <2>1, <2>2
<1> QED BY <1>1, <1>2, <1>3 DEF Alone, Synced, At

LEMMA NextSyncs ==
    ASSUME TypeInv, Alone, Synced, [Next]_vars PROVE (Alone /\ Synced)'
<1>1. ASSUME NEW t \in Threads, Start(t) PROVE (Alone /\ Synced)'
  BY <1>1, StartUnsolo, NobodySolo
<1>2. ASSUME NEW t \in Threads, Startup(t) PROVE (Alone /\ Synced)'
  <2>1. ASSUME NEW o \in Threads PROVE ~req'[o].solo
    BY <1>2 DEF Startup, Alone, Idle, TypeInv, TypeOK
  <2> QED BY <2>1, NobodySolo
<1>3. CASE Crash
  BY <1>3, NobodySolo DEF Crash, Idle
<1>4. CASE UNCHANGED <<streams, members, table, deployed, req, jobs>>
  <2>1. Alone'
    BY <1>4 DEF Alone, At
  <2> QED BY <1>4, <2>1, SyncKept DEF Synced
<1> QED BY <1>1, <1>2, <1>3, <1>4, StepSyncs
        DEF Next, Rest, WorkersFetch, Pipe!Fetch, Reclassify, vars, dbVars, pipeVars

LEMMA InitSync == Init => SyncInv
  BY DEF Init, Idle, Pipe!PipeInit, Pipe!IdleJob, SyncInv, Coupled, Alone, Synced

\* "any later mutation re-syncs" (main.py): when a reapply that no other request
\* has overlapped succeeds, the deployed version is the fork set the database
\* asks for, whatever earlier interleavings, half rollbacks and crashes left on
\* the leader, and with workers that lag.
THEOREM SoloApplySyncsHolds == Spec => []SoloApplySyncs
<1>1. Init => TypeInv /\ SyncInv
  BY InitTypeInv, InitSync
<1>2. (TypeInv /\ SyncInv) /\ [Next]_vars => (TypeInv /\ SyncInv)'
  BY NextTypeInv, NextCoupled, NextSyncs DEF SyncInv
<1>3. TypeInv /\ SyncInv => SoloApplySyncs
  BY DEF SyncInv, Coupled, Synced, Sync, SoloApplySyncs
<1> QED BY <1>1, <1>2, <1>3, PTL DEF Spec
=============================================================================
