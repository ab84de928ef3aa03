------------------------ MODULE StreamServiceProofs ------------------------
(***************************************************************************)
(* What is proved of StreamService for every value of its constants: any   *)
(* number of threads, users, sources, streams, failures and crashes.       *)
(*                                                                         *)
(*   TypeCorrect               type correctness, with who acts on what     *)
(*   RoutedOnlyIfGrantedHolds  no route without a grant, from GrantInv     *)
(*   LiveHasRefHolds           a live stream has its resource, from RefInv *)
(***************************************************************************)
EXTENDS StreamService, TLAPS

-----------------------------------------------------------------------------
(* The requests: for whom they act, and on which stream. *)

NoSid == {"idle", "insert", "approved"}
ResyncPc == {"reapply", "collect", "apply", "applying"}

Actor(r) ==
    /\ r.op = "none" <=> r.pc = "idle"
    /\ r.op = "startup" => r.pc \in ResyncPc
    /\ r.op \in AllOps => r.user \in Users
    /\ (r.op \in AllOps /\ r.pc \notin NoSid) => r.sid \in StreamId

GoodRequest == {r \in Request : Actor(r)}

TypeInv == TypeOK /\ req \in [Threads -> GoodRequest]

UsedType == [{"requests", "faults", "changes", "crashes"} -> Nat]

LEMMA IdsAreNat == (\A s \in StreamId : s \in Nat) /\ (\A i \in RowId : i \in Nat)
  BY BoundAssumption DEF StreamId, RowId

LEMMA IdleGood == Idle \in GoodRequest
  BY DEF GoodRequest, Actor, Request, Idle, Pc, AllOps

LEMMA GoodIsRequest == ASSUME TypeInv, NEW t \in Threads
                       PROVE req[t] \in Request /\ Actor(req[t])
  BY DEF TypeInv, GoodRequest

\* A request that is past its first step, other than the resync at startup,
\* knows its stream and its user.
LEMMA OnStream ==
    ASSUME TypeInv, NEW t \in Threads, req[t].pc \notin NoSid \cup ResyncPc
    PROVE /\ Sid(t) \in StreamId /\ Op(t) \in AllOps /\ Op(t) # "startup"
          /\ req[t].user \in Users
  BY GoodIsRequest DEF Actor, Request, Sid, Op, NoSid, AllOps

LEMMA MoveGood ==
    ASSUME TypeInv, NEW t \in Threads, NEW r \in Request, Actor(r),
           req' = [req EXCEPT ![t] = r]
    PROVE req' \in [Threads -> GoodRequest]
  BY DEF TypeInv, GoodRequest

LEMMA FinishGood ==
    ASSUME TypeInv, NEW t \in Threads, Finish(t)
    PROVE req' \in [Threads -> GoodRequest]
  BY IdleGood DEF Finish, TypeInv

LEMMA GotoGood ==
    ASSUME TypeInv, NEW t \in Threads, NEW pc \in Pc \ NoSid, Goto(t, pc),
           req[t].pc \notin NoSid, Op(t) = "startup" => pc \in ResyncPc
    PROVE req' \in [Threads -> GoodRequest]
<1>1. [req[t] EXCEPT !.pc = pc] \in Request
  BY GoodIsRequest DEF Request
<1>2. Actor([req[t] EXCEPT !.pc = pc])
  BY GoodIsRequest DEF Request, Actor, NoSid, Pc, Op
<1> QED BY <1>1, <1>2, MoveGood DEF Goto

LEMMA AfterRoleGood ==
    ASSUME TypeInv, NEW t \in Threads, NEW noted \in BOOLEAN, AfterRole(t, noted),
           req[t].pc \notin NoSid, Op(t) # "startup"
    PROVE req' \in [Threads -> GoodRequest]
<1>0. PICK r : r = [req[t] EXCEPT !.pc = "delresource", !.noted = noted]
  OBVIOUS
<1>5. req[t] \in Request /\ Actor(req[t]) /\ "delresource" \in Pc
  BY GoodIsRequest DEF Pc
<1>1. [req[t] EXCEPT !.pc = "delresource", !.noted = noted] \in Request
  BY <1>5 DEF Request
<1>2. Actor([req[t] EXCEPT !.pc = "delresource", !.noted = noted])
  BY <1>5 DEF Request, Actor, NoSid, Op
<1>3. CASE req' = [req EXCEPT ![t] = r]
  BY <1>0, <1>1, <1>2, <1>3, MoveGood
<1>4. CASE Finish(t)
  BY <1>4, FinishGood
<1> QED BY <1>0, <1>3, <1>4 DEF AfterRole

LEMMA FaultGood ==
    ASSUME TypeInv, NEW t \in Threads, NEW pc \in Pc \ NoSid, FaultTo(t, pc),
           req[t].pc \notin NoSid, Op(t) = "startup" => pc \in ResyncPc
    PROVE req' \in [Threads -> GoodRequest] /\ used' \in UsedType
  BY GotoGood DEF FaultTo, Budget, TypeInv, TypeOK, UsedType

LEMMA AcceptGood ==
    ASSUME TypeInv, NEW t \in Threads, NEW op, NEW r \in Request, Actor(r),
           Accept(t, op, r)
    PROVE req' \in [Threads -> GoodRequest] /\ used' \in UsedType
<1>1. ASSUME NEW o \in Threads
      PROVE [req[o] EXCEPT !.solo = FALSE] \in GoodRequest
  <2>1. [req[o] EXCEPT !.solo = FALSE] \in Request
    BY GoodIsRequest DEF Request
  <2>2. Actor([req[o] EXCEPT !.solo = FALSE])
    BY GoodIsRequest DEF Request, Actor
  <2> QED BY <2>1, <2>2 DEF GoodRequest
<1>2. r \in GoodRequest
  BY DEF GoodRequest
<1>3. req' \in [Threads -> GoodRequest]
  BY <1>1, <1>2 DEF Accept
<1> QED BY <1>3 DEF Accept, Budget, TypeInv, TypeOK, UsedType

-----------------------------------------------------------------------------
(* The leader and the calls of apply. *)

LEMMA BeginType ==
    ASSUME Pipe!PipeTypeOK, NEW t \in Threads, NEW w \in SUBSET Routes,
           NEW f \in BOOLEAN, Pipe!Begin(t, w, f) \/ Pipe!Refuse(t, w)
    PROVE Pipe!PipeTypeOK'
<1>1. ASSUME NEW p \in {{deployed}, {running}, {}}
      PROVE [pc |-> "begun", want |-> w, prev |-> p, commit |-> {}] \in Pipe!Job
  BY DEF Pipe!PipeTypeOK, Pipe!Job, Pipe!JobPc, Pipe!Configs
<1>2. [pc |-> "failed", want |-> w, prev |-> {}, commit |-> {}] \in Pipe!Job
  BY DEF Pipe!Job, Pipe!JobPc, Pipe!Configs
<1>3. jobs' \in [Threads -> Pipe!Job]
  BY <1>1, <1>2 DEF Pipe!PipeTypeOK, Pipe!Begin, Pipe!Refuse
<1> QED BY <1>3 DEF Pipe!PipeTypeOK, Pipe!Begin, Pipe!Refuse, Pipe!leaderVars

ApplyMove(t) ==
    \/ Pipe!Patch(t) \/ Pipe!Commit(t) \/ Pipe!Deploy(t) \/ Pipe!Succeed(t)
    \/ Pipe!Fail(t) \/ Pipe!Rollback(t, TRUE) \/ Pipe!Rollback(t, FALSE)

LEMMA ApplyMoveType ==
    ASSUME Pipe!PipeTypeOK, NEW t \in Threads, ApplyMove(t)
    PROVE Pipe!PipeTypeOK'
<1>0. /\ jobs[t] \in Pipe!Job /\ jobs[t].want \in Pipe!Configs
      /\ jobs[t].commit \in Pipe!Configs /\ jobs[t].prev \in SUBSET Pipe!Configs
  BY DEF Pipe!PipeTypeOK, Pipe!Job
<1>1. ASSUME NEW p \in Pipe!JobPc
      PROVE /\ [jobs[t] EXCEPT !.pc = p] \in Pipe!Job
            /\ [jobs[t] EXCEPT !.pc = p, !.commit = table] \in Pipe!Job
  BY <1>0 DEF Pipe!PipeTypeOK, Pipe!Job
<1>2. jobs' \in [Threads -> Pipe!Job]
  BY <1>1 DEF ApplyMove, Pipe!PipeTypeOK, Pipe!Patch, Pipe!Commit, Pipe!Deploy,
     Pipe!Succeed, Pipe!Fail, Pipe!Rollback, Pipe!JobPc
<1>3. /\ table' \in Pipe!Configs /\ deployed' \in Pipe!Configs
      /\ running' \in Pipe!Configs
  BY <1>0 DEF ApplyMove, Pipe!PipeTypeOK, Pipe!Patch, Pipe!Commit, Pipe!Deploy,
     Pipe!Succeed, Pipe!Fail, Pipe!Rollback, Pipe!DeployVersion, Pipe!leaderVars
<1> QED BY <1>2, <1>3 DEF Pipe!PipeTypeOK

LEMMA IdleJobType == Pipe!IdleJob \in Pipe!Job
  BY DEF Pipe!IdleJob, Pipe!Job, Pipe!JobPc, Pipe!Configs

LEMMA ReturnType ==
    ASSUME Pipe!PipeTypeOK, NEW t \in Threads, Pipe!Return(t)
    PROVE Pipe!PipeTypeOK'
  BY IdleJobType DEF Pipe!PipeTypeOK, Pipe!Return, Pipe!leaderVars

LEMMA LeaderType ==
    ASSUME Pipe!PipeTypeOK, Pipe!AbortAll \/ Pipe!Fetch
    PROVE Pipe!PipeTypeOK'
  BY IdleJobType DEF Pipe!PipeTypeOK, Pipe!AbortAll, Pipe!Fetch, Pipe!leaderVars

LEMMA PipeUnchanged ==
    ASSUME Pipe!PipeTypeOK, UNCHANGED pipeVars PROVE Pipe!PipeTypeOK'
  BY DEF Pipe!PipeTypeOK, pipeVars

-----------------------------------------------------------------------------
(* Type correctness: one lemma per kind of step. *)

LEMMA InitTypeInv == Init => TypeInv
<1> SUFFICES ASSUME Init PROVE TypeInv
  OBVIOUS
<1>1. TypeOK
  BY UserAssumption, SourceAssumption, BoundAssumption
     DEF Init, TypeOK, NoStream, Stream, NoRole, Role, Idle, Request, Pc,
         Pipe!PipeInit, Pipe!PipeTypeOK, Pipe!Configs, Pipe!IdleJob, Pipe!Job,
         Pipe!JobPc
<1> QED BY <1>1, IdleGood DEF Init, TypeInv

LEMMA SeenForType ==
    ASSUME NEW s \in StreamId, NEW u \in Users, NEW resolved \in SUBSET Resolved
    PROVE SeenFor(s, u, resolved) \subseteq StreamId \X Users \X Sources \X Listing
  BY DEF SeenFor, Resolved

LEMMA ResolveType ==
    ASSUME NEW l \in FqnLists, NEW u \in Users, NEW tree \in Cat!Answers
    PROVE /\ Resolve(l, tree) \subseteq Resolved
          /\ \A s \in StreamId : SeenFor(s, u, Resolve(l, tree)) \subseteq
                                   StreamId \X Users \X Sources \X Listing
<1>1. l \in Seq(Sources) /\ tree \in [Sources -> Listing]
  BY SourceAssumption DEF Cat!Answers, Cat!Trees, Cat!Listing, Listing
<1>2. \A i \in DOMAIN l : i \in Nat /\ l[i] \in Sources /\ tree[l[i]] \in Listing
  BY <1>1
<1>3. Resolve(l, tree) \subseteq Resolved
  BY <1>2 DEF Resolve, Resolved
<1> QED BY <1>3, SeenForType

LEMMA StartCreateType ==
    ASSUME TypeInv, NEW t \in Threads, NEW u \in Users, NEW n \in Names,
           NEW ty \in Types, NEW l \in FqnLists, NEW tree \in Cat!Answers,
           StartCreate(t, u, n, ty, l, tree)
    PROVE TypeInv'
<1> DEFINE r == [Idle EXCEPT !.pc = "insert", !.op = "create", !.user = u,
                             !.name = n, !.type = ty, !.todo = Resolve(l, tree)]
<1>1. r \in Request /\ Actor(r)
  BY ResolveType DEF Request, Idle, Pc, AllOps, Actor, NoSid
<1>2. Accept(t, "create", r)
  BY DEF StartCreate
<1> HIDE DEF r
<1>3. req' \in [Threads -> GoodRequest] /\ used' \in UsedType
  BY <1>1, <1>2, AcceptGood
<1> QED BY <1>3, PipeUnchanged
        DEF StartCreate, TypeInv, TypeOK, dbVars, worldVars, ghostVars, UsedType,
            GoodRequest

LEMMA StartAddType ==
    ASSUME TypeInv, NEW t \in Threads, NEW u \in Users, NEW s \in StreamId,
           NEW l \in FqnLists, NEW tree \in Cat!Answers, StartAdd(t, u, s, l, tree)
    PROVE TypeInv'
<1> DEFINE r == [Idle EXCEPT !.pc = "members", !.op = "add", !.user = u,
                             !.sid = s, !.todo = Fresh(s, l, tree)]
<1>1. r \in Request /\ Actor(r)
  BY ResolveType, IdsAreNat DEF Request, Idle, Pc, AllOps, Actor, NoSid, Fresh
<1>2. Accept(t, "add", r)
  BY DEF StartAdd
<1>3. seen' \subseteq StreamId \X Users \X Sources \X Listing
  BY ResolveType DEF StartAdd, TypeInv, TypeOK
<1> HIDE DEF r
<1>4. req' \in [Threads -> GoodRequest] /\ used' \in UsedType
  BY <1>1, <1>2, AcceptGood
<1> QED BY <1>3, <1>4, PipeUnchanged
        DEF StartAdd, TypeInv, TypeOK, dbVars, worldVars, UsedType, GoodRequest

LEMMA StartOnType ==
    ASSUME TypeInv, NEW t \in Threads, NEW u \in Users, NEW s \in StreamId,
           StartRemove(t, u, s) \/ StartDelete(t, u, s) \/ StartRetry(t, u, s)
    PROVE TypeInv'
<1>1. PICK op \in {"remove", "delete", "retry"},
           pc \in {"remove", "markdeleted", "relive", "provision"} :
             StartOn(t, op, pc, u, s)
  BY DEF StartRemove, StartDelete, StartRetry
<1> DEFINE r == [Idle EXCEPT !.pc = pc, !.op = op, !.user = u, !.sid = s,
                             !.ref = streams[s].ref]
<1>2. r \in Request /\ Actor(r)
  BY IdsAreNat
     DEF Request, Idle, Pc, AllOps, Actor, NoSid, TypeInv, TypeOK, Stream
<1>3. Accept(t, op, r)
  BY <1>1 DEF StartOn
<1> HIDE DEF r
<1>4. req' \in [Threads -> GoodRequest] /\ used' \in UsedType
  BY <1>2, <1>3, AcceptGood
<1> QED BY <1>1, <1>4, PipeUnchanged
        DEF StartOn, TypeInv, TypeOK, dbVars, worldVars, ghostVars, UsedType,
            GoodRequest

LEMMA DecideType ==
    ASSUME TypeInv, NEW t \in Threads, NEW u \in Users, NEW m \in members,
           StartApprove(t, u, m) \/ Reject(t, u, m)
    PROVE TypeInv'
<1> DEFINE r == [Idle EXCEPT !.pc = "approved", !.op = "approve", !.user = u,
                             !.row = m.id]
<1>0. m \in Row /\ m.id \in Nat
  BY IdsAreNat DEF TypeInv, TypeOK, Row
<1>1. r \in Request /\ Actor(r)
  BY <1>0 DEF Request, Idle, Pc, AllOps, Actor, NoSid
<1>7. Idle \in Request /\ Actor(Idle)
  BY IdleGood DEF GoodRequest
<1>2. Accept(t, "approve", r) \/ Accept(t, "approve", Idle)
  BY DEF StartApprove, Reject
<1> HIDE DEF r
<1>3. req' \in [Threads -> GoodRequest] /\ used' \in UsedType
  BY <1>1, <1>2, <1>7, AcceptGood
<1>4. ASSUME NEW st \in {"active", "rejected"}
      PROVE [m EXCEPT !.status = st] \in Row
  BY <1>0 DEF Row
<1>5. members' \subseteq Row
  BY <1>4 DEF StartApprove, Reject, Decide, TypeInv, TypeOK
<1>6. approvals' \subseteq StreamId \X Sources
  BY <1>0 DEF StartApprove, Reject, ghostVars, TypeInv, TypeOK, Row
<1> QED BY <1>3, <1>5, <1>6, PipeUnchanged
        DEF StartApprove, Reject, TypeInv, TypeOK, worldVars, ghostVars, UsedType,
            GoodRequest

LEMMA InsertType ==
    ASSUME TypeInv, NEW t \in Threads, Insert(t) PROVE TypeInv'
<1>1. req[t] \in Request /\ Actor(req[t]) /\ req[t].user \in Users
      /\ req[t].op \in AllOps
  BY GoodIsRequest DEF Insert, At, Actor, Request, AllOps, ResyncPc
<1>0. seen' \subseteq StreamId \X Users \X Sources \X Listing
  BY <1>1, SeenForType DEF Insert, Request, TypeInv, TypeOK
<1>2. ASSUME Finish(t), UNCHANGED streams
      PROVE streams' \in [StreamId -> Stream] /\ req' \in [Threads -> GoodRequest]
  BY <1>2, FinishGood DEF TypeInv, TypeOK
<1>3. ASSUME NEW s \in StreamId,
             streams' = [streams EXCEPT ![s] =
                   [NoStream EXCEPT !.status = "provisioning",
                      !.owner = req[t].user, !.name = req[t].name,
                      !.type = req[t].type]],
             req' = [req EXCEPT ![t].pc = "provision", ![t].sid = s]
      PROVE streams' \in [StreamId -> Stream] /\ req' \in [Threads -> GoodRequest]
  <2>1. [NoStream EXCEPT !.status = "provisioning", !.owner = req[t].user,
           !.name = req[t].name, !.type = req[t].type] \in Stream
    BY <1>1 DEF NoStream, Stream, Request
  <2>2. [req[t] EXCEPT !.pc = "provision", !.sid = s] \in Request
    BY <1>1, IdsAreNat DEF Request, Pc
  <2>3. Actor([req[t] EXCEPT !.pc = "provision", !.sid = s])
    BY <1>1 DEF Request, Actor, AllOps
  <2>4. req' \in [Threads -> GoodRequest]
    BY <1>3, <2>2, <2>3, MoveGood
  <2> QED BY <1>3, <2>1, <2>4 DEF TypeInv, TypeOK
<1>4. streams' \in [StreamId -> Stream] /\ req' \in [Threads -> GoodRequest]
  BY <1>2, <1>3 DEF Insert
<1> QED BY <1>0, <1>4, PipeUnchanged
        DEF Insert, TypeInv, TypeOK, worldVars, GoodRequest

\* The steps around the provisioner.
LEMMA ResourceType ==
    ASSUME TypeInv, NEW t \in Threads,
           \/ Provision(t) \/ ProvisionInUse(t) \/ ProvisionFails(t)
           \/ DelResource(t) \/ DelResourceFails(t)
    PROVE TypeInv'
<1>1. Sid(t) \in StreamId /\ Op(t) # "startup" /\ req[t].pc \notin NoSid
  BY OnStream DEF Provision, ProvisionInUse, ProvisionFails, DelResource,
     DelResourceFails, At, NoSid, ResyncPc
<1>2. ResourceOf(Sid(t)) \in Resources
  BY <1>1 DEF ResourceOf, Resources, TypeInv, TypeOK, Stream
<1>3. resources' \subseteq Resources
  BY <1>2 DEF Provision, ProvisionInUse, ProvisionFails, DelResource,
     DelResourceFails, TypeInv, TypeOK, worldVars
<1>4. /\ req' \in [Threads -> GoodRequest] /\ used' \in UsedType
  <2>1. CASE Provision(t) \/ ProvisionInUse(t) \/ DelResource(t)
    <3>1. \/ Goto(t, "golive") \/ Goto(t, "flag") \/ Goto(t, "noteresource")
          \/ Finish(t)
      BY <2>1 DEF Provision, ProvisionInUse, DelResource
    <3>2. req' \in [Threads -> GoodRequest]
      BY <1>1, <3>1, GotoGood, FinishGood DEF Pc, NoSid
    <3> QED BY <2>1, <3>2 DEF Provision, ProvisionInUse, DelResource, TypeInv,
               TypeOK, UsedType
  <2>2. CASE ProvisionFails(t) \/ DelResourceFails(t)
    BY <1>1, <2>2, FaultGood DEF ProvisionFails, DelResourceFails, Pc, NoSid
  <2> QED BY <2>1, <2>2
<1> QED BY <1>3, <1>4, PipeUnchanged
        DEF Provision, ProvisionInUse, ProvisionFails, DelResource,
            DelResourceFails, TypeInv, TypeOK, dbVars, worldVars, ghostVars,
            UsedType, GoodRequest

\* The UPDATEs of the streams table.
LEMMA UpdateType ==
    ASSUME TypeInv, NEW t \in Threads,
           \/ FlagError(t) \/ GoLive(t) \/ Relive(t) \/ Record(t) \/ MarkDeleted(t)
           \/ FlagApply(t) \/ NoteRole(t) \/ NoteResource(t)
    PROVE TypeInv'
<1> USE DEF FlagError, GoLive, Relive, Record, MarkDeleted, FlagApply, NoteRole,
            NoteResource
<1>1. /\ Sid(t) \in StreamId /\ Op(t) # "startup" /\ req[t].pc \notin NoSid
      /\ req[t].user \in Users
  BY OnStream DEF At, NoSid, ResyncPc
<1>2. Consumer(req[t].user) \in Accounts
  BY <1>1, UserAssumption DEF Consumer
<1> DEFINE row == streams[Sid(t)]
<1>3. row \in Stream
  BY <1>1 DEF TypeInv, TypeOK
<1>4. /\ [row EXCEPT !.status = "error", !.err = TRUE] \in Stream
      /\ [row EXCEPT !.status = "live", !.ref = TRUE, !.err = FALSE] \in Stream
      /\ [row EXCEPT !.status = "live", !.err = FALSE] \in Stream
      /\ [row EXCEPT !.arn = TRUE, !.consumer = Consumer(req[t].user)] \in Stream
      /\ [row EXCEPT !.status = "deleted"] \in Stream
      /\ [row EXCEPT !.err = TRUE] \in Stream
  BY <1>2, <1>3 DEF Stream
<1>5. streams' \in [StreamId -> Stream]
  BY <1>1, <1>4 DEF SetErr, TypeInv, TypeOK
<1>6. \/ Finish(t)
      \/ \E pc \in {"mint", "reread", "members", "reapply"} : Goto(t, pc)
      \/ AfterRole(t, TRUE)
  OBVIOUS
<1>7. req' \in [Threads -> GoodRequest]
  BY <1>1, <1>6, GotoGood, FinishGood, AfterRoleGood DEF Pc, NoSid
<1> QED BY <1>5, <1>7, PipeUnchanged
        DEF TypeInv, TypeOK, worldVars, ghostVars, GoodRequest

\* The calls to IAM.
LEMMA RoleType ==
    ASSUME TypeInv, NEW t \in Threads,
           \/ Mint(t) \/ PutPolicy(t) \/ MintFails(t)
           \/ DelPolicy(t) \/ DelRole(t) \/ DelRoleFails(t)
    PROVE TypeInv'
<1> USE DEF Mint, PutPolicy, MintFails, DelPolicy, DelRole, DelRoleFails
<1>1. /\ Sid(t) \in StreamId /\ Op(t) # "startup" /\ req[t].pc \notin NoSid
      /\ req[t].user \in Users
  BY OnStream DEF At, NoSid, ResyncPc
<1>2. Consumer(req[t].user) \in Accounts
  BY <1>1, UserAssumption DEF Consumer
<1> DEFINE role == roles[Sid(t)]
<1>6. role \in Role
  BY <1>1 DEF TypeInv, TypeOK
<1>3. /\ NoRole \in Role
      /\ [role EXCEPT !.trust = Consumer(req[t].user)] \in Role
      /\ [role EXCEPT !.policy = TRUE] \in Role
      /\ [role EXCEPT !.policy = FALSE] \in Role
  BY <1>2, <1>6 DEF Role, NoRole
<1>4. roles' \in [StreamId -> Role]
  BY <1>1, <1>3 DEF TypeInv, TypeOK, worldVars
<1>5. req' \in [Threads -> GoodRequest] /\ used' \in UsedType
  <2>1. CASE MintFails(t) \/ DelRoleFails(t)
    BY <1>1, <2>1, FaultGood DEF Pc, NoSid
  <2>2. CASE Mint(t) \/ PutPolicy(t) \/ DelPolicy(t) \/ DelRole(t)
    <3>1. \/ AfterRole(t, FALSE)
          \/ \E pc \in {"putpolicy", "flag", "record", "delrole", "noterole"} :
               Goto(t, pc)
      BY <2>2
    <3>2. req' \in [Threads -> GoodRequest]
      BY <1>1, <3>1, GotoGood, AfterRoleGood DEF Pc, NoSid
    <3> QED BY <2>2, <3>2 DEF TypeInv, TypeOK, UsedType
  <2> QED BY <2>1, <2>2
<1> QED BY <1>4, <1>5, PipeUnchanged
        DEF TypeInv, TypeOK, dbVars, worldVars, ghostVars, UsedType, GoodRequest

\* The INSERTs and DELETEs of stream_sources.
LEMMA RowType ==
    ASSUME TypeInv, NEW t \in Threads, InsertMember(t) \/ Remove(t)
    PROVE TypeInv'
<1>1. /\ Sid(t) \in StreamId /\ Op(t) # "startup" /\ req[t].pc \notin NoSid
      /\ req[t].user \in Users /\ req[t] \in Request /\ Actor(req[t])
  BY OnStream, GoodIsRequest DEF InsertMember, Remove, At, NoSid, ResyncPc
<1>2. CASE Remove(t)
  <2>1. Goto(t, "reapply") \/ Finish(t)
    BY <1>2 DEF Remove
  <2>2. req' \in [Threads -> GoodRequest]
    BY <1>1, <2>1, GotoGood, FinishGood DEF Pc, NoSid
  <2> QED BY <1>2, <2>2, PipeUnchanged
          DEF Remove, TypeInv, TypeOK, worldVars, ghostVars, GoodRequest
<1>3. CASE InsertMember(t)
  <2>1. ASSUME NEW p \in req[t].todo,
               Finish(t) /\ UNCHANGED <<members, lastRow>>
        PROVE /\ req' \in [Threads -> GoodRequest]
              /\ members' \subseteq Row /\ lastRow' \in 0..MaxRows
    BY <2>1, FinishGood DEF TypeInv, TypeOK
  <2>2. ASSUME NEW p \in req[t].todo,
               /\ lastRow < MaxRows
               /\ lastRow' = lastRow + 1
               /\ members' = members \cup
                      {[id |-> lastRow + 1, sid |-> Sid(t), src |-> p[2],
                        status |-> GateStatus(p[3]), by |-> req[t].user]}
               /\ req' = [req EXCEPT ![t].todo = @ \ {p},
                      ![t].pc = IF req[t].todo = {p} THEN "reapply" ELSE "members"]
        PROVE /\ req' \in [Threads -> GoodRequest]
              /\ members' \subseteq Row /\ lastRow' \in 0..MaxRows
    <3> DEFINE pc == IF req[t].todo = {p} THEN "reapply" ELSE "members"
               r == [req[t] EXCEPT !.todo = @ \ {p}, !.pc = pc]
    <3>1. r \in Request
      BY <1>1 DEF Request, Pc
    <3>2. Actor(r)
      BY <1>1 DEF Request, Actor, NoSid, ResyncPc, AllOps, Op, Sid
    <3>3. req' \in [Threads -> GoodRequest]
      BY <2>2, <3>1, <3>2, MoveGood
    <3>4. lastRow + 1 \in RowId /\ lastRow' \in 0..MaxRows
      BY <2>2, BoundAssumption DEF TypeInv, TypeOK, RowId
    <3>5. p[2] \in Sources
      BY <1>1 DEF Request, Resolved
    <3>6. [id |-> lastRow + 1, sid |-> Sid(t), src |-> p[2],
           status |-> GateStatus(p[3]), by |-> req[t].user] \in Row
      BY <1>1, <3>4, <3>5 DEF Row, GateStatus
    <3> QED BY <2>2, <3>3, <3>4, <3>6 DEF TypeInv, TypeOK
  <2>3. /\ req' \in [Threads -> GoodRequest]
        /\ members' \subseteq Row /\ lastRow' \in 0..MaxRows
    BY <1>3, <2>1, <2>2 DEF InsertMember
  <2> QED BY <1>3, <2>3, PipeUnchanged
          DEF InsertMember, TypeInv, TypeOK, worldVars, ghostVars, GoodRequest
<1> QED BY <1>2, <1>3

\* The SELECTs of retry, approve and reapply.
LEMMA ReadType ==
    ASSUME TypeInv, NEW t \in Threads,
           Reread(t) \/ ApproveLookup(t) \/ ReadLive(t) \/ Collect(t)
    PROVE TypeInv'
<1>1. req[t] \in Request /\ Actor(req[t])
  BY GoodIsRequest
<1>2. CASE Reread(t)
  <2>1. Op(t) # "startup" /\ req[t].pc \notin NoSid
    BY <1>2, OnStream DEF Reread, At, NoSid, ResyncPc
  <2>2. req' \in [Threads -> GoodRequest]
    BY <1>2, <2>1, GotoGood, FinishGood DEF Reread, Pc, NoSid
  <2> QED BY <1>2, <2>2, PipeUnchanged
          DEF Reread, TypeInv, TypeOK, dbVars, worldVars, ghostVars, GoodRequest
<1>3. CASE ApproveLookup(t)
  <2>1. ASSUME NEW m \in members,
               req' = [req EXCEPT ![t].pc = "reapply", ![t].sid = m.sid]
        PROVE req' \in [Threads -> GoodRequest]
    <3>0. m.sid \in StreamId
      BY DEF TypeInv, TypeOK, Row
    <3>1. [req[t] EXCEPT !.pc = "reapply", !.sid = m.sid] \in Request
      BY <1>1, <3>0, IdsAreNat DEF Request, Pc
    <3>2. Actor([req[t] EXCEPT !.pc = "reapply", !.sid = m.sid])
      BY <1>1, <1>3, <3>0 DEF ApproveLookup, At, Request, Actor, ResyncPc
    <3> QED BY <2>1, <3>1, <3>2, MoveGood
  <2>2. req' \in [Threads -> GoodRequest]
    BY <1>3, <2>1, FinishGood DEF ApproveLookup
  <2> QED BY <1>3, <2>2, PipeUnchanged
          DEF ApproveLookup, TypeInv, TypeOK, dbVars, worldVars, ghostVars, GoodRequest
<1>4. CASE ReadLive(t)
  <2> DEFINE pc == IF LiveStreams = {} THEN "apply" ELSE "collect"
             solo == \A o \in Threads \ {t} : At(o, "idle")
             r == [req[t] EXCEPT !.live = LiveStreams, !.want = {},
                                 !.solo = solo, !.pc = pc]
  <2>0. solo \in BOOLEAN /\ req' = [req EXCEPT ![t] = r]
    BY <1>4 DEF ReadLive
  <2>4. LiveStreams \in SUBSET StreamId /\ pc \in Pc /\ {} \in SUBSET Routes
    BY DEF Pc, LiveStreams
  <2>5. pc \in {"apply", "collect"}
    OBVIOUS
  <2> HIDE DEF solo, pc
  <2>1. r \in Request
    BY <1>1, <2>0, <2>4 DEF Request
  <2>2. Actor(r)
    BY <1>1, <1>4, <2>5 DEF ReadLive, At, Request, Actor, NoSid, ResyncPc
  <2> HIDE DEF r
  <2>3. req' \in [Threads -> GoodRequest]
    BY <2>0, <2>1, <2>2, MoveGood
  <2> QED BY <1>4, <2>3, PipeUnchanged
          DEF ReadLive, TypeInv, TypeOK, dbVars, worldVars, ghostVars, GoodRequest
<1>5. CASE Collect(t)
  <2>0. req[t].pc = "collect" /\ Op(t) # "none" /\ req[t].pc \notin NoSid
    BY <1>1, <1>5 DEF Collect, At, Actor, Op, NoSid, Request, Pc
  <2>1. ASSUME AfterValueError(t)
        PROVE req' \in [Threads -> GoodRequest] /\ up' \in BOOLEAN
    <3>1. \/ Finish(t)
          \/ Op(t) # "startup" /\ Goto(t, "flagapply")
      BY <2>1 DEF AfterValueError
    <3>2. req' \in [Threads -> GoodRequest]
      BY <2>0, <3>1, GotoGood, FinishGood DEF Pc, NoSid
    <3> QED BY <2>1, <3>2 DEF AfterValueError, TypeInv, TypeOK
  <2>2. ASSUME NEW s \in req[t].live,
               req' = [req EXCEPT ![t].live = @ \ {s},
                              ![t].want = @ \cup ActiveRoutes(s),
                              ![t].pc = IF req[t].live = {s} THEN "apply"
                                        ELSE "collect"],
               UNCHANGED up
        PROVE req' \in [Threads -> GoodRequest] /\ up' \in BOOLEAN
    <3> DEFINE pc == IF req[t].live = {s} THEN "apply" ELSE "collect"
               r == [req[t] EXCEPT !.live = @ \ {s},
                                   !.want = @ \cup ActiveRoutes(s), !.pc = pc]
    <3>0. s \in StreamId
      BY <1>1 DEF Request
    <3>1. ActiveRoutes(s) \subseteq Routes
      BY <3>0, SourceAssumption DEF ActiveRoutes, Routes, TypeInv, TypeOK, Row
    <3>2. r \in Request
      BY <1>1, <3>1 DEF Request, Pc
    <3>3. Actor(r)
      BY <1>1, <2>0 DEF Request, Actor, NoSid, ResyncPc, Op, AllOps
    <3>4. req' \in [Threads -> GoodRequest]
      BY <2>2, <3>2, <3>3, MoveGood
    <3> QED BY <2>2, <3>4 DEF TypeInv, TypeOK
  <2>3. req' \in [Threads -> GoodRequest] /\ up' \in BOOLEAN
    BY <1>5, <2>1, <2>2 DEF Collect
  <2> QED BY <1>5, <2>3, PipeUnchanged
          DEF Collect, TypeInv, TypeOK, dbVars, worldVars, ghostVars, GoodRequest
<1> QED BY <1>2, <1>3, <1>4, <1>5

\* The call of pipeline.apply.
LEMMA ApplyType ==
    ASSUME TypeInv, NEW t \in Threads,
           \/ ApplyBegin(t) \/ ApplyBeginFails(t) \/ ApplyStep(t)
           \/ ApplyDisturbed(t) \/ ApplyFails(t) \/ ApplyReturns(t)
    PROVE TypeInv'
<1>1. /\ req[t] \in Request /\ Actor(req[t]) /\ req[t].pc \in {"apply", "applying"}
      /\ req[t].pc \notin NoSid /\ req[t].want \in SUBSET Routes
  BY GoodIsRequest DEF ApplyBegin, ApplyBeginFails, ApplyStep, ApplyDisturbed,
     ApplyFails, ApplyReturns, At, NoSid, Request
<1>2. Pipe!PipeTypeOK
  BY DEF TypeInv, TypeOK
<1>3. Pipe!PipeTypeOK'
  <2>1. CASE ApplyBegin(t) \/ ApplyBeginFails(t)
    BY <1>1, <1>2, <2>1, BeginType DEF ApplyBegin, ApplyBeginFails
  <2>2. CASE ApplyStep(t) \/ ApplyDisturbed(t) \/ ApplyFails(t)
    BY <1>2, <2>2, ApplyMoveType DEF ApplyMove, ApplyStep, ApplyDisturbed, ApplyFails
  <2>3. CASE ApplyReturns(t)
    BY <1>2, <2>3, ReturnType DEF ApplyReturns
  <2> QED BY <2>1, <2>2, <2>3
<1>4. /\ req' \in [Threads -> GoodRequest] /\ used' \in UsedType /\ up' \in BOOLEAN
  <2>1. CASE ApplyBegin(t)
    BY <1>1, <2>1, GotoGood
       DEF ApplyBegin, Pc, NoSid, ResyncPc, TypeInv, TypeOK, UsedType
  <2>2. CASE ApplyBeginFails(t) \/ ApplyFails(t)
    BY <1>1, <2>2, FaultGood
       DEF ApplyBeginFails, ApplyFails, Pc, NoSid, ResyncPc, TypeInv, TypeOK
  <2>3. CASE ApplyStep(t)
    BY <2>3 DEF ApplyStep, TypeInv, TypeOK, UsedType
  <2>4. CASE ApplyDisturbed(t)
    BY <2>4 DEF ApplyDisturbed, TypeInv, TypeOK, UsedType
  <2>5. CASE ApplyReturns(t)
    <3>1. \/ Finish(t)
          \/ Op(t) # "startup" /\ \E pc \in {"delpolicy", "flagapply"} : Goto(t, pc)
      BY <2>5 DEF ApplyReturns
    <3>2. req' \in [Threads -> GoodRequest]
      BY <1>1, <3>1, GotoGood, FinishGood DEF Pc, NoSid
    <3> QED BY <2>5, <3>2 DEF ApplyReturns, TypeInv, TypeOK, UsedType
  <2> QED BY <2>1, <2>2, <2>3, <2>4, <2>5
<1>5. UNCHANGED <<dbVars, worldVars, ghostVars>>
  BY DEF ApplyBegin, ApplyBeginFails, ApplyStep, ApplyDisturbed, ApplyFails,
     ApplyReturns
<1> QED BY <1>3, <1>4, <1>5
        DEF TypeInv, TypeOK, dbVars, worldVars, ghostVars, UsedType, GoodRequest

\* The process and the world around it.
LEMMA WorldType ==
    ASSUME TypeInv,
           \/ Crash \/ WorkersFetch \/ UNCHANGED vars
           \/ \E t \in Threads : Startup(t)
           \/ \E src \in Sources, k \in Listing : Reclassify(src, k)
    PROVE TypeInv'
<1>1. CASE Crash
  <2>1. Pipe!PipeTypeOK'
    BY <1>1, LeaderType DEF Crash, TypeInv, TypeOK
  <2>2. req' \in [Threads -> GoodRequest] /\ up' \in BOOLEAN
    BY <1>1, IdleGood DEF Crash
  <2>3. used' \in UsedType
    BY <1>1 DEF Crash, Budget, TypeInv, TypeOK, UsedType
  <2> QED BY <1>1, <2>1, <2>2, <2>3
          DEF Crash, TypeInv, TypeOK, dbVars, worldVars, ghostVars, UsedType,
              GoodRequest
<1>2. CASE WorkersFetch
  BY <1>2, LeaderType
     DEF WorkersFetch, TypeInv, TypeOK, dbVars, worldVars, ghostVars
<1>3. CASE UNCHANGED vars
  BY <1>3, PipeUnchanged DEF vars, TypeInv, TypeOK, dbVars, worldVars, ghostVars
<1>4. ASSUME NEW t \in Threads, Startup(t) PROVE TypeInv'
  <2> DEFINE r == [Idle EXCEPT !.pc = "reapply", !.op = "startup"]
  <2>1. r \in Request /\ Actor(r)
    BY DEF Idle, Request, Pc, AllOps, Actor, ResyncPc
  <2>2. req' \in [Threads -> GoodRequest]
    BY <1>4, <2>1, MoveGood DEF Startup
  <2> QED BY <1>4, <2>2, PipeUnchanged
          DEF Startup, TypeInv, TypeOK, dbVars, worldVars, ghostVars, GoodRequest
<1>5. ASSUME NEW src \in Sources, NEW k \in Listing, Reclassify(src, k)
      PROVE TypeInv'
  BY <1>5, PipeUnchanged
     DEF Reclassify, Cat!List, Budget, TypeInv, TypeOK, dbVars, ghostVars
<1> QED BY <1>1, <1>2, <1>3, <1>4, <1>5

LEMMA NextTypeInv == TypeInv /\ [Next]_vars => TypeInv'
<1> SUFFICES ASSUME TypeInv, [Next]_vars PROVE TypeInv'
  OBVIOUS
<1>1. ASSUME NEW t \in Threads, Start(t) PROVE TypeInv'
  BY <1>1, StartCreateType, StartAddType, StartOnType, DecideType DEF Start
<1>2. ASSUME NEW t \in Threads, Step(t) PROVE TypeInv'
  BY <1>2, InsertType, ResourceType, UpdateType, RoleType, RowType, ReadType,
     ApplyType DEF Step
<1>3. ASSUME NEW t \in Threads, Fault(t) PROVE TypeInv'
  BY <1>3, ResourceType, RoleType, ApplyType DEF Fault
<1> QED BY <1>1, <1>2, <1>3, WorldType DEF Next, Rest

\* Every variable stays within its type, and every request under way knows the
\* user it acts for and, past its first step, the stream it acts on.
THEOREM TypeCorrect == Spec => []TypeOK
<1>1. TypeInv => TypeOK
  BY DEF TypeInv
<1> QED BY <1>1, InitTypeInv, NextTypeInv, PTL DEF Spec

-----------------------------------------------------------------------------
(* The argument for RoutedOnlyIfGranted.  The routes that reach the leader *)
(* are followed back to the requests: what a request has resolved and not  *)
(* yet inserted, the rows, the routes a reapply has generated, the version *)
(* a rollback would return to, and what the leader holds.  Legitimacy,     *)
(* once won, is never lost: history only grows and owners do not change.   *)

OwnerInv == \A s \in StreamId : streams[s].status = "absent" => streams[s].owner = None

Grown ==
    /\ seen \subseteq seen' /\ approvals \subseteq approvals'
    /\ listed \subseteq listed'
    /\ \A s \in StreamId :
         streams[s].owner = None \/ streams'[s].owner = streams[s].owner

\* User u may ask for the source of p, by a listing the catalog has given.
Askable(u, p) ==
    /\ InScope(u, p[2])
    /\ <<p[2], p[3]>> \in listed /\ p[3] # "unlisted"

\* ... and has asked for it on stream s.
Asked(s, u, p) == s \in StreamId /\ MayAct(u, s) /\ <<s, u, p[2], p[3]>> \in seen

TodoOK(r) ==
    /\ r.pc = "approved" => r.todo = {}
    /\ r.todo # {} =>
         /\ r.user \in Users
         /\ \A p \in r.todo :
              Askable(r.user, p) /\ (r.pc \notin NoSid => Asked(r.sid, r.user, p))

GrantReq(r) == TodoOK(r) /\ \A x \in r.want : Legit(x)

GrantRow(m) ==
    /\ MayAct(m.by, m.sid) /\ InScope(m.by, m.src)
    /\ m.status = "pending_approval" => <<m.sid, m.by, m.src, "sensitive">> \in seen
    /\ m.status = "active" =>
         \/ <<m.sid, m.by, m.src, "standard">> \in seen /\ <<m.src, "standard">> \in listed
         \/ /\ <<m.sid, m.by, m.src, "sensitive">> \in seen
            /\ <<m.sid, m.src>> \in approvals

\* The leader, the workers or some call of apply still has route x.
Held(x) ==
    \/ x \in table \cup deployed \cup running
    \/ \E t \in Threads :
         \/ x \in jobs[t].want \cup jobs[t].commit
         \/ \E c \in jobs[t].prev : x \in c

GrantReqs == \A t \in Threads : GrantReq(req[t])
GrantRows == \A m \in members : GrantRow(m)
GrantHeld == \A x \in Routes : Held(x) => Legit(x)

GrantInv == TypeInv /\ OwnerInv /\ GrantReqs /\ GrantRows /\ GrantHeld

LEMMA LegitGrown ==
    ASSUME Grown, NEW x \in Routes, Legit(x) PROVE Legit(x)'
  BY BoundAssumption DEF Grown, Routes, Legit, Granted, MayAct, InScope

LEMMA MayActGrown ==
    ASSUME Grown, NEW s \in StreamId, NEW u \in Users, MayAct(u, s)
    PROVE MayAct(u, s)'
  BY BoundAssumption DEF Grown, MayAct

\* A request goes on with nothing new to insert, and routes it may generate.
Frame(r, q) ==
    /\ \A x \in q.want : x \in r.want \/ (x \in Routes /\ Legit(x))
    /\ \/ q.todo = {}
       \/ /\ q.todo \subseteq r.todo /\ q.user = r.user /\ q.sid = r.sid
          /\ q.pc = r.pc \/ (r.pc \notin NoSid /\ q.pc # "approved")

Frames == \A o \in Threads : Frame(req[o], req'[o])

LEMMA FrameKeeps ==
    ASSUME TypeInv, Grown, NEW r \in GoodRequest, NEW q, GrantReq(r), Frame(r, q)
    PROVE GrantReq(q)'
<1>1. \A x \in q.want : Legit(x)'
  BY LegitGrown DEF Frame, GrantReq, GoodRequest, Request
<1>2. (q.pc = "approved" => q.todo = {})
  BY DEF Frame, GrantReq, TodoOK
<1>3. ASSUME q.todo # {}
      PROVE /\ q.user \in Users
            /\ \A p \in q.todo :
                 /\ Askable(q.user, p)'
                 /\ q.pc \notin NoSid => Asked(q.sid, q.user, p)'
  <2>1. /\ q.todo \subseteq r.todo /\ q.user = r.user /\ q.sid = r.sid
        /\ q.pc = r.pc \/ r.pc \notin NoSid
    BY <1>3 DEF Frame
  <2>2. q.user \in Users /\ \A p \in q.todo : Askable(q.user, p)
    BY <1>3, <2>1 DEF GrantReq, TodoOK
  <2>3. ASSUME q.pc \notin NoSid, NEW p \in q.todo
        PROVE Asked(q.sid, q.user, p)'
    <3>1. Asked(q.sid, q.user, p)
      BY <1>3, <2>1, <2>3 DEF GrantReq, TodoOK
    <3>2. MayAct(q.user, q.sid)'
      BY <2>2, <3>1, MayActGrown DEF Asked
    <3> QED BY <3>1, <3>2 DEF Asked, Grown
  <2> QED BY <2>2, <2>3 DEF Askable, InScope, Grown
<1> QED BY <1>1, <1>2, <1>3 DEF GrantReq, TodoOK

LEMMA FramesKeep ==
    ASSUME TypeInv, Grown, GrantReqs, Frames PROVE GrantReqs'
<1> SUFFICES ASSUME NEW t \in Threads PROVE GrantReq(req[t])'
  BY DEF GrantReqs
<1>1. PICK q : q = req'[t]
  OBVIOUS
<1>2. GrantReq(q)'
  BY <1>1, FrameKeeps DEF Frames, GrantReqs, TypeInv
<1> QED BY <1>1, <1>2 DEF GrantReq, TodoOK, Askable, Asked, MayAct, InScope

LEMMA RowKeeps ==
    ASSUME TypeInv, Grown, NEW m \in Row, GrantRow(m) PROVE GrantRow(m)'
<1>1. MayAct(m.by, m.sid)'
  BY MayActGrown DEF GrantRow, Row
<1> QED BY <1>1 DEF GrantRow, Grown, InScope

LEMMA RowsKeep ==
    ASSUME TypeInv, Grown, GrantRows,
           \A m \in members' : m \in members \/ GrantRow(m)'
    PROVE GrantRows'
  BY RowKeeps DEF GrantRows, TypeInv, TypeOK

LEMMA HeldKeeps ==
    ASSUME Grown, GrantHeld, \A x \in Routes : Held(x)' => Held(x)
    PROVE GrantHeld'
  BY LegitGrown DEF GrantHeld

-----------------------------------------------------------------------------
(* History grows. *)

\* What the first step of a request leaves alone.
LEMMA StartLeaves ==
    ASSUME NEW t \in Threads, Start(t)
    PROVE /\ UNCHANGED <<streams, lastRow, worldVars, up, pipeVars>>
          /\ seen' = seen \/ \E more : seen' = seen \cup more
          /\ approvals' = approvals \/ \E more : approvals' = approvals \cup more
          /\ \E op, q : Accept(t, op, q)
          /\ \/ UNCHANGED members
             \/ \E u \in Users, m \in members : StartApprove(t, u, m) \/ Reject(t, u, m)
<1>1. ASSUME NEW u \in Users, NEW l \in FqnLists, NEW tree \in Cat!Answers,
             \/ \E n \in Names, ty \in Types : StartCreate(t, u, n, ty, l, tree)
             \/ \E s \in StreamId : StartAdd(t, u, s, l, tree)
      PROVE /\ UNCHANGED <<dbVars, worldVars, up, approvals, pipeVars>>
            /\ seen' = seen \/ \E more : seen' = seen \cup more
            /\ \E op, q : Accept(t, op, q)
  BY <1>1 DEF StartCreate, StartAdd, ghostVars
<1>2. ASSUME NEW u \in Users, NEW s \in StreamId,
             StartRemove(t, u, s) \/ StartDelete(t, u, s) \/ StartRetry(t, u, s)
      PROVE /\ UNCHANGED <<dbVars, worldVars, up, ghostVars, pipeVars>>
            /\ \E op, q : Accept(t, op, q)
  BY <1>2 DEF StartRemove, StartDelete, StartRetry, StartOn
<1>3. ASSUME NEW u \in Users, NEW m \in members, StartApprove(t, u, m) \/ Reject(t, u, m)
      PROVE /\ UNCHANGED <<streams, lastRow, worldVars, up, seen, pipeVars>>
            /\ approvals' = approvals \/ approvals' = approvals \cup {<<m.sid, m.src>>}
            /\ \E op, q : Accept(t, op, q)
  BY <1>3 DEF StartApprove, Reject, ghostVars
<1>4. \/ \E u \in Users, l \in FqnLists, tree \in Cat!Answers :
            \/ \E n \in Names, ty \in Types : StartCreate(t, u, n, ty, l, tree)
            \/ \E s \in StreamId : StartAdd(t, u, s, l, tree)
      \/ \E u \in Users, s \in StreamId :
            StartRemove(t, u, s) \/ StartDelete(t, u, s) \/ StartRetry(t, u, s)
      \/ \E u \in Users, m \in members : StartApprove(t, u, m) \/ Reject(t, u, m)
  BY DEF Start
<1>5. CASE \E u \in Users, l \in FqnLists, tree \in Cat!Answers :
            \/ \E n \in Names, ty \in Types : StartCreate(t, u, n, ty, l, tree)
            \/ \E s \in StreamId : StartAdd(t, u, s, l, tree)
  BY <1>1, <1>5 DEF dbVars
<1>6. CASE \E u \in Users, s \in StreamId :
            StartRemove(t, u, s) \/ StartDelete(t, u, s) \/ StartRetry(t, u, s)
  BY <1>2, <1>6 DEF dbVars, ghostVars
<1>7. CASE \E u \in Users, m \in members : StartApprove(t, u, m) \/ Reject(t, u, m)
  <2>1. PICK u \in Users, m \in members : StartApprove(t, u, m) \/ Reject(t, u, m)
    BY <1>7
  <2> QED BY <1>3, <2>1
<1> QED BY <1>4, <1>5, <1>6, <1>7

LEMMA NextGrown ==
    ASSUME TypeInv, OwnerInv, [Next]_vars PROVE Grown /\ OwnerInv'
<1>1. ASSUME NEW t \in Threads, Start(t) PROVE Grown /\ OwnerInv'
  BY <1>1, StartLeaves DEF Grown, OwnerInv, worldVars
<1>2. ASSUME NEW t \in Threads, Step(t) PROVE Grown /\ OwnerInv'
  <2>1. CASE Insert(t)
    <3>0. seen \subseteq seen' /\ UNCHANGED <<approvals, listed>>
      BY <2>1 DEF Insert, worldVars
    <3>1. CASE UNCHANGED streams
      BY <3>0, <3>1 DEF Grown, OwnerInv
    <3>2. ASSUME NEW s \in StreamId, NEW r, streams[s].status = "absent",
                 r.status = "provisioning", streams' = [streams EXCEPT ![s] = r]
          PROVE Grown /\ OwnerInv'
      BY <3>0, <3>2 DEF Grown, OwnerInv, TypeInv, TypeOK
    <3>3. [NoStream EXCEPT !.status = "provisioning", !.owner = req[t].user,
             !.name = req[t].name, !.type = req[t].type].status = "provisioning"
      BY DEF NoStream
    <3> QED BY <2>1, <3>1, <3>2, <3>3 DEF Insert
  <2>2. CASE \/ FlagError(t) \/ GoLive(t) \/ Relive(t) \/ Record(t) \/ MarkDeleted(t)
             \/ FlagApply(t) \/ NoteRole(t) \/ NoteResource(t)
    <3>1. UNCHANGED <<seen, approvals, listed>>
      BY <2>2 DEF FlagError, GoLive, Relive, Record, MarkDeleted, FlagApply,
         NoteRole, NoteResource, worldVars, ghostVars
    <3>2. streams \in [StreamId -> Stream]
      BY DEF TypeInv, TypeOK
    <3>4. ASSUME NEW s \in StreamId
          PROVE /\ streams'[s].owner = streams[s].owner
                /\ streams'[s].status = "absent" => streams[s].status = "absent"
      <4>1. CASE FlagError(t)
        BY <3>2, <4>1 DEF FlagError, Stream
      <4>2. CASE GoLive(t)
        BY <3>2, <4>2 DEF GoLive, Stream
      <4>3. CASE Relive(t)
        BY <3>2, <4>3 DEF Relive, Stream
      <4>4. CASE Record(t)
        BY <3>2, <4>4 DEF Record, Stream
      <4>5. CASE MarkDeleted(t)
        BY <3>2, <4>5 DEF MarkDeleted, Stream
      <4>6. CASE SetErr(t)
        BY <3>2, <4>6 DEF SetErr, Stream
      <4> QED BY <2>2, <4>1, <4>2, <4>3, <4>4, <4>5, <4>6
              DEF FlagApply, NoteRole, NoteResource
    <3> QED BY <3>1, <3>4 DEF Grown, OwnerInv
  <2>3. CASE UNCHANGED <<streams, listed, ghostVars>>
    BY <2>3 DEF Grown, OwnerInv, ghostVars
  <2> QED BY <1>2, <2>1, <2>2, <2>3
     DEF Step, Provision, ProvisionInUse, Mint, PutPolicy, InsertMember, Remove,
     Reread, ApproveLookup, ReadLive, Collect, ApplyBegin, ApplyStep,
     ApplyDisturbed, ApplyReturns, DelPolicy, DelRole, DelResource, dbVars, worldVars
<1>3. ASSUME NEW t \in Threads, Fault(t) PROVE Grown /\ OwnerInv'
  BY <1>3 DEF Fault, ProvisionFails, MintFails, ApplyBeginFails, ApplyFails,
     DelRoleFails, DelResourceFails, dbVars, worldVars, ghostVars, Grown, OwnerInv
<1>4. ASSUME NEW t \in Threads, Startup(t) PROVE Grown /\ OwnerInv'
  BY <1>4 DEF Startup, dbVars, worldVars, ghostVars, Grown, OwnerInv
<1>5. CASE Crash \/ WorkersFetch \/ UNCHANGED vars
  BY <1>5 DEF Crash, WorkersFetch, vars, dbVars, worldVars, ghostVars, Grown, OwnerInv
<1>6. ASSUME NEW src \in Sources, NEW k \in Listing, Reclassify(src, k)
      PROVE Grown /\ OwnerInv'
  BY <1>6 DEF Reclassify, Cat!List, dbVars, ghostVars, Grown, OwnerInv
<1> QED BY <1>1, <1>2, <1>3, <1>4, <1>5, <1>6 DEF Next, Rest

-----------------------------------------------------------------------------
(* The requests keep only what was granted. *)

LEMMA MoveFrames ==
    ASSUME TypeInv, NEW t \in Threads, NEW r, req' = [req EXCEPT ![t] = r],
           Frame(req[t], r)
    PROVE Frames
  BY DEF Frames, Frame, TypeInv, TypeOK

LEMMA FinishFrames == ASSUME TypeInv, NEW t \in Threads, Finish(t) PROVE Frames
<1>1. Frame(req[t], Idle)
  BY DEF Frame, Idle
<1> QED BY <1>1, MoveFrames DEF Finish

LEMMA GotoFrames ==
    ASSUME TypeInv, NEW t \in Threads, NEW pc, Goto(t, pc), pc # "approved",
           req[t].pc \notin NoSid
    PROVE Frames
<1>1. Frame(req[t], [req[t] EXCEPT !.pc = pc])
  BY GoodIsRequest DEF Frame, Request
<1> QED BY <1>1, MoveFrames DEF Goto

LEMMA AfterRoleFrames ==
    ASSUME TypeInv, NEW t \in Threads, NEW noted, AfterRole(t, noted),
           req[t].pc \notin NoSid
    PROVE Frames
<1>1. Frame(req[t], [req[t] EXCEPT !.pc = "delresource", !.noted = noted])
  BY GoodIsRequest DEF Frame, Request
<1> QED BY <1>1, MoveFrames, FinishFrames DEF AfterRole

LEMMA FaultFrames ==
    ASSUME TypeInv, NEW t \in Threads, NEW pc, FaultTo(t, pc), pc # "approved",
           req[t].pc \notin NoSid
    PROVE Frames
  BY GotoFrames DEF FaultTo

LEMMA AcceptFrames ==
    ASSUME TypeInv, NEW t \in Threads, NEW op, NEW r, Accept(t, op, r),
           r.todo = {}, r.want = {}
    PROVE Frames
<1>1. Frame(req[t], r)
  BY DEF Frame
<1>2. ASSUME NEW o \in Threads
      PROVE Frame(req[o], [req[o] EXCEPT !.solo = FALSE])
  BY GoodIsRequest DEF Frame, Request
<1> QED BY <1>1, <1>2 DEF Accept, Frames

LEMMA ActiveLegit ==
    ASSUME TypeInv, GrantRows, NEW s \in StreamId, NEW x \in ActiveRoutes(s)
    PROVE x \in Routes /\ Legit(x)
<1>1. PICK m \in members : /\ m.sid = s /\ m.status = "active"
                            /\ x = <<s, IdentityOf[m.src]>>
  BY DEF ActiveRoutes
<1>2. m \in Row /\ GrantRow(m)
  BY DEF GrantRows, TypeInv, TypeOK
<1>3. Granted(s, m.src) /\ m.src \in Sources
  BY <1>1, <1>2 DEF GrantRow, Row, Granted
<1> QED BY <1>1, <1>3, SourceAssumption DEF Legit, Routes

LEMMA StepFrames ==
    ASSUME TypeInv, GrantReqs, GrantRows, NEW t \in Threads, Step(t), ~Insert(t)
    PROVE Frames
<1>0. req[t] \in Request /\ Actor(req[t]) /\ GrantReq(req[t])
  BY GoodIsRequest DEF GrantReqs
<1>1. CASE ApproveLookup(t)
  <2>1. ASSUME NEW m \in members,
               req' = [req EXCEPT ![t].pc = "reapply", ![t].sid = m.sid]
        PROVE Frames
    <3>1. Frame(req[t], [req[t] EXCEPT !.pc = "reapply", !.sid = m.sid])
      BY <1>0, <1>1 DEF ApproveLookup, At, Frame, Request, GrantReq, TodoOK
    <3> QED BY <2>1, <3>1, MoveFrames
  <2> QED BY <1>1, <2>1, FinishFrames DEF ApproveLookup
<1> DEFINE Ends == \/ Finish(t)
                   \/ req[t].pc \notin NoSid /\ \E pc \in Pc \ NoSid : Goto(t, pc)
<1>2. ASSUME Ends PROVE Frames
  BY <1>2, FinishFrames, GotoFrames DEF NoSid
<1> HIDE DEF Ends
<1>3. CASE \/ Provision(t) \/ ProvisionInUse(t) \/ FlagError(t) \/ GoLive(t)
           \/ Mint(t) \/ PutPolicy(t) \/ Record(t)
  <2>1. Ends
    BY <1>3 DEF Ends, Provision, ProvisionInUse, FlagError, GoLive, Mint, PutPolicy,
       Record, At, Pc, NoSid
  <2> QED BY <1>2, <2>1
<1>4. CASE \/ Remove(t) \/ MarkDeleted(t) \/ Relive(t) \/ Reread(t)
           \/ ApplyBegin(t) \/ ApplyReturns(t) \/ FlagApply(t)
           \/ DelPolicy(t) \/ DelRole(t) \/ NoteRole(t) \/ DelResource(t)
           \/ NoteResource(t)
  <2>1. Ends \/ (req[t].pc \notin NoSid /\ \E noted \in BOOLEAN : AfterRole(t, noted))
    BY <1>4 DEF Ends, Remove, MarkDeleted, Relive, Reread, ApplyBegin, ApplyReturns,
       FlagApply, DelPolicy, DelRole, NoteRole, DelResource, NoteResource, At, Pc, NoSid
  <2> QED BY <1>2, <2>1, AfterRoleFrames
<1>5. CASE InsertMember(t)
  <2>1. ASSUME NEW p \in req[t].todo,
               req' = [req EXCEPT ![t].todo = @ \ {p},
                      ![t].pc = IF req[t].todo = {p} THEN "reapply" ELSE "members"]
        PROVE Frames
    <3> DEFINE r == [req[t] EXCEPT !.todo = @ \ {p},
                        !.pc = IF req[t].todo = {p} THEN "reapply" ELSE "members"]
    <3>1. Frame(req[t], r)
      BY <1>0, <1>5 DEF InsertMember, At, Frame, Request, NoSid
    <3>2. req' = [req EXCEPT ![t] = r]
      BY <2>1
    <3> HIDE DEF r
    <3> QED BY <3>1, <3>2, MoveFrames
  <2> QED BY <1>5, <2>1, FinishFrames DEF InsertMember
<1>6. CASE ReadLive(t)
  <2> DEFINE r == [req[t] EXCEPT !.live = LiveStreams, !.want = {},
                      !.solo = \A o \in Threads \ {t} : At(o, "idle"),
                      !.pc = IF LiveStreams = {} THEN "apply" ELSE "collect"]
  <2>1. Frame(req[t], r)
    BY <1>0, <1>6 DEF ReadLive, At, Frame, Request, NoSid
  <2>2. req' = [req EXCEPT ![t] = r]
    BY <1>6 DEF ReadLive
  <2> HIDE DEF r
  <2> QED BY <2>1, <2>2, MoveFrames
<1>7. CASE Collect(t)
  <2>1. ASSUME AfterValueError(t) PROVE Frames
    <3>1. Ends
      BY <1>7, <2>1 DEF Ends, Collect, AfterValueError, At, NoSid, Pc
    <3> QED BY <1>2, <3>1
  <2>2. ASSUME NEW s \in req[t].live,
               req' = [req EXCEPT ![t].live = @ \ {s},
                              ![t].want = @ \cup ActiveRoutes(s),
                              ![t].pc = IF req[t].live = {s} THEN "apply"
                                        ELSE "collect"]
        PROVE Frames
    <3> DEFINE r == [req[t] EXCEPT !.live = @ \ {s}, !.want = @ \cup ActiveRoutes(s),
                        !.pc = IF req[t].live = {s} THEN "apply" ELSE "collect"]
    <3>1. s \in StreamId
      BY <1>0 DEF Request
    <3>2. /\ r.todo = req[t].todo /\ r.user = req[t].user /\ r.sid = req[t].sid
          /\ r.pc \in {"apply", "collect"}
          /\ r.want = req[t].want \cup ActiveRoutes(s)
      BY <1>0 DEF Request
    <3>3. req' = [req EXCEPT ![t] = r]
      BY <2>2
    <3> HIDE DEF r
    <3>4. Frame(req[t], r)
      BY <1>7, <3>1, <3>2, ActiveLegit DEF Collect, At, Frame, NoSid
    <3> QED BY <3>3, <3>4, MoveFrames
  <2> QED BY <1>7, <2>1, <2>2 DEF Collect
<1>8. CASE ApplyDisturbed(t)
  BY <1>8 DEF ApplyDisturbed, Frames, Frame
<1>9. CASE ApplyStep(t)
  BY <1>9 DEF ApplyStep, Frames, Frame
<1> QED BY <1>1, <1>3, <1>4, <1>5, <1>6, <1>7, <1>8, <1>9 DEF Step

LEMMA ResolveGrants ==
    ASSUME Grown, NEW u \in Users, NEW l \in FqnLists, NEW tree \in Cat!Answers,
           ResolveOK(u, l, tree), NEW p \in Resolve(l, tree)
    PROVE Askable(u, p)'
<1>1. PICK i \in DOMAIN l : p = <<i, l[i], tree[l[i]]>>
  BY DEF Resolve
<1>2. l[i] \in Sources
  BY SourceAssumption
<1>3. <<l[i], tree[l[i]]>> \in listed
  BY <1>2 DEF Cat!Answers
<1>4. p[2] = l[i] /\ p[3] = tree[l[i]]
  BY <1>1
<1> QED BY <1>3, <1>4 DEF ResolveOK, Grown, Askable, InScope

LEMMA SeenForGrants ==
    ASSUME NEW s \in StreamId, NEW u \in Users, NEW resolved, MayAct(u, s)',
           SeenFor(s, u, resolved) \subseteq seen', NEW p \in resolved
    PROVE Asked(s, u, p)'
  BY DEF SeenFor, Asked

\* A request that starts with sources to insert, or gets its stream's id.
LEMMA NewGrant ==
    ASSUME TypeInv, Grown, GrantReqs, NEW t \in Threads, NEW r,
           r.want = {}, r.pc # "approved", r.user \in Users,
           \A p \in r.todo : /\ Askable(r.user, p)'
                             /\ r.pc \notin NoSid => Asked(r.sid, r.user, p)',
           req'[t] = r,
           \A o \in Threads \ {t} : Frame(req[o], req'[o])
    PROVE GrantReqs'
<1>3. TodoOK(r)'
  BY DEF TodoOK, Askable, Asked, MayAct, InScope
<1>1. GrantReq(r)'
  BY <1>3 DEF GrantReq
<1>2. ASSUME NEW o \in Threads PROVE GrantReq(req[o])'
  <2>1. PICK q : q = req'[o]
    OBVIOUS
  <2>2. GrantReq(q)'
    BY <1>1, <2>1, FrameKeeps DEF GrantReqs, TypeInv
  <2> QED BY <2>1, <2>2 DEF GrantReq, TodoOK, Askable, Asked, MayAct, InScope
<1> QED BY <1>2 DEF GrantReqs

LEMMA AcceptOthers ==
    ASSUME TypeInv, NEW t \in Threads, NEW op, NEW r, Accept(t, op, r)
    PROVE req'[t] = r /\ \A o \in Threads \ {t} : Frame(req[o], req'[o])
<1>1. ASSUME NEW o \in Threads
      PROVE Frame(req[o], [req[o] EXCEPT !.solo = FALSE])
  BY GoodIsRequest DEF Frame, Request
<1> QED BY <1>1 DEF Accept

LEMMA StartGrants ==
    ASSUME TypeInv, Grown, GrantReqs, NEW t \in Threads, Start(t)
    PROVE GrantReqs'
<1>1. ASSUME NEW u \in Users, NEW n \in Names, NEW ty \in Types,
             NEW l \in FqnLists, NEW tree \in Cat!Answers,
             StartCreate(t, u, n, ty, l, tree)
      PROVE GrantReqs'
  <2> DEFINE r == [Idle EXCEPT !.pc = "insert", !.op = "create", !.user = u,
                               !.name = n, !.type = ty, !.todo = Resolve(l, tree)]
  <2>1. /\ r.want = {} /\ r.pc = "insert" /\ r.user = u
        /\ r.todo = Resolve(l, tree)
    BY DEF Idle
  <2>2. Accept(t, "create", r) /\ ResolveOK(u, l, tree)
    BY <1>1 DEF StartCreate
  <2> HIDE DEF r
  <2>3. req'[t] = r /\ \A o \in Threads \ {t} : Frame(req[o], req'[o])
    BY <2>2, AcceptOthers
  <2>4. ASSUME NEW p \in r.todo PROVE Askable(r.user, p)'
    <3>1. Askable(u, p)'
      BY <2>1, <2>2, ResolveGrants
    <3> QED BY <2>1, <3>1 DEF Askable, InScope
  <2> QED BY <2>1, <2>3, <2>4, NewGrant DEF NoSid
<1>2. ASSUME NEW u \in Users, NEW s \in StreamId, NEW l \in FqnLists,
             NEW tree \in Cat!Answers, StartAdd(t, u, s, l, tree)
      PROVE GrantReqs'
  <2>0. PICK r : r = [Idle EXCEPT !.pc = "members", !.op = "add", !.user = u,
                                  !.sid = s, !.todo = Fresh(s, l, tree)]
    OBVIOUS
  <2>1. /\ r.want = {} /\ r.pc = "members" /\ r.user = u /\ r.sid = s
        /\ r.todo \subseteq Resolve(l, tree)
    BY <2>0 DEF Idle, Fresh
  <2>2. /\ Accept(t, "add", r) /\ ResolveOK(u, l, tree)
        /\ SeenFor(s, u, Resolve(l, tree)) \subseteq seen'
        /\ MayAct(u, s)
    BY <1>2, <2>0 DEF StartAdd
  <2>3. req'[t] = r /\ \A o \in Threads \ {t} : Frame(req[o], req'[o])
    BY <2>2, AcceptOthers
  <2>4. ASSUME NEW p \in r.todo
        PROVE Askable(r.user, p)' /\ Asked(r.sid, r.user, p)'
    <3>1. Askable(u, p)'
      BY <2>1, <2>2, ResolveGrants
    <3>2. MayAct(u, s)'
      BY <2>2, MayActGrown
    <3>3. Asked(s, u, p)'
      BY <2>1, <2>2, <3>2, SeenForGrants
    <3> QED BY <2>1, <3>1, <3>3 DEF Askable, Asked, InScope, MayAct
  <2> QED BY <2>1, <2>3, <2>4, NewGrant
<1>3. ASSUME NEW u \in Users, NEW s \in StreamId,
             StartRemove(t, u, s) \/ StartDelete(t, u, s) \/ StartRetry(t, u, s)
      PROVE GrantReqs'
  <2>1. PICK op, pc : StartOn(t, op, pc, u, s)
    BY <1>3 DEF StartRemove, StartDelete, StartRetry
  <2> DEFINE r == [Idle EXCEPT !.pc = pc, !.op = op, !.user = u, !.sid = s,
                               !.ref = streams[s].ref]
  <2>2. r.todo = {} /\ r.want = {} /\ Accept(t, op, r)
    BY <2>1 DEF StartOn, Idle
  <2> HIDE DEF r
  <2> QED BY <2>2, AcceptFrames, FramesKeep
<1>4. ASSUME NEW u \in Users, NEW m \in members, StartApprove(t, u, m) \/ Reject(t, u, m)
      PROVE GrantReqs'
  <2> DEFINE r == [Idle EXCEPT !.pc = "approved", !.op = "approve", !.user = u,
                               !.row = m.id]
  <2>1. /\ Accept(t, "approve", r) \/ Accept(t, "approve", Idle)
        /\ r.todo = {} /\ r.want = {} /\ Idle.todo = {} /\ Idle.want = {}
    BY <1>4 DEF StartApprove, Reject, Idle
  <2> HIDE DEF r
  <2> QED BY <2>1, AcceptFrames, FramesKeep
<1> QED BY <1>1, <1>2, <1>3, <1>4 DEF Start

LEMMA InsertGrants ==
    ASSUME TypeInv, Grown, GrantReqs, NEW t \in Threads, Insert(t)
    PROVE GrantReqs'
<1>1. CASE Finish(t)
  BY <1>1, FinishFrames, FramesKeep
<1>2. ASSUME NEW s \in StreamId, streams'[s].owner = req[t].user,
             SeenFor(s, req[t].user, req[t].todo) \subseteq seen',
             req' = [req EXCEPT ![t].pc = "provision", ![t].sid = s]
      PROVE GrantReqs'
  <2>0. PICK r : r = [req[t] EXCEPT !.pc = "provision", !.sid = s]
    OBVIOUS
  <2>1. /\ req[t] \in Request /\ Actor(req[t]) /\ GrantReq(req[t])
        /\ req[t].user \in Users /\ req[t].want \subseteq Routes
    BY GoodIsRequest DEF Insert, At, Actor, Request, AllOps, ResyncPc, GrantReqs
  <2>2. /\ r.want = req[t].want /\ r.pc = "provision" /\ r.user = req[t].user
        /\ r.todo = req[t].todo /\ r.sid = s
    BY <2>0, <2>1 DEF Request
  <2>3. req'[t] = r /\ \A o \in Threads \ {t} : Frame(req[o], req'[o])
    BY <1>2, <2>0 DEF Frame, TypeInv, TypeOK
  <2>4. \A x \in r.want : Legit(x)'
    BY <2>1, <2>2, LegitGrown DEF GrantReq
  <2>5. ASSUME NEW p \in r.todo
        PROVE Askable(r.user, p)' /\ Asked(r.sid, r.user, p)'
    <3>1. Askable(req[t].user, p)
      BY <2>1, <2>2 DEF GrantReq, TodoOK
    <3>2. PICK u \in Users : u = req[t].user
      BY <2>1
    <3>3. MayAct(u, s)'
      BY <1>2, <3>2 DEF MayAct
    <3>4. Asked(s, u, p)'
      BY <1>2, <2>2, <3>2, <3>3, SeenForGrants
    <3> QED BY <2>2, <3>1, <3>2, <3>4 DEF Askable, Asked, MayAct, InScope, Grown
  <2>6. GrantReq(r)'
    BY <1>2, <2>1, <2>2, <2>4, <2>5 DEF GrantReq, TodoOK, MayAct
  <2>7. ASSUME NEW o \in Threads PROVE GrantReq(req[o])'
    <3>1. PICK q : q = req'[o]
      OBVIOUS
    <3>2. GrantReq(q)'
      <4>1. CASE o = t
        BY <2>3, <2>6, <3>1, <4>1 DEF GrantReq, TodoOK, Askable, Asked, MayAct, InScope
      <4>2. CASE o # t
        BY <2>3, <3>1, <4>2, FrameKeeps DEF GrantReqs, TypeInv
      <4> QED BY <4>1, <4>2
    <3> QED BY <3>1, <3>2 DEF GrantReq, TodoOK, Askable, Asked, MayAct, InScope
  <2> QED BY <2>7 DEF GrantReqs
<1>3. ASSUME NEW s \in StreamId,
             streams' = [streams EXCEPT ![s] =
                   [NoStream EXCEPT !.status = "provisioning",
                      !.owner = req[t].user, !.name = req[t].name,
                      !.type = req[t].type]]
      PROVE streams'[s].owner = req[t].user
  BY <1>3 DEF NoStream, TypeInv, TypeOK
<1> QED BY <1>1, <1>2, <1>3 DEF Insert

LEMMA NextReqs ==
    ASSUME TypeInv, Grown, GrantReqs, GrantRows, [Next]_vars PROVE GrantReqs'
<1>1. ASSUME NEW t \in Threads, Step(t) PROVE GrantReqs'
  BY <1>1, StepFrames, InsertGrants, FramesKeep
<1>2. ASSUME NEW t \in Threads, Fault(t) PROVE GrantReqs'
  <2>1. /\ req[t].pc \notin NoSid
        /\ \E pc \in {"flag", "applying", "noterole", "noteresource"} : FaultTo(t, pc)
    BY <1>2 DEF Fault, ProvisionFails, MintFails, ApplyBeginFails, ApplyFails,
       DelRoleFails, DelResourceFails, At, NoSid
  <2> QED BY <2>1, FaultFrames, FramesKeep
<1>3. ASSUME NEW t \in Threads, Startup(t) PROVE GrantReqs'
  <2>1. Frame(req[t], [Idle EXCEPT !.pc = "reapply", !.op = "startup"])
    BY DEF Frame, Idle
  <2> QED BY <1>3, <2>1, MoveFrames, FramesKeep DEF Startup
<1>4. CASE Crash
  BY <1>4, FramesKeep DEF Crash, Frames, Frame, Idle
<1>5. CASE UNCHANGED req
  BY <1>5, FramesKeep DEF Frames, Frame
<1> QED BY <1>1, <1>2, <1>3, <1>4, <1>5, StartGrants
        DEF Next, Rest, WorkersFetch, Reclassify, vars

-----------------------------------------------------------------------------
(* The rows: the sensitivity gate, and the approval of a pending row. *)

LEMMA InsertMemberGrants ==
    ASSUME TypeInv, Grown, GrantReqs, GrantRows, NEW t \in Threads, InsertMember(t)
    PROVE GrantRows'
<1>1. /\ req[t] \in Request /\ Actor(req[t]) /\ GrantReq(req[t])
      /\ req[t].pc = "members" /\ req[t].pc \notin NoSid
  BY GoodIsRequest DEF GrantReqs, InsertMember, At, NoSid
<1>2. ASSUME NEW p \in req[t].todo, NEW m,
             m = [id |-> lastRow + 1, sid |-> Sid(t), src |-> p[2],
                  status |-> GateStatus(p[3]), by |-> req[t].user]
      PROVE GrantRow(m)'
  <2>1. /\ m.by \in Users /\ m.sid \in StreamId /\ MayAct(m.by, m.sid)
        /\ InScope(m.by, m.src) /\ <<m.sid, m.by, m.src, p[3]>> \in seen
        /\ <<m.src, p[3]>> \in listed /\ p[3] \in {"standard", "sensitive"}
    BY <1>1, <1>2 DEF GrantReq, TodoOK, Askable, Asked, Sid, Request, Resolved, Listing
  <2>2. /\ MayAct(m.by, m.sid)' /\ <<m.sid, m.by, m.src, p[3]>> \in seen'
        /\ <<m.src, p[3]>> \in listed'
    BY <2>1, MayActGrown DEF Grown
  <2>3. /\ m.status = "pending_approval" => p[3] = "sensitive"
        /\ m.status = "active" => p[3] = "standard"
    BY <1>2, <2>1 DEF GateStatus
  <2> QED BY <2>1, <2>2, <2>3 DEF GrantRow, InScope
<1>3. \/ members' = members
      \/ \E p \in req[t].todo : members' = members \cup
           {[id |-> lastRow + 1, sid |-> Sid(t), src |-> p[2],
             status |-> GateStatus(p[3]), by |-> req[t].user]}
  BY DEF InsertMember
<1> QED BY <1>2, <1>3, RowsKeep

LEMMA DecideGrants ==
    ASSUME TypeInv, Grown, GrantRows, NEW t \in Threads, NEW u \in Users,
           NEW m \in members, StartApprove(t, u, m) \/ Reject(t, u, m)
    PROVE GrantRows'
<1>1. m \in Row /\ GrantRow(m) /\ GrantRow(m)' /\ m.status = "pending_approval"
  BY RowKeeps DEF GrantRows, TypeInv, TypeOK, StartApprove, Reject
<1>2. PICK st \in {"active", "rejected"} :
        /\ Decide(m, st)
        /\ st = "active" => <<m.sid, m.src>> \in approvals'
  BY DEF StartApprove, Reject
<1>3. GrantRow([m EXCEPT !.status = st])'
  <2>1. PICK n : n = [m EXCEPT !.status = st]
    OBVIOUS
  <2>2. n.by = m.by /\ n.sid = m.sid /\ n.src = m.src /\ n.status = st
    BY <1>1, <2>1 DEF Row
  <2>3. GrantRow(n)'
    BY <1>1, <1>2, <2>2 DEF GrantRow, MayAct, InScope
  <2> QED BY <2>1, <2>3
<1> QED BY <1>2, <1>3, RowsKeep DEF Decide

LEMMA NextRows ==
    ASSUME TypeInv, Grown, GrantReqs, GrantRows, [Next]_vars PROVE GrantRows'
<1>1. ASSUME NEW t \in Threads, NEW u \in Users, NEW m \in members,
             StartApprove(t, u, m) \/ Reject(t, u, m)
      PROVE GrantRows'
  BY <1>1, DecideGrants
<1>2. ASSUME NEW t \in Threads, InsertMember(t) PROVE GrantRows'
  BY <1>2, InsertMemberGrants
<1>3. ASSUME NEW t \in Threads, Remove(t) PROVE GrantRows'
  BY <1>3, RowsKeep DEF Remove
<1>4. CASE UNCHANGED members
  BY <1>4, RowsKeep
<1>5. ASSUME NEW t \in Threads, Start(t)
      PROVE \/ UNCHANGED members
            \/ \E u \in Users, m \in members : StartApprove(t, u, m) \/ Reject(t, u, m)
  BY <1>5, StartLeaves
<1>6. ASSUME NEW t \in Threads, Step(t)
      PROVE UNCHANGED members \/ InsertMember(t) \/ Remove(t)
  BY <1>6 DEF Step, Insert, Provision, ProvisionInUse, FlagError, GoLive, Mint,
     PutPolicy, Record, MarkDeleted, Relive, Reread, ApproveLookup, ReadLive,
     Collect, ApplyBegin, ApplyStep, ApplyDisturbed, ApplyReturns, FlagApply,
     DelPolicy, DelRole, NoteRole, DelResource, NoteResource, dbVars
<1>7. ASSUME NEW t \in Threads, Fault(t) \/ Startup(t) PROVE UNCHANGED members
  BY <1>7 DEF Fault, ProvisionFails, MintFails, ApplyBeginFails, ApplyFails,
     DelRoleFails, DelResourceFails, Startup, dbVars
<1> QED BY <1>1, <1>2, <1>3, <1>4, <1>5, <1>6, <1>7
        DEF Next, Rest, Crash, WorkersFetch, Reclassify, vars, dbVars

-----------------------------------------------------------------------------
(* The leader: apply only moves routes about, from the request's to its     *)
(* table, a commit, the deployed version, and back to what was `previous`.  *)

LEMMA ApplyMoveHeld ==
    ASSUME Pipe!PipeTypeOK, NEW t \in Threads, ApplyMove(t), NEW x \in Routes,
           Held(x)'
    PROVE Held(x)
<1>1. CASE Pipe!Patch(t) \/ Pipe!Commit(t)
  BY <1>1 DEF Pipe!Patch, Pipe!Commit, Pipe!leaderVars, Held, Pipe!PipeTypeOK, Pipe!Job
<1>2. CASE Pipe!Deploy(t) \/ Pipe!Succeed(t) \/ Pipe!Fail(t)
  BY <1>2 DEF Pipe!Deploy, Pipe!DeployVersion, Pipe!Succeed, Pipe!Fail,
     Pipe!leaderVars, Held, Pipe!PipeTypeOK, Pipe!Job
<1>3. CASE Pipe!Rollback(t, TRUE) \/ Pipe!Rollback(t, FALSE)
  BY <1>3 DEF Pipe!Rollback, Pipe!DeployVersion, Held, Pipe!PipeTypeOK, Pipe!Job
<1> QED BY <1>1, <1>2, <1>3 DEF ApplyMove

LEMMA BeginHeld ==
    ASSUME Pipe!PipeTypeOK, NEW t \in Threads, NEW w, NEW f \in BOOLEAN,
           Pipe!Begin(t, w, f) \/ Pipe!Refuse(t, w), NEW x \in Routes, Held(x)'
    PROVE Held(x) \/ x \in w
  BY DEF Pipe!Begin, Pipe!Refuse, Pipe!leaderVars, Held, Pipe!PipeTypeOK

LEMMA ReturnHeld ==
    ASSUME Pipe!PipeTypeOK, NEW t \in Threads, Pipe!Return(t), NEW x \in Routes,
           Held(x)'
    PROVE Held(x)
  BY DEF Pipe!Return, Pipe!IdleJob, Pipe!leaderVars, Held, Pipe!PipeTypeOK

LEMMA LeaderHeld ==
    ASSUME Pipe!AbortAll \/ Pipe!Fetch \/ UNCHANGED pipeVars, NEW x \in Routes,
           Held(x)'
    PROVE Held(x)
  BY DEF Pipe!AbortAll, Pipe!IdleJob, Pipe!Fetch, Pipe!leaderVars, pipeVars, Held

LEMMA NextHeld ==
    ASSUME TypeInv, Grown, GrantReqs, GrantHeld, [Next]_vars PROVE GrantHeld'
<1>0. Pipe!PipeTypeOK
  BY DEF TypeInv, TypeOK
<1>1. ASSUME NEW t \in Threads, ApplyBegin(t) \/ ApplyBeginFails(t)
      PROVE GrantHeld'
  <2>1. PICK f \in BOOLEAN :
          Pipe!Begin(t, req[t].want, f) \/ Pipe!Refuse(t, req[t].want)
    BY <1>1 DEF ApplyBegin, ApplyBeginFails
  <2>2. \A x \in req[t].want : Legit(x)
    BY DEF GrantReqs, GrantReq
  <2>3. ASSUME NEW x \in Routes, Held(x)' PROVE Legit(x)
    BY <1>0, <2>1, <2>2, <2>3, BeginHeld DEF GrantHeld
  <2> QED BY <2>3, LegitGrown DEF GrantHeld
<1>2. ASSUME NEW t \in Threads, ApplyStep(t) \/ ApplyDisturbed(t) \/ ApplyFails(t)
      PROVE GrantHeld'
  <2>1. ApplyMove(t)
    BY <1>2 DEF ApplyMove, ApplyStep, ApplyDisturbed, ApplyFails
  <2> QED BY <1>0, <2>1, ApplyMoveHeld, HeldKeeps
<1>3. ASSUME NEW t \in Threads, ApplyReturns(t) PROVE GrantHeld'
  BY <1>0, <1>3, ReturnHeld, HeldKeeps DEF ApplyReturns
<1>4. CASE Pipe!AbortAll \/ Pipe!Fetch \/ UNCHANGED pipeVars
  BY <1>4, LeaderHeld, HeldKeeps
<1>5. ASSUME NEW t \in Threads, Start(t) PROVE UNCHANGED pipeVars
  BY <1>5, StartLeaves
<1>6. ASSUME NEW t \in Threads, Step(t)
      PROVE \/ UNCHANGED pipeVars \/ ApplyBegin(t) \/ ApplyStep(t)
            \/ ApplyDisturbed(t) \/ ApplyReturns(t)
  BY <1>6 DEF Step, Insert, Provision, ProvisionInUse, FlagError, GoLive, Mint,
     PutPolicy, Record, InsertMember, Remove, MarkDeleted, Relive, Reread,
     ApproveLookup, ReadLive, Collect, FlagApply, DelPolicy, DelRole, NoteRole,
     DelResource, NoteResource
<1>7. ASSUME NEW t \in Threads, Fault(t)
      PROVE UNCHANGED pipeVars \/ ApplyBeginFails(t) \/ ApplyFails(t)
  BY <1>7 DEF Fault, ProvisionFails, MintFails, DelRoleFails, DelResourceFails
<1> QED BY <1>1, <1>2, <1>3, <1>4, <1>5, <1>6, <1>7
        DEF Next, Rest, Crash, WorkersFetch, Reclassify, Startup, vars

-----------------------------------------------------------------------------

LEMMA InitGrant == Init => GrantInv
<1> SUFFICES ASSUME Init PROVE GrantInv
  OBVIOUS
<1>1. TypeInv
  BY InitTypeInv
<1>2. OwnerInv /\ GrantRows
  BY DEF Init, NoStream, OwnerInv, GrantRows
<1>3. GrantReqs
  BY DEF Init, Idle, GrantReqs, GrantReq, TodoOK
<1>4. GrantHeld
  BY DEF Init, Pipe!PipeInit, Pipe!IdleJob, GrantHeld, Held
<1> QED BY <1>1, <1>2, <1>3, <1>4 DEF GrantInv

\* Neither the leader nor the workers ever hold a route that nobody entitled to
\* its stream and in scope of its source was granted, by the listing of the
\* source as standard or by an approval: the gate of _insert_members holds
\* through every interleaving, failure, rollback, crash and reclassification.
THEOREM RoutedOnlyIfGrantedHolds == Spec => []RoutedOnlyIfGranted
<1>1. GrantInv /\ [Next]_vars => GrantInv'
  <2> SUFFICES ASSUME GrantInv, [Next]_vars PROVE GrantInv'
    OBVIOUS
  <2>1. TypeInv' /\ Grown /\ OwnerInv'
    BY NextTypeInv, NextGrown DEF GrantInv
  <2> QED BY <2>1, NextReqs, NextRows, NextHeld DEF GrantInv
<1>2. GrantInv => RoutedOnlyIfGranted
  BY DEF GrantInv, GrantHeld, Held, RoutedOnlyIfGranted, TypeInv, TypeOK,
     Pipe!PipeTypeOK, Pipe!Configs, Routes
<1> QED BY InitGrant, <1>1, <1>2, PTL DEF Spec

-----------------------------------------------------------------------------
(* The argument for LiveHasRef.  Only GoLive and Relive make a stream live. *)
(* Relive relies on a resource_ref read when its request started; it is     *)
(* never cleared, and an id is never given out twice.                       *)

RefInv ==
    /\ \A s \in StreamId :
         /\ streams[s].status = "live" => streams[s].ref
         /\ streams[s].status = "absent" => ~streams[s].ref
    /\ \A t \in Threads : At(t, "relive") => streams[Sid(t)].ref

\* The rows of streams keep what RefInv says of them, and their references.
RefsGrow ==
    \A s \in StreamId :
      /\ streams[s].ref => streams'[s].ref
      /\ streams'[s].status = "live" => streams'[s].ref
      /\ streams'[s].status = "absent" => ~streams'[s].ref

\* No request comes to retry's UPDATE without a reference.
NoNewRelive(t) ==
    req'[t].pc = "relive" =>
      \/ req[t].pc = "relive" /\ req'[t].sid = req[t].sid
      \/ req'[t].sid \in StreamId /\ streams[req'[t].sid].ref

LEMMA RefKeeps ==
    ASSUME TypeInv, RefInv, RefsGrow, \A t \in Threads : NoNewRelive(t)
    PROVE RefInv'
<1>1. ASSUME NEW t \in Threads, req'[t].pc = "relive"
      PROVE streams'[req'[t].sid].ref
  <2>1. ASSUME req[t].pc = "relive" PROVE req[t].sid \in StreamId
    BY <2>1, OnStream DEF Sid, NoSid, ResyncPc
  <2> QED BY <1>1, <2>1 DEF NoNewRelive, RefInv, RefsGrow, At, Sid
<1> QED BY <1>1 DEF RefInv, RefsGrow, At, Sid

LEMMA RefsUnchanged == ASSUME RefInv, UNCHANGED streams PROVE RefsGrow
  BY DEF RefInv, RefsGrow

LEMMA UpdateRefs ==
    ASSUME TypeInv, RefInv, NEW t \in Threads,
           \/ Insert(t) \/ FlagError(t) \/ GoLive(t) \/ Relive(t) \/ Record(t)
           \/ MarkDeleted(t) \/ FlagApply(t) \/ NoteRole(t) \/ NoteResource(t)
    PROVE RefsGrow
<1>1. CASE UNCHANGED streams
  BY <1>1, RefsUnchanged
<1>2. ASSUME NEW s \in StreamId, NEW r, streams' = [streams EXCEPT ![s] = r],
             streams[s].ref => r.ref, r.status = "live" => r.ref,
             r.status = "absent" => ~r.ref
      PROVE RefsGrow
  BY <1>2 DEF RefInv, RefsGrow, TypeInv, TypeOK
<1>3. CASE Insert(t)
  <2>1. ASSUME NEW s \in StreamId, streams[s].status = "absent",
               streams' = [streams EXCEPT ![s] =
                   [NoStream EXCEPT !.status = "provisioning",
                      !.owner = req[t].user, !.name = req[t].name,
                      !.type = req[t].type]]
        PROVE RefsGrow
    <3> DEFINE r == [NoStream EXCEPT !.status = "provisioning",
                      !.owner = req[t].user, !.name = req[t].name,
                      !.type = req[t].type]
    <3>1. r.status = "provisioning"
      BY DEF NoStream
    <3>2. ~streams[s].ref
      BY <2>1 DEF RefInv
    <3>3. streams' = [streams EXCEPT ![s] = r]
      BY <2>1
    <3> HIDE DEF r
    <3> QED BY <1>2, <3>1, <3>2, <3>3
  <2> QED BY <1>1, <1>3, <2>1 DEF Insert
<1>4. ASSUME ~Insert(t) PROVE RefsGrow
  <2> DEFINE row == streams[Sid(t)]
  <2>1. Sid(t) \in StreamId /\ row \in Stream
    BY <1>4, OnStream DEF FlagError, GoLive, Relive, Record, MarkDeleted, FlagApply,
       NoteRole, NoteResource, At, NoSid, ResyncPc, TypeInv, TypeOK
  <2>2. \/ UNCHANGED streams
        \/ streams' = [streams EXCEPT ![Sid(t)] = [row EXCEPT !.status = "error", !.err = TRUE]]
        \/ streams' = [streams EXCEPT ![Sid(t)] = [row EXCEPT !.status = "live", !.ref = TRUE, !.err = FALSE]]
        \/ /\ streams' = [streams EXCEPT ![Sid(t)] = [row EXCEPT !.status = "live", !.err = FALSE]]
           /\ row.ref
        \/ streams' = [streams EXCEPT ![Sid(t)] = [row EXCEPT !.arn = TRUE,
                                        !.consumer = Consumer(req[t].user)]]
        \/ streams' = [streams EXCEPT ![Sid(t)] = [row EXCEPT !.status = "deleted"]]
        \/ streams' = [streams EXCEPT ![Sid(t)] = [row EXCEPT !.err = TRUE]]
    BY <1>4, <2>1 DEF FlagError, GoLive, Relive, Record, MarkDeleted, FlagApply,
       NoteRole, NoteResource, SetErr, RefInv
  <2>3. /\ row.status = "live" => row.ref
        /\ row.status = "absent" => ~row.ref
    BY <2>1 DEF RefInv
  <2>4. ASSUME NEW r, streams' = [streams EXCEPT ![Sid(t)] = r],
               \/ r = [row EXCEPT !.status = "error", !.err = TRUE]
               \/ r = [row EXCEPT !.status = "live", !.ref = TRUE, !.err = FALSE]
               \/ r = [row EXCEPT !.status = "live", !.err = FALSE] /\ row.ref
               \/ r = [row EXCEPT !.arn = TRUE, !.consumer = Consumer(req[t].user)]
               \/ r = [row EXCEPT !.status = "deleted"]
               \/ r = [row EXCEPT !.err = TRUE]
        PROVE RefsGrow
    <3>1. /\ row.ref => r.ref
          /\ r.status = "live" => r.ref
          /\ r.status = "absent" => ~r.ref
      BY <2>1, <2>3, <2>4 DEF Stream
    <3> QED BY <1>2, <2>1, <2>4, <3>1
  <2> QED BY <1>1, <2>2, <2>4
<1> QED BY <1>3, <1>4

LEMMA StartRelive ==
    ASSUME TypeInv, NEW t \in Threads, Start(t), NEW o \in Threads
    PROVE NoNewRelive(o)
<1>1. PICK op, q : Accept(t, op, q)
  BY StartLeaves
<1>2. CASE o # t
  BY <1>1, <1>2, GoodIsRequest DEF Accept, NoNewRelive, Request
<1>3. CASE o = t
  <2>1. ASSUME NEW u \in Users, NEW s \in StreamId, NEW op2 \in AllOps,
               NEW pc \in Pc, StartOn(t, op2, pc, u, s),
               pc = "relive" => streams[s].ref
        PROVE NoNewRelive(t)
    <3>1. /\ req'[t].pc = pc /\ req'[t].sid = s
      BY <2>1 DEF StartOn, Accept, Idle
    <3> QED BY <2>1, <3>1 DEF NoNewRelive
  <2>2. ASSUME NEW u \in Users, NEW s \in StreamId,
               StartRemove(t, u, s) \/ StartDelete(t, u, s) \/ StartRetry(t, u, s)
        PROVE NoNewRelive(t)
    BY <2>1, <2>2 DEF StartRemove, StartDelete, StartRetry, AllOps, Pc
  <2>3. ASSUME NEW u \in Users,
               \/ \E n \in Names, ty \in Types, l \in FqnLists, tree \in Cat!Answers :
                    StartCreate(t, u, n, ty, l, tree)
               \/ \E s \in StreamId, l \in FqnLists, tree \in Cat!Answers :
                    StartAdd(t, u, s, l, tree)
               \/ \E m \in members : StartApprove(t, u, m) \/ Reject(t, u, m)
        PROVE req'[t].pc # "relive"
    <3>1. ASSUME NEW n \in Names, NEW ty \in Types, NEW l \in FqnLists,
                 NEW tree \in Cat!Answers, StartCreate(t, u, n, ty, l, tree)
          PROVE req'[t].pc # "relive"
      <4> DEFINE r == [Idle EXCEPT !.pc = "insert", !.op = "create", !.user = u,
                                   !.name = n, !.type = ty, !.todo = Resolve(l, tree)]
      <4>1. Accept(t, "create", r) /\ r.pc = "insert"
        BY <3>1 DEF StartCreate, Idle
      <4> HIDE DEF r
      <4> QED BY <4>1 DEF Accept
    <3>2. ASSUME NEW s \in StreamId, NEW l \in FqnLists, NEW tree \in Cat!Answers,
                 StartAdd(t, u, s, l, tree)
          PROVE req'[t].pc # "relive"
      <4> DEFINE r == [Idle EXCEPT !.pc = "members", !.op = "add", !.user = u,
                                   !.sid = s, !.todo = Fresh(s, l, tree)]
      <4>1. Accept(t, "add", r) /\ r.pc = "members"
        BY <3>2 DEF StartAdd, Idle
      <4> HIDE DEF r
      <4> QED BY <4>1 DEF Accept
    <3>3. ASSUME NEW m \in members, StartApprove(t, u, m) \/ Reject(t, u, m)
          PROVE req'[t].pc # "relive"
      <4> DEFINE r == [Idle EXCEPT !.pc = "approved", !.op = "approve",
                                   !.user = u, !.row = m.id]
      <4>1. /\ Accept(t, "approve", r) \/ Accept(t, "approve", Idle)
            /\ r.pc = "approved" /\ Idle.pc = "idle"
        BY <3>3 DEF StartApprove, Reject, Idle
      <4> HIDE DEF r
      <4> QED BY <4>1 DEF Accept
    <3> QED BY <2>3, <3>1, <3>2, <3>3
  <2> QED BY <1>3, <2>2, <2>3 DEF Start, NoNewRelive
<1> QED BY <1>2, <1>3

\* A step of t moves no other request.
LEMMA OwnStep ==
    ASSUME TypeInv, NEW t \in Threads, Step(t) \/ Fault(t) \/ Startup(t),
           NEW q \in Threads \ {t}
    PROVE req'[q] = req[q]
  BY DEF Step, Fault, Startup, Insert, Provision, ProvisionInUse, FlagError,
     GoLive, Mint, PutPolicy, Record, InsertMember, Remove, MarkDeleted, Relive,
     Reread, ApproveLookup, ReadLive, Collect, AfterValueError, ApplyBegin, ApplyStep,
     ApplyDisturbed, ApplyReturns, FlagApply, DelPolicy, DelRole, NoteRole,
     DelResource, NoteResource, AfterRole, ProvisionFails, MintFails,
     ApplyBeginFails, ApplyFails, DelRoleFails, DelResourceFails, Goto, Finish,
     FaultTo, TypeInv, TypeOK

LEMMA StepRelive ==
    ASSUME TypeInv, NEW t \in Threads,
           Step(t) \/ Fault(t) \/ Startup(t), NEW o \in Threads
    PROVE NoNewRelive(o)
<1>1. req'[t].pc # "relive" \/ req' = req
  <2>1. ASSUME NEW pc \in Pc \ {"relive"}, Goto(t, pc) \/ FaultTo(t, pc) \/ Finish(t)
        PROVE req'[t].pc # "relive"
    BY <2>1 DEF Goto, FaultTo, Finish, Idle, TypeInv, TypeOK, Request
  <2>2. CASE \/ Insert(t) \/ InsertMember(t) \/ ApproveLookup(t) \/ ReadLive(t)
             \/ Startup(t)
    <3>1. CASE Insert(t)
      <4>1. ASSUME NEW s \in StreamId,
                   req' = [req EXCEPT ![t].pc = "provision", ![t].sid = s]
            PROVE req'[t].pc # "relive"
        BY <4>1 DEF TypeInv, TypeOK, Request
      <4>2. ASSUME Finish(t) PROVE req'[t].pc # "relive"
        BY <4>2 DEF Finish, Idle, TypeInv, TypeOK
      <4> QED BY <3>1, <4>1, <4>2 DEF Insert
    <3>2. CASE InsertMember(t)
      <4>1. ASSUME NEW p \in req[t].todo,
                   req' = [req EXCEPT ![t].todo = @ \ {p},
                      ![t].pc = IF req[t].todo = {p} THEN "reapply" ELSE "members"]
            PROVE req'[t].pc # "relive"
        BY <4>1 DEF TypeInv, TypeOK, Request
      <4>2. ASSUME Finish(t) PROVE req'[t].pc # "relive"
        BY <4>2 DEF Finish, Idle, TypeInv, TypeOK
      <4> QED BY <3>2, <4>1, <4>2 DEF InsertMember
    <3>3. CASE ApproveLookup(t)
      <4>1. ASSUME NEW m \in members,
                   req' = [req EXCEPT ![t].pc = "reapply", ![t].sid = m.sid]
            PROVE req'[t].pc # "relive"
        BY <4>1 DEF TypeInv, TypeOK, Request
      <4>2. ASSUME Finish(t) PROVE req'[t].pc # "relive"
        BY <4>2 DEF Finish, Idle, TypeInv, TypeOK
      <4> QED BY <3>3, <4>1, <4>2 DEF ApproveLookup
    <3>5. CASE Startup(t)
      BY <3>5 DEF Startup, Idle, TypeInv, TypeOK
    <3>4. CASE ReadLive(t)
      BY <3>4 DEF ReadLive, TypeInv, TypeOK, Request
    <3> QED BY <2>2, <3>1, <3>2, <3>3, <3>4, <3>5
  <2>3. CASE Collect(t)
    <3>1. ASSUME AfterValueError(t) PROVE req'[t].pc # "relive"
      BY <2>1, <3>1 DEF AfterValueError, Pc
    <3>2. ASSUME NEW s \in req[t].live,
                 req' = [req EXCEPT ![t].live = @ \ {s},
                              ![t].want = @ \cup ActiveRoutes(s),
                              ![t].pc = IF req[t].live = {s} THEN "apply"
                                        ELSE "collect"]
          PROVE req'[t].pc # "relive"
      BY <3>2 DEF TypeInv, TypeOK, Request
    <3> QED BY <2>3, <3>1, <3>2 DEF Collect
  <2>4. CASE ApplyStep(t)
    BY <2>4 DEF ApplyStep
  <2>5. CASE ApplyDisturbed(t)
    BY <2>5 DEF ApplyDisturbed
  <2>6. CASE \/ Provision(t) \/ ProvisionInUse(t) \/ FlagError(t) \/ GoLive(t)
             \/ Mint(t) \/ PutPolicy(t) \/ Record(t) \/ Fault(t)
    <3>1. \E pc \in Pc \ {"relive"} : Goto(t, pc) \/ FaultTo(t, pc) \/ Finish(t)
      BY <2>6 DEF Provision, ProvisionInUse, FlagError, GoLive, Mint, PutPolicy,
         Record, Fault, ProvisionFails, MintFails, ApplyBeginFails, ApplyFails,
         DelRoleFails, DelResourceFails, Pc
    <3> QED BY <2>1, <3>1
  <2>8. CASE DelRole(t) \/ NoteRole(t)
    <3>1. \/ Goto(t, "noterole")
          \/ AfterRole(t, TRUE) \/ AfterRole(t, FALSE)
      BY <2>8 DEF DelRole, NoteRole
    <3>2. CASE Goto(t, "noterole")
      BY <2>1, <3>2 DEF Pc
    <3>3. ASSUME NEW noted, AfterRole(t, noted) PROVE req'[t].pc # "relive"
      BY <3>3 DEF AfterRole, Finish, Idle, TypeInv, TypeOK, Request
    <3> QED BY <3>1, <3>2, <3>3
  <2>7. CASE \/ Remove(t) \/ MarkDeleted(t) \/ Relive(t) \/ Reread(t)
             \/ ApplyBegin(t) \/ ApplyReturns(t) \/ FlagApply(t)
             \/ DelPolicy(t) \/ DelResource(t) \/ NoteResource(t)
    <3>1. \E pc \in Pc \ {"relive"} : Goto(t, pc) \/ FaultTo(t, pc) \/ Finish(t)
      <4>1. CASE \/ Remove(t) \/ MarkDeleted(t) \/ Relive(t) \/ Reread(t)
                 \/ ApplyBegin(t) \/ FlagApply(t) \/ DelPolicy(t)
        <5>1. \/ Finish(t) \/ Goto(t, "reapply") \/ Goto(t, "reread")
              \/ Goto(t, "mint") \/ Goto(t, "applying") \/ Goto(t, "delrole")
          BY <4>1 DEF Remove, MarkDeleted, Relive, Reread, ApplyBegin, FlagApply,
             DelPolicy
        <5> QED BY <5>1 DEF Pc
      <4>2. CASE DelResource(t) \/ NoteResource(t)
        <5>1. Finish(t) \/ Goto(t, "noteresource")
          BY <4>2 DEF DelResource, NoteResource
        <5> QED BY <5>1 DEF Pc
      <4>3. CASE ApplyReturns(t)
        BY <4>3 DEF ApplyReturns, Pc
      <4> QED BY <2>7, <4>1, <4>2, <4>3
    <3> QED BY <2>1, <3>1
  <2> QED BY <2>2, <2>3, <2>4, <2>5, <2>6, <2>7, <2>8 DEF Step
<1>2. \A q \in Threads \ {t} : req'[q] = req[q]
  BY OwnStep
<1> QED BY <1>1, <1>2 DEF NoNewRelive

LEMMA NextRefInv == ASSUME TypeInv, RefInv, [Next]_vars PROVE RefInv'
<1>1. ASSUME NEW t \in Threads, Start(t) PROVE RefInv'
  <2>1. UNCHANGED streams
    BY <1>1, StartLeaves
  <2> QED BY <1>1, <2>1, StartRelive, RefsUnchanged, RefKeeps
<1>2. ASSUME NEW t \in Threads, Step(t) \/ Fault(t) \/ Startup(t) PROVE RefInv'
  <2>1. \/ UNCHANGED streams
        \/ Insert(t) \/ FlagError(t) \/ GoLive(t) \/ Relive(t) \/ Record(t)
        \/ MarkDeleted(t) \/ FlagApply(t) \/ NoteRole(t) \/ NoteResource(t)
    BY <1>2 DEF Step, Fault, Startup, Provision, ProvisionInUse, Mint, PutPolicy,
       InsertMember, Remove, Reread, ApproveLookup, ReadLive, Collect, ApplyBegin,
       ApplyStep, ApplyDisturbed, ApplyReturns, DelPolicy, DelRole, DelResource,
       ProvisionFails, MintFails, ApplyBeginFails, ApplyFails, DelRoleFails,
       DelResourceFails, dbVars
  <2>2. RefsGrow
    BY <2>1, UpdateRefs, RefsUnchanged
  <2> QED BY <1>2, <2>2, StepRelive, RefKeeps
<1>3. CASE Crash
  BY <1>3, RefsUnchanged, RefKeeps DEF Crash, dbVars, Idle, NoNewRelive
<1>4. CASE UNCHANGED <<streams, req>>
  BY <1>4, RefsUnchanged, RefKeeps DEF NoNewRelive
<1> QED BY <1>1, <1>2, <1>3, <1>4
        DEF Next, Rest, WorkersFetch, Reclassify, vars, dbVars

\* A live stream always has its resource_ref, the ARN or queue URL that reapply
\* and peek use, although retry's UPDATE relies on a row read before it.
THEOREM LiveHasRefHolds == Spec => []LiveHasRef
<1>1. Init => TypeInv /\ RefInv
  BY InitTypeInv DEF Init, NoStream, Idle, RefInv, At
<1>2. (TypeInv /\ RefInv) /\ [Next]_vars => (TypeInv /\ RefInv)'
  BY NextTypeInv, NextRefInv
<1>3. TypeInv /\ RefInv => LiveHasRef
  BY DEF RefInv, LiveHasRef
<1> QED BY <1>1, <1>2, <1>3, PTL DEF Spec
=============================================================================
