--------------------------- MODULE StreamService ---------------------------
(***************************************************************************)
(* The fork lifecycle of the portal: backend/app/streams/service.py with   *)
(* the database (db.py), the provisioner, the access roles and the catalog *)
(* it calls, and main.py's resync at startup.                              *)
(*                                                                         *)
(* FastAPI runs the synchronous handlers on a thread pool and nothing in   *)
(* the portal takes a lock; the one sqlite connection is in autocommit     *)
(* mode.  So a request is a sequence of steps, one per SQL statement or    *)
(* call to AWS or the leader, and the steps of two requests interleave.    *)
(* With a single thread the requests run one after the other.              *)
(*                                                                         *)
(* A request that the code turns away before it changes anything (400,     *)
(* 403, 404, 409, 503) leaves no trace, so it has no step: the conditions  *)
(* are the guards of the Start actions.                                    *)
(***************************************************************************)
EXTENDS Naturals, Sequences, FiniteSets

CONSTANTS
    Threads,        \* workers of the thread pool
    Users, Admins,  \* personas; the admins see every account
    Accounts,       \* workload accounts
    Scope,          \* [Users -> Accounts]: a consumer's account
    LoggingAccount, \* the account that stands in for an admin's
    Sources,        \* the names (fqn) under which the catalog lists sources
    Identities,     \* (account_id, workload, source_name): what a route matches
    IdentityOf,     \* [Sources -> Identities]: two names may mean one source
    Unsafe,         \* identities that Member() refuses (ValueError)
    AccountOf,      \* [Sources -> Accounts]
    InitCatalog,    \* [Sources -> Listing]: the catalog at the start
    FqnLists,       \* the source_fqns a request may carry
    Names, Types,   \* stream names; the stream types in use
    Ops,            \* the operations the clients call
    None,           \* NULL
    WorkersLag,     \* see Pipeline
    MaxStreams, MaxRows, MaxRequests, MaxFaults, MaxChanges, MaxCrashes

StreamId == 1..MaxStreams
RowId == 1..MaxRows
Routes == StreamId \X Identities
Listing == {"standard", "sensitive", "unlisted"}
Resources == (Types \cup {None}) \X (Names \cup {None})

AllOps == {"create", "add", "remove", "delete", "retry", "approve"}

ASSUME UserAssumption ==
    /\ Admins \subseteq Users
    /\ Scope \in [Users -> Accounts]
    /\ LoggingAccount \in Accounts
ASSUME SourceAssumption ==
    /\ Unsafe \subseteq Identities
    /\ IdentityOf \in [Sources -> Identities]
    /\ AccountOf \in [Sources -> Accounts]
    /\ InitCatalog \in [Sources -> Listing]
    /\ FqnLists \subseteq Seq(Sources)
ASSUME BoundAssumption ==
    /\ MaxStreams \in Nat /\ MaxRows \in Nat
    /\ Types \subseteq {"kinesis", "sqs"}
    /\ Ops \subseteq AllOps
    /\ WorkersLag \in BOOLEAN
    /\ None \notin Users \cup Names \cup Types \cup Accounts

VARIABLES
    \* the database
    streams,      \* the streams table, by id ("absent": id not yet used)
    members,      \* the stream_sources rows
    lastRow,      \* AUTOINCREMENT counter of stream_sources
    \* the world outside
    listed,       \* how the catalog has listed each source, now or before
    resources,    \* the Kinesis streams and SQS queues that exist
    roles,        \* the IAM read role of each stream id
    \* the portal process
    up,           \* FALSE from a crash until the startup resync has returned
    req,          \* what each thread is doing
    used,         \* bounds: requests, faults, catalog changes, crashes so far
    \* history, for the properties only
    seen,         \* <<stream, user, source, listing>>: what each request
                  \* resolved for its stream
    approvals,    \* <<stream, source>> pairs some admin approved
    \* the leader and the calls of apply
    table, deployed, running, jobs

Pipe == INSTANCE Pipeline WITH Callers <- Threads

\* A request acts on the catalog's answer in the step that takes it.
Cat == INSTANCE Listings WITH Readers <- Threads, answers <- [t \in Threads |-> {}]

dbVars == <<streams, members, lastRow>>
worldVars == <<listed, resources, roles>>
ghostVars == <<seen, approvals>>
pipeVars == <<table, deployed, running, jobs>>
vars == <<dbVars, worldVars, up, req, used, ghostVars, pipeVars>>

-----------------------------------------------------------------------------
(* Records *)

Stream == [status: {"absent", "provisioning", "live", "error", "deleted"},
           owner: Users \cup {None}, name: Names \cup {None},
           type: Types \cup {None},
           ref: BOOLEAN,        \* resource_ref is set
           err: BOOLEAN,        \* last_error is set
           arn: BOOLEAN,        \* read_role_arn is set
           consumer: Accounts \cup {None}]

NoStream == [status |-> "absent", owner |-> None, name |-> None,
             type |-> None, ref |-> FALSE, err |-> FALSE, arn |-> FALSE,
             consumer |-> None]

Row == [id: RowId, sid: StreamId, src: Sources,
        status: {"active", "pending_approval", "rejected"}, by: Users]

\* trust is None exactly when the role does not exist.
Role == [trust: Accounts \cup {None}, policy: BOOLEAN]
NoRole == [trust |-> None, policy |-> FALSE]

Pc == {"idle", "insert", "provision", "flag", "golive", "relive", "reread",
       "mint", "putpolicy", "record", "members", "remove", "markdeleted",
       "approved", "reapply", "collect", "apply", "applying", "flagapply",
       "delpolicy", "delrole", "noterole", "delresource", "noteresource"}

\* A resolved source: its place in source_fqns, its name, its listing.
Resolved == Nat \X Sources \X Listing

Request == [pc: Pc, op: AllOps \cup {"none", "startup"},
            user: Users \cup {None}, sid: Nat,
            name: Names \cup {None}, type: Types \cup {None},
            todo: SUBSET Resolved,     \* resolved sources still to insert
            row: Nat,                  \* the request id of an approval
            live: SUBSET StreamId,     \* reapply: streams still to read
            want: SUBSET Routes,       \* reapply: routes generated so far
            ref: BOOLEAN,              \* resource_ref as get_stream read it
            noted: BOOLEAN,            \* history: it noted a failed teardown
            solo: BOOLEAN]             \* history: no other request has been
                                       \* under way since its reapply began

Idle == [pc |-> "idle", op |-> "none", user |-> None, sid |-> 0,
         name |-> None, type |-> None, todo |-> {}, row |-> 0,
         live |-> {}, want |-> {}, ref |-> FALSE, noted |-> FALSE, solo |-> FALSE]

TypeOK ==
    /\ streams \in [StreamId -> Stream]
    /\ members \subseteq Row
    /\ lastRow \in 0..MaxRows
    /\ listed \subseteq Sources \X Listing
    /\ resources \subseteq Resources
    /\ roles \in [StreamId -> Role]
    /\ up \in BOOLEAN
    /\ req \in [Threads -> Request]
    /\ used \in [{"requests", "faults", "changes", "crashes"} -> Nat]
    /\ seen \subseteq StreamId \X Users \X Sources \X Listing
    /\ approvals \subseteq StreamId \X Sources
    /\ Pipe!PipeTypeOK

Init ==
    /\ streams = [s \in StreamId |-> NoStream]
    /\ members = {}
    /\ lastRow = 0
    /\ listed = {<<n, InitCatalog[n]>> : n \in Sources}
    /\ resources = {}
    /\ roles = [s \in StreamId |-> NoRole]
    /\ up = TRUE
    /\ req = [t \in Threads |-> Idle]
    /\ used = [k \in {"requests", "faults", "changes", "crashes"} |-> 0]
    /\ seen = {}
    /\ approvals = {}
    /\ Pipe!PipeInit

-----------------------------------------------------------------------------
(* Helpers *)

Alive(s) == streams[s].status \in {"provisioning", "live", "error"}
AliveName(n) == \E s \in StreamId : Alive(s) /\ streams[s].name = n

\* The partial unique index refuses to bring a deleted row back to life when
\* another stream has taken its name.
NameClash(s) == streams[s].status = "deleted" /\ AliveName(streams[s].name)

\* get_stream's ownership check.
MayAct(u, s) == u = streams[s].owner \/ u \in Admins

InScope(u, src) == u \in Admins \/ AccountOf[src] = Scope[u]

\* Mutant: the persona's id in place of its account.
ConsumerById(u) == IF u \in Admins THEN LoggingAccount ELSE u

Consumer(u) == IF u \in Admins THEN LoggingAccount ELSE Scope[u]

\* _resolve, on one answer of the catalog.
ResolveOK(u, l, tree) ==
    \A i \in DOMAIN l : tree[l[i]] # "unlisted" /\ InScope(u, l[i])
Resolve(l, tree) == {<<i, l[i], tree[l[i]]>> : i \in DOMAIN l}
SeenFor(s, u, resolved) == {<<s, u, p[2], p[3]>> : p \in resolved}
SourcesOf(s) == {m.src : m \in {r \in members : r.sid = s}}

ActiveRoutes(s) ==
    {<<s, IdentityOf[m.src]>> : m \in {r \in members : r.sid = s /\ r.status = "active"}}
LiveStreams == {s \in StreamId : streams[s].status = "live"}

\* The routes the database asks for.
Desired == UNION {ActiveRoutes(s) : s \in LiveStreams}

At(t, pc) == req[t].pc = pc
Sid(t) == req[t].sid
Op(t) == req[t].op

\* The request of t moves on, or ends with an answer.
Goto(t, pc) == req' = [req EXCEPT ![t].pc = pc]
Finish(t) == req' = [req EXCEPT ![t] = Idle]

Budget(k, max) ==
    /\ used[k] < max
    /\ used' = [used EXCEPT ![k] = @ + 1]

\* A call to AWS fails: the request goes to its handler of the exception.
FaultTo(t, pc) ==
    /\ Budget("faults", MaxFaults)
    /\ Goto(t, pc)

\* A thread takes up a request whose first step leaves it with record r.
Accept(t, op, r) ==
    /\ up /\ At(t, "idle")
    /\ op \in Ops
    /\ Budget("requests", MaxRequests)
    /\ req' = [o \in Threads |-> IF o = t THEN r ELSE [req[o] EXCEPT !.solo = FALSE]]

-----------------------------------------------------------------------------
(* POST /api/streams: the name check and _resolve, then the INSERT, which  *)
(* says for which stream the sources were resolved.                        *)

\* The model has MaxStreams ids to give out.
Room == Cardinality({s \in StreamId : streams[s].status = "absent"})
          > Cardinality({t \in Threads : At(t, "insert")})

StartCreate(t, u, n, ty, l, tree) ==
    /\ Room
    /\ l # <<>>
    /\ ~AliveName(n)
    /\ ResolveOK(u, l, tree)
    /\ Accept(t, "create", [Idle EXCEPT !.pc = "insert", !.op = "create",
              !.user = u, !.name = n, !.type = ty, !.todo = Resolve(l, tree)])
    /\ UNCHANGED <<dbVars, worldVars, up, ghostVars, pipeVars>>

\* A request that lost the race for the name gets sqlite's IntegrityError.
Insert(t) ==
    /\ At(t, "insert")
    /\ IF AliveName(req[t].name)
       THEN Finish(t) /\ UNCHANGED <<streams, seen>>
       ELSE \E s \in StreamId :
              /\ streams[s].status = "absent"
              /\ \A r \in 1..(s - 1) : streams[r].status # "absent"
              /\ streams' = [streams EXCEPT ![s] =
                   [NoStream EXCEPT !.status = "provisioning",
                      !.owner = req[t].user, !.name = req[t].name,
                      !.type = req[t].type]]
              /\ req' = [req EXCEPT ![t].pc = "provision", ![t].sid = s]
              /\ seen' = seen \cup SeenFor(s, req[t].user, req[t].todo)
    /\ UNCHANGED <<members, lastRow, worldVars, up, used, approvals, pipeVars>>

(* Provisioner.create, called by create_stream and retry. *)

ResourceOf(s) == <<streams[s].type, streams[s].name>>

Provision(t) ==
    /\ At(t, "provision")
    /\ streams[Sid(t)].type = "sqs" \/ ResourceOf(Sid(t)) \notin resources
    /\ resources' = resources \cup {ResourceOf(Sid(t))}
    /\ Goto(t, "golive")
    /\ UNCHANGED <<dbVars, listed, roles, up, used, ghostVars, pipeVars>>

\* create_stream refuses a name that is in use (ResourceInUseException).
ProvisionInUse(t) ==
    /\ At(t, "provision")
    /\ streams[Sid(t)].type = "kinesis" /\ ResourceOf(Sid(t)) \in resources
    /\ Goto(t, "flag")
    /\ UNCHANGED <<dbVars, worldVars, up, used, ghostVars, pipeVars>>

\* The call fails, or the resource is made and the waiter or the answer fails.
ProvisionFails(t) ==
    /\ At(t, "provision")
    /\ FaultTo(t, "flag")
    /\ \E made \in BOOLEAN :
         resources' = IF made THEN resources \cup {ResourceOf(Sid(t))}
                      ELSE resources
    /\ UNCHANGED <<dbVars, listed, roles, up, ghostVars, pipeVars>>

\* UPDATE ... SET status = 'error', last_error: the handler of ProvisionError
\* and of AccessRoleError.  It ends the request.
FlagError(t) ==
    /\ At(t, "flag")
    /\ streams' = IF NameClash(Sid(t)) THEN streams
                  ELSE [streams EXCEPT ![Sid(t)].status = "error",
                                       ![Sid(t)].err = TRUE]
    /\ Finish(t)
    /\ UNCHANGED <<members, lastRow, worldVars, up, used, ghostVars, pipeVars>>

\* UPDATE ... SET resource_ref, status = 'live', last_error = NULL.
GoLive(t) ==
    /\ At(t, "golive")
    /\ IF NameClash(Sid(t))
       THEN Finish(t) /\ UNCHANGED streams
       ELSE /\ streams' = [streams EXCEPT ![Sid(t)].status = "live",
                             ![Sid(t)].ref = TRUE, ![Sid(t)].err = FALSE]
            /\ Goto(t, IF Op(t) = "create" THEN "mint" ELSE "reread")
    /\ UNCHANGED <<members, lastRow, worldVars, up, used, ghostVars, pipeVars>>

(* _mint_role: create_role, put_role_policy, then the UPDATE. *)

\* Mutant: the ARN is recorded as soon as the role exists.
MintRecords(t) ==
    /\ At(t, "mint")
    /\ roles' = IF roles[Sid(t)].trust # None THEN roles
                ELSE [roles EXCEPT ![Sid(t)].trust = Consumer(req[t].user)]
    /\ Goto(t, "record")
    /\ UNCHANGED <<dbVars, listed, resources, up, used, ghostVars, pipeVars>>

\* A role that is already there is kept with the trust it was created with.
Mint(t) ==
    /\ At(t, "mint")
    /\ roles' = IF roles[Sid(t)].trust # None THEN roles
                ELSE [roles EXCEPT ![Sid(t)].trust = Consumer(req[t].user)]
    /\ Goto(t, "putpolicy")
    /\ UNCHANGED <<dbVars, listed, resources, up, used, ghostVars, pipeVars>>

PutPolicy(t) ==
    /\ At(t, "putpolicy")
    /\ IF roles[Sid(t)].trust = None
       THEN Goto(t, "flag") /\ UNCHANGED roles
       ELSE Goto(t, "record") /\ roles' = [roles EXCEPT ![Sid(t)].policy = TRUE]
    /\ UNCHANGED <<dbVars, listed, resources, up, used, ghostVars, pipeVars>>

\* A call fails, or only the answer to put_role_policy is lost; a lost answer
\* to create_role leaves what a failed put_role_policy leaves.
MintFails(t) ==
    /\ req[t].pc \in {"mint", "putpolicy"}
    /\ FaultTo(t, "flag")
    /\ \/ UNCHANGED roles
       \/ /\ At(t, "putpolicy") /\ roles[Sid(t)].trust # None
          /\ roles' = [roles EXCEPT ![Sid(t)].policy = TRUE]
    /\ UNCHANGED <<dbVars, listed, resources, up, ghostVars, pipeVars>>

\* UPDATE ... SET read_role_arn, consumer_account_id.
Record(t) ==
    /\ At(t, "record")
    /\ streams' = [streams EXCEPT ![Sid(t)].arn = TRUE,
                      ![Sid(t)].consumer = Consumer(req[t].user)]
    /\ Goto(t, IF Op(t) = "create" THEN "members" ELSE "reapply")
    /\ UNCHANGED <<members, lastRow, worldVars, up, used, ghostVars, pipeVars>>

(* _insert_members, one INSERT at a time, with the sensitivity gate. *)

\* Mutant: a sensitive source needs no approval.
GateOpen(listing) == "active"

GateStatus(listing) ==
    IF listing = "sensitive" THEN "pending_approval" ELSE "active"

\* UNIQUE (stream_id, source_fqn): a source that is there already ends the
\* request with an IntegrityError, after the rows inserted so far.
InsertMember(t) ==
    /\ At(t, "members")
    /\ \E p \in req[t].todo :
         /\ \A q \in req[t].todo : p[1] <= q[1]
         /\ IF p[2] \in SourcesOf(Sid(t))
            THEN Finish(t) /\ UNCHANGED <<members, lastRow>>
            ELSE /\ lastRow < MaxRows
                 /\ lastRow' = lastRow + 1
                 /\ members' = members \cup
                      {[id |-> lastRow + 1, sid |-> Sid(t), src |-> p[2],
                        status |-> GateStatus(p[3]), by |-> req[t].user]}
                 /\ req' = [req EXCEPT ![t].todo = @ \ {p},
                      ![t].pc = IF req[t].todo = {p} THEN "reapply" ELSE "members"]
    /\ UNCHANGED <<streams, worldVars, up, used, ghostVars, pipeVars>>

-----------------------------------------------------------------------------
(* The other requests, each starting with get_stream. *)

\* Sources that are on the stream already are dropped from the request.
Fresh(s, l, tree) == {p \in Resolve(l, tree) : p[2] \notin SourcesOf(s)}

StartAdd(t, u, s, l, tree) ==
    /\ Alive(s) /\ MayAct(u, s)
    /\ ResolveOK(u, l, tree)
    /\ Fresh(s, l, tree) # {}
    /\ Accept(t, "add", [Idle EXCEPT !.pc = "members", !.op = "add",
              !.user = u, !.sid = s, !.todo = Fresh(s, l, tree)])
    /\ seen' = seen \cup SeenFor(s, u, Resolve(l, tree))
    /\ UNCHANGED <<dbVars, worldVars, up, approvals, pipeVars>>

\* remove_source, delete_stream and retry read the stream first; what they
\* read of resource_ref is used after the calls that follow.
StartOn(t, op, pc, u, s) ==
    /\ Alive(s) /\ MayAct(u, s)
    /\ Accept(t, op, [Idle EXCEPT !.pc = pc, !.op = op, !.user = u,
              !.sid = s, !.ref = streams[s].ref])
    /\ UNCHANGED <<dbVars, worldVars, up, ghostVars, pipeVars>>

StartRemove(t, u, s) == StartOn(t, "remove", "remove", u, s)
StartDelete(t, u, s) == StartOn(t, "delete", "markdeleted", u, s)
\* Mutant: retry without its test of resource_ref.
StartRetryBlind(t, u, s) == StartOn(t, "retry", "relive", u, s)

StartRetry(t, u, s) ==
    StartOn(t, "retry", IF streams[s].ref THEN "relive" ELSE "provision", u, s)

\* DELETE FROM stream_sources; no row is a 404.
Remove(t) ==
    /\ At(t, "remove")
    /\ \/ \E m \in members : /\ m.sid = Sid(t)
                             /\ members' = members \ {m}
                             /\ Goto(t, "reapply")
       \/ /\ SourcesOf(Sid(t)) = {}
          /\ Finish(t)
          /\ UNCHANGED members
    /\ UNCHANGED <<streams, lastRow, worldVars, up, used, ghostVars, pipeVars>>

MarkDeleted(t) ==
    /\ At(t, "markdeleted")
    /\ streams' = [streams EXCEPT ![Sid(t)].status = "deleted"]
    /\ Goto(t, "reapply")
    /\ UNCHANGED <<members, lastRow, worldVars, up, used, ghostVars, pipeVars>>

\* retry of a stream that has its resource: UPDATE ... SET status = 'live'.
Relive(t) ==
    /\ At(t, "relive")
    /\ IF NameClash(Sid(t))
       THEN Finish(t) /\ UNCHANGED streams
       ELSE /\ streams' = [streams EXCEPT ![Sid(t)].status = "live",
                                          ![Sid(t)].err = FALSE]
            /\ Goto(t, "reread")
    /\ UNCHANGED <<members, lastRow, worldVars, up, used, ghostVars, pipeVars>>

\* Mutant: retry leaves it to create to mint the role.
RereadOnly(t) ==
    /\ At(t, "reread")
    /\ IF Alive(Sid(t)) THEN Goto(t, "reapply") ELSE Finish(t)
    /\ UNCHANGED <<dbVars, worldVars, up, used, ghostVars, pipeVars>>

\* retry's second get_stream decides whether the role is still to be minted.
Reread(t) ==
    /\ At(t, "reread")
    /\ IF ~Alive(Sid(t))
       THEN Finish(t)
       ELSE Goto(t, IF streams[Sid(t)].arn THEN "reapply" ELSE "mint")
    /\ UNCHANGED <<dbVars, worldVars, up, used, ghostVars, pipeVars>>

\* approve: the UPDATE decides a pending row, of a deleted stream as well.
Decide(m, status) == members' = (members \ {m}) \cup {[m EXCEPT !.status = status]}

StartApprove(t, u, m) ==
    /\ u \in Admins
    /\ m.status = "pending_approval"
    /\ Decide(m, "active")
    /\ Accept(t, "approve", [Idle EXCEPT !.pc = "approved", !.op = "approve",
              !.user = u, !.row = m.id])
    /\ approvals' = approvals \cup {<<m.sid, m.src>>}
    /\ UNCHANGED <<streams, lastRow, worldVars, up, seen, pipeVars>>

\* A rejection is that one statement.
Reject(t, u, m) ==
    /\ u \in Admins
    /\ m.status = "pending_approval"
    /\ Decide(m, "rejected")
    /\ Accept(t, "approve", Idle)
    /\ UNCHANGED <<streams, lastRow, worldVars, up, ghostVars, pipeVars>>

\* approve looks up the stream of the row it has just updated; the row may be
\* gone by then (an uncaught TypeError).
ApproveLookup(t) ==
    /\ At(t, "approved")
    /\ \/ \E m \in members : /\ m.id = req[t].row
                             /\ req' = [req EXCEPT ![t].pc = "reapply",
                                                   ![t].sid = m.sid]
       \/ /\ \A m \in members : m.id # req[t].row
          /\ Finish(t)
    /\ UNCHANGED <<dbVars, worldVars, up, used, ghostVars, pipeVars>>

-----------------------------------------------------------------------------
(* reapply: the live streams are read at once, their rows one stream at a  *)
(* time, and the routes go to the leader.                                  *)

ReadLive(t) ==
    /\ At(t, "reapply")
    /\ req' = [req EXCEPT ![t].live = LiveStreams, ![t].want = {},
                  ![t].solo = \A o \in Threads \ {t} : At(o, "idle"),
                  ![t].pc = IF LiveStreams = {} THEN "apply" ELSE "collect"]
    /\ UNCHANGED <<dbVars, worldVars, up, used, ghostVars, pipeVars>>

Poisoned(s) == \E r \in ActiveRoutes(s) : r[2] \in Unsafe

\* Mutant: _reapply_or_flag catches CriblApplyError only.
UncaughtValueError(t) ==
    Finish(t) /\ IF Op(t) = "startup" THEN up' = TRUE ELSE UNCHANGED up

\* A ValueError from Member() reaches _reapply_or_flag, or resync_pipeline;
\* delete_stream does not catch it.
AfterValueError(t) ==
    CASE Op(t) = "startup" -> Finish(t) /\ up' = TRUE
      [] Op(t) = "delete" -> Finish(t) /\ UNCHANGED up
      [] OTHER -> Goto(t, "flagapply") /\ UNCHANGED up

Collect(t) ==
    /\ At(t, "collect")
    /\ \E s \in req[t].live :
         /\ \A r \in req[t].live : s <= r
         /\ IF Poisoned(s)
            THEN AfterValueError(t)
            ELSE /\ req' = [req EXCEPT ![t].live = @ \ {s},
                              ![t].want = @ \cup ActiveRoutes(s),
                              ![t].pc = IF req[t].live = {s} THEN "apply"
                                        ELSE "collect"]
                 /\ UNCHANGED up
    /\ UNCHANGED <<dbVars, worldVars, used, ghostVars, pipeVars>>

(* pipeline.apply, see Pipeline.  Some failures are the leader's ordinary  *)
(* answers and are free: what another call of apply in flight can do to    *)
(* this one (a 500 for an output the other's table references), a version  *)
(* that never shows, a commit that changes nothing and comes back without  *)
(* an id.  Any other failure is a fault.                                   *)

Interference(t) ==
    \/ \E o \in Threads \ {t} : ~Pipe!At(o, "idle")
    \/ Pipe!At(t, "deployed") /\ ~Pipe!Converged(t)
    \/ Pipe!At(t, "patched") /\ table \in {deployed, running}

ApplyBegin(t) ==
    /\ At(t, "apply")
    /\ Pipe!Begin(t, req[t].want, FALSE)
    /\ Goto(t, "applying")
    /\ UNCHANGED <<dbVars, worldVars, up, used, ghostVars>>

ApplyBeginFails(t) ==
    /\ At(t, "apply")
    /\ FaultTo(t, "applying")
    /\ \/ Pipe!Begin(t, req[t].want, TRUE)
       \/ Pipe!Refuse(t, req[t].want)
    /\ UNCHANGED <<dbVars, worldVars, up, ghostVars>>

ApplyStep(t) ==
    /\ At(t, "applying")
    /\ Pipe!Patch(t) \/ Pipe!Commit(t) \/ Pipe!Deploy(t) \/ Pipe!Succeed(t)
       \/ Pipe!Rollback(t, FALSE)
    /\ UNCHANGED <<dbVars, worldVars, up, req, used, ghostVars>>

ApplyDisturbed(t) ==
    /\ At(t, "applying")
    /\ Interference(t)
    /\ Pipe!Fail(t)
    /\ UNCHANGED <<dbVars, worldVars, up, req, used, ghostVars>>

ApplyFails(t) ==
    /\ At(t, "applying")
    /\ FaultTo(t, "applying")
    /\ Pipe!Fail(t) \/ Pipe!Rollback(t, TRUE)
    /\ UNCHANGED <<dbVars, worldVars, up, ghostVars>>

\* What follows apply: only delete_stream carries on, and it swallows the
\* CriblApplyError; resync_pipeline swallows everything.
ApplyReturns(t) ==
    /\ At(t, "applying")
    /\ Pipe!Return(t)
    /\ CASE Op(t) = "startup" -> Finish(t) /\ up' = TRUE
         [] Op(t) = "delete" -> Goto(t, "delpolicy") /\ UNCHANGED up
         [] OTHER -> /\ IF Pipe!At(t, "ok") THEN Finish(t)
                        ELSE Goto(t, "flagapply")
                     /\ UNCHANGED up
    /\ UNCHANGED <<dbVars, worldVars, used, ghostVars>>

\* Mutant: status is set along with last_error.
SetErrAndStatus(t) == streams' = [streams EXCEPT ![Sid(t)].err = TRUE,
                                                 ![Sid(t)].status = "error"]

SetErr(t) == streams' = [streams EXCEPT ![Sid(t)].err = TRUE]

\* Mutant: a failed reapply is tried again, for ever.
FlagAndReapply(t) ==
    /\ At(t, "flagapply")
    /\ SetErr(t)
    /\ Goto(t, "reapply")
    /\ UNCHANGED <<members, lastRow, worldVars, up, used, ghostVars, pipeVars>>

\* _reapply_or_flag: UPDATE ... SET last_error, then a 502.
FlagApply(t) ==
    /\ At(t, "flagapply")
    /\ SetErr(t)
    /\ Finish(t)
    /\ UNCHANGED <<members, lastRow, worldVars, up, used, ghostVars, pipeVars>>

-----------------------------------------------------------------------------
(* delete_stream after the reapply: the role, then the resource. *)

\* Where delete_stream goes when it is done with the role.
AfterRole(t, noted) ==
    IF req[t].ref THEN req' = [req EXCEPT ![t].pc = "delresource", ![t].noted = noted]
                  ELSE Finish(t)

\* Mutant: the role is taken down only if its ARN was recorded.
DelPolicyIfRecorded(t) ==
    /\ At(t, "delpolicy")
    /\ IF streams[Sid(t)].arn
       THEN /\ roles' = [roles EXCEPT ![Sid(t)].policy = FALSE]
            /\ Goto(t, "delrole")
       ELSE AfterRole(t, FALSE) /\ UNCHANGED roles
    /\ UNCHANGED <<dbVars, listed, resources, up, used, ghostVars, pipeVars>>

DelPolicy(t) ==
    /\ At(t, "delpolicy")
    /\ roles' = [roles EXCEPT ![Sid(t)].policy = FALSE]
    /\ Goto(t, "delrole")
    /\ UNCHANGED <<dbVars, listed, resources, up, used, ghostVars, pipeVars>>

\* IAM refuses to delete a role that has got its policy back.
DelRole(t) ==
    /\ At(t, "delrole")
    /\ IF roles[Sid(t)].policy
       THEN Goto(t, "noterole") /\ UNCHANGED roles
       ELSE AfterRole(t, FALSE) /\ roles' = [roles EXCEPT ![Sid(t)] = NoRole]
    /\ UNCHANGED <<dbVars, listed, resources, up, used, ghostVars, pipeVars>>

\* A call fails, or only the answer to delete_role is lost; a lost answer to
\* delete_role_policy leaves what a failed delete_role leaves.
DelRoleFails(t) ==
    /\ req[t].pc \in {"delpolicy", "delrole"}
    /\ FaultTo(t, "noterole")
    /\ \/ UNCHANGED roles
       \/ /\ At(t, "delrole") /\ ~roles[Sid(t)].policy
          /\ roles' = [roles EXCEPT ![Sid(t)] = NoRole]
    /\ UNCHANGED <<dbVars, listed, resources, up, ghostVars, pipeVars>>

NoteRole(t) ==
    /\ At(t, "noterole")
    /\ SetErr(t)
    /\ AfterRole(t, TRUE)
    /\ UNCHANGED <<members, lastRow, worldVars, up, used, ghostVars, pipeVars>>

\* Provisioner.delete; deleting what is not there is an error.
DelResource(t) ==
    /\ At(t, "delresource")
    /\ IF ResourceOf(Sid(t)) \in resources THEN Finish(t)
       ELSE Goto(t, "noteresource")
    /\ resources' = resources \ {ResourceOf(Sid(t))}
    /\ UNCHANGED <<dbVars, listed, roles, up, used, ghostVars, pipeVars>>

DelResourceFails(t) ==
    /\ At(t, "delresource")
    /\ FaultTo(t, "noteresource")
    /\ \E gone \in BOOLEAN :
         resources' = IF gone THEN resources \ {ResourceOf(Sid(t))}
                      ELSE resources
    /\ UNCHANGED <<dbVars, listed, roles, up, ghostVars, pipeVars>>

NoteResource(t) ==
    /\ At(t, "noteresource")
    /\ SetErr(t)
    /\ Finish(t)
    /\ UNCHANGED <<members, lastRow, worldVars, up, used, ghostVars, pipeVars>>

-----------------------------------------------------------------------------
(* The process and the world around it. *)

\* The container is killed: every request stops where it is.
Crash ==
    /\ Budget("crashes", MaxCrashes)
    /\ up' = FALSE
    /\ req' = [t \in Threads |-> Idle]
    /\ Pipe!AbortAll
    /\ UNCHANGED <<dbVars, worldVars, ghostVars>>

\* resync_pipeline runs to its end before the app serves a request.
Startup(t) ==
    /\ ~up
    /\ \A o \in Threads : At(o, "idle")
    /\ req' = [req EXCEPT ![t] = [Idle EXCEPT !.pc = "reapply", !.op = "startup"]]
    /\ UNCHANGED <<dbVars, worldVars, up, used, ghostVars, pipeVars>>

\* The catalog lists a source anew; old answers may still be given.
Reclassify(n, k) ==
    /\ <<n, k>> \notin listed
    /\ Budget("changes", MaxChanges)
    /\ Cat!List(n, k)
    /\ UNCHANGED <<dbVars, resources, roles, up, req, ghostVars, pipeVars>>

WorkersFetch ==
    /\ Pipe!Fetch
    /\ UNCHANGED <<dbVars, worldVars, up, req, used, ghostVars>>

\* No request is under way, and none need come.
Quiet == up /\ \A t \in Threads : At(t, "idle")
Rest == Quiet /\ UNCHANGED vars

-----------------------------------------------------------------------------

Start(t) == \E u \in Users :
    \/ \E l \in FqnLists, tree \in Cat!Answers :
         \/ \E n \in Names, ty \in Types : StartCreate(t, u, n, ty, l, tree)
         \/ \E s \in StreamId : StartAdd(t, u, s, l, tree)
    \/ \E s \in StreamId :
         \/ StartRemove(t, u, s)
         \/ StartDelete(t, u, s)
         \/ StartRetry(t, u, s)
    \/ \E m \in members : StartApprove(t, u, m) \/ Reject(t, u, m)

\* The next step of a request that is under way.
Step(t) ==
    \/ Insert(t) \/ Provision(t) \/ ProvisionInUse(t) \/ FlagError(t)
    \/ GoLive(t) \/ Mint(t) \/ PutPolicy(t) \/ Record(t) \/ InsertMember(t)
    \/ Remove(t) \/ MarkDeleted(t) \/ Relive(t) \/ Reread(t)
    \/ ApproveLookup(t) \/ ReadLive(t) \/ Collect(t) \/ ApplyBegin(t)
    \/ ApplyStep(t) \/ ApplyDisturbed(t) \/ ApplyReturns(t) \/ FlagApply(t)
    \/ DelPolicy(t) \/ DelRole(t) \/ NoteRole(t) \/ DelResource(t)
    \/ NoteResource(t)

Fault(t) ==
    \/ ProvisionFails(t) \/ MintFails(t) \/ ApplyBeginFails(t)
    \/ ApplyFails(t) \/ DelRoleFails(t) \/ DelResourceFails(t)

Next ==
    \/ \E t \in Threads : Start(t) \/ Step(t) \/ Fault(t) \/ Startup(t)
    \/ Crash
    \/ \E n \in Sources, k \in Listing : Reclassify(n, k)
    \/ WorkersFetch
    \/ Rest

Spec == Init /\ [][Next]_vars

-----------------------------------------------------------------------------
(* What every interleaving keeps. *)

\* A source is granted to a stream, by this name, when somebody entitled to the
\* stream and in scope of the source asked for it on this stream, and either the
\* catalog had listed it as standard and that request saw it so, or that request
\* saw it sensitive and an administrator approved it for this stream.  A route is
\* legitimate when one name of what it matches is.
Granted(s, n) ==
    \E u \in Users :
      /\ MayAct(u, s)
      /\ InScope(u, n)
      /\ \/ <<s, u, n, "standard">> \in seen /\ <<n, "standard">> \in listed
         \/ <<s, u, n, "sensitive">> \in seen /\ <<s, n>> \in approvals
Legit(r) == \E n \in Sources : IdentityOf[n] = r[2] /\ Granted(r[1], n)

\* Whatever requests, failures, rollbacks, crashes and reclassifications have
\* interleaved, and however old or mixed the catalog's answers were, neither
\* the leader nor the workers ever hold a route that is not legitimate (the
\* sensitivity gate and the scope check of service.py, from the catalog's
\* listing all the way to the rollback of admin.py).
RoutedOnlyIfGranted ==
    \A r \in table \cup deployed \cup running : Legit(r)

\* A live stream has its resource_ref, although create_stream and retry write
\* the two on the strength of a row read several calls earlier; StreamSpec
\* and peek rely on it.
LiveHasRef == \A s \in StreamId : streams[s].status = "live" => streams[s].ref

\* A reapply that no other request overlapped and that succeeds leaves the
\* leader with exactly the fork set the database asks for, whatever earlier
\* interleavings, failed applies, half rollbacks or crashes left there: "any
\* later mutation re-syncs" (main.py).
SoloApplySyncs ==
    \A t \in Threads :
        (jobs[t].pc = "ok" /\ req[t].solo) => deployed = Desired

-----------------------------------------------------------------------------
(* What holds when requests are served one at a time (one thread).         *)

\* What its owner was promised of a stream, but for its routes.
Raised(s) ==
    /\ streams[s].status = "live"
    /\ ResourceOf(s) \in resources
    /\ streams[s].arn /\ roles[s].trust # None /\ roles[s].policy

\* A crash may stop the request that makes a stream; the row then shows it.
HalfMade(s) == streams[s].status = "provisioning" \/ ~streams[s].arn
LeftByCrash(s) == HalfMade(s) /\ used["crashes"] > 0

\* However its requests failed, a stream the owner can see is between requests
\* flagged with an error, left half-made by a crash, or live with its resource
\* and its role (create_stream, retry and their handlers).
FlaggedOrRaised ==
    Quiet => \A s \in StreamId : Alive(s) =>
                 streams[s].err \/ LeftByCrash(s) \/ Raised(s)

\* The request of t ends at its reapply: answered, or refused with a 502.
EndsAtReapply(t) ==
    /\ req[t].pc \in {"collect", "applying", "flagapply"}
    /\ req'[t].pc = "idle" /\ up'

\* A request that ends at its reapply leaves its own stream flagged or fully
\* served, with all its active sources in the deployed version; and if the apply
\* succeeded it leaves every stream so, also those that lost their routes to an
\* earlier rollback or never got them because of an IntegrityError.
FlaggedOrServed ==
    [][\A t \in Threads : EndsAtReapply(t) =>
         \A s \in StreamId :
           (/\ jobs[t].pc = "ok" \/ (s = Sid(t) /\ Op(t) # "startup")
            /\ Alive(s)' /\ ~streams'[s].err /\ ~LeftByCrash(s)') =>
              Raised(s)' /\ ActiveRoutes(s)' \subseteq deployed']_vars

\* The role that read_role_arn names exists, with its policy, for as long as
\* the stream does: also across crashes in the middle of a mint or a delete.
RecordedRoleExists ==
    \A s \in StreamId : (Alive(s) /\ streams[s].arn)
                           => roles[s].trust # None /\ roles[s].policy

\* A deleted stream stays deleted and out of the generated routes.
DeletedStaysDeleted ==
    [][\A s \in StreamId : streams[s].status = "deleted"
                              => streams'[s].status = "deleted"]_vars

\* A delete that is answered with 204 and has itself noted no failure leaves
\* nothing of the stream, neither its role nor the resource it had recorded: also
\* of a stream flagged before, whose role an earlier mint left half-made and
\* whose ARN is not recorded (the comment in delete_stream).
NoOrphans ==
    [][\A t \in Threads :
         LET s == Sid(t)
         IN (/\ req[t].pc \in {"delrole", "delresource"} /\ ~req[t].noted
             /\ req'[t].pc = "idle" /\ up') =>
               /\ roles'[s] = NoRole
               /\ streams[s].ref => ResourceOf(s) \notin resources']_vars

\* Between requests, when no stream reports an error, what is deployed is what
\* the database asks for: "the fork set is regenerated from portal DB state on
\* every change".
SyncedWhenQuiet ==
    (Quiet /\ \A s \in StreamId : ~streams[s].err) => deployed = Desired

-----------------------------------------------------------------------------
\* The thread pool runs every request it has taken up.
FairSpec == Spec /\ \A t \in Threads : WF_vars(Step(t) \/ Startup(t))

\* Every request is answered: no sequence of failures leaves one waiting.
EveryRequestEnds == \A t \in Threads : ~At(t, "idle") ~> At(t, "idle")

=============================================================================
