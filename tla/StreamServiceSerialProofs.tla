--------------------- MODULE StreamServiceSerialProofs ---------------------
(***************************************************************************)
(* What StreamService promises when requests are served one at a time, for *)
(* every value of the other constants: crashes, failures of any call to    *)
(* AWS or the leader and reclassifications included.                       *)
(*                                                                         *)
(*   RecordedRoleExistsHolds    from RoleInv                               *)
(*   DeletedStaysDeletedHolds   from RoleInv                               *)
(*   NoOrphansHolds             from RoleInv                               *)
(*   FlaggedOrRaisedHolds       from SafeInv and UncrashedInv              *)
(*   FlaggedOrServedHolds       from the same, and SyncInv                 *)
(*                                                                         *)
(* SafeInv holds across crashes: which request may make or take down a     *)
(* stream (RoleInv), that visible streams have names (NameInv) and thereby *)
(* resources (ResourceInv) of their own, that status 'error' comes with a  *)
(* last_error (ErrInv), and that every reapply is solo (SoloInv), so that  *)
(* SyncInv speaks of each.  Until the first crash UncrashedInv adds that a *)
(* stream that no request is making is flagged, or live with its ARN.      *)
(***************************************************************************)
EXTENDS StreamServiceSyncProofs

\* The requests are served one after the other.
OneThread == \A t, o \in Threads : t = o

-----------------------------------------------------------------------------
(* Who makes a stream and who takes it down. *)

Making == {"provision", "golive", "flag", "mint", "putpolicy", "record",
           "relive", "reread"}
Deleting == {"delpolicy", "delrole", "noterole", "delresource", "noteresource"}

\* delete_stream once the row says so.
Gone(t) == Op(t) = "delete" /\ ~At(t, "markdeleted")

OnStreams(t) ==
    /\ req[t].pc \in Making =>
         Op(t) \in {"create", "retry"} /\ Alive(Sid(t))
    /\ req[t].pc \in Deleting \cup {"markdeleted"} => Op(t) = "delete"
    /\ At(t, "insert") => Op(t) = "create"
    /\ At(t, "markdeleted") => Alive(Sid(t))
    /\ Op(t) = "delete" =>
         /\ req[t].pc \in Deleting \cup ResyncPc \cup {"markdeleted"}
         /\ req[t].ref <=> streams[Sid(t)].ref
    /\ Gone(t) => streams[Sid(t)].status = "deleted"

RolesDone(t) ==
    /\ At(t, "putpolicy") => roles[Sid(t)].trust # None
    /\ At(t, "record") => roles[Sid(t)].trust # None /\ roles[Sid(t)].policy
    /\ req[t].pc \in {"delresource", "noteresource"} =>
         roles[Sid(t)] = NoRole \/ req[t].noted

RoleInv ==
    /\ \A t \in Threads : OnStreams(t) /\ RolesDone(t)
    /\ RecordedRoleExists

-----------------------------------------------------------------------------
(* Names and resources. *)

NameInv ==
    /\ \A s, o \in StreamId :
         (Alive(s) /\ Alive(o) /\ streams[s].name = streams[o].name) => s = o
    /\ \A t \in Threads : Gone(t) => ~AliveName(streams[Sid(t)].name)

ResourceInv ==
    /\ \A s \in StreamId : (Alive(s) /\ streams[s].ref) => ResourceOf(s) \in resources
    /\ \A t \in Threads : At(t, "golive") => ResourceOf(Sid(t)) \in resources

-----------------------------------------------------------------------------
(* Between requests every visible stream is flagged or up. *)

\* With one thread every reapply is solo.
SoloInv == \A t \in Threads :
              req[t].pc \in {"collect", "apply", "applying"} => req[t].solo

ErrInv == \A s \in StreamId : streams[s].status = "error" => streams[s].err

\* The request of t has yet to bring s up.
Raising(t, s) == s = Sid(t) /\ req[t].pc \in Making \ {"relive"}
Up(s) == streams[s].status = "live" /\ streams[s].arn

RaisedInv ==
    /\ \A s \in StreamId : (Alive(s) /\ \A t \in Threads : ~Raising(t, s))
                              => streams[s].err \/ Up(s)
    /\ \A t \in Threads : req[t].pc \in {"reread", "mint", "putpolicy", "record"}
                             => streams[Sid(t)].status = "live"

SafeInv == RoleInv /\ NameInv /\ ResourceInv /\ ErrInv /\ SoloInv
UncrashedInv == used["crashes"] = 0 => RaisedInv

-----------------------------------------------------------------------------
(* What a step does to the request and to the row of its stream.           *)

\* The request goes on at pc, or is over.
To(t, pc) ==
    /\ req'[t].pc = pc
    /\ pc # "delresource" => req'[t].noted = req[t].noted
    /\ req'[t].op = req[t].op /\ req'[t].sid = req[t].sid
    /\ req'[t].ref = req[t].ref /\ req'[t].row = req[t].row
    /\ req'[t].todo = req[t].todo
Over(t) ==
    /\ req'[t].pc = "idle" /\ req'[t].op = "none" /\ req'[t].todo = {}

LEMMA GotoTo == ASSUME TypeInv, NEW t \in Threads, NEW pc, Goto(t, pc) PROVE To(t, pc)
  BY DEF Goto, To, TypeInv, TypeOK, Request

LEMMA AfterRoleTo ==
    ASSUME TypeInv, NEW t \in Threads, NEW noted, AfterRole(t, noted)
    PROVE  IF req[t].ref THEN To(t, "delresource") /\ req'[t].noted = noted ELSE Over(t)
<1>1. CASE req[t].ref
  <2>1. req' = [req EXCEPT ![t].pc = "delresource", ![t].noted = noted]
    BY <1>1 DEF AfterRole
  <2> QED BY <1>1, <2>1 DEF To, TypeInv, TypeOK, Request
<1>2. CASE ~req[t].ref
  BY <1>2 DEF AfterRole, Finish, Over, Idle, TypeInv, TypeOK
<1> QED BY <1>1, <1>2

LEMMA FaultToIs ==
    ASSUME TypeInv, NEW t \in Threads, NEW pc, FaultTo(t, pc) PROVE To(t, pc)
  BY GotoTo DEF FaultTo

LEMMA FinishOver == ASSUME TypeInv, NEW t \in Threads, Finish(t) PROVE Over(t)
  BY DEF Finish, Over, Idle, TypeInv, TypeOK

LEMMA IdleOver == ASSUME NEW t \in Threads, req'[t] = Idle PROVE Over(t)
  BY DEF Over, Idle

\* The row of t's stream gets a status, a reference, an error and an ARN; no
\* other row changes.
Becomes(t, status, ref, err, arn) ==
    /\ \A s \in StreamId :
         /\ streams'[s].name = streams[s].name /\ streams'[s].type = streams[s].type
         /\ s # Sid(t) => streams'[s] = streams[s]
    /\ streams'[Sid(t)].status = status
    /\ streams'[Sid(t)].ref <=> ref
    /\ streams'[Sid(t)].err <=> err
    /\ streams'[Sid(t)].arn <=> arn

\* The row as it is now.
StatusOf(t) == streams[Sid(t)].status
RefOf(t) == streams[Sid(t)].ref
ErrOf(t) == streams[Sid(t)].err
ArnOf(t) == streams[Sid(t)].arn

LEMMA FlagErrorIs ==
    ASSUME TypeInv, NEW t \in Threads, OnStreams(t), FlagError(t)
    PROVE  Sid(t) \in StreamId /\ Over(t) /\ Becomes(t, "error", RefOf(t), TRUE, ArnOf(t))
<1>1. Sid(t) \in StreamId
  BY OnStream DEF FlagError, At, NoSid, ResyncPc
<1>2. streams[Sid(t)].status # "deleted"
  BY DEF FlagError, At, OnStreams, Making, Alive
<1>3. streams' = [streams EXCEPT ![Sid(t)].status = "error", ![Sid(t)].err = TRUE]
  BY <1>2 DEF FlagError, NameClash
<1> QED BY <1>1, <1>3, FinishOver
        DEF FlagError, Becomes, RefOf, ArnOf, TypeInv, TypeOK, Stream

LEMMA GoLiveIs ==
    ASSUME TypeInv, NEW t \in Threads, OnStreams(t), GoLive(t)
    PROVE  /\ Sid(t) \in StreamId
           /\ To(t, "mint") \/ To(t, "reread")
           /\ Becomes(t, "live", TRUE, FALSE, ArnOf(t))
<1>1. Sid(t) \in StreamId
  BY OnStream DEF GoLive, At, NoSid, ResyncPc
<1>2. streams[Sid(t)].status # "deleted"
  BY DEF GoLive, At, OnStreams, Making, Alive
<1>3. /\ streams' = [streams EXCEPT ![Sid(t)].status = "live",
                             ![Sid(t)].ref = TRUE, ![Sid(t)].err = FALSE]
      /\ Goto(t, "mint") \/ Goto(t, "reread")
  BY <1>2 DEF GoLive, NameClash
<1>4. To(t, "mint") \/ To(t, "reread")
  BY <1>3, GotoTo
<1> QED BY <1>1, <1>3, <1>4 DEF Becomes, ArnOf, TypeInv, TypeOK, Stream

LEMMA ReliveIs ==
    ASSUME TypeInv, NEW t \in Threads, OnStreams(t), Relive(t)
    PROVE  /\ Sid(t) \in StreamId /\ To(t, "reread")
           /\ Becomes(t, "live", RefOf(t), FALSE, ArnOf(t))
<1>1. Sid(t) \in StreamId
  BY OnStream DEF Relive, At, NoSid, ResyncPc
<1>2. streams[Sid(t)].status # "deleted"
  BY DEF Relive, At, OnStreams, Making, Alive
<1>3. /\ streams' = [streams EXCEPT ![Sid(t)].status = "live", ![Sid(t)].err = FALSE]
      /\ Goto(t, "reread")
  BY <1>2 DEF Relive, NameClash
<1>4. To(t, "reread")
  BY <1>3, GotoTo
<1> QED BY <1>1, <1>3, <1>4 DEF Becomes, RefOf, ArnOf, TypeInv, TypeOK, Stream

LEMMA RecordIs ==
    ASSUME TypeInv, NEW t \in Threads, Record(t)
    PROVE  /\ Sid(t) \in StreamId
           /\ To(t, "members") \/ To(t, "reapply")
           /\ Becomes(t, StatusOf(t), RefOf(t), ErrOf(t), TRUE)
<1>1. Sid(t) \in StreamId
  BY OnStream DEF Record, At, NoSid, ResyncPc
<1>2. To(t, "members") \/ To(t, "reapply")
  BY GotoTo DEF Record
<1> QED BY <1>1, <1>2 DEF Record, Becomes, StatusOf, RefOf, ErrOf, TypeInv, TypeOK, Stream

LEMMA MarkDeletedIs ==
    ASSUME TypeInv, NEW t \in Threads, MarkDeleted(t)
    PROVE  /\ Sid(t) \in StreamId /\ To(t, "reapply")
           /\ Becomes(t, "deleted", RefOf(t), ErrOf(t), ArnOf(t))
<1>1. Sid(t) \in StreamId
  BY OnStream DEF MarkDeleted, At, NoSid, ResyncPc
<1> QED BY <1>1, GotoTo
        DEF MarkDeleted, Becomes, RefOf, ErrOf, ArnOf, TypeInv, TypeOK, Stream

LEMMA SetErrIs ==
    ASSUME TypeInv, NEW t \in Threads, FlagApply(t) \/ NoteRole(t) \/ NoteResource(t)
    PROVE  /\ Sid(t) \in StreamId
           /\ \/ Over(t)
              \/ At(t, "noterole") /\ To(t, "delresource") /\ req'[t].noted
           /\ Becomes(t, StatusOf(t), RefOf(t), TRUE, ArnOf(t))
<1>1. Sid(t) \in StreamId
  BY OnStream DEF FlagApply, NoteRole, NoteResource, At, NoSid, ResyncPc
<1>2. SetErr(t)
  BY DEF FlagApply, NoteRole, NoteResource
<1>3. Becomes(t, StatusOf(t), RefOf(t), TRUE, ArnOf(t))
  BY <1>1, <1>2 DEF SetErr, Becomes, StatusOf, RefOf, ArnOf, TypeInv, TypeOK, Stream
<1>4. Over(t) \/ (At(t, "noterole") /\ To(t, "delresource") /\ req'[t].noted)
  BY AfterRoleTo, FinishOver DEF FlagApply, NoteRole, NoteResource
<1> QED BY <1>1, <1>3, <1>4

\* The request gets the first unused id, with a row that is new.
Inserts(t, s) ==
    /\ streams[s].status = "absent"
    /\ \A o \in StreamId \ {s} : streams'[o] = streams[o]
    /\ streams'[s].status = "provisioning" /\ streams'[s].name = req[t].name
    /\ ~streams'[s].ref /\ ~streams'[s].err /\ ~streams'[s].arn
    /\ req'[t].pc = "provision" /\ req'[t].sid = s /\ req'[t].op = req[t].op
    /\ req'[t].ref = req[t].ref /\ req'[t].row = req[t].row
    /\ req'[t].todo = req[t].todo

LEMMA InsertIs ==
    ASSUME TypeInv, NEW t \in Threads, Insert(t)
    PROVE  \/ Over(t) /\ UNCHANGED streams
           \/ ~AliveName(req[t].name) /\ \E s \in StreamId : Inserts(t, s)
<1>1. CASE AliveName(req[t].name)
  BY <1>1, FinishOver DEF Insert
<1>2. CASE ~AliveName(req[t].name)
  <2>1. PICK s \in StreamId :
           /\ streams[s].status = "absent"
           /\ streams' = [streams EXCEPT ![s] =
                [NoStream EXCEPT !.status = "provisioning", !.owner = req[t].user,
                   !.name = req[t].name, !.type = req[t].type]]
           /\ req' = [req EXCEPT ![t].pc = "provision", ![t].sid = s]
    BY <1>2 DEF Insert
  <2> DEFINE r == [NoStream EXCEPT !.status = "provisioning", !.owner = req[t].user,
                   !.name = req[t].name, !.type = req[t].type]
  <2>2. /\ r.status = "provisioning" /\ r.name = req[t].name
        /\ ~r.ref /\ ~r.err /\ ~r.arn
    BY DEF NoStream
  <2>3. streams' = [streams EXCEPT ![s] = r]
    BY <2>1
  <2> HIDE DEF r
  <2>4. /\ req'[t].pc = "provision" /\ req'[t].sid = s /\ req'[t].op = req[t].op
        /\ req'[t].ref = req[t].ref /\ req'[t].row = req[t].row
        /\ req'[t].todo = req[t].todo
    BY <2>1 DEF TypeInv, TypeOK, Request
  <2>5. streams'[s] = r /\ \A o \in StreamId \ {s} : streams'[o] = streams[o]
    BY <2>3 DEF TypeInv, TypeOK
  <2>6. Inserts(t, s)
    BY <2>1, <2>2, <2>4, <2>5 DEF Inserts
  <2> QED BY <1>2, <2>6
<1> QED BY <1>1, <1>2

\* A row is inserted for the first source that is left.
Adds(t, p) ==
    /\ p[2] \notin SourcesOf(Sid(t))
    /\ lastRow' = lastRow + 1
    /\ members' = members \cup
          {[id |-> lastRow + 1, sid |-> Sid(t), src |-> p[2],
            status |-> GateStatus(p[3]), by |-> req[t].user]}
    /\ req'[t].pc \in {"members", "reapply"}
    /\ req'[t].todo = req[t].todo \ {p}
    /\ req'[t].sid = req[t].sid /\ req'[t].op = req[t].op
    /\ req'[t].ref = req[t].ref /\ req'[t].row = req[t].row

LEMMA InsertMemberIs ==
    ASSUME TypeInv, NEW t \in Threads, InsertMember(t)
    PROVE  \E p \in req[t].todo :
             \/ /\ p[2] \in SourcesOf(Sid(t))
                /\ Over(t) /\ UNCHANGED <<members, lastRow>>
             \/ Adds(t, p)
<1>1. PICK p \in req[t].todo :
         IF p[2] \in SourcesOf(Sid(t))
         THEN Finish(t) /\ UNCHANGED <<members, lastRow>>
         ELSE /\ lastRow' = lastRow + 1
              /\ members' = members \cup
                   {[id |-> lastRow + 1, sid |-> Sid(t), src |-> p[2],
                     status |-> GateStatus(p[3]), by |-> req[t].user]}
              /\ req' = [req EXCEPT ![t].todo = @ \ {p},
                   ![t].pc = IF req[t].todo = {p} THEN "reapply" ELSE "members"]
  BY DEF InsertMember
<1>2. CASE p[2] \in SourcesOf(Sid(t))
  BY <1>1, <1>2, FinishOver
<1>3. CASE p[2] \notin SourcesOf(Sid(t))
  <2>1. /\ req'[t].pc \in {"members", "reapply"}
        /\ req'[t].todo = req[t].todo \ {p}
        /\ req'[t].sid = req[t].sid /\ req'[t].op = req[t].op
        /\ req'[t].ref = req[t].ref /\ req'[t].row = req[t].row
    BY <1>1, <1>3 DEF TypeInv, TypeOK, Request
  <2> QED BY <1>1, <1>3, <2>1 DEF Adds
<1> QED BY <1>2, <1>3

\* The request finds the stream of its row.
Finds(t, m) ==
    /\ m.id = req[t].row
    /\ req'[t].pc = "reapply" /\ req'[t].sid = m.sid /\ req'[t].op = req[t].op
    /\ req'[t].ref = req[t].ref /\ req'[t].row = req[t].row
    /\ req'[t].todo = req[t].todo

LEMMA ApproveLookupIs ==
    ASSUME TypeInv, NEW t \in Threads, ApproveLookup(t)
    PROVE  \/ (\A m \in members : m.id # req[t].row) /\ Over(t)
           \/ \E m \in members : Finds(t, m)
<1>1. ASSUME NEW m \in members, m.id = req[t].row,
             req' = [req EXCEPT ![t].pc = "reapply", ![t].sid = m.sid]
      PROVE Finds(t, m)
  BY <1>1 DEF Finds, TypeInv, TypeOK, Request
<1> QED BY <1>1, FinishOver DEF ApproveLookup

\* The rest of the moves only change where the request is.
LEMMA ReapplyTo ==
    ASSUME TypeInv, NEW t \in Threads, ReadLive(t) \/ Collect(t)
    PROVE  \/ To(t, "collect") \/ To(t, "apply")
           \/ Collect(t) /\ Op(t) \notin {"startup", "delete"} /\ To(t, "flagapply")
           \/ Collect(t) /\ Op(t) \in {"startup", "delete"} /\ Over(t)
<1>1. CASE ReadLive(t)
  <2> DEFINE pc == IF LiveStreams = {} THEN "apply" ELSE "collect"
             solo == \A o \in Threads \ {t} : At(o, "idle")
  <2>0. req' = [req EXCEPT ![t].live = LiveStreams, ![t].want = {},
                         ![t].solo = solo, ![t].pc = pc]
    BY <1>1 DEF ReadLive
  <2>1. pc \in {"apply", "collect"}
    OBVIOUS
  <2> HIDE DEF solo, pc
  <2>2. To(t, pc)
    BY <2>0 DEF To, TypeInv, TypeOK, Request
  <2> QED BY <2>1, <2>2
<1>2. CASE Collect(t)
  <2>1. ASSUME AfterValueError(t)
        PROVE  \/ Op(t) \notin {"startup", "delete"} /\ To(t, "flagapply")
               \/ Op(t) \in {"startup", "delete"} /\ Over(t)
    BY <2>1, GotoTo, FinishOver DEF AfterValueError
  <2>2. ASSUME NEW s \in req[t].live,
               req' = [req EXCEPT ![t].live = @ \ {s},
                              ![t].want = @ \cup ActiveRoutes(s),
                              ![t].pc = IF req[t].live = {s} THEN "apply"
                                        ELSE "collect"]
        PROVE  To(t, "collect") \/ To(t, "apply")
    BY <2>2 DEF To, TypeInv, TypeOK, Request
  <2> QED BY <1>2, <2>1, <2>2 DEF Collect
<1> QED BY <1>1, <1>2

LEMMA ApplyTo ==
    ASSUME TypeInv, NEW t \in Threads,
           \/ ApplyBegin(t) \/ ApplyBeginFails(t) \/ ApplyStep(t)
           \/ ApplyDisturbed(t) \/ ApplyFails(t)
    PROVE  To(t, "applying")
<1>1. (req' = req /\ At(t, "applying")) \/ Goto(t, "applying")
  BY DEF ApplyBegin, ApplyBeginFails, ApplyStep, ApplyDisturbed, ApplyFails, FaultTo
<1> QED BY <1>1, GotoTo DEF To, At

LEMMA ReturnsTo ==
    ASSUME TypeInv, NEW t \in Threads, ApplyReturns(t)
    PROVE  \/ Op(t) = "startup" /\ Over(t)
           \/ Op(t) = "delete" /\ To(t, "delpolicy")
           \/ /\ Op(t) \notin {"startup", "delete"}
              /\ \/ jobs[t].pc = "ok" /\ Over(t)
                 \/ To(t, "flagapply")
  BY GotoTo, FinishOver DEF ApplyReturns, Pipe!At

LEMMA DelTo ==
    ASSUME TypeInv, NEW t \in Threads
    PROVE  /\ DelPolicy(t) => To(t, "delrole")
           /\ DelRole(t) =>
                \/ roles[Sid(t)].policy /\ To(t, "noterole")
                \/ /\ ~roles[Sid(t)].policy
                   /\ \/ req[t].ref /\ To(t, "delresource")
                      \/ ~req[t].ref /\ Over(t)
           /\ DelResource(t) =>
                IF ResourceOf(Sid(t)) \in resources THEN Over(t) ELSE To(t, "noteresource")
           /\ DelRoleFails(t) => To(t, "noterole")
           /\ DelResourceFails(t) => To(t, "noteresource")
  BY GotoTo, FaultToIs, AfterRoleTo, FinishOver
     DEF DelPolicy, DelRole, DelResource, DelRoleFails, DelResourceFails

LEMMA MakeTo ==
    ASSUME TypeInv, NEW t \in Threads
    PROVE  /\ Provision(t) => To(t, "golive")
           /\ ProvisionInUse(t) \/ ProvisionFails(t) \/ MintFails(t) => To(t, "flag")
           /\ Mint(t) => To(t, "putpolicy")
           /\ PutPolicy(t) => IF roles[Sid(t)].trust = None THEN To(t, "flag")
                              ELSE To(t, "record")
           /\ Reread(t) => IF ~Alive(Sid(t)) THEN Over(t)
                           ELSE To(t, IF streams[Sid(t)].arn THEN "reapply" ELSE "mint")
           /\ Remove(t) => To(t, "reapply") \/ (SourcesOf(Sid(t)) = {} /\ Over(t))
  BY GotoTo, FaultToIs, FinishOver
     DEF Provision, ProvisionInUse, ProvisionFails, MintFails, Mint, PutPolicy, Reread,
         Remove

-----------------------------------------------------------------------------
(* The first step of a request. *)

BeginsNew(t, l, tree) ==
    /\ req'[t].pc = "insert" /\ req'[t].op = "create"
    /\ req'[t].todo = Resolve(l, tree)
    /\ UNCHANGED members

BeginsAdd(t, s, l, tree) ==
    /\ Alive(s)
    /\ req'[t].pc = "members" /\ req'[t].op = "add" /\ req'[t].sid = s
    /\ req'[t].todo = Fresh(s, l, tree)
    /\ UNCHANGED members

BeginsOn(t, op, pc, s) ==
    /\ Alive(s)
    /\ req'[t].pc = pc /\ req'[t].op = op /\ req'[t].sid = s
    /\ req'[t].todo = {} /\ req'[t].ref = streams[s].ref
    /\ UNCHANGED members

Entries == {<<"remove", "remove">>, <<"delete", "markdeleted">>,
            <<"retry", "relive">>, <<"retry", "provision">>}

BeginsApprove(t, m) ==
    /\ m.status = "pending_approval" /\ Decide(m, "active")
    /\ req'[t].pc = "approved" /\ req'[t].op = "approve"
    /\ req'[t].row = m.id /\ req'[t].todo = {}

Rejects(t, m) ==
    m.status = "pending_approval" /\ Decide(m, "rejected") /\ Over(t)

Begins(t) ==
    \/ \E l \in FqnLists, tree \in Cat!Answers : BeginsNew(t, l, tree)
    \/ \E s \in StreamId, l \in FqnLists, tree \in Cat!Answers : BeginsAdd(t, s, l, tree)
    \/ \E s \in StreamId, e \in Entries : BeginsOn(t, e[1], e[2], s)
    \/ \E m \in members : BeginsApprove(t, m) \/ Rejects(t, m)

LEMMA StartBegins ==
    ASSUME NEW t \in Threads, Start(t)
    PROVE  /\ Begins(t) /\ At(t, "idle")
           /\ UNCHANGED <<streams, lastRow, roles, resources, up, pipeVars>>
<1>0. UNCHANGED <<streams, lastRow, roles, resources, up, pipeVars>> /\ At(t, "idle")
  BY StartLeaves DEF worldVars, Accept
<1>1. ASSUME NEW op, NEW r, Accept(t, op, r) PROVE req'[t] = r
  BY <1>1 DEF Accept
<1>2. ASSUME NEW u \in Users, NEW n \in Names, NEW ty \in Types, NEW l \in FqnLists,
             NEW tree \in Cat!Answers, StartCreate(t, u, n, ty, l, tree)
      PROVE BeginsNew(t, l, tree)
  <2> DEFINE r == [Idle EXCEPT !.pc = "insert", !.op = "create", !.user = u,
                               !.name = n, !.type = ty, !.todo = Resolve(l, tree)]
  <2>1. r.pc = "insert" /\ r.op = "create" /\ r.todo = Resolve(l, tree)
    BY DEF Idle
  <2>2. Accept(t, "create", r) /\ UNCHANGED members
    BY <1>2 DEF StartCreate, dbVars
  <2> HIDE DEF r
  <2> QED BY <1>1, <2>1, <2>2 DEF BeginsNew
<1>3. ASSUME NEW u \in Users, NEW s \in StreamId, NEW l \in FqnLists,
             NEW tree \in Cat!Answers, StartAdd(t, u, s, l, tree)
      PROVE BeginsAdd(t, s, l, tree)
  <2> DEFINE r == [Idle EXCEPT !.pc = "members", !.op = "add", !.user = u,
                               !.sid = s, !.todo = Fresh(s, l, tree)]
  <2>1. r.pc = "members" /\ r.op = "add" /\ r.sid = s /\ r.todo = Fresh(s, l, tree)
    BY DEF Idle
  <2>2. Accept(t, "add", r) /\ UNCHANGED members /\ Alive(s)
    BY <1>3 DEF StartAdd, dbVars
  <2> HIDE DEF r
  <2> QED BY <1>1, <2>1, <2>2 DEF BeginsAdd
<1>4. ASSUME NEW u \in Users, NEW s \in StreamId, NEW op, NEW pc,
             StartOn(t, op, pc, u, s)
      PROVE BeginsOn(t, op, pc, s)
  <2> DEFINE r == [Idle EXCEPT !.pc = pc, !.op = op, !.user = u, !.sid = s,
                               !.ref = streams[s].ref]
  <2>1. /\ r.pc = pc /\ r.op = op /\ r.sid = s /\ r.todo = {}
        /\ r.ref = streams[s].ref
    BY DEF Idle
  <2>2. Accept(t, op, r) /\ UNCHANGED members /\ Alive(s)
    BY <1>4 DEF StartOn, dbVars
  <2> HIDE DEF r
  <2> QED BY <1>1, <2>1, <2>2 DEF BeginsOn
<1>5. ASSUME NEW u \in Users, NEW s \in StreamId,
             StartRemove(t, u, s) \/ StartDelete(t, u, s) \/ StartRetry(t, u, s)
      PROVE \E e \in Entries : BeginsOn(t, e[1], e[2], s)
  <2>1. \/ BeginsOn(t, "remove", "remove", s) \/ BeginsOn(t, "delete", "markdeleted", s)
        \/ BeginsOn(t, "retry", "relive", s) \/ BeginsOn(t, "retry", "provision", s)
    BY <1>4, <1>5 DEF StartRemove, StartDelete, StartRetry
  <2> QED BY <2>1 DEF Entries
<1>6. ASSUME NEW u \in Users, NEW m \in members, StartApprove(t, u, m)
      PROVE BeginsApprove(t, m)
  <2> DEFINE r == [Idle EXCEPT !.pc = "approved", !.op = "approve", !.user = u,
                               !.row = m.id]
  <2>1. /\ r.pc = "approved" /\ r.op = "approve" /\ r.row = m.id /\ r.todo = {}
    BY DEF Idle
  <2>2. Accept(t, "approve", r)
    BY <1>6 DEF StartApprove
  <2> HIDE DEF r
  <2> QED BY <1>1, <1>6, <2>1, <2>2 DEF BeginsApprove, StartApprove
<1>7. ASSUME NEW u \in Users, NEW m \in members, Reject(t, u, m) PROVE Rejects(t, m)
  BY <1>1, <1>7, IdleOver DEF Rejects, Reject
<1> QED BY <1>0, <1>2, <1>3, <1>5, <1>6, <1>7 DEF Start, Begins

\* What happens around the requests leaves the database and AWS alone.
LEMMA WorldLeaves ==
    ASSUME \/ Crash \/ WorkersFetch \/ Rest \/ UNCHANGED vars
           \/ \E t \in Threads : Startup(t)
           \/ \E n \in Sources, k \in Listing : Reclassify(n, k)
    PROVE  UNCHANGED <<streams, members, lastRow, roles, resources>>
  BY DEF Crash, WorkersFetch, Rest, vars, Startup, Reclassify, dbVars, worldVars

\* ... and the requests, unless the portal stops or starts.
LEMMA WorldOver ==
    ASSUME TypeInv, NEW t \in Threads,
           \/ Crash \/ WorkersFetch \/ Rest \/ UNCHANGED vars
           \/ \E o \in Threads : Startup(o)
           \/ \E n \in Sources, k \in Listing : Reclassify(n, k)
    PROVE  \/ UNCHANGED req \/ Over(t) \/ req'[t] = req[t]
           \/ req'[t].pc = "reapply" /\ req'[t].op = "startup" /\ req'[t].todo = {}
<1>1. ASSUME NEW o \in Threads, Startup(o)
      PROVE \/ req'[t] = req[t]
            \/ req'[t].pc = "reapply" /\ req'[t].op = "startup" /\ req'[t].todo = {}
  BY <1>1 DEF Startup, Idle, TypeInv, TypeOK
<1>2. CASE Crash
  BY <1>2, IdleOver DEF Crash
<1> QED BY <1>1, <1>2 DEF WorkersFetch, Rest, vars, Reclassify

-----------------------------------------------------------------------------
(* Roles: made before they are recorded, deleted after the stream is.      *)

\* It is enough to look at the one thread.
LEMMA RoleOne ==
    ASSUME OneThread, NEW t \in Threads, OnStreams(t)', RolesDone(t)',
           RecordedRoleExists'
    PROVE  RoleInv'
  BY DEF OneThread, RoleInv

\* Nothing is asked of a request that is over.
LEMMA OverAsksNothing ==
    ASSUME NEW t \in Threads, Over(t) PROVE OnStreams(t)' /\ RolesDone(t)'
  BY DEF Over, OnStreams, RolesDone, Gone, At, Op, Making, Deleting

\* A request on a stream, by its place.
LEMMA SidIs ==
    ASSUME TypeInv, NEW t \in Threads
    PROVE  /\ req[t].pc \notin NoSid \cup ResyncPc => Sid(t) \in StreamId
           /\ Op(t) \in AllOps /\ req[t].pc \notin NoSid => Sid(t) \in StreamId
           /\ Op(t) = "none" <=> req[t].pc = "idle"
  BY OnStream, GoodIsRequest DEF Actor, Op, Sid

\* The moves that change neither a stream nor a role.
Moves(t) ==
    \/ Provision(t) \/ ProvisionInUse(t) \/ ProvisionFails(t)
    \/ Reread(t) \/ Remove(t) \/ InsertMember(t) \/ ApproveLookup(t)
    \/ ReadLive(t) \/ Collect(t) \/ ApplyBegin(t) \/ ApplyBeginFails(t)
    \/ ApplyStep(t) \/ ApplyDisturbed(t) \/ ApplyFails(t) \/ ApplyReturns(t)
    \/ DelResource(t) \/ DelResourceFails(t)

Updates(t) ==
    \/ FlagError(t) \/ GoLive(t) \/ Relive(t) \/ Record(t) \/ MarkDeleted(t)
    \/ FlagApply(t) \/ NoteRole(t) \/ NoteResource(t)

RoleMoves(t) ==
    \/ Mint(t) \/ PutPolicy(t) \/ MintFails(t)
    \/ DelPolicy(t) \/ DelRole(t) \/ DelRoleFails(t)

LEMMA StepKinds ==
    ASSUME NEW t \in Threads, Step(t) \/ Fault(t)
    PROVE  Insert(t) \/ Moves(t) \/ Updates(t) \/ RoleMoves(t)
  BY DEF Step, Fault, Moves, Updates, RoleMoves

LEMMA MovesLeave ==
    ASSUME NEW t \in Threads, Moves(t) PROVE UNCHANGED <<streams, roles>>
  BY DEF Moves, Provision, ProvisionInUse, ProvisionFails, Reread, Remove,
     InsertMember, ApproveLookup, ReadLive, Collect, ApplyBegin, ApplyBeginFails,
     ApplyStep, ApplyDisturbed, ApplyFails, ApplyReturns, DelResource,
     DelResourceFails, dbVars, worldVars

LEMMA RoleMovesLeave ==
    ASSUME NEW t \in Threads, RoleMoves(t) PROVE UNCHANGED streams
  BY DEF RoleMoves, Mint, PutPolicy, MintFails, DelPolicy, DelRole, DelRoleFails, dbVars

\* Where a request on a stream goes without changing a stream or a role.
LEMMA PlainMoves ==
    ASSUME TypeInv, NEW t \in Threads, OnStreams(t), RolesDone(t),
           UNCHANGED <<streams, roles>>, NEW pc, To(t, pc),
           \/ req[t].pc \in Making /\ pc \in {"golive", "flag", "reapply", "mint"}
           \/ req[t].pc \in ResyncPc /\ pc \in ResyncPc
           \/ /\ Op(t) # "delete" /\ pc \in {"reapply", "members", "flagapply"}
           \/ Op(t) = "delete" /\ req[t].pc # "markdeleted" /\ pc = "delpolicy"
           \/ req[t].pc = "delresource" /\ pc = "noteresource"
    PROVE  OnStreams(t)' /\ RolesDone(t)'
<1> USE DEF To, OnStreams, RolesDone, Gone, At, Op, Sid, Making, Deleting, ResyncPc, Alive
<1>1. OnStreams(t)'
  OBVIOUS
<1>2. RolesDone(t)'
  OBVIOUS
<1> QED BY <1>1, <1>2

LEMMA MovesRole ==
    ASSUME TypeInv, OneThread, RoleInv, NEW t \in Threads, Moves(t)
    PROVE  RoleInv'
<1>0. OnStreams(t) /\ RolesDone(t) /\ RecordedRoleExists
  BY DEF RoleInv
<1>1. UNCHANGED <<streams, roles>>
  BY MovesLeave
<1>2. RecordedRoleExists'
  BY <1>0, <1>1 DEF RecordedRoleExists, Alive
<1>3. OnStreams(t)' /\ RolesDone(t)'
  <2>1. CASE \/ Provision(t) \/ ProvisionInUse(t) \/ ProvisionFails(t) \/ Reread(t)
    <3>1. /\ req[t].pc \in Making
          /\ Over(t) \/ \E pc \in {"golive", "flag", "reapply", "mint"} : To(t, pc)
      BY <2>1, MakeTo DEF Provision, ProvisionInUse, ProvisionFails, Reread, At, Making
    <3> QED BY <1>0, <1>1, <3>1, PlainMoves, OverAsksNothing
  <2>2. CASE Remove(t)
    <3>1. Op(t) # "delete"
      BY <1>0, <2>2 DEF Remove, At, OnStreams, Deleting, ResyncPc
    <3>2. Over(t) \/ To(t, "reapply")
      BY <2>2, MakeTo
    <3> QED BY <1>0, <1>1, <3>1, <3>2, PlainMoves, OverAsksNothing
  <2>3. CASE InsertMember(t)
    <3>1. Op(t) # "delete"
      BY <1>0, <2>3 DEF InsertMember, At, OnStreams, Deleting, ResyncPc
    <3>2. \/ Over(t)
          \/ req'[t].pc \in {"members", "reapply"} /\ req'[t].op = req[t].op
      BY <2>3, InsertMemberIs DEF Adds
    <3>3. ASSUME req'[t].pc \in {"members", "reapply"}, req'[t].op = req[t].op
          PROVE OnStreams(t)' /\ RolesDone(t)'
      BY <3>1, <3>3 DEF OnStreams, RolesDone, Gone, At, Op, Making, Deleting
    <3> QED BY <3>2, <3>3, OverAsksNothing
  <2>4. CASE ApproveLookup(t)
    <3>1. Op(t) # "delete"
      BY <1>0, <2>4 DEF ApproveLookup, At, OnStreams, Deleting, ResyncPc
    <3>2. Over(t) \/ (req'[t].pc = "reapply" /\ req'[t].op = req[t].op)
      BY <2>4, ApproveLookupIs DEF Finds
    <3>3. ASSUME req'[t].pc = "reapply", req'[t].op = req[t].op
          PROVE OnStreams(t)' /\ RolesDone(t)'
      BY <3>1, <3>3 DEF OnStreams, RolesDone, Gone, At, Op, Making, Deleting
    <3> QED BY <3>2, <3>3, OverAsksNothing
  <2>5. CASE ReadLive(t) \/ Collect(t)
    <3>1. req[t].pc \in ResyncPc
      BY <2>5 DEF ReadLive, Collect, At, ResyncPc
    <3>2. \/ Over(t) \/ To(t, "collect") \/ To(t, "apply")
          \/ Op(t) # "delete" /\ To(t, "flagapply")
      BY <2>5, ReapplyTo
    <3>3. \/ Over(t) \/ \E pc \in ResyncPc : To(t, pc)
          \/ Op(t) # "delete" /\ To(t, "flagapply")
      BY <3>2 DEF ResyncPc
    <3> QED BY <1>0, <1>1, <3>1, <3>3, PlainMoves, OverAsksNothing
  <2>6. CASE \/ ApplyBegin(t) \/ ApplyBeginFails(t) \/ ApplyStep(t)
             \/ ApplyDisturbed(t) \/ ApplyFails(t)
    <3>1. req[t].pc \in ResyncPc /\ "applying" \in ResyncPc
      BY <2>6 DEF ApplyBegin, ApplyBeginFails, ApplyStep, ApplyDisturbed, ApplyFails,
         At, ResyncPc
    <3> QED BY <1>0, <1>1, <2>6, <3>1, ApplyTo, PlainMoves
  <2>7. CASE ApplyReturns(t)
    <3>1. req[t].pc # "markdeleted"
      BY <2>7 DEF ApplyReturns, At
    <3>2. \/ Over(t) \/ (Op(t) = "delete" /\ To(t, "delpolicy"))
          \/ Op(t) # "delete" /\ To(t, "flagapply")
      BY <2>7, ReturnsTo
    <3> QED BY <1>0, <1>1, <3>1, <3>2, PlainMoves, OverAsksNothing
  <2>8. CASE DelResource(t) \/ DelResourceFails(t)
    <3>1. Over(t) \/ (req[t].pc = "delresource" /\ To(t, "noteresource"))
      BY <2>8, DelTo DEF DelResource, DelResourceFails, At
    <3> QED BY <1>0, <1>1, <3>1, PlainMoves, OverAsksNothing
  <2> QED BY <2>1, <2>2, <2>3, <2>4, <2>5, <2>6, <2>7, <2>8 DEF Moves
<1> QED BY <1>2, <1>3, RoleOne

LEMMA UpdatesRole ==
    ASSUME TypeInv, OneThread, RoleInv, NEW t \in Threads, Updates(t)
    PROVE  RoleInv'
<1>0. OnStreams(t) /\ RolesDone(t) /\ RecordedRoleExists
  BY DEF RoleInv
<1>1. UNCHANGED roles
  BY DEF Updates, FlagError, GoLive, Relive, Record, MarkDeleted, FlagApply, NoteRole,
     NoteResource, worldVars
<1> USE DEF To, OnStreams, RolesDone, Gone, At, Op, Sid, Making, Deleting, ResyncPc,
            Alive, Becomes, StatusOf, RefOf, ErrOf, ArnOf
<1>2. CASE FlagError(t)
  <2>1. RecordedRoleExists'
    BY <1>0, <1>1, <1>2, FlagErrorIs DEF RecordedRoleExists, FlagError
  <2> QED BY <1>0, <1>2, <2>1, FlagErrorIs, OverAsksNothing, RoleOne
<1>3. CASE GoLive(t)
  <2>1. RecordedRoleExists'
    BY <1>0, <1>1, <1>3, GoLiveIs DEF RecordedRoleExists, GoLive
  <2>2. OnStreams(t)' /\ RolesDone(t)'
    BY <1>0, <1>1, <1>3, GoLiveIs DEF GoLive
  <2> QED BY <2>1, <2>2, RoleOne
<1>4. CASE Relive(t)
  <2>1. RecordedRoleExists'
    BY <1>0, <1>1, <1>4, ReliveIs DEF RecordedRoleExists, Relive
  <2>2. OnStreams(t)' /\ RolesDone(t)'
    BY <1>0, <1>1, <1>4, ReliveIs DEF Relive
  <2> QED BY <2>1, <2>2, RoleOne
<1>5. CASE Record(t)
  <2>1. RecordedRoleExists'
    BY <1>0, <1>1, <1>5, RecordIs DEF RecordedRoleExists, Record
  <2>2. OnStreams(t)' /\ RolesDone(t)'
    BY <1>0, <1>1, <1>5, RecordIs DEF Record
  <2> QED BY <2>1, <2>2, RoleOne
<1>6. CASE MarkDeleted(t)
  <2>1. RecordedRoleExists'
    BY <1>0, <1>1, <1>6, MarkDeletedIs DEF RecordedRoleExists, MarkDeleted
  <2>2. OnStreams(t)' /\ RolesDone(t)'
    BY <1>0, <1>1, <1>6, MarkDeletedIs DEF MarkDeleted
  <2> QED BY <2>1, <2>2, RoleOne
<1>7. CASE FlagApply(t) \/ NoteRole(t) \/ NoteResource(t)
  <2>1. RecordedRoleExists'
    BY <1>0, <1>1, <1>7, SetErrIs DEF RecordedRoleExists
  <2>2. CASE Over(t)
    BY <2>1, <2>2, OverAsksNothing, RoleOne
  <2>3. CASE At(t, "noterole") /\ To(t, "delresource") /\ req'[t].noted
    <3>1. OnStreams(t)' /\ RolesDone(t)'
      BY <1>0, <1>1, <1>7, <2>3, SetErrIs
    <3> QED BY <2>1, <3>1, RoleOne
  <2> QED BY <1>7, <2>2, <2>3, SetErrIs
<1> QED BY <1>2, <1>3, <1>4, <1>5, <1>6, <1>7 DEF Updates

LEMMA RoleMovesRole ==
    ASSUME TypeInv, OneThread, RoleInv, NEW t \in Threads, RoleMoves(t)
    PROVE  RoleInv'
<1>0. OnStreams(t) /\ RolesDone(t) /\ RecordedRoleExists
  BY DEF RoleInv
<1>1. UNCHANGED streams /\ Sid(t) \in StreamId /\ roles \in [StreamId -> Role]
  BY OnStream, RoleMovesLeave DEF RoleMoves, Mint, PutPolicy, MintFails, DelPolicy,
     DelRole, DelRoleFails, At, NoSid, ResyncPc, TypeInv, TypeOK
<1> USE DEF To, OnStreams, RolesDone, Gone, At, Op, Sid, Making, Deleting, ResyncPc, Alive
<1>2. CASE Mint(t)
  <2>0. req[t].user \in Users
    BY <1>2, OnStream DEF Mint, NoSid
  <2>1. Consumer(req[t].user) # None
    BY <2>0, UserAssumption, BoundAssumption DEF Consumer
  <2>2. /\ roles'[Sid(t)].trust # None
        /\ roles'[Sid(t)].policy = roles[Sid(t)].policy
        /\ \A s \in StreamId \ {Sid(t)} : roles'[s] = roles[s]
    BY <1>1, <1>2, <2>1 DEF Mint, Role
  <2>3. RecordedRoleExists'
    BY <1>0, <1>1, <2>2 DEF RecordedRoleExists
  <2>4. OnStreams(t)' /\ RolesDone(t)'
    BY <1>0, <1>1, <1>2, <2>2, MakeTo DEF Mint
  <2> QED BY <2>3, <2>4, RoleOne
<1>3. CASE PutPolicy(t)
  <2>1. /\ To(t, "record")
        /\ roles' = [roles EXCEPT ![Sid(t)].policy = TRUE]
        /\ roles[Sid(t)].trust # None
    BY <1>0, <1>3, MakeTo DEF PutPolicy
  <2>2. /\ roles'[Sid(t)].trust # None /\ roles'[Sid(t)].policy
        /\ \A s \in StreamId \ {Sid(t)} : roles'[s] = roles[s]
    BY <1>1, <2>1 DEF Role
  <2>3. RecordedRoleExists'
    BY <1>0, <1>1, <2>2 DEF RecordedRoleExists
  <2>4. OnStreams(t)' /\ RolesDone(t)'
    BY <1>0, <1>1, <1>3, <2>1, <2>2 DEF PutPolicy
  <2> QED BY <2>3, <2>4, RoleOne
<1>5. CASE MintFails(t)
  <2>1. \A s \in StreamId : /\ roles'[s].trust = roles[s].trust
                            /\ roles[s].policy => roles'[s].policy
    BY <1>1, <1>5 DEF MintFails, Role
  <2>2. RecordedRoleExists'
    BY <1>0, <1>1, <2>1 DEF RecordedRoleExists
  <2>3. OnStreams(t)' /\ RolesDone(t)'
    BY <1>0, <1>1, <1>5, MakeTo DEF MintFails
  <2> QED BY <2>2, <2>3, RoleOne
<1>4. CASE DelPolicy(t) \/ DelRole(t) \/ DelRoleFails(t)
  <2>1. \A s \in StreamId \ {Sid(t)} : roles'[s] = roles[s]
    BY <1>1, <1>4 DEF DelPolicy, DelRole, DelRoleFails
  <2>2. ~Alive(Sid(t))
    BY <1>0, <1>4 DEF DelPolicy, DelRole, DelRoleFails
  <2>3. RecordedRoleExists'
    BY <1>0, <1>1, <2>1, <2>2 DEF RecordedRoleExists
  <2>4. CASE DelPolicy(t)
    <3>1. OnStreams(t)' /\ RolesDone(t)'
      BY <1>0, <1>1, <2>4, DelTo DEF DelPolicy
    <3> QED BY <2>3, <3>1, RoleOne
  <2>5. CASE DelRole(t)
    <3>1. \/ Over(t) \/ To(t, "noterole")
          \/ To(t, "delresource") /\ roles'[Sid(t)] = NoRole
      BY <1>1, <2>5, DelTo DEF DelRole
    <3>2. ASSUME To(t, "noterole") \/ (To(t, "delresource") /\ roles'[Sid(t)] = NoRole)
          PROVE OnStreams(t)' /\ RolesDone(t)'
      BY <1>0, <1>1, <2>5, <3>2 DEF DelRole
    <3> QED BY <2>3, <3>1, <3>2, OverAsksNothing, RoleOne
  <2>6. CASE DelRoleFails(t)
    <3>1. OnStreams(t)' /\ RolesDone(t)'
      BY <1>0, <1>1, <2>6, DelTo DEF DelRoleFails
    <3> QED BY <2>3, <3>1, RoleOne
  <2> QED BY <1>4, <2>4, <2>5, <2>6
<1> QED BY <1>2, <1>3, <1>4, <1>5 DEF RoleMoves

LEMMA InsertRole ==
    ASSUME TypeInv, OneThread, RoleInv, NEW t \in Threads, Insert(t)
    PROVE  RoleInv'
<1>0. OnStreams(t) /\ RolesDone(t) /\ RecordedRoleExists /\ UNCHANGED roles
  BY DEF RoleInv, Insert, worldVars
<1>1. CASE Over(t) /\ UNCHANGED streams
  <2>1. RecordedRoleExists'
    BY <1>0, <1>1 DEF RecordedRoleExists, Alive
  <2> QED BY <1>1, <2>1, OverAsksNothing, RoleOne
<1>2. ASSUME NEW s \in StreamId, Inserts(t, s) PROVE RoleInv'
  <2>1. RecordedRoleExists'
    BY <1>0, <1>2 DEF RecordedRoleExists, Inserts, Alive
  <2>2. Op(t) = "create"
    BY <1>0 DEF Insert, OnStreams
  <2>3. OnStreams(t)' /\ RolesDone(t)'
    BY <1>2, <2>2 DEF Inserts, OnStreams, RolesDone, Gone, At, Op, Sid, Making, Deleting,
       Alive
  <2> QED BY <2>1, <2>3, RoleOne
<1> QED BY <1>1, <1>2, InsertIs

LEMMA StartRole ==
    ASSUME TypeInv, OneThread, RoleInv, NEW t \in Threads, Start(t)
    PROVE  RoleInv'
<1>0. Begins(t) /\ UNCHANGED <<streams, roles>>
  BY StartBegins
<1>1. RecordedRoleExists'
  BY <1>0 DEF RoleInv, RecordedRoleExists, Alive
<1> USE DEF OnStreams, RolesDone, Gone, At, Op, Sid, Making, Deleting, ResyncPc, Alive
<1>2. ASSUME NEW l, NEW tree, BeginsNew(t, l, tree) PROVE OnStreams(t)' /\ RolesDone(t)'
  BY <1>2 DEF BeginsNew
<1>3. ASSUME NEW s, NEW l, NEW tree, BeginsAdd(t, s, l, tree)
      PROVE OnStreams(t)' /\ RolesDone(t)'
  BY <1>3 DEF BeginsAdd
<1>4. ASSUME NEW s \in StreamId, NEW e \in Entries, BeginsOn(t, e[1], e[2], s)
      PROVE OnStreams(t)' /\ RolesDone(t)'
  BY <1>0, <1>4 DEF BeginsOn, Entries
<1>5. ASSUME NEW m, BeginsApprove(t, m) PROVE OnStreams(t)' /\ RolesDone(t)'
  BY <1>5 DEF BeginsApprove
<1>6. ASSUME NEW m, Rejects(t, m) PROVE OnStreams(t)' /\ RolesDone(t)'
  BY <1>6, OverAsksNothing DEF Rejects
<1>7. OnStreams(t)' /\ RolesDone(t)'
  BY <1>0, <1>2, <1>3, <1>4, <1>5, <1>6 DEF Begins
<1> QED BY <1>1, <1>7, RoleOne

LEMMA NextRole == ASSUME TypeInv, OneThread, RoleInv, [Next]_vars PROVE RoleInv'
<1>1. ASSUME NEW t \in Threads, Step(t) \/ Fault(t) PROVE RoleInv'
  BY <1>1, StepKinds, InsertRole, MovesRole, UpdatesRole, RoleMovesRole
<1>2. ASSUME \/ Crash \/ WorkersFetch \/ Rest \/ UNCHANGED vars
             \/ \E t \in Threads : Startup(t)
             \/ \E n \in Sources, k \in Listing : Reclassify(n, k)
      PROVE  RoleInv'
  <2>1. UNCHANGED <<streams, roles>>
    BY <1>2, WorldLeaves
  <2>2. RecordedRoleExists'
    BY <2>1 DEF RoleInv, RecordedRoleExists, Alive
  <2>3. ASSUME NEW t \in Threads PROVE OnStreams(t)' /\ RolesDone(t)'
    <3>1. CASE Over(t)
      BY <3>1, OverAsksNothing
    <3>2. CASE req'[t] = req[t]
      BY <2>1, <3>2 DEF RoleInv, OnStreams, RolesDone, Gone, At, Op, Sid, Alive
    <3>3. CASE req'[t].pc = "reapply" /\ req'[t].op = "startup"
      BY <3>3 DEF OnStreams, RolesDone, Gone, At, Op, Making, Deleting
    <3> QED BY <1>2, <3>1, <3>2, <3>3, WorldOver
  <2> QED BY <2>2, <2>3 DEF RoleInv
<1> QED BY <1>1, <1>2, StartRole DEF Next

LEMMA InitSerialRole == Init => RoleInv
  BY DEF Init, NoStream, NoRole, Idle, RoleInv, OnStreams, RolesDone, RecordedRoleExists,
     Gone, At, Op, Making, Deleting, Alive

LEMMA RoleHolds == ASSUME OneThread PROVE Spec => [](TypeInv /\ RoleInv)
<1>1. Init => TypeInv /\ RoleInv
  BY InitTypeInv, InitSerialRole
<1>2. (TypeInv /\ RoleInv) /\ [Next]_vars => (TypeInv /\ RoleInv)'
  BY NextTypeInv, NextRole
<1> QED BY <1>1, <1>2, PTL DEF Spec

\* One request at a time: the role that read_role_arn names is there with its
\* policy as long as the stream is, whatever failed and wherever a mint or a
\* delete was cut short by a crash.
THEOREM RecordedRoleExistsHolds ==
    ASSUME OneThread PROVE Spec => []RecordedRoleExists
<1>1. TypeInv /\ RoleInv => RecordedRoleExists
  BY DEF RoleInv
<1> QED BY <1>1, RoleHolds, PTL

\* No step revives a deleted stream.
LEMMA DeletedStays ==
    ASSUME TypeInv, RoleInv, [Next]_vars, NEW s \in StreamId,
           streams[s].status = "deleted"
    PROVE  streams'[s].status = "deleted"
<1>1. ASSUME NEW t \in Threads, Updates(t) PROVE streams'[s].status = "deleted"
  <2>0. OnStreams(t)
    BY DEF RoleInv
  <2>1. CASE FlagError(t)
    BY <2>0, <2>1, FlagErrorIs DEF Becomes, OnStreams, FlagError, At, Making, Alive
  <2>2. CASE GoLive(t)
    BY <2>0, <2>2, GoLiveIs DEF Becomes, OnStreams, GoLive, At, Making, Alive
  <2>3. CASE Relive(t)
    BY <2>0, <2>3, ReliveIs DEF Becomes, OnStreams, Relive, At, Making, Alive
  <2>4. CASE Record(t)
    BY <2>4, RecordIs DEF Becomes, StatusOf
  <2>5. CASE MarkDeleted(t)
    BY <2>5, MarkDeletedIs DEF Becomes
  <2>6. CASE FlagApply(t) \/ NoteRole(t) \/ NoteResource(t)
    BY <2>6, SetErrIs DEF Becomes, StatusOf
  <2> QED BY <1>1, <2>1, <2>2, <2>3, <2>4, <2>5, <2>6 DEF Updates
<1>2. ASSUME NEW t \in Threads, Insert(t) PROVE streams'[s].status = "deleted"
  BY <1>2, InsertIs DEF Inserts
<1>3. CASE UNCHANGED streams
  BY <1>3
<1>4. ASSUME NEW t \in Threads, Step(t) \/ Fault(t)
      PROVE UNCHANGED streams \/ Insert(t) \/ Updates(t)
  BY <1>4, StepKinds, MovesLeave, RoleMovesLeave
<1> QED BY <1>1, <1>2, <1>3, <1>4, StartBegins, WorldLeaves DEF Next

\* One request at a time: a deleted stream stays deleted, whichever of the
\* UPDATEs of create, retry and the error handlers come later.
THEOREM DeletedStaysDeletedHolds ==
    ASSUME OneThread PROVE Spec => DeletedStaysDeleted
<1>1. (TypeInv /\ RoleInv) /\ [Next]_vars =>
        [\A s \in StreamId : streams[s].status = "deleted"
                                => streams'[s].status = "deleted"]_vars
  BY DeletedStays
<1> QED BY <1>1, RoleHolds, PTL DEF Spec, DeletedStaysDeleted

\* What a delete has left when it ends without having noted a failure.
Remains(t) ==
    LET s == Sid(t)
    IN (/\ req[t].pc \in {"delrole", "delresource"} /\ ~req[t].noted
        /\ req'[t].pc = "idle" /\ up') =>
          /\ roles'[s] = NoRole
          /\ streams[s].ref => ResourceOf(s) \notin resources'

LEMMA NothingRemains ==
    ASSUME TypeInv, OneThread, RoleInv, [Next]_vars, NEW t \in Threads PROVE Remains(t)
<1> SUFFICES ASSUME req[t].pc \in {"delrole", "delresource"}, ~req[t].noted,
                    req'[t].pc = "idle", up'
             PROVE  /\ roles'[Sid(t)] = NoRole
                    /\ streams[Sid(t)].ref => ResourceOf(Sid(t)) \notin resources'
  BY DEF Remains
<1>0. /\ OnStreams(t) /\ RolesDone(t) /\ Sid(t) \in StreamId
      /\ req[t].ref <=> streams[Sid(t)].ref
  <2>1. OnStreams(t) /\ RolesDone(t)
    BY DEF RoleInv
  <2>2. Op(t) = "delete"
    BY <2>1 DEF OnStreams, Deleting
  <2> QED BY <2>1, <2>2, OnStream DEF OnStreams, NoSid, ResyncPc
<1>1. ASSUME Step(t) \/ Fault(t)
      PROVE  DelRole(t) \/ DelResource(t) \/ DelRoleFails(t) \/ DelResourceFails(t)
  BY <1>1 DEF Step, Fault, Insert, Provision, ProvisionInUse, FlagError,
     GoLive, Mint, PutPolicy, Record, InsertMember, Remove, MarkDeleted, Relive,
     Reread, ApproveLookup, ReadLive, Collect, ApplyBegin, ApplyStep,
     ApplyDisturbed, ApplyReturns, FlagApply, DelPolicy, NoteRole, NoteResource,
     ProvisionFails, MintFails, ApplyBeginFails, ApplyFails, At
<1>2. CASE DelRole(t)
  <2>1. ~req[t].ref /\ ~roles[Sid(t)].policy
    BY <1>2, DelTo DEF To
  <2>2. roles' = [roles EXCEPT ![Sid(t)] = NoRole]
    BY <1>2, <2>1 DEF DelRole
  <2> QED BY <1>0, <2>1, <2>2 DEF TypeInv, TypeOK
<1>4. CASE DelResource(t)
  <2>1. ResourceOf(Sid(t)) \notin resources'
    BY <1>4 DEF DelResource
  <2>2. UNCHANGED <<roles, streams>>
    BY <1>4 DEF DelResource, dbVars
  <2>3. roles[Sid(t)] = NoRole
    BY <1>0, <1>4, <2>2 DEF DelResource, At, RolesDone
  <2> QED BY <2>1, <2>2, <2>3
<1>5. CASE DelRoleFails(t) \/ DelResourceFails(t)
  BY <1>5, DelTo DEF To
<1>6. ASSUME NEW o \in Threads, Start(o) PROVE FALSE
  BY <1>6, StartBegins DEF OneThread, At
<1>7. ASSUME NEW o \in Threads, Step(o) \/ Fault(o) PROVE Step(t) \/ Fault(t)
  BY <1>7 DEF OneThread
<1>8. CASE \/ Crash \/ WorkersFetch \/ Rest \/ UNCHANGED vars
           \/ \E o \in Threads : Startup(o)
           \/ \E n \in Sources, k \in Listing : Reclassify(n, k)
  <2>1. CASE Crash
    BY <2>1 DEF Crash
  <2>2. ASSUME NEW o \in Threads, Startup(o) PROVE FALSE
    BY <2>2 DEF Startup, At
  <2>3. CASE UNCHANGED req
    BY <2>3
  <2> QED BY <1>8, <2>1, <2>2, <2>3 DEF WorkersFetch, Rest, Reclassify, vars
<1> QED BY <1>1, <1>2, <1>4, <1>5, <1>6, <1>7, <1>8 DEF Next

\* One request at a time: a delete that is answered with 204 and has itself noted
\* no failure leaves neither the role nor the resource it had recorded, whatever
\* errors the stream already carried.
THEOREM NoOrphansHolds == ASSUME OneThread PROVE Spec => NoOrphans
<1>1. (TypeInv /\ RoleInv) /\ [Next]_vars => [\A t \in Threads : Remains(t)]_vars
  BY NothingRemains
<1> DEFINE Same ==
      [\A t \in Threads :
         LET s == Sid(t)
         IN (/\ req[t].pc \in {"delrole", "delresource"} /\ ~req[t].noted
             /\ req'[t].pc = "idle" /\ up') =>
               /\ roles'[s] = NoRole
               /\ streams[s].ref => ResourceOf(s) \notin resources']_vars
<1>2. [\A t \in Threads : Remains(t)]_vars => Same
  BY DEF Remains
<1> QED BY <1>1, <1>2, RoleHolds, PTL DEF Spec, NoOrphans

-----------------------------------------------------------------------------
(* What a step leaves of the request and of the streams. *)

\* Where remove_source, delete_stream and retry begin.
Entered == {"remove", "markdeleted", "relive"}

\* The request keeps its operation, and its stream once it has one.
Carries(t) ==
    /\ req'[t].op = req[t].op /\ req'[t].ref = req[t].ref
    /\ req'[t].row = req[t].row /\ req'[t].todo \subseteq req[t].todo
    /\ req[t].pc \notin {"insert", "approved"} => req'[t].sid = req[t].sid
    /\ req'[t].pc \notin NoSid \cup Entered
    /\ req'[t].pc = "golive" => Provision(t)

LEMMA ToCarries ==
    ASSUME NEW t \in Threads, NEW pc, To(t, pc), pc \notin NoSid \cup Entered,
           pc = "golive" => Provision(t)
    PROVE  Carries(t)
  BY DEF To, Carries

LEMMA StepCarries ==
    ASSUME TypeInv, RoleInv, NEW t \in Threads, Step(t) \/ Fault(t)
    PROVE  Over(t) \/ Carries(t)
<1>0. OnStreams(t)
  BY DEF RoleInv
<1>1. ASSUME NEW pc \in Pc \ (NoSid \cup Entered \cup {"golive"}), To(t, pc) PROVE Carries(t)
  BY <1>1, ToCarries
<1>2. CASE Insert(t)
  BY <1>2, InsertIs DEF Inserts, Carries, Insert, At, NoSid, Entered
<1>3. CASE Updates(t)
  <2>1. Over(t) \/ \E pc \in {"mint", "reread", "members", "reapply", "delresource"} :
                     To(t, pc)
    BY <1>0, <1>3, FlagErrorIs, GoLiveIs, ReliveIs, RecordIs, MarkDeletedIs, SetErrIs
       DEF Updates
  <2> QED BY <1>1, <2>1 DEF Pc, NoSid, Entered
<1>4. CASE Mint(t) \/ PutPolicy(t) \/ DelPolicy(t) \/ DelRole(t)
  <2>1. Over(t) \/ \E pc \in {"putpolicy", "flag", "record", "delrole", "noterole",
                              "delresource"} : To(t, pc)
    BY <1>4, MakeTo, DelTo
  <2> QED BY <1>1, <2>1 DEF Pc, NoSid, Entered
<1>5. CASE InsertMember(t)
  <2>1. Over(t) \/ \E p \in req[t].todo : Adds(t, p)
    BY <1>5, InsertMemberIs
  <2> QED BY <2>1 DEF Adds, Carries, NoSid, Entered
<1>6. CASE ApproveLookup(t)
  <2>1. Over(t) \/ \E m \in members : Finds(t, m)
    BY <1>6, ApproveLookupIs
  <2> QED BY <1>6, <2>1 DEF ApproveLookup, At, Finds, Carries, NoSid, Entered
<1>7. CASE Provision(t)
  BY <1>7, MakeTo, ToCarries DEF NoSid, Entered
<1>8. CASE \/ ProvisionInUse(t) \/ ProvisionFails(t) \/ MintFails(t)
           \/ Reread(t) \/ Remove(t)
  <2>1. Over(t) \/ To(t, "flag") \/ To(t, "reapply") \/ To(t, "mint")
    BY <1>8, MakeTo
  <2> QED BY <1>1, <2>1 DEF Pc, NoSid, Entered
<1>9. CASE \/ ReadLive(t) \/ Collect(t) \/ ApplyBegin(t) \/ ApplyBeginFails(t)
           \/ ApplyStep(t) \/ ApplyDisturbed(t) \/ ApplyFails(t) \/ ApplyReturns(t)
  <2>1. Over(t) \/ \E pc \in {"collect", "apply", "applying", "flagapply", "delpolicy"} :
                     To(t, pc)
    BY <1>9, ReapplyTo, ApplyTo, ReturnsTo
  <2> QED BY <1>1, <2>1 DEF Pc, NoSid, Entered
<1>10. CASE DelResource(t) \/ DelResourceFails(t) \/ DelRoleFails(t)
  <2>1. Over(t) \/ To(t, "noteresource") \/ To(t, "noterole")
    BY <1>10, DelTo
  <2> QED BY <1>1, <2>1 DEF Pc, NoSid, Entered
<1>11. Insert(t) \/ Moves(t) \/ Updates(t) \/ RoleMoves(t)
  BY StepKinds
<1> QED BY <1>2, <1>3, <1>4, <1>5, <1>6, <1>7, <1>8, <1>9, <1>10, <1>11
        DEF Moves, RoleMoves

\* Every row keeps its name and its type, and no step but the INSERT brings a
\* stream among those an owner can see.
Keeps(s) ==
    /\ streams'[s].name = streams[s].name /\ streams'[s].type = streams[s].type
    /\ Alive(s)' => Alive(s)
    /\ streams'[s].status = "absent" <=> streams[s].status = "absent"

LEMMA StreamsKeep ==
    ASSUME TypeInv, RoleInv, NEW t \in Threads, Step(t) \/ Fault(t), ~Insert(t)
    PROVE  /\ \A s \in StreamId : Keeps(s)
           /\ \A s \in StreamId : streams'[s].ref => streams[s].ref \/ (s = Sid(t) /\ GoLive(t))
<1>0. OnStreams(t)
  BY DEF RoleInv
<1>1. CASE UNCHANGED streams
  BY <1>1 DEF Keeps, Alive
<1> USE DEF Keeps, Alive, Becomes, StatusOf, RefOf, ErrOf, ArnOf
<1>2. CASE FlagError(t)
  BY <1>0, <1>2, FlagErrorIs DEF OnStreams, FlagError, At, Making
<1>3. CASE GoLive(t)
  BY <1>0, <1>3, GoLiveIs DEF OnStreams, GoLive, At, Making
<1>4. CASE Relive(t)
  BY <1>0, <1>4, ReliveIs DEF OnStreams, Relive, At, Making
<1>5. CASE Record(t)
  BY <1>0, <1>5, RecordIs DEF OnStreams, Record, At, Making
<1>6. CASE MarkDeleted(t)
  BY <1>0, <1>6, MarkDeletedIs DEF OnStreams, MarkDeleted, At
<1>7. CASE FlagApply(t) \/ NoteRole(t) \/ NoteResource(t)
  BY <1>7, SetErrIs
<1>8. UNCHANGED streams \/ Updates(t)
  BY StepKinds, MovesLeave, RoleMovesLeave
<1> QED BY <1>1, <1>2, <1>3, <1>4, <1>5, <1>6, <1>7, <1>8 DEF Updates

-----------------------------------------------------------------------------
(* The names of the streams an owner can see are distinct.                 *)

LEMMA NameOne ==
    ASSUME OneThread, NEW t \in Threads,
           \A s, o \in StreamId :
             (Alive(s)' /\ Alive(o)' /\ streams'[s].name = streams'[o].name) => s = o,
           Gone(t)' => ~AliveName(streams[Sid(t)].name)'
    PROVE  NameInv'
  BY DEF OneThread, NameInv

LEMMA NextName ==
    ASSUME TypeInv, OneThread, RoleInv, NameInv, [Next]_vars PROVE NameInv'
<1>0. ASSUME NEW t \in Threads, Over(t) PROVE ~Gone(t)'
  BY <1>0 DEF Over, Gone, Op
<1>1. ASSUME NEW t \in Threads, Step(t) \/ Fault(t), ~Insert(t) PROVE NameInv'
  <2>1. /\ \A s \in StreamId : Keeps(s)
        /\ OnStreams(t)
    BY <1>1, StreamsKeep DEF RoleInv
  <2>2. \A s, o \in StreamId :
          (Alive(s)' /\ Alive(o)' /\ streams'[s].name = streams'[o].name) => s = o
    BY <2>1 DEF NameInv, Keeps
  <2>3. ASSUME Gone(t)' PROVE ~AliveName(streams[Sid(t)].name)'
    <3>0. Carries(t) /\ Op(t) = "delete"
      BY <1>0, <1>1, <2>3, StepCarries DEF Carries, Gone, Op
    <3>1. req[t].pc \notin {"insert", "approved"} /\ Sid(t)' = Sid(t) /\ Sid(t) \in StreamId
      BY <2>1, <3>0, SidIs DEF Carries, OnStreams, Deleting, ResyncPc, NoSid, Sid, AllOps
    <3>2. CASE Gone(t)
      BY <2>1, <3>1, <3>2 DEF NameInv, AliveName, Keeps
    <3>3. CASE At(t, "markdeleted")
      <4>1. MarkDeleted(t)
        BY <1>1, <3>3 DEF Step, Fault, Insert, Provision, ProvisionInUse, FlagError,
           GoLive, Mint, PutPolicy, Record, InsertMember, Remove, Relive, Reread,
           ApproveLookup, ReadLive, Collect, ApplyBegin, ApplyStep, ApplyDisturbed,
           ApplyReturns, FlagApply, DelPolicy, DelRole, NoteRole, DelResource,
           NoteResource, ProvisionFails, MintFails, ApplyBeginFails, ApplyFails,
           DelRoleFails, DelResourceFails, At
      <4>2. Alive(Sid(t)) /\ ~Alive(Sid(t))'
        BY <2>1, <3>1, <3>3, <4>1, MarkDeletedIs DEF OnStreams, Becomes, Alive
      <4>3. ASSUME NEW o \in StreamId, Alive(o)', streams'[o].name = streams'[Sid(t)].name
            PROVE FALSE
        <5>1. Alive(o) /\ streams[o].name = streams[Sid(t)].name
          BY <2>1, <3>1, <4>3 DEF Keeps
        <5>2. o = Sid(t)
          BY <3>1, <4>2, <5>1 DEF NameInv
        <5>3. ~Alive(o)'
          BY <3>1, <4>2, <5>2
        <5> QED BY <4>3, <5>3
      <4> QED BY <3>1, <4>3 DEF AliveName
    <3> QED BY <3>0, <3>2, <3>3 DEF Gone
  <2> QED BY <2>2, <2>3, NameOne
<1>2. ASSUME NEW t \in Threads, Insert(t) PROVE NameInv'
  <2>1. CASE Over(t) /\ UNCHANGED streams
    BY <1>0, <2>1, NameOne DEF NameInv, Alive
  <2>2. ASSUME NEW s \in StreamId, Inserts(t, s), ~AliveName(req[t].name) PROVE NameInv'
    <3>1. \A o, q \in StreamId :
          (Alive(o)' /\ Alive(q)' /\ streams'[o].name = streams'[q].name) => o = q
      <4> SUFFICES ASSUME NEW o \in StreamId, NEW q \in StreamId, Alive(o)', Alive(q)',
                          streams'[o].name = streams'[q].name
                   PROVE o = q
        OBVIOUS
      <4>1. CASE o # s /\ q # s
        BY <2>2, <4>1 DEF Inserts, NameInv, Alive
      <4>2. CASE o = s /\ q # s
        BY <2>2, <4>2 DEF Inserts, AliveName, Alive
      <4>3. CASE o # s /\ q = s
        BY <2>2, <4>3 DEF Inserts, AliveName, Alive
      <4> QED BY <4>1, <4>2, <4>3
    <3>2. Op(t) = "create"
      BY <1>2 DEF RoleInv, OnStreams, Insert
    <3>3. ~Gone(t)'
      BY <2>2, <3>2 DEF Inserts, Gone, Op
    <3> QED BY <3>1, <3>3, NameOne
  <2> QED BY <1>2, <2>1, <2>2, InsertIs
<1>3. ASSUME NEW t \in Threads, Start(t) PROVE NameInv'
  <2>1. Begins(t) /\ UNCHANGED streams
    BY <1>3, StartBegins
  <2>2. ~Gone(t)'
    BY <2>1 DEF Begins, BeginsNew, BeginsAdd, BeginsOn, BeginsApprove, Rejects, Over,
       Entries, Gone, Op, At
  <2> QED BY <2>1, <2>2, NameOne DEF NameInv, Alive
<1>4. ASSUME \/ Crash \/ WorkersFetch \/ Rest \/ UNCHANGED vars
             \/ \E t \in Threads : Startup(t)
             \/ \E n \in Sources, k \in Listing : Reclassify(n, k)
      PROVE  NameInv'
  <2>1. UNCHANGED streams
    BY <1>4, WorldLeaves
  <2>2. ASSUME NEW t \in Threads
        PROVE ~Gone(t)' \/ req'[t] = req[t]
    BY <1>0, <1>4, WorldOver DEF Gone, Op
  <2> QED BY <2>1, <2>2 DEF NameInv, Alive, AliveName, Gone, Op, Sid, At
<1> QED BY <1>1, <1>2, <1>3, <1>4 DEF Next

-----------------------------------------------------------------------------
(* A stream that has recorded a resource has it.                           *)

LEMMA NextResource ==
    ASSUME TypeInv, OneThread, RoleInv, NameInv, ResourceInv, [Next]_vars
    PROVE  ResourceInv'
<1>0. ASSUME \A s \in StreamId : (Alive(s)' /\ streams'[s].ref) => ResourceOf(s)' \in resources',
             \A t \in Threads : ~At(t, "golive")'
      PROVE ResourceInv'
  BY <1>0 DEF ResourceInv
<1>1. ASSUME NEW t \in Threads, Step(t) \/ Fault(t), ~Insert(t) PROVE ResourceInv'
  <2>0. OnStreams(t) /\ \A s \in StreamId : Keeps(s)
    BY <1>1, StreamsKeep DEF RoleInv
  <2>1. \A s \in StreamId : ResourceOf(s)' = ResourceOf(s)
    BY <2>0 DEF Keeps, ResourceOf
  <2>2. ASSUME NEW s \in StreamId, Alive(s)', streams'[s].ref
        PROVE  ResourceOf(s) \in resources
    <3>1. Alive(s) /\ (streams[s].ref \/ (s = Sid(t) /\ GoLive(t)))
      BY <1>1, <2>0, <2>2, StreamsKeep DEF Keeps
    <3> QED BY <3>1 DEF ResourceInv, GoLive
  <2>3. CASE DelResource(t) \/ DelResourceFails(t)
    <3>1. Gone(t) /\ Sid(t) \in StreamId
      BY <2>0, <2>3, OnStream DEF OnStreams, DelResource, DelResourceFails, At, Deleting,
         Gone, NoSid, ResyncPc
    <3>2. ASSUME NEW s \in StreamId, Alive(s)', streams'[s].ref
          PROVE  ResourceOf(s) \in resources'
      <4>1. ResourceOf(s) # ResourceOf(Sid(t))
        BY <2>0, <3>1, <3>2 DEF NameInv, AliveName, ResourceOf, Keeps
      <4> QED BY <2>2, <2>3, <3>2, <4>1 DEF DelResource, DelResourceFails
    <3>3. ~At(t, "golive")'
      BY <2>3, DelTo DEF Over, To, At
    <3> QED BY <1>0, <2>1, <3>2, <3>3 DEF OneThread
  <2>4. CASE Provision(t)
    <3>1. resources' = resources \cup {ResourceOf(Sid(t))}
      BY <2>4 DEF Provision
    <3>2. Sid(t)' = Sid(t) /\ Sid(t) \in StreamId
      BY <2>4, MakeTo, SidIs DEF To, Sid, Provision, At, NoSid, ResyncPc
    <3>3. ResourceOf(Sid(t))' \in resources'
      BY <2>1, <3>1, <3>2
    <3> QED BY <2>1, <2>2, <3>1, <3>3 DEF ResourceInv, OneThread
  <2>5. CASE ~(Provision(t) \/ DelResource(t) \/ DelResourceFails(t))
    <3>1. resources \subseteq resources'
      BY <1>1, <2>5 DEF Step, Fault, ProvisionInUse, FlagError, GoLive, Mint, PutPolicy,
         Record, InsertMember, Remove, MarkDeleted, Relive, Reread, ApproveLookup,
         ReadLive, Collect, ApplyBegin, ApplyStep, ApplyDisturbed, ApplyReturns,
         FlagApply, DelPolicy, DelRole, NoteRole, NoteResource, ProvisionFails,
         MintFails, ApplyBeginFails, ApplyFails, DelRoleFails, worldVars
    <3>2. ~At(t, "golive")'
      BY <1>1, <2>5, StepCarries DEF Over, Carries, At
    <3> QED BY <1>0, <2>1, <2>2, <3>1, <3>2 DEF OneThread
  <2> QED BY <2>3, <2>4, <2>5
<1>2. ASSUME NEW t \in Threads, Insert(t) PROVE ResourceInv'
  <2>1. UNCHANGED resources
    BY <1>2 DEF Insert, worldVars
  <2>2. \/ Over(t) /\ UNCHANGED streams
        \/ \E s \in StreamId : Inserts(t, s)
    BY <1>2, InsertIs
  <2>3. ~At(t, "golive")'
    BY <2>2 DEF Over, Inserts, At
  <2>4. \A s \in StreamId : (Alive(s)' /\ streams'[s].ref) => ResourceOf(s)' \in resources'
    BY <2>1, <2>2 DEF Inserts, Alive, ResourceOf, ResourceInv
  <2> QED BY <1>0, <2>3, <2>4 DEF OneThread
<1>3. ASSUME NEW t \in Threads, Start(t) PROVE ResourceInv'
  <2>1. Begins(t) /\ UNCHANGED <<streams, resources>>
    BY <1>3, StartBegins
  <2>2. ~At(t, "golive")'
    BY <2>1 DEF Begins, BeginsNew, BeginsAdd, BeginsOn, BeginsApprove, Rejects, Over,
       Entries, At
  <2>3. \A s \in StreamId : (Alive(s)' /\ streams'[s].ref) => ResourceOf(s)' \in resources'
    BY <2>1 DEF Alive, ResourceOf, ResourceInv
  <2> QED BY <1>0, <2>2, <2>3 DEF OneThread
<1>4. ASSUME \/ Crash \/ WorkersFetch \/ Rest \/ UNCHANGED vars
             \/ \E t \in Threads : Startup(t)
             \/ \E n \in Sources, k \in Listing : Reclassify(n, k)
      PROVE  ResourceInv'
  <2>1. UNCHANGED <<streams, resources>>
    BY <1>4, WorldLeaves
  <2>2. ASSUME NEW t \in Threads
        PROVE ~At(t, "golive")' \/ req'[t] = req[t]
    BY <1>4, WorldOver DEF Over, At
  <2> QED BY <2>1, <2>2 DEF ResourceInv, Alive, ResourceOf, At, Sid
<1> QED BY <1>1, <1>2, <1>3, <1>4 DEF Next

-----------------------------------------------------------------------------
(* With one thread every reapply is solo, so SyncInv speaks of all of them. *)

LEMMA SoloOne ==
    ASSUME OneThread, NEW t \in Threads,
           req'[t].pc \in {"collect", "apply", "applying"} => req'[t].solo
    PROVE  SoloInv'
  BY DEF OneThread, SoloInv

LEMMA NextSolo ==
    ASSUME TypeInv, OneThread, SoloInv, [Next]_vars PROVE SoloInv'
<1>1. ASSUME NEW t \in Threads, Start(t) PROVE SoloInv'
  <2>1. req'[t].pc \notin {"collect", "apply", "applying"}
    BY <1>1, StartBegins
       DEF Begins, BeginsNew, BeginsAdd, BeginsOn, Entries, BeginsApprove, Rejects, Over
  <2> QED BY <2>1, SoloOne
<1>2. ASSUME NEW t \in Threads, Step(t) \/ Fault(t) PROVE SoloInv'
  <2>1. CASE ReadLive(t)
    <3> DEFINE pc == IF LiveStreams = {} THEN "apply" ELSE "collect"
               solo == \A o \in Threads \ {t} : At(o, "idle")
    <3>0. req' = [req EXCEPT ![t].live = LiveStreams, ![t].want = {},
                             ![t].solo = solo, ![t].pc = pc]
      BY <2>1 DEF ReadLive
    <3>1. solo
      BY DEF OneThread
    <3> HIDE DEF solo, pc
    <3>2. req'[t].solo
      BY <3>0, <3>1 DEF TypeInv, TypeOK, Request
    <3> QED BY <3>2, SoloOne
  <2>2. CASE ~ReadLive(t)
    <3>1. Leaves(t) \/ (Follows(t) /\ req[t].pc \in {"collect", "apply", "applying"})
      BY <1>2, <2>2, StepLeaves, CollectSyncs, BeginSyncs, MoveSyncs
         DEF InReapply, Collect, ApplyBegin, ApplyBeginFails, ApplyStep,
             ApplyDisturbed, ApplyFails, At
    <3> QED BY <3>1, SoloOne DEF Leaves, Follows, SoloInv, Idle
  <2> QED BY <2>1, <2>2
<1>3. ASSUME \/ Crash \/ WorkersFetch \/ Rest \/ UNCHANGED vars
             \/ \E t \in Threads : Startup(t)
             \/ \E n \in Sources, k \in Listing : Reclassify(n, k)
      PROVE  SoloInv'
  BY <1>3, WorldOver DEF SoloInv, Over
<1> QED BY <1>1, <1>2, <1>3 DEF Next

-----------------------------------------------------------------------------
(* The streams of other requests. *)

LEMMA AtPlace ==
    ASSUME NEW t \in Threads, Step(t) \/ Fault(t)
    PROVE  /\ ~At(t, "idle")
           /\ At(t, "insert") => Insert(t)
           /\ At(t, "remove") => Remove(t)
           /\ At(t, "approved") => ApproveLookup(t)
  BY DEF Step, Fault, Insert, Provision, ProvisionInUse, FlagError,
     GoLive, Mint, PutPolicy, Record, InsertMember, Remove, MarkDeleted, Relive,
     Reread, ApproveLookup, ReadLive, Collect, ApplyBegin, ApplyStep,
     ApplyDisturbed, ApplyReturns, FlagApply, DelPolicy, DelRole, NoteRole,
     DelResource, NoteResource, ProvisionFails, MintFails,
     ApplyBeginFails, ApplyFails, DelRoleFails, DelResourceFails, At

LEMMA OthersKept ==
    ASSUME TypeInv, RoleInv, NEW t \in Threads, Step(t) \/ Fault(t), ~Insert(t),
           NEW s \in StreamId, s # Sid(t)
    PROVE  streams'[s] = streams[s]
<1>0. OnStreams(t)
  BY DEF RoleInv
<1>1. CASE Updates(t)
  BY <1>0, <1>1, FlagErrorIs, GoLiveIs, ReliveIs, RecordIs, MarkDeletedIs, SetErrIs
     DEF Updates, Becomes
<1>2. UNCHANGED streams \/ Updates(t)
  BY StepKinds, MovesLeave, RoleMovesLeave
<1> QED BY <1>1, <1>2

\* A status 'error' is written together with a last_error.
LEMMA NextErr == ASSUME TypeInv, RoleInv, ErrInv, [Next]_vars PROVE ErrInv'
<1>1. ASSUME NEW t \in Threads, Updates(t) PROVE ErrInv'
  <2>0. OnStreams(t)
    BY DEF RoleInv
  <2> USE DEF ErrInv, Becomes, StatusOf, RefOf, ErrOf, ArnOf
  <2>1. CASE FlagError(t)
    BY <2>0, <2>1, FlagErrorIs
  <2>2. CASE GoLive(t)
    BY <2>0, <2>2, GoLiveIs
  <2>3. CASE Relive(t)
    BY <2>0, <2>3, ReliveIs
  <2>4. CASE Record(t)
    BY <2>4, RecordIs
  <2>5. CASE MarkDeleted(t)
    BY <2>5, MarkDeletedIs
  <2>6. CASE FlagApply(t) \/ NoteRole(t) \/ NoteResource(t)
    BY <2>6, SetErrIs
  <2> QED BY <1>1, <2>1, <2>2, <2>3, <2>4, <2>5, <2>6 DEF Updates
<1>2. ASSUME NEW t \in Threads, Insert(t) PROVE ErrInv'
  BY <1>2, InsertIs DEF Inserts, ErrInv
<1>3. CASE UNCHANGED streams
  BY <1>3 DEF ErrInv
<1>4. ASSUME NEW t \in Threads, Step(t) \/ Fault(t)
      PROVE UNCHANGED streams \/ Insert(t) \/ Updates(t)
  BY <1>4, StepKinds, MovesLeave, RoleMovesLeave
<1> QED BY <1>1, <1>2, <1>3, <1>4, StartBegins, WorldLeaves DEF Next

-----------------------------------------------------------------------------
(* Until the portal is killed. *)

LEMMA NoCrash ==
    ASSUME TypeInv, [Next]_vars, used'["crashes"] = 0
    PROVE  ~Crash /\ used["crashes"] = 0
<1>1. \A k \in {"requests", "faults", "changes", "crashes"} : used[k] \in Nat
  BY DEF TypeInv, TypeOK
<1>2. used \in UsedType /\ used["crashes"] \in Nat
  BY <1>1 DEF TypeInv, TypeOK, UsedType
<1>3. ASSUME NEW k, NEW max, Budget(k, max)
      PROVE used["crashes"] = 0 /\ k # "crashes"
  BY <1>2, <1>3 DEF Budget, UsedType
<1>4. \/ used' = used
      \/ \E k \in {"requests", "faults", "changes"} : \E max : Budget(k, max)
      \/ Crash
  <2>1. ASSUME NEW t \in Threads, Start(t) PROVE \E max : Budget("requests", max)
    <3>1. PICK op, q : Accept(t, op, q)
      BY <2>1, StartLeaves
    <3> QED BY <3>1 DEF Accept
  <2>2. ASSUME NEW t \in Threads, Fault(t) PROVE \E max : Budget("faults", max)
    BY <2>2 DEF Fault, FaultTo, ProvisionFails, MintFails,
       ApplyBeginFails, ApplyFails, DelRoleFails, DelResourceFails
  <2>3. ASSUME NEW t \in Threads, Step(t) PROVE used' = used
    BY <2>3 DEF Step, Insert, Provision, ProvisionInUse, FlagError,
       GoLive, Mint, PutPolicy, Record, InsertMember, Remove, MarkDeleted, Relive,
       Reread, ApproveLookup, ReadLive, Collect, ApplyBegin, ApplyStep,
       ApplyDisturbed, ApplyReturns, FlagApply, DelPolicy, DelRole, NoteRole,
       DelResource, NoteResource
  <2>4. ASSUME NEW n \in Sources, NEW k \in Listing, Reclassify(n, k)
        PROVE \E max : Budget("changes", max)
    BY <2>4 DEF Reclassify
  <2> QED BY <2>1, <2>2, <2>3, <2>4 DEF Next, Rest, WorkersFetch, Startup, vars
<1>5. Crash => \E max : Budget("crashes", max)
  BY DEF Crash
<1> QED BY <1>3, <1>4, <1>5

-----------------------------------------------------------------------------
(* Every stream is flagged, up, or being brought up. *)

RaisedOf(t) ==
    /\ \A s \in StreamId : (Alive(s) /\ ~Raising(t, s)) => streams[s].err \/ Up(s)
    /\ req[t].pc \in {"reread", "mint", "putpolicy", "record"}
         => streams[Sid(t)].status = "live"

LEMMA RaisedOne ==
    ASSUME OneThread, NEW t \in Threads
    PROVE  (RaisedInv => RaisedOf(t)) /\ (RaisedOf(t)' => RaisedInv')
  BY DEF OneThread, RaisedInv, RaisedOf

\* What concerns t's own stream x.
RaisedHere(t, x) ==
    /\ (Alive(x) /\ req[t].pc \notin Making \ {"relive"}) => streams[x].err \/ Up(x)
    /\ req[t].pc \in {"reread", "mint", "putpolicy", "record"} => streams[x].status = "live"

LEMMA HereNow ==
    ASSUME NEW t \in Threads, Sid(t) \in StreamId, RaisedOf(t)
    PROVE  RaisedHere(t, Sid(t))
  BY DEF RaisedHere, RaisedOf, Raising

\* A request that is no longer at making its stream claims nothing of it but
\* what every stream must satisfy.
LEMMA NotMaking ==
    ASSUME NEW t \in Threads, req'[t].pc \notin Making \ {"relive"},
           \A s \in StreamId : Alive(s)' => streams'[s].err \/ Up(s)'
    PROVE  RaisedOf(t)'
  BY DEF RaisedOf, Making

\* Where a step that writes no stream takes the request.
LEMMA QuietMoves ==
    ASSUME TypeInv, RoleInv, NEW t \in Threads, Moves(t) \/ RoleMoves(t),
           RaisedHere(t, Sid(t))
    PROVE  \A x \in StreamId : x = Sid(t) => RaisedHere(t, x)'
<1>0. UNCHANGED streams /\ OnStreams(t)
  BY MovesLeave, RoleMovesLeave DEF RoleInv
<1> SUFFICES ASSUME NEW x \in StreamId, x = Sid(t) PROVE RaisedHere(t, x)'
  OBVIOUS
<1>1. UNCHANGED <<Alive(x), Up(x), streams[x]>>
  BY <1>0 DEF Alive, Up
<1>2. ASSUME req'[t].pc \notin Making, req[t].pc \notin Making PROVE RaisedHere(t, x)'
  BY <1>1, <1>2 DEF RaisedHere, Making
<1>3. CASE Provision(t) \/ ProvisionInUse(t) \/ ProvisionFails(t) \/ MintFails(t)
  <2>1. To(t, "golive") \/ To(t, "flag")
    BY <1>3, MakeTo
  <2> QED BY <2>1 DEF To, RaisedHere, Making
<1>4. CASE Reread(t)
  <2>1. Alive(x) /\ streams[x].status = "live"
    BY <1>0, <1>4 DEF Reread, At, OnStreams, Making, RaisedHere
  <2>2. To(t, IF streams[x].arn THEN "reapply" ELSE "mint")
    BY <1>4, <2>1, MakeTo
  <2> QED BY <1>1, <2>1, <2>2 DEF To, RaisedHere, Up, Making
<1>5. CASE Mint(t) \/ PutPolicy(t)
  <2>1. To(t, "putpolicy") \/ To(t, "flag") \/ To(t, "record")
    BY <1>5, MakeTo
  <2>2. streams[x].status = "live"
    BY <1>5 DEF Mint, PutPolicy, At, RaisedHere
  <2> QED BY <1>1, <2>1, <2>2 DEF To, RaisedHere, Making
<1>6. CASE Remove(t)
  <2>1. Over(t) \/ To(t, "reapply")
    BY <1>6, MakeTo
  <2> QED BY <1>2, <1>6, <2>1 DEF Remove, At, Over, To, Making
<1>7. CASE InsertMember(t) \/ ApproveLookup(t)
  <2>1. req'[t].pc \in {"idle", "members", "reapply"}
    BY <1>7, InsertMemberIs, ApproveLookupIs DEF Over, Adds, Finds
  <2> QED BY <1>2, <1>7, <2>1 DEF InsertMember, ApproveLookup, At, Making
<1>8. CASE \/ ReadLive(t) \/ Collect(t) \/ ApplyBegin(t) \/ ApplyBeginFails(t)
           \/ ApplyStep(t) \/ ApplyDisturbed(t) \/ ApplyFails(t) \/ ApplyReturns(t)
  <2>1. req[t].pc \in ResyncPc
    BY <1>8 DEF ReadLive, Collect, ApplyBegin, ApplyBeginFails, ApplyStep,
       ApplyDisturbed, ApplyFails, ApplyReturns, At, ResyncPc
  <2>2. Over(t) \/ \E pc \in {"collect", "apply", "applying", "flagapply", "delpolicy"} :
                     To(t, pc)
    BY <1>8, ReapplyTo, ApplyTo, ReturnsTo
  <2>3. req'[t].pc \notin Making
    BY <2>2 DEF Over, To, Making
  <2> QED BY <1>2, <2>1, <2>3 DEF ResyncPc, Making
<1>9. CASE \/ DelPolicy(t) \/ DelRole(t) \/ DelResource(t) \/ DelResourceFails(t)
           \/ DelRoleFails(t)
  <2>1. Over(t) \/ \E pc \in Deleting : To(t, pc)
    BY <1>9, DelTo DEF Deleting
  <2>2. req[t].pc \in Deleting
    BY <1>9 DEF DelPolicy, DelRole, DelResource, DelResourceFails, DelRoleFails, At,
       Deleting
  <2> QED BY <1>2, <2>1, <2>2 DEF Over, To, Making, Deleting
<1> QED BY <1>3, <1>4, <1>5, <1>6, <1>7, <1>8, <1>9 DEF Moves, RoleMoves

LEMMA UpdatesRaise ==
    ASSUME TypeInv, RoleInv, NEW t \in Threads, Updates(t), RaisedHere(t, Sid(t))
    PROVE  \A x \in StreamId : x = Sid(t) => RaisedHere(t, x)'
<1>0. OnStreams(t)
  BY DEF RoleInv
<1> SUFFICES ASSUME NEW x \in StreamId, x = Sid(t) PROVE RaisedHere(t, x)'
  OBVIOUS
<1>1. CASE FlagError(t)
  BY <1>0, <1>1, FlagErrorIs DEF Becomes, Over, RaisedHere
<1>2. CASE GoLive(t)
  BY <1>0, <1>2, GoLiveIs DEF Becomes, To, RaisedHere, Making
<1>3. CASE Relive(t)
  BY <1>0, <1>3, ReliveIs DEF Becomes, To, RaisedHere, Making
<1>4. CASE Record(t)
  <2>1. streams[x].status = "live"
    BY <1>4 DEF Record, At, RaisedHere
  <2> QED BY <1>4, <2>1, RecordIs DEF Becomes, StatusOf, To, RaisedHere, Up
<1>5. CASE MarkDeleted(t)
  BY <1>5, MarkDeletedIs DEF Becomes, To, RaisedHere, Alive
<1>6. CASE FlagApply(t) \/ NoteRole(t) \/ NoteResource(t)
  BY <1>6, SetErrIs DEF Becomes, Over, To, RaisedHere
<1> QED BY <1>1, <1>2, <1>3, <1>4, <1>5, <1>6 DEF Updates

LEMMA StepRaised ==
    ASSUME TypeInv, OneThread, RoleInv, RaisedInv, NEW t \in Threads, Step(t) \/ Fault(t)
    PROVE  RaisedInv'
<1>0. RaisedOf(t)
  BY RaisedOne
<1>1. CASE Insert(t)
  <2>0. \A s \in StreamId : Alive(s) => streams[s].err \/ Up(s)
    BY <1>0, <1>1 DEF RaisedOf, Raising, Insert, At, Making
  <2>1. CASE Over(t) /\ UNCHANGED streams
    <3>1. \A s \in StreamId : Alive(s)' => streams'[s].err \/ Up(s)'
      BY <2>0, <2>1 DEF Alive, Up
    <3>2. req'[t].pc \notin Making \ {"relive"}
      BY <2>1 DEF Over, Making
    <3> QED BY <3>1, <3>2, NotMaking, RaisedOne
  <2>2. ASSUME NEW s \in StreamId, Inserts(t, s) PROVE RaisedOf(t)'
    BY <2>0, <2>2 DEF Inserts, RaisedOf, Raising, Making, Alive, Up, Sid
  <2> QED BY <1>1, <2>1, <2>2, InsertIs, RaisedOne
<1>2. CASE ~Insert(t)
  <2>1. ASSUME NEW s \in StreamId, s # Sid(t), Alive(s)'
        PROVE  streams'[s].err \/ Up(s)'
    <3>1. streams'[s] = streams[s]
      BY <1>2, <2>1, OthersKept
    <3> QED BY <1>0, <2>1, <3>1 DEF RaisedOf, Raising, Alive, Up
  <2>2. ASSUME NEW x \in StreamId, x = Sid(t) PROVE RaisedHere(t, x)'
    <3>1. RaisedHere(t, Sid(t))
      BY <1>0, <2>2, HereNow
    <3> QED BY <1>2, <2>2, <3>1, QuietMoves, UpdatesRaise, StepKinds
  <2>3. CASE req'[t].sid = Sid(t)
    <3>1. Sid(t) \in StreamId \/ req'[t].pc \notin {"reread", "mint", "putpolicy", "record"}
      <4>1. [Next]_vars
        BY DEF Next
      <4>2. TypeInv'
        BY <4>1, NextTypeInv
      <4>3. req'[t] \in GoodRequest
        BY <4>2 DEF TypeInv
      <4>4. req'[t].op \in AllOps \cup {"none", "startup"} /\ Actor(req'[t])
        BY <4>3 DEF GoodRequest, Request
      <4> QED BY <2>3, <4>4 DEF Actor, NoSid, ResyncPc
    <3> QED BY <2>1, <2>2, <2>3, <3>1, RaisedOne DEF RaisedOf, RaisedHere, Raising, Sid
  <2>4. CASE req'[t].sid # Sid(t)
    <3>0. Over(t) \/ (Carries(t) /\ At(t, "approved"))
      BY <1>2, <2>4, StepCarries, AtPlace DEF Carries, Sid, At
    <3>1. req'[t].pc \notin Making
      BY <3>0, AtPlace, ApproveLookupIs DEF Over, Finds, Making
    <3> QED BY <2>1, <2>2, <3>1, NotMaking, RaisedOne DEF RaisedHere
  <2> QED BY <2>3, <2>4
<1> QED BY <1>1, <1>2

LEMMA NextRaised ==
    ASSUME TypeInv, OneThread, RoleInv, RaisedInv, [Next]_vars, ~Crash
    PROVE  RaisedInv'
<1>1. ASSUME NEW t \in Threads, Start(t) PROVE RaisedInv'
  <2>0. Begins(t) /\ At(t, "idle") /\ UNCHANGED streams
    BY <1>1, StartBegins
  <2>1. \A s \in StreamId : Alive(s)' => streams'[s].err \/ Up(s)'
    BY <2>0, RaisedOne DEF RaisedOf, Raising, At, Making, Alive, Up
  <2>2. req'[t].pc \notin {"reread", "mint", "putpolicy", "record"}
    BY <2>0 DEF Begins, BeginsNew, BeginsAdd, BeginsOn, Entries, BeginsApprove,
       Rejects, Over
  <2>3. RaisedOf(t)'
    BY <2>1, <2>2 DEF RaisedOf
  <2> QED BY <2>3, RaisedOne
<1>2. ASSUME UNCHANGED <<streams, req>> PROVE RaisedInv'
  BY <1>2 DEF RaisedInv, Raising, Up, Alive, Sid
<1>3. ASSUME NEW t \in Threads, Startup(t) PROVE RaisedInv'
  <2>0. At(t, "idle") /\ UNCHANGED streams /\ req'[t].pc = "reapply"
    BY <1>3 DEF Startup, dbVars, Idle, TypeInv, TypeOK
  <2>1. \A s \in StreamId : Alive(s)' => streams'[s].err \/ Up(s)'
    BY <2>0, RaisedOne DEF RaisedOf, Raising, At, Making, Alive, Up
  <2> QED BY <2>0, <2>1, NotMaking, RaisedOne DEF Making
<1> QED BY <1>1, <1>2, <1>3, StepRaised
        DEF Next, WorkersFetch, Reclassify, Rest, vars, dbVars

-----------------------------------------------------------------------------
(* What the invariants say of a stream that no request is making. *)

LEMMA InitSafe == Init => SafeInv /\ RaisedInv
<1> SUFFICES ASSUME Init PROVE SafeInv /\ RaisedInv
  OBVIOUS
<1>1. \A s \in StreamId : streams[s].status = "absent"
  BY DEF Init, NoStream
<1>2. \A t \in Threads : req[t].pc = "idle" /\ req[t].op = "none"
  BY DEF Init, Idle
<1>3. \A s \in StreamId : ~Alive(s)
  BY <1>1 DEF Alive
<1>4. NameInv /\ ResourceInv /\ ErrInv /\ SoloInv
  BY <1>1, <1>2, <1>3 DEF NameInv, ResourceInv, ErrInv, SoloInv, Gone, At, Op
<1>5. RaisedInv
  BY <1>2, <1>3 DEF RaisedInv
<1> QED BY <1>4, <1>5, InitSerialRole DEF SafeInv

LEMMA NextSafe ==
    ASSUME TypeInv, OneThread, SafeInv, [Next]_vars PROVE SafeInv'
  BY NextRole, NextName, NextResource, NextErr, NextSolo DEF SafeInv

RaisedUnlessMaking ==
    \A s \in StreamId : (Alive(s) /\ \A t \in Threads : ~Raising(t, s)) =>
        streams[s].err \/ LeftByCrash(s) \/ Raised(s)

LEMMA RaisedIs ==
    ASSUME TypeInv, LiveHasRef, SafeInv, UncrashedInv PROVE RaisedUnlessMaking
<1> SUFFICES ASSUME NEW s \in StreamId, Alive(s), ~streams[s].err, ~LeftByCrash(s),
                    \A t \in Threads : ~Raising(t, s)
             PROVE  Raised(s)
  BY DEF RaisedUnlessMaking
<1>0. used["crashes"] \in Nat
  BY DEF TypeInv, TypeOK
<1>1. Up(s)
  <2>1. CASE used["crashes"] = 0
    BY <2>1 DEF UncrashedInv, RaisedInv
  <2>2. CASE used["crashes"] > 0
    BY <2>2 DEF LeftByCrash, HalfMade, SafeInv, ErrInv, Alive, Up
  <2> QED BY <1>0, <2>1, <2>2
<1>2. ResourceOf(s) \in resources
  BY <1>1 DEF LiveHasRef, SafeInv, ResourceInv, Up
<1>3. roles[s].trust # None /\ roles[s].policy
  BY <1>1 DEF SafeInv, RoleInv, RecordedRoleExists, Up
<1> QED BY <1>1, <1>2, <1>3 DEF Raised, Up

LEMMA RaisedHolds ==
    ASSUME OneThread
    PROVE  Spec => [](TypeInv /\ SyncInv /\ SafeInv /\ RaisedUnlessMaking)
<1> DEFINE Inv == TypeInv /\ SyncInv /\ SafeInv /\ UncrashedInv
<1>1. Init => Inv
  BY InitTypeInv, InitSync, InitSafe DEF UncrashedInv
<1>2. Inv /\ [Next]_vars => Inv'
  <2> SUFFICES ASSUME Inv, [Next]_vars PROVE Inv'
    OBVIOUS
  <2>1. TypeInv' /\ SyncInv' /\ SafeInv'
    BY NextTypeInv, NextCoupled, NextSyncs, NextSafe DEF SyncInv
  <2>2. UncrashedInv'
    BY NoCrash, NextRaised DEF UncrashedInv, SafeInv
  <2> QED BY <2>1, <2>2
<1>3. Inv /\ LiveHasRef => TypeInv /\ SyncInv /\ SafeInv /\ RaisedUnlessMaking
  BY RaisedIs
<1> HIDE DEF Inv
<1> QED BY <1>1, <1>2, <1>3, LiveHasRefHolds, PTL DEF Spec

\* One request at a time: a stream its owner can see is between requests flagged
\* with an error, left half-made by a crash (and its row shows it), or live with
\* its resource and its role, whichever calls to AWS and to the leader failed.
THEOREM FlaggedOrRaisedHolds ==
    ASSUME OneThread PROVE Spec => []FlaggedOrRaised
<1>1. RaisedUnlessMaking => FlaggedOrRaised
  BY DEF RaisedUnlessMaking, FlaggedOrRaised, Quiet, At, Raising, Making
<1> QED BY <1>1, RaisedHolds, PTL

-----------------------------------------------------------------------------
(* The end of a reapply. *)

Served(t) ==
    EndsAtReapply(t) =>
      \A s \in StreamId :
        (/\ jobs[t].pc = "ok" \/ (s = Sid(t) /\ Op(t) # "startup")
         /\ Alive(s)' /\ ~streams'[s].err /\ ~LeftByCrash(s)') =>
           Raised(s)' /\ ActiveRoutes(s)' \subseteq deployed'

LEMMA EndServes ==
    ASSUME TypeInv, OneThread, SyncInv, SafeInv, RaisedUnlessMaking',
           [Next]_vars, NEW t \in Threads
    PROVE  Served(t)
<1> SUFFICES ASSUME EndsAtReapply(t), NEW s \in StreamId,
                    jobs[t].pc = "ok" \/ (s = Sid(t) /\ Op(t) # "startup"),
                    Alive(s)', ~streams'[s].err, ~LeftByCrash(s)'
             PROVE  Raised(s)' /\ ActiveRoutes(s)' \subseteq deployed'
  BY DEF Served
<1>0. OnStreams(t)
  BY DEF SafeInv, RoleInv
<1>1. Raised(s)'
  <2>1. \A o \in Threads : ~Raising(o, s)'
    BY DEF OneThread, EndsAtReapply, Raising, Making
  <2> QED BY <2>1 DEF RaisedUnlessMaking
<1>2. FlagApply(t) \/ Collect(t) \/ ApplyReturns(t)
  <2>1. ASSUME NEW o \in Threads, Start(o) PROVE FALSE
    BY <2>1, StartBegins DEF OneThread, At, EndsAtReapply
  <2>2. ASSUME NEW o \in Threads, Step(o) \/ Fault(o) PROVE Step(t) \/ Fault(t)
    BY <2>2 DEF OneThread
  <2>3. ASSUME NEW o \in Threads, Startup(o) PROVE FALSE
    BY <2>3 DEF Startup, At, EndsAtReapply
  <2>4. ~Crash
    BY DEF Crash, EndsAtReapply
  <2>5. ~UNCHANGED req
    BY DEF EndsAtReapply
  <2>6. Step(t) \/ Fault(t)
    BY <2>1, <2>2, <2>3, <2>4, <2>5 DEF Next, WorkersFetch, Rest, Reclassify, vars
  <2>7. \/ FlagApply(t) \/ Collect(t) \/ ApplyReturns(t)
        \/ ApplyStep(t) \/ ApplyDisturbed(t) \/ ApplyFails(t)
    BY <2>6 DEF EndsAtReapply, Step, Fault, Insert, Provision, ProvisionInUse, FlagError,
       GoLive, Mint, PutPolicy, Record, InsertMember, Remove, MarkDeleted, Relive,
       Reread, ApproveLookup, ReadLive, ApplyBegin, DelPolicy, DelRole, NoteRole,
       DelResource, NoteResource, ProvisionFails, MintFails, ApplyBeginFails,
       DelRoleFails, DelResourceFails, At
  <2> QED BY <2>7, ApplyTo DEF To, EndsAtReapply
<1>3. CASE FlagApply(t)
  <2>1. jobs[t].pc # "ok"
    BY <1>3 DEF FlagApply, SyncInv, Coupled, At
  <2> QED BY <1>3, <2>1, SetErrIs DEF Becomes
<1>4. CASE Collect(t)
  <2>1. jobs[t].pc # "ok"
    BY <1>4 DEF Collect, SyncInv, Coupled, At
  <2>2. Op(t) \in {"startup", "delete"}
    BY <1>4, ReapplyTo DEF To, EndsAtReapply
  <2>3. streams[s].status = "deleted"
    BY <1>0, <1>4, <2>1, <2>2 DEF OnStreams, Gone, Collect, At
  <2>4. UNCHANGED streams
    BY <1>4 DEF Collect, dbVars
  <2> QED BY <2>3, <2>4 DEF Alive
<1>5. CASE ApplyReturns(t)
  <2>1. jobs[t].pc = "ok"
    BY <1>5, ReturnsTo DEF To, EndsAtReapply
  <2>2. Sync(t) /\ At(t, "applying")
    BY <1>5 DEF ApplyReturns, At, SyncInv, Synced, SafeInv, SoloInv
  <2>3. deployed = Desired
    BY <2>1, <2>2 DEF Sync
  <2>4. UNCHANGED <<streams, members, deployed>>
    BY <1>5 DEF ApplyReturns, Pipe!Return, Pipe!leaderVars, dbVars
  <2>5. ActiveRoutes(s)' = ActiveRoutes(s) /\ s \in LiveStreams
    BY <1>1, <2>4 DEF ActiveRoutes, Raised, LiveStreams
  <2> QED BY <1>1, <2>3, <2>4, <2>5 DEF Desired
<1> QED BY <1>2, <1>3, <1>4, <1>5

\* One request at a time: a request that ends at its reapply leaves its own stream
\* flagged, or fully served with every active source in the deployed version; and
\* when the apply has succeeded it leaves every stream so, whatever earlier
\* requests, rollbacks, crashes and lagging workers had taken from it.
THEOREM FlaggedOrServedHolds ==
    ASSUME OneThread PROVE Spec => FlaggedOrServed
<1> DEFINE Inv == TypeInv /\ SyncInv /\ SafeInv /\ RaisedUnlessMaking
<1>1. Inv /\ Inv' /\ [Next]_vars => [\A t \in Threads : Served(t)]_vars
  BY EndServes
<1> DEFINE Same ==
      [\A t \in Threads : EndsAtReapply(t) =>
         \A s \in StreamId :
           (/\ jobs[t].pc = "ok" \/ (s = Sid(t) /\ Op(t) # "startup")
            /\ Alive(s)' /\ ~streams'[s].err /\ ~LeftByCrash(s)') =>
              Raised(s)' /\ ActiveRoutes(s)' \subseteq deployed']_vars
<1>2. [\A t \in Threads : Served(t)]_vars => Same
  BY DEF Served
<1>3. Spec => []Inv
  BY RaisedHolds
<1> HIDE DEF Inv
<1> QED BY <1>1, <1>2, <1>3, PTL DEF Spec, FlaggedOrServed
=============================================================================
