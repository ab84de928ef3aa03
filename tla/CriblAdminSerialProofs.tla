----------------------- MODULE CriblAdminSerialProofs -----------------------
(***************************************************************************)
(* What is proved of CriblAdmin when one thread calls apply, whatever      *)
(* fails, however often the portal is killed in the middle of a call and   *)
(* whatever routes others add meanwhile:                                   *)
(*                                                                         *)
(*   NoDanglingRouteHolds       no commit holds a route without an output  *)
(*   SuccessMeansDeployedHolds  apply's return means its want is deployed  *)
(*                                                                         *)
(* With two callers neither holds: CriblAdmin.tla says how they race.      *)
(***************************************************************************)
EXTENDS CriblAdminProofs

OneCaller == \A c, d \in Callers : c = d

\* How far the call has brought the leader: which outputs and which routes
\* are there before the next REST call, whatever earlier calls left behind.
Progress(c) ==
    LET k == calls[c]
    IN /\ k.pc = "upsert" => Ids(k.want) \ k.todo \subseteq outputs
       /\ k.pc \in {"getroutes", "patch", "stale", "delete", "commit"} =>
            Ids(k.want) \subseteq outputs
       /\ k.pc \in {"stale", "delete", "commit"} => ForkRoutes(routes) = k.want
       /\ k.pc = "delete" => k.todo = outputs \ Ids(k.want)
       /\ k.pc = "commit" => outputs \subseteq Ids(k.want)
       /\ k.pc \in {"deploy", "await", "ok"} =>
            /\ k.commit \in DOMAIN versions
            /\ Held(k.commit) = k.want
            /\ versions[k.commit].outputs = Ids(k.want)
       /\ k.pc \in {"await", "ok"} => config = k.commit

SerialInv == (\A c \in Callers : Progress(c)) /\ NoDanglingRoute

LEMMA SerialInit == Init => SerialInv
<1> SUFFICES ASSUME Init PROVE SerialInv
  OBVIOUS
<1>1. \A c \in Callers : calls[c].pc = "idle"
  BY DEF Init, NoCall
<1>2. versions[1].routes = ArchiveEntries /\ DOMAIN versions = {1}
  BY DEF Init
<1>3. Held(1) = {}
  BY InitRefines DEF Pipe!PipeInit, Init
<1>4. Ids(Held(1)) \subseteq versions[1].outputs
  BY <1>3 DEF Ids
<1> QED BY <1>1, <1>2, <1>4 DEF SerialInv, Progress, NoDanglingRoute

\* The versions keep what they hold, and the commits their outputs.
LEMMA SameVersions ==
    ASSUME UNCHANGED versions, NoDanglingRoute
    PROVE  NoDanglingRoute'
  BY DEF NoDanglingRoute, Held

\* Nothing is claimed of a call that is idle, rolls back or has raised.
LEMMA NothingClaimed ==
    ASSUME NEW c \in Callers,
           calls'[c].pc \in {"idle", "versions", "list", "rollback", "raised"}
    PROVE  Progress(c)'
  BY DEF Progress

LEMMA SerialStep ==
    ASSUME TypeInv, TypeInv', NEW c \in Callers, Progress(c), NoDanglingRoute,
           Step(c)
    PROVE  Progress(c)' /\ NoDanglingRoute'
<1> USE DEF workingVars, groupVars
<1>0. /\ calls[c] \in Call /\ CallOK(calls[c], Len(versions))
      /\ calls \in [Callers -> Call] /\ TypeOK
      /\ Len(versions) \in Nat /\ DOMAIN versions = 1..Len(versions)
      /\ config \in 1..Len(versions) /\ worker \in 1..Len(versions)
  BY VersionsType DEF TypeInv, TypeOK
<1>1. CASE ReadVersions(c)
  <2>1. calls'[c].pc = "list" /\ UNCHANGED versions
    BY <1>0, <1>1 DEF ReadVersions, Call
  <2> QED BY <2>1, NothingClaimed, SameVersions
<1>2. CASE ListOutputs(c)
  <2>1. /\ UNCHANGED <<versions, outputs>> /\ calls'[c].want = calls[c].want
        /\ calls'[c].todo = Ids(calls[c].want)
        /\ calls'[c].pc \in {"upsert", "getroutes"}
        /\ calls'[c].pc = "getroutes" => calls[c].want = {}
    BY <1>0, <1>2 DEF ListOutputs, Call
  <2>2. Ids({}) = {}
    BY DEF Ids
  <2> QED BY <2>1, <2>2, SameVersions DEF Progress
<1>3. CASE Upsert(c)
  <2>1. UNCHANGED versions /\ calls[c].pc = "upsert"
    BY <1>3 DEF Upsert, At
  <2>2. CASE Goto(c, "rollback")
    <3>1. calls'[c].pc = "rollback"
      BY <1>0, <2>2 DEF Goto, Call
    <3> QED BY <2>1, <3>1, NothingClaimed, SameVersions
  <2>3. ASSUME NEW f \in calls[c].todo, outputs' = outputs \cup {f},
               calls' = [calls EXCEPT ![c].todo = @ \ {f},
                 ![c].pc = IF calls[c].todo = {f} THEN "getroutes" ELSE "upsert"]
        PROVE  Progress(c)'
    <3>1. /\ calls'[c].want = calls[c].want /\ calls'[c].todo = calls[c].todo \ {f}
          /\ calls'[c].pc \in {"upsert", "getroutes"}
          /\ calls'[c].pc = "getroutes" => calls[c].todo = {f}
      BY <1>0, <2>3 DEF Call
    <3>2. Ids(calls[c].want) \ calls[c].todo \subseteq outputs
      BY <2>1 DEF Progress
    <3> QED BY <2>3, <3>1, <3>2 DEF Progress
  <2> QED BY <1>3, <2>1, <2>2, <2>3, SameVersions DEF Upsert
<1>4. CASE GetRoutes(c)
  <2>1. /\ UNCHANGED <<versions, outputs>> /\ calls'[c].want = calls[c].want
        /\ calls[c].pc = "getroutes" /\ calls'[c].pc = "patch"
    BY <1>0, <1>4 DEF GetRoutes, At, Call
  <2> QED BY <2>1, SameVersions DEF Progress
<1>5. CASE PatchRoutes(c)
  <2>1. /\ UNCHANGED <<versions, outputs>> /\ calls'[c].want = calls[c].want
        /\ calls[c].pc = "patch" /\ calls[c].want \in Wants
        /\ Kept(calls[c].doc) /\ calls[c].doc \in Seq(Entry)
    BY <1>0, <1>5 DEF PatchRoutes, Goto, At, Call, CallOK
  <2>2. CASE Goto(c, "rollback")
    <3>1. calls'[c].pc = "rollback"
      BY <1>0, <2>2 DEF Goto, Call
    <3> QED BY <2>1, <3>1, NothingClaimed, SameVersions
  <2>3. CASE /\ routes' = Spliced(calls[c].want, calls[c].doc)
             /\ Goto(c, "stale")
    <3>1. calls'[c].pc = "stale"
      BY <1>0, <2>3 DEF Goto, Call
    <3>2. ForkRoutes(routes') = calls[c].want
      BY <2>1, <2>3, SplicedIs DEF Kept
    <3> QED BY <2>1, <3>1, <3>2, SameVersions DEF Progress, ForkRoutes
  <2> QED BY <1>5, <2>2, <2>3 DEF PatchRoutes
<1>6. CASE ListStale(c)
  <2>1. /\ UNCHANGED <<versions, outputs, routes>> /\ calls'[c].want = calls[c].want
        /\ calls[c].pc = "stale"
        /\ calls'[c].todo = outputs \ Ids(calls[c].want)
        /\ calls'[c].pc \in {"delete", "commit"}
        /\ calls'[c].pc = "commit" => outputs \ Ids(calls[c].want) = {}
    BY <1>0, <1>6 DEF ListStale, At, Call
  <2> QED BY <2>1, SameVersions DEF Progress, ForkRoutes
<1>7. CASE DeleteStale(c)
  <2>1. UNCHANGED <<versions, routes>> /\ calls[c].pc = "delete"
    BY <1>7 DEF DeleteStale, At
  <2>2. CASE Goto(c, "rollback")
    <3>1. calls'[c].pc = "rollback"
      BY <1>0, <2>2 DEF Goto, Call
    <3> QED BY <2>1, <3>1, NothingClaimed, SameVersions
  <2>3. ASSUME NEW f \in calls[c].todo, outputs' = outputs \ {f},
               calls' = [calls EXCEPT ![c].todo = @ \ {f},
                 ![c].pc = IF calls[c].todo = {f} THEN "commit" ELSE "delete"]
        PROVE  Progress(c)'
    <3>1. /\ calls'[c].want = calls[c].want /\ calls'[c].todo = calls[c].todo \ {f}
          /\ calls'[c].pc \in {"commit", "delete"}
          /\ calls'[c].pc = "commit" => calls[c].todo = {f}
      BY <1>0, <2>3 DEF Call
    <3>2. /\ Ids(calls[c].want) \subseteq outputs
          /\ ForkRoutes(routes) = calls[c].want
          /\ calls[c].todo = outputs \ Ids(calls[c].want)
      BY <2>1 DEF Progress
    <3> QED BY <2>1, <2>3, <3>1, <3>2 DEF Progress, ForkRoutes
  <2> QED BY <1>7, <2>1, <2>2, <2>3, SameVersions DEF DeleteStale
<1>8. CASE Commit(c)
  <2>1. /\ UNCHANGED <<routes, outputs, config>> /\ calls[c].pc = "commit"
        /\ Ids(calls[c].want) = outputs /\ ForkRoutes(routes) = calls[c].want
    BY <1>8 DEF Commit, At, Progress
  <2>2. CASE Goto(c, "rollback") /\ UNCHANGED versions
    <3>1. calls'[c].pc = "rollback"
      BY <1>0, <2>2 DEF Goto, Call
    <3> QED BY <2>2, <3>1, NothingClaimed, SameVersions
  <2>3. CASE /\ versions' = Append(versions, Working)
             /\ calls' = [calls EXCEPT ![c].commit = Len(versions) + 1,
                                       ![c].pc = "deploy"]
    <3> DEFINE n == Len(versions) + 1
    <3>1. /\ calls'[c].want = calls[c].want /\ calls'[c].pc = "deploy"
          /\ calls'[c].commit = n
      BY <1>0, <2>3 DEF Call
    <3>2. /\ \A v \in DOMAIN versions : versions'[v] = versions[v]
          /\ versions'[n] = Working /\ DOMAIN versions' = 1..n /\ n \in Nat
      <4>1. versions' \in Seq(Version) /\ Len(versions') = n
        BY <1>0, <2>3, VersionsType
      <4> QED BY <1>0, <2>3, <4>1, VersionsType, LenProperties
    <3> HIDE DEF n
    <3>3. /\ ForkRoutes(versions'[n].routes) = calls[c].want
          /\ versions'[n].outputs = Ids(calls[c].want)
      BY <2>1, <3>2 DEF Working
    <3>4. Progress(c)'
      <4>1. n \in DOMAIN versions'
        BY <1>0, <3>2 DEF n
      <4> QED BY <3>1, <3>3, <4>1 DEF Progress, Held
    <3>5. NoDanglingRoute'
      <4> SUFFICES ASSUME NEW v \in DOMAIN versions'
                   PROVE  Ids(ForkRoutes(versions'[v].routes)) \subseteq versions'[v].outputs
        BY DEF NoDanglingRoute, Held
      <4>1. CASE v = n
        BY <3>3, <4>1
      <4>2. CASE v \in DOMAIN versions
        BY <3>2, <4>2 DEF NoDanglingRoute, Held
      <4> QED BY <1>0, <3>2, <4>1, <4>2 DEF n
    <3> QED BY <3>4, <3>5
  <2> QED BY <1>8, <2>2, <2>3 DEF Commit
<1>9. CASE Deploy(c)
  <2>1. /\ UNCHANGED versions /\ calls'[c].want = calls[c].want
        /\ calls'[c].commit = calls[c].commit
        /\ calls[c].pc = "deploy" /\ calls'[c].pc = "await"
        /\ config' = calls[c].commit
    BY <1>0, <1>9 DEF Deploy, Goto, At, Call
  <2> QED BY <2>1, SameVersions DEF Progress, Held
<1>10. CASE Poll(c)
  <2>1. /\ UNCHANGED <<versions, config>> /\ calls[c].pc = "await"
    BY <1>10 DEF Poll, At
  <2> DEFINE pc == CASE calls[c].commit \in {config, worker} -> "ok"
                     [] calls[c].polls >= MaxPolls -> "rollback"
                     [] OTHER -> "await"
  <2>2. calls' = [calls EXCEPT ![c].pc = pc,
                    ![c].polls = IF @ < MaxPolls THEN @ + 1 ELSE @]
    BY <1>10 DEF Poll
  <2>3. pc \in {"ok", "rollback", "await"}
    OBVIOUS
  <2> HIDE DEF pc
  <2>4. /\ calls'[c].want = calls[c].want /\ calls'[c].commit = calls[c].commit
        /\ calls'[c].pc \in {"ok", "rollback", "await"}
    BY <1>0, <2>2, <2>3 DEF Call
  <2> QED BY <2>1, <2>4, SameVersions DEF Progress, Held
<1>11. CASE Rollback(c)
  <2>1. UNCHANGED versions
    BY <1>11 DEF Rollback
  <2>2. calls'[c].pc = "raised"
    <3>1. CASE Goto(c, "raised")
      BY <1>0, <3>1 DEF Goto, Call
    <3>2. CASE calls' = [calls EXCEPT ![c].pc = "raised", ![c].redeployed = TRUE]
      BY <1>0, <3>2 DEF Call
    <3> QED BY <1>11, <3>1, <3>2 DEF Rollback
  <2> QED BY <2>1, <2>2, NothingClaimed, SameVersions
<1>12. CASE Return(c)
  <2>1. UNCHANGED versions /\ calls'[c].pc = "idle"
    BY <1>0, <1>12 DEF Return, NoCall
  <2> QED BY <2>1, NothingClaimed, SameVersions
<1> QED BY <1>1, <1>2, <1>3, <1>4, <1>5, <1>6, <1>7, <1>8, <1>9, <1>10, <1>11, <1>12
        DEF Step

\* Nobody but the caller undoes what the call has reached.
LEMMA SerialNext ==
    ASSUME OneCaller, TypeInv, TypeInv', SerialInv, [Next]_vars
    PROVE  SerialInv'
<1> USE DEF workingVars, groupVars
<1>0. /\ TypeOK /\ calls \in [Callers -> Call] /\ NoDanglingRoute
      /\ \A c \in Callers : calls[c] \in Call /\ Progress(c)
  BY DEF TypeInv, TypeOK, SerialInv
<1>1. ASSUME NEW c \in Callers, Progress(c)', NoDanglingRoute'
      PROVE  SerialInv'
  BY <1>1 DEF OneCaller, SerialInv
<1>2. ASSUME NEW c \in Callers, NEW w \in Wants, Login(c, w) PROVE SerialInv'
  <2>1. UNCHANGED versions /\ calls'[c].pc = "versions"
    BY <1>0, <1>2, NoCallType DEF Login, Call
  <2> QED BY <1>0, <1>1, <2>1, NothingClaimed, SameVersions
<1>3. ASSUME NEW c \in Callers, Step(c) PROVE SerialInv'
  BY <1>0, <1>1, <1>3, SerialStep
<1>4. ASSUME NEW c \in Callers, LoginFails(c) \/ CallFails(c) PROVE SerialInv'
  <2>1. UNCHANGED versions /\ calls'[c].pc \in {"raised", "rollback"}
    BY <1>0, <1>4 DEF LoginFails, CallFails, Goto, Call
  <2> QED BY <1>0, <1>1, <2>1, NothingClaimed, SameVersions
<1>5. ASSUME NEW c \in Callers, PollFails(c) PROVE SerialInv'
  <2>1. /\ UNCHANGED <<versions, config>> /\ calls[c].pc = "await"
        /\ calls'[c].want = calls[c].want /\ calls'[c].commit = calls[c].commit
        /\ calls'[c].pc \in {"rollback", "await"}
    BY <1>0, <1>5 DEF PollFails, At, Call
  <2>2. Progress(c)'
    BY <1>0, <2>1 DEF Progress, Held
  <2> QED BY <1>0, <1>1, <2>1, <2>2, SameVersions
<1>6. ASSUME UNCHANGED <<outputs, ForkRoutes(routes), versions, config, calls>>
      PROVE  SerialInv'
  BY <1>0, <1>6, SameVersions DEF SerialInv, Progress, Held
<1>7. CASE Fetch
  BY <1>6, <1>7, SameView DEF Fetch
<1>8. ASSUME NEW o \in Others, Edit(o) PROVE SerialInv'
  <2>1. UNCHANGED ForkRoutes(routes)
    BY <1>0, <1>8, EditKeeps DEF Edit, TypeInv, TypeOK, Tables
  <2> QED BY <1>6, <1>8, <2>1 DEF Edit
<1>9. CASE Abort
  <2>1. UNCHANGED versions /\ \A c \in Callers : calls'[c].pc = "idle"
    BY <1>9 DEF Abort, NoCall
  <2> QED BY <1>0, <2>1, NothingClaimed, SameVersions DEF SerialInv
<1>10. CASE UNCHANGED vars
  BY <1>6, <1>10, SameView DEF vars
<1> QED BY <1>2, <1>3, <1>4, <1>5, <1>7, <1>8, <1>9, <1>10 DEF Next, Rest

LEMMA Serial == ASSUME OneCaller PROVE Spec => [](TypeInv /\ SerialInv)
<1>1. Init => TypeInv /\ SerialInv
  BY InitType, SerialInit
<1>2. TypeInv /\ SerialInv /\ [Next]_vars => (TypeInv /\ SerialInv)'
  BY NextType, SerialNext
<1> QED BY <1>1, <1>2, PTL DEF Spec

\* One caller: whatever fails or is cut short, no version ever committed has a
\* fork route whose output it lacks.
THEOREM NoDanglingRouteHolds ==
    ASSUME OneCaller PROVE Spec => []NoDanglingRoute
<1>1. TypeInv /\ SerialInv => NoDanglingRoute
  BY DEF SerialInv
<1> QED BY <1>1, Serial, PTL

\* One caller: when apply returns, the deployed version has exactly the routes
\* asked for and their outputs, whatever debris earlier calls left.
THEOREM SuccessMeansDeployedHolds ==
    ASSUME OneCaller PROVE Spec => []SuccessMeansDeployed
<1>1. TypeInv /\ SerialInv => SuccessMeansDeployed
  BY DEF SerialInv, Progress, SuccessMeansDeployed, At
<1> QED BY <1>1, Serial, PTL

=============================================================================
