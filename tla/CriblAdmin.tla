----------------------------- MODULE CriblAdmin -----------------------------
(***************************************************************************)
(* backend/app/cribl/admin.py: one call of apply is a sequence of REST     *)
(* calls to the Cribl leader, each a step here, and the steps of calls     *)
(* made by different threads interleave (nothing serialises them).         *)
(*                                                                         *)
(* The leader is external: a working configuration (outputs and one route  *)
(* table), numbered commits of it, and the two version fields of the       *)
(* group.  What it refuses is what the comments in admin.py say it does.   *)
(***************************************************************************)
EXTENDS Naturals, Sequences, FiniteSets, SequencesExt

CONSTANTS
    Callers,      \* threads that may call apply
    Forks,        \* fork ids: routes and outputs whose id starts with fork_
    Filters,      \* what a fork route may match
    Others,       \* ids of the routes the portal does not own
    Archive,      \* [1..n -> Others]: the other routes at the start
    Wants,        \* the sets of fork routes apply is called with
    None,
    MaxCalls, MaxFaults, MaxEdits, MaxPolls

Routes == Forks \X Filters

ASSUME WantAssumption ==
    /\ Wants \subseteq SUBSET Routes
    /\ \A w \in Wants : /\ IsFiniteSet(w)
                        /\ \A r, q \in w : r[1] = q[1] => r = q
ASSUME OtherAssumption == Others \cap Forks = {} /\ Archive \in Seq(Others)

VARIABLES
    outputs,      \* fork outputs of the working configuration
    routes,       \* the working route table
    versions,     \* the commits: versions[v] is what commit v holds
    config,       \* the group's configVersion
    worker,       \* the group's deployedVersion
    calls,        \* one record per caller
    used          \* bounds: calls, faults and edits so far

workingVars == <<outputs, routes>>
groupVars == <<versions, config, worker>>
vars == <<workingVars, groupVars, calls, used>>

Entry == [id: Forks \cup Others, filter: Filters \cup {None}]
Version == [outputs: SUBSET Forks, routes: Seq(Entry)]

Pc == {"idle", "versions", "list", "upsert", "getroutes", "patch", "stale",
       "delete", "commit", "deploy", "await", "rollback", "ok", "raised"}

Call == [pc: Pc, want: SUBSET Routes,
         prev: SUBSET Nat,          \* {} is None
         existing: SUBSET Forks,    \* fork outputs as listed before the upserts
         todo: SUBSET Forks,        \* outputs still to upsert, or to delete
         doc: Seq(Entry),           \* the route table as GET returned it
         commit: Nat, polls: Nat,
         before: Nat,               \* history: configVersion at the start
         redeployed: BOOLEAN]       \* history: the rollback went through

NoCall == [pc |-> "idle", want |-> {}, prev |-> {}, existing |-> {},
           todo |-> {}, doc |-> <<>>, commit |-> 0, polls |-> 0,
           before |-> 0, redeployed |-> FALSE]

TypeOK ==
    /\ outputs \subseteq Forks
    /\ routes \in Seq(Entry)
    /\ versions \in Seq(Version)
    /\ config \in DOMAIN versions /\ worker \in DOMAIN versions
    /\ calls \in [Callers -> Call]

IsFork(e) == e.id \in Forks
IsOther(e) == e.id \notin Forks
Ids(w) == {r[1] : r \in w}
ForkRoutes(tbl) == {<<e.id, e.filter>> : e \in {d \in ToSet(tbl) : IsFork(d)}}

ArchiveEntries == [i \in DOMAIN Archive |-> [id |-> Archive[i], filter |-> None]]

Init ==
    /\ outputs = {}
    /\ routes = ArchiveEntries
    /\ versions = <<[outputs |-> {}, routes |-> ArchiveEntries]>>
    /\ config = 1 /\ worker = 1
    /\ calls = [c \in Callers |-> NoCall]
    /\ used = [calls |-> 0, faults |-> 0, edits |-> 0]

At(c, pc) == calls[c].pc = pc
Goto(c, pc) == calls' = [calls EXCEPT ![c].pc = pc]
Budget(k, max) == used[k] < max /\ used' = [used EXCEPT ![k] = @ + 1]

-----------------------------------------------------------------------------
(* apply *)

Login(c, w) ==
    /\ At(c, "idle")
    /\ Budget("calls", MaxCalls)
    /\ calls' = [calls EXCEPT ![c] = [NoCall EXCEPT !.pc = "versions", !.want = w]]
    /\ UNCHANGED <<workingVars, groupVars>>

\* Outside apply's try: CriblApplyError without a rollback.
LoginFails(c) ==
    /\ At(c, "versions")
    /\ Budget("faults", MaxFaults)
    /\ Goto(c, "raised")
    /\ UNCHANGED <<workingVars, groupVars>>

\* previous = next(iter({configVersion, deployedVersion})): either of them,
\* or None when the GET fails, which _config_versions hides.
ReadVersions(c) ==
    /\ At(c, "versions")
    /\ \/ /\ \E v \in {config, worker} : calls' = [calls EXCEPT ![c].pc = "list",
                         ![c].prev = {v}, ![c].before = config]
          /\ UNCHANGED used
       \/ /\ Budget("faults", MaxFaults)
          /\ calls' = [calls EXCEPT ![c].pc = "list", ![c].before = config]
    /\ UNCHANGED <<workingVars, groupVars>>

\* Mutant: the routes are patched without the outputs they point at.
ListOutputsOnly(c) ==
    /\ At(c, "list")
    /\ calls' = [calls EXCEPT ![c].existing = outputs, ![c].pc = "getroutes"]
    /\ UNCHANGED <<workingVars, groupVars, used>>

ListOutputs(c) ==
    /\ At(c, "list")
    /\ calls' = [calls EXCEPT ![c].existing = outputs,
                   ![c].todo = Ids(calls[c].want),
                   ![c].pc = IF calls[c].want = {} THEN "getroutes" ELSE "upsert"]
    /\ UNCHANGED <<workingVars, groupVars, used>>

\* PATCH what the listing showed, POST the rest; the leader refuses a PATCH of
\* an output that has gone and a POST of one that has appeared.
Upsert(c) ==
    /\ At(c, "upsert")
    /\ \E f \in calls[c].todo :
         IF f \in calls[c].existing <=> f \in outputs
         THEN /\ outputs' = outputs \cup {f}
              /\ calls' = [calls EXCEPT ![c].todo = @ \ {f},
                   ![c].pc = IF calls[c].todo = {f} THEN "getroutes" ELSE "upsert"]
         ELSE Goto(c, "rollback") /\ UNCHANGED outputs
    /\ UNCHANGED <<routes, groupVars, used>>

GetRoutes(c) ==
    /\ At(c, "getroutes")
    /\ calls' = [calls EXCEPT ![c].doc = routes, ![c].pc = "patch"]
    /\ UNCHANGED <<workingVars, groupVars, used>>

\* The routes of others, in the order of the table.
OtherRoutes(doc) ==
    LET kept == {i \in DOMAIN doc : IsOther(doc[i])}
        Place(i) == Cardinality({j \in kept : j <= i})
    IN [k \in 1..Cardinality(kept) |-> doc[CHOOSE i \in kept : Place(i) = k]]

\* The routes asked for, in some order.
ForkEntries(w) == {[id |-> r[1], filter |-> r[2]] : r \in w}

\* Mutant: the fork routes go behind the archive route.
SplicedBehind(w, doc) == OtherRoutes(doc) \o SetToSeq(ForkEntries(w))

\* The fork routes go in front, so that they match before the archive route.
Spliced(w, doc) == SetToSeq(ForkEntries(w)) \o OtherRoutes(doc)

\* A table that points at an output which has gone may or may not be refused.
PatchRoutes(c) ==
    /\ At(c, "patch")
    /\ \/ /\ routes' = Spliced(calls[c].want, calls[c].doc)
          /\ Goto(c, "stale")
       \/ /\ ~(Ids(calls[c].want) \subseteq outputs)
          /\ Goto(c, "rollback")
          /\ UNCHANGED routes
    /\ UNCHANGED <<outputs, groupVars, used>>

\* Mutant: stale outputs are not looked for.
ListStaleNot(c) ==
    /\ At(c, "stale")
    /\ Goto(c, "commit")
    /\ UNCHANGED <<workingVars, groupVars, used>>

ListStale(c) ==
    LET stale == outputs \ Ids(calls[c].want)
    IN /\ At(c, "stale")
       /\ calls' = [calls EXCEPT ![c].todo = stale,
                      ![c].pc = IF stale = {} THEN "commit" ELSE "delete"]
       /\ UNCHANGED <<workingVars, groupVars, used>>

\* Deleting an output a route still points at returns 500; deleting one that
\* another call has deleted already is refused as well.
DeleteStale(c) ==
    /\ At(c, "delete")
    /\ \E f \in calls[c].todo :
         IF f \in outputs /\ f \notin Ids(ForkRoutes(routes))
         THEN /\ outputs' = outputs \ {f}
              /\ calls' = [calls EXCEPT ![c].todo = @ \ {f},
                   ![c].pc = IF calls[c].todo = {f} THEN "commit" ELSE "delete"]
         ELSE Goto(c, "rollback") /\ UNCHANGED outputs
    /\ UNCHANGED <<routes, groupVars, used>>

Working == [outputs |-> outputs, routes |-> routes]

\* A commit of an unchanged configuration may come back without items, which
\* _commit takes for an error.
Commit(c) ==
    /\ At(c, "commit")
    /\ \/ /\ versions' = Append(versions, Working)
          /\ calls' = [calls EXCEPT ![c].commit = Len(versions) + 1,
                                    ![c].pc = "deploy"]
       \/ /\ Working = Last(versions)
          /\ Goto(c, "rollback")
          /\ UNCHANGED versions
    /\ UNCHANGED <<workingVars, config, worker, used>>

\* Mutants: the version after the commit, or the latest one, is deployed.
DeployOffByOne(c) ==
    /\ At(c, "deploy")
    /\ config' = calls[c].commit + 1
    /\ Goto(c, "await")
    /\ UNCHANGED <<workingVars, versions, worker, used>>
DeployLatest(c) ==
    /\ At(c, "deploy")
    /\ config' = Len(versions)
    /\ Goto(c, "await")
    /\ UNCHANGED <<workingVars, versions, worker, used>>

Deploy(c) ==
    /\ At(c, "deploy")
    /\ config' = calls[c].commit
    /\ Goto(c, "await")
    /\ UNCHANGED <<workingVars, versions, worker, used>>

\* Mutant: _await_version without its deadline.
PollForever(c) ==
    /\ At(c, "await")
    /\ calls[c].commit \in {config, worker} /\ Goto(c, "ok")
    /\ UNCHANGED <<workingVars, groupVars, used>>

\* _await_version: the commit in either field, or another poll until the
\* deadline.
Poll(c) ==
    /\ At(c, "await")
    /\ calls' = [calls EXCEPT
         ![c].pc = CASE calls[c].commit \in {config, worker} -> "ok"
                     [] calls[c].polls >= MaxPolls -> "rollback"
                     [] OTHER -> "await",
         ![c].polls = IF @ < MaxPolls THEN @ + 1 ELSE @]
    /\ UNCHANGED <<workingVars, groupVars, used>>

\* A poll whose GET fails sees no version at all.
PollFails(c) ==
    /\ At(c, "await")
    /\ Budget("faults", MaxFaults)
    /\ calls' = [calls EXCEPT
         ![c].pc = IF calls[c].polls >= MaxPolls THEN "rollback" ELSE "await",
         ![c].polls = IF @ < MaxPolls THEN @ + 1 ELSE @]
    /\ UNCHANGED <<workingVars, groupVars>>

\* A REST call fails or its answer is lost.  The effect of a call whose answer
\* is lost is the step before this one; for the deploy that is polls = 0.
CallFails(c) ==
    /\ \/ calls[c].pc \in {"list", "upsert", "getroutes", "patch", "stale",
                           "delete", "commit", "deploy"}
       \/ At(c, "await") /\ calls[c].polls = 0
    /\ Budget("faults", MaxFaults)
    /\ Goto(c, "rollback")
    /\ UNCHANGED <<workingVars, groupVars>>

\* Redeploys `previous`; any exception of the redeploy is swallowed.
Rollback(c) ==
    /\ At(c, "rollback")
    /\ \/ /\ \E v \in calls[c].prev : config' = v
          /\ calls' = [calls EXCEPT ![c].pc = "raised", ![c].redeployed = TRUE]
          /\ UNCHANGED used
       \/ /\ calls[c].prev = {}
          /\ Goto(c, "raised")
          /\ UNCHANGED <<config, used>>
       \/ /\ Budget("faults", MaxFaults)
          /\ Goto(c, "raised")
          /\ UNCHANGED config
    /\ UNCHANGED <<workingVars, versions, worker>>

Return(c) ==
    /\ calls[c].pc \in {"ok", "raised"}
    /\ calls' = [calls EXCEPT ![c] = NoCall]
    /\ UNCHANGED <<workingVars, groupVars, used>>

-----------------------------------------------------------------------------
(* Around it *)

\* The workers fetch the deployed version with a heartbeat.
Fetch ==
    /\ worker # config
    /\ worker' = config
    /\ UNCHANGED <<workingVars, versions, config, calls, used>>

\* An operator, or scripts/seed_cribl.py, adds a route of their own.
Edit(o) ==
    /\ \A e \in ToSet(routes) : e.id # o
    /\ Budget("edits", MaxEdits)
    /\ routes' = Append(routes, [id |-> o, filter |-> None])
    /\ UNCHANGED <<outputs, groupVars, calls>>

\* The portal is killed in the middle of its calls.
Abort ==
    /\ \E c \in Callers : ~At(c, "idle")
    /\ Budget("faults", MaxFaults)
    /\ calls' = [c \in Callers |-> NoCall]
    /\ UNCHANGED <<workingVars, groupVars>>

Rest == (\A c \in Callers : At(c, "idle")) /\ UNCHANGED vars

Step(c) ==
    \/ ReadVersions(c) \/ ListOutputs(c) \/ Upsert(c) \/ GetRoutes(c)
    \/ PatchRoutes(c) \/ ListStale(c) \/ DeleteStale(c) \/ Commit(c)
    \/ Deploy(c) \/ Poll(c) \/ Rollback(c) \/ Return(c)

Next ==
    \/ \E c \in Callers :
         \/ \E w \in Wants : Login(c, w)
         \/ Step(c) \/ LoginFails(c) \/ PollFails(c) \/ CallFails(c)
    \/ Fetch
    \/ \E o \in Others : Edit(o)
    \/ Abort
    \/ Rest

Spec == Init /\ [][Next]_vars

\* requests' timeouts end every REST call, so a caller that is scheduled moves.
FairSpec == Spec /\ \A c \in Callers : WF_vars(Step(c))

-----------------------------------------------------------------------------
(* CriblAdmin implements Pipeline. *)

PipePc(pc) ==
    CASE pc \in {"idle", "versions"} -> "idle"
      [] pc \in {"list", "upsert", "getroutes", "patch"} -> "begun"
      [] pc \in {"stale", "delete", "commit"} -> "patched"
      [] pc = "deploy" -> "committed"
      [] pc = "await" -> "deployed"
      [] pc = "rollback" -> "rolling"
      [] pc = "raised" -> "failed"
      [] OTHER -> pc

Held(v) == ForkRoutes(versions[v].routes)

PipeJob(k) ==
    [pc |-> PipePc(k.pc),
     want |-> IF k.pc = "versions" THEN {} ELSE k.want,
     prev |-> {Held(v) : v \in k.prev},
     commit |-> IF k.commit = 0 THEN {} ELSE Held(k.commit)]

Pipe == INSTANCE Pipeline WITH
    WorkersLag <- TRUE,
    table <- ForkRoutes(routes),
    deployed <- Held(config),
    running <- Held(worker),
    jobs <- [c \in Callers |-> PipeJob(calls[c])]

\* Every behaviour of admin.py, with any number of concurrent calls, is one
\* that the contract StreamService is checked against allows.
ImplementsPipeline == Pipe!PipeSpec

-----------------------------------------------------------------------------
(* Properties *)

\* Whatever applies interleave, fail or are cut short, the archive routes are
\* all kept, in their order, behind the fork routes and ahead of what others
\* have added: in the working table and in every version ever committed.
OthersKept ==
    \A tbl \in {routes} \cup {versions[v].routes : v \in DOMAIN versions} :
        \E n \in 0..Len(tbl) :
            /\ \A i \in 1..n : IsFork(tbl[i])
            /\ \A i \in (n + 1)..Len(tbl) : IsOther(tbl[i])
            /\ IsPrefix(ArchiveEntries, SubSeq(tbl, n + 1, Len(tbl)))

\* With one caller: no commit holds a fork route whose output it lacks, so
\* none of the rollbacks, aborts and failures in the middle of a call can make
\* the workers drop events of a fork.
NoDanglingRoute ==
    \A v \in DOMAIN versions : Ids(Held(v)) \subseteq versions[v].outputs

\* With one caller: when apply returns normally the deployed version has
\* exactly the routes asked for and no stale output, whatever debris earlier
\* calls left in the working configuration.
SuccessMeansDeployed ==
    \A c \in Callers : At(c, "ok") =>
        /\ Held(config) = calls[c].want
        /\ versions[config].outputs = Ids(calls[c].want)

\* "On any failure, redeploy the previously deployed version".
RollbackRestores ==
    \A c \in Callers : (At(c, "raised") /\ calls[c].redeployed)
                         => config = calls[c].before

\* Every call of apply returns or raises, however long the workers lag.
EveryCallEnds == \A c \in Callers : ~At(c, "idle") ~> At(c, "idle")
=============================================================================
