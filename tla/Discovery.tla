----------------------------- MODULE Discovery -----------------------------
(***************************************************************************)
(* How a collected source comes into the portal.  scripts/seed_cribl.py    *)
(* configures the leader's logging group and its Edge fleet, one REST call *)
(* after another; the portal's poller (catalog/sync.py, started and        *)
(* stopped by main.py) reads the fleet's inputs, then its pipelines        *)
(* (cribl/discovery.py), and keeps what it recognises in discovered_sources *)
(* (db.py).  An operator works in the leader's own console meanwhile.      *)
(*                                                                         *)
(* The seeder and the poller share the leader's working configuration,     *)
(* which neither locks.  A source is a datagen input and the pipeline that *)
(* stamps its identity; the input's version stands for its volume.         *)
(***************************************************************************)
EXTENDS Naturals, Sequences

CONSTANTS
    Sources,      \* what the seed specification lists
    Order,        \* its sources in order; their ids differ
    None,         \* the place of a source where an object is nobody's
    MaxRuns, MaxFaults, MaxEdits, MaxStops

ASSUME OrderAssumption ==
    /\ Order \in Seq(Sources)
    /\ \A s \in Sources : \E i \in DOMAIN Order : Order[i] = s
    /\ None \notin Sources

\* The objects that main() configures, by group.
Tag(s) == <<"tag", s>>
Ds(s) == <<"ds", s>>
Output == <<"to_logging", None>>
Route == <<"route", None>>
Fleet == {Output, Route} \cup {Tag(s) : s \in Sources} \cup {Ds(s) : s \in Sources}
Ingest == <<"from_agents", None>>
Archive == <<"archive", None>>
ArchiveRoute == <<"archive_route", None>>
Logging == {Ingest, Archive, ArchiveRoute}
Objects == Fleet \cup Logging
Groups == {Fleet, Logging}

\* As the seeder writes it, as an operator has it (an input of another volume,
\* a pipeline without the identity tags), or not there.
Version == {"none", "spec", "edited"}

VARIABLES
    config,       \* the leader's working configuration
    deployed,     \* what the nodes of each group run
    seeder,       \* the run of seed_cribl.py
    up,           \* the portal: "down", "up", or "stopping"
    poller,       \* its catalog-sync thread
    rows,         \* discovered_sources: the volume of each source's row
    used,         \* bounds: runs, faults, edits and stops so far
    touched       \* history: sources whose pair of objects an operator made,
                  \* broke or renamed; a change of volume is none of these

vars == <<config, deployed, seeder, up, poller, rows, used, touched>>

-----------------------------------------------------------------------------
(* main(): seed_logging, then seed_fleet, as a list of calls. *)

\* Mutant: the input goes before the pipeline that it names.
InputFirst(s) == <<<<"upsert", Ds(s)>>, <<"upsert", Tag(s)>>>>

SourceCalls(s) == <<<<"upsert", Tag(s)>>, <<"upsert", Ds(s)>>>>

LoggingCalls == <<<<"post", Ingest>>, <<"post", Archive>>, <<"splice", ArchiveRoute>>,
                  <<"commit", ArchiveRoute>>, <<"deploy", ArchiveRoute>>>>
SourcesCalls ==
    [i \in 1..(2 * Len(Order)) |-> SourceCalls(Order[(i + 1) \div 2])[2 - (i % 2)]]
FleetCalls == <<<<"splice", Route>>, <<"commit", Route>>, <<"deploy", Route>>>>
Calls == LoggingCalls \o <<<<"upsert", Output>>>> \o SourcesCalls \o FleetCalls

GroupOf(o) == IF o \in Fleet THEN Fleet ELSE Logging

Seeder == [pc: 0..(Len(Calls) + 1),         \* 0: no run, or it has raised
           patch: BOOLEAN,                  \* _upsert is at its PATCH
           version: [Objects -> Version],   \* the commit to deploy
           alone: BOOLEAN]                  \* history: no operator has
                                            \* interfered with this run
NothingThere == [o \in Objects |-> "none"]
SeederOff == [pc |-> 0, patch |-> FALSE, version |-> NothingThere, alone |-> TRUE]

Poller == [pc: {"off", "idle", "pipelines", "upsert"},
           inputs: [Sources -> Version],                   \* as they were read
           found: SUBSET (Sources \X {"spec", "edited"})]  \* still to upsert
PollerIn(pc) == [pc |-> pc, inputs |-> [s \in Sources |-> "none"], found |-> {}]

TypeOK ==
    /\ config \in [Objects -> Version]
    /\ deployed \in [Objects -> Version]
    /\ seeder \in Seeder
    /\ up \in {"down", "up", "stopping"}
    /\ poller \in Poller
    /\ rows \in [Sources -> Version]
    /\ used \in [{"runs", "faults", "edits", "stops"} -> Nat]
    /\ touched \subseteq Sources

Init ==
    /\ config = NothingThere
    /\ deployed = NothingThere
    /\ seeder = SeederOff
    /\ up = "up"
    /\ poller = PollerIn("idle")
    /\ rows = [s \in Sources |-> "none"]
    /\ used = [k \in {"runs", "faults", "edits", "stops"} |-> 0]
    /\ touched = {}

Budget(k, max) == used[k] < max /\ used' = [used EXCEPT ![k] = @ + 1]

portalVars == <<up, poller, rows>>
leaderVars == <<config, deployed>>

-----------------------------------------------------------------------------
(* The seeder *)

Running == seeder.pc \in DOMAIN Calls
Succeeded == seeder.pc = Len(Calls) + 1
Call(kind) == Running /\ Calls[seeder.pc][1] = kind
Object == Calls[seeder.pc][2]

StartRun ==
    /\ ~Running
    /\ Budget("runs", MaxRuns)
    /\ seeder' = [SeederOff EXCEPT !.pc = 1]
    /\ UNCHANGED <<leaderVars, portalVars, touched>>

Done == seeder' = [seeder EXCEPT !.pc = @ + 1, !.patch = FALSE]
Raised == seeder' = SeederOff
Put(o) == config' = [config EXCEPT ![o] = "spec"]

\* seed_logging's POSTs: the leader refuses an id that it has.
Post ==
    /\ Call("post")
    /\ IF config[Object] = "none" THEN Put(Object) /\ Done
       ELSE Raised /\ UNCHANGED config
    /\ UNCHANGED <<deployed, portalVars, used, touched>>

\* Mutant: what exists is left as it is.
KeepExisting ==
    /\ Call("upsert")
    /\ IF config[Object] = "none" THEN Put(Object) ELSE UNCHANGED config
    /\ Done
    /\ UNCHANGED <<deployed, portalVars, used, touched>>

\* _upsert: POST, and PATCH by id when the leader has it already; a PATCH of
\* what has been deleted meanwhile is refused.
Upsert ==
    /\ Call("upsert")
    /\ \/ (config[Object] = "none") # seeder.patch /\ Put(Object) /\ Done
       \/ /\ config[Object] # "none" /\ ~seeder.patch
          /\ seeder' = [seeder EXCEPT !.patch = TRUE]
          /\ UNCHANGED config
       \/ /\ config[Object] = "none" /\ seeder.patch
          /\ Raised
          /\ UNCHANGED config
    /\ UNCHANGED <<deployed, portalVars, used, touched>>

\* GET of the route table and PATCH of it with the route at its end.
Splice ==
    /\ Call("splice")
    /\ Put(Object) /\ Done
    /\ UNCHANGED <<deployed, portalVars, used, touched>>

\* _commit_deploy.  A commit of nothing new may come back without items.
Commit ==
    /\ Call("commit")
    /\ \/ seeder' = [seeder EXCEPT !.pc = @ + 1, !.version = config]
       \/ Raised
    /\ UNCHANGED <<leaderVars, portalVars, used, touched>>

Released(g, version) == [o \in Objects |-> IF o \in g THEN version[o] ELSE deployed[o]]

Deploy ==
    /\ Call("deploy")
    /\ deployed' = Released(GroupOf(Object), seeder.version)
    /\ seeder' = [seeder EXCEPT !.pc = @ + 1, !.version = NothingThere]
    /\ UNCHANGED <<config, portalVars, used, touched>>

\* raise_for_status, a timeout, or Ctrl-C: the run ends, and its last call may
\* have had its effect.
SeederFails ==
    /\ Running
    /\ Budget("faults", MaxFaults)
    /\ Raised
    /\ \/ UNCHANGED leaderVars
       \/ /\ Calls[seeder.pc][1] \in {"post", "upsert", "splice"}
          /\ Put(Object)
          /\ UNCHANGED deployed
       \/ /\ Call("deploy")
          /\ deployed' = Released(GroupOf(Object), seeder.version)
          /\ UNCHANGED config
    /\ UNCHANGED <<portalVars, touched>>

-----------------------------------------------------------------------------
(* The operator, in the leader's console *)

Interferes == seeder' = [seeder EXCEPT !.alone = FALSE]

Edit(o, v) ==
    /\ config[o] # v
    /\ Budget("edits", MaxEdits)
    /\ config' = [config EXCEPT ![o] = v]
    /\ touched' = touched \cup {s \in Sources :
         o = Tag(s) \/ (o = Ds(s) /\ "none" \in {v, config[o]})}
    /\ Interferes
    /\ UNCHANGED <<deployed, portalVars>>

\* What is there is committed and deployed, half of a seed run as well.
Release(g) ==
    /\ Budget("edits", MaxEdits)
    /\ deployed' = Released(g, config)
    /\ Interferes
    /\ UNCHANGED <<config, portalVars, touched>>

-----------------------------------------------------------------------------
(* The poller: sync_once, for ever *)

At(pc) == poller.pc = pc

\* discover() logs in and reads the inputs, at once or an interval later.
ReadInputs ==
    /\ up = "up" /\ At("idle")
    /\ poller' = [poller EXCEPT !.pc = "pipelines",
                    !.inputs = [s \in Sources |-> config[Ds(s)]]]
    /\ UNCHANGED <<leaderVars, seeder, up, rows, used, touched>>

\* Mutant: what is not a datagen input of the fleet is recognised as well.
AnyTagged(inputs) == {<<s, inputs[s]>> : s \in {r \in Sources : config[Tag(r)] = "spec"}}

\* The sources that discover() recognises: an input whose pipeline has its tags.
Recognised(inputs) ==
    {<<s, inputs[s]>> : s \in {r \in Sources : /\ inputs[r] # "none"
                                               /\ config[Tag(r)] = "spec"}}

ReadPipelines ==
    /\ At("pipelines")
    /\ poller' = [PollerIn("upsert") EXCEPT !.found = Recognised(poller.inputs)]
    /\ UNCHANGED <<leaderVars, seeder, up, rows, used, touched>>

\* The leader cannot be reached or answers with an error: nothing is found.
DiscoveryFails ==
    /\ At("pipelines") \/ (At("idle") /\ up = "up")
    /\ Budget("faults", MaxFaults)
    /\ poller' = PollerIn("upsert")
    /\ UNCHANGED <<leaderVars, seeder, up, rows, touched>>

\* Mutant: ON CONFLICT DO NOTHING.
InsertOnly(s, v) == rows' = IF rows[s] = "none" THEN [rows EXCEPT ![s] = v] ELSE rows

\* INSERT ... ON CONFLICT DO UPDATE: a known source's volume is refreshed.
UpsertDiscovered(s, v) == rows' = [rows EXCEPT ![s] = v]

\* sync_once, row by row; a row that sqlite refuses is passed over.
SyncRow ==
    /\ At("upsert")
    /\ \E p \in poller.found :
         /\ poller' = [poller EXCEPT !.found = @ \ {p}]
         /\ \/ UpsertDiscovered(p[1], p[2]) /\ UNCHANGED used
            \/ Budget("faults", MaxFaults) /\ UNCHANGED rows
    /\ UNCHANGED <<leaderVars, seeder, up, touched>>

SyncEnds ==
    /\ At("upsert") /\ poller.found = {}
    /\ poller' = PollerIn("idle")
    /\ UNCHANGED <<leaderVars, seeder, up, rows, used, touched>>

-----------------------------------------------------------------------------
(* The portal's process *)

\* stop_sync: a round under way goes on while the process waits for it.
Stop ==
    /\ up = "up"
    /\ Budget("stops", MaxStops)
    /\ up' = "stopping"
    /\ UNCHANGED <<leaderVars, seeder, poller, rows, touched>>

\* The thread has ended, or the join has timed out.
Exit ==
    /\ up = "stopping"
    /\ up' = "down" /\ poller' = PollerIn("off")
    /\ UNCHANGED <<leaderVars, seeder, rows, used, touched>>

Crash ==
    /\ up # "down"
    /\ Budget("stops", MaxStops)
    /\ up' = "down" /\ poller' = PollerIn("off")
    /\ UNCHANGED <<leaderVars, seeder, rows, touched>>

\* create_app: start_poller begins with a round.
StartPoller ==
    /\ up = "down"
    /\ up' = "up" /\ poller' = PollerIn("idle")
    /\ UNCHANGED <<leaderVars, seeder, rows, used, touched>>

-----------------------------------------------------------------------------

Seed == StartRun \/ Post \/ Upsert \/ Splice \/ Commit \/ Deploy \/ SeederFails
Poll == ReadInputs \/ ReadPipelines \/ SyncRow \/ SyncEnds

Next ==
    \/ Seed
    \/ \E o \in Objects, v \in {"none", "edited"} : Edit(o, v)
    \/ \E g \in Groups : Release(g)
    \/ Poll \/ DiscoveryFails
    \/ Stop \/ Exit \/ Crash \/ StartPoller

Spec == Init /\ [][Next]_vars

\* The thread runs for as long as the process does.
FairSpec == Spec /\ WF_vars(Poll)

-----------------------------------------------------------------------------
(* Properties *)

\* No node ever runs an input without the pipeline that stamps its identity,
\* unless an operator broke the pair: whenever anyone commits, however
\* far a seed run has come or wherever it stopped, and also when a deploy
\* brings back an older commit.
NoInputUntagged ==
    \A s \in Sources :
        (deployed[Ds(s)] # "none" /\ s \notin touched) => deployed[Tag(s)] = "spec"

\* A round that reads the fleet in the middle of a seed run never passes over
\* an input it has read, since the seeder writes, and the poller reads, the
\* input and its pipeline in opposite orders.
NoSourceSkipped ==
    [][ReadPipelines => \A s \in Sources :
         (poller.inputs[s] # "none" /\ s \notin touched)
            => <<s, poller.inputs[s]>> \in poller'.found]_vars

\* A run that succeeds, with nobody else at the console, leaves the nodes with
\* the specification, whatever failed runs and operators had left there:
\* "Idempotent (deterministic ids; upsert)." (seed_cribl.py, seed_fleet).
SuccessMeansSeeded ==
    (Succeeded /\ seeder.alone) => \A o \in Objects : deployed[o] = "spec"

\* A source that stays in the fleet while the portal stays up is discovered in
\* the end, with the volume it has: no failure ends the polling.
Collected(s, v) == up = "up" /\ config[Tag(s)] = "spec" /\ config[Ds(s)] = v
DiscoveredAtLast ==
    \A s \in Sources, v \in {"spec", "edited"} :
        <>[]Collected(s, v) => <>[](rows[s] = v)
=============================================================================
