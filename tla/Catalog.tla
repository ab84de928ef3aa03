------------------------------ MODULE Catalog ------------------------------
(***************************************************************************)
(* The source catalog: catalog/service.py (get_tree, _build,               *)
(* merge_discovered) and catalog/cache.py (the snapshot on disk).          *)
(*                                                                         *)
(* Every request that resolves a source, and every view of the catalog,    *)
(* calls get_tree on its own thread: a sequence of REST calls to Unity     *)
(* Catalog, then the snapshot file is opened (and so truncated), written,  *)
(* and the discovered sources are merged into the answer.  Nothing locks   *)
(* the file.  What the poller discovers is in Discovery; here its rows     *)
(* come at any time.                                                       *)
(***************************************************************************)
EXTENDS Naturals

CONSTANTS
    Readers,      \* threads that call get_tree
    Sources,      \* identities: (account_id, workload, source_name)
    SchemaOf,     \* [Sources -> schemas]: the schema that holds the table
    InitTables,   \* [Sources -> Property]: Unity Catalog at the start
    Seed,         \* {} or the set of the bundled snapshot's one tree
    MaxReads, MaxChanges, MaxFaults, MaxCrashes

\* The sensitivity property of a source's table, and how a tree lists it.
Property == {"absent", "unset", "standard", "sensitive"}
Listing == {"unlisted", "standard", "sensitive"}
Trees == [Sources -> Listing]

\* A source has a name in Unity Catalog, and one for what only Cribl knows.
Names == {"uc", "cribl"} \X Sources
Schemas == {SchemaOf[s] : s \in Sources}

ASSUME TablesAssumption == InitTables \in [Sources -> Property]
ASSUME SeedAssumption == Seed \subseteq Trees /\ \A a, b \in Seed : a = b

VARIABLES
    tables,       \* Unity Catalog: the property of each source's table
    file,         \* catalog_snapshot.json
    discovered,   \* the rows of discovered_sources
    readers,      \* what each thread is doing
    used,         \* bounds: reads, changes, faults and crashes so far
    listed        \* history: <<name, listing>> pairs that have been true

vars == <<tables, file, discovered, readers, used, listed>>

EmptyTree == [s \in Sources |-> "unlisted"]

\* Torn: the text is cut short or mixed, and json.loads refuses it.
File == [text: {"none", "torn", "whole"}, tree: Trees]
NoFile == [text |-> "none", tree |-> EmptyTree]
TornFile == [text |-> "torn", tree |-> EmptyTree]
Whole(tree) == [text |-> "whole", tree |-> tree]

Reader == [pc: {"idle", "schemas", "tables", "open", "write", "merge",
                "load", "seed", "answer", "raised", "broken"},
           todo: SUBSET Schemas,         \* schemas still to read
           tree: Trees,                  \* the UC part built or loaded so far
           stale: BOOLEAN,
           answer: [Names -> Listing],   \* the merged tree
           alone: BOOLEAN,               \* no other thread has written the
                                         \* file since this one opened it
           during: SUBSET (Names \X Listing)]   \* history: UC since the start

NoRead == [pc |-> "idle", todo |-> {}, tree |-> EmptyTree, stale |-> FALSE,
           answer |-> [n \in Names |-> "unlisted"], alone |-> TRUE,
           during |-> {}]

TypeOK ==
    /\ tables \in [Sources -> Property]
    /\ file \in File
    /\ discovered \subseteq Sources
    /\ readers \in [Readers -> Reader]
    /\ used \in [{"reads", "changes", "faults", "crashes"} -> Nat]
    /\ listed \subseteq Names \X Listing

\* Mutant: _build without its default.
ListingAsIs(property) == property

\* _build: a table that has no sensitivity property is listed as standard.
ListingOf(property) ==
    CASE property = "unset" -> "standard"
      [] property = "absent" -> "unlisted"
      [] OTHER -> property
InUC(s, listing) == <<<<"uc", s>>, listing>>
InCribl(s, listing) == <<<<"cribl", s>>, listing>>
Now == {InUC(s, ListingOf(tables[s])) : s \in Sources}

Init ==
    /\ tables = InitTables
    /\ file = NoFile
    /\ discovered = {}
    /\ readers = [t \in Readers |-> NoRead]
    /\ used = [k \in {"reads", "changes", "faults", "crashes"} |-> 0]
    /\ listed = Now \cup {InUC(s, tree[s]) : s \in Sources, tree \in Seed}
                   \cup {InCribl(s, "unlisted") : s \in Sources}

At(t, pc) == readers[t].pc = pc
Become(t, r) == readers' = [readers EXCEPT ![t] = r]
Goto(t, pc) == readers' = [readers EXCEPT ![t].pc = pc]
Budget(k, max) == used[k] < max /\ used' = [used EXCEPT ![k] = @ + 1]

-----------------------------------------------------------------------------
(* get_tree *)

Get(t) ==
    /\ At(t, "idle")
    /\ Budget("reads", MaxReads)
    /\ Become(t, [NoRead EXCEPT !.pc = "schemas", !.during = Now])
    /\ UNCHANGED <<tables, file, discovered, listed>>

\* An empty catalog is a tree like any other.
ListSchemas(t) ==
    LET found == {SchemaOf[s] : s \in {r \in Sources : tables[r] # "absent"}}
    IN /\ At(t, "schemas")
       /\ Become(t, [readers[t] EXCEPT !.todo = found,
                       !.pc = IF found = {} THEN "open" ELSE "tables"])
       /\ UNCHANGED <<tables, file, discovered, used, listed>>

\* One schema's tables, as they are by the time they are asked for.
ListTables(t) ==
    /\ At(t, "tables")
    /\ \E sch \in readers[t].todo :
         Become(t, [readers[t] EXCEPT !.todo = @ \ {sch},
           !.tree = [s \in Sources |-> IF SchemaOf[s] = sch
                                       THEN ListingOf(tables[s]) ELSE @[s]],
           !.pc = IF readers[t].todo = {sch} THEN "open" ELSE "tables"])
    /\ UNCHANGED <<tables, file, discovered, used, listed>>

\* CatalogUnavailable: any of these calls may time out or be refused.
Unavailable(t) ==
    /\ readers[t].pc \in {"schemas", "tables"}
    /\ Goto(t, "load")
    /\ UNCHANGED <<tables, file, discovered, used, listed>>

\* SnapshotCache.save: write_text opens the file for writing, truncating it...
Open(t) ==
    /\ At(t, "open")
    /\ file' = TornFile
    /\ Become(t, [readers[t] EXCEPT !.pc = "write", !.alone = TRUE])
    /\ UNCHANGED <<tables, discovered, used, listed>>

\* ... and writes its text from the start.  Over a different text that another
\* thread has written in the meantime, the end of the longer one remains.
Write(t) ==
    /\ At(t, "write")
    /\ \/ file' = Whole(readers[t].tree)
       \/ /\ ~readers[t].alone /\ file # Whole(readers[t].tree)
          /\ file' = TornFile
    /\ readers' = [o \in Readers |->
         IF o = t THEN [readers[t] EXCEPT !.pc = "merge"]
         ELSE [readers[o] EXCEPT !.alone = FALSE]]
    /\ UNCHANGED <<tables, discovered, used, listed>>

\* An OSError is not caught: a 500.  At mkdir or open (a directory that is not
\* writable) the file stays as it was, while writing (a full disk) cut short.
WriteFails(t) ==
    /\ readers[t].pc \in {"open", "write"}
    /\ Budget("faults", MaxFaults)
    /\ Goto(t, "broken")
    /\ UNCHANGED <<tables, file, discovered, listed>>

\* SnapshotCache.load: the file, unless it is missing or cannot be parsed.
Load(t) ==
    /\ At(t, "load")
    /\ Become(t, IF file.text # "whole" THEN [readers[t] EXCEPT !.pc = "seed"]
                 ELSE [readers[t] EXCEPT !.pc = "merge", !.stale = TRUE,
                         !.tree = file.tree])
    /\ UNCHANGED <<tables, file, discovered, used, listed>>

\* ... then the bundled seed; without one get_tree raises (a 503).
LoadSeed(t) ==
    /\ At(t, "seed")
    /\ Become(t, IF Seed = {} THEN [readers[t] EXCEPT !.pc = "raised"]
                 ELSE [readers[t] EXCEPT !.pc = "merge", !.stale = TRUE,
                         !.tree = CHOOSE tree \in Seed : TRUE])
    /\ UNCHANGED <<tables, file, discovered, used, listed>>

\* Mutants: a discovered source is taken for standard; it comes beside UC's.
InjectedStandard(s, tree, found) ==
    IF tree[s] = "unlisted" /\ s \in found THEN "standard" ELSE "unlisted"
InjectedBeside(s, tree, found) ==
    IF s \in found THEN "sensitive" ELSE "unlisted"

\* merge_discovered: Unity Catalog wins; what only Cribl knows is sensitive.
Injected(s, tree, found) ==
    IF tree[s] = "unlisted" /\ s \in found THEN "sensitive" ELSE "unlisted"
Merge(tree, found) ==
    [n \in Names |-> IF n[1] = "uc" THEN tree[n[2]] ELSE Injected(n[2], tree, found)]

Answer(t) ==
    /\ At(t, "merge")
    /\ Become(t, [readers[t] EXCEPT !.pc = "answer",
                    !.answer = Merge(readers[t].tree, discovered)])
    /\ UNCHANGED <<tables, file, discovered, used, listed>>

Return(t) ==
    /\ readers[t].pc \in {"answer", "raised", "broken"}
    /\ Become(t, NoRead)
    /\ UNCHANGED <<tables, file, discovered, used, listed>>

-----------------------------------------------------------------------------
(* The world *)

\* A table is created, classified or dropped in Unity Catalog.
Classify(s, property) ==
    /\ tables[s] # property
    /\ Budget("changes", MaxChanges)
    /\ tables' = [tables EXCEPT ![s] = property]
    /\ listed' = listed \cup {InUC(s, ListingOf(property))}
    /\ readers' = [t \in Readers |-> IF At(t, "idle") THEN readers[t]
         ELSE [readers[t] EXCEPT !.during = @ \cup {InUC(s, ListingOf(property))}]]
    /\ UNCHANGED <<file, discovered>>

\* upsert_discovered; no row is ever taken away.
Discover(s) ==
    /\ s \notin discovered
    /\ Budget("changes", MaxChanges)
    /\ discovered' = discovered \cup {s}
    /\ listed' = listed \cup {InCribl(s, "sensitive")}
    /\ UNCHANGED <<tables, file, readers>>

\* The container is killed and started again; the volume stays.
Crash ==
    /\ Budget("crashes", MaxCrashes)
    /\ readers' = [t \in Readers |-> NoRead]
    /\ UNCHANGED <<tables, file, discovered, listed>>

\* No thread is reading, and none need come.
Rest == (\A t \in Readers : At(t, "idle")) /\ UNCHANGED vars

Next ==
    \/ \E t \in Readers :
         \/ Get(t) \/ ListSchemas(t) \/ ListTables(t) \/ Unavailable(t)
         \/ Open(t) \/ Write(t) \/ WriteFails(t) \/ Load(t) \/ LoadSeed(t)
         \/ Answer(t) \/ Return(t)
    \/ \E s \in Sources, property \in Property : Classify(s, property)
    \/ \E s \in Sources : Discover(s)
    \/ Crash
    \/ Rest

Spec == Init /\ [][Next]_vars

-----------------------------------------------------------------------------
(* Catalog implements Listings. *)

Contract == INSTANCE Listings WITH
    Sources <- Names,
    answers <- [t \in Readers |->
                  IF At(t, "answer") THEN {readers[t].answer} ELSE {}]

\* No answer, fresh or stale, through outages, torn files, crashes and
\* concurrent writers, lists a source as Unity Catalog or the seed never did,
\* so none offers without approval what never was standard; what only the
\* discovery knows is always sensitive: it "never overrides a UC source" and
\* defaults to sensitive (onboarding.md, key invariants).
ImplementsListings == Contract!ListSpec

-----------------------------------------------------------------------------
(* Properties *)

\* A fresh answer lists each source as Unity Catalog had it at some moment of
\* that very call, although the call reads one schema after another; and it
\* shows no source under two names.
FreshIsCurrent ==
    \A t \in Readers : (At(t, "answer") /\ ~readers[t].stale) =>
        \A s \in Sources :
            /\ InUC(s, readers[t].answer[<<"uc", s>>]) \in readers[t].during
            /\ readers[t].answer[<<"cribl", s>>] # "unlisted"
                 => /\ s \in discovered
                    /\ InUC(s, "unlisted") \in readers[t].during
=============================================================================
