--------------------------- MODULE CatalogProofs ---------------------------
(***************************************************************************)
(* What is proved of Catalog for every value of its constants: any number  *)
(* of threads, sources and schemas, of outages, full disks and crashes.    *)
(*                                                                         *)
(*   TypeCorrect              type correctness                             *)
(*   FreshIsCurrentHolds      a fresh answer is current, from FreshInv     *)
(*   ImplementsListingsHolds  get_tree implements Listings, from TrueInv   *)
(***************************************************************************)
EXTENDS Catalog, TLAPS

-----------------------------------------------------------------------------
(* Types *)

LEMMA EmptyTreeType == EmptyTree \in Trees /\ \A s \in Sources : EmptyTree[s] = "unlisted"
  BY DEF EmptyTree, Trees, Listing

LEMMA ListingType == \A p \in Property : ListingOf(p) \in Listing
  BY DEF ListingOf, Property, Listing

LEMMA NameType == \A s \in Sources : <<"uc", s>> \in Names /\ <<"cribl", s>> \in Names
  BY DEF Names

LEMMA NameParts == \A n \in Names : /\ n[2] \in Sources
                                    /\ n = <<"uc", n[2]>> \/ n = <<"cribl", n[2]>>
                                    /\ n[1] = "uc" <=> n = <<"uc", n[2]>>
  BY DEF Names

LEMMA PairType ==
    \A s \in Sources, k \in Listing :
        InUC(s, k) \in Names \X Listing /\ InCribl(s, k) \in Names \X Listing
  BY NameType DEF InUC, InCribl

LEMMA NowType ==
    ASSUME tables \in [Sources -> Property] PROVE Now \subseteq Names \X Listing
<1>1. ASSUME NEW s \in Sources PROVE ListingOf(tables[s]) \in Listing
  BY ListingType
<1> QED BY <1>1, PairType DEF Now

LEMMA NoReadType == NoRead \in Reader
  BY EmptyTreeType DEF NoRead, Reader, Listing

LEMMA ReaderType == ASSUME TypeOK, NEW t \in Readers PROVE readers[t] \in Reader
  BY DEF TypeOK

\* A fresh or a stale tree merges into a tree of all names.
LEMMA MergeType ==
    ASSUME NEW tree \in Trees, NEW found
    PROVE Merge(tree, found) \in [Names -> Listing]
<1>1. ASSUME NEW n \in Names PROVE Merge(tree, found)[n] \in Listing
  BY <1>1, NameParts DEF Merge, Injected, Trees, Listing
<1> QED BY <1>1 DEF Merge

\* What the merged tree says of a name.
LEMMA MergeMeans ==
    ASSUME NEW tree \in Trees, NEW found, NEW s \in Sources
    PROVE /\ Merge(tree, found)[<<"uc", s>>] = tree[s]
          /\ Merge(tree, found)[<<"cribl", s>>] = Injected(s, tree, found)
  BY NameType DEF Merge

LEMMA BudgetType ==
    ASSUME TypeOK, NEW k \in {"reads", "changes", "faults", "crashes"}, NEW max, Budget(k, max)
    PROVE used' \in [{"reads", "changes", "faults", "crashes"} -> Nat]
  BY DEF TypeOK, Budget

LEMMA BecomeType ==
    ASSUME TypeOK, NEW t \in Readers, NEW r \in Reader, Become(t, r)
    PROVE readers' \in [Readers -> Reader]
  BY DEF TypeOK, Become

LEMMA GotoType ==
    ASSUME TypeOK, NEW t \in Readers,
           NEW pc \in {"idle", "schemas", "tables", "open", "write", "merge",
                       "load", "seed", "answer", "raised", "broken"}, Goto(t, pc)
    PROVE readers' \in [Readers -> Reader]
<1>1. [readers[t] EXCEPT !.pc = pc] \in Reader
  BY ReaderType DEF Reader
<1> QED BY <1>1 DEF Goto, TypeOK

LEMMA FileType ==
    /\ NoFile \in File /\ TornFile \in File
    /\ \A tree \in Trees : Whole(tree) \in File
  BY EmptyTreeType DEF NoFile, TornFile, Whole, File

LEMMA InitType == Init => TypeOK
<1> SUFFICES ASSUME Init PROVE TypeOK
  OBVIOUS
<1>1. tables \in [Sources -> Property]
  BY TablesAssumption DEF Init
<1>2. Now \subseteq Names \X Listing
  BY <1>1, NowType
<1>3. {InUC(s, tree[s]) : s \in Sources, tree \in Seed} \subseteq Names \X Listing
  BY SeedAssumption, PairType DEF Trees
<1>4. {InCribl(s, "unlisted") : s \in Sources} \subseteq Names \X Listing
  BY PairType DEF Listing
<1> QED BY <1>1, <1>2, <1>3, <1>4, NoReadType, FileType DEF Init, TypeOK

LEMMA TypeStep == TypeOK /\ [Next]_vars => TypeOK'
<1> SUFFICES ASSUME TypeOK, [Next]_vars PROVE TypeOK'
  OBVIOUS
<1>t. ASSUME NEW t \in Readers,
             \/ Get(t) \/ ListSchemas(t) \/ ListTables(t) \/ Unavailable(t)
             \/ Open(t) \/ Write(t) \/ WriteFails(t) \/ Load(t) \/ LoadSeed(t)
             \/ Answer(t) \/ Return(t)
      PROVE TypeOK'
  <2>0. readers[t] \in Reader /\ readers[t].tree \in Trees /\ file.tree \in Trees
    BY ReaderType DEF Reader, TypeOK, File
  <2>1. CASE Get(t)
    <3>1. [NoRead EXCEPT !.pc = "schemas", !.during = Now] \in Reader
      BY NoReadType, NowType DEF Reader, TypeOK
    <3> QED BY <2>1, <3>1, BecomeType, BudgetType DEF Get, TypeOK
  <2>2. CASE ListSchemas(t)
    <3> DEFINE found == {SchemaOf[s] : s \in {r \in Sources : tables[r] # "absent"}}
    <3>1. found \subseteq Schemas
      BY DEF Schemas
    <3>2. [readers[t] EXCEPT !.todo = found,
             !.pc = IF found = {} THEN "open" ELSE "tables"] \in Reader
      BY <2>0, <3>1 DEF Reader
    <3> QED BY <2>2, <3>2, BecomeType DEF ListSchemas, TypeOK
  <2>3. CASE ListTables(t)
    <3>1. PICK sch \in readers[t].todo :
            Become(t, [readers[t] EXCEPT !.todo = @ \ {sch},
              !.tree = [s \in Sources |-> IF SchemaOf[s] = sch
                                          THEN ListingOf(tables[s]) ELSE @[s]],
              !.pc = IF readers[t].todo = {sch} THEN "open" ELSE "tables"])
      BY <2>3 DEF ListTables
    <3>2. [s \in Sources |-> IF SchemaOf[s] = sch
                             THEN ListingOf(tables[s]) ELSE readers[t].tree[s]] \in Trees
      BY <2>0, ListingType DEF Trees, TypeOK
    <3>3. [readers[t] EXCEPT !.todo = @ \ {sch},
              !.tree = [s \in Sources |-> IF SchemaOf[s] = sch
                                          THEN ListingOf(tables[s]) ELSE @[s]],
              !.pc = IF readers[t].todo = {sch} THEN "open" ELSE "tables"] \in Reader
      BY <2>0, <3>2 DEF Reader
    <3> QED BY <2>3, <3>1, <3>3, BecomeType DEF ListTables, TypeOK
  <2>4. CASE Unavailable(t)
    BY <2>4, GotoType DEF Unavailable, TypeOK
  <2>5. CASE Open(t)
    <3>1. [readers[t] EXCEPT !.pc = "write", !.alone = TRUE] \in Reader
      BY <2>0 DEF Reader
    <3> QED BY <2>5, <3>1, BecomeType, FileType DEF Open, TypeOK
  <2>6. CASE Write(t)
    <3>1. [readers[t] EXCEPT !.pc = "merge"] \in Reader
      BY <2>0 DEF Reader
    <3>2. ASSUME NEW o \in Readers PROVE [readers[o] EXCEPT !.alone = FALSE] \in Reader
      BY ReaderType DEF Reader
    <3>3. readers' \in [Readers -> Reader]
      BY <2>6, <3>1, <3>2 DEF Write
    <3> QED BY <2>0, <2>6, <3>3, FileType DEF Write, TypeOK
  <2>7. CASE WriteFails(t)
    BY <2>7, GotoType, BudgetType DEF WriteFails, TypeOK
  <2>8. CASE Load(t)
    <3>1. /\ [readers[t] EXCEPT !.pc = "seed"] \in Reader
          /\ [readers[t] EXCEPT !.pc = "merge", !.stale = TRUE, !.tree = file.tree] \in Reader
      BY <2>0 DEF Reader
    <3> QED BY <2>8, <3>1, BecomeType DEF Load, TypeOK
  <2>9. CASE LoadSeed(t)
    <3>1. [readers[t] EXCEPT !.pc = "raised"] \in Reader
      BY <2>0 DEF Reader
    <3>2. ASSUME Seed # {} PROVE (CHOOSE tree \in Seed : TRUE) \in Trees
      BY <3>2, SeedAssumption
    <3>3. ASSUME Seed # {}
          PROVE [readers[t] EXCEPT !.pc = "merge", !.stale = TRUE,
                   !.tree = CHOOSE tree \in Seed : TRUE] \in Reader
      BY <2>0, <3>2, <3>3 DEF Reader
    <3> QED BY <2>9, <3>1, <3>3, BecomeType DEF LoadSeed, TypeOK
  <2>10. CASE Answer(t)
    <3>1. [readers[t] EXCEPT !.pc = "answer",
             !.answer = Merge(readers[t].tree, discovered)] \in Reader
      BY <2>0, MergeType DEF Reader
    <3> QED BY <2>10, <3>1, BecomeType DEF Answer, TypeOK
  <2>11. CASE Return(t)
    BY <2>11, NoReadType, BecomeType DEF Return, TypeOK
  <2> QED BY <1>t, <2>1, <2>2, <2>3, <2>4, <2>5, <2>6, <2>7, <2>8, <2>9, <2>10, <2>11
<1>c. ASSUME NEW s \in Sources, NEW property \in Property, Classify(s, property)
      PROVE TypeOK'
  <2>1. InUC(s, ListingOf(property)) \in Names \X Listing
    BY ListingType, NameType DEF InUC
  <2>2. ASSUME NEW t \in Readers
        PROVE [readers[t] EXCEPT !.during = @ \cup {InUC(s, ListingOf(property))}] \in Reader
    BY <2>1, ReaderType DEF Reader
  <2>3. readers' \in [Readers -> Reader]
    BY <1>c, <2>2, ReaderType DEF Classify
  <2> QED BY <1>c, <2>1, <2>3, BudgetType DEF Classify, TypeOK
<1>d. ASSUME NEW s \in Sources, Discover(s) PROVE TypeOK'
  BY <1>d, PairType, BudgetType DEF Discover, TypeOK, Listing
<1>k. CASE Crash
  BY <1>k, NoReadType, BudgetType DEF Crash, TypeOK
<1>u. CASE UNCHANGED vars
  BY <1>u DEF vars, TypeOK
<1> QED BY <1>t, <1>c, <1>d, <1>k, <1>u DEF Next, Rest

\* The catalog's variables have their types: the threads, the file and the
\* tables are always of a shape the code expects.
THEOREM TypeCorrect == Spec => []TypeOK
  BY InitType, TypeStep, PTL DEF Spec

-----------------------------------------------------------------------------
(* Fresh answers *)

\* What a call has read of a source, it has seen in Unity Catalog since it
\* began; of the schemas that it did not find, it has seen no table.
Current(r, s) == InUC(s, r.tree[s]) \in r.during
Fresh(r) ==
    /\ r.pc # "idle" => Now \subseteq r.during
    /\ r.pc = "schemas" => r.tree = EmptyTree
    /\ r.pc = "tables" => \A s \in Sources : SchemaOf[s] \notin r.todo => Current(r, s)
    /\ (r.pc \in {"open", "write"} \/ (r.pc = "merge" /\ ~r.stale))
         => \A s \in Sources : Current(r, s)
    /\ (r.pc = "answer" /\ ~r.stale) =>
         \A s \in Sources :
            /\ InUC(s, r.answer[<<"uc", s>>]) \in r.during
            /\ r.answer[<<"cribl", s>>] # "unlisted"
                 => s \in discovered /\ InUC(s, "unlisted") \in r.during
FreshInv == \A t \in Readers : Fresh(readers[t])

LEMMA NoReadFresh == Fresh(NoRead)
  BY DEF Fresh, NoRead

LEMMA NowHas ==
    /\ \A s \in Sources : InUC(s, ListingOf(tables[s])) \in Now
    /\ \A s \in Sources : tables[s] = "absent" => InUC(s, "unlisted") \in Now
  BY DEF Now, ListingOf

LEMMA BecomeFresh ==
    ASSUME TypeOK, FreshInv, NEW t \in Readers, NEW r, Fresh(r), Become(t, r),
           UNCHANGED <<tables, discovered>>
    PROVE FreshInv'
  BY DEF FreshInv, Fresh, Current, Become, TypeOK, Now

LEMMA GotoFresh ==
    ASSUME TypeOK, FreshInv, NEW t \in Readers, NEW pc \in {"load", "broken"},
           Goto(t, pc), readers[t].pc # "idle", UNCHANGED <<tables, discovered>>
    PROVE FreshInv'
<1>1. Fresh([readers[t] EXCEPT !.pc = pc])
  BY ReaderType DEF FreshInv, Fresh, Reader
<1> QED BY <1>1, BecomeFresh DEF Goto, Become

LEMMA FreshInit == Init => FreshInv
<1> SUFFICES ASSUME Init, NEW t \in Readers PROVE Fresh(readers[t])
  BY DEF FreshInv
<1>1. readers[t] = NoRead
  BY DEF Init
<1> QED BY <1>1, NoReadFresh

LEMMA FreshStep == TypeOK /\ FreshInv /\ [Next]_vars => FreshInv'
<1> SUFFICES ASSUME TypeOK, FreshInv, [Next]_vars PROVE FreshInv'
  OBVIOUS
<1>t. ASSUME NEW t \in Readers,
             \/ Get(t) \/ ListSchemas(t) \/ ListTables(t) \/ Unavailable(t)
             \/ Open(t) \/ Write(t) \/ WriteFails(t) \/ Load(t) \/ LoadSeed(t)
             \/ Answer(t) \/ Return(t)
      PROVE FreshInv'
  <2> DEFINE r == readers[t]
  <2>0. r \in Reader /\ Fresh(r)
    BY ReaderType DEF FreshInv
  <2>1. CASE Get(t)
    <3>1. Fresh([NoRead EXCEPT !.pc = "schemas", !.during = Now])
      BY DEF Fresh, NoRead
    <3> QED BY <2>1, <3>1, BecomeFresh DEF Get
  <2>2. CASE ListSchemas(t)
    <3> DEFINE found == {SchemaOf[s] : s \in {q \in Sources : tables[q] # "absent"}}
               new == [r EXCEPT !.todo = found,
                         !.pc = IF found = {} THEN "open" ELSE "tables"]
    <3>1. r.tree = EmptyTree /\ Now \subseteq r.during
      BY <2>0, <2>2 DEF ListSchemas, At, Fresh
    <3>2. ASSUME NEW s \in Sources, SchemaOf[s] \notin found PROVE Current(new, s)
      <4>1. tables[s] = "absent"
        BY <3>2
      <4> QED BY <2>0, <3>1, <4>1, NowHas, EmptyTreeType DEF Current, Reader
    <3>3. Fresh(new)
      <4> HIDE DEF found
      <4> QED BY <2>0, <3>1, <3>2 DEF Fresh, Reader, Current
    <3> QED BY <2>2, <3>3, BecomeFresh DEF ListSchemas
  <2>3. CASE ListTables(t)
    <3> DEFINE new(sch) ==
          [r EXCEPT !.todo = @ \ {sch},
             !.tree = [s \in Sources |-> IF SchemaOf[s] = sch
                                         THEN ListingOf(tables[s]) ELSE @[s]],
             !.pc = IF r.todo = {sch} THEN "open" ELSE "tables"]
    <3>1. PICK sch \in r.todo : Become(t, new(sch))
      BY <2>3 DEF ListTables
    <3>2. /\ Now \subseteq r.during
          /\ \A s \in Sources : SchemaOf[s] \notin r.todo => Current(r, s)
      BY <2>0, <2>3 DEF ListTables, At, Fresh
    <3>3. ASSUME NEW s \in Sources, SchemaOf[s] \notin r.todo \ {sch}
          PROVE Current(new(sch), s)
      <4>1. CASE SchemaOf[s] = sch
        BY <2>0, <3>2, <4>1, NowHas DEF Current, Reader
      <4>2. CASE SchemaOf[s] # sch
        BY <2>0, <3>2, <3>3, <4>2 DEF Current, Reader
      <4> QED BY <4>1, <4>2
    <3>4. Fresh(new(sch))
      BY <2>0, <3>2, <3>3 DEF Fresh, Reader, Current
    <3> QED BY <2>3, <3>1, <3>4, BecomeFresh DEF ListTables
  <2>4. CASE Unavailable(t)
    BY <2>4, GotoFresh DEF Unavailable
  <2>5. CASE Open(t)
    <3>1. Fresh([r EXCEPT !.pc = "write", !.alone = TRUE])
      BY <2>0, <2>5 DEF Open, At, Fresh, Reader, Current
    <3> QED BY <2>5, <3>1, BecomeFresh DEF Open
  <2>6. CASE Write(t)
    BY <2>6, ReaderType DEF Write, At, FreshInv, Fresh, Reader, Current, Now
  <2>7. CASE WriteFails(t)
    BY <2>7, GotoFresh DEF WriteFails, At
  <2>8. CASE Load(t)
    <3>1. /\ Fresh([r EXCEPT !.pc = "seed"])
          /\ Fresh([r EXCEPT !.pc = "merge", !.stale = TRUE, !.tree = file.tree])
      BY <2>0, <2>8 DEF Load, At, Fresh, Reader
    <3> QED BY <2>8, <3>1, BecomeFresh DEF Load
  <2>9. CASE LoadSeed(t)
    <3>1. /\ Fresh([r EXCEPT !.pc = "raised"])
          /\ Fresh([r EXCEPT !.pc = "merge", !.stale = TRUE,
                      !.tree = CHOOSE tree \in Seed : TRUE])
      BY <2>0, <2>9 DEF LoadSeed, At, Fresh, Reader
    <3> QED BY <2>9, <3>1, BecomeFresh DEF LoadSeed
  <2>10. CASE Answer(t)
    <3> DEFINE merged == Merge(r.tree, discovered)
               new == [r EXCEPT !.pc = "answer", !.answer = merged]
    <3>1. Now \subseteq r.during /\ (~r.stale => \A s \in Sources : Current(r, s))
      BY <2>0, <2>10 DEF Answer, At, Fresh
    <3>2. ASSUME NEW s \in Sources
          PROVE /\ merged[<<"uc", s>>] = r.tree[s]
                /\ merged[<<"cribl", s>>] # "unlisted"
                     => r.tree[s] = "unlisted" /\ s \in discovered
      BY <2>0, MergeMeans DEF Reader, Injected
    <3>3. Fresh(new)
      <4> HIDE DEF merged
      <4> QED BY <2>0, <3>1, <3>2 DEF Fresh, Reader, Current
    <3> QED BY <2>10, <3>3, BecomeFresh DEF Answer
  <2>11. CASE Return(t)
    BY <2>11, NoReadFresh, BecomeFresh DEF Return
  <2> QED BY <1>t, <2>1, <2>2, <2>3, <2>4, <2>5, <2>6, <2>7, <2>8, <2>9, <2>10, <2>11
<1>c. ASSUME NEW s \in Sources, NEW property \in Property, Classify(s, property)
      PROVE FreshInv'
  <2>1. Now' \subseteq Now \cup {InUC(s, ListingOf(property))}
    BY <1>c DEF Classify, Now, TypeOK
  <2>2. ASSUME NEW t \in Readers PROVE Fresh(readers[t])'
    <3>1. CASE readers[t].pc = "idle"
      <4>1. readers[t]' = readers[t]
        BY <1>c, <3>1 DEF Classify, At
      <4> QED BY <3>1, <4>1 DEF Fresh
    <3>2. CASE readers[t].pc # "idle"
      <4>1. readers[t]' = [readers[t] EXCEPT !.during = @ \cup {InUC(s, ListingOf(property))}]
        BY <1>c, <3>2 DEF Classify, At
      <4> QED BY <1>c, <2>1, <3>2, <4>1, ReaderType
              DEF FreshInv, Fresh, Reader, Current, Classify
    <3> QED BY <3>1, <3>2
  <2> QED BY <2>2 DEF FreshInv
<1>d. ASSUME NEW s \in Sources, Discover(s) PROVE FreshInv'
  BY <1>d DEF Discover, FreshInv, Fresh, Current, Now
<1>k. CASE Crash
  BY <1>k, NoReadFresh DEF Crash, FreshInv, Fresh, NoRead
<1>u. CASE UNCHANGED vars
  BY <1>u DEF vars, FreshInv, Fresh, Current, Now
<1> QED BY <1>t, <1>c, <1>d, <1>k, <1>u DEF Next, Rest

\* An answer that is not stale is true of each source at some moment of its
\* call, and shows no source under both its names.
THEOREM FreshIsCurrentHolds == Spec => []FreshIsCurrent
<1>1. FreshInv => FreshIsCurrent
  BY DEF FreshInv, Fresh, FreshIsCurrent, At
<1> QED BY <1>1, InitType, TypeStep, FreshInit, FreshStep, PTL DEF Spec
-----------------------------------------------------------------------------
(* Catalog implements Listings. *)

\* Each part of a tree, wherever one is kept, has been true.
Entries(tree) == \A s \in Sources : InUC(s, tree[s]) \in listed
TrueReader(r) ==
    /\ r.during \subseteq listed
    /\ (r.pc = "merge" /\ r.stale) => Entries(r.tree)
    /\ r.pc = "answer" => \A n \in Names : <<n, r.answer[n]>> \in listed
TrueInv ==
    /\ Now \subseteq listed
    /\ \A tree \in Seed : Entries(tree)
    /\ \A s \in Sources : InCribl(s, "unlisted") \in listed
    /\ \A s \in discovered : InCribl(s, "sensitive") \in listed
    /\ file.text = "whole" => Entries(file.tree)
    /\ \A t \in Readers : TrueReader(readers[t])

AllInv == TypeOK /\ FreshInv /\ TrueInv

LEMMA TrueInit == Init => TrueInv
<1> SUFFICES ASSUME Init PROVE TrueInv
  OBVIOUS
<1>1. ASSUME NEW t \in Readers PROVE TrueReader(readers[t])
  <2>1. readers[t] = NoRead
    BY DEF Init
  <2> QED BY <2>1 DEF TrueReader, NoRead
<1>2. /\ Now \subseteq listed
      /\ \A tree \in Seed : Entries(tree)
      /\ \A s \in Sources : InCribl(s, "unlisted") \in listed
      /\ \A s \in discovered : InCribl(s, "sensitive") \in listed
  BY DEF Init, Entries
<1>3. file.text # "whole"
  BY DEF Init, NoFile
<1> QED BY <1>1, <1>2, <1>3 DEF TrueInv

\* What is listed stays so: a step that only adds to it, and gives one thread a
\* state that is true, keeps TrueInv.
LEMMA BecomeTrue ==
    ASSUME TypeOK, TrueInv, NEW t \in Readers, NEW r, TrueReader(r), Become(t, r),
           UNCHANGED <<tables, file, discovered, listed>>
    PROVE TrueInv'
  BY DEF TrueInv, TrueReader, Entries, Become, TypeOK, Now

LEMMA TrueStep == AllInv /\ [Next]_vars => TrueInv'
<1> SUFFICES ASSUME AllInv, [Next]_vars PROVE TrueInv'
  OBVIOUS
<1> USE DEF AllInv
<1>t. ASSUME NEW t \in Readers,
             \/ Get(t) \/ ListSchemas(t) \/ ListTables(t) \/ Unavailable(t)
             \/ Open(t) \/ Write(t) \/ WriteFails(t) \/ Load(t) \/ LoadSeed(t)
             \/ Answer(t) \/ Return(t)
      PROVE TrueInv'
  <2> DEFINE r == readers[t]
  <2>0. r \in Reader /\ TrueReader(r) /\ Fresh(r) /\ r.during \subseteq listed
    BY ReaderType DEF TrueInv, FreshInv, TrueReader
  <2>1. CASE Get(t)
    <3>1. TrueReader([NoRead EXCEPT !.pc = "schemas", !.during = Now])
      BY DEF TrueReader, NoRead, TrueInv
    <3> QED BY <2>1, <3>1, BecomeTrue DEF Get
  <2>2. CASE ListSchemas(t)
    <3> DEFINE found == {SchemaOf[s] : s \in {q \in Sources : tables[q] # "absent"}}
    <3>1. TrueReader([r EXCEPT !.todo = found,
                        !.pc = IF found = {} THEN "open" ELSE "tables"])
      <4> HIDE DEF found
      <4> QED BY <2>0 DEF TrueReader, Reader
    <3> QED BY <2>2, <3>1, BecomeTrue DEF ListSchemas
  <2>3. CASE ListTables(t)
    <3> DEFINE new(sch) ==
          [r EXCEPT !.todo = @ \ {sch},
             !.tree = [s \in Sources |-> IF SchemaOf[s] = sch
                                         THEN ListingOf(tables[s]) ELSE @[s]],
             !.pc = IF r.todo = {sch} THEN "open" ELSE "tables"]
    <3>1. PICK sch \in r.todo : Become(t, new(sch))
      BY <2>3 DEF ListTables
    <3>2. TrueReader(new(sch))
      BY <2>0 DEF TrueReader, Reader
    <3> QED BY <2>3, <3>1, <3>2, BecomeTrue DEF ListTables
  <2>4. CASE Unavailable(t)
    <3>1. TrueReader([r EXCEPT !.pc = "load"])
      BY <2>0 DEF TrueReader, Reader
    <3> QED BY <2>4, <3>1, BecomeTrue DEF Unavailable, Goto, Become
  <2>5. CASE Open(t)
    <3>1. TrueReader([r EXCEPT !.pc = "write", !.alone = TRUE])
      BY <2>0 DEF TrueReader, Reader
    <3>2. file'.text # "whole"
      BY <2>5 DEF Open, TornFile
    <3> QED BY <2>5, <3>1, <3>2 DEF Open, TrueInv, TrueReader, Entries, Become, TypeOK, Now
  <2>6. CASE Write(t)
    <3>1. Entries(r.tree)
      BY <2>0, <2>6 DEF Write, At, Fresh, Current, Entries
    <3>2. file' = Whole(r.tree) \/ file' = TornFile
      BY <2>6 DEF Write
    <3>3. file'.text = "whole" => \A s \in Sources : InUC(s, file'.tree[s]) \in listed
      BY <3>1, <3>2 DEF Whole, TornFile, Entries
    <3>4. ASSUME NEW o \in Readers PROVE TrueReader(readers[o])'
      <4>0. readers[o] \in Reader /\ TrueReader(readers[o]) /\ UNCHANGED listed
        BY <2>6, ReaderType DEF TrueInv, Write
      <4>1. CASE o = t
        <5>1. readers[o]' = [r EXCEPT !.pc = "merge"]
          BY <2>6, <4>1 DEF Write
        <5> QED BY <3>1, <4>0, <4>1, <5>1 DEF TrueReader, Reader, Entries
      <4>2. CASE o # t
        <5>1. readers[o]' = [readers[o] EXCEPT !.alone = FALSE]
          BY <2>6, <4>2 DEF Write
        <5> QED BY <4>0, <5>1 DEF TrueReader, Reader, Entries
      <4> QED BY <4>1, <4>2
    <3> QED BY <2>6, <3>3, <3>4 DEF Write, TrueInv, Entries, Now
  <2>7. CASE WriteFails(t)
    <3>1. TrueReader([r EXCEPT !.pc = "broken"])
      BY <2>0 DEF TrueReader, Reader
    <3> QED BY <2>7, <3>1, BecomeTrue DEF WriteFails, Goto, Become
  <2>8. CASE Load(t)
    <3>1. TrueReader([r EXCEPT !.pc = "seed"])
      BY <2>0 DEF TrueReader, Reader
    <3>2. ASSUME file.text = "whole"
          PROVE TrueReader([r EXCEPT !.pc = "merge", !.stale = TRUE, !.tree = file.tree])
      BY <2>0, <3>2 DEF TrueReader, Reader, TrueInv
    <3> QED BY <2>8, <3>1, <3>2, BecomeTrue DEF Load
  <2>9. CASE LoadSeed(t)
    <3>1. TrueReader([r EXCEPT !.pc = "raised"])
      BY <2>0 DEF TrueReader, Reader
    <3>2. ASSUME Seed # {}
          PROVE TrueReader([r EXCEPT !.pc = "merge", !.stale = TRUE,
                              !.tree = CHOOSE tree \in Seed : TRUE])
      <4>1. Entries(CHOOSE tree \in Seed : TRUE)
        BY <3>2 DEF TrueInv
      <4> QED BY <2>0, <4>1 DEF TrueReader, Reader
    <3> QED BY <2>9, <3>1, <3>2, BecomeTrue DEF LoadSeed
  <2>10. CASE Answer(t)
    <3> DEFINE merged == Merge(r.tree, discovered)
    <3>1. Entries(r.tree)
      BY <2>0, <2>10 DEF Answer, At, Fresh, Current, TrueReader, Entries
    <3>2. ASSUME NEW s \in Sources
          PROVE /\ <<<<"uc", s>>, merged[<<"uc", s>>]>> \in listed
                /\ <<<<"cribl", s>>, merged[<<"cribl", s>>]>> \in listed
      <4>1. /\ merged[<<"uc", s>>] = r.tree[s]
            /\ merged[<<"cribl", s>>] = Injected(s, r.tree, discovered)
        BY <2>0, MergeMeans DEF Reader
      <4>2. InUC(s, r.tree[s]) \in listed
        BY <3>1 DEF Entries
      <4>3. InCribl(s, Injected(s, r.tree, discovered)) \in listed
        BY DEF TrueInv, Injected
      <4> HIDE DEF merged
      <4> QED BY <4>1, <4>2, <4>3 DEF InUC, InCribl
    <3>3. ASSUME NEW n \in Names PROVE <<n, merged[n]>> \in listed
      <4> HIDE DEF merged
      <4> QED BY <3>2, NameParts
    <3>4. TrueReader([r EXCEPT !.pc = "answer", !.answer = merged])
      <4> HIDE DEF merged
      <4> QED BY <2>0, <3>3 DEF TrueReader, Reader
    <3> QED BY <2>10, <3>4, BecomeTrue DEF Answer
  <2>11. CASE Return(t)
    <3>1. TrueReader(NoRead)
      BY DEF TrueReader, NoRead
    <3> QED BY <2>11, <3>1, BecomeTrue DEF Return
  <2> QED BY <1>t, <2>1, <2>2, <2>3, <2>4, <2>5, <2>6, <2>7, <2>8, <2>9, <2>10, <2>11
<1>c. ASSUME NEW s \in Sources, NEW property \in Property, Classify(s, property)
      PROVE TrueInv'
  <2>1. Now' \subseteq Now \cup {InUC(s, ListingOf(property))}
    BY <1>c DEF Classify, Now, TypeOK
  <2>2. listed' = listed \cup {InUC(s, ListingOf(property))}
    BY <1>c DEF Classify
  <2>3. ASSUME NEW t \in Readers PROVE TrueReader(readers[t])'
    <3>1. readers[t] \in Reader /\ TrueReader(readers[t])
      BY ReaderType DEF TrueInv
    <3>2. \/ readers[t]' = readers[t]
          \/ readers[t]' = [readers[t] EXCEPT !.during = @ \cup {InUC(s, ListingOf(property))}]
      BY <1>c DEF Classify
    <3> QED BY <2>2, <3>1, <3>2 DEF TrueReader, Reader, Entries
  <2> QED BY <1>c, <2>1, <2>2, <2>3 DEF TrueInv, Entries, Classify
<1>d. ASSUME NEW s \in Sources, Discover(s) PROVE TrueInv'
  BY <1>d DEF Discover, TrueInv, TrueReader, Entries, Now
<1>k. CASE Crash
  <2>1. ASSUME NEW t \in Readers PROVE TrueReader(readers[t])'
    BY <1>k DEF Crash, TrueReader, NoRead
  <2> QED BY <1>k, <2>1 DEF Crash, TrueInv, Entries, Now
<1>u. CASE UNCHANGED vars
  BY <1>u DEF vars, TrueInv, TrueReader, Entries, Now
<1> QED BY <1>t, <1>c, <1>d, <1>k, <1>u DEF Next, Rest

\* The answer a thread holds, as Listings sees it.
Held(t) == IF At(t, "answer") THEN {readers[t].answer} ELSE {}

LEMMA InitRefines == Init /\ TypeOK => Contract!ListInit
<1> SUFFICES ASSUME Init, TypeOK PROVE Contract!ListInit
  OBVIOUS
<1> DEFINE fresh == [s \in Sources |-> ListingOf(tables[s])]
           first == Merge(fresh, {})
<1>1. fresh \in Trees
  BY ListingType DEF Trees, TypeOK
<1>2. ASSUME NEW s \in Sources
      PROVE /\ <<<<"uc", s>>, first[<<"uc", s>>]>> \in listed
            /\ <<<<"cribl", s>>, first[<<"cribl", s>>]>> \in listed
  <2>1. /\ first[<<"uc", s>>] = ListingOf(tables[s])
        /\ first[<<"cribl", s>>] = "unlisted"
    <3> HIDE DEF first
    <3>1. /\ first[<<"uc", s>>] = fresh[s]
          /\ first[<<"cribl", s>>] = Injected(s, fresh, {})
      BY <1>1, MergeMeans DEF first
    <3> QED BY <3>1 DEF Injected
  <2> QED BY <2>1, TrueInit, NowHas DEF TrueInv, InUC, InCribl
<1>3. first \in [Names -> Listing]
  BY <1>1, MergeType
<1>4. \A n \in Names : <<n, first[n]>> \in listed
  <2> HIDE DEF first
  <2> QED BY <1>2, NameParts
<1>5. first \in Contract!Answers
  <2> HIDE DEF first
  <2> QED BY <1>3, <1>4 DEF Contract!Answers, Contract!Trees, Contract!Listing, Listing
<1>6. [t \in Readers |-> Held(t)] = [t \in Readers |-> {}]
  BY DEF Init, Held, At, NoRead
<1>7. listed \subseteq Names \X Contract!Listing
  BY DEF TypeOK, Contract!Listing, Listing
<1> QED BY <1>5, <1>6, <1>7 DEF Contract!ListInit, Held

\* The steps of one thread that neither find an answer nor hand one over.
Silent(t) ==
    \/ Get(t) \/ ListSchemas(t) \/ ListTables(t) \/ Unavailable(t)
    \/ Open(t) \/ WriteFails(t) \/ Load(t) \/ LoadSeed(t)

LEMMA BecomeAt ==
    ASSUME TypeOK, NEW t \in Readers, NEW r, Become(t, r)
    PROVE readers'[t] = r /\ \A o \in Readers : o # t => readers'[o] = readers[o]
  BY DEF TypeOK, Become

LEMMA SilentStep ==
    ASSUME TypeOK, NEW t \in Readers, Silent(t)
    PROVE /\ UNCHANGED listed
          /\ ~At(t, "answer") /\ readers'[t].pc # "answer"
          /\ \A o \in Readers : o # t => readers'[o] = readers[o]
<1>0. readers[t] \in Reader
  BY ReaderType
<1>1. CASE Get(t)
  <2> DEFINE new == [NoRead EXCEPT !.pc = "schemas", !.during = Now]
  <2>1. Become(t, new) /\ At(t, "idle") /\ UNCHANGED listed
    BY <1>1 DEF Get
  <2>2. new.pc = "schemas"
    BY DEF NoRead
  <2> HIDE DEF new
  <2> QED BY <2>1, <2>2, BecomeAt DEF At
<1>2. CASE ListSchemas(t)
  <2> DEFINE found == {SchemaOf[s] : s \in {q \in Sources : tables[q] # "absent"}}
             new == [readers[t] EXCEPT !.todo = found,
                       !.pc = IF found = {} THEN "open" ELSE "tables"]
  <2>1. Become(t, new) /\ At(t, "schemas") /\ UNCHANGED listed
    BY <1>2 DEF ListSchemas
  <2>2. new.pc # "answer"
    <3> HIDE DEF found
    <3> QED BY <1>0 DEF Reader
  <2> QED BY <2>1, <2>2, BecomeAt DEF At
<1>3. CASE ListTables(t)
  <2> DEFINE new(sch) ==
        [readers[t] EXCEPT !.todo = @ \ {sch},
           !.tree = [s \in Sources |-> IF SchemaOf[s] = sch
                                       THEN ListingOf(tables[s]) ELSE @[s]],
           !.pc = IF readers[t].todo = {sch} THEN "open" ELSE "tables"]
  <2>1. PICK sch \in readers[t].todo : Become(t, new(sch))
    BY <1>3 DEF ListTables
  <2>2. new(sch).pc # "answer"
    BY <1>0 DEF Reader
  <2>3. At(t, "tables") /\ UNCHANGED listed
    BY <1>3 DEF ListTables
  <2> HIDE DEF new
  <2> QED BY <2>1, <2>2, <2>3, BecomeAt DEF At
<1>4. CASE Unavailable(t) \/ WriteFails(t)
  <2>1. PICK pc \in {"load", "broken"} : Goto(t, pc)
    BY <1>4 DEF Unavailable, WriteFails
  <2>2. [readers[t] EXCEPT !.pc = pc].pc # "answer"
    BY <1>0 DEF Reader
  <2>3. Become(t, [readers[t] EXCEPT !.pc = pc])
    BY <2>1 DEF Goto, Become
  <2> QED BY <1>4, <2>2, <2>3, BecomeAt DEF At, Unavailable, WriteFails
<1>5. CASE Open(t)
  <2>1. [readers[t] EXCEPT !.pc = "write", !.alone = TRUE].pc # "answer"
    BY <1>0 DEF Reader
  <2> QED BY <1>5, <2>1, BecomeAt DEF Open, At
<1>6. CASE Load(t) \/ LoadSeed(t)
  <2> DEFINE with(tree) ==
        [readers[t] EXCEPT !.pc = "merge", !.stale = TRUE, !.tree = tree]
  <2>1. \/ Become(t, [readers[t] EXCEPT !.pc = "seed"])
        \/ Become(t, [readers[t] EXCEPT !.pc = "raised"])
        \/ Become(t, with(file.tree))
        \/ Become(t, with(CHOOSE tree \in Seed : TRUE))
    BY <1>6 DEF Load, LoadSeed
  <2>2. /\ [readers[t] EXCEPT !.pc = "seed"].pc # "answer"
        /\ [readers[t] EXCEPT !.pc = "raised"].pc # "answer"
        /\ \A tree : with(tree).pc # "answer"
    BY <1>0 DEF Reader
  <2> HIDE DEF with
  <2>3. readers[t].pc \in {"load", "seed"} /\ UNCHANGED listed
    BY <1>6 DEF Load, LoadSeed, At
  <2>4. readers'[t].pc # "answer" /\ \A o \in Readers : o # t => readers'[o] = readers[o]
    <3>1. CASE Become(t, [readers[t] EXCEPT !.pc = "seed"])
      BY <2>2, <3>1, BecomeAt
    <3>2. CASE Become(t, [readers[t] EXCEPT !.pc = "raised"])
      BY <2>2, <3>2, BecomeAt
    <3>3. CASE Become(t, with(file.tree))
      BY <2>2, <3>3, BecomeAt
    <3>4. CASE Become(t, with(CHOOSE tree \in Seed : TRUE))
      BY <2>2, <3>4, BecomeAt
    <3> QED BY <2>1, <3>1, <3>2, <3>3, <3>4
  <2> QED BY <2>3, <2>4 DEF At
<1> QED BY <1>1, <1>2, <1>3, <1>4, <1>5, <1>6 DEF Silent

LEMMA StepRefines ==
    AllInv /\ AllInv' /\ [Next]_vars => [Contract!ListNext]_Contract!listingVars
<1> SUFFICES ASSUME AllInv, AllInv', [Next]_vars
             PROVE Contract!ListNext \/ UNCHANGED Contract!listingVars
  OBVIOUS
<1> USE DEF AllInv
<1>t. ASSUME NEW t \in Readers, Silent(t) PROVE UNCHANGED Contract!listingVars
  <2>1. ASSUME NEW o \in Readers PROVE Held(o)' = Held(o)
    BY <1>t, SilentStep DEF Held, At
  <2> QED BY <1>t, <2>1, SilentStep DEF Contract!listingVars, Held
<1>w. ASSUME NEW t \in Readers, Write(t) PROVE UNCHANGED Contract!listingVars
  <2>1. ASSUME NEW o \in Readers PROVE Held(o)' = Held(o)
    BY <1>w, ReaderType DEF Write, Held, At, Reader
  <2> QED BY <1>w, <2>1 DEF Contract!listingVars, Held, Write
<1>a. ASSUME NEW t \in Readers, Answer(t) PROVE Contract!Answer(t)
  <2>1. readers'[t].pc = "answer" /\ ~At(t, "answer") /\ UNCHANGED listed
    BY <1>a, ReaderType DEF Answer, Become, At, TypeOK, Reader
  <2>2. \A o \in Readers : o # t => readers'[o] = readers[o]
    BY <1>a DEF Answer, Become
  <2>3. readers'[t].answer \in [Names -> Listing]
    BY DEF TypeOK, Reader
  <2>4. \A n \in Names : <<n, readers'[t].answer[n]>> \in listed
    BY <2>1 DEF TrueInv, TrueReader
  <2>5. readers'[t].answer \in Contract!Answers
    BY <2>3, <2>4 DEF Contract!Answers, Contract!Trees, Contract!Listing, Listing
  <2>6. Held(t) = {} /\ Held(t)' = {readers'[t].answer}
    BY <2>1 DEF Held, At
  <2>7. \A o \in Readers : o # t => Held(o)' = Held(o)
    BY <2>2 DEF Held, At
  <2>8. [o \in Readers |-> Held(o)'] =
          [[o \in Readers |-> Held(o)] EXCEPT ![t] = {readers'[t].answer}]
    BY <2>6, <2>7
  <2> QED BY <2>1, <2>5, <2>6, <2>8 DEF Contract!Answer, Held
<1>r. ASSUME NEW t \in Readers, Return(t) PROVE Contract!Take(t)
  <2>1. /\ UNCHANGED listed /\ Held(t)' = {}
        /\ \A o \in Readers : o # t => Held(o)' = Held(o)
    BY <1>r DEF Return, Become, Held, At, NoRead, TypeOK
  <2>2. [o \in Readers |-> Held(o)'] = [[o \in Readers |-> Held(o)] EXCEPT ![t] = {}]
    BY <2>1
  <2> QED BY <2>1, <2>2 DEF Contract!Take, Held
<1>c. ASSUME NEW s \in Sources, NEW property \in Property, Classify(s, property)
      PROVE Contract!List(<<"uc", s>>, ListingOf(property))
  <2>1. ASSUME NEW o \in Readers PROVE Held(o)' = Held(o)
    BY <1>c, ReaderType DEF Classify, Held, At, Reader
  <2> QED BY <1>c, <2>1 DEF Contract!List, Held, Classify, InUC
<1>d. ASSUME NEW s \in Sources, Discover(s)
      PROVE Contract!List(<<"cribl", s>>, "sensitive")
  BY <1>d DEF Discover, Contract!List, At, InCribl
<1>k. ASSUME Crash PROVE Contract!Forget
  <2>1. ASSUME NEW o \in Readers PROVE Held(o)' = {}
    BY <1>k DEF Crash, Held, At, NoRead
  <2> QED BY <1>k, <2>1 DEF Contract!Forget, Held, Crash
<1>u. CASE UNCHANGED vars
  BY <1>u DEF vars, Contract!listingVars, At
<1> QED
  <2>1. CASE \E t \in Readers : Answer(t) \/ Return(t)
    BY <2>1, <1>a, <1>r DEF Contract!ListNext
  <2>2. CASE \E s \in Sources, property \in Property : Classify(s, property)
    BY <2>2, <1>c, NameType, ListingType DEF Contract!ListNext, Contract!Listing, Listing
  <2>3. CASE \E s \in Sources : Discover(s)
    BY <2>3, <1>d, NameType DEF Contract!ListNext, Contract!Listing
  <2>4. CASE Crash
    BY <2>4, <1>k DEF Contract!ListNext
  <2> QED BY <1>t, <1>w, <1>u, <2>1, <2>2, <2>3, <2>4 DEF Next, Rest, Silent

\* get_tree implements Listings: whatever fails and whoever overlaps, an answer
\* lists each name in a way in which it has been listed.
THEOREM ImplementsListingsHolds == Spec => ImplementsListings
<1>1. Init => AllInv /\ Contract!ListInit
  BY InitType, FreshInit, TrueInit, InitRefines DEF AllInv
<1>2. AllInv /\ [Next]_vars => AllInv'
  BY TypeStep, FreshStep, TrueStep DEF AllInv
<1> QED BY <1>1, <1>2, StepRefines, PTL DEF Spec, ImplementsListings, Contract!ListSpec
=============================================================================
