-------------------------- MODULE DiscoveryProofs --------------------------
(***************************************************************************)
(* What is proved of Discovery for every value of its constants: any       *)
(* number of sources, seed runs, failures, edits and restarts.             *)
(*                                                                         *)
(*   TypeCorrect              type correctness                             *)
(*   NoInputUntaggedHolds     no node runs an input without its pipeline   *)
(*   NoSourceSkippedHolds     no round passes over a source being seeded   *)
(*   SuccessMeansSeededHolds  a run that succeeds has deployed it all      *)
(***************************************************************************)
EXTENDS Discovery, SequenceTheorems, TLAPS

-----------------------------------------------------------------------------
(* The objects and the list of calls *)

Kinds == {"post", "upsert", "splice", "commit", "deploy"}
CallType == Kinds \X Objects
Size == Len(Order)

LEMMA ObjectTypes ==
    /\ \A s \in Sources : Tag(s) \in Fleet /\ Ds(s) \in Fleet
    /\ {Output, Route} \subseteq Fleet
    /\ {Ingest, Archive, ArchiveRoute} \subseteq Logging
    /\ Fleet \subseteq Objects /\ Logging \subseteq Objects
  BY DEF Fleet, Logging, Objects

LEMMA Apart ==
    /\ \A s, r : Tag(s) # Ds(r)
    /\ \A s, r : Tag(s) = Tag(r) => s = r
    /\ \A s, r : Ds(s) = Ds(r) => s = r
    /\ \A s : Tag(s) \notin Logging /\ Ds(s) \notin Logging
    /\ \A s : Ds(s) \notin {Output, Route} /\ Tag(s) \notin {Output, Route}
  BY DEF Tag, Ds, Logging, Ingest, Archive, ArchiveRoute, Output, Route

LEMMA OrderType == Size \in Nat /\ \A k \in 1..Size : Order[k] \in Sources
  BY OrderAssumption, LenProperties DEF Size

LEMMA Place ==
    \A i \in 1..(2 * Size) : /\ (i + 1) \div 2 \in 1..Size
                             /\ i % 2 = 1 => (i + 1) % 2 = 0 /\ i + 1 \in 1..(2 * Size)
                                             /\ (i + 2) \div 2 = (i + 1) \div 2
                             /\ i % 2 = 0 => (i - 1) % 2 = 1 /\ i - 1 \in 1..(2 * Size)
                                             /\ i \div 2 = (i + 1) \div 2
                             /\ i % 2 \in {0, 1}
  BY OrderType

\* The calls of the sources, pair by pair.
LEMMA SourcesCallsAre ==
    /\ SourcesCalls \in Seq(CallType) /\ Len(SourcesCalls) = 2 * Size
    /\ \A i \in 1..(2 * Size) :
         SourcesCalls[i] = <<"upsert", IF i % 2 = 1 THEN Tag(Order[(i + 1) \div 2])
                                       ELSE Ds(Order[(i + 1) \div 2])>>
<1>1. ASSUME NEW i \in 1..(2 * Size)
      PROVE /\ SourcesCalls[i] = <<"upsert", IF i % 2 = 1 THEN Tag(Order[(i + 1) \div 2])
                                             ELSE Ds(Order[(i + 1) \div 2])>>
            /\ SourcesCalls[i] \in CallType
  <2>1. SourcesCalls[i] = SourceCalls(Order[(i + 1) \div 2])[2 - (i % 2)]
    BY DEF SourcesCalls, Size
  <2>2. Order[(i + 1) \div 2] \in Sources
    BY Place, OrderType
  <2>3. CASE i % 2 = 1
    BY <2>1, <2>2, <2>3, ObjectTypes DEF SourceCalls, CallType, Kinds
  <2>4. CASE i % 2 = 0
    BY <2>1, <2>2, <2>4, ObjectTypes DEF SourceCalls, CallType, Kinds
  <2> QED BY <2>3, <2>4, Place
<1>2. SourcesCalls \in [1..(2 * Size) -> CallType]
  BY <1>1 DEF SourcesCalls, Size
<1>3. 2 * Size \in Nat
  BY OrderType
<1>4. SourcesCalls \in Seq(CallType) /\ Len(SourcesCalls) = 2 * Size
  BY <1>2, <1>3
<1> QED BY <1>1, <1>4

LEMMA Concat ==
    \A s, t \in Seq(CallType) :
      /\ s \o t \in Seq(CallType) /\ Len(s \o t) = Len(s) + Len(t)
      /\ \A i \in 1..Len(s) : (s \o t)[i] = s[i]
      /\ \A i \in 1..Len(t) : (s \o t)[Len(s) + i] = t[i]
<1> SUFFICES ASSUME NEW s \in Seq(CallType), NEW t \in Seq(CallType)
             PROVE  /\ s \o t \in Seq(CallType) /\ Len(s \o t) = Len(s) + Len(t)
                    /\ \A i \in 1..Len(s) : (s \o t)[i] = s[i]
                    /\ \A i \in 1..Len(t) : (s \o t)[Len(s) + i] = t[i]
  OBVIOUS
<1>1. /\ s \o t \in Seq(CallType)
      /\ Len(s \o t) = Len(s) + Len(t)
      /\ \A i \in 1..Len(s) + Len(t) : (s \o t)[i] =
           IF i <= Len(s) THEN s[i] ELSE t[i - Len(s)]
  BY ConcatProperties, Zenon
<1>0. Len(s) \in Nat /\ Len(t) \in Nat
  BY LenProperties
<1>2. ASSUME NEW i \in 1..Len(s) PROVE (s \o t)[i] = s[i]
  <2>1. i \in 1..Len(s) + Len(t) /\ i <= Len(s)
    BY <1>0
  <2> QED BY <1>1, <2>1
<1>3. ASSUME NEW i \in 1..Len(t) PROVE (s \o t)[Len(s) + i] = t[i]
  <2>1. Len(s) + i \in 1..Len(s) + Len(t) /\ ~(Len(s) + i <= Len(s))
        /\ (Len(s) + i) - Len(s) = i
    BY <1>0
  <2> QED BY <1>1, <2>1
<1> QED BY <1>1, <1>2, <1>3

Before == LoggingCalls \o <<<<"upsert", Output>>>>

LEMMA BeforeIs ==
    /\ Before \in Seq(CallType) /\ Len(Before) = 6
    /\ \A i \in 1..5 : Before[i] = LoggingCalls[i]
    /\ Before[6] = <<"upsert", Output>>
<1> DEFINE one == <<<<"upsert", Output>>>>
<1>1. LoggingCalls \in Seq(CallType) /\ Len(LoggingCalls) = 5
  BY ObjectTypes DEF LoggingCalls, CallType, Kinds
<1>2. one \in Seq(CallType) /\ Len(one) = 1 /\ one[1] = <<"upsert", Output>>
  BY ObjectTypes DEF CallType, Kinds
<1> HIDE DEF one
<1>3. /\ LoggingCalls \o one \in Seq(CallType)
      /\ Len(LoggingCalls \o one) = Len(LoggingCalls) + Len(one)
      /\ \A i \in 1..Len(LoggingCalls) : (LoggingCalls \o one)[i] = LoggingCalls[i]
      /\ \A i \in 1..Len(one) : (LoggingCalls \o one)[Len(LoggingCalls) + i] = one[i]
  BY <1>1, <1>2, Concat, Zenon
<1>4. (LoggingCalls \o one)[5 + 1] = one[1]
  BY <1>1, <1>2, <1>3
<1>5. Before = LoggingCalls \o one
  BY DEF Before, one
<1> QED BY <1>1, <1>2, <1>3, <1>4, <1>5

\* Which call stands where.
LEMMA CallsAre ==
    /\ Calls \in Seq(CallType) /\ Len(Calls) = 9 + 2 * Size
    /\ \A i \in 1..5 : Calls[i] = LoggingCalls[i]
    /\ Calls[6] = <<"upsert", Output>>
    /\ \A i \in 1..(2 * Size) : Calls[6 + i] = SourcesCalls[i]
    /\ \A i \in 1..3 : Calls[(6 + 2 * Size) + i] = FleetCalls[i]
<1> DEFINE most == Before \o SourcesCalls
<1>0. Size \in Nat /\ 2 * Size \in Nat /\ 6 + 2 * Size \in Nat
  BY OrderType
<1>1. /\ most \in Seq(CallType) /\ Len(most) = 6 + 2 * Size
      /\ \A i \in 1..6 : most[i] = Before[i]
      /\ \A i \in 1..(2 * Size) : most[6 + i] = SourcesCalls[i]
  <2>1. /\ most \in Seq(CallType) /\ Len(most) = Len(Before) + Len(SourcesCalls)
        /\ \A i \in 1..Len(Before) : most[i] = Before[i]
        /\ \A i \in 1..Len(SourcesCalls) : most[Len(Before) + i] = SourcesCalls[i]
    BY BeforeIs, SourcesCallsAre, Concat, Zenon
  <2> QED BY <2>1, BeforeIs, SourcesCallsAre
<1>2. FleetCalls \in Seq(CallType) /\ Len(FleetCalls) = 3
  BY ObjectTypes DEF FleetCalls, CallType, Kinds
<1>3. Calls = most \o FleetCalls
  BY DEF Calls, Before
<1> HIDE DEF most
<1>4. /\ Calls \in Seq(CallType) /\ Len(Calls) = (6 + 2 * Size) + 3
      /\ \A i \in 1..(6 + 2 * Size) : Calls[i] = most[i]
      /\ \A i \in 1..3 : Calls[(6 + 2 * Size) + i] = FleetCalls[i]
  <2>1. /\ most \o FleetCalls \in Seq(CallType)
        /\ Len(most \o FleetCalls) = Len(most) + Len(FleetCalls)
        /\ \A i \in 1..Len(most) : (most \o FleetCalls)[i] = most[i]
        /\ \A i \in 1..Len(FleetCalls) :
             (most \o FleetCalls)[Len(most) + i] = FleetCalls[i]
    BY <1>1, <1>2, Concat, Zenon
  <2> QED BY <2>1, <1>1, <1>2, <1>3
<1>5. \A i \in 1..6 : Calls[i] = Before[i]
  BY <1>0, <1>1, <1>4
<1>6. ASSUME NEW i \in 1..(2 * Size) PROVE Calls[6 + i] = SourcesCalls[i]
  <2>1. 6 + i \in 1..(6 + 2 * Size)
    BY <1>0
  <2> QED BY <1>1, <1>4, <2>1
<1>7. Len(Calls) = 9 + 2 * Size
  BY <1>0, <1>4
<1> QED BY <1>4, <1>5, <1>6, <1>7, BeforeIs

\* Each call is one of main()'s.
LEMMA EachCall ==
    ASSUME NEW i \in 1..Len(Calls)
    PROVE \/ i \in 1..5 /\ Calls[i] = LoggingCalls[i]
          \/ i = 6 /\ Calls[i] = <<"upsert", Output>>
          \/ \E k \in 1..(2 * Size) : i = 6 + k /\ Calls[i] = SourcesCalls[k]
          \/ \E k \in 1..3 : i = (6 + 2 * Size) + k /\ Calls[i] = FleetCalls[k]
<1>1. Size \in Nat
  BY OrderType
<1>2. CASE i <= 6
  BY <1>1, <1>2, CallsAre
<1>3. CASE 6 < i /\ i <= 6 + 2 * Size
  <2>1. i - 6 \in 1..(2 * Size) /\ i = 6 + (i - 6)
    BY <1>1, <1>3
  <2> QED BY <2>1, CallsAre
<1>4. CASE 6 + 2 * Size < i
  <2>1. i - (6 + 2 * Size) \in 1..3 /\ i = (6 + 2 * Size) + (i - (6 + 2 * Size))
    BY <1>1, <1>4, CallsAre
  <2> QED BY <2>1, CallsAre
<1> QED BY <1>1, <1>2, <1>3, <1>4, CallsAre

\* The call before the upsert of an input is that of its pipeline.
LEMMA PipelineFirst ==
    ASSUME NEW i \in 1..Len(Calls), NEW s \in Sources, Calls[i] = <<"upsert", Ds(s)>>
    PROVE i - 1 \in 1..Len(Calls) /\ Calls[i - 1] = <<"upsert", Tag(s)>>
<1>1. Size \in Nat /\ Len(Calls) = 9 + 2 * Size
  BY OrderType, CallsAre
<1>2. Calls[i][1] = "upsert" /\ Calls[i][2] = Ds(s)
  OBVIOUS
<1>3. PICK k \in 1..(2 * Size) : i = 6 + k /\ Calls[i] = SourcesCalls[k]
  <2>1. ~(i \in 1..5 /\ Calls[i] = LoggingCalls[i])
    <3>1. \A j \in 1..5 : LoggingCalls[j][1] # "upsert"
      BY DEF LoggingCalls
    <3> QED BY <1>2, <3>1
  <2>2. ~(i = 6 /\ Calls[i] = <<"upsert", Output>>)
    BY <1>2, Apart
  <2>3. ~(\E j \in 1..3 : i = (6 + 2 * Size) + j /\ Calls[i] = FleetCalls[j])
    <3>1. \A j \in 1..3 : FleetCalls[j][1] # "upsert"
      BY DEF FleetCalls
    <3> QED BY <1>2, <3>1
  <2> QED BY <2>1, <2>2, <2>3, EachCall
<1>4. k % 2 = 0 /\ Ds(Order[(k + 1) \div 2]) = Ds(s)
  BY <1>2, <1>3, SourcesCallsAre, Place, Apart
<1>5. k - 1 \in 1..(2 * Size) /\ (k - 1) % 2 = 1 /\ k \div 2 = (k + 1) \div 2
  BY <1>4, Place
<1>6. SourcesCalls[k - 1] = <<"upsert", Tag(Order[((k - 1) + 1) \div 2])>>
  BY <1>5, SourcesCallsAre
<1>7. (k - 1) + 1 = k /\ Order[k \div 2] = s
  BY <1>1, <1>4, <1>5, Apart
<1>8. 6 + (k - 1) = i - 1 /\ i - 1 \in 1..Len(Calls)
  BY <1>1, <1>3, <1>5
<1>9. Calls[6 + (k - 1)] = SourcesCalls[k - 1]
  BY <1>5, CallsAre
<1> QED BY <1>6, <1>7, <1>8, <1>9

LEMMA CallTypes ==
    /\ Len(Calls) \in Nat /\ 0 \notin DOMAIN Calls /\ DOMAIN Calls = 1..Len(Calls)
    /\ \A i \in DOMAIN Calls : Calls[i] \in CallType
  BY CallsAre, OrderType

-----------------------------------------------------------------------------
(* Type correctness *)

LEMMA InitType == Init => TypeOK
<1> SUFFICES ASSUME Init PROVE TypeOK
  OBVIOUS
<1>1. NothingThere \in [Objects -> Version]
  BY DEF NothingThere, Version
<1>2. SeederOff \in Seeder
  BY <1>1, CallTypes DEF SeederOff, Seeder
<1>3. PollerIn("idle") \in Poller
  BY DEF PollerIn, Poller, Version
<1> QED BY <1>1, <1>2, <1>3 DEF Init, TypeOK, Version

\* A run that goes on, or has ended, is a run.
LEMMA SeederSteps ==
    ASSUME TypeOK
    PROVE /\ SeederOff \in Seeder
          /\ [SeederOff EXCEPT !.pc = 1] \in Seeder
          /\ Running => [seeder EXCEPT !.pc = @ + 1, !.patch = FALSE] \in Seeder
          /\ [seeder EXCEPT !.patch = TRUE] \in Seeder
          /\ Running => [seeder EXCEPT !.pc = @ + 1, !.version = config] \in Seeder
          /\ Running => [seeder EXCEPT !.pc = @ + 1, !.version = NothingThere] \in Seeder
          /\ [seeder EXCEPT !.alone = FALSE] \in Seeder
<1>1. NothingThere \in [Objects -> Version]
  BY DEF NothingThere, Version
<1>2. /\ Len(Calls) \in Nat /\ 1 \in 0..(Len(Calls) + 1) /\ 0 \in 0..(Len(Calls) + 1)
      /\ Running => seeder.pc + 1 \in 0..(Len(Calls) + 1)
  BY CallTypes DEF Running
<1> QED BY <1>1, <1>2 DEF TypeOK, Seeder, SeederOff

LEMMA PutType ==
    ASSUME TypeOK, NEW o, Put(o)
    PROVE config' \in [Objects -> Version]
  BY DEF TypeOK, Put, Version

LEMMA ReleasedType ==
    ASSUME TypeOK, NEW g, NEW v \in [Objects -> Version]
    PROVE Released(g, v) \in [Objects -> Version]
  BY DEF TypeOK, Released

LEMMA BudgetType ==
    ASSUME TypeOK, NEW k \in {"runs", "faults", "edits", "stops"}, NEW max, Budget(k, max)
    PROVE used' \in [{"runs", "faults", "edits", "stops"} -> Nat]
  BY DEF TypeOK, Budget

LEMMA PollerTypes ==
    ASSUME NEW pc \in {"off", "idle", "pipelines", "upsert"}
    PROVE PollerIn(pc) \in Poller
  BY DEF PollerIn, Poller, Version

LEMMA NextType == TypeOK /\ [Next]_vars => TypeOK'
<1> SUFFICES ASSUME TypeOK, [Next]_vars PROVE TypeOK'
  OBVIOUS
<1> USE DEF leaderVars, portalVars
<1>1. CASE Seed
  <2>1. ASSUME StartRun PROVE TypeOK'
    BY <2>1, SeederSteps, BudgetType DEF StartRun, TypeOK
  <2>2. ASSUME Post PROVE TypeOK'
    BY <2>2, SeederSteps, PutType DEF Post, Call, Done, Raised, TypeOK
  <2>3. ASSUME Upsert PROVE TypeOK'
    BY <2>3, SeederSteps, PutType DEF Upsert, Call, Done, Raised, TypeOK
  <2>4. ASSUME Splice PROVE TypeOK'
    BY <2>4, SeederSteps, PutType DEF Splice, Call, Done, TypeOK
  <2>5. ASSUME Commit PROVE TypeOK'
    BY <2>5, SeederSteps DEF Commit, Call, Raised, TypeOK
  <2>6. ASSUME Deploy PROVE TypeOK'
    <3>1. seeder.version \in [Objects -> Version]
      BY DEF TypeOK, Seeder
    <3> QED BY <2>6, <3>1, SeederSteps, ReleasedType DEF Deploy, Call, TypeOK
  <2>7. ASSUME SeederFails PROVE TypeOK'
    <3>1. seeder.version \in [Objects -> Version]
      BY DEF TypeOK, Seeder
    <3> QED BY <2>7, <3>1, SeederSteps, ReleasedType, PutType, BudgetType
            DEF SeederFails, Raised, TypeOK
  <2> QED BY <1>1, <2>1, <2>2, <2>3, <2>4, <2>5, <2>6, <2>7 DEF Seed
<1>2. ASSUME NEW o \in Objects, NEW v \in {"none", "edited"}, Edit(o, v)
      PROVE TypeOK'
  BY <1>2, SeederSteps, BudgetType DEF Edit, Interferes, TypeOK, Version
<1>3. ASSUME NEW g \in Groups, Release(g)
      PROVE TypeOK'
  <2>1. config \in [Objects -> Version]
    BY DEF TypeOK
  <2> QED BY <1>3, <2>1, SeederSteps, BudgetType, ReleasedType
          DEF Release, Interferes, TypeOK
<1>4. CASE Poll
  <2>1. ASSUME ReadInputs PROVE TypeOK'
    <3>1. \A s \in Sources : Ds(s) \in Objects
      BY ObjectTypes
    <3> QED BY <2>1, <3>1 DEF ReadInputs, TypeOK, Poller
  <2>2. ASSUME ReadPipelines PROVE TypeOK'
    <3>1. Recognised(poller.inputs) \in SUBSET (Sources \X {"spec", "edited"})
      BY DEF Recognised, TypeOK, Poller, Version
    <3>2. poller' \in Poller
      BY <2>2, <3>1, PollerTypes DEF ReadPipelines, Poller
    <3> QED BY <2>2, <3>2 DEF ReadPipelines, TypeOK
  <2>3. ASSUME SyncRow PROVE TypeOK'
    <3>1. PICK p \in poller.found :
            /\ poller' = [poller EXCEPT !.found = @ \ {p}]
            /\ \/ UpsertDiscovered(p[1], p[2]) /\ UNCHANGED used
               \/ Budget("faults", MaxFaults) /\ UNCHANGED rows
      BY <2>3 DEF SyncRow
    <3>2. p[1] \in Sources /\ p[2] \in Version /\ poller' \in Poller
      BY <3>1 DEF TypeOK, Poller, Version
    <3>3. rows' \in [Sources -> Version]
      BY <3>1, <3>2 DEF UpsertDiscovered, TypeOK
    <3>4. used' \in [{"runs", "faults", "edits", "stops"} -> Nat]
      BY <3>1, BudgetType DEF TypeOK
    <3> QED BY <2>3, <3>2, <3>3, <3>4 DEF SyncRow, TypeOK
  <2>4. ASSUME SyncEnds PROVE TypeOK'
    BY <2>4, PollerTypes DEF SyncEnds, TypeOK
  <2> QED BY <1>4, <2>1, <2>2, <2>3, <2>4 DEF Poll
<1>5. CASE DiscoveryFails
  BY <1>5, PollerTypes, BudgetType DEF DiscoveryFails, TypeOK
<1>6. CASE Stop \/ Exit \/ Crash \/ StartPoller
  BY <1>6, PollerTypes, BudgetType DEF Stop, Exit, Crash, StartPoller, TypeOK
<1>7. CASE UNCHANGED vars
  BY <1>7 DEF vars, TypeOK
<1> QED BY <1>1, <1>2, <1>3, <1>4, <1>5, <1>6, <1>7 DEF Next

\* Every state of the system is of the types that the model gives it.
THEOREM TypeCorrect == Spec => []TypeOK
  BY InitType, NextType, PTL DEF Spec

-----------------------------------------------------------------------------
(* An input and its pipeline *)

PairIn(f, s) == f[Ds(s)] # "none" => f[Tag(s)] = "spec"

\* What holds of a source that no operator has touched: its pair is whole in
\* the leader, on the nodes and in the commit that a seed run is to deploy;
\* and when its input is about to be written, or has been read by the poller,
\* its pipeline is there.
Held(s) ==
    /\ PairIn(config, s) /\ PairIn(deployed, s) /\ PairIn(seeder.version, s)
    /\ (Running /\ Calls[seeder.pc] = <<"upsert", Ds(s)>>) => config[Tag(s)] = "spec"
    /\ (At("pipelines") /\ poller.inputs[s] # "none") => config[Tag(s)] = "spec"

UntouchedHeld == \A s \in Sources \ touched : Held(s)

\* An input is written by no call but its upsert.
LEMMA OnlyUpsert ==
    ASSUME NEW i \in DOMAIN Calls, NEW s \in Sources, Calls[i][2] = Ds(s)
    PROVE Calls[i] = <<"upsert", Ds(s)>>
<1>1. i \in 1..Len(Calls) /\ Size \in Nat
  BY CallTypes, OrderType
<1>2. CASE i \in 1..5 /\ Calls[i] = LoggingCalls[i]
  <2>1. \A j \in 1..5 : LoggingCalls[j][2] \in Logging
    BY DEF LoggingCalls, Logging
  <2> QED BY <1>2, <2>1, Apart
<1>3. CASE i = 6 /\ Calls[i] = <<"upsert", Output>>
  BY <1>3, Apart
<1>4. CASE \E k \in 1..(2 * Size) : i = 6 + k /\ Calls[i] = SourcesCalls[k]
  <2>1. PICK k \in 1..(2 * Size) : i = 6 + k /\ Calls[i] = SourcesCalls[k]
    BY <1>4
  <2>2. Calls[i][1] = "upsert" /\ Calls[i] \in CallType
    BY <2>1, SourcesCallsAre, CallTypes
  <2> QED BY <2>2 DEF CallType
<1>5. CASE \E k \in 1..3 : i = (6 + 2 * Size) + k /\ Calls[i] = FleetCalls[k]
  <2>1. \A j \in 1..3 : FleetCalls[j][2] = Route
    BY DEF FleetCalls
  <2> QED BY <1>5, <2>1, Apart
<1> QED BY <1>1, <1>2, <1>3, <1>4, <1>5, EachCall

\* The call after any but a source's pipeline is not the upsert of its input.
LEMMA NextCall ==
    ASSUME NEW i \in DOMAIN Calls, NEW s \in Sources,
           i + 1 \in DOMAIN Calls, Calls[i + 1] = <<"upsert", Ds(s)>>
    PROVE Calls[i] = <<"upsert", Tag(s)>>
<1>1. i + 1 \in 1..Len(Calls) /\ i \in Nat /\ (i + 1) - 1 = i
  BY CallTypes
<1> QED BY <1>1, PipelineFirst

\* Writing an object keeps the pair, if the pipeline is there for an input.
LEMMA PutKeeps ==
    ASSUME TypeOK, NEW s \in Sources, NEW o \in Objects, Put(o), PairIn(config, s),
           o = Ds(s) => config[Tag(s)] = "spec"
    PROVE PairIn(config', s) /\ (config[Tag(s)] = "spec" => config'[Tag(s)] = "spec")
  BY ObjectTypes DEF Put, PairIn, TypeOK

LEMMA ReleasedKeeps ==
    ASSUME NEW s \in Sources, NEW g \in Groups, NEW v, PairIn(v, s), PairIn(deployed, s)
    PROVE PairIn(Released(g, v), s)
<1>1. /\ Tag(s) \in Objects /\ Ds(s) \in Objects
      /\ Tag(s) \in g <=> Ds(s) \in g
  BY ObjectTypes, Apart DEF Groups
<1> QED BY <1>1 DEF PairIn, Released

LEMMA NothingPair == \A s \in Sources : PairIn(NothingThere, s)
  BY ObjectTypes DEF PairIn, NothingThere

LEMMA InitHeld == Init => UntouchedHeld
<1> SUFFICES ASSUME Init, NEW s \in Sources \ touched PROVE Held(s)
  BY DEF UntouchedHeld
<1>1. seeder.pc = 0 /\ seeder.version = NothingThere
  BY DEF Init, SeederOff
<1>2. ~Running /\ ~At("pipelines")
  BY <1>1, CallTypes DEF Running, At, Init, PollerIn
<1> QED BY <1>1, <1>2, NothingPair DEF Init, Held

\* A call that the seeder makes: what it writes, if anything, is its object.
LEMMA CallHeld ==
    ASSUME TypeOK, NEW s \in Sources, Held(s), Running, UNCHANGED <<deployed, poller>>,
           \/ UNCHANGED config
           \/ Put(Object),
           \/ /\ seeder' = SeederOff
           \/ /\ seeder'.pc = seeder.pc + 1 /\ seeder'.version = seeder.version
              /\ Calls[seeder.pc] = <<"upsert", Tag(s)>> => config'[Tag(s)] = "spec"
           \/ seeder'.pc = seeder.pc /\ seeder'.version = seeder.version
    PROVE Held(s)'
<1>1. seeder.pc \in DOMAIN Calls /\ Calls[seeder.pc] \in CallType /\ Object \in Objects
  BY CallTypes DEF Running, Object, CallType
<1>2. Object = Ds(s) => config[Tag(s)] = "spec"
  BY <1>1, OnlyUpsert DEF Object, Held
<1>3. PairIn(config', s) /\ (config[Tag(s)] = "spec" => config'[Tag(s)] = "spec")
  BY <1>1, <1>2, PutKeeps DEF Held
<1>4. PairIn(deployed', s) /\ PairIn(seeder'.version, s)
  BY NothingPair DEF Held, SeederOff
<1>5. ((At("pipelines") /\ poller.inputs[s] # "none") => config[Tag(s)] = "spec")'
  BY <1>3 DEF Held, At
<1>6. ((Running /\ Calls[seeder.pc] = <<"upsert", Ds(s)>>) => config[Tag(s)] = "spec")'
  <2> SUFFICES ASSUME seeder'.pc \in DOMAIN Calls, Calls[seeder'.pc] = <<"upsert", Ds(s)>>
               PROVE config'[Tag(s)] = "spec"
    BY DEF Running
  <2>1. CASE seeder' = SeederOff
    BY <2>1, CallTypes DEF SeederOff
  <2>2. CASE /\ seeder'.pc = seeder.pc + 1
             /\ Calls[seeder.pc] = <<"upsert", Tag(s)>> => config'[Tag(s)] = "spec"
    BY <1>1, <2>2, NextCall
  <2>3. CASE seeder'.pc = seeder.pc
    BY <1>3, <2>3 DEF Held, Running
  <2> QED BY <2>1, <2>2, <2>3
<1> QED BY <1>3, <1>4, <1>5, <1>6 DEF Held, PairIn

LEMMA SeedHeld ==
    ASSUME TypeOK, NEW s \in Sources, Held(s), Seed
    PROVE Held(s)'
<1> USE DEF leaderVars, portalVars
<1>0. seeder \in Seeder
  BY DEF TypeOK
<1>1. CASE StartRun
  <2>1. seeder'.pc = 1 /\ seeder'.version = NothingThere
    BY <1>1 DEF StartRun, SeederOff
  <2>2. ASSUME 1 \in DOMAIN Calls PROVE Calls[1] # <<"upsert", Ds(s)>>
    BY <2>2, CallTypes, PipelineFirst
  <2> QED BY <1>1, <2>1, <2>2, NothingPair DEF StartRun, Held, PairIn, Running, At
<1>2. CASE Post
  <2>1. Running /\ Calls[seeder.pc] # <<"upsert", Tag(s)>>
    BY <1>2 DEF Post, Call
  <2>2. UNCHANGED <<deployed, poller>> /\ (UNCHANGED config \/ Put(Object))
    BY <1>2 DEF Post
  <2>3. \/ seeder' = SeederOff
        \/ seeder'.pc = seeder.pc + 1 /\ seeder'.version = seeder.version
    BY <1>0, <1>2 DEF Post, Done, Raised, Seeder
  <2> QED BY <2>1, <2>2, <2>3, CallHeld
<1>3. CASE Upsert
  <2>1. Running
    BY <1>3 DEF Upsert, Call
  <2>2. UNCHANGED <<deployed, poller>> /\ (UNCHANGED config \/ Put(Object))
    BY <1>3 DEF Upsert
  <2>3. \/ seeder' = SeederOff
        \/ seeder'.pc = seeder.pc + 1 /\ seeder'.version = seeder.version /\ Put(Object)
        \/ seeder'.pc = seeder.pc /\ seeder'.version = seeder.version
    BY <1>0, <1>3 DEF Upsert, Done, Raised, Seeder
  <2>4. ASSUME Put(Object), Calls[seeder.pc] = <<"upsert", Tag(s)>>
        PROVE config'[Tag(s)] = "spec"
    BY <2>4, ObjectTypes DEF Put, Object, TypeOK
  <2> QED BY <2>1, <2>2, <2>3, <2>4, CallHeld
<1>4. CASE Splice
  <2>1. Running /\ Calls[seeder.pc] # <<"upsert", Tag(s)>>
    BY <1>4 DEF Splice, Call
  <2>2. UNCHANGED <<deployed, poller>> /\ Put(Object)
    BY <1>4 DEF Splice
  <2>3. seeder'.pc = seeder.pc + 1 /\ seeder'.version = seeder.version
    BY <1>0, <1>4 DEF Splice, Done, Seeder
  <2> QED BY <2>1, <2>2, <2>3, CallHeld
<1>5. CASE Commit
  <2>1. Running /\ Calls[seeder.pc] # <<"upsert", Tag(s)>>
    BY <1>5 DEF Commit, Call
  <2>2. UNCHANGED <<config, deployed, poller>>
    BY <1>5 DEF Commit
  <2>3. CASE Raised
    BY <2>1, <2>2, <2>3, CallHeld DEF Raised
  <2>4. CASE seeder' = [seeder EXCEPT !.pc = @ + 1, !.version = config]
    <3>1. seeder'.pc = seeder.pc + 1 /\ seeder'.version = config
      BY <1>0, <2>4 DEF Seeder
    <3>2. ASSUME seeder'.pc \in DOMAIN Calls PROVE Calls[seeder'.pc] # <<"upsert", Ds(s)>>
      BY <2>1, <3>1, <3>2, NextCall DEF Running
    <3> QED BY <2>2, <3>1, <3>2 DEF Held, PairIn, Running, At
  <2> QED BY <1>5, <2>3, <2>4 DEF Commit
<1>6. CASE Deploy
  <2>1. Running /\ Calls[seeder.pc] # <<"upsert", Tag(s)>>
    BY <1>6 DEF Deploy, Call
  <2>2. seeder'.pc = seeder.pc + 1 /\ seeder'.version = NothingThere
    BY <1>0, <1>6 DEF Deploy, Seeder
  <2>3. ASSUME seeder'.pc \in DOMAIN Calls PROVE Calls[seeder'.pc] # <<"upsert", Ds(s)>>
    BY <2>1, <2>2, <2>3, NextCall DEF Running
  <2>4. PairIn(deployed', s)
    <3>1. GroupOf(Object) \in Groups
      BY DEF GroupOf, Groups
    <3>2. PairIn(Released(GroupOf(Object), seeder.version), s)
      BY <3>1, ReleasedKeeps DEF Held
    <3> QED BY <1>6, <3>2 DEF Deploy
  <2> QED BY <1>6, <2>2, <2>3, <2>4, NothingPair DEF Deploy, Held, PairIn, Running, At
<1>7. CASE SeederFails
  <2>1. Running /\ seeder' = SeederOff /\ UNCHANGED poller
    BY <1>7 DEF SeederFails, Raised
  <2>2. CASE UNCHANGED leaderVars
    BY <2>1, <2>2, CallHeld
  <2>3. CASE Put(Object) /\ UNCHANGED deployed
    BY <2>1, <2>3, CallHeld
  <2>4. CASE deployed' = Released(GroupOf(Object), seeder.version) /\ UNCHANGED config
    <3>1. GroupOf(Object) \in Groups
      BY DEF GroupOf, Groups
    <3>2. PairIn(deployed', s)
      BY <2>4, <3>1, ReleasedKeeps DEF Held
    <3>3. ~Running' /\ seeder'.version = NothingThere
      BY <2>1, CallTypes DEF SeederOff, Running
    <3> QED BY <2>1, <2>4, <3>2, <3>3, NothingPair DEF Held, PairIn, At
  <2> QED BY <1>7, <2>2, <2>3, <2>4 DEF SeederFails
<1> QED BY <1>1, <1>2, <1>3, <1>4, <1>5, <1>6, <1>7 DEF Seed

LEMMA NextHeld == TypeOK /\ UntouchedHeld /\ [Next]_vars => UntouchedHeld'
<1> SUFFICES ASSUME TypeOK, UntouchedHeld, [Next]_vars, NEW s \in Sources \ touched'
             PROVE Held(s)'
  BY DEF UntouchedHeld
<1> USE DEF leaderVars, portalVars
<1>1. touched \subseteq touched'
  BY DEF Next, vars, Seed, StartRun, Post, Upsert, Splice, Commit, Deploy, SeederFails,
         Edit, Release, Poll, ReadInputs, ReadPipelines, SyncRow, SyncEnds,
         DiscoveryFails, Stop, Exit, Crash, StartPoller
<1>2. s \in Sources /\ Held(s)
  BY <1>1 DEF UntouchedHeld
<1>3. CASE Seed
  BY <1>2, <1>3, SeedHeld
<1>4. ASSUME NEW o \in Objects, NEW v \in {"none", "edited"}, Edit(o, v)
      PROVE Held(s)'
  <2>1. o # Tag(s) /\ (o = Ds(s) => "none" \notin {v, config[o]})
    BY <1>2, <1>4 DEF Edit
  <2>2. config'[Tag(s)] = config[Tag(s)]
        /\ (config'[Ds(s)] # "none" => config[Ds(s)] # "none")
    BY <1>2, <1>4, <2>1, ObjectTypes DEF Edit, TypeOK
  <2>3. seeder'.pc = seeder.pc /\ seeder'.version = seeder.version
    BY <1>4 DEF Edit, Interferes, TypeOK, Seeder
  <2> QED BY <1>2, <1>4, <2>2, <2>3 DEF Edit, Held, PairIn, Running, At
<1>5. ASSUME NEW g \in Groups, Release(g)
      PROVE Held(s)'
  <2>1. PairIn(deployed', s)
    BY <1>2, <1>5, ReleasedKeeps DEF Release, Held
  <2>2. seeder'.pc = seeder.pc /\ seeder'.version = seeder.version
    BY <1>5 DEF Release, Interferes, TypeOK, Seeder
  <2> QED BY <1>2, <1>5, <2>1, <2>2 DEF Release, Held, PairIn, Running, At
<1>6. CASE ReadInputs
  <2>1. poller'.inputs[s] = config[Ds(s)]
    BY <1>2, <1>6 DEF ReadInputs, TypeOK, Poller
  <2> QED BY <1>2, <1>6, <2>1 DEF ReadInputs, Held, PairIn, Running, At
<1>7. CASE ReadPipelines \/ SyncRow \/ SyncEnds \/ DiscoveryFails
           \/ Stop \/ Exit \/ Crash \/ StartPoller
  <2>1. UNCHANGED <<config, deployed, seeder>>
    BY <1>7 DEF ReadPipelines, SyncRow, SyncEnds, DiscoveryFails, Stop, Exit, Crash,
                StartPoller
  <2>2. poller'.pc # "pipelines" \/ UNCHANGED poller
    BY <1>7 DEF ReadPipelines, SyncRow, SyncEnds, DiscoveryFails, Stop, Exit, Crash,
                StartPoller, PollerIn, TypeOK, Poller, At
  <2> QED BY <1>2, <2>1, <2>2 DEF Held, PairIn, Running, At
<1>8. CASE UNCHANGED vars
  BY <1>2, <1>8 DEF vars, Held, PairIn, Running, At
<1> QED BY <1>3, <1>4, <1>5, <1>6, <1>7, <1>8 DEF Next, Poll

\* No node runs an input without its pipeline, unless an operator broke the
\* pair: for any number of sources, seed runs, failures and releases.
THEOREM NoInputUntaggedHolds == Spec => []NoInputUntagged
<1>1. UntouchedHeld => NoInputUntagged
  BY DEF UntouchedHeld, Held, PairIn, NoInputUntagged
<1> QED BY <1>1, InitType, NextType, InitHeld, NextHeld, PTL DEF Spec

\* The poller's round recognises every input that it has read.
THEOREM NoSourceSkippedHolds == Spec => NoSourceSkipped
<1>1. TypeOK /\ UntouchedHeld /\ [Next]_vars
        => [ReadPipelines => \A s \in Sources :
              (poller.inputs[s] # "none" /\ s \notin touched)
                 => <<s, poller.inputs[s]>> \in poller'.found]_vars
  <2> SUFFICES ASSUME TypeOK, UntouchedHeld, ReadPipelines, NEW s \in Sources,
                      poller.inputs[s] # "none", s \notin touched
               PROVE <<s, poller.inputs[s]>> \in poller'.found
    OBVIOUS
  <2>1. config[Tag(s)] = "spec"
    BY DEF UntouchedHeld, Held, ReadPipelines, At
  <2>2. <<s, poller.inputs[s]>> \in Recognised(poller.inputs)
    BY <2>1 DEF Recognised
  <2> QED BY <2>2 DEF ReadPipelines, PollerIn
<1> QED BY <1>1, InitType, NextType, InitHeld, NextHeld, PTL DEF Spec, NoSourceSkipped

-----------------------------------------------------------------------------
(* A run that succeeds *)

Writes == {"post", "upsert", "splice"}

\* What the calls that a run has made have left: what it wrote is there, its
\* last commit holds the group, and what it deployed is on the nodes.
Effect(i) ==
    /\ Calls[i][1] \in Writes => config[Calls[i][2]] = "spec"
    /\ (Calls[i][1] = "commit" /\ i + 1 = seeder.pc)
         => \A o \in GroupOf(Calls[i][2]) : seeder.version[o] = "spec"
    /\ Calls[i][1] = "deploy"
         => \A o \in GroupOf(Calls[i][2]) : deployed[o] = "spec"

Progress == seeder.alone => \A i \in DOMAIN Calls : i < seeder.pc => Effect(i)

\* Where the calls stand that are of no source.
LEMMA LoggingPart ==
    /\ 1..6 \subseteq DOMAIN Calls
    /\ \A i \in 1..5 : Calls[i] = LoggingCalls[i]
    /\ Calls[6] = <<"upsert", Output>>
  BY CallsAre, CallTypes, OrderType

LEMMA FleetPart ==
    \E n \in Nat : /\ n >= 6 /\ Len(Calls) = n + 3
                   /\ {n + 1, n + 2, n + 3} \subseteq DOMAIN Calls
                   /\ Calls[n + 1] = <<"splice", Route>>
                   /\ Calls[n + 2] = <<"commit", Route>>
                   /\ Calls[n + 3] = <<"deploy", Route>>
                   /\ \A i \in DOMAIN Calls : i <= n \/ i \in {n + 1, n + 2, n + 3}
                   /\ \A i \in DOMAIN Calls : (5 < i /\ i <= n) => Calls[i][1] = "upsert"
                   /\ \A s \in Sources : \E j, k \in 1..n :
                        Calls[j] = <<"upsert", Tag(s)>> /\ Calls[k] = <<"upsert", Ds(s)>>
<1> DEFINE n == 6 + 2 * Size
<1>1. Size \in Nat /\ n \in Nat /\ n >= 6 /\ Len(Calls) = n + 3
  BY OrderType, CallsAre
<1>2. \A k \in 1..3 : Calls[n + k] = FleetCalls[k]
  BY CallsAre
<1>3. /\ Calls[n + 1] = <<"splice", Route>>
      /\ Calls[n + 2] = <<"commit", Route>>
      /\ Calls[n + 3] = <<"deploy", Route>>
  BY <1>2 DEF FleetCalls
<1>4. ASSUME NEW i \in DOMAIN Calls, 5 < i, i <= n PROVE Calls[i][1] = "upsert"
  <2>1. CASE i = 6
    BY <2>1, CallsAre
  <2>2. CASE i # 6
    <3>1. i \in Nat /\ i - 6 \in 1..(2 * Size) /\ 6 + (i - 6) = i
      BY <1>1, <1>4, <2>2, CallTypes
    <3>2. Calls[i] = SourcesCalls[i - 6]
      BY <3>1, CallsAre
    <3> QED BY <3>1, <3>2, SourcesCallsAre
  <2> QED BY <2>1, <2>2
<1>5. ASSUME NEW s \in Sources
      PROVE \E j, k \in 1..n :
              Calls[j] = <<"upsert", Tag(s)>> /\ Calls[k] = <<"upsert", Ds(s)>>
  <2>1. PICK m \in 1..Size : Order[m] = s
    BY OrderAssumption, LenProperties DEF Size
  <2>2. /\ 2 * m - 1 \in 1..(2 * Size) /\ 2 * m \in 1..(2 * Size)
        /\ (2 * m - 1) % 2 = 1 /\ ((2 * m - 1) + 1) \div 2 = m
        /\ (2 * m) % 2 = 0 /\ (2 * m + 1) \div 2 = m
    BY <1>1, <2>1
  <2>3. /\ Calls[6 + (2 * m - 1)] = <<"upsert", Tag(s)>>
        /\ Calls[6 + 2 * m] = <<"upsert", Ds(s)>>
    <3> DEFINE j == 2 * m - 1
               k == 2 * m
    <3>1. /\ j \in 1..(2 * Size) /\ j % 2 = 1 /\ Order[(j + 1) \div 2] = s
          /\ k \in 1..(2 * Size) /\ k % 2 = 0 /\ Order[(k + 1) \div 2] = s
      BY <2>1, <2>2
    <3> HIDE DEF j, k
    <3>2. SourcesCalls[j] = <<"upsert", Tag(s)>> /\ SourcesCalls[k] = <<"upsert", Ds(s)>>
      BY <3>1, SourcesCallsAre
    <3>3. Calls[6 + j] = SourcesCalls[j] /\ Calls[6 + k] = SourcesCalls[k]
      BY <3>1, CallsAre
    <3> QED BY <3>2, <3>3 DEF j, k
  <2>4. 6 + (2 * m - 1) \in 1..n /\ 6 + 2 * m \in 1..n
    BY <1>1, <2>2
  <2> QED BY <2>3, <2>4
<1>6. /\ {n + 1, n + 2, n + 3} \subseteq DOMAIN Calls
      /\ \A i \in DOMAIN Calls : i <= n \/ i \in {n + 1, n + 2, n + 3}
  BY <1>1, CallTypes
<1> HIDE DEF n
<1> QED BY <1>1, <1>3, <1>4, <1>5, <1>6

LEMMA GroupsOf == /\ GroupOf(ArchiveRoute) = Logging /\ GroupOf(Route) = Fleet
  BY DEF GroupOf, Fleet, Logging, ArchiveRoute, Output, Route, Tag, Ds

\* What a commit holds has been written before it.
LEMMA CommitLast ==
    ASSUME NEW i \in DOMAIN Calls, Calls[i][1] = "commit",
           NEW o \in GroupOf(Calls[i][2])
    PROVE \E j \in DOMAIN Calls :
            j < i /\ Calls[j][1] \in Writes /\ Calls[j][2] = o
<1>1. PICK n \in Nat :
        /\ n >= 6 /\ {n + 1, n + 2, n + 3} \subseteq DOMAIN Calls
        /\ Calls[n + 1] = <<"splice", Route>> /\ Calls[n + 2] = <<"commit", Route>>
        /\ Calls[n + 3] = <<"deploy", Route>>
        /\ \A k \in DOMAIN Calls : k <= n \/ k \in {n + 1, n + 2, n + 3}
        /\ \A k \in DOMAIN Calls : (5 < k /\ k <= n) => Calls[k][1] = "upsert"
        /\ \A s \in Sources : \E j, k \in 1..n :
             Calls[j] = <<"upsert", Tag(s)>> /\ Calls[k] = <<"upsert", Ds(s)>>
  BY FleetPart
<1>2. i \in Nat /\ i >= 1
  BY CallTypes
<1>3. 1..n \subseteq DOMAIN Calls
  BY <1>1, CallTypes
<1>4. /\ Calls[1] = <<"post", Ingest>> /\ Calls[2] = <<"post", Archive>>
      /\ Calls[3] = <<"splice", ArchiveRoute>> /\ Calls[4] = <<"commit", ArchiveRoute>>
      /\ Calls[5] = <<"deploy", ArchiveRoute>> /\ Calls[6] = <<"upsert", Output>>
  BY LoggingPart DEF LoggingCalls
<1>5. CASE i <= 5
  <2>1. i = 4
    BY <1>2, <1>4, <1>5
  <2>2. o \in Logging
    BY <1>4, <2>1, GroupsOf
  <2> QED BY <1>4, <2>1, <2>2, LoggingPart DEF Logging, Writes
<1>6. CASE 5 < i
  <2>1. i = n + 2
    BY <1>1, <1>2, <1>6
  <2>2. o \in Fleet
    BY <1>1, <2>1, GroupsOf
  <2>3. CASE o = Output
    BY <1>1, <1>4, <2>1, <2>3, LoggingPart DEF Writes
  <2>4. CASE o = Route
    BY <1>1, <2>1, <2>4 DEF Writes
  <2>5. CASE \E s \in Sources : o = Tag(s) \/ o = Ds(s)
    <3>1. PICK s \in Sources : o = Tag(s) \/ o = Ds(s)
      BY <2>5
    <3>2. PICK j \in 1..n : Calls[j] = <<"upsert", o>>
      BY <1>1, <3>1
    <3> QED BY <1>3, <2>1, <3>2 DEF Writes
  <2> QED BY <2>2, <2>3, <2>4, <2>5 DEF Fleet
<1> QED BY <1>2, <1>5, <1>6

\* A deploy is of the commit before it, and every object is deployed.
LEMMA DeployLast ==
    /\ \A i \in DOMAIN Calls : Calls[i][1] = "deploy" =>
         /\ i - 1 \in DOMAIN Calls /\ Calls[i - 1][1] = "commit"
         /\ GroupOf(Calls[i - 1][2]) = GroupOf(Calls[i][2])
    /\ \A o \in Objects : \E i \in DOMAIN Calls :
         Calls[i][1] = "deploy" /\ o \in GroupOf(Calls[i][2])
<1>1. PICK n \in Nat :
        /\ n >= 6 /\ {n + 1, n + 2, n + 3} \subseteq DOMAIN Calls
        /\ Calls[n + 1] = <<"splice", Route>> /\ Calls[n + 2] = <<"commit", Route>>
        /\ Calls[n + 3] = <<"deploy", Route>>
        /\ \A k \in DOMAIN Calls : k <= n \/ k \in {n + 1, n + 2, n + 3}
        /\ \A k \in DOMAIN Calls : (5 < k /\ k <= n) => Calls[k][1] = "upsert"
  BY FleetPart
<1>2. /\ Calls[1][1] = "post" /\ Calls[2][1] = "post"
      /\ Calls[3][1] = "splice" /\ Calls[4] = <<"commit", ArchiveRoute>>
      /\ Calls[5] = <<"deploy", ArchiveRoute>>
      /\ 4 \in DOMAIN Calls /\ 5 \in DOMAIN Calls
  BY LoggingPart DEF LoggingCalls
<1>3. ASSUME NEW i \in DOMAIN Calls, Calls[i][1] = "deploy" PROVE i \in {5, n + 3}
  <2>1. i \in Nat /\ i >= 1
    BY CallTypes
  <2>2. CASE i <= 5
    BY <1>2, <1>3, <2>1, <2>2
  <2>3. CASE 5 < i
    BY <1>1, <1>3, <2>1, <2>3
  <2> QED BY <2>1, <2>2, <2>3
<1>4. 5 - 1 = 4 /\ (n + 3) - 1 = n + 2
  OBVIOUS
<1>5. \A i \in DOMAIN Calls : Calls[i][1] = "deploy" =>
        /\ i - 1 \in DOMAIN Calls /\ Calls[i - 1][1] = "commit"
        /\ GroupOf(Calls[i - 1][2]) = GroupOf(Calls[i][2])
  BY <1>1, <1>2, <1>3, <1>4
<1>6. \A o \in Objects : \E i \in DOMAIN Calls :
         Calls[i][1] = "deploy" /\ o \in GroupOf(Calls[i][2])
  BY <1>1, <1>2, GroupsOf DEF Objects
<1> QED BY <1>5, <1>6

LEMMA InitProgress == Init => Progress
<1>1. Init => seeder.pc = 0
  BY DEF Init, SeederOff
<1> QED BY <1>1, CallTypes DEF Progress

\* A call that writes its object, and the step to the next one.
LEMMA WriteProgress ==
    ASSUME TypeOK, Progress, Running, UNCHANGED deployed,
           \/ UNCHANGED config
           \/ Put(Object),
           \/ seeder' = SeederOff
           \/ seeder'.pc = seeder.pc /\ seeder'.version = seeder.version
           \/ /\ seeder'.pc = seeder.pc + 1 /\ seeder'.version = seeder.version
              /\ Put(Object) /\ Calls[seeder.pc][1] \in Writes,
           seeder'.alone => seeder.alone \/ seeder' = SeederOff
    PROVE Progress'
<1>0. /\ seeder.pc \in DOMAIN Calls /\ Object \in Objects
      /\ \A i \in DOMAIN Calls : i \in Nat /\ Calls[i] \in CallType
  BY CallTypes DEF Running, Object, CallType
<1>1. \A o \in Objects : config[o] = "spec" => config'[o] = "spec"
  BY <1>0 DEF Put, TypeOK
<1>2. Put(Object) => config'[Object] = "spec"
  BY <1>0 DEF Put, TypeOK
<1>3. CASE seeder' = SeederOff
  BY <1>0, <1>3 DEF Progress, SeederOff
<1>4. ASSUME seeder'.alone, seeder' # SeederOff, NEW i \in DOMAIN Calls, i < seeder'.pc
      PROVE Effect(i)'
  <2>1. CASE i < seeder.pc
    <3>1. Effect(i) /\ Calls[i][2] \in Objects
      BY <1>0, <1>4, <2>1 DEF Progress, CallType
    <3>2. i + 1 = seeder'.pc => i + 1 = seeder.pc
      BY <1>0, <1>4, <2>1
    <3> QED BY <1>1, <1>4, <3>1, <3>2 DEF Effect
  <2>2. CASE ~(i < seeder.pc)
    <3>1. i = seeder.pc /\ Put(Object) /\ Calls[i][1] \in Writes
      BY <1>0, <1>4, <2>2
    <3> QED BY <1>2, <3>1 DEF Effect, Object, Writes
  <2> QED BY <2>1, <2>2
<1> QED BY <1>3, <1>4 DEF Progress

LEMMA SeedProgress == TypeOK /\ Progress /\ Seed => Progress'
<1> SUFFICES ASSUME TypeOK, Progress, Seed PROVE Progress'
  OBVIOUS
<1> USE DEF leaderVars, portalVars
<1>0. seeder \in Seeder /\ \A i \in DOMAIN Calls : i \in Nat /\ i >= 1
  BY CallTypes DEF TypeOK
<1>1. CASE StartRun
  <2>1. seeder'.pc = 1
    BY <1>1 DEF StartRun, SeederOff
  <2> QED BY <1>0, <2>1 DEF Progress
<1>2. CASE Post
  BY <1>0, <1>2, WriteProgress DEF Post, Call, Done, Raised, Seeder, Writes
<1>3. CASE Upsert
  BY <1>0, <1>3, WriteProgress DEF Upsert, Call, Done, Raised, Seeder, Writes
<1>4. CASE Splice
  BY <1>0, <1>4, WriteProgress DEF Splice, Call, Done, Seeder, Writes
<1>5. CASE Commit
  <2>1. Running /\ seeder.pc \in DOMAIN Calls /\ Calls[seeder.pc][1] = "commit"
    BY <1>5 DEF Commit, Call, Running
  <2>2. CASE Raised
    BY <1>5, <2>1, <2>2, WriteProgress DEF Commit, Raised
  <2>3. CASE seeder' = [seeder EXCEPT !.pc = @ + 1, !.version = config]
    <3>1. /\ seeder'.pc = seeder.pc + 1 /\ seeder'.version = config
          /\ seeder'.alone = seeder.alone
      BY <1>0, <2>3 DEF Seeder
    <3>2. ASSUME seeder.alone, NEW o \in GroupOf(Calls[seeder.pc][2])
          PROVE config[o] = "spec"
      BY <2>1, <3>2, CommitLast DEF Progress, Effect
    <3>3. ASSUME seeder.alone, NEW i \in DOMAIN Calls, i < seeder'.pc PROVE Effect(i)'
      <4>1. CASE i < seeder.pc
        <5>1. Effect(i) /\ i + 1 # seeder'.pc
          BY <1>0, <2>1, <3>1, <3>3, <4>1 DEF Progress
        <5> QED BY <1>5, <5>1 DEF Commit, Effect
      <4>2. CASE ~(i < seeder.pc)
        <5>1. i = seeder.pc
          BY <1>0, <2>1, <3>1, <3>3, <4>2
        <5> QED BY <2>1, <3>1, <3>2, <3>3, <5>1 DEF Effect, Writes
      <4> QED BY <4>1, <4>2
    <3> QED BY <3>1, <3>3 DEF Progress
  <2> QED BY <1>5, <2>2, <2>3 DEF Commit
<1>6. CASE Deploy
  <2>1. Running /\ seeder.pc \in DOMAIN Calls /\ Calls[seeder.pc][1] = "deploy"
    BY <1>6 DEF Deploy, Call, Running
  <2>2. seeder'.pc = seeder.pc + 1 /\ seeder'.alone = seeder.alone
    BY <1>0, <1>6 DEF Deploy, Seeder
  <2>3. ASSUME seeder.alone, NEW o \in GroupOf(Calls[seeder.pc][2])
        PROVE seeder.version[o] = "spec"
    <3>1. /\ seeder.pc - 1 \in DOMAIN Calls /\ Calls[seeder.pc - 1][1] = "commit"
          /\ GroupOf(Calls[seeder.pc - 1][2]) = GroupOf(Calls[seeder.pc][2])
      BY <2>1, DeployLast
    <3>2. Effect(seeder.pc - 1) /\ (seeder.pc - 1) + 1 = seeder.pc
      BY <1>0, <2>1, <2>3, <3>1 DEF Progress
    <3> QED BY <2>3, <3>1, <3>2 DEF Effect
  <2>4. GroupOf(Calls[seeder.pc][2]) \subseteq Objects
    BY DEF GroupOf, Objects
  <2>5. ASSUME seeder.alone, NEW o \in Objects,
               deployed[o] = "spec" \/ o \in GroupOf(Calls[seeder.pc][2])
        PROVE deployed'[o] = "spec"
    BY <1>6, <2>3, <2>5 DEF Deploy, Released, Object
  <2>6. ASSUME seeder.alone, NEW i \in DOMAIN Calls, i < seeder'.pc PROVE Effect(i)'
    <3>1. GroupOf(Calls[i][2]) \subseteq Objects
      BY DEF GroupOf, Objects
    <3>2. CASE i < seeder.pc
      <4>1. Effect(i) /\ i + 1 # seeder'.pc
        BY <1>0, <2>1, <2>2, <2>6, <3>2 DEF Progress
      <4> QED BY <1>6, <2>5, <2>6, <3>1, <4>1 DEF Deploy, Effect
    <3>3. CASE ~(i < seeder.pc)
      <4>1. i = seeder.pc
        BY <1>0, <2>1, <2>2, <2>6, <3>3
      <4> QED BY <2>1, <2>4, <2>5, <2>6, <4>1 DEF Effect, Writes
    <3> QED BY <3>2, <3>3
  <2> QED BY <2>2, <2>6 DEF Progress
<1>7. CASE SeederFails
  <2>1. seeder' = SeederOff
    BY <1>7 DEF SeederFails, Raised
  <2> QED BY <1>0, <2>1 DEF Progress, SeederOff
<1> QED BY <1>1, <1>2, <1>3, <1>4, <1>5, <1>6, <1>7 DEF Seed

LEMMA NextProgress == TypeOK /\ Progress /\ [Next]_vars => Progress'
<1> SUFFICES ASSUME TypeOK, Progress, [Next]_vars PROVE Progress'
  OBVIOUS
<1> USE DEF leaderVars, portalVars
<1>1. CASE Seed
  BY <1>1, SeedProgress
<1>2. CASE \/ \E o \in Objects, v \in {"none", "edited"} : Edit(o, v)
           \/ \E g \in Groups : Release(g)
  <2>1. ~seeder'.alone
    BY <1>2 DEF Edit, Release, Interferes, TypeOK, Seeder
  <2> QED BY <2>1 DEF Progress
<1>3. CASE Poll \/ DiscoveryFails \/ Stop \/ Exit \/ Crash \/ StartPoller \/ UNCHANGED vars
  <2>1. UNCHANGED <<config, deployed, seeder>>
    BY <1>3 DEF Poll, ReadInputs, ReadPipelines, SyncRow, SyncEnds, DiscoveryFails,
                Stop, Exit, Crash, StartPoller, vars
  <2> QED BY <2>1 DEF Progress, Effect
<1> QED BY <1>1, <1>2, <1>3 DEF Next

\* A run that succeeds with nobody else at the console has deployed the whole
\* specification, whatever it found there: for any specification.
THEOREM SuccessMeansSeededHolds == Spec => []SuccessMeansSeeded
<1>1. TypeOK /\ Progress => SuccessMeansSeeded
  <2> SUFFICES ASSUME Progress, Succeeded, seeder.alone, NEW o \in Objects
               PROVE deployed[o] = "spec"
    BY DEF SuccessMeansSeeded
  <2>1. PICK i \in DOMAIN Calls : Calls[i][1] = "deploy" /\ o \in GroupOf(Calls[i][2])
    BY DeployLast
  <2>2. i < seeder.pc
    BY CallTypes DEF Succeeded
  <2> QED BY <2>1, <2>2 DEF Progress, Effect
<1> QED BY <1>1, InitType, NextType, InitProgress, NextProgress, PTL DEF Spec

=============================================================================
