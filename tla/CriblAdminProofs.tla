-------------------------- MODULE CriblAdminProofs --------------------------
(***************************************************************************)
(* What is proved of CriblAdmin for every value of its constants: any      *)
(* number of callers, forks, filters, calls, failures, edits and polls.    *)
(*                                                                         *)
(*   TypeCorrect              type correctness, from TypeInv               *)
(*   OthersKeptHolds          archive routes survive every interleaving    *)
(*   ImplementsPipelineHolds  apply implements the contract Pipeline       *)
(***************************************************************************)
EXTENDS CriblAdmin, FiniteSetTheorems, SequenceTheorems, TLAPS

-----------------------------------------------------------------------------
(* The spliced table *)

\* The first n routes of a table are the portal's, the others are not.
SplitAt(tbl, n) ==
    /\ n \in 0..Len(tbl)
    /\ \A i \in 1..n : IsFork(tbl[i])
    /\ \A i \in (n + 1)..Len(tbl) : IsOther(tbl[i])

\* What SetToSeq returns for a finite set: each element, once.
LEMMA SetToSeqIs ==
    ASSUME NEW S, IsFiniteSet(S)
    PROVE  /\ Cardinality(S) \in Nat
           /\ SetToSeq(S) \in [1..Cardinality(S) -> S]
           /\ SetToSeq(S) \in Seq(S) /\ Len(SetToSeq(S)) = Cardinality(S)
           /\ {SetToSeq(S)[i] : i \in 1..Cardinality(S)} = S
<1>1. Cardinality(S) \in Nat
  BY FS_CardinalityType
<1>2. PICK f : f \in Bijection(1..Cardinality(S), S)
  BY FS_CardinalityType DEF ExistsBijection
<1>3. f \in [1..Cardinality(S) -> S] /\ IsInjective(f)
  BY <1>2 DEF Bijection, Injection, IsInjective
<1> DEFINE s == SetToSeq(S)
<1>4. s \in [1..Cardinality(S) -> S] /\ IsInjective(s)
  BY <1>3 DEF SetToSeq
<1>5. IsFiniteSet(1..Cardinality(S)) /\ Cardinality(1..Cardinality(S)) = Cardinality(S)
  BY <1>1, FS_Interval
<1>6. s \in Injection(1..Cardinality(S), S)
  BY <1>4 DEF Injection, IsInjective
<1>7. s \in Surjection(1..Cardinality(S), S)
  BY <1>5, <1>6, FS_Injection
<1>8. {s[i] : i \in 1..Cardinality(S)} = S
  BY <1>7 DEF Surjection
<1>9. s \in Seq(S) /\ Len(s) = Cardinality(S)
  BY <1>1, <1>4
<1> QED BY <1>1, <1>4, <1>8, <1>9

\* What stands behind the portal's routes are the routes of others.
LEMMA OtherRoutesAre ==
    ASSUME NEW doc \in Seq(Entry), NEW n, SplitAt(doc, n)
    PROVE  /\ OtherRoutes(doc) \in [1..(Len(doc) - n) -> Entry]
           /\ \A k \in 1..(Len(doc) - n) : OtherRoutes(doc)[k] = doc[n + k]
<1> DEFINE kept == {i \in DOMAIN doc : IsOther(doc[i])}
           Place(i) == Cardinality({j \in kept : j <= i})
<1>1. /\ Len(doc) \in Nat /\ DOMAIN doc = 1..Len(doc) /\ n \in Nat /\ n <= Len(doc)
      /\ \A i \in 1..Len(doc) : doc[i] \in Entry
  BY LenProperties DEF SplitAt
<1>2. kept = (n + 1)..Len(doc)
  BY <1>1 DEF SplitAt, IsFork, IsOther
<1>3. Cardinality(kept) = Len(doc) - n
  <2>1. Cardinality((n + 1)..Len(doc)) =
          IF n + 1 > Len(doc) THEN 0 ELSE Len(doc) - (n + 1) + 1
    <3>1. n + 1 \in Int /\ Len(doc) \in Int
      BY <1>1
    <3> QED BY <3>1, FS_Interval
  <2> HIDE DEF kept
  <2> QED BY <1>1, <1>2, <2>1
<1>4. ASSUME NEW i \in kept PROVE Place(i) = i - n
  <2>1. {j \in kept : j <= i} = (n + 1)..i
    BY <1>1, <1>2
  <2>2. n + 1 \in Int /\ i \in Int /\ n + 1 <= i
    BY <1>1, <1>2
  <2>3. Cardinality((n + 1)..i) = i - n
    BY <2>2, <1>1, FS_Interval
  <2> QED BY <2>1, <2>3
<1>5. OtherRoutes(doc) =
        [k \in 1..Cardinality(kept) |-> doc[CHOOSE i \in kept : Place(i) = k]]
  BY DEF OtherRoutes
<1> HIDE DEF Place, kept
<1>6. ASSUME NEW k \in 1..(Len(doc) - n)
      PROVE  (CHOOSE i \in kept : Place(i) = k) = n + k
  <2>1. n + k \in kept /\ (n + k) - n = k
    BY <1>1, <1>2
  <2>2. \A i \in kept : Place(i) = k => i = n + k
    BY <1>1, <1>2, <1>4
  <2>3. Place(n + k) = k
    BY <1>4, <2>1
  <2> QED BY <2>1, <2>2, <2>3
<1>7. \A k \in 1..(Len(doc) - n) : OtherRoutes(doc)[k] = doc[n + k]
  BY <1>3, <1>5, <1>6
<1>8. \A k \in 1..(Len(doc) - n) : doc[n + k] \in Entry
  BY <1>1
<1> QED BY <1>3, <1>5, <1>7, <1>8

\* A want's entries are fork routes, and they say what is wanted.
LEMMA EntriesOf ==
    ASSUME NEW w \in Wants
    PROVE  /\ IsFiniteSet(ForkEntries(w)) /\ ForkEntries(w) \subseteq Entry
           /\ \A e \in ForkEntries(w) : IsFork(e)
           /\ {<<e.id, e.filter>> : e \in ForkEntries(w)} = w
<1>1. w \subseteq Routes /\ IsFiniteSet(w)
  BY WantAssumption
<1>2. IsFiniteSet(ForkEntries(w))
  <2> DEFINE f == [r \in w |-> [id |-> r[1], filter |-> r[2]]]
  <2>1. f \in Surjection(w, ForkEntries(w))
    BY DEF Surjection, ForkEntries
  <2> QED BY <1>1, <2>1, FS_Surjection
<1>3. ForkEntries(w) \subseteq Entry /\ \A e \in ForkEntries(w) : IsFork(e)
  BY <1>1 DEF ForkEntries, Entry, Routes, IsFork
<1>4. ASSUME NEW r \in w
      PROVE  \E e \in ForkEntries(w) : r = <<e.id, e.filter>>
  <2> DEFINE e == [id |-> r[1], filter |-> r[2]]
  <2>1. e \in ForkEntries(w) /\ r = <<e.id, e.filter>>
    BY <1>1 DEF ForkEntries, Routes
  <2> QED BY <2>1
<1>5. ASSUME NEW e \in ForkEntries(w)
      PROVE  <<e.id, e.filter>> \in w
  <2>1. PICK r \in w : e = [id |-> r[1], filter |-> r[2]]
    BY DEF ForkEntries
  <2> QED BY <1>1, <2>1 DEF Routes
<1>6. {<<e.id, e.filter>> : e \in ForkEntries(w)} = w
  BY <1>4, <1>5
<1> QED BY <1>2, <1>3, <1>6

\* The fork routes of a table that is split.
LEMMA ForkRoutesAre ==
    ASSUME NEW tbl \in Seq(Entry), NEW n, SplitAt(tbl, n)
    PROVE  ForkRoutes(tbl) = {<<e.id, e.filter>> : e \in {tbl[i] : i \in 1..n}}
<1>1. Len(tbl) \in Nat /\ DOMAIN tbl = 1..Len(tbl) /\ n \in Nat /\ n <= Len(tbl)
  BY LenProperties DEF SplitAt
<1>2. {d \in ToSet(tbl) : IsFork(d)} = {tbl[i] : i \in 1..n}
  <2>1. \A i \in 1..Len(tbl) : IsFork(tbl[i]) <=> i \in 1..n
    BY <1>1 DEF SplitAt, IsFork, IsOther
  <2> QED BY <1>1, <2>1 DEF ToSet
<1> QED BY <1>2 DEF ForkRoutes

\* What the splice of a want into a split table is.
LEMMA SplicedIs ==
    ASSUME NEW w \in Wants, NEW doc \in Seq(Entry), NEW n, SplitAt(doc, n)
    PROVE  LET tbl == Spliced(w, doc)
           IN  /\ tbl \in Seq(Entry) /\ ForkRoutes(tbl) = w
               /\ \E m \in Nat : /\ SplitAt(tbl, m) /\ Len(tbl) = m + (Len(doc) - n)
                                 /\ \A k \in 1..(Len(doc) - n) : tbl[m + k] = doc[n + k]
<1> DEFINE front == SetToSeq(ForkEntries(w))
           back == OtherRoutes(doc)
           m == Cardinality(ForkEntries(w))
           l == Len(doc) - n
           tbl == Spliced(w, doc)
<1>1. /\ m \in Nat /\ front \in Seq(ForkEntries(w)) /\ Len(front) = m
      /\ {front[i] : i \in 1..m} = ForkEntries(w)
  BY EntriesOf, SetToSeqIs
<1>2. front \in Seq(Entry)
  BY <1>1, EntriesOf, SeqMonotonic
<1>3. Len(doc) \in Nat /\ n \in Nat /\ l \in Nat
  BY LenProperties DEF SplitAt
<1>4. back \in Seq(Entry) /\ Len(back) = l /\ \A k \in 1..l : back[k] = doc[n + k]
  <2>1. back \in [1..l -> Entry] /\ \A k \in 1..l : back[k] = doc[n + k]
    BY OtherRoutesAre
  <2> HIDE DEF back
  <2> QED BY <1>3, <2>1
<1>5. tbl = front \o back
  BY DEF Spliced
<1> HIDE DEF front, back, l, m, tbl
<1>6. /\ tbl \in Seq(Entry) /\ Len(tbl) = Len(front) + Len(back)
      /\ \A i \in 1..Len(front) + Len(back) : tbl[i] =
            IF i <= Len(front) THEN front[i] ELSE back[i - Len(front)]
  BY <1>2, <1>4, <1>5, ConcatProperties, Zenon
<1>7. Len(tbl) = m + l /\ \A i \in 1..m : tbl[i] = front[i]
  BY <1>1, <1>3, <1>4, <1>6
<1>8. \A k \in 1..l : tbl[m + k] = doc[n + k]
  <2> TAKE k \in 1..l
  <2>1. m + k \in 1..(m + l) /\ ~(m + k <= m) /\ (m + k) - m = k
    BY <1>1, <1>3
  <2>2. tbl[m + k] = back[k]
    BY <1>1, <1>4, <1>6, <2>1
  <2> QED BY <1>4, <2>2
<1>9. SplitAt(tbl, m)
  <2>1. \A i \in 1..m : IsFork(tbl[i])
    BY <1>1, <1>7, EntriesOf
  <2>2. ASSUME NEW i \in (m + 1)..Len(tbl) PROVE IsOther(tbl[i])
    <3>1. i - m \in 1..l /\ m + (i - m) = i
      BY <1>1, <1>3, <1>7
    <3>2. tbl[i] = doc[n + (i - m)]
      BY <1>8, <3>1
    <3>3. n + (i - m) \in (n + 1)..Len(doc)
      BY <1>3, <3>1 DEF l
    <3> QED BY <3>2, <3>3 DEF SplitAt
  <2> QED BY <1>1, <1>3, <1>7, <2>1, <2>2 DEF SplitAt
<1>10. ForkRoutes(tbl) = w
  <2>1. ForkRoutes(tbl) = {<<e.id, e.filter>> : e \in {tbl[i] : i \in 1..m}}
    BY <1>6, <1>9, ForkRoutesAre
  <2>2. {tbl[i] : i \in 1..m} = ForkEntries(w)
    BY <1>1, <1>7
  <2> QED BY <2>1, <2>2, EntriesOf
<1> QED BY <1>1, <1>6, <1>7, <1>8, <1>9, <1>10 DEF l, tbl

-----------------------------------------------------------------------------
(* Types, and the tables *)

\* The archive routes come first of those behind the first n.
ArchiveAt(tbl, n) ==
    /\ Len(Archive) <= Len(tbl) - n
    /\ \A i \in 1..Len(Archive) : tbl[n + i] = ArchiveEntries[i]

Kept(tbl) == \E n \in Nat : SplitAt(tbl, n) /\ ArchiveAt(tbl, n)

\* A call between two steps, with so many versions committed.
CallOK(k, top) ==
    /\ k.pc = "idle" => k = NoCall
    /\ k.pc # "idle" => k.want \in Wants
    /\ k.pc = "versions" => k.prev = {} /\ k.commit = 0
    /\ k.pc \in {"deploy", "await"} => k.commit # 0
    /\ k.prev \subseteq 1..top /\ k.commit \in 0..top
    /\ k.pc = "patch" => Kept(k.doc)

Tables == /\ Kept(routes)
          /\ \A v \in DOMAIN versions : Kept(versions[v].routes)

TypeInv == /\ TypeOK /\ Tables
           /\ \A c \in Callers : CallOK(calls[c], Len(versions))

LEMMA ArchiveType ==
    /\ Len(Archive) \in Nat /\ DOMAIN Archive = 1..Len(Archive)
    /\ ArchiveEntries \in Seq(Entry) /\ Len(ArchiveEntries) = Len(Archive)
    /\ \A i \in 1..Len(Archive) : IsOther(ArchiveEntries[i])
<1>1. /\ Len(Archive) \in Nat /\ DOMAIN Archive = 1..Len(Archive)
      /\ \A i \in 1..Len(Archive) : Archive[i] \in Others
  BY OtherAssumption, LenProperties
<1>2. ArchiveEntries \in [1..Len(Archive) -> Entry]
  BY <1>1 DEF ArchiveEntries, Entry
<1>3. ArchiveEntries \in Seq(Entry) /\ Len(ArchiveEntries) = Len(Archive)
  BY <1>1, <1>2
<1>4. \A i \in 1..Len(Archive) : IsOther(ArchiveEntries[i])
  BY <1>1, OtherAssumption DEF ArchiveEntries, IsOther
<1> QED BY <1>1, <1>3, <1>4

LEMMA ArchiveKept == Kept(ArchiveEntries)
<1>1. SplitAt(ArchiveEntries, 0)
  BY ArchiveType DEF SplitAt
<1>2. ArchiveAt(ArchiveEntries, 0)
  BY ArchiveType DEF ArchiveAt
<1> QED BY <1>1, <1>2 DEF Kept

\* A splice keeps the archive routes, and so does a route put at the end.
LEMMA SpliceKeeps ==
    ASSUME NEW w \in Wants, NEW doc \in Seq(Entry), Kept(doc)
    PROVE  Spliced(w, doc) \in Seq(Entry) /\ Kept(Spliced(w, doc))
<1> DEFINE tbl == Spliced(w, doc)
<1>1. PICK n \in Nat : SplitAt(doc, n) /\ ArchiveAt(doc, n)
  BY DEF Kept
<1>2. /\ tbl \in Seq(Entry)
      /\ \E m \in Nat : /\ SplitAt(tbl, m) /\ Len(tbl) = m + (Len(doc) - n)
                        /\ \A k \in 1..(Len(doc) - n) : tbl[m + k] = doc[n + k]
  BY <1>1, SplicedIs
<1> HIDE DEF tbl
<1>3. PICK m \in Nat : /\ SplitAt(tbl, m) /\ Len(tbl) = m + (Len(doc) - n)
                       /\ \A k \in 1..(Len(doc) - n) : tbl[m + k] = doc[n + k]
  BY <1>2
<1>4. Len(doc) \in Nat /\ Len(tbl) - m = Len(doc) - n
  BY <1>3, LenProperties
<1>5. ArchiveAt(tbl, m)
  <2>1. Len(Archive) <= Len(tbl) - m
    BY <1>1, <1>4 DEF ArchiveAt
  <2>2. ASSUME NEW i \in 1..Len(Archive) PROVE tbl[m + i] = ArchiveEntries[i]
    <3>1. i \in 1..(Len(doc) - n)
      BY <1>1, <1>4, ArchiveType DEF ArchiveAt
    <3> QED BY <1>1, <1>3, <3>1 DEF ArchiveAt
  <2> QED BY <2>1, <2>2 DEF ArchiveAt
<1> QED BY <1>2, <1>3, <1>5 DEF Kept, tbl

LEMMA EditKeeps ==
    ASSUME NEW tbl \in Seq(Entry), Kept(tbl), NEW o \in Others
    PROVE  LET e == [id |-> o, filter |-> None]
           IN  /\ Append(tbl, e) \in Seq(Entry) /\ Kept(Append(tbl, e))
               /\ ForkRoutes(Append(tbl, e)) = ForkRoutes(tbl)
<1> DEFINE e == [id |-> o, filter |-> None]
           new == Append(tbl, e)
<1>1. e \in Entry /\ IsOther(e)
  BY OtherAssumption DEF Entry, IsOther
<1>2. PICK n \in Nat : SplitAt(tbl, n) /\ ArchiveAt(tbl, n)
  BY DEF Kept
<1> HIDE DEF e
<1>3. /\ new \in Seq(Entry) /\ Len(new) = Len(tbl) + 1 /\ Len(tbl) \in Nat
      /\ \A i \in 1..Len(tbl) : new[i] = tbl[i]
      /\ new[Len(tbl) + 1] = e
  BY <1>1, AppendProperties, LenProperties
<1> HIDE DEF new
<1>4. SplitAt(new, n)
  BY <1>1, <1>2, <1>3 DEF SplitAt
<1>5. ArchiveAt(new, n)
  <2>1. Len(Archive) <= Len(new) - n
    BY <1>2, <1>3, ArchiveType DEF ArchiveAt
  <2>2. ASSUME NEW i \in 1..Len(Archive) PROVE new[n + i] = ArchiveEntries[i]
    <3>1. n + i \in 1..Len(tbl)
      BY <1>2, <1>3, ArchiveType DEF ArchiveAt
    <3> QED BY <1>2, <1>3, <3>1 DEF ArchiveAt
  <2> QED BY <2>1, <2>2 DEF ArchiveAt
<1>6. ForkRoutes(new) = ForkRoutes(tbl)
  <2>1. \A i \in 1..n : new[i] = tbl[i]
    BY <1>2, <1>3 DEF SplitAt
  <2>2. {new[i] : i \in 1..n} = {tbl[i] : i \in 1..n}
    BY <2>1
  <2> QED BY <1>2, <1>3, <1>4, <2>2, ForkRoutesAre
<1> QED BY <1>3, <1>4, <1>5, <1>6 DEF Kept, e, new

LEMMA NoCallType == NoCall \in Call /\ \A top \in Nat : CallOK(NoCall, top)
  BY EmptySeq DEF NoCall, Call, Pc, CallOK

LEMMA InitType == Init => TypeInv
<1> SUFFICES ASSUME Init PROVE TypeInv
  OBVIOUS
<1>1. /\ versions = <<[outputs |-> {}, routes |-> ArchiveEntries]>>
      /\ versions[1].routes = ArchiveEntries /\ DOMAIN versions = 1..1
      /\ Len(versions) = 1
  BY DEF Init
<1>2. versions \in Seq(Version)
  BY <1>1, ArchiveType DEF Version
<1>3. Tables
  BY <1>1, ArchiveKept DEF Init, Tables
<1>4. TypeOK
  BY <1>1, <1>2, NoCallType, ArchiveType DEF Init, TypeOK
<1> QED BY <1>1, <1>3, <1>4, NoCallType DEF Init, TypeInv

\* A step of one caller, which commits nothing.
LEMMA CallStep ==
    ASSUME TypeInv, NEW c \in Callers,
           UNCHANGED <<routes, groupVars>>, outputs' \subseteq Forks,
           calls' \in [Callers -> Call],
           \A d \in Callers : d # c => calls'[d] = calls[d],
           CallOK(calls'[c], Len(versions))
    PROVE  TypeInv'
  BY DEF TypeInv, TypeOK, Tables, groupVars

LEMMA RecordStep ==
    ASSUME TypeInv, NEW c \in Callers, NEW k \in Call, CallOK(k, Len(versions)),
           calls' = [calls EXCEPT ![c] = k],
           UNCHANGED <<routes, groupVars>>, outputs' \subseteq Forks
    PROVE  TypeInv'
  BY CallStep DEF TypeInv, TypeOK

LEMMA GotoStep ==
    ASSUME TypeInv, NEW c \in Callers, NEW pc \in Pc, Goto(c, pc), ~At(c, "idle"),
           UNCHANGED <<routes, groupVars>>, outputs' \subseteq Forks,
           pc \notin {"idle", "versions", "deploy", "await", "patch"}
    PROVE  TypeInv'
<1>1. calls[c] \in Call /\ CallOK(calls[c], Len(versions))
  BY DEF TypeInv, TypeOK
<1>2. calls' = [calls EXCEPT ![c] = [calls[c] EXCEPT !.pc = pc]]
  BY <1>1 DEF Goto, TypeInv, TypeOK
<1>3. [calls[c] EXCEPT !.pc = pc] \in Call
  BY <1>1 DEF Call
<1>4. CallOK([calls[c] EXCEPT !.pc = pc], Len(versions))
  BY <1>1 DEF Call, CallOK, At
<1> QED BY <1>2, <1>3, <1>4, CallStep DEF TypeInv, TypeOK

LEMMA VersionsType ==
    ASSUME TypeOK
    PROVE  /\ Len(versions) \in Nat /\ DOMAIN versions = 1..Len(versions)
           /\ Working \in Version
           /\ Append(versions, Working) \in Seq(Version)
           /\ Len(Append(versions, Working)) = Len(versions) + 1
           /\ \A v \in DOMAIN versions : Append(versions, Working)[v] = versions[v]
           /\ Append(versions, Working)[Len(versions) + 1] = Working
<1>1. Working \in Version /\ versions \in Seq(Version)
  BY DEF TypeOK, Working, Version
<1>2. Len(versions) \in Nat /\ DOMAIN versions = 1..Len(versions)
  BY <1>1, LenProperties
<1> QED BY <1>1, <1>2, AppendProperties

\* The version to fall back on is either of the two, or none.
LEMMA ReadIs ==
    ASSUME TypeInv, NEW c \in Callers, ReadVersions(c)
    PROVE  \E p \in {{}, {config}, {worker}} :
             calls' = [calls EXCEPT ![c] = [calls[c] EXCEPT !.pc = "list",
                                            !.prev = p, !.before = config]]
<1>0. calls[c] \in Call /\ CallOK(calls[c], Len(versions)) /\ TypeOK
  BY DEF TypeInv, TypeOK
<1>1. CASE calls' = [calls EXCEPT ![c].pc = "list", ![c].before = config]
  <2>1. calls[c].prev = {}
    BY <1>0 DEF ReadVersions, CallOK, At
  <2>2. calls' = [calls EXCEPT ![c] = [calls[c] EXCEPT !.pc = "list",
                                       !.prev = {}, !.before = config]]
    BY <1>0, <1>1, <2>1 DEF TypeOK, Call
  <2> QED BY <2>2
<1>2. ASSUME NEW v \in {config, worker},
             calls' = [calls EXCEPT ![c].pc = "list",
                                    ![c].prev = {v}, ![c].before = config]
      PROVE  \E p \in {{}, {config}, {worker}} :
               calls' = [calls EXCEPT ![c] = [calls[c] EXCEPT !.pc = "list",
                                              !.prev = p, !.before = config]]
  <2>1. calls' = [calls EXCEPT ![c] = [calls[c] EXCEPT !.pc = "list",
                                       !.prev = {v}, !.before = config]]
    BY <1>0, <1>2 DEF TypeOK, Call
  <2> QED BY <2>1
<1> QED BY <1>1, <1>2 DEF ReadVersions

LEMMA StepType == ASSUME TypeInv, NEW c \in Callers, Step(c) PROVE TypeInv'
<1> USE DEF workingVars
<1>0. /\ calls[c] \in Call /\ CallOK(calls[c], Len(versions))
      /\ Len(versions) \in Nat /\ DOMAIN versions = 1..Len(versions)
      /\ config \in 1..Len(versions) /\ worker \in 1..Len(versions)
      /\ outputs \subseteq Forks /\ TypeOK
  BY VersionsType DEF TypeInv, TypeOK
<1>1. CASE ReadVersions(c)
  <2>1. PICK p \in {{}, {config}, {worker}} :
          calls' = [calls EXCEPT ![c] = [calls[c] EXCEPT !.pc = "list",
                                         !.prev = p, !.before = config]]
    BY <1>1, ReadIs
  <2>2. p \subseteq 1..Len(versions) /\ p \subseteq Nat /\ config \in Nat
    BY <1>0
  <2> DEFINE k == [calls[c] EXCEPT !.pc = "list", !.prev = p, !.before = config]
  <2>3. k \in Call
    BY <1>0, <2>2 DEF Call, Pc
  <2>4. CallOK(k, Len(versions))
    BY <1>0, <1>1, <2>2 DEF ReadVersions, Call, CallOK, At
  <2> QED BY <1>0, <1>1, <2>1, <2>3, <2>4, RecordStep DEF ReadVersions
<1>2. CASE ListOutputs(c)
  <2>0. Ids(calls[c].want) \subseteq Forks
    BY <1>0 DEF Call, Ids, Routes
  <2>1. calls' \in [Callers -> Call]
    BY <1>0, <1>2, <2>0 DEF ListOutputs, TypeOK, Call, Pc
  <2>2. \A d \in Callers : d # c => calls'[d] = calls[d]
    BY <1>0, <1>2 DEF ListOutputs, TypeOK
  <2>3. CallOK(calls'[c], Len(versions))
    BY <1>0, <1>2 DEF ListOutputs, TypeOK, Call, CallOK, At
  <2> QED BY <1>0, <1>2, <2>1, <2>2, <2>3, CallStep DEF ListOutputs
<1>3. CASE Upsert(c)
  <2>1. CASE Goto(c, "rollback") /\ UNCHANGED outputs
    BY <1>0, <1>3, <2>1, GotoStep DEF Upsert, At, Pc
  <2>2. ASSUME NEW f \in calls[c].todo, outputs' = outputs \cup {f},
               calls' = [calls EXCEPT ![c].todo = @ \ {f},
                 ![c].pc = IF calls[c].todo = {f} THEN "getroutes" ELSE "upsert"]
        PROVE TypeInv'
    <3>1. calls' \in [Callers -> Call] /\ outputs' \subseteq Forks
      BY <1>0, <2>2 DEF TypeOK, Call, Pc
    <3>2. \A d \in Callers : d # c => calls'[d] = calls[d]
      BY <1>0, <2>2 DEF TypeOK
    <3>3. CallOK(calls'[c], Len(versions))
      BY <1>0, <1>3, <2>2 DEF Upsert, TypeOK, Call, CallOK, At
    <3> QED BY <1>0, <1>3, <3>1, <3>2, <3>3, CallStep DEF Upsert
  <2> QED BY <1>3, <2>1, <2>2 DEF Upsert
<1>4. CASE GetRoutes(c)
  <2>1. calls' \in [Callers -> Call]
    BY <1>0, <1>4 DEF GetRoutes, TypeOK, Call, Pc
  <2>2. \A d \in Callers : d # c => calls'[d] = calls[d]
    BY <1>0, <1>4 DEF GetRoutes, TypeOK
  <2>3. CallOK(calls'[c], Len(versions))
    BY <1>0, <1>4 DEF GetRoutes, TypeOK, Call, CallOK, At, TypeInv, Tables
  <2> QED BY <1>0, <1>4, <2>1, <2>2, <2>3, CallStep DEF GetRoutes
<1>5. CASE PatchRoutes(c)
  <2>1. CASE Goto(c, "rollback") /\ UNCHANGED routes
    BY <1>0, <1>5, <2>1, GotoStep DEF PatchRoutes, At, Pc
  <2>2. CASE routes' = Spliced(calls[c].want, calls[c].doc) /\ Goto(c, "stale")
    <3>1. routes' \in Seq(Entry) /\ Kept(routes')
      BY <1>0, <1>5, <2>2, SpliceKeeps DEF PatchRoutes, At, Call, CallOK
    <3>2. calls' \in [Callers -> Call]
      BY <1>0, <2>2 DEF Goto, TypeOK, Call, Pc
    <3>3. \A d \in Callers : d # c => calls'[d] = calls[d]
      BY <1>0, <2>2 DEF Goto, TypeOK
    <3>4. CallOK(calls'[c], Len(versions))
      BY <1>0, <1>5, <2>2 DEF PatchRoutes, Goto, TypeOK, Call, CallOK, At
    <3> QED BY <1>5, <3>1, <3>2, <3>3, <3>4
            DEF PatchRoutes, TypeInv, TypeOK, Tables, groupVars
  <2> QED BY <1>5, <2>1, <2>2 DEF PatchRoutes
<1>6. CASE ListStale(c)
  <2>1. calls' \in [Callers -> Call]
    BY <1>0, <1>6 DEF ListStale, TypeOK, Call, Pc
  <2>2. \A d \in Callers : d # c => calls'[d] = calls[d]
    BY <1>0, <1>6 DEF ListStale, TypeOK
  <2>3. CallOK(calls'[c], Len(versions))
    BY <1>0, <1>6 DEF ListStale, TypeOK, Call, CallOK, At
  <2> QED BY <1>0, <1>6, <2>1, <2>2, <2>3, CallStep DEF ListStale
<1>7. CASE DeleteStale(c)
  <2>1. CASE Goto(c, "rollback") /\ UNCHANGED outputs
    BY <1>0, <1>7, <2>1, GotoStep DEF DeleteStale, At, Pc
  <2>2. ASSUME NEW f \in calls[c].todo, outputs' = outputs \ {f},
               calls' = [calls EXCEPT ![c].todo = @ \ {f},
                 ![c].pc = IF calls[c].todo = {f} THEN "commit" ELSE "delete"]
        PROVE TypeInv'
    <3>1. calls' \in [Callers -> Call] /\ outputs' \subseteq Forks
      BY <1>0, <2>2 DEF TypeOK, Call, Pc
    <3>2. \A d \in Callers : d # c => calls'[d] = calls[d]
      BY <1>0, <2>2 DEF TypeOK
    <3>3. CallOK(calls'[c], Len(versions))
      BY <1>0, <1>7, <2>2 DEF DeleteStale, TypeOK, Call, CallOK, At
    <3> QED BY <1>0, <1>7, <3>1, <3>2, <3>3, CallStep DEF DeleteStale
  <2> QED BY <1>7, <2>1, <2>2 DEF DeleteStale
<1>8. CASE Commit(c)
  <2>1. CASE Goto(c, "rollback") /\ UNCHANGED versions
    BY <1>0, <1>8, <2>1, GotoStep DEF Commit, At, Pc, groupVars
  <2>2. CASE /\ versions' = Append(versions, Working)
             /\ calls' = [calls EXCEPT ![c].commit = Len(versions) + 1,
                                       ![c].pc = "deploy"]
    <3>1. /\ versions' \in Seq(Version) /\ Len(versions') = Len(versions) + 1
          /\ DOMAIN versions' = 1..(Len(versions) + 1)
          /\ \A v \in DOMAIN versions : versions'[v] = versions[v]
          /\ versions'[Len(versions) + 1] = Working
      BY <1>0, <2>2, VersionsType, LenProperties
    <3>2. calls' \in [Callers -> Call]
      <4>1. calls' = [calls EXCEPT ![c] = [calls[c] EXCEPT
                        !.commit = Len(versions) + 1, !.pc = "deploy"]]
        BY <1>0, <2>2 DEF TypeOK, Call
      <4>2. [calls[c] EXCEPT !.commit = Len(versions) + 1, !.pc = "deploy"] \in Call
        <5>1. calls[c] \in Call /\ Len(versions) + 1 \in Nat
          BY <1>0
        <5> QED BY <5>1 DEF Call, Pc
      <4> QED BY <1>0, <4>1, <4>2 DEF TypeOK
    <3>3. CallOK(calls'[c], Len(versions'))
      BY <1>0, <1>8, <2>2, <3>1 DEF Commit, TypeOK, Call, CallOK, At
    <3>4. ASSUME NEW d \in Callers, d # c PROVE CallOK(calls'[d], Len(versions'))
      BY <1>0, <2>2, <3>1, <3>4 DEF TypeInv, TypeOK, CallOK
    <3>5. Tables'
      BY <1>0, <1>8, <3>1 DEF Commit, TypeInv, Tables, Working
    <3>6. TypeOK'
      BY <1>0, <1>8, <3>1, <3>2 DEF Commit, TypeOK
    <3> QED BY <3>3, <3>4, <3>5, <3>6 DEF TypeInv
  <2> QED BY <1>8, <2>1, <2>2 DEF Commit
<1>9. CASE Deploy(c)
  <2>1. calls' \in [Callers -> Call]
    BY <1>0, <1>9 DEF Deploy, Goto, TypeOK, Call, Pc
  <2>2. \A d \in Callers : d # c => calls'[d] = calls[d]
    BY <1>0, <1>9 DEF Deploy, Goto, TypeOK
  <2>3. CallOK(calls'[c], Len(versions)) /\ config' \in DOMAIN versions
    BY <1>0, <1>9 DEF Deploy, Goto, TypeOK, Call, CallOK, At
  <2> QED BY <1>9, <2>1, <2>2, <2>3 DEF Deploy, TypeInv, TypeOK, Tables
<1>10. CASE Poll(c)
  <2>1. PICK pc \in {"ok", "rollback", "await"}, n \in Nat :
          calls' = [calls EXCEPT ![c] = [calls[c] EXCEPT !.pc = pc, !.polls = n]]
    <3> DEFINE pc == CASE calls[c].commit \in {config, worker} -> "ok"
                       [] calls[c].polls >= MaxPolls -> "rollback"
                       [] OTHER -> "await"
               n == IF calls[c].polls < MaxPolls THEN calls[c].polls + 1
                    ELSE calls[c].polls
    <3>0. calls' = [calls EXCEPT ![c].pc = pc,
                      ![c].polls = IF @ < MaxPolls THEN @ + 1 ELSE @]
      BY <1>10 DEF Poll
    <3>1. calls' = [calls EXCEPT ![c] = [calls[c] EXCEPT !.pc = pc, !.polls = n]]
      <4> HIDE DEF pc
      <4> QED BY <1>0, <3>0 DEF TypeOK, Call
    <3>2. pc \in {"ok", "rollback", "await"} /\ n \in Nat
      BY <1>0 DEF Call
    <3> HIDE DEF pc, n
    <3> QED BY <3>1, <3>2
  <2> DEFINE k == [calls[c] EXCEPT !.pc = pc, !.polls = n]
  <2>2. k \in Call /\ CallOK(k, Len(versions))
    BY <1>0, <1>10, <2>1 DEF Poll, Call, Pc, CallOK, At
  <2> QED BY <1>0, <1>10, <2>1, <2>2, RecordStep DEF Poll
<1>11. CASE Rollback(c)
  <2>1. config' \in DOMAIN versions
    <3>1. calls[c].prev \subseteq DOMAIN versions
      BY <1>0 DEF CallOK
    <3>2. (\E v \in calls[c].prev : config' = v) \/ config' = config
      BY <1>11 DEF Rollback
    <3> QED BY <1>0, <3>1, <3>2
  <2>2. PICK b \in BOOLEAN :
          calls' = [calls EXCEPT ![c] = [calls[c] EXCEPT !.pc = "raised",
                                                         !.redeployed = b]]
    <3>1. CASE calls' = [calls EXCEPT ![c].pc = "raised", ![c].redeployed = TRUE]
      BY <1>0, <3>1 DEF TypeOK, Call
    <3>2. CASE Goto(c, "raised")
      <4>1. [calls[c] EXCEPT !.pc = "raised"] =
              [calls[c] EXCEPT !.pc = "raised", !.redeployed = calls[c].redeployed]
        BY <1>0 DEF Call
      <4>2. calls' = [calls EXCEPT ![c] = [calls[c] EXCEPT !.pc = "raised"]]
        BY <1>0, <3>2 DEF Goto, TypeOK, Call
      <4>3. calls[c].redeployed \in BOOLEAN
        BY <1>0 DEF Call
      <4> QED BY <4>1, <4>2, <4>3
    <3> QED BY <1>11, <3>1, <3>2 DEF Rollback
  <2> DEFINE k == [calls[c] EXCEPT !.pc = "raised", !.redeployed = b]
  <2>3. k \in Call /\ CallOK(k, Len(versions))
    BY <1>0, <1>11 DEF Rollback, Call, Pc, CallOK, At
  <2>4. /\ calls' \in [Callers -> Call]
        /\ \A d \in Callers : CallOK(calls'[d], Len(versions))
    BY <1>0, <2>2, <2>3 DEF TypeInv, TypeOK
  <2> QED BY <1>11, <2>1, <2>4 DEF Rollback, TypeInv, TypeOK, Tables
<1>12. CASE Return(c)
  BY <1>0, <1>12, CallStep, NoCallType DEF Return, TypeOK
<1> QED BY <1>1, <1>2, <1>3, <1>4, <1>5, <1>6, <1>7, <1>8, <1>9, <1>10, <1>11, <1>12
        DEF Step

LEMMA NextType == TypeInv /\ [Next]_vars => TypeInv'
<1> SUFFICES ASSUME TypeInv, [Next]_vars PROVE TypeInv'
  OBVIOUS
<1> USE DEF workingVars
<1>0. /\ TypeOK /\ Len(versions) \in Nat /\ DOMAIN versions = 1..Len(versions)
      /\ \A c \in Callers : calls[c] \in Call /\ CallOK(calls[c], Len(versions))
  BY VersionsType DEF TypeInv, TypeOK
<1>1. ASSUME NEW c \in Callers, NEW w \in Wants, Login(c, w) PROVE TypeInv'
  <2> DEFINE k == [NoCall EXCEPT !.pc = "versions", !.want = w]
  <2>1. k \in Call /\ CallOK(k, Len(versions))
    <3>1. w \subseteq Routes
      BY WantAssumption
    <3>2. k \in Call /\ k.pc = "versions" /\ k.want = w
          /\ k.prev = NoCall.prev /\ k.commit = NoCall.commit
      BY <3>1, NoCallType DEF Call, Pc
    <3>3. NoCall.prev = {} /\ NoCall.commit = 0
      BY DEF NoCall
    <3> HIDE DEF k
    <3> QED BY <1>0, <3>2, <3>3 DEF CallOK
  <2> QED BY <1>0, <1>1, <2>1, CallStep DEF Login, TypeOK
<1>2. ASSUME NEW c \in Callers, Step(c) PROVE TypeInv'
  BY <1>2, StepType
<1>3. ASSUME NEW c \in Callers, LoginFails(c) PROVE TypeInv'
  BY <1>0, <1>3, GotoStep DEF LoginFails, At, Pc, TypeOK
<1>4. ASSUME NEW c \in Callers, PollFails(c) PROVE TypeInv'
  <2>1. PICK pc \in {"rollback", "await"}, n \in Nat :
          calls' = [calls EXCEPT ![c] = [calls[c] EXCEPT !.pc = pc, !.polls = n]]
    <3> DEFINE pc == IF calls[c].polls >= MaxPolls THEN "rollback" ELSE "await"
               n == IF calls[c].polls < MaxPolls THEN calls[c].polls + 1
                    ELSE calls[c].polls
    <3>1. calls' = [calls EXCEPT ![c] = [calls[c] EXCEPT !.pc = pc, !.polls = n]]
      BY <1>0, <1>4 DEF PollFails, TypeOK, Call
    <3>2. pc \in {"rollback", "await"} /\ n \in Nat
      BY <1>0 DEF Call
    <3> HIDE DEF pc, n
    <3> QED BY <3>1, <3>2
  <2> DEFINE k == [calls[c] EXCEPT !.pc = pc, !.polls = n]
  <2>2. k \in Call /\ CallOK(k, Len(versions))
    BY <1>0, <1>4, <2>1 DEF PollFails, Call, Pc, CallOK, At
  <2> QED BY <1>0, <1>4, <2>1, <2>2, RecordStep DEF PollFails, TypeOK
<1>5. ASSUME NEW c \in Callers, CallFails(c) PROVE TypeInv'
  BY <1>0, <1>5, GotoStep DEF CallFails, At, Pc, TypeOK
<1>6. CASE Fetch
  BY <1>0, <1>6 DEF Fetch, TypeInv, TypeOK, Tables
<1>7. ASSUME NEW o \in Others, Edit(o) PROVE TypeInv'
  <2>1. routes' \in Seq(Entry) /\ Kept(routes')
    BY <1>0, <1>7, EditKeeps DEF Edit, TypeInv, TypeOK, Tables
  <2> QED BY <1>7, <2>1 DEF Edit, TypeInv, TypeOK, Tables, groupVars
<1>8. CASE Abort
  <2>1. calls' \in [Callers -> Call]
    BY <1>8, NoCallType DEF Abort
  <2>2. \A c \in Callers : CallOK(calls'[c], Len(versions))
    BY <1>0, <1>8, NoCallType DEF Abort
  <2> QED BY <1>8, <2>1, <2>2 DEF Abort, TypeInv, TypeOK, Tables, groupVars
<1>9. CASE UNCHANGED vars
  BY <1>9 DEF vars, groupVars, TypeInv, TypeOK, Tables
<1> QED BY <1>1, <1>2, <1>3, <1>4, <1>5, <1>6, <1>7, <1>8, <1>9 DEF Next, Rest

\* Every state is of the types that the model gives it.
THEOREM TypeCorrect == Spec => []TypeOK
<1>1. TypeInv => TypeOK
  BY DEF TypeInv
<1> QED BY <1>1, InitType, NextType, PTL DEF Spec

\* What Kept says of a table is what OthersKept asks of it.
LEMMA KeptMeans ==
    ASSUME NEW tbl \in Seq(Entry), Kept(tbl)
    PROVE  \E n \in 0..Len(tbl) :
             /\ \A i \in 1..n : IsFork(tbl[i])
             /\ \A i \in (n + 1)..Len(tbl) : IsOther(tbl[i])
             /\ IsPrefix(ArchiveEntries, SubSeq(tbl, n + 1, Len(tbl)))
<1>1. PICK n \in Nat : SplitAt(tbl, n) /\ ArchiveAt(tbl, n)
  BY DEF Kept
<1> DEFINE l == Len(Archive)
           rest == SubSeq(tbl, n + 1, Len(tbl))
<1>2. Len(tbl) \in Nat /\ n <= Len(tbl) /\ l \in Nat /\ l <= Len(tbl) - n
  BY <1>1, LenProperties, ArchiveType DEF SplitAt, ArchiveAt
<1>3. /\ rest \in Seq(Entry) /\ Len(rest) = Len(tbl) - n
      /\ \A i \in 1..(Len(tbl) - n) : rest[i] = tbl[n + i]
  BY <1>2
<1> HIDE DEF rest
<1>4. \A i \in 1..l : rest[i] = ArchiveEntries[i]
  BY <1>1, <1>2, <1>3 DEF ArchiveAt
<1>5. SubSeq(ArchiveEntries, 1, l) = SubSeq(rest, 1, l)
  BY <1>2, <1>3, <1>4, ArchiveType
<1>6. IsPrefix(ArchiveEntries, rest)
  BY <1>2, <1>3, <1>5, ArchiveType DEF IsPrefix
<1> QED BY <1>1, <1>2, <1>6 DEF SplitAt, rest

\* However calls interleave, fail or are cut short, the archive routes are all
\* kept, in order, behind the fork routes: in the table and in every commit.
THEOREM OthersKeptHolds == Spec => []OthersKept
<1>1. TypeInv => OthersKept
  <2> SUFFICES ASSUME TypeInv,
                      NEW tbl \in {routes} \cup {versions[v].routes : v \in DOMAIN versions}
               PROVE  \E n \in 0..Len(tbl) :
                        /\ \A i \in 1..n : IsFork(tbl[i])
                        /\ \A i \in (n + 1)..Len(tbl) : IsOther(tbl[i])
                        /\ IsPrefix(ArchiveEntries, SubSeq(tbl, n + 1, Len(tbl)))
    BY DEF OthersKept
  <2>1. Kept(tbl)
    BY DEF TypeInv, Tables
  <2>2. tbl \in Seq(Entry)
    <3>1. routes \in Seq(Entry) /\ versions \in Seq(Version)
      BY DEF TypeInv, TypeOK
    <3>2. \A v \in DOMAIN versions : versions[v] \in Version
      BY <3>1
    <3> QED BY <3>1, <3>2 DEF Version
  <2> QED BY <2>1, <2>2, KeptMeans
<1> QED BY <1>1, InitType, NextType, PTL DEF Spec

-----------------------------------------------------------------------------
(* CriblAdmin implements Pipeline: what each step is to the contract *)

Jobs == [c \in Callers |-> PipeJob(calls[c])]
pipeView == <<ForkRoutes(routes), Held(config), Held(worker), Jobs>>

LEMMA IdleIs == PipeJob(NoCall) = Pipe!IdleJob
<1>1. {Held(v) : v \in {}} = {}
  OBVIOUS
<1> QED BY <1>1 DEF PipeJob, NoCall, PipePc, Pipe!IdleJob

\* What the contract sees of a leader that keeps its versions.
LEMMA SameView ==
    ASSUME UNCHANGED versions
    PROVE  /\ \A v : Held(v)' = Held(v')
           /\ UNCHANGED routes => UNCHANGED ForkRoutes(routes)
           /\ UNCHANGED config => UNCHANGED Held(config)
           /\ UNCHANGED worker => UNCHANGED Held(worker)
  BY DEF Held

\* A step of one caller that keeps the versions.
LEMMA JobStep ==
    ASSUME TypeInv, TypeInv', NEW c \in Callers, UNCHANGED versions,
           \A d \in Callers : d # c => calls'[d] = calls[d]
    PROVE  Jobs' = [Jobs EXCEPT ![c] = PipeJob(calls'[c])]
<1>1. \A k : PipeJob(k)' = PipeJob(k')
  BY DEF PipeJob, Held
<1> QED BY <1>1 DEF Jobs, PipeJob, Held

\* A step that changes nothing of a call but where it is, past the login.
LEMMA Advance ==
    ASSUME TypeInv, TypeInv', NEW c \in Callers, UNCHANGED versions,
           \A d \in Callers : d # c => calls'[d] = calls[d],
           calls[c].pc # "versions", calls'[c].pc # "versions",
           calls'[c].want = calls[c].want, calls'[c].prev = calls[c].prev,
           calls'[c].commit = calls[c].commit
    PROVE  Jobs' = [Jobs EXCEPT ![c].pc = PipePc(calls'[c].pc)]
<1>1. Jobs' = [Jobs EXCEPT ![c] = PipeJob(calls'[c])]
  BY JobStep
<1>2. PipeJob(calls'[c]) = [PipeJob(calls[c]) EXCEPT !.pc = PipePc(calls'[c].pc)]
  <2>1. {Held(v) : v \in calls'[c].prev} = {Held(v) : v \in calls[c].prev}
    OBVIOUS
  <2> DEFINE w == calls[c].want
             p == {Held(v) : v \in calls[c].prev}
             m == IF calls[c].commit = 0 THEN {} ELSE Held(calls[c].commit)
             old == PipePc(calls[c].pc)
             new == PipePc(calls'[c].pc)
  <2>2. PipeJob(calls'[c]) = [pc |-> new, want |-> w, prev |-> p, commit |-> m]
    BY <2>1 DEF PipeJob
  <2>3. PipeJob(calls[c]) = [pc |-> old, want |-> w, prev |-> p, commit |-> m]
    BY DEF PipeJob
  <2> HIDE DEF w, p, m, old, new
  <2>4. PipeJob(calls'[c]) = [PipeJob(calls[c]) EXCEPT !.pc = new]
    BY <2>2, <2>3
  <2> QED BY <2>4 DEF new
<1>3. Jobs[c] = PipeJob(calls[c])
  BY DEF Jobs
<1> QED BY <1>1, <1>2, <1>3 DEF Jobs

\* ... and that the contract does not tell apart.
LEMMA Stays ==
    ASSUME TypeInv, TypeInv', NEW c \in Callers, UNCHANGED versions,
           \A d \in Callers : d # c => calls'[d] = calls[d],
           calls[c].pc # "versions", calls'[c].pc # "versions",
           calls'[c].want = calls[c].want, calls'[c].prev = calls[c].prev,
           calls'[c].commit = calls[c].commit,
           PipePc(calls'[c].pc) = PipePc(calls[c].pc)
    PROVE  UNCHANGED Jobs
<1>1. Jobs' = [Jobs EXCEPT ![c].pc = PipePc(calls'[c].pc)]
  BY Advance
<1>2. Jobs[c].pc = PipePc(calls[c].pc) /\ Jobs[c] = PipeJob(calls[c])
  BY DEF Jobs, PipeJob
<1>3. [PipeJob(calls[c]) EXCEPT !.pc = PipePc(calls[c].pc)] = PipeJob(calls[c])
  BY DEF PipeJob
<1> QED BY <1>1, <1>2, <1>3 DEF Jobs

\* The contract's view of the type invariant.
LEMMA JobsAre ==
    ASSUME TypeInv, NEW c \in Callers
    PROVE  /\ calls[c] \in Call /\ CallOK(calls[c], Len(versions))
           /\ Jobs[c] = PipeJob(calls[c]) /\ Jobs[c].pc = PipePc(calls[c].pc)
           /\ calls[c].pc # "versions" => Jobs[c].want = calls[c].want
           /\ Jobs[c].prev = {Held(v) : v \in calls[c].prev}
           /\ calls[c].commit # 0 => Jobs[c].commit = Held(calls[c].commit)
           /\ Jobs[c] = Pipe!IdleJob \/ calls[c].pc \notin {"idle", "versions"}
<1>1. /\ calls[c] \in Call /\ CallOK(calls[c], Len(versions))
      /\ Jobs[c] = PipeJob(calls[c])
  BY DEF TypeInv, TypeOK, Jobs
<1>2. CASE calls[c].pc = "idle"
  BY <1>1, <1>2, IdleIs DEF CallOK, PipeJob
<1>3. CASE calls[c].pc = "versions"
  <2>1. calls[c].prev = {} /\ calls[c].commit = 0
    BY <1>1, <1>3 DEF CallOK
  <2>2. {Held(v) : v \in calls[c].prev} = {}
    BY <2>1
  <2>3. PipeJob(calls[c]) = Pipe!IdleJob
    BY <1>3, <2>1, <2>2 DEF PipeJob, PipePc, Pipe!IdleJob
  <2> QED BY <1>1, <1>3, <2>3 DEF PipeJob
<1>4. CASE calls[c].pc \notin {"idle", "versions"}
  BY <1>1, <1>4 DEF PipeJob
<1> QED BY <1>2, <1>3, <1>4

LEMMA InitRefines == Init => Pipe!PipeInit
<1> SUFFICES ASSUME Init PROVE Pipe!PipeInit
  OBVIOUS
<1>1. ForkRoutes(ArchiveEntries) = {}
  <2>1. SplitAt(ArchiveEntries, 0) /\ ArchiveEntries \in Seq(Entry)
    BY ArchiveType DEF SplitAt
  <2>2. ForkRoutes(ArchiveEntries) =
          {<<e.id, e.filter>> : e \in {ArchiveEntries[i] : i \in 1..0}}
    BY <2>1, ForkRoutesAre
  <2>3. {ArchiveEntries[i] : i \in 1..0} = {}
    OBVIOUS
  <2> QED BY <2>2, <2>3
<1>2. Held(1) = {}
  BY <1>1 DEF Init, Held
<1>3. [c \in Callers |-> PipeJob(calls[c])] = [c \in Callers |-> Pipe!IdleJob]
  BY IdleIs DEF Init
<1> QED BY <1>1, <1>2, <1>3 DEF Init, Pipe!PipeInit

\* What a step of a caller is to the contract.
LEMMA StepRefines ==
    ASSUME TypeInv, TypeInv', NEW c \in Callers, Step(c)
    PROVE  UNCHANGED pipeView \/ Pipe!PipeNext
<1> USE DEF workingVars, groupVars
<1>0. /\ calls[c] \in Call /\ CallOK(calls[c], Len(versions))
      /\ calls \in [Callers -> Call] /\ TypeOK
      /\ Len(versions) \in Nat /\ DOMAIN versions = 1..Len(versions)
      /\ config \in 1..Len(versions) /\ worker \in 1..Len(versions)
  BY VersionsType DEF TypeInv, TypeOK
<1>1. CASE ReadVersions(c)
  <2>1. /\ UNCHANGED <<ForkRoutes(routes), Held(config), Held(worker), versions>>
        /\ \A d \in Callers : d # c => calls'[d] = calls[d]
        /\ calls'[c].pc = "list" /\ calls'[c].want = calls[c].want
        /\ calls[c].pc = "versions" /\ calls[c].prev = {} /\ calls[c].commit = 0
        /\ calls'[c].commit = 0
        /\ calls[c].want \in Pipe!Configs
    BY <1>0, <1>1, SameView, WantAssumption DEF ReadVersions, CallOK, At, Call, Pipe!Configs
  <2>2. \E p \in {{}, {config}, {worker}} : calls'[c].prev = p
    <3>1. PICK p \in {{}, {config}, {worker}} :
            calls' = [calls EXCEPT ![c] = [calls[c] EXCEPT !.pc = "list",
                                           !.prev = p, !.before = config]]
      BY <1>1, ReadIs
    <3>2. calls'[c].prev = p
      BY <1>0, <3>1 DEF Call
    <3> QED BY <3>2
  <2>3. PICK q \in {{}, {Held(config)}, {Held(worker)}} :
          {Held(v) : v \in calls'[c].prev} = q
    BY <2>2
  <2>4. PipeJob(calls'[c]) = [pc |-> "begun", want |-> calls[c].want,
                               prev |-> q, commit |-> {}]
    BY <2>1, <2>3 DEF PipeJob, PipePc
  <2>5. Jobs' = [Jobs EXCEPT ![c] = [pc |-> "begun", want |-> calls[c].want,
                                     prev |-> q, commit |-> {}]]
    BY <2>1, <2>4, JobStep
  <2>6. \E f \in BOOLEAN : Pipe!Begin(c, calls[c].want, f)
    <3>1. Jobs[c].pc = "idle"
      BY <2>1, JobsAre DEF PipePc
    <3>2. \E f \in BOOLEAN :
            q \in (IF f THEN {{}} ELSE {{Held(config)}, {Held(worker)}})
      BY <2>3
    <3> QED BY <2>1, <2>5, <3>1, <3>2
            DEF Pipe!Begin, Pipe!At, Pipe!leaderVars, Jobs
  <2> QED BY <2>1, <2>6, JobsAre DEF Pipe!PipeNext, Pipe!Begin
<1>2. CASE ListOutputs(c) \/ GetRoutes(c) \/ ListStale(c)
  <2>1. UNCHANGED <<ForkRoutes(routes), Held(config), Held(worker), versions>>
    BY <1>2, SameView DEF ListOutputs, GetRoutes, ListStale
  <2>2. /\ \A d \in Callers : d # c => calls'[d] = calls[d]
        /\ calls'[c].want = calls[c].want /\ calls'[c].prev = calls[c].prev
        /\ calls'[c].commit = calls[c].commit
    BY <1>0, <1>2 DEF ListOutputs, GetRoutes, ListStale, Call
  <2>3. /\ calls[c].pc # "versions" /\ calls'[c].pc # "versions"
        /\ PipePc(calls'[c].pc) = PipePc(calls[c].pc)
    BY <1>0, <1>2 DEF ListOutputs, GetRoutes, ListStale, Call, At, PipePc
  <2> QED BY <2>1, <2>2, <2>3, Stays DEF pipeView
<1>3. CASE Upsert(c) \/ DeleteStale(c)
  <2>1. UNCHANGED <<ForkRoutes(routes), Held(config), Held(worker), versions>>
    BY <1>3, SameView DEF Upsert, DeleteStale
  <2>0. \/ calls' = [calls EXCEPT ![c].pc = "rollback"]
        \/ /\ \E f : calls' = [calls EXCEPT ![c].todo = @ \ {f},
               ![c].pc = IF calls[c].todo = {f} THEN "getroutes" ELSE "upsert"]
           /\ calls[c].pc = "upsert"
        \/ /\ \E f : calls' = [calls EXCEPT ![c].todo = @ \ {f},
               ![c].pc = IF calls[c].todo = {f} THEN "commit" ELSE "delete"]
           /\ calls[c].pc = "delete"
    BY <1>3, Zenon DEF Upsert, DeleteStale, Goto, At
  <2>2. /\ \A d \in Callers : d # c => calls'[d] = calls[d]
        /\ calls'[c].want = calls[c].want /\ calls'[c].prev = calls[c].prev
        /\ calls'[c].commit = calls[c].commit
    <3>1. CASE calls' = [calls EXCEPT ![c].pc = "rollback"]
      BY <1>0, <3>1 DEF Call
    <3>2. ASSUME NEW f, NEW pc, calls' = [calls EXCEPT ![c].todo = @ \ {f}, ![c].pc = pc]
          PROVE  /\ \A d \in Callers : d # c => calls'[d] = calls[d]
                 /\ calls'[c].want = calls[c].want /\ calls'[c].prev = calls[c].prev
                 /\ calls'[c].commit = calls[c].commit
      BY <1>0, <3>2 DEF Call
    <3> QED BY <2>0, <3>1, <3>2
  <2>3. /\ calls[c].pc # "versions" /\ calls'[c].pc # "versions"
        /\ \/ calls'[c].pc = "rollback"
           \/ PipePc(calls'[c].pc) = PipePc(calls[c].pc)
    <3>1. calls[c].pc \in {"upsert", "delete"}
      BY <1>3 DEF Upsert, DeleteStale, At
    <3>2. \/ calls'[c].pc = "rollback"
          \/ calls[c].pc = "upsert" /\ calls'[c].pc \in {"getroutes", "upsert"}
          \/ calls[c].pc = "delete" /\ calls'[c].pc \in {"commit", "delete"}
      <4>1. CASE calls' = [calls EXCEPT ![c].pc = "rollback"]
        BY <1>0, <4>1 DEF Call
      <4>2. ASSUME NEW f, calls[c].pc = "upsert",
                   calls' = [calls EXCEPT ![c].todo = @ \ {f},
                     ![c].pc = IF calls[c].todo = {f} THEN "getroutes" ELSE "upsert"]
            PROVE  calls'[c].pc \in {"getroutes", "upsert"}
        BY <1>0, <4>2 DEF Call
      <4>3. ASSUME NEW f, calls[c].pc = "delete",
                   calls' = [calls EXCEPT ![c].todo = @ \ {f},
                     ![c].pc = IF calls[c].todo = {f} THEN "commit" ELSE "delete"]
            PROVE  calls'[c].pc \in {"commit", "delete"}
        BY <1>0, <4>3 DEF Call
      <4> QED BY <2>0, <4>1, <4>2, <4>3, Zenon
    <3> QED BY <3>1, <3>2 DEF PipePc
  <2>4. PipePc(calls[c].pc) \in {"begun", "patched"}
    BY <1>3 DEF Upsert, DeleteStale, At, PipePc
  <2>5. CASE calls'[c].pc = "rollback"
    <3>1. Jobs' = [Jobs EXCEPT ![c].pc = "rolling"]
      BY <2>1, <2>2, <2>3, <2>5, Advance DEF PipePc
    <3>2. Pipe!Fail(c)
      BY <2>1, <2>4, <3>1, JobsAre DEF Pipe!Fail, Pipe!leaderVars, Jobs
    <3> QED BY <3>2 DEF Pipe!PipeNext
  <2>6. CASE PipePc(calls'[c].pc) = PipePc(calls[c].pc)
    BY <2>1, <2>2, <2>3, <2>6, Stays DEF pipeView
  <2> QED BY <2>3, <2>5, <2>6
<1>4. CASE PatchRoutes(c)
  <2>1. /\ UNCHANGED <<Held(config), Held(worker), versions>>
        /\ \A d \in Callers : d # c => calls'[d] = calls[d]
        /\ calls'[c].want = calls[c].want /\ calls'[c].prev = calls[c].prev
        /\ calls'[c].commit = calls[c].commit /\ calls[c].pc = "patch"
        /\ calls[c].want \in Wants
    BY <1>0, <1>4, SameView DEF PatchRoutes, Goto, Call, CallOK, At
  <2>2. CASE calls'[c].pc = "rollback" /\ UNCHANGED routes
    <3>1. Jobs' = [Jobs EXCEPT ![c].pc = "rolling"]
      BY <2>1, <2>2, Advance DEF PipePc
    <3>2. Pipe!Fail(c)
      BY <2>1, <2>2, <3>1, JobsAre, SameView DEF Pipe!Fail, Pipe!leaderVars, Jobs, PipePc
    <3> QED BY <3>2 DEF Pipe!PipeNext
  <2>3. CASE /\ routes' = Spliced(calls[c].want, calls[c].doc)
             /\ calls'[c].pc = "stale"
    <3>1. Jobs' = [Jobs EXCEPT ![c].pc = "patched"]
      BY <2>1, <2>3, Advance DEF PipePc
    <3>2. ForkRoutes(routes)' = calls[c].want
      <4>1. Kept(calls[c].doc) /\ calls[c].doc \in Seq(Entry)
        BY <1>0, <2>1 DEF CallOK, Call
      <4>2. ForkRoutes(Spliced(calls[c].want, calls[c].doc)) = calls[c].want
        BY <2>1, <4>1, SplicedIs DEF Kept
      <4> QED BY <2>3, <4>2
    <3>3. Jobs[c].pc = "begun" /\ Jobs[c].want = calls[c].want
      BY <2>1, JobsAre DEF PipePc
    <3>4. Pipe!Patch(c)
      BY <2>1, <3>1, <3>2, <3>3 DEF Pipe!Patch, Pipe!At, Jobs
    <3> QED BY <3>4 DEF Pipe!PipeNext
  <2> QED BY <1>0, <1>4, <2>2, <2>3 DEF PatchRoutes, Goto, Call
<1>5. CASE Commit(c)
  <2>1. /\ UNCHANGED <<routes, config, worker>>
        /\ \A d \in Callers : d # c => calls'[d] = calls[d]
        /\ calls'[c].want = calls[c].want /\ calls'[c].prev = calls[c].prev
        /\ calls[c].pc = "commit"
        /\ UNCHANGED ForkRoutes(routes)
    BY <1>0, <1>5 DEF Commit, Goto, Call, At
  <2>2. CASE Goto(c, "rollback") /\ UNCHANGED versions
    <3>1. calls'[c].pc = "rollback" /\ calls'[c].commit = calls[c].commit
      BY <1>0, <2>2 DEF Goto, Call
    <3>2. Jobs' = [Jobs EXCEPT ![c].pc = "rolling"]
      BY <2>1, <2>2, <3>1, Advance DEF PipePc
    <3>3. Pipe!Fail(c)
      BY <2>1, <2>2, <3>2, JobsAre, SameView DEF Pipe!Fail, Pipe!leaderVars, Jobs, PipePc
    <3> QED BY <3>3 DEF Pipe!PipeNext
  <2>3. CASE /\ versions' = Append(versions, Working)
             /\ calls' = [calls EXCEPT ![c].commit = Len(versions) + 1,
                                       ![c].pc = "deploy"]
    <3>1. /\ \A v \in 1..Len(versions) : Held(v)' = Held(v)
          /\ \A v : v = Len(versions) + 1 => Held(v)' = ForkRoutes(routes)
      <4>1. /\ \A v \in 1..Len(versions) : versions'[v] = versions[v]
            /\ versions'[Len(versions) + 1] = Working
        BY <1>0, <2>3, VersionsType
      <4> QED BY <4>1 DEF Held, Working
    <3>2. calls'[c].commit = Len(versions) + 1 /\ calls'[c].pc = "deploy"
      BY <1>0, <2>3 DEF Call
    <3>3. ASSUME NEW d \in Callers, d # c PROVE Jobs'[d] = Jobs[d]
      <4>1. calls[d].prev \subseteq 1..Len(versions) /\ calls[d].commit \in 0..Len(versions)
        BY <3>3, JobsAre DEF CallOK
      <4>2. {Held(v)' : v \in calls[d].prev} = {Held(v) : v \in calls[d].prev}
        BY <3>1, <4>1
      <4>3. calls[d].commit # 0 =>
              \E v \in 1..Len(versions) : v = calls[d].commit /\ Held(v)' = Held(v)
        BY <3>1, <4>1
      <4> QED BY <2>1, <3>3, <4>2, <4>3 DEF Jobs, PipeJob
    <3>4. Jobs'[c] = [Jobs[c] EXCEPT !.pc = "committed", !.commit = ForkRoutes(routes)]
      <4>1. {Held(v)' : v \in calls[c].prev} = {Held(v) : v \in calls[c].prev}
        BY <1>0, <3>1 DEF CallOK
      <4>2. Len(versions) + 1 # 0
        BY <1>0
      <4> DEFINE w == calls[c].want
                 p == {Held(v) : v \in calls[c].prev}
                 m == IF calls[c].commit = 0 THEN {} ELSE Held(calls[c].commit)
                 t == ForkRoutes(routes)
                 old == PipePc(calls[c].pc)
                 r == Jobs[c]
                 q == [r EXCEPT !.pc = "committed"]
      <4>3. Jobs'[c] = [pc |-> "committed", want |-> w, prev |-> p, commit |-> t]
        BY <2>1, <3>1, <3>2, <4>1, <4>2 DEF Jobs, PipeJob, PipePc
      <4>4. Jobs[c] = [pc |-> old, want |-> w, prev |-> p, commit |-> m]
        BY <2>1 DEF Jobs, PipeJob
      <4>5. [r EXCEPT !.pc = "committed", !.commit = t] = [q EXCEPT !.commit = t]
        OBVIOUS
      <4> HIDE DEF w, p, m, t, old
      <4>6. q = [pc |-> "committed", want |-> w, prev |-> p, commit |-> m]
        BY <4>4
      <4> HIDE DEF q
      <4>7. [q EXCEPT !.commit = t] =
              [pc |-> "committed", want |-> w, prev |-> p, commit |-> t]
        BY <4>6
      <4> QED BY <4>3, <4>5, <4>7 DEF t
    <3>5. Jobs' = [Jobs EXCEPT ![c].pc = "committed", ![c].commit = ForkRoutes(routes)]
      BY <3>3, <3>4 DEF Jobs
    <3>6. Jobs[c].pc = "patched"
      BY <2>1, JobsAre DEF PipePc
    <3>7. UNCHANGED <<ForkRoutes(routes), Held(config), Held(worker)>>
      BY <1>0, <2>1, <3>1
    <3>8. Pipe!Commit(c)
      BY <3>5, <3>6, <3>7 DEF Pipe!Commit, Pipe!At, Pipe!leaderVars, Jobs
    <3> QED BY <3>8 DEF Pipe!PipeNext
  <2> QED BY <1>5, <2>2, <2>3 DEF Commit
<1>6. CASE Deploy(c)
  <2>1. /\ UNCHANGED <<ForkRoutes(routes), Held(worker), versions>>
        /\ \A d \in Callers : d # c => calls'[d] = calls[d]
        /\ calls'[c].want = calls[c].want /\ calls'[c].prev = calls[c].prev
        /\ calls'[c].commit = calls[c].commit /\ calls[c].commit # 0
        /\ calls[c].pc = "deploy" /\ calls'[c].pc = "await"
        /\ config' = calls[c].commit
    BY <1>0, <1>6, SameView DEF Deploy, Goto, Call, CallOK, At
  <2>2. Jobs' = [Jobs EXCEPT ![c].pc = "deployed"]
    BY <2>1, Advance DEF PipePc
  <2>3. Jobs[c].pc = "committed" /\ Jobs[c].commit = Held(calls[c].commit)
    BY <2>1, JobsAre DEF PipePc
  <2>4. Held(config)' = Jobs[c].commit
    BY <2>1, <2>3 DEF Held
  <2>5. Pipe!Deploy(c)
    BY <2>1, <2>2, <2>3, <2>4 DEF Pipe!Deploy, Pipe!DeployVersion, Pipe!At, Jobs
  <2> QED BY <2>5 DEF Pipe!PipeNext
<1>7. CASE Poll(c)
  <2>1. /\ UNCHANGED <<ForkRoutes(routes), Held(config), Held(worker), versions>>
        /\ \A d \in Callers : d # c => calls'[d] = calls[d]
        /\ calls[c].pc = "await" /\ calls[c].commit # 0
    BY <1>0, <1>7, SameView DEF Poll, CallOK, At
  <2> DEFINE pc == CASE calls[c].commit \in {config, worker} -> "ok"
                     [] calls[c].polls >= MaxPolls -> "rollback"
                     [] OTHER -> "await"
  <2>2. calls' = [calls EXCEPT ![c].pc = pc,
                    ![c].polls = IF @ < MaxPolls THEN @ + 1 ELSE @]
    BY <1>7 DEF Poll
  <2>3. /\ pc \in {"ok", "rollback", "await"}
        /\ pc = "ok" => calls[c].commit \in {config, worker}
    OBVIOUS
  <2> HIDE DEF pc
  <2>4. /\ calls'[c].want = calls[c].want /\ calls'[c].prev = calls[c].prev
        /\ calls'[c].commit = calls[c].commit /\ calls'[c].pc = pc
    BY <1>0, <2>2 DEF Call
  <2>5. Jobs' = [Jobs EXCEPT ![c].pc = PipePc(pc)]
    BY <2>1, <2>3, <2>4, Advance
  <2>6. Jobs[c].pc = "deployed" /\ Jobs[c].commit = Held(calls[c].commit)
    BY <2>1, JobsAre DEF PipePc
  <2>7. CASE pc = "ok"
    <3>1. Jobs[c].commit \in {Held(config), Held(worker)}
      BY <2>3, <2>6, <2>7
    <3>2. Jobs' = [Jobs EXCEPT ![c].pc = "ok"]
      BY <2>5, <2>7 DEF PipePc
    <3>3. Pipe!Succeed(c)
      BY <2>1, <2>6, <3>1, <3>2
         DEF Pipe!Succeed, Pipe!Converged, Pipe!At, Pipe!leaderVars, Jobs
    <3> QED BY <3>3 DEF Pipe!PipeNext
  <2>8. CASE pc = "rollback"
    <3>1. Jobs' = [Jobs EXCEPT ![c].pc = "rolling"]
      BY <2>5, <2>8 DEF PipePc
    <3>2. Pipe!Fail(c)
      BY <2>1, <2>6, <3>1 DEF Pipe!Fail, Pipe!leaderVars, Jobs
    <3> QED BY <3>2 DEF Pipe!PipeNext
  <2>9. CASE pc = "await"
    BY <2>1, <2>4, <2>9, Stays DEF pipeView
  <2> QED BY <2>3, <2>7, <2>8, <2>9
<1>8. CASE Rollback(c)
  <2>1. /\ UNCHANGED <<ForkRoutes(routes), Held(worker), versions>>
        /\ \A d \in Callers : d # c => calls'[d] = calls[d]
        /\ calls'[c].want = calls[c].want /\ calls'[c].prev = calls[c].prev
        /\ calls'[c].commit = calls[c].commit
        /\ calls[c].pc = "rollback" /\ calls'[c].pc = "raised"
    <3>1. calls' = [calls EXCEPT ![c].pc = "raised", ![c].redeployed = TRUE]
            \/ Goto(c, "raised")
      BY <1>8 DEF Rollback
    <3>2. /\ UNCHANGED <<routes, worker, versions>> /\ calls[c].pc = "rollback"
      BY <1>8 DEF Rollback, At
    <3>3. CASE Goto(c, "raised")
      BY <1>0, <3>2, <3>3, SameView DEF Goto, Call
    <3>4. CASE calls' = [calls EXCEPT ![c].pc = "raised", ![c].redeployed = TRUE]
      BY <1>0, <3>2, <3>4, SameView DEF Call
    <3> QED BY <3>1, <3>3, <3>4
  <2>2. Jobs' = [Jobs EXCEPT ![c].pc = "failed"]
    BY <2>1, Advance DEF PipePc
  <2>3. Jobs[c].pc = "rolling" /\ Jobs[c].prev = {Held(v) : v \in calls[c].prev}
    BY <2>1, JobsAre DEF PipePc
  <2>4. CASE UNCHANGED config
    <3>1. Pipe!Rollback(c, TRUE)
      BY <2>1, <2>2, <2>3, <2>4, SameView DEF Pipe!Rollback, Pipe!At, Jobs
    <3> QED BY <3>1 DEF Pipe!PipeNext
  <2>5. CASE \E v \in calls[c].prev : config' = v
    <3>1. PICK v \in calls[c].prev : config' = v
      BY <2>5
    <3>2. Held(v) \in Jobs[c].prev /\ Held(config)' = Held(v)
      BY <2>1, <2>3, <3>1 DEF Held
    <3>3. Pipe!Rollback(c, FALSE)
      BY <2>1, <2>2, <2>3, <3>2
         DEF Pipe!Rollback, Pipe!DeployVersion, Pipe!At, Jobs
    <3> QED BY <3>3 DEF Pipe!PipeNext
  <2> QED BY <1>8, <2>4, <2>5 DEF Rollback
<1>9. CASE Return(c)
  <2>1. /\ UNCHANGED <<ForkRoutes(routes), Held(config), Held(worker), versions>>
        /\ \A d \in Callers : d # c => calls'[d] = calls[d]
        /\ calls[c].pc \in {"ok", "raised"} /\ calls'[c] = NoCall
    BY <1>0, <1>9, SameView DEF Return
  <2>2. Jobs' = [Jobs EXCEPT ![c] = Pipe!IdleJob]
    BY <2>1, JobStep, IdleIs
  <2>3. Jobs[c].pc \in {"ok", "failed"}
    BY <2>1, JobsAre DEF PipePc
  <2>4. Pipe!Return(c)
    BY <2>1, <2>2, <2>3 DEF Pipe!Return, Pipe!leaderVars, Jobs
  <2> QED BY <2>4 DEF Pipe!PipeNext
<1> QED BY <1>1, <1>2, <1>3, <1>4, <1>5, <1>6, <1>7, <1>8, <1>9 DEF Step

LEMMA NextRefines ==
    ASSUME TypeInv, TypeInv', [Next]_vars
    PROVE  UNCHANGED pipeView \/ Pipe!PipeNext
<1> USE DEF workingVars, groupVars
<1>0. /\ TypeOK /\ calls \in [Callers -> Call]
      /\ \A c \in Callers : calls[c] \in Call /\ CallOK(calls[c], Len(versions))
  BY DEF TypeInv, TypeOK
<1>1. ASSUME NEW c \in Callers, NEW w \in Wants, Login(c, w)
      PROVE  UNCHANGED pipeView
  <2>1. /\ UNCHANGED <<ForkRoutes(routes), Held(config), Held(worker), versions>>
        /\ \A d \in Callers : d # c => calls'[d] = calls[d]
        /\ calls[c].pc = "idle" /\ calls'[c].pc = "versions"
    BY <1>0, <1>1, NoCallType, SameView DEF Login, At, Call
  <2>2. calls'[c].prev = {} /\ calls'[c].commit = 0
    <3>1. calls'[c] = [NoCall EXCEPT !.pc = "versions", !.want = w]
      BY <1>0, <1>1 DEF Login
    <3>2. calls'[c].prev = NoCall.prev /\ calls'[c].commit = NoCall.commit
      BY <3>1, NoCallType DEF Call
    <3> QED BY <3>2 DEF NoCall
  <2>3. PipeJob(calls'[c]) = Pipe!IdleJob
    <3>1. {Held(v) : v \in calls'[c].prev} = {}
      BY <2>2
    <3> QED BY <2>1, <2>2, <3>1 DEF PipeJob, PipePc, Pipe!IdleJob
  <2>4. Jobs[c] = Pipe!IdleJob
    BY <2>1, JobsAre
  <2>5. Jobs' = [Jobs EXCEPT ![c] = Jobs[c]]
    BY <2>1, <2>3, <2>4, JobStep
  <2> QED BY <2>1, <2>5 DEF pipeView, Jobs
<1>2. ASSUME NEW c \in Callers, Step(c)
      PROVE  UNCHANGED pipeView \/ Pipe!PipeNext
  BY <1>2, StepRefines
<1>3. ASSUME NEW c \in Callers, LoginFails(c) PROVE Pipe!PipeNext
  <2>1. /\ UNCHANGED <<ForkRoutes(routes), Held(config), Held(worker), versions>>
        /\ \A d \in Callers : d # c => calls'[d] = calls[d]
        /\ calls[c].pc = "versions" /\ calls'[c].pc = "raised"
        /\ calls'[c].want = calls[c].want /\ calls[c].want \in Pipe!Configs
        /\ calls'[c].prev = {} /\ calls'[c].commit = 0
    BY <1>0, <1>3, SameView DEF LoginFails, Goto, At, Call, CallOK, Pipe!Configs
  <2>2. PipeJob(calls'[c]) = [pc |-> "failed", want |-> calls[c].want,
                              prev |-> {}, commit |-> {}]
    <3>1. {Held(v) : v \in calls'[c].prev} = {}
      BY <2>1
    <3> QED BY <2>1, <3>1 DEF PipeJob, PipePc
  <2>3. Jobs[c].pc = "idle"
    BY <2>1, JobsAre DEF PipePc
  <2>4. Jobs' = [Jobs EXCEPT ![c] = [pc |-> "failed", want |-> calls[c].want,
                                     prev |-> {}, commit |-> {}]]
    BY <2>1, <2>2, JobStep
  <2>5. Pipe!Refuse(c, calls[c].want)
    BY <2>1, <2>3, <2>4 DEF Pipe!Refuse, Pipe!At, Pipe!leaderVars, Jobs
  <2> QED BY <2>1, <2>5 DEF Pipe!PipeNext, Pipe!Refuse
<1>4. ASSUME NEW c \in Callers, PollFails(c) \/ CallFails(c)
      PROVE  UNCHANGED pipeView \/ Pipe!PipeNext
  <2>1. /\ UNCHANGED <<ForkRoutes(routes), Held(config), Held(worker), versions>>
        /\ calls[c].pc \in {"list", "upsert", "getroutes", "patch", "stale",
                            "delete", "commit", "deploy", "await"}
    BY <1>4, SameView DEF PollFails, CallFails, At
  <2>2. /\ \A d \in Callers : d # c => calls'[d] = calls[d]
        /\ calls'[c].want = calls[c].want /\ calls'[c].prev = calls[c].prev
        /\ calls'[c].commit = calls[c].commit
        /\ \/ calls'[c].pc = "rollback"
           \/ calls[c].pc = "await" /\ calls'[c].pc = "await"
    <3>1. CASE CallFails(c)
      BY <1>0, <3>1 DEF CallFails, Goto, Call
    <3>2. CASE PollFails(c)
      BY <1>0, <3>2 DEF PollFails, At, Call
    <3> QED BY <1>4, <3>1, <3>2
  <2>3. CASE calls'[c].pc = "rollback"
    <3>1. Jobs' = [Jobs EXCEPT ![c].pc = "rolling"]
      BY <2>1, <2>2, <2>3, Advance DEF PipePc
    <3>2. Jobs[c].pc \in {"begun", "patched", "committed", "deployed"}
      BY <2>1, JobsAre DEF PipePc
    <3>3. Pipe!Fail(c)
      BY <2>1, <3>1, <3>2 DEF Pipe!Fail, Pipe!leaderVars, Jobs
    <3> QED BY <3>3 DEF Pipe!PipeNext
  <2>4. CASE calls[c].pc = "await" /\ calls'[c].pc = "await"
    BY <2>1, <2>2, <2>4, Stays DEF pipeView
  <2> QED BY <2>2, <2>3, <2>4
<1>5. ASSUME UNCHANGED <<routes, versions, config, worker, calls>>
      PROVE  UNCHANGED pipeView
  BY <1>5, SameView DEF pipeView, Jobs, PipeJob
<1>6. CASE Fetch
  <2>1. UNCHANGED <<ForkRoutes(routes), Held(config), Jobs>> /\ Held(worker)' = Held(config)
    BY <1>6, SameView DEF Fetch, Held, Jobs, PipeJob
  <2>2. CASE Held(worker) = Held(config)
    BY <2>1, <2>2 DEF pipeView
  <2>3. CASE Held(worker) # Held(config)
    BY <2>1, <2>3 DEF Pipe!PipeNext, Pipe!Fetch, Jobs
  <2> QED BY <2>2, <2>3
<1>7. ASSUME NEW o \in Others, Edit(o) PROVE UNCHANGED pipeView
  <2>1. UNCHANGED ForkRoutes(routes)
    BY <1>0, <1>7, EditKeeps DEF Edit, TypeInv, TypeOK, Tables
  <2>2. UNCHANGED <<Held(config), Held(worker), Jobs>>
    BY <1>7, SameView DEF Edit, Jobs, PipeJob
  <2> QED BY <2>1, <2>2 DEF pipeView
<1>8. CASE Abort
  <2>1. /\ UNCHANGED <<ForkRoutes(routes), Held(config), Held(worker), versions>>
        /\ calls' = [c \in Callers |-> NoCall]
    BY <1>8, SameView DEF Abort
  <2>2. PipeJob(NoCall)' = Pipe!IdleJob
    BY <2>1, IdleIs DEF PipeJob, Held, NoCall, Pipe!IdleJob
  <2>3. Jobs' = [c \in Callers |-> Pipe!IdleJob]
    BY <2>1, <2>2 DEF Jobs, PipeJob
  <2> QED BY <2>1, <2>3 DEF Pipe!PipeNext, Pipe!AbortAll, Pipe!leaderVars, Jobs
<1>9. CASE UNCHANGED vars
  BY <1>5, <1>9 DEF vars
<1> QED BY <1>1, <1>2, <1>3, <1>4, <1>6, <1>7, <1>8, <1>9 DEF Next, Rest

\* Every behaviour of apply, with any number of calls at once, is one that the
\* contract StreamService is checked against allows.
THEOREM ImplementsPipelineHolds == Spec => ImplementsPipeline
<1>1. TypeInv /\ TypeInv' /\ [Next]_vars => [Pipe!PipeNext]_(Pipe!pipeVars)
  BY NextRefines DEF pipeView, Jobs, Pipe!pipeVars
<1> QED BY <1>1, InitType, NextType, InitRefines, PTL
        DEF Spec, ImplementsPipeline, Pipe!PipeSpec

=============================================================================
