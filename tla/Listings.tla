------------------------------ MODULE Listings ------------------------------
(***************************************************************************)
(* What the catalog promises those who ask it (CatalogService.get_tree).   *)
(* An answer lists each name as Unity Catalog, the bundled seed or the     *)
(* discovery has listed it at some time.  It need not be the time of the   *)
(* question, nor the same time for every name: the tree is read in pieces, *)
(* and an outage is answered from a snapshot of any age.  Catalog          *)
(* implements this module; StreamService acts on such answers.             *)
(***************************************************************************)
CONSTANTS
    Sources,      \* the names (fqn) a source may have
    Readers       \* the threads that ask

VARIABLES
    listed,       \* <<name, listing>> pairs that have been true
    answers       \* the answer each thread holds ({}: none)

listingVars == <<listed, answers>>

Listing == {"standard", "sensitive", "unlisted"}
Trees == [Sources -> Listing]

\* Each name listed in one of its ways, old or new.
Answers == {tree \in Trees : \A n \in Sources : <<n, tree[n]>> \in listed}

ListInit ==
    /\ listed \subseteq Sources \X Listing
    /\ Answers # {}
    /\ answers = [t \in Readers |-> {}]

List(n, k) ==
    /\ listed' = listed \cup {<<n, k>>}
    /\ UNCHANGED answers

Answer(t) ==
    /\ UNCHANGED listed
    /\ answers[t] = {}
    /\ \E tree \in Answers : answers' = [answers EXCEPT ![t] = {tree}]

Take(t) ==
    /\ UNCHANGED listed
    /\ answers' = [answers EXCEPT ![t] = {}]

\* The portal is killed.
Forget ==
    /\ UNCHANGED listed
    /\ answers' = [t \in Readers |-> {}]

ListNext ==
    \/ \E t \in Readers : Take(t) \/ Answer(t)
    \/ Forget
    \/ \E n \in Sources, k \in Listing : List(n, k)

ListSpec == ListInit /\ [][ListNext]_listingVars
=============================================================================
