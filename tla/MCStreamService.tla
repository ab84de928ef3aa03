-------------------------- MODULE MCStreamService --------------------------
(* Small instances of StreamService for TLC. *)
EXTENDS StreamService, TLC

CONSTANTS t1, t2, alex, dana, raj, a1, a2, log, std, sens, ghost, n1, n2

ThreadSymmetry == Permutations(Threads)
NameSymmetry == Permutations(Names)

\* alex is the admin; dana is scoped to a1, raj to a2.  The sources live in a1.
MCScope == [u \in Users |-> IF u = raj THEN a2 ELSE a1]
MCAccountOf == [s \in Sources |-> a1]
MCCatalog == [s \in Sources |-> CASE s = sens -> "sensitive"
                                   [] s = ghost -> "unlisted"
                                   [] OTHER -> "standard"]

\* ghost is the name under which Unity Catalog may come to list sens as well.
MCIdentityOf == [s \in Sources |-> IF s = ghost THEN sens ELSE s]

EitherOrTwice == {<<std>>, <<sens>>, <<std, std>>}
BothNames == {<<sens>>, <<ghost>>}
OnlyStd == {<<std>>}
OnlySens == {<<sens>>}
=============================================================================
