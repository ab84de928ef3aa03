---------------------------- MODULE MCCatalog ----------------------------
(* Small instances of Catalog for TLC. *)
EXTENDS Catalog, TLC

CONSTANTS r1, r2, x, y

ReaderSymmetry == Permutations(Readers)

\* x and y are tables of two schemas; only x is in Unity Catalog at first.
MCSchemaOf == [s \in Sources |-> s]
MCTables == [s \in Sources |-> IF s = x THEN "sensitive" ELSE "absent"]

\* A seed that is older than Unity Catalog: y was still there.
MCSeed == {[s \in Sources |-> "sensitive"]}
=============================================================================
