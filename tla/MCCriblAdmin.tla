---------------------------- MODULE MCCriblAdmin ----------------------------
(* Small instances of CriblAdmin for TLC. *)
EXTENDS CriblAdmin

CONSTANTS c1, c2, f1, f2, narrow, wide, archive, extra

MCArchive == <<archive>>

\* Nothing; one fork; the same fork with another filter, and a second one.
MCWants == {{}, {<<f1, narrow>>}, {<<f1, wide>>, <<f2, narrow>>}}

\* One fork, or the same fork with another filter and a second one.
BusyWants == MCWants \ {{}}
=============================================================================
