------------------------------- MODULE MCPeek -------------------------------
(* A small instance of Peek for TLC. *)
EXTENDS Peek

\* A batch of two events, an empty one, a record that is no JSON.
MCBodies == <<<<"header", "event", "event">>, <<"header">>, <<"junk", "blank">>>>
=============================================================================
