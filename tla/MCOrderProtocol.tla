-------------------------- MODULE MCOrderProtocol ---------------------------
(***************************************************************************)
(* The values of OrderProtocol's constants in the TLC runs.                *)
(***************************************************************************)
EXTENDS OrderProtocol

MCCallers == Webs \cup {"reader"}
=============================================================================
