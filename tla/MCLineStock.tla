---------------------------- MODULE MCLineStock -----------------------------
(***************************************************************************)
(* The values of LineStock's constants in the TLC runs.                    *)
(***************************************************************************)
EXTENDS LineStock

MCCallers == Webs \cup {"reader", "line"}
=============================================================================
