---------------------------- MODULE MCEslClient -----------------------------
(***************************************************************************)
(* EslClient with two commands, two connections and channels of one event. *)
(***************************************************************************)
EXTENDS EslClient

CONSTANTS c1, c2
=============================================================================
