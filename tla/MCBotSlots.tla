----------------------------- MODULE MCBotSlots -----------------------------
(***************************************************************************)
(* A small bot pool: an outbound leg, whose reservation is renewed,        *)
(* withdrawn and taken again, and two inbound calls compete for two slots, *)
(* one of which outbound may not reserve.                                  *)
(***************************************************************************)
EXTENDS BotSlots

CONSTANTS k1, k2, k3

MCKeys     == {k1, k2, k3}
MCOutbound == {k1}
=============================================================================
