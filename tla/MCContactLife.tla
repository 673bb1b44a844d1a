--------------------------- MODULE MCContactLife ---------------------------
(* ContactLife with small budgets and every combination of facts over a     *)
(* handful of causes: one per class of the table, the platform's own, and   *)
(* one the table lacks.                                                     *)
EXTENDS ContactLife

MCPolicy ==
    [ maxAttempts      |-> 2,
      maxSystemRetries |-> 2,
      retryOutcomes    |-> RetryableOutcomes \ {"REJECTED"} ]

MCCauses ==
    { "USER_BUSY", "CALL_REJECTED", "CHANNEL_VANISHED", "NETWORK_OUT_OF_ORDER",
      "UNALLOCATED_NUMBER", "OVERFLOW", "NORMAL_CLEARING" }

MCEnds ==
    { e \in CallEnds :
        /\ e.hangupCause \in MCCauses
        /\ e.isBotLegFailed => e.isAnswered
        /\ e.isPlacementFailure => ~e.isAnswered /\ ~e.hasBot }

MCLeads == {NoLead, "NONE", "DO_NOT_CALL"}
=============================================================================
