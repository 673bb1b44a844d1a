--------------------------- MODULE CampaignRules ---------------------------
(***************************************************************************)
(* The pure rules of AI outbound campaigns (internal/campaign): how an     *)
(* ended call is classified, which budget an outcome spends, what becomes  *)
(* of the contact, and when a breaker trips.                               *)
(* Everything here is a constant operator, shared by the modules that      *)
(* model the processes applying the rules.                                 *)
(***************************************************************************)
EXTENDS Integers, Sequences

(***************************************************************************)
(* Outcomes and their budgets.                                             *)
(***************************************************************************)
AnsweredOutcomes == {"ANSWERED", "BOT_FAILED", "OVERFLOW"}

ReachedOutcomes == AnsweredOutcomes \cup {"NO_ANSWER", "BUSY", "REJECTED", "UNKNOWN"}

SystemOutcomes == {"TRANSIENT", "ORIGINATE_FAILED"}

Outcomes == ReachedOutcomes \cup SystemOutcomes \cup {"INVALID_NUMBER", "DNC_SKIPPED"}

\* The outcomes a retry policy may list (RetryPolicy.Normalize refuses others).
RetryableOutcomes == (ReachedOutcomes \ AnsweredOutcomes) \cup SystemOutcomes

LeadIntents == {"HIGH", "MEDIUM", "LOW", "NONE", "DO_NOT_CALL"}

NoLead == ""

IsAnsweredOutcome(o) == o \in AnsweredOutcomes

ClassOf(o) ==
    CASE o \in ReachedOutcomes -> "REACHED"
      [] o \in SystemOutcomes  -> "SYSTEM"
      [] OTHER                 -> "NONE"

IsTouched(o) == ClassOf(o) = "REACHED"

-----------------------------------------------------------------------------
(***************************************************************************)
(* Classify: the outcome of an ended call, from the facts of its CDR.      *)
(***************************************************************************)
CauseOutcomes ==
    [ NO_ANSWER                 |-> "NO_ANSWER",
      NO_USER_RESPONSE          |-> "NO_ANSWER",
      ALLOTTED_TIMEOUT          |-> "NO_ANSWER",
      USER_BUSY                 |-> "BUSY",
      CALL_REJECTED             |-> "REJECTED",
      CHANNEL_VANISHED          |-> "UNKNOWN",
      NORMAL_TEMPORARY_FAILURE  |-> "TRANSIENT",
      NETWORK_OUT_OF_ORDER      |-> "TRANSIENT",
      RECOVERY_ON_TIMER_EXPIRE  |-> "TRANSIENT",
      SWITCH_CONGESTION         |-> "TRANSIENT",
      NORMAL_CIRCUIT_CONGESTION |-> "TRANSIENT",
      UNALLOCATED_NUMBER        |-> "INVALID_NUMBER",
      INVALID_NUMBER_FORMAT     |-> "INVALID_NUMBER",
      NUMBER_CHANGED            |-> "INVALID_NUMBER" ]

CustomerSide == {"NO_ANSWER", "BUSY", "REJECTED", "INVALID_NUMBER"}

\* The causes of the table, the platform's own three that only an answered
\* call carries, and one the table does not know.
Causes == DOMAIN CauseOutcomes
              \cup {"OVERFLOW", "BOT_BRIDGE_UNCONFIRMED", "NORMAL_CLEARING"}

CallEnds ==
    [ hangupCause : Causes, isAnswered : BOOLEAN, isFailed : BOOLEAN,
      hasBot : BOOLEAN, isBotLegFailed : BOOLEAN, isPlacementFailure : BOOLEAN ]

\* The outcome of a call the customer picked up: never anything but an
\* answered one; the cause only chooses which.
ClassifyAnswered(e) ==
    IF \/ e.isBotLegFailed
       \/ e.hangupCause \in {"RECOVERY_ON_TIMER_EXPIRE", "ALLOTTED_TIMEOUT",
                             "BOT_BRIDGE_UNCONFIRMED"}
       \/ e.hangupCause = "CHANNEL_VANISHED" /\ ~e.hasBot
       \/ e.hangupCause # "CHANNEL_VANISHED" /\ e.isFailed
    THEN "BOT_FAILED"
    ELSE "ANSWERED"

\* Mutant of Classify: a recovered or failed answered call falls through to
\* the table of unanswered causes.
ClassifyMutant(e) ==
    IF e.hangupCause = "OVERFLOW" THEN "OVERFLOW"
    ELSE IF e.isAnswered /\ ~e.isFailed THEN ClassifyAnswered(e)
    ELSE IF e.hangupCause \in DOMAIN CauseOutcomes THEN CauseOutcomes[e.hangupCause]
    ELSE "TRANSIENT"

Classify(e) ==
    LET isMapped == e.hangupCause \in DOMAIN CauseOutcomes
        mapped   == CauseOutcomes[e.hangupCause]
    IN  CASE e.hangupCause = "OVERFLOW" -> "OVERFLOW"
          [] e.hangupCause # "OVERFLOW" /\ e.isAnswered -> ClassifyAnswered(e)
          [] e.hangupCause # "OVERFLOW" /\ ~e.isAnswered /\ e.isPlacementFailure ->
                 IF isMapped /\ mapped \in CustomerSide THEN mapped ELSE "ORIGINATE_FAILED"
          [] OTHER -> IF isMapped THEN mapped ELSE "TRANSIENT"

-----------------------------------------------------------------------------
(***************************************************************************)
(* Counters and settlement.                                                *)
(***************************************************************************)
Counters == [attempts : Nat, systemFailures : Nat]

NoneSpent == [attempts |-> 0, systemFailures |-> 0]

Add(c, o) ==
    CASE ClassOf(o) = "REACHED" -> [c EXCEPT !.attempts = @ + 1]
      [] ClassOf(o) = "SYSTEM"  -> [c EXCEPT !.systemFailures = @ + 1]
      [] OTHER                  -> c

AtLeastZero(n) == IF n < 0 THEN 0 ELSE n

\* The inverse of Add, never below zero.
Remove(c, o) ==
    CASE ClassOf(o) = "REACHED" -> [c EXCEPT !.attempts = AtLeastZero(@ - 1)]
      [] ClassOf(o) = "SYSTEM"  -> [c EXCEPT !.systemFailures = AtLeastZero(@ - 1)]
      [] OTHER                  -> c

ContactStatuses == {"ACTIVE", "DONE", "EXHAUSTED", "INVALID_NUMBER", "DNC"}

\* Mutant of HasBudget: the budget is compared after one call too many.
HasBudgetMutant(p, c, o) ==
    CASE ClassOf(o) = "REACHED" -> c.attempts <= p.maxAttempts
      [] ClassOf(o) = "SYSTEM"  -> c.systemFailures <= p.maxSystemRetries
      [] OTHER                  -> FALSE

\* Whether the budget the outcome spends has anything left.
HasBudget(p, c, o) ==
    CASE ClassOf(o) = "REACHED" -> c.attempts < p.maxAttempts
      [] ClassOf(o) = "SYSTEM"  -> c.systemFailures < p.maxSystemRetries
      [] OTHER                  -> FALSE

\* Mutant of Settle: the lead is looked at only after an answered outcome, so
\* an UNKNOWN that recorded one is retried.
SettleMutant(p, c, o, lead) ==
    CASE lead = "DO_NOT_CALL"   -> "DNC"
      [] o = "INVALID_NUMBER"   -> "INVALID_NUMBER"
      [] o = "DNC_SKIPPED"      -> "DNC"
      [] IsAnsweredOutcome(o)   -> "DONE"
      [] OTHER                  ->
            IF o \in p.retryOutcomes /\ HasBudget(p, c, o) THEN "ACTIVE" ELSE "EXHAUSTED"

\* What an ended attempt makes of its contact; the counters c already include
\* it. ACTIVE means dialled again, RetryWait after the call's end.
Settle(p, c, o, lead) ==
    IF lead = "DO_NOT_CALL" THEN "DNC"
    ELSE IF lead # NoLead THEN "DONE"
    ELSE CASE o = "INVALID_NUMBER" -> "INVALID_NUMBER"
           [] o = "DNC_SKIPPED"    -> "DNC"
           [] IsAnsweredOutcome(o) -> "DONE"
           [] OTHER                ->
                 IF o \in p.retryOutcomes /\ HasBudget(p, c, o) THEN "ACTIVE" ELSE "EXHAUSTED"

-----------------------------------------------------------------------------
(***************************************************************************)
(* Breakers. recent is newest first.                                       *)
(***************************************************************************)
TrunkBreakerTrips(recent, n) ==
    /\ n >= 1
    /\ Len(recent) >= n
    /\ \A i \in 1..n : ClassOf(recent[i]) = "SYSTEM"

\* The code's scan: it counts BOT_FAILED, stops tripped at m, stops for good
\* at an ANSWERED (-1), and skips everything else.
ProviderBreakerTrips(recent, m) ==
    LET failed[i \in 0..Len(recent)] ==
            IF i = 0 THEN 0
            ELSE IF failed[i - 1] < 0 \/ failed[i - 1] = m THEN failed[i - 1]
            ELSE IF recent[i] = "ANSWERED" THEN -1
            ELSE IF recent[i] = "BOT_FAILED" THEN failed[i - 1] + 1
            ELSE failed[i - 1]
    IN  m >= 1 /\ failed[Len(recent)] = m
=============================================================================
