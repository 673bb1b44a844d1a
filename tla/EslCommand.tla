----------------------------- MODULE EslCommand -----------------------------
(***************************************************************************)
(* What a command on the switch's event socket promises its caller         *)
(* (internal/esl: Client.command and its errors).                          *)
(*                                                                         *)
(* A caller gets the answer to its own command, or ErrDown, and then the   *)
(* switch does not run it, or ErrTimeout, and then it may have run it, may *)
(* run it later or never will. The switch runs a command at most once.     *)
(***************************************************************************)
CONSTANT Commands

VARIABLES
    outcome,    \* what the caller of each command knows
    ran         \* the commands the switch has run

vars == <<outcome, ran>>

Outcomes == {"idle", "waiting", "replied", "down", "unknown"}

Init == outcome = [c \in Commands |-> "idle"] /\ ran = {}

Issue(c) ==
    /\ outcome[c] = "idle"
    /\ outcome' = [outcome EXCEPT ![c] = "waiting"]
    /\ UNCHANGED ran

\* A stalled switch runs what it read when it recovers.
Run(c) ==
    /\ outcome[c] \in {"waiting", "unknown"} /\ c \notin ran
    /\ ran' = ran \cup {c}
    /\ UNCHANGED outcome

Reply(c) ==
    /\ outcome[c] = "waiting" /\ c \in ran
    /\ outcome' = [outcome EXCEPT ![c] = "replied"]
    /\ UNCHANGED ran

\* ErrDown: the switch has not run it, and from here on Run cannot.
Refuse(c) ==
    /\ outcome[c] \in {"idle", "waiting"} /\ c \notin ran
    /\ outcome' = [outcome EXCEPT ![c] = "down"]
    /\ UNCHANGED ran

\* ErrTimeout
GiveUp(c) ==
    /\ outcome[c] = "waiting"
    /\ outcome' = [outcome EXCEPT ![c] = "unknown"]
    /\ UNCHANGED ran

Next == \E c \in Commands : Issue(c) \/ Run(c) \/ Reply(c) \/ Refuse(c) \/ GiveUp(c)

Spec == Init /\ [][Next]_vars
=============================================================================
