--------------------------- MODULE CampaignDialer ---------------------------
(***************************************************************************)
(* The campaign dialer (internal/dialer): the actor goroutine that owns    *)
(* admission, between the campaign tables it shares with the writers of    *)
(* call records (CampaignStore), the switch that carries the calls, and    *)
(* crashes of the application. The actor's memory is lost in a crash; the  *)
(* tables and the calls in the switch are not.                             *)
(***************************************************************************)
EXTENDS CampaignStore

CONSTANTS
    MaxConcurrent,         \* calls in flight per campaign
    MaxRinging,            \* legs ringing over all campaigns
    TrunkBreakerCount,     \* Config: system failures in a row that pause
    ProviderBreakerCount,  \* Config: failed bots in a row that pause
    Scenarios              \* the bounds a behaviour keeps to, one chosen at the start:
                           \* preloaded and importable, contacts; started, campaigns
                           \* that run already; blocks, whether bot
                           \* slots or DID lines may run out; stoppable, campaigns an
                           \* operator may pause or cancel; listable, numbers one may
                           \* list; leads and observed, intents and outcomes a call may
                           \* have; writers of one conversation's CDR, at most 2;
                           \* crashes, errors of the store, voids (placements refused
                           \* before being sent); lates, contacts of which the switch
                           \* may run an originate nobody waits for any more

ASSUME DialerAssumption ==
    /\ MaxConcurrent \in Nat \ {0} /\ MaxRinging \in Nat \ {0}
    /\ TrunkBreakerCount \in Nat \ {0} /\ ProviderBreakerCount \in Nat \ {0}
    /\ \A b \in Scenarios :
          /\ b.preloaded \cup b.importable \subseteq Contacts /\ b.started \subseteq Campaigns
          /\ b.blocks \in BOOLEAN /\ b.stoppable \subseteq Campaigns
          /\ b.listable \subseteq Numbers /\ b.leads \subseteq LeadIntents
          /\ {"ANSWERED", "NO_ANSWER"} \subseteq b.observed /\ b.observed \subseteq Outcomes
          /\ b.writers \in {1, 2}
          /\ b.crashes \in Nat /\ b.errors \in Nat /\ b.voids \in Nat
          /\ b.lates \subseteq Contacts

VARIABLES
    pc,        \* where the actor is; "down" when the application is not running
    cur,       \* the call being placed or skipped, 0 for none
    turn,      \* the campaign whose contact is being admitted
    todo,      \* attempts a restart has yet to reconcile
    dncDirty,  \* the next pass looks for listed contacts
    flights,   \* calls in flight
    answered,  \* flights known to have been picked up
    count,     \* in flight per campaign, ringing, talking
    halted,    \* campaigns a breaker stopped, until their next resume
    since,     \* per campaign: where in log the breaker's run starts
    pass,      \* the current pass: campaigns live, open and stopped, contacts ready
    inbox,     \* the mailbox; posts of several goroutines have no fixed order
    call,      \* the switch's view of a call
    writes,    \* writes of a call's CDR still to be made
    spent,     \* the scenario and how much of its faults is used up
    begunAt    \* history: where in log the campaign last started or resumed

actor == <<pc, cur, turn, todo, dncDirty, flights, answered, count, halted, since, pass, inbox>>

actorButInbox == <<pc, cur, turn, todo, dncDirty, flights, answered, count, halted, since, pass>>

vars == <<tables, actor, call, writes, spent, begunAt>>

NoCampaign == "no campaign"

NothingInFlight == [inflight |-> [c \in Campaigns |-> 0], ringing |-> 0, talking |-> 0]

NoPass == [live |-> {}, open |-> {}, stopped |-> {}, ready |-> [c \in Campaigns |-> {}]]

Messages ==
    [type : {"finished"}, call : Calls, outcome : Outcomes, isRevision : BOOLEAN]
        \cup [type : {"answered"}, call : Calls] \cup [type : {"dnc"}]

\* The last three are those of an originate that was given up before it ran:
\* adrift, it may run yet or never; late, it ran, and the call is ringing or
\* talking; over, that call has ended.
CallStates ==
    {"none", "placing", "ringing", "talking", "missed", "taken", "adrift", "late", "over"}

Bound == spent.scenario
Observed == Bound.observed

Init ==
    /\ \E b \in Scenarios :
          /\ spent = [scenario |-> b, crashes |-> 0, errors |-> 0, voids |-> 0]
          /\ StoreInit(b.preloaded, b.started)
    /\ pc = "start" /\ cur = 0 /\ turn = NoCampaign /\ todo = {}
    /\ dncDirty = TRUE
    /\ flights = {} /\ answered = {} /\ count = NothingInFlight
    /\ halted = {} /\ since = [c \in Campaigns |-> 0]
    /\ pass = NoPass /\ inbox = {}
    /\ call = [k \in Calls |-> "none"]
    /\ writes = [k \in Calls |-> 0]
    /\ begunAt = [c \in Campaigns |-> 0]

IsUp == pc # "down"

\* IsLive: the registry holds the call, or outbound is still placing it.
IsLive(k) == call[k] \in {"placing", "ringing", "talking", "late"}

\* The call's originate was given up before the switch ran it.
IsLate(k) == call[k] \in {"adrift", "late", "over"}

StoreFails ==
    /\ spent.errors < Bound.errors
    /\ spent' = [spent EXCEPT !.errors = @ + 1]

-----------------------------------------------------------------------------
(***************************************************************************)
(* Flights and their counters.                                             *)
(***************************************************************************)
Fly(k, c) ==
    /\ flights' = flights \cup {k}
    /\ count' = [count EXCEPT !.inflight[c] = @ + 1, !.ringing = @ + 1]
    /\ UNCHANGED answered

\* Mutant of Drop: not idempotent; every call returns the capacity again.
DropMutant(k) ==
    /\ flights' = flights \ {k}
    /\ answered' = answered \ {k}
    /\ count' = [count EXCEPT !.inflight[CampaignOfCall(k)] = AtLeastZero(@ - 1),
                              !.ringing = IF k \in answered THEN @ ELSE AtLeastZero(@ - 1),
                              !.talking = IF k \in answered THEN @ - 1 ELSE @]

\* drop: forgets a flight and returns its capacity, once.
Drop(k) ==
    /\ flights' = flights \ {k}
    /\ answered' = answered \ {k}
    /\ count' = IF k \notin flights THEN count
                ELSE [count EXCEPT !.inflight[CampaignOfCall(k)] = AtLeastZero(@ - 1),
                                   !.ringing = IF k \in answered THEN @ ELSE @ - 1,
                                   !.talking = IF k \in answered THEN @ - 1 ELSE @]

(***************************************************************************)
(* judgeBreakers, after an attempt of c ended with o and the tables are lg *)
(* and at: the pause reason, or NONE.                                      *)
(***************************************************************************)
BreakerReason(c, o, lg, at) ==
    LET recent == OutcomesSince(c, since[c], lg, at)
    IN  CASE c \in halted -> "NONE"
          [] c \notin halted /\ ClassOf(o) = "SYSTEM" ->
                 IF TrunkBreakerTrips(recent, TrunkBreakerCount) THEN "TRUNK_FAILURE" ELSE "NONE"
          [] c \notin halted /\ o = "BOT_FAILED" ->
                 IF ProviderBreakerTrips(recent, ProviderBreakerCount)
                 THEN "PROVIDER_FAILURE" ELSE "NONE"
          [] OTHER -> "NONE"

JudgeBreakers(c, o, lg, at) ==
    LET reason == BreakerReason(c, o, lg, at)
    IN  IF reason # "NONE" /\ IsRunning(c)
        THEN campaign' = PausedFor(c, reason) /\ halted' = halted \cup {c}
        ELSE UNCHANGED <<campaign, halted>>

-----------------------------------------------------------------------------
(***************************************************************************)
(* Commands, which the actor carries out between passes, and what the API  *)
(* writes without it.                                                      *)
(***************************************************************************)
IsBetweenPasses == pc \in {"start", "wait"}

\* Mutant of Began: the breaker keeps judging the failures before the resume.
BeganMutant(c) ==
    /\ begunAt' = [begunAt EXCEPT ![c] = Len(log)]
    /\ halted' = halted \ {c}
    /\ dncDirty' = TRUE
    /\ UNCHANGED since

Began(c) ==
    /\ since' = [since EXCEPT ![c] = Len(log)]
    /\ begunAt' = [begunAt EXCEPT ![c] = Len(log)]
    /\ halted' = halted \ {c}
    /\ dncDirty' = TRUE

StartCampaign(c) ==
    /\ IsBetweenPasses
    /\ Start(c)
    /\ Began(c)
    /\ UNCHANGED <<pc, cur, turn, todo, flights, answered, count, pass, inbox, call, writes, spent>>

ResumeCampaign(c) ==
    /\ IsBetweenPasses
    /\ Move(c, {"PAUSED"}, "RUNNING", "NONE")
    /\ Began(c)
    /\ UNCHANGED <<pc, cur, turn, todo, flights, answered, count, pass, inbox, call, writes, spent>>

PauseCampaign(c) ==
    /\ IsBetweenPasses
    /\ c \in Bound.stoppable
    /\ Move(c, {"RUNNING"}, "PAUSED", "MANUAL")
    /\ UNCHANGED <<actor, call, writes, spent, begunAt>>

CancelCampaign(c) ==
    /\ IsBetweenPasses
    /\ c \in Bound.stoppable
    /\ Move(c, {"DRAFT", "RUNNING", "PAUSED"}, "CANCELLED", "NONE")
    /\ UNCHANGED <<actor, call, writes, spent, begunAt>>

ImportContact(x) ==
    /\ IsUp /\ x \in Bound.importable
    /\ Import(x)
    /\ UNCHANGED <<actor, call, writes, spent, begunAt>>

\* An operator lists a number; OnDNCAdded tells the actor.
ListNumber(n) ==
    /\ IsUp
    /\ n \in Bound.listable \ dnc
    /\ dnc' = dnc \cup {n}
    /\ inbox' = inbox \cup {[type |-> "dnc"]}
    /\ UNCHANGED <<campaign, contact, att, nAtt, ledger, log, aged>>
    /\ UNCHANGED <<pc, cur, turn, todo, dncDirty, flights, answered, count, halted, since, pass>>
    /\ UNCHANGED <<call, writes, spent, begunAt>>

-----------------------------------------------------------------------------
(***************************************************************************)
(* Messages: handle, one message at a time, between passes.                *)
(***************************************************************************)
HandleFinished(m) ==
    LET c == CampaignOfCall(m.call)
    IN  /\ IsBetweenPasses
        /\ m.type = "finished"
        /\ inbox' = inbox \ {m}
        /\ Drop(m.call)
        /\ IF m.isRevision THEN UNCHANGED <<campaign, halted>>
                           ELSE JudgeBreakers(c, m.outcome, log, att)
        /\ UNCHANGED <<contact, att, nAtt, dnc, ledger, log, aged>>
        /\ UNCHANGED <<pc, cur, turn, todo, dncDirty, since, pass, call, writes, spent, begunAt>>

HandleAnswered(m) ==
    /\ IsBetweenPasses
    /\ m.type = "answered"
    /\ inbox' = inbox \ {m}
    /\ IF m.call \in flights \ answered
       THEN /\ answered' = answered \cup {m.call}
            /\ count' = [count EXCEPT !.ringing = @ - 1, !.talking = @ + 1]
       ELSE UNCHANGED <<answered, count>>
    /\ UNCHANGED <<tables, pc, cur, turn, todo, dncDirty, flights, halted, since, pass>>
    /\ UNCHANGED <<call, writes, spent, begunAt>>

\* Mutant of HandleListed: the wake forgets what it was about.
HandleListedMutant(m) ==
    /\ IsBetweenPasses
    /\ m.type = "dnc"
    /\ inbox' = inbox \ {m}
    /\ UNCHANGED <<tables, actorButInbox, call, writes, spent, begunAt>>

HandleListed(m) ==
    /\ IsBetweenPasses
    /\ m.type = "dnc"
    /\ inbox' = inbox \ {m}
    /\ dncDirty' = TRUE
    /\ UNCHANGED <<tables, pc, cur, turn, todo, flights, answered, count, halted, since, pass>>
    /\ UNCHANGED <<call, writes, spent, begunAt>>

-----------------------------------------------------------------------------
(***************************************************************************)
(* Restart and the backstop.                                               *)
(***************************************************************************)
\* Once the switch has been read, the attempts in flight are listed. A failed
\* listing leaves nothing to do.
RecoverAttempts ==
    /\ pc = "start"
    /\ \/ todo' = Dialing /\ UNCHANGED spent
       \/ Dialing # {} /\ todo' = {} /\ StoreFails
    /\ pc' = "recover"
    /\ UNCHANGED <<tables, cur, turn, dncDirty, flights, answered, count, halted, since, pass, inbox>>
    /\ UNCHANGED <<call, writes, begunAt>>

\* Mutant of Reconcile: the ledger is not asked, and the flight is forgotten
\* before its attempt is finished.
ReconcileMutant(k, next) ==
    /\ Drop(k)
    /\ UNCHANGED <<tables, inbox, pc, cur>>

\* reconcile, of an attempt with no live call. Its first transaction
\* (FinishFromLedger) ends the attempt as its CDR says; with no CDR in the
\* ledger, the actor goes on to its second ...
Reconcile(k, next) ==
    \/ /\ ledger[k] # NoCDR
       /\ Finish(k, ledger[k])
       /\ inbox' = inbox \cup AnnouncedByFinish(k, ledger[k])
       /\ Drop(k)
       /\ UNCHANGED <<campaign, pc, cur>>
    \/ /\ ledger[k] = NoCDR
       /\ pc' = next
       /\ cur' = k
       /\ UNCHANGED <<tables, inbox, flights, answered, count>>

\* ... which ends it as UNKNOWN, unless a CDR got there in between.
FinishUnknown ==
    /\ pc \in {"unknown", "recoverUnknown"}
    /\ pc' = IF pc = "unknown" THEN "wait" ELSE "recover"
    /\ cur' = 0
    /\ \/ /\ Finish(cur, "UNKNOWN")
          /\ inbox' = inbox \cup AnnouncedByFinish(cur, "UNKNOWN")
          /\ Drop(cur)
          /\ UNCHANGED <<campaign, spent>>
       \/ StoreFails /\ UNCHANGED <<tables, inbox, flights, answered, count>>
    /\ UNCHANGED <<turn, todo, dncDirty, halted, since, pass, call, writes, begunAt>>

\* Mutant of RecoverAttempt: a call that outlived the restart is reconciled
\* away like any other.
RecoverAttemptMutant(k) ==
    /\ pc = "recover"
    /\ k \in todo
    /\ todo' = todo \ {k}
    /\ Reconcile(k, "recoverUnknown")
    /\ UNCHANGED <<turn, dncDirty, halted, since, pass, call, writes, spent, begunAt>>

\* One attempt of the list: a call that lives on is a flight again, as ringing.
RecoverAttempt(k) ==
    /\ pc = "recover"
    /\ k \in todo
    /\ todo' = todo \ {k}
    /\ \/ /\ IsLive(k)
          /\ Fly(k, CampaignOfCall(k))
          /\ UNCHANGED <<tables, inbox, spent, pc, cur>>
       \/ ~IsLive(k) /\ Reconcile(k, "recoverUnknown") /\ UNCHANGED spent
       \/ /\ ~IsLive(k) /\ StoreFails
          /\ UNCHANGED <<tables, flights, answered, count, inbox, pc, cur>>
    /\ UNCHANGED <<turn, dncDirty, halted, since, pass, call, writes, begunAt>>

Recovered ==
    /\ pc = "recover"
    /\ todo = {}
    /\ pc' = "wait"
    /\ UNCHANGED <<tables, cur, turn, todo, dncDirty, flights, answered, count, halted, since>>
    /\ UNCHANGED <<pass, inbox, call, writes, spent, begunAt>>

\* Past the ring timeout and the margin; a live call is left alone.
CheckBackstop(k) ==
    /\ pc = "wait"
    /\ k \in flights
    /\ ~IsLive(k)
    /\ \/ Reconcile(k, "unknown") /\ UNCHANGED spent
       \/ StoreFails /\ UNCHANGED <<tables, flights, answered, count, inbox, pc, cur>>
    /\ UNCHANGED <<turn, todo, dncDirty, halted, since, pass, call, writes, begunAt>>

-----------------------------------------------------------------------------
(***************************************************************************)
(* A pass: housekeeping.                                                   *)
(***************************************************************************)
\* The running campaigns are read once, and admission is open to those no
\* breaker has stopped. The pass first looks for listed contacts when it was
\* told to. The safety scan never tells it to: Run asks for that when it waited
\* SafetyScan or more, and the wait, to a nextWake set when the pass began, is
\* always shorter.
BeginPass ==
    /\ pc = "wait"
    /\ LET live == {c \in Campaigns : IsRunning(c)} \ halted
       IN  pass' = [NoPass EXCEPT !.live = live, !.open = live]
    /\ pc' = IF dncDirty THEN "dnc" ELSE "pick"
    /\ dncDirty' = FALSE
    /\ contact' = IF dncDirty THEN MarkedDialingDNC ELSE contact
    /\ UNCHANGED <<campaign, att, nAtt, dnc, ledger, log, aged>>
    /\ UNCHANGED <<cur, turn, todo, flights, answered, count, halted, since, inbox>>
    /\ UNCHANGED <<call, writes, spent, begunAt>>

Skippable == {x \in DNCContacts : CanBegin(x)}

\* skipDNC, of one contact: an attempt is begun ...
SkipBegin(x) ==
    /\ pc = "dnc"
    /\ x \in Skippable
    /\ Begin(x)
    /\ pc' = "skip"
    /\ cur' = nAtt + 1
    /\ UNCHANGED <<turn, todo, dncDirty, flights, answered, count, halted, since, pass, inbox>>
    /\ UNCHANGED <<call, writes, spent, begunAt>>

\* ... and ended in a transaction of its own.
SkipFinish ==
    /\ pc = "skip"
    /\ \/ /\ Finish(cur, "DNC_SKIPPED")
          /\ inbox' = inbox \cup AnnouncedByFinish(cur, "DNC_SKIPPED")
          /\ UNCHANGED <<campaign, spent>>
       \/ StoreFails /\ UNCHANGED <<tables, inbox>>
    /\ pc' = "dnc"
    /\ cur' = 0
    /\ UNCHANGED <<turn, todo, dncDirty, flights, answered, count, halted, since, pass>>
    /\ UNCHANGED <<call, writes, begunAt>>

SkipDone ==
    /\ pc = "dnc"
    /\ Skippable = {} \/ nAtt = MaxCalls
    /\ pc' = "pick"
    /\ UNCHANGED <<tables, cur, turn, todo, dncDirty, flights, answered, count, halted, since, pass>>
    /\ UNCHANGED <<inbox, call, writes, spent, begunAt>>

-----------------------------------------------------------------------------
(***************************************************************************)
(* A pass: round-robin admission.                                          *)
(***************************************************************************)
Eligible == (pass.open \ halted) \ pass.stopped

\* The next call goes to a campaign with the fewest in flight, and an empty
\* batch is refilled: contacts another campaign has reached are deferred, the
\* due ones are judged against their calling windows (inWindow is the answer)
\* and what remains is ready. A campaign with nothing ready is closed.
PickCampaign(c, inWindow) ==
    LET isRefill == pass.ready[c] = {}
        ready    == IF isRefill THEN inWindow ELSE pass.ready[c]
    IN  /\ pc = "pick"
        /\ c \in Eligible
        /\ \A d \in Eligible : count.inflight[c] <= count.inflight[d]
        /\ inWindow \subseteq Due(c)
        /\ contact' = IF isRefill
                      THEN DeferredContacts(HeldByFrequency(c) \cup (Due(c) \ inWindow))
                      ELSE contact
        /\ pass' = [pass EXCEPT !.ready[c] = ready,
                                !.open = IF ready = {} THEN @ \ {c} ELSE @]
        /\ pc' = IF ready = {} THEN "pick" ELSE "admit"
        /\ turn' = IF ready = {} THEN NoCampaign ELSE c
        /\ UNCHANGED <<campaign, att, nAtt, dnc, ledger, log, aged>>
        /\ UNCHANGED <<cur, todo, dncDirty, flights, answered, count, halted, since, inbox>>
        /\ UNCHANGED <<call, writes, spent, begunAt>>

\* The dialer's own limits. Bot slots and DID lines are outside this module.
IsAtLimit(c) == count.inflight[c] >= MaxConcurrent \/ count.ringing >= MaxRinging

LimitBlocks ==
    /\ pc = "admit"
    /\ IsAtLimit(turn) \/ Bound.blocks
    /\ pass' = [pass EXCEPT !.open = @ \ {turn}]
    /\ pc' = "pick"
    /\ turn' = NoCampaign
    /\ UNCHANGED <<tables, cur, todo, dncDirty, flights, answered, count, halted, since, inbox>>
    /\ UNCHANGED <<call, writes, spent, begunAt>>

\* admit: the attempt is written ahead and the call is in flight before it is
\* placed; a contact that can no longer be dialled is passed over.
Admit(x) ==
    /\ pc = "admit"
    /\ ~IsAtLimit(turn)
    /\ x \in pass.ready[turn]
    /\ pass' = [pass EXCEPT !.ready[turn] = @ \ {x}]
    /\ \/ /\ Begin(x)
          /\ Fly(nAtt + 1, turn)
          /\ cur' = nAtt + 1
          /\ pc' = "place"
       \/ /\ ~CanBegin(x) \/ nAtt = MaxCalls
          /\ pc' = "pick"
          /\ UNCHANGED <<tables, flights, answered, count, cur>>
    /\ turn' = NoCampaign
    /\ UNCHANGED <<todo, dncDirty, halted, since, inbox, call, writes, spent, begunAt>>

-----------------------------------------------------------------------------
(***************************************************************************)
(* The answer of PlaceAI, and dialFailed.                                  *)
(***************************************************************************)
Placed == pc = "place" /\ pc' = "pick" /\ cur' = 0

\* Sent to the switch, confirmed or not.
PlaceSent ==
    /\ Placed
    /\ NumberOfCall(cur) \notin dnc
    /\ call' = [call EXCEPT ![cur] = "placing"]
    /\ UNCHANGED <<tables, turn, todo, dncDirty, flights, answered, count, halted, since, pass>>
    /\ UNCHANGED <<inbox, writes, spent, begunAt>>

\* Nothing was sent (not ready, or no line free): the attempt never happened.
PlaceVoid ==
    /\ Placed
    /\ \/ /\ spent.voids < Bound.voids
          /\ spent' = [spent EXCEPT !.voids = @ + 1]
          /\ Void(cur)
          /\ Drop(cur)
          /\ UNCHANGED campaign
       \/ StoreFails /\ UNCHANGED <<tables, flights, answered, count>>
    /\ UNCHANGED <<turn, todo, dncDirty, halted, since, pass, inbox, call, writes, begunAt>>

\* No outbound endpoint: void, admit nothing more in this pass, and pause. Either
\* the void or the pause may fail without stopping the other.
PlaceNoEndpoint ==
    LET c       == CampaignOfCall(cur)
        Paused  == IF IsRunning(c)
                   THEN /\ campaign' = PausedFor(c, "OUTBOUND_NOT_CONFIGURED")
                        /\ halted' = halted \cup {c}
                   ELSE UNCHANGED <<campaign, halted>>
    IN  /\ Placed
        /\ pass' = [pass EXCEPT !.stopped = @ \cup {c}]
        /\ \/ /\ spent.voids < Bound.voids
              /\ spent' = [spent EXCEPT !.voids = @ + 1]
              /\ Void(cur) /\ Drop(cur) /\ Paused
           \/ StoreFails /\ Void(cur) /\ Drop(cur) /\ UNCHANGED <<campaign, halted>>
           \/ /\ StoreFails /\ Paused
              /\ UNCHANGED <<contact, att, nAtt, dnc, ledger, log, aged, flights, answered, count>>
        /\ UNCHANGED <<turn, todo, dncDirty, since, inbox, call, writes, begunAt>>

\* The placer refused the number or the switch refused the call: the attempt is
\* finished and the breakers are judged at once.
PlaceRefused(o) ==
    /\ Placed
    /\ o = "DNC_SKIPPED" <=> NumberOfCall(cur) \in dnc
    /\ \/ /\ Finish(cur, o)
          /\ inbox' = inbox \cup AnnouncedByFinish(cur, o)
          /\ Drop(cur)
          /\ JudgeBreakers(CampaignOfCall(cur), o, log', att')
          /\ UNCHANGED spent
       \/ StoreFails /\ UNCHANGED <<tables, inbox, flights, answered, count, halted>>
    /\ UNCHANGED <<turn, todo, dncDirty, since, pass, call, writes, begunAt>>

\* Mutant of Complete: the calls in flight are not looked at.
CompleteMutant(c) == c \in pass.live \ halted /\ IsExhausted(c)

\* account: a campaign with nothing ACTIVE and nothing in flight is complete.
Complete(c) == c \in pass.live \ halted /\ count.inflight[c] = 0 /\ IsExhausted(c)

EndPass ==
    /\ pc = "pick"
    /\ Eligible = {}
    /\ campaign' = [c \in Campaigns |->
                       IF Complete(c) THEN [status |-> "COMPLETED", reason |-> "NONE"]
                                      ELSE campaign[c]]
    /\ pass' = NoPass
    /\ pc' = "wait"
    /\ UNCHANGED <<contact, att, nAtt, dnc, ledger, log, aged>>
    /\ UNCHANGED <<cur, turn, todo, dncDirty, flights, answered, count, halted, since, inbox>>
    /\ UNCHANGED <<call, writes, spent, begunAt>>

-----------------------------------------------------------------------------
(***************************************************************************)
(* The switch, the writers of call records, the clock and crashes.         *)
(***************************************************************************)
TakenOutcomes == Observed \cap AnsweredOutcomes

MissedOutcomes ==
    Observed \cap {"NO_ANSWER", "BUSY", "REJECTED", "UNKNOWN", "TRANSIENT", "INVALID_NUMBER"}

RefusedOutcomes == Observed \cap (CustomerSide \cup {"ORIGINATE_FAILED"})

Post(M) == inbox' = IF IsUp THEN inbox \cup M ELSE inbox

\* The switch runs the originate and has a channel.
ChannelUp(k) ==
    /\ call[k] = "placing" \/ (call[k] = "adrift" /\ att[k].contact \in Bound.lates)
    /\ call' = [call EXCEPT ![k] = IF @ = "placing" THEN "ringing" ELSE "late"]
    /\ UNCHANGED <<tables, actor, writes, spent, begunAt>>

\* The originate fails before there is a channel. Outbound writes the CDR of the
\* failed placement before it lets the call go.
PlacementFails(k) ==
    /\ call[k] = "placing"
    /\ call' = [call EXCEPT ![k] = "missed"]
    /\ \/ /\ \E o \in RefusedOutcomes : InsertCDR(k, o, FALSE) /\ Post(Announced(k, o, FALSE))
          /\ UNCHANGED spent
       \/ StoreFails /\ UNCHANGED <<tables, inbox>>
    /\ UNCHANGED <<actorButInbox, writes, begunAt>>

\* Nothing was heard of the originate within its window. An unconfirmed one is
\* recorded as failed, one whose job was confirmed leaves no row; the switch may
\* run either afterwards.
PlacementExpires(k) ==
    /\ call[k] = "placing" /\ att[k].contact \in Bound.lates
    /\ call' = [call EXCEPT ![k] = "adrift"]
    /\ \/ \E o \in Observed \cap {"ORIGINATE_FAILED"} :
             InsertCDR(k, o, FALSE) /\ Post(Announced(k, o, FALSE))
       \/ UNCHANGED <<tables, inbox>>
    /\ UNCHANGED <<actorButInbox, writes, spent, begunAt>>

\* The customer picks up; the answer observer tells the actor. Outbound ends a
\* late leg on sight, but the customer may be quicker.
Answer(k) ==
    /\ call[k] \in {"ringing", "late"}
    /\ call' = [call EXCEPT ![k] = IF @ = "ringing" THEN "talking" ELSE @]
    /\ Post({[type |-> "answered", call |-> k]})
    /\ UNCHANGED <<tables, actorButInbox, writes, spent, begunAt>>

\* record_lead during the conversation; the last one wins.
RecordLead(k, lead) ==
    /\ IsUp
    /\ call[k] \in {"talking", "late"}
    /\ SetLead(k, lead)
    /\ UNCHANGED <<actor, call, writes, spent, begunAt>>

\* The call leaves the registry, and its CDR is still to be written: by the CDR
\* assembler and, for a conversation, perhaps by the bot session as well.
Hangup(k) ==
    /\ call[k] \in {"ringing", "talking", "late"}
    /\ call' = [call EXCEPT ![k] = CASE @ = "ringing" -> "missed" [] @ = "talking" -> "taken"
                                      [] @ = "late"    -> "over"]
    /\ \E n \in (IF call[k] = "ringing" THEN {1} ELSE 1..Bound.writers) :
          writes' = [writes EXCEPT ![k] = IF IsUp THEN n ELSE 0]
    /\ UNCHANGED <<tables, actor, spent, begunAt>>

EndedOutcomes(k) ==
    (IF call[k] # "missed" THEN TakenOutcomes ELSE {})
        \cup (IF call[k] # "taken" THEN MissedOutcomes ELSE {})

\* A write lands, over the record of a failed placement too; one that saw less
\* than the row in place is declined.
WriteCDR(k) ==
    /\ writes[k] > 0
    /\ writes' = [writes EXCEPT ![k] = @ - 1]
    /\ \/ \E o \in EndedOutcomes(k),
             isMore \in BOOLEAN :
             InsertCDR(k, o, isMore) /\ Post(Announced(k, o, isMore))
       \/ ledger[k] # NoCDR /\ UNCHANGED <<tables, inbox>>
    /\ UNCHANGED <<actorButInbox, call, spent, begunAt>>

\* A write times out or fails; it is not tried again.
LoseCDR(k) ==
    /\ writes[k] > 0
    /\ writes' = [writes EXCEPT ![k] = @ - 1]
    /\ StoreFails
    /\ UNCHANGED <<tables, actor, call, begunAt>>

\* The contact's time comes (or the operator widens its window). A retry waits
\* at least a minute, a CDR write at most five seconds; but that of a late call
\* may be under way when the contact is due.
ComesDue(x) ==
    /\ contact[x].next = "LATER"
    /\ \A k \in AttemptsOf(x) : writes[k] = 0 \/ IsLate(k)
    /\ contact' = [contact EXCEPT ![x].next = "DUE"]
    /\ UNCHANGED <<campaign, att, nAtt, dnc, ledger, log, aged>>
    /\ UNCHANGED <<actor, call, writes, spent, begunAt>>

\* A touch leaves the frequency window; only where another campaign waits for it.
TouchAges(k) ==
    /\ IsFinished(k) /\ IsTouched(att[k].outcome) /\ k \notin aged
    /\ \E x \in Contacts : NumberOf[x] = NumberOfCall(k) /\ CampaignOf[x] # CampaignOfCall(k)
    /\ aged' = aged \cup {k}
    /\ UNCHANGED <<campaign, contact, att, nAtt, dnc, ledger, log>>
    /\ UNCHANGED <<actor, call, writes, spent, begunAt>>

\* Whoever waited for an originate under way is gone with the process.
Crash ==
    /\ IsUp
    /\ spent.crashes < Bound.crashes
    /\ spent' = [spent EXCEPT !.crashes = @ + 1]
    /\ pc' = "down" /\ cur' = 0 /\ turn' = NoCampaign /\ todo' = {}
    /\ dncDirty' = TRUE
    /\ flights' = {} /\ answered' = {} /\ count' = NothingInFlight
    /\ halted' = {} /\ since' = [c \in Campaigns |-> 0]
    /\ pass' = NoPass /\ inbox' = {}
    /\ writes' = [k \in Calls |-> 0]
    /\ call' = [k \in Calls |-> IF call[k] = "placing" THEN "adrift" ELSE call[k]]
    /\ UNCHANGED <<tables, begunAt>>

Restart ==
    /\ pc = "down"
    /\ pc' = "start"
    /\ UNCHANGED <<tables, cur, turn, todo, dncDirty, flights, answered, count, halted, since>>
    /\ UNCHANGED <<pass, inbox, call, writes, spent, begunAt>>

-----------------------------------------------------------------------------
Commands ==
    \/ \E c \in Campaigns : \/ StartCampaign(c) \/ PauseCampaign(c)
                            \/ ResumeCampaign(c) \/ CancelCampaign(c)
    \/ \E x \in Contacts : ImportContact(x)
    \/ \E n \in Numbers : ListNumber(n)

HandleMessage ==
    \E m \in inbox : HandleFinished(m) \/ HandleAnswered(m) \/ HandleListed(m)

PassStep ==
    \/ RecoverAttempts \/ (\E k \in todo : RecoverAttempt(k)) \/ Recovered
    \/ FinishUnknown
    \/ BeginPass
    \/ (\E x \in Contacts : SkipBegin(x)) \/ SkipFinish \/ SkipDone
    \/ \E c \in Campaigns : \E inWindow \in SUBSET Due(c) : PickCampaign(c, inWindow)
    \/ LimitBlocks \/ (\E x \in Contacts : Admit(x))
    \/ PlaceSent \/ PlaceVoid \/ PlaceNoEndpoint
    \/ \E o \in {"DNC_SKIPPED"} \cup (Observed \cap {"INVALID_NUMBER", "ORIGINATE_FAILED"}) :
          PlaceRefused(o)
    \/ EndPass

CallStep(k) ==
    \/ ChannelUp(k) \/ PlacementFails(k) \/ PlacementExpires(k)
    \/ Answer(k) \/ Hangup(k) \/ WriteCDR(k) \/ LoseCDR(k)
    \/ \E lead \in Bound.leads : RecordLead(k, lead)

Next ==
    \/ Commands
    \/ HandleMessage
    \/ \E k \in Calls : CheckBackstop(k)
    \/ PassStep
    \/ \E k \in Calls : CallStep(k) \/ TouchAges(k)
    \/ \E x \in Contacts : ComesDue(x)
    \/ Crash
    \/ Restart

Spec == Init /\ [][Next]_vars

\* What the actor's loop and the world guarantee: the loop goes on; it empties
\* the mailbox and checks the backstops before every pass; an originate runs
\* or fails, if nobody gives it up; a switch call ends and its CDR write returns; time
\* passes; calling windows open; the application is restarted. Nothing is assumed
\* of commands and crashes.
Fairness ==
    /\ WF_vars(PassStep)
    /\ SF_vars(HandleMessage)
    /\ \A k \in Calls :
          /\ SF_vars(CheckBackstop(k))
          /\ WF_vars(call[k] = "placing" /\ (ChannelUp(k) \/ PlacementFails(k)))
          /\ WF_vars(Hangup(k))
          /\ WF_vars(WriteCDR(k) \/ LoseCDR(k))
          /\ WF_vars(TouchAges(k))
    /\ \A x \in Contacts : WF_vars(ComesDue(x))
    /\ \A c \in Campaigns :
          SF_vars(\E inWindow \in SUBSET Due(c) \ {{}} : PickCampaign(c, inWindow))
    /\ WF_vars(Restart)

FairSpec == Spec /\ Fairness

-----------------------------------------------------------------------------
(***************************************************************************)
(* Properties.                                                             *)
(***************************************************************************)
\* Type correctness of the tables, the actor's memory and the world.
TypeOK ==
    /\ StoreTypeOK
    /\ pc \in {"down", "start", "recover", "recoverUnknown", "wait", "unknown", "dnc", "skip",
              "pick", "admit", "place"}
    /\ cur \in 0..MaxCalls
    /\ turn \in Campaigns \cup {NoCampaign}
    /\ todo \subseteq Calls
    /\ dncDirty \in BOOLEAN
    /\ flights \subseteq Calls /\ answered \subseteq flights
    /\ count \in [inflight : [Campaigns -> Nat], ringing : Nat, talking : Nat]
    /\ halted \subseteq Campaigns
    /\ since \in [Campaigns -> Nat] /\ begunAt \in [Campaigns -> Nat]
    /\ pass \in [ live : SUBSET Campaigns, open : SUBSET Campaigns, stopped : SUBSET Campaigns,
                  ready : [Campaigns -> SUBSET Contacts] ]
    /\ inbox \subseteq Messages
    /\ call \in [Calls -> CallStates]
    /\ writes \in [Calls -> 0..2]
    /\ spent.crashes <= Bound.crashes /\ spent.errors <= Bound.errors /\ spent.voids <= Bound.voids

\* No number is called twice at once, by one campaign or by two, whatever
\* crashes and however calls and records interleave (the unique index on the
\* numbers in flight, with Begin, recoverAttempts and reconcile around it). The
\* exception is a late call: by the time the switch runs an originate that was
\* given up, its window over or its process gone, the number may be called again.
OneCallPerNumber ==
    \A j, k \in Calls :
        /\ IsLive(j) /\ ~IsLate(j) /\ IsLive(k) /\ ~IsLate(k)
        /\ NumberOfCall(j) = NumberOfCall(k)
        => j = k

\* A call the switch still carries has an attempt in flight: nothing settles an
\* attempt under a live call (reconcile, recoverAttempts, checkBackstops), but
\* for a late one, whose originate the switch ran after it was given up.
LiveIsDialing == \A k \in Calls : IsLive(k) /\ ~IsLate(k) => IsDialing(k)

\* Once a restart has been reconciled, every attempt in flight is watched: it
\* is a flight of the actor, or the one being skipped right now. (A store that
\* fails while the restart lists its attempts, or while one is skipped, leaves an
\* attempt nobody watches until the next restart.)
DialingIsWatched ==
    spent.errors = 0 /\ pc \notin {"down", "start", "recover", "recoverUnknown"} =>
        \A k \in Calls : IsDialing(k) => k \in flights \/ (pc = "skip" /\ k = cur)

\* The counters that the limits are judged by are those of the flights: drop
\* returns what admit, recoverAttempts and the answer took, exactly once.
CountersAgree ==
    /\ \A c \in Campaigns :
          count.inflight[c] = Cardinality({k \in flights : CampaignOfCall(k) = c})
    /\ count.talking = Cardinality(answered)
    /\ count.ringing = Cardinality(flights \ answered)

\* An attempt never disagrees with the ledger: a call with a CDR is finished
\* with the outcome of that CDR, whoever finished it first.
LedgerAgrees == \A k \in Calls : ledger[k] # NoCDR => IsFinished(k) /\ att[k].outcome = ledger[k]

\* A call is counted once however many revisions it goes through: a contact's
\* counters are those of its finished attempts.
CountedOnce ==
    \A x \in Contacts :
        LET spentOn(class) == Cardinality({k \in AttemptsOf(x) :
                                   IsFinished(k) /\ ClassOf(att[k].outcome) = class})
        IN  /\ contact[x].counters.attempts = spentOn("REACHED")
            /\ contact[x].counters.systemFailures = spentOn("SYSTEM")

\* A contact recorded as having picked up, or that left a lead, is not called
\* again in its campaign, whenever that was recorded: by the first record of the
\* call, by a later one that revises it, or by record_lead before a crash that
\* loses the rest. It is about what is recorded: a customer who picked up and
\* left no lead, and whose call ended while the application was down, is an
\* UNKNOWN and is called again. And one who picks up a late call may have been
\* called again by then. (An attempt that skips a listed number calls nobody.)
NotCalledAgain ==
    \A x \in Contacts : \A j, k \in AttemptsOf(x) :
        /\ att[j].lead # NoLead \/ (att[j].outcome \in AnsweredOutcomes /\ ~IsLate(j))
        /\ call[k] # "none"
        => k <= j

\* A completed campaign has no attempt in flight, and no call in the switch but a
\* late one. (The attempt left unwatched by a failed listing at the restart is
\* the exception: completion is judged by the actor's own count of flights.)
CompletedIsQuiet ==
    spent.errors = 0 =>
        \A k \in Written : campaign[CampaignOfCall(k)].status = "COMPLETED" =>
                              ~IsDialing(k) /\ (IsLive(k) => IsLate(k))

\* A contact on the do-not-call list stays there, whatever its call in flight
\* comes to.
DNCIsFinal ==
    [][\A x \in Contacts : contact[x].status = "DNC" => contact'[x].status = "DNC"]_vars

\* The breakers judge the run since the last start or resume: a campaign paused
\* for its trunk has just failed that many times in a row, in that run, and one
\* paused for its provider lost the bot of that many conversations in a row. Only
\* while the application has not crashed: where the run began is not stored, so
\* a restarted dialer judges the failures before the resume as well.
BreakerJudgesItsRun ==
    [][spent.crashes = 0 => \A c \in Campaigns :
          LET run     == OutcomesSince(c, begunAt[c], log', att')
              talks   == SelectSeq(run, LAMBDA o : o \in {"ANSWERED", "BOT_FAILED"})
              Tripped(reason) == campaign'[c].reason = reason /\ campaign[c].reason # reason
          IN  /\ Tripped("TRUNK_FAILURE") =>
                    /\ Len(run) >= TrunkBreakerCount
                    /\ \A i \in 1..TrunkBreakerCount : run[i] \in SystemOutcomes
              /\ Tripped("PROVIDER_FAILURE") =>
                    /\ Len(talks) >= ProviderBreakerCount
                    /\ \A i \in 1..ProviderBreakerCount : talks[i] = "BOT_FAILED"]_vars

\* Every attempt written ahead is settled in the end: by its CDR, the backstop
\* or the reconciliation of a restart.
AttemptsSettle == \A k \in Calls : IsDialing(k) ~> ~IsDialing(k)

\* Every contact of a running campaign comes to its end, unless the campaign is
\* stopped or the number is listed (see ListedIsSkipped).
CampaignDrains ==
    \A x \in Contacts :
        (IsRunning(CampaignOf[x]) /\ contact[x].status = "ACTIVE")
            ~> (~IsRunning(CampaignOf[x]) \/ contact[x].status # "ACTIVE" \/ NumberOf[x] \in dnc)

\* Another contact with the number is being called.
IsNumberBusy(x) ==
    \E k \in Calls : /\ IsDialing(k) /\ NumberOfCall(k) = NumberOf[x]
                     /\ att[k].contact # x

\* A waiting contact of a running campaign whose number is listed is skipped,
\* once the actor has been told to look (by DNCAdded, a start, a resume or a
\* restart), even if it crashes on the way; unless the number is being called
\* for another campaign. The sweep then passes the contact by, and no other is
\* due until the actor is told again.
ToldIsSkipped ==
    \A x \in Contacts :
        (x \in DNCContacts /\ (dncDirty \/ [type |-> "dnc"] \in inbox))
            ~> (\/ ~IsRunning(CampaignOf[x]) \/ contact[x].status # "ACTIVE"
                \/ IsNumberBusy(x))

\* A waiting contact of a running campaign whose number is listed is skipped,
\* however the number came to be listed.
ListedIsSkipped ==
    \A x \in Contacts :
        (x \in DNCContacts) ~> (~IsRunning(CampaignOf[x]) \/ contact[x].status # "ACTIVE")
=============================================================================
