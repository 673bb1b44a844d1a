# TLA+ models of the AI-native call center

The program is one Go binary between FreeSWITCH (commands and events over ESL,
SIP and RTP towards the bot), PostgreSQL (the tables every decision is made
from) and realtime speech providers. This directory holds TLA+ models of the
parts of it whose correctness depends on *order*: who writes a row first, what a
restart finds, which timer fires under which lock. The models are checked with
TLC on small instances; the dialer, outbound calling, the registry of calls, the
event socket, an agent's presence, the bot-slot counter and the life of a contact are
also proved correct with TLAPS for every value of their constants.

Contents: [inventory](#1-inventory), [modules and code](#2-modules-and-the-code-they-model),
[runs](#3-runs-bounds-and-what-they-show), [fairness](#4-fairness),
[proofs](#5-proofs), [findings](#6-findings), [limits](#7-what-is-not-shown),
[what remains](#8-what-remains).

## 1. Inventory

Paths are relative to the repository root. `PROJECT.json` lists the same
components with their status, and the hazards of each at the line where they
bite.

| Component | State it keeps | Operations | Talks to |
|---|---|---|---|
| Campaign rules (`internal/campaign`: outcome, settle, retry, breaker) | none (pure) | Classify, ClassOf, Settle, Add/Remove, TrunkBreakerTrips, ProviderBreakerTrips | the tables' finish routine, the dialer |
| Campaign tables (`internal/store`: campaignattempts, dialerstore, campaignstore, ledgerstore, dncstore and their SQL) | campaigns, contacts, attempts, do-not-call numbers, CDRs | Begin, SetLead, Finish, Void, InsertCDR, Due, HeldByFrequency, Defer, Complete, PauseFor, Start/move, ImportContacts, Add to the list | dialer, CDR writers, API, conversations |
| Campaign dialer (`internal/dialer`) | flights, counters, halted campaigns, breaker runs, mailbox, next wake | one actor: commands, mailbox, recovery, backstops, the do-not-call sweep, admission, completion | tables, outbound placement, bot slots, lines |
| Calling windows (`internal/campaign/schedule.go`, `window.go`) | none | IsOpen, NextOpen, NextStart | dialer |
| Capacity statistics (`internal/campaign/capacity.go`) | answer samples, overflow state | Bound, Observe, overflow hysteresis | dialer |
| Campaign service (`internal/campaign/service.go`, `contacts.go`) | none of its own | create, update, start, pause, resume, cancel, import | tables, dialer commands |
| Outbound placement (`internal/outbound`: outbound, jobs, unconfirmed, adopt, lines, limiter) | claims, tracked jobs, unconfirmed originates, armed continuations, late and reaped legs, line counts | PlaceAI, Dial, HandleSwitchEvent, failPlacement, Recover | ESL, registry, dialer, ledger |
| Bridge to the bot (`internal/outbound/bridge.go`) | pending bridges | takeSlot, keepForBridge, awaitBridge, settleBridge, bridgeExpired | bot slots, ESL |
| Bot slots (`internal/voice/slots.go`) | inUse, reservations with timers, withdrawn keys, waiting legs, the wake channel | TryAcquire, Free, Consume, Release, Keep, Withdraw, Reserve, ReserveWait, expire | SIP UAS, bridge, dialer |
| SIP UAS and media (`internal/voice`) | dialogs, retransmissions, RTP ports | INVITE, ACK, BYE, INFO, OPTIONS | FreeSWITCH, AI session, bot slots |
| Call registry and coordinator (`internal/telephony`) | one actor per call with its mailbox, parties, channel bindings, transfer claims, the waiting line | channel events, adoption, late naming, join, merge, transfer, adoption after a reconnect, EndLeg | ESL, agents, events, CDR |
| CDR assembly (`internal/telephony/cdr.go`) | none | CallFinished: decide who writes, write in a goroutine with a 5 s timeout | ledger |
| Agents (`internal/agents`) | presence in memory, the row, the status the switch routes by, what is known of each phone | sign in/out, ready, break, wrap-up, no answer, roster, phone signals, restore, mirror | registry, ESL, store |
| Event hub (`internal/events`) | subscribers, replay buffer, sequence | publish, subscribe, resume | SSE API, webhooks |
| Webhooks (`internal/webhook`) | deliveries, attempts | claim, deliver, retry, retention | HTTP |
| ESL client and link (`internal/esl`) | the write turn, waiters in order, two event channels, the current client | command, read loop, connect, pump, lost | FreeSWITCH, everything that commands it |
| AI session, flows, providers (`internal/aicall`, `flow`, `provider`) | conversation phase, tool calls | turns, tools (record_lead, transfer...), hand-over | UAS, registry, tables |
| Transcripts, recordings, post-call (`internal/transcript`, `transcribe`, `streamin`, `recording`, `postcall`, `wrapupdraft`) | queues of work | append, transcribe, summarise | store, providers |
| HTTP API, auth, catalog, configuration; web client; switch configuration; deployment; load and end-to-end test tools | | CRUD and presentation | |

**How they interact.** The dialer writes an attempt *ahead* of the call (Begin),
asks the outbound service to place it, and learns the result from two
directions: the return of `PlaceAI`, and the settlement that any CDR writer (the
telephony assembler, the bot's session, the placement-failure path, a
reconciliation) commits in the transaction of the CDR and then posts to the
actor's mailbox (`OnAttemptFinished`, wired in `cmd/aicc/main.go`). An answered
AI leg reserves a bot slot before it is transferred to the bot; the bot's INVITE
consumes the reservation. Calls survive the application: after a restart the
switch is listed, the registry adopts what it holds, and only then does the
dialer reconcile its attempts.

**What is hard here.**

- *Crashes between steps.* Between Begin and the originate, between an answer
  and its CDR, between a listing and its sweep. The tables and the switch
  survive, the actor's memory does not.
- *Two writers of one fact.* A reconciliation settles an attempt UNKNOWN while
  the CDR's writer has the true outcome; a fuller CDR revises an attempt that
  was charged already.
- *Stale reads.* A batch of due contacts is read, judged and dialled later; a
  campaign completes on counters and one SQL condition.
- *Lost answers.* A CDR write that times out is not retried; a mailbox dies with
  the process; a reply to an originate can be lost.
- *Timers racing their cancellation.* Reservation timers, hold timers, bridge
  windows.
- *Commands of unknown outcome.* A command that timed out may have run, may run
  later or never will; the switch's own events say which, in any order.
- *A link that drops.* Events of that time are gone for good; a listing taken
  afterwards races the events that follow it and the actors behind them.
- *Actors that lag.* A call's own goroutine applies an event later than the
  coordinator has handled it, and later than the next one.
- *Copies written after the lock.* An agent's presence, its row and the status in
  the switch are three writes.
- *Everything must end.* An attempt left DIALING blocks its number in every
  campaign (a unique index); a lost slot shrinks the pool for the life of the
  process.

**What makes each modelled part correct.**

- Rules: a contact's counters are its attempts recounted; nobody who picked up
  or left a lead is redialled; the two budgets bound the dials.
- Tables and dialer: one call per number; no attempt settled under a live call;
  no attempt in flight unwatched; counters equal flights; the attempt agrees with
  the ledger; the list is final; a completed campaign is quiet; every attempt
  settles and every contact of a running campaign comes to its end.
- Outbound: one leg per call at a time; a continuation runs once; nobody talking
  to the bot is hung up; nobody is left parked in silence; a placement recorded
  as failed does not ring on; lines follow calls; every placement leaves a row.
- Calls: when all that was said has been applied the registry, the agents' on-call
  flags and the waiting line are what the switch has; bridged legs are one call;
  a leg is in one row; after-call work is for a call that exists.
- ESL: an answer goes to the command it answers; ErrDown means not run; nobody
  waits longer than the timeout; the newest event survives.
- Presence: READY means a phone; the three copies come to agree.
- Bot slots: never over capacity; every reservation ends once; every slot in use
  has one dialog; no wake-up is missed; a withdrawn key is refused; an old timer
  never ends a newer reservation; every parked leg returns.

## 2. Modules and the code they model

| Module | Models | Role |
|---|---|---|
| `CampaignRules` | `internal/campaign/{outcome,settle,retry,breaker,types}.go` | pure operators; no variables |
| `ContactLife` | `attemptFinisher.apply` seen from one contact | the rules under every sequence of endings and revisions |
| `CampaignStore` | `internal/store` transactions on the campaign tables | variables of the tables, one operator per transaction |
| `CampaignDialer` | `internal/dialer`, plus the switch, the CDR writers, operators and crashes around it | EXTENDS `CampaignStore` |
| `SwitchLink` | the part of FreeSWITCH outbound calling depends on: legs, originates, transfers, hangups, and an event stream that loses, and may reorder, what it carries when the link drops | variables of the switch and the wire |
| `Outbound` | `internal/outbound`, with the registry, the ledger and the slot as far as it asks them | EXTENDS `SwitchLink` |
| `Calls` | `internal/telephony`: registry, coordinator, transfers, waiting line, reconciliation | one module |
| `EslCommand` | what `Client.command` and its errors promise | abstract specification |
| `EslClient` | `internal/esl/{client,link}.go` | refines `EslCommand` |
| `AgentPresence` | `internal/agents/{service,state}.go`, `onSwitchConnected` of `cmd/aicc/wiring.go` | one agent and its three copies |
| `BotSlots` | `internal/voice/slots.go`, the slot handling of `uas.go`, the calls of `internal/outbound` | the counter and the parties that race on it |
| `ContactLifeProofs`, `CampaignDialerProofs`, `OutboundProofs`, `CallsProofs`, `EslClientProofs`, `AgentPresenceProofs`, `BotSlotsProofs` | | theorems about the module each is named after |
| `LiveCallsProofs` | | EXTENDS `CallsProofs`: theorems about live legs and after-call work |
| `MCContactLife`, `MCCampaignDialer`, `MCOutbound`, `MCCalls`, `MCEslClient`, `MCAgentPresence`, `MCBotSlots` | | instances for TLC |

Definitions whose name ends in `Mutant` (and `ContactAfterRecharged`,
`ContactAfterUntimed`, `ReleaseLegTwice`, `ReleaseLegInOrder`, `ReplayForgets`,
`TimeOutWaits`) are not part of any specification. Each is a plausible
mistake in the definition that follows it, kept to show that the property it is
paired with in `PROJECT.json` notices the mistake.

### CampaignRules and ContactLife

`Classify` maps the facts of a CDR (answered, hangup cause, bot leg failed, has a
bot, placement failure) to an outcome with the code's cascade; `ClassOf` puts an
outcome in the budget it is charged to; `Settle` gives the contact's next status.
The policy is a constant, constrained the way `RetryPolicy.Normalize` leaves one.
`ContactLife` has two actions: `Dial` (a call and its ending) and `Revise` (a
fuller CDR of any earlier attempt, which hands back the old cost, charges the
new one and lets only the latest attempt decide the contact's status).

### CampaignStore and CampaignDialer

Times are abstracted to what the queries ask of them: a contact's
`next_attempt_at` is NULL, later or due; the position of an attempt in `log`, the
sequence in which attempts finished, stands for `finished_at`; a touch is inside
the frequency window until `TouchAges`. A call id is a number `1..MaxCalls`,
given out in the order of Begin.

| Variable | In the code |
|---|---|
| `campaign`, `contact`, `att`, `dnc`, `ledger` | the tables of the same names |
| `log`, touches | `finished_at` and `is_touched` of finished attempts |
| `flights`, `answered`, `count` | `Dialer.flights`, `flight.isTalking`, `inflight`/`ringing`/`talking` |
| `halted`, `since`, `dncDirty` | fields of the same names |
| `pass` | the local buckets of `pass` |
| `inbox` | the mailbox; a set, because several goroutines post to it |
| `pc`, `cur`, `turn`, `todo` | where the actor is between two calls that leave its goroutine |
| `call`, `writes` | the switch's call and the CDR writes still to come for it |
| `begunAt` | history only: when the campaign last started or resumed |

The actor's handlers are single steps only as far as they are one goroutine
between two transactions. A pass is therefore many steps: `BeginPass`, the sweep
(`SkipBegin`, `SkipFinish`, `SkipDone`), a choice of campaign with its batch
(`PickCampaign`), the limits (`LimitBlocks`), the attempt (`Admit`), the result of
`PlaceAI` (`PlaceSent`, `PlaceVoid`, `PlaceNoEndpoint`, `PlaceRefused`), and
`EndPass` with the completions. Between any two of them the world moves: a
channel comes up, is answered, records a lead, hangs up; CDRs are written, lost
or revised; numbers are listed; the application crashes (`Crash`) and comes back
(`Restart`, `RecoverAttempts`, `RecoverAttempt`, `Recovered`).

A reconciliation is two transactions in the code and two steps here: the ledger is
asked (`Reconcile`), and only then is the attempt ended as UNKNOWN
(`FinishUnknown`), with CDR writers free to commit in between.

`PlaceAI` is a single step that either sends the originate or refuses: what
happens inside it is the subject of `Outbound`. Bot slots and DID lines are one
nondeterministic refusal. What a behaviour may contain (contacts imported,
commands, listings, leads, crashes, store errors) is one record of `Scenarios`,
chosen by `Init`.

### SwitchLink and Outbound

| Variable | In the code |
|---|---|
| `req`, `placing` | a request inside `PlaceAI` or `Dial`; `Service.placing` |
| `job`, `seen`, `kept`, `expiry` | `jobs`, `legJobs`, `hadChannel`, an early result, `unconfirmedExpired` between its critical sections |
| `pend` | `Service.pending`: armed, answered, released |
| `late`, `answered`, `reaped` | legs given up on, answers seen lately, legs asked to end |
| `lines` | the reservations of `Lines` |
| `cont`, `holds`, `backed`, `slot`, `withdrawn` | a continuation's goroutine, the slot hold, `isReserved` of its bridge, the call's slot, refused calls |
| `ready`, `rec`, `listing`, `todo`, `known` | the admission gate and `reconcileLive` |
| `reg`, `at` | the registry, and the event `dispatchSwitchEvents` has given to the registry but not yet to the service |
| `cdr`, `due`, `failing` | the ledger, rows of ended calls and placement-failure rows on their way |

A step is one critical section of the service's mutex, or one command, read or
write outside it. The originate's reply, its BACKGROUND_JOB result and the
channel's events travel apart and come in any order; each is lost if the link
drops. A timer may fire whenever it is armed, unless a guard says what it
outlasts: an answer is told after the reply to the originate was handled
(`IsPrompt`: the switch answers within milliseconds, a person within seconds);
an originate's window outlasts its leg's own timeout, and the window of one whose
reply was lost also outlasts what is told of the call's other legs (its own channel
may be told at the last moment); the 30 s memory of reaped
legs outlasts a command; a reconnect waits a second, which the process's earlier
commands use to return; a cold start lists after the switch has run what the old
process had sent.

### Calls

A channel's events carry the call id only once the dialplan has set it, so a leg
may be known under an id of its own first. The coordinator handles one event at a
time (`Handle`): it adopts, names or joins calls and posts to their actors; an
actor applies the event later (`ApplySwitchEvent`, through `mailbox`), and a call
that ended stays registered until its actor has returned (`Unregister`). A
`Reconnect` lists the channels and replays those the registry does not own, ends
those that vanished, and rebuilds the waiting line. `CallsAssumption` says what a
plan of legs is: a leg that is named at its creation, or queues, has a call id, and
a leg that points back was raised for one that is made. Three further predicates on
plans are hypotheses of theorems, and `MCCalls` asserts that the plans of its run
satisfy all three:

| Predicate | Says | In the switch's configuration |
|---|---|---|
| `Conversations` | a raised leg raises none itself and has its caller's call id or none, none when it points back; ids are not channel names | the dialplan mints an id on the leg that enters it; `aicc_parent_channel` is exported to the legs it dials, which the queue or the bridge raises |
| `NamedInTime` | an id is minted for one leg; a leg with an id that raises others was stamped with it or waits in a queue | outbound legs carry `aicc_call_id` from the originate, callers from outside get it before `callcenter` runs |
| `KeptTogether` | of the legs raised for one that has no id, each points back or there is one alone | a call between two phones has one callee, and exports the pointer (`freeswitch/conf/dialplan/aicc.xml:48-85`) |

### EslCommand and EslClient

`EslCommand` has a caller that waits and gets one of three answers: replied (the
switch ran its command), down (it has not and will not), unknown. `EslClient`
has one step per blocking point of `Client.command` and of `readLoop`, and the
connections one after the other under `Link.Run`. `Refines` maps a caller's place
in `command` and what it returned to the abstract outcome; an answer to another
command maps to no abstract outcome at all.

### AgentPresence

`change` is three steps: the live presence under the lock, the row, the status in
the switch, the last two from a snapshot. Requests, the goroutine that handles
the switch's events and the one that runs the hooks of a reconnect take these
steps independently; `overlap` in a scenario says whether they may interleave.

### BotSlots

Every method of the counter runs under one mutex and is one step. `ReserveWait`
is one step per critical section (first attempt, `waiting++`, each attempt of the
loop, the select, the last attempt, the deferred `waiting--`), and the INVITE is
three (IsWithdrawn, Consume, TryAcquire), because the code takes the mutex once
for each. A reservation is an object with an identity (`made`), since `expire`
compares pointers; `firing` holds timers that have fired while their callback has
not had the mutex yet. The callers are left free: Release, Keep and Withdraw may
come at any moment, a superset of the orders `internal/outbound` produces.

## 3. Runs, bounds and what they show

| Run | Instance | Distinct states (about) | Shows |
|---|---|---|---|
| `contact_life` | budgets of 2 and 2, 7 causes with every combination of the other facts, 3 leads, revisions | 22,000 | nobody who picked up is redialled, dials are bounded |
| `dialer_crash` | one campaign; either 2 contacts, a crash, a lead and a listing, or one contact with a crash, a store error, a voided placement, every command and exhausted capacity | 2,100,000 | no call unwatched or settled while live, nobody called again, the list is final, completion is quiet, attempts, ledger, budgets and counters agree |
| `dialer_shared` | 2 campaigns on one number, every kind of outcome; or the second with another contact and a list older than the first's call | 2,500,000 | one call per number, breakers judge their own run |
| `dialer_live` | one contact, 3 calls, a crash, a listing, fairness | 24,000 | attempts settle, contacts come to their end, a listing the actor was told of is carried out |
| `bot_slots` | 1 outbound leg with three reservations, 2 inbound calls, Cap 2, reserve 1, fairness | 125,000 | never over capacity, one dialog per slot, no missed wake-up, an old timer ends nothing, a parked leg returns |
| `outbound` | a request and its retry over a crash; a call over two drops and a crash, or a drop and a failed listing; a click-to-dial over one of each; two calls for one line | 1,490,000 | the nine properties of outbound calling |
| `calls` | a caller delivered to two agents, with a transfer, a drop or a crash; a call an agent places, over both; a call nobody minted an id for | 790,000 | registry, line, rows and on-call flags come to what the switch has |
| `esl` | 2 commands, 2 connections, 2 events, channels of 1, fairness | 551,000 | `EslClient` implements `EslCommand`, callers return, the newest event survives |
| `presence` | 2 requests beside events and hooks; 4 requests, 3 signals, a drop, a restart and a failure one after the other, or 3 requests, 3 signals and a restart interleaved | 1,540,000 | READY means a phone, the three copies agree |
| `dialer_listed`, `outbound_parked`, `presence_phone` | | | the [findings](#6-findings); TLC reports a counterexample |

**Why the bounds are enough for the interesting cases.** Two calls of one contact
are the least with which an attempt can be revised after a later one began, a
retry can follow a loss, or a restart can find an older attempt; three calls let a
retry follow a retry (`dialer_live`). Two campaigns on one number are not enough
for the unique index to bind, because a batch is refilled right before it is
dialled: the second campaign needs a batch of two, whose first contact is given
back, so that the rest of it is stale when the first campaign has dialled the
number (the second scenario of `dialer_shared`). One crash reaches every point
between two steps. In `bot_slots` three reservation objects give a timer of an old
object something newer to hit, and capacity 2 with reserve 1 is the least in which
the two limits differ; the safety properties are proved for every instance. In
`outbound` two legs of one call are a request and its retry, two calls with one
line make the cap bind, and a second drop can meet the recovery from the first. In
`calls` three legs let a caller be delivered twice and one delivery overlap the
end of another. Two commands are the least whose replies can be exchanged; a
channel of one event is full at once. One agent is enough for `presence`: agents
share nothing but phones, and extension rebinding is left out.

Combinations of faults are enumerated as scenarios (`Scenarios`, `Budgets`), chosen
by `Init` and constant from then on: the product of all faults in one instance
would be out of TLC's reach, and each scenario names the pairs that matter.
Deadlock checking stays on in the dialer and bot-slot runs; the other systems may
come to rest. `presence` uses symmetry of the request threads; it has no liveness
property.

## 4. Fairness

- Dialer (`CampaignDialer!Fairness`). The actor's loop goes on (`WF` of a pass's
  steps). `Run` empties the mailbox and checks every backstop before each pass,
  and passes recur, so both get `SF`. The switch ends its calls, a CDR write
  returns (with or without success), time passes, calling windows open now and
  then, the application is restarted. Nothing is assumed of commands, listings,
  answers or crashes.
- Bot slots (`BotSlots!Fairness`). A goroutine that can take the mutex runs and an
  armed timer fires. `select` picks among its ready cases at random, so the
  timed-out case, ready each time the leg comes round, is taken in the end: `SF`.
  No INVITE need come, no dialog need end, no customer need hang up.
- ESL (`EslClient!Fairness`). A caller's own timers fire and its own steps are
  taken. Nothing is assumed of the switch, the network, the read loop or the link:
  that is the point of `CallerReturns`.

## 5. Proofs

`BotSlotsProofs` proves, for every finite set of calls, capacity, inbound reserve
and bound, from `SlotsAssumption` alone (`0 <= InboundReserve < Cap`, which
`NewBotSlots` enforces):

| Theorem | States |
|---|---|
| `SlotsInvariant` | `Spec => []IInv` |
| `SlotsTypeOK` | types; `inUse` and `waiting` stay natural numbers |
| `SlotsWithinCap` | slots in use and reserved fit the capacity |
| `SlotsReservationsEnd` | made = consumed + released + expired + open |
| `SlotsPerDialog` | one accepted INVITE per slot in use |
| `SlotsNoMissedWakeup` | a leg parked on an open channel could not have reserved |
| `SlotsWaitingAgrees` | `waiting` counts the legs inside ReserveWait |
| `SlotsWithdrawnIsRefused` | no INVITE after a withdrawal takes a slot |
| `SlotsKeptIsHeld` | an expiry is always that of the reservation's own timer |

**The argument.** `IInv` is the conjunction of the invariants TLC checks and
`PromisedIsWithdrawn` (the history variable only holds keys that are refused now),
without which `WithdrawnIsRefused` is not inductive. The conjuncts also need each
other: `inUse' \in Nat` after `Free` follows from `SlotPerDialog` (a dialog that
ends held a slot), `waiting' \in Nat` from `WaitingAgrees`. The counting lemmas
rest on `OneCall`: a set of calls grows or shrinks by one when one call joins or
leaves it. `NextMoves` classifies every step by what it does to the reservations
(kept, made, moved into use, ended, nothing), so that the two counting invariants
are proved once per kind of move rather than once per action. For the missed
wake-up, `RoomWakes` says that every step that makes room closes the channel, and
`Parks` that a leg only parks in the critical section of a failed attempt.

`ContactLifeProofs` proves, for every retry policy that `PolicyAssumption` admits,
every set of call endings and leads and any number of revisions:

| Theorem | States |
|---|---|
| `ContactInvariant` | `Spec => []IInv` |
| `ContactTypeOK` | types; the counters stay natural numbers |
| `ContactCountedOnce` | the counters are the recount of the attempts |
| `ContactPickedUpIsSettled` | a picked-up call, or a lead, settles the contact |
| `ContactDialsBounded` | the dials are at most the two budgets and the revisions |

**The argument.** `DialsBounded` is not inductive: it does not say that an ACTIVE
contact still has a dial to spend. Nor is a bound on each counter: a revision of
an older attempt can charge a full budget while the contact stays ACTIVE, because
only the latest attempt is settled anew. `ClassesBounded` bounds pairs of the
three classes (reached, system, uncharged) instead, each by its budget plus one
for every revision, plus one when the contact is not ACTIVE. A dial uses that last
one up unless `Settle` found room (`ActiveHasRoom`); a revision hands a charge
back, which breaks no bound (`HandBackKeepsWithin`), and pays for the new charge
with its own count (`RechargeKeepsWithin`). `DialCounts` and `ReviseCounts` say
what the two actions do to the size of each class.

`CampaignDialerProofs` proves, for every set of campaigns, contacts and numbers,
every retry policy and every bound on calls, commands, crashes and store errors:

| Theorem | States |
|---|---|
| `Invariance` | `Spec => []IInv` |
| `TypeCorrect` | types of the tables and the actor |
| `LiveStaysDialing` | `LiveIsDialing`: no attempt is settled under a live call |
| `NumberCalledOnce` | `OneCallPerNumber` |
| `LedgerIsFollowed` | `LedgerAgrees`: an attempt has its CDR's outcome |
| `InFlightIsWatched` | `DialingIsWatched` |
| `CountersAreTrue` | `CountersAgree`: the limits are judged by true counts |
| `ChargedExactlyOnce` | `CountedOnce`: the contact's counters are its attempts recounted |
| `NeverCalledAgain` | `NotCalledAgain` |
| `CompletedStaysQuiet` | `CompletedIsQuiet` |
| `DNCStays` | `DNCIsFinal`, an action property |

**The argument.** What a step does to the rows is one of a few moves (nothing, a
new attempt, a call placed, a call that goes on or ends, a record written, a
finish, a lead, a crash); `NextMoves` says so once, and the parts of the invariant
about rows are proved per kind of move. The parts about the actor are proved per
action. The strengthening ties the two together: the attempt at hand is the
newest and has no call yet while it is placed (`CurInv`), which is why no
transaction can end it; an attempt that is open (in flight, or with a record still
to be written) is its contact's latest and the contact is not due (`OpenInv`),
which is why a batch that is stale when it is dialled still holds nobody whose
call is undecided (`ReadyInv`); once a contact is called again, its earlier calls
are settled (`SettledInv`), so a late revision only ever touches the last one.
`NotCalledAgain` follows from these and not from the check in `Admit` alone.

`EslClientProofs` proves, for every set of commands and any number of connections
and events and any channel capacity:

| Theorem | States |
|---|---|
| `Invariance` | `Spec => []IInv`, the commands' invariant |
| `TypeCorrect` | types |
| `Implements` | `Spec => Refines`: `EslClient` implements `EslCommand` |
| `NewestKept` | `NewestIsKept`: events in order, the newest never dropped |

**The argument.** A reply carries no name, so the refinement rests on the head of
the waiters being the command of the head of the replies. The invariant says it by
order rather than by position, because replies share the connection with events:
every reply to come has its waiter, waiters stand in the order of their replies
(`Ordered`), none stands before one whose reply comes unless its own comes too
(`Gapless`), and the one that is writing is last (`WriterLast`). A waiter whose
write failed breaks `Gapless` only on a connection that is broken, on which no
further command runs. Every step maps to a step of `EslCommand` or to none.
`NewestKept` has an invariant of its own: what the consumer has, what the two
channels hold and what is still on the wire are rising, each before the next.

`AgentPresenceProofs` proves, for every set of request threads and every bound on
operations, signals, drops, restarts and failed saves:

| Theorem | States |
|---|---|
| `Invariance` | `Spec => []IInv` |
| `TypeCorrect` | types |
| `CopiesStayTogether` | `CopiesAgree`: presence, row and switch agree when nothing is on its way |
| `ReadyKeepsAPhone` | `RosterAlone => ReadyHasAPhoneHere` |

**The argument.** `CopiesAgree` speaks of quiet moments. The invariant says what is
on its way in between: which snapshot the row will be written from and what a
failed save would put back (`RowInv`), and who tells the switch next: a thread
that mirrors, or the pass of a reconnect (`StatusInv`). `ReadyKeepsAPhone` holds
beside overlapping operations: a READY agent without a phone has a release under
way (`ReleaseInv`), the flags of a presence are those last noted (`DeviceInv`), and
those, or the last signal on the stream, are the phone's (`HeardInv`). It leaves
out a scenario in which a roster is read beside other operations (`RosterAlone`),
since `Roster` can put a READY row back over the release that replaced it (section
6); `presence` does not check that combination either.

`OutboundProofs` proves, for every set of legs and calls, every assignment of legs
to calls, any number of drops, crashes and errors, and whether or not answers are
prompt, from `OutboundAssumption` alone:

| Theorem | States |
|---|---|
| `Invariance` | `Spec => []Inv` |
| `TypeCorrect` | types |
| `ContinuationRunsOnce` | `ContinuationOnce` |
| `TalkingIsLeftAlone` | `TalkingIsNotEnded` |
| `KeptSlotIsWatched` | `KeptIsWatched` |

**The argument.** `Inv` is about one leg at a time: what is told of it is true of
its channel and in order (`TellOk`); once its continuation ran nothing is armed and
no listing older than its answer is left to arm it again (`RunOk`); a continuation
past its start has its hold (`HoldOk`); a leg being ended has nothing left that
would bridge it, and a customer at the bot behind a reservation has consumed it
(`TalkOk`). A step of one leg leaves the others alone (`Local`, `Frame`), so each
action is followed on its own leg only.

Its second half is about what relates the legs of one call, a request and any
number of retries:

| Theorem | States |
|---|---|
| `CallInvariance` | `Spec => [](Inv /\ CallInv)` |
| `PlacementIsIdempotent` | `OneLegPerCall` |
| `NoLineIsLost` | `LinesComeBack` |
| `FailedPlacementIsEnded` | `FailedIsEnded` |
| `NoPlacementVanishes` | `EndedIsRecorded` |
| `LinesCoverSteadyCalls` | `Steady => LinesCoverCalls` |
| `NoLegIsLeftParked` | `IsPrompt => ParkedIsAttended` |

**The argument.** The properties hold under different faults, and so do the facts
they rest on: `CallInv` has four tiers (always; while the link holds; while
besides no listing and no write failed, over any number of crashes; while nothing
failed), and a step that spends a fault can only leave a tier (`Milder`).
Idempotence rests on the order of `claimCall`: with the gate open, a leg the
switch has is on the registry, or is still claimed, or has its row (`SoundLeg`), so
a request that holds the claim and has asked the registry and then the ledger is
alone with its call (`SoundPair`). A claim is given up under a line only for a call
that is live (`LineOk`), which is why no line is lost without the sweep. A failed
placement whose channel comes after all is one given up on (`late`), and its
creation, still to be handled, ends it (`SteadyLeg`, `FailOk`). For the parked leg,
`PromptOk` follows the two facts a continuation waits for: each is known, or on its
way, or the leg is given up on. The five ways in which a tracked originate is
settled (reply, result, kept result, and the two windows) share the lemmas
`Attached`, `ResultApplied`, `ClaimGoes` and `ClaimFails`.

Two statements of the model were corrected by this proof. With three requests for
one call and a crash, an unconfirmed originate could expire beside a retry's leg
whose creation had not been handled: `UnconfirmedAsk` now says that its window
outlasts what was told of the call's *other* legs, and no longer waits for its own.
And `LinesCoverCalls` was stated of every behaviour without a crash or with a
single leg, which does not hold once a call is dialled twice over a drop or a lost
row: it is now about behaviours without a fault, or with a single leg and faults of
one kind beside drops (`IsAlone`); the second case is model-checked.

`CallsProofs` (to `GhostsAreNone`) and `LiveCallsProofs` (the rest) prove, for every
finite set of channels and any number of transfers:

| Theorem | States | Of which plans | Across drops and crashes |
|---|---|---|---|
| `Invariance` | `Spec => []Inv` | all | yes |
| `TypeCorrect` | types: the legs and claims of a call are channels | all | yes |
| `LineIsTheQueue` | `LineAgrees` | all | yes |
| `RowsInvariance` | `Spec => []RowsInv` | `Conversations` | yes |
| `OneRow` | `OneRowPerLeg` | `Conversations` | yes |
| `GhostsAreNone` | `NoGhosts` | `Conversations` | yes |
| `FollowInvariance` | `Spec => []FollowAll` | and `NamedInTime` | until the first |
| `RegistryFollows` | `RegistryAgrees` | and `NamedInTime` | until the first |
| `TalkersMeet` | `TalkIsOneCall` (which is about behaviours without a drop) | and `NamedInTime` | until the first crash |
| `WorkInvariance` | `Spec => []WorkInv` | and `KeptTogether` | until the first |
| `WorkHasItsRow` | `WorkIsForARow` (which is about behaviours without either) | and `KeptTogether` | as the property says |

**The line.** `LineAgrees` speaks of quiet moments. `LineInv` says what is on its
way in between: while the link is up, the last join or leave (member-left or hangup)
of a caller on the stream, or the line itself if there is none, says whether the
queue holds them. Three facts carry it. Whatever a handler does besides (adopting,
naming, merging, posting) leaves the line alone (`HandleType`: the states with a
given line are closed under each of the coordinator's operators). Taking the head of
the stream and adding to its end keep what it says (`HeadHandled`, `ToldLine`). And
a replay holds no join, and the end of no leg that is up, while the queue holds only
such legs (`Replayable`). That `FlattenSeq` has a value at all is an induction over
its length, by a least counterexample (`Least`, `FlattenType`).

**Rows and ended legs.** Neither property is inductive: two calls that share a leg
write it twice, and a leg whose end went to the wrong call never ends. `RowsInv` says
where a leg can be. The stream is in the order the switch acted (`Ordered`: what
follows a leg's end may only repeat it). The channels bound to a running call are its
legs, all of one conversation, and a call that was absorbed has no channel, no name
and an empty mailbox (`Registered`). The rest is the bookkeeping of births and deaths
(`Accounted`): a leg whose creation is still to be handled is nowhere; an end is
posted or applied only after it was handled; a live leg of a running call that is gone
has its end on the stream, in that call's mailbox, or behind a link that is down; the
legs of a row are gone and on no running call. The step that needs all of it is
`merge`: the handler has waited for both mailboxes (`Awaited`), so what it moves is
neither ended nor about to be. The coordinator's operators are taken one by one
(`MergeRegistered`, `JoinKeeps`, `ReidentifyKeeps`, `AdoptAccounted`,
`DispatchKeeps`); the replay after a reconnect is shown to be in order and to say each
end once (`LegsOnce`, `ReplayIs`, `ReconnectRows`).

**Live legs.** As long as nothing was missed the stream tells everything, once
(`Story`). A leg whose creation was handled and whose end was not is then on a running
call (`Tended`). The hazard is a call that is about to end and takes the leg along: it
is one with a minted id, so `Named` and `Minted` say that such a call is made by the
leg that carries the id and by no other, and that a leg others were raised for is on
it. `KeptApart` says the legs of one agent's phone come one after the other, so the
flag is not taken back for the wrong one (`PhoneInv`). `Talking` follows each bridge
from the stream to the mailbox of the call both legs are on, and to their states.

**After-call work.** The work names the call the leg was on when its end was handled;
a later merge must not absorb that call. `WorkInv` says when it cannot (`IsFinal`): the
call has a minted id, or nothing more will be said of any of its legs, or its
conversation has no name and no second call to be bridged to. It also says that a call
that ended has its row, that one that runs has a live leg (so a call whose legs are
all over has an end in its mailbox, and the handler waits for it before adding
another), and that an unnamed call of a conversation with a name has one leg (`Lone`).

The inductive invariants were first checked with TLC: `RowsInv` on the run's scenarios
and on all 234 two-leg conversation plans with a drop and a crash, the others on the
run's scenarios, on all two-leg plans and on samples of three-leg plans that satisfy
the hypotheses.

**Where they stop.** Each hypothesis is there because TLC refutes the property, or the
invariant, without it. On three legs `RegistryAgrees` and `TalkIsOneCall` fail where a
leg is raised for a leg that was itself raised for another. `OneRowPerLeg` fails where
a leg delivered for a caller who hung up unnamed both points back at that caller and
is given their call id: a call that has ended is registered until its actor has
returned, so a merge in that moment can still take its legs along. `WorkIsForARow`
fails where an unnamed caller raises two legs that do not point back and is bridged to
one after the other: the second bridge may absorb the call the first agent's work is
for. And across a drop `RegistryAgrees` fails for an agent who has one leg before it and another
after (see [findings](#6-findings)), so beyond the first drop or crash it is
model-checked on the run's plans, where no agent has two.

**What stays with TLC.** All liveness (`AttemptsSettle`, `CampaignDrains`,
`ToldIsSkipped`, `WaiterReturns`, `CallerReturns`): it needs fairness and ENABLED,
which are out of the prover's reach. `BreakerJudgesItsRun`: it speaks of the last
elements of a sequence filtered by `SelectSeq`, of which the prover knows nothing.
`LinesCoverCalls` of a single leg over drops (`IsAlone`), whose hypothesis counts the legs asked for and whose invariant would have to follow every listing.
`RegistryAgrees` beyond the first drop or crash, and the properties of `Calls` for
plans outside the hypotheses above.
`ContactCountedOnce`, `SlotsReservationsEnd`,
`SlotsWaitingAgrees`, `SlotsWithdrawnIsRefused` and the type theorems hold for every
instance, so no run repeats them.

## 6. Findings

With a run that shows the counterexample:

- **A number a conversation lists is never swept** (`dialer_listed`). The
  finish of a DO_NOT_CALL lead inserts the number without `OnDNCAdded`
  (`internal/store/campaignattempts.go:352`); `Due` leaves the waiting contact out,
  and the safety scan asks for a sweep only if it slept the full interval
  (`internal/dialer/dialer.go:506`), which a wake-up time taken at the beginning
  of the pass prevents. The contact stays ACTIVE and the campaign never completes,
  until something else asks for a sweep (another listing, a start or resume, a
  restart).
- **A late answer can stay parked over a reconnect** (`outbound_parked`). The
  hangup of a leg answered after its window meets a dropped link; the listing
  after the reconnect finds the leg parked, and `wasJustAnswered`
  (`internal/outbound/adopt.go:409`) takes it for one whose bridge is on its way.
  `internal/outbound/outbound.go:1419` says "Never leave an answered leg parked".
- **A phone lost during a drop keeps its agent READY** (`presence_phone`). The
  listing after a reconnect updates the phones it names
  (`cmd/aicc/wiring.go:267`); one that is no longer registered is not named, its
  agent's flag stays set and `ReleaseAgentsWithoutPhones` passes the agent by.

Met while modelling, and left out of the property concerned as its comment says:

- The breaker's run is kept in memory only (`internal/dialer/dialer.go:430`): a
  campaign resumed, then restarted, is paused again by one failure, against
  `internal/dialer/admit.go:601-603`. `BreakerJudgesItsRun` is checked without a
  crash.
- The frequency window is judged when a batch is read, not when it is dialled
  (`internal/dialer/admit.go:272`), against `docs/design/10-campaigns.md:322-324`.
- A listing of attempts that fails at a restart leaves an attempt unwatched, and
  its campaign can complete over it; a revision can make a contact of a completed
  campaign ACTIVE again.
- A retry that comes after a call left the registry and before its row is written
  dials again (`internal/outbound/unconfirmed.go:125`).
- Two legs bridged while the link was down, both owned before it dropped, stay two
  calls: owned channels are not replayed (`internal/telephony/reconcile.go:356`).
- An agent whose leg ended and who was called again while the link was down shows as
  off the phone: the listing replays the creations first and the ends of vanished legs
  after them (`internal/telephony/reconcile.go:356`, `470`), and the end of the old leg
  clears the flag the new one has set, against `internal/telephony/coordinator.go:40`
  ("SetOnCall records whether an agent's leg is live"). TLC shows it on `Inbound` with
  both delivery legs of one agent; in the plans of the run no agent has two legs.
- A delivery leg raised just after its caller's last hangup binds to a call that is
  shutting down; the agent's on-call flag it sets stays
  (`internal/telephony/coordinator.go:279`).
- A bridge or unbridge event of an earlier change settles the claim of a transfer
  that is still on its way, and a second is admitted
  (`internal/telephony/transfer.go:99`).
- Overlapping changes of one agent can save and mirror in the other order, and
  `Roster` can put a row it read before a change over that change
  (`internal/agents/service.go:910`, `1047`); a sign-in whose save failed is not
  taken back; an agent signed out while the link is down is skipped by
  `SyncSwitch`.

## 7. What is not shown

- Dialer: the answer-rate statistics (`feedStats`, `sample`, `expectedAnswers`;
  real numbers), the published progress, batch limits, DID line limits (one
  nondeterministic refusal), the attempt's job id, the callback of a HIGH lead, the
  length of a backoff. Failed reads of a pass are stuttering steps: the code logs
  them and looks again. `ComesDue` also stands for `RearmUntried`; a calling window
  is a nondeterministic choice of the contacts it lets through. The order of
  commits is taken for the order of `finished_at`.
- Outbound: replies without a Job-UUID, the ten-minute forgetting of settled jobs,
  the counts published for the screen, business data, the wait for the rate
  limiter between the do-not-call check and the originate, and events dropped from
  full channels. The bot slot is `BotSlots`' contract: reserved, consumed, lapsed or
  given back. The retries of a failed listing beside the event stream are one
  later attempt.
- Calls: hold, mute, DTMF, recording, monitoring, user data, roles and published
  events; the mailbox's limit of 256; an agent has one live leg at a time. The type
  of a call is left out: the after-call work that a call between colleagues does not
  owe (`coordinator.go:409`) is owed in the model, so `WorkIsForARow` is about more
  work than the code begins. A
  reconnect's listing comes when the events before the drop have been applied and
  the dialplan has named the legs it found; a transfer's claim lapses only after
  its minute.
- ESL: authentication and subscription are part of connecting; commands refused
  for a line break never reach it; shutdown of the application is left out.
- Presence: one agent, bound to one extension; the hold-off after a no-answer,
  wrap-up drafts and publication are left out.
- `WithdrawnIsRefused` (proved) is about INVITEs that arrive after the withdrawal;
  one already between `IsWithdrawn` and `Consume` may still be answered.
- Components without a module are listed in `PROJECT.json` with the reason: pure
  functions of wall-clock time (calling windows), real numbers (capacity
  statistics), audio and wire protocols (media, providers), generated or CRUD code
  (API, store queries), user interface and packaging. The event hub and webhook
  delivery are self-contained and could be modelled next.

## 8. What remains

1. `RegistryAgrees` across drops and crashes, for plans in which an agent has one leg:
   the replay would have to be shown to tell a `Story` again from a registry that kept
   its legs. `BreakerJudgesItsRun`, with the outcomes since a start as a recursive
   function.
2. `LinesCoverCalls` of a single leg over drops and a restart, as a further tier of
   the invariant of a call's legs in `OutboundProofs`.
3. An abstract campaign (a contact waits, is called, is done) that `CampaignDialer`
   implements.
