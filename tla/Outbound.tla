------------------------------ MODULE Outbound ------------------------------
(***************************************************************************)
(* Outbound calling (internal/outbound): placing a call under its call id, *)
(* the originate whose reply or result may be lost, the continuation that  *)
(* waits for an answer and for the originate to let go of the leg, the     *)
(* bridge to the bot and its window, the lines, and what a reconnect or a  *)
(* restart does to legs in flight. Around it, as far as it asks them: the  *)
(* registry of live calls, the ledger, the bot slots (see BotSlots) and    *)
(* the switch (SwitchLink).                                                *)
(*                                                                         *)
(* A step is one critical section of the service's mutex, or one command,  *)
(* read or write outside it. Durations are left out: a timer may fire at   *)
(* any moment at which it is armed, unless a guard says what it outlasts.  *)
(***************************************************************************)
EXTENDS SwitchLink

CONSTANTS
    Calls,       \* call ids
    CallOf,      \* leg -> call: two legs of a call are a request and its retry
    LineLimit,   \* MaxOutboundChannels of the DID
    IsPrompt,    \* an answer is told only once the reply to the originate is handled
    Budgets      \* bounds: the legs asked for, and how often the link drops, the
                 \* application crashes, and a listing or a ledger write fails

ASSUME OutboundAssumption ==
    /\ CallOf \in [Legs -> Calls]
    /\ LineLimit \in Nat \ {0}
    /\ IsPrompt \in BOOLEAN
    /\ Budgets \subseteq [legs : SUBSET Legs, drops : Nat, crashes : Nat, errors : Nat]

VARIABLES
    req,       \* where each request is
    placing,   \* claimed call ids
    job,       \* legJobs and jobs: how the leg's originate is tracked
    seen,      \* hadChannel: tracked legs whose channel was noted
    kept,      \* a result kept until the originate has returned
    expiry,    \* unconfirmedExpired between its two critical sections
    pend,      \* pending: what is known of an armed leg; {} for no entry
    late,      \* legs given up on
    answered,  \* legs whose answer this process saw
    reaped,    \* legs recovery or noteChannel has asked to end
    lines,     \* calls with a reserved line
    cont,      \* the goroutine of a leg's continuation, then its bridge's window
    holds,     \* legs with a slot hold
    backed,    \* isReserved of the leg's bridge
    slot,      \* per call: its bot slot
    withdrawn, \* calls whose INVITE the bot refuses
    ready,     \* the admission gate
    rec,       \* the reconciliation: what it is about to do
    listing,   \* the listing it works from
    todo,      \* listed legs Recover has yet to decide
    known,     \* legs the registry had when the listing was made
    reg,       \* legs the registry has on a call
    at,        \* the event the dispatch loop has handed to the registry only
    cdr,       \* the ledger
    due,       \* finished calls whose row is still to be written
    failing,   \* legs whose placement-failure row is still to be written
    ran,       \* history: how often a leg's continuation was started
    spent      \* the bounds of this behaviour, and what it has used of them

request   == <<req, placing>>
tracking  == <<job, seen, kept, expiry>>
memory    == <<late, answered, reaped>>
bridging  == <<cont, holds, backed, slot, withdrawn, ran>>
recovery  == <<ready, rec, listing, todo, known>>
ledger    == <<cdr, due, failing>>
vars == <<switchVars, request, tracking, pend, memory, lines, bridging, recovery, reg, at,
          ledger, spent>>

NoEvent == [leg |-> "none", kind |-> "none"]

Live(c) == \E l \in reg : CallOf[l] = c

Faults(f) == spent[f] < spent.budget[f] /\ spent' = [spent EXCEPT ![f] = @ + 1]

Init ==
    /\ SwitchInit
    /\ req = [l \in Legs |-> "idle"] /\ placing = {}
    /\ job = [l \in Legs |-> "none"] /\ seen = {}
    /\ kept = [l \in Legs |-> "none"] /\ expiry = [l \in Legs |-> "none"]
    /\ pend = [l \in Legs |-> {}]
    /\ late = {} /\ answered = {} /\ reaped = {}
    /\ lines = {}
    /\ cont = [l \in Legs |-> "none"] /\ holds = {} /\ backed = {}
    /\ slot = [c \in Calls |-> "none"] /\ withdrawn = {}
    /\ ready = FALSE /\ rec = "idle" /\ todo = {} /\ known = {}
    /\ listing = [l \in Legs |-> "none"]
    /\ reg = {} /\ at = NoEvent
    /\ cdr = [c \in Calls |-> "none"] /\ due = {} /\ failing = {}
    /\ ran = [l \in Legs |-> 0]
    /\ spent \in [budget : Budgets, drops : {0}, crashes : {0}, errors : {0}]

-----------------------------------------------------------------------------
(***************************************************************************)
(* The armed continuation: it runs once its leg has answered in time and   *)
(* the originate has let go of the leg, whichever comes last.              *)
(***************************************************************************)
Fire(l) ==
    /\ cont' = [cont EXCEPT ![l] = "start"]
    /\ ran' = [ran EXCEPT ![l] = @ + 1]

Disarm(l) == pend' = [pend EXCEPT ![l] = {}]

\* Mutant of ReleaseLeg: the entry outlives the continuation it has started.
ReleaseLegTwice(l) ==
    IF "answered" \in pend[l]
    THEN Fire(l) /\ UNCHANGED pend
    ELSE /\ pend' = [pend EXCEPT ![l] = IF @ = {} THEN {} ELSE @ \cup {"released"}]
         /\ UNCHANGED <<cont, ran>>

\* Mutant of ReleaseLeg: a result before its answer is not remembered.
ReleaseLegInOrder(l) ==
    IF "answered" \in pend[l]
    THEN Disarm(l) /\ Fire(l)
    ELSE UNCHANGED <<pend, cont, ran>>

\* The entry is gone with the second of the two facts, under the lock.
ReleaseLeg(l) ==
    IF "answered" \in pend[l]
    THEN Disarm(l) /\ Fire(l)
    ELSE /\ pend' = [pend EXCEPT ![l] = IF @ = {} THEN {} ELSE @ \cup {"released"}]
         /\ UNCHANGED <<cont, ran>>

Forget(l) ==
    /\ job' = [job EXCEPT ![l] = "none"]
    /\ seen' = seen \ {l}
    /\ kept' = [kept EXCEPT ![l] = "none"]
    /\ expiry' = [expiry EXCEPT ![l] = "none"]

\* Mutant of FailPlacement: the line is left for a call that never was.
FailPlacementMutant(l) == Disarm(l) /\ failing' = failing \cup {l} /\ UNCHANGED <<placing, lines>>

\* failPlacement: the line goes at once, the claim once the row is written.
FailPlacement(l) ==
    /\ lines' = lines \ {CallOf[l]}
    /\ Disarm(l)
    /\ failing' = failing \cup {l}
    /\ UNCHANGED placing

\* Mutant of SettleJob: a failed originate is left to its channel's hangup.
SettleJobMutant(l, r) ==
    /\ placing' = placing \ {CallOf[l]}
    /\ IF r = "ok" THEN ReleaseLeg(l) ELSE Disarm(l) /\ UNCHANGED <<cont, ran>>
    /\ UNCHANGED <<lines, failing>>

\* settleJob and finishJob: what a result does to a job no longer tracked.
SettleJob(l, r) ==
    IF r = "ok"
    THEN /\ placing' = placing \ {CallOf[l]}
         /\ ReleaseLeg(l)
         /\ UNCHANGED <<lines, failing>>
    ELSE /\ IF l \in seen \/ Live(CallOf[l])
            THEN /\ Disarm(l)
                 /\ placing' = placing \ {CallOf[l]}
                 /\ UNCHANGED <<lines, failing>>
            ELSE FailPlacement(l)
         /\ UNCHANGED <<cont, ran>>

-----------------------------------------------------------------------------
(***************************************************************************)
(* A request: PlaceAI or Dial.                                             *)
(***************************************************************************)
IsPlaced(c) == c \in placing \/ cdr[c] # "none" \/ Live(c)

\* The gate, the idempotency check and the refusals that answer every request
\* alike (the number, the DID, the do-not-call list).
CheckPlaced(l) ==
    /\ req[l] = "idle" /\ l \in spent.budget.legs
    /\ ready
    /\ \/ ~IsPlaced(CallOf[l]) /\ req' = [req EXCEPT ![l] = "checked"]
       \/ req' = [req EXCEPT ![l] = "done"]
    /\ UNCHANGED <<switchVars, placing, tracking, pend, memory, lines, bridging, recovery>>
    /\ UNCHANGED <<reg, at, ledger, spent>>

\* claimCall: the claim is taken, and both questions are asked again with it
\* held: the registry first ...
ClaimCall(l) ==
    /\ req[l] = "checked"
    /\ \/ /\ CallOf[l] \notin placing
          /\ placing' = placing \cup {CallOf[l]}
          /\ req' = [req EXCEPT ![l] = "claimed"]
       \/ /\ CallOf[l] \in placing
          /\ req' = [req EXCEPT ![l] = "done"]
          /\ UNCHANGED placing
    /\ UNCHANGED <<switchVars, tracking, pend, memory, lines, bridging, recovery>>
    /\ UNCHANGED <<reg, at, ledger, spent>>

Answered(l, isPlaced, next) ==
    /\ req' = [req EXCEPT ![l] = IF isPlaced THEN "done" ELSE next]
    /\ placing' = IF isPlaced THEN placing \ {CallOf[l]} ELSE placing
    /\ UNCHANGED <<switchVars, tracking, pend, memory, lines, bridging, recovery>>
    /\ UNCHANGED <<reg, at, ledger, spent>>

\* Mutant of AskLive: the registry is not asked again with the claim held.
AskLiveMutant(l) == req[l] = "claimed" /\ Answered(l, FALSE, "notLive")

AskLive(l) == req[l] = "claimed" /\ Answered(l, Live(CallOf[l]), "notLive")

\* ... then the ledger.
AskLedger(l) == req[l] = "notLive" /\ Answered(l, cdr[CallOf[l]] # "none", "cleared")

\* takeLine, after the limiter: reservations a signal never gave back are swept
\* once they are old and their call is not live, and a line is reserved.
TakeLine(l, swept) ==
    LET c == CallOf[l]
        held == lines \ swept
    IN  /\ req[l] = "cleared"
        /\ \A d \in swept : ~Live(d) /\ d \notin placing
        /\ IF c \in held \/ Cardinality(held) < LineLimit
           THEN /\ lines' = held \cup {c}
                /\ job' = [job EXCEPT ![l] = "expected"]
                /\ req' = [req EXCEPT ![l] = "lined"]
                /\ UNCHANGED placing
           ELSE /\ lines' = held
                /\ req' = [req EXCEPT ![l] = "done"]
                /\ placing' = placing \ {c}
                /\ UNCHANGED job
        /\ UNCHANGED <<switchVars, seen, kept, expiry, pend, memory, bridging, recovery>>
        /\ UNCHANGED <<reg, at, ledger, spent>>

\* Originate writes the command, or cannot: then the line and what was tracked
\* go before the claim.
Originate(l) ==
    /\ req[l] = "lined"
    /\ IF LinkUp
       THEN /\ chan' = [chan EXCEPT ![l] = "queued"]
            /\ req' = [req EXCEPT ![l] = "sent"]
            /\ UNCHANGED <<lines, placing, tracking>>
       ELSE /\ lines' = lines \ {CallOf[l]}
            /\ Forget(l)
            /\ placing' = placing \ {CallOf[l]}
            /\ req' = [req EXCEPT ![l] = "done"]
            /\ UNCHANGED chan
    /\ UNCHANGED <<link, events, result, dying, transfers, pend, memory, bridging, recovery>>
    /\ UNCHANGED <<reg, at, ledger, spent>>

\* The reply came: the continuation is armed ...
Arm(l) ==
    /\ req[l] = "sent"
    /\ pend' = [pend EXCEPT ![l] = {"armed"}]
    /\ req' = [req EXCEPT ![l] = "armed"]
    /\ UNCHANGED <<switchVars, placing, tracking, memory, lines, bridging, recovery>>
    /\ UNCHANGED <<reg, at, ledger, spent>>

\* ... and the job attached, with the result that came before it, if one did.
AttachJob(l) ==
    /\ req[l] = "armed"
    /\ req' = [req EXCEPT ![l] = "done"]
    /\ IF kept[l] # "none"
       THEN Forget(l) /\ SettleJob(l, kept[l])
       ELSE /\ job' = [job EXCEPT ![l] = "tracked"]
            /\ UNCHANGED <<seen, kept, expiry, pend, cont, ran, placing, lines, failing>>
    /\ UNCHANGED <<switchVars, memory, holds, backed, slot, withdrawn, recovery>>
    /\ UNCHANGED <<reg, at, cdr, due, spent>>

\* The reply did not come: the leg is armed and held, and a result that came
\* before it applied at once.
HoldUnconfirmed(l) ==
    /\ req[l] = "sent"
    /\ req' = [req EXCEPT ![l] = "done"]
    /\ IF kept[l] # "none"
       THEN /\ Forget(l)
            /\ IF kept[l] = "ok"
               THEN /\ pend' = [pend EXCEPT ![l] = {"armed", "released"}]
                    /\ placing' = placing \ {CallOf[l]}
                    /\ UNCHANGED <<cont, ran, lines, failing>>
               ELSE SettleJob(l, "fail")
       ELSE /\ job' = [job EXCEPT ![l] = "held"]
            /\ pend' = [pend EXCEPT ![l] = {"armed"}]
            /\ UNCHANGED <<seen, kept, expiry, cont, ran, placing, lines, failing>>
    /\ UNCHANGED <<switchVars, memory, holds, backed, slot, withdrawn, recovery>>
    /\ UNCHANGED <<reg, at, cdr, due, spent>>

\* A reply that comes late is dropped; either way the caller has returned.
PlaceAI(l) ==
    /\ l \notin AgentLegs
    /\ \/ CheckPlaced(l) \/ ClaimCall(l) \/ AskLive(l) \/ AskLedger(l)
       \/ \E swept \in SUBSET lines : TakeLine(l, swept)
       \/ Originate(l) \/ Arm(l) \/ AttachJob(l) \/ HoldUnconfirmed(l)

Dial(l) ==
    /\ l \in AgentLegs
    /\ \/ CheckPlaced(l) \/ ClaimCall(l) \/ AskLive(l) \/ AskLedger(l)
       \/ \E swept \in SUBSET lines : TakeLine(l, swept)
       \/ Originate(l) \/ Arm(l) \/ AttachJob(l) \/ HoldUnconfirmed(l)

-----------------------------------------------------------------------------
(***************************************************************************)
(* The dispatch loop: one event at a time, to the registry first.          *)
(***************************************************************************)
\* The legs L leave the registry: a call with none left is finished, its line
\* goes back (CallEnded), and its row is written later, in a goroutine.
Leave(L) ==
    LET ended == {c \in Calls : Live(c) /\ \A l \in reg \ L : CallOf[l] # c}
    IN  /\ due' = due \cup ended
        /\ lines' = lines \ ended

Dispatch(l) ==
    LET kind == Head(events[l])
    IN  /\ link = "up" /\ at = NoEvent
        /\ events[l] # <<>>
        /\ kind = "answer" /\ IsPrompt => req[l] # "sent"
        /\ events' = [events EXCEPT ![l] = Tail(@)]
        /\ at' = [leg |-> l, kind |-> kind]
        /\ CASE kind = "create" -> reg' = reg \cup {l} /\ UNCHANGED <<due, lines>>
             [] kind = "hangup" -> reg' = reg \ {l} /\ Leave({l})
             [] OTHER -> UNCHANGED <<reg, due, lines>>
        /\ UNCHANGED <<link, chan, result, dying, transfers, request, tracking, pend, memory>>
        /\ UNCHANGED <<bridging, recovery, cdr, failing, spent>>

\* reap: once. Its memory lasts half a minute.
Reap(l) ==
    /\ reaped' = reaped \cup {l}
    /\ \/ EndLegs({l})
       \/ l \in reaped /\ UNCHANGED dying

\* Mutant of NoteChannel: a leg given up on is not recognised.
NoteChannelMutant(l) ==
    /\ at = [leg |-> l, kind |-> "create"]
    /\ at' = NoEvent
    /\ seen' = IF job[l] # "none" THEN seen \cup {l} ELSE seen
    /\ late' = late \ {l}
    /\ UNCHANGED <<switchVars, request, job, kept, expiry, pend, answered, reaped, lines, bridging>>
    /\ UNCHANGED <<recovery, reg, ledger, spent>>

\* noteChannel: the window of an unconfirmed leg starts now; the leg of a
\* placement given up on is ended.
NoteChannel(l) ==
    /\ at = [leg |-> l, kind |-> "create"]
    /\ at' = NoEvent
    /\ IF job[l] # "none"
       THEN /\ seen' = seen \cup {l}
            /\ pend' = [pend EXCEPT ![l] = IF job[l] = "held" /\ l \notin seen THEN @ \ {"spent"}
                                                                               ELSE @]
       ELSE UNCHANGED <<seen, pend>>
    /\ late' = late \ {l}
    /\ IF l \in late THEN Reap(l) ELSE UNCHANGED <<reaped, dying>>
    /\ UNCHANGED <<link, chan, events, result, transfers, request, job, kept, expiry, answered>>
    /\ UNCHANGED <<lines, bridging, recovery, reg, ledger, spent>>

\* An answer in time counts once, one past the window ends the leg.
HandleAnswer(l) ==
    /\ at = [leg |-> l, kind |-> "answer"]
    /\ at' = NoEvent
    /\ IF pend[l] = {} \/ "answered" \in pend[l]
       THEN UNCHANGED <<pend, cont, ran, answered, dying>>
       ELSE /\ answered' = answered \cup {l}
            /\ \/ /\ "spent" \in pend[l]
                  /\ Disarm(l)
                  /\ EndLegs({l})
                  /\ UNCHANGED <<cont, ran>>
               \/ /\ "spent" \notin pend[l] /\ "released" \in pend[l]
                  /\ Disarm(l) /\ Fire(l)
                  /\ UNCHANGED dying
               \/ /\ "spent" \notin pend[l] /\ "released" \notin pend[l]
                  /\ pend' = [pend EXCEPT ![l] = @ \cup {"answered"}]
                  /\ UNCHANGED <<cont, ran, dying>>
    /\ UNCHANGED <<link, chan, events, result, transfers, request, tracking, late, reaped>>
    /\ UNCHANGED <<lines, holds, backed, slot, withdrawn, recovery, reg, ledger, spent>>

\* Slots.Release: what is reserved and not consumed goes back.
FreeSlot(c) == slot' = [slot EXCEPT ![c] = IF @ = "taken" THEN @ ELSE "none"]

\* settleBridge, of the bot's leg or of the customer's end.
SettleBridge(l) == cont' = [cont EXCEPT ![l] = IF @ = "window" THEN "none" ELSE @]

HandleHangup(l) ==
    /\ at = [leg |-> l, kind |-> "hangup"]
    /\ at' = NoEvent
    /\ SettleBridge(l)
    /\ Disarm(l)
    /\ holds' = holds \ {l}
    /\ IF l \in holds THEN FreeSlot(CallOf[l]) ELSE UNCHANGED slot
    /\ UNCHANGED <<switchVars, request, tracking, memory, lines, backed, withdrawn, ran>>
    /\ UNCHANGED <<recovery, reg, ledger, spent>>

HandleBotLeg(l) ==
    /\ at = [leg |-> l, kind |-> "bot"]
    /\ at' = NoEvent
    /\ SettleBridge(l)
    /\ UNCHANGED <<switchVars, request, tracking, pend, memory, lines, holds, backed, slot>>
    /\ UNCHANGED <<withdrawn, ran, recovery, reg, ledger, spent>>

\* handleJob: by its Job-UUID or by its leg; kept while the originate has not
\* returned. A result comes after its channel's creation was told.
HandleJob(l) ==
    /\ link = "up" /\ at = NoEvent
    /\ result[l] # "none"
    /\ "create" \notin {events[l][i] : i \in DOMAIN events[l]}
    /\ result' = [result EXCEPT ![l] = "none"]
    /\ CASE job[l] = "expected" ->
              /\ kept' = [kept EXCEPT ![l] = result[l]]
              /\ UNCHANGED <<job, seen, expiry, pend, cont, ran, placing, lines, failing>>
         [] job[l] \in {"tracked", "held"} ->
              Forget(l) /\ SettleJob(l, result[l])
         [] job[l] = "none" ->
              /\ IF result[l] = "ok" THEN ReleaseLeg(l) ELSE UNCHANGED <<pend, cont, ran>>
              /\ UNCHANGED <<tracking, placing, lines, failing>>
    /\ UNCHANGED <<link, chan, events, dying, transfers, req, memory, holds, backed, slot>>
    /\ UNCHANGED <<withdrawn, recovery, reg, at, cdr, due, spent>>

-----------------------------------------------------------------------------
(***************************************************************************)
(* The windows of a placement, and the ledger.                             *)
(***************************************************************************)
WindowEnds(l) ==
    /\ pend[l] # {} /\ pend[l] \cap {"answered", "spent"} = {}
    /\ pend' = [pend EXCEPT ![l] = @ \cup {"spent"}]
    /\ UNCHANGED <<switchVars, request, tracking, memory, lines, bridging, recovery>>
    /\ UNCHANGED <<reg, at, ledger, spent>>

\* What the switch has told of a leg has been handled.
IsHandled(l) == events[l] = <<>> /\ result[l] = "none" /\ at.leg # l

\* Mutant of JobExpires: the line goes whether the call is live or not.
JobExpiresMutant(l) ==
    /\ job[l] = "tracked"
    /\ chan[l] \notin {"queued", "ringing"} /\ IsHandled(l)
    /\ Forget(l)
    /\ lines' = lines \ {CallOf[l]}
    /\ placing' = placing \ {CallOf[l]}
    /\ UNCHANGED <<switchVars, req, pend, memory, bridging, recovery, reg, at, ledger, spent>>

\* No result came, long after the switch's own ring timeout and after what it
\* told of the leg was handled.
JobExpires(l) ==
    LET c == CallOf[l]
    IN  /\ job[l] = "tracked"
        /\ chan[l] \notin {"queued", "ringing"} /\ IsHandled(l)
        /\ Forget(l)
        /\ lines' = IF cdr[c] # "none" \/ Live(c) THEN lines ELSE lines \ {c}
        /\ placing' = placing \ {c}
        /\ UNCHANGED <<switchVars, req, pend, memory, bridging, recovery, reg, at>>
        /\ UNCHANGED <<ledger, spent>>

\* unconfirmedExpired asks whether the call is live outside the lock. Its window
\* outlasts what was told of the call's other legs; a channel of its own may be
\* told at the last moment ...
UnconfirmedAsk(l) ==
    /\ job[l] = "held" /\ expiry[l] = "none"
    /\ \A m \in Legs \ {l} : CallOf[m] = CallOf[l] => IsHandled(m)
    /\ expiry' = [expiry EXCEPT ![l] = IF l \notin seen /\ Live(CallOf[l]) THEN "live" ELSE "idle"]
    /\ UNCHANGED <<switchVars, request, job, seen, kept, pend, memory, lines, bridging>>
    /\ UNCHANGED <<recovery, reg, at, ledger, spent>>

\* ... and decides under it.
UnconfirmedExpires(l) ==
    /\ job[l] = "held" /\ expiry[l] # "none"
    /\ Forget(l)
    /\ IF l \in seen \/ expiry[l] = "live"
       THEN /\ pend' = [pend EXCEPT ![l] = IF l \in seen THEN @ ELSE @ \ {"spent"}]
            /\ placing' = placing \ {CallOf[l]}
            /\ UNCHANGED <<late, lines, failing>>
       ELSE /\ late' = late \cup {l}
            /\ FailPlacement(l)
    /\ UNCHANGED <<switchVars, req, answered, reaped, bridging, recovery, reg, at>>
    /\ UNCHANGED <<cdr, due, spent>>

\* The placement-failure row, unless another is there; then the claim goes.
WriteFailure(l) ==
    /\ l \in failing
    /\ failing' = failing \ {l}
    /\ placing' = placing \ {CallOf[l]}
    /\ \/ /\ cdr' = [cdr EXCEPT ![CallOf[l]] = IF @ = "none" THEN "failure" ELSE @]
          /\ UNCHANGED spent
       \/ Faults("errors") /\ UNCHANGED cdr
    /\ UNCHANGED <<switchVars, req, tracking, pend, memory, lines, bridging, recovery>>
    /\ UNCHANGED <<reg, at, due>>

\* CallFinished's goroutine: one try of five seconds.
WriteCDR(c) ==
    /\ c \in due
    /\ due' = due \ {c}
    /\ \/ cdr' = [cdr EXCEPT ![c] = "call"] /\ UNCHANGED spent
       \/ Faults("errors") /\ UNCHANGED cdr
    /\ UNCHANGED <<switchVars, request, tracking, pend, memory, lines, bridging, recovery>>
    /\ UNCHANGED <<reg, at, failing>>

-----------------------------------------------------------------------------
(***************************************************************************)
(* The continuation of a customer's leg: a bot slot, then the bridge.      *)
(***************************************************************************)
Goto(l, where) == cont' = [cont EXCEPT ![l] = where]

TakeSlot(l) ==
    /\ cont[l] = "start" /\ l \notin AgentLegs
    /\ Goto(l, "waiting")
    /\ holds' = holds \cup {l}
    /\ UNCHANGED <<switchVars, request, tracking, pend, memory, lines, backed, slot>>
    /\ UNCHANGED <<withdrawn, ran, recovery, reg, at, ledger, spent>>

\* ReserveWait returns: with a slot, or for a customer who hung up meanwhile.
SlotReserved(l) ==
    /\ cont[l] = "waiting"
    /\ IF l \in holds
       THEN /\ slot' = [slot EXCEPT ![CallOf[l]] = IF @ = "none" THEN "reserved" ELSE @]
            /\ Goto(l, "go")
       ELSE FreeSlot(CallOf[l]) /\ Goto(l, "none")
    /\ UNCHANGED <<switchVars, request, tracking, pend, memory, lines, holds, backed>>
    /\ UNCHANGED <<withdrawn, ran, recovery, reg, at, ledger, spent>>

\* No slot freed within the hold: the leg is hung up.
Overflow(l) ==
    /\ cont[l] = "waiting" /\ l \in holds
    /\ Goto(l, "none")
    /\ holds' = holds \ {l}
    /\ FreeSlot(CallOf[l])
    /\ EndLegs({l})
    /\ UNCHANGED <<link, chan, events, result, transfers, request, tracking, pend, memory>>
    /\ UNCHANGED <<lines, backed, withdrawn, ran, recovery, reg, at, ledger, spent>>

\* A reservation on its short default expiry.
SlotLapses(c) ==
    /\ slot[c] = "reserved"
    /\ slot' = [slot EXCEPT ![c] = "none"]
    /\ UNCHANGED <<switchVars, request, tracking, pend, memory, lines, cont, holds, backed>>
    /\ UNCHANGED <<withdrawn, ran, recovery, reg, at, ledger, spent>>

\* The slot is kept over the command and its window before the command is sent.
\* A command that cannot be sent gives the hold up, and only that.
SendBridge(l) ==
    /\ cont[l] = "go"
    /\ backed' = IF slot[CallOf[l]] \in {"reserved", "kept"} THEN backed \cup {l} ELSE backed \ {l}
    /\ IF LinkUp
       THEN /\ slot' = [slot EXCEPT ![CallOf[l]] = IF @ = "reserved" THEN "kept" ELSE @]
            /\ transfers' = transfers \cup {l}
            /\ Goto(l, "sent")
            /\ UNCHANGED holds
       ELSE /\ FreeSlot(CallOf[l])
            /\ holds' = holds \ {l}
            /\ Goto(l, "none")
            /\ UNCHANGED transfers
    /\ UNCHANGED <<link, chan, events, result, dying, request, tracking, pend, memory, lines>>
    /\ UNCHANGED <<withdrawn, ran, recovery, reg, at, ledger, spent>>

\* Mutant of BridgeReplied: the short expiry is not restored.
BridgeRepliedMutant(l) ==
    /\ cont[l] = "sent" /\ l \notin transfers
    /\ Goto(l, "none")
    /\ holds' = holds \ {l}
    /\ UNCHANGED <<switchVars, request, tracking, pend, memory, lines, backed, slot>>
    /\ UNCHANGED <<withdrawn, ran, recovery, reg, at, ledger, spent>>

\* Confirmed, and the INVITE follows; or refused, the channel being gone.
BridgeReplied(l) ==
    /\ cont[l] = "sent" /\ l \notin transfers
    /\ Goto(l, "none")
    /\ \/ /\ slot' = [slot EXCEPT ![CallOf[l]] = IF l \in backed /\ @ = "kept" THEN "reserved" ELSE @]
          /\ UNCHANGED holds
       \/ /\ chan[l] = "gone"
          /\ FreeSlot(CallOf[l])
          /\ holds' = holds \ {l}
    /\ UNCHANGED <<switchVars, request, tracking, pend, memory, lines, backed>>
    /\ UNCHANGED <<withdrawn, ran, recovery, reg, at, ledger, spent>>

\* No reply: awaitBridge.
BridgeUnconfirmed(l) ==
    /\ cont[l] = "sent"
    /\ Goto(l, "window")
    /\ UNCHANGED <<switchVars, request, tracking, pend, memory, lines, holds, backed, slot>>
    /\ UNCHANGED <<withdrawn, ran, recovery, reg, at, ledger, spent>>

\* bridgeExpired: the entry goes under the lock. A bridge no reservation backs is
\* asked after first: its bot leg is up from the moment the switch dials it.
BridgeExpires(l) ==
    /\ cont[l] = "window"
    /\ Goto(l, IF l \notin backed /\ LinkUp /\ chan[l] \in {"dialing", "invited", "bridged"}
               THEN "none" ELSE "expired")
    /\ UNCHANGED <<switchVars, request, tracking, pend, memory, lines, holds, backed, slot>>
    /\ UNCHANGED <<withdrawn, ran, recovery, reg, at, ledger, spent>>

\* Mutant of BridgeGivenUp: Withdraw's answer is not looked at.
BridgeGivenUpMutant(l) ==
    /\ cont[l] = "expired"
    /\ Goto(l, "none")
    /\ withdrawn' = withdrawn \cup {CallOf[l]}
    /\ FreeSlot(CallOf[l])
    /\ holds' = holds \ {l}
    /\ EndLegs({l})
    /\ UNCHANGED <<link, chan, events, result, transfers, request, tracking, pend, memory>>
    /\ UNCHANGED <<lines, backed, ran, recovery, reg, at, ledger, spent>>

\* Withdraw refuses the INVITE still to come. A reservation that is gone was
\* consumed by one that came; otherwise the leg is ended.
BridgeGivenUp(l) ==
    LET c == CallOf[l]
    IN  /\ cont[l] = "expired"
        /\ Goto(l, "none")
        /\ withdrawn' = withdrawn \cup {c}
        /\ IF l \in backed /\ slot[c] \notin {"reserved", "kept"}
           THEN UNCHANGED <<slot, holds, dying>>
           ELSE /\ FreeSlot(c)
                /\ holds' = holds \ {l}
                /\ EndLegs({l})
        /\ UNCHANGED <<link, chan, events, result, transfers, request, tracking, pend, memory>>
        /\ UNCHANGED <<lines, backed, ran, recovery, reg, at, ledger, spent>>

\* The bot refuses the INVITE and the switch takes the call's fallback.
RefuseInvite(l) ==
    /\ chan' = [chan EXCEPT ![l] = "gone"]
    /\ events' = IF LinkUp THEN [events EXCEPT ![l] = @ \o <<"bot", "hangup">>] ELSE events

\* The INVITE reaches the bot, which asks whether its call was withdrawn ...
InviteBot(l) ==
    /\ chan[l] = "dialing"
    /\ IF CallOf[l] \in withdrawn
       THEN RefuseInvite(l)
       ELSE chan' = [chan EXCEPT ![l] = "invited"] /\ UNCHANGED events
    /\ UNCHANGED <<link, result, dying, transfers, request, tracking, pend, memory, lines>>
    /\ UNCHANGED <<bridging, recovery, reg, at, ledger, spent>>

\* ... and, the lock given up between, consumes the reservation or takes a slot
\* of its own, and answers; or has no slot, or finds the offer unusable and gives
\* the slot back.
AnswerInvite(l) ==
    /\ chan[l] = "invited"
    /\ \/ /\ chan' = [chan EXCEPT ![l] = "bridged"]
          /\ slot' = [slot EXCEPT ![CallOf[l]] = "taken"]
          /\ Tell(l, "bot")
       \/ RefuseInvite(l) /\ FreeSlot(CallOf[l])
    /\ UNCHANGED <<link, result, dying, transfers, request, tracking, pend, memory, lines>>
    /\ UNCHANGED <<cont, holds, backed, withdrawn, ran, recovery, reg, at, ledger, spent>>

\* The continuation of an agent's leg: sent once, confirmed or not.
TransferOnAnswer(l) ==
    /\ cont[l] = "start" /\ l \in AgentLegs
    /\ Goto(l, "none")
    /\ transfers' = IF LinkUp THEN transfers \cup {l} ELSE transfers
    /\ UNCHANGED <<link, chan, events, result, dying, request, tracking, pend, memory, lines>>
    /\ UNCHANGED <<holds, backed, slot, withdrawn, ran, recovery, reg, at, ledger, spent>>

-----------------------------------------------------------------------------
(***************************************************************************)
(* Connecting: the switch's channels are listed, the registry adopts them  *)
(* and closes what has vanished, and each leg of ours is decided. This     *)
(* runs before the link delivers events ("hook"), unless the first listing *)
(* failed: then it is repeated beside them ("up").                         *)
(***************************************************************************)
\* A reconnect waits a second: commands in flight have failed by then, and an
\* originate has let go of its answered leg.
Connect ==
    /\ link = "down" /\ rec = "idle"
    /\ \A l \in Legs :
          req[l] \notin {"sent", "armed"} /\ cont[l] # "sent" /\ chan[l] # "answered"
    /\ rec' = "due"
    /\ \/ link' = "hook" /\ UNCHANGED spent
       \/ link' = "up" /\ Faults("errors")
    /\ UNCHANGED <<chan, events, result, dying, transfers, request, tracking, pend, memory>>
    /\ UNCHANGED <<lines, bridging, ready, listing, todo, known, reg, at, ledger>>

\* A switch that answers a new process has run what the old one sent it.
ListChannels ==
    /\ rec = "due" /\ LinkUp
    /\ ready \/ \A l \in Legs : chan[l] # "queued" /\ l \notin dying \cup transfers
    /\ IsPrompt => \A l \in Legs : req[l] = "sent" => chan[l] = "queued"
    /\ rec' = "adopt"
    /\ listing' = [l \in Legs |-> IF IsUp(l) THEN chan[l] ELSE "none"]
    /\ known' = reg
    /\ UNCHANGED <<switchVars, request, tracking, pend, memory, lines, bridging, ready, todo>>
    /\ UNCHANGED <<reg, at, ledger, spent>>

Listed == {l \in Legs : listing[l] # "none"}

\* AdoptLiveChannels and rebuildLines. A channel bound after the listing began
\* is not closed for want of being on it.
AdoptLiveChannels ==
    LET vanished == (known \cap reg) \ Listed
        placed   == {CallOf[l] : l \in Listed \ AgentLegs}
        ended    == {c \in Calls : Live(c) /\ \A l \in (reg \ vanished) \cup Listed : CallOf[l] # c}
    IN  /\ rec = "adopt"
        /\ rec' = "recover"
        /\ reg' = (reg \ vanished) \cup Listed
        /\ due' = due \cup ended
        /\ lines' = (lines \ ended) \cup placed
        /\ todo' = Listed
        /\ UNCHANGED <<switchVars, request, tracking, pend, memory, bridging, ready, listing>>
        /\ UNCHANGED <<known, at, cdr, failing, spent>>

\* A ringing leg: a late one is ended; one this process holds is left; any other
\* is armed for what is left of its window, or ended if nothing is.
RecoverRinging(l) ==
    /\ listing[l] = "ringing"
    /\ late' = late \ {l}
    /\ \/ l \in late /\ Reap(l) /\ UNCHANGED pend
       \/ /\ l \notin late
          /\ pend[l] # {} \/ job[l] # "none"
          /\ UNCHANGED <<pend, reaped, dying>>
       \/ /\ l \notin late /\ pend[l] = {} /\ job[l] = "none"
          /\ \/ pend' = [pend EXCEPT ![l] = {"armed"}] /\ UNCHANGED <<reaped, dying>>
             \/ Reap(l) /\ UNCHANGED pend
    /\ UNCHANGED <<cont, ran, answered>>

\* An answered leg in park: the originate no longer holds it, so what is armed
\* runs if the answer was in time. With nothing armed, an answer seen a moment
\* ago means the bridge is on its way; otherwise the leg is ended.
RecoverParked(l) ==
    /\ listing[l] = "parked"
    /\ \/ /\ pend[l] # {} /\ "spent" \notin pend[l]
          /\ Disarm(l) /\ Fire(l)
          /\ answered' = answered \cup {l}
          /\ UNCHANGED <<reaped, dying>>
       \/ /\ pend[l] # {} /\ "spent" \in pend[l]
          /\ Disarm(l) /\ Reap(l)
          /\ UNCHANGED <<cont, ran, answered>>
       \/ /\ pend[l] = {}
          /\ \/ l \in answered /\ UNCHANGED <<reaped, dying>>
             \/ (l \notin answered \/ cont[l] \in {"none", "window", "expired"}) /\ Reap(l)
          /\ UNCHANGED <<pend, cont, ran, answered>>
    /\ UNCHANGED late

\* A customer bridged to the bot: only a process that has just started, and
\* has no session for the call, ends it, if it can tell the bridge's age.
RecoverBridged(l) ==
    /\ listing[l] = "bridged"
    /\ \/ UNCHANGED <<reaped, dying>>
       \/ ~ready /\ l \notin AgentLegs /\ slot[CallOf[l]] # "taken" /\ Reap(l)
    /\ UNCHANGED <<pend, cont, ran, answered, late>>

\* Neither ringing, parked nor bridged: left alone.
RecoverOther(l) ==
    /\ listing[l] \in {"answered", "dialing", "invited"}
    /\ UNCHANGED <<pend, cont, ran, memory, dying>>

Recover(l) ==
    /\ rec = "recover" /\ l \in todo
    /\ todo' = todo \ {l}
    /\ RecoverRinging(l) \/ RecoverParked(l) \/ RecoverBridged(l) \/ RecoverOther(l)
    /\ UNCHANGED <<link, chan, events, result, transfers, request, tracking, lines, holds>>
    /\ UNCHANGED <<backed, slot, withdrawn, ready, rec, listing, known, reg, at, ledger, spent>>

MarkReconciled ==
    /\ rec = "recover" /\ todo = {}
    /\ rec' = "idle"
    /\ ready' = TRUE
    /\ link' = IF link = "hook" THEN "up" ELSE link
    /\ listing' = [l \in Legs |-> "none"] /\ known' = {}
    /\ UNCHANGED <<chan, events, result, dying, transfers, request, tracking, pend, memory>>
    /\ UNCHANGED <<lines, bridging, todo, reg, at, ledger, spent>>

-----------------------------------------------------------------------------
(* Faults.                                                                 *)

LoseLink ==
    /\ Faults("drops")
    /\ LinkDrops
    /\ rec' = IF rec = "due" THEN "idle" ELSE rec
    /\ UNCHANGED <<request, tracking, pend, memory, lines, bridging, ready, listing, todo>>
    /\ UNCHANGED <<known, reg, at, ledger>>

\* The process dies and starts again: the switch and the ledger survive, and an
\* INVITE that was not answered is sent again.
Crash ==
    /\ Faults("crashes")
    /\ link' = "down"
    /\ events' = [l \in Legs |-> <<>>] /\ result' = [l \in Legs |-> "none"]
    /\ req' = [l \in Legs |-> IF req[l] = "idle" THEN "idle" ELSE "done"] /\ placing' = {}
    /\ job' = [l \in Legs |-> "none"] /\ seen' = {}
    /\ kept' = [l \in Legs |-> "none"] /\ expiry' = [l \in Legs |-> "none"]
    /\ pend' = [l \in Legs |-> {}]
    /\ late' = {} /\ answered' = {} /\ reaped' = {}
    /\ lines' = {}
    /\ cont' = [l \in Legs |-> "none"] /\ holds' = {} /\ backed' = {}
    /\ slot' = [c \in Calls |-> "none"] /\ withdrawn' = {}
    /\ ready' = FALSE /\ rec' = "idle" /\ todo' = {} /\ known' = {}
    /\ listing' = [l \in Legs |-> "none"]
    /\ reg' = {} /\ at' = NoEvent
    /\ due' = {} /\ failing' = {}
    /\ chan' = [l \in Legs |-> IF chan[l] = "invited" THEN "dialing" ELSE chan[l]]
    /\ UNCHANGED <<dying, transfers, cdr, ran>>

-----------------------------------------------------------------------------
Application == <<request, tracking, pend, memory, lines, bridging, recovery, reg, at, ledger,
                 spent>>

Switch(l) ==
    /\ \/ RunOriginate(l) \/ RefuseOriginate(l) \/ Answer(l) \/ LetGo(l) \/ Hangup(l)
       \/ RunTransfer(l)
    /\ UNCHANGED Application

Handle(l) ==
    \/ Dispatch(l) \/ NoteChannel(l) \/ HandleAnswer(l) \/ HandleHangup(l) \/ HandleBotLeg(l)
    \/ HandleJob(l)

Continue(l) ==
    \/ TakeSlot(l) \/ SlotReserved(l) \/ Overflow(l) \/ SendBridge(l) \/ BridgeReplied(l)
    \/ BridgeUnconfirmed(l) \/ BridgeExpires(l) \/ BridgeGivenUp(l) \/ TransferOnAnswer(l)

Next ==
    \/ \E l \in Legs :
          \/ PlaceAI(l) \/ Dial(l) \/ Switch(l) \/ InviteBot(l) \/ AnswerInvite(l)
          \/ Handle(l)
          \/ WindowEnds(l) \/ JobExpires(l) \/ UnconfirmedAsk(l) \/ UnconfirmedExpires(l)
          \/ WriteFailure(l) \/ Continue(l) \/ Recover(l)
    \/ \E c \in Calls : WriteCDR(c) \/ SlotLapses(c)
    \/ Connect \/ ListChannels \/ AdoptLiveChannels \/ MarkReconciled
    \/ LoseLink \/ Crash

Spec == Init /\ [][Next]_vars

-----------------------------------------------------------------------------
(***************************************************************************)
(* Properties. Those about placing and waiting hold while the link holds;  *)
(* what a drop does to them is said with each.                             *)
(***************************************************************************)
NoDrop == spent.drops = 0
Steady == NoDrop /\ spent.crashes = 0 /\ spent.errors = 0

\* Every variable keeps its type.
TypeOK ==
    /\ SwitchTypeOK
    /\ req \in [Legs -> {"idle", "checked", "claimed", "notLive", "cleared", "lined", "sent",
                         "armed", "done"}]
    /\ \A C \in {placing, lines, due, withdrawn} : C \subseteq Calls
    /\ job \in [Legs -> {"none", "expected", "tracked", "held"}]
    /\ kept \in [Legs -> {"none", "ok", "fail"}]
    /\ expiry \in [Legs -> {"none", "live", "idle"}]
    /\ pend \in [Legs -> SUBSET {"armed", "answered", "released", "spent"}]
    /\ \A S \in {seen, late, answered, reaped, holds, backed, todo, known, reg, failing} :
          S \subseteq Legs
    /\ cont \in [Legs -> {"none", "start", "waiting", "go", "sent", "window", "expired"}]
    /\ slot \in [Calls -> {"none", "reserved", "kept", "taken"}]
    /\ ready \in BOOLEAN /\ rec \in {"idle", "due", "adopt", "recover"}
    /\ listing \in [Legs -> UpStages \cup {"none"}]
    /\ cdr \in [Calls -> {"none", "failure", "call"}]
    /\ ran \in [Legs -> Nat]

\* Idempotent placement: a request and its retry never both have a leg on the
\* switch, a leg that is being ended aside, whether a reply is lost, late or
\* raced, and over a restart (the admission gate). A link that stays down past
\* the job's expiry, or a lost placement-failure row, breaks it.
OneLegPerCall ==
    NoDrop /\ spent.errors = 0 =>
       \A l, m \in Legs :
          l # m /\ CallOf[l] = CallOf[m]
          => ~(IsUp(l) /\ IsUp(m) /\ {l, m} \cap (dying \cup late) = {})

\* A leg's continuation runs once, whichever of the answer, the originate's
\* result and a reconnect's listing starts it. (A listing repeated beside the
\* events after a failed one may be stale, and arm a leg again.)
ContinuationOnce == spent.errors = 0 => \A l \in Legs : ran[l] <= 1

\* The window of an unconfirmed bridge and the bot's INVITE agree on the slot:
\* no leg is ended under a customer who talks to the bot, and an INVITE that
\* comes for a leg given up on is refused. One already past that question when
\* its leg is given up on is answered all the same: handleInvite looks at the
\* withdrawal and at the reservation under the lock twice, not once.
TalkingIsNotEnded ==
    [][spent.errors = 0 =>
          \A l \in backed \ reaped' :
             /\ chan[l] = "bridged" /\ l \in dying' => l \in dying
             /\ chan[l] = "dialing" /\ l \in dying => chan'[l] # "invited"]_vars

\* A slot kept past its short expiry for a bridge has someone to give it back.
KeptIsWatched ==
    spent.errors = 0 =>
       \A c \in Calls : slot[c] = "kept" =>
          \E l \in Legs : CallOf[l] = c /\ (cont[l] \in {"sent", "window", "expired"} \/ l \in holds)

\* Nothing the application has yet to handle concerns the leg.
IsQuiet(l) == link = "up" /\ rec = "idle" /\ IsHandled(l) /\ req[l] \notin {"sent", "armed"}

IsAttended(l) == cont[l] # "none" \/ l \in transfers \cup dying

\* Never leave an answered leg parked: whatever order the reply, the answer and
\* the originate's result come in, and whichever is lost or late, a parked leg
\* is on its way to the bot or being ended.
ParkedIsAttended ==
    Steady => \A l \in Legs : chan[l] = "parked" /\ IsQuiet(l) => IsAttended(l)

\* The same over a reconnect, of a leg whose answer the application has seen.
AnsweredIsNotLeftParked ==
    \A l \in answered : chan[l] = "parked" /\ IsQuiet(l) => IsAttended(l)

\* A placement recorded as failed does not go on ringing: a leg the switch makes
\* after its window is ended.
FailedIsEnded ==
    Steady =>
       \A l \in Legs :
          cdr[CallOf[l]] = "failure" /\ IsUp(l) /\ IsQuiet(l) => l \in dying \cup late

\* A single leg was asked for, and met at most one kind of fault but drops.
IsAlone == Cardinality(spent.budget.legs) = 1 /\ (spent.crashes = 0 \/ spent.errors = 0)

\* The cap on a number's lines counts every call that is up, those adopted from
\* a listing too, but for the legs being ended. (A call dialled twice over a
\* fault may leave one of its legs without.)
LinesCoverCalls ==
    Steady \/ IsAlone =>
       \A l \in reg \ (AgentLegs \cup late \cup reaped) : IsUp(l) => CallOf[l] \in lines

\* While the link holds no line outlasts its call: what is reserved is given back
\* on every path, without the sweep.
LinesComeBack ==
    NoDrop =>
       \A c \in lines : \/ c \in placing \/ Live(c)
                         \/ \E l \in Legs : CallOf[l] = c /\ (IsUp(l) \/ ~IsHandled(l))

\* No placement vanishes: once its leg is gone there is a row, or one on its way.
EndedIsRecorded ==
    Steady =>
       \A l \in Legs :
          chan[l] \in {"gone", "failed"} /\ IsQuiet(l) =>
             job[l] # "none" \/ l \in failing \/ CallOf[l] \in due \/ cdr[CallOf[l]] # "none"

====
