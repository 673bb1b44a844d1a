--------------------------- MODULE AgentPresence ----------------------------
(***************************************************************************)
(* internal/agents: one agent's presence and its three copies. The live    *)
(* one is changed under a lock; the database row and the status the switch *)
(* routes by are written after the lock is given up, from a snapshot.      *)
(*                                                                         *)
(* What the switch says about the agent's phone arrives on the event       *)
(* stream and, after a reconnect, from a listing.                          *)
(***************************************************************************)
EXTENDS Integers, Sequences

CONSTANTS
    Requests,     \* threads that serve the API and the coordinator
    Scenarios     \* bounds, one chosen at the start:
                  \* [ops, requests, signals, drops, restarts, failures, overlap];
                  \* overlap: whether a request may run beside another step

Events == "events"     \* the goroutine that handles the switch's events
Hooks == "hooks"       \* the goroutine that runs the hooks of a reconnect
Threads == Requests \cup {Events, Hooks}

\* What a request may ask for.
Operations == {"login", "logout", "ready", "break", "wrapup", "endwrapup", "noanswer", "roster"}

ASSUME PresenceAssumption ==
    /\ Events \notin Requests /\ Hooks \notin Requests
    /\ Scenarios \subseteq [ops : SUBSET Operations, requests : Nat, signals : Nat, drops : Nat,
                            restarts : Nat, failures : Nat, overlap : BOOLEAN]

VARIABLES
    scenario,
    spent,      \* what was used of it, and whether the switch missed a status since
                \* it was last told one
    live,       \* the presence in memory: state, reason and the phone's flags
    device,     \* what is known of the phone, whoever is signed in
    saved,      \* the agent's row
    job,        \* what each thread is doing
    link, phone, feed, status    \* the switch: status is what it routes by

switchVars == <<link, phone, feed, status>>
vars == <<scenario, spent, live, device, saved, job, switchVars>>

Phones == {[reg |-> FALSE, ok |-> FALSE], [reg |-> TRUE, ok |-> FALSE], [reg |-> TRUE, ok |-> TRUE]}
Gone == [reg |-> FALSE, ok |-> FALSE]
Unheard == [reg |-> FALSE, ok |-> TRUE]    \* of a phone nothing was said about

Reasons == {"", "LOGIN", "BREAK", "AFTER_CALL_WORK", "SYSTEM", "DEVICE_LOST"}
At(state, reason) == [state |-> state, reason |-> reason]
Rows == {At("LOGGED_OUT", ""), At("READY", "")}
        \cup {At("NOT_READY", reason) : reason \in Reasons \ {""}}
Live(row, dev) == [row |-> row, dev |-> dev]

IdleJob == [stage |-> "idle", op |-> "none", before |-> Live(At("LOGGED_OUT", ""), Gone),
            after |-> Live(At("LOGGED_OUT", ""), Gone), then |-> "idle", listed |-> Gone]

Init ==
    /\ scenario \in Scenarios
    /\ spent = [requests |-> 0, signals |-> 0, drops |-> 0, restarts |-> 0, failures |-> 0,
                untold |-> FALSE]
    /\ live = Live(At("LOGGED_OUT", ""), Gone)
    /\ device = Unheard
    /\ saved = At("LOGGED_OUT", "")
    /\ job = [r \in Threads |-> IdleJob]
    /\ link = "up" /\ phone = Gone /\ feed = <<>> /\ status = "Logged Out"

-----------------------------------------------------------------------------
(* Presence: the rules of state.go.                                        *)

IsLoggedOut(p) == p.row.state = "LOGGED_OUT"
IsInWrapUp(p) == p.row = At("NOT_READY", "AFTER_CALL_WORK")

\* The changes a thread may apply, and where each leaves the agent.
Target(op) ==
    CASE op = "login" -> At("NOT_READY", "LOGIN")
      [] op = "logout" -> At("LOGGED_OUT", "")
      [] op \in {"ready", "restore"} -> At("READY", "")
      [] op = "break" -> At("NOT_READY", "BREAK")
      [] op = "wrapup" -> At("NOT_READY", "AFTER_CALL_WORK")
      [] op = "bench" -> At("NOT_READY", "SYSTEM")
      [] op \in {"lost", "release"} -> At("NOT_READY", "DEVICE_LOST")

\* As a READY that does not ask for a phone.
AllowedMutant(op, p) ==
    CASE op = "login" -> IsLoggedOut(p)
      [] op = "ready" -> ~IsLoggedOut(p)
      [] op = "restore" -> p.row = At("NOT_READY", "DEVICE_LOST") /\ p.dev.reg
      [] op = "release" -> p.row.state = "READY"
      [] OTHER -> ~IsLoggedOut(p)

Allowed(op, p) ==
    CASE op = "login" -> IsLoggedOut(p)
      [] op = "ready" -> ~IsLoggedOut(p) /\ p.dev.reg
      [] op = "restore" -> p.row = At("NOT_READY", "DEVICE_LOST") /\ p.dev.reg
      [] op = "release" -> p.row.state = "READY"
      [] OTHER -> ~IsLoggedOut(p)

CallcenterStatus(p) ==
    CASE p.row.state = "READY" -> IF p.dev.reg /\ p.dev.ok THEN "Available" ELSE "On Break"
      [] p.row.state = "NOT_READY" -> "On Break"
      [] OTHER -> "Logged Out"

\* applyDeviceLocked: nothing is changed by a phone nothing is known of.
Known(dev) == IF device = Unheard THEN dev ELSE device

-----------------------------------------------------------------------------
(* Service.change and the operations built on it, step by step.            *)

IsFree == \A r \in Threads : job[r] = IdleJob
MayStart == scenario.overlap \/ (IsFree /\ feed = <<>>)

Ended(r) ==
    IF job[r].then = "idle" THEN IdleJob ELSE [job[r] EXCEPT !.stage = job[r].then, !.then = "idle"]

\* EndWrapUp and RingNoAnswer look before they change; Roster reads the rows.
Begin(r, op) ==
    /\ job[r] = IdleJob /\ MayStart
    /\ op \in scenario.ops /\ spent.requests < scenario.requests
    /\ spent' = [spent EXCEPT !.requests = @ + 1]
    /\ job' = [job EXCEPT ![r] =
                  [@ EXCEPT !.op = op,
                            !.stage = CASE op \in {"endwrapup", "noanswer"} -> "look"
                                        [] op = "roster" -> "read"
                                        [] OTHER -> "change"]]
    /\ UNCHANGED <<scenario, live, device, saved, switchVars>>

\* The lock is given up between the look and the change.
Look(r) ==
    LET goesOn == IF job[r].op = "endwrapup" THEN IsInWrapUp(live)
                  ELSE live.row.state = "READY" /\ live.dev.reg /\ live.dev.ok
        op == CASE job[r].op = "noanswer" -> "bench"
                [] job[r].op = "endwrapup" /\ live.dev.reg -> "ready"
                [] OTHER -> "lost"
    IN  /\ job[r].stage = "look"
        /\ job' = [job EXCEPT ![r] =
                      IF goesOn THEN [@ EXCEPT !.stage = "change", !.op = op] ELSE IdleJob]
        /\ UNCHANGED <<scenario, spent, live, device, saved, switchVars>>

Change(r) ==
    LET op == job[r].op
        dev == IF op = "login" THEN Known(live.dev) ELSE live.dev
        after == Live(Target(op), dev)
    IN  /\ job[r].stage = "change"
        /\ \/ /\ Allowed(op, live)
              /\ live' = after
              /\ job' = [job EXCEPT ![r] = [@ EXCEPT !.stage = "persist", !.before = live,
                                                     !.after = after]]
           \/ /\ ~Allowed(op, live)
              /\ job' = [job EXCEPT ![r] = Ended(r)]
              /\ UNCHANGED live
        /\ UNCHANGED <<scenario, spent, device, saved, switchVars>>

\* The profile that begins every change, or the roster's rows, cannot be read.
ReadFails(r) ==
    /\ job[r].stage \in {"change", "read"} /\ spent.failures < scenario.failures
    /\ spent' = [spent EXCEPT !.failures = @ + 1]
    /\ job' = [job EXCEPT ![r] = Ended(r)]
    /\ UNCHANGED <<scenario, live, device, saved, switchVars>>

\* A failed save puts the presence back as it was before the change; a sign-in
\* is left as it is.
PersistFails(r) ==
    /\ job[r].stage = "persist" /\ spent.failures < scenario.failures
    /\ spent' = [spent EXCEPT !.failures = @ + 1]
    /\ live' = IF job[r].op = "login" THEN live ELSE job[r].before
    /\ job' = [job EXCEPT ![r] = Ended(r)]
    /\ UNCHANGED <<scenario, device, saved, switchVars>>

Persist(r) ==
    /\ job[r].stage = "persist"
    /\ saved' = job[r].after.row
    /\ job' = [job EXCEPT ![r].stage = "mirror"]
    /\ UNCHANGED <<scenario, spent, live, device, switchVars>>

\* mirrorStatus: the switch is told what the snapshot said, if it can be.
Mirror(r) ==
    /\ job[r].stage = "mirror"
    /\ IF link = "up" THEN /\ status' = CallcenterStatus(job[r].after)
                           /\ spent' = [spent EXCEPT !.untold = FALSE]
       ELSE UNCHANGED <<status, spent>>
    /\ job' = [job EXCEPT ![r] = Ended(r)]
    /\ UNCHANGED <<scenario, live, device, saved, link, phone, feed>>

\* A status command that is refused or times out is only logged, and a profile
\* that cannot be read has SyncSwitch pass the agent by; what follows goes on.
MirrorFails(r) ==
    /\ job[r].stage = "mirror" /\ spent.failures < scenario.failures
    /\ spent' = [spent EXCEPT !.failures = @ + 1, !.untold = TRUE]
    /\ job' = [job EXCEPT ![r] = Ended(r)]
    /\ UNCHANGED <<scenario, live, device, saved, switchVars>>

ReadRoster(r) ==
    /\ job[r].stage = "read"
    /\ job' = [job EXCEPT ![r] = [@ EXCEPT !.stage = "roster", !.after.row = saved]]
    /\ UNCHANGED <<scenario, spent, live, device, saved, switchVars>>

\* The row is taken for the durable truth, and the live state set to it.
Roster(r) ==
    LET row == job[r].after.row IN
    /\ job[r].stage = "roster"
    /\ live' = Live(row, IF row.state = "LOGGED_OUT" THEN live.dev ELSE Known(live.dev))
    /\ job' = [job EXCEPT ![r] = IdleJob]
    /\ UNCHANGED <<scenario, spent, device, saved, switchVars>>

-----------------------------------------------------------------------------
(* The phone.                                                              *)

DeviceOf(signal) ==
    CASE signal \in {"REGISTERED", "REACHABLE"} -> [reg |-> TRUE, ok |-> TRUE]
      [] signal = "UNREACHABLE" -> [reg |-> TRUE, ok |-> FALSE]
      [] signal = "UNREGISTERED" -> Gone

\* What is recorded of the phone under the lock.
NoteDevice(dev) ==
    /\ device' = dev
    /\ live' = IF IsLoggedOut(live) THEN live ELSE [live EXCEPT !.dev = dev]

AfterSignal(signal) ==
    CASE signal = "UNREGISTERED" -> "release"
      [] signal = "REGISTERED" -> "restore"
      [] OTHER -> "none"

\* ObserveDevice: recorded, mirrored, and then the agent is taken out of
\* routing or put back. One event at a time, after the hooks of a reconnect.
ObserveDevice ==
    /\ feed # <<>> /\ job[Events] = IdleJob /\ job[Hooks] = IdleJob
    /\ scenario.overlap \/ IsFree
    /\ feed' = Tail(feed)
    /\ NoteDevice(DeviceOf(Head(feed)))
    /\ job' = IF IsLoggedOut(live) THEN job
              ELSE LET op == AfterSignal(Head(feed)) IN
                   [job EXCEPT ![Events] =
                       [@ EXCEPT !.stage = "mirror", !.op = op, !.after = live',
                                 !.then = IF op = "none" THEN "idle" ELSE "change"]]
    /\ UNCHANGED <<scenario, spent, saved, link, phone, status>>

\* It returns when the profile cannot be read: the phone is recorded, the switch
\* is not told and the agent neither released nor put back.
ObserveFails ==
    /\ job[Events].stage = "mirror" /\ job[Events].then = "change"
    /\ spent.failures < scenario.failures
    /\ spent' = [spent EXCEPT !.failures = @ + 1, !.untold = TRUE]
    /\ job' = [job EXCEPT ![Events] = IdleJob]
    /\ UNCHANGED <<scenario, live, device, saved, switchVars>>

-----------------------------------------------------------------------------
(* onSwitchConnected.                                                      *)

Reconnect ==
    /\ link = "down" /\ job[Hooks] = IdleJob
    /\ scenario.overlap \/ (IsFree /\ feed = <<>>)
    /\ link' = "up"
    /\ job' = [job EXCEPT ![Hooks].stage = "list"]
    /\ UNCHANGED <<scenario, spent, live, device, saved, phone, feed, status>>

\* The phones the switch lists are noted; one it does not list is not. A READY
\* agent whose phone is not known to be there is taken out of routing.
ListPhones ==
    /\ job[Hooks].stage = "list" /\ link = "up"
    /\ IF phone.reg THEN NoteDevice(phone) ELSE UNCHANGED <<live, device>>
    /\ job' = [job EXCEPT ![Hooks] =
                  [@ EXCEPT !.stage = IF live'.row.state = "READY" /\ ~live'.dev.reg
                                      THEN "change" ELSE "sync",
                            !.op = "release", !.listed = phone, !.then = "sync"]]
    /\ UNCHANGED <<scenario, spent, saved, switchVars>>

\* The listing failed, or the link went again: nothing is concluded from it.
ListingFails ==
    /\ job[Hooks].stage = "list"
    /\ link = "down" \/ spent.failures < scenario.failures
    /\ spent' = [spent EXCEPT !.failures = IF link = "down" THEN @ ELSE @ + 1]
    /\ job' = [job EXCEPT ![Hooks] = [@ EXCEPT !.stage = "sync"]]
    /\ UNCHANGED <<scenario, live, device, saved, switchVars>>

\* As a mirror pass that tells the switch of nobody.
SyncSwitchMutant ==
    /\ job[Hooks].stage = "sync"
    /\ job' = [job EXCEPT ![Hooks] = IdleJob]
    /\ UNCHANGED <<scenario, spent, live, device, saved, switchVars>>

\* SyncSwitch, for an agent who is signed in.
SyncSwitch ==
    /\ job[Hooks].stage = "sync"
    /\ LET then == IF job[Hooks].listed.reg THEN "announce" ELSE "idle" IN
       job' = [job EXCEPT ![Hooks] =
                  IF IsLoggedOut(live) /\ then = "idle" THEN IdleJob
                  ELSE IF IsLoggedOut(live) THEN [@ EXCEPT !.stage = then, !.then = "idle"]
                  ELSE [@ EXCEPT !.stage = "mirror", !.after = live, !.then = then]]
    /\ UNCHANGED <<scenario, spent, live, device, saved, switchVars>>

\* The listed phones again, this time mirrored and announced.
AnnouncePhones ==
    /\ job[Hooks].stage = "announce"
    /\ NoteDevice(job[Hooks].listed)
    /\ job' = [job EXCEPT ![Hooks] =
                  IF IsLoggedOut(live) THEN IdleJob
                  ELSE [IdleJob EXCEPT !.stage = "mirror", !.after = live']]
    /\ UNCHANGED <<scenario, spent, saved, switchVars>>

-----------------------------------------------------------------------------
(* The switch, the link and the process.                                   *)

PhoneChanges(signal) ==
    /\ spent.signals < scenario.signals
    /\ CASE signal = "REGISTERED" -> TRUE
         [] signal = "UNREGISTERED" -> phone.reg
         [] signal = "REACHABLE" -> phone.reg /\ ~phone.ok
         [] signal = "UNREACHABLE" -> phone.reg /\ phone.ok
    /\ spent' = [spent EXCEPT !.signals = @ + 1]
    /\ phone' = DeviceOf(signal)
    /\ feed' = IF link = "up" THEN Append(feed, signal) ELSE feed
    /\ UNCHANGED <<scenario, live, device, saved, job, link, status>>

\* The link drops, or the switch restarts and forgets its agents.
LinkDrops(forgets) ==
    /\ link = "up" /\ spent.drops < scenario.drops
    /\ spent' = [spent EXCEPT !.drops = @ + 1]
    /\ link' = "down"
    /\ status' = IF forgets THEN "Logged Out" ELSE status
    /\ UNCHANGED <<scenario, live, device, saved, job, phone, feed>>

\* Restore: the row survives, the phones do not.
Restart ==
    /\ spent.restarts < scenario.restarts
    /\ spent' = [spent EXCEPT !.restarts = @ + 1]
    /\ live' = Live(saved, Gone) /\ device' = Unheard
    /\ job' = [r \in Threads |-> IdleJob]
    /\ link' = "down" /\ feed' = <<>>
    /\ UNCHANGED <<scenario, saved, phone, status>>

Signals == {"REGISTERED", "UNREGISTERED", "REACHABLE", "UNREACHABLE"}

Next ==
    \/ \E r \in Requests, op \in scenario.ops : Begin(r, op)
    \/ \E r \in Threads : \/ Look(r) \/ Change(r) \/ Persist(r) \/ PersistFails(r) \/ Mirror(r)
                         \/ MirrorFails(r) \/ ReadFails(r) \/ ReadRoster(r) \/ Roster(r)
    \/ ObserveDevice \/ ObserveFails \/ Reconnect \/ ListPhones \/ ListingFails \/ SyncSwitch \/ AnnouncePhones
    \/ \E signal \in Signals : PhoneChanges(signal)
    \/ \E forgets \in BOOLEAN : LinkDrops(forgets)
    \/ Restart

Spec == Init /\ [][Next]_vars
-----------------------------------------------------------------------------
(* Properties.                                                             *)

\* Every variable keeps its type.
TypeOK ==
    /\ live.row \in Rows /\ live.dev \in Phones
    /\ device \in Phones \cup {Unheard} /\ phone \in Phones
    /\ saved \in Rows /\ status \in {"Available", "On Break", "Logged Out"}
    /\ link \in {"up", "down"}

\* Nothing is on its way to any of the copies.
Quiet == IsFree /\ link = "up" /\ feed = <<>>

\* READY means a phone that is there: no agent is READY when everything the
\* switch said about the phone has been acted on and the phone has no
\* registration (ErrDeviceNotRegistered, releaseForLostDevice,
\* ReleaseAgentsWithoutPhones).
ReadyHasAPhone ==
    Quiet /\ spent.failures = 0 => (live.row.state = "READY" => phone.reg)

\* A roster read beside a change may put back the row the change replaced.
RosterAlone == scenario.overlap => "roster" \notin scenario.ops

\* The same, under what the code can do for it: the link has not dropped under
\* the running process, no read, save or status command failed, and no roster
\* is read beside another operation, since Roster sets the live presence to a
\* row it read before the lock.
ReadyHasAPhoneHere == spent.drops = 0 /\ RosterAlone => ReadyHasAPhone

\* The live presence and the row agree after failed reads and saves, drops,
\* restarts of either side and crashes between the writes, and so does the
\* status the switch routes by unless the last thing it should have been told
\* did not reach it (change, mirrorStatus, SyncSwitch, Restore): any status that
\* does reach it puts it right. It is promised when no two operations on the
\* agent overlap. Left out: an agent signed out while the switch could not be
\* told, whom the mirror pass skips, and a sign-in whose save failed, which is
\* not taken back.
CopiesAgree ==
    Quiet /\ ~scenario.overlap =>
        \/ saved.state = "LOGGED_OUT" /\ spent.drops + spent.restarts + spent.failures > 0
        \/ live.row = saved /\ (spent.untold \/ status = CallcenterStatus(live))
=============================================================================
