------------------------ MODULE AgentPresenceProofs -------------------------
(***************************************************************************)
(* What is promised of an agent's presence holds for every set of request  *)
(* threads and every bound on their operations, the phone's signals, the   *)
(* drops, the restarts and the failed saves.                               *)
(*                                                                         *)
(* CopiesAgree speaks of moments when nothing is on its way. The invariant *)
(* says what is on its way in between: RowInv, which snapshot the row will *)
(* be written from and what a failed save would put back; StatusInv, who   *)
(* will tell the switch next. Both need that one thread at a time has a    *)
(* job (SoloInv), what the stages of a job can be (JobsInv) and that a     *)
(* reconnect was preceded by a drop or a restart (LinkInv).                *)
(*                                                                         *)
(* ReadyHasAPhoneHere holds beside overlapping operations too. It rests on *)
(* ReleaseInv (a READY agent without a phone has a release under way),     *)
(* DeviceInv (the flags of a presence are what was last noted) and         *)
(* HeardInv (what was last noted, or the last signal on the stream, is the *)
(* phone).                                                                 *)
(***************************************************************************)
EXTENDS AgentPresence, SequenceTheorems, TLAPS

(***************************************************************************)
(* Types of the state, the jobs included.                                  *)
(***************************************************************************)
Presences == [row : Rows, dev : Phones]
Changes == {"login", "logout", "ready", "restore", "break", "wrapup", "bench", "lost", "release"}
Stages == {"idle", "look", "read", "roster", "change", "persist", "mirror", "list", "sync", "announce"}
Jobs == [ stage : Stages, op : Operations \cup Changes \cup {"none"}, before : Presences,
          after : Presences, then : {"idle", "change", "sync", "announce"}, listed : Phones ]
Spendings == [requests : Nat, signals : Nat, drops : Nat, restarts : Nat, failures : Nat,
              untold : BOOLEAN]

Typed ==
    /\ scenario \in Scenarios /\ spent \in Spendings
    /\ live \in Presences /\ device \in Phones \cup {Unheard} /\ saved \in Rows
    /\ job \in [Threads -> Jobs]
    /\ link \in {"up", "down"} /\ phone \in Phones /\ feed \in Seq(Signals)
    /\ status \in {"Available", "On Break", "Logged Out"}

-----------------------------------------------------------------------------
(***************************************************************************)
(* Where the threads can be.                                               *)
(***************************************************************************)
\* A thread that changes or saves has a change to make.
ChangingOk(j) == j.stage \in {"change", "persist"} => j.op \in Changes

RequestOk(j) ==
    /\ j.stage \in {"idle", "look", "read", "roster", "change", "persist", "mirror"}
    /\ j.then = "idle"
    /\ j.stage = "look" => j.op \in {"endwrapup", "noanswer"}
    /\ j.stage \in {"read", "roster"} => j.op = "roster"

EventsOk(j) ==
    /\ j.stage \in {"idle", "change", "persist", "mirror"}
    /\ j.then \in {"idle", "change"}
    /\ j.then = "change" => j.stage = "mirror" /\ j.op \in {"release", "restore"}

HooksOk(j) ==
    /\ j.stage \in {"idle", "list", "change", "persist", "mirror", "sync", "announce"}
    /\ j.then \in {"idle", "sync", "announce"}
    /\ j.stage = "list" => j = [IdleJob EXCEPT !.stage = "list"]
    /\ j.stage \in {"change", "persist"} => j.op = "release" /\ j.then = "sync"
    /\ j.then = "announce" => j.stage = "mirror"
    /\ j.then = "announce" \/ j.stage = "announce" => j.listed.reg

\* What a thread's job may be.
ThreadOk(r, j) ==
    /\ ChangingOk(j)
    /\ j.stage = "idle" => j = IdleJob
    /\ r \in Requests => RequestOk(j) /\ (j.op = "roster" => "roster" \in scenario.ops)
    /\ r = Events => EventsOk(j)
    /\ r = Hooks => HooksOk(j)

JobsInv == \A r \in Threads : ThreadOk(r, job[r])

\* The link is down only after a drop or a restart, and only then hooks run.
LinkInv == link = "down" \/ job[Hooks] # IdleJob => spent.drops + spent.restarts > 0

-----------------------------------------------------------------------------
(***************************************************************************)
(* The phone. As long as no save has failed, or nothing overlaps, the      *)
(* flags of a signed-in agent are what is known of the phone.              *)
(***************************************************************************)
DeviceInv ==
    ~scenario.overlap \/ spent.failures = 0 =>
        /\ device = Unheard => live.dev = Gone
        /\ device # Unheard /\ ~IsLoggedOut(live) => live.dev = device

\* A restart has heard of no phone until the listing.
BeforeListing == link = "down" \/ job[Hooks].stage = "list"

\* Without a drop: the last signal on the stream, and otherwise what was last
\* noted, is the phone; events wait for the hooks, which have noted what they
\* listed.
HeardInv ==
    spent.drops = 0 =>
        /\ BeforeListing => device = Unheard /\ job[Events] = IdleJob
        /\ link = "down" => feed = <<>> /\ job[Hooks] = IdleJob
        /\ feed # <<>> => phone = DeviceOf(feed[Len(feed)])
        /\ feed = <<>> /\ ~BeforeListing => (device.reg => phone.reg)
        /\ job[Hooks].listed.reg => device = job[Hooks].listed
        /\ job[Hooks] # IdleJob => job[Events] = IdleJob

Releasing(j) == j.op = "release" /\ (j.stage = "change" \/ (j.stage = "mirror" /\ j.then = "change"))

\* A READY agent without a phone is about to be taken out of routing.
ReleaseInv ==
    spent.drops = 0 /\ spent.failures = 0 /\ RosterAlone
        /\ live.row.state = "READY" /\ ~live.dev.reg =>
            BeforeListing \/ Releasing(job[Events]) \/ Releasing(job[Hooks])

-----------------------------------------------------------------------------
(***************************************************************************)
(* The copies, when no two operations overlap.                             *)
(***************************************************************************)
\* One thread at a time has a job.
SoloInv ==
    ~scenario.overlap => \A r, s \in Threads : job[r] # IdleJob /\ job[s] # IdleJob => r = s

\* What CopiesAgree leaves out.
SavedOut == saved.state = "LOGGED_OUT" /\ spent.drops + spent.restarts + spent.failures > 0
SavedOutFailed == saved.state = "LOGGED_OUT" /\ spent.failures > 0

\* What the snapshots of a job say.
RowOk(j) ==
    /\ j.stage = "persist" => /\ j.after = live
                              /\ SavedOutFailed \/ j.before.row = saved
                              /\ j.op # "login" => j.before.dev = live.dev
                              /\ j.op = "login" => j.before.row = At("LOGGED_OUT", "")
                              /\ device # Unheard /\ ~IsLoggedOut(j.before) => j.before.dev = device
    /\ j.stage = "mirror" => j.after = live
    /\ j.stage = "roster" => j.after.row = saved

\* The row is the live one, or the one before a change on its way to it.
RowInv ==
    ~scenario.overlap =>
        /\ SavedOutFailed \/ live.row = saved \/ \E r \in Threads : job[r].stage = "persist"
        /\ \A r \in Threads : RowOk(job[r])

\* The mirror pass is still to come.
PassAhead(j) == j.stage \in {"list", "sync"} \/ j.then = "sync"

\* While the link is up, what the switch routes by is the live presence, that
\* before a change on its way to be saved, or about to be told, unless what it
\* should have been told last did not reach it.
StatusInv ==
    ~scenario.overlap /\ link = "up" =>
        \/ SavedOut \/ spent.untold \/ PassAhead(job[Hooks])
        \/ \E r \in Threads : job[r].stage = "mirror"
        \/ \E r \in Threads : job[r].stage = "persist" /\ status = CallcenterStatus(job[r].before)
        \/ (\A r \in Threads : job[r].stage # "persist") /\ status = CallcenterStatus(live)

IInv == /\ Typed /\ JobsInv /\ LinkInv /\ DeviceInv /\ HeardInv /\ ReleaseInv
        /\ SoloInv /\ RowInv /\ StatusInv

-----------------------------------------------------------------------------
(***************************************************************************)
(* Jobs and the fields a step sets in them.                                *)
(***************************************************************************)
\* The job of one thread is replaced.
Sets(r, j) ==
    /\ job' \in [Threads -> Jobs] /\ j \in Jobs /\ job'[r] = j
    /\ \A s \in Threads \ {r} : job'[s] = job[s]

\* A step that gives one thread another job does so.
LEMMA SetsJob ==
    ASSUME Typed, NEW r \in Threads, NEW j \in Jobs, job' = [job EXCEPT ![r] = j]
    PROVE  Sets(r, j)
BY DEF Typed, Sets

\* The fields of a job.
LEMMA JobFields ==
    ASSUME NEW j \in Jobs
    PROVE  /\ j.stage \in Stages /\ j.op \in Operations \cup Changes \cup {"none"}
           /\ j.before \in Presences /\ j.after \in Presences
           /\ j.then \in {"idle", "change", "sync", "announce"} /\ j.listed \in Phones
BY DEF Jobs

\* The job of a thread with nothing to do.
LEMMA IdleIs ==
    /\ IdleJob \in Jobs /\ IdleJob.stage = "idle" /\ IdleJob.op = "none"
    /\ IdleJob.then = "idle" /\ IdleJob.listed = Gone
    /\ Gone \in Phones /\ ~Gone.reg /\ Unheard \notin Phones /\ ~Unheard.reg
    /\ At("LOGGED_OUT", "") \in Rows
BY DEF IdleJob, Jobs, Stages, Presences, Live, Rows, At, Phones, Gone, Unheard

\* A presence is a row and the phone's flags.
LEMMA Lives ==
    /\ \A x \in Rows, d \in Phones :
           Live(x, d) \in Presences /\ Live(x, d).row = x /\ Live(x, d).dev = d
    /\ \A p \in Presences :
           /\ p.row \in Rows /\ p.dev \in Phones /\ p = Live(p.row, p.dev)
           /\ \A d \in Phones : [p EXCEPT !.dev = d] = Live(p.row, d)
BY DEF Live, Presences

\* What the rows are told apart by.
LEMMA RowsAre ==
    /\ \A x \in Rows : /\ x.state \in {"LOGGED_OUT", "NOT_READY", "READY"}
                        /\ x.state = "LOGGED_OUT" => x = At("LOGGED_OUT", "")
    /\ At("LOGGED_OUT", "").state = "LOGGED_OUT"
<1>1. \A x, y : At(x, y).state = x
  BY DEF At
<1>2. \A x \in Rows : \/ x = At("LOGGED_OUT", "") \/ x = At("READY", "")
                      \/ \E y \in Reasons : x = At("NOT_READY", y)
  BY DEF Rows
<1>3. ASSUME NEW x \in Rows
      PROVE  /\ x.state \in {"LOGGED_OUT", "NOT_READY", "READY"}
             /\ x.state = "LOGGED_OUT" => x = At("LOGGED_OUT", "")
  <2>1. CASE x = At("LOGGED_OUT", "")
    BY <1>1, <2>1
  <2>2. CASE x = At("READY", "")
    <3>1. x.state = "READY"
      BY <1>1, <2>2
    <3> QED BY <3>1
  <2>3. ASSUME NEW y \in Reasons, x = At("NOT_READY", y)
        PROVE  x.state = "NOT_READY"
    BY <1>1, <2>3
  <2> QED BY <1>2, <2>1, <2>2, <2>3
<1> QED BY <1>1, <1>3

\* Where a change leaves the agent: READY only by asking for it or by a phone
\* that is back, signed out only by signing out.
LEMMA Targets ==
    ASSUME NEW op \in Changes
    PROVE  /\ Target(op) \in Rows
           /\ Target(op).state = "READY" <=> op \in {"ready", "restore"}
           /\ Target(op).state = "LOGGED_OUT" <=> op = "logout"
<1>1. Target(op) \in {At("LOGGED_OUT", ""), At("READY", ""), At("NOT_READY", "LOGIN"),
                      At("NOT_READY", "BREAK"), At("NOT_READY", "AFTER_CALL_WORK"),
                      At("NOT_READY", "SYSTEM"), At("NOT_READY", "DEVICE_LOST")}
  BY DEF Changes, Target
<1>2. Target(op) \in Rows
  BY <1>1 DEF Rows, Reasons
<1>3. /\ op \in {"ready", "restore"} => Target(op) = At("READY", "")
      /\ op = "logout" => Target(op) = At("LOGGED_OUT", "")
      /\ op \notin {"ready", "restore", "logout"} => \E x : Target(op) = At("NOT_READY", x)
  BY DEF Changes, Target
<1>4. \A x, y : At(x, y).state = x
  BY DEF At
<1>5. /\ op \in {"ready", "restore"} => Target(op).state = "READY"
      /\ op = "logout" => Target(op).state = "LOGGED_OUT"
      /\ op \notin {"ready", "restore", "logout"} => Target(op).state = "NOT_READY"
  BY <1>3, <1>4
<1> QED BY <1>2, <1>5

\* What a change asks for: a phone before READY, a sign-in before anything else.
LEMMA Asks ==
    ASSUME NEW op \in Changes, NEW p, Allowed(op, p)
    PROVE  /\ op \in {"ready", "restore"} => p.dev.reg
           /\ op = "login" <=> IsLoggedOut(p)
BY DEF Changes, Allowed, IsLoggedOut, At

\* The counts of what the bounds allow.
LEMMA Spends ==
    ASSUME NEW x \in Spendings
    PROVE  /\ x.requests \in Nat /\ x.signals \in Nat /\ x.drops \in Nat /\ x.restarts \in Nat
           /\ x.failures \in Nat
           /\ [x EXCEPT !.requests = @ + 1] \in Spendings
           /\ [x EXCEPT !.requests = @ + 1].drops = x.drops
           /\ [x EXCEPT !.requests = @ + 1].restarts = x.restarts
           /\ [x EXCEPT !.requests = @ + 1].failures = x.failures
           /\ [x EXCEPT !.requests = @ + 1].untold = x.untold
           /\ [x EXCEPT !.signals = @ + 1] \in Spendings
           /\ [x EXCEPT !.signals = @ + 1].drops = x.drops
           /\ [x EXCEPT !.signals = @ + 1].restarts = x.restarts
           /\ [x EXCEPT !.signals = @ + 1].failures = x.failures
           /\ [x EXCEPT !.signals = @ + 1].untold = x.untold
           /\ [x EXCEPT !.drops = @ + 1] \in Spendings
           /\ [x EXCEPT !.drops = @ + 1].drops = x.drops + 1
           /\ [x EXCEPT !.drops = @ + 1].restarts = x.restarts
           /\ [x EXCEPT !.drops = @ + 1].failures = x.failures
           /\ [x EXCEPT !.drops = @ + 1].untold = x.untold
           /\ [x EXCEPT !.restarts = @ + 1] \in Spendings
           /\ [x EXCEPT !.restarts = @ + 1].drops = x.drops
           /\ [x EXCEPT !.restarts = @ + 1].restarts = x.restarts + 1
           /\ [x EXCEPT !.restarts = @ + 1].failures = x.failures
           /\ [x EXCEPT !.restarts = @ + 1].untold = x.untold
           /\ [x EXCEPT !.failures = @ + 1] \in Spendings
           /\ [x EXCEPT !.failures = @ + 1].drops = x.drops
           /\ [x EXCEPT !.failures = @ + 1].restarts = x.restarts
           /\ [x EXCEPT !.failures = @ + 1].failures = x.failures + 1
           /\ [x EXCEPT !.failures = @ + 1].untold = x.untold
BY DEF Spendings

\* A job that ends is over, or goes on with what it was to do next.
LEMMA Ends ==
    ASSUME Typed, JobsInv, NEW r \in Threads, job[r].stage \in {"change", "persist", "mirror"}
    PROVE  LET j == Ended(r)
           IN  /\ j \in Jobs /\ ThreadOk(r, j) /\ j.stage \in {"idle", "change", "sync", "announce"}
               /\ j = IdleJob \/ (j.listed = job[r].listed /\ j.op = job[r].op)
               /\ r = Hooks /\ job[r].stage \in {"change", "persist"} => j.stage = "sync"
               /\ job[r].stage = "mirror" /\ Releasing(job[r]) => Releasing(j)
<1>1. job[r] \in Jobs /\ ThreadOk(r, job[r]) /\ r \in Requests \cup {Events, Hooks}
  BY DEF Typed, JobsInv, Threads
<1>2. CASE job[r].then = "idle"
  <2>1. Ended(r) = IdleJob
    BY <1>2 DEF Ended
  <2>2. ThreadOk(r, IdleJob)
    BY <1>1, IdleIs DEF ThreadOk, ChangingOk, RequestOk, EventsOk, HooksOk
  <2>3. ~(r = Hooks /\ job[r].stage \in {"change", "persist"})
    BY <1>1, <1>2 DEF ThreadOk, HooksOk
  <2> QED BY <1>2, <2>1, <2>2, <2>3, IdleIs DEF Releasing
<1>3. CASE job[r].then # "idle"
  <2>a. PICK q \in Jobs : q = job[r]
    BY <1>1
  <2>b. PICK b : b = q.then
    OBVIOUS
  <2> DEFINE j == [q EXCEPT !.stage = b, !.then = "idle"]
  <2>1. Ended(r) = j
    BY <1>3, <2>a, <2>b DEF Ended
  <2>2. b \in {"change", "sync", "announce"} /\ b \in Stages
    BY <1>3, <2>a, <2>b, JobFields DEF Stages
  <2>3. /\ j \in Jobs /\ j.stage = job[r].then /\ j.op = job[r].op /\ j.then = "idle"
        /\ j.listed = job[r].listed
    BY <2>a, <2>b, <2>2 DEF Jobs
  <2> HIDE DEF j
  <2>4. ThreadOk(r, j)
    <3>1. CASE r \in Requests
      BY <1>1, <1>3, <3>1 DEF ThreadOk, RequestOk
    <3>2. CASE r = Events
      <4>1. r \notin Requests /\ r # Hooks
        BY <3>2, PresenceAssumption DEF PresenceAssumption, Events, Hooks
      <4>2. j.stage = "change" /\ j.op \in {"release", "restore"}
        BY <1>1, <1>3, <2>3, <3>2 DEF ThreadOk, EventsOk
      <4> QED BY <2>3, <4>1, <4>2 DEF ThreadOk, ChangingOk, EventsOk, Changes
    <3>3. CASE r = Hooks
      <4>1. r \notin Requests /\ r # Events
        BY <3>3, PresenceAssumption DEF PresenceAssumption, Events, Hooks
      <4>2. j.stage \in {"sync", "announce"} /\ (j.stage = "announce" => j.listed.reg)
        BY <1>1, <1>3, <2>3, <3>3 DEF ThreadOk, HooksOk
      <4> QED BY <2>3, <4>1, <4>2 DEF ThreadOk, ChangingOk, HooksOk
    <3> QED BY <1>1, <3>1, <3>2, <3>3
  <2>5. r = Hooks /\ job[r].stage \in {"change", "persist"} => j.stage = "sync"
    BY <1>1, <2>3 DEF ThreadOk, HooksOk
  <2>6. Releasing(job[r]) /\ job[r].stage = "mirror" => Releasing(j)
    BY <2>3 DEF Releasing
  <2> QED BY <2>1, <2>a, <2>b, <2>2, <2>3, <2>4, <2>5, <2>6
<1> QED BY <1>2, <1>3

\* When nothing overlaps, a thread with a job is the only one.
LEMMA Alone ==
    ASSUME SoloInv, ~scenario.overlap, NEW r \in Threads, job[r].stage # "idle"
    PROVE  \A s \in Threads \ {r} : job[s] = IdleJob /\ job[s].stage = "idle"
BY IdleIs DEF SoloInv

\* A step of a thread at its own job keeps the jobs in order and leaves what is
\* heard of the phone as it is.
LEMMA ThreadFrame ==
    ASSUME IInv, NEW r \in Threads, NEW j, Sets(r, j), ThreadOk(r, j),
           UNCHANGED <<scenario, device, link, phone, feed>>,
           spent'.drops = spent.drops, spent'.restarts = spent.restarts,
           \/ job[r].stage \notin {"idle", "list"}
           \/ r \in Requests /\ (scenario.overlap \/ IsFree),
           j.stage # "list", j = IdleJob \/ j.listed = job[r].listed
    PROVE  JobsInv' /\ LinkInv' /\ SoloInv' /\ HeardInv'
<1>0. /\ Typed /\ JobsInv /\ LinkInv /\ SoloInv /\ HeardInv
      /\ Events \in Threads /\ Hooks \in Threads /\ Events # Hooks
      /\ Events \notin Requests /\ Hooks \notin Requests
  BY PresenceAssumption DEF IInv, Threads, PresenceAssumption, Events, Hooks
<1>1. \A s \in Threads \ {r} : job'[s] = job[s]
  BY DEF Sets
<1>2. JobsInv'
  BY <1>0, <1>1 DEF JobsInv, ThreadOk, Sets
<1>3. LinkInv'
  BY <1>0, <1>1, IdleIs DEF LinkInv, Sets
<1>4. SoloInv'
  <2>1. SUFFICES ASSUME ~scenario.overlap, NEW t \in Threads, NEW s \in Threads,
                        job'[t] # IdleJob, job'[s] # IdleJob, t # s
                 PROVE  FALSE
    BY DEF SoloInv
  <2> QED BY <1>0, <1>1, <2>1, IdleIs DEF SoloInv, IsFree, Sets
<1>5. HeardInv'
  <2>1. CASE r \in Requests
    BY <1>0, <1>1, <2>1 DEF HeardInv, BeforeListing
  <2>2. CASE r = Events
    BY <1>0, <1>1, <2>2, IdleIs DEF HeardInv, BeforeListing
  <2>3. CASE r = Hooks
    BY <1>0, <1>1, <2>3, IdleIs DEF HeardInv, BeforeListing, Sets
  <2> QED BY <2>1, <2>2, <2>3 DEF Threads
<1> QED BY <1>2, <1>3, <1>4, <1>5

\* The parts of the invariant that the copies and the release depend on.
Rest == Typed /\ DeviceInv /\ ReleaseInv /\ RowInv /\ StatusInv

\* A step that changes nothing but the job of a request that has no snapshot.
LEMMA RequestFrame ==
    ASSUME IInv, NEW r \in Requests, NEW j, Sets(r, j),
           UNCHANGED <<scenario, live, device, saved, switchVars>>, spent' \in Spendings,
           spent'.drops = spent.drops, spent'.restarts = spent.restarts,
           spent'.failures = spent.failures, spent'.untold = spent.untold,
           job[r].stage \notin {"persist", "mirror"}, j.stage \notin {"persist", "mirror"},
           j.stage = "roster" => j.after.row = saved
    PROVE  Rest'
<1>0. /\ Typed /\ DeviceInv /\ ReleaseInv /\ RowInv /\ StatusInv
      /\ r \in Threads /\ Events \in Threads /\ Hooks \in Threads
      /\ r # Events /\ r # Hooks
  BY PresenceAssumption DEF IInv, Threads, PresenceAssumption
<1>1. \A s \in Threads : s # r => job'[s] = job[s]
  BY DEF Sets
<1>2. job'[Events] = job[Events] /\ job'[Hooks] = job[Hooks] /\ job'[r] = j
  BY <1>0, <1>1 DEF Sets
<1>3. Typed'
  BY <1>0 DEF Typed, Sets, switchVars
<1>4. DeviceInv'
  BY <1>0 DEF DeviceInv, IsLoggedOut
<1>5. ReleaseInv'
  BY <1>0, <1>2 DEF ReleaseInv, BeforeListing, RosterAlone, switchVars
<1>6. \A s \in Threads : job'[s].stage = "persist" <=> job[s].stage = "persist"
  BY <1>1, <1>2
<1>7. \A s \in Threads : job'[s].stage = "mirror" <=> job[s].stage = "mirror"
  BY <1>1, <1>2
<1>8. RowInv'
  <2>1. SUFFICES ASSUME ~scenario.overlap
                 PROVE  /\ \/ SavedOutFailed \/ live.row = saved
                           \/ \E s \in Threads : job'[s].stage = "persist"
                        /\ \A s \in Threads : RowOk(job[s])'
    BY DEF RowInv, SavedOutFailed
  <2>2. RowOk(j)
    BY DEF RowOk
  <2>3. ASSUME NEW s \in Threads PROVE RowOk(job[s])'
    <3>1. PICK x : x = job'[s] /\ RowOk(x)
      BY <1>0, <1>1, <1>2, <2>1, <2>2 DEF RowInv
    <3>2. RowOk(x)'
      BY <3>1 DEF RowOk, SavedOutFailed, IsLoggedOut
    <3> QED BY <3>1, <3>2
  <2>4. \/ SavedOutFailed \/ live.row = saved
        \/ \E s \in Threads : job'[s].stage = "persist"
    BY <1>0, <1>6, <2>1 DEF RowInv
  <2> QED BY <2>3, <2>4
<1>9. StatusInv'
  <2>1. \A s \in Threads : job[s].stage = "persist" => job'[s] = job[s]
    BY <1>1, <1>2
  <2> QED BY <1>0, <1>2, <1>6, <1>7, <2>1
      DEF StatusInv, SavedOut, PassAhead, switchVars, CallcenterStatus
<1> QED BY <1>3, <1>4, <1>5, <1>8, <1>9 DEF Rest

\* The parts proved of a step make up the invariant.
LEMMA Together ==
    ASSUME Rest', JobsInv' /\ LinkInv' /\ SoloInv' /\ HeardInv'
    PROVE  IInv'
BY DEF Rest, IInv

\* A request begins: its thread gets a job, nothing else changes.
LEMMA BeginStep ==
    ASSUME IInv, NEW r \in Requests, NEW op \in scenario.ops, Begin(r, op)
    PROVE  IInv'
<1>0. /\ Typed /\ r \in Threads /\ op \in Operations /\ op \in scenario.ops
      /\ r # Events /\ r # Hooks
  BY PresenceAssumption DEF IInv, Typed, Threads, PresenceAssumption
<1>1. PICK a \in {"look", "read", "change"} :
          /\ job' = [job EXCEPT ![r] = [IdleJob EXCEPT !.op = op, !.stage = a]]
          /\ a = "look" => op \in {"endwrapup", "noanswer"}
          /\ a = "read" => op = "roster"
          /\ a = "change" => op \notin {"endwrapup", "noanswer", "roster"}
  BY <1>0 DEF Begin, Typed
<1> DEFINE j == [IdleJob EXCEPT !.op = op, !.stage = a]
<1>2. /\ j \in Jobs /\ j.stage = a /\ j.op = op /\ j.then = "idle" /\ j.listed = Gone
  BY <1>0, IdleIs DEF Jobs, Stages
<1>3. Sets(r, j)
  BY <1>0, <1>1, <1>2, SetsJob
<1> HIDE DEF j
<1>4. ThreadOk(r, j)
  BY <1>0, <1>1, <1>2 DEF ThreadOk, ChangingOk, RequestOk, Operations, Changes
<1>5. /\ UNCHANGED <<scenario, live, device, saved, switchVars>> /\ spent' \in Spendings
      /\ spent'.drops = spent.drops /\ spent'.restarts = spent.restarts
      /\ spent'.failures = spent.failures /\ spent'.untold = spent.untold
  BY <1>0, Spends DEF Begin, Typed
<1>6. job[r] = IdleJob /\ (scenario.overlap \/ IsFree)
  BY DEF Begin, MayStart
<1>7. Rest'
  BY <1>2, <1>3, <1>5, <1>6, RequestFrame, IdleIs
<1>8. JobsInv' /\ LinkInv' /\ SoloInv' /\ HeardInv'
  BY <1>0, <1>2, <1>3, <1>4, <1>5, <1>6, ThreadFrame, IdleIs DEF switchVars
<1> QED BY <1>7, <1>8, Together

\* A look under the lock decides whether a change follows, and which.
LEMMA LookStep ==
    ASSUME IInv, NEW r \in Threads, Look(r)
    PROVE  IInv'
<1>0. /\ Typed /\ JobsInv /\ job[r] \in Jobs /\ job[r].stage = "look" /\ ThreadOk(r, job[r])
  BY DEF IInv, Typed, JobsInv, Look
<1>1. r \in Requests /\ r # Events /\ r # Hooks
  BY <1>0, PresenceAssumption DEF Threads, ThreadOk, EventsOk, HooksOk, PresenceAssumption
<1>2. PICK o \in {"bench", "ready", "lost"} :
          \/ job' = [job EXCEPT ![r] = [job[r] EXCEPT !.stage = "change", !.op = o]]
          \/ job' = [job EXCEPT ![r] = IdleJob]
  BY <1>0 DEF Look, Typed
<1> DEFINE k == [job[r] EXCEPT !.stage = "change", !.op = o]
<1>3. k \in Jobs /\ k.stage = "change" /\ k.op = o /\ k.then = job[r].then /\ k.listed = job[r].listed
  BY <1>0 DEF Jobs, Stages, Changes
<1>4. PICK j \in {k, IdleJob} : Sets(r, j)
  BY <1>0, <1>2, <1>3, SetsJob, IdleIs
<1> HIDE DEF k
<1>5. ThreadOk(r, j)
  BY <1>0, <1>1, <1>3, IdleIs DEF ThreadOk, ChangingOk, RequestOk, Changes
<1>6. /\ UNCHANGED <<scenario, spent, live, device, saved, switchVars>> /\ spent \in Spendings
  BY <1>0 DEF Look, Typed
<1>7. j.stage \in {"change", "idle"} /\ (j = IdleJob \/ j.listed = job[r].listed)
  BY <1>3, IdleIs
<1>8. Rest'
  BY <1>0, <1>1, <1>4, <1>6, <1>7, RequestFrame
<1>9. JobsInv' /\ LinkInv' /\ SoloInv' /\ HeardInv'
  BY <1>0, <1>4, <1>5, <1>6, <1>7, ThreadFrame DEF switchVars
<1> QED BY <1>8, <1>9, Together

\* The roster's read remembers the row as it is.
LEMMA ReadRosterStep ==
    ASSUME IInv, NEW r \in Threads, ReadRoster(r)
    PROVE  IInv'
<1>0. /\ Typed /\ job[r] \in Jobs /\ job[r].stage = "read" /\ ThreadOk(r, job[r]) /\ saved \in Rows
  BY DEF IInv, Typed, JobsInv, ReadRoster
<1>1. r \in Requests /\ r # Events /\ r # Hooks
  BY <1>0, PresenceAssumption DEF Threads, ThreadOk, EventsOk, HooksOk, PresenceAssumption
<1> DEFINE j == [job[r] EXCEPT !.stage = "roster", !.after.row = saved]
<1>2. /\ j \in Jobs /\ j.stage = "roster" /\ j.op = job[r].op /\ j.then = job[r].then
      /\ j.listed = job[r].listed /\ j.after.row = saved
  BY <1>0 DEF Jobs, Stages, Presences
<1>3. Sets(r, j)
  BY <1>0, <1>2, SetsJob DEF ReadRoster
<1> HIDE DEF j
<1>4. ThreadOk(r, j)
  BY <1>0, <1>1, <1>2 DEF ThreadOk, ChangingOk, RequestOk
<1>5. UNCHANGED <<scenario, spent, live, device, saved, switchVars>> /\ spent \in Spendings
  BY <1>0 DEF ReadRoster, Typed
<1>6. Rest'
  BY <1>0, <1>1, <1>2, <1>3, <1>5, RequestFrame
<1>7. JobsInv' /\ LinkInv' /\ SoloInv' /\ HeardInv'
  BY <1>0, <1>2, <1>3, <1>4, <1>5, ThreadFrame DEF switchVars
<1> QED BY <1>6, <1>7, Together

\* When nothing overlaps, the snapshots of the thread at work are all there are.
LEMMA RowsOf ==
    ASSUME NEW r \in Threads, NEW j, Sets(r, j),
           \A s \in Threads \ {r} : job[s].stage = "idle"
    PROVE  /\ (\E s \in Threads : job[s].stage = "persist") <=> job[r].stage = "persist"
           /\ (\E s \in Threads : job[s].stage = "mirror") <=> job[r].stage = "mirror"
           /\ \A s \in Threads \ {r} : RowOk(job[s])'
           /\ (\E s \in Threads : job'[s].stage = "persist") <=> j.stage = "persist"
           /\ (\E s \in Threads : job'[s].stage = "mirror") <=> j.stage = "mirror"
           /\ \A p : (\E s \in Threads : job[s].stage = "persist" /\ p = CallcenterStatus(job[s].before))
                      <=> job[r].stage = "persist" /\ p = CallcenterStatus(job[r].before)
           /\ r # Hooks => ~PassAhead(job[Hooks]) \/ job[Hooks].then = "sync"
<1>1. /\ job'[r] = j /\ \A s \in Threads \ {r} : job'[s] = job[s]
      /\ Hooks \in Threads
  BY DEF Sets, Threads
<1>2. \A s \in Threads \ {r} : RowOk(job[s])'
  <2>1. SUFFICES ASSUME NEW s \in Threads \ {r} PROVE RowOk(job[s])'
    OBVIOUS
  <2>2. job'[s].stage = "idle"
    BY <1>1
  <2> QED BY <2>2 DEF RowOk
<1> QED BY <1>1, <1>2 DEF PassAhead

\* What StatusInv says of the thread at work, and what it has to say after its
\* step.
LEMMA StatusOf ==
    ASSUME IInv, ~scenario.overlap, link = "up", NEW r \in Threads,
           job[r].stage \in {"look", "change", "roster"}
    PROVE  SavedOut \/ spent.untold \/ PassAhead(job[Hooks]) \/ status = CallcenterStatus(live)
BY Alone, IdleIs DEF IInv, StatusInv

\* The switch is told what the snapshot said: while nothing overlaps, that is
\* the live presence.
LEMMA MirrorStep ==
    ASSUME IInv, NEW r \in Threads, Mirror(r)
    PROVE  IInv'
<1>0. /\ Typed /\ JobsInv /\ DeviceInv /\ ReleaseInv /\ SoloInv /\ RowInv /\ StatusInv
      /\ job[r] \in Jobs /\ job[r].stage = "mirror" /\ ThreadOk(r, job[r])
      /\ Events \in Threads /\ Hooks \in Threads
  BY DEF IInv, Typed, JobsInv, Mirror, Threads
<1>1. PICK j : j = Ended(r)
  OBVIOUS
<1>2. /\ j \in Jobs /\ ThreadOk(r, j) /\ j.stage \in {"idle", "change", "sync", "announce"}
      /\ j = IdleJob \/ j.listed = job[r].listed
      /\ Releasing(job[r]) => Releasing(j)
  BY <1>0, <1>1, Ends
<1>3. Sets(r, j)
  BY <1>0, <1>1, <1>2, SetsJob DEF Mirror
<1>4. /\ UNCHANGED <<scenario, live, device, saved, link, phone, feed>>
      /\ status' = IF link = "up" THEN CallcenterStatus(job[r].after) ELSE status
      /\ spent' \in Spendings /\ spent'.drops = spent.drops /\ spent'.restarts = spent.restarts
      /\ spent'.failures = spent.failures
  <2>1. spent \in Spendings
    BY <1>0 DEF Typed
  <2>2. CASE link = "up"
    BY <2>1, <2>2 DEF Mirror, Spendings
  <2>3. CASE link # "up"
    BY <2>1, <2>3 DEF Mirror
  <2> QED BY <2>2, <2>3
<1>5. JobsInv' /\ LinkInv' /\ SoloInv' /\ HeardInv'
  BY <1>0, <1>2, <1>3, <1>4, ThreadFrame
<1>6. Typed'
  <2>1. CallcenterStatus(job[r].after) \in {"Available", "On Break", "Logged Out"}
    BY DEF CallcenterStatus
  <2> QED BY <1>0, <1>3, <1>4, <2>1 DEF Typed, Sets
<1>7. DeviceInv'
  BY <1>0, <1>4 DEF DeviceInv, IsLoggedOut
<1>8. ReleaseInv'
  <2>1. Releasing(job[Events]) => Releasing(job'[Events])
    BY <1>0, <1>2, <1>3 DEF Sets
  <2>2. Releasing(job[Hooks]) => Releasing(job'[Hooks])
    BY <1>0, <1>2, <1>3 DEF Sets
  <2>3. BeforeListing => BeforeListing'
    BY <1>0, <1>3, <1>4 DEF BeforeListing, Sets
  <2> QED BY <1>0, <1>4, <2>1, <2>2, <2>3 DEF ReleaseInv, RosterAlone
<1>9. ASSUME ~scenario.overlap
      PROVE  RowInv' /\ StatusInv'
  <2>1. \A s \in Threads \ {r} : job[s].stage = "idle"
    BY <1>0, <1>9, Alone
  <2>2. RowOk(job[r]) /\ (SavedOutFailed \/ live.row = saved)
    BY <1>0, <1>3, <1>9, <2>1, RowsOf DEF RowInv
  <2>3. RowOk(j)' /\ job'[r] = j
    BY <1>2, <1>3 DEF RowOk, Sets
  <2>4. RowInv'
    BY <1>3, <1>4, <2>1, <2>2, <2>3, RowsOf DEF RowInv, SavedOutFailed
  <2>5. link = "up" => status' = CallcenterStatus(live')
    BY <1>0, <1>4, <2>2 DEF RowOk
  <2>6. \A s \in Threads : job'[s].stage # "persist"
    BY <1>2, <1>3, <2>1, RowsOf
  <2>7. StatusInv'
    BY <1>4, <2>5, <2>6 DEF StatusInv
  <2> QED BY <2>4, <2>7
<1>10. RowInv' /\ StatusInv'
  BY <1>4, <1>9 DEF RowInv, StatusInv
<1> QED BY <1>5, <1>6, <1>7, <1>8, <1>10, Together DEF Rest

\* The save puts the snapshot's row where it belongs, and the mirror is due.
LEMMA PersistStep ==
    ASSUME IInv, NEW r \in Threads, Persist(r)
    PROVE  IInv'
<1>0. /\ Typed /\ JobsInv /\ DeviceInv /\ ReleaseInv /\ SoloInv /\ RowInv /\ StatusInv
      /\ job[r] \in Jobs /\ job[r].stage = "persist" /\ ThreadOk(r, job[r])
      /\ Events \in Threads /\ Hooks \in Threads
  BY DEF IInv, Typed, JobsInv, Persist, Threads
<1>1. PICK j \in Jobs :
          /\ j = [job[r] EXCEPT !.stage = "mirror"]
          /\ j.stage = "mirror" /\ j.op = job[r].op /\ j.then = job[r].then
          /\ j.after = job[r].after /\ j.listed = job[r].listed
  <2> DEFINE k == [job[r] EXCEPT !.stage = "mirror"]
  <2>1. /\ k \in Jobs /\ k.stage = "mirror" /\ k.op = job[r].op /\ k.then = job[r].then
        /\ k.after = job[r].after /\ k.listed = job[r].listed
    BY <1>0 DEF Jobs, Stages
  <2> HIDE DEF k
  <2>2. PICK j \in Jobs : j = k
    BY <2>1
  <2> QED BY <2>1, <2>2 DEF k
<1>2. Sets(r, j)
  BY <1>0, <1>1, SetsJob DEF Persist, Typed
<1>3. ThreadOk(r, j)
  BY <1>0, <1>1 DEF ThreadOk, ChangingOk, RequestOk, EventsOk, HooksOk
<1>4. UNCHANGED <<scenario, spent, live, device, switchVars>> /\ saved' = job[r].after.row
  BY DEF Persist
<1>5. JobsInv' /\ LinkInv' /\ SoloInv' /\ HeardInv'
  BY <1>0, <1>1, <1>2, <1>3, <1>4, ThreadFrame DEF switchVars
<1>6. Typed'
  <2>1. job[r].after.row \in Rows
    BY <1>0, JobFields DEF Presences
  <2> QED BY <1>0, <1>2, <1>4, <2>1 DEF Typed, Sets, switchVars
<1>7. DeviceInv'
  BY <1>0, <1>4 DEF DeviceInv, IsLoggedOut
<1>8. ReleaseInv'
  <2>1. /\ Releasing(job[Events]) => Releasing(job'[Events])
        /\ Releasing(job[Hooks]) => Releasing(job'[Hooks])
    BY <1>0, <1>2 DEF Sets, Releasing
  <2>2. BeforeListing => BeforeListing'
    BY <1>0, <1>2, <1>4 DEF BeforeListing, Sets, switchVars
  <2> QED BY <1>0, <1>4, <2>1, <2>2 DEF ReleaseInv, RosterAlone
<1>9. ASSUME ~scenario.overlap
      PROVE  RowInv' /\ StatusInv'
  <2>1. \A s \in Threads \ {r} : job[s].stage = "idle"
    BY <1>0, <1>9, Alone
  <2>2. job[r].after = live
    BY <1>0, <1>9 DEF RowInv, RowOk
  <2>3. RowOk(j)' /\ job'[r] = j /\ live'.row = saved'
    BY <1>1, <1>2, <1>4, <2>2 DEF RowOk, Sets
  <2>4. RowInv'
    BY <1>2, <1>4, <2>1, <2>3, RowsOf DEF RowInv
  <2>5. StatusInv'
    BY <1>1, <2>3 DEF StatusInv
  <2> QED BY <2>4, <2>5
<1>10. RowInv' /\ StatusInv'
  BY <1>4, <1>9 DEF RowInv, StatusInv
<1> QED BY <1>5, <1>6, <1>7, <1>8, <1>10, Together DEF Rest

\* A sign-in that could not be saved is among what is left out.
LEMMA FailedIsOut ==
    ASSUME Typed
    PROVE  SavedOutFailed => SavedOut
<1>1. spent.drops \in Nat /\ spent.restarts \in Nat /\ spent.failures \in Nat
  BY Spends DEF Typed
<1> QED BY <1>1 DEF SavedOutFailed, SavedOut

\* When nothing overlaps, the roster puts the live presence where it is, unless
\* the agent's sign-in could not be saved.
LEMMA RosterStep ==
    ASSUME IInv, NEW r \in Threads, Roster(r)
    PROVE  IInv'
<1>0. /\ Typed /\ JobsInv /\ DeviceInv /\ ReleaseInv /\ SoloInv /\ RowInv /\ StatusInv
      /\ job[r] \in Jobs /\ job[r].stage = "roster" /\ ThreadOk(r, job[r])
      /\ Events \in Threads /\ Hooks \in Threads
      /\ live \in Presences /\ device \in Phones \cup {Unheard}
  BY DEF IInv, Typed, JobsInv, Roster, Threads
<1>1. r \in Requests /\ r # Events /\ r # Hooks /\ "roster" \in scenario.ops
  BY <1>0, PresenceAssumption DEF Threads, ThreadOk, RequestOk, EventsOk, HooksOk, PresenceAssumption
<1>2. Sets(r, IdleJob)
  BY <1>0, SetsJob, IdleIs DEF Roster
<1>3. ThreadOk(r, IdleJob)
  BY <1>1, IdleIs DEF ThreadOk, ChangingOk, RequestOk
<1>4. UNCHANGED <<scenario, spent, saved, device, switchVars>>
  BY DEF Roster
<1>5. JobsInv' /\ LinkInv' /\ SoloInv' /\ HeardInv'
  BY <1>0, <1>2, <1>3, <1>4, ThreadFrame, IdleIs DEF switchVars
<1>6. PICK x \in Rows : x = job[r].after.row
  BY <1>0, JobFields DEF Presences
<1>7. PICK d \in Phones : /\ live' = Live(x, d) /\ live'.row = x /\ live'.dev = d /\ live' \in Presences
                          /\ d = IF x.state = "LOGGED_OUT" THEN live.dev ELSE Known(live.dev)
  <2>1. live.dev \in Phones /\ Known(live.dev) \in Phones
    BY <1>0, Lives DEF Known
  <2> QED BY <1>6, <2>1, Lives DEF Roster
<1>8. Typed'
  BY <1>0, <1>2, <1>4, <1>7 DEF Typed, Sets, switchVars
<1>9. DeviceInv'
  <2>1. ASSUME device = Unheard, live.dev = Gone PROVE d = Gone
    BY <1>7, <2>1 DEF Known
  <2>2. ASSUME device # Unheard, x.state # "LOGGED_OUT" PROVE d = device
    BY <1>7, <2>2 DEF Known
  <2> QED BY <1>0, <1>4, <1>7, <2>1, <2>2 DEF DeviceInv, IsLoggedOut
<1>10. ASSUME ~scenario.overlap
       PROVE  /\ RowInv' /\ \A s \in Threads : job'[s].stage # "persist"
              /\ SavedOutFailed \/ live' = live
  <2>1. \A s \in Threads \ {r} : job[s].stage = "idle"
    BY <1>0, <1>10, Alone
  <2>2. x = saved /\ (SavedOutFailed \/ live.row = saved)
    BY <1>0, <1>2, <1>6, <1>10, <2>1, RowsOf DEF RowInv, RowOk
  <2>3. RowOk(IdleJob)' /\ job'[r] = IdleJob
    BY <1>2, IdleIs DEF RowOk, Sets
  <2>4. RowInv'
    BY <1>2, <1>4, <1>7, <2>1, <2>2, <2>3, RowsOf DEF RowInv
  <2>5. \A s \in Threads : job'[s].stage # "persist"
    BY <1>2, <2>1, RowsOf, IdleIs
  <2>6. ASSUME live.row = saved PROVE live' = live
    <3>1. d = live.dev
      BY <1>0, <1>7, <1>10, <2>2, <2>6 DEF DeviceInv, IsLoggedOut, Known
    <3> QED BY <1>0, <1>7, <2>2, <2>6, <3>1, Lives
  <2> QED BY <2>2, <2>4, <2>5, <2>6
<1>11. ReleaseInv'
  <2>1. job'[Events] = job[Events] /\ job'[Hooks] = job[Hooks]
    BY <1>0, <1>1, <1>2 DEF Sets
  <2>2. ASSUME spent.failures = 0, RosterAlone PROVE live' = live
    BY <1>1, <1>10, <2>2 DEF RosterAlone, SavedOutFailed
  <2> QED BY <1>0, <1>4, <2>1, <2>2 DEF ReleaseInv, RosterAlone, BeforeListing, switchVars
<1>12. StatusInv'
  <2>1. SUFFICES ASSUME ~scenario.overlap, link = "up" PROVE StatusInv'
    BY <1>4 DEF StatusInv, switchVars
  <2>2. SavedOut \/ spent.untold \/ PassAhead(job[Hooks]) \/ status = CallcenterStatus(live)
    BY <1>0, <2>1, StatusOf
  <2>3. SavedOutFailed => SavedOut
    BY <1>0, FailedIsOut
  <2>4. SavedOut => SavedOut'
    BY <1>4 DEF SavedOut
  <2>5. job'[Hooks] = job[Hooks]
    BY <1>0, <1>1, <1>2 DEF Sets
  <2> QED BY <1>4, <1>10, <2>1, <2>2, <2>3, <2>4, <2>5 DEF StatusInv, PassAhead, switchVars
<1>13. RowInv'
  BY <1>4, <1>10 DEF RowInv
<1> QED BY <1>5, <1>8, <1>9, <1>11, <1>12, <1>13, Together DEF Rest

\* A save that fails takes the change back; a sign-in stays, its row signed out.
LEMMA PersistFailsStep ==
    ASSUME IInv, NEW r \in Threads, PersistFails(r)
    PROVE  IInv'
<1>0. /\ Typed /\ JobsInv /\ DeviceInv /\ ReleaseInv /\ SoloInv /\ RowInv /\ StatusInv
      /\ job[r] \in Jobs /\ job[r].stage = "persist" /\ ThreadOk(r, job[r])
      /\ Events \in Threads /\ Hooks \in Threads /\ live \in Presences
      /\ job[r].before \in Presences
  BY JobFields DEF IInv, Typed, JobsInv, PersistFails, Threads
<1>1. PICK j : j = Ended(r)
  OBVIOUS
<1>2. /\ j \in Jobs /\ ThreadOk(r, j) /\ j.stage \in {"idle", "change", "sync", "announce"}
      /\ j = IdleJob \/ j.listed = job[r].listed
      /\ r = Hooks => j.stage = "sync"
  BY <1>0, <1>1, Ends
<1>3. Sets(r, j)
  BY <1>0, <1>1, <1>2, SetsJob DEF PersistFails
<1>4. /\ UNCHANGED <<scenario, device, saved, switchVars>>
      /\ live' = IF job[r].op = "login" THEN live ELSE job[r].before
      /\ spent' \in Spendings /\ spent'.drops = spent.drops /\ spent'.restarts = spent.restarts
      /\ spent'.failures = spent.failures + 1 /\ spent'.untold = spent.untold
  BY <1>0, Spends DEF PersistFails, Typed
<1>5. JobsInv' /\ LinkInv' /\ SoloInv' /\ HeardInv'
  BY <1>0, <1>2, <1>3, <1>4, ThreadFrame DEF switchVars
<1>6. Typed'
  BY <1>0, <1>3, <1>4 DEF Typed, Sets, switchVars
<1>7. /\ spent'.failures # 0 /\ spent'.failures > 0
      /\ spent'.drops + spent'.restarts + spent'.failures > 0
  <2>1. spent.drops \in Nat /\ spent.restarts \in Nat /\ spent.failures \in Nat
    BY <1>0, Spends DEF Typed
  <2> QED BY <1>4, <2>1
<1>8. ReleaseInv'
  BY <1>7 DEF ReleaseInv
<1>9. ASSUME ~scenario.overlap
      PROVE  DeviceInv' /\ RowInv' /\ StatusInv'
  <2>1. \A s \in Threads \ {r} : job[s].stage = "idle"
    BY <1>0, <1>9, Alone
  <2>2. RowOk(job[r])
    BY <1>0, <1>9 DEF RowInv
  <2>3. CASE job[r].op = "login"
    <3>1. live' = live /\ saved.state = "LOGGED_OUT" /\ saved' = saved
      BY <1>0, <1>4, <2>2, <2>3, RowsAre DEF RowOk, SavedOutFailed
    <3>2. DeviceInv'
      BY <1>0, <1>4, <1>9, <3>1 DEF DeviceInv, IsLoggedOut
    <3>3. SavedOutFailed' /\ SavedOut'
      BY <1>7, <3>1 DEF SavedOutFailed, SavedOut
    <3>4. RowOk(j)' /\ job'[r] = j
      BY <1>2, <1>3 DEF RowOk, Sets
    <3>5. RowInv'
      BY <1>3, <2>1, <3>3, <3>4, RowsOf DEF RowInv
    <3> QED BY <3>2, <3>3, <3>5 DEF StatusInv
  <2>4. CASE job[r].op # "login"
    <3>1. /\ live' = job[r].before /\ saved' = saved /\ device' = device
          /\ SavedOutFailed \/ live'.row = saved
      BY <1>0, <1>4, <2>2, <2>4 DEF RowOk
    <3>2. DeviceInv'
      BY <1>0, <1>4, <1>9, <2>2, <2>4, <3>1 DEF DeviceInv, IsLoggedOut, RowOk
    <3>3. SavedOutFailed => SavedOutFailed' /\ SavedOut'
      BY <1>7, <3>1 DEF SavedOutFailed, SavedOut
    <3>4. RowOk(j)' /\ job'[r] = j
      BY <1>2, <1>3 DEF RowOk, Sets
    <3>5. RowInv'
      BY <1>3, <2>1, <3>1, <3>3, <3>4, RowsOf DEF RowInv
    <3>6. \A s \in Threads : job'[s].stage # "persist"
      BY <1>2, <1>3, <2>1, RowsOf
    <3>7. SUFFICES ASSUME link = "up" PROVE StatusInv'
      BY <1>4, <3>2, <3>5 DEF StatusInv, switchVars
    <3>8. \/ SavedOut \/ spent.untold \/ PassAhead(job[Hooks]) \/ status = CallcenterStatus(job[r].before)
      BY <1>0, <1>3, <1>9, <2>1, <3>7, RowsOf DEF StatusInv
    <3>9. SavedOut => SavedOut'
      BY <1>7, <3>1 DEF SavedOut
    <3>10. PassAhead(job[Hooks]) => PassAhead(job'[Hooks])
      BY <1>0, <1>2, <1>3 DEF PassAhead, Sets
    <3>11. status' = status
      BY <1>4 DEF switchVars
    <3>12. status = CallcenterStatus(job[r].before) => status' = CallcenterStatus(live')
      BY <3>1, <3>11
    <3>13. spent.untold => spent'.untold
      BY <1>4
    <3> QED BY <3>6, <3>8, <3>9, <3>10, <3>12, <3>13 DEF StatusInv
  <2> QED BY <2>3, <2>4
<1>10. DeviceInv' /\ RowInv' /\ StatusInv'
  BY <1>4, <1>7, <1>9 DEF DeviceInv, RowInv, StatusInv
<1> QED BY <1>5, <1>6, <1>8, <1>10, Together DEF Rest

\* A change that is not allowed only ends the job.
LEMMA ChangeRefused ==
    ASSUME IInv, NEW r \in Threads, Change(r), ~Allowed(job[r].op, live)
    PROVE  IInv'
<1>0. /\ Typed /\ JobsInv /\ DeviceInv /\ ReleaseInv /\ SoloInv /\ RowInv /\ StatusInv
      /\ job[r] \in Jobs /\ job[r].stage = "change" /\ ThreadOk(r, job[r])
      /\ Events \in Threads /\ Hooks \in Threads
  BY DEF IInv, Typed, JobsInv, Change, Threads
<1>1. PICK j : j = Ended(r)
  OBVIOUS
<1>2. /\ j \in Jobs /\ ThreadOk(r, j) /\ j.stage \in {"idle", "change", "sync", "announce"}
      /\ j = IdleJob \/ j.listed = job[r].listed
      /\ r = Hooks => j.stage = "sync"
  BY <1>0, <1>1, Ends
<1>3. /\ UNCHANGED <<scenario, spent, live, device, saved, switchVars>>
      /\ job' = [job EXCEPT ![r] = j]
  BY <1>1 DEF Change
<1>4. Sets(r, j)
  BY <1>0, <1>2, <1>3, SetsJob
<1>5. JobsInv' /\ LinkInv' /\ SoloInv' /\ HeardInv'
  BY <1>0, <1>2, <1>3, <1>4, ThreadFrame DEF switchVars
<1>6. Typed'
  BY <1>0, <1>3, <1>4 DEF Typed, Sets, switchVars
<1>7. DeviceInv'
  BY <1>0, <1>3 DEF DeviceInv, IsLoggedOut
<1>8. ReleaseInv'
  <2>1. live.row.state = "READY" => ~Releasing(job[r])
    BY DEF Releasing, Allowed
  <2>2. live.row.state = "READY" /\ Releasing(job[Events]) => Releasing(job'[Events])
    BY <1>0, <1>4, <2>1 DEF Sets
  <2>3. live.row.state = "READY" /\ Releasing(job[Hooks]) => Releasing(job'[Hooks])
    BY <1>0, <1>4, <2>1 DEF Sets
  <2>4. BeforeListing => BeforeListing'
    BY <1>0, <1>3, <1>4 DEF BeforeListing, Sets, switchVars
  <2> QED BY <1>0, <1>3, <2>2, <2>3, <2>4 DEF ReleaseInv, RosterAlone
<1>9. ASSUME ~scenario.overlap
      PROVE  RowInv' /\ StatusInv'
  <2>1. \A s \in Threads \ {r} : job[s].stage = "idle"
    BY <1>0, <1>9, Alone
  <2>2. SavedOutFailed \/ live.row = saved
    BY <1>0, <1>4, <1>9, <2>1, RowsOf DEF RowInv
  <2>3. RowOk(j)' /\ job'[r] = j
    BY <1>2, <1>4 DEF RowOk, Sets
  <2>4. RowInv'
    BY <1>3, <1>4, <2>1, <2>2, <2>3, RowsOf DEF RowInv, SavedOutFailed
  <2>5. \A s \in Threads : job'[s].stage # "persist"
    BY <1>2, <1>4, <2>1, RowsOf
  <2>6. SUFFICES ASSUME link = "up" PROVE StatusInv'
    BY <1>3, <2>4 DEF StatusInv, switchVars
  <2>7. SavedOut \/ spent.untold \/ PassAhead(job[Hooks]) \/ status = CallcenterStatus(live)
    BY <1>0, <1>9, <2>6, StatusOf
  <2>8. PassAhead(job[Hooks]) => PassAhead(job'[Hooks])
    BY <1>0, <1>2, <1>4 DEF PassAhead, Sets
  <2> QED BY <1>3, <2>5, <2>7, <2>8 DEF StatusInv, SavedOut, switchVars
<1>10. RowInv' /\ StatusInv'
  BY <1>3, <1>9 DEF RowInv, StatusInv
<1> QED BY <1>5, <1>6, <1>7, <1>8, <1>10, Together DEF Rest

\* A read, a status command or a profile that failed: the job ends, or goes on
\* with what it was to do next, and nothing else changes. What the switch was not
\* told is remembered.
LEMMA FailedFrame ==
    ASSUME IInv, NEW r \in Threads, NEW j \in Jobs, Sets(r, j), ThreadOk(r, j),
           job[r].stage \in {"change", "read", "mirror"},
           j.stage \in {"idle", "change", "sync", "announce"},
           j = IdleJob \/ j.listed = job[r].listed,
           UNCHANGED <<scenario, live, device, saved, switchVars>>,
           spent' \in Spendings, spent'.drops = spent.drops, spent'.restarts = spent.restarts,
           spent'.failures = spent.failures + 1,
           job[r].stage = "mirror" => spent'.untold,
           job[r].stage # "mirror" => spent'.untold = spent.untold,
           job[r].stage # "mirror" /\ r = Hooks => j.stage = "sync"
    PROVE  IInv'
<1>0. /\ Typed /\ JobsInv /\ DeviceInv /\ ReleaseInv /\ SoloInv /\ RowInv /\ StatusInv
      /\ Events \in Threads /\ Hooks \in Threads /\ spent \in Spendings
  BY DEF IInv, Typed, Threads
<1>1. /\ spent'.failures # 0 /\ spent'.failures > 0
      /\ spent'.drops + spent'.restarts + spent'.failures > 0
  <2>1. spent.drops \in Nat /\ spent.restarts \in Nat /\ spent.failures \in Nat
    BY <1>0, Spends
  <2> QED BY <2>1
<1>2. JobsInv' /\ LinkInv' /\ SoloInv' /\ HeardInv'
  BY ThreadFrame DEF switchVars
<1>3. Typed'
  BY <1>0 DEF Typed, Sets, switchVars
<1>4. ReleaseInv'
  BY <1>1 DEF ReleaseInv
<1>5. ASSUME ~scenario.overlap
      PROVE  DeviceInv' /\ RowInv' /\ StatusInv'
  <2>1. \A s \in Threads \ {r} : job[s].stage = "idle"
    BY <1>0, <1>5, Alone
  <2>2. SavedOutFailed \/ live.row = saved
    BY <1>0, <1>5, <2>1, RowsOf DEF RowInv
  <2>3. RowOk(j)' /\ job'[r] = j
    BY DEF RowOk, Sets
  <2>4. SavedOutFailed => SavedOutFailed'
    BY <1>1 DEF SavedOutFailed
  <2>5. RowInv'
    BY <2>1, <2>2, <2>3, <2>4, RowsOf DEF RowInv
  <2>6. DeviceInv'
    BY <1>0, <1>5 DEF DeviceInv, IsLoggedOut
  <2>7. \A s \in Threads : job'[s].stage # "persist"
    BY <2>1, RowsOf
  <2>8. StatusInv'
    <3>1. CASE job[r].stage = "mirror"
      BY <3>1 DEF StatusInv
    <3>2. CASE job[r].stage # "mirror"
      <4>1. SUFFICES ASSUME link = "up" PROVE StatusInv'
        BY DEF StatusInv, switchVars
      <4>2. \/ SavedOut \/ spent.untold \/ PassAhead(job[Hooks])
            \/ status = CallcenterStatus(live)
        BY <1>0, <1>5, <2>1, <3>2, <4>1, RowsOf DEF StatusInv
      <4>3. SavedOut => SavedOut'
        BY <1>1 DEF SavedOut
      <4>4. PassAhead(job[Hooks]) => PassAhead(job'[Hooks])
        BY <1>0, <3>2 DEF PassAhead, Sets
      <4>5. status' = status /\ live' = live
        BY DEF switchVars
      <4> QED BY <2>7, <3>2, <4>2, <4>3, <4>4, <4>5 DEF StatusInv
    <3> QED BY <3>1, <3>2
  <2> QED BY <2>5, <2>6, <2>8
<1>6. DeviceInv' /\ RowInv' /\ StatusInv'
  BY <1>1, <1>5 DEF DeviceInv, RowInv, StatusInv
<1> QED BY <1>2, <1>3, <1>4, <1>6, Together DEF Rest

\* A change whose profile, or a roster whose rows, cannot be read only ends.
LEMMA ReadFailsStep ==
    ASSUME IInv, NEW r \in Threads, ReadFails(r)
    PROVE  IInv'
<1>0. /\ Typed /\ JobsInv /\ spent \in Spendings
      /\ job[r] \in Jobs /\ job[r].stage \in {"change", "read"} /\ ThreadOk(r, job[r])
  BY DEF IInv, Typed, JobsInv, ReadFails
<1>1. PICK j : j = Ended(r)
  OBVIOUS
<1>2. /\ j \in Jobs /\ ThreadOk(r, j) /\ j.stage \in {"idle", "change", "sync", "announce"}
      /\ j = IdleJob \/ j.listed = job[r].listed
      /\ r = Hooks => j.stage = "sync"
  <2>1. CASE job[r].stage = "change"
    BY <1>0, <1>1, <2>1, Ends
  <2>2. CASE job[r].stage = "read"
    <3>1. r \in Requests /\ r # Events /\ r # Hooks
      BY <1>0, <2>2, PresenceAssumption
      DEF Threads, ThreadOk, EventsOk, HooksOk, PresenceAssumption
    <3>2. j = IdleJob
      BY <1>0, <1>1, <3>1 DEF Ended, ThreadOk, RequestOk
    <3>3. ThreadOk(r, IdleJob)
      BY <3>1, IdleIs DEF ThreadOk, ChangingOk, RequestOk
    <3> QED BY <3>1, <3>2, <3>3, IdleIs
  <2> QED BY <1>0, <2>1, <2>2
<1>3. Sets(r, j)
  BY <1>0, <1>1, <1>2, SetsJob DEF ReadFails
<1>4. /\ UNCHANGED <<scenario, live, device, saved, switchVars>>
      /\ spent' \in Spendings /\ spent'.drops = spent.drops /\ spent'.restarts = spent.restarts
      /\ spent'.failures = spent.failures + 1 /\ spent'.untold = spent.untold
  BY <1>0, Spends DEF ReadFails
<1> QED BY <1>0, <1>2, <1>3, <1>4, FailedFrame

\* What is counted when the switch was not told.
LEMMA Untold ==
    ASSUME NEW x \in Spendings
    PROVE  /\ [x EXCEPT !.failures = @ + 1, !.untold = TRUE] \in Spendings
           /\ [x EXCEPT !.failures = @ + 1, !.untold = TRUE].drops = x.drops
           /\ [x EXCEPT !.failures = @ + 1, !.untold = TRUE].restarts = x.restarts
           /\ [x EXCEPT !.failures = @ + 1, !.untold = TRUE].failures = x.failures + 1
           /\ [x EXCEPT !.failures = @ + 1, !.untold = TRUE].untold = TRUE
<1> DEFINE y == [x EXCEPT !.failures = x.failures + 1]
<1>1. /\ y \in Spendings /\ y.drops = x.drops /\ y.restarts = x.restarts
      /\ y.failures = x.failures + 1
  BY Spends
<1>2. [x EXCEPT !.failures = @ + 1, !.untold = TRUE] = [y EXCEPT !.untold = TRUE]
  OBVIOUS
<1> HIDE DEF y
<1>3. /\ [y EXCEPT !.untold = TRUE] \in Spendings
      /\ [y EXCEPT !.untold = TRUE].drops = y.drops
      /\ [y EXCEPT !.untold = TRUE].restarts = y.restarts
      /\ [y EXCEPT !.untold = TRUE].failures = y.failures
  BY <1>1 DEF Spendings
<1>4. [y EXCEPT !.untold = TRUE].untold = TRUE
  BY <1>1, Zenon DEF Spendings
<1> QED BY <1>1, <1>2, <1>3, <1>4

\* A status that does not reach the switch leaves it as it was.
LEMMA MirrorFailsStep ==
    ASSUME IInv, NEW r \in Threads, MirrorFails(r)
    PROVE  IInv'
<1>0. /\ Typed /\ JobsInv /\ spent \in Spendings /\ job[r].stage = "mirror"
  BY DEF IInv, Typed, MirrorFails
<1>1. PICK j : j = Ended(r)
  OBVIOUS
<1>2. /\ j \in Jobs /\ ThreadOk(r, j) /\ j.stage \in {"idle", "change", "sync", "announce"}
      /\ j = IdleJob \/ j.listed = job[r].listed
  BY <1>0, <1>1, Ends
<1>3. Sets(r, j)
  BY <1>0, <1>1, <1>2, SetsJob DEF MirrorFails
<1>4. /\ UNCHANGED <<scenario, live, device, saved, switchVars>>
      /\ spent' \in Spendings /\ spent'.drops = spent.drops /\ spent'.restarts = spent.restarts
      /\ spent'.failures = spent.failures + 1 /\ spent'.untold
  BY <1>0, Untold DEF MirrorFails
<1> QED BY <1>0, <1>2, <1>3, <1>4, FailedFrame

\* A signal whose agent's profile cannot be read goes no further.
LEMMA ObserveFailsStep ==
    ASSUME IInv, ObserveFails
    PROVE  IInv'
<1>0. /\ Typed /\ spent \in Spendings /\ job[Events].stage = "mirror"
      /\ Events \in Threads /\ Events \notin Requests /\ Events # Hooks
  BY PresenceAssumption DEF IInv, Typed, ObserveFails, Threads, PresenceAssumption, Events, Hooks
<1>1. Sets(Events, IdleJob)
  BY <1>0, SetsJob, IdleIs DEF ObserveFails
<1>2. ThreadOk(Events, IdleJob)
  BY <1>0, IdleIs DEF ThreadOk, ChangingOk, EventsOk
<1>3. /\ UNCHANGED <<scenario, live, device, saved, switchVars>>
      /\ spent' \in Spendings /\ spent'.drops = spent.drops /\ spent'.restarts = spent.restarts
      /\ spent'.failures = spent.failures + 1 /\ spent'.untold
  BY <1>0, Untold DEF ObserveFails
<1> QED BY <1>0, <1>1, <1>2, <1>3, FailedFrame, IdleIs

\* A change that is allowed: the snapshot before it is what the copies agreed on.
LEMMA ChangeAllowed ==
    ASSUME IInv, NEW r \in Threads, Change(r), Allowed(job[r].op, live)
    PROVE  IInv'
<1>0. /\ Typed /\ JobsInv /\ DeviceInv /\ ReleaseInv /\ SoloInv /\ RowInv /\ StatusInv
      /\ job[r] \in Jobs /\ job[r].stage = "change" /\ ThreadOk(r, job[r])
      /\ Events \in Threads /\ Hooks \in Threads
      /\ live \in Presences /\ device \in Phones \cup {Unheard}
  BY DEF IInv, Typed, JobsInv, Change, Threads
<1>1. PICK op \in Changes : op = job[r].op
  BY <1>0 DEF ThreadOk, ChangingOk
<1>2. /\ Target(op) \in Rows
      /\ Target(op).state = "READY" => live.dev.reg /\ op # "login"
      /\ op = "login" <=> IsLoggedOut(live)
  BY <1>1, Targets, Asks
<1>3. PICK d \in Phones : d = IF op = "login" THEN Known(live.dev) ELSE live.dev
  BY <1>0, Lives DEF Known
<1>4. PICK new \in Presences : new = Live(Target(op), d) /\ new.row = Target(op) /\ new.dev = d
  BY <1>2, <1>3, Lives
<1>5. PICK old \in Presences : old = live
  BY <1>0
<1>6. PICK j \in Jobs : /\ j = [job[r] EXCEPT !.stage = "persist", !.before = old, !.after = new]
                        /\ j.stage = "persist" /\ j.op = op /\ j.before = old /\ j.after = new
                        /\ j.then = job[r].then /\ j.listed = job[r].listed
  <2> DEFINE k == [job[r] EXCEPT !.stage = "persist", !.before = old, !.after = new]
  <2>1. /\ k \in Jobs /\ k.stage = "persist" /\ k.op = op /\ k.before = old /\ k.after = new
        /\ k.then = job[r].then /\ k.listed = job[r].listed
    BY <1>0, <1>1 DEF Jobs, Stages
  <2> HIDE DEF k
  <2>2. PICK j \in Jobs : j = k
    BY <2>1
  <2> QED BY <2>1, <2>2 DEF k
<1>7. /\ UNCHANGED <<scenario, spent, device, saved, switchVars>> /\ live' = new
      /\ job' = [job EXCEPT ![r] = j]
  BY <1>0, <1>1, <1>3, <1>4, <1>5, <1>6 DEF Change, Typed
<1>8. Sets(r, j)
  BY <1>0, <1>6, <1>7, SetsJob
<1>9. ThreadOk(r, j)
  BY <1>0, <1>1, <1>6 DEF ThreadOk, ChangingOk, RequestOk, EventsOk, HooksOk
<1>10. JobsInv' /\ LinkInv' /\ SoloInv' /\ HeardInv'
  BY <1>0, <1>6, <1>7, <1>8, <1>9, ThreadFrame DEF switchVars
<1>11. Typed'
  BY <1>0, <1>7, <1>8 DEF Typed, Sets, switchVars
<1>12. DeviceInv'
  <2>1. SUFFICES ASSUME ~scenario.overlap \/ spent.failures = 0 PROVE DeviceInv'
    BY <1>7 DEF DeviceInv
  <2>2. /\ device = Unheard => live.dev = Gone
        /\ device # Unheard /\ ~IsLoggedOut(live) => live.dev = device
    BY <1>0, <2>1 DEF DeviceInv
  <2>3. /\ device = Unheard => d = Gone
        /\ device # Unheard => d = device
    BY <1>2, <1>3, <2>2 DEF Known
  <2> QED BY <1>4, <1>7, <2>3 DEF DeviceInv
<1>13. ReleaseInv'
  <2>1. live'.row.state = "READY" => live'.dev.reg
    BY <1>2, <1>3, <1>4, <1>7
  <2> QED BY <2>1 DEF ReleaseInv
<1>14. ASSUME ~scenario.overlap
       PROVE  RowInv' /\ StatusInv'
  <2>1. \A s \in Threads \ {r} : job[s].stage = "idle"
    BY <1>0, <1>14, Alone
  <2>2. SavedOutFailed \/ live.row = saved
    BY <1>0, <1>8, <1>14, <2>1, RowsOf DEF RowInv
  <2>3. /\ op # "login" => old.dev = d
        /\ op = "login" => old.row = At("LOGGED_OUT", "")
        /\ device # Unheard /\ ~IsLoggedOut(old) => old.dev = device
    BY <1>0, <1>2, <1>3, <1>5, <1>14, RowsAre DEF IsLoggedOut, DeviceInv, Presences
  <2>4. RowOk(j)' /\ job'[r] = j
    BY <1>4, <1>5, <1>6, <1>7, <1>8, <2>2, <2>3 DEF RowOk, Sets, SavedOutFailed, IsLoggedOut
  <2>5. RowInv'
    <3>1. \A s \in Threads : RowOk(job[s])'
      BY <1>8, <2>1, <2>4, RowsOf
    <3>2. job'[r].stage = "persist"
      BY <1>6, <2>4
    <3> QED BY <3>1, <3>2 DEF RowInv
  <2>6. SUFFICES ASSUME link = "up" PROVE StatusInv'
    BY <1>7, <2>5 DEF StatusInv, switchVars
  <2>7. SavedOut \/ spent.untold \/ PassAhead(job[Hooks]) \/ status = CallcenterStatus(live)
    BY <1>0, <1>14, <2>6, StatusOf
  <2>8. PassAhead(job[Hooks]) => PassAhead(job'[Hooks])
    <3>1. CASE r = Hooks
      BY <1>0, <1>6, <1>8, <3>1 DEF ThreadOk, HooksOk, PassAhead, Sets
    <3>2. CASE r # Hooks
      BY <1>0, <1>8, <3>2 DEF PassAhead, Sets
    <3> QED BY <3>1, <3>2
  <2>9. status' = status /\ (status = CallcenterStatus(live) => status' = CallcenterStatus(j.before))
    BY <1>5, <1>6, <1>7 DEF switchVars
  <2>10. SavedOut => SavedOut'
    BY <1>7 DEF SavedOut
  <2>11. spent' = spent
    BY <1>7
  <2> QED BY <1>6, <2>4, <2>7, <2>8, <2>9, <2>10, <2>11 DEF StatusInv
<1>15. RowInv' /\ StatusInv'
  BY <1>7, <1>14 DEF RowInv, StatusInv
<1> QED BY <1>10, <1>11, <1>12, <1>13, <1>15, Together DEF Rest

-----------------------------------------------------------------------------
(***************************************************************************)
(* The steps of the phone, the link and the process.                       *)
(***************************************************************************)
\* What is said of a phone is what a phone can be.
LEMMA SignalsAre ==
    ASSUME NEW x \in Signals
    PROVE  /\ DeviceOf(x) \in Phones
           /\ ~DeviceOf(x).reg => AfterSignal(x) = "release"
           /\ AfterSignal(x) \in {"release", "restore", "none"}
BY DEF Signals, DeviceOf, AfterSignal, Phones, Gone

\* The stream of signals, taken from the front and added to at the end.
LEMMA FeedIs ==
    ASSUME feed \in Seq(Signals)
    PROVE  /\ \A x \in Signals : /\ Append(feed, x) \in Seq(Signals) /\ Append(feed, x) # <<>>
                                 /\ Append(feed, x)[Len(Append(feed, x))] = x
           /\ feed # <<>> => /\ Head(feed) \in Signals /\ Tail(feed) \in Seq(Signals)
                             /\ Tail(feed) = <<>> => Head(feed) = feed[Len(feed)]
                             /\ Tail(feed) # <<>> => Tail(feed)[Len(Tail(feed))] = feed[Len(feed)]
<1>1. ASSUME NEW x \in Signals
      PROVE  /\ Append(feed, x) \in Seq(Signals) /\ Append(feed, x) # <<>>
             /\ Append(feed, x)[Len(Append(feed, x))] = x
  <2>1. /\ Append(feed, x) \in Seq(Signals) /\ Len(Append(feed, x)) = Len(feed) + 1
        /\ Append(feed, x)[Len(feed) + 1] = x
    BY AppendProperties
  <2>2. Len(feed) \in Nat /\ Len(<<>>) = 0
    BY LenProperties, EmptySeq
  <2>3. Append(feed, x) # <<>>
    BY <2>1, <2>2
  <2> QED BY <2>1, <2>3
<1>2. ASSUME feed # <<>>
      PROVE  /\ Head(feed) \in Signals /\ Tail(feed) \in Seq(Signals)
             /\ Tail(feed) = <<>> => Head(feed) = feed[Len(feed)]
             /\ Tail(feed) # <<>> => Tail(feed)[Len(Tail(feed))] = feed[Len(feed)]
  <2>1. /\ Head(feed) \in Signals /\ Tail(feed) \in Seq(Signals) /\ Head(feed) = feed[1]
        /\ Len(Tail(feed)) = Len(feed) - 1
        /\ \A i \in 1..Len(Tail(feed)) : Tail(feed)[i] = feed[i + 1]
    BY <1>2, HeadTailProperties, ElementOfSeq
  <2>2. Len(feed) \in Nat /\ Len(<<>>) = 0 /\ Len(feed) # 0
    BY <1>2, LenProperties, EmptySeq
  <2>3. Tail(feed) = <<>> => Len(feed) = 1
    BY <2>1, <2>2
  <2>4. Tail(feed) # <<>> => Len(Tail(feed)) # 0
    BY <2>1, EmptySeq
  <2>5. Tail(feed) # <<>> => /\ Len(Tail(feed)) \in 1..Len(Tail(feed))
                            /\ Len(Tail(feed)) + 1 = Len(feed)
    BY <2>1, <2>2, <2>4
  <2> QED BY <2>1, <2>3, <2>5
<1> QED BY <1>1, <1>2

\* What is noted of the phone reaches a signed-in agent's flags and nothing else.
LEMMA Notes ==
    ASSUME Typed, NEW dev \in Phones, NoteDevice(dev)
    PROVE  /\ device' = dev /\ device' # Unheard
           /\ live' \in Presences /\ live'.row = live.row
           /\ IsLoggedOut(live) => live' = live
           /\ ~IsLoggedOut(live) => live'.dev = dev
           /\ scenario' = scenario => DeviceInv'
<1>1. live \in Presences /\ live.row \in Rows
  BY Lives DEF Typed
<1>2. /\ device' = dev /\ device' # Unheard
  BY IdleIs DEF NoteDevice
<1>3. CASE IsLoggedOut(live)
  BY <1>1, <1>2, <1>3 DEF NoteDevice, DeviceInv, IsLoggedOut
<1>4. CASE ~IsLoggedOut(live)
  <2>1. live' = Live(live.row, dev)
    BY <1>1, <1>4, Lives DEF NoteDevice
  <2>2. live' \in Presences /\ live'.row = live.row /\ live'.dev = dev
    BY <1>1, <2>1, Lives
  <2> QED BY <1>2, <1>4, <2>2 DEF DeviceInv
<1> QED BY <1>3, <1>4

\* A signal taken from the stream: the last one left is the phone, or the one
\* just noted is; a READY agent whose phone is gone is about to be released.
LEMMA ObserveStep ==
    ASSUME IInv, ObserveDevice
    PROVE  IInv'
<1>0. /\ Typed /\ JobsInv /\ LinkInv /\ DeviceInv /\ HeardInv /\ ReleaseInv /\ SoloInv
      /\ RowInv /\ StatusInv /\ feed \in Seq(Signals)
      /\ Events \in Threads /\ Hooks \in Threads /\ Events # Hooks
      /\ Events \notin Requests /\ Hooks \notin Requests
  BY PresenceAssumption DEF IInv, Typed, Threads, PresenceAssumption, Events, Hooks
<1>1. PICK x \in Signals : x = Head(feed)
  BY <1>0, FeedIs DEF ObserveDevice
<1>2. PICK dev \in Phones : dev = DeviceOf(x) /\ NoteDevice(dev)
  BY <1>1, SignalsAre DEF ObserveDevice
<1>3. /\ feed # <<>> /\ job[Events] = IdleJob /\ job[Hooks] = IdleJob
      /\ (scenario.overlap \/ IsFree) /\ feed' = Tail(feed)
      /\ UNCHANGED <<scenario, spent, saved, link, phone, status>>
  BY DEF ObserveDevice
<1>4. /\ device' = dev /\ device' # Unheard /\ live' \in Presences /\ live'.row = live.row
      /\ IsLoggedOut(live) => live' = live
      /\ ~IsLoggedOut(live) => live'.dev = dev
      /\ DeviceInv'
  BY <1>0, <1>2, <1>3, Notes
<1>5. PICK o \in {"release", "restore", "none"} : o = AfterSignal(x) /\ (~dev.reg => o = "release")
  BY <1>2, SignalsAre
<1>6. PICK t \in {"idle", "change"} : t = IF o = "none" THEN "idle" ELSE "change"
  OBVIOUS
<1>7. PICK new \in Presences : new = live'
  BY <1>4
<1>8. PICK k \in Jobs : /\ k = [IdleJob EXCEPT !.stage = "mirror", !.op = o, !.after = new, !.then = t]
                        /\ k.stage = "mirror" /\ k.op = o /\ k.after = new /\ k.then = t
                        /\ k.listed = Gone
  <2> DEFINE q == [IdleJob EXCEPT !.stage = "mirror", !.op = o, !.after = new, !.then = t]
  <2>1. /\ q \in Jobs /\ q.stage = "mirror" /\ q.op = o /\ q.after = new /\ q.then = t
        /\ q.listed = Gone
    BY IdleIs DEF Jobs, Stages, Changes
  <2> HIDE DEF q
  <2> QED BY <2>1 DEF q
<1>9. PICK j \in Jobs : /\ Sets(Events, j) /\ ThreadOk(Events, j)
                        /\ j = IF IsLoggedOut(live) THEN IdleJob ELSE k
  <2>1. CASE IsLoggedOut(live)
    <3>1. job' = job
      BY <2>1 DEF ObserveDevice
    <3>2. Sets(Events, IdleJob)
      BY <1>0, <1>3, <3>1, IdleIs DEF Sets, Typed
    <3>3. ThreadOk(Events, IdleJob)
      BY <1>0, <1>3 DEF JobsInv
    <3> QED BY <2>1, <3>2, <3>3, IdleIs
  <2>2. CASE ~IsLoggedOut(live)
    <3>1. job' = [job EXCEPT ![Events] = k]
      BY <1>0, <1>1, <1>3, <1>5, <1>6, <1>7, <1>8, <2>2 DEF ObserveDevice, Typed
    <3>2. Sets(Events, k)
      BY <1>0, <3>1, SetsJob
    <3>3. ThreadOk(Events, k)
      BY <1>0, <1>5, <1>6, <1>8 DEF ThreadOk, ChangingOk, EventsOk
    <3> QED BY <2>2, <3>2, <3>3
  <2> QED BY <2>1, <2>2
<1>10. /\ job'[Events] = j /\ job'[Hooks] = IdleJob
       /\ \A s \in Threads \ {Events} : job'[s] = job[s]
  BY <1>0, <1>3, <1>9 DEF Sets
<1>11. Typed'
  BY <1>0, <1>1, <1>3, <1>4, <1>9, FeedIs DEF Typed, Sets
<1>12. JobsInv'
  BY <1>0, <1>3, <1>9, <1>10 DEF JobsInv, ThreadOk
<1>13. LinkInv'
  BY <1>0, <1>3, <1>10 DEF LinkInv
<1>14. SoloInv'
  BY <1>0, <1>3, <1>10 DEF SoloInv, IsFree
<1>15. HeardInv'
  <2>1. SUFFICES ASSUME spent.drops = 0 PROVE HeardInv'
    BY <1>3 DEF HeardInv
  <2>2. link = "up" /\ phone = DeviceOf(feed[Len(feed)])
    BY <1>0, <1>3, <2>1 DEF HeardInv, Typed
  <2>3. ~BeforeListing'
    BY <1>3, <1>10, <2>2, IdleIs DEF BeforeListing
  <2>4. feed' # <<>> => phone' = DeviceOf(feed'[Len(feed')])
    BY <1>0, <1>3, <2>2, FeedIs
  <2>5. feed' = <<>> => phone' = device'
    BY <1>0, <1>1, <1>2, <1>3, <1>4, <2>2, FeedIs
  <2>6. ~job'[Hooks].listed.reg /\ link' = "up"
    BY <1>3, <1>10, <2>2, IdleIs
  <2> QED BY <1>10, <2>3, <2>4, <2>5, <2>6 DEF HeardInv
<1>16. ReleaseInv'
  <2>1. SUFFICES ASSUME live'.row.state = "READY", ~live'.dev.reg PROVE Releasing(job'[Events])
    BY DEF ReleaseInv
  <2>2. ~IsLoggedOut(live)
    BY <1>4, <2>1 DEF IsLoggedOut
  <2> QED BY <1>4, <1>5, <1>6, <1>8, <1>9, <1>10, <2>1, <2>2 DEF Releasing
<1>17. ASSUME ~scenario.overlap
       PROVE  RowInv' /\ StatusInv'
  <2>1. \A s \in Threads : job[s] = IdleJob /\ job[s].stage = "idle"
    BY <1>3, <1>17, IdleIs DEF IsFree
  <2>2. SavedOutFailed \/ live.row = saved
    BY <1>0, <1>17, <2>1 DEF RowInv
  <2>3. RowOk(j)'
    BY <1>7, <1>8, <1>9, IdleIs DEF RowOk
  <2>4. RowInv'
    BY <1>0, <1>3, <1>4, <1>9, <1>10, <2>1, <2>2, <2>3, RowsOf DEF RowInv, SavedOutFailed
  <2>5. CASE IsLoggedOut(live)
    <3>1. SUFFICES ASSUME link = "up" PROVE StatusInv'
      BY <1>3, <2>4 DEF StatusInv
    <3>2. SavedOut \/ spent.untold \/ status = CallcenterStatus(live)
      BY <1>0, <1>17, <2>1, <3>1, IdleIs DEF StatusInv, PassAhead
    <3>3. \A s \in Threads : job'[s].stage # "persist"
      BY <1>9, <1>10, <2>1, <2>5, IdleIs
    <3>4. live' = live
      BY <1>4, <2>5
    <3> QED BY <1>3, <3>2, <3>3, <3>4 DEF StatusInv, SavedOut
  <2>6. CASE ~IsLoggedOut(live)
    <3>1. job'[Events].stage = "mirror"
      BY <1>8, <1>9, <1>10, <2>6
    <3> QED BY <1>0, <2>4, <3>1 DEF StatusInv
  <2> QED BY <2>4, <2>5, <2>6
<1>18. RowInv' /\ StatusInv'
  BY <1>3, <1>17 DEF RowInv, StatusInv
<1> QED BY <1>4, <1>11, <1>12, <1>13, <1>14, <1>15, <1>16, <1>18 DEF IInv

\* The hooks of a reconnect begin; when nothing overlaps, alone.
LEMMA ReconnectStep ==
    ASSUME IInv, Reconnect
    PROVE  IInv'
<1>0. /\ Typed /\ JobsInv /\ LinkInv /\ DeviceInv /\ HeardInv /\ ReleaseInv /\ SoloInv
      /\ RowInv /\ StatusInv
      /\ Events \in Threads /\ Hooks \in Threads /\ Events # Hooks
      /\ Events \notin Requests /\ Hooks \notin Requests
  BY PresenceAssumption DEF IInv, Typed, Threads, PresenceAssumption, Events, Hooks
<1>1. PICK j \in Jobs : /\ j = [IdleJob EXCEPT !.stage = "list"]
                        /\ j.stage = "list" /\ j.op = "none" /\ j.then = "idle" /\ j.listed = Gone
  <2> DEFINE q == [IdleJob EXCEPT !.stage = "list"]
  <2>1. q \in Jobs /\ q.stage = "list" /\ q.op = "none" /\ q.then = "idle" /\ q.listed = Gone
    BY IdleIs DEF Jobs, Stages
  <2> HIDE DEF q
  <2> QED BY <2>1 DEF q
<1>2. /\ link = "down" /\ job[Hooks] = IdleJob /\ link' = "up"
      /\ scenario.overlap \/ IsFree
      /\ UNCHANGED <<scenario, spent, live, device, saved, phone, feed, status>>
  BY DEF Reconnect
<1>3. Sets(Hooks, j)
  <2>1. job' = [job EXCEPT ![Hooks] = j]
    BY <1>0, <1>1, <1>2 DEF Reconnect, Typed
  <2> QED BY <1>0, <2>1, SetsJob
<1>4. /\ job'[Hooks] = j /\ \A s \in Threads \ {Hooks} : job'[s] = job[s]
  BY <1>3 DEF Sets
<1>5. ThreadOk(Hooks, j)
  BY <1>0, <1>1 DEF ThreadOk, ChangingOk, HooksOk
<1>6. Typed'
  BY <1>0, <1>2, <1>3 DEF Typed, Sets
<1>7. JobsInv'
  BY <1>0, <1>2, <1>4, <1>5 DEF JobsInv, ThreadOk
<1>8. LinkInv'
  BY <1>0, <1>2 DEF LinkInv
<1>9. SoloInv'
  BY <1>0, <1>2, <1>4 DEF SoloInv, IsFree
<1>10. DeviceInv'
  BY <1>0, <1>2 DEF DeviceInv, IsLoggedOut
<1>11. HeardInv'
  <2>1. SUFFICES ASSUME spent.drops = 0 PROVE HeardInv'
    BY <1>2 DEF HeardInv
  <2>2. device = Unheard /\ job[Events] = IdleJob /\ feed = <<>>
    BY <1>0, <1>2, <2>1 DEF HeardInv, BeforeListing
  <2>3. BeforeListing' /\ ~job'[Hooks].listed.reg /\ job'[Events] = IdleJob
    BY <1>0, <1>1, <1>4, <2>2, IdleIs DEF BeforeListing
  <2> QED BY <1>2, <2>2, <2>3 DEF HeardInv
<1>12. ReleaseInv'
  BY <1>1, <1>4 DEF ReleaseInv, BeforeListing
<1>13. RowInv'
  <2>1. SUFFICES ASSUME ~scenario.overlap PROVE RowInv'
    BY <1>2 DEF RowInv
  <2>2. \A s \in Threads : job[s] = IdleJob /\ job[s].stage = "idle"
    BY <1>2, <2>1, IdleIs DEF IsFree
  <2>3. SavedOutFailed \/ live.row = saved
    BY <1>0, <2>1, <2>2 DEF RowInv
  <2>4. RowOk(j)'
    BY <1>1 DEF RowOk
  <2> QED BY <1>0, <1>2, <1>3, <1>4, <2>2, <2>3, <2>4, RowsOf DEF RowInv, SavedOutFailed
<1>14. StatusInv'
  BY <1>1, <1>4 DEF StatusInv, PassAhead
<1> QED BY <1>6, <1>7, <1>8, <1>9, <1>10, <1>11, <1>12, <1>13, <1>14 DEF IInv

\* The step of the hooks that leaves the copies and the phone to the invariants
\* about them: the jobs stay in order.
LEMMA HooksFrame ==
    ASSUME IInv, NEW j, Sets(Hooks, j), ThreadOk(Hooks, j), job[Hooks].stage # "idle",
           UNCHANGED <<scenario, link>>,
           spent'.drops = spent.drops, spent'.restarts = spent.restarts
    PROVE  JobsInv' /\ LinkInv' /\ SoloInv'
<1>0. /\ Typed /\ JobsInv /\ LinkInv /\ SoloInv /\ Hooks \in Threads /\ job[Hooks] # IdleJob
  BY IdleIs DEF IInv, Threads
<1>1. /\ job'[Hooks] = j /\ \A s \in Threads \ {Hooks} : job'[s] = job[s]
  BY DEF Sets
<1>2. JobsInv'
  BY <1>0, <1>1 DEF JobsInv, ThreadOk
<1>3. LinkInv'
  BY <1>0 DEF LinkInv
<1>4. SoloInv'
  BY <1>0, <1>1 DEF SoloInv
<1> QED BY <1>2, <1>3, <1>4

\* The phones are listed: what the switch names is the phone as it is, and an
\* agent left READY without one is released next.
LEMMA ListStep ==
    ASSUME IInv, ListPhones
    PROVE  IInv'
<1>0. /\ Typed /\ JobsInv /\ LinkInv /\ DeviceInv /\ HeardInv /\ ReleaseInv /\ SoloInv
      /\ RowInv /\ StatusInv /\ phone \in Phones /\ live \in Presences
      /\ job[Hooks] \in Jobs /\ job[Hooks].stage = "list" /\ link = "up"
      /\ Events \in Threads /\ Hooks \in Threads /\ Events # Hooks
      /\ Events \notin Requests /\ Hooks \notin Requests
  BY PresenceAssumption DEF IInv, Typed, Threads, PresenceAssumption, Events, Hooks, ListPhones
<1>1. UNCHANGED <<scenario, spent, saved, switchVars>>
  BY DEF ListPhones
<1>2. /\ live' \in Presences /\ live'.row = live.row /\ DeviceInv'
      /\ device' \in Phones \cup {Unheard}
      /\ phone.reg => device' = phone
      /\ ~phone.reg => device' = device /\ live' = live
  <2>1. CASE phone.reg
    BY <1>0, <1>1, <2>1, Notes DEF ListPhones
  <2>2. CASE ~phone.reg
    BY <1>0, <1>1, <2>2 DEF ListPhones, DeviceInv, IsLoggedOut, Typed
  <2> QED BY <2>1, <2>2
<1>3. PICK a \in {"change", "sync"} :
          a = IF live'.row.state = "READY" /\ ~live'.dev.reg THEN "change" ELSE "sync"
  OBVIOUS
<1>4. PICK d \in Phones : d = phone
  BY <1>0
<1>5. PICK j \in Jobs :
          /\ j = [job[Hooks] EXCEPT !.stage = a, !.op = "release", !.listed = d, !.then = "sync"]
          /\ j.stage = a /\ j.op = "release" /\ j.listed = d /\ j.then = "sync"
  <2> DEFINE q == [job[Hooks] EXCEPT !.stage = a, !.op = "release", !.listed = d, !.then = "sync"]
  <2>1. q \in Jobs /\ q.stage = a /\ q.op = "release" /\ q.listed = d /\ q.then = "sync"
    BY <1>0 DEF Jobs, Stages, Changes
  <2> HIDE DEF q
  <2>2. PICK j \in Jobs : j = q
    BY <2>1
  <2> QED BY <2>1, <2>2 DEF q
<1>6. Sets(Hooks, j)
  <2>1. job' = [job EXCEPT ![Hooks] = j]
    BY <1>0, <1>3, <1>4, <1>5 DEF ListPhones, Typed
  <2> QED BY <1>0, <2>1, SetsJob
<1>7. /\ job'[Hooks] = j /\ \A s \in Threads \ {Hooks} : job'[s] = job[s]
  BY <1>6 DEF Sets
<1>8. ThreadOk(Hooks, j)
  BY <1>0, <1>3, <1>5 DEF ThreadOk, ChangingOk, HooksOk, Changes
<1>9. JobsInv' /\ LinkInv' /\ SoloInv'
  BY <1>0, <1>1, <1>6, <1>8, HooksFrame DEF switchVars
<1>10. Typed'
  BY <1>0, <1>1, <1>2, <1>6 DEF Typed, Sets, switchVars
<1>11. HeardInv'
  <2>1. SUFFICES ASSUME spent.drops = 0 PROVE HeardInv'
    BY <1>1 DEF HeardInv
  <2>2. device = Unheard /\ job[Events] = IdleJob /\ ~device.reg
    BY <1>0, <2>1, IdleIs DEF HeardInv, BeforeListing
  <2>3. ~BeforeListing' /\ link' = "up" /\ job'[Events] = IdleJob
    BY <1>0, <1>1, <1>3, <1>5, <1>7, <2>2 DEF BeforeListing, switchVars
  <2>4. (device'.reg => phone'.reg) /\ (job'[Hooks].listed.reg => device' = job'[Hooks].listed)
    BY <1>1, <1>2, <1>4, <1>5, <1>7, <2>2 DEF switchVars
  <2>5. feed' # <<>> => phone' = DeviceOf(feed'[Len(feed')])
    BY <1>0, <1>1, <2>1 DEF HeardInv, switchVars
  <2> QED BY <2>3, <2>4, <2>5 DEF HeardInv
<1>12. ReleaseInv'
  <2>1. SUFFICES ASSUME live'.row.state = "READY", ~live'.dev.reg PROVE Releasing(job'[Hooks])
    BY DEF ReleaseInv
  <2> QED BY <1>3, <1>5, <1>7, <2>1 DEF Releasing
<1>13. RowInv'
  <2>1. SUFFICES ASSUME ~scenario.overlap PROVE RowInv'
    BY <1>1 DEF RowInv
  <2>2. \A s \in Threads \ {Hooks} : job[s].stage = "idle"
    BY <1>0, <2>1, Alone
  <2>3. SavedOutFailed \/ live.row = saved
    BY <1>0, <1>6, <2>1, <2>2, RowsOf DEF RowInv
  <2>4. RowOk(j)'
    BY <1>3, <1>5 DEF RowOk
  <2>5. \A s \in Threads : RowOk(job[s])'
    BY <1>0, <1>6, <1>7, <2>2, <2>4, RowsOf
  <2> QED BY <1>1, <1>2, <2>3, <2>5 DEF RowInv, SavedOutFailed
<1>14. StatusInv'
  BY <1>5, <1>7 DEF StatusInv, PassAhead
<1> QED BY <1>2, <1>9, <1>10, <1>11, <1>12, <1>13, <1>14 DEF IInv

\* A listing that failed goes on to the mirror pass with nothing noted; without
\* a drop or a failure it does not happen.
LEMMA ListingFailsStep ==
    ASSUME IInv, ListingFails
    PROVE  IInv'
<1>0. /\ Typed /\ JobsInv /\ LinkInv /\ DeviceInv /\ HeardInv /\ ReleaseInv /\ SoloInv
      /\ RowInv /\ StatusInv /\ spent \in Spendings
      /\ job[Hooks] \in Jobs /\ job[Hooks].stage = "list" /\ ThreadOk(Hooks, job[Hooks])
      /\ job[Hooks] # IdleJob
      /\ Events \in Threads /\ Hooks \in Threads /\ Events # Hooks
      /\ Events \notin Requests /\ Hooks \notin Requests
  BY PresenceAssumption, IdleIs
  DEF IInv, Typed, JobsInv, Threads, PresenceAssumption, Events, Hooks, ListingFails
<1>1. UNCHANGED <<scenario, live, device, saved, switchVars>>
  BY DEF ListingFails
<1>2. /\ spent' \in Spendings /\ spent'.drops = spent.drops /\ spent'.restarts = spent.restarts
      /\ spent'.failures \in {spent.failures, spent.failures + 1}
      /\ link # "down" => spent'.failures = spent.failures + 1
  <2>1. CASE link = "down"
    <3>1. spent' = [spent EXCEPT !.failures = spent.failures]
      BY <2>1 DEF ListingFails
    <3>2. spent' = spent
      BY <1>0, <3>1 DEF Spendings
    <3> QED BY <1>0, <2>1, <3>2
  <2>2. CASE link # "down"
    <3>1. spent' = [spent EXCEPT !.failures = @ + 1]
      BY <2>2 DEF ListingFails
    <3> QED BY <1>0, <3>1, Spends
  <2> QED BY <2>1, <2>2
<1>3. PICK j \in Jobs :
          /\ j = [job[Hooks] EXCEPT !.stage = "sync"]
          /\ j.stage = "sync" /\ j.op = job[Hooks].op /\ j.then = job[Hooks].then
          /\ j.listed = job[Hooks].listed
  <2> DEFINE q == [job[Hooks] EXCEPT !.stage = "sync"]
  <2>1. /\ q \in Jobs /\ q.stage = "sync" /\ q.op = job[Hooks].op /\ q.then = job[Hooks].then
        /\ q.listed = job[Hooks].listed
    BY <1>0 DEF Jobs, Stages
  <2> HIDE DEF q
  <2>2. PICK j \in Jobs : j = q
    BY <2>1
  <2> QED BY <2>1, <2>2 DEF q
<1>4. Sets(Hooks, j)
  <2>1. job' = [job EXCEPT ![Hooks] = j]
    BY <1>0, <1>3 DEF ListingFails, Typed
  <2> QED BY <1>0, <2>1, SetsJob
<1>5. /\ job'[Hooks] = j /\ \A s \in Threads \ {Hooks} : job'[s] = job[s]
  BY <1>4 DEF Sets
<1>6. ThreadOk(Hooks, j)
  BY <1>0, <1>3 DEF ThreadOk, ChangingOk, HooksOk
<1>7. JobsInv' /\ LinkInv' /\ SoloInv'
  BY <1>0, <1>1, <1>2, <1>4, <1>6, HooksFrame DEF switchVars
<1>8. Typed'
  BY <1>0, <1>1, <1>2, <1>4 DEF Typed, Sets, switchVars
<1>n. spent.failures \in Nat /\ (spent'.failures = 0 => spent.failures = 0)
      /\ (spent.failures > 0 => spent'.failures > 0)
  <2>1. spent.failures \in Nat
    BY <1>0, Spends
  <2> QED BY <1>2, <2>1
<1>9. DeviceInv'
  BY <1>0, <1>1, <1>n DEF DeviceInv, IsLoggedOut
<1>10. HeardInv'
  <2>1. SUFFICES ASSUME spent.drops = 0 PROVE HeardInv'
    BY <1>2 DEF HeardInv
  <2>2. device = Unheard /\ job[Events] = IdleJob /\ ~device.reg /\ link # "down"
    BY <1>0, <2>1, IdleIs DEF HeardInv, BeforeListing
  <2>3. ~BeforeListing' /\ link' # "down" /\ job'[Events] = IdleJob
    BY <1>0, <1>1, <1>3, <1>5, <2>2 DEF BeforeListing, switchVars
  <2>4. job'[Hooks].listed.reg => device' = job'[Hooks].listed
    BY <1>0, <1>1, <1>3, <1>5, <2>1 DEF HeardInv
  <2>5. feed' # <<>> => phone' = DeviceOf(feed'[Len(feed')])
    BY <1>0, <1>1, <2>1 DEF HeardInv, switchVars
  <2> QED BY <1>1, <2>2, <2>3, <2>4, <2>5 DEF HeardInv
<1>11. ReleaseInv'
  <2>1. SUFFICES ASSUME spent.drops = 0, spent'.failures = 0 PROVE FALSE
    BY <1>2 DEF ReleaseInv
  <2>2. link # "down"
    BY <1>0, <2>1 DEF HeardInv
  <2> QED BY <1>2, <1>n, <2>1, <2>2
<1>12. RowInv'
  <2>1. SUFFICES ASSUME ~scenario.overlap PROVE RowInv'
    BY <1>1 DEF RowInv
  <2>2. \A s \in Threads \ {Hooks} : job[s].stage = "idle"
    BY <1>0, <2>1, Alone
  <2>3. SavedOutFailed \/ live.row = saved
    BY <1>0, <1>4, <2>1, <2>2, RowsOf DEF RowInv
  <2>4. RowOk(j)'
    BY <1>3 DEF RowOk
  <2>5. \A s \in Threads : RowOk(job[s])'
    BY <1>0, <1>4, <1>5, <2>2, <2>4, RowsOf
  <2>6. SavedOutFailed => SavedOutFailed'
    BY <1>1, <1>n DEF SavedOutFailed
  <2> QED BY <1>1, <2>3, <2>5, <2>6 DEF RowInv
<1>13. StatusInv'
  BY <1>3, <1>5 DEF StatusInv, PassAhead
<1> QED BY <1>7, <1>8, <1>9, <1>10, <1>11, <1>12, <1>13 DEF IInv

\* The mirror pass: a signed-in agent is told to the switch; a signed-out one is
\* passed by, which CopiesAgree leaves out.
LEMMA SyncStep ==
    ASSUME IInv, SyncSwitch
    PROVE  IInv'
<1>0. /\ Typed /\ JobsInv /\ LinkInv /\ DeviceInv /\ HeardInv /\ ReleaseInv /\ SoloInv
      /\ RowInv /\ StatusInv /\ spent \in Spendings /\ live \in Presences
      /\ job[Hooks] \in Jobs /\ job[Hooks].stage = "sync" /\ ThreadOk(Hooks, job[Hooks])
      /\ job[Hooks] # IdleJob
      /\ Events \in Threads /\ Hooks \in Threads /\ Events # Hooks
      /\ Events \notin Requests /\ Hooks \notin Requests
  BY PresenceAssumption, IdleIs
  DEF IInv, Typed, JobsInv, Threads, PresenceAssumption, Events, Hooks, SyncSwitch
<1>1. UNCHANGED <<scenario, spent, live, device, saved, switchVars>>
  BY DEF SyncSwitch
<1>2. PICK t \in {"announce", "idle"} : t = IF job[Hooks].listed.reg THEN "announce" ELSE "idle"
  OBVIOUS
<1>3. PICK old \in Presences : old = live
  BY <1>0
<1>4. PICK j \in Jobs :
          /\ Sets(Hooks, j)
          /\ j = IdleJob \/ (j.listed = job[Hooks].listed /\ j.then = "idle" /\ j.stage = "announce"
                             /\ j.listed.reg)
                         \/ (j.listed = job[Hooks].listed /\ j.then = t /\ j.stage = "mirror")
          /\ IsLoggedOut(live) => j.stage # "mirror"
          /\ ~IsLoggedOut(live) => j.stage = "mirror" /\ j.after = old
  <2> DEFINE p == [job[Hooks] EXCEPT !.stage = t, !.then = "idle"]
             q == [job[Hooks] EXCEPT !.stage = "mirror", !.after = old, !.then = t]
  <2>1. p \in Jobs /\ p.stage = t /\ p.then = "idle" /\ p.listed = job[Hooks].listed
    BY <1>0 DEF Jobs, Stages
  <2>2. /\ q \in Jobs /\ q.stage = "mirror" /\ q.then = t /\ q.listed = job[Hooks].listed
        /\ q.after = old
    BY <1>0 DEF Jobs, Stages
  <2>3. /\ IsLoggedOut(live) /\ t = "idle" => job' = [job EXCEPT ![Hooks] = IdleJob]
        /\ IsLoggedOut(live) /\ t # "idle" => job' = [job EXCEPT ![Hooks] = p]
        /\ ~IsLoggedOut(live) => job' = [job EXCEPT ![Hooks] = q]
    BY <1>0, <1>2, <1>3 DEF SyncSwitch, Typed
  <2> HIDE DEF p, q
  <2>4. CASE IsLoggedOut(live) /\ t = "idle"
    <3>1. Sets(Hooks, IdleJob)
      BY <1>0, <2>3, <2>4, SetsJob, IdleIs
    <3> QED BY <2>4, <3>1, IdleIs
  <2>5. CASE IsLoggedOut(live) /\ t # "idle"
    <3>1. Sets(Hooks, p)
      BY <1>0, <2>1, <2>3, <2>5, SetsJob
    <3>2. PICK j \in Jobs : j = p
      BY <2>1
    <3> QED BY <1>2, <2>1, <2>5, <3>1, <3>2
  <2>6. CASE ~IsLoggedOut(live)
    <3>1. Sets(Hooks, q)
      BY <1>0, <2>2, <2>3, <2>6, SetsJob
    <3>2. PICK j \in Jobs : j = q
      BY <2>2
    <3> QED BY <2>2, <2>6, <3>1, <3>2
  <2> QED BY <2>4, <2>5, <2>6
<1>5. /\ job'[Hooks] = j /\ \A s \in Threads \ {Hooks} : job'[s] = job[s]
  BY <1>4 DEF Sets
<1>6. ThreadOk(Hooks, j)
  BY <1>0, <1>2, <1>4, IdleIs DEF ThreadOk, ChangingOk, HooksOk
<1>7. JobsInv' /\ LinkInv' /\ SoloInv' /\ HeardInv'
  <2>1. j.stage # "list" /\ (j = IdleJob \/ j.listed = job[Hooks].listed)
    BY <1>4, IdleIs
  <2> QED BY <1>0, <1>1, <1>4, <1>6, <2>1, ThreadFrame DEF switchVars
<1>8. Typed'
  BY <1>0, <1>1, <1>4 DEF Typed, Sets, switchVars
<1>9. DeviceInv'
  BY <1>0, <1>1 DEF DeviceInv, IsLoggedOut
<1>10. ReleaseInv'
  <2>1. ~Releasing(job[Hooks]) /\ job'[Events] = job[Events]
    BY <1>0, <1>5 DEF Releasing
  <2>2. BeforeListing => BeforeListing'
    BY <1>0, <1>1 DEF BeforeListing, switchVars
  <2> QED BY <1>0, <1>1, <2>1, <2>2 DEF ReleaseInv, RosterAlone
<1>11. ASSUME ~scenario.overlap
       PROVE  RowInv' /\ StatusInv'
  <2>1. \A s \in Threads \ {Hooks} : job[s].stage = "idle"
    BY <1>0, <1>11, Alone
  <2>2. SavedOutFailed \/ live.row = saved
    BY <1>0, <1>4, <1>11, <2>1, RowsOf DEF RowInv
  <2>3. RowOk(j)'
    BY <1>1, <1>3, <1>4, IdleIs DEF RowOk
  <2>4. \A s \in Threads : RowOk(job[s])'
    BY <1>0, <1>4, <1>5, <2>1, <2>3, RowsOf
  <2>5. RowInv'
    BY <1>1, <2>2, <2>4 DEF RowInv, SavedOutFailed
  <2>6. CASE IsLoggedOut(live)
    <3>1. spent.drops \in Nat /\ spent.restarts \in Nat /\ spent.failures \in Nat
      BY <1>0, Spends
    <3>2. saved.state = "LOGGED_OUT" /\ spent.drops + spent.restarts > 0
      BY <1>0, <2>2, <2>6 DEF LinkInv, IsLoggedOut, SavedOutFailed
    <3>3. SavedOut'
      BY <1>1, <3>1, <3>2 DEF SavedOut
    <3> QED BY <2>5, <3>3 DEF StatusInv
  <2>7. CASE ~IsLoggedOut(live)
    <3>1. job'[Hooks].stage = "mirror"
      BY <1>4, <1>5, <2>7
    <3> QED BY <1>0, <2>5, <3>1 DEF StatusInv
  <2> QED BY <2>6, <2>7
<1>12. RowInv' /\ StatusInv'
  BY <1>1, <1>11 DEF RowInv, StatusInv
<1> QED BY <1>7, <1>8, <1>9, <1>10, <1>12 DEF IInv

\* The listed phones are noted once more: nothing was noted between.
LEMMA AnnounceStep ==
    ASSUME IInv, AnnouncePhones
    PROVE  IInv'
<1>0. /\ Typed /\ JobsInv /\ LinkInv /\ DeviceInv /\ HeardInv /\ ReleaseInv /\ SoloInv
      /\ RowInv /\ StatusInv /\ spent \in Spendings /\ live \in Presences
      /\ job[Hooks] \in Jobs /\ job[Hooks].stage = "announce" /\ ThreadOk(Hooks, job[Hooks])
      /\ job[Hooks] # IdleJob
      /\ Events \in Threads /\ Hooks \in Threads /\ Events # Hooks
      /\ Events \notin Requests /\ Hooks \notin Requests
  BY PresenceAssumption, IdleIs
  DEF IInv, Typed, JobsInv, Threads, PresenceAssumption, Events, Hooks, AnnouncePhones
<1>1. UNCHANGED <<scenario, spent, saved, switchVars>>
  BY DEF AnnouncePhones
<1>2. PICK d \in Phones : d = job[Hooks].listed /\ d.reg /\ NoteDevice(d)
  BY <1>0, JobFields DEF ThreadOk, HooksOk, AnnouncePhones
<1>3. /\ device' = d /\ device' # Unheard /\ live' \in Presences /\ live'.row = live.row
      /\ IsLoggedOut(live) => live' = live
      /\ ~IsLoggedOut(live) => live'.dev = d
      /\ DeviceInv'
  BY <1>0, <1>1, <1>2, Notes
<1>4. PICK new \in Presences : new = live'
  BY <1>3
<1>5. PICK j \in Jobs :
          /\ Sets(Hooks, j) /\ j.listed = Gone /\ j.then = "idle"
          /\ IsLoggedOut(live) => j = IdleJob
          /\ ~IsLoggedOut(live) => j.stage = "mirror" /\ j.after = new
  <2> DEFINE q == [IdleJob EXCEPT !.stage = "mirror", !.after = new]
  <2>1. q \in Jobs /\ q.stage = "mirror" /\ q.then = "idle" /\ q.listed = Gone /\ q.after = new
    BY IdleIs DEF Jobs, Stages
  <2>2. /\ IsLoggedOut(live) => job' = [job EXCEPT ![Hooks] = IdleJob]
        /\ ~IsLoggedOut(live) => job' = [job EXCEPT ![Hooks] = q]
    BY <1>0, <1>4 DEF AnnouncePhones, Typed
  <2> HIDE DEF q
  <2>3. CASE IsLoggedOut(live)
    <3>1. Sets(Hooks, IdleJob)
      BY <1>0, <2>2, <2>3, SetsJob, IdleIs
    <3> QED BY <2>3, <3>1, IdleIs
  <2>4. CASE ~IsLoggedOut(live)
    <3>1. Sets(Hooks, q)
      BY <1>0, <2>1, <2>2, <2>4, SetsJob
    <3>2. PICK j \in Jobs : j = q
      BY <2>1
    <3> QED BY <2>1, <2>4, <3>1, <3>2
  <2> QED BY <2>3, <2>4
<1>6. /\ job'[Hooks] = j /\ \A s \in Threads \ {Hooks} : job'[s] = job[s]
  BY <1>5 DEF Sets
<1>7. ThreadOk(Hooks, j)
  BY <1>0, <1>5, IdleIs DEF ThreadOk, ChangingOk, HooksOk
<1>8. JobsInv' /\ LinkInv' /\ SoloInv'
  BY <1>0, <1>1, <1>5, <1>7, HooksFrame DEF switchVars
<1>9. Typed'
  BY <1>0, <1>1, <1>3, <1>5 DEF Typed, Sets, switchVars
<1>10. HeardInv'
  <2>1. SUFFICES ASSUME spent.drops = 0 PROVE HeardInv'
    BY <1>1 DEF HeardInv
  <2>2. device = d /\ device' = device /\ job[Events] = IdleJob /\ link # "down" /\ ~BeforeListing
    BY <1>0, <1>2, <1>3, <2>1 DEF HeardInv, BeforeListing
  <2>3. ~BeforeListing' /\ link' # "down" /\ job'[Events] = IdleJob /\ ~job'[Hooks].listed.reg
    BY <1>0, <1>1, <1>5, <1>6, <2>2, IdleIs DEF BeforeListing, switchVars
  <2> QED BY <1>0, <1>1, <2>1, <2>2, <2>3 DEF HeardInv, switchVars
<1>11. ReleaseInv'
  <2>1. live'.row.state = "READY" => live'.dev.reg
    BY <1>2, <1>3 DEF IsLoggedOut
  <2> QED BY <2>1 DEF ReleaseInv
<1>12. ASSUME ~scenario.overlap
       PROVE  RowInv' /\ StatusInv'
  <2>1. \A s \in Threads \ {Hooks} : job[s].stage = "idle"
    BY <1>0, <1>12, Alone
  <2>2. SavedOutFailed \/ live.row = saved
    BY <1>0, <1>5, <1>12, <2>1, RowsOf DEF RowInv
  <2>3. RowOk(j)'
    BY <1>4, <1>5, IdleIs DEF RowOk
  <2>4. \A s \in Threads : RowOk(job[s])'
    BY <1>0, <1>5, <1>6, <2>1, <2>3, RowsOf
  <2>5. RowInv'
    BY <1>1, <1>3, <2>2, <2>4 DEF RowInv, SavedOutFailed
  <2>6. CASE IsLoggedOut(live)
    <3>1. spent.drops \in Nat /\ spent.restarts \in Nat /\ spent.failures \in Nat
      BY <1>0, Spends
    <3>2. saved.state = "LOGGED_OUT" /\ spent.drops + spent.restarts > 0
      BY <1>0, <2>2, <2>6 DEF LinkInv, IsLoggedOut, SavedOutFailed
    <3>3. SavedOut'
      BY <1>1, <3>1, <3>2 DEF SavedOut
    <3> QED BY <2>5, <3>3 DEF StatusInv
  <2>7. CASE ~IsLoggedOut(live)
    <3>1. job'[Hooks].stage = "mirror"
      BY <1>5, <1>6, <2>7
    <3> QED BY <1>0, <2>5, <3>1 DEF StatusInv
  <2> QED BY <2>6, <2>7
<1>13. RowInv' /\ StatusInv'
  BY <1>1, <1>12 DEF RowInv, StatusInv
<1> QED BY <1>3, <1>8, <1>9, <1>10, <1>11, <1>13 DEF IInv

\* The phone changes and, while the link is up, says so on the stream.
LEMMA PhoneStep ==
    ASSUME IInv, NEW x \in Signals, PhoneChanges(x)
    PROVE  IInv'
<1>0. /\ Typed /\ JobsInv /\ LinkInv /\ DeviceInv /\ HeardInv /\ ReleaseInv /\ SoloInv
      /\ RowInv /\ StatusInv /\ spent \in Spendings /\ feed \in Seq(Signals)
      /\ link \in {"up", "down"}
  BY DEF IInv, Typed
<1>1. /\ UNCHANGED <<scenario, live, device, saved, job, link, status>>
      /\ phone' = DeviceOf(x) /\ feed' = IF link = "up" THEN Append(feed, x) ELSE feed
      /\ spent' \in Spendings /\ spent'.drops = spent.drops /\ spent'.restarts = spent.restarts
      /\ spent'.failures = spent.failures /\ spent'.untold = spent.untold
  BY <1>0, Spends DEF PhoneChanges
<1>2. Typed'
  BY <1>0, <1>1, SignalsAre, FeedIs DEF Typed
<1>3. JobsInv' /\ LinkInv' /\ SoloInv' /\ DeviceInv'
  BY <1>0, <1>1 DEF JobsInv, ThreadOk, LinkInv, SoloInv, DeviceInv, IsLoggedOut
<1>4. HeardInv'
  <2>1. CASE link = "up"
    BY <1>0, <1>1, <2>1, FeedIs DEF HeardInv, BeforeListing
  <2>2. CASE link = "down"
    BY <1>0, <1>1, <2>2 DEF HeardInv, BeforeListing
  <2> QED BY <1>0, <2>1, <2>2
<1>5. ReleaseInv'
  BY <1>0, <1>1 DEF ReleaseInv, BeforeListing, RosterAlone
<1>6. RowInv'
  BY <1>0, <1>1 DEF RowInv, RowOk, SavedOutFailed, IsLoggedOut
<1>7. StatusInv'
  BY <1>0, <1>1 DEF StatusInv, SavedOut
<1> QED BY <1>2, <1>3, <1>4, <1>5, <1>6, <1>7 DEF IInv

\* A drop ends what is promised of the phone, and takes the link down until the
\* mirror pass of the next connection.
LEMMA DropStep ==
    ASSUME IInv, NEW forgets \in BOOLEAN, LinkDrops(forgets)
    PROVE  IInv'
<1>0. /\ Typed /\ JobsInv /\ LinkInv /\ DeviceInv /\ SoloInv /\ RowInv /\ spent \in Spendings
  BY DEF IInv, Typed
<1>1. /\ UNCHANGED <<scenario, live, device, saved, job, phone, feed>> /\ link' = "down"
      /\ status' \in {status, "Logged Out"}
      /\ spent' \in Spendings /\ spent'.drops = spent.drops + 1 /\ spent'.restarts = spent.restarts
      /\ spent'.failures = spent.failures /\ spent'.untold = spent.untold
  BY <1>0, Spends DEF LinkDrops
<1>2. spent'.drops # 0 /\ spent'.drops + spent'.restarts > 0
  <2>1. PICK n \in Nat : n = spent.drops
    BY <1>0, Spends
  <2>2. PICK k \in Nat : k = spent.restarts
    BY <1>0, Spends
  <2>3. spent'.drops = n + 1 /\ spent'.restarts = k
    BY <1>1, <2>1, <2>2
  <2>4. n + 1 # 0 /\ (n + 1) + k > 0
    BY <2>1, <2>2
  <2> QED BY <2>3, <2>4
<1>3. Typed'
  BY <1>0, <1>1 DEF Typed
<1>4. JobsInv' /\ LinkInv' /\ SoloInv' /\ DeviceInv'
  BY <1>0, <1>1, <1>2 DEF JobsInv, ThreadOk, LinkInv, SoloInv, DeviceInv, IsLoggedOut
<1>5. HeardInv' /\ ReleaseInv' /\ StatusInv'
  BY <1>1, <1>2 DEF HeardInv, ReleaseInv, StatusInv
<1>6. RowInv'
  BY <1>0, <1>1 DEF RowInv, RowOk, SavedOutFailed, IsLoggedOut
<1> QED BY <1>3, <1>4, <1>5, <1>6 DEF IInv

\* A process that starts again takes the row for the presence and no thread has
\* a job.
LEMMA RestartStep ==
    ASSUME IInv, Restart
    PROVE  IInv'
<1>0. /\ Typed /\ JobsInv /\ spent \in Spendings /\ saved \in Rows
      /\ Events \in Threads /\ Hooks \in Threads
  BY DEF IInv, Typed, Threads
<1>1. /\ UNCHANGED <<scenario, saved, phone, status>> /\ live' = Live(saved, Gone)
      /\ live' \in Presences /\ live'.row = saved /\ live'.dev = Gone /\ device' = Unheard
      /\ \A s \in Threads : job'[s] = IdleJob /\ job'[s].stage = "idle"
      /\ job' \in [Threads -> Jobs] /\ link' = "down" /\ feed' = <<>>
      /\ spent' \in Spendings /\ spent'.drops = spent.drops
      /\ spent'.restarts = spent.restarts + 1 /\ spent'.failures = spent.failures /\ spent'.untold = spent.untold
  BY <1>0, Spends, Lives, IdleIs DEF Restart
<1>2. spent'.drops + spent'.restarts > 0
  <2>1. spent.drops \in Nat /\ spent.restarts \in Nat
    BY <1>0, Spends
  <2> QED BY <1>1, <2>1
<1>3. Typed'
  BY <1>0, <1>1, EmptySeq DEF Typed
<1>4. JobsInv'
  <2>1. \A s \in Threads : ThreadOk(s, IdleJob)
    BY IdleIs DEF ThreadOk, ChangingOk, RequestOk, EventsOk, HooksOk
  <2> QED BY <1>1, <2>1 DEF JobsInv, ThreadOk
<1>5. LinkInv' /\ SoloInv' /\ DeviceInv' /\ StatusInv'
  BY <1>1, <1>2 DEF LinkInv, SoloInv, DeviceInv, StatusInv
<1>6. HeardInv' /\ ReleaseInv'
  BY <1>0, <1>1, IdleIs DEF HeardInv, BeforeListing, ReleaseInv
<1>7. RowInv'
  BY <1>1, IdleIs DEF RowInv, RowOk
<1> QED BY <1>3, <1>4, <1>5, <1>6, <1>7 DEF IInv

-----------------------------------------------------------------------------
(***************************************************************************)
(* The invariant holds.                                                    *)
(***************************************************************************)
\* The process starts with the agent signed out everywhere and no thread busy.
LEMMA InitInv ==
    ASSUME Init
    PROVE  IInv
<1>0. /\ \A r \in Threads : job[r] = IdleJob /\ job[r].stage = "idle"
      /\ job \in [Threads -> Jobs] /\ Events \in Threads /\ Hooks \in Threads
      /\ live.row = At("LOGGED_OUT", "") /\ live.dev = Gone /\ live \in Presences
      /\ saved = live.row /\ saved \in Rows /\ saved.state = "LOGGED_OUT"
  BY IdleIs, Lives, RowsAre DEF Init, Threads
<1>1. Typed
  <2>1. spent \in Spendings
    BY DEF Init, Spendings
  <2> QED BY <1>0, <2>1, IdleIs, EmptySeq DEF Init, Typed
<1>2. JobsInv
  <2>1. \A s \in Threads : ThreadOk(s, IdleJob)
    BY IdleIs DEF ThreadOk, ChangingOk, RequestOk, EventsOk, HooksOk
  <2> QED BY <1>0, <2>1 DEF JobsInv
<1>3. LinkInv /\ SoloInv /\ DeviceInv
  BY <1>0 DEF Init, LinkInv, SoloInv, DeviceInv
<1>4. HeardInv
  BY <1>0, IdleIs DEF Init, HeardInv, BeforeListing
<1>5. ReleaseInv
  BY <1>0 DEF ReleaseInv
<1>6. RowInv
  BY <1>0 DEF RowInv, RowOk
<1>7. StatusInv
  <2>1. CallcenterStatus(live) = "Logged Out"
    BY <1>0 DEF CallcenterStatus
  <2> QED BY <1>0, <2>1 DEF Init, StatusInv
<1> QED BY <1>1, <1>2, <1>3, <1>4, <1>5, <1>6, <1>7 DEF IInv

\* A step that changes nothing keeps everything.
LEMMA Stutter ==
    ASSUME IInv, UNCHANGED vars
    PROVE  IInv'
<1>1. /\ UNCHANGED <<scenario, spent, live, device, saved, job>>
      /\ UNCHANGED <<link, phone, feed, status>>
  BY DEF vars, switchVars
<1>2. Typed'
  BY <1>1 DEF IInv, Typed
<1>3. JobsInv' /\ LinkInv' /\ SoloInv' /\ DeviceInv'
  BY <1>1 DEF IInv, JobsInv, ThreadOk, LinkInv, SoloInv, DeviceInv, IsLoggedOut
<1>4. HeardInv' /\ ReleaseInv'
  BY <1>1 DEF IInv, HeardInv, ReleaseInv, BeforeListing, RosterAlone
<1>5. RowInv'
  BY <1>1 DEF IInv, RowInv, RowOk, SavedOutFailed, IsLoggedOut
<1>6. StatusInv'
  BY <1>1 DEF IInv, StatusInv, SavedOut, CallcenterStatus
<1> QED BY <1>2, <1>3, <1>4, <1>5, <1>6 DEF IInv

\* Every step of every thread, of the switch and of the process keeps it.
LEMMA NextStep ==
    ASSUME IInv, [Next]_vars
    PROVE  IInv'
<1>1. ASSUME NEW r \in Requests, NEW op \in scenario.ops, Begin(r, op)
      PROVE  IInv'
  BY <1>1, BeginStep
<1>2. ASSUME NEW r \in Threads, Look(r) PROVE IInv'
  BY <1>2, LookStep
<1>3. ASSUME NEW r \in Threads, Change(r) PROVE IInv'
  <2>1. CASE Allowed(job[r].op, live)
    BY <1>3, <2>1, ChangeAllowed
  <2>2. CASE ~Allowed(job[r].op, live)
    BY <1>3, <2>2, ChangeRefused
  <2> QED BY <2>1, <2>2
<1>4. ASSUME NEW r \in Threads, Persist(r) PROVE IInv'
  BY <1>4, PersistStep
<1>5. ASSUME NEW r \in Threads, PersistFails(r) PROVE IInv'
  BY <1>5, PersistFailsStep
<1>6. ASSUME NEW r \in Threads, Mirror(r) PROVE IInv'
  BY <1>6, MirrorStep
<1>7. ASSUME NEW r \in Threads, ReadRoster(r) PROVE IInv'
  BY <1>7, ReadRosterStep
<1>8. ASSUME NEW r \in Threads, Roster(r) PROVE IInv'
  BY <1>8, RosterStep
<1>9. CASE ObserveDevice
  BY <1>9, ObserveStep
<1>10. CASE Reconnect
  BY <1>10, ReconnectStep
<1>11. CASE ListPhones
  BY <1>11, ListStep
<1>12. CASE ListingFails
  BY <1>12, ListingFailsStep
<1>13. CASE SyncSwitch
  BY <1>13, SyncStep
<1>14. CASE AnnouncePhones
  BY <1>14, AnnounceStep
<1>15. ASSUME NEW signal \in Signals, PhoneChanges(signal) PROVE IInv'
  BY <1>15, PhoneStep
<1>16. ASSUME NEW forgets \in BOOLEAN, LinkDrops(forgets) PROVE IInv'
  BY <1>16, DropStep
<1>17. CASE Restart
  BY <1>17, RestartStep
<1>18. ASSUME NEW r \in Threads, ReadFails(r) PROVE IInv'
  BY <1>18, ReadFailsStep
<1>19. ASSUME NEW r \in Threads, MirrorFails(r) PROVE IInv'
  BY <1>19, MirrorFailsStep
<1>20. CASE ObserveFails
  BY <1>20, ObserveFailsStep
<1>21. CASE UNCHANGED vars
  BY <1>21, Stutter
<1> QED
  BY <1>1, <1>2, <1>3, <1>4, <1>5, <1>6, <1>7, <1>8, <1>9, <1>10, <1>11, <1>12, <1>13,
     <1>14, <1>15, <1>16, <1>17, <1>18, <1>19, <1>20, <1>21 DEF Next

\* The invariant holds in every state of every behaviour.
THEOREM Invariance == Spec => []IInv
<1>1. Init => IInv
  BY InitInv
<1>2. IInv /\ [Next]_vars => IInv'
  BY NextStep
<1> QED BY <1>1, <1>2, PTL DEF Spec

-----------------------------------------------------------------------------
(***************************************************************************)
(* What is promised.                                                       *)
(***************************************************************************)
\* The presence, the row, the phone's flags and the status stay well formed
\* whatever the threads, the switch and the process do.
THEOREM TypeCorrect == Spec => []TypeOK
<1>1. IInv => TypeOK
  BY Lives DEF IInv, Typed, TypeOK
<1> QED BY <1>1, Invariance, PTL

\* When nothing is on its way, the live presence and the row agree, and what the
\* switch routes by with them unless the last status did not reach it, whatever
\* reads, saves and status commands failed, links dropped and processes died
\* between the writes, as long as no two operations overlap (change,
\* mirrorStatus, ObserveDevice, SyncSwitch, Restore).
THEOREM CopiesStayTogether == Spec => []CopiesAgree
<1>1. ASSUME IInv, Quiet, ~scenario.overlap
      PROVE  \/ SavedOut
             \/ live.row = saved /\ (spent.untold \/ status = CallcenterStatus(live))
  <2>1. /\ \A r \in Threads : job[r] = IdleJob /\ job[r].stage = "idle"
        /\ Hooks \in Threads /\ link = "up" /\ ~PassAhead(job[Hooks])
    BY <1>1, IdleIs DEF Quiet, IsFree, Threads, PassAhead
  <2>2. SavedOutFailed \/ live.row = saved
    BY <1>1, <2>1 DEF IInv, RowInv
  <2>3. SavedOut \/ spent.untold \/ status = CallcenterStatus(live)
    BY <1>1, <2>1 DEF IInv, StatusInv
  <2> QED BY <1>1, <2>2, <2>3, FailedIsOut DEF IInv
<1>2. IInv => CopiesAgree
  BY <1>1 DEF CopiesAgree, SavedOut
<1> QED BY <1>2, Invariance, PTL

\* No agent is READY without a registered phone once everything the switch said
\* has been acted on, as long as the link has not dropped, no read, save or
\* status command has failed and a roster is not read beside other operations
\* (ErrDeviceNotRegistered, releaseForLostDevice, ReleaseAgentsWithoutPhones,
\* restoreForReturnedDevice).
THEOREM ReadyKeepsAPhone == Spec => []ReadyHasAPhoneHere
<1>1. ASSUME IInv, RosterAlone, spent.drops = 0, Quiet, spent.failures = 0,
             live.row.state = "READY"
      PROVE  phone.reg
  <2>1. /\ job[Events] = IdleJob /\ job[Hooks] = IdleJob
        /\ ~BeforeListing /\ feed = <<>>
    BY <1>1, IdleIs DEF Quiet, IsFree, Threads, BeforeListing
  <2>2. ~Releasing(IdleJob)
    BY IdleIs DEF Releasing
  <2>3. live.dev.reg
    BY <1>1, <2>1, <2>2 DEF IInv, ReleaseInv
  <2>4. ~IsLoggedOut(live)
    BY <1>1 DEF IsLoggedOut
  <2>5. device = Unheard => live.dev = Gone
    BY <1>1 DEF IInv, DeviceInv
  <2>6. device # Unheard => live.dev = device
    BY <1>1, <2>4 DEF IInv, DeviceInv
  <2>7. device.reg
    BY <2>3, <2>5, <2>6, IdleIs
  <2> QED BY <1>1, <2>1, <2>7 DEF IInv, HeardInv
<1>2. IInv => ReadyHasAPhoneHere
  BY <1>1 DEF ReadyHasAPhoneHere, ReadyHasAPhone
<1> QED BY <1>2, Invariance, PTL
=============================================================================
