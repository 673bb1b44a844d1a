----------------------------- MODULE EslClient ------------------------------
(***************************************************************************)
(* internal/esl: the event socket. A Link keeps one Client connected at a  *)
(* time; callers issue commands on whatever client it holds, replies are   *)
(* matched to commands by their order, and events go through a channel of  *)
(* the client and one of the link that both drop their oldest when full.   *)
(*                                                                         *)
(* A timer may fire at any moment, so every deadline is a step that is     *)
(* always possible; the switch may stall for ever.                         *)
(***************************************************************************)
EXTENDS Integers, Sequences, FiniteSets

CONSTANTS
    Commands,    \* each issued once, by a caller of its own
    MaxConns,    \* bound: connections a behaviour makes
    MaxEvents,   \* bound: events the switch emits
    EventCap,    \* the capacity of the two event channels, 1024 in the code
    NoOne

ASSUME EslAssumption ==
    /\ MaxConns \in Nat \ {0} /\ MaxEvents \in Nat /\ EventCap \in Nat \ {0}
    /\ NoOne \notin Commands

Conns == 1..MaxConns
NoConn == 0

VARIABLES
    \* callers: where in command they are, on which client, and what they got
    pc, on, got,
    \* clients
    turn, pending, inbox, closed, loop, clientEvents,
    \* connections: what is on its way to the switch and from it, and whether
    \* the peer is gone
    out, in, broken,
    \* the link: its client (NoConn when there is none), where Run is, and the
    \* connections made so far
    client, phase, made, linkEvents,
    \* the switch and the consumer of events
    ran, emitted, newest, seen

callerVars == <<pc, on, got>>
clientVars == <<turn, pending, inbox, closed, loop, clientEvents>>
wireVars == <<out, in, broken>>
linkVars == <<client, phase, made, linkEvents>>
streamVars == <<emitted, newest, seen>>
vars == <<callerVars, clientVars, wireVars, linkVars, ran, streamVars>>

None == [kind |-> "none"]
Failed == [kind |-> "failed"]
ReplyTo(c) == [kind |-> "reply", to |-> c]
EventNo(e) == [kind |-> "event", no |-> e]

Init ==
    /\ pc = [c \in Commands |-> "idle"]
    /\ on = [c \in Commands |-> NoConn]
    /\ got = [c \in Commands |-> None]
    /\ turn = [n \in Conns |-> NoOne]
    /\ pending = [n \in Conns |-> <<>>]
    /\ inbox = [c \in Commands |-> None]
    /\ closed = [n \in Conns |-> FALSE]
    /\ loop = [n \in Conns |-> "reading"]
    /\ clientEvents = [n \in Conns |-> <<>>]
    /\ out = [n \in Conns |-> <<>>] /\ in = [n \in Conns |-> <<>>]
    /\ broken = [n \in Conns |-> FALSE]
    /\ client = NoConn /\ phase = "dialing" /\ made = 0 /\ linkEvents = <<>>
    /\ ran = {} /\ emitted = 0 /\ newest = 0 /\ seen = <<>>

-----------------------------------------------------------------------------
(* Client.command, step by step.                                           *)

Return(c, what) ==
    /\ pc' = [pc EXCEPT ![c] = "done"]
    /\ got' = [got EXCEPT ![c] = what]
    /\ UNCHANGED on

Down == [kind |-> "down"]
Unknown == [kind |-> "unknown"]

\* Link.API and Link.BgAPI
Issue(c) ==
    /\ pc[c] = "idle"
    /\ \/ client = NoConn /\ Return(c, Down)
       \/ /\ client # NoConn
          /\ pc' = [pc EXCEPT ![c] = "turn"]
          /\ on' = [on EXCEPT ![c] = client]
          /\ UNCHANGED got
    /\ UNCHANGED <<clientVars, wireVars, linkVars, ran, streamVars>>

TakeTurn(c) ==
    /\ pc[c] = "turn" /\ turn[on[c]] = NoOne
    /\ turn' = [turn EXCEPT ![on[c]] = c]
    /\ pc' = [pc EXCEPT ![c] = "check"]
    /\ UNCHANGED <<on, got, pending, inbox, closed, loop, clientEvents, wireVars, linkVars, ran,
                   streamVars>>

\* The link closed, or the timer fired, before the caller had its turn.
NoTurn(c) ==
    /\ pc[c] = "turn"
    /\ Return(c, Down)
    /\ UNCHANGED <<clientVars, wireVars, linkVars, ran, streamVars>>

\* The link may have closed while the caller waited; else its waiter is queued.
Register(c) ==
    LET n == on[c] IN
    /\ pc[c] = "check"
    /\ \/ /\ closed[n]
          /\ Return(c, Down)
          /\ turn' = [turn EXCEPT ![n] = NoOne]
          /\ UNCHANGED pending
       \/ /\ ~closed[n]
          /\ pending' = [pending EXCEPT ![n] = Append(@, c)]
          /\ pc' = [pc EXCEPT ![c] = "write"]
          /\ UNCHANGED <<on, got, turn>>
    /\ UNCHANGED <<inbox, closed, loop, clientEvents, wireVars, linkVars, ran, streamVars>>

\* The kernel takes all of the command, also when the peer is already gone.
Written(c) ==
    LET n == on[c] IN
    /\ pc[c] = "write" /\ ~closed[n]
    /\ out' = [out EXCEPT ![n] = IF broken[n] THEN @ ELSE Append(@, c)]
    /\ turn' = [turn EXCEPT ![n] = NoOne]
    /\ pc' = [pc EXCEPT ![c] = "reply"]
    /\ UNCHANGED <<on, got, pending, inbox, closed, loop, clientEvents, in, broken, linkVars,
                   ran, streamVars>>

\* The write failed or its deadline passed. Some of the bytes left, and the
\* switch may have the command, or none did; the link is closed first.
WriteFails(c) ==
    LET n == on[c] IN
    /\ pc[c] = "write"
    /\ closed' = [closed EXCEPT ![n] = TRUE]
    /\ turn' = [turn EXCEPT ![n] = NoOne]
    /\ \/ Return(c, Down) /\ UNCHANGED out
       \/ /\ Return(c, Unknown)
          /\ \E whole \in BOOLEAN :
                 out' = [out EXCEPT ![n] =
                     IF whole /\ ~broken[n] /\ ~closed[n] THEN Append(@, c) ELSE @]
    /\ UNCHANGED <<pending, inbox, loop, clientEvents, in, broken, linkVars, ran, streamVars>>

TakeReply(c) ==
    /\ pc[c] = "reply" /\ inbox[c] # None
    /\ Return(c, IF inbox[c] = Failed THEN Unknown ELSE inbox[c])
    /\ UNCHANGED <<clientVars, wireVars, linkVars, ran, streamVars>>

\* As a caller that takes its waiter with it when it gives up.
TimeOutMutant(c) ==
    /\ pc[c] = "reply"
    /\ Return(c, Unknown)
    /\ pending' = [pending EXCEPT ![on[c]] = SelectSeq(@, LAMBDA d : d # c)]
    /\ UNCHANGED <<turn, inbox, closed, loop, clientEvents, wireVars, linkVars, ran, streamVars>>

\* As a caller without a timer.
TimeOutWaits(c) ==
    /\ pc[c] = "reply" /\ closed[on[c]]
    /\ Return(c, Unknown)
    /\ UNCHANGED <<clientVars, wireVars, linkVars, ran, streamVars>>

\* The waiter stays queued, for the replies after it to stay aligned.
TimeOut(c) ==
    /\ pc[c] = "reply"
    /\ Return(c, Unknown)
    /\ UNCHANGED <<clientVars, wireVars, linkVars, ran, streamVars>>

\* A reply that arrived as the link closed still counts.
SeesClosed(c) ==
    /\ pc[c] = "reply" /\ closed[on[c]]
    /\ Return(c, IF inbox[c] \in {None, Failed} THEN Unknown ELSE inbox[c])
    /\ UNCHANGED <<clientVars, wireVars, linkVars, ran, streamVars>>

-----------------------------------------------------------------------------
(* Client.readLoop.                                                        *)

\* A channel that is full drops its newest.
PushMutant(q, e) == IF Len(q) < EventCap THEN Append(q, e) ELSE q

\* A channel that is full drops its oldest.
Push(q, e) == Append(IF Len(q) < EventCap THEN q ELSE Tail(q), e)

IsRead(n, kind) == loop[n] = "reading" /\ in[n] # <<>> /\ Head(in[n]).kind = kind

\* deliverReply
ReadReply(n) ==
    /\ IsRead(n, "reply")
    /\ in' = [in EXCEPT ![n] = Tail(@)]
    /\ IF pending[n] = <<>> THEN UNCHANGED <<pending, inbox>>
       ELSE /\ inbox' = [inbox EXCEPT ![Head(pending[n])] = Head(in[n])]
            /\ pending' = [pending EXCEPT ![n] = Tail(@)]
    /\ UNCHANGED <<callerVars, turn, closed, loop, clientEvents, out, broken, linkVars, ran,
                   streamVars>>

\* A loop with a closed link and an event to hand over may return instead, its
\* waiters unanswered.
ReadEvent(n) ==
    /\ IsRead(n, "event")
    /\ in' = [in EXCEPT ![n] = Tail(@)]
    /\ \/ /\ clientEvents' = [clientEvents EXCEPT ![n] = Push(@, Head(in[n]).no)]
          /\ newest' = Head(in[n]).no
          /\ UNCHANGED loop
       \/ /\ closed[n] /\ loop' = [loop EXCEPT ![n] = "ending"]
          /\ UNCHANGED <<clientEvents, newest>>
    /\ UNCHANGED <<callerVars, turn, pending, inbox, closed, out, broken, linkVars, ran, emitted,
                   seen>>

\* failPending, on a read error or a disconnect notice: the link is not closed
\* before every waiter has been answered, and one may still be queued behind.
ReadFails(n) ==
    /\ n <= made /\ loop[n] = "reading"
    /\ closed[n] \/ (broken[n] /\ in[n] = <<>>)
    /\ loop' = [loop EXCEPT ![n] = "ending"]
    /\ inbox' = [c \in Commands |->
                    IF \E i \in 1..Len(pending[n]) : pending[n][i] = c THEN Failed ELSE inbox[c]]
    /\ pending' = [pending EXCEPT ![n] = <<>>]
    /\ UNCHANGED <<callerVars, turn, closed, clientEvents, wireVars, linkVars, ran, streamVars>>

\* The deferred calls: Close, then the event channel is closed.
LoopEnds(n) ==
    /\ loop[n] = "ending"
    /\ loop' = [loop EXCEPT ![n] = "over"]
    /\ closed' = [closed EXCEPT ![n] = TRUE]
    /\ UNCHANGED <<callerVars, turn, pending, inbox, clientEvents, wireVars, linkVars, ran,
                   streamVars>>

-----------------------------------------------------------------------------
(* Link.Run: one connection after the other.                               *)

\* Dial and Subscribe; an attempt that fails leaves no client behind.
Connect ==
    /\ phase = "dialing" /\ made < MaxConns
    /\ made' = made + 1 /\ client' = made + 1 /\ phase' = "hooks"
    /\ UNCHANGED <<callerVars, clientVars, wireVars, linkEvents, ran, streamVars>>

HooksRun ==
    /\ phase = "hooks" /\ phase' = "pump"
    /\ UNCHANGED <<callerVars, clientVars, wireVars, client, made, linkEvents, ran, streamVars>>

Pump ==
    /\ phase = "pump" /\ clientEvents[client] # <<>>
    /\ linkEvents' = Push(linkEvents, Head(clientEvents[client]))
    /\ clientEvents' = [clientEvents EXCEPT ![client] = Tail(@)]
    /\ UNCHANGED <<callerVars, turn, pending, inbox, closed, loop, wireVars, client, phase, made,
                   ran, streamVars>>

\* The client's channel is closed and drained.
Lost ==
    /\ phase = "pump" /\ clientEvents[client] = <<>> /\ loop[client] = "over"
    /\ phase' = "dialing" /\ client' = NoConn
    /\ UNCHANGED <<callerVars, clientVars, wireVars, made, linkEvents, ran, streamVars>>

Consume ==
    /\ linkEvents # <<>>
    /\ seen' = Append(seen, Head(linkEvents))
    /\ linkEvents' = Tail(linkEvents)
    /\ UNCHANGED <<callerVars, clientVars, wireVars, client, phase, made, ran, emitted, newest>>

-----------------------------------------------------------------------------
(* The switch and the network.                                             *)

SwitchRuns(n) ==
    /\ out[n] # <<>>
    /\ out' = [out EXCEPT ![n] = Tail(@)]
    /\ ran' = ran \cup {Head(out[n])}
    /\ in' = [in EXCEPT ![n] = IF broken[n] THEN @ ELSE Append(@, ReplyTo(Head(out[n])))]
    /\ UNCHANGED <<callerVars, clientVars, broken, linkVars, streamVars>>

Emit ==
    /\ client # NoConn /\ ~broken[client] /\ emitted < MaxEvents
    /\ emitted' = emitted + 1
    /\ in' = [in EXCEPT ![client] = Append(@, EventNo(emitted + 1))]
    /\ UNCHANGED <<callerVars, clientVars, out, broken, linkVars, ran, newest, seen>>

\* What was on its way is lost from some point on, in each direction; what the
\* switch has read it may still run.
Break(n) ==
    /\ n <= made /\ ~broken[n]
    /\ broken' = [broken EXCEPT ![n] = TRUE]
    /\ \E i \in 0..Len(out[n]) : out' = [out EXCEPT ![n] = SubSeq(@, 1, i)]
    /\ \E i \in 0..Len(in[n]) : in' = [in EXCEPT ![n] = SubSeq(@, 1, i)]
    /\ UNCHANGED <<callerVars, clientVars, linkVars, ran, streamVars>>

CallerStep(c) ==
    \/ Issue(c) \/ TakeTurn(c) \/ NoTurn(c) \/ Register(c) \/ Written(c) \/ WriteFails(c)
    \/ TakeReply(c) \/ TimeOut(c) \/ SeesClosed(c)

Next ==
    \/ \E c \in Commands : CallerStep(c)
    \/ \E n \in Conns : \/ ReadReply(n) \/ ReadEvent(n) \/ ReadFails(n) \/ LoopEnds(n)
                        \/ SwitchRuns(n) \/ Break(n)
    \/ Connect \/ HooksRun \/ Pump \/ Lost \/ Consume \/ Emit

Spec == Init /\ [][Next]_vars

\* A caller's own steps and its timers; nothing is assumed of the switch, of the
\* network, of the read loop or of the link.
Fairness ==
    \A c \in Commands : /\ WF_vars(NoTurn(c)) /\ WF_vars(Register(c)) /\ WF_vars(TimeOut(c))
                        /\ WF_vars(WriteFails(c))

FairSpec == Spec /\ Fairness
-----------------------------------------------------------------------------
(* Properties.                                                             *)

\* Every variable keeps its type.
TypeOK ==
    /\ pc \in [Commands -> {"idle", "turn", "check", "write", "reply", "done"}]
    /\ on \in [Commands -> Conns \cup {NoConn}]
    /\ got \in [Commands -> {None, Down, Unknown} \cup {ReplyTo(c) : c \in Commands}]
    /\ inbox \in [Commands -> {None, Failed} \cup {ReplyTo(c) : c \in Commands}]
    /\ turn \in [Conns -> Commands \cup {NoOne}]
    /\ pending \in [Conns -> Seq(Commands)] /\ out \in [Conns -> Seq(Commands)]
    /\ in \in [Conns -> Seq({ReplyTo(c) : c \in Commands} \cup {EventNo(e) : e \in 1..MaxEvents})]
    /\ closed \in [Conns -> BOOLEAN] /\ broken \in [Conns -> BOOLEAN]
    /\ loop \in [Conns -> {"reading", "ending", "over"}]
    /\ client \in Conns \cup {NoConn} /\ made \in 0..MaxConns
    /\ phase \in {"dialing", "hooks", "pump"}
    /\ ran \subseteq Commands

\* What a caller knows, in the words of the abstract specification; the answer
\* to somebody else's command is none of them.
OutcomeOf(c) ==
    CASE pc[c] = "idle" -> "idle"
      [] pc[c] \in {"turn", "check", "write", "reply"} -> "waiting"
      [] pc[c] = "done" /\ got[c] = Down -> "down"
      [] pc[c] = "done" /\ got[c] = Unknown -> "unknown"
      [] pc[c] = "done" /\ got[c] = ReplyTo(c) -> "replied"
      [] OTHER -> "mixed up"

Command == INSTANCE EslCommand WITH outcome <- [c \in Commands |-> OutcomeOf(c)]

\* The socket keeps the promise of a command, whatever times out, closes or
\* breaks: an answer is to the caller's own command, ErrDown means the switch
\* does not run it, and no command is run twice (Client.command).
Refines == Command!Spec

\* A caller returns within its deadlines, also from a switch that has stopped
\* reading and answering: "No caller waits longer than the command timeout,
\* whatever the switch does" (Client.command).
CallerReturns == \A c \in Commands : pc[c] # "idle" ~> pc[c] = "done"

Stream == IF client = NoConn THEN seen \o linkEvents
          ELSE seen \o linkEvents \o clientEvents[client]

\* The consumer sees events in the order the switch emitted them, across
\* connections and full channels, and the newest one read is never the one that
\* is dropped (Client.readLoop, Link.pump).
NewestIsKept ==
    /\ \A i, j \in 1..Len(Stream) : i < j => Stream[i] < Stream[j]
    /\ newest > 0 => Stream # <<>> /\ Stream[Len(Stream)] = newest
=============================================================================
