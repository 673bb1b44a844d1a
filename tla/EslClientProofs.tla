-------------------------- MODULE EslClientProofs ---------------------------
(***************************************************************************)
(* The event socket for every set of commands, every number of connections *)
(* and events and every capacity of the event channels: it implements      *)
(* EslCommand (Refines) and the newest event is kept (NewestIsKept).       *)
(*                                                                         *)
(* A reply names no command, so what must be shown is that the head of the *)
(* waiters is the command of the head of the replies. Replies and events   *)
(* share a connection: the invariant says so without counting, by the      *)
(* order of the waiters (Ordered) and by none being passed over (Gapless). *)
(***************************************************************************)
EXTENDS EslClient, SequenceTheorems, TLAPS

-----------------------------------------------------------------------------
(* The inductive invariant of the commands.                                *)

Occurs(q, x) == \E i \in 1..Len(q) : q[i] = x
Precedes(q, x, y) == \E i, j \in 1..Len(q) : i < j /\ q[i] = x /\ q[j] = y

Answered(n, c) == Occurs(in[n], ReplyTo(c))
Sent(n, c) == Occurs(out[n], c)
Waits(n, c) == Occurs(pending[n], c)

\* A caller is on a connection once it waits, and what it was given is its own.
CallerOk(c) ==
    /\ pc[c] \in {"turn", "check", "write", "reply"} => on[c] \in Conns
    /\ pc[c] = "idle" => on[c] = NoConn
    /\ on[c] <= made
    /\ pc[c] = "done" <=> got[c] # None
    /\ got[c] \in {None, Down, Unknown, ReplyTo(c)}
    /\ inbox[c] \in {None, Failed, ReplyTo(c)}
    /\ inbox[c] = ReplyTo(c) => c \in ran
    /\ got[c] = ReplyTo(c) => c \in ran
    /\ c \in ran => pc[c] \in {"reply", "done"} /\ got[c] # Down

CallerInv == \A c \in Commands : CallerOk(c)

\* The turn of a connection is with the one caller that is writing on it.
TurnInv ==
    /\ \A n \in Conns, c \in Commands :
           turn[n] = c => pc[c] \in {"check", "write"} /\ on[c] = n
    /\ \A c \in Commands : pc[c] \in {"check", "write"} => turn[on[c]] = c

\* A command on its way has not run, and its caller was not told that it will
\* not be; it is on one connection, once.
OutOk(n) ==
    \A c \in Commands : Sent(n, c) =>
        /\ on[c] = n /\ c \notin ran /\ ~Precedes(out[n], c, c)
        /\ pc[c] \in {"reply", "done"} /\ got[c] \notin {Down, ReplyTo(c)}

\* A reply is to a command that ran, once.
InOk(n) ==
    \A c \in Commands : Answered(n, c) =>
        on[c] = n /\ c \in ran /\ ~Precedes(in[n], ReplyTo(c), ReplyTo(c))

\* A waiter is queued on its own connection, once.
WaiterOk(n) ==
    \A c \in Commands : Waits(n, c) =>
        on[c] = n /\ pc[c] \in {"write", "reply", "done"} /\ ~Precedes(pending[n], c, c)

OutInv == \A n \in Conns : OutOk(n)
InInv == \A n \in Conns : InOk(n)
WaiterInv == \A n \in Conns : WaiterOk(n)

\* Every reply to come has its waiter, while the loop reads.
HasWaiter(n) ==
    \A c \in Commands : Answered(n, c) \/ (~broken[n] /\ Sent(n, c)) => Waits(n, c)

\* Waiters stand in the order in which their replies will come.
Ordered(n) ==
    \A c, d \in Commands :
        \/ Precedes(in[n], ReplyTo(c), ReplyTo(d))
        \/ ~broken[n] /\ Precedes(out[n], c, d)
        \/ ~broken[n] /\ Answered(n, c) /\ Sent(n, d)
        => Precedes(pending[n], c, d)

\* No waiter stands before one whose reply comes unless its own comes too.
Gapless(n) ==
    \A c, d \in Commands :
        Precedes(pending[n], c, d) =>
            /\ Answered(n, d) => Answered(n, c)
            /\ ~broken[n] /\ Sent(n, d) => Answered(n, c) \/ Sent(n, c)

\* Only the one that writes is not on its way, and it is the last.
WriterLast(n) ==
    /\ \A c \in Commands : pc[c] = "write" /\ on[c] = n =>
           Waits(n, c) /\ \A d \in Commands \ {c} : Waits(n, d) => Precedes(pending[n], d, c)
    /\ ~broken[n] /\ ~closed[n] =>
           \A c \in Commands : Waits(n, c) => pc[c] = "write" \/ Answered(n, c) \/ Sent(n, c)

Aligned(n) ==
    loop[n] = "reading" => HasWaiter(n) /\ Ordered(n) /\ Gapless(n) /\ WriterLast(n)

AlignInv == \A n \in Conns : Aligned(n)

LinkInv ==
    /\ client \in {NoConn, made}
    /\ client = NoConn <=> phase = "dialing"
    /\ \A n \in Conns : n > made =>
           out[n] = <<>> /\ in[n] = <<>> /\ pending[n] = <<>> /\ clientEvents[n] = <<>>
           /\ loop[n] = "reading"
    /\ \A n \in Conns : n <= made /\ n # client => loop[n] = "over"

-----------------------------------------------------------------------------
(* The inductive invariant of the events.                                  *)

Feed == IF client = NoConn THEN <<>> ELSE clientEvents[client]

Rising(s) == \A x, y \in Nat : Precedes(s, x, y) => x < y
Before(s, t) == \A x, y \in Nat : Occurs(s, x) /\ Occurs(t, y) => x < y
UpTo(s, e) == \A x \in Nat : Occurs(s, x) => x <= e

EventType ==
    /\ clientEvents \in [Conns -> Seq(Nat)] /\ linkEvents \in Seq(Nat) /\ seen \in Seq(Nat)
    /\ emitted \in Nat /\ newest \in Nat

\* What is still to be read comes after everything that has been.
Unread ==
    /\ newest <= emitted
    /\ client # NoConn =>
           \A e \in Nat : Occurs(in[client], EventNo(e)) =>
               /\ newest < e /\ e <= emitted
               /\ \A f \in Nat : Precedes(in[client], EventNo(e), EventNo(f)) => e < f

\* The three channels in a row rise, and the last that holds any holds the newest.
StreamInv ==
    /\ Rising(seen) /\ Rising(linkEvents) /\ Rising(Feed)
    /\ Before(seen, linkEvents) /\ Before(seen, Feed) /\ Before(linkEvents, Feed)
    /\ UpTo(seen, newest) /\ UpTo(linkEvents, newest) /\ UpTo(Feed, newest)
    /\ Feed # <<>> => Occurs(Feed, newest)
    /\ Feed = <<>> /\ linkEvents # <<>> => Occurs(linkEvents, newest)
    /\ Feed = <<>> /\ linkEvents = <<>> /\ newest > 0 => Occurs(seen, newest)

-----------------------------------------------------------------------------
(* Messages, and what a step of a sequence does to its elements.           *)

Replies == {ReplyTo(c) : c \in Commands}
Message == Replies \cup {EventNo(e) : e \in 1..MaxEvents}

\* A reply names one command, and is no event and none of the outcomes a client
\* makes up itself.
LEMMA Messages ==
    /\ \A c, d \in Commands : ReplyTo(c) = ReplyTo(d) => c = d
    /\ \A c \in Commands : ReplyTo(c) \notin {None, Failed, Down, Unknown}
    /\ None \notin {Failed, Down, Unknown} /\ Down # Unknown /\ Failed # Unknown
    /\ \A c \in Commands : ReplyTo(c).kind = "reply"
    /\ \A e \in Nat : EventNo(e).kind = "event" /\ EventNo(e).no = e
    /\ \A e \in Nat, c \in Commands : EventNo(e) # ReplyTo(c)
    /\ \A m \in Message : /\ m.kind = "reply" => m \in Replies
                          /\ m.kind = "event" => m.no \in Nat
<1>1. \A c, d \in Commands : ReplyTo(c) = ReplyTo(d) => c = d
  <2> TAKE c, d \in Commands
  <2> HAVE ReplyTo(c) = ReplyTo(d)
  <2>1. ReplyTo(c).to = c /\ ReplyTo(d).to = d
    BY DEF ReplyTo
  <2> QED BY <2>1
<1>2. \A c \in Commands : ReplyTo(c).kind = "reply"
  BY DEF ReplyTo
<1>3. \A e \in Nat : EventNo(e).kind = "event" /\ EventNo(e).no = e
  BY DEF EventNo
<1>4. None.kind = "none" /\ Failed.kind = "failed" /\ Down.kind = "down"
      /\ Unknown.kind = "unknown"
  BY DEF None, Failed, Down, Unknown
<1>5. \A m \in Message : /\ m.kind = "reply" => m \in Replies
                         /\ m.kind = "event" => m.no \in Nat
  BY <1>2, <1>3, EslAssumption DEF Message, Replies, EslAssumption
<1> QED BY <1>1, <1>2, <1>3, <1>4, <1>5

\* TypeOK with the messages named, in the form in which the steps use it.
TypedCallers ==
    /\ pc \in [Commands -> {"idle", "turn", "check", "write", "reply", "done"}]
    /\ on \in [Commands -> 0..MaxConns]
    /\ got \in [Commands -> {None, Down, Unknown} \cup Replies]
    /\ inbox \in [Commands -> {None, Failed} \cup Replies]

TypedConns ==
    /\ turn \in [Conns -> Commands \cup {NoOne}]
    /\ pending \in [Conns -> Seq(Commands)] /\ out \in [Conns -> Seq(Commands)]
    /\ in \in [Conns -> Seq(Message)]
    /\ closed \in [Conns -> BOOLEAN] /\ broken \in [Conns -> BOOLEAN]
    /\ loop \in [Conns -> {"reading", "ending", "over"}]

TypedLink ==
    /\ client \in 0..MaxConns /\ made \in 0..MaxConns
    /\ phase \in {"dialing", "hooks", "pump"}
    /\ ran \subseteq Commands

Typed == TypedCallers /\ TypedConns /\ TypedLink

\* The constants, and what the connections are numbered by.
LEMMA ConnsAre == /\ Conns = 1..MaxConns /\ NoConn = 0 /\ MaxConns \in Nat
                  /\ Conns \cup {NoConn} = 0..MaxConns /\ NoOne \notin Commands
                  /\ EventCap \in Nat \ {0} /\ MaxEvents \in Nat
  BY EslAssumption DEF EslAssumption, Conns, NoConn

\* The type invariant, with the variables grouped by their owner.
LEMMA TypedIs == TypeOK <=> Typed
  BY ConnsAre DEF TypeOK, Typed, TypedCallers, TypedConns, TypedLink, Replies, Message

\* What a queue is, element by element, and what its steps leave of it.
QueueFacts(S, q) ==
    /\ Len(q) \in Nat
    /\ \A i \in 1..Len(q) : q[i] \in S
    /\ \A x \in S : /\ Append(q, x) \in Seq(S) /\ Len(Append(q, x)) = Len(q) + 1
                    /\ \A i \in 1..Len(q) : Append(q, x)[i] = q[i]
                    /\ Append(q, x)[Len(q) + 1] = x
    /\ q = <<>> <=> Len(q) = 0
    /\ q # <<>> => /\ Head(q) = q[1] /\ Head(q) \in S /\ Tail(q) \in Seq(S)
                   /\ Len(Tail(q)) = Len(q) - 1
                   /\ \A i \in 1..Len(q) - 1 : Tail(q)[i] = q[i + 1]
    /\ \A k \in 0..Len(q) : /\ SubSeq(q, 1, k) \in Seq(S) /\ Len(SubSeq(q, 1, k)) = k
                            /\ \A i \in 1..k : SubSeq(q, 1, k)[i] = q[i]

\* Every sequence is such a queue: the facts of the library in one place.
LEMMA QueueStep ==
    ASSUME NEW S, NEW q \in Seq(S)
    PROVE  QueueFacts(S, q)
<1>1. Len(q) \in Nat /\ \A i \in 1..Len(q) : q[i] \in S
  BY LenProperties, ElementOfSeq
<1>2. \A x \in S : /\ Append(q, x) \in Seq(S) /\ Len(Append(q, x)) = Len(q) + 1
                   /\ \A i \in 1..Len(q) : Append(q, x)[i] = q[i]
                   /\ Append(q, x)[Len(q) + 1] = x
  BY AppendProperties
<1>3. q = <<>> <=> Len(q) = 0
  BY EmptySeq
<1>4. ASSUME q # <<>>
      PROVE  /\ Head(q) = q[1] /\ Head(q) \in S /\ Tail(q) \in Seq(S)
             /\ Len(Tail(q)) = Len(q) - 1
             /\ \A i \in 1..Len(q) - 1 : Tail(q)[i] = q[i + 1]
  BY <1>4, HeadTailProperties
<1>5. ASSUME NEW k \in 0..Len(q)
      PROVE  /\ SubSeq(q, 1, k) \in Seq(S) /\ Len(SubSeq(q, 1, k)) = k
             /\ \A i \in 1..k : SubSeq(q, 1, k)[i] = q[i]
  BY <1>1, SubSeqProperties
<1> QED BY <1>1, <1>2, <1>3, <1>4, <1>5 DEF QueueFacts

\* The waiters, the commands written and the replies of a connection are queues.
LEMMA Queues ==
    ASSUME Typed, NEW n \in Conns
    PROVE  /\ QueueFacts(Commands, pending[n]) /\ pending[n] \in Seq(Commands)
           /\ QueueFacts(Commands, out[n]) /\ out[n] \in Seq(Commands)
           /\ QueueFacts(Message, in[n]) /\ in[n] \in Seq(Message)
<1>1. pending[n] \in Seq(Commands) /\ out[n] \in Seq(Commands) /\ in[n] \in Seq(Message)
  BY DEF Typed, TypedConns
<1> QED BY <1>1, QueueStep

\* How an element joins a queue and leaves it.
LEMMA OrderAppend ==
    ASSUME NEW S, NEW q \in Seq(S), NEW x \in S
    PROVE  /\ \A y : Occurs(Append(q, x), y) <=> Occurs(q, y) \/ y = x
           /\ \A y, z : Precedes(Append(q, x), y, z) <=>
                            Precedes(q, y, z) \/ (Occurs(q, y) /\ z = x)
<1>1. /\ Len(q) \in Nat /\ Len(Append(q, x)) = Len(q) + 1
      /\ \A i \in 1..Len(q) : Append(q, x)[i] = q[i]
      /\ Append(q, x)[Len(q) + 1] = x
  BY QueueStep DEF QueueFacts
<1> DEFINE r == Append(q, x)
           l == Len(q)
<1>2. /\ l \in Nat /\ Len(r) = l + 1 /\ r[l + 1] = x
      /\ \A i \in 1..l : r[i] = q[i]
      /\ \A i \in 1..Len(r) : i \in 1..l \/ i = l + 1
      /\ \A i \in 1..l : i \in 1..Len(r) /\ i < l + 1
      /\ l + 1 \in 1..Len(r)
  BY <1>1
<1> HIDE DEF r, l
<1>3. \A y : Occurs(r, y) <=> Occurs(q, y) \/ y = x
  BY <1>2 DEF Occurs, l
<1>4. ASSUME NEW y, NEW z, Precedes(r, y, z)
      PROVE  Precedes(q, y, z) \/ (Occurs(q, y) /\ z = x)
  <2>1. PICK i, j \in 1..Len(r) : i < j /\ r[i] = y /\ r[j] = z
    BY <1>4 DEF Precedes
  <2>2. i \in 1..l
    BY <1>2, <2>1
  <2>3. CASE j \in 1..l
    BY <1>2, <2>1, <2>2, <2>3 DEF Precedes, l
  <2>4. CASE j = l + 1
    BY <1>2, <2>1, <2>2, <2>4 DEF Occurs, l
  <2> QED BY <1>2, <2>3, <2>4
<1>5. ASSUME NEW y, NEW z, Precedes(q, y, z) PROVE Precedes(r, y, z)
  <2>1. PICK i, j \in 1..l : i < j /\ q[i] = y /\ q[j] = z
    BY <1>5 DEF Precedes, l
  <2> QED BY <1>2, <2>1 DEF Precedes
<1>6. ASSUME NEW y, Occurs(q, y) PROVE Precedes(r, y, x)
  <2>1. PICK i \in 1..l : q[i] = y
    BY <1>6 DEF Occurs, l
  <2> QED BY <1>2, <2>1 DEF Precedes
<1> QED BY <1>3, <1>4, <1>5, <1>6 DEF r

\* Taking the head off a queue takes it from in front of all the others.
LEMMA OrderTail ==
    ASSUME NEW S, NEW q \in Seq(S), q # <<>>
    PROVE  /\ \A y : Occurs(q, y) <=> y = Head(q) \/ Occurs(Tail(q), y)
           /\ \A y, z : Precedes(q, y, z) <=>
                            Precedes(Tail(q), y, z) \/ (y = Head(q) /\ Occurs(Tail(q), z))
<1> DEFINE r == Tail(q)
           l == Len(q)
<1>1. /\ l \in Nat \ {0} /\ Head(q) = q[1] /\ Len(r) = l - 1
      /\ \A i \in 1..l - 1 : r[i] = q[i + 1]
  BY QueueStep DEF QueueFacts
<1>2. /\ l \in Nat \ {0} /\ Head(q) = q[1] /\ 1 \in 1..l /\ Len(r) \in Nat
      /\ \A i \in 1..Len(r) : r[i] = q[i + 1] /\ i + 1 \in 1..l /\ 1 < i + 1
      /\ \A i \in 1..l : i = 1 \/ (i - 1 \in 1..Len(r) /\ q[i] = r[i - 1])
  <2>1. \A i \in 1..l : i = 1 \/ (i - 1 \in 1..l - 1 /\ (i - 1) + 1 = i)
    BY <1>1
  <2>2. \A i \in 1..l : i = 1 \/ (i - 1 \in 1..Len(r) /\ q[i] = r[i - 1])
    BY <1>1, <2>1
  <2> QED BY <1>1, <2>2
<1> HIDE DEF r, l
<1>3. \A y : Occurs(q, y) <=> y = Head(q) \/ Occurs(r, y)
  <2>1. ASSUME NEW y, Occurs(q, y) PROVE y = Head(q) \/ Occurs(r, y)
    <3>1. PICK i \in 1..l : q[i] = y
      BY <2>1 DEF Occurs, l
    <3> QED BY <1>2, <3>1 DEF Occurs
  <2>2. ASSUME NEW y, Occurs(r, y) PROVE Occurs(q, y)
    <3>1. PICK i \in 1..Len(r) : r[i] = y
      BY <2>2 DEF Occurs
    <3> QED BY <1>2, <3>1 DEF Occurs, l
  <2>3. Occurs(q, Head(q))
    BY <1>2 DEF Occurs, l
  <2> QED BY <2>1, <2>2, <2>3
<1>4. ASSUME NEW y, NEW z, Precedes(q, y, z)
      PROVE  Precedes(r, y, z) \/ (y = Head(q) /\ Occurs(r, z))
  <2>1. PICK i, j \in 1..l : i < j /\ q[i] = y /\ q[j] = z
    BY <1>4 DEF Precedes, l
  <2>2. j - 1 \in 1..Len(r) /\ r[j - 1] = z
    BY <1>2, <2>1
  <2>3. CASE i = 1
    BY <1>2, <2>1, <2>2, <2>3 DEF Occurs
  <2>4. CASE i # 1
    <3>1. i - 1 \in 1..Len(r) /\ r[i - 1] = y /\ i - 1 < j - 1
      BY <1>2, <2>1, <2>4
    <3> QED BY <2>2, <3>1 DEF Precedes
  <2> QED BY <2>3, <2>4
<1>5. ASSUME NEW y, NEW z, Precedes(r, y, z) PROVE Precedes(q, y, z)
  <2>1. PICK i, j \in 1..Len(r) : i < j /\ r[i] = y /\ r[j] = z
    BY <1>5 DEF Precedes
  <2>2. i + 1 \in 1..l /\ j + 1 \in 1..l /\ i + 1 < j + 1 /\ q[i + 1] = y /\ q[j + 1] = z
    BY <1>2, <2>1
  <2> QED BY <2>2 DEF Precedes, l
<1>6. ASSUME NEW z, Occurs(r, z) PROVE Precedes(q, Head(q), z)
  <2>1. PICK i \in 1..Len(r) : r[i] = z
    BY <1>6 DEF Occurs
  <2> QED BY <1>2, <2>1 DEF Precedes, l
<1> QED BY <1>3, <1>4, <1>5, <1>6 DEF r

\* A prefix keeps the order, and holds whatever stood before what it holds.
LEMMA OrderPrefix ==
    ASSUME NEW S, NEW q \in Seq(S), NEW k \in 0..Len(q)
    PROVE  /\ \A y : Occurs(SubSeq(q, 1, k), y) => Occurs(q, y)
           /\ \A y, z : Precedes(SubSeq(q, 1, k), y, z) => Precedes(q, y, z)
           /\ \A y, z : /\ Occurs(SubSeq(q, 1, k), z) /\ Precedes(q, y, z) /\ ~Precedes(q, z, z)
                        => Occurs(SubSeq(q, 1, k), y)
<1> DEFINE r == SubSeq(q, 1, k)
           l == Len(q)
<1>1. /\ l \in Nat /\ Len(r) = k /\ k \in 0..l
      /\ \A i \in 1..k : r[i] = q[i] /\ i \in 1..l
  BY QueueStep DEF QueueFacts
<1> HIDE DEF r, l
<1>2. \A y : Occurs(r, y) => Occurs(q, y)
  BY <1>1 DEF Occurs, l
<1>3. \A y, z : Precedes(r, y, z) => Precedes(q, y, z)
  BY <1>1 DEF Precedes, l
<1>4. ASSUME NEW y, NEW z, Occurs(r, z), Precedes(q, y, z), ~Precedes(q, z, z)
      PROVE  Occurs(r, y)
  <2>1. PICK a \in 1..k : q[a] = z
    BY <1>1, <1>4 DEF Occurs
  <2>2. PICK i, j \in 1..l : i < j /\ q[i] = y /\ q[j] = z
    BY <1>4 DEF Precedes, l
  <2>3. ~(a < j) /\ ~(j < a)
    BY <1>1, <1>4, <2>1, <2>2 DEF Precedes, l
  <2>4. i \in 1..k /\ r[i] = y
    BY <1>1, <2>1, <2>2, <2>3
  <2> QED BY <1>1, <2>4 DEF Occurs
<1> QED BY <1>2, <1>3, <1>4 DEF r

\* Of two elements one comes first, and only one if neither is there twice.
LEMMA OrderTotal ==
    ASSUME NEW S, NEW q \in Seq(S)
    PROVE  /\ \A y, z : Occurs(q, y) /\ Occurs(q, z) /\ y # z =>
                             Precedes(q, y, z) \/ Precedes(q, z, y)
           /\ \A y, z : Precedes(q, y, z) /\ Precedes(q, z, y) =>
                             Precedes(q, y, y) \/ Precedes(q, z, z)
           /\ \A y, z : Precedes(q, y, z) => Occurs(q, y) /\ Occurs(q, z)
<1>0. Len(q) \in Nat
  BY QueueStep DEF QueueFacts
<1>1. ASSUME NEW y, NEW z, Occurs(q, y), Occurs(q, z), y # z
      PROVE  Precedes(q, y, z) \/ Precedes(q, z, y)
  <2>1. PICK i \in 1..Len(q) : q[i] = y
    BY <1>1 DEF Occurs
  <2>2. PICK j \in 1..Len(q) : q[j] = z
    BY <1>1 DEF Occurs
  <2>3. i < j \/ j < i
    BY <1>0, <1>1, <2>1, <2>2
  <2> QED BY <2>1, <2>2, <2>3 DEF Precedes
<1>2. ASSUME NEW y, NEW z, Precedes(q, y, z), Precedes(q, z, y)
      PROVE  Precedes(q, y, y) \/ Precedes(q, z, z)
  <2>1. PICK i, j \in 1..Len(q) : i < j /\ q[i] = y /\ q[j] = z
    BY <1>2 DEF Precedes
  <2>2. PICK a, b \in 1..Len(q) : a < b /\ q[a] = z /\ q[b] = y
    BY <1>2 DEF Precedes
  <2>3. i < b \/ a < j
    BY <1>0, <2>1, <2>2
  <2> QED BY <2>1, <2>2, <2>3 DEF Precedes
<1>3. \A y, z : Precedes(q, y, z) => Occurs(q, y) /\ Occurs(q, z)
  BY DEF Precedes, Occurs
<1> QED BY <1>1, <1>2, <1>3

\* What is ordered is there, whatever the queue holds.
LEMMA OrderOccurs == \A q, y, z : Precedes(q, y, z) => Occurs(q, y) /\ Occurs(q, z)
  BY DEF Precedes, Occurs

\* An empty queue orders nothing.
LEMMA OrderEmpty == \A y, z : ~Occurs(<<>>, y) /\ ~Precedes(<<>>, y, z)
<1>1. Len(<<>>) = 0
  BY EmptySeq
<1> QED BY <1>1 DEF Occurs, Precedes

-----------------------------------------------------------------------------
(* Every variable keeps its type, and the link holds the connection it     *)
(* made last or none.                                                      *)

\* The shape of the state: types, the link and where callers are.
Shape == Typed /\ EventType /\ LinkInv /\ CallerInv

\* The inductive invariant of the commands.
IInv == Shape /\ TurnInv /\ OutInv /\ InInv /\ WaiterInv /\ AlignInv

\* The event channels stay sequences of event numbers: push only drops from the
\* front and appends.
LEMMA EventTypeStep ==
    ASSUME Shape, [Next]_vars
    PROVE  EventType'
<1>a. Typed /\ EventType /\ client \in 0..MaxConns /\ (phase # "dialing" => client \in Conns)
  BY ConnsAre DEF Shape, LinkInv, Typed, TypedLink
<1>b. ASSUME NEW q \in Seq(Nat), NEW e \in Nat PROVE Push(q, e) \in Seq(Nat)
  <2>1. QueueFacts(Nat, q)
    BY QueueStep
  <2>2. CASE Len(q) < EventCap
    BY <2>1, <2>2 DEF Push, QueueFacts
  <2>3. CASE ~(Len(q) < EventCap)
    <3>1. q # <<>> /\ Tail(q) \in Seq(Nat)
      BY <2>1, <2>3, ConnsAre DEF QueueFacts
    <3>2. QueueFacts(Nat, Tail(q))
      BY <3>1, QueueStep
    <3> QED BY <2>3, <3>2 DEF Push, QueueFacts
  <2> QED BY <2>2, <2>3
<1>1. ASSUME NEW n \in Conns, ReadEvent(n) PROVE EventType'
  <2>1. in[n] # <<>> /\ Head(in[n]).kind = "event"
    BY <1>1 DEF ReadEvent, IsRead
  <2>2. Head(in[n]).no \in Nat
    BY <1>a, <2>1, Queues, Messages DEF QueueFacts
  <2>3. Push(clientEvents[n], Head(in[n]).no) \in Seq(Nat)
    BY <1>a, <1>b, <2>2 DEF EventType
  <2> QED BY <1>1, <1>a, <2>2, <2>3 DEF ReadEvent, EventType, linkVars
<1>2. ASSUME Pump PROVE EventType'
  <2>1. client \in Conns /\ clientEvents[client] \in Seq(Nat) /\ clientEvents[client] # <<>>
    BY <1>2, <1>a DEF Pump, EventType
  <2>2. Head(clientEvents[client]) \in Nat /\ Tail(clientEvents[client]) \in Seq(Nat)
    BY <2>1, QueueStep DEF QueueFacts
  <2>3. Push(linkEvents, Head(clientEvents[client])) \in Seq(Nat)
    BY <1>a, <1>b, <2>2 DEF EventType
  <2> QED BY <1>2, <1>a, <2>1, <2>2, <2>3 DEF Pump, EventType, streamVars
<1>3. ASSUME Consume PROVE EventType'
  <2>1. Head(linkEvents) \in Nat /\ Tail(linkEvents) \in Seq(Nat)
    BY <1>3, <1>a, QueueStep DEF Consume, EventType, QueueFacts
  <2>2. Append(seen, Head(linkEvents)) \in Seq(Nat)
    BY <1>a, <2>1, QueueStep DEF EventType, QueueFacts
  <2> QED BY <1>3, <1>a, <2>1, <2>2 DEF Consume, EventType, clientVars
<1>4. ASSUME Emit PROVE EventType'
  BY <1>4, <1>a DEF Emit, EventType, clientVars, linkVars
<1>5. ASSUME UNCHANGED <<clientEvents, linkEvents, streamVars>> PROVE EventType'
  BY <1>5, <1>a DEF EventType, streamVars
<1>6. ASSUME NEW c \in Commands, CallerStep(c)
      PROVE  UNCHANGED <<clientEvents, linkEvents, streamVars>>
  BY <1>6 DEF CallerStep, Issue, TakeTurn, NoTurn, Register, Written, WriteFails, TakeReply,
         TimeOut, SeesClosed, clientVars, linkVars
<1>7. ASSUME NEW n \in Conns, ReadReply(n) \/ ReadFails(n) \/ LoopEnds(n) \/ SwitchRuns(n) \/ Break(n)
      PROVE  UNCHANGED <<clientEvents, linkEvents, streamVars>>
  BY <1>7 DEF ReadReply, ReadFails, LoopEnds, SwitchRuns, Break, clientVars, linkVars
<1>8. ASSUME Connect \/ HooksRun \/ Lost \/ UNCHANGED vars
      PROVE  UNCHANGED <<clientEvents, linkEvents, streamVars>>
  BY <1>8 DEF Connect, HooksRun, Lost, vars, clientVars, linkVars
<1> QED BY <1>1, <1>2, <1>3, <1>4, <1>5, <1>6, <1>7, <1>8 DEF Next

\* The callers, the connections and the link keep their types.
LEMMA TypedStep ==
    ASSUME Shape, [Next]_vars
    PROVE  Typed'
<1> USE ConnsAre
<1>a. Typed /\ emitted \in Nat /\ (phase # "dialing" => client \in Conns)
  BY DEF Shape, EventType, LinkInv, Typed, TypedCallers, TypedConns, TypedLink
<1>b. \A c \in Commands : pc[c] \in {"turn", "check", "write", "reply"} => on[c] \in Conns
  BY DEF Shape, CallerInv, CallerOk
<1>1. ASSUME NEW c \in Commands, Issue(c) PROVE Typed'
  BY <1>1, <1>a DEF Issue, Return, Typed, TypedCallers, TypedConns, TypedLink, callerVars,
       clientVars, wireVars, linkVars, streamVars
<1>2. ASSUME NEW c \in Commands, TakeTurn(c) PROVE Typed'
  BY <1>2, <1>a, <1>b DEF TakeTurn, Typed, TypedCallers, TypedConns, TypedLink, callerVars,
       clientVars, wireVars, linkVars, streamVars
<1>3. ASSUME NEW c \in Commands, NoTurn(c) PROVE Typed'
  BY <1>3, <1>a DEF NoTurn, Return, Typed, TypedCallers, TypedConns, TypedLink, callerVars,
       clientVars, wireVars, linkVars, streamVars
<1>4. ASSUME NEW c \in Commands, Register(c) PROVE Typed'
  <2>1. on[c] \in Conns
    BY <1>4, <1>b DEF Register
  <2>2. Append(pending[on[c]], c) \in Seq(Commands)
    BY <1>a, <2>1, Queues DEF QueueFacts
  <2>7. TypedCallers'
    BY <1>4, <1>a, <2>1, <2>2 DEF Register, Return, Typed, TypedCallers, clientVars, wireVars,
         linkVars
  <2>3. ASSUME closed[on[c]] PROVE TypedConns'
    BY <1>4, <1>a, <2>1, <2>3 DEF Register, Typed, TypedConns, clientVars, wireVars
  <2>4. ASSUME ~closed[on[c]] PROVE TypedConns'
    <3>1. pending' = [pending EXCEPT ![on[c]] = Append(pending[on[c]], c)]
      BY <1>4, <2>4 DEF Register
    <3>2. pending' \in [Conns -> Seq(Commands)]
      BY <1>a, <2>2, <3>1 DEF Typed, TypedConns
    <3>3. UNCHANGED <<turn, closed, loop, out, in, broken>>
      BY <1>4, <2>4 DEF Register, wireVars
    <3> QED BY <1>a, <3>2, <3>3 DEF Typed, TypedConns
  <2>8. TypedConns'
    BY <2>3, <2>4
  <2>9. TypedLink'
    BY <1>4, <1>a, <2>1, <2>2 DEF Register, Return, Typed, TypedLink, clientVars, wireVars,
         linkVars
  <2> QED BY <2>7, <2>8, <2>9 DEF Typed
<1>5. ASSUME NEW c \in Commands, Written(c) PROVE Typed'
  <2>1. on[c] \in Conns
    BY <1>5, <1>b DEF Written
  <2>2. Append(out[on[c]], c) \in Seq(Commands)
    BY <1>a, <2>1, Queues DEF QueueFacts
  <2>7. TypedCallers'
    BY <1>5, <1>a, <2>1, <2>2 DEF Written, Typed, TypedCallers, clientVars, wireVars, linkVars
  <2>8. TypedConns'
    BY <1>5, <1>a, <2>1, <2>2 DEF Written, Typed, TypedConns, clientVars, wireVars, linkVars
  <2>9. TypedLink'
    BY <1>5, <1>a, <2>1, <2>2 DEF Written, Typed, TypedLink, clientVars, wireVars, linkVars
  <2> QED BY <2>7, <2>8, <2>9 DEF Typed
<1>6. ASSUME NEW c \in Commands, WriteFails(c) PROVE Typed'
  <2>1. on[c] \in Conns
    BY <1>6, <1>b DEF WriteFails
  <2>2. Append(out[on[c]], c) \in Seq(Commands)
    BY <1>a, <2>1, Queues DEF QueueFacts
  <2>7. TypedCallers'
    BY <1>6, <1>a, <2>1, <2>2 DEF WriteFails, Return, Typed, TypedCallers, clientVars, wireVars,
         linkVars
  <2>3. out' \in [Conns -> Seq(Commands)]
    <3>1. \/ out' = out
          \/ out' = [out EXCEPT ![on[c]] = Append(out[on[c]], c)]
          \/ out' = [out EXCEPT ![on[c]] = out[on[c]]]
      BY <1>6 DEF WriteFails
    <3> QED BY <1>a, <2>1, <2>2, <3>1 DEF Typed, TypedConns
  <2>8. TypedConns'
    BY <1>6, <1>a, <2>1, <2>3 DEF WriteFails, Typed, TypedConns, clientVars, wireVars
  <2>9. TypedLink'
    BY <1>6, <1>a, <2>1, <2>2 DEF WriteFails, Return, Typed, TypedLink, clientVars, wireVars,
         linkVars
  <2> QED BY <2>7, <2>8, <2>9 DEF Typed
<1>7. ASSUME NEW c \in Commands, TakeReply(c) PROVE Typed'
  BY <1>7, <1>a DEF TakeReply, Return, Typed, TypedCallers, TypedConns, TypedLink, callerVars,
       clientVars, wireVars, linkVars, streamVars
<1>8. ASSUME NEW c \in Commands, TimeOut(c) PROVE Typed'
  BY <1>8, <1>a DEF TimeOut, Return, Typed, TypedCallers, TypedConns, TypedLink, callerVars,
       clientVars, wireVars, linkVars, streamVars
<1>9. ASSUME NEW c \in Commands, SeesClosed(c) PROVE Typed'
  BY <1>9, <1>a DEF SeesClosed, Return, Typed, TypedCallers, TypedConns, TypedLink, callerVars,
       clientVars, wireVars, linkVars, streamVars
<1>10. ASSUME NEW n \in Conns, ReadReply(n) PROVE Typed'
  <2>1. in[n] # <<>> /\ Head(in[n]).kind = "reply"
    BY <1>10 DEF ReadReply, IsRead
  <2>2. Tail(in[n]) \in Seq(Message) /\ Head(in[n]) \in Replies
    BY <1>a, <2>1, Queues, Messages DEF QueueFacts
  <2>3. pending[n] # <<>> => Head(pending[n]) \in Commands /\ Tail(pending[n]) \in Seq(Commands)
    BY <1>a, Queues DEF QueueFacts
  <2>4. inbox' \in [Commands -> {None, Failed} \cup Replies]
    BY <1>10, <1>a, <2>2, <2>3 DEF ReadReply, Typed, TypedCallers
  <2>5. UNCHANGED <<pc, on, got>>
    BY <1>10 DEF ReadReply, callerVars
  <2>7. TypedCallers'
    BY <1>a, <2>4, <2>5 DEF Typed, TypedCallers
  <2>8. TypedConns'
    BY <1>10, <1>a, <2>2, <2>3 DEF ReadReply, Typed, TypedConns, callerVars, linkVars
  <2>9. TypedLink'
    BY <1>10, <1>a, <2>2, <2>3 DEF ReadReply, Typed, TypedLink, callerVars, linkVars
  <2> QED BY <2>7, <2>8, <2>9 DEF Typed
<1>11. ASSUME NEW n \in Conns, ReadEvent(n) PROVE Typed'
  <2>1. Tail(in[n]) \in Seq(Message)
    BY <1>11, <1>a, Queues DEF ReadEvent, IsRead, QueueFacts
  <2>7. TypedCallers'
    BY <1>11, <1>a, <2>1 DEF ReadEvent, Typed, TypedCallers, callerVars, linkVars
  <2>8. TypedConns'
    BY <1>11, <1>a, <2>1 DEF ReadEvent, Typed, TypedConns, callerVars, linkVars
  <2>9. TypedLink'
    BY <1>11, <1>a, <2>1 DEF ReadEvent, Typed, TypedLink, callerVars, linkVars
  <2> QED BY <2>7, <2>8, <2>9 DEF Typed
<1>12. ASSUME NEW n \in Conns, ReadFails(n) PROVE Typed'
  BY <1>12, <1>a DEF ReadFails, Typed, TypedCallers, TypedConns, TypedLink, callerVars,
       clientVars, wireVars, linkVars, streamVars
<1>13. ASSUME NEW n \in Conns, LoopEnds(n) PROVE Typed'
  BY <1>13, <1>a DEF LoopEnds, Typed, TypedCallers, TypedConns, TypedLink, callerVars,
       clientVars, wireVars, linkVars, streamVars
<1>14. ASSUME NEW n \in Conns, SwitchRuns(n) PROVE Typed'
  <2>1. Head(out[n]) \in Commands /\ Tail(out[n]) \in Seq(Commands)
    BY <1>14, <1>a, Queues DEF SwitchRuns, QueueFacts
  <2>2. Append(in[n], ReplyTo(Head(out[n]))) \in Seq(Message)
    BY <1>a, <2>1, Queues DEF QueueFacts, Message, Replies
  <2>7. TypedCallers'
    BY <1>14, <1>a, <2>1, <2>2 DEF SwitchRuns, Typed, TypedCallers, callerVars, clientVars,
         linkVars
  <2>8. TypedConns'
    BY <1>14, <1>a, <2>1, <2>2 DEF SwitchRuns, Typed, TypedConns, callerVars, clientVars, linkVars
  <2>9. TypedLink'
    BY <1>14, <1>a, <2>1, <2>2 DEF SwitchRuns, Typed, TypedLink, callerVars, clientVars, linkVars
  <2> QED BY <2>7, <2>8, <2>9 DEF Typed
<1>15. ASSUME NEW n \in Conns, Break(n) PROVE Typed'
  <2>1. /\ \A i \in 0..Len(out[n]) : SubSeq(out[n], 1, i) \in Seq(Commands)
        /\ \A i \in 0..Len(in[n]) : SubSeq(in[n], 1, i) \in Seq(Message)
    BY <1>a, Queues DEF QueueFacts
  <2>7. TypedCallers'
    BY <1>15, <1>a, <2>1 DEF Break, Typed, TypedCallers, callerVars, clientVars, linkVars
  <2>8. TypedConns'
    BY <1>15, <1>a, <2>1 DEF Break, Typed, TypedConns, callerVars, clientVars, linkVars
  <2>9. TypedLink'
    BY <1>15, <1>a, <2>1 DEF Break, Typed, TypedLink, callerVars, clientVars, linkVars
  <2> QED BY <2>7, <2>8, <2>9 DEF Typed
<1>16. ASSUME Connect PROVE Typed'
  BY <1>16, <1>a DEF Connect, Typed, TypedCallers, TypedConns, TypedLink, callerVars,
       clientVars, wireVars, linkVars, streamVars
<1>17. ASSUME HooksRun PROVE Typed'
  BY <1>17, <1>a DEF HooksRun, Typed, TypedCallers, TypedConns, TypedLink, callerVars,
       clientVars, wireVars, linkVars, streamVars
<1>18. ASSUME Pump PROVE Typed'
  BY <1>18, <1>a DEF Pump, Typed, TypedCallers, TypedConns, TypedLink, callerVars, clientVars,
       wireVars, linkVars, streamVars
<1>19. ASSUME Lost PROVE Typed'
  BY <1>19, <1>a DEF Lost, Typed, TypedCallers, TypedConns, TypedLink, callerVars, clientVars,
       wireVars, linkVars, streamVars
<1>20. ASSUME Consume PROVE Typed'
  BY <1>20, <1>a DEF Consume, Typed, TypedCallers, TypedConns, TypedLink, callerVars,
       clientVars, wireVars, linkVars, streamVars
<1>21. ASSUME Emit PROVE Typed'
  <2>0. emitted + 1 \in 1..MaxEvents /\ client \in Conns
    BY <1>21, <1>a DEF Emit, Typed, TypedLink
  <2>1. EventNo(emitted + 1) \in Message
    BY <2>0 DEF Message
  <2>2. Append(in[client], EventNo(emitted + 1)) \in Seq(Message)
    BY <1>a, <2>0, <2>1, Queues DEF QueueFacts
  <2>7. TypedCallers'
    BY <1>21, <1>a, <2>1, <2>2 DEF Emit, Typed, TypedCallers, callerVars, clientVars, linkVars
  <2>8. TypedConns'
    BY <1>21, <1>a, <2>1, <2>2 DEF Emit, Typed, TypedConns, callerVars, clientVars, linkVars
  <2>9. TypedLink'
    BY <1>21, <1>a, <2>1, <2>2 DEF Emit, Typed, TypedLink, callerVars, clientVars, linkVars
  <2> QED BY <2>7, <2>8, <2>9 DEF Typed
<1>22. CASE UNCHANGED vars
  BY <1>22, <1>a DEF vars, Typed, TypedCallers, TypedConns, TypedLink, callerVars, clientVars,
       wireVars, linkVars, streamVars
<1> QED BY <1>1, <1>2, <1>3, <1>4, <1>5, <1>6, <1>7, <1>8, <1>9, <1>10, <1>11, <1>12, <1>13,
     <1>14, <1>15, <1>16, <1>17, <1>18, <1>19, <1>20, <1>21, <1>22 DEF Next, CallerStep

\* The link keeps the connection it made last or none, and nothing is on
\* a connection that is not made.
LEMMA LinkStep ==
    ASSUME Shape, [Next]_vars
    PROVE  LinkInv'
<1> USE ConnsAre
<1> DEFINE Bare(n) == /\ out[n] = <<>> /\ in[n] = <<>> /\ pending[n] = <<>>
                      /\ clientEvents[n] = <<>> /\ loop[n] = "reading"
<1>a. /\ client \in 0..MaxConns /\ made \in 0..MaxConns
      /\ loop \in [Conns -> {"reading", "ending", "over"}]
      /\ out \in [Conns -> Seq(Commands)] /\ in \in [Conns -> Seq(Message)]
      /\ pending \in [Conns -> Seq(Commands)] /\ clientEvents \in [Conns -> Seq(Nat)]
  BY DEF Shape, Typed, TypedLink, TypedConns, EventType
<1>b. \A c \in Commands :
          pc[c] \in {"turn", "check", "write", "reply"} => on[c] \in Conns /\ on[c] <= made
  BY DEF Shape, CallerInv, CallerOk
<1>c. /\ client \in {NoConn, made} /\ (client = NoConn <=> phase = "dialing")
      /\ \A n \in Conns : n > made => Bare(n)
      /\ \A n \in Conns : n <= made /\ n # client => loop[n] = "over"
  BY DEF Shape, LinkInv
\* Enough for a step that leaves the link alone: it works on one connection that is made.
<1>q. ASSUME NEW n \in Conns, n <= made, UNCHANGED <<client, phase, made>>,
             \A m \in Conns \ {n} : /\ out'[m] = out[m] /\ in'[m] = in[m] /\ pending'[m] = pending[m]
                                    /\ clientEvents'[m] = clientEvents[m] /\ loop'[m] = loop[m],
             loop[n] = "over" => loop'[n] = "over"
      PROVE  LinkInv'
  <2>1. ASSUME NEW m \in Conns, m > made'
        PROVE  /\ out'[m] = <<>> /\ in'[m] = <<>> /\ pending'[m] = <<>>
               /\ clientEvents'[m] = <<>> /\ loop'[m] = "reading"
    <3>1. m > made /\ m # n
      BY <1>a, <1>q, <2>1
    <3> QED BY <1>c, <1>q, <3>1
  <2>2. \A m \in Conns : m <= made' /\ m # client' => loop'[m] = "over"
    BY <1>a, <1>c, <1>q
  <2> QED BY <1>c, <1>q, <2>1, <2>2 DEF LinkInv
<1>1. ASSUME NEW c \in Commands, Issue(c) PROVE LinkInv'
  BY <1>1, <1>a, <1>c DEF Issue, Return, LinkInv, callerVars, clientVars, wireVars, linkVars,
       streamVars
<1>2. ASSUME NEW c \in Commands, TakeTurn(c) PROVE LinkInv'
  BY <1>2, <1>a, <1>c DEF TakeTurn, LinkInv, callerVars, clientVars, wireVars, linkVars,
       streamVars
<1>3. ASSUME NEW c \in Commands, NoTurn(c) PROVE LinkInv'
  BY <1>3, <1>a, <1>c DEF NoTurn, Return, LinkInv, callerVars, clientVars, wireVars, linkVars,
       streamVars
<1>4. ASSUME NEW c \in Commands, Register(c) PROVE LinkInv'
  <2>1. on[c] \in Conns /\ on[c] <= made
    BY <1>4, <1>b DEF Register
  <2>2. \A m \in Conns \ {on[c]} :
            /\ out'[m] = out[m] /\ in'[m] = in[m] /\ pending'[m] = pending[m]
            /\ clientEvents'[m] = clientEvents[m] /\ loop'[m] = loop[m]
    BY <1>4, <1>a, <2>1 DEF Register, callerVars, clientVars, wireVars, linkVars, streamVars
  <2>3. loop[on[c]] = "over" => loop'[on[c]] = "over"
    BY <1>4, <1>a, <2>1 DEF Register, IsRead, clientVars
  <2>4. UNCHANGED <<client, phase, made>>
    BY <1>4 DEF Register, linkVars
  <2> QED BY <1>q, <2>1, <2>2, <2>3, <2>4
<1>5. ASSUME NEW c \in Commands, Written(c) PROVE LinkInv'
  <2>1. on[c] \in Conns /\ on[c] <= made
    BY <1>5, <1>b DEF Written
  <2>2. \A m \in Conns \ {on[c]} :
            /\ out'[m] = out[m] /\ in'[m] = in[m] /\ pending'[m] = pending[m]
            /\ clientEvents'[m] = clientEvents[m] /\ loop'[m] = loop[m]
    BY <1>5, <1>a, <2>1 DEF Written, callerVars, clientVars, wireVars, linkVars, streamVars
  <2>3. loop[on[c]] = "over" => loop'[on[c]] = "over"
    BY <1>5, <1>a, <2>1 DEF Written, IsRead, clientVars
  <2>4. UNCHANGED <<client, phase, made>>
    BY <1>5 DEF Written, linkVars
  <2> QED BY <1>q, <2>1, <2>2, <2>3, <2>4
<1>6. ASSUME NEW c \in Commands, WriteFails(c) PROVE LinkInv'
  <2>1. on[c] \in Conns /\ on[c] <= made
    BY <1>6, <1>b DEF WriteFails
  <2>2. \A m \in Conns \ {on[c]} :
            /\ out'[m] = out[m] /\ in'[m] = in[m] /\ pending'[m] = pending[m]
            /\ clientEvents'[m] = clientEvents[m] /\ loop'[m] = loop[m]
    BY <1>6, <1>a, <2>1 DEF WriteFails, callerVars, clientVars, wireVars, linkVars, streamVars
  <2>3. loop[on[c]] = "over" => loop'[on[c]] = "over"
    BY <1>6, <1>a, <2>1 DEF WriteFails, IsRead, clientVars
  <2>4. UNCHANGED <<client, phase, made>>
    BY <1>6 DEF WriteFails, linkVars
  <2> QED BY <1>q, <2>1, <2>2, <2>3, <2>4
<1>7. ASSUME NEW c \in Commands, TakeReply(c) PROVE LinkInv'
  BY <1>7, <1>a, <1>c DEF TakeReply, Return, LinkInv, callerVars, clientVars, wireVars,
       linkVars, streamVars
<1>8. ASSUME NEW c \in Commands, TimeOut(c) PROVE LinkInv'
  BY <1>8, <1>a, <1>c DEF TimeOut, Return, LinkInv, callerVars, clientVars, wireVars, linkVars,
       streamVars
<1>9. ASSUME NEW c \in Commands, SeesClosed(c) PROVE LinkInv'
  BY <1>9, <1>a, <1>c DEF SeesClosed, Return, LinkInv, callerVars, clientVars, wireVars,
       linkVars, streamVars
<1>10. ASSUME NEW n \in Conns, ReadReply(n) PROVE LinkInv'
  <2>1. n \in Conns /\ n <= made
    BY <1>10, <1>a, <1>c DEF ReadReply, IsRead
  <2>2. \A m \in Conns \ {n} :
            /\ out'[m] = out[m] /\ in'[m] = in[m] /\ pending'[m] = pending[m]
            /\ clientEvents'[m] = clientEvents[m] /\ loop'[m] = loop[m]
    BY <1>10, <1>a, <2>1 DEF ReadReply, callerVars, clientVars, wireVars, linkVars, streamVars
  <2>3. loop[n] = "over" => loop'[n] = "over"
    BY <1>10, <1>a, <2>1 DEF ReadReply, IsRead, clientVars
  <2>4. UNCHANGED <<client, phase, made>>
    BY <1>10 DEF ReadReply, linkVars
  <2> QED BY <1>q, <2>1, <2>2, <2>3, <2>4
<1>11. ASSUME NEW n \in Conns, ReadEvent(n) PROVE LinkInv'
  <2>1. n \in Conns /\ n <= made
    BY <1>11, <1>a, <1>c DEF ReadEvent, IsRead
  <2>2. \A m \in Conns \ {n} :
            /\ out'[m] = out[m] /\ in'[m] = in[m] /\ pending'[m] = pending[m]
            /\ clientEvents'[m] = clientEvents[m] /\ loop'[m] = loop[m]
    BY <1>11, <1>a, <2>1 DEF ReadEvent, callerVars, clientVars, wireVars, linkVars, streamVars
  <2>3. loop[n] = "over" => loop'[n] = "over"
    BY <1>11, <1>a, <2>1 DEF ReadEvent, IsRead, clientVars
  <2>4. UNCHANGED <<client, phase, made>>
    BY <1>11 DEF ReadEvent, linkVars
  <2> QED BY <1>q, <2>1, <2>2, <2>3, <2>4
<1>12. ASSUME NEW n \in Conns, ReadFails(n) PROVE LinkInv'
  <2>1. n \in Conns /\ n <= made
    BY <1>12, <1>a DEF ReadFails
  <2>2. \A m \in Conns \ {n} :
            /\ out'[m] = out[m] /\ in'[m] = in[m] /\ pending'[m] = pending[m]
            /\ clientEvents'[m] = clientEvents[m] /\ loop'[m] = loop[m]
    BY <1>12, <1>a, <2>1 DEF ReadFails, callerVars, clientVars, wireVars, linkVars, streamVars
  <2>3. loop[n] = "over" => loop'[n] = "over"
    BY <1>12, <1>a, <2>1 DEF ReadFails, IsRead, clientVars
  <2>4. UNCHANGED <<client, phase, made>>
    BY <1>12 DEF ReadFails, linkVars
  <2> QED BY <1>q, <2>1, <2>2, <2>3, <2>4
<1>13. ASSUME NEW n \in Conns, LoopEnds(n) PROVE LinkInv'
  <2>1. n \in Conns /\ n <= made
    BY <1>13, <1>a, <1>c DEF LoopEnds
  <2>2. \A m \in Conns \ {n} :
            /\ out'[m] = out[m] /\ in'[m] = in[m] /\ pending'[m] = pending[m]
            /\ clientEvents'[m] = clientEvents[m] /\ loop'[m] = loop[m]
    BY <1>13, <1>a, <2>1 DEF LoopEnds, callerVars, clientVars, wireVars, linkVars, streamVars
  <2>3. loop[n] = "over" => loop'[n] = "over"
    BY <1>13, <1>a, <2>1 DEF LoopEnds, IsRead, clientVars
  <2>4. UNCHANGED <<client, phase, made>>
    BY <1>13 DEF LoopEnds, linkVars
  <2> QED BY <1>q, <2>1, <2>2, <2>3, <2>4
<1>14. ASSUME NEW n \in Conns, SwitchRuns(n) PROVE LinkInv'
  <2>1. n \in Conns /\ n <= made
    BY <1>14, <1>a, <1>c DEF SwitchRuns
  <2>2. \A m \in Conns \ {n} :
            /\ out'[m] = out[m] /\ in'[m] = in[m] /\ pending'[m] = pending[m]
            /\ clientEvents'[m] = clientEvents[m] /\ loop'[m] = loop[m]
    BY <1>14, <1>a, <2>1 DEF SwitchRuns, callerVars, clientVars, wireVars, linkVars, streamVars
  <2>3. loop[n] = "over" => loop'[n] = "over"
    BY <1>14, <1>a, <2>1 DEF SwitchRuns, IsRead, clientVars
  <2>4. UNCHANGED <<client, phase, made>>
    BY <1>14 DEF SwitchRuns, linkVars
  <2> QED BY <1>q, <2>1, <2>2, <2>3, <2>4
<1>15. ASSUME NEW n \in Conns, Break(n) PROVE LinkInv'
  <2>1. n \in Conns /\ n <= made
    BY <1>15, <1>a DEF Break
  <2>2. \A m \in Conns \ {n} :
            /\ out'[m] = out[m] /\ in'[m] = in[m] /\ pending'[m] = pending[m]
            /\ clientEvents'[m] = clientEvents[m] /\ loop'[m] = loop[m]
    BY <1>15, <1>a, <2>1 DEF Break, callerVars, clientVars, wireVars, linkVars, streamVars
  <2>3. loop[n] = "over" => loop'[n] = "over"
    BY <1>15, <1>a, <2>1 DEF Break, IsRead, clientVars
  <2>4. UNCHANGED <<client, phase, made>>
    BY <1>15 DEF Break, linkVars
  <2> QED BY <1>q, <2>1, <2>2, <2>3, <2>4
<1>16. ASSUME Connect PROVE LinkInv'
  <2>1. made' = made + 1 /\ client' = made + 1 /\ phase' = "hooks" /\ phase = "dialing" /\ client = NoConn
    BY <1>16, <1>c DEF Connect
  <2>2. UNCHANGED <<out, in, pending, clientEvents, loop>>
    BY <1>16 DEF Connect, clientVars, wireVars
  <2>3. \A m \in Conns : m > made' => Bare(m)
    BY <1>a, <1>c, <2>1
  <2>4. \A m \in Conns : m <= made' /\ m # client' => loop[m] = "over"
    BY <1>a, <1>c, <2>1
  <2>5. client' \in {NoConn, made'} /\ (client' = NoConn <=> phase' = "dialing")
    BY <1>a, <2>1
  <2>6. \A m \in Conns : m > made' =>
            /\ out'[m] = <<>> /\ in'[m] = <<>> /\ pending'[m] = <<>>
            /\ clientEvents'[m] = <<>> /\ loop'[m] = "reading"
    BY <2>2, <2>3
  <2>7. \A m \in Conns : m <= made' /\ m # client' => loop'[m] = "over"
    BY <2>2, <2>4
  <2> QED BY <2>5, <2>6, <2>7 DEF LinkInv
<1>17. ASSUME HooksRun PROVE LinkInv'
  BY <1>17, <1>a, <1>c DEF HooksRun, LinkInv, callerVars, clientVars, wireVars, linkVars,
       streamVars
<1>18. ASSUME Pump PROVE LinkInv'
  <2>1. client \in Conns /\ client <= made
    BY <1>18, <1>a, <1>c DEF Pump
  <2>2. \A m \in Conns \ {client} :
            /\ out'[m] = out[m] /\ in'[m] = in[m] /\ pending'[m] = pending[m]
            /\ clientEvents'[m] = clientEvents[m] /\ loop'[m] = loop[m]
    BY <1>18, <1>a, <2>1 DEF Pump, callerVars, clientVars, wireVars, linkVars, streamVars
  <2>3. loop[client] = "over" => loop'[client] = "over"
    BY <1>18, <1>a, <2>1 DEF Pump, IsRead, clientVars
  <2>4. UNCHANGED <<client, phase, made>>
    BY <1>18 DEF Pump, linkVars
  <2> QED BY <1>q, <2>1, <2>2, <2>3, <2>4
<1>19. ASSUME Lost PROVE LinkInv'
  BY <1>19, <1>a, <1>c DEF Lost, LinkInv, callerVars, clientVars, wireVars, linkVars, streamVars
<1>20. ASSUME Consume PROVE LinkInv'
  BY <1>20, <1>a, <1>c DEF Consume, LinkInv, callerVars, clientVars, wireVars, linkVars,
       streamVars
<1>21. ASSUME Emit PROVE LinkInv'
  <2>1. client \in Conns /\ client <= made
    BY <1>21, <1>a, <1>c DEF Emit
  <2>2. \A m \in Conns \ {client} :
            /\ out'[m] = out[m] /\ in'[m] = in[m] /\ pending'[m] = pending[m]
            /\ clientEvents'[m] = clientEvents[m] /\ loop'[m] = loop[m]
    BY <1>21, <1>a, <2>1 DEF Emit, callerVars, clientVars, wireVars, linkVars, streamVars
  <2>3. loop[client] = "over" => loop'[client] = "over"
    BY <1>21, <1>a, <2>1 DEF Emit, IsRead, clientVars
  <2>4. UNCHANGED <<client, phase, made>>
    BY <1>21 DEF Emit, linkVars
  <2> QED BY <1>q, <2>1, <2>2, <2>3, <2>4
<1>22. CASE UNCHANGED vars
  BY <1>22, <1>a, <1>c DEF vars, LinkInv, callerVars, clientVars, wireVars, linkVars, streamVars
<1> QED BY <1>1, <1>2, <1>3, <1>4, <1>5, <1>6, <1>7, <1>8, <1>9, <1>10, <1>11, <1>12, <1>13,
     <1>14, <1>15, <1>16, <1>17, <1>18, <1>19, <1>20, <1>21, <1>22 DEF Next, CallerStep

-----------------------------------------------------------------------------
(* Commands and replies.                                                   *)

\* The heart of the argument: the reply a loop reads is to the command of the
\* first waiter (deliverReply), because nobody waits before it and no reply comes
\* out of turn.
LEMMA HeadsMatch ==
    ASSUME IInv, NEW n \in Conns, IsRead(n, "reply")
    PROVE  pending[n] # <<>> /\ Head(in[n]) = ReplyTo(Head(pending[n]))
<1>1. Typed /\ WaiterOk(n) /\ HasWaiter(n) /\ Ordered(n) /\ Gapless(n)
  BY DEF IInv, Shape, AlignInv, Aligned, IsRead, WaiterInv
<1>2. /\ QueueFacts(Commands, pending[n]) /\ QueueFacts(Message, in[n])
      /\ pending[n] \in Seq(Commands) /\ in[n] \in Seq(Message)
  BY <1>1, Queues
<1>3. in[n] # <<>> /\ Head(in[n]) \in Replies
  BY <1>2, Messages DEF QueueFacts, IsRead
<1>4. PICK c \in Commands : Head(in[n]) = ReplyTo(c)
  BY <1>3 DEF Replies
<1>5. Answered(n, c)
  BY <1>2, <1>3, <1>4, OrderTail DEF Answered
<1>6. Waits(n, c)
  BY <1>1, <1>5 DEF HasWaiter
<1>7. pending[n] # <<>> /\ Head(pending[n]) \in Commands
  BY <1>2, <1>6, OrderEmpty DEF Waits, QueueFacts
<1>8. ASSUME Head(pending[n]) # c PROVE FALSE
  <2> DEFINE d == Head(pending[n])
  <2>1. Precedes(pending[n], d, c)
    BY <1>2, <1>6, <1>7, <1>8, OrderTail DEF Waits
  <2>2. Answered(n, d)
    BY <1>1, <1>5, <1>7, <2>1 DEF Gapless
  <2>3. ReplyTo(d) # ReplyTo(c)
    BY <1>7, <1>8, Messages
  <2>4. Precedes(in[n], ReplyTo(c), ReplyTo(d))
    BY <1>2, <1>3, <1>4, <2>2, <2>3, OrderTail DEF Answered
  <2>5. Precedes(pending[n], c, d)
    BY <1>1, <1>7, <2>4 DEF Ordered
  <2>6. Waits(n, d) /\ Waits(n, c)
    BY <2>1, OrderOccurs DEF Waits
  <2>7. Precedes(pending[n], d, d) \/ Precedes(pending[n], c, c)
    BY <1>2, <2>1, <2>5, OrderTotal
  <2> QED BY <1>1, <1>2, <1>7, <2>6, <2>7 DEF WaiterOk
<1> QED BY <1>4, <1>7, <1>8

\* What a caller was given is its own.
LEMMA CallerStepKept ==
    ASSUME IInv, [Next]_vars
    PROVE  CallerInv'
<1> SUFFICES ASSUME NEW d \in Commands PROVE CallerOk(d)'
  BY DEF CallerInv
<1> USE ConnsAre, Messages
<1>a. /\ TypedCallers /\ CallerOk(d) /\ client \in 0..MaxConns /\ made \in 0..MaxConns
      /\ client \in {NoConn, made} /\ ran \subseteq Commands
  BY DEF IInv, Shape, Typed, TypedLink, CallerInv, LinkInv
<1>1. ASSUME NEW c \in Commands, Issue(c) PROVE CallerOk(d)'
  BY <1>1, <1>a DEF Issue, Return, CallerOk, TypedCallers, callerVars, clientVars, wireVars,
       linkVars, streamVars
<1>2. ASSUME NEW c \in Commands, TakeTurn(c) PROVE CallerOk(d)'
  BY <1>2, <1>a DEF TakeTurn, CallerOk, TypedCallers, callerVars, clientVars, wireVars,
       linkVars, streamVars
<1>3. ASSUME NEW c \in Commands, NoTurn(c) PROVE CallerOk(d)'
  BY <1>3, <1>a DEF NoTurn, Return, CallerOk, TypedCallers, callerVars, clientVars, wireVars,
       linkVars, streamVars
<1>4. ASSUME NEW c \in Commands, Register(c) PROVE CallerOk(d)'
  <2>1. c \notin ran
    BY <1>4 DEF Register, IInv, Shape, CallerInv, CallerOk
  <2> QED BY <1>4, <1>a, <2>1 DEF Register, Return, CallerOk, TypedCallers, linkVars
<1>5. ASSUME NEW c \in Commands, Written(c) PROVE CallerOk(d)'
  BY <1>5, <1>a DEF Written, CallerOk, TypedCallers, callerVars, clientVars, wireVars, linkVars,
       streamVars
<1>6. ASSUME NEW c \in Commands, WriteFails(c) PROVE CallerOk(d)'
  BY <1>6, <1>a DEF WriteFails, Return, CallerOk, TypedCallers, callerVars, clientVars,
       wireVars, linkVars, streamVars
<1>7. ASSUME NEW c \in Commands, TakeReply(c) PROVE CallerOk(d)'
  BY <1>7, <1>a DEF TakeReply, Return, CallerOk, TypedCallers, callerVars, clientVars, wireVars,
       linkVars, streamVars
<1>8. ASSUME NEW c \in Commands, TimeOut(c) PROVE CallerOk(d)'
  BY <1>8, <1>a DEF TimeOut, Return, CallerOk, TypedCallers, callerVars, clientVars, wireVars,
       linkVars, streamVars
<1>9. ASSUME NEW c \in Commands, SeesClosed(c) PROVE CallerOk(d)'
  BY <1>9, <1>a DEF SeesClosed, Return, CallerOk, TypedCallers, callerVars, clientVars,
       wireVars, linkVars, streamVars
<1>10. ASSUME NEW n \in Conns, ReadReply(n) PROVE CallerOk(d)'
  <2>1. pending[n] # <<>> /\ Head(in[n]) = ReplyTo(Head(pending[n])) /\ in[n] # <<>>
    BY <1>10, HeadsMatch DEF ReadReply, IsRead
  <2>2. Head(pending[n]) \in Commands
    BY <2>1, Queues DEF QueueFacts, IInv, Shape
  <2>0. Answered(n, Head(pending[n]))
    BY <2>1, <2>2, Queues, OrderTail DEF Answered, IInv, Shape
  <2>3. Head(pending[n]) \in ran
    BY <2>0, <2>2 DEF IInv, InInv, InOk
  <2>4. inbox' = [inbox EXCEPT ![Head(pending[n])] = ReplyTo(Head(pending[n]))]
        /\ UNCHANGED <<pc, on, got, made, ran>>
    BY <1>10, <2>1 DEF ReadReply, callerVars, linkVars
  <2> QED BY <1>a, <2>2, <2>3, <2>4 DEF CallerOk, TypedCallers
<1>11. ASSUME NEW n \in Conns, ReadEvent(n) PROVE CallerOk(d)'
  BY <1>11, <1>a DEF ReadEvent, CallerOk, TypedCallers, callerVars, clientVars, wireVars,
       linkVars, streamVars
<1>12. ASSUME NEW n \in Conns, ReadFails(n) PROVE CallerOk(d)'
  BY <1>12, <1>a DEF ReadFails, CallerOk, TypedCallers, callerVars, clientVars, wireVars,
       linkVars, streamVars
<1>13. ASSUME NEW n \in Conns, LoopEnds(n) PROVE CallerOk(d)'
  BY <1>13, <1>a DEF LoopEnds, CallerOk, TypedCallers, callerVars, clientVars, wireVars,
       linkVars, streamVars
<1>14. ASSUME NEW n \in Conns, SwitchRuns(n) PROVE CallerOk(d)'
  <2>1. Head(out[n]) \in Commands /\ out[n] # <<>>
    BY <1>14, Queues DEF QueueFacts, SwitchRuns, IInv, Shape
  <2>2. pc[Head(out[n])] \in {"reply", "done"} /\ got[Head(out[n])] # Down
    <3>1. Sent(n, Head(out[n]))
      BY <2>1, Queues, OrderTail DEF Sent, IInv, Shape
    <3> QED BY <2>1, <3>1 DEF IInv, OutInv, OutOk
  <2>3. ran' = ran \cup {Head(out[n])} /\ UNCHANGED <<pc, on, got, inbox, made>>
    BY <1>14 DEF SwitchRuns, callerVars, clientVars, linkVars
  <2> QED BY <1>a, <2>1, <2>2, <2>3 DEF CallerOk
<1>15. ASSUME NEW n \in Conns, Break(n) PROVE CallerOk(d)'
  BY <1>15, <1>a DEF Break, CallerOk, TypedCallers, callerVars, clientVars, wireVars, linkVars,
       streamVars
<1>16. ASSUME Connect PROVE CallerOk(d)'
  BY <1>16, <1>a DEF Connect, CallerOk, TypedCallers, callerVars, clientVars, wireVars,
       linkVars, streamVars
<1>17. ASSUME HooksRun PROVE CallerOk(d)'
  BY <1>17, <1>a DEF HooksRun, CallerOk, TypedCallers, callerVars, clientVars, wireVars,
       linkVars, streamVars
<1>18. ASSUME Pump PROVE CallerOk(d)'
  BY <1>18, <1>a DEF Pump, CallerOk, TypedCallers, callerVars, clientVars, wireVars, linkVars,
       streamVars
<1>19. ASSUME Lost PROVE CallerOk(d)'
  BY <1>19, <1>a DEF Lost, CallerOk, TypedCallers, callerVars, clientVars, wireVars, linkVars,
       streamVars
<1>20. ASSUME Consume PROVE CallerOk(d)'
  BY <1>20, <1>a DEF Consume, CallerOk, TypedCallers, callerVars, clientVars, wireVars,
       linkVars, streamVars
<1>21. ASSUME Emit PROVE CallerOk(d)'
  BY <1>21, <1>a DEF Emit, CallerOk, TypedCallers, callerVars, clientVars, wireVars, linkVars,
       streamVars
<1>22. CASE UNCHANGED vars
  BY <1>22, <1>a DEF vars, CallerOk, TypedCallers, callerVars, clientVars, wireVars, linkVars,
       streamVars
<1> QED BY <1>1, <1>2, <1>3, <1>4, <1>5, <1>6, <1>7, <1>8, <1>9, <1>10, <1>11, <1>12, <1>13,
     <1>14, <1>15, <1>16, <1>17, <1>18, <1>19, <1>20, <1>21, <1>22 DEF Next, CallerStep

\* The turn stays with the caller that writes.
LEMMA TurnStep ==
    ASSUME IInv, [Next]_vars
    PROVE  TurnInv'
<1> USE ConnsAre
<1>a. /\ TypedCallers /\ TurnInv /\ turn \in [Conns -> Commands \cup {NoOne}]
      /\ \A d \in Commands : pc[d] \in {"turn", "check", "write", "reply"} => on[d] \in Conns
  BY DEF IInv, Shape, Typed, TypedConns, CallerInv, CallerOk
<1>1. ASSUME NEW c \in Commands, Issue(c) PROVE TurnInv'
  <2>1. /\ pc[c] = "idle" /\ pc'[c] \in {"turn", "done"} /\ turn' = turn
        /\ \A d \in Commands \ {c} : pc'[d] = pc[d] /\ on'[d] = on[d]
    BY <1>1, <1>a DEF Issue, Return, TypedCallers, clientVars
  <2> QED BY <1>a, <2>1 DEF TurnInv
<1>2. ASSUME NEW c \in Commands, TakeTurn(c) PROVE TurnInv'
  BY <1>2, <1>a DEF TakeTurn, TurnInv, TypedCallers, callerVars, clientVars, wireVars, linkVars,
       streamVars
<1>3. ASSUME NEW c \in Commands, NoTurn(c) PROVE TurnInv'
  BY <1>3, <1>a DEF NoTurn, Return, TurnInv, TypedCallers, callerVars, clientVars, wireVars,
       linkVars, streamVars
<1>4. ASSUME NEW c \in Commands, Register(c) PROVE TurnInv'
  <2>1. pc[c] = "check" /\ on[c] \in Conns /\ UNCHANGED on /\ turn[on[c]] = c
    BY <1>4, <1>a DEF Register, Return, TurnInv
  <2>2. ASSUME closed[on[c]] PROVE TurnInv'
    <3>1. pc' = [pc EXCEPT ![c] = "done"] /\ turn' = [turn EXCEPT ![on[c]] = NoOne]
      BY <1>4, <2>2 DEF Register, Return
    <3> QED BY <1>a, <2>1, <3>1 DEF TurnInv, TypedCallers
  <2>3. ASSUME ~closed[on[c]] PROVE TurnInv'
    <3>1. pc' = [pc EXCEPT ![c] = "write"] /\ UNCHANGED turn
      BY <1>4, <2>3 DEF Register
    <3> QED BY <1>a, <2>1, <3>1 DEF TurnInv, TypedCallers
  <2> QED BY <2>2, <2>3
<1>5. ASSUME NEW c \in Commands, Written(c) PROVE TurnInv'
  BY <1>5, <1>a DEF Written, TurnInv, TypedCallers, callerVars, clientVars, wireVars, linkVars,
       streamVars
<1>6. ASSUME NEW c \in Commands, WriteFails(c) PROVE TurnInv'
  BY <1>6, <1>a DEF WriteFails, Return, TurnInv, TypedCallers, callerVars, clientVars, wireVars,
       linkVars, streamVars
<1>7. ASSUME NEW c \in Commands, TakeReply(c) PROVE TurnInv'
  BY <1>7, <1>a DEF TakeReply, Return, TurnInv, TypedCallers, callerVars, clientVars, wireVars,
       linkVars, streamVars
<1>8. ASSUME NEW c \in Commands, TimeOut(c) PROVE TurnInv'
  BY <1>8, <1>a DEF TimeOut, Return, TurnInv, TypedCallers, callerVars, clientVars, wireVars,
       linkVars, streamVars
<1>9. ASSUME NEW c \in Commands, SeesClosed(c) PROVE TurnInv'
  BY <1>9, <1>a DEF SeesClosed, Return, TurnInv, TypedCallers, callerVars, clientVars, wireVars,
       linkVars, streamVars
<1>10. ASSUME NEW n \in Conns, ReadReply(n) PROVE TurnInv'
  BY <1>10, <1>a DEF ReadReply, TurnInv, TypedCallers, callerVars, clientVars, wireVars,
       linkVars, streamVars
<1>11. ASSUME NEW n \in Conns, ReadEvent(n) PROVE TurnInv'
  BY <1>11, <1>a DEF ReadEvent, TurnInv, TypedCallers, callerVars, clientVars, wireVars,
       linkVars, streamVars
<1>12. ASSUME NEW n \in Conns, ReadFails(n) PROVE TurnInv'
  BY <1>12, <1>a DEF ReadFails, TurnInv, TypedCallers, callerVars, clientVars, wireVars,
       linkVars, streamVars
<1>13. ASSUME NEW n \in Conns, LoopEnds(n) PROVE TurnInv'
  BY <1>13, <1>a DEF LoopEnds, TurnInv, TypedCallers, callerVars, clientVars, wireVars,
       linkVars, streamVars
<1>14. ASSUME NEW n \in Conns, SwitchRuns(n) PROVE TurnInv'
  BY <1>14, <1>a DEF SwitchRuns, TurnInv, TypedCallers, callerVars, clientVars, wireVars,
       linkVars, streamVars
<1>15. ASSUME NEW n \in Conns, Break(n) PROVE TurnInv'
  BY <1>15, <1>a DEF Break, TurnInv, TypedCallers, callerVars, clientVars, wireVars, linkVars,
       streamVars
<1>16. ASSUME Connect PROVE TurnInv'
  BY <1>16, <1>a DEF Connect, TurnInv, TypedCallers, callerVars, clientVars, wireVars, linkVars,
       streamVars
<1>17. ASSUME HooksRun PROVE TurnInv'
  BY <1>17, <1>a DEF HooksRun, TurnInv, TypedCallers, callerVars, clientVars, wireVars,
       linkVars, streamVars
<1>18. ASSUME Pump PROVE TurnInv'
  BY <1>18, <1>a DEF Pump, TurnInv, TypedCallers, callerVars, clientVars, wireVars, linkVars,
       streamVars
<1>19. ASSUME Lost PROVE TurnInv'
  BY <1>19, <1>a DEF Lost, TurnInv, TypedCallers, callerVars, clientVars, wireVars, linkVars,
       streamVars
<1>20. ASSUME Consume PROVE TurnInv'
  BY <1>20, <1>a DEF Consume, TurnInv, TypedCallers, callerVars, clientVars, wireVars, linkVars,
       streamVars
<1>21. ASSUME Emit PROVE TurnInv'
  BY <1>21, <1>a DEF Emit, TurnInv, TypedCallers, callerVars, clientVars, wireVars, linkVars,
       streamVars
<1>22. CASE UNCHANGED vars
  BY <1>22, <1>a DEF vars, TurnInv, TypedCallers, callerVars, clientVars, wireVars, linkVars,
       streamVars
<1> QED BY <1>1, <1>2, <1>3, <1>4, <1>5, <1>6, <1>7, <1>8, <1>9, <1>10, <1>11, <1>12, <1>13,
     <1>14, <1>15, <1>16, <1>17, <1>18, <1>19, <1>20, <1>21, <1>22 DEF Next, CallerStep

\* A command leaves a connection in the order it was written.
LEMMA OutStep ==
    ASSUME IInv, [Next]_vars
    PROVE  OutInv'
<1> SUFFICES ASSUME NEW m \in Conns PROVE OutOk(m)'
  BY DEF OutInv
<1> USE ConnsAre, Messages
<1>a. /\ TypedCallers /\ TypedConns /\ OutOk(m) /\ ran \subseteq Commands
      /\ \A d \in Commands : CallerOk(d)
  BY Queues DEF IInv, Shape, Typed, TypedLink, CallerInv, OutInv
\* A caller that is not on its way may do as it likes.
<1>q. ASSUME NEW c \in Commands, UNCHANGED <<out, ran>>,
             \A d \in Commands \ {c} : pc'[d] = pc[d] /\ on'[d] = on[d] /\ got'[d] = got[d],
             pc[c] \notin {"reply", "done"}
      PROVE  OutOk(m)'
  BY <1>a, <1>q DEF OutOk, Sent
<1>r. ASSUME NEW c \in Commands, UNCHANGED <<out, ran, on>>, pc[c] = "reply",
             \A d \in Commands \ {c} : pc'[d] = pc[d] /\ got'[d] = got[d],
             pc'[c] = "done", got'[c] = Unknown \/ c \in ran
      PROVE  OutOk(m)'
  BY <1>a, <1>r DEF OutOk, Sent
<1>s. ASSUME UNCHANGED <<pc, on, got, out, ran>> PROVE OutOk(m)'
  BY <1>a, <1>s DEF OutOk, Sent
\* A command that is written is the last of its connection.
<1>w. ASSUME NEW c \in Commands, pc[c] = "write", pc'[c] \in {"reply", "done"}, UNCHANGED <<on, ran>>,
             got'[c] \in {None, Unknown},
             \A d \in Commands \ {c} : pc'[d] = pc[d] /\ got'[d] = got[d],
             out' = [out EXCEPT ![on[c]] = Append(@, c)]
      PROVE  OutOk(m)'
  <2>1. ~Sent(m, c) /\ c \notin ran /\ on[c] \in Conns
    BY <1>a, <1>w DEF OutOk, CallerOk
  <2>2. out'[m] = IF m = on[c] THEN Append(out[m], c) ELSE out[m]
    BY <1>a, <1>w, <2>1 DEF TypedConns
  <2>3. CASE m # on[c]
    <3>1. \A d \in Commands : /\ Sent(m, d)' <=> Sent(m, d)
                              /\ Precedes(out'[m], d, d) <=> Precedes(out[m], d, d)
      BY <2>2, <2>3 DEF Sent
    <3> QED BY <1>a, <1>w, <2>1, <3>1 DEF OutOk
  <2>4. CASE m = on[c]
    <3>1. \A d \in Commands :
              /\ Sent(m, d)' <=> Sent(m, d) \/ d = c
              /\ Precedes(out'[m], d, d) <=> Precedes(out[m], d, d) \/ (Sent(m, d) /\ d = c)
      BY <1>a, <2>2, <2>4, OrderAppend DEF Sent, TypedConns
    <3>2. \A d \in Commands : Precedes(out[m], d, d) => Sent(m, d)
      BY OrderOccurs DEF Sent
    <3> QED BY <1>a, <1>w, <2>1, <2>4, <3>1, <3>2 DEF OutOk
  <2> QED BY <2>3, <2>4
<1>1. ASSUME NEW c \in Commands, Issue(c) PROVE OutOk(m)'
  BY <1>1, <1>a, <1>q DEF Issue, Return, TypedCallers, wireVars
<1>2. ASSUME NEW c \in Commands, TakeTurn(c) PROVE OutOk(m)'
  BY <1>2, <1>a, <1>q DEF TakeTurn, Return, TypedCallers, wireVars
<1>3. ASSUME NEW c \in Commands, NoTurn(c) PROVE OutOk(m)'
  BY <1>3, <1>a, <1>q DEF NoTurn, Return, TypedCallers, wireVars
<1>4. ASSUME NEW c \in Commands, Register(c) PROVE OutOk(m)'
  BY <1>4, <1>a, <1>q DEF Register, Return, TypedCallers, wireVars
<1>5. ASSUME NEW c \in Commands, Written(c) PROVE OutOk(m)'
  <2>1. /\ pc[c] = "write" /\ pc' = [pc EXCEPT ![c] = "reply"] /\ UNCHANGED <<on, got, ran>>
        /\ out' = [out EXCEPT ![on[c]] = IF broken[on[c]] THEN @ ELSE Append(@, c)]
    BY <1>5 DEF Written
  <2>2. got[c] = None /\ on[c] \in Conns /\ c \notin ran
    BY <1>a, <2>1 DEF CallerOk
  <2>3. CASE broken[on[c]]
    <3>1. out' = out
      BY <1>a, <2>1, <2>2, <2>3 DEF TypedConns
    <3> QED BY <1>a, <1>q, <2>1, <3>1 DEF TypedCallers
  <2>4. CASE ~broken[on[c]]
    BY <1>a, <1>w, <2>1, <2>2, <2>4 DEF TypedCallers
  <2> QED BY <2>3, <2>4
<1>6. ASSUME NEW c \in Commands, WriteFails(c) PROVE OutOk(m)'
  <2>1. /\ pc[c] = "write" /\ pc' = [pc EXCEPT ![c] = "done"] /\ UNCHANGED <<on, ran>>
        /\ \/ out' = out
           \/ out' = [out EXCEPT ![on[c]] = @]
           \/ out' = [out EXCEPT ![on[c]] = Append(@, c)] /\ got' = [got EXCEPT ![c] = Unknown]
        /\ got' = [got EXCEPT ![c] = Down] \/ got' = [got EXCEPT ![c] = Unknown]
    BY <1>6 DEF WriteFails, Return
  <2>2. on[c] \in Conns
    BY <1>a, <2>1 DEF CallerOk
  <2>3. CASE out' = out \/ out' = [out EXCEPT ![on[c]] = @]
    <3>1. out' = out
      BY <1>a, <2>2, <2>3 DEF TypedConns
    <3> QED BY <1>a, <1>q, <2>1, <3>1 DEF TypedCallers
  <2>4. CASE out' = [out EXCEPT ![on[c]] = Append(@, c)] /\ got' = [got EXCEPT ![c] = Unknown]
    BY <1>a, <1>w, <2>1, <2>4 DEF TypedCallers
  <2> QED BY <2>1, <2>3, <2>4
<1>7. ASSUME NEW c \in Commands, TakeReply(c) PROVE OutOk(m)'
  BY <1>7, <1>a, <1>r DEF TakeReply, Return, TypedCallers, CallerOk, wireVars
<1>8. ASSUME NEW c \in Commands, TimeOut(c) PROVE OutOk(m)'
  BY <1>8, <1>a, <1>r DEF TimeOut, Return, TypedCallers, CallerOk, wireVars
<1>9. ASSUME NEW c \in Commands, SeesClosed(c) PROVE OutOk(m)'
  BY <1>9, <1>a, <1>r DEF SeesClosed, Return, TypedCallers, CallerOk, wireVars
<1>10. ASSUME NEW n \in Conns, ReadReply(n) PROVE OutOk(m)'
  BY <1>10, <1>s DEF ReadReply, callerVars, wireVars
<1>11. ASSUME NEW n \in Conns, ReadEvent(n) PROVE OutOk(m)'
  BY <1>11, <1>s DEF ReadEvent, callerVars, wireVars
<1>12. ASSUME NEW n \in Conns, ReadFails(n) PROVE OutOk(m)'
  BY <1>12, <1>s DEF ReadFails, callerVars, wireVars
<1>13. ASSUME NEW n \in Conns, LoopEnds(n) PROVE OutOk(m)'
  BY <1>13, <1>s DEF LoopEnds, callerVars, wireVars
<1>14. ASSUME NEW n \in Conns, SwitchRuns(n) PROVE OutOk(m)'
  <2>1. /\ out[n] # <<>> /\ out' = [out EXCEPT ![n] = Tail(@)] /\ ran' = ran \cup {Head(out[n])}
        /\ UNCHANGED <<pc, on, got>>
    BY <1>14 DEF SwitchRuns, callerVars
  <2>2. OutOk(n) /\ out[n] \in Seq(Commands) /\ Head(out[n]) \in Commands
    BY <2>1, Queues DEF IInv, Shape, OutInv, QueueFacts
  <2>3. Sent(n, Head(out[n])) /\ on[Head(out[n])] = n /\ ~Precedes(out[n], Head(out[n]),
       Head(out[n]))
    BY <2>1, <2>2, OrderTail DEF OutOk, Sent
  <2>4. out'[m] = IF m = n THEN Tail(out[m]) ELSE out[m]
    BY <1>a, <2>1 DEF TypedConns
  <2>5. CASE m # n
    <3>1. \A d \in Commands : /\ Sent(m, d)' <=> Sent(m, d)
                              /\ Precedes(out'[m], d, d) <=> Precedes(out[m], d, d)
      BY <2>4, <2>5 DEF Sent
    <3> QED BY <1>a, <2>1, <2>3, <2>5, <3>1 DEF OutOk
  <2>6. CASE m = n
    <3>1. \A d \in Commands :
              /\ Sent(m, d)' => Sent(m, d) /\ d # Head(out[n])
              /\ Precedes(out'[m], d, d) => Precedes(out[m], d, d)
      BY <2>1, <2>2, <2>3, <2>4, <2>6, OrderTail DEF Sent
    <3> QED BY <1>a, <2>1, <3>1 DEF OutOk
  <2> QED BY <2>5, <2>6
<1>15. ASSUME NEW n \in Conns, Break(n) PROVE OutOk(m)'
  <2>1. PICK k \in 0..Len(out[n]) : out' = [out EXCEPT ![n] = SubSeq(@, 1, k)]
    BY <1>15 DEF Break
  <2>2. UNCHANGED <<pc, on, got, ran>>
    BY <1>15 DEF Break, callerVars
  <2>3. out'[m] = IF m = n THEN SubSeq(out[m], 1, k) ELSE out[m]
    BY <1>a, <2>1 DEF TypedConns
  <2>4. \A d \in Commands : /\ Sent(m, d)' => Sent(m, d)
                            /\ Precedes(out'[m], d, d) => Precedes(out[m], d, d)
    <3>1. out[m] \in Seq(Commands)
      BY <1>a DEF TypedConns
    <3> QED BY <2>1, <2>3, <3>1, OrderPrefix DEF Sent
  <2> QED BY <1>a, <2>2, <2>4 DEF OutOk
<1>16. ASSUME Connect PROVE OutOk(m)'
  BY <1>16, <1>s DEF Connect, callerVars, wireVars
<1>17. ASSUME HooksRun PROVE OutOk(m)'
  BY <1>17, <1>s DEF HooksRun, callerVars, wireVars
<1>18. ASSUME Pump PROVE OutOk(m)'
  BY <1>18, <1>s DEF Pump, callerVars, wireVars
<1>19. ASSUME Lost PROVE OutOk(m)'
  BY <1>19, <1>s DEF Lost, callerVars, wireVars
<1>20. ASSUME Consume PROVE OutOk(m)'
  BY <1>20, <1>s DEF Consume, callerVars, wireVars
<1>21. ASSUME Emit PROVE OutOk(m)'
  BY <1>21, <1>s DEF Emit, callerVars, wireVars
<1>22. CASE UNCHANGED vars
  BY <1>22, <1>a DEF vars, OutOk, Sent, callerVars, clientVars, wireVars, linkVars, streamVars
<1> QED BY <1>1, <1>2, <1>3, <1>4, <1>5, <1>6, <1>7, <1>8, <1>9, <1>10, <1>11, <1>12, <1>13,
     <1>14, <1>15, <1>16, <1>17, <1>18, <1>19, <1>20, <1>21, <1>22 DEF Next, CallerStep

\* Replies stay with commands that ran.
LEMMA InStep ==
    ASSUME IInv, [Next]_vars
    PROVE  InInv'
<1> SUFFICES ASSUME NEW m \in Conns PROVE InOk(m)'
  BY DEF InInv
<1> USE ConnsAre
<1>a. /\ TypedCallers /\ TypedConns /\ InOk(m) /\ ran \subseteq Commands
      /\ in[m] \in Seq(Message)
      /\ \A d \in Commands : CallerOk(d)
  BY Queues DEF IInv, Shape, Typed, TypedLink, CallerInv, InInv
<1>s. ASSUME UNCHANGED <<on, in, ran>> PROVE InOk(m)'
  BY <1>a, <1>s DEF InOk, Answered
\* Messages leave.
<1>h. ASSUME UNCHANGED <<on, ran>>,
             \A x : Occurs(in'[m], x) => Occurs(in[m], x),
             \A x : Precedes(in'[m], x, x) => Precedes(in[m], x, x)
      PROVE  InOk(m)'
  BY <1>a, <1>h DEF InOk, Answered
\* The head leaves.
<1>i. ASSUME NEW n \in Conns, in[n] # <<>>, in' = [in EXCEPT ![n] = Tail(@)], UNCHANGED <<on, ran>>
      PROVE  InOk(m)'
  <2>1. in'[m] = IF m = n THEN Tail(in[m]) ELSE in[m]
    BY <1>a, <1>i DEF TypedConns
  <2> QED BY <1>a, <1>h, <1>i, <2>1, OrderTail
\* A message arrives; a reply is the first one to its command.
<1>t. ASSUME NEW n \in Conns, NEW x \in Message, in' = [in EXCEPT ![n] = Append(@, x)],
             UNCHANGED on, ran \subseteq ran',
             \A d \in Commands : x = ReplyTo(d) => on[d] = n /\ d \in ran' /\ d \notin ran
      PROVE  InOk(m)'
  <2>0. /\ UNCHANGED on /\ ran \subseteq ran'
        /\ \A d \in Commands : x = ReplyTo(d) => on[d] = n /\ d \in ran' /\ d \notin ran
    BY <1>t
  <2>1. in'[m] = IF m = n THEN Append(in[m], x) ELSE in[m]
    BY <1>a, <1>t DEF TypedConns
  <2>2. CASE m # n
    BY <1>a, <2>0, <2>1, <2>2 DEF InOk, Answered
  <2>3. CASE m = n
    <3>1. /\ \A y : Occurs(in'[m], y) <=> Occurs(in[m], y) \/ y = x
          /\ \A y : Precedes(in'[m], y, y) <=> Precedes(in[m], y, y) \/ (Occurs(in[m], y) /\ y = x)
      BY <1>a, <2>1, <2>3, OrderAppend
    <3>2. \A y : Precedes(in[m], y, y) => Occurs(in[m], y)
      BY OrderOccurs
    <3> QED BY <1>a, <2>0, <2>3, <3>1, <3>2 DEF InOk, Answered
  <2> QED BY <2>2, <2>3
<1>1. ASSUME NEW c \in Commands, Issue(c) PROVE InOk(m)'
  <2>1. UNCHANGED <<in, ran>> /\ \A d \in Commands \ {c} : on'[d] = on[d]
    BY <1>1, <1>a DEF Issue, Return, wireVars, TypedCallers
  <2>2. c \notin ran
    BY <1>1, <1>a DEF Issue, CallerOk
  <2> QED BY <1>a, <2>1, <2>2 DEF InOk, Answered
<1>2. ASSUME NEW c \in Commands, TakeTurn(c) PROVE InOk(m)'
  BY <1>2, <1>s DEF TakeTurn, Return, callerVars, wireVars
<1>3. ASSUME NEW c \in Commands, NoTurn(c) PROVE InOk(m)'
  BY <1>3, <1>s DEF NoTurn, Return, callerVars, wireVars
<1>4. ASSUME NEW c \in Commands, Register(c) PROVE InOk(m)'
  BY <1>4, <1>s DEF Register, Return, callerVars, wireVars
<1>5. ASSUME NEW c \in Commands, Written(c) PROVE InOk(m)'
  BY <1>5, <1>s DEF Written, Return, callerVars, wireVars
<1>6. ASSUME NEW c \in Commands, WriteFails(c) PROVE InOk(m)'
  BY <1>6, <1>s DEF WriteFails, Return, callerVars, wireVars
<1>7. ASSUME NEW c \in Commands, TakeReply(c) PROVE InOk(m)'
  BY <1>7, <1>s DEF TakeReply, Return, callerVars, wireVars
<1>8. ASSUME NEW c \in Commands, TimeOut(c) PROVE InOk(m)'
  BY <1>8, <1>s DEF TimeOut, Return, callerVars, wireVars
<1>9. ASSUME NEW c \in Commands, SeesClosed(c) PROVE InOk(m)'
  BY <1>9, <1>s DEF SeesClosed, Return, callerVars, wireVars
<1>10. ASSUME NEW n \in Conns, ReadReply(n) PROVE InOk(m)'
  BY <1>10, <1>i DEF ReadReply, IsRead, callerVars
<1>11. ASSUME NEW n \in Conns, ReadEvent(n) PROVE InOk(m)'
  BY <1>11, <1>i DEF ReadEvent, IsRead, callerVars
<1>12. ASSUME NEW n \in Conns, ReadFails(n) PROVE InOk(m)'
  BY <1>12, <1>s DEF ReadFails, Return, callerVars, wireVars
<1>13. ASSUME NEW n \in Conns, LoopEnds(n) PROVE InOk(m)'
  BY <1>13, <1>s DEF LoopEnds, Return, callerVars, wireVars
<1>14. ASSUME NEW n \in Conns, SwitchRuns(n) PROVE InOk(m)'
  <2>1. out[n] # <<>> /\ UNCHANGED on /\ ran' = ran \cup {Head(out[n])}
        /\ in' = [in EXCEPT ![n] = IF broken[n] THEN @ ELSE Append(@, ReplyTo(Head(out[n])))]
    BY <1>14 DEF SwitchRuns, callerVars
  <2>2. OutOk(n) /\ out[n] \in Seq(Commands) /\ Head(out[n]) \in Commands
    BY <2>1, Queues DEF IInv, Shape, OutInv, QueueFacts
  <2>4. on[Head(out[n])] = n /\ Head(out[n]) \notin ran
    BY <2>1, <2>2, OrderTail DEF OutOk, Sent
  <2>5. CASE broken[n]
    <3>1. in' = in
      BY <1>a, <2>1, <2>5 DEF TypedConns
    <3> QED BY <1>a, <2>1, <3>1 DEF InOk, Answered
  <2>6. CASE ~broken[n]
    <3>1. ReplyTo(Head(out[n])) \in Message
      BY <2>2 DEF Message, Replies
    <3>2. \A d \in Commands : ReplyTo(Head(out[n])) = ReplyTo(d) => d = Head(out[n])
      BY <2>2, Messages
    <3>3. in' = [in EXCEPT ![n] = Append(@, ReplyTo(Head(out[n])))]
      BY <2>1, <2>6
    <3>4. /\ UNCHANGED on /\ ran \subseteq ran'
          /\ \A d \in Commands : ReplyTo(Head(out[n])) = ReplyTo(d) =>
                 on[d] = n /\ d \in ran' /\ d \notin ran
      BY <2>1, <2>4, <3>2
    <3> QED BY <1>t, <3>1, <3>3, <3>4
  <2> QED BY <2>5, <2>6
<1>15. ASSUME NEW n \in Conns, Break(n) PROVE InOk(m)'
  <2>1. PICK k \in 0..Len(in[n]) : in' = [in EXCEPT ![n] = SubSeq(@, 1, k)]
    BY <1>15 DEF Break
  <2>2. UNCHANGED <<on, ran>>
    BY <1>15 DEF Break, callerVars
  <2>3. in'[m] = IF m = n THEN SubSeq(in[m], 1, k) ELSE in[m]
    BY <1>a, <2>1 DEF TypedConns
  <2>4. /\ \A x : Occurs(in'[m], x) => Occurs(in[m], x)
        /\ \A x : Precedes(in'[m], x, x) => Precedes(in[m], x, x)
    BY <1>a, <2>1, <2>3, OrderPrefix
  <2> QED BY <1>h, <2>2, <2>4
<1>16. ASSUME Connect PROVE InOk(m)'
  BY <1>16, <1>s DEF Connect, Return, callerVars, wireVars
<1>17. ASSUME HooksRun PROVE InOk(m)'
  BY <1>17, <1>s DEF HooksRun, Return, callerVars, wireVars
<1>18. ASSUME Pump PROVE InOk(m)'
  BY <1>18, <1>s DEF Pump, Return, callerVars, wireVars
<1>19. ASSUME Lost PROVE InOk(m)'
  BY <1>19, <1>s DEF Lost, Return, callerVars, wireVars
<1>20. ASSUME Consume PROVE InOk(m)'
  BY <1>20, <1>s DEF Consume, Return, callerVars, wireVars
<1>21. ASSUME Emit PROVE InOk(m)'
  <2>1. /\ in' = [in EXCEPT ![client] = Append(@, EventNo(emitted + 1))] /\ UNCHANGED <<on, ran>>
        /\ emitted + 1 \in 1..MaxEvents /\ client \in Conns
    BY <1>21 DEF Emit, callerVars, IInv, Shape, EventType, Typed, TypedLink
  <2>2. EventNo(emitted + 1) \in Message
    BY <2>1 DEF Message
  <2>3. \A d \in Commands : EventNo(emitted + 1) # ReplyTo(d)
    BY <2>1, Messages
  <2> QED BY <1>t, <2>1, <2>2, <2>3
<1>22. CASE UNCHANGED vars
  BY <1>22, <1>a DEF vars, InOk, Answered, callerVars, clientVars, wireVars, linkVars, streamVars
<1> QED BY <1>1, <1>2, <1>3, <1>4, <1>5, <1>6, <1>7, <1>8, <1>9, <1>10, <1>11, <1>12, <1>13,
     <1>14, <1>15, <1>16, <1>17, <1>18, <1>19, <1>20, <1>21, <1>22 DEF Next, CallerStep

\* Waiters stay queued once, on their connection.
LEMMA WaiterStep ==
    ASSUME IInv, [Next]_vars
    PROVE  WaiterInv'
<1> SUFFICES ASSUME NEW m \in Conns PROVE WaiterOk(m)'
  BY DEF WaiterInv
<1> USE ConnsAre
<1>a. /\ TypedCallers /\ TypedConns /\ WaiterOk(m) /\ pending[m] \in Seq(Commands)
      /\ \A d \in Commands : CallerOk(d)
  BY Queues DEF IInv, Shape, Typed, TypedLink, CallerInv, WaiterInv
<1>s. ASSUME UNCHANGED <<pc, on, pending>> PROVE WaiterOk(m)'
  BY <1>a, <1>s DEF WaiterOk, Waits
\* A caller that waits may stop waiting, and one that does not may do as it likes.
<1>q. ASSUME NEW c \in Commands, UNCHANGED pending,
             \A d \in Commands \ {c} : pc'[d] = pc[d] /\ on'[d] = on[d],
             \/ pc[c] \notin {"write", "reply", "done"}
             \/ pc'[c] \in {"reply", "done"} /\ on'[c] = on[c]
      PROVE  WaiterOk(m)'
  BY <1>a, <1>q DEF WaiterOk, Waits
<1>1. ASSUME NEW c \in Commands, Issue(c) PROVE WaiterOk(m)'
  BY <1>1, <1>a, <1>q DEF Issue, Return, TypedCallers, clientVars
<1>2. ASSUME NEW c \in Commands, TakeTurn(c) PROVE WaiterOk(m)'
  BY <1>2, <1>a, <1>q DEF TakeTurn, Return, TypedCallers, clientVars
<1>3. ASSUME NEW c \in Commands, NoTurn(c) PROVE WaiterOk(m)'
  BY <1>3, <1>a, <1>q DEF NoTurn, Return, TypedCallers, clientVars
<1>4. ASSUME NEW c \in Commands, Register(c) PROVE WaiterOk(m)'
  <2>1. pc[c] = "check" /\ on[c] \in Conns /\ UNCHANGED on
    BY <1>4, <1>a DEF Register, Return, CallerOk
  <2>2. ASSUME closed[on[c]] PROVE WaiterOk(m)'
    <3>1. pc' = [pc EXCEPT ![c] = "done"] /\ UNCHANGED pending
      BY <1>4, <2>2 DEF Register, Return
    <3> QED BY <1>a, <1>q, <2>1, <3>1 DEF TypedCallers
  <2>3. ASSUME ~closed[on[c]] PROVE WaiterOk(m)'
    <3>1. /\ pc' = [pc EXCEPT ![c] = "write"]
          /\ pending' = [pending EXCEPT ![on[c]] = Append(@, c)]
      BY <1>4, <2>3 DEF Register
    <3>2. pending'[m] = IF m = on[c] THEN Append(pending[m], c) ELSE pending[m]
      BY <1>a, <2>1, <3>1 DEF TypedConns
    <3>3. /\ \A d \in Commands \ {c} : pc'[d] = pc[d]
          /\ pc'[c] = "write" /\ ~Waits(m, c)
      BY <1>a, <2>1, <3>1 DEF TypedCallers, WaiterOk
    <3>4. /\ \A d \in Commands : Waits(m, d)' <=> Waits(m, d) \/ (d = c /\ m = on[c])
          /\ \A d \in Commands : Precedes(pending'[m], d, d) => Precedes(pending[m], d, d)
      BY <1>a, <3>2, <3>3, OrderAppend DEF Waits
    <3>5. ~Precedes(pending[m], c, c)
      BY <3>3, OrderOccurs DEF Waits
    <3> QED BY <1>a, <2>1, <3>3, <3>4, <3>5 DEF WaiterOk
  <2> QED BY <2>2, <2>3
<1>5. ASSUME NEW c \in Commands, Written(c) PROVE WaiterOk(m)'
  BY <1>5, <1>a, <1>q DEF Written, Return, TypedCallers, clientVars
<1>6. ASSUME NEW c \in Commands, WriteFails(c) PROVE WaiterOk(m)'
  BY <1>6, <1>a, <1>q DEF WriteFails, Return, TypedCallers, clientVars
<1>7. ASSUME NEW c \in Commands, TakeReply(c) PROVE WaiterOk(m)'
  BY <1>7, <1>a, <1>q DEF TakeReply, Return, TypedCallers, clientVars
<1>8. ASSUME NEW c \in Commands, TimeOut(c) PROVE WaiterOk(m)'
  BY <1>8, <1>a, <1>q DEF TimeOut, Return, TypedCallers, clientVars
<1>9. ASSUME NEW c \in Commands, SeesClosed(c) PROVE WaiterOk(m)'
  BY <1>9, <1>a, <1>q DEF SeesClosed, Return, TypedCallers, clientVars
<1>10. ASSUME NEW n \in Conns, ReadReply(n) PROVE WaiterOk(m)'
  <2>1. /\ UNCHANGED <<pc, on>>
        /\ UNCHANGED pending \/ (pending[n] # <<>> /\ pending' = [pending EXCEPT ![n] = Tail(@)])
    BY <1>10 DEF ReadReply, callerVars
  <2>2. CASE UNCHANGED pending
    BY <1>s, <2>1, <2>2
  <2>3. CASE pending[n] # <<>> /\ pending' = [pending EXCEPT ![n] = Tail(@)]
    <3>1. pending'[m] = IF m = n THEN Tail(pending[m]) ELSE pending[m]
      BY <1>a, <2>3 DEF TypedConns
    <3>2. \A d \in Commands : /\ Waits(m, d)' => Waits(m, d)
                              /\ Precedes(pending'[m], d, d) => Precedes(pending[m], d, d)
      BY <1>a, <2>3, <3>1, OrderTail DEF Waits
    <3> QED BY <1>a, <2>1, <3>2 DEF WaiterOk
  <2> QED BY <2>1, <2>2, <2>3
<1>11. ASSUME NEW n \in Conns, ReadEvent(n) PROVE WaiterOk(m)'
  BY <1>11, <1>s DEF ReadEvent, callerVars, clientVars
<1>12. ASSUME NEW n \in Conns, ReadFails(n) PROVE WaiterOk(m)'
  <2>1. UNCHANGED <<pc, on>> /\ pending' = [pending EXCEPT ![n] = <<>>]
    BY <1>12 DEF ReadFails, callerVars
  <2>2. pending'[m] = IF m = n THEN <<>> ELSE pending[m]
    BY <1>a, <2>1 DEF TypedConns
  <2>3. \A d \in Commands : /\ Waits(m, d)' => Waits(m, d)
                            /\ Precedes(pending'[m], d, d) => Precedes(pending[m], d, d)
    BY <2>2, OrderEmpty DEF Waits
  <2> QED BY <1>a, <2>1, <2>3 DEF WaiterOk
<1>13. ASSUME NEW n \in Conns, LoopEnds(n) PROVE WaiterOk(m)'
  BY <1>13, <1>s DEF LoopEnds, callerVars, clientVars
<1>14. ASSUME NEW n \in Conns, SwitchRuns(n) PROVE WaiterOk(m)'
  BY <1>14, <1>s DEF SwitchRuns, callerVars, clientVars
<1>15. ASSUME NEW n \in Conns, Break(n) PROVE WaiterOk(m)'
  BY <1>15, <1>s DEF Break, callerVars, clientVars
<1>16. ASSUME Connect PROVE WaiterOk(m)'
  BY <1>16, <1>s DEF Connect, callerVars, clientVars
<1>17. ASSUME HooksRun PROVE WaiterOk(m)'
  BY <1>17, <1>s DEF HooksRun, callerVars, clientVars
<1>18. ASSUME Pump PROVE WaiterOk(m)'
  BY <1>18, <1>s DEF Pump, callerVars, clientVars
<1>19. ASSUME Lost PROVE WaiterOk(m)'
  BY <1>19, <1>s DEF Lost, callerVars, clientVars
<1>20. ASSUME Consume PROVE WaiterOk(m)'
  BY <1>20, <1>s DEF Consume, callerVars, clientVars
<1>21. ASSUME Emit PROVE WaiterOk(m)'
  BY <1>21, <1>s DEF Emit, callerVars, clientVars
<1>22. CASE UNCHANGED vars
  BY <1>22, <1>a DEF vars, WaiterOk, Waits, callerVars, clientVars, wireVars, linkVars, streamVars
<1> QED BY <1>1, <1>2, <1>3, <1>4, <1>5, <1>6, <1>7, <1>8, <1>9, <1>10, <1>11, <1>12, <1>13,
     <1>14, <1>15, <1>16, <1>17, <1>18, <1>19, <1>20, <1>21, <1>22 DEF Next, CallerStep

\* Waiters and replies stay aligned while the loop reads.
LEMMA AlignStep ==
    ASSUME IInv, [Next]_vars
    PROVE  AlignInv'
<1> SUFFICES ASSUME NEW m \in Conns, loop'[m] = "reading"
             PROVE  HasWaiter(m)' /\ Ordered(m)' /\ Gapless(m)' /\ WriterLast(m)'
  BY DEF AlignInv, Aligned
<1> USE ConnsAre
<1> DEFINE Q == HasWaiter(m)' /\ Ordered(m)' /\ Gapless(m)' /\ WriterLast(m)'
<1>a. /\ TypedCallers /\ TypedConns
      /\ pending[m] \in Seq(Commands) /\ out[m] \in Seq(Commands) /\ in[m] \in Seq(Message)
      /\ \A d \in Commands : CallerOk(d)
      /\ WaiterOk(m) /\ OutOk(m) /\ InOk(m) /\ TurnInv
  BY Queues DEF IInv, Shape, Typed, CallerInv, WaiterInv, OutInv, InInv
<1>b. ASSUME loop[m] = "reading"
      PROVE  HasWaiter(m) /\ Ordered(m) /\ Gapless(m) /\ WriterLast(m)
  BY <1>b DEF IInv, AlignInv, Aligned
\* Nothing on this connection moves, and the same callers write on it.
<1>s. ASSUME pending'[m] = pending[m], in'[m] = in[m], out'[m] = out[m], broken'[m] = broken[m],
             loop[m] = "reading", closed[m] => closed'[m],
             \A d \in Commands :
                 /\ pc'[d] = "write" /\ on'[d] = m => pc[d] = "write" /\ on[d] = m
                 /\ pc[d] = "write" => pc'[d] = "write"
      PROVE  Q
  <2>1. /\ \A d : Answered(m, d)' <=> Answered(m, d)
        /\ \A d : Sent(m, d)' <=> Sent(m, d)
        /\ \A d : Waits(m, d)' <=> Waits(m, d)
    BY <1>s DEF Answered, Sent, Waits
  <2>2. HasWaiter(m)' /\ Ordered(m)' /\ Gapless(m)'
    BY <1>b, <1>s, <2>1 DEF HasWaiter, Ordered, Gapless
  <2>3. WriterLast(m)'
    BY <1>b, <1>s, <2>1 DEF WriterLast
  <2> QED BY <2>2, <2>3
\* A caller that writes on this connection has put its command on the wire, or
\* nothing goes out on it any more.
<1>w. ASSUME NEW c \in Commands, pc[c] = "write", on[c] = m, loop[m] = "reading", UNCHANGED on,
             pending'[m] = pending[m], in'[m] = in[m], broken'[m] = broken[m],
             closed[m] => closed'[m],
             pc'[c] # "write", \A d \in Commands \ {c} : pc'[d] = pc[d],
             \/ out'[m] = Append(out[m], c) /\ ~broken[m] /\ ~closed[m]
             \/ out'[m] = out[m] /\ (broken[m] \/ closed'[m])
      PROVE  Q
  <2>0. HasWaiter(m) /\ Ordered(m) /\ Gapless(m) /\ WriterLast(m)
    BY <1>b, <1>w
  <2>1. /\ \A d : Answered(m, d)' <=> Answered(m, d)
        /\ \A d : Waits(m, d)' <=> Waits(m, d)
    BY <1>w DEF Answered, Waits
  <2>2. \A d \in Commands \ {c} : pc[d] = "write" => on[d] # m
    BY <1>a, <1>w DEF TurnInv
  <2>3. Waits(m, c) /\ \A d \in Commands \ {c} : Waits(m, d) => Precedes(pending[m], d, c)
    BY <1>w, <2>0 DEF WriterLast
  <2>4. ~Answered(m, c) /\ ~Sent(m, c)
    BY <1>a, <1>w DEF InOk, OutOk, CallerOk
  <2>5. \A d \in Commands : pc'[d] = "write" => on'[d] # m
    BY <1>w, <2>2
  <2>6. CASE out'[m] = out[m] /\ (broken[m] \/ closed'[m])
    <3>1. \A d : Sent(m, d)' <=> Sent(m, d)
      BY <2>6 DEF Sent
    <3>2. HasWaiter(m)' /\ Ordered(m)' /\ Gapless(m)'
      BY <1>w, <2>0, <2>1, <2>6, <3>1 DEF HasWaiter, Ordered, Gapless
    <3>3. WriterLast(m)'
      BY <1>w, <2>5, <2>6 DEF WriterLast
    <3> QED BY <3>2, <3>3
  <2>7. CASE out'[m] = Append(out[m], c) /\ ~broken[m] /\ ~closed[m]
    <3>0. /\ UNCHANGED on /\ pending'[m] = pending[m] /\ in'[m] = in[m] /\ broken'[m] = broken[m]
          /\ \A d \in Commands \ {c} : pc'[d] = pc[d]
      BY <1>w
    <3>1. /\ \A d \in Commands : Sent(m, d)' <=> Sent(m, d) \/ d = c
          /\ \A d, e \in Commands : Precedes(out'[m], d, e) <=>
                                        Precedes(out[m], d, e) \/ (Sent(m, d) /\ e = c)
      BY <1>a, <2>7, OrderAppend DEF Sent
    <3>2. HasWaiter(m)'
      BY <2>0, <2>1, <2>3, <3>0, <3>1 DEF HasWaiter
    <3>3. \A d \in Commands \ {c} : Waits(m, d) => Answered(m, d) \/ Sent(m, d)
      <4>1. ASSUME NEW d \in Commands, Waits(m, d), pc[d] = "write" PROVE on[d] = m
        BY <1>a, <4>1 DEF WaiterOk
      <4> QED BY <2>0, <2>2, <2>7, <4>1 DEF WriterLast
    <3>4. \A d \in Commands : (Answered(m, d) \/ Sent(m, d)) => Precedes(pending[m], d, c)
      BY <2>0, <2>3, <2>4, <2>7 DEF HasWaiter
    <3>5. Ordered(m)'
      BY <2>0, <2>1, <2>7, <3>0, <3>1, <3>4 DEF Ordered
    <3>6. \A d, e \in Commands : Precedes(pending[m], d, e) => Waits(m, d) /\ d # e
      <4>1. \A d, e \in Commands : Precedes(pending[m], d, e) => Waits(m, d)
        BY OrderOccurs DEF Waits
      <4> QED BY <1>a, <4>1 DEF WaiterOk
    <3>7. Gapless(m)'
      BY <2>0, <2>1, <2>7, <3>0, <3>1, <3>3, <3>6 DEF Gapless
    <3>8. WriterLast(m)'
      BY <2>1, <2>5, <3>1, <3>3 DEF WriterLast
    <3> QED BY <3>2, <3>5, <3>7, <3>8
  <2> QED BY <1>w, <2>6, <2>7
\* A caller stops writing on another connection.
<1>z. ASSUME NEW c \in Commands, on[c] # m, UNCHANGED on,
             pending'[m] = pending[m], in'[m] = in[m], out'[m] = out[m], broken'[m] = broken[m],
             loop[m] = "reading", closed'[m] = closed[m],
             \A d \in Commands : pc'[d] = "write" /\ on'[d] = m => pc[d] = "write" /\ on[d] = m,
             \A d \in Commands \ {c} : pc[d] = "write" => pc'[d] = "write"
      PROVE  Q
  <2>1. /\ \A d : Answered(m, d)' <=> Answered(m, d)
        /\ \A d : Sent(m, d)' <=> Sent(m, d)
        /\ \A d : Waits(m, d)' <=> Waits(m, d)
    BY <1>z DEF Answered, Sent, Waits
  <2>2. HasWaiter(m)' /\ Ordered(m)' /\ Gapless(m)'
    BY <1>b, <1>z, <2>1 DEF HasWaiter, Ordered, Gapless
  <2>3. ~Waits(m, c)
    BY <1>a, <1>z DEF WaiterOk
  <2>4. WriterLast(m)'
    BY <1>b, <1>z, <2>1, <2>3 DEF WriterLast
  <2> QED BY <2>2, <2>4
\* An event comes or goes.
<1>e. ASSUME UNCHANGED <<pc, on, pending, out, broken, closed>>, loop[m] = "reading",
             \A d \in Commands : Occurs(in'[m], ReplyTo(d)) <=> Occurs(in[m], ReplyTo(d)),
             \A d, e \in Commands : Precedes(in'[m], ReplyTo(d), ReplyTo(e)) <=>
                                        Precedes(in[m], ReplyTo(d), ReplyTo(e))
      PROVE  Q
  <2>1. /\ \A d \in Commands : Answered(m, d)' <=> Answered(m, d)
        /\ \A d : Sent(m, d)' <=> Sent(m, d)
        /\ \A d : Waits(m, d)' <=> Waits(m, d)
    BY <1>e DEF Answered, Sent, Waits
  <2>2. HasWaiter(m)' /\ Ordered(m)' /\ Gapless(m)'
    BY <1>b, <1>e, <2>1 DEF HasWaiter, Ordered, Gapless
  <2>3. WriterLast(m)'
    BY <1>b, <1>e, <2>1 DEF WriterLast
  <2> QED BY <2>2, <2>3
<1>1. ASSUME NEW c \in Commands, Issue(c) PROVE Q
  <2>1. /\ pending'[m] = pending[m] /\ in'[m] = in[m] /\ out'[m] = out[m] /\ broken'[m] = broken[m]
        /\ loop[m] = "reading" /\ closed'[m] = closed[m]
    BY <1>1 DEF Issue, clientVars, wireVars
  <2>2. \A d \in Commands : pc'[d] = "write" <=> pc[d] = "write"
    BY <1>1, <1>a DEF Issue, Return, TypedCallers
  <2>3. \A d \in Commands : pc'[d] = "write" => on'[d] = on[d]
    BY <1>1, <1>a, <2>2 DEF Issue, Return, TypedCallers
  <2> QED BY <1>s, <2>1, <2>2, <2>3
<1>2. ASSUME NEW c \in Commands, TakeTurn(c) PROVE Q
  <2>1. /\ pending'[m] = pending[m] /\ in'[m] = in[m] /\ out'[m] = out[m] /\ broken'[m] = broken[m]
        /\ loop[m] = "reading" /\ closed'[m] = closed[m]
    BY <1>2 DEF TakeTurn, clientVars, wireVars
  <2>2. \A d \in Commands : pc'[d] = "write" <=> pc[d] = "write"
    BY <1>2, <1>a DEF TakeTurn, Return, TypedCallers
  <2>3. \A d \in Commands : pc'[d] = "write" => on'[d] = on[d]
    BY <1>2, <1>a, <2>2 DEF TakeTurn, Return, TypedCallers
  <2> QED BY <1>s, <2>1, <2>2, <2>3
<1>3. ASSUME NEW c \in Commands, NoTurn(c) PROVE Q
  <2>1. /\ pending'[m] = pending[m] /\ in'[m] = in[m] /\ out'[m] = out[m] /\ broken'[m] = broken[m]
        /\ loop[m] = "reading" /\ closed'[m] = closed[m]
    BY <1>3 DEF NoTurn, clientVars, wireVars
  <2>2. \A d \in Commands : pc'[d] = "write" <=> pc[d] = "write"
    BY <1>3, <1>a DEF NoTurn, Return, TypedCallers
  <2>3. \A d \in Commands : pc'[d] = "write" => on'[d] = on[d]
    BY <1>3, <1>a, <2>2 DEF NoTurn, Return, TypedCallers
  <2> QED BY <1>s, <2>1, <2>2, <2>3
<1>4. ASSUME NEW c \in Commands, Register(c) PROVE Q
  <2>0. pc[c] = "check" /\ on[c] \in Conns /\ UNCHANGED <<on, in, out, broken, loop, closed>>
    BY <1>4, <1>a DEF Register, Return, CallerOk, wireVars
  <2>1. ASSUME closed[on[c]] PROVE Q
    <3>1. UNCHANGED pending /\ pc' = [pc EXCEPT ![c] = "done"]
      BY <1>4, <2>1 DEF Register, Return
    <3>2. \A d \in Commands : pc'[d] = "write" <=> pc[d] = "write"
      BY <1>a, <2>0, <3>1 DEF TypedCallers
    <3> QED BY <1>s, <2>0, <3>1, <3>2
  <2>2. ASSUME ~closed[on[c]] PROVE Q
    <3>1. /\ pending' = [pending EXCEPT ![on[c]] = Append(@, c)]
          /\ pc' = [pc EXCEPT ![c] = "write"]
      BY <1>4, <2>2 DEF Register
    <3>2. pc'[c] = "write" /\ \A d \in Commands \ {c} : pc'[d] = pc[d]
      BY <1>a, <3>1 DEF TypedCallers
    <3>3. pending'[m] = IF m = on[c] THEN Append(pending[m], c) ELSE pending[m]
      BY <1>a, <2>0, <3>1 DEF TypedConns
    <3>4. CASE m # on[c]
      BY <1>s, <2>0, <3>2, <3>3, <3>4
    <3>5. CASE m = on[c]
      <4>1. HasWaiter(m) /\ Ordered(m) /\ Gapless(m) /\ WriterLast(m)
        BY <1>b, <2>0
      <4>2. ~Answered(m, c) /\ ~Sent(m, c) /\ ~Waits(m, c)
        BY <1>a, <2>0 DEF InOk, OutOk, CallerOk, WaiterOk
      <4>3. /\ \A d \in Commands : Waits(m, d)' <=> Waits(m, d) \/ d = c
            /\ \A d, e \in Commands : Precedes(pending'[m], d, e) <=>
                                          Precedes(pending[m], d, e) \/ (Waits(m, d) /\ e = c)
        BY <1>a, <3>3, <3>5, OrderAppend DEF Waits
      <4>4. /\ \A d : Answered(m, d)' <=> Answered(m, d)
            /\ \A d : Sent(m, d)' <=> Sent(m, d)
        BY <2>0 DEF Answered, Sent
      <4>5. \A d \in Commands : pc[d] = "write" => on[d] # m
        BY <1>a, <2>0, <3>5 DEF TurnInv
      <4>6. HasWaiter(m)' /\ Ordered(m)'
        BY <2>0, <4>1, <4>3, <4>4 DEF HasWaiter, Ordered
      <4>7. Gapless(m)'
        BY <2>0, <4>1, <4>2, <4>3, <4>4 DEF Gapless
      <4>8. WriterLast(m)'
        BY <2>0, <3>2, <4>1, <4>3, <4>4, <4>5 DEF WriterLast
      <4> QED BY <4>6, <4>7, <4>8
    <3> QED BY <3>4, <3>5
  <2> QED BY <2>1, <2>2
<1>5. ASSUME NEW c \in Commands, Written(c) PROVE Q
  <2>1. /\ pc[c] = "write" /\ pc' = [pc EXCEPT ![c] = "reply"] /\ ~closed[on[c]]
        /\ UNCHANGED <<on, pending, in, broken, closed, loop>>
        /\ out' = [out EXCEPT ![on[c]] = IF broken[on[c]] THEN @ ELSE Append(@, c)]
    BY <1>5 DEF Written
  <2>2. on[c] \in Conns /\ pc'[c] # "write" /\ \A d \in Commands \ {c} : pc'[d] = pc[d]
    BY <1>a, <2>1 DEF CallerOk, TypedCallers
  <2>3. CASE m # on[c]
    <3>1. out'[m] = out[m]
      BY <1>a, <2>1, <2>2, <2>3 DEF TypedConns
    <3>2. \A d \in Commands : pc'[d] = "write" /\ on'[d] = m => pc[d] = "write" /\ on[d] = m
      BY <2>1, <2>2
    <3>3. \A d \in Commands \ {c} : pc[d] = "write" => pc'[d] = "write"
      BY <2>2
    <3> QED BY <1>z, <2>1, <2>3, <3>1, <3>2, <3>3
  <2>4. CASE m = on[c]
    <3>1. \/ out'[m] = Append(out[m], c) /\ ~broken[m] /\ ~closed[m]
          \/ out'[m] = out[m] /\ broken[m]
      BY <1>a, <2>1, <2>2, <2>4 DEF TypedConns
    <3> QED BY <1>w, <2>1, <2>2, <2>4, <3>1
  <2> QED BY <2>3, <2>4
<1>6. ASSUME NEW c \in Commands, WriteFails(c) PROVE Q
  <2>1. /\ pc[c] = "write" /\ pc' = [pc EXCEPT ![c] = "done"]
        /\ UNCHANGED <<on, pending, in, broken, loop>>
        /\ closed' = [closed EXCEPT ![on[c]] = TRUE]
    BY <1>6 DEF WriteFails, Return
  <2>a. \/ out' = out
        \/ \E whole \in BOOLEAN :
               out' = [out EXCEPT ![on[c]] =
                   IF whole /\ ~broken[on[c]] /\ ~closed[on[c]] THEN Append(@, c) ELSE @]
    BY <1>6 DEF WriteFails
  <2>2. on[c] \in Conns /\ pc'[c] # "write" /\ \A d \in Commands \ {c} : pc'[d] = pc[d]
    BY <1>a, <2>1 DEF CallerOk, TypedCallers
  <2>3. CASE m # on[c]
    <3>1. out'[m] = out[m] /\ closed'[m] = closed[m]
      BY <1>a, <2>1, <2>a, <2>2, <2>3 DEF TypedConns
    <3>2. \A d \in Commands : pc'[d] = "write" /\ on'[d] = m => pc[d] = "write" /\ on[d] = m
      BY <2>1, <2>2
    <3>3. \A d \in Commands \ {c} : pc[d] = "write" => pc'[d] = "write"
      BY <2>2
    <3> QED BY <1>z, <2>1, <2>3, <3>1, <3>2, <3>3
  <2>4. CASE m = on[c]
    <3>0. closed'[m]
      BY <1>a, <2>1, <2>4 DEF TypedConns
    <3>1. \/ out'[m] = Append(out[m], c) /\ ~broken[m] /\ ~closed[m]
          \/ out'[m] = out[m]
      BY <1>a, <2>a, <2>2, <2>4 DEF TypedConns
    <3> QED BY <1>w, <2>1, <2>2, <2>4, <3>0, <3>1
  <2> QED BY <2>3, <2>4
<1>7. ASSUME NEW c \in Commands, TakeReply(c) PROVE Q
  <2>1. /\ pending'[m] = pending[m] /\ in'[m] = in[m] /\ out'[m] = out[m] /\ broken'[m] = broken[m]
        /\ loop[m] = "reading" /\ closed'[m] = closed[m]
    BY <1>7 DEF TakeReply, clientVars, wireVars
  <2>2. \A d \in Commands : pc'[d] = "write" <=> pc[d] = "write"
    BY <1>7, <1>a DEF TakeReply, Return, TypedCallers
  <2>3. \A d \in Commands : pc'[d] = "write" => on'[d] = on[d]
    BY <1>7, <1>a, <2>2 DEF TakeReply, Return, TypedCallers
  <2> QED BY <1>s, <2>1, <2>2, <2>3
<1>8. ASSUME NEW c \in Commands, TimeOut(c) PROVE Q
  <2>1. /\ pending'[m] = pending[m] /\ in'[m] = in[m] /\ out'[m] = out[m] /\ broken'[m] = broken[m]
        /\ loop[m] = "reading" /\ closed'[m] = closed[m]
    BY <1>8 DEF TimeOut, clientVars, wireVars
  <2>2. \A d \in Commands : pc'[d] = "write" <=> pc[d] = "write"
    BY <1>8, <1>a DEF TimeOut, Return, TypedCallers
  <2>3. \A d \in Commands : pc'[d] = "write" => on'[d] = on[d]
    BY <1>8, <1>a, <2>2 DEF TimeOut, Return, TypedCallers
  <2> QED BY <1>s, <2>1, <2>2, <2>3
<1>9. ASSUME NEW c \in Commands, SeesClosed(c) PROVE Q
  <2>1. /\ pending'[m] = pending[m] /\ in'[m] = in[m] /\ out'[m] = out[m] /\ broken'[m] = broken[m]
        /\ loop[m] = "reading" /\ closed'[m] = closed[m]
    BY <1>9 DEF SeesClosed, clientVars, wireVars
  <2>2. \A d \in Commands : pc'[d] = "write" <=> pc[d] = "write"
    BY <1>9, <1>a DEF SeesClosed, Return, TypedCallers
  <2>3. \A d \in Commands : pc'[d] = "write" => on'[d] = on[d]
    BY <1>9, <1>a, <2>2 DEF SeesClosed, Return, TypedCallers
  <2> QED BY <1>s, <2>1, <2>2, <2>3
<1>10. ASSUME NEW n \in Conns, ReadReply(n) PROVE Q
  <2>1. ASSUME m # n PROVE Q
    <3>1. /\ pending'[m] = pending[m] /\ in'[m] = in[m] /\ out'[m] = out[m] /\ broken'[m] = broken[m]
          /\ loop[m] = "reading" /\ closed'[m] = closed[m]
      BY <1>10, <1>a, <2>1 DEF ReadReply, TypedConns, clientVars, wireVars
    <3>2. UNCHANGED <<pc, on>>
      BY <1>10 DEF ReadReply, callerVars
    <3> QED BY <1>s, <3>1, <3>2
  <2>2. ASSUME m = n PROVE Q
    <3>1. /\ pending[m] # <<>> /\ in[m] # <<>> /\ Head(in[m]) = ReplyTo(Head(pending[m]))
          /\ loop[m] = "reading" /\ Head(pending[m]) \in Commands
      BY <1>10, <2>2, HeadsMatch, Queues DEF ReadReply, IsRead, IInv, Shape, QueueFacts
    <3>2. pending'[m] = Tail(pending[m]) /\ in'[m] = Tail(in[m])
          /\ UNCHANGED <<pc, on, out, broken, closed>>
      BY <1>10, <1>a, <2>2, <3>1 DEF ReadReply, TypedConns, callerVars
    <3>0. PICK h \in Commands : h = Head(pending[m])
      BY <3>1
    <3>3. HasWaiter(m) /\ Ordered(m) /\ Gapless(m) /\ WriterLast(m)
      BY <1>b, <3>1
    <3>4. /\ \A d \in Commands : Waits(m, d) <=> d = h \/ Waits(m, d)'
          /\ \A d, e \in Commands : Precedes(pending[m], d, e) <=>
                 Precedes(pending'[m], d, e) \/ (d = h /\ Waits(m, e)')
      BY <1>a, <3>0, <3>1, <3>2, OrderTail DEF Waits
    <3>5. /\ \A x : Occurs(in[m], x) <=> x = ReplyTo(h) \/ Occurs(in'[m], x)
          /\ \A x, y : Precedes(in[m], x, y) <=>
                 Precedes(in'[m], x, y) \/ (x = ReplyTo(h) /\ Occurs(in'[m], y))
      BY <1>a, <3>0, <3>1, <3>2, OrderTail
    <3>6. Waits(m, h) /\ Answered(m, h)
      BY <3>1, <3>4, <3>5 DEF Answered
    <3>7. ~Waits(m, h)' /\ ~Answered(m, h)' /\ ~Sent(m, h)
      BY <1>a, <3>1, <3>4, <3>5, <3>6 DEF Answered, WaiterOk, InOk, OutOk
    <3>8. /\ \A d \in Commands : Answered(m, d) <=> d = h \/ Answered(m, d)'
          /\ \A d \in Commands : Sent(m, d)' <=> Sent(m, d)
      BY <3>1, <3>2, <3>5, Messages DEF Answered, Sent
    <3>9. HasWaiter(m)'
      BY <3>2, <3>3, <3>4, <3>7, <3>8 DEF HasWaiter
    <3>a. \A d, e \in Commands : Precedes(in'[m], ReplyTo(d), ReplyTo(e)) =>
              Answered(m, d)' /\ Answered(m, e)'
      <4>1. in'[m] \in Seq(Message)
        BY <3>1, <3>2, <1>a, HeadTailProperties
      <4> QED BY <4>1, OrderOccurs DEF Answered
    <3>b. \A d, e \in Commands : Precedes(out[m], d, e) => Sent(m, d) /\ Sent(m, e)
      BY OrderOccurs DEF Sent
    <3>c. ASSUME NEW d \in Commands, NEW e \in Commands,
                 \/ Precedes(in'[m], ReplyTo(d), ReplyTo(e))
                 \/ ~broken'[m] /\ Precedes(out'[m], d, e)
                 \/ ~broken'[m] /\ Answered(m, d)' /\ Sent(m, e)'
          PROVE  Precedes(pending'[m], d, e)
      <4>1. d # h
        BY <3>2, <3>7, <3>8, <3>a, <3>b, <3>c
      <4>2. Precedes(pending[m], d, e)
        BY <3>2, <3>3, <3>5, <3>8, <3>c DEF Ordered
      <4> QED BY <3>4, <4>1, <4>2
    <3>d. Ordered(m)'
      BY <3>c DEF Ordered
    <3>e. \A d, e \in Commands : Precedes(pending'[m], d, e) => Waits(m, d)' /\ Waits(m, e)'
      <4>1. pending'[m] \in Seq(Commands)
        BY <3>1, <3>2, <1>a, HeadTailProperties
      <4> QED BY <4>1, OrderOccurs DEF Waits
    <3>f. Gapless(m)'
      BY <3>2, <3>3, <3>4, <3>7, <3>8, <3>e DEF Gapless
    <3>g. pc[h] # "write"
      BY <1>a, <3>1, <3>6 DEF InOk, CallerOk
    <3>h. WriterLast(m)'
      BY <3>2, <3>3, <3>4, <3>7, <3>8, <3>g DEF WriterLast
    <3> QED BY <3>9, <3>d, <3>f, <3>h
  <2> QED BY <2>1, <2>2
<1>11. ASSUME NEW n \in Conns, ReadEvent(n) PROVE Q
  <2>1. ASSUME m # n PROVE Q
    <3>1. /\ pending'[m] = pending[m] /\ in'[m] = in[m] /\ out'[m] = out[m] /\ broken'[m] = broken[m]
          /\ loop[m] = "reading" /\ closed'[m] = closed[m]
      BY <1>11, <1>a, <2>1 DEF ReadEvent, TypedConns, clientVars, wireVars
    <3>2. UNCHANGED <<pc, on>>
      BY <1>11 DEF ReadEvent, callerVars
    <3> QED BY <1>s, <3>1, <3>2
  <2>2. ASSUME m = n PROVE Q
    <3>1. in[m] # <<>> /\ Head(in[m]).kind = "event" /\ loop[m] = "reading"
      BY <1>11, <2>2 DEF ReadEvent, IsRead
    <3>2. in'[m] = Tail(in[m]) /\ UNCHANGED <<pc, on, pending, out, broken, closed>>
      BY <1>11, <1>a, <2>2 DEF ReadEvent, TypedConns, callerVars
    <3>3. \A d \in Commands : Head(in[m]) # ReplyTo(d)
      BY <3>1, Messages
    <3> QED BY <1>e, <1>a, <3>1, <3>2, <3>3, OrderTail
  <2> QED BY <2>1, <2>2
<1>12. ASSUME NEW n \in Conns, ReadFails(n) PROVE Q
  <2>0. m # n
    BY <1>12, <1>a DEF ReadFails, TypedConns

  <2>1. ASSUME m # n PROVE Q
    <3>1. /\ pending'[m] = pending[m] /\ in'[m] = in[m] /\ out'[m] = out[m] /\ broken'[m] = broken[m]
          /\ loop[m] = "reading" /\ closed'[m] = closed[m]
      BY <1>12, <1>a, <2>1 DEF ReadFails, TypedConns, clientVars, wireVars
    <3>2. UNCHANGED <<pc, on>>
      BY <1>12 DEF ReadFails, callerVars
    <3> QED BY <1>s, <3>1, <3>2
  <2> QED BY <2>0, <2>1
<1>13. ASSUME NEW n \in Conns, LoopEnds(n) PROVE Q
  <2>1. m # n
    BY <1>13, <1>a DEF LoopEnds, TypedConns
  <2>2. /\ pending'[m] = pending[m] /\ in'[m] = in[m] /\ out'[m] = out[m] /\ broken'[m] = broken[m]
        /\ loop[m] = "reading" /\ closed'[m] = closed[m]
    BY <1>13, <1>a, <2>1 DEF LoopEnds, TypedConns, wireVars
  <2>3. UNCHANGED <<pc, on>>
    BY <1>13 DEF LoopEnds, callerVars
  <2> QED BY <1>s, <2>2, <2>3
<1>14. ASSUME NEW n \in Conns, SwitchRuns(n) PROVE Q
  <2>1. ASSUME m # n PROVE Q
    <3>1. /\ pending'[m] = pending[m] /\ in'[m] = in[m] /\ out'[m] = out[m] /\ broken'[m] = broken[m]
          /\ loop[m] = "reading" /\ closed'[m] = closed[m]
      BY <1>14, <1>a, <2>1 DEF SwitchRuns, TypedConns, clientVars, wireVars
    <3>2. UNCHANGED <<pc, on>>
      BY <1>14 DEF SwitchRuns, callerVars
    <3> QED BY <1>s, <3>1, <3>2
  <2>2. ASSUME m = n PROVE Q
    <3>1. /\ out[m] # <<>> /\ out' = [out EXCEPT ![m] = Tail(@)]
          /\ in' = [in EXCEPT ![m] = IF broken[m] THEN @ ELSE Append(@, ReplyTo(Head(out[m])))]
          /\ UNCHANGED <<pc, on, pending, broken, closed, loop>>
      BY <1>14, <2>2 DEF SwitchRuns, callerVars, clientVars
    <3>2. loop[m] = "reading" /\ HasWaiter(m) /\ Ordered(m) /\ Gapless(m) /\ WriterLast(m)
      BY <1>b, <3>1
    <3>3. Head(out[m]) \in Commands /\ out'[m] = Tail(out[m])
      BY <1>a, <3>1, HeadTailProperties DEF TypedConns
    <3>4. \A d : Waits(m, d)' <=> Waits(m, d)
      BY <3>1 DEF Waits
    <3>5. ASSUME broken[m] PROVE Q
      <4>1. in'[m] = in[m]
        BY <1>a, <3>1, <3>5 DEF TypedConns
      <4>2. \A d : Answered(m, d)' <=> Answered(m, d)
        BY <4>1 DEF Answered
      <4> QED BY <3>1, <3>2, <3>4, <3>5, <4>1, <4>2 DEF HasWaiter, Ordered, Gapless, WriterLast
    <3>6. ASSUME ~broken[m] PROVE Q
      <4>0. PICK h \in Commands : h = Head(out[m])
        BY <3>3
      <4>1. in'[m] = Append(in[m], ReplyTo(h)) /\ ReplyTo(h) \in Message
        BY <1>a, <3>1, <3>3, <3>6, <4>0 DEF TypedConns, Message, Replies
      <4>2. /\ \A x : Occurs(in'[m], x) <=> Occurs(in[m], x) \/ x = ReplyTo(h)
            /\ \A x, y : Precedes(in'[m], x, y) <=>
                             Precedes(in[m], x, y) \/ (Occurs(in[m], x) /\ y = ReplyTo(h))
        BY <1>a, <4>1, OrderAppend
      <4>3. /\ \A d \in Commands : Answered(m, d)' <=> Answered(m, d) \/ d = h
            /\ \A d, e \in Commands : Precedes(in'[m], ReplyTo(d), ReplyTo(e)) <=>
                   Precedes(in[m], ReplyTo(d), ReplyTo(e)) \/ (Answered(m, d) /\ e = h)
        BY <3>3, <4>2, Messages DEF Answered
      <4>4. /\ \A d \in Commands : Sent(m, d) <=> d = h \/ Sent(m, d)'
            /\ \A d, e \in Commands : Precedes(out[m], d, e) <=>
                   Precedes(out'[m], d, e) \/ (d = h /\ Sent(m, e)')
        BY <1>a, <3>1, <3>3, <4>0, OrderTail DEF Sent
      <4>5. ~Sent(m, h)' /\ ~Answered(m, h) /\ Sent(m, h)
        BY <1>a, <3>3, <4>4 DEF OutOk, InOk
      <4>6. HasWaiter(m)'
        BY <3>1, <3>2, <3>3, <3>4, <3>6, <4>3, <4>4 DEF HasWaiter
      <4>7. Ordered(m)'
        BY <3>1, <3>2, <3>3, <3>6, <4>3, <4>4, <4>5 DEF Ordered
      <4>8. \A d \in Commands : Precedes(pending[m], d, h) => Answered(m, d)
        <5>1. SUFFICES ASSUME NEW d \in Commands, Precedes(pending[m], d, h), Sent(m, d)
                       PROVE  FALSE
          BY <3>2, <3>3, <3>6, <4>5 DEF Gapless
        <5>2. d # h
          BY <1>a, <5>1, OrderOccurs DEF WaiterOk, Waits
        <5>3. Precedes(out[m], h, d)
          BY <4>4, <5>1, <5>2
        <5>4. Precedes(pending[m], h, d)
          BY <3>2, <3>3, <3>6, <5>3 DEF Ordered
        <5>5. Precedes(pending[m], h, h) \/ Precedes(pending[m], d, d)
          BY <1>a, <5>1, <5>4, OrderTotal
        <5>6. Waits(m, h) /\ Waits(m, d)
          BY <5>4, OrderOccurs DEF Waits
        <5> QED BY <1>a, <3>3, <5>5, <5>6 DEF WaiterOk
      <4>9. Gapless(m)'
        BY <3>1, <3>2, <3>3, <3>6, <4>3, <4>4, <4>8 DEF Gapless
      <4>a. WriterLast(m)'
        BY <3>1, <3>2, <3>4, <4>3, <4>4 DEF WriterLast
      <4> QED BY <4>6, <4>7, <4>9, <4>a
    <3> QED BY <3>5, <3>6
  <2> QED BY <2>1, <2>2
<1>15. ASSUME NEW n \in Conns, Break(n) PROVE Q
  <2>1. ASSUME m # n PROVE Q
    <3>1. /\ pending'[m] = pending[m] /\ in'[m] = in[m] /\ out'[m] = out[m] /\ broken'[m] = broken[m]
          /\ loop[m] = "reading" /\ closed'[m] = closed[m]
      BY <1>15, <1>a, <2>1 DEF Break, TypedConns, clientVars, wireVars
    <3>2. UNCHANGED <<pc, on>>
      BY <1>15 DEF Break, callerVars
    <3> QED BY <1>s, <3>1, <3>2
  <2>2. ASSUME m = n PROVE Q
    <3>1. PICK k \in 0..Len(in[m]) : in' = [in EXCEPT ![m] = SubSeq(@, 1, k)]
      BY <1>15, <2>2 DEF Break
    <3>2. in'[m] = SubSeq(in[m], 1, k) /\ broken'[m] /\ UNCHANGED <<pc, on, pending, closed,
         loop>>
      BY <1>15, <1>a, <2>2, <3>1 DEF Break, TypedConns, callerVars, clientVars
    <3>3. HasWaiter(m) /\ Ordered(m) /\ Gapless(m) /\ WriterLast(m)
      BY <1>b, <3>2
    <3>4. /\ \A d : Answered(m, d)' => Answered(m, d)
          /\ \A d : Waits(m, d)' <=> Waits(m, d)
      BY <1>a, <3>1, <3>2, OrderPrefix DEF Answered, Waits
    <3>5. \A x, y : Precedes(in'[m], x, y) => Precedes(in[m], x, y)
      BY <1>a, <3>1, <3>2, OrderPrefix
    <3>6. ASSUME NEW c \in Commands, NEW d \in Commands,
                 Precedes(pending[m], c, d), Answered(m, d)'
          PROVE  Answered(m, c)'
      <4>1. Answered(m, d) /\ Answered(m, c)
        BY <3>3, <3>4, <3>6 DEF Gapless
      <4>2. ~Precedes(pending[m], c, c) /\ ~Precedes(pending[m], d, d)
        BY <1>a, <3>6, OrderOccurs DEF WaiterOk, Waits
      <4>3. c # d /\ ReplyTo(c) # ReplyTo(d)
        BY <3>6, <4>2, Messages
      <4>4. ~Precedes(in[m], ReplyTo(d), ReplyTo(c))
        <5>1. SUFFICES ASSUME Precedes(in[m], ReplyTo(d), ReplyTo(c)) PROVE FALSE
          OBVIOUS
        <5>2. Precedes(pending[m], d, c)
          BY <3>3, <5>1 DEF Ordered
        <5>3. pending[m] \in Seq(Commands)
          BY <1>a, Queues DEF TypedConns
        <5>4. Precedes(pending[m], c, c) \/ Precedes(pending[m], d, d)
          BY <3>6, <5>2, <5>3, OrderTotal
        <5> QED BY <4>2, <5>4
      <4>5. Precedes(in[m], ReplyTo(c), ReplyTo(d))
        BY <1>a, <4>1, <4>3, <4>4, OrderTotal DEF Answered
      <4>6. ~Precedes(in[m], ReplyTo(d), ReplyTo(d))
        BY <1>a, <4>1 DEF InOk
      <4>7. Occurs(SubSeq(in[m], 1, k), ReplyTo(d))
        BY <3>2, <3>6 DEF Answered
      <4>8. Occurs(SubSeq(in[m], 1, k), ReplyTo(c))
        BY <1>a, <3>1, <4>5, <4>6, <4>7, OrderPrefix
      <4> QED BY <3>2, <4>8 DEF Answered
    <3>7. HasWaiter(m)' /\ Ordered(m)'
      BY <3>2, <3>3, <3>4, <3>5 DEF HasWaiter, Ordered
    <3>8. Gapless(m)'
      BY <3>2, <3>6 DEF Gapless
    <3>9. WriterLast(m)'
      BY <3>2, <3>3, <3>4 DEF WriterLast
    <3> QED BY <3>7, <3>8, <3>9
  <2> QED BY <2>1, <2>2
<1>16. ASSUME Connect PROVE Q
  BY <1>16, <1>s DEF Connect, callerVars, clientVars, wireVars
<1>17. ASSUME HooksRun PROVE Q
  BY <1>17, <1>s DEF HooksRun, callerVars, clientVars, wireVars
<1>18. ASSUME Pump PROVE Q
  BY <1>18, <1>s DEF Pump, callerVars, clientVars, wireVars
<1>19. ASSUME Lost PROVE Q
  BY <1>19, <1>s DEF Lost, callerVars, clientVars, wireVars
<1>20. ASSUME Consume PROVE Q
  BY <1>20, <1>s DEF Consume, callerVars, clientVars, wireVars
<1>21. ASSUME Emit PROVE Q
  <2>1. /\ in' = [in EXCEPT ![client] = Append(@, EventNo(emitted + 1))]
        /\ UNCHANGED <<pc, on, pending, out, broken, closed, loop>>
        /\ emitted + 1 \in 1..MaxEvents /\ client \in Conns
    BY <1>21 DEF Emit, callerVars, clientVars, IInv, Shape, EventType, Typed, TypedLink
  <2>2. EventNo(emitted + 1) \in Message /\ \A d \in Commands : EventNo(emitted + 1) # ReplyTo(d)
    BY <2>1, Messages DEF Message
  <2>3. in'[m] = IF m = client THEN Append(in[m], EventNo(emitted + 1)) ELSE in[m]
    BY <1>a, <2>1 DEF TypedConns
  <2>4. /\ \A d \in Commands : Occurs(in'[m], ReplyTo(d)) <=> Occurs(in[m], ReplyTo(d))
        /\ \A d, e \in Commands : Precedes(in'[m], ReplyTo(d), ReplyTo(e)) <=>
                                      Precedes(in[m], ReplyTo(d), ReplyTo(e))
    BY <1>a, <2>2, <2>3, OrderAppend
  <2> QED BY <1>e, <2>1, <2>4
<1>22. CASE UNCHANGED vars
  BY <1>22, <1>a, <1>s DEF vars, callerVars, clientVars, wireVars, linkVars, streamVars
<1> QED BY <1>1, <1>2, <1>3, <1>4, <1>5, <1>6, <1>7, <1>8, <1>9, <1>10, <1>11, <1>12, <1>13,
     <1>14, <1>15, <1>16, <1>17, <1>18, <1>19, <1>20, <1>21, <1>22 DEF Next, CallerStep

\* The commands' invariant holds throughout.
THEOREM Invariance == Spec => []IInv
<1>1. Init => IInv
  <2> SUFFICES ASSUME Init PROVE IInv
    OBVIOUS
  <2> USE ConnsAre
  <2>1. Typed
    BY EmptySeq DEF Init, Typed, TypedCallers, TypedConns, TypedLink
  <2>2. EventType /\ LinkInv
    BY EmptySeq DEF Init, EventType, LinkInv
  <2>3. CallerInv /\ TurnInv
    BY Messages DEF Init, CallerInv, CallerOk, TurnInv
  <2>4. \A n \in Conns : \A c : ~Answered(n, c) /\ ~Sent(n, c) /\ ~Waits(n, c)
    BY OrderEmpty DEF Init, Answered, Sent, Waits
  <2>5. OutInv /\ InInv /\ WaiterInv
    BY <2>4 DEF OutInv, InInv, WaiterInv, OutOk, InOk, WaiterOk
  <2>6. ASSUME NEW n \in Conns PROVE HasWaiter(n) /\ Ordered(n) /\ Gapless(n) /\ WriterLast(n)
    <3>1. \A y, z : /\ ~Precedes(in[n], y, z) /\ ~Precedes(out[n], y, z)
                    /\ ~Precedes(pending[n], y, z)
      BY OrderEmpty DEF Init
    <3> QED BY <2>4, <3>1 DEF Init, HasWaiter, Ordered, Gapless, WriterLast
  <2> QED BY <2>1, <2>2, <2>3, <2>5, <2>6 DEF IInv, Shape, AlignInv, Aligned
<1>2. IInv /\ [Next]_vars => IInv'
  <2> SUFFICES ASSUME IInv, [Next]_vars PROVE IInv'
    OBVIOUS
  <2>1. Shape
    BY DEF IInv
  <2>2. Typed' /\ EventType' /\ LinkInv'
    BY <2>1, TypedStep, EventTypeStep, LinkStep
  <2>3. CallerInv' /\ TurnInv' /\ OutInv' /\ InInv' /\ WaiterInv' /\ AlignInv'
    BY CallerStepKept, TurnStep, OutStep, InStep, WaiterStep, AlignStep
  <2> QED BY <2>2, <2>3 DEF IInv, Shape
<1> QED BY <1>1, <1>2, PTL DEF Spec

\* Every variable keeps its type.
THEOREM TypeCorrect == Spec => []TypeOK
<1>1. IInv => TypeOK
  BY TypedIs DEF IInv, Shape
<1> QED BY <1>1, Invariance, PTL

-----------------------------------------------------------------------------
(* The socket implements EslCommand.                                       *)

\* What a caller knows, state by state.
LEMMA Outcome ==
    ASSUME NEW c \in Commands, CallerOk(c), pc[c] \in {"idle", "turn", "check", "write", "reply", "done"}
    PROVE  /\ OutcomeOf(c) = "idle" <=> pc[c] = "idle"
           /\ OutcomeOf(c) = "waiting" <=> pc[c] \in {"turn", "check", "write", "reply"}
           /\ OutcomeOf(c) = "down" <=> pc[c] = "done" /\ got[c] = Down
           /\ OutcomeOf(c) = "unknown" <=> pc[c] = "done" /\ got[c] = Unknown
           /\ OutcomeOf(c) = "replied" <=> pc[c] = "done" /\ got[c] = ReplyTo(c)
  BY Messages DEF OutcomeOf, CallerOk

\* Every step of the socket is a step of one command of EslCommand, or none.
LEMMA RefinesStep ==
    ASSUME IInv, [Next]_vars, IInv'
    PROVE  [Command!Next]_(Command!vars)
<1> DEFINE O == [c \in Commands |-> OutcomeOf(c)]
<1>a. /\ TypedCallers /\ TypedCallers' /\ ran \subseteq Commands
      /\ \A d \in Commands : CallerOk(d) /\ CallerOk(d)'
  BY DEF IInv, Shape, Typed, TypedLink, CallerInv
<1>o. ASSUME NEW c \in Commands
      PROVE  /\ O[c] = OutcomeOf(c) /\ O'[c] = OutcomeOf(c)'
             /\ O[c] = "idle" <=> pc[c] = "idle"
             /\ O[c] = "waiting" <=> pc[c] \in {"turn", "check", "write", "reply"}
             /\ O[c] = "unknown" <=> pc[c] = "done" /\ got[c] = Unknown
             /\ O'[c] = "waiting" <=> pc'[c] \in {"turn", "check", "write", "reply"}
             /\ O'[c] = "down" <=> pc'[c] = "done" /\ got'[c] = Down
             /\ O'[c] = "unknown" <=> pc'[c] = "done" /\ got'[c] = Unknown
             /\ O'[c] = "replied" <=> pc'[c] = "done" /\ got'[c] = ReplyTo(c)
  <2>1. O[c] = OutcomeOf(c) /\ O'[c] = OutcomeOf(c)'
    OBVIOUS
  <2>2. /\ pc[c] \in {"idle", "turn", "check", "write", "reply", "done"} /\ CallerOk(c)
        /\ (pc[c] \in {"idle", "turn", "check", "write", "reply", "done"} /\ CallerOk(c))'
    BY <1>a DEF TypedCallers
  <2>3. /\ OutcomeOf(c) = "idle" <=> pc[c] = "idle"
        /\ OutcomeOf(c) = "waiting" <=> pc[c] \in {"turn", "check", "write", "reply"}
        /\ OutcomeOf(c) = "unknown" <=> pc[c] = "done" /\ got[c] = Unknown
    BY <2>2, Outcome
  <2>4. /\ OutcomeOf(c)' = "waiting" <=> pc'[c] \in {"turn", "check", "write", "reply"}
        /\ OutcomeOf(c)' = "down" <=> pc'[c] = "done" /\ got'[c] = Down
        /\ OutcomeOf(c)' = "unknown" <=> pc'[c] = "done" /\ got'[c] = Unknown
        /\ OutcomeOf(c)' = "replied" <=> pc'[c] = "done" /\ got'[c] = ReplyTo(c)
    BY <2>2, Messages DEF OutcomeOf, CallerOk
  <2> QED BY <2>1, <2>3, <2>4
\* The other callers know what they knew.
<1>k. ASSUME NEW c \in Commands, \A d \in Commands \ {c} : pc'[d] = pc[d] /\ got'[d] = got[d]
      PROVE  O' = [O EXCEPT ![c] = O'[c]]
  <2>1. \A d \in Commands \ {c} : OutcomeOf(d)' = OutcomeOf(d)
    BY <1>k DEF OutcomeOf
  <2> QED BY <2>1
<1>s. ASSUME UNCHANGED <<pc, got>> PROVE O' = O
  BY <1>s DEF OutcomeOf
<1> HIDE DEF O
\* A caller returns with ErrDown, ErrTimeout or its answer.
<1>d. ASSUME NEW c \in Commands, pc[c] # "done", c \notin ran, UNCHANGED ran,
             pc' = [pc EXCEPT ![c] = "done"], got' = [got EXCEPT ![c] = Down]
      PROVE  Command!Next
  <2>1. O' = [O EXCEPT ![c] = "down"] /\ O[c] \in {"idle", "waiting"}
    BY <1>a, <1>d, <1>k, <1>o DEF TypedCallers
  <2> QED BY <1>d, <2>1 DEF Command!Next, Command!Refuse, O
<1>u. ASSUME NEW c \in Commands, pc[c] \in {"write", "reply"}, UNCHANGED ran,
             pc' = [pc EXCEPT ![c] = "done"], got' = [got EXCEPT ![c] = Unknown]
      PROVE  Command!Next
  <2>1. O' = [O EXCEPT ![c] = "unknown"] /\ O[c] = "waiting"
    BY <1>a, <1>u, <1>k, <1>o DEF TypedCallers
  <2> QED BY <1>u, <2>1 DEF Command!Next, Command!GiveUp, O
<1>r. ASSUME NEW c \in Commands, pc[c] = "reply", c \in ran, UNCHANGED ran,
             pc' = [pc EXCEPT ![c] = "done"], got' = [got EXCEPT ![c] = ReplyTo(c)]
      PROVE  Command!Next
  <2>1. O' = [O EXCEPT ![c] = "replied"] /\ O[c] = "waiting"
    BY <1>a, <1>r, <1>k, <1>o DEF TypedCallers
  <2> QED BY <1>r, <2>1 DEF Command!Next, Command!Reply, O
\* A caller goes on waiting.
<1>w. ASSUME NEW c \in Commands, pc[c] \in {"turn", "check", "write", "reply"}, UNCHANGED <<got, ran>>,
             NEW x \in {"turn", "check", "write", "reply"}, pc' = [pc EXCEPT ![c] = x]
      PROVE  UNCHANGED Command!vars
  <2>1. O' = [O EXCEPT ![c] = "waiting"] /\ O[c] = "waiting"
    BY <1>a, <1>w, <1>k, <1>o DEF TypedCallers
  <2>2. O' = O
    BY <2>1 DEF O
  <2> QED BY <1>w, <2>2 DEF Command!vars, O
<1>v. ASSUME UNCHANGED <<pc, got, ran>> PROVE UNCHANGED Command!vars
  BY <1>v, <1>s DEF Command!vars, O
<1> DEFINE G == [Command!Next]_(Command!vars)
<1>1. ASSUME NEW c \in Commands, Issue(c) PROVE G
  <2>1. pc[c] = "idle" /\ UNCHANGED ran /\ c \notin ran
    BY <1>1, <1>a DEF Issue, CallerOk
  <2>2. CASE pc' = [pc EXCEPT ![c] = "done"] /\ got' = [got EXCEPT ![c] = Down]
    BY <1>d, <2>1, <2>2
  <2>3. CASE pc' = [pc EXCEPT ![c] = "turn"] /\ UNCHANGED got
    <3>1. O' = [O EXCEPT ![c] = "waiting"] /\ O[c] = "idle"
      BY <1>a, <2>1, <2>3, <1>k, <1>o DEF TypedCallers
    <3> QED BY <2>1, <3>1 DEF Command!Next, Command!Issue, O
  <2> QED BY <1>1, <2>2, <2>3 DEF Issue, Return
<1>2. ASSUME NEW c \in Commands, TakeTurn(c) PROVE G
  BY <1>2, <1>w DEF TakeTurn
<1>3. ASSUME NEW c \in Commands, NoTurn(c) PROVE G
  <2>1. pc[c] = "turn" /\ UNCHANGED ran /\ c \notin ran
    BY <1>3, <1>a DEF NoTurn, CallerOk
  <2> QED BY <1>3, <1>d, <2>1 DEF NoTurn, Return
<1>4. ASSUME NEW c \in Commands, Register(c) PROVE G
  <2>1. pc[c] = "check" /\ UNCHANGED ran /\ c \notin ran
    BY <1>4, <1>a DEF Register, CallerOk
  <2>2. CASE pc' = [pc EXCEPT ![c] = "done"] /\ got' = [got EXCEPT ![c] = Down]
    BY <1>d, <2>1, <2>2
  <2>3. CASE pc' = [pc EXCEPT ![c] = "write"] /\ UNCHANGED got
    BY <1>w, <2>1, <2>3
  <2> QED BY <1>4, <2>2, <2>3 DEF Register, Return
<1>5. ASSUME NEW c \in Commands, Written(c) PROVE G
  BY <1>5, <1>w DEF Written
<1>6. ASSUME NEW c \in Commands, WriteFails(c) PROVE G
  <2>1. pc[c] = "write" /\ UNCHANGED ran /\ c \notin ran
    BY <1>6, <1>a DEF WriteFails, CallerOk
  <2>2. /\ pc' = [pc EXCEPT ![c] = "done"]
        /\ got' = [got EXCEPT ![c] = Down] \/ got' = [got EXCEPT ![c] = Unknown]
    BY <1>6 DEF WriteFails, Return
  <2> QED BY <1>d, <1>u, <2>1, <2>2
<1>7. ASSUME NEW c \in Commands, TakeReply(c) PROVE G
  <2>1. /\ pc[c] = "reply" /\ UNCHANGED ran /\ pc' = [pc EXCEPT ![c] = "done"]
        /\ got' = [got EXCEPT ![c] = Unknown] \/ (got' = [got EXCEPT ![c] = ReplyTo(c)] /\ c \in ran)
    BY <1>7, <1>a, Messages DEF TakeReply, Return, CallerOk
  <2> QED BY <1>r, <1>u, <2>1
<1>8. ASSUME NEW c \in Commands, TimeOut(c) PROVE G
  BY <1>8, <1>u DEF TimeOut, Return
<1>9. ASSUME NEW c \in Commands, SeesClosed(c) PROVE G
  <2>1. /\ pc[c] = "reply" /\ UNCHANGED ran /\ pc' = [pc EXCEPT ![c] = "done"]
        /\ got' = [got EXCEPT ![c] = Unknown] \/ (got' = [got EXCEPT ![c] = ReplyTo(c)] /\ c \in ran)
    BY <1>9, <1>a, Messages DEF SeesClosed, Return, CallerOk
  <2> QED BY <1>r, <1>u, <2>1
<1>10. ASSUME NEW n \in Conns, ReadReply(n) PROVE G
  BY <1>10, <1>v DEF ReadReply, callerVars
<1>11. ASSUME NEW n \in Conns, ReadEvent(n) PROVE G
  BY <1>11, <1>v DEF ReadEvent, callerVars
<1>12. ASSUME NEW n \in Conns, ReadFails(n) PROVE G
  BY <1>12, <1>v DEF ReadFails, callerVars
<1>13. ASSUME NEW n \in Conns, LoopEnds(n) PROVE G
  BY <1>13, <1>v DEF LoopEnds, callerVars
<1>14. ASSUME NEW n \in Conns, SwitchRuns(n) PROVE G
  <2>1. out[n] # <<>> /\ UNCHANGED <<pc, got>> /\ ran' = ran \cup {Head(out[n])}
    BY <1>14 DEF SwitchRuns, callerVars
  <2>2. OutOk(n) /\ out[n] \in Seq(Commands) /\ Head(out[n]) \in Commands
    BY <2>1, Queues DEF IInv, Shape, OutInv, QueueFacts
  <2>3. PICK h \in Commands : h = Head(out[n])
    BY <2>2
  <2>4. h \notin ran /\ pc[h] \in {"reply", "done"} /\ got[h] \notin {Down, ReplyTo(h)}
    BY <2>1, <2>2, <2>3, OrderTail DEF OutOk, Sent
  <2>5. O[h] \in {"waiting", "unknown"}
    BY <1>a, <1>o, <2>4 DEF CallerOk
  <2>6. O' = O
    BY <1>s, <2>1
  <2> QED BY <2>1, <2>3, <2>4, <2>5, <2>6 DEF Command!Next, Command!Run, O
<1>15. ASSUME NEW n \in Conns, Break(n) PROVE G
  BY <1>15, <1>v DEF Break, callerVars
<1>16. ASSUME Connect PROVE G
  BY <1>16, <1>v DEF Connect, callerVars
<1>17. ASSUME HooksRun PROVE G
  BY <1>17, <1>v DEF HooksRun, callerVars
<1>18. ASSUME Pump PROVE G
  BY <1>18, <1>v DEF Pump, callerVars
<1>19. ASSUME Lost PROVE G
  BY <1>19, <1>v DEF Lost, callerVars
<1>20. ASSUME Consume PROVE G
  BY <1>20, <1>v DEF Consume, callerVars
<1>21. ASSUME Emit PROVE G
  BY <1>21, <1>v DEF Emit, callerVars
<1>22. CASE UNCHANGED vars
  BY <1>22, <1>v DEF vars, callerVars, clientVars, wireVars, linkVars, streamVars
<1> QED BY <1>1, <1>2, <1>3, <1>4, <1>5, <1>6, <1>7, <1>8, <1>9, <1>10, <1>11, <1>12, <1>13,
     <1>14, <1>15, <1>16, <1>17, <1>18, <1>19, <1>20, <1>21, <1>22 DEF Next, CallerStep

\* The event socket keeps what the errors of Client.command promise, for any
\* callers, connections and failures: after ErrDown "the switch cannot run it",
\* after ErrTimeout "the outcome is unknown", and no reply is handed to another
\* caller.
THEOREM Implements == Spec => Refines
<1>1. Init => Command!Init
  <2> SUFFICES ASSUME Init PROVE Command!Init
    OBVIOUS
  <2>1. \A c \in Commands : OutcomeOf(c) = "idle"
    BY DEF Init, OutcomeOf
  <2> QED BY <2>1 DEF Init, Command!Init
<1>2. IInv /\ IInv' /\ [Next]_vars => [Command!Next]_(Command!vars)
  BY RefinesStep
<1> QED BY <1>1, <1>2, Invariance, PTL DEF Spec, Refines, Command!Spec

-----------------------------------------------------------------------------
(* Events keep their order, and the newest is kept.                          *)

\* An event names its number.
LEMMA Events ==
    /\ \A m \in Message : m.kind = "event" => \E e \in Nat : m = EventNo(e) /\ m.no = e
    /\ \A e, f \in Nat : EventNo(e) = EventNo(f) => e = f
<1>1. \A e, f \in Nat : EventNo(e) = EventNo(f) => e = f
  BY Messages
<1>2. \A m \in Message : m.kind = "event" => \E e \in Nat : m = EventNo(e) /\ m.no = e
  BY ConnsAre, Messages DEF Message, Replies
<1> QED BY <1>1, <1>2

\* A channel takes the newest at its end and gives up its oldest at most.
LEMMA PushOrder ==
    ASSUME NEW q \in Seq(Nat), NEW e \in Nat
    PROVE  /\ \A x : Occurs(Push(q, e), x) => Occurs(q, x) \/ x = e
           /\ Occurs(Push(q, e), e) /\ Push(q, e) # <<>>
           /\ \A x, y : Precedes(Push(q, e), x, y) => Precedes(q, x, y) \/ (Occurs(q, x) /\ y = e)
<1>1. PICK r \in Seq(Nat) : /\ Push(q, e) = Append(r, e)
                            /\ \A x : Occurs(r, x) => Occurs(q, x)
                            /\ \A x, y : Precedes(r, x, y) => Precedes(q, x, y)
  <2>1. CASE Len(q) < EventCap
    BY <2>1 DEF Push
  <2>2. CASE ~(Len(q) < EventCap)
    <3>1. q # <<>> /\ Tail(q) \in Seq(Nat)
      BY <2>2, ConnsAre, QueueStep DEF QueueFacts
    <3>2. /\ \A x : Occurs(Tail(q), x) => Occurs(q, x)
          /\ \A x, y : Precedes(Tail(q), x, y) => Precedes(q, x, y)
      BY <3>1, OrderTail
    <3> QED BY <2>2, <3>1, <3>2 DEF Push
  <2> QED BY <2>1, <2>2
<1>2. /\ \A y : Occurs(Append(r, e), y) <=> Occurs(r, y) \/ y = e
      /\ \A y, z : Precedes(Append(r, e), y, z) <=> Precedes(r, y, z) \/ (Occurs(r, y) /\ z = e)
  BY OrderAppend
<1>3. Append(r, e) # <<>>
  <2>1. Occurs(Append(r, e), e)
    BY <1>2
  <2> QED BY <2>1, OrderEmpty
<1> QED BY <1>1, <1>2, <1>3

\* What is still to be read stays newer than everything that has been.
LEMMA UnreadStep ==
    ASSUME Shape, Unread, [Next]_vars
    PROVE  Unread'
<1> USE ConnsAre
<1>a. /\ client \in 0..MaxConns /\ made \in 0..MaxConns /\ emitted \in Nat /\ newest \in Nat
      /\ TypedConns /\ LinkInv /\ \A n \in Conns : in[n] \in Seq(Message)
  BY DEF Shape, Typed, TypedLink, TypedConns, EventType
<1>s. ASSUME UNCHANGED <<emitted, newest, client>>,
             client # NoConn =>
                 /\ \A e \in Nat : Occurs(in'[client], EventNo(e)) => Occurs(in[client], EventNo(e))
                 /\ \A e, f \in Nat : Precedes(in'[client], EventNo(e), EventNo(f)) =>
                                          Precedes(in[client], EventNo(e), EventNo(f))
      PROVE  Unread'
  BY <1>s DEF Unread
<1>1. ASSUME NEW c \in Commands, CallerStep(c) PROVE Unread'
  <2>1. UNCHANGED <<emitted, newest, client, in>>
    BY <1>1 DEF CallerStep, Issue, TakeTurn, NoTurn, Register, Written, WriteFails, TakeReply,
           TimeOut, SeesClosed, wireVars, linkVars, streamVars
  <2> QED BY <1>s, <2>1
<1>2. ASSUME NEW n \in Conns, ReadFails(n) \/ LoopEnds(n) PROVE Unread'
  <2>1. UNCHANGED <<emitted, newest, client, in>>
    BY <1>2 DEF ReadFails, LoopEnds, wireVars, linkVars, streamVars
  <2> QED BY <1>s, <2>1
<1>3. ASSUME HooksRun \/ Pump \/ Consume \/ UNCHANGED vars PROVE Unread'
  <2>1. UNCHANGED <<emitted, newest, client, in>>
    BY <1>3 DEF HooksRun, Pump, Consume, vars, wireVars, linkVars, streamVars
  <2> QED BY <1>s, <2>1
<1>4. ASSUME Lost PROVE Unread'
  BY <1>4 DEF Lost, Unread, streamVars
<1>5. ASSUME Connect PROVE Unread'
  <2>1. made + 1 \in Conns /\ made + 1 > made /\ in[made + 1] = <<>>
    BY <1>5, <1>a DEF Connect, LinkInv
  <2>2. client' = made + 1 /\ UNCHANGED <<in, emitted, newest>>
    BY <1>5 DEF Connect, wireVars, streamVars
  <2> QED BY <2>1, <2>2, OrderEmpty DEF Unread
<1>6. ASSUME NEW n \in Conns, ReadReply(n) PROVE Unread'
  <2>1. in[n] # <<>> /\ in' = [in EXCEPT ![n] = Tail(@)] /\ UNCHANGED <<emitted, newest, client>>
    BY <1>6 DEF ReadReply, IsRead, linkVars, streamVars
  <2>2. client # NoConn => in'[client] = IF client = n THEN Tail(in[client]) ELSE in[client]
    BY <1>a, <2>1 DEF TypedConns
  <2> QED BY <1>a, <1>s, <2>1, <2>2, OrderTail
<1>7. ASSUME NEW n \in Conns, ReadEvent(n) PROVE Unread'
  <2>1. /\ in[n] # <<>> /\ in' = [in EXCEPT ![n] = Tail(@)] /\ UNCHANGED <<emitted, client>>
        /\ newest' \in {newest, Head(in[n]).no} /\ loop[n] = "reading" /\ Head(in[n]).kind = "event"
    BY <1>7 DEF ReadEvent, IsRead, linkVars
  <2>2. n = client
    BY <1>a, <2>1 DEF LinkInv
  <2>3. PICK e \in Nat : Head(in[n]) = EventNo(e) /\ Head(in[n]).no = e
    BY <1>a, <2>1, Events, HeadTailProperties
  <2>4. in'[n] = Tail(in[n])
    BY <1>a, <2>1 DEF TypedConns
  <2>5. /\ \A x : Occurs(in[n], x) <=> x = EventNo(e) \/ Occurs(in'[n], x)
        /\ \A x, y : Precedes(in[n], x, y) <=>
                         Precedes(in'[n], x, y) \/ (x = EventNo(e) /\ Occurs(in'[n], y))
    BY <1>a, <2>1, <2>3, <2>4, OrderTail
  <2>6. newest < e /\ e <= emitted
    BY <2>2, <2>5 DEF Unread
  <2>7. \A f \in Nat : Occurs(in'[n], EventNo(f)) => /\ Occurs(in[n], EventNo(f))
                                                     /\ Precedes(in[n], EventNo(e), EventNo(f))
    BY <2>5
  <2>8. \A f \in Nat : Occurs(in'[n], EventNo(f)) => e < f /\ newest < f /\ f <= emitted
    BY <2>2, <2>5, <2>7 DEF Unread
  <2>9. \A f, g \in Nat : Occurs(in'[n], EventNo(f)) /\ Precedes(in'[n], EventNo(f), EventNo(g)) => f < g
    BY <2>2, <2>5, <2>7 DEF Unread
  <2> QED BY <1>a, <2>1, <2>2, <2>3, <2>6, <2>8, <2>9 DEF Unread
<1>8. ASSUME NEW n \in Conns, SwitchRuns(n) PROVE Unread'
  <2>1. /\ out[n] # <<>> /\ UNCHANGED <<emitted, newest, client>>
        /\ in' = [in EXCEPT ![n] = IF broken[n] THEN @ ELSE Append(@, ReplyTo(Head(out[n])))]
    BY <1>8 DEF SwitchRuns, linkVars, streamVars
  <2>2. Head(out[n]) \in Commands
    BY <1>a, <2>1, HeadTailProperties DEF TypedConns
  <2>3. ReplyTo(Head(out[n])) \in Message /\ \A e \in Nat : EventNo(e) # ReplyTo(Head(out[n]))
    BY <2>2, Messages DEF Message, Replies
  <2>4. client # NoConn =>
            in'[client] \in {in[client], Append(in[client], ReplyTo(Head(out[n])))}
    BY <1>a, <2>1 DEF TypedConns
  <2> QED BY <1>a, <1>s, <2>1, <2>3, <2>4, OrderAppend
<1>9. ASSUME NEW n \in Conns, Break(n) PROVE Unread'
  <2>1. PICK k \in 0..Len(in[n]) : in' = [in EXCEPT ![n] = SubSeq(@, 1, k)]
    BY <1>9 DEF Break
  <2>2. UNCHANGED <<emitted, newest, client>>
    BY <1>9 DEF Break, linkVars, streamVars
  <2>3. client # NoConn => in'[client] = IF client = n THEN SubSeq(in[client], 1, k) ELSE in[client]
    BY <1>a, <2>1 DEF TypedConns
  <2> QED BY <1>a, <1>s, <2>1, <2>2, <2>3, OrderPrefix
<1>10. ASSUME Emit PROVE Unread'
  <2>1. /\ in' = [in EXCEPT ![client] = Append(@, EventNo(emitted + 1))] /\ UNCHANGED <<client, newest>>
        /\ emitted' = emitted + 1 /\ emitted + 1 \in 1..MaxEvents /\ client \in Conns
    BY <1>10, <1>a DEF Emit, linkVars
  <2>2. EventNo(emitted + 1) \in Message
    BY <2>1 DEF Message
  <2>3. in'[client] = Append(in[client], EventNo(emitted + 1))
    BY <1>a, <2>1 DEF TypedConns
  <2>4. /\ \A x : Occurs(in'[client], x) <=> Occurs(in[client], x) \/ x = EventNo(emitted + 1)
        /\ \A x, y : Precedes(in'[client], x, y) <=>
               Precedes(in[client], x, y) \/ (Occurs(in[client], x) /\ y = EventNo(emitted + 1))
    BY <1>a, <2>1, <2>2, <2>3, OrderAppend
  <2>5. ASSUME NEW e \in Nat, Occurs(in'[client], EventNo(e))
        PROVE  newest < e /\ e <= emitted + 1
    <3>1. Occurs(in[client], EventNo(e)) \/ EventNo(e) = EventNo(emitted + 1)
      BY <2>4, <2>5
    <3>2. ASSUME EventNo(e) = EventNo(emitted + 1) PROVE e = emitted + 1
      BY <2>1, <3>2, Events
    <3>3. ASSUME Occurs(in[client], EventNo(e)) PROVE newest < e /\ e <= emitted
      BY <1>a, <2>1, <3>3 DEF Unread
    <3>4. newest <= emitted /\ newest \in Nat /\ emitted \in Nat
      BY <1>a DEF Unread, EventType
    <3> QED BY <3>1, <3>2, <3>3, <3>4
  <2>6. ASSUME NEW e \in Nat, NEW f \in Nat, Precedes(in'[client], EventNo(e), EventNo(f))
        PROVE  e < f
    <3>1. \A x, y : Precedes(in[client], x, y) => Occurs(in[client], x)
      BY <1>a, <2>1, OrderTotal
    <3>2. Occurs(in[client], EventNo(e)) /\ e <= emitted
      BY <2>1, <2>4, <2>6, <3>1 DEF Unread
    <3>3. CASE Precedes(in[client], EventNo(e), EventNo(f))
      BY <2>1, <3>2, <3>3 DEF Unread
    <3>4. CASE EventNo(f) = EventNo(emitted + 1)
      <4>1. f = emitted + 1
        BY <2>1, <3>4, Events
      <4> QED BY <1>a, <3>2, <4>1
    <3> QED BY <2>4, <2>6, <3>3, <3>4
  <2> QED BY <1>a, <2>1, <2>5, <2>6 DEF Unread
<1> QED BY <1>1, <1>2, <1>3, <1>4, <1>5, <1>6, <1>7, <1>8, <1>9, <1>10 DEF Next

\* The channels keep rising, and the newest event read stays in the last of them
\* that holds any: readLoop and pump drop the oldest of a full channel.
LEMMA StreamStep ==
    ASSUME Shape, Unread, StreamInv, [Next]_vars
    PROVE  StreamInv'
<1> USE ConnsAre
<1>a. /\ client \in 0..MaxConns /\ made \in 0..MaxConns /\ EventType
      /\ TypedConns /\ LinkInv /\ \A n \in Conns : in[n] \in Seq(Message)
      /\ Feed \in Seq(Nat)
  BY EmptySeq DEF Shape, Typed, TypedLink, TypedConns, EventType, Feed
<1>s. ASSUME UNCHANGED <<Feed, linkEvents, seen, newest>> PROVE StreamInv'
  BY <1>s DEF StreamInv, Rising, Before, UpTo
<1>1. ASSUME NEW c \in Commands, CallerStep(c) PROVE StreamInv'
  <2>1. UNCHANGED <<clientEvents, linkVars, streamVars>>
    BY <1>1 DEF CallerStep, Issue, TakeTurn, NoTurn, Register, Written, WriteFails, TakeReply,
           TimeOut, SeesClosed, clientVars
  <2> QED BY <1>s, <2>1 DEF linkVars, streamVars, Feed
<1>2. ASSUME NEW n \in Conns, ReadReply(n) \/ ReadFails(n) \/ LoopEnds(n) \/ SwitchRuns(n) \/ Break(n)
      PROVE  StreamInv'
  <2>1. UNCHANGED <<clientEvents, linkVars, streamVars>>
    BY <1>2 DEF ReadReply, ReadFails, LoopEnds, SwitchRuns, Break, clientVars
  <2> QED BY <1>s, <2>1 DEF linkVars, streamVars, Feed
<1>3. ASSUME HooksRun \/ Emit \/ UNCHANGED vars PROVE StreamInv'
  <2>1. UNCHANGED <<clientEvents, client, linkEvents, newest, seen>>
    BY <1>3 DEF HooksRun, Emit, vars, clientVars, linkVars, streamVars
  <2> QED BY <1>s, <2>1 DEF Feed
<1>4. ASSUME Connect PROVE StreamInv'
  <2>1. made + 1 \in Conns /\ made + 1 > made /\ clientEvents[made + 1] = <<>> /\ client = NoConn
    BY <1>4, <1>a DEF Connect, LinkInv
  <2>2. client' = made + 1 /\ UNCHANGED <<clientEvents, linkEvents, newest, seen>>
    BY <1>4 DEF Connect, clientVars, streamVars
  <2>3. Feed = <<>> /\ Feed' = <<>>
    BY <1>a, <2>1, <2>2 DEF Feed
  <2> QED BY <1>s, <2>2, <2>3
<1>5. ASSUME Lost PROVE StreamInv'
  <2>1. client' = NoConn /\ UNCHANGED <<linkEvents, newest, seen>> /\ Feed = <<>>
    BY <1>5 DEF Lost, Feed, streamVars
  <2>2. Feed' = <<>>
    BY <2>1 DEF Feed
  <2> QED BY <1>s, <2>1, <2>2
<1>6. ASSUME NEW n \in Conns, ReadEvent(n) PROVE StreamInv'
  <2>1. /\ in[n] # <<>> /\ UNCHANGED <<linkEvents, client, seen>>
        /\ loop[n] = "reading" /\ Head(in[n]).kind = "event"
    BY <1>6 DEF ReadEvent, IsRead, linkVars
  <2>a. \A m \in Conns : m > made => in[m] = <<>>
    BY <1>a DEF LinkInv
  <2>b. n \in Nat /\ made \in Nat /\ ~(n > made)
    BY <1>a, <2>1, <2>a, ConnsAre
  <2>0. n <= made
    BY <2>b
  <2>2. n = client /\ client # NoConn
    BY <1>a, <2>0, <2>1 DEF LinkInv
  <2>3. PICK e \in Nat : Head(in[n]) = EventNo(e) /\ Head(in[n]).no = e
    BY <1>a, <2>1, Events, HeadTailProperties
  <2>4. newest < e
    BY <1>a, <2>1, <2>2, <2>3, OrderTail DEF Unread
  <2>5. CASE UNCHANGED <<clientEvents, newest>>
    BY <1>s, <2>1, <2>5 DEF Feed
  <2>6. CASE clientEvents' = [clientEvents EXCEPT ![n] = Push(@, e)] /\ newest' = e
    <3>1. Feed' = Push(Feed, e)
      BY <1>a, <2>1, <2>2, <2>6 DEF Feed, EventType
    <3>2. /\ \A x : Occurs(Feed', x) => Occurs(Feed, x) \/ x = e
          /\ Occurs(Feed', e) /\ Feed' # <<>>
          /\ \A x, y : Precedes(Feed', x, y) => Precedes(Feed, x, y) \/ (Occurs(Feed, x) /\ y = e)
      BY <1>a, <3>1, PushOrder
    <3>3. /\ \A x \in Nat : Occurs(Feed, x) \/ Occurs(seen, x) \/ Occurs(linkEvents, x) => x < e
      BY <1>a, <2>4 DEF StreamInv, UpTo, EventType
    <3>4. Rising(Feed')
      BY <3>2, <3>3 DEF StreamInv, Rising
    <3>5. Before(seen, Feed') /\ Before(linkEvents, Feed')
      BY <3>2, <3>3 DEF StreamInv, Before
    <3>6. UpTo(seen, e) /\ UpTo(linkEvents, e) /\ UpTo(Feed', e)
      BY <3>2, <3>3 DEF UpTo
    <3> QED BY <2>1, <2>6, <3>2, <3>4, <3>5, <3>6 DEF StreamInv, Rising, Before, UpTo
  <2> QED BY <1>6, <2>3, <2>5, <2>6 DEF ReadEvent
<1>7. ASSUME Pump PROVE StreamInv'
  <2>1. /\ client \in Conns /\ client # NoConn /\ Feed = clientEvents[client] /\ Feed # <<>>
        /\ UNCHANGED <<client, newest, seen>> /\ linkEvents' = Push(linkEvents, Head(Feed))
        /\ clientEvents' = [clientEvents EXCEPT ![client] = Tail(@)]
    BY <1>7, <1>a DEF Pump, Feed, LinkInv, streamVars
  <2>2. Feed' = Tail(Feed)
    BY <1>a, <2>1 DEF Feed, EventType
  <2>3. PICK h \in Nat : h = Head(Feed)
    BY <1>a, <2>1, HeadTailProperties
  <2>4. /\ \A x : Occurs(Feed, x) <=> x = h \/ Occurs(Feed', x)
        /\ \A x, y : Precedes(Feed, x, y) <=> Precedes(Feed', x, y) \/ (x = h /\ Occurs(Feed', y))
    BY <1>a, <2>1, <2>2, <2>3, OrderTail
  <2>5. /\ \A x : Occurs(linkEvents', x) => Occurs(linkEvents, x) \/ x = h
        /\ Occurs(linkEvents', h) /\ linkEvents' # <<>>
        /\ \A x, y : Precedes(linkEvents', x, y) =>
                         Precedes(linkEvents, x, y) \/ (Occurs(linkEvents, x) /\ y = h)
    BY <1>a, <2>1, <2>3, PushOrder DEF EventType
  <2>6. Rising(linkEvents') /\ Rising(Feed')
    BY <2>4, <2>5 DEF StreamInv, Rising, Before
  <2>7. Before(seen, linkEvents') /\ Before(seen, Feed') /\ Before(linkEvents', Feed')
    <3>1. \A y \in Nat : Occurs(Feed', y) => h < y
      BY <2>4 DEF StreamInv, Rising
    <3> QED BY <2>4, <2>5, <3>1 DEF StreamInv, Before
  <2>8. UpTo(linkEvents', newest) /\ UpTo(Feed', newest)
    BY <2>4, <2>5 DEF StreamInv, UpTo
  <2>9. Feed' # <<>> => Occurs(Feed', newest)
    <3>1. SUFFICES ASSUME Feed' # <<>>, newest = h PROVE FALSE
      BY <2>1, <2>4 DEF StreamInv
    <3>2. Feed' \in Seq(Nat)
      BY <1>a, <2>1, <2>2, HeadTailProperties
    <3>3. PICK y \in Nat : Occurs(Feed', y)
      BY <3>1, <3>2, QueueStep, HeadTailProperties, OrderTail
    <3>4. h < y /\ y <= newest
      BY <2>4, <2>8, <3>3 DEF StreamInv, Rising, UpTo
    <3> QED BY <1>a, <3>1, <3>3, <3>4 DEF EventType
  <2>10. Feed' = <<>> => newest = h
    BY <2>1, <2>4, OrderEmpty DEF StreamInv
  <2> QED BY <2>1, <2>5, <2>6, <2>7, <2>8, <2>9, <2>10 DEF StreamInv, Rising, Before, UpTo
<1>8. ASSUME Consume PROVE StreamInv'
  <2>1. /\ linkEvents # <<>> /\ seen' = Append(seen, Head(linkEvents)) /\ linkEvents' = Tail(linkEvents)
        /\ UNCHANGED <<clientEvents, client, newest>>
    BY <1>8 DEF Consume, clientVars
  <2>2. Feed' = Feed
    BY <2>1 DEF Feed
  <2>3. PICK h \in Nat : h = Head(linkEvents)
    BY <1>a, <2>1, HeadTailProperties DEF EventType
  <2>4. /\ \A x : Occurs(linkEvents, x) <=> x = h \/ Occurs(linkEvents', x)
        /\ \A x, y : Precedes(linkEvents, x, y) <=>
                         Precedes(linkEvents', x, y) \/ (x = h /\ Occurs(linkEvents', y))
    BY <1>a, <2>1, <2>3, OrderTail DEF EventType
  <2>5. /\ \A x : Occurs(seen', x) <=> Occurs(seen, x) \/ x = h
        /\ \A x, y : Precedes(seen', x, y) <=> Precedes(seen, x, y) \/ (Occurs(seen, x) /\ y = h)
    BY <1>a, <2>1, <2>3, OrderAppend DEF EventType
  <2>6. Rising(linkEvents') /\ Rising(seen')
    BY <2>4, <2>5 DEF StreamInv, Rising, Before
  <2>7. Before(seen', linkEvents') /\ Before(seen', Feed) /\ Before(linkEvents', Feed)
    <3>1. \A y \in Nat : Occurs(linkEvents', y) => h < y
      BY <2>4 DEF StreamInv, Rising
    <3> QED BY <2>4, <2>5, <3>1 DEF StreamInv, Before
  <2>8. UpTo(linkEvents', newest) /\ UpTo(seen', newest)
    BY <2>4, <2>5 DEF StreamInv, UpTo
  <2>9. Feed = <<>> /\ linkEvents' # <<>> => Occurs(linkEvents', newest)
    <3>1. SUFFICES ASSUME Feed = <<>>, linkEvents' # <<>>, newest = h PROVE FALSE
      BY <2>1, <2>4 DEF StreamInv
    <3>2. linkEvents' \in Seq(Nat)
      BY <1>a, <2>1, HeadTailProperties DEF EventType
    <3>3. PICK y \in Nat : Occurs(linkEvents', y)
      BY <3>1, <3>2, HeadTailProperties, OrderTail
    <3>4. h < y /\ y <= newest
      BY <2>4, <2>8, <3>3 DEF StreamInv, Rising, UpTo
    <3> QED BY <1>a, <3>1, <3>3, <3>4 DEF EventType
  <2>10. Feed = <<>> /\ linkEvents' = <<>> => newest = h
    BY <2>1, <2>4, OrderEmpty DEF StreamInv
  <2> QED BY <2>1, <2>2, <2>5, <2>6, <2>7, <2>8, <2>9, <2>10 DEF StreamInv, Rising, Before, UpTo
<1> QED BY <1>1, <1>2, <1>3, <1>4, <1>5, <1>6, <1>7, <1>8 DEF Next

\* The order of two queues, one behind the other.
LEMMA ConcatOrder ==
    ASSUME NEW s \in Seq(Nat), NEW t \in Seq(Nat)
    PROVE  /\ s \o t \in Seq(Nat)
           /\ \A x : Occurs(s \o t, x) <=> Occurs(s, x) \/ Occurs(t, x)
           /\ \A x, y : Precedes(s \o t, x, y) =>
                  Precedes(s, x, y) \/ Precedes(t, x, y) \/ (Occurs(s, x) /\ Occurs(t, y))
<1> DEFINE r == s \o t
           k == Len(s)
           l == Len(t)
<1>1. /\ r \in Seq(Nat) /\ k \in Nat /\ l \in Nat /\ Len(r) = k + l
      /\ \A i \in 1..k + l : r[i] = IF i <= k THEN s[i] ELSE t[i - k]
  BY ConcatProperties, LenProperties
<1>2. \A i \in 1..Len(r) : \/ i \in 1..k /\ r[i] = s[i]
                           \/ i - k \in 1..l /\ r[i] = t[i - k]
  BY <1>1
<1>3. /\ \A i \in 1..k : i \in 1..Len(r) /\ r[i] = s[i]
      /\ \A i \in 1..l : i + k \in 1..Len(r) /\ r[i + k] = t[i]
  <2>1. \A i \in 1..l : i + k \in 1..k + l /\ ~(i + k <= k) /\ (i + k) - k = i
    BY <1>1
  <2> QED BY <1>1, <2>1
<1> HIDE DEF r, k, l
<1>4. \A x : Occurs(r, x) => Occurs(s, x) \/ Occurs(t, x)
  BY <1>2 DEF Occurs, k, l
<1>5. \A x : Occurs(s, x) => Occurs(r, x)
  BY <1>3 DEF Occurs, k
<1>6. ASSUME NEW x, Occurs(t, x) PROVE Occurs(r, x)
  <2>1. PICK i \in 1..l : t[i] = x
    BY <1>6 DEF Occurs, l
  <2> QED BY <1>3, <2>1 DEF Occurs
<1>7. ASSUME NEW x, NEW y, Precedes(r, x, y)
      PROVE  Precedes(s, x, y) \/ Precedes(t, x, y) \/ (Occurs(s, x) /\ Occurs(t, y))
  <2>1. PICK i, j \in 1..Len(r) : i < j /\ r[i] = x /\ r[j] = y
    BY <1>7 DEF Precedes
  <2>2. CASE i \in 1..k /\ r[i] = s[i] /\ j \in 1..k /\ r[j] = s[j]
    BY <2>1, <2>2 DEF Precedes, k
  <2>3. CASE i \in 1..k /\ r[i] = s[i] /\ j - k \in 1..l /\ r[j] = t[j - k]
    BY <2>1, <2>3 DEF Occurs, k, l
  <2>4. CASE i - k \in 1..l /\ r[i] = t[i - k] /\ j - k \in 1..l /\ r[j] = t[j - k]
    <3>1. i - k < j - k
      BY <1>1, <2>1
    <3> QED BY <2>1, <2>4, <3>1 DEF Precedes, l
  <2>5. ~(i - k \in 1..l /\ j \in 1..k)
    BY <1>1, <2>1
  <2> QED BY <1>2, <2>1, <2>2, <2>3, <2>4, <2>5
<1> QED BY <1>1, <1>4, <1>5, <1>6, <1>7 DEF r

\* What the consumer has seen, the link buffers and the client buffers rise from
\* event to event, and the newest one is among them.
LEMMA StreamRises ==
    ASSUME Shape, StreamInv
    PROVE  NewestIsKept
<1>a. Feed \in Seq(Nat) /\ linkEvents \in Seq(Nat) /\ seen \in Seq(Nat) /\ newest \in Nat
  BY EmptySeq, ConnsAre DEF Shape, Typed, TypedLink, EventType, Feed
<1>1. Stream = seen \o linkEvents \o Feed
  <2>1. seen \o linkEvents \in Seq(Nat)
    BY <1>a, ConcatOrder
  <2> QED BY <2>1, ConcatEmptySeq DEF Stream, Feed
<1> DEFINE r == seen \o linkEvents
<1>2. /\ r \in Seq(Nat)
      /\ \A x : Occurs(r, x) <=> Occurs(seen, x) \/ Occurs(linkEvents, x)
      /\ \A x, y : Precedes(r, x, y) => \/ Precedes(seen, x, y) \/ Precedes(linkEvents, x, y)
                                        \/ (Occurs(seen, x) /\ Occurs(linkEvents, y))
  BY <1>a, ConcatOrder
<1> HIDE DEF r
<1>3. /\ Stream \in Seq(Nat)
      /\ \A x : Occurs(Stream, x) <=> Occurs(r, x) \/ Occurs(Feed, x)
      /\ \A x, y : Precedes(Stream, x, y) => \/ Precedes(r, x, y) \/ Precedes(Feed, x, y)
                                             \/ (Occurs(r, x) /\ Occurs(Feed, y))
  <2>1. Stream = r \o Feed
    BY <1>1 DEF r
  <2> QED BY <1>a, <1>2, <2>1, ConcatOrder
<1>4. \A x, y \in Nat : Precedes(Stream, x, y) => x < y
  BY <1>2, <1>3 DEF StreamInv, Rising, Before
<1>5. \A x \in Nat : Occurs(Stream, x) => x <= newest
  BY <1>2, <1>3 DEF StreamInv, UpTo
<1>6. newest > 0 => Occurs(Stream, newest)
  BY <1>2, <1>3 DEF StreamInv
<1>7. Len(Stream) \in Nat /\ \A i \in 1..Len(Stream) : Stream[i] \in Nat
  BY <1>3, LenProperties, ElementOfSeq
<1>8. ASSUME NEW i \in 1..Len(Stream), NEW j \in 1..Len(Stream), i < j PROVE Stream[i] < Stream[j]
  <2>1. Precedes(Stream, Stream[i], Stream[j])
    BY <1>8 DEF Precedes
  <2> QED BY <1>4, <1>7, <2>1
<1>9. ASSUME newest > 0 PROVE Stream # <<>> /\ Stream[Len(Stream)] = newest
  <2>1. PICK k \in 1..Len(Stream) : Stream[k] = newest
    BY <1>6, <1>9 DEF Occurs
  <2>2. Len(Stream) \in 1..Len(Stream) /\ Stream # <<>>
    BY <1>3, <1>7, <2>1, EmptySeq
  <2>3. Stream[Len(Stream)] <= newest /\ Stream[Len(Stream)] \in Nat
    BY <1>5, <1>7, <2>2 DEF Occurs
  <2>4. ~(k < Len(Stream))
    <3>1. SUFFICES ASSUME k < Len(Stream) PROVE FALSE
      OBVIOUS
    <3>2. Stream[k] < Stream[Len(Stream)]
      BY <1>8, <2>2, <3>1
    <3> QED BY <1>a, <2>1, <2>3, <3>2
  <2>5. CASE k = Len(Stream)
    BY <2>1, <2>2, <2>5
  <2> QED BY <1>7, <2>1, <2>4, <2>5
<1> QED BY <1>8, <1>9 DEF NewestIsKept

\* Events reach the consumer in the order the switch emitted them, over any
\* number of connections and with channels of any capacity, and a full channel
\* never drops the newest one (Client.readLoop, Link.pump).
THEOREM NewestKept == Spec => []NewestIsKept
<1>1. Init => Unread /\ StreamInv
  <2> SUFFICES ASSUME Init PROVE Unread /\ StreamInv
    OBVIOUS
  <2>1. Feed = <<>> /\ linkEvents = <<>> /\ seen = <<>> /\ newest = 0 /\ emitted = 0 /\ client = NoConn
    BY DEF Init, Feed
  <2>2. Unread
    BY <2>1 DEF Unread
  <2>3. Rising(<<>>) /\ Before(<<>>, <<>>) /\ UpTo(<<>>, 0)
    BY OrderEmpty DEF Rising, Before, UpTo
  <2> QED BY <2>1, <2>2, <2>3 DEF StreamInv
<1>2. IInv /\ Unread /\ StreamInv /\ [Next]_vars => (Unread /\ StreamInv)'
  BY UnreadStep, StreamStep DEF IInv
<1>3. IInv /\ StreamInv => NewestIsKept
  BY StreamRises DEF IInv
<1> QED BY <1>1, <1>2, <1>3, Invariance, PTL DEF Spec
=============================================================================
