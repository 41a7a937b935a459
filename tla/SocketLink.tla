----------------------------- MODULE SocketLink -----------------------------
(***************************************************************************)
(* The talkers and listeners of src/raft/berkeley_socket_interface.py: the *)
(* group is known, so every talker waits for a TCP connection from each    *)
(* member, itself included, and every listener connects to the talkers one *)
(* after the other, with a limited number of attempts each.  A message is  *)
(* sent over all connections in turn, behind its length in two bytes, and  *)
(* the handler of a connection trusts that recv returns what it asks for.  *)
(*                                                                         *)
(* A frame is four units: the bytes of the length, which is below 256, and *)
(* two units of JSON.  recv returns at most what it asks for and at least  *)
(* one unit, whatever has arrived by then.                                 *)
(***************************************************************************)
EXTENDS Integers, FiniteSets, Sequences, SequencesExt

CONSTANTS
    Node,         \* members of the group
    Order,        \* the order in which each listener connects
    Attempts,     \* attempts of a listener to connect to one talker: 10
    Scripts       \* bound: the sequences of messages that each node may be given

ASSUME NodeAssumption == IsFiniteSet(Node)
ASSUME OrderAssumption ==
    \A n \in Node : Len(Order[n]) = Cardinality(Node) /\ ToSet(Order[n]) = Node
ASSUME AttemptsAssumption == Attempts \in Nat \ {0}

\* "wide": the second byte of its length is no ASCII.  "overlong": its length
\* does not fit into two bytes.
Kinds == {"plain", "wide", "overlong"}

ASSUME ScriptsAssumption == \A n \in Node : Scripts[n] \subseteq Seq(Kinds)

VARIABLES
    talker,    \* where the process Talker of each node is
    accepted,  \* the listeners whose connections it has accepted
    log,       \* the kinds of the messages given to send_message, in order
    taken,     \* how many of them the talker has taken from its queue
    todo,      \* the listeners that have yet to be sent the message taken last
    listener,  \* where the process Listener of each node is
    target,    \* the position in Order of the talker it connects to
    attempt,   \* failed attempts to do so
    stopped,   \* nodes whose _stop_event is set, in both processes
    link,      \* of a talker and a listener: the connection between them
    pipe,      \* the units in it that the listener has not read
    handler,   \* of a listener and a talker: where handle_socket is
    msglen,    \* the length that handle_socket has read
    received,  \* history: positions in log of the messages put in the queue
    short,     \* history: <<l, t>> where recv has returned less than asked for
    gaveUp     \* history: <<l, t>> where l has made all its attempts

talkerVars == <<talker, accepted, log, taken, todo>>
connectVars == <<target, attempt, gaveUp>>
handlerVars == <<handler, msglen, received, short>>
vars == <<talkerVars, connectVars, handlerVars, listener, stopped, link, pipe>>

-----------------------------------------------------------------------------

\* A unit that is read as a byte of a length although it is JSON stands for at
\* least 32: more than there is.
Large == 9

Unit == [message : Nat \ {0}, kind : Kinds, part : 1 .. 4]

\* Mutant of Value: the length counts its own bytes.
ValueWithHeader(u) == CASE u.part = 1 -> 0 [] u.part = 2 -> 4 [] OTHER -> Large

Value(u) == CASE u.part = 1 -> 0 [] u.part = 2 -> 2 [] OTHER -> Large

\* int.from_bytes(units, "big")
FromBytes(units) ==
    IF Value(units[1]) = 0 \/ Len(units) = 1 THEN Value(Last(units)) ELSE Large

Frame(i, kind) == [p \in 1 .. 4 |-> [message |-> i, kind |-> kind, part |-> p]]

\* The units parse as JSON only if they are the JSON of one message.
IsJson(units) ==
    units # <<>> /\ units = SubSeq(Frame(units[1].message, units[1].kind), 3, 4)

\* decode raises for the second byte of a wide length.
Decodes(units) == \A i \in DOMAIN units : units[i].kind = "wide" => units[i].part # 2

Running(t) == talker[t] \in {"accepting", "ready"}

\* The talker's process has ended, which closes its connections.
Gone(t) == talker[t] \in {"ended", "raised"}

Init ==
    /\ talker = [n \in Node |-> "off"]
    /\ accepted = [n \in Node |-> {}]
    /\ log = [n \in Node |-> <<>>]
    /\ taken = [n \in Node |-> 0]
    /\ todo = [n \in Node |-> {}]
    /\ listener = [n \in Node |-> "off"]
    /\ target = [n \in Node |-> 1]
    /\ attempt = [n \in Node |-> 0]
    /\ stopped = {}
    /\ link = [t \in Node |-> [l \in Node |-> "none"]]
    /\ pipe = [t \in Node |-> [l \in Node |-> <<>>]]
    /\ handler = [l \in Node |-> [t \in Node |-> "none"]]
    /\ msglen = [l \in Node |-> [t \in Node |-> 0]]
    /\ received = [l \in Node |-> [t \in Node |-> <<>>]]
    /\ short = {} /\ gaveUp = {}

\* A RaftNode is made: both processes start.
Start(n) ==
    /\ talker[n] = "off"
    /\ talker' = [talker EXCEPT ![n] = "accepting"]
    /\ listener' = [listener EXCEPT ![n] = "connecting"]
    /\ UNCHANGED <<accepted, log, taken, todo, connectVars, handlerVars, stopped,
                   link, pipe>>

stop(n) ==
    /\ talker[n] # "off"
    /\ stopped' = stopped \cup {n}
    /\ UNCHANGED <<talkerVars, connectVars, handlerVars, listener, link, pipe>>

send_message(n, kind) ==
    /\ talker[n] # "off"
    /\ \E script \in Scripts[n] : IsPrefix(Append(log[n], kind), script)
    /\ log' = [log EXCEPT ![n] = Append(@, kind)]
    /\ UNCHANGED <<talker, accepted, taken, todo, connectVars, handlerVars, listener, stopped,
                   link, pipe>>

-----------------------------------------------------------------------------
(* Talker.run.                                                             *)

\* Mutant of Complete: a talker waits for one connection too many.
CompleteOffByOne(listeners) == Cardinality(listeners) > Cardinality(Node)

\* Mutant of Complete: a talker does not wait for its own listener.
CompleteWithoutSelf(listeners) == Cardinality(listeners) >= Cardinality(Node) - 1

Complete(listeners) == Cardinality(listeners) >= Cardinality(Node)

\* A connection is accepted even if the listener has hung up since; stop is not
\* looked at before all are there.
Accept(t, l) ==
    /\ talker[t] = "accepting"
    /\ link[t][l] # "none" /\ l \notin accepted[t]
    /\ accepted' = [accepted EXCEPT ![t] = @ \cup {l}]
    /\ talker' = [talker EXCEPT ![t] = IF Complete(accepted'[t]) THEN "ready" ELSE @]
    /\ UNCHANGED <<log, taken, todo, connectVars, handlerVars, listener, stopped,
                   link, pipe>>

\* Mutant of Fits: the length is written into one byte.
FitsOneByte(kind) == kind = "plain"

\* to_bytes(2) does not raise.
Fits(kind) == kind # "overlong"

\* Mutant of Take: the OverflowError is caught, and the message skipped.
TakeSkipping(t) ==
    /\ talker[t] = "ready" /\ todo[t] = {}
    /\ t \notin stopped
    /\ taken[t] < Len(log[t])
    /\ taken' = [taken EXCEPT ![t] = @ + 1]
    /\ todo' = [todo EXCEPT ![t] = IF Fits(log[t][taken'[t]]) THEN Node ELSE {}]
    /\ UNCHANGED <<talker, accepted, log, connectVars, handlerVars, listener, stopped,
                   link, pipe>>

\* The next message; an OverflowError ends the process before anything is sent.
Take(t) ==
    /\ talker[t] = "ready" /\ todo[t] = {}
    /\ t \notin stopped
    /\ taken[t] < Len(log[t])
    /\ taken' = [taken EXCEPT ![t] = @ + 1]
    /\ IF Fits(log[t][taken'[t]])
       THEN todo' = [todo EXCEPT ![t] = Node] /\ UNCHANGED talker
       ELSE talker' = [talker EXCEPT ![t] = "raised"] /\ UNCHANGED todo
    /\ UNCHANGED <<accepted, log, connectVars, handlerVars, listener, stopped, link, pipe>>

\* The first send to a listener that has hung up is answered by a reset, and the
\* next one raises, which ends the process with the others not served.
Send(t, l) ==
    /\ talker[t] = "ready" /\ l \in todo[t]
    /\ IF link[t][l] = "reset"
       THEN /\ talker' = [talker EXCEPT ![t] = "raised"]
            /\ todo' = [todo EXCEPT ![t] = {}]
            /\ UNCHANGED <<link, pipe>>
       ELSE /\ todo' = [todo EXCEPT ![t] = @ \ {l}]
            /\ link' = [link EXCEPT ![t][l] = IF @ = "hungup" THEN "reset" ELSE @]
            /\ pipe' = IF link[t][l] = "open"
                       THEN [pipe EXCEPT ![t][l] = @ \o Frame(taken[t], log[t][taken[t]])]
                       ELSE pipe
            /\ UNCHANGED talker
    /\ UNCHANGED <<accepted, log, taken, connectVars, handlerVars, listener, stopped>>

\* Mutant of EndTalker: the talker empties its queue first.
EndTalkerWhenEmpty(t) ==
    /\ talker[t] = "ready" /\ todo[t] = {}
    /\ t \in stopped /\ taken[t] = Len(log[t])
    /\ talker' = [talker EXCEPT ![t] = "ended"]
    /\ UNCHANGED <<accepted, log, taken, todo, connectVars, handlerVars, listener, stopped,
                   link, pipe>>

\* What is left in its queue is not sent.
EndTalker(t) ==
    /\ talker[t] = "ready" /\ todo[t] = {}
    /\ t \in stopped
    /\ talker' = [talker EXCEPT ![t] = "ended"]
    /\ UNCHANGED <<accepted, log, taken, todo, connectVars, handlerVars, listener, stopped,
                   link, pipe>>

-----------------------------------------------------------------------------
(* Listener.run and handle_socket.                                         *)

\* One attempt; the kernel connects before the talker accepts.
Connect(l) ==
    /\ listener[l] = "connecting"
    /\ target[l] <= Cardinality(Node)
    /\ LET t == Order[l][target[l]]
       IN  IF Running(t) \/ attempt[l] + 1 = Attempts
           THEN /\ target' = [target EXCEPT ![l] = @ + 1]
                /\ attempt' = [attempt EXCEPT ![l] = 0]
                /\ link' = IF Running(t) THEN [link EXCEPT ![t][l] = "open"] ELSE link
                /\ gaveUp' = IF Running(t) THEN gaveUp ELSE gaveUp \cup {<<l, t>>}
           ELSE /\ attempt' = [attempt EXCEPT ![l] = @ + 1]
                /\ UNCHANGED <<target, link, gaveUp>>
    /\ UNCHANGED <<talkerVars, handlerVars, listener, stopped, pipe>>

\* Where the loop of handle_socket goes next.
Loop(l) == IF l \in stopped THEN "done" ELSE "length"

Listen(l) ==
    /\ listener[l] = "connecting"
    /\ target[l] > Cardinality(Node)
    /\ listener' = [listener EXCEPT ![l] = "listening"]
    /\ handler' = [handler EXCEPT ![l] = [t \in Node |->
                      IF link[t][l] # "none" THEN Loop(l) ELSE "none"]]
    /\ UNCHANGED <<talkerVars, connectVars, msglen, received, short, stopped, link, pipe>>

\* recv(n): the first k units; what was read is short if k < n.
Recv(l, t, n, k) ==
    /\ k \in 1 .. n /\ k <= Len(pipe[t][l])
    /\ pipe' = [pipe EXCEPT ![t][l] = SubSeq(@, k + 1, Len(@))]
    /\ short' = IF k < n THEN short \cup {<<l, t>>} ELSE short

ReadLength(l, t) ==
    /\ handler[l][t] = "length"
    /\ \E k \in 1 .. 2 :
          /\ Recv(l, t, 2, k)
          /\ msglen' = [msglen EXCEPT ![l][t] = FromBytes(SubSeq(pipe[t][l], 1, k))]
    /\ handler' = [handler EXCEPT ![l][t] = "message"]
    /\ UNCHANGED <<talkerVars, connectVars, listener, received, stopped, link>>

ReadMessage(l, t) ==
    /\ handler[l][t] = "message"
    /\ \E k \in 1 .. Large :
          LET units == SubSeq(pipe[t][l], 1, k)
          IN  /\ Recv(l, t, msglen[l][t], k)
              /\ received' = IF IsJson(units)
                             THEN [received EXCEPT ![l][t] = Append(@, units[1].message)]
                             ELSE received
              /\ handler' = [handler EXCEPT ![l][t] =
                                IF Decodes(units) THEN Loop(l) ELSE "raised"]
    /\ msglen' = [msglen EXCEPT ![l][t] = 0]
    /\ UNCHANGED <<talkerVars, connectVars, listener, stopped, link>>

\* recv(0), and every recv after the end of the stream, returns nothing, which
\* is ignored; at the end the loop only waits for stop.
ReadNothing(l, t) ==
    /\ \/ handler[l][t] = "message" /\ msglen[l][t] = 0
       \/ handler[l][t] = "message" /\ pipe[t][l] = <<>> /\ Gone(t)
       \/ handler[l][t] = "length" /\ pipe[t][l] = <<>> /\ Gone(t) /\ l \in stopped
    /\ handler' = [handler EXCEPT ![l][t] = Loop(l)]
    /\ msglen' = [msglen EXCEPT ![l][t] = 0]
    /\ UNCHANGED <<talkerVars, connectVars, listener, received, short, stopped,
                   link, pipe>>

\* futures.wait returns and the process ends, which closes its connections.
EndListener(l) ==
    /\ listener[l] = "listening" /\ l \in stopped
    /\ \A t \in Node : handler[l][t] \in {"none", "done", "raised"}
    /\ listener' = [listener EXCEPT ![l] = "ended"]
    /\ link' = [t \in Node |-> [link[t] EXCEPT ![l] =
                   IF @ = "none" THEN @
                   ELSE IF pipe[t][l] = <<>> THEN "hungup" ELSE "reset"]]
    /\ pipe' = [t \in Node |-> [pipe[t] EXCEPT ![l] = <<>>]]
    /\ UNCHANGED <<talkerVars, connectVars, handlerVars, stopped>>

-----------------------------------------------------------------------------

TalkerStep(t) ==
    \/ \E l \in Node : Accept(t, l) \/ Send(t, l)
    \/ Take(t)
    \/ EndTalker(t)

ListenerStep(l) == Connect(l) \/ Listen(l) \/ EndListener(l)

handle_socket(l, t) == ReadLength(l, t) \/ ReadMessage(l, t) \/ ReadNothing(l, t)

Next ==
    \/ \E n \in Node : Start(n) \/ stop(n)
    \/ \E n \in Node, kind \in Kinds : send_message(n, kind)
    \/ \E n \in Node : TalkerStep(n) \/ ListenerStep(n)
    \/ \E l, t \in Node : handle_socket(l, t)

Spec == Init /\ [][Next]_vars

\* The processes and the handler threads are scheduled.
Fairness ==
    /\ \A n \in Node : WF_vars(TalkerStep(n)) /\ WF_vars(ListenerStep(n))
    /\ \A l, t \in Node : WF_vars(handle_socket(l, t))

FairSpec == Spec /\ Fairness

-----------------------------------------------------------------------------
(* Properties.                                                             *)

TypeOK ==
    /\ talker \in [Node -> {"off", "accepting", "ready", "ended", "raised"}]
    /\ accepted \in [Node -> SUBSET Node]
    /\ log \in [Node -> Seq(Kinds)]
    /\ \A n \in Node : taken[n] \in 0 .. Len(log[n])
    /\ todo \in [Node -> SUBSET Node]
    /\ listener \in [Node -> {"off", "connecting", "listening", "ended"}]
    /\ target \in [Node -> 1 .. Cardinality(Node) + 1]
    /\ attempt \in [Node -> 0 .. Attempts - 1]
    /\ stopped \subseteq Node
    /\ link \in [Node -> [Node -> {"none", "open", "hungup", "reset"}]]
    /\ pipe \in [Node -> [Node -> Seq(Unit)]]
    /\ handler \in [Node -> [Node -> {"none", "length", "message", "done", "raised"}]]
    /\ msglen \in [Node -> [Node -> {0, 2, Large}]]
    /\ received \in [Node -> [Node -> Seq(Nat \ {0})]]
    /\ short \subseteq Node \X Node /\ gaveUp \subseteq Node \X Node

\* Each queue gets the messages of a talker once and in order, without a gap
\* unless a recv came short: half a message or a misread length is never taken
\* for a message, whatever the handler reads after it.
NoGapUnlessShort ==
    \A l, t \in Node :
        /\ \A i, j \in DOMAIN received[l][t] :
              i < j => received[l][t][i] < received[l][t][j]
        /\ <<l, t>> \notin short => received[l][t] = [i \in DOMAIN received[l][t] |-> i]

\* A talker raises only for an overlong message or after a listener has ended:
\* starting up, giving up and misreading never break one.
OnlyEndsBreakTalkers ==
    \A t \in Node :
        talker[t] = "raised" =>
            \/ "overlong" \in ToSet(SubSeq(log[t], 1, taken[t]))
            \/ \E l \in Node : listener[l] = "ended"

\* The first message finds everybody connected.
SendsToAll == \A t \in Node : taken[t] > 0 => \A l \in Node : link[t][l] # "none"

\* When all have started, all become ready, though each waits for the others,
\* unless a listener gave up on a talker that started too late.
StartsUnlessGivenUp ==
    <>(\A n \in Node : talker[n] # "off") =>
    <>(gaveUp # {} \/ \A n \in Node : talker[n] \notin {"off", "accepting"})

\* When all are stopped, be it before they are connected, both processes of
\* all end, although accept and recv wait without looking at stop.
StopEnds ==
    <>(stopped = Node) =>
    <>(gaveUp # {} \/ \A n \in Node : Gone(n) /\ listener[n] = "ended")

=============================================================================
