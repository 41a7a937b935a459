------------------------- MODULE SocketLink_proofs -------------------------
(***************************************************************************)
(* The safety properties of SocketLink for every group, every order in     *)
(* which the listeners connect, any number of attempts and any messages.   *)
(***************************************************************************)
EXTENDS SocketLink, FiniteSetTheorems, SequenceTheorems, TLAPS

-----------------------------------------------------------------------------
(* The inductive invariant.                                                *)

\* Both processes of a node start together.
StartInv == \A n \in Node : talker[n] = "off" <=> listener[n] = "off"

\* A talker accepts connections that exist, and takes messages from its queue
\* only when everybody is connected.
AcceptInv ==
    \A t \in Node :
        /\ \A l \in accepted[t] : link[t][l] # "none"
        /\ talker[t] = "ready" \/ taken[t] > 0 => accepted[t] = Node

\* A message that is being sent has been taken by a talker that runs.
TodoInv == \A t \in Node : todo[t] # {} => talker[t] = "ready" /\ taken[t] > 0

\* Where a listener is in its life shows in its handlers and connections.
ListenerAt(l, t) ==
    /\ listener[l] \in {"off", "connecting"} => handler[l][t] = "none"
    /\ link[t][l] = "none" => handler[l][t] = "none" /\ Len(pipe[t][l]) = 0
    /\ link[t][l] \in {"hungup", "reset"} => listener[l] = "ended"
    /\ listener[l] = "ended" =>
          /\ Len(pipe[t][l]) = 0 /\ link[t][l] # "open"
          /\ handler[l][t] \in {"none", "done", "raised"}

ListenerInv == \A l, t \in Node : ListenerAt(l, t)

\* The position of a unit in the stream of all frames of its talker.
Position(u) == 4 * (u.message - 1) + u.part

\* s whole frames have been sent, of which the end is still unread.
Stream(t, l, s) ==
    /\ talker[t] = "ready" => s = IF l \in todo[t] THEN taken[t] - 1 ELSE taken[t]
    /\ Len(pipe[t][l]) <= 4 * s
    /\ \A i \in DOMAIN pipe[t][l] :
          /\ Position(pipe[t][l][i]) = 4 * s - Len(pipe[t][l]) + i
          /\ pipe[t][l][i].kind = log[t][pipe[t][l][i].message]

\* What the handler has made of the first c units of the stream.
Reader(l, t, c) ==
    /\ handler[l][t] = "none" => c = 0 /\ Len(received[l][t]) = 0
    /\ \A i \in DOMAIN received[l][t] : 4 * received[l][t][i] <= c
    /\ <<l, t>> \notin short =>
          /\ handler[l][t] = "length" => c = 4 * Len(received[l][t])
          /\ handler[l][t] = "message" =>
                msglen[l][t] = 2 /\ c = 4 * Len(received[l][t]) + 2

FramedAt(l, t) ==
    listener[l] # "ended" =>
        \E s \in 0 .. taken[t] :
            Stream(t, l, s) /\ Reader(l, t, 4 * s - Len(pipe[t][l]))

FramingInv == \A l, t \in Node : FramedAt(l, t)

TakenType == taken \in [Node -> Nat]

SocketInv ==
    /\ TypeOK /\ TakenType /\ StartInv /\ AcceptInv /\ TodoInv /\ ListenerInv /\ FramingInv
    /\ NoGapUnlessShort /\ OnlyEndsBreakTalkers

-----------------------------------------------------------------------------
(* Lemmas on the group and on the stream of units.                         *)

\* The group is finite.
LEMMA GroupSize == Cardinality(Node) \in Nat
  BY NodeAssumption, FS_CardinalityType

\* A talker that has accepted as many listeners as there are nodes has all.
LEMMA CompleteIsAll ==
    ASSUME NEW A \in SUBSET Node, Complete(A)
    PROVE  A = Node
  BY NodeAssumption, GroupSize, FS_CardinalityType, FS_Subset DEF Complete

\* The fields of a unit of a stream.
LEMMA UnitFields ==
    ASSUME NEW u \in Unit
    PROVE  u.message \in Nat \ {0} /\ u.kind \in Kinds /\ u.part \in 1 .. 4
  BY DEF Unit

\* A frame is its four units in their order.
LEMMA FrameUnits ==
    ASSUME NEW i \in Nat \ {0}, NEW kind \in Kinds
    PROVE  /\ Frame(i, kind) \in Seq(Unit) /\ Len(Frame(i, kind)) = 4
           /\ \A p \in 1 .. 4 : Frame(i, kind)[p] = [message |-> i, kind |-> kind, part |-> p]
  <1>1. Frame(i, kind) \in [1 .. 4 -> Unit]
    BY DEF Frame, Unit
  <1>2. Frame(i, kind) \in Seq(Unit)
    BY <1>1, SeqDef, Zenon
  <1>3. Len(Frame(i, kind)) = 4
    BY <1>1, <1>2
  <1> QED BY <1>2, <1>3 DEF Frame

\* The first k units of a sequence, and the others.
LEMMA FirstUnits ==
    ASSUME NEW q \in Seq(Unit), NEW k \in 1 .. Len(q)
    PROVE  /\ SubSeq(q, 1, k) \in Seq(Unit) /\ Len(SubSeq(q, 1, k)) = k
           /\ \A i \in 1 .. k : SubSeq(q, 1, k)[i] = q[i]
           /\ SubSeq(q, k + 1, Len(q)) \in Seq(Unit)
           /\ Len(SubSeq(q, k + 1, Len(q))) = Len(q) - k
           /\ \A i \in 1 .. Len(q) - k : SubSeq(q, k + 1, Len(q))[i] = q[k + i]
  <1>1. Len(q) \in Nat /\ \A i \in 1 .. Len(q) : q[i] \in Unit
    BY ElementOfSeq, LenProperties
  <1>2. /\ SubSeq(q, 1, k) \in Seq(Unit) /\ Len(SubSeq(q, 1, k)) = k
        /\ \A i \in 1 .. k : SubSeq(q, 1, k)[i] = q[i]
    BY <1>1, SubSeqProperties
  <1>3. /\ SubSeq(q, k + 1, Len(q)) \in Seq(Unit)
        /\ Len(SubSeq(q, k + 1, Len(q))) = Len(q) - k
        /\ \A i \in 1 .. Len(q) - k : SubSeq(q, k + 1, Len(q))[i] = q[k + i]
    BY <1>1, SubSeqProperties
  <1> QED BY <1>2, <1>3

\* Whatever two bytes are read as, it is the length of a message or too large.
LEMMA LengthType ==
    ASSUME NEW q \in Seq(Unit), Len(q) > 0
    PROVE  FromBytes(q) \in {0, 2, Large}
  <1>1. \A u \in Unit : Value(u) \in {0, 2, Large}
    BY DEF Value, Large
  <1>2. Len(q) \in Nat \ {0} /\ q[Len(q)] \in Unit
    BY ElementOfSeq
  <1> QED BY <1>1, <1>2 DEF FromBytes, Last

\* The JSON of a message is the last two units of its frame.
LEMMA JsonOfMessage ==
    ASSUME NEW i \in Nat \ {0}, NEW kind \in Kinds
    PROVE  \E g \in Seq(Unit) :
              /\ g = SubSeq(Frame(i, kind), 3, 4) /\ Len(g) = 2
              /\ g[1] = [message |-> i, kind |-> kind, part |-> 3]
              /\ g[2] = [message |-> i, kind |-> kind, part |-> 4]
  <1>1. PICK f \in Seq(Unit) :
              /\ f = Frame(i, kind) /\ Len(f) = 4
              /\ \A p \in 1 .. 4 : f[p] = [message |-> i, kind |-> kind, part |-> p]
    BY FrameUnits
  <1>2. \A p \in 3 .. 4 : f[p] \in Unit
    BY <1>1 DEF Unit
  <1>3. /\ SubSeq(f, 3, 4) \in Seq(Unit) /\ Len(SubSeq(f, 3, 4)) = 2
        /\ \A p \in 1 .. 4 - 3 + 1 : SubSeq(f, 3, 4)[p] = f[3 + p - 1]
    BY <1>2, SubSeqProperties
  <1>4. SubSeq(f, 3, 4)[1] = f[3] /\ SubSeq(f, 3, 4)[2] = f[4]
    BY <1>3
  <1>5. f[3] = [message |-> i, kind |-> kind, part |-> 3]
        /\ f[4] = [message |-> i, kind |-> kind, part |-> 4]
    BY <1>1
  <1> QED BY <1>1, <1>3, <1>4, <1>5

\* Only the two units of one message parse as JSON.
LEMMA JsonUnits ==
    ASSUME NEW q \in Seq(Unit), Len(q) > 0
    PROVE  IsJson(q) <=> /\ Len(q) = 2 /\ q[1].part = 3 /\ q[2].part = 4
                         /\ q[2].message = q[1].message /\ q[2].kind = q[1].kind
  <1>1. Len(q) \in Nat \ {0} /\ q[1] \in Unit
    BY ElementOfSeq
  <1>2. PICK g \in Seq(Unit) :
              /\ g = SubSeq(Frame(q[1].message, q[1].kind), 3, 4) /\ Len(g) = 2
              /\ g[1] = [message |-> q[1].message, kind |-> q[1].kind, part |-> 3]
              /\ g[2] = [message |-> q[1].message, kind |-> q[1].kind, part |-> 4]
    BY <1>1, UnitFields, JsonOfMessage
  <1>3. IsJson(q) <=> q = g
    BY <1>2 DEF IsJson
  <1>4. ASSUME Len(q) = 2
        PROVE  q = g <=> q[1] = g[1] /\ q[2] = g[2]
    <2>1. ASSUME q[1] = g[1], q[2] = g[2]
          PROVE  q = g
      <3>1. \A i \in 1 .. Len(q) : q[i] = g[i]
        BY <1>4, <2>1
      <3> QED BY <1>2, <1>4, <3>1, SeqEqual
    <2> QED BY <2>1
  <1>5. CASE Len(q) = 2
    <2>1. q \in [1 .. Len(q) -> Unit]
      BY LenProperties
    <2>2. q[2] \in Unit
      BY <1>5, <2>1
    <2> QED BY <1>1, <1>2, <1>3, <1>4, <1>5, <2>2 DEF Unit
  <1> QED BY <1>2, <1>3, <1>5

\* An assignment to one connection has its type and leaves the others alone.
LEMMA ExceptAt ==
    ASSUME NEW S, NEW f \in [Node -> [Node -> S]], NEW a \in Node, NEW b \in Node, NEW v \in S
    PROVE  /\ [f EXCEPT ![a][b] = v] \in [Node -> [Node -> S]]
           /\ \A c, d \in Node :
                 [f EXCEPT ![a][b] = v][c][d] = IF c = a /\ d = b THEN v ELSE f[c][d]
  OBVIOUS

\* An assignment to one connection, at any connection.
LEMMA ExceptValue ==
    ASSUME NEW S, NEW f \in [Node -> [Node -> S]], NEW a \in Node, NEW b \in Node, NEW v,
           NEW c \in Node, NEW d \in Node
    PROVE  [f EXCEPT ![a][b] = v][c][d] = IF c = a /\ d = b THEN v ELSE f[c][d]
  OBVIOUS

\* A listener that connects has a target.
LEMMA TargetIsNode ==
    ASSUME TypeOK, NEW l \in Node, Connect(l)
    PROVE  Order[l][target[l]] \in Node
  <1>1. target[l] \in 1 .. Len(Order[l]) /\ ToSet(Order[l]) = Node
    BY OrderAssumption, GroupSize DEF Connect, TypeOK
  <1> QED BY <1>1 DEF ToSet

\* What a recv does to the units of all connections.
LEMMA RecvEffect ==
    ASSUME TypeOK, NEW l \in Node, NEW t \in Node, NEW n \in Nat, NEW k \in 1 .. n,
           Recv(l, t, n, k)
    PROVE  /\ k \in 1 .. Len(pipe[t][l]) /\ k <= n
           /\ pipe' \in [Node -> [Node -> Seq(Unit)]]
           /\ Len(pipe'[t][l]) = Len(pipe[t][l]) - k
           /\ \A i \in 1 .. Len(pipe[t][l]) - k : pipe'[t][l][i] = pipe[t][l][k + i]
           /\ \A u, m \in Node : u # t \/ m # l => pipe'[u][m] = pipe[u][m]
           /\ short' \subseteq Node \X Node /\ short \subseteq short'
           /\ <<l, t>> \notin short' => k = n
  <1>1. PICK q \in Seq(Unit) : q = pipe[t][l]
    BY DEF TypeOK
  <1>2. k \in 1 .. Len(q) /\ k <= n
    BY <1>1, LenProperties DEF Recv
  <1>3. PICK r \in Seq(Unit) : /\ r = SubSeq(q, k + 1, Len(q)) /\ Len(r) = Len(q) - k
                               /\ \A i \in 1 .. Len(q) - k : r[i] = q[k + i]
    BY <1>2, FirstUnits
  <1>4. pipe' = [pipe EXCEPT ![t][l] = r]
    BY <1>1, <1>3 DEF Recv
  <1>5. /\ pipe' \in [Node -> [Node -> Seq(Unit)]] /\ pipe'[t][l] = r
        /\ \A u, m \in Node : u # t \/ m # l => pipe'[u][m] = pipe[u][m]
    <2>1. pipe \in [Node -> [Node -> Seq(Unit)]]
      BY DEF TypeOK
    <2>2. pipe' \in [Node -> [Node -> Seq(Unit)]]
      BY <1>4, <2>1, ExceptAt
    <2>3. ASSUME NEW u \in Node, NEW m \in Node
          PROVE  pipe'[u][m] = IF u = t /\ m = l THEN r ELSE pipe[u][m]
      BY <1>4, <2>1
    <2> QED BY <2>2, <2>3
  <1>6. /\ short' \subseteq Node \X Node /\ short \subseteq short'
        /\ <<l, t>> \notin short' => k = n
    <2>1. short \subseteq Node \X Node /\ k \in Nat
      BY DEF TypeOK
    <2>2. short' = IF k < n THEN short \cup {<<l, t>>} ELSE short
      BY DEF Recv
    <2>3. short' = short \cup {<<l, t>>} \/ (short' = short /\ k = n)
      BY <1>2, <2>1, <2>2
    <2> QED BY <2>1, <2>3
  <1> QED BY <1>1, <1>2, <1>3, <1>5, <1>6

\* What a send to an open connection does.
LEMMA SendEffect ==
    ASSUME TypeOK, TodoInv, NEW t \in Node, NEW l \in Node, Send(t, l), link[t][l] = "open"
    PROVE  /\ taken[t] \in 1 .. Len(log[t]) /\ log[t][taken[t]] \in Kinds
           /\ pipe' \in [Node -> [Node -> Seq(Unit)]]
           /\ Len(pipe'[t][l]) = Len(pipe[t][l]) + 4
           /\ \A i \in 1 .. Len(pipe[t][l]) : pipe'[t][l][i] = pipe[t][l][i]
           /\ \A p \in 1 .. 4 : pipe'[t][l][Len(pipe[t][l]) + p] =
                    [message |-> taken[t], kind |-> log[t][taken[t]], part |-> p]
           /\ \A u, m \in Node : u # t \/ m # l => pipe'[u][m] = pipe[u][m]
  <1>1. taken[t] \in 1 .. Len(log[t]) /\ log[t] \in Seq(Kinds)
    <2>1. log[t] \in Seq(Kinds) /\ taken[t] \in 0 .. Len(log[t])
      BY DEF TypeOK
    <2>2. taken[t] > 0
      BY DEF TodoInv, Send
    <2> QED BY <2>1, <2>2, LenProperties
  <1>2. taken[t] \in Nat \ {0} /\ log[t][taken[t]] \in Kinds
    BY <1>1, ElementOfSeq
  <1>3. PICK q \in Seq(Unit) : q = pipe[t][l]
    BY DEF TypeOK
  <1>4. PICK f \in Seq(Unit) :
            /\ f = Frame(taken[t], log[t][taken[t]]) /\ Len(f) = 4
            /\ \A p \in 1 .. 4 :
                  f[p] = [message |-> taken[t], kind |-> log[t][taken[t]], part |-> p]
    BY <1>2, FrameUnits
  <1>5. PICK r : /\ r = q \o f
                 /\ r \in Seq(Unit) /\ Len(r) = Len(q) + Len(f)
                 /\ \A i \in 1 .. Len(q) + Len(f) :
                       r[i] = IF i <= Len(q) THEN q[i] ELSE f[i - Len(q)]
    <2>1. /\ q \o f \in Seq(Unit) /\ Len(q \o f) = Len(q) + Len(f)
          /\ \A i \in 1 .. Len(q) + Len(f) :
                (q \o f)[i] = IF i <= Len(q) THEN q[i] ELSE f[i - Len(q)]
      BY ConcatProperties, Zenon
    <2> QED BY <2>1, Zenon
  <1>6. pipe' = [pipe EXCEPT ![t][l] = r]
    BY <1>3, <1>4, <1>5 DEF Send
  <1>7. /\ pipe' \in [Node -> [Node -> Seq(Unit)]] /\ pipe'[t][l] = r
        /\ \A u, m \in Node : u # t \/ m # l => pipe'[u][m] = pipe[u][m]
    <2>1. pipe \in [Node -> [Node -> Seq(Unit)]]
      BY DEF TypeOK
    <2>2. pipe' \in [Node -> [Node -> Seq(Unit)]]
      BY <1>5, <1>6, <2>1, ExceptAt
    <2>3. ASSUME NEW u \in Node, NEW m \in Node
          PROVE  pipe'[u][m] = IF u = t /\ m = l THEN r ELSE pipe[u][m]
      BY <1>5, <1>6, <2>1
    <2> QED BY <2>2, <2>3
  <1>8. Len(q) \in Nat
    BY LenProperties
  <1>9. /\ Len(r) = Len(q) + 4
        /\ \A i \in 1 .. Len(q) : r[i] = q[i]
        /\ \A p \in 1 .. 4 : r[Len(q) + p] = f[p]
    BY <1>4, <1>5, <1>8
  <1> QED BY <1>1, <1>2, <1>3, <1>4, <1>7, <1>9

-----------------------------------------------------------------------------
(* Every step keeps the types.                                             *)

\* The steps of Talker.run keep the types.
LEMMA TalkerTypes ==
    ASSUME TypeOK, TakenType, TodoInv, NEW t \in Node, TalkerStep(t)
    PROVE  TypeOK' /\ TakenType'
  <1>1. ASSUME NEW l \in Node, Accept(t, l)
        PROVE  TypeOK' /\ TakenType'
    <2>1. accepted' \in [Node -> SUBSET Node]
      BY <1>1 DEF Accept, TypeOK
    <2>2. talker' \in [Node -> {"off", "accepting", "ready", "ended", "raised"}]
      BY <1>1 DEF Accept, TypeOK
    <2> QED BY <1>1, <2>1, <2>2
               DEF Accept, TypeOK, TakenType, connectVars, handlerVars
  <1>2. ASSUME NEW l \in Node, Send(t, l)
        PROVE  TypeOK' /\ TakenType'
    <2>1. todo' \in [Node -> SUBSET Node]
          /\ talker' \in [Node -> {"off", "accepting", "ready", "ended", "raised"}]
      <3>1. CASE link[t][l] = "reset"
        BY <1>2, <3>1 DEF Send, TypeOK
      <3>2. CASE link[t][l] # "reset"
        <4>1. todo' = [todo EXCEPT ![t] = @ \ {l}] /\ talker' = talker
          BY <1>2, <3>2 DEF Send
        <4> QED BY <4>1 DEF TypeOK
      <3> QED BY <3>1, <3>2
    <2>2. link' \in [Node -> [Node -> {"none", "open", "hungup", "reset"}]]
      <3>1. link' = link \/ link' = [link EXCEPT ![t][l] = "reset"] \/ link' = [link EXCEPT ![t][l] = @]
        BY <1>2 DEF Send
      <3>2. link \in [Node -> [Node -> {"none", "open", "hungup", "reset"}]]
        BY DEF TypeOK
      <3> QED BY <3>1, <3>2
    <2>3. pipe' \in [Node -> [Node -> Seq(Unit)]]
      <3>1. CASE link[t][l] = "open"
        BY <1>2, <3>1, SendEffect
      <3>2. CASE link[t][l] # "open"
        BY <1>2, <3>2 DEF Send, TypeOK
      <3> QED BY <3>1, <3>2
    <2> QED BY <1>2, <2>1, <2>2, <2>3
               DEF Send, TypeOK, TakenType, connectVars, handlerVars
  <1>3. CASE Take(t)
    <2>1. taken' \in [Node -> Nat] /\ \A n \in Node : taken'[n] \in 0 .. Len(log'[n])
      BY <1>3, LenProperties DEF Take, TypeOK, TakenType
    <2>2. todo' \in [Node -> SUBSET Node]
          /\ talker' \in [Node -> {"off", "accepting", "ready", "ended", "raised"}]
      <3>1. /\ todo' = todo \/ todo' = [todo EXCEPT ![t] = Node]
            /\ talker' = talker \/ talker' = [talker EXCEPT ![t] = "raised"]
        BY <1>3 DEF Take
      <3>2. /\ todo \in [Node -> SUBSET Node]
            /\ talker \in [Node -> {"off", "accepting", "ready", "ended", "raised"}]
        BY DEF TypeOK
      <3> QED BY <3>1, <3>2
    <2> QED BY <1>3, <2>1, <2>2
               DEF Take, TypeOK, TakenType, connectVars, handlerVars
  <1>4. CASE EndTalker(t)
    BY <1>4 DEF EndTalker, TypeOK, TakenType, connectVars, handlerVars
  <1> QED BY <1>1, <1>2, <1>3, <1>4 DEF TalkerStep

\* The steps of Listener.run keep the types.
LEMMA ListenerTypes ==
    ASSUME TypeOK, TakenType, NEW l \in Node, ListenerStep(l)
    PROVE  TypeOK' /\ TakenType'
  <1>1. CASE Connect(l)
    <2>1. PICK t \in Node : t = Order[l][target[l]]
      BY <1>1, TargetIsNode
    <2>2. /\ target[l] <= Cardinality(Node)
          /\ target' = target \/ target' = [target EXCEPT ![l] = @ + 1]
          /\ \/ attempt' = [attempt EXCEPT ![l] = 0]
             \/ attempt[l] + 1 # Attempts /\ attempt' = [attempt EXCEPT ![l] = @ + 1]
          /\ link' = link \/ link' = [link EXCEPT ![t][l] = "open"]
          /\ gaveUp' = gaveUp \/ gaveUp' = gaveUp \cup {<<l, t>>}
      BY <1>1, <2>1 DEF Connect
    <2>3. target' \in [Node -> 1 .. Cardinality(Node) + 1]
      <3>1. target \in [Node -> 1 .. Cardinality(Node) + 1]
        BY DEF TypeOK
      <3> QED BY <2>2, <3>1, GroupSize
    <2>4. attempt' \in [Node -> 0 .. Attempts - 1]
      <3>1. attempt \in [Node -> 0 .. Attempts - 1]
        BY DEF TypeOK
      <3> QED BY <2>2, <3>1, AttemptsAssumption
    <2>5. link' \in [Node -> [Node -> {"none", "open", "hungup", "reset"}]]
          /\ gaveUp' \subseteq Node \X Node
      <3>1. /\ link \in [Node -> [Node -> {"none", "open", "hungup", "reset"}]]
            /\ gaveUp \subseteq Node \X Node
        BY DEF TypeOK
      <3> QED BY <2>2, <3>1
    <2> QED BY <1>1, <2>3, <2>4, <2>5
               DEF Connect, TypeOK, TakenType, talkerVars, handlerVars
  <1>2. CASE Listen(l)
    BY <1>2 DEF Listen, Loop, TypeOK, TakenType, talkerVars, connectVars
  <1>3. CASE EndListener(l)
    <2>1. /\ listener' \in [Node -> {"off", "connecting", "listening", "ended"}]
          /\ link' \in [Node -> [Node -> {"none", "open", "hungup", "reset"}]]
      BY <1>3 DEF EndListener, TypeOK
    <2>2. pipe' \in [Node -> [Node -> Seq(Unit)]]
      <3>1. <<>> \in Seq(Unit)
        BY EmptySeq
      <3> QED BY <1>3, <3>1 DEF EndListener, TypeOK
    <2> QED BY <1>3, <2>1, <2>2
               DEF EndListener, TypeOK, TakenType, talkerVars, connectVars, handlerVars
  <1> QED BY <1>1, <1>2, <1>3 DEF ListenerStep

\* The steps of handle_socket keep the types.
LEMMA HandlerTypes ==
    ASSUME TypeOK, TakenType, NEW l \in Node, NEW t \in Node, handle_socket(l, t)
    PROVE  TypeOK' /\ TakenType'
  <1>1. CASE ReadLength(l, t)
    <2>1. PICK k \in 1 .. 2 :
              /\ Recv(l, t, 2, k)
              /\ msglen' = [msglen EXCEPT ![l][t] = FromBytes(SubSeq(pipe[t][l], 1, k))]
      BY <1>1 DEF ReadLength
    <2>2. PICK q \in Seq(Unit) : q = SubSeq(pipe[t][l], 1, k) /\ Len(q) > 0
      <3>1. k \in 1 .. Len(pipe[t][l]) /\ pipe[t][l] \in Seq(Unit)
        <4>1. k \in 1 .. Len(pipe[t][l])
          BY <2>1, RecvEffect
        <4>2. pipe[t][l] \in Seq(Unit)
          BY DEF TypeOK
        <4> QED BY <4>1, <4>2
      <3>2. SubSeq(pipe[t][l], 1, k) \in Seq(Unit) /\ Len(SubSeq(pipe[t][l], 1, k)) = k
        BY <3>1, FirstUnits
      <3>3. k > 0
        OBVIOUS
      <3> QED BY <3>2, <3>3, Zenon
    <2>3. msglen' \in [Node -> [Node -> {0, 2, Large}]]
      <3>1. FromBytes(q) \in {0, 2, Large}
        BY <2>2, LengthType
      <3> QED BY <2>1, <2>2, <3>1 DEF TypeOK
    <2>4. handler' \in [Node -> [Node -> {"none", "length", "message", "done", "raised"}]]
      BY <1>1 DEF ReadLength, TypeOK
    <2>5. pipe' \in [Node -> [Node -> Seq(Unit)]] /\ short' \subseteq Node \X Node
      BY <2>1, RecvEffect
    <2> QED BY <1>1, <2>3, <2>4, <2>5
               DEF ReadLength, TypeOK, TakenType, talkerVars, connectVars
  <1>2. CASE ReadMessage(l, t)
    <2>1. PICK k \in 1 .. Large :
              /\ Recv(l, t, msglen[l][t], k)
              /\ LET units == SubSeq(pipe[t][l], 1, k)
                 IN  /\ received' = IF IsJson(units)
                                    THEN [received EXCEPT ![l][t] = Append(@, units[1].message)]
                                    ELSE received
                     /\ handler' = [handler EXCEPT ![l][t] =
                                       IF Decodes(units) THEN Loop(l) ELSE "raised"]
      BY <1>2 DEF ReadMessage
    <2>2. /\ k \in 1 .. Len(pipe[t][l]) /\ pipe[t][l] \in Seq(Unit)
          /\ pipe' \in [Node -> [Node -> Seq(Unit)]] /\ short' \subseteq Node \X Node
      <3>1. msglen[l][t] \in Nat
        <4>1. msglen \in [Node -> [Node -> {0, 2, Large}]]
          BY DEF TypeOK
        <4> QED BY <4>1 DEF Large
      <3>2. k \in 1 .. msglen[l][t]
        BY <2>1 DEF Recv
      <3>3. /\ k \in 1 .. Len(pipe[t][l])
            /\ pipe' \in [Node -> [Node -> Seq(Unit)]] /\ short' \subseteq Node \X Node
        BY <2>1, <3>1, <3>2, RecvEffect
      <3>4. pipe[t][l] \in Seq(Unit)
        BY DEF TypeOK
      <3> QED BY <3>3, <3>4
    <2>3. PICK q \in Seq(Unit) : q = SubSeq(pipe[t][l], 1, k) /\ Len(q) = k
      BY <2>2, FirstUnits
    <2>4. q[1].message \in Nat \ {0}
      <3>1. q[1] \in Unit
        BY <2>2, <2>3, ElementOfSeq
      <3> QED BY <3>1, UnitFields
    <2>5. received' \in [Node -> [Node -> Seq(Nat \ {0})]]
      <3>1. PICK r : r = Append(received[l][t], q[1].message)
        OBVIOUS
      <3>2. r \in Seq(Nat \ {0}) /\ received \in [Node -> [Node -> Seq(Nat \ {0})]]
        BY <2>4, <3>1, AppendProperties DEF TypeOK
      <3>3. received' = received \/ received' = [received EXCEPT ![l][t] = r]
        BY <2>1, <2>3, <3>1
      <3>4. [received EXCEPT ![l][t] = r] \in [Node -> [Node -> Seq(Nat \ {0})]]
        BY <3>2, ExceptAt, Zenon
      <3> QED BY <3>2, <3>3, <3>4, Zenon
    <2>6. handler' \in [Node -> [Node -> {"none", "length", "message", "done", "raised"}]]
      <3>1. \E h \in {"length", "done", "raised"} : handler' = [handler EXCEPT ![l][t] = h]
        BY <2>1 DEF Loop
      <3> QED BY <3>1 DEF TypeOK
    <2>7. msglen' \in [Node -> [Node -> {0, 2, Large}]]
      BY <1>2 DEF ReadMessage, TypeOK
    <2> QED BY <1>2, <2>2, <2>5, <2>6, <2>7
               DEF ReadMessage, TypeOK, TakenType, talkerVars, connectVars
  <1>3. CASE ReadNothing(l, t)
    <2>1. handler' \in [Node -> [Node -> {"none", "length", "message", "done", "raised"}]]
      <3>1. \E h \in {"length", "done"} : handler' = [handler EXCEPT ![l][t] = h]
        BY <1>3 DEF ReadNothing, Loop
      <3> QED BY <3>1 DEF TypeOK
    <2>2. msglen' \in [Node -> [Node -> {0, 2, Large}]]
      BY <1>3 DEF ReadNothing, TypeOK
    <2> QED BY <1>3, <2>1, <2>2
               DEF ReadNothing, TypeOK, TakenType, talkerVars, connectVars
  <1> QED BY <1>1, <1>2, <1>3 DEF handle_socket

\* Every step keeps the types.
LEMMA TypeNext == TypeOK /\ TakenType /\ TodoInv /\ [Next]_vars => TypeOK' /\ TakenType'
  <1> SUFFICES ASSUME TypeOK, TakenType, TodoInv, [Next]_vars
               PROVE  TypeOK' /\ TakenType'
    OBVIOUS
  <1>1. ASSUME NEW n \in Node, Start(n) \/ stop(n)
        PROVE  TypeOK' /\ TakenType'
    <2>1. /\ talker' \in [Node -> {"off", "accepting", "ready", "ended", "raised"}]
          /\ listener' \in [Node -> {"off", "connecting", "listening", "ended"}]
          /\ stopped' \subseteq Node
      BY <1>1 DEF Start, stop, TypeOK, talkerVars
    <2> QED BY <1>1, <2>1
               DEF Start, stop, TypeOK, TakenType, talkerVars, connectVars, handlerVars
  <1>2. ASSUME NEW n \in Node, NEW kind \in Kinds, send_message(n, kind)
        PROVE  TypeOK' /\ TakenType'
    <2>1. PICK g \in Seq(Kinds) : g = Append(log[n], kind) /\ Len(g) = Len(log[n]) + 1
      <3>1. PICK h \in Seq(Kinds) : h = log[n]
        BY DEF TypeOK
      <3>2. Append(h, kind) \in Seq(Kinds) /\ Len(Append(h, kind)) = Len(h) + 1
        BY AppendProperties
      <3> QED BY <3>1, <3>2
    <2>2. log' = [log EXCEPT ![n] = g]
      BY <1>2, <2>1 DEF send_message
    <2>3. log' \in [Node -> Seq(Kinds)] /\ \A m \in Node : taken'[m] \in 0 .. Len(log'[m])
      <3>1. log \in [Node -> Seq(Kinds)] /\ \A m \in Node : taken[m] \in 0 .. Len(log[m])
        BY DEF TypeOK
      <3>2. Len(log[n]) \in Nat
        BY <3>1, LenProperties
      <3> QED BY <1>2, <2>1, <2>2, <3>1, <3>2 DEF send_message
    <2> QED BY <1>2, <2>3 DEF send_message, TypeOK, TakenType, connectVars, handlerVars
  <1>3. CASE UNCHANGED vars
    BY <1>3 DEF vars, TypeOK, TakenType, talkerVars, connectVars, handlerVars
  <1> QED BY <1>1, <1>2, <1>3, TalkerTypes, ListenerTypes, HandlerTypes DEF Next

-----------------------------------------------------------------------------
(* Connections, handlers and what is being sent.                           *)

\* The two processes of a node start together.
LEMMA StartNext == SocketInv /\ [Next]_vars => StartInv'
  <1> SUFFICES ASSUME TypeOK, StartInv, [Next]_vars
               PROVE  StartInv'
    BY DEF SocketInv
  <1>1. /\ talker \in [Node -> {"off", "accepting", "ready", "ended", "raised"}]
        /\ listener \in [Node -> {"off", "connecting", "listening", "ended"}]
    BY DEF TypeOK
  <1>2. ASSUME NEW n \in Node, Start(n)
        PROVE  StartInv'
    BY <1>1, <1>2 DEF Start, StartInv
  <1>3. ASSUME NEW t \in Node, TalkerStep(t)
        PROVE  StartInv'
    <2>1. /\ talker[t] \in {"accepting", "ready"} /\ listener' = listener
          /\ talker' = talker \/ \E w \in {"ready", "ended", "raised"} :
                                    talker' = [talker EXCEPT ![t] = w]
      BY <1>1, <1>3, ZenonT(60) DEF TalkerStep, Accept, Send, Take, EndTalker
    <2> QED BY <1>1, <2>1 DEF StartInv
  <1>4. ASSUME NEW l \in Node, Listen(l) \/ EndListener(l)
        PROVE  StartInv'
    BY <1>1, <1>4 DEF Listen, EndListener, StartInv, talkerVars
  <1>5. CASE UNCHANGED <<talker, listener>>
    BY <1>5 DEF StartInv
  <1> QED BY <1>2, <1>3, <1>4, <1>5
             DEF Next, ListenerStep, handle_socket, stop, send_message, Connect, ReadLength,
                 ReadMessage, ReadNothing, vars, talkerVars

\* A talker takes messages only when everybody is connected.
LEMMA AcceptNext == SocketInv /\ [Next]_vars => AcceptInv'
  <1> SUFFICES ASSUME TypeOK, TakenType, AcceptInv, TodoInv, [Next]_vars
               PROVE  AcceptInv'
    BY DEF SocketInv
  <1>1. ASSUME NEW t \in Node, NEW l \in Node, Accept(t, l)
        PROVE  AcceptInv'
    <2>1. accepted' \in [Node -> SUBSET Node] /\ accepted'[t] = accepted[t] \cup {l}
          /\ \A u \in Node : u # t => accepted'[u] = accepted[u]
      BY <1>1 DEF Accept, TypeOK
    <2>2. talker'[t] = "ready" => accepted'[t] = Node
      <3>1. talker'[t] = "ready" => Complete(accepted'[t])
        BY <1>1 DEF Accept, TypeOK
      <3> QED BY <2>1, <3>1, CompleteIsAll
    <2>3. taken[t] > 0 => accepted'[t] = Node
      BY <2>1 DEF AcceptInv
    <2>4. \A u \in Node : u # t => talker'[u] = talker[u]
      BY <1>1 DEF Accept, TypeOK
    <2> QED BY <1>1, <2>1, <2>2, <2>3, <2>4 DEF Accept, AcceptInv
  <1>2. ASSUME NEW t \in Node, Take(t)
        PROVE  AcceptInv'
    <2>1. accepted[t] = Node
      BY <1>2 DEF Take, AcceptInv
    <2>2. \A u \in Node : u # t => talker'[u] = talker[u] /\ taken'[u] = taken[u]
      <3>1. /\ talker' = talker \/ talker' = [talker EXCEPT ![t] = "raised"]
            /\ taken' = [taken EXCEPT ![t] = @ + 1]
        BY <1>2 DEF Take
      <3> QED BY <3>1 DEF TypeOK, TakenType
    <2> QED BY <1>2, <2>1, <2>2 DEF Take, AcceptInv
  <1>3. ASSUME \A t, l \in Node : link'[t][l] = "none" => link[t][l] = "none",
               \A t \in Node : talker'[t] = "ready" => talker[t] = "ready",
               accepted' = accepted, taken' = taken
        PROVE  AcceptInv'
    BY <1>3 DEF AcceptInv, TypeOK
  <1>4. ASSUME NEW t \in Node, NEW l \in Node, Send(t, l)
        PROVE  AcceptInv'
    <2>1. /\ link' = link \/ link' = [link EXCEPT ![t][l] = "reset"] \/ link' = [link EXCEPT ![t][l] = @]
          /\ talker' = talker \/ talker' = [talker EXCEPT ![t] = "raised"]
          /\ accepted' = accepted /\ taken' = taken
      BY <1>4 DEF Send
    <2>2. /\ link \in [Node -> [Node -> {"none", "open", "hungup", "reset"}]]
          /\ talker \in [Node -> {"off", "accepting", "ready", "ended", "raised"}]
      BY DEF TypeOK
    <2>3. /\ \A u, m \in Node : link'[u][m] = "none" => link[u][m] = "none"
          /\ \A u \in Node : talker'[u] = "ready" => talker[u] = "ready"
      BY <2>1, <2>2
    <2> QED BY <1>3, <2>1, <2>3
  <1>5. ASSUME NEW l \in Node, Connect(l)
        PROVE  AcceptInv'
    <2>1. /\ link' = link \/ link' = [link EXCEPT ![Order[l][target[l]]][l] = "open"]
          /\ talker' = talker /\ accepted' = accepted /\ taken' = taken
      BY <1>5 DEF Connect, talkerVars
    <2>2. link \in [Node -> [Node -> {"none", "open", "hungup", "reset"}]]
      BY DEF TypeOK
    <2>3. \A u, m \in Node : link'[u][m] = "none" => link[u][m] = "none"
      BY <2>1, <2>2
    <2> QED BY <1>3, <2>1, <2>3
  <1>6. ASSUME NEW l \in Node, EndListener(l)
        PROVE  AcceptInv'
    BY <1>3, <1>6 DEF EndListener, TypeOK, talkerVars
  <1>7. ASSUME NEW n \in Node, Start(n) \/ EndTalker(n)
        PROVE  AcceptInv'
    BY <1>3, <1>7 DEF Start, EndTalker, TypeOK
  <1>8. CASE UNCHANGED <<talker, accepted, taken, link>>
    BY <1>3, <1>8
  <1> QED BY <1>1, <1>2, <1>4, <1>5, <1>6, <1>7, <1>8
             DEF Next, TalkerStep, ListenerStep, handle_socket, stop, send_message, Listen,
                 ReadLength, ReadMessage, ReadNothing, vars, talkerVars

\* What is left to send belongs to a message that was taken.
LEMMA TodoNext == SocketInv /\ [Next]_vars => TodoInv'
  <1> SUFFICES ASSUME TypeOK, TakenType, TodoInv, [Next]_vars
               PROVE  TodoInv'
    BY DEF SocketInv
  <1>1. /\ todo \in [Node -> SUBSET Node] /\ taken \in [Node -> Nat]
        /\ talker \in [Node -> {"off", "accepting", "ready", "ended", "raised"}]
    BY DEF TypeOK, TakenType
  <1>2. ASSUME NEW t \in Node, Take(t)
        PROVE  TodoInv'
    <2>1. /\ talker[t] = "ready" /\ todo[t] = {}
          /\ taken' = [taken EXCEPT ![t] = @ + 1]
          /\ \/ todo' = [todo EXCEPT ![t] = Node] /\ talker' = talker
             \/ todo' = todo /\ talker' = [talker EXCEPT ![t] = "raised"]
      BY <1>2 DEF Take
    <2> QED BY <1>1, <2>1 DEF TodoInv
  <1>3. ASSUME NEW t \in Node, NEW l \in Node, Send(t, l)
        PROVE  TodoInv'
    <2>1. /\ talker[t] = "ready" /\ taken' = taken /\ l \in todo[t]
          /\ \/ talker' = [talker EXCEPT ![t] = "raised"] /\ todo' = [todo EXCEPT ![t] = {}]
             \/ todo' = [todo EXCEPT ![t] = @ \ {l}] /\ talker' = talker
      BY <1>3 DEF Send
    <2> QED BY <1>1, <2>1 DEF TodoInv
  <1>4. ASSUME NEW t \in Node, \/ Start(t) \/ EndTalker(t)
                               \/ \E l \in Node : Accept(t, l)
        PROVE  TodoInv'
    <2>1. /\ talker' = talker \/ \E w \in {"accepting", "ready", "ended"} :
                                      talker' = [talker EXCEPT ![t] = w]
          /\ todo' = todo /\ taken' = taken
          /\ talker[t] # "ready" \/ todo[t] = {}
      BY <1>1, <1>4 DEF Start, EndTalker, Accept
    <2> QED BY <1>1, <2>1 DEF TodoInv
  <1>5. CASE UNCHANGED <<talker, taken, todo>>
    BY <1>5 DEF TodoInv
  <1> QED BY <1>2, <1>3, <1>4, <1>5
             DEF Next, TalkerStep, ListenerStep, handle_socket, stop, send_message, Connect,
                 Listen, EndListener, ReadLength, ReadMessage, ReadNothing, vars, talkerVars

\* The end of a listener ends its handlers and connections.
LEMMA ListenerNext == SocketInv /\ [Next]_vars => ListenerInv'
  <1> SUFFICES ASSUME TypeOK, StartInv, AcceptInv, TodoInv, ListenerInv, [Next]_vars,
                      NEW l \in Node, NEW t \in Node
               PROVE  ListenerAt(l, t)'
    BY DEF SocketInv, ListenerInv
  <1>1. /\ link \in [Node -> [Node -> {"none", "open", "hungup", "reset"}]]
        /\ listener \in [Node -> {"off", "connecting", "listening", "ended"}]
        /\ handler \in [Node -> [Node -> {"none", "length", "message", "done", "raised"}]]
        /\ pipe \in [Node -> [Node -> Seq(Unit)]]
    BY DEF TypeOK
  <1>2. ListenerAt(l, t)
    BY DEF ListenerInv
  <1>3. ASSUME listener'[l] = listener[l], link'[t][l] = link[t][l],
               pipe'[t][l] = pipe[t][l], handler'[l][t] = handler[l][t]
        PROVE  ListenerAt(l, t)'
    BY <1>2, <1>3 DEF ListenerAt
  <1>4. ASSUME NEW n \in Node, Start(n)
        PROVE  ListenerAt(l, t)'
    <2>1. /\ listener[n] = "off" /\ listener' = [listener EXCEPT ![n] = "connecting"]
          /\ link' = link /\ pipe' = pipe /\ handler' = handler
      BY <1>4 DEF Start, StartInv, handlerVars
    <2> QED BY <1>1, <1>2, <1>3, <2>1 DEF ListenerAt
  <1>5. ASSUME NEW u \in Node, NEW m \in Node, Send(u, m)
        PROVE  ListenerAt(l, t)'
    <2>1. /\ listener' = listener /\ handler' = handler
          /\ link'[t][l] = link[t][l] \/ (link[t][l] = "hungup" /\ link'[t][l] = "reset")
      <3>1. /\ listener' = listener /\ handler' = handler
            /\ \/ link' = link
               \/ link[u][m] = "hungup" /\ link' = [link EXCEPT ![u][m] = "reset"]
               \/ link' = [link EXCEPT ![u][m] = link[u][m]]
        BY <1>5 DEF Send, handlerVars
      <3>2. ASSUME NEW v
            PROVE  [link EXCEPT ![u][m] = v][t][l] = IF t = u /\ l = m THEN v ELSE link[t][l]
        BY <1>1
      <3> QED BY <3>1, <3>2
    <2>2. pipe'[t][l] = pipe[t][l] \/ (u = t /\ m = l /\ link[t][l] = "open")
      <3>1. CASE link[u][m] = "open"
        <4>1. \A v, n \in Node : v # u \/ n # m => pipe'[v][n] = pipe[v][n]
          BY <1>5, <3>1, SendEffect, ZenonT(60)
        <4> QED BY <3>1, <4>1
      <3>2. CASE link[u][m] # "open"
        <4>1. pipe' = pipe
          BY <1>5, <3>2 DEF Send
        <4> QED BY <4>1
      <3> QED BY <3>1, <3>2
    <2> QED BY <1>2, <2>1, <2>2 DEF ListenerAt
  <1>6. ASSUME NEW m \in Node, Connect(m)
        PROVE  ListenerAt(l, t)'
    <2> PICK u \in Node : u = Order[m][target[m]]
      BY <1>6, TargetIsNode
    <2>1. /\ link' = link \/ link' = [link EXCEPT ![u][m] = "open"]
          /\ listener[m] = "connecting"
          /\ listener' = listener /\ handler' = handler /\ pipe' = pipe
      BY <1>6 DEF Connect, handlerVars
    <2>2. link'[t][l] = link[t][l] \/ (listener[l] = "connecting" /\ link'[t][l] = "open")
      <3>1. [link EXCEPT ![u][m] = "open"][t][l] =
               IF t = u /\ l = m THEN "open" ELSE link[t][l]
        BY <1>1
      <3> QED BY <2>1, <3>1
    <2> QED BY <1>2, <2>1, <2>2 DEF ListenerAt
  <1>7. ASSUME NEW m \in Node, Listen(m)
        PROVE  ListenerAt(l, t)'
    <2>1. /\ listener[m] = "connecting" /\ listener' = [listener EXCEPT ![m] = "listening"]
          /\ handler'[l][t] = IF l # m THEN handler[l][t]
                              ELSE IF link[t][l] # "none" THEN Loop(l) ELSE "none"
          /\ link' = link /\ pipe' = pipe
      BY <1>1, <1>7 DEF Listen
    <2> QED BY <1>1, <1>2, <2>1 DEF ListenerAt
  <1>8. ASSUME NEW m \in Node, EndListener(m)
        PROVE  ListenerAt(l, t)'
    <2>1. /\ \A u \in Node : handler[m][u] \in {"none", "done", "raised"}
          /\ listener' = [listener EXCEPT ![m] = "ended"]
          /\ handler' = handler
      BY <1>8 DEF EndListener, handlerVars
    <2>2. CASE m # l
      BY <1>1, <1>3, <1>8, <2>1, <2>2 DEF EndListener
    <2>3. CASE m = l
      <3>1. link'[t][l] = "none" <=> link[t][l] = "none"
        BY <1>1, <1>8, <2>3 DEF EndListener
      <3>2. link'[t][l] \in {"none", "hungup", "reset"}
        BY <1>1, <1>8, <2>3 DEF EndListener
      <3>3. Len(pipe'[t][l]) = 0
        <4>1. pipe'[t][l] = <<>>
          BY <1>1, <1>8, <2>3 DEF EndListener
        <4> QED BY <4>1, EmptySeq
      <3> QED BY <1>1, <1>2, <2>1, <2>3, <3>1, <3>2, <3>3 DEF ListenerAt
    <2> QED BY <2>2, <2>3
  <1>9. ASSUME NEW m \in Node, NEW u \in Node, handle_socket(m, u)
        PROVE  ListenerAt(l, t)'
    <2>1. /\ link' = link /\ listener' = listener
          /\ handler[m][u] \in {"length", "message"}
          /\ \E h \in {"length", "message", "done", "raised"} :
                handler' = [handler EXCEPT ![m][u] = h]
      BY <1>9 DEF handle_socket, ReadLength, ReadMessage, ReadNothing, Loop
    <2>2. m # l \/ u # t => pipe'[t][l] = pipe[t][l]
      <3>1. pipe' = pipe \/ \E q : pipe' = [pipe EXCEPT ![u][m] = q]
        BY <1>9 DEF handle_socket, ReadLength, ReadMessage, ReadNothing, Recv
      <3>2. CASE pipe' = pipe
        BY <3>2
      <3>3. ASSUME NEW q, pipe' = [pipe EXCEPT ![u][m] = q], m # l \/ u # t
            PROVE  pipe'[t][l] = pipe[t][l]
        <4>1. [pipe EXCEPT ![u][m] = q][t][l] = pipe[t][l]
          BY <1>1, <3>3, ExceptValue
        <4> QED BY <3>3, <4>1
      <3> QED BY <3>1, <3>2, <3>3
    <2>3. CASE m = l /\ u = t
      BY <1>1, <1>2, <2>1, <2>3 DEF ListenerAt
    <2>4. CASE m # l \/ u # t
      BY <1>1, <1>3, <2>1, <2>2, <2>4
    <2> QED BY <2>3, <2>4
  <1>10. CASE UNCHANGED <<listener, link, pipe, handler>>
    BY <1>3, <1>10
  <1> QED BY <1>4, <1>5, <1>6, <1>7, <1>8, <1>9, <1>10
             DEF Next, TalkerStep, ListenerStep, stop, send_message, Accept, Take, EndTalker,
                 vars, talkerVars, handlerVars

-----------------------------------------------------------------------------
(* The framing of the messages.                                            *)

\* A position in the stream names one unit of one frame.
LEMMA UnitAt ==
    ASSUME NEW u \in Unit, NEW r \in Nat, NEW j \in 1 .. 4, Position(u) = 4 * r + j
    PROVE  u.message = r + 1 /\ u.part = j
  BY UnitFields DEF Position

\* A step that leaves the connection of a pair alone.
LEMMA FramingStable ==
    ASSUME NEW l \in Node, NEW t \in Node, FramedAt(l, t),
           listener[l] = "ended" => listener'[l] = "ended",
           taken'[t] = taken[t], log'[t] = log[t],
           talker'[t] = "ready" => /\ talker[t] = "ready"
                                   /\ l \in todo'[t] <=> l \in todo[t],
           pipe'[t][l] = pipe[t][l], handler'[l][t] = handler[l][t],
           msglen'[l][t] = msglen[l][t], received'[l][t] = received[l][t],
           <<l, t>> \in short => <<l, t>> \in short'
    PROVE  FramedAt(l, t)'
  BY DEF FramedAt, Stream, Reader

\* A send adds one whole frame to the stream of its connection.
LEMMA FramingSend ==
    ASSUME SocketInv, NEW l \in Node, NEW t \in Node, NEW m \in Node, Send(t, m)
    PROVE  FramedAt(l, t)'
  <1>1. /\ talker[t] = "ready" /\ m \in todo[t] /\ FramedAt(l, t) /\ todo \in [Node -> SUBSET Node]
        /\ talker \in [Node -> {"off", "accepting", "ready", "ended", "raised"}]
        /\ UNCHANGED <<listener, taken, log, handler, msglen, received, short>>
    BY DEF Send, SocketInv, TypeOK, FramingInv, handlerVars
  <1>2. CASE m # l
    <2>1. pipe'[t][l] = pipe[t][l]
      <3>1. CASE link[t][m] = "open"
        <4>1. \A u, n \in Node : u # t \/ n # m => pipe'[u][n] = pipe[u][n]
          BY <3>1, SendEffect DEF SocketInv
        <4> QED BY <1>2, <4>1
      <3>2. CASE link[t][m] # "open"
        BY <3>2 DEF Send
      <3> QED BY <3>1, <3>2
    <2>2. \/ talker' = [talker EXCEPT ![t] = "raised"]
          \/ todo' = [todo EXCEPT ![t] = @ \ {m}] /\ talker' = talker
      BY DEF Send
    <2> QED BY <1>1, <1>2, <2>1, <2>2, FramingStable
  <1>3. CASE m = l
    <2>1. SUFFICES ASSUME listener[l] # "ended"
                   PROVE  FramedAt(l, t)'
      BY <1>1 DEF FramedAt
    <2>2. link[t][l] = "open"
      <3>1. link[t][l] \in {"none", "open", "hungup", "reset"} /\ ListenerAt(l, t)
        BY DEF SocketInv, TypeOK, ListenerInv
      <3>2. link[t][l] # "none"
        BY <1>1 DEF SocketInv, AcceptInv
      <3> QED BY <2>1, <3>1, <3>2 DEF ListenerAt
    <2>3. PICK s \in 0 .. taken[t] : Stream(t, l, s) /\ Reader(l, t, 4 * s - Len(pipe[t][l]))
      BY <1>1, <2>1 DEF FramedAt
    <2>4. taken[t] \in Nat \ {0} /\ s = taken[t] - 1
      BY <1>1, <1>3, <2>3 DEF Stream, SocketInv, TakenType, TodoInv
    <2>5. l \notin todo'[t] /\ talker' = talker
      BY <1>1, <1>3, <2>2 DEF Send
    <2>6. /\ pipe[t][l] \in Seq(Unit) /\ pipe'[t][l] \in Seq(Unit)
          /\ Len(pipe'[t][l]) = Len(pipe[t][l]) + 4
          /\ \A i \in 1 .. Len(pipe[t][l]) : pipe'[t][l][i] = pipe[t][l][i]
          /\ \A p \in 1 .. 4 : pipe'[t][l][Len(pipe[t][l]) + p] =
                   [message |-> taken[t], kind |-> log[t][taken[t]], part |-> p]
      <3>1. Send(t, l)
        BY <1>3
      <3>2. pipe[t][l] \in Seq(Unit)
        BY DEF SocketInv, TypeOK
      <3>3. /\ pipe' \in [Node -> [Node -> Seq(Unit)]]
            /\ Len(pipe'[t][l]) = Len(pipe[t][l]) + 4
            /\ \A i \in 1 .. Len(pipe[t][l]) : pipe'[t][l][i] = pipe[t][l][i]
            /\ \A p \in 1 .. 4 : pipe'[t][l][Len(pipe[t][l]) + p] =
                     [message |-> taken[t], kind |-> log[t][taken[t]], part |-> p]
        BY <2>2, <3>1, SendEffect DEF SocketInv
      <3> QED BY <3>2, <3>3
    <2>7. PICK n \in Nat : n = Len(pipe[t][l]) /\ Len(pipe'[t][l]) = n + 4
      BY <2>6, LenProperties
    <2>8. Stream(t, l, s + 1)'
      <3>1. ASSUME NEW i \in DOMAIN pipe'[t][l]
            PROVE  /\ Position(pipe'[t][l][i]) = 4 * (s + 1) - (n + 4) + i
                   /\ pipe'[t][l][i].kind = log[t][pipe'[t][l][i].message]
        <4>1. i \in 1 .. n + 4 /\ DOMAIN pipe[t][l] = 1 .. n
          BY <2>6, <2>7, LenProperties
        <4>2. CASE i <= n
          <5>1. pipe'[t][l][i] = pipe[t][l][i] /\ i \in DOMAIN pipe[t][l]
            BY <2>6, <2>7, <4>1, <4>2
          <5>2. /\ Position(pipe[t][l][i]) = 4 * s - n + i
                /\ pipe[t][l][i].kind = log[t][pipe[t][l][i].message]
            BY <2>3, <2>7, <5>1 DEF Stream
          <5> QED BY <5>1, <5>2 DEF Position
        <4>3. CASE i > n
          <5>1. PICK p \in 1 .. 4 : i = n + p
            BY <4>1, <4>3
          <5>2. pipe'[t][l][i] = [message |-> taken[t], kind |-> log[t][taken[t]], part |-> p]
            BY <2>6, <2>7, <5>1
          <5> QED BY <2>4, <5>1, <5>2 DEF Position
        <4> QED BY <4>1, <4>2, <4>3
      <3>2. n + 4 <= 4 * (s + 1)
        BY <2>3, <2>7 DEF Stream
      <3> QED BY <1>1, <2>4, <2>5, <2>7, <3>1, <3>2 DEF Stream
    <2>9. Reader(l, t, 4 * (s + 1) - Len(pipe[t][l]))'
      <3>0. 4 * (s + 1) - (n + 4) = 4 * s - n
        BY <2>4
      <3>1. PICK c : c = 4 * s - Len(pipe[t][l]) /\ c = 4 * (s + 1) - Len(pipe'[t][l])
        BY <2>7, <3>0
      <3>2. Reader(l, t, c)'
        BY <1>1, <2>3, <3>1 DEF Reader
      <3> QED BY <3>1, <3>2 DEF Reader
    <2>10. s + 1 \in 0 .. taken'[t]
      BY <1>1, <2>4
    <2> QED BY <2>8, <2>9, <2>10 DEF FramedAt
  <1> QED BY <1>2, <1>3

\* The other steps of a talker leave the streams alone.
LEMMA FramingTalker ==
    ASSUME SocketInv, NEW l \in Node, NEW t \in Node, NEW u \in Node, TalkerStep(u)
    PROVE  FramedAt(l, t)'
  <1>1. /\ FramedAt(l, t) /\ todo \in [Node -> SUBSET Node] /\ taken \in [Node -> Nat]
        /\ talker \in [Node -> {"off", "accepting", "ready", "ended", "raised"}]
    BY DEF SocketInv, TypeOK, TakenType, FramingInv
  <1>2. ASSUME NEW m \in Node, Accept(u, m)
        PROVE  FramedAt(l, t)'
    <2>1. /\ UNCHANGED <<log, taken, todo, handlerVars, listener, pipe>>
          /\ talker[u] = "accepting" /\ m \notin accepted[u]
          /\ talker' = talker \/ talker' = [talker EXCEPT ![u] = "ready"]
      BY <1>1, <1>2 DEF Accept
    <2>2. CASE t # u
      BY <1>1, <2>1, <2>2, FramingStable DEF handlerVars
    <2>3. CASE t = u
      <3>1. taken[t] = 0 /\ todo[t] = {}
        BY <1>1, <2>1, <2>3 DEF SocketInv, AcceptInv, TodoInv
      <3>2. ASSUME NEW s \in 0 .. taken[t], Stream(t, l, s)
            PROVE  s \in 0 .. taken'[t] /\ Stream(t, l, s)'
        BY <2>1, <3>1, <3>2 DEF Stream
      <3>3. ASSUME NEW c, Reader(l, t, c)
            PROVE  Reader(l, t, c)'
        BY <2>1, <3>3 DEF Reader, handlerVars
      <3> QED BY <1>1, <2>1, <3>2, <3>3 DEF FramedAt
    <2> QED BY <2>2, <2>3
  <1>3. CASE Take(u)
    <2>1. /\ UNCHANGED <<log, handlerVars, listener, pipe>>
          /\ talker[u] = "ready" /\ todo[u] = {} /\ taken' = [taken EXCEPT ![u] = @ + 1]
          /\ \/ todo' = [todo EXCEPT ![u] = Node] /\ talker' = talker
             \/ todo' = todo /\ talker' = [talker EXCEPT ![u] = "raised"]
      BY <1>3 DEF Take
    <2>2. CASE t # u
      BY <1>1, <2>1, <2>2, FramingStable DEF handlerVars
    <2>3. CASE t = u
      <3>1. ASSUME NEW s \in 0 .. taken[t], Stream(t, l, s)
            PROVE  s \in 0 .. taken'[t] /\ Stream(t, l, s)'
        <4>1. /\ taken'[t] = taken[t] + 1 /\ taken[t] \in Nat /\ s \in Nat
              /\ talker'[t] = "ready" => l \in todo'[t]
              /\ s = taken[t]
          BY <1>1, <2>1, <2>3, <3>1 DEF Stream
        <4>2. s \in 0 .. taken'[t]
          BY <4>1
        <4>3. talker'[t] = "ready" => s = IF l \in todo'[t] THEN taken'[t] - 1 ELSE taken'[t]
          BY <4>1
        <4> QED BY <2>1, <3>1, <4>2, <4>3 DEF Stream
      <3>2. ASSUME NEW c, Reader(l, t, c)
            PROVE  Reader(l, t, c)'
        BY <2>1, <3>2 DEF Reader, handlerVars
      <3> QED BY <1>1, <2>1, <3>1, <3>2 DEF FramedAt
    <2> QED BY <2>2, <2>3
  <1>4. CASE EndTalker(u)
    BY <1>1, <1>4, FramingStable DEF EndTalker, handlerVars
  <1>5. ASSUME NEW m \in Node, Send(u, m), t # u
        PROVE  FramedAt(l, t)'
    <2>1. /\ UNCHANGED <<log, taken, handlerVars, listener>>
          /\ talker' = talker \/ talker' = [talker EXCEPT ![u] = "raised"]
          /\ \E set \in SUBSET Node : todo' = [todo EXCEPT ![u] = set]
      BY <1>1, <1>5 DEF Send
    <2>2. pipe'[t][l] = pipe[t][l]
      <3>1. CASE link[u][m] = "open"
        <4>1. \A v, n \in Node : v # u \/ n # m => pipe'[v][n] = pipe[v][n]
          BY <1>5, <3>1, SendEffect DEF SocketInv
        <4> QED BY <1>5, <4>1
      <3>2. CASE link[u][m] # "open"
        BY <1>5, <3>2 DEF Send
      <3> QED BY <3>1, <3>2
    <2> QED BY <1>1, <1>5, <2>1, <2>2, FramingStable DEF handlerVars
  <1> QED BY <1>2, <1>3, <1>4, <1>5, FramingSend DEF TalkerStep

\* The steps of a listener keep the framing until it ends.
LEMMA FramingListener ==
    ASSUME SocketInv, NEW l \in Node, NEW t \in Node, NEW m \in Node, ListenerStep(m)
    PROVE  FramedAt(l, t)'
  <1>1. /\ FramedAt(l, t) /\ ListenerAt(l, t)
        /\ listener \in [Node -> {"off", "connecting", "listening", "ended"}]
        /\ handler \in [Node -> [Node -> {"none", "length", "message", "done", "raised"}]]
    BY DEF SocketInv, TypeOK, FramingInv, ListenerInv
  <1>2. CASE Connect(m)
    BY <1>1, <1>2, FramingStable DEF Connect, talkerVars, handlerVars
  <1>3. CASE Listen(m)
    <2>1. /\ UNCHANGED <<talkerVars, msglen, received, short, pipe>>
          /\ listener[m] = "connecting" /\ listener' = [listener EXCEPT ![m] = "listening"]
          /\ handler'[l][t] = IF l # m THEN handler[l][t]
                              ELSE IF link[t][l] # "none" THEN Loop(l) ELSE "none"
      BY <1>1, <1>3 DEF Listen
    <2>2. CASE l # m
      BY <1>1, <2>1, <2>2, FramingStable DEF talkerVars
    <2>3. CASE l = m
      <3>1. handler[l][t] = "none" /\ handler'[l][t] \in {"none", "length", "done"}
        BY <1>1, <2>1, <2>3 DEF ListenerAt, Loop
      <3>2. ASSUME NEW c, Reader(l, t, c)
            PROVE  Reader(l, t, c)'
        BY <2>1, <3>1, <3>2 DEF Reader
      <3>3. ASSUME NEW s, Stream(t, l, s)
            PROVE  Stream(t, l, s)'
        BY <2>1, <3>3 DEF Stream, talkerVars
      <3> QED BY <1>1, <2>1, <2>3, <3>2, <3>3 DEF FramedAt, talkerVars
    <2> QED BY <2>2, <2>3
  <1>4. CASE EndListener(m)
    <2>1. /\ UNCHANGED <<talkerVars, handlerVars>>
          /\ listener' = [listener EXCEPT ![m] = "ended"]
          /\ l # m => pipe'[t][l] = pipe[t][l]
      BY <1>1, <1>4 DEF EndListener, SocketInv, TypeOK
    <2>2. CASE l # m
      BY <1>1, <2>1, <2>2, FramingStable DEF talkerVars, handlerVars
    <2>3. CASE l = m
      BY <1>1, <2>1, <2>3 DEF FramedAt
    <2> QED BY <2>2, <2>3
  <1> QED BY <1>2, <1>3, <1>4 DEF ListenerStep

\* The handler has taken the first k units of what is there.
Advanced(l, t, s, k) ==
    /\ Stream(t, l, s)'
    /\ 4 * s - Len(pipe[t][l]) \in Nat
    /\ 4 * s - Len(pipe'[t][l]) = 4 * s - Len(pipe[t][l]) + k
    /\ \A i \in 1 .. k : Position(pipe[t][l][i]) = 4 * s - Len(pipe[t][l]) + i

\* A recv takes the first units of the stream and leaves the rest in place.
LEMMA StreamRecv ==
    ASSUME SocketInv, NEW l \in Node, NEW t \in Node, NEW n \in Nat, NEW k \in 1 .. n,
           Recv(l, t, n, k), UNCHANGED talkerVars, NEW s \in Nat, Stream(t, l, s)
    PROVE  Advanced(l, t, s, k)
  <1> TypeOK
    BY DEF SocketInv
  <1>1. /\ k \in 1 .. Len(pipe[t][l])
        /\ Len(pipe'[t][l]) = Len(pipe[t][l]) - k
        /\ \A i \in 1 .. Len(pipe[t][l]) - k : pipe'[t][l][i] = pipe[t][l][k + i]
        /\ pipe' \in [Node -> [Node -> Seq(Unit)]]
    <2>1. k \in 1 .. Len(pipe[t][l])
      BY RecvEffect
    <2>2. Len(pipe'[t][l]) = Len(pipe[t][l]) - k
      <3>1. pipe'[t][l] = SubSeq(pipe[t][l], k + 1, Len(pipe[t][l]))
        BY DEF Recv, TypeOK
      <3>2. pipe[t][l] \in Seq(Unit)
        BY DEF TypeOK
      <3> QED BY <2>1, <3>1, <3>2, FirstUnits
    <2>3. \A i \in 1 .. Len(pipe[t][l]) - k : pipe'[t][l][i] = pipe[t][l][k + i]
      BY RecvEffect, ZenonT(60)
    <2>4. pipe' \in [Node -> [Node -> Seq(Unit)]]
      BY RecvEffect
    <2> QED BY <2>1, <2>2, <2>3, <2>4
  <1>2. PICK p \in Nat : p = Len(pipe[t][l]) /\ DOMAIN pipe[t][l] = 1 .. p
    <2>1. pipe[t][l] \in Seq(Unit)
      BY DEF SocketInv, TypeOK
    <2> QED BY <2>1, LenProperties
  <1>3. DOMAIN pipe'[t][l] = 1 .. p - k
    BY <1>1, <1>2, LenProperties
  <1>4. \A i \in 1 .. p : Position(pipe[t][l][i]) = 4 * s - p + i
    BY <1>2 DEF Stream
  <1>5. p <= 4 * s
    BY <1>2 DEF Stream
  <1>6. ASSUME NEW i \in 1 .. p - k
        PROVE  /\ Position(pipe'[t][l][i]) = 4 * s - (p - k) + i
               /\ pipe'[t][l][i].kind = log[t][pipe'[t][l][i].message]
    <2>1. k + i \in 1 .. p /\ pipe'[t][l][i] = pipe[t][l][k + i]
      <3>1. k \in 1 .. p /\ i \in 1 .. Len(pipe[t][l]) - k
        BY <1>1, <1>2
      <3>2. k + i \in 1 .. p
        BY <3>1
      <3> QED BY <1>1, <3>1, <3>2
    <2>2. Position(pipe[t][l][k + i]) = 4 * s - p + (k + i)
      BY <1>4, <2>1
    <2>3. pipe[t][l][k + i].kind = log[t][pipe[t][l][k + i].message]
      BY <1>2, <2>1 DEF Stream
    <2>4. 4 * s - p + (k + i) = 4 * s - (p - k) + i
      BY <1>1, <1>2
    <2>5. Position(pipe'[t][l][i]) = Position(pipe[t][l][k + i])
      BY <2>1
    <2> QED BY <2>1, <2>2, <2>3, <2>4, <2>5
  <1>7. p - k <= 4 * s
    BY <1>1, <1>2, <1>5
  <1>8. Stream(t, l, s)'
    BY <1>1, <1>2, <1>3, <1>6, <1>7 DEF Stream, talkerVars
  <1>9. /\ 4 * s - p \in Nat /\ 4 * s - (p - k) = 4 * s - p + k
        /\ \A i \in 1 .. k : Position(pipe[t][l][i]) = 4 * s - p + i
    <2>1. k \in 1 .. p
      BY <1>1, <1>2
    <2>2. 4 * s - p \in Nat /\ 4 * s - (p - k) = 4 * s - p + k
      BY <1>5, <2>1
    <2>3. \A i \in 1 .. k : Position(pipe[t][l][i]) = 4 * s - p + i
      BY <1>4, <2>1
    <2> QED BY <2>2, <2>3
  <1> QED BY <1>1, <1>2, <1>8, <1>9 DEF Advanced

\* What a handler that reads finds.
LEMMA Reading ==
    ASSUME SocketInv, NEW l \in Node, NEW t \in Node, handler[l][t] \in {"length", "message"}
    PROVE  \E s \in Nat, c \in Nat :
              /\ s \in 0 .. taken[t] /\ c = 4 * s - Len(pipe[t][l])
              /\ Stream(t, l, s) /\ Reader(l, t, c)
  <1>1. listener[l] # "ended" /\ FramedAt(l, t) /\ taken[t] \in Nat /\ pipe[t][l] \in Seq(Unit)
    <2>1. ListenerAt(l, t) /\ FramedAt(l, t) /\ taken[t] \in Nat /\ pipe[t][l] \in Seq(Unit)
      BY DEF SocketInv, TypeOK, TakenType, ListenerInv, FramingInv
    <2> QED BY <2>1 DEF ListenerAt
  <1>2. PICK s \in 0 .. taken[t] : Stream(t, l, s) /\ Reader(l, t, 4 * s - Len(pipe[t][l]))
    BY <1>1 DEF FramedAt
  <1>3. PICK p \in Nat : p = Len(pipe[t][l])
    BY <1>1, LenProperties
  <1>4. s \in Nat /\ p <= 4 * s
    BY <1>1, <1>2, <1>3 DEF Stream
  <1>5. PICK c \in Nat : c = 4 * s - p
    BY <1>4
  <1> QED BY <1>2, <1>3, <1>4, <1>5

\* Reading a length keeps the framing.
LEMMA FramingReadLength ==
    ASSUME SocketInv, NEW l \in Node, NEW t \in Node, ReadLength(l, t)
    PROVE  FramedAt(l, t)'
  <1>1. /\ UNCHANGED <<talkerVars, received>> /\ handler[l][t] = "length"
        /\ handler'[l][t] = "message" /\ TypeOK
    BY DEF ReadLength, SocketInv, TypeOK
  <1>2. PICK s \in Nat, c \in Nat :
              /\ s \in 0 .. taken[t] /\ c = 4 * s - Len(pipe[t][l])
              /\ Stream(t, l, s) /\ Reader(l, t, c)
    BY <1>1, Reading
  <1>3. PICK k \in 1 .. 2 :
            /\ Recv(l, t, 2, k)
            /\ msglen' = [msglen EXCEPT ![l][t] = FromBytes(SubSeq(pipe[t][l], 1, k))]
    BY DEF ReadLength
  <1>4. /\ Stream(t, l, s)' /\ 4 * s - Len(pipe'[t][l]) = c + k
        /\ \A i \in 1 .. k : Position(pipe[t][l][i]) = c + i
    <2>1. Advanced(l, t, s, k)
      <3>1. UNCHANGED talkerVars /\ 2 \in Nat
        BY <1>1
      <3> QED BY <1>2, <1>3, <3>1, StreamRecv
    <2> QED BY <1>2, <2>1 DEF Advanced
  <1>5. /\ k \in 1 .. Len(pipe[t][l]) /\ short \subseteq short'
        /\ <<l, t>> \notin short' => k = 2
    BY <1>1, <1>3, RecvEffect
  <1>6. ASSUME <<l, t>> \notin short'
        PROVE  msglen'[l][t] = 2 /\ c = 4 * Len(received[l][t])
    <2>1. k = 2 /\ c = 4 * Len(received[l][t])
      BY <1>1, <1>2, <1>5, <1>6 DEF Reader
    <2>2. PICK r \in Nat : r = Len(received[l][t])
      BY <1>1, LenProperties DEF TypeOK
    <2>3. PICK q \in Seq(Unit) : /\ q = SubSeq(pipe[t][l], 1, k) /\ Len(q) = 2
                                 /\ q[1] = pipe[t][l][1] /\ q[2] = pipe[t][l][2]
      <3>1. pipe[t][l] \in Seq(Unit)
        BY <1>1 DEF TypeOK
      <3>2. /\ SubSeq(pipe[t][l], 1, k) \in Seq(Unit) /\ Len(SubSeq(pipe[t][l], 1, k)) = k
            /\ \A i \in 1 .. k : SubSeq(pipe[t][l], 1, k)[i] = pipe[t][l][i]
        BY <1>5, <3>1, FirstUnits
      <3>3. Len(SubSeq(pipe[t][l], 1, k)) = 2
        BY <2>1, <3>2
      <3>4. /\ SubSeq(pipe[t][l], 1, k)[1] = pipe[t][l][1]
            /\ SubSeq(pipe[t][l], 1, k)[2] = pipe[t][l][2]
        BY <2>1, <3>2
      <3> QED BY <3>2, <3>3, <3>4, Zenon
    <2>4. q[1] \in Unit /\ q[2] \in Unit
      BY <2>3, ElementOfSeq
    <2>5. Position(q[1]) = 4 * r + 1 /\ Position(q[2]) = 4 * r + 2
      BY <1>4, <2>1, <2>2, <2>3
    <2>6. q[1].part = 1 /\ q[2].part = 2
      <3>1. q[1].part = 1
        <4>1. 1 \in 1 .. 4
          OBVIOUS
        <4> QED BY <2>4, <2>5, <4>1, UnitAt, ZenonT(60)
      <3>2. q[2].part = 2
        <4>1. 2 \in 1 .. 4
          OBVIOUS
        <4> QED BY <2>4, <2>5, <4>1, UnitAt, ZenonT(60)
      <3> QED BY <3>1, <3>2
    <2>7. FromBytes(q) = 2
      <3>1. Value(q[1]) = 0 /\ Value(q[2]) = 2 /\ Last(q) = q[2]
        <4>1. Value(q[1]) = 0
          BY <2>6 DEF Value
        <4>2. Value(q[2]) = 2
          BY <2>6 DEF Value
        <4> QED BY <2>3, <4>1, <4>2 DEF Last
      <3> QED BY <3>1 DEF FromBytes
    <2> QED BY <1>1, <1>3, <2>1, <2>3, <2>7 DEF TypeOK
  <1>7. Reader(l, t, c + k)'
    <2>1. \A i \in DOMAIN received[l][t] : received[l][t][i] \in Nat
      BY <1>1, LenProperties DEF TypeOK
    <2>2. \A i \in DOMAIN received[l][t] : 4 * received[l][t][i] <= c + k
      <3> SUFFICES ASSUME NEW i \in DOMAIN received[l][t]
                   PROVE  4 * received[l][t][i] <= c + k
        OBVIOUS
      <3>1. 4 * received[l][t][i] <= c
        BY <1>2 DEF Reader
      <3>2. PICK r \in Nat : r = received[l][t][i]
        BY <2>1
      <3> QED BY <3>1, <3>2
    <2>3. <<l, t>> \notin short' => msglen'[l][t] = 2 /\ c + k = 4 * Len(received[l][t]) + 2
      BY <1>5, <1>6
    <2> QED BY <1>1, <2>2, <2>3 DEF Reader
  <1> QED BY <1>1, <1>2, <1>4, <1>7 DEF FramedAt, talkerVars

Increasing(r) == \A i, j \in DOMAIN r : i < j => r[i] < r[j]

Gapless(r) == r = [i \in DOMAIN r |-> i]

NoGapAt(l, t) ==
    /\ Increasing(received[l][t])
    /\ <<l, t>> \notin short => Gapless(received[l][t])

\* NoGapUnlessShort, one pair of nodes at a time.
LEMMA NoGapPairs == NoGapUnlessShort <=> \A l, t \in Node : NoGapAt(l, t)
  BY DEF NoGapUnlessShort, NoGapAt, Increasing, Gapless

InOrder(r, m, a) ==
    /\ a \in Seq(Nat \ {0}) /\ Len(a) = Len(r) + 1 /\ DOMAIN a = 1 .. Len(a)
    /\ \A i \in DOMAIN r : a[i] = r[i]
    /\ a[Len(r) + 1] = m
    /\ Increasing(a)
    /\ Gapless(r) /\ m = Len(r) + 1 => Gapless(a)

\* What was read to its end is earlier than what is read to its end now.
LEMMA EarlierMessage ==
    ASSUME NEW c \in Nat, NEW x \in Nat, NEW m \in Nat, 4 * x <= c, 4 * m = c + 2
    PROVE  x < m
  OBVIOUS

\* A later message at the end keeps a queue in order.
LEMMA AppendInOrder ==
    ASSUME NEW r \in Seq(Nat \ {0}), Increasing(r), NEW m \in Nat \ {0},
           \A i \in DOMAIN r : r[i] < m,
           NEW a, a = Append(r, m)
    PROVE  InOrder(r, m, a)
  <1>1. PICK n \in Nat : n = Len(r) /\ DOMAIN r = 1 .. n
    BY LenProperties
  <1>2. /\ a \in Seq(Nat \ {0}) /\ Len(a) = n + 1
        /\ \A i \in 1 .. n : a[i] = r[i]
        /\ a[n + 1] = m
    BY <1>1, AppendProperties
  <1>3. DOMAIN a = 1 .. n + 1
    BY <1>2, LenProperties
  <1>4. \A i \in 1 .. n + 1 : i \in 1 .. n \/ i = n + 1
    OBVIOUS
  <1>5. Increasing(a)
    BY <1>1, <1>2, <1>3, <1>4 DEF Increasing
  <1>6. ASSUME Gapless(r), m = n + 1
        PROVE  Gapless(a)
    <2>1. \A i \in 1 .. n : r[i] = i
      BY <1>1, <1>6 DEF Gapless
    <2>2. \A i \in 1 .. n + 1 : a[i] = i
      BY <1>2, <1>4, <1>6, <2>1
    <2>3. a = [i \in 1 .. n + 1 |-> a[i]]
      BY <1>2, <1>3, LenProperties
    <2> QED BY <1>3, <2>2, <2>3 DEF Gapless
  <1> QED BY <1>1, <1>2, <1>3, <1>5, <1>6 DEF InOrder

\* Reading a message keeps the framing and enters the next one, if any.
LEMMA FramingReadMessage ==
    ASSUME SocketInv, NEW l \in Node, NEW t \in Node, ReadMessage(l, t)
    PROVE  FramedAt(l, t)' /\ NoGapAt(l, t)'
  <1>1. /\ UNCHANGED talkerVars /\ handler[l][t] = "message"
        /\ TypeOK /\ NoGapAt(l, t)
    BY NoGapPairs DEF ReadMessage, SocketInv
  <1>2. PICK s \in Nat, c \in Nat :
              /\ s \in 0 .. taken[t] /\ c = 4 * s - Len(pipe[t][l])
              /\ Stream(t, l, s) /\ Reader(l, t, c)
    BY <1>1, Reading
  <1>3. PICK k \in 1 .. Large :
            /\ Recv(l, t, msglen[l][t], k)
            /\ LET units == SubSeq(pipe[t][l], 1, k)
               IN  /\ received' = IF IsJson(units)
                                  THEN [received EXCEPT ![l][t] = Append(@, units[1].message)]
                                  ELSE received
                   /\ handler' = [handler EXCEPT ![l][t] =
                                     IF Decodes(units) THEN Loop(l) ELSE "raised"]
    BY DEF ReadMessage
  <1>4. PICK n \in Nat : n = msglen[l][t] /\ k \in 1 .. n
    <2>1. msglen[l][t] \in {0, 2, Large}
      BY <1>1 DEF TypeOK
    <2> QED BY <1>3, <2>1 DEF Recv, Large
  <1>5. /\ Stream(t, l, s)' /\ 4 * s - Len(pipe'[t][l]) = c + k
        /\ \A i \in 1 .. k : Position(pipe[t][l][i]) = c + i
    <2>1. Advanced(l, t, s, k)
      BY <1>1, <1>2, <1>3, <1>4, StreamRecv
    <2> QED BY <1>2, <2>1 DEF Advanced
  <1>6. /\ k \in 1 .. Len(pipe[t][l]) /\ short \subseteq short'
        /\ <<l, t>> \notin short' => k = n
    BY <1>1, <1>3, <1>4, RecvEffect
  <1>7. PICK q \in Seq(Unit) : /\ q = SubSeq(pipe[t][l], 1, k) /\ Len(q) = k
                               /\ \A i \in 1 .. k : q[i] = pipe[t][l][i]
    <2>1. pipe[t][l] \in Seq(Unit)
      BY <1>1 DEF TypeOK
    <2>2. /\ SubSeq(pipe[t][l], 1, k) \in Seq(Unit) /\ Len(SubSeq(pipe[t][l], 1, k)) = k
          /\ \A i \in 1 .. k : SubSeq(pipe[t][l], 1, k)[i] = pipe[t][l][i]
      BY <1>6, <2>1, FirstUnits
    <2> QED BY <2>2, Zenon
  <1>8. \A i \in 1 .. k : q[i] \in Unit /\ Position(q[i]) = c + i
    <2>1. \A i \in 1 .. Len(q) : q[i] \in Unit
      BY ElementOfSeq
    <2> QED BY <1>5, <1>7, <2>1 DEF Position
  <1>9. PICK r \in Seq(Nat \ {0}) : r = received[l][t] /\ DOMAIN r = 1 .. Len(r)
    BY <1>1, LenProperties DEF TypeOK
  <1>10. Len(r) \in Nat /\ \A i \in DOMAIN r : r[i] \in Nat /\ 4 * r[i] <= c
    <2>1. Len(r) \in Nat /\ \A i \in DOMAIN r : r[i] \in Nat
      BY <1>9, LenProperties
    <2>2. \A i \in DOMAIN r : 4 * r[i] <= c
      BY <1>2, <1>9 DEF Reader
    <2> QED BY <2>1, <2>2
  <1>11. handler'[l][t] \in {"length", "done", "raised"}
    BY <1>1, <1>3 DEF TypeOK, Loop
  \* The JSON of one message, whatever the handler took it for before.
  <1>12. ASSUME IsJson(q)
         PROVE  /\ k = 2 /\ q[1].message \in Nat \ {0}
                /\ c + k = 4 * q[1].message
    <2>1. k = 2 /\ q[1].part = 3
      <3>1. Len(q) > 0
        BY <1>7
      <3> QED BY <1>7, <1>12, <3>1, JsonUnits
    <2>2. q[1] \in Unit /\ Position(q[1]) = c + 1
      BY <1>8, <2>1
    <2>3. PICK m \in Nat \ {0} : m = q[1].message
      BY <2>2, UnitFields
    <2>4. 4 * (m - 1) + 3 = c + 1
      BY <2>1, <2>2, <2>3 DEF Position
    <2>5. c + 2 = 4 * m
      BY <2>4
    <2> QED BY <2>1, <2>3, <2>5
  \* While no recv came short, it is the next message.
  <1>13. ASSUME <<l, t>> \notin short'
         PROVE  IsJson(q) /\ q[1].message = Len(r) + 1 /\ k = 2
    <2>1. k = 2 /\ c = 4 * Len(r) + 2
      BY <1>1, <1>2, <1>4, <1>6, <1>9, <1>13 DEF Reader
    <2>2. /\ q[1] \in Unit /\ Position(q[1]) = 4 * Len(r) + 3
          /\ q[2] \in Unit /\ Position(q[2]) = 4 * Len(r) + 4
      BY <1>8, <1>10, <2>1
    <2>3. q[1].message = Len(r) + 1 /\ q[1].part = 3
      BY <1>10, <2>2, UnitAt, 3 \in 1 .. 4
    <2>4. q[2].message = Len(r) + 1 /\ q[2].part = 4
      BY <1>10, <2>2, UnitAt, 4 \in 1 .. 4
    <2>5. q[2].kind = q[1].kind
      <3>1. 1 \in DOMAIN pipe[t][l] /\ 2 \in DOMAIN pipe[t][l]
        <4>1. pipe[t][l] \in Seq(Unit) /\ 2 \in 1 .. Len(pipe[t][l])
          BY <1>1, <1>6, <2>1 DEF TypeOK
        <4>2. DOMAIN pipe[t][l] = 1 .. Len(pipe[t][l]) /\ Len(pipe[t][l]) \in Nat
          BY <4>1, LenProperties
        <4> QED BY <4>1, <4>2
      <3>2. /\ pipe[t][l][1].kind = log[t][pipe[t][l][1].message]
            /\ pipe[t][l][2].kind = log[t][pipe[t][l][2].message]
        BY <1>2, <3>1 DEF Stream
      <3>3. q[1] = pipe[t][l][1] /\ q[2] = pipe[t][l][2]
        BY <1>7, <2>1
      <3> QED BY <2>3, <2>4, <3>2, <3>3
    <2>6. IsJson(q)
      <3>1. Len(q) = 2 /\ Len(q) > 0
        BY <1>7, <2>1
      <3>2. q[2].message = q[1].message
        BY <2>3, <2>4
      <3> QED BY <2>3, <2>4, <2>5, <3>1, <3>2, JsonUnits
    <2> QED BY <2>1, <2>3, <2>6
  <1>14. CASE IsJson(q)
    <2>1. PICK a : a = Append(r, q[1].message)
      OBVIOUS
    <2>2. received'[l][t] = a
      BY <1>1, <1>3, <1>7, <1>9, <1>14, <2>1 DEF TypeOK
    <2>3. \A i \in DOMAIN r : r[i] < q[1].message
      <3>1. PICK m \in Nat : m = q[1].message /\ 4 * m = c + 2
        BY <1>12, <1>14
      <3>2. \A i \in DOMAIN r : r[i] \in Nat /\ 4 * r[i] <= c
        BY <1>10
      <3>3. \A i \in DOMAIN r : r[i] < m
        BY <3>1, <3>2, EarlierMessage
      <3> QED BY <3>1, <3>3, Zenon
    <2>4. InOrder(r, q[1].message, a)
      BY <1>1, <1>9, <1>12, <1>14, <2>1, <2>3, AppendInOrder DEF NoGapAt
    <2>5. NoGapAt(l, t)'
      BY <1>1, <1>6, <1>9, <1>13, <2>2, <2>4 DEF NoGapAt, InOrder
    <2>6. Reader(l, t, c + k)'
      <3>1. \A i \in DOMAIN a : 4 * a[i] <= c + k
        <4>1. ASSUME NEW i \in DOMAIN r
              PROVE  4 * r[i] <= c + k
          BY <1>10
        <4>2. \A i \in DOMAIN a : i \in DOMAIN r \/ i = Len(r) + 1
          BY <1>9, <1>10, <2>4 DEF InOrder
        <4>3. 4 * a[Len(r) + 1] <= c + k
          <5>1. PICK m \in Nat : m = q[1].message /\ c + k = 4 * m
            BY <1>12, <1>14
          <5> QED BY <2>4, <5>1 DEF InOrder
        <4> QED BY <2>4, <4>1, <4>2, <4>3 DEF InOrder
      <3>2. <<l, t>> \notin short' => c + k = 4 * Len(a)
        BY <1>12, <1>13, <1>14, <2>4 DEF InOrder
      <3> QED BY <1>11, <2>2, <3>1, <3>2 DEF Reader
    <2> QED BY <1>1, <1>2, <1>5, <2>5, <2>6 DEF FramedAt, talkerVars
  <1>15. CASE ~IsJson(q)
    <2>1. received' = received
      BY <1>3, <1>7, <1>15
    <2>2. <<l, t>> \in short'
      BY <1>13, <1>15
    <2>3. NoGapAt(l, t)'
      BY <1>1, <2>1, <2>2 DEF NoGapAt
    <2>4. Reader(l, t, c + k)'
      <3>1. ASSUME NEW i \in DOMAIN r
            PROVE  4 * r[i] <= c + k
        BY <1>10
      <3> QED BY <1>9, <1>11, <2>1, <2>2, <3>1 DEF Reader
    <2> QED BY <1>1, <1>2, <1>5, <2>3, <2>4 DEF FramedAt, talkerVars
  <1> QED BY <1>14, <1>15

\* A recv that returns nothing keeps the framing.
LEMMA FramingReadNothing ==
    ASSUME SocketInv, NEW l \in Node, NEW t \in Node, ReadNothing(l, t)
    PROVE  FramedAt(l, t)'
  <1>1. /\ UNCHANGED <<talkerVars, received, short, pipe>>
        /\ handler[l][t] \in {"length", "message"} /\ handler'[l][t] = Loop(l)
    BY DEF ReadNothing, SocketInv, TypeOK
  <1>2. PICK s \in Nat, c \in Nat :
              /\ s \in 0 .. taken[t] /\ c = 4 * s - Len(pipe[t][l])
              /\ Stream(t, l, s) /\ Reader(l, t, c)
    BY <1>1, Reading
  <1>3. Stream(t, l, s)'
    BY <1>1, <1>2 DEF Stream, talkerVars
  \* A handler that waits for a message will get one if no recv came short.
  <1>4. <<l, t>> \notin short => handler[l][t] = "length"
    <2>1. SUFFICES ASSUME <<l, t>> \notin short, handler[l][t] = "message"
                   PROVE  FALSE
      BY <1>1
    <2>2. msglen[l][t] = 2 /\ c = 4 * Len(received[l][t]) + 2
      BY <1>2, <2>1 DEF Reader
    <2>3. pipe[t][l] = <<>>
      BY <2>1, <2>2 DEF ReadNothing
    <2>4. c = 4 * s
      <3>1. Len(pipe[t][l]) = 0
        BY <2>3, EmptySeq
      <3> QED BY <1>2, <3>1
    <2>5. Len(received[l][t]) \in Nat
      BY LenProperties DEF SocketInv, TypeOK
    <2> QED BY <2>2, <2>4, <2>5
  <1>5. Reader(l, t, c)'
    BY <1>1, <1>2, <1>4 DEF Reader, Loop
  <1> QED BY <1>1, <1>2, <1>3, <1>5 DEF FramedAt, talkerVars

\* The steps of handle_socket keep framing and order.
LEMMA HandlerNext ==
    ASSUME SocketInv, NEW m \in Node, NEW u \in Node, handle_socket(m, u)
    PROVE  FramingInv' /\ NoGapUnlessShort'
  <1> SUFFICES ASSUME NEW l \in Node, NEW t \in Node
               PROVE  FramedAt(l, t)' /\ NoGapAt(l, t)'
    BY NoGapPairs DEF FramingInv, NoGapUnlessShort, NoGapAt, Increasing, Gapless
  <1>1. /\ FramedAt(l, t) /\ NoGapAt(l, t) /\ UNCHANGED <<talkerVars, listener>>
        /\ pipe \in [Node -> [Node -> Seq(Unit)]]
        /\ handler \in [Node -> [Node -> {"none", "length", "message", "done", "raised"}]]
        /\ msglen \in [Node -> [Node -> {0, 2, Large}]]
        /\ received \in [Node -> [Node -> Seq(Nat \ {0})]]
    BY NoGapPairs DEF SocketInv, TypeOK, FramingInv, handle_socket, ReadLength, ReadMessage,
                      ReadNothing
  <1>2. CASE m = l /\ u = t
    <2>1. CASE ReadLength(l, t) \/ ReadNothing(l, t)
      <3>1. received' = received /\ short \subseteq short'
        BY <2>1 DEF ReadLength, ReadNothing, Recv
      <3> QED BY <1>1, <2>1, <3>1, FramingReadLength, FramingReadNothing DEF NoGapAt
    <2> QED BY <1>2, <2>1, FramingReadMessage DEF handle_socket
  <1>3. CASE m # l \/ u # t
    <2>1. pipe'[t][l] = pipe[t][l]
      <3>1. pipe' = pipe \/ \E q : pipe' = [pipe EXCEPT ![u][m] = q]
        BY DEF handle_socket, ReadLength, ReadMessage, ReadNothing, Recv
      <3>2. ASSUME NEW q, pipe' = [pipe EXCEPT ![u][m] = q]
            PROVE  pipe'[t][l] = pipe[t][l]
        <4>1. [pipe EXCEPT ![u][m] = q][t][l] = pipe[t][l]
          BY <1>1, <1>3, ExceptValue
        <4> QED BY <3>2, <4>1
      <3> QED BY <3>1, <3>2
    <2>2. handler'[l][t] = handler[l][t] /\ msglen'[l][t] = msglen[l][t]
      <3>1. /\ \E h : handler' = [handler EXCEPT ![m][u] = h]
            /\ \E n : msglen' = [msglen EXCEPT ![m][u] = n]
        BY DEF handle_socket, ReadLength, ReadMessage, ReadNothing
      <3>2. PICK h, n : /\ handler' = [handler EXCEPT ![m][u] = h]
                        /\ msglen' = [msglen EXCEPT ![m][u] = n]
        BY <3>1
      <3>3. [handler EXCEPT ![m][u] = h][l][t] = handler[l][t]
        BY <1>1, <1>3, ExceptValue
      <3>4. [msglen EXCEPT ![m][u] = n][l][t] = msglen[l][t]
        <4>1. \A f \in [Node -> [Node -> {0, 2, Large}]] : [f EXCEPT ![m][u] = n][l][t] = f[l][t]
          BY <1>3, ExceptValue
        <4> QED BY <1>1, <4>1
      <3> QED BY <3>2, <3>3, <3>4
    <2>3. received'[l][t] = received[l][t]
      <3>1. received' = received \/ \E r : received' = [received EXCEPT ![m][u] = r]
        BY DEF handle_socket, ReadLength, ReadMessage, ReadNothing
      <3>2. ASSUME NEW r, received' = [received EXCEPT ![m][u] = r]
            PROVE  received'[l][t] = received[l][t]
        <4>1. [received EXCEPT ![m][u] = r][l][t] = received[l][t]
          BY <1>1, <1>3, ExceptValue
        <4> QED BY <3>2, <4>1
      <3> QED BY <3>1, <3>2
    <2>4. short \subseteq short'
      BY DEF handle_socket, ReadLength, ReadMessage, ReadNothing, Recv
    <2>5. FramedAt(l, t)'
      BY <1>1, <2>1, <2>2, <2>3, <2>4, FramingStable DEF talkerVars
    <2> QED BY <1>1, <2>3, <2>4, <2>5 DEF NoGapAt
  <1> QED BY <1>2, <1>3

\* Every step keeps framing and order.
LEMMA FramingNext == SocketInv /\ [Next]_vars => FramingInv' /\ NoGapUnlessShort'
  <1> SUFFICES ASSUME SocketInv, [Next]_vars
               PROVE  FramingInv' /\ NoGapUnlessShort'
    OBVIOUS
  <1>1. ASSUME UNCHANGED <<received, short>>, \A l, t \in Node : FramedAt(l, t)'
        PROVE  FramingInv' /\ NoGapUnlessShort'
    <2>1. NoGapUnlessShort
      BY DEF SocketInv
    <2> QED BY <1>1, <2>1 DEF FramingInv, NoGapUnlessShort
  <1>2. \A l, t \in Node : FramedAt(l, t)
    BY DEF SocketInv, FramingInv
  <1>3. ASSUME NEW n \in Node, TalkerStep(n)
        PROVE  FramingInv' /\ NoGapUnlessShort'
    <2>1. UNCHANGED <<received, short>>
      BY <1>3 DEF TalkerStep, Accept, Send, Take, EndTalker, handlerVars
    <2> QED BY <1>1, <1>3, <2>1, FramingTalker
  <1>4. ASSUME NEW n \in Node, ListenerStep(n)
        PROVE  FramingInv' /\ NoGapUnlessShort'
    <2>1. UNCHANGED <<received, short>>
      BY <1>4 DEF ListenerStep, Connect, Listen, EndListener, handlerVars
    <2> QED BY <1>1, <1>4, <2>1, FramingListener
  <1>5. ASSUME NEW n \in Node, Start(n)
        PROVE  FramingInv' /\ NoGapUnlessShort'
    <2>1. /\ UNCHANGED <<log, taken, todo, handlerVars, pipe>>
          /\ talker' = [talker EXCEPT ![n] = "accepting"]
          /\ listener[n] = "off"
          /\ listener' = [listener EXCEPT ![n] = "connecting"]
          /\ talker \in [Node -> {"off", "accepting", "ready", "ended", "raised"}]
          /\ listener \in [Node -> {"off", "connecting", "listening", "ended"}]
      BY <1>5 DEF Start, SocketInv, StartInv, TypeOK
    <2>2. /\ \A l \in Node : listener[l] = "ended" => listener'[l] = "ended"
          /\ \A t \in Node : talker'[t] = "ready" => talker[t] = "ready"
      BY <2>1
    <2>3. \A l, t \in Node : FramedAt(l, t)'
      BY <1>2, <2>1, <2>2, FramingStable DEF handlerVars
    <2> QED BY <1>1, <2>1, <2>3 DEF handlerVars
  <1>6. ASSUME NEW n \in Node, NEW kind \in Kinds, send_message(n, kind)
        PROVE  FramingInv' /\ NoGapUnlessShort'
    <2>1. /\ UNCHANGED <<talker, taken, todo, handlerVars, pipe, listener>>
          /\ log' = [log EXCEPT ![n] = Append(@, kind)]
          /\ log \in [Node -> Seq(Kinds)] /\ pipe \in [Node -> [Node -> Seq(Unit)]]
          /\ \A t \in Node : taken[t] \in 0 .. Len(log[t])
      BY <1>6 DEF send_message, SocketInv, TypeOK
    <2>2. ASSUME NEW l \in Node, NEW t \in Node
          PROVE  FramedAt(l, t)'
      <3>1. CASE t # n
        BY <1>2, <2>1, <3>1, FramingStable DEF handlerVars
      <3>2. CASE t = n
        <4>1. PICK k \in Nat : k = Len(log[t]) /\ taken[t] \in 0 .. k
          BY <2>1, LenProperties
        <4>2. \A i \in 1 .. k : log'[t][i] = log[t][i]
          BY <2>1, <3>2, <4>1, AppendProperties
        <4>3. ASSUME NEW s \in 0 .. taken[t], Stream(t, l, s)
              PROVE  Stream(t, l, s)'
          <5>1. ASSUME NEW i \in DOMAIN pipe[t][l]
                PROVE  pipe[t][l][i].message \in 1 .. k
            <6>1. /\ pipe[t][l][i] \in Unit /\ Len(pipe[t][l]) \in Nat
                  /\ i \in 1 .. Len(pipe[t][l])
              BY <2>1, LenProperties
            <6>2. PICK m \in Nat \ {0}, p \in 1 .. 4 :
                        m = pipe[t][l][i].message /\ p = pipe[t][l][i].part
              BY <6>1, UnitFields
            <6>3. 4 * (m - 1) + p <= 4 * s
              <7>1. Position(pipe[t][l][i]) = 4 * s - Len(pipe[t][l]) + i
                BY <4>3 DEF Stream
              <7>2. PICK z \in Nat : z = Len(pipe[t][l])
                BY <6>1
              <7>3. i \in Nat /\ i <= z
                BY <6>1, <7>2
              <7>4. PICK x \in Nat : x = 4 * s
                BY <4>1
              <7>5. x - z + i <= x
                BY <7>3
              <7> QED BY <6>2, <7>1, <7>2, <7>4, <7>5 DEF Position
            <6>4. s \in Nat /\ s <= k
              BY <4>1
            <6>5. m <= s
              BY <6>3, <6>4
            <6> QED BY <6>2, <6>4, <6>5
          <5> QED BY <2>1, <4>2, <4>3, <5>1 DEF Stream, Position
        <4>4. ASSUME NEW c, Reader(l, t, c)
              PROVE  Reader(l, t, c)'
          BY <2>1, <4>4 DEF Reader, handlerVars
        <4> QED BY <1>2, <2>1, <4>3, <4>4 DEF FramedAt
      <3> QED BY <3>1, <3>2
    <2> QED BY <1>1, <2>1, <2>2 DEF handlerVars
  <1>7. CASE UNCHANGED <<log, taken, talker, todo, handlerVars, pipe, listener>>
    <2>1. \A l, t \in Node : FramedAt(l, t)'
      BY <1>2, <1>7, FramingStable DEF handlerVars
    <2> QED BY <1>1, <1>7, <2>1 DEF handlerVars
  <1> QED BY <1>3, <1>4, <1>5, <1>6, <1>7, HandlerNext
             DEF Next, stop, vars, talkerVars

-----------------------------------------------------------------------------
(* What ends a talker.                                                     *)

\* Every step that breaks a talker has one of the two reasons.
LEMMA BreakNext == SocketInv /\ [Next]_vars => OnlyEndsBreakTalkers'
  <1> SUFFICES ASSUME SocketInv, [Next]_vars, NEW t \in Node, talker'[t] = "raised"
               PROVE  \/ "overlong" \in ToSet(SubSeq(log'[t], 1, taken'[t]))
                      \/ \E l \in Node : listener'[l] = "ended"
    BY DEF OnlyEndsBreakTalkers
  <1>1. /\ talker \in [Node -> {"off", "accepting", "ready", "ended", "raised"}]
        /\ listener \in [Node -> {"off", "connecting", "listening", "ended"}]
        /\ log[t] \in Seq(Kinds) /\ taken[t] \in 0 .. Len(log[t]) /\ Len(log[t]) \in Nat
        /\ taken \in [Node -> Nat] /\ log \in [Node -> Seq(Kinds)]
    BY LenProperties DEF SocketInv, TypeOK, TakenType
  <1>2. \A l \in Node : listener[l] = "ended" => listener'[l] = "ended"
    <2>1. \/ listener' = listener
          \/ \E n \in Node : /\ listener' = [listener EXCEPT ![n] = "connecting"]
                             /\ talker[n] = "off"
          \/ \E n \in Node : /\ listener' = [listener EXCEPT ![n] = "listening"]
                             /\ listener[n] = "connecting"
          \/ \E n \in Node : listener' = [listener EXCEPT ![n] = "ended"]
      BY ZenonT(60) DEF Next, Start, stop, send_message, TalkerStep, Accept, Send, Take, EndTalker,
         ListenerStep, Connect, Listen, EndListener, handle_socket, ReadLength, ReadMessage,
         ReadNothing, vars
    <2> QED BY <1>1, <2>1 DEF SocketInv, StartInv
  <1>3. CASE Take(t)
    <2>1. PICK k \in Nat : k = taken[t] + 1 /\ taken'[t] = k /\ k <= Len(log[t]) /\ log' = log
      BY <1>1, <1>3 DEF Take
    <2>2. log[t][k] = "overlong"
      BY <1>1, <1>3, <2>1 DEF Take, Fits
    <2>3. \A i \in 1 .. k : log[t][i] \in Kinds
      BY <1>1, <2>1, ElementOfSeq
    <2>4. /\ SubSeq(log[t], 1, k) \in Seq(Kinds) /\ Len(SubSeq(log[t], 1, k)) = k
          /\ \A i \in 1 .. k : SubSeq(log[t], 1, k)[i] = log[t][i]
      <3>1. k \in Int /\ 1 <= k /\ k - 1 + 1 = k
        BY <1>1, <2>1
      <3> QED BY <2>3, <3>1, SubSeqProperties
    <2>5. k \in DOMAIN SubSeq(log[t], 1, k) /\ SubSeq(log[t], 1, k)[k] = "overlong"
      <3>1. k \in 1 .. k
        BY <1>1, <2>1
      <3>2. DOMAIN SubSeq(log[t], 1, k) = 1 .. k
        <4>1. PICK g \in Seq(Kinds) : g = SubSeq(log[t], 1, k) /\ Len(g) = k
          BY <2>4
        <4> QED BY <4>1, LenProperties
      <3> QED BY <2>2, <2>4, <3>1, <3>2, Zenon
    <2> QED BY <2>1, <2>5 DEF ToSet
  <1>4. ASSUME NEW l \in Node, Send(t, l), talker[t] # "raised"
        PROVE  \E m \in Node : listener'[m] = "ended"
    <2>1. link[t][l] = "reset"
      BY <1>1, <1>4 DEF Send
    <2>2. listener[l] = "ended"
      BY <2>1 DEF SocketInv, ListenerInv, ListenerAt
    <2> QED BY <1>2, <2>2
  <1>5. CASE talker[t] = "raised"
    <2>1. taken'[t] = taken[t]
      BY <1>1, <1>5, ZenonT(60)
         DEF Next, Start, stop, send_message, TalkerStep, Accept, Send, Take, EndTalker,
             ListenerStep, Connect, Listen, EndListener, handle_socket, ReadLength, ReadMessage,
             ReadNothing, vars, talkerVars
    <2>2. SubSeq(log'[t], 1, taken[t]) = SubSeq(log[t], 1, taken[t])
      <3>1. log'[t] = log[t] \/ \E kind \in Kinds : log'[t] = Append(log[t], kind)
        BY <1>1, ZenonT(60)
           DEF Next, Start, stop, send_message, TalkerStep, Accept, Send, Take, EndTalker,
               ListenerStep, Connect, Listen, EndListener, handle_socket, ReadLength, ReadMessage,
               ReadNothing, vars, talkerVars
      <3>2. ASSUME NEW kind \in Kinds, NEW a, a = Append(log[t], kind)
            PROVE  SubSeq(a, 1, taken[t]) = SubSeq(log[t], 1, taken[t])
        <4>1. a \in Seq(Kinds) /\ \A i \in 1 .. Len(log[t]) : a[i] = log[t][i]
          BY <1>1, <3>2, AppendProperties
        <4>2. \A i \in 1 .. taken[t] : a[i] = log[t][i] /\ log[t][i] \in Kinds
          BY <1>1, <4>1, ElementOfSeq
        <4>3. PICK n \in Nat : n = taken[t]
          BY <1>1
        <4>4. ASSUME NEW g, \A i \in 1 .. n : g[i] \in Kinds
              PROVE  /\ SubSeq(g, 1, n) \in Seq(Kinds) /\ Len(SubSeq(g, 1, n)) = n
                     /\ \A i \in 1 .. n : SubSeq(g, 1, n)[i] = g[i]
          <5>1. n - 1 + 1 = n /\ (1 <= n \/ n = 0)
            OBVIOUS
          <5> QED BY <4>4, <5>1, SubSeqProperties
        <4>5. /\ SubSeq(a, 1, n) \in Seq(Kinds) /\ Len(SubSeq(a, 1, n)) = n
              /\ \A i \in 1 .. n : SubSeq(a, 1, n)[i] = a[i]
          BY <4>2, <4>3, <4>4
        <4>6. /\ SubSeq(log[t], 1, n) \in Seq(Kinds) /\ Len(SubSeq(log[t], 1, n)) = n
              /\ \A i \in 1 .. n : SubSeq(log[t], 1, n)[i] = log[t][i]
          BY <4>2, <4>3, <4>4
        <4>7. SubSeq(a, 1, n) = SubSeq(log[t], 1, n)
          BY <4>2, <4>3, <4>5, <4>6, SeqEqual
        <4> QED BY <4>3, <4>7
      <3> QED BY <3>1, <3>2
    <2> QED BY <1>2, <1>5, <2>1, <2>2 DEF SocketInv, OnlyEndsBreakTalkers
  <1>6. CASE talker[t] # "raised"
    <2>1. Take(t) \/ \E l \in Node : Send(t, l)
      <3>1. CASE UNCHANGED talker
        BY <1>6, <3>1
      <3>2. ASSUME NEW n \in Node, Start(n)
            PROVE  FALSE
        BY <1>1, <1>6, <3>2 DEF Start
      <3>3. ASSUME NEW n \in Node, \/ EndTalker(n) \/ \E l \in Node : Accept(n, l)
                                   \/ n # t /\ (Take(n) \/ \E l \in Node : Send(n, l))
            PROVE  FALSE
        <4>1. \E w : talker' = [talker EXCEPT ![n] = w] /\ (n = t => w # "raised")
          BY <1>1, <1>6, <3>3 DEF EndTalker, Accept, Take, Send
        <4> QED BY <1>1, <1>6, <4>1
      <3> QED BY <3>1, <3>2, <3>3
                 DEF Next, stop, send_message, TalkerStep, ListenerStep, Connect, Listen,
                     EndListener, handle_socket, ReadLength, ReadMessage, ReadNothing, vars,
                     talkerVars
    <2> QED BY <1>3, <1>4, <1>6, <2>1
  <1> QED BY <1>5, <1>6

-----------------------------------------------------------------------------

\* The invariant holds when no process has started.
LEMMA InitInv == Init => SocketInv
  <1> SUFFICES ASSUME Init PROVE SocketInv
    OBVIOUS
  <1>1. TypeOK /\ TakenType
    <2>1. /\ \A S : <<>> \in Seq(S)
          /\ Len(<<>>) = 0
      BY EmptySeq
    <2>2. /\ log \in [Node -> Seq(Kinds)] /\ pipe \in [Node -> [Node -> Seq(Unit)]]
          /\ received \in [Node -> [Node -> Seq(Nat \ {0})]]
          /\ \A n \in Node : taken[n] \in 0 .. Len(log[n])
      BY <2>1 DEF Init
    <2>3. /\ target \in [Node -> 1 .. Cardinality(Node) + 1]
          /\ attempt \in [Node -> 0 .. Attempts - 1]
      BY GroupSize, AttemptsAssumption DEF Init
    <2> QED BY <2>2, <2>3 DEF Init, TypeOK, TakenType
  <1>2. StartInv /\ AcceptInv /\ TodoInv /\ OnlyEndsBreakTalkers
    BY DEF Init, StartInv, AcceptInv, TodoInv, OnlyEndsBreakTalkers
  <1>3. \A l, t \in Node : /\ Len(pipe[t][l]) = 0 /\ Len(received[l][t]) = 0
                          /\ DOMAIN pipe[t][l] = {} /\ DOMAIN received[l][t] = {}
                          /\ handler[l][t] = "none" /\ listener[l] = "off" /\ taken[t] = 0
                          /\ link[t][l] = "none" /\ talker[t] = "off"
    BY EmptySeq DEF Init
  <1>4. ListenerInv
    BY <1>3 DEF ListenerInv, ListenerAt
  <1>5. NoGapUnlessShort
    <2>1. ASSUME NEW l \in Node, NEW t \in Node
          PROVE  NoGapAt(l, t)
      <3>1. received[l][t] = [i \in {} |-> i]
        BY DEF Init
      <3> QED BY <1>3, <3>1 DEF NoGapAt, Increasing, Gapless
    <2> QED BY <2>1, NoGapPairs
  <1>6. FramingInv
    <2>1. ASSUME NEW l \in Node, NEW t \in Node
          PROVE  FramedAt(l, t)
      <3>1. Stream(t, l, 0) /\ Reader(l, t, 0)
        BY <1>3 DEF Stream, Reader
      <3>2. 0 \in 0 .. taken[t] /\ 4 * 0 - Len(pipe[t][l]) = 0
        BY <1>3
      <3> QED BY <3>1, <3>2 DEF FramedAt
    <2> QED BY <2>1 DEF FramingInv
  <1> QED BY <1>1, <1>2, <1>4, <1>5, <1>6 DEF SocketInv

\* Every step keeps the invariant.
LEMMA NextInv == SocketInv /\ [Next]_vars => SocketInv'
  BY TypeNext, StartNext, AcceptNext, TodoNext, ListenerNext, FramingNext, BreakNext DEF SocketInv

\* The invariant holds throughout.
LEMMA Invariance == Spec => []SocketInv
  BY InitInv, NextInv, PTL DEF Spec

\* Every variable keeps its type: the lengths that handle_socket reads are those
\* of a message or too large, and no talker takes more than it was given.
THEOREM TypeCorrect == Spec => []TypeOK
  <1>1. SocketInv => TypeOK
    BY DEF SocketInv
  <1> QED BY <1>1, Invariance, PTL

\* The queues get the messages in order and, where no recv came short, all of
\* them: handle_socket never takes anything else for a message.
THEOREM InOrderWithoutGap == Spec => []NoGapUnlessShort
  <1>1. SocketInv => NoGapUnlessShort
    BY DEF SocketInv
  <1> QED BY <1>1, Invariance, PTL

\* Talker.run raises only for an overlong message or after a listener's end.
THEOREM TalkersEndByEnds == Spec => []OnlyEndsBreakTalkers
  <1>1. SocketInv => OnlyEndsBreakTalkers
    BY DEF SocketInv
  <1> QED BY <1>1, Invariance, PTL

\* Talker.run sends its first message only when every listener has connected.
THEOREM AllConnectedFirst == Spec => []SendsToAll
  <1>1. SocketInv => SendsToAll
    BY DEF SocketInv, AcceptInv, SendsToAll
  <1> QED BY <1>1, Invariance, PTL

=============================================================================
