------------------------- MODULE RaftCommit_proofs -------------------------
(***************************************************************************)
(* What the first leader of src/raft/raft.py commits, for any set of       *)
(* nodes: every log is a beginning of the leader's, and an index is        *)
(* committed when all of them reach it.  It rests on one operation under   *)
(* way for each node at a time, so on MaxQueue <= 1: a resend that races a *)
(* late answer breaks it (RaftLateAck.cfg).                                *)
(***************************************************************************)
EXTENDS RaftElection_proofs

-----------------------------------------------------------------------------
(* The inductive invariant.                                                *)

InitEntry == [term |-> 1, entry |-> "Init Entry"]

\* p has won the first election, and still remembers that its vote is given.
Elected(p) ==
    /\ 2 * Cardinality(Granters(p)) > Cardinality(Node)
    /\ VotesForItself(p)
    /\ node[p].voted_for # Nobody /\ node[p].loop # "candidate"

\* It has also written its first entry.
Led(p) == Elected(p) /\ Len(node[p].log) > 1

Has(q, type) == \E i \in DOMAIN q : q[i].type = type
Once(q, type) == \A i, j \in DOMAIN q : q[i].type = type /\ q[j].type = type => i = j

\* A message about logs comes from, or answers, a node that has led.
Credit(m, a, b) ==
    /\ m.type \in {"AppendEntries", "Committal"} => Led(a)
    /\ m.type = "Acknowledge" => Led(b)

\* Nothing is replicated, sent or committed before somebody leads.
LedInv ==
    /\ \A d \in Node :
          /\ node[d].log[1] = InitEntry
          /\ Len(node[d].log) > 1 \/ node[d].commit_index # 0 => \E p \in Node : Led(p)
          /\ node[d].loop = "leader" => Led(d)
          /\ node[d].loop = "candidate" => node[d].voted_for # Nobody
    /\ \A a, b \in Node : \A i \in DOMAIN chan[a][b] : Credit(chan[a][b][i], a, b)

\* m brings the entry at index next of self's log.
Carries(m, self, next) ==
    /\ m.term = self.current_term /\ m.prev_log_index = next - 1
    /\ m.prev_log_term = self.log[next].term /\ m.entries = self.log[next + 1]

\* What is under way to a node whose next index is `next', and back from it.
UnderWay(self, log, next, q, back) ==
    /\ Len(log) \in {next, next + 1}
    /\ \A i \in DOMAIN q : q[i].type = "AppendEntries" => Carries(q[i], self, next)
    /\ \A i \in DOMAIN back : back[i].type = "Acknowledge" =>
          back[i].success /\ Len(log) = next + 1
    /\ Once(q, "AppendEntries") /\ Once(back, "Acknowledge")
    /\ ~ (Has(q, "AppendEntries") /\ Has(back, "Acknowledge"))

\* The leader self knows where the log of d, now peer, stands: the log is a
\* beginning of its own, and reaches what was acknowledged or committed; q and
\* back are the channels to d and from it.
Tracks(self, d, peer, q, back) ==
    /\ \A i \in 1 .. Len(peer.log) : i <= Len(self.log) /\ peer.log[i] = self.log[i]
    /\ self.match_index[d] < Len(peer.log)
    /\ self.commit_index < Len(peer.log) /\ peer.commit_index < Len(peer.log)
    /\ \A i \in DOMAIN q : q[i].type = "Committal" => q[i].prev_log_index < Len(peer.log)
    /\ \/ /\ self.next_index[d] = UpToDate /\ Len(peer.log) = Len(self.log)
          /\ ~ Has(q, "AppendEntries") /\ ~ Has(back, "Acknowledge")
       \/ /\ self.next_index[d] # UpToDate
          /\ UnderWay(self, peer.log, self.next_index[d], q, back)

TrackInv ==
    \A n \in Node : node[n].loop = "leader" =>
        /\ node[n].commit_index < Len(node[n].log)
        /\ \A d \in Node \ {n} : Tracks(node[n], d, node[d], chan[n][d], chan[d][n])

\* Without pauses, a node that has led still leads.
SteadyInv ==
    CanPause = {} =>
        /\ paused = {}
        /\ \A p \in Node : node[p].role = node[p].loop
        /\ First => \A p \in Node : Led(p) => node[p].loop = "leader"

CommitInv == ElectionInv /\ SteadyInv /\ (First => LedInv /\ TrackInv)

-----------------------------------------------------------------------------
(* Channels, as the messages about logs see them.                          *)

LogType == {"AppendEntries", "Committal", "Acknowledge"}
CalmMessage == {m \in Message : m.type \notin LogType}

\* A channel that gets only calm messages has no more of the others.
LEMMA CalmPassed ==
    ASSUME NEW old \in Seq(Message), NEW new \in Seq(Message), Passed(CalmMessage, new, old),
           NEW type \in LogType
    PROVE  /\ Has(new, type) => Has(old, type)
           /\ Once(old, type) => Once(new, type)
           /\ \A i \in DOMAIN new : new[i].type = type => \E j \in DOMAIN old : old[j] = new[i]
  <1>1. PICK k \in {0, 1} : \A i \in DOMAIN new :
            new[i] \in CalmMessage \/ (i + k \in DOMAIN old /\ new[i] = old[i + k])
    BY DEF Passed
  <1>2. \A i \in DOMAIN new : new[i].type = type => i + k \in DOMAIN old /\ new[i] = old[i + k]
    BY <1>1 DEF CalmMessage
  <1>3. Has(new, type) => Has(old, type)
    BY <1>2, Zenon DEF Has
  <1>4. Once(old, type) => Once(new, type)
    <2>1. \A i, j \in DOMAIN new : i + k = j + k => i = j
      BY LenProperties
    <2> QED BY <1>2, <2>1, Zenon DEF Once
  <1> QED BY <1>2, <1>3, <1>4, Zenon

\* What is sent in two parts arrives behind what was there already.
LEMMA ThreeParts ==
    ASSUME NEW a \in Seq(Message), NEW b \in Seq(Message), NEW c \in Seq(Message)
    PROVE  /\ a \o (b \o c) = (a \o b) \o c
           /\ (a \o b) \o c = a \o (b \o c)
  <1>1. (a \o b) \o c = a \o (b \o c)
    BY ConcatAssociative
  <1> QED BY <1>1, Zenon

\* A message at the end adds itself alone.
LEMMA AddedOne ==
    ASSUME NEW q \in Seq(Message), NEW m \in Message, NEW type
    PROVE  /\ Has(q \o <<m>>, type) => Has(q, type) \/ m.type = type
           /\ Once(q, type) /\ ~ (Has(q, type) /\ m.type = type) => Once(q \o <<m>>, type)
           /\ \A i \in DOMAIN (q \o <<m>>) : (q \o <<m>>)[i].type = type =>
                 \/ m.type = type /\ (q \o <<m>>)[i] = m
                 \/ \E j \in DOMAIN q : q[j] = (q \o <<m>>)[i]
  <1>1. PICK new : new = q \o <<m>>
    OBVIOUS
  <1>2. \A i \in DOMAIN new :
            (i \in DOMAIN q /\ new[i] = q[i]) \/ (i = Len(q) + 1 /\ new[i] = m)
    BY <1>1, AddedLast, Zenon
  <1>3. Has(new, type) => Has(q, type) \/ m.type = type
    BY <1>2, Zenon DEF Has
  <1>4. Once(q, type) /\ ~ (Has(q, type) /\ m.type = type) => Once(new, type)
    BY <1>2, Zenon DEF Once, Has
  <1>5. \A i \in DOMAIN new : new[i].type = type =>
            (m.type = type /\ new[i] = m) \/ \E j \in DOMAIN q : q[j] = new[i]
    BY <1>2, Zenon
  <1> QED BY <1>1, <1>3, <1>4, <1>5, Zenon

\* The messages behind the first one.
LEMMA TakenFirst ==
    ASSUME NEW q \in Seq(Message), q # <<>>
    PROVE  /\ Tail(q) \in Seq(Message) /\ 1 \in DOMAIN q /\ q[1] = Head(q)
           /\ \A i \in DOMAIN Tail(q) : i + 1 \in DOMAIN q /\ Tail(q)[i] = q[i + 1]
           /\ \A i \in DOMAIN Tail(q) : i + 1 # 1
  <1>1. /\ Len(q) \in Nat /\ DOMAIN q = 1 .. Len(q) /\ Tail(q) \in Seq(Message)
        /\ Len(Tail(q)) = Len(q) - 1 /\ DOMAIN Tail(q) = 1 .. Len(Tail(q)) /\ Len(q) # 0
    BY HeadTailProperties, LenProperties, EmptySeq
  <1>2. \A i \in DOMAIN Tail(q) : Tail(q)[i] = q[i + 1]
    BY <1>1, HeadTailProperties
  <1> QED BY <1>1, <1>2, HeadTailProperties

\* If only one message has the type of the first, none behind it has.
LEMMA FirstIsOnly ==
    ASSUME NEW q \in Seq(Message), q # <<>>, NEW type, Head(q).type = type
    PROVE  /\ Has(q, type)
           /\ Once(q, type) => ~ Has(Tail(q), type)
           /\ \A other : Has(Tail(q), other) => Has(q, other)
           /\ \A other : Once(q, other) => Once(Tail(q), other)
           /\ \A i \in DOMAIN Tail(q) : \E j \in DOMAIN q : q[j] = Tail(q)[i]
  <1>1. /\ 1 \in DOMAIN q /\ q[1] = Head(q)
        /\ \A i \in DOMAIN Tail(q) : i + 1 \in DOMAIN q /\ Tail(q)[i] = q[i + 1]
        /\ \A i \in DOMAIN Tail(q) : i + 1 # 1
    BY TakenFirst
  <1>2. \A i, j \in DOMAIN Tail(q) : i + 1 = j + 1 => i = j
    <2>1. Tail(q) \in Seq(Message)
      BY TakenFirst
    <2> QED BY <2>1, LenProperties
  <1>3. Once(q, type) => ~ Has(Tail(q), type)
    BY <1>1, Zenon DEF Once, Has
  <1>4. \A other : Has(Tail(q), other) => Has(q, other)
    BY <1>1, Zenon DEF Has
  <1>5. ASSUME NEW other, Once(q, other)
        PROVE  Once(Tail(q), other)
    <2> SUFFICES ASSUME NEW i \in DOMAIN Tail(q), NEW j \in DOMAIN Tail(q),
                        Tail(q)[i].type = other, Tail(q)[j].type = other
                 PROVE  i = j
      BY DEF Once
    <2>1. /\ i + 1 \in DOMAIN q /\ q[i + 1].type = other
          /\ j + 1 \in DOMAIN q /\ q[j + 1].type = other
      BY <1>1, Zenon
    <2>2. i + 1 = j + 1
      BY <1>5, <2>1, Zenon DEF Once
    <2> QED BY <1>2, <2>2, Zenon
  <1> QED BY <1>1, <1>3, <1>4, <1>5, Zenon DEF Has

-----------------------------------------------------------------------------
(* What a leader knows of the log of one node.                             *)

\* It stays true when nothing about logs is sent and no log changes, and of
\* commits inside the log.
LEMMA TracksCalm ==
    ASSUME NEW self, NEW new, NEW d, NEW peer, NEW other,
           NEW q \in Seq(Message), NEW more \in Seq(Message),
           NEW back \in Seq(Message), NEW answers \in Seq(Message),
           Tracks(self, d, peer, q, back),
           new.log = self.log, new.current_term = self.current_term,
           new.next_index[d] = self.next_index[d], new.match_index[d] = self.match_index[d],
           new.commit_index < Len(peer.log),
           other.log = peer.log, other.commit_index < Len(peer.log),
           Passed(CalmMessage, more, q), Passed(CalmMessage, answers, back)
    PROVE  Tracks(new, d, other, more, answers)
  <1>1. \A type \in LogType : /\ Has(more, type) => Has(q, type)
                              /\ Once(q, type) => Once(more, type)
                              /\ \A i \in DOMAIN more : more[i].type = type =>
                                    \E j \in DOMAIN q : q[j] = more[i]
    BY CalmPassed
  <1>2. \A type \in LogType : /\ Has(answers, type) => Has(back, type)
                              /\ Once(back, type) => Once(answers, type)
                              /\ \A i \in DOMAIN answers : answers[i].type = type =>
                                    \E j \in DOMAIN back : back[j] = answers[i]
    BY CalmPassed
  <1>3. /\ "AppendEntries" \in LogType /\ "Committal" \in LogType /\ "Acknowledge" \in LogType
    BY DEF LogType
  <1>4. \A i \in DOMAIN more : more[i].type = "Committal" => more[i].prev_log_index < Len(other.log)
    BY <1>1, <1>3 DEF Tracks
  <1>5. UnderWay(self, peer.log, self.next_index[d], q, back)
           => UnderWay(new, other.log, new.next_index[d], more, answers)
    <2> SUFFICES ASSUME UnderWay(self, peer.log, self.next_index[d], q, back)
                 PROVE  UnderWay(new, other.log, new.next_index[d], more, answers)
      OBVIOUS
    <2>1. ASSUME NEW i \in DOMAIN more, more[i].type = "AppendEntries"
          PROVE  Carries(more[i], new, new.next_index[d])
      <3>1. PICK j \in DOMAIN q : q[j] = more[i]
        BY <1>1, <1>3, <2>1
      <3> QED BY <2>1, <3>1 DEF UnderWay, Carries
    <2>2. ASSUME NEW i \in DOMAIN answers, answers[i].type = "Acknowledge"
          PROVE  answers[i].success /\ Len(other.log) = new.next_index[d] + 1
      <3>1. PICK j \in DOMAIN back : back[j] = answers[i]
        BY <1>2, <1>3, <2>2
      <3> QED BY <2>2, <3>1 DEF UnderWay
    <2> QED BY <1>1, <1>2, <1>3, <2>1, <2>2 DEF UnderWay
  <1> QED BY <1>1, <1>2, <1>3, <1>4, <1>5 DEF Tracks

\* The next entry may be sent when nothing is under way.
LEMMA NextSent ==
    ASSUME NEW self, Logged(self), NEW d \in Node, NEW peer, Logged(peer),
           NEW q \in Seq(Message), NEW back \in Seq(Message), NEW m \in Message,
           Tracks(self, d, peer, q, back),
           self.next_index[d] # UpToDate, m.type = "AppendEntries",
           Carries(m, self, self.next_index[d]),
           ~ Has(q, "AppendEntries"), ~ Has(back, "Acknowledge")
    PROVE  Tracks(self, d, peer, q \o <<m>>, back)
  <1>1. PICK new \in Seq(Message) : new = q \o <<m>>
    BY AddedLast
  <1>2. \A i \in DOMAIN new : new[i].type = "Committal" => new[i].prev_log_index < Len(peer.log)
    <2>1. \A i \in DOMAIN new : new[i].type = "Committal" => \E j \in DOMAIN q : q[j] = new[i]
      BY <1>1, AddedOne
    <2> QED BY <2>1 DEF Tracks
  <1>3. \A i \in DOMAIN new : new[i].type = "AppendEntries" => new[i] = m
    BY <1>1, AddedOne DEF Has
  <1>4. Once(new, "AppendEntries")
    <2>1. Once(q, "AppendEntries")
      BY DEF Once, Has
    <2> QED BY <1>1, <2>1, AddedOne
  <1>5. UnderWay(self, peer.log, self.next_index[d], new, back)
    BY <1>3, <1>4 DEF Tracks, UnderWay
  <1> QED BY <1>1, <1>2, <1>5 DEF Tracks

\* The message that resends an entry carries it.
LEMMA ResendCarries ==
    ASSUME NEW self, Logged(self), NEW next \in 1 .. log_max_index(self)
    PROVE  /\ Resend(self, next) \in Message /\ Resend(self, next).type = "AppendEntries"
           /\ Carries(Resend(self, next), self, next)
  <1>1. Resend(self, next) \in Message
    BY ResendType DEF PlainMessage
  <1>2. next \in Int /\ (next - 1) + 1 = next
    BY LogSize
  <1> QED BY <1>1, <1>2 DEF Resend, AppendEntries, Carries, At

\* A committal may always be sent.
LEMMA CommittalSent ==
    ASSUME NEW self, Logged(self), NEW d, NEW peer,
           NEW q \in Seq(Message), NEW back \in Seq(Message), Tracks(self, d, peer, q, back)
    PROVE  Tracks(self, d, peer, q \o <<Committal(self)>>, back)
  <1>1. PICK m \in Message : m = Committal(self)
    BY MessageTypes DEF PlainMessage
  <1>2. m.type = "Committal" /\ m.prev_log_index = self.commit_index
    BY <1>1 DEF Committal
  <1>3. PICK new \in Seq(Message) : new = q \o <<m>>
    BY AddedLast
  <1>4. \A i \in DOMAIN new : new[i].type = "Committal" => new[i].prev_log_index < Len(peer.log)
    <2>1. \A i \in DOMAIN new : new[i].type = "Committal" =>
             new[i] = m \/ \E j \in DOMAIN q : q[j] = new[i]
      BY <1>3, AddedOne
    <2> QED BY <1>2, <2>1 DEF Tracks
  <1>5. /\ Has(new, "AppendEntries") => Has(q, "AppendEntries")
        /\ Once(q, "AppendEntries") => Once(new, "AppendEntries")
        /\ \A i \in DOMAIN new : new[i].type = "AppendEntries" => \E j \in DOMAIN q : q[j] = new[i]
    BY <1>2, <1>3, AddedOne
  <1>6. UnderWay(self, peer.log, self.next_index[d], q, back)
           => UnderWay(self, peer.log, self.next_index[d], new, back)
    BY <1>5 DEF UnderWay
  <1> QED BY <1>1, <1>3, <1>4, <1>5, <1>6 DEF Tracks

\* A broadcast sends the new entry to the nodes it was waiting for, and has the
\* others wait.
LEMMA TracksBroadcast ==
    ASSUME NEW self, Logged(self), NEW n \in Node, NEW entry \in Entry,
           NEW d \in Node, d # n, NEW peer, Logged(peer),
           self.next_index[d] \in {UpToDate} \cup 1 .. log_max_index(self),
           NEW q \in Seq(Message), NEW back \in Seq(Message), Tracks(self, d, peer, q, back)
    PROVE  Tracks(broadcast_append_entries(self, n, entry), d, peer,
                  q \o broadcast_append_messages(self, entry)[d], back)
  <1>1. PICK new : new = broadcast_append_entries(self, n, entry)
    OBVIOUS
  <1>2. PICK size \in Nat : size = Len(self.log) /\ size > 0 /\ log_max_index(self) = size - 1
    <2>1. log_max_index(self) \in Nat /\ Len(self.log) = log_max_index(self) + 1
      BY LogSize
    <2> QED BY <2>1
  <1>3. /\ Logged(new) /\ Len(new.log) = size + 1 /\ new.log[size + 1] = entry
        /\ \A i \in 1 .. size : new.log[i] = self.log[i]
        /\ new.current_term = self.current_term /\ new.commit_index = self.commit_index
        /\ new.match_index[d] = self.match_index[d]
        /\ new.next_index[d] = IF self.next_index[d] = UpToDate THEN size ELSE self.next_index[d]
    <2>1. self.log \in Seq(Entry)
      BY DEF Logged, NodeState
    <2>2. PICK longer : longer = Append(self.log, entry)
      OBVIOUS
    <2>3. /\ Len(longer) = size + 1 /\ longer[size + 1] = entry
          /\ \A i \in 1 .. size : longer[i] = self.log[i]
      BY <1>2, <2>1, <2>2, LongerLog
    <2>4. /\ new.log = longer /\ Logged(new)
          /\ new.current_term = self.current_term /\ new.commit_index = self.commit_index
          /\ new.match_index[d] = self.match_index[d]
          /\ new.next_index[d] = IF self.next_index[d] = UpToDate THEN size
                                 ELSE self.next_index[d]
      BY <1>1, <1>2, <2>2, BroadcastChanges
    <2> QED BY <2>3, <2>4
  <1>4. /\ Len(peer.log) \in Nat
        /\ \A i \in 1 .. Len(peer.log) : i <= size /\ peer.log[i] = self.log[i]
    BY <1>2, LogSize DEF Tracks
  <1>5. \A i \in 1 .. Len(peer.log) : i <= Len(new.log) /\ peer.log[i] = new.log[i]
    BY <1>2, <1>3, <1>4
  <1>6. CASE self.next_index[d] # UpToDate
    <2>1. broadcast_append_messages(self, entry)[d] = <<>>
      BY <1>6 DEF broadcast_append_messages
    <2>2. q \o <<>> = q
      BY ConcatEmptySeq
    <2>3. PICK next \in 1 .. size - 1 : next = self.next_index[d] /\ next = new.next_index[d]
      BY <1>2, <1>3, <1>6
    <2>4. \A m : Carries(m, self, next) => Carries(m, new, next)
      <3>1. next \in 1 .. size /\ next + 1 \in 1 .. size
        BY <1>2, <2>3
      <3> QED BY <1>3, <3>1 DEF Carries
    <2>5. UnderWay(self, peer.log, next, q, back)
      BY <1>6, <2>3 DEF Tracks
    <2>6. UnderWay(new, peer.log, next, q, back)
      BY <2>4, <2>5 DEF UnderWay
    <2>7. Tracks(new, d, peer, q, back)
      BY <1>3, <1>5, <1>6, <2>3, <2>6 DEF Tracks
    <2> QED BY <1>1, <2>1, <2>2, <2>7
  <1>7. CASE self.next_index[d] = UpToDate
    <2>1. /\ new.next_index[d] = size /\ size # UpToDate /\ Len(peer.log) = size
          /\ ~ Has(q, "AppendEntries") /\ ~ Has(back, "Acknowledge")
      BY <1>2, <1>3, <1>7 DEF Tracks, UpToDate
    <2>2. At(self, size - 1) \in Entry /\ At(self, size - 1).term \in Nat
      <3>1. size - 1 \in 0 .. log_max_index(self)
        BY <1>2
      <3> QED BY <3>1, EntryAt
    <2>3. PICK m \in Message : m = AppendEntries(self, size - 1, At(self, size - 1).term, entry)
      <3>1. size - 1 \in Nat
        BY <1>2
      <3> QED BY <2>2, <3>1, MessageTypes DEF PlainMessage
    <2>4. broadcast_append_messages(self, entry)[d] = <<m>>
      BY <1>2, <1>7, <2>3 DEF broadcast_append_messages
    <2>5. m.type = "AppendEntries" /\ Carries(m, new, size)
      <3>1. (size - 1) + 1 = size /\ size \in 1 .. size
        BY <1>2
      <3>2. At(self, size - 1).term = new.log[size].term
        BY <1>3, <3>1 DEF At
      <3> QED BY <1>3, <2>3, <3>2 DEF AppendEntries, Carries
    <2>6. Once(q, "AppendEntries") /\ Once(back, "Acknowledge")
      BY <2>1, Zenon DEF Once, Has
    <2>7. UnderWay(new, peer.log, size, q, back)
      BY <1>2, <2>1, <2>6 DEF UnderWay, Has
    <2>8. Tracks(new, d, peer, q, back)
      BY <1>3, <1>5, <2>1, <2>7 DEF Tracks
    <2>9. Tracks(new, d, peer, q \o <<m>>, back)
      BY <1>3, <2>1, <2>5, <2>8, NextSent
    <2> QED BY <1>1, <2>4, <2>9
  <1> QED BY <1>6, <1>7

\* Serving the clients is such a broadcast, or nothing.
LEMMA TracksServed ==
    ASSUME NEW self, Logged(self), NEW n \in Node, NEW d \in Node, d # n,
           NEW peer, Logged(peer),
           self.next_index[d] \in {UpToDate} \cup 1 .. log_max_index(self),
           NEW q \in Seq(Message), NEW back \in Seq(Message), Tracks(self, d, peer, q, back)
    PROVE  Tracks(serve_client(self, n), d, peer, q \o serve_client_messages(self)[d], back)
  <1>1. CASE self.client_queue = <<>>
    <2>1. serve_client(self, n) = self /\ serve_client_messages(self)[d] = <<>>
      BY <1>1 DEF serve_client, serve_client_messages, Quiet
    <2> QED BY <2>1, ConcatEmptySeq
  <1>2. CASE self.client_queue # <<>>
    <2>1. PICK entry \in Entry : entry = Head(self.client_queue)
      BY <1>2, HeadTailProperties DEF Logged, NodeState
    <2>2. PICK rest \in Seq(Entry) : rest = Tail(self.client_queue)
      BY <1>2, HeadTailProperties DEF Logged, NodeState
    <2>3. PICK served : served = [self EXCEPT !.client_queue = rest]
      OBVIOUS
    <2>4. /\ Logged(served) /\ served.log = self.log /\ served.current_term = self.current_term
          /\ served.next_index = self.next_index /\ served.match_index = self.match_index
          /\ served.commit_index = self.commit_index
      BY <2>3 DEF Logged, NodeState
    <2>5. Tracks(served, d, peer, q, back)
      <3>1. Passed(CalmMessage, q, q) /\ Passed(CalmMessage, back, back)
        BY PassedSame
      <3>2. served.commit_index < Len(peer.log) /\ peer.commit_index < Len(peer.log)
        BY <2>4 DEF Tracks
      <3> QED BY <2>4, <3>1, <3>2, TracksCalm
    <2>6. serve_client(self, n) = broadcast_append_entries(served, n, entry)
      BY <1>2, <2>1, <2>2, <2>3 DEF serve_client
    <2>7. serve_client_messages(self)[d] = broadcast_append_messages(served, entry)[d]
      BY <1>2, <2>1, <2>4
         DEF serve_client_messages, broadcast_append_messages, AppendEntries, At, log_max_index
    <2>8. log_max_index(served) = log_max_index(self)
      BY <2>4 DEF log_max_index
    <2> QED BY <2>4, <2>5, <2>6, <2>7, <2>8, TracksBroadcast
  <1> QED BY <1>1, <1>2

\* An acknowledgement of d is a success: it tells where the log of d ends, and
\* the next entry, if there is one, may follow.
LEMMA TracksAdvanced ==
    ASSUME NEW self, Logged(self), NEW d \in Node, NEW peer, Logged(peer),
           self.next_index[d] \in 1 .. log_max_index(self),
           NEW q \in Seq(Message), NEW back \in Seq(Message), Tracks(self, d, peer, q, back),
           back # <<>>, Head(back).type = "Acknowledge",
           NEW known, known = advance(self, d, Head(back).success), Logged(known),
           known.next_index[d] \in {UpToDate} \cup 1 .. log_max_index(known)
    PROVE  Tracks(known, d, peer,
                  q \o (IF known.next_index[d] = UpToDate THEN <<>>
                        ELSE <<Resend(known, known.next_index[d])>>),
                  Tail(back))
  <1>1. PICK size \in Nat : size = Len(self.log) /\ size > 0 /\ log_max_index(self) = size - 1
    <2>1. log_max_index(self) \in Nat /\ Len(self.log) = log_max_index(self) + 1
      BY LogSize
    <2> QED BY <2>1
  <1>2. PICK next \in 1 .. size - 1 : next = self.next_index[d]
    BY <1>1
  <1>3. UnderWay(self, peer.log, next, q, back)
    BY <1>2 DEF Tracks, UpToDate
  <1>4. /\ Has(back, "Acknowledge") /\ ~ Has(Tail(back), "Acknowledge")
        /\ Tail(back) \in Seq(Message) /\ 1 \in DOMAIN back /\ back[1] = Head(back)
    BY <1>3, FirstIsOnly, TakenFirst DEF UnderWay
  <1>5. Head(back).success /\ Len(peer.log) = next + 1 /\ ~ Has(q, "AppendEntries")
    BY <1>3, <1>4 DEF UnderWay
  <1>6. Head(back).success \in BOOLEAN
    <2>1. Head(back) \in Message
      BY HeadTailProperties
    <2> QED BY <2>1, MessageFields
  <1>7. /\ known.log = self.log /\ known.current_term = self.current_term
        /\ known.commit_index = self.commit_index /\ known.match_index[d] = next
        /\ known.next_index[d] = IF next + 1 > size - 1 THEN UpToDate ELSE next + 1
    BY <1>1, <1>2, <1>5, <1>6, AdvanceChanges
  <1>8. \A i \in 1 .. Len(peer.log) : i <= size /\ peer.log[i] = known.log[i]
    BY <1>1, <1>7 DEF Tracks
  <1>9. Len(peer.log) <= size /\ next < Len(peer.log)
    BY <1>1, <1>2, <1>5, <1>8
  <1>10. CASE known.next_index[d] = UpToDate
    <2>1. Len(peer.log) = size
      BY <1>2, <1>5, <1>7, <1>9, <1>10 DEF UpToDate
    <2>2. Tracks(known, d, peer, q, Tail(back))
      BY <1>1, <1>4, <1>5, <1>7, <1>8, <1>9, <1>10, <2>1 DEF Tracks
    <2> QED BY <1>10, <2>2, ConcatEmptySeq
  <1>11. CASE known.next_index[d] # UpToDate
    <2>1. known.next_index[d] = next + 1 /\ next + 1 \in 1 .. log_max_index(known)
      BY <1>2, <1>7, <1>11
    <2>2. Once(q, "AppendEntries") /\ Once(Tail(back), "Acknowledge")
      BY <1>4, <1>5, Zenon DEF Once, Has
    <2>3. UnderWay(known, peer.log, next + 1, q, Tail(back))
      <3>1. /\ \A i \in DOMAIN q : q[i].type # "AppendEntries"
            /\ \A i \in DOMAIN Tail(back) : Tail(back)[i].type # "Acknowledge"
        BY <1>4, <1>5, Zenon DEF Has
      <3>2. Len(peer.log) \in {next + 1, (next + 1) + 1}
        BY <1>5
      <3> QED BY <1>4, <2>2, <3>1, <3>2, Zenon DEF UnderWay
    <2>4. Tracks(known, d, peer, q, Tail(back))
      BY <1>1, <1>7, <1>8, <1>9, <1>11, <2>1, <2>3 DEF Tracks
    <2>5. PICK m \in Message : /\ m = Resend(known, next + 1) /\ m.type = "AppendEntries"
                               /\ Carries(m, known, next + 1)
      BY <2>1, ResendCarries
    <2>6. Tracks(known, d, peer, q \o <<m>>, Tail(back))
      BY <1>4, <1>5, <1>11, <2>1, <2>4, <2>5, NextSent
    <2> QED BY <1>11, <2>1, <2>5, <2>6
  <1> QED BY <1>10, <1>11

\* A follower accepts what the first leader sends it, and its log then reaches
\* the entry it acknowledges.
LEMMA TracksAccepted ==
    ASSUME NEW self, Logged(self), NEW d \in Node, NEW peer, Logged(peer),
           self.next_index[d] \in {UpToDate} \cup 1 .. log_max_index(self),
           peer.current_term <= self.current_term,
           NEW q \in Seq(Message), NEW back \in Seq(Message), Tracks(self, d, peer, q, back),
           q # <<>>, NEW m, m = Head(q), m.type = "AppendEntries", NEW commit \in BOOLEAN,
           NEW new, new = append_entry(peer, m.entries, commit, m.prev_log_index)
    PROVE  /\ m.term >= peer.current_term
           /\ verify_entry(peer, m.prev_log_index, m.prev_log_term)
           /\ Tracks(self, d, new, Tail(q), back \o <<Acknowledge(TRUE)>>)
  <1>1. PICK size \in Nat : size = Len(self.log) /\ log_max_index(self) = size - 1
    <2>1. log_max_index(self) \in Nat /\ Len(self.log) = log_max_index(self) + 1
      BY LogSize
    <2> QED BY <2>1, SMTT(30)
  <1>2. /\ Has(q, "AppendEntries") /\ 1 \in DOMAIN q /\ q[1] = m /\ Tail(q) \in Seq(Message)
    BY FirstIsOnly, TakenFirst
  <1>3. PICK k \in 1 .. size - 1 : k = self.next_index[d] /\ k # UpToDate
    BY <1>1, <1>2 DEF Tracks
  <1>4. UnderWay(self, peer.log, k, q, back) /\ Carries(m, self, k)
    BY <1>2, <1>3 DEF Tracks, UnderWay
  <1>5. /\ m.term = self.current_term /\ m.prev_log_index = k - 1
        /\ m.prev_log_term = self.log[k].term /\ m.entries = self.log[k + 1]
    BY <1>4 DEF Carries
  <1>6. PICK len \in {k, k + 1} : len = Len(peer.log)
    BY <1>4 DEF UnderWay
  <1>7. /\ ~ Has(back, "Acknowledge") /\ ~ Has(Tail(q), "AppendEntries")
    BY <1>2, <1>4, FirstIsOnly DEF UnderWay
  <1>8. verify_entry(peer, m.prev_log_index, m.prev_log_term)
    <2>1. k - 1 < len /\ (k - 1) + 1 = k /\ k \in 1 .. len
      BY <1>3, <1>6
    <2>2. peer.log[k] = self.log[k]
      BY <1>6, <2>1 DEF Tracks
    <2> QED BY <1>5, <1>6, <2>1, <2>2 DEF verify_entry, At
  <1>9. m.entries \in Entry
    <2>1. self.log \in Seq(Entry) /\ k + 1 \in 1 .. Len(self.log)
      BY <1>1 DEF Logged, NodeState
    <2> QED BY <1>5, <2>1, ElementOfSeq
  <1>10. /\ Len(new.log) = k + 1 /\ new.log[k + 1] = self.log[k + 1]
         /\ \A i \in 1 .. k : new.log[i] = peer.log[i]
         /\ new.commit_index = IF commit THEN k - 1 ELSE peer.commit_index
    <2>1. k - 1 \in Nat /\ (k - 1) + 2 = k + 1 /\ (k - 1) + 1 = k /\ k - 1 < Len(peer.log)
      <3>1. k \in Nat /\ k >= 1
        BY <1>1, <1>3
      <3>2. len \in Nat /\ k <= len
        BY <1>6, <3>1
      <3> QED BY <1>6, <3>1, <3>2
    <2>2. new = append_entry(peer, m.entries, commit, k - 1)
      BY <1>5
    <2>3. /\ Len(new.log) = (k - 1) + 2 /\ new.log[(k - 1) + 2] = m.entries
          /\ \A i \in 1 .. (k - 1) + 1 : new.log[i] = peer.log[i]
          /\ new.commit_index = IF commit THEN k - 1 ELSE peer.commit_index
      BY <1>9, <2>1, <2>2, AppendChanges
    <2> QED BY <1>5, <2>1, <2>3
  <1>11. \A i \in 1 .. k + 1 : i <= size /\ new.log[i] = self.log[i]
    <2>1. \A i \in 1 .. k : i \in 1 .. len /\ i <= size
      BY <1>1, <1>3, <1>6
    <2>2. \A i \in 1 .. k : peer.log[i] = self.log[i]
      BY <1>6, <2>1 DEF Tracks
    <2>3. \A i \in 1 .. k : new.log[i] = self.log[i]
      BY <1>10, <2>2
    <2>4. ASSUME NEW i \in 1 .. k + 1
          PROVE  (i \in 1 .. k \/ i = k + 1) /\ k + 1 <= size
      BY <1>3
    <2> QED BY <1>10, <2>1, <2>3, <2>4
  <1>12. /\ self.match_index[d] \in Nat /\ self.commit_index \in Nat /\ peer.commit_index \in Nat
    BY DEF Logged, NodeState
  <1>13. /\ self.match_index[d] < k + 1 /\ self.commit_index < k + 1 /\ new.commit_index < k + 1
    <2>1. /\ self.match_index[d] < len /\ self.commit_index < len /\ peer.commit_index < len
      BY <1>6 DEF Tracks
    <2>2. len <= k + 1 /\ k - 1 < k + 1 /\ len \in Nat
      BY <1>3, <1>6
    <2> QED BY <1>10, <1>12, <2>1, <2>2
  <1>14. ASSUME NEW i \in DOMAIN Tail(q), Tail(q)[i].type = "Committal"
         PROVE  Tail(q)[i].prev_log_index < k + 1
    <2>1. PICK c \in Message : c = Tail(q)[i] /\ c.type = "Committal"
      <3>1. Tail(q)[i] \in Message
        BY <1>2, <1>14, LenProperties, ElementOfSeq
      <3> QED BY <1>14, <3>1
    <2>2. PICK j \in DOMAIN q : q[j] = c
      BY <2>1, FirstIsOnly
    <2>3. c.prev_log_index < len /\ c.prev_log_index \in Nat
      BY <1>6, <2>1, <2>2, MessageFields DEF Tracks
    <2> QED BY <1>6, <2>1, <2>3
  <1>15. PICK ack \in Message : ack = Acknowledge(TRUE) /\ ack.type = "Acknowledge" /\ ack.success
    <2>1. Acknowledge(TRUE) \in Message
      BY MessageTypes DEF PlainMessage
    <2> QED BY <2>1 DEF Acknowledge
  <1>16. PICK answers \in Seq(Message) : answers = back \o <<ack>>
    BY AddedLast
  <1>17. /\ Once(answers, "Acknowledge")
         /\ \A i \in DOMAIN answers : answers[i].type = "Acknowledge" => answers[i] = ack
    <2>1. Once(back, "Acknowledge")
      BY <1>7, Zenon DEF Once, Has
    <2>2. Once(answers, "Acknowledge")
      BY <1>7, <1>16, <2>1, AddedOne
    <2> QED BY <1>7, <1>16, <2>2, AddedOne DEF Has
  <1>18. UnderWay(self, new.log, k, Tail(q), answers)
    <2>1. Once(Tail(q), "AppendEntries")
      BY <1>7, Zenon DEF Once, Has
    <2>2. \A i \in DOMAIN Tail(q) : Tail(q)[i].type # "AppendEntries"
      BY <1>7, Zenon DEF Has
    <2> QED BY <1>7, <1>10, <1>15, <1>17, <2>1, <2>2 DEF UnderWay
  <1>19. Tracks(self, d, new, Tail(q), answers)
    BY <1>1, <1>3, <1>10, <1>11, <1>13, <1>14, <1>18 DEF Tracks
  <1> QED BY <1>5, <1>8, <1>15, <1>16, <1>19

-----------------------------------------------------------------------------
(* Who is elected stays so.                                                *)

\* A node that is elected is in the term of its election.
LEMMA ElectedTerm ==
    ASSUME ElectionInv, First, NEW p \in Node, Elected(p)
    PROVE  node[p].current_term = 2
  <1>1. TermInv /\ VotingInv
    BY DEF ElectionInv
  <1>2. Granters(p) # {}
    <2>1. Cardinality({}) = 0
      BY FS_EmptySet
    <2> QED BY <2>1, GroupSize DEF Elected
  <1>3. PICK g \in granted : g[3] = p
    BY <1>2 DEF Granters
  <1> QED BY <1>1, <1>3, Typed DEF TermInv, First

\* More votes change nothing for it, as long as it gives none itself.
LEMMA ElectedKept ==
    ASSUME ElectionInv, NEW p \in Node, Elected(p), granted \subseteq granted',
           \A g \in granted' : g \in granted \/ g[1] # p,
           node'[p].voted_for # Nobody, node'[p].loop # "candidate"
    PROVE  Elected(p)'
  <1>1. PICK S \in SUBSET Node : S = Granters(p)
    BY DEF Granters
  <1>2. PICK T \in SUBSET Node : T = Granters(p)'
    BY DEF Granters
  <1>3. S \subseteq T
    BY <1>1, <1>2 DEF Granters
  <1>4. Cardinality(S) \in Nat /\ Cardinality(T) \in Nat /\ Cardinality(S) <= Cardinality(T)
    BY <1>3, FiniteVoters
  <1>5. 2 * Cardinality(T) > Cardinality(Node)
    BY <1>1, <1>4, GroupSize DEF Elected
  <1>6. VotesForItself(p)'
    BY DEF Elected, VotesForItself
  <1> QED BY <1>2, <1>5, <1>6 DEF Elected

\* No step of the first election takes it away.
LEMMA ElectedStays ==
    ASSUME ElectionInv, ElectionInv', First', [Next]_vars, NEW p \in Node, Elected(p)
    PROVE  Elected(p)'
  <1>1. VotingInv /\ VotingInv' /\ TermInv
    BY DEF ElectionInv
  <1>2. First
    BY <1>1, TermNext
  <1>3. /\ node[p].current_term = 2 /\ node'[p].current_term <= 2
        /\ node'[p].current_term \in Nat
        /\ node[p].voted_for # Nobody /\ node[p].loop # "candidate"
    <2>1. node'[p].current_term \in Nat
      BY <1>1 DEF VotingInv, RaftInv, TypeOK, NodeState
    <2> QED BY <1>2, <2>1, ElectedTerm DEF First, Elected
  <1>4. ASSUME node'[p] = node[p], granted \subseteq granted',
               \A g \in granted' : g \in granted \/ g[1] # p
        PROVE  Elected(p)'
    BY <1>3, <1>4, ElectedKept
  <1>5. ASSUME NEW n \in Node, Silent(n)
        PROVE  Elected(p)'
    <2>1. PICK self :
              /\ Logged(self) /\ Changes(n, self)
              /\ self.role = "candidate" => node[n].loop = "candidate"
              /\ \/ self.current_term > node[n].current_term
                 \/ self.current_term = node[n].current_term /\ node[n].loop = "candidate"
                 \/ /\ self.current_term = node[n].current_term
                    /\ node[n].voted_for # Nobody => self.voted_for # Nobody
      BY <1>5 DEF Silent
    <2>2. /\ \A q \in Node : q # n => node'[q] = node[q]
          /\ node'[n].current_term = self.current_term /\ node'[n].loop = self.role
          /\ node'[n].voted_for = self.voted_for
      BY <1>1, <2>1, Changed DEF Changes
    <2>3. UNCHANGED granted
      BY <2>1 DEF Changes
    <2>4. CASE n # p
      BY <1>4, <2>2, <2>3, <2>4
    <2>5. CASE n = p
      BY <1>3, <2>1, <2>2, <2>3, <2>5, ElectedKept
    <2> QED BY <2>4, <2>5
  <1>6. ASSUME NEW n \in Node, NEW s \in Node, Grants(n, s)
        PROVE  Elected(p)'
    <2>1. PICK self :
              /\ Logged(self) /\ node' = [node EXCEPT ![n] = CheckRole(self)]
              /\ granted' = granted \cup {<<n, self.current_term, s>>}
              /\ \/ self.current_term > node[n].current_term
                 \/ self.current_term = node[n].current_term /\ node[n].voted_for = Nobody
      BY <1>6 DEF Grants
    <2>2. /\ \A q \in Node : q # n => node'[q] = node[q]
          /\ node'[n].current_term = self.current_term
      BY <1>1, <2>1, Changed
    <2>3. n # p
      BY <1>3, <2>1, <2>2
    <2>4. \A g \in granted' : g \in granted \/ g[1] # p
      BY <2>1, <2>3
    <2> QED BY <1>4, <2>1, <2>2, <2>3, <2>4
  <1>7. ASSUME NEW n \in Node, NEW s \in Node, CandidateVote(n, s)
        PROVE  Elected(p)'
    <2>1. n # p /\ UNCHANGED granted /\ \A q \in Node : q # n => node'[q] = node[q]
      BY <1>1, <1>3, <1>7, VoteCounted, CountedForward
    <2> QED BY <1>4, <2>1
  <1>8. ASSUME NEW n \in Node, BeginElection(n)
        PROVE  Elected(p)'
    <2>1. /\ granted' = granted \cup {<<n, node[n].current_term + 1, n>>}
          /\ \A q \in Node : q # n => node'[q] = node[q]
          /\ node'[n].current_term = node[n].current_term + 1
      BY <1>1, <1>8, Begun
    <2>2. n # p
      BY <1>3, <2>1
    <2>3. \A g \in granted' : g \in granted \/ g[1] # p
      BY <2>1, <2>2
    <2> QED BY <1>4, <2>1, <2>2, <2>3
  <1>9. ASSUME UNCHANGED granted, \A q \in Node : Unmoved(q)
        PROVE  Elected(p)'
    BY <1>3, <1>9, ElectedKept DEF Unmoved
  <1> QED BY <1>1, <1>5, <1>6, <1>7, <1>8, <1>9, StepKinds

\* The loops of a step: only a vote makes a leader, and a candidate has voted.
LEMMA LoopsKept ==
    ASSUME VotingInv, [Next]_vars, NEW p \in Node,
           node[p].loop = "candidate" => node[p].voted_for # Nobody
    PROVE  /\ node'[p].loop = "candidate" => node'[p].voted_for # Nobody
           /\ \/ node'[p].loop = "leader" => node[p].loop = "leader"
              \/ \E s \in Node : CandidateVote(p, s)
  <1>1. ASSUME NEW n \in Node, Silent(n), n = p
        PROVE  /\ node'[p].loop = "candidate" => node'[p].voted_for # Nobody
               /\ node'[p].loop = "leader" => node[p].loop = "leader"
    <2>1. PICK self :
              /\ Logged(self) /\ Changes(n, self)
              /\ self.role = "leader" => node[n].loop = "leader"
              /\ self.role = "candidate" =>
                    node[n].loop = "candidate" /\ self.voted_for = node[n].voted_for
      BY <1>1 DEF Silent
    <2>2. node'[n].loop = self.role /\ node'[n].voted_for = self.voted_for
      BY <2>1, Changed DEF Changes
    <2> QED BY <1>1, <2>1, <2>2
  <1>2. ASSUME NEW n \in Node, NEW s \in Node, Grants(n, s), n = p
        PROVE  node'[p].loop \notin {"candidate", "leader"}
    <2>1. PICK self :
              /\ Logged(self) /\ node' = [node EXCEPT ![n] = CheckRole(self)]
              /\ self.role \notin {"candidate", "leader"}
      BY <1>2 DEF Grants
    <2> QED BY <1>2, <2>1, Changed
  <1>3. ASSUME NEW s \in Node, CandidateVote(p, s)
        PROVE  node'[p].voted_for # Nobody
    <2>1. Counts(p, s) /\ node[p].loop = "candidate"
      BY <1>3, VoteCounted
    <2>2. PICK self : /\ Logged(self) /\ Changes(p, self)
                      /\ self.voted_for = node[p].voted_for
      BY <2>1 DEF Counts
    <2>3. node'[p].voted_for = self.voted_for
      BY <2>2, Changed DEF Changes
    <2> QED BY <2>1, <2>2, <2>3
  <1>4. ASSUME BeginElection(p)
        PROVE  node'[p].loop = "candidate" /\ node'[p].voted_for # Nobody
    BY <1>4, Begun, NodeAssumption
  <1>5. ASSUME NEW n \in Node, n # p,
               Silent(n) \/ (\E s \in Node : Grants(n, s) \/ CandidateVote(n, s))
                  \/ BeginElection(n)
        PROVE  node'[p] = node[p]
    <2>1. CASE BeginElection(n)
      BY <1>5, <2>1, Begun
    <2>2. CASE ~ BeginElection(n)
      <3>1. \E self : Logged(self) /\ node' = [node EXCEPT ![n] = CheckRole(self)]
        BY <1>5, <2>2, VoteCounted DEF Silent, Grants, Counts, Changes
      <3> QED BY <1>5, <3>1, Changed
    <2> QED BY <2>1, <2>2
  <1>6. ASSUME Unmoved(p)
        PROVE  /\ node'[p].loop = "candidate" => node'[p].voted_for # Nobody
               /\ node'[p].loop = "leader" => node[p].loop = "leader"
    BY <1>6 DEF Unmoved
  <1> QED BY <1>1, <1>2, <1>3, <1>4, <1>5, <1>6, StepKinds

\* Without pauses a node is in the loop of its role.
LEMMA NeverPaused ==
    ASSUME VotingInv, [Next]_vars, CanPause = {}, paused = {},
           \A p \in Node : node[p].role = node[p].loop
    PROVE  paused' = {} /\ \A p \in Node : node'[p].role = node'[p].loop
  <1>1. paused' = {}
    <2>1. ASSUME NEW n \in Node, NEW s \in Node, Receive(n, s)
          PROVE  UNCHANGED paused
      BY <2>1, ZenonT(60)
         DEF Receive, FollowerRequestVotes, FollowerHeartbeat, FollowerAppendEntries,
             FollowerCommittal, FollowerIgnore, CandidateVote, StepDown, CandidateHeartbeat,
             CandidateIgnore, LeaderAcknowledge, LeaderClientRequest, LeaderIgnore, LeaderTurn,
             Handle
    <2>2. ASSUME NEW n \in Node, NEW d \in Node,
                 BeginElection(n) \/ LeaderServeClient(n) \/ LeaderHeartbeat(n)
                    \/ LeaderResend(n, d) \/ run(n)
          PROVE  UNCHANGED paused
      BY <2>2 DEF BeginElection, LeaderServeClient, LeaderHeartbeat, LeaderResend, run, Act
    <2>3. Environment => UNCHANGED paused
      BY DEF Environment, client_request, pause, un_pause, Lose, vars
    <2> QED BY <2>1, <2>2, <2>3 DEF Next, Environment
  <1>2. ASSUME NEW n \in Node, NEW self, Logged(self),
               node' = [node EXCEPT ![n] = CheckRole(self)]
        PROVE  \A p \in Node : node'[p].role = node'[p].loop
    <2>1. \A p \in Node : p # n => node'[p] = node[p]
      BY <1>2, Changed, SMTT(30)
    <2>2. node'[n].role = self.role /\ node'[n].loop = self.role
      BY <1>2, Changed, ZenonT(60)
    <2> QED BY <2>1, <2>2
  <1>3. ASSUME NEW n \in Node, BeginElection(n)
        PROVE  \A p \in Node : node'[p].role = node'[p].loop
    BY <1>3, Begun
  <1>4. ASSUME Environment
        PROVE  \A p \in Node : node'[p].role = node'[p].loop
    <2>1. ASSUME NEW n \in Node, NEW v \in Value, client_request(n, v), NEW p \in Node
          PROVE  node'[p].role = node[p].role /\ node'[p].loop = node[p].loop
      <3>1. PICK longer : longer = Append(node[n].client_queue,
                                          [term |-> node[n].current_term, entry |-> v])
        OBVIOUS
      <3>2. node' = [node EXCEPT ![n] = [node[n] EXCEPT !.client_queue = longer]]
        BY <2>1, <3>1 DEF client_request
      <3> QED BY <3>2, Typed DEF NodeState
    <2>2. ASSUME NEW n \in Node
          PROVE  ~ pause(n) /\ ~ un_pause(n)
      BY DEF pause, un_pause
    <2>3. node' = node => \A p \in Node : node'[p].role = node'[p].loop
      OBVIOUS
    <2> QED BY <1>4, <2>1, <2>2, <2>3 DEF Environment, Lose, vars
  <1>5. \A p \in Node : node'[p].role = node'[p].loop
    <2>1. ASSUME NEW n \in Node, NEW s \in Node, Silent(n) \/ Grants(n, s) \/ CandidateVote(n, s)
          PROVE  \E self : Logged(self) /\ node' = [node EXCEPT ![n] = CheckRole(self)]
      BY <2>1, VoteCounted DEF Silent, Grants, Counts, Changes
    <2> QED BY <1>2, <1>3, <1>4, <2>1, StepKinds
  <1> QED BY <1>1, <1>5

\* Without pauses the first leader leads until a second election begins.
LEMMA LeaderStays ==
    ASSUME ElectionInv, ElectionInv', First', [Next]_vars, NEW p \in Node, Elected(p),
           node[p].loop = "leader", node[p].role = "leader"
    PROVE  node'[p].loop = "leader"
  <1>1. VotingInv /\ VotingInv' /\ TermInv
    BY DEF ElectionInv
  <1>2. First
    BY <1>1, TermNext
  <1>3. ASSUME NEW n \in Node, Silent(n)
        PROVE  node'[p].loop = "leader"
    <2>1. PICK self : /\ Logged(self) /\ Changes(n, self)
                      /\ node[n].loop = "leader" => self.role = node[n].role
      BY <1>3 DEF Silent
    <2> QED BY <1>1, <2>1, Changed DEF Changes
  <1>4. ASSUME NEW n \in Node, NEW s \in Node, Grants(n, s)
        PROVE  node'[p].loop = "leader"
    <2>1. PICK self :
              /\ Logged(self) /\ node' = [node EXCEPT ![n] = CheckRole(self)]
              /\ \/ self.current_term > node[n].current_term
                 \/ self.current_term = node[n].current_term /\ node[n].voted_for = Nobody
      BY <1>4 DEF Grants
    <2>2. /\ \A q \in Node : q # n => node'[q] = node[q]
          /\ node'[n].current_term = self.current_term /\ self.current_term \in Nat
      BY <1>1, <2>1, Changed
    <2>3. n # p
      <3>1. node[p].current_term = 2 /\ node'[p].current_term <= 2 /\ node[p].voted_for # Nobody
        BY <1>2, ElectedTerm DEF First, Elected
      <3> QED BY <2>1, <2>2, <3>1
    <2> QED BY <2>2, <2>3
  <1>5. ASSUME NEW n \in Node, NEW s \in Node, CandidateVote(n, s)
        PROVE  node'[p].loop = "leader"
    BY <1>1, <1>5, VoteCounted, CountedForward
  <1>6. ASSUME NEW n \in Node, BeginElection(n)
        PROVE  node'[p].loop = "leader"
    <2>1. n # p
      BY <1>6 DEF BeginElection
    <2> QED BY <1>1, <1>6, <2>1, Begun
  <1>7. ASSUME \A q \in Node : Unmoved(q)
        PROVE  node'[p].loop = "leader"
    BY <1>7 DEF Unmoved
  <1> QED BY <1>1, <1>3, <1>4, <1>5, <1>6, <1>7, StepKinds

-----------------------------------------------------------------------------
(* Steps that change no log and send nothing about one.                    *)

\* What a step must leave alone in a node.
SameLog(new, old) ==
    /\ new.log = old.log
    /\ new.next_index = old.next_index /\ new.match_index = old.match_index

\* p is told, by the message it gets, to commit index.
Told(p, index) ==
    /\ node[p].loop = "follower"
    /\ \E s \in Node : Gets(p, s, "Committal") /\ Head(chan[s][p]).prev_log_index = index

\* Nothing but the commit that a node is told.
CalmStep ==
    /\ \A p \in Node :
          /\ SameLog(node'[p], node[p])
          /\ node'[p].commit_index = node[p].commit_index \/ Told(p, node'[p].commit_index)
    /\ \A a, b \in Node : Passed(CalmMessage, chan'[a][b], chan[a][b])

\* The look at current_role changes nothing of a log.
LEMMA CheckedLog ==
    ASSUME NEW self, Logged(self)
    PROVE  /\ SameLog(CheckRole(self), self)
           /\ CheckRole(self).commit_index = self.commit_index
           /\ CheckRole(self).current_term = self.current_term
  BY DEF CheckRole, SameLog, Logged, NodeState

\* What a step of n alone leaves in every node.
LEMMA ChangedLog ==
    ASSUME RaftInv, NEW n \in Node, NEW self, Logged(self),
           node' = [node EXCEPT ![n] = CheckRole(self)]
    PROVE  /\ \A p \in Node : p # n => node'[p] = node[p]
           /\ SameLog(node'[n], self) /\ node'[n].commit_index = self.commit_index
           /\ node'[n].current_term = self.current_term /\ node'[n].loop = self.role
  <1>1. PICK new : new = CheckRole(self)
    OBVIOUS
  <1>2. \A p \in Node : node'[p] = IF p = n THEN new ELSE node[p]
    BY <1>1 DEF RaftInv, TypeOK
  <1> QED BY <1>1, <1>2, CheckedLog, RoleChecked

\* Messages that are about no log.
LEMMA CalmTypes ==
    ASSUME NEW self, Logged(self)
    PROVE  /\ RequestVotes(self) \in CalmMessage /\ Heartbeat(self) \in CalmMessage
           /\ \A g \in BOOLEAN : Vote(g) \in CalmMessage
           /\ \A entry \in Entry : ClientRequest(entry) \in CalmMessage
  <1>1. RequestVotes(self) \in CalmMessage
    BY MessageTypes DEF RequestVotes, CalmMessage, LogType
  <1>2. Heartbeat(self) \in CalmMessage
    BY MessageTypes DEF Heartbeat, CalmMessage, LogType, PlainMessage
  <1>3. \A entry \in Entry : ClientRequest(entry) \in CalmMessage
    BY MessageTypes DEF ClientRequest, CalmMessage, LogType, PlainMessage
  <1>4. Vote(TRUE) \in CalmMessage /\ Vote(FALSE) \in CalmMessage
    BY MessageTypes DEF Vote, CalmMessage, LogType, PlainMessage
  <1> QED BY <1>1, <1>2, <1>3, <1>4

\* A handler that leaves the log of its node alone takes a calm step.
LEMMA CalmHandle ==
    ASSUME RaftInv, NEW n \in Node, NEW s \in Node, NEW type, Gets(n, s, type),
           NEW self, Logged(self), SameLog(self, node[n]),
           self.commit_index = node[n].commit_index \/ Told(n, self.commit_index),
           NEW out \in Sending(CalmMessage), Handle(n, s, self, out)
    PROVE  CalmStep
  <1>1. node' = [node EXCEPT ![n] = CheckRole(self)]
    BY DEF Handle
  <1>2. ASSUME NEW p \in Node
        PROVE  /\ SameLog(node'[p], node[p])
               /\ node'[p].commit_index = node[p].commit_index \/ Told(p, node'[p].commit_index)
    <2>1. /\ p # n => node'[p] = node[p]
          /\ SameLog(node'[n], self) /\ node'[n].commit_index = self.commit_index
      BY <1>1, ChangedLog, ZenonT(60)
    <2> QED BY <2>1, Zenon DEF SameLog
  <1>3. ASSUME NEW a \in Node, NEW b \in Node
        PROVE  Passed(CalmMessage, chan'[a][b], chan[a][b])
    <2>1. PICK more \in Seq(CalmMessage) : more = IF a = n THEN out[b] ELSE <<>>
      BY EmptySeq DEF Sending
    <2>2. PICK left \in Seq(Message) :
             /\ chan[a][b] \in Seq(Message)
             /\ left = chan[a][b] \/ (chan[a][b] # <<>> /\ left = Tail(chan[a][b]))
             /\ chan'[a][b] = left \o (IF a = n THEN out[b] ELSE <<>>)
      <3>1. Moved(n, s, out, a, b)
        BY HandledChannel
      <3> QED BY <3>1, Zenon DEF Moved
    <2>3. CalmMessage \in SUBSET Message
      BY DEF CalmMessage
    <2> QED BY <2>1, <2>2, <2>3, PassedConcat
  <1> QED BY <1>2, <1>3 DEF CalmStep

\* So does a step that handles no message.
LEMMA CalmAct ==
    ASSUME RaftInv, NEW n \in Node, NEW self, Logged(self), SameLog(self, node[n]),
           self.commit_index = node[n].commit_index,
           NEW out \in Sending(CalmMessage), Act(n, self, out)
    PROVE  CalmStep
  <1>1. node' = [node EXCEPT ![n] = CheckRole(self)]
    BY DEF Act
  <1>2. ASSUME NEW p \in Node
        PROVE  SameLog(node'[p], node[p]) /\ node'[p].commit_index = node[p].commit_index
    <2>1. /\ p # n => node'[p] = node[p]
          /\ SameLog(node'[n], self) /\ node'[n].commit_index = self.commit_index
      BY <1>1, ChangedLog, ZenonT(60)
    <2> QED BY <2>1, Zenon DEF SameLog
  <1>3. ASSUME NEW a \in Node, NEW b \in Node
        PROVE  Passed(CalmMessage, chan'[a][b], chan[a][b])
    <2>1. PICK old \in Seq(Message) : old = chan[a][b]
      BY DEF RaftInv, TypeOK
    <2>2. CASE a = n
      <3>1. out[b] \in Seq(CalmMessage) /\ CalmMessage \in SUBSET Message
        BY DEF Sending, CalmMessage
      <3>2. chan'[a][b] = old \o out[b]
        BY <2>1, <2>2 DEF Act, RaftInv, TypeOK
      <3> QED BY <2>1, <3>1, <3>2, PassedConcat
    <2>3. CASE a # n
      BY <2>1, <2>3, PassedSame DEF Act, RaftInv, TypeOK
    <2> QED BY <2>2, <2>3
  <1> QED BY <1>2, <1>3 DEF CalmStep

\* A message that is taken and not acted on.
LEMMA CalmIgnore ==
    ASSUME RaftInv, NEW n \in Node, NEW s \in Node, NEW type, Gets(n, s, type),
           Handle(n, s, node[n], Quiet)
    PROVE  CalmStep
  <1>1. Logged(node[n]) /\ SameLog(node[n], node[n]) /\ Quiet \in Sending(CalmMessage)
    BY SendingType DEF RaftInv, LogInv, SameLog
  <1> QED BY <1>1, CalmHandle

\* The messages of a follower, but for the entries it is sent.
LEMMA CalmFollower ==
    ASSUME RaftInv, NEW n \in Node, NEW s \in Node,
           \/ FollowerRequestVotes(n, s)
           \/ FollowerHeartbeat(n, s)
           \/ FollowerCommittal(n, s)
           \/ FollowerIgnore(n, s)
    PROVE  CalmStep
  <1>1. Logged(node[n]) /\ Quiet \in Sending(CalmMessage)
    BY SendingType DEF RaftInv, LogInv
  <1>2. CASE FollowerRequestVotes(n, s)
    <2>1. PICK m \in Message : m = Head(chan[s][n]) /\ m.term \in Nat
      BY <1>2, GetsMessage, MessageFields DEF FollowerRequestVotes, RaftInv
    <2>2. PICK self : self = adopt_term(node[n], m.term)
      OBVIOUS
    <2>3. PICK grant \in BOOLEAN : grant = (/\ self.voted_for = Nobody
                                            /\ m.last_log_index >= self.commit_index
                                            /\ m.last_log_term >= self.last_applied_term)
      OBVIOUS
    <2>4. Gets(n, s, "RequestVotes") /\ Handle(n, s, send_vote(self, s), SendTo(s, Vote(grant)))
      BY <1>2, <2>1, <2>2, <2>3 DEF FollowerRequestVotes
    <2>5. Logged(self) /\ SameLog(self, node[n]) /\ self.commit_index = node[n].commit_index
      BY <1>1, <2>1, <2>2 DEF adopt_term, increment_term, SameLog, Logged, NodeState
    <2>6. PICK voter : voter = send_vote(self, s)
      OBVIOUS
    <2>7. /\ Logged(voter) /\ SameLog(voter, node[n])
          /\ voter.commit_index = node[n].commit_index
      BY <2>5, <2>6 DEF send_vote, SameLog, Logged, NodeState
    <2>8. SendTo(s, Vote(grant)) \in Sending(CalmMessage)
      BY <1>1, CalmTypes, SendingType
    <2> QED BY <2>4, <2>6, <2>7, <2>8, CalmHandle, SMTT(30)
  <1>3. CASE FollowerHeartbeat(n, s)
    <2>1. PICK m \in Message : m = Head(chan[s][n]) /\ m.term \in Nat
      BY <1>3, GetsMessage, MessageFields DEF FollowerHeartbeat, RaftInv
    <2>2. PICK self : self = adopt_term(node[n], m.term)
      OBVIOUS
    <2>3. Logged(self) /\ SameLog(self, node[n]) /\ self.commit_index = node[n].commit_index
      BY <1>1, <2>1, <2>2 DEF adopt_term, increment_term, SameLog, Logged, NodeState
    <2>4. Gets(n, s, "Heartbeat")
      BY <1>3 DEF FollowerHeartbeat
    <2>5. CASE self.client_queue = <<>>
      <3>1. Handle(n, s, self, Quiet)
        BY <1>3, <2>1, <2>2, <2>5 DEF FollowerHeartbeat
      <3> QED BY <1>1, <2>3, <2>4, <3>1, CalmHandle
    <2>6. CASE self.client_queue # <<>>
      <3>1. Head(self.client_queue) \in Entry /\ Tail(self.client_queue) \in Seq(Entry)
        BY <2>3, <2>6, HeadTailProperties DEF Logged, NodeState
      <3>2. PICK rest \in Seq(Entry) : rest = Tail(self.client_queue)
        BY <3>1
      <3>3. PICK served : served = [self EXCEPT !.client_queue = rest]
        OBVIOUS
      <3>4. /\ Logged(served) /\ SameLog(served, node[n])
            /\ served.commit_index = node[n].commit_index
        BY <2>3, <3>3 DEF SameLog, Logged, NodeState
      <3>5. Handle(n, s, served, SendTo(s, ClientRequest(Head(self.client_queue))))
        BY <1>3, <2>1, <2>2, <2>6, <3>2, <3>3 DEF FollowerHeartbeat
      <3>6. SendTo(s, ClientRequest(Head(self.client_queue))) \in Sending(CalmMessage)
        BY <1>1, <3>1, CalmTypes, SendingType
      <3> QED BY <2>4, <3>4, <3>5, <3>6, CalmHandle
    <2> QED BY <2>5, <2>6
  <1>4. CASE FollowerCommittal(n, s)
    <2>1. PICK m \in Message :
              m = Head(chan[s][n]) /\ m.prev_log_index \in Nat /\ m.prev_log_term \in Nat
      BY <1>4, GetsMessage, MessageFields DEF FollowerCommittal, RaftInv
    <2>2. PICK self : self = commit_entry(node[n], m.prev_log_index, m.prev_log_term)
      OBVIOUS
    <2>3. /\ Logged(self) /\ SameLog(self, node[n])
          /\ self.commit_index = m.prev_log_index
      BY <1>1, <2>1, <2>2 DEF commit_entry, SameLog, Logged, NodeState
    <2>4. Told(n, self.commit_index)
      BY <1>4, <2>1, <2>3 DEF FollowerCommittal, Told
    <2>5. Gets(n, s, "Committal") /\ Handle(n, s, self, Quiet)
      BY <1>4, <2>1, <2>2 DEF FollowerCommittal
    <2> QED BY <1>1, <2>3, <2>4, <2>5, CalmHandle
  <1>5. CASE FollowerIgnore(n, s)
    BY <1>5, CalmIgnore DEF FollowerIgnore
  <1> QED BY <1>2, <1>3, <1>4, <1>5

\* A candidate that takes the vote that makes it lead.
Wins(n, s) == CandidateVote(n, s) /\ node'[n].loop = "leader"

\* Elections, but for the vote that decides them.
LEMMA CalmElection ==
    ASSUME RaftInv, NEW n \in Node, NEW s \in Node,
           \/ CandidateVote(n, s) /\ ~ Wins(n, s)
           \/ StepDown(n, s)
           \/ CandidateHeartbeat(n, s)
           \/ CandidateIgnore(n, s)
           \/ BeginElection(n)
    PROVE  CalmStep
  <1>1. Logged(node[n]) /\ Quiet \in Sending(CalmMessage)
    BY SendingType DEF RaftInv, LogInv
  <1>2. CASE CandidateVote(n, s) /\ ~ Wins(n, s)
    <2>1. PICK votes \in Nat : votes = IF Head(chan[s][n]).vote_granted
                                       THEN node[n].votes_for_me + 1 ELSE node[n].votes_for_me
      <3>1. node[n].votes_for_me \in Nat
        BY <1>1 DEF Logged, NodeState
      <3> QED BY <3>1
    <2>2. PICK self : self = [node[n] EXCEPT !.votes_for_me = votes]
      OBVIOUS
    <2>3. /\ Logged(self) /\ SameLog(self, node[n]) /\ self.votes_for_me = votes
          /\ self.commit_index = node[n].commit_index
      BY <1>1, <2>2 DEF SameLog, Logged, NodeState
    <2>4. self = [node[n] EXCEPT !.votes_for_me =
                     IF Head(chan[s][n]).vote_granted THEN @ + 1 ELSE @]
      BY <1>1, <2>1, <2>2 DEF Logged, NodeState
    <2>5. Gets(n, s, "Vote")
      BY <1>2 DEF CandidateVote
    <2>6. CASE has_majority(votes)
      <3>1. node' = [node EXCEPT ![n] = CheckRole(start_leading(self, n))]
        BY <1>2, <2>3, <2>4, <2>6 DEF CandidateVote, Handle
      <3>2. Logged(start_leading(self, n)) /\ start_leading(self, n).role = "leader"
        BY <2>3, LeadingStarted
      <3>3. node'[n].loop = "leader"
        BY <3>1, <3>2, ChangedLog, ZenonT(60)
      <3> QED BY <1>2, <3>3 DEF Wins
    <2>7. CASE ~ has_majority(votes)
      <3>1. Handle(n, s, self, Quiet)
        BY <1>2, <2>3, <2>4, <2>7 DEF CandidateVote
      <3> QED BY <1>1, <2>3, <2>5, <3>1, CalmHandle
    <2> QED BY <2>6, <2>7
  <1>3. CASE StepDown(n, s)
    <2>1. PICK m \in Message : m = Head(chan[s][n]) /\ m.term \in Nat
      BY <1>3, GetsMessage, MessageFields DEF StepDown, RaftInv
    <2>2. PICK self : self = set_current_role(send_vote(increment_term(node[n], m.term), s),
                                              "follower")
      OBVIOUS
    <2>3. Logged(self) /\ SameLog(self, node[n]) /\ self.commit_index = node[n].commit_index
      BY <1>1, <2>1, <2>2
         DEF set_current_role, send_vote, increment_term, SameLog, Logged, NodeState, Role
    <2>4. Gets(n, s, "RequestVotes") /\ Handle(n, s, self, SendTo(s, Vote(TRUE)))
      BY <1>3, <2>1, <2>2 DEF StepDown
    <2>5. SendTo(s, Vote(TRUE)) \in Sending(CalmMessage)
      BY <1>1, CalmTypes, SendingType
    <2> QED BY <2>3, <2>4, <2>5, CalmHandle
  <1>4. CASE CandidateHeartbeat(n, s)
    <2>1. PICK m \in Message : m = Head(chan[s][n]) /\ m.term \in Nat
      BY <1>4, GetsMessage, MessageFields DEF CandidateHeartbeat, RaftInv
    <2>2. PICK self : self = set_current_role(increment_term(node[n], m.term), "follower")
      OBVIOUS
    <2>3. Logged(self) /\ SameLog(self, node[n]) /\ self.commit_index = node[n].commit_index
      BY <1>1, <2>1, <2>2 DEF set_current_role, increment_term, SameLog, Logged, NodeState, Role
    <2>4. Gets(n, s, "Heartbeat") /\ Handle(n, s, self, Quiet)
      BY <1>4, <2>1, <2>2 DEF CandidateHeartbeat
    <2> QED BY <1>1, <2>3, <2>4, CalmHandle
  <1>5. CASE CandidateIgnore(n, s)
    <2>1. \E type : Gets(n, s, type)
      BY <1>5 DEF CandidateIgnore
    <2>2. Handle(n, s, node[n], Quiet)
      BY <1>5 DEF CandidateIgnore
    <2> QED BY <2>1, <2>2, CalmIgnore
  <1>6. CASE BeginElection(n)
    <2>1. PICK term \in Nat : term = node[n].current_term + 1
      BY <1>1 DEF Logged, NodeState
    <2>2. PICK self : self = [set_current_role(send_vote(increment_term(node[n], term), n),
                                               "candidate") EXCEPT !.votes_for_me = 0]
      OBVIOUS
    <2>3. Logged(self) /\ SameLog(self, node[n]) /\ self.commit_index = node[n].commit_index
      BY <1>1, <2>1, <2>2
         DEF set_current_role, send_vote, increment_term, SameLog, Logged, NodeState, Role
    <2>4. Act(n, self, Then(SendAll(RequestVotes(self)), SendTo(n, Vote(TRUE))))
      BY <1>6, <2>1, <2>2 DEF BeginElection
    <2>5. Then(SendAll(RequestVotes(self)), SendTo(n, Vote(TRUE))) \in Sending(CalmMessage)
      BY <2>3, CalmTypes, SendingType, ThenType
    <2> QED BY <2>3, <2>4, <2>5, CalmAct
  <1> QED BY <1>2, <1>3, <1>4, <1>5, <1>6

\* The heartbeat of a leader, and a thread that finds its role changed.
LEMMA CalmTimer ==
    ASSUME RaftInv, NEW n \in Node, LeaderHeartbeat(n) \/ run(n)
    PROVE  CalmStep
  <1>1. /\ Logged(node[n]) /\ SameLog(node[n], node[n])
        /\ Quiet \in Sending(CalmMessage) /\ SendAll(Heartbeat(node[n])) \in Sending(CalmMessage)
    BY CalmTypes, SendingType DEF RaftInv, LogInv, SameLog
  <1> QED BY <1>1, CalmAct DEF LeaderHeartbeat, run

\* Clients, operators and losses.
LEMMA CalmEnvironment ==
    ASSUME RaftInv, Environment
    PROVE  CalmStep
  <1>1. node \in [Node -> NodeState] /\ \A a, b \in Node : chan[a][b] \in Seq(Message)
    BY DEF RaftInv, TypeOK
  <1>2. ASSUME NEW n \in Node, NEW v \in Value, client_request(n, v), NEW p \in Node
        PROVE  SameLog(node'[p], node[p]) /\ node'[p].commit_index = node[p].commit_index
    <2>1. PICK longer : longer = Append(node[n].client_queue,
                                        [term |-> node[n].current_term, entry |-> v])
      OBVIOUS
    <2>2. node' = [node EXCEPT ![n] = [node[n] EXCEPT !.client_queue = longer]]
      BY <1>2, <2>1 DEF client_request
    <2> QED BY <1>1, <2>2 DEF NodeState, SameLog
  <1>3. ASSUME NEW n \in Node, pause(n) \/ un_pause(n), NEW p \in Node
        PROVE  SameLog(node'[p], node[p]) /\ node'[p].commit_index = node[p].commit_index
    <2>1. \/ \E role \in {"none", "follower"} :
                node' = [node EXCEPT ![n] = [node[n] EXCEPT !.role = role]]
          \/ node' = node
      BY <1>3 DEF pause, un_pause, set_current_role
    <2>2. ASSUME NEW role, node' = [node EXCEPT ![n] = [node[n] EXCEPT !.role = role]]
          PROVE  SameLog(node'[p], node[p]) /\ node'[p].commit_index = node[p].commit_index
      BY <1>1, <2>2 DEF NodeState, SameLog
    <2>3. node' = node =>
             SameLog(node'[p], node[p]) /\ node'[p].commit_index = node[p].commit_index
      BY DEF SameLog
    <2> QED BY <2>1, <2>2, <2>3
  <1>4. \A p \in Node : SameLog(node'[p], node[p]) /\ node'[p].commit_index = node[p].commit_index
    <2>1. node' = node => \A p \in Node : /\ SameLog(node'[p], node[p])
                                          /\ node'[p].commit_index = node[p].commit_index
      BY DEF SameLog
    <2> QED BY <1>2, <1>3, <2>1 DEF Environment, Lose, vars
  <1>5. ASSUME NEW s \in Node, NEW d \in Node, Lose(s, d), NEW a \in Node, NEW b \in Node
        PROVE  Passed(CalmMessage, chan'[a][b], chan[a][b])
    <2>1. CalmMessage \in SUBSET Message
      BY DEF CalmMessage
    <2> QED BY <1>5, <2>1, LostPasses
  <1>6. chan' = chan => \A a, b \in Node : Passed(CalmMessage, chan'[a][b], chan[a][b])
    BY <1>1, PassedSame
  <1>7. \A a, b \in Node : Passed(CalmMessage, chan'[a][b], chan[a][b])
    BY <1>5, <1>6 DEF Environment, client_request, pause, un_pause, vars
  <1> QED BY <1>4, <1>7 DEF CalmStep

\* The kinds of steps, as the logs see them.
LEMMA LogKinds ==
    ASSUME RaftInv, [Next]_vars
    PROVE  \/ CalmStep
           \/ \E n, s \in Node : Wins(n, s)
           \/ \E n, s \in Node : FollowerAppendEntries(n, s)
           \/ \E n, s \in Node : LeaderAcknowledge(n, s) \/ LeaderClientRequest(n, s)
                                    \/ LeaderIgnore(n, s)
           \/ \E n \in Node : LeaderServeClient(n)
           \/ \E n, d \in Node : LeaderResend(n, d)
  BY CalmFollower, CalmElection, CalmTimer, CalmEnvironment DEF Next, Receive, Environment

-----------------------------------------------------------------------------
(* What each kind of step keeps.                                           *)

\* Who is elected, at every step of the first election.
VotesKept ==
    \A p \in Node :
        /\ Elected(p) => Elected(p)'
        /\ node'[p].loop = "candidate" => node'[p].voted_for # Nobody

\* Unless somebody wins, only a leader leads.
NobodyWins == \A p \in Node : node'[p].loop = "leader" => node[p].loop = "leader"

\* A step of the first election leaves its leaders in the term of it.
LEMMA LeaderTerm ==
    ASSUME ElectionInv', First', NEW n \in Node, node'[n].loop = "leader"
    PROVE  node'[n].current_term = 2
  <1>1. VotingInv' /\ TermInv'
    BY DEF ElectionInv
  <1>2. node'[n].current_term \in Nat
    BY <1>1 DEF VotingInv, RaftInv, TypeOK, NodeState
  <1> QED BY <1>1, <1>2 DEF First, TermInv, Stands

\* At most one node is elected,
LEMMA OneElected == ElectionInv => \A p, q \in Node : Elected(p) /\ Elected(q) => p = q
  BY OneMajority DEF Elected

\* after a step as well.
LEMMA OneElectedNext == ElectionInv' => (\A p, q \in Node : Elected(p) /\ Elected(q) => p = q)'
  BY OneElected, PTL

\* The first message of a channel is one of its messages.
LEMMA GetsFirst ==
    ASSUME RaftInv, NEW n \in Node, NEW s \in Node, NEW type, Gets(n, s, type)
    PROVE  /\ chan[s][n] \in Seq(Message) /\ chan[s][n] # <<>>
           /\ 1 \in DOMAIN chan[s][n] /\ chan[s][n][1] = Head(chan[s][n])
           /\ Head(chan[s][n]) \in Message /\ Head(chan[s][n]).type = type
  <1>1. /\ chan[s][n] \in Seq(Message) /\ chan[s][n] # <<>> /\ Head(chan[s][n]) \in Message
        /\ Head(chan[s][n]).type = type
    BY GetsMessage DEF RaftInv
  <1> QED BY <1>1, TakenFirst

\* Who gets a message about logs gets it from, or as, a node that has led.
LEMMA GetsCredit ==
    ASSUME RaftInv, LedInv, NEW n \in Node, NEW s \in Node, NEW type, Gets(n, s, type)
    PROVE  /\ type \in {"AppendEntries", "Committal"} => Led(s)
           /\ type = "Acknowledge" => Led(n)
  <1>1. /\ 1 \in DOMAIN chan[s][n] /\ chan[s][n][1].type = type
    BY GetsFirst
  <1> QED BY <1>1 DEF LedInv, Credit

\* What has to be shown of a step that makes no new leader.
LEMMA LedKept ==
    ASSUME RaftInv, LedInv, VotesKept, NobodyWins,
           \A p \in Node :
               /\ node'[p].log[1] = node[p].log[1]
               /\ Len(node[p].log) > 1 => Len(node'[p].log) > 1
               /\ Len(node'[p].log) > 1 \/ node'[p].commit_index # 0 =>
                     \/ Len(node[p].log) > 1 \/ node[p].commit_index # 0
                     \/ \E q \in Node : Led(q),
           \A a, b \in Node : \A i \in DOMAIN chan'[a][b] :
               \/ \E j \in DOMAIN chan[a][b] : chan[a][b][j] = chan'[a][b][i]
               \/ Credit(chan'[a][b][i], a, b)
    PROVE  LedInv'
  <1>1. \A p \in Node : Led(p) => Led(p)'
    BY DEF Led, VotesKept
  <1>2. ASSUME NEW d \in Node
        PROVE  /\ node'[d].log[1] = InitEntry
               /\ Len(node'[d].log) > 1 \/ node'[d].commit_index # 0 => \E p \in Node : Led(p)'
               /\ node'[d].loop = "leader" => Led(d)'
               /\ node'[d].loop = "candidate" => node'[d].voted_for # Nobody
    BY <1>1 DEF LedInv, VotesKept, NobodyWins
  <1>3. ASSUME NEW a \in Node, NEW b \in Node, NEW i \in DOMAIN chan'[a][b]
        PROVE  /\ chan'[a][b][i].type \in {"AppendEntries", "Committal"} => Led(a)'
               /\ chan'[a][b][i].type = "Acknowledge" => Led(b)'
    BY <1>1 DEF LedInv, Credit
  <1> QED BY <1>2, <1>3 DEF LedInv, Credit

\* Calm steps keep what is known of the logs.
LEMMA CalmKept ==
    ASSUME ElectionInv, ElectionInv', First, First', LedInv, TrackInv, VotesKept, NobodyWins,
           CalmStep
    PROVE  LedInv' /\ TrackInv'
  <1>1. RaftInv /\ RaftInv'
    BY DEF ElectionInv, VotingInv
  <1>2. ASSUME NEW p \in Node, node'[p].commit_index # node[p].commit_index
        PROVE  /\ node[p].loop = "follower"
               /\ \E s \in Node : /\ Led(s) /\ Gets(p, s, "Committal")
                                  /\ Head(chan[s][p]).prev_log_index = node'[p].commit_index
    BY <1>1, <1>2, GetsCredit DEF CalmStep, Told
  <1>3. ASSUME NEW a \in Node, NEW b \in Node
        PROVE  /\ chan[a][b] \in Seq(Message) /\ chan'[a][b] \in Seq(Message)
               /\ Passed(CalmMessage, chan'[a][b], chan[a][b])
    BY <1>1 DEF CalmStep, RaftInv, TypeOK
  <1>4. LedInv'
    <2>1. ASSUME NEW a \in Node, NEW b \in Node, NEW i \in DOMAIN chan'[a][b]
          PROVE  \/ \E j \in DOMAIN chan[a][b] : chan[a][b][j] = chan'[a][b][i]
                 \/ Credit(chan'[a][b][i], a, b)
      BY <1>3, CalmPassed DEF Credit, LogType
    <2> QED BY <1>1, <1>2, <2>1, LedKept DEF CalmStep, SameLog
  <1>5. ASSUME NEW n \in Node, node'[n].loop = "leader"
        PROVE  /\ node'[n].commit_index < Len(node'[n].log)
               /\ \A d \in Node \ {n} :
                     Tracks(node'[n], d, node'[d], chan'[n][d], chan'[d][n])
    <2>1. node[n].loop = "leader"
      BY <1>5 DEF NobodyWins
    <2>2. Led(n)
      BY <2>1 DEF LedInv
    <2>3. node'[n].commit_index = node[n].commit_index /\ SameLog(node'[n], node[n])
      BY <1>2, <2>1 DEF CalmStep
    <2>4. node'[n].current_term = node[n].current_term
      BY <1>5, <2>1, LeaderTerm, FirstMajority
    <2>5. ASSUME NEW d \in Node \ {n}
          PROVE  Tracks(node'[n], d, node'[d], chan'[n][d], chan'[d][n])
      <3>1. Tracks(node[n], d, node[d], chan[n][d], chan[d][n])
        BY <2>1 DEF TrackInv
      <3>2. /\ node[n].commit_index < Len(node[d].log) /\ node[d].commit_index < Len(node[d].log)
            /\ \A i \in DOMAIN chan[n][d] : chan[n][d][i].type = "Committal" =>
                  chan[n][d][i].prev_log_index < Len(node[d].log)
        BY <3>1 DEF Tracks
      <3>3. node'[d].commit_index < Len(node[d].log)
        <4>1. CASE node'[d].commit_index = node[d].commit_index
          BY <3>2, <4>1
        <4>2. CASE node'[d].commit_index # node[d].commit_index
          <5>1. PICK s \in Node :
                    /\ Led(s) /\ Gets(d, s, "Committal")
                    /\ Head(chan[s][d]).prev_log_index = node'[d].commit_index
            BY <1>2, <4>2
          <5>2. s = n
            BY <2>2, <5>1, OneMajority DEF Led, Elected
          <5>3. /\ 1 \in DOMAIN chan[n][d] /\ chan[n][d][1].type = "Committal"
                /\ chan[n][d][1].prev_log_index = node'[d].commit_index
            BY <1>1, <5>1, <5>2, GetsFirst
          <5> QED BY <3>2, <5>3
        <4> QED BY <4>1, <4>2
      <3>4. SameLog(node'[d], node[d])
        BY DEF CalmStep
      <3> QED BY <1>3, <2>3, <2>4, <3>1, <3>2, <3>3, <3>4, TracksCalm DEF SameLog
    <2>6. node'[n].commit_index < Len(node'[n].log)
      BY <2>1, <2>3 DEF TrackInv, SameLog
    <2> QED BY <2>5, <2>6
  <1> QED BY <1>4, <1>5 DEF TrackInv

\* A leader knows as much when it and a node look at their roles.
LEMMA TracksChecked ==
    ASSUME NEW self, NEW new, NEW d, NEW peer, NEW other,
           NEW q \in Seq(Message), NEW back \in Seq(Message),
           Tracks(self, d, peer, q, back),
           SameLog(new, self), new.commit_index = self.commit_index,
           new.current_term = self.current_term,
           SameLog(other, peer), other.commit_index = peer.commit_index
    PROVE  Tracks(new, d, other, q, back)
  <1>1. Passed(CalmMessage, q, q) /\ Passed(CalmMessage, back, back)
    BY PassedSame
  <1>2. self.commit_index < Len(peer.log) /\ peer.commit_index < Len(peer.log)
    BY DEF Tracks
  <1> QED BY <1>1, <1>2, TracksCalm DEF SameLog

\* A follower that is sent an entry answers a node that has led, and keeps the
\* first entry.
LEMMA AnswerKept ==
    ASSUME RaftInv, LedInv, VotesKept, NobodyWins, NEW n \in Node, NEW s \in Node,
           Gets(n, s, "AppendEntries"), NEW self, Logged(self),
           self.log[1] = node[n].log[1], Len(node[n].log) > 1 => Len(self.log) > 1,
           NEW ok \in BOOLEAN, Handle(n, s, self, SendTo(s, Acknowledge(ok)))
    PROVE  LedInv'
  <1>1. Led(s)
    BY GetsCredit
  <1>2. \A p \in Node : /\ p # n => node'[p] = node[p]
                        /\ node'[n].log = self.log
    BY ChangedLog DEF Handle, SameLog
  <1>3. PICK ack \in Message : ack = Acknowledge(ok) /\ ack.type = "Acknowledge"
    <2>1. Acknowledge(ok) \in Message
      BY MessageTypes DEF PlainMessage
    <2> QED BY <2>1 DEF Acknowledge
  <1>4. ASSUME NEW a \in Node, NEW b \in Node, NEW i \in DOMAIN chan'[a][b]
        PROVE  \/ \E j \in DOMAIN chan[a][b] : chan[a][b][j] = chan'[a][b][i]
               \/ Credit(chan'[a][b][i], a, b)
    <2>1. PICK S \in SUBSET Message : S = IF a = n /\ b = s THEN {ack} ELSE {}
      BY <1>3
    <2>2. PICK more \in Seq(S) : more = IF a = n THEN SendTo(s, Acknowledge(ok))[b] ELSE <<>>
      <3>1. CASE a = n /\ b = s
        <4>1. <<ack>> \in Seq({ack})
          OBVIOUS
        <4> QED BY <1>3, <2>1, <3>1, <4>1 DEF SendTo
      <3>2. CASE ~ (a = n /\ b = s)
        BY <2>1, <3>2, EmptySeq DEF SendTo
      <3> QED BY <3>1, <3>2
    <2>3. PICK left \in Seq(Message) :
             /\ chan[a][b] \in Seq(Message)
             /\ left = chan[a][b] \/ (chan[a][b] # <<>> /\ left = Tail(chan[a][b]))
             /\ chan'[a][b] = left \o (IF a = n THEN SendTo(s, Acknowledge(ok))[b] ELSE <<>>)
      <3>1. Moved(n, s, SendTo(s, Acknowledge(ok)), a, b)
        BY HandledChannel
      <3> QED BY <3>1, Zenon DEF Moved
    <2>4. Passed(S, chan'[a][b], chan[a][b])
      BY <2>2, <2>3, PassedConcat
    <2>5. chan'[a][b][i] \in S \/ \E j \in DOMAIN chan[a][b] : chan[a][b][j] = chan'[a][b][i]
      BY <2>4 DEF Passed
    <2> QED BY <1>1, <1>3, <2>1, <2>5 DEF Credit
  <1> QED BY <1>1, <1>2, <1>4, LedKept

\* An entry is accepted from the leader, and its log then reaches further.
LEMMA AcceptKept ==
    ASSUME ElectionInv, First, LedInv, TrackInv, VotesKept, NobodyWins,
           NEW n \in Node, NEW s \in Node, FollowerAppendEntries(n, s)
    PROVE  LedInv' /\ TrackInv'
  <1>1. RaftInv
    BY DEF ElectionInv, VotingInv
  <1>2. PICK m \in Message :
            /\ m = Head(chan[s][n]) /\ m.type = "AppendEntries"
            /\ m.prev_log_index \in Nat /\ m.entries \in Entry /\ m.leader_commit \in Nat
    BY <1>1, GetsMessage, MessageFields DEF FollowerAppendEntries, RaftInv
  <1>3. PICK ok \in BOOLEAN : ok = (/\ m.term >= node[n].current_term
                                    /\ verify_entry(node[n], m.prev_log_index, m.prev_log_term))
    OBVIOUS
  <1>4. PICK commit \in BOOLEAN : commit = (m.leader_commit > node[n].commit_index)
    <2>1. (m.leader_commit > node[n].commit_index) \in BOOLEAN
      OBVIOUS
    <2> QED BY <2>1, Zenon
  <1>5. PICK self : self = IF ok THEN append_entry(node[n], m.entries, commit, m.prev_log_index)
                           ELSE node[n]
    OBVIOUS
  <1>6. /\ Gets(n, s, "AppendEntries") /\ Handle(n, s, self, SendTo(s, Acknowledge(ok)))
        /\ node[n].loop = "follower"
    BY <1>2, <1>3, <1>4, <1>5 DEF FollowerAppendEntries
  <1>7. /\ Logged(self) /\ self.log[1] = node[n].log[1]
        /\ Len(node[n].log) > 1 => Len(self.log) > 1
    <2>1. Logged(node[n])
      BY <1>1 DEF RaftInv, LogInv
    <2>2. CASE ok
      <3>1. m.prev_log_index < Len(node[n].log)
        BY <1>3, <2>2 DEF verify_entry
      <3>2. PICK new : new = append_entry(node[n], m.entries, commit, m.prev_log_index)
        OBVIOUS
      <3>3. /\ Logged(new) /\ Len(new.log) = m.prev_log_index + 2
            /\ \A i \in 1 .. m.prev_log_index + 1 : new.log[i] = node[n].log[i]
        BY <1>2, <2>1, <3>1, <3>2, AppendChanges
      <3>4. self = new
        BY <1>5, <2>2, <3>2
      <3>5. 1 \in 1 .. m.prev_log_index + 1 /\ m.prev_log_index + 2 > 1
        BY <1>2
      <3> QED BY <3>3, <3>4, <3>5
    <2>3. CASE ~ ok
      BY <1>5, <2>1, <2>3
    <2> QED BY <2>2, <2>3
  <1>8. LedInv'
    BY <1>1, <1>6, <1>7, AnswerKept
  <1>9. ASSUME NEW p \in Node, node'[p].loop = "leader"
        PROVE  /\ node'[p].commit_index < Len(node'[p].log)
               /\ \A d \in Node \ {p} :
                     Tracks(node'[p], d, node'[d], chan'[p][d], chan'[d][p])
    <2>1. node[p].loop = "leader" /\ p # n
      BY <1>6, <1>9 DEF NobodyWins
    <2>2. Led(p) /\ Led(s)
      BY <1>1, <1>6, <2>1, GetsCredit DEF LedInv
    <2>3. p = s
      BY <2>2, OneElected DEF Led
    <2>4. /\ \A d \in Node : d # n => node'[d] = node[d]
          /\ SameLog(node'[n], self) /\ node'[n].commit_index = self.commit_index
      BY <1>1, <1>6, <1>7, ChangedLog DEF Handle
    <2>5. \A a, b \in Node : chan[a][b] \in Seq(Message)
      BY <1>1 DEF RaftInv, TypeOK
    <2>6. ASSUME NEW d \in Node \ {p}, d # n
          PROVE  Tracks(node'[p], d, node'[d], chan'[p][d], chan'[d][p])
      <3>1. chan'[p][d] = chan[p][d] \o <<>> /\ chan'[d][p] = chan[d][p] \o <<>>
        BY <1>6, <2>1, <2>3, <2>6 DEF Handle
      <3>2. chan'[p][d] = chan[p][d] /\ chan'[d][p] = chan[d][p]
        BY <2>5, <3>1, ConcatEmptySeq
      <3> QED BY <2>1, <2>4, <2>6, <3>2 DEF TrackInv
    <2>7. Tracks(node'[p], n, node'[n], chan'[p][n], chan'[n][p])
      <3>1. /\ Logged(node[p]) /\ Logged(node[n])
            /\ node[p].next_index[n] \in {UpToDate} \cup 1 .. log_max_index(node[p])
        BY <1>1, <2>1 DEF RaftInv, LogInv, LeaderInv, Leads
      <3>2. node[n].current_term <= node[p].current_term
        BY <2>1, FirstMajority DEF First
      <3>3. PICK q \in Seq(Message) : q = chan[p][n] /\ q # <<>> /\ Tail(q) \in Seq(Message)
        BY <1>1, <1>6, <2>3, GetsMessage DEF RaftInv
      <3>4. PICK back \in Seq(Message) : back = chan[n][p]
        BY <2>5
      <3>5. Tracks(node[p], n, node[n], q, back)
        BY <2>1, <3>3, <3>4 DEF TrackInv
      <3>6. PICK new : new = append_entry(node[n], m.entries, commit, m.prev_log_index)
        OBVIOUS
      <3>7. /\ m.term >= node[n].current_term
            /\ verify_entry(node[n], m.prev_log_index, m.prev_log_term)
            /\ Tracks(node[p], n, new, Tail(q), back \o <<Acknowledge(TRUE)>>)
        BY <1>2, <2>3, <3>1, <3>2, <3>3, <3>5, <3>6, TracksAccepted
      <3>8. ok = TRUE /\ self = new
        BY <1>3, <1>5, <3>6, <3>7
      <3>9. PICK answers \in Seq(Message) : answers = back \o <<Acknowledge(TRUE)>>
        <4>1. PICK ack \in Message : ack = Acknowledge(TRUE)
          BY <3>1, MessageTypes DEF PlainMessage
        <4> QED BY <4>1, AddedLast
      <3>10. Tracks(node'[p], n, node'[n], Tail(q), answers)
        <4>1. node'[p] = node[p] /\ SameLog(node[p], node[p])
          BY <2>1, <2>4 DEF SameLog
        <4> QED BY <2>4, <3>3, <3>7, <3>8, <3>9, <4>1, TracksChecked
      <3>11. chan'[n][p] = answers
        BY <1>6, <2>1, <2>3, <3>4, <3>8, <3>9 DEF Handle, SendTo
      <3>12. chan'[p][n] = Tail(q) \o <<>> /\ Tail(q) \o <<>> = Tail(q)
        BY <1>6, <2>1, <2>3, <3>3, ConcatEmptySeq DEF Handle
      <3> QED BY <3>10, <3>11, <3>12
    <2>8. node'[p].commit_index < Len(node'[p].log)
      BY <2>1, <2>4 DEF TrackInv
    <2> QED BY <2>6, <2>7, <2>8
  <1> QED BY <1>8, <1>9 DEF TrackInv

-----------------------------------------------------------------------------
(* The steps of the leader.                                                *)

\* What a leader sends: it answers nobody.
LeaderMessage == {m \in Message : m.type # "Acknowledge"}

\* A broadcast, the entries of its clients and what a new leader sends are such
\* messages.
LEMMA LeaderSends ==
    ASSUME NEW self, Logged(self)
    PROVE  /\ \A entry \in Entry : broadcast_append_messages(self, entry) \in Sending(LeaderMessage)
           /\ serve_client_messages(self) \in Sending(LeaderMessage)
           /\ Committal(self) \in LeaderMessage /\ Heartbeat(self) \in LeaderMessage
           /\ \A i \in 1 .. log_max_index(self) : Resend(self, i) \in LeaderMessage
  <1>1. ASSUME NEW entry \in Entry
        PROVE  broadcast_append_messages(self, entry) \in Sending(LeaderMessage)
    <2>1. PICK i \in Nat : i = log_max_index(self)
      BY LogSize
    <2>2. At(self, i).term \in Nat
      BY <2>1, EntryAt
    <2>3. PICK m \in LeaderMessage : m = AppendEntries(self, i, At(self, i).term, entry)
      BY <2>1, <2>2, MessageTypes DEF LeaderMessage, PlainMessage, AppendEntries
    <2>4. <<m>> \in Seq(LeaderMessage) /\ <<>> \in Seq(LeaderMessage)
      OBVIOUS
    <2> QED BY <2>1, <2>3, <2>4 DEF broadcast_append_messages, Sending
  <1>2. serve_client_messages(self) \in Sending(LeaderMessage)
    <2>1. CASE self.client_queue = <<>>
      BY <2>1, SendingType DEF serve_client_messages
    <2>2. CASE self.client_queue # <<>>
      <3>1. Head(self.client_queue) \in Entry
        BY <2>2, HeadTailProperties DEF Logged, NodeState
      <3> QED BY <1>1, <2>2, <3>1 DEF serve_client_messages
    <2> QED BY <2>1, <2>2
  <1>3. Committal(self) \in LeaderMessage
    BY MessageTypes DEF Committal, LeaderMessage, PlainMessage
  <1>4. Heartbeat(self) \in LeaderMessage
    BY MessageTypes DEF Heartbeat, LeaderMessage, PlainMessage
  <1>5. \A i \in 1 .. log_max_index(self) : Resend(self, i) \in LeaderMessage
    BY ResendCarries DEF LeaderMessage
  <1> QED BY <1>1, <1>2, <1>3, <1>4, <1>5

\* What has to be shown of a step of a leader.
LEMMA LeaderKept ==
    ASSUME ElectionInv, LedInv, VotesKept, NobodyWins,
           NEW n \in Node, node[n].loop = "leader", NEW self, Logged(self),
           node' = [node EXCEPT ![n] = CheckRole(self)],
           self.log[1] = node[n].log[1], Len(self.log) >= Len(node[n].log),
           self.commit_index < Len(self.log),
           \A a, b \in Node : \A i \in DOMAIN chan'[a][b] :
               \/ \E j \in DOMAIN chan[a][b] : chan[a][b][j] = chan'[a][b][i]
               \/ a = n /\ chan'[a][b][i] \in LeaderMessage,
           \A d \in Node \ {n} : /\ chan'[n][d] \in Seq(Message) /\ chan'[d][n] \in Seq(Message)
                                 /\ Tracks(self, d, node[d], chan'[n][d], chan'[d][n])
    PROVE  LedInv' /\ TrackInv'
  <1>1. RaftInv /\ Led(n)
    BY DEF ElectionInv, VotingInv, LedInv
  <1>2. /\ \A p \in Node : p # n => node'[p] = node[p]
        /\ SameLog(node'[n], self) /\ node'[n].commit_index = self.commit_index
        /\ node'[n].current_term = self.current_term
    BY <1>1, ChangedLog
  <1>3. Len(self.log) > 1
    <2>1. Len(self.log) \in Nat /\ Len(node[n].log) \in Nat
      BY <1>1, LogSize DEF RaftInv, LogInv
    <2> QED BY <1>1, <2>1 DEF Led
  <1>4. LedInv'
    <2>1. ASSUME NEW a \in Node, NEW b \in Node, NEW i \in DOMAIN chan'[a][b]
          PROVE  \/ \E j \in DOMAIN chan[a][b] : chan[a][b][j] = chan'[a][b][i]
                 \/ Credit(chan'[a][b][i], a, b)
      BY <1>1 DEF Credit, LeaderMessage
    <2>2. \A p \in Node : /\ node'[p].log[1] = node[p].log[1]
                          /\ Len(node[p].log) > 1 => Len(node'[p].log) > 1
      BY <1>2, <1>3 DEF SameLog
    <2> QED BY <1>1, <2>1, <2>2, LedKept
  <1>5. ASSUME NEW p \in Node, node'[p].loop = "leader"
        PROVE  p = n
    BY <1>1, <1>5, OneElected DEF NobodyWins, LedInv, Led
  <1>6. node'[n].commit_index < Len(node'[n].log)
    BY <1>2 DEF SameLog
  <1>7. ASSUME NEW d \in Node \ {n}
        PROVE  Tracks(node'[n], d, node'[d], chan'[n][d], chan'[d][n])
    <2>1. node'[d] = node[d] /\ SameLog(node[d], node[d])
      BY <1>2 DEF SameLog
    <2> QED BY <1>2, <2>1, TracksChecked
  <1> QED BY <1>4, <1>5, <1>6, <1>7 DEF TrackInv

\* The same of an iteration that handles a message,
LEMMA LeaderHandled ==
    ASSUME ElectionInv, LedInv, VotesKept, NobodyWins,
           NEW n \in Node, node[n].loop = "leader", NEW s \in Node, NEW type, Gets(n, s, type),
           NEW self, Logged(self), NEW out \in Sending(LeaderMessage), Handle(n, s, self, out),
           self.log[1] = node[n].log[1], Len(self.log) >= Len(node[n].log),
           self.commit_index < Len(self.log),
           \A d \in Node \ {n} :
               Tracks(self, d, node[d], chan[n][d] \o out[d],
                      IF d = s THEN Tail(chan[d][n]) ELSE chan[d][n])
    PROVE  LedInv' /\ TrackInv'
  <1>1. RaftInv
    BY DEF ElectionInv, VotingInv
  <1>2. LeaderMessage \in SUBSET Message /\ \A d \in Node : out[d] \in Seq(LeaderMessage)
    BY DEF LeaderMessage, Sending
  <1>3. ASSUME NEW a \in Node, NEW b \in Node, NEW i \in DOMAIN chan'[a][b]
        PROVE  \/ \E j \in DOMAIN chan[a][b] : chan[a][b][j] = chan'[a][b][i]
               \/ a = n /\ chan'[a][b][i] \in LeaderMessage
    <2>1. PICK S \in SUBSET Message : S = IF a = n THEN LeaderMessage ELSE {}
      BY <1>2
    <2>2. PICK more \in Seq(S) : more = IF a = n THEN out[b] ELSE <<>>
      BY <1>2, <2>1, EmptySeq
    <2>3. PICK left \in Seq(Message) :
             /\ chan[a][b] \in Seq(Message)
             /\ left = chan[a][b] \/ (chan[a][b] # <<>> /\ left = Tail(chan[a][b]))
             /\ chan'[a][b] = left \o (IF a = n THEN out[b] ELSE <<>>)
      <3>1. Moved(n, s, out, a, b)
        BY <1>1, HandledChannel
      <3> QED BY <3>1, Zenon DEF Moved
    <2>4. Passed(S, chan'[a][b], chan[a][b])
      BY <2>2, <2>3, PassedConcat
    <2>5. chan'[a][b][i] \in S \/ \E j \in DOMAIN chan[a][b] : chan[a][b][j] = chan'[a][b][i]
      BY <2>4 DEF Passed
    <2> QED BY <2>1, <2>5
  <1>4. ASSUME NEW d \in Node \ {n}
        PROVE  /\ chan'[n][d] \in Seq(Message) /\ chan'[d][n] \in Seq(Message)
               /\ Tracks(self, d, node[d], chan'[n][d], chan'[d][n])
    <2>1. chan'[n][d] = chan[n][d] \o out[d]
      BY DEF Handle
    <2>2. PICK back \in Seq(Message) : back = IF d = s THEN Tail(chan[d][n]) ELSE chan[d][n]
      <3>1. Tail(chan[s][n]) \in Seq(Message)
        BY <1>1, GetsMessage DEF RaftInv
      <3>2. chan[d][n] \in Seq(Message)
        BY <1>1 DEF RaftInv, TypeOK
      <3> QED BY <3>1, <3>2
    <2>3. chan'[d][n] = back \o <<>>
      BY <2>2 DEF Handle
    <2>4. chan'[d][n] = back
      BY <2>2, <2>3, ConcatEmptySeq
    <2>5. chan[n][d] \in Seq(Message) /\ out[d] \in Seq(Message)
      BY <1>1, <1>2, SeqMonotonic DEF RaftInv, TypeOK
    <2>6. chan'[n][d] \in Seq(Message)
      BY <2>1, <2>5, ConcatProperties
    <2> QED BY <2>1, <2>2, <2>4, <2>6
  <1> QED BY <1>3, <1>4, LeaderKept DEF Handle

\* and of one that handles none.
LEMMA LeaderActed ==
    ASSUME ElectionInv, LedInv, VotesKept, NobodyWins,
           NEW n \in Node, node[n].loop = "leader",
           NEW self, Logged(self), NEW out \in Sending(LeaderMessage), Act(n, self, out),
           self.log[1] = node[n].log[1], Len(self.log) >= Len(node[n].log),
           self.commit_index < Len(self.log),
           \A d \in Node \ {n} : Tracks(self, d, node[d], chan[n][d] \o out[d], chan[d][n])
    PROVE  LedInv' /\ TrackInv'
  <1>1. RaftInv
    BY DEF ElectionInv, VotingInv
  <1>2. LeaderMessage \in SUBSET Message /\ \A d \in Node : out[d] \in Seq(LeaderMessage)
    BY DEF LeaderMessage, Sending
  <1>3. \A a, b \in Node : chan'[a][b] = IF a = n THEN chan[n][b] \o out[b] ELSE chan[a][b]
    BY <1>1 DEF Act, RaftInv, TypeOK
  <1>4. \A a, b \in Node : chan[a][b] \in Seq(Message)
    BY <1>1 DEF RaftInv, TypeOK
  <1>5. ASSUME NEW a \in Node, NEW b \in Node, NEW i \in DOMAIN chan'[a][b]
        PROVE  \/ \E j \in DOMAIN chan[a][b] : chan[a][b][j] = chan'[a][b][i]
               \/ a = n /\ chan'[a][b][i] \in LeaderMessage
    <2>1. CASE a = n
      <3>1. Passed(LeaderMessage, chan'[a][b], chan[a][b])
        <4>1. chan'[a][b] = chan[a][b] \o out[b]
          BY <1>3, <2>1
        <4>2. Passed(LeaderMessage, chan[a][b] \o out[b], chan[a][b])
          BY <1>2, <1>4, PassedConcat, ZenonT(60)
        <4> QED BY <4>1, <4>2, Zenon
      <3> QED BY <2>1, <3>1 DEF Passed
    <2>2. CASE a # n
      BY <1>3, <2>2
    <2> QED BY <2>1, <2>2
  <1>6. ASSUME NEW d \in Node \ {n}
        PROVE  /\ chan'[n][d] \in Seq(Message) /\ chan'[d][n] \in Seq(Message)
               /\ Tracks(self, d, node[d], chan'[n][d], chan'[d][n])
    <2>1. chan'[n][d] = chan[n][d] \o out[d] /\ chan'[d][n] = chan[d][n]
      BY <1>3
    <2>2. out[d] \in Seq(Message)
      BY <1>2, SeqMonotonic
    <2> QED BY <1>4, <2>1, <2>2, ConcatProperties
  <1> QED BY <1>5, <1>6, LeaderKept DEF Act

\* The head of a log does not change when it grows.
LEMMA GrownLog ==
    ASSUME NEW self, Logged(self), NEW n \in Node, NEW entry \in Entry,
           NEW new, new = broadcast_append_entries(self, n, entry)
    PROVE  /\ Logged(new) /\ new.log[1] = self.log[1]
           /\ Len(new.log) = Len(self.log) + 1 /\ new.commit_index = self.commit_index
  <1>1. new.log = Append(self.log, entry) /\ Logged(new) /\ new.commit_index = self.commit_index
    BY BroadcastChanges
  <1>2. self.log \in Seq(Entry) /\ Len(self.log) \in Nat /\ Len(self.log) > 0
    BY LogSize DEF Logged, NodeState
  <1>3. 1 \in 1 .. Len(self.log)
    BY <1>2
  <1> QED BY <1>1, <1>2, <1>3, LongerLog

\* Serving the clients makes the log no shorter.
LEMMA ServedLog ==
    ASSUME NEW self, Logged(self), NEW n \in Node, NEW new, new = serve_client(self, n)
    PROVE  /\ Logged(new) /\ new.log[1] = self.log[1] /\ Len(new.log) >= Len(self.log)
           /\ new.commit_index = self.commit_index
  <1>1. Len(self.log) \in Nat
    BY LogSize
  <1>2. CASE self.client_queue = <<>>
    BY <1>1, <1>2 DEF serve_client
  <1>3. CASE self.client_queue # <<>>
    <2>1. PICK entry \in Entry : entry = Head(self.client_queue)
      BY <1>3, HeadTailProperties DEF Logged, NodeState
    <2>2. PICK rest \in Seq(Entry) : rest = Tail(self.client_queue)
      BY <1>3, HeadTailProperties DEF Logged, NodeState
    <2>3. PICK served : served = [self EXCEPT !.client_queue = rest]
      OBVIOUS
    <2>4. Logged(served) /\ served.log = self.log /\ served.commit_index = self.commit_index
      BY <2>3 DEF Logged, NodeState
    <2>5. new = broadcast_append_entries(served, n, entry)
      BY <1>3, <2>1, <2>2, <2>3 DEF serve_client
    <2>6. /\ Logged(new) /\ new.log[1] = served.log[1]
          /\ Len(new.log) = Len(served.log) + 1 /\ new.commit_index = served.commit_index
      BY <2>4, <2>5, GrownLog, ZenonT(60)
    <2> QED BY <1>1, <2>4, <2>6
  <1> QED BY <1>2, <1>3

\* An iteration of _leader that ends with its clients.
LEMMA LeaderTurned ==
    ASSUME ElectionInv, LedInv, VotesKept, NobodyWins,
           NEW n \in Node, node[n].loop = "leader", NEW s \in Node, NEW type, Gets(n, s, type),
           NEW self, Logged(self), Leads(self, n),
           NEW out \in Sending(LeaderMessage), LeaderTurn(n, s, self, out),
           self.log[1] = node[n].log[1], Len(self.log) >= Len(node[n].log),
           self.commit_index < Len(self.log),
           \A d \in Node \ {n} :
               Tracks(self, d, node[d], chan[n][d] \o out[d],
                      IF d = s THEN Tail(chan[d][n]) ELSE chan[d][n])
    PROVE  LedInv' /\ TrackInv'
  <1>1. RaftInv
    BY DEF ElectionInv, VotingInv
  <1>2. PICK new : new = serve_client(self, n)
    OBVIOUS
  <1>3. PICK more \in Sending(LeaderMessage) : more = serve_client_messages(self)
    BY LeaderSends
  <1>4. Handle(n, s, new, Then(out, more)) /\ Then(out, more) \in Sending(LeaderMessage)
    BY <1>2, <1>3, ThenType DEF LeaderTurn
  <1>5. /\ Logged(new) /\ new.log[1] = self.log[1] /\ Len(new.log) >= Len(self.log)
        /\ new.commit_index = self.commit_index
    BY <1>2, ServedLog
  <1>6. Len(new.log) \in Nat /\ Len(self.log) \in Nat /\ Len(node[n].log) \in Nat
    <2>1. Logged(node[n]) /\ Logged(self) /\ Logged(new)
      BY <1>1, <1>5 DEF RaftInv, LogInv
    <2> QED BY <2>1, LogSize
  <1>7. self.commit_index \in Nat
    BY DEF Logged, NodeState
  <1>8. Len(new.log) >= Len(node[n].log) /\ new.commit_index < Len(new.log)
    BY <1>5, <1>6, <1>7
  <1>9. ASSUME NEW d \in Node \ {n}
        PROVE  Tracks(new, d, node[d], chan[n][d] \o Then(out, more)[d],
                      IF d = s THEN Tail(chan[d][n]) ELSE chan[d][n])
    <2>1. PICK back \in Seq(Message) : back = IF d = s THEN Tail(chan[d][n]) ELSE chan[d][n]
      <3>1. Tail(chan[s][n]) \in Seq(Message)
        BY <1>1, GetsMessage DEF RaftInv
      <3>2. chan[d][n] \in Seq(Message)
        BY <1>1 DEF RaftInv, TypeOK
      <3> QED BY <3>1, <3>2
    <2>2. chan[n][d] \in Seq(Message) /\ out[d] \in Seq(Message) /\ more[d] \in Seq(Message)
      <3>1. LeaderMessage \subseteq Message
        BY DEF LeaderMessage
      <3>2. chan[n][d] \in Seq(Message)
        BY <1>1 DEF RaftInv, TypeOK
      <3>3. out[d] \in Seq(LeaderMessage) /\ more[d] \in Seq(LeaderMessage)
        BY <1>3 DEF Sending
      <3> QED BY <3>1, <3>2, <3>3, SeqMonotonic, SMTT(30)
    <2>3. PICK q \in Seq(Message) : q = chan[n][d] \o out[d]
      BY <2>2, ConcatProperties
    <2>4. chan[n][d] \o Then(out, more)[d] = q \o more[d]
      <3>1. Then(out, more)[d] = out[d] \o more[d]
        BY DEF Then
      <3>2. PICK a \in Seq(Message), b \in Seq(Message), c \in Seq(Message) :
                a = chan[n][d] /\ b = out[d] /\ c = more[d]
        BY <2>2
      <3>3. a \o (b \o c) = (a \o b) \o c
        BY ThreeParts, ZenonT(60)
      <3> QED BY <2>3, <3>1, <3>2, <3>3, Zenon
    <2>5. Logged(node[d]) /\ Tracks(self, d, node[d], q, back)
      BY <1>1, <2>1, <2>3 DEF RaftInv, LogInv
    <2>6. self.next_index[d] \in {UpToDate} \cup 1 .. log_max_index(self)
      BY DEF Leads
    <2>7. Tracks(new, d, node[d], q \o more[d], back)
      BY <1>2, <1>3, <2>5, <2>6, TracksServed
    <2> QED BY <2>1, <2>4, <2>7
  <1> QED BY <1>4, <1>5, <1>8, <1>9, LeaderHandled

\* A leader that takes a message leaves a channel of which it knows as much.
LEMMA TracksTaken ==
    ASSUME ElectionInv, TrackInv, NEW n \in Node, node[n].loop = "leader",
           NEW s \in Node, NEW type, Gets(n, s, type), NEW d \in Node \ {n}
    PROVE  Tracks(node[n], d, node[d], chan[n][d],
                  IF d = s THEN Tail(chan[d][n]) ELSE chan[d][n])
  <1>1. RaftInv
    BY DEF ElectionInv, VotingInv
  <1>2. PICK q \in Seq(Message) : q = chan[n][d]
    BY <1>1 DEF RaftInv, TypeOK
  <1>3. PICK back \in Seq(Message) : back = chan[d][n]
    BY <1>1 DEF RaftInv, TypeOK
  <1>4. d = s => back # <<>> /\ Tail(back) \in Seq(Message)
    BY <1>1, <1>3, GetsMessage DEF RaftInv
  <1>5. PICK left \in Seq(Message) : left = IF d = s THEN Tail(back) ELSE back
    BY <1>3, <1>4
  <1>6. Passed(CalmMessage, left, back)
    <2>1. <<>> \in Seq(CalmMessage) /\ CalmMessage \in SUBSET Message
      BY EmptySeq DEF CalmMessage
    <2>2. Passed(CalmMessage, left \o <<>>, back)
      BY <1>4, <1>5, <2>1, PassedConcat
    <2> QED BY <2>2, ConcatEmptySeq
  <1>7. Passed(CalmMessage, q, q)
    BY PassedSame
  <1>8. Tracks(node[n], d, node[d], q, back)
    BY <1>2, <1>3 DEF TrackInv
  <1>9. node[n].commit_index < Len(node[d].log) /\ node[d].commit_index < Len(node[d].log)
    BY <1>8 DEF Tracks
  <1>10. Tracks(node[n], d, node[d], q, left)
    BY <1>6, <1>7, <1>8, <1>9, TracksCalm
  <1> QED BY <1>2, <1>3, <1>5, <1>10

\* A leader at the head of its loop.
LEMMA LeaderStands ==
    ASSUME ElectionInv, TrackInv, NEW n \in Node, node[n].loop = "leader"
    PROVE  /\ Logged(node[n]) /\ Leads(node[n], n)
           /\ node[n].commit_index < Len(node[n].log) /\ Len(node[n].log) \in Nat
           /\ \A d \in Node : chan[n][d] \in Seq(Message) /\ chan[d][n] \in Seq(Message)
           /\ \A d \in Node \ {n} : Tracks(node[n], d, node[d], chan[n][d], chan[d][n])
  BY LogSize DEF ElectionInv, VotingInv, RaftInv, LogInv, LeaderInv, TypeOK, TrackInv

\* A message that is not for leaders, and an acknowledgement of nothing.
LEMMA IgnoredKept ==
    ASSUME ElectionInv, LedInv, TrackInv, VotesKept, NobodyWins,
           NEW n \in Node, node[n].loop = "leader", NEW s \in Node, NEW type, Gets(n, s, type),
           LeaderTurn(n, s, node[n], Quiet)
    PROVE  LedInv' /\ TrackInv'
  <1>1. /\ Logged(node[n]) /\ Leads(node[n], n)
        /\ node[n].commit_index < Len(node[n].log) /\ Len(node[n].log) \in Nat
        /\ \A d \in Node : chan[n][d] \in Seq(Message)
    BY LeaderStands
  <1>2. Quiet \in Sending(LeaderMessage)
    BY SendingType
  <1>3. ASSUME NEW d \in Node \ {n}
        PROVE  Tracks(node[n], d, node[d], chan[n][d] \o Quiet[d],
                      IF d = s THEN Tail(chan[d][n]) ELSE chan[d][n])
    <2>1. chan[n][d] \o Quiet[d] = chan[n][d]
      BY <1>1, ConcatEmptySeq DEF Quiet
    <2> QED BY <2>1, TracksTaken
  <1> QED BY <1>1, <1>2, <1>3, LeaderTurned

\* A client's request that a node has forwarded.
LEMMA RequestKept ==
    ASSUME ElectionInv, LedInv, TrackInv, VotesKept, NobodyWins,
           NEW n \in Node, NEW s \in Node, LeaderClientRequest(n, s)
    PROVE  LedInv' /\ TrackInv'
  <1>1. node[n].loop = "leader" /\ Gets(n, s, "ClientRequest")
    BY DEF LeaderClientRequest
  <1>2. /\ Logged(node[n]) /\ Leads(node[n], n)
        /\ node[n].commit_index < Len(node[n].log) /\ Len(node[n].log) \in Nat
    BY <1>1, LeaderStands
  <1>3. PICK entry \in Entry : entry = Head(chan[s][n]).entries
    BY <1>1, GetsMessage, MessageFields DEF ElectionInv, VotingInv, RaftInv
  <1>4. PICK self : self = broadcast_append_entries(node[n], n, entry)
    OBVIOUS
  <1>5. PICK out \in Sending(LeaderMessage) : out = broadcast_append_messages(node[n], entry)
    BY <1>2, LeaderSends
  <1>6. LeaderTurn(n, s, self, out)
    BY <1>3, <1>4, <1>5 DEF LeaderClientRequest
  <1>7. /\ Logged(self) /\ self.log[1] = node[n].log[1]
        /\ Len(self.log) = Len(node[n].log) + 1 /\ self.commit_index = node[n].commit_index
    BY <1>2, <1>4, GrownLog
  <1>8. Leads(self, n)
    BY <1>2, <1>4, BroadcastLeads DEF Leads
  <1>9. Len(self.log) >= Len(node[n].log) /\ self.commit_index < Len(self.log)
    <2>1. node[n].commit_index \in Nat
      BY <1>2 DEF Logged, NodeState
    <2> QED BY <1>2, <1>7, <2>1
  <1>10. ASSUME NEW d \in Node \ {n}
         PROVE  Tracks(self, d, node[d], chan[n][d] \o out[d],
                       IF d = s THEN Tail(chan[d][n]) ELSE chan[d][n])
    <2>1. PICK back \in Seq(Message) : back = IF d = s THEN Tail(chan[d][n]) ELSE chan[d][n]
      <3>1. Tail(chan[s][n]) \in Seq(Message) /\ chan[d][n] \in Seq(Message)
        BY <1>1, GetsMessage, LeaderStands DEF ElectionInv, VotingInv, RaftInv
      <3> QED BY <3>1
    <2>2. Logged(node[d]) /\ chan[n][d] \in Seq(Message)
      BY <1>1, LeaderStands DEF ElectionInv, VotingInv, RaftInv, LogInv
    <2>3. Tracks(node[n], d, node[d], chan[n][d], back)
      BY <1>1, <2>1, TracksTaken
    <2>4. node[n].next_index[d] \in {UpToDate} \cup 1 .. log_max_index(node[n])
      BY <1>2 DEF Leads
    <2>5. Tracks(self, d, node[d], chan[n][d] \o out[d], back)
      BY <1>2, <1>4, <1>5, <2>2, <2>3, <2>4, TracksBroadcast
    <2> QED BY <2>1, <2>5
  <1> QED BY <1>1, <1>6, <1>7, <1>8, <1>9, <1>10, LeaderTurned

\* An iteration that serves the clients alone.
LEMMA ServiceKept ==
    ASSUME ElectionInv, LedInv, TrackInv, VotesKept, NobodyWins,
           NEW n \in Node, LeaderServeClient(n)
    PROVE  LedInv' /\ TrackInv'
  <1>1. node[n].loop = "leader"
    BY DEF LeaderServeClient
  <1>2. /\ Logged(node[n]) /\ Leads(node[n], n)
        /\ node[n].commit_index < Len(node[n].log) /\ Len(node[n].log) \in Nat
    BY <1>1, LeaderStands
  <1>3. PICK self : self = serve_client(node[n], n)
    OBVIOUS
  <1>4. PICK out \in Sending(LeaderMessage) : out = serve_client_messages(node[n])
    BY <1>2, LeaderSends
  <1>5. Act(n, self, out)
    BY <1>3, <1>4 DEF LeaderServeClient
  <1>6. /\ Logged(self) /\ self.log[1] = node[n].log[1]
        /\ Len(self.log) >= Len(node[n].log) /\ self.commit_index = node[n].commit_index
    BY <1>2, <1>3, ServedLog
  <1>7. self.commit_index < Len(self.log)
    <2>1. node[n].commit_index \in Nat /\ Len(self.log) \in Nat
      BY <1>2, <1>6, LogSize DEF Logged, NodeState
    <2> QED BY <1>2, <1>6, <2>1
  <1>8. ASSUME NEW d \in Node \ {n}
        PROVE  Tracks(self, d, node[d], chan[n][d] \o out[d], chan[d][n])
    <2>1. Logged(node[d]) /\ chan[n][d] \in Seq(Message) /\ chan[d][n] \in Seq(Message)
      BY <1>1, LeaderStands DEF ElectionInv, VotingInv, RaftInv, LogInv
    <2>2. Tracks(node[n], d, node[d], chan[n][d], chan[d][n])
      BY <1>1, LeaderStands
    <2>3. node[n].next_index[d] \in {UpToDate} \cup 1 .. log_max_index(node[n])
      BY <1>2 DEF Leads
    <2> QED BY <1>2, <1>3, <1>4, <2>1, <2>2, <2>3, TracksServed
  <1> QED BY <1>1, <1>5, <1>6, <1>7, <1>8, LeaderActed

\* With one operation under way for each node, a resend goes to a node of which
\* nothing is under way.
LEMMA ResendKept ==
    ASSUME ElectionInv, LedInv, TrackInv, VotesKept, NobodyWins, MaxQueue <= 1,
           NEW n \in Node, NEW r \in Node, LeaderResend(n, r)
    PROVE  LedInv' /\ TrackInv'
  <1>1. /\ node[n].loop = "leader" /\ node[n].next_index[r] # UpToDate
        /\ Len(chan[n][r]) + Len(chan[r][n]) < MaxQueue
    BY DEF LeaderResend
  <1>2. /\ Logged(node[n]) /\ Leads(node[n], n)
        /\ node[n].commit_index < Len(node[n].log) /\ Len(node[n].log) \in Nat
        /\ \A d \in Node : chan[n][d] \in Seq(Message) /\ chan[d][n] \in Seq(Message)
    BY <1>1, LeaderStands
  <1>3. PICK next \in 1 .. log_max_index(node[n]) : next = node[n].next_index[r]
    BY <1>1, <1>2 DEF Leads
  <1>4. PICK m \in LeaderMessage : m = Resend(node[n], next)
    BY <1>2, LeaderSends
  <1>5. m.type = "AppendEntries" /\ Carries(m, node[n], next) /\ m \in Message
    BY <1>2, <1>4, ResendCarries
  <1>6. Act(n, node[n], SendTo(r, m)) /\ SendTo(r, m) \in Sending(LeaderMessage)
    BY <1>3, <1>4, SendingType DEF LeaderResend
  <1>7. chan[n][r] = <<>> /\ chan[r][n] = <<>>
    <2>1. Len(chan[n][r]) \in Nat /\ Len(chan[r][n]) \in Nat /\ MaxQueue \in Nat
      BY <1>2, LenProperties, RaftBoundAssumption
    <2>2. PICK i \in Nat, j \in Nat : i = Len(chan[n][r]) /\ j = Len(chan[r][n])
      BY <2>1
    <2>3. i + j < MaxQueue
      BY <1>1, <2>2
    <2>4. i = 0 /\ j = 0
      BY <2>1, <2>3
    <2> QED BY <1>2, <2>2, <2>4, EmptySeq
  <1>8. ASSUME NEW d \in Node \ {n}
        PROVE  Tracks(node[n], d, node[d], chan[n][d] \o SendTo(r, m)[d], chan[d][n])
    <2>1. Tracks(node[n], d, node[d], chan[n][d], chan[d][n])
      BY <1>1, LeaderStands
    <2>2. CASE d = r
      <3>1. ~ Has(chan[n][r], "AppendEntries") /\ ~ Has(chan[r][n], "Acknowledge")
        <4>1. DOMAIN <<>> = {}
          OBVIOUS
        <4> QED BY <1>7, <4>1, Zenon DEF Has
      <3>2. Logged(node[d])
        BY DEF ElectionInv, VotingInv, RaftInv, LogInv
      <3>3. Tracks(node[n], d, node[d], chan[n][d] \o <<m>>, chan[d][n])
        BY <1>1, <1>2, <1>3, <1>5, <2>1, <2>2, <3>1, <3>2, NextSent
      <3> QED BY <2>2, <3>3 DEF SendTo
    <2>3. CASE d # r
      BY <1>2, <2>1, <2>3, ConcatEmptySeq DEF SendTo
    <2> QED BY <2>2, <2>3
  <1>9. Len(node[n].log) >= Len(node[n].log)
    BY <1>2
  <1> QED BY <1>1, <1>2, <1>6, <1>8, <1>9, LeaderActed


\* A commit that the match_index allows is one that d has reached, and its
\* committal may follow.
LEMMA TracksCommitted ==
    ASSUME NEW self, Logged(self), NEW d \in Node, NEW peer, Logged(peer),
           NEW q \in Seq(Message), NEW back \in Seq(Message), Tracks(self, d, peer, q, back),
           NEW new, new = commit_replicated(self), Logged(new)
    PROVE  Tracks(new, d, peer,
                  q \o (IF new = self THEN <<>> ELSE <<Committal(new)>>), back)
  <1>1. /\ new.log = self.log /\ new.current_term = self.current_term
        /\ new.next_index = self.next_index /\ new.match_index = self.match_index
        /\ \/ new.commit_index = self.commit_index
           \/ \A e \in Node : new.commit_index <= self.match_index[e]
    BY CommitChanges
  <1>2. /\ self.match_index[d] < Len(peer.log) /\ self.commit_index < Len(peer.log)
        /\ peer.commit_index < Len(peer.log)
    BY DEF Tracks
  <1>3. new.commit_index < Len(peer.log)
    <2>1. PICK i \in Nat, j \in Nat, k \in Nat :
              i = new.commit_index /\ j = self.match_index[d] /\ k = Len(peer.log)
      <3>1. new.commit_index \in Nat
        BY DEF Logged, NodeState
      <3>2. self.match_index \in [Node -> Nat]
        BY DEF Logged, NodeState
      <3> QED BY <3>1, <3>2, LogSize
    <2>2. i = self.commit_index \/ i <= j
      BY <1>1, <2>1
    <2> QED BY <1>2, <2>1, <2>2
  <1>4. Tracks(new, d, peer, q, back)
    <2>1. Passed(CalmMessage, q, q) /\ Passed(CalmMessage, back, back)
      BY PassedSame
    <2> QED BY <1>1, <1>2, <1>3, <2>1, TracksCalm
  <1>5. Tracks(new, d, peer, q \o <<Committal(new)>>, back)
    BY <1>4, CommittalSent
  <1> QED BY <1>4, <1>5, ConcatEmptySeq

\* An acknowledgement tells nothing of the other nodes.
LEMMA TracksOthers ==
    ASSUME NEW self, Logged(self), NEW s \in Node, NEW success \in BOOLEAN,
           self.next_index[s] \in 1 .. log_max_index(self),
           NEW known, known = advance(self, s, success),
           NEW d \in Node \ {s}, NEW peer,
           NEW q \in Seq(Message), NEW back \in Seq(Message), Tracks(self, d, peer, q, back)
    PROVE  Tracks(known, d, peer, q, back)
  <1>1. /\ known.log = self.log /\ known.current_term = self.current_term
        /\ known.commit_index = self.commit_index
        /\ known.next_index[d] = self.next_index[d]
        /\ known.match_index[d] = self.match_index[d]
    <2>1. PICK next \in 1 .. log_max_index(self) : next = self.next_index[s]
      OBVIOUS
    <2> QED BY <2>1, AdvanceChanges
  <1>2. Passed(CalmMessage, q, q) /\ Passed(CalmMessage, back, back)
    BY PassedSame
  <1>3. self.commit_index < Len(peer.log) /\ peer.commit_index < Len(peer.log)
    BY DEF Tracks
  <1> QED BY <1>1, <1>2, <1>3, TracksCalm

\* A leader that is told that an entry was accepted.
LEMMA AckKept ==
    ASSUME ElectionInv, LedInv, TrackInv, VotesKept, NobodyWins,
           NEW n \in Node, NEW s \in Node, LeaderAcknowledge(n, s)
    PROVE  LedInv' /\ TrackInv'
  <1>1. node[n].loop = "leader" /\ Gets(n, s, "Acknowledge")
    BY DEF LeaderAcknowledge
  <1>2. /\ Logged(node[n]) /\ Leads(node[n], n)
        /\ node[n].commit_index < Len(node[n].log) /\ Len(node[n].log) \in Nat
        /\ \A d \in Node : chan[n][d] \in Seq(Message) /\ chan[d][n] \in Seq(Message)
    BY <1>1, LeaderStands
  <1>3. RaftInv
    BY DEF ElectionInv, VotingInv
  <1>4. CASE node[n].next_index[s] = UpToDate
    <2>1. LeaderTurn(n, s, node[n], Quiet)
      BY <1>4 DEF LeaderAcknowledge
    <2> QED BY <1>1, <2>1, IgnoredKept
  <1>5. CASE node[n].next_index[s] # UpToDate
    <2>1. s # n /\ node[n].next_index[s] \in 1 .. log_max_index(node[n])
      BY <1>2, <1>5 DEF Leads
    <2>2. PICK success \in BOOLEAN : success = Head(chan[s][n]).success
      BY <1>1, <1>3, GetsMessage, MessageFields DEF RaftInv
    <2>3. PICK known : known = advance(node[n], s, success)
      OBVIOUS
    <2>4. Logged(known) /\ Leads(known, n) /\ known.log = node[n].log
          /\ known.commit_index = node[n].commit_index
      <3>1. Logged(known) /\ Leads(known, n)
        BY <1>2, <1>5, <2>3, Advanced
      <3>2. PICK next \in 1 .. log_max_index(node[n]) : next = node[n].next_index[s]
        BY <2>1
      <3> QED BY <1>2, <2>3, <3>1, <3>2, AdvanceChanges
    <2>5. PICK self : self = commit_replicated(known)
      OBVIOUS
    <2>6. Logged(self) /\ Leads(self, n)
      BY <2>4, <2>5, ReplicatedCommitted
    <2>7. /\ self.log = node[n].log
          /\ self.commit_index = node[n].commit_index
                \/ self.commit_index <= known.match_index[n]
      BY <2>4, <2>5, CommitChanges
    <2>8. self.commit_index < Len(self.log)
      <3>1. PICK i \in Nat, size \in Nat : i = self.commit_index /\ size = Len(node[n].log)
        BY <1>2, <2>6 DEF Logged, NodeState
      <3>2. known.match_index[n] = size - 1
        BY <2>4, <3>1 DEF Leads, log_max_index
      <3> QED BY <1>2, <2>7, <3>1, <3>2
    <2>9. PICK next \in {UpToDate} \cup 1 .. log_max_index(known) : next = known.next_index[s]
      BY <2>4 DEF Leads
    <2>10. PICK more \in Sending(LeaderMessage) :
               more = IF next = UpToDate THEN Quiet ELSE SendTo(s, Resend(known, next))
      BY <2>4, LeaderSends, SendingType
    <2>11. PICK commits \in Sending(LeaderMessage) :
               commits = IF self = known THEN Quiet ELSE SendAll(Committal(self))
      BY <2>6, LeaderSends, SendingType
    <2>12. LeaderTurn(n, s, self, Then(more, commits))
      BY <1>5, <2>2, <2>3, <2>5, <2>9, <2>10, <2>11 DEF LeaderAcknowledge
    <2>13. Then(more, commits) \in Sending(LeaderMessage)
      BY ThenType
    <2>14. ASSUME NEW d \in Node \ {n}
           PROVE  Tracks(self, d, node[d], chan[n][d] \o Then(more, commits)[d],
                         IF d = s THEN Tail(chan[d][n]) ELSE chan[d][n])
      <3>1. PICK q \in Seq(Message), a \in Seq(Message), b \in Seq(Message) :
                q = chan[n][d] /\ a = more[d] /\ b = commits[d]
        <4>1. LeaderMessage \subseteq Message
          BY DEF LeaderMessage
        <4> QED BY <1>2, <4>1, SeqMonotonic DEF Sending
      <3>2. q \o Then(more, commits)[d] = (q \o a) \o b
        <4>1. Then(more, commits)[d] = a \o b
          BY <3>1 DEF Then
        <4>2. q \o (a \o b) = (q \o a) \o b
          BY ThreeParts
        <4> QED BY <4>1, <4>2
      <3>3. PICK back \in Seq(Message) : back = IF d = s THEN Tail(chan[d][n]) ELSE chan[d][n]
        BY <1>1, <1>2, <1>3, GetsMessage DEF RaftInv
      <3>4. Logged(node[d])
        BY <1>3 DEF RaftInv, LogInv
      <3>5. Tracks(node[n], d, node[d], q, chan[d][n])
        BY <1>1, <3>1, LeaderStands
      <3>6. PICK sent \in Seq(Message) : sent = q \o a
        BY ConcatProperties
      <3>7. Tracks(known, d, node[d], sent, back)
        <4>1. CASE d = s
          <5>1. PICK old \in Seq(Message) :
                    /\ old = chan[s][n] /\ old # <<>> /\ Head(old).type = "Acknowledge"
                    /\ Head(old).success = success /\ back = Tail(old)
            BY <1>1, <1>3, <2>2, <3>3, <4>1, GetsMessage DEF RaftInv
          <5>2. a = IF next = UpToDate THEN <<>> ELSE <<Resend(known, next)>>
            BY <2>10, <3>1, <4>1 DEF Quiet, SendTo
          <5>3. /\ known = advance(node[n], d, Head(old).success)
                /\ node[n].next_index[d] \in 1 .. log_max_index(node[n])
                /\ known.next_index[d] \in {UpToDate} \cup 1 .. log_max_index(known)
                /\ Tracks(node[n], d, node[d], q, old)
            BY <2>1, <2>3, <2>9, <3>5, <4>1, <5>1
          <5>4. Tracks(known, d, node[d],
                       q \o (IF known.next_index[d] = UpToDate THEN <<>>
                             ELSE <<Resend(known, known.next_index[d])>>), Tail(old))
            <6>1. /\ Logged(node[n]) /\ Logged(known) /\ d \in Node /\ old # <<>>
                  /\ Head(old).type = "Acknowledge"
              BY <1>2, <2>4, <5>1
            <6> QED BY <3>4, <5>3, <6>1, TracksAdvanced, Zenon
          <5>5. a = IF known.next_index[d] = UpToDate THEN <<>>
                    ELSE <<Resend(known, known.next_index[d])>>
            BY <2>9, <4>1, <5>2
          <5> QED BY <3>6, <5>1, <5>4, <5>5
        <4>2. CASE d # s
          <5>1. a = <<>> /\ back = chan[d][n]
            BY <2>10, <3>1, <3>3, <4>2 DEF Quiet, SendTo
          <5>2. Tracks(known, d, node[d], q, back)
            BY <1>2, <2>1, <2>3, <3>5, <4>2, <5>1, TracksOthers
          <5> QED BY <3>6, <5>1, <5>2, ConcatEmptySeq
        <4> QED BY <4>1, <4>2
      <3>8. b = IF self = known THEN <<>> ELSE <<Committal(self)>>
        BY <2>11, <3>1 DEF Quiet, SendAll
      <3>9. Tracks(self, d, node[d], sent \o b, back)
        BY <2>4, <2>5, <2>6, <3>4, <3>7, <3>8, TracksCommitted
      <3> QED BY <3>1, <3>2, <3>3, <3>6, <3>9
    <2>15. Len(self.log) >= Len(node[n].log) /\ self.log[1] = node[n].log[1]
      BY <1>2, <2>7
    <2> QED BY <1>1, <2>6, <2>8, <2>12, <2>13, <2>14, <2>15, LeaderTurned
  <1> QED BY <1>4, <1>5

\* Messages that are not for leaders.
LEMMA LeaderIgnoreKept ==
    ASSUME ElectionInv, LedInv, TrackInv, VotesKept, NobodyWins,
           NEW n \in Node, NEW s \in Node, LeaderIgnore(n, s)
    PROVE  LedInv' /\ TrackInv'
  <1>1. PICK type : Gets(n, s, type)
    BY DEF LeaderIgnore
  <1> QED BY <1>1, IgnoredKept DEF LeaderIgnore


-----------------------------------------------------------------------------
(* The vote that decides the first election.                               *)

\* A leader of the first election that remembers its vote is elected,
LEMMA LeaderElected ==
    ElectionInv /\ First =>
        \A p \in Node : node[p].loop = "leader" /\ node[p].voted_for # Nobody => Elected(p)
  BY FirstMajority, StandsForItself DEF Elected, Stands

\* after a step as well.
LEMMA LeaderElectedNext ==
    ElectionInv' /\ First' =>
        (\A p \in Node : node[p].loop = "leader" /\ node[p].voted_for # Nobody => Elected(p))'
  BY LeaderElected, PTL

\* Nobody has led before the node that wins.
LEMMA NobodyLed ==
    ASSUME ElectionInv', First', \A p \in Node : Elected(p) => Elected(p)',
           NEW n \in Node, NEW s \in Node, Wins(n, s), node'[n].voted_for # Nobody
    PROVE  Elected(n)' /\ \A p \in Node : ~ Led(p)
  <1>1. Elected(n)'
    BY LeaderElectedNext DEF Wins
  <1>2. ASSUME NEW p \in Node, Elected(p)
        PROVE  FALSE
    <2>1. p = n
      BY <1>1, <1>2, OneElectedNext
    <2> QED BY <1>2, <2>1 DEF Elected, Wins, CandidateVote
  <1> QED BY <1>1, <1>2 DEF Led

\* Until somebody leads, the logs are the initial ones.
LEMMA NothingYet ==
    ASSUME RaftInv, LedInv, \A p \in Node : ~ Led(p)
    PROVE  /\ \A d \in Node :
                 /\ Len(node[d].log) = 1 /\ node[d].log[1] = InitEntry
                 /\ node[d].commit_index = 0 /\ node[d].loop # "leader"
           /\ \A a, b \in Node : \A i \in DOMAIN chan[a][b] : chan[a][b][i].type \notin LogType
  <1>1. ASSUME NEW d \in Node
        PROVE  /\ Len(node[d].log) = 1 /\ node[d].log[1] = InitEntry
               /\ node[d].commit_index = 0 /\ node[d].loop # "leader"
    <2>1. PICK size \in Nat : size = Len(node[d].log) /\ size > 0
      BY LogSize DEF RaftInv, LogInv, Logged
    <2>2. ~ (size > 1) /\ node[d].commit_index = 0
      BY <2>1 DEF LedInv
    <2>3. node[d].log[1] = InitEntry /\ node[d].loop # "leader"
      BY DEF LedInv
    <2>4. size = 1
      <3>1. size > 0 /\ ~ (size > 1)
        BY <2>1, <2>2, Zenon
      <3>2. \A k \in Nat : k > 0 /\ ~ (k > 1) => k = 1
        OBVIOUS
      <3> QED BY <3>1, <3>2
    <2> QED BY <2>1, <2>2, <2>3, <2>4
  <1> QED BY <1>1 DEF LedInv, Credit, LogType

\* n, leading as self, starts from reset with entry.
LeadsFrom(reset, entry, self, n) ==
    /\ Logged(reset) /\ reset.log = self.log /\ reset.commit_index = self.commit_index
    /\ \A d \in Node : /\ reset.next_index[d] = UpToDate
                       /\ reset.match_index[d] = self.commit_index
    /\ start_leading(self, n) = broadcast_append_entries(reset, n, entry)
    /\ \A d \in Node : start_leading_messages(self)[d] =
           <<Heartbeat(self)>> \o broadcast_append_messages(reset, entry)[d]

\* A new leader resets what it knows of the others,
LEMMA LeadingReset ==
    ASSUME NEW self, Logged(self), NEW n \in Node
    PROVE  \E entry \in Entry : \E reset : LeadsFrom(reset, entry, self, n)
  <1>1. PICK entry \in Entry : entry = [term |-> self.current_term, entry |-> "Leader Entry"]
    BY DEF Logged, NodeState, Entry
  <1>2. PICK next \in [Node -> Int] : next = [d \in Node |-> UpToDate]
    <2>1. [d \in Node |-> UpToDate] \in [Node -> Int]
      BY DEF UpToDate
    <2> QED BY <2>1
  <1>3. PICK match \in [Node -> Nat] : match = [d \in Node |-> self.commit_index]
    BY DEF Logged, NodeState
  <1>4. PICK reset : reset = [set_current_role(self, "leader") EXCEPT !.next_index = next,
                                                                     !.match_index = match]
    OBVIOUS
  <1>5. /\ Logged(reset) /\ reset.log = self.log /\ reset.commit_index = self.commit_index
        /\ reset.current_term = self.current_term
        /\ reset.next_index = next /\ reset.match_index = match
    BY <1>4 DEF set_current_role, Logged, NodeState, Role
  <1>6. start_leading(self, n) = broadcast_append_entries(reset, n, entry)
    BY <1>1, <1>2, <1>3, <1>4 DEF start_leading
  <1>7. ASSUME NEW d \in Node
        PROVE  start_leading_messages(self)[d]
                  = <<Heartbeat(self)>> \o broadcast_append_messages(reset, entry)[d]
    <2>1. PICK plain : plain = [self EXCEPT !.next_index = next]
      OBVIOUS
    <2>2. /\ plain.log = self.log /\ plain.current_term = self.current_term
          /\ plain.commit_index = self.commit_index /\ plain.next_index = next
      BY <2>1 DEF Logged, NodeState
    <2>3. broadcast_append_messages(plain, entry)[d] = broadcast_append_messages(reset, entry)[d]
      BY <1>5, <2>2 DEF broadcast_append_messages, AppendEntries, At, log_max_index
    <2>4. start_leading_messages(self)
             = Then(SendAll(Heartbeat(self)), broadcast_append_messages(plain, entry))
      BY <1>1, <1>2, <2>1 DEF start_leading_messages
    <2> QED BY <2>3, <2>4 DEF Then, SendAll
  <1>8. \A d \in Node : reset.next_index[d] = UpToDate /\ reset.match_index[d] = self.commit_index
    BY <1>2, <1>3, <1>5
  <1> QED BY <1>1, <1>5, <1>6, <1>7, <1>8, Zenon DEF LeadsFrom

\* appends its first entry to its log,
LEMMA LeadingLog ==
    ASSUME NEW self, Logged(self), NEW n \in Node, NEW led, led = start_leading(self, n)
    PROVE  /\ Logged(led) /\ led.log[1] = self.log[1]
           /\ Len(led.log) = Len(self.log) + 1 /\ led.commit_index = self.commit_index
  <1>1. PICK entry \in Entry : \E reset : LeadsFrom(reset, entry, self, n)
    BY LeadingReset
  <1>2. PICK reset : LeadsFrom(reset, entry, self, n)
    BY <1>1
  <1>3. /\ Logged(reset) /\ reset.log = self.log /\ reset.commit_index = self.commit_index
        /\ led = broadcast_append_entries(reset, n, entry)
    BY <1>2 DEF LeadsFrom
  <1>4. /\ Logged(led) /\ led.log[1] = reset.log[1]
        /\ Len(led.log) = Len(reset.log) + 1 /\ led.commit_index = reset.commit_index
    BY <1>3, GrownLog
  <1> QED BY <1>3, <1>4

\* and sends them a heartbeat and its first entry.
LEMMA TracksLeading ==
    ASSUME NEW self, Logged(self), NEW n \in Node, NEW d \in Node, d # n,
           NEW peer, Logged(peer),
           Len(self.log) = 1, self.log[1] = InitEntry, self.commit_index = 0,
           Len(peer.log) = 1, peer.log[1] = InitEntry, peer.commit_index = 0,
           NEW q \in Seq(Message), NEW back \in Seq(Message),
           \A i \in DOMAIN q : q[i].type \notin LogType,
           \A i \in DOMAIN back : back[i].type \notin LogType
    PROVE  Tracks(start_leading(self, n), d, peer, q \o start_leading_messages(self)[d], back)
  <1>1. PICK entry, reset :
            /\ entry \in Entry /\ Logged(reset)
            /\ reset.log = self.log /\ reset.commit_index = self.commit_index
            /\ reset.next_index[d] = UpToDate /\ reset.match_index[d] = self.commit_index
            /\ start_leading(self, n) = broadcast_append_entries(reset, n, entry)
            /\ start_leading_messages(self)[d]
                  = <<Heartbeat(self)>> \o broadcast_append_messages(reset, entry)[d]
    <2>1. PICK entry \in Entry : \E reset : LeadsFrom(reset, entry, self, n)
      BY LeadingReset
    <2> QED BY <2>1 DEF LeadsFrom
  <1>2. PICK beat \in Message : beat = Heartbeat(self) /\ beat.type = "Heartbeat"
    <2>1. Heartbeat(self) \in Message
      BY CalmTypes DEF CalmMessage
    <2> QED BY <2>1 DEF Heartbeat
  <1>3. PICK sent \in Seq(Message) : sent = q \o <<beat>>
    BY AddedLast
  <1>4. \A type \in LogType : \A i \in DOMAIN sent : sent[i].type # type
    <2>1. \A type \in LogType : ~ Has(q, type) /\ beat.type # type
      BY <1>2 DEF Has, LogType
    <2>2. \A type \in LogType : ~ Has(sent, type)
      BY <1>3, <2>1, AddedOne
    <2> QED BY <2>2 DEF Has
  <1>5. Tracks(reset, d, peer, sent, back)
    <2>1. /\ ~ Has(sent, "AppendEntries") /\ ~ Has(back, "Acknowledge")
          /\ \A i \in DOMAIN sent : sent[i].type # "Committal"
      BY <1>4 DEF Has, LogType
    <2>2. \A i \in 1 .. Len(peer.log) : i <= Len(reset.log) /\ peer.log[i] = reset.log[i]
      BY <1>1
    <2> QED BY <1>1, <2>1, <2>2 DEF Tracks
  <1>6. PICK more \in Seq(Message) : more = broadcast_append_messages(reset, entry)[d]
    <2>1. LeaderMessage \subseteq Message
      BY DEF LeaderMessage
    <2>2. broadcast_append_messages(reset, entry)[d] \in Seq(LeaderMessage)
      BY <1>1, LeaderSends DEF Sending
    <2> QED BY <2>1, <2>2, SeqMonotonic
  <1>7. q \o start_leading_messages(self)[d] = sent \o more
    <2>1. PICK first \in Seq(Message) : first = <<beat>>
      <3>1. <<beat>> \in Seq(Message)
        OBVIOUS
      <3> QED BY <3>1
    <2>2. (q \o first) \o more = q \o (first \o more)
      <3>1. q \in Seq(Message) /\ first \in Seq(Message) /\ more \in Seq(Message)
        OBVIOUS
      <3> QED BY <3>1, ThreeParts, ZenonT(60)
    <2> QED BY <1>1, <1>2, <1>3, <1>6, <2>1, <2>2
  <1>8. Tracks(start_leading(self, n), d, peer, sent \o more, back)
    BY <1>1, <1>5, <1>6, TracksBroadcast
  <1> QED BY <1>7, <1>8

\* What a new leader does.
LEMMA Won ==
    ASSUME RaftInv, NEW n \in Node, NEW s \in Node, Wins(n, s)
    PROVE  /\ Gets(n, s, "Vote")
           /\ \E self : /\ Logged(self) /\ self.log = node[n].log
                        /\ self.commit_index = node[n].commit_index
                        /\ Handle(n, s, start_leading(self, n), start_leading_messages(self))
  <1>1. Logged(node[n]) /\ node[n].role # "leader" /\ Gets(n, s, "Vote")
    BY CandidateStep DEF Wins, CandidateVote
  <1>2. PICK votes \in Nat :
           votes = IF Head(chan[s][n]).vote_granted THEN node[n].votes_for_me + 1
                   ELSE node[n].votes_for_me
    BY <1>1 DEF Logged, NodeState
  <1>3. PICK self : self = [node[n] EXCEPT !.votes_for_me = votes]
    OBVIOUS
  <1>4. /\ Logged(self) /\ self.role # "leader" /\ self.log = node[n].log
        /\ self.commit_index = node[n].commit_index
    BY <1>1, <1>3 DEF Logged, NodeState
  <1>5. self = [node[n] EXCEPT !.votes_for_me =
                   IF Head(chan[s][n]).vote_granted THEN @ + 1 ELSE @]
    BY <1>1, <1>2, <1>3 DEF Logged, NodeState
  <1>6. CASE has_majority(self.votes_for_me)
    <2>1. Handle(n, s, start_leading(self, n), start_leading_messages(self))
      BY <1>5, <1>6 DEF Wins, CandidateVote
    <2> QED BY <1>1, <1>4, <2>1
  <1>7. CASE ~ has_majority(self.votes_for_me)
    <2>1. Handle(n, s, self, Quiet)
      BY <1>5, <1>7 DEF Wins, CandidateVote
    <2>2. node'[n].loop = self.role
      BY <1>4, <2>1, ChangedLog DEF Handle
    <2> QED BY <1>4, <2>2 DEF Wins
  <1> QED BY <1>6, <1>7


\* What a new leader sends is no answer.
LEMMA LeadingSends ==
    ASSUME NEW self, Logged(self)
    PROVE  start_leading_messages(self) \in Sending(LeaderMessage)
  <1>1. PICK plain : plain = [self EXCEPT !.next_index = [d \in Node |-> UpToDate]]
    OBVIOUS
  <1>2. PICK entry \in Entry : entry = [term |-> self.current_term, entry |-> "Leader Entry"]
    BY DEF Logged, NodeState, Entry
  <1>3. Logged(plain)
    <2>1. [d \in Node |-> UpToDate] \in [Node -> Int]
      BY DEF UpToDate
    <2> QED BY <1>1, <2>1 DEF Logged, NodeState
  <1>4. SendAll(Heartbeat(self)) \in Sending(LeaderMessage)
    BY SendingType, LeaderSends
  <1>5. broadcast_append_messages(plain, entry) \in Sending(LeaderMessage)
    BY <1>3, LeaderSends
  <1> QED BY <1>1, <1>2, <1>4, <1>5, ThenType DEF start_leading_messages


\* The first leader knows all logs from the start.
LEMMA WinKept ==
    ASSUME ElectionInv, ElectionInv', First', LedInv,
           \A p \in Node : Elected(p) => Elected(p)',
           NEW n \in Node, NEW s \in Node, Wins(n, s), node'[n].voted_for # Nobody
    PROVE  LedInv' /\ TrackInv'
  <1>1. RaftInv /\ RaftInv'
    BY DEF ElectionInv, VotingInv
  <1>2. Elected(n)' /\ \A p \in Node : ~ Led(p)
    BY NobodyLed
  <1>3. /\ \A d \in Node : /\ Len(node[d].log) = 1 /\ node[d].log[1] = InitEntry
                           /\ node[d].commit_index = 0 /\ node[d].loop # "leader"
        /\ \A a, b \in Node : \A i \in DOMAIN chan[a][b] : chan[a][b][i].type \notin LogType
    BY <1>1, <1>2, NothingYet
  <1>4. PICK self : /\ Logged(self) /\ self.log = node[n].log
                    /\ self.commit_index = node[n].commit_index
                    /\ Handle(n, s, start_leading(self, n), start_leading_messages(self))
    BY <1>1, Won
  <1>5. Gets(n, s, "Vote")
    BY <1>1, Won
  <1>6. PICK led : led = start_leading(self, n)
    OBVIOUS
  <1>7. PICK out \in Sending(LeaderMessage) : out = start_leading_messages(self)
    BY <1>4, LeadingSends
  <1>8. Logged(led) /\ led.log[1] = InitEntry /\ Len(led.log) = 2 /\ led.commit_index = 0
    <2>1. /\ Logged(led) /\ led.log[1] = self.log[1]
          /\ Len(led.log) = Len(self.log) + 1 /\ led.commit_index = self.commit_index
      BY <1>4, <1>6, LeadingLog
    <2>2. Len(self.log) = 1 /\ self.log[1] = InitEntry /\ self.commit_index = 0
      BY <1>3, <1>4
    <2> QED BY <2>1, <2>2
  <1>9. /\ \A p \in Node : p # n => node'[p] = node[p]
        /\ SameLog(node'[n], led) /\ node'[n].commit_index = led.commit_index
        /\ node'[n].current_term = led.current_term
    <2>1. node' = [node EXCEPT ![n] = CheckRole(led)]
      BY <1>4, <1>6 DEF Handle
    <2> QED BY <1>1, <1>8, <2>1, ChangedLog
  <1>10. Led(n)'
    BY <1>2, <1>8, <1>9 DEF Led, SameLog
  <1>11. ASSUME NEW a \in Node, NEW b \in Node, NEW i \in DOMAIN chan'[a][b]
         PROVE  /\ chan'[a][b][i].type \in {"AppendEntries", "Committal"} => Led(a)'
                /\ chan'[a][b][i].type = "Acknowledge" => Led(b)'
    <2>1. chan'[a][b][i].type \in LogType => a = n /\ chan'[a][b][i] \in LeaderMessage
      <3>1. PICK S \in SUBSET Message : S = IF a = n THEN LeaderMessage ELSE {}
        BY DEF LeaderMessage
      <3>2. PICK more \in Seq(S) : more = IF a = n THEN out[b] ELSE <<>>
        BY <3>1, EmptySeq DEF Sending
      <3>3. PICK left \in Seq(Message) :
               /\ chan[a][b] \in Seq(Message)
               /\ left = chan[a][b] \/ (chan[a][b] # <<>> /\ left = Tail(chan[a][b]))
               /\ chan'[a][b] = left \o (IF a = n THEN out[b] ELSE <<>>)
        <4>1. Moved(n, s, out, a, b)
          BY <1>1, <1>4, <1>5, <1>7, HandledChannel
        <4> QED BY <4>1, Zenon DEF Moved
      <3>4. Passed(S, chan'[a][b], chan[a][b])
        BY <3>2, <3>3, PassedConcat
      <3>5. chan'[a][b][i] \in S \/ \E j \in DOMAIN chan[a][b] : chan[a][b][j] = chan'[a][b][i]
        BY <3>4 DEF Passed
      <3> QED BY <1>3, <3>1, <3>5
    <2> QED BY <1>10, <2>1 DEF LogType, LeaderMessage
  <1>12. ASSUME NEW d \in Node
         PROVE  /\ node'[d].log[1] = InitEntry
                /\ node'[d].loop = "leader" => d = n
                /\ node'[d].loop = "candidate" => node'[d].voted_for # Nobody
    <2>1. CASE d = n
      BY <1>8, <1>9, <2>1 DEF SameLog, Wins
    <2>2. CASE d # n
      BY <1>3, <1>9, <2>2 DEF LedInv
    <2> QED BY <2>1, <2>2
  <1>13. LedInv'
    BY <1>10, <1>11, <1>12 DEF LedInv, Credit
  <1>14. ASSUME NEW d \in Node \ {n}
         PROVE  Tracks(node'[n], d, node'[d], chan'[n][d], chan'[d][n])
    <2>1. PICK q \in Seq(Message), old \in Seq(Message) : q = chan[n][d] /\ old = chan[d][n]
      BY <1>1 DEF RaftInv, TypeOK
    <2>2. PICK back \in Seq(Message) : back = IF d = s THEN Tail(old) ELSE old
      BY <1>1, <1>5, <2>1, GetsMessage DEF RaftInv
    <2>3. \A i \in DOMAIN back : back[i].type \notin LogType
      <3>1. d = s => old # <<>>
        BY <1>1, <1>5, <2>1, GetsMessage DEF RaftInv
      <3>2. CASE d = s
        <4>1. \A i \in DOMAIN Tail(old) : i + 1 \in DOMAIN old /\ Tail(old)[i] = old[i + 1]
          BY <3>1, <3>2, TakenFirst
        <4> QED BY <1>3, <2>1, <2>2, <3>2, <4>1
      <3>3. CASE d # s
        BY <1>3, <2>1, <2>2, <3>3
      <3> QED BY <3>2, <3>3
    <2>4. chan'[n][d] = q \o out[d]
      BY <1>4, <1>7, <2>1 DEF Handle
    <2>5. chan'[d][n] = back
      <3>1. chan'[d][n] = back \o <<>>
        BY <1>4, <2>1, <2>2 DEF Handle
      <3> QED BY <3>1, ConcatEmptySeq
    <2>6. Logged(node[d])
      BY <1>1 DEF RaftInv, LogInv
    <2>7. Tracks(led, d, node[d], q \o out[d], back)
      BY <1>3, <1>4, <1>6, <1>7, <2>1, <2>3, <2>6, TracksLeading
    <2>8. q \o out[d] \in Seq(Message)
      BY <1>1, <2>4 DEF RaftInv, TypeOK
    <2>9. node'[d] = node[d] /\ SameLog(node[d], node[d])
      BY <1>9 DEF SameLog
    <2> QED BY <1>9, <2>4, <2>5, <2>7, <2>8, <2>9, TracksChecked
  <1>15. node'[n].commit_index < Len(node'[n].log)
    BY <1>8, <1>9 DEF SameLog
  <1> QED BY <1>12, <1>13, <1>14, <1>15 DEF TrackInv


-----------------------------------------------------------------------------
(* The invariant.                                                          *)

\* A candidate that counts a vote remembers its own.
LEMMA VoterKept ==
    ASSUME VotingInv, NEW n \in Node, NEW s \in Node, CandidateVote(n, s)
    PROVE  node'[n].voted_for = node[n].voted_for /\ node[n].loop = "candidate"
  <1>1. Counts(n, s) /\ node[n].loop = "candidate"
    BY VoteCounted
  <1>2. PICK self : /\ Logged(self) /\ Changes(n, self)
                    /\ self.voted_for = node[n].voted_for
    BY <1>1 DEF Counts
  <1> QED BY <1>1, <1>2, Changed DEF Changes

\* Every step of the first election keeps what is known of the logs.
LEMMA FirstKept ==
    ASSUME ElectionInv, ElectionInv', First, First', LedInv, TrackInv, MaxQueue <= 1,
           [Next]_vars
    PROVE  LedInv' /\ TrackInv'
  <1>1. RaftInv /\ VotingInv
    BY DEF ElectionInv, VotingInv
  <1>2. ASSUME NEW p \in Node
        PROVE  /\ Elected(p) => Elected(p)'
               /\ node'[p].loop = "candidate" => node'[p].voted_for # Nobody
               /\ \/ node'[p].loop = "leader" => node[p].loop = "leader"
                  \/ \E s \in Node : CandidateVote(p, s)
    <2>1. node[p].loop = "candidate" => node[p].voted_for # Nobody
      BY DEF LedInv
    <2> QED BY <1>1, <2>1, ElectedStays, LoopsKept
  <1>3. ASSUME NEW n \in Node, NEW s \in Node, Wins(n, s)
        PROVE  LedInv' /\ TrackInv'
    <2>1. node'[n].voted_for # Nobody
      BY <1>1, <1>3, VoterKept DEF LedInv, Wins
    <2> QED BY <1>2, <1>3, <2>1, WinKept
  <1>4. CASE \A n, s \in Node : ~ Wins(n, s)
    <2>1. VotesKept /\ NobodyWins
      BY <1>2, <1>4 DEF VotesKept, NobodyWins, Wins
    <2> QED BY <1>1, <1>4, <2>1, LogKinds, CalmKept, AcceptKept, AckKept, RequestKept,
               LeaderIgnoreKept, ServiceKept, ResendKept
  <1> QED BY <1>3, <1>4

\* A log is longer than the initial one only if somebody has led.
LEMMA SomebodyLed ==
    ASSUME RaftInv, LedInv, [Next]_vars, \A n, s \in Node : ~ Wins(n, s),
           NEW p \in Node, Len(node'[p].log) > 1
    PROVE  \E q \in Node : Led(q)
  <1>1. CASE CalmStep
    <2>1. Len(node[p].log) > 1
      BY <1>1 DEF CalmStep, SameLog
    <2> QED BY <2>1 DEF LedInv
  <1>2. ASSUME NEW n \in Node, NEW s \in Node, FollowerAppendEntries(n, s)
        PROVE  \E q \in Node : Led(q)
    <2>1. Gets(n, s, "AppendEntries")
      BY <1>2 DEF FollowerAppendEntries
    <2> QED BY <2>1, GetsCredit
  <1>3. ASSUME NEW n \in Node, NEW s \in Node,
               \/ LeaderAcknowledge(n, s) \/ LeaderClientRequest(n, s) \/ LeaderIgnore(n, s)
               \/ LeaderServeClient(n) \/ LeaderResend(n, s)
        PROVE  \E q \in Node : Led(q)
    <2>1. node[n].loop = "leader"
      BY <1>3 DEF LeaderAcknowledge, LeaderClientRequest, LeaderIgnore, LeaderServeClient,
                  LeaderResend
    <2> QED BY <2>1 DEF LedInv
  <1> QED BY <1>1, <1>2, <1>3, LogKinds

\* Without pauses, who has led leads.
LEMMA SteadyNext ==
    ASSUME ElectionInv, ElectionInv', SteadyInv, First => LedInv, [Next]_vars
    PROVE  SteadyInv'
  <1> SUFFICES ASSUME CanPause = {}
               PROVE  /\ paused' = {}
                      /\ \A p \in Node : node'[p].role = node'[p].loop
                      /\ First' => \A p \in Node : Led(p)' => node'[p].loop = "leader"
    BY DEF SteadyInv
  <1>1. VotingInv /\ VotingInv' /\ TermInv /\ RaftInv
    BY DEF ElectionInv, VotingInv
  <1>2. paused' = {} /\ \A p \in Node : node'[p].role = node'[p].loop
    BY <1>1, NeverPaused DEF SteadyInv
  <1>3. ASSUME First', NEW p \in Node, Led(p)'
        PROVE  node'[p].loop = "leader"
    <2>1. First /\ LedInv
      BY <1>1, <1>3, TermNext
    <2>2. Elected(p)' /\ Len(node'[p].log) > 1
      BY <1>3 DEF Led
    <2>3. \A q \in Node : Elected(q) => Elected(q)'
      BY <1>3, ElectedStays
    <2>4. CASE Led(p)
      BY <1>3, <2>1, <2>4, LeaderStays DEF SteadyInv, Led
    <2>5. ASSUME NEW n \in Node, NEW s \in Node, Wins(n, s)
          PROVE  node'[p].loop = "leader"
      <3>1. node'[n].voted_for # Nobody
        BY <1>1, <2>1, <2>5, VoterKept DEF LedInv, Wins
      <3>2. Elected(n)'
        BY <1>3, <2>3, <2>5, <3>1, NobodyLed
      <3> QED BY <2>2, <2>5, <3>2, OneElectedNext DEF Wins
    <2>6. CASE ~ Led(p) /\ \A n, s \in Node : ~ Wins(n, s)
      <3>1. PICK q \in Node : Led(q)
        BY <1>1, <2>1, <2>2, <2>6, SomebodyLed
      <3>2. Elected(q)'
        BY <2>3, <3>1 DEF Led
      <3> QED BY <2>2, <2>6, <3>1, <3>2, OneElectedNext
    <2> QED BY <2>4, <2>5, <2>6
  <1> QED BY <1>2, <1>3

\* The invariant holds before anybody has stood,
LEMMA CommitInit == Init => CommitInv
  <1> SUFFICES ASSUME Init PROVE CommitInv
    OBVIOUS
  <1>1. ElectionInv
    BY ElectionInit
  <1>2. ASSUME NEW d \in Node
        PROVE  /\ node[d].log = <<InitEntry>> /\ node[d].commit_index = 0
               /\ node[d].loop = "follower" /\ node[d].role = "follower"
               /\ node[d].voted_for = Nobody
    BY DEF Init, InitNode, InitEntry
  <1>3. \A d \in Node : Len(node[d].log) = 1 /\ node[d].log[1] = InitEntry
    BY <1>2
  <1>4. \A a, b \in Node : DOMAIN chan[a][b] = {}
    BY DEF Init
  <1>5. LedInv /\ TrackInv
    <2>1. ASSUME NEW d \in Node
          PROVE  /\ node[d].log[1] = InitEntry
                 /\ ~ (Len(node[d].log) > 1) /\ node[d].commit_index = 0
                 /\ node[d].loop # "leader" /\ node[d].loop # "candidate"
      <3>1. node[d].loop = "follower" /\ node[d].commit_index = 0
        BY <1>2
      <3>2. PICK size \in Nat : size = 1 /\ size = Len(node[d].log)
        BY <1>3
      <3>3. ~ (size > 1)
        BY <3>2
      <3> QED BY <1>3, <3>1, <3>2, <3>3
    <2>2. \A a, b \in Node : \A i \in DOMAIN chan[a][b] : Credit(chan[a][b][i], a, b)
      BY <1>4
    <2> QED BY <2>1, <2>2 DEF LedInv, TrackInv
  <1>6. SteadyInv
    BY <1>2 DEF SteadyInv, Led, Elected, Init
  <1> QED BY <1>1, <1>5, <1>6 DEF CommitInv

\* and after every step, if one operation is under way at a time.
LEMMA CommitNext == MaxQueue <= 1 /\ CommitInv /\ [Next]_vars => CommitInv'
  <1> SUFFICES ASSUME MaxQueue <= 1, CommitInv, [Next]_vars
               PROVE  CommitInv'
    OBVIOUS
  <1>1. ElectionInv /\ ElectionInv'
    BY ElectionNext DEF CommitInv
  <1>2. First' => First
    BY <1>1, TermNext DEF ElectionInv
  <1>3. First' => LedInv' /\ TrackInv'
    BY <1>1, <1>2, FirstKept DEF CommitInv
  <1>4. SteadyInv'
    BY <1>1, SteadyNext DEF CommitInv
  <1> QED BY <1>1, <1>3, <1>4 DEF CommitInv

\* The invariant holds throughout.
LEMMA CommitInvariant == MaxQueue <= 1 => (Spec => []CommitInv)
  <1> SUFFICES ASSUME MaxQueue <= 1
               PROVE  Spec => []CommitInv
    OBVIOUS
  <1>1. CommitInv /\ [Next]_vars => CommitInv'
    BY CommitNext
  <1> QED BY <1>1, CommitInit, PTL DEF Spec


-----------------------------------------------------------------------------
(* The theorems.                                                           *)

\* With one operation under way for each node, what the first leader has
\* committed is in the logs of all nodes, and so of more than half of them.
THEOREM FirstCommitReplicated ==
    MaxQueue <= 1 => (Spec => [](First => CommitReplicated))
  <1> SUFFICES ASSUME MaxQueue <= 1
               PROVE  Spec => [](First => CommitReplicated)
    OBVIOUS
  <1>1. CommitInv => (First => CommitReplicated)
    <2> SUFFICES ASSUME CommitInv, First, NEW n \in Node, node[n].loop = "leader",
                        NEW i \in 0 .. node[n].commit_index
                 PROVE  2 * Cardinality({d \in Node :
                              i <= log_max_index(node[d]) /\ At(node[d], i) = At(node[n], i)})
                           > Cardinality(Node)
      BY DEF CommitReplicated
    <2>1. RaftInv /\ TrackInv
      BY DEF CommitInv, ElectionInv, VotingInv
    <2>2. PICK c \in Nat : c = node[n].commit_index /\ i \in Nat /\ i <= c
      BY <2>1 DEF RaftInv, TypeOK, NodeState
    <2>3. ASSUME NEW d \in Node
          PROVE  i <= log_max_index(node[d]) /\ At(node[d], i) = At(node[n], i)
      <3>1. PICK size \in Nat : size = Len(node[d].log)
        BY <2>1, LogSize DEF RaftInv, LogInv
      <3>2. c < size
        BY <2>1, <2>2, <3>1 DEF TrackInv, Tracks
      <3>3. i <= size - 1 /\ i + 1 \in 1 .. size
        BY <2>2, <3>2
      <3>4. d # n => node[d].log[i + 1] = node[n].log[i + 1]
        BY <2>1, <3>1, <3>3 DEF TrackInv, Tracks
      <3> QED BY <3>1, <3>3, <3>4 DEF At, log_max_index
    <2>4. {d \in Node : i <= log_max_index(node[d]) /\ At(node[d], i) = At(node[n], i)} = Node
      BY <2>3
    <2>5. 2 * Cardinality(Node) > Cardinality(Node)
      BY GroupSize
    <2> QED BY <2>4, <2>5, Zenon
  <1> QED BY <1>1, CommitInvariant, PTL

\* Where the log of every node stands while the first leader leads, or before.
LEMMA Committed ==
    ASSUME CommitInv, First, CanPause = {}
    PROVE  \/ \A d \in Node : node[d].commit_index = 0 /\ node[d].log[1] = InitEntry
           \/ \E q \in Node : \A d \in Node :
                 /\ node[d].commit_index < Len(node[d].log)
                 /\ \A k \in 1 .. Len(node[d].log) : node[d].log[k] = node[q].log[k]
  <1>1. LedInv /\ TrackInv /\ SteadyInv
    BY DEF CommitInv
  <1>2. CASE \A p \in Node : ~ Led(p)
    BY <1>1, <1>2 DEF LedInv
  <1>3. ASSUME NEW q \in Node, Led(q)
        PROVE  \A d \in Node : /\ node[d].commit_index < Len(node[d].log)
                               /\ \A k \in 1 .. Len(node[d].log) : node[d].log[k] = node[q].log[k]
    <2>1. node[q].loop = "leader"
      BY <1>1, <1>3 DEF SteadyInv
    <2>2. node[q].commit_index < Len(node[q].log)
      BY <1>1, <2>1 DEF TrackInv
    <2>3. ASSUME NEW d \in Node \ {q}
          PROVE  /\ node[d].commit_index < Len(node[d].log)
                 /\ \A k \in 1 .. Len(node[d].log) : node[d].log[k] = node[q].log[k]
      BY <1>1, <2>1 DEF TrackInv, Tracks
    <2> QED BY <2>2, <2>3
  <1> QED BY <1>2, <1>3

\* Without pauses, clients of two nodes are told the same of an index that both
\* have committed, until a second election begins.
THEOREM FirstCommittedAgree ==
    MaxQueue <= 1 /\ CanPause = {} => (Spec => [](First => CommittedAgree))
  <1> SUFFICES ASSUME MaxQueue <= 1, CanPause = {}
               PROVE  Spec => [](First => CommittedAgree)
    OBVIOUS
  <1>1. CommitInv => (First => CommittedAgree)
    <2> SUFFICES ASSUME CommitInv, First, NEW n \in Node, NEW p \in Node,
                        NEW i \in 0 .. node[n].commit_index, i <= node[p].commit_index
                 PROVE  /\ i <= log_max_index(node[n]) /\ i <= log_max_index(node[p])
                        /\ At(node[n], i) = At(node[p], i)
      BY DEF CommittedAgree
    <2>1. PICK c \in Nat, e \in Nat :
              c = node[n].commit_index /\ e = node[p].commit_index /\ i \in Nat /\ i <= c /\ i <= e
      <3>1. TypeOK
        BY DEF CommitInv, ElectionInv, VotingInv, RaftInv
      <3>2. node[n].commit_index \in Nat /\ node[p].commit_index \in Nat
        BY <3>1 DEF TypeOK, NodeState
      <3> QED BY <3>2
    <2>2. PICK size \in Nat, length \in Nat :
              /\ size = Len(node[n].log) /\ length = Len(node[p].log)
              /\ size > 0 /\ length > 0
      BY LogSize DEF CommitInv, ElectionInv, VotingInv, RaftInv, LogInv, Logged
    <2>3. CASE \A d \in Node : node[d].commit_index = 0 /\ node[d].log[1] = InitEntry
      <3>1. i = 0 /\ i + 1 = 1
        BY <2>1, <2>3
      <3>2. i <= size - 1 /\ i <= length - 1
        BY <2>2, <3>1
      <3> QED BY <2>2, <2>3, <3>1, <3>2 DEF At, log_max_index
    <2>4. ASSUME NEW q \in Node,
                 \A d \in Node :
                    /\ node[d].commit_index < Len(node[d].log)
                    /\ \A k \in 1 .. Len(node[d].log) : node[d].log[k] = node[q].log[k]
          PROVE  /\ i <= log_max_index(node[n]) /\ i <= log_max_index(node[p])
                 /\ At(node[n], i) = At(node[p], i)
      <3>1. c < size /\ e < length
        BY <2>1, <2>2, <2>4
      <3>2. /\ i <= size - 1 /\ i <= length - 1
            /\ i + 1 \in 1 .. size /\ i + 1 \in 1 .. length
        BY <2>1, <3>1
      <3>3. node[n].log[i + 1] = node[p].log[i + 1]
        BY <2>2, <2>4, <3>2
      <3> QED BY <2>2, <3>2, <3>3 DEF At, log_max_index
    <2> QED BY <2>3, <2>4, Committed
  <1> QED BY <1>1, CommitInvariant, PTL


-----------------------------------------------------------------------------
(* No log is cut.                                                          *)

Extends(new, old) == Len(old) <= Len(new) /\ \A i \in 1 .. Len(old) : new[i] = old[i]

\* A broadcast and the service of the clients extend the log of the leader.
LEMMA LeaderExtends ==
    ASSUME NEW self, Logged(self), NEW n \in Node
    PROVE  /\ \A entry \in Entry : Extends(broadcast_append_entries(self, n, entry).log, self.log)
           /\ Extends(serve_client(self, n).log, self.log)
  <1>1. PICK size \in Nat : size = Len(self.log)
    BY LogSize
  <1>2. ASSUME NEW other, Logged(other), other.log = self.log, NEW entry \in Entry
        PROVE  Extends(broadcast_append_entries(other, n, entry).log, self.log)
    <2>1. broadcast_append_entries(other, n, entry).log = Append(self.log, entry)
      BY <1>2, BroadcastChanges
    <2>2. PICK longer : longer = Append(self.log, entry)
      OBVIOUS
    <2>3. Len(longer) = size + 1 /\ \A i \in 1 .. size : longer[i] = self.log[i]
      BY <1>1, <2>2, LongerLog DEF Logged, NodeState
    <2> QED BY <1>1, <2>1, <2>2, <2>3 DEF Extends
  <1>3. Extends(serve_client(self, n).log, self.log)
    <2>1. CASE self.client_queue = <<>>
      BY <1>1, <2>1 DEF serve_client, Extends
    <2>2. CASE self.client_queue # <<>>
      <3>1. PICK entry \in Entry : entry = Head(self.client_queue)
        BY <2>2, HeadTailProperties DEF Logged, NodeState
      <3>2. PICK rest \in Seq(Entry) : rest = Tail(self.client_queue)
        BY <2>2, HeadTailProperties DEF Logged, NodeState
      <3>3. PICK served : served = [self EXCEPT !.client_queue = rest]
        OBVIOUS
      <3>4. Logged(served) /\ served.log = self.log
        BY <3>3 DEF Logged, NodeState
      <3>5. serve_client(self, n) = broadcast_append_entries(served, n, entry)
        BY <2>2, <3>1, <3>2, <3>3 DEF serve_client
      <3> QED BY <1>2, <3>4, <3>5
    <2> QED BY <2>1, <2>2
  <1> QED BY <1>2, <1>3

\* So does every step of the leader.
LEMMA LeaderGrows ==
    ASSUME RaftInv, NEW n \in Node, NEW s \in Node,
           \/ LeaderAcknowledge(n, s) \/ LeaderClientRequest(n, s) \/ LeaderIgnore(n, s)
           \/ LeaderServeClient(n) \/ LeaderResend(n, s),
           NEW d \in Node
    PROVE  Extends(node'[d].log, node[d].log)
  <1>1. /\ node[n].loop = "leader" /\ Logged(node[n]) /\ Leads(node[n], n)
    BY LeaderStep
       DEF LeaderAcknowledge, LeaderClientRequest, LeaderIgnore, LeaderServeClient, LeaderResend
  <1>2. ASSUME NEW p \in Node
        PROVE  Len(node[p].log) \in Nat /\ Extends(node[p].log, node[p].log)
    <2>1. Len(node[p].log) \in Nat
      BY LogSize DEF RaftInv, LogInv
    <2> QED BY <2>1 DEF Extends
  <1>3. ASSUME NEW new, Logged(new), Extends(new.log, node[n].log),
               node' = [node EXCEPT ![n] = CheckRole(new)]
        PROVE  Extends(node'[d].log, node[d].log)
    <2>1. /\ \A p \in Node : p # n => node'[p] = node[p]
          /\ node'[n].log = new.log
      BY <1>3, ChangedLog DEF SameLog
    <2>2. CASE d = n
      BY <1>3, <2>1, <2>2
    <2>3. CASE d # n
      BY <1>2, <2>1, <2>3
    <2> QED BY <2>2, <2>3
  <1>4. ASSUME NEW self, Logged(self), Leads(self, n), Extends(self.log, node[n].log),
               NEW out, LeaderTurn(n, s, self, out)
        PROVE  Extends(node'[d].log, node[d].log)
    <2>1. PICK new : new = serve_client(self, n)
      OBVIOUS
    <2>2. Logged(new) /\ Extends(new.log, self.log)
      BY <1>4, <2>1, LeaderExtends, ServedLog
    <2>3. PICK i \in Nat, j \in Nat, k \in Nat :
              i = Len(node[n].log) /\ j = Len(self.log) /\ k = Len(new.log)
      BY <1>1, <1>4, <2>2, LogSize
    <2>4. i <= j /\ j <= k /\ \A x \in 1 .. i : self.log[x] = node[n].log[x]
      BY <1>4, <2>2, <2>3 DEF Extends
    <2>5. \A x \in 1 .. j : new.log[x] = self.log[x]
      BY <2>2, <2>3 DEF Extends
    <2>6. i <= k /\ \A x \in 1 .. i : x \in 1 .. j
      BY <2>4
    <2>7. Extends(new.log, node[n].log)
      BY <2>3, <2>4, <2>5, <2>6 DEF Extends
    <2> QED BY <1>3, <1>4, <2>1, <2>2, <2>7 DEF LeaderTurn, Handle
  <1>5. CASE LeaderAcknowledge(n, s) /\ node[n].next_index[s] # UpToDate
    <2>1. PICK success \in BOOLEAN : success = Head(chan[s][n]).success
      BY <1>5, GetsMessage, MessageFields DEF LeaderAcknowledge, RaftInv
    <2>2. PICK known : known = advance(node[n], s, success)
      OBVIOUS
    <2>3. Logged(known) /\ Leads(known, n) /\ known.log = node[n].log
      <3>1. Logged(known) /\ Leads(known, n)
        BY <1>1, <1>5, <2>2, Advanced
      <3>2. PICK next \in 1 .. log_max_index(node[n]) : next = node[n].next_index[s]
        BY <1>1, <1>5 DEF Leads
      <3> QED BY <1>1, <2>2, <3>1, <3>2, AdvanceChanges
    <2>4. PICK self : self = commit_replicated(known)
      OBVIOUS
    <2>5. Logged(self) /\ Leads(self, n) /\ self.log = node[n].log
      BY <2>3, <2>4, ReplicatedCommitted, CommitChanges, SMTT(30)
    <2>6. \E out : LeaderTurn(n, s, self, out)
      BY <1>5, <2>1, <2>2, <2>4 DEF LeaderAcknowledge
    <2> QED BY <1>2, <1>4, <2>5, <2>6, SMTT(30)
  <1>6. CASE LeaderAcknowledge(n, s) /\ node[n].next_index[s] = UpToDate
    <2>1. LeaderTurn(n, s, node[n], Quiet)
      BY <1>6 DEF LeaderAcknowledge
    <2> QED BY <1>1, <1>2, <1>4, <2>1
  <1>7. CASE LeaderClientRequest(n, s)
    <2>1. PICK entry \in Entry : entry = Head(chan[s][n]).entries
      BY <1>7, GetsMessage, MessageFields DEF LeaderClientRequest, RaftInv
    <2>2. PICK self : self = broadcast_append_entries(node[n], n, entry)
      OBVIOUS
    <2>3. LeaderTurn(n, s, self, broadcast_append_messages(node[n], entry))
      BY <1>7, <2>1, <2>2 DEF LeaderClientRequest
    <2>4. Logged(self) /\ Leads(self, n)
      BY <1>1, <2>2, BroadcastLeads DEF Leads
    <2>5. Extends(self.log, node[n].log)
      BY <1>1, <2>2, LeaderExtends
    <2> QED BY <1>4, <2>3, <2>4, <2>5
  <1>8. CASE LeaderIgnore(n, s)
    BY <1>1, <1>2, <1>4, <1>8 DEF LeaderIgnore
  <1>9. CASE LeaderServeClient(n)
    <2>1. PICK new : new = serve_client(node[n], n)
      OBVIOUS
    <2>2. Logged(new) /\ Extends(new.log, node[n].log)
      BY <1>1, <2>1, LeaderExtends, ServedLog
    <2> QED BY <1>3, <1>9, <2>1, <2>2 DEF LeaderServeClient, Act
  <1>10. CASE LeaderResend(n, s)
    BY <1>1, <1>2, <1>3, <1>10 DEF LeaderResend, Act
  <1> QED BY <1>5, <1>6, <1>7, <1>8, <1>9, <1>10


\* A follower's log is cut only where it ends, or before an entry that the
\* leader sends again.
LEMMA FollowerGrows ==
    ASSUME CommitInv, First, CanPause = {},
           NEW n \in Node, NEW s \in Node, FollowerAppendEntries(n, s), NEW d \in Node
    PROVE  Extends(node'[d].log, node[d].log)
  <1>1. RaftInv /\ LedInv /\ TrackInv /\ SteadyInv
    BY DEF CommitInv, ElectionInv, VotingInv
  <1>2. PICK m \in Message :
            /\ m = Head(chan[s][n]) /\ m.type = "AppendEntries"
            /\ m.prev_log_index \in Nat /\ m.entries \in Entry
    BY <1>1, GetsMessage, MessageFields DEF FollowerAppendEntries, RaftInv
  <1>3. PICK ok \in BOOLEAN : ok = (/\ m.term >= node[n].current_term
                                    /\ verify_entry(node[n], m.prev_log_index, m.prev_log_term))
    OBVIOUS
  <1>4. PICK commit \in BOOLEAN : commit = (m.leader_commit > node[n].commit_index)
    <2>1. (m.leader_commit > node[n].commit_index) \in BOOLEAN
      OBVIOUS
    <2> QED BY <2>1, Zenon
  <1>5. PICK self : self = IF ok THEN append_entry(node[n], m.entries, commit, m.prev_log_index)
                           ELSE node[n]
    OBVIOUS
  <1>6. /\ Gets(n, s, "AppendEntries") /\ Handle(n, s, self, SendTo(s, Acknowledge(ok)))
        /\ node[n].loop = "follower"
    BY <1>2, <1>3, <1>4, <1>5 DEF FollowerAppendEntries
  <1>7. ASSUME NEW p \in Node
        PROVE  /\ Logged(node[p]) /\ Len(node[p].log) \in Nat
               /\ Extends(node[p].log, node[p].log)
    <2>1. Logged(node[p]) /\ Len(node[p].log) \in Nat
      BY <1>1, LogSize DEF RaftInv, LogInv
    <2> QED BY <2>1 DEF Extends
  <1>8. Logged(self) /\ Extends(self.log, node[n].log)
    <2>1. CASE ok
      <3>1. m.prev_log_index < Len(node[n].log)
        BY <1>3, <2>1 DEF verify_entry
      <3>2. PICK k \in Nat : k = m.prev_log_index + 1
        BY <1>2
      <3>3. PICK new : new = append_entry(node[n], m.entries, commit, m.prev_log_index)
        OBVIOUS
      <3>4. /\ Logged(new) /\ Len(new.log) = k + 1 /\ new.log[k + 1] = m.entries
            /\ \A i \in 1 .. k : new.log[i] = node[n].log[i]
        <4>1. PICK prev \in Nat, entry \in Entry :
                 prev = m.prev_log_index /\ entry = m.entries
          BY <1>2
        <4>2. Logged(node[n]) /\ prev < Len(node[n].log) /\ prev + 1 = k /\ prev + 2 = k + 1
          BY <1>7, <3>1, <3>2, <4>1
        <4>3. new = append_entry(node[n], entry, commit, prev)
          BY <3>3, <4>1
        <4>4. /\ Logged(new) /\ Len(new.log) = prev + 2 /\ new.log[prev + 2] = entry
              /\ \A i \in 1 .. prev + 1 : new.log[i] = node[n].log[i]
          BY <4>2, <4>3, AppendChanges
        <4> QED BY <4>1, <4>2, <4>4
      <3>5. node[s].loop = "leader" /\ n # s
        BY <1>1, <1>6, GetsCredit DEF SteadyInv
      <3>6. PICK q \in Seq(Message) : q = chan[s][n] /\ 1 \in DOMAIN q /\ q[1] = m
        BY <1>1, <1>2, <1>6, GetsFirst
      <3>7. Tracks(node[s], n, node[n], q, chan[n][s])
        BY <1>1, <3>5, <3>6 DEF TrackInv
      <3>8. /\ UnderWay(node[s], node[n].log, node[s].next_index[n], q, chan[n][s])
            /\ Carries(m, node[s], node[s].next_index[n])
        BY <1>2, <3>6, <3>7 DEF Tracks, UnderWay, Has
      <3>9. PICK next \in Nat : next = node[s].next_index[n] /\ next >= 1
        <4>1. node[s].next_index[n] \in 1 .. log_max_index(node[s])
          BY <1>1, <1>2, <3>5, <3>6, <3>7 DEF Tracks, Has, RaftInv, LeaderInv, Leads
        <4>2. log_max_index(node[s]) \in Nat
          BY <1>7, LogSize
        <4> QED BY <4>1, <4>2
      <3>10. m.prev_log_index = next - 1 /\ m.entries = node[s].log[next + 1]
        BY <3>8, <3>9 DEF Carries
      <3>11. next = k
        BY <1>2, <3>2, <3>9, <3>10
      <3>12. PICK len \in {k, k + 1} : len = Len(node[n].log)
        BY <3>8, <3>9, <3>11 DEF UnderWay
      <3>13. ASSUME NEW i \in 1 .. len
             PROVE  new.log[i] = node[n].log[i]
        <4>1. CASE i = k + 1
          <5>1. node[n].log[i] = node[s].log[i]
            BY <3>7, <3>12, <3>13 DEF Tracks
          <5> QED BY <3>4, <3>10, <3>11, <4>1, <5>1
        <4>2. CASE i # k + 1
          <5>1. i \in 1 .. k
            BY <3>12, <4>2
          <5> QED BY <3>4, <5>1
        <4> QED BY <4>1, <4>2
      <3>14. len <= k + 1
        BY <3>12
      <3> QED BY <1>5, <2>1, <3>3, <3>4, <3>12, <3>13, <3>14 DEF Extends
    <2>2. CASE ~ ok
      BY <1>5, <1>7, <2>2
    <2> QED BY <2>1, <2>2
  <1>9. /\ \A p \in Node : p # n => node'[p] = node[p]
        /\ node'[n].log = self.log
    BY <1>1, <1>6, <1>8, ChangedLog DEF Handle, SameLog
  <1>10. CASE d = n
    BY <1>8, <1>9, <1>10
  <1>11. CASE d # n
    BY <1>7, <1>9, <1>11
  <1> QED BY <1>10, <1>11

\* Without pauses, every step of the first election extends every log.
LEMMA LogsGrow ==
    ASSUME CommitInv, CommitInv', First, First', CanPause = {}, [Next]_vars, NEW d \in Node
    PROVE  Extends(node'[d].log, node[d].log)
  <1>1. RaftInv /\ RaftInv' /\ VotingInv /\ ElectionInv /\ ElectionInv' /\ LedInv /\ LedInv'
    BY DEF CommitInv, ElectionInv, VotingInv
  <1>2. Len(node[d].log) \in Nat /\ Len(node'[d].log) \in Nat /\ Len(node'[d].log) > 0
    <2>1. Logged(node[d]) /\ Logged(node'[d])
      BY <1>1 DEF RaftInv, LogInv
    <2> QED BY <2>1, LogSize DEF Logged
  <1>3. CASE CalmStep
    BY <1>2, <1>3 DEF CalmStep, SameLog, Extends
  <1>4. ASSUME NEW n \in Node, NEW s \in Node, Wins(n, s)
        PROVE  Extends(node'[d].log, node[d].log)
    <2>1. node'[n].voted_for # Nobody
      BY <1>1, <1>4, VoterKept DEF LedInv, Wins
    <2>2. \A p \in Node : ~ Led(p)
      BY <1>1, <1>4, <2>1, ElectedStays, NobodyLed
    <2>3. Len(node[d].log) = 1 /\ node[d].log[1] = InitEntry
      BY <1>1, <2>2, NothingYet
    <2>4. node'[d].log[1] = InitEntry
      BY <1>1 DEF LedInv
    <2> QED BY <1>2, <2>3, <2>4 DEF Extends
  <1> QED BY <1>1, <1>3, <1>4, LogKinds, FollowerGrows, LeaderGrows

\* No step of the first leader cuts or replaces a committed entry, or any
\* other, as long as there is no second election.
THEOREM FirstCommittedKept ==
    MaxQueue <= 1 /\ CanPause = {} => (Spec /\ []First => CommittedKept)
  <1> SUFFICES ASSUME MaxQueue <= 1, CanPause = {}
               PROVE  Spec /\ []First => CommittedKept
    OBVIOUS
  <1>1. CommitInv /\ CommitInv' /\ First /\ First' /\ [Next]_vars =>
            [\A n \in Node : \A i \in 0 .. node[n].commit_index :
                 i <= log_max_index(node[n]) =>
                    i <= log_max_index(node'[n]) /\ At(node'[n], i) = At(node[n], i)]_vars
    <2> SUFFICES ASSUME CommitInv, CommitInv', First, First', [Next]_vars, NEW n \in Node,
                        NEW i \in 0 .. node[n].commit_index, i <= log_max_index(node[n])
                 PROVE  i <= log_max_index(node'[n]) /\ At(node'[n], i) = At(node[n], i)
      OBVIOUS
    <2>1. RaftInv /\ RaftInv'
      BY DEF CommitInv, ElectionInv, VotingInv
    <2>2. PICK size \in Nat, length \in Nat :
              size = Len(node[n].log) /\ length = Len(node'[n].log)
      <3>1. Logged(node[n]) /\ Logged(node'[n])
        BY <2>1 DEF RaftInv, LogInv
      <3> QED BY <3>1, LogSize
    <2>3. i \in Nat
      <3>1. node[n].commit_index \in Nat
        BY <2>1 DEF RaftInv, TypeOK, NodeState
      <3> QED BY <3>1
    <2>4. size <= length /\ \A k \in 1 .. size : node'[n].log[k] = node[n].log[k]
      BY <2>2, LogsGrow DEF Extends
    <2>5. i <= size - 1
      BY <2>2 DEF log_max_index
    <2>6. i + 1 \in 1 .. size /\ i <= length - 1
      BY <2>3, <2>4, <2>5
    <2> QED BY <2>2, <2>4, <2>6 DEF log_max_index, At
  <1>2. Spec => []CommitInv
    BY CommitInvariant
  <1> QED BY <1>1, <1>2, PTL DEF Spec, CommittedKept
=============================================================================
