------------------------ MODULE RaftElection_proofs ------------------------
(***************************************************************************)
(* The first election of src/raft/raft.py, for any set of nodes: whatever  *)
(* is lost, reordered or paused, the votes a candidate counts are those it *)
(* was granted.  A later election may count a vote that is still under way *)
(* from an earlier one, since a vote carries no term (RaftStaleVotes.cfg). *)
(***************************************************************************)
EXTENDS Raft_proofs

\* No node has started a second election.
First == \A n \in Node : node[n].current_term <= 2

Stands(n) == node[n].loop \in {"candidate", "leader"}

IsVote(m) == m.type = "Vote" /\ m.vote_granted
HasVote(q) == \E i \in DOMAIN q : IsVote(q[i])
SingleVote(q) == \A i, j \in DOMAIN q : IsVote(q[i]) /\ IsVote(q[j]) => i = j

\* Who has granted n its vote in the first election, and whose is under way.
Granters(n) == {v \in Node : <<v, 2, n>> \in granted}
Pending(n) == {v \in Node : HasVote(chan[v][n])}

\* Votes are asked for and granted in the terms of elections, and only for
\* nodes that have begun one.
TermInv ==
    /\ \A n \in Node : node[n].current_term >= 1
    /\ \A n \in Node : Stands(n) => node[n].current_term >= 2
    /\ \A n, d \in Node : \A i \in DOMAIN chan[n][d] :
          chan[n][d][i].type = "RequestVotes" =>
              chan[n][d][i].term >= 2 /\ node[n].current_term >= 2
    /\ \A g \in granted : g[2] >= 2 /\ node[g[3]].current_term >= 2

\* A vote under way was granted and is the only one of its channel; what a
\* candidate has counted are other votes it was granted.
Polled(n) ==
    /\ Pending(n) \subseteq Granters(n)
    /\ Stands(n) => n \in Granters(n)
    /\ node[n].loop = "candidate" =>
          /\ \A v \in Node : SingleVote(chan[v][n])
          /\ node[n].votes_for_me <= Cardinality(Granters(n) \ Pending(n))
    /\ node[n].loop = "leader" => 2 * Cardinality(Granters(n)) > Cardinality(Node)

CountInv == First => \A n \in Node : Polled(n)

ElectionInv == VotingInv /\ TermInv /\ CountInv

-----------------------------------------------------------------------------
(* Votes in a channel.                                                     *)

\* A channel that only loses its head and gains plain messages gains no vote.
LEMMA KeptVotes ==
    ASSUME NEW old \in Seq(Message), NEW new \in Seq(Message), Kept(new, old)
    PROVE  /\ HasVote(new) => HasVote(old)
           /\ SingleVote(old) => SingleVote(new)
           /\ \A i \in DOMAIN new : new[i].type = "RequestVotes" =>
                 \E j \in DOMAIN old : old[j] = new[i]
  <1>1. PICK k \in {0, 1} : \A i \in DOMAIN new :
            new[i] \in PlainMessage \/ (i + k \in DOMAIN old /\ new[i] = old[i + k])
    BY DEF Kept, Passed
  <1>2. \A i \in DOMAIN new :
            IsVote(new[i]) \/ new[i].type = "RequestVotes" =>
                i + k \in DOMAIN old /\ new[i] = old[i + k]
    BY <1>1 DEF PlainMessage, IsVote
  <1>3. HasVote(new) => HasVote(old)
    BY <1>2, Zenon DEF HasVote
  <1>4. SingleVote(old) => SingleVote(new)
    <2>1. \A i, j \in DOMAIN new : i + k = j + k => i = j
      BY LenProperties
    <2> QED BY <1>2, <2>1, Zenon DEF SingleVote
  <1> QED BY <1>2, <1>3, <1>4

\* A message at the end of a channel comes after all others.
LEMMA AddedLast ==
    ASSUME NEW q \in Seq(Message), NEW m \in Message
    PROVE  /\ q \o <<m>> \in Seq(Message)
           /\ \A i \in DOMAIN (q \o <<m>>) :
                 \/ i \in DOMAIN q /\ (q \o <<m>>)[i] = q[i]
                 \/ i = Len(q) + 1 /\ (q \o <<m>>)[i] = m
  <1>1. <<m>> \in Seq(Message) /\ Len(<<m>>) = 1 /\ <<m>>[1] = m
    OBVIOUS
  <1>2. PICK new \in Seq(Message) : new = q \o <<m>>
    BY <1>1, ConcatProperties
  <1>3. /\ Len(q) \in Nat /\ DOMAIN q = 1 .. Len(q) /\ DOMAIN new = 1 .. Len(new)
        /\ Len(new) = Len(q) + 1
        /\ \A i \in 1 .. Len(q) + 1 :
              new[i] = IF i <= Len(q) THEN q[i] ELSE <<m>>[i - Len(q)]
    BY <1>1, <1>2, LenProperties, ConcatProperties
  <1>4. ASSUME NEW i \in DOMAIN new
        PROVE  (i \in DOMAIN q /\ new[i] = q[i]) \/ (i = Len(q) + 1 /\ new[i] = m)
    <2>1. CASE i <= Len(q)
      BY <1>3, <2>1
    <2>2. CASE i > Len(q)
      <3>1. i = Len(q) + 1 /\ i - Len(q) = 1
        BY <1>3, <2>2
      <3> QED BY <1>1, <1>3, <2>2, <3>1
    <2> QED BY <1>3, <2>1, <2>2
  <1> QED BY <1>2, <1>4, Zenon

\* It adds at most its own vote.
LEMMA AddedVotes ==
    ASSUME NEW q \in Seq(Message), NEW m \in Message
    PROVE  /\ q \o <<m>> \in Seq(Message)
           /\ HasVote(q \o <<m>>) => HasVote(q) \/ IsVote(m)
           /\ SingleVote(q) /\ ~ (HasVote(q) /\ IsVote(m)) => SingleVote(q \o <<m>>)
           /\ \A i \in DOMAIN (q \o <<m>>) :
                 (q \o <<m>>)[i] = m \/ \E j \in DOMAIN q : q[j] = (q \o <<m>>)[i]
  <1>1. PICK new : new = q \o <<m>>
    OBVIOUS
  <1>2. /\ new \in Seq(Message)
        /\ \A i \in DOMAIN new :
              (i \in DOMAIN q /\ new[i] = q[i]) \/ (i = Len(q) + 1 /\ new[i] = m)
    BY <1>1, AddedLast, Zenon
  <1>3. HasVote(new) => HasVote(q) \/ IsVote(m)
    BY <1>2, Zenon DEF HasVote
  <1>4. SingleVote(q) /\ ~ (HasVote(q) /\ IsVote(m)) => SingleVote(new)
    BY <1>2, Zenon DEF SingleVote, HasVote
  <1>5. \A i \in DOMAIN new : new[i] = m \/ \E j \in DOMAIN q : q[j] = new[i]
    BY <1>2, Zenon
  <1> QED BY <1>1, <1>2, <1>3, <1>4, <1>5, Zenon

-----------------------------------------------------------------------------
(* What a step does to terms, loops and channels.                          *)

\* The types that the counting of votes rests on.
LEMMA Typed ==
    ASSUME VotingInv
    PROVE  /\ node \in [Node -> NodeState] /\ granted \subseteq Node \X Nat \X Node
           /\ \A p \in Node : node[p].current_term \in Nat /\ node[p].votes_for_me \in Nat
           /\ \A a, b \in Node : chan[a][b] \in Seq(Message)
  BY DEF VotingInv, RaftInv, TypeOK, NodeState

\* What no thread of a node does.
Environment ==
    \/ \E n \in Node, v \in Value : client_request(n, v)
    \/ \E n \in Node : pause(n) \/ un_pause(n)
    \/ \E s, d \in Node : Lose(s, d)
    \/ UNCHANGED vars

\* The kinds of steps, as the votes see them.
LEMMA StepKinds ==
    ASSUME VotingInv, [Next]_vars
    PROVE  \/ \E n \in Node : Silent(n) /\ PlainSent
           \/ \E n, s \in Node : Grants(n, s) /\ VoteSent(n, s)
           \/ \E n, s \in Node : CandidateVote(n, s)
           \/ \E n \in Node : BeginElection(n)
           \/ /\ Environment
              /\ UNCHANGED granted /\ PlainSent /\ \A p \in Node : Unmoved(p)
  <1>1. RaftInv
    BY DEF VotingInv
  <1>2. ASSUME NEW n \in Node, NEW s \in Node, Receive(n, s), ~ CandidateVote(n, s)
        PROVE  (Silent(n) /\ PlainSent) \/ (Grants(n, s) /\ VoteSent(n, s))
    <2>1. CASE FollowerRequestVotes(n, s) \/ StepDown(n, s)
      BY <1>1, <2>1, FollowerGrants, StepDownVotes
    <2>2. CASE ~ (FollowerRequestVotes(n, s) \/ StepDown(n, s))
      <3>1. Silent(n)
        BY <1>1, <1>2, <2>2, FollowerHeartbeatVotes, FollowerOtherVotes, CandidateOtherVotes,
           LeaderVotes
           DEF Receive
      <3>2. PlainSent
        BY <1>1, <1>2, <2>2, FollowerHears, FollowerAppends, FollowerCommits, FollowerIgnores,
           CandidateHears, CandidateIgnores, LeaderAcknowledged, LeaderIsAsked, LeaderIgnores
           DEF Receive
      <3> QED BY <3>1, <3>2
    <2> QED BY <2>1, <2>2
  <1>3. ASSUME NEW n \in Node, NEW d \in Node,
               LeaderServeClient(n) \/ LeaderHeartbeat(n) \/ LeaderResend(n, d) \/ run(n)
        PROVE  Silent(n) /\ PlainSent
    BY <1>1, <1>3, LeaderVotes, RunVotes, LeaderServes, LeaderBeats, LeaderRepeats, Runs
  <1>4. CASE Environment
    BY <1>4, EnvironmentSteps DEF Environment
  <1> QED BY <1>2, <1>3, <1>4 DEF Next, Environment

\* A candidate that handles a vote takes it out of the air.
LEMMA VoteCounted ==
    ASSUME VotingInv, NEW n \in Node, NEW s \in Node, CandidateVote(n, s)
    PROVE  /\ Counts(n, s) /\ PlainSent /\ Taken(n, s)
           /\ node[n].loop = "candidate" /\ Gets(n, s, "Vote")
  BY CandidateVoted, CandidateCounts DEF VotingInv, CandidateVote

\* The beginning of an election.
LEMMA Begun ==
    ASSUME VotingInv, NEW n \in Node, BeginElection(n)
    PROVE  /\ granted' = granted \cup {<<n, node[n].current_term + 1, n>>}
           /\ \A p \in Node : p # n => node'[p] = node[p]
           /\ node'[n].current_term = node[n].current_term + 1
           /\ node'[n].loop = "candidate" /\ node'[n].votes_for_me = 0
           /\ node'[n].role = "candidate" /\ node'[n].voted_for = n
           /\ \E r \in Message :
                 /\ r.type = "RequestVotes" /\ r.term = node[n].current_term + 1
                 /\ \A a, b \in Node :
                       chan'[a][b] = IF a # n THEN chan[a][b]
                                     ELSE IF b # n THEN chan[a][b] \o <<r>>
                                     ELSE (chan[a][b] \o <<r>>) \o <<Vote(TRUE)>>
  <1>1. Logged(node[n]) /\ node[n].current_term \in Nat /\ node \in [Node -> NodeState]
    BY Typed DEF VotingInv, RaftInv, LogInv
  <1>2. PICK term \in Nat : term = node[n].current_term + 1
    BY <1>1
  <1>3. PICK self : self = [set_current_role(send_vote(increment_term(node[n], term), n),
                                             "candidate") EXCEPT !.votes_for_me = 0]
    OBVIOUS
  <1>4. /\ Logged(self) /\ self.current_term = term /\ self.role = "candidate"
        /\ self.votes_for_me = 0 /\ self.voted_for = n
    BY <1>1, <1>3 DEF set_current_role, send_vote, increment_term, Logged, NodeState, Role
  <1>5. /\ Act(n, self, Then(SendAll(RequestVotes(self)), SendTo(n, Vote(TRUE))))
        /\ granted' = granted \cup {<<n, term, n>>}
    BY <1>2, <1>3 DEF BeginElection
  <1>6. PICK new : new = CheckRole(self)
    OBVIOUS
  <1>7. /\ new.current_term = term /\ new.loop = "candidate" /\ new.votes_for_me = 0
        /\ new.role = "candidate" /\ new.voted_for = n
    BY <1>4, <1>6 DEF CheckRole, Logged, NodeState
  <1>8. \A p \in Node : node'[p] = IF p = n THEN new ELSE node[p]
    BY <1>1, <1>5, <1>6 DEF Act
  <1>9. PICK r \in Message : r = RequestVotes(self)
    BY <1>4, MessageTypes
  <1>10. r.type = "RequestVotes" /\ r.term = term
    BY <1>4, <1>9 DEF RequestVotes
  <1>11. ASSUME NEW a \in Node, NEW b \in Node
         PROVE  chan'[a][b] = IF a # n THEN chan[a][b]
                              ELSE IF b # n THEN chan[a][b] \o <<r>>
                              ELSE (chan[a][b] \o <<r>>) \o <<Vote(TRUE)>>
    <2>1. CASE a # n
      BY <1>5, <2>1 DEF Act, VotingInv, RaftInv, TypeOK
    <2>2. CASE a = n
      <3>1. PICK q \in Seq(Message) : q = chan[a][b]
        BY Typed
      <3>2. PICK out : out = <<r>> \o (IF b = n THEN <<Vote(TRUE)>> ELSE <<>>)
        OBVIOUS
      <3>3. chan'[a][b] = q \o out
        BY <1>5, <1>9, <2>2, <3>1, <3>2
           DEF Act, Then, SendAll, SendTo, VotingInv, RaftInv, TypeOK
      <3>4. <<r>> \in Seq(Message) /\ <<Vote(TRUE)>> \in Seq(Message)
        <4>1. PICK vote \in Message : vote = Vote(TRUE)
          BY <1>4, MessageTypes
        <4>2. <<r>> \in Seq(Message) /\ <<vote>> \in Seq(Message)
          OBVIOUS
        <4> QED BY <4>1, <4>2, Zenon
      <3>5. q \o (<<r>> \o <<Vote(TRUE)>>) = (q \o <<r>>) \o <<Vote(TRUE)>>
        BY <3>4, ConcatAssociative
      <3>6. <<r>> \o <<>> = <<r>>
        BY <3>4, ConcatEmptySeq
      <3> QED BY <2>2, <3>1, <3>2, <3>3, <3>5, <3>6
    <2> QED BY <2>1, <2>2
  <1> QED BY <1>2, <1>5, <1>7, <1>8, <1>10, <1>11

-----------------------------------------------------------------------------
(* Terms.                                                                  *)

\* No term decreases, and nobody stands in a term that no election began.
Forward(p) ==
    /\ node'[p].current_term >= node[p].current_term
    /\ Stands(p)' => Stands(p) \/ node'[p].current_term >= 2

\* Terms stay those of elections when nobody goes back and what is new is of one.
LEMMA TermKept ==
    ASSUME VotingInv, VotingInv', TermInv, \A p \in Node : Forward(p),
           \A a, b \in Node : \A i \in DOMAIN chan'[a][b] :
               chan'[a][b][i].type = "RequestVotes" =>
                   \/ \E j \in DOMAIN chan[a][b] : chan[a][b][j] = chan'[a][b][i]
                   \/ chan'[a][b][i].term >= 2 /\ node'[a].current_term >= 2,
           \A g \in granted' :
               g \in granted \/ (g[2] >= 2 /\ node'[g[3]].current_term >= 2)
    PROVE  TermInv' /\ (First' => First)
  <1>1. /\ \A p \in Node : node[p].current_term \in Nat /\ node'[p].current_term \in Nat
        /\ \A g \in granted : g[3] \in Node
    BY Typed DEF VotingInv, RaftInv, TypeOK, NodeState
  <1>2. \A p \in Node : node[p].current_term >= 2 => node'[p].current_term >= 2
    BY <1>1 DEF Forward
  <1>3. \A p \in Node : node'[p].current_term >= 1 /\ (Stands(p)' => node'[p].current_term >= 2)
    BY <1>1 DEF Forward, TermInv
  <1>4. ASSUME NEW a \in Node, NEW b \in Node, NEW i \in DOMAIN chan'[a][b],
               chan'[a][b][i].type = "RequestVotes"
        PROVE  chan'[a][b][i].term >= 2 /\ node'[a].current_term >= 2
    <2>1. CASE \E j \in DOMAIN chan[a][b] : chan[a][b][j] = chan'[a][b][i]
      <3>1. PICK m : m = chan'[a][b][i] /\ m.type = "RequestVotes"
        BY <1>4
      <3>2. m.term >= 2 /\ node[a].current_term >= 2
        BY <2>1, <3>1, Zenon DEF TermInv
      <3> QED BY <1>2, <3>1, <3>2
    <2> QED BY <1>4, <2>1, Zenon
  <1>5. \A g \in granted' : g[2] >= 2 /\ node'[g[3]].current_term >= 2
    BY <1>1, <1>2, Zenon DEF TermInv
  <1>6. First' => First
    BY <1>1 DEF Forward, First
  <1> QED BY <1>3, <1>4, <1>5, <1>6 DEF TermInv

\* The requests of a channel that is kept are not new.
LEMMA KeptRequests ==
    ASSUME VotingInv, VotingInv', NEW a \in Node, NEW b \in Node,
           Kept(chan'[a][b], chan[a][b])
    PROVE  \A i \in DOMAIN chan'[a][b] : chan'[a][b][i].type = "RequestVotes" =>
              \E j \in DOMAIN chan[a][b] : chan[a][b][j] = chan'[a][b][i]
  <1>1. chan[a][b] \in Seq(Message) /\ chan'[a][b] \in Seq(Message)
    BY DEF VotingInv, RaftInv, TypeOK
  <1> QED BY <1>1, KeptVotes

\* A step without votes keeps the terms.
LEMMA TermQuiet ==
    ASSUME VotingInv, VotingInv', TermInv, \A p \in Node : Forward(p), UNCHANGED granted,
           PlainSent
    PROVE  TermInv' /\ (First' => First)
  BY KeptRequests, TermKept DEF PlainSent

\* The states a step of n alone leads to.
LEMMA Changed ==
    ASSUME VotingInv, NEW n \in Node, NEW self, Logged(self),
           node' = [node EXCEPT ![n] = CheckRole(self)]
    PROVE  /\ \A p \in Node : p # n => node'[p] = node[p]
           /\ node'[n].current_term = self.current_term /\ self.current_term \in Nat
           /\ node'[n].loop = self.role
           /\ self.role = "candidate" => node'[n].votes_for_me = self.votes_for_me
           /\ node'[n].role = self.role /\ node'[n].voted_for = self.voted_for
  <1>1. PICK new : new = CheckRole(self)
    OBVIOUS
  <1>2. /\ new.current_term = self.current_term /\ self.current_term \in Nat
        /\ new.loop = self.role /\ new.role = self.role /\ new.voted_for = self.voted_for
        /\ self.role = "candidate" => new.votes_for_me = self.votes_for_me
    BY <1>1 DEF CheckRole, Logged, NodeState
  <1>3. \A p \in Node : node'[p] = IF p = n THEN new ELSE node[p]
    BY <1>1, Typed
  <1> QED BY <1>2, <1>3

\* A node that a step leaves alone has not gone back.
LEMMA OthersForward ==
    ASSUME VotingInv, NEW p \in Node, node'[p] = node[p]
    PROVE  Forward(p)
  BY Typed DEF Forward, Stands

\* A silent step grants nothing and makes nobody a candidate or a leader.
LEMMA SilentForward ==
    ASSUME VotingInv, NEW n \in Node, Silent(n)
    PROVE  /\ \A p \in Node : Forward(p)
           /\ UNCHANGED granted
           /\ \A p \in Node : p # n => node'[p] = node[p]
           /\ node'[n].loop = "leader" => node[n].loop = "leader"
           /\ node'[n].loop = "candidate" =>
                 node[n].loop = "candidate" /\ node'[n].votes_for_me = node[n].votes_for_me
  <1>1. PICK self :
            /\ Logged(self) /\ Changes(n, self)
            /\ self.role = "leader" => node[n].loop = "leader"
            /\ self.role = "candidate" =>
                  node[n].loop = "candidate" /\ self.votes_for_me = node[n].votes_for_me
            /\ self.current_term > node[n].current_term
                  \/ self.current_term = node[n].current_term
    BY DEF Silent
  <1>2. /\ \A p \in Node : p # n => node'[p] = node[p]
        /\ node'[n].current_term = self.current_term /\ self.current_term \in Nat
        /\ node'[n].loop = self.role
        /\ self.role = "candidate" => node'[n].votes_for_me = self.votes_for_me
    BY <1>1, Changed DEF Changes
  <1>3. Forward(n)
    BY <1>1, <1>2, Typed DEF Forward, Stands
  <1> QED BY <1>1, <1>2, <1>3, OthersForward DEF Changes

\* The votes of a channel, before and after a step that sends none into it.
NoVoteSent(a, b) ==
    /\ HasVote(chan'[a][b]) => HasVote(chan[a][b])
    /\ SingleVote(chan[a][b]) => SingleVote(chan'[a][b])

\* A channel that keeps its messages has got no vote.
LEMMA KeptNoVote ==
    ASSUME VotingInv, VotingInv', NEW a \in Node, NEW b \in Node,
           Kept(chan'[a][b], chan[a][b])
    PROVE  NoVoteSent(a, b)
  <1>1. chan[a][b] \in Seq(Message) /\ chan'[a][b] \in Seq(Message)
    BY DEF VotingInv, RaftInv, TypeOK
  <1> QED BY <1>1, KeptVotes DEF NoVoteSent

\* A grant puts one vote into one channel.
LEMMA OneVoteSent ==
    ASSUME VotingInv, VotingInv', NEW n \in Node, NEW s \in Node, VoteSent(n, s)
    PROVE  /\ \A a, b \in Node : a # n \/ b # s => NoVoteSent(a, b)
           /\ SingleVote(chan[n][s]) /\ ~ HasVote(chan[n][s]) => SingleVote(chan'[n][s])
           /\ \A a, b \in Node : \A i \in DOMAIN chan'[a][b] :
                 chan'[a][b][i].type = "RequestVotes" =>
                     \E j \in DOMAIN chan[a][b] : chan[a][b][j] = chan'[a][b][i]
  <1>1. PICK q \in Seq(Message) : Kept(q, chan[n][s]) /\ chan'[n][s] = q \o <<Vote(TRUE)>>
    BY DEF VoteSent
  <1>2. PICK vote \in Message : vote = Vote(TRUE) /\ vote.type = "Vote"
    <2>1. Logged(node[n])
      BY DEF VotingInv, RaftInv, LogInv
    <2>2. Vote(TRUE) \in Message /\ Vote(TRUE).type = "Vote"
      BY <2>1, MessageTypes DEF Vote
    <2> QED BY <2>2
  <1>3. chan[n][s] \in Seq(Message)
    BY Typed
  <1>4. PICK new : new = chan'[n][s] /\ new = q \o <<vote>>
    BY <1>1, <1>2
  <1>5. SingleVote(chan[n][s]) /\ ~ HasVote(chan[n][s]) => SingleVote(new)
    <2>1. SingleVote(q) /\ ~ (HasVote(q) /\ IsVote(vote)) => SingleVote(q \o <<vote>>)
      BY AddedVotes
    <2>2. (HasVote(q) => HasVote(chan[n][s])) /\ (SingleVote(chan[n][s]) => SingleVote(q))
      BY <1>1, <1>3, KeptVotes
    <2> QED BY <1>4, <2>1, <2>2, Zenon
  <1>6. ASSUME NEW i \in DOMAIN new, new[i].type = "RequestVotes"
        PROVE  \E j \in DOMAIN chan[n][s] : chan[n][s][j] = new[i]
    <2>1. \A k \in DOMAIN (q \o <<vote>>) :
             (q \o <<vote>>)[k] = vote \/ \E j \in DOMAIN q : q[j] = (q \o <<vote>>)[k]
      BY AddedVotes
    <2>2. new[i] = vote \/ \E j \in DOMAIN q : q[j] = new[i]
      BY <1>4, <2>1, Zenon
    <2>3. PICK j \in DOMAIN q : q[j] = new[i]
      BY <1>2, <1>6, <2>2
    <2>4. q[j].type = "RequestVotes"
      BY <1>6, <2>3
    <2> QED BY <1>1, <1>3, <2>3, <2>4, KeptVotes
  <1>7. \A a, b \in Node : a # n \/ b # s => NoVoteSent(a, b)
    BY KeptNoVote DEF VoteSent
  <1>8. ASSUME NEW a \in Node, NEW b \in Node, NEW i \in DOMAIN chan'[a][b],
               chan'[a][b][i].type = "RequestVotes"
        PROVE  \E j \in DOMAIN chan[a][b] : chan[a][b][j] = chan'[a][b][i]
    <2>1. CASE a # n \/ b # s
      BY <1>8, <2>1, KeptRequests DEF VoteSent
    <2>2. CASE a = n /\ b = s
      BY <1>4, <1>6, <1>8, <2>2
    <2> QED BY <2>1, <2>2
  <1> QED BY <1>4, <1>5, <1>7, <1>8

\* Who grants its vote is in the term of an election, and neither stands in it.
LEMMA GrantForward ==
    ASSUME VotingInv, TermInv, NEW n \in Node, NEW s \in Node, Grants(n, s)
    PROVE  /\ \A p \in Node : Forward(p)
           /\ \A p \in Node : p # n => node'[p] = node[p]
           /\ node'[n].loop \notin {"candidate", "leader"}
           /\ granted' = granted \cup {<<n, node'[n].current_term, s>>}
           /\ node'[n].current_term >= 2 /\ node'[s].current_term >= 2
           /\ s # n => <<n, node'[n].current_term, s>> \notin granted
  <1>1. PICK m \in Message :
           /\ m = Head(chan[s][n]) /\ m.type = "RequestVotes" /\ m.term \in Nat
           /\ m.term >= 2 /\ node[s].current_term >= 2
    <2>1. PICK q \in Seq(Message) : q = chan[s][n] /\ q # <<>> /\ Head(q).type = "RequestVotes"
      BY Typed DEF Grants, Gets
    <2>2. PICK m \in Message : m = Head(q) /\ m = q[1] /\ 1 \in DOMAIN q
      BY <2>1, HeadTailProperties, LenProperties
    <2>3. m.type = "RequestVotes" /\ m.term \in Nat
      BY <2>1, <2>2, MessageFields
    <2>4. m.term >= 2 /\ node[s].current_term >= 2
      BY <2>1, <2>2, <2>3 DEF TermInv
    <2> QED BY <2>1, <2>2, <2>3, <2>4
  <1>2. PICK self :
           /\ Logged(self) /\ node' = [node EXCEPT ![n] = CheckRole(self)]
           /\ self.current_term >= Head(chan[s][n]).term
           /\ granted' = granted \cup {<<n, self.current_term, s>>}
           /\ \/ self.current_term > node[n].current_term
              \/ self.current_term = node[n].current_term /\ node[n].voted_for = Nobody
           /\ self.role \notin {"candidate", "leader"}
    BY DEF Grants
  <1>3. /\ \A p \in Node : p # n => node'[p] = node[p]
        /\ node'[n].current_term = self.current_term /\ self.current_term \in Nat
        /\ node'[n].loop = self.role
    BY <1>2, Changed
  <1>4. node'[n].current_term >= 2 /\ node'[s].current_term >= 2
    BY <1>1, <1>2, <1>3
  <1>5. Forward(n)
    BY <1>2, <1>3, <1>4, Typed DEF Forward
  <1>6. ASSUME s # n, <<n, self.current_term, s>> \in granted
        PROVE  FALSE
    <2>1. PICK g \in granted : g[1] = n /\ g[2] = self.current_term /\ g[3] = s
      BY <1>6
    <2> QED BY <1>2, <1>3, <1>6, <2>1, Typed DEF VotingInv, GrantInv
  <1> QED BY <1>2, <1>3, <1>4, <1>5, <1>6, OthersForward

\* An election sends its requests, and one vote to the candidate itself.
LEMMA BegunChannels ==
    ASSUME VotingInv, TermInv, NEW n \in Node, BeginElection(n)
    PROVE  /\ \A a, b \in Node : a # n \/ b # n => NoVoteSent(a, b)
           /\ ~ HasVote(chan[n][n]) => SingleVote(chan'[n][n])
           /\ \A a, b \in Node : \A i \in DOMAIN chan'[a][b] :
                 chan'[a][b][i].type = "RequestVotes" =>
                     \/ \E j \in DOMAIN chan[a][b] : chan[a][b][j] = chan'[a][b][i]
                     \/ chan'[a][b][i].term >= 2 /\ node'[a].current_term >= 2
  <1>1. PICK r \in Message :
           /\ r.type = "RequestVotes" /\ r.term = node[n].current_term + 1
           /\ \A a, b \in Node :
                 chan'[a][b] = IF a # n THEN chan[a][b]
                               ELSE IF b # n THEN chan[a][b] \o <<r>>
                               ELSE (chan[a][b] \o <<r>>) \o <<Vote(TRUE)>>
    BY Begun
  <1>2. r.term >= 2 /\ node'[n].current_term >= 2 /\ ~ IsVote(r)
    BY <1>1, Begun, Typed DEF TermInv, IsVote
  <1>3. PICK vote \in Message : vote = Vote(TRUE) /\ vote.type = "Vote"
    <2>1. Logged(node[n])
      BY DEF VotingInv, RaftInv, LogInv
    <2>2. Vote(TRUE) \in Message /\ Vote(TRUE).type = "Vote"
      BY <2>1, MessageTypes DEF Vote
    <2> QED BY <2>2
  \* The channel q after the request, and after the vote.
  <1>4. ASSUME NEW q \in Seq(Message), NEW asked, asked = q \o <<r>>
        PROVE  /\ asked \in Seq(Message) /\ (HasVote(asked) => HasVote(q))
               /\ SingleVote(q) => SingleVote(asked)
               /\ \A i \in DOMAIN asked : asked[i] = r \/ \E j \in DOMAIN q : q[j] = asked[i]
    <2>1. /\ q \o <<r>> \in Seq(Message)
          /\ HasVote(q \o <<r>>) => HasVote(q) \/ IsVote(r)
          /\ SingleVote(q) /\ ~ (HasVote(q) /\ IsVote(r)) => SingleVote(q \o <<r>>)
          /\ \A i \in DOMAIN (q \o <<r>>) :
                (q \o <<r>>)[i] = r \/ \E j \in DOMAIN q : q[j] = (q \o <<r>>)[i]
      BY AddedVotes
    <2> QED BY <1>2, <1>4, <2>1, Zenon
  <1>5. ASSUME NEW q \in Seq(Message), NEW voted, voted = q \o <<vote>>
        PROVE  /\ ~ HasVote(q) => SingleVote(voted)
               /\ \A i \in DOMAIN voted : voted[i] = vote \/ \E j \in DOMAIN q : q[j] = voted[i]
    <2>1. /\ SingleVote(q) /\ ~ (HasVote(q) /\ IsVote(vote)) => SingleVote(q \o <<vote>>)
          /\ \A i \in DOMAIN (q \o <<vote>>) :
                (q \o <<vote>>)[i] = vote \/ \E j \in DOMAIN q : q[j] = (q \o <<vote>>)[i]
      BY AddedVotes
    <2>2. ~ HasVote(q) => SingleVote(q)
      BY Zenon DEF HasVote, SingleVote
    <2> QED BY <1>5, <2>1, <2>2, Zenon
  <1>6. ASSUME NEW b \in Node
        PROVE  \E asked \in Seq(Message) :
                  /\ asked = chan[n][b] \o <<r>> /\ (HasVote(asked) => HasVote(chan[n][b]))
                  /\ SingleVote(chan[n][b]) => SingleVote(asked)
                  /\ \A i \in DOMAIN asked :
                        asked[i] = r \/ \E j \in DOMAIN chan[n][b] : chan[n][b][j] = asked[i]
                  /\ chan'[n][b] = IF b # n THEN asked ELSE asked \o <<vote>>
    <2>1. PICK q \in Seq(Message) : q = chan[n][b]
      BY Typed
    <2>2. PICK asked : asked = q \o <<r>>
      OBVIOUS
    <2>3. chan'[n][b] = IF b # n THEN asked ELSE asked \o <<vote>>
      BY <1>1, <1>3, <2>1, <2>2
    <2>4. /\ asked \in Seq(Message) /\ (HasVote(asked) => HasVote(q))
          /\ SingleVote(q) => SingleVote(asked)
          /\ \A i \in DOMAIN asked : asked[i] = r \/ \E j \in DOMAIN q : q[j] = asked[i]
      BY <1>4, <2>2, ZenonT(60)
    <2> QED BY <2>1, <2>2, <2>3, <2>4
  <1>7. ASSUME NEW a \in Node, NEW b \in Node, a # n \/ b # n
        PROVE  NoVoteSent(a, b)
    <2>1. CASE a # n
      BY <1>1, <2>1 DEF NoVoteSent
    <2>2. CASE a = n
      BY <1>6, <1>7, <2>2, Zenon DEF NoVoteSent
    <2> QED BY <2>1, <2>2
  <1>8. ~ HasVote(chan[n][n]) => SingleVote(chan'[n][n])
    BY <1>5, <1>6, Zenon
  <1>9. ASSUME NEW a \in Node, NEW b \in Node, NEW i \in DOMAIN chan'[a][b],
               chan'[a][b][i].type = "RequestVotes"
        PROVE  \/ \E j \in DOMAIN chan[a][b] : chan[a][b][j] = chan'[a][b][i]
               \/ chan'[a][b][i].term >= 2 /\ node'[a].current_term >= 2
    <2>1. CASE a # n
      BY <1>1, <1>9, <2>1
    <2>2. CASE a = n
      <3>1. PICK asked \in Seq(Message) :
               /\ \A k \in DOMAIN asked :
                     asked[k] = r \/ \E j \in DOMAIN chan[n][b] : chan[n][b][j] = asked[k]
               /\ chan'[n][b] = IF b # n THEN asked ELSE asked \o <<vote>>
        BY <1>6, Zenon
      <3>2. PICK new : new = chan'[n][b]
        OBVIOUS
      <3>3. i \in DOMAIN new /\ new[i].type = "RequestVotes"
        BY <1>9, <2>2, <3>2
      <3>4. new[i] = vote \/ \E k \in DOMAIN asked : asked[k] = new[i]
        BY <1>5, <3>1, <3>2, <3>3, Zenon
      <3>5. PICK k \in DOMAIN asked : asked[k] = new[i]
        BY <1>3, <3>3, <3>4
      <3>6. new[i] = r \/ \E j \in DOMAIN chan[n][b] : chan[n][b][j] = new[i]
        BY <3>1, <3>5
      <3> QED BY <1>2, <2>2, <3>2, <3>6
    <2> QED BY <2>1, <2>2
  <1> QED BY <1>7, <1>8, <1>9

\* A vote adds one to a candidate's count, and a majority makes it lead.
LEMMA CountedForward ==
    ASSUME VotingInv, NEW n \in Node, NEW s \in Node, CandidateVote(n, s)
    PROVE  /\ UNCHANGED granted /\ \A p \in Node : p # n => node'[p] = node[p]
           /\ node'[n].current_term = node[n].current_term
           /\ \E votes \in Nat :
                 /\ votes = IF Head(chan[s][n]).vote_granted THEN node[n].votes_for_me + 1
                            ELSE node[n].votes_for_me
                 /\ node'[n].loop = "candidate" => node'[n].votes_for_me = votes
                 /\ node'[n].loop = "leader" => has_majority(votes)
  <1>1. Counts(n, s) /\ node[n].loop = "candidate" /\ node[n].role # "leader"
    BY VoteCounted DEF VotingInv, RaftInv, RoleInv
  <1>2. PICK self, votes :
           /\ votes = IF Head(chan[s][n]).vote_granted THEN node[n].votes_for_me + 1
                      ELSE node[n].votes_for_me
           /\ Logged(self) /\ Changes(n, self) /\ self.current_term = node[n].current_term
           /\ \/ has_majority(votes) /\ self.role = "leader"
              \/ self.role = node[n].role /\ self.votes_for_me = votes
    BY <1>1 DEF Counts
  <1>3. votes \in Nat
    BY <1>2, Typed
  <1>4. /\ \A p \in Node : p # n => node'[p] = node[p]
        /\ node'[n].current_term = self.current_term /\ node'[n].loop = self.role
        /\ self.role = "candidate" => node'[n].votes_for_me = self.votes_for_me
    BY <1>2, Changed DEF Changes
  <1>5. /\ node'[n].loop = "candidate" => node'[n].votes_for_me = votes
        /\ node'[n].loop = "leader" => has_majority(votes)
    BY <1>1, <1>2, <1>4
  <1> QED BY <1>2, <1>3, <1>4, <1>5 DEF Changes

\* Every step keeps the terms, and the first election is over for good.
LEMMA TermNext ==
    ASSUME VotingInv, VotingInv', TermInv, [Next]_vars
    PROVE  TermInv' /\ (First' => First)
  <1>1. ASSUME NEW n \in Node, Silent(n), PlainSent
        PROVE  TermInv' /\ (First' => First)
    BY <1>1, SilentForward, TermQuiet
  <1>2. ASSUME NEW n \in Node, NEW s \in Node, Grants(n, s), VoteSent(n, s)
        PROVE  TermInv' /\ (First' => First)
    <2>1. PICK h : h = <<n, node'[n].current_term, s>>
      OBVIOUS
    <2>2. \A g \in granted' : g \in granted \/ g = h
      BY <1>2, <2>1, GrantForward
    <2>3. h[2] >= 2 /\ node'[h[3]].current_term >= 2
      BY <1>2, <2>1, GrantForward
    <2>4. \A p \in Node : Forward(p)
      BY <1>2, GrantForward
    <2> QED BY <1>2, <2>2, <2>3, <2>4, OneVoteSent, TermKept
  <1>3. ASSUME NEW n \in Node, NEW s \in Node, CandidateVote(n, s)
        PROVE  TermInv' /\ (First' => First)
    <2>1. PlainSent /\ UNCHANGED granted
      BY <1>3, VoteCounted, CountedForward
    <2>2. Forward(n)
      BY <1>3, VoteCounted, CountedForward, Typed DEF Forward, Stands
    <2>3. \A p \in Node : Forward(p)
      BY <1>3, <2>2, CountedForward, OthersForward
    <2> QED BY <2>1, <2>3, TermQuiet
  <1>4. ASSUME NEW n \in Node, BeginElection(n)
        PROVE  TermInv' /\ (First' => First)
    <2>1. PICK h : h = <<n, node[n].current_term + 1, n>>
      OBVIOUS
    <2>2. \A g \in granted' : g \in granted \/ g = h
      BY <1>4, <2>1, Begun
    <2>3. node'[n].current_term >= 2 /\ node'[n].current_term >= node[n].current_term
      BY <1>4, Begun, Typed DEF TermInv
    <2>4. h[2] >= 2 /\ node'[h[3]].current_term >= 2
      BY <1>4, <2>1, <2>3, Begun
    <2>5. \A p \in Node : Forward(p)
      BY <1>4, <2>3, Begun, OthersForward DEF Forward
    <2> QED BY <1>4, <2>2, <2>4, <2>5, BegunChannels, TermKept
  <1>5. ASSUME UNCHANGED granted, PlainSent, \A p \in Node : Unmoved(p)
        PROVE  TermInv' /\ (First' => First)
    <2>1. \A p \in Node : Forward(p)
      BY <1>5, Typed DEF Forward, Stands, Unmoved
    <2> QED BY <1>5, <2>1, TermQuiet
  <1> QED BY <1>1, <1>2, <1>3, <1>4, <1>5, StepKinds

-----------------------------------------------------------------------------
(* Votes are counted once.                                                 *)

\* Sets of nodes are finite and can be counted.
LEMMA FiniteVoters ==
    /\ IsFiniteSet(Node)
    /\ \A S, T \in SUBSET Node :
          /\ IsFiniteSet(S) /\ Cardinality(S) \in Nat
          /\ S \subseteq T => Cardinality(S) <= Cardinality(T)
  BY NodeAssumption, FS_Subset, FS_CardinalityType

\* A step that grants p no vote and sends it none leaves it with what it has
\* counted.
LEMMA PolledKept ==
    ASSUME VotingInv, NEW p \in Node, Polled(p),
           Granters(p)' = Granters(p),
           \A v \in Node : NoVoteSent(v, p),
           node'[p].loop = "leader" => node[p].loop = "leader",
           node'[p].loop = "candidate" =>
               node[p].loop = "candidate" /\ node'[p].votes_for_me = node[p].votes_for_me
    PROVE  Polled(p)'
  <1>1. Pending(p)' \subseteq Pending(p)
    BY DEF Pending, NoVoteSent
  <1>2. Pending(p)' \subseteq Granters(p)'
    BY <1>1 DEF Polled
  <1>3. Stands(p)' => Stands(p)
    BY DEF Stands
  <1>4. ASSUME node'[p].loop = "candidate"
        PROVE  /\ \A v \in Node : SingleVote(chan'[v][p])
               /\ node'[p].votes_for_me <= Cardinality(Granters(p)' \ Pending(p)')
    <2>1. PICK old \in SUBSET Node : old = Granters(p) \ Pending(p)
      BY DEF Granters
    <2>2. PICK new \in SUBSET Node : new = Granters(p)' \ Pending(p)'
      BY DEF Granters
    <2>3. old \subseteq new
      BY <1>1, <2>1, <2>2
    <2>4. Cardinality(old) <= Cardinality(new) /\ Cardinality(old) \in Nat /\ Cardinality(new) \in Nat
      BY <2>3, FiniteVoters
    <2>5. /\ \A v \in Node : SingleVote(chan[v][p])
          /\ node[p].votes_for_me <= Cardinality(old) /\ node[p].votes_for_me \in Nat
      BY <1>4, <2>1, Typed DEF Polled
    <2>6. \A v \in Node : SingleVote(chan'[v][p])
      BY <2>5 DEF NoVoteSent
    <2>7. node'[p].votes_for_me <= Cardinality(new)
      BY <1>4, <2>4, <2>5
    <2> QED BY <2>2, <2>6, <2>7
  <1>5. node'[p].loop = "leader" => 2 * Cardinality(Granters(p)') > Cardinality(Node)
    BY <1>3 DEF Polled, Stands
  <1>6. Stands(p)' => p \in Granters(p)'
    BY <1>3 DEF Polled
  <1> QED BY <1>2, <1>4, <1>5, <1>6 DEF Polled

\* Plain messages are no votes.
LEMMA PlainNoVote ==
    ASSUME VotingInv, VotingInv', PlainSent
    PROVE  \A a, b \in Node : NoVoteSent(a, b)
  BY KeptNoVote DEF PlainSent

\* A step in which nobody is granted a vote or counts one.
LEMMA QuietCount ==
    ASSUME VotingInv, VotingInv', UNCHANGED granted, PlainSent, NEW p \in Node, Polled(p),
           node'[p].loop = "leader" => node[p].loop = "leader",
           node'[p].loop = "candidate" =>
               node[p].loop = "candidate" /\ node'[p].votes_for_me = node[p].votes_for_me
    PROVE  Polled(p)'
  <1>1. Granters(p)' = Granters(p)
    BY DEF Granters
  <1> QED BY <1>1, PlainNoVote, PolledKept

\* A grant keeps the count of every candidate: the vote is under way, not counted.
LEMMA GrantCount ==
    ASSUME VotingInv, VotingInv', TermInv, First', NEW n \in Node, NEW s \in Node,
           Grants(n, s), VoteSent(n, s), NEW p \in Node, Polled(p)
    PROVE  Polled(p)'
  <1>1. node'[n].current_term = 2
    <2>1. node'[n].current_term \in Nat
      BY DEF VotingInv, RaftInv, TypeOK, NodeState
    <2>2. node'[n].current_term >= 2 /\ node'[n].current_term <= 2
      BY GrantForward DEF First
    <2> QED BY <2>1, <2>2
  <1>2. granted' = granted \cup {<<n, 2, s>>} /\ (s # n => <<n, 2, s>> \notin granted)
    BY <1>1, GrantForward
  <1>3. Granters(s)' = Granters(s) \cup {n}
    BY <1>2 DEF Granters
  <1>4. /\ p # n => node'[p] = node[p]
        /\ node'[n].loop \notin {"candidate", "leader"}
    BY GrantForward
  <1>5. CASE p # s
    <2>1. Granters(p)' = Granters(p)
      BY <1>2, <1>5 DEF Granters
    <2>2. \A v \in Node : NoVoteSent(v, p)
      BY <1>5, OneVoteSent
    <2> QED BY <1>4, <2>1, <2>2, PolledKept
  <1>6. CASE p = s
    <2>1. \A v \in Node : v # n => NoVoteSent(v, s)
      BY OneVoteSent
    <2>2. Pending(s)' \subseteq Pending(s) \cup {n}
      BY <2>1 DEF Pending, NoVoteSent
    <2>3. Pending(s)' \subseteq Granters(s)'
      BY <1>3, <1>6, <2>2 DEF Polled
    <2>4. Stands(s)' => s # n /\ Stands(s) /\ node'[s] = node[s]
      BY <1>4, <1>6 DEF Stands
    <2>5. Stands(s)' => s \in Granters(s)'
      BY <1>3, <1>6, <2>4 DEF Polled
    <2>6. ASSUME node'[s].loop = "candidate"
          PROVE  /\ \A v \in Node : SingleVote(chan'[v][s])
                 /\ node'[s].votes_for_me <= Cardinality(Granters(s)' \ Pending(s)')
      <3>1. s # n /\ node'[s] = node[s] /\ node[s].loop = "candidate"
        BY <2>4, <2>6 DEF Stands
      <3>2. n \notin Granters(s) /\ ~ HasVote(chan[n][s])
        BY <1>2, <1>6, <3>1 DEF Granters, Pending, Polled
      <3>3. PICK old \in SUBSET Node : old = Granters(s) \ Pending(s)
        BY DEF Granters
      <3>4. PICK new \in SUBSET Node : new = Granters(s)' \ Pending(s)'
        BY DEF Granters
      <3>5. old \subseteq new
        BY <1>3, <2>2, <3>2, <3>3, <3>4
      <3>6. Cardinality(old) <= Cardinality(new) /\ Cardinality(old) \in Nat /\ Cardinality(new) \in Nat
        BY <3>5, FiniteVoters
      <3>7. /\ \A v \in Node : SingleVote(chan[v][s])
            /\ node[s].votes_for_me <= Cardinality(old) /\ node[s].votes_for_me \in Nat
        BY <1>6, <3>1, <3>3, Typed DEF Polled
      <3>8. \A v \in Node : SingleVote(chan'[v][s])
        BY <2>1, <3>2, <3>7, OneVoteSent DEF NoVoteSent
      <3> QED BY <3>1, <3>4, <3>6, <3>7, <3>8
    <2>7. ASSUME node'[s].loop = "leader"
          PROVE  2 * Cardinality(Granters(s)') > Cardinality(Node)
      <3>1. node[s].loop = "leader"
        BY <2>4, <2>7 DEF Stands
      <3>2. PICK old \in SUBSET Node : old = Granters(s)
        BY DEF Granters
      <3>3. PICK new \in SUBSET Node : new = Granters(s)'
        BY DEF Granters
      <3>4. old \subseteq new
        BY <1>3, <3>2, <3>3
      <3>5. Cardinality(old) <= Cardinality(new) /\ Cardinality(old) \in Nat /\ Cardinality(new) \in Nat
        BY <3>4, FiniteVoters
      <3>6. 2 * Cardinality(old) > Cardinality(Node)
        BY <1>6, <3>1, <3>2 DEF Polled
      <3> QED BY <3>3, <3>5, <3>6, GroupSize
    <2> QED BY <1>6, <2>3, <2>5, <2>6, <2>7 DEF Polled
  <1> QED BY <1>5, <1>6

\* The first election of a node starts its count from nothing.
LEMMA BeginCount ==
    ASSUME VotingInv, VotingInv', TermInv, First', NEW n \in Node, BeginElection(n),
           \A p \in Node : Polled(p), NEW p \in Node
    PROVE  Polled(p)'
  <1>1. node[n].current_term = 1 /\ node'[n].current_term = 2
    BY Begun, Typed DEF TermInv, First
  <1>2. granted' = granted \cup {<<n, 2, n>>}
    BY <1>1, Begun
  <1>3. CASE p # n
    <2>1. Granters(p)' = Granters(p)
      BY <1>2, <1>3 DEF Granters
    <2>2. \A v \in Node : NoVoteSent(v, p)
      BY <1>3, BegunChannels
    <2>3. node'[p] = node[p]
      BY <1>3, Begun
    <2> QED BY <2>1, <2>2, <2>3, PolledKept
  <1>4. CASE p = n
    <2>1. Granters(n) = {}
      <3>1. ASSUME NEW v \in Node, <<v, 2, n>> \in granted
            PROVE  FALSE
        <4>1. PICK g \in granted : g = <<v, 2, n>> /\ g[3] = n
          BY <3>1
        <4> QED BY <1>1, <4>1 DEF TermInv
      <3> QED BY <3>1 DEF Granters
    <2>2. \A v \in Node : ~ HasVote(chan[v][n])
      BY <2>1 DEF Polled, Pending
    <2>3. Granters(n)' = {n}
      BY <1>2, <2>1 DEF Granters
    <2>4. Pending(n)' \subseteq {n}
      BY <2>2, BegunChannels DEF Pending, NoVoteSent
    <2>5. \A v \in Node : SingleVote(chan'[v][n])
      <3>1. \A v \in Node : SingleVote(chan[v][n])
        BY <2>2, Zenon DEF SingleVote, HasVote
      <3> QED BY <2>2, <3>1, BegunChannels DEF NoVoteSent
    <2>6. node'[n].loop = "candidate" /\ node'[n].votes_for_me = 0
      BY Begun
    <2>7. PICK new \in SUBSET Node : new = Granters(n)' \ Pending(n)'
      BY DEF Granters
    <2>8. 0 <= Cardinality(new)
      BY FiniteVoters
    <2> QED BY <1>4, <2>3, <2>4, <2>5, <2>6, <2>7, <2>8 DEF Polled
  <1> QED BY <1>3, <1>4

\* The votes a candidate has counted, with the one it takes, are granted ones
\* that are not under way any more.
LEMMA CountIsGranted ==
    ASSUME VotingInv, VotingInv', NEW n \in Node, NEW s \in Node, CandidateVote(n, s),
           Polled(n), NEW votes \in Nat,
           votes = IF Head(chan[s][n]).vote_granted THEN node[n].votes_for_me + 1
                   ELSE node[n].votes_for_me
    PROVE  votes <= Cardinality(Granters(n) \ Pending(n)')
  <1>1. PICK old \in SUBSET Node : old = Granters(n) \ Pending(n)
    BY DEF Granters
  <1>2. PICK new \in SUBSET Node : new = Granters(n) \ Pending(n)'
    BY DEF Granters
  <1>3. Pending(n)' \subseteq Pending(n)
    BY VoteCounted, PlainNoVote DEF Pending, NoVoteSent
  <1>4. old \subseteq new
    BY <1>1, <1>2, <1>3
  <1>5. /\ Cardinality(old) \in Nat /\ Cardinality(new) \in Nat /\ IsFiniteSet(new)
        /\ IsFiniteSet(old) /\ Cardinality(old) <= Cardinality(new)
    BY <1>4, FiniteVoters
  <1>6. node[n].votes_for_me <= Cardinality(old) /\ node[n].votes_for_me \in Nat
    BY <1>1, VoteCounted, Typed DEF Polled
  <1>7. CASE ~ Head(chan[s][n]).vote_granted
    BY <1>2, <1>5, <1>6, <1>7
  <1>8. CASE Head(chan[s][n]).vote_granted
    <2>1. PICK q \in Seq(Message) :
             /\ q = chan[s][n] /\ q # <<>> /\ Head(q).type = "Vote" /\ Head(q).vote_granted
      BY <1>8, VoteCounted, Typed DEF Gets
    <2>2. PICK m \in Message : m = q[1] /\ 1 \in DOMAIN q /\ IsVote(m)
      BY <2>1, HeadTailProperties, LenProperties DEF IsVote
    <2>3. s \in Pending(n)
      BY <2>1, <2>2 DEF Pending, HasVote
    <2>4. ~ HasVote(Tail(q))
      <3>1. /\ Len(q) \in Nat /\ DOMAIN q = 1 .. Len(q) /\ Tail(q) \in Seq(Message)
            /\ Len(Tail(q)) = Len(q) - 1 /\ DOMAIN Tail(q) = 1 .. Len(Tail(q))
        BY <2>1, HeadTailProperties, LenProperties
      <3>2. ASSUME NEW i \in DOMAIN Tail(q), IsVote(Tail(q)[i])
            PROVE  FALSE
        <4>1. Tail(q)[i] = q[i + 1]
          BY <2>1, <3>1, HeadTailProperties
        <4>2. i + 1 \in DOMAIN q /\ i + 1 # 1
          BY <3>1
        <4>3. SingleVote(q)
          BY <2>1, VoteCounted DEF Polled
        <4> QED BY <2>2, <3>2, <4>1, <4>2, <4>3, Zenon DEF SingleVote
      <3> QED BY <3>2 DEF HasVote
    <2>5. s \notin Pending(n)'
      <3>1. chan'[s][n] \in Seq(Message) /\ Tail(q) \in Seq(Message)
        BY <2>1, HeadTailProperties DEF VotingInv, RaftInv, TypeOK
      <3>2. Kept(chan'[s][n], Tail(q))
        BY <2>1, VoteCounted DEF Taken
      <3>3. ~ HasVote(chan'[s][n])
        BY <2>4, <3>1, <3>2, KeptVotes
      <3> QED BY <3>3 DEF Pending
    <2>6. s \in new /\ s \notin old
      BY <1>1, <1>2, <2>3, <2>5 DEF Polled
    <2>7. PICK more \in SUBSET Node : more = old \cup {s}
      OBVIOUS
    <2>8. Cardinality(more) = Cardinality(old) + 1
      BY <1>5, <2>6, <2>7, FS_AddElement
    <2>9. Cardinality(more) <= Cardinality(new)
      BY <1>4, <2>6, <2>7, FiniteVoters
    <2> QED BY <1>2, <1>5, <1>6, <1>8, <2>8, <2>9
  <1> QED BY <1>7, <1>8

\* A vote that is counted was granted and is under way no longer.
LEMMA TakenCount ==
    ASSUME VotingInv, VotingInv', NEW n \in Node, NEW s \in Node, CandidateVote(n, s),
           NEW p \in Node, Polled(p)
    PROVE  Polled(p)'
  <1>1. /\ UNCHANGED granted /\ PlainSent /\ node[n].loop = "candidate"
        /\ \A v \in Node : v # n => node'[v] = node[v]
    BY CountedForward, VoteCounted
  <1>2. CASE p # n
    BY <1>1, <1>2, QuietCount
  <1>3. CASE p = n
    <2>1. PICK votes \in Nat :
             /\ votes = IF Head(chan[s][n]).vote_granted THEN node[n].votes_for_me + 1
                        ELSE node[n].votes_for_me
             /\ node'[n].loop = "candidate" => node'[n].votes_for_me = votes
             /\ node'[n].loop = "leader" => has_majority(votes)
      BY CountedForward
    <2>2. PICK new \in SUBSET Node : new = Granters(n) \ Pending(n)'
      BY DEF Granters
    <2>3. votes <= Cardinality(new)
      BY <1>3, <2>1, <2>2, CountIsGranted
    <2>4. PICK all \in SUBSET Node : all = Granters(n) /\ all = Granters(n)'
      BY <1>1 DEF Granters
    <2>5. /\ Cardinality(new) <= Cardinality(all) /\ Cardinality(new) \in Nat
          /\ Cardinality(all) \in Nat
      BY <2>2, <2>4, FiniteVoters
    <2>6. n \in all
      BY <1>1, <1>3, <2>4 DEF Polled, Stands
    <2>7. \A v \in Node : NoVoteSent(v, n)
      BY <1>1, PlainNoVote
    <2>8. Pending(n)' \subseteq all
      BY <1>3, <2>4, <2>7 DEF Polled, Pending, NoVoteSent
    <2>9. node'[n].loop = "candidate" =>
             (\A v \in Node : SingleVote(chan'[v][n])) /\ node'[n].votes_for_me <= Cardinality(new)
      BY <1>1, <1>3, <2>1, <2>3, <2>7 DEF Polled, NoVoteSent
    <2>10. node'[n].loop = "leader" => 2 * Cardinality(all) > Cardinality(Node)
      <3>1. Cardinality(all) # 0
        BY <2>5, <2>6, FiniteVoters, FS_Subset, FS_EmptySet
      <3>2. CASE votes > Cardinality(Node) \div 2
        BY <2>3, <2>5, <3>2, GroupSize
      <3>3. CASE Cardinality(Node) = 1
        BY <2>5, <3>1, <3>3
      <3> QED BY <2>1, <3>2, <3>3 DEF has_majority
    <2> QED BY <1>3, <2>2, <2>4, <2>6, <2>8, <2>9, <2>10 DEF Polled
  <1> QED BY <1>2, <1>3

\* Every step of the first election keeps the counts.
LEMMA CountNext ==
    ASSUME VotingInv, VotingInv', TermInv, CountInv, [Next]_vars
    PROVE  CountInv'
  <1> SUFFICES ASSUME First', NEW p \in Node PROVE Polled(p)'
    BY DEF CountInv
  <1>1. \A v \in Node : Polled(v)
    BY TermNext DEF CountInv
  <1>2. ASSUME NEW n \in Node, Silent(n), PlainSent
        PROVE  Polled(p)'
    BY <1>1, <1>2, SilentForward, QuietCount
  <1>3. ASSUME NEW n \in Node, NEW s \in Node, Grants(n, s), VoteSent(n, s)
        PROVE  Polled(p)'
    BY <1>1, <1>3, GrantCount
  <1>4. ASSUME NEW n \in Node, NEW s \in Node, CandidateVote(n, s)
        PROVE  Polled(p)'
    BY <1>1, <1>4, TakenCount
  <1>5. ASSUME NEW n \in Node, BeginElection(n)
        PROVE  Polled(p)'
    BY <1>1, <1>5, BeginCount
  <1>6. ASSUME UNCHANGED granted, PlainSent, \A v \in Node : Unmoved(v)
        PROVE  Polled(p)'
    BY <1>1, <1>6, QuietCount DEF Unmoved
  <1> QED BY <1>2, <1>3, <1>4, <1>5, <1>6, StepKinds

\* The invariant holds when every node is a follower.
LEMMA ElectionInit == Init => ElectionInv
  <1> SUFFICES ASSUME Init PROVE ElectionInv
    OBVIOUS
  <1>1. VotingInv
    BY VotingInit
  <1>2. \A n \in Node : node[n].current_term = 1 /\ node[n].loop = "follower"
    BY DEF Init, InitNode
  <1>3. \A a, b \in Node : chan[a][b] = <<>> /\ DOMAIN chan[a][b] = {}
    BY DEF Init
  <1>4. granted = {}
    BY DEF Init
  <1>5. TermInv
    BY <1>2, <1>3, <1>4 DEF TermInv, Stands
  <1>6. CountInv
    BY <1>2, <1>3 DEF CountInv, Polled, Stands, Pending, HasVote
  <1> QED BY <1>1, <1>5, <1>6 DEF ElectionInv

\* Every step keeps the invariant.
LEMMA ElectionNext == ElectionInv /\ [Next]_vars => ElectionInv'
  BY VotingNext, TermNext, CountNext DEF ElectionInv

\* The invariant holds throughout.
LEMMA ElectionInvariant == Spec => []ElectionInv
  BY ElectionInit, ElectionNext, PTL DEF Spec

-----------------------------------------------------------------------------
(* The theorems.                                                           *)

\* Who leads in the first election has been granted the votes of a majority.
LEMMA FirstMajority ==
    ASSUME ElectionInv, First, NEW n \in Node, node[n].loop = "leader"
    PROVE  node[n].current_term = 2 /\ 2 * Cardinality(Granters(n)) > Cardinality(Node)
  <1>1. VotingInv /\ TermInv /\ Polled(n)
    BY DEF ElectionInv, CountInv
  <1>2. node[n].current_term = 2
    BY <1>1, Typed DEF First, TermInv, Stands
  <1> QED BY <1>1, <1>2 DEF Polled

\* What _candidate says of itself holds of the first election, whatever is
\* lost, delayed or paused: a node leads only with the votes of more than half
\* of the nodes.
THEOREM FirstLeaderHasMajority == Spec => [](First => LeaderHasMajority)
  <1>1. ElectionInv => (First => LeaderHasMajority)
    BY FirstMajority DEF LeaderHasMajority, Granters
  <1> QED BY <1>1, ElectionInvariant, PTL

\* n has granted nobody else its vote in the first election.
VotesForItself(n) == \A g \in granted : g[1] = n /\ g[2] = 2 => g[3] = n

\* Two majorities of the first election are of the same candidate, if neither
\* candidate has also voted for another.
LEMMA OneMajority ==
    ASSUME ElectionInv, NEW n \in Node, NEW p \in Node, VotesForItself(n), VotesForItself(p),
           2 * Cardinality(Granters(n)) > Cardinality(Node),
           2 * Cardinality(Granters(p)) > Cardinality(Node)
    PROVE  n = p
  <1>1. PICK S \in SUBSET Node : S = Granters(n)
    BY DEF Granters
  <1>2. PICK T \in SUBSET Node : T = Granters(p)
    BY DEF Granters
  <1>3. PICK v \in Node : v \in S \cap T
    <2>1. IsFiniteSet(Node) /\ Cardinality(S) \in Nat /\ Cardinality(T) \in Nat
      BY FiniteVoters
    <2>2. Cardinality(S) + Cardinality(T) > Cardinality(Node)
      BY <1>1, <1>2, <2>1, GroupSize
    <2> QED BY <2>1, <2>2, FS_MajoritiesIntersect
  <1>4. PICK g \in granted : g[1] = v /\ g[2] = 2 /\ g[3] = n
    BY <1>1, <1>3 DEF Granters
  <1>5. PICK h \in granted : h[1] = v /\ h[2] = 2 /\ h[3] = p
    BY <1>2, <1>3 DEF Granters
  \* A third node grants one vote.
  <1>6. CASE v # n /\ v # p
    BY <1>4, <1>5, <1>6 DEF ElectionInv, VotingInv, OneGrantPerTerm
  <1>7. CASE v = n \/ v = p
    BY <1>4, <1>5, <1>7 DEF VotesForItself
  <1> QED BY <1>6, <1>7

\* Who stands in the first election, or leads, has voted for nobody else in it.
LEMMA StandsForItself ==
    ASSUME ElectionInv, First, NEW n \in Node, Stands(n)
    PROVE  node[n].current_term = 2 /\ VotesForItself(n)
  <1>1. VotingInv /\ TermInv
    BY DEF ElectionInv
  <1>2. node[n].current_term = 2
    BY <1>1, Typed DEF First, TermInv
  <1> QED BY <1>1, <1>2 DEF VotingInv, GrantInv, Stands, VotesForItself

\* Until a second election begins, at most one node runs _leader.
THEOREM FirstElectionSafe == Spec => [](First => ElectionSafety)
  <1>1. ElectionInv => (First => ElectionSafety)
    BY FirstMajority, StandsForItself, OneMajority DEF ElectionSafety, Stands
  <1> QED BY <1>1, ElectionInvariant, PTL

=============================================================================
