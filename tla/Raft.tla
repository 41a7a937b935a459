-------------------------------- MODULE Raft --------------------------------
(***************************************************************************)
(* The replicated log of src/raft/raft.py: RaftNode, one thread per node   *)
(* that runs the loop of its role (_follower, _candidate, _leader), and    *)
(* the client and operator calls client_request, pause and un_pause.       *)
(*                                                                         *)
(* A step of a node is one iteration of its role's loop: the message it    *)
(* gets, or the timer that has expired, with everything the code does      *)
(* before it looks at its role again.  `role' is self.current_role, which  *)
(* pause and un_pause may change at any moment; `loop' is the loop the     *)
(* thread is in, chosen the last time it called check_role.                *)
(*                                                                         *)
(* Messages travel through one FIFO channel per ordered pair of nodes (the *)
(* sender's talker, a ZeroMQ connection and the receiver's listener); a    *)
(* node also hears itself.  They keep only the fields a receiver reads.    *)
(* Code index i of a log is position i + 1 of the sequence.  All entries   *)
(* have the id -1, so log_hash is the last entry; last_applied_index       *)
(* always equals commit_index, and leader_id is never read.                *)
(***************************************************************************)
EXTENDS Integers, Sequences, FiniteSets

CONSTANTS
    Node,      \* all_ids
    Value,     \* what clients ask to append
    Nobody,    \* voted_for is None
    MaxTerm,   \* bound: no election is started from this term
    MaxQueue,  \* bound: the heartbeat timer sends only into channels shorter
               \* than this, the resend timer only if so few messages are under
               \* way either way (1: a resend never races a late answer)
    CanPause,  \* nodes an operator may pause
    CanLose    \* whether a full ZeroMQ queue may drop a message

ASSUME NodeAssumption == IsFiniteSet(Node) /\ Node # {} /\ Nobody \notin Node
ASSUME RaftBoundAssumption ==
    /\ MaxTerm \in Nat /\ MaxQueue \in Nat
    /\ CanPause \subseteq Node /\ CanLose \in BOOLEAN

VARIABLES
    node,    \* the state of every RaftNode
    chan,    \* chan[s][d]: messages from s that d has not handled
    unsent,  \* values no client has asked for yet
    granted, \* history: <<voter, term, candidate>> of every vote granted
    paused   \* history: nodes paused and not unpaused since

vars == <<node, chan, unsent, granted, paused>>

-----------------------------------------------------------------------------

Role == {"follower", "candidate", "leader", "none"}

\* next_index is None: the node is up to date.
UpToDate == -1

Entry == [term : Nat, entry : Value \cup {"Init Entry", "Leader Entry"}]

NodeState ==
    [role : Role, loop : Role, current_term : Nat, voted_for : Node \cup {Nobody},
     log : Seq(Entry), commit_index : Nat, last_applied_term : Nat,
     next_index : [Node -> Int], match_index : [Node -> Nat],
     votes_for_me : Nat, client_queue : Seq(Entry)]

Message ==
         [type : {"RequestVotes"}, term : Nat, last_log_index : Nat, last_log_term : Nat]
    \cup [type : {"Vote"}, vote_granted : BOOLEAN]
    \cup [type : {"Heartbeat"}, term : Nat]
    \cup [type : {"AppendEntries"}, term : Nat, prev_log_index : Nat,
          prev_log_term : Nat, entries : Entry, leader_commit : Nat]
    \cup [type : {"Committal"}, prev_log_index : Nat, prev_log_term : Nat]
    \cup [type : {"Acknowledge"}, success : BOOLEAN]
    \cup [type : {"ClientRequest"}, entries : Entry]

InitNode ==
    [role |-> "follower", loop |-> "follower", current_term |-> 1,
     voted_for |-> Nobody, log |-> <<[term |-> 1, entry |-> "Init Entry"]>>,
     commit_index |-> 0, last_applied_term |-> 1,
     next_index |-> [d \in Node |-> UpToDate], match_index |-> [d \in Node |-> 0],
     votes_for_me |-> 0, client_queue |-> <<>>]

Init ==
    /\ node = [n \in Node |-> InitNode]
    /\ chan = [s \in Node |-> [d \in Node |-> <<>>]]
    /\ unsent = Value
    /\ granted = {}
    /\ paused = {}

-----------------------------------------------------------------------------
(* Methods of RaftNode: they take and return the state of the node, or the *)
(* messages to send to each node.                                          *)

log_max_index(self) == Len(self.log) - 1

\* self.log[i]
At(self, i) == self.log[i + 1]

set_current_role(self, role) == [self EXCEPT !.role = role]

increment_term(self, term) ==
    [self EXCEPT !.current_term = term, !.voted_for = Nobody]

\* If the message's term is new, adopt it.
adopt_term(self, term) ==
    IF term > self.current_term THEN increment_term(self, term) ELSE self

verify_entry(self, index, term) ==
    index < Len(self.log) /\ At(self, index).term = term

commit_entry(self, index, term) ==
    [self EXCEPT !.commit_index = index, !.last_applied_term = term]

\* _append_entry at the end of the log, as the leader does.
append_last(self, entry) == [self EXCEPT !.log = Append(@, entry)]

\* Mutant: cuts the entry at prev_index as well.
append_entry_short(self, entry, commit, prev_index) ==
    LET cut == [self EXCEPT !.log = Append(SubSeq(@, 1, prev_index), entry)]
    IN  IF commit THEN commit_entry(cut, prev_index, entry.term) ELSE cut

\* Mutant: the log is not cut, the entry goes to its end.
append_entry_uncut(self, entry, commit, prev_index) ==
    LET longer == append_last(self, entry)
    IN  IF commit THEN commit_entry(longer, prev_index, entry.term) ELSE longer

\* _append_entry after prev_index: cuts the log, appends, and if asked to
\* commits prev_index with the term of the new entry.
append_entry(self, entry, commit, prev_index) ==
    LET cut == [self EXCEPT !.log = Append(SubSeq(@, 1, prev_index + 1), entry)]
    IN  IF commit THEN commit_entry(cut, prev_index, entry.term) ELSE cut

Quiet == [d \in Node |-> <<>>]
SendTo(r, m) == [d \in Node |-> IF d = r THEN <<m>> ELSE <<>>]
SendAll(m) == [d \in Node |-> <<m>>]
Then(out, more) == [d \in Node |-> out[d] \o more[d]]

\* Mutant: the vote is sent and not remembered.
send_vote_unrecorded(self, candidate) == self

send_vote(self, candidate) == [self EXCEPT !.voted_for = candidate]

RequestVotes(self) ==
    [type |-> "RequestVotes", term |-> self.current_term,
     last_log_index |-> self.commit_index, last_log_term |-> self.last_applied_term]
Vote(g) == [type |-> "Vote", vote_granted |-> g]
Heartbeat(self) == [type |-> "Heartbeat", term |-> self.current_term]
AppendEntries(self, index, term, entry) ==
    [type |-> "AppendEntries", term |-> self.current_term, prev_log_index |-> index,
     prev_log_term |-> term, entries |-> entry, leader_commit |-> self.commit_index]
Committal(self) ==
    [type |-> "Committal", prev_log_index |-> self.commit_index,
     prev_log_term |-> self.last_applied_term]
Acknowledge(ok) == [type |-> "Acknowledge", success |-> ok]
ClientRequest(entry) == [type |-> "ClientRequest", entries |-> entry]

\* The append entries that sends the entry at index.
Resend(self, index) ==
    AppendEntries(self, index - 1, At(self, index - 1).term, At(self, index))

\* Mutant: next_index is set one past the new entry.
broadcast_past_the_end(self, n, entry) ==
    LET longer == append_last(self, entry)
    IN  [longer EXCEPT
            !.next_index = [d \in Node |->
                IF d = n THEN UpToDate
                ELSE IF @[d] = UpToDate THEN log_max_index(longer) + 1 ELSE @[d]],
            !.match_index[n] = log_max_index(longer)]

\* _broadcast_append_entries: only up-to-date nodes are sent the entry.
broadcast_append_entries(self, n, entry) ==
    LET longer == append_last(self, entry)
    IN  [longer EXCEPT
            !.next_index = [d \in Node |->
                IF d = n THEN UpToDate
                ELSE IF @[d] = UpToDate THEN log_max_index(longer) ELSE @[d]],
            !.match_index[n] = log_max_index(longer)]

broadcast_append_messages(self, entry) ==
    [d \in Node |->
        IF self.next_index[d] = UpToDate
        THEN <<AppendEntries(self, log_max_index(self),
                             At(self, log_max_index(self)).term, entry)>>
        ELSE <<>>]

\* Mutant: the highest index of all, however few nodes it is replicated on.
max_index(match) ==
    LET indices == {match[d] : d \in Node}
    IN  CHOOSE i \in indices : \A j \in indices : j <= i

\* The scan over match_index, highest first, that leaves in
\* max_committable_index the last index replicated on a majority.
max_committable_index(match) ==
    LET committable == {i \in {match[d] : d \in Node} :
            Cardinality({d \in Node : i <= match[d]}) >= Cardinality(Node) \div 2 + 1}
    IN  CHOOSE i \in committable : \A j \in committable : i <= j

\* The client request a leader takes from its own queue, if there is one.
serve_client(self, n) ==
    IF self.client_queue = <<>> THEN self
    ELSE broadcast_append_entries([self EXCEPT !.client_queue = Tail(@)], n,
                                  Head(self.client_queue))

serve_client_messages(self) ==
    IF self.client_queue = <<>> THEN Quiet
    ELSE broadcast_append_messages(self, Head(self.client_queue))

-----------------------------------------------------------------------------
(* Steps.  At the end of an iteration the thread looks at its role.        *)

\* votes_for_me is local to _candidate.
CheckRole(self) ==
    [self EXCEPT !.loop = self.role,
                 !.votes_for_me = IF self.role = "candidate" THEN @ ELSE 0]

\* n becomes self and sends out, having taken a message from s.
Handle(n, s, self, out) ==
    /\ node' = [node EXCEPT ![n] = CheckRole(self)]
    /\ chan' = [a \in Node |-> [b \in Node |->
                  (IF a = s /\ b = n THEN Tail(chan[a][b]) ELSE chan[a][b])
                  \o (IF a = n THEN out[b] ELSE <<>>)]]
    /\ UNCHANGED <<unsent, paused>>

\* n becomes self and sends out, without a message.
Act(n, self, out) ==
    /\ node' = [node EXCEPT ![n] = CheckRole(self)]
    /\ chan' = [chan EXCEPT ![n] = [d \in Node |-> @[d] \o out[d]]]
    /\ UNCHANGED <<unsent, paused>>

Gets(n, s, type) == chan[s][n] # <<>> /\ Head(chan[s][n]).type = type

-----------------------------------------------------------------------------
(* _follower                                                               *)

FollowerRequestVotes(n, s) ==
    /\ node[n].loop = "follower" /\ Gets(n, s, "RequestVotes")
    /\ LET m == Head(chan[s][n])
           self == adopt_term(node[n], m.term)
           grant == /\ self.voted_for = Nobody
                    /\ m.last_log_index >= self.commit_index
                    /\ m.last_log_term >= self.last_applied_term
       IN  /\ Handle(n, s, send_vote(self, s), SendTo(s, Vote(grant)))
           /\ granted' = granted \cup
                 (IF grant THEN {<<n, self.current_term, s>>} ELSE {})

\* Mutant: the request of the client is taken from the queue and not sent.
FollowerHeartbeatDropping(n, s) ==
    /\ node[n].loop = "follower" /\ Gets(n, s, "Heartbeat")
    /\ LET self == adopt_term(node[n], Head(chan[s][n]).term)
       IN  Handle(n, s, IF self.client_queue = <<>> THEN self
                        ELSE [self EXCEPT !.client_queue = Tail(@)], Quiet)
    /\ UNCHANGED granted

\* The leader may be forwarded one request of this node's clients.
FollowerHeartbeat(n, s) ==
    /\ node[n].loop = "follower" /\ Gets(n, s, "Heartbeat")
    /\ LET self == adopt_term(node[n], Head(chan[s][n]).term)
       IN  IF self.client_queue = <<>>
           THEN Handle(n, s, self, Quiet)
           ELSE Handle(n, s, [self EXCEPT !.client_queue = Tail(@)],
                       SendTo(s, ClientRequest(Head(self.client_queue))))
    /\ UNCHANGED granted

FollowerAppendEntries(n, s) ==
    /\ node[n].loop = "follower" /\ Gets(n, s, "AppendEntries")
    /\ LET m == Head(chan[s][n])
           self == node[n]
           ok == /\ m.term >= self.current_term
                 /\ verify_entry(self, m.prev_log_index, m.prev_log_term)
       IN  Handle(n, s,
                  IF ok THEN append_entry(self, m.entries,
                                          m.leader_commit > self.commit_index,
                                          m.prev_log_index)
                  ELSE self,
                  SendTo(s, Acknowledge(ok)))
    /\ UNCHANGED granted

FollowerCommittal(n, s) ==
    /\ node[n].loop = "follower" /\ Gets(n, s, "Committal")
    /\ LET m == Head(chan[s][n])
       IN  Handle(n, s, commit_entry(node[n], m.prev_log_index, m.prev_log_term), Quiet)
    /\ UNCHANGED granted

\* Responses are not for followers.
FollowerIgnore(n, s) ==
    /\ node[n].loop = "follower"
    /\ \E t \in {"Vote", "Acknowledge", "ClientRequest"} : Gets(n, s, t)
    /\ Handle(n, s, node[n], Quiet)
    /\ UNCHANGED granted

-----------------------------------------------------------------------------
(* _candidate                                                              *)

\* The election timeout of a follower or a candidate, and the start of the
\* election it leads to: a new term, and a vote for oneself by message.
BeginElection(n) ==
    /\ node[n].loop \in {"follower", "candidate"}
    /\ node[n].current_term < MaxTerm
    /\ LET term == node[n].current_term + 1
           self == [set_current_role(send_vote(increment_term(node[n], term), n),
                                     "candidate") EXCEPT !.votes_for_me = 0]
       IN  /\ Act(n, self, Then(SendAll(RequestVotes(self)), SendTo(n, Vote(TRUE))))
           /\ granted' = granted \cup {<<n, term, n>>}

\* Mutant: the two resets are swapped.
start_leading_swapped(self, n) ==
    broadcast_append_entries(
        [set_current_role(self, "leader") EXCEPT
            !.next_index = [d \in Node |-> self.commit_index],
            !.match_index = [d \in Node |-> UpToDate]],
        n, [term |-> self.current_term, entry |-> "Leader Entry"])

\* The beginning of _leader: everybody is assumed to be up to date.
start_leading(self, n) ==
    broadcast_append_entries(
        [set_current_role(self, "leader") EXCEPT
            !.next_index = [d \in Node |-> UpToDate],
            !.match_index = [d \in Node |-> self.commit_index]],
        n, [term |-> self.current_term, entry |-> "Leader Entry"])

start_leading_messages(self) ==
    LET reset == [self EXCEPT !.next_index = [d \in Node |-> UpToDate]]
    IN  Then(SendAll(Heartbeat(self)),
             broadcast_append_messages(reset,
                 [term |-> self.current_term, entry |-> "Leader Entry"]))

\* Mutant: half of the votes, rounded down, is enough.
has_half(votes) == votes >= Cardinality(Node) \div 2

has_majority(votes) == votes > Cardinality(Node) \div 2 \/ Cardinality(Node) = 1

\* Any granted vote counts.
CandidateVote(n, s) ==
    /\ node[n].loop = "candidate" /\ Gets(n, s, "Vote")
    /\ LET self == [node[n] EXCEPT !.votes_for_me =
                       IF Head(chan[s][n]).vote_granted THEN @ + 1 ELSE @]
       IN  IF has_majority(self.votes_for_me)
           THEN Handle(n, s, start_leading(self, n), start_leading_messages(self))
           ELSE Handle(n, s, self, Quiet)
    /\ UNCHANGED granted

\* A candidate or a leader that sees an election of a later term votes for
\* its candidate, unconditionally, and steps down.
StepDown(n, s) ==
    /\ node[n].loop \in {"candidate", "leader"} /\ Gets(n, s, "RequestVotes")
    /\ LET term == Head(chan[s][n]).term
       IN  /\ term > node[n].current_term
           /\ Handle(n, s,
                     set_current_role(send_vote(increment_term(node[n], term), s),
                                      "follower"),
                     SendTo(s, Vote(TRUE)))
           /\ granted' = granted \cup {<<n, term, s>>}

\* Someone else leads this term or a later one.
CandidateHeartbeat(n, s) ==
    /\ node[n].loop = "candidate" /\ Gets(n, s, "Heartbeat")
    /\ LET term == Head(chan[s][n]).term
       IN  /\ term >= node[n].current_term
           /\ Handle(n, s,
                     set_current_role(increment_term(node[n], term), "follower"), Quiet)
    /\ UNCHANGED granted

CandidateIgnore(n, s) ==
    /\ node[n].loop = "candidate"
    /\ \/ \E t \in {"AppendEntries", "Committal", "Acknowledge", "ClientRequest"} :
             Gets(n, s, t)
       \/ Gets(n, s, "RequestVotes") /\ Head(chan[s][n]).term <= node[n].current_term
       \/ Gets(n, s, "Heartbeat") /\ Head(chan[s][n]).term < node[n].current_term
    /\ Handle(n, s, node[n], Quiet)
    /\ UNCHANGED granted

-----------------------------------------------------------------------------
(* _leader                                                                 *)

\* An iteration of the leader's loop ends with its own clients' queue.
LeaderTurn(n, s, self, out) ==
    Handle(n, s, serve_client(self, n), Then(out, serve_client_messages(self)))

\* What the leader knows of s after an acknowledgement.
advance(self, s, success) ==
    LET next == self.next_index[s]
        moved == IF success THEN next + 1 ELSE IF next # 1 THEN next - 1 ELSE next
    IN  [self EXCEPT
            !.match_index[s] = IF success THEN next ELSE @,
            !.next_index[s] = IF moved > log_max_index(self) THEN UpToDate ELSE moved]

\* The commit that the new match_index allows.
commit_replicated(self) ==
    LET index == max_committable_index(self.match_index)
    IN  IF index > self.commit_index
        THEN commit_entry(self, index, At(self, index).term) ELSE self

\* An answer to an operation that was already acknowledged changes nothing;
\* otherwise the next entry, if any, goes to s and a new commit to everybody.
LeaderAcknowledge(n, s) ==
    /\ node[n].loop = "leader" /\ Gets(n, s, "Acknowledge")
    /\ IF node[n].next_index[s] = UpToDate
       THEN LeaderTurn(n, s, node[n], Quiet)
       ELSE LET known == advance(node[n], s, Head(chan[s][n]).success)
                next == known.next_index[s]
                self == commit_replicated(known)
            IN  LeaderTurn(n, s, self,
                    Then(IF next = UpToDate THEN Quiet ELSE SendTo(s, Resend(known, next)),
                         IF self = known THEN Quiet ELSE SendAll(Committal(self))))
    /\ UNCHANGED granted

LeaderClientRequest(n, s) ==
    /\ node[n].loop = "leader" /\ Gets(n, s, "ClientRequest")
    /\ LET entry == Head(chan[s][n]).entries
       IN  LeaderTurn(n, s, broadcast_append_entries(node[n], n, entry),
                      broadcast_append_messages(node[n], entry))
    /\ UNCHANGED granted

LeaderIgnore(n, s) ==
    /\ node[n].loop = "leader"
    /\ \/ \E t \in {"Vote", "Heartbeat", "AppendEntries", "Committal"} : Gets(n, s, t)
       \/ Gets(n, s, "RequestVotes") /\ Head(chan[s][n]).term <= node[n].current_term
    /\ LeaderTurn(n, s, node[n], Quiet)
    /\ UNCHANGED granted

\* An iteration that finds no message.
LeaderServeClient(n) ==
    /\ node[n].loop = "leader" /\ node[n].client_queue # <<>>
    /\ Act(n, serve_client(node[n], n), serve_client_messages(node[n]))
    /\ UNCHANGED granted

\* The periodic heartbeat.
LeaderHeartbeat(n) ==
    /\ node[n].loop = "leader"
    /\ \A d \in Node : Len(chan[n][d]) < MaxQueue
    /\ Act(n, node[n], SendAll(Heartbeat(node[n])))
    /\ UNCHANGED granted

\* A node that is behind and silent is sent its next entry again.
LeaderResend(n, d) ==
    /\ node[n].loop = "leader"
    /\ node[n].next_index[d] # UpToDate
    /\ Len(chan[n][d]) + Len(chan[d][n]) < MaxQueue
    /\ Act(n, node[n], SendTo(d, Resend(node[n], node[n].next_index[d])))
    /\ UNCHANGED granted

-----------------------------------------------------------------------------
(* The environment: clients, operators and the network.                    *)

\* The entry carries the term of the node that is asked.
client_request(n, v) ==
    /\ v \in unsent
    /\ unsent' = unsent \ {v}
    /\ node' = [node EXCEPT ![n].client_queue =
                    Append(@, [term |-> node[n].current_term, entry |-> v])]
    /\ UNCHANGED <<chan, granted, paused>>

pause(n) ==
    /\ n \in CanPause \ paused
    /\ node' = [node EXCEPT ![n] = set_current_role(@, "none")]
    /\ paused' = paused \cup {n}
    /\ UNCHANGED <<chan, unsent, granted>>

\* Does nothing to a node whose role is not "none".
un_pause(n) ==
    /\ n \in paused
    /\ node' = IF node[n].role = "none"
               THEN [node EXCEPT ![n] = set_current_role(@, "follower")] ELSE node
    /\ paused' = paused \ {n}
    /\ UNCHANGED <<chan, unsent, granted>>

\* The thread finds its role changed by pause or un_pause and goes through run.
run(n) ==
    /\ node[n].loop # node[n].role
    /\ Act(n, node[n], Quiet)
    /\ UNCHANGED granted

Lose(s, d) ==
    /\ CanLose /\ chan[s][d] # <<>>
    /\ chan' = [chan EXCEPT ![s][d] = Tail(@)]
    /\ UNCHANGED <<node, unsent, granted, paused>>

-----------------------------------------------------------------------------

Receive(n, s) ==
    \/ FollowerRequestVotes(n, s)
    \/ FollowerHeartbeat(n, s)
    \/ FollowerAppendEntries(n, s)
    \/ FollowerCommittal(n, s)
    \/ FollowerIgnore(n, s)
    \/ CandidateVote(n, s)
    \/ StepDown(n, s)
    \/ CandidateHeartbeat(n, s)
    \/ CandidateIgnore(n, s)
    \/ LeaderAcknowledge(n, s)
    \/ LeaderClientRequest(n, s)
    \/ LeaderIgnore(n, s)

Next ==
    \/ \E n, s \in Node : Receive(n, s)
    \/ \E n \in Node : BeginElection(n)
    \/ \E n \in Node : LeaderServeClient(n)
    \/ \E n \in Node : LeaderHeartbeat(n)
    \/ \E n, d \in Node : LeaderResend(n, d)
    \/ \E n \in Node, v \in Value : client_request(n, v)
    \/ \E n \in Node : pause(n)
    \/ \E n \in Node : un_pause(n)
    \/ \E n \in Node : run(n)
    \/ \E s, d \in Node : Lose(s, d)

Spec == Init /\ [][Next]_vars

\* Threads go on and messages under way arrive; elections, clients, pauses
\* and losses need not happen.  A resend is due whenever its node stays
\* behind: that its channels are short again and again is enough.
FairSpec ==
    /\ Spec
    /\ \A n, s \in Node : WF_vars(Receive(n, s))
    /\ \A n \in Node : WF_vars(LeaderServeClient(n)) /\ WF_vars(run(n))
    /\ \A n \in Node : SF_vars(LeaderHeartbeat(n))
    /\ \A n, d \in Node : SF_vars(LeaderResend(n, d))

-----------------------------------------------------------------------------
(* Properties.                                                             *)

\* Every variable keeps its type; in particular no index that is sent,
\* matched or committed is ever negative or None.
TypeOK ==
    /\ node \in [Node -> NodeState]
    /\ chan \in [Node -> [Node -> Seq(Message)]]
    /\ unsent \subseteq Value
    /\ granted \subseteq Node \X Nat \X Node
    /\ paused \subseteq Node

\* The indices a leader keeps for the nodes are inside its log whatever
\* acknowledgements arrive, late, doubled or of another term: neither a
\* resend, nor the walk of next_index, nor a commit raises IndexError.
LeaderIndexSafe ==
    \A n \in Node : node[n].loop = "leader" =>
        /\ node[n].next_index[n] = UpToDate
        /\ node[n].match_index[n] = log_max_index(node[n])
        /\ \A d \in Node :
              node[n].next_index[d] \in {UpToDate} \cup 1 .. log_max_index(node[n])

\* In a term a node grants its vote to at most one candidate other than
\* itself, although heartbeats and elections clear voted_for again.
OneGrantPerTerm ==
    \A g, h \in granted :
        g[1] = h[1] /\ g[2] = h[2] /\ g[3] # g[1] /\ h[3] # h[1] => g[3] = h[3]

\* At most one node runs _leader in a term.
ElectionSafety ==
    \A n, p \in Node :
        /\ node[n].loop = "leader" /\ node[p].loop = "leader"
        /\ node[n].current_term = node[p].current_term
        => n = p

\* What _candidate says of itself: a node that leads has been granted the
\* votes of more than half of the nodes in its term.
LeaderHasMajority ==
    \A n \in Node : node[n].loop = "leader" =>
        2 * Cardinality({v \in Node : <<v, node[n].current_term, n>> \in granted})
            > Cardinality(Node)

\* Two nodes that have both committed an index hold the same entry there, so
\* their clients are told the same.
CommittedAgree ==
    \A n, p \in Node : \A i \in 0 .. node[n].commit_index :
        i <= node[p].commit_index =>
            /\ i <= log_max_index(node[n]) /\ i <= log_max_index(node[p])
            /\ At(node[n], i) = At(node[p], i)

\* What a leader has committed is in the logs of more than half of the nodes,
\* which is what it has counted acknowledgements for.
CommitReplicated ==
    \A n \in Node : node[n].loop = "leader" =>
        \A i \in 0 .. node[n].commit_index :
            2 * Cardinality({d \in Node :
                    i <= log_max_index(node[d]) /\ At(node[d], i) = At(node[n], i)})
                > Cardinality(Node)

\* A client's value is appended once, by whichever leader it reaches and however
\* often its entry is sent again: wherever it is logged, it has the same index.
ValueLoggedOnce ==
    \A v \in Value \ {"Init Entry", "Leader Entry"} : \A n, p \in Node :
        \A i \in 0 .. log_max_index(node[n]), j \in 0 .. log_max_index(node[p]) :
            At(node[n], i).entry = v /\ At(node[p], j).entry = v => i = j

\* No step, of whatever leader, cuts or replaces a committed entry of a log.
CommittedKept ==
    [][\A n \in Node : \A i \in 0 .. node[n].commit_index :
          i <= log_max_index(node[n]) =>
             i <= log_max_index(node'[n]) /\ At(node'[n], i) = At(node[n], i)]_vars

\* Once a node leads, and no later election disturbs it, a value that a
\* client has asked any node for is at last committed on every node:
\* forwarded to the leader, appended, resent to nodes that were candidates
\* when it was sent, acknowledged and committed.
ClientValueCommitted ==
    \A v \in Value :
        v \notin unsent /\ (\E n \in Node : node[n].loop = "leader")
            ~> \A n \in Node : \E i \in 0 .. node[n].commit_index : At(node[n], i).entry = v

=============================================================================
