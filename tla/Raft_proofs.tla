---------------------------- MODULE Raft_proofs ----------------------------
(***************************************************************************)
(* Safety of Raft for every set of nodes, any number of elections and any  *)
(* channels: the types, the indices a leader keeps, the votes granted, and *)
(* the one place of each client's value in the logs.                       *)
(***************************************************************************)
EXTENDS Raft, FiniteSetTheorems, SequenceTheorems, WellFoundedInduction, TLAPS

-----------------------------------------------------------------------------
(* The inductive invariant.                                                *)

\* A state of a node whose log still begins with the initial entry.
Logged(self) == self \in NodeState /\ Len(self.log) > 0

\* What n, leading as self, knows of each node is an index of its log, or was
\* committed when it became the leader.
Leads(self, n) ==
    /\ self.next_index[n] = UpToDate
    /\ self.match_index[n] = log_max_index(self)
    /\ \A d \in Node :
          /\ self.next_index[d] \in {UpToDate} \cup 1 .. log_max_index(self)
          /\ self.match_index[d] <= self.commit_index
                \/ self.match_index[d] <= log_max_index(self)

LogInv == \A n \in Node : Logged(node[n])

\* Candidates and leaders are in the loops of their roles: pause and un_pause
\* may give a node that is in such a loop another role, but not these two.
RoleInv ==
    \A n \in Node : node[n].role \in {"candidate", "leader"} => node[n].loop = node[n].role

LeaderInv == \A n \in Node : node[n].loop = "leader" => Leads(node[n], n)

RaftInv == TypeOK /\ LogInv /\ RoleInv /\ LeaderInv

-----------------------------------------------------------------------------
(* Numbers and sequences.                                                  *)

\* Every set of numbers that is not empty has a least one.
LEMMA LeastNumber ==
    ASSUME NEW S \in SUBSET Nat, S # {}
    PROVE  \E m \in S : \A k \in S : m <= k
  <1>1. PICK m \in S : \A k \in S : <<k, m>> \notin OpToRel(<, Nat)
    BY WFMin, NatLessThanWellFounded, Zenon
  <1>2. \A k \in S : ~ (k < m)
    BY <1>1, Zenon DEF OpToRel
  <1> QED BY <1>2

\* A group has at least one node.
LEMMA GroupSize == Cardinality(Node) \in Nat /\ Cardinality(Node) > 0
  <1>1. Cardinality(Node) \in Nat
    BY NodeAssumption, FS_CardinalityType
  <1>2. Cardinality(Node) # 0
    BY NodeAssumption, FS_EmptySet
  <1> QED BY <1>1, <1>2

\* Whatever the scan's name says, the index it leaves in max_committable_index
\* is the lowest of all, which is replicated on every node.
LEMMA CommittableIsLeast ==
    ASSUME NEW match \in [Node -> Nat]
    PROVE  \E d \in Node : /\ max_committable_index(match) = match[d]
                           /\ \A e \in Node : match[d] <= match[e]
  <1> DEFINE indices == {match[d] : d \in Node}
             on(i) == {d \in Node : i <= match[d]}
             committable == {i \in indices :
                                Cardinality(on(i)) >= Cardinality(Node) \div 2 + 1}
  <1>1. indices \in SUBSET Nat /\ indices # {}
    BY NodeAssumption
  <1>2. PICK low \in indices : \A i \in indices : low <= i
    BY <1>1, LeastNumber
  <1>3. low \in committable
    <2>1. on(low) = Node
      BY <1>2
    <2>2. Cardinality(Node) >= Cardinality(Node) \div 2 + 1
      BY GroupSize
    <2> QED BY <2>1, <2>2
  <1>4. max_committable_index(match) = low
    <2>1. \A i \in committable : low <= i /\ i \in Nat /\ low \in Nat
      BY <1>1, <1>2
    <2>2. max_committable_index(match) = CHOOSE i \in committable : \A j \in committable : i <= j
      BY DEF max_committable_index
    <2> HIDE DEF committable
    <2> QED BY <1>3, <2>1, <2>2
  <1> QED BY <1>2, <1>4

-----------------------------------------------------------------------------
(* The methods of a node keep its type and a log that is never empty.      *)

\* A log has its first entry at index 0.
LEMMA LogSize ==
    ASSUME NEW self, Logged(self)
    PROVE  log_max_index(self) \in Nat /\ Len(self.log) = log_max_index(self) + 1
  <1>1. Len(self.log) \in Nat /\ Len(self.log) > 0
    BY LenProperties DEF Logged, NodeState
  <1> QED BY <1>1 DEF log_max_index

\* Inside the log there are entries.
LEMMA EntryAt ==
    ASSUME NEW self, Logged(self), NEW i \in 0 .. log_max_index(self)
    PROVE  At(self, i) \in Entry /\ At(self, i).term \in Nat
  <1>1. i + 1 \in 1 .. Len(self.log)
    BY LogSize
  <1>2. self.log \in Seq(Entry)
    BY DEF Logged, NodeState
  <1>3. self.log[i + 1] \in Entry
    BY <1>1, <1>2, ElementOfSeq
  <1> QED BY <1>3 DEF At, Entry

\* set_current_role keeps the node's type and log.
LEMMA RoleChange ==
    ASSUME NEW self, Logged(self), NEW role \in Role
    PROVE  Logged(set_current_role(self, role))
  BY DEF Logged, NodeState, set_current_role

\* increment_term and the adoption of a newer term keep them.
LEMMA TermChange ==
    ASSUME NEW self, Logged(self), NEW term \in Nat
    PROVE  Logged(increment_term(self, term)) /\ Logged(adopt_term(self, term))
  BY DEF Logged, NodeState, increment_term, adopt_term

\* send_vote keeps them.
LEMMA VoteChange ==
    ASSUME NEW self, Logged(self), NEW candidate \in Node
    PROVE  Logged(send_vote(self, candidate))
  BY DEF Logged, NodeState, send_vote

\* commit_entry keeps them.
LEMMA CommitChange ==
    ASSUME NEW self, Logged(self), NEW index \in Nat, NEW term \in Nat
    PROVE  Logged(commit_entry(self, index, term))
  BY DEF Logged, NodeState, commit_entry

\* append_entry at the end makes the log one longer.
LEMMA LastAppended ==
    ASSUME NEW self, Logged(self), NEW entry \in Entry
    PROVE  /\ Logged(append_last(self, entry))
           /\ log_max_index(append_last(self, entry)) = log_max_index(self) + 1
  <1>1. self.log \in Seq(Entry) /\ Len(self.log) \in Nat
    BY LogSize DEF Logged, NodeState
  <1>2. Append(self.log, entry) \in Seq(Entry) /\ Len(Append(self.log, entry)) = Len(self.log) + 1
    BY <1>1, AppendProperties
  <1>3. PICK longer : longer = Append(self.log, entry)
    OBVIOUS
  <1>4. PICK new : new = append_last(self, entry)
    OBVIOUS
  <1>5. new \in NodeState /\ new.log = longer
    BY <1>2, <1>3, <1>4 DEF append_last, Logged, NodeState
  <1> QED BY <1>1, <1>2, <1>3, <1>4, <1>5 DEF Logged, log_max_index

\* append_entry after any index of the log leaves a log that is not empty.
LEMMA EntryAppended ==
    ASSUME NEW self, Logged(self), NEW entry \in Entry, NEW commit,
           NEW prev_index \in Nat, prev_index < Len(self.log)
    PROVE  Logged(append_entry(self, entry, commit, prev_index))
  <1>1. self.log \in Seq(Entry) /\ Len(self.log) \in Nat
    BY LogSize DEF Logged, NodeState
  <1>2. \A i \in 1 .. prev_index + 1 : self.log[i] \in Entry
    BY <1>1, ElementOfSeq
  <1>3. PICK kept \in Seq(Entry) : kept = SubSeq(self.log, 1, prev_index + 1)
    <2>1. PICK k \in Int : k = prev_index + 1
      OBVIOUS
    <2>2. \A i \in 1 .. k : self.log[i] \in Entry
      BY <1>2, <2>1
    <2>3. SubSeq(self.log, 1, k) \in Seq(Entry)
      BY <2>2, SubSeqProperties
    <2> QED BY <2>1, <2>3
  <1>4. Append(kept, entry) \in Seq(Entry) /\ Len(Append(kept, entry)) > 0
    BY AppendProperties, LenProperties
  <1>5. PICK longer : longer = Append(kept, entry)
    OBVIOUS
  <1>6. PICK cut : cut = [self EXCEPT !.log = longer]
    OBVIOUS
  <1>7. Logged(cut)
    BY <1>4, <1>5, <1>6 DEF Logged, NodeState
  <1>8. append_entry(self, entry, commit, prev_index)
            = IF commit THEN commit_entry(cut, prev_index, entry.term) ELSE cut
    BY <1>3, <1>5, <1>6 DEF append_entry
  <1> QED BY <1>7, <1>8, CommitChange DEF Entry

\* The look at current_role at the head of a loop keeps them.
LEMMA RoleChecked ==
    ASSUME NEW self, Logged(self)
    PROVE  Logged(CheckRole(self)) /\ CheckRole(self).loop = self.role
  BY DEF Logged, NodeState, CheckRole

\* Whether n leads as self does not depend on its role, its clients or its votes.
LEMMA LeadsChecked ==
    ASSUME NEW self, Logged(self), NEW n \in Node, Leads(self, n)
    PROVE  Leads(CheckRole(self), n)
  BY DEF Logged, NodeState, CheckRole, Leads, log_max_index

\* A broadcast leaves next_index of every follower inside the longer log.
LEMMA BroadcastLeads ==
    ASSUME NEW self, Logged(self), NEW n \in Node, NEW entry \in Entry,
           \A d \in Node : /\ self.next_index[d] \in {UpToDate} \cup 1 .. log_max_index(self)
                           /\ self.match_index[d] <= self.commit_index
                                 \/ self.match_index[d] <= log_max_index(self)
    PROVE  /\ Logged(broadcast_append_entries(self, n, entry))
           /\ Leads(broadcast_append_entries(self, n, entry), n)
           /\ broadcast_append_entries(self, n, entry).role = self.role
  <1>1. PICK longer : longer = append_last(self, entry)
    OBVIOUS
  <1>2. PICK m \in Nat : m = log_max_index(self)
    BY LogSize
  <1>3. Logged(longer) /\ log_max_index(longer) = m + 1
    BY <1>1, <1>2, LastAppended
  <1>4. /\ longer.next_index = self.next_index /\ longer.match_index = self.match_index
        /\ longer.commit_index = self.commit_index /\ longer.role = self.role
    BY <1>1 DEF append_last, Logged, NodeState
  <1>5. PICK next : next = [d \in Node |-> IF d = n THEN UpToDate
                                           ELSE IF longer.next_index[d] = UpToDate THEN m + 1
                                           ELSE longer.next_index[d]]
    OBVIOUS
  <1>6. PICK match : match = [longer.match_index EXCEPT ![n] = m + 1]
    OBVIOUS
  <1>7. broadcast_append_entries(self, n, entry)
            = [longer EXCEPT !.next_index = next, !.match_index = match]
    BY <1>1, <1>3, <1>5, <1>6 DEF broadcast_append_entries, Logged, NodeState
  <1>8. PICK new : new = [longer EXCEPT !.next_index = next, !.match_index = match]
    OBVIOUS
  <1>9. next \in [Node -> Int] /\ match \in [Node -> Nat]
    <2>1. longer.next_index \in [Node -> Int] /\ longer.match_index \in [Node -> Nat]
      BY <1>3 DEF Logged, NodeState
    <2>2. UpToDate \in Int /\ m + 1 \in Nat /\ m + 1 \in Int
      BY DEF UpToDate
    <2> QED BY <1>5, <1>6, <2>1, <2>2
  <1>10. /\ Logged(new) /\ log_max_index(new) = m + 1 /\ new.role = self.role
         /\ new.next_index = next /\ new.match_index = match
         /\ new.commit_index = self.commit_index
    BY <1>3, <1>4, <1>8, <1>9 DEF Logged, NodeState, log_max_index
  <1>11. self.commit_index \in Nat /\ \A d \in Node : self.match_index[d] \in Nat
    BY DEF Logged, NodeState
  <1>12. /\ next[n] = UpToDate /\ match[n] = m + 1
         /\ \A d \in Node : next[d] \in {UpToDate} \cup 1 .. m + 1
         /\ \A d \in Node : match[d] <= self.commit_index \/ match[d] <= m + 1
    <2>1. longer.next_index \in [Node -> Int] /\ longer.match_index \in [Node -> Nat]
      BY <1>3 DEF Logged, NodeState
    <2>2. \A d \in Node : /\ longer.next_index[d] \in {UpToDate} \cup 1 .. m
                          /\ longer.match_index[d] <= self.commit_index
                                \/ longer.match_index[d] <= m
      BY <1>2, <1>4
    <2>3. \A d \in Node : longer.match_index[d] \in Nat
      BY <2>1
    <2>4. next[n] = UpToDate /\ \A d \in Node : next[d] \in {UpToDate} \cup 1 .. m + 1
      BY <1>5, <2>2
    <2>5. match[n] = m + 1 /\ \A d \in Node : d # n => match[d] = longer.match_index[d]
      BY <1>6, <2>1
    <2>6. \A d \in Node : match[d] <= self.commit_index \/ match[d] <= m + 1
      BY <1>11, <2>2, <2>3, <2>5
    <2> QED BY <2>4, <2>5, <2>6
  <1> QED BY <1>7, <1>8, <1>10, <1>12 DEF Leads

\* The head of _leader sets both indices inside the log.
LEMMA LeadingStarted ==
    ASSUME NEW self, Logged(self), NEW n \in Node
    PROVE  /\ Logged(start_leading(self, n)) /\ Leads(start_leading(self, n), n)
           /\ start_leading(self, n).role = "leader"
  <1>1. PICK reset : reset = [set_current_role(self, "leader") EXCEPT
                                 !.next_index = [d \in Node |-> UpToDate],
                                 !.match_index = [d \in Node |-> self.commit_index]]
    OBVIOUS
  <1>2. PICK entry \in Entry : entry = [term |-> self.current_term, entry |-> "Leader Entry"]
    BY DEF Logged, NodeState, Entry
  <1>3. /\ Logged(reset) /\ reset.role = "leader" /\ reset.commit_index = self.commit_index
        /\ reset.next_index = [d \in Node |-> UpToDate]
        /\ reset.match_index = [d \in Node |-> self.commit_index]
    <2>1. Logged(set_current_role(self, "leader")) /\ self.commit_index \in Nat
      BY RoleChange DEF Logged, NodeState, Role
    <2>2. /\ [d \in Node |-> UpToDate] \in [Node -> Int]
          /\ [d \in Node |-> self.commit_index] \in [Node -> Nat]
      BY <2>1 DEF UpToDate
    <2> QED BY <1>1, <2>1, <2>2 DEF Logged, NodeState, set_current_role
  <1>4. start_leading(self, n) = broadcast_append_entries(reset, n, entry)
    BY <1>1, <1>2 DEF start_leading
  <1>5. \A d \in Node : /\ reset.next_index[d] \in {UpToDate} \cup 1 .. log_max_index(reset)
                        /\ reset.match_index[d] <= reset.commit_index
    BY <1>3 DEF Logged, NodeState
  <1> QED BY <1>3, <1>4, <1>5, BroadcastLeads

\* Serving the client queue keeps a leader's indices inside the log.
LEMMA ClientServed ==
    ASSUME NEW self, Logged(self), NEW n \in Node, Leads(self, n)
    PROVE  /\ Logged(serve_client(self, n)) /\ Leads(serve_client(self, n), n)
           /\ serve_client(self, n).role = self.role
  <1>1. CASE self.client_queue = <<>>
    BY <1>1 DEF serve_client
  <1>2. CASE self.client_queue # <<>>
    <2>1. Head(self.client_queue) \in Entry /\ Tail(self.client_queue) \in Seq(Entry)
      BY <1>2, HeadTailProperties DEF Logged, NodeState
    <2>2. PICK rest \in Seq(Entry) : rest = Tail(self.client_queue)
      BY <2>1
    <2>3. PICK served : served = [self EXCEPT !.client_queue = rest]
      OBVIOUS
    <2>4. /\ Logged(served) /\ served.role = self.role /\ log_max_index(served) = log_max_index(self)
          /\ served.next_index = self.next_index /\ served.match_index = self.match_index
          /\ served.commit_index = self.commit_index
      BY <2>3 DEF Logged, NodeState, log_max_index
    <2>5. serve_client(self, n) = broadcast_append_entries(served, n, Head(self.client_queue))
      BY <1>2, <2>2, <2>3 DEF serve_client
    <2> QED BY <2>1, <2>4, <2>5, BroadcastLeads DEF Leads
  <1> QED BY <1>1, <1>2

\* An acknowledgement moves the indices of its sender inside the log.
LEMMA Advanced ==
    ASSUME NEW self, Logged(self), NEW n \in Node, Leads(self, n),
           NEW s \in Node, self.next_index[s] # UpToDate, NEW success \in BOOLEAN
    PROVE  /\ Logged(advance(self, s, success)) /\ Leads(advance(self, s, success), n)
           /\ advance(self, s, success).role = self.role
           /\ advance(self, s, success).commit_index = self.commit_index
  <1>1. PICK m \in Nat : m = log_max_index(self)
    BY LogSize
  <1>2. PICK i \in 1 .. m : i = self.next_index[s]
    BY <1>1 DEF Leads
  <1>3. s # n
    BY DEF Leads
  <1>4. PICK moved : moved = IF success THEN i + 1 ELSE IF i # 1 THEN i - 1 ELSE i
    OBVIOUS
  <1>5. PICK j : j = IF moved > m THEN UpToDate ELSE moved
    OBVIOUS
  <1>6. j \in {UpToDate} \cup 1 .. m /\ j \in Int
    BY <1>2, <1>4, <1>5 DEF UpToDate
  <1>7. PICK k : k = IF success THEN i ELSE self.match_index[s]
    OBVIOUS
  <1>8. /\ self.next_index \in [Node -> Int] /\ self.match_index \in [Node -> Nat]
        /\ self.commit_index \in Nat
    BY DEF Logged, NodeState
  <1>9. k \in Nat /\ (k <= self.commit_index \/ k <= m)
    <2>1. self.match_index[s] <= self.commit_index \/ self.match_index[s] <= m
      BY <1>1 DEF Leads
    <2>2. self.match_index[s] \in Nat
      BY <1>8
    <2> QED BY <1>2, <1>7, <2>1, <2>2
  <1>10. PICK next \in [Node -> Int] : next = [self.next_index EXCEPT ![s] = j]
    BY <1>6, <1>8
  <1>11. PICK match \in [Node -> Nat] : match = [self.match_index EXCEPT ![s] = k]
    BY <1>8, <1>9
  <1>12. PICK new : new = [self EXCEPT !.match_index = match, !.next_index = next]
    OBVIOUS
  <1>13. advance(self, s, success) = new
    BY <1>1, <1>2, <1>4, <1>5, <1>7, <1>10, <1>11, <1>12 DEF advance, Logged, NodeState
  <1>14. /\ Logged(new) /\ log_max_index(new) = m /\ new.role = self.role
         /\ new.next_index = next /\ new.match_index = match
         /\ new.commit_index = self.commit_index
    BY <1>1, <1>12 DEF Logged, NodeState, log_max_index
  <1>15. /\ next[n] = UpToDate /\ match[n] = m
         /\ \A d \in Node : next[d] \in {UpToDate} \cup 1 .. m
         /\ \A d \in Node : match[d] <= self.commit_index \/ match[d] <= m
    <2>1. \A d \in Node : /\ next[d] = IF d = s THEN j ELSE self.next_index[d]
                          /\ match[d] = IF d = s THEN k ELSE self.match_index[d]
      BY <1>8, <1>10, <1>11
    <2> QED BY <1>1, <1>3, <1>6, <1>9, <2>1 DEF Leads
  <1> QED BY <1>13, <1>14, <1>15 DEF Leads

\* What a leader commits is in its log.
LEMMA ReplicatedCommitted ==
    ASSUME NEW self, Logged(self), NEW n \in Node, Leads(self, n)
    PROVE  /\ Logged(commit_replicated(self)) /\ Leads(commit_replicated(self), n)
           /\ commit_replicated(self).role = self.role
  <1>1. self.match_index \in [Node -> Nat] /\ self.commit_index \in Nat
    BY DEF Logged, NodeState
  <1>2. PICK d \in Node : max_committable_index(self.match_index) = self.match_index[d]
    BY <1>1, CommittableIsLeast
  <1>3. PICK index \in Nat : index = self.match_index[d]
    BY <1>1
  <1>4. CASE index > self.commit_index
    <2>1. index \in 0 .. log_max_index(self)
      BY <1>1, <1>3, <1>4, LogSize DEF Leads
    <2>2. PICK term \in Nat : term = At(self, index).term
      BY <2>1, EntryAt
    <2>3. PICK new : new = [self EXCEPT !.commit_index = index, !.last_applied_term = term]
      OBVIOUS
    <2>4. commit_replicated(self) = new
      BY <1>2, <1>3, <1>4, <2>2, <2>3 DEF commit_replicated, commit_entry
    <2>5. /\ Logged(new) /\ log_max_index(new) = log_max_index(self) /\ new.role = self.role
          /\ new.next_index = self.next_index /\ new.match_index = self.match_index
          /\ new.commit_index = index
      BY <2>3 DEF Logged, NodeState, log_max_index
    <2>6. \A e \in Node : self.match_index[e] <= index \/ self.match_index[e] <= log_max_index(self)
      <3>1. \A e \in Node : self.match_index[e] \in Nat
        BY <1>1
      <3> QED BY <1>1, <1>4, <3>1, LogSize DEF Leads
    <2> QED BY <2>4, <2>5, <2>6 DEF Leads
  <1>5. CASE ~ (index > self.commit_index)
    BY <1>2, <1>3, <1>5 DEF commit_replicated
  <1> QED BY <1>4, <1>5

\* A longer log is the old one and the new entry.
LEMMA LongerLog ==
    ASSUME NEW log \in Seq(Entry), NEW entry \in Entry
    PROVE  /\ Append(log, entry) \in Seq(Entry) /\ Len(Append(log, entry)) = Len(log) + 1
           /\ Append(log, entry)[Len(log) + 1] = entry
           /\ \A i \in 1 .. Len(log) : Append(log, entry)[i] = log[i]
  BY AppendProperties, LenProperties

\* What _broadcast_append_entries changes.
LEMMA BroadcastChanges ==
    ASSUME NEW self, Logged(self), NEW n \in Node, NEW entry \in Entry, NEW new,
           new = broadcast_append_entries(self, n, entry)
    PROVE  /\ new.log = Append(self.log, entry) /\ Logged(new)
           /\ new.current_term = self.current_term /\ new.commit_index = self.commit_index
           /\ new.voted_for = self.voted_for /\ new.client_queue = self.client_queue
           /\ \A d \in Node : d # n =>
                 /\ new.match_index[d] = self.match_index[d]
                 /\ new.next_index[d] = IF self.next_index[d] = UpToDate THEN Len(self.log)
                                        ELSE self.next_index[d]
  <1>1. PICK longer : longer = append_last(self, entry)
    OBVIOUS
  <1>2. /\ Logged(longer) /\ log_max_index(longer) = log_max_index(self) + 1
        /\ log_max_index(self) \in Nat /\ Len(self.log) = log_max_index(self) + 1
    BY <1>1, LastAppended, LogSize
  <1>3. /\ longer.next_index = self.next_index /\ longer.match_index = self.match_index
        /\ longer.commit_index = self.commit_index /\ longer.voted_for = self.voted_for
        /\ longer.current_term = self.current_term /\ longer.client_queue = self.client_queue
        /\ longer.log = Append(self.log, entry)
    BY <1>1 DEF append_last, Logged, NodeState
  <1>4. PICK size \in Nat : size = Len(self.log) /\ size = log_max_index(longer)
    BY <1>2
  <1>5. self.next_index \in [Node -> Int] /\ self.match_index \in [Node -> Nat]
    BY DEF Logged, NodeState
  <1>6. PICK next \in [Node -> Int] :
            next = [d \in Node |-> IF d = n THEN UpToDate
                                   ELSE IF longer.next_index[d] = UpToDate THEN size
                                   ELSE longer.next_index[d]]
    <2>1. longer.next_index \in [Node -> Int] /\ UpToDate \in Int /\ size \in Int
      BY <1>3, <1>5 DEF UpToDate
    <2> QED BY <2>1
  <1>7. PICK match \in [Node -> Nat] : match = [longer.match_index EXCEPT ![n] = size]
    BY <1>3, <1>5
  <1>8. new = [longer EXCEPT !.next_index = next, !.match_index = match]
    BY <1>1, <1>2, <1>4, <1>6, <1>7 DEF broadcast_append_entries, Logged, NodeState
  <1>9. /\ Logged(new) /\ new.log = longer.log /\ new.current_term = longer.current_term
        /\ new.commit_index = longer.commit_index /\ new.voted_for = longer.voted_for
        /\ new.next_index = next /\ new.match_index = match
        /\ new.client_queue = longer.client_queue
    BY <1>2, <1>8 DEF Logged, NodeState
  <1>10. \A d \in Node : d # n =>
            /\ match[d] = self.match_index[d]
            /\ next[d] = IF self.next_index[d] = UpToDate THEN size ELSE self.next_index[d]
    BY <1>3, <1>5, <1>6, <1>7
  <1> QED BY <1>3, <1>4, <1>9, <1>10

\* What an acknowledgement of s changes.
LEMMA AdvanceChanges ==
    ASSUME NEW self, Logged(self), NEW s \in Node, NEW success \in BOOLEAN,
           NEW next \in 1 .. log_max_index(self), next = self.next_index[s],
           NEW new, new = advance(self, s, success)
    PROVE  /\ new.log = self.log /\ new.current_term = self.current_term
           /\ new.commit_index = self.commit_index /\ new.voted_for = self.voted_for
           /\ new.client_queue = self.client_queue
           /\ \A d \in Node : d # s => /\ new.next_index[d] = self.next_index[d]
                                       /\ new.match_index[d] = self.match_index[d]
           /\ success => /\ new.match_index[s] = next
                         /\ new.next_index[s] = IF next + 1 > log_max_index(self) THEN UpToDate
                                                ELSE next + 1
  <1>1. PICK moved : moved = IF success THEN next + 1 ELSE IF next # 1 THEN next - 1 ELSE next
    OBVIOUS
  <1>2. PICK j : j = IF moved > log_max_index(self) THEN UpToDate ELSE moved
    OBVIOUS
  <1>3. PICK k : k = IF success THEN next ELSE self.match_index[s]
    OBVIOUS
  <1>4. self.next_index \in [Node -> Int] /\ self.match_index \in [Node -> Nat]
    BY DEF Logged, NodeState
  <1>5. PICK nexts : nexts = [self.next_index EXCEPT ![s] = j]
    OBVIOUS
  <1>6. PICK matches : matches = [self.match_index EXCEPT ![s] = k]
    OBVIOUS
  <1>7. new = [self EXCEPT !.match_index = matches, !.next_index = nexts]
    BY <1>1, <1>2, <1>3, <1>5, <1>6 DEF advance, Logged, NodeState
  <1>8. /\ new.log = self.log /\ new.current_term = self.current_term
        /\ new.commit_index = self.commit_index /\ new.voted_for = self.voted_for
        /\ new.client_queue = self.client_queue
        /\ new.next_index = nexts /\ new.match_index = matches
    BY <1>7 DEF Logged, NodeState
  <1>9. \A d \in Node : /\ nexts[d] = IF d = s THEN j ELSE self.next_index[d]
                        /\ matches[d] = IF d = s THEN k ELSE self.match_index[d]
    BY <1>4, <1>5, <1>6
  <1>10. success => moved = next + 1
    BY <1>1
  <1> QED BY <1>2, <1>3, <1>8, <1>9, <1>10

\* A commit changes commit_index alone, to an index that every node has
\* acknowledged.
LEMMA CommitChanges ==
    ASSUME NEW self, Logged(self), NEW new, new = commit_replicated(self)
    PROVE  /\ new.log = self.log /\ new.current_term = self.current_term
           /\ new.next_index = self.next_index /\ new.match_index = self.match_index
           /\ new.voted_for = self.voted_for /\ new.client_queue = self.client_queue
           /\ \/ new.commit_index = self.commit_index
              \/ \A e \in Node : new.commit_index <= self.match_index[e]
  <1>1. self.match_index \in [Node -> Nat]
    BY DEF Logged, NodeState
  <1>2. PICK d \in Node : /\ max_committable_index(self.match_index) = self.match_index[d]
                          /\ \A e \in Node : self.match_index[d] <= self.match_index[e]
    BY <1>1, CommittableIsLeast
  <1>3. PICK index : index = self.match_index[d]
    OBVIOUS
  <1>4. CASE index > self.commit_index
    <2>1. PICK term : term = At(self, index).term
      OBVIOUS
    <2>2. new = [self EXCEPT !.commit_index = index, !.last_applied_term = term]
      BY <1>2, <1>3, <1>4, <2>1 DEF commit_replicated, commit_entry
    <2> QED BY <1>2, <1>3, <2>2 DEF Logged, NodeState
  <1>5. CASE ~ (index > self.commit_index)
    BY <1>2, <1>3, <1>5 DEF commit_replicated
  <1> QED BY <1>4, <1>5

\* What _append_entry after an index of the log changes.
LEMMA AppendChanges ==
    ASSUME NEW self, Logged(self), NEW entry \in Entry, NEW commit \in BOOLEAN,
           NEW prev_index \in Nat, prev_index < Len(self.log),
           NEW new, new = append_entry(self, entry, commit, prev_index)
    PROVE  /\ Logged(new) /\ Len(new.log) = prev_index + 2 /\ new.log[prev_index + 2] = entry
           /\ \A i \in 1 .. prev_index + 1 : new.log[i] = self.log[i]
           /\ new.commit_index = IF commit THEN prev_index ELSE self.commit_index
           /\ new.voted_for = self.voted_for /\ new.role = self.role
           /\ new.current_term = self.current_term /\ new.client_queue = self.client_queue
  <1>1. PICK k \in Nat : k = prev_index + 1
    OBVIOUS
  <1>2. self.log \in Seq(Entry) /\ Len(self.log) \in Nat /\ k <= Len(self.log)
    BY <1>1, LogSize DEF Logged, NodeState
  <1>3. \A i \in 1 .. k : self.log[i] \in Entry
    BY <1>2, ElementOfSeq
  <1>4. PICK kept \in Seq(Entry) : kept = SubSeq(self.log, 1, k) /\ Len(kept) = k
                                   /\ \A i \in 1 .. k : kept[i] = self.log[i]
    <2>1. /\ SubSeq(self.log, 1, k) \in Seq(Entry)
          /\ Len(SubSeq(self.log, 1, k)) = IF 1 <= k THEN k - 1 + 1 ELSE 0
          /\ \A i \in 1 .. k - 1 + 1 : SubSeq(self.log, 1, k)[i] = self.log[1 + i - 1]
      BY <1>1, <1>3, SubSeqProperties
    <2>2. k - 1 + 1 = k /\ 1 <= k /\ \A i \in 1 .. k : 1 + i - 1 = i
      BY <1>1
    <2>3. /\ Len(SubSeq(self.log, 1, k)) = k
          /\ \A i \in 1 .. k : SubSeq(self.log, 1, k)[i] = self.log[i]
      BY <2>1, <2>2
    <2> QED BY <2>1, <2>3
  <1>5. PICK longer \in Seq(Entry) : longer = Append(kept, entry)
    BY LongerLog
  <1>6. /\ Len(longer) = k + 1 /\ longer[k + 1] = entry
        /\ \A i \in 1 .. k : longer[i] = self.log[i]
    BY <1>4, <1>5, LongerLog
  <1>7. PICK cut : cut = [self EXCEPT !.log = longer]
    OBVIOUS
  <1>8. /\ cut \in NodeState /\ cut.log = longer /\ cut.commit_index = self.commit_index
        /\ cut.voted_for = self.voted_for /\ cut.role = self.role
        /\ cut.current_term = self.current_term /\ cut.client_queue = self.client_queue
    BY <1>7 DEF Logged, NodeState
  <1>9. new = IF commit THEN commit_entry(cut, prev_index, entry.term) ELSE cut
    BY <1>1, <1>4, <1>5, <1>7 DEF append_entry
  <1>10. /\ new.log = longer /\ new.commit_index = IF commit THEN prev_index ELSE self.commit_index
         /\ new.voted_for = self.voted_for /\ new.role = self.role
         /\ new.current_term = self.current_term /\ new.client_queue = self.client_queue
    BY <1>8, <1>9 DEF commit_entry, NodeState
  <1>11. Logged(new)
    BY EntryAppended
  <1>12. k + 1 = prev_index + 2
    BY <1>1
  <1> QED BY <1>1, <1>6, <1>10, <1>11, <1>12

-----------------------------------------------------------------------------
(* Messages and channels.                                                  *)

\* What a step sends to each node, out of the messages of S.
Sending(S) == [Node -> Seq(S)]
Outgoing == Sending(Message)

\* Messages that have no part in the votes.
PlainMessage == {m \in Message : m.type # "RequestVotes" /\ (m.type = "Vote" => ~ m.vote_granted)}

\* A channel has lost at most its first message and got only messages of S.
Passed(S, new, old) ==
    \E k \in {0, 1} : \A i \in DOMAIN new :
        new[i] \in S \/ (i + k \in DOMAIN old /\ new[i] = old[i + k])

\* It has got only plain ones.
Kept(new, old) == Passed(PlainMessage, new, old)

PlainSent == \A a, b \in Node : Kept(chan'[a][b], chan[a][b])

\* The first message from s to n is among those that are gone.
Taken(n, s) == Kept(chan'[s][n], Tail(chan[s][n]))

\* The only message sent that is not plain is the vote of n for s.
VoteSent(n, s) ==
    /\ \A a, b \in Node : a # n \/ b # s => Kept(chan'[a][b], chan[a][b])
    /\ \E q \in Seq(Message) :
          Kept(q, chan[n][s]) /\ chan'[n][s] = q \o <<Vote(TRUE)>>

\* Nothing, one message to one node, and one message to all are sendings.
LEMMA SendingType ==
    ASSUME NEW S
    PROVE  /\ Quiet \in Sending(S)
           /\ \A r \in Node : \A m \in S : SendTo(r, m) \in Sending(S)
           /\ \A m \in S : SendAll(m) \in Sending(S)
  <1>1. <<>> \in Seq(S) /\ \A m \in S : <<m>> \in Seq(S)
    OBVIOUS
  <1> QED BY <1>1 DEF Quiet, SendTo, SendAll, Sending

\* Two sendings after each other are one.
LEMMA ThenType ==
    ASSUME NEW S, NEW out \in Sending(S), NEW more \in Sending(S)
    PROVE  Then(out, more) \in Sending(S)
  <1>1. \A d \in Node : out[d] \o more[d] \in Seq(S)
    BY ConcatProperties DEF Sending
  <1> QED BY <1>1 DEF Then, Sending

\* Messages without votes and requests for votes may be sent.
LEMMA PlainIsOutgoing ==
    ASSUME NEW out \in Sending(PlainMessage)
    PROVE  out \in Outgoing
  <1>1. PlainMessage \subseteq Message
    BY DEF PlainMessage
  <1>2. \A d \in Node : out[d] \in Seq(Message)
    BY <1>1, SeqMonotonic DEF Sending
  <1> QED BY <1>2 DEF Outgoing, Sending

\* What a handler reads of a message has its type.
LEMMA MessageFields ==
    ASSUME NEW m \in Message
    PROVE  /\ m.type \in {"RequestVotes", "Heartbeat", "AppendEntries"} => m.term \in Nat
           /\ m.type = "Vote" => m.vote_granted \in BOOLEAN
           /\ m.type = "AppendEntries" =>
                 m.prev_log_index \in Nat /\ m.entries \in Entry /\ m.leader_commit \in Nat
           /\ m.type = "Committal" => m.prev_log_index \in Nat /\ m.prev_log_term \in Nat
           /\ m.type = "Acknowledge" => m.success \in BOOLEAN
           /\ m.type = "ClientRequest" => m.entries \in Entry
  BY DEF Message

\* The messages a node builds have their types.
LEMMA MessageTypes ==
    ASSUME NEW self, Logged(self)
    PROVE  /\ RequestVotes(self) \in Message /\ Vote(TRUE) \in Message
           /\ Vote(FALSE) \in PlainMessage
           /\ Heartbeat(self) \in PlainMessage /\ Committal(self) \in PlainMessage
           /\ \A g \in BOOLEAN : Acknowledge(g) \in PlainMessage
           /\ \A entry \in Entry : ClientRequest(entry) \in PlainMessage
           /\ \A index, term \in Nat : \A entry \in Entry :
                 AppendEntries(self, index, term, entry) \in PlainMessage
  <1>1. self.current_term \in Nat /\ self.commit_index \in Nat /\ self.last_applied_term \in Nat
    BY DEF Logged, NodeState
  <1>2. RequestVotes(self) \in Message
    BY <1>1 DEF RequestVotes, Message
  <1>3. Heartbeat(self) \in PlainMessage
    BY <1>1 DEF Heartbeat, Message, PlainMessage
  <1>4. Committal(self) \in PlainMessage
    BY <1>1 DEF Committal, Message, PlainMessage
  <1>5. \A g \in BOOLEAN : Acknowledge(g) \in PlainMessage
    BY DEF Acknowledge, Message, PlainMessage
  <1>6. \A entry \in Entry : ClientRequest(entry) \in PlainMessage
    BY DEF ClientRequest, Message, PlainMessage
  <1>7. ASSUME NEW index \in Nat, NEW term \in Nat, NEW entry \in Entry
        PROVE  AppendEntries(self, index, term, entry) \in PlainMessage
    BY <1>1 DEF AppendEntries, Message, PlainMessage
  <1>8. Vote(TRUE) \in Message /\ Vote(FALSE) \in PlainMessage
    BY DEF Vote, Message, PlainMessage
  <1> QED BY <1>2, <1>3, <1>4, <1>5, <1>6, <1>7, <1>8

\* An entry inside the log can be sent again.
LEMMA ResendType ==
    ASSUME NEW self, Logged(self), NEW index \in 1 .. log_max_index(self)
    PROVE  Resend(self, index) \in PlainMessage
  <1>1. PICK i \in 0 .. log_max_index(self) : i = index - 1
    BY LogSize
  <1>2. index \in 0 .. log_max_index(self)
    BY LogSize
  <1>3. At(self, i).term \in Nat /\ At(self, index) \in Entry
    BY <1>1, <1>2, EntryAt
  <1>4. i \in Nat
    BY <1>1
  <1> QED BY <1>1, <1>3, <1>4, MessageTypes DEF Resend

\* A broadcast sends append entries.
LEMMA BroadcastType ==
    ASSUME NEW self, Logged(self), NEW entry \in Entry
    PROVE  broadcast_append_messages(self, entry) \in Sending(PlainMessage)
  <1>1. PICK m \in Nat : m = log_max_index(self)
    BY LogSize
  <1>2. At(self, m).term \in Nat
    BY <1>1, EntryAt
  <1>3. PICK message \in PlainMessage : message = AppendEntries(self, m, At(self, m).term, entry)
    BY <1>1, <1>2, MessageTypes
  <1>4. <<message>> \in Seq(PlainMessage) /\ <<>> \in Seq(PlainMessage)
    OBVIOUS
  <1> QED BY <1>1, <1>3, <1>4 DEF broadcast_append_messages, Sending

\* A new leader sends append entries and heartbeats.
LEMMA LeadingMessages ==
    ASSUME NEW self, Logged(self)
    PROVE  start_leading_messages(self) \in Sending(PlainMessage)
  <1>1. PICK reset : reset = [self EXCEPT !.next_index = [d \in Node |-> UpToDate]]
    OBVIOUS
  <1>2. PICK entry \in Entry : entry = [term |-> self.current_term, entry |-> "Leader Entry"]
    BY DEF Logged, NodeState, Entry
  <1>3. Logged(reset)
    <2>1. [d \in Node |-> UpToDate] \in [Node -> Int]
      BY DEF UpToDate
    <2> QED BY <1>1, <2>1 DEF Logged, NodeState
  <1>4. SendAll(Heartbeat(self)) \in Sending(PlainMessage)
    BY SendingType, MessageTypes
  <1> QED BY <1>1, <1>2, <1>3, <1>4, BroadcastType, ThenType DEF start_leading_messages

\* A leader that serves its clients sends append entries.
LEMMA ServingMessages ==
    ASSUME NEW self, Logged(self)
    PROVE  serve_client_messages(self) \in Sending(PlainMessage)
  <1>1. CASE self.client_queue = <<>>
    BY <1>1, SendingType DEF serve_client_messages
  <1>2. CASE self.client_queue # <<>>
    <2>1. Head(self.client_queue) \in Entry
      BY <1>2, HeadTailProperties DEF Logged, NodeState
    <2> QED BY <1>2, <2>1, BroadcastType DEF serve_client_messages
  <1> QED BY <1>1, <1>2

\* A handler takes the first message of a channel.
LEMMA GetsMessage ==
    ASSUME TypeOK, NEW n \in Node, NEW s \in Node, NEW type, Gets(n, s, type)
    PROVE  /\ chan[s][n] \in Seq(Message) /\ chan[s][n] # <<>>
           /\ Head(chan[s][n]) \in Message /\ Head(chan[s][n]).type = type
           /\ Tail(chan[s][n]) \in Seq(Message)
  <1>1. chan[s][n] \in Seq(Message) /\ chan[s][n] # <<>> /\ Head(chan[s][n]).type = type
    BY DEF TypeOK, Gets
  <1> QED BY <1>1, HeadTailProperties

\* Handling a message leaves channels of messages.
LEMMA HandledChannels ==
    ASSUME TypeOK, NEW n \in Node, NEW s \in Node, NEW type, Gets(n, s, type),
           NEW self, NEW out \in Outgoing, Handle(n, s, self, out)
    PROVE  chan' \in [Node -> [Node -> Seq(Message)]]
  <1>1. Tail(chan[s][n]) \in Seq(Message)
    BY GetsMessage
  <1>2. ASSUME NEW a \in Node, NEW b \in Node
        PROVE  (IF a = s /\ b = n THEN Tail(chan[a][b]) ELSE chan[a][b])
                  \o (IF a = n THEN out[b] ELSE <<>>) \in Seq(Message)
    <2>1. PICK left \in Seq(Message) :
             left = IF a = s /\ b = n THEN Tail(chan[a][b]) ELSE chan[a][b]
      <3>1. chan[a][b] \in Seq(Message)
        BY DEF TypeOK
      <3> QED BY <1>1, <3>1, Zenon
    <2>2. PICK right \in Seq(Message) : right = IF a = n THEN out[b] ELSE <<>>
      BY EmptySeq DEF Outgoing, Sending
    <2> QED BY <2>1, <2>2, ConcatProperties
  <1> QED BY <1>2 DEF Handle

\* So does a step that handles none.
LEMMA ActedChannels ==
    ASSUME TypeOK, NEW n \in Node, NEW self, NEW out \in Outgoing, Act(n, self, out)
    PROVE  chan' \in [Node -> [Node -> Seq(Message)]]
  <1>1. \A d \in Node : chan[n][d] \o out[d] \in Seq(Message)
    BY ConcatProperties DEF TypeOK, Outgoing, Sending
  <1>2. chan' = [chan EXCEPT ![n] = [d \in Node |-> chan[n][d] \o out[d]]]
    BY DEF Act
  <1>3. [d \in Node |-> chan[n][d] \o out[d]] \in [Node -> Seq(Message)]
    BY <1>1
  <1> QED BY <1>2, <1>3 DEF TypeOK

\* A channel that loses its head and gains messages of S has passed them on.
LEMMA PassedConcat ==
    ASSUME NEW S \in SUBSET Message, NEW old \in Seq(Message), NEW left \in Seq(Message),
           left = old \/ (old # <<>> /\ left = Tail(old)), NEW out \in Seq(S)
    PROVE  Passed(S, left \o out, old)
  <1>1. out \in Seq(Message)
    BY SeqMonotonic
  <1>2. /\ Len(old) \in Nat /\ Len(left) \in Nat /\ Len(out) \in Nat
        /\ DOMAIN old = 1 .. Len(old)
    BY LenProperties
  <1>3. PICK new \in Seq(Message) : new = left \o out
    BY <1>1, ConcatProperties
  <1>4. /\ DOMAIN new = 1 .. Len(left) + Len(out)
        /\ \A i \in 1 .. Len(left) + Len(out) :
              new[i] = IF i <= Len(left) THEN left[i] ELSE out[i - Len(left)]
    <2>1. Len(new) = Len(left) + Len(out)
      BY <1>1, <1>3, ConcatProperties
    <2>2. DOMAIN new = 1 .. Len(new)
      BY LenProperties
    <2> QED BY <1>1, <1>3, <2>1, <2>2, ConcatProperties
  <1>5. PICK k \in {0, 1} : \A i \in 1 .. Len(left) : i + k \in 1 .. Len(old) /\ left[i] = old[i + k]
    <2>1. CASE left = old
      <3>1. \A i \in 1 .. Len(left) : i + 0 \in 1 .. Len(old) /\ left[i] = old[i + 0]
        BY <1>2, <2>1
      <3> QED BY <3>1
    <2>2. CASE old # <<>> /\ left = Tail(old)
      <3>1. Len(left) = Len(old) - 1 /\ Tail(old) = SubSeq(old, 2, Len(old))
        BY <2>2, HeadTailProperties, TailIsSubSeq
      <3>2. \A i \in 2 .. Len(old) : old[i] \in Message
        BY <1>2, ElementOfSeq
      <3>3. \A i \in 1 .. Len(old) - 2 + 1 : SubSeq(old, 2, Len(old))[i] = old[2 + i - 1]
        BY <1>2, <3>2, SubSeqProperties
      <3>4. ASSUME NEW i \in 1 .. Len(left)
            PROVE  i + 1 \in 1 .. Len(old) /\ left[i] = old[i + 1]
        <4>1. /\ i \in 1 .. Len(old) - 2 + 1
              /\ 2 + i - 1 = i + 1 /\ i + 1 \in 1 .. Len(old)
          BY <1>2, <3>1
        <4>2. left[i] = SubSeq(old, 2, Len(old))[i]
          BY <2>2, <3>1, Zenon
        <4>3. SubSeq(old, 2, Len(old))[i] = old[i + 1]
          <5>1. SubSeq(old, 2, Len(old))[i] = old[2 + i - 1]
            BY <3>3, <4>1, Zenon
          <5> QED BY <4>1, <5>1, Zenon
        <4> QED BY <4>1, <4>2, <4>3, Zenon
      <3> QED BY <3>4
    <2> QED BY <2>1, <2>2
  <1>6. \A i \in 1 .. Len(out) : out[i] \in S
    BY ElementOfSeq
  <1>7. ASSUME NEW i \in DOMAIN new
        PROVE  new[i] \in S \/ (i + k \in DOMAIN old /\ new[i] = old[i + k])
    <2>1. i \in 1 .. Len(left) + Len(out)
      BY <1>4, Zenon
    <2>2. CASE i <= Len(left)
      <3>1. i \in 1 .. Len(left) /\ new[i] = left[i]
        BY <1>2, <1>4, <2>1, <2>2
      <3> QED BY <1>2, <1>5, <3>1, Zenon
    <2>3. CASE i > Len(left)
      <3>1. PICK j \in 1 .. Len(out) : j = i - Len(left) /\ new[i] = out[j]
        BY <1>2, <1>4, <2>1, <2>3
      <3> QED BY <1>6, <3>1, Zenon
    <2> QED BY <1>2, <2>1, <2>2, <2>3
  <1> QED BY <1>3, <1>7 DEF Passed

\* A channel that loses its head and gains plain messages is kept.
LEMMA KeptConcat ==
    ASSUME NEW old \in Seq(Message), NEW left \in Seq(Message),
           left = old \/ (old # <<>> /\ left = Tail(old)), NEW out \in Seq(PlainMessage)
    PROVE  Kept(left \o out, old)
  <1>1. PlainMessage \in SUBSET Message
    BY DEF PlainMessage
  <1> QED BY <1>1, PassedConcat DEF Kept

\* A channel that nobody touches is kept, whatever may be sent.
LEMMA PassedSame ==
    ASSUME NEW q \in Seq(Message), NEW S
    PROVE  Passed(S, q, q)
  <1>1. \A i \in DOMAIN q : i + 0 \in DOMAIN q /\ q[i] = q[i + 0]
    BY LenProperties
  <1> QED BY <1>1 DEF Passed

\* A channel that loses its first message passes the others on.
LEMMA LostPasses ==
    ASSUME RaftInv, NEW S \in SUBSET Message, NEW s \in Node, NEW d \in Node, Lose(s, d),
           NEW a \in Node, NEW b \in Node
    PROVE  Passed(S, chan'[a][b], chan[a][b])
  <1>1. PICK q \in Seq(Message) : q = chan[a][b]
    BY DEF RaftInv, TypeOK
  <1>2. CASE a = s /\ b = d
    <2>1. chan'[a][b] = Tail(q) /\ q # <<>>
      BY <1>1, <1>2 DEF Lose, RaftInv, TypeOK
    <2>2. Tail(q) \in Seq(Message) /\ <<>> \in Seq(S)
      BY <2>1, HeadTailProperties, EmptySeq
    <2>3. Tail(q) \o <<>> = Tail(q)
      BY <2>2, ConcatEmptySeq
    <2>4. Passed(S, Tail(q) \o <<>>, q)
      BY <2>1, <2>2, PassedConcat
    <2> QED BY <1>1, <2>1, <2>3, <2>4
  <1>3. CASE ~ (a = s /\ b = d)
    <2>1. chan'[a][b] = chan[a][b]
      BY <1>3 DEF Lose, RaftInv, TypeOK
    <2> QED BY <1>1, <2>1, PassedSame
  <1> QED BY <1>2, <1>3

\* In particular when nothing but plain messages may be.
LEMMA KeptSame ==
    ASSUME NEW q \in Seq(Message)
    PROVE  Kept(q, q)
  BY PassedSame DEF Kept

-----------------------------------------------------------------------------
(* A step keeps the invariant whenever the new state of its node does.     *)

\* One node's new state is all the invariant asks for.
LEMMA NodeChanged ==
    ASSUME RaftInv, NEW n \in Node, NEW self, Logged(self),
           self.role = "leader" => Leads(self, n),
           node' = [node EXCEPT ![n] = CheckRole(self)]
    PROVE  node' \in [Node -> NodeState] /\ LogInv' /\ RoleInv' /\ LeaderInv'
  <1>1. node \in [Node -> NodeState]
    BY DEF RaftInv, TypeOK
  <1>2. PICK new : new = CheckRole(self)
    OBVIOUS
  <1>3. /\ Logged(new) /\ new.loop = self.role /\ new.role = self.role
        /\ new.loop = "leader" => Leads(new, n)
    BY <1>2, RoleChecked, LeadsChecked DEF CheckRole, Logged, NodeState
  <1>4. \A p \in Node : node'[p] = IF p = n THEN new ELSE node[p]
    BY <1>1, <1>2
  <1>5. node' \in [Node -> NodeState]
    BY <1>1, <1>2, <1>3 DEF Logged
  <1>6. LogInv'
    BY <1>3, <1>4 DEF RaftInv, LogInv, Logged
  <1>7. RoleInv'
    BY <1>3, <1>4 DEF RaftInv, RoleInv
  <1>8. LeaderInv'
    BY <1>3, <1>4 DEF RaftInv, LeaderInv, Leads, log_max_index
  <1> QED BY <1>5, <1>6, <1>7, <1>8

\* A handler keeps the invariant if its node's new state does.
LEMMA HandleKeeps ==
    ASSUME RaftInv, NEW n \in Node, NEW s \in Node, NEW type, Gets(n, s, type),
           NEW self, Logged(self), self.role = "leader" => Leads(self, n),
           NEW out \in Outgoing, Handle(n, s, self, out),
           granted' \subseteq Node \X Nat \X Node
    PROVE  RaftInv'
  <1>1. node' \in [Node -> NodeState] /\ LogInv' /\ RoleInv' /\ LeaderInv'
    BY NodeChanged DEF Handle
  <1>2. chan' \in [Node -> [Node -> Seq(Message)]]
    BY HandledChannels DEF RaftInv
  <1> QED BY <1>1, <1>2 DEF Handle, RaftInv, TypeOK

\* So does a step that handles no message.
LEMMA ActKeeps ==
    ASSUME RaftInv, NEW n \in Node,
           NEW self, Logged(self), self.role = "leader" => Leads(self, n),
           NEW out \in Outgoing, Act(n, self, out),
           granted' \subseteq Node \X Nat \X Node
    PROVE  RaftInv'
  <1>1. node' \in [Node -> NodeState] /\ LogInv' /\ RoleInv' /\ LeaderInv'
    BY NodeChanged DEF Act
  <1>2. chan' \in [Node -> [Node -> Seq(Message)]]
    BY ActedChannels DEF RaftInv
  <1> QED BY <1>1, <1>2 DEF Act, RaftInv, TypeOK

\* What becomes of the channel from a to b when n takes the first message from
\* s and sends out.
Moved(n, s, out, a, b) ==
    \E left \in Seq(Message) :
        /\ chan[a][b] \in Seq(Message)
        /\ left = chan[a][b] \/ (chan[a][b] # <<>> /\ left = Tail(chan[a][b]))
        /\ a = s /\ b = n => left = Tail(chan[a][b])
        /\ chan'[a][b] = left \o (IF a = n THEN out[b] ELSE <<>>)

\* What a handler does to each channel.
LEMMA HandledChannel ==
    ASSUME RaftInv, NEW n \in Node, NEW s \in Node, NEW type, Gets(n, s, type),
           NEW self, NEW out, Handle(n, s, self, out), NEW a \in Node, NEW b \in Node
    PROVE  Moved(n, s, out, a, b)
  <1>1. PICK old \in Seq(Message) : old = chan[a][b]
    BY DEF RaftInv, TypeOK
  <1>2. PICK left : left = IF a = s /\ b = n THEN Tail(old) ELSE old
    OBVIOUS
  <1>3. a = s /\ b = n => old # <<>> /\ Tail(old) \in Seq(Message)
    BY <1>1, GetsMessage DEF RaftInv
  <1>4. /\ left \in Seq(Message) /\ (left = old \/ (old # <<>> /\ left = Tail(old)))
        /\ a = s /\ b = n => left = Tail(old)
    BY <1>2, <1>3, Zenon
  <1>5. chan'[a][b] = left \o (IF a = n THEN out[b] ELSE <<>>)
    BY <1>1, <1>2 DEF Handle
  <1> QED BY <1>1, <1>4, <1>5, Zenon DEF Moved

\* The same for a step that grants nothing and sends only plain messages.
LEMMA PlainHandleKeeps ==
    ASSUME RaftInv, NEW n \in Node, NEW s \in Node, NEW type, Gets(n, s, type),
           NEW self, Logged(self), self.role = "leader" => Leads(self, n),
           NEW out \in Sending(PlainMessage), Handle(n, s, self, out), UNCHANGED granted
    PROVE  RaftInv' /\ PlainSent /\ Taken(n, s)
  <1>1. granted' \subseteq Node \X Nat \X Node
    BY DEF RaftInv, TypeOK
  <1>2. RaftInv'
    BY <1>1, HandleKeeps, PlainIsOutgoing
  <1>3. \A b \in Node : out[b] \in Seq(PlainMessage) /\ <<>> \in Seq(PlainMessage)
    BY EmptySeq DEF Sending
  <1>4. ASSUME NEW a \in Node, NEW b \in Node
        PROVE  Kept(chan'[a][b], chan[a][b])
    <2>0. Moved(n, s, out, a, b)
      BY HandledChannel
    <2>1. PICK more \in Seq(PlainMessage) : more = IF a = n THEN out[b] ELSE <<>>
      BY <1>3
    <2>2. PICK left \in Seq(Message) :
             /\ chan[a][b] \in Seq(Message)
             /\ left = chan[a][b] \/ (chan[a][b] # <<>> /\ left = Tail(chan[a][b]))
             /\ a = s /\ b = n => left = Tail(chan[a][b])
             /\ chan'[a][b] = left \o (IF a = n THEN out[b] ELSE <<>>)
      BY <2>0, Zenon DEF Moved
    <2> QED BY <2>1, <2>2, KeptConcat
  <1>5. Taken(n, s)
    <2>0. Moved(n, s, out, s, n)
      BY HandledChannel
    <2>1. PICK more \in Seq(PlainMessage) : more = IF s = n THEN out[n] ELSE <<>>
      BY <1>3
    <2>2. PICK left \in Seq(Message) :
             /\ chan[s][n] \in Seq(Message)
             /\ left = chan[s][n] \/ (chan[s][n] # <<>> /\ left = Tail(chan[s][n]))
             /\ s = s /\ n = n => left = Tail(chan[s][n])
             /\ chan'[s][n] = left \o (IF s = n THEN out[n] ELSE <<>>)
      BY <2>0, Zenon DEF Moved
    <2> QED BY <2>1, <2>2, KeptConcat DEF Taken
  <1> QED BY <1>2, <1>4, <1>5 DEF PlainSent

\* The same for a step that grants its vote to the node that has asked for it.
LEMMA VoteHandleSends ==
    ASSUME RaftInv, NEW n \in Node, NEW s \in Node, NEW type, Gets(n, s, type),
           NEW self, Handle(n, s, self, SendTo(s, Vote(TRUE)))
    PROVE  VoteSent(n, s)
  <1>1. <<>> \in Seq(PlainMessage)
    BY EmptySeq
  <1>2. ASSUME NEW a \in Node, NEW b \in Node
        PROVE  \E left \in Seq(Message) :
                  /\ left \o <<>> = left /\ Kept(left, chan[a][b])
                  /\ chan'[a][b] = left \o (IF a = n /\ b = s THEN <<Vote(TRUE)>> ELSE <<>>)
    <2>0. Moved(n, s, SendTo(s, Vote(TRUE)), a, b)
      BY HandledChannel
    <2>1. PICK left \in Seq(Message) :
             /\ chan[a][b] \in Seq(Message)
             /\ left = chan[a][b] \/ (chan[a][b] # <<>> /\ left = Tail(chan[a][b]))
             /\ a = s /\ b = n => left = Tail(chan[a][b])
             /\ chan'[a][b] = left \o (IF a = n THEN SendTo(s, Vote(TRUE))[b] ELSE <<>>)
      BY <2>0, Zenon DEF Moved
    <2>2. left \o <<>> = left
      BY <2>1, ConcatEmptySeq
    <2>3. Kept(left, chan[a][b])
      BY <1>1, <2>1, <2>2, KeptConcat, Zenon
    <2> QED BY <2>1, <2>2, <2>3, Zenon DEF SendTo
  <1>3. ASSUME NEW a \in Node, NEW b \in Node, a # n \/ b # s
        PROVE  Kept(chan'[a][b], chan[a][b])
    <2>1. PICK left \in Seq(Message) :
             /\ left \o <<>> = left /\ Kept(left, chan[a][b])
             /\ chan'[a][b] = left \o (IF a = n /\ b = s THEN <<Vote(TRUE)>> ELSE <<>>)
      BY <1>2, Zenon
    <2>2. (IF a = n /\ b = s THEN <<Vote(TRUE)>> ELSE <<>>) = <<>>
      BY <1>3
    <2>3. chan'[a][b] = left
      BY <2>1, <2>2, Zenon
    <2> QED BY <2>1, <2>3, Zenon
  <1>4. \E q \in Seq(Message) : Kept(q, chan[n][s]) /\ chan'[n][s] = q \o <<Vote(TRUE)>>
    BY <1>2, Zenon
  <1> QED BY <1>3, <1>4 DEF VoteSent

\* A step that handles no message and sends plain ones.
LEMMA PlainActKeeps ==
    ASSUME RaftInv, NEW n \in Node,
           NEW self, Logged(self), self.role = "leader" => Leads(self, n),
           NEW out \in Sending(PlainMessage), Act(n, self, out), UNCHANGED granted
    PROVE  RaftInv' /\ PlainSent
  <1>1. granted' \subseteq Node \X Nat \X Node
    BY DEF RaftInv, TypeOK
  <1>2. RaftInv'
    BY <1>1, ActKeeps, PlainIsOutgoing
  <1>3. ASSUME NEW a \in Node, NEW b \in Node
        PROVE  Kept(chan'[a][b], chan[a][b])
    <2>1. PICK old \in Seq(Message) : old = chan[a][b]
      BY DEF RaftInv, TypeOK
    <2>2. CASE a = n
      <3>1. out[b] \in Seq(PlainMessage)
        BY DEF Sending
      <3>2. chan'[a][b] = old \o out[b]
        BY <2>1, <2>2 DEF Act, RaftInv, TypeOK
      <3> QED BY <2>1, <3>1, <3>2, KeptConcat
    <2>3. CASE a # n
      BY <2>1, <2>3, KeptSame DEF Act, RaftInv, TypeOK
    <2> QED BY <2>2, <2>3
  <1> QED BY <1>2, <1>3 DEF PlainSent

\* An iteration of _leader, with the look at the client queue at its end.
LEMMA LeaderTurnKeeps ==
    ASSUME RaftInv, NEW n \in Node, NEW s \in Node, NEW type, Gets(n, s, type),
           NEW self, Logged(self), Leads(self, n),
           NEW out \in Sending(PlainMessage), LeaderTurn(n, s, self, out), UNCHANGED granted
    PROVE  RaftInv' /\ PlainSent
  <1>1. Logged(serve_client(self, n)) /\ Leads(serve_client(self, n), n)
    BY ClientServed
  <1>2. Then(out, serve_client_messages(self)) \in Sending(PlainMessage)
    BY ServingMessages, ThenType
  <1> QED BY <1>1, <1>2, PlainHandleKeeps DEF LeaderTurn

-----------------------------------------------------------------------------
(* The steps.                                                              *)

\* The invariant holds when every node is a follower with an empty log.
LEMMA InitInv == Init => RaftInv
  <1> SUFFICES ASSUME Init PROVE RaftInv
    OBVIOUS
  <1>1. PICK e \in Entry : e = [term |-> 1, entry |-> "Init Entry"]
    BY DEF Entry
  <1>2. [d \in Node |-> UpToDate] \in [Node -> Int] /\ [d \in Node |-> 0] \in [Node -> Nat]
    BY DEF UpToDate
  <1>3. PICK first \in Seq(Entry) : first = <<e>> /\ Len(first) = 1
    <2>1. <<e>> \in Seq(Entry) /\ Len(<<e>>) = 1
      OBVIOUS
    <2> QED BY <2>1
  <1>4. <<>> \in Seq(Entry)
    OBVIOUS
  <1>5. /\ InitNode \in NodeState /\ InitNode.log = first
        /\ InitNode.role = "follower" /\ InitNode.loop = "follower"
    BY <1>1, <1>2, <1>3, <1>4 DEF InitNode, NodeState, Role
  <1>6. \A n \in Node : node[n] = InitNode
    BY DEF Init
  <1>7. TypeOK
    <2>1. chan \in [Node -> [Node -> Seq(Message)]]
      BY EmptySeq DEF Init
    <2> QED BY <1>5, <2>1 DEF Init, TypeOK
  <1>8. LogInv /\ RoleInv /\ LeaderInv
    <2>1. Logged(InitNode)
      BY <1>3, <1>5 DEF Logged
    <2> QED BY <1>5, <1>6, <2>1, Zenon DEF LogInv, RoleInv, LeaderInv
  <1> QED BY <1>7, <1>8 DEF RaftInv

\* A node in _follower is no leader.
LEMMA FollowerStep ==
    ASSUME RaftInv, NEW n \in Node, node[n].loop = "follower"
    PROVE  Logged(node[n]) /\ node[n].role # "leader"
  BY DEF RaftInv, LogInv, RoleInv

\* _follower, a request for votes.
LEMMA FollowerVotes ==
    ASSUME RaftInv, NEW n \in Node, NEW s \in Node, FollowerRequestVotes(n, s)
    PROVE  RaftInv'
  <1>1. Logged(node[n]) /\ node[n].role # "leader"
    <2>1. node[n].loop = "follower"
      BY DEF FollowerRequestVotes
    <2> QED BY <2>1, FollowerStep, Zenon
  <1>2. PICK m \in Message : m = Head(chan[s][n]) /\ m.type = "RequestVotes"
    BY GetsMessage DEF FollowerRequestVotes, RaftInv
  <1>3. PICK self : self = adopt_term(node[n], m.term)
    OBVIOUS
  <1>4. Logged(self) /\ self.role # "leader"
    <2>1. Logged(self)
      BY <1>1, <1>2, <1>3, TermChange, MessageFields
    <2> QED BY <1>1, <1>3, <2>1 DEF adopt_term, increment_term, Logged, NodeState
  <1>5. PICK grant \in BOOLEAN : grant = (/\ self.voted_for = Nobody
                                          /\ m.last_log_index >= self.commit_index
                                          /\ m.last_log_term >= self.last_applied_term)
    OBVIOUS
  <1>6. /\ Gets(n, s, "RequestVotes")
        /\ Handle(n, s, send_vote(self, s), SendTo(s, Vote(grant)))
        /\ granted' = granted \cup (IF grant THEN {<<n, self.current_term, s>>} ELSE {})
    BY <1>2, <1>3, <1>5 DEF FollowerRequestVotes
  <1>7. SendTo(s, Vote(grant)) \in Outgoing
    <2>1. Vote(TRUE) \in Message /\ Vote(FALSE) \in Message
      BY <1>4, MessageTypes DEF PlainMessage
    <2>2. Vote(grant) \in Message
      BY <2>1
    <2> QED BY <2>2, SendingType DEF Outgoing
  <1>8. Logged(send_vote(self, s)) /\ send_vote(self, s).role # "leader"
    BY <1>4, VoteChange DEF send_vote, Logged, NodeState
  <1>9. granted' \subseteq Node \X Nat \X Node
    <2>1. self.current_term \in Nat
      BY <1>4 DEF Logged, NodeState
    <2> QED BY <1>6, <2>1 DEF RaftInv, TypeOK
  <1> QED BY <1>6, <1>7, <1>8, <1>9, HandleKeeps

\* _follower, a heartbeat.
LEMMA FollowerHears ==
    ASSUME RaftInv, NEW n \in Node, NEW s \in Node, FollowerHeartbeat(n, s)
    PROVE  RaftInv' /\ PlainSent
  <1>1. Logged(node[n]) /\ node[n].role # "leader"
    BY FollowerStep DEF FollowerHeartbeat
  <1>2. PICK m \in Message : m = Head(chan[s][n]) /\ m.type = "Heartbeat"
    BY GetsMessage DEF FollowerHeartbeat, RaftInv
  <1>3. PICK self : self = adopt_term(node[n], m.term)
    OBVIOUS
  <1>4. Logged(self) /\ self.role # "leader"
    <2>1. Logged(self)
      BY <1>1, <1>2, <1>3, TermChange, MessageFields
    <2> QED BY <1>1, <1>3, <2>1 DEF adopt_term, increment_term, Logged, NodeState
  <1>5. Gets(n, s, "Heartbeat") /\ UNCHANGED granted
    BY DEF FollowerHeartbeat
  <1>6. CASE self.client_queue = <<>>
    <2>1. Handle(n, s, self, Quiet)
      BY <1>2, <1>3, <1>6 DEF FollowerHeartbeat
    <2> QED BY <1>4, <1>5, <2>1, PlainHandleKeeps, SendingType
  <1>7. CASE self.client_queue # <<>>
    <2>1. Head(self.client_queue) \in Entry /\ Tail(self.client_queue) \in Seq(Entry)
      BY <1>4, <1>7, HeadTailProperties DEF Logged, NodeState
    <2>2. PICK rest \in Seq(Entry) : rest = Tail(self.client_queue)
      BY <2>1
    <2>3. PICK served : served = [self EXCEPT !.client_queue = rest]
      OBVIOUS
    <2>4. Logged(served) /\ served.role # "leader"
      BY <1>4, <2>3 DEF Logged, NodeState
    <2>5. Handle(n, s, served, SendTo(s, ClientRequest(Head(self.client_queue))))
      BY <1>2, <1>3, <1>7, <2>2, <2>3 DEF FollowerHeartbeat
    <2>6. SendTo(s, ClientRequest(Head(self.client_queue))) \in Sending(PlainMessage)
      BY <1>4, <2>1, MessageTypes, SendingType
    <2> QED BY <1>5, <2>4, <2>5, <2>6, PlainHandleKeeps
  <1> QED BY <1>6, <1>7

\* _follower, an append entry.
LEMMA FollowerAppends ==
    ASSUME RaftInv, NEW n \in Node, NEW s \in Node, FollowerAppendEntries(n, s)
    PROVE  RaftInv' /\ PlainSent
  <1>1. Logged(node[n]) /\ node[n].role # "leader"
    BY FollowerStep DEF FollowerAppendEntries
  <1>2. PICK m \in Message : m = Head(chan[s][n]) /\ m.type = "AppendEntries"
    BY GetsMessage DEF FollowerAppendEntries, RaftInv
  <1>3. /\ m.prev_log_index \in Nat /\ m.entries \in Entry /\ m.leader_commit \in Nat
        /\ node[n].commit_index \in Nat
    BY <1>1, <1>2, MessageFields DEF Logged, NodeState
  <1>4. PICK ok \in BOOLEAN : ok = (/\ m.term >= node[n].current_term
                                    /\ verify_entry(node[n], m.prev_log_index, m.prev_log_term))
    OBVIOUS
  <1>5. PICK commit : commit = (m.leader_commit > node[n].commit_index)
    BY Zenon
  <1>6. PICK self : self = IF ok THEN append_entry(node[n], m.entries, commit, m.prev_log_index)
                           ELSE node[n]
    OBVIOUS
  <1>7. Handle(n, s, self, SendTo(s, Acknowledge(ok)))
    BY <1>2, <1>4, <1>5, <1>6 DEF FollowerAppendEntries
  <1>8. Logged(self) /\ self.role # "leader"
    <2>1. CASE ok
      <3>1. m.prev_log_index < Len(node[n].log)
        BY <1>4, <2>1 DEF verify_entry
      <3>2. Logged(self)
        BY <1>1, <1>3, <1>6, <2>1, <3>1, EntryAppended
      <3>3. self.role = node[n].role
        BY <1>1, <1>6, <2>1 DEF append_entry, commit_entry, Logged, NodeState
      <3> QED BY <1>1, <3>2, <3>3
    <2>2. CASE ~ ok
      BY <1>1, <1>6, <2>2
    <2> QED BY <2>1, <2>2
  <1>9. SendTo(s, Acknowledge(ok)) \in Sending(PlainMessage)
    BY <1>1, MessageTypes, SendingType
  <1>10. Gets(n, s, "AppendEntries") /\ UNCHANGED granted
    BY DEF FollowerAppendEntries
  <1> QED BY <1>7, <1>8, <1>9, <1>10, PlainHandleKeeps

\* _follower, a committal.
LEMMA FollowerCommits ==
    ASSUME RaftInv, NEW n \in Node, NEW s \in Node, FollowerCommittal(n, s)
    PROVE  RaftInv' /\ PlainSent
  <1>1. Logged(node[n]) /\ node[n].role # "leader"
    BY FollowerStep DEF FollowerCommittal
  <1>2. PICK m \in Message : m = Head(chan[s][n]) /\ m.type = "Committal"
    BY GetsMessage DEF FollowerCommittal, RaftInv
  <1>3. PICK self : self = commit_entry(node[n], m.prev_log_index, m.prev_log_term)
    OBVIOUS
  <1>4. Logged(self) /\ self.role # "leader"
    <2>1. Logged(self)
      BY <1>1, <1>2, <1>3, CommitChange, MessageFields
    <2> QED BY <1>1, <1>3 , <2>1 DEF commit_entry, Logged, NodeState
  <1>5. Gets(n, s, "Committal") /\ Handle(n, s, self, Quiet)
    BY <1>2, <1>3 DEF FollowerCommittal
  <1>6. UNCHANGED granted
    BY DEF FollowerCommittal
  <1> QED BY <1>4, <1>5, <1>6, PlainHandleKeeps, SendingType

\* A message that is taken and not acted on.
LEMMA IgnoredKeeps ==
    ASSUME RaftInv, NEW n \in Node, NEW s \in Node, NEW type, Gets(n, s, type),
           node[n].role # "leader", Handle(n, s, node[n], Quiet), UNCHANGED granted
    PROVE  RaftInv' /\ PlainSent
  <1>1. Logged(node[n]) /\ UNCHANGED granted
    BY DEF RaftInv, LogInv
  <1> QED BY <1>1, PlainHandleKeeps, SendingType

\* _follower, any other message.
LEMMA FollowerIgnores ==
    ASSUME RaftInv, NEW n \in Node, NEW s \in Node, FollowerIgnore(n, s)
    PROVE  RaftInv' /\ PlainSent
  BY IgnoredKeeps, FollowerStep DEF FollowerIgnore

\* A node in _candidate is no leader.
LEMMA CandidateStep ==
    ASSUME RaftInv, NEW n \in Node, node[n].loop = "candidate"
    PROVE  Logged(node[n]) /\ node[n].role # "leader"
  BY DEF RaftInv, LogInv, RoleInv

\* The election timeout and the head of _candidate.
LEMMA ElectionBegins ==
    ASSUME RaftInv, NEW n \in Node, BeginElection(n)
    PROVE  RaftInv'
  <1>1. Logged(node[n]) /\ node[n].current_term \in Nat
    BY DEF RaftInv, LogInv, Logged, NodeState
  <1>2. PICK term \in Nat : term = node[n].current_term + 1
    BY <1>1
  <1>3. PICK voting : voting = set_current_role(send_vote(increment_term(node[n], term), n),
                                                "candidate")
    OBVIOUS
  <1>4. Logged(voting) /\ voting.role = "candidate"
    <2>1. Logged(send_vote(increment_term(node[n], term), n))
      BY <1>1, TermChange, VoteChange
    <2>2. Logged(voting)
      BY <1>3, <2>1, RoleChange DEF Role
    <2> QED BY <1>3, <2>1, <2>2 DEF set_current_role, Logged, NodeState
  <1>5. PICK self : self = [voting EXCEPT !.votes_for_me = 0]
    OBVIOUS
  <1>6. Logged(self) /\ self.role # "leader"
    BY <1>4, <1>5 DEF Logged, NodeState
  <1>7. /\ Act(n, self, Then(SendAll(RequestVotes(self)), SendTo(n, Vote(TRUE))))
        /\ granted' = granted \cup {<<n, term, n>>}
    BY <1>2, <1>3, <1>5 DEF BeginElection
  <1>8. Then(SendAll(RequestVotes(self)), SendTo(n, Vote(TRUE))) \in Outgoing
    BY <1>6, MessageTypes, SendingType, ThenType DEF Outgoing
  <1>9. granted' \subseteq Node \X Nat \X Node
    BY <1>7 DEF RaftInv, TypeOK
  <1> QED BY <1>6, <1>7, <1>8, <1>9, ActKeeps

\* _candidate, a vote; the indices of a new leader are inside its log.
LEMMA CandidateVoted ==
    ASSUME RaftInv, NEW n \in Node, NEW s \in Node, CandidateVote(n, s)
    PROVE  RaftInv' /\ PlainSent /\ Taken(n, s)
  <1>1. Logged(node[n]) /\ node[n].role # "leader"
    BY CandidateStep DEF CandidateVote
  <1>2. PICK votes \in Nat :
           votes = IF Head(chan[s][n]).vote_granted THEN node[n].votes_for_me + 1
                   ELSE node[n].votes_for_me
    BY <1>1 DEF Logged, NodeState
  <1>3. PICK self : self = [node[n] EXCEPT !.votes_for_me = votes]
    OBVIOUS
  <1>4. Logged(self) /\ self.role # "leader"
    BY <1>1, <1>3 DEF Logged, NodeState
  <1>5. self = [node[n] EXCEPT !.votes_for_me =
                   IF Head(chan[s][n]).vote_granted THEN @ + 1 ELSE @]
    BY <1>1, <1>2, <1>3 DEF Logged, NodeState
  <1>6. Gets(n, s, "Vote") /\ UNCHANGED granted
    BY DEF CandidateVote
  <1>7. CASE has_majority(self.votes_for_me)
    <2>1. Handle(n, s, start_leading(self, n), start_leading_messages(self))
      BY <1>5, <1>7 DEF CandidateVote
    <2> QED BY <1>4, <1>6, <2>1, PlainHandleKeeps, LeadingStarted, LeadingMessages
  <1>8. CASE ~ has_majority(self.votes_for_me)
    <2>1. Handle(n, s, self, Quiet)
      BY <1>5, <1>8 DEF CandidateVote
    <2> QED BY <1>4, <1>6, <2>1, PlainHandleKeeps, SendingType
  <1> QED BY <1>7, <1>8

\* A request for votes of a higher term ends _candidate and _leader.
LEMMA SteppedDown ==
    ASSUME RaftInv, NEW n \in Node, NEW s \in Node, StepDown(n, s)
    PROVE  RaftInv'
  <1>1. PICK m \in Message : m = Head(chan[s][n]) /\ m.type = "RequestVotes"
    BY GetsMessage DEF StepDown, RaftInv
  <1>2. Logged(node[n]) /\ m.term \in Nat
    BY <1>1, MessageFields DEF RaftInv, LogInv
  <1>3. PICK self : self = set_current_role(send_vote(increment_term(node[n], m.term), s),
                                            "follower")
    OBVIOUS
  <1>4. Logged(self) /\ self.role # "leader"
    <2>1. Logged(send_vote(increment_term(node[n], m.term), s))
      BY <1>2, TermChange, VoteChange
    <2>2. Logged(self)
      BY <1>3, <2>1, RoleChange DEF Role
    <2> QED BY <1>3, <2>1, <2>2 DEF set_current_role, Logged, NodeState
  <1>5. /\ Gets(n, s, "RequestVotes") /\ Handle(n, s, self, SendTo(s, Vote(TRUE)))
        /\ granted' = granted \cup {<<n, m.term, s>>}
    BY <1>1, <1>3 DEF StepDown
  <1>6. SendTo(s, Vote(TRUE)) \in Outgoing
    BY <1>2, MessageTypes, SendingType DEF Outgoing
  <1>7. granted' \subseteq Node \X Nat \X Node
    BY <1>2, <1>5 DEF RaftInv, TypeOK
  <1> QED BY <1>4, <1>5, <1>6, <1>7, HandleKeeps

\* _candidate, a heartbeat.
LEMMA CandidateHears ==
    ASSUME RaftInv, NEW n \in Node, NEW s \in Node, CandidateHeartbeat(n, s)
    PROVE  RaftInv' /\ PlainSent
  <1>1. PICK m \in Message : m = Head(chan[s][n]) /\ m.type = "Heartbeat"
    BY GetsMessage DEF CandidateHeartbeat, RaftInv
  <1>2. Logged(node[n]) /\ m.term \in Nat
    BY <1>1, MessageFields DEF RaftInv, LogInv
  <1>3. PICK self : self = set_current_role(increment_term(node[n], m.term), "follower")
    OBVIOUS
  <1>4. Logged(self) /\ self.role # "leader"
    <2>1. Logged(increment_term(node[n], m.term))
      BY <1>2, TermChange
    <2>2. Logged(self)
      BY <1>3, <2>1, RoleChange DEF Role
    <2> QED BY <1>3, <2>1, <2>2 DEF set_current_role, Logged, NodeState
  <1>5. Gets(n, s, "Heartbeat") /\ Handle(n, s, self, Quiet)
    BY <1>1, <1>3 DEF CandidateHeartbeat
  <1>6. UNCHANGED granted
    BY DEF CandidateHeartbeat
  <1> QED BY <1>4, <1>5, <1>6, PlainHandleKeeps, SendingType

\* _candidate, any other message.
LEMMA CandidateIgnores ==
    ASSUME RaftInv, NEW n \in Node, NEW s \in Node, CandidateIgnore(n, s)
    PROVE  RaftInv' /\ PlainSent
  BY IgnoredKeeps, CandidateStep DEF CandidateIgnore

\* A node in _leader has its indices inside its log.
LEMMA LeaderStep ==
    ASSUME RaftInv, NEW n \in Node, node[n].loop = "leader"
    PROVE  Logged(node[n]) /\ Leads(node[n], n)
  BY DEF RaftInv, LogInv, LeaderInv

\* _leader, an acknowledgement: the indices move, and an index is committed.
LEMMA LeaderAcknowledged ==
    ASSUME RaftInv, NEW n \in Node, NEW s \in Node, LeaderAcknowledge(n, s)
    PROVE  RaftInv' /\ PlainSent
  <1>1. Logged(node[n]) /\ Leads(node[n], n)
    BY LeaderStep DEF LeaderAcknowledge
  <1>2. PICK m \in Message : m = Head(chan[s][n]) /\ m.type = "Acknowledge"
    BY GetsMessage DEF LeaderAcknowledge, RaftInv
  <1>3. Gets(n, s, "Acknowledge") /\ UNCHANGED granted
    BY DEF LeaderAcknowledge
  <1>4. CASE node[n].next_index[s] = UpToDate
    <2>1. LeaderTurn(n, s, node[n], Quiet)
      BY <1>4 DEF LeaderAcknowledge
    <2> QED BY <1>1, <1>3, <2>1, LeaderTurnKeeps, SendingType
  <1>5. CASE node[n].next_index[s] # UpToDate
    <2>1. PICK known : known = advance(node[n], s, m.success)
      OBVIOUS
    <2>2. Logged(known) /\ Leads(known, n)
      BY <1>1, <1>2, <1>5, <2>1, Advanced, MessageFields
    <2>3. PICK self : self = commit_replicated(known)
      OBVIOUS
    <2>4. Logged(self) /\ Leads(self, n)
      BY <2>2, <2>3, ReplicatedCommitted
    <2>5. PICK next : next = known.next_index[s]
      OBVIOUS
    <2>6. PICK more : more = IF next = UpToDate THEN Quiet ELSE SendTo(s, Resend(known, next))
      OBVIOUS
    <2>7. PICK commits : commits = IF self = known THEN Quiet ELSE SendAll(Committal(self))
      OBVIOUS
    <2>8. LeaderTurn(n, s, self, Then(more, commits))
      BY <1>2, <1>5, <2>1, <2>3, <2>5, <2>6, <2>7 DEF LeaderAcknowledge
    <2>9. more \in Sending(PlainMessage)
      <3>1. CASE next = UpToDate
        BY <2>6, <3>1, SendingType
      <3>2. CASE next # UpToDate
        <4>1. next \in 1 .. log_max_index(known)
          BY <2>2, <2>5, <3>2 DEF Leads
        <4> QED BY <2>2, <2>6, <3>2, <4>1, ResendType, SendingType
      <3> QED BY <3>1, <3>2
    <2>10. commits \in Sending(PlainMessage)
      BY <2>4, <2>7, MessageTypes, SendingType
    <2>11. Then(more, commits) \in Sending(PlainMessage)
      BY <2>9, <2>10, ThenType
    <2> QED BY <1>3, <2>4, <2>8, <2>11, LeaderTurnKeeps
  <1> QED BY <1>4, <1>5

\* _leader, a client request.
LEMMA LeaderIsAsked ==
    ASSUME RaftInv, NEW n \in Node, NEW s \in Node, LeaderClientRequest(n, s)
    PROVE  RaftInv' /\ PlainSent
  <1>1. Logged(node[n]) /\ Leads(node[n], n)
    BY LeaderStep DEF LeaderClientRequest
  <1>2. PICK m \in Message : m = Head(chan[s][n]) /\ m.type = "ClientRequest"
    BY GetsMessage DEF LeaderClientRequest, RaftInv
  <1>3. PICK entry \in Entry : entry = m.entries
    BY <1>2, MessageFields
  <1>4. PICK self : self = broadcast_append_entries(node[n], n, entry)
    OBVIOUS
  <1>5. Logged(self) /\ Leads(self, n)
    BY <1>1, <1>4, BroadcastLeads DEF Leads
  <1>6. LeaderTurn(n, s, self, broadcast_append_messages(node[n], entry))
    BY <1>2, <1>3, <1>4 DEF LeaderClientRequest
  <1>7. broadcast_append_messages(node[n], entry) \in Sending(PlainMessage)
    BY <1>1, BroadcastType
  <1>8. Gets(n, s, "ClientRequest") /\ UNCHANGED granted
    BY DEF LeaderClientRequest
  <1> QED BY <1>5, <1>6, <1>7, <1>8, LeaderTurnKeeps

\* _leader, any other message.
LEMMA LeaderIgnores ==
    ASSUME RaftInv, NEW n \in Node, NEW s \in Node, LeaderIgnore(n, s)
    PROVE  RaftInv' /\ PlainSent
  BY LeaderStep, LeaderTurnKeeps, SendingType DEF LeaderIgnore

\* _leader, an iteration without a message.
LEMMA LeaderServes ==
    ASSUME RaftInv, NEW n \in Node, LeaderServeClient(n)
    PROVE  RaftInv' /\ PlainSent
  <1>1. Logged(node[n]) /\ Leads(node[n], n)
    BY LeaderStep DEF LeaderServeClient
  <1>2. UNCHANGED granted
    BY DEF LeaderServeClient
  <1> QED BY <1>1, <1>2, ClientServed, ServingMessages, PlainActKeeps DEF LeaderServeClient

\* _leader, the heartbeat timer.
LEMMA LeaderBeats ==
    ASSUME RaftInv, NEW n \in Node, LeaderHeartbeat(n)
    PROVE  RaftInv' /\ PlainSent
  <1>1. Logged(node[n]) /\ Leads(node[n], n)
    BY LeaderStep DEF LeaderHeartbeat
  <1>2. UNCHANGED granted
    BY DEF LeaderHeartbeat
  <1>3. SendAll(Heartbeat(node[n])) \in Sending(PlainMessage)
    BY <1>1, MessageTypes, SendingType
  <1> QED BY <1>1, <1>2, <1>3, PlainActKeeps DEF LeaderHeartbeat

\* _leader, the resend timer.
LEMMA LeaderRepeats ==
    ASSUME RaftInv, NEW n \in Node, NEW d \in Node, LeaderResend(n, d)
    PROVE  RaftInv' /\ PlainSent
  <1>1. Logged(node[n]) /\ Leads(node[n], n)
    BY LeaderStep DEF LeaderResend
  <1>2. UNCHANGED granted
    BY DEF LeaderResend
  <1>3. PICK index : index = node[n].next_index[d]
    OBVIOUS
  <1>4. index \in 1 .. log_max_index(node[n])
    BY <1>1, <1>3 DEF LeaderResend, Leads
  <1>5. SendTo(d, Resend(node[n], index)) \in Sending(PlainMessage)
    BY <1>1, <1>4, ResendType, SendingType
  <1>6. Act(n, node[n], SendTo(d, Resend(node[n], index)))
    BY <1>3 DEF LeaderResend
  <1> QED BY <1>1, <1>2, <1>5, <1>6, PlainActKeeps

\* The thread finds that its role was changed.
LEMMA Runs ==
    ASSUME RaftInv, NEW n \in Node, run(n)
    PROVE  RaftInv' /\ PlainSent
  <1>1. Logged(node[n]) /\ (node[n].role = "leader" => Leads(node[n], n))
    BY DEF RaftInv, LogInv, RoleInv, LeaderInv
  <1>2. UNCHANGED granted
    BY DEF run
  <1> QED BY <1>1, <1>2, SendingType, PlainActKeeps DEF run

\* Clients and operators do not touch what a leader knows.
LEMMA NodeTouched ==
    ASSUME RaftInv, NEW n \in Node, NEW self, Logged(self), node' = [node EXCEPT ![n] = self],
           self.role \notin {"candidate", "leader"} \/ self.role = node[n].role,
           self.loop = node[n].loop, self.log = node[n].log,
           self.commit_index = node[n].commit_index,
           self.next_index = node[n].next_index, self.match_index = node[n].match_index
    PROVE  node' \in [Node -> NodeState] /\ LogInv' /\ RoleInv' /\ LeaderInv'
  <1>1. node \in [Node -> NodeState]
    BY DEF RaftInv, TypeOK
  <1>2. \A p \in Node : node'[p] = IF p = n THEN self ELSE node[p]
    BY <1>1
  <1>3. node' \in [Node -> NodeState]
    BY <1>1 DEF Logged
  <1>4. LogInv'
    BY <1>2 DEF RaftInv, LogInv, Logged
  <1>5. RoleInv'
    BY <1>2 DEF RaftInv, RoleInv
  <1>6. LeaderInv'
    BY <1>2 DEF RaftInv, LeaderInv, Leads, log_max_index
  <1> QED BY <1>3, <1>4, <1>5, <1>6

\* A client queues a request.
LEMMA ClientAsks ==
    ASSUME RaftInv, NEW n \in Node, NEW v \in Value, client_request(n, v)
    PROVE  RaftInv'
  <1>1. Logged(node[n]) /\ node[n].current_term \in Nat /\ node[n].client_queue \in Seq(Entry)
    BY DEF RaftInv, LogInv, Logged, NodeState
  <1>2. PICK entry \in Entry : entry = [term |-> node[n].current_term, entry |-> v]
    BY <1>1 DEF Entry
  <1>3. PICK longer \in Seq(Entry) : longer = Append(node[n].client_queue, entry)
    BY <1>1, AppendProperties
  <1>4. PICK self : self = [node[n] EXCEPT !.client_queue = longer]
    OBVIOUS
  <1>5. /\ Logged(self) /\ self.role = node[n].role /\ self.loop = node[n].loop
        /\ self.log = node[n].log /\ self.commit_index = node[n].commit_index
        /\ self.next_index = node[n].next_index /\ self.match_index = node[n].match_index
    BY <1>1, <1>3, <1>4 DEF Logged, NodeState
  <1>6. node' = [node EXCEPT ![n] = self]
    BY <1>2, <1>3, <1>4 DEF client_request
  <1>7. node' \in [Node -> NodeState] /\ LogInv' /\ RoleInv' /\ LeaderInv'
    BY <1>5, <1>6, NodeTouched
  <1> QED BY <1>7 DEF client_request, RaftInv, TypeOK

\* An operator changes the role in the middle of a loop.
LEMMA OperatorActs ==
    ASSUME RaftInv, NEW n \in Node, pause(n) \/ un_pause(n)
    PROVE  RaftInv'
  <1>1. Logged(node[n])
    BY DEF RaftInv, LogInv
  <1>2. ASSUME NEW role \in {"none", "follower"},
               node' = [node EXCEPT ![n] = set_current_role(node[n], role)]
        PROVE  node' \in [Node -> NodeState] /\ LogInv' /\ RoleInv' /\ LeaderInv'
    <2>1. PICK self : self = set_current_role(node[n], role)
      OBVIOUS
    <2>2. /\ Logged(self) /\ self.role = role /\ self.loop = node[n].loop
          /\ self.log = node[n].log /\ self.commit_index = node[n].commit_index
          /\ self.next_index = node[n].next_index /\ self.match_index = node[n].match_index
      BY <1>1, <2>1 DEF Logged, NodeState, set_current_role, Role
    <2> QED BY <1>2, <2>1, <2>2, NodeTouched
  <1>3. \/ \E role \in {"none", "follower"} :
              node' = [node EXCEPT ![n] = set_current_role(node[n], role)]
        \/ node' = node
    BY DEF pause, un_pause
  <1>4. node' \in [Node -> NodeState] /\ LogInv' /\ RoleInv' /\ LeaderInv'
    BY <1>2, <1>3 DEF RaftInv, TypeOK, LogInv, RoleInv, LeaderInv
  <1>5. UNCHANGED <<chan, unsent, granted>> /\ paused' \subseteq Node
    BY RaftBoundAssumption DEF pause, un_pause, RaftInv, TypeOK
  <1> QED BY <1>4, <1>5 DEF RaftInv, TypeOK

\* A PUB socket drops a message.
LEMMA MessageLost ==
    ASSUME RaftInv, NEW s \in Node, NEW d \in Node, Lose(s, d)
    PROVE  RaftInv'
  <1>1. chan[s][d] \in Seq(Message) /\ chan[s][d] # <<>>
    BY DEF Lose, RaftInv, TypeOK
  <1>2. Tail(chan[s][d]) \in Seq(Message)
    BY <1>1, HeadTailProperties
  <1>3. chan' \in [Node -> [Node -> Seq(Message)]]
    BY <1>2 DEF Lose, RaftInv, TypeOK
  <1> QED BY <1>3 DEF Lose, RaftInv, TypeOK, LogInv, RoleInv, LeaderInv

\* Every step keeps the invariant.
LEMMA NextInv == RaftInv /\ [Next]_vars => RaftInv'
  <1> SUFFICES ASSUME RaftInv, [Next]_vars PROVE RaftInv'
    OBVIOUS
  <1>1. ASSUME NEW n \in Node, NEW s \in Node, Receive(n, s)
        PROVE  RaftInv'
    BY <1>1, FollowerVotes, FollowerHears, FollowerAppends, FollowerCommits, FollowerIgnores,
       CandidateVoted, SteppedDown, CandidateHears, CandidateIgnores, LeaderAcknowledged,
       LeaderIsAsked, LeaderIgnores
       DEF Receive
  <1>2. CASE UNCHANGED vars
    BY <1>2 DEF vars, RaftInv, TypeOK, LogInv, RoleInv, LeaderInv
  <1> QED BY <1>1, <1>2, ElectionBegins, LeaderServes, LeaderBeats, LeaderRepeats, ClientAsks,
             OperatorActs, Runs, MessageLost
             DEF Next

\* The invariant holds throughout.
LEMMA RaftInvariant == Spec => []RaftInv
  BY InitInv, NextInv, PTL DEF Spec

\* Every variable keeps its type: no index that is sent, matched or committed
\* is ever negative or None, and what a node takes from a channel, its queue
\* or its log is there.
THEOREM TypeCorrect == Spec => []TypeOK
  <1>1. RaftInv => TypeOK
    BY DEF RaftInv
  <1> QED BY <1>1, RaftInvariant, PTL

\* next_index and match_index of a leader stay inside its log, whatever it is
\* acknowledged and whenever: no IndexError in _leader.
THEOREM IndicesInLog == Spec => []LeaderIndexSafe
  <1>1. RaftInv => LeaderIndexSafe
    BY DEF RaftInv, LeaderInv, Leads, LeaderIndexSafe
  <1> QED BY <1>1, RaftInvariant, PTL

-----------------------------------------------------------------------------
(* The votes granted.                                                      *)

\* Votes are granted in terms that have been reached.  A node that has
\* granted one to another node in its term remembers that it has voted, and
\* runs neither _leader nor _candidate, which a heartbeat may end with the vote
\* forgotten.
GrantInv ==
    \A g \in granted :
        /\ g[2] <= node[g[1]].current_term
        /\ g[2] = node[g[1]].current_term /\ g[3] # g[1] =>
              node[g[1]].voted_for # Nobody /\ node[g[1]].loop \notin {"candidate", "leader"}

VotingInv == RaftInv /\ GrantInv /\ OneGrantPerTerm

\* old and new are the same to those who count votes.
SameVoter(new, old) ==
    /\ new.role = old.role
    /\ new.current_term = old.current_term
    /\ new.voted_for = old.voted_for

\* A broadcast is of no interest to those who count votes.
LEMMA BroadcastVoter ==
    ASSUME NEW self, Logged(self), NEW n \in Node, NEW entry \in Entry
    PROVE  SameVoter(broadcast_append_entries(self, n, entry), self)
  BY DEF SameVoter, broadcast_append_entries, append_last, Logged, NodeState

\* Neither is serving the clients,
LEMMA ServingVoter ==
    ASSUME NEW self, Logged(self), NEW n \in Node
    PROVE  SameVoter(serve_client(self, n), self)
  <1>1. CASE self.client_queue = <<>>
    BY <1>1 DEF serve_client, SameVoter
  <1>2. CASE self.client_queue # <<>>
    <2>1. Head(self.client_queue) \in Entry /\ Tail(self.client_queue) \in Seq(Entry)
      BY <1>2, HeadTailProperties DEF Logged, NodeState
    <2>2. PICK rest \in Seq(Entry) : rest = Tail(self.client_queue)
      BY <2>1
    <2>3. PICK served : served = [self EXCEPT !.client_queue = rest]
      OBVIOUS
    <2>4. Logged(served) /\ SameVoter(served, self)
      BY <2>3 DEF Logged, NodeState, SameVoter
    <2>5. serve_client(self, n) = broadcast_append_entries(served, n, Head(self.client_queue))
      BY <1>2, <2>2, <2>3 DEF serve_client
    <2> QED BY <2>1, <2>4, <2>5, BroadcastVoter DEF SameVoter
  <1> QED BY <1>1, <1>2

\* nor an acknowledgement,
LEMMA AcknowledgedVoter ==
    ASSUME NEW self, Logged(self), NEW s \in Node, NEW success
    PROVE  SameVoter(advance(self, s, success), self)
  BY DEF SameVoter, advance, Logged, NodeState

\* nor a commit,
LEMMA CommittedVoter ==
    ASSUME NEW self, Logged(self)
    PROVE  SameVoter(commit_replicated(self), self)
  BY DEF SameVoter, commit_replicated, commit_entry, Logged, NodeState

\* nor an appended entry.
LEMMA AppendedVoter ==
    ASSUME NEW self, Logged(self), NEW entry, NEW commit, NEW prev_index
    PROVE  SameVoter(append_entry(self, entry, commit, prev_index), self)
  BY DEF SameVoter, append_entry, commit_entry, Logged, NodeState

\* A new leader keeps its term and its vote.
LEMMA LeadingVoter ==
    ASSUME NEW self, Logged(self), NEW n \in Node
    PROVE  /\ start_leading(self, n).current_term = self.current_term
           /\ start_leading(self, n).voted_for = self.voted_for
  BY DEF start_leading, broadcast_append_entries, append_last, set_current_role, Logged, NodeState

\* No vote is granted and none that binds is forgotten: a later term begins,
\* or the node leaves _candidate, or it remembers whom it has voted for.
LEMMA NoVote ==
    ASSUME VotingInv, RaftInv', NEW n \in Node, NEW self, Logged(self),
           node' = [node EXCEPT ![n] = CheckRole(self)], UNCHANGED granted,
           \/ self.current_term > node[n].current_term
           \/ self.current_term = node[n].current_term /\ node[n].loop = "candidate"
           \/ /\ self.current_term = node[n].current_term
              /\ self.role # "candidate"
              /\ self.role = "leader" => node[n].loop = "leader"
              /\ node[n].voted_for # Nobody => self.voted_for # Nobody
    PROVE  VotingInv'
  <1>1. /\ node \in [Node -> NodeState] /\ granted \subseteq Node \X Nat \X Node
        /\ \A p \in Node : node[p].current_term \in Nat
    BY DEF VotingInv, RaftInv, TypeOK, NodeState
  <1>2. PICK new : new = CheckRole(self)
    OBVIOUS
  <1>3. /\ new.current_term = self.current_term /\ new.voted_for = self.voted_for
        /\ new.loop = self.role /\ self.current_term \in Nat
    BY <1>2 DEF CheckRole, Logged, NodeState
  <1>4. \A p \in Node : node'[p] = IF p = n THEN new ELSE node[p]
    BY <1>1, <1>2
  <1>5. ASSUME NEW g \in granted
        PROVE  /\ g[2] <= node'[g[1]].current_term
               /\ g[2] = node'[g[1]].current_term /\ g[3] # g[1] =>
                     node'[g[1]].voted_for # Nobody /\ node'[g[1]].loop \notin {"candidate", "leader"}
    <2>1. g[1] \in Node /\ g[2] \in Nat
      BY <1>1
    <2> QED BY <1>1, <1>3, <1>4, <2>1 DEF VotingInv, GrantInv
  <1> QED BY <1>5 DEF VotingInv, GrantInv, OneGrantPerTerm

\* A vote is granted by a node that has not voted in its term, and remembered.
LEMMA OneVote ==
    ASSUME VotingInv, RaftInv', NEW n \in Node, NEW s \in Node, NEW self, Logged(self),
           node' = [node EXCEPT ![n] = CheckRole(self)],
           granted' = granted \cup {<<n, self.current_term, s>>},
           \/ self.current_term > node[n].current_term
           \/ self.current_term = node[n].current_term /\ node[n].voted_for = Nobody,
           self.voted_for # Nobody, s # n => self.role \notin {"candidate", "leader"}
    PROVE  VotingInv'
  <1>1. /\ node \in [Node -> NodeState] /\ granted \subseteq Node \X Nat \X Node
        /\ \A p \in Node : node[p].current_term \in Nat
    BY DEF VotingInv, RaftInv, TypeOK, NodeState
  <1>2. PICK new : new = CheckRole(self)
    OBVIOUS
  <1>3. /\ new.current_term = self.current_term /\ new.voted_for = self.voted_for
        /\ new.loop = self.role /\ self.current_term \in Nat
    BY <1>2 DEF CheckRole, Logged, NodeState
  <1>4. \A p \in Node : node'[p] = IF p = n THEN new ELSE node[p]
    BY <1>1, <1>2
  <1>5. \A g \in granted : g[1] \in Node /\ g[2] \in Nat
    BY <1>1
  <1>6. ASSUME NEW g \in granted, g[1] = n, g[2] = self.current_term
        PROVE  g[3] = n
    BY <1>1, <1>5, <1>6 DEF VotingInv, GrantInv
  <1>7. GrantInv'
    <2>1. ASSUME NEW g \in granted
          PROVE  /\ g[2] <= node'[g[1]].current_term
                 /\ g[2] = node'[g[1]].current_term /\ g[3] # g[1] =>
                       node'[g[1]].voted_for # Nobody /\ node'[g[1]].loop \notin {"candidate", "leader"}
      BY <1>1, <1>3, <1>4, <1>5, <1>6 DEF VotingInv, GrantInv
    <2>2. PICK g : g = <<n, self.current_term, s>>
      OBVIOUS
    <2>3. g[1] = n /\ g[2] = self.current_term /\ g[3] = s
      BY <2>2
    <2>4. /\ g[2] <= node'[g[1]].current_term
          /\ g[2] = node'[g[1]].current_term /\ g[3] # g[1] =>
                node'[g[1]].voted_for # Nobody /\ node'[g[1]].loop \notin {"candidate", "leader"}
      BY <1>3, <1>4, <2>3
    <2> QED BY <2>1, <2>2, <2>4, Zenon DEF GrantInv
  <1>8. OneGrantPerTerm'
    <2>1. PICK new_grant : new_grant = <<n, self.current_term, s>>
      OBVIOUS
    <2>2. new_grant[1] = n /\ new_grant[2] = self.current_term /\ new_grant[3] = s
      BY <2>1
    <2> QED BY <1>6, <2>1, <2>2 DEF VotingInv, OneGrantPerTerm
  <1> QED BY <1>7, <1>8 DEF VotingInv

\* n takes a step that grants nothing and begins neither to stand nor to lead.
Changes(n, self) == node' = [node EXCEPT ![n] = CheckRole(self)] /\ UNCHANGED granted

Silent(n) ==
    \E self :
        /\ Logged(self) /\ Changes(n, self)
        /\ self.role = "leader" => node[n].loop = "leader"
        /\ self.role = "candidate" =>
              /\ node[n].loop = "candidate" /\ self.votes_for_me = node[n].votes_for_me
              /\ self.voted_for = node[n].voted_for
        /\ node[n].loop = "leader" => self.role = node[n].role
        /\ \/ self.current_term > node[n].current_term
           \/ self.current_term = node[n].current_term /\ node[n].loop = "candidate"
           \/ /\ self.current_term = node[n].current_term
              /\ node[n].voted_for # Nobody => self.voted_for # Nobody

\* n takes a step in which it grants its vote to s, which has asked for it.
Grants(n, s) ==
    /\ Gets(n, s, "RequestVotes")
    /\ \E self :
        /\ Logged(self) /\ node' = [node EXCEPT ![n] = CheckRole(self)]
        /\ self.current_term >= Head(chan[s][n]).term
        /\ granted' = granted \cup {<<n, self.current_term, s>>}
        /\ \/ self.current_term > node[n].current_term
           \/ self.current_term = node[n].current_term /\ node[n].voted_for = Nobody
        /\ self.voted_for # Nobody /\ self.role \notin {"candidate", "leader"}

\* A step that grants nothing keeps the law of votes.
LEMMA SilentVotes ==
    ASSUME VotingInv, RaftInv', NEW n \in Node, Silent(n)
    PROVE  VotingInv'
  BY NoVote DEF Silent, Changes

\* A grant keeps it: the voter remembers, and stands in no election.
LEMMA GrantVotes ==
    ASSUME VotingInv, RaftInv', NEW n \in Node, NEW s \in Node, Grants(n, s)
    PROVE  VotingInv'
  BY OneVote DEF Grants

\* A step that changes nothing of interest to voters is silent.
LEMMA SameVoterSilent ==
    ASSUME RaftInv, NEW n \in Node, node[n].loop # "candidate",
           NEW self, Logged(self), SameVoter(self, node[n]), Changes(n, self)
    PROVE  Silent(n)
  <1>1. node[n].role # "candidate" /\ (node[n].role = "leader" => node[n].loop = "leader")
    BY DEF RaftInv, RoleInv
  <1> QED BY <1>1 DEF SameVoter, Silent

\* _follower grants at most one vote for a request.
LEMMA FollowerGrants ==
    ASSUME RaftInv, NEW n \in Node, NEW s \in Node, FollowerRequestVotes(n, s)
    PROVE  (Silent(n) /\ PlainSent) \/ (Grants(n, s) /\ VoteSent(n, s))
  <1>1. /\ Logged(node[n]) /\ node[n].role \notin {"candidate", "leader"}
        /\ Gets(n, s, "RequestVotes") /\ node[n].loop # "leader"
    <2>1. node[n].loop = "follower" /\ Gets(n, s, "RequestVotes")
      BY DEF FollowerRequestVotes
    <2>2. Logged(node[n]) /\ node[n].role # "candidate"
      BY <2>1, FollowerStep DEF RaftInv, RoleInv
    <2>3. node[n].role # "leader"
      BY <2>1, FollowerStep
    <2> QED BY <2>1, <2>2, <2>3
  <1>2. PICK m \in Message : m = Head(chan[s][n]) /\ m.term \in Nat
    BY GetsMessage, MessageFields DEF FollowerRequestVotes, RaftInv
  <1>3. PICK heard : heard = adopt_term(node[n], m.term)
    OBVIOUS
  <1>4. Logged(heard) /\ heard.role \notin {"candidate", "leader"}
    BY <1>1, <1>2, <1>3, TermChange DEF adopt_term, increment_term, Logged, NodeState
  <1>5. /\ heard.current_term >= m.term
        /\ \/ heard.current_term > node[n].current_term
           \/ heard.current_term = node[n].current_term /\ heard.voted_for = node[n].voted_for
    <2>1. node[n].current_term \in Nat
      BY <1>1 DEF Logged, NodeState
    <2>2. CASE m.term > node[n].current_term
      <3>1. heard = [node[n] EXCEPT !.current_term = m.term, !.voted_for = Nobody]
        BY <1>3, <2>2 DEF adopt_term, increment_term
      <3>2. heard.current_term = m.term
        BY <1>1, <3>1 DEF Logged, NodeState
      <3> QED BY <1>2, <2>2, <3>2
    <2>3. CASE ~ (m.term > node[n].current_term)
      BY <1>2, <1>3, <2>1, <2>3 DEF adopt_term
    <2> QED BY <2>2, <2>3
  <1>6. PICK self : self = send_vote(heard, s)
    OBVIOUS
  <1>7. /\ Logged(self) /\ self.current_term = heard.current_term
        /\ self.voted_for = s /\ self.role = heard.role /\ s # Nobody
    BY <1>4, <1>6, VoteChange, NodeAssumption DEF send_vote, Logged, NodeState
  <1>8. PICK grant \in BOOLEAN : grant = (/\ heard.voted_for = Nobody
                                          /\ m.last_log_index >= heard.commit_index
                                          /\ m.last_log_term >= heard.last_applied_term)
    OBVIOUS
  <1>9. /\ Handle(n, s, self, SendTo(s, Vote(grant)))
        /\ granted' = granted \cup (IF grant THEN {<<n, heard.current_term, s>>} ELSE {})
    BY <1>2, <1>3, <1>6, <1>8 DEF FollowerRequestVotes
  <1>10. node' = [node EXCEPT ![n] = CheckRole(self)]
    BY <1>9 DEF Handle
  <1>11. CASE ~ grant
    <2>1. UNCHANGED granted /\ Handle(n, s, self, SendTo(s, Vote(FALSE)))
      BY <1>9, <1>11
    <2>2. Silent(n)
      BY <1>1, <1>4, <1>5, <1>7, <1>10, <2>1 DEF Silent, Changes
    <2>3. SendTo(s, Vote(FALSE)) \in Sending(PlainMessage)
      BY <1>4, MessageTypes, SendingType
    <2>4. PlainSent
      BY <1>1, <1>4, <1>7, <2>1, <2>3, PlainHandleKeeps
    <2> QED BY <2>2, <2>4
  <1>12. CASE grant
    <2>1. /\ heard.voted_for = Nobody /\ granted' = granted \cup {<<n, heard.current_term, s>>}
          /\ Handle(n, s, self, SendTo(s, Vote(TRUE)))
      BY <1>8, <1>9, <1>12
    <2>2. Grants(n, s)
      BY <1>1, <1>2, <1>4, <1>5, <1>7, <1>10, <2>1 DEF Grants
    <2> QED BY <1>1, <2>1, <2>2, VoteHandleSends
  <1> QED BY <1>11, <1>12

\* A heartbeat may clear voted_for of a follower only with a newer term.
LEMMA FollowerHeartbeatVotes ==
    ASSUME RaftInv, NEW n \in Node, NEW s \in Node, FollowerHeartbeat(n, s)
    PROVE  Silent(n)
  <1>1. /\ Logged(node[n]) /\ node[n].role \notin {"candidate", "leader"}
        /\ node[n].loop # "leader"
    BY FollowerStep DEF FollowerHeartbeat, RaftInv, RoleInv
  <1>2. PICK m \in Message : m = Head(chan[s][n]) /\ m.term \in Nat
    BY GetsMessage, MessageFields DEF FollowerHeartbeat, RaftInv
  <1>3. PICK heard : heard = adopt_term(node[n], m.term)
    OBVIOUS
  <1>4. Logged(heard) /\ heard.role \notin {"candidate", "leader"}
    BY <1>1, <1>2, <1>3, TermChange, ZenonT(60) DEF adopt_term, increment_term, Logged, NodeState
  <1>5. \/ heard.current_term > node[n].current_term
        \/ heard.current_term = node[n].current_term /\ heard.voted_for = node[n].voted_for
    <2>1. CASE m.term > node[n].current_term
      <3>1. heard = [node[n] EXCEPT !.current_term = m.term, !.voted_for = Nobody]
        BY <1>3, <2>1 DEF adopt_term, increment_term
      <3>2. heard.current_term = m.term
        BY <1>1, <3>1 DEF Logged, NodeState
      <3> QED BY <2>1, <3>2
    <2>2. CASE ~ (m.term > node[n].current_term)
      BY <1>3, <2>2 DEF adopt_term
    <2> QED BY <2>1, <2>2
  <1>6. \E self : /\ Logged(self) /\ SameVoter(self, heard)
                  /\ node' = [node EXCEPT ![n] = CheckRole(self)]
    <2>1. CASE heard.client_queue = <<>>
      BY <1>2, <1>3, <1>4, <2>1 DEF FollowerHeartbeat, Handle, SameVoter
    <2>2. CASE heard.client_queue # <<>>
      <3>1. PICK rest \in Seq(Entry) : rest = Tail(heard.client_queue)
        BY <1>4, <2>2, HeadTailProperties DEF Logged, NodeState
      <3>2. PICK self : self = [heard EXCEPT !.client_queue = rest]
        OBVIOUS
      <3>3. Logged(self) /\ SameVoter(self, heard)
        BY <1>4, <3>2 DEF Logged, NodeState, SameVoter
      <3>4. node' = [node EXCEPT ![n] = CheckRole(self)]
        BY <1>2, <1>3, <2>2, <3>1, <3>2 DEF FollowerHeartbeat, Handle
      <3> QED BY <3>3, <3>4
    <2> QED BY <2>1, <2>2
  <1>7. UNCHANGED granted
    BY DEF FollowerHeartbeat
  <1> QED BY <1>1, <1>4, <1>5, <1>6, <1>7 DEF Silent, Changes, SameVoter

\* The other messages of a follower concern no votes.
LEMMA FollowerOtherVotes ==
    ASSUME RaftInv, NEW n \in Node, NEW s \in Node,
           FollowerAppendEntries(n, s) \/ FollowerCommittal(n, s) \/ FollowerIgnore(n, s)
    PROVE  Silent(n)
  <1>1. Logged(node[n]) /\ node[n].loop # "candidate"
    BY FollowerStep DEF FollowerAppendEntries, FollowerCommittal, FollowerIgnore
  <1>2. CASE FollowerAppendEntries(n, s)
    <2>1. PICK m \in Message : m = Head(chan[s][n]) /\ m.type = "AppendEntries"
      BY <1>2, GetsMessage DEF FollowerAppendEntries, RaftInv
    <2>2. m.entries \in Entry /\ m.prev_log_index \in Nat
      BY <2>1, MessageFields
    <2>3. PICK commit : commit = (m.leader_commit > node[n].commit_index)
      BY Zenon
    <2>4. PICK longer : longer = append_entry(node[n], m.entries, commit, m.prev_log_index)
      OBVIOUS
    <2>5. \/ /\ m.prev_log_index < Len(node[n].log)
             /\ node' = [node EXCEPT ![n] = CheckRole(longer)]
          \/ node' = [node EXCEPT ![n] = CheckRole(node[n])]
      BY <1>2, <2>1, <2>3, <2>4 DEF FollowerAppendEntries, verify_entry, Handle
    <2>6. m.prev_log_index < Len(node[n].log) => Logged(longer) /\ SameVoter(longer, node[n])
      BY <1>1, <2>2, <2>4, EntryAppended, AppendedVoter
    <2> QED BY <1>1, <1>2, <2>5, <2>6, SameVoterSilent
            DEF FollowerAppendEntries, Changes, SameVoter
  <1>3. CASE FollowerCommittal(n, s)
    <2>1. PICK m \in Message : m = Head(chan[s][n]) /\ m.type = "Committal"
      BY <1>3, GetsMessage DEF FollowerCommittal, RaftInv
    <2>2. PICK self : self = commit_entry(node[n], m.prev_log_index, m.prev_log_term)
      OBVIOUS
    <2>3. Logged(self) /\ SameVoter(self, node[n])
      <3>1. Logged(self)
        BY <1>1, <2>1, <2>2, CommitChange, MessageFields
      <3> QED BY <1>1, <2>2, <3>1 DEF SameVoter, commit_entry, Logged, NodeState
    <2> QED BY <1>1, <1>3, <2>1, <2>2, <2>3, SameVoterSilent
            DEF FollowerCommittal, Handle, Changes
  <1>4. CASE FollowerIgnore(n, s)
    BY <1>1, <1>4, SameVoterSilent DEF FollowerIgnore, Handle, Changes, SameVoter
  <1> QED BY <1>2, <1>3, <1>4

\* A candidate votes for itself in a term in which it has granted nothing.
LEMMA ElectionVotes ==
    ASSUME VotingInv, RaftInv', NEW n \in Node, BeginElection(n)
    PROVE  VotingInv'
  <1>1. Logged(node[n]) /\ node[n].current_term \in Nat
    BY DEF VotingInv, RaftInv, LogInv, Logged, NodeState
  <1>2. PICK term \in Nat : term = node[n].current_term + 1
    BY <1>1
  <1>3. PICK self : self = [set_current_role(send_vote(increment_term(node[n], term), n),
                                             "candidate") EXCEPT !.votes_for_me = 0]
    OBVIOUS
  <1>4. Logged(self) /\ self.current_term = term /\ self.voted_for = n /\ n # Nobody
    BY <1>1, <1>3, NodeAssumption
       DEF set_current_role, send_vote, increment_term, Logged, NodeState, Role
  <1>5. /\ node' = [node EXCEPT ![n] = CheckRole(self)]
        /\ granted' = granted \cup {<<n, self.current_term, n>>}
    BY <1>2, <1>3, <1>4 DEF BeginElection, Act
  <1>6. self.current_term > node[n].current_term
    BY <1>1, <1>2, <1>4
  <1> QED BY <1>4, <1>5, <1>6, OneVote

\* Who steps down grants its vote in the new term.
LEMMA StepDownVotes ==
    ASSUME RaftInv, NEW n \in Node, NEW s \in Node, StepDown(n, s)
    PROVE  Grants(n, s) /\ VoteSent(n, s)
  <1>1. PICK m \in Message : m = Head(chan[s][n]) /\ m.term \in Nat
    BY GetsMessage, MessageFields DEF StepDown, RaftInv
  <1>2. Logged(node[n])
    BY DEF RaftInv, LogInv
  <1>3. PICK self : self = set_current_role(send_vote(increment_term(node[n], m.term), s),
                                            "follower")
    OBVIOUS
  <1>4. /\ Logged(self) /\ self.current_term = m.term /\ self.voted_for = s /\ s # Nobody
        /\ self.role = "follower"
    BY <1>1, <1>2, <1>3, NodeAssumption
       DEF set_current_role, send_vote, increment_term, Logged, NodeState, Role
  <1>5. /\ node' = [node EXCEPT ![n] = CheckRole(self)] /\ m.term > node[n].current_term
        /\ granted' = granted \cup {<<n, self.current_term, s>>}
        /\ Gets(n, s, "RequestVotes") /\ Handle(n, s, self, SendTo(s, Vote(TRUE)))
    BY <1>1, <1>3, <1>4 DEF StepDown, Handle
  <1>6. self.current_term >= Head(chan[s][n]).term /\ self.current_term > node[n].current_term
    BY <1>1, <1>4, <1>5
  <1>7. Grants(n, s)
    BY <1>4, <1>5, <1>6, Zenon DEF Grants
  <1> QED BY <1>5, <1>7, VoteHandleSends

\* n takes the answer to its request for votes, and leads if it has enough.
Counts(n, s) ==
    \E self, votes :
        /\ votes = IF Head(chan[s][n]).vote_granted THEN node[n].votes_for_me + 1
                   ELSE node[n].votes_for_me
        /\ Logged(self) /\ Changes(n, self) /\ self.current_term = node[n].current_term
        /\ self.voted_for = node[n].voted_for
        /\ \/ has_majority(votes) /\ self.role = "leader"
           \/ self.role = node[n].role /\ self.votes_for_me = votes

\* A vote that is handled is counted.
LEMMA CandidateCounts ==
    ASSUME RaftInv, NEW n \in Node, NEW s \in Node, CandidateVote(n, s)
    PROVE  Counts(n, s)
  <1>1. Logged(node[n]) /\ node[n].votes_for_me \in Nat /\ UNCHANGED granted
    BY DEF RaftInv, LogInv, Logged, NodeState, CandidateVote
  <1>2. PICK votes \in Nat :
           votes = IF Head(chan[s][n]).vote_granted THEN node[n].votes_for_me + 1
                   ELSE node[n].votes_for_me
    BY <1>1
  <1>3. PICK self : self = [node[n] EXCEPT !.votes_for_me = votes]
    OBVIOUS
  <1>4. /\ Logged(self) /\ self.current_term = node[n].current_term
        /\ self.role = node[n].role /\ self.votes_for_me = votes
        /\ self.voted_for = node[n].voted_for
    BY <1>1, <1>3 DEF Logged, NodeState
  <1>5. self = [node[n] EXCEPT !.votes_for_me =
                   IF Head(chan[s][n]).vote_granted THEN @ + 1 ELSE @]
    BY <1>1, <1>2, <1>3 DEF Logged, NodeState
  <1>6. CASE has_majority(votes)
    <2>1. node' = [node EXCEPT ![n] = CheckRole(start_leading(self, n))]
      BY <1>4, <1>5, <1>6 DEF CandidateVote, Handle
    <2>2. PICK led : led = start_leading(self, n)
      OBVIOUS
    <2>3. /\ Logged(led) /\ led.role = "leader" /\ led.current_term = node[n].current_term
          /\ led.voted_for = node[n].voted_for
      BY <1>4, <2>2, LeadingStarted, LeadingVoter
    <2> QED BY <1>1, <1>2, <1>6, <2>1, <2>2, <2>3 DEF Counts, Changes
  <1>7. CASE ~ has_majority(votes)
    <2>1. node' = [node EXCEPT ![n] = CheckRole(self)]
      BY <1>4, <1>5, <1>7 DEF CandidateVote, Handle
    <2> QED BY <1>1, <1>2, <1>4, <2>1 DEF Counts, Changes
  <1> QED BY <1>6, <1>7

\* Counting votes keeps the law.
LEMMA CountVotes ==
    ASSUME VotingInv, RaftInv', NEW n \in Node, NEW s \in Node, CandidateVote(n, s)
    PROVE  VotingInv'
  <1>1. Counts(n, s) /\ node[n].loop = "candidate"
    BY CandidateCounts DEF VotingInv, CandidateVote
  <1> QED BY <1>1, NoVote DEF Counts, Changes

\* The other messages of a candidate concern no votes.
LEMMA CandidateOtherVotes ==
    ASSUME RaftInv, NEW n \in Node, NEW s \in Node,
           CandidateHeartbeat(n, s) \/ CandidateIgnore(n, s)
    PROVE  Silent(n)
  <1>1. /\ Logged(node[n]) /\ node[n].loop = "candidate" /\ node[n].current_term \in Nat
        /\ node[n].role # "leader" /\ UNCHANGED granted
    BY CandidateStep DEF RaftInv, LogInv, Logged, NodeState, CandidateHeartbeat, CandidateIgnore
  <1>2. CASE CandidateHeartbeat(n, s)
    <2>1. PICK m \in Message : m = Head(chan[s][n]) /\ m.term \in Nat
      BY <1>2, GetsMessage, MessageFields DEF CandidateHeartbeat, RaftInv
    <2>2. PICK self : self = set_current_role(increment_term(node[n], m.term), "follower")
      OBVIOUS
    <2>3. Logged(self) /\ self.current_term = m.term /\ self.role = "follower"
      BY <1>1, <2>1, <2>2 DEF set_current_role, increment_term, Logged, NodeState, Role
    <2>4. node' = [node EXCEPT ![n] = CheckRole(self)] /\ m.term >= node[n].current_term
      BY <1>2, <2>1, <2>2 DEF CandidateHeartbeat, Handle
    <2>5. m.term > node[n].current_term \/ m.term = node[n].current_term
      BY <1>1, <2>1, <2>4
    <2> QED BY <1>1, <2>3, <2>4, <2>5 DEF Silent, Changes
  <1>3. CASE CandidateIgnore(n, s)
    BY <1>1, <1>3 DEF CandidateIgnore, Handle, Silent, Changes
  <1> QED BY <1>2, <1>3

\* An iteration of _leader concerns no votes,
LEMMA LeaderTurnVotes ==
    ASSUME RaftInv, NEW n \in Node, NEW s \in Node, node[n].loop = "leader",
           NEW self, Logged(self), Leads(self, n), SameVoter(self, node[n]),
           NEW out, LeaderTurn(n, s, self, out), UNCHANGED granted
    PROVE  Silent(n)
  <1>1. SameVoter(serve_client(self, n), node[n])
    BY ServingVoter DEF SameVoter
  <1>2. Logged(serve_client(self, n))
    BY ClientServed
  <1> QED BY <1>1, <1>2, SameVoterSilent DEF LeaderTurn, Handle, Changes

\* whatever it handles.
LEMMA LeaderVotes ==
    ASSUME RaftInv, NEW n \in Node, NEW s \in Node,
           \/ LeaderAcknowledge(n, s)
           \/ LeaderClientRequest(n, s)
           \/ LeaderIgnore(n, s)
           \/ LeaderServeClient(n)
           \/ LeaderHeartbeat(n)
           \/ LeaderResend(n, s)
    PROVE  Silent(n)
  <1>1. /\ node[n].loop = "leader" /\ Logged(node[n]) /\ Leads(node[n], n)
        /\ UNCHANGED granted
    BY LeaderStep DEF LeaderAcknowledge, LeaderClientRequest, LeaderIgnore,
       LeaderServeClient, LeaderHeartbeat, LeaderResend
  <1>2. SameVoter(node[n], node[n])
    BY DEF SameVoter
  <1>3. CASE LeaderAcknowledge(n, s)
    <2>1. CASE node[n].next_index[s] = UpToDate
      BY <1>1, <1>2, <1>3, <2>1, LeaderTurnVotes DEF LeaderAcknowledge
    <2>2. CASE node[n].next_index[s] # UpToDate
      <3>1. PICK success \in BOOLEAN : success = Head(chan[s][n]).success
        BY <1>3, GetsMessage, MessageFields DEF LeaderAcknowledge, RaftInv
      <3>2. PICK known : known = advance(node[n], s, success)
        OBVIOUS
      <3>3. Logged(known) /\ Leads(known, n) /\ SameVoter(known, node[n])
        BY <1>1, <2>2, <3>2, Advanced, AcknowledgedVoter
      <3>4. PICK self : self = commit_replicated(known)
        OBVIOUS
      <3>5. Logged(self) /\ Leads(self, n) /\ SameVoter(self, node[n])
        BY <3>3, <3>4, ReplicatedCommitted, CommittedVoter DEF SameVoter
      <3>6. \E out : LeaderTurn(n, s, self, out)
        BY <1>3, <2>2, <3>1, <3>2, <3>4, Zenon DEF LeaderAcknowledge
      <3> QED BY <1>1, <3>5, <3>6, LeaderTurnVotes
    <2> QED BY <2>1, <2>2
  <1>4. CASE LeaderClientRequest(n, s)
    <2>1. PICK entry \in Entry : entry = Head(chan[s][n]).entries
      BY <1>4, GetsMessage, MessageFields DEF LeaderClientRequest, RaftInv
    <2>2. PICK self : self = broadcast_append_entries(node[n], n, entry)
      OBVIOUS
    <2>3. Logged(self) /\ Leads(self, n) /\ SameVoter(self, node[n])
      BY <1>1, <2>2, BroadcastLeads, BroadcastVoter DEF Leads
    <2>4. LeaderTurn(n, s, self, broadcast_append_messages(node[n], entry))
      BY <1>4, <2>1, <2>2 DEF LeaderClientRequest
    <2> QED BY <1>1, <2>3, <2>4, LeaderTurnVotes
  <1>5. CASE LeaderIgnore(n, s)
    BY <1>1, <1>2, <1>5, LeaderTurnVotes DEF LeaderIgnore
  <1>6. CASE LeaderServeClient(n)
    BY <1>1, <1>6, ClientServed, ServingVoter, SameVoterSilent
       DEF LeaderServeClient, Act, Changes
  <1>7. CASE LeaderHeartbeat(n) \/ LeaderResend(n, s)
    BY <1>1, <1>2, <1>7, SameVoterSilent DEF LeaderHeartbeat, LeaderResend, Act, Changes
  <1> QED BY <1>3, <1>4, <1>5, <1>6, <1>7

\* A change of loop grants nothing.
LEMMA RunVotes ==
    ASSUME RaftInv, NEW n \in Node, run(n)
    PROVE  Silent(n)
  <1>1. Logged(node[n]) /\ node[n].role \notin {"candidate", "leader"} /\ node[n].current_term \in Nat
    BY DEF RaftInv, LogInv, RoleInv, run, Logged, NodeState
  <1> QED BY <1>1 DEF Silent, Changes, run, Act

\* Clients, operators and the network have no part in the votes.
Unmoved(p) ==
    /\ node'[p].current_term = node[p].current_term
    /\ node'[p].voted_for = node[p].voted_for
    /\ node'[p].loop = node[p].loop
    /\ node'[p].votes_for_me = node[p].votes_for_me

\* Clients, operators and losses keep the law of votes.
LEMMA EnvironmentVotes ==
    ASSUME VotingInv, RaftInv', UNCHANGED granted, \A p \in Node : Unmoved(p)
    PROVE  VotingInv'
  <1>1. \A g \in granted : g[1] \in Node
    BY DEF VotingInv, RaftInv, TypeOK
  <1> QED BY <1>1 DEF VotingInv, GrantInv, OneGrantPerTerm, Unmoved

\* They change no term, no vote and no loop.
LEMMA EnvironmentSteps ==
    ASSUME VotingInv,
           \/ \E n \in Node, v \in Value : client_request(n, v)
           \/ \E n \in Node : pause(n) \/ un_pause(n)
           \/ \E s, d \in Node : Lose(s, d)
           \/ UNCHANGED vars
    PROVE  UNCHANGED granted /\ PlainSent /\ \A p \in Node : Unmoved(p)
  <1>1. node \in [Node -> NodeState] /\ \A a, b \in Node : chan[a][b] \in Seq(Message)
    BY DEF VotingInv, RaftInv, TypeOK
  <1>2. ASSUME NEW n \in Node, NEW v \in Value, client_request(n, v), NEW p \in Node
        PROVE  Unmoved(p)
    <2>1. PICK longer : longer = Append(node[n].client_queue,
                                        [term |-> node[n].current_term, entry |-> v])
      OBVIOUS
    <2>2. node' = [node EXCEPT ![n] = [node[n] EXCEPT !.client_queue = longer]]
      BY <1>2, <2>1 DEF client_request
    <2> QED BY <1>1, <2>2 DEF NodeState, Unmoved
  <1>3. ASSUME NEW n \in Node, pause(n) \/ un_pause(n), NEW p \in Node
        PROVE  Unmoved(p)
    <2>1. \/ \E role \in {"none", "follower"} :
                node' = [node EXCEPT ![n] = [node[n] EXCEPT !.role = role]]
          \/ node' = node
      BY <1>3 DEF pause, un_pause, set_current_role
    <2>2. ASSUME NEW role, node' = [node EXCEPT ![n] = [node[n] EXCEPT !.role = role]]
          PROVE  Unmoved(p)
      BY <1>1, <2>2 DEF NodeState, Unmoved
    <2>3. node' = node => Unmoved(p)
      BY DEF Unmoved
    <2> QED BY <2>1, <2>2, <2>3
  <1>4. node' = node => \A p \in Node : Unmoved(p)
    BY DEF Unmoved
  <1>5. \A p \in Node : Unmoved(p)
    BY <1>2, <1>3, <1>4 DEF Lose, vars
  <1>6. ASSUME NEW s \in Node, NEW d \in Node, Lose(s, d), NEW a \in Node, NEW b \in Node
        PROVE  Kept(chan'[a][b], chan[a][b])
    <2>1. RaftInv /\ PlainMessage \in SUBSET Message
      BY DEF VotingInv, PlainMessage
    <2> QED BY <1>6, <2>1, LostPasses DEF Kept
  <1>7. chan' = chan => PlainSent
    BY <1>1, KeptSame DEF PlainSent
  <1>8. PlainSent
    BY <1>6, <1>7 DEF PlainSent, client_request, pause, un_pause, vars
  <1>9. UNCHANGED granted
    BY DEF client_request, pause, un_pause, Lose, vars
  <1> QED BY <1>5, <1>8, <1>9

\* The law of votes holds when nobody has voted.
LEMMA VotingInit == Init => VotingInv
  BY InitInv DEF Init, VotingInv, GrantInv, OneGrantPerTerm

\* Every step keeps it.
LEMMA VotingNext == VotingInv /\ [Next]_vars => VotingInv'
  <1> SUFFICES ASSUME VotingInv, [Next]_vars PROVE VotingInv'
    OBVIOUS
  <1>1. RaftInv'
    BY NextInv DEF VotingInv
  <1>2. ASSUME NEW n \in Node, NEW s \in Node, Receive(n, s)
        PROVE  VotingInv'
    <2>1. RaftInv
      BY DEF VotingInv
    <2>2. CASE CandidateVote(n, s)
      BY <2>2, <1>1, CountVotes
    <2>3. CASE ~ CandidateVote(n, s)
      <3>1. Silent(n) \/ Grants(n, s)
        BY <1>2, <2>1, <2>3, FollowerGrants, FollowerHeartbeatVotes, FollowerOtherVotes,
           CandidateOtherVotes, StepDownVotes, LeaderVotes
           DEF Receive
      <3> QED BY <1>1, <3>1, SilentVotes, GrantVotes
    <2> QED BY <2>2, <2>3
  <1>3. ASSUME NEW n \in Node, BeginElection(n) \/ run(n)
        PROVE  VotingInv'
    BY <1>1, <1>3, ElectionVotes, RunVotes, SilentVotes DEF VotingInv
  <1>4. ASSUME NEW n \in Node, NEW d \in Node,
               LeaderServeClient(n) \/ LeaderHeartbeat(n) \/ LeaderResend(n, d)
        PROVE  VotingInv'
    BY <1>1, <1>4, LeaderVotes, SilentVotes DEF VotingInv
  <1>5. CASE \/ \E n \in Node, v \in Value : client_request(n, v)
             \/ \E n \in Node : pause(n) \/ un_pause(n)
             \/ \E s, d \in Node : Lose(s, d)
             \/ UNCHANGED vars
    BY <1>1, <1>5, EnvironmentVotes, EnvironmentSteps
  <1> QED BY <1>2, <1>3, <1>4, <1>5 DEF Next

\* In a term a node votes for at most one other node, although a candidate
\* that hears a heartbeat of its own term forgets that it has voted in it.
THEOREM OneVotePerTerm == Spec => []OneGrantPerTerm
  <1>1. VotingInv => OneGrantPerTerm
    BY DEF VotingInv
  <1> QED BY <1>1, VotingInit, VotingNext, PTL DEF Spec

-----------------------------------------------------------------------------
(* No value is logged twice.                                               *)

\* Somewhere in q, and nowhere twice, there is a member of S.
Holds(q, S) == \E i \in DOMAIN q : q[i] \in S
HoldsOnce(q, S) == \A i, j \in DOMAIN q : q[i] \in S /\ q[j] \in S => i = j

\* What asks for v: entries of clients' queues, and forwarded requests.
Asking(v) == {e \in Entry : e.entry = v}
Requests(v) == {m \in Message : m.type = "ClientRequest" /\ m.entries.entry = v}

\* An append entries that puts v at i; sequences count from 1.
Appends(v, i) ==
    {m \in Message : m.type = "AppendEntries" /\ m.entries.entry = v /\ m.prev_log_index + 2 = i}

Queued(n, v) == Holds(node[n].client_queue, Asking(v))
Sent(a, b, v) == Holds(chan[a][b], Requests(v))

\* Where v is, or may yet be, in a log.
Places(v) ==
    {i \in Nat : \/ \E n \in Node : i \in DOMAIN node[n].log /\ node[n].log[i].entry = v
                 \/ \E a, b \in Node : Holds(chan[a][b], Appends(v, i))}

\* v waits with one client, in one queue or in one message, or it has one place.
OnceInv(v) ==
    /\ \A n \in Node : HoldsOnce(node[n].client_queue, Asking(v))
    /\ \A a, b \in Node : HoldsOnce(chan[a][b], Requests(v))
    /\ \A n, p \in Node : Queued(n, v) /\ Queued(p, v) => n = p
    /\ \A a, b, c, d \in Node : Sent(a, b, v) /\ Sent(c, d, v) => a = c /\ b = d
    /\ \A n, a, b \in Node : ~ (Queued(n, v) /\ Sent(a, b, v))
    /\ \A i, j \in Places(v) : i = j
    /\ Places(v) # {} =>
          v \notin unsent /\ \A a, b \in Node : ~ Queued(a, v) /\ ~ Sent(a, b, v)
    /\ v \in unsent => \A a, b \in Node : ~ Queued(a, v) /\ ~ Sent(a, b, v)

\* The values that are clients' alone.
ClientValue == Value \ {"Init Entry", "Leader Entry"}

LoggedOnceInv == RaftInv /\ \A v \in ClientValue : OnceInv(v)

\* Messages that ask for no v and append it at indices of I only.
Lawful(v, I) ==
    {m \in Message : /\ m \notin Requests(v)
                     /\ m.type = "AppendEntries" /\ m.entries.entry = v => m.prev_log_index + 2 \in I}

\* A log in which v is at indices of I only.
LogsIn(self, v, I) == \A i \in DOMAIN self.log : self.log[i].entry = v => i \in I

\* The first of a sequence and the rest of it.
LEMMA HeldTail ==
    ASSUME NEW T, NEW q \in Seq(T), q # <<>>, NEW S
    PROVE  /\ Tail(q) \in Seq(T) /\ Head(q) \in T
           /\ Head(q) \in S => Holds(q, S)
           /\ Holds(Tail(q), S) => Holds(q, S)
           /\ HoldsOnce(q, S) => HoldsOnce(Tail(q), S)
           /\ HoldsOnce(q, S) /\ Head(q) \in S => ~ Holds(Tail(q), S)
  <1>1. /\ Len(q) \in Nat /\ DOMAIN q = 1 .. Len(q) /\ Tail(q) \in Seq(T) /\ Head(q) \in T
        /\ Len(Tail(q)) = Len(q) - 1 /\ DOMAIN Tail(q) = 1 .. Len(Tail(q)) /\ Len(q) # 0
        /\ Head(q) = q[1]
    BY HeadTailProperties, LenProperties, EmptySeq
  <1>2. \A i \in DOMAIN Tail(q) : Tail(q)[i] = q[i + 1]
    BY <1>1, HeadTailProperties
  <1>3. PICK rest : rest = Tail(q)
    OBVIOUS
  <1>4. /\ 1 \in DOMAIN q
        /\ \A i \in DOMAIN rest : i + 1 \in DOMAIN q /\ rest[i] = q[i + 1] /\ i + 1 # 1
        /\ \A i, j \in DOMAIN rest : i + 1 = j + 1 => i = j
    BY <1>1, <1>2, <1>3
  <1>5. Head(q) \in S => Holds(q, S)
    BY <1>1, <1>4, Zenon DEF Holds
  <1>6. Holds(rest, S) => Holds(q, S)
    BY <1>4, Zenon DEF Holds
  <1>7. HoldsOnce(q, S) => HoldsOnce(rest, S)
    BY <1>4, Zenon DEF HoldsOnce
  <1>8. HoldsOnce(q, S) /\ Head(q) \in S => ~ Holds(rest, S)
    BY <1>1, <1>4, Zenon DEF Holds, HoldsOnce
  <1> QED BY <1>1, <1>3, <1>5, <1>6, <1>7, <1>8, Zenon

\* A sequence and what is added at its end.
LEMMA HeldAdded ==
    ASSUME NEW T, NEW q \in Seq(T), NEW m \in T, NEW S, NEW new,
           new = q \o <<m>> \/ new = Append(q, m)
    PROVE  /\ new \in Seq(T)
           /\ Holds(new, S) => Holds(q, S) \/ m \in S
           /\ HoldsOnce(q, S) /\ m \notin S => HoldsOnce(new, S)
           /\ HoldsOnce(q, S) /\ ~ Holds(q, S) => HoldsOnce(new, S)
  <1>1. q \o <<m>> = Append(q, m)
    BY AppendIsConcat
  <1>2. /\ Len(q) \in Nat /\ DOMAIN q = 1 .. Len(q) /\ new \in Seq(T)
        /\ Len(new) = Len(q) + 1 /\ DOMAIN new = 1 .. Len(new)
        /\ new[Len(q) + 1] = m /\ \A i \in 1 .. Len(q) : new[i] = q[i]
    BY <1>1, AppendProperties, LenProperties
  <1>3. \A i \in DOMAIN new :
           (i \in DOMAIN q /\ new[i] = q[i]) \/ (i = Len(q) + 1 /\ new[i] = m)
    BY <1>2
  <1>4. Holds(new, S) => Holds(q, S) \/ m \in S
    BY <1>3, Zenon DEF Holds
  <1>5. HoldsOnce(q, S) /\ m \notin S => HoldsOnce(new, S)
    BY <1>3, Zenon DEF HoldsOnce
  <1>6. HoldsOnce(q, S) /\ ~ Holds(q, S) => HoldsOnce(new, S)
    BY <1>3, Zenon DEF Holds, HoldsOnce
  <1> QED BY <1>2, <1>4, <1>5, <1>6

\* A channel that passes messages on and gets none of S holds no more of them.
LEMMA HeldPassed ==
    ASSUME NEW T, NEW S, NEW L, L \cap S = {}, NEW old, NEW new \in Seq(T), Passed(L, new, old)
    PROVE  /\ Holds(new, S) => Holds(old, S)
           /\ HoldsOnce(old, S) => HoldsOnce(new, S)
  <1>1. PICK k \in {0, 1} : \A i \in DOMAIN new :
            new[i] \in L \/ (i + k \in DOMAIN old /\ new[i] = old[i + k])
    BY DEF Passed
  <1>2. \A i \in DOMAIN new : new[i] \in S => i + k \in DOMAIN old /\ new[i] = old[i + k]
    BY <1>1
  <1>3. Holds(new, S) => Holds(old, S)
    BY <1>2, Zenon DEF Holds
  <1>4. ASSUME HoldsOnce(old, S)
        PROVE  HoldsOnce(new, S)
    <2>1. SUFFICES ASSUME NEW i \in DOMAIN new, NEW j \in DOMAIN new, new[i] \in S, new[j] \in S
                   PROVE  i = j
      BY Zenon DEF HoldsOnce
    <2>2. i + k = j + k
      BY <1>2, <1>4, <2>1, Zenon DEF HoldsOnce
    <2>3. i \in Nat /\ j \in Nat
      BY <2>1, LenProperties
    <2> QED BY <2>2, <2>3
  <1> QED BY <1>3, <1>4
-----------------------------------------------------------------------------
(* What a step does to the places of a value.                              *)

\* Values that clients ask for are not those of the system's own entries.
LEMMA LawfulMessages ==
    ASSUME NEW v, NEW I
    PROVE  /\ Lawful(v, I) \subseteq Message
           /\ Lawful(v, I) \cap Requests(v) = {}
           /\ \A i : i \notin I => Lawful(v, I) \cap Appends(v, i) = {}
           /\ \A m \in Message : m.type \notin {"ClientRequest", "AppendEntries"} => m \in Lawful(v, I)
  BY DEF Lawful, Requests, Appends

\* Nothing new: every queue is kept or loses its head, and logs and messages
\* hold v only where it has its place.
LEMMA NothingNew ==
    ASSUME RaftInv, RaftInv', NEW v, OnceInv(v), unsent' \subseteq unsent,
           \A p \in Node : \/ node'[p].client_queue = node[p].client_queue
                           \/ /\ node[p].client_queue # <<>>
                              /\ node'[p].client_queue = Tail(node[p].client_queue),
           \A p \in Node : LogsIn(node'[p], v, Places(v)),
           \A a, b \in Node : Passed(Lawful(v, Places(v)), chan'[a][b], chan[a][b])
    PROVE  OnceInv(v)'
  <1>1. ASSUME NEW p \in Node
        PROVE  /\ Queued(p, v)' => Queued(p, v)
               /\ HoldsOnce(node'[p].client_queue, Asking(v))
    <2>1. node[p].client_queue \in Seq(Entry)
      BY DEF RaftInv, TypeOK, NodeState
    <2>2. HoldsOnce(node[p].client_queue, Asking(v))
      BY DEF OnceInv
    <2>3. CASE node'[p].client_queue = node[p].client_queue
      BY <2>2, <2>3, Zenon DEF Queued
    <2>4. CASE /\ node[p].client_queue # <<>>
               /\ node'[p].client_queue = Tail(node[p].client_queue)
      <3>1. /\ HoldsOnce(Tail(node[p].client_queue), Asking(v))
            /\ Holds(Tail(node[p].client_queue), Asking(v)) =>
                  Holds(node[p].client_queue, Asking(v))
        BY <2>1, <2>2, <2>4, HeldTail, ZenonT(30)
      <3> QED BY <2>4, <3>1, Zenon DEF Queued
    <2> QED BY <2>3, <2>4
  <1>2. ASSUME NEW a \in Node, NEW b \in Node
        PROVE  /\ Sent(a, b, v)' => Sent(a, b, v)
               /\ HoldsOnce(chan'[a][b], Requests(v))
               /\ \A i : Holds(chan'[a][b], Appends(v, i)) =>
                            i \in Places(v) \/ Holds(chan[a][b], Appends(v, i))
    <2>1. chan'[a][b] \in Seq(Message)
      BY DEF RaftInv, TypeOK
    <2>2. HoldsOnce(chan[a][b], Requests(v))
      BY DEF OnceInv
    <2>3. Lawful(v, Places(v)) \cap Requests(v) = {}
      BY LawfulMessages
    <2>4. \A i : i \notin Places(v) => Lawful(v, Places(v)) \cap Appends(v, i) = {}
      BY LawfulMessages
    <2>5. Passed(Lawful(v, Places(v)), chan'[a][b], chan[a][b])
      OBVIOUS
    <2>6. /\ Holds(chan'[a][b], Requests(v)) => Holds(chan[a][b], Requests(v))
          /\ HoldsOnce(chan'[a][b], Requests(v))
      BY <2>1, <2>2, <2>3, <2>5, HeldPassed, Zenon
    <2>7. ASSUME NEW i, i \notin Places(v), Holds(chan'[a][b], Appends(v, i))
          PROVE  Holds(chan[a][b], Appends(v, i))
      BY <2>1, <2>4, <2>5, <2>7, HeldPassed, Zenon
    <2> QED BY <2>6, <2>7, Zenon DEF Sent
  <1>3. Places(v)' \subseteq Places(v)
    <2>1. ASSUME NEW i \in Places(v)'
          PROVE  i \in Places(v)
      <3>1. CASE \E p \in Node : i \in DOMAIN node'[p].log /\ node'[p].log[i].entry = v
        BY <3>1, Zenon DEF LogsIn
      <3>2. CASE \E a, b \in Node : Holds(chan'[a][b], Appends(v, i))
        <4>1. i \in Nat
          BY <2>1 DEF Places
        <4> QED BY <1>2, <3>2, <4>1 DEF Places
      <3> QED BY <2>1, <3>1, <3>2 DEF Places
    <2> QED BY <2>1
  <1> HIDE DEF Places, Queued, Sent
  <1> QED BY <1>1, <1>2, <1>3 DEF OnceInv

\* v has come to its place: nobody asks for it any more, and it is at k alone.
LEMMA PlaceFound ==
    ASSUME RaftInv', NEW v, NEW k, Places(v) = {},
           v \notin unsent', \A a, b \in Node : ~ Queued(a, v)' /\ ~ Sent(a, b, v)',
           \A p \in Node : LogsIn(node'[p], v, {k}),
           \A a, b \in Node : Passed(Lawful(v, {k}), chan'[a][b], chan[a][b])
    PROVE  OnceInv(v)'
  <1>1. \A p \in Node : HoldsOnce(node'[p].client_queue, Asking(v))
    BY Zenon DEF Queued, Holds, HoldsOnce
  <1>2. \A a, b \in Node : HoldsOnce(chan'[a][b], Requests(v))
    BY Zenon DEF Sent, Holds, HoldsOnce
  <1>3. Places(v)' \subseteq {k}
    <2>1. ASSUME NEW i \in Places(v)', i # k
          PROVE  FALSE
      <3>1. CASE \E p \in Node : i \in DOMAIN node'[p].log /\ node'[p].log[i].entry = v
        BY <2>1, <3>1, Zenon DEF LogsIn
      <3>2. ASSUME NEW a \in Node, NEW b \in Node, Holds(chan'[a][b], Appends(v, i))
            PROVE  FALSE
        <4>1. chan'[a][b] \in Seq(Message) /\ i \in Nat
          BY <2>1 DEF RaftInv, TypeOK, Places
        <4>2. Lawful(v, {k}) \cap Appends(v, i) = {}
          BY <2>1, LawfulMessages
        <4>3. Passed(Lawful(v, {k}), chan'[a][b], chan[a][b])
          OBVIOUS
        <4>4. Holds(chan[a][b], Appends(v, i))
          BY <3>2, <4>1, <4>2, <4>3, HeldPassed, Zenon
        <4> QED BY <4>1, <4>4 DEF Places
      <3> QED BY <2>1, <3>1, <3>2 DEF Places
    <2> QED BY <2>1
  <1> HIDE DEF Places, Queued, Sent
  <1> QED BY <1>1, <1>2, <1>3 DEF OnceInv

\* n serves its clients: their first request leaves the queue.
Serves(n, self) ==
    /\ node[n].client_queue # <<>>
    /\ self.client_queue = Tail(node[n].client_queue)

\* The first message from s to n, a request for v, is among those that are gone.
Handed(n, s, v, I) ==
    /\ chan[s][n] # <<>> /\ Head(chan[s][n]) \in Requests(v)
    /\ Passed(Lawful(v, I), chan'[s][n], Tail(chan[s][n]))

\* I is where v has its place, or the one it gets now from the queue of n or from
\* a request that reaches n.
Settles(n, self, v, I) ==
    \/ I = Places(v)
    \/ \E k : /\ I = {k}
              /\ \/ Serves(n, self) /\ Head(node[n].client_queue).entry = v
                 \/ \E s \in Node : Handed(n, s, v, I)

\* The new state of one node.
LEMMA QueueChanged ==
    ASSUME RaftInv, NEW n \in Node, NEW self, Logged(self),
           node' = [node EXCEPT ![n] = CheckRole(self)]
    PROVE  /\ \A p \in Node : p # n => node'[p] = node[p]
           /\ node'[n].client_queue = self.client_queue /\ node'[n].log = self.log
  <1>1. PICK new : new = CheckRole(self)
    OBVIOUS
  <1>2. \A p \in Node : node'[p] = IF p = n THEN new ELSE node[p]
    BY <1>1 DEF RaftInv, TypeOK
  <1>3. new.client_queue = self.client_queue /\ new.log = self.log
    BY <1>1 DEF CheckRole, Logged, NodeState
  <1> QED BY <1>2, <1>3

\* Every log has v where it has its place.
LEMMA PlacesHold ==
    ASSUME RaftInv, NEW v, NEW p \in Node
    PROVE  LogsIn(node[p], v, Places(v))
  <1>1. node[p].log \in Seq(Entry)
    BY DEF RaftInv, TypeOK, NodeState
  <1>2. \A i \in DOMAIN node[p].log : i \in Nat
    BY <1>1, LenProperties
  <1> QED BY <1>2 DEF LogsIn, Places

\* A step of one node keeps a value where it is, or brings it to its place.
LEMMA ValueMoved ==
    ASSUME RaftInv, RaftInv', NEW v, OnceInv(v), unsent' = unsent,
           NEW n \in Node, NEW self, Logged(self),
           node' = [node EXCEPT ![n] = CheckRole(self)],
           self.client_queue = node[n].client_queue \/ Serves(n, self),
           NEW I, Settles(n, self, v, I), LogsIn(self, v, I),
           \A a, b \in Node : Passed(Lawful(v, I), chan'[a][b], chan[a][b])
    PROVE  OnceInv(v)'
  <1>1. /\ \A p \in Node : p # n => node'[p] = node[p]
        /\ node'[n].client_queue = self.client_queue /\ node'[n].log = self.log
    BY QueueChanged
  <1>2. LogsIn(node'[n], v, I)
    BY <1>1 DEF LogsIn
  <1>3. CASE I = Places(v)
    <2>1. \A p \in Node : LogsIn(node'[p], v, Places(v))
      BY <1>1, <1>2, <1>3, PlacesHold, Zenon
    <2>2. \A p \in Node : \/ node'[p].client_queue = node[p].client_queue
                          \/ /\ node[p].client_queue # <<>>
                             /\ node'[p].client_queue = Tail(node[p].client_queue)
      BY <1>1, Zenon DEF Serves
    <2>3. \A a, b \in Node : Passed(Lawful(v, Places(v)), chan'[a][b], chan[a][b])
      BY <1>3
    <2> QED BY <2>1, <2>2, <2>3, NothingNew
  <1>4. ASSUME NEW k, I = {k},
               \/ Serves(n, self) /\ Head(node[n].client_queue).entry = v
               \/ \E s \in Node : Handed(n, s, v, I)
        PROVE  OnceInv(v)'
    <2>1. node[n].client_queue \in Seq(Entry)
      BY DEF RaftInv, TypeOK, NodeState
    <2>2. ASSUME NEW a \in Node, NEW b \in Node
          PROVE  /\ chan[a][b] \in Seq(Message) /\ chan'[a][b] \in Seq(Message)
                 /\ Sent(a, b, v)' => Sent(a, b, v)
      <3>1. chan[a][b] \in Seq(Message) /\ chan'[a][b] \in Seq(Message)
        BY DEF RaftInv, TypeOK
      <3>2. Lawful(v, I) \cap Requests(v) = {}
        BY LawfulMessages
      <3>3. Passed(Lawful(v, I), chan'[a][b], chan[a][b])
        OBVIOUS
      <3> QED BY <3>1, <3>2, <3>3, HeldPassed, Zenon DEF Sent
    <2>3. CASE Serves(n, self) /\ Head(node[n].client_queue).entry = v
      <3>1. Head(node[n].client_queue) \in Asking(v)
        BY <2>1, <2>3, HeldTail DEF Serves, Asking
      <3>2. HoldsOnce(node[n].client_queue, Asking(v))
        BY DEF OnceInv
      <3>3. Queued(n, v) /\ ~ Holds(self.client_queue, Asking(v))
        <4>1. node[n].client_queue # <<>> /\ self.client_queue = Tail(node[n].client_queue)
          BY <2>3 DEF Serves
        <4>2. /\ Holds(node[n].client_queue, Asking(v))
              /\ ~ Holds(Tail(node[n].client_queue), Asking(v))
          BY <2>1, <3>1, <3>2, <4>1, HeldTail, ZenonT(30)
        <4> QED BY <4>1, <4>2, Zenon DEF Queued
      <3>4. /\ Places(v) = {} /\ v \notin unsent
            /\ \A p \in Node : Queued(p, v) => p = n
            /\ \A a, b \in Node : ~ Sent(a, b, v)
        BY <3>3 DEF OnceInv
      <3>5. \A a, b \in Node : ~ Queued(a, v)' /\ ~ Sent(a, b, v)'
        BY <1>1, <2>2, <3>3, <3>4, Zenon DEF Queued
      <3>6. \A p \in Node : LogsIn(node'[p], v, {k})
        BY <1>1, <1>2, <1>4, <3>4, PlacesHold DEF LogsIn
      <3> QED BY <1>4, <3>4, <3>5, <3>6, PlaceFound
    <2>4. ASSUME NEW s \in Node, Handed(n, s, v, I)
          PROVE  OnceInv(v)'
      <3>1. HoldsOnce(chan[s][n], Requests(v)) /\ chan[s][n] \in Seq(Message)
        BY DEF OnceInv, RaftInv, TypeOK
      <3>2. Sent(s, n, v) /\ ~ Holds(Tail(chan[s][n]), Requests(v))
        BY <2>4, <3>1, HeldTail, Zenon DEF Sent, Handed
      <3>3. ~ Sent(s, n, v)'
        <4>1. Lawful(v, I) \cap Requests(v) = {} /\ chan'[s][n] \in Seq(Message)
          BY <2>2, LawfulMessages
        <4>2. Passed(Lawful(v, I), chan'[s][n], Tail(chan[s][n]))
          BY <2>4 DEF Handed
        <4> QED BY <3>2, <4>1, <4>2, HeldPassed, Zenon DEF Sent
      <3>4. /\ Places(v) = {} /\ v \notin unsent
            /\ \A p \in Node : ~ Queued(p, v)
            /\ \A a, b \in Node : Sent(a, b, v) => a = s /\ b = n
        BY <3>2 DEF OnceInv
      <3>5. \A p \in Node : ~ Queued(p, v)'
        <4>1. self.client_queue = node[n].client_queue
                 \/ (node[n].client_queue # <<>> /\ self.client_queue = Tail(node[n].client_queue))
          BY DEF Serves
        <4>2. ~ Holds(node[n].client_queue, Asking(v))
          BY <3>4 DEF Queued
        <4>3. node[n].client_queue # <<>> => ~ Holds(Tail(node[n].client_queue), Asking(v))
          BY <2>1, <4>2, HeldTail, ZenonT(30)
        <4>4. ~ Holds(self.client_queue, Asking(v))
          BY <4>1, <4>2, <4>3
        <4> QED BY <1>1, <3>4, <4>4, Zenon DEF Queued
      <3>6. \A a, b \in Node : ~ Queued(a, v)' /\ ~ Sent(a, b, v)'
        BY <2>2, <3>3, <3>4, <3>5, Zenon
      <3>7. \A p \in Node : LogsIn(node'[p], v, {k})
        BY <1>1, <1>2, <1>4, <3>4, PlacesHold DEF LogsIn
      <3> QED BY <1>4, <3>4, <3>6, <3>7, PlaceFound
    <2> QED BY <1>4, <2>3, <2>4
  <1> QED BY <1>3, <1>4, Zenon DEF Settles

\* What a handler does to the channels, if it sends only messages of L.
LEMMA HandlePasses ==
    ASSUME RaftInv, NEW n \in Node, NEW s \in Node, NEW type, Gets(n, s, type),
           NEW L \in SUBSET Message, NEW self, NEW out \in Sending(L), Handle(n, s, self, out)
    PROVE  /\ \A a, b \in Node : Passed(L, chan'[a][b], chan[a][b])
           /\ Passed(L, chan'[s][n], Tail(chan[s][n]))
  <1>1. ASSUME NEW a \in Node, NEW b \in Node
        PROVE  Passed(L, chan'[a][b], chan[a][b])
    <2>1. PICK more \in Seq(L) : more = IF a = n THEN out[b] ELSE <<>>
      BY EmptySeq DEF Sending
    <2>2. PICK left \in Seq(Message) :
             /\ chan[a][b] \in Seq(Message)
             /\ left = chan[a][b] \/ (chan[a][b] # <<>> /\ left = Tail(chan[a][b]))
             /\ chan'[a][b] = left \o (IF a = n THEN out[b] ELSE <<>>)
      <3>1. Moved(n, s, out, a, b)
        BY HandledChannel
      <3> QED BY <3>1, Zenon DEF Moved
    <2> QED BY <2>1, <2>2, PassedConcat
  <1>2. Passed(L, chan'[s][n], Tail(chan[s][n]))
    <2>1. PICK rest \in Seq(Message) : rest = Tail(chan[s][n])
      BY GetsMessage DEF RaftInv
    <2>2. PICK more \in Seq(L) : more = IF s = n THEN out[n] ELSE <<>>
      BY EmptySeq DEF Sending
    <2>3. chan'[s][n] = rest \o more
      BY <2>1, <2>2 DEF Handle
    <2> QED BY <2>1, <2>2, <2>3, PassedConcat
  <1> QED BY <1>1, <1>2

\* The same of a step that handles no message.
LEMMA ActPasses ==
    ASSUME RaftInv, NEW n \in Node,
           NEW L \in SUBSET Message, NEW self, NEW out \in Sending(L), Act(n, self, out)
    PROVE  \A a, b \in Node : Passed(L, chan'[a][b], chan[a][b])
  <1>1. SUFFICES ASSUME NEW a \in Node, NEW b \in Node
                 PROVE  Passed(L, chan'[a][b], chan[a][b])
    OBVIOUS
  <1>2. PICK old \in Seq(Message) : old = chan[a][b]
    BY DEF RaftInv, TypeOK
  <1>3. CASE a = n
    <2>1. out[b] \in Seq(L)
      BY DEF Sending
    <2>2. chan'[a][b] = old \o out[b]
      BY <1>2, <1>3 DEF Act, RaftInv, TypeOK
    <2> QED BY <1>2, <2>1, <2>2, PassedConcat
  <1>4. CASE a # n
    BY <1>2, <1>4, PassedSame DEF Act, RaftInv, TypeOK
  <1> QED BY <1>3, <1>4

\* A handler keeps a value where it is, or brings it to its place.
LEMMA HandlePlaces ==
    ASSUME RaftInv, RaftInv', NEW v, OnceInv(v),
           NEW n \in Node, NEW s \in Node, NEW type, Gets(n, s, type),
           NEW self, Logged(self), self.client_queue = node[n].client_queue \/ Serves(n, self),
           NEW I, LogsIn(self, v, I), NEW out \in Sending(Lawful(v, I)), Handle(n, s, self, out),
           \/ I = Places(v)
           \/ \E k : /\ I = {k}
                     /\ \/ Serves(n, self) /\ Head(node[n].client_queue).entry = v
                        \/ Head(chan[s][n]) \in Requests(v)
    PROVE  OnceInv(v)'
  <1>1. Lawful(v, I) \in SUBSET Message
    BY LawfulMessages
  <1>2. /\ \A a, b \in Node : Passed(Lawful(v, I), chan'[a][b], chan[a][b])
        /\ Passed(Lawful(v, I), chan'[s][n], Tail(chan[s][n]))
    BY <1>1, HandlePasses
  <1>3. Head(chan[s][n]) \in Requests(v) => Handed(n, s, v, I)
    BY <1>2 DEF Handed, Gets
  <1>4. Settles(n, self, v, I)
    BY <1>3, Zenon DEF Settles
  <1>5. unsent' = unsent /\ node' = [node EXCEPT ![n] = CheckRole(self)]
    BY DEF Handle
  <1> QED BY <1>2, <1>4, <1>5, ValueMoved

\* So does a step that handles no message.
LEMMA ActPlaces ==
    ASSUME RaftInv, RaftInv', NEW v, OnceInv(v), NEW n \in Node,
           NEW self, Logged(self), self.client_queue = node[n].client_queue \/ Serves(n, self),
           NEW I, LogsIn(self, v, I), NEW out \in Sending(Lawful(v, I)), Act(n, self, out),
           \/ I = Places(v)
           \/ \E k : I = {k} /\ Serves(n, self) /\ Head(node[n].client_queue).entry = v
    PROVE  OnceInv(v)'
  <1>1. Lawful(v, I) \in SUBSET Message
    BY LawfulMessages
  <1>2. \A a, b \in Node : Passed(Lawful(v, I), chan'[a][b], chan[a][b])
    BY <1>1, ActPasses
  <1>3. Settles(n, self, v, I)
    BY Zenon DEF Settles
  <1>4. unsent' = unsent /\ node' = [node EXCEPT ![n] = CheckRole(self)]
    BY DEF Act
  <1> QED BY <1>2, <1>3, <1>4, ValueMoved

\* What a node that appends nothing may send.
LEMMA LawfulTypes ==
    ASSUME NEW self, Logged(self), NEW v, NEW I
    PROVE  /\ Heartbeat(self) \in Lawful(v, I) /\ RequestVotes(self) \in Lawful(v, I)
           /\ Committal(self) \in Lawful(v, I)
           /\ \A g \in BOOLEAN : Vote(g) \in Lawful(v, I) /\ Acknowledge(g) \in Lawful(v, I)
  <1>1. /\ Heartbeat(self) \in Message /\ RequestVotes(self) \in Message
        /\ Committal(self) \in Message
        /\ \A g \in BOOLEAN : Acknowledge(g) \in Message
    BY MessageTypes DEF PlainMessage
  <1>2. \A g \in BOOLEAN : Vote(g) \in Message
    BY DEF Vote, Message
  <1>3. /\ Heartbeat(self).type = "Heartbeat" /\ RequestVotes(self).type = "RequestVotes"
        /\ Committal(self).type = "Committal"
        /\ \A g : Acknowledge(g).type = "Acknowledge" /\ Vote(g).type = "Vote"
    BY DEF Heartbeat, RequestVotes, Committal, Acknowledge, Vote
  <1> QED BY <1>1, <1>2, <1>3, LawfulMessages

\* An append entries sends what follows the entry it names.
LEMMA LawfulAppend ==
    ASSUME NEW self, Logged(self), NEW index \in Nat, NEW term \in Nat, NEW entry \in Entry,
           NEW v, NEW I, entry.entry = v => index + 2 \in I
    PROVE  AppendEntries(self, index, term, entry) \in Lawful(v, I)
  <1>1. AppendEntries(self, index, term, entry) \in Message
    BY MessageTypes DEF PlainMessage
  <1> QED BY <1>1 DEF AppendEntries, Lawful, Requests

\* A resend carries an entry from the place it has in the log.
LEMMA LawfulResend ==
    ASSUME NEW self, Logged(self), NEW index \in 1 .. log_max_index(self),
           NEW v, NEW I, LogsIn(self, v, I)
    PROVE  Resend(self, index) \in Lawful(v, I)
  <1>1. PICK i \in 0 .. log_max_index(self) : i = index - 1
    BY LogSize
  <1>2. /\ index \in 0 .. log_max_index(self) /\ index + 1 \in 1 .. Len(self.log)
        /\ i \in Nat /\ i + 2 = index + 1
    BY <1>1, LogSize
  <1>3. At(self, i).term \in Nat /\ At(self, index) \in Entry
    BY <1>1, <1>2, EntryAt
  <1>4. self.log \in Seq(Entry) /\ DOMAIN self.log = 1 .. Len(self.log)
    BY LenProperties DEF Logged, NodeState
  <1>5. At(self, index).entry = v => i + 2 \in I
    BY <1>2, <1>4 DEF At, LogsIn
  <1> QED BY <1>1, <1>2, <1>3, <1>5, LawfulAppend DEF Resend

\* A leader appends an entry, and sends it to where it has appended it.
LEMMA BroadcastPlaces ==
    ASSUME NEW self, Logged(self), NEW n \in Node, NEW entry \in Entry, NEW v, NEW I,
           LogsIn(self, v, I), entry.entry = v => Len(self.log) + 1 \in I,
           NEW new, new = broadcast_append_entries(self, n, entry)
    PROVE  /\ Logged(new) /\ LogsIn(new, v, I) /\ new.client_queue = self.client_queue
           /\ Len(new.log) = Len(self.log) + 1
           /\ broadcast_append_messages(self, entry) \in Sending(Lawful(v, I))
  <1>1. /\ new.log = Append(self.log, entry) /\ Logged(new)
        /\ new.client_queue = self.client_queue
    BY BroadcastChanges
  <1>2. /\ self.log \in Seq(Entry) /\ DOMAIN self.log = 1 .. Len(self.log)
        /\ Len(self.log) = log_max_index(self) + 1 /\ log_max_index(self) \in Nat
    BY LogSize, LenProperties DEF Logged, NodeState
  <1>3. /\ new.log \in Seq(Entry) /\ Len(new.log) = Len(self.log) + 1
        /\ new.log[Len(self.log) + 1] = entry
        /\ \A i \in 1 .. Len(self.log) : new.log[i] = self.log[i]
    BY <1>1, <1>2, LongerLog
  <1>4. LogsIn(new, v, I)
    <2>1. DOMAIN new.log = 1 .. Len(self.log) + 1
      BY <1>3, LenProperties
    <2>2. \A i \in DOMAIN new.log : i \in DOMAIN self.log \/ i = Len(self.log) + 1
      BY <1>2, <2>1
    <2>3. \A i \in DOMAIN self.log : new.log[i] = self.log[i]
      BY <1>2, <1>3
    <2> QED BY <1>3, <2>2, <2>3, Zenon DEF LogsIn
  <1>5. broadcast_append_messages(self, entry) \in Sending(Lawful(v, I))
    <2>1. PICK i \in Nat : i = log_max_index(self) /\ i + 2 = Len(self.log) + 1
      BY <1>2
    <2>2. At(self, i).term \in Nat
      BY <1>2, <2>1, EntryAt
    <2>3. PICK m \in Lawful(v, I) : m = AppendEntries(self, i, At(self, i).term, entry)
      BY <2>1, <2>2, LawfulAppend
    <2>4. <<m>> \in Seq(Lawful(v, I)) /\ <<>> \in Seq(Lawful(v, I))
      OBVIOUS
    <2> QED BY <2>1, <2>3, <2>4 DEF broadcast_append_messages, Sending
  <1> QED BY <1>1, <1>3, <1>4, <1>5

\* The first request of q is for v.
Asks(q, v) == q # <<>> /\ Head(q).entry = v

\* A leader that serves its clients appends their first request.
LEMMA ServePlaces ==
    ASSUME NEW self, Logged(self), NEW n \in Node, NEW v, NEW I,
           LogsIn(self, v, I), Asks(self.client_queue, v) => Len(self.log) + 1 \in I,
           NEW new, new = serve_client(self, n)
    PROVE  /\ Logged(new) /\ LogsIn(new, v, I)
           /\ new.client_queue = IF self.client_queue = <<>> THEN self.client_queue
                                 ELSE Tail(self.client_queue)
           /\ serve_client_messages(self) \in Sending(Lawful(v, I))
  <1>1. CASE self.client_queue = <<>>
    BY <1>1, SendingType DEF serve_client, serve_client_messages
  <1>2. CASE self.client_queue # <<>>
    <2>1. PICK entry \in Entry : entry = Head(self.client_queue)
      BY <1>2, HeadTailProperties DEF Logged, NodeState
    <2>2. PICK rest \in Seq(Entry) : rest = Tail(self.client_queue)
      BY <1>2, HeadTailProperties DEF Logged, NodeState
    <2>3. PICK served : served = [self EXCEPT !.client_queue = rest]
      OBVIOUS
    <2>4. Logged(served) /\ served.log = self.log /\ served.client_queue = rest
      BY <2>3 DEF Logged, NodeState
    <2>5. new = broadcast_append_entries(served, n, entry)
      BY <1>2, <2>1, <2>2, <2>3 DEF serve_client
    <2>6. entry.entry = v => Len(self.log) + 1 \in I
      BY <1>2, <2>1 DEF Asks
    <2>7. LogsIn(served, v, I)
      BY <2>4 DEF LogsIn
    <2>8. Logged(new) /\ LogsIn(new, v, I) /\ new.client_queue = rest
      BY <2>4, <2>5, <2>6, <2>7, BroadcastPlaces
    <2>9. serve_client_messages(self) = broadcast_append_messages(self, entry)
      BY <1>2, <2>1 DEF serve_client_messages
    <2>10. broadcast_append_messages(self, entry) \in Sending(Lawful(v, I))
      BY <2>6, BroadcastPlaces
    <2> QED BY <1>2, <2>2, <2>8, <2>9, <2>10
  <1> QED BY <1>1, <1>2

\* A step that leaves log and queue alone, and sends nothing with v in it.
LEMMA StillHandled ==
    ASSUME RaftInv, RaftInv', NEW v, OnceInv(v),
           NEW n \in Node, NEW s \in Node, NEW type, Gets(n, s, type),
           NEW self, Logged(self), self.log = node[n].log,
           self.client_queue = node[n].client_queue,
           NEW out \in Sending(Lawful(v, Places(v))), Handle(n, s, self, out)
    PROVE  OnceInv(v)'
  <1>1. LogsIn(self, v, Places(v))
    BY PlacesHold DEF LogsIn
  <1> QED BY <1>1, HandlePlaces

\* The same of a step that handles no message.
LEMMA StillActed ==
    ASSUME RaftInv, RaftInv', NEW v, OnceInv(v), NEW n \in Node,
           NEW self, Logged(self), self.log = node[n].log,
           self.client_queue = node[n].client_queue,
           NEW out \in Sending(Lawful(v, Places(v))), Act(n, self, out)
    PROVE  OnceInv(v)'
  <1>1. LogsIn(self, v, Places(v))
    BY PlacesHold DEF LogsIn
  <1> QED BY <1>1, ActPlaces

\* A follower's vote.
LEMMA VoterOnce ==
    ASSUME RaftInv, RaftInv', NEW v, OnceInv(v), NEW n \in Node, NEW s \in Node,
           FollowerRequestVotes(n, s)
    PROVE  OnceInv(v)'
  <1>1. Logged(node[n])
    BY DEF RaftInv, LogInv
  <1>2. PICK m \in Message : m = Head(chan[s][n]) /\ m.term \in Nat
    BY GetsMessage, MessageFields DEF FollowerRequestVotes, RaftInv
  <1>3. PICK self : self = adopt_term(node[n], m.term)
    OBVIOUS
  <1>4. PICK grant \in BOOLEAN : grant = (/\ self.voted_for = Nobody
                                          /\ m.last_log_index >= self.commit_index
                                          /\ m.last_log_term >= self.last_applied_term)
    OBVIOUS
  <1>5. Gets(n, s, "RequestVotes") /\ Handle(n, s, send_vote(self, s), SendTo(s, Vote(grant)))
    BY <1>2, <1>3, <1>4 DEF FollowerRequestVotes
  <1>6. /\ Logged(self) /\ self.log = node[n].log
        /\ self.client_queue = node[n].client_queue
    BY <1>1, <1>2, <1>3 DEF adopt_term, increment_term, Logged, NodeState
  <1>7. PICK voter : voter = send_vote(self, s)
    OBVIOUS
  <1>8. /\ Logged(voter) /\ voter.log = node[n].log
        /\ voter.client_queue = node[n].client_queue
    BY <1>6, <1>7 DEF send_vote, Logged, NodeState
  <1>9. SendTo(s, Vote(grant)) \in Sending(Lawful(v, Places(v)))
    BY <1>1, LawfulTypes, SendingType
  <1>10. Handle(n, s, voter, SendTo(s, Vote(grant)))
    BY <1>5, <1>7
  <1> QED BY <1>5, <1>8, <1>9, <1>10, StillHandled

\* A follower's commit.
LEMMA CommitterOnce ==
    ASSUME RaftInv, RaftInv', NEW v, OnceInv(v), NEW n \in Node, NEW s \in Node,
           FollowerCommittal(n, s)
    PROVE  OnceInv(v)'
  <1>1. Logged(node[n]) /\ Quiet \in Sending(Lawful(v, Places(v)))
    BY SendingType DEF RaftInv, LogInv
  <1>2. PICK m \in Message :
            m = Head(chan[s][n]) /\ m.prev_log_index \in Nat /\ m.prev_log_term \in Nat
    BY GetsMessage, MessageFields DEF FollowerCommittal, RaftInv
  <1>3. PICK self : self = commit_entry(node[n], m.prev_log_index, m.prev_log_term)
    OBVIOUS
  <1>4. /\ Logged(self) /\ self.log = node[n].log
        /\ self.client_queue = node[n].client_queue
    BY <1>1, <1>2, <1>3 DEF commit_entry, Logged, NodeState
  <1>5. Gets(n, s, "Committal") /\ Handle(n, s, self, Quiet)
    BY <1>2, <1>3 DEF FollowerCommittal
  <1> QED BY <1>1, <1>4, <1>5, StillHandled

\* A message that is taken and not acted on.
LEMMA IgnoredOnce ==
    ASSUME RaftInv, RaftInv', NEW v, OnceInv(v), NEW n \in Node, NEW s \in Node,
           FollowerIgnore(n, s) \/ CandidateIgnore(n, s)
    PROVE  OnceInv(v)'
  <1>1. Logged(node[n]) /\ Quiet \in Sending(Lawful(v, Places(v)))
    BY SendingType DEF RaftInv, LogInv
  <1>2. PICK type : Gets(n, s, type)
    BY DEF FollowerIgnore, CandidateIgnore
  <1>3. Handle(n, s, node[n], Quiet)
    BY DEF FollowerIgnore, CandidateIgnore
  <1> QED BY <1>1, <1>2, <1>3, StillHandled

\* A follower puts an entry where the message says.
LEMMA AppenderOnce ==
    ASSUME RaftInv, RaftInv', NEW v, OnceInv(v), NEW n \in Node, NEW s \in Node,
           FollowerAppendEntries(n, s)
    PROVE  OnceInv(v)'
  <1>1. Logged(node[n]) /\ LogsIn(node[n], v, Places(v))
    BY PlacesHold DEF RaftInv, LogInv
  <1>2. PICK m \in Message : m = Head(chan[s][n]) /\ m.type = "AppendEntries"
    BY GetsMessage DEF FollowerAppendEntries, RaftInv
  <1>3. m.prev_log_index \in Nat /\ m.entries \in Entry /\ m.leader_commit \in Nat
    BY <1>2, MessageFields
  <1>4. PICK ok \in BOOLEAN :
            ok = (/\ m.term >= node[n].current_term
                  /\ verify_entry(node[n], m.prev_log_index, m.prev_log_term))
    OBVIOUS
  <1>5. PICK commit \in BOOLEAN : commit = (m.leader_commit > node[n].commit_index)
    <2>1. (m.leader_commit > node[n].commit_index) \in BOOLEAN
      OBVIOUS
    <2> QED BY <2>1, Zenon
  <1>6. PICK new : new = append_entry(node[n], m.entries, commit, m.prev_log_index)
    OBVIOUS
  <1>7. PICK self : self = IF ok THEN new ELSE node[n]
    OBVIOUS
  <1>8. Gets(n, s, "AppendEntries") /\ Handle(n, s, self, SendTo(s, Acknowledge(ok)))
    BY <1>2, <1>4, <1>5, <1>6, <1>7 DEF FollowerAppendEntries
  <1>9. SendTo(s, Acknowledge(ok)) \in Sending(Lawful(v, Places(v)))
    BY <1>1, LawfulTypes, SendingType
  <1>10. CASE ok
    <2>1. m.prev_log_index < Len(node[n].log)
      BY <1>4, <1>10 DEF verify_entry
    <2>2. /\ Logged(new) /\ Len(new.log) = m.prev_log_index + 2
          /\ new.log[m.prev_log_index + 2] = m.entries
          /\ \A i \in 1 .. m.prev_log_index + 1 : new.log[i] = node[n].log[i]
          /\ new.client_queue = node[n].client_queue
      BY <1>1, <1>3, <1>6, <2>1, AppendChanges
    <2>3. m.entries.entry = v => m.prev_log_index + 2 \in Places(v)
      <3>1. PICK k \in Nat : k = m.prev_log_index + 2
        BY <1>3
      <3>2. chan[s][n] \in Seq(Message) /\ chan[s][n] # <<>>
        BY <1>8, GetsMessage DEF RaftInv
      <3>3. m.entries.entry = v => Head(chan[s][n]) \in Appends(v, k)
        BY <1>2, <3>1 DEF Appends
      <3>4. m.entries.entry = v => Holds(chan[s][n], Appends(v, k))
        BY <3>2, <3>3, HeldTail, ZenonT(30)
      <3> QED BY <3>1, <3>4 DEF Places
    <2>4. LogsIn(new, v, Places(v))
      <3>1. new.log \in Seq(Entry) /\ node[n].log \in Seq(Entry)
        BY <1>1, <2>2 DEF Logged, NodeState
      <3>2. \A i \in DOMAIN new.log :
               \/ i = m.prev_log_index + 2
               \/ i \in 1 .. m.prev_log_index + 1 /\ i \in DOMAIN node[n].log
        BY <1>3, <2>1, <2>2, <3>1, LenProperties
      <3> QED BY <1>1, <2>2, <2>3, <3>2, Zenon DEF LogsIn
    <2>5. self = new
      BY <1>7, <1>10
    <2> QED BY <1>8, <1>9, <2>2, <2>4, <2>5, HandlePlaces
  <1>11. CASE ~ ok
    BY <1>1, <1>7, <1>8, <1>9, <1>11, HandlePlaces
  <1> QED BY <1>10, <1>11

\* The beginning of an election.
LEMMA StarterOnce ==
    ASSUME RaftInv, RaftInv', NEW v, OnceInv(v), NEW n \in Node, BeginElection(n)
    PROVE  OnceInv(v)'
  <1>1. Logged(node[n])
    BY DEF RaftInv, LogInv
  <1>2. PICK term \in Nat : term = node[n].current_term + 1
    BY <1>1 DEF Logged, NodeState
  <1>3. PICK self : self = [set_current_role(send_vote(increment_term(node[n], term), n),
                                             "candidate") EXCEPT !.votes_for_me = 0]
    OBVIOUS
  <1>4. /\ Logged(self) /\ self.log = node[n].log
        /\ self.client_queue = node[n].client_queue
    BY <1>1, <1>2, <1>3
       DEF set_current_role, send_vote, increment_term, Logged, NodeState, Role
  <1>5. Act(n, self, Then(SendAll(RequestVotes(self)), SendTo(n, Vote(TRUE))))
    BY <1>2, <1>3 DEF BeginElection
  <1>6. Then(SendAll(RequestVotes(self)), SendTo(n, Vote(TRUE))) \in Sending(Lawful(v, Places(v)))
    BY <1>4, LawfulTypes, SendingType, ThenType
  <1> QED BY <1>4, <1>5, <1>6, StillActed

\* A candidate or a leader steps down.
LEMMA StepperOnce ==
    ASSUME RaftInv, RaftInv', NEW v, OnceInv(v), NEW n \in Node, NEW s \in Node,
           StepDown(n, s) \/ CandidateHeartbeat(n, s)
    PROVE  OnceInv(v)'
  <1>1. Logged(node[n]) /\ Quiet \in Sending(Lawful(v, Places(v)))
    BY SendingType DEF RaftInv, LogInv
  <1>2. CASE StepDown(n, s)
    <2>1. PICK m \in Message : m = Head(chan[s][n]) /\ m.term \in Nat
      BY <1>2, GetsMessage, MessageFields DEF StepDown, RaftInv
    <2>2. PICK self : self = set_current_role(send_vote(increment_term(node[n], m.term), s),
                                              "follower")
      OBVIOUS
    <2>3. /\ Logged(self) /\ self.log = node[n].log
          /\ self.client_queue = node[n].client_queue
      BY <1>1, <2>1, <2>2
         DEF set_current_role, send_vote, increment_term, Logged, NodeState, Role
    <2>4. Gets(n, s, "RequestVotes") /\ Handle(n, s, self, SendTo(s, Vote(TRUE)))
      BY <1>2, <2>1, <2>2 DEF StepDown
    <2>5. SendTo(s, Vote(TRUE)) \in Sending(Lawful(v, Places(v)))
      BY <1>1, LawfulTypes, SendingType
    <2> QED BY <2>3, <2>4, <2>5, StillHandled
  <1>3. CASE CandidateHeartbeat(n, s)
    <2>1. PICK m \in Message : m = Head(chan[s][n]) /\ m.term \in Nat
      BY <1>3, GetsMessage, MessageFields DEF CandidateHeartbeat, RaftInv
    <2>2. PICK self : self = set_current_role(increment_term(node[n], m.term), "follower")
      OBVIOUS
    <2>3. /\ Logged(self) /\ self.log = node[n].log
          /\ self.client_queue = node[n].client_queue
      BY <1>1, <2>1, <2>2 DEF set_current_role, increment_term, Logged, NodeState, Role
    <2>4. Gets(n, s, "Heartbeat") /\ Handle(n, s, self, Quiet)
      BY <1>3, <2>1, <2>2 DEF CandidateHeartbeat
    <2> QED BY <1>1, <2>3, <2>4, StillHandled
  <1> QED BY <1>2, <1>3

\* A new leader appends an entry of its own.
LEMMA LeadingPlaces ==
    ASSUME NEW self, Logged(self), NEW n \in Node, NEW v \in ClientValue,
           NEW I, LogsIn(self, v, I), NEW led, led = start_leading(self, n)
    PROVE  /\ Logged(led) /\ LogsIn(led, v, I) /\ led.client_queue = self.client_queue
           /\ start_leading_messages(self) \in Sending(Lawful(v, I))
  <1>1. PICK entry \in Entry : entry = [term |-> self.current_term, entry |-> "Leader Entry"]
    BY DEF Logged, NodeState, Entry
  <1>2. entry.entry # v
    <2>1. entry.entry = "Leader Entry"
      BY <1>1
    <2> QED BY <2>1, Zenon DEF ClientValue
  <1>3. PICK next \in [Node -> Int] : next = [d \in Node |-> UpToDate]
    <2>1. [d \in Node |-> UpToDate] \in [Node -> Int]
      BY DEF UpToDate
    <2> QED BY <2>1
  <1>4. PICK match \in [Node -> Nat] : match = [d \in Node |-> self.commit_index]
    BY DEF Logged, NodeState
  <1>5. PICK reset : reset = [set_current_role(self, "leader") EXCEPT !.next_index = next,
                                                                     !.match_index = match]
    OBVIOUS
  <1>6. /\ Logged(reset) /\ reset.log = self.log
        /\ reset.client_queue = self.client_queue
    BY <1>5 DEF set_current_role, Logged, NodeState, Role
  <1>7. LogsIn(reset, v, I)
    BY <1>6 DEF LogsIn
  <1>8. led = broadcast_append_entries(reset, n, entry)
    BY <1>1, <1>3, <1>4, <1>5 DEF start_leading
  <1>9. Logged(led) /\ LogsIn(led, v, I) /\ led.client_queue = self.client_queue
    <2>1. entry.entry = v => Len(reset.log) + 1 \in I
      BY <1>2, Zenon
    <2>2. Logged(led) /\ LogsIn(led, v, I) /\ led.client_queue = reset.client_queue
      BY <1>6, <1>7, <1>8, <2>1, BroadcastPlaces
    <2> QED BY <1>6, <2>2
  <1>10. PICK plain : plain = [self EXCEPT !.next_index = next]
    OBVIOUS
  <1>11. Logged(plain) /\ plain.log = self.log
    BY <1>10 DEF Logged, NodeState
  <1>12. LogsIn(plain, v, I)
    BY <1>11 DEF LogsIn
  <1>13. start_leading_messages(self)
            = Then(SendAll(Heartbeat(self)), broadcast_append_messages(plain, entry))
    BY <1>1, <1>3, <1>10 DEF start_leading_messages
  <1>14. broadcast_append_messages(plain, entry) \in Sending(Lawful(v, I))
    <2>1. entry.entry = v => Len(plain.log) + 1 \in I
      BY <1>2, Zenon
    <2> QED BY <1>11, <1>12, <2>1, BroadcastPlaces
  <1>15. SendAll(Heartbeat(self)) \in Sending(Lawful(v, I))
    BY LawfulTypes, SendingType
  <1> QED BY <1>9, <1>13, <1>14, <1>15, ThenType

\* A candidate counts a vote, and may lead.
LEMMA CounterOnce ==
    ASSUME RaftInv, RaftInv', NEW v \in ClientValue, OnceInv(v),
           NEW n \in Node, NEW s \in Node, CandidateVote(n, s)
    PROVE  OnceInv(v)'
  <1>1. Logged(node[n]) /\ Quiet \in Sending(Lawful(v, Places(v)))
    BY SendingType DEF RaftInv, LogInv
  <1>2. PICK votes \in Nat : votes = IF Head(chan[s][n]).vote_granted
                                     THEN node[n].votes_for_me + 1 ELSE node[n].votes_for_me
    <2>1. node[n].votes_for_me \in Nat
      BY <1>1 DEF Logged, NodeState
    <2>2. node[n].votes_for_me + 1 \in Nat
      BY <2>1
    <2> QED BY <2>1, <2>2, Zenon
  <1>3. PICK self : self = [node[n] EXCEPT !.votes_for_me = votes]
    OBVIOUS
  <1>4. /\ Logged(self) /\ self.log = node[n].log /\ self.votes_for_me = votes
        /\ self.client_queue = node[n].client_queue
    BY <1>1, <1>3 DEF Logged, NodeState
  <1>5. self = [node[n] EXCEPT !.votes_for_me =
                   IF Head(chan[s][n]).vote_granted THEN @ + 1 ELSE @]
    BY <1>1, <1>2, <1>3 DEF Logged, NodeState
  <1>6. Gets(n, s, "Vote")
    BY DEF CandidateVote
  <1>7. CASE has_majority(votes)
    <2>1. PICK led : led = start_leading(self, n)
      OBVIOUS
    <2>2. Handle(n, s, led, start_leading_messages(self))
      BY <1>4, <1>5, <1>7, <2>1 DEF CandidateVote
    <2>3. LogsIn(self, v, Places(v))
      BY <1>4, PlacesHold DEF LogsIn
    <2>4. /\ Logged(led) /\ LogsIn(led, v, Places(v)) /\ led.client_queue = self.client_queue
          /\ start_leading_messages(self) \in Sending(Lawful(v, Places(v)))
      BY <1>4, <2>1, <2>3, LeadingPlaces
    <2> QED BY <1>4, <1>6, <2>2, <2>4, HandlePlaces
  <1>8. CASE ~ has_majority(votes)
    <2>1. Handle(n, s, self, Quiet)
      BY <1>4, <1>5, <1>8 DEF CandidateVote
    <2> QED BY <1>1, <1>4, <1>6, <2>1, StillHandled
  <1> QED BY <1>7, <1>8

\* The heartbeat of a leader, and a thread that finds its role changed.
LEMMA TimerOnce ==
    ASSUME RaftInv, RaftInv', NEW v, OnceInv(v), NEW n \in Node, LeaderHeartbeat(n) \/ run(n)
    PROVE  OnceInv(v)'
  <1>1. /\ Logged(node[n]) /\ Quiet \in Sending(Lawful(v, Places(v)))
        /\ SendAll(Heartbeat(node[n])) \in Sending(Lawful(v, Places(v)))
    BY LawfulTypes, SendingType DEF RaftInv, LogInv
  <1> QED BY <1>1, StillActed DEF LeaderHeartbeat, run

\* The resend timer.
LEMMA ResenderOnce ==
    ASSUME RaftInv, RaftInv', NEW v, OnceInv(v), NEW n \in Node, NEW d \in Node,
           LeaderResend(n, d)
    PROVE  OnceInv(v)'
  <1>1. Logged(node[n]) /\ Leads(node[n], n) /\ LogsIn(node[n], v, Places(v))
    BY LeaderStep, PlacesHold DEF LeaderResend
  <1>2. PICK index : index = node[n].next_index[d]
    OBVIOUS
  <1>3. index \in 1 .. log_max_index(node[n])
    BY <1>1, <1>2 DEF LeaderResend, Leads
  <1>4. SendTo(d, Resend(node[n], index)) \in Sending(Lawful(v, Places(v)))
    BY <1>1, <1>3, LawfulResend, SendingType
  <1>5. Act(n, node[n], SendTo(d, Resend(node[n], index)))
    BY <1>2 DEF LeaderResend
  <1> QED BY <1>1, <1>4, <1>5, StillActed

\* Where the first request of a leader's queue will be, if it is one for v.
LEMMA NextPlace ==
    ASSUME RaftInv, NEW v, OnceInv(v), NEW n \in Node, NEW k
    PROVE  \E I : /\ LogsIn(node[n], v, I)
                  /\ Asks(node[n].client_queue, v) => I = {k}
                  /\ ~ Asks(node[n].client_queue, v) => I = Places(v)
  <1>1. LogsIn(node[n], v, Places(v))
    BY PlacesHold
  <1>2. CASE Asks(node[n].client_queue, v)
    <2>1. node[n].client_queue \in Seq(Entry) /\ node[n].client_queue # <<>>
      BY <1>2 DEF RaftInv, TypeOK, NodeState, Asks
    <2>2. Head(node[n].client_queue) \in Asking(v)
      BY <1>2, <2>1, HeldTail DEF Asks, Asking
    <2>3. Queued(n, v)
      BY <2>1, <2>2, HeldTail, ZenonT(30) DEF Queued
    <2>4. Places(v) = {}
      BY <2>3 DEF OnceInv
    <2>5. LogsIn(node[n], v, {k})
      BY <1>1, <2>4 DEF LogsIn
    <2> QED BY <1>2, <2>5
  <1> QED BY <1>1, <1>2

\* An iteration of _leader.
LEMMA TurnPlaces ==
    ASSUME RaftInv, RaftInv', NEW v, OnceInv(v),
           NEW n \in Node, NEW s \in Node, NEW type, Gets(n, s, type),
           NEW self, Logged(self), self.client_queue = node[n].client_queue,
           NEW I, LogsIn(self, v, I), NEW out \in Sending(Lawful(v, I)),
           LeaderTurn(n, s, self, out),
           Asks(node[n].client_queue, v) => I = {Len(self.log) + 1},
           \/ Asks(node[n].client_queue, v)
           \/ I = Places(v)
           \/ Head(chan[s][n]) \in Requests(v) /\ \E k : I = {k}
    PROVE  OnceInv(v)'
  <1>1. PICK new : new = serve_client(self, n)
    OBVIOUS
  <1>2. Asks(self.client_queue, v) => Len(self.log) + 1 \in I
    OBVIOUS
  <1>3. /\ Logged(new) /\ LogsIn(new, v, I)
        /\ new.client_queue = IF self.client_queue = <<>> THEN self.client_queue
                              ELSE Tail(self.client_queue)
        /\ serve_client_messages(self) \in Sending(Lawful(v, I))
    BY <1>1, <1>2, ServePlaces
  <1>4. PICK more : more = Then(out, serve_client_messages(self))
    OBVIOUS
  <1>5. more \in Sending(Lawful(v, I)) /\ Handle(n, s, new, more)
    BY <1>1, <1>3, <1>4, ThenType DEF LeaderTurn
  <1>6. new.client_queue = node[n].client_queue \/ Serves(n, new)
    BY <1>3 DEF Serves
  <1>7. \/ I = Places(v)
        \/ \E k : /\ I = {k}
                  /\ \/ Serves(n, new) /\ Head(node[n].client_queue).entry = v
                     \/ Head(chan[s][n]) \in Requests(v)
    BY <1>3 DEF Serves, Asks
  <1> QED BY <1>3, <1>5, <1>6, <1>7, HandlePlaces

\* A leader takes a message it does not act on.
LEMMA LeaderIgnoreOnce ==
    ASSUME RaftInv, RaftInv', NEW v, OnceInv(v), NEW n \in Node, NEW s \in Node,
           LeaderIgnore(n, s)
    PROVE  OnceInv(v)'
  <1>1. Logged(node[n])
    BY DEF RaftInv, LogInv
  <1>2. PICK k : k = Len(node[n].log) + 1
    OBVIOUS
  <1>3. PICK I : /\ LogsIn(node[n], v, I)
                 /\ Asks(node[n].client_queue, v) => I = {k}
                 /\ ~ Asks(node[n].client_queue, v) => I = Places(v)
    BY NextPlace
  <1>4. PICK type : Gets(n, s, type)
    BY DEF LeaderIgnore
  <1>5. LeaderTurn(n, s, node[n], Quiet) /\ Quiet \in Sending(Lawful(v, I))
    BY SendingType DEF LeaderIgnore
  <1> QED BY <1>1, <1>2, <1>3, <1>4, <1>5, TurnPlaces

\* A leader takes an acknowledgement.
LEMMA LeaderAckOnce ==
    ASSUME RaftInv, RaftInv', NEW v, OnceInv(v), NEW n \in Node, NEW s \in Node,
           LeaderAcknowledge(n, s)
    PROVE  OnceInv(v)'
  <1>1. Logged(node[n]) /\ Leads(node[n], n)
    BY LeaderStep DEF LeaderAcknowledge
  <1>2. PICK k : k = Len(node[n].log) + 1
    OBVIOUS
  <1>3. PICK I : /\ LogsIn(node[n], v, I)
                 /\ Asks(node[n].client_queue, v) => I = {k}
                 /\ ~ Asks(node[n].client_queue, v) => I = Places(v)
    BY NextPlace
  <1>4. Gets(n, s, "Acknowledge") /\ Quiet \in Sending(Lawful(v, I))
    BY SendingType DEF LeaderAcknowledge
  <1>5. CASE node[n].next_index[s] = UpToDate
    <2>1. LeaderTurn(n, s, node[n], Quiet)
      BY <1>5 DEF LeaderAcknowledge
    <2> QED BY <1>1, <1>2, <1>3, <1>4, <2>1, TurnPlaces
  <1>6. CASE node[n].next_index[s] # UpToDate
    <2>1. PICK m \in Message : m = Head(chan[s][n]) /\ m.success \in BOOLEAN
      BY <1>4, GetsMessage, MessageFields DEF RaftInv
    <2>2. PICK known : known = advance(node[n], s, m.success)
      OBVIOUS
    <2>3. Logged(known) /\ Leads(known, n)
      BY <1>1, <1>6, <2>1, <2>2, Advanced
    <2>4. known.log = node[n].log /\ known.client_queue = node[n].client_queue
      <3>1. PICK i \in 1 .. log_max_index(node[n]) : i = node[n].next_index[s]
        BY <1>1, <1>6 DEF Leads
      <3> QED BY <1>1, <2>1, <2>2, <3>1, AdvanceChanges
    <2>5. PICK self : self = commit_replicated(known)
      OBVIOUS
    <2>6. Logged(self)
      BY <2>3, <2>5, ReplicatedCommitted
    <2>7. self.log = node[n].log /\ self.client_queue = node[n].client_queue
      BY <2>3, <2>4, <2>5, CommitChanges
    <2>8. PICK next : next = known.next_index[s]
      OBVIOUS
    <2>9. PICK more : more = IF next = UpToDate THEN Quiet ELSE SendTo(s, Resend(known, next))
      OBVIOUS
    <2>10. PICK commits : commits = IF self = known THEN Quiet ELSE SendAll(Committal(self))
      OBVIOUS
    <2>11. LeaderTurn(n, s, self, Then(more, commits))
      BY <1>6, <2>1, <2>2, <2>5, <2>8, <2>9, <2>10 DEF LeaderAcknowledge
    <2>12. LogsIn(known, v, I) /\ LogsIn(self, v, I)
      BY <1>3, <2>4, <2>7 DEF LogsIn
    <2>13. more \in Sending(Lawful(v, I))
      <3>1. CASE next = UpToDate
        BY <1>4, <2>9, <3>1
      <3>2. CASE next # UpToDate
        <4>1. next \in 1 .. log_max_index(known)
          BY <2>3, <2>8, <3>2 DEF Leads
        <4>2. Resend(known, next) \in Lawful(v, I)
          BY <2>3, <2>12, <4>1, LawfulResend
        <4> QED BY <2>9, <3>2, <4>2, SendingType
      <3> QED BY <3>1, <3>2
    <2>14. commits \in Sending(Lawful(v, I))
      BY <1>4, <2>6, <2>10, LawfulTypes, SendingType
    <2>15. Then(more, commits) \in Sending(Lawful(v, I))
      BY <2>13, <2>14, ThenType
    <2> QED BY <1>2, <1>3, <1>4, <2>6, <2>7, <2>11, <2>12, <2>15, TurnPlaces
  <1> QED BY <1>5, <1>6

\* A leader is forwarded a request, and appends it.
LEMMA LeaderAskedOnce ==
    ASSUME RaftInv, RaftInv', NEW v, OnceInv(v), NEW n \in Node, NEW s \in Node,
           LeaderClientRequest(n, s)
    PROVE  OnceInv(v)'
  <1>1. Logged(node[n]) /\ Gets(n, s, "ClientRequest")
    BY DEF RaftInv, LogInv, LeaderClientRequest
  <1>2. PICK m \in Message : m = Head(chan[s][n]) /\ m.type = "ClientRequest"
    BY <1>1, GetsMessage DEF RaftInv
  <1>3. PICK entry \in Entry : entry = m.entries
    BY <1>2, MessageFields
  <1>4. PICK self : self = broadcast_append_entries(node[n], n, entry)
    OBVIOUS
  <1>5. LeaderTurn(n, s, self, broadcast_append_messages(node[n], entry))
    BY <1>2, <1>3, <1>4 DEF LeaderClientRequest
  <1>6. CASE entry.entry = v
    <2>1. Head(chan[s][n]) \in Requests(v)
      BY <1>2, <1>3, <1>6 DEF Requests
    <2>2. chan[s][n] \in Seq(Message) /\ chan[s][n] # <<>>
      BY <1>1, GetsMessage DEF RaftInv
    <2>3. Sent(s, n, v)
      BY <2>1, <2>2, HeldTail, ZenonT(30) DEF Sent
    <2>4. Places(v) = {} /\ ~ Queued(n, v)
      BY <2>3 DEF OnceInv
    <2>5. ~ Asks(node[n].client_queue, v)
      <3>1. SUFFICES ASSUME Asks(node[n].client_queue, v)
                     PROVE  FALSE
        OBVIOUS
      <3>2. node[n].client_queue \in Seq(Entry) /\ node[n].client_queue # <<>>
        BY <3>1 DEF RaftInv, TypeOK, NodeState, Asks
      <3>3. Head(node[n].client_queue) \in Asking(v)
        BY <3>1, <3>2, HeldTail DEF Asks, Asking
      <3> QED BY <2>4, <3>2, <3>3, HeldTail, ZenonT(30) DEF Queued
    <2>6. PICK I : I = {Len(node[n].log) + 1}
      OBVIOUS
    <2>7. LogsIn(node[n], v, I)
      BY <2>4, PlacesHold DEF LogsIn
    <2>8. /\ Logged(self) /\ LogsIn(self, v, I) /\ self.client_queue = node[n].client_queue
          /\ broadcast_append_messages(node[n], entry) \in Sending(Lawful(v, I))
      BY <1>1, <1>4, <2>6, <2>7, BroadcastPlaces
    <2> QED BY <1>1, <1>5, <2>1, <2>5, <2>6, <2>8, TurnPlaces
  <1>7. CASE entry.entry # v
    <2>1. PICK k : k = Len(node[n].log) + 1 + 1
      OBVIOUS
    <2>2. PICK I : /\ LogsIn(node[n], v, I)
                   /\ Asks(node[n].client_queue, v) => I = {k}
                   /\ ~ Asks(node[n].client_queue, v) => I = Places(v)
      BY NextPlace
    <2>3. /\ Logged(self) /\ LogsIn(self, v, I) /\ self.client_queue = node[n].client_queue
          /\ Len(self.log) = Len(node[n].log) + 1
          /\ broadcast_append_messages(node[n], entry) \in Sending(Lawful(v, I))
      BY <1>1, <1>4, <1>7, <2>2, BroadcastPlaces
    <2>4. Asks(node[n].client_queue, v) => I = {Len(self.log) + 1}
      BY <2>1, <2>2, <2>3
    <2> QED BY <1>1, <1>5, <2>2, <2>3, <2>4, TurnPlaces
  <1> QED BY <1>6, <1>7

\* A leader serves its clients without a message.
LEMMA LeaderServesOnce ==
    ASSUME RaftInv, RaftInv', NEW v, OnceInv(v), NEW n \in Node, LeaderServeClient(n)
    PROVE  OnceInv(v)'
  <1>1. Logged(node[n]) /\ node[n].client_queue # <<>>
    BY DEF RaftInv, LogInv, LeaderServeClient
  <1>2. PICK k : k = Len(node[n].log) + 1
    OBVIOUS
  <1>3. PICK I : /\ LogsIn(node[n], v, I)
                 /\ Asks(node[n].client_queue, v) => I = {k}
                 /\ ~ Asks(node[n].client_queue, v) => I = Places(v)
    BY NextPlace
  <1>4. PICK new : new = serve_client(node[n], n)
    OBVIOUS
  <1>5. Asks(node[n].client_queue, v) => Len(node[n].log) + 1 \in I
    BY <1>2, <1>3
  <1>6. /\ Logged(new) /\ LogsIn(new, v, I)
        /\ new.client_queue = Tail(node[n].client_queue)
        /\ serve_client_messages(node[n]) \in Sending(Lawful(v, I))
    BY <1>1, <1>3, <1>4, <1>5, ServePlaces
  <1>7. Act(n, new, serve_client_messages(node[n]))
    BY <1>4 DEF LeaderServeClient
  <1>8. Serves(n, new)
    BY <1>1, <1>6 DEF Serves
  <1>9. \/ I = Places(v)
        \/ \E i : I = {i} /\ Serves(n, new) /\ Head(node[n].client_queue).entry = v
    BY <1>3, <1>8 DEF Asks
  <1> QED BY <1>6, <1>7, <1>8, <1>9, ActPlaces

\* A request for v on its way to the leader is all that is left of it.
LEMMA Forwarded ==
    ASSUME RaftInv, RaftInv', NEW v, OnceInv(v),
           NEW n \in Node, NEW s \in Node, NEW type, Gets(n, s, type),
           Asks(node[n].client_queue, v), NEW self, Logged(self), self.log = node[n].log,
           Serves(n, self), NEW m \in Requests(v), Handle(n, s, self, SendTo(s, m))
    PROVE  OnceInv(v)'
  <1>1. node[n].client_queue \in Seq(Entry) /\ node[n].client_queue # <<>>
    BY DEF RaftInv, TypeOK, NodeState, Asks
  <1>2. Head(node[n].client_queue) \in Asking(v)
    BY <1>1, HeldTail DEF Asks, Asking
  <1>3. HoldsOnce(node[n].client_queue, Asking(v)) /\ self.client_queue = Tail(node[n].client_queue)
    BY DEF OnceInv, Serves
  <1>4. Queued(n, v) /\ ~ Holds(self.client_queue, Asking(v))
    <2>1. /\ Holds(node[n].client_queue, Asking(v))
          /\ ~ Holds(Tail(node[n].client_queue), Asking(v))
      BY <1>1, <1>2, <1>3, HeldTail, ZenonT(30)
    <2> QED BY <1>3, <2>1, Zenon DEF Queued
  <1>5. /\ Places(v) = {} /\ v \notin unsent
        /\ \A p \in Node : Queued(p, v) => p = n
        /\ \A a, b \in Node : ~ Sent(a, b, v)
    BY <1>4 DEF OnceInv
  <1>6. /\ \A p \in Node : p # n => node'[p] = node[p]
        /\ node'[n].client_queue = self.client_queue /\ node'[n].log = self.log
        /\ unsent' = unsent
    BY QueueChanged DEF Handle
  <1>7. \A p \in Node : ~ Queued(p, v)'
    BY <1>4, <1>5, <1>6, Zenon DEF Queued
  <1>8. m \in Message /\ \A i : m \notin Appends(v, i)
    BY DEF Requests, Appends
  <1>9. ASSUME NEW a \in Node, NEW b \in Node
        PROVE  /\ Sent(a, b, v)' => a = n /\ b = s
               /\ HoldsOnce(chan'[a][b], Requests(v))
               /\ \A i \in Nat : ~ Holds(chan'[a][b], Appends(v, i))
    <2>1. PICK left \in Seq(Message) :
             /\ chan[a][b] \in Seq(Message)
             /\ left = chan[a][b] \/ (chan[a][b] # <<>> /\ left = Tail(chan[a][b]))
             /\ chan'[a][b] = left \o (IF a = n THEN SendTo(s, m)[b] ELSE <<>>)
      <3>1. Moved(n, s, SendTo(s, m), a, b)
        BY HandledChannel
      <3> QED BY <3>1, Zenon DEF Moved
    <2>2. /\ ~ Holds(chan[a][b], Requests(v))
          /\ \A i \in Nat : ~ Holds(chan[a][b], Appends(v, i))
      BY <1>5 DEF Sent, Places
    <2>3. ASSUME NEW S, ~ Holds(chan[a][b], S)
          PROVE  ~ Holds(left, S)
      <3>1. chan[a][b] # <<>> => ~ Holds(Tail(chan[a][b]), S)
        BY <2>1, <2>3, HeldTail, ZenonT(30)
      <3> QED BY <2>1, <2>3, <3>1, Zenon
    <2>4. ~ Holds(left, Requests(v)) /\ \A i \in Nat : ~ Holds(left, Appends(v, i))
      BY <2>2, <2>3, Zenon
    <2>5. HoldsOnce(left, Requests(v))
      BY <2>4, Zenon DEF Holds, HoldsOnce
    <2>6. CASE a = n /\ b = s
      <3>1. chan'[a][b] = left \o <<m>>
        BY <2>1, <2>6 DEF SendTo
      <3>2. HoldsOnce(chan'[a][b], Requests(v))
        BY <1>8, <2>4, <2>5, <3>1, HeldAdded, ZenonT(30)
      <3>3. ASSUME NEW S, m \notin S, ~ Holds(left, S)
            PROVE  ~ Holds(chan'[a][b], S)
        BY <1>8, <3>1, <3>3, HeldAdded, ZenonT(30)
      <3>4. \A i \in Nat : ~ Holds(chan'[a][b], Appends(v, i))
        BY <1>8, <2>4, <3>3, Zenon
      <3> QED BY <2>6, <3>2, <3>4
    <2>7. CASE ~ (a = n /\ b = s)
      <3>1. chan'[a][b] = left
        <4>1. chan'[a][b] = left \o <<>>
          BY <2>1, <2>7 DEF SendTo
        <4> QED BY <4>1, ConcatEmptySeq
      <3> QED BY <2>4, <2>5, <3>1, Zenon DEF Sent
    <2> QED BY <2>6, <2>7
  <1>10. Places(v)' = {}
    <2>1. SUFFICES ASSUME NEW i \in Places(v)'
                   PROVE  FALSE
      OBVIOUS
    <2>2. \A p \in Node : node'[p].log = node[p].log
      BY <1>6
    <2>3. i \in Nat /\ \E p \in Node : i \in DOMAIN node[p].log /\ node[p].log[i].entry = v
      BY <1>9, <2>2 DEF Places
    <2> QED BY <1>5, <2>3 DEF Places
  <1>11. \A p \in Node : HoldsOnce(node'[p].client_queue, Asking(v))
    BY <1>7, Zenon DEF Queued, Holds, HoldsOnce
  <1> HIDE DEF Places, Queued, Sent
  <1> QED BY <1>5, <1>6, <1>7, <1>9, <1>10, <1>11 DEF OnceInv

\* A follower hears of its leader, and may forward a request.
LEMMA ForwarderOnce ==
    ASSUME RaftInv, RaftInv', NEW v, OnceInv(v), NEW n \in Node, NEW s \in Node,
           FollowerHeartbeat(n, s)
    PROVE  OnceInv(v)'
  <1>1. Logged(node[n]) /\ Gets(n, s, "Heartbeat")
    BY DEF RaftInv, LogInv, FollowerHeartbeat
  <1>2. PICK m \in Message : m = Head(chan[s][n]) /\ m.term \in Nat
    BY <1>1, GetsMessage, MessageFields DEF RaftInv
  <1>3. PICK self : self = adopt_term(node[n], m.term)
    OBVIOUS
  <1>4. Logged(self) /\ self.log = node[n].log /\ self.client_queue = node[n].client_queue
    BY <1>1, <1>2, <1>3 DEF adopt_term, increment_term, Logged, NodeState
  <1>5. CASE self.client_queue = <<>>
    <2>1. Handle(n, s, self, Quiet) /\ Quiet \in Sending(Lawful(v, Places(v)))
      BY <1>2, <1>3, <1>5, SendingType DEF FollowerHeartbeat
    <2> QED BY <1>1, <1>4, <2>1, StillHandled
  <1>6. CASE self.client_queue # <<>>
    <2>1. PICK entry \in Entry : entry = Head(self.client_queue)
      BY <1>4, <1>6, HeadTailProperties DEF Logged, NodeState
    <2>2. PICK rest \in Seq(Entry) : rest = Tail(self.client_queue)
      BY <1>4, <1>6, HeadTailProperties DEF Logged, NodeState
    <2>3. PICK served : served = [self EXCEPT !.client_queue = rest]
      OBVIOUS
    <2>4. Logged(served) /\ served.log = node[n].log /\ served.client_queue = rest
      BY <1>4, <2>3 DEF Logged, NodeState
    <2>5. PICK request : request = ClientRequest(entry)
      OBVIOUS
    <2>6. Handle(n, s, served, SendTo(s, request))
      BY <1>2, <1>3, <1>6, <2>1, <2>2, <2>3, <2>5 DEF FollowerHeartbeat
    <2>7. request \in Message /\ request.type = "ClientRequest" /\ request.entries = entry
      BY <1>1, <2>5, MessageTypes DEF ClientRequest, PlainMessage
    <2>8. Serves(n, served)
      BY <1>4, <1>6, <2>2, <2>4 DEF Serves
    <2>9. CASE entry.entry = v
      <3>1. request \in Requests(v) /\ Asks(node[n].client_queue, v)
        BY <1>4, <1>6, <2>1, <2>7, <2>9 DEF Requests, Asks
      <3> QED BY <1>1, <2>4, <2>6, <2>8, <3>1, Forwarded
    <2>10. CASE entry.entry # v
      <3>1. request \in Lawful(v, Places(v))
        BY <2>7, <2>10 DEF Lawful, Requests
      <3>2. SendTo(s, request) \in Sending(Lawful(v, Places(v)))
        BY <3>1, SendingType
      <3>3. LogsIn(served, v, Places(v))
        BY <2>4, PlacesHold DEF LogsIn
      <3> QED BY <1>1, <2>4, <2>6, <2>8, <3>2, <3>3, HandlePlaces
    <2> QED BY <2>9, <2>10
  <1> QED BY <1>5, <1>6

\* A client hands its request to a node.
LEMMA ClientOnce ==
    ASSUME RaftInv, NEW v, OnceInv(v), NEW n \in Node, NEW w \in Value, client_request(n, w)
    PROVE  OnceInv(v)'
  <1>1. PICK asked \in Entry : asked = [term |-> node[n].current_term, entry |-> w]
    BY DEF RaftInv, TypeOK, NodeState, Entry
  <1>2. PICK old \in Seq(Entry) : old = node[n].client_queue
    BY DEF RaftInv, TypeOK, NodeState
  <1>3. PICK longer : longer = Append(old, asked)
    OBVIOUS
  <1>4. /\ node' = [node EXCEPT ![n] = [node[n] EXCEPT !.client_queue = longer]]
        /\ chan' = chan /\ w \in unsent /\ unsent' = unsent \ {w}
    BY <1>1, <1>2, <1>3 DEF client_request
  <1>5. /\ \A p \in Node : p # n => node'[p] = node[p]
        /\ node'[n].client_queue = longer /\ node'[n].log = node[n].log
    BY <1>4 DEF RaftInv, TypeOK, NodeState
  <1>6. Places(v)' = Places(v)
    <2>1. \A p \in Node : node'[p].log = node[p].log
      BY <1>5
    <2> QED BY <1>4, <2>1 DEF Places
  <1>7. \A a, b \in Node : Sent(a, b, v)' <=> Sent(a, b, v)
    BY <1>4 DEF Sent
  <1>8. \A p \in Node : p # n => (Queued(p, v)' <=> Queued(p, v))
    BY <1>5, Zenon DEF Queued
  <1>9. HoldsOnce(old, Asking(v)) /\ (Holds(old, Asking(v)) <=> Queued(n, v))
    BY <1>2 DEF OnceInv, Queued
  <1>10. \A p \in Node : p # n => HoldsOnce(node'[p].client_queue, Asking(v))
    BY <1>5, Zenon DEF OnceInv
  <1>11. \A a, b \in Node : HoldsOnce(chan'[a][b], Requests(v))
    BY <1>4 DEF OnceInv
  <1>12. CASE w = v
    <2>1. Places(v) = {} /\ \A a, b \in Node : ~ Queued(a, v) /\ ~ Sent(a, b, v)
      BY <1>4, <1>12 DEF OnceInv
    <2>2. HoldsOnce(longer, Asking(v))
      BY <1>3, <1>9, <2>1, HeldAdded, ZenonT(30)
    <2>3. \A p \in Node : HoldsOnce(node'[p].client_queue, Asking(v))
      BY <1>5, <1>10, <2>2, Zenon
    <2>4. v \notin unsent' /\ \A p \in Node : Queued(p, v)' => p = n
      BY <1>4, <1>8, <1>12, <2>1
    <2> HIDE DEF Places, Queued, Sent
    <2> QED BY <1>6, <1>7, <1>11, <2>1, <2>3, <2>4 DEF OnceInv
  <1>13. CASE w # v
    <2>1. asked \notin Asking(v)
      BY <1>1, <1>13 DEF Asking
    <2>2. HoldsOnce(longer, Asking(v)) /\ (Holds(longer, Asking(v)) => Holds(old, Asking(v)))
      BY <1>3, <1>9, <2>1, HeldAdded, ZenonT(30)
    <2>3. \A p \in Node : HoldsOnce(node'[p].client_queue, Asking(v))
      BY <1>5, <1>10, <2>2, Zenon
    <2>4. Queued(n, v)' => Queued(n, v)
      BY <1>5, <1>9, <2>2, Zenon DEF Queued
    <2>5. \A p \in Node : Queued(p, v)' => Queued(p, v)
      BY <1>8, <2>4
    <2>6. v \in unsent' => v \in unsent
      BY <1>4
    <2>7. v \notin unsent => v \notin unsent'
      BY <1>4
    <2> HIDE DEF Places, Queued, Sent
    <2> QED BY <1>6, <1>7, <1>11, <2>3, <2>5, <2>6, <2>7 DEF OnceInv
  <1> QED BY <1>12, <1>13

\* Operators and the network ask for nothing; nor do the threads between two
\* iterations.
LEMMA OthersOnce ==
    ASSUME RaftInv, RaftInv', NEW v, OnceInv(v),
           \/ \E n \in Node : pause(n) \/ un_pause(n)
           \/ \E s, d \in Node : Lose(s, d)
           \/ UNCHANGED vars
    PROVE  OnceInv(v)'
  <1>1. node \in [Node -> NodeState] /\ \A a, b \in Node : chan[a][b] \in Seq(Message)
    BY DEF RaftInv, TypeOK
  <1>2. PICK L \in SUBSET Message : L = Lawful(v, Places(v))
    BY LawfulMessages
  <1>3. \A p \in Node : /\ node'[p].client_queue = node[p].client_queue
                        /\ node'[p].log = node[p].log
    <2>1. ASSUME NEW n \in Node, pause(n) \/ un_pause(n), NEW p \in Node
          PROVE  node'[p].client_queue = node[p].client_queue /\ node'[p].log = node[p].log
      <3>1. \/ \E role \in {"none", "follower"} :
                  node' = [node EXCEPT ![n] = [node[n] EXCEPT !.role = role]]
            \/ node' = node
        BY <2>1 DEF pause, un_pause, set_current_role
      <3>2. ASSUME NEW role, node' = [node EXCEPT ![n] = [node[n] EXCEPT !.role = role]]
            PROVE  node'[p].client_queue = node[p].client_queue /\ node'[p].log = node[p].log
        BY <1>1, <3>2 DEF NodeState
      <3> QED BY <3>1, <3>2
    <2> QED BY <2>1 DEF Lose, vars
  <1>4. ASSUME NEW s \in Node, NEW d \in Node, Lose(s, d), NEW a \in Node, NEW b \in Node
        PROVE  Passed(L, chan'[a][b], chan[a][b])
    BY <1>4, LostPasses
  <1>5. chan' = chan => \A a, b \in Node : Passed(L, chan'[a][b], chan[a][b])
    BY <1>1, PassedSame
  <1>6. \A a, b \in Node : Passed(L, chan'[a][b], chan[a][b])
    BY <1>4, <1>5 DEF pause, un_pause, vars
  <1>7. \A p \in Node : LogsIn(node'[p], v, Places(v))
    BY <1>3, PlacesHold DEF LogsIn
  <1>8. unsent' \subseteq unsent
    BY DEF pause, un_pause, Lose, vars
  <1> QED BY <1>2, <1>3, <1>6, <1>7, <1>8, NothingNew

\* Messages are asked for by clients alone: nothing is anywhere at the start.
LEMMA OnceInit ==
    ASSUME Init, NEW v \in ClientValue
    PROVE  OnceInv(v)
  <1>1. \A n \in Node : /\ node[n].client_queue = <<>>
                        /\ node[n].log = <<[term |-> 1, entry |-> "Init Entry"]>>
    BY DEF Init, InitNode
  <1>2. \A a, b \in Node : chan[a][b] = <<>>
    BY DEF Init
  <1>3. \A S : ~ Holds(<<>>, S)
    BY DEF Holds
  <1>4. \A S : HoldsOnce(<<>>, S)
    BY DEF HoldsOnce
  <1>5. \A n, a, b \in Node : ~ Queued(n, v) /\ ~ Sent(a, b, v)
    BY <1>1, <1>2, <1>3, Zenon DEF Queued, Sent
  <1>6. Places(v) = {}
    <2>1. SUFFICES ASSUME NEW i \in Places(v)
                   PROVE  FALSE
      OBVIOUS
    <2>2. ASSUME NEW n \in Node, i \in DOMAIN node[n].log, node[n].log[i].entry = v
          PROVE  FALSE
      <3>1. node[n].log[i].entry = "Init Entry"
        <4>1. PICK e \in Entry : e = [term |-> 1, entry |-> "Init Entry"]
          BY DEF Entry
        <4>2. \A k \in DOMAIN <<e>> : <<e>>[k] = e
          OBVIOUS
        <4>3. node[n].log = <<e>>
          BY <1>1, <4>1
        <4>4. e.entry = "Init Entry"
          BY <4>1
        <4> QED BY <2>2, <4>2, <4>3, <4>4, Zenon
      <3> QED BY <2>2, <3>1, Zenon DEF ClientValue
    <2>3. ASSUME NEW a \in Node, NEW b \in Node, Holds(chan[a][b], Appends(v, i))
          PROVE  FALSE
      BY <1>2, <1>3, <2>3, Zenon
    <2> QED BY <2>1, <2>2, <2>3, Zenon DEF Places
  <1>7. /\ \A n \in Node : HoldsOnce(node[n].client_queue, Asking(v))
        /\ \A a, b \in Node : HoldsOnce(chan[a][b], Requests(v))
    BY <1>1, <1>2, <1>4, Zenon
  <1> HIDE DEF Places, Queued, Sent
  <1> QED BY <1>5, <1>6, <1>7, Zenon DEF OnceInv

\* Every step keeps a value in one place.
LEMMA OnceNext == LoggedOnceInv /\ [Next]_vars => LoggedOnceInv'
  <1> SUFFICES ASSUME LoggedOnceInv, [Next]_vars PROVE LoggedOnceInv'
    OBVIOUS
  <1>1. RaftInv /\ RaftInv'
    BY NextInv DEF LoggedOnceInv
  <1>2. ASSUME NEW v \in ClientValue
        PROVE  OnceInv(v)'
    <2>1. OnceInv(v)
      BY DEF LoggedOnceInv
    <2>2. ASSUME NEW n \in Node, NEW s \in Node, Receive(n, s)
          PROVE  OnceInv(v)'
      BY <1>1, <2>1, <2>2, VoterOnce, ForwarderOnce, AppenderOnce, CommitterOnce, IgnoredOnce,
         CounterOnce, StepperOnce, LeaderAckOnce, LeaderAskedOnce, LeaderIgnoreOnce
         DEF Receive
    <2>3. ASSUME NEW n \in Node, \/ BeginElection(n) \/ LeaderServeClient(n)
                                 \/ LeaderHeartbeat(n) \/ run(n)
          PROVE  OnceInv(v)'
      BY <1>1, <2>1, <2>3, StarterOnce, LeaderServesOnce, TimerOnce
    <2>4. ASSUME NEW n \in Node, NEW d \in Node, LeaderResend(n, d)
          PROVE  OnceInv(v)'
      BY <1>1, <2>1, <2>4, ResenderOnce
    <2>5. ASSUME NEW n \in Node, NEW w \in Value, client_request(n, w)
          PROVE  OnceInv(v)'
      BY <1>1, <2>1, <2>5, ClientOnce
    <2>6. CASE \/ \E n \in Node : pause(n) \/ un_pause(n)
               \/ \E s, d \in Node : Lose(s, d)
               \/ UNCHANGED vars
      BY <1>1, <2>1, <2>6, OthersOnce
    <2> QED BY <2>2, <2>3, <2>4, <2>5, <2>6 DEF Next
  <1>3. ClientValue' = ClientValue
    OBVIOUS
  <1> QED BY <1>1, <1>2 DEF LoggedOnceInv

\* A client's value has one index, in whichever logs it is and however often its
\* entry was sent, lost or sent again, by leaders of whatever terms: the leader
\* that takes a request from a queue or a message is the only one to append it,
\* and what it sends from then on names the index it appended it at.
THEOREM ValuesLoggedOnce == Spec => []ValueLoggedOnce
  <1>1. Init => LoggedOnceInv
    BY InitInv, OnceInit DEF LoggedOnceInv
  <1>2. LoggedOnceInv => ValueLoggedOnce
    <2>1. SUFFICES ASSUME LoggedOnceInv, NEW v \in ClientValue, NEW n \in Node, NEW p \in Node,
                          NEW i \in 0 .. log_max_index(node[n]),
                          NEW j \in 0 .. log_max_index(node[p]),
                          At(node[n], i).entry = v, At(node[p], j).entry = v
                   PROVE  i = j
      BY Zenon DEF ValueLoggedOnce, ClientValue
    <2>2. RaftInv /\ OnceInv(v)
      BY <2>1 DEF LoggedOnceInv
    <2>3. ASSUME NEW q \in Node, NEW k \in 0 .. log_max_index(node[q]), At(node[q], k).entry = v
          PROVE  k + 1 \in Places(v)
      <3>1. node[q].log \in Seq(Entry) /\ log_max_index(node[q]) = Len(node[q].log) - 1
        BY <2>2 DEF RaftInv, TypeOK, NodeState, log_max_index
      <3>2. k + 1 \in Nat /\ k + 1 \in DOMAIN node[q].log
        BY <3>1, LenProperties
      <3> QED BY <2>3, <3>2 DEF At, Places
    <2>4. i + 1 \in Places(v) /\ j + 1 \in Places(v)
      BY <2>1, <2>3
    <2>5. i + 1 = j + 1
      BY <2>2, <2>4, Zenon DEF OnceInv
    <2>6. i \in Int /\ j \in Int
      BY <2>2 DEF RaftInv, TypeOK, NodeState, log_max_index
    <2> QED BY <2>5, <2>6
  <1> QED BY <1>1, <1>2, OnceNext, PTL DEF Spec
=============================================================================
