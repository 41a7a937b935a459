--------------------------- MODULE Device_proofs ---------------------------
(***************************************************************************)
(* The safety properties of Device for every set of devices, every trigger *)
(* and every length of the heartbeat timer and of a consensus.             *)
(***************************************************************************)
EXTENDS Device, FiniteSetTheorems, TLAPS

-----------------------------------------------------------------------------
(* The inductive invariant.                                                *)

\* Nobody hears itself: the relay leaves out the sender.
NoSelf == \A d \in Devices : d \notin inbox[d] /\ d \notin Keys(d)

\* A device that is off has no table, and its clock stands still.
OffIsBlank == \A d \in Devices : main[d] = "off" => elapsed[d] = 0 /\ Keys(d) = {}

\* The ages that main may find when it tests them.  At the head of its loop no
\* entry was too old when systime was read; a consensus may start before the
\* pass that follows another one, so that its length is added.
AgesInv ==
    \A d, e \in Devices :
        /\ main[d] = "loop" => local_group[d][e] - elapsed[d] < HeartbeatTimer
        /\ main[d] \in {"trigger", "collect"} =>
              /\ elapsed[d] = 0
              /\ local_group[d][e] < HeartbeatTimer + ConsensusTime
        /\ main[d] = "consensus" =>
              local_group[d][e] - elapsed[d] < HeartbeatTimer + ConsensusTime

\* From the test of their number to the sleep of local_consensus the keys only
\* grow, and what is collected is among them.
CollectInv ==
    \A d \in Devices :
        /\ main[d] = "trigger" => Cardinality(Keys(d)) >= Trigger
        /\ main[d] = "collect" =>
              comm_dict[d] \subseteq Keys(d) /\ Cardinality(comm_dict[d]) >= Trigger

DeviceInv ==
    TypeOK /\ NoSelf /\ OffIsBlank /\ AgesInv /\ CollectInv
        /\ EnoughMembers /\ OnlyCrowdsKillMain

-----------------------------------------------------------------------------
(* Lemmas on ages and keys.                                                *)

\* A tick ages an entry by at most one interval, and enters nobody.
LEMMA OlderType == ASSUME NEW a \in Age PROVE Older(a) \in Age /\ Older(a) <= a + 1
                                          /\ (Older(a) = Absent <=> a = Absent)
  BY DEF Age, Older, Absent

\* A table has finitely many keys, so that their number is one.
LEMMA KeysFinite ==
    ASSUME NEW d \in Devices
    PROVE  Keys(d) \subseteq Devices /\ IsFiniteSet(Keys(d)) /\ Cardinality(Keys(d)) \in Nat
  <1>1. Keys(d) \in SUBSET Devices
    BY DEF Keys
  <1> QED BY <1>1, DevicesAssumption, FS_Subset, FS_CardinalityType

\* A table that has all keys of another set has at least as many.
LEMMA MoreKeys ==
    ASSUME NEW S, NEW T, IsFiniteSet(T), S \subseteq T
    PROVE  /\ IsFiniteSet(S) /\ Cardinality(S) \in Nat /\ Cardinality(T) \in Nat
           /\ Cardinality(S) <= Cardinality(T)
           /\ S # T => Cardinality(S) < Cardinality(T)
  BY FS_Subset, FS_CardinalityType

\* A pass that leaves no old key leaves no old age.
LEMMA NoOldKeys ==
    ASSUME NEW group \in [Devices -> Age], NEW since \in Nat, OldKeys(group, since) = {}
    PROVE  \A e \in Devices : group[e] - since < HeartbeatTimer
  BY TimesAssumption DEF OldKeys, TooOld, Age, Absent

-----------------------------------------------------------------------------
(* Types.                                                                  *)

\* The initial state: every device is off.
LEMMA InitType == Init => TypeOK
  BY TimesAssumption DEF Init, TypeOK, Place, Nobody, Age, Absent

\* The passing of half a second keeps the ages bounded.
LEMMA TickType == ASSUME TypeOK, Tick PROVE TypeOK'
  <1>1. elapsed' \in [Devices -> 0 .. ConsensusTime]
    <2>1. \A d \in Devices : main[d] \notin {"off", "dead"} => elapsed[d] + 1 \in 0 .. ConsensusTime
      BY TimesAssumption DEF Tick, Idle, TypeOK
    <2> QED BY <2>1 DEF Tick, TypeOK
  <1>2. local_group' \in [Devices -> [Devices -> Age]]
    BY OlderType DEF Tick, TypeOK
  <1> QED BY <1>1, <1>2 DEF Tick, TypeOK

\* Every step of main, of the listener and of the clock keeps the types.
LEMMA NextType == TypeOK /\ [Next]_vars => TypeOK'
  <1> SUFFICES ASSUME TypeOK, [Next]_vars PROVE TypeOK'
    OBVIOUS
  <1>1. CASE Tick
    BY <1>1, TickType
  <1>2. ASSUME NEW d \in Devices, Advertise(d) PROVE TypeOK'
    BY <1>2, TimesAssumption DEF Advertise, TypeOK, bluetooth_sender, Relay, PruneOrLoop, Place
  <1>3. ASSUME NEW d \in Devices, BeginCollect(d) PROVE TypeOK'
    BY <1>3, KeysFinite DEF BeginCollect, TypeOK, Place
  <1>4. ASSUME NEW d \in Devices, local_consensus(d) PROVE TypeOK'
    BY <1>4 DEF local_consensus, TypeOK, Place
  <1>5. ASSUME NEW d \in Devices, EndConsensus(d) PROVE TypeOK'
    BY <1>5 DEF EndConsensus, TypeOK, PruneOrLoop, Place
  <1>6. ASSUME NEW d \in Devices, NEW k \in Devices, Examine(d, k) PROVE TypeOK'
    BY <1>6 DEF Examine, TypeOK, Place
  <1>7. ASSUME NEW d \in Devices, Delete(d) PROVE TypeOK'
    BY <1>7 DEF Delete, TypeOK, PruneOrLoop, Place, Age
  <1>8. ASSUME NEW d \in Devices, EndPass(d) PROVE TypeOK'
    BY <1>8 DEF EndPass, TypeOK, Place
  <1>9. ASSUME NEW d \in Devices, NEW e \in Devices, bluetooth_process_advertisement(d, e)
        PROVE  TypeOK'
    BY <1>9 DEF bluetooth_process_advertisement, TypeOK, Age
  <1>10. ASSUME NEW d \in Devices, Join(d) PROVE TypeOK'
    BY <1>10 DEF Join, TypeOK, Place
  <1>11. ASSUME NEW d \in Devices, Leave(d) PROVE TypeOK'
    BY <1>11, TimesAssumption DEF Leave, TypeOK, Place, Nobody, Age
  <1>12. CASE UNCHANGED vars
    BY <1>12 DEF vars, TypeOK
  <1> QED BY <1>1, <1>2, <1>3, <1>4, <1>5, <1>6, <1>7, <1>8, <1>9, <1>10, <1>11, <1>12
             DEF Next, MainThread, Listener

-----------------------------------------------------------------------------
(* What each step does to the keys.                                        *)

\* Who leaves local_group alone leaves its keys alone.
LEMMA KeysUnchanged ==
    ASSUME local_group' = local_group
    PROVE  \A d \in Devices : Keys(d)' = Keys(d)
  BY DEF Keys

\* Time forgets nobody.
LEMMA TickKeys == ASSUME TypeOK, Tick PROVE \A d \in Devices : Keys(d)' = Keys(d)
  BY OlderType DEF Tick, Keys, TypeOK

\* The listener thread enters the sender of an advert.
LEMMA ListenerKeys ==
    ASSUME TypeOK, NEW d \in Devices, NEW e \in Devices, bluetooth_process_advertisement(d, e)
    PROVE  \A c \in Devices : Keys(c)' = IF c = d THEN Keys(d) \cup {e} ELSE Keys(c)
  BY DEF bluetooth_process_advertisement, Keys, TypeOK, Absent

\* The del in main removes what the pass has found too old, and nothing else.
LEMMA DeleteKeys ==
    ASSUME TypeOK, NEW d \in Devices, Delete(d)
    PROVE  \A c \in Devices : Keys(c)' = IF c = d THEN Keys(d) \ doomed[d] ELSE Keys(c)
  BY DEF Delete, Keys, TypeOK

\* A device that is switched off loses its table.
LEMMA LeaveKeys ==
    ASSUME TypeOK, NEW d \in Devices, Leave(d)
    PROVE  \A c \in Devices : Keys(c)' = IF c = d THEN {} ELSE Keys(c)
  BY DEF Leave, Keys, TypeOK, Nobody

-----------------------------------------------------------------------------
(* Each part of the invariant is kept, one step per action.                *)

\* The relays never return an advert to its sender.
LEMMA NoSelfNext == DeviceInv /\ [Next]_vars => NoSelf'
  <1> SUFFICES ASSUME DeviceInv, [Next]_vars PROVE NoSelf'
    OBVIOUS
  <1> USE DEF DeviceInv, NoSelf
  <1>1. CASE Tick
    BY <1>1, TickKeys DEF Tick
  <1>2. ASSUME NEW d \in Devices, Advertise(d) PROVE NoSelf'
    BY <1>2, KeysUnchanged DEF Advertise, bluetooth_sender, Relay, Recipients
  <1>3. ASSUME NEW d \in Devices, Delete(d) PROVE NoSelf'
    BY <1>3, DeleteKeys DEF Delete
  <1>4. ASSUME NEW d \in Devices, NEW e \in Devices, bluetooth_process_advertisement(d, e)
        PROVE  NoSelf'
    BY <1>4, ListenerKeys DEF bluetooth_process_advertisement, TypeOK
  <1>5. ASSUME NEW d \in Devices, Leave(d) PROVE NoSelf'
    BY <1>5, LeaveKeys DEF Leave, TypeOK
  <1>6. CASE UNCHANGED <<local_group, inbox>>
    BY <1>6, KeysUnchanged
  <1> QED BY <1>1, <1>2, <1>3, <1>4, <1>5, <1>6
             DEF Next, MainThread, Listener, BeginCollect, local_consensus, EndConsensus,
                 Examine, EndPass, Join, vars

\* A device that is off stays blank until it is switched on.
LEMMA OffNext == DeviceInv /\ [Next]_vars => OffIsBlank'
  <1> SUFFICES ASSUME DeviceInv, [Next]_vars PROVE OffIsBlank'
    OBVIOUS
  <1> USE DEF DeviceInv, OffIsBlank, TypeOK
  <1>1. CASE Tick
    BY <1>1, TickKeys DEF Tick
  <1>2. ASSUME NEW d \in Devices, Advertise(d) PROVE OffIsBlank'
    BY <1>2, KeysUnchanged DEF Advertise, PruneOrLoop
  <1>3. ASSUME NEW d \in Devices, Delete(d) PROVE OffIsBlank'
    BY <1>3, DeleteKeys DEF Delete, PruneOrLoop
  <1>4. ASSUME NEW d \in Devices, NEW e \in Devices, bluetooth_process_advertisement(d, e)
        PROVE  OffIsBlank'
    BY <1>4, ListenerKeys DEF bluetooth_process_advertisement, Running
  <1>5. ASSUME NEW d \in Devices, Leave(d) PROVE OffIsBlank'
    BY <1>5, LeaveKeys DEF Leave
  <1>6. ASSUME NEW d \in Devices,
               \/ BeginCollect(d) \/ local_consensus(d) \/ EndConsensus(d)
               \/ EndPass(d) \/ Join(d) \/ \E k \in Devices : Examine(d, k)
        PROVE  OffIsBlank'
    BY <1>6, KeysUnchanged DEF BeginCollect, local_consensus, EndConsensus, EndPass, Join,
       Examine, PruneOrLoop
  <1>7. CASE UNCHANGED vars
    BY <1>7, KeysUnchanged DEF vars
  <1> QED BY <1>1, <1>2, <1>3, <1>4, <1>5, <1>6, <1>7 DEF Next, MainThread, Listener

\* Where main goes when it has tested the ages: back to its loop only if none
\* is too old.
LEMMA BackToLoop ==
    ASSUME NEW group \in [Devices -> Age], NEW since \in Nat
    PROVE  /\ PruneOrLoop(group, since) \in {"loop", "prune"}
           /\ PruneOrLoop(group, since) = "loop" =>
                 \A e \in Devices : group[e] - since < HeartbeatTimer
  BY NoOldKeys DEF PruneOrLoop

\* Ages stay within the bounds of each place in main's loop.
LEMMA AgesNext == DeviceInv /\ [Next]_vars => AgesInv'
  <1> SUFFICES ASSUME DeviceInv, [Next]_vars PROVE AgesInv'
    OBVIOUS
  <1> USE TimesAssumption DEF DeviceInv, AgesInv
  <1>0. /\ main \in [Devices -> Place] /\ elapsed \in [Devices -> Nat]
        /\ local_group \in [Devices -> [Devices -> Age]]
        /\ \A d \in Devices : elapsed[d] <= ConsensusTime /\ elapsed[d] \in Nat
    BY DEF TypeOK
  <1>1. CASE Tick
    <2> SUFFICES ASSUME NEW d \in Devices, NEW e \in Devices,
                        main[d] \in {"loop", "trigger", "collect", "consensus"}
                 PROVE  /\ main[d] \in {"loop", "consensus"}
                        /\ elapsed[d]' = elapsed[d] + 1
                        /\ local_group[d][e]' \in Age
                        /\ local_group[d][e]' <= local_group[d][e] + 1
      BY <1>0, <1>1 DEF Tick, Age, Absent
    <2>1. main[d] \in {"loop", "consensus"}
      BY <1>1 DEF Tick, Idle
    <2>2. elapsed[d]' = elapsed[d] + 1 /\ local_group[d][e]' = Older(local_group[d][e])
      BY <1>1 DEF Tick
    <2> QED BY <1>0, <2>1, <2>2, OlderType
  <1>2. ASSUME NEW d \in Devices, Advertise(d) PROVE AgesInv'
    <2>1. /\ elapsed' = [elapsed EXCEPT ![d] = 0] /\ local_group' = local_group
          /\ main' = [main EXCEPT ![d] = IF StartsConsensus(Keys(d)) THEN "trigger"
                                         ELSE PruneOrLoop(local_group[d], 0)]
      BY <1>2 DEF Advertise
    <2>2. \A e \in Devices : local_group[d][e] < HeartbeatTimer + ConsensusTime
      BY <1>0, <1>2 DEF Advertise, Age, Absent
    <2>3. main'[d] \in {"trigger", "loop", "prune"}
          /\ (main'[d] = "loop" => \A e \in Devices : local_group[d][e] - 0 < HeartbeatTimer)
      BY <1>0, <2>1, BackToLoop
    <2> QED BY <1>0, <2>1, <2>2, <2>3
  <1>3. ASSUME NEW d \in Devices, EndConsensus(d) PROVE AgesInv'
    <2>1. /\ main' = [main EXCEPT ![d] = PruneOrLoop(local_group[d], elapsed[d])]
          /\ elapsed' = elapsed /\ local_group' = local_group
      BY <1>3 DEF EndConsensus
    <2>2. main'[d] \in {"loop", "prune"}
          /\ (main'[d] = "loop" =>
                 \A e \in Devices : local_group[d][e] - elapsed[d] < HeartbeatTimer)
      BY <1>0, <2>1, BackToLoop
    <2> QED BY <1>0, <2>1, <2>2
  <1>4. ASSUME NEW d \in Devices, Delete(d) PROVE AgesInv'
    <2> DEFINE left == [e \in Devices |-> IF e \in doomed[d] THEN Absent ELSE local_group[d][e]]
    <2>1. /\ local_group' = [local_group EXCEPT ![d] = left]
          /\ main' = [main EXCEPT ![d] = PruneOrLoop(left, elapsed[d])]
          /\ elapsed' = elapsed
      BY <1>4 DEF Delete
    <2>2. left \in [Devices -> Age]
      BY <1>0 DEF Age
    <2> HIDE DEF left
    <2>3. main'[d] \in {"loop", "prune"}
          /\ (main'[d] = "loop" => \A e \in Devices : left[e] - elapsed[d] < HeartbeatTimer)
      BY <1>0, <2>1, <2>2, BackToLoop
    <2> QED BY <1>0, <2>1, <2>2, <2>3
  <1>5. ASSUME NEW d \in Devices, EndPass(d) PROVE AgesInv'
    <2>1. \A e \in Devices : local_group[d][e] - elapsed[d] < HeartbeatTimer
      BY <1>0, <1>5, NoOldKeys DEF EndPass
    <2> QED BY <1>0, <1>5, <2>1 DEF EndPass
  <1>6. ASSUME NEW d \in Devices, NEW e \in Devices, bluetooth_process_advertisement(d, e)
        PROVE  AgesInv'
    BY <1>0, <1>6 DEF bluetooth_process_advertisement
  <1>7. ASSUME NEW d \in Devices, BeginCollect(d) PROVE AgesInv'
    BY <1>0, <1>7 DEF BeginCollect
  <1>8. ASSUME NEW d \in Devices, local_consensus(d) PROVE AgesInv'
    <2>1. elapsed' = elapsed /\ local_group' = local_group
          /\ \A c \in Devices \ {d} : main'[c] = main[c]
      BY <1>0, <1>8 DEF local_consensus
    <2>2. main'[d] \in {"consensus", "dead"} /\ elapsed[d] = 0
          /\ \A e \in Devices :
                local_group[d][e] - elapsed[d] < HeartbeatTimer + ConsensusTime
      BY <1>0, <1>8 DEF local_consensus, Age, Absent
    <2> QED BY <1>0, <2>1, <2>2
  <1>9. ASSUME NEW d \in Devices, NEW k \in Devices, Examine(d, k) PROVE AgesInv'
    BY <1>0, <1>9 DEF Examine
  <1>10. ASSUME NEW d \in Devices, Join(d) PROVE AgesInv'
    <2>1. \A e \in Devices : local_group[d][e] = Absent
      BY <1>10 DEF Join, OffIsBlank, Keys
    <2> QED BY <1>0, <1>10, <2>1 DEF Join, OffIsBlank, Absent
  <1>11. ASSUME NEW d \in Devices, Leave(d) PROVE AgesInv'
    BY <1>0, <1>11 DEF Leave
  <1>12. CASE UNCHANGED vars
    BY <1>12 DEF vars
  <1> QED BY <1>1, <1>2, <1>3, <1>4, <1>5, <1>6, <1>7, <1>8, <1>9, <1>10, <1>11, <1>12
             DEF Next, MainThread, Listener

\* CollectInv, EnoughMembers and OnlyCrowdsKillMain count the same keys.
CountInv == CollectInv /\ EnoughMembers /\ OnlyCrowdsKillMain

\* What is counted and collected by a consensus stays enough.
LEMMA CountNext == DeviceInv /\ [Next]_vars => CountInv'
  <1> SUFFICES ASSUME DeviceInv, [Next]_vars PROVE CountInv'
    OBVIOUS
  <1> USE TimesAssumption DEF DeviceInv, CountInv, CollectInv, EnoughMembers, OnlyCrowdsKillMain
  <1>0. /\ main \in [Devices -> Place] /\ comm_dict \in [Devices -> SUBSET Devices]
        /\ \A d \in Devices : IsFiniteSet(Keys(d)) /\ Cardinality(Keys(d)) \in Nat
    BY KeysFinite DEF TypeOK
  <1>1. CASE Tick
    BY <1>0, <1>1, TickKeys DEF Tick
  <1>2. ASSUME NEW d \in Devices, Advertise(d) PROVE CountInv'
    <2>1. main'[d] = "trigger" => Cardinality(Keys(d)) = Trigger
      BY <1>0, <1>2 DEF Advertise, StartsConsensus, PruneOrLoop
    <2>2. main'[d] \notin {"collect", "consensus", "dead"}
      BY <1>0, <1>2 DEF Advertise, PruneOrLoop
    <2>3. \A c \in Devices \ {d} : main'[c] = main[c]
      BY <1>0, <1>2 DEF Advertise
    <2>4. comm_dict' = comm_dict /\ \A c \in Devices : Keys(c)' = Keys(c)
      BY <1>2, KeysUnchanged DEF Advertise
    <2> QED BY <1>0, <2>1, <2>2, <2>3, <2>4
  <1>3. ASSUME NEW d \in Devices, BeginCollect(d) PROVE CountInv'
    BY <1>0, <1>3, KeysUnchanged DEF BeginCollect
  <1>4. ASSUME NEW d \in Devices, local_consensus(d) PROVE CountInv'
    <2>1. /\ \A c \in Devices : Keys(c)' = Keys(c)
          /\ \A c \in Devices \ {d} : main'[c] = main[c] /\ comm_dict'[c] = comm_dict[c]
      BY <1>0, <1>4, KeysUnchanged DEF local_consensus
    <2>2. comm_dict[d] \subseteq Keys(d) /\ Cardinality(comm_dict[d]) >= Trigger
      BY <1>4 DEF local_consensus
    <2>3. CASE Keys(d) = comm_dict[d]
      <3>1. main'[d] = "consensus" /\ comm_dict'[d] = Keys(d) \cup {d}
        BY <1>0, <1>4, <2>3 DEF local_consensus
      <3>2. Cardinality(comm_dict'[d]) = Cardinality(Keys(d)) + 1
        BY <1>0, <3>1, FS_AddElement DEF NoSelf
      <3>3. d \in comm_dict'[d] /\ Cardinality(comm_dict'[d]) > Trigger
        BY <1>0, <2>2, <2>3, <3>1, <3>2
      <3>4. CollectInv'
        BY <1>0, <2>1, <3>1
      <3>5. EnoughMembers'
        BY <1>0, <2>1, <3>1, <3>3
      <3>6. OnlyCrowdsKillMain'
        BY <1>0, <2>1, <3>1
      <3> QED BY <3>4, <3>5, <3>6
    <2>4. CASE Keys(d) # comm_dict[d]
      <3>1. main'[d] = "dead"
        BY <1>0, <1>4, <2>4 DEF local_consensus
      <3>2. Cardinality(Keys(d)) > Trigger
        BY <1>0, <2>2, <2>4, MoreKeys
      <3> QED BY <1>0, <2>1, <3>1, <3>2
    <2> QED BY <2>3, <2>4
  <1>5. ASSUME NEW d \in Devices, EndConsensus(d) PROVE CountInv'
    BY <1>0, <1>5, KeysUnchanged DEF EndConsensus, PruneOrLoop
  <1>6. ASSUME NEW d \in Devices, NEW k \in Devices, Examine(d, k) PROVE CountInv'
    BY <1>0, <1>6, KeysUnchanged DEF Examine
  <1>7. ASSUME NEW d \in Devices, Delete(d) PROVE CountInv'
    BY <1>0, <1>7, DeleteKeys, ZenonT(60) DEF Delete, PruneOrLoop
  <1>8. ASSUME NEW d \in Devices, EndPass(d) PROVE CountInv'
    BY <1>0, <1>8, KeysUnchanged DEF EndPass
  <1>9. ASSUME NEW d \in Devices, NEW e \in Devices, bluetooth_process_advertisement(d, e)
        PROVE  CountInv'
    <2>1. \A c \in Devices : Keys(c) \subseteq Keys(c)' /\ IsFiniteSet(Keys(c)')
      BY <1>0, <1>9, ListenerKeys, FS_AddElement
    <2>2. \A c \in Devices : Cardinality(Keys(c)') \in Nat
                             /\ Cardinality(Keys(c)) <= Cardinality(Keys(c)')
      BY <2>1, MoreKeys
    <2> QED BY <1>0, <1>9, <2>1, <2>2 DEF bluetooth_process_advertisement
  <1>10. ASSUME NEW d \in Devices, Join(d) PROVE CountInv'
    BY <1>0, <1>10, KeysUnchanged DEF Join
  <1>11. ASSUME NEW d \in Devices, Leave(d) PROVE CountInv'
    <2>1. main'[d] = "off"
          /\ \A c \in Devices \ {d} : /\ main'[c] = main[c] /\ comm_dict'[c] = comm_dict[c]
                                      /\ Keys(c)' = Keys(c)
      BY <1>0, <1>11, LeaveKeys DEF Leave
    <2> QED BY <1>0, <2>1
  <1>12. CASE UNCHANGED vars
    BY <1>12, KeysUnchanged DEF vars
  <1> QED BY <1>1, <1>2, <1>3, <1>4, <1>5, <1>6, <1>7, <1>8, <1>9, <1>10, <1>11, <1>12
             DEF Next, MainThread, Listener

-----------------------------------------------------------------------------

\* The invariant holds when every device is off.
LEMMA InitInv == Init => DeviceInv
  <1> SUFFICES ASSUME Init PROVE DeviceInv
    OBVIOUS
  <1>1. \A d \in Devices : main[d] = "off" /\ elapsed[d] = 0 /\ Keys(d) = {} /\ inbox[d] = {}
    BY DEF Init, Keys, Nobody
  <1> QED BY <1>1, InitType
             DEF DeviceInv, NoSelf, OffIsBlank, AgesInv, CollectInv, EnoughMembers,
                 OnlyCrowdsKillMain

\* Every step keeps the invariant.
LEMMA NextInv == DeviceInv /\ [Next]_vars => DeviceInv'
  BY NextType, NoSelfNext, OffNext, AgesNext, CountNext DEF DeviceInv, CountInv

\* The invariant holds throughout.
LEMMA Invariance == Spec => []DeviceInv
  BY InitInv, NextInv, PTL DEF Spec

\* Every variable keeps its type; the time of main never passes a consensus.
THEOREM TypeCorrect == Spec => []TypeOK
  <1>1. DeviceInv => TypeOK
    BY DEF DeviceInv
  <1> QED BY <1>1, Invariance, PTL

\* Whatever the listener enters while main prunes, the neighbours that are left
\* at the end of the pass were heard within the heartbeat timer.
THEOREM PassLeavesRecent == Spec => []GroupIsRecent
  <1>1. DeviceInv => GroupIsRecent
    BY TimesAssumption DEF DeviceInv, TypeOK, AgesInv, GroupIsRecent, Keys, Age, Absent
  <1> QED BY <1>1, Invariance, PTL

\* However many consensuses follow each other, no member of one has been silent
\* for a whole consensus and the heartbeat timer.
THEOREM MembersNotSilent == Spec => []SilenceIsBounded
  <1>1. DeviceInv => SilenceIsBounded
    BY DEF DeviceInv, TypeOK, AgesInv, SilenceIsBounded, SilenceAtStart
  <1> QED BY <1>1, Invariance, PTL

\* A consensus runs with the device itself and at least Trigger others, though
\* the table is open to the listener while they are collected.
THEOREM ConsensusHasMembers == Spec => []EnoughMembers
  <1>1. DeviceInv => EnoughMembers
    BY DEF DeviceInv
  <1> QED BY <1>1, Invariance, PTL

\* The iteration in local_consensus kills main only if it knows more than
\* Trigger neighbours.
THEOREM CrowdsKillMain == Spec => []OnlyCrowdsKillMain
  <1>1. DeviceInv => OnlyCrowdsKillMain
    BY DEF DeviceInv
  <1> QED BY <1>1, Invariance, PTL

=============================================================================
