------------------------------- MODULE Device -------------------------------
(***************************************************************************)
(* The local group of src/node.py.  Every device advertises itself through *)
(* the relay of src/bluetooth_broadcast_node.py, keeps the time at which   *)
(* it last heard each neighbour, forgets those that were silent for the    *)
(* heartbeat timer, and runs a consensus when it knows exactly Trigger     *)
(* neighbours.                                                             *)
(*                                                                         *)
(* A device has two threads: main, and the listener that enters an advert. *)
(* Each `with threading.Lock()` makes a lock of its own, so they share     *)
(* local_group unprotected and interleave between any two accesses.        *)
(*                                                                         *)
(* Time is counted in advertisement intervals.  A half-second is long for  *)
(* a thread and a datagram: the clock waits for due work.  local_group     *)
(* holds the age of an entry instead of its time, elapsed is the age of    *)
(* the systime that main read at the head of its loop.                     *)
(***************************************************************************)
EXTENDS Integers, FiniteSets

CONSTANTS
    Devices,         \* NODE_INDEX of the devices that the relay serves
    Trigger,         \* neighbours that start a consensus: 3
    HeartbeatTimer,  \* BLUETOOTH_HEARTBEAT_TIMER, in intervals: 10
    ConsensusTime,   \* the two sleeps of local_consensus, in intervals: 40
    Mobile           \* bound: the devices that may leave again

ASSUME DevicesAssumption == IsFiniteSet(Devices) /\ Mobile \subseteq Devices
ASSUME TimesAssumption ==
    /\ Trigger \in Nat
    /\ HeartbeatTimer \in Nat \ {0}
    /\ ConsensusTime \in Nat \ {0}

VARIABLES
    main,         \* where the main thread is; "off": no process
    elapsed,      \* time since main read systime
    local_group,  \* age of the entry of each neighbour, Absent if there is none
    doomed,       \* the key that main found too old and is about to delete
    comm_dict,    \* the members that local_consensus collects
    inbox         \* devices whose advert waits in the receive socket

vars == <<main, elapsed, local_group, doomed, comm_dict, inbox>>

-----------------------------------------------------------------------------

Absent == -1

Age == Nat \cup {Absent}

Place == {"off", "loop", "trigger", "collect", "consensus", "prune", "delete", "dead"}

\* local_group.keys()
Keys(d) == {e \in Devices : local_group[d][e] # Absent}

Running(d) == main[d] # "off"

Nobody == [e \in Devices |-> Absent]

Init ==
    /\ main = [d \in Devices |-> "off"]
    /\ elapsed = [d \in Devices |-> 0]
    /\ local_group = [d \in Devices |-> Nobody]
    /\ doomed = [d \in Devices |-> {}]
    /\ comm_dict = [d \in Devices |-> {}]
    /\ inbox = [d \in Devices |-> {}]

-----------------------------------------------------------------------------
(* Processes come and go, and time passes.                                 *)

\* A device is switched on: main binds its sockets and starts the listener.
Join(d) ==
    /\ main[d] = "off"
    /\ main' = [main EXCEPT ![d] = "loop"]
    /\ UNCHANGED <<elapsed, local_group, doomed, comm_dict, inbox>>

\* A device is switched off, or carried out of reach, at any moment.
Leave(d) ==
    /\ d \in Mobile /\ Running(d)
    /\ main' = [main EXCEPT ![d] = "off"]
    /\ elapsed' = [elapsed EXCEPT ![d] = 0]
    /\ local_group' = [local_group EXCEPT ![d] = Nobody]
    /\ doomed' = [doomed EXCEPT ![d] = {}]
    /\ comm_dict' = [comm_dict EXCEPT ![d] = {}]
    /\ inbox' = [inbox EXCEPT ![d] = {}]

\* Nothing is left to do for d at this instant.
Idle(d) ==
    /\ inbox[d] = {}
    /\ \/ main[d] \in {"off", "dead"}
       \/ main[d] = "loop" /\ elapsed[d] = 0
       \/ main[d] = "consensus" /\ elapsed[d] < ConsensusTime

\* Mutant of Older: ages run backwards.
OlderDownwards(a) == IF a = Absent THEN Absent ELSE a - 2

Older(a) == IF a = Absent THEN Absent ELSE a + 1

\* An interval passes.  Nobody reads the tables of a dead main thread again.
Tick ==
    /\ \A d \in Devices : Idle(d)
    /\ LET live == {d \in Devices : main[d] \notin {"off", "dead"}}
       IN  /\ live # {}
           /\ elapsed' = [d \in Devices |->
                             IF d \in live THEN elapsed[d] + 1 ELSE elapsed[d]]
           /\ local_group' = [d \in Devices |->
                                 IF d \in live
                                 THEN [e \in Devices |-> Older(local_group[d][e])]
                                 ELSE local_group[d]]
    /\ UNCHANGED <<main, doomed, comm_dict, inbox>>

-----------------------------------------------------------------------------
(* The relay.                                                              *)

\* Mutant of Recipients: the relay sends an advert back to its sender too.
RecipientsAndSender(d) == {e \in Devices : Running(e)}

Recipients(d) == {e \in Devices \ {d} : Running(e)}

\* The relay sends d's advert to each recipient but those in missed.  A send to
\* a device that is off provokes an ICMP error which the next send on the same
\* socket reports (errno 111): that advert is not sent.
Relay(d, missed) ==
    /\ missed \subseteq Recipients(d)
    /\ Cardinality(missed) <= Cardinality({e \in Devices : ~Running(e)})
    /\ inbox' = [e \in Devices |-> IF e \in Recipients(d) \ missed
                                   THEN inbox[e] \cup {d} ELSE inbox[e]]

-----------------------------------------------------------------------------
(* The threads of a device.                                                *)

\* Mutant of bluetooth_process_advertisement: a full table takes no newcomer.
bluetooth_process_advertisement_full(d, e) ==
    /\ Running(d)
    /\ e \in inbox[d]
    /\ inbox' = [inbox EXCEPT ![d] = @ \ {e}]
    /\ local_group' = IF e \in Keys(d) \/ Cardinality(Keys(d)) < Trigger
                      THEN [local_group EXCEPT ![d][e] = 0] ELSE local_group
    /\ UNCHANGED <<main, elapsed, doomed, comm_dict>>

\* The listener thread enters the advert of e.
bluetooth_process_advertisement(d, e) ==
    /\ Running(d)
    /\ e \in inbox[d]
    /\ inbox' = [inbox EXCEPT ![d] = @ \ {e}]
    /\ local_group' = [local_group EXCEPT ![d][e] = 0]
    /\ UNCHANGED <<main, elapsed, doomed, comm_dict>>

\* Mutant of StartsConsensus: one neighbour less suffices.
StartsConsensusEarly(keys) == Cardinality(keys) + 1 >= Trigger

StartsConsensus(keys) == Cardinality(keys) = Trigger

\* Mutant of TooOld: a neighbour is dropped one interval late.
TooOldLate(age, since) == age - since > HeartbeatTimer

\* The test of an entry of this age in a pass whose systime was read since ago.
TooOld(age, since) == age - since >= HeartbeatTimer

\* Main's pass over a copy of the keys.  A key that is not too old stays so when
\* the listener refreshes it, and one that it enters later is younger than
\* systime: what is left of the copy are the old keys.
OldKeys(group, since) ==
    {k \in Devices : group[k] # Absent /\ TooOld(group[k], since)}

PruneOrLoop(group, since) == IF OldKeys(group, since) = {} THEN "loop" ELSE "prune"

bluetooth_sender(d) == \E missed \in SUBSET Devices : Relay(d, missed)

\* The head of main's loop: bluetooth_sender, a copy of the keys and the test
\* of their number.
Advertise(d) ==
    /\ main[d] = "loop" /\ elapsed[d] > 0
    /\ elapsed' = [elapsed EXCEPT ![d] = 0]
    /\ bluetooth_sender(d)
    /\ main' = [main EXCEPT ![d] = IF StartsConsensus(Keys(d)) THEN "trigger"
                                   ELSE PruneOrLoop(local_group[d], 0)]
    /\ UNCHANGED <<local_group, doomed, comm_dict>>

\* local_consensus begins to iterate over the keys as they are now.
BeginCollect(d) ==
    /\ main[d] = "trigger"
    /\ comm_dict' = [comm_dict EXCEPT ![d] = Keys(d)]
    /\ main' = [main EXCEPT ![d] = "collect"]
    /\ UNCHANGED <<elapsed, local_group, doomed, inbox>>

\* The iteration ends; a key entered meanwhile raises RuntimeError, which ends
\* the main thread.  Otherwise a Raft node starts and main sleeps.
local_consensus(d) ==
    /\ main[d] = "collect"
    /\ IF Keys(d) = comm_dict[d]
       THEN /\ comm_dict' = [comm_dict EXCEPT ![d] = @ \cup {d}]
            /\ main' = [main EXCEPT ![d] = "consensus"]
       ELSE /\ main' = [main EXCEPT ![d] = "dead"]
            /\ UNCHANGED comm_dict
    /\ UNCHANGED <<elapsed, local_group, doomed, inbox>>

\* After its sleeps local_consensus stops its Raft node and returns.
EndConsensus(d) ==
    /\ main[d] = "consensus" /\ elapsed[d] = ConsensusTime
    /\ comm_dict' = [comm_dict EXCEPT ![d] = {}]
    /\ main' = [main EXCEPT ![d] = PruneOrLoop(local_group[d], elapsed[d])]
    /\ UNCHANGED <<elapsed, local_group, doomed, inbox>>

\* The pass finds a key that is too old ...
Examine(d, k) ==
    /\ main[d] = "prune"
    /\ k \in OldKeys(local_group[d], elapsed[d])
    /\ doomed' = [doomed EXCEPT ![d] = {k}]
    /\ main' = [main EXCEPT ![d] = "delete"]
    /\ UNCHANGED <<elapsed, local_group, comm_dict, inbox>>

\* Mutant of Delete: the entry is renewed instead of deleted.
DeleteByRenewing(d) ==
    /\ main[d] = "delete"
    /\ LET left == [e \in Devices |-> IF e \in doomed[d] THEN 0
                                      ELSE local_group[d][e]]
       IN  /\ local_group' = [local_group EXCEPT ![d] = left]
           /\ main' = [main EXCEPT ![d] = PruneOrLoop(left, elapsed[d])]
    /\ doomed' = [doomed EXCEPT ![d] = {}]
    /\ UNCHANGED <<elapsed, comm_dict, inbox>>

\* ... and deletes it, whatever the listener has done in between.
Delete(d) ==
    /\ main[d] = "delete"
    /\ LET left == [e \in Devices |-> IF e \in doomed[d] THEN Absent
                                      ELSE local_group[d][e]]
       IN  /\ local_group' = [local_group EXCEPT ![d] = left]
           /\ main' = [main EXCEPT ![d] = PruneOrLoop(left, elapsed[d])]
    /\ doomed' = [doomed EXCEPT ![d] = {}]
    /\ UNCHANGED <<elapsed, comm_dict, inbox>>

\* The listener has refreshed the old keys before the pass came to them.
EndPass(d) ==
    /\ main[d] = "prune"
    /\ OldKeys(local_group[d], elapsed[d]) = {}
    /\ main' = [main EXCEPT ![d] = "loop"]
    /\ UNCHANGED <<elapsed, local_group, doomed, comm_dict, inbox>>

MainThread(d) ==
    \/ Advertise(d)
    \/ BeginCollect(d)
    \/ local_consensus(d)
    \/ EndConsensus(d)
    \/ \E k \in Devices : Examine(d, k)
    \/ Delete(d)
    \/ EndPass(d)

Listener(d) == \E e \in Devices : bluetooth_process_advertisement(d, e)

Next ==
    \/ Tick
    \/ \E d \in Devices : MainThread(d) \/ Listener(d) \/ Join(d) \/ Leave(d)

Spec == Init /\ [][Next]_vars

\* The clock runs, and each thread is scheduled.
Fairness ==
    /\ WF_vars(Tick)
    /\ \A d \in Devices : WF_vars(MainThread(d)) /\ WF_vars(Listener(d))

FairSpec == Spec /\ Fairness

-----------------------------------------------------------------------------
(* Properties.                                                             *)

TypeOK ==
    /\ main \in [Devices -> Place]
    /\ elapsed \in [Devices -> 0 .. ConsensusTime]
    /\ local_group \in [Devices -> [Devices -> Age]]
    /\ doomed \in [Devices -> SUBSET Devices]
    /\ comm_dict \in [Devices -> SUBSET Devices]
    /\ inbox \in [Devices -> SUBSET Devices]

\* When main has finished its pass over the keys, every neighbour that is left
\* was heard within the heartbeat timer, however the listener's entries fell
\* between the copy of the keys, the tests and the deletions.
GroupIsRecent ==
    \A d \in Devices : main[d] = "loop" /\ elapsed[d] = 0 =>
        \A e \in Keys(d) : local_group[d][e] < HeartbeatTimer

\* How long ago d had heard e when its consensus began.
SilenceAtStart(d, e) == local_group[d][e] - elapsed[d]

\* The pass after a consensus measures ages from a systime read before it, and
\* the next consensus may start before the pass that would prune: a member may
\* have been silent for a whole consensus and almost a heartbeat timer more, but
\* what was too old before a consensus is never a member of the next one.
SilenceIsBounded ==
    \A d \in Devices : main[d] = "consensus" =>
        \A e \in comm_dict[d] \ {d} :
            SilenceAtStart(d, e) < HeartbeatTimer + ConsensusTime

\* A consensus has the device itself and at least Trigger others as members:
\* the majority its Raft node counts with is one of Trigger + 1 or more.
EnoughMembers ==
    \A d \in Devices : main[d] = "consensus" =>
        d \in comm_dict[d] /\ Cardinality(comm_dict[d]) > Trigger

\* The RuntimeError of the iteration in local_consensus needs a neighbour
\* beyond the Trigger ones: a group of Trigger + 1 devices never loses a main.
OnlyCrowdsKillMain ==
    \A d \in Devices : main[d] = "dead" => Cardinality(Keys(d)) > Trigger

\* A device that has left for good is forgotten for good.
DepartedForgotten ==
    \A e \in Mobile : \A d \in Devices \ {e} :
        <>[](~Running(e)) => <>[](e \notin Keys(d) \/ main[d] = "dead")

Alive(d) == Running(d) /\ main[d] # "dead"

\* While all devices stay, one that came back is known to each other again and
\* again, for all the consensuses that keep its main from advertising.
NeighboursFound ==
    \A e \in Mobile : \A d \in Devices \ {e} :
        <>[](\A f \in Devices : Alive(f)) => []<>(e \in Keys(d))

=============================================================================
