----------------------------- MODULE EdgeServer -----------------------------
(***************************************************************************)
(* The edge server of src/edge.py and the edge side of src/node.py.  The   *)
(* edge advertises itself through the relay of src/edge_broadcast_node.py; *)
(* a device that hears it connects over TCP, once, and responds on that    *)
(* connection to this and every later advert.  A pool of the edge serves   *)
(* the connections, one worker for the lifetime of each, and enters the    *)
(* device in known_nodes, which the edge's main thread prunes.             *)
(*                                                                         *)
(* The edge may crash and restart, devices come and go.  Threads share     *)
(* their tables without a common lock (a fresh one at every `with`).  Time *)
(* is counted in EDGE_ADVERTISEMENT_INTERVALs, one second, long for        *)
(* threads and datagrams: the clock waits for due work.                    *)
(***************************************************************************)
EXTENDS Integers, FiniteSets, Sequences, SequencesExt

CONSTANTS
    Devices,         \* the devices that the relay serves
    MaxWorkers,      \* workers of node_listener_pool: 10
    HeartbeatTimer,  \* EDGE_HEARTBEAT_TIMER, in intervals: 10
    MaxCrash,        \* bound: crashes of the edge
    MaxLeave         \* bound: departures of devices

ASSUME DevicesAssumption == IsFiniteSet(Devices)
ASSUME BoundsAssumption ==
    /\ MaxWorkers \in Nat \ {0} /\ HeartbeatTimer \in Nat \ {0}
    /\ MaxCrash \in Nat /\ MaxLeave \in Nat

VARIABLES
    edge,         \* where the main thread of the edge is; "down": no process
    elapsed,      \* time since it read systime
    known_nodes,  \* age of the entry of each key, Absent if there is none
    doomed,       \* the key that main found too old and is about to delete
    connections,  \* accepted connections in order; the first MaxWorkers are served
    listener,     \* edge_broadcast_listener of each device
    sock,         \* edge_unicast_tx_socket of each device
    address,      \* age of edge_server_address_time, Absent for None
    expiring,     \* devices whose main found the address too old
    advert,       \* devices in whose receive socket an advert waits
    crashes,      \* crashes so far
    departures,   \* departures so far
    crowded       \* history: a connection has had to wait for a worker

vars == <<edge, elapsed, known_nodes, doomed, connections, listener, sock,
          address, expiring, advert, crashes, departures, crowded>>
edgeVars == <<edge, elapsed, known_nodes, doomed>>
deviceVars == <<listener, sock, address, expiring, advert>>
historyVars == <<crashes, departures, crowded>>

-----------------------------------------------------------------------------

Absent == -1
Age == Nat \cup {Absent}

\* A response "address,id" is entered under its id.  Of two that are received
\* together, "address,idaddress,id", the key is the id with an address behind.
Key == Devices \X {"id", "garbled"}

\* unread counts the responses in the receive buffer, two standing for more;
\* closed: the device has closed its end.
Connection == [device : Devices, unread : 0 .. 2, closed : BOOLEAN]

Up == edge # "down"

Init ==
    /\ edge = "loop" /\ elapsed = 0
    /\ known_nodes = [k \in Key |-> Absent]
    /\ doomed = {}
    /\ connections = <<>>
    /\ listener = [d \in Devices |-> "on"]
    /\ sock = [d \in Devices |-> "none"]
    /\ address = [d \in Devices |-> Absent]
    /\ expiring = {}
    /\ advert = {}
    /\ crashes = 0 /\ departures = 0 /\ crowded = FALSE

-----------------------------------------------------------------------------
(* The connections.  node_listener_pool starts its tasks in the order of   *)
(* submission and each runs until its connection is closed: the served     *)
(* connections are the first ones that are left.                           *)

Served(i) == i \in DOMAIN connections /\ i <= MaxWorkers

\* Mutant of Respond: a device sends its response twice.
RespondTwice(d, conns) ==
    [i \in DOMAIN conns |->
        IF conns[i].device = d /\ ~conns[i].closed
        THEN [conns[i] EXCEPT !.unread = 2] ELSE conns[i]]

\* The bytes of a response join those that are not read yet.
Respond(d, conns) ==
    [i \in DOMAIN conns |->
        IF conns[i].device = d /\ ~conns[i].closed
        THEN [conns[i] EXCEPT !.unread = IF @ = 2 THEN 2 ELSE @ + 1]
        ELSE conns[i]]

NewConnection(d) == [device |-> d, unread |-> 0, closed |-> FALSE]

Closed(d, conns) ==
    [i \in DOMAIN conns |->
        IF conns[i].device = d THEN [conns[i] EXCEPT !.closed = TRUE] ELSE conns[i]]

\* maintain_existing_connection: recv returns all that is there.
maintain_existing_connection(i) ==
    /\ Up /\ Served(i)
    /\ connections[i].unread > 0
    /\ known_nodes' = [known_nodes EXCEPT
                          ![<<connections[i].device,
                              IF connections[i].unread = 1 THEN "id" ELSE "garbled">>] = 0]
    /\ connections' = [connections EXCEPT ![i].unread = 0]
    /\ UNCHANGED <<edge, elapsed, doomed, deviceVars, historyVars>>

\* After the end of the stream recv returns nothing, and message[1] raises an
\* IndexError that ends the task and frees its worker.
EndOfStream(i) ==
    /\ Up /\ Served(i)
    /\ connections[i].unread = 0 /\ connections[i].closed
    /\ connections' = RemoveAt(connections, i)
    /\ UNCHANGED <<edgeVars, deviceVars, historyVars>>

-----------------------------------------------------------------------------
(* The main thread of the edge.                                            *)

\* Mutant of TooOld: recent keys are pruned.
TooOldSwapped(k, since) ==
    known_nodes[k] # Absent /\ known_nodes[k] - since < HeartbeatTimer

\* Mutant of TooOld: a key is pruned one interval late.
TooOldLate(k, since) ==
    known_nodes[k] # Absent /\ known_nodes[k] - since > HeartbeatTimer

TooOld(k, since) ==
    known_nodes[k] # Absent /\ known_nodes[k] - since >= HeartbeatTimer

\* A key that is refreshed or entered after the copy of the keys passes the
\* test: what is left of the copy are the old keys.
OldKeys(since) == {k \in Key : TooOld(k, since)}

\* The relay sends to every device but those in missed: a device that is off
\* makes the relay miss the next one (errno 111).
Relay(missed) ==
    /\ Cardinality(missed) <= Cardinality({d \in Devices : listener[d] = "off"})
    /\ advert' = advert \cup {d \in Devices \ missed : listener[d] = "on"}

\* The head of main's loop: the advert and a copy of the keys.
broadcast_advertisement ==
    /\ edge = "loop" /\ elapsed > 0
    /\ elapsed' = 0
    /\ \E missed \in SUBSET Devices : Relay(missed)
    /\ edge' = IF OldKeys(0) = {} THEN "loop" ELSE "prune"
    /\ UNCHANGED <<known_nodes, doomed, connections, listener, sock, address,
                   expiring, historyVars>>

Examine(k) ==
    /\ edge = "prune"
    /\ k \in OldKeys(elapsed)
    /\ doomed' = {k}
    /\ edge' = "delete"
    /\ UNCHANGED <<elapsed, known_nodes, connections, deviceVars, historyVars>>

\* Mutant of Delete: the entry is renewed instead of deleted.
DeleteByRenewing ==
    /\ edge = "delete"
    /\ known_nodes' = [k \in Key |-> IF k \in doomed THEN 0 ELSE known_nodes[k]]
    /\ doomed' = {}
    /\ edge' = IF OldKeys(elapsed) \subseteq doomed THEN "loop" ELSE "prune"
    /\ UNCHANGED <<elapsed, connections, deviceVars, historyVars>>

\* The deletion, whatever the workers have entered in between.
Delete ==
    /\ edge = "delete"
    /\ known_nodes' = [k \in Key |-> IF k \in doomed THEN Absent ELSE known_nodes[k]]
    /\ doomed' = {}
    /\ edge' = IF OldKeys(elapsed) \subseteq doomed THEN "loop" ELSE "prune"
    /\ UNCHANGED <<elapsed, connections, deviceVars, historyVars>>

EndPass ==
    /\ edge = "prune" /\ OldKeys(elapsed) = {}
    /\ edge' = "loop"
    /\ UNCHANGED <<elapsed, known_nodes, doomed, connections, deviceVars, historyVars>>

-----------------------------------------------------------------------------
(* The threads of a device that deal with the edge.                        *)

\* Mutant of Connects: every advert opens another connection.
ConnectsAlways(d) == sock[d] \in {"none", "open"}

\* connect opens a connection on a fresh socket; on one that was ever connected
\* it fails with EISCONN (errno 106), which edge_responder ignores.
Connects(d) == sock[d] = "none"

\* Mutant of Raises: EISCONN is raised like every other error.
RaisesIfConnected(d) == sock[d] # "none" \/ ~Up

\* ECONNREFUSED by connect, or EPIPE by send on a connection that was reset.
Raises(d) == sock[d] = "reset" \/ (sock[d] = "none" /\ ~Up)

\* edge_responder: the first bytes to an end that is closed are answered by a
\* reset; an error that is raised ends the listener thread.
edge_responder(d) ==
    IF Raises(d)
    THEN /\ listener' = [listener EXCEPT ![d] = "dead"]
         /\ UNCHANGED <<sock, connections, crowded>>
    ELSE /\ sock' = [sock EXCEPT ![d] = IF @ = "closed" THEN "reset" ELSE "open"]
         /\ connections' = Respond(d, IF Connects(d)
                                      THEN Append(connections, NewConnection(d))
                                      ELSE connections)
         /\ crowded' = (crowded \/ Len(connections') > MaxWorkers)
         /\ UNCHANGED listener

\* edge_process_advertisement, then edge_responder, in the listener thread.
edge_broadcast_listener(d) ==
    /\ listener[d] = "on"
    /\ d \in advert
    /\ advert' = advert \ {d}
    /\ address' = [address EXCEPT ![d] = 0]
    /\ edge_responder(d)
    /\ UNCHANGED <<edgeVars, expiring, crashes, departures>>

\* Mutant of FindExpired: a dead listener's address is kept.
FindExpiredWhileListening(d) ==
    /\ listener[d] = "on"
    /\ d \notin expiring /\ address[d] >= HeartbeatTimer
    /\ expiring' = expiring \cup {d}
    /\ UNCHANGED <<edgeVars, connections, listener, sock, address, advert, historyVars>>

\* Main of a device looks at edge_server_address_time twice in an interval.
FindExpired(d) ==
    /\ listener[d] # "off"
    /\ d \notin expiring /\ address[d] >= HeartbeatTimer
    /\ expiring' = expiring \cup {d}
    /\ UNCHANGED <<edgeVars, connections, listener, sock, address, advert, historyVars>>

\* It forgets the address, be it refreshed since.
Expire(d) ==
    /\ d \in expiring
    /\ expiring' = expiring \ {d}
    /\ address' = [address EXCEPT ![d] = Absent]
    /\ UNCHANGED <<edgeVars, connections, listener, sock, advert, historyVars>>

-----------------------------------------------------------------------------
(* Processes come and go, and time passes.                                 *)

\* d has an open connection with responses that the edge has not read.
HasUnread(d) ==
    \E i \in DOMAIN connections :
        /\ connections[i].device = d /\ ~connections[i].closed
        /\ connections[i].unread > 0

\* The edge dies.  The kernel closes its connections, by a reset where bytes
\* are unread.
Crash ==
    /\ Up /\ crashes < MaxCrash
    /\ crashes' = crashes + 1
    /\ edge' = "down" /\ elapsed' = 0
    /\ known_nodes' = [k \in Key |-> Absent]
    /\ doomed' = {}
    /\ connections' = <<>>
    /\ sock' = [d \in Devices |-> IF sock[d] # "open" THEN sock[d]
                                  ELSE IF HasUnread(d) THEN "reset" ELSE "closed"]
    /\ UNCHANGED <<listener, address, expiring, advert, departures, crowded>>

Restart ==
    /\ ~Up
    /\ edge' = "loop"
    /\ UNCHANGED <<elapsed, known_nodes, doomed, connections, deviceVars, historyVars>>

\* A device is switched off; the kernel closes its connection.
Leave(d) ==
    /\ listener[d] # "off" /\ departures < MaxLeave
    /\ departures' = departures + 1
    /\ listener' = [listener EXCEPT ![d] = "off"]
    /\ sock' = [sock EXCEPT ![d] = "none"]
    /\ address' = [address EXCEPT ![d] = Absent]
    /\ expiring' = expiring \ {d}
    /\ advert' = advert \ {d}
    /\ connections' = Closed(d, connections)
    /\ UNCHANGED <<edgeVars, crashes, crowded>>

\* It is switched on again when its old connection has left TIME_WAIT.
Join(d) ==
    /\ listener[d] = "off"
    /\ listener' = [listener EXCEPT ![d] = "on"]
    /\ UNCHANGED <<edgeVars, connections, sock, address, expiring, advert, historyVars>>

EdgeIdle ==
    /\ edge = "down" \/ (edge = "loop" /\ elapsed = 0)
    /\ \A i \in DOMAIN connections :
          Served(i) => connections[i].unread = 0 /\ ~connections[i].closed

DevicesIdle ==
    /\ expiring = {}
    /\ \A d \in Devices :
          /\ listener[d] = "on" => d \notin advert
          /\ address[d] < HeartbeatTimer

\* Mutant of Older: ages run backwards.
OlderDownwards(a) == IF a = Absent THEN Absent ELSE a - 2

Older(a) == IF a = Absent THEN Absent ELSE a + 1

Tick ==
    /\ EdgeIdle /\ DevicesIdle
    /\ elapsed' = IF Up THEN elapsed + 1 ELSE elapsed
    /\ known_nodes' = [k \in Key |-> Older(known_nodes[k])]
    /\ address' = [d \in Devices |-> Older(address[d])]
    /\ UNCHANGED <<edge, doomed, connections, listener, sock, expiring, advert,
                   historyVars>>

Main ==
    \/ broadcast_advertisement
    \/ \E k \in Key : Examine(k)
    \/ Delete
    \/ EndPass

Worker(i) == maintain_existing_connection(i) \/ EndOfStream(i)

DeviceThread(d) ==
    \/ edge_broadcast_listener(d)
    \/ FindExpired(d)
    \/ Expire(d)

Next ==
    \/ Tick \/ Main
    \/ \E i \in 1 .. MaxWorkers : Worker(i)
    \/ \E d \in Devices : DeviceThread(d) \/ Leave(d) \/ Join(d)
    \/ Crash \/ Restart

Spec == Init /\ [][Next]_vars

\* The clock runs, and each thread is scheduled.
Fairness ==
    /\ WF_vars(Tick) /\ WF_vars(Main)
    /\ \A i \in 1 .. MaxWorkers : WF_vars(Worker(i))
    /\ \A d \in Devices : WF_vars(DeviceThread(d))

FairSpec == Spec /\ Fairness

-----------------------------------------------------------------------------
(* Properties.                                                             *)

TypeOK ==
    /\ edge \in {"down", "loop", "prune", "delete"}
    /\ elapsed \in {0, 1}
    /\ known_nodes \in [Key -> Age]
    /\ doomed \subseteq Key
    /\ connections \in Seq(Connection)
    /\ listener \in [Devices -> {"off", "on", "dead"}]
    /\ sock \in [Devices -> {"none", "open", "closed", "reset"}]
    /\ address \in [Devices -> Age]
    /\ expiring \subseteq Devices /\ advert \subseteq Devices
    /\ crashes \in 0 .. MaxCrash /\ departures \in 0 .. MaxLeave
    /\ crowded \in BOOLEAN

\* When the edge has finished its pass over the keys, every node it knows has
\* responded within the heartbeat timer, however the workers' entries fell
\* between the tests and the deletions.
KnownIsRecent ==
    edge = "loop" /\ elapsed = 0 => \A k \in Key : known_nodes[k] < HeartbeatTimer

\* A device stops listening to the edge only after a crash of the edge: the
\* second and later connects on its socket never raise what the code re-raises.
OnlyCrashesSilence ==
    \A d \in Devices : listener[d] = "dead" => crashes > 0

\* TCP keeps no borders between responses, yet a key that no device has is
\* entered only if more devices were connected than the pool has workers, so
\* that a connection collected responses while it waited for one.
GarbledOnlyIfCrowded ==
    \A d \in Devices : known_nodes[<<d, "garbled">>] # Absent => crowded

\* One worker of the pool per device: each reconnects only when it has left, or
\* forgotten, its old connection.
OneConnectionEach ==
    \A d \in Devices :
        Cardinality({i \in DOMAIN connections :
            connections[i].device = d /\ ~connections[i].closed})
        = IF sock[d] = "open" THEN 1 ELSE 0

AllStay == Up /\ \A d \in Devices : listener[d] # "off"

\* While edge and devices stay, a device whose connection is served becomes
\* and stays known, whatever was pruned, queued or garbled before.
ServedAreKnown ==
    \A d \in Devices :
        <>[](/\ AllStay /\ listener[d] = "on"
             /\ \E i \in 1 .. MaxWorkers :
                   Served(i) /\ connections[i].device = d /\ ~connections[i].closed)
        => <>[](known_nodes[<<d, "id">>] # Absent)

\* A device that has left for good is forgotten for good, under every key.
DepartedForgotten ==
    \A d \in Devices :
        <>[](listener[d] = "off") =>
        <>[](\A k \in Key : k[1] = d => known_nodes[k] = Absent)

\* An edge that is gone for good is forgotten by every device.
EdgeForgotten ==
    <>[]~Up => <>[](\A d \in Devices : address[d] = Absent)

=============================================================================
