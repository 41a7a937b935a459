------------------------- MODULE EdgeServer_proofs -------------------------
(***************************************************************************)
(* The safety properties of EdgeServer for every set of devices, every     *)
(* size of the pool, every heartbeat timer and any number of crashes of    *)
(* the edge and departures of devices.                                     *)
(***************************************************************************)
EXTENDS EdgeServer, FiniteSetTheorems, SequenceTheorems, TLAPS

-----------------------------------------------------------------------------
(* The inductive invariant.                                                *)

\* The edge's clock has moved only between the tick and its next advert.
ClockInv == elapsed = 1 => edge = "loop" /\ advert = {}

\* An edge that is down remembers nobody.
DownIsBlank == edge = "down" => elapsed = 0 /\ \A k \in Key : known_nodes[k] = Absent

\* Only a crash of the edge breaks a socket.
CrashInv ==
    /\ edge = "down" => crashes > 0
    /\ \A d \in Devices : sock[d] \in {"closed", "reset"} => crashes > 0

IsOpen(i, d) == connections[i].device = d /\ ~connections[i].closed

\* A device has an open connection exactly while its socket is open, and one only.
OpenInv ==
    \A d \in Devices :
        /\ sock[d] = "open" <=> \E i \in DOMAIN connections : IsOpen(i, d)
        /\ \A i, j \in DOMAIN connections : IsOpen(i, d) /\ IsOpen(j, d) => i = j

\* As long as no connection has had to wait, every one has a worker, which has
\* read its response before the next advert: what is unread is one response.
QuietInv ==
    ~crowded =>
        /\ Len(connections) <= MaxWorkers
        /\ \A i \in DOMAIN connections :
              /\ connections[i].unread <= 1
              /\ ~connections[i].closed /\ (elapsed = 1 \/ connections[i].device \in advert)
                    => connections[i].unread = 0

\* Adverts wait only where they were sent to.
AdvertInv == \A d \in advert : listener[d] = "on"

EdgeInv ==
    /\ TypeOK /\ ClockInv /\ DownIsBlank /\ CrashInv /\ AdvertInv
    /\ OpenInv /\ QuietInv
    /\ KnownIsRecent /\ OnlyCrashesSilence /\ GarbledOnlyIfCrowded

-----------------------------------------------------------------------------
(* Lemmas on the connections.                                              *)

\* A tick ages an entry and enters nobody.
LEMMA OlderType ==
    ASSUME NEW a \in Age
    PROVE  Older(a) \in Age /\ (Older(a) = Absent <=> a = Absent)
  BY DEF Age, Older, Absent

\* The fields of an accepted connection.
LEMMA ConnectionFields ==
    ASSUME NEW c \in Connection
    PROVE  c.device \in Devices /\ c.unread \in 0 .. 2 /\ c.closed \in BOOLEAN
  BY DEF Connection

\* A function on the positions of a sequence is a sequence as long.
LEMMA SameDomain ==
    ASSUME NEW S, NEW s \in Seq(S), NEW f \in [DOMAIN s -> S]
    PROVE  f \in Seq(S) /\ Len(f) = Len(s) /\ DOMAIN f = DOMAIN s
  <1>1. Len(s) \in Nat /\ DOMAIN s = 1 .. Len(s)
    BY LenProperties
  <1>2. f \in [1 .. Len(s) -> S]
    BY <1>1
  <1>3. f \in Seq(S)
    BY <1>1, <1>2, SeqDef
  <1> QED BY <1>1, <1>2, <1>3, LenProperties

\* A response reaches the open connections of d and leaves the others alone.
LEMMA RespondLaw ==
    ASSUME NEW d \in Devices, NEW conns \in Seq(Connection)
    PROVE  /\ Respond(d, conns) \in Seq(Connection)
           /\ Len(Respond(d, conns)) = Len(conns)
           /\ DOMAIN Respond(d, conns) = DOMAIN conns
           /\ \A i \in DOMAIN conns :
                 /\ Respond(d, conns)[i].device = conns[i].device
                 /\ Respond(d, conns)[i].closed = conns[i].closed
                 /\ Respond(d, conns)[i].unread =
                       IF conns[i].device = d /\ ~conns[i].closed
                       THEN IF conns[i].unread = 2 THEN 2 ELSE conns[i].unread + 1
                       ELSE conns[i].unread
  <1>1. \A i \in DOMAIN conns : conns[i] \in Connection
    BY LenProperties, ElementOfSeq
  <1>2. Respond(d, conns) \in [DOMAIN conns -> Connection]
    BY <1>1 DEF Respond, Connection
  <1>3. \A i \in DOMAIN conns :
           /\ Respond(d, conns)[i].device = conns[i].device
           /\ Respond(d, conns)[i].closed = conns[i].closed
           /\ Respond(d, conns)[i].unread =
                 IF conns[i].device = d /\ ~conns[i].closed
                 THEN IF conns[i].unread = 2 THEN 2 ELSE conns[i].unread + 1
                 ELSE conns[i].unread
    BY <1>1 DEF Respond, Connection
  <1> QED BY <1>2, <1>3, SameDomain

\* The end of a device closes its connections where they are.
LEMMA ClosedLaw ==
    ASSUME NEW d \in Devices, NEW conns \in Seq(Connection)
    PROVE  /\ Closed(d, conns) \in Seq(Connection)
           /\ Len(Closed(d, conns)) = Len(conns)
           /\ DOMAIN Closed(d, conns) = DOMAIN conns
           /\ \A i \in DOMAIN conns :
                 /\ Closed(d, conns)[i].device = conns[i].device
                 /\ Closed(d, conns)[i].closed <=> conns[i].closed \/ conns[i].device = d
                 /\ Closed(d, conns)[i].unread = conns[i].unread
  <1>1. \A i \in DOMAIN conns : conns[i] \in Connection
    BY LenProperties, ElementOfSeq
  <1>2. Closed(d, conns) \in [DOMAIN conns -> Connection]
    BY <1>1 DEF Closed, Connection
  <1>3. \A i \in DOMAIN conns :
           /\ Closed(d, conns)[i].device = conns[i].device
           /\ Closed(d, conns)[i].closed <=> conns[i].closed \/ conns[i].device = d
           /\ Closed(d, conns)[i].unread = conns[i].unread
    BY <1>1 DEF Closed, Connection
  <1> QED BY <1>2, <1>3, SameDomain

\* A recv of a worker empties one connection and leaves the others alone.
LEMMA ReadLaw ==
    ASSUME NEW conns \in Seq(Connection), NEW i \in DOMAIN conns
    PROVE  LET read == [conns EXCEPT ![i].unread = 0]
           IN  /\ read \in Seq(Connection) /\ Len(read) = Len(conns)
               /\ DOMAIN read = DOMAIN conns
               /\ \A j \in DOMAIN conns :
                     /\ read[j].device = conns[j].device
                     /\ read[j].closed = conns[j].closed
                     /\ read[j].unread = IF j = i THEN 0 ELSE conns[j].unread
  <1> DEFINE read == [conns EXCEPT ![i].unread = 0]
  <1>1. \A j \in DOMAIN conns : conns[j] \in Connection
    BY LenProperties, ElementOfSeq
  <1>2. read \in [DOMAIN conns -> Connection]
    BY <1>1 DEF Connection
  <1>3. \A j \in DOMAIN conns :
           /\ read[j].device = conns[j].device
           /\ read[j].closed = conns[j].closed
           /\ read[j].unread = IF j = i THEN 0 ELSE conns[j].unread
    BY <1>1 DEF Connection
  <1> QED BY <1>2, <1>3, SameDomain

\* An accepted connection is the last in the line for a worker.
LEMMA AppendLaw ==
    ASSUME NEW d \in Devices, NEW conns \in Seq(Connection)
    PROVE  LET longer == Append(conns, NewConnection(d))
           IN  /\ longer \in Seq(Connection) /\ Len(longer) = Len(conns) + 1
               /\ DOMAIN longer = DOMAIN conns \cup {Len(conns) + 1}
               /\ longer[Len(conns) + 1] = NewConnection(d)
               /\ \A j \in DOMAIN conns : longer[j] = conns[j]
  <1>1. NewConnection(d) \in Connection
    BY DEF NewConnection, Connection
  <1> QED BY <1>1, LenProperties

\* The connections behind a closed one move up.
LEMMA RemoveLaw ==
    ASSUME NEW S, NEW s \in Seq(S), NEW i \in 1 .. Len(s)
    PROVE  /\ RemoveAt(s, i) \in Seq(S)
           /\ Len(RemoveAt(s, i)) = Len(s) - 1
           /\ \A j \in 1 .. Len(s) - 1 :
                 RemoveAt(s, i)[j] = s[IF j < i THEN j ELSE j + 1]
  <1>1. Len(s) \in Nat /\ \A j \in 1 .. Len(s) : s[j] \in S
    BY LenProperties, ElementOfSeq
  <1> DEFINE front == SubSeq(s, 1, i - 1)
             back  == SubSeq(s, i + 1, Len(s))
  <1>2. /\ front \in Seq(S) /\ Len(front) = i - 1
        /\ \A j \in 1 .. i - 1 : front[j] = s[j]
    BY <1>1, SubSeqProperties
  <1>3. /\ back \in Seq(S) /\ Len(back) = Len(s) - i
        /\ \A j \in 1 .. Len(s) - i : back[j] = s[i + j]
    BY <1>1, SubSeqProperties
  <1>4. RemoveAt(s, i) = front \o back
    BY DEF RemoveAt
  <1> HIDE DEF front, back
  <1>5. /\ front \o back \in Seq(S) /\ Len(front \o back) = Len(s) - 1
        /\ \A j \in 1 .. Len(s) - 1 :
              (front \o back)[j] = IF j <= i - 1 THEN front[j] ELSE back[j - (i - 1)]
    <2>1. /\ front \o back \in Seq(S) /\ Len(front \o back) = Len(front) + Len(back)
          /\ \A j \in 1 .. Len(front) + Len(back) : (front \o back)[j] =
                IF j <= Len(front) THEN front[j] ELSE back[j - Len(front)]
      BY <1>2, <1>3, ConcatProperties, Zenon
    <2>2. Len(front) + Len(back) = Len(s) - 1
      BY <1>1, <1>2, <1>3
    <2> QED BY <1>2, <2>1, <2>2
  <1> QED BY <1>1, <1>2, <1>3, <1>4, <1>5

-----------------------------------------------------------------------------
(* Each part of the invariant is kept, one step per action.                *)

\* Every step of the edge, its workers and the devices keeps the types.
LEMMA TypeNext == EdgeInv /\ [Next]_vars => TypeOK'
  <1> SUFFICES ASSUME EdgeInv, [Next]_vars PROVE TypeOK'
    OBVIOUS
  <1> USE DEF EdgeInv, TypeOK, edgeVars, deviceVars, historyVars
  <1>1. ASSUME NEW i \in 1 .. MaxWorkers, maintain_existing_connection(i) PROVE TypeOK'
    <2>1. connections' \in Seq(Connection)
      BY <1>1, ReadLaw DEF maintain_existing_connection, Served
    <2>2. known_nodes' \in [Key -> Age]
      BY <1>1 DEF maintain_existing_connection, Age
    <2> QED BY <1>1, <2>1, <2>2 DEF maintain_existing_connection
  <1>2. ASSUME NEW i \in 1 .. MaxWorkers, EndOfStream(i) PROVE TypeOK'
    <2>1. connections' \in Seq(Connection)
      BY <1>2, RemoveLaw, LenProperties DEF EndOfStream, Served
    <2> QED BY <1>2, <2>1 DEF EndOfStream
  <1>3. CASE broadcast_advertisement
    BY <1>3 DEF broadcast_advertisement, Relay
  <1>4. ASSUME NEW k \in Key, Examine(k) PROVE TypeOK'
    BY <1>4 DEF Examine
  <1>5. CASE Delete
    BY <1>5 DEF Delete, Age
  <1>6. CASE EndPass
    BY <1>6 DEF EndPass
  <1>7. ASSUME NEW d \in Devices, edge_broadcast_listener(d) PROVE TypeOK'
    <2>1. /\ listener' \in [Devices -> {"off", "on", "dead"}]
          /\ sock' \in [Devices -> {"none", "open", "closed", "reset"}]
          /\ connections' \in Seq(Connection) /\ crowded' \in BOOLEAN
      <3>1. CASE Raises(d)
        BY <1>7, <3>1 DEF edge_broadcast_listener, edge_responder
      <3>2. CASE ~Raises(d)
        <4> DEFINE conns == IF Connects(d) THEN Append(connections, NewConnection(d))
                                           ELSE connections
        <4>1. conns \in Seq(Connection)
          BY AppendLaw
        <4>2. connections' = Respond(d, conns)
          BY <1>7, <3>2 DEF edge_broadcast_listener, edge_responder
        <4>3. connections' \in Seq(Connection)
          BY <4>1, <4>2, RespondLaw
        <4>4. /\ listener' = listener /\ crowded' \in BOOLEAN
              /\ sock' = [sock EXCEPT ![d] = IF @ = "closed" THEN "reset" ELSE "open"]
          BY <1>7, <3>2 DEF edge_broadcast_listener, edge_responder
        <4> QED BY <4>3, <4>4
      <3> QED BY <3>1, <3>2
    <2> QED BY <1>7, <2>1 DEF edge_broadcast_listener, Age
  <1>8. ASSUME NEW d \in Devices, FindExpired(d) \/ Expire(d) PROVE TypeOK'
    BY <1>8 DEF FindExpired, Expire, Age
  <1>9. CASE Crash
    BY <1>9, BoundsAssumption DEF Crash, Up, Age
  <1>10. CASE Restart
    BY <1>10 DEF Restart
  <1>11. ASSUME NEW d \in Devices, Leave(d) PROVE TypeOK'
    <2>1. connections' \in Seq(Connection)
      BY <1>11, ClosedLaw DEF Leave
    <2>2. departures' \in 0 .. MaxLeave
      BY <1>11, BoundsAssumption DEF Leave
    <2> QED BY <1>11, <2>1, <2>2 DEF Leave, Age
  <1>12. ASSUME NEW d \in Devices, Join(d) PROVE TypeOK'
    BY <1>12 DEF Join
  <1>13. CASE Tick
    BY <1>13, OlderType DEF Tick, EdgeIdle, Up
  <1>14. CASE UNCHANGED vars
    BY <1>14 DEF vars
  <1> QED BY <1>1, <1>2, <1>3, <1>4, <1>5, <1>6, <1>7, <1>8, <1>9, <1>10, <1>11, <1>12,
             <1>13, <1>14 DEF Next, Main, Worker, DeviceThread

\* The steps of devices and workers leave the edge's main thread alone.
LEMMA EdgeVarsNext ==
    ASSUME EdgeInv, [Next]_vars
    PROVE  \/ UNCHANGED edgeVars
           \/ broadcast_advertisement \/ Delete \/ EndPass \/ Crash \/ Restart \/ Tick
           \/ \E k \in Key : Examine(k)
           \/ \E i \in 1 .. MaxWorkers : maintain_existing_connection(i)
  BY DEF Next, Main, Worker, DeviceThread, edgeVars, EndOfStream, edge_broadcast_listener,
         FindExpired, Expire, Leave, Join, vars

\* Time passes only between two passes of the edge.
LEMMA ClockNext == EdgeInv /\ [Next]_vars => ClockInv'
  <1> SUFFICES ASSUME EdgeInv, [Next]_vars PROVE ClockInv'
    OBVIOUS
  <1> USE DEF EdgeInv, TypeOK, ClockInv, DownIsBlank, AdvertInv, deviceVars
  <1>1. CASE Tick
    BY <1>1 DEF Tick, EdgeIdle, DevicesIdle, Up
  <1>2. CASE broadcast_advertisement \/ Crash
    BY <1>2 DEF broadcast_advertisement, Crash
  <1>3. CASE Delete \/ EndPass \/ Restart \/ \E k \in Key : Examine(k)
    BY <1>3 DEF Delete, EndPass, Restart, Examine, Up
  <1>4. CASE /\ UNCHANGED <<edge, elapsed>> /\ advert' \subseteq advert
    BY <1>4
  <1> QED BY <1>1, <1>2, <1>3, <1>4
             DEF Next, Main, Worker, DeviceThread, EndOfStream, edge_broadcast_listener,
                 maintain_existing_connection, FindExpired, Expire, Leave, Join, vars, edgeVars

\* An edge that is down stays blank until it restarts.
LEMMA DownNext == EdgeInv /\ [Next]_vars => DownIsBlank'
  <1> SUFFICES ASSUME EdgeInv, [Next]_vars PROVE DownIsBlank'
    OBVIOUS
  <1> USE DEF EdgeInv, TypeOK, DownIsBlank
  <1>1. CASE Tick
    BY <1>1, OlderType DEF Tick, Up
  <1>2. CASE broadcast_advertisement \/ Delete \/ EndPass \/ Restart \/ \E k \in Key : Examine(k)
    BY <1>2 DEF broadcast_advertisement, Delete, EndPass, Restart, Examine
  <1>3. CASE Crash
    BY <1>3 DEF Crash
  <1>4. ASSUME NEW i \in 1 .. MaxWorkers, maintain_existing_connection(i) PROVE DownIsBlank'
    BY <1>4 DEF maintain_existing_connection, Up
  <1>5. CASE UNCHANGED edgeVars
    BY <1>5 DEF edgeVars
  <1> QED BY <1>1, <1>2, <1>3, <1>4, <1>5, EdgeVarsNext

\* Only Crash takes the edge down and counts; only the first bytes after it
\* meet a reset.
LEMMA CrashNext == EdgeInv /\ [Next]_vars => CrashInv' /\ OnlyCrashesSilence'
  <1> SUFFICES ASSUME EdgeInv, [Next]_vars PROVE CrashInv' /\ OnlyCrashesSilence'
    OBVIOUS
  <1> USE DEF EdgeInv, TypeOK, CrashInv, OnlyCrashesSilence
  <1>1. CASE Crash
    BY <1>1 DEF Crash
  <1>2. ASSUME NEW d \in Devices, edge_broadcast_listener(d)
        PROVE  CrashInv' /\ OnlyCrashesSilence'
    BY <1>2 DEF edge_broadcast_listener, edge_responder, Raises, Up, edgeVars
  <1>3. ASSUME NEW d \in Devices, Leave(d) \/ Join(d)
        PROVE  CrashInv' /\ OnlyCrashesSilence'
    BY <1>3 DEF Leave, Join, edgeVars, historyVars
  <1>4. CASE /\ UNCHANGED <<crashes, sock, listener>>
             /\ edge' = "down" => edge = "down"
    BY <1>4
  <1> QED BY <1>1, <1>2, <1>3, <1>4
             DEF Next, Main, Worker, DeviceThread, EndOfStream, broadcast_advertisement,
                 Examine, Delete, EndPass, maintain_existing_connection, FindExpired,
                 Expire, Restart, Tick, vars, edgeVars, deviceVars, historyVars

\* An advert of the edge waits only for a listener that runs.
LEMMA AdvertNext == EdgeInv /\ [Next]_vars => AdvertInv'
  <1> SUFFICES ASSUME EdgeInv, [Next]_vars PROVE AdvertInv'
    OBVIOUS
  <1> USE DEF EdgeInv, TypeOK, AdvertInv
  <1>1. CASE broadcast_advertisement
    BY <1>1 DEF broadcast_advertisement, Relay
  <1>2. ASSUME NEW d \in Devices, edge_broadcast_listener(d) PROVE AdvertInv'
    BY <1>2 DEF edge_broadcast_listener, edge_responder
  <1>3. ASSUME NEW d \in Devices, Leave(d) \/ Join(d) PROVE AdvertInv'
    BY <1>3 DEF Leave, Join
  <1>4. CASE UNCHANGED <<listener, advert>>
    BY <1>4
  <1> QED BY <1>1, <1>2, <1>3, <1>4
             DEF Next, Main, Worker, DeviceThread, EndOfStream, Examine, Delete, EndPass,
                 maintain_existing_connection, FindExpired, Expire, Crash, Restart, Tick,
                 vars, deviceVars

\* Reading and responding change neither whose a connection is nor its end.
LEMMA OpenKept ==
    ASSUME OpenInv, sock' = sock, DOMAIN connections' = DOMAIN connections,
           \A i \in DOMAIN connections : /\ connections'[i].device = connections[i].device
                                         /\ connections'[i].closed = connections[i].closed
    PROVE  OpenInv'
  BY DEF OpenInv, IsOpen

\* Sockets and accepted connections stay in step.
LEMMA OpenNext == EdgeInv /\ [Next]_vars => OpenInv'
  <1> SUFFICES ASSUME EdgeInv, [Next]_vars PROVE OpenInv'
    OBVIOUS
  <1>0. /\ OpenInv /\ connections \in Seq(Connection)
        /\ sock \in [Devices -> {"none", "open", "closed", "reset"}]
        /\ Len(connections) \in Nat /\ DOMAIN connections = 1 .. Len(connections)
    BY LenProperties DEF EdgeInv, TypeOK
  <1>1. ASSUME NEW i \in 1 .. MaxWorkers, maintain_existing_connection(i) PROVE OpenInv'
    <2>1. i \in DOMAIN connections /\ connections' = [connections EXCEPT ![i].unread = 0]
          /\ sock' = sock
      BY <1>1 DEF maintain_existing_connection, Served, deviceVars
    <2> QED BY <1>0, <2>1, ReadLaw, OpenKept
  <1>2. ASSUME NEW i \in 1 .. MaxWorkers, EndOfStream(i) PROVE OpenInv'
    <2>1. /\ i \in 1 .. Len(connections) /\ connections[i].closed
          /\ connections' = RemoveAt(connections, i) /\ sock' = sock
      BY <1>0, <1>2 DEF EndOfStream, Served, deviceVars
    <2> DEFINE old(j) == IF j < i THEN j ELSE j + 1
    <2>2. /\ DOMAIN connections' = 1 .. Len(connections) - 1
          /\ \A j \in DOMAIN connections' : connections'[j] = connections[old(j)]
      <3>1. PICK c \in Seq(Connection) : c = connections
        BY DEF EdgeInv, TypeOK
      <3>2. PICK r : r = RemoveAt(c, i)
        OBVIOUS
      <3>3. i \in 1 .. Len(c)
        BY <2>1, <3>1
      <3>4. /\ r \in Seq(Connection) /\ Len(r) = Len(c) - 1
            /\ \A j \in 1 .. Len(c) - 1 : r[j] = c[IF j < i THEN j ELSE j + 1]
        BY <3>2, <3>3, RemoveLaw, Zenon
      <3>5. DOMAIN r = 1 .. Len(c) - 1
        BY <3>4, LenProperties
      <3> QED BY <2>1, <3>1, <3>2, <3>4, <3>5
    <2>3. \A d \in Devices : \A j \in DOMAIN connections' : IsOpen(j, d)' = IsOpen(old(j), d)
      BY <2>2 DEF IsOpen
    <2>4. \A j \in DOMAIN connections' :
             old(j) \in DOMAIN connections /\ old(j) # i
      BY <1>0, <2>1, <2>2
    <2>5. \A j, k \in DOMAIN connections' : old(j) = old(k) => j = k
      BY <1>0, <2>1, <2>2
    <2>6. \A n \in DOMAIN connections \ {i} : \E j \in DOMAIN connections' : old(j) = n
      <3> SUFFICES ASSUME NEW n \in DOMAIN connections \ {i}
                   PROVE  \E j \in DOMAIN connections' : old(j) = n
        OBVIOUS
      <3>1. CASE n < i
        BY <1>0, <2>1, <2>2, <3>1
      <3>2. CASE n > i
        <4>1. n - 1 \in DOMAIN connections' /\ old(n - 1) = n
          BY <1>0, <2>1, <2>2, <3>2
        <4> QED BY <4>1
      <3> QED BY <1>0, <2>1, <3>1, <3>2
    <2>7. \A d \in Devices : ~IsOpen(i, d)
      BY <2>1 DEF IsOpen
    <2> HIDE DEF old
    <2> QED BY <1>0, <2>1, <2>3, <2>4, <2>5, <2>6, <2>7 DEF OpenInv
  <1>3. ASSUME NEW d \in Devices, edge_broadcast_listener(d) PROVE OpenInv'
    <2>1. edge_responder(d)
      BY <1>3 DEF edge_broadcast_listener
    <2>2. CASE Raises(d)
      BY <1>0, <2>1, <2>2, OpenKept DEF edge_responder
    <2>3. CASE ~Raises(d) /\ Connects(d)
      <3> DEFINE longer == Append(connections, NewConnection(d))
      <3>0. PICK last : last = Len(connections) + 1
        OBVIOUS
      <3>1. /\ longer \in Seq(Connection)
            /\ DOMAIN longer = DOMAIN connections \cup {last}
            /\ longer[last].device = d /\ ~longer[last].closed
            /\ \A j \in DOMAIN connections : longer[j] = connections[j] /\ j # last
        BY <1>0, <3>0, AppendLaw DEF NewConnection
      <3>2. connections' = Respond(d, longer) /\ sock' = [sock EXCEPT ![d] = "open"]
        BY <1>0, <2>1, <2>3 DEF edge_responder, Connects
      <3> HIDE DEF longer
      <3>3. /\ DOMAIN connections' = DOMAIN connections \cup {last}
            /\ \A e \in Devices : \A j \in DOMAIN connections : IsOpen(j, e)' <=> IsOpen(j, e)
            /\ \A e \in Devices : IsOpen(last, e)' <=> e = d
        <4>1. /\ DOMAIN connections' = DOMAIN longer
              /\ \A j \in DOMAIN longer : /\ connections'[j].device = longer[j].device
                                          /\ connections'[j].closed = longer[j].closed
          BY <3>1, <3>2, RespondLaw
        <4>2. last \in DOMAIN longer /\ \A j \in DOMAIN connections : j \in DOMAIN longer
          BY <3>1
        <4>3. \A e \in Devices : \A j \in DOMAIN connections : IsOpen(j, e)' <=> IsOpen(j, e)
          BY <3>1, <4>1, <4>2 DEF IsOpen
        <4>4. \A e \in Devices : IsOpen(last, e)' <=> e = d
          BY <3>1, <4>1, <4>2 DEF IsOpen
        <4> QED BY <3>1, <4>1, <4>3, <4>4
      <3>4. \A j \in DOMAIN connections : ~IsOpen(j, d)
        BY <1>0, <2>3 DEF OpenInv, Connects
      <3>5. \A e \in Devices \ {d} :
               /\ sock'[e] = sock[e]
               /\ \A j \in DOMAIN connections' : IsOpen(j, e)' <=> j # last /\ IsOpen(j, e)
        <4> SUFFICES ASSUME NEW e \in Devices \ {d}
                     PROVE  /\ sock'[e] = sock[e]
                            /\ \A j \in DOMAIN connections' :
                                  IsOpen(j, e)' <=> j # last /\ IsOpen(j, e)
          OBVIOUS
        <4>1. sock'[e] = sock[e]
          BY <1>0, <3>2
        <4> QED BY <3>1, <3>3, <4>1
      <3>6. sock'[d] = "open" /\ \A j \in DOMAIN connections' : IsOpen(j, d)' <=> j = last
        <4>1. sock'[d] = "open"
          BY <1>0, <3>2
        <4> QED BY <3>1, <3>3, <3>4, <4>1
      <3> QED BY <1>0, <3>1, <3>3, <3>5, <3>6 DEF OpenInv
    <2>4. CASE ~Raises(d) /\ ~Connects(d)
      <3>1. connections' = Respond(d, connections)
            /\ \A e \in Devices : sock'[e] = "open" <=> sock[e] = "open"
        BY <1>0, <2>1, <2>4 DEF edge_responder, Connects, Raises
      <3>2. /\ DOMAIN connections' = DOMAIN connections
            /\ \A e \in Devices : \A j \in DOMAIN connections : IsOpen(j, e)' = IsOpen(j, e)
        BY <1>0, <3>1, RespondLaw DEF IsOpen
      <3> QED BY <1>0, <3>1, <3>2 DEF OpenInv
    <2> QED BY <2>2, <2>3, <2>4
  <1>4. CASE Crash
    <2>1. DOMAIN connections' = {} /\ \A d \in Devices : sock'[d] # "open"
      BY <1>0, <1>4 DEF Crash
    <2> QED BY <2>1 DEF OpenInv
  <1>5. ASSUME NEW d \in Devices, Leave(d) PROVE OpenInv'
    <2>1. connections' = Closed(d, connections) /\ sock' = [sock EXCEPT ![d] = "none"]
      BY <1>5 DEF Leave
    <2>2. /\ DOMAIN connections' = DOMAIN connections
          /\ \A e \in Devices : \A j \in DOMAIN connections :
                IsOpen(j, e)' <=> IsOpen(j, e) /\ e # d
      BY <1>0, <2>1, ClosedLaw DEF IsOpen
    <2> QED BY <1>0, <2>1, <2>2 DEF OpenInv
  <1>6. CASE UNCHANGED <<connections, sock>>
    BY <1>0, <1>6, OpenKept
  <1> QED BY <1>1, <1>2, <1>3, <1>4, <1>5, <1>6
             DEF Next, Main, Worker, DeviceThread, broadcast_advertisement, Examine, Delete,
                 EndPass, FindExpired, Expire, Restart, Join, Tick, vars, deviceVars

\* While nobody waits for a worker, responses are read one by one.
LEMMA QuietNext == EdgeInv /\ [Next]_vars => QuietInv'
  <1> SUFFICES ASSUME EdgeInv, [Next]_vars, ~crowded' PROVE QuietInv'
    BY DEF QuietInv
  <1>0. /\ connections \in Seq(Connection) /\ crowded \in BOOLEAN
        /\ elapsed \in {0, 1} /\ advert \subseteq Devices
        /\ Len(connections) \in Nat /\ DOMAIN connections = 1 .. Len(connections)
        /\ \A i \in DOMAIN connections : connections[i].unread \in 0 .. 2
    BY LenProperties, ConnectionFields, ElementOfSeq DEF EdgeInv, TypeOK
  <1>1. ~crowded
    BY <1>0 DEF Next, Main, Worker, DeviceThread, broadcast_advertisement, Examine, Delete,
                EndPass, FindExpired, Expire, Crash, Restart, Join, Leave, Tick, EndOfStream,
                maintain_existing_connection, edge_broadcast_listener, edge_responder, vars,
                historyVars
  <1>2. /\ Len(connections) <= MaxWorkers
        /\ \A i \in DOMAIN connections :
              /\ connections[i].unread <= 1
              /\ ~connections[i].closed /\ (elapsed = 1 \/ connections[i].device \in advert)
                    => connections[i].unread = 0
        /\ elapsed = 1 => advert = {}
    BY <1>1 DEF EdgeInv, QuietInv, ClockInv
  <1>3. ASSUME NEW i \in 1 .. MaxWorkers, maintain_existing_connection(i) PROVE QuietInv'
    <2>1. i \in DOMAIN connections /\ connections' = [connections EXCEPT ![i].unread = 0]
          /\ UNCHANGED <<elapsed, advert>>
      BY <1>3 DEF maintain_existing_connection, Served, deviceVars
    <2> QED BY <1>0, <1>2, <2>1, ReadLaw DEF QuietInv
  <1>4. ASSUME NEW i \in 1 .. MaxWorkers, EndOfStream(i) PROVE QuietInv'
    <2>1. /\ i \in 1 .. Len(connections) /\ connections' = RemoveAt(connections, i)
          /\ UNCHANGED <<elapsed, advert>>
      BY <1>0, <1>4 DEF EndOfStream, Served, deviceVars, edgeVars
    <2>2. /\ Len(connections') = Len(connections) - 1
          /\ DOMAIN connections' = 1 .. Len(connections) - 1
          /\ \A j \in DOMAIN connections' :
                \E n \in DOMAIN connections : connections'[j] = connections[n]
      <3>1. /\ RemoveAt(connections, i) \in Seq(Connection)
            /\ Len(connections') = Len(connections) - 1
            /\ \A j \in 1 .. Len(connections) - 1 :
                  connections'[j] = connections[IF j < i THEN j ELSE j + 1]
        BY <1>0, <2>1, RemoveLaw
      <3>2. DOMAIN connections' = 1 .. Len(connections) - 1
        BY <2>1, <3>1, LenProperties
      <3>3. \A j \in 1 .. Len(connections) - 1 :
               (IF j < i THEN j ELSE j + 1) \in DOMAIN connections
        BY <1>0, <2>1
      <3> QED BY <3>1, <3>2, <3>3, SMTT(30)
    <2> QED BY <1>0, <1>2, <2>1, <2>2, BoundsAssumption DEF QuietInv
  <1>5. CASE broadcast_advertisement
    <2>1. elapsed = 1 /\ elapsed' = 0 /\ connections' = connections
      BY <1>0, <1>5 DEF broadcast_advertisement
    <2> QED BY <1>2, <2>1 DEF QuietInv
  <1>6. ASSUME NEW d \in Devices, edge_broadcast_listener(d) PROVE QuietInv'
    <2>1. d \in advert /\ advert' = advert \ {d} /\ elapsed' = elapsed /\ edge_responder(d)
      BY <1>6 DEF edge_broadcast_listener, edgeVars
    <2>2. elapsed = 0
      BY <1>0, <1>2, <2>1
    <2>3. CASE Raises(d)
      BY <1>2, <2>1, <2>3 DEF QuietInv, edge_responder
    <2>4. CASE ~Raises(d)
      <3> DEFINE conns == IF Connects(d) THEN Append(connections, NewConnection(d))
                                         ELSE connections
      <3>1. connections' = Respond(d, conns) /\ ~(Len(connections') > MaxWorkers)
        BY <2>1, <2>4 DEF edge_responder
      <3>2. /\ conns \in Seq(Connection)
            /\ \A i \in DOMAIN conns :
                  /\ conns[i].unread \in {0, 1}
                  /\ ~conns[i].closed /\ conns[i].device \in advert => conns[i].unread = 0
        BY <1>0, <1>2, AppendLaw DEF NewConnection
      <3> HIDE DEF conns
      <3>3. /\ connections' \in Seq(Connection)
            /\ DOMAIN connections' = DOMAIN conns
            /\ \A i \in DOMAIN conns :
                  /\ connections'[i].unread <= 1
                  /\ ~connections'[i].closed /\ connections'[i].device \in advert \ {d}
                        => connections'[i].unread = 0
        BY <2>1, <3>1, <3>2, RespondLaw
      <3>4. Len(connections') \in Nat
        BY <3>3, LenProperties
      <3> QED BY <2>1, <2>2, <3>1, <3>3, <3>4, BoundsAssumption DEF QuietInv
    <2> QED BY <2>3, <2>4
  <1>7. CASE Crash
    BY <1>7, BoundsAssumption DEF Crash, QuietInv
  <1>8. ASSUME NEW d \in Devices, Leave(d) PROVE QuietInv'
    <2>1. connections' = Closed(d, connections) /\ advert' = advert \ {d} /\ elapsed' = elapsed
      BY <1>8 DEF Leave, edgeVars
    <2> QED BY <1>0, <1>2, <2>1, ClosedLaw DEF QuietInv
  <1>9. CASE Tick
    <2>1. /\ connections' = connections /\ advert' = advert
          /\ \A i \in DOMAIN connections : connections[i].unread = 0
      BY <1>0, <1>2, <1>9, BoundsAssumption DEF Tick, EdgeIdle, Served
    <2> QED BY <1>0, <1>2, <2>1 DEF QuietInv
  <1>10. CASE UNCHANGED <<connections, advert, elapsed>>
    BY <1>2, <1>10 DEF QuietInv
  <1> QED BY <1>3, <1>4, <1>5, <1>6, <1>7, <1>8, <1>9, <1>10
             DEF Next, Main, Worker, DeviceThread, Examine, Delete, EndPass, FindExpired,
                 Expire, Restart, Join, vars, deviceVars, edgeVars

\* An entry is entered with age zero; a pass ends when no key is too old.
LEMMA RecentNext == EdgeInv /\ [Next]_vars => KnownIsRecent'
  <1> SUFFICES ASSUME EdgeInv, [Next]_vars PROVE KnownIsRecent'
    OBVIOUS
  <1>0. /\ KnownIsRecent /\ ClockInv /\ DownIsBlank
        /\ known_nodes \in [Key -> Age] /\ elapsed \in {0, 1} /\ doomed \subseteq Key
        /\ HeartbeatTimer \in Nat \ {0}
        /\ \A k \in Key : known_nodes[k] \in Nat \/ known_nodes[k] = -1
    BY BoundsAssumption DEF EdgeInv, TypeOK, Age, Absent
  <1>1. ASSUME NEW i \in 1 .. MaxWorkers, maintain_existing_connection(i) PROVE KnownIsRecent'
    BY <1>0, <1>1 DEF maintain_existing_connection, KnownIsRecent
  <1>2. CASE broadcast_advertisement
    <2>1. edge' = "loop" => \A k \in Key : known_nodes[k] < HeartbeatTimer
      BY <1>0, <1>2 DEF broadcast_advertisement, OldKeys, TooOld, Absent
    <2> QED BY <1>2, <2>1 DEF broadcast_advertisement, KnownIsRecent
  <1>3. CASE Delete
    <2>1. elapsed = 0 /\ elapsed' = elapsed
      BY <1>0, <1>3 DEF Delete, ClockInv
    <2>2. edge' = "loop" => \A k \in Key \ doomed : known_nodes[k] < HeartbeatTimer
      <3>1. edge' = "loop" => OldKeys(0) \subseteq doomed
        BY <1>3, <2>1 DEF Delete
      <3> QED BY <1>0, <3>1 DEF OldKeys, TooOld, Absent
    <2>3. \A k \in Key : known_nodes'[k] = IF k \in doomed THEN -1 ELSE known_nodes[k]
      BY <1>3 DEF Delete, Absent
    <2> QED BY <1>0, <2>2, <2>3 DEF KnownIsRecent
  <1>4. CASE EndPass
    <2>1. elapsed = 0
      BY <1>0, <1>4 DEF EndPass, ClockInv
    <2>2. \A k \in Key : known_nodes[k] < HeartbeatTimer
      BY <1>0, <1>4, <2>1 DEF EndPass, OldKeys, TooOld, Absent
    <2> QED BY <1>4, <2>2 DEF EndPass, KnownIsRecent
  <1>5. CASE Restart
    BY <1>0, <1>5 DEF Restart, DownIsBlank, Up, KnownIsRecent, Absent
  <1>6. CASE Tick
    BY <1>0, <1>6 DEF Tick, EdgeIdle, Up, KnownIsRecent
  <1>7. CASE Crash
    BY <1>7 DEF Crash, KnownIsRecent
  <1>8. ASSUME NEW k \in Key, Examine(k) PROVE KnownIsRecent'
    BY <1>8 DEF Examine, KnownIsRecent
  <1>9. CASE UNCHANGED edgeVars
    BY <1>0, <1>9 DEF edgeVars, KnownIsRecent
  <1> QED BY <1>1, <1>2, <1>3, <1>4, <1>5, <1>6, <1>7, <1>8, <1>9, EdgeVarsNext

\* Two responses are read as one only from a connection that had to wait.
LEMMA GarbledNext == EdgeInv /\ [Next]_vars => GarbledOnlyIfCrowded'
  <1> SUFFICES ASSUME EdgeInv, [Next]_vars PROVE GarbledOnlyIfCrowded'
    OBVIOUS
  <1> DEFINE Garbled(d) == <<d, "garbled">>
  <1>0. /\ GarbledOnlyIfCrowded /\ QuietInv
        /\ known_nodes \in [Key -> Age] /\ connections \in Seq(Connection)
        /\ \A d \in Devices : Garbled(d) \in Key
        /\ \A i \in DOMAIN connections : connections[i] \in Connection
    BY LenProperties, ElementOfSeq DEF EdgeInv, TypeOK, Key
  <1>1. crowded => crowded'
    BY DEF Next, Main, Worker, DeviceThread, broadcast_advertisement, Examine, Delete,
           EndPass, FindExpired, Expire, Crash, Restart, Join, Leave, Tick, EndOfStream,
           maintain_existing_connection, edge_broadcast_listener, edge_responder, vars,
           historyVars
  <1>2. ASSUME NEW i \in 1 .. MaxWorkers, maintain_existing_connection(i)
        PROVE  GarbledOnlyIfCrowded'
    <2>1. i \in DOMAIN connections /\ connections[i].device \in Devices
          /\ connections[i].unread \in 1 .. 2 /\ crowded' = crowded
      BY <1>0, <1>2, ConnectionFields DEF maintain_existing_connection, Served, historyVars
    <2>2. CASE connections[i].unread = 2
      BY <1>0, <1>1, <2>1, <2>2 DEF QuietInv, GarbledOnlyIfCrowded
    <2>3. CASE connections[i].unread = 1
      <3>1. \A d \in Devices : known_nodes'[Garbled(d)] = known_nodes[Garbled(d)]
        BY <1>0, <1>2, <2>1, <2>3 DEF maintain_existing_connection
      <3> QED BY <1>0, <2>1, <3>1 DEF GarbledOnlyIfCrowded
    <2> QED BY <2>1, <2>2, <2>3
  <1>3. CASE Delete \/ Crash
    <2>1. \A d \in Devices : \/ known_nodes'[Garbled(d)] = Absent
                             \/ known_nodes'[Garbled(d)] = known_nodes[Garbled(d)]
      BY <1>0, <1>3 DEF Delete, Crash
    <2> QED BY <1>0, <1>1, <2>1 DEF GarbledOnlyIfCrowded
  <1>4. CASE Tick
    <2>1. \A d \in Devices : known_nodes'[Garbled(d)] = Older(known_nodes[Garbled(d)])
      BY <1>0, <1>4 DEF Tick
    <2> QED BY <1>0, <1>1, <2>1, OlderType DEF GarbledOnlyIfCrowded
  <1>5. CASE known_nodes' = known_nodes
    BY <1>0, <1>1, <1>5 DEF GarbledOnlyIfCrowded
  <1> QED BY <1>2, <1>3, <1>4, <1>5, EdgeVarsNext
             DEF broadcast_advertisement, EndPass, Restart, Examine, edgeVars

-----------------------------------------------------------------------------

\* The invariant holds when the edge has just started.
LEMMA InitInv == Init => EdgeInv
  <1> SUFFICES ASSUME Init PROVE EdgeInv
    OBVIOUS
  <1>1. TypeOK
    <2>1. known_nodes \in [Key -> Age] /\ address \in [Devices -> Age] /\ doomed \subseteq Key
      BY DEF Init, Age
    <2>2. connections \in Seq(Connection)
      BY EmptySeq DEF Init
    <2>3. /\ listener \in [Devices -> {"off", "on", "dead"}]
          /\ sock \in [Devices -> {"none", "open", "closed", "reset"}]
          /\ expiring \subseteq Devices /\ advert \subseteq Devices
      BY DEF Init
    <2>4. /\ edge \in {"down", "loop", "prune", "delete"} /\ elapsed \in {0, 1}
          /\ crowded \in BOOLEAN
      BY DEF Init
    <2>5. crashes \in 0 .. MaxCrash /\ departures \in 0 .. MaxLeave
      BY BoundsAssumption DEF Init
    <2> QED BY <2>1, <2>2, <2>3, <2>4, <2>5 DEF TypeOK
  <1>2. QuietInv
    BY BoundsAssumption DEF Init, QuietInv
  <1>3. KnownIsRecent /\ GarbledOnlyIfCrowded
    BY BoundsAssumption DEF Init, KnownIsRecent, GarbledOnlyIfCrowded, Key, Absent
  <1>4. OpenInv
    BY DEF Init, OpenInv
  <1> QED BY <1>1, <1>2, <1>3, <1>4
             DEF Init, EdgeInv, ClockInv, DownIsBlank, CrashInv, AdvertInv, OnlyCrashesSilence

\* Every step keeps the invariant.
LEMMA NextInv == EdgeInv /\ [Next]_vars => EdgeInv'
  BY TypeNext, ClockNext, DownNext, CrashNext, AdvertNext, OpenNext, QuietNext, RecentNext,
     GarbledNext DEF EdgeInv

\* The invariant holds throughout.
LEMMA Invariance == Spec => []EdgeInv
  BY InitInv, NextInv, PTL DEF Spec

\* Every variable keeps its type: the edge's main thread looks at its table in
\* every interval, and the connections stay a sequence of connections.
THEOREM TypeCorrect == Spec => []TypeOK
  <1>1. EdgeInv => TypeOK
    BY DEF EdgeInv
  <1> QED BY <1>1, Invariance, PTL

\* A pass of the edge's main thread leaves only nodes heard within the
\* heartbeat timer, whatever the workers enter meanwhile.
THEOREM PassLeavesRecent == Spec => []KnownIsRecent
  <1>1. EdgeInv => KnownIsRecent
    BY DEF EdgeInv
  <1> QED BY <1>1, Invariance, PTL

\* The listener thread of a device ends only after a crash of the edge.
THEOREM CrashesSilence == Spec => []OnlyCrashesSilence
  <1>1. EdgeInv => OnlyCrashesSilence
    BY DEF EdgeInv
  <1> QED BY <1>1, Invariance, PTL

\* Responses run together only where a connection had to wait for a worker.
THEOREM CrowdsGarble == Spec => []GarbledOnlyIfCrowded
  <1>1. EdgeInv => GarbledOnlyIfCrowded
    BY DEF EdgeInv
  <1> QED BY <1>1, Invariance, PTL

\* A device never holds two workers of the pool with open connections.
THEOREM OneConnection == Spec => []OneConnectionEach
  <1>1. EdgeInv => OneConnectionEach
    <2> SUFFICES ASSUME EdgeInv, NEW d \in Devices
                 PROVE  Cardinality({i \in DOMAIN connections : IsOpen(i, d)})
                        = IF sock[d] = "open" THEN 1 ELSE 0
      BY DEF OneConnectionEach, IsOpen
    <2> DEFINE mine == {i \in DOMAIN connections : IsOpen(i, d)}
    <2>1. CASE sock[d] = "open"
      <3>1. PICK i \in DOMAIN connections : IsOpen(i, d)
        BY <2>1 DEF EdgeInv, OpenInv
      <3>2. mine = {i}
        BY <3>1 DEF EdgeInv, OpenInv
      <3> QED BY <2>1, <3>2, FS_Singleton
    <2>2. CASE sock[d] # "open"
      <3>1. mine = {}
        BY <2>2 DEF EdgeInv, OpenInv
      <3> QED BY <2>2, <3>1, FS_EmptySet
    <2> QED BY <2>1, <2>2
  <1> QED BY <1>1, Invariance, PTL

=============================================================================
