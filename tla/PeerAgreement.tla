--------------------------- MODULE PeerAgreement ---------------------------
(***************************************************************************)
(* The peer-to-peer agreement of ns3-src/peer_node.cpp: every peer keeps,  *)
(* for each element, a location with a (version, round) stamp and the set  *)
(* of peers it believes share it; it advertises the stamps of the elements *)
(* it is near to, asks a peer with a higher stamp for its data, and grows  *)
(* the round with every peer that joins.                                   *)
(*                                                                         *)
(* A location is named by the peer that drew it in StartApplication: the   *)
(* code only copies locations and compares their distance with 8 m, which  *)
(* Near tabulates.  Positions are constant, as main installs them.         *)
(*                                                                         *)
(* The radio: advertisements go out every second, so a peer's advert has   *)
(* arrived (or is lost) before its next one, and the MAC queue sends an    *)
(* advert before any unicast enqueued after it; unicasts may wait for ARP  *)
(* and arrive in any order.  The environment may cause MaxOutage outages,  *)
(* each one lost datagram or one fade of ten seconds between two peers.    *)
(***************************************************************************)
EXTENDS Integers, FiniteSets, Sequences

CONSTANTS
    Peer,         \* node ids, GetNode()->GetId()
    Element,      \* indices of AgreementInformation_vec
    Near,         \* <<n, e, l>>: peer n stands within 8 m of e as peer l drew it
    Modulus,      \* causalNum_t counts modulo this (uint8_t: 256)
    MaxInFlight,  \* bound: datagrams in the air when a peer advertises
    MaxOutage     \* bound: outages the radio may cause

ASSUME PeerAssumption == IsFiniteSet(Peer) /\ Peer \subseteq Nat /\ Peer # {}
ASSUME NearAssumption == Near \subseteq Peer \X Element \X Peer
ASSUME ModulusAssumption ==
    /\ Modulus \in Nat \ {0}
    /\ \A p \in Peer : p + Cardinality(Peer) < Modulus
ASSUME BoundAssumption == MaxInFlight \in Nat /\ MaxOutage \in Nat

VARIABLES
    info,            \* AgreementInformation_vec of every peer
    nearbyElements,  \* elements a peer is near to
    localGroup,      \* the keys of the map localGroup: peers heard from
    heard,           \* its values: versionRoundNumbers, zero for an absent key
    timers,          \* the order in which the one-second timers fire next
    net,             \* datagrams in the air
    outages,         \* outages so far
    aborted          \* an uncaught std::out_of_range ended the program

vars == <<info, nearbyElements, localGroup, heard, timers, net, outages,
          aborted>>

-----------------------------------------------------------------------------

Causal == 0 .. Modulus - 1

Stamp == [version : Causal, round : Causal]

AgreementInformation ==
    [version : Causal, round : Causal, fineLocation : Peer,
     agreeingNodes : SUBSET Peer]

Datagram ==
         [type : {"ADVERT"}, from : Peer, to : Peer,
          stamps : [Element -> Stamp]]
    \cup [type : {"REQUEST_DATA", "ACK"}, from : Peer, to : Peer,
          element : Element]
    \cup [type : {"SEND_DATA"}, from : Peer, to : Peer, element : Element,
          data : AgreementInformation]

Zero == [version |-> 0, round |-> 0]

StampOf(i) == [version |-> i.version, round |-> i.round]

\* Mutant of Beats: rounds are not compared.
BeatsByVersionOnly(s, t) == s.version > t.version

Beats(s, t) ==
    \/ s.version > t.version
    \/ s.version = t.version /\ s.round > t.round

NextRound(r) == (r + 1) % Modulus

\* The constructor of AgreementInformation, for the location n drew.
FreshInformation(n) ==
    [version |-> 0, round |-> 0, fineLocation |-> n, agreeingNodes |-> {n}]

\* main starts the peers at distinct random times within the first second.
Init ==
    /\ timers \in [1 .. Cardinality(Peer) -> Peer]
    /\ \A p \in Peer : \E i \in DOMAIN timers : timers[i] = p
    /\ info = [n \in Peer |-> [e \in Element |-> FreshInformation(n)]]
    /\ nearbyElements = [n \in Peer |-> {}]
    /\ localGroup = [n \in Peer |-> {}]
    /\ heard = [n \in Peer |-> [p \in Peer |-> [e \in Element |-> Zero]]]
    /\ net = {}
    /\ outages = 0
    /\ aborted = FALSE

-----------------------------------------------------------------------------
(* BeginAgreement(element), with the local group and its stamps as they    *)
(* are when it is called.                                                  *)

\* The scan of localGroup in ascending id order, replacing on strictly greater,
\* ends with the first of the peers with the highest stamp.
IsBestNode(p, group, stamps, e) ==
    \A q \in group :
        \/ Beats(stamps[p][e], stamps[q][e])
        \/ stamps[p][e] = stamps[q][e] /\ p <= q

\* Mutant of Outdone: a peer with an equal stamp counts as ahead.
OutdoneOrTied(n, group, stamps, e) ==
    \E p \in group : ~Beats(StampOf(info[n][e]), stamps[p][e])

\* Some peer of the group is ahead of what n has for e.
Outdone(n, group, stamps, e) ==
    \E p \in group : Beats(stamps[p][e], StampOf(info[n][e]))

\* The data requests of BeginAgreement for each element of E.
SendDataRequest(n, group, stamps, E) ==
    {m \in [type : {"REQUEST_DATA"}, from : {n}, to : group, element : E] :
        /\ Outdone(n, group, stamps, m.element)
        /\ IsBestNode(m.to, group, stamps, m.element)}

\* Mutant of InitializeRound: every peer starts at round one.
InitializeRoundToOne(n, group, stamps, E) ==
    [e \in Element |->
        IF e \in E /\ ~Outdone(n, group, stamps, e) /\ info[n][e].round = 0
        THEN [info[n][e] EXCEPT !.round = 1]
        ELSE info[n][e]]

\* The rounds BeginAgreement initialises for the elements of E.
InitializeRound(n, group, stamps, E) ==
    [e \in Element |->
        IF e \in E /\ ~Outdone(n, group, stamps, e) /\ info[n][e].round = 0
        THEN [info[n][e] EXCEPT !.round = NextRound(n)]
        ELSE info[n][e]]

-----------------------------------------------------------------------------
(* The timers.                                                             *)

\* Elements that are not advertised are zero in the receiver's fresh nodeEntry.
Advertisement(n) ==
    [e \in Element |-> IF e \in nearbyElements[n] THEN StampOf(info[n][e]) ELSE Zero]

\* Mutant of SendAdvertisement: a peer near no element stays silent.
SendAdvertisementIfNearby(n) ==
    {[type |-> "ADVERT", from |-> n, to |-> p, stamps |-> Advertisement(n)] :
        p \in {q \in Peer \ {n} : nearbyElements[n] # {}}}

SendAdvertisement(n) ==
    {[type |-> "ADVERT", from |-> n, to |-> p, stamps |-> Advertisement(n)] :
        p \in Peer \ {n}}

WithinReach(n) == {e \in Element : <<n, e, info[n][e].fineLocation>> \in Near}

\* SendAdvertisement and GetNearbyElements fire at the same instant, every
\* second and always in this order: StartApplication schedules them so.  All
\* peers have the same period, so their timers take turns.
EverySecond(n) ==
    /\ ~aborted
    /\ n = Head(timers)
    /\ timers' = Append(Tail(timers), n)
    /\ \A m \in net : ~(m.type = "ADVERT" /\ m.from = n)
    /\ Cardinality(net) + Cardinality(Peer) - 1 <= MaxInFlight
    /\ LET fresh == WithinReach(n) \ nearbyElements[n]
       IN  /\ net' = net \cup SendAdvertisement(n)
                         \cup SendDataRequest(n, localGroup[n], heard[n], fresh)
           /\ info' = [info EXCEPT ![n] =
                          InitializeRound(n, localGroup[n], heard[n], fresh)]
    /\ nearbyElements' = [nearbyElements EXCEPT ![n] = WithinReach(n)]
    /\ UNCHANGED <<localGroup, heard, outages, aborted>>

\* Prunes a peer that a ten-second fade has silenced.
CheckHeartbeats(n) ==
    /\ ~aborted
    /\ outages < MaxOutage
    /\ \E p \in localGroup[n] :
          /\ localGroup' = [localGroup EXCEPT ![n] = @ \ {p}]
          /\ heard' = [heard EXCEPT ![n][p] = [e \in Element |-> Zero]]
    /\ outages' = outages + 1
    /\ UNCHANGED <<info, nearbyElements, timers, net, aborted>>

-----------------------------------------------------------------------------
(* ReceiveData, one action per message type.                               *)

Arrived(m, n, t) ==
    /\ ~aborted
    /\ m.type = t /\ m.to = n
    /\ t # "ADVERT" =>
          \A a \in net : ~(a.type = "ADVERT" /\ a.from = m.from /\ a.to = n)

ReceiveAdvert(n, m) ==
    /\ Arrived(m, n, "ADVERT")
    /\ LET agree  == {e \in nearbyElements[n] :
                         Beats(m.stamps[e], StampOf(info[n][e]))}
           group  == localGroup[n] \cup {m.from}
           stamps == [heard[n] EXCEPT ![m.from] = m.stamps]
       IN  /\ localGroup' = [localGroup EXCEPT ![n] = group]
           /\ heard' = [heard EXCEPT ![n] = stamps]
           /\ info' = [info EXCEPT ![n] = InitializeRound(n, group, stamps, agree)]
           /\ net' = (net \ {m}) \cup SendDataRequest(n, group, stamps, agree)
    /\ UNCHANGED <<nearbyElements, timers, outages, aborted>>

\* localGroup.at(sender) throws for an unknown sender; otherwise a reply is sent.
ReplyOrAbort(n, m, reply) ==
    /\ net' = (net \ {m}) \cup (IF m.from \in localGroup[n] THEN {reply} ELSE {})
    /\ aborted' = (m.from \notin localGroup[n])

ReceiveDataRequest(n, m) ==
    /\ Arrived(m, n, "REQUEST_DATA")
    /\ ReplyOrAbort(n, m, [type |-> "SEND_DATA", from |-> n, to |-> m.from,
                           element |-> m.element, data |-> info[n][m.element]])
    /\ UNCHANGED <<info, nearbyElements, localGroup, heard, timers, outages>>

\* The group grows by p, and the round with it.
OneMore(i, p) ==
    [version |-> i.version, round |-> NextRound(i.round),
     fineLocation |-> i.fineLocation, agreeingNodes |-> i.agreeingNodes \cup {p}]

\* Mutant of Join: repeated acknowledgements count, in a wider integer.
JoinUnbounded(i, p) == [OneMore(i, p) EXCEPT !.round = i.round + 1]

Join(i, p) == IF p \in i.agreeingNodes THEN i ELSE OneMore(i, p)

\* Mutant of Adopt: the sender's group is not taken over.
AdoptForgetting(n, data) == [Join(data, n) EXCEPT !.agreeingNodes = {n}]

\* Mutant of Adopt: the round grows even if the sender counted n already.
AdoptAlwaysCounting(n, data) == OneMore(data, n)

\* What n holds after adopting the data: its own id joins the sender's group.
Adopt(n, data) == Join(data, n)

\* The data is stored before the address of the sender is looked up.
ReceiveSendData(n, m) ==
    /\ Arrived(m, n, "SEND_DATA")
    /\ info' = [info EXCEPT ![n][m.element] = Adopt(n, m.data)]
    /\ ReplyOrAbort(n, m, [type |-> "ACK", from |-> n, to |-> m.from,
                           element |-> m.element])
    /\ UNCHANGED <<nearbyElements, localGroup, heard, timers, outages>>

ReceiveAck(n, m) ==
    /\ Arrived(m, n, "ACK")
    /\ info' = [info EXCEPT ![n][m.element] = Join(@, m.from)]
    /\ net' = net \ {m}
    /\ UNCHANGED <<nearbyElements, localGroup, heard, timers, outages, aborted>>

Lose(m) ==
    /\ ~aborted
    /\ outages < MaxOutage
    /\ net' = net \ {m}
    /\ outages' = outages + 1
    /\ UNCHANGED <<info, nearbyElements, localGroup, heard, timers, aborted>>

-----------------------------------------------------------------------------

Receive(n, m) ==
    \/ ReceiveAdvert(n, m)
    \/ ReceiveDataRequest(n, m)
    \/ ReceiveSendData(n, m)
    \/ ReceiveAck(n, m)

Next ==
    \/ \E n \in Peer : EverySecond(n)
    \/ \E n \in Peer : CheckHeartbeats(n)
    \/ \E n \in Peer : \E m \in net : Receive(n, m)
    \/ \E m \in net : Lose(m)

Spec == Init /\ [][Next]_vars

ReceiveFrom(p, n, t) ==
    \E m \in net : m.type = t /\ m.from = p /\ Receive(n, m)

\* The simulator runs every scheduled event, and the radio delivers what it
\* does not lose.  A unicast waits for the adverts queued before it, and new
\* adverts disable its delivery for a moment, hence strong fairness.
Fairness ==
    /\ \A n \in Peer : WF_vars(EverySecond(n))
    /\ \A n \in Peer : \A p \in Peer \ {n} :
         \A t \in {"ADVERT", "REQUEST_DATA", "SEND_DATA", "ACK"} :
            SF_vars(ReceiveFrom(p, n, t))

FairSpec == Spec /\ Fairness

-----------------------------------------------------------------------------
(* Properties.                                                             *)

\* Every table, stamp and datagram keeps its type: what ReceiveData stores and
\* sends fits causalNum_t and names only known peers and elements.
TypeOK ==
    /\ info \in [Peer -> [Element -> AgreementInformation]]
    /\ nearbyElements \in [Peer -> SUBSET Element]
    /\ localGroup \in [Peer -> SUBSET Peer]
    /\ heard \in [Peer -> [Peer -> [Element -> Stamp]]]
    /\ timers \in Seq(Peer) /\ timers # <<>>
    /\ net \subseteq Datagram
    /\ outages \in Nat
    /\ aborted \in BOOLEAN

\* The round of a location counts its supporters from the id of the peer
\* that drew it, through every exchange of data and acknowledgements, and
\* so never wraps a uint8_t; peers p that hold it belong to its group.
CountsAgreement(p, i) ==
    /\ i.version = 0
    /\ i.round = i.fineLocation + Cardinality(i.agreeingNodes)
    /\ {p, i.fineLocation} \subseteq i.agreeingNodes

RoundCountsAgreement ==
    \A n \in Peer, e \in Element :
        info[n][e].round # 0 => CountsAgreement(n, info[n][e])

\* A peer is asked for an element, or has its data for it acknowledged, only
\* when it has started agreement on it: nobody ever copies a round of zero.
OnlyStartedPeersAreAsked ==
    \A m \in net : m.type \in {"REQUEST_DATA", "ACK"} =>
        info[m.to][m.element].round # 0

\* localGroup.at never throws unless the radio failed: the advert of a peer
\* precedes its requests, and only peers that were heard are asked.
OnlyOutagesAbort == aborted => outages > 0

Agreed ==
    \A e \in Element : \A n, p \in Peer :
        /\ info[n][e].round # 0
        /\ StampOf(info[n][e]) = StampOf(info[p][e])
        /\ info[n][e].fineLocation = info[p][e].fineLocation

\* All peers come to hold one location and one round for every element, for
\* good, however their timers, requests and acknowledgements interleave and
\* whichever datagrams the outages take, short of an abort.
Convergence == <>[](Agreed \/ aborted)

\* Everyone knows the current stamps of everyone, is not outdone by anybody,
\* and nothing is in the air: from here peers only repeat their adverts.
Settled ==
    /\ net = {} /\ ~aborted
    /\ \A n \in Peer : \A p \in Peer \ {n} :
          p \in localGroup[n] /\ heard[n][p] = Advertisement(p)
    /\ \A n \in Peer : nearbyElements[n] = Element /\ WithinReach(n) = Element
    /\ \A n \in Peer, e \in Element : ~Outdone(n, localGroup[n], heard[n], e)

\* When no peer has higher values for an element, everyone's version is the
\* one that beats all others: a settled system has agreed.
SettledMeansAgreed == Settled => Agreed

-----------------------------------------------------------------------------
(* The abstract specification.  A round of zero is a location that n only  *)
(* drew for itself and has told nobody.                                    *)

CopyOf(i) ==
    IF i.round = 0 THEN [location |-> {}, supporters |-> {}]
    ELSE [location |-> {i.fineLocation}, supporters |-> i.agreeingNodes]

Held == [n \in Peer |-> [e \in Element |-> CopyOf(info[n][e])]]

OfferOf(m) ==
    [from |-> m.from, to |-> m.to, element |-> m.element, copy |-> CopyOf(m.data)]

ConfirmationOf(m) == [from |-> m.from, to |-> m.to, element |-> m.element]

Offers(datagrams) == {OfferOf(m) : m \in {d \in datagrams : d.type = "SEND_DATA"}}

Confirmations(datagrams) ==
    {ConfirmationOf(m) : m \in {d \in datagrams : d.type = "ACK"}}

Scene == INSTANCE SharedScene WITH
    held <- Held, offers <- Offers(net), confirmed <- Confirmations(net)

\* The messages of ReceiveData, in whatever order they arrive or are lost,
\* implement the sharing of whole copies: no location is taken over with the
\* supporters of another one, and a peer counts only those that took a copy from it.
SharesWholeCopies == Scene!Spec

-----------------------------------------------------------------------------
(* The inductive strengthening of the safety invariants.                   *)

InformationLaw(n, i) ==
    /\ i.round = 0 => i = FreshInformation(n)
    /\ i.round # 0 => CountsAgreement(n, i)

\* A stamp attributed to p is one that p can have had.
Backed(p, e, s) == s.version = 0 /\ (s.round # 0 => info[p][e].round # 0)

DatagramLaw(m) ==
    /\ m.type = "ADVERT" => \A e \in Element : Backed(m.from, e, m.stamps[e])
    /\ m.type \in {"REQUEST_DATA", "ACK"} => info[m.to][m.element].round # 0
    /\ m.type = "SEND_DATA" => /\ CountsAgreement(m.from, m.data)
                               /\ info[m.from][m.element].round # 0

\* Every copy of a location obeys the counting law, wherever it is.
RoundInv ==
    /\ \A n \in Peer, e \in Element : InformationLaw(n, info[n][e])
    /\ \A n, p \in Peer, e \in Element : Backed(p, e, heard[n][p][e])
    /\ \A m \in net : DatagramLaw(m)

\* p knows n, or will before it hears anything else from n.
Announced(n, p) ==
    \/ n \in localGroup[p]
    \/ \E a \in net : a.type = "ADVERT" /\ a.from = n /\ a.to = p

NoSelf ==
    /\ \A n \in Peer : n \notin localGroup[n]
    /\ \A m \in net : m.from # m.to

\* Without outages every exchange is between peers that know each other.
AcquaintedInv ==
    outages = 0 =>
        /\ ~aborted
        /\ \A n, p \in Peer : nearbyElements[n] # {} /\ p # n => Announced(n, p)
        /\ \A m \in net :
              /\ m.type = "REQUEST_DATA" => /\ Announced(m.from, m.to)
                                            /\ m.to \in localGroup[m.from]
              /\ m.type = "SEND_DATA" => m.from \in localGroup[m.to]

=============================================================================
