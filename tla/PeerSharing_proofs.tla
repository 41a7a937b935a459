------------------------ MODULE PeerSharing_proofs ------------------------
(* PeerAgreement implements SharedScene, for all constants. *)
EXTENDS PeerAgreement_proofs

-----------------------------------------------------------------------------
(* Lemmas on the refinement mapping.                                       *)

\* A lawful copy is a started one: it has a supporter, so its round is not zero.
LEMMA LawfulIsStarted ==
    ASSUME NEW i \in AgreementInformation, NEW p \in Peer, CountsAgreement(p, i)
    PROVE  i.round # 0
  <1>1. i.fineLocation \in Nat /\ i.agreeingNodes \in SUBSET Peer /\ p \in i.agreeingNodes
    BY PeerAssumption DEF AgreementInformation, CountsAgreement
  <1>2. IsFiniteSet(i.agreeingNodes) /\ Cardinality(i.agreeingNodes) \in Nat
    BY <1>1, GroupSize
  <1>3. Cardinality(i.agreeingNodes) # 0
    BY <1>1, <1>2, FS_EmptySet
  <1> QED BY <1>1, <1>2, <1>3 DEF CountsAgreement

\* A SEND_DATA in the air carries a typed, lawful copy.
LEMMA DataIsLawful ==
    ASSUME SafeInv, NEW m \in net, m.type = "SEND_DATA"
    PROVE  /\ m \in [type : {"SEND_DATA"}, from : Peer, to : Peer,
                     element : Element, data : AgreementInformation]
           /\ CountsAgreement(m.from, m.data)
           /\ m.data.round # 0
  <1>1. m \in Datagram /\ DatagramLaw(m)
    BY DEF SafeInv, TypeOK, RoundInv
  <1>2. m \in [type : {"SEND_DATA"}, from : Peer, to : Peer,
               element : Element, data : AgreementInformation]
    BY <1>1 DEF Datagram
  <1>3. CountsAgreement(m.from, m.data)
    BY <1>1 DEF DatagramLaw
  <1> QED BY <1>2, <1>3, LawfulIsStarted

\* Copies of one location with the same supporters have the same stamp, so that
\* an offer stands for one datagram.
LEMMA OfferIsOneDatagram ==
    ASSUME SafeInv, NEW m \in net, NEW d \in net,
           m.type = "SEND_DATA", d.type = "SEND_DATA", OfferOf(m) = OfferOf(d)
    PROVE  m = d
  <1>1. /\ m \in [type : {"SEND_DATA"}, from : Peer, to : Peer,
                  element : Element, data : AgreementInformation]
        /\ CountsAgreement(m.from, m.data) /\ m.data.round # 0
    BY DataIsLawful
  <1>2. /\ d \in [type : {"SEND_DATA"}, from : Peer, to : Peer,
                  element : Element, data : AgreementInformation]
        /\ CountsAgreement(d.from, d.data) /\ d.data.round # 0
    BY DataIsLawful
  <1>3. /\ m.from = d.from /\ m.to = d.to /\ m.element = d.element
        /\ CopyOf(m.data) = CopyOf(d.data)
    BY DEF OfferOf
  <1>4. /\ m.data.agreeingNodes = d.data.agreeingNodes
        /\ m.data.fineLocation = d.data.fineLocation
    BY <1>1, <1>2, <1>3 DEF CopyOf
  <1>5. m.data.version = d.data.version /\ m.data.round = d.data.round
    BY <1>1, <1>2, <1>4 DEF CountsAgreement
  <1>6. m.data = d.data
    BY <1>1, <1>2, <1>4, <1>5 DEF AgreementInformation
  <1> QED BY <1>1, <1>2, <1>3, <1>6

\* The offers that are left when a SEND_DATA has arrived or is lost.
LEMMA OfferGone ==
    ASSUME SafeInv, NEW m \in net, m.type = "SEND_DATA"
    PROVE  Offers(net \ {m}) = Offers(net) \ {OfferOf(m)}
  BY OfferIsOneDatagram DEF Offers

\* The confirmations that are left when an ACK has arrived or is lost.
LEMMA ConfirmationGone ==
    ASSUME SafeInv, NEW m \in net, m.type = "ACK"
    PROVE  Confirmations(net \ {m}) = Confirmations(net) \ {ConfirmationOf(m)}
  <1>1. \A d \in net : d.type = "ACK" =>
            d \in [type : {"ACK"}, from : Peer, to : Peer, element : Element]
    BY DEF SafeInv, TypeOK, Datagram
  <1>2. \A d \in net : d.type = "ACK" /\ ConfirmationOf(d) = ConfirmationOf(m) => d = m
    BY <1>1 DEF ConfirmationOf
  <1> QED BY <1>2 DEF Confirmations

\* Datagrams of other types are invisible.
LEMMA OthersInvisible ==
    ASSUME NEW N, NEW M, \A d \in (N \cup M) \ (N \cap M) : d.type \in {"ADVERT", "REQUEST_DATA"}
    PROVE  Offers(N) = Offers(M) /\ Confirmations(N) = Confirmations(M)
  <1>1. \A d : d.type \in {"SEND_DATA", "ACK"} => (d \in N <=> d \in M)
    OBVIOUS
  <1> QED BY <1>1 DEF Offers, Confirmations

-----------------------------------------------------------------------------
(* One lemma per kind of step.                                             *)

\* BeginAgreement starts the elements whose round it initialises.
LEMMA StartIsOwn ==
    ASSUME SafeInv, NEW n \in Peer, NEW group, NEW stamps, NEW E,
           info' = [info EXCEPT ![n] = InitializeRound(n, group, stamps, E)],
           Offers(net') = Offers(net), Confirmations(net') = Confirmations(net)
    PROVE  Scene!Next
  <1> DEFINE f == InitializeRound(n, group, stamps, E)
             S == {e \in Element : info[n][e].round = 0 /\ f[e].round # 0}
             own == [location |-> {n}, supporters |-> {n}]
  <1>1. info \in [Peer -> [Element -> AgreementInformation]]
    BY DEF SafeInv, TypeOK
  <1>2. \A e \in S : info[n][e] = FreshInformation(n)
    BY DEF SafeInv, RoundInv, InformationLaw
  <1>3. ASSUME NEW e \in Element
        PROVE  CopyOf(f[e]) = IF e \in S THEN own ELSE CopyOf(info[n][e])
    <2>1. CASE e \in S
      <3>1. f[e] = [FreshInformation(n) EXCEPT !.round = NextRound(n)]
        BY <2>1, <1>2 DEF InitializeRound
      <3>2. f[e].fineLocation = n /\ f[e].agreeingNodes = {n} /\ f[e].round # 0
        BY <2>1, <3>1 DEF FreshInformation
      <3> QED BY <2>1, <3>2 DEF CopyOf
    <2>2. CASE e \notin S
      <3>1. f[e] = info[n][e] \/ (info[n][e].round = 0 /\ f[e].round = 0)
        BY <2>2 DEF InitializeRound
      <3> QED BY <2>2, <3>1 DEF CopyOf
    <2> QED BY <2>1, <2>2
  <1>4. \A e \in S : Held[n][e] = Scene!Nothing
    BY DEF Held, CopyOf, Scene!Nothing
  <1>5. Held' = [Held EXCEPT ![n] = [e \in Element |-> IF e \in S THEN own ELSE @[e]]]
    <2> HIDE DEF f, S, own
    <2>1. \A e \in Element : info'[n][e] = f[e]
      BY <1>1 DEF f
    <2>2. \A p \in Peer : p # n => info'[p] = info[p]
      BY <1>1
    <2>3. Held'[n] = [e \in Element |-> IF e \in S THEN own ELSE Held[n][e]]
      BY <1>3, <2>1 DEF Held
    <2>4. \A p \in Peer : p # n => Held'[p] = Held[p]
      BY <2>2 DEF Held
    <2>5. Held = [p \in Peer |-> Held[p]] /\ Held' = [p \in Peer |-> Held'[p]]
      BY DEF Held
    <2> HIDE DEF Held
    <2> QED BY <2>3, <2>4, <2>5
  <1>6. Scene!Own(n, S)
    BY <1>4, <1>5 DEF Scene!Own
  <1> QED BY <1>6 DEF Scene!Next

\* The timers and the adverts are invisible but for the elements that start.
LEMMA EverySecondStarts ==
    ASSUME SafeInv, NEW n \in Peer, EverySecond(n)
    PROVE  Scene!Next
  <1> DEFINE fresh == WithinReach(n) \ nearbyElements[n]
  <1>1. info' = [info EXCEPT ![n] = InitializeRound(n, localGroup[n], heard[n], fresh)]
    BY DEF EverySecond
  <1>2. net' = net \cup SendAdvertisement(n)
                   \cup SendDataRequest(n, localGroup[n], heard[n], fresh)
    BY DEF EverySecond
  <1>3. \A d \in SendAdvertisement(n) : d.type = "ADVERT"
    BY DEF SendAdvertisement
  <1>4. \A d \in SendDataRequest(n, localGroup[n], heard[n], fresh) : d.type = "REQUEST_DATA"
    BY DEF SendDataRequest
  <1> HIDE DEF fresh
  <1>5. \A d \in (net' \cup net) \ (net' \cap net) : d.type \in {"ADVERT", "REQUEST_DATA"}
    BY <1>2, <1>3, <1>4
  <1>6. Offers(net') = Offers(net) /\ Confirmations(net') = Confirmations(net)
    BY <1>5, OthersInvisible
  <1> QED BY <1>1, <1>6, StartIsOwn

\* An advert makes its receiver start some elements, or changes nothing shared.
LEMMA ReceiveAdvertStarts ==
    ASSUME SafeInv, NEW n \in Peer, NEW m \in net, ReceiveAdvert(n, m)
    PROVE  Scene!Next
  <1> DEFINE agree  == {e \in nearbyElements[n] :
                           Beats(m.stamps[e], StampOf(info[n][e]))}
             group  == localGroup[n] \cup {m.from}
             stamps == [heard[n] EXCEPT ![m.from] = m.stamps]
  <1>1. info' = [info EXCEPT ![n] = InitializeRound(n, group, stamps, agree)]
    BY DEF ReceiveAdvert
  <1>2. net' = (net \ {m}) \cup SendDataRequest(n, group, stamps, agree)
    BY DEF ReceiveAdvert
  <1>3. m.type = "ADVERT"
    BY DEF ReceiveAdvert, Arrived
  <1>4. \A d \in SendDataRequest(n, group, stamps, agree) : d.type = "REQUEST_DATA"
    BY DEF SendDataRequest
  <1> HIDE DEF agree, group, stamps
  <1>5. Offers(net') = Offers(net) /\ Confirmations(net') = Confirmations(net)
    BY <1>2, <1>3, <1>4, OthersInvisible
  <1> QED BY <1>1, <1>5, StartIsOwn

\* The answer to a request is an offer of what the peer holds.
LEMMA ReceiveDataRequestOffers ==
    ASSUME SafeInv, NEW n \in Peer, NEW m \in net, ReceiveDataRequest(n, m)
    PROVE  [Scene!Next]_(Scene!vars)
  <1> DEFINE reply == [type |-> "SEND_DATA", from |-> n, to |-> m.from,
                       element |-> m.element, data |-> info[n][m.element]]
  <1>1. m.type = "REQUEST_DATA" /\ m.to = n /\ info' = info
    BY DEF ReceiveDataRequest, Arrived
  <1>2. m \in Datagram /\ info[n][m.element].round # 0
    BY <1>1 DEF SafeInv, TypeOK, RoundInv, DatagramLaw
  <1>3. m.from \in Peer /\ m.element \in Element
    BY <1>1, <1>2 DEF Datagram
  <1>4. Offers(net \ {m}) = Offers(net) /\ Confirmations(net \ {m}) = Confirmations(net)
    BY <1>1, OthersInvisible
  <1>5. Held' = Held
    BY <1>1 DEF Held
  <1>6. CASE net' = (net \ {m}) \cup {reply}
    <2>1. OfferOf(reply) = [from |-> n, to |-> m.from, element |-> m.element,
                            copy |-> Held[n][m.element]]
      BY <1>3 DEF OfferOf, Held
    <2>2. Offers(net') = Offers(net \ {m}) \cup {OfferOf(reply)}
      BY <1>6 DEF Offers
    <2>3. Confirmations(net') = Confirmations(net \ {m})
      BY <1>6 DEF Confirmations
    <2>4. Held[n][m.element] # Scene!Nothing
      BY <1>2, <1>3 DEF Held, CopyOf, Scene!Nothing
    <2>5. Scene!Offer(n, m.from, m.element)
      BY <1>4, <1>5, <2>1, <2>2, <2>3, <2>4 DEF Scene!Offer
    <2> QED BY <1>3, <2>5 DEF Scene!Next
  <1>7. CASE net' = net \ {m}
    BY <1>4, <1>5, <1>7 DEF Scene!vars
  <1> QED BY <1>6, <1>7 DEF ReceiveDataRequest, ReplyOrAbort

\* Adopting data is taking the offer, with or without a confirmation.
LEMMA ReceiveSendDataTakes ==
    ASSUME SafeInv, NEW n \in Peer, NEW m \in net, ReceiveSendData(n, m)
    PROVE  Scene!Next
  <1> DEFINE o == OfferOf(m)
             reply == [type |-> "ACK", from |-> n, to |-> m.from,
                       element |-> m.element]
  <1>1. m.type = "SEND_DATA" /\ m.to = n
    BY DEF ReceiveSendData, Arrived
  <1>2. /\ m.element \in Element /\ m.data \in AgreementInformation
        /\ CountsAgreement(m.from, m.data) /\ m.data.round # 0
        /\ m.from \in Peer
    BY <1>1, DataIsLawful
  <1>3. Adopt(n, m.data).round # 0
    BY <1>2, JoinLaw DEF Adopt
  <1>4. CopyOf(Adopt(n, m.data)) = [o.copy EXCEPT !.supporters = @ \cup {n}]
    <2>1. /\ Adopt(n, m.data).fineLocation = m.data.fineLocation
          /\ Adopt(n, m.data).agreeingNodes = m.data.agreeingNodes \cup {n}
      BY DEF Adopt, Join, OneMore
    <2> QED BY <1>2, <1>3, <2>1, SMTT(30) DEF CopyOf, OfferOf
  <1>5. Held' = [Held EXCEPT ![n][m.element] = CopyOf(Adopt(n, m.data))]
    <2>1. info' = [info EXCEPT ![n][m.element] = Adopt(n, m.data)]
      BY DEF ReceiveSendData
    <2>2. info \in [Peer -> [Element -> AgreementInformation]]
      BY DEF SafeInv, TypeOK
    <2> QED BY <1>2, <2>1, <2>2 DEF Held
  <1>6. o \in Offers(net) /\ o.to = n /\ o.from = m.from /\ o.element = m.element
    BY <1>1 DEF Offers, OfferOf
  <1>7. /\ Offers(net') = Offers(net) \ {o}
        /\ \/ Confirmations(net') = Confirmations(net)
           \/ Confirmations(net') = Confirmations(net) \cup
                 {[from |-> n, to |-> m.from, element |-> m.element]}
    <2>1. Offers(net \ {m}) = Offers(net) \ {o}
      BY <1>1, OfferGone
    <2>2. Confirmations(net \ {m}) = Confirmations(net)
      BY <1>1 DEF Confirmations
    <2>3. CASE net' = (net \ {m}) \cup {reply}
      <3>1. Offers(net') = Offers(net \ {m})
        BY <2>3 DEF Offers
      <3>2. Confirmations(net') = Confirmations(net \ {m}) \cup {ConfirmationOf(reply)}
        BY <2>3 DEF Confirmations
      <3> QED BY <2>1, <2>2, <3>1, <3>2 DEF ConfirmationOf
    <2>4. CASE net' = net \ {m}
      BY <2>1, <2>2, <2>4
    <2> QED BY <2>3, <2>4 DEF ReceiveSendData, ReplyOrAbort
  <1> HIDE DEF o
  <1>8. Scene!Take(o)
    BY <1>4, <1>5, <1>6, <1>7 DEF Scene!Take
  <1> QED BY <1>6, <1>8 DEF Scene!Next

\* An acknowledgement counts the taker for what the peer holds by then.
LEMMA ReceiveAckCounts ==
    ASSUME SafeInv, NEW n \in Peer, NEW m \in net, ReceiveAck(n, m)
    PROVE  Scene!Next
  <1> DEFINE c == ConfirmationOf(m)
             i == info[n][m.element]
  <1>1. m.type = "ACK" /\ m.to = n
    BY DEF ReceiveAck, Arrived
  <1>2. m \in Datagram /\ i.round # 0
    BY <1>1 DEF SafeInv, TypeOK, RoundInv, DatagramLaw
  <1>3. m.from \in Peer /\ m.element \in Element
    BY <1>1, <1>2 DEF Datagram
  <1>4. i \in AgreementInformation /\ CountsAgreement(n, i)
    BY <1>2, <1>3 DEF SafeInv, TypeOK, RoundInv, InformationLaw
  <1>5. Join(i, m.from).round # 0
    BY <1>3, <1>4, JoinLaw
  <1>6. CopyOf(Join(i, m.from)) = [CopyOf(i) EXCEPT !.supporters = @ \cup {m.from}]
    <2>1. /\ Join(i, m.from).fineLocation = i.fineLocation
          /\ Join(i, m.from).agreeingNodes = i.agreeingNodes \cup {m.from}
      BY DEF Join, OneMore
    <2> QED BY <1>2, <1>5, <2>1 DEF CopyOf
  <1>7. /\ Held[n][m.element] # Scene!Nothing
        /\ Held' = [Held EXCEPT ![n][m.element].supporters = @ \cup {m.from}]
    <2>1. info' = [info EXCEPT ![n][m.element] = Join(@, m.from)]
      BY DEF ReceiveAck
    <2>2. info \in [Peer -> [Element -> AgreementInformation]]
      BY DEF SafeInv, TypeOK
    <2>3. Held[n][m.element] = CopyOf(i)
      BY <1>3 DEF Held
    <2>4. Held' = [Held EXCEPT ![n][m.element] = CopyOf(Join(i, m.from))]
      BY <1>3, <2>1, <2>2 DEF Held
    <2>5. CopyOf(i) # Scene!Nothing
      BY <1>2 DEF CopyOf, Scene!Nothing
    <2> QED BY <1>6, <2>3, <2>4, <2>5
  <1>8. c \in Confirmations(net) /\ c.to = n /\ c.from = m.from /\ c.element = m.element
    BY <1>1 DEF Confirmations, ConfirmationOf
  <1>9. Offers(net') = Offers(net) /\ Confirmations(net') = Confirmations(net) \ {c}
    <2>1. net' = net \ {m}
      BY DEF ReceiveAck
    <2>2. Offers(net \ {m}) = Offers(net)
      BY <1>1 DEF Offers
    <2> QED BY <1>1, <2>1, <2>2, ConfirmationGone
  <1> HIDE DEF c
  <1>10. Scene!Count(c)
    BY <1>7, <1>8, <1>9 DEF Scene!Count
  <1> QED BY <1>8, <1>10 DEF Scene!Next

\* A lost datagram is a lost offer, a lost confirmation, or nothing at all.
LEMMA LoseLoses ==
    ASSUME SafeInv, NEW m \in net, Lose(m)
    PROVE  [Scene!Next]_(Scene!vars)
  <1>1. net' = net \ {m} /\ info' = info
    BY DEF Lose
  <1>2. Held' = Held
    BY <1>1 DEF Held
  <1>3. m.type \in {"ADVERT", "REQUEST_DATA", "SEND_DATA", "ACK"}
    BY DEF SafeInv, TypeOK, Datagram
  <1>4. CASE m.type = "SEND_DATA"
    <2>1. OfferOf(m) \in Offers(net)
      BY <1>4 DEF Offers
    <2>2. Confirmations(net') = Confirmations(net)
      BY <1>1, <1>4 DEF Confirmations
    <2>3. Scene!LoseOffer(OfferOf(m))
      BY <1>1, <1>2, <1>4, <2>2, OfferGone DEF Scene!LoseOffer
    <2> QED BY <2>1, <2>3 DEF Scene!Next
  <1>5. CASE m.type = "ACK"
    <2>1. ConfirmationOf(m) \in Confirmations(net)
      BY <1>5 DEF Confirmations
    <2>2. Offers(net') = Offers(net)
      BY <1>1, <1>5 DEF Offers
    <2>3. Scene!LoseConfirmation(ConfirmationOf(m))
      BY <1>1, <1>2, <1>5, <2>2, ConfirmationGone DEF Scene!LoseConfirmation
    <2> QED BY <2>1, <2>3 DEF Scene!Next
  <1>6. CASE m.type \in {"ADVERT", "REQUEST_DATA"}
    <2>1. Offers(net') = Offers(net) /\ Confirmations(net') = Confirmations(net)
      BY <1>1, <1>6, OthersInvisible
    <2> QED BY <1>2, <2>1 DEF Scene!vars
  <1> QED BY <1>3, <1>4, <1>5, <1>6

-----------------------------------------------------------------------------

\* Whatever the radio, the timers and ReceiveData do, a location spreads only
\* as a whole copy that was offered, and only takers are counted: the peers
\* implement SharedScene.
THEOREM SceneShared == Spec => SharesWholeCopies
  <1>1. Init => Scene!Init
    <2> SUFFICES ASSUME Init PROVE Scene!Init
      OBVIOUS
    <2>1. Held = [n \in Peer |-> [e \in Element |-> Scene!Nothing]]
      BY DEF Init, Held, CopyOf, FreshInformation, Scene!Nothing
    <2>2. Offers(net) = {} /\ Confirmations(net) = {}
      BY DEF Init, Offers, Confirmations
    <2> QED BY <2>1, <2>2 DEF Scene!Init
  <1>2. SafeInv /\ [Next]_vars => [Scene!Next]_(Scene!vars)
    <2> SUFFICES ASSUME SafeInv, [Next]_vars PROVE [Scene!Next]_(Scene!vars)
      OBVIOUS
    <2>1. CASE \E n \in Peer : EverySecond(n)
      BY <2>1, EverySecondStarts
    <2>2. CASE \E n \in Peer : CheckHeartbeats(n)
      BY <2>2 DEF CheckHeartbeats, Scene!vars, Held
    <2>3. CASE \E n \in Peer : \E m \in net : Receive(n, m)
      BY <2>3, ReceiveAdvertStarts, ReceiveDataRequestOffers, ReceiveSendDataTakes,
         ReceiveAckCounts DEF Receive
    <2>4. CASE \E m \in net : Lose(m)
      BY <2>4, LoseLoses
    <2>5. CASE UNCHANGED vars
      BY <2>5 DEF vars, Scene!vars, Held
    <2> QED BY <2>1, <2>2, <2>3, <2>4, <2>5 DEF Next
  <1> QED BY <1>1, <1>2, InitSafe, NextSafe, PTL DEF Spec, SharesWholeCopies, Scene!Spec
=============================================================================
