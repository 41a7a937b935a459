----------------------- MODULE PeerAgreement_proofs -----------------------
(* Proofs of the safety properties of PeerAgreement. *)
EXTENDS PeerAgreement, FiniteSetTheorems, SequenceTheorems, TLAPS

-----------------------------------------------------------------------------
(* Lemmas on the counting law.                                             *)

\* uint8_t arithmetic is exact below the modulus.
LEMMA BelowModulus ==
    ASSUME NEW x \in Nat, x < Modulus
    PROVE  x % Modulus = x
  BY ModulusAssumption, SMT

\* A group of peers is finite, and the rounds it can reach stay below the
\* modulus of causalNum_t.
LEMMA GroupSize ==
    ASSUME NEW G \in SUBSET Peer
    PROVE  /\ IsFiniteSet(G)
           /\ Cardinality(G) \in Nat
           /\ Cardinality(G) <= Cardinality(Peer)
           /\ Cardinality(Peer) \in Nat
           /\ \A l \in Peer : l + Cardinality(G) < Modulus
  <1>1. IsFiniteSet(G) /\ Cardinality(G) <= Cardinality(Peer)
    BY PeerAssumption, FS_Subset
  <1>2. Cardinality(G) \in Nat /\ Cardinality(Peer) \in Nat
    BY <1>1, PeerAssumption, FS_CardinalityType
  <1>3. \A l \in Peer : l + Cardinality(G) < Modulus
    BY <1>1, <1>2, PeerAssumption, ModulusAssumption
  <1> QED BY <1>1, <1>2, <1>3

\* Adding a supporter keeps the law that the round counts the group: the
\* increments of ReceiveData for SEND_DATA and for ACK.
LEMMA OneMoreLaw ==
    ASSUME NEW i \in AgreementInformation, NEW n \in Peer, NEW p \in Peer,
           CountsAgreement(n, i), p \notin i.agreeingNodes
    PROVE  /\ OneMore(i, p) \in AgreementInformation
           /\ CountsAgreement(n, OneMore(i, p))
           /\ CountsAgreement(p, OneMore(i, p))
           /\ OneMore(i, p).round # 0
  <1> DEFINE G == i.agreeingNodes
             H == G \cup {p}
  <1>1. /\ G \in SUBSET Peer /\ H \in SUBSET Peer
        /\ i.fineLocation \in Peer /\ i.version \in Causal
    BY DEF AgreementInformation
  <1>2. Cardinality(H) = Cardinality(G) + 1
    BY <1>1, GroupSize, FS_AddElement
  <1>3. /\ Cardinality(G) \in Nat
        /\ i.fineLocation \in Nat
        /\ i.fineLocation + Cardinality(H) < Modulus
    BY <1>1, GroupSize, PeerAssumption
  <1>4. i.round + 1 = i.fineLocation + Cardinality(H)
    BY <1>2, <1>3 DEF CountsAgreement
  <1>5. NextRound(i.round) = i.round + 1
    BY <1>2, <1>3, <1>4, BelowModulus DEF NextRound
  <1>6. i.round + 1 \in Causal /\ i.round + 1 # 0
    BY <1>2, <1>3, <1>4, ModulusAssumption DEF Causal
  <1>7. OneMore(i, p) \in AgreementInformation
    BY <1>1, <1>5, <1>6 DEF AgreementInformation, OneMore
  <1>8. CountsAgreement(n, OneMore(i, p)) /\ CountsAgreement(p, OneMore(i, p))
    BY <1>1, <1>4, <1>5 DEF CountsAgreement, OneMore
  <1> QED BY <1>5, <1>6, <1>7, <1>8 DEF OneMore

\* Whoever joins a location's group, by adopting its data or by acknowledging
\* it, leaves every member's copy lawful and started.
LEMMA JoinLaw ==
    ASSUME NEW i \in AgreementInformation, NEW n \in Peer, NEW p \in Peer,
           CountsAgreement(n, i)
    PROVE  /\ Join(i, p) \in AgreementInformation
           /\ CountsAgreement(n, Join(i, p))
           /\ CountsAgreement(p, Join(i, p))
           /\ Join(i, p).round # 0
  <1>1. CASE p \notin i.agreeingNodes
    BY <1>1, OneMoreLaw DEF Join
  <1>2. CASE p \in i.agreeingNodes
    <2>1. CountsAgreement(p, i)
      BY <1>2 DEF CountsAgreement
    <2>2. i.agreeingNodes \in SUBSET Peer /\ i.fineLocation \in Nat
      BY PeerAssumption DEF AgreementInformation
    <2>3. Cardinality(i.agreeingNodes) \in Nat /\ Cardinality(i.agreeingNodes) # 0
      BY <1>2, <2>2, GroupSize, FS_EmptySet
    <2>4. i.round # 0
      BY <2>2, <2>3 DEF CountsAgreement
    <2> QED BY <1>2, <2>1, <2>4 DEF Join
  <1> QED BY <1>1, <1>2

\* A peer that starts agreement alone supports its own location: round id + 1.
LEMMA StartLaw ==
    ASSUME NEW n \in Peer
    PROVE  /\ [FreshInformation(n) EXCEPT !.round = NextRound(n)]
                 \in AgreementInformation
           /\ CountsAgreement(n, [FreshInformation(n) EXCEPT !.round = NextRound(n)])
           /\ NextRound(n) # 0
  <1> DEFINE j == [FreshInformation(n) EXCEPT !.round = NextRound(n)]
  <1>1. n \in Nat /\ {n} \in SUBSET Peer
    BY PeerAssumption
  <1>2. Cardinality({n}) = 1 /\ n + 1 < Modulus
    BY <1>1, GroupSize, FS_Singleton
  <1>3. NextRound(n) = n + 1
    BY <1>1, <1>2, BelowModulus DEF NextRound
  <1>4. j = [version |-> 0, round |-> n + 1, fineLocation |-> n,
             agreeingNodes |-> {n}]
    BY <1>3 DEF FreshInformation
  <1>5. 0 \in Causal /\ n + 1 \in Causal
    BY <1>1, <1>2, ModulusAssumption DEF Causal
  <1> QED BY <1>1, <1>2, <1>3, <1>4, <1>5 DEF AgreementInformation, CountsAgreement

-----------------------------------------------------------------------------
(* What BeginAgreement does.                                               *)

\* BeginAgreement starts elements lawfully and never restarts one.
LEMMA InitializeRoundLaw ==
    ASSUME TypeOK, RoundInv, NEW n \in Peer, NEW group, NEW stamps, NEW E
    PROVE  LET f == InitializeRound(n, group, stamps, E)
           IN  /\ f \in [Element -> AgreementInformation]
               /\ \A e \in Element : /\ InformationLaw(n, f[e])
                                     /\ info[n][e].round # 0 => f[e].round # 0
  <1> DEFINE f == InitializeRound(n, group, stamps, E)
  <1> SUFFICES ASSUME NEW e \in Element
               PROVE  /\ f[e] \in AgreementInformation
                      /\ InformationLaw(n, f[e])
                      /\ info[n][e].round # 0 => f[e].round # 0
    BY DEF InitializeRound
  <1>1. info[n][e] \in AgreementInformation /\ InformationLaw(n, info[n][e])
    BY DEF TypeOK, RoundInv
  <1>2. CASE f[e] = info[n][e]
    BY <1>1, <1>2
  <1>3. CASE f[e] # info[n][e]
    <2>1. info[n][e].round = 0
      BY <1>3 DEF InitializeRound
    <2>2. info[n][e] = FreshInformation(n)
      BY <1>1, <2>1 DEF InformationLaw
    <2>3. f[e] = [FreshInformation(n) EXCEPT !.round = NextRound(n)]
      BY <1>3, <2>2 DEF InitializeRound
    <2>4. f[e].round = NextRound(n)
      BY <2>3 DEF FreshInformation
    <2> QED BY <2>1, <2>3, <2>4, StartLaw DEF InformationLaw
  <1> QED BY <1>2, <1>3

\* BeginAgreement asks peers of the group that have started the element.
LEMMA SendDataRequestLaw ==
    ASSUME TypeOK, NEW n \in Peer, NEW group \in SUBSET Peer,
           NEW stamps \in [Peer -> [Element -> Stamp]],
           \A p \in Peer, e \in Element : Backed(p, e, stamps[p][e]),
           NEW E \in SUBSET Element,
           NEW m \in SendDataRequest(n, group, stamps, E)
    PROVE  /\ m \in Datagram
           /\ m.type = "REQUEST_DATA" /\ m.from = n
           /\ m.to \in group /\ m.element \in E
           /\ info[m.to][m.element].round # 0
  <1>1. /\ m \in [type : {"REQUEST_DATA"}, from : {n}, to : group, element : E]
        /\ Outdone(n, group, stamps, m.element)
        /\ IsBestNode(m.to, group, stamps, m.element)
    BY DEF SendDataRequest
  <1>2. /\ m \in Datagram
        /\ m.type = "REQUEST_DATA" /\ m.from = n
        /\ m.to \in group /\ m.element \in E
    BY <1>1 DEF Datagram
  <1> DEFINE e == m.element
  <1>3. PICK q \in group : Beats(stamps[q][e], StampOf(info[n][e]))
    BY <1>1 DEF Outdone
  <1>4. /\ info[n][e].round \in Nat /\ info[n][e].version \in Nat
        /\ stamps[q][e].round \in Nat /\ stamps[m.to][e].round \in Nat
        /\ stamps[q][e].version = 0 /\ stamps[m.to][e].version = 0
    <2>1. e \in Element /\ m.to \in Peer /\ q \in Peer
      BY <1>2
    <2>2. /\ info[n][e] \in AgreementInformation
          /\ stamps[q][e] \in Stamp /\ stamps[m.to][e] \in Stamp
      BY <2>1 DEF TypeOK
    <2>3. Causal \subseteq Nat
      BY ModulusAssumption DEF Causal
    <2>4. info[n][e].round \in Nat /\ info[n][e].version \in Nat
      BY <2>2, <2>3 DEF AgreementInformation
    <2>5. stamps[q][e].round \in Nat /\ stamps[m.to][e].round \in Nat
      BY <2>2, <2>3 DEF Stamp
    <2>6. stamps[q][e].version = 0 /\ stamps[m.to][e].version = 0
      BY <2>1 DEF Backed
    <2> QED BY <2>4, <2>5, <2>6
  <1>5. stamps[q][e].round > 0
    BY <1>3, <1>4 DEF Beats, StampOf
  <1>6. \/ Beats(stamps[m.to][e], stamps[q][e])
        \/ stamps[m.to][e] = stamps[q][e]
    BY <1>1 DEF IsBestNode
  <1>7. stamps[m.to][e].round > 0
    BY <1>4, <1>5, <1>6 DEF Beats
  <1> QED BY <1>2, <1>4, <1>7 DEF Backed

-----------------------------------------------------------------------------
(* What is in the air or remembered stays lawful as long as no element is  *)
(* reset to round zero.                                                    *)

NothingRestarts ==
    \A p \in Peer, e \in Element : info[p][e].round # 0 => info'[p][e].round # 0

\* A stamp that was true of a peer stays backed by a peer that never restarts.
LEMMA StampsStayBacked ==
    ASSUME NothingRestarts, NEW p \in Peer, NEW e \in Element, NEW s, Backed(p, e, s)
    PROVE  Backed(p, e, s)'
  BY DEF NothingRestarts, Backed

\* Datagrams in the air stay lawful while no element goes back to round zero.
LEMMA DatagramsStayLawful ==
    ASSUME NothingRestarts, NEW m \in Datagram, DatagramLaw(m)
    PROVE  DatagramLaw(m)'
  <1>1. m.from \in Peer /\ m.to \in Peer
    BY DEF Datagram
  <1>2. m.type = "ADVERT" => DatagramLaw(m)'
    BY <1>1, StampsStayBacked DEF DatagramLaw
  <1>3. m.type # "ADVERT" => m.element \in Element
    BY DEF Datagram
  <1>4. m.type # "ADVERT" => DatagramLaw(m)'
    BY <1>1, <1>3 DEF DatagramLaw, NothingRestarts, CountsAgreement
  <1> QED BY <1>2, <1>4

-----------------------------------------------------------------------------
(* The counting law is inductive: one step per action.                     *)

SafeInv == TypeOK /\ RoundInv /\ NoSelf

\* The initial state: everybody holds its own location at round zero.
LEMMA InitSafe == Init => SafeInv
  <1> SUFFICES ASSUME Init PROVE SafeInv
    OBVIOUS
  <1>1. 0 \in Causal
    BY ModulusAssumption DEF Causal
  <1>2. Zero \in Stamp
    BY <1>1 DEF Zero, Stamp
  <1>3. \A n \in Peer : FreshInformation(n) \in AgreementInformation
    BY <1>1 DEF FreshInformation, AgreementInformation
  <1>4. timers \in Seq(Peer) /\ timers # <<>>
    <2>1. IsFiniteSet(Peer) /\ Cardinality(Peer) \in Nat
      BY PeerAssumption, FS_CardinalityType
    <2>2. PICK p \in Peer : TRUE
      BY PeerAssumption
    <2>3. timers \in Seq(Peer)
      BY <2>1, SeqDef, Zenon DEF Init
    <2>4. \E i \in DOMAIN timers : timers[i] = p
      BY <2>2 DEF Init
    <2> QED BY <2>3, <2>4
  <1>5. TypeOK
    BY <1>2, <1>3, <1>4 DEF Init, TypeOK
  <1>6. RoundInv
    BY DEF Init, RoundInv, InformationLaw, FreshInformation, Backed, Zero
  <1>7. NoSelf
    BY DEF Init, NoSelf
  <1> QED BY <1>5, <1>6, <1>7 DEF SafeInv

\* EverySecond: adverts carry the stamps of the sender, requests go to started
\* peers, and new elements start at id + 1.
LEMMA EverySecondSafe ==
    ASSUME SafeInv, NEW n \in Peer, EverySecond(n)
    PROVE  SafeInv'
  <1> DEFINE fresh == WithinReach(n) \ nearbyElements[n]
             f == InitializeRound(n, localGroup[n], heard[n], fresh)
             R == SendDataRequest(n, localGroup[n], heard[n], fresh)
             A == SendAdvertisement(n)
  <1>1. TypeOK /\ RoundInv /\ NoSelf
    BY DEF SafeInv
  <1>2. /\ f \in [Element -> AgreementInformation]
        /\ \A e \in Element : /\ InformationLaw(n, f[e])
                              /\ info[n][e].round # 0 => f[e].round # 0
    BY <1>1, InitializeRoundLaw
  <1>3. /\ localGroup[n] \in SUBSET Peer
        /\ heard[n] \in [Peer -> [Element -> Stamp]]
        /\ fresh \in SUBSET Element
    BY <1>1 DEF TypeOK, WithinReach
  <1>4. \A m \in R : /\ m \in Datagram /\ m.type = "REQUEST_DATA"
                     /\ m.from = n /\ m.to \in localGroup[n]
                     /\ m.element \in Element
                     /\ info[m.to][m.element].round # 0
    <2> HIDE DEF fresh
    <2>1. \A p \in Peer, e \in Element : Backed(p, e, heard[n][p][e])
      BY <1>1 DEF RoundInv
    <2> QED BY <1>1, <1>3, <2>1, SendDataRequestLaw
  <1>5. /\ info' = [info EXCEPT ![n] = f]
        /\ net' = net \cup A \cup R
        /\ nearbyElements' = [nearbyElements EXCEPT ![n] = WithinReach(n)]
        /\ localGroup' = localGroup /\ heard' = heard
        /\ outages' = outages /\ aborted' = aborted
        /\ timers' = Append(Tail(timers), n)
    BY DEF EverySecond
  <1>6. NothingRestarts
    BY <1>1, <1>2, <1>5 DEF NothingRestarts, TypeOK
  <1>7. \A m \in A : /\ m \in Datagram /\ m.type = "ADVERT" /\ m.from = n
                     /\ m.to # n /\ DatagramLaw(m)
    <2> SUFFICES ASSUME NEW m \in A
                 PROVE  /\ m \in Datagram /\ m.type = "ADVERT" /\ m.from = n
                        /\ m.to # n /\ DatagramLaw(m)
      OBVIOUS
    <2>1. PICK p \in Peer \ {n} : m = [type |-> "ADVERT", from |-> n, to |-> p,
                                      stamps |-> Advertisement(n)]
      BY DEF SendAdvertisement
    <2>2. \A e \in Element : /\ StampOf(info[n][e]) \in Stamp
                             /\ Backed(n, e, StampOf(info[n][e]))
      <3> SUFFICES ASSUME NEW e \in Element
                   PROVE  /\ StampOf(info[n][e]) \in Stamp
                          /\ Backed(n, e, StampOf(info[n][e]))
        OBVIOUS
      <3>1. info[n][e] \in AgreementInformation /\ InformationLaw(n, info[n][e])
        BY <1>1 DEF TypeOK, RoundInv
      <3>2. info[n][e].version = 0
        BY <3>1 DEF InformationLaw, FreshInformation, CountsAgreement
      <3> QED BY <3>1, <3>2 DEF AgreementInformation, Stamp, StampOf, Backed
    <2>3. Zero \in Stamp /\ \A e \in Element : Backed(n, e, Zero)
      BY ModulusAssumption DEF Zero, Stamp, Causal, Backed
    <2>4. /\ Advertisement(n) \in [Element -> Stamp]
          /\ \A e \in Element : Backed(n, e, Advertisement(n)[e])
      BY <2>2, <2>3 DEF Advertisement
    <2> QED BY <2>1, <2>4 DEF Datagram, DatagramLaw
  <1>8. TypeOK'
    <2>1. nearbyElements' \in [Peer -> SUBSET Element]
      BY <1>1, <1>5 DEF TypeOK, WithinReach
    <2>2. timers' \in Seq(Peer) /\ timers' # <<>>
      <3>1. Tail(timers) \in Seq(Peer)
        BY <1>1, HeadTailProperties DEF TypeOK
      <3> QED BY <1>5, <3>1, AppendProperties
    <2>3. info' \in [Peer -> [Element -> AgreementInformation]]
      BY <1>1, <1>2, <1>5 DEF TypeOK
    <2>4. net' \subseteq Datagram
      BY <1>1, <1>4, <1>5, <1>7 DEF TypeOK
    <2> QED BY <1>1, <1>5, <2>1, <2>2, <2>3, <2>4 DEF TypeOK
  <1>9. RoundInv'
    <2>1. \A p \in Peer, e \in Element : InformationLaw(p, info[p][e])'
      <3>1. \A p \in Peer, e \in Element :
                info'[p][e] = IF p = n THEN f[e] ELSE info[p][e]
        BY <1>1, <1>5 DEF TypeOK
      <3> HIDE DEF f
      <3>2. \A p \in Peer, e \in Element : InformationLaw(p, info'[p][e])
        BY <1>1, <1>2, <3>1 DEF RoundInv
      <3> QED BY <3>2
    <2>2. \A p, q \in Peer, e \in Element : Backed(q, e, heard[p][q][e])'
      BY <1>1, <1>5, <1>6 DEF RoundInv, Backed, NothingRestarts
    <2>3. \A m \in net \cup A \cup R : m \in Datagram /\ DatagramLaw(m)
      BY <1>1, <1>4, <1>7 DEF TypeOK, RoundInv, DatagramLaw
    <2>4. \A m \in net' : DatagramLaw(m)'
      BY <1>5, <1>6, <2>3, DatagramsStayLawful
    <2> QED BY <2>1, <2>2, <2>4 DEF RoundInv
  <1>10. NoSelf'
    BY <1>1, <1>4, <1>5, <1>7 DEF NoSelf
  <1> QED BY <1>8, <1>9, <1>10 DEF SafeInv

\* CheckHeartbeats and Lose only forget.
LEMMA OutageSafe ==
    ASSUME SafeInv,
           \/ \E n \in Peer : CheckHeartbeats(n)
           \/ \E m \in net : Lose(m)
    PROVE  SafeInv'
  <1>1. TypeOK /\ RoundInv /\ NoSelf
    BY DEF SafeInv
  <1>2. ASSUME NEW n \in Peer, CheckHeartbeats(n)
        PROVE  SafeInv'
    <2>1. PICK p \in localGroup[n] :
             /\ localGroup' = [localGroup EXCEPT ![n] = @ \ {p}]
             /\ heard' = [heard EXCEPT ![n][p] = [e \in Element |-> Zero]]
             /\ outages' = outages + 1
             /\ UNCHANGED <<info, nearbyElements, timers, net, aborted>>
      BY <1>2 DEF CheckHeartbeats
    <2>2. p \in Peer
      BY <1>1, <2>1 DEF TypeOK
    <2>3. Zero \in Stamp
      BY ModulusAssumption DEF Zero, Stamp, Causal
    <2>4. TypeOK'
      BY <1>1, <2>1, <2>2, <2>3 DEF TypeOK
    <2>5. RoundInv'
      <3>1. \A x, q \in Peer, e \in Element :
               heard'[x][q][e] = IF x = n /\ q = p THEN Zero ELSE heard[x][q][e]
        BY <1>1, <2>1, <2>2 DEF TypeOK
      <3>2. \A x, q \in Peer, e \in Element : Backed(q, e, heard[x][q][e])'
        BY <1>1, <2>1, <3>1 DEF RoundInv, Backed, Zero
      <3> QED BY <1>1, <2>1, <3>2 DEF RoundInv, DatagramLaw, Backed
    <2>6. NoSelf'
      BY <1>1, <2>1 DEF NoSelf, TypeOK
    <2> QED BY <2>4, <2>5, <2>6 DEF SafeInv
  <1>3. ASSUME NEW m \in net, Lose(m)
        PROVE  SafeInv'
    <2>1. /\ net' = net \ {m} /\ outages' = outages + 1
          /\ UNCHANGED <<info, nearbyElements, localGroup, heard, timers, aborted>>
      BY <1>3 DEF Lose
    <2>2. TypeOK'
      BY <1>1, <2>1 DEF TypeOK
    <2>3. RoundInv'
      BY <1>1, <2>1 DEF RoundInv, DatagramLaw, Backed
    <2>4. NoSelf'
      BY <1>1, <2>1 DEF NoSelf
    <2> QED BY <2>2, <2>3, <2>4 DEF SafeInv
  <1> QED BY <1>2, <1>3

\* An advert: what it says was true of its sender when it was sent, and the
\* requests it triggers go to peers with a non-zero stamp.
LEMMA ReceiveAdvertSafe ==
    ASSUME SafeInv, NEW n \in Peer, NEW m \in net, ReceiveAdvert(n, m)
    PROVE  SafeInv'
  <1> DEFINE agree  == {e \in nearbyElements[n] :
                           Beats(m.stamps[e], StampOf(info[n][e]))}
             group  == localGroup[n] \cup {m.from}
             stamps == [heard[n] EXCEPT ![m.from] = m.stamps]
             f == InitializeRound(n, group, stamps, agree)
             R == SendDataRequest(n, group, stamps, agree)
  <1>1. TypeOK /\ RoundInv /\ NoSelf
    BY DEF SafeInv
  <1>2. m \in Datagram /\ m.type = "ADVERT" /\ m.to = n /\ DatagramLaw(m)
    BY <1>1 DEF ReceiveAdvert, Arrived, TypeOK, RoundInv
  <1>3. m.from \in Peer /\ m.stamps \in [Element -> Stamp] /\ m.from # n
    BY <1>1, <1>2 DEF Datagram, NoSelf
  <1>4. /\ localGroup' = [localGroup EXCEPT ![n] = group]
        /\ heard' = [heard EXCEPT ![n] = stamps]
        /\ info' = [info EXCEPT ![n] = f]
        /\ net' = (net \ {m}) \cup R
        /\ UNCHANGED <<nearbyElements, timers, outages, aborted>>
    BY DEF ReceiveAdvert
  <1>5. /\ group \in SUBSET Peer /\ agree \in SUBSET Element
        /\ stamps \in [Peer -> [Element -> Stamp]]
    BY <1>1, <1>3 DEF TypeOK
  <1>6. \A p \in Peer, e \in Element : Backed(p, e, stamps[p][e])
    <2>1. \A p \in Peer : stamps[p] = IF p = m.from THEN m.stamps ELSE heard[n][p]
      BY <1>1, <1>3 DEF TypeOK
    <2> HIDE DEF stamps
    <2>2. \A e \in Element : Backed(m.from, e, m.stamps[e])
      BY <1>2 DEF DatagramLaw
    <2> QED BY <1>1, <2>1, <2>2 DEF RoundInv
  <1>7. /\ f \in [Element -> AgreementInformation]
        /\ \A e \in Element : /\ InformationLaw(n, f[e])
                              /\ info[n][e].round # 0 => f[e].round # 0
    BY <1>1, InitializeRoundLaw
  <1>8. \A r \in R : /\ r \in Datagram /\ r.type = "REQUEST_DATA"
                     /\ r.from = n /\ r.to \in group
                     /\ info[r.to][r.element].round # 0
    <2> HIDE DEF agree, group, stamps
    <2> QED BY <1>1, <1>5, <1>6, SendDataRequestLaw
  <1> HIDE DEF agree, f, R
  <1>9. NothingRestarts
    BY <1>1, <1>4, <1>7 DEF NothingRestarts, TypeOK
  <1>10. TypeOK'
    <2> HIDE DEF group, stamps
    <2> QED BY <1>1, <1>4, <1>5, <1>7, <1>8 DEF TypeOK
  <1>11. RoundInv'
    <2>1. \A p \in Peer, e \in Element :
             info'[p][e] = IF p = n THEN f[e] ELSE info[p][e]
      BY <1>1, <1>4 DEF TypeOK
    <2>2. \A p \in Peer, e \in Element : InformationLaw(p, info'[p][e])
      BY <1>1, <1>7, <2>1 DEF RoundInv
    <2>3. \A p, q \in Peer, e \in Element : Backed(q, e, heard[p][q][e])'
      <3> HIDE DEF stamps
      <3>1. \A p, q \in Peer, e \in Element : Backed(q, e, heard'[p][q][e])
        BY <1>1, <1>4, <1>6 DEF RoundInv, TypeOK
      <3> QED BY <1>9, <3>1 DEF Backed, NothingRestarts
    <2>4. \A r \in net \cup R : r \in Datagram /\ DatagramLaw(r)
      BY <1>1, <1>8 DEF TypeOK, RoundInv, DatagramLaw
    <2>5. \A r \in net' : DatagramLaw(r)'
      BY <1>4, <1>9, <2>4, DatagramsStayLawful
    <2> QED BY <2>2, <2>3, <2>5 DEF RoundInv
  <1>12. NoSelf'
    BY <1>1, <1>3, <1>4, <1>8 DEF NoSelf, TypeOK
  <1> QED BY <1>10, <1>11, <1>12 DEF SafeInv

\* A step that leaves the tables alone, updates one element of n lawfully and
\* sends at most one lawful datagram keeps the invariant: the common shape of
\* the three unicast handlers.
LEMMA UnicastSafe ==
    ASSUME SafeInv, NEW n \in Peer, NEW m \in net, NEW i \in AgreementInformation,
           m.element \in Element,
           InformationLaw(n, i), info[n][m.element].round # 0 => i.round # 0,
           info' = [info EXCEPT ![n][m.element] = i],
           \A r \in net' \ net : /\ r \in Datagram /\ DatagramLaw(r)'
                                 /\ r.from # r.to,
           aborted' \in BOOLEAN,
           UNCHANGED <<nearbyElements, localGroup, heard, timers, outages>>
    PROVE  SafeInv'
  <1>1. TypeOK /\ RoundInv /\ NoSelf
    BY DEF SafeInv
  <1>2. \A p \in Peer, e \in Element :
           info'[p][e] = IF p = n /\ e = m.element THEN i ELSE info[p][e]
    BY <1>1 DEF TypeOK
  <1>3. NothingRestarts
    BY <1>2 DEF NothingRestarts
  <1>4. TypeOK'
    BY <1>1 DEF TypeOK
  <1>5. \A p \in Peer, e \in Element : InformationLaw(p, info'[p][e])
    BY <1>1, <1>2 DEF RoundInv
  <1>6. \A p, q \in Peer, e \in Element : Backed(q, e, heard[p][q][e])'
    BY <1>1, <1>3 DEF RoundInv, Backed, NothingRestarts
  <1>7. \A r \in net' : DatagramLaw(r)'
    <2>1. \A r \in net : r \in Datagram /\ DatagramLaw(r)
      BY <1>1 DEF TypeOK, RoundInv
    <2> QED BY <1>3, <2>1, DatagramsStayLawful
  <1>8. RoundInv'
    BY <1>5, <1>6, <1>7 DEF RoundInv
  <1>9. NoSelf'
    BY <1>1 DEF NoSelf
  <1> QED BY <1>4, <1>8, <1>9 DEF SafeInv

\* REQUEST_DATA: the answer copies a started element.
LEMMA ReceiveDataRequestSafe ==
    ASSUME SafeInv, NEW n \in Peer, NEW m \in net, ReceiveDataRequest(n, m)
    PROVE  SafeInv'
  <1>1. TypeOK /\ RoundInv /\ NoSelf
    BY DEF SafeInv
  <1>2. /\ m \in Datagram /\ m.type = "REQUEST_DATA" /\ m.to = n
        /\ DatagramLaw(m) /\ m.from # m.to
    BY <1>1 DEF ReceiveDataRequest, Arrived, TypeOK, RoundInv, NoSelf
  <1>3. m.from \in Peer /\ m.element \in Element
    BY <1>2 DEF Datagram
  <1>4. PICK i \in AgreementInformation : i = info[n][m.element]
    BY <1>1, <1>3 DEF TypeOK
  <1> DEFINE reply == [type |-> "SEND_DATA", from |-> n, to |-> m.from,
                       element |-> m.element, data |-> i]
  <1>5. InformationLaw(n, i) /\ i.round # 0
    BY <1>1, <1>2, <1>3, <1>4 DEF RoundInv, DatagramLaw
  <1>6. /\ net' \subseteq net \cup {reply} /\ aborted' \in BOOLEAN
        /\ UNCHANGED <<info, nearbyElements, localGroup, heard, timers, outages>>
    BY <1>4 DEF ReceiveDataRequest, ReplyOrAbort
  <1>7. info' = [info EXCEPT ![n][m.element] = i]
    BY <1>1, <1>3, <1>4, <1>6 DEF TypeOK
  <1>8. reply \in Datagram /\ DatagramLaw(reply)' /\ reply.from # reply.to
    <2>1. reply \in Datagram
      BY <1>3 DEF Datagram
    <2>2. CountsAgreement(n, i)
      BY <1>5 DEF InformationLaw
    <2>3. DatagramLaw(reply)
      BY <1>4, <1>5, <2>2 DEF DatagramLaw
    <2>4. NothingRestarts
      BY <1>6 DEF NothingRestarts
    <2> QED BY <1>2, <2>1, <2>3, <2>4, DatagramsStayLawful
  <1> HIDE DEF reply
  <1> QED BY <1>3, <1>5, <1>6, <1>7, <1>8, UnicastSafe

\* SEND_DATA: the adopted copy counts its new supporter, and the sender that
\* will be acknowledged has started.
LEMMA ReceiveSendDataSafe ==
    ASSUME SafeInv, NEW n \in Peer, NEW m \in net, ReceiveSendData(n, m)
    PROVE  SafeInv'
  <1> DEFINE i == Adopt(n, m.data)
             reply == [type |-> "ACK", from |-> n, to |-> m.from,
                       element |-> m.element]
  <1>1. TypeOK /\ RoundInv /\ NoSelf
    BY DEF SafeInv
  <1>2. /\ m \in Datagram /\ m.type = "SEND_DATA" /\ m.to = n
        /\ DatagramLaw(m) /\ m.from # m.to
    BY <1>1 DEF ReceiveSendData, Arrived, TypeOK, RoundInv, NoSelf
  <1>3. /\ m.from \in Peer /\ m.element \in Element
        /\ m.data \in AgreementInformation
    BY <1>2 DEF Datagram
  <1>4. i \in AgreementInformation /\ CountsAgreement(n, i) /\ i.round # 0
    BY <1>2, <1>3, JoinLaw DEF DatagramLaw, Adopt
  <1>5. InformationLaw(n, i)
    BY <1>4 DEF InformationLaw
  <1>6. /\ info' = [info EXCEPT ![n][m.element] = i]
        /\ net' \subseteq net \cup {reply} /\ aborted' \in BOOLEAN
        /\ UNCHANGED <<nearbyElements, localGroup, heard, timers, outages>>
    BY DEF ReceiveSendData, ReplyOrAbort
  <1>7. reply \in Datagram /\ DatagramLaw(reply)' /\ reply.from # reply.to
    <2>1. reply \in Datagram
      BY <1>3 DEF Datagram
    <2>2. DatagramLaw(reply)
      BY <1>2, <1>3 DEF DatagramLaw
    <2> HIDE DEF i
    <2>3. NothingRestarts
      BY <1>1, <1>3, <1>4, <1>6 DEF NothingRestarts, TypeOK
    <2> QED BY <1>2, <2>1, <2>2, <2>3, DatagramsStayLawful
  <1> HIDE DEF i, reply
  <1> QED BY <1>3, <1>4, <1>5, <1>6, <1>7, UnicastSafe

\* ACK: one more supporter of an element that has started.
LEMMA ReceiveAckSafe ==
    ASSUME SafeInv, NEW n \in Peer, NEW m \in net, ReceiveAck(n, m)
    PROVE  SafeInv'
  <1> DEFINE i == Join(info[n][m.element], m.from)
  <1>1. TypeOK /\ RoundInv /\ NoSelf
    BY DEF SafeInv
  <1>2. m \in Datagram /\ m.type = "ACK" /\ m.to = n /\ DatagramLaw(m)
    BY <1>1 DEF ReceiveAck, Arrived, TypeOK, RoundInv
  <1>3. m.from \in Peer /\ m.element \in Element
    BY <1>2 DEF Datagram
  <1>4. /\ info[n][m.element] \in AgreementInformation
        /\ CountsAgreement(n, info[n][m.element])
    BY <1>1, <1>2, <1>3 DEF TypeOK, RoundInv, DatagramLaw, InformationLaw
  <1>5. i \in AgreementInformation /\ CountsAgreement(n, i) /\ i.round # 0
    BY <1>3, <1>4, JoinLaw
  <1>6. InformationLaw(n, i)
    BY <1>5 DEF InformationLaw
  <1>7. /\ info' = [info EXCEPT ![n][m.element] = i]
        /\ net' \subseteq net /\ aborted' \in BOOLEAN
        /\ UNCHANGED <<nearbyElements, localGroup, heard, timers, outages>>
    BY <1>1, <1>3 DEF ReceiveAck, TypeOK
  <1> HIDE DEF i
  <1> QED BY <1>3, <1>5, <1>6, <1>7, UnicastSafe

\* Every step of the program keeps the invariant.
LEMMA NextSafe == SafeInv /\ [Next]_vars => SafeInv'
  <1> SUFFICES ASSUME SafeInv, [Next]_vars PROVE SafeInv'
    OBVIOUS
  <1>1. CASE \E n \in Peer : EverySecond(n)
    BY <1>1, EverySecondSafe
  <1>2. CASE (\E n \in Peer : CheckHeartbeats(n)) \/ (\E m \in net : Lose(m))
    BY <1>2, OutageSafe
  <1>3. CASE \E n \in Peer : \E m \in net : Receive(n, m)
    BY <1>3, ReceiveAdvertSafe, ReceiveDataRequestSafe, ReceiveSendDataSafe,
       ReceiveAckSafe DEF Receive
  <1>4. CASE UNCHANGED vars
    BY <1>4 DEF vars, SafeInv, TypeOK, RoundInv, NoSelf, Backed, DatagramLaw
  <1> QED BY <1>1, <1>2, <1>3, <1>4 DEF Next

\* Type correctness of the peers' tables, stamps and datagrams, whatever
\* ReceiveData and the timers do.
THEOREM TypeCorrect == Spec => []TypeOK
  <1>1. SafeInv => TypeOK
    BY DEF SafeInv
  <1> QED BY <1>1, InitSafe, NextSafe, PTL DEF Spec

\* The round of every started copy of a location is the id of the peer that
\* drew it plus the number of its supporters, for every set of peers.
THEOREM RoundsCount == Spec => []RoundCountsAgreement
  <1>1. SafeInv => RoundCountsAgreement
    BY DEF SafeInv, RoundInv, RoundCountsAgreement, InformationLaw
  <1> QED BY <1>1, InitSafe, NextSafe, PTL DEF Spec

\* Requests and acknowledgements reach only peers that have started the
\* element, so a round of zero is never copied or counted up from.
THEOREM AskedPeersStarted == Spec => []OnlyStartedPeersAreAsked
  <1>1. SafeInv => OnlyStartedPeersAreAsked
    BY DEF SafeInv, RoundInv, OnlyStartedPeersAreAsked, DatagramLaw
  <1> QED BY <1>1, InitSafe, NextSafe, PTL DEF Spec

-----------------------------------------------------------------------------
(* Without outages, localGroup.at finds whom it looks for.                 *)

\* Nobody is forgotten while adverts stay in the air and groups only grow.
LEMMA AnnouncedKept ==
    ASSUME NEW n \in Peer, NEW p \in Peer, Announced(n, p),
           localGroup[p] \subseteq localGroup'[p],
           \A a \in net : a.type = "ADVERT" /\ a.from = n /\ a.to = p => a \in net'
    PROVE  Announced(n, p)'
  BY DEF Announced

\* A unicast handler keeps the acquaintances if its reply goes to an
\* acquaintance; it forgets nobody and consumes no advert.
LEMMA UnicastAcquainted ==
    ASSUME SafeInv, AcquaintedInv, NEW n \in Peer, NEW m \in net, NEW r,
           m.type # "ADVERT",
           net \ {m} \subseteq net', net' \subseteq net \cup {r},
           r.type # "REQUEST_DATA",
           outages = 0 /\ r.type = "SEND_DATA" => r.from \in localGroup[r.to],
           outages = 0 => ~aborted',
           UNCHANGED <<nearbyElements, localGroup, heard, timers, outages>>
    PROVE  AcquaintedInv'
  <1> SUFFICES ASSUME outages = 0 PROVE AcquaintedInv'
    BY DEF AcquaintedInv
  <1>1. TypeOK
    BY DEF SafeInv
  <1>2. \A x, y \in Peer : Announced(x, y) => Announced(x, y)'
    BY AnnouncedKept
  <1>3. \A d \in net : d.from \in Peer /\ d.to \in Peer
    BY <1>1 DEF TypeOK, Datagram
  <1>4. \A d \in net' : d.type = "REQUEST_DATA" =>
              d \in net /\ Announced(d.from, d.to)' /\ d.to \in localGroup'[d.from]
    BY <1>2, <1>3 DEF AcquaintedInv
  <1> QED BY <1>2, <1>4 DEF AcquaintedInv

\* The one-second timer: the advert leaves before the requests.
LEMMA EverySecondAcquainted ==
    ASSUME SafeInv, AcquaintedInv, NEW n \in Peer, EverySecond(n)
    PROVE  AcquaintedInv'
  <1> DEFINE fresh == WithinReach(n) \ nearbyElements[n]
             R == SendDataRequest(n, localGroup[n], heard[n], fresh)
             A == SendAdvertisement(n)
  <1> SUFFICES ASSUME outages = 0 PROVE AcquaintedInv'
    BY DEF AcquaintedInv, EverySecond
  <1>1. TypeOK /\ NoSelf
    BY DEF SafeInv
  <1>2. /\ net' = net \cup A \cup R
        /\ nearbyElements' = [nearbyElements EXCEPT ![n] = WithinReach(n)]
        /\ localGroup' = localGroup /\ aborted' = aborted
    BY DEF EverySecond
  <1>3. \A x, y \in Peer : Announced(x, y) => Announced(x, y)'
    BY <1>2, AnnouncedKept
  <1>4. \A p \in Peer \ {n} : Announced(n, p)'
    <2> SUFFICES ASSUME NEW p \in Peer \ {n} PROVE Announced(n, p)'
      OBVIOUS
    <2>1. [type |-> "ADVERT", from |-> n, to |-> p, stamps |-> Advertisement(n)] \in A
      BY DEF SendAdvertisement
    <2> QED BY <1>2, <2>1 DEF Announced
  <1>5. \A m \in A : m.type = "ADVERT"
    BY DEF SendAdvertisement
  <1>6. \A m \in R : m.type = "REQUEST_DATA" /\ m.from = n /\ m.to \in localGroup[n]
    BY DEF SendDataRequest
  <1>7. \A m \in R : m.to \in Peer \ {n}
    BY <1>1, <1>6 DEF TypeOK, NoSelf
  <1>8. \A m \in net : m.from \in Peer /\ m.to \in Peer
    BY <1>1 DEF TypeOK, Datagram
  <1> HIDE DEF A, R
  <1>9. \A x, p \in Peer : nearbyElements'[x] # {} /\ p # x => Announced(x, p)'
    BY <1>1, <1>2, <1>3, <1>4 DEF AcquaintedInv, TypeOK
  <1>10. \A m \in net' :
            /\ m.type = "REQUEST_DATA" => /\ Announced(m.from, m.to)'
                                          /\ m.to \in localGroup'[m.from]
            /\ m.type = "SEND_DATA" => m.from \in localGroup'[m.to]
    BY <1>2, <1>3, <1>4, <1>5, <1>6, <1>7, <1>8 DEF AcquaintedInv
  <1>11. ~aborted'
    BY <1>2 DEF AcquaintedInv
  <1> QED BY <1>9, <1>10, <1>11 DEF AcquaintedInv

\* An advert: its sender becomes known as the advert leaves the air, and the
\* requests it triggers come from a peer near an element, hence announced.
LEMMA ReceiveAdvertAcquainted ==
    ASSUME SafeInv, AcquaintedInv, NEW n \in Peer, NEW m \in net, ReceiveAdvert(n, m)
    PROVE  AcquaintedInv'
  <1> DEFINE agree  == {e \in nearbyElements[n] :
                           Beats(m.stamps[e], StampOf(info[n][e]))}
             group  == localGroup[n] \cup {m.from}
             stamps == [heard[n] EXCEPT ![m.from] = m.stamps]
             R == SendDataRequest(n, group, stamps, agree)
  <1> SUFFICES ASSUME outages = 0 PROVE AcquaintedInv'
    BY DEF AcquaintedInv, ReceiveAdvert
  <1>1. TypeOK /\ NoSelf
    BY DEF SafeInv
  <1>2. m \in Datagram /\ m.type = "ADVERT" /\ m.to = n /\ m.from # n
    BY <1>1 DEF ReceiveAdvert, Arrived, TypeOK, NoSelf
  <1>3. /\ localGroup' = [localGroup EXCEPT ![n] = group]
        /\ net' = (net \ {m}) \cup R
        /\ UNCHANGED <<nearbyElements, outages, aborted>>
    BY DEF ReceiveAdvert
  <1>4. \A d \in net : d.from \in Peer /\ d.to \in Peer
    BY <1>1 DEF TypeOK, Datagram
  <1>5. /\ \A p \in Peer : localGroup[p] \subseteq localGroup'[p]
        /\ m.from \in localGroup'[n] /\ localGroup'[n] = group
    BY <1>1, <1>3 DEF TypeOK
  <1>6. \A r \in R : /\ r.type = "REQUEST_DATA" /\ r.from = n /\ r.to \in group
                     /\ r.element \in agree
    BY DEF SendDataRequest
  <1>7. \A r \in R : r.to \in Peer /\ r.to # n /\ nearbyElements[n] # {}
    BY <1>1, <1>2, <1>4, <1>6 DEF TypeOK, NoSelf
  <1> HIDE DEF R
  <1>8. \A x, y \in Peer : Announced(x, y) => Announced(x, y)'
    <2> SUFFICES ASSUME NEW x \in Peer, NEW y \in Peer, Announced(x, y)
                 PROVE  Announced(x, y)'
      OBVIOUS
    <2>1. CASE x = m.from /\ y = n
      BY <1>5, <2>1 DEF Announced
    <2>2. CASE ~(x = m.from /\ y = n)
      BY <1>2, <1>3, <1>5, <2>2, AnnouncedKept
    <2> QED BY <2>1, <2>2
  <1>9. \A d \in net' :
           /\ d.type = "REQUEST_DATA" => /\ Announced(d.from, d.to)'
                                         /\ d.to \in localGroup'[d.from]
           /\ d.type = "SEND_DATA" => d.from \in localGroup'[d.to]
    <2>1. \A d \in net :
           /\ d.type = "REQUEST_DATA" => /\ Announced(d.from, d.to)'
                                         /\ d.to \in localGroup'[d.from]
           /\ d.type = "SEND_DATA" => d.from \in localGroup'[d.to]
      BY <1>4, <1>5, <1>8 DEF AcquaintedInv
    <2>2. \A r \in R : Announced(r.from, r.to)' /\ r.to \in localGroup'[r.from]
      BY <1>5, <1>6, <1>7, <1>8 DEF AcquaintedInv
    <2> QED BY <1>3, <1>6, <2>1, <2>2
  <1> QED BY <1>3, <1>8, <1>9 DEF AcquaintedInv

\* Every step keeps the acquaintances.
LEMMA NextAcquainted == SafeInv /\ AcquaintedInv /\ [Next]_vars => AcquaintedInv'
  <1> SUFFICES ASSUME SafeInv, AcquaintedInv, [Next]_vars PROVE AcquaintedInv'
    OBVIOUS
  <1>1. TypeOK
    BY DEF SafeInv
  <1>2. CASE \E n \in Peer : EverySecond(n)
    BY <1>2, EverySecondAcquainted
  <1>3. CASE (\E n \in Peer : CheckHeartbeats(n)) \/ (\E m \in net : Lose(m))
    <2>1. outages' = outages + 1 /\ outages \in Nat
      BY <1>1, <1>3 DEF CheckHeartbeats, Lose, TypeOK
    <2> QED BY <2>1 DEF AcquaintedInv
  <1>4. ASSUME NEW n \in Peer, NEW m \in net, Receive(n, m)
        PROVE  AcquaintedInv'
    <2>1. CASE ReceiveAdvert(n, m)
      BY <2>1, ReceiveAdvertAcquainted
    <2>2. CASE ReceiveDataRequest(n, m)
      <3>1. PICK r : r = [type |-> "SEND_DATA", from |-> n, to |-> m.from,
                          element |-> m.element, data |-> info[n][m.element]]
        OBVIOUS
      <3>2. /\ m.type = "REQUEST_DATA" /\ m.to = n
            /\ ~\E a \in net : a.type = "ADVERT" /\ a.from = m.from /\ a.to = n
        BY <2>2 DEF ReceiveDataRequest, Arrived
      <3>3. outages = 0 => m.from \in localGroup[n] /\ n \in localGroup[m.from]
        BY <3>2 DEF AcquaintedInv, Announced
      <3>4. /\ net' = (net \ {m}) \cup (IF m.from \in localGroup[n] THEN {r} ELSE {})
            /\ aborted' = (m.from \notin localGroup[n])
            /\ UNCHANGED <<nearbyElements, localGroup, heard, timers, outages>>
        BY <2>2, <3>1 DEF ReceiveDataRequest, ReplyOrAbort
      <3>5. r.type = "SEND_DATA" /\ r.from = n /\ r.to = m.from
        BY <3>1
      <3>6. net \ {m} \subseteq net' /\ net' \subseteq net \cup {r}
        BY <3>4
      <3>7. outages = 0 => ~aborted'
        BY <3>3, <3>4
      <3> QED BY <3>2, <3>3, <3>4, <3>5, <3>6, <3>7, UnicastAcquainted
    <2>3. CASE ReceiveSendData(n, m)
      <3>1. PICK r : r = [type |-> "ACK", from |-> n, to |-> m.from,
                          element |-> m.element]
        OBVIOUS
      <3>2. m.type = "SEND_DATA" /\ m.to = n
        BY <2>3 DEF ReceiveSendData, Arrived
      <3>3. outages = 0 => m.from \in localGroup[n]
        BY <3>2 DEF AcquaintedInv
      <3>4. /\ net' = (net \ {m}) \cup (IF m.from \in localGroup[n] THEN {r} ELSE {})
            /\ aborted' = (m.from \notin localGroup[n])
            /\ UNCHANGED <<nearbyElements, localGroup, heard, timers, outages>>
        BY <2>3, <3>1 DEF ReceiveSendData, ReplyOrAbort
      <3>5. r.type = "ACK"
        BY <3>1
      <3>6. net \ {m} \subseteq net' /\ net' \subseteq net \cup {r}
        BY <3>4
      <3>7. outages = 0 => ~aborted'
        BY <3>3, <3>4
      <3> QED BY <3>2, <3>4, <3>5, <3>6, <3>7, UnicastAcquainted
    <2>4. CASE ReceiveAck(n, m)
      <3>1. m.type = "ACK" /\ net' = net \ {m}
            /\ UNCHANGED <<nearbyElements, localGroup, heard, timers, outages, aborted>>
        BY <2>4 DEF ReceiveAck, Arrived
      <3>2. outages = 0 => ~aborted'
        BY <3>1 DEF AcquaintedInv
      <3> QED BY <3>1, <3>2, UnicastAcquainted
    <2> QED BY <1>4, <2>1, <2>2, <2>3, <2>4 DEF Receive
  <1>5. CASE UNCHANGED vars
    BY <1>5 DEF vars, AcquaintedInv, Announced
  <1> QED BY <1>2, <1>3, <1>4, <1>5 DEF Next

\* localGroup.at throws only after a radio outage: for every set of peers and
\* every placement, a fault-free radio never aborts the program.
THEOREM NoAbortWithoutOutage == Spec => []OnlyOutagesAbort
  <1>1. Init => AcquaintedInv
    BY DEF Init, AcquaintedInv
  <1>2. SafeInv /\ AcquaintedInv => OnlyOutagesAbort
    BY DEF SafeInv, TypeOK, AcquaintedInv, OnlyOutagesAbort
  <1> QED BY <1>1, <1>2, InitSafe, NextSafe, NextAcquainted, PTL DEF Spec

-----------------------------------------------------------------------------
(* What a settled system has agreed on.                                    *)

\* Some peer has started every element that any peer is near to.
StartedInv ==
    \A n \in Peer, e \in Element :
        e \in nearbyElements[n] => \E p \in Peer : info[p][e].round # 0

\* q shares its location of e with someone, and so has taken or given a copy.
Joined(q, e) == \E p \in info[q][e].agreeingNodes : p # q

\* Whom a copy counts has a share in it: the peer that drew it, or one that
\* has joined.
CountsJoined(i, e) == \A q \in i.agreeingNodes : q = i.fineLocation \/ Joined(q, e)

JoinedInv ==
    /\ \A n \in Peer, e \in Element : CountsJoined(info[n][e], e)
    /\ \A m \in net : /\ m.type = "SEND_DATA" => CountsJoined(m.data, m.element)
                      /\ m.type = "ACK" => Joined(m.from, m.element)

SettledInv == SafeInv /\ StartedInv /\ JoinedInv

\* The copies a peer may come to hold in one step.
Becomes(q, e) ==
    \/ info'[q][e] = info[q][e]
    \/ /\ info'[q][e].agreeingNodes = info[q][e].agreeingNodes
       /\ info'[q][e].fineLocation = info[q][e].fineLocation
       /\ info[q][e].round = 0 /\ info'[q][e].round # 0
    \/ \E m \in net : /\ m.type = "SEND_DATA" /\ m.to = q /\ m.element = e
                      /\ info'[q][e] = Join(m.data, q)
    \/ \E m \in net : /\ m.type = "ACK" /\ m.to = q /\ m.element = e
                      /\ info'[q][e] = Join(info[q][e], m.from)

\* BeginAgreement starts the elements in question that nobody is ahead in.
LEMMA InitializeRoundStarts ==
    ASSUME SafeInv, NEW n \in Peer, NEW group, NEW stamps, NEW E,
           info' = [info EXCEPT ![n] = InitializeRound(n, group, stamps, E)]
    PROVE  /\ \A q \in Peer, e \in Element : Becomes(q, e)
           /\ \A e \in Element \cap E :
                 ~ Outdone(n, group, stamps, e) => info'[n][e].round # 0
  <1>1. info \in [Peer -> [Element -> AgreementInformation]]
    BY DEF SafeInv, TypeOK
  <1>2. PICK f : f = InitializeRound(n, group, stamps, E)
    OBVIOUS
  <1>3. ASSUME NEW e \in Element
        PROVE  /\ \/ f[e] = info[n][e]
                  \/ /\ f[e].agreeingNodes = info[n][e].agreeingNodes
                     /\ f[e].fineLocation = info[n][e].fineLocation
                     /\ info[n][e].round = 0 /\ f[e].round # 0
               /\ e \in E /\ ~ Outdone(n, group, stamps, e) => f[e].round # 0
    <2>1. info[n][e] \in AgreementInformation
      BY <1>1
    <2>2. PICK i : i = [info[n][e] EXCEPT !.round = NextRound(n)]
      OBVIOUS
    <2>3. /\ i.agreeingNodes = info[n][e].agreeingNodes /\ i.round = NextRound(n)
          /\ i.fineLocation = info[n][e].fineLocation
      BY <2>1, <2>2 DEF AgreementInformation
    <2>4. i.round # 0
      BY <2>3, StartLaw
    <2>5. f[e] = IF e \in E /\ ~ Outdone(n, group, stamps, e) /\ info[n][e].round = 0
                 THEN i ELSE info[n][e]
      BY <1>2, <2>2 DEF InitializeRound
    <2> QED BY <2>3, <2>4, <2>5
  <1>4. \A q \in Peer : info'[q] = IF q = n THEN f ELSE info[q]
    BY <1>1, <1>2
  <1> QED BY <1>3, <1>4 DEF Becomes

\* Messages that enter the air carry a copy their sender holds, or confirm the
\* copy it has just taken.
LEMMA Exchanges ==
    ASSUME SafeInv, [Next]_vars
    PROVE  /\ \A q \in Peer, e \in Element : Becomes(q, e)
           /\ \A m \in net' \ net :
                 /\ m.type = "SEND_DATA" => m.data = info[m.from][m.element]
                 /\ m.type = "ACK" =>
                       \E d \in net : /\ d.type = "SEND_DATA" /\ d.to = m.from
                                     /\ d.element = m.element
                                     /\ info'[m.from][m.element] = Join(d.data, m.from)
  <1>1. info \in [Peer -> [Element -> AgreementInformation]] /\ net \subseteq Datagram
    BY DEF SafeInv, TypeOK
  <1>2. ASSUME info' = info
        PROVE  \A q \in Peer, e \in Element : Becomes(q, e)
    BY <1>2 DEF Becomes
  <1>3. ASSUME NEW n \in Peer, EverySecond(n)
        PROVE  /\ \A q \in Peer, e \in Element : Becomes(q, e)
               /\ \A m \in net' \ net : m.type \notin {"SEND_DATA", "ACK"}
    <2>1. \A q \in Peer, e \in Element : Becomes(q, e)
      BY <1>3, InitializeRoundStarts DEF EverySecond
    <2>2. \A m \in net' \ net : m.type \in {"ADVERT", "REQUEST_DATA"}
      BY <1>3 DEF EverySecond, SendAdvertisement, SendDataRequest
    <2> QED BY <2>1, <2>2
  <1>4. ASSUME NEW n \in Peer, NEW m \in net, ReceiveAdvert(n, m)
        PROVE  /\ \A q \in Peer, e \in Element : Becomes(q, e)
               /\ \A d \in net' \ net : d.type \notin {"SEND_DATA", "ACK"}
    <2>1. \A q \in Peer, e \in Element : Becomes(q, e)
      BY <1>4, InitializeRoundStarts DEF ReceiveAdvert
    <2>2. \A d \in net' \ net : d.type = "REQUEST_DATA"
      BY <1>4 DEF ReceiveAdvert, SendDataRequest
    <2> QED BY <2>1, <2>2
  <1>5. ASSUME NEW n \in Peer, NEW m \in net, ReceiveDataRequest(n, m)
        PROVE  /\ \A q \in Peer, e \in Element : Becomes(q, e)
               /\ \A d \in net' \ net :
                     /\ d.type = "SEND_DATA" => d.data = info[d.from][d.element]
                     /\ d.type # "ACK"
    <2>1. PICK r : r = [type |-> "SEND_DATA", from |-> n, to |-> m.from,
                        element |-> m.element, data |-> info[n][m.element]]
      OBVIOUS
    <2>2. net' \ net \subseteq {r} /\ info' = info
      BY <1>5, <2>1 DEF ReceiveDataRequest, ReplyOrAbort
    <2>3. r.type = "SEND_DATA" /\ r.data = info[r.from][r.element]
      BY <2>1
    <2> QED BY <1>2, <2>2, <2>3
  <1>6. ASSUME NEW n \in Peer, NEW m \in net, ReceiveSendData(n, m)
        PROVE  /\ \A q \in Peer, e \in Element : Becomes(q, e)
               /\ \A d \in net' \ net :
                     /\ d.type = "ACK" /\ m.type = "SEND_DATA" /\ m.to = d.from
                     /\ m.element = d.element
                     /\ info'[d.from][d.element] = Join(m.data, d.from)
    <2>1. PICK r : r = [type |-> "ACK", from |-> n, to |-> m.from, element |-> m.element]
      OBVIOUS
    <2>2. /\ m.type = "SEND_DATA" /\ m.to = n
          /\ info' = [info EXCEPT ![n] = [info[n] EXCEPT ![m.element] = Join(m.data, n)]]
          /\ net' \ net \subseteq {r}
      BY <1>6, <2>1 DEF ReceiveSendData, Arrived, ReplyOrAbort, Adopt
    <2>3. m.element \in Element
      BY <1>1, <2>2 DEF Datagram
    <2>4. \A q \in Peer, e \in Element :
             info'[q][e] = IF q = n /\ e = m.element THEN Join(m.data, n) ELSE info[q][e]
      BY <1>1, <2>2, <2>3
    <2>5. \A q \in Peer, e \in Element : Becomes(q, e)
      BY <2>2, <2>4 DEF Becomes
    <2>6. r.type = "ACK" /\ r.from = n /\ r.element = m.element
      BY <2>1
    <2> QED BY <2>2, <2>3, <2>4, <2>5, <2>6
  <1>7. ASSUME NEW n \in Peer, NEW m \in net, ReceiveAck(n, m)
        PROVE  (\A q \in Peer, e \in Element : Becomes(q, e)) /\ net' \ net = {}
    <2>1. /\ m.type = "ACK" /\ m.to = n /\ net' \subseteq net
          /\ info' = [info EXCEPT ![n] =
                [info[n] EXCEPT ![m.element] = Join(info[n][m.element], m.from)]]
      BY <1>1, <1>7 DEF ReceiveAck, Arrived
    <2>2. m.element \in Element
      BY <1>1, <2>1 DEF Datagram
    <2>3. \A q \in Peer, e \in Element :
             info'[q][e] = IF q = n /\ e = m.element THEN Join(info[n][e], m.from)
                           ELSE info[q][e]
      BY <1>1, <2>1, <2>2
    <2> QED BY <2>1, <2>3 DEF Becomes
  <1>8. ASSUME \/ \E n \in Peer : CheckHeartbeats(n)
               \/ \E m \in net : Lose(m)
               \/ UNCHANGED vars
        PROVE  (\A q \in Peer, e \in Element : Becomes(q, e)) /\ net' \ net = {}
    BY <1>2, <1>8 DEF CheckHeartbeats, Lose, vars
  <1> QED BY <1>3, <1>4, <1>5, <1>6, <1>7, <1>8 DEF Next, Receive

\* Joining adds to the group only the peer that joins, at the same location.
LEMMA JoinCounts ==
    ASSUME NEW i \in AgreementInformation, NEW p \in Peer
    PROVE  /\ Join(i, p).agreeingNodes = i.agreeingNodes \cup {p}
           /\ Join(i, p).fineLocation = i.fineLocation
  BY DEF Join, OneMore, AgreementInformation

\* A peer that has started, or joined, stays so: no handler gives a location up
\* for one nobody else has.
LEMMA NobodyLeaves ==
    ASSUME SafeInv, [Next]_vars
    PROVE  /\ NothingRestarts
           /\ \A q \in Peer, e \in Element : Joined(q, e) => Joined(q, e)'
  <1> SUFFICES ASSUME NEW q \in Peer, NEW e \in Element
               PROVE  /\ info[q][e].round # 0 => info'[q][e].round # 0
                      /\ Joined(q, e) => Joined(q, e)'
    BY DEF NothingRestarts
  <1>1. Becomes(q, e)
    BY Exchanges
  <1>2. /\ info[q][e] \in AgreementInformation
        /\ InformationLaw(q, info[q][e])
    BY DEF SafeInv, TypeOK, RoundInv
  <1>3. CASE info'[q][e] = info[q][e]
    BY <1>3 DEF Joined
  <1>4. CASE /\ info'[q][e].agreeingNodes = info[q][e].agreeingNodes
             /\ info[q][e].round = 0 /\ info'[q][e].round # 0
    BY <1>4 DEF Joined
  <1>5. ASSUME NEW m \in net, m.type = "SEND_DATA", m.to = q, m.element = e,
               info'[q][e] = Join(m.data, q)
        PROVE  info'[q][e].round # 0 /\ Joined(q, e)'
    <2>1. m \in Datagram /\ DatagramLaw(m) /\ m.from # q
      BY <1>5 DEF SafeInv, TypeOK, RoundInv, NoSelf
    <2>2. m.data \in AgreementInformation /\ m.from \in Peer
      BY <1>5, <2>1 DEF Datagram
    <2>3. CountsAgreement(m.from, m.data)
      BY <1>5, <2>1 DEF DatagramLaw
    <2>4. info'[q][e].round # 0
      BY <1>5, <2>2, <2>3, JoinLaw
    <2>5. m.from \in info'[q][e].agreeingNodes
      BY <1>5, <2>2, <2>3, JoinCounts DEF CountsAgreement
    <2> QED BY <2>1, <2>4, <2>5 DEF Joined
  <1>6. ASSUME NEW m \in net, m.type = "ACK", m.to = q, m.element = e,
               info'[q][e] = Join(info[q][e], m.from)
        PROVE  info'[q][e].round # 0 /\ Joined(q, e)'
    <2>1. m \in Datagram /\ DatagramLaw(m) /\ m.from # q
      BY <1>6 DEF SafeInv, TypeOK, RoundInv, NoSelf
    <2>2. m.from \in Peer
      BY <2>1 DEF Datagram
    <2>3. CountsAgreement(q, info[q][e])
      BY <1>2, <1>6, <2>1 DEF DatagramLaw, InformationLaw
    <2>4. info'[q][e].round # 0
      BY <1>2, <1>6, <2>2, <2>3, JoinLaw
    <2>5. m.from \in info'[q][e].agreeingNodes
      BY <1>2, <1>6, <2>2, JoinCounts
    <2> QED BY <2>1, <2>4, <2>5 DEF Joined
  <1> QED BY <1>1, <1>3, <1>4, <1>5, <1>6 DEF Becomes

\* A stamp that beats the stamp of a lawful copy is of a started peer.
LEMMA WinnersHaveStarted ==
    ASSUME SafeInv, NEW n \in Peer, NEW p \in Peer, NEW e \in Element,
           Beats(heard[n][p][e], StampOf(info[n][e]))
    PROVE  info[p][e].round # 0
  <1>1. /\ info[n][e] \in AgreementInformation /\ InformationLaw(n, info[n][e])
        /\ heard[n][p][e] \in Stamp /\ Backed(p, e, heard[n][p][e])
    BY DEF SafeInv, TypeOK, RoundInv
  <1>2. Causal \subseteq Nat
    BY ModulusAssumption DEF Causal
  <1>3. info[n][e].round \in Nat /\ heard[n][p][e].round \in Nat
    BY <1>1, <1>2 DEF AgreementInformation, Stamp
  <1>4. info[n][e].version = 0 /\ heard[n][p][e].version = 0
    BY <1>1 DEF InformationLaw, FreshInformation, CountsAgreement, Backed
  <1>5. heard[n][p][e].round # 0
    BY <1>3, <1>4 DEF Beats, StampOf
  <1> QED BY <1>1, <1>5 DEF Backed

\* GetNearbyElements starts what comes near unless somebody else has.
LEMMA StartedNext ==
    ASSUME SafeInv, StartedInv, [Next]_vars
    PROVE  StartedInv'
  <1> SUFFICES ASSUME NEW q \in Peer, NEW e \in Element, e \in nearbyElements'[q]
               PROVE  \E p \in Peer : info'[p][e].round # 0
    BY DEF StartedInv
  <1>1. NothingRestarts
    BY NobodyLeaves
  <1>2. (\E p \in Peer : info[p][e].round # 0) => \E p \in Peer : info'[p][e].round # 0
    BY <1>1 DEF NothingRestarts
  <1>3. CASE e \in nearbyElements[q]
    BY <1>2, <1>3 DEF StartedInv
  <1>4. CASE e \notin nearbyElements[q]
    <2>1. EverySecond(q)
      <3>1. nearbyElements \in [Peer -> SUBSET Element]
        BY DEF SafeInv, TypeOK
      <3>2. nearbyElements' # nearbyElements
        BY <1>4
      <3>3. PICK n \in Peer : EverySecond(n)
        BY <3>2 DEF Next, Receive, CheckHeartbeats, Lose, ReceiveAdvert,
           ReceiveDataRequest, ReceiveSendData, ReceiveAck, vars
      <3>4. nearbyElements' = [nearbyElements EXCEPT ![n] = WithinReach(n)]
        BY <3>3 DEF EverySecond
      <3>5. n = q
        BY <1>4, <3>1, <3>4
      <3> QED BY <3>3, <3>5
    <2>2. e \in WithinReach(q) \ nearbyElements[q]
      <3>1. /\ nearbyElements \in [Peer -> SUBSET Element]
            /\ nearbyElements' = [nearbyElements EXCEPT ![q] = WithinReach(q)]
        BY <2>1 DEF EverySecond, SafeInv, TypeOK
      <3> QED BY <1>4, <3>1
    <2>3. CASE Outdone(q, localGroup[q], heard[q], e)
      <3>1. PICK p \in localGroup[q] : Beats(heard[q][p][e], StampOf(info[q][e]))
        BY <2>3 DEF Outdone
      <3>2. p \in Peer
        BY <3>1 DEF SafeInv, TypeOK
      <3> QED BY <1>2, <3>1, <3>2, WinnersHaveStarted
    <2>4. CASE ~ Outdone(q, localGroup[q], heard[q], e)
      <3>1. PICK fresh : fresh = WithinReach(q) \ nearbyElements[q]
        OBVIOUS
      <3>2. info' = [info EXCEPT ![q] =
                        InitializeRound(q, localGroup[q], heard[q], fresh)]
        BY <2>1, <3>1 DEF EverySecond
      <3>3. e \in Element \cap fresh
        BY <2>2, <3>1
      <3>4. info'[q][e].round # 0
        BY <2>4, <3>2, <3>3, InitializeRoundStarts
      <3> QED BY <3>4
    <2> QED BY <2>3, <2>4
  <1> QED BY <1>3, <1>4

\* Those who count each other have exchanged the copies they hold.
LEMMA JoinedNext ==
    ASSUME SafeInv, JoinedInv, [Next]_vars
    PROVE  JoinedInv'
  <1>1. \A q \in Peer, e \in Element : Joined(q, e) => Joined(q, e)'
    BY NobodyLeaves
  <1>2. \A i \in AgreementInformation, e \in Element :
           CountsJoined(i, e) => CountsJoined(i, e)'
    BY <1>1 DEF CountsJoined, AgreementInformation
  <1>3. \A m \in net \cup net' : m \in Datagram /\ m.from # m.to
    BY NextSafe DEF SafeInv, TypeOK, NoSelf
  <1>4. \A m \in net : m.type = "SEND_DATA" =>
           /\ m.from \in Peer /\ m.to \in Peer /\ m.element \in Element
           /\ m.data \in AgreementInformation
           /\ CountsAgreement(m.from, m.data) /\ m.from # m.to
    BY <1>3 DEF Datagram, DatagramLaw, SafeInv, RoundInv
  <1>5. \A m \in net \cup net' : m.type = "ACK" =>
           m.from \in Peer /\ m.to \in Peer /\ m.element \in Element
    BY <1>3 DEF Datagram
  <1>6. \A n \in Peer, e \in Element : info[n][e] \in AgreementInformation
    BY DEF SafeInv, TypeOK
  \* Whoever takes a copy from another peer has joined.
  <1>7. ASSUME NEW q \in Peer, NEW e \in Element, NEW m \in net,
               m.type = "SEND_DATA", m.to = q, m.element = e,
               info'[q][e] = Join(m.data, q)
        PROVE  Joined(q, e)' /\ CountsJoined(info[q][e], e)'
    <2>1. /\ info'[q][e].agreeingNodes = m.data.agreeingNodes \cup {q}
          /\ info'[q][e].fineLocation = m.data.fineLocation
      BY <1>4, <1>7, JoinCounts
    <2>2. Joined(q, e)'
      BY <1>4, <1>7, <2>1 DEF Joined, CountsAgreement
    <2>3. CountsJoined(m.data, e)'
      BY <1>2, <1>4, <1>7 DEF JoinedInv
    <2>4. CountsJoined(info[q][e], e)'
      BY <2>1, <2>2, <2>3 DEF CountsJoined
    <2> QED BY <2>2, <2>4
  <1>8. ASSUME NEW n \in Peer, NEW e \in Element
        PROVE  CountsJoined(info[n][e], e)'
    <2>1. Becomes(n, e)
      BY Exchanges
    <2>2. CountsJoined(info[n][e], e)
      BY DEF JoinedInv
    <2>3. CASE info'[n][e] = info[n][e]
      BY <1>1, <1>6, <2>2, <2>3 DEF CountsJoined, AgreementInformation
    <2>4. CASE /\ info'[n][e].agreeingNodes = info[n][e].agreeingNodes
               /\ info'[n][e].fineLocation = info[n][e].fineLocation
      BY <1>1, <1>6, <2>2, <2>4 DEF CountsJoined, AgreementInformation
    <2>5. ASSUME NEW m \in net, m.type = "ACK", m.to = n, m.element = e,
                 info'[n][e] = Join(info[n][e], m.from)
          PROVE  CountsJoined(info[n][e], e)'
      <3>1. m.from \in Peer /\ Joined(m.from, e)
        BY <1>5, <2>5 DEF JoinedInv
      <3>2. /\ info'[n][e].agreeingNodes = info[n][e].agreeingNodes \cup {m.from}
            /\ info'[n][e].fineLocation = info[n][e].fineLocation
        BY <1>6, <2>5, <3>1, JoinCounts
      <3>3. Joined(m.from, e)' /\ CountsJoined(info[n][e], e)
        BY <1>1, <2>2, <3>1
      <3> QED BY <1>1, <1>6, <3>2, <3>3 DEF CountsJoined, AgreementInformation
    <2> QED BY <1>7, <2>1, <2>3, <2>4, <2>5 DEF Becomes
  <1>9. ASSUME NEW m \in net', m.type = "SEND_DATA"
        PROVE  CountsJoined(m.data, m.element)'
    <2>1. CASE m \in net
      BY <1>2, <1>4, <1>9, <2>1 DEF JoinedInv
    <2>2. CASE m \notin net
      <3>1. m.data = info[m.from][m.element]
        BY <1>9, <2>2, Exchanges
      <3>2. m.from \in Peer /\ m.element \in Element
        BY <1>3, <1>9 DEF Datagram
      <3>3. CountsJoined(m.data, m.element)
        BY <3>1, <3>2 DEF JoinedInv
      <3> QED BY <1>2, <1>6, <3>1, <3>2, <3>3
    <2> QED BY <2>1, <2>2
  <1>10. ASSUME NEW m \in net', m.type = "ACK"
         PROVE  Joined(m.from, m.element)'
    <2>1. CASE m \in net
      BY <1>1, <1>5, <1>10, <2>1 DEF JoinedInv
    <2>2. CASE m \notin net
      <3>1. PICK d \in net : /\ d.type = "SEND_DATA" /\ d.to = m.from
                             /\ d.element = m.element
                             /\ info'[m.from][m.element] = Join(d.data, m.from)
        BY <1>10, <2>2, Exchanges
      <3>2. m.from \in Peer /\ m.element \in Element
        BY <1>5, <1>10
      <3> QED BY <1>7, <3>1, <3>2
    <2> QED BY <2>1, <2>2
  <1> QED BY <1>8, <1>9, <1>10 DEF JoinedInv

\* SettledInv holds throughout.
LEMMA SettledInvariant == Spec => []SettledInv
  <1>1. Init => SettledInv
    <2> SUFFICES ASSUME Init PROVE SettledInv
      OBVIOUS
    <2>1. StartedInv
      BY DEF Init, StartedInv
    <2>2. \A n \in Peer, e \in Element : CountsJoined(info[n][e], e)
      BY DEF Init, FreshInformation, CountsJoined
    <2>3. net = {}
      BY DEF Init
    <2> QED BY <2>1, <2>2, <2>3, InitSafe DEF SettledInv, JoinedInv
  <1>2. SettledInv /\ [Next]_vars => SettledInv'
    BY NextSafe, StartedNext, JoinedNext DEF SettledInv
  <1> QED BY <1>1, <1>2, PTL DEF Spec

\* Whom nobody outdoes in a settled system, nobody beats.
LEMMA SettledStamps ==
    ASSUME SettledInv, Settled, NEW e \in Element, NEW n \in Peer, NEW p \in Peer
    PROVE  info[n][e].round # 0 /\ StampOf(info[n][e]) = StampOf(info[p][e])
  <1>1. Causal \subseteq Nat
    BY ModulusAssumption DEF Causal
  <1>2. \A q \in Peer : /\ info[q][e] \in AgreementInformation
                        /\ info[q][e].round \in Nat /\ info[q][e].version = 0
    <2> SUFFICES ASSUME NEW q \in Peer
                 PROVE  /\ info[q][e] \in AgreementInformation
                        /\ info[q][e].round \in Nat /\ info[q][e].version = 0
      OBVIOUS
    <2>1. info[q][e] \in AgreementInformation /\ InformationLaw(q, info[q][e])
      BY DEF SettledInv, SafeInv, TypeOK, RoundInv
    <2>2. info[q][e].round \in Nat
      BY <1>1, <2>1 DEF AgreementInformation
    <2> QED BY <2>1, <2>2 DEF InformationLaw, FreshInformation, CountsAgreement
  <1>3. ASSUME NEW x \in Peer, NEW y \in Peer, x # y
        PROVE  ~ (info[y][e].round > info[x][e].round)
    <2>1. y \in localGroup[x] /\ heard[x][y] = Advertisement(y)
      BY <1>3 DEF Settled
    <2>2. Advertisement(y)[e] = StampOf(info[y][e])
      BY DEF Settled, Advertisement
    <2>3. ~ Beats(StampOf(info[y][e]), StampOf(info[x][e]))
      BY <2>1, <2>2 DEF Settled, Outdone
    <2> QED BY <1>2, <2>3 DEF Beats, StampOf
  <1>4. \A x, y \in Peer : info[x][e].round = info[y][e].round
    BY <1>2, <1>3
  <1>5. PICK q \in Peer : info[q][e].round # 0
    BY DEF SettledInv, StartedInv, Settled
  <1>6. info[n][e].round # 0
    BY <1>4, <1>5
  <1>7. StampOf(info[n][e]) = StampOf(info[p][e])
    BY <1>2, <1>4 DEF StampOf
  <1> QED BY <1>6, <1>7

\* Everyone has started every element, and all with one stamp.
OneStampEach ==
    \A e \in Element : \A n, p \in Peer :
        info[n][e].round # 0 /\ StampOf(info[n][e]) = StampOf(info[p][e])

\* Once nobody is outdone by what the others advertise, every peer has started
\* every element and all of them hold one (version, round) for it, however many
\* peers there are and whichever datagrams the radio lost on the way.
THEOREM SettledStampsAgree == Spec => [](Settled => OneStampEach)
  <1>1. SettledInv => (Settled => OneStampEach)
    BY SettledStamps DEF OneStampEach
  <1> QED BY <1>1, SettledInvariant, PTL

\* Two settled peers cannot keep two locations: whoever has not joined supports
\* its own one alone, and the rounds of two such peers differ as their ids do.
LEMMA PairOnOneLocation ==
    ASSUME SettledInv, Settled, Cardinality(Peer) = 2,
           NEW e \in Element, NEW n \in Peer, NEW p \in Peer
    PROVE  info[n][e].fineLocation = info[p][e].fineLocation
  <1> SUFFICES ASSUME n # p,
                      info[n][e].fineLocation # info[p][e].fineLocation
               PROVE  FALSE
    OBVIOUS
  <1>1. Peer = {n, p}
    <2>1. {n, p} \subseteq Peer /\ IsFiniteSet(Peer)
      BY PeerAssumption
    <2>2. Cardinality({n, p}) = 2
      <3>1. IsFiniteSet({n}) /\ Cardinality({n}) = 1
        BY FS_Singleton
      <3>2. p \notin {n}
        OBVIOUS
      <3>3. Cardinality({n} \cup {p}) = Cardinality({n}) + 1
        BY <3>1, <3>2, FS_AddElement, Zenon
      <3>4. {n, p} = {n} \cup {p}
        OBVIOUS
      <3> QED BY <3>1, <3>3, <3>4
    <2> QED BY <2>1, <2>2, FS_Subset
  <1>2. ASSUME NEW q \in {n, p}
        PROVE  /\ CountsAgreement(q, info[q][e])
               /\ info[q][e].fineLocation \in {n, p}
               /\ info[q][e].agreeingNodes \subseteq {n, p}
    <2>1. info[q][e] \in AgreementInformation /\ InformationLaw(q, info[q][e])
      BY <1>1 DEF SettledInv, SafeInv, TypeOK, RoundInv
    <2>2. info[q][e].round # 0
      BY <1>1, SettledStamps
    <2> QED BY <1>1, <2>1, <2>2 DEF InformationLaw, AgreementInformation
  <1>3. info[n][e].round = info[p][e].round
    BY SettledStamps DEF StampOf
  <1>4. CountsJoined(info[n][e], e) /\ CountsJoined(info[p][e], e)
    BY DEF SettledInv, JoinedInv
  <1>5. n \in Nat /\ p \in Nat
    BY PeerAssumption
  \* As many supporters and the same round mean the same location.
  <1>6. info[n][e].agreeingNodes # info[p][e].agreeingNodes
    <2>1. CASE info[n][e].agreeingNodes = info[p][e].agreeingNodes
      <3>1. Cardinality(info[n][e].agreeingNodes) \in Nat
        BY <1>1, <1>2, GroupSize
      <3> QED BY <1>2, <1>3, <1>5, <2>1, <3>1 DEF CountsAgreement
    <2> QED BY <2>1
  \* So one of the two has not joined, and nobody but itself counts it.
  <1>7. ASSUME NEW x \in {n, p}, NEW y \in {n, p}, x # y, ~ Joined(x, e)
        PROVE  FALSE
    <2>1. info[x][e].agreeingNodes = {x} /\ info[x][e].fineLocation = x
      BY <1>2, <1>7 DEF Joined, CountsAgreement
    <2>2. info[y][e].fineLocation = y
      BY <1>2, <1>7, <2>1
    <2>3. x \notin info[y][e].agreeingNodes
      BY <1>4, <1>7, <2>2 DEF CountsJoined
    <2>4. info[y][e].agreeingNodes = {y}
      BY <1>2, <1>7, <2>3 DEF CountsAgreement
    <2>5. Cardinality({x}) = 1 /\ Cardinality({y}) = 1
      BY FS_Singleton
    <2>6. /\ info[x][e].round = x + Cardinality({x})
          /\ info[y][e].round = y + Cardinality({y})
      BY <1>2, <2>1, <2>2, <2>4, Zenon DEF CountsAgreement
    <2> QED BY <1>3, <1>5, <1>7, <2>5, <2>6
  <1>8. Joined(n, e) /\ Joined(p, e)
    BY <1>7
  <1>9. info[n][e].agreeingNodes = {n, p} /\ info[p][e].agreeingNodes = {n, p}
    BY <1>2, <1>8 DEF Joined, CountsAgreement
  <1> QED BY <1>6, <1>9

\* Two peers that have settled hold one location, with one stamp, for every
\* element: what BeginAgreement and ReceiveData promise is kept for a pair.  Of
\* three peers, two may tie for ever.
THEOREM PairAgrees == Cardinality(Peer) = 2 => (Spec => []SettledMeansAgreed)
  <1> SUFFICES ASSUME Cardinality(Peer) = 2 PROVE Spec => []SettledMeansAgreed
    OBVIOUS
  <1>1. SettledInv => SettledMeansAgreed
    BY SettledStamps, PairOnOneLocation DEF SettledMeansAgreed, Agreed
  <1> QED BY <1>1, SettledInvariant, PTL

=============================================================================
