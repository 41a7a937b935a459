-------------------------- MODULE MCPeerAgreement --------------------------
(* Instances of PeerAgreement for TLC. *)
EXTENDS PeerAgreement

TwoPeers == {0, 1}
ThreePeers == {0, 1, 2}
OneElement == {0}

\* Every peer is within reach of every location of every element.
AllNear == Peer \X Element \X Peer

\* Peer 0 is out of reach of the location peer 1 drew: adopting it makes
\* peer 0 leave the element.
OneAway == AllNear \ {<<0, e, 1>> : e \in Element}
=============================================================================
