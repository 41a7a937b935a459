---------------------------- MODULE SharedScene ----------------------------
(***************************************************************************)
(* What the peers of ns3-src/peer_node.cpp promise about each element, cut *)
(* free of adverts, stamps, timers and local groups: a peer holds one copy *)
(* of a location together with the peers it believes to share it.  A copy  *)
(* spreads only whole, by an offer that is taken, whoever takes it joins   *)
(* its supporters, and the peer that made the offer counts the taker once  *)
(* its confirmation comes back.  Offers and confirmations may be lost.     *)
(***************************************************************************)
EXTENDS FiniteSets

CONSTANTS Peer, Element

VARIABLES
    held,      \* what each peer holds of each element
    offers,    \* copies on their way
    confirmed  \* confirmations on their way

vars == <<held, offers, confirmed>>

Nothing == [location |-> {}, supporters |-> {}]

Init ==
    /\ held = [n \in Peer |-> [e \in Element |-> Nothing]]
    /\ offers = {}
    /\ confirmed = {}

\* n settles for the location it drew itself, where it holds none yet.
Own(n, E) ==
    /\ \A e \in E : held[n][e] = Nothing
    /\ held' = [held EXCEPT ![n] =
                  [e \in Element |-> IF e \in E
                                     THEN [location |-> {n}, supporters |-> {n}]
                                     ELSE @[e]]]
    /\ UNCHANGED <<offers, confirmed>>

Offer(n, p, e) ==
    /\ held[n][e] # Nothing
    /\ offers' = offers \cup {[from |-> n, to |-> p, element |-> e, copy |-> held[n][e]]}
    /\ UNCHANGED <<held, confirmed>>

\* The copy replaces whatever the taker held; it may or may not confirm.
Take(o) ==
    /\ held' = [held EXCEPT ![o.to][o.element] =
                  [o.copy EXCEPT !.supporters = @ \cup {o.to}]]
    /\ offers' = offers \ {o}
    /\ \/ UNCHANGED confirmed
       \/ confirmed' = confirmed \cup
             {[from |-> o.to, to |-> o.from, element |-> o.element]}

\* A confirmation does not name the location: the taker is counted for the one
\* that c.to holds by now.
Count(c) ==
    /\ held[c.to][c.element] # Nothing
    /\ held' = [held EXCEPT ![c.to][c.element].supporters = @ \cup {c.from}]
    /\ confirmed' = confirmed \ {c}
    /\ UNCHANGED offers

LoseOffer(o) == offers' = offers \ {o} /\ UNCHANGED <<held, confirmed>>

LoseConfirmation(c) == confirmed' = confirmed \ {c} /\ UNCHANGED <<held, offers>>

Next ==
    \/ \E n \in Peer, E \in SUBSET Element : Own(n, E)
    \/ \E n, p \in Peer, e \in Element : Offer(n, p, e)
    \/ \E o \in offers : Take(o) \/ LoseOffer(o)
    \/ \E c \in confirmed : Count(c) \/ LoseConfirmation(c)

Spec == Init /\ [][Next]_vars
=============================================================================
