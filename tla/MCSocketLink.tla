---------------------------- MODULE MCSocketLink ----------------------------
(* Instances of SocketLink for TLC. *)
EXTENDS SocketLink

CONSTANTS n1, n2

TwoNodes == {n1, n2}

\* A listener connects to its own talker last, as local_consensus adds the node
\* itself to the address book last.
OthersFirst == (n1 :> <<n2, n1>>) @@ (n2 :> <<n1, n2>>)

\* n2 only listens, which it does over both kinds of connection all the same.
OneSpeaks ==
    (n1 :> {<<"plain", "wide">>, <<"wide", "plain">>,
            <<"plain", "overlong">>, <<"overlong", "plain">>})
    @@ (n2 :> {})
=============================================================================
