---------------------------- MODULE MCHandshake ----------------------------
(* Configurations of the two endpoints for model checking Handshake.       *)
EXTENDS HandshakeScript

Plain == [cert |-> TRUE, key |-> "match", insecure |-> FALSE, chainOk |-> TRUE,
          require |-> FALSE, clientCAs |-> FALSE, suites |-> <<>>, protos |-> <<>>]

(* Every way to be authenticated, or not.                                  *)
Authentication ==
  {[Plain EXCEPT !.cert = c, !.key = k, !.insecure = i, !.chainOk = o] :
     c \in BOOLEAN, k \in {"match", "other", "nil"}, i \in BOOLEAN, o \in BOOLEAN}

AuthClients == Authentication
AuthServers ==
  {[a EXCEPT !.require = r, !.clientCAs = ca] :
     a \in Authentication, r \in BOOLEAN, ca \in BOOLEAN}

(* Every suite list of a server and every protocol list of the two sides   *)
(* that the negotiation tells apart.                                       *)
NegoClients == {[Plain EXCEPT !.protos = ps, !.insecure = i] :
                  ps \in {<<>>, <<"epp">>, <<"h2", "epp">>}, i \in BOOLEAN}
NegoServers ==
  {[Plain EXCEPT !.suites = su, !.protos = ps, !.require = r] :
     su \in {<<>>, <<"CCM">>, <<"CCM", "GCM">>, <<"GCM">>, <<"GCM", "GCM_ALT">>},
     ps \in {<<>>, <<"epp">>, <<"epp", "h2">>, <<"dot">>}, r \in BOOLEAN}

(* Those, and a few more ways to fail to be authenticated.                 *)
SessionClients == NegoClients \cup {[Plain EXCEPT !.cert = FALSE]}
SessionServers ==
  NegoServers \cup {[Plain EXCEPT !.clientCAs = TRUE, !.chainOk = o] : o \in BOOLEAN}
=============================================================================
