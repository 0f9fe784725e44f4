--------------------------- MODULE MCHelloChoice ---------------------------
(* ClientHellos and server Configs for model checking HelloChoice.         *)
EXTENDS HelloChoice

Lists(S, n) == UNION {[1..k -> S] : k \in 0..n}

SuiteHellos ==
  {[suites |-> su, groups |-> g, sm2Sig |-> TRUE, tls13 |-> TRUE, protos |-> <<>>] :
     su \in Lists(KnownSuites \cup {"OTHER"}, 3), g \in {<<"X25519">>, <<"X25519", "SM2">>}}
OtherHellos ==
  {[suites |-> <<"GCM">>, groups |-> g, sm2Sig |-> s, tls13 |-> v, protos |-> ps] :
     g \in Lists(Groups \cup {"OTHER"}, 2), s \in BOOLEAN, v \in BOOLEAN,
     ps \in Lists({"epp", "h2", None}, 2)}
AllHellos == SuiteHellos \cup OtherHellos

AllConfigs ==
  {[suites |-> su, protos |-> ps] :
     su \in Lists(KnownSuites, 2), ps \in {<<>>, <<"epp", "h2">>, <<"dot", "h2">>, <<None, "epp">>}}
=============================================================================
