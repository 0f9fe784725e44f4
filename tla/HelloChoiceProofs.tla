-------------------------- MODULE HelloChoiceProofs --------------------------
(***************************************************************************)
(* The server's choice is needless of no client, acceptable to every       *)
(* client and the best there is, for all ClientHellos and configurations.  *)
(***************************************************************************)
EXTENDS HelloChoice, NegotiationProofs

TheAnswer == [suite |-> Suite, group |-> Group,
              proto |-> SelectALPN(config.protos, hello.protos)]

(* What has been decided is what the hello and the configuration say.      *)
Decided ==
  /\ hello \in Hello /\ config \in [suites : Seq(KnownSuites), protos : Seq(STRING)]
  /\ state \in {"wait", "refused", "flight", "established"}
  /\ state = "refused" => Refused
  /\ state \in {"flight", "established"} => ~Refused /\ choice = TheAnswer

(* The lists selectCipherSuite works on.                                   *)
LEMMA Lists ==
  ASSUME Decided
  PROVE  /\ hello.suites \in Seq(KnownSuites \cup {"OTHER"})
         /\ ServerSuites(config.suites) \in Seq(KnownSuites)
         /\ ServerSuites(config.suites) # <<>>
         /\ config.protos \in Seq(STRING)
<1>1. <<"GCM_ALT", "GCM">> \in Seq(KnownSuites) /\ <<"GCM_ALT", "GCM">> # <<>>
  BY DEF KnownSuites
<1> QED
  BY <1>1 DEF Decided, Hello, ServerSuites

(* Without a suite the two sides have none in common; with one, it is the  *)
(* match of the first preference of the server that has a known match.     *)
LEMMA SuiteChoice ==
  ASSUME Decided, hello.sm2Sig
  PROVE  LET servers == ServerSuites(config.suites) IN
         \/ Suite = None /\ \A id \in KnownSuites : ~Common(id)
         \/ \E i \in 1..Len(servers) :
              /\ Suite = MatchFor(servers[i], hello.suites) /\ Suite \in KnownSuites
              /\ Contains(hello.suites, Suite) /\ Normalize(Suite) = Normalize(servers[i])
              /\ \A j \in 1 .. i - 1 : MatchFor(servers[j], hello.suites) \notin KnownSuites
<1> DEFINE servers == ServerSuites(config.suites)
<1>1. /\ hello.suites \in Seq(KnownSuites \cup {"OTHER"})
      /\ servers \in Seq(KnownSuites) /\ servers # <<>>
  BY Lists
<1>2. Suite = SelectCipherSuite(hello.suites, servers, TRUE)
  <2>1. hello.sm2Sig = TRUE
    BY DEF Decided, Hello
  <2> QED
    BY <2>1 DEF Suite
<1> HIDE DEF servers
<1>3. \A j \in 1..Len(servers) : \A id \in KnownSuites :
        Contains(hello.suites, id) /\ Normalize(servers[j]) = Normalize(id) =>
          MatchFor(servers[j], hello.suites) \in KnownSuites
  <2> TAKE j \in 1..Len(servers)
  <2> TAKE id \in KnownSuites
  <2> HAVE Contains(hello.suites, id) /\ Normalize(servers[j]) = Normalize(id)
  <2> DEFINE m == MatchFor(servers[j], hello.suites)
  <2>1. \E k \in 1..Len(hello.suites) : Normalize(hello.suites[k]) = Normalize(servers[j])
    BY DEF Contains
  <2>2. Normalize(m) = Normalize(servers[j])
    BY <1>1, <2>1, MatchForMeansTheSame
  <2> QED
    BY <2>2, SameSuite
<1>4. CASE Suite = None /\ \A j \in 1..Len(servers) :
             MatchFor(servers[j], hello.suites) \notin KnownSuites
  <2>1. \A id \in KnownSuites : ~Common(id)
    <3> SUFFICES ASSUME NEW id \in KnownSuites, Common(id) PROVE FALSE
      OBVIOUS
    <3>1. PICK s \in ToSet(servers) : Normalize(s) = Normalize(id)
      BY DEF Common, servers
    <3>2. PICK j \in 1..Len(servers) : s = servers[j]
      BY <1>1, <3>1 DEF ToSet
    <3> QED
      BY <1>3, <1>4, <3>1, <3>2 DEF Common
  <2> QED
    BY <1>4, <2>1
<1>5. CASE \E i \in 1..Len(servers) :
             /\ Suite = MatchFor(servers[i], hello.suites) /\ Suite \in KnownSuites
             /\ \A j \in 1 .. i - 1 : MatchFor(servers[j], hello.suites) \notin KnownSuites
  <2>1. PICK i \in 1..Len(servers) :
             /\ Suite = MatchFor(servers[i], hello.suites) /\ Suite \in KnownSuites
             /\ \A j \in 1 .. i - 1 : MatchFor(servers[j], hello.suites) \notin KnownSuites
    BY <1>5
  <2>2. Contains(hello.suites, Suite) /\ Normalize(Suite) = Normalize(servers[i])
    BY <1>1, <2>1, MatchForMeansTheSame DEF KnownSuites, None
  <2> QED
    BY <2>1, <2>2 DEF servers
<1> QED
  BY <1>1, <1>2, <1>4, <1>5, SelectCipherSuiteFirst

(* A refusal has a reason.                                                 *)
LEMMA RefusalExplained ==
  ASSUME Decided, Refused
  PROVE  \/ ~hello.tls13 \/ ~hello.sm2Sig
         \/ \A id \in KnownSuites : ~Common(id)
         \/ ToSet(hello.groups) \cap Groups = {}
<1>1. CASE ~hello.tls13 \/ ~hello.sm2Sig
  BY <1>1
<1>2. CASE hello.sm2Sig /\ Suite = None
  BY <1>2, SuiteChoice DEF KnownSuites, None
<1>3. CASE Group = None
  <2>1. ~Contains(hello.groups, "SM2") /\ ~Contains(hello.groups, "X25519")
    BY <1>3 DEF Group, SelectKeyShare, None
  <2>2. DOMAIN hello.groups = 1..Len(hello.groups)
    BY DEF Decided, Hello
  <2> QED
    BY <2>1, <2>2 DEF Contains, ToSet, Groups
<1> QED
  BY <1>1, <1>2, <1>3 DEF Refused

(* An answer is made of things the client named.                           *)
LEMMA AnswerAcceptable ==
  ASSUME Decided, ~Refused
  PROVE  Acceptable(hello, TheAnswer)
<1>1. Contains(hello.suites, Suite)
  BY SuiteChoice DEF Refused
<1>2. Contains(hello.groups, Group)
  BY DEF Refused, Group, SelectKeyShare
<1> DEFINE p == SelectALPN(config.protos, hello.protos)
<1>3. p = None \/ Contains(hello.protos, p)
  BY Lists, SelectALPNFirstCommon
<1> QED
  BY <1>1, <1>2, <1>3 DEF Acceptable, TheAnswer

(* The chosen suite: common, of the highest rank, under the server's number*)
(* if the client has it.                                                   *)
LEMMA AnswerBestSuite ==
  ASSUME Decided, ~Refused, NEW suite, suite = Suite
  PROVE  LET servers == ServerSuites(config.suites)
             rank == Rank(servers, LAMBDA s : Normalize(s) = Normalize(suite))
         IN  /\ Common(suite)
             /\ \A i \in 1 .. rank - 1 : \A id \in KnownSuites :
                  Normalize(id) = Normalize(servers[i]) => ~Common(id)
             /\ Contains(hello.suites, servers[rank]) => suite = servers[rank]
<1> DEFINE servers == ServerSuites(config.suites)
           rank == Rank(servers, LAMBDA s : Normalize(s) = Normalize(suite))
           I == {j \in 1..Len(servers) : Normalize(servers[j]) = Normalize(suite)}
<1>1. /\ hello.suites \in Seq(KnownSuites \cup {"OTHER"})
      /\ servers \in Seq(KnownSuites) /\ servers # <<>>
  BY Lists
<1>2. PICK i \in 1..Len(servers) :
        /\ suite = MatchFor(servers[i], hello.suites) /\ suite \in KnownSuites
        /\ Contains(hello.suites, suite) /\ Normalize(suite) = Normalize(servers[i])
        /\ \A j \in 1 .. i - 1 : MatchFor(servers[j], hello.suites) \notin KnownSuites
  BY SuiteChoice DEF Refused
<1>3. rank = IF I # {} THEN Min(I) ELSE 0
  BY DEF Rank, SelectInSeq
<1>4. rank \in 1..i /\ Normalize(servers[rank]) = Normalize(suite)
  <2>1. Len(servers) \in Nat /\ I \subseteq 1..Len(servers) /\ i \in I
    BY <1>1, <1>2
  <2>2. rank \in I /\ \A j \in I : rank <= j
    <3> HIDE DEF I, rank
    <3> QED
      BY <1>3, <2>1, FirstPosition
  <2>3. Normalize(servers[rank]) = Normalize(suite) /\ rank \in 1..Len(servers)
    BY <2>2
  <2>4. rank <= i
    BY <2>1, <2>2
  <2> QED
    BY <2>3, <2>4
<1> HIDE DEF rank, servers
<1>5. Common(suite)
  <2>1. servers[i] \in ToSet(servers)
    BY <1>1 DEF ToSet
  <2> QED
    BY <1>2, <2>1 DEF Common, servers
<1>6. ASSUME NEW j \in 1 .. rank - 1, NEW id \in KnownSuites,
             Normalize(id) = Normalize(servers[j]), Common(id)
      PROVE  FALSE
  <2> DEFINE m == MatchFor(servers[j], hello.suites)
  <2>1. Normalize(m) = Normalize(servers[j])
    <3>1. \E k \in 1..Len(hello.suites) : Normalize(hello.suites[k]) = Normalize(servers[j])
      BY <1>6 DEF Common, Contains
    <3> QED
      BY <1>1, <3>1, MatchForMeansTheSame
  <2>2. m \in KnownSuites
    BY <1>6, <2>1, SameSuite
  <2>3. j \in 1 .. i - 1
    BY <1>4
  <2> QED
    BY <1>2, <2>2, <2>3
<1>7. Contains(hello.suites, servers[rank]) => suite = servers[rank]
  <2> HAVE Contains(hello.suites, servers[rank])
  <2>1. MatchFor(servers[rank], hello.suites) = servers[rank]
    BY <1>1, MatchForMeansTheSame
  <2>2. servers[rank] \in KnownSuites
    BY <1>1, <1>4
  <2>3. ~(rank \in 1 .. i - 1)
    BY <1>2, <2>1, <2>2
  <2>4. rank = i
    BY <1>4, <2>3
  <2> QED
    BY <1>2, <2>1, <2>4
<1> QED
  BY <1>5, <1>6, <1>7 DEF rank, servers

(* The chosen protocol: the first of the server's that is common; there is *)
(* none only when none is, or when the empty one comes first.              *)
LEMMA AnswerBestProtocol ==
  ASSUME Decided, NEW proto, proto = SelectALPN(config.protos, hello.protos)
  PROVE  /\ proto = None =>
              \A i \in 1..Len(config.protos) :
                Contains(hello.protos, config.protos[i]) =>
                  None \in {config.protos[j] : j \in 1..i}
         /\ proto # None =>
              /\ Contains(config.protos, proto)
              /\ \A i \in 1 .. Rank(config.protos, LAMBDA p : p = proto) - 1 :
                   ~Contains(hello.protos, config.protos[i])
<1>1. config.protos \in Seq(STRING) /\ Len(config.protos) \in Nat
  BY Lists
<1>2. PICK k \in 0..Len(config.protos) :
        /\ proto = IF k = 0 THEN None ELSE config.protos[k]
        /\ k # 0 => Contains(hello.protos, config.protos[k])
        /\ \A j \in 1..Len(config.protos) :
             Contains(hello.protos, config.protos[j]) => k # 0 /\ k <= j
  BY <1>1, SelectALPNFirstCommon
<1>3. ASSUME proto = None, NEW i \in 1..Len(config.protos),
             Contains(hello.protos, config.protos[i])
      PROVE  None \in {config.protos[j] : j \in 1..i}
  <2>1. k # 0 /\ k <= i /\ config.protos[k] = None
    BY <1>2, <1>3
  <2> QED
    BY <1>1, <1>2, <2>1
<1>4. ASSUME proto # None
      PROVE  /\ Contains(config.protos, proto)
             /\ \A i \in 1 .. Rank(config.protos, LAMBDA p : p = proto) - 1 :
                  ~Contains(hello.protos, config.protos[i])
  <2> DEFINE I == {j \in 1..Len(config.protos) : config.protos[j] = proto}
             rank == Rank(config.protos, LAMBDA p : p = proto)
  <2>1. k \in 1..Len(config.protos) /\ config.protos[k] = proto
    BY <1>2, <1>4
  <2>2. rank = IF I # {} THEN Min(I) ELSE 0
    BY DEF Rank, SelectInSeq
  <2>3. I \subseteq 1..Len(config.protos) /\ k \in I
    BY <2>1
  <2>4. rank \in 0..Len(config.protos) /\ rank <= k
    <3> HIDE DEF I, rank
    <3> QED
      BY <1>1, <2>2, <2>3, FirstPosition
  <2> HIDE DEF rank
  <2>5. \A i \in 1 .. rank - 1 : i \in 1..Len(config.protos) /\ ~(k <= i)
    BY <1>1, <2>1, <2>4
  <2>6. \A i \in 1 .. rank - 1 : ~Contains(hello.protos, config.protos[i])
    BY <1>2, <2>5
  <2> QED
    BY <2>1, <2>6 DEF Contains, rank
<1> QED
  BY <1>3, <1>4

---------------------------------------------------------------------------
(* The three properties *)

(* Nothing is decided in the beginning.                                    *)
LEMMA DecidedInit == Init => Decided
BY HelloAssumption DEF Init, Decided

(* What a step decides, hello and configuration say.                       *)
LEMMA DecidedStep == Decided /\ [Next]_vars => Decided'
<1> SUFFICES ASSUME Decided, [Next]_vars PROVE Decided'
  OBVIOUS
<1>0. UNCHANGED <<hello, config>> =>
        /\ (Refused' <=> Refused) /\ TheAnswer' = TheAnswer
  BY DEF Refused, Suite, Group, TheAnswer
<1>1. CASE Refuse
  BY <1>0, <1>1 DEF Refuse, Decided
<1>2. CASE Answer
  BY <1>0, <1>2 DEF Answer, Decided, TheAnswer
<1>3. CASE Finish
  <2>1. Acceptable(hello, choice)
    BY <1>3, AnswerAcceptable DEF Finish, Decided
  <2> QED
    BY <1>0, <1>3, <2>1 DEF Finish, Decided
<1>4. CASE UNCHANGED vars
  BY <1>0, <1>4 DEF vars, Decided
<1> QED
  BY <1>1, <1>2, <1>3, <1>4 DEF Next, Ended

(* Every reachable state is decided by the hello and the configuration.    *)
LEMMA DecidedAlways == Spec => []Decided
BY DecidedInit, DecidedStep, PTL DEF Spec

(* readClientHelloTLS13 refuses no client it has a suite, a group and SM2  *)
(* signatures in common with, whatever the lists of the two sides.         *)
THEOREM RefusalsAreNeeded == Spec => []NoNeedlessRefusal
<1>1. Decided => NoNeedlessRefusal
  BY RefusalExplained DEF Decided, NoNeedlessRefusal
<1> QED
  BY <1>1, DecidedAlways, PTL

(* No client ever has to abort over suite, group or protocol of the        *)
(* ServerHello and the EncryptedExtensions.                                *)
THEOREM ClientsGoOn == Spec => []ClientNeverAborts
<1>1. Decided => ClientNeverAborts
  BY DEF Decided, ClientNeverAborts
<1> QED
  BY <1>1, DecidedAlways, PTL

(* selectCipherSuite, selectALPNProtocol and the choice of the key share   *)
(* find the best common one, for lists of any length in any order.         *)
THEOREM ChoiceIsBest == Spec => []BestChoice
<1>1. ASSUME Decided, state \in {"flight", "established"} PROVE BestChoice
  <2>1. /\ ~Refused /\ choice.suite = Suite /\ choice.group = Group
        /\ choice.proto = SelectALPN(config.protos, hello.protos)
    BY <1>1 DEF Decided, TheAnswer
  <2>2. "SM2" \in ToSet(hello.groups) => choice.group = "SM2"
    <3>1. DOMAIN hello.groups = 1..Len(hello.groups)
      BY <1>1 DEF Decided, Hello
    <3> QED
      BY <2>1, <3>1 DEF Group, SelectKeyShare, Contains, ToSet
  <2> DEFINE servers == ServerSuites(config.suites)
             rank == Rank(servers, LAMBDA s : Normalize(s) = Normalize(choice.suite))
  <2>3. /\ Common(choice.suite)
        /\ \A i \in 1 .. rank - 1 : \A id \in KnownSuites :
             Normalize(id) = Normalize(servers[i]) => ~Common(id)
        /\ Contains(hello.suites, servers[rank]) => choice.suite = servers[rank]
    BY <1>1, <2>1, AnswerBestSuite
  <2>4. /\ choice.proto = None =>
             \A i \in 1..Len(config.protos) :
               Contains(hello.protos, config.protos[i]) =>
                 None \in {config.protos[j] : j \in 1..i}
        /\ choice.proto # None =>
             /\ Contains(config.protos, choice.proto)
             /\ \A i \in 1 .. Rank(config.protos, LAMBDA p : p = choice.proto) - 1 :
                  ~Contains(hello.protos, config.protos[i])
    BY <1>1, <2>1, AnswerBestProtocol
  <2> QED
    BY <2>2, <2>3, <2>4 DEF BestChoice
<1>2. Decided => BestChoice
  BY <1>1 DEF BestChoice
<1> QED
  BY <1>2, DecidedAlways, PTL
=============================================================================
