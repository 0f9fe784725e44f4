---------------------------- MODULE HelloChoice ----------------------------
(***************************************************************************)
(* A gmtls server that meets any TLS 1.3 client: readClientHelloTLS13 over *)
(* every ClientHello, the server's first flight, and what a client that    *)
(* follows RFC 8446 makes of it.                                           *)
(***************************************************************************)
EXTENDS Negotiation

CONSTANTS
  Hellos,      \* ClientHellos: suites, groups with a share, SM2 signatures, protocols
  Configs      \* server Configs: CipherSuites and NextProtos

Hello == [suites : Seq(KnownSuites \cup {"OTHER"}), groups : Seq(Groups \cup {"OTHER"}),
          sm2Sig : BOOLEAN, tls13 : BOOLEAN, protos : Seq(STRING)]

ASSUME HelloAssumption ==
  /\ Hellos \subseteq Hello
  /\ Configs \subseteq [suites : Seq(KnownSuites), protos : Seq(STRING)]

VARIABLES
  hello,     \* the ClientHello on the wire
  config,    \* the server's Config
  state,     \* "wait", "refused", "flight" (ServerHello and the rest sent),
             \* "established" or "aborted" by the client
  choice     \* cipherSuite, tls13ClientKeyShare and negotiatedProto of the server

vars == <<hello, config, state, choice>>

NoChoice == [suite |-> None, group |-> None, proto |-> None]

Init ==
  /\ hello \in Hellos /\ config \in Configs
  /\ state = "wait" /\ choice = NoChoice

Suite == SelectCipherSuite(hello.suites, ServerSuites(config.suites), hello.sm2Sig)
Group == SelectKeyShare(hello.groups)

Refused == ~hello.tls13 \/ ~hello.sm2Sig \/ Suite = None \/ Group = None

(* readClientHelloTLS13 returns an error, and Accept closes the connection.*)
Refuse ==
  /\ state = "wait" /\ Refused
  /\ state' = "refused"
  /\ UNCHANGED <<hello, config, choice>>

Answer ==
  /\ state = "wait" /\ ~Refused
  /\ choice' = [suite |-> Suite, group |-> Group,
                proto |-> SelectALPN(config.protos, hello.protos)]
  /\ state' = "flight"
  /\ UNCHANGED <<hello, config>>

(* The client: the suite has to be one of its own identifiers, the group   *)
(* one it sent a share for, the protocol one it named.                     *)
Acceptable(h, c) ==
  /\ Contains(h.suites, c.suite) /\ Contains(h.groups, c.group)
  /\ c.proto = None \/ Contains(h.protos, c.proto)

Finish ==
  /\ state = "flight"
  /\ state' = IF Acceptable(hello, choice) THEN "established" ELSE "aborted"
  /\ UNCHANGED <<hello, config, choice>>

Ended == state \in {"refused", "established", "aborted"} /\ UNCHANGED vars

Next == Refuse \/ Answer \/ Finish \/ Ended

Spec == Init /\ [][Next]_vars

---------------------------------------------------------------------------
(* Properties *)

(* What the two sides have in common, said without any order.              *)
Common(id) ==
  /\ Contains(hello.suites, id) /\ id \in KnownSuites
  /\ \E s \in ToSet(ServerSuites(config.suites)) : Normalize(s) = Normalize(id)

(* The server refuses only a client it has nothing in common with.         *)
NoNeedlessRefusal ==
  state = "refused" =>
    \/ ~hello.tls13 \/ ~hello.sm2Sig
    \/ \A id \in KnownSuites : ~Common(id)
    \/ ToSet(hello.groups) \cap Groups = {}

(* No client that follows RFC 8446 aborts over what the server chose, even *)
(* when the two name a suite by different numbers.                         *)
ClientNeverAborts == state # "aborted"

(* The choice is the best there is: no suite the server ranks higher is    *)
(* common, an exact number goes before the other number of the same suite, *)
(* and so on for protocols and groups.  The empty protocol name, which     *)
(* parseALPNExtension lets through, is no protocol: selectALPNProtocol     *)
(* ends at it when both sides list it.                                     *)
Rank(s, Test(_)) == SelectInSeq(s, Test)
BestChoice ==
  state \in {"flight", "established"} =>
    LET servers == ServerSuites(config.suites)
        rank == Rank(servers, LAMBDA s : Normalize(s) = Normalize(choice.suite))
    IN  /\ Common(choice.suite)
        /\ \A i \in 1 .. rank - 1 : \A id \in KnownSuites :
             Normalize(id) = Normalize(servers[i]) => ~Common(id)
        /\ Contains(hello.suites, servers[rank]) => choice.suite = servers[rank]
        /\ "SM2" \in ToSet(hello.groups) => choice.group = "SM2"
        /\ choice.proto = None =>
             \A i \in 1..Len(config.protos) :
               Contains(hello.protos, config.protos[i]) =>
                 None \in {config.protos[j] : j \in 1..i}
        /\ choice.proto # None =>
             /\ Contains(config.protos, choice.proto)
             /\ \A i \in 1 .. Rank(config.protos, LAMBDA p : p = choice.proto) - 1 :
                  ~Contains(hello.protos, config.protos[i])
=============================================================================
