---------------------------- MODULE Negotiation ----------------------------
(***************************************************************************)
(* The choices the two hellos of conn.go make, as pure operators: which    *)
(* cipher suite, which key_share group and which application protocol.     *)
(* An identifier on the wire (a uint16) is a string here; "OTHER" stands   *)
(* for an identifier the implementation does not know, such as the         *)
(* EMPTY_RENEGOTIATION_INFO_SCSV the client appends to its list.           *)
(***************************************************************************)
EXTENDS Naturals, Sequences, SequencesExt

None == "none"

(* The identifiers GetCipherSuiteByID has an entry for.  All of them are   *)
(* valid for exactly one version, TLS 1.3, so cipherSuiteForVersion is     *)
(* "there is an entry"; none has KeyExchange "SM2DHE", so the curve test   *)
(* of selectCipherSuite never rejects one.                                 *)
KnownSuites == {"GCM", "GCM_ALT", "CCM", "CCM_ALT"}

Groups == {"SM2", "X25519"}

(* 0x00C6/0x00C7 and 0x1306/0x1307 name the same two suites.               *)
Normalize(id) ==
  CASE id = "GCM_ALT" -> "GCM"
    [] id = "CCM_ALT" -> "CCM"
    [] OTHER -> id

(* The first element of s that satisfies Test, None when there is none.    *)
FirstOr(s, Test(_)) ==
  LET i == SelectInSeq(s, Test) IN IF i = 0 THEN None ELSE s[i]

(* Faulty variant: only the server's own number of a suite is a match.     *)
MatchForExact(pref, clientSuites) ==
  IF Contains(clientSuites, pref) THEN pref ELSE None

(* The client identifier a server preference settles on: the same number   *)
(* when the client offers it, else the first one that means the same suite.*)
MatchFor(pref, clientSuites) ==
  IF Contains(clientSuites, pref)
    THEN pref
    ELSE FirstOr(clientSuites, LAMBDA c : Normalize(c) = Normalize(pref))

(* Faulty variants: the answer is the server's number for the suite; the   *)
(* client's order decides.                                                 *)
SelectCipherSuiteOwn(clientSuites, serverSuites, sm2Sig) ==
  FirstOr(serverSuites,
          LAMBDA p : sm2Sig /\ MatchFor(p, clientSuites) \in KnownSuites)
SelectCipherSuiteClient(clientSuites, serverSuites, sm2Sig) ==
  FirstOr(clientSuites,
          LAMBDA c : /\ sm2Sig /\ c \in KnownSuites
                     /\ \E s \in ToSet(serverSuites) : Normalize(s) = Normalize(c))

(* selectCipherSuite: the first preference with a known match.  sm2Sig is  *)
(* whether the client's signature_algorithms (if it sent any) name SM2.    *)
SelectCipherSuite(clientSuites, serverSuites, sm2Sig) ==
  LET preferences == IF serverSuites = <<>> THEN clientSuites ELSE serverSuites
      best == FirstOr(preferences,
                      LAMBDA p : sm2Sig /\ MatchFor(p, clientSuites) \in KnownSuites)
  IN  IF best = None THEN None ELSE MatchFor(best, clientSuites)

(* What the client accepts in a ServerHello: a suite it offered, under     *)
(* either of its numbers, that the table knows.                            *)
ClientOffered(offered, id) ==
  \E c \in ToSet(offered) : Normalize(c) = Normalize(id)

AcceptsSuite(offered, id) == ClientOffered(offered, id) /\ id \in KnownSuites

(* Faulty variant: the server's favourite, whatever the client named.      *)
SelectALPNFirst(serverProtos, clientProtos) ==
  IF serverProtos = <<>> THEN None ELSE Head(serverProtos)

(* selectALPNProtocol, with the test that both sides sent a list.          *)
SelectALPN(serverProtos, clientProtos) ==
  FirstOr(serverProtos, LAMBDA p : Contains(clientProtos, p))

(* What the client accepts in EncryptedExtensions: no protocol, or one it  *)
(* offered; a client that offered nothing accepts whatever comes.          *)
AcceptsALPN(offered, proto) ==
  \/ proto = None
  \/ offered = <<>>
  \/ Contains(offered, proto)

(* The key_share the server answers: SM2 first, then X25519.               *)
SelectKeyShare(groups) ==
  IF Contains(groups, "SM2") THEN "SM2"
  ELSE IF Contains(groups, "X25519") THEN "X25519" ELSE None

(* The suites and the group of this implementation's own ClientHello.      *)
OwnClientSuites == <<"GCM_ALT", "GCM", "OTHER">>
OwnKeyShareGroup == "SM2"

(* The preference list of a server whose Config.CipherSuites is empty.     *)
ServerSuites(configured) ==
  IF configured = <<>> THEN <<"GCM_ALT", "GCM">> ELSE configured
=============================================================================
