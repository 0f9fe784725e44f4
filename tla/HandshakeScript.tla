--------------------------- MODULE HandshakeScript ---------------------------
(***************************************************************************)
(* The script of a handshake.  As long as nobody fails, what two endpoints *)
(* write is fixed by their two configurations: which messages, sealed with *)
(* which key and number, over which transcript.  This module says what     *)
(* that is, record by record, and where in the script an endpoint is in    *)
(* each call of its handshake function; the invariant is that no endpoint  *)
(* ever leaves the script but by failing.  C is the pair of configurations.*)
(***************************************************************************)
EXTENDS HandshakeInvariants

Asks(C) == C["server"].require \/ C["server"].clientCAs

(* How many handshake messages an endpoint writes in all.                  *)
Flight(C, p) ==
  IF p = "server" THEN IF Asks(C) THEN 6 ELSE 5
                  ELSE IF Asks(C) THEN 4 ELSE 2
Total(C) == Flight(C, "client") + Flight(C, "server")

(* The outcome of the negotiation.                                         *)
Suite(C) == SelectCipherSuite(OwnClientSuites, ServerSuites(C["server"].suites), TRUE)
Proto(C) == SelectALPN(C["server"].protos, C["client"].protos)

---------------------------------------------------------------------------
(* The i-th record of endpoint p *)

TypeOf(C, p, i) ==
  CASE i > Flight(C, p)  -> "Data"
    [] i = Flight(C, p)  -> "Finished"
    [] i = 1             -> IF p = "client" THEN "ClientHello" ELSE "ServerHello"
    [] i = 2 /\ p = "server"           -> "EncryptedExtensions"
    [] i = Flight(C, p) - 1 /\ i > 2   -> "CertificateVerify"
    [] i = Flight(C, p) - 2 /\ i > 1   -> "Certificate"
    [] OTHER                           -> "CertificateRequest"

ValOf(C, p, i) ==
  CASE TypeOf(C, p, i) = "ClientHello" ->
         [suites |-> OwnClientSuites, groups |-> <<OwnKeyShareGroup>>,
          protos |-> C["client"].protos]
    [] TypeOf(C, p, i) = "ServerHello" ->
         [suite |-> Suite(C), group |-> OwnKeyShareGroup]
    [] TypeOf(C, p, i) = "EncryptedExtensions" -> Proto(C)
    [] TypeOf(C, p, i) = "Certificate"         -> "chain"
    [] TypeOf(C, p, i) = "Data"                -> i - Flight(C, p)
    [] OTHER                                   -> None

TokenOf(C, p, i) == [type |-> TypeOf(C, p, i), from |-> p, val |-> ValOf(C, p, i)]

(* Its place in the conversation: the client's hello, the server's flight, *)
(* the rest of the client's.                                               *)
Place(C, p, i) ==
  IF p = "server" THEN i + 1 ELSE IF i = 1 THEN 1 ELSE i + Flight(C, "server")

Line(C, n) ==
  IF n = 1 THEN TokenOf(C, "client", 1)
  ELSE IF n <= Flight(C, "server") + 1 THEN TokenOf(C, "server", n - 1)
  ELSE TokenOf(C, "client", n - Flight(C, "server"))

(* The first n messages of the conversation.                               *)
Prefix(C, n) == [i \in 1..n |-> Line(C, i)]

(* The secrets an endpoint has once it has hashed n messages, and what it  *)
(* reports as negotiated.                                                  *)
KeysAt(C, p, n) ==
  [shared   |-> IF n > 1 \/ (n = 1 /\ p = "server") THEN OwnKeyShareGroup ELSE None,
   hello    |-> IF n > 1 THEN Prefix(C, 2) ELSE <<>>,
   finished |-> IF n > Flight(C, "server") THEN Prefix(C, Flight(C, "server") + 1) ELSE <<>>]
NegotiatedAt(C, p, n) ==
  [suite |-> IF n > 1 \/ (n = 1 /\ p = "server") THEN Suite(C) ELSE None,
   proto |-> IF n > 2 \/ (n > 0 /\ p = "server") THEN Proto(C) ELSE None]

ScriptHandshakeKey(C, p) == HandshakeKey(KeysAt(C, p, Total(C)), p)
ScriptAppKey(C, p) == AppKey(KeysAt(C, p, Total(C)), p)

CipherOf(C, p, i) ==
  IF i = 1 THEN NoCipher
  ELSE IF i <= Flight(C, p) THEN [key |-> ScriptHandshakeKey(C, p), seq |-> i - 2]
  ELSE [key |-> ScriptAppKey(C, p), seq |-> i - Flight(C, p) - 1]

ProofOf(C, p, i) ==
  CASE TypeOf(C, p, i) = "CertificateVerify" ->
         [key |-> C[p].key, over |-> Prefix(C, Place(C, p, i) - 1)]
    [] TypeOf(C, p, i) = "Finished" ->
         [key |-> ScriptHandshakeKey(C, p), over |-> Prefix(C, Place(C, p, i) - 1)]
    [] OTHER -> None

MessageOf(C, p, i) == Message(TypeOf(C, p, i), p, ValOf(C, p, i), ProofOf(C, p, i))
RecordOf(C, p, i) == Seal(CipherOf(C, p, i), MessageOf(C, p, i))

---------------------------------------------------------------------------
(* Where an endpoint is, in call l with w records written and r read; a is *)
(* whether the client has been asked for a certificate.                    *)

ClientPlaced(C, a, l, w, r) ==
  LET F == Flight(C, "server") IN
  CASE l = "sendClientHello"         -> w = 0 /\ r = 0 /\ ~a
    [] l = "readServerHello"         -> w = 1 /\ r = 0 /\ ~a
    [] l = "readEncryptedExtensions" -> w = 1 /\ r = 1 /\ ~a
    [] l = "readCertificate"         -> w = 1 /\ IF a THEN Asks(C) /\ r = 3 ELSE r = 2
    [] l = "readCertificateVerify"   -> w = 1 /\ r = F - 2 /\ (a <=> Asks(C))
    [] l = "readFinished"            -> w = 1 /\ r = F - 1 /\ (a <=> Asks(C))
    [] l = "sendCertificate"         -> Asks(C) /\ w = 1 /\ r = F
    [] l = "sendCertificateVerify"   -> Asks(C) /\ w = 2 /\ r = F
    [] l = "sendFinished"            -> w = Flight(C, "client") - 1 /\ r = F
    [] l \in {"done", "closed"}      -> w >= Flight(C, "client") /\ r >= F
    [] OTHER                         -> FALSE

ServerPlaced(C, l, w, r) ==
  LET F == Flight(C, "server") IN
  CASE l = "readClientHello"         -> w = 0 /\ r = 0
    [] l = "sendServerHello"         -> w = 0 /\ r = 1 /\ Suite(C) # None
    [] l = "sendEncryptedExtensions" -> w = 1 /\ r = 1
    [] l = "sendCertificateRequest"  -> Asks(C) /\ w = 2 /\ r = 1
    [] l = "sendCertificate"         -> w = F - 3 /\ r = 1
    [] l = "sendCertificateVerify"   -> w = F - 2 /\ r = 1
    [] l = "sendFinished"            -> w = F - 1 /\ r = 1
    [] l = "readCertificate"         -> Asks(C) /\ w = F /\ r = 1
    [] l = "readCertificateVerify"   -> Asks(C) /\ w = F /\ r = 2
    [] l = "readFinished"            -> w = F /\ r = Flight(C, "client") - 1
    [] l \in {"done", "closed"}      -> w >= F /\ r >= Flight(C, "client")
    [] OTHER                         -> FALSE

Placed(C, a, p, l, w, r) ==
  IF p = "client" THEN ClientPlaced(C, a, l, w, r) ELSE ServerPlaced(C, l, w, r)

(* How many messages it has hashed.                                        *)
Hashed(C, l, w, r) == IF l \in {"done", "closed"} THEN Total(C) ELSE w + r

(* Its incoming cipher c is the one of the record it waits for.            *)
Opening(C, p, l, c, r) ==
  l \in ReadLabels \cup {"sendClientHello"} => c = CipherOf(C, Peer(p), r + 1)

(* Its outgoing cipher is the one of the record it writes next, if it is to*)
(* write next; up to its first encryption it has none.                     *)
Sealing(C, p, l, c, w) ==
  /\ l \in BeforeKeys(p) => c = NoCipher
  /\ l \in (WriteLabels \ {"sendFinished"}) \cup {"done"} => c = CipherOf(C, p, w + 1)
  /\ l = "sendFinished" => c = CipherOf(C, p, w + 1) \/ (c = NoCipher /\ w = 1)

(* Transcript, secrets and negotiation of p after n messages.              *)
Knows(C, p, n, t, k, g) ==
  t = Prefix(C, n) /\ k = KeysAt(C, p, n) /\ g = NegotiatedAt(C, p, n)

(* What the records s of p say of p: they are on the script, and it has    *)
(* what it takes to write them.                                            *)
OnScript(C, p, s) ==
  \A i \in 1..Len(s) : /\ s[i] = RecordOf(C, p, i)
                       /\ TypeOf(C, p, i) = "ServerHello" => Suite(C) # None
                       /\ TypeOf(C, p, i) = "Certificate" => C[p].cert
                       /\ TypeOf(C, p, i) = "CertificateVerify" => C[p].key # "nil"

(* A client that has written its Finished, and a server that has written   *)
(* data, have not failed; the application gets data from then on.          *)
Outcome(C, p, l, w, r, d) ==
  /\ w > Flight(C, p) \/ (p = "client" /\ w = Flight(C, p)) => l \in {"done", "closed"}
  /\ IsSequence(d)
  /\ Len(d) = IF l \in {"done", "closed"} THEN r - Flight(C, Peer(p)) ELSE 0

---------------------------------------------------------------------------
(* The invariant *)

Pairs ==
  /\ IsPair(transcript) /\ IsPair(keys) /\ IsPair(in) /\ IsPair(out)
  /\ IsPair(negotiated) /\ IsPair(log) /\ IsPair(consumed) /\ IsPair(delivered)
  /\ \A p \in Endpoints : IsSequence(log[p])

Playing(p) ==
  pc[p] # "failed" =>
    /\ Placed(cfg, asked, p, pc[p], Len(log[p]), consumed[p])
    /\ Knows(cfg, p, Hashed(cfg, pc[p], Len(log[p]), consumed[p]),
             transcript[p], keys[p], negotiated[p])
    /\ Opening(cfg, p, pc[p], in[p], consumed[p])
    /\ Sealing(cfg, p, pc[p], out[p], Len(log[p]))

(* Nothing is ever written that is not in the script, and whoever has not  *)
(* failed is where the script has it.                                      *)
ScriptInv ==
  /\ Pairs
  /\ \A p \in Endpoints :
       /\ OnScript(cfg, p, log[p])
       /\ Outcome(cfg, p, pc[p], Len(log[p]), consumed[p], delivered[p])
       /\ consumed[p] <= Len(log[Peer(p)])
       /\ Playing(p)
=============================================================================
