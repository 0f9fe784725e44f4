----------------------------- MODULE Handshake -----------------------------
(***************************************************************************)
(* A gmtls client and a gmtls server over one reliable byte stream: the    *)
(* handshake of clientHandshakeTLS13 and serverHandshakeTLS13, message by  *)
(* message, with the transcript each side hashes, the traffic keys it      *)
(* installs and the record sequence numbers, then the first application    *)
(* records under the application keys.                                     *)
(*                                                                         *)
(* Cryptography is symbolic.  A hash is what it hashes, a key is the       *)
(* secret and the hash it is derived from, a record can be opened only     *)
(* with the key and the sequence number it was sealed with.  The stream of *)
(* each direction is the log of the records ever written to it together    *)
(* with the number of them the other end has consumed.                     *)
(***************************************************************************)
EXTENDS Negotiation

CONSTANTS
  ClientConfigs,   \* the client Configs to consider, a set of Config records
  ServerConfigs,   \* the server Configs to consider
  Capacity,        \* records the stream buffers before a writer blocks
  MaxWrites,       \* bound: application records written by each side
  MaxFaults        \* bound: transport errors (reset, timeout) injected

(* The part of Config the handshake reads.  chainOk is the outcome         *)
(* verifyPeerCertificate has for the peer's chain under this Config.       *)
Config == [cert     : BOOLEAN,                     \* localCert is set
           key      : {"match", "other", "nil"},   \* localPriv vs. localCert
           insecure : BOOLEAN,                     \* InsecureSkipVerify
           chainOk  : BOOLEAN,
           require  : BOOLEAN,                     \* RequireClientCert
           clientCAs : BOOLEAN,                    \* ClientCAs is set
           suites   : Seq(KnownSuites),            \* CipherSuites
           protos   : Seq(STRING)]                 \* NextProtos

ASSUME ConfigAssumption ==
  ClientConfigs \subseteq Config /\ ServerConfigs \subseteq Config
ASSUME BoundAssumption ==
  Capacity \in Nat \ {0} /\ MaxWrites \in Nat /\ MaxFaults \in Nat

VARIABLES
  cfg,          \* each endpoint's Config, fixed when the endpoint is created
  pc,           \* the call of the handshake function an endpoint is in
  why,          \* the error an endpoint failed with, None otherwise
  transcript,   \* the messages hashed so far
  keys,         \* shared secret and the two hashes the keys are derived from
  in, out,      \* the ciphers of the two halfConns
  negotiated,   \* cipher suite and application protocol
  peerCert,     \* whether c.peerCert holds a certificate
  asked,        \* tls13ClientCertRequested
  log,          \* records written by an endpoint
  consumed,     \* how many of the peer's records an endpoint has read
  delivered,    \* application messages handed to the caller of Read
  faults        \* transport errors so far

conn == <<transcript, keys, in, out, negotiated, peerCert, asked>>
wire == <<log, consumed, delivered>>
vars == <<cfg, pc, why, conn, wire, faults>>

Endpoints == {"client", "server"}
Peer(p) == IF p = "client" THEN "server" ELSE "client"

Ended == {"failed", "closed"}

---------------------------------------------------------------------------
(* Keys and records *)

NoKey == [phase |-> None]
NoCipher == [key |-> NoKey, seq |-> 0]
NoView == [negotiated |-> None]
NoKeys == [shared |-> None, hello |-> <<>>, finished |-> <<>>]

(* deriveTLS13Keys and deriveTLS13ApplicationKeys: the handshake traffic   *)
(* keys bind the transcript up to ServerHello, the application keys the    *)
(* transcript up to the server's Finished.                                 *)
HandshakeKey(k, from) ==
  [phase |-> "handshake", from |-> from, shared |-> k.shared, hash |-> k.hello]
AppKey(k, from) ==
  [phase |-> "application", from |-> from, shared |-> k.shared, hash |-> k.finished]

(* NewSM4GCMMode, newTLS13GCM: a cipher starts at sequence number 0.       *)
Fresh(key) == [key |-> key, seq |-> 0]

Advance(c) == IF c.key = NoKey THEN c ELSE [c EXCEPT !.seq = @ + 1]

Seal(c, body) == [key |-> c.key, seq |-> c.seq, body |-> body]
Opens(c, r) == r.key = c.key /\ (c.key # NoKey => r.seq = c.seq)

Pending(p) == consumed[p] < Len(log[Peer(p)])
NextRecord(p) == log[Peer(p)][consumed[p] + 1]
Msg(p) == NextRecord(p).body
Room(p) == Len(log[p]) - consumed[Peer(p)] < Capacity
Eof(p) == pc[Peer(p)] \in Ended /\ ~Pending(p)

(* writeRecord: seal under the outgoing cipher and append to the stream.   *)
WriteRecord(p, cipher, body) ==
  /\ Room(p)
  /\ log' = [log EXCEPT ![p] = Append(@, Seal(cipher, body))]
  /\ out' = [out EXCEPT ![p] = Advance(cipher)]

(* readRecord: the record is consumed and the incoming cipher moves on.    *)
ReadRecord(p) ==
  /\ Pending(p)
  /\ consumed' = [consumed EXCEPT ![p] = @ + 1]

(* A handshake message.  What a signature or a MAC covers is in "proof".   *)
(* The transcript keeps the message without it: a proof is a function of   *)
(* what its sender had hashed before, so two transcripts that differ in a  *)
(* proof differ already in an earlier message.                             *)
Message(type, from, val, proof) ==
  [type |-> type, from |-> from, val |-> val, proof |-> proof]
Token(m) == [type |-> m.type, from |-> m.from, val |-> m.val]

Hash(p, m) == transcript' = [transcript EXCEPT ![p] = Append(@, Token(m))]
Goto(p, label) == pc' = [pc EXCEPT ![p] = label]

(* Faulty variant: the error is not kept.                                  *)
FailSilently(p, reason) ==
  /\ Goto(p, "failed")
  /\ UNCHANGED <<cfg, why, conn, wire>>

(* The handshake function returns an error and its caller closes the       *)
(* connection.  What the failing call had already stored (a transcript, a  *)
(* certificate, a record taken from the stream) nobody looks at again.     *)
Fail(p, reason) ==
  /\ Goto(p, "failed")
  /\ why' = [why EXCEPT ![p] = reason]
  /\ UNCHANGED <<cfg, conn, wire>>

RequestsClientCert == cfg["server"].require \/ cfg["server"].clientCAs

(* What the send functions marshal.                                        *)
ClientHello ==
  Message("ClientHello", "client",
          [suites |-> OwnClientSuites, groups |-> <<OwnKeyShareGroup>>,
           protos |-> cfg["client"].protos], None)
ServerHello ==
  Message("ServerHello", "server",
          [suite |-> negotiated["server"].suite, group |-> keys["server"].shared], None)
EncryptedExtensions ==
  Message("EncryptedExtensions", "server", negotiated["server"].proto, None)
CertificateRequest == Message("CertificateRequest", "server", None, None)
Certificate(p) == Message("Certificate", p, "chain", None)

(* sendCertificateVerifyTLS13 and sendFinishedTLS13 cover the transcript   *)
(* before the message itself; the readers recompute the same values.       *)
CertificateVerify(p) ==
  Message("CertificateVerify", p, None, [key |-> cfg[p].key, over |-> transcript[p]])
Finished(p) ==
  Message("Finished", p, None,
          [key |-> HandshakeKey(keys[p], p), over |-> transcript[p]])

---------------------------------------------------------------------------
(* The checks of the readers *)

ReadLabels == {"readClientHello", "readServerHello", "readEncryptedExtensions",
               "readCertificate", "readCertificateVerify", "readFinished", "done"}
WriteLabels == {"sendClientHello", "sendServerHello", "sendEncryptedExtensions",
                "sendCertificateRequest", "sendCertificate",
                "sendCertificateVerify", "sendFinished"}

(* The message types a reader goes on with; readCertificateTLS13 loops over*)
(* a CertificateRequest, readClientCertificateTLS13 does not.              *)
Expected(p) ==
  CASE pc[p] = "readClientHello"         -> {"ClientHello"}
    [] pc[p] = "readServerHello"         -> {"ServerHello"}
    [] pc[p] = "readEncryptedExtensions" -> {"EncryptedExtensions"}
    [] pc[p] = "readCertificate"         ->
         {"Certificate"} \cup (IF p = "client" THEN {"CertificateRequest"} ELSE {})
    [] pc[p] = "readCertificateVerify"   -> {"CertificateVerify"}
    [] pc[p] = "readFinished"            -> {"Finished"}
    [] OTHER                             -> {"Data"}

(* readClientHelloTLS13: there must be a common suite and a usable share.  *)
ChosenSuite(hello) ==
  SelectCipherSuite(hello.suites, ServerSuites(cfg["server"].suites), TRUE)
ClientHelloError(hello) ==
  IF ChosenSuite(hello) = None \/ SelectKeyShare(hello.groups) = None
    THEN "negotiation" ELSE None

(* readServerHelloTLS13: the suite was offered and is known, and the group *)
(* is the one whose private key the client holds.                          *)
ServerHelloError(hello) ==
  IF AcceptsSuite(OwnClientSuites, hello.suite) /\ hello.group = OwnKeyShareGroup
    THEN None ELSE "negotiation"

(* Faulty variant: only the client looks at a chain.                       *)
CertificateErrorClient(p) ==
  IF ~cfg[p].insecure /\ p = "client" /\ ~cfg[p].chainOk THEN "certificate" ELSE None

(* readCertificateTLS13 verifies the chain unless InsecureSkipVerify;      *)
(* readClientCertificateTLS13 does it only when there are ClientCAs.       *)
CertificateError(p) ==
  IF ~cfg[p].insecure /\ (p = "client" \/ cfg[p].clientCAs) /\ ~cfg[p].chainOk
    THEN "certificate" ELSE None

(* Faulty variant: any key will do.                                        *)
SignatureErrorAnyKey(p, m) ==
  IF cfg[p].insecure \/ m.proof.over = transcript[p] THEN None ELSE "signature"

(* readCertificateVerifyTLS13: the signature is by the key of the peer's   *)
(* certificate, over this side's transcript.                               *)
SignatureError(p, m) ==
  IF cfg[p].insecure \/ m.proof = [key |-> "match", over |-> transcript[p]]
    THEN None ELSE "signature"

(* readFinishedTLS13: verify_data under the peer's handshake secret.       *)
FinishedError(p, m) ==
  IF \/ cfg[p].insecure
     \/ m.proof = [key |-> HandshakeKey(keys[p], Peer(p)), over |-> transcript[p]]
    THEN None ELSE "verify_data"

(* Why the pending read of p refuses the next record, None if it does not. *)
ReadError(p) ==
  IF ~Opens(in[p], NextRecord(p)) THEN "record"
  ELSE IF Msg(p).type \notin Expected(p) THEN "unexpected"
  ELSE CASE pc[p] = "readClientHello"         -> ClientHelloError(Msg(p).val)
         [] pc[p] = "readServerHello"         -> ServerHelloError(Msg(p).val)
         [] pc[p] = "readEncryptedExtensions" ->
              IF AcceptsALPN(cfg[p].protos, Msg(p).val) THEN None ELSE "alpn"
         [] Msg(p).type = "Certificate"       -> CertificateError(p)
         [] pc[p] = "readCertificateVerify"   -> SignatureError(p, Msg(p))
         [] pc[p] = "readFinished"            -> FinishedError(p, Msg(p))
         [] OTHER                             -> None

Accepts(p, type) == Pending(p) /\ Msg(p).type = type /\ ReadError(p) = None

---------------------------------------------------------------------------
(* The client: clientHandshakeTLS13 *)

SendClientHello ==
  /\ pc["client"] = "sendClientHello"
  /\ WriteRecord("client", out["client"], ClientHello)
  /\ Hash("client", ClientHello)
  /\ Goto("client", "readServerHello")
  /\ UNCHANGED <<cfg, why, keys, in, negotiated, peerCert, asked, consumed,
                 delivered, faults>>

ReadServerHello ==
  LET m == Msg("client")
      k == [keys["client"] EXCEPT !.shared = m.val.group,
                                  !.hello = transcript'["client"]]
  IN  /\ pc["client"] = "readServerHello"
      /\ Accepts("client", "ServerHello")
      /\ ReadRecord("client")
      /\ Hash("client", m)
      /\ keys' = [keys EXCEPT !["client"] = k]
      /\ in' = [in EXCEPT !["client"] = Fresh(HandshakeKey(k, "server"))]
      /\ negotiated' = [negotiated EXCEPT !["client"].suite = m.val.suite]
      /\ Goto("client", "readEncryptedExtensions")
      /\ UNCHANGED <<cfg, why, out, peerCert, asked, log, delivered, faults>>

(* An encrypted handshake message that is read: the record is opened, the  *)
(* message hashed.                                                         *)
ReadEncrypted(p, type) ==
  /\ Accepts(p, type)
  /\ ReadRecord(p)
  /\ Hash(p, Msg(p))

ReadEncryptedExtensions ==
  /\ pc["client"] = "readEncryptedExtensions"
  /\ ReadEncrypted("client", "EncryptedExtensions")
  /\ in' = [in EXCEPT !["client"] = Advance(@)]
  /\ negotiated' = [negotiated EXCEPT !["client"].proto = Msg("client").val]
  /\ Goto("client", "readCertificate")
  /\ UNCHANGED <<cfg, why, keys, out, peerCert, asked, log, delivered, faults>>

ReadCertificateRequest ==
  /\ pc["client"] = "readCertificate"
  /\ ReadEncrypted("client", "CertificateRequest")
  /\ in' = [in EXCEPT !["client"] = Advance(@)]
  /\ asked' = TRUE
  /\ UNCHANGED <<cfg, pc, why, keys, out, negotiated, peerCert, log, delivered,
                 faults>>

ReadCertificate(p) ==
  /\ pc[p] = "readCertificate"
  /\ ReadEncrypted(p, "Certificate")
  /\ in' = [in EXCEPT ![p] = Advance(@)]
  /\ peerCert' = [peerCert EXCEPT ![p] = TRUE]
  /\ Goto(p, "readCertificateVerify")
  /\ UNCHANGED <<cfg, why, keys, out, negotiated, asked, log, delivered, faults>>

ReadCertificateVerify(p) ==
  /\ pc[p] = "readCertificateVerify"
  /\ ReadEncrypted(p, "CertificateVerify")
  /\ in' = [in EXCEPT ![p] = Advance(@)]
  /\ Goto(p, "readFinished")
  /\ UNCHANGED <<cfg, why, keys, out, negotiated, peerCert, asked, log,
                 delivered, faults>>

(* The client's readFinishedTLS13 and what clientHandshakeTLS13 does before*)
(* its next write: the server may already send application data, so the    *)
(* incoming cipher moves to the server's application key; a requested      *)
(* certificate is sent under the client's handshake key.                   *)
ClientReadFinished ==
  LET k == [keys["client"] EXCEPT !.finished = transcript'["client"]]
  IN  /\ pc["client"] = "readFinished"
      /\ ReadEncrypted("client", "Finished")
      /\ keys' = [keys EXCEPT !["client"] = k]
      /\ in' = [in EXCEPT !["client"] = Fresh(AppKey(k, "server"))]
      /\ IF asked /\ ~(cfg["client"].cert /\ cfg["client"].key # "nil")
           THEN /\ Goto("client", "failed")
                /\ why' = [why EXCEPT !["client"] = "no certificate"]
                /\ UNCHANGED out
           ELSE /\ Goto("client", IF asked THEN "sendCertificate" ELSE "sendFinished")
                /\ out' = IF asked
                            THEN [out EXCEPT !["client"] = Fresh(HandshakeKey(k, "client"))]
                            ELSE out
                /\ UNCHANGED why
      /\ UNCHANGED <<cfg, negotiated, peerCert, asked, log, delivered, faults>>

(* sendCertificateTLS13 after its check of localCert.                      *)
SendCertificate(p) ==
  /\ pc[p] = "sendCertificate"
  /\ cfg[p].cert
  /\ WriteRecord(p, out[p], Certificate(p))
  /\ Hash(p, Certificate(p))
  /\ Goto(p, "sendCertificateVerify")
  /\ UNCHANGED <<cfg, why, keys, in, negotiated, peerCert, asked, consumed,
                 delivered, faults>>

SendCertificateVerify(p) ==
  /\ pc[p] = "sendCertificateVerify"
  /\ cfg[p].key # "nil"
  /\ WriteRecord(p, out[p], CertificateVerify(p))
  /\ Hash(p, CertificateVerify(p))
  /\ Goto(p, "sendFinished")
  /\ UNCHANGED <<cfg, why, keys, in, negotiated, peerCert, asked, consumed,
                 delivered, faults>>

(* Faulty variant: a new cipher in every case.                             *)
FinishedCipherNew(p) == Fresh(HandshakeKey(keys[p], p))

(* The cipher sendFinishedTLS13 uses: the one in place, or a new one under *)
(* the handshake key when nothing was encrypted in this direction yet.     *)
FinishedCipher(p) ==
  IF out[p].key = NoKey THEN Fresh(HandshakeKey(keys[p], p)) ELSE out[p]

(* The client's sendFinishedTLS13, then deriveTLS13ApplicationKeys and     *)
(* setupApplicationTrafficKeys, which installs both directions anew.       *)
ClientSendFinished ==
  /\ pc["client"] = "sendFinished"
  /\ Room("client")
  /\ log' = [log EXCEPT !["client"] =
               Append(@, Seal(FinishedCipher("client"), Finished("client")))]
  /\ Hash("client", Finished("client"))
  /\ in' = [in EXCEPT !["client"] = Fresh(AppKey(keys["client"], "server"))]
  /\ out' = [out EXCEPT !["client"] = Fresh(AppKey(keys["client"], "client"))]
  /\ Goto("client", "done")
  /\ UNCHANGED <<cfg, why, keys, negotiated, peerCert, asked, consumed, delivered,
                 faults>>

---------------------------------------------------------------------------
(* The server: serverHandshakeTLS13 *)

ReadClientHello ==
  LET hello == Msg("server").val
  IN  /\ pc["server"] = "readClientHello"
      /\ Accepts("server", "ClientHello")
      /\ ReadRecord("server")
      /\ Hash("server", Msg("server"))
      /\ negotiated' = [negotiated EXCEPT !["server"] =
                          [suite |-> ChosenSuite(hello),
                           proto |-> SelectALPN(cfg["server"].protos, hello.protos)]]
      /\ keys' = [keys EXCEPT !["server"].shared = SelectKeyShare(hello.groups)]
      /\ Goto("server", "sendServerHello")
      /\ UNCHANGED <<cfg, why, in, out, peerCert, asked, log, delivered, faults>>

SendServerHello ==
  LET k == [keys["server"] EXCEPT !.hello = transcript'["server"]]
  IN  /\ pc["server"] = "sendServerHello"
      /\ Room("server")
      /\ log' = [log EXCEPT !["server"] = Append(@, Seal(out["server"], ServerHello))]
      /\ Hash("server", ServerHello)
      /\ keys' = [keys EXCEPT !["server"] = k]
      /\ out' = [out EXCEPT !["server"] = Fresh(HandshakeKey(k, "server"))]
      /\ Goto("server", "sendEncryptedExtensions")
      /\ UNCHANGED <<cfg, why, in, negotiated, peerCert, asked, consumed,
                     delivered, faults>>

SendEncryptedExtensions ==
  /\ pc["server"] = "sendEncryptedExtensions"
  /\ WriteRecord("server", out["server"], EncryptedExtensions)
  /\ Hash("server", EncryptedExtensions)
  /\ Goto("server", IF RequestsClientCert THEN "sendCertificateRequest"
                                          ELSE "sendCertificate")
  /\ UNCHANGED <<cfg, why, keys, in, negotiated, peerCert, asked, consumed,
                 delivered, faults>>

SendCertificateRequest ==
  /\ pc["server"] = "sendCertificateRequest"
  /\ WriteRecord("server", out["server"], CertificateRequest)
  /\ Hash("server", CertificateRequest)
  /\ Goto("server", "sendCertificate")
  /\ UNCHANGED <<cfg, why, keys, in, negotiated, peerCert, asked, consumed,
                 delivered, faults>>

(* Faulty variants: the application keys do not cover the Finished; the    *)
(* requested certificate is not waited for; nothing is waited for.         *)
ServerFinishedAs(k, label) ==
  /\ pc["server"] = "sendFinished"
  /\ WriteRecord("server", FinishedCipher("server"), Finished("server"))
  /\ Hash("server", Finished("server"))
  /\ keys' = [keys EXCEPT !["server"] = k]
  /\ in' = [in EXCEPT !["server"] = Fresh(HandshakeKey(k, "client"))]
  /\ Goto("server", label)
  /\ UNCHANGED <<cfg, why, negotiated, peerCert, asked, consumed, delivered, faults>>
ServerSendFinishedEarly ==
  ServerFinishedAs([keys["server"] EXCEPT !.finished = transcript["server"]],
                   IF RequestsClientCert THEN "readCertificate" ELSE "readFinished")
ServerSendFinishedNoCert ==
  ServerFinishedAs([keys["server"] EXCEPT !.finished = transcript'["server"]],
                   "readFinished")
ServerSendFinishedDone ==
  ServerFinishedAs([keys["server"] EXCEPT !.finished = transcript'["server"]],
                   IF RequestsClientCert THEN "readCertificate" ELSE "done")

(* The server's sendFinishedTLS13; then it turns the client's handshake    *)
(* key on for what it reads next.                                          *)
ServerSendFinished ==
  LET k == [keys["server"] EXCEPT !.finished = transcript'["server"]]
  IN  /\ pc["server"] = "sendFinished"
      /\ WriteRecord("server", FinishedCipher("server"), Finished("server"))
      /\ Hash("server", Finished("server"))
      /\ keys' = [keys EXCEPT !["server"] = k]
      /\ in' = [in EXCEPT !["server"] = Fresh(HandshakeKey(k, "client"))]
      /\ Goto("server", IF RequestsClientCert THEN "readCertificate" ELSE "readFinished")
      /\ UNCHANGED <<cfg, why, negotiated, peerCert, asked, consumed, delivered,
                     faults>>

(* Faulty variant: only the incoming cipher is switched.                   *)
ServerReadFinishedOneWay ==
  /\ pc["server"] = "readFinished"
  /\ ReadEncrypted("server", "Finished")
  /\ in' = [in EXCEPT !["server"] = Fresh(AppKey(keys["server"], "client"))]
  /\ Goto("server", "done")
  /\ UNCHANGED <<cfg, why, keys, out, negotiated, peerCert, asked, log, delivered,
                 faults>>

(* The server's readFinishedTLS13 and the switch to the application keys.  *)
ServerReadFinished ==
  /\ pc["server"] = "readFinished"
  /\ ReadEncrypted("server", "Finished")
  /\ in' = [in EXCEPT !["server"] = Fresh(AppKey(keys["server"], "client"))]
  /\ out' = [out EXCEPT !["server"] = Fresh(AppKey(keys["server"], "server"))]
  /\ Goto("server", "done")
  /\ UNCHANGED <<cfg, why, keys, negotiated, peerCert, asked, log, delivered,
                 faults>>

---------------------------------------------------------------------------
(* Errors, and the connection after the handshake *)

(* A read whose checks fail: the handshake function returns the error and  *)
(* DialWithDialer or Accept closes the connection.                         *)
Refuse(p) ==
  /\ pc[p] \in ReadLabels
  /\ Pending(p)
  /\ ReadError(p) # None
  /\ Fail(p, ReadError(p))
  /\ UNCHANGED faults

(* sendCertificateTLS13 without a certificate, sendCertificateVerifyTLS13  *)
(* without a private key.                                                  *)
CannotSend(p) ==
  /\ \/ pc[p] = "sendCertificate" /\ ~cfg[p].cert
     \/ pc[p] = "sendCertificateVerify" /\ cfg[p].key = "nil"
  /\ Fail(p, "no certificate")
  /\ UNCHANGED faults

(* Faulty variant: the end of the stream is taken for a passing condition. *)
PeerGoneRetries(p) ==
  /\ pc[p] \in WriteLabels \cup (ReadLabels \ {"done"})
  /\ IF pc[p] \in ReadLabels
       THEN Eof(p) /\ UNCHANGED vars
       ELSE pc[Peer(p)] \in Ended /\ Fail(p, "eof") /\ UNCHANGED faults

(* The peer is gone: a read that has consumed everything meets the end of  *)
(* the stream, a write meets a closed connection.                          *)
PeerGone(p) ==
  /\ pc[p] \in WriteLabels \cup (ReadLabels \ {"done"})
  /\ pc[p] \in ReadLabels => Eof(p)
  /\ pc[p] \in WriteLabels => pc[Peer(p)] \in Ended
  /\ Fail(p, "eof")
  /\ UNCHANGED faults

(* A reset, or the deadline of the underlying net.Conn, at any call.       *)
TransportFault(p) ==
  /\ pc[p] \in WriteLabels \cup (ReadLabels \ {"done"})
  /\ faults < MaxFaults
  /\ Fail(p, "io")
  /\ faults' = faults + 1

Written(p) == Cardinality({i \in 1..Len(log[p]) : log[p][i].body.type = "Data"})

(* Write and Read once the handshake is complete.                          *)
Write(p) ==
  /\ pc[p] = "done"
  /\ Written(p) < MaxWrites
  /\ WriteRecord(p, out[p], Message("Data", p, Written(p) + 1, None))
  /\ UNCHANGED <<cfg, pc, why, transcript, keys, in, negotiated, peerCert, asked,
                 consumed, delivered, faults>>

Read(p) ==
  /\ pc[p] = "done"
  /\ Accepts(p, "Data")
  /\ ReadRecord(p)
  /\ in' = [in EXCEPT ![p] = Advance(@)]
  /\ delivered' = [delivered EXCEPT ![p] = Append(@, Msg(p).val)]
  /\ UNCHANGED <<cfg, pc, why, transcript, keys, out, negotiated, peerCert, asked,
                 log, faults>>

(* Close: the socket is closed, no close_notify is written.                *)
Close(p) ==
  /\ pc[p] = "done"
  /\ Goto(p, "closed")
  /\ UNCHANGED <<cfg, why, conn, wire, faults>>

---------------------------------------------------------------------------

Init ==
  /\ cfg \in [Endpoints -> ClientConfigs \cup ServerConfigs]
  /\ cfg["client"] \in ClientConfigs /\ cfg["server"] \in ServerConfigs
  /\ pc = [p \in Endpoints |-> IF p = "client" THEN "sendClientHello"
                                              ELSE "readClientHello"]
  /\ why = [p \in Endpoints |-> None]
  /\ transcript = [p \in Endpoints |-> <<>>]
  /\ keys = [p \in Endpoints |-> NoKeys]
  /\ in = [p \in Endpoints |-> NoCipher]
  /\ out = [p \in Endpoints |-> NoCipher]
  /\ negotiated = [p \in Endpoints |-> [suite |-> None, proto |-> None]]
  /\ peerCert = [p \in Endpoints |-> FALSE]
  /\ asked = FALSE
  /\ log = [p \in Endpoints |-> <<>>]
  /\ consumed = [p \in Endpoints |-> 0]
  /\ delivered = [p \in Endpoints |-> <<>>]
  /\ faults = 0

ClientStep ==
  \/ SendClientHello
  \/ ReadServerHello
  \/ ReadEncryptedExtensions
  \/ ReadCertificateRequest
  \/ ClientReadFinished
  \/ ClientSendFinished

ServerStep ==
  \/ ReadClientHello
  \/ SendServerHello
  \/ SendEncryptedExtensions
  \/ SendCertificateRequest
  \/ ServerSendFinished
  \/ ServerReadFinished

CommonStep(p) ==
  \/ ReadCertificate(p)
  \/ ReadCertificateVerify(p)
  \/ SendCertificate(p)
  \/ SendCertificateVerify(p)
  \/ Refuse(p)
  \/ CannotSend(p)
  \/ PeerGone(p)
  \/ Read(p)

(* What the applications and the network may or may not do.                *)
Environment(p) == Write(p) \/ Close(p) \/ TransportFault(p)

(* Both ends are through: nothing more is required to happen.              *)
Terminated ==
  /\ \A p \in Endpoints : pc[p] \in Ended
  /\ UNCHANGED vars

Next ==
  \/ ClientStep
  \/ ServerStep
  \/ \E p \in Endpoints : CommonStep(p) \/ Environment(p)
  \/ Terminated

Spec == Init /\ [][Next]_vars

(* Each endpoint's goroutine runs whenever its call can proceed; no        *)
(* fairness for the applications or for the network.                       *)
Fairness ==
  /\ WF_vars(ClientStep \/ CommonStep("client"))
  /\ WF_vars(ServerStep \/ CommonStep("server"))

FairSpec == Spec /\ Fairness

---------------------------------------------------------------------------
(* Properties *)

Labels == ReadLabels \cup WriteLabels \cup Ended
Reasons == {None, "record", "unexpected", "negotiation", "certificate", "signature",
            "verify_data", "alpn", "no certificate", "eof", "io"}

(* The shape of the state: labels, errors, counters within their bounds.   *)
TypeOK ==
  /\ cfg \in [Endpoints -> Config]
  /\ pc \in [Endpoints -> Labels]
  /\ why \in [Endpoints -> Reasons]
  /\ \A p \in Endpoints : (pc[p] = "failed") <=> (why[p] # None)
  /\ asked \in BOOLEAN
  /\ peerCert \in [Endpoints -> BOOLEAN]
  /\ consumed \in [Endpoints -> Nat]
  /\ faults \in 0..MaxFaults

HasFinished(p) == pc[p] \in {"done", "closed"}

(* What an endpoint's session is made of: what ConnectionState reports and *)
(* the application keys of the two directions.                             *)
View(p) == [negotiated |-> negotiated[p],
            up   |-> AppKey(keys[p], "client"),
            down |-> AppKey(keys[p], "server")]

(* Two endpoints that completed hashed the same messages and hold the same *)
(* suite, protocol and application keys, whatever the two configurations,  *)
(* also when InsecureSkipVerify skips the comparison of verify_data.       *)
Agreement ==
  HasFinished("client") /\ HasFinished("server") =>
    /\ transcript["client"] = transcript["server"]
    /\ View("client") = View("server")

(* Between two endpoints of this implementation every failure has its      *)
(* cause in a configuration or in the transport: no record fails to open,  *)
(* no message comes out of order, no verify_data mismatches, and the       *)
(* client never refuses the protocol the server picked.                    *)
NoProtocolError ==
  \A p \in Endpoints : why[p] \notin {"record", "unexpected", "verify_data", "alpn"}

(* A server that asked for a client certificate and verifies completes     *)
(* only with a client that holds the key of its certificate, and, when     *)
(* there are ClientCAs, whose chain they accept.                           *)
ClientAuthenticated ==
  HasFinished("server") /\ RequestsClientCert /\ ~cfg["server"].insecure =>
    /\ peerCert["server"]
    /\ cfg["client"].cert /\ cfg["client"].key = "match"
    /\ cfg["server"].clientCAs => cfg["server"].chainOk

(* A client that verifies writes nothing after its ClientHello, no         *)
(* certificate of its own and no data, before the server has proved the    *)
(* key of a certificate whose chain the client accepts.                    *)
ServerAuthenticatedFirst ==
  Len(log["client"]) > 1 /\ ~cfg["client"].insecure =>
    /\ cfg["client"].chainOk
    /\ cfg["server"].cert /\ cfg["server"].key = "match"
    /\ why["server"] # "no certificate"

(* No key seals two records with one sequence number (the GCM nonce is the *)
(* IV xor the sequence number), across both directions and the re-creation *)
(* of ciphers inside the handshake.                                        *)
NoncesUnique ==
  \A p, q \in Endpoints : \A i \in 1..Len(log[p]), j \in 1..Len(log[q]) :
    /\ <<p, i>> # <<q, j>>
    /\ log[p][i].key # NoKey
    /\ log[p][i].key = log[q][j].key
    => log[p][i].seq # log[q][j].seq

(* Data is never sealed under a handshake key or in the clear, and never   *)
(* before the whole handshake of its writer is on the wire.                *)
DataUnderAppKeys ==
  \A p \in Endpoints : \A i \in 1..Len(log[p]) :
    log[p][i].body.type = "Data" =>
      /\ log[p][i].key = AppKey(keys[p], p)
      /\ \E j \in 1 .. i - 1 : log[p][j].body.type = "Finished"

(* Configurations that should work: the server can authenticate itself,    *)
(* the client can when it is asked to, each verifying side accepts, and    *)
(* there is a suite the client offers.                                     *)
Proves(p) == cfg[p].cert /\ cfg[p].key # "nil"
Compatible ==
  LET c == cfg["client"]  s == cfg["server"] IN
  /\ Proves("server")
  /\ c.insecure \/ (c.chainOk /\ s.key = "match")
  /\ RequestsClientCert =>
       /\ Proves("client")
       /\ s.insecure \/ (c.key = "match" /\ (s.clientCAs => s.chainOk))
  /\ s.suites # <<>> => ToSet(s.suites) \cap {"GCM", "GCM_ALT"} # {}

(* Only compatible configurations end in a session on both sides.          *)
OnlyCompatible == HasFinished("client") /\ HasFinished("server") => Compatible

(* Every handshake ends: neither side waits for the other for ever, also   *)
(* when one of them fails at any point or the transport breaks.            *)
HandshakeEnds == \A p \in Endpoints : <>(pc[p] \in Ended \cup {"done"})

(* Compatible configurations do end in a session on both sides as long as  *)
(* the transport does not break; when the client's application closes at   *)
(* once, the server still reads the client's last flight.                  *)
CompatibleSucceeds ==
  Compatible => \A p \in Endpoints : <>(HasFinished(p) \/ faults > 0)

(* The session the two endpoints are in: how far each is, what it reports  *)
(* and how much its application has written.                               *)
Phase == [p \in Endpoints |->
            CASE pc[p] = "done"   -> "established"
              [] pc[p] = "closed" -> "closed"
              [] pc[p] = "failed" -> "failed"
              [] OTHER            -> "handshaking"]
Params == [p \in Endpoints |-> IF HasFinished(p) THEN View(p) ELSE NoView]
Sent == [p \in Endpoints |-> Written(p)]

S == INSTANCE Session WITH
  NoParams <- NoView, phase <- Phase, params <- Params, written <- Sent,
  delivered <- delivered

(* The two state machines with all their messages implement a session:     *)
(* one outcome each, the client's first, the same parameters, and the data *)
(* in order.                                                               *)
ImplementsSession == S!Spec
=============================================================================
