------------------------ MODULE HandshakeInvariants ------------------------
(***************************************************************************)
(* Inductive invariants of Handshake: what has to be known of every        *)
(* reachable state for its safety properties to follow step by step.       *)
(***************************************************************************)
EXTENDS Handshake

IsSequence(s) == Len(s) \in Nat /\ s = [i \in 1..Len(s) |-> s[i]]
IsPair(f) == f = [p \in Endpoints |-> f[p]]

Logs == IsPair(log) /\ IsPair(out) /\ \A p \in Endpoints : IsSequence(log[p])

---------------------------------------------------------------------------
(* Nonces: what relates the outgoing cipher c of endpoint p, in call l of  *)
(* the handshake, to the records s it has written.                         *)

OwnKey(p, k) ==
  k = NoKey \/ (k.from = p /\ k.phase \in {"handshake", "application"})

(* No two records of s were sealed with the same key and number.           *)
Distinct(s) ==
  \A i, j \in 1..Len(s) :
    i # j /\ s[i].key # NoKey /\ s[i].key = s[j].key => s[i].seq # s[j].seq

(* The next record c seals has a number its key has not used yet.          *)
Unused(c, s) ==
  \A i \in 1..Len(s) : c.key # NoKey /\ s[i].key = c.key => s[i].seq < c.seq

(* The calls before the first in which an endpoint encrypts.               *)
BeforeKeys(p) ==
  IF p = "client"
    THEN {"sendClientHello", "readServerHello", "readEncryptedExtensions",
          "readCertificate", "readCertificateVerify", "readFinished"}
    ELSE {"readClientHello", "sendServerHello"}

Writes(p, s, c, l) ==
  /\ c = [key |-> c.key, seq |-> c.seq] /\ c.seq \in Nat
  /\ OwnKey(p, c.key)
  /\ \A i \in 1..Len(s) : OwnKey(p, s[i].key) /\ s[i].seq \in Nat
  /\ Distinct(s) /\ Unused(c, s)
  /\ c.key = NoKey => \A i \in 1..Len(s) : s[i].key = NoKey
  /\ l \notin Ended \cup {"done"} =>
       /\ c.key.phase # "application"
       /\ \A i \in 1..Len(s) : s[i].key.phase # "application"
  /\ l \in BeforeKeys(p) => c.key = NoKey

(* A cipher never comes back: its key is new when the cipher is made, and  *)
(* its numbers only grow.                                                  *)
NonceInv ==
  Logs /\ \A p \in Endpoints : Writes(p, log[p], out[p], pc[p])

---------------------------------------------------------------------------
(* Authentication: what a verified signature says of the other endpoint    *)

IsCV(r) == r.body.type = "CertificateVerify"
Signed(p) == \E i \in 1..Len(log[p]) : IsCV(log[p][i])

(* p's peer signed with the key of its certificate, and p accepts its      *)
(* chain where it looks at it.                                             *)
Verified(p) ==
  \/ cfg[p].insecure
  \/ /\ Signed(Peer(p)) /\ cfg[Peer(p)].key = "match"
     /\ (p = "client" \/ cfg[p].clientCAs) => cfg[p].chainOk

ChainAccepted(p) ==
  cfg[p].insecure \/ ((p = "client" \/ cfg[p].clientCAs) => cfg[p].chainOk)

(* A signature is by the key its endpoint is configured with, and follows  *)
(* the certificate.                                                        *)
Signatures ==
  \A p \in Endpoints :
    /\ \A i \in 1..Len(log[p]) :
         IsCV(log[p][i]) => log[p][i].body.proof.key = cfg[p].key /\ cfg[p].cert
    /\ pc[p] = "sendCertificateVerify" => cfg[p].cert
    /\ pc[p] = "readCertificateVerify" => ChainAccepted(p) /\ peerCert[p]

(* The calls a client is in once it has accepted the server's signature.   *)
ClientVerified ==
  {"readFinished", "sendCertificate", "sendCertificateVerify", "sendFinished",
   "done", "closed"}

(* The client's first message is all it sends before it has verified.      *)
ClientOrder ==
  /\ pc["client"] = "sendClientHello" => Len(log["client"]) = 0
  /\ pc["client"] \in BeforeKeys("client") => Len(log["client"]) <= 1
  /\ Len(log["client"]) > 1 \/ pc["client"] \in ClientVerified => Verified("client")

(* The calls a server is in before it has signed.                          *)
ServerUnsigned ==
  {"readClientHello", "sendServerHello", "sendEncryptedExtensions",
   "sendCertificateRequest", "sendCertificate", "sendCertificateVerify"}

(* The server never gives up for a missing certificate after it has signed,*)
(* and does not wait for the last message of a client it asked for a       *)
(* certificate before it has verified it.                                  *)
ServerOrder ==
  /\ pc["server"] \in ServerUnsigned \/ why["server"] = "no certificate" =>
       ~Signed("server")
  /\ RequestsClientCert /\ pc["server"] \in {"readFinished", "done", "closed"} =>
       Verified("server") /\ peerCert["server"]

Auth == Signatures /\ ClientOrder /\ ServerOrder

(* What an endpoint may conclude about the other one from where it is in   *)
(* the handshake: the server has signed before the client goes past its    *)
(* CertificateVerify, a client that was asked has signed before the server *)
(* waits for its Finished, each with the key of an acceptable certificate. *)
AuthInv == TypeOK /\ Logs /\ Auth

=============================================================================
