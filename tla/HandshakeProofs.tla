-------------------------- MODULE HandshakeProofs --------------------------
(***************************************************************************)
(* Theorems about Handshake, for every set of configurations and every     *)
(* value of the bounds: the type invariant, that no SM4-GCM nonce is used  *)
(* twice, and the authentication of each side, ServerAuthenticatedFirst    *)
(* and ClientAuthenticated.                                                *)
(***************************************************************************)
EXTENDS HandshakeInvariants, SequenceTheorems, TLAPS

(* There are two endpoints, each the other one's peer.                     *)
LEMMA EndpointSet ==
  /\ Endpoints = {"client", "server"}
  /\ \A p \in Endpoints : Peer(p) \in Endpoints /\ Peer(p) # p
BY DEF Endpoints, Peer

---------------------------------------------------------------------------
(* Type correctness *)

(* A refusal is for one of the listed reasons.                             *)
LEMMA ReadErrorReason ==
  ASSUME NEW p PROVE ReadError(p) \in Reasons
BY DEF ReadError, Reasons, ClientHelloError, ServerHelloError, CertificateError,
       SignatureError, FinishedError, None

(* A step of an endpoint that has not failed, to a label that is not the   *)
(* failed one, keeps the state well-formed.                                *)
LEMMA TypeMove ==
  ASSUME TypeOK, NEW p \in Endpoints, pc[p] # "failed",
         pc' = pc \/ \E l \in Labels \ {"failed"} : pc' = [pc EXCEPT ![p] = l],
         consumed' = consumed \/ consumed' = [consumed EXCEPT ![p] = @ + 1],
         peerCert' = peerCert \/ peerCert' = [peerCert EXCEPT ![p] = TRUE],
         asked' \in BOOLEAN, UNCHANGED <<cfg, why, faults>>
  PROVE  TypeOK'
<1>1. pc' \in [Endpoints -> Labels]
  BY DEF TypeOK
<1>2. consumed' \in [Endpoints -> Nat]
  BY DEF TypeOK
<1>3. peerCert' \in [Endpoints -> BOOLEAN]
  BY DEF TypeOK
<1>4. \A q \in Endpoints : (pc'[q] = "failed") <=> (why'[q] # None)
  BY DEF TypeOK
<1> QED
  BY <1>1, <1>2, <1>3, <1>4 DEF TypeOK

(* So does a failure that records its reason.                              *)
LEMMA TypeFail ==
  ASSUME TypeOK, NEW p \in Endpoints, NEW reason \in Reasons \ {None},
         pc' = [pc EXCEPT ![p] = "failed"], why' = [why EXCEPT ![p] = reason],
         consumed' = consumed \/ consumed' = [consumed EXCEPT ![p] = @ + 1],
         faults' \in 0..MaxFaults, UNCHANGED <<cfg, peerCert, asked>>
  PROVE  TypeOK'
<1>1. pc' \in [Endpoints -> Labels]
  BY DEF TypeOK, Labels, Ended
<1>2. why' \in [Endpoints -> Reasons]
  BY DEF TypeOK
<1>3. consumed' \in [Endpoints -> Nat]
  BY DEF TypeOK
<1>4. \A q \in Endpoints : (pc'[q] = "failed") <=> (why'[q] # None)
  BY DEF TypeOK
<1> QED
  BY <1>1, <1>2, <1>3, <1>4 DEF TypeOK

(* The initial states are well-formed: nobody has failed yet.              *)
LEMMA TypeInit == Init => TypeOK
<1> SUFFICES ASSUME Init PROVE TypeOK
  OBVIOUS
<1>1. cfg \in [Endpoints -> Config]
  BY ConfigAssumption DEF Init
<1>2. pc \in [Endpoints -> Labels]
  BY DEF Init, Labels, ReadLabels, WriteLabels
<1>3. \A p \in Endpoints : pc[p] # "failed" /\ why[p] = None
  BY DEF Init
<1>4. why \in [Endpoints -> Reasons]
  BY DEF Init, Reasons
<1>5. faults \in 0..MaxFaults
  BY BoundAssumption DEF Init
<1>6. consumed \in [Endpoints -> Nat] /\ peerCert \in [Endpoints -> BOOLEAN] /\ asked \in BOOLEAN
  BY DEF Init
<1> QED
  BY <1>1, <1>2, <1>3, <1>4, <1>5, <1>6 DEF TypeOK

(* No step of an endpoint, its application or the network leaves the shape.*)
LEMMA TypeStep == TypeOK /\ [Next]_vars => TypeOK'
<1> SUFFICES ASSUME TypeOK, [Next]_vars PROVE TypeOK'
  OBVIOUS
<1> USE DEF Labels, ReadLabels, WriteLabels, Ended
<1>a. asked \in BOOLEAN /\ TRUE \in BOOLEAN
  BY DEF TypeOK
<1>1. CASE SendClientHello
  <2>1. /\ pc["client"] = "sendClientHello"
        /\ pc' = [pc EXCEPT !["client"] = "readServerHello"]
        /\ UNCHANGED consumed
        /\ UNCHANGED <<cfg, why, peerCert, asked, faults>>
    BY <1>1 DEF SendClientHello, Goto
  <2> QED
    BY <2>1, <1>a, EndpointSet, TypeMove
<1>2. CASE ReadServerHello
  <2>1. /\ pc["client"] = "readServerHello"
        /\ pc' = [pc EXCEPT !["client"] = "readEncryptedExtensions"]
        /\ consumed' = [consumed EXCEPT !["client"] = @ + 1]
        /\ UNCHANGED <<cfg, why, peerCert, asked, faults>>
    BY <1>2 DEF ReadServerHello, ReadRecord, Goto
  <2> QED
    BY <2>1, <1>a, EndpointSet, TypeMove
<1>3. CASE ReadEncryptedExtensions
  <2>1. /\ pc["client"] = "readEncryptedExtensions"
        /\ pc' = [pc EXCEPT !["client"] = "readCertificate"]
        /\ consumed' = [consumed EXCEPT !["client"] = @ + 1]
        /\ UNCHANGED <<cfg, why, peerCert, asked, faults>>
    BY <1>3 DEF ReadEncryptedExtensions, ReadEncrypted, ReadRecord, Goto
  <2> QED
    BY <2>1, <1>a, EndpointSet, TypeMove
<1>4. CASE ReadCertificateRequest
  <2>1. /\ pc["client"] = "readCertificate"
        /\ UNCHANGED pc
        /\ consumed' = [consumed EXCEPT !["client"] = @ + 1]
        /\ asked' = TRUE
        /\ UNCHANGED <<cfg, why, peerCert, faults>>
    BY <1>4 DEF ReadCertificateRequest, ReadEncrypted, ReadRecord, Goto
  <2> QED
    BY <2>1, <1>a, EndpointSet, TypeMove
<1>5. CASE ClientReadFinished
  <2>1. /\ pc["client"] = "readFinished"
        /\ consumed' = [consumed EXCEPT !["client"] = @ + 1]
        /\ UNCHANGED <<cfg, peerCert, asked, faults>>
    BY <1>5 DEF ClientReadFinished, ReadEncrypted, ReadRecord
  <2>2. CASE asked /\ ~(cfg["client"].cert /\ cfg["client"].key # "nil")
    <3>1. /\ pc' = [pc EXCEPT !["client"] = "failed"]
          /\ why' = [why EXCEPT !["client"] = "no certificate"]
      BY <1>5, <2>2 DEF ClientReadFinished, Goto
    <3> QED
      BY <2>1, <3>1, EndpointSet, TypeFail DEF Reasons, None, TypeOK
  <2>3. CASE ~(asked /\ ~(cfg["client"].cert /\ cfg["client"].key # "nil"))
    <3>1. /\ \/ pc' = [pc EXCEPT !["client"] = "sendCertificate"]
             \/ pc' = [pc EXCEPT !["client"] = "sendFinished"]
          /\ UNCHANGED why
      BY <1>5, <2>3 DEF ClientReadFinished, Goto
    <3> QED
      BY <2>1, <3>1, <1>a, EndpointSet, TypeMove
  <2> QED
    BY <2>2, <2>3
<1>6. CASE ClientSendFinished
  <2>1. /\ pc["client"] = "sendFinished"
        /\ pc' = [pc EXCEPT !["client"] = "done"]
        /\ UNCHANGED consumed
        /\ UNCHANGED <<cfg, why, peerCert, asked, faults>>
    BY <1>6 DEF ClientSendFinished, Goto
  <2> QED
    BY <2>1, <1>a, EndpointSet, TypeMove
<1>7. CASE ReadClientHello
  <2>1. /\ pc["server"] = "readClientHello"
        /\ pc' = [pc EXCEPT !["server"] = "sendServerHello"]
        /\ consumed' = [consumed EXCEPT !["server"] = @ + 1]
        /\ UNCHANGED <<cfg, why, peerCert, asked, faults>>
    BY <1>7 DEF ReadClientHello, ReadRecord, Goto
  <2> QED
    BY <2>1, <1>a, EndpointSet, TypeMove
<1>8. CASE SendServerHello
  <2>1. /\ pc["server"] = "sendServerHello"
        /\ pc' = [pc EXCEPT !["server"] = "sendEncryptedExtensions"]
        /\ UNCHANGED consumed
        /\ UNCHANGED <<cfg, why, peerCert, asked, faults>>
    BY <1>8 DEF SendServerHello, Goto
  <2> QED
    BY <2>1, <1>a, EndpointSet, TypeMove
<1>9. CASE SendEncryptedExtensions
  <2>1. /\ pc["server"] = "sendEncryptedExtensions"
        /\ \E l \in {"sendCertificateRequest", "sendCertificate"} :
              pc' = [pc EXCEPT !["server"] = l]
        /\ UNCHANGED consumed
        /\ UNCHANGED <<cfg, why, peerCert, asked, faults>>
    BY <1>9 DEF SendEncryptedExtensions, Goto
  <2> QED
    BY <2>1, <1>a, EndpointSet, TypeMove
<1>10. CASE SendCertificateRequest
  <2>1. /\ pc["server"] = "sendCertificateRequest"
        /\ pc' = [pc EXCEPT !["server"] = "sendCertificate"]
        /\ UNCHANGED consumed
        /\ UNCHANGED <<cfg, why, peerCert, asked, faults>>
    BY <1>10 DEF SendCertificateRequest, Goto
  <2> QED
    BY <2>1, <1>a, EndpointSet, TypeMove
<1>11. CASE ServerSendFinished
  <2>1. /\ pc["server"] = "sendFinished"
        /\ \E l \in {"readCertificate", "readFinished"} : pc' = [pc EXCEPT !["server"] = l]
        /\ UNCHANGED consumed
        /\ UNCHANGED <<cfg, why, peerCert, asked, faults>>
    BY <1>11 DEF ServerSendFinished, Goto
  <2> QED
    BY <2>1, <1>a, EndpointSet, TypeMove
<1>12. CASE ServerReadFinished
  <2>1. /\ pc["server"] = "readFinished"
        /\ pc' = [pc EXCEPT !["server"] = "done"]
        /\ consumed' = [consumed EXCEPT !["server"] = @ + 1]
        /\ UNCHANGED <<cfg, why, peerCert, asked, faults>>
    BY <1>12 DEF ServerReadFinished, ReadEncrypted, ReadRecord, Goto
  <2> QED
    BY <2>1, <1>a, EndpointSet, TypeMove
<1>13. ASSUME NEW p \in Endpoints, CommonStep(p) PROVE TypeOK'
  <2>1. CASE ReadCertificate(p)
    <3>1. /\ pc[p] = "readCertificate"
          /\ pc' = [pc EXCEPT ![p] = "readCertificateVerify"]
          /\ consumed' = [consumed EXCEPT ![p] = @ + 1]
          /\ peerCert' = [peerCert EXCEPT ![p] = TRUE]
          /\ UNCHANGED <<cfg, why, asked, faults>>
      BY <2>1 DEF ReadCertificate, ReadEncrypted, ReadRecord, Goto
    <3> QED
      BY <3>1, <1>a, TypeMove
  <2>2. CASE ReadCertificateVerify(p)
    <3>1. /\ pc[p] = "readCertificateVerify"
          /\ pc' = [pc EXCEPT ![p] = "readFinished"]
          /\ consumed' = [consumed EXCEPT ![p] = @ + 1]
          /\ UNCHANGED peerCert
          /\ UNCHANGED <<cfg, why, asked, faults>>
      BY <2>2 DEF ReadCertificateVerify, ReadEncrypted, ReadRecord, Goto
    <3> QED
      BY <3>1, <1>a, TypeMove
  <2>3. CASE SendCertificate(p)
    <3>1. /\ pc[p] = "sendCertificate"
          /\ pc' = [pc EXCEPT ![p] = "sendCertificateVerify"]
          /\ UNCHANGED consumed
          /\ UNCHANGED peerCert
          /\ UNCHANGED <<cfg, why, asked, faults>>
      BY <2>3 DEF SendCertificate, Goto
    <3> QED
      BY <3>1, <1>a, TypeMove
  <2>4. CASE SendCertificateVerify(p)
    <3>1. /\ pc[p] = "sendCertificateVerify"
          /\ pc' = [pc EXCEPT ![p] = "sendFinished"]
          /\ UNCHANGED consumed
          /\ UNCHANGED peerCert
          /\ UNCHANGED <<cfg, why, asked, faults>>
      BY <2>4 DEF SendCertificateVerify, Goto
    <3> QED
      BY <3>1, <1>a, TypeMove
  <2>5. CASE Read(p)
    <3>1. /\ pc[p] = "done"
          /\ UNCHANGED pc
          /\ consumed' = [consumed EXCEPT ![p] = @ + 1]
          /\ UNCHANGED peerCert
          /\ UNCHANGED <<cfg, why, asked, faults>>
      BY <2>5 DEF Read, ReadRecord, Goto
    <3> QED
      BY <3>1, <1>a, TypeMove
  <2>6. CASE Refuse(p)
    <3>1. ReadError(p) \in Reasons \ {None}
      BY <2>6, ReadErrorReason DEF Refuse
    <3> QED
      BY <2>6, <3>1, TypeFail DEF Refuse, Fail, Goto, conn, wire, TypeOK
  <2>7. CASE CannotSend(p)
    BY <2>7, TypeFail DEF CannotSend, Fail, Goto, conn, wire, Reasons, None, TypeOK
  <2>8. CASE PeerGone(p)
    BY <2>8, TypeFail DEF PeerGone, Fail, Goto, conn, wire, Reasons, None, TypeOK
  <2> QED
    BY <1>13, <2>1, <2>2, <2>3, <2>4, <2>5, <2>6, <2>7, <2>8 DEF CommonStep
<1>14. ASSUME NEW p \in Endpoints, Environment(p) PROVE TypeOK'
  <2>1. CASE Write(p)
    BY <2>1, <1>a, TypeMove DEF Write
  <2>2. CASE Close(p)
    BY <2>2, <1>a, TypeMove DEF Close, Goto, conn, wire
  <2>3. CASE TransportFault(p)
    <3>1. faults' \in 0..MaxFaults
      BY <2>3, BoundAssumption DEF TransportFault, TypeOK
    <3> QED
      BY <2>3, <3>1, TypeFail DEF TransportFault, Fail, Goto, conn, wire, Reasons, None
  <2> QED
    BY <1>14, <2>1, <2>2, <2>3 DEF Environment
<1>15. CASE UNCHANGED vars
  BY <1>15 DEF vars, conn, wire, TypeOK
<1> QED
  BY <1>1, <1>2, <1>3, <1>4, <1>5, <1>6, <1>7, <1>8, <1>9, <1>10, <1>11, <1>12, <1>13, <1>14, <1>15
     DEF Next, ClientStep, ServerStep, Terminated

(* Every reachable state has the shape TypeOK describes; in particular an  *)
(* endpoint is in the failed state exactly when it has recorded an error.  *)
THEOREM TypeCorrect == Spec => []TypeOK
<1>1. Init => TypeOK
  BY TypeInit
<1>2. TypeOK /\ [Next]_vars => TypeOK'
  BY TypeStep
<1> QED
  BY <1>1, <1>2, PTL DEF Spec

---------------------------------------------------------------------------
(* No nonce is used twice *)

(* Append, for sequences whose elements have no common type.               *)
LEMMA AppendSequence ==
  ASSUME NEW s, IsSequence(s), NEW r
  PROVE  /\ IsSequence(Append(s, r))
         /\ Len(Append(s, r)) = Len(s) + 1
         /\ \A i \in 1..Len(s) : Append(s, r)[i] = s[i]
         /\ Append(s, r)[Len(s) + 1] = r
<1> DEFINE T == {s[i] : i \in 1..Len(s)} \cup {r}
<1>1. s \in [1..Len(s) -> T]
  BY DEF IsSequence
<1>2. s \in Seq(T)
  BY <1>1 DEF IsSequence
<1>3. /\ Append(s, r) \in Seq(T)
      /\ Len(Append(s, r)) = Len(s) + 1
      /\ \A i \in 1..Len(s) : Append(s, r)[i] = s[i]
      /\ Append(s, r)[Len(s) + 1] = r
  BY <1>2, AppendProperties
<1>4. IsSequence(Append(s, r))
  BY <1>3, LenProperties DEF IsSequence
<1> QED
  BY <1>3, <1>4

(* A cipher under a key no record was sealed with yet.                     *)
LEMMA FreshUnused ==
  ASSUME NEW s, NEW k, \A i \in 1..Len(s) : s[i].key # k
  PROVE  Unused(Fresh(k), s)
BY DEF Unused, Fresh

(* What tells the keys of the two phases and directions apart.             *)
LEMMA KeyFacts ==
  ASSUME NEW k, NEW from
  PROVE  /\ HandshakeKey(k, from) # NoKey /\ HandshakeKey(k, from).phase = "handshake"
         /\ HandshakeKey(k, from).from = from
         /\ AppKey(k, from) # NoKey /\ AppKey(k, from).phase = "application"
         /\ AppKey(k, from).from = from
         /\ NoKey.phase = "none"
         /\ Fresh(k) = [key |-> k, seq |-> 0]
BY DEF HandshakeKey, AppKey, NoKey, None, Fresh

(* Three ways an endpoint goes on; Writes says what it has to know.        *)

(* It writes nothing, and changes no cipher.                               *)
LEMMA WritesMove ==
  ASSUME NEW p, NEW s, NEW c, NEW l, NEW m, Writes(p, s, c, l),
         l \notin Ended \cup {"done"} \/ m \in Ended \cup {"done"},
         m \in BeforeKeys(p) => l \in BeforeKeys(p)
  PROVE  Writes(p, s, c, m)
BY DEF Writes

(* It seals a record with the cipher it has.                               *)
LEMMA WritesSeal ==
  ASSUME NEW p, NEW s, NEW c, NEW l, NEW m, NEW body, NEW t,
         IsSequence(s), Writes(p, s, c, l), t = Append(s, Seal(c, body)),
         l \notin Ended \cup {"done"} \/ m \in Ended \cup {"done"},
         m \in BeforeKeys(p) => l \in BeforeKeys(p)
  PROVE  Writes(p, t, Advance(c), m)
<1>1. /\ IsSequence(t) /\ Len(t) = Len(s) + 1 /\ Len(s) \in Nat
      /\ \A i \in 1..Len(s) : t[i] = s[i]
      /\ t[Len(s) + 1].key = c.key /\ t[Len(s) + 1].seq = c.seq
  BY AppendSequence DEF Seal, IsSequence
<1>2. \A i \in 1..Len(t) : i \in 1..Len(s) \/ i = Len(s) + 1
  BY <1>1
<1>3. Distinct(t)
  BY <1>1, <1>2 DEF Distinct, Writes, Unused
<1>4. Unused(Advance(c), t)
  <2>1. CASE c.key = NoKey
    BY <2>1 DEF Unused, Advance
  <2>2. CASE c.key # NoKey
    <3>1. Advance(c).key = c.key /\ Advance(c).seq = c.seq + 1 /\ c.seq \in Nat
      BY <2>2 DEF Advance, Writes
    <3>2. \A i \in 1..Len(s) : s[i].key = c.key => s[i].seq < c.seq
      BY <2>2 DEF Writes, Unused
    <3>3. ASSUME NEW i \in 1..Len(t), t[i].key = c.key PROVE t[i].seq < c.seq + 1
      <4>1. CASE i \in 1..Len(s)
        <5>1. s[i].seq < c.seq
          BY <4>1, <3>2, <3>3, <1>1
        <5>2. t[i].seq = s[i].seq /\ s[i].seq \in Nat
          BY <4>1, <1>1 DEF Writes
        <5> QED
          BY <5>1, <5>2, <3>1
      <4>2. CASE i = Len(s) + 1
        BY <4>2, <3>1, <1>1
      <4> QED
        BY <4>1, <4>2, <1>2
    <3> QED
      BY <3>1, <3>3 DEF Unused
  <2> QED
    BY <2>1, <2>2
<1>5. \A i \in 1..Len(t) : OwnKey(p, t[i].key) /\ t[i].seq \in Nat
  BY <1>1, <1>2 DEF Writes
<1>6. \A i \in 1..Len(t) : t[i].key = c.key \/ (i \in 1..Len(s) /\ t[i] = s[i])
  BY <1>1, <1>2
<1>7. /\ Advance(c).key = c.key /\ Advance(c).seq \in Nat
      /\ Advance(c) = [key |-> Advance(c).key, seq |-> Advance(c).seq]
  <2>1. c = [key |-> c.key, seq |-> c.seq] /\ c.seq \in Nat
    BY DEF Writes
  <2>2. CASE c.key = NoKey
    BY <2>1, <2>2 DEF Advance
  <2>3. CASE c.key # NoKey
    <3>1. Advance(c) = [key |-> c.key, seq |-> c.seq + 1]
      BY <2>1, <2>3 DEF Advance
    <3> QED
      BY <2>1, <3>1
  <2> QED
    BY <2>2, <2>3
<1>8. OwnKey(p, c.key) /\ (m \in BeforeKeys(p) => c.key = NoKey)
  BY DEF Writes
<1>9. c.key = NoKey => \A i \in 1..Len(t) : t[i].key = NoKey
  BY <1>6 DEF Writes
<1>10. m \notin Ended \cup {"done"} =>
        c.key.phase # "application" /\ \A i \in 1..Len(t) : t[i].key.phase # "application"
  BY <1>6 DEF Writes
<1> QED
  BY <1>3, <1>4, <1>5, <1>7, <1>8, <1>9, <1>10 DEF Writes

(* It turns to a cipher under a new key of its own.                        *)
LEMMA WritesRekey ==
  ASSUME NEW p, NEW s, NEW c, NEW l, NEW m, NEW k, Writes(p, s, c, l),
         OwnKey(p, k), k # NoKey, \A i \in 1..Len(s) : s[i].key # k,
         m \notin BeforeKeys(p),
         \/ m \in Ended \cup {"done"}
         \/ k.phase # "application" /\ l \notin Ended \cup {"done"}
  PROVE  Writes(p, s, Fresh(k), m)
<1>1. Unused(Fresh(k), s)
  BY FreshUnused
<1>2. Fresh(k) = [key |-> k, seq |-> 0] /\ Fresh(k).key = k /\ Fresh(k).seq = 0
  BY DEF Fresh
<1> QED
  BY <1>1, <1>2 DEF Writes

(* An endpoint's step, seen from the two logs.                             *)
LEMMA NonceMove ==
  ASSUME NonceInv, NEW p \in Endpoints, IsPair(log'), IsPair(out'),
         \A q \in Endpoints : q # p => /\ log'[q] = log[q] /\ out'[q] = out[q]
                                       /\ pc'[q] = pc[q],
         IsSequence(log'[p]), Writes(p, log'[p], out'[p], pc'[p])
  PROVE  NonceInv'
<1>1. \A q \in Endpoints : IsSequence(log'[q]) /\ Writes(q, log'[q], out'[q], pc'[q])
  BY DEF NonceInv, Logs
<1> QED
  BY <1>1 DEF NonceInv, Logs

(* Initially nothing is written.                                           *)
LEMMA NonceInit == Init => NonceInv
<1> SUFFICES ASSUME Init PROVE NonceInv
  OBVIOUS
<1>1. \A p \in Endpoints : log[p] = <<>> /\ out[p] = NoCipher
  BY DEF Init
<1>2. IsSequence(<<>>)
  BY DEF IsSequence
<1>3. IsPair(log) /\ IsPair(out)
  BY DEF Init, IsPair
<1>4. \A p, l : Writes(p, <<>>, NoCipher, l)
  BY DEF Writes, NoCipher, NoKey, OwnKey, Distinct, Unused, None
<1> QED
  BY <1>1, <1>2, <1>3, <1>4 DEF NonceInv, Logs

(* An endpoint moves on, and neither log nor cipher changes.               *)
LEMMA NonceQuiet ==
  ASSUME TypeOK, NonceInv, NEW p \in Endpoints, NEW m, UNCHANGED <<log, out>>,
         pc' = [pc EXCEPT ![p] = m],
         pc[p] \notin Ended \cup {"done"} \/ m \in Ended \cup {"done"},
         m \in BeforeKeys(p) => pc[p] \in BeforeKeys(p)
  PROVE  NonceInv'
<1>1. pc'[p] = m /\ \A q \in Endpoints : q # p => pc'[q] = pc[q]
  BY DEF TypeOK
<1>2. Writes(p, log[p], out[p], pc[p])
  BY DEF NonceInv
<1>3. Writes(p, log[p], out[p], m)
  BY <1>2, WritesMove
<1> QED
  BY <1>1, <1>3, NonceMove DEF NonceInv, Logs

(* An endpoint writes one record with the cipher it has.                   *)
LEMMA NonceWrite ==
  ASSUME TypeOK, NonceInv, NEW p \in Endpoints, NEW m, NEW body,
         WriteRecord(p, out[p], body), pc' = [pc EXCEPT ![p] = m],
         pc[p] \notin Ended \cup {"done"} \/ m \in Ended \cup {"done"},
         m \in BeforeKeys(p) => pc[p] \in BeforeKeys(p)
  PROVE  NonceInv'
<1>1. pc'[p] = m /\ \A q \in Endpoints : q # p => pc'[q] = pc[q]
  BY DEF TypeOK
<1>2. Writes(p, log[p], out[p], pc[p]) /\ IsSequence(log[p])
  BY DEF NonceInv, Logs
<1>3. /\ log'[p] = Append(log[p], Seal(out[p], body)) /\ out'[p] = Advance(out[p])
      /\ IsPair(log') /\ IsPair(out')
      /\ \A q \in Endpoints : q # p => log'[q] = log[q] /\ out'[q] = out[q]
  BY DEF WriteRecord, NonceInv, Logs, IsPair
<1>4. Writes(p, log'[p], out'[p], m)
  BY <1>2, <1>3, WritesSeal
<1>5. IsSequence(log'[p])
  BY <1>2, <1>3, AppendSequence
<1> QED
  BY <1>1, <1>3, <1>4, <1>5, NonceMove

(* The cipher of sendFinishedTLS13 is usable: either the one in place, or a*)
(* new one, and then nothing has been encrypted yet.                       *)
LEMMA FinishedWrites ==
  ASSUME NonceInv, NEW p \in Endpoints, pc[p] = "sendFinished"
  PROVE  Writes(p, log[p], FinishedCipher(p), "sendFinished")
<1>1. Writes(p, log[p], out[p], "sendFinished")
  BY DEF NonceInv
<1>2. CASE out[p].key = NoKey
  <2>1. \A i \in 1..Len(log[p]) : log[p][i].key # HandshakeKey(keys[p], p)
    BY <1>1, <1>2, KeyFacts DEF Writes
  <2> QED
    BY <1>1, <1>2, <2>1, KeyFacts, WritesRekey
       DEF FinishedCipher, OwnKey, Ended, BeforeKeys
<1>3. CASE out[p].key # NoKey
  BY <1>1, <1>3 DEF FinishedCipher
<1> QED
  BY <1>2, <1>3

(* The calls that change the outgoing cipher: first, the one in which the  *)
(* client learns that it is asked for a certificate.                       *)
LEMMA NonceClientReadFinished ==
  ASSUME TypeOK, NonceInv, ClientReadFinished PROVE NonceInv'
<1> DEFINE k == [keys["client"] EXCEPT !.finished = transcript'["client"]]
           key == HandshakeKey(k, "client")
<1>1. /\ pc["client"] = "readFinished" /\ UNCHANGED log
      /\ \A q \in Endpoints : q # "client" => pc'[q] = pc[q] /\ out'[q] = out[q]
      /\ IsPair(log) /\ IsSequence(log["client"]) /\ IsPair(out')
      /\ pc'["client"] \in {"failed", "sendCertificate", "sendFinished"}
      /\ \/ out'["client"] = out["client"]
         \/ (pc'["client"] = "sendCertificate" /\ out'["client"] = Fresh(key))
  BY DEF ClientReadFinished, Goto, TypeOK, NonceInv, Logs, Endpoints, IsPair
<1>2. Writes("client", log["client"], out["client"], "readFinished")
  BY <1>1, EndpointSet DEF NonceInv
<1>3. CASE out'["client"] = out["client"]
  <2>1. Writes("client", log["client"], out["client"], pc'["client"])
    BY <1>1, <1>2, WritesMove DEF BeforeKeys, Ended
  <2> QED
    BY <1>1, <1>3, <2>1, EndpointSet, NonceMove
<1>4. CASE pc'["client"] = "sendCertificate" /\ out'["client"] = Fresh(key)
  <2>1. OwnKey("client", key) /\ key # NoKey /\ key.phase # "application"
    BY KeyFacts DEF OwnKey
  <2>2. \A i \in 1..Len(log["client"]) : log["client"][i].key # key
    BY <1>2, <2>1 DEF Writes, BeforeKeys
  <2> HIDE DEF key
  <2>3. Writes("client", log["client"], Fresh(key), "sendCertificate")
    BY <1>2, <2>1, <2>2, WritesRekey DEF BeforeKeys, Ended
  <2> QED
    BY <1>1, <1>4, <2>3, EndpointSet, NonceMove
<1> QED
  BY <1>1, <1>3, <1>4

(* sendFinishedTLS13 of the client, and then its application key.          *)
LEMMA NonceClientSendFinished ==
  ASSUME TypeOK, NonceInv, ClientSendFinished PROVE NonceInv'
<1> DEFINE c == FinishedCipher("client")
           t == Append(log["client"], Seal(c, Finished("client")))
           key == AppKey(keys["client"], "client")
<1>1. /\ pc["client"] = "sendFinished" /\ pc'["client"] = "done"
      /\ \A q \in Endpoints : q # "client" => /\ pc'[q] = pc[q] /\ out'[q] = out[q]
                                             /\ log'[q] = log[q]
      /\ IsSequence(log["client"]) /\ IsPair(out') /\ IsPair(log')
      /\ log'["client"] = t /\ out'["client"] = Fresh(key)
  BY DEF ClientSendFinished, Goto, TypeOK, NonceInv, Logs, Endpoints, IsPair
<1>2. Writes("client", log["client"], c, "sendFinished")
  BY <1>1, EndpointSet, FinishedWrites
<1>3. IsSequence(t)
  BY <1>1, AppendSequence
<1>4. Writes("client", t, Advance(c), "sendFinished")
  BY <1>1, <1>2, WritesSeal
<1>5. OwnKey("client", key) /\ key # NoKey /\ key.phase = "application"
  BY KeyFacts DEF OwnKey
<1> HIDE DEF c, t, key
<1>6. \A i \in 1..Len(t) : t[i].key # key
  BY <1>4, <1>5 DEF Writes, Ended
<1>7. Writes("client", t, Fresh(key), "done")
  BY <1>4, <1>5, <1>6, WritesRekey DEF BeforeKeys, Ended
<1> QED
  BY <1>1, <1>3, <1>7, EndpointSet, NonceMove

(* The ServerHello in the clear, and then the handshake key.               *)
LEMMA NonceSendServerHello ==
  ASSUME TypeOK, NonceInv, SendServerHello PROVE NonceInv'
<1>1. PICK body, k :
        /\ log' = [log EXCEPT !["server"] = Append(@, Seal(out["server"], body))]
        /\ out' = [out EXCEPT !["server"] = Fresh(HandshakeKey(k, "server"))]
  BY DEF SendServerHello
<1> DEFINE t == Append(log["server"], Seal(out["server"], body))
           key == HandshakeKey(k, "server")
<1>2. /\ pc["server"] = "sendServerHello" /\ pc'["server"] = "sendEncryptedExtensions"
      /\ \A q \in Endpoints : q # "server" => /\ pc'[q] = pc[q] /\ out'[q] = out[q]
                                             /\ log'[q] = log[q]
      /\ IsSequence(log["server"]) /\ IsPair(out') /\ IsPair(log')
      /\ log'["server"] = t /\ out'["server"] = Fresh(key)
  BY <1>1 DEF SendServerHello, Goto, TypeOK, NonceInv, Logs, Endpoints, IsPair
<1>3. /\ Writes("server", log["server"], out["server"], "sendServerHello")
      /\ out["server"].key = NoKey
  BY <1>2, EndpointSet DEF NonceInv, Writes, BeforeKeys
<1>4. IsSequence(t)
  BY <1>2, AppendSequence
<1>5. Writes("server", t, Advance(out["server"]), "sendServerHello")
  BY <1>2, <1>3, WritesSeal
<1>6. OwnKey("server", key) /\ key # NoKey /\ key.phase # "application"
  BY KeyFacts DEF OwnKey
<1> HIDE DEF t, key
<1>7. \A i \in 1..Len(t) : t[i].key # key
  BY <1>3, <1>5, <1>6 DEF Writes, Advance
<1>8. Writes("server", t, Fresh(key), "sendEncryptedExtensions")
  BY <1>5, <1>6, <1>7, WritesRekey DEF BeforeKeys, Ended
<1> QED
  BY <1>2, <1>4, <1>8, EndpointSet, NonceMove

(* sendFinishedTLS13 of the server, under the cipher in place.             *)
LEMMA NonceServerSendFinished ==
  ASSUME TypeOK, NonceInv, ServerSendFinished PROVE NonceInv'
<1> DEFINE c == FinishedCipher("server")
           t == Append(log["server"], Seal(c, Finished("server")))
<1>1. /\ pc["server"] = "sendFinished" /\ pc'["server"] \in {"readCertificate", "readFinished"}
      /\ \A q \in Endpoints : q # "server" => /\ pc'[q] = pc[q] /\ out'[q] = out[q]
                                             /\ log'[q] = log[q]
      /\ IsSequence(log["server"]) /\ IsPair(out') /\ IsPair(log')
      /\ log'["server"] = t /\ out'["server"] = Advance(c)
  BY DEF ServerSendFinished, WriteRecord, Goto, TypeOK, NonceInv, Logs, Endpoints, IsPair
<1>2. Writes("server", log["server"], c, "sendFinished")
  BY <1>1, EndpointSet, FinishedWrites
<1>3. IsSequence(t)
  BY <1>1, AppendSequence
<1>4. Writes("server", t, Advance(c), pc'["server"])
  BY <1>1, <1>2, WritesSeal DEF BeforeKeys, Ended
<1> QED
  BY <1>1, <1>3, <1>4, EndpointSet, NonceMove

(* readFinishedTLS13 of the server, and then its application key.          *)
LEMMA NonceServerReadFinished ==
  ASSUME TypeOK, NonceInv, ServerReadFinished PROVE NonceInv'
<1> DEFINE key == AppKey(keys["server"], "server")
<1>1. /\ pc["server"] = "readFinished" /\ pc'["server"] = "done" /\ UNCHANGED log
      /\ \A q \in Endpoints : q # "server" => pc'[q] = pc[q] /\ out'[q] = out[q]
      /\ IsSequence(log["server"]) /\ IsPair(out') /\ IsPair(log)
      /\ out'["server"] = Fresh(key)
  BY DEF ServerReadFinished, Goto, TypeOK, NonceInv, Logs, Endpoints, IsPair
<1>2. Writes("server", log["server"], out["server"], "readFinished")
  BY <1>1, EndpointSet DEF NonceInv
<1>3. OwnKey("server", key) /\ key # NoKey /\ key.phase = "application"
  BY KeyFacts DEF OwnKey
<1> HIDE DEF key
<1>4. \A i \in 1..Len(log["server"]) : log["server"][i].key # key
  BY <1>2, <1>3 DEF Writes, Ended
<1>5. Writes("server", log["server"], Fresh(key), "done")
  BY <1>2, <1>3, <1>4, WritesRekey DEF BeforeKeys, Ended
<1> QED
  BY <1>1, <1>5, EndpointSet, NonceMove

(* Every step keeps the invariant.                                         *)
LEMMA NonceStep == TypeOK /\ NonceInv /\ [Next]_vars => NonceInv'
<1> SUFFICES ASSUME TypeOK, NonceInv, [Next]_vars PROVE NonceInv'
  OBVIOUS
<1> USE EndpointSet DEF Goto
<1>0. ASSUME UNCHANGED <<pc, log, out>> PROVE NonceInv'
  BY <1>0 DEF NonceInv, Logs
<1>1. CASE SendClientHello
  BY <1>1, NonceWrite DEF SendClientHello, BeforeKeys, Ended
<1>2. CASE ReadServerHello
  BY <1>2, NonceQuiet DEF ReadServerHello, BeforeKeys, Ended
<1>3. CASE ReadEncryptedExtensions
  BY <1>3, NonceQuiet DEF ReadEncryptedExtensions, BeforeKeys, Ended
<1>4. CASE ReadCertificateRequest
  BY <1>4, <1>0 DEF ReadCertificateRequest
<1>5. CASE ClientReadFinished
  BY <1>5, NonceClientReadFinished
<1>6. CASE ClientSendFinished
  BY <1>6, NonceClientSendFinished
<1>7. CASE ReadClientHello
  BY <1>7, NonceQuiet DEF ReadClientHello, BeforeKeys, Ended
<1>8. CASE SendServerHello
  BY <1>8, NonceSendServerHello
<1>9. CASE SendEncryptedExtensions
  BY <1>9, NonceWrite DEF SendEncryptedExtensions, BeforeKeys, Ended
<1>10. CASE SendCertificateRequest
  BY <1>10, NonceWrite DEF SendCertificateRequest, BeforeKeys, Ended
<1>11. CASE ServerSendFinished
  BY <1>11, NonceServerSendFinished
<1>12. CASE ServerReadFinished
  BY <1>12, NonceServerReadFinished
<1>13. ASSUME NEW p \in Endpoints, CommonStep(p) PROVE NonceInv'
  <2>1. CASE ReadCertificate(p)
    BY <2>1, NonceQuiet DEF ReadCertificate, BeforeKeys, Ended
  <2>2. CASE ReadCertificateVerify(p)
    BY <2>2, NonceQuiet DEF ReadCertificateVerify, BeforeKeys, Ended
  <2>3. CASE SendCertificate(p)
    BY <2>3, NonceWrite DEF SendCertificate, BeforeKeys, Ended
  <2>4. CASE SendCertificateVerify(p)
    BY <2>4, NonceWrite DEF SendCertificateVerify, BeforeKeys, Ended
  <2>5. CASE Refuse(p) \/ CannotSend(p) \/ PeerGone(p)
    BY <2>5, NonceQuiet DEF Refuse, CannotSend, PeerGone, Fail, conn, wire, BeforeKeys, Ended
  <2>6. CASE Read(p)
    BY <2>6, <1>0 DEF Read
  <2> QED
    BY <1>13, <2>1, <2>2, <2>3, <2>4, <2>5, <2>6 DEF CommonStep
<1>14. ASSUME NEW p \in Endpoints, Environment(p) PROVE NonceInv'
  <2>1. CASE Write(p)
    <3>1. pc' = [pc EXCEPT ![p] = "done"] /\ pc[p] = "done"
      BY <2>1 DEF Write, TypeOK
    <3> QED
      BY <2>1, <3>1, NonceWrite DEF Write
  <2>2. CASE Close(p)
    BY <2>2, NonceQuiet DEF Close, conn, wire, BeforeKeys, Ended
  <2>3. CASE TransportFault(p)
    BY <2>3, NonceQuiet DEF TransportFault, Fail, conn, wire, BeforeKeys, Ended
  <2> QED
    BY <1>14, <2>1, <2>2, <2>3 DEF Environment
<1>15. CASE UNCHANGED vars
  BY <1>15, <1>0 DEF vars, conn, wire
<1> QED
  BY <1>1, <1>2, <1>3, <1>4, <1>5, <1>6, <1>7, <1>8, <1>9, <1>10, <1>11, <1>12,
     <1>13, <1>14, <1>15 DEF Next, ClientStep, ServerStep, Terminated

(* The invariant is strong enough: the keys of the two writers differ.     *)
LEMMA NonceInvImplies == NonceInv => NoncesUnique
<1> SUFFICES ASSUME NonceInv, NEW p \in Endpoints, NEW q \in Endpoints,
                    NEW i \in 1..Len(log[p]), NEW j \in 1..Len(log[q]),
                    <<p, i>> # <<q, j>>, log[p][i].key # NoKey,
                    log[p][i].key = log[q][j].key
             PROVE  log[p][i].seq # log[q][j].seq
  BY DEF NoncesUnique
<1>1. OwnKey(p, log[p][i].key) /\ OwnKey(q, log[q][j].key) /\ Distinct(log[p])
  BY DEF NonceInv, Writes
<1>2. p = q
  BY <1>1 DEF OwnKey
<1> QED
  BY <1>1, <1>2 DEF Distinct

(* No key seals two records with one sequence number: FinishedCipher and   *)
(* the re-creations of the ciphers around it (conn.go) never bring back a  *)
(* nonce, whatever the two configurations, and however long the endpoints  *)
(* write afterwards.                                                       *)
THEOREM NoncesAreUnique == Spec => []NoncesUnique
<1>1. Init => TypeOK /\ NonceInv
  BY TypeInit, NonceInit
<1>2. TypeOK /\ NonceInv /\ [Next]_vars => (TypeOK /\ NonceInv)'
  BY TypeStep, NonceStep
<1>3. TypeOK /\ NonceInv => NoncesUnique
  BY NonceInvImplies
<1> QED
  BY <1>1, <1>2, <1>3, PTL DEF Spec

(* What each endpoint's cipher and its records have to do with each other  *)
(* holds at every step, of all configurations (writeRecord, Encrypt and the*)
(* places that install ciphers).                                           *)
THEOREM NonceInvariant == Spec => []NonceInv
<1>1. Init => TypeOK /\ NonceInv
  BY TypeInit, NonceInit
<1>2. TypeOK /\ NonceInv /\ [Next]_vars => (TypeOK /\ NonceInv)'
  BY TypeStep, NonceStep
<1> QED
  BY <1>1, <1>2, PTL DEF Spec

---------------------------------------------------------------------------
(* Authentication: ServerAuthenticatedFirst and ClientAuthenticated        *)

(* What an accepted Certificate has passed.                                *)
LEMMA CertificateAccepted ==
  ASSUME NEW p, pc[p] = "readCertificate", Accepts(p, "Certificate")
  PROVE  ChainAccepted(p)
<1>1. CertificateError(p) = None
  BY DEF Accepts, ReadError, None
<1> QED
  BY <1>1 DEF CertificateError, ChainAccepted, None

(* What an accepted CertificateVerify shows: the other endpoint has signed *)
(* with the key of its certificate.                                        *)
LEMMA SignatureAccepted ==
  ASSUME TypeOK, Logs, Signatures, NEW p \in Endpoints,
         pc[p] = "readCertificateVerify", Accepts(p, "CertificateVerify")
  PROVE  Verified(p)
<1>1. SignatureError(p, Msg(p)) = None
  BY DEF Accepts, ReadError, None
<1>2. ChainAccepted(p)
  BY DEF Signatures
<1>3. CASE cfg[p].insecure
  BY <1>3 DEF Verified
<1>4. CASE ~cfg[p].insecure
  <2> DEFINE i == consumed[p] + 1
  <2>1. Msg(p).proof.key = "match" /\ Msg(p).type = "CertificateVerify"
    BY <1>1, <1>4 DEF SignatureError, Accepts, None
  <2>2. i \in 1..Len(log[Peer(p)]) /\ Peer(p) \in Endpoints
    BY EndpointSet DEF Accepts, Pending, TypeOK, Logs, IsSequence
  <2>3. IsCV(log[Peer(p)][i]) /\ log[Peer(p)][i].body.proof.key = "match"
    BY <2>1 DEF IsCV, Msg, NextRecord
  <2>4. cfg[Peer(p)].key = "match" /\ Signed(Peer(p))
    BY <2>2, <2>3 DEF Signatures, Signed
  <2> QED
    BY <1>2, <1>4, <2>4 DEF Verified, ChainAccepted
<1> QED
  BY <1>3, <1>4

(* A log that grows by one record.                                         *)
LEMMA SignedGrows ==
  ASSUME NEW p \in Endpoints, Logs, NEW r, log'[p] = Append(log[p], r)
  PROVE  /\ Len(log'[p]) = Len(log[p]) + 1
         /\ \A i \in 1..Len(log'[p]) :
              (i \in 1..Len(log[p]) /\ log'[p][i] = log[p][i]) \/ log'[p][i] = r
         /\ Signed(p) => Signed(p)'
         /\ Signed(p)' => Signed(p) \/ IsCV(r)
<1>1. /\ Len(log'[p]) = Len(log[p]) + 1 /\ Len(log[p]) \in Nat
      /\ \A i \in 1..Len(log[p]) : log'[p][i] = log[p][i]
      /\ log'[p][Len(log[p]) + 1] = r
  BY AppendSequence DEF Logs, IsSequence
<1>2. \A i \in 1..Len(log'[p]) : i \in 1..Len(log[p]) \/ i = Len(log[p]) + 1
  BY <1>1
<1>3. \A i \in 1..Len(log[p]) : i \in 1..Len(log'[p])
  BY <1>1
<1> QED
  BY <1>1, <1>2, <1>3 DEF Signed, IsCV

(* A client step keeps the invariant when the server stays as it is and the*)
(* client has verified by the time it says so.                             *)
LEMMA ClientMoves ==
  ASSUME TypeOK, Logs, Auth, NEW m, m # "sendClientHello",
         UNCHANGED cfg, pc' = [pc EXCEPT !["client"] = m],
         why'["server"] = why["server"], peerCert'["server"] = peerCert["server"],
         log'["server"] = log["server"],
         \/ log'["client"] = log["client"]
         \/ \E r : /\ log'["client"] = Append(log["client"], r)
                   /\ IsCV(r) => /\ r.body.proof.key = cfg["client"].key
                                 /\ cfg["client"].cert
                   /\ pc["client"] = "sendClientHello" \/ Verified("client")
                   /\ m \in BeforeKeys("client") => pc["client"] = "sendClientHello",
         m \in BeforeKeys("client") => pc["client"] \in BeforeKeys("client"),
         m \in ClientVerified => Verified("client"),
         m = "sendCertificateVerify" => cfg["client"].cert,
         m = "readCertificateVerify" => ChainAccepted("client") /\ peerCert'["client"]
  PROVE  Auth'
<1>1. pc'["client"] = m /\ pc'["server"] = pc["server"]
  BY EndpointSet DEF TypeOK
<1>2. Signed("server")' <=> Signed("server")
  BY DEF Signed, IsCV
<1>3. Signed("client") => Signed("client")'
  <2>1. CASE log'["client"] = log["client"]
    BY <2>1 DEF Signed, IsCV
  <2>2. CASE log'["client"] # log["client"]
    <3>1. PICK r : log'["client"] = Append(log["client"], r)
      BY <2>2
    <3> QED
      BY <3>1, EndpointSet, SignedGrows
  <2> QED
    BY <2>1, <2>2
<1>4. /\ Verified("client") => Verified("client")'
      /\ Verified("server") => Verified("server")'
      /\ ChainAccepted("client")' <=> ChainAccepted("client")
      /\ ChainAccepted("server")' <=> ChainAccepted("server")
  BY <1>2, <1>3, EndpointSet DEF Verified, ChainAccepted, Peer
<1>5. ServerOrder'
  BY <1>1, <1>2, <1>4 DEF ServerOrder, Auth, RequestsClientCert
<1>6. Signatures'
  <2>1. \A i \in 1..Len(log'["client"]) : IsCV(log'["client"][i]) =>
          log'["client"][i].body.proof.key = cfg["client"].key /\ cfg["client"].cert
    <3>1. CASE log'["client"] = log["client"]
      BY <3>1, EndpointSet DEF Auth, Signatures
    <3>2. CASE log'["client"] # log["client"]
      <4>1. PICK r : /\ log'["client"] = Append(log["client"], r)
                     /\ IsCV(r) => /\ r.body.proof.key = cfg["client"].key
                                   /\ cfg["client"].cert
        BY <3>2
      <4>2. \A i \in 1..Len(log'["client"]) :
              \/ i \in 1..Len(log["client"]) /\ log'["client"][i] = log["client"][i]
              \/ log'["client"][i] = r
        BY <4>1, EndpointSet, SignedGrows
      <4> QED
        BY <4>1, <4>2, EndpointSet DEF Auth, Signatures
    <3> QED
      BY <3>1, <3>2
  <2>2. /\ \A i \in 1..Len(log'["server"]) : IsCV(log'["server"][i]) =>
             log'["server"][i].body.proof.key = cfg["server"].key /\ cfg["server"].cert
        /\ pc'["server"] = "sendCertificateVerify" => cfg["server"].cert
        /\ pc'["server"] = "readCertificateVerify" =>
             ChainAccepted("server") /\ peerCert'["server"]
    BY <1>1, EndpointSet DEF Auth, Signatures
  <2> QED
    BY <1>1, <1>4, <2>1, <2>2, EndpointSet DEF Signatures, IsCV
<1>7. ClientOrder'
  <2>1. CASE log'["client"] = log["client"]
    BY <2>1, <1>1, <1>4 DEF ClientOrder, Auth
  <2>2. CASE log'["client"] # log["client"]
    <3>1. Len(log'["client"]) = Len(log["client"]) + 1 /\ Len(log["client"]) \in Nat
      BY <2>2, EndpointSet, SignedGrows DEF Logs, IsSequence
    <3> QED
      BY <2>2, <3>1, <1>1, <1>4 DEF ClientOrder, Auth
  <2> QED
    BY <2>1, <2>2
<1> QED
  BY <1>5, <1>6, <1>7 DEF Auth

(* A server step keeps it when the client stays as it is.                  *)
LEMMA ServerMoves ==
  ASSUME TypeOK, Logs, Auth, NEW m,
         UNCHANGED cfg, pc' = [pc EXCEPT !["server"] = m],
         peerCert'["client"] = peerCert["client"], log'["client"] = log["client"],
         \/ log'["server"] = log["server"]
         \/ \E r : /\ log'["server"] = Append(log["server"], r)
                   /\ IsCV(r) => /\ r.body.proof.key = cfg["server"].key
                                 /\ cfg["server"].cert
                                 /\ m \notin ServerUnsigned
                                 /\ why'["server"] # "no certificate",
         m \in ServerUnsigned \/ why'["server"] = "no certificate" => ~Signed("server"),
         RequestsClientCert /\ m \in {"readFinished", "done", "closed"} =>
           Verified("server") /\ peerCert'["server"],
         m = "sendCertificateVerify" => cfg["server"].cert,
         m = "readCertificateVerify" => ChainAccepted("server") /\ peerCert'["server"]
  PROVE  Auth'
<1>1. pc'["server"] = m /\ pc'["client"] = pc["client"]
  BY EndpointSet DEF TypeOK
<1>2. Signed("client")' <=> Signed("client")
  BY DEF Signed, IsCV
<1>3. Signed("server") => Signed("server")'
  <2>1. CASE log'["server"] = log["server"]
    BY <2>1 DEF Signed, IsCV
  <2>2. CASE log'["server"] # log["server"]
    <3>1. PICK r : log'["server"] = Append(log["server"], r)
      BY <2>2
    <3> QED
      BY <3>1, EndpointSet, SignedGrows
  <2> QED
    BY <2>1, <2>2
<1>4. /\ Verified("client") => Verified("client")'
      /\ Verified("server") => Verified("server")'
      /\ ChainAccepted("client")' <=> ChainAccepted("client")
      /\ ChainAccepted("server")' <=> ChainAccepted("server")
  BY <1>2, <1>3, EndpointSet DEF Verified, ChainAccepted, Peer
<1>5. ClientOrder'
  BY <1>1, <1>4 DEF ClientOrder, Auth
<1>6. Signatures'
  <2>1. \A i \in 1..Len(log'["server"]) : IsCV(log'["server"][i]) =>
          log'["server"][i].body.proof.key = cfg["server"].key /\ cfg["server"].cert
    <3>1. CASE log'["server"] = log["server"]
      BY <3>1, EndpointSet DEF Auth, Signatures
    <3>2. CASE log'["server"] # log["server"]
      <4>1. PICK r : /\ log'["server"] = Append(log["server"], r)
                     /\ IsCV(r) => /\ r.body.proof.key = cfg["server"].key
                                   /\ cfg["server"].cert
        BY <3>2
      <4>2. \A i \in 1..Len(log'["server"]) :
              \/ i \in 1..Len(log["server"]) /\ log'["server"][i] = log["server"][i]
              \/ log'["server"][i] = r
        BY <4>1, EndpointSet, SignedGrows
      <4> QED
        BY <4>1, <4>2, EndpointSet DEF Auth, Signatures
    <3> QED
      BY <3>1, <3>2
  <2>2. /\ \A i \in 1..Len(log'["client"]) : IsCV(log'["client"][i]) =>
             log'["client"][i].body.proof.key = cfg["client"].key /\ cfg["client"].cert
        /\ pc'["client"] = "sendCertificateVerify" => cfg["client"].cert
        /\ pc'["client"] = "readCertificateVerify" =>
             ChainAccepted("client") /\ peerCert'["client"]
    BY <1>1, EndpointSet DEF Auth, Signatures
  <2>3. /\ m = "sendCertificateVerify" => cfg'["server"].cert
        /\ m = "readCertificateVerify" => ChainAccepted("server")' /\ peerCert'["server"]
    BY <1>4
  <2> QED
    BY <1>1, <1>4, <2>1, <2>2, <2>3, EndpointSet DEF Signatures
<1>7. ServerOrder'
  <2>1. m \in ServerUnsigned \/ why'["server"] = "no certificate" => ~Signed("server")'
    <3>1. CASE log'["server"] = log["server"]
      <4>1. Signed("server")' <=> Signed("server")
        BY <3>1 DEF Signed, IsCV
      <4> QED
        BY <4>1
    <3>2. CASE log'["server"] # log["server"]
      <4>1. PICK r : /\ log'["server"] = Append(log["server"], r)
                     /\ IsCV(r) => m \notin ServerUnsigned
                                   /\ why'["server"] # "no certificate"
        BY <3>2
      <4>2. Signed("server")' => Signed("server") \/ IsCV(r)
        BY <4>1, EndpointSet, SignedGrows
      <4> QED
        BY <4>1, <4>2
    <3> QED
      BY <3>1, <3>2
  <2> QED
    BY <2>1, <1>1, <1>4 DEF ServerOrder, RequestsClientCert
<1> QED
  BY <1>5, <1>6, <1>7 DEF Auth

(* A message that is not a CertificateVerify, in a record.                 *)
LEMMA MessageType ==
  ASSUME NEW type, NEW from, NEW val, NEW proof
  PROVE  Message(type, from, val, proof).type = type
BY DEF Message

(* So such a record holds no signature.                                    *)
LEMMA NoSignature ==
  ASSUME NEW c, NEW m, m.type # "CertificateVerify"
  PROVE  ~IsCV(Seal(c, m))
BY DEF Seal, IsCV

(* "no certificate" is never a reason to refuse a record.                  *)
LEMMA ReadErrorOther ==
  ASSUME NEW p PROVE ReadError(p) # "no certificate"
BY DEF ReadError, ClientHelloError, ServerHelloError, CertificateError,
       SignatureError, FinishedError, None

(* Initially nobody has signed, and nobody has accepted anything.          *)
LEMMA AuthInit == Init => Auth
<1> SUFFICES ASSUME Init PROVE Auth
  OBVIOUS
<1>1. /\ log["client"] = <<>> /\ log["server"] = <<>>
      /\ pc["client"] = "sendClientHello" /\ pc["server"] = "readClientHello"
      /\ Len(<<>>) = 0
  BY DEF Init, Endpoints
<1>2. Signatures
  BY <1>1, EndpointSet DEF Signatures
<1>3. ClientOrder
  BY <1>1 DEF ClientOrder, ClientVerified
<1>4. ServerOrder
  BY <1>1 DEF ServerOrder, Signed
<1> QED
  BY <1>2, <1>3, <1>4 DEF Auth

(* What the acting endpoint and the other one have in common in every step *)
(* of a client that writes nothing, or in which it stays where it is.      *)
LEMMA ClientStays ==
  ASSUME TypeOK, Logs, Auth, UNCHANGED <<cfg, pc, why>>, pc["client"] # "sendClientHello",
         peerCert'["server"] = peerCert["server"], log'["server"] = log["server"],
         pc["client"] = "readCertificateVerify" => peerCert'["client"],
         \/ log'["client"] = log["client"]
         \/ \E r : /\ log'["client"] = Append(log["client"], r) /\ ~IsCV(r)
                   /\ pc["client"] = "done"
  PROVE  Auth'
<1>1. pc' = [pc EXCEPT !["client"] = pc["client"]]
  BY DEF TypeOK
<1>2. /\ pc["client"] \in ClientVerified => Verified("client")
      /\ pc["client"] = "sendCertificateVerify" => cfg["client"].cert
      /\ pc["client"] = "readCertificateVerify" => ChainAccepted("client")
  BY EndpointSet DEF Auth, ClientOrder, Signatures
<1>3. pc["client"] = "done" => Verified("client") /\ pc["client"] \notin BeforeKeys("client")
  BY <1>2 DEF ClientVerified, BeforeKeys
<1> QED
  BY <1>1, <1>2, <1>3, ClientMoves

(* The calls only the client makes.                                        *)
LEMMA AuthClientSteps ==
  ASSUME TypeOK, Logs, Auth,
         \/ SendClientHello \/ ReadServerHello \/ ReadEncryptedExtensions
         \/ ReadCertificateRequest \/ ClientReadFinished \/ ClientSendFinished
  PROVE  Auth'
<1> USE EndpointSet
<1>1. CASE SendClientHello
  <2>1. PICK r : /\ log' = [log EXCEPT !["client"] = Append(@, r)] /\ ~IsCV(r)
    <3>1. /\ log' = [log EXCEPT !["client"] = Append(@, Seal(out["client"], ClientHello))]
          /\ ~IsCV(Seal(out["client"], ClientHello))
      BY <1>1, NoSignature, MessageType DEF SendClientHello, WriteRecord, ClientHello
    <3> QED
      BY <3>1
  <2>2. /\ log'["client"] = Append(log["client"], r) /\ log'["server"] = log["server"]
    BY <2>1 DEF Logs, IsPair
  <2> QED
    BY <1>1, <2>1, <2>2, ClientMoves
       DEF SendClientHello, Goto, BeforeKeys, ClientVerified
<1>2. CASE ReadServerHello
  BY <1>2, ClientMoves DEF ReadServerHello, Goto, BeforeKeys, ClientVerified
<1>3. CASE ReadEncryptedExtensions
  BY <1>3, ClientMoves DEF ReadEncryptedExtensions, Goto, BeforeKeys, ClientVerified
<1>4. CASE ReadCertificateRequest
  BY <1>4, ClientStays DEF ReadCertificateRequest
<1>5. CASE ClientReadFinished
  <2>1. Verified("client")
    BY <1>5 DEF ClientReadFinished, Auth, ClientOrder, ClientVerified
  <2>2. /\ UNCHANGED <<cfg, log, peerCert>> /\ why'["server"] = why["server"]
        /\ \/ pc' = [pc EXCEPT !["client"] = "failed"]
           \/ pc' = [pc EXCEPT !["client"] = "sendCertificate"]
           \/ pc' = [pc EXCEPT !["client"] = "sendFinished"]
    BY <1>5 DEF ClientReadFinished, Goto, TypeOK
  <2> QED
    BY <2>1, <2>2, ClientMoves DEF BeforeKeys, ClientVerified
<1>6. CASE ClientSendFinished
  <2>1. Verified("client")
    BY <1>6 DEF ClientSendFinished, Auth, ClientOrder, ClientVerified
  <2>2. PICK r : /\ log' = [log EXCEPT !["client"] = Append(@, r)] /\ ~IsCV(r)
    <3>1. /\ log' = [log EXCEPT !["client"] =
                Append(@, Seal(FinishedCipher("client"), Finished("client")))]
          /\ ~IsCV(Seal(FinishedCipher("client"), Finished("client")))
      BY <1>6, NoSignature, MessageType DEF ClientSendFinished, Finished
    <3> QED
      BY <3>1
  <2>3. /\ log'["client"] = Append(log["client"], r) /\ log'["server"] = log["server"]
    BY <2>2 DEF Logs, IsPair
  <2> QED
    BY <1>6, <2>1, <2>2, <2>3, ClientMoves
       DEF ClientSendFinished, Goto, BeforeKeys, ClientVerified
<1> QED
  BY <1>1, <1>2, <1>3, <1>4, <1>5, <1>6

(* The facts a server step keeps when it is not the end of the handshake.  *)
LEMMA ServerHolds ==
  ASSUME Auth
  PROVE  /\ pc["server"] \in ServerUnsigned \/ why["server"] = "no certificate"
              => ~Signed("server")
         /\ RequestsClientCert /\ pc["server"] \in {"readFinished", "done", "closed"}
              => Verified("server") /\ peerCert["server"]
         /\ pc["server"] = "sendCertificateVerify" => cfg["server"].cert
         /\ pc["server"] = "readCertificateVerify"
              => ChainAccepted("server") /\ peerCert["server"]
BY EndpointSet DEF Auth, ServerOrder, Signatures

(* The calls only the server makes.                                        *)
LEMMA AuthServerSteps ==
  ASSUME TypeOK, Logs, Auth,
         \/ ReadClientHello \/ SendServerHello \/ SendEncryptedExtensions
         \/ SendCertificateRequest \/ ServerSendFinished \/ ServerReadFinished
  PROVE  Auth'
<1> USE EndpointSet
<1>1. CASE ReadClientHello
  BY <1>1, ServerHolds, ServerMoves DEF ReadClientHello, Goto, ServerUnsigned
<1>2. CASE SendServerHello
  <2>1. PICK r : /\ log' = [log EXCEPT !["server"] = Append(@, r)] /\ ~IsCV(r)
    <3>1. /\ log' = [log EXCEPT !["server"] = Append(@, Seal(out["server"], ServerHello))]
          /\ ~IsCV(Seal(out["server"], ServerHello))
      BY <1>2, NoSignature, MessageType DEF SendServerHello, ServerHello
    <3> QED
      BY <3>1
  <2>2. /\ log'["server"] = Append(log["server"], r) /\ log'["client"] = log["client"]
    BY <2>1 DEF Logs, IsPair
  <2> QED
    BY <1>2, <2>1, <2>2, ServerHolds, ServerMoves DEF SendServerHello, Goto, ServerUnsigned
<1>3. CASE SendEncryptedExtensions
  <2>1. PICK r : /\ log' = [log EXCEPT !["server"] = Append(@, r)] /\ ~IsCV(r)
    <3>1. /\ log' = [log EXCEPT !["server"] = Append(@, Seal(out["server"], EncryptedExtensions))]
          /\ ~IsCV(Seal(out["server"], EncryptedExtensions))
      BY <1>3, NoSignature, MessageType
         DEF SendEncryptedExtensions, WriteRecord, EncryptedExtensions
    <3> QED
      BY <3>1
  <2>2. /\ log'["server"] = Append(log["server"], r) /\ log'["client"] = log["client"]
    BY <2>1 DEF Logs, IsPair
  <2> QED
    BY <1>3, <2>1, <2>2, ServerHolds, ServerMoves
       DEF SendEncryptedExtensions, Goto, ServerUnsigned
<1>4. CASE SendCertificateRequest
  <2>1. PICK r : /\ log' = [log EXCEPT !["server"] = Append(@, r)] /\ ~IsCV(r)
    <3>1. /\ log' = [log EXCEPT !["server"] = Append(@, Seal(out["server"], CertificateRequest))]
          /\ ~IsCV(Seal(out["server"], CertificateRequest))
      BY <1>4, NoSignature, MessageType DEF SendCertificateRequest, WriteRecord, CertificateRequest
    <3> QED
      BY <3>1
  <2>2. /\ log'["server"] = Append(log["server"], r) /\ log'["client"] = log["client"]
    BY <2>1 DEF Logs, IsPair
  <2> QED
    BY <1>4, <2>1, <2>2, ServerHolds, ServerMoves
       DEF SendCertificateRequest, Goto, ServerUnsigned
<1>5. CASE ServerSendFinished
  <2>1. PICK r : /\ log' = [log EXCEPT !["server"] = Append(@, r)] /\ ~IsCV(r)
    <3>1. /\ log' = [log EXCEPT !["server"] =
                Append(@, Seal(FinishedCipher("server"), Finished("server")))]
          /\ ~IsCV(Seal(FinishedCipher("server"), Finished("server")))
      BY <1>5, NoSignature, MessageType DEF ServerSendFinished, WriteRecord, Finished
    <3> QED
      BY <3>1
  <2>2. /\ log'["server"] = Append(log["server"], r) /\ log'["client"] = log["client"]
    BY <2>1 DEF Logs, IsPair
  <2>3. \/ RequestsClientCert /\ pc' = [pc EXCEPT !["server"] = "readCertificate"]
        \/ ~RequestsClientCert /\ pc' = [pc EXCEPT !["server"] = "readFinished"]
    BY <1>5 DEF ServerSendFinished, Goto
  <2>4. /\ pc["server"] = "sendFinished" /\ UNCHANGED <<cfg, peerCert, why>>
    BY <1>5 DEF ServerSendFinished
  <2> QED
    BY <2>1, <2>2, <2>3, <2>4, ServerHolds, ServerMoves DEF ServerUnsigned
<1>6. CASE ServerReadFinished
  BY <1>6, ServerHolds, ServerMoves DEF ServerReadFinished, Goto, ServerUnsigned
<1> QED
  BY <1>1, <1>2, <1>3, <1>4, <1>5, <1>6

(* The steps both endpoints have, taken by the client.                     *)
LEMMA AuthClientCommon ==
  ASSUME TypeOK, Logs, Auth, CommonStep("client") \/ Environment("client")
  PROVE  Auth'
<1> USE EndpointSet
<1>a. pc["client"] \in ClientVerified => Verified("client")
  BY DEF Auth, ClientOrder
<1>1. CASE ReadCertificate("client")
  <2>1. ChainAccepted("client")
    BY <1>1, CertificateAccepted DEF ReadCertificate, ReadEncrypted
  <2>2. peerCert'["client"] /\ peerCert'["server"] = peerCert["server"]
    BY <1>1 DEF ReadCertificate, TypeOK
  <2> QED
    BY <1>1, <2>1, <2>2, ClientMoves
       DEF ReadCertificate, Goto, BeforeKeys, ClientVerified
<1>2. CASE ReadCertificateVerify("client")
  <2>1. Verified("client")
    BY <1>2, SignatureAccepted DEF ReadCertificateVerify, ReadEncrypted, Auth
  <2> QED
    BY <1>2, <2>1, ClientMoves DEF ReadCertificateVerify, Goto, BeforeKeys, ClientVerified
<1>3. CASE SendCertificate("client")
  <2>1. /\ log' = [log EXCEPT !["client"] = Append(@, Seal(out["client"], Certificate("client")))]
        /\ ~IsCV(Seal(out["client"], Certificate("client")))
    BY <1>3, NoSignature, MessageType DEF SendCertificate, WriteRecord, Certificate
  <2>2. /\ log'["client"] = Append(log["client"], Seal(out["client"], Certificate("client")))
        /\ log'["server"] = log["server"]
    BY <2>1 DEF Logs, IsPair
  <2>3. Verified("client") /\ cfg["client"].cert
    BY <1>3, <1>a DEF SendCertificate, ClientVerified
  <2> QED
    BY <1>3, <2>1, <2>2, <2>3, ClientMoves
       DEF SendCertificate, Goto, BeforeKeys, ClientVerified
<1>4. CASE SendCertificateVerify("client")
  <2> DEFINE r == Seal(out["client"], CertificateVerify("client"))
  <2>1. log' = [log EXCEPT !["client"] = Append(@, r)]
    BY <1>4 DEF SendCertificateVerify, WriteRecord
  <2>2. log'["client"] = Append(log["client"], r) /\ log'["server"] = log["server"]
    BY <2>1 DEF Logs, IsPair
  <2>3. Verified("client") /\ cfg["client"].cert
    BY <1>4, <1>a DEF SendCertificateVerify, ClientVerified, Auth, Signatures
  <2>4. r.body.proof.key = cfg["client"].key
    BY DEF Seal, CertificateVerify, Message
  <2> HIDE DEF r
  <2> QED
    BY <1>4, <2>2, <2>3, <2>4, ClientMoves
       DEF SendCertificateVerify, Goto, BeforeKeys, ClientVerified
<1>5. CASE \/ Refuse("client") \/ CannotSend("client")
           \/ PeerGone("client") \/ TransportFault("client")
  BY <1>5, ClientMoves
     DEF Refuse, CannotSend, PeerGone, TransportFault, Fail, Goto, conn, wire,
         BeforeKeys, ClientVerified, TypeOK
<1>6. CASE Read("client")
  BY <1>6, ClientStays DEF Read
<1>7. CASE Write("client")
  <2>1. PICK v : log' = [log EXCEPT !["client"] =
                           Append(@, Seal(out["client"], Message("Data", "client", v, None)))]
    BY <1>7 DEF Write, WriteRecord
  <2> DEFINE r == Seal(out["client"], Message("Data", "client", v, None))
  <2>2. ~IsCV(r)
    BY DEF IsCV, Seal, Message
  <2>3. log'["client"] = Append(log["client"], r) /\ log'["server"] = log["server"]
    BY <2>1 DEF Logs, IsPair
  <2> HIDE DEF r
  <2> QED
    BY <1>7, <2>2, <2>3, ClientStays DEF Write
<1>8. CASE Close("client")
  BY <1>8, <1>a, ClientMoves DEF Close, Goto, conn, wire, BeforeKeys, ClientVerified
<1> QED
  BY <1>1, <1>2, <1>3, <1>4, <1>5, <1>6, <1>7, <1>8 DEF CommonStep, Environment

(* The same steps, taken by the server.                                    *)
LEMMA AuthServerCommon ==
  ASSUME TypeOK, Logs, Auth, CommonStep("server") \/ Environment("server")
  PROVE  Auth'
<1> USE EndpointSet, ServerHolds
<1>1. CASE ReadCertificate("server")
  <2>1. ChainAccepted("server")
    BY <1>1, CertificateAccepted DEF ReadCertificate, ReadEncrypted
  <2>2. peerCert'["server"] /\ peerCert'["client"] = peerCert["client"]
    BY <1>1 DEF ReadCertificate, TypeOK
  <2> QED
    BY <1>1, <2>1, <2>2, ServerMoves DEF ReadCertificate, Goto, ServerUnsigned
<1>2. CASE ReadCertificateVerify("server")
  <2>1. Verified("server")
    BY <1>2, SignatureAccepted DEF ReadCertificateVerify, ReadEncrypted, Auth
  <2> QED
    BY <1>2, <2>1, ServerMoves DEF ReadCertificateVerify, Goto, ServerUnsigned
<1>3. CASE SendCertificate("server")
  <2>1. /\ log' = [log EXCEPT !["server"] = Append(@, Seal(out["server"], Certificate("server")))]
        /\ ~IsCV(Seal(out["server"], Certificate("server")))
    BY <1>3, NoSignature, MessageType DEF SendCertificate, WriteRecord, Certificate
  <2>2. /\ log'["server"] = Append(log["server"], Seal(out["server"], Certificate("server")))
        /\ log'["client"] = log["client"]
    BY <2>1 DEF Logs, IsPair
  <2> QED
    BY <1>3, <2>1, <2>2, ServerMoves DEF SendCertificate, Goto, ServerUnsigned
<1>4. CASE SendCertificateVerify("server")
  <2> DEFINE r == Seal(out["server"], CertificateVerify("server"))
  <2>1. log' = [log EXCEPT !["server"] = Append(@, r)]
    BY <1>4 DEF SendCertificateVerify, WriteRecord
  <2>2. log'["server"] = Append(log["server"], r) /\ log'["client"] = log["client"]
    BY <2>1 DEF Logs, IsPair
  <2>3. cfg["server"].cert /\ why["server"] # "no certificate"
    BY <1>4 DEF SendCertificateVerify, TypeOK, None
  <2>4. r.body.proof.key = cfg["server"].key
    BY DEF Seal, CertificateVerify, Message
  <2> HIDE DEF r
  <2> QED
    BY <1>4, <2>2, <2>3, <2>4, ServerMoves DEF SendCertificateVerify, Goto, ServerUnsigned
<1>5. CASE Refuse("server")
  BY <1>5, ReadErrorOther, ServerMoves
     DEF Refuse, Fail, Goto, conn, wire, ServerUnsigned, TypeOK
<1>6. CASE CannotSend("server")
  <2>1. ~Signed("server")
    BY <1>6 DEF CannotSend, ServerUnsigned
  <2> QED
    BY <1>6, <2>1, ServerMoves DEF CannotSend, Fail, Goto, conn, wire, ServerUnsigned
<1>7. CASE PeerGone("server") \/ TransportFault("server")
  BY <1>7, ServerMoves
     DEF PeerGone, TransportFault, Fail, Goto, conn, wire, ServerUnsigned, TypeOK
<1>8. CASE Read("server")
  <2>1. pc' = [pc EXCEPT !["server"] = "done"] /\ pc["server"] = "done"
    BY <1>8 DEF Read, TypeOK
  <2> QED
    BY <1>8, <2>1, ServerMoves DEF Read, ServerUnsigned
<1>9. CASE Write("server")
  <2>1. PICK v : log' = [log EXCEPT !["server"] =
                           Append(@, Seal(out["server"], Message("Data", "server", v, None)))]
    BY <1>9 DEF Write, WriteRecord
  <2> DEFINE r == Seal(out["server"], Message("Data", "server", v, None))
  <2>2. ~IsCV(r)
    BY DEF IsCV, Seal, Message
  <2>3. log'["server"] = Append(log["server"], r) /\ log'["client"] = log["client"]
    BY <2>1 DEF Logs, IsPair
  <2>4. pc' = [pc EXCEPT !["server"] = "done"] /\ pc["server"] = "done"
    BY <1>9 DEF Write, TypeOK
  <2> HIDE DEF r
  <2> QED
    BY <1>9, <2>2, <2>3, <2>4, ServerMoves DEF Write, ServerUnsigned
<1>10. CASE Close("server")
  BY <1>10, ServerMoves DEF Close, Goto, conn, wire, ServerUnsigned
<1> QED
  BY <1>1, <1>2, <1>3, <1>4, <1>5, <1>6, <1>7, <1>8, <1>9, <1>10 DEF CommonStep, Environment

(* Every step keeps the invariant.                                         *)
LEMMA AuthStep == TypeOK /\ Logs /\ Auth /\ [Next]_vars => Auth'
<1> SUFFICES ASSUME TypeOK, Logs, Auth, [Next]_vars PROVE Auth'
  OBVIOUS
<1>1. CASE ClientStep
  BY <1>1, AuthClientSteps DEF ClientStep
<1>2. CASE ServerStep
  BY <1>2, AuthServerSteps DEF ServerStep
<1>3. ASSUME NEW p \in Endpoints, CommonStep(p) \/ Environment(p) PROVE Auth'
  BY <1>3, EndpointSet, AuthClientCommon, AuthServerCommon
<1>4. CASE UNCHANGED vars
  BY <1>4, EndpointSet
     DEF vars, conn, wire, Auth, Signatures, ClientOrder, ServerOrder, Signed, IsCV,
         Verified, ChainAccepted, RequestsClientCert, Peer
<1> QED
  BY <1>1, <1>2, <1>3, <1>4 DEF Next, Terminated

(* The two properties follow from the invariant.                           *)
LEMMA AuthImplies ==
  ASSUME TypeOK, Auth PROVE ServerAuthenticatedFirst /\ ClientAuthenticated
<1>1. ASSUME NEW p \in Endpoints, Signed(p) PROVE cfg[p].cert
  BY <1>1 DEF Signed, Auth, Signatures
<1>2. ServerAuthenticatedFirst
  <2> SUFFICES ASSUME Len(log["client"]) > 1, ~cfg["client"].insecure
               PROVE  /\ cfg["client"].chainOk
                      /\ cfg["server"].cert /\ cfg["server"].key = "match"
                      /\ why["server"] # "no certificate"
    BY DEF ServerAuthenticatedFirst
  <2>1. Verified("client")
    BY DEF Auth, ClientOrder
  <2>2. cfg["client"].chainOk /\ Signed("server") /\ cfg["server"].key = "match"
    BY <2>1 DEF Verified, Peer
  <2> QED
    BY <2>2, <1>1, EndpointSet DEF Auth, ServerOrder
<1>3. ClientAuthenticated
  <2> SUFFICES ASSUME HasFinished("server"), RequestsClientCert, ~cfg["server"].insecure
               PROVE  /\ peerCert["server"]
                      /\ cfg["client"].cert /\ cfg["client"].key = "match"
                      /\ cfg["server"].clientCAs => cfg["server"].chainOk
    BY DEF ClientAuthenticated
  <2>1. Verified("server") /\ peerCert["server"]
    BY DEF Auth, ServerOrder, HasFinished
  <2>2. /\ Signed("client") /\ cfg["client"].key = "match"
        /\ cfg["server"].clientCAs => cfg["server"].chainOk
    BY <2>1 DEF Verified, Peer
  <2> QED
    BY <2>1, <2>2, <1>1, EndpointSet
<1> QED
  BY <1>2, <1>3

(* A client that verifies sends nothing but its ClientHello before the     *)
(* server has proved the key of an acceptable certificate                  *)
(* (clientHandshakeTLS13's order of calls and the checks of its readers).  *)
THEOREM ServerIsAuthenticatedFirst == Spec => []ServerAuthenticatedFirst
<1>1. Init => TypeOK /\ NonceInv /\ Auth
  BY TypeInit, NonceInit, AuthInit
<1>2. TypeOK /\ NonceInv /\ Auth /\ [Next]_vars => (TypeOK /\ NonceInv /\ Auth)'
  BY TypeStep, NonceStep, AuthStep DEF NonceInv
<1>3. TypeOK /\ Auth => ServerAuthenticatedFirst
  BY AuthImplies
<1> QED
  BY <1>1, <1>2, <1>3, PTL DEF Spec

(* A server that asks for a client certificate and verifies completes only *)
(* with a client that proved the key of an acceptable one                  *)
(* (serverHandshakeTLS13 and readClientCertificateTLS13).                  *)
THEOREM ClientIsAuthenticated == Spec => []ClientAuthenticated
<1>1. Init => TypeOK /\ NonceInv /\ Auth
  BY TypeInit, NonceInit, AuthInit
<1>2. TypeOK /\ NonceInv /\ Auth /\ [Next]_vars => (TypeOK /\ NonceInv /\ Auth)'
  BY TypeStep, NonceStep, AuthStep DEF NonceInv
<1>3. TypeOK /\ Auth => ClientAuthenticated
  BY AuthImplies
<1> QED
  BY <1>1, <1>2, <1>3, PTL DEF Spec

(* The invariant itself, what each endpoint may conclude from where it is  *)
(* in its handshake, holds of all configurations (clientHandshakeTLS13,    *)
(* serverHandshakeTLS13).                                                  *)
THEOREM AuthInvariant == Spec => []AuthInv
<1>1. Init => TypeOK /\ NonceInv /\ Auth
  BY TypeInit, NonceInit, AuthInit
<1>2. TypeOK /\ NonceInv /\ Auth /\ [Next]_vars => (TypeOK /\ NonceInv /\ Auth)'
  BY TypeStep, NonceStep, AuthStep DEF NonceInv
<1>3. TypeOK /\ NonceInv /\ Auth => AuthInv
  BY DEF NonceInv, AuthInv
<1> QED
  BY <1>1, <1>2, <1>3, PTL DEF Spec
=============================================================================
