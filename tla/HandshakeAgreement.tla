------------------------- MODULE HandshakeAgreement -------------------------
(***************************************************************************)
(* Agreement, NoProtocolError, OnlyCompatible and DataUnderAppKeys hold of *)
(* Handshake for every set of configurations and every value of the        *)
(* bounds, and Handshake implements Session: all from the one invariant    *)
(* that the endpoints follow the script their configurations fix.          *)
(***************************************************************************)
EXTENDS HandshakeScript, HandshakeProofs, NegotiationProofs, FiniteSetTheorems

---------------------------------------------------------------------------
(* The script *)

(* The lengths of the two flights, with and without a CertificateRequest.  *)
LEMMA Lengths ==
  ASSUME NEW C
  PROVE  /\ Asks(C) => /\ Flight(C, "server") = 6 /\ Flight(C, "client") = 4
                       /\ Total(C) = 10
         /\ ~Asks(C) => /\ Flight(C, "server") = 5 /\ Flight(C, "client") = 2
                        /\ Total(C) = 7
BY DEF Flight, Total

(* The kind of each record.                                                *)
LEMMA ClientTypes ==
  ASSUME NEW C, NEW i \in Nat \ {0}
  PROVE  /\ i = 1 => TypeOf(C, "client", i) = "ClientHello"
         /\ Asks(C) /\ i = 2 => TypeOf(C, "client", i) = "Certificate"
         /\ Asks(C) /\ i = 3 => TypeOf(C, "client", i) = "CertificateVerify"
         /\ i = Flight(C, "client") => TypeOf(C, "client", i) = "Finished"
         /\ i > Flight(C, "client") => TypeOf(C, "client", i) = "Data"
BY Lengths DEF TypeOf

(* The same of the server's records.                                       *)
LEMMA ServerTypes ==
  ASSUME NEW C, NEW i \in Nat \ {0}
  PROVE  /\ i = 1 => TypeOf(C, "server", i) = "ServerHello"
         /\ i = 2 => TypeOf(C, "server", i) = "EncryptedExtensions"
         /\ Asks(C) /\ i = 3 => TypeOf(C, "server", i) = "CertificateRequest"
         /\ i = Flight(C, "server") - 2 => TypeOf(C, "server", i) = "Certificate"
         /\ i = Flight(C, "server") - 1 => TypeOf(C, "server", i) = "CertificateVerify"
         /\ i = Flight(C, "server") => TypeOf(C, "server", i) = "Finished"
         /\ i > Flight(C, "server") => TypeOf(C, "server", i) = "Data"
BY Lengths DEF TypeOf

(* Data is what comes after the flight.                                    *)
LEMMA DataType ==
  ASSUME NEW C, NEW p, NEW i \in Nat
  PROVE  TypeOf(C, p, i) = "Data" <=> i > Flight(C, p)
<1> DEFINE F == Flight(C, p)
<1>1. F \in 2..6
  BY Lengths DEF Flight
<1>2. CASE i > F
  BY <1>1, <1>2 DEF TypeOf
<1>3. CASE i = F
  BY <1>1, <1>3 DEF TypeOf
<1>4. CASE i < F
  BY <1>1, <1>4 DEF TypeOf
<1> QED
  BY <1>1, <1>2, <1>3, <1>4

(* Hashing the next message of the conversation.                           *)
LEMMA PrefixGrows ==
  ASSUME NEW C, NEW n \in Nat, NEW token, token = Line(C, n + 1)
  PROVE  Append(Prefix(C, n), token) = Prefix(C, n + 1)
<1> DEFINE T == {Line(C, i) : i \in 1 .. n + 1}
<1>1. Prefix(C, n) \in Seq(T) /\ Len(Prefix(C, n)) = n
  <2>1. Prefix(C, n) \in [1..n -> T]
    BY DEF Prefix
  <2> QED
    BY <2>1
<1>2. Prefix(C, n + 1) \in Seq(T) /\ Len(Prefix(C, n + 1)) = n + 1
  <2>1. Prefix(C, n + 1) \in [1 .. n + 1 -> T] /\ n + 1 \in Nat
    BY DEF Prefix
  <2> HIDE DEF T
  <2> QED
    BY <2>1
<1> DEFINE s == Append(Prefix(C, n), token)
<1>3. /\ s \in Seq(T) /\ Len(s) = n + 1
      /\ \A i \in 1..n : s[i] = Prefix(C, n)[i]
      /\ s[n + 1] = token
  <2>1. token \in T
    OBVIOUS
  <2> HIDE DEF T
  <2> QED
    BY <1>1, <2>1, AppendProperties
<1>4. \A i \in 1 .. n + 1 : s[i] = Prefix(C, n + 1)[i]
  BY <1>3 DEF Prefix
<1> HIDE DEF s, T
<1>5. s = Prefix(C, n + 1)
  BY <1>2, <1>3, <1>4, SeqEqual
<1> QED
  BY <1>5 DEF s

(* Each record's message has its place in the conversation.                *)
LEMMA LineAtPlace ==
  ASSUME NEW C, NEW p \in Endpoints, NEW i \in 1..Flight(C, p)
  PROVE  Line(C, Place(C, p, i)) = TokenOf(C, p, i) /\ Place(C, p, i) \in Nat \ {0}
BY Lengths, EndpointSet DEF Line, Place

(* Once they are derived the handshake keys stay, and both sides have the  *)
(* same; likewise the application keys.                                    *)
LEMMA KeysSettle ==
  ASSUME NEW C, NEW p, NEW q, NEW n \in Nat
  PROVE  /\ n > 1 => HandshakeKey(KeysAt(C, p, n), q) = ScriptHandshakeKey(C, q)
         /\ n > Flight(C, "server") => AppKey(KeysAt(C, p, n), q) = ScriptAppKey(C, q)
BY Lengths DEF KeysAt, HandshakeKey, AppKey, ScriptHandshakeKey, ScriptAppKey

(* The ciphers from one record to the next.                                *)
LEMMA Ciphers ==
  ASSUME NEW C, NEW p \in Endpoints, NEW i \in Nat \ {0}
  PROVE  /\ CipherOf(C, p, 1) = NoCipher
         /\ Fresh(ScriptHandshakeKey(C, p)) = CipherOf(C, p, 2)
         /\ Fresh(ScriptAppKey(C, p)) = CipherOf(C, p, Flight(C, p) + 1)
         /\ i > 1 => CipherOf(C, p, i).key # NoKey
         /\ 1 < i /\ i # Flight(C, p) => Advance(CipherOf(C, p, i)) = CipherOf(C, p, i + 1)
         /\ Opens(CipherOf(C, p, i), RecordOf(C, p, i))
<1>1. ScriptHandshakeKey(C, p) # NoKey /\ ScriptAppKey(C, p) # NoKey
  BY KeyFacts DEF ScriptHandshakeKey, ScriptAppKey
<1>2. Flight(C, p) \in 2..6
  BY Lengths, EndpointSet
<1> QED
  BY <1>1, <1>2 DEF CipherOf, Fresh, Advance, Opens, RecordOf, Seal

---------------------------------------------------------------------------
(* One endpoint moves *)

(* The other endpoint has none of its variables changed.                   *)
Alone(p) ==
  LET q == Peer(p) IN
  /\ UNCHANGED cfg /\ pc'[q] = pc[q]
  /\ transcript'[q] = transcript[q] /\ keys'[q] = keys[q]
  /\ in'[q] = in[q] /\ out'[q] = out[q] /\ negotiated'[q] = negotiated[q]
  /\ log'[q] = log[q] /\ consumed'[q] = consumed[q] /\ delivered'[q] = delivered[q]
  /\ asked' = asked \/ p = "client"

(* What the invariant asks of p alone.                                     *)
Follows(p) ==
  /\ OnScript(cfg, p, log[p])
  /\ Outcome(cfg, p, pc[p], Len(log[p]), consumed[p], delivered[p])
  /\ Playing(p)

(* A step of p keeps the invariant when p stays on the script.             *)
LEMMA OneMoves ==
  ASSUME TypeOK, ScriptInv, NEW p \in Endpoints, Alone(p), Pairs', Follows(p)',
         Len(log[p]) <= Len(log'[p]), consumed'[p] <= Len(log[Peer(p)]),
         TypeOK'
  PROVE  ScriptInv'
<1> DEFINE q == Peer(p)
<1>1. q \in Endpoints /\ q # p /\ Peer(q) = p /\ \A e \in Endpoints : e = p \/ e = q
  BY EndpointSet DEF Peer
<1>2. /\ Len(log[p]) \in Nat /\ Len(log'[p]) \in Nat /\ consumed[q] \in Nat
      /\ consumed[q] <= Len(log[p])
  BY <1>1 DEF ScriptInv, Pairs, IsSequence, TypeOK
<1>3. consumed'[q] <= Len(log'[p]) /\ consumed'[p] <= Len(log'[q])
  BY <1>1, <1>2 DEF Alone
<1>4. Follows(q)'
  <2>1. OnScript(cfg, q, log[q])'
    BY <1>1 DEF ScriptInv, Alone
  <2>2. Outcome(cfg, q, pc[q], Len(log[q]), consumed[q], delivered[q])'
    BY <1>1 DEF ScriptInv, Alone
  <2>3. \A l, w, r : Placed(cfg, asked, q, l, w, r) => Placed(cfg', asked', q, l, w, r)
    BY <1>1, EndpointSet DEF Placed, Alone
  <2>4. Playing(q)'
    BY <1>1, <2>3 DEF ScriptInv, Playing, Alone
  <2> QED
    BY <2>1, <2>2, <2>4 DEF Follows
<1>5. \A e \in Endpoints : Follows(e)' /\ consumed'[e] <= Len(log'[Peer(e)])
  BY <1>1, <1>3, <1>4
<1> QED
  BY <1>5 DEF ScriptInv, Follows

(* What the invariant says of one endpoint that has not failed.            *)
LEMMA Here ==
  ASSUME TypeOK, ScriptInv, NEW p \in Endpoints
  PROVE  /\ Len(log[p]) \in Nat /\ consumed[p] \in Nat /\ Peer(p) \in Endpoints
         /\ IsSequence(log[p]) /\ consumed[p] <= Len(log[Peer(p)])
         /\ Follows(p) /\ Follows(Peer(p)) /\ Pairs
         /\ pc[p] # "failed" =>
              /\ Placed(cfg, asked, p, pc[p], Len(log[p]), consumed[p])
              /\ Knows(cfg, p, Hashed(cfg, pc[p], Len(log[p]), consumed[p]),
                       transcript[p], keys[p], negotiated[p])
              /\ Opening(cfg, p, pc[p], in[p], consumed[p])
              /\ Sealing(cfg, p, pc[p], out[p], Len(log[p]))
BY EndpointSet DEF ScriptInv, Pairs, IsSequence, TypeOK, Playing, Follows

---------------------------------------------------------------------------
(* Reading *)

(* The next record an endpoint reads is the next one of the script.        *)
LEMMA NextOnScript ==
  ASSUME TypeOK, ScriptInv, NEW p \in Endpoints, Pending(p)
  PROVE  LET i == consumed[p] + 1  q == Peer(p) IN
         /\ i \in 1..Len(log[q]) /\ i \in Nat \ {0}
         /\ NextRecord(p) = RecordOf(cfg, q, i)
         /\ Msg(p) = MessageOf(cfg, q, i)
         /\ Token(Msg(p)) = TokenOf(cfg, q, i)
         /\ Msg(p).type = TypeOf(cfg, q, i) /\ Msg(p).val = ValOf(cfg, q, i)
         /\ Msg(p).proof = ProofOf(cfg, q, i)
         /\ TypeOf(cfg, q, i) = "ServerHello" => Suite(cfg) # None
<1> DEFINE i == consumed[p] + 1
           q == Peer(p)
<1>1. i \in 1..Len(log[q]) /\ i \in Nat \ {0}
  BY EndpointSet DEF Pending, TypeOK, ScriptInv, Pairs, IsSequence
<1>2. /\ log[q][i] = RecordOf(cfg, q, i)
      /\ TypeOf(cfg, q, i) = "ServerHello" => Suite(cfg) # None
  BY <1>1, EndpointSet DEF ScriptInv, OnScript
<1>3. NextRecord(p) = RecordOf(cfg, q, i)
  BY <1>2 DEF NextRecord
<1>4. Msg(p) = MessageOf(cfg, q, i)
  BY <1>3 DEF Msg, RecordOf, Seal
<1> HIDE DEF i, q
<1>5. /\ Msg(p).type = TypeOf(cfg, q, i) /\ Msg(p).val = ValOf(cfg, q, i)
      /\ Msg(p).proof = ProofOf(cfg, q, i) /\ Token(Msg(p)) = TokenOf(cfg, q, i)
  BY <1>4 DEF MessageOf, Message, Token, TokenOf
<1> QED
  BY <1>1, <1>2, <1>3, <1>4, <1>5 DEF i, q

(* It is of a type the reader expects.                                     *)
LEMMA AwaitedType ==
  ASSUME TypeOK, ScriptInv, NEW p \in Endpoints, Pending(p), pc[p] \in ReadLabels
  PROVE  Msg(p).type \in Expected(p)
<1> DEFINE i == consumed[p] + 1
<1>1. /\ Msg(p).type = TypeOf(cfg, Peer(p), i) /\ i \in Nat \ {0}
      /\ consumed[p] \in Nat /\ pc[p] # "failed"
      /\ Placed(cfg, asked, p, pc[p], Len(log[p]), consumed[p])
  BY NextOnScript, Here DEF ReadLabels
<1>2. CASE p = "client"
  <2>1. ClientPlaced(cfg, asked, pc[p], Len(log[p]), consumed[p]) /\ Peer(p) = "server"
    BY <1>1, <1>2 DEF Placed, Peer
  <2>2. pc[p] \in {"readServerHello", "readEncryptedExtensions", "readCertificate",
                   "readCertificateVerify", "readFinished", "done"}
    BY <2>1 DEF ClientPlaced, ReadLabels
  <2> QED
    BY <1>1, <1>2, <2>1, <2>2, Lengths, ServerTypes DEF ClientPlaced, Expected
<1>3. CASE p = "server"
  <2>1. ServerPlaced(cfg, pc[p], Len(log[p]), consumed[p]) /\ Peer(p) = "client"
    BY <1>1, <1>3 DEF Placed, Peer
  <2>2. pc[p] \in {"readClientHello", "readCertificate", "readCertificateVerify",
                   "readFinished", "done"}
    BY <2>1 DEF ServerPlaced, ReadLabels
  <2> QED
    BY <1>1, <1>3, <2>1, <2>2, Lengths, ClientTypes DEF ServerPlaced, Expected
<1> QED
  BY <1>2, <1>3, EndpointSet

(* It is a handshake message, the next one of the conversation.            *)
LEMMA ReadPlace ==
  ASSUME TypeOK, ScriptInv, NEW p \in Endpoints, pc[p] \in ReadLabels \ {"done"}
  PROVE  LET i == consumed[p] + 1 IN
         /\ i \in 1..Flight(cfg, Peer(p))
         /\ Place(cfg, Peer(p), i) = Len(log[p]) + i
<1>1. /\ Len(log[p]) \in Nat /\ consumed[p] \in Nat /\ pc[p] # "failed"
      /\ Placed(cfg, asked, p, pc[p], Len(log[p]), consumed[p])
  BY Here DEF ReadLabels
<1>2. CASE p = "client"
  <2>1. ClientPlaced(cfg, asked, pc[p], Len(log[p]), consumed[p]) /\ Peer(p) = "server"
    BY <1>1, <1>2 DEF Placed, Peer
  <2>2. pc[p] \in {"readServerHello", "readEncryptedExtensions", "readCertificate",
                   "readCertificateVerify", "readFinished"}
    BY <2>1 DEF ClientPlaced, ReadLabels
  <2>3. Len(log[p]) = 1 /\ consumed[p] + 1 <= Flight(cfg, "server")
    BY <1>1, <2>1, <2>2, Lengths DEF ClientPlaced
  <2> QED
    BY <1>1, <2>1, <2>3, Lengths DEF Place
<1>3. CASE p = "server"
  <2>1. ServerPlaced(cfg, pc[p], Len(log[p]), consumed[p]) /\ Peer(p) = "client"
    BY <1>1, <1>3 DEF Placed, Peer
  <2>2. pc[p] \in {"readClientHello", "readCertificate", "readCertificateVerify",
                   "readFinished"}
    BY <2>1 DEF ServerPlaced, ReadLabels
  <2>3. /\ consumed[p] + 1 <= Flight(cfg, "client")
        /\ IF consumed[p] = 0 THEN Len(log[p]) = 0 ELSE Len(log[p]) = Flight(cfg, "server")
    BY <1>1, <2>1, <2>2, Lengths DEF ServerPlaced
  <2> QED
    BY <1>1, <2>1, <2>3, Lengths DEF Place
<1> QED
  BY <1>2, <1>3, EndpointSet

(* The checks that fail only when the two endpoints differ do not fail.    *)
LEMMA OnlyRefusals ==
  ASSUME TypeOK, ScriptInv, NEW p \in Endpoints, Pending(p), pc[p] \in ReadLabels
  PROVE  /\ ReadError(p) \in {None, "negotiation", "certificate", "signature"}
         /\ pc[p] = "done" => ReadError(p) = None
<1> DEFINE i == consumed[p] + 1
           q == Peer(p)
           n == Len(log[p]) + consumed[p]
<1>1. /\ NextRecord(p) = RecordOf(cfg, q, i) /\ i \in Nat \ {0}
      /\ Msg(p).val = ValOf(cfg, q, i) /\ Msg(p).proof = ProofOf(cfg, q, i)
      /\ Msg(p).type = TypeOf(cfg, q, i)
  BY NextOnScript
<1>2. /\ Len(log[p]) \in Nat /\ consumed[p] \in Nat /\ pc[p] # "failed" /\ q \in Endpoints
      /\ Knows(cfg, p, Hashed(cfg, pc[p], Len(log[p]), consumed[p]),
               transcript[p], keys[p], negotiated[p])
      /\ Opening(cfg, p, pc[p], in[p], consumed[p])
      /\ Placed(cfg, asked, p, pc[p], Len(log[p]), consumed[p])
  BY Here DEF ReadLabels
<1>3. Opens(in[p], NextRecord(p)) /\ Msg(p).type \in Expected(p)
  BY <1>1, <1>2, Ciphers, AwaitedType DEF Opening
<1>4. pc[p] = "readEncryptedExtensions" => AcceptsALPN(cfg[p].protos, Msg(p).val)
  <2> SUFFICES ASSUME pc[p] = "readEncryptedExtensions"
               PROVE  AcceptsALPN(cfg[p].protos, Msg(p).val)
    OBVIOUS
  <2>1. p = "client" /\ q = "server" /\ consumed[p] = 1
    BY <1>2, EndpointSet DEF Placed, ClientPlaced, ServerPlaced, Peer
  <2>2. Msg(p).type = "EncryptedExtensions"
    BY <1>1, <1>3 DEF Expected
  <2>3. Msg(p).val = SelectALPN(cfg["server"].protos, cfg["client"].protos)
    BY <1>1, <2>1, <2>2 DEF ValOf, Proto
  <2>4. cfg["server"].protos \in Seq(STRING)
    BY EndpointSet DEF TypeOK, Config
  <2> QED
    BY <2>1, <2>3, <2>4, ServerProtocolAccepted
<1>5. pc[p] = "readFinished" => FinishedError(p, Msg(p)) = None
  <2> SUFFICES ASSUME pc[p] = "readFinished"
               PROVE  FinishedError(p, Msg(p)) = None
    OBVIOUS
  <2>1. /\ Place(cfg, q, i) - 1 = n /\ n \in Nat /\ n > 1
    <3>1. Place(cfg, q, i) = Len(log[p]) + i
      BY ReadPlace DEF ReadLabels
    <3>2. n > 1
      BY <1>2, Lengths, EndpointSet DEF Placed, ClientPlaced, ServerPlaced
    <3> QED
      BY <1>2, <3>1, <3>2
  <2>2. transcript[p] = Prefix(cfg, n) /\ keys[p] = KeysAt(cfg, p, n)
    BY <1>2 DEF Knows, Hashed
  <2>3. Msg(p).type = "Finished"
    BY <1>1, <1>3 DEF Expected
  <2>4. Msg(p).proof = [key |-> ScriptHandshakeKey(cfg, q), over |-> Prefix(cfg, n)]
    BY <1>1, <2>1, <2>3 DEF ProofOf
  <2>5. HandshakeKey(keys[p], q) = ScriptHandshakeKey(cfg, q)
    BY <2>1, <2>2, KeysSettle
  <2> QED
    BY <2>2, <2>4, <2>5 DEF FinishedError
<1>6. pc[p] = "done" => Msg(p).type = "Data"
  BY <1>3 DEF Expected
<1> HIDE DEF i, q, n
<1>7. ReadError(p) \in {None, "negotiation", "certificate", "signature"}
  BY <1>3, <1>4, <1>5
     DEF ReadError, ClientHelloError, ServerHelloError, CertificateError, SignatureError,
         None
<1>8. pc[p] = "done" => ReadError(p) = None
  BY <1>3, <1>6 DEF ReadError
<1> QED
  BY <1>7, <1>8

---------------------------------------------------------------------------
(* What a step changes *)

(* A record two fields of which change.                                    *)
LEMMA TwoFields ==
  ASSUME NEW r, NEW d, NEW e
  PROVE  [r EXCEPT !.shared = d, !.hello = e] = [[r EXCEPT !.shared = d] EXCEPT !.hello = e]
OBVIOUS

(* The secrets an endpoint derives, and where it derives them.             *)
LEMMA KeysMove ==
  ASSUME NEW C, NEW p \in Endpoints
  PROVE  /\ KeysAt(C, p, 0) = NoKeys /\ KeysAt(C, "client", 1) = NoKeys
         /\ [NoKeys EXCEPT !.shared = OwnKeyShareGroup] = KeysAt(C, "server", 1)
         /\ [KeysAt(C, "server", 1) EXCEPT !.hello = Prefix(C, 2)] = KeysAt(C, "server", 2)
         /\ [KeysAt(C, "client", 1) EXCEPT !.shared = OwnKeyShareGroup,
                                           !.hello = Prefix(C, 2)] = KeysAt(C, "client", 2)
         /\ [KeysAt(C, p, Flight(C, "server")) EXCEPT
               !.finished = Prefix(C, Flight(C, "server") + 1)]
              = KeysAt(C, p, Flight(C, "server") + 1)
<1> DEFINE F == Flight(C, "server")
<1>1. F \in {5, 6}
  BY Lengths
<1> HIDE DEF F
<1>2. KeysAt(C, p, 0) = NoKeys /\ KeysAt(C, "client", 1) = NoKeys
  BY <1>1 DEF KeysAt, NoKeys, F
<1>3. [NoKeys EXCEPT !.shared = OwnKeyShareGroup] = KeysAt(C, "server", 1)
  BY <1>1 DEF KeysAt, NoKeys, F
<1>4. [KeysAt(C, "server", 1) EXCEPT !.hello = Prefix(C, 2)] = KeysAt(C, "server", 2)
  BY <1>1 DEF KeysAt, F
<1>5. [KeysAt(C, "client", 1) EXCEPT !.shared = OwnKeyShareGroup, !.hello = Prefix(C, 2)]
        = KeysAt(C, "client", 2)
  <2>1. KeysAt(C, "client", 2) =
          [shared |-> OwnKeyShareGroup, hello |-> Prefix(C, 2), finished |-> <<>>]
    BY <1>1 DEF KeysAt, F
  <2> DEFINE k == [NoKeys EXCEPT !.shared = OwnKeyShareGroup]
  <2>2. k = [shared |-> OwnKeyShareGroup, hello |-> <<>>, finished |-> <<>>]
    BY DEF NoKeys
  <2>3. [k EXCEPT !.hello = Prefix(C, 2)] = KeysAt(C, "client", 2)
    <3> HIDE DEF k
    <3> QED
      BY <2>1, <2>2
  <2> QED
    BY <1>2, <2>3, TwoFields
<1>6. [KeysAt(C, p, F) EXCEPT !.finished = Prefix(C, F + 1)] = KeysAt(C, p, F + 1)
  BY <1>1 DEF KeysAt, F
<1> QED
  BY <1>2, <1>3, <1>4, <1>5, <1>6 DEF F

(* What it reports as negotiated.                                          *)
LEMMA NegotiatedMove ==
  ASSUME NEW C, NEW p \in Endpoints
  PROVE  /\ NegotiatedAt(C, p, 0) = [suite |-> None, proto |-> None]
         /\ NegotiatedAt(C, "client", 1) = [suite |-> None, proto |-> None]
         /\ NegotiatedAt(C, "server", 1) = [suite |-> Suite(C), proto |-> Proto(C)]
         /\ NegotiatedAt(C, "server", 2) = NegotiatedAt(C, "server", 1)
         /\ [NegotiatedAt(C, "client", 1) EXCEPT !.suite = Suite(C)]
              = NegotiatedAt(C, "client", 2)
         /\ [NegotiatedAt(C, "client", 2) EXCEPT !.proto = Proto(C)]
              = NegotiatedAt(C, "client", 3)
BY DEF NegotiatedAt

(* Away from the hellos and the server's Finished both stay as they are.   *)
LEMMA NothingDerived ==
  ASSUME NEW C, NEW p \in Endpoints, NEW n \in Nat, n > 1
  PROVE  /\ n # Flight(C, "server") => KeysAt(C, p, n + 1) = KeysAt(C, p, n)
         /\ n > 2 \/ p = "server" => NegotiatedAt(C, p, n + 1) = NegotiatedAt(C, p, n)
<1>1. n # Flight(C, "server") => KeysAt(C, p, n + 1) = KeysAt(C, p, n)
  BY Lengths DEF KeysAt
<1>2. n > 2 \/ p = "server" => NegotiatedAt(C, p, n + 1) = NegotiatedAt(C, p, n)
  BY DEF NegotiatedAt
<1> QED
  BY <1>1, <1>2

(* A variable of which a step changes at most p's entry.                   *)
Changes(f, g, p) == IsPair(g) /\ g[Peer(p)] = f[Peer(p)]

(* Where an endpoint writes, and what.                                     *)
WrittenType(l) ==
  CASE l = "sendClientHello"         -> "ClientHello"
    [] l = "sendServerHello"         -> "ServerHello"
    [] l = "sendEncryptedExtensions" -> "EncryptedExtensions"
    [] l = "sendCertificateRequest"  -> "CertificateRequest"
    [] l = "sendCertificate"         -> "Certificate"
    [] l = "sendCertificateVerify"   -> "CertificateVerify"
    [] l = "sendFinished"            -> "Finished"

(* What the client writes next in each of its calls.                       *)
LEMMA ClientWrites ==
  ASSUME NEW C, NEW a, NEW l \in WriteLabels, NEW w \in Nat, NEW r \in Nat,
         ClientPlaced(C, a, l, w, r)
  PROVE  /\ w + 1 \in 1..Flight(C, "client") /\ Place(C, "client", w + 1) = w + 1 + r
         /\ l = "sendFinished" <=> w + 1 = Flight(C, "client")
         /\ TypeOf(C, "client", w + 1) = WrittenType(l)
<1> DEFINE i == w + 1
<1>1. \/ l = "sendClientHello" /\ i = 1 /\ r = 0
      \/ l = "sendCertificate" /\ i = 2 /\ r = Flight(C, "server") /\ Asks(C)
      \/ l = "sendCertificateVerify" /\ i = 3 /\ r = Flight(C, "server") /\ Asks(C)
      \/ l = "sendFinished" /\ i = Flight(C, "client") /\ r = Flight(C, "server")
  BY Lengths DEF ClientPlaced, WriteLabels
<1>2. i \in Nat \ {0}
  OBVIOUS
<1> HIDE DEF i
<1>3. i \in 1..Flight(C, "client") /\ Place(C, "client", i) = i + r
  BY <1>1, <1>2, Lengths DEF Place
<1>4. l = "sendFinished" <=> i = Flight(C, "client")
  BY <1>1, Lengths
<1>5. TypeOf(C, "client", i) = WrittenType(l)
  BY <1>1, <1>2, ClientTypes DEF WrittenType
<1> QED
  BY <1>3, <1>4, <1>5 DEF i

(* What the server writes next in each of its calls.                       *)
LEMMA ServerWrites ==
  ASSUME NEW C, NEW l \in WriteLabels, NEW w \in Nat, NEW r \in Nat,
         ServerPlaced(C, l, w, r)
  PROVE  /\ w + 1 \in 1..Flight(C, "server") /\ Place(C, "server", w + 1) = w + 1 + r
         /\ l = "sendFinished" <=> w + 1 = Flight(C, "server")
         /\ TypeOf(C, "server", w + 1) = WrittenType(l)
<1> DEFINE i == w + 1
<1>1. /\ \/ l = "sendServerHello" /\ i = 1
         \/ l = "sendEncryptedExtensions" /\ i = 2
         \/ l = "sendCertificateRequest" /\ i = 3 /\ Asks(C)
         \/ l = "sendCertificate" /\ i = Flight(C, "server") - 2
         \/ l = "sendCertificateVerify" /\ i = Flight(C, "server") - 1
         \/ l = "sendFinished" /\ i = Flight(C, "server")
      /\ r = 1
  BY Lengths DEF ServerPlaced, WriteLabels
<1>2. i \in Nat \ {0}
  OBVIOUS
<1> HIDE DEF i
<1>3. i \in 1..Flight(C, "server") /\ Place(C, "server", i) = i + r
  BY <1>1, <1>2, Lengths DEF Place
<1>4. l = "sendFinished" <=> i = Flight(C, "server")
  BY <1>1, Lengths
<1>5. TypeOf(C, "server", i) = WrittenType(l)
  BY <1>1, <1>2, ServerTypes DEF WrittenType
<1> QED
  BY <1>3, <1>4, <1>5 DEF i

(* Where the message an endpoint writes next is in the conversation.       *)
LEMMA WritePlace ==
  ASSUME TypeOK, ScriptInv, NEW p \in Endpoints, pc[p] \in WriteLabels
  PROVE  LET i == Len(log[p]) + 1 IN
         /\ i \in 1..Flight(cfg, p)
         /\ Place(cfg, p, i) = i + consumed[p]
         /\ pc[p] = "sendFinished" <=> i = Flight(cfg, p)
         /\ TypeOf(cfg, p, i) = WrittenType(pc[p])
<1>1. /\ Len(log[p]) \in Nat /\ consumed[p] \in Nat /\ pc[p] # "failed"
      /\ Placed(cfg, asked, p, pc[p], Len(log[p]), consumed[p])
  BY Here DEF WriteLabels
<1>2. CASE p = "client"
  BY <1>1, <1>2, ClientWrites DEF Placed
<1>3. CASE p = "server"
  BY <1>1, <1>3, ServerWrites DEF Placed
<1> QED
  BY <1>2, <1>3, EndpointSet

---------------------------------------------------------------------------
(* The steps of the handshake *)

(* The transcript grows by the next message of the conversation.           *)
LEMMA Hashes ==
  ASSUME IsPair(transcript), NEW p \in Endpoints, NEW n \in Nat,
         transcript[p] = Prefix(cfg, n), NEW m, Token(m) = Line(cfg, n + 1), Hash(p, m)
  PROVE  transcript'[p] = Prefix(cfg, n + 1) /\ Changes(transcript, transcript', p)
<1> DEFINE x == Append(transcript[p], Token(m))
<1>1. transcript' = [transcript EXCEPT ![p] = x]
  BY DEF Hash
<1>2. x = Prefix(cfg, n + 1)
  BY PrefixGrows
<1> HIDE DEF x
<1>3. Changes(transcript, transcript', p) /\ transcript'[p] = x
  BY <1>1, EndpointSet DEF Changes, IsPair
<1> QED
  BY <1>2, <1>3

(* Before the end of the handshake an endpoint has hashed what it has      *)
(* written and what it has read.                                           *)
LEMMA InHandshake ==
  ASSUME TypeOK, ScriptInv, NEW p \in Endpoints, pc[p] \notin {"failed", "done", "closed"}
  PROVE  LET n == Len(log[p]) + consumed[p] IN
         /\ n \in Nat /\ transcript[p] = Prefix(cfg, n)
         /\ keys[p] = KeysAt(cfg, p, n) /\ negotiated[p] = NegotiatedAt(cfg, p, n)
<1>1. /\ Len(log[p]) \in Nat /\ consumed[p] \in Nat
      /\ Knows(cfg, p, Hashed(cfg, pc[p], Len(log[p]), consumed[p]),
               transcript[p], keys[p], negotiated[p])
  BY Here
<1>2. Hashed(cfg, pc[p], Len(log[p]), consumed[p]) = Len(log[p]) + consumed[p]
  BY DEF Hashed
<1> QED
  BY <1>1, <1>2 DEF Knows

(* A call that writes hashes its message.                                  *)
LEMMA SendHashed ==
  ASSUME TypeOK, ScriptInv, NEW p \in Endpoints, pc[p] \in WriteLabels,
         NEW i, i = Len(log[p]) + 1, NEW body, body = MessageOf(cfg, p, i), Hash(p, body)
  PROVE  /\ transcript'[p] = Prefix(cfg, i + consumed[p])
         /\ Changes(transcript, transcript', p)
<1> DEFINE n == Len(log[p]) + consumed[p]
<1>1. n \in Nat /\ n + 1 = i + consumed[p] /\ transcript[p] = Prefix(cfg, n) /\ Pairs
  <2>1. Len(log[p]) \in Nat /\ consumed[p] \in Nat /\ Pairs
    BY Here
  <2>2. n \in Nat /\ transcript[p] = Prefix(cfg, n)
    BY InHandshake DEF WriteLabels
  <2> QED
    BY <2>1, <2>2
<1>2. Token(body) = TokenOf(cfg, p, i)
  BY DEF MessageOf, Message, Token, TokenOf
<1>3. Line(cfg, n + 1) = TokenOf(cfg, p, i)
  BY <1>1, WritePlace, LineAtPlace
<1> HIDE DEF n
<1> QED
  BY <1>1, <1>2, <1>3, Hashes DEF Pairs

(* A call that reads hashes the message it gets.                           *)
LEMMA ReadHashed ==
  ASSUME TypeOK, ScriptInv, NEW p \in Endpoints, pc[p] \in ReadLabels \ {"done"},
         Pending(p), NEW i, i = consumed[p] + 1, Hash(p, Msg(p))
  PROVE  /\ transcript'[p] = Prefix(cfg, Len(log[p]) + i)
         /\ Changes(transcript, transcript', p)
<1> DEFINE n == Len(log[p]) + consumed[p]
<1>1. /\ n \in Nat /\ n + 1 = Len(log[p]) + i /\ transcript[p] = Prefix(cfg, n) /\ Pairs
      /\ Peer(p) \in Endpoints
  <2>1. Len(log[p]) \in Nat /\ consumed[p] \in Nat /\ Pairs /\ Peer(p) \in Endpoints
    BY Here
  <2>2. n \in Nat /\ transcript[p] = Prefix(cfg, n)
    BY InHandshake DEF ReadLabels
  <2> QED
    BY <2>1, <2>2
<1>2. Token(Msg(p)) = TokenOf(cfg, Peer(p), i)
  BY NextOnScript
<1>3. Line(cfg, n + 1) = TokenOf(cfg, Peer(p), i)
  BY <1>1, ReadPlace, LineAtPlace
<1> HIDE DEF n
<1> QED
  BY <1>1, <1>2, <1>3, Hashes DEF Pairs

(* A call that writes the record the script has next, and leaves p with    *)
(* the secrets and ciphers of its next place, keeps the invariant.         *)
LEMMA OneSends ==
  ASSUME TypeOK, ScriptInv, NEW p \in Endpoints, pc[p] \in WriteLabels, TypeOK',
         NEW m, m \notin {"failed", "closed"}, pc' = [pc EXCEPT ![p] = m],
         m = "done" <=> p = "client" /\ pc[p] = "sendFinished",
         NEW i, i = Len(log[p]) + 1, NEW body, body = MessageOf(cfg, p, i),
         NEW cipher, cipher = CipherOf(cfg, p, i),
         log' = [log EXCEPT ![p] = Append(@, Seal(cipher, body))], Hash(p, body),
         UNCHANGED <<cfg, negotiated, asked, consumed, delivered>>,
         Changes(keys, keys', p), Changes(in, in', p), Changes(out, out', p),
         keys'[p] = KeysAt(cfg, p, i + consumed[p]),
         negotiated[p] = NegotiatedAt(cfg, p, i + consumed[p]),
         Placed(cfg, asked, p, m, i, consumed[p]),
         Opening(cfg, p, m, in'[p], consumed[p]), Sealing(cfg, p, m, out'[p], i),
         pc[p] = "sendServerHello" => Suite(cfg) # None,
         pc[p] = "sendCertificate" => cfg[p].cert,
         pc[p] = "sendCertificateVerify" => cfg[p].key # "nil"
  PROVE  ScriptInv'
<1> DEFINE r == consumed[p]
           n == i + r
<1>1. /\ Len(log[p]) \in Nat /\ r \in Nat /\ Peer(p) \in Endpoints
      /\ IsSequence(log[p]) /\ r <= Len(log[Peer(p)]) /\ Follows(p) /\ Pairs
      /\ pc[p] \notin {"failed", "done", "closed"}
      /\ Placed(cfg, asked, p, pc[p], Len(log[p]), r)
      /\ Knows(cfg, p, Hashed(cfg, pc[p], Len(log[p]), r),
               transcript[p], keys[p], negotiated[p])
  BY Here DEF WriteLabels
<1>2. /\ i \in 1..Flight(cfg, p) /\ Place(cfg, p, i) = n
      /\ pc[p] = "sendFinished" <=> i = Flight(cfg, p)
      /\ TypeOf(cfg, p, i) = WrittenType(pc[p]) /\ i \in Nat /\ n \in Nat /\ n - 1 \in Nat
  BY <1>1, WritePlace
<1>3. /\ IsSequence(log'[p]) /\ Len(log'[p]) = i
      /\ \A j \in 1..Len(log[p]) : log'[p][j] = log[p][j]
      /\ log'[p][i] = RecordOf(cfg, p, i)
      /\ Changes(log, log', p)
  <2>1. log'[p] = Append(log[p], RecordOf(cfg, p, i)) /\ Changes(log, log', p)
    <3>1. Seal(cipher, body) = RecordOf(cfg, p, i)
      BY DEF RecordOf
    <3>2. IsPair(log)
      BY <1>1 DEF Pairs
    <3> DEFINE x == Append(log[p], RecordOf(cfg, p, i))
    <3>3. log' = [log EXCEPT ![p] = x]
      BY <3>1
    <3> HIDE DEF x
    <3>4. Changes(log, log', p) /\ log'[p] = x
      BY <3>2, <3>3, EndpointSet DEF Changes, IsPair
    <3> QED
      BY <3>4 DEF x
  <2> QED
    BY <1>1, <2>1, AppendSequence
<1>4. transcript'[p] = Prefix(cfg, n) /\ Changes(transcript, transcript', p)
  BY SendHashed
<1>5. pc'[p] = m /\ \A q \in Endpoints : q # p => pc'[q] = pc[q]
  BY DEF TypeOK
<1>6. Hashed(cfg, m, i, r) = n
  <2>1. CASE m = "done"
    <3>1. p = "client" /\ i = Flight(cfg, "client") /\ r = Flight(cfg, "server")
      BY <1>1, <1>2, <2>1 DEF Placed, ClientPlaced
    <3> QED
      BY <2>1, <3>1 DEF Hashed, Total
  <2> QED
    BY <2>1 DEF Hashed
<1>7. OnScript(cfg, p, log'[p])
  <2>1. \A j \in 1..i : j \in 1..Len(log[p]) \/ j = i
    BY <1>1
  <2>2. /\ TypeOf(cfg, p, i) = "ServerHello" => Suite(cfg) # None
        /\ TypeOf(cfg, p, i) = "Certificate" => cfg[p].cert
        /\ TypeOf(cfg, p, i) = "CertificateVerify" => cfg[p].key # "nil"
    BY <1>2 DEF WrittenType, WriteLabels
  <2>3. OnScript(cfg, p, log[p])
    BY <1>1 DEF Follows
  <2> QED
    BY <1>3, <2>1, <2>2, <2>3 DEF OnScript
<1>8. Outcome(cfg, p, m, i, r, delivered[p])
  <2>1. IsSequence(delivered[p]) /\ Len(delivered[p]) = 0
    BY <1>1 DEF Follows, Outcome
  <2>2. m = "done" => r = Flight(cfg, Peer(p)) /\ p = "client"
    BY <1>1 DEF Placed, ClientPlaced, Peer
  <2>3. i <= Flight(cfg, p) /\ (p = "client" /\ i = Flight(cfg, p) => m = "done")
    BY <1>2
  <2>4. Flight(cfg, p) \in Nat
    BY Lengths, EndpointSet
  <2>5. m = "done" => r - Flight(cfg, Peer(p)) = 0
    BY <1>1, <2>2
  <2> QED
    BY <1>2, <2>1, <2>3, <2>4, <2>5 DEF Outcome
<1>9. Knows(cfg, p, n, transcript'[p], keys'[p], negotiated[p])
  BY <1>4 DEF Knows
<1>10. Playing(p)'
  BY <1>3, <1>5, <1>6, <1>9 DEF Playing
<1>11. Follows(p)'
  BY <1>3, <1>5, <1>7, <1>8, <1>10 DEF Follows
<1>12. Pairs'
  <2>1. \A q \in Endpoints : IsSequence(log'[q])
    BY <1>1, <1>3, EndpointSet DEF Pairs, Changes, Peer
  <2> QED
    BY <1>1, <1>3, <1>4, <2>1 DEF Pairs, Changes
<1>13. Alone(p)
  BY <1>1, <1>3, <1>4, <1>5, EndpointSet DEF Changes, Alone
<1> QED
  BY <1>1, <1>3, <1>11, <1>12, <1>13, OneMoves

(* A call that reads the record the script has next does, too.             *)
LEMMA OneReads ==
  ASSUME TypeOK, ScriptInv, NEW p \in Endpoints, pc[p] \in ReadLabels \ {"done"}, TypeOK',
         Pending(p), NEW m, m \notin {"failed", "closed"}, pc' = [pc EXCEPT ![p] = m],
         m = "done" <=> p = "server" /\ pc[p] = "readFinished",
         NEW i, i = consumed[p] + 1,
         consumed' = [consumed EXCEPT ![p] = @ + 1], Hash(p, Msg(p)),
         UNCHANGED <<cfg, log, delivered>>, asked' = asked \/ p = "client",
         Changes(keys, keys', p), Changes(in, in', p), Changes(out, out', p),
         Changes(negotiated, negotiated', p),
         keys'[p] = KeysAt(cfg, p, Len(log[p]) + i),
         negotiated'[p] = NegotiatedAt(cfg, p, Len(log[p]) + i),
         Placed(cfg, asked', p, m, Len(log[p]), i),
         Opening(cfg, p, m, in'[p], i), Sealing(cfg, p, m, out'[p], Len(log[p]))
  PROVE  ScriptInv'
<1> DEFINE w == Len(log[p])
           n == w + i
           q == Peer(p)
<1>1. /\ w \in Nat /\ consumed[p] \in Nat /\ q \in Endpoints /\ q # p
      /\ Follows(p) /\ Pairs /\ pc[p] \notin {"failed", "done", "closed"}
      /\ Placed(cfg, asked, p, pc[p], w, consumed[p])
      /\ Knows(cfg, p, Hashed(cfg, pc[p], w, consumed[p]),
               transcript[p], keys[p], negotiated[p])
  BY Here, EndpointSet DEF ReadLabels
<1>2. /\ i \in 1..Flight(cfg, q) /\ Place(cfg, q, i) = n
      /\ Token(Msg(p)) = TokenOf(cfg, q, i) /\ i <= Len(log[q])
  BY ReadPlace, NextOnScript DEF ReadLabels
<1>3. consumed'[p] = i /\ Changes(consumed, consumed', p)
  BY <1>1 DEF TypeOK, Changes, IsPair
<1>4. transcript'[p] = Prefix(cfg, n) /\ Changes(transcript, transcript', p)
  BY ReadHashed
<1>5. pc'[p] = m /\ \A e \in Endpoints : e # p => pc'[e] = pc[e]
  BY DEF TypeOK
<1>6. m = "done" => /\ p = "server" /\ q = "client"
                    /\ w = Flight(cfg, "server") /\ i = Flight(cfg, "client")
  BY <1>1, Lengths DEF Placed, ServerPlaced, Peer
<1>7. Hashed(cfg, m, w, i) = n
  <2>1. CASE m = "done"
    <3>1. Total(cfg) = w + i
      BY <1>1, <1>2, <1>6, <2>1 DEF Total
    <3> QED
      BY <2>1, <3>1 DEF Hashed
  <2> QED
    BY <2>1 DEF Hashed
<1>8. Outcome(cfg, p, m, w, i, delivered[p])
  <2>1. /\ IsSequence(delivered[p]) /\ Len(delivered[p]) = 0
        /\ ~(w > Flight(cfg, p) \/ (p = "client" /\ w = Flight(cfg, p)))
    BY <1>1 DEF Follows, Outcome
  <2>2. m = "done" => i - Flight(cfg, Peer(p)) = 0
    BY <1>2, <1>6
  <2> QED
    BY <2>1, <2>2 DEF Outcome
<1>9. Knows(cfg, p, n, transcript'[p], keys'[p], negotiated'[p])
  BY <1>4 DEF Knows
<1>10. Playing(p)'
  BY <1>3, <1>5, <1>7, <1>9 DEF Playing
<1>11. Follows(p)'
  BY <1>1, <1>3, <1>5, <1>8, <1>10 DEF Follows
<1>12. Pairs'
  BY <1>1, <1>3, <1>4 DEF Pairs, Changes
<1>13. Alone(p)
  BY <1>1, <1>3, <1>4, <1>5 DEF Changes, Alone
<1> QED
  BY <1>1, <1>2, <1>3, <1>11, <1>12, <1>13, OneMoves

(* An endpoint that fails in its handshake has written what the script has *)
(* and nothing more.                                                       *)
LEMMA OneFails ==
  ASSUME TypeOK, ScriptInv, NEW p \in Endpoints, TypeOK',
         pc[p] \notin {"failed", "done", "closed"}, pc' = [pc EXCEPT ![p] = "failed"],
         UNCHANGED <<cfg, log, delivered>>, asked' = asked \/ p = "client",
         Changes(transcript, transcript', p), Changes(keys, keys', p),
         Changes(in, in', p), Changes(out, out', p),
         Changes(negotiated, negotiated', p), Changes(consumed, consumed', p),
         consumed'[p] <= Len(log[Peer(p)])
  PROVE  ScriptInv'
<1>1. /\ Len(log[p]) \in Nat /\ Peer(p) \in Endpoints /\ Peer(p) # p
      /\ Follows(p) /\ Pairs
  BY Here, EndpointSet
<1>2. pc'[p] = "failed" /\ \A q \in Endpoints : q # p => pc'[q] = pc[q]
  BY DEF TypeOK
<1>3. Outcome(cfg, p, "failed", Len(log[p]), consumed'[p], delivered[p])
  BY <1>1 DEF Follows, Outcome
<1>4. Follows(p)'
  BY <1>1, <1>2, <1>3 DEF Follows, Playing
<1>5. Pairs'
  BY <1>1 DEF Pairs, Changes
<1>6. Alone(p)
  BY <1>1, <1>2 DEF Changes, Alone
<1> QED
  BY <1>1, <1>4, <1>5, <1>6, OneMoves

(* The same when the step only sets pc.                                    *)
LEMMA OneQuits ==
  ASSUME TypeOK, ScriptInv, NEW p \in Endpoints, TypeOK',
         pc[p] \notin {"failed", "done", "closed"}, pc' = [pc EXCEPT ![p] = "failed"],
         UNCHANGED <<cfg, conn, wire>>
  PROVE  ScriptInv'
<1>1. Pairs /\ consumed[p] <= Len(log[Peer(p)])
  BY Here
<1>2. \A f : IsPair(f) => Changes(f, f, p)
  BY DEF Changes
<1> QED
  BY <1>1, <1>2, OneFails DEF conn, wire, Pairs

---------------------------------------------------------------------------
(* The session after the handshake *)

(* Among records that are on the script, the application's are those after *)
(* the flight.                                                             *)
LEMMA DataRecords ==
  ASSUME NEW C, NEW p \in Endpoints, NEW s, Len(s) \in Nat, OnScript(C, p, s)
  PROVE  Cardinality({i \in 1..Len(s) : s[i].body.type = "Data"}) =
           IF Len(s) > Flight(C, p) THEN Len(s) - Flight(C, p) ELSE 0
<1> DEFINE w == Len(s)
           F == Flight(C, p)
           D == {i \in 1..w : s[i].body.type = "Data"}
<1>1. w \in Nat /\ F \in Nat
  BY Lengths, EndpointSet
<1>2. \A i \in 1..w : s[i].body.type = TypeOf(C, p, i)
  <2> TAKE i \in 1..w
  <2>1. s[i] = RecordOf(C, p, i)
    BY DEF OnScript
  <2> QED
    BY <2>1 DEF RecordOf, MessageOf, Message, Seal
<1>3. \A i \in 1..w : TypeOf(C, p, i) = "Data" <=> i > F
  BY <1>1, DataType
<1>4. D = (F + 1) .. w
  <2> HIDE DEF F
  <2>1. \A i \in D : i \in (F + 1) .. w
    BY <1>1, <1>2, <1>3
  <2>2. \A i \in (F + 1) .. w : i \in D
    BY <1>1, <1>2, <1>3
  <2> QED
    BY <2>1, <2>2
<1> HIDE DEF w, F
<1>5. Cardinality((F + 1) .. w) = IF F + 1 > w THEN 0 ELSE w - (F + 1) + 1
  BY <1>1, FS_Interval
<1>6. Cardinality((F + 1) .. w) = IF w > F THEN w - F ELSE 0
  BY <1>1, <1>5
<1>7. Cardinality(D) = IF w > F THEN w - F ELSE 0
  BY <1>4, <1>6
<1> QED
  BY <1>7 DEF w, F

(* The same of an endpoint.                                                *)
LEMMA WrittenRecords ==
  ASSUME TypeOK, ScriptInv, NEW p \in Endpoints
  PROVE  Written(p) = IF Len(log[p]) > Flight(cfg, p)
                        THEN Len(log[p]) - Flight(cfg, p) ELSE 0
<1>1. Len(log[p]) \in Nat /\ OnScript(cfg, p, log[p])
  BY Here DEF Follows
<1> QED
  BY <1>1, DataRecords DEF Written

(* Write.                                                                  *)
LEMMA ScriptWrite ==
  ASSUME TypeOK, ScriptInv, TypeOK', NEW p \in Endpoints, Write(p)
  PROVE  ScriptInv'
<1> DEFINE i == Len(log[p]) + 1
<1>1. /\ Len(log[p]) \in Nat /\ consumed[p] \in Nat /\ Peer(p) \in Endpoints
      /\ IsSequence(log[p]) /\ consumed[p] <= Len(log[Peer(p)])
      /\ Follows(p) /\ Pairs /\ pc[p] = "done"
      /\ Placed(cfg, asked, p, "done", Len(log[p]), consumed[p])
      /\ Knows(cfg, p, Total(cfg), transcript[p], keys[p], negotiated[p])
      /\ Sealing(cfg, p, "done", out[p], Len(log[p]))
      /\ Opening(cfg, p, "done", in[p], consumed[p])
  BY Here DEF Write, Hashed
<1>2. Len(log[p]) >= Flight(cfg, p) /\ Flight(cfg, p) \in 2..6
  BY <1>1, Lengths, EndpointSet DEF Placed, ClientPlaced, ServerPlaced
<1>3. /\ out[p] = CipherOf(cfg, p, i) /\ Advance(out[p]) = CipherOf(cfg, p, i + 1)
  BY <1>1, <1>2, Ciphers DEF Sealing
<1>4. Message("Data", p, Written(p) + 1, None) = MessageOf(cfg, p, i)
  <2>1. TypeOf(cfg, p, i) = "Data"
    BY <1>1, <1>2 DEF TypeOf
  <2>2. Written(p) + 1 = i - Flight(cfg, p)
    BY <1>1, <1>2, WrittenRecords
  <2> QED
    BY <2>1, <2>2 DEF MessageOf, ValOf, ProofOf
<1>5. /\ log' = [log EXCEPT ![p] = Append(@, RecordOf(cfg, p, i))]
      /\ out' = [out EXCEPT ![p] = CipherOf(cfg, p, i + 1)]
      /\ UNCHANGED <<cfg, pc, transcript, keys, in, negotiated, asked, consumed, delivered>>
  BY <1>3, <1>4 DEF Write, WriteRecord, RecordOf
<1> DEFINE x == Append(log[p], RecordOf(cfg, p, i))
<1>6. /\ IsSequence(x) /\ Len(x) = i /\ x[i] = RecordOf(cfg, p, i)
      /\ \A j \in 1..Len(log[p]) : x[j] = log[p][j]
  BY <1>1, AppendSequence
<1>7. log' = [log EXCEPT ![p] = x]
  BY <1>5
<1> HIDE DEF x
<1>8. Changes(log, log', p) /\ log'[p] = x
  BY <1>1, <1>7, EndpointSet DEF Pairs, Changes, IsPair
<1>9. Changes(out, out', p) /\ out'[p] = CipherOf(cfg, p, i + 1)
  BY <1>1, <1>5, EndpointSet DEF Pairs, Changes, IsPair
<1>10. OnScript(cfg, p, log'[p])
  <2>1. \A j \in 1..i : j \in 1..Len(log[p]) \/ j = i
    BY <1>1
  <2>2. TypeOf(cfg, p, i) = "Data"
    BY <1>1, <1>2 DEF TypeOf
  <2>3. OnScript(cfg, p, log[p])
    BY <1>1 DEF Follows
  <2> QED
    BY <1>6, <1>8, <2>1, <2>2, <2>3 DEF OnScript
<1>11. Outcome(cfg, p, "done", i, consumed[p], delivered[p])
  BY <1>1 DEF Follows, Outcome
<1>12. Placed(cfg, asked, p, "done", i, consumed[p])
  BY <1>1, <1>2, EndpointSet DEF Placed, ClientPlaced, ServerPlaced
<1>13. Sealing(cfg, p, "done", out'[p], i)
  BY <1>9 DEF Sealing, BeforeKeys
<1>14. Hashed(cfg, "done", i, consumed[p]) = Total(cfg)
  BY DEF Hashed
<1>15. Playing(p)'
  BY <1>1, <1>5, <1>6, <1>8, <1>12, <1>13, <1>14 DEF Playing
<1>16. Follows(p)'
  BY <1>1, <1>5, <1>6, <1>8, <1>10, <1>11, <1>15 DEF Follows
<1>17. Pairs'
  <2>1. \A q \in Endpoints : IsSequence(log'[q])
    BY <1>1, <1>6, <1>8, EndpointSet DEF Pairs, Changes, Peer
  <2> QED
    BY <1>1, <1>5, <1>8, <1>9, <2>1 DEF Pairs, Changes
<1>18. Alone(p)
  BY <1>1, <1>5, <1>8, <1>9, EndpointSet DEF Changes, Alone
<1> QED
  BY <1>1, <1>5, <1>6, <1>8, <1>16, <1>17, <1>18, OneMoves

(* Read: the next application record has the next number.                  *)
LEMMA ScriptRead ==
  ASSUME TypeOK, ScriptInv, TypeOK', NEW p \in Endpoints, Read(p)
  PROVE  /\ ScriptInv'
         /\ Msg(p).val = Len(delivered[p]) + 1
         /\ Len(delivered[p]) + 1 <= Len(log[Peer(p)]) - Flight(cfg, Peer(p))
<1> DEFINE i == consumed[p] + 1
           q == Peer(p)
           F == Flight(cfg, q)
<1>1. /\ Len(log[p]) \in Nat /\ consumed[p] \in Nat /\ q \in Endpoints /\ q # p
      /\ Follows(p) /\ Pairs /\ pc[p] = "done" /\ Pending(p)
      /\ Placed(cfg, asked, p, "done", Len(log[p]), consumed[p])
      /\ Knows(cfg, p, Total(cfg), transcript[p], keys[p], negotiated[p])
      /\ Sealing(cfg, p, "done", out[p], Len(log[p]))
      /\ Opening(cfg, p, "done", in[p], consumed[p])
  BY Here, EndpointSet DEF Read, Accepts, Hashed
<1>2. consumed[p] >= F /\ F \in 2..6
  BY <1>1, Lengths, EndpointSet DEF Placed, ClientPlaced, ServerPlaced, Peer
<1>3. Msg(p).val = ValOf(cfg, q, i) /\ i <= Len(log[q]) /\ Len(log[q]) \in Nat
  BY <1>1, NextOnScript, Here
<1>4. Msg(p).val = i - F
  <2>1. TypeOf(cfg, q, i) = "Data"
    BY <1>1, <1>2, DataType
  <2> QED
    BY <1>3, <2>1 DEF ValOf
<1>5. IsSequence(delivered[p]) /\ Len(delivered[p]) = consumed[p] - F
  BY <1>1 DEF Follows, Outcome
<1>6. Advance(in[p]) = CipherOf(cfg, q, i + 1)
  <2>1. in[p] = CipherOf(cfg, q, i)
    BY <1>1 DEF Opening, ReadLabels
  <2> QED
    BY <1>1, <1>2, <2>1, Ciphers
<1>7. /\ consumed' = [consumed EXCEPT ![p] = i]
      /\ in' = [in EXCEPT ![p] = CipherOf(cfg, q, i + 1)]
      /\ delivered' = [delivered EXCEPT ![p] = Append(@, i - F)]
      /\ UNCHANGED <<cfg, pc, transcript, keys, out, negotiated, asked, log>>
  BY <1>4, <1>6 DEF Read, ReadRecord
<1> DEFINE x == Append(delivered[p], i - F)
<1>8. IsSequence(x) /\ Len(x) = i - F
  BY <1>1, <1>2, <1>5, AppendSequence
<1>9. delivered' = [delivered EXCEPT ![p] = x]
  BY <1>7
<1> HIDE DEF x
<1>10. /\ Changes(delivered, delivered', p) /\ delivered'[p] = x
       /\ Changes(consumed, consumed', p) /\ consumed'[p] = i
       /\ Changes(in, in', p) /\ in'[p] = CipherOf(cfg, q, i + 1)
  BY <1>1, <1>7, <1>9, EndpointSet DEF Pairs, Changes, IsPair
<1>11. Outcome(cfg, p, "done", Len(log[p]), i, delivered'[p])
  BY <1>1, <1>8, <1>10 DEF Outcome
<1>12. Placed(cfg, asked, p, "done", Len(log[p]), i)
  BY <1>1, <1>2, EndpointSet DEF Placed, ClientPlaced, ServerPlaced, Peer
<1>13. Opening(cfg, p, "done", in'[p], i)
  BY <1>10 DEF Opening
<1>14. Hashed(cfg, "done", Len(log[p]), i) = Total(cfg)
  BY DEF Hashed
<1>15. Playing(p)'
  BY <1>1, <1>7, <1>10, <1>12, <1>13, <1>14 DEF Playing
<1>16. Follows(p)'
  BY <1>1, <1>7, <1>10, <1>11, <1>15 DEF Follows
<1>17. Pairs'
  BY <1>1, <1>7, <1>10 DEF Pairs, Changes
<1>18. Alone(p)
  BY <1>1, <1>7, <1>10 DEF Changes, Alone
<1>19. ScriptInv'
  BY <1>1, <1>3, <1>7, <1>10, <1>16, <1>17, <1>18, OneMoves
<1>20. i - F = Len(delivered[p]) + 1 /\ i - F <= Len(log[q]) - F
  BY <1>1, <1>2, <1>3, <1>5
<1> QED
  BY <1>4, <1>19, <1>20

(* Close.                                                                  *)
LEMMA ScriptClose ==
  ASSUME TypeOK, ScriptInv, TypeOK', NEW p \in Endpoints, Close(p)
  PROVE  ScriptInv'
<1>1. /\ Len(log[p]) \in Nat /\ consumed[p] \in Nat /\ Peer(p) \in Endpoints
      /\ Peer(p) # p /\ consumed[p] <= Len(log[Peer(p)])
      /\ Follows(p) /\ Pairs /\ pc[p] = "done"
      /\ Placed(cfg, asked, p, "done", Len(log[p]), consumed[p])
      /\ Knows(cfg, p, Total(cfg), transcript[p], keys[p], negotiated[p])
  BY Here, EndpointSet DEF Close, Hashed
<1>2. /\ pc'[p] = "closed" /\ \A q \in Endpoints : q # p => pc'[q] = pc[q]
      /\ UNCHANGED <<cfg, conn, wire>>
  BY DEF TypeOK, Close, Goto
<1>3. /\ Placed(cfg, asked, p, "closed", Len(log[p]), consumed[p])
      /\ Hashed(cfg, "closed", Len(log[p]), consumed[p]) = Total(cfg)
      /\ Outcome(cfg, p, "closed", Len(log[p]), consumed[p], delivered[p])
      /\ Opening(cfg, p, "closed", in[p], consumed[p])
      /\ Sealing(cfg, p, "closed", out[p], Len(log[p]))
  <2>1. Placed(cfg, asked, p, "closed", Len(log[p]), consumed[p])
    BY <1>1 DEF Placed, ClientPlaced, ServerPlaced
  <2>2. /\ Hashed(cfg, "closed", Len(log[p]), consumed[p]) = Total(cfg)
        /\ Opening(cfg, p, "closed", in[p], consumed[p])
        /\ Sealing(cfg, p, "closed", out[p], Len(log[p]))
    BY DEF Hashed, Opening, Sealing, ReadLabels, WriteLabels, BeforeKeys
  <2>3. Outcome(cfg, p, "closed", Len(log[p]), consumed[p], delivered[p])
    BY <1>1 DEF Follows, Outcome
  <2> QED
    BY <2>1, <2>2, <2>3
<1>4. Playing(p)'
  BY <1>1, <1>2, <1>3 DEF Playing, conn, wire
<1>5. Follows(p)'
  BY <1>1, <1>2, <1>3, <1>4 DEF Follows, conn, wire
<1>6. Pairs' /\ Alone(p)
  BY <1>1, <1>2 DEF Pairs, Alone, conn, wire
<1> QED
  BY <1>1, <1>2, <1>5, <1>6, OneMoves DEF conn, wire

---------------------------------------------------------------------------
(* The handshake, call by call *)

(* The places in the middle of an encrypted flight.                        *)
LEMMA WritingFlight ==
  ASSUME NEW C, NEW a, NEW p \in Endpoints, NEW w \in Nat, NEW r \in Nat,
         NEW l \in {"sendEncryptedExtensions", "sendCertificateRequest",
                    "sendCertificate", "sendCertificateVerify"},
         Placed(C, a, p, l, w, r)
  PROVE  /\ w >= 1 /\ w + 1 # Flight(C, p)
         /\ w + r > 1 /\ w + r # Flight(C, "server") /\ (w + r > 2 \/ p = "server")
BY Lengths, EndpointSet DEF Placed, ClientPlaced, ServerPlaced

(* A certificate and its signature are neither first nor last in a flight. *)
LEMMA ReadingFlight ==
  ASSUME NEW C, NEW a, NEW p \in Endpoints, NEW w \in Nat, NEW r \in Nat,
         NEW l \in {"readCertificate", "readCertificateVerify"},
         Placed(C, a, p, l, w, r)
  PROVE  /\ r >= 1 /\ r + 1 # Flight(C, Peer(p))
         /\ w + r > 2 /\ w + r # Flight(C, "server")
<1>1. CASE p = "client"
  BY <1>1, Lengths DEF Placed, ClientPlaced, Peer
<1>2. CASE p = "server"
  BY <1>2, Lengths DEF Placed, ServerPlaced, Peer
<1> QED
  BY <1>1, <1>2, EndpointSet

(* A message in the middle of an encrypted flight is sent.                 *)
LEMMA SendsEncrypted ==
  ASSUME TypeOK, ScriptInv, NEW p \in Endpoints, TypeOK',
         pc[p] \in {"sendEncryptedExtensions", "sendCertificateRequest",
                    "sendCertificate", "sendCertificateVerify"},
         NEW m \in {"sendCertificateRequest", "sendCertificate", "sendCertificateVerify",
                    "sendFinished"}, pc' = [pc EXCEPT ![p] = m],
         NEW body, body = MessageOf(cfg, p, Len(log[p]) + 1),
         WriteRecord(p, out[p], body), Hash(p, body),
         UNCHANGED <<cfg, keys, in, negotiated, asked, consumed, delivered>>,
         Placed(cfg, asked, p, m, Len(log[p]) + 1, consumed[p]),
         pc[p] = "sendCertificate" => cfg[p].cert,
         pc[p] = "sendCertificateVerify" => cfg[p].key # "nil"
  PROVE  ScriptInv'
<1> DEFINE w == Len(log[p])
           r == consumed[p]
           i == w + 1
<1>1. /\ w \in Nat /\ r \in Nat /\ Pairs
      /\ Placed(cfg, asked, p, pc[p], w, r) /\ Sealing(cfg, p, pc[p], out[p], w)
      /\ keys[p] = KeysAt(cfg, p, w + r) /\ negotiated[p] = NegotiatedAt(cfg, p, w + r)
  BY Here DEF Knows, Hashed
<1>2. /\ w >= 1 /\ w + 1 # Flight(cfg, p)
      /\ w + r > 1 /\ w + r # Flight(cfg, "server") /\ (w + r > 2 \/ p = "server")
  BY <1>1, WritingFlight
<1>3. out[p] = CipherOf(cfg, p, i) /\ Advance(out[p]) = CipherOf(cfg, p, i + 1)
  BY <1>1, <1>2, Ciphers DEF Sealing, WriteLabels
<1>4. /\ keys'[p] = KeysAt(cfg, p, i + r) /\ negotiated[p] = NegotiatedAt(cfg, p, i + r)
  <2> DEFINE n == w + r
  <2>1. /\ n + 1 = i + r /\ n \in Nat /\ n > 1 /\ (n > 2 \/ p = "server")
        /\ n # Flight(cfg, "server")
    BY <1>1, <1>2
  <2>2. keys[p] = KeysAt(cfg, p, n) /\ negotiated[p] = NegotiatedAt(cfg, p, n)
    BY <1>1
  <2> HIDE DEF n, w, r, i
  <2>3. /\ KeysAt(cfg, p, n + 1) = KeysAt(cfg, p, n)
        /\ NegotiatedAt(cfg, p, n + 1) = NegotiatedAt(cfg, p, n)
    BY <2>1, NothingDerived
  <2> QED
    BY <2>1, <2>2, <2>3
<1>5. /\ Changes(keys, keys', p) /\ Changes(in, in', p) /\ Changes(out, out', p)
      /\ out'[p] = CipherOf(cfg, p, i + 1)
  BY <1>1, <1>3, EndpointSet DEF WriteRecord, Pairs, Changes, IsPair
<1>6. Opening(cfg, p, m, in'[p], r) /\ Sealing(cfg, p, m, out'[p], i)
  BY <1>5 DEF Opening, Sealing, ReadLabels, BeforeKeys
<1>7. log' = [log EXCEPT ![p] = Append(@, Seal(out[p], body))]
  BY DEF WriteRecord
<1>8. pc[p] \in WriteLabels
  BY DEF WriteLabels
<1> QED
  BY <1>3, <1>4, <1>5, <1>6, <1>7, <1>8, OneSends

(* A message in the middle of an encrypted flight is read.                 *)
LEMMA ReadsEncrypted ==
  ASSUME TypeOK, ScriptInv, NEW p \in Endpoints, TypeOK',
         pc[p] \in {"readCertificate", "readCertificateVerify"}, Pending(p),
         NEW m \in {"readCertificate", "readCertificateVerify", "readFinished"},
         pc' = [pc EXCEPT ![p] = m],
         consumed' = [consumed EXCEPT ![p] = @ + 1], Hash(p, Msg(p)),
         in' = [in EXCEPT ![p] = Advance(@)],
         UNCHANGED <<cfg, keys, out, negotiated, log, delivered>>,
         asked' = asked \/ p = "client",
         Placed(cfg, asked', p, m, Len(log[p]), consumed[p] + 1)
  PROVE  ScriptInv'
<1> DEFINE w == Len(log[p])
           r == consumed[p]
           i == r + 1
<1>1. /\ w \in Nat /\ r \in Nat /\ Pairs /\ Peer(p) \in Endpoints
      /\ Placed(cfg, asked, p, pc[p], w, r) /\ Sealing(cfg, p, pc[p], out[p], w)
      /\ Opening(cfg, p, pc[p], in[p], r)
      /\ keys[p] = KeysAt(cfg, p, w + r) /\ negotiated[p] = NegotiatedAt(cfg, p, w + r)
  BY Here DEF Knows, Hashed
<1>2. /\ r >= 1 /\ r + 1 # Flight(cfg, Peer(p))
      /\ w + r > 2 /\ w + r # Flight(cfg, "server")
  BY <1>1, ReadingFlight
<1>3. in[p] = CipherOf(cfg, Peer(p), i) /\ Advance(in[p]) = CipherOf(cfg, Peer(p), i + 1)
  BY <1>1, <1>2, Ciphers DEF Opening, ReadLabels
<1>4. /\ keys'[p] = KeysAt(cfg, p, w + i) /\ negotiated'[p] = NegotiatedAt(cfg, p, w + i)
  <2> DEFINE n == w + r
  <2>1. /\ n + 1 = w + i /\ n \in Nat /\ n > 2
        /\ n # Flight(cfg, "server")
    BY <1>1, <1>2
  <2>2. keys[p] = KeysAt(cfg, p, n) /\ negotiated[p] = NegotiatedAt(cfg, p, n)
    BY <1>1
  <2> HIDE DEF n, w, r, i
  <2>3. /\ KeysAt(cfg, p, n + 1) = KeysAt(cfg, p, n)
        /\ NegotiatedAt(cfg, p, n + 1) = NegotiatedAt(cfg, p, n)
    BY <2>1, NothingDerived
  <2> QED
    BY <2>1, <2>2, <2>3
<1>5. /\ Changes(keys, keys', p) /\ Changes(in, in', p) /\ Changes(out, out', p)
      /\ in'[p] = CipherOf(cfg, Peer(p), i + 1) /\ Changes(negotiated, negotiated', p)
  BY <1>1, <1>3, EndpointSet DEF Pairs, Changes, IsPair
<1>6. Opening(cfg, p, m, in'[p], i) /\ Sealing(cfg, p, m, out'[p], w)
  BY <1>1, <1>5 DEF Opening, Sealing, ReadLabels, WriteLabels, BeforeKeys
<1>7. pc[p] \in ReadLabels \ {"done"}
  BY DEF ReadLabels
<1> QED
  BY <1>3, <1>4, <1>5, <1>6, <1>7, OneReads

(* The client's hello is the first message of the script.                  *)
LEMMA ScriptSendClientHello ==
  ASSUME TypeOK, ScriptInv, TypeOK', SendClientHello
  PROVE  ScriptInv'
<1> USE EndpointSet
<1>1. /\ pc["client"] = "sendClientHello" /\ Pairs /\ ~asked
      /\ Len(log["client"]) = 0 /\ consumed["client"] = 0
      /\ in["client"] = CipherOf(cfg, "server", 1) /\ out["client"] = NoCipher
  BY Here DEF SendClientHello, Placed, ClientPlaced, Opening, Sealing, BeforeKeys, Peer
<1>2. ClientHello = MessageOf(cfg, "client", 1)
  <2>1. TypeOf(cfg, "client", 1) = "ClientHello"
    BY ClientTypes
  <2> QED
    BY <2>1 DEF MessageOf, ClientHello, ValOf, ProofOf
<1>3. out["client"] = CipherOf(cfg, "client", 1) /\ Advance(out["client"]) = NoCipher
  <2>1. Advance(NoCipher) = NoCipher
    BY DEF Advance, NoCipher
  <2>2. CipherOf(cfg, "client", 1) = NoCipher
    BY DEF CipherOf
  <2> QED
    BY <1>1, <2>1, <2>2
<1>4. /\ Changes(keys, keys', "client") /\ Changes(in, in', "client")
      /\ Changes(out, out', "client") /\ out'["client"] = NoCipher
  BY <1>1, <1>3 DEF SendClientHello, WriteRecord, Pairs, Changes, IsPair, Peer
<1>5. /\ keys'["client"] = KeysAt(cfg, "client", 1)
      /\ negotiated["client"] = NegotiatedAt(cfg, "client", 1)
  <2>1. /\ keys["client"] = KeysAt(cfg, "client", 0)
        /\ negotiated["client"] = NegotiatedAt(cfg, "client", 0)
    BY <1>1, InHandshake
  <2>2. /\ KeysAt(cfg, "client", 0) = NoKeys /\ KeysAt(cfg, "client", 1) = NoKeys
        /\ NegotiatedAt(cfg, "client", 0) = NegotiatedAt(cfg, "client", 1)
    <3>1. KeysAt(cfg, "client", 0) = NoKeys /\ KeysAt(cfg, "client", 1) = NoKeys
      BY KeysMove, Zenon
    <3> QED
      BY <3>1 DEF NegotiatedAt
  <2> QED
    BY <2>1, <2>2 DEF SendClientHello
<1>6. /\ Placed(cfg, asked, "client", "readServerHello", 1, 0)
      /\ Opening(cfg, "client", "readServerHello", in'["client"], 0)
      /\ Sealing(cfg, "client", "readServerHello", out'["client"], 1)
  <2>1. in'["client"] = CipherOf(cfg, "server", 1)
    BY <1>1 DEF SendClientHello
  <2> QED
    BY <1>1, <1>4, <2>1
       DEF Placed, ClientPlaced, Opening, Sealing, Peer, WriteLabels
<1>7. /\ log' = [log EXCEPT !["client"] = Append(@, Seal(out["client"], ClientHello))]
      /\ Hash("client", ClientHello) /\ pc' = [pc EXCEPT !["client"] = "readServerHello"]
      /\ UNCHANGED <<cfg, negotiated, asked, consumed, delivered>>
  BY DEF SendClientHello, WriteRecord, Goto
<1>8. /\ pc["client"] \in WriteLabels /\ "client" \in Endpoints
      /\ pc["client"] \notin {"sendFinished", "sendServerHello", "sendCertificate",
                            "sendCertificateVerify"}
  BY <1>1 DEF WriteLabels
<1>9. 1 = Len(log["client"]) + 1 /\ 1 + consumed["client"] = 1 /\ consumed["client"] = 0
  BY <1>1
<1>10. /\ keys'["client"] = KeysAt(cfg, "client", 1 + consumed["client"])
       /\ negotiated["client"] = NegotiatedAt(cfg, "client", 1 + consumed["client"])
  BY <1>5, <1>9
<1> QED
  BY <1>2, <1>3, <1>4, <1>6, <1>7, <1>8, <1>9, <1>10, OneSends

(* The server's hello answers with the choice it made when it read.        *)
LEMMA ScriptSendServerHello ==
  ASSUME TypeOK, ScriptInv, TypeOK', SendServerHello
  PROVE  ScriptInv'
<1> USE EndpointSet
<1> DEFINE k == [keys["server"] EXCEPT !.hello = transcript'["server"]]
<1>1. /\ pc["server"] = "sendServerHello" /\ Pairs /\ Suite(cfg) # None
      /\ Len(log["server"]) = 0 /\ consumed["server"] = 1
      /\ out["server"] = NoCipher
  BY Here DEF SendServerHello, Placed, ServerPlaced, Sealing, BeforeKeys
<1>2. /\ keys["server"] = KeysAt(cfg, "server", 1)
      /\ negotiated["server"] = NegotiatedAt(cfg, "server", 1)
  BY <1>1, InHandshake
<1>3. ServerHello = MessageOf(cfg, "server", 1)
  <2>1. TypeOf(cfg, "server", 1) = "ServerHello"
    BY ServerTypes
  <2>2. negotiated["server"].suite = Suite(cfg) /\ keys["server"].shared = OwnKeyShareGroup
    BY <1>2 DEF KeysAt, NegotiatedAt
  <2> QED
    BY <2>1, <2>2 DEF MessageOf, ServerHello, ValOf, ProofOf
<1>4. out["server"] = CipherOf(cfg, "server", 1) /\ pc["server"] \in WriteLabels
  BY <1>1, Ciphers DEF WriteLabels
<1>5. transcript'["server"] = Prefix(cfg, 2)
  BY <1>1, <1>3, <1>4, SendHashed DEF SendServerHello
<1>6. k = KeysAt(cfg, "server", 2)
  <2>1. [KeysAt(cfg, "server", 1) EXCEPT !.hello = Prefix(cfg, 2)] = KeysAt(cfg, "server", 2)
    BY KeysMove, Zenon
  <2> QED
    BY <1>2, <1>5, <2>1, Zenon
<1>7. Fresh(HandshakeKey(k, "server")) = CipherOf(cfg, "server", 2)
  BY <1>6, KeysSettle, Ciphers
<1> HIDE DEF k
<1>8. /\ keys' = [keys EXCEPT !["server"] = k]
      /\ out' = [out EXCEPT !["server"] = CipherOf(cfg, "server", 2)]
      /\ in' = in
  BY <1>7 DEF SendServerHello, k
<1>9. /\ Changes(keys, keys', "server") /\ Changes(in, in', "server")
      /\ Changes(out, out', "server") /\ out'["server"] = CipherOf(cfg, "server", 2)
      /\ keys'["server"] = k
  BY <1>1, <1>8 DEF Pairs, Changes, IsPair, Peer
<1>10. negotiated["server"] = NegotiatedAt(cfg, "server", 2)
  BY <1>2, NegotiatedMove
<1>11. /\ Placed(cfg, asked, "server", "sendEncryptedExtensions", 1, 1)
       /\ Opening(cfg, "server", "sendEncryptedExtensions", in'["server"], 1)
       /\ Sealing(cfg, "server", "sendEncryptedExtensions", out'["server"], 1)
  BY <1>9 DEF Placed, ServerPlaced, Opening, Sealing, ReadLabels, BeforeKeys
<1>12. /\ log' = [log EXCEPT !["server"] = Append(@, Seal(out["server"], ServerHello))]
       /\ Hash("server", ServerHello)
       /\ pc' = [pc EXCEPT !["server"] = "sendEncryptedExtensions"]
       /\ UNCHANGED <<cfg, negotiated, asked, consumed, delivered>>
  BY DEF SendServerHello, Goto
<1>13. 1 = Len(log["server"]) + 1 /\ 1 + consumed["server"] = 2 /\ consumed["server"] = 1
  BY <1>1
<1>14. /\ keys'["server"] = KeysAt(cfg, "server", 1 + consumed["server"])
       /\ negotiated["server"] = NegotiatedAt(cfg, "server", 1 + consumed["server"])
  BY <1>6, <1>9, <1>10, <1>13
<1>15. /\ "server" \in Endpoints
       /\ pc["server"] \notin {"sendFinished", "sendCertificate", "sendCertificateVerify"}
  BY <1>1
<1> QED
  BY <1>1, <1>3, <1>4, <1>9, <1>11, <1>12, <1>13, <1>14, <1>15, OneSends

(* The rest of the server's flight and of the client's.                    *)
LEMMA ScriptSendEncryptedExtensions ==
  ASSUME TypeOK, ScriptInv, TypeOK', SendEncryptedExtensions
  PROVE  ScriptInv'
<1> USE EndpointSet
<1>1. /\ pc["server"] = "sendEncryptedExtensions"
      /\ Len(log["server"]) = 1 /\ consumed["server"] = 1
  BY Here DEF SendEncryptedExtensions, Placed, ServerPlaced
<1>2. EncryptedExtensions = MessageOf(cfg, "server", Len(log["server"]) + 1)
  <2>0. Len(log["server"]) + 1 = 2
    BY <1>1
  <2>1. TypeOf(cfg, "server", 2) = "EncryptedExtensions"
    BY ServerTypes
  <2>2. negotiated["server"].proto = Proto(cfg)
    BY <1>1, InHandshake DEF NegotiatedAt
  <2> QED
    BY <2>0, <2>1, <2>2 DEF MessageOf, EncryptedExtensions, ValOf, ProofOf
<1> DEFINE m == IF RequestsClientCert THEN "sendCertificateRequest" ELSE "sendCertificate"
<1>3. Placed(cfg, asked, "server", m, Len(log["server"]) + 1, consumed["server"])
  <2>0. Len(log["server"]) + 1 = 2 /\ consumed["server"] = 1
    BY <1>1
  <2>1. RequestsClientCert <=> Asks(cfg)
    BY DEF RequestsClientCert, Asks
  <2>2. CASE Asks(cfg)
    BY <2>0, <2>1, <2>2 DEF Placed, ServerPlaced
  <2>3. CASE ~Asks(cfg)
    BY <2>0, <2>1, <2>3, Lengths DEF Placed, ServerPlaced
  <2> QED
    BY <2>2, <2>3
<1>4. /\ pc' = [pc EXCEPT !["server"] = m]
      /\ WriteRecord("server", out["server"], EncryptedExtensions)
      /\ Hash("server", EncryptedExtensions)
      /\ UNCHANGED <<cfg, keys, in, negotiated, asked, consumed, delivered>>
  BY DEF SendEncryptedExtensions, Goto
<1>5. m \in {"sendCertificateRequest", "sendCertificate"}
  OBVIOUS
<1> HIDE DEF m
<1> QED
  BY <1>1, <1>2, <1>3, <1>4, <1>5, SendsEncrypted

(* The encrypted messages of the server's flight.                          *)
LEMMA ScriptSendCertificateRequest ==
  ASSUME TypeOK, ScriptInv, TypeOK', SendCertificateRequest
  PROVE  ScriptInv'
<1> USE EndpointSet
<1>1. /\ pc["server"] = "sendCertificateRequest" /\ Asks(cfg)
      /\ Len(log["server"]) = 2 /\ consumed["server"] = 1
  BY Here DEF SendCertificateRequest, Placed, ServerPlaced
<1>2. CertificateRequest = MessageOf(cfg, "server", Len(log["server"]) + 1)
  <2>0. Len(log["server"]) + 1 = 3
    BY <1>1
  <2>1. TypeOf(cfg, "server", 3) = "CertificateRequest"
    BY <1>1, ServerTypes
  <2> QED
    BY <2>0, <2>1 DEF MessageOf, CertificateRequest, ValOf, ProofOf
<1>3. Placed(cfg, asked, "server", "sendCertificate",
             Len(log["server"]) + 1, consumed["server"])
  BY <1>1, Lengths DEF Placed, ServerPlaced
<1>4. /\ pc' = [pc EXCEPT !["server"] = "sendCertificate"]
      /\ WriteRecord("server", out["server"], CertificateRequest)
      /\ Hash("server", CertificateRequest)
      /\ UNCHANGED <<cfg, keys, in, negotiated, asked, consumed, delivered>>
  BY DEF SendCertificateRequest, Goto
<1> QED
  BY <1>1, <1>2, <1>3, <1>4, SendsEncrypted

(* The certificate, of either endpoint.                                    *)
LEMMA ScriptSendCertificate ==
  ASSUME TypeOK, ScriptInv, TypeOK', NEW p \in Endpoints, SendCertificate(p)
  PROVE  ScriptInv'
<1> DEFINE i == Len(log[p]) + 1
<1>1. /\ pc[p] = "sendCertificate" /\ cfg[p].cert /\ Len(log[p]) \in Nat
      /\ consumed[p] \in Nat /\ Placed(cfg, asked, p, pc[p], Len(log[p]), consumed[p])
  BY Here DEF SendCertificate
<1>2. Certificate(p) = MessageOf(cfg, p, i)
  <2>1. TypeOf(cfg, p, i) = "Certificate"
    BY <1>1, WritePlace DEF WrittenType, WriteLabels
  <2> QED
    BY <2>1 DEF MessageOf, Certificate, ValOf, ProofOf
<1>3. Placed(cfg, asked, p, "sendCertificateVerify", i, consumed[p])
  <2>1. CASE p = "client"
    <3>1. Asks(cfg) /\ Len(log[p]) = 1 /\ consumed[p] = Flight(cfg, "server")
      BY <1>1, <2>1 DEF Placed, ClientPlaced
    <3>2. Len(log[p]) + 1 = 2
      BY <3>1
    <3> QED
      BY <2>1, <3>1, <3>2 DEF Placed, ClientPlaced
  <2>2. CASE p = "server"
    BY <1>1, <2>2, Lengths DEF Placed, ServerPlaced
  <2> QED
    BY <2>1, <2>2, EndpointSet
<1>4. /\ pc' = [pc EXCEPT ![p] = "sendCertificateVerify"]
      /\ WriteRecord(p, out[p], Certificate(p)) /\ Hash(p, Certificate(p))
      /\ UNCHANGED <<cfg, keys, in, negotiated, asked, consumed, delivered>>
  BY DEF SendCertificate, Goto
<1> QED
  BY <1>1, <1>2, <1>3, <1>4, SendsEncrypted

(* The signature, of either endpoint, over all that has been hashed.       *)
LEMMA ScriptSendCertificateVerify ==
  ASSUME TypeOK, ScriptInv, TypeOK', NEW p \in Endpoints, SendCertificateVerify(p)
  PROVE  ScriptInv'
<1> DEFINE i == Len(log[p]) + 1
<1>1. /\ pc[p] = "sendCertificateVerify" /\ cfg[p].key # "nil" /\ Len(log[p]) \in Nat
      /\ consumed[p] \in Nat /\ Placed(cfg, asked, p, pc[p], Len(log[p]), consumed[p])
  BY Here DEF SendCertificateVerify
<1>2. CertificateVerify(p) = MessageOf(cfg, p, i)
  <2>1. TypeOf(cfg, p, i) = "CertificateVerify" /\ Place(cfg, p, i) = i + consumed[p]
    BY <1>1, WritePlace DEF WrittenType, WriteLabels
  <2>2. transcript[p] = Prefix(cfg, Len(log[p]) + consumed[p])
    BY <1>1, InHandshake
  <2>3. Place(cfg, p, i) - 1 = Len(log[p]) + consumed[p]
    BY <1>1, <2>1
  <2> QED
    BY <2>1, <2>2, <2>3 DEF MessageOf, CertificateVerify, ValOf, ProofOf
<1>3. Placed(cfg, asked, p, "sendFinished", i, consumed[p])
  <2>1. CASE p = "client"
    <3>1. /\ Asks(cfg) /\ Len(log[p]) = 2 /\ consumed[p] = Flight(cfg, "server")
          /\ Flight(cfg, "client") = 4
      BY <1>1, <2>1, Lengths DEF Placed, ClientPlaced
    <3>2. Len(log[p]) + 1 = Flight(cfg, "client") - 1
      BY <3>1
    <3> QED
      BY <2>1, <3>1, <3>2 DEF Placed, ClientPlaced
  <2>2. CASE p = "server"
    BY <1>1, <2>2, Lengths DEF Placed, ServerPlaced
  <2> QED
    BY <2>1, <2>2, EndpointSet
<1>4. /\ pc' = [pc EXCEPT ![p] = "sendFinished"]
      /\ WriteRecord(p, out[p], CertificateVerify(p)) /\ Hash(p, CertificateVerify(p))
      /\ UNCHANGED <<cfg, keys, in, negotiated, asked, consumed, delivered>>
  BY DEF SendCertificateVerify, Goto
<1> QED
  BY <1>1, <1>2, <1>3, <1>4, SendsEncrypted

(* The Finished and the cipher it goes under, on either side.              *)
LEMMA FinishedOnScript ==
  ASSUME TypeOK, ScriptInv, NEW p \in Endpoints, pc[p] = "sendFinished"
  PROVE  LET i == Len(log[p]) + 1 IN
         /\ i = Flight(cfg, p) /\ i > 1
         /\ Finished(p) = MessageOf(cfg, p, i)
         /\ FinishedCipher(p) = CipherOf(cfg, p, i)
<1> DEFINE w == Len(log[p])
           r == consumed[p]
           i == w + 1
           n == w + r
<1>1. /\ w \in Nat /\ r \in Nat
      /\ Placed(cfg, asked, p, "sendFinished", w, r)
      /\ Sealing(cfg, p, "sendFinished", out[p], w)
      /\ transcript[p] = Prefix(cfg, n) /\ keys[p] = KeysAt(cfg, p, n)
  BY Here, InHandshake
<1>2. /\ i = Flight(cfg, p) /\ Place(cfg, p, i) = i + r /\ TypeOf(cfg, p, i) = "Finished"
  BY WritePlace DEF WriteLabels, WrittenType
<1>3. i > 1 /\ i \in Nat \ {0}
  BY <1>1, <1>2, Lengths, EndpointSet
<1>4. n \in Nat /\ n > 1
  BY <1>1, <1>3, Lengths, EndpointSet DEF Placed, ClientPlaced, ServerPlaced
<1>5. HandshakeKey(keys[p], p) = ScriptHandshakeKey(cfg, p)
  BY <1>1, <1>4, KeysSettle
<1>6. Finished(p) = MessageOf(cfg, p, i)
  <2>1. Place(cfg, p, i) - 1 = n
    BY <1>1, <1>2
  <2> HIDE DEF n, i
  <2> QED
    BY <1>1, <1>2, <1>5, <2>1 DEF MessageOf, Finished, ValOf, ProofOf
<1>7. FinishedCipher(p) = CipherOf(cfg, p, i)
  <2>1. CASE out[p] = CipherOf(cfg, p, i)
    <3>1. CipherOf(cfg, p, i).key # NoKey
      BY <1>3, Ciphers
    <3> HIDE DEF i
    <3> QED
      BY <2>1, <3>1 DEF FinishedCipher
  <2>2. CASE out[p] = NoCipher /\ w = 1
    <3>1. i = 2
      BY <2>2
    <3>2. Fresh(ScriptHandshakeKey(cfg, p)) = CipherOf(cfg, p, 2)
      BY Ciphers
    <3> HIDE DEF i, w
    <3> QED
      BY <1>5, <2>2, <3>1, <3>2 DEF FinishedCipher, NoCipher
  <2> QED
    BY <1>1, <2>1, <2>2 DEF Sealing
<1> QED
  BY <1>2, <1>3, <1>6, <1>7

(* The client's last message, and the switch of its outgoing cipher.       *)
LEMMA ScriptClientSendFinished ==
  ASSUME TypeOK, ScriptInv, TypeOK', ClientSendFinished
  PROVE  ScriptInv'
<1> DEFINE i == Len(log["client"]) + 1
           r == consumed["client"]
           n == i + r
<1>1. /\ "client" \in Endpoints /\ pc["client"] = "sendFinished" /\ Pairs
      /\ Len(log["client"]) \in Nat /\ r \in Nat
      /\ Placed(cfg, asked, "client", "sendFinished", Len(log["client"]), r)
  BY Here, EndpointSet DEF ClientSendFinished
<1>2. /\ i = Flight(cfg, "client") /\ i > 1 /\ i \in Nat
      /\ Finished("client") = MessageOf(cfg, "client", i)
      /\ FinishedCipher("client") = CipherOf(cfg, "client", i)
  BY <1>1, FinishedOnScript
<1>3. r = Flight(cfg, "server")
  BY <1>1 DEF Placed, ClientPlaced
<1>4. /\ n \in Nat /\ n > 2 /\ n - 1 > Flight(cfg, "server") /\ n - 1 \in Nat
      /\ n - 1 = Len(log["client"]) + r /\ n > Flight(cfg, "server")
  <2>1. Flight(cfg, "server") \in {5, 6} /\ Flight(cfg, "client") \in {2, 4}
    BY Lengths
  <2>2. \A w, s \in Nat : w + 1 > 1 /\ s \in {5, 6} =>
          /\ (w + 1 + s) \in Nat /\ w + 1 + s > 2 /\ (w + 1 + s) - 1 > s
          /\ (w + 1 + s) - 1 \in Nat /\ (w + 1 + s) - 1 = w + s /\ w + 1 + s > s
    OBVIOUS
  <2> QED
    BY <1>1, <1>2, <1>3, <2>1, <2>2
<1>5. /\ keys["client"] = KeysAt(cfg, "client", n - 1)
      /\ negotiated["client"] = NegotiatedAt(cfg, "client", n - 1)
  BY <1>1, <1>4, InHandshake
<1>6. /\ keys["client"] = KeysAt(cfg, "client", n)
      /\ negotiated["client"] = NegotiatedAt(cfg, "client", n)
  <2>1. /\ KeysAt(cfg, "client", n) = KeysAt(cfg, "client", n - 1)
        /\ NegotiatedAt(cfg, "client", n) = NegotiatedAt(cfg, "client", n - 1)
    <3> HIDE DEF n
    <3> QED
      BY <1>4, Lengths DEF KeysAt, NegotiatedAt
  <2> HIDE DEF n
  <2> QED
    BY <1>5, <2>1
<1>7. /\ Fresh(AppKey(keys["client"], "server")) = CipherOf(cfg, "server", r + 1)
      /\ Fresh(AppKey(keys["client"], "client")) = CipherOf(cfg, "client", i + 1)
  <2>1. \A q : AppKey(keys["client"], q) = ScriptAppKey(cfg, q)
    <3> HIDE DEF n
    <3> QED
      BY <1>4, <1>6, KeysSettle
  <2>2. /\ Fresh(ScriptAppKey(cfg, "server")) = CipherOf(cfg, "server", Flight(cfg, "server") + 1)
        /\ Fresh(ScriptAppKey(cfg, "client")) = CipherOf(cfg, "client", Flight(cfg, "client") + 1)
    BY Ciphers, EndpointSet
  <2> QED
    BY <1>2, <1>3, <2>1, <2>2
<1>8. /\ Changes(keys, keys', "client") /\ Changes(in, in', "client")
      /\ Changes(out, out', "client") /\ in'["client"] = CipherOf(cfg, "server", r + 1)
      /\ out'["client"] = CipherOf(cfg, "client", i + 1)
  <2>1. /\ in' = [in EXCEPT !["client"] = CipherOf(cfg, "server", r + 1)]
        /\ out' = [out EXCEPT !["client"] = CipherOf(cfg, "client", i + 1)]
        /\ keys' = keys
    BY <1>7 DEF ClientSendFinished
  <2> QED
    BY <1>1, <2>1, EndpointSet DEF Pairs, Changes, IsPair, Peer
<1>9. Placed(cfg, asked, "client", "done", i, r)
  BY <1>2, <1>3, Lengths DEF Placed, ClientPlaced
<1>10. /\ Opening(cfg, "client", "done", in'["client"], r)
       /\ Sealing(cfg, "client", "done", out'["client"], i)
  BY <1>8 DEF Opening, Sealing, BeforeKeys, Peer
<1>11. /\ pc["client"] \in WriteLabels /\ pc' = [pc EXCEPT !["client"] = "done"]
       /\ Hash("client", Finished("client"))
       /\ UNCHANGED <<cfg, negotiated, asked, consumed, delivered>>
       /\ log' = [log EXCEPT !["client"] =
                    Append(@, Seal(FinishedCipher("client"), Finished("client")))]
  BY <1>1 DEF ClientSendFinished, WriteLabels, Goto
<1>12. keys'["client"] = KeysAt(cfg, "client", n)
  BY <1>6 DEF ClientSendFinished
<1> QED
  BY <1>1, <1>2, <1>6, <1>8, <1>9, <1>10, <1>11, <1>12, OneSends

(* The server's last message, and the switch of its incoming cipher.       *)
LEMMA ScriptServerSendFinished ==
  ASSUME TypeOK, ScriptInv, TypeOK', ServerSendFinished
  PROVE  ScriptInv'
<1> DEFINE k == [keys["server"] EXCEPT !.finished = transcript'["server"]]
           i == Len(log["server"]) + 1
           F == Flight(cfg, "server")
           m == IF RequestsClientCert THEN "readCertificate" ELSE "readFinished"
<1>1. /\ "server" \in Endpoints /\ pc["server"] = "sendFinished" /\ Pairs
      /\ Len(log["server"]) \in Nat /\ consumed["server"] = 1
  BY Here, EndpointSet DEF ServerSendFinished, Placed, ServerPlaced
<1>2. /\ i = F /\ i > 1 /\ i \in Nat /\ F \in {5, 6}
      /\ Finished("server") = MessageOf(cfg, "server", i)
      /\ FinishedCipher("server") = CipherOf(cfg, "server", i)
  BY <1>1, FinishedOnScript, Lengths
<1>3. /\ keys["server"] = KeysAt(cfg, "server", F)
      /\ negotiated["server"] = NegotiatedAt(cfg, "server", F)
  <2>1. Len(log["server"]) + consumed["server"] = F
    BY <1>1, <1>2
  <2>2. /\ keys["server"] = KeysAt(cfg, "server", Len(log["server"]) + consumed["server"])
        /\ negotiated["server"] =
             NegotiatedAt(cfg, "server", Len(log["server"]) + consumed["server"])
    BY <1>1, InHandshake
  <2> QED
    BY <2>1, <2>2
<1>4. /\ WriteRecord("server", FinishedCipher("server"), Finished("server"))
      /\ Hash("server", Finished("server")) /\ keys' = [keys EXCEPT !["server"] = k]
      /\ in' = [in EXCEPT !["server"] = Fresh(HandshakeKey(k, "client"))]
      /\ pc' = [pc EXCEPT !["server"] = m]
      /\ UNCHANGED <<cfg, negotiated, asked, consumed, delivered>>
  BY DEF ServerSendFinished, Goto
<1>5. transcript'["server"] = Prefix(cfg, F + 1)
  <2>1. i + consumed["server"] = F + 1
    BY <1>1, <1>2
  <2>2. transcript'["server"] = Prefix(cfg, i + consumed["server"])
    BY <1>1, <1>2, <1>4, SendHashed DEF WriteLabels
  <2> QED
    BY <2>1, <2>2
<1>6. k = KeysAt(cfg, "server", F + 1)
  <2>1. [KeysAt(cfg, "server", F) EXCEPT !.finished = Prefix(cfg, F + 1)]
          = KeysAt(cfg, "server", F + 1)
    BY <1>1, KeysMove, Zenon
  <2> HIDE DEF F
  <2> QED
    BY <1>3, <1>5, <2>1, Zenon
<1>7. Fresh(HandshakeKey(k, "client")) = CipherOf(cfg, "client", 2)
  <2>1. HandshakeKey(KeysAt(cfg, "server", F + 1), "client") = ScriptHandshakeKey(cfg, "client")
    BY <1>2, KeysSettle
  <2>2. Fresh(ScriptHandshakeKey(cfg, "client")) = CipherOf(cfg, "client", 2)
    BY Ciphers, EndpointSet
  <2> QED
    BY <1>6, <2>1, <2>2
<1> HIDE DEF k
<1>8. /\ Changes(keys, keys', "server") /\ Changes(in, in', "server")
      /\ Changes(out, out', "server") /\ in'["server"] = CipherOf(cfg, "client", 2)
      /\ keys'["server"] = k
  <2>1. /\ in' = [in EXCEPT !["server"] = CipherOf(cfg, "client", 2)]
        /\ out' = [out EXCEPT !["server"] = Advance(FinishedCipher("server"))]
    BY <1>4, <1>7 DEF WriteRecord
  <2> QED
    BY <1>1, <1>4, <2>1, EndpointSet DEF Pairs, Changes, IsPair, Peer
<1>9. /\ keys'["server"] = KeysAt(cfg, "server", i + consumed["server"])
      /\ negotiated["server"] = NegotiatedAt(cfg, "server", i + consumed["server"])
  <2>1. i + consumed["server"] = F + 1
    BY <1>1, <1>2
  <2>2. NegotiatedAt(cfg, "server", F + 1) = NegotiatedAt(cfg, "server", F)
    BY <1>2 DEF NegotiatedAt
  <2> QED
    BY <1>3, <1>6, <1>8, <2>1, <2>2
<1>10. Placed(cfg, asked, "server", m, i, consumed["server"])
  <2>1. RequestsClientCert <=> Asks(cfg)
    BY DEF RequestsClientCert, Asks
  <2>2. CASE Asks(cfg)
    BY <1>1, <1>2, <2>1, <2>2 DEF Placed, ServerPlaced
  <2>3. CASE ~Asks(cfg)
    BY <1>1, <1>2, <2>1, <2>3, Lengths DEF Placed, ServerPlaced
  <2> QED
    BY <2>2, <2>3
<1>11. /\ Opening(cfg, "server", m, in'["server"], consumed["server"])
       /\ Sealing(cfg, "server", m, out'["server"], i)
  BY <1>1, <1>8 DEF Opening, Sealing, WriteLabels, BeforeKeys, Peer
<1>12. /\ pc["server"] \in WriteLabels /\ m \notin {"failed", "closed", "done"}
       /\ pc["server"] \notin {"sendServerHello", "sendCertificate", "sendCertificateVerify"}
       /\ log' = [log EXCEPT !["server"] =
                    Append(@, Seal(FinishedCipher("server"), Finished("server")))]
  BY <1>1, <1>4 DEF WriteLabels, WriteRecord
<1> HIDE DEF m
<1> QED
  BY <1>1, <1>2, <1>4, <1>8, <1>9, <1>10, <1>11, <1>12, OneSends

(* The server reads the hello and chooses suite, protocol and group.       *)
LEMMA ScriptReadClientHello ==
  ASSUME TypeOK, ScriptInv, TypeOK', ReadClientHello
  PROVE  ScriptInv'
<1> DEFINE hello == Msg("server").val
           n == [suite |-> ChosenSuite(hello),
                 proto |-> SelectALPN(cfg["server"].protos, hello.protos)]
           g == SelectKeyShare(hello.groups)
           k == [keys["server"] EXCEPT !.shared = g]
<1>1. /\ "server" \in Endpoints /\ pc["server"] = "readClientHello" /\ Pairs
      /\ Pending("server") /\ ReadError("server") = None
      /\ Len(log["server"]) = 0 /\ consumed["server"] = 0
      /\ in["server"] = CipherOf(cfg, "client", 1) /\ out["server"] = NoCipher
  BY Here, EndpointSet
     DEF ReadClientHello, Accepts, Placed, ServerPlaced, Opening, Sealing, ReadLabels,
         BeforeKeys, Peer
<1>2. keys["server"] = NoKeys
  <2>1. keys["server"] = KeysAt(cfg, "server", 0)
    <3>1. Len(log["server"]) + consumed["server"] = 0
      BY <1>1
    <3> QED
      BY <1>1, <3>1, InHandshake
  <2>2. KeysAt(cfg, "server", 0) = NoKeys
    BY <1>1, KeysMove, Zenon
  <2> QED
    BY <2>1, <2>2
<1>3. hello = [suites |-> OwnClientSuites, groups |-> <<OwnKeyShareGroup>>,
               protos |-> cfg["client"].protos]
  <2>1. consumed["server"] + 1 = 1 /\ Peer("server") = "client"
    BY <1>1 DEF Peer
  <2>2. Msg("server").val = ValOf(cfg, "client", 1)
    BY <1>1, <2>1, NextOnScript
  <2>3. TypeOf(cfg, "client", 1) = "ClientHello"
    BY ClientTypes
  <2> QED
    BY <2>2, <2>3 DEF ValOf
<1>4. g = OwnKeyShareGroup
  <2>1. hello.groups = <<"SM2">>
    BY <1>3 DEF OwnKeyShareGroup
  <2> HIDE DEF hello
  <2> QED
    BY <2>1 DEF SelectKeyShare, OwnKeyShareGroup, Contains
<1>5. n = [suite |-> Suite(cfg), proto |-> Proto(cfg)] /\ ChosenSuite(hello) = Suite(cfg)
  <2>1. hello.suites = OwnClientSuites /\ hello.protos = cfg["client"].protos
    BY <1>3
  <2> HIDE DEF hello
  <2> QED
    BY <2>1 DEF ChosenSuite, Suite, Proto
<1>6. Suite(cfg) # None
  <2>1. ReadError("server") = ClientHelloError(hello)
    <3>1. Opens(in["server"], NextRecord("server")) /\ Msg("server").type \in Expected("server")
      BY <1>1 DEF ReadError, None
    <3>2. Msg("server").type = "ClientHello"
      BY <1>1, <3>1 DEF Expected
    <3> QED
      BY <1>1, <3>1, <3>2 DEF ReadError
  <2> QED
    BY <1>1, <1>5, <2>1 DEF ClientHelloError, None
<1>7. k = KeysAt(cfg, "server", 1)
  <2>1. [NoKeys EXCEPT !.shared = OwnKeyShareGroup] = KeysAt(cfg, "server", 1)
    BY <1>1, KeysMove, Zenon
  <2> HIDE DEF g
  <2> QED
    BY <1>2, <1>4, <2>1, Zenon
<1>8. n = NegotiatedAt(cfg, "server", 1)
  BY <1>5 DEF NegotiatedAt
<1>9. /\ keys' = [keys EXCEPT !["server"] = k]
      /\ negotiated' = [negotiated EXCEPT !["server"] = n]
  BY DEF ReadClientHello
<1> HIDE DEF k, n, hello
<1>10. /\ Changes(keys, keys', "server") /\ keys'["server"] = k
       /\ Changes(negotiated, negotiated', "server") /\ negotiated'["server"] = n
       /\ Changes(in, in', "server") /\ Changes(out, out', "server")
       /\ in' = in /\ out' = out
  BY <1>1, <1>9, EndpointSet DEF ReadClientHello, Pairs, Changes, IsPair, Peer
<1>11. 1 = consumed["server"] + 1 /\ Len(log["server"]) + 1 = 1
  BY <1>1
<1>12. /\ keys'["server"] = KeysAt(cfg, "server", Len(log["server"]) + 1)
       /\ negotiated'["server"] = NegotiatedAt(cfg, "server", Len(log["server"]) + 1)
  BY <1>7, <1>8, <1>10, <1>11
<1>13. /\ Placed(cfg, asked', "server", "sendServerHello", Len(log["server"]), 1)
       /\ Opening(cfg, "server", "sendServerHello", in'["server"], 1)
       /\ Sealing(cfg, "server", "sendServerHello", out'["server"], Len(log["server"]))
  <2>1. out'["server"] = CipherOf(cfg, "server", Len(log["server"]) + 1)
    BY <1>1, <1>10, <1>11 DEF CipherOf
  <2> QED
    BY <1>1, <1>6, <1>10, <2>1
       DEF Placed, ServerPlaced, Opening, Sealing, ReadLabels, BeforeKeys
<1>14. /\ pc["server"] \in ReadLabels \ {"done"} /\ pc["server"] # "readFinished"
       /\ pc' = [pc EXCEPT !["server"] = "sendServerHello"]
       /\ consumed' = [consumed EXCEPT !["server"] = @ + 1]
       /\ Hash("server", Msg("server"))
       /\ UNCHANGED <<cfg, log, delivered>> /\ asked' = asked
  BY <1>1 DEF ReadClientHello, ReadRecord, ReadLabels, Goto
<1> QED
  BY <1>1, <1>10, <1>11, <1>12, <1>13, <1>14, OneReads

(* The client reads the answer and derives the handshake keys.             *)
LEMMA ScriptReadServerHello ==
  ASSUME TypeOK, ScriptInv, TypeOK', ReadServerHello
  PROVE  ScriptInv'
<1> DEFINE s == Msg("client").val
           t == transcript'["client"]
           k == [keys["client"] EXCEPT !.shared = s.group, !.hello = t]
           g == [negotiated["client"] EXCEPT !.suite = s.suite]
<1>1. /\ "client" \in Endpoints /\ pc["client"] = "readServerHello" /\ Pairs
      /\ Pending("client") /\ ~asked
      /\ Len(log["client"]) = 1 /\ consumed["client"] = 0
      /\ out["client"] = NoCipher
  BY Here, EndpointSet
     DEF ReadServerHello, Accepts, Placed, ClientPlaced, Sealing, BeforeKeys
<1>2. 1 = consumed["client"] + 1 /\ Len(log["client"]) + 1 = 2
  BY <1>1
<1>3. /\ keys["client"] = KeysAt(cfg, "client", 1)
      /\ negotiated["client"] = NegotiatedAt(cfg, "client", 1)
  <2>1. Len(log["client"]) + consumed["client"] = 1
    BY <1>1
  <2> QED
    BY <1>1, <2>1, InHandshake
<1>4. s = [suite |-> Suite(cfg), group |-> OwnKeyShareGroup]
  <2>1. Peer("client") = "server"
    BY DEF Peer
  <2>2. Msg("client").val = ValOf(cfg, "server", 1)
    BY <1>1, <1>2, <2>1, NextOnScript
  <2>3. TypeOf(cfg, "server", 1) = "ServerHello"
    BY ServerTypes
  <2> QED
    BY <2>2, <2>3 DEF ValOf
<1>5. /\ pc["client"] \in ReadLabels \ {"done"} /\ pc["client"] # "readFinished"
      /\ pc' = [pc EXCEPT !["client"] = "readEncryptedExtensions"]
      /\ consumed' = [consumed EXCEPT !["client"] = @ + 1]
      /\ Hash("client", Msg("client"))
      /\ UNCHANGED <<cfg, log, delivered>> /\ asked' = asked
  BY <1>1 DEF ReadServerHello, ReadRecord, ReadLabels, Goto
<1>6. t = Prefix(cfg, 2)
  BY <1>1, <1>2, <1>5, ReadHashed
<1>7. k = KeysAt(cfg, "client", 2)
  <2>1. [KeysAt(cfg, "client", 1) EXCEPT !.shared = OwnKeyShareGroup,
                                         !.hello = Prefix(cfg, 2)] = KeysAt(cfg, "client", 2)
    BY <1>1, KeysMove, Zenon
  <2>2. s.group = OwnKeyShareGroup
    BY <1>4
  <2> HIDE DEF s, t
  <2> QED
    BY <1>3, <1>6, <2>1, <2>2, Zenon
<1>8. g = NegotiatedAt(cfg, "client", 2)
  BY <1>3, <1>4 DEF NegotiatedAt
<1>9. Fresh(HandshakeKey(k, "server")) = CipherOf(cfg, "server", 2)
  <2> HIDE DEF k
  <2> QED
    BY <1>1, <1>7, KeysSettle, Ciphers, EndpointSet
<1>10. /\ keys' = [keys EXCEPT !["client"] = k]
       /\ in' = [in EXCEPT !["client"] = Fresh(HandshakeKey(k, "server"))]
       /\ negotiated' = [negotiated EXCEPT !["client"] = g]
       /\ out' = out
  <2>1. negotiated' = [negotiated EXCEPT !["client"].suite = s.suite]
    BY DEF ReadServerHello
  <2> QED
    BY <2>1 DEF ReadServerHello
<1> HIDE DEF k, g, s, t
<1>11. in' = [in EXCEPT !["client"] = CipherOf(cfg, "server", 2)]
  BY <1>9, <1>10
<1>12. /\ Changes(keys, keys', "client") /\ keys'["client"] = k
       /\ Changes(negotiated, negotiated', "client") /\ negotiated'["client"] = g
       /\ Changes(in, in', "client") /\ Changes(out, out', "client")
       /\ in'["client"] = CipherOf(cfg, "server", 2) /\ out'["client"] = NoCipher
  BY <1>1, <1>10, <1>11, EndpointSet DEF Pairs, Changes, IsPair, Peer
<1>13. /\ keys'["client"] = KeysAt(cfg, "client", Len(log["client"]) + 1)
       /\ negotiated'["client"] = NegotiatedAt(cfg, "client", Len(log["client"]) + 1)
  BY <1>2, <1>7, <1>8, <1>12
<1>14. /\ Placed(cfg, asked', "client", "readEncryptedExtensions", Len(log["client"]), 1)
       /\ Opening(cfg, "client", "readEncryptedExtensions", in'["client"], 1)
       /\ Sealing(cfg, "client", "readEncryptedExtensions", out'["client"], Len(log["client"]))
  BY <1>1, <1>5, <1>12 DEF Placed, ClientPlaced, Opening, Sealing, WriteLabels, Peer
<1> QED
  BY <1>1, <1>2, <1>5, <1>12, <1>13, <1>14, OneReads

(* The rest of the server's flight, as the client reads it.                *)
LEMMA ScriptReadEncryptedExtensions ==
  ASSUME TypeOK, ScriptInv, TypeOK', ReadEncryptedExtensions
  PROVE  ScriptInv'
<1> DEFINE g == [negotiated["client"] EXCEPT !.proto = Msg("client").val]
<1>1. /\ "client" \in Endpoints /\ pc["client"] = "readEncryptedExtensions" /\ Pairs
      /\ Pending("client") /\ ~asked
      /\ Len(log["client"]) = 1 /\ consumed["client"] = 1
      /\ out["client"] = NoCipher /\ in["client"] = CipherOf(cfg, "server", 1 + 1)
  BY Here, EndpointSet
     DEF ReadEncryptedExtensions, ReadEncrypted, Accepts, Placed, ClientPlaced, Opening,
         Sealing, ReadLabels, BeforeKeys, Peer
<1>2. 2 = consumed["client"] + 1 /\ Len(log["client"]) + 2 = 3
  BY <1>1
<1>3. /\ keys["client"] = KeysAt(cfg, "client", 2)
      /\ negotiated["client"] = NegotiatedAt(cfg, "client", 2)
  <2>1. Len(log["client"]) + consumed["client"] = 2
    BY <1>1
  <2> QED
    BY <1>1, <2>1, InHandshake
<1>4. Msg("client").val = Proto(cfg)
  <2>1. Peer("client") = "server"
    BY DEF Peer
  <2>2. Msg("client").val = ValOf(cfg, "server", 2)
    BY <1>1, <1>2, <2>1, NextOnScript
  <2>3. TypeOf(cfg, "server", 2) = "EncryptedExtensions"
    BY ServerTypes
  <2> QED
    BY <2>2, <2>3 DEF ValOf
<1>5. /\ pc["client"] \in ReadLabels \ {"done"} /\ pc["client"] # "readFinished"
      /\ pc' = [pc EXCEPT !["client"] = "readCertificate"]
      /\ consumed' = [consumed EXCEPT !["client"] = @ + 1]
      /\ Hash("client", Msg("client"))
      /\ UNCHANGED <<cfg, log, delivered>> /\ asked' = asked
  BY <1>1 DEF ReadEncryptedExtensions, ReadEncrypted, ReadRecord, ReadLabels, Goto
<1>6. keys["client"] = KeysAt(cfg, "client", 3)
  BY <1>3, Lengths DEF KeysAt
<1>7. g = NegotiatedAt(cfg, "client", 3)
  BY <1>3, <1>4 DEF NegotiatedAt
<1>8. Advance(in["client"]) = CipherOf(cfg, "server", 3)
  <2>1. Flight(cfg, "server") \in {5, 6} /\ "server" \in Endpoints
    BY Lengths, EndpointSet
  <2>2. in["client"] = CipherOf(cfg, "server", 2)
    BY <1>1
  <2>3. Advance(CipherOf(cfg, "server", 2)) = CipherOf(cfg, "server", 2 + 1)
    BY <2>1, Ciphers
  <2> QED
    BY <2>2, <2>3
<1>9. /\ keys' = keys /\ out' = out
      /\ in' = [in EXCEPT !["client"] = CipherOf(cfg, "server", 3)]
      /\ negotiated' = [negotiated EXCEPT !["client"] = g]
  <2>1. negotiated' = [negotiated EXCEPT !["client"].proto = Msg("client").val]
    BY DEF ReadEncryptedExtensions
  <2> QED
    BY <1>8, <2>1 DEF ReadEncryptedExtensions
<1> HIDE DEF g
<1>10. /\ Changes(keys, keys', "client") /\ keys'["client"] = keys["client"]
       /\ Changes(negotiated, negotiated', "client") /\ negotiated'["client"] = g
       /\ Changes(in, in', "client") /\ Changes(out, out', "client")
       /\ in'["client"] = CipherOf(cfg, "server", 3) /\ out'["client"] = NoCipher
  BY <1>1, <1>9, EndpointSet DEF Pairs, Changes, IsPair, Peer
<1>11. /\ keys'["client"] = KeysAt(cfg, "client", Len(log["client"]) + 2)
       /\ negotiated'["client"] = NegotiatedAt(cfg, "client", Len(log["client"]) + 2)
  BY <1>2, <1>6, <1>7, <1>10
<1>12. /\ Placed(cfg, asked', "client", "readCertificate", Len(log["client"]), 2)
       /\ Opening(cfg, "client", "readCertificate", in'["client"], 2)
       /\ Sealing(cfg, "client", "readCertificate", out'["client"], Len(log["client"]))
  BY <1>1, <1>5, <1>10 DEF Placed, ClientPlaced, Opening, Sealing, WriteLabels, Peer
<1> QED
  BY <1>1, <1>2, <1>5, <1>10, <1>11, <1>12, OneReads

(* The client learns that it has been asked.                               *)
LEMMA ScriptReadCertificateRequest ==
  ASSUME TypeOK, ScriptInv, TypeOK', ReadCertificateRequest
  PROVE  ScriptInv'
<1> DEFINE i == consumed["client"] + 1
<1>1. /\ "client" \in Endpoints /\ pc["client"] = "readCertificate" /\ Pairs
      /\ Pending("client") /\ Msg("client").type = "CertificateRequest"
      /\ consumed["client"] \in Nat
      /\ ClientPlaced(cfg, asked, "readCertificate", Len(log["client"]), consumed["client"])
  BY Here, EndpointSet
     DEF ReadCertificateRequest, ReadEncrypted, Accepts, Placed
<1>2. TypeOf(cfg, "server", i) = "CertificateRequest"
  BY <1>1, NextOnScript DEF Peer
<1>3. Asks(cfg) /\ ~asked /\ consumed["client"] = 2
  <2>1. i \in Nat \ {0} /\ (i = Flight(cfg, "server") - 2 => FALSE)
    BY <1>1, <1>2, ServerTypes
  <2>2. CASE asked
    <3>1. Asks(cfg) /\ consumed["client"] = 3 /\ Flight(cfg, "server") = 6
      BY <1>1, <2>2, Lengths DEF ClientPlaced
    <3> QED
      BY <2>1, <3>1
  <2>3. CASE ~asked
    <3>1. consumed["client"] = 2 /\ (~Asks(cfg) => Flight(cfg, "server") = 5)
      BY <1>1, <2>3, Lengths DEF ClientPlaced
    <3> QED
      BY <2>1, <2>3, <3>1
  <2> QED
    BY <2>2, <2>3
<1>4. /\ pc["client"] \in {"readCertificate", "readCertificateVerify"}
      /\ pc' = [pc EXCEPT !["client"] = "readCertificate"]
      /\ consumed' = [consumed EXCEPT !["client"] = @ + 1] /\ Hash("client", Msg("client"))
      /\ in' = [in EXCEPT !["client"] = Advance(@)]
      /\ UNCHANGED <<cfg, keys, out, negotiated, log, delivered>>
      /\ asked' = TRUE
  <2>1. pc' = [pc EXCEPT !["client"] = "readCertificate"]
    BY <1>1 DEF ReadCertificateRequest, TypeOK
  <2> QED
    BY <1>1, <2>1 DEF ReadCertificateRequest, ReadEncrypted, ReadRecord
<1>5. Placed(cfg, asked', "client", "readCertificate", Len(log["client"]), consumed["client"] + 1)
  <2>1. consumed["client"] + 1 = 3
    BY <1>3
  <2> QED
    BY <1>1, <1>3, <1>4, <2>1 DEF Placed, ClientPlaced
<1> QED
  BY <1>1, <1>4, <1>5, ReadsEncrypted

(* A certificate and its signature, as either side reads them.             *)
LEMMA ScriptReadCertificate ==
  ASSUME TypeOK, ScriptInv, TypeOK', NEW p \in Endpoints, ReadCertificate(p)
  PROVE  ScriptInv'
<1> DEFINE w == Len(log[p])
           r == consumed[p]
<1>1. /\ pc[p] = "readCertificate" /\ Pending(p) /\ Msg(p).type = "Certificate"
      /\ r \in Nat /\ w \in Nat /\ Placed(cfg, asked, p, "readCertificate", w, r)
      /\ TypeOf(cfg, Peer(p), r + 1) = "Certificate"
  BY Here, NextOnScript DEF ReadCertificate, ReadEncrypted, Accepts
<1>2. Placed(cfg, asked, p, "readCertificateVerify", w, r + 1)
  <2>1. CASE p = "client"
    <3>1. w = 1 /\ IF asked THEN Asks(cfg) /\ r = 3 ELSE r = 2
      BY <1>1, <2>1 DEF Placed, ClientPlaced
    <3>2. asked <=> Asks(cfg)
      <4>1. CASE asked
        BY <3>1, <4>1
      <4>2. CASE ~asked
        <5>1. r + 1 = 3
          BY <3>1, <4>2
        <5>2. TypeOf(cfg, "server", 3) = "Certificate"
          BY <1>1, <2>1, <5>1 DEF Peer
        <5>3. Asks(cfg) => TypeOf(cfg, "server", 3) = "CertificateRequest"
          BY ServerTypes
        <5> QED
          BY <4>2, <5>2, <5>3
      <4> QED
        BY <4>1, <4>2
    <3>3. r + 1 = Flight(cfg, "server") - 2
      BY <3>1, <3>2, Lengths
    <3> QED
      BY <2>1, <3>1, <3>2, <3>3 DEF Placed, ClientPlaced
  <2>2. CASE p = "server"
    <3>1. Asks(cfg) /\ w = Flight(cfg, "server") /\ r = 1
      BY <1>1, <2>2 DEF Placed, ServerPlaced
    <3> QED
      BY <2>2, <3>1 DEF Placed, ServerPlaced
  <2> QED
    BY <2>1, <2>2, EndpointSet
<1>3. /\ pc' = [pc EXCEPT ![p] = "readCertificateVerify"]
      /\ consumed' = [consumed EXCEPT ![p] = @ + 1] /\ Hash(p, Msg(p))
      /\ in' = [in EXCEPT ![p] = Advance(@)]
      /\ UNCHANGED <<cfg, keys, out, negotiated, log, delivered>> /\ asked' = asked
  BY DEF ReadCertificate, ReadEncrypted, ReadRecord, Goto
<1> QED
  BY <1>1, <1>2, <1>3, ReadsEncrypted

(* The signature that is checked covers what the reader has hashed.        *)
LEMMA ScriptReadCertificateVerify ==
  ASSUME TypeOK, ScriptInv, TypeOK', NEW p \in Endpoints, ReadCertificateVerify(p)
  PROVE  ScriptInv'
<1> DEFINE w == Len(log[p])
           r == consumed[p]
<1>1. /\ pc[p] = "readCertificateVerify" /\ Pending(p)
      /\ r \in Nat /\ w \in Nat /\ Placed(cfg, asked, p, "readCertificateVerify", w, r)
  BY Here DEF ReadCertificateVerify, ReadEncrypted, Accepts
<1>2. Placed(cfg, asked, p, "readFinished", w, r + 1)
  <2>1. CASE p = "client"
    <3>1. w = 1 /\ r = Flight(cfg, "server") - 2 /\ (asked <=> Asks(cfg))
      BY <1>1, <2>1 DEF Placed, ClientPlaced
    <3>2. r + 1 = Flight(cfg, "server") - 1
      BY <1>1, <3>1, Lengths
    <3> QED
      BY <2>1, <3>1, <3>2 DEF Placed, ClientPlaced
  <2>2. CASE p = "server"
    <3>1. Asks(cfg) /\ w = Flight(cfg, "server") /\ r = 2
      BY <1>1, <2>2 DEF Placed, ServerPlaced
    <3>2. r + 1 = Flight(cfg, "client") - 1
      BY <3>1, Lengths
    <3> QED
      BY <2>2, <3>1, <3>2 DEF Placed, ServerPlaced
  <2> QED
    BY <2>1, <2>2, EndpointSet
<1>3. /\ pc' = [pc EXCEPT ![p] = "readFinished"]
      /\ consumed' = [consumed EXCEPT ![p] = @ + 1] /\ Hash(p, Msg(p))
      /\ in' = [in EXCEPT ![p] = Advance(@)]
      /\ UNCHANGED <<cfg, keys, out, negotiated, log, delivered>> /\ asked' = asked
  BY DEF ReadCertificateVerify, ReadEncrypted, ReadRecord, Goto
<1> QED
  BY <1>1, <1>2, <1>3, ReadsEncrypted

(* The two Finished, as they are read.                                     *)
LEMMA ScriptClientReadFinished ==
  ASSUME TypeOK, ScriptInv, TypeOK', ClientReadFinished
  PROVE  ScriptInv'
<1> DEFINE F == Flight(cfg, "server")
           t == transcript'["client"]
           k == [keys["client"] EXCEPT !.finished = t]
           m == IF asked THEN "sendCertificate" ELSE "sendFinished"
           c == IF asked THEN Fresh(HandshakeKey(k, "client")) ELSE out["client"]
           quits == asked /\ ~(cfg["client"].cert /\ cfg["client"].key # "nil")
<1>1. /\ "client" \in Endpoints /\ pc["client"] = "readFinished" /\ Pairs
      /\ Pending("client") /\ consumed["client"] \in Nat
      /\ Len(log["client"]) = 1 /\ consumed["client"] = F - 1 /\ (asked <=> Asks(cfg))
      /\ out["client"] = NoCipher
  <2>1. pc["client"] = "readFinished" /\ Pending("client")
    BY Zenon DEF ClientReadFinished, ReadEncrypted, Accepts
  <2>2. "client" \in Endpoints
    BY EndpointSet
  <2> QED
    BY <2>1, <2>2, Here DEF Placed, ClientPlaced, Sealing, BeforeKeys
<1>2. F \in {5, 6} /\ F = consumed["client"] + 1 /\ Len(log["client"]) + F = F + 1
  BY <1>1, Lengths
<1>3. /\ keys["client"] = KeysAt(cfg, "client", F)
      /\ negotiated["client"] = NegotiatedAt(cfg, "client", F)
  <2>1. Len(log["client"]) + consumed["client"] = F
    BY <1>1, <1>2
  <2> QED
    BY <1>1, <2>1, InHandshake
<1>4. /\ pc["client"] \in ReadLabels \ {"done"}
      /\ consumed' = [consumed EXCEPT !["client"] = @ + 1]
      /\ Hash("client", Msg("client"))
      /\ keys' = [keys EXCEPT !["client"] = k]
      /\ in' = [in EXCEPT !["client"] = Fresh(AppKey(k, "server"))]
      /\ UNCHANGED <<cfg, negotiated, log, delivered>> /\ asked' = asked
  <2>1. pc["client"] \in ReadLabels \ {"done"}
    BY <1>1 DEF ReadLabels
  <2>2. ReadEncrypted("client", "Finished") /\ keys' = [keys EXCEPT !["client"] = k]
    BY Zenon DEF ClientReadFinished
  <2>3. in' = [in EXCEPT !["client"] = Fresh(AppKey(k, "server"))]
    BY Zenon DEF ClientReadFinished
  <2>4. UNCHANGED <<cfg, negotiated, log, delivered>> /\ asked' = asked
    BY Zenon DEF ClientReadFinished
  <2> QED
    BY <2>1, <2>2, <2>3, <2>4, Zenon DEF ReadEncrypted, ReadRecord
<1>5. /\ quits => pc' = [pc EXCEPT !["client"] = "failed"] /\ out' = out
      /\ ~quits => /\ pc' = [pc EXCEPT !["client"] = m]
                   /\ out' = IF asked THEN [out EXCEPT !["client"] = c] ELSE out
  BY Zenon DEF ClientReadFinished, Goto
<1>6. t = Prefix(cfg, F + 1) /\ Changes(transcript, transcript', "client")
  <2> HIDE DEF F
  <2> QED
    BY <1>1, <1>2, <1>4, ReadHashed
<1>7. k = KeysAt(cfg, "client", F + 1)
  <2>1. [KeysAt(cfg, "client", F) EXCEPT !.finished = Prefix(cfg, F + 1)]
          = KeysAt(cfg, "client", F + 1)
    BY <1>1, KeysMove, Zenon
  <2> HIDE DEF F, t
  <2> QED
    BY <1>3, <1>6, <2>1, Zenon
<1>8. /\ Fresh(AppKey(k, "server")) = CipherOf(cfg, "server", F + 1)
      /\ Fresh(HandshakeKey(k, "client")) = CipherOf(cfg, "client", 2)
  <2>1. /\ AppKey(KeysAt(cfg, "client", F + 1), "server") = ScriptAppKey(cfg, "server")
        /\ HandshakeKey(KeysAt(cfg, "client", F + 1), "client")
             = ScriptHandshakeKey(cfg, "client")
    BY <1>2, KeysSettle
  <2>2. /\ Fresh(ScriptAppKey(cfg, "server")) = CipherOf(cfg, "server", F + 1)
        /\ Fresh(ScriptHandshakeKey(cfg, "client")) = CipherOf(cfg, "client", 2)
    BY Ciphers, EndpointSet
  <2> HIDE DEF k
  <2> QED
    BY <1>7, <2>1, <2>2
<1>9. NegotiatedAt(cfg, "client", F + 1) = NegotiatedAt(cfg, "client", F)
  BY <1>2 DEF NegotiatedAt
<1>10. c = IF asked THEN CipherOf(cfg, "client", 2) ELSE NoCipher
  BY <1>1, <1>8
<1> HIDE DEF k, t, c, F
<1>11. /\ Changes(keys, keys', "client") /\ keys'["client"] = k
       /\ Changes(in, in', "client") /\ in'["client"] = Fresh(AppKey(k, "server"))
       /\ Changes(out, out', "client")
       /\ ~quits => out'["client"] = c
       /\ Changes(negotiated, negotiated', "client")
       /\ negotiated'["client"] = negotiated["client"]
  BY <1>1, <1>4, <1>5, <1>10, EndpointSet DEF Pairs, Changes, IsPair, Peer
<1>12. CASE quits
  <2>1. consumed'["client"] = F /\ Changes(consumed, consumed', "client")
    BY <1>1, <1>2, <1>4, EndpointSet DEF TypeOK, Changes, IsPair, Peer
  <2>2. F <= Len(log[Peer("client")])
    BY <1>1, <1>2, NextOnScript
  <2> QED
    BY <1>1, <1>4, <1>5, <1>6, <1>11, <1>12, <2>1, <2>2, OneFails
<1>13. CASE ~quits
  <2>1. /\ keys'["client"] = KeysAt(cfg, "client", Len(log["client"]) + F)
        /\ negotiated'["client"] = NegotiatedAt(cfg, "client", Len(log["client"]) + F)
    BY <1>2, <1>3, <1>7, <1>9, <1>11
  <2>2. Placed(cfg, asked', "client", m, Len(log["client"]), F)
    <3>1. ~Asks(cfg) => Len(log["client"]) = Flight(cfg, "client") - 1
      BY <1>1, Lengths
    <3> QED
      BY <1>1, <1>4, <3>1 DEF Placed, ClientPlaced, F
  <2>3. /\ Opening(cfg, "client", m, in'["client"], F)
        /\ Sealing(cfg, "client", m, out'["client"], Len(log["client"]))
    <3>1. Len(log["client"]) + 1 = 2
      BY <1>1
    <3> QED
      BY <1>1, <1>10, <1>11, <1>13, <3>1 DEF Opening, Sealing, ReadLabels, BeforeKeys
  <2>4. m \notin {"failed", "closed", "done"} /\ pc' = [pc EXCEPT !["client"] = m]
    BY <1>5, <1>13
  <2> HIDE DEF m, quits
  <2> QED
    BY <1>1, <1>2, <1>4, <1>11, <2>1, <2>2, <2>3, <2>4, OneReads
<1> QED
  BY <1>12, <1>13

(* The end of the server's handshake, with both of its ciphers.            *)
LEMMA ScriptServerReadFinished ==
  ASSUME TypeOK, ScriptInv, TypeOK', ServerReadFinished
  PROVE  ScriptInv'
<1> DEFINE F == Flight(cfg, "server")
           i == Flight(cfg, "client")
           n == F + i
<1>1. /\ "server" \in Endpoints /\ pc["server"] = "readFinished" /\ Pairs
      /\ Pending("server")
      /\ Len(log["server"]) = F /\ consumed["server"] = i - 1
  BY Here, EndpointSet
     DEF ServerReadFinished, ReadEncrypted, Accepts, Placed, ServerPlaced
<1>2. /\ F \in {5, 6} /\ i \in {2, 4} /\ i = consumed["server"] + 1
      /\ n - 1 \in Nat /\ n - 1 > F /\ n > F /\ n \in Nat
      /\ Len(log["server"]) + consumed["server"] = n - 1
  BY <1>1, Lengths
<1>3. /\ keys["server"] = KeysAt(cfg, "server", n - 1)
      /\ negotiated["server"] = NegotiatedAt(cfg, "server", n - 1)
  BY <1>1, <1>2, InHandshake
<1>4. /\ keys["server"] = KeysAt(cfg, "server", n)
      /\ negotiated["server"] = NegotiatedAt(cfg, "server", n)
  <2>1. /\ KeysAt(cfg, "server", n) = KeysAt(cfg, "server", n - 1)
        /\ NegotiatedAt(cfg, "server", n) = NegotiatedAt(cfg, "server", n - 1)
    <3> HIDE DEF n
    <3> QED
      BY <1>2 DEF KeysAt, NegotiatedAt
  <2> HIDE DEF n
  <2> QED
    BY <1>3, <2>1
<1>5. /\ Fresh(AppKey(keys["server"], "client")) = CipherOf(cfg, "client", i + 1)
      /\ Fresh(AppKey(keys["server"], "server")) = CipherOf(cfg, "server", F + 1)
  <2>1. \A q : AppKey(keys["server"], q) = ScriptAppKey(cfg, q)
    <3> HIDE DEF n
    <3> QED
      BY <1>2, <1>4, KeysSettle
  <2>2. /\ Fresh(ScriptAppKey(cfg, "server")) = CipherOf(cfg, "server", F + 1)
        /\ Fresh(ScriptAppKey(cfg, "client")) = CipherOf(cfg, "client", i + 1)
    BY Ciphers, EndpointSet
  <2> QED
    BY <2>1, <2>2
<1>6. /\ Changes(keys, keys', "server") /\ keys'["server"] = keys["server"]
      /\ Changes(negotiated, negotiated', "server")
      /\ negotiated'["server"] = negotiated["server"]
      /\ Changes(in, in', "server") /\ in'["server"] = CipherOf(cfg, "client", i + 1)
      /\ Changes(out, out', "server") /\ out'["server"] = CipherOf(cfg, "server", F + 1)
  <2>1. /\ in' = [in EXCEPT !["server"] = CipherOf(cfg, "client", i + 1)]
        /\ out' = [out EXCEPT !["server"] = CipherOf(cfg, "server", F + 1)]
        /\ keys' = keys /\ negotiated' = negotiated
    BY <1>5 DEF ServerReadFinished
  <2> QED
    BY <1>1, <2>1, EndpointSet DEF Pairs, Changes, IsPair, Peer
<1>7. /\ keys'["server"] = KeysAt(cfg, "server", Len(log["server"]) + i)
      /\ negotiated'["server"] = NegotiatedAt(cfg, "server", Len(log["server"]) + i)
  BY <1>1, <1>4, <1>6
<1>8. /\ Placed(cfg, asked', "server", "done", Len(log["server"]), i)
      /\ Opening(cfg, "server", "done", in'["server"], i)
      /\ Sealing(cfg, "server", "done", out'["server"], Len(log["server"]))
  BY <1>1, <1>2, <1>6 DEF Placed, ServerPlaced, Opening, Sealing, BeforeKeys, Peer
<1>9. /\ pc["server"] \in ReadLabels \ {"done"}
      /\ pc' = [pc EXCEPT !["server"] = "done"]
      /\ consumed' = [consumed EXCEPT !["server"] = @ + 1]
      /\ Hash("server", Msg("server"))
      /\ UNCHANGED <<cfg, log, delivered>> /\ asked' = asked
  BY <1>1 DEF ServerReadFinished, ReadEncrypted, ReadRecord, ReadLabels, Goto
<1> HIDE DEF i, F
<1> QED
  BY <1>1, <1>2, <1>6, <1>7, <1>8, <1>9, OneReads

---------------------------------------------------------------------------
(* The invariant *)

(* Nobody has written anything, and both are at the start of the script.   *)
LEMMA ScriptInit == Init => ScriptInv
<1> SUFFICES ASSUME Init PROVE ScriptInv
  OBVIOUS
<1> USE EndpointSet
<1>1. Pairs
  <2>1. IsSequence(<<>>)
    BY DEF IsSequence
  <2> QED
    BY <2>1 DEF Init, Pairs, IsPair
<1>2. ASSUME NEW p \in Endpoints
      PROVE  /\ log[p] = <<>> /\ delivered[p] = <<>> /\ consumed[p] = 0
             /\ pc[p] = (IF p = "client" THEN "sendClientHello" ELSE "readClientHello")
             /\ transcript[p] = <<>> /\ keys[p] = NoKeys
             /\ in[p] = NoCipher /\ out[p] = NoCipher
             /\ negotiated[p] = [suite |-> None, proto |-> None] /\ ~asked
  BY <1>2 DEF Init
<1>3. ASSUME NEW p \in Endpoints
      PROVE  /\ OnScript(cfg, p, log[p])
             /\ Outcome(cfg, p, pc[p], Len(log[p]), consumed[p], delivered[p])
             /\ consumed[p] <= Len(log[Peer(p)])
  <2>1. Peer(p) \in Endpoints /\ Flight(cfg, p) \in 2..6
    BY <1>3, Lengths
  <2>2. OnScript(cfg, p, log[p])
    BY <1>2, <1>3 DEF OnScript
  <2>3. Outcome(cfg, p, pc[p], 0, 0, <<>>)
    BY <1>2, <1>3, <2>1 DEF Outcome, IsSequence
  <2> QED
    BY <1>2, <1>3, <2>1, <2>2, <2>3
<1>4. ASSUME NEW p \in Endpoints PROVE Playing(p)
  <2> USE <1>4
  <2>1. Len(log[p]) = 0 /\ consumed[p] = 0 /\ Hashed(cfg, pc[p], 0, 0) = 0
    BY <1>2 DEF Hashed
  <2>2. Placed(cfg, asked, p, pc[p], 0, 0)
    BY <1>2 DEF Placed, ClientPlaced, ServerPlaced
  <2>3. KeysAt(cfg, p, 0) = NoKeys
    BY KeysMove, Zenon
  <2>4. Prefix(cfg, 0) = <<>> /\ NegotiatedAt(cfg, p, 0) = [suite |-> None, proto |-> None]
    BY DEF Prefix, NegotiatedAt
  <2>5. Knows(cfg, p, 0, transcript[p], keys[p], negotiated[p])
    BY <1>2, <2>3, <2>4 DEF Knows
  <2>6. CipherOf(cfg, Peer(p), 0 + 1) = NoCipher /\ CipherOf(cfg, p, 0 + 1) = NoCipher
    BY DEF CipherOf
  <2>7. Opening(cfg, p, pc[p], in[p], 0) /\ Sealing(cfg, p, pc[p], out[p], 0)
    BY <1>2, <2>6 DEF Opening, Sealing
  <2> QED
    BY <2>1, <2>2, <2>5, <2>7 DEF Playing
<1> QED
  BY <1>1, <1>3, <1>4 DEF ScriptInv

(* A failure sets pc, inside the handshake, and nothing else.              *)
LEMMA Quits ==
  ASSUME TypeOK, ScriptInv, NEW p \in Endpoints,
         \/ Refuse(p) \/ CannotSend(p) \/ PeerGone(p) \/ TransportFault(p)
  PROVE  /\ pc[p] \notin {"failed", "done", "closed"}
         /\ pc' = [pc EXCEPT ![p] = "failed"]
         /\ UNCHANGED <<cfg, conn, wire>>
<1>1. PICK reason : Fail(p, reason)
  BY Zenon DEF Refuse, CannotSend, PeerGone, TransportFault
<1>2. pc' = [pc EXCEPT ![p] = "failed"] /\ UNCHANGED <<cfg, conn, wire>>
  BY <1>1 DEF Fail, Goto
<1>3. pc[p] \notin {"failed", "done", "closed"}
  <2>1. CASE Refuse(p)
    BY <2>1, OnlyRefusals DEF Refuse, ReadLabels
  <2>2. CASE CannotSend(p)
    <3>1. pc[p] = "sendCertificate" \/ pc[p] = "sendCertificateVerify"
      BY <2>2, Zenon DEF CannotSend
    <3> QED
      BY <3>1
  <2>3. CASE PeerGone(p) \/ TransportFault(p)
    BY <2>3 DEF PeerGone, TransportFault, WriteLabels, ReadLabels
  <2> QED
    BY <2>1, <2>2, <2>3
<1> QED
  BY <1>2, <1>3

(* It takes its endpoint off the script.                                   *)
LEMMA ScriptFails ==
  ASSUME TypeOK, ScriptInv, TypeOK', NEW p \in Endpoints,
         \/ Refuse(p) \/ CannotSend(p) \/ PeerGone(p) \/ TransportFault(p)
  PROVE  ScriptInv'
BY Quits, OneQuits

(* Every step keeps both endpoints on the script.                          *)
LEMMA ScriptStep == TypeOK /\ ScriptInv /\ [Next]_vars => ScriptInv'
<1> SUFFICES ASSUME TypeOK, ScriptInv, [Next]_vars PROVE ScriptInv'
  OBVIOUS
<1>1. TypeOK'
  BY TypeStep
<1>2. CASE ClientStep
  BY <1>1, <1>2, ScriptSendClientHello, ScriptReadServerHello,
     ScriptReadEncryptedExtensions, ScriptReadCertificateRequest,
     ScriptClientReadFinished, ScriptClientSendFinished
     DEF ClientStep
<1>3. CASE ServerStep
  BY <1>1, <1>3, ScriptReadClientHello, ScriptSendServerHello,
     ScriptSendEncryptedExtensions, ScriptSendCertificateRequest,
     ScriptServerSendFinished, ScriptServerReadFinished
     DEF ServerStep
<1>4. ASSUME NEW p \in Endpoints, CommonStep(p) \/ Environment(p) PROVE ScriptInv'
  BY <1>1, <1>4, ScriptReadCertificate, ScriptReadCertificateVerify,
     ScriptSendCertificate, ScriptSendCertificateVerify, ScriptFails,
     ScriptRead, ScriptWrite, ScriptClose
     DEF CommonStep, Environment
<1>5. CASE UNCHANGED vars
  BY <1>5 DEF vars, conn, wire, ScriptInv, Pairs, Playing
<1> QED
  BY <1>2, <1>3, <1>4, <1>5 DEF Next, Terminated

(* The configurations of the two endpoints fix all that either of them     *)
(* writes, hashes, derives and installs, up to a failure                   *)
(* (clientHandshakeTLS13, serverHandshakeTLS13).                           *)
THEOREM FollowsTheScript == Spec => []ScriptInv
<1>1. Init => TypeOK /\ ScriptInv
  BY TypeInit, ScriptInit
<1>2. TypeOK /\ ScriptInv /\ [Next]_vars => (TypeOK /\ ScriptInv)'
  BY TypeStep, ScriptStep
<1> QED
  BY <1>1, <1>2, PTL DEF Spec

---------------------------------------------------------------------------
(* What follows from the script *)

(* What both endpoints report when they have completed.                    *)
ScriptView(C) == [negotiated |-> [suite |-> Suite(C), proto |-> Proto(C)],
                  up         |-> ScriptAppKey(C, "client"),
                  down       |-> ScriptAppKey(C, "server")]

(* An endpoint that has completed has the session the script ends with.    *)
LEMMA Completed ==
  ASSUME TypeOK, ScriptInv, NEW p \in Endpoints, HasFinished(p)
  PROVE  /\ transcript[p] = Prefix(cfg, Total(cfg))
         /\ View(p) = ScriptView(cfg)
         /\ Len(log[p]) >= Flight(cfg, p) /\ consumed[p] >= Flight(cfg, Peer(p))
<1> DEFINE n == Total(cfg)
<1>1. /\ pc[p] \in {"done", "closed"} /\ pc[p] # "failed"
      /\ Placed(cfg, asked, p, pc[p], Len(log[p]), consumed[p])
      /\ Knows(cfg, p, Hashed(cfg, pc[p], Len(log[p]), consumed[p]),
               transcript[p], keys[p], negotiated[p])
  BY Here DEF HasFinished
<1>2. Knows(cfg, p, n, transcript[p], keys[p], negotiated[p])
  BY <1>1 DEF Hashed
<1>3. n \in Nat /\ n > Flight(cfg, "server") /\ n > 2
  BY Lengths
<1> HIDE DEF n
<1>4. /\ transcript[p] = Prefix(cfg, n) /\ keys[p] = KeysAt(cfg, p, n)
      /\ negotiated[p] = [suite |-> Suite(cfg), proto |-> Proto(cfg)]
  BY <1>2, <1>3 DEF Knows, NegotiatedAt
<1>5. /\ AppKey(keys[p], "client") = ScriptAppKey(cfg, "client")
      /\ AppKey(keys[p], "server") = ScriptAppKey(cfg, "server")
  BY <1>3, <1>4, KeysSettle
<1>6. Len(log[p]) >= Flight(cfg, p) /\ consumed[p] >= Flight(cfg, Peer(p))
  BY <1>1, EndpointSet DEF Placed, ClientPlaced, ServerPlaced, Peer
<1> QED
  BY <1>4, <1>5, <1>6 DEF View, ScriptView, n

(* Endpoints that are done are where the script ends.                      *)
LEMMA ScriptAgrees == TypeOK /\ ScriptInv => Agreement
BY Completed, EndpointSet DEF Agreement

(* A failure is for one of the reasons a correct peer can give.            *)
LEMMA ProtocolStep ==
  TypeOK /\ ScriptInv /\ NoProtocolError /\ [Next]_vars => NoProtocolError'
<1> SUFFICES ASSUME TypeOK, ScriptInv, NoProtocolError, [Next]_vars
             PROVE  NoProtocolError'
  OBVIOUS
<1> DEFINE Blamed == {"record", "unexpected", "verify_data", "alpn"}
           Missing == "no certificate"
<1>0. Missing \notin Blamed
  BY Zenon
<1> HIDE DEF Missing
<1>1. ASSUME UNCHANGED why PROVE NoProtocolError'
  BY <1>1 DEF NoProtocolError
<1>2. ASSUME \A p \in Endpoints : why'[p] = why[p] \/ why'[p] \notin Blamed
      PROVE  NoProtocolError'
  BY <1>2 DEF NoProtocolError
<1>3. CASE ClientStep
  <2>1. CASE ClientReadFinished
    <3>1. CASE why' = [why EXCEPT !["client"] = Missing]
      BY <3>1, <1>0, <1>2 DEF TypeOK
    <3>2. why' = [why EXCEPT !["client"] = Missing] \/ UNCHANGED why
      BY <2>1, Zenon DEF ClientReadFinished, Missing
    <3> QED
      BY <3>1, <3>2, <1>1
  <2>2. CASE ~ClientReadFinished
    <3>1. UNCHANGED why
      BY <1>3, <2>2
         DEF ClientStep, SendClientHello, ReadServerHello, ReadEncryptedExtensions,
             ReadCertificateRequest, ClientSendFinished
    <3> QED
      BY <1>1, <3>1
  <2> QED
    BY <2>1, <2>2
<1>4. CASE ServerStep
  <2>1. UNCHANGED why
    BY <1>4
       DEF ServerStep, ReadClientHello, SendServerHello, SendEncryptedExtensions,
           SendCertificateRequest, ServerSendFinished, ServerReadFinished
  <2> QED
    BY <1>1, <2>1
<1>5. ASSUME NEW p \in Endpoints, CommonStep(p) \/ Environment(p) PROVE NoProtocolError'
  <2>1. CASE Refuse(p)
    <3>1. ReadError(p) \notin Blamed
      BY <2>1, OnlyRefusals DEF Refuse, None
    <3> QED
      BY <2>1, <3>1, <1>2 DEF Refuse, Fail, TypeOK
  <2>2. CASE CannotSend(p) \/ PeerGone(p) \/ TransportFault(p)
    <3>1. PICK reason : why' = [why EXCEPT ![p] = reason] /\ reason \in {Missing, "eof", "io"}
      BY <2>2, Zenon DEF CannotSend, PeerGone, TransportFault, Fail, Missing
    <3>2. reason \notin Blamed
      BY <3>1, <1>0
    <3> QED
      BY <3>1, <3>2, <1>2 DEF TypeOK
  <2>3. CASE \/ ReadCertificate(p) \/ ReadCertificateVerify(p) \/ SendCertificate(p)
             \/ SendCertificateVerify(p) \/ Read(p) \/ Write(p) \/ Close(p)
    BY <2>3, <1>1
       DEF ReadCertificate, ReadCertificateVerify, SendCertificate, SendCertificateVerify,
           Read, Write, Close
  <2> QED
    BY <1>5, <2>1, <2>2, <2>3 DEF CommonStep, Environment
<1>6. CASE UNCHANGED vars
  BY <1>1, <1>6 DEF vars
<1> QED
  BY <1>3, <1>4, <1>5, <1>6 DEF Next, Terminated

(* Two endpoints that have both completed had configurations that fit.     *)
LEMMA ScriptCompatible ==
  ASSUME TypeOK, ScriptInv, Auth PROVE OnlyCompatible
<1> SUFFICES ASSUME HasFinished("client"), HasFinished("server") PROVE Compatible
  BY DEF OnlyCompatible
<1> USE EndpointSet
<1>1. \A p \in Endpoints : OnScript(cfg, p, log[p]) /\ Len(log[p]) \in Nat
  BY Here DEF Follows
<1>2. Len(log["client"]) >= Flight(cfg, "client") /\ Len(log["server"]) >= Flight(cfg, "server")
  BY Completed
<1>3. Suite(cfg) # None /\ Proves("server")
  <2> DEFINE F == Flight(cfg, "server")
  <2>1. F \in {5, 6}
    BY Lengths
  <2>2. /\ TypeOf(cfg, "server", 1) = "ServerHello"
        /\ TypeOf(cfg, "server", F - 2) = "Certificate"
        /\ TypeOf(cfg, "server", F - 1) = "CertificateVerify"
    <3>1. F - 2 \in Nat \ {0} /\ F - 1 \in Nat \ {0}
      BY <2>1
    <3> QED
      BY <3>1, ServerTypes
  <2>3. 1 \in 1..Len(log["server"]) /\ F - 2 \in 1..Len(log["server"])
        /\ F - 1 \in 1..Len(log["server"])
    BY <1>1, <1>2, <2>1
  <2> HIDE DEF F
  <2> QED
    BY <1>1, <2>2, <2>3 DEF OnScript, Proves
<1>4. RequestsClientCert => Proves("client")
  <2> SUFFICES ASSUME Asks(cfg) PROVE Proves("client")
    BY DEF RequestsClientCert, Asks
  <2>1. /\ TypeOf(cfg, "client", 2) = "Certificate"
        /\ TypeOf(cfg, "client", 3) = "CertificateVerify"
    BY ClientTypes
  <2>2. 2 \in 1..Len(log["client"]) /\ 3 \in 1..Len(log["client"])
    BY <1>1, <1>2, Lengths
  <2> QED
    BY <1>1, <2>1, <2>2 DEF OnScript, Proves
<1>5. cfg["client"].insecure \/ (cfg["client"].chainOk /\ cfg["server"].key = "match")
  <2>1. Verified("client")
    BY DEF Auth, ClientOrder, HasFinished, ClientVerified
  <2> QED
    BY <2>1 DEF Verified, Peer
<1>6. RequestsClientCert =>
        \/ cfg["server"].insecure
        \/ cfg["client"].key = "match" /\ (cfg["server"].clientCAs => cfg["server"].chainOk)
  <2>1. RequestsClientCert => Verified("server")
    <3>1. pc["server"] \in {"readFinished", "done", "closed"}
      BY DEF HasFinished
    <3> QED
      BY <3>1, Zenon DEF Auth, ServerOrder
  <2> QED
    BY <2>1 DEF Verified, Peer
<1>7. cfg["server"].suites # <<>> =>
        ToSet(cfg["server"].suites) \cap {"GCM", "GCM_ALT"} # {}
  <2>1. cfg["server"].suites \in Seq(KnownSuites)
    BY DEF TypeOK, Config
  <2> QED
    BY <1>3, <2>1, OwnHelloNeedsGCM DEF Suite, ServerSuites
<1> QED
  BY <1>3, <1>4, <1>5, <1>6, <1>7 DEF Compatible

(* Every data record comes after its writer's Finished in the script.      *)
LEMMA ScriptProtectsData ==
  ASSUME TypeOK, ScriptInv PROVE DataUnderAppKeys
<1> SUFFICES ASSUME NEW p \in Endpoints, NEW i \in 1..Len(log[p]),
                    log[p][i].body.type = "Data"
             PROVE  /\ log[p][i].key = AppKey(keys[p], p)
                    /\ \E j \in 1 .. i - 1 : log[p][j].body.type = "Finished"
  BY DEF DataUnderAppKeys
<1> DEFINE F == Flight(cfg, p)
<1>1. Len(log[p]) \in Nat /\ OnScript(cfg, p, log[p]) /\ F \in 2..6
      /\ Outcome(cfg, p, pc[p], Len(log[p]), consumed[p], delivered[p])
  BY Here, Lengths, EndpointSet DEF Follows
<1>2. \A j \in 1..Len(log[p]) : /\ log[p][j].body.type = TypeOf(cfg, p, j)
                                /\ log[p][j].key = CipherOf(cfg, p, j).key
  <2> TAKE j \in 1..Len(log[p])
  <2>1. log[p][j] = RecordOf(cfg, p, j)
    BY <1>1 DEF OnScript
  <2> QED
    BY <2>1 DEF RecordOf, MessageOf, Message, Seal
<1>3. i > F /\ i \in Nat
  BY <1>1, <1>2, DataType
<1>4. HasFinished(p)
  BY <1>1, <1>3 DEF Outcome, HasFinished
<1>5. AppKey(keys[p], p) = ScriptAppKey(cfg, p)
  BY <1>4, Completed, EndpointSet DEF View, ScriptView
<1>6. CipherOf(cfg, p, i).key = ScriptAppKey(cfg, p)
  BY <1>1, <1>3 DEF CipherOf
<1>7. F \in 1 .. i - 1 /\ F \in 1..Len(log[p]) /\ TypeOf(cfg, p, F) = "Finished"
  BY <1>1, <1>3, ClientTypes, ServerTypes, EndpointSet
<1> QED
  BY <1>2, <1>5, <1>6, <1>7

(* Two endpoints that complete have hashed the same messages and hold the  *)
(* same suite, protocol and application keys, whatever the configurations  *)
(* (clientHandshakeTLS13, serverHandshakeTLS13).                           *)
THEOREM EndpointsAgree == Spec => []Agreement
<1>1. Spec => []TypeOK
  BY TypeCorrect
<1>2. TypeOK /\ ScriptInv => Agreement
  BY ScriptAgrees
<1> QED
  BY <1>1, <1>2, FollowsTheScript, PTL

(* No handshake between two endpoints of this implementation fails for a   *)
(* record that does not open, a message out of order, a verify_data that   *)
(* differs or a protocol the client did not offer.                         *)
THEOREM FailuresAreExplained == Spec => []NoProtocolError
<1>1. Init => TypeOK /\ ScriptInv /\ NoProtocolError
  <2>1. Init => NoProtocolError
    BY DEF Init, NoProtocolError, None
  <2> QED
    BY <2>1, TypeInit, ScriptInit
<1>2. TypeOK /\ ScriptInv /\ NoProtocolError /\ [Next]_vars
        => (TypeOK /\ ScriptInv /\ NoProtocolError)'
  BY TypeStep, ScriptStep, ProtocolStep
<1> QED
  BY <1>1, <1>2, PTL DEF Spec

(* Only configurations in which each side can prove itself as far as the   *)
(* other one verifies, with a suite in common, end in a session on both    *)
(* sides (selectCipherSuite and the checks of both handshake functions).   *)
THEOREM SessionsAreCompatible == Spec => []OnlyCompatible
<1>1. Init => TypeOK /\ NonceInv /\ Auth /\ ScriptInv
  BY TypeInit, NonceInit, AuthInit, ScriptInit
<1>2. TypeOK /\ NonceInv /\ Auth /\ ScriptInv /\ [Next]_vars
        => (TypeOK /\ NonceInv /\ Auth /\ ScriptInv)'
  BY TypeStep, NonceStep, AuthStep, ScriptStep DEF NonceInv
<1>3. TypeOK /\ ScriptInv /\ Auth => OnlyCompatible
  BY ScriptCompatible
<1> QED
  BY <1>1, <1>2, <1>3, PTL DEF Spec

(* No record of data leaves under a handshake key, in the clear or before  *)
(* its writer's Finished (setupApplicationTrafficKeys at the end of both   *)
(* handshake functions, and nothing after it replaces a cipher).           *)
THEOREM DataIsUnderAppKeys == Spec => []DataUnderAppKeys
<1>1. Spec => []TypeOK
  BY TypeCorrect
<1>2. TypeOK /\ ScriptInv => DataUnderAppKeys
  BY ScriptProtectsData
<1> QED
  BY <1>1, <1>2, FollowsTheScript, PTL

---------------------------------------------------------------------------
(* The handshake implements the session *)

(* What is to be seen of the session, said of the script.                  *)
Seen ==
  /\ Params = [p \in Endpoints |-> IF HasFinished(p) THEN ScriptView(cfg) ELSE NoView]
  /\ Sent = [p \in Endpoints |-> IF Len(log[p]) > Flight(cfg, p)
                                    THEN Len(log[p]) - Flight(cfg, p) ELSE 0]

(* What the steps of Session need to know of a reachable state.            *)
LEMMA ScriptIsSeen == TypeOK /\ ScriptInv => Seen
<1> SUFFICES ASSUME TypeOK, ScriptInv PROVE Seen
  OBVIOUS
<1>1. \A p \in Endpoints : HasFinished(p) => View(p) = ScriptView(cfg)
  BY Completed
<1>2. \A p \in Endpoints : Written(p) = IF Len(log[p]) > Flight(cfg, p)
                                          THEN Len(log[p]) - Flight(cfg, p) ELSE 0
  BY WrittenRecords
<1>3. Params = [p \in Endpoints |-> IF HasFinished(p) THEN ScriptView(cfg) ELSE NoView]
  BY <1>1 DEF Params
<1>4. Sent = [p \in Endpoints |-> IF Len(log[p]) > Flight(cfg, p)
                                     THEN Len(log[p]) - Flight(cfg, p) ELSE 0]
  BY <1>2 DEF Sent
<1> QED
  BY <1>3, <1>4 DEF Seen

(* That is not what an endpoint with no session reports.                   *)
LEMMA SomeView == \A C : ScriptView(C) # NoView
<1> TAKE C
<1>1. DOMAIN ScriptView(C) = {"negotiated", "up", "down"}
  BY DEF ScriptView
<1>2. DOMAIN NoView = {"negotiated"}
  BY DEF NoView
<1> QED
  BY <1>1, <1>2

(* A call of p's handshake function is a step of the session: p completes, *)
(* gives up, or nothing is to be seen of it.                               *)
LEMMA SessionHandshake ==
  ASSUME TypeOK, ScriptInv, Seen, TypeOK', ScriptInv', Seen', NEW p \in Endpoints, NEW m,
         pc[p] \notin {"done", "closed", "failed"}, m # "closed",
         pc' = [pc EXCEPT ![p] = m], UNCHANGED <<cfg, delivered>>,
         log'[Peer(p)] = log[Peer(p)],
         m = "done" => Len(log'[p]) <= Flight(cfg, p)
  PROVE  [S!Next]_(S!vars)
<1> DEFINE q == Peer(p)
           V == ScriptView(cfg)
<1>1. q \in Endpoints /\ q # p /\ \A e \in Endpoints : e = p \/ e = q
  BY EndpointSet
<1>2. pc'[p] = m /\ pc'[q] = pc[q]
  BY <1>1 DEF TypeOK
<1>3. ~(Len(log[p]) > Flight(cfg, p)) /\ ~(Len(log'[p]) > Flight(cfg, p))
  <2>1. ~(Len(log[p]) > Flight(cfg, p))
    BY Here DEF Follows, Outcome
  <2>2. Outcome(cfg, p, m, Len(log'[p]), consumed'[p], delivered'[p])
    BY <1>2 DEF ScriptInv
  <2>3. CASE m = "done"
    <3>1. Len(log'[p]) \in Nat
      BY DEF ScriptInv, Pairs, IsSequence
    <3>2. Flight(cfg, p) \in Nat
      BY Lengths, EndpointSet
    <3> QED
      BY <2>1, <2>3, <3>1, <3>2
  <2>4. CASE m # "done"
    BY <2>1, <2>2, <2>4 DEF Outcome
  <2> QED
    BY <2>3, <2>4
<1>4. Sent' = Sent
  BY <1>1, <1>3 DEF Seen
<1>5. /\ DOMAIN Params = Endpoints /\ DOMAIN Params' = Endpoints
      /\ Params[p] = NoView /\ Params[q] = IF pc[q] \in {"done", "closed"} THEN V ELSE NoView
      /\ Params'[q] = Params[q] /\ Params'[p] = IF m = "done" THEN V ELSE NoView
  BY <1>1, <1>2 DEF Seen, HasFinished
<1>6. /\ DOMAIN Phase = Endpoints /\ DOMAIN Phase' = Endpoints
      /\ Phase[p] = "handshaking" /\ Phase'[q] = Phase[q]
      /\ Phase'[p] = CASE m = "done" -> "established" [] m = "failed" -> "failed"
                       [] OTHER -> "handshaking"
  BY <1>1, <1>2 DEF Phase
<1>7. CASE m = "done"
  <2>1. p = "server" => pc["client"] \in {"done", "closed"}
    <3> SUFFICES ASSUME p = "server" PROVE pc["client"] \in {"done", "closed"}
      OBVIOUS
    <3>1. Placed(cfg, asked', "server", "done", Len(log'["server"]), consumed'["server"])
      BY <1>2, <1>7 DEF ScriptInv, Playing
    <3>2. consumed'["server"] >= Flight(cfg, "client")
      BY <3>1 DEF Placed, ServerPlaced
    <3>3. consumed'["server"] <= Len(log["client"])
      BY EndpointSet DEF ScriptInv, Peer
    <3>4. /\ Len(log["client"]) \in Nat
          /\ Outcome(cfg, "client", pc["client"], Len(log["client"]), consumed["client"],
                     delivered["client"])
      BY Here, EndpointSet DEF Follows
    <3>5. consumed'["server"] \in Nat /\ Flight(cfg, "client") \in Nat
      BY Lengths, EndpointSet DEF TypeOK
    <3>6. Len(log["client"]) >= Flight(cfg, "client")
      BY <3>2, <3>3, <3>4, <3>5
    <3> QED
      BY <3>4, <3>5, <3>6 DEF Outcome
  <2>2. Phase' = [Phase EXCEPT ![p] = "established"]
    BY <1>1, <1>6, <1>7 DEF Phase
  <2>3. Params' = [Params EXCEPT ![p] = Params'[p]]
    BY <1>1, <1>5 DEF Params
  <2>4. Params'[p] # NoView /\ (Params[q] # NoView => Params'[p] = Params[q])
    BY <1>5, <1>7, SomeView
  <2>5. p = "server" => Params["client"] # NoView
    BY <1>5, <2>1, SomeView DEF Peer
  <2>6. S!Establish(p)
    BY <1>4, <1>6, <2>2, <2>3, <2>4, <2>5 DEF S!Establish, S!Other, Peer
  <2> QED
    BY <2>6 DEF S!Next, S!Ends, Endpoints
<1>8. CASE m # "done"
  <2>1. Params' = Params
    BY <1>1, <1>5, <1>8 DEF Params
  <2>2. CASE m = "failed"
    <3>1. Phase' = [Phase EXCEPT ![p] = "failed"]
      BY <1>1, <1>6, <2>2 DEF Phase
    <3>2. S!Abort(p)
      BY <1>4, <1>6, <2>1, <3>1 DEF S!Abort
    <3> QED
      BY <3>2 DEF S!Next, S!Ends, Endpoints
  <2>3. CASE m # "failed"
    <3>1. Phase' = Phase
      BY <1>1, <1>6, <1>8, <2>3 DEF Phase
    <3> QED
      BY <1>4, <2>1, <3>1 DEF S!vars
  <2> QED
    BY <2>2, <2>3
<1> QED
  BY <1>7, <1>8
(* Write is a write of the session.                                        *)
LEMMA SessionWrite ==
  ASSUME TypeOK, ScriptInv, Seen, TypeOK', ScriptInv', Seen', NEW p \in Endpoints, Write(p)
  PROVE  [S!Next]_(S!vars)
<1> DEFINE q == Peer(p)
           F == Flight(cfg, p)
<1>1. q \in Endpoints /\ q # p /\ \A e \in Endpoints : e = p \/ e = q
  BY EndpointSet
<1>2. /\ pc[p] = "done" /\ Len(log[p]) \in Nat /\ Pairs
      /\ Placed(cfg, asked, p, "done", Len(log[p]), consumed[p])
  BY Here DEF Write
<1>3. F \in Nat /\ Len(log[p]) >= F
  BY <1>2, Lengths, EndpointSet DEF Placed, ClientPlaced, ServerPlaced
<1>4. /\ Len(log'[p]) = Len(log[p]) + 1 /\ log'[q] = log[q]
      /\ UNCHANGED <<cfg, pc, delivered>>
  <2>1. /\ log' = [log EXCEPT ![p] =
              Append(@, Seal(out[p], Message("Data", p, Written(p) + 1, None)))]
        /\ UNCHANGED <<cfg, pc, delivered>>
    BY DEF Write, WriteRecord
  <2> DEFINE x == Append(log[p], Seal(out[p], Message("Data", p, Written(p) + 1, None)))
  <2>2. Len(x) = Len(log[p]) + 1
    BY <1>2, AppendSequence DEF Pairs
  <2>3. log' = [log EXCEPT ![p] = x]
    BY <2>1
  <2> HIDE DEF x
  <2> QED
    BY <1>1, <1>2, <2>1, <2>2, <2>3, EndpointSet DEF Pairs, IsPair
<1>5. Sent[p] = Len(log[p]) - F /\ Sent'[p] = Len(log'[p]) - F /\ Sent'[q] = Sent[q]
  <2>1. Len(log'[p]) > F
    BY <1>2, <1>3, <1>4
  <2>2. Sent'[p] = Len(log'[p]) - F /\ Sent'[q] = Sent[q]
    BY <1>1, <1>4, <2>1 DEF Seen
  <2>3. Sent[p] = IF Len(log[p]) > F THEN Len(log[p]) - F ELSE 0
    BY DEF Seen
  <2>4. Sent[p] = Len(log[p]) - F
    BY <1>2, <1>3, <2>3
  <2> QED
    BY <2>2, <2>4
<1> HIDE DEF F
<1>6. Sent'[p] = Sent[p] + 1
  BY <1>2, <1>3, <1>4, <1>5
<1>7. Sent' = [Sent EXCEPT ![p] = @ + 1]
  BY <1>1, <1>5, <1>6 DEF Sent
<1>8. Phase[p] = "established" /\ Phase' = Phase /\ Params' = Params
  BY <1>2, <1>4 DEF Phase, Seen, HasFinished
<1>9. S!WriteMessage(p)
  BY <1>4, <1>7, <1>8 DEF S!WriteMessage
<1> QED
  BY <1>9 DEF S!Next, S!Ends, Endpoints

(* Read is a read of the session: the next message the peer has written.   *)
LEMMA SessionRead ==
  ASSUME TypeOK, ScriptInv, Seen, TypeOK', ScriptInv', Seen', NEW p \in Endpoints, Read(p)
  PROVE  [S!Next]_(S!vars)
<1> DEFINE q == Peer(p)
           F == Flight(cfg, q)
<1>1. q \in Endpoints /\ F \in Nat
  BY EndpointSet, Lengths
<1>2. /\ pc[p] = "done" /\ UNCHANGED <<cfg, pc, log>>
      /\ delivered' = [delivered EXCEPT ![p] = Append(@, Msg(p).val)]
  BY DEF Read
<1>3. /\ Msg(p).val = Len(delivered[p]) + 1
      /\ Len(delivered[p]) + 1 <= Len(log[q]) - F
  BY ScriptRead
<1>4. Len(log[q]) \in Nat /\ Len(delivered[p]) \in Nat
  BY <1>1, Here DEF Follows, Outcome, IsSequence
<1>5. Len(delivered[p]) < Sent[q]
  <2>1. Sent[q] = IF Len(log[q]) > F THEN Len(log[q]) - F ELSE 0
    BY <1>1 DEF Seen
  <2> HIDE DEF F
  <2> QED
    BY <1>1, <1>3, <1>4, <2>1
<1>6. /\ Phase[p] = "established" /\ Phase' = Phase /\ Params' = Params /\ Sent' = Sent
  BY <1>2 DEF Phase, Seen, HasFinished
<1>7. delivered' = [delivered EXCEPT ![p] = Append(@, Len(@) + 1)]
  BY <1>2, <1>3
<1>8. S!ReadMessage(p)
  BY <1>5, <1>6, <1>7 DEF S!ReadMessage, S!Other, Peer
<1> QED
  BY <1>8 DEF S!Next, S!Ends, Endpoints

(* Close ends the session of its endpoint.                                 *)
LEMMA SessionClose ==
  ASSUME TypeOK, Seen, Seen', NEW p \in Endpoints, Close(p)
  PROVE  [S!Next]_(S!vars)
<1>1. /\ pc[p] = "done" /\ pc' = [pc EXCEPT ![p] = "closed"]
      /\ UNCHANGED <<cfg, log, delivered>>
  BY DEF Close, Goto, wire
<1>2. pc'[p] = "closed" /\ \A e \in Endpoints : e # p => pc'[e] = pc[e]
  BY <1>1 DEF TypeOK
<1>3. Phase[p] = "established" /\ Phase' = [Phase EXCEPT ![p] = "closed"]
  BY <1>1, <1>2 DEF Phase
<1>4. Params' = Params
  <2>1. \A e \in Endpoints : HasFinished(e)' <=> HasFinished(e)
    BY <1>1, <1>2 DEF HasFinished
  <2> QED
    BY <1>1, <2>1 DEF Seen
<1>5. Sent' = Sent
  BY <1>1 DEF Seen
<1>6. S!Finish(p)
  BY <1>1, <1>3, <1>4, <1>5 DEF S!Finish
<1> QED
  BY <1>6 DEF S!Next, S!Ends, Endpoints

(* Nothing of the session has happened when the handshake starts.          *)
LEMMA SessionInit == Init => S!Init
<1> SUFFICES ASSUME Init PROVE S!Init
  OBVIOUS
<1>1. Phase = [p \in Endpoints |-> "handshaking"]
  BY EndpointSet DEF Init, Phase
<1>2. Params = [p \in Endpoints |-> NoView]
  BY EndpointSet DEF Init, Params, HasFinished
<1>3. Sent = [p \in Endpoints |-> 0]
  BY TypeInit, ScriptInit, ScriptIsSeen, Lengths, EndpointSet DEF Init, Seen
<1> QED
  BY <1>1, <1>2, <1>3 DEF S!Init, S!Ends, Endpoints, Init

(* The calls in which an endpoint does not complete.                       *)
LEMMA SessionCall ==
  ASSUME TypeOK, ScriptInv, Seen, TypeOK', ScriptInv', Seen', NEW p \in Endpoints,
         \/ ReadCertificate(p) \/ ReadCertificateVerify(p)
         \/ SendCertificate(p) \/ SendCertificateVerify(p)
         \/ p = "client" /\ \/ SendClientHello \/ ReadServerHello
                            \/ ReadEncryptedExtensions \/ ReadCertificateRequest
         \/ p = "server" /\ \/ ReadClientHello \/ SendServerHello
                            \/ SendEncryptedExtensions \/ SendCertificateRequest
                            \/ ServerSendFinished
  PROVE  [S!Next]_(S!vars)
<1>1. pc[p] \notin {"done", "closed", "failed"}
  BY DEF ReadCertificate, ReadCertificateVerify, SendCertificate, SendCertificateVerify,
         SendClientHello, ReadServerHello, ReadEncryptedExtensions,
         ReadCertificateRequest, ReadClientHello, SendServerHello,
         SendEncryptedExtensions, SendCertificateRequest, ServerSendFinished
<1>2. UNCHANGED <<cfg, delivered>>
  BY DEF ReadCertificate, ReadCertificateVerify, SendCertificate, SendCertificateVerify,
         SendClientHello, ReadServerHello, ReadEncryptedExtensions,
         ReadCertificateRequest, ReadClientHello, SendServerHello,
         SendEncryptedExtensions, SendCertificateRequest, ServerSendFinished
<1>3. log' = log \/ \E x : log' = [log EXCEPT ![p] = x]
  BY DEF ReadCertificate, ReadCertificateVerify, SendCertificate, SendCertificateVerify,
         SendClientHello, ReadServerHello, ReadEncryptedExtensions,
         ReadCertificateRequest, ReadClientHello, SendServerHello,
         SendEncryptedExtensions, SendCertificateRequest, ServerSendFinished,
         WriteRecord
<1>4. log'[Peer(p)] = log[Peer(p)]
  BY <1>3, EndpointSet DEF ScriptInv, Pairs, IsPair
<1>5. PICK m : m \notin {"done", "closed"} /\ pc' = [pc EXCEPT ![p] = m]
  <2>1. CASE p = "client" /\ ReadCertificateRequest
    <3>1. pc' = [pc EXCEPT ![p] = pc[p]]
      BY <2>1 DEF ReadCertificateRequest, TypeOK
    <3> QED
      BY <1>1, <3>1
  <2>2. CASE ~(p = "client" /\ ReadCertificateRequest)
    BY <2>2
       DEF ReadCertificate, ReadCertificateVerify, SendCertificate, SendCertificateVerify,
           SendClientHello, ReadServerHello, ReadEncryptedExtensions,
           ReadClientHello, SendServerHello,
           SendEncryptedExtensions, SendCertificateRequest, ServerSendFinished, Goto
  <2> QED
    BY <2>1, <2>2
<1> QED
  BY <1>1, <1>2, <1>4, <1>5, SessionHandshake

(* The client's reading of the Finished, which it may fail after.          *)
LEMMA SessionClientReads ==
  ASSUME TypeOK, ScriptInv, Seen, TypeOK', ScriptInv', Seen', ClientReadFinished
  PROVE  [S!Next]_(S!vars)
<1>1. /\ pc["client"] = "readFinished" /\ log' = log
      /\ UNCHANGED <<cfg, delivered>>
  BY Zenon DEF ClientReadFinished
<1>2. \/ pc' = [pc EXCEPT !["client"] = "failed"]
      \/ pc' = [pc EXCEPT !["client"] = "sendCertificate"]
      \/ pc' = [pc EXCEPT !["client"] = "sendFinished"]
  BY Zenon DEF ClientReadFinished, Goto
<1> QED
  BY <1>1, <1>2, SessionHandshake, EndpointSet

(* The calls in which it does.                                             *)
LEMMA SessionEstablished ==
  ASSUME TypeOK, ScriptInv, Seen, TypeOK', ScriptInv', Seen',
         ClientSendFinished \/ ServerReadFinished
  PROVE  [S!Next]_(S!vars)
<1> USE EndpointSet
<1>1. CASE ClientSendFinished
  <2> DEFINE x == Append(log["client"], Seal(FinishedCipher("client"), Finished("client")))
  <2>1. /\ pc["client"] = "sendFinished" /\ pc' = [pc EXCEPT !["client"] = "done"]
        /\ log' = [log EXCEPT !["client"] = x] /\ UNCHANGED <<cfg, delivered>>
    BY <1>1 DEF ClientSendFinished, Goto
  <2>2. IsSequence(log["client"]) /\ Len(log["client"]) \in Nat /\ IsPair(log)
    BY Here DEF Pairs
  <2>3. Len(x) = Len(log["client"]) + 1
    BY <2>2, AppendSequence
  <2>4. Len(log["client"]) + 1 = Flight(cfg, "client")
    BY <2>1, FinishedOnScript
  <2> HIDE DEF x
  <2>5. log'["client"] = x /\ log'["server"] = log["server"]
    BY <2>1, <2>2 DEF IsPair
  <2>6. Len(log'["client"]) <= Flight(cfg, "client")
    <3>1. Flight(cfg, "client") \in Nat
      BY Lengths
    <3> QED
      BY <2>3, <2>4, <2>5, <3>1
  <2> QED
    BY <2>1, <2>5, <2>6, SessionHandshake DEF Peer
<1>2. CASE ServerReadFinished
  <2>1. /\ pc["server"] = "readFinished" /\ pc' = [pc EXCEPT !["server"] = "done"]
        /\ UNCHANGED <<cfg, delivered, log>>
    BY <1>2 DEF ServerReadFinished, Goto
  <2>2. Len(log["server"]) = Flight(cfg, "server")
    BY <2>1, Here DEF Placed, ServerPlaced
  <2>3. Len(log'["server"]) <= Flight(cfg, "server")
    BY <2>1, <2>2, Lengths
  <2> QED
    BY <2>1, <2>3, SessionHandshake
<1> QED
  BY <1>1, <1>2

(* A failure gives the session up.                                         *)
LEMMA SessionAborts ==
  ASSUME TypeOK, ScriptInv, Seen, TypeOK', ScriptInv', Seen', NEW p \in Endpoints,
         \/ Refuse(p) \/ CannotSend(p) \/ PeerGone(p) \/ TransportFault(p)
  PROVE  [S!Next]_(S!vars)
<1>1. /\ pc' = [pc EXCEPT ![p] = "failed"] /\ UNCHANGED <<cfg, conn, wire>>
      /\ pc[p] \notin {"failed", "done", "closed"}
  BY Quits
<1> QED
  BY <1>1, SessionHandshake DEF wire

(* Every step of the two endpoints is a step of the session, or none.      *)
LEMMA SessionStep ==
  TypeOK /\ ScriptInv /\ Seen /\ (TypeOK /\ ScriptInv /\ Seen)' /\ [Next]_vars
    => [S!Next]_(S!vars)
<1> SUFFICES ASSUME TypeOK, ScriptInv, Seen, TypeOK', ScriptInv', Seen', [Next]_vars
             PROVE  [S!Next]_(S!vars)
  OBVIOUS
<1>1. CASE ClientStep
  BY <1>1, SessionCall, SessionClientReads, SessionEstablished, EndpointSet
     DEF ClientStep
<1>2. CASE ServerStep
  BY <1>2, SessionCall, SessionEstablished, EndpointSet DEF ServerStep
<1>3. ASSUME NEW p \in Endpoints, CommonStep(p) \/ Environment(p)
      PROVE  [S!Next]_(S!vars)
  BY <1>3, SessionCall, SessionAborts, SessionRead, SessionWrite, SessionClose
     DEF CommonStep, Environment
<1>4. CASE UNCHANGED vars
  <2>1. UNCHANGED <<cfg, pc, log, delivered>>
    BY <1>4 DEF vars, wire
  <2>2. Phase' = Phase /\ Params' = Params /\ Sent' = Sent
    BY <2>1 DEF Phase, Seen, HasFinished
  <2> QED
    BY <2>1, <2>2 DEF S!vars
<1> QED
  BY <1>1, <1>2, <1>3, <1>4 DEF Next, Terminated

(* The two handshake functions with all their messages, and Read, Write    *)
(* and Close after them, implement a session: each endpoint ends its       *)
(* handshake once, the server never before the client, both with the same  *)
(* parameters; what one application writes the other one reads, in order.  *)
THEOREM SessionIsImplemented == Spec => ImplementsSession
<1>1. Init => TypeOK /\ ScriptInv /\ S!Init
  BY TypeInit, ScriptInit, SessionInit
<1>2. TypeOK /\ ScriptInv /\ [Next]_vars => (TypeOK /\ ScriptInv)'
  BY TypeStep, ScriptStep
<1>3. TypeOK /\ ScriptInv => Seen
  BY ScriptIsSeen
<1>4. TypeOK /\ ScriptInv /\ Seen /\ (TypeOK /\ ScriptInv /\ Seen)' /\ [Next]_vars
        => [S!Next]_(S!vars)
  BY SessionStep
<1> QED
  BY <1>1, <1>2, <1>3, <1>4, PTL DEF Spec, ImplementsSession, S!Spec
=============================================================================
