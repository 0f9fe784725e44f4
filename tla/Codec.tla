------------------------------- MODULE Codec -------------------------------
(***************************************************************************)
(* The handshake messages and extensions as bytes: what marshal writes and *)
(* what unmarshal makes of it, of a part of it, and of bytes one of which  *)
(* is another.  A byte has Base values (256 in the code) and a length of w *)
(* bytes is cut to its lowest w digits, so that every overflow of a length *)
(* happens in a small base as it does in the large one.                    *)
(***************************************************************************)
EXTENDS Naturals, Sequences, SequencesExt

CONSTANTS
  Base,       \* values of a byte
  FixedLen,   \* bytes of a hello's version and random number
  Values,     \* the messages and extensions to consider
  Following   \* bytes that may follow in a record or an extension

ASSUME CodecAssumption ==
  /\ Base \in Nat \ {0, 1} /\ FixedLen \in Nat \ {0}
  /\ Following \in Seq(Nat)

VARIABLES
  value,    \* what is written
  data,     \* its bytes as they arrive
  change,   \* what has happened to them: "none", "cut", "more", "byte"
  result    \* what the reader makes of them

vars == <<value, data, change, result>>

typeClientHello == 1
typeServerHello == 2
typeNewSessionTicket == 4
typeEncryptedExtensions == 8
typeCertificate == 11
typeCertificateRequest == 13
typeCertificateVerify == 15
typeFinished == 20

---------------------------------------------------------------------------
(* Writing *)

Power(w) == CASE w = 1 -> Base [] w = 2 -> Base * Base [] w = 3 -> Base * Base * Base

(* byte(n), uint16(n), writeUint24.                                        *)
Number(n, w) ==
  [i \in 1..w |-> (IF i = w THEN n ELSE n \div Power(w - i)) % Base]

Vector(s, w) == Number(Len(s), w) \o s
Numbers(s) == FlattenSeq([i \in DOMAIN s |-> Number(s[i], 2)])
Vectors(s, w) == FlattenSeq([i \in DOMAIN s |-> Vector(s[i], w)])

(* An extension, or a key share: a number and some bytes.                  *)
Entry(e) == Number(e.type, 2) \o Vector(e.data, 2)
Entries(s) == FlattenSeq([i \in DOMAIN s |-> Entry(s[i])])

Message(type, body) == <<type>> \o Vector(body, 3)

MarshalHello(type, m, choice) ==
  Message(type, m.fixed \o Vector(m.sessionID, 1) \o choice \o Vector(Entries(m.extensions), 2))

ClientHello(m) ==
  MarshalHello(typeClientHello, m, Vector(Numbers(m.suites), 2) \o Vector(m.compression, 1))
ServerHello(m) ==
  MarshalHello(typeServerHello, m, Number(m.suite, 2) \o m.compression)

EncryptedExtensions(m) ==
  Message(typeEncryptedExtensions, Vector(Entries(m.extensions), 2))

Certificate(m) ==
  LET entry(c) == Vector(c, 3) \o <<0, 0>> IN
  Message(typeCertificate,
    Vector(m.context, 1) \o
    Vector(FlattenSeq([i \in DOMAIN m.chain |-> entry(m.chain[i])]), 3))

CertificateRequest(m) ==
  Message(typeCertificateRequest,
    Vector(m.context, 1) \o Vector(Entries(m.extensions), 2))

CertificateVerify(m) ==
  Message(typeCertificateVerify, Number(m.algorithm, 2) \o Vector(m.signature, 2))

Finished(m) == Message(typeFinished, m.verifyData)

(* A peer's: this implementation sends none.  times: lifetime and age.     *)
NewSessionTicket(m) ==
  Message(typeNewSessionTicket,
    m.times \o Vector(m.nonce, 1) \o Vector(m.ticket, 2) \o Vector(<<>>, 2))

ServerName(m) == Vector(<<0>> \o Vector(m.name, 2), 2)
Protocols(m) == Vector(Vectors(m.protocols, 1), 2)

(* signature_algorithms and supported_groups.                              *)
NumberList(m) == Vector(Numbers(m.numbers), 2)

(* Faulty variant: the length of the list counts its own two bytes.        *)
ClientSharesWhole(m) ==
  Number(Len(Entries(m.shares)) + 2, 2) \o Entries(m.shares)

ClientShares(m) == Vector(Entries(m.shares), 2)
ServerShare(m) == Entry(m.share)
PSKModes(m) == Vector(m.modes, 1)
Versions(m) == Vector(Numbers(m.versions), 1)

(* pre_shared_key: one identity with its age of four bytes, one binder,    *)
(* zeroed while the hello is hashed; SetBinder puts it in its place.       *)
ZeroBinder(m) ==
  LET identity == Vector(m.ticket, 2) \o m.age IN
  Vector(identity, 2) \o Vector(Vector([i \in DOMAIN m.binder |-> 0], 1), 2)
BinderStart(m) == 2 + (2 + Len(m.ticket) + Len(m.age)) + 2 + 1
PreSharedKey(m) ==
  [i \in DOMAIN ZeroBinder(m) |->
     IF i \in BinderStart(m) + 1 .. BinderStart(m) + Len(m.binder)
       THEN m.binder[i - BinderStart(m)] ELSE ZeroBinder(m)[i]]

Marshal(m) ==
  CASE m.kind = "ClientHello"         -> ClientHello(m)
    [] m.kind = "ServerHello"         -> ServerHello(m)
    [] m.kind = "EncryptedExtensions" -> EncryptedExtensions(m)
    [] m.kind = "Certificate"         -> Certificate(m)
    [] m.kind = "CertificateRequest"  -> CertificateRequest(m)
    [] m.kind = "CertificateVerify"   -> CertificateVerify(m)
    [] m.kind = "Finished"            -> Finished(m)
    [] m.kind = "NewSessionTicket"    -> NewSessionTicket(m)
    [] m.kind = "ServerName"          -> ServerName(m)
    [] m.kind = "Protocols"           -> Protocols(m)
    [] m.kind = "NumberList"          -> NumberList(m)
    [] m.kind = "ClientShares"        -> ClientShares(m)
    [] m.kind = "ServerShare"         -> ServerShare(m)
    [] m.kind = "PSKModes"            -> PSKModes(m)
    [] m.kind = "Versions"            -> Versions(m)
    [] m.kind = "PreSharedKey"        -> PreSharedKey(m)

---------------------------------------------------------------------------
(* Reading.  Offsets count from 0, as in the code. *)

Ok(val) == [kind |-> "ok", val |-> val]
Rejected == [kind |-> "error", val |-> <<>>]
Panic == [kind |-> "panic", val |-> <<>>]
Waiting == [kind |-> "waiting", val |-> <<>>]

Bytes(d, from, to) == SubSeq(d, from + 1, to)

(* The number of w bytes at an offset, 0 if they are not there.            *)
At(d, off, w) ==
  IF off + w > Len(d) THEN 0
  ELSE FoldLeft(LAMBDA n, b : n * Base + b, 0, Bytes(d, off, off + w))

(* A length of w bytes and as many bytes, all before the limit.            *)
Block(d, off, w, limit) ==
  LET n == At(d, off, w) IN
  [ok |-> off + w <= limit /\ off + w + n <= limit,
   from |-> off + w, to |-> off + w + n, n |-> n]

Content(d, b) == Bytes(d, b.from, b.to)
Pairs(d, b) == [i \in 1 .. b.n \div 2 |-> At(d, b.from + 2 * (i - 1), 2)]

(* One element of a list that ends at an offset.  A protocol may reach     *)
(* beyond it.                                                              *)
EntryItem(d, off, to) ==
  LET b == Block(d, off + 2, 2, to) IN
  IF ~b.ok THEN Rejected
  ELSE Ok([item |-> [type |-> At(d, off, 2), data |-> Content(d, b)], next |-> b.to])

ProtocolItem(d, off) ==
  LET b == Block(d, off, 1, Len(d)) IN
  IF ~b.ok THEN Rejected ELSE Ok([item |-> Content(d, b), next |-> b.to])

(* Faulty variant: no room is asked for the length of the extensions.      *)
CertificateItemAtEnd(d, off, to) ==
  LET b == Block(d, off, 3, to)
      end == b.to + 2 + At(d, b.to, 2)
  IN  IF ~b.ok THEN Rejected
      ELSE IF b.to + 2 > Len(d) THEN Panic
      ELSE IF end > to THEN Rejected
      ELSE Ok([item |-> Content(d, b), next |-> end])

CertificateItem(d, off, to) ==
  LET b == Block(d, off, 3, to - 2)
      end == b.to + 2 + At(d, b.to, 2)
  IN  IF ~b.ok THEN Rejected
      ELSE IF b.to + 2 > Len(d) THEN Panic
      ELSE IF end > to THEN Rejected
      ELSE Ok([item |-> Content(d, b), next |-> end])

Item(list, d, off, to) ==
  CASE list = "entries"      -> EntryItem(d, off, to)
    [] list = "protocols"    -> ProtocolItem(d, off)
    [] list = "certificates" -> CertificateItem(d, off, to)

RECURSIVE Items(_, _, _, _)
Items(list, d, off, to) ==
  IF off >= to THEN Ok(<<>>)
  ELSE LET first == Item(list, d, off, to) IN
    IF first.kind # "ok" THEN first
    ELSE LET rest == Items(list, d, first.val.next, to) IN
      IF rest.kind # "ok" THEN rest ELSE Ok(<<first.val.item>> \o rest.val)

(* f, applied to the items of a list.                                      *)
Then(items, f(_)) == IF items.kind # "ok" THEN items ELSE Ok(f(items.val))

(* Faulty variant: of a list that reaches beyond the end what is there is  *)
(* read.                                                                   *)
TrailingExtensionsCut(d, off) ==
  LET b == Block(d, off, 2, Len(d)) IN
  IF off + 2 > Len(d) THEN Ok(<<>>)
  ELSE Items("entries", d, b.from, IF b.to > Len(d) THEN Len(d) ELSE b.to)

(* The extensions of a hello: none if their length is missing or reaches   *)
(* beyond the end.                                                         *)
TrailingExtensions(d, off) ==
  LET b == Block(d, off, 2, Len(d)) IN
  IF ~b.ok THEN Ok(<<>>) ELSE Items("entries", d, b.from, b.to)

MinHello == FixedLen + 8
IsHelloOf(d, type) == Len(d) >= MinHello /\ d[1] = type
Fixed(d) == Bytes(d, 4, 4 + FixedLen)

(* An odd number of bytes of suites moves the rest up by one.              *)
ReadClientHello(d) ==
  LET sid == Block(d, 4 + FixedLen, 1, Len(d))
      suites == Block(d, sid.to, 2, Len(d))
      comp == Block(d, suites.from + 2 * (suites.n \div 2), 1, Len(d))
      hello(exts) == [kind |-> "ClientHello", fixed |-> Fixed(d),
                      sessionID |-> Content(d, sid), suites |-> Pairs(d, suites),
                      compression |-> Content(d, comp), extensions |-> exts]
  IN  IF ~(IsHelloOf(d, typeClientHello) /\ sid.ok /\ suites.ok /\ comp.ok) THEN Rejected
      ELSE Then(TrailingExtensions(d, comp.to), hello)

ReadServerHello(d) ==
  LET sid == Block(d, 4 + FixedLen, 1, Len(d))
      hello(exts) == [kind |-> "ServerHello", fixed |-> Fixed(d),
                      sessionID |-> Content(d, sid), suite |-> At(d, sid.to, 2),
                      compression |-> Bytes(d, sid.to + 2, sid.to + 3),
                      extensions |-> exts]
  IN  IF ~(IsHelloOf(d, typeServerHello) /\ sid.ok /\ sid.to + 3 <= Len(d)) THEN Rejected
      ELSE Then(TrailingExtensions(d, sid.to + 3), hello)

ReadEncryptedExtensions(d) ==
  LET b == Block(d, 4, 2, Len(d))
      message(exts) == [kind |-> "EncryptedExtensions", extensions |-> exts] IN
  IF ~(At(d, 1, 3) >= 2 /\ At(d, 1, 3) = 2 + b.n /\ b.ok) THEN Rejected
  ELSE Then(Items("entries", d, b.from, b.to), message)

(* The context is not kept; trailing bytes are ignored.                    *)
ReadCertificate(d) ==
  LET context == Block(d, 4, 1, Len(d))
      list == Block(d, context.to, 3, Len(d))
      message(chain) == [kind |-> "Certificate", chain |-> chain]
  IN  IF ~(context.ok /\ list.ok) THEN Rejected
      ELSE Then(Items("certificates", d, list.from, list.to), message)

ReadCertificateRequest(d) ==
  LET context == Block(d, 4, 1, Len(d)) IN
  IF ~(context.ok /\ context.to + 2 <= Len(d)) THEN Rejected
  ELSE Ok([kind |-> "CertificateRequest", context |-> Content(d, context)])

(* All lengths are numbers of two bytes here, the sum 8 + sigLen too: a    *)
(* slice that ends before it begins panics.                                *)
ReadCertificateVerify(d) ==
  LET end == (8 + At(d, 6, 2)) % Power(2) IN
  IF Len(d) < 8 \/ Len(d) % Power(2) < end THEN Rejected
  ELSE IF end < 8 THEN Panic
  ELSE Ok([kind |-> "CertificateVerify", algorithm |-> At(d, 4, 2),
           signature |-> Bytes(d, 8, end)])

ReadFinished(d) == Ok([kind |-> "Finished", verifyData |-> Bytes(d, 4, Len(d))])

ReadNewSessionTicket(d) ==
  LET nonce == Block(d, 12, 1, Len(d))
      ticket == Block(d, nonce.to, 2, Len(d))
      exts == Block(d, ticket.to, 2, Len(d))
  IN  IF ~(nonce.ok /\ ticket.ok /\ exts.ok) THEN Rejected
      ELSE Ok([kind |-> "NewSessionTicket", times |-> Bytes(d, 4, 12),
               nonce |-> Content(d, nonce), ticket |-> Content(d, ticket)])

(* The name may reach beyond the list; only the first one is read.         *)
ReadServerName(d) ==
  LET list == Block(d, 0, 2, Len(d))
      name == Block(d, 3, 2, Len(d))
  IN  IF ~(Len(d) >= 5 /\ list.ok /\ d[3] = 0 /\ name.ok) THEN Rejected
      ELSE Ok([kind |-> "ServerName", name |-> Content(d, name)])

ReadProtocols(d) ==
  LET list == Block(d, 0, 2, Len(d))
      extension(names) == [kind |-> "Protocols", protocols |-> names] IN
  IF ~list.ok THEN Rejected
  ELSE Then(Items("protocols", d, 2, list.to), extension)

ReadNumberList(d) ==
  LET list == Block(d, 0, 2, Len(d)) IN
  IF ~(list.ok /\ list.n % 2 = 0) THEN Rejected
  ELSE Ok([kind |-> "NumberList", numbers |-> Pairs(d, list)])

ReadClientShares(d) ==
  LET list == Block(d, 0, 2, Len(d))
      extension(shares) == [kind |-> "ClientShares", shares |-> shares] IN
  IF ~list.ok THEN Rejected
  ELSE Then(Items("entries", d, 2, list.to), extension)

ReadServerShare(d) ==
  LET key == Block(d, 2, 2, Len(d)) IN
  IF ~key.ok THEN Rejected
  ELSE Ok([kind |-> "ServerShare",
           share |-> [type |-> At(d, 0, 2), data |-> Content(d, key)]])

ReadPSKModes(d) ==
  LET modes == Block(d, 0, 1, Len(d)) IN
  IF ~modes.ok THEN Rejected
  ELSE Ok([kind |-> "PSKModes", modes |-> Content(d, modes)])

ReadVersions(d) ==
  LET list == Block(d, 0, 1, Len(d)) IN
  IF ~(list.ok /\ list.n % 2 = 0) THEN Rejected
  ELSE Ok([kind |-> "Versions", versions |-> Pairs(d, list)])

(* The reader of a pre_shared_key is a peer's: the lists fill the          *)
(* extension, one identity and one binder.                                 *)
ReadPreSharedKey(d) ==
  LET identities == Block(d, 0, 2, Len(d))
      ticket == Block(d, 2, 2, identities.to)
      binders == Block(d, identities.to, 2, Len(d))
      binder == Block(d, binders.from, 1, binders.to)
  IN  IF ~(/\ identities.ok /\ ticket.ok /\ ticket.to + 4 = identities.to
           /\ binders.ok /\ binders.to = Len(d) /\ binder.ok /\ binder.to = binders.to)
        THEN Rejected
      ELSE Ok([kind |-> "PreSharedKey", ticket |-> Content(d, ticket),
               age |-> Bytes(d, ticket.to, identities.to), binder |-> Content(d, binder)])

(* readTLS13HandshakeMsg waits for a whole message and leaves the rest for *)
(* the next; a hello is whatever its record holds.                         *)
TypeOf(kind) ==
  CASE kind = "EncryptedExtensions" -> typeEncryptedExtensions
    [] kind = "Certificate"         -> typeCertificate
    [] kind = "CertificateRequest"  -> typeCertificateRequest
    [] kind = "CertificateVerify"   -> typeCertificateVerify
    [] kind = "Finished"            -> typeFinished
    [] kind = "NewSessionTicket"    -> typeNewSessionTicket

ReadMessage(kind, d) ==
  CASE d[1] # TypeOf(kind)            -> Rejected
    [] kind = "EncryptedExtensions" -> ReadEncryptedExtensions(d)
    [] kind = "Certificate"         -> ReadCertificate(d)
    [] kind = "CertificateRequest"  -> ReadCertificateRequest(d)
    [] kind = "CertificateVerify"   -> ReadCertificateVerify(d)
    [] kind = "Finished"            -> ReadFinished(d)
    [] kind = "NewSessionTicket"    -> ReadNewSessionTicket(d)

Collected(kind, d) ==
  IF Len(d) < 4 \/ Len(d) < 4 + At(d, 1, 3) THEN Waiting
  ELSE ReadMessage(kind, Bytes(d, 0, 4 + At(d, 1, 3)))

Unmarshal(kind, d) ==
  CASE kind = "ClientHello"  -> ReadClientHello(d)
    [] kind = "ServerHello"  -> ReadServerHello(d)
    [] kind = "ServerName"   -> ReadServerName(d)
    [] kind = "Protocols"    -> ReadProtocols(d)
    [] kind = "NumberList"   -> ReadNumberList(d)
    [] kind = "ClientShares" -> ReadClientShares(d)
    [] kind = "ServerShare"  -> ReadServerShare(d)
    [] kind = "PSKModes"     -> ReadPSKModes(d)
    [] kind = "Versions"     -> ReadVersions(d)
    [] kind = "PreSharedKey" -> ReadPreSharedKey(d)
    [] OTHER                 -> Collected(kind, d)

---------------------------------------------------------------------------
(* A message, what happens to it, and its reader *)

Unread == [kind |-> "unread", val |-> <<>>]

Init ==
  /\ value \in Values
  /\ data = Marshal(value)
  /\ change = "none" /\ result = Unread

Arriving == change = "none" /\ result = Unread

(* The record, or the extension, ends early.                               *)
Cut(n) ==
  /\ Arriving /\ n \in 0 .. Len(data) - 1
  /\ data' = SubSeq(data, 1, n)
  /\ change' = "cut"
  /\ UNCHANGED <<value, result>>

(* Something follows.                                                      *)
Follow ==
  /\ Arriving
  /\ data' = data \o Following
  /\ change' = "more"
  /\ UNCHANGED <<value, result>>

(* One byte is another.                                                    *)
Alter(i, b) ==
  /\ Arriving /\ i \in DOMAIN data /\ b # data[i]
  /\ data' = [data EXCEPT ![i] = b]
  /\ change' = "byte"
  /\ UNCHANGED <<value, result>>

Read ==
  /\ result = Unread
  /\ result' = Unmarshal(value.kind, data)
  /\ UNCHANGED <<value, data, change>>

Next ==
  \/ \E n \in 0 .. Len(data) - 1 : Cut(n)
  \/ Follow
  \/ \E i \in DOMAIN data, b \in 0 .. Base - 1 : Alter(i, b)
  \/ Read

Spec == Init /\ [][Next]_vars

---------------------------------------------------------------------------
(* Properties *)

Short(s, w) == Len(s) < Power(w)
ShortEntries(s) == Short(Entries(s), 2) /\ \A i \in DOMAIN s : Short(s[i].data, 2)

(* No vector is longer than its length field can say.  The code does not   *)
(* check it: a longer one is written with a wrong length.                  *)
Fits(m) ==
  CASE m.kind \in {"ClientHello", "ServerHello"} ->
         Short(m.sessionID, 1) /\ ShortEntries(m.extensions)
    [] m.kind = "Certificate"       -> Len(Marshal(m)) - 4 < Power(3)
    [] m.kind \in {"EncryptedExtensions", "CertificateRequest"} -> ShortEntries(m.extensions)
    [] m.kind = "CertificateVerify" -> 8 + Len(m.signature) < Power(2)
    [] m.kind = "NewSessionTicket"  -> Short(m.nonce, 1) /\ Short(m.ticket, 2)
    [] m.kind = "ServerName"        -> Len(m.name) + 3 < Power(2)
    [] m.kind = "Protocols"         ->
         /\ \A i \in DOMAIN m.protocols : Short(m.protocols[i], 1)
         /\ Short(Vectors(m.protocols, 1), 2)
    [] m.kind = "NumberList"        -> Short(Numbers(m.numbers), 2)
    [] m.kind = "ClientShares"      -> ShortEntries(m.shares)
    [] m.kind = "ServerShare"       -> Short(m.share.data, 2)
    [] m.kind = "PSKModes"          -> Short(m.modes, 1)
    [] m.kind = "Versions"          -> Short(Numbers(m.versions), 1)
    [] m.kind = "PreSharedKey"      -> Len(m.ticket) + 6 < Power(2)
    [] OTHER -> TRUE

(* What a reader keeps of a message.                                       *)
Kept(m) ==
  CASE m.kind = "Certificate"        -> [kind |-> m.kind, chain |-> m.chain]
    [] m.kind = "CertificateRequest" -> [kind |-> m.kind, context |-> m.context]
    [] OTHER -> m

(* What marshal writes, unmarshal reads back, with whatever follows it, as *)
(* long as no vector is longer than its length field can say; nothing may  *)
(* follow in a pre_shared_key.                                             *)
RoundTrip ==
  result # Unread /\ Fits(value) =>
    /\ change = "none" => result = Ok(Kept(value))
    /\ change = "more" /\ value.kind # "PreSharedKey" => result = Ok(Kept(value))

(* No reader leaves its input, whatever one byte has become, but that of a *)
(* CertificateVerify, when eight bytes and the signature are more than two *)
(* bytes can count.                                                        *)
NoPanic ==
  result.kind = "panic" =>
    value.kind = "CertificateVerify" /\ 8 + At(data, 6, 2) >= Power(2)

(* A part of a message is not taken for another message: it is refused or  *)
(* waited for, or is a hello without any of its extensions.                *)
PartNotMisread ==
  result.kind = "ok" /\ change = "cut" /\ Fits(value) =>
    \/ result = Ok(Kept(value))
    \/ /\ value.kind \in {"ClientHello", "ServerHello"}
       /\ result = Ok([value EXCEPT !.extensions = <<>>])
=============================================================================
