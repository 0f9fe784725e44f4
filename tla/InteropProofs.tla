--------------------------- MODULE InteropProofs ---------------------------
(***************************************************************************)
(* Theorems about Interop, for any servers, connections, tickets and       *)
(* updates: the two sides agree on the handshake however the messages are  *)
(* cut, a handshake fails for the named reasons alone, and Read loses      *)
(* nothing a server that updates no key and tears no ticket sends.         *)
(***************************************************************************)
EXTENDS Interop, SequenceTheorems, FiniteSetTheorems, WellFoundedInduction,
        NaturalsInduction, TLAPS

(* What the two sides hash, and the keys they agree on: of what a server   *)
(* chooses they depend on its HelloRetryRequest alone.                     *)
Hashing(type, val, n) == [type |-> type, val |-> val, n |-> n]
FirstHello == Hashing("ClientHello", "SM2", 1)
SecondHello == Hashing("ClientHello", "X25519", 2)

RetryGroup(retry) == IF retry = "unknown" THEN "P256" ELSE "X25519"
RetryMessage(retry) == Message("HelloRetryRequest", RetryGroup(retry), 0, <<>>)
Restart(retry) ==
  <<Hashing("message_hash", "SM2", 1), Hashing("HelloRetryRequest", RetryGroup(retry), 0)>>

Hellos(retry) ==
  IF retry = "no" THEN <<FirstHello>> ELSE Append(Restart(retry), SecondHello)
Share(retry) == IF retry = "no" THEN "SM2" ELSE "X25519"
Private(retry) == IF retry = "no" THEN 1 ELSE 2
Secret(retry) == [group |-> Share(retry), key |-> Private(retry)]
Reply(retry) == Message("ServerHello", Share(retry), 0, <<>>)
Greeting(retry) == Append(Hellos(retry), Token(Reply(retry)))

Flight(retry) == ServerFlight(Greeting(retry))
FlightUnits(retry) ==
  LET m == Flight(retry) IN
  <<Unit(m[1], 1), Unit(m[1], 2), Unit(m[2], 1), Unit(m[2], 2),
    Unit(m[3], 1), Unit(m[3], 2), Unit(m[4], 1), Unit(m[4], 2)>>

(* The transcript with the first c messages of the flight.                 *)
FlightHash ==
  <<Hashing("EncryptedExtensions", "server", 0), Hashing("Certificate", "server", 0),
    Hashing("CertificateVerify", "server", 0), Hashing("Finished", "server", 0)>>
Hashed(retry, c) == Greeting(retry) \o SubSeq(FlightHash, 1, c)

FlightKey(retry) == HandshakeKey(Secret(retry), Greeting(retry))
DataKey(retry) == AppKey(Secret(retry), Hashed(retry, 4))
ClientFinished(retry) == Message("Finished", "client", 0, Hashed(retry, 4))
WithFinished(retry) == Append(Hashed(retry, 4), Token(ClientFinished(retry)))

(* The conversation has places 0 to 9: before the ServerHello, before each *)
(* unit of the flight, after it.  The record r leads from place a to b.    *)
Protected(r) == r.key.phase = "application"
Moves(retry, r, a, b) ==
  \/ a = b /\ a <= 1 /\ r.type = "ccs"
  \/ a = 0 /\ b = 1 /\ r = Record(NoKey, "handshake", Units(Reply(retry)))
  \/ /\ 1 <= a /\ a < b /\ b <= 9
     /\ r = Record(FlightKey(retry), "handshake", SubSeq(FlightUnits(retry), a, b - 1))
  \/ a = 9 /\ b = 9 /\ r.type \in {"data", "handshake", "alert"} /\ Protected(r)

(* The records s lead from place p to place e: at says from where each does*)
Leads(retry, s, p, e) ==
  \E at \in [1..Len(s) + 1 -> 0..e] :
    /\ at[1] = p /\ at[Len(s) + 1] = e
    /\ \A i \in 1..Len(s) : Moves(retry, s[i], at[i], at[i + 1])

(* Where the server is, and where the client is that has read c messages.  *)
ServerPlace == IF spc = "flight" THEN 9 - Len(queue) ELSE 9
ClientPlace(c) == 2 * c + 1 + Len(hsBuf)

(* The server has sent its ServerHello, to the hello it gets the keys from *)
Answered ==
  LET retry == server.retry IN
  /\ retry \in {"no", "X25519"} /\ shared["server"] = Secret(retry)
  /\ spc \in {"flight", "waitFinished", "open", "ended"}
  /\ spc = "flight" => /\ outKey = FlightKey(retry) /\ Len(queue) \in 1..8
                       /\ queue = SubSeq(FlightUnits(retry), 9 - Len(queue), 8)
  /\ spc # "flight" => outKey.phase = "application"
  /\ transcript["server"] = IF spc \in {"flight", "waitFinished"} THEN Hashed(retry, 4)
                            ELSE WithFinished(retry)
Serves == Answered /\ up = <<>> /\ spc \in {"flight", "waitFinished"}

Explained == Unsupported \/ (server.recognises /\ offer # NoTicket)

Skipped == Record(NoKey, "ccs", <<>>)
Asks(retry) == Record(NoKey, "handshake", Units(RetryMessage(retry)))
Refused(dropped) ==
  /\ up = <<>> /\ spc = "ended" /\ Explained
  /\ down \in {Append(s, AlertRecord(NoKey)) : s \in dropped}

Starting ==
  /\ cpc = "sendHello" /\ hellos = 0 /\ hsBuf = <<>> /\ transcript = Fresh
  /\ up = <<>> /\ down = <<>> /\ spc = "waitHello"

(* The first hello is under way, or the answer to it: a HelloRetryRequest, *)
(* an alert, a ServerHello.                                                *)
Asked ==
  LET retry == server.retry IN
  /\ up = <<>> /\ retry # "no" /\ spc = "waitSecondHello"
  /\ transcript["server"] = Restart(retry)
  /\ down \in {<<Asks(retry)>>, <<Asks(retry), Skipped>>}
AwaitFirst ==
  /\ cpc = "readServerHello" /\ hellos = 1 /\ hsBuf = <<>> /\ km["SM2"] = 1
  /\ transcript["client"] = <<FirstHello>>
  /\ \/ /\ up = <<Hello(1, "SM2", offer)>> /\ down = <<>> /\ spc = "waitHello"
        /\ transcript["server"] = <<>>
     \/ Asked
     \/ server.retry = "no" /\ Refused({<<>>})
     \/ server.retry = "no" /\ Serves /\ Leads(server.retry, down, 0, ServerPlace)

Retried ==
  LET retry == server.retry IN
  /\ cpc = "sendSecondHello" /\ hellos = 1 /\ hsBuf = <<>>
  /\ retry # "no" /\ requested = RetryGroup(retry)
  /\ transcript = [p \in {"client", "server"} |-> Restart(retry)]
  /\ up = <<>> /\ down \in {<<>>, <<Skipped>>} /\ spc = "waitSecondHello"

AwaitSecond ==
  LET retry == server.retry IN
  /\ cpc = "readServerHello" /\ hellos = 2 /\ hsBuf = <<>> /\ km["X25519"] = 2
  /\ retry \notin {"no", "unknown"}
  /\ transcript["client"] = Hellos(retry)
  /\ \/ /\ up \in {<<ChangeCipherSpec, Hello(2, "X25519", offer)>>,
                   <<Hello(2, "X25519", offer)>>}
        /\ down \in {<<>>, <<Skipped>>} /\ spc = "waitSecondHello"
        /\ transcript["server"] = Restart(retry)
     \/ /\ retry = "twice" /\ up = <<>> /\ spc = "waitSecondHello"
        /\ down \in {<<Asks(retry)>>, <<Skipped, Asks(retry)>>}
     \/ Refused({<<>>, <<Skipped>>})
     \/ retry = "X25519" /\ Serves /\ Leads(retry, down, 0, ServerPlace)

(* The flight comes in, and c messages of it were read.                    *)
MessagesRead ==
  [label \in FlightLabels |->
     CASE label = "readEncryptedExtensions" -> 0
       [] label = "readCertificate"         -> 1
       [] label = "readCertificateVerify"   -> 2
       [] label = "readFinished"            -> 3]
InFlight ==
  LET retry == server.retry
      c == MessagesRead[cpc]
  IN  /\ cpc \in FlightLabels /\ hellos <= 2 /\ Serves
      /\ transcript["client"] = Hashed(retry, c) /\ shared["client"] = Secret(retry)
      /\ inKey = FlightKey(retry)
      /\ 2 * c + Len(hsBuf) <= 8
      /\ hsBuf = SubSeq(FlightUnits(retry), 2 * c + 1, 2 * c + Len(hsBuf))
      /\ Leads(retry, down, ClientPlace(c), ServerPlace)

(* The server's Finished was read, the client's one is not sent.           *)
Finishing ==
  LET retry == server.retry IN
  /\ cpc = "sendFinished" /\ hellos <= 2 /\ hsBuf = <<>> /\ Serves
  /\ transcript["client"] = Hashed(retry, 4) /\ shared["client"] = Secret(retry)
  /\ inKey = DataKey(retry)
  /\ Leads(retry, down, 9, ServerPlace)

Done ==
  LET retry == server.retry IN
  /\ cpc = "done" /\ hellos <= 2 /\ hsBuf = <<>> /\ Answered
  /\ transcript["client"] = WithFinished(retry) /\ shared["client"] = Secret(retry)
  /\ inKey = DataKey(retry)
  /\ Leads(retry, down, 9, 9)
  /\ \/ up = <<ClientFinished(retry)>> /\ spc = "waitFinished"
     \/ up = <<>> /\ spc \in {"open", "ended"}

(* The server writes nothing but its flight and what the application sends *)
Idle == spc \notin {"flight", "open"} => queue = <<>>
Over ==
  /\ cpc \in Ended /\ hellos <= 2
  /\ cpc = "failed" => Explained
Course ==
  /\ Idle
  /\ \/ Starting \/ AwaitFirst \/ Retried \/ AwaitSecond
     \/ InFlight \/ Finishing \/ Done \/ Over

(* The course ends when the server cuts its ServerHello or its             *)
(* HelloRetryRequest over two records: the client will meet the first of   *)
(* them, maybe after a ChangeCipherSpec record, and fail.                  *)
HelloPart(r) == r.type = "handshake" /\ Len(r.units) < 2
CutShort ==
  /\ Idle /\ torn /\ cpc = "readServerHello" /\ hellos <= 2
  /\ \E i \in 1..Len(down) :
       HelloPart(down[i]) /\ \A j \in 1 .. i - 1 : down[j].type = "ccs"

---------------------------------------------------------------------------
(* After the handshake *)

(* The server has updated no key and torn no ticket.                       *)
Clean == updates = 0 /\ ~torn

(* The tickets under way are in the records of the stream s an application *)
(* key protects, and in the units w the server has still to write.         *)
Carries(r) == Protected(r) /\ r.type = "handshake"
Content(r) == IF Carries(r) THEN r.units ELSE <<>>
Slots(s) == 1 .. Len(s) + 1
Slot(s, w, i) == IF i = Len(s) + 1 THEN w ELSE Content(s[i])
Waiting == IF spc = "open" THEN queue ELSE <<>>

(* The units u are whole tickets.                                          *)
Pair(x, y) ==
  /\ IsTicket(x.msg) /\ IsTicket(y.msg) /\ x.msg.n = y.msg.n
  /\ x.part = 1 /\ y.part = 2
Whole(u) ==
  \E n \in Nat : Len(u) = 2 * n /\ \A i \in 1..n : Pair(u[2 * i - 1], u[2 * i])

(* A ticket is in u, or in the cache c.                                    *)
Holds(u, id) == \E j \in 1..Len(u) : IsTicket(u[j].msg) /\ u[j].msg.n = id
Kept(c, id) == \E i \in 1..Len(c) : c[i].id = id

(* Tickets, their first part before their second one, are under way in     *)
(* the order of their numbers, after those in the cache.                   *)
Rank(x) == 2 * x.msg.n + x.part
Rising(u) ==
  \A i, j \in 1..Len(u) :
    i < j /\ IsTicket(u[i].msg) /\ IsTicket(u[j].msg) => Rank(u[i]) < Rank(u[j])
Precedes(u, v) ==
  \A i \in 1..Len(u), j \in 1..Len(v) :
    IsTicket(u[i].msg) /\ IsTicket(v[j].msg) => Rank(u[i]) < Rank(v[j])
Follows(u, c) ==
  \A i \in 1..Len(c), j \in 1..Len(u) :
    IsTicket(u[j].msg) => 2 * c[i].id + 1 < Rank(u[j])
Issues(u, ids) == \A j \in 1..Len(u) : IsTicket(u[j].msg) => u[j].msg.n \in ids

InOrder(s, w, c, ids) ==
  /\ \A i \in Slots(s) : LET u == Slot(s, w, i) IN
       Rising(u) /\ Follows(u, c) /\ Issues(u, ids)
  /\ \A i, j \in Slots(s) : i < j => Precedes(Slot(s, w, i), Slot(s, w, j))

(* Every record is made of whole tickets, and no ticket is lost.           *)
Undamaged(s, w, c, ids) ==
  /\ \A i \in Slots(s) : Whole(Slot(s, w, i))
  /\ \A id \in ids : Kept(c, id) \/ \E i \in Slots(s) : Holds(Slot(s, w, i), id)

(* The data records in s are those from p to q: n counts them.             *)
Counted(s, p, q) ==
  \E n \in [1..Len(s) + 1 -> 0..q] :
    /\ n[1] = p /\ n[Len(s) + 1] = q
    /\ \A i \in 1..Len(s) : n[i + 1] = n[i] + (IF s[i].type = "data" THEN 1 ELSE 0)

(* A server that has updated no key writes under one and writes tickets;   *)
(* one that has updated it has a new key, or the update to write yet.  An  *)
(* alert is the last record.                                               *)
OneKey ==
  /\ outKey.phase = "application" => outKey = DataKey(server.retry)
  /\ \A i \in 1..Len(down) : Protected(down[i]) => down[i].key = DataKey(server.retry)
  /\ \A i \in 1..Len(Waiting) : IsTicket(Waiting[i].msg)
Sealed ==
  /\ updates = 0 => OneKey
  /\ updates > 0 =>
       /\ spc \in {"open", "ended"}
       /\ outKey.generation > 0 \/ \E i \in 1..Len(queue) : Ends(queue[i])
  /\ \A i \in 1..Len(down) :
       /\ Carries(down[i]) => down[i].units # <<>>
       /\ Protected(down[i]) /\ down[i].type = "alert" =>
            i = Len(down) /\ spc = "ended" /\ down[i].key = outKey

(* Tickets are numbered in the order they are issued in, and cached so.    *)
IdsHere == {t.id : t \in IssuedHere}
Numbered ==
  /\ \A t \in issued : t.id \in 11 .. 10 * conn + Cardinality(IssuedHere)
  /\ Cardinality(IssuedHere) <= MaxTickets
Cached ==
  /\ \A i \in 1..Len(cache) : \E t \in issued : t.id = cache[i].id
  /\ \A i, j \in 1..Len(cache) : i < j => cache[i].id < cache[j].id

UnderWay ==
  /\ Sealed /\ Counted(down, Len(got), sent)
  /\ InOrder(down, Waiting, cache, IdsHere)
  /\ Clean => Undamaged(down, Waiting, cache, IdsHere)
Closed ==
  /\ spc = "ended" /\ Len(got) = sent
  /\ ~torn => \A id \in IdsHere : Kept(cache, id)
Delivery ==
  /\ Numbered /\ Cached
  /\ cpc \notin Ended => UnderWay
  /\ cpc = "broken" => ~Clean
  /\ cpc = "closed" => Closed

---------------------------------------------------------------------------
(* The shape of the state *)

Kinds == {"ClientHello", "message_hash", "HelloRetryRequest", "ServerHello",
          "EncryptedExtensions", "Certificate", "CertificateVerify", "Finished",
          "NewSessionTicket", "KeyUpdate", "change_cipher_spec"}
Values == {None, "SM2", "X25519", "P256", "client", "server"}
Contents == {"ccs", "handshake", "alert", "data"}

Tokens == [type : Kinds, val : Values, n : Nat]
Tickets == [id : Nat, hash : Seq(Tokens)]
Binders == [id : Nat, hash : Seq(Tokens), scope : {None, "whole"}]
Messages ==
  [type : Kinds, val : Values, n : Nat, over : Seq(Tokens), binder : Binders]
AllUnits == [msg : Messages, part : {1, 2}]
Secrets == [group : Values, key : Nat]
Keys == [phase : {None, "handshake", "application"}, shared : Secrets,
         hash : Seq(Tokens), generation : Nat]
AllRecords == [key : Keys, type : Contents, units : Seq(AllUnits)]

Shape ==
  /\ conn \in Nat /\ hellos \in Nat
  /\ transcript \in [{"client", "server"} -> Seq(Tokens)]
  /\ shared \in [{"client", "server"} -> Secrets]
  /\ inKey \in Keys /\ outKey \in Keys
  /\ hsBuf \in Seq(AllUnits) /\ queue \in Seq(AllUnits)
  /\ offer \in Tickets /\ cache \in Seq([id : Nat, hash : {<<>>}])
  /\ issued \in SUBSET Tickets /\ IsFiniteSet(issued) /\ \A t \in issued : t.id # 0
  /\ got \in Seq(Nat)
  /\ up \in Seq(Messages) /\ down \in Seq(AllRecords)

(* What the constructors build has its shape.                              *)
LEMMA NoBinderShape == NoBinder \in Binders
  BY EmptySeq, Zenon DEF NoBinder, Binders, None

(* A message the constructor builds is one, and hashes to its type, value  *)
(* and number.                                                             *)
LEMMA MessageShape ==
  ASSUME NEW type \in Kinds, NEW val \in Values, NEW n \in Nat, NEW over \in Seq(Tokens)
  PROVE  /\ Message(type, val, n, over) \in Messages
         /\ Token(Message(type, val, n, over)) = Hashing(type, val, n)
<1>1. Message(type, val, n, over) \in Messages
  BY NoBinderShape DEF Message, Messages
<1>2. Token(Message(type, val, n, over)) = Hashing(type, val, n)
  BY DEF Message, Token, Hashing
<1> QED
  BY <1>1, <1>2

(* What a transcript holds of a message.                                   *)
LEMMA TokenShape ==
  /\ \A m \in Messages : Token(m) \in Tokens
  /\ \A type \in Kinds, val \in Values, n \in Nat : Hashing(type, val, n) \in Tokens
  BY DEF Messages, Token, Tokens, Hashing

(* The two units of a message.                                             *)
LEMMA UnitShape ==
  ASSUME NEW m \in Messages
  PROVE  /\ Units(m) \in Seq(AllUnits) /\ Len(Units(m)) = 2
         /\ Units(m)[1] = Unit(m, 1) /\ Units(m)[2] = Unit(m, 2)
         /\ Unit(m, 1) \in AllUnits /\ Unit(m, 2) \in AllUnits
<1>1. Unit(m, 1) \in AllUnits /\ Unit(m, 2) \in AllUnits
  BY DEF Unit, AllUnits
<1> HIDE DEF Unit, AllUnits
<1> QED
  BY <1>1 DEF Units

(* The key after an update.                                                *)
LEMMA KeyUpdated ==
  ASSUME NEW k \in Keys
  PROVE  [k EXCEPT !.generation = k.generation + 1] \in Keys
<1>1. k.generation + 1 \in Nat
  BY DEF Keys
<1> DEFINE n == k.generation + 1
<1> HIDE DEF n
<1>2. n \in Nat
  BY <1>1 DEF n
<1>3. [k EXCEPT !.generation = n] \in Keys
  BY <1>2 DEF Keys
<1> QED
  BY <1>3 DEF n

(* A handshake key and a first application key.                            *)
LEMMA KeyShape ==
  ASSUME NEW s \in Secrets, NEW hash \in Seq(Tokens)
  PROVE  /\ HandshakeKey(s, hash) \in Keys /\ AppKey(s, hash) \in Keys
         /\ HandshakeKey(s, hash).phase = "handshake" /\ AppKey(s, hash).phase = "application"
         /\ AppKey(s, hash).generation = 0
<1>1. HandshakeKey(s, hash) \in Keys
  BY DEF HandshakeKey, Keys, None
<1>2. AppKey(s, hash) \in Keys
  BY DEF AppKey, Keys, None
<1>3. /\ HandshakeKey(s, hash).phase = "handshake" /\ AppKey(s, hash).phase = "application"
      /\ AppKey(s, hash).generation = 0
  BY DEF HandshakeKey, AppKey
<1> QED
  BY <1>1, <1>2, <1>3

(* What is sent without a key is not protected by an application key.      *)
LEMMA NoKeyShape == /\ NoShared \in Secrets /\ NoKey \in Keys
                    /\ NoKey.phase = None /\ NoKey.phase # "application"
<1>1. NoShared \in Secrets
  BY DEF NoShared, Secrets, Values, None
<1>2. NoKey \in Keys
  BY <1>1, EmptySeq DEF NoKey, Keys, None
<1>3. NoKey.phase = None /\ NoKey.phase # "application"
  BY DEF NoKey, None
<1> QED
  BY <1>1, <1>2, <1>3

(* A record has the key, the type and the units it was built from.         *)
LEMMA RecordShape ==
  ASSUME NEW key \in Keys, NEW type \in Contents, NEW units \in Seq(AllUnits)
  PROVE  /\ Record(key, type, units) \in AllRecords
         /\ Record(key, type, units).key = key /\ Record(key, type, units).type = type
         /\ Record(key, type, units).units = units
  BY DEF Record, AllRecords

(* Every ticket has a binder, and what the client stores of one is a       *)
(* ticket.                                                                 *)
LEMMA TicketShape ==
  /\ NoTicket \in Tickets /\ NoTicket.id = 0
  /\ \A t \in Tickets : Binder(t) \in Binders /\ (t = NoTicket => Binder(t).id = 0)
  /\ [id : Nat, hash : {<<>>}] \subseteq Tickets
<1>1. NoTicket \in Tickets /\ NoTicket.id = 0
  BY EmptySeq DEF NoTicket, Tickets
<1>2. ASSUME NEW t \in Tickets PROVE Binder(t) \in Binders /\ (t = NoTicket => Binder(t).id = 0)
  <2>1. CASE t = NoTicket
    <3>1. Binder(t) = NoBinder
      BY <2>1 DEF Binder
    <3>2. NoBinder.id = 0
      BY DEF NoBinder
    <3> QED
      BY <3>1, <3>2, NoBinderShape
  <2>2. CASE t # NoTicket
    <3>1. Binder(t) = [id |-> t.id, hash |-> t.hash, scope |-> "whole"]
      BY <2>2 DEF Binder
    <3>2. t.id \in Nat /\ t.hash \in Seq(Tokens)
      BY DEF Tickets
    <3>3. "whole" \in {None, "whole"}
      OBVIOUS
    <3> DEFINE scope == "whole"
    <3> HIDE DEF scope
    <3>4. \A x \in {None, scope} : Binder(t) = [id |-> t.id, hash |-> t.hash, scope |-> x]
            => Binder(t) \in [id : Nat, hash : Seq(Tokens), scope : {None, scope}]
      BY <3>2
    <3>5. Binder(t) \in Binders
      BY <3>1, <3>3, <3>4, Zenon DEF Binders, scope
    <3> QED
      BY <2>2, <3>5
  <2> QED
    BY <2>1, <2>2
<1>3. [id : Nat, hash : {<<>>}] \subseteq Tickets
  BY EmptySeq DEF Tickets
<1> QED
  BY <1>1, <1>2, <1>3

(* A hello of the client carries its share, its number and the binder of   *)
(* its ticket.                                                             *)
LEMMA HelloShape ==
  ASSUME NEW n \in Nat, NEW share \in Values, NEW t \in Tickets
  PROVE  /\ Hello(n, share, t) \in Messages
         /\ Hello(n, share, t).type = "ClientHello" /\ Hello(n, share, t).val = share
         /\ Hello(n, share, t).n = n /\ Hello(n, share, t).binder = Binder(t)
         /\ Token(Hello(n, share, t)) = Hashing("ClientHello", share, n)
<1>1. Hello(n, share, t) = [type |-> "ClientHello", val |-> share, n |-> n, over |-> <<>>,
                            binder |-> Binder(t)]
  BY DEF Hello, Message
<1>2. Binder(t) \in Binders /\ <<>> \in Seq(Tokens)
  BY TicketShape, EmptySeq
<1> HIDE DEF Binder, Hello
<1>3. Hello(n, share, t) \in Messages
  BY <1>1, <1>2 DEF Messages, Kinds
<1>4. /\ Hello(n, share, t).type = "ClientHello" /\ Hello(n, share, t).val = share
      /\ Hello(n, share, t).n = n /\ Hello(n, share, t).binder = Binder(t)
  BY <1>1
<1>5. Token(Hello(n, share, t)) = Hashing("ClientHello", share, n)
  BY <1>4 DEF Token, Hashing
<1> QED
  BY <1>3, <1>4, <1>5

---------------------------------------------------------------------------
(* The handshake a HelloRetryRequest leads to *)

(* A set of natural numbers with an element has a smallest one.            *)
LEMMA Lowest ==
  ASSUME NEW S, S \subseteq Nat, S # {}
  PROVE  \E x \in S : \A y \in S : x <= y
<1> DEFINE R == {p \in Nat \X Nat : p[1] < p[2]}
<1>1. OpToRel(<, Nat) = R
  BY DEF OpToRel
<1> HIDE DEF R
<1>2. IsWellFoundedOn(R, Nat)
  BY <1>1, NatLessThanWellFounded, Zenon
<1>3. PICK x \in S : \A y \in S : <<y, x>> \notin R
  BY <1>2, WFMin
<1>4. \A y \in S : x <= y
  <2> TAKE y \in S
  <2>1. <<y, x>> \in Nat \X Nat /\ <<y, x>>[1] = y /\ <<y, x>>[2] = x
    OBVIOUS
  <2> QED
    BY <1>3, <2>1 DEF R
<1> QED
  BY <1>4

(* A set of numbers up to n with an element has a largest one.             *)
LEMMA Largest ==
  ASSUME NEW n \in Nat, NEW I, I \subseteq 0..n, I # {}
  PROVE  \E x \in I : \A y \in I : y <= x
<1> DEFINE S == {k \in Nat : n - k \in I}
<1>1. S # {} /\ \A y \in I : n - y \in S
  <2>1. \A y \in I : n - y \in Nat /\ n - (n - y) = y
    OBVIOUS
  <2> QED
    BY <2>1
<1>2. PICK x \in S : \A y \in S : x <= y
  BY <1>1, Lowest
<1>3. \A y \in I : y <= n - x
  <2> TAKE y \in I
  <2>1. x <= n - y /\ y \in 0..n /\ x \in Nat
    BY <1>1, <1>2
  <2> QED
    BY <2>1
<1> QED
  BY <1>2, <1>3

(* One by one.                                                             *)
LEMMA Tuples ==
  ASSUME NEW S, NEW x \in S, NEW y \in S, NEW z \in S
  PROVE  /\ Append(<<>>, x) = <<x>> /\ Append(<<x>>, y) = <<x, y>>
         /\ Append(<<x, y>>, z) = <<x, y, z>>
<1>1. Append(<<>>, x) = <<x>>
  <2> DEFINE u == Append(<<>>, x)
             v == <<x>>
  <2>1. u \in Seq(S) /\ v \in Seq(S) /\ Len(u) = 1 /\ Len(v) = 1 /\ u[1] = v[1]
    OBVIOUS
  <2> HIDE DEF u, v
  <2>2. u = v
    BY <2>1, SeqEqual
  <2> QED
    BY <2>2 DEF u, v
<1>2. Append(<<x>>, y) = <<x, y>>
  <2> DEFINE u == Append(<<x>>, y)
             v == <<x, y>>
  <2>1. u \in Seq(S) /\ v \in Seq(S) /\ Len(u) = 2 /\ Len(v) = 2 /\ u[1] = v[1] /\ u[2] = v[2]
    OBVIOUS
  <2>2. \A i \in 1..2 : i = 1 \/ i = 2
    OBVIOUS
  <2> HIDE DEF u, v
  <2>3. u = v
    BY <2>1, <2>2, SeqEqual
  <2> QED
    BY <2>3 DEF u, v
<1>3. Append(<<x, y>>, z) = <<x, y, z>>
  <2> DEFINE u == Append(<<x, y>>, z)
             v == <<x, y, z>>
  <2>1. /\ u \in Seq(S) /\ v \in Seq(S) /\ Len(u) = 3 /\ Len(v) = 3
        /\ u[1] = v[1] /\ u[2] = v[2] /\ u[3] = v[3]
    OBVIOUS
  <2>2. \A i \in 1..3 : i = 1 \/ i = 2 \/ i = 3
    OBVIOUS
  <2> HIDE DEF u, v
  <2>3. u = v
    BY <2>1, <2>2, SeqEqual
  <2> QED
    BY <2>3 DEF u, v
<1> QED
  BY <1>1, <1>2, <1>3

(* A part of a sequence.                                                   *)
LEMMA Slice ==
  ASSUME NEW S, NEW s \in Seq(S), NEW a \in Nat \ {0}, NEW b \in Nat, a <= b + 1, b <= Len(s)
  PROVE  /\ SubSeq(s, a, b) \in Seq(S) /\ Len(SubSeq(s, a, b)) = b - a + 1
         /\ \A i \in 1..b - a + 1 : SubSeq(s, a, b)[i] = s[a + i - 1]
<1>1. Len(s) \in Nat /\ \A i \in 1..Len(s) : s[i] \in S
  OBVIOUS
<1>2. a \in Int /\ b \in Int
  OBVIOUS
<1>3. \A i \in a..b : i \in 1..Len(s)
  BY <1>1
<1>4. \A i \in a..b : s[i] \in S
  BY <1>1, <1>3
<1>5. (IF a <= b THEN b - a + 1 ELSE 0) = b - a + 1
  OBVIOUS
<1>6. /\ SubSeq(s, a, b) \in Seq(S)
      /\ Len(SubSeq(s, a, b)) = IF a <= b THEN b - a + 1 ELSE 0
      /\ \A i \in 1..b - a + 1 : SubSeq(s, a, b)[i] = s[a + i - 1]
  BY <1>2, <1>4, SubSeqProperties, SMTT(30)
<1> QED
  BY <1>5, <1>6

(* To put a longer sequence behind another is to append its last element.  *)
LEMMA ConcatAppended ==
  ASSUME NEW S, NEW s \in Seq(S), NEW t \in Seq(S), NEW x \in S
  PROVE  s \o Append(t, x) = Append(s \o t, x)
<1>1. <<x>> \in Seq(S)
  OBVIOUS
<1>2. Append(t, x) = t \o <<x>> /\ s \o t \in Seq(S)
  BY AppendIsConcat, ConcatProperties
<1>3. Append(s \o t, x) = (s \o t) \o <<x>>
  BY <1>2, AppendIsConcat
<1> QED
  BY <1>1, <1>2, <1>3, ConcatAssociative

(* A slice that goes one further.                                          *)
LEMMA SliceLonger ==
  ASSUME NEW S, NEW s \in Seq(S), NEW a \in Nat \ {0}, NEW b \in Nat, a <= b + 1, b < Len(s)
  PROVE  s[b + 1] \in S /\ SubSeq(s, a, b + 1) = Append(SubSeq(s, a, b), s[b + 1])
<1>1. Len(s) \in Nat /\ b + 1 \in 1..Len(s)
  OBVIOUS
<1>2. s[b + 1] \in S
  BY <1>1
<1>3. /\ SubSeq(s, a, b) \in Seq(S) /\ Len(SubSeq(s, a, b)) = b - a + 1
      /\ \A i \in 1..b - a + 1 : SubSeq(s, a, b)[i] = s[a + i - 1]
  BY <1>1, Slice
<1>4. b + 1 \in Nat /\ a <= (b + 1) + 1 /\ b + 1 <= Len(s)
  BY <1>1
<1>5. /\ SubSeq(s, a, b + 1) \in Seq(S) /\ Len(SubSeq(s, a, b + 1)) = (b + 1) - a + 1
      /\ \A i \in 1..(b + 1) - a + 1 : SubSeq(s, a, b + 1)[i] = s[a + i - 1]
  BY <1>1, <1>4, Slice
<1> DEFINE u == SubSeq(s, a, b)
           v == SubSeq(s, a, b + 1)
           x == s[b + 1]
<1> HIDE DEF u, v, x
<1>6. u \in Seq(S) /\ v \in Seq(S) /\ x \in S /\ Len(u) = b - a + 1 /\ Len(v) = b - a + 2
  BY <1>2, <1>3, <1>5 DEF u, v, x
<1>7. Append(u, x) \in Seq(S) /\ Len(Append(u, x)) = b - a + 2
      /\ \A i \in 1..b - a + 1 : Append(u, x)[i] = u[i]
      /\ Append(u, x)[b - a + 2] = x
  BY <1>6
<1>8. \A i \in 1..b - a + 1 : u[i] = s[a + i - 1] /\ v[i] = s[a + i - 1]
  BY <1>3, <1>5 DEF u, v
<1>9. v[b - a + 2] = x
  <2>1. b - a + 2 \in 1..(b + 1) - a + 1 /\ a + (b - a + 2) - 1 = b + 1
    OBVIOUS
  <2> QED
    BY <1>5, <2>1 DEF v, x
<1>10. \A i \in 1..Len(v) : v[i] = Append(u, x)[i]
  <2> TAKE i \in 1..Len(v)
  <2>1. i \in 1..b - a + 1 \/ i = b - a + 2
    BY <1>6
  <2> QED
    BY <1>7, <1>8, <1>9, <2>1
<1>11. v = Append(u, x)
  BY <1>6, <1>7, <1>10, SeqEqual
<1> QED
  BY <1>2, <1>11 DEF u, v, x

(* A slice of a slice is a slice of the whole.                             *)
LEMMA SliceOfSlice ==
  ASSUME NEW S, NEW s \in Seq(S), NEW a \in Nat \ {0}, NEW b \in Nat, a <= b + 1, b <= Len(s),
         NEW c \in Nat \ {0}, NEW d \in Nat, c <= d + 1, d <= b - a + 1
  PROVE  SubSeq(SubSeq(s, a, b), c, d) = SubSeq(s, a + c - 1, a + d - 1)
<1> DEFINE t == SubSeq(s, a, b)
           u == SubSeq(t, c, d)
           v == SubSeq(s, a + c - 1, a + d - 1)
<1>1. t \in Seq(S) /\ Len(t) = b - a + 1 /\ \A i \in 1..b - a + 1 : t[i] = s[a + i - 1]
  BY Slice
<1> HIDE DEF t
<1>2. d <= Len(t)
  BY <1>1
<1>3. u \in Seq(S) /\ Len(u) = d - c + 1 /\ \A i \in 1..d - c + 1 : u[i] = t[c + i - 1]
  BY <1>1, <1>2, Slice
<1> HIDE DEF u
<1> DEFINE m == a + c - 1
           n == a + d - 1
<1>4. m \in Nat \ {0} /\ n \in Nat /\ m <= n + 1 /\ n <= Len(s) /\ n - m + 1 = d - c + 1
  <2>1. Len(s) \in Nat
    OBVIOUS
  <2> QED
    BY <2>1
<1> HIDE DEF m, n
<1>5. v \in Seq(S) /\ Len(v) = n - m + 1 /\ \A i \in 1..n - m + 1 : v[i] = s[m + i - 1]
  <2>1. v = SubSeq(s, m, n)
    BY DEF m, n
  <2> HIDE DEF v
  <2> QED
    BY <1>4, <2>1, Slice
<1> HIDE DEF v
<1>6. \A i \in 1..Len(u) : u[i] = v[i]
  <2> TAKE i \in 1..Len(u)
  <2>1. i \in 1..d - c + 1 /\ c + i - 1 \in 1..b - a + 1
        /\ a + (c + i - 1) - 1 = m + i - 1
    BY <1>3 DEF m
  <2>2. u[i] = t[c + i - 1] /\ t[c + i - 1] = s[a + (c + i - 1) - 1]
    BY <1>1, <1>3, <2>1
  <2>3. v[i] = s[m + i - 1]
    BY <1>4, <1>5, <2>1
  <2> QED
    BY <2>1, <2>2, <2>3
<1>7. Len(u) = Len(v)
  BY <1>3, <1>4, <1>5
<1>8. u = v
  BY <1>3, <1>5, <1>6, <1>7, SeqEqual
<1> QED
  BY <1>8 DEF u, v, t

(* Two neighbouring slices make one.                                       *)
LEMMA SlicesJoined ==
  ASSUME NEW S, NEW s \in Seq(S), NEW a \in Nat \ {0}, NEW b \in Nat, a <= b + 1,
         NEW c \in Nat, b <= c, c <= Len(s)
  PROVE  SubSeq(s, a, b) \o SubSeq(s, b + 1, c) = SubSeq(s, a, c)
<1>1. Len(s) \in Nat
  OBVIOUS
<1>2. a \in 1..Len(s) + 1 /\ b \in a - 1..Len(s) /\ c \in b..Len(s)
  BY <1>1
<1> QED
  BY <1>2, ConcatAdjacentSubSeq

(* What client and server hash, and the secret, up to the ServerHello.     *)
LEMMA RetryShape ==
  ASSUME NEW retry
  PROVE  /\ RetryGroup(retry) \in Values /\ Share(retry) \in Values
         /\ RetryMessage(retry) \in Messages /\ Reply(retry) \in Messages
         /\ Token(RetryMessage(retry)) = Hashing("HelloRetryRequest", RetryGroup(retry), 0)
         /\ Token(Reply(retry)) = Hashing("ServerHello", Share(retry), 0)
         /\ Secret(retry) \in Secrets
         /\ Restart(retry) \in Seq(Tokens) /\ Hellos(retry) \in Seq(Tokens)
         /\ Greeting(retry) \in Seq(Tokens)
<1>1. RetryGroup(retry) \in Values /\ Share(retry) \in Values
  BY DEF RetryGroup, Share, Values
<1>2. "HelloRetryRequest" \in Kinds /\ "ServerHello" \in Kinds /\ "ClientHello" \in Kinds
      /\ "message_hash" \in Kinds /\ "SM2" \in Values /\ "X25519" \in Values
  BY DEF Kinds, Values
<1>3. <<>> \in Seq(Tokens)
  OBVIOUS
<1> HIDE DEF Kinds, Values
<1>4. /\ RetryMessage(retry) \in Messages /\ Reply(retry) \in Messages
      /\ Token(RetryMessage(retry)) = Hashing("HelloRetryRequest", RetryGroup(retry), 0)
      /\ Token(Reply(retry)) = Hashing("ServerHello", Share(retry), 0)
  BY <1>1, <1>2, <1>3, MessageShape, Zenon DEF RetryMessage, Reply
<1>5. Secret(retry) \in Secrets
  BY <1>1 DEF Secret, Secrets, Private
<1>6. /\ FirstHello \in Tokens /\ SecondHello \in Tokens
      /\ Hashing("message_hash", "SM2", 1) \in Tokens
      /\ Hashing("HelloRetryRequest", RetryGroup(retry), 0) \in Tokens
  BY <1>1, <1>2, TokenShape DEF FirstHello, SecondHello
<1>7. Restart(retry) \in Seq(Tokens)
  BY <1>6 DEF Restart
<1>8. Hellos(retry) \in Seq(Tokens)
  BY <1>6, <1>7 DEF Hellos
<1>9. Token(Reply(retry)) \in Tokens
  BY <1>4, TokenShape
<1>10. Greeting(retry) \in Seq(Tokens)
  BY <1>8, <1>9 DEF Greeting
<1> QED
  BY <1>1, <1>4, <1>5, <1>7, <1>8, <1>10

(* What the four messages of the server's flight leave in a transcript.    *)
LEMMA FlightHashShape ==
  /\ FlightHash \in Seq(Tokens) /\ Len(FlightHash) = 4
  /\ \A i \in 1..4 : FlightHash[i] \in Tokens
<1>1. /\ "EncryptedExtensions" \in Kinds /\ "Certificate" \in Kinds
      /\ "CertificateVerify" \in Kinds /\ "Finished" \in Kinds /\ "server" \in Values
  BY DEF Kinds, Values
<1>2. /\ Hashing("EncryptedExtensions", "server", 0) \in Tokens
      /\ Hashing("Certificate", "server", 0) \in Tokens
      /\ Hashing("CertificateVerify", "server", 0) \in Tokens
      /\ Hashing("Finished", "server", 0) \in Tokens
  BY <1>1, TokenShape
<1>3. FlightHash \in Seq(Tokens) /\ Len(FlightHash) = 4
  BY <1>2 DEF FlightHash
<1> DEFINE h == FlightHash
<1> HIDE DEF h
<1>4. \A i \in 1..4 : h[i] \in Tokens
  <2> TAKE i \in 1..4
  <2>1. h \in Seq(Tokens) /\ i \in 1..Len(h)
    BY <1>3 DEF h
  <2> QED
    BY <2>1, ElementOfSeq
<1> QED
  BY <1>3, <1>4 DEF h
(* One message more of the flight in the transcript.                       *)
LEMMA HashedShape ==
  ASSUME NEW retry
  PROVE  /\ \A c \in 0..4 : Hashed(retry, c) \in Seq(Tokens)
         /\ Hashed(retry, 0) = Greeting(retry)
         /\ \A c \in 0..3 : Hashed(retry, c + 1) = Append(Hashed(retry, c), FlightHash[c + 1])
         /\ Hashed(retry, 4) = Greeting(retry) \o FlightHash
<1> DEFINE g == Greeting(retry)
           f == FlightHash
<1>1. g \in Seq(Tokens) /\ f \in Seq(Tokens) /\ Len(f) = 4
  BY RetryShape, FlightHashShape
<1> HIDE DEF g, f
<1>2. \A c \in 0..4 : SubSeq(f, 1, c) \in Seq(Tokens)
  <2> TAKE c \in 0..4
  <2>1. 1 \in Nat \ {0} /\ c \in Nat /\ 1 <= c + 1 /\ c <= Len(f)
    BY <1>1
  <2> QED
    BY <1>1, <2>1, Slice
<1>3. SubSeq(f, 1, 0) = <<>> /\ SubSeq(f, 1, 4) = f
  BY <1>1
<1>4. \A c \in 0..3 :
        f[c + 1] \in Tokens /\ SubSeq(f, 1, c + 1) = Append(SubSeq(f, 1, c), f[c + 1])
  <2> TAKE c \in 0..3
  <2>1. 1 \in Nat \ {0} /\ c \in Nat /\ 1 <= c + 1 /\ c < Len(f)
    BY <1>1
  <2>2. \A a \in Nat \ {0}, b \in Nat : a <= b + 1 /\ b < Len(f) =>
          f[b + 1] \in Tokens /\ SubSeq(f, a, b + 1) = Append(SubSeq(f, a, b), f[b + 1])
    BY <1>1, SliceLonger
  <2> QED
    BY <2>1, <2>2, Zenon
<1>5. \A s \in Seq(Tokens), x \in Tokens : g \o Append(s, x) = Append(g \o s, x)
  BY <1>1, ConcatAppended
<1>6. g \o <<>> = g
  BY <1>1
<1>7. \A c \in 0..3 : c \in 0..4 /\ c + 1 \in 0..4
  OBVIOUS
<1>8. \A c \in 0..4 : g \o SubSeq(f, 1, c) \in Seq(Tokens)
  BY <1>1, <1>2
<1> QED
  BY <1>2, <1>3, <1>4, <1>5, <1>6, <1>7, <1>8, Zenon DEF Hashed, g, f

(* The messages of the flight: their Finished and CertificateVerify cover  *)
(* what is hashed before them.                                             *)
LEMMA FlightMessages ==
  ASSUME NEW retry
  PROVE  LET m == Flight(retry) IN
         /\ \A i \in 1..4 : m[i] \in Messages /\ Token(m[i]) = FlightHash[i]
         /\ m[1].type = "EncryptedExtensions" /\ m[2].type = "Certificate"
         /\ m[3].type = "CertificateVerify" /\ m[4].type = "Finished"
         /\ m[3].over = Hashed(retry, 2) /\ m[4].over = Hashed(retry, 3)
<1> DEFINE g == Greeting(retry)
           a == Message("EncryptedExtensions", "server", 0, <<>>)
           b == Message("Certificate", "server", 0, <<>>)
           c == Message("CertificateVerify", "server", 0, Hashed(retry, 2))
           d == Message("Finished", "server", 0, Hashed(retry, 3))
           n(i) == Append(Hashed(retry, i), FlightHash[i + 1])
<1>1. g \in Seq(Tokens) /\ Hashed(retry, 0) = g /\ n(0) = Hashed(retry, 1)
      /\ n(1) = Hashed(retry, 2) /\ n(2) = Hashed(retry, 3)
      /\ Hashed(retry, 2) \in Seq(Tokens) /\ Hashed(retry, 3) \in Seq(Tokens)
      /\ <<>> \in Seq(Tokens)
  <2>1. 0 \in 0..3 /\ 1 \in 0..3 /\ 2 \in 0..3 /\ 2 \in 0..4 /\ 3 \in 0..4
        /\ 0 + 1 = 1 /\ 1 + 1 = 2 /\ 2 + 1 = 3
    OBVIOUS
  <2>2. <<>> \in Seq(Tokens)
    OBVIOUS
  <2> QED
    BY <2>1, <2>2, RetryShape, HashedShape
<1>2. /\ "EncryptedExtensions" \in Kinds /\ "Certificate" \in Kinds
      /\ "CertificateVerify" \in Kinds /\ "Finished" \in Kinds /\ "server" \in Values
  BY DEF Kinds, Values
<1> HIDE DEF Kinds, Values
<1>3. /\ FlightHash[1] = Hashing("EncryptedExtensions", "server", 0)
      /\ FlightHash[2] = Hashing("Certificate", "server", 0)
      /\ FlightHash[3] = Hashing("CertificateVerify", "server", 0)
      /\ FlightHash[4] = Hashing("Finished", "server", 0)
  BY DEF FlightHash
<1>4. FlightHash[1] \in Tokens /\ FlightHash[2] \in Tokens /\ FlightHash[3] \in Tokens
  BY <1>2, <1>3, TokenShape
<1>5. a \in Messages /\ Token(a) = FlightHash[1] /\ b \in Messages /\ Token(b) = FlightHash[2]
  BY <1>1, <1>2, <1>3, MessageShape, Zenon
<1>6. c \in Messages /\ Token(c) = FlightHash[3] /\ d \in Messages /\ Token(d) = FlightHash[4]
  BY <1>1, <1>2, <1>3, MessageShape, Zenon
<1>7. \A x \in Tokens, y \in Tokens, z \in Tokens :
        /\ g \o <<x, y>> = Append(Append(g, x), y)
        /\ g \o <<x, y, z>> = Append(Append(Append(g, x), y), z)
  <2> TAKE x \in Tokens, y \in Tokens, z \in Tokens
  <2>1. <<>> \in Seq(Tokens) /\ <<x>> \in Seq(Tokens) /\ <<x, y>> \in Seq(Tokens)
    OBVIOUS
  <2>2. Append(<<>>, x) = <<x>> /\ Append(<<x>>, y) = <<x, y>>
        /\ Append(<<x, y>>, z) = <<x, y, z>>
    BY Tuples
  <2>3. g \o <<x>> = Append(g, x)
    BY <1>1, AppendIsConcat
  <2>4. g \o Append(<<x>>, y) = Append(g \o <<x>>, y)
    BY <1>1, <2>1, ConcatAppended
  <2>5. g \o Append(<<x, y>>, z) = Append(g \o <<x, y>>, z)
    BY <1>1, <2>1, ConcatAppended
  <2> QED
    BY <2>2, <2>3, <2>4, <2>5, Zenon
<1>8. /\ g \o <<Token(a), Token(b)>> = Hashed(retry, 2)
      /\ g \o <<Token(a), Token(b), Token(c)>> = Hashed(retry, 3)
  <2>1. /\ g \o <<FlightHash[1], FlightHash[2]>> = Append(Append(g, FlightHash[1]), FlightHash[2])
        /\ g \o <<FlightHash[1], FlightHash[2], FlightHash[3]>>
             = Append(Append(Append(g, FlightHash[1]), FlightHash[2]), FlightHash[3])
    BY <1>4, <1>7
  <2>2. /\ Hashed(retry, 1) = Append(g, FlightHash[1])
        /\ Hashed(retry, 2) = Append(Hashed(retry, 1), FlightHash[2])
        /\ Hashed(retry, 3) = Append(Hashed(retry, 2), FlightHash[3])
    BY <1>1
  <2> QED
    BY <1>5, <1>6, <2>1, <2>2
<1>9. Flight(retry) = <<a, b, c, d>>
  BY <1>8 DEF Flight, ServerFlight
<1>10. /\ a.type = "EncryptedExtensions" /\ b.type = "Certificate"
       /\ c.type = "CertificateVerify" /\ d.type = "Finished"
       /\ c.over = Hashed(retry, 2) /\ d.over = Hashed(retry, 3)
  BY DEF Message
<1> HIDE DEF a, b, c, d
<1>11. /\ Flight(retry)[1] = a /\ Flight(retry)[2] = b /\ Flight(retry)[3] = c
       /\ Flight(retry)[4] = d
  BY <1>9
<1>12. \A i \in 1..4 : i = 1 \/ i = 2 \/ i = 3 \/ i = 4
  OBVIOUS
<1> QED
  BY <1>5, <1>6, <1>10, <1>11, <1>12

(* The units of the flight: none is of a ticket, the last one ends it.     *)
LEMMA FlightShape ==
  ASSUME NEW retry
  PROVE  LET f == FlightUnits(retry)
             m == Flight(retry)
         IN  /\ f \in Seq(AllUnits) /\ Len(f) = 8
             /\ \A c \in 0..3 : f[2 * c + 1] = Unit(m[c + 1], 1) /\ f[2 * c + 2] = Unit(m[c + 1], 2)
             /\ \A i \in 1..8 : ~IsTicket(f[i].msg) /\ (Ends(f[i]) <=> i = 8)
<1> DEFINE f == FlightUnits(retry)
           m == Flight(retry)
<1>1. \A i \in 1..4 : m[i] \in Messages
  BY FlightMessages
<1>2. /\ m[1].type = "EncryptedExtensions" /\ m[2].type = "Certificate"
      /\ m[3].type = "CertificateVerify" /\ m[4].type = "Finished"
  BY FlightMessages
<1> HIDE DEF m
<1> DEFINE A(i) == Unit(m[i], 1)
           B(i) == Unit(m[i], 2)
<1>3. \A i \in 1..4 : A(i) \in AllUnits /\ B(i) \in AllUnits
  BY <1>1 DEF Unit, AllUnits
<1>4. \A i \in 1..4 : A(i).msg = m[i] /\ A(i).part = 1 /\ B(i).msg = m[i] /\ B(i).part = 2
  BY DEF Unit
<1> HIDE DEF A, B
<1>5. f = <<A(1), B(1), A(2), B(2), A(3), B(3), A(4), B(4)>>
  BY DEF FlightUnits, A, B, m
<1>6. 1 \in 1..4 /\ 2 \in 1..4 /\ 3 \in 1..4 /\ 4 \in 1..4
  OBVIOUS
<1>7. f \in Seq(AllUnits) /\ Len(f) = 8
  BY <1>3, <1>5, <1>6
<1>8. /\ f[1] = A(1) /\ f[2] = B(1) /\ f[3] = A(2) /\ f[4] = B(2)
      /\ f[5] = A(3) /\ f[6] = B(3) /\ f[7] = A(4) /\ f[8] = B(4)
  BY <1>5
<1> HIDE DEF f
<1>9. \A c \in 0..3 : f[2 * c + 1] = A(c + 1) /\ f[2 * c + 2] = B(c + 1)
  <2> TAKE c \in 0..3
  <2>1. c = 0 \/ c = 1 \/ c = 2 \/ c = 3
    OBVIOUS
  <2> QED
    BY <1>8, <2>1
<1>10. ASSUME NEW i \in 1..8 PROVE ~IsTicket(f[i].msg) /\ (Ends(f[i]) <=> i = 8)
  <2>1. i = 1 \/ i = 2 \/ i = 3 \/ i = 4 \/ i = 5 \/ i = 6 \/ i = 7 \/ i = 8
    OBVIOUS
  <2>2. \E j \in 1..4 : f[i].msg = m[j] /\ (f[i].part = 2 /\ j = 4 <=> i = 8)
    BY <1>4, <1>6, <1>8, <2>1
  <2>3. PICK j \in 1..4 : f[i].msg = m[j] /\ (f[i].part = 2 /\ j = 4 <=> i = 8)
    BY <2>2
  <2>4. j = 1 \/ j = 2 \/ j = 3 \/ j = 4
    OBVIOUS
  <2> QED
    BY <1>2, <2>3, <2>4 DEF IsTicket, Ends
<1> QED
  BY <1>7, <1>9, <1>10 DEF f, m, A, B

---------------------------------------------------------------------------
(* The way of the records *)

(* Parts of the flight.                                                    *)
LEMMA FlightParts ==
  ASSUME NEW retry, NEW a \in 1..9, NEW b \in 0..8, a <= b + 1
  PROVE  LET f == FlightUnits(retry) IN
         /\ SubSeq(f, a, b) \in Seq(AllUnits) /\ Len(SubSeq(f, a, b)) = b - a + 1
         /\ \A i \in 1..b - a + 1 : SubSeq(f, a, b)[i] = f[a + i - 1]
         /\ \A c \in 1..9, d \in 0..8 : c <= d + 1 /\ d <= b - a + 1 =>
              SubSeq(SubSeq(f, a, b), c, d) = SubSeq(f, a + c - 1, a + d - 1)
         /\ \A c \in b..8 : SubSeq(f, a, b) \o SubSeq(f, b + 1, c) = SubSeq(f, a, c)
<1> DEFINE f == FlightUnits(retry)
<1>1. f \in Seq(AllUnits) /\ Len(f) = 8
  BY FlightShape
<1> HIDE DEF f
<1>2. a \in Nat \ {0} /\ b \in Nat /\ b <= Len(f)
  BY <1>1
<1>3. /\ SubSeq(f, a, b) \in Seq(AllUnits) /\ Len(SubSeq(f, a, b)) = b - a + 1
      /\ \A i \in 1..b - a + 1 : SubSeq(f, a, b)[i] = f[a + i - 1]
  <2>1. \A s \in Seq(AllUnits), x \in Nat \ {0}, y \in Nat : x <= y + 1 /\ y <= Len(s) =>
          /\ SubSeq(s, x, y) \in Seq(AllUnits) /\ Len(SubSeq(s, x, y)) = y - x + 1
          /\ \A i \in 1..y - x + 1 : SubSeq(s, x, y)[i] = s[x + i - 1]
    BY Slice
  <2> QED
    BY <1>1, <1>2, <2>1, Zenon
<1>4. ASSUME NEW c \in 1..9, NEW d \in 0..8, c <= d + 1, d <= b - a + 1
      PROVE  SubSeq(SubSeq(f, a, b), c, d) = SubSeq(f, a + c - 1, a + d - 1)
  <2>1. c \in Nat \ {0} /\ d \in Nat
    OBVIOUS
  <2> QED
    BY <1>1, <1>2, <1>4, <2>1, SliceOfSlice
<1>5. ASSUME NEW c \in b..8
      PROVE  SubSeq(f, a, b) \o SubSeq(f, b + 1, c) = SubSeq(f, a, c)
  <2>1. c \in Nat /\ b <= c /\ c <= Len(f)
    BY <1>1
  <2> QED
    BY <1>1, <1>2, <2>1, SlicesJoined
<1> QED
  BY <1>3, <1>4, <1>5 DEF f

(* A record more at the end of the stream.                                 *)
LEMMA LeadsAppended ==
  ASSUME NEW S, NEW s \in Seq(S), NEW r \in S, NEW retry,
         NEW p \in Nat, NEW e \in Nat, NEW g \in Nat, e <= g,
         Leads(retry, s, p, e), Moves(retry, r, e, g)
  PROVE  Leads(retry, Append(s, r), p, g)
<1> DEFINE n == Len(s)
           t == Append(s, r)
<1>1. PICK at \in [1..n + 1 -> 0..e] :
        /\ at[1] = p /\ at[n + 1] = e
        /\ \A i \in 1..n : Moves(retry, s[i], at[i], at[i + 1])
  BY DEF Leads
<1>2. n \in Nat /\ Len(t) = n + 1 /\ t[n + 1] = r /\ \A i \in 1..n : t[i] = s[i]
  OBVIOUS
<1> HIDE DEF n, t
<1> DEFINE to == [i \in 1..n + 2 |-> IF i <= n + 1 THEN at[i] ELSE g]
<1>3. to \in [1..Len(t) + 1 -> 0..g]
  <2>1. \A i \in 1..n + 2 : (IF i <= n + 1 THEN at[i] ELSE g) \in 0..g
    <3> TAKE i \in 1..n + 2
    <3>1. i <= n + 1 => at[i] \in 0..e
      BY <1>1, <1>2
    <3> QED
      BY <1>2, <3>1
  <2>2. Len(t) + 1 = n + 2
    BY <1>2
  <2> QED
    BY <2>1, <2>2
<1>4. /\ to[1] = p /\ to[n + 1] = e /\ to[n + 2] = g
      /\ \A i \in 1..n + 1 : to[i] = at[i]
  BY <1>1, <1>2
<1> HIDE DEF to
<1>5. ASSUME NEW i \in 1..n + 1 PROVE Moves(retry, t[i], to[i], to[i + 1])
  <2>1. CASE i \in 1..n
    <3>1. Moves(retry, s[i], at[i], at[i + 1]) /\ i + 1 \in 1..n + 1
      BY <1>1, <1>2, <2>1
    <3> QED
      BY <1>2, <1>4, <2>1, <3>1
  <2>2. CASE i = n + 1
    <3>1. to[i] = e /\ to[i + 1] = g /\ t[i] = r
      BY <1>2, <1>4, <2>2
    <3> QED
      BY <3>1
  <2>3. i \in 1..n \/ i = n + 1
    BY <1>2
  <2> QED
    BY <2>1, <2>2, <2>3
<1>6. to[Len(t) + 1] = g /\ Len(t) = n + 1
  BY <1>2, <1>4
<1>7. Leads(retry, t, p, g)
  BY <1>3, <1>4, <1>5, <1>6 DEF Leads
<1> QED
  BY <1>7 DEF t

(* The first record leads somewhere, the others from there.                *)
LEMMA LeadsTail ==
  ASSUME NEW S, NEW s \in Seq(S), s # <<>>, NEW retry, NEW p, NEW e \in Nat,
         Leads(retry, s, p, e)
  PROVE  p \in 0..e /\ \E q \in 0..e : /\ Moves(retry, Head(s), p, q)
                                       /\ Leads(retry, Tail(s), q, e)
<1> DEFINE n == Len(s)
           t == Tail(s)
<1>1. PICK at \in [1..n + 1 -> 0..e] :
        /\ at[1] = p /\ at[n + 1] = e
        /\ \A i \in 1..n : Moves(retry, s[i], at[i], at[i + 1])
  BY DEF Leads
<1>2. n \in Nat \ {0} /\ s[1] = Head(s) /\ Len(t) = n - 1
  OBVIOUS
<1>3. \A i \in 1..n - 1 : t[i] = s[i + 1]
  OBVIOUS
<1> HIDE DEF n, t
<1> DEFINE to == [i \in 1..n |-> at[i + 1]]
<1>4. at[1] \in 0..e /\ at[2] \in 0..e
  BY <1>1, <1>2
<1>5. \A i \in 1..n : i + 1 \in 1..n + 1
  BY <1>2
<1>6. to \in [1..n -> 0..e] /\ \A i \in 1..n : to[i] = at[i + 1]
  BY <1>1, <1>5
<1> HIDE DEF to
<1>7. to[1] = at[2] /\ to[n] = e
  BY <1>1, <1>2, <1>6
<1>8. Len(t) + 1 = n
  BY <1>2
<1>9. ASSUME NEW i \in 1..Len(t) PROVE Moves(retry, t[i], to[i], to[i + 1])
  <2>1. i \in 1..n - 1 /\ i \in 1..n /\ i + 1 \in 1..n
    BY <1>2
  <2>2. Moves(retry, s[i + 1], at[i + 1], at[(i + 1) + 1])
    BY <1>1, <2>1
  <2> QED
    BY <1>3, <1>6, <2>1, <2>2
<1>10. Leads(retry, t, at[2], e)
  BY <1>6, <1>7, <1>8, <1>9 DEF Leads
<1>11. Moves(retry, Head(s), p, at[2])
  <2>1. 1 \in 1..n /\ 1 + 1 = 2
    BY <1>2
  <2> QED
    BY <1>1, <1>2, <2>1
<1> QED
  BY <1>1, <1>4, <1>10, <1>11 DEF t

(* No record leads nowhere.                                                *)
LEMMA LeadsNone ==
  ASSUME NEW retry, NEW p \in Nat, NEW e \in Nat
  PROVE  Leads(retry, <<>>, p, e) <=> p = e
<1>1. Len(<<>>) = 0
  OBVIOUS
<1>2. ASSUME Leads(retry, <<>>, p, e) PROVE p = e
  BY <1>1, <1>2 DEF Leads
<1>3. ASSUME p = e PROVE Leads(retry, <<>>, p, e)
  <2> DEFINE at == [i \in 1..Len(<<>>) + 1 |-> p]
  <2>1. at \in [1..Len(<<>>) + 1 -> 0..e] /\ at[1] = p /\ at[Len(<<>>) + 1] = e
    BY <1>1, <1>3
  <2>2. \A i \in 1..Len(<<>>) : FALSE
    BY <1>1
  <2> HIDE DEF at
  <2> QED
    BY <2>1, <2>2 DEF Leads
<1> QED
  BY <1>2, <1>3

---------------------------------------------------------------------------
(* What the client meets *)

(* The call the client is in decides the phase of the conversation.        *)
LEMMA Phase ==
  ASSUME Course
  PROVE  /\ cpc = "sendHello" => Starting
         /\ cpc = "readServerHello" => AwaitFirst \/ AwaitSecond
         /\ cpc = "sendSecondHello" => Retried
         /\ cpc \in FlightLabels => InFlight
         /\ cpc = "sendFinished" => Finishing
         /\ cpc = "done" => Done
         /\ cpc = "failed" => Explained
         /\ hellos <= 2
<1>1. hellos <= 2
  BY DEF Course, Over, Starting, AwaitFirst, Retried, AwaitSecond, InFlight, Finishing, Done
<1>2. /\ cpc = "sendHello" => Starting
      /\ cpc = "readServerHello" => AwaitFirst \/ AwaitSecond
      /\ cpc = "sendSecondHello" => Retried
      /\ cpc \in FlightLabels => InFlight
      /\ cpc = "sendFinished" => Finishing
      /\ cpc = "done" => Done
      /\ cpc = "failed" => Explained
  BY DEF Course, Over, Starting, AwaitFirst, Retried, AwaitSecond, InFlight, Finishing, Done,
         FlightLabels, Ended
<1> QED
  BY <1>1, <1>2

(* A server that has answered is past the ServerHello.                     *)
LEMMA PlaceShape ==
  ASSUME Answered
  PROVE  ServerPlace \in 1..9 /\ (spc = "flight" => ServerPlace \in 1..8)
<1>1. spc = "flight" => Len(queue) \in 1..8
  BY DEF Answered
<1>2. \A n \in 1..8 : 9 - n \in 1..8
  OBVIOUS
<1>3. \A n \in 1..8 : n \in 1..9
  OBVIOUS
<1>4. CASE spc = "flight"
  BY <1>1, <1>2, <1>3, <1>4 DEF ServerPlace
<1>5. CASE spc # "flight"
  BY <1>5 DEF ServerPlace
<1> QED
  BY <1>4, <1>5

(* A record waiting for the ServerHello: nothing but ChangeCipherSpec, a   *)
(* HelloRetryRequest, an alert with its reason, or the ServerHello.        *)
LEMMA HelloHead ==
  ASSUME Shape, Course, cpc = "readServerHello", Pending
  PROVE  \/ Next1.type = "ccs"
         \/ /\ Next1 = Asks(server.retry)
            /\ \/ AwaitFirst /\ Asked
               \/ AwaitSecond /\ server.retry = "twice"
         \/ Next1 = AlertRecord(NoKey) /\ Explained
         \/ /\ Next1 = Record(NoKey, "handshake", Units(Reply(server.retry)))
            /\ Serves /\ Leads(server.retry, Tail(down), 1, ServerPlace)
            /\ \/ AwaitFirst /\ server.retry = "no"
               \/ AwaitSecond /\ server.retry = "X25519"
<1> DEFINE retry == server.retry
<1>1. AwaitFirst \/ AwaitSecond
  BY DEF Course, Over, Starting, Retried, InFlight, Finishing, Done, FlightLabels, Ended
<1>2. down \in Seq(AllRecords) /\ down # <<>>
  BY DEF Shape, Pending
<1>3. Skipped.type = "ccs"
  BY DEF Skipped, Record
<1>4. ASSUME Leads(retry, down, 0, ServerPlace), Serves
      PROVE  \/ Next1.type = "ccs"
             \/ /\ Next1 = Record(NoKey, "handshake", Units(Reply(retry)))
                /\ Leads(retry, Tail(down), 1, ServerPlace)
  <2>1. ServerPlace \in Nat
    BY <1>4, PlaceShape DEF Serves
  <2>2. PICK q \in 0..ServerPlace : /\ Moves(retry, Head(down), 0, q)
                                    /\ Leads(retry, Tail(down), q, ServerPlace)
    BY <1>2, <1>4, <2>1, LeadsTail
  <2> QED
    BY <2>2 DEF Moves, Next1
<1>5. ASSUME Refused({<<>>, <<Skipped>>})
      PROVE  Next1.type = "ccs" \/ (Next1 = AlertRecord(NoKey) /\ Explained)
  <2>1. /\ Explained
        /\ down \in {Append(<<>>, AlertRecord(NoKey)), Append(<<Skipped>>, AlertRecord(NoKey))}
    BY <1>5 DEF Refused
  <2>2. Head(Append(<<>>, AlertRecord(NoKey))) = AlertRecord(NoKey)
    OBVIOUS
  <2>3. Head(Append(<<Skipped>>, AlertRecord(NoKey))) = Skipped
    OBVIOUS
  <2> QED
    BY <1>3, <2>1, <2>2, <2>3 DEF Next1
<1>6. CASE AwaitFirst
  <2>1. CASE up = <<Hello(1, "SM2", offer)>> /\ down = <<>>
    BY <1>2, <2>1
  <2>2. CASE Asked
    <3>1. Head(down) = Asks(retry)
      BY <2>2 DEF Asked
    <3> QED
      BY <1>6, <2>2, <3>1 DEF Next1
  <2>3. CASE Refused({<<>>})
    <3>1. Explained /\ down = Append(<<>>, AlertRecord(NoKey))
      BY <2>3 DEF Refused
    <3>2. Head(Append(<<>>, AlertRecord(NoKey))) = AlertRecord(NoKey)
      OBVIOUS
    <3> QED
      BY <3>1, <3>2 DEF Next1
  <2>4. CASE server.retry = "no" /\ Serves /\ Leads(server.retry, down, 0, ServerPlace)
    BY <1>4, <1>6, <2>4
  <2> QED
    BY <1>6, <2>1, <2>2, <2>3, <2>4 DEF AwaitFirst
<1>7. CASE AwaitSecond
  <2>1. CASE down \in {<<>>, <<Skipped>>}
    <3>1. Head(<<Skipped>>) = Skipped
      OBVIOUS
    <3> QED
      BY <1>2, <1>3, <2>1, <3>1 DEF Next1
  <2>2. CASE retry = "twice" /\ down \in {<<Asks(retry)>>, <<Skipped, Asks(retry)>>}
    <3>1. Head(<<Asks(retry)>>) = Asks(retry) /\ Head(<<Skipped, Asks(retry)>>) = Skipped
      OBVIOUS
    <3> QED
      BY <1>3, <1>7, <2>2, <3>1 DEF Next1
  <2>3. CASE Refused({<<>>, <<Skipped>>})
    BY <1>5, <2>3
  <2>4. CASE retry = "X25519" /\ Serves /\ Leads(retry, down, 0, ServerPlace)
    BY <1>4, <1>7, <2>4
  <2> QED
    BY <1>7, <2>1, <2>2, <2>3, <2>4 DEF AwaitSecond
<1> QED
  BY <1>1, <1>6, <1>7

---------------------------------------------------------------------------
(* The state keeps its shape *)

Typed == TypeOK /\ Shape

(* TypeOK, of the client and of the server.                                *)
ClientTyped ==
  /\ cpc \in HandshakeReads \cup Ended \cup
             {"sendHello", "sendSecondHello", "sendFinished", "done"}
  /\ why \in {None, "group", "retried", "alert", "part", "record", "unexpected",
              "verify"}
  /\ (cpc = "failed") <=> (why # None)
  /\ requested \in Groups \cup {None, "P256"}
  /\ km \in [Groups -> 0..2]
ServerTyped ==
  /\ server \in Server /\ conn \in 1..MaxConns
  /\ spc \in {"waitHello", "waitSecondHello", "flight", "waitFinished", "open", "ended"}
  /\ updates \in 0..MaxUpdates /\ sent \in 0..MaxData /\ torn \in BOOLEAN

(* TypeOK speaks of the client and of the server.                          *)
LEMMA TwoParts == TypeOK <=> ClientTyped /\ ServerTyped
  BY Zenon DEF TypeOK, ClientTyped, ServerTyped

(* The same after a step.                                                  *)
LEMMA TwoPartsAfter == TypeOK' <=> ClientTyped' /\ ServerTyped'
  BY TwoParts, PTL

(* A first connection starts in shape.                                     *)
LEMMA TypedInit == Init => Typed
<1> SUFFICES ASSUME Init PROVE Typed
  OBVIOUS
<1>1. TypeOK
  <2>1. server \in Server /\ 1 \in 1..MaxConns /\ 0 \in 0..MaxUpdates /\ 0 \in 0..MaxData
    BY InteropAssumption DEF Init
  <2>2. [g \in Groups |-> 0] \in [Groups -> 0..2]
    OBVIOUS
  <2> QED
    BY <2>1, <2>2 DEF Init, TypeOK, HandshakeReads, Ended, Groups, None
<1>2. Shape
  <2>1. Fresh \in [{"client", "server"} -> Seq(Tokens)]
    BY DEF Fresh
  <2>2. NoSecrets \in [{"client", "server"} -> Secrets]
    BY NoKeyShape DEF NoSecrets
  <2>3. issued \in SUBSET Tickets /\ IsFiniteSet(issued) /\ \A t \in issued : t.id # 0
    BY FS_EmptySet DEF Init
  <2>4. /\ hsBuf \in Seq(AllUnits) /\ queue \in Seq(AllUnits)
        /\ cache \in Seq([id : Nat, hash : {<<>>}]) /\ got \in Seq(Nat)
        /\ up \in Seq(Messages) /\ down \in Seq(AllRecords)
    BY EmptySeq DEF Init
  <2>5. inKey \in Keys /\ outKey \in Keys /\ offer \in Tickets
    BY NoKeyShape, TicketShape DEF Init
  <2> QED
    BY <2>1, <2>2, <2>3, <2>4, <2>5 DEF Init, Shape
<1> QED
  BY <1>1, <1>2 DEF Typed

(* A message more in a transcript.                                         *)
LEMMA HashShape ==
  ASSUME Shape, NEW p \in {"client", "server"}, NEW m \in Messages, Hash(p, m)
  PROVE  /\ transcript' \in [{"client", "server"} -> Seq(Tokens)]
         /\ transcript'[p] = Append(transcript[p], Token(m))
         /\ \A q \in {"client", "server"} : q # p => transcript'[q] = transcript[q]
<1>1. Token(m) \in Tokens
  BY TokenShape
<1>2. transcript \in [{"client", "server"} -> Seq(Tokens)]
  BY DEF Shape
<1>3. Append(transcript[p], Token(m)) \in Seq(Tokens)
  BY <1>1, <1>2
<1>4. transcript' = [transcript EXCEPT ![p] = Append(transcript[p], Token(m))]
  BY DEF Hash
<1> QED
  BY <1>2, <1>3, <1>4

(* The first of some messages or records.                                  *)
LEMMA Taken ==
  ASSUME NEW S, NEW s \in Seq(S), s # <<>>
  PROVE  /\ Head(s) \in S /\ Tail(s) \in Seq(S)
         /\ Len(s) \in Nat \ {0} /\ s[1] = Head(s) /\ Len(Tail(s)) = Len(s) - 1
         /\ \A i \in 1..Len(Tail(s)) : i + 1 \in 1..Len(s) /\ Tail(s)[i] = s[i + 1]
<1>1. Len(s) \in Nat \ {0} /\ s[1] = Head(s) /\ Len(Tail(s)) = Len(s) - 1
  OBVIOUS
<1>2. \A i \in 1..Len(s) - 1 : Tail(s)[i] = s[i + 1]
  OBVIOUS
<1>3. \A i \in 1..Len(s) - 1 : i + 1 \in 1..Len(s)
  BY <1>1
<1>4. Head(s) \in S /\ Tail(s) \in Seq(S)
  OBVIOUS
<1> QED
  BY <1>1, <1>2, <1>3, <1>4

(* The client's first hello keeps the shape.                               *)
LEMMA SendHelloShape == ASSUME Typed, SendHello PROVE Typed'
<1> DEFINE ticket == IF cache = <<>> THEN NoTicket ELSE Last(cache)
           hello == Hello(1, "SM2", ticket)
<1>1. cache \in Seq([id : Nat, hash : {<<>>}])
  BY DEF Typed, Shape
<1>2. ticket \in Tickets
  <2>1. CASE cache = <<>>
    BY <2>1, TicketShape
  <2>2. CASE cache # <<>>
    <3> DEFINE S == [id : Nat, hash : {<<>>}]
    <3> HIDE DEF S
    <3>1. cache[Len(cache)] \in S
      <4>1. cache \in Seq(S) /\ Len(cache) \in Nat \ {0}
        BY <1>1, <2>2, Taken DEF S
      <4> QED
        BY <4>1
    <3>2. Last(cache) \in [id : Nat, hash : {<<>>}]
      BY <3>1 DEF S, Last
    <3> QED
      BY <2>2, <3>2, TicketShape
  <2> QED
    BY <2>1, <2>2
<1> HIDE DEF ticket
<1>3. hello \in Messages
  <2>1. "SM2" \in Values /\ 1 \in Nat
    BY DEF Values
  <2> QED
    BY <1>2, <2>1, HelloShape
<1> HIDE DEF hello
<1>4. /\ offer' = ticket /\ up' = Append(up, hello) /\ Hash("client", hello)
      /\ km' = [km EXCEPT !["SM2"] = 1] /\ hellos' = 1 /\ cpc = "sendHello"
      /\ cpc' = "readServerHello"
      /\ UNCHANGED <<server, conn, why, requested, inKey, hsBuf, cache, got, serving,
                     shared, down>>
  BY DEF SendHello, Goto, ticket, hello
<1>5. transcript' \in [{"client", "server"} -> Seq(Tokens)]
  BY <1>3, <1>4, HashShape DEF Typed
<1>6. up' \in Seq(Messages)
  BY <1>3, <1>4 DEF Typed, Shape
<1>7. Shape'
  BY <1>2, <1>4, <1>5, <1>6 DEF Typed, Shape, serving
<1>8. TypeOK'
  <2>1. km' \in [Groups -> 0..2]
    <3>1. km \in [Groups -> 0..2]
      BY TwoParts, Zenon DEF Typed, ClientTyped
    <3>2. "SM2" \in Groups /\ 1 \in 0..2
      BY DEF Groups
    <3> QED
      BY <1>4, <3>1, <3>2
  <2>2. ClientTyped'
    <3>1. why = None /\ requested \in Groups \cup {None, "P256"}
      BY <1>4, TwoParts DEF Typed, ClientTyped
    <3> QED
      BY <1>4, <2>1, <3>1 DEF ClientTyped, HandshakeReads
  <2>3. ServerTyped'
    BY <1>4, TwoParts DEF Typed, ServerTyped, serving
  <2> QED
    BY <2>2, <2>3, TwoPartsAfter
<1> QED
  BY <1>7, <1>8 DEF Typed

(* So does its second one, or its giving up on the group asked for.        *)
LEMMA SendSecondHelloShape == ASSUME Typed, Course, SendSecondHello PROVE Typed'
<1> DEFINE hello == Hello(hellos + 1, requested, offer)
<1>1. cpc = "sendSecondHello" /\ hellos = 1
  BY Phase DEF SendSecondHello, Retried
<1>2. why = None /\ km \in [Groups -> 0..2] /\ requested \in Groups \cup {None, "P256"}
  <2>1. km \in [Groups -> 0..2]
    BY TwoParts, Zenon DEF Typed, ClientTyped
  <2> QED
    BY <1>1, <2>1, TwoParts DEF Typed, ClientTyped
<1>3. ChangeCipherSpec \in Messages
  <2>1. "change_cipher_spec" \in Kinds /\ None \in Values /\ 0 \in Nat /\ <<>> \in Seq(Tokens)
    BY DEF Kinds, Values
  <2> QED
    BY <2>1, MessageShape DEF ChangeCipherSpec
<1>4. up \in Seq(Messages) /\ offer \in Tickets /\ hellos + 1 = 2
  BY <1>1 DEF Typed, Shape
<1>5. CASE requested \in Groups
  <2>1. requested \in Values /\ 2 \in 0..2 /\ 2 \in Nat
    BY <1>5 DEF Groups, Values
  <2>2. hello \in Messages
    BY <1>4, <2>1, HelloShape
  <2> HIDE DEF hello
  <2>3. /\ up' = up \o <<ChangeCipherSpec, hello>> /\ Hash("client", hello)
        /\ km' = [km EXCEPT ![requested] = 2] /\ hellos' = 2 /\ cpc' = "readServerHello"
        /\ UNCHANGED <<server, conn, why, requested, inKey, hsBuf, offer, cache, got, serving,
                       shared, down>>
    BY <1>4, <1>5 DEF SendSecondHello, Goto, hello
  <2>4. transcript' \in [{"client", "server"} -> Seq(Tokens)]
    BY <2>2, <2>3, HashShape DEF Typed
  <2>5. up' \in Seq(Messages)
    BY <1>3, <1>4, <2>2, <2>3
  <2>6. Shape'
    BY <2>3, <2>4, <2>5 DEF Typed, Shape, serving
  <2>7. km' \in [Groups -> 0..2]
    BY <1>2, <1>5, <2>1, <2>3
  <2>8. ClientTyped'
    BY <1>2, <2>3, <2>7 DEF ClientTyped, HandshakeReads
  <2>9. ServerTyped'
    BY <2>3, TwoParts DEF Typed, ServerTyped, serving
  <2> QED
    BY <2>6, <2>8, <2>9, TwoPartsAfter DEF Typed
<1>6. CASE requested \notin Groups
  <2>1. /\ up' = Append(up, ChangeCipherSpec) /\ cpc' = "failed" /\ why' = "group"
        /\ UNCHANGED <<transcript, km, hellos, server, conn, requested, inKey, hsBuf, offer,
                       cache, got, serving, shared, down>>
    BY <1>6 DEF SendSecondHello, Goto
  <2>2. up' \in Seq(Messages)
    BY <1>3, <1>4, <2>1
  <2>3. Shape'
    BY <2>1, <2>2 DEF Typed, Shape, serving
  <2>4. ClientTyped'
    BY <1>2, <2>1 DEF ClientTyped, Ended, None
  <2>5. ServerTyped'
    BY <2>1, TwoParts DEF Typed, ServerTyped, serving
  <2> QED
    BY <2>3, <2>4, <2>5, TwoPartsAfter DEF Typed
<1> QED
  BY <1>5, <1>6

(* Next1 is a record of the stream, and the rest of it has its shape.      *)
LEMMA DownShape ==
  ASSUME Shape, Pending
  PROVE  Next1 \in AllRecords /\ Tail(down) \in Seq(AllRecords)
<1>1. down \in Seq(AllRecords) /\ down # <<>>
  BY DEF Shape, Pending
<1> QED
  BY <1>1, Taken DEF Next1

(* The hello that a HelloRetryRequest replaces in a transcript.            *)
LEMMA Restarted ==
  ASSUME NEW retry
  PROVE  /\ AfterRetry(FirstHello, RetryMessage(retry)) = Restart(retry)
         /\ AfterRetry(SecondHello, RetryMessage(retry)) \in Seq(Tokens)
         /\ Last(<<FirstHello>>) = FirstHello
         /\ Last(Append(Restart(retry), SecondHello)) = SecondHello
<1> DEFINE again == [type |-> "message_hash", val |-> "X25519", n |-> 2]
           rest == Hashing("HelloRetryRequest", RetryGroup(retry), 0)
<1>1. "ClientHello" \in Kinds /\ "message_hash" \in Kinds /\ "SM2" \in Values
      /\ "X25519" \in Values /\ "HelloRetryRequest" \in Kinds
  BY DEF Kinds, Values
<1>2. /\ [Token(FirstHello) EXCEPT !.type = "message_hash"] = Hashing("message_hash", "SM2", 1)
      /\ [Token(SecondHello) EXCEPT !.type = "message_hash"] = again
  BY DEF FirstHello, SecondHello, Hashing, Token
<1>3. Token(RetryMessage(retry)) = rest
  BY RetryShape
<1>4. again \in Tokens /\ rest \in Tokens /\ SecondHello \in Tokens
  <2>1. again = Hashing("message_hash", "X25519", 2)
    BY DEF Hashing
  <2>2. RetryGroup(retry) \in Values
    BY RetryShape
  <2> HIDE DEF again
  <2> QED
    BY <1>1, <2>1, <2>2, TokenShape DEF SecondHello
<1>5. AfterRetry(FirstHello, RetryMessage(retry)) = Restart(retry)
  BY <1>2, <1>3, Zenon DEF AfterRetry, Restart
<1>6. AfterRetry(SecondHello, RetryMessage(retry)) = <<again, rest>>
  BY <1>2, <1>3, Zenon DEF AfterRetry
<1> HIDE DEF again, rest
<1>7. <<again, rest>> \in Seq(Tokens)
  BY <1>4
<1>8. Last(<<FirstHello>>) = FirstHello
  BY DEF Last
<1>9. Last(Append(Restart(retry), SecondHello)) = SecondHello
  BY <1>4, RetryShape, AppendProperties DEF Last
<1> QED
  BY <1>5, <1>6, <1>7, <1>8, <1>9

(* The HelloRetryRequest the client reads is the one its server sends.     *)
LEMMA RetryRead ==
  ASSUME Shape, Course, IsHello("HelloRetryRequest")
  PROVE  /\ Next1 = Asks(server.retry) /\ Next1.units[1].msg = RetryMessage(server.retry)
         /\ \/ AwaitFirst /\ Asked
            \/ AwaitSecond /\ server.retry = "twice"
         /\ AfterRetry(Last(transcript["client"]), RetryMessage(server.retry)) \in Seq(Tokens)
         /\ AwaitFirst => AfterRetry(Last(transcript["client"]), RetryMessage(server.retry))
                            = Restart(server.retry)
<1> DEFINE retry == server.retry
<1>1. cpc = "readServerHello" /\ Pending /\ Next1.type = "handshake"
      /\ Next1.units[1].msg.type = "HelloRetryRequest"
  BY Zenon DEF IsHello
<1>2. /\ Units(RetryMessage(retry))[1].msg = RetryMessage(retry)
      /\ Units(Reply(retry))[1].msg = Reply(retry)
  BY DEF Units, Unit
<1>3. Reply(retry).type = "ServerHello"
  BY DEF Reply, Message
<1>4. /\ Asks(retry).units = Units(RetryMessage(retry))
      /\ Record(NoKey, "handshake", Units(Reply(retry))).units = Units(Reply(retry))
      /\ AlertRecord(NoKey).type = "alert"
  BY DEF Asks, Record, AlertRecord
<1>5. Next1 = Asks(retry) /\ ((AwaitFirst /\ Asked) \/ (AwaitSecond /\ retry = "twice"))
  BY <1>1, <1>2, <1>3, <1>4, HelloHead
<1>6. AwaitFirst => transcript["client"] = <<FirstHello>>
  BY DEF AwaitFirst
<1>7. AwaitSecond => transcript["client"] = Append(Restart(retry), SecondHello)
  BY DEF AwaitSecond, Hellos
<1>8. Restart(retry) \in Seq(Tokens)
  BY RetryShape
<1> QED
  BY <1>2, <1>4, <1>5, <1>6, <1>7, <1>8, Restarted, Zenon

(* Reading a HelloRetryRequest keeps the shape.                            *)
LEMMA ReadHelloRetryShape == ASSUME Typed, Course, ReadHelloRetry PROVE Typed'
<1> DEFINE retry == server.retry
           start == AfterRetry(Last(transcript["client"]), RetryMessage(retry))
<1>1. IsHello("HelloRetryRequest") /\ Pending
  BY Zenon DEF ReadHelloRetry, IsHello
<1>2. start \in Seq(Tokens) /\ Next1.units[1].msg = RetryMessage(retry)
  BY <1>1, RetryRead DEF Typed
<1>3. /\ down' = Tail(down) /\ requested' = Next1.units[1].msg.val
      /\ transcript' = [transcript EXCEPT !["client"] =
                          AfterRetry(Last(transcript["client"]), Next1.units[1].msg)]
      /\ \/ cpc' = "sendSecondHello" /\ UNCHANGED why
         \/ cpc' = "failed" /\ why' = "retried"
      /\ UNCHANGED <<server, conn, hellos, km, inKey, hsBuf, offer, cache, got, serving,
                     shared, up>>
  BY Zenon DEF ReadHelloRetry, Goto
<1>4. transcript' = [transcript EXCEPT !["client"] = start]
  BY <1>2, <1>3
<1>5. requested' = RetryGroup(retry)
  BY <1>2, <1>3 DEF RetryMessage, Message
<1> HIDE DEF start
<1>6. transcript' \in [{"client", "server"} -> Seq(Tokens)]
  BY <1>2, <1>4 DEF Typed, Shape
<1>7. down' \in Seq(AllRecords)
  BY <1>1, <1>3, DownShape DEF Typed
<1>8. Shape'
  BY <1>3, <1>6, <1>7 DEF Typed, Shape, serving
<1>9. why = None
  BY <1>1, TwoParts DEF Typed, ClientTyped, IsHello
<1>10. ClientTyped'
  <2>1. km' \in [Groups -> 0..2]
    BY <1>3, TwoParts, Zenon DEF Typed, ClientTyped
  <2>2. requested' \in Groups \cup {None, "P256"}
    BY <1>5 DEF RetryGroup, Groups
  <2> QED
    BY <1>3, <1>9, <2>1, <2>2 DEF ClientTyped, Ended, None
<1>11. ServerTyped'
  BY <1>3, TwoParts DEF Typed, ServerTyped, serving
<1> QED
  BY <1>8, <1>10, <1>11, TwoPartsAfter DEF Typed

(* Skipping a ChangeCipherSpec record keeps the shape.                     *)
LEMMA SkipShape == ASSUME Typed, SkipChangeCipherSpec PROVE Typed'
<1>1. /\ Pending /\ down' = Tail(down)
      /\ UNCHANGED <<server, conn, client, serving, transcript, shared, up>>
  BY DEF SkipChangeCipherSpec, Reading
<1>2. down' \in Seq(AllRecords)
  BY <1>1, DownShape DEF Typed
<1>3. Shape'
  BY <1>1, <1>2 DEF Typed, Shape, client, serving
<1>4. ClientTyped'
  BY <1>1, TwoParts, Zenon DEF Typed, ClientTyped, client
<1>5. ServerTyped'
  BY <1>1, TwoParts DEF Typed, ServerTyped, serving
<1> QED
  BY <1>3, <1>4, <1>5, TwoPartsAfter DEF Typed

(* The ServerHello and the group of its key share.                         *)
LEMMA ReplyRead ==
  ASSUME Shape, Course, IsHello("ServerHello")
  PROVE  /\ Next1 = Record(NoKey, "handshake", Units(Reply(server.retry)))
         /\ Next1.units[1].msg = Reply(server.retry) /\ Reply(server.retry) \in Messages
         /\ Reply(server.retry).val = Share(server.retry)
         /\ Serves /\ Leads(server.retry, Tail(down), 1, ServerPlace)
         /\ \/ AwaitFirst /\ server.retry = "no"
            \/ AwaitSecond /\ server.retry = "X25519"
<1> DEFINE retry == server.retry
<1>1. cpc = "readServerHello" /\ Pending /\ Next1.type = "handshake"
      /\ Next1.units[1].msg.type = "ServerHello"
  BY Zenon DEF IsHello
<1>2. /\ Units(RetryMessage(retry))[1].msg = RetryMessage(retry)
      /\ Units(Reply(retry))[1].msg = Reply(retry)
  BY DEF Units, Unit
<1>3. RetryMessage(retry).type = "HelloRetryRequest" /\ Reply(retry).val = Share(retry)
  BY DEF RetryMessage, Reply, Message
<1>4. /\ Asks(retry).units = Units(RetryMessage(retry))
      /\ Record(NoKey, "handshake", Units(Reply(retry))).units = Units(Reply(retry))
      /\ AlertRecord(NoKey).type = "alert"
  BY DEF Asks, Record, AlertRecord
<1>5. Reply(retry) \in Messages
  BY RetryShape
<1> QED
  BY <1>1, <1>2, <1>3, <1>4, <1>5, HelloHead

(* Reading a part of a hello keeps the shape.                              *)
LEMMA ReadHelloPartShape == ASSUME Typed, ReadHelloPart PROVE Typed'
<1>1. /\ Pending /\ down' = Tail(down) /\ cpc' = "failed" /\ why' = "part"
      /\ UNCHANGED <<server, conn, hellos, requested, km, inKey, hsBuf, offer, cache, got,
                     serving, transcript, shared, up>>
  BY DEF ReadHelloPart, Goto
<1>2. down' \in Seq(AllRecords)
  BY <1>1, DownShape DEF Typed
<1>3. Shape'
  BY <1>1, <1>2 DEF Typed, Shape, serving
<1>4. km \in [Groups -> 0..2] /\ requested \in Groups \cup {None, "P256"}
  BY TwoParts, Zenon DEF Typed, ClientTyped
<1>5. ClientTyped'
  BY <1>1, <1>4 DEF ClientTyped, Ended, None
<1>6. ServerTyped'
  BY <1>1, TwoParts DEF Typed, ServerTyped, serving
<1> QED
  BY <1>3, <1>5, <1>6, TwoPartsAfter DEF Typed

(* Reading the ServerHello keeps the shape.                                *)
LEMMA ReadServerHelloShape == ASSUME Typed, Course, ReadServerHello PROVE Typed'
<1> DEFINE hello == Reply(server.retry)
           s == ClientSecret(hello.val)
<1>1. IsHello("ServerHello") /\ Pending /\ cpc = "readServerHello"
  BY Zenon DEF ReadServerHello, IsHello
<1>2. Next1.units[1].msg = hello /\ hello \in Messages /\ hello.val = Share(server.retry)
  BY <1>1, ReplyRead DEF Typed
<1>3. /\ down' = Tail(down) /\ Hash("client", Next1.units[1].msg)
      /\ shared' = [shared EXCEPT !["client"] = ClientSecret(Next1.units[1].msg.val)]
      /\ inKey' = HandshakeKey(ClientSecret(Next1.units[1].msg.val), transcript'["client"])
      /\ cpc' = "readEncryptedExtensions"
      /\ UNCHANGED <<server, conn, why, hellos, requested, km, hsBuf, offer, cache,
                     got, serving, up>>
  BY Zenon DEF ReadServerHello, Goto
<1>4. Hash("client", hello) /\ shared' = [shared EXCEPT !["client"] = s]
      /\ inKey' = HandshakeKey(s, transcript'["client"])
  BY <1>2, <1>3
<1>5. km \in [Groups -> 0..2]
  BY TwoParts, Zenon DEF Typed, ClientTyped
<1>6. s \in Secrets
  <2>1. hello.val \in Groups /\ hello.val \in Values
    BY <1>2 DEF Share, Groups, Values
  <2>2. km[hello.val] \in Nat
    BY <1>5, <2>1
  <2> QED
    BY <2>1, <2>2 DEF ClientSecret, Secrets
<1> HIDE DEF s, hello
<1>7. transcript' \in [{"client", "server"} -> Seq(Tokens)]
  BY <1>2, <1>4, HashShape DEF Typed
<1>8. shared' \in [{"client", "server"} -> Secrets]
  BY <1>4, <1>6 DEF Typed, Shape
<1>9. inKey' \in Keys
  BY <1>4, <1>6, <1>7, KeyShape
<1>10. down' \in Seq(AllRecords)
  BY <1>1, <1>3, DownShape DEF Typed
<1>11. Shape'
  BY <1>3, <1>7, <1>8, <1>9, <1>10 DEF Typed, Shape, serving
<1>12. ClientTyped'
  <2>1. why = None /\ requested \in Groups \cup {None, "P256"}
    BY <1>1, TwoParts DEF Typed, ClientTyped
  <2> QED
    BY <1>3, <1>5, <2>1 DEF ClientTyped, HandshakeReads, FlightLabels
<1>13. ServerTyped'
  BY <1>3, TwoParts DEF Typed, ServerTyped, serving
<1> QED
  BY <1>11, <1>12, <1>13, TwoPartsAfter DEF Typed

(* Collecting a record of the flight keeps the shape.                      *)
LEMMA FillShape == ASSUME Typed, FillBuffer PROVE Typed'
<1>1. /\ Pending /\ hsBuf' = hsBuf \o Next1.units /\ down' = Tail(down)
      /\ UNCHANGED <<server, conn, cpc, why, hellos, requested, km, inKey, offer, cache,
                     got, serving, transcript, shared, up>>
  BY DEF FillBuffer, Reading
<1>2. down' \in Seq(AllRecords) /\ Next1.units \in Seq(AllUnits)
  <2>1. Next1 \in AllRecords /\ Tail(down) \in Seq(AllRecords)
    BY <1>1, DownShape DEF Typed
  <2> QED
    BY <1>1, <2>1 DEF AllRecords
<1>3. hsBuf' \in Seq(AllUnits)
  BY <1>1, <1>2, ConcatProperties DEF Typed, Shape
<1>4. Shape'
  BY <1>1, <1>2, <1>3 DEF Typed, Shape, serving
<1>5. ClientTyped'
  BY <1>1, TwoParts, Zenon DEF Typed, ClientTyped
<1>6. ServerTyped'
  BY <1>1, TwoParts DEF Typed, ServerTyped, serving
<1> QED
  BY <1>4, <1>5, <1>6, TwoPartsAfter DEF Typed

(* Reading a message of the flight keeps the shape.                        *)
LEMMA ReadMessageShape == ASSUME Typed, ReadMessage PROVE Typed'
<1> DEFINE m == hsBuf[1].msg
<1>1. /\ cpc \in FlightLabels /\ Complete /\ hsBuf' = SubSeq(hsBuf, 3, Len(hsBuf))
      /\ UNCHANGED <<server, conn, hellos, requested, km, offer, cache, got, serving,
                     shared, up, down>>
  BY DEF ReadMessage, LeftAfterMessage
<1>2. hsBuf \in Seq(AllUnits) /\ Len(hsBuf) \in Nat /\ Len(hsBuf) >= 2
  BY <1>1 DEF Typed, Shape, Complete
<1>3. hsBuf' \in Seq(AllUnits)
  <2>1. 3 \in Nat \ {0} /\ 3 <= Len(hsBuf) + 1 /\ Len(hsBuf) <= Len(hsBuf)
    BY <1>2
  <2> QED
    BY <1>1, <1>2, <2>1, Slice
<1>4. m \in Messages
  <2>1. hsBuf[1] \in AllUnits
    BY <1>2
  <2> QED
    BY <2>1 DEF AllUnits
<1>5. why = None
  BY <1>1, TwoParts DEF Typed, ClientTyped, FlightLabels
<1>6. km \in [Groups -> 0..2] /\ requested \in Groups \cup {None, "P256"}
  BY TwoParts, Zenon DEF Typed, ClientTyped
<1>7. ServerTyped'
  BY <1>1, TwoParts DEF Typed, ServerTyped, serving
<1>8. CASE MessageError(m) = None
  <2>1. /\ Hash("client", m) /\ cpc' = After(cpc) /\ UNCHANGED why
        /\ \/ inKey' = AppKey(shared["client"], transcript'["client"])
           \/ inKey' = inKey
    BY <1>8 DEF ReadMessage, Goto
  <2>2. transcript' \in [{"client", "server"} -> Seq(Tokens)]
    BY <1>4, <2>1, HashShape DEF Typed
  <2>3. inKey' \in Keys
    <3>1. shared["client"] \in Secrets /\ transcript'["client"] \in Seq(Tokens) /\ inKey \in Keys
      BY <2>2 DEF Typed, Shape
    <3> QED
      BY <2>1, <3>1, KeyShape
  <2>4. Shape'
    BY <1>1, <1>3, <2>2, <2>3 DEF Typed, Shape, serving
  <2>5. cpc' \in {"readCertificate", "readCertificateVerify", "readFinished", "sendFinished"}
    BY <1>1, <2>1 DEF After, FlightLabels
  <2>6. ClientTyped'
    BY <1>1, <1>5, <1>6, <2>1, <2>5 DEF ClientTyped, HandshakeReads, FlightLabels
  <2> QED
    BY <1>7, <2>4, <2>6, TwoPartsAfter DEF Typed
<1>9. CASE MessageError(m) # None
  <2>1. /\ cpc' = "failed" /\ why' = MessageError(m) /\ UNCHANGED <<transcript, inKey>>
    BY <1>9 DEF ReadMessage, Goto
  <2>2. MessageError(m) \in {"unexpected", "verify"}
    BY <1>9 DEF MessageError, None
  <2>3. Shape'
    BY <1>1, <1>3, <2>1 DEF Typed, Shape, serving
  <2>4. ClientTyped'
    BY <1>1, <1>6, <2>1, <2>2 DEF ClientTyped, Ended, None
  <2> QED
    BY <1>7, <2>3, <2>4, TwoPartsAfter DEF Typed
<1> QED
  BY <1>8, <1>9

(* The tickets Read stores of a run of units: n of them, from every second *)
(* unit, and no larger number of whole tickets begins the run.             *)
LEMMA StoredTickets ==
  ASSUME NEW u \in Seq(AllUnits)
  PROVE  \E n \in Nat :
           /\ 2 * n <= Len(u) /\ \A j \in 1 .. 2 * n : IsTicket(u[j].msg)
           /\ \A i \in Nat : 2 * i <= Len(u) /\ (\A j \in 1 .. 2 * i : IsTicket(u[j].msg))
                               => i <= n
           /\ WholeTickets(u) = [i \in 1..n |-> [id |-> u[2 * i].msg.n, hash |-> <<>>]]
           /\ WholeTickets(u) \in Seq([id : Nat, hash : {<<>>}])
<1> DEFINE N == Len(u) \div 2
           whole(i) == \A j \in 1 .. 2 * i : IsTicket(u[j].msg)
           counts == {i \in 0 .. N : whole(i)}
           best(i) == i \in counts /\ \A j \in counts : j <= i
           m == CHOOSE i \in counts : \A j \in counts : j <= i
<1>1. Len(u) \in Nat
  OBVIOUS
<1>2. N \in Nat /\ 2 * N <= Len(u) /\ \A i \in Nat : 2 * i <= Len(u) => i <= N
  BY <1>1
<1> HIDE DEF N
<1>3. 0 \in counts
  BY <1>2
<1>4. counts \subseteq 0..N
  OBVIOUS
<1> HIDE DEF counts
<1>5. \E x \in counts : \A y \in counts : y <= x
  BY <1>2, <1>3, <1>4, Largest
<1>6. m \in counts /\ \A j \in counts : j <= m
  BY <1>5
<1>7. WholeTickets(u) = [i \in 1..m |-> ReceivedTicket(u[2 * i].msg)]
  BY Zenon DEF WholeTickets, counts, N
<1> HIDE DEF m
<1>8. m \in Nat /\ m <= N /\ whole(m)
  BY <1>2, <1>6 DEF counts
<1>9. 2 * m <= Len(u)
  BY <1>1, <1>2, <1>8
<1>10. \A i \in Nat : 2 * i <= Len(u) /\ whole(i) => i <= m
  <2> TAKE i \in Nat
  <2>1. 2 * i <= Len(u) /\ whole(i) => i \in counts
    BY <1>2 DEF counts
  <2> QED
    BY <1>6, <2>1
<1>11. \A i \in 1..m : u[2 * i].msg.n \in Nat
  <2> TAKE i \in 1..m
  <2>1. 2 * i \in 1..Len(u)
    BY <1>1, <1>8, <1>9
  <2>2. u[2 * i] \in AllUnits
    BY <2>1
  <2> QED
    BY <2>2 DEF AllUnits, Messages
<1>12. WholeTickets(u) = [i \in 1..m |-> [id |-> u[2 * i].msg.n, hash |-> <<>>]]
  BY <1>7, Zenon DEF ReceivedTicket
<1>13. \A i \in 1..m : [id |-> u[2 * i].msg.n, hash |-> <<>>] \in [id : Nat, hash : {<<>>}]
  BY <1>11
<1>14. WholeTickets(u) \in Seq([id : Nat, hash : {<<>>}])
  BY <1>8, <1>12, <1>13
<1> QED
  BY <1>8, <1>9, <1>10, <1>12, <1>14

(* Refusing a record keeps the shape.                                      *)
LEMMA RefuseShape == ASSUME Typed, Refuse PROVE Typed'
<1>1. /\ cpc' = "failed" /\ why' = RecordError /\ RecordError # None
      /\ UNCHANGED <<server, conn, hellos, requested, km, inKey, hsBuf, offer, cache, got,
                     serving, transcript, shared, up, down>>
  BY DEF Refuse, Goto
<1>2. RecordError \in {"alert", "record", "unexpected"}
  BY <1>1 DEF RecordError, None
<1>3. Shape'
  BY <1>1 DEF Typed, Shape, serving
<1>4. km \in [Groups -> 0..2] /\ requested \in Groups \cup {None, "P256"}
  BY TwoParts, Zenon DEF Typed, ClientTyped
<1>5. ClientTyped'
  BY <1>1, <1>2, <1>4 DEF ClientTyped, Ended, None
<1>6. ServerTyped'
  BY <1>1, TwoParts DEF Typed, ServerTyped, serving
<1> QED
  BY <1>3, <1>5, <1>6, TwoPartsAfter DEF Typed

(* Sending the client's Finished keeps the shape.                          *)
LEMMA SendFinishedShape == ASSUME Typed, SendFinished PROVE Typed'
<1> DEFINE m == Message("Finished", "client", 0, transcript["client"])
<1>1. m \in Messages
  <2>1. "Finished" \in Kinds /\ "client" \in Values /\ 0 \in Nat
    BY DEF Kinds, Values
  <2>2. transcript["client"] \in Seq(Tokens)
    BY DEF Typed, Shape
  <2> QED
    BY <2>1, <2>2, MessageShape
<1> HIDE DEF m
<1>2. /\ cpc = "sendFinished" /\ cpc' = "done" /\ up' = Append(up, m) /\ Hash("client", m)
      /\ UNCHANGED <<server, conn, why, hellos, requested, km, inKey, hsBuf, offer, cache,
                     got, serving, shared, down>>
  BY DEF SendFinished, Goto, m
<1>3. transcript' \in [{"client", "server"} -> Seq(Tokens)]
  BY <1>1, <1>2, HashShape DEF Typed
<1>4. up' \in Seq(Messages)
  BY <1>1, <1>2 DEF Typed, Shape
<1>5. Shape'
  BY <1>2, <1>3, <1>4 DEF Typed, Shape, serving
<1>6. ClientTyped'
  <2>1. km \in [Groups -> 0..2] /\ requested \in Groups \cup {None, "P256"}
    BY TwoParts, Zenon DEF Typed, ClientTyped
  <2>2. why = None
    BY <1>2, TwoParts DEF Typed, ClientTyped
  <2> QED
    BY <1>2, <2>1, <2>2 DEF ClientTyped
<1>7. ServerTyped'
  BY <1>2, TwoParts DEF Typed, ServerTyped, serving
<1> QED
  BY <1>5, <1>6, <1>7, TwoPartsAfter DEF Typed

(* What a Read after the handshake leaves alone.                           *)
ReadStep == ReadData \/ ReadTickets \/ ReadFails \/ ReadCloseNotify

(* What every Read after the handshake does.                               *)
LEMMA ReadUnchanged ==
  ASSUME ReadStep
  PROVE  /\ cpc = "done" /\ Pending /\ down' = Tail(down)
         /\ cpc' = "done" \/ cpc' = "broken" \/ cpc' = "closed"
         /\ UNCHANGED <<server, conn, why, hellos, requested, km, inKey, hsBuf, offer>>
         /\ UNCHANGED <<serving, transcript, shared, up>>
<1>1. ASSUME ReadData \/ ReadTickets
      PROVE  /\ cpc = "done" /\ Pending /\ down' = Tail(down) /\ cpc' = "done"
             /\ UNCHANGED <<server, conn, why, hellos, requested, km, inKey, hsBuf, offer>>
             /\ UNCHANGED <<serving, transcript, shared, up>>
  BY <1>1 DEF ReadData, ReadTickets, Opened
<1>2. ASSUME ReadFails \/ ReadCloseNotify
      PROVE  /\ cpc = "done" /\ Pending /\ down' = Tail(down)
             /\ cpc' = "broken" \/ cpc' = "closed"
             /\ UNCHANGED <<server, conn, why, hellos, requested, km, inKey, hsBuf, offer>>
             /\ UNCHANGED <<serving, transcript, shared, up>>
  BY <1>2 DEF ReadFails, ReadCloseNotify, Opened, Goto
<1> QED
  BY <1>1, <1>2 DEF ReadStep

(* A Read after the handshake keeps the shape.                             *)
LEMMA ReadShape == ASSUME Typed, ReadStep PROVE Typed'
<1>1. /\ cpc = "done" /\ Pending /\ down' = Tail(down)
      /\ cpc' = "done" \/ cpc' = "broken" \/ cpc' = "closed"
      /\ UNCHANGED <<server, conn, why, hellos, requested, km, inKey, hsBuf, offer>>
      /\ UNCHANGED <<serving, transcript, shared, up>>
  BY ReadUnchanged
<1>2. down' \in Seq(AllRecords) /\ Next1.units \in Seq(AllUnits)
  <2>1. Next1 \in AllRecords /\ Tail(down) \in Seq(AllRecords)
    BY <1>1, DownShape DEF Typed
  <2> QED
    BY <1>1, <2>1 DEF AllRecords
<1>3. got' \in Seq(Nat)
  <2>1. got \in Seq(Nat) /\ Len(got) + 1 \in Nat
    BY DEF Typed, Shape
  <2>2. got' = Append(got, Len(got) + 1) \/ got' = got
    BY DEF ReadStep, ReadData, ReadTickets, ReadFails, ReadCloseNotify
  <2>3. Append(got, Len(got) + 1) \in Seq(Nat)
    BY <2>1, AppendProperties
  <2> QED
    BY <2>1, <2>2, <2>3
<1>4. cache' \in Seq([id : Nat, hash : {<<>>}])
  <2>1. cache \in Seq([id : Nat, hash : {<<>>}])
    BY DEF Typed, Shape
  <2>2. WholeTickets(Next1.units) \in Seq([id : Nat, hash : {<<>>}])
    BY <1>2, StoredTickets
  <2>3. cache' = cache \o WholeTickets(Next1.units) \/ cache' = cache
    BY Zenon DEF ReadStep, ReadData, ReadTickets, ReadFails, ReadCloseNotify
  <2> QED
    BY <2>1, <2>2, <2>3, ConcatProperties
<1>5. Shape'
  BY <1>1, <1>2, <1>3, <1>4 DEF Typed, Shape, serving
<1>6. ClientTyped'
  <2>1. km \in [Groups -> 0..2] /\ requested \in Groups \cup {None, "P256"}
    BY TwoParts, Zenon DEF Typed, ClientTyped
  <2>2. why = None
    BY <1>1, TwoParts DEF Typed, ClientTyped
  <2> QED
    BY <1>1, <2>1, <2>2 DEF ClientTyped, Ended
<1>7. ServerTyped'
  BY <1>1, TwoParts DEF Typed, ServerTyped, serving
<1> QED
  BY <1>5, <1>6, <1>7, TwoPartsAfter DEF Typed

---------------------------------------------------------------------------
(* The server keeps the shape *)

(* The records around a hello the server answers.                          *)
LEMMA CompatibilityShape ==
  /\ Compatibility \in {<<>>, <<Skipped>>} /\ Compatibility \in Seq(AllRecords)
  /\ Skipped \in AllRecords /\ Skipped.type = "ccs" /\ AlertRecord(NoKey) \in AllRecords
  /\ \A key \in Keys : AlertRecord(key) \in AllRecords
<1>1. "ccs" \in Contents /\ "alert" \in Contents
  BY DEF Contents
<1>2. NoKey \in Keys /\ <<>> \in Seq(AllUnits)
  BY NoKeyShape, EmptySeq
<1>3. Skipped \in AllRecords /\ Skipped.type = "ccs"
  BY <1>1, <1>2 DEF Skipped, Record, AllRecords
<1>4. \A key \in Keys : AlertRecord(key) \in AllRecords
  BY <1>1, <1>2, RecordShape DEF AlertRecord
<1>5. Compatibility \in {<<>>, <<Skipped>>}
  BY DEF Compatibility, Skipped
<1>6. <<>> \in Seq(AllRecords) /\ <<Skipped>> \in Seq(AllRecords)
  BY <1>3
<1> QED
  BY <1>2, <1>3, <1>4, <1>5, <1>6

(* The units f are those of a, b, c and d, two of each.                    *)
Pairs(a, b, c, d, f) ==
  /\ Len(a) = 2 /\ Len(b) = 2 /\ Len(c) = 2 /\ Len(d) = 2 /\ Len(f) = 8
  /\ f[1] = a[1] /\ f[2] = a[2] /\ f[3] = b[1] /\ f[4] = b[2]
  /\ f[5] = c[1] /\ f[6] = c[2] /\ f[7] = d[1] /\ f[8] = d[2]

(* Four pairs, one after the other.                                        *)
LEMMA FourPairs ==
  ASSUME NEW a \in Seq(AllUnits), NEW b \in Seq(AllUnits), NEW c \in Seq(AllUnits),
         NEW d \in Seq(AllUnits), NEW f \in Seq(AllUnits), Pairs(a, b, c, d, f)
  PROVE  a \o b \o c \o d = f
<1> DEFINE p == a \o b
           q == p \o c
           r == q \o d
<1>1. /\ p \in Seq(AllUnits) /\ Len(p) = 4 /\ \A i \in 1..2 : p[i] = a[i]
      /\ p[3] = b[1] /\ p[4] = b[2]
  <2>1. /\ p \in Seq(AllUnits) /\ Len(p) = Len(a) + Len(b)
        /\ \A i \in 1..Len(a) + Len(b) : p[i] = IF i <= Len(a) THEN a[i] ELSE b[i - Len(a)]
    BY ConcatProperties
  <2>2. Len(a) = 2 /\ Len(b) = 2
    BY Zenon DEF Pairs
  <2> HIDE DEF p
  <2>3. \A i \in 1..4 : p[i] = IF i <= 2 THEN a[i] ELSE b[i - 2]
    BY <2>1, <2>2
  <2> QED
    BY <2>1, <2>2, <2>3
<1> HIDE DEF p
<1>2. /\ q \in Seq(AllUnits) /\ Len(q) = 6 /\ \A i \in 1..4 : q[i] = p[i]
      /\ q[5] = c[1] /\ q[6] = c[2]
  <2>1. /\ q \in Seq(AllUnits) /\ Len(q) = Len(p) + Len(c)
        /\ \A i \in 1..Len(p) + Len(c) : q[i] = IF i <= Len(p) THEN p[i] ELSE c[i - Len(p)]
    BY <1>1, ConcatProperties
  <2>2. Len(p) = 4 /\ Len(c) = 2
    BY <1>1, Zenon DEF Pairs
  <2> HIDE DEF q
  <2>3. \A i \in 1..6 : q[i] = IF i <= 4 THEN p[i] ELSE c[i - 4]
    BY <2>1, <2>2
  <2> QED
    BY <2>1, <2>2, <2>3
<1> HIDE DEF q
<1>3. /\ r \in Seq(AllUnits) /\ Len(r) = 8 /\ \A i \in 1..6 : r[i] = q[i]
      /\ r[7] = d[1] /\ r[8] = d[2]
  <2>1. /\ r \in Seq(AllUnits) /\ Len(r) = Len(q) + Len(d)
        /\ \A i \in 1..Len(q) + Len(d) : r[i] = IF i <= Len(q) THEN q[i] ELSE d[i - Len(q)]
    BY <1>2, ConcatProperties
  <2>2. Len(q) = 6 /\ Len(d) = 2
    BY <1>2, Zenon DEF Pairs
  <2> HIDE DEF r
  <2>3. \A i \in 1..8 : r[i] = IF i <= 6 THEN q[i] ELSE d[i - 6]
    BY <2>1, <2>2
  <2> QED
    BY <2>1, <2>2, <2>3
<1> HIDE DEF r
<1>4. \A i \in 1..8 : i = 1 \/ i = 2 \/ i = 3 \/ i = 4 \/ i = 5 \/ i = 6 \/ i = 7 \/ i = 8
  OBVIOUS
<1>5. /\ r[1] = a[1] /\ r[2] = a[2] /\ r[3] = b[1] /\ r[4] = b[2]
      /\ r[5] = c[1] /\ r[6] = c[2] /\ r[7] = d[1] /\ r[8] = d[2]
  <2>1. /\ r[1] = q[1] /\ r[2] = q[2] /\ r[3] = q[3] /\ r[4] = q[4] /\ r[5] = q[5] /\ r[6] = q[6]
        /\ q[1] = p[1] /\ q[2] = p[2] /\ q[3] = p[3] /\ q[4] = p[4]
        /\ p[1] = a[1] /\ p[2] = a[2]
    <3>1. 1 \in 1..6 /\ 2 \in 1..6 /\ 3 \in 1..6 /\ 4 \in 1..6 /\ 5 \in 1..6 /\ 6 \in 1..6
      OBVIOUS
    <3>2. 1 \in 1..4 /\ 2 \in 1..4 /\ 3 \in 1..4 /\ 4 \in 1..4 /\ 1 \in 1..2 /\ 2 \in 1..2
      OBVIOUS
    <3> QED
      BY <1>1, <1>2, <1>3, <3>1, <3>2, Zenon
  <2> QED
    BY <1>1, <1>2, <1>3, <2>1, Zenon
<1>6. Len(r) = Len(f) /\ \A i \in 1..Len(r) : r[i] = f[i]
  <2>1. /\ f[1] = a[1] /\ f[2] = a[2] /\ f[3] = b[1] /\ f[4] = b[2] /\ Len(f) = 8
        /\ f[5] = c[1] /\ f[6] = c[2] /\ f[7] = d[1] /\ f[8] = d[2]
    BY Zenon DEF Pairs
  <2>2. Len(r) = 8 /\ Len(r) = Len(f)
    BY <1>3, <2>1, Zenon
  <2>3. ASSUME NEW i \in 1..8 PROVE r[i] = f[i]
    <3>1. i = 1 \/ i = 2 \/ i = 3 \/ i = 4 \/ i = 5 \/ i = 6 \/ i = 7 \/ i = 8
      BY <1>4, Zenon
    <3> QED
      BY <1>5, <2>1, <3>1, Zenon
  <2> QED
    BY <2>2, <2>3, Zenon
<1>7. r = f
  BY <1>3, <1>6, SeqEqual, Zenon
<1> QED
  BY <1>7 DEF p, q, r

(* The flight in units is the four messages one after the other.           *)
LEMMA FlightQueue ==
  ASSUME NEW retry
  PROVE  LET m == Flight(retry) IN
         Units(m[1]) \o Units(m[2]) \o Units(m[3]) \o Units(m[4]) = FlightUnits(retry)
<1> DEFINE m == Flight(retry)
           f == FlightUnits(retry)
<1>1. \A i \in 1..4 : m[i] \in Messages
  BY FlightMessages
<1>2. f \in Seq(AllUnits) /\ Len(f) = 8
      /\ \A c \in 0..3 : f[2 * c + 1] = Unit(m[c + 1], 1) /\ f[2 * c + 2] = Unit(m[c + 1], 2)
  BY FlightShape
<1> HIDE DEF m, f
<1> DEFINE A(i) == Unit(m[i], 1)
           B(i) == Unit(m[i], 2)
           u(i) == Units(m[i])
<1>3. \A i \in 1..4 : u(i) \in Seq(AllUnits) /\ Len(u(i)) = 2 /\ u(i)[1] = A(i) /\ u(i)[2] = B(i)
  BY <1>1, UnitShape
<1>4. 1 \in 1..4 /\ 2 \in 1..4 /\ 3 \in 1..4 /\ 4 \in 1..4
      /\ 0 \in 0..3 /\ 1 \in 0..3 /\ 2 \in 0..3 /\ 3 \in 0..3
  OBVIOUS
<1>5. /\ f[1] = A(1) /\ f[2] = B(1) /\ f[3] = A(2) /\ f[4] = B(2)
      /\ f[5] = A(3) /\ f[6] = B(3) /\ f[7] = A(4) /\ f[8] = B(4)
  BY <1>2, <1>4
<1> HIDE DEF u, A, B
<1> DEFINE a == u(1)
           b == u(2)
           c == u(3)
           d == u(4)
<1>6. a \o b \o c \o d = f
  <2>1. Pairs(a, b, c, d, f)
    BY <1>2, <1>3, <1>4, <1>5 DEF Pairs
  <2>2. a \in Seq(AllUnits) /\ b \in Seq(AllUnits) /\ c \in Seq(AllUnits) /\ d \in Seq(AllUnits)
    BY <1>3, <1>4
  <2>3. f \in Seq(AllUnits)
    BY <1>2
  <2> HIDE DEF a, b, c, d
  <2>4. \A v \in Seq(AllUnits), w \in Seq(AllUnits), x \in Seq(AllUnits), y \in Seq(AllUnits),
           z \in Seq(AllUnits) : Pairs(v, w, x, y, z) => v \o w \o x \o y = z
    BY FourPairs
  <2>5. Pairs(a, b, c, d, f) => a \o b \o c \o d = f
    BY <2>2, <2>3, <2>4
  <2> QED
    BY <2>1, <2>5
<1> QED
  BY <1>6 DEF u, m, f

(* The messages of the flight, whatever was hashed before them.            *)
LEMMA FlightTyped ==
  ASSUME NEW hash \in Seq(Tokens)
  PROVE  LET m == ServerFlight(hash) IN
         /\ m[1] \in Messages /\ m[2] \in Messages /\ m[3] \in Messages /\ m[4] \in Messages
         /\ \A i \in 1..4 : Token(m[i]) \in Tokens
<1> DEFINE a == Message("EncryptedExtensions", "server", 0, <<>>)
           b == Message("Certificate", "server", 0, <<>>)
           c == Message("CertificateVerify", "server", 0, hash \o <<Token(a), Token(b)>>)
           d == Message("Finished", "server", 0, hash \o <<Token(a), Token(b), Token(c)>>)
<1>1. /\ "EncryptedExtensions" \in Kinds /\ "Certificate" \in Kinds
      /\ "CertificateVerify" \in Kinds /\ "Finished" \in Kinds /\ "server" \in Values
      /\ <<>> \in Seq(Tokens)
  BY EmptySeq DEF Kinds, Values
<1>2. ServerFlight(hash) = <<a, b, c, d>>
  BY DEF ServerFlight
<1> DEFINE over(s) == hash \o s
<1>3. \A s \in Seq(Tokens) : over(s) \in Seq(Tokens)
  BY ConcatProperties
<1>4. a \in Messages /\ b \in Messages
  BY <1>1, MessageShape
<1> HIDE DEF a, b
<1>5. Token(a) \in Tokens /\ Token(b) \in Tokens
  BY <1>4, TokenShape
<1>6. over(<<Token(a), Token(b)>>) \in Seq(Tokens)
  <2>1. <<Token(a), Token(b)>> \in Seq(Tokens)
    BY <1>5
  <2> QED
    BY <1>3, <2>1
<1>7. c \in Messages
  BY <1>1, <1>6, MessageShape
<1> HIDE DEF c
<1>8. Token(c) \in Tokens
  BY <1>7, TokenShape
<1>9. over(<<Token(a), Token(b), Token(c)>>) \in Seq(Tokens)
  <2>1. <<Token(a), Token(b), Token(c)>> \in Seq(Tokens)
    BY <1>5, <1>8
  <2> QED
    BY <1>3, <2>1
<1>10. d \in Messages
  BY <1>1, <1>9, MessageShape
<1> HIDE DEF d
<1>11. Token(d) \in Tokens
  BY <1>10, TokenShape
<1>12. \A i \in 1..4 : i = 1 \/ i = 2 \/ i = 3 \/ i = 4
  OBVIOUS
<1>13. /\ ServerFlight(hash)[1] = a /\ ServerFlight(hash)[2] = b
       /\ ServerFlight(hash)[3] = c /\ ServerFlight(hash)[4] = d
  BY <1>2
<1> QED
  BY <1>4, <1>5, <1>7, <1>8, <1>10, <1>11, <1>12, <1>13

(* The server reads a message.                                             *)
LEMMA RequestShape ==
  ASSUME Shape, up # <<>>
  PROVE  /\ Request \in Messages /\ Tail(up) \in Seq(Messages)
         /\ Request.val \in Values /\ Request.n \in Nat /\ Token(Request) \in Tokens
         /\ [Token(Request) EXCEPT !.type = "message_hash"] \in Tokens
<1>1. up \in Seq(Messages)
  BY DEF Shape
<1>2. Request \in Messages /\ Tail(up) \in Seq(Messages)
  BY <1>1, Taken DEF Request
<1>3. Request.val \in Values /\ Request.n \in Nat
  BY <1>2 DEF Messages
<1>4. Token(Request) \in Tokens
  BY <1>2, TokenShape
<1>5. [Token(Request) EXCEPT !.type = "message_hash"]
        = Hashing("message_hash", Request.val, Request.n)
  BY DEF Token, Hashing
<1>6. "message_hash" \in Kinds
  BY DEF Kinds
<1> QED
  BY <1>2, <1>3, <1>4, <1>5, <1>6, TokenShape

AnswersHello(cut) ==
  /\ spc \in {"waitHello", "waitSecondHello"} /\ up # <<>> /\ up' = Tail(up)
  /\ Abort \/ Answer(Request, cut) \/ Retry(Request, cut)
  /\ UNCHANGED <<server, conn, client, issued, sent, updates>>

(* A hello is answered, with a retry, or with an alert.                    *)
LEMMA HelloAnswered ==
  ASSUME NEW cut, ServerReadHello(cut) \/ ServerReadSecondHello(cut)
  PROVE  AnswersHello(cut)
<1>1. CASE ServerReadHello(cut)
  <2>1. spc = "waitHello" /\ up # <<>> /\ up' = Tail(up)
        /\ UNCHANGED <<server, conn, client, issued, sent, updates>>
    BY <1>1, Zenon DEF ServerReadHello, Received
  <2>2. AnswerOrAbort(Request, cut) \/ Retry(Request, cut)
    BY <1>1, Zenon DEF ServerReadHello
  <2>3. AnswerOrAbort(Request, cut) => Abort \/ Answer(Request, cut)
    BY Zenon DEF AnswerOrAbort
  <2> QED
    BY <2>1, <2>2, <2>3, Zenon DEF AnswersHello
<1>2. CASE ServerReadSecondHello(cut)
  <2>1. spc = "waitSecondHello" /\ up # <<>> /\ up' = Tail(up)
        /\ UNCHANGED <<server, conn, client, issued, sent, updates>>
    BY <1>2, Zenon DEF ServerReadSecondHello, Received
  <2>2. Abort \/ AnswerOrAbort(Request, cut) \/ Retry(Request, cut)
    BY <1>2, Zenon DEF ServerReadSecondHello
  <2>3. AnswerOrAbort(Request, cut) => Abort \/ Answer(Request, cut)
    BY Zenon DEF AnswerOrAbort
  <2> QED
    BY <2>1, <2>2, <2>3, Zenon DEF AnswersHello
<1> QED
  BY <1>1, <1>2

(* The server cuts its answer over two records.                            *)
CutsHello ==
  /\ spc \in {"waitHello", "waitSecondHello"} /\ up # <<>>
  /\ Answer(Request, TRUE) \/ Retry(Request, TRUE)
  /\ UNCHANGED <<server, conn, client, issued, sent, updates>>

(* An answer is whole, or cut; there is nothing to cut in an alert.        *)
LEMMA WholeOrCut ==
  ASSUME NEW cut \in BOOLEAN, ServerReadHello(cut) \/ ServerReadSecondHello(cut)
  PROVE  ServerReadHello(FALSE) \/ ServerReadSecondHello(FALSE) \/ CutsHello
<1>1. CASE cut = FALSE
  BY <1>1
<1>2. CASE cut = TRUE
  <2>1. ASSUME ServerReadHello(TRUE) PROVE ServerReadHello(FALSE) \/ CutsHello
    <3>1. /\ spc = "waitHello" /\ up # <<>>
          /\ UNCHANGED <<server, conn, client, issued, sent, updates>>
      BY <2>1, Zenon DEF ServerReadHello, Received
    <3>2. CASE Answer(Request, TRUE) \/ Retry(Request, TRUE)
      BY <3>1, <3>2, Zenon DEF CutsHello
    <3>3. CASE ~(Answer(Request, TRUE) \/ Retry(Request, TRUE))
      BY <2>1, <3>3, Zenon DEF ServerReadHello, AnswerOrAbort
    <3> QED
      BY <3>2, <3>3
  <2>2. ASSUME ServerReadSecondHello(TRUE) PROVE ServerReadSecondHello(FALSE) \/ CutsHello
    <3>1. /\ spc = "waitSecondHello" /\ up # <<>>
          /\ UNCHANGED <<server, conn, client, issued, sent, updates>>
      BY <2>2, Zenon DEF ServerReadSecondHello, Received
    <3>2. CASE Answer(Request, TRUE) \/ Retry(Request, TRUE)
      BY <3>1, <3>2, Zenon DEF CutsHello
    <3>3. CASE ~(Answer(Request, TRUE) \/ Retry(Request, TRUE))
      BY <2>2, <3>3, Zenon DEF ServerReadSecondHello, AnswerOrAbort
    <3> QED
      BY <3>2, <3>3
  <2> QED
    BY <1>2, <2>1, <2>2
<1> QED
  BY <1>1, <1>2

(* What the server puts into the stream to the client, in the clear.       *)
LEMMA Clear ==
  ASSUME Shape, up # <<>>, NEW cut, Answer(Request, cut) \/ Retry(Request, cut)
  PROVE  /\ \E m \in Messages : down' = down \o InTheClear(m, cut) \o Compatibility
         /\ torn' = (torn \/ cut)
<1>1. Request.val \in Values /\ 0 \in Nat /\ <<>> \in Seq(Tokens)
  BY RequestShape, EmptySeq
<1>2. CASE Answer(Request, cut)
  <2> DEFINE m == Message("ServerHello", Request.val, 0, <<>>)
  <2>1. down' = down \o InTheClear(m, cut) \o Compatibility /\ torn' = (torn \/ cut)
    BY <1>2, Zenon DEF Answer
  <2>2. "ServerHello" \in Kinds
    BY DEF Kinds
  <2>3. m \in Messages
    BY <1>1, <2>2, MessageShape
  <2> HIDE DEF m
  <2> QED
    BY <2>1, <2>3, Zenon
<1>3. CASE Retry(Request, cut)
  <2> DEFINE group == IF server.retry = "unknown" THEN "P256" ELSE "X25519"
             m == Message("HelloRetryRequest", group, 0, <<>>)
  <2>1. down' = down \o InTheClear(m, cut) \o Compatibility /\ torn' = (torn \/ cut)
    BY <1>3, Zenon DEF Retry
  <2>2. "HelloRetryRequest" \in Kinds /\ group \in Values
    BY DEF Kinds, Values
  <2> HIDE DEF group
  <2>3. m \in Messages
    BY <1>1, <2>2, MessageShape
  <2> HIDE DEF m
  <2> QED
    BY <2>1, <2>3, Zenon
<1> QED
  BY <1>2, <1>3

(* A message in the clear is one record, or two with a unit each.          *)
LEMMA ClearShape ==
  ASSUME NEW m \in Messages, NEW cut \in BOOLEAN
  PROVE  /\ InTheClear(m, cut) \in Seq(AllRecords)
         /\ InTheClear(m, FALSE) = <<Record(NoKey, "handshake", Units(m))>>
         /\ Len(InTheClear(m, TRUE)) = 2 /\ HelloPart(InTheClear(m, TRUE)[1])
<1> DEFINE whole == Record(NoKey, "handshake", Units(m))
           part(i) == Record(NoKey, "handshake", <<Unit(m, i)>>)
<1>1. /\ Units(m) \in Seq(AllUnits) /\ <<Unit(m, 1)>> \in Seq(AllUnits)
      /\ <<Unit(m, 2)>> \in Seq(AllUnits) /\ NoKey \in Keys /\ "handshake" \in Contents
  BY NoKeyShape, UnitShape DEF Contents
<1>2. whole \in AllRecords /\ part(1) \in AllRecords /\ part(2) \in AllRecords
  BY <1>1, RecordShape
<1>3. HelloPart(part(1))
  BY DEF HelloPart, Record
<1>4. /\ InTheClear(m, FALSE) = <<whole>> /\ InTheClear(m, TRUE) = <<part(1), part(2)>>
      /\ cut \in {FALSE, TRUE}
  BY DEF InTheClear
<1> HIDE DEF whole, part
<1>5. <<whole>> \in Seq(AllRecords) /\ <<part(1), part(2)>> \in Seq(AllRecords)
  BY <1>2
<1>6. Len(<<part(1), part(2)>>) = 2 /\ <<part(1), part(2)>>[1] = part(1)
  OBVIOUS
<1> QED
  BY <1>3, <1>4, <1>5, <1>6, Zenon DEF whole

(* The answer to a hello keeps the shape.                                  *)
LEMMA AnswerShape ==
  ASSUME Typed, NEW cut \in BOOLEAN, AnswersHello(cut) PROVE Typed'
<1>1. /\ up # <<>> /\ up' = Tail(up)
      /\ UNCHANGED <<server, conn, client, issued, sent, updates>>
  BY DEF AnswersHello
<1>2. /\ Request \in Messages /\ Tail(up) \in Seq(Messages)
      /\ Request.val \in Values /\ Request.n \in Nat /\ Token(Request) \in Tokens
      /\ [Token(Request) EXCEPT !.type = "message_hash"] \in Tokens
  BY <1>1, RequestShape DEF Typed
<1>3. /\ transcript \in [{"client", "server"} -> Seq(Tokens)] /\ outKey \in Keys
      /\ shared \in [{"client", "server"} -> Secrets] /\ queue \in Seq(AllUnits)
      /\ down \in Seq(AllRecords)
  BY DEF Typed, Shape
<1>4. ASSUME NEW m \in Messages
      PROVE  down \o InTheClear(m, cut) \o Compatibility \in Seq(AllRecords)
  <2> DEFINE s == InTheClear(m, cut)
  <2>1. s \in Seq(AllRecords) /\ Compatibility \in Seq(AllRecords)
    BY ClearShape, CompatibilityShape
  <2> HIDE DEF s
  <2>2. down \o s \in Seq(AllRecords)
    BY <1>3, <2>1, ConcatProperties
  <2>3. (down \o s) \o Compatibility \in Seq(AllRecords)
    BY <2>1, <2>2, ConcatProperties
  <2> QED
    BY <2>3 DEF s
<1>5. /\ down' \in Seq(AllRecords) /\ queue' \in Seq(AllUnits) /\ outKey' \in Keys
      /\ transcript' \in [{"client", "server"} -> Seq(Tokens)]
      /\ shared' \in [{"client", "server"} -> Secrets]
      /\ spc' \in {"waitSecondHello", "flight", "ended"} /\ torn' \in BOOLEAN
  <2> torn \in BOOLEAN
    BY TwoParts DEF Typed, ServerTyped
  <2>1. CASE Abort
    <3>1. down' = Append(down, AlertRecord(NoKey)) /\ spc' = "ended"
          /\ UNCHANGED <<queue, outKey, torn, transcript, shared>>
      BY <2>1 DEF Abort
    <3>2. down' \in Seq(AllRecords)
      BY <1>3, <3>1, CompatibilityShape
    <3> QED
      BY <1>3, <3>1, <3>2
  <2>2. CASE Answer(Request, cut)
    <3> DEFINE s == [group |-> Request.val, key |-> Request.n]
               reply == Message("ServerHello", Request.val, 0, <<>>)
               hash == transcript["server"] \o <<Token(Request), Token(reply)>>
               m == ServerFlight(hash)
    <3>1. "ServerHello" \in Kinds /\ 0 \in Nat /\ <<>> \in Seq(Tokens)
      BY EmptySeq DEF Kinds
    <3>2. reply \in Messages
      BY <1>2, <3>1, MessageShape
    <3>3. Token(reply) \in Tokens
      BY <3>2, TokenShape
    <3> HIDE DEF reply
    <3>4. <<Token(Request), Token(reply)>> \in Seq(Tokens) /\ transcript["server"] \in Seq(Tokens)
      BY <1>2, <1>3, <3>3
    <3>5. hash \in Seq(Tokens)
      BY <3>4, ConcatProperties
    <3> HIDE DEF hash
    <3>6. /\ m[1] \in Messages /\ m[2] \in Messages /\ m[3] \in Messages /\ m[4] \in Messages
          /\ \A i \in 1..4 : Token(m[i]) \in Tokens
      BY <3>5, FlightTyped
    <3>7. s \in Secrets
      BY <1>2 DEF Secrets
    <3> HIDE DEF s, m
    <3>8. /\ down' = down \o InTheClear(reply, cut) \o Compatibility
          /\ torn' = (torn \/ cut)
          /\ shared' = [shared EXCEPT !["server"] = s] /\ outKey' = HandshakeKey(s, hash)
          /\ queue' = Units(m[1]) \o Units(m[2]) \o Units(m[3]) \o Units(m[4])
          /\ transcript' = [transcript EXCEPT !["server"] = hash \o [i \in 1..4 |-> Token(m[i])]]
          /\ spc' = "flight"
      BY <2>2 DEF Answer, s, reply, hash, m
    <3>9. queue' \in Seq(AllUnits)
      <4> DEFINE a == Units(m[1])
                 b == Units(m[2])
                 c == Units(m[3])
                 d == Units(m[4])
      <4>1. /\ a \in Seq(AllUnits) /\ b \in Seq(AllUnits) /\ c \in Seq(AllUnits)
            /\ d \in Seq(AllUnits)
        BY <3>6, UnitShape
      <4>2. queue' = ((a \o b) \o c) \o d
        BY <3>8
      <4> HIDE DEF a, b, c, d
      <4> QED
        BY <4>1, <4>2
    <3>10. [i \in 1..4 |-> Token(m[i])] \in Seq(Tokens)
      BY <3>6
    <3>11. hash \o [i \in 1..4 |-> Token(m[i])] \in Seq(Tokens)
      BY <3>5, <3>10, ConcatProperties
    <3>12. outKey' \in Keys
      BY <3>5, <3>7, <3>8, KeyShape
    <3>13. down' \in Seq(AllRecords)
      BY <1>4, <3>2, <3>8
    <3>14. transcript' \in [{"client", "server"} -> Seq(Tokens)]
      BY <1>3, <3>8, <3>11
    <3>15. shared' \in [{"client", "server"} -> Secrets]
      BY <1>3, <3>7, <3>8
    <3> QED
      BY <3>8, <3>9, <3>12, <3>13, <3>14, <3>15
  <2>3. CASE Retry(Request, cut)
    <3> DEFINE group == IF server.retry = "unknown" THEN "P256" ELSE "X25519"
               ask == Message("HelloRetryRequest", group, 0, <<>>)
               hash == <<[Token(Request) EXCEPT !.type = "message_hash"], Token(ask)>>
    <3>1. "HelloRetryRequest" \in Kinds /\ group \in Values /\ 0 \in Nat /\ <<>> \in Seq(Tokens)
      BY EmptySeq DEF Kinds, Values
    <3>2. ask \in Messages
      BY <3>1, MessageShape
    <3>3. Token(ask) \in Tokens
      BY <3>2, TokenShape
    <3> HIDE DEF ask
    <3>4. hash \in Seq(Tokens)
      BY <1>2, <3>3
    <3> HIDE DEF hash
    <3>5. /\ down' = down \o InTheClear(ask, cut) \o Compatibility
          /\ torn' = (torn \/ cut)
          /\ transcript' = [transcript EXCEPT !["server"] = hash]
          /\ spc' = "waitSecondHello" /\ UNCHANGED <<queue, outKey, shared>>
      BY <2>3 DEF Retry, ask, hash
    <3>6. down' \in Seq(AllRecords)
      BY <1>4, <3>2, <3>5
    <3>7. transcript' \in [{"client", "server"} -> Seq(Tokens)]
      BY <1>3, <3>4, <3>5
    <3> QED
      BY <1>3, <3>5, <3>6, <3>7
  <2> QED
    BY <2>1, <2>2, <2>3 DEF AnswersHello
<1>6. Shape'
  BY <1>1, <1>2, <1>5 DEF Typed, Shape, client
<1>7. ClientTyped'
  BY <1>1, TwoParts, Zenon DEF Typed, ClientTyped, client
<1>8. ServerTyped'
  BY <1>1, <1>5, TwoParts DEF Typed, ServerTyped
<1> QED
  BY <1>6, <1>7, <1>8, TwoPartsAfter DEF Typed

(* The server's skipping a ChangeCipherSpec record keeps the shape.        *)
LEMMA ServerSkipShape == ASSUME Typed, ServerSkipChangeCipherSpec PROVE Typed'
<1>1. /\ up # <<>> /\ up' = Tail(up)
      /\ UNCHANGED <<server, conn, client, serving, transcript, shared, down>>
  BY DEF ServerSkipChangeCipherSpec, Received
<1>2. up' \in Seq(Messages)
  BY <1>1, RequestShape DEF Typed
<1>3. Shape'
  BY <1>1, <1>2 DEF Typed, Shape, client, serving
<1>4. ClientTyped'
  BY <1>1, TwoParts, Zenon DEF Typed, ClientTyped, client
<1>5. ServerTyped'
  BY <1>1, TwoParts DEF Typed, ServerTyped, serving
<1> QED
  BY <1>3, <1>4, <1>5, TwoPartsAfter DEF Typed

(* A record the server writes keeps the shape.                             *)
LEMMA WriteShape == ASSUME Typed, NEW k \in 1..Len(queue), ServerWrite(k) PROVE Typed'
<1>1. /\ down' = Append(down, Record(outKey, "handshake", SubSeq(queue, 1, k)))
      /\ queue' = SubSeq(queue, k + 1, Len(queue))
      /\ UNCHANGED <<server, conn, client, issued, sent, updates, transcript, shared, up>>
      /\ outKey' \in {outKey, AppKey(shared["server"], transcript["server"]),
                      [outKey EXCEPT !.generation = outKey.generation + 1]}
      /\ spc' = "waitFinished" \/ spc' = spc
  BY DEF ServerWrite
<1>2. torn' \in BOOLEAN
  BY Zenon DEF ServerWrite
<1>3. queue \in Seq(AllUnits) /\ outKey \in Keys /\ down \in Seq(AllRecords)
      /\ shared["server"] \in Secrets /\ transcript["server"] \in Seq(Tokens)
  BY DEF Typed, Shape
<1>4. SubSeq(queue, 1, k) \in Seq(AllUnits)
  <2>1. 1 \in Nat \ {0} /\ k \in Nat /\ 1 <= k + 1 /\ k <= Len(queue)
    BY <1>3
  <2> QED
    BY <1>3, <2>1, Slice
<1>5. queue' \in Seq(AllUnits)
  <2>1. k + 1 \in Nat \ {0} /\ Len(queue) \in Nat /\ k + 1 <= Len(queue) + 1
        /\ Len(queue) <= Len(queue)
    BY <1>3
  <2> QED
    BY <1>1, <1>3, <2>1, Slice
<1>6. down' \in Seq(AllRecords)
  <2> DEFINE r == Record(outKey, "handshake", SubSeq(queue, 1, k))
  <2>1. "handshake" \in Contents
    BY DEF Contents
  <2>2. r \in AllRecords
    BY <1>3, <1>4, <2>1, RecordShape
  <2> HIDE DEF r
  <2>3. Append(down, r) \in Seq(AllRecords)
    BY <1>3, <2>2
  <2> QED
    BY <1>1, <2>3 DEF r
<1>7. outKey' \in Keys
  <2>1. AppKey(shared["server"], transcript["server"]) \in Keys
    BY <1>3, KeyShape
  <2>2. [outKey EXCEPT !.generation = outKey.generation + 1] \in Keys
    BY <1>3, KeyUpdated
  <2> QED
    BY <1>1, <1>3, <2>1, <2>2
<1>8. Shape'
  BY <1>1, <1>5, <1>6, <1>7 DEF Typed, Shape, client
<1>9. ClientTyped'
  BY <1>1, TwoParts, Zenon DEF Typed, ClientTyped, client
<1>10. ServerTyped'
  BY <1>1, <1>2, TwoParts DEF Typed, ServerTyped
<1> QED
  BY <1>8, <1>9, <1>10, TwoPartsAfter DEF Typed

(* The server's reading the client's Finished keeps the shape.             *)
LEMMA ServerFinishedShape == ASSUME Typed, ServerReadFinished PROVE Typed'
<1>1. /\ up # <<>> /\ up' = Tail(up)
      /\ UNCHANGED <<server, conn, client, queue, outKey, issued, sent, updates, torn, shared>>
      /\ \/ spc' = "open" /\ Hash("server", Request) /\ UNCHANGED down
         \/ /\ spc' = "ended" /\ down' = Append(down, AlertRecord(outKey))
            /\ UNCHANGED transcript
  BY DEF ServerReadFinished, Received
<1>2. Request \in Messages /\ up' \in Seq(Messages)
  BY <1>1, RequestShape DEF Typed
<1>3. transcript' \in [{"client", "server"} -> Seq(Tokens)] /\ down' \in Seq(AllRecords)
  <2>1. down \in Seq(AllRecords) /\ transcript \in [{"client", "server"} -> Seq(Tokens)]
        /\ outKey \in Keys
    BY DEF Typed, Shape
  <2>2. Append(down, AlertRecord(outKey)) \in Seq(AllRecords)
    BY <2>1, CompatibilityShape
  <2>3. Hash("server", Request) => transcript' \in [{"client", "server"} -> Seq(Tokens)]
    BY <1>2, HashShape DEF Typed
  <2> QED
    BY <1>1, <2>1, <2>2, <2>3
<1>4. Shape'
  BY <1>1, <1>2, <1>3 DEF Typed, Shape, client
<1>5. ClientTyped'
  BY <1>1, TwoParts, Zenon DEF Typed, ClientTyped, client
<1>6. ServerTyped'
  BY <1>1, TwoParts DEF Typed, ServerTyped
<1> QED
  BY <1>4, <1>5, <1>6, TwoPartsAfter DEF Typed

(* The tickets of a connection can be counted.                             *)
LEMMA IssuedShape ==
  ASSUME Shape
  PROVE  /\ IsFiniteSet(IssuedHere) /\ Cardinality(IssuedHere) \in Nat
         /\ 10 * conn + Cardinality(IssuedHere) + 1 \in Nat \ {0}
         /\ transcript["server"] \in Seq(Tokens)
<1>1. IsFiniteSet(issued) /\ conn \in Nat /\ transcript["server"] \in Seq(Tokens)
  BY DEF Shape
<1>2. IssuedHere \subseteq issued
  BY DEF IssuedHere, OfThisConn
<1>3. IsFiniteSet(IssuedHere) /\ Cardinality(IssuedHere) \in Nat
  BY <1>1, <1>2, FS_Subset, FS_CardinalityType
<1> QED
  BY <1>1, <1>3

(* Issuing a ticket keeps the shape.                                       *)
LEMMA IssueShape == ASSUME Typed, IssueTicket PROVE Typed'
<1> DEFINE id == 10 * conn + Cardinality(IssuedHere) + 1
           m == Message("NewSessionTicket", "server", id, <<>>)
<1>1. id \in Nat \ {0} /\ transcript["server"] \in Seq(Tokens)
  BY IssuedShape DEF Typed
<1>2. /\ issued' = issued \cup {IssuedTicket(id)} /\ queue' = queue \o Units(m)
      /\ UNCHANGED <<server, conn, client, spc, outKey, sent, updates, torn, transcript,
                     shared, up, down>>
  BY DEF IssueTicket
<1> HIDE DEF id
<1>3. m \in Messages
  <2>1. "NewSessionTicket" \in Kinds /\ "server" \in Values /\ <<>> \in Seq(Tokens)
    BY EmptySeq DEF Kinds, Values
  <2> QED
    BY <1>1, <2>1, MessageShape
<1> HIDE DEF m
<1>4. queue' \in Seq(AllUnits)
  <2>1. queue \in Seq(AllUnits) /\ Units(m) \in Seq(AllUnits)
    BY <1>3, UnitShape DEF Typed, Shape
  <2> QED
    BY <1>2, <2>1, ConcatProperties
<1>5. issued' \in SUBSET Tickets /\ IsFiniteSet(issued') /\ \A t \in issued' : t.id # 0
  <2>1. issued \in SUBSET Tickets /\ IsFiniteSet(issued) /\ \A t \in issued : t.id # 0
    BY DEF Typed, Shape
  <2>2. IssuedTicket(id) \in Tickets /\ IssuedTicket(id).id = id
    BY <1>1 DEF IssuedTicket, Tickets
  <2>3. IsFiniteSet(issued \cup {IssuedTicket(id)})
    BY <2>1, FS_AddElement
  <2> QED
    BY <1>1, <1>2, <2>1, <2>2, <2>3
<1>6. Shape'
  BY <1>2, <1>4, <1>5 DEF Typed, Shape, client
<1>7. ClientTyped'
  BY <1>2, TwoParts, Zenon DEF Typed, ClientTyped, client
<1>8. ServerTyped'
  BY <1>2, TwoParts DEF Typed, ServerTyped
<1> QED
  BY <1>6, <1>7, <1>8, TwoPartsAfter DEF Typed

(* A key update keeps the shape.                                           *)
LEMMA UpdateShape == ASSUME Typed, UpdateKey PROVE Typed'
<1> DEFINE m == Message("KeyUpdate", "server", 0, <<>>)
<1>1. /\ updates < MaxUpdates /\ updates' = updates + 1 /\ queue' = queue \o Units(m)
      /\ UNCHANGED <<server, conn, client, spc, outKey, issued, sent, torn, transcript,
                     shared, up, down>>
  BY DEF UpdateKey
<1>2. m \in Messages
  <2>1. "KeyUpdate" \in Kinds /\ "server" \in Values /\ <<>> \in Seq(Tokens)
    BY EmptySeq DEF Kinds, Values
  <2> QED
    BY <2>1, MessageShape
<1> HIDE DEF m
<1>3. queue' \in Seq(AllUnits)
  <2>1. queue \in Seq(AllUnits) /\ Units(m) \in Seq(AllUnits)
    BY <1>2, UnitShape DEF Typed, Shape
  <2> QED
    BY <1>1, <2>1, ConcatProperties
<1>4. Shape'
  BY <1>1, <1>3 DEF Typed, Shape, client
<1>5. ClientTyped'
  BY <1>1, TwoParts, Zenon DEF Typed, ClientTyped, client
<1>6. updates' \in 0..MaxUpdates
  <2>1. updates \in 0..MaxUpdates /\ MaxUpdates \in Nat
    BY TwoParts, InteropAssumption DEF Typed, ServerTyped
  <2> QED
    BY <1>1, <2>1
<1>7. ServerTyped'
  BY <1>1, <1>6, TwoParts DEF Typed, ServerTyped
<1> QED
  BY <1>4, <1>5, <1>7, TwoPartsAfter DEF Typed

(* Data and close_notify keep the shape.                                   *)
LEMMA DataShape == ASSUME Typed, SendData \/ ServerClose PROVE Typed'
<1> DEFINE data == Record(outKey, "data", <<>>)
<1>1. /\ \/ down' = Append(down, data) /\ sent < MaxData /\ sent' = sent + 1 /\ UNCHANGED spc
         \/ down' = Append(down, AlertRecord(outKey)) /\ spc' = "ended" /\ UNCHANGED sent
      /\ UNCHANGED <<server, conn, client, queue, outKey, issued, updates, torn,
                     transcript, shared, up>>
  BY DEF SendData, ServerClose
<1>2. down \in Seq(AllRecords) /\ outKey \in Keys
  BY DEF Typed, Shape
<1>3. data \in AllRecords
  <2>1. "data" \in Contents /\ <<>> \in Seq(AllUnits)
    BY EmptySeq DEF Contents
  <2> QED
    BY <1>2, <2>1, RecordShape
<1> HIDE DEF data
<1>4. AlertRecord(outKey) \in AllRecords
  BY <1>2, CompatibilityShape
<1>5. down' \in Seq(AllRecords)
  BY <1>1, <1>2, <1>3, <1>4
<1>6. Shape'
  BY <1>1, <1>5 DEF Typed, Shape, client
<1>7. ClientTyped'
  BY <1>1, TwoParts, Zenon DEF Typed, ClientTyped, client
<1>8. sent' \in 0..MaxData
  <2>1. sent \in 0..MaxData /\ MaxData \in Nat
    BY TwoParts, InteropAssumption DEF Typed, ServerTyped
  <2> QED
    BY <1>1, <2>1
<1>9. ServerTyped'
  BY <1>1, <1>8, TwoParts DEF Typed, ServerTyped
<1> QED
  BY <1>6, <1>7, <1>9, TwoPartsAfter DEF Typed

(* The next connection starts in shape.                                    *)
LEMMA RedialShape == ASSUME Typed, Redial PROVE Typed'
<1>1. Fresh \in [{"client", "server"} -> Seq(Tokens)]
  BY DEF Fresh
<1>2. NoSecrets \in [{"client", "server"} -> Secrets]
  BY NoKeyShape DEF NoSecrets
<1>3. conn' \in 1..MaxConns /\ conn' \in Nat
  <2>1. conn \in 1..MaxConns /\ MaxConns \in Nat
    BY TwoParts, InteropAssumption DEF Typed, ServerTyped
  <2>2. conn < MaxConns /\ conn' = conn + 1
    BY Zenon DEF Redial
  <2> QED
    BY <2>1, <2>2
<1>4. ServerTyped'
  <2>1. server \in Server
    BY TwoParts DEF Typed, ServerTyped
  <2>2. 0 \in 0..MaxUpdates /\ 0 \in 0..MaxData
    BY InteropAssumption
  <2>3. server' = server /\ spc' = "waitHello" /\ sent' = 0 /\ updates' = 0 /\ torn' = FALSE
    BY DEF Redial
  <2> QED
    BY <1>3, <2>1, <2>2, <2>3 DEF ServerTyped
<1>5. ClientTyped'
  <2>1. [g \in Groups |-> 0] \in [Groups -> 0..2]
    OBVIOUS
  <2>2. /\ cpc' = "sendHello" /\ why' = None /\ requested' = None /\ km' = [g \in Groups |-> 0]
    BY DEF Redial
  <2> QED
    BY <2>1, <2>2 DEF ClientTyped
<1>6. Shape'
  <2>1. cache' \in Seq([id : Nat, hash : {<<>>}]) /\ issued' \in SUBSET Tickets
        /\ IsFiniteSet(issued') /\ \A t \in issued' : t.id # 0
    BY DEF Typed, Shape, Redial
  <2>2. /\ hsBuf' = <<>> /\ queue' = <<>> /\ got' = <<>> /\ up' = <<>> /\ down' = <<>>
        /\ inKey' = NoKey /\ outKey' = NoKey /\ offer' = NoTicket
        /\ transcript' = Fresh /\ shared' = NoSecrets /\ hellos' = 0
    BY DEF Redial
  <2>3. /\ hsBuf' \in Seq(AllUnits) /\ queue' \in Seq(AllUnits) /\ got' \in Seq(Nat)
        /\ up' \in Seq(Messages) /\ down' \in Seq(AllRecords)
    BY <2>2, EmptySeq
  <2>4. inKey' \in Keys /\ outKey' \in Keys /\ offer' \in Tickets
    BY <2>2, NoKeyShape, TicketShape
  <2> QED
    BY <1>1, <1>2, <1>3, <2>1, <2>2, <2>3, <2>4 DEF Shape
<1> QED
  BY <1>4, <1>5, <1>6, TwoPartsAfter DEF Typed

(* A step that changes nothing keeps the shape.                            *)
LEMMA UnchangedShape == ASSUME Typed, UNCHANGED vars PROVE Typed'
<1>1. UNCHANGED <<server, conn, client, serving, transcript, shared, up, down>>
  BY DEF vars
<1>2. Shape'
  BY <1>1 DEF Typed, Shape, client, serving
<1>3. ClientTyped'
  BY <1>1, TwoParts, Zenon DEF Typed, ClientTyped, client
<1>4. ServerTyped'
  BY <1>1, TwoParts DEF Typed, ServerTyped, serving
<1> QED
  BY <1>2, <1>3, <1>4, TwoPartsAfter DEF Typed

(* After a hello that was cut the client skips ChangeCipherSpec records    *)
(* until it meets a part of the hello.                                     *)
LEMMA CutShortRead ==
  ASSUME Shape, CutShort, ClientStep
  PROVE  SkipChangeCipherSpec \/ ReadHelloPart
<1>1. cpc = "readServerHello" /\ cpc \notin FlightLabels
  BY DEF CutShort, FlightLabels
<1>2. Pending => Next1.type = "ccs" \/ HelloPart(Next1)
  <2> SUFFICES ASSUME Pending PROVE Next1.type = "ccs" \/ HelloPart(Next1)
    OBVIOUS
  <2>1. Len(down) \in Nat /\ down[1] = Next1
    BY Taken DEF Shape, Pending, Next1
  <2>2. PICK i \in 1..Len(down) :
          HelloPart(down[i]) /\ \A j \in 1 .. i - 1 : down[j].type = "ccs"
    BY DEF CutShort
  <2>3. i = 1 \/ 1 \in 1 .. i - 1
    BY <2>1, <2>2
  <2> QED
    BY <2>1, <2>2, <2>3
<1>3. ~ReadHelloRetry /\ ~ReadServerHello
  <2>1. ASSUME NEW type, IsHello(type) PROVE FALSE
    BY <1>2, <2>1 DEF IsHello, HelloPart
  <2> QED
    BY <2>1 DEF ReadHelloRetry, ReadServerHello
<1>4. ~Refuse
  <2>1. Refuse => Pending /\ RecordError # None
    BY DEF Refuse, Reading
  <2>2. Pending => RecordError = None
    BY <1>1, <1>2 DEF RecordError, HelloPart
  <2> QED
    BY <2>1, <2>2
<1>5. ~SendHello /\ ~SendSecondHello /\ ~FillBuffer /\ ~ReadMessage /\ ~SendFinished
  BY <1>1 DEF SendHello, SendSecondHello, FillBuffer, ReadMessage, SendFinished
<1>6. ~ReadData /\ ~ReadTickets /\ ~ReadFails /\ ~ReadCloseNotify
  BY <1>1 DEF ReadData, ReadTickets, ReadFails, ReadCloseNotify, Opened
<1> QED
  BY <1>3, <1>4, <1>5, <1>6, Zenon DEF ClientStep

(* Every step keeps the shape, in the course of the conversation.          *)
LEMMA TypedStep == Typed /\ (Course \/ CutShort) /\ [Next]_vars => Typed'
<1> SUFFICES ASSUME Typed, Course \/ CutShort, [Next]_vars PROVE Typed'
  OBVIOUS
<1>1. CASE ClientStep
  <2>1. CASE ReadStep
    BY <2>1, ReadShape
  <2>2. CASE CutShort
    <3>1. Shape
      BY DEF Typed
    <3> QED
      BY <1>1, <2>2, <3>1, CutShortRead, SkipShape, ReadHelloPartShape
  <2>3. CASE Course
    BY <1>1, <2>1, <2>3, SendHelloShape, SendSecondHelloShape, SkipShape, ReadHelloRetryShape,
       ReadHelloPartShape, ReadServerHelloShape, FillShape, ReadMessageShape, RefuseShape,
       SendFinishedShape, Zenon DEF ClientStep, ReadStep
  <2> QED
    BY <2>2, <2>3
<1>2. CASE ServerStep
  <2>1. CASE \E k \in 1..Len(queue) : ServerWrite(k)
    BY <2>1, WriteShape
  <2>2. ASSUME NEW cut \in BOOLEAN, ServerReadHello(cut) \/ ServerReadSecondHello(cut)
        PROVE  Typed'
    BY <2>2, HelloAnswered, AnswerShape
  <2> QED
    BY <1>2, <2>1, <2>2, ServerSkipShape, ServerFinishedShape, Zenon DEF ServerStep
<1>3. CASE ServerChoice
  BY <1>3, IssueShape, UpdateShape, DataShape, Zenon DEF ServerChoice
<1>4. CASE Redial
  BY <1>4, RedialShape
<1>5. CASE Terminated \/ UNCHANGED vars
  BY <1>5, UnchangedShape DEF Terminated
<1> QED
  BY <1>1, <1>2, <1>3, <1>4, <1>5 DEF Next

---------------------------------------------------------------------------
(* The course of the client's handshake *)

(* A step that leaves the server alone leaves it idle.                     *)
LEMMA IdleKept == ASSUME Idle, UNCHANGED serving PROVE Idle'
  BY DEF Idle, serving

(* Only ChangeCipherSpec records stay at a place; the first other one is   *)
(* the ServerHello; after it the flight comes in order, then what is sent  *)
(* under an application key.                                               *)
LEMMA Way ==
  ASSUME NEW retry, NEW r, NEW a \in 0..9, NEW b \in 0..9, Moves(retry, r, a, b)
  PROVE  /\ r.type = "ccs" => a = b
         /\ a = 0 /\ r.type # "ccs" =>
              b = 1 /\ r = Record(NoKey, "handshake", Units(Reply(retry)))
         /\ a \in 1..8 /\ r.type # "ccs" =>
              /\ a < b
              /\ r = Record(FlightKey(retry), "handshake", SubSeq(FlightUnits(retry), a, b - 1))
         /\ a = 9 => b = 9
         /\ a = 9 => r.type \in {"data", "handshake", "alert"} /\ Protected(r)
<1>1. /\ Record(NoKey, "handshake", Units(Reply(retry))).type = "handshake"
      /\ Record(FlightKey(retry), "handshake", SubSeq(FlightUnits(retry), a, b - 1)).type
           = "handshake"
  BY DEF Record
<1> HIDE DEF Record
<1> QED
  BY <1>1 DEF Moves

(* The client's first hello is under way.                                  *)
LEMMA SendHelloCourse == ASSUME Typed, Course, SendHello PROVE AwaitFirst'
<1> DEFINE ticket == IF cache = <<>> THEN NoTicket ELSE Last(cache)
           hello == Hello(1, "SM2", ticket)
<1>1. Starting
  BY Phase DEF SendHello
<1>2. /\ offer' = ticket /\ up' = Append(up, hello) /\ Hash("client", hello)
      /\ km' = [km EXCEPT !["SM2"] = 1] /\ hellos' = 1 /\ cpc' = "readServerHello"
      /\ UNCHANGED <<server, hsBuf, serving, down>>
  BY DEF SendHello, Goto, ticket, hello
<1>3. hello = Hello(1, "SM2", offer')
  BY <1>2
<1>4. Token(hello) = FirstHello
  BY DEF hello, Hello, Message, Token, FirstHello, Hashing
<1> HIDE DEF hello, ticket
<1>5. km'["SM2"] = 1
  <2>1. km \in [Groups -> 0..2] /\ "SM2" \in Groups
    BY TwoParts, Zenon DEF Typed, ClientTyped, Groups
  <2> QED
    BY <1>2, <2>1
<1>6. up' = <<hello>> /\ down' = <<>>
  BY <1>1, <1>2 DEF Starting
<1>7. transcript'["client"] = <<FirstHello>> /\ transcript'["server"] = <<>>
  <2>1. transcript = Fresh
    BY <1>1 DEF Starting
  <2>2. transcript' = [transcript EXCEPT !["client"] = Append(transcript["client"], FirstHello)]
    BY <1>2, <1>4 DEF Hash
  <2>3. Append(<<>>, FirstHello) = <<FirstHello>>
    OBVIOUS
  <2> QED
    BY <2>1, <2>2, <2>3 DEF Fresh
<1> QED
  BY <1>1, <1>2, <1>3, <1>5, <1>6, <1>7 DEF AwaitFirst, Starting, serving

(* The client's second hello is under way, or the handshake has failed:    *)
(* the client does not have the group asked for.                           *)
LEMMA SecondHelloCourse == ASSUME Typed, Course, SendSecondHello PROVE AwaitSecond' \/ Over'
<1> DEFINE hello == Hello(hellos + 1, requested, offer)
           retry == server.retry
<1>1. Retried
  BY Phase DEF SendSecondHello
<1>2. hellos = 1 /\ retry # "no" /\ requested = RetryGroup(retry) /\ hellos + 1 = 2
  BY <1>1 DEF Retried
<1>3. up = <<>> /\ down \in {<<>>, <<Skipped>>} /\ spc = "waitSecondHello" /\ hsBuf = <<>>
      /\ transcript = [p \in {"client", "server"} |-> Restart(retry)]
  BY <1>1 DEF Retried
<1>4. CASE requested \in Groups
  <2>1. requested = "X25519" /\ retry \notin {"no", "unknown"}
    BY <1>2, <1>4 DEF RetryGroup, Groups
  <2>2. /\ up' = up \o <<ChangeCipherSpec, hello>> /\ Hash("client", hello)
        /\ km' = [km EXCEPT ![requested] = hellos + 1] /\ hellos' = hellos + 1
        /\ cpc' = "readServerHello"
        /\ UNCHANGED <<server, hsBuf, offer, serving, down>>
    BY <1>4 DEF SendSecondHello, Goto, hello
  <2>3. hello = Hello(2, "X25519", offer')
    BY <1>2, <2>1, <2>2
  <2>4. Token(hello) = SecondHello
    BY <1>2, <2>1 DEF hello, Hello, Message, Token, SecondHello, Hashing
  <2> HIDE DEF hello
  <2>5. km'["X25519"] = 2
    <3>1. km \in [Groups -> 0..2] /\ "X25519" \in Groups
      BY TwoParts, Zenon DEF Typed, ClientTyped, Groups
    <3> QED
      BY <1>2, <2>1, <2>2, <3>1
  <2>6. up' = <<ChangeCipherSpec, hello>>
    BY <1>3, <2>2
  <2>7. transcript'["client"] = Hellos(retry) /\ transcript'["server"] = Restart(retry)
    BY <1>2, <1>3, <2>2, <2>4 DEF Hash, Hellos
  <2>8. AwaitSecond'
    BY <1>2, <1>3, <2>1, <2>2, <2>3, <2>5, <2>6, <2>7 DEF AwaitSecond, serving
  <2> QED
    BY <2>8
<1>5. CASE requested \notin Groups
  <2>1. retry = "unknown"
    BY <1>2, <1>5 DEF RetryGroup, Groups
  <2>2. cpc' = "failed" /\ hellos' = hellos /\ server' = server
    BY <1>5 DEF SendSecondHello, Goto
  <2> QED
    BY <1>2, <2>1, <2>2 DEF Over, Ended, Explained, Unsupported
<1> QED
  BY <1>4, <1>5

(* Reading a record the stream leads on with.                              *)
LEMMA LeadsOn ==
  ASSUME Shape, Answered, Pending, NEW p \in Nat, Leads(server.retry, down, p, ServerPlace)
  PROVE  /\ p \in 0..ServerPlace /\ p \in 0..9
         /\ \E q \in 0..9 : /\ q <= ServerPlace /\ Moves(server.retry, Next1, p, q)
                            /\ Leads(server.retry, Tail(down), q, ServerPlace)
<1>1. ServerPlace \in 1..9
  BY PlaceShape
<1>2. down \in Seq(AllRecords) /\ down # <<>> /\ ServerPlace \in Nat
  BY <1>1 DEF Shape, Pending
<1> DEFINE e == ServerPlace
<1>3. e \in Nat /\ e \in 1..9 /\ Leads(server.retry, down, p, e)
  BY <1>1
<1> HIDE DEF e
<1>4. p \in 0..e /\ \E q \in 0..e : /\ Moves(server.retry, Head(down), p, q)
                                    /\ Leads(server.retry, Tail(down), q, e)
  BY <1>2, <1>3, LeadsTail
<1>5. \A q \in 0..e : q \in 0..9 /\ q <= e
  BY <1>3
<1> QED
  BY <1>4, <1>5 DEF Next1, e

(* What the client does leaves the server where it is.                     *)
LEMMA AnsweredKept ==
  ASSUME Answered, server' = server, UNCHANGED serving,
         transcript'["server"] = transcript["server"], shared'["server"] = shared["server"]
  PROVE  Answered' /\ ServerPlace' = ServerPlace
<1>1. spc' = spc /\ queue' = queue /\ outKey' = outKey
  BY DEF serving
<1>2. ServerPlace' = ServerPlace
  BY <1>1 DEF ServerPlace
<1>3. Answered'
  BY <1>1 DEF Answered
<1> QED
  BY <1>2, <1>3

(* A skipped ChangeCipherSpec record leads nowhere.                        *)
LEMMA SkipCourse == ASSUME Typed, Course, SkipChangeCipherSpec PROVE Course'
<1> DEFINE retry == server.retry
<1>1. /\ cpc \in HandshakeReads /\ Pending /\ Next1.type = "ccs" /\ down' = Tail(down)
      /\ server' = server /\ UNCHANGED <<client, serving>>
      /\ UNCHANGED <<transcript, shared, up>>
  BY DEF SkipChangeCipherSpec, Reading
<1>2. /\ cpc' = cpc /\ hellos' = hellos /\ hsBuf' = hsBuf /\ km' = km /\ offer' = offer
      /\ inKey' = inKey /\ spc' = spc /\ queue' = queue
  BY <1>1 DEF client, serving
<1>3. Idle'
  BY <1>1, IdleKept DEF Course
<1>4. /\ Head(<<Asks(retry)>>) = Asks(retry) /\ Head(<<Asks(retry), Skipped>>) = Asks(retry)
      /\ Head(<<Skipped, Asks(retry)>>) = Skipped
      /\ Tail(<<Skipped, Asks(retry)>>) = <<Asks(retry)>>
      /\ Tail(<<Skipped>>) = <<>>
      /\ Head(Append(<<>>, AlertRecord(NoKey))) = AlertRecord(NoKey)
      /\ Tail(Append(<<Skipped>>, AlertRecord(NoKey))) = Append(<<>>, AlertRecord(NoKey))
  <2> DEFINE a == AlertRecord(NoKey)
             h == Asks(retry)
             s == Skipped
  <2> HIDE DEF a, h, s
  <2>1. /\ Head(<<h>>) = h /\ Head(<<h, s>>) = h /\ Head(<<s, h>>) = s /\ Tail(<<s>>) = <<>>
        /\ Head(Append(<<>>, a)) = a
    OBVIOUS
  <2>2. Tail(<<s, h>>) = <<h>>
    OBVIOUS
  <2>3. Tail(Append(<<s>>, a)) = Append(<<>>, a)
    <3>1. Append(<<s>>, a) = <<s, a>> /\ Append(<<>>, a) = <<a>>
      <4> DEFINE S == {s, a}
      <4>1. s \in S /\ a \in S
        OBVIOUS
      <4> HIDE DEF S
      <4> QED
        BY <4>1, Tuples
    <3>2. Tail(<<s, a>>) = <<a>>
      OBVIOUS
    <3> QED
      BY <3>1, <3>2, Zenon
  <2> QED
    BY <2>1, <2>2, <2>3 DEF a, h, s
<1>5. Asks(retry).type = "handshake" /\ AlertRecord(NoKey).type = "alert"
  BY DEF Asks, AlertRecord, Record
<1>6. down # <<>> /\ Next1 = Head(down)
  BY <1>1 DEF Pending, Next1
<1>7. ASSUME NEW p \in Nat, Answered, Leads(retry, down, p, ServerPlace)
      PROVE  Answered' /\ Leads(server'.retry, down', p, ServerPlace')
  <2>1. PICK q \in 0..9 : Moves(retry, Next1, p, q) /\ Leads(retry, Tail(down), q, ServerPlace)
        /\ p \in 0..9
    BY <1>1, <1>7, LeadsOn DEF Typed
  <2>2. p = q
    BY <1>1, <2>1, Way
  <2>3. Answered' /\ ServerPlace' = ServerPlace
    BY <1>1, <1>7, AnsweredKept
  <2> QED
    BY <1>1, <2>1, <2>2, <2>3
<1>8. CASE cpc = "readServerHello"
  <2>1. CASE AwaitFirst
    <3>1. Asked => Head(down) = Asks(retry)
      BY <1>4 DEF Asked
    <3>2. Refused({<<>>}) => Head(down) = AlertRecord(NoKey)
      BY <1>4 DEF Refused
    <3>3. retry = "no" /\ Serves /\ Leads(retry, down, 0, ServerPlace)
      BY <1>1, <1>5, <1>6, <2>1, <3>1, <3>2 DEF AwaitFirst
    <3>4. Answered' /\ Leads(server'.retry, down', 0, ServerPlace')
      BY <1>7, <3>3 DEF Serves
    <3>5. Serves'
      BY <1>1, <1>2, <3>3, <3>4 DEF Serves
    <3>6. AwaitFirst'
      BY <1>1, <1>2, <2>1, <3>3, <3>4, <3>5 DEF AwaitFirst
    <3> QED
      BY <1>3, <3>6 DEF Course
  <2>2. CASE AwaitSecond
    <3>1. CASE down \in {<<>>, <<Skipped>>}
      <4>1. down' = <<>>
        BY <1>1, <1>4, <1>6, <3>1
      <4>2. \/ /\ up \in {<<ChangeCipherSpec, Hello(2, "X25519", offer)>>,
                          <<Hello(2, "X25519", offer)>>}
               /\ spc = "waitSecondHello" /\ transcript["server"] = Restart(retry)
            \/ retry = "X25519" /\ Serves /\ Leads(retry, down, 0, ServerPlace)
        <5>1. <<Skipped>> # Append(<<>>, AlertRecord(NoKey))
              /\ <<Skipped>> # Append(<<Skipped>>, AlertRecord(NoKey))
              /\ <<Skipped>> # <<Asks(retry)>> /\ <<Skipped>> # <<Skipped, Asks(retry)>>
          <6>1. Len(<<Skipped>>) = 1 /\ Len(Append(<<Skipped>>, AlertRecord(NoKey))) = 2
                /\ Len(<<Skipped, Asks(retry)>>) = 2
            OBVIOUS
          <6>2. Head(<<Skipped>>) = Skipped
            OBVIOUS
          <6>3. Skipped.type = "ccs"
            BY CompatibilityShape
          <6> QED
            BY <1>4, <1>5, <6>1, <6>2, <6>3
        <5>2. ~Refused({<<>>, <<Skipped>>})
          BY <1>6, <3>1, <5>1 DEF Refused
        <5> QED
          BY <1>6, <2>2, <3>1, <5>1, <5>2 DEF AwaitSecond
      <4>3. CASE /\ up \in {<<ChangeCipherSpec, Hello(2, "X25519", offer)>>,
                            <<Hello(2, "X25519", offer)>>}
                 /\ spc = "waitSecondHello" /\ transcript["server"] = Restart(retry)
        <5>1. AwaitSecond'
          BY <1>1, <1>2, <2>2, <4>1, <4>3 DEF AwaitSecond
        <5> QED
          BY <1>3, <5>1 DEF Course
      <4>4. CASE retry = "X25519" /\ Serves /\ Leads(retry, down, 0, ServerPlace)
        <5>1. Answered' /\ Leads(server'.retry, down', 0, ServerPlace')
          BY <1>7, <4>4 DEF Serves
        <5>2. Serves'
          BY <1>1, <1>2, <4>4, <5>1 DEF Serves
        <5>3. AwaitSecond'
          BY <1>1, <1>2, <2>2, <4>4, <5>1, <5>2 DEF AwaitSecond
        <5> QED
          BY <1>3, <5>3 DEF Course
      <4> QED
        BY <4>2, <4>3, <4>4
    <3>2. CASE /\ retry = "twice" /\ up = <<>> /\ spc = "waitSecondHello"
               /\ down \in {<<Asks(retry)>>, <<Skipped, Asks(retry)>>}
      <4>1. down = <<Skipped, Asks(retry)>>
        BY <1>1, <1>4, <1>5, <1>6, <3>2
      <4>2. down' = <<Asks(retry)>>
        BY <1>1, <1>4, <4>1
      <4>3. AwaitSecond'
        BY <1>1, <1>2, <2>2, <3>2, <4>2 DEF AwaitSecond
      <4> QED
        BY <1>3, <4>3 DEF Course
    <3>3. CASE Refused({<<>>, <<Skipped>>})
      <4>1. down = Append(<<Skipped>>, AlertRecord(NoKey))
        BY <1>1, <1>4, <1>5, <1>6, <3>3 DEF Refused
      <4>2. down' = Append(<<>>, AlertRecord(NoKey))
        BY <1>1, <1>4, <4>1
      <4>3. Refused({<<>>, <<Skipped>>})'
        BY <1>1, <1>2, <3>3, <4>2 DEF Refused, Explained, Unsupported, serving
      <4>4. AwaitSecond'
        BY <1>1, <1>2, <2>2, <4>3 DEF AwaitSecond
      <4> QED
        BY <1>3, <4>4 DEF Course
    <3>4. CASE retry = "X25519" /\ Serves /\ Leads(retry, down, 0, ServerPlace)
      <4>1. Answered' /\ Leads(server'.retry, down', 0, ServerPlace')
        BY <1>7, <3>4 DEF Serves
      <4>2. Serves'
        BY <1>1, <1>2, <3>4, <4>1 DEF Serves
      <4>3. AwaitSecond'
        BY <1>1, <1>2, <2>2, <3>4, <4>1, <4>2 DEF AwaitSecond
      <4> QED
        BY <1>3, <4>3 DEF Course
    <3> QED
      BY <2>2, <3>1, <3>2, <3>3, <3>4 DEF AwaitSecond
  <2> QED
    BY <1>8, <2>1, <2>2, Phase
<1>9. CASE cpc \in FlightLabels
  <2> DEFINE c == MessagesRead[cpc]
             p == ClientPlace(c)
  <2>1. InFlight
    BY <1>9, Phase
  <2>2. Answered /\ Leads(retry, down, p, ServerPlace)
    BY <2>1 DEF InFlight, Serves
  <2>3. p \in Nat
    <3>1. c \in Nat
      BY <1>9 DEF MessagesRead, FlightLabels
    <3>2. Len(hsBuf) \in Nat
      BY DEF Typed, Shape
    <3> HIDE DEF c
    <3> QED
      BY <3>1, <3>2 DEF ClientPlace
  <2>4. p' = p /\ c' = c
    BY <1>2 DEF ClientPlace
  <2> HIDE DEF p
  <2>5. Answered' /\ Leads(server'.retry, down', p, ServerPlace')
    BY <1>7, <2>2, <2>3
  <2>6. Serves'
    BY <1>1, <1>2, <2>1, <2>5 DEF Serves, InFlight
  <2>7. InFlight'
    BY <1>1, <1>2, <2>1, <2>4, <2>5, <2>6 DEF InFlight, p
  <2> QED
    BY <1>3, <2>7 DEF Course
<1> QED
  BY <1>1, <1>8, <1>9 DEF HandshakeReads

(* A first HelloRetryRequest sends the client round once; a second one     *)
(* ends the handshake, with a server that asks twice.                      *)
LEMMA HelloRetryCourse == ASSUME Typed, Course, ReadHelloRetry PROVE Course'
<1> DEFINE retry == server.retry
           start == AfterRetry(Last(transcript["client"]), RetryMessage(retry))
<1>1. IsHello("HelloRetryRequest") /\ Pending /\ cpc = "readServerHello"
  BY Zenon DEF ReadHelloRetry, IsHello
<1>2. /\ Next1.units[1].msg = RetryMessage(retry)
      /\ (AwaitFirst /\ Asked) \/ (AwaitSecond /\ retry = "twice")
      /\ AwaitFirst => start = Restart(retry)
  BY <1>1, RetryRead DEF Typed
<1>3. /\ down' = Tail(down) /\ requested' = Next1.units[1].msg.val
      /\ transcript' = [transcript EXCEPT !["client"] =
                          AfterRetry(Last(transcript["client"]), Next1.units[1].msg)]
      /\ hellos = 1 => cpc' = "sendSecondHello"
      /\ hellos # 1 => cpc' = "failed"
      /\ server' = server /\ hellos' = hellos /\ hsBuf' = hsBuf /\ offer' = offer /\ up' = up
      /\ UNCHANGED serving
  BY Zenon DEF ReadHelloRetry, Goto
<1>4. transcript' = [transcript EXCEPT !["client"] = start]
  BY <1>2, <1>3
<1>5. requested' = RetryGroup(retry)
  BY <1>2, <1>3 DEF RetryMessage, Message
<1> HIDE DEF start
<1>6. Idle'
  BY <1>3, IdleKept DEF Course
<1>7. CASE AwaitFirst /\ Asked
  <2>1. /\ hellos = 1 /\ hsBuf = <<>> /\ start = Restart(retry) /\ up = <<>> /\ retry # "no"
        /\ spc = "waitSecondHello" /\ transcript["server"] = Restart(retry)
    BY <1>2, <1>7 DEF AwaitFirst, Asked
  <2>2. down' \in {<<>>, <<Skipped>>}
    <3>1. Tail(<<Asks(retry)>>) = <<>> /\ Tail(<<Asks(retry), Skipped>>) = <<Skipped>>
      OBVIOUS
    <3> QED
      BY <1>3, <1>7, <3>1 DEF Asked
  <2>3. transcript' = [p \in {"client", "server"} |-> Restart(retry)]
    <3>1. transcript \in [{"client", "server"} -> Seq(Tokens)]
      BY DEF Typed, Shape
    <3> QED
      BY <1>4, <2>1, <3>1
  <2>4. Retried'
    BY <1>3, <1>5, <2>1, <2>2, <2>3 DEF Retried, serving
  <2> QED
    BY <1>6, <2>4 DEF Course
<1>8. CASE AwaitSecond /\ retry = "twice"
  <2>1. hellos = 2
    BY <1>8 DEF AwaitSecond
  <2>2. Over'
    BY <1>3, <1>8, <2>1 DEF Over, Explained, Unsupported, Ended
  <2> QED
    BY <1>6, <2>2 DEF Course
<1> QED
  BY <1>2, <1>7, <1>8

(* With the ServerHello the client has the server's secret and its key.    *)
LEMMA ServerHelloCourse == ASSUME Typed, Course, ReadServerHello PROVE Course'
<1> DEFINE retry == server.retry
           hello == Reply(retry)
<1>1. IsHello("ServerHello") /\ Pending
  BY Zenon DEF ReadServerHello, IsHello
<1>2. /\ Next1.units[1].msg = hello /\ hello.val = Share(retry) /\ hello \in Messages
      /\ Serves /\ Leads(retry, Tail(down), 1, ServerPlace)
      /\ (AwaitFirst /\ retry = "no") \/ (AwaitSecond /\ retry = "X25519")
  BY <1>1, ReplyRead DEF Typed
<1>3. /\ down' = Tail(down) /\ Hash("client", Next1.units[1].msg)
      /\ shared' = [shared EXCEPT !["client"] = ClientSecret(Next1.units[1].msg.val)]
      /\ inKey' = HandshakeKey(ClientSecret(Next1.units[1].msg.val), transcript'["client"])
      /\ cpc' = "readEncryptedExtensions"
      /\ server' = server /\ hellos' = hellos /\ hsBuf' = hsBuf /\ up' = up /\ UNCHANGED serving
  BY Zenon DEF ReadServerHello, Goto
<1>4. Hash("client", hello) /\ shared' = [shared EXCEPT !["client"] = ClientSecret(Share(retry))]
      /\ inKey' = HandshakeKey(ClientSecret(Share(retry)), transcript'["client"])
  BY <1>2, <1>3
<1>5. Idle'
  BY <1>3, IdleKept DEF Course
<1>6. /\ hellos <= 2 /\ hsBuf = <<>> /\ transcript["client"] = Hellos(retry)
      /\ ClientSecret(Share(retry)) = Secret(retry)
  <2>1. CASE AwaitFirst /\ retry = "no"
    BY <2>1 DEF AwaitFirst, Hellos, ClientSecret, Secret, Share, Private
  <2>2. CASE AwaitSecond /\ retry = "X25519"
    BY <2>2 DEF AwaitSecond, ClientSecret, Secret, Share, Private
  <2> QED
    BY <1>2, <2>1, <2>2
<1> HIDE DEF hello
<1>7. transcript'["client"] = Greeting(retry) /\ transcript'["server"] = transcript["server"]
  <2>1. transcript'["client"] = Append(transcript["client"], Token(hello))
        /\ transcript'["server"] = transcript["server"]
    BY <1>2, <1>4, HashShape DEF Typed
  <2> QED
    BY <1>6, <2>1 DEF Greeting, hello
<1>8. shared'["client"] = Secret(retry) /\ shared'["server"] = shared["server"]
  <2>1. shared \in [{"client", "server"} -> Secrets]
    BY DEF Typed, Shape
  <2> QED
    BY <1>4, <1>6, <2>1
<1>9. inKey' = FlightKey(retry)
  BY <1>4, <1>6, <1>7 DEF FlightKey
<1>10. Answered' /\ ServerPlace' = ServerPlace
  BY <1>2, <1>3, <1>7, <1>8, AnsweredKept DEF Serves
<1>11. Serves'
  BY <1>2, <1>3, <1>10 DEF Serves, serving
<1>12. MessagesRead[cpc'] = 0 /\ cpc' \in FlightLabels
  BY <1>3 DEF MessagesRead, FlightLabels
<1>13. ClientPlace(0)' = 1 /\ hsBuf' = <<>> /\ Len(hsBuf') = 0
  BY <1>3, <1>6 DEF ClientPlace
<1>14. Hashed(retry, 0) = Greeting(retry)
  BY HashedShape
<1>15. SubSeq(FlightUnits(retry), 1, 0) = <<>>
  <2> DEFINE f == FlightUnits(retry)
  <2>1. f \in Seq(AllUnits)
    BY FlightShape
  <2> HIDE DEF f
  <2>2. SubSeq(f, 1, 0) = <<>>
    BY <2>1
  <2> QED
    BY <2>2 DEF f
<1>16. InFlight'
  <2>1. /\ cpc' \in FlightLabels /\ hellos' <= 2 /\ Serves'
        /\ transcript'["client"] = Hashed(retry, 0) /\ shared'["client"] = Secret(retry)
        /\ inKey' = FlightKey(retry) /\ server' = server
    BY <1>3, <1>6, <1>7, <1>8, <1>9, <1>11, <1>12, <1>14
  <2>2. /\ 2 * 0 + Len(hsBuf') <= 8 /\ 2 * 0 + 1 = 1 /\ 2 * 0 + Len(hsBuf') = 0
    BY <1>13
  <2>3. hsBuf' = SubSeq(FlightUnits(retry), 2 * 0 + 1, 2 * 0 + Len(hsBuf'))
    BY <1>13, <1>15, <2>2
  <2>4. Leads(retry, down', ClientPlace(0)', ServerPlace')
    BY <1>2, <1>3, <1>10, <1>13
  <2> QED
    BY <1>12, <2>1, <2>2, <2>3, <2>4 DEF InFlight, ClientPlace
<1> QED
  BY <1>5, <1>16 DEF Course

(* A record of the flight comes in.                                        *)
LEMMA FillCourse == ASSUME Typed, Course, FillBuffer PROVE Course'
<1> DEFINE retry == server.retry
           c == MessagesRead[cpc]
           a == ClientPlace(c)
           f == FlightUnits(retry)
<1>1. /\ cpc \in FlightLabels /\ Pending /\ Len(hsBuf) < 2 /\ Next1.type = "handshake"
      /\ Next1.key = inKey /\ hsBuf' = hsBuf \o Next1.units /\ down' = Tail(down)
      /\ server' = server /\ cpc' = cpc /\ hellos' = hellos /\ inKey' = inKey /\ up' = up
      /\ UNCHANGED <<serving, transcript, shared>>
  <2>1. Len(hsBuf) \in Nat
    BY DEF Typed, Shape
  <2> QED
    BY <2>1 DEF FillBuffer, Reading, Complete
<1>2. InFlight
  BY <1>1, Phase
<1>3. /\ Answered /\ Leads(retry, down, a, ServerPlace) /\ Serves /\ inKey = FlightKey(retry)
      /\ hsBuf = SubSeq(f, 2 * c + 1, 2 * c + Len(hsBuf)) /\ 2 * c + Len(hsBuf) <= 8
      /\ transcript["client"] = Hashed(retry, c) /\ shared["client"] = Secret(retry)
      /\ hellos <= 2
  BY <1>2 DEF InFlight, Serves
<1>4. c \in 0..3 /\ Len(hsBuf) \in 0..1 /\ a = 2 * c + 1 + Len(hsBuf) /\ a \in 1..8
  <2>1. c \in 0..3
    BY <1>1 DEF MessagesRead, FlightLabels
  <2>2. Len(hsBuf) \in Nat
    BY DEF Typed, Shape
  <2>3. a = 2 * c + 1 + Len(hsBuf)
    BY DEF ClientPlace
  <2>4. Len(hsBuf) < 2
    BY <1>1
  <2> DEFINE n == Len(hsBuf)
  <2> HIDE DEF c, a, n
  <2>5. n \in 0..1 /\ 2 * c + 1 + n \in 1..8
    <3>1. n \in Nat /\ n < 2
      BY <2>2, <2>4 DEF n
    <3> QED
      BY <2>1, <3>1
  <2> QED
    BY <2>1, <2>3, <2>5 DEF n
<1> HIDE DEF c, a, f
<1>5. PICK q \in 0..9 : Moves(retry, Next1, a, q) /\ Leads(retry, Tail(down), q, ServerPlace)
  <2>1. a \in Nat
    BY <1>4
  <2>2. Shape /\ Pending /\ Answered /\ Leads(retry, down, a, ServerPlace)
    BY <1>1, <1>3 DEF Typed
  <2> QED
    BY <2>1, <2>2, LeadsOn
<1>6. a < q /\ Next1 = Record(FlightKey(retry), "handshake", SubSeq(f, a, q - 1))
  <2>1. a \in 0..9 /\ q \in 0..9 /\ Moves(retry, Next1, a, q)
    BY <1>4, <1>5
  <2>2. /\ a \in 1..8 /\ Next1.type # "ccs" =>
             /\ a < q
             /\ Next1 = Record(FlightKey(retry), "handshake", SubSeq(FlightUnits(retry), a, q - 1))
    BY <2>1, Way
  <2>3. Next1.type # "ccs"
    BY <1>1, Zenon
  <2>4. a \in 1..8
    BY <1>4, Zenon
  <2> QED
    BY <2>2, <2>3, <2>4, Zenon DEF f
<1>7. Next1.units = SubSeq(f, a, q - 1)
  BY <1>6 DEF Record
<1>8. /\ hsBuf' = SubSeq(f, 2 * c + 1, q - 1) /\ Len(hsBuf') = q - 1 - 2 * c
  <2>1. /\ 2 * c + 1 \in 1..9 /\ a - 1 \in 0..8 /\ 2 * c + 1 <= (a - 1) + 1 /\ q - 1 \in a - 1..8
        /\ (a - 1) + 1 = a /\ 2 * c + Len(hsBuf) = a - 1 /\ q - 1 \in 0..8
        /\ 2 * c + 1 <= (q - 1) + 1 /\ (q - 1) - (2 * c + 1) + 1 = q - 1 - 2 * c
    BY <1>4, <1>6
  <2> DEFINE x == 2 * c + 1
             y == a - 1
             z == q - 1
  <2>2. SubSeq(f, x, y) \o SubSeq(f, y + 1, z) = SubSeq(f, x, z)
    <3>1. x \in 1..9 /\ y \in 0..8 /\ x <= y + 1 /\ z \in y..8
      BY <2>1
    <3> HIDE DEF x, y, z
    <3> QED
      BY <3>1, FlightParts DEF f
  <2>3. Len(SubSeq(f, x, z)) = z - x + 1
    <3>1. x \in 1..9 /\ z \in 0..8 /\ x <= z + 1
      BY <2>1
    <3> HIDE DEF x, y, z
    <3> QED
      BY <3>1, FlightParts DEF f
  <2>4. hsBuf' = SubSeq(f, x, z)
    <3>1. hsBuf = SubSeq(f, x, y) /\ Next1.units = SubSeq(f, y + 1, z)
      BY <1>3, <1>7, <2>1
    <3> HIDE DEF x, y, z
    <3> QED
      BY <1>1, <2>2, <3>1
  <2>5. Len(hsBuf') = z - x + 1
    BY <2>3, <2>4
  <2> QED
    BY <2>1, <2>4, <2>5
<1>9. /\ 2 * c + Len(hsBuf') <= 8 /\ 2 * c + Len(hsBuf') = q - 1
      /\ 2 * c + 1 + Len(hsBuf') = q
  <2> DEFINE n == Len(hsBuf')
  <2>1. n = q - 1 - 2 * c
    BY <1>8
  <2> HIDE DEF n
  <2>2. 2 * c + n <= 8 /\ 2 * c + n = q - 1 /\ 2 * c + 1 + n = q
    BY <1>4, <2>1
  <2> QED
    BY <2>2 DEF n
<1>10. Answered' /\ ServerPlace' = ServerPlace
  BY <1>1, <1>3, AnsweredKept
<1>11. Serves'
  BY <1>1, <1>3, <1>10 DEF Serves, serving
<1>12. c' = c /\ ClientPlace(c)' = q
  BY <1>1, <1>9 DEF c, ClientPlace
<1>13. InFlight'
  <2>1. /\ cpc' \in FlightLabels /\ hellos' <= 2 /\ Serves' /\ server' = server
        /\ transcript'["client"] = Hashed(retry, c) /\ shared'["client"] = Secret(retry)
        /\ inKey' = FlightKey(retry) /\ MessagesRead[cpc'] = c
    BY <1>1, <1>3, <1>11 DEF c
  <2>2. hsBuf' = SubSeq(f, 2 * c + 1, 2 * c + Len(hsBuf')) /\ 2 * c + Len(hsBuf') <= 8
    BY <1>8, <1>9
  <2>3. Leads(retry, down', 2 * c + 1 + Len(hsBuf'), ServerPlace')
    BY <1>1, <1>5, <1>9, <1>10
  <2> QED
    BY <2>1, <2>2, <2>3, Zenon DEF InFlight, ClientPlace, f
<1>14. Idle'
  BY <1>1, IdleKept DEF Course
<1> QED
  BY <1>13, <1>14 DEF Course

(* Where the client is in the flight.                                      *)
LEMMA FlightPlace ==
  ASSUME Typed, Course, cpc \in FlightLabels
  PROVE  LET c == MessagesRead[cpc]
             n == Len(hsBuf)
         IN  /\ InFlight /\ c \in 0..3 /\ n \in Nat /\ 2 * c + n <= 8
             /\ ClientPlace(c) = 2 * c + 1 + n /\ ClientPlace(c) \in 1..9
             /\ hsBuf = SubSeq(FlightUnits(server.retry), 2 * c + 1, 2 * c + n)
             /\ inKey = FlightKey(server.retry)
             /\ Answered /\ Leads(server.retry, down, ClientPlace(c), ServerPlace)
<1> DEFINE c == MessagesRead[cpc]
           n == Len(hsBuf)
<1>1. InFlight
  BY Phase
<1>2. c \in 0..3
  BY DEF MessagesRead, FlightLabels
<1>3. n \in Nat /\ 2 * c + n <= 8
  BY <1>1 DEF Typed, Shape, InFlight
<1>4. ClientPlace(c) = 2 * c + 1 + n
  BY DEF ClientPlace
<1>5. hsBuf = SubSeq(FlightUnits(server.retry), 2 * c + 1, 2 * c + n)
      /\ inKey = FlightKey(server.retry)
      /\ Answered /\ Leads(server.retry, down, ClientPlace(c), ServerPlace)
  BY <1>1, Zenon DEF InFlight, Serves
<1> HIDE DEF c, n
<1>6. 2 * c + 1 + n \in 1..9
  BY <1>2, <1>3
<1> QED
  BY <1>1, <1>2, <1>3, <1>4, <1>5, <1>6 DEF c, n

(* The next message is the one expected, and covers the transcript.        *)
LEMMA MessageRead ==
  ASSUME Typed, Course, ReadMessage
  PROVE  LET c == MessagesRead[cpc]
             m == hsBuf[1].msg
         IN  /\ m = Flight(server.retry)[c + 1] /\ m \in Messages
             /\ Token(m) = FlightHash[c + 1]
             /\ MessageError(m) = None
<1> DEFINE c == MessagesRead[cpc]
           n == Len(hsBuf)
           f == FlightUnits(server.retry)
           m == hsBuf[1].msg
<1>1. cpc \in FlightLabels /\ n >= 2
  BY DEF ReadMessage, Complete
<1>2. /\ InFlight /\ c \in 0..3 /\ n \in Nat /\ 2 * c + n <= 8
      /\ hsBuf = SubSeq(f, 2 * c + 1, 2 * c + n)
  BY <1>1, FlightPlace
<1>3. hsBuf[1] = f[2 * c + 1]
  <2> DEFINE a == 2 * c + 1
             b == 2 * c + n
  <2> HIDE DEF c, n, f
  <2>1. a \in 1..9 /\ b \in 0..8 /\ a <= b + 1 /\ 1 \in 1..b - a + 1 /\ a + 1 - 1 = a
    BY <1>1, <1>2
  <2>2. hsBuf = SubSeq(f, a, b)
    BY <1>2
  <2> HIDE DEF a, b
  <2>3. SubSeq(f, a, b)[1] = f[a + 1 - 1]
    BY <2>1, FlightParts DEF f
  <2> QED
    BY <2>1, <2>2, <2>3 DEF a
<1>4. f[2 * c + 1] = Unit(Flight(server.retry)[c + 1], 1)
  BY <1>2, FlightShape
<1>5. m = Flight(server.retry)[c + 1]
  BY <1>3, <1>4 DEF Unit
<1>6. c + 1 \in 1..4
  BY <1>2
<1> HIDE DEF m
<1>7. m \in Messages /\ Token(m) = FlightHash[c + 1]
  BY <1>5, <1>6, FlightMessages
<1>8. MessageError(m) = None
  <2>1. /\ c = 0 => m.type = "EncryptedExtensions"
        /\ c = 1 => m.type = "Certificate"
        /\ c = 2 => m.type = "CertificateVerify" /\ m.over = Hashed(server.retry, 2)
        /\ c = 3 => m.type = "Finished" /\ m.over = Hashed(server.retry, 3)
    BY <1>5, FlightMessages
  <2>2. transcript["client"] = Hashed(server.retry, c)
    BY <1>2 DEF InFlight
  <2>3. /\ cpc = "readEncryptedExtensions" => c = 0
        /\ cpc = "readCertificate" => c = 1
        /\ cpc = "readCertificateVerify" => c = 2
        /\ cpc = "readFinished" => c = 3
    BY DEF MessagesRead, FlightLabels
  <2> HIDE DEF c
  <2> QED
    BY <1>1, <2>1, <2>2, <2>3 DEF MessageError, Expected, FlightLabels, None
<1> QED
  BY <1>5, <1>7, <1>8 DEF m

(* A message of the flight is the next one and verifies; after the last    *)
(* one the client is at place 9.                                           *)
LEMMA ReadMessageCourse == ASSUME Typed, Course, ReadMessage PROVE Course'
<1> DEFINE retry == server.retry
           c == MessagesRead[cpc]
           n == Len(hsBuf)
           f == FlightUnits(retry)
           m == hsBuf[1].msg
<1>1. cpc \in FlightLabels /\ n >= 2
  BY DEF ReadMessage, Complete
<1>2. /\ InFlight /\ c \in 0..3 /\ n \in Nat /\ 2 * c + n <= 8
      /\ hsBuf = SubSeq(f, 2 * c + 1, 2 * c + n) /\ inKey = FlightKey(retry)
      /\ ClientPlace(c) = 2 * c + 1 + n
      /\ Answered /\ Leads(retry, down, ClientPlace(c), ServerPlace)
  BY <1>1, FlightPlace
<1>3. m \in Messages /\ Token(m) = FlightHash[c + 1] /\ MessageError(m) = None
  BY MessageRead
<1>4. /\ hsBuf' = SubSeq(hsBuf, 3, n) /\ Hash("client", m) /\ cpc' = After(cpc)
      /\ inKey' = IF cpc = "readFinished"
                    THEN AppKey(shared["client"], transcript'["client"]) ELSE inKey
      /\ server' = server /\ hellos' = hellos /\ down' = down /\ up' = up
      /\ UNCHANGED <<serving, shared>>
  BY <1>3 DEF ReadMessage, LeftAfterMessage, Goto
<1>5. transcript'["client"] = Hashed(retry, c + 1) /\ transcript'["server"] = transcript["server"]
  <2>1. transcript'["client"] = Append(transcript["client"], Token(m))
        /\ transcript'["server"] = transcript["server"]
    BY <1>3, <1>4, HashShape DEF Typed
  <2>2. transcript["client"] = Hashed(retry, c)
    BY <1>2 DEF InFlight
  <2>3. Hashed(retry, c + 1) = Append(Hashed(retry, c), FlightHash[c + 1])
    BY <1>2, HashedShape
  <2> QED
    BY <1>3, <2>1, <2>2, <2>3
<1>6. shared["client"] = Secret(retry) /\ hellos <= 2 /\ Serves
  BY <1>2 DEF InFlight
<1>7. Answered' /\ ServerPlace' = ServerPlace
  BY <1>2, <1>4, <1>5, AnsweredKept
<1>8. Serves'
  BY <1>4, <1>6, <1>7 DEF Serves, serving
<1>9. Idle'
  BY <1>4, IdleKept DEF Course
<1>10. /\ c = 3 <=> cpc = "readFinished"
       /\ c < 3 => After(cpc) \in FlightLabels /\ MessagesRead[After(cpc)] = c + 1
       /\ c = 3 => After(cpc) = "sendFinished"
  <2>1. \/ cpc = "readEncryptedExtensions" /\ c = 0 /\ After(cpc) = "readCertificate"
        \/ cpc = "readCertificate" /\ c = 1 /\ After(cpc) = "readCertificateVerify"
        \/ cpc = "readCertificateVerify" /\ c = 2 /\ After(cpc) = "readFinished"
        \/ cpc = "readFinished" /\ c = 3 /\ After(cpc) = "sendFinished"
    BY <1>1 DEF MessagesRead, FlightLabels, After
  <2>2. /\ MessagesRead["readCertificate"] = 1 /\ MessagesRead["readCertificateVerify"] = 2
        /\ MessagesRead["readFinished"] = 3
    BY DEF MessagesRead, FlightLabels
  <2>3. {"readCertificate", "readCertificateVerify", "readFinished"} \subseteq FlightLabels
    BY DEF FlightLabels
  <2> HIDE DEF c
  <2> QED
    BY <2>1, <2>2, <2>3
<1> HIDE DEF c, n, f, m
<1>11. hsBuf' = SubSeq(f, 2 * c + 3, 2 * c + n) /\ Len(hsBuf') = n - 2
  <2> DEFINE a == 2 * c + 1
             b == 2 * c + n
  <2>1. /\ a \in 1..9 /\ b \in 0..8 /\ a <= b + 1 /\ 3 \in 1..9 /\ n \in 0..8 /\ 3 <= n + 1
        /\ n <= b - a + 1 /\ a + 3 - 1 = 2 * c + 3 /\ a + n - 1 = 2 * c + n
        /\ 2 * c + 3 \in 1..9 /\ 2 * c + 3 <= b + 1 /\ b - (2 * c + 3) + 1 = n - 2
    BY <1>1, <1>2
  <2>2. hsBuf = SubSeq(f, a, b)
    BY <1>2
  <2> HIDE DEF a, b
  <2>3. SubSeq(SubSeq(f, a, b), 3, n) = SubSeq(f, a + 3 - 1, a + n - 1)
    BY <2>1, FlightParts DEF f
  <2>4. hsBuf' = SubSeq(f, 2 * c + 3, 2 * c + n)
    BY <1>4, <2>1, <2>2, <2>3
  <2> DEFINE x == 2 * c + 3
  <2>5. x \in 1..9 /\ x <= b + 1 /\ b - x + 1 = n - 2 /\ b = 2 * c + n
    BY <2>1 DEF b
  <2> HIDE DEF x
  <2>6. Len(SubSeq(f, x, b)) = b - x + 1
    BY <2>1, <2>5, FlightParts DEF f
  <2> QED
    BY <2>4, <2>5, <2>6 DEF x
<1>12. CASE c < 3
  <2>1. cpc' \in FlightLabels /\ MessagesRead[cpc'] = c + 1 /\ inKey' = FlightKey(retry)
    BY <1>2, <1>4, <1>10, <1>12
  <2>2. /\ 2 * (c + 1) + Len(hsBuf') <= 8 /\ 2 * (c + 1) + Len(hsBuf') = 2 * c + n
        /\ 2 * (c + 1) + 1 = 2 * c + 3 /\ 2 * (c + 1) + 1 + Len(hsBuf') = 2 * c + 1 + n
    <3> DEFINE l == Len(hsBuf')
    <3>1. l = n - 2
      BY <1>11
    <3> HIDE DEF l
    <3>2. /\ 2 * (c + 1) + l <= 8 /\ 2 * (c + 1) + l = 2 * c + n
          /\ 2 * (c + 1) + 1 = 2 * c + 3 /\ 2 * (c + 1) + 1 + l = 2 * c + 1 + n
      BY <1>2, <3>1
    <3> QED
      BY <3>2 DEF l
  <2>3. hsBuf' = SubSeq(f, 2 * (c + 1) + 1, 2 * (c + 1) + Len(hsBuf'))
    BY <1>11, <2>2
  <2>4. Leads(retry, down', 2 * (c + 1) + 1 + Len(hsBuf'), ServerPlace')
    BY <1>2, <1>4, <1>7, <2>2
  <2>5. shared' = shared
    BY <1>4
  <2> DEFINE d == c + 1
  <2>6. /\ cpc' \in FlightLabels /\ hellos' <= 2 /\ Serves' /\ server' = server
        /\ transcript'["client"] = Hashed(retry, d) /\ shared'["client"] = Secret(retry)
        /\ inKey' = FlightKey(retry) /\ MessagesRead[cpc'] = d
        /\ hsBuf' = SubSeq(f, 2 * d + 1, 2 * d + Len(hsBuf')) /\ 2 * d + Len(hsBuf') <= 8
        /\ Leads(retry, down', 2 * d + 1 + Len(hsBuf'), ServerPlace')
    BY <1>4, <1>5, <1>6, <1>8, <2>1, <2>2, <2>3, <2>4, <2>5
  <2> HIDE DEF d
  <2>7. InFlight'
    BY <2>6, Zenon DEF InFlight, ClientPlace, f
  <2> QED
    BY <1>9, <2>7 DEF Course
<1>13. CASE c = 3
  <2>1. n = 2 /\ 2 * c + 1 + n = 9 /\ c + 1 = 4
    BY <1>1, <1>2, <1>13
  <2>2. cpc' = "sendFinished" /\ cpc = "readFinished"
    BY <1>4, <1>10, <1>13
  <2>3. hsBuf' = <<>>
    <3>1. hsBuf \in Seq(AllUnits)
      BY DEF Typed, Shape
    <3>2. SubSeq(hsBuf, 3, 2) = <<>>
      BY <3>1
    <3> QED
      BY <1>4, <2>1, <3>2
  <2>4. inKey' = DataKey(retry)
    BY <1>4, <1>5, <1>6, <2>1, <2>2 DEF DataKey
  <2>5. Leads(retry, down', 9, ServerPlace')
    BY <1>2, <1>4, <1>7, <2>1
  <2>6. Finishing'
    BY <1>4, <1>5, <1>6, <1>8, <2>1, <2>2, <2>3, <2>4, <2>5 DEF Finishing
  <2> QED
    BY <1>9, <2>6 DEF Course
<1> QED
  BY <1>2, <1>12, <1>13

(* Only an alert makes a handshake read refuse a record.                   *)
LEMMA RefuseCourse == ASSUME Typed, Course, Refuse PROVE Course'
<1> DEFINE retry == server.retry
<1>1. /\ cpc \in HandshakeReads /\ Pending /\ ~Complete /\ RecordError # None
      /\ cpc' = "failed" /\ server' = server /\ hellos' = hellos /\ offer' = offer
      /\ UNCHANGED serving
  BY DEF Refuse, Reading, Goto
<1>2. Idle'
  BY <1>1, IdleKept DEF Course
<1>3. Explained => Over'
  BY <1>1, Phase DEF Over, Ended, Explained, Unsupported, serving
<1>4. CASE cpc = "readServerHello"
  <2>1. cpc \notin FlightLabels
    BY <1>4 DEF FlightLabels
  <2>2. Next1.type # "ccs" /\ Next1.type # "handshake"
    BY <1>1, <2>1 DEF RecordError
  <2>3. Asks(retry).type = "handshake"
        /\ Record(NoKey, "handshake", Units(Reply(retry))).type = "handshake"
    BY DEF Asks, Record
  <2>4. Explained
    BY <1>1, <1>4, <2>2, <2>3, HelloHead DEF Typed
  <2> QED
    BY <1>2, <1>3, <2>4 DEF Course
<1>5. CASE cpc \in FlightLabels
  <2> DEFINE c == MessagesRead[cpc]
             n == Len(hsBuf)
             a == ClientPlace(c)
  <2>1. /\ c \in 0..3 /\ n \in Nat /\ a = 2 * c + 1 + n /\ inKey = FlightKey(retry)
        /\ Answered /\ Leads(retry, down, a, ServerPlace)
    BY <1>5, FlightPlace
  <2>2. ~(n >= 2)
    BY <1>1 DEF Complete
  <2> HIDE DEF c, n, a
  <2>3. a \in 1..8 /\ a \in Nat
    BY <2>1, <2>2
  <2>4. PICK q \in 0..9 : Moves(retry, Next1, a, q)
    <3>1. Shape /\ Pending /\ Answered /\ Leads(retry, down, a, ServerPlace)
      BY <1>1, <2>1 DEF Typed
    <3> QED
      BY <2>3, <3>1, LeadsOn
  <2>5. Next1.type = "ccs" \/ (Next1.type = "handshake" /\ Next1.key = inKey)
    <3>1. a \in 0..9
      BY <2>3
    <3>2. Next1.type = "ccs" \/ Next1 = Record(FlightKey(retry), "handshake",
                                               SubSeq(FlightUnits(retry), a, q - 1))
      BY <2>3, <2>4, <3>1, Way
    <3> QED
      BY <2>1, <3>2 DEF Record
  <2>6. RecordError = None
    BY <2>5 DEF RecordError
  <2> QED
    BY <1>1, <2>6
<1> QED
  BY <1>1, <1>4, <1>5 DEF HandshakeReads

(* With its Finished the client is done: of the server's flight nothing is *)
(* left to write or to read.                                               *)
LEMMA SendFinishedCourse == ASSUME Typed, Course, SendFinished PROVE Course'
<1> DEFINE retry == server.retry
           m == Message("Finished", "client", 0, transcript["client"])
<1>1. Finishing
  BY Phase DEF SendFinished
<1>2. /\ Serves /\ Answered /\ up = <<>> /\ hellos <= 2 /\ hsBuf = <<>>
      /\ transcript["client"] = Hashed(retry, 4) /\ shared["client"] = Secret(retry)
      /\ inKey = DataKey(retry) /\ Leads(retry, down, 9, ServerPlace)
  BY <1>1 DEF Finishing, Serves
<1>3. /\ up' = Append(up, m) /\ Hash("client", m) /\ cpc' = "done" /\ server' = server
      /\ hellos' = hellos /\ hsBuf' = hsBuf /\ inKey' = inKey /\ down' = down
      /\ UNCHANGED <<serving, shared>>
  BY DEF SendFinished, Goto
<1>4. m = ClientFinished(retry) /\ m \in Messages
  <2>1. "Finished" \in Kinds /\ "client" \in Values /\ 0 \in Nat
    BY DEF Kinds, Values
  <2>2. transcript["client"] \in Seq(Tokens)
    BY DEF Typed, Shape
  <2> QED
    BY <1>2, <2>1, <2>2, MessageShape DEF ClientFinished
<1> HIDE DEF m
<1>5. transcript'["client"] = WithFinished(retry) /\ transcript'["server"] = transcript["server"]
  <2>1. transcript'["client"] = Append(transcript["client"], Token(m))
        /\ transcript'["server"] = transcript["server"]
    BY <1>3, <1>4, HashShape DEF Typed
  <2> QED
    BY <1>2, <1>4, <2>1 DEF WithFinished
<1>6. ServerPlace = 9 /\ spc = "waitFinished"
  <2>1. ServerPlace \in 1..9 /\ (spc = "flight" => ServerPlace \in 1..8)
    BY <1>2, PlaceShape
  <2>2. 9 \in 0..ServerPlace
    <3>1. ServerPlace + 1 \in Nat /\ 1 \in 1..Len(down) + 1
      BY <2>1 DEF Typed, Shape
    <3> QED
      BY <1>2, <3>1 DEF Leads
  <2>3. ServerPlace = 9
    BY <2>1, <2>2
  <2> QED
    BY <1>2, <2>1, <2>3 DEF Serves
<1>7. Answered' /\ ServerPlace' = ServerPlace
  BY <1>2, <1>3, <1>5, AnsweredKept
<1>8. up' = <<ClientFinished(retry)>>
  BY <1>2, <1>3, <1>4
<1>9. Done'
  BY <1>2, <1>3, <1>5, <1>6, <1>7, <1>8 DEF Done, serving
<1>10. Idle'
  BY <1>3, IdleKept DEF Course
<1> QED
  BY <1>9, <1>10 DEF Course

(* A Read after the handshake stays at place 9, or ends the connection.    *)
LEMMA ReadCourse == ASSUME Typed, Course, ReadStep PROVE Course'
<1> DEFINE retry == server.retry
<1>1. /\ cpc = "done" /\ Pending /\ down' = Tail(down)
      /\ cpc' = "done" \/ cpc' = "broken" \/ cpc' = "closed"
      /\ server' = server /\ hellos' = hellos /\ hsBuf' = hsBuf /\ inKey' = inKey
      /\ UNCHANGED <<serving, transcript, shared, up>>
  BY ReadUnchanged
<1>2. Done
  BY <1>1, Phase
<1>3. Answered /\ Leads(retry, down, 9, 9) /\ hellos <= 2
  BY <1>2 DEF Done
<1>4. Idle'
  BY <1>1, IdleKept DEF Course
<1>5. CASE cpc' = "done"
  <2>1. down \in Seq(AllRecords) /\ down # <<>> /\ 9 \in Nat
    BY <1>1 DEF Typed, Shape, Pending
  <2>2. PICK q \in 0..9 : Moves(retry, Head(down), 9, q) /\ Leads(retry, Tail(down), q, 9)
    BY <1>3, <2>1, LeadsTail
  <2>3. q = 9
    <3>1. 9 \in 0..9
      OBVIOUS
    <3> QED
      BY <2>2, <3>1, Way
  <2>4. Leads(retry, down', 9, 9)
    BY <1>1, <2>2, <2>3
  <2>5. Answered'
    BY <1>1, <1>3, AnsweredKept
  <2>6. Done'
    BY <1>1, <1>2, <1>5, <2>4, <2>5 DEF Done, serving
  <2> QED
    BY <1>4, <2>6 DEF Course
<1>6. CASE cpc' # "done"
  BY <1>1, <1>3, <1>4, <1>6 DEF Course, Over, Ended
<1> QED
  BY <1>5, <1>6

---------------------------------------------------------------------------
(* The course of the server *)

(* A connection that is over stays over while the server goes on.          *)
LEMMA OverKept == 
  ASSUME Over, server' = server, torn => torn', UNCHANGED client PROVE Over'
  BY DEF Over, Explained, Unsupported, client

(* What every step of the server does to the client: nothing.              *)
LEMMA IdleServer ==
  ASSUME Typed, Idle, ServerStep \/ ServerChoice
  PROVE  Idle' /\ server' = server /\ UNCHANGED client
<1>1. ASSUME NEW cut \in BOOLEAN, ServerReadHello(cut) \/ ServerReadSecondHello(cut)
      PROVE  Idle' /\ server' = server /\ UNCHANGED client
  <2>1. AnswersHello(cut)
    BY <1>1, HelloAnswered
  <2>2. server' = server /\ UNCHANGED client /\ spc \in {"waitHello", "waitSecondHello"}
        /\ (Abort \/ Answer(Request, cut) \/ Retry(Request, cut))
    BY <2>1 DEF AnswersHello
  <2>3. queue = <<>>
    BY <2>2 DEF Idle
  <2>4. Abort => queue' = queue
    BY DEF Abort
  <2>5. Retry(Request, cut) => queue' = queue
    BY DEF Retry
  <2>6. Answer(Request, cut) => spc' = "flight"
    BY DEF Answer
  <2> QED
    BY <2>2, <2>3, <2>4, <2>5, <2>6 DEF Idle
<1>2. CASE ServerSkipChangeCipherSpec
  BY <1>2, IdleKept DEF ServerSkipChangeCipherSpec
<1>3. CASE \E k \in 1..Len(queue) : ServerWrite(k)
  <2>1. PICK k \in 1..Len(queue) : ServerWrite(k)
    BY <1>3
  <2>2. server' = server /\ UNCHANGED client /\ spc \in {"flight", "open"}
        /\ spc' = IF queue' = <<>> /\ spc = "flight" THEN "waitFinished" ELSE spc
    BY <2>1 DEF ServerWrite
  <2> QED
    BY <2>2 DEF Idle
<1>4. CASE ServerReadFinished
  <2>1. server' = server /\ UNCHANGED client /\ spc = "waitFinished" /\ queue' = queue
    BY <1>4 DEF ServerReadFinished, Received
  <2> QED
    BY <2>1 DEF Idle
<1>5. CASE IssueTicket \/ UpdateKey
  <2>1. server' = server /\ UNCHANGED client /\ spc = "open" /\ spc' = spc
    BY <1>5 DEF IssueTicket, UpdateKey
  <2> QED
    BY <2>1 DEF Idle
<1>6. CASE SendData
  <2>1. server' = server /\ UNCHANGED client /\ queue' = queue /\ spc' = spc
    BY <1>6 DEF SendData
  <2> QED
    BY <2>1 DEF Idle
<1>7. CASE ServerClose
  <2>1. server' = server /\ UNCHANGED client /\ queue = <<>> /\ queue' = queue
    BY <1>7 DEF ServerClose
  <2> QED
    BY <2>1 DEF Idle
<1> QED
  BY <1>1, <1>2, <1>3, <1>4, <1>5, <1>6, <1>7 DEF ServerStep, ServerChoice

(* What there is for the server to read.                                   *)
LEMMA Receives ==
  ASSUME Course, cpc \notin Ended, up # <<>>
  PROVE  \/ /\ AwaitFirst /\ up = <<Hello(1, "SM2", offer)>> /\ down = <<>>
            /\ spc = "waitHello" /\ transcript["server"] = <<>>
         \/ /\ AwaitSecond /\ spc = "waitSecondHello"
            /\ up \in {<<ChangeCipherSpec, Hello(2, "X25519", offer)>>,
                       <<Hello(2, "X25519", offer)>>}
            /\ down \in {<<>>, <<Skipped>>} /\ transcript["server"] = Restart(server.retry)
         \/ Done /\ up = <<ClientFinished(server.retry)>> /\ spc = "waitFinished"
<1>1. ~Starting /\ ~Retried /\ ~InFlight /\ ~Finishing /\ ~Over
  BY DEF Starting, Retried, InFlight, Finishing, Over, Serves
<1>2. CASE AwaitFirst
  BY <1>2 DEF AwaitFirst, Asked, Refused, Serves
<1>3. CASE AwaitSecond
  BY <1>3 DEF AwaitSecond, Refused, Serves
<1>4. CASE Done
  BY <1>4 DEF Done
<1> QED
  BY <1>1, <1>2, <1>3, <1>4 DEF Course

(* A server that refuses a binder knows its tickets, and got one.          *)
LEMMA BinderRefused ==
  ASSUME Shape, NEW n \in Nat, NEW share \in Values, Recognised(Hello(n, share, offer).binder)
  PROVE  server.recognises /\ offer # NoTicket
<1>1. offer \in Tickets /\ \A t \in issued : t.id # 0
  BY DEF Shape
<1>2. Hello(n, share, offer).binder = Binder(offer)
  BY <1>1, HelloShape
<1>3. offer = NoTicket => Binder(offer).id = 0
  BY <1>1, TicketShape
<1>4. server.recognises /\ \E t \in issued : t.id = Binder(offer).id
  BY <1>2 DEF Recognised
<1> QED
  BY <1>1, <1>3, <1>4

(* The stream with a ServerHello in front of the flight.                   *)
LEMMA LeadsReply ==
  ASSUME NEW retry, NEW s \in {<<>>, <<Skipped>>}, NEW t \in {<<>>, <<Skipped>>}
  PROVE  Leads(retry, s \o <<Record(NoKey, "handshake", Units(Reply(retry)))>> \o t, 0, 1)
<1> DEFINE r == Record(NoKey, "handshake", Units(Reply(retry)))
           S == AllRecords
<1>1. r \in S
  <2>1. Reply(retry) \in Messages /\ NoKey \in Keys /\ "handshake" \in Contents
    BY RetryShape, NoKeyShape DEF Contents
  <2>2. Units(Reply(retry)) \in Seq(AllUnits)
    BY <2>1, UnitShape
  <2> QED
    BY <2>1, <2>2, RecordShape
<1>2. Skipped \in S /\ Skipped.type = "ccs"
  BY CompatibilityShape
<1>3. Moves(retry, r, 0, 1)
  BY DEF Moves
<1>4. Moves(retry, Skipped, 0, 0) /\ Moves(retry, Skipped, 1, 1)
  BY <1>2 DEF Moves
<1> HIDE DEF r, S
<1>5. s \in Seq(S) /\ Leads(retry, s, 0, 0)
  <2>1. <<>> \in Seq(S) /\ Leads(retry, <<>>, 0, 0)
    BY LeadsNone
  <2>2. Append(<<>>, Skipped) = <<Skipped>> /\ <<Skipped>> \in Seq(S)
    BY <1>2
  <2>3. Leads(retry, Append(<<>>, Skipped), 0, 0)
    <3>1. \A q \in Seq(S) : Leads(retry, q, 0, 0) => Leads(retry, Append(q, Skipped), 0, 0)
      BY <1>2, <1>4, LeadsAppended
    <3> QED
      BY <2>1, <3>1, Zenon
  <2>4. CASE s = <<>>
    BY <2>1, <2>4
  <2>5. CASE s = <<Skipped>>
    BY <2>2, <2>3, <2>5
  <2> QED
    BY <2>4, <2>5
<1>6. Append(s, r) \in Seq(S) /\ Leads(retry, Append(s, r), 0, 1)
  BY <1>1, <1>3, <1>5, LeadsAppended
<1>7. s \o <<r>> = Append(s, r)
  BY <1>1, <1>5, AppendIsConcat
<1> DEFINE u == s \o <<r>>
<1>8. u \in Seq(S) /\ Leads(retry, u, 0, 1)
  BY <1>6, <1>7
<1> HIDE DEF u
<1>9. Leads(retry, u \o t, 0, 1)
  <2>1. CASE t = <<>>
    <3>1. u \o <<>> = u
      BY <1>8
    <3> QED
      BY <1>8, <2>1, <3>1
  <2>2. CASE t = <<Skipped>>
    <3>1. u \o <<Skipped>> = Append(u, Skipped)
      BY <1>2, <1>8, AppendIsConcat
    <3>2. Leads(retry, Append(u, Skipped), 0, 1)
      BY <1>2, <1>4, <1>8, LeadsAppended
    <3> QED
      BY <2>2, <3>1, <3>2
  <2> QED
    BY <2>1, <2>2
<1> QED
  BY <1>9 DEF u, r

(* The server answers the hello it takes the client's share from.          *)
LEMMA AnswerGiven ==
  ASSUME Typed, NEW hello \in Messages, Answer(hello, FALSE), server' = server, up' = <<>>,
         server.retry \in {"no", "X25519"}, down \in {<<>>, <<Skipped>>},
         hello.val = Share(server.retry), hello.n = Private(server.retry),
         transcript["server"] \o <<Token(hello), Token(Reply(server.retry))>>
           = Greeting(server.retry)
  PROVE  Serves' /\ Leads(server'.retry, down', 0, ServerPlace')
         /\ transcript'["client"] = transcript["client"]
<1> DEFINE retry == server.retry
           f == Flight(retry)
           s == [i \in 1..4 |-> Token(f[i])]
           a == FlightUnits(retry)
<1>1. Message("ServerHello", hello.val, 0, <<>>) = Reply(retry)
      /\ [group |-> hello.val, key |-> hello.n] = Secret(retry)
  BY DEF Reply, Secret
<1>2. /\ down' = down \o InTheClear(Reply(retry), FALSE) \o Compatibility
      /\ shared' = [shared EXCEPT !["server"] = Secret(retry)]
      /\ outKey' = FlightKey(retry)
      /\ queue' = Units(f[1]) \o Units(f[2]) \o Units(f[3]) \o Units(f[4])
      /\ transcript' = [transcript EXCEPT !["server"] = Greeting(retry) \o s]
      /\ spc' = "flight"
  BY <1>1, Zenon DEF Answer, FlightKey, Flight
<1>3. s = FlightHash
  <2>1. \A i \in 1..4 : Token(f[i]) = FlightHash[i]
    BY FlightMessages
  <2> DEFINE h == FlightHash
  <2>2. h \in Seq(Tokens) /\ Len(h) = 4
    BY FlightHashShape
  <2>3. \A i \in 1..4 : h[i] \in Tokens
    BY FlightHashShape
  <2> HIDE DEF h
  <2>4. s \in Seq(Tokens) /\ Len(s) = 4 /\ \A i \in 1..4 : s[i] = h[i]
    BY <2>1, <2>3 DEF h
  <2> HIDE DEF s
  <2>5. s = h
    BY <2>2, <2>4, SeqEqual
  <2> QED
    BY <2>5 DEF h
<1>4. queue' = a /\ a \in Seq(AllUnits) /\ Len(a) = 8
  BY <1>2, FlightQueue, FlightShape
<1> HIDE DEF f, s, a
<1>5. Len(queue') = 8 /\ queue' = SubSeq(a, 9 - Len(queue'), 8)
  <2>1. SubSeq(a, 1, 8) = a
    BY <1>4, SubSeqFull
  <2> QED
    BY <1>4, <2>1
<1>6. transcript'["server"] = Hashed(retry, 4) /\ transcript'["client"] = transcript["client"]
  <2>1. transcript \in [{"client", "server"} -> Seq(Tokens)]
    BY DEF Typed, Shape
  <2>2. Hashed(retry, 4) = Greeting(retry) \o FlightHash
    BY HashedShape
  <2> QED
    BY <1>2, <1>3, <2>1, <2>2
<1>7. shared'["server"] = Secret(retry)
  <2>1. shared \in [{"client", "server"} -> Secrets]
    BY DEF Typed, Shape
  <2> QED
    BY <1>2, <2>1
<1>8. ServerPlace' = 1
  <2>1. spc' = "flight"
    BY <1>2, Zenon
  <2>3. Len(queue') = 8 /\ 9 - 8 = 1
    BY <1>5
  <2>2. ServerPlace' = IF spc' = "flight" THEN 9 - Len(queue') ELSE 9
    BY DEF ServerPlace
  <2> QED
    BY <2>1, <2>2, <2>3
<1>9. Answered'
  <2>1. Len(queue') \in 1..8
    BY <1>5
  <2> QED
    BY <1>2, <1>5, <1>6, <1>7, <2>1 DEF Answered, a
<1>10. Serves'
  BY <1>2, <1>9 DEF Serves
<1>11. Leads(retry, down', 0, 1)
  <2>1. Compatibility \in {<<>>, <<Skipped>>}
    BY CompatibilityShape
  <2>2. InTheClear(Reply(retry), FALSE) = <<Record(NoKey, "handshake", Units(Reply(retry)))>>
    BY RetryShape, ClearShape
  <2> QED
    BY <1>2, <2>1, <2>2, LeadsReply
<1> QED
  BY <1>6, <1>8, <1>10, <1>11

(* The transcript of a ServerHello.                                        *)
LEMMA Greets ==
  ASSUME NEW retry
  PROVE  /\ retry = "no" => <<>> \o <<FirstHello, Token(Reply(retry))>> = Greeting(retry)
         /\ retry # "no" =>
              Restart(retry) \o <<SecondHello, Token(Reply(retry))>> = Greeting(retry)
<1> DEFINE t == Token(Reply(retry))
           h == Restart(retry)
<1>1. t \in Tokens /\ h \in Seq(Tokens) /\ FirstHello \in Tokens /\ SecondHello \in Tokens
  <2>1. "ClientHello" \in Kinds /\ "SM2" \in Values /\ "X25519" \in Values
    BY DEF Kinds, Values
  <2>2. Reply(retry) \in Messages /\ h \in Seq(Tokens)
    BY RetryShape
  <2> QED
    BY <2>1, <2>2, TokenShape DEF FirstHello, SecondHello
<1> HIDE DEF t, h
<1>2. \A x \in Tokens : <<>> \o <<x, t>> = Append(<<x>>, t)
  <2> TAKE x \in Tokens
  <2>1. Append(<<x>>, t) = <<x, t>>
    BY <1>1, Tuples
  <2>2. <<>> \o <<x, t>> = <<x, t>>
    <3>1. <<x, t>> \in Seq(Tokens)
      BY <1>1
    <3> QED
      BY <3>1, ConcatEmptySeq
  <2> QED
    BY <2>1, <2>2
<1>3. \A x \in Tokens : h \o <<x, t>> = Append(Append(h, x), t)
  <2> TAKE x \in Tokens
  <2>1. Append(<<x>>, t) = <<x, t>> /\ <<x>> \in Seq(Tokens)
    <3>1. <<x>> \in Seq(Tokens)
      OBVIOUS
    <3> QED
      BY <1>1, <3>1, Tuples
  <2>2. h \o Append(<<x>>, t) = Append(h \o <<x>>, t)
    BY <1>1, <2>1, ConcatAppended
  <2>3. h \o <<x>> = Append(h, x)
    BY <1>1, AppendIsConcat
  <2> QED
    BY <2>1, <2>2, <2>3, Zenon
<1>4. CASE retry = "no"
  BY <1>1, <1>2, <1>4 DEF Greeting, Hellos, t
<1>5. CASE retry # "no"
  BY <1>1, <1>3, <1>5 DEF Greeting, Hellos, t, h
<1> QED
  BY <1>4, <1>5

(* What a step of the server does to what it counts.                       *)
LEMMA ServerMoves ==
  ASSUME ServerStep \/ ServerChoice
  PROVE  /\ conn' = conn /\ server' = server /\ UNCHANGED client /\ spc # "ended"
         /\ torn => torn'
         /\ updates' = updates \/ updates' = updates + 1
         /\ issued' = issued \/ IssueTicket
<1>1. ASSUME NEW cut \in BOOLEAN, ServerReadHello(cut) \/ ServerReadSecondHello(cut)
      PROVE  /\ conn' = conn /\ server' = server /\ UNCHANGED client /\ spc # "ended"
             /\ (torn => torn') /\ updates' = updates /\ issued' = issued
  <2>1. AnswersHello(cut)
    BY <1>1, HelloAnswered
  <2>2. /\ spc \in {"waitHello", "waitSecondHello"}
        /\ Abort \/ Answer(Request, cut) \/ Retry(Request, cut)
        /\ UNCHANGED <<server, conn, client, issued, sent, updates>>
    BY <2>1, Zenon DEF AnswersHello
  <2>3. torn' = torn \/ torn' = (torn \/ cut)
    BY <2>2, Zenon DEF Abort, Answer, Retry
  <2>4. torn => torn'
    BY <2>3, Zenon
  <2> QED
    BY <2>2, <2>4
<1>2. CASE ServerSkipChangeCipherSpec
  BY <1>2 DEF ServerSkipChangeCipherSpec, Received, serving
<1>3. CASE \E k \in 1..Len(queue) : ServerWrite(k)
  <2>1. PICK k \in 1..Len(queue) : ServerWrite(k)
    BY <1>3
  <2>2. /\ spc \in {"flight", "open"}
        /\ torn' = (torn \/ (IsTicket(queue[k].msg) /\ queue[k].part = 1))
        /\ UNCHANGED <<server, conn, client, issued, sent, updates, transcript, shared, up>>
    BY <2>1, Zenon DEF ServerWrite
  <2>3. torn => torn'
    BY <2>2, Zenon
  <2> QED
    BY <2>2, <2>3
<1>4. CASE ServerReadFinished
  BY <1>4 DEF ServerReadFinished, Received
<1>5. CASE IssueTicket
  BY <1>5 DEF IssueTicket
<1>6. CASE UpdateKey
  BY <1>6 DEF UpdateKey
<1>7. CASE SendData
  BY <1>7 DEF SendData
<1>8. CASE ServerClose
  BY <1>8 DEF ServerClose
<1> QED
  BY <1>1, <1>2, <1>3, <1>4, <1>5, <1>6, <1>7, <1>8 DEF ServerStep, ServerChoice

(* The server goes on after the client has ended.                          *)
LEMMA EndedCourse ==
  ASSUME Typed, Course, cpc \in Ended, ServerStep \/ ServerChoice
  PROVE  Course'
<1>1. Over
  BY DEF Course, Starting, AwaitFirst, Retried, AwaitSecond, InFlight, Finishing, Done,
         FlightLabels, Ended
<1>2. Idle
  BY DEF Course
<1> QED
  BY <1>1, <1>2, IdleServer, ServerMoves, OverKept DEF Course

(* What the client's hellos hold.                                          *)
LEMMA OwnHello ==
  ASSUME Shape
  PROVE  /\ Hello(1, "SM2", offer) \in Messages /\ Hello(2, "X25519", offer) \in Messages
         /\ Hello(1, "SM2", offer).val = "SM2" /\ Hello(1, "SM2", offer).n = 1
         /\ Hello(2, "X25519", offer).val = "X25519" /\ Hello(2, "X25519", offer).n = 2
         /\ Token(Hello(1, "SM2", offer)) = FirstHello
         /\ Token(Hello(2, "X25519", offer)) = SecondHello
         /\ Hello(2, "X25519", offer).type = "ClientHello"
         /\ ChangeCipherSpec.type = "change_cipher_spec"
<1>1. offer \in Tickets /\ "SM2" \in Values /\ "X25519" \in Values /\ 1 \in Nat /\ 2 \in Nat
  BY DEF Shape, Values
<1>2. ChangeCipherSpec.type = "change_cipher_spec"
  BY DEF ChangeCipherSpec, Message
<1> QED
  BY <1>1, <1>2, HelloShape DEF FirstHello, SecondHello

(* A record alone, or with one other before or after it.                   *)
LEMMA OneRecord ==
  ASSUME NEW h, NEW s
  PROVE  /\ <<>> \o <<h>> \o <<>> = <<h>> /\ <<>> \o <<h>> \o <<s>> = <<h, s>>
         /\ <<s>> \o <<h>> \o <<>> = <<s, h>>
<1> DEFINE S == {h, s}
<1>1. h \in S /\ s \in S
  OBVIOUS
<1> HIDE DEF S
<1>2. <<h>> \in Seq(S) /\ <<s>> \in Seq(S) /\ <<s, h>> \in Seq(S)
  BY <1>1
<1>3. <<>> \o <<h>> = <<h>>
  BY <1>2, ConcatEmptySeq
<1>4. <<h>> \o <<>> = <<h>> /\ <<s, h>> \o <<>> = <<s, h>>
  BY <1>2, ConcatEmptySeq
<1>5. ASSUME NEW x \in S, NEW y \in S PROVE <<x>> \o <<y>> = <<x, y>>
  <2>1. <<x>> \in Seq(S)
    OBVIOUS
  <2>2. Append(<<x>>, y) = <<x>> \o <<y>>
    BY <2>1, AppendIsConcat
  <2>3. Append(<<x>>, y) = <<x, y>>
    BY Tuples
  <2> QED
    BY <2>2, <2>3
<1> QED
  BY <1>1, <1>3, <1>4, <1>5, Zenon

(* The server's answer to the first hello.                                 *)
LEMMA FirstHelloCourse ==
  ASSUME Typed, Course, cpc \notin Ended, ServerReadHello(FALSE)
  PROVE  AwaitFirst'
<1> DEFINE retry == server.retry
           hello == Hello(1, "SM2", offer)
<1>1. /\ spc = "waitHello" /\ up # <<>> /\ up' = Tail(up) /\ server' = server
      /\ UNCHANGED client
  BY Zenon DEF ServerReadHello, Received
<1>2. AwaitFirst /\ up = <<hello>> /\ down = <<>> /\ transcript["server"] = <<>>
  <2>1. AwaitSecond => spc = "waitSecondHello" \/ up = <<>>
    BY DEF AwaitSecond, Refused, Serves
  <2> QED
    BY <1>1, <2>1, Receives
<1>3. Request = hello /\ up' = <<>>
  BY <1>1, <1>2 DEF Request
<1>4. /\ cpc' = "readServerHello" /\ hellos' = 1 /\ hsBuf' = <<>> /\ km'["SM2"] = 1
      /\ transcript["client"] = <<FirstHello>> /\ offer' = offer
  BY <1>1, <1>2 DEF AwaitFirst, client
<1>5. hello \in Messages /\ hello.val = "SM2" /\ hello.n = 1 /\ Token(hello) = FirstHello
  BY OwnHello DEF Typed
<1>6. Compatibility \in {<<>>, <<Skipped>>}
  BY CompatibilityShape
<1>7. Recognised(hello.binder) => server.recognises /\ offer # NoTicket
  <2>1. 1 \in Nat /\ "SM2" \in Values /\ Shape
    BY DEF Values, Typed
  <2> QED
    BY <2>1, BinderRefused
<1> HIDE DEF hello
<1>8. CASE retry = "no"
  <2>1. IF Recognised(hello.binder) /\ ~ValidBinder(hello.binder) THEN Abort
        ELSE Answer(hello, FALSE)
    BY <1>3, <1>8, Zenon DEF ServerReadHello, AnswerOrAbort
  <2>2. CASE Recognised(hello.binder) /\ ~ValidBinder(hello.binder)
    <3>1. down' = Append(down, AlertRecord(NoKey)) /\ spc' = "ended" /\ transcript' = transcript
      BY <2>1, <2>2, Zenon DEF Abort
    <3>2. Explained'
      BY <1>1, <1>4, <1>7, <2>2 DEF Explained
    <3>3. Refused({<<>>})'
      BY <1>2, <1>3, <3>1, <3>2 DEF Refused
    <3> QED
      BY <1>1, <1>4, <1>8, <3>1, <3>3 DEF AwaitFirst
  <2>3. CASE ~(Recognised(hello.binder) /\ ~ValidBinder(hello.binder))
    <3>1. Answer(hello, FALSE)
      BY <2>1, <2>3
    <3>2. /\ hello.val = Share(retry) /\ hello.n = Private(retry)
          /\ transcript["server"] \o <<Token(hello), Token(Reply(retry))>> = Greeting(retry)
      BY <1>2, <1>5, <1>8, Greets DEF Share, Private
    <3>3. down \in {<<>>, <<Skipped>>} /\ retry \in {"no", "X25519"}
      BY <1>2, <1>8
    <3>4. /\ Serves' /\ Leads(server'.retry, down', 0, ServerPlace')
          /\ transcript'["client"] = transcript["client"]
      BY <1>1, <1>3, <1>5, <3>1, <3>2, <3>3, AnswerGiven
    <3> QED
      BY <1>1, <1>4, <1>8, <3>4 DEF AwaitFirst
  <2> QED
    BY <2>2, <2>3
<1>9. CASE retry # "no"
  <2>1. Retry(hello, FALSE)
    BY <1>3, <1>9, Zenon DEF ServerReadHello
  <2>2. Message("HelloRetryRequest", IF retry = "unknown" THEN "P256" ELSE "X25519", 0, <<>>)
          = RetryMessage(retry)
    BY DEF RetryMessage, RetryGroup
  <2>3. /\ down' = down \o InTheClear(RetryMessage(retry), FALSE) \o Compatibility
        /\ transcript' = [transcript EXCEPT !["server"] =
              <<[Token(hello) EXCEPT !.type = "message_hash"], Token(RetryMessage(retry))>>]
        /\ spc' = "waitSecondHello"
    BY <2>1, <2>2, Zenon DEF Retry
  <2>4. down' \in {<<Asks(retry)>>, <<Asks(retry), Skipped>>}
    <3> DEFINE h == Asks(retry)
               s == Skipped
    <3>1. down' = <<>> \o <<h>> \o Compatibility
      BY <1>2, <2>3, RetryShape, ClearShape DEF Asks
    <3> HIDE DEF h, s
    <3>2. <<>> \o <<h>> \o <<>> = <<h>> /\ <<>> \o <<h>> \o <<s>> = <<h, s>>
      BY OneRecord
    <3> QED
      BY <1>6, <3>1, <3>2 DEF h, s
  <2>5. transcript'["server"] = Restart(retry) /\ transcript'["client"] = transcript["client"]
    <3>1. AfterRetry(FirstHello, RetryMessage(retry)) = Restart(retry)
      BY Restarted
    <3>2. Token(FirstHello) = FirstHello
      BY DEF Token, FirstHello, Hashing
    <3>3. transcript' = [transcript EXCEPT !["server"] = Restart(retry)]
      BY <1>5, <2>3, <3>1, <3>2 DEF AfterRetry
    <3>4. transcript \in [{"client", "server"} -> Seq(Tokens)]
      BY DEF Typed, Shape
    <3> QED
      BY <3>3, <3>4
  <2>6. Asked'
    BY <1>1, <1>3, <1>9, <2>3, <2>4, <2>5 DEF Asked
  <2> QED
    BY <1>1, <1>4, <2>5, <2>6 DEF AwaitFirst
<1> QED
  BY <1>8, <1>9

(* The server's answer to the second hello.                                *)
LEMMA SecondAnswerCourse ==
  ASSUME Typed, Course, cpc \notin Ended, ServerReadSecondHello(FALSE)
  PROVE  AwaitSecond'
<1> DEFINE retry == server.retry
           hello == Hello(2, "X25519", offer)
<1>1. /\ spc = "waitSecondHello" /\ up # <<>> /\ up' = Tail(up) /\ server' = server
      /\ Request.type = "ClientHello" /\ UNCHANGED client
  BY Zenon DEF ServerReadSecondHello, Received
<1>2. hello \in Messages /\ hello.val = "X25519" /\ hello.n = 2 /\ Token(hello) = SecondHello
      /\ ChangeCipherSpec.type = "change_cipher_spec"
  BY OwnHello DEF Typed
<1>3. AwaitSecond /\ up = <<hello>> /\ down \in {<<>>, <<Skipped>>}
      /\ transcript["server"] = Restart(retry)
  <2>1. AwaitSecond /\ up \in {<<ChangeCipherSpec, hello>>, <<hello>>}
        /\ down \in {<<>>, <<Skipped>>} /\ transcript["server"] = Restart(retry)
    BY <1>1, Receives
  <2>2. Head(<<ChangeCipherSpec, hello>>) = ChangeCipherSpec
    OBVIOUS
  <2> QED
    BY <1>1, <1>2, <2>1, <2>2 DEF Request
<1>4. Request = hello /\ up' = <<>>
  BY <1>1, <1>3 DEF Request
<1>5. /\ cpc' = "readServerHello" /\ hellos' = 2 /\ hsBuf' = <<>> /\ km'["X25519"] = 2
      /\ transcript["client"] = Hellos(retry) /\ offer' = offer /\ retry \notin {"no", "unknown"}
  BY <1>1, <1>3 DEF AwaitSecond, client
<1>6. Compatibility = <<>>
  BY <1>1 DEF Compatibility
<1>7. Recognised(hello.binder) => server.recognises /\ offer # NoTicket
  <2>1. 2 \in Nat /\ "X25519" \in Values /\ Shape
    BY DEF Values, Typed
  <2> QED
    BY <2>1, BinderRefused
<1>8. retry \in {"X25519", "cookie", "twice"}
  BY <1>5, TwoParts DEF Typed, ServerTyped, Server
<1> HIDE DEF hello
<1>9. ASSUME Abort, Explained PROVE AwaitSecond'
  <2>1. /\ down' = Append(down, AlertRecord(NoKey)) /\ spc' = "ended"
        /\ transcript' = transcript /\ torn' = torn
    BY <1>9, Zenon DEF Abort
  <2>2. Explained'
    BY <1>1, <1>5, <1>9, <2>1 DEF Explained, Unsupported
  <2>3. Refused({<<>>, <<Skipped>>})'
    BY <1>3, <1>4, <2>1, <2>2 DEF Refused
  <2> QED
    BY <1>1, <1>5, <2>1, <2>3 DEF AwaitSecond
<1> DEFINE refuses == \/ retry = "cookie"
                      \/ /\ server.strict
                         /\ SupportedGroups(hello.val)
                              # SupportedGroups(transcript["server"][1].val)
<1>10. IF refuses THEN Abort
       ELSE IF retry = "twice" THEN Retry(hello, FALSE)
       ELSE IF Recognised(hello.binder) /\ ~ValidBinder(hello.binder) THEN Abort
       ELSE Answer(hello, FALSE)
  BY <1>4, Zenon DEF ServerReadSecondHello, AnswerOrAbort
<1>11. (refuses => Explained) /\ (retry = "cookie" => refuses)
  BY <1>8 DEF Explained, Unsupported
<1> HIDE DEF refuses
<1>12. CASE refuses
  BY <1>9, <1>10, <1>11, <1>12
<1>13. CASE ~refuses /\ retry = "twice"
  <2>1. Retry(hello, FALSE)
    BY <1>10, <1>13
  <2>2. Message("HelloRetryRequest", IF retry = "unknown" THEN "P256" ELSE "X25519", 0, <<>>)
          = RetryMessage(retry)
    BY DEF RetryMessage, RetryGroup
  <2>3. /\ down' = down \o InTheClear(RetryMessage(retry), FALSE) \o Compatibility
        /\ \E x : transcript' = [transcript EXCEPT !["server"] = x]
        /\ spc' = "waitSecondHello"
    BY <2>1, <2>2, Zenon DEF Retry
  <2>4. down' \in {<<Asks(retry)>>, <<Skipped, Asks(retry)>>}
    <3> DEFINE h == Asks(retry)
               s == Skipped
    <3>1. down' = down \o <<h>> \o <<>>
      BY <1>6, <2>3, RetryShape, ClearShape DEF Asks
    <3> HIDE DEF h, s
    <3>2. <<>> \o <<h>> \o <<>> = <<h>> /\ <<s>> \o <<h>> \o <<>> = <<s, h>>
      BY OneRecord
    <3> QED
      BY <1>3, <3>1, <3>2 DEF h, s
  <2>5. transcript'["client"] = transcript["client"]
    <3>1. transcript \in [{"client", "server"} -> Seq(Tokens)]
      BY DEF Typed, Shape
    <3> QED
      BY <2>3, <3>1
  <2> QED
    BY <1>1, <1>4, <1>5, <1>13, <2>3, <2>4, <2>5 DEF AwaitSecond
<1>14. CASE ~refuses /\ retry = "X25519"
  <2>1. CASE Recognised(hello.binder) /\ ~ValidBinder(hello.binder)
    BY <1>7, <1>9, <1>10, <1>14, <2>1 DEF Explained
  <2>2. CASE ~(Recognised(hello.binder) /\ ~ValidBinder(hello.binder))
    <3>1. Answer(hello, FALSE)
      BY <1>10, <1>14, <2>2
    <3>2. /\ hello.val = Share(retry) /\ hello.n = Private(retry)
          /\ transcript["server"] \o <<Token(hello), Token(Reply(retry))>> = Greeting(retry)
      BY <1>2, <1>3, <1>14, Greets DEF Share, Private
    <3>3. retry \in {"no", "X25519"}
      BY <1>14
    <3>4. /\ Serves' /\ Leads(server'.retry, down', 0, ServerPlace')
          /\ transcript'["client"] = transcript["client"]
      BY <1>1, <1>2, <1>3, <1>4, <3>1, <3>2, <3>3, AnswerGiven
    <3> QED
      BY <1>1, <1>5, <1>14, <3>4 DEF AwaitSecond
  <2> QED
    BY <2>1, <2>2
<1> QED
  BY <1>8, <1>11, <1>12, <1>13, <1>14

(* The server skips the ChangeCipherSpec before the second hello.          *)
LEMMA ServerSkipCourse ==
  ASSUME Typed, Course, cpc \notin Ended, ServerSkipChangeCipherSpec
  PROVE  AwaitSecond'
<1> DEFINE hello == Hello(2, "X25519", offer)
<1>1. /\ spc = "waitSecondHello" /\ up # <<>> /\ up' = Tail(up)
      /\ Request.type = "change_cipher_spec" /\ server' = server
      /\ UNCHANGED <<client, serving, transcript, shared, down>>
  BY DEF ServerSkipChangeCipherSpec, Received
<1>2. hello.type = "ClientHello"
  BY OwnHello DEF Typed
<1>3. AwaitSecond /\ up \in {<<ChangeCipherSpec, hello>>, <<hello>>}
      /\ down \in {<<>>, <<Skipped>>} /\ transcript["server"] = Restart(server.retry)
  BY <1>1, Receives
<1> HIDE DEF hello
<1>4. up' = <<hello>>
  <2>1. Head(<<hello>>) = hello /\ Tail(<<ChangeCipherSpec, hello>>) = <<hello>>
    OBVIOUS
  <2>2. up = <<ChangeCipherSpec, hello>>
    BY <1>1, <1>2, <1>3, <2>1 DEF Request
  <2> QED
    BY <1>1, <2>1, <2>2
<1> QED
  BY <1>1, <1>3, <1>4 DEF AwaitSecond, client, serving, hello

(* A record under an application key is sent when the flight is over.      *)
LEMMA LeadsSent ==
  ASSUME Shape, NEW r \in AllRecords, r.type \in {"data", "handshake", "alert"}, Protected(r),
         NEW p \in Nat, Leads(server.retry, down, p, 9)
  PROVE  Leads(server.retry, Append(down, r), p, 9)
<1>1. Moves(server.retry, r, 9, 9)
  BY DEF Moves
<1>2. down \in Seq(AllRecords) /\ 9 \in Nat /\ 9 <= 9
  BY DEF Shape
<1> QED
  BY <1>1, <1>2, LeadsAppended

(* A record of the flight leads from the server's place to its next one.   *)
LEMMA WriteFlight ==
  ASSUME Typed, Answered, NEW k \in 1..Len(queue), ServerWrite(k), spc = "flight"
  PROVE  /\ Answered' /\ spc' \in {"flight", "waitFinished"}
         /\ \A p \in Nat : Leads(server.retry, down, p, ServerPlace)
              => Leads(server.retry, down', p, ServerPlace')
<1> DEFINE retry == server.retry
           f == FlightUnits(retry)
           n == Len(queue)
           e == 9 - n
           r == Record(outKey, "handshake", SubSeq(queue, 1, k))
<1>1. /\ outKey = FlightKey(retry) /\ n \in 1..8 /\ queue = SubSeq(f, 9 - n, 8)
      /\ retry \in {"no", "X25519"} /\ shared["server"] = Secret(retry)
      /\ transcript["server"] = Hashed(retry, 4)
  BY DEF Answered
<1>2. /\ down' = Append(down, r) /\ queue' = SubSeq(queue, k + 1, n)
      /\ outKey' = IF ~Ends(queue[k]) THEN outKey
                   ELSE AppKey(shared["server"], transcript["server"])
      /\ spc' = IF queue' = <<>> THEN "waitFinished" ELSE "flight"
      /\ UNCHANGED <<server, transcript, shared>>
  BY DEF ServerWrite
<1>3. queue \in Seq(AllUnits) /\ outKey \in Keys /\ down \in Seq(AllRecords)
  BY DEF Typed, Shape
<1>4. ServerPlace = e
  BY DEF ServerPlace
<1> HIDE DEF f, n, r
<1>5. k \in 1..n
  BY DEF n
<1>6. e \in 1..8 /\ e + n = 9
  BY <1>1
<1> HIDE DEF e
<1>7. /\ queue[k] = f[e + k - 1]
      /\ SubSeq(queue, 1, k) = SubSeq(f, e, e + k - 1)
      /\ queue' = SubSeq(f, e + k, 8) /\ Len(queue') = n - k
  <2>1. /\ e \in 1..9 /\ 8 \in 0..8 /\ e <= 8 + 1 /\ 8 - e + 1 = n /\ k \in 1..8 - e + 1
        /\ 1 \in 1..9 /\ k \in 0..8 /\ 1 <= k + 1 /\ k <= 8 - e + 1
        /\ k + 1 \in 1..9 /\ n \in 0..8 /\ k + 1 <= n + 1 /\ n <= 8 - e + 1
        /\ e + 1 - 1 = e /\ e + (k + 1) - 1 = e + k /\ e + n - 1 = 8
    BY <1>1, <1>5, <1>6
  <2>2. queue = SubSeq(f, e, 8)
    BY <1>1 DEF e
  <2>3. SubSeq(f, e, 8)[k] = f[e + k - 1]
    BY <2>1, FlightParts DEF f
  <2>4. SubSeq(SubSeq(f, e, 8), 1, k) = SubSeq(f, e + 1 - 1, e + k - 1)
    BY <2>1, FlightParts DEF f
  <2> DEFINE x == k + 1
             y == e + k
  <2>5. x \in 1..9 /\ x <= n + 1 /\ e + x - 1 = y
    BY <2>1
  <2>6. y \in 1..9 /\ y <= 8 + 1 /\ 8 - y + 1 = n - k
    BY <1>1, <1>5, <1>6
  <2> HIDE DEF x, y
  <2>7. SubSeq(SubSeq(f, e, 8), x, n) = SubSeq(f, e + x - 1, e + n - 1)
    BY <2>1, <2>5, FlightParts DEF f
  <2>8. Len(SubSeq(f, y, 8)) = 8 - y + 1
    BY <2>1, <2>6, FlightParts DEF f
  <2>9. queue' = SubSeq(f, y, 8)
    BY <1>2, <2>1, <2>2, <2>5, <2>7 DEF x
  <2> QED
    BY <2>1, <2>2, <2>3, <2>4, <2>6, <2>8, <2>9 DEF y
<1>8. Ends(queue[k]) <=> k = n
  <2>1. e + k - 1 \in 1..8 /\ (e + k - 1 = 8 <=> k = n)
    BY <1>1, <1>5, <1>6
  <2>2. Ends(f[e + k - 1]) <=> e + k - 1 = 8
    BY <2>1, FlightShape DEF f
  <2> QED
    BY <1>7, <2>1, <2>2
<1>9. queue' = <<>> <=> k = n
  <2>1. queue' \in Seq(AllUnits)
    <3>1. e + k \in 1..9 /\ 8 \in 0..8 /\ e + k <= 8 + 1
      BY <1>1, <1>5, <1>6
    <3> DEFINE y == e + k
    <3> HIDE DEF y
    <3>2. SubSeq(f, y, 8) \in Seq(AllUnits)
      BY <3>1, FlightParts DEF f, y
    <3> QED
      BY <1>7, <3>2 DEF y
  <2>2. queue' = <<>> <=> Len(queue') = 0
    BY <2>1, EmptySeq
  <2>3. n - k = 0 <=> k = n
    BY <1>1, <1>5
  <2> QED
    BY <1>7, <2>2, <2>3
<1>10. Moves(retry, r, e, e + k) /\ r \in AllRecords
  <2>1. 1 <= e /\ e < e + k /\ e + k <= 9 /\ (e + k) - 1 = e + k - 1
    BY <1>1, <1>5, <1>6
  <2>2. r = Record(FlightKey(retry), "handshake", SubSeq(f, e, (e + k) - 1))
    BY <1>1, <1>7, <2>1 DEF r
  <2>3. Moves(retry, r, e, e + k)
    BY <2>1, <2>2 DEF Moves, f
  <2>4. SubSeq(queue, 1, k) \in Seq(AllUnits)
    <3>1. 1 \in Nat \ {0} /\ k \in Nat /\ 1 <= k + 1 /\ k <= Len(queue)
      BY <1>1, <1>5 DEF n
    <3> QED
      BY <1>3, <3>1, Slice
  <2>5. r \in AllRecords
    <3>1. "handshake" \in Contents
      BY DEF Contents
    <3> QED
      BY <1>3, <2>4, <3>1, RecordShape DEF r
  <2> QED
    BY <2>3, <2>5
<1>11. ServerPlace' = e + k
  <2>1. CASE k = n
    BY <1>2, <1>6, <1>9, <2>1 DEF ServerPlace
  <2>2. CASE k # n
    <3>1. 9 - (n - k) = e + k
      BY <1>1, <1>5, <1>6
    <3>2. spc' = "flight"
      BY <1>2, <1>9, <2>2
    <3>3. ServerPlace' = 9 - Len(queue')
      BY <3>2 DEF ServerPlace
    <3> QED
      BY <1>7, <3>1, <3>3
  <2> QED
    BY <2>1, <2>2
<1>12. ASSUME NEW p \in Nat, Leads(retry, down, p, e) PROVE Leads(retry, down', p, e + k)
  <2> DEFINE g == e + k
  <2>1. e \in Nat /\ g \in Nat /\ e <= g
    BY <1>1, <1>5, <1>6
  <2>2. Moves(retry, r, e, g)
    BY <1>10
  <2> HIDE DEF g
  <2>3. Leads(retry, Append(down, r), p, g)
    BY <1>3, <1>10, <1>12, <2>1, <2>2, LeadsAppended
  <2> QED
    BY <1>2, <2>3 DEF g
<1>13. Answered'
  <2>1. CASE k = n
    <3>1. spc' = "waitFinished"
      BY <1>2, <1>9, <2>1
    <3>2. outKey'.phase = "application"
      <4>1. outKey' = AppKey(Secret(retry), Hashed(retry, 4))
        BY <1>1, <1>2, <1>8, <2>1
      <4> QED
        BY <4>1 DEF AppKey
    <3> QED
      BY <1>1, <1>2, <3>1, <3>2 DEF Answered
  <2>2. CASE k # n
    <3>1. spc' = "flight" /\ outKey' = FlightKey(retry)
      BY <1>1, <1>2, <1>8, <1>9, <2>2
    <3>2. Len(queue') \in 1..8 /\ 9 - Len(queue') = e + k
      <4>1. n - k \in 1..8 /\ 9 - (n - k) = e + k
        BY <1>1, <1>5, <1>6, <2>2
      <4> QED
        BY <1>7, <4>1
    <3>3. queue' = SubSeq(FlightUnits(retry), 9 - Len(queue'), 8)
      BY <1>7, <3>2 DEF f
    <3> QED
      BY <1>1, <1>2, <3>1, <3>2, <3>3 DEF Answered
  <2> QED
    BY <2>1, <2>2
<1> QED
  BY <1>2, <1>4, <1>11, <1>12, <1>13

(* What a server does that has answered, but read the client's Finished.   *)
Sends == (\E k \in 1..Len(queue) : ServerWrite(k)) \/ SendData \/ ServerClose

(* What the server leaves alone when it sends.                             *)
LEMMA SendingUnchanged ==
  ASSUME Sends
  PROVE  /\ server' = server /\ UNCHANGED client /\ UNCHANGED <<transcript, shared, up>>
         /\ \/ (\E k \in 1..Len(queue) : ServerWrite(k)) /\ spc \in {"flight", "open"}
            \/ SendData /\ spc \in {"waitFinished", "open"} /\ spc' = spc
            \/ ServerClose /\ spc = "open" /\ spc' = "ended"
<1>1. ASSUME NEW k \in 1..Len(queue), ServerWrite(k)
      PROVE  /\ server' = server /\ UNCHANGED client /\ UNCHANGED <<transcript, shared, up>>
             /\ spc \in {"flight", "open"}
  BY <1>1 DEF ServerWrite
<1>2. ASSUME SendData
      PROVE  /\ server' = server /\ UNCHANGED client /\ UNCHANGED <<transcript, shared, up>>
             /\ spc \in {"waitFinished", "open"} /\ spc' = spc
  BY <1>2 DEF SendData
<1>3. ASSUME ServerClose
      PROVE  /\ server' = server /\ UNCHANGED client /\ UNCHANGED <<transcript, shared, up>>
             /\ spc = "open" /\ spc' = "ended"
  BY <1>3 DEF ServerClose
<1> QED
  BY <1>1, <1>2, <1>3 DEF Sends

(* What the server sends after its answer leads on from its place.         *)
LEMMA SendingKept ==
  ASSUME Typed, Answered, Sends
  PROVE  /\ Answered'
         /\ spc = "flight" => spc' \in {"flight", "waitFinished"}
         /\ spc = "waitFinished" => spc' = "waitFinished"
         /\ spc = "open" => spc' \in {"open", "ended"}
         /\ \A p \in Nat : Leads(server.retry, down, p, ServerPlace)
              => Leads(server.retry, down', p, ServerPlace')
<1> DEFINE retry == server.retry
<1>1. /\ server' = server /\ UNCHANGED client /\ UNCHANGED <<transcript, shared, up>>
      /\ \/ (\E k \in 1..Len(queue) : ServerWrite(k)) /\ spc \in {"flight", "open"}
         \/ SendData /\ spc \in {"waitFinished", "open"} /\ spc' = spc
         \/ ServerClose /\ spc = "open" /\ spc' = "ended"
  BY SendingUnchanged
<1>2. CASE spc = "flight"
  <2>1. PICK k \in 1..Len(queue) : ServerWrite(k)
    BY <1>1, <1>2
  <2> QED
    BY <1>2, <2>1, WriteFlight
<1>3. ASSUME spc # "flight", NEW r \in AllRecords, r.type \in {"data", "handshake", "alert"},
             r.key = outKey, down' = Append(down, r), spc' # "flight",
             outKey'.phase = "application", spc = "waitFinished" => spc' = "waitFinished",
             spc = "open" => spc' \in {"open", "ended"}
      PROVE  /\ Answered' /\ ServerPlace = 9 /\ ServerPlace' = 9
             /\ \A p \in Nat : Leads(retry, down, p, 9) => Leads(retry, down', p, 9)
  <2>1. outKey.phase = "application"
    BY <1>3 DEF Answered
  <2>2. Protected(r)
    BY <1>3, <2>1 DEF Protected
  <2>3. \A p \in Nat : Leads(retry, down, p, 9) => Leads(retry, down', p, 9)
    BY <1>3, <2>2, LeadsSent DEF Typed
  <2>4. ServerPlace = 9 /\ ServerPlace' = 9
    BY <1>3 DEF ServerPlace
  <2>5. spc' \in {"waitFinished", "open", "ended"}
        /\ (spc = "waitFinished" <=> spc' = "waitFinished")
    BY <1>1, <1>3
  <2>6. Answered'
    BY <1>1, <1>3, <2>5 DEF Answered
  <2> QED
    BY <2>3, <2>4, <2>6
<1>4. queue \in Seq(AllUnits) /\ outKey \in Keys /\ down \in Seq(AllRecords)
  BY DEF Typed, Shape
<1>8. \A key \in Keys, type \in Contents, units \in Seq(AllUnits) :
        LET r == Record(key, type, units) IN r \in AllRecords /\ r.type = type /\ r.key = key
  BY RecordShape
<1>5. CASE (\E k \in 1..Len(queue) : ServerWrite(k)) /\ spc = "open"
  <2>1. PICK k \in 1..Len(queue) : ServerWrite(k)
    BY <1>5
  <2> DEFINE r == Record(outKey, "handshake", SubSeq(queue, 1, k))
  <2>2. /\ down' = Append(down, r) /\ spc' = "open"
        /\ outKey' = IF ~Ends(queue[k]) THEN outKey
                     ELSE [outKey EXCEPT !.generation = outKey.generation + 1]
    BY <1>5, <2>1 DEF ServerWrite
  <2>3. SubSeq(queue, 1, k) \in Seq(AllUnits)
    <3>1. 1 \in Nat \ {0} /\ k \in Nat /\ 1 <= k + 1 /\ k <= Len(queue)
      BY <1>4
    <3> QED
      BY <1>4, <3>1, Slice
  <2>4. r \in AllRecords /\ r.type = "handshake" /\ r.key = outKey
    <3>1. "handshake" \in Contents
      BY DEF Contents
    <3> QED
      BY <1>4, <1>8, <2>3, <3>1, Zenon
  <2>5. outKey'.phase = "application"
    <3>1. outKey.phase = "application"
      BY <1>5 DEF Answered
    <3> QED
      BY <1>4, <2>2, <3>1 DEF Keys
  <2> HIDE DEF r
  <2>6. /\ Answered' /\ ServerPlace = 9 /\ ServerPlace' = 9
        /\ \A p \in Nat : Leads(retry, down, p, 9) => Leads(retry, down', p, 9)
    BY <1>3, <1>5, <2>2, <2>4, <2>5
  <2> QED
    BY <1>5, <2>2, <2>6
<1>6. CASE SendData /\ spc # "flight"
  <2> DEFINE r == Record(outKey, "data", <<>>)
  <2>1. down' = Append(down, r) /\ outKey' = outKey /\ spc' = spc
    BY <1>6 DEF SendData
  <2>2. r \in AllRecords /\ r.type = "data" /\ r.key = outKey
    <3>1. "data" \in Contents /\ <<>> \in Seq(AllUnits)
      BY EmptySeq DEF Contents
    <3> QED
      BY <1>4, <1>8, <3>1, Zenon
  <2>3. outKey'.phase = "application"
    BY <1>6, <2>1 DEF Answered
  <2> HIDE DEF r
  <2>4. /\ Answered' /\ ServerPlace = 9 /\ ServerPlace' = 9
        /\ \A p \in Nat : Leads(retry, down, p, 9) => Leads(retry, down', p, 9)
    BY <1>3, <1>6, <2>1, <2>2, <2>3
  <2> QED
    BY <1>6, <2>1, <2>4
<1>7. CASE ServerClose
  <2> DEFINE r == AlertRecord(outKey)
  <2>1. down' = Append(down, r) /\ outKey' = outKey /\ spc = "open" /\ spc' = "ended"
    BY <1>7 DEF ServerClose
  <2>2. r \in AllRecords /\ r.type = "alert" /\ r.key = outKey
    <3>1. "alert" \in Contents /\ <<>> \in Seq(AllUnits)
      BY EmptySeq DEF Contents
    <3> QED
      BY <1>4, <1>8, <3>1, Zenon DEF AlertRecord
  <2>3. outKey'.phase = "application"
    BY <2>1 DEF Answered
  <2> HIDE DEF r
  <2>4. /\ Answered' /\ ServerPlace = 9 /\ ServerPlace' = 9
        /\ \A p \in Nat : Leads(retry, down, p, 9) => Leads(retry, down', p, 9)
    BY <1>3, <2>1, <2>2, <2>3
  <2> QED
    BY <2>1, <2>4
<1> QED
  BY <1>1, <1>2, <1>5, <1>6, <1>7

(* The conversation goes on with what the server sends.                    *)
LEMMA SendingCourse ==
  ASSUME Typed, Course, cpc \notin Ended, Sends
  PROVE  Course'
<1> DEFINE retry == server.retry
<1>1. /\ server' = server /\ UNCHANGED client /\ UNCHANGED <<transcript, shared, up>>
      /\ spc \in {"flight", "waitFinished", "open"}
  BY SendingUnchanged
<1>2. /\ cpc' = cpc /\ hellos' = hellos /\ hsBuf' = hsBuf /\ km' = km /\ offer' = offer
      /\ inKey' = inKey /\ transcript' = transcript /\ shared' = shared /\ up' = up
  BY <1>1 DEF client
<1>3. Idle'
  <2>1. Idle
    BY DEF Course
  <2> QED
    BY <2>1, IdleServer DEF Sends, ServerStep, ServerChoice
<1>4. ASSUME Answered
      PROVE  /\ Answered'
             /\ spc = "flight" => spc' \in {"flight", "waitFinished"}
             /\ spc = "waitFinished" => spc' = "waitFinished"
             /\ spc = "open" => spc' \in {"open", "ended"}
             /\ \A p \in Nat : Leads(retry, down, p, ServerPlace)
                  => Leads(retry, down', p, ServerPlace')
  BY <1>4, SendingKept
<1>5. Serves => Serves'
  BY <1>2, <1>4 DEF Serves
<1>6. ~Starting /\ ~Retried /\ ~Over
  BY <1>1 DEF Starting, Retried, Over
<1>7. CASE AwaitFirst
  <2>1. Serves /\ retry = "no" /\ Leads(retry, down, 0, ServerPlace)
    BY <1>1, <1>7 DEF AwaitFirst, Asked, Refused
  <2>2. Leads(retry, down', 0, ServerPlace')
    BY <1>4, <2>1 DEF Serves
  <2>3. AwaitFirst'
    BY <1>1, <1>2, <1>5, <1>7, <2>1, <2>2 DEF AwaitFirst
  <2> QED
    BY <1>3, <2>3 DEF Course
<1>8. CASE AwaitSecond
  <2>1. Serves /\ retry = "X25519" /\ Leads(retry, down, 0, ServerPlace)
    BY <1>1, <1>8 DEF AwaitSecond, Refused
  <2>2. Leads(retry, down', 0, ServerPlace')
    BY <1>4, <2>1 DEF Serves
  <2>3. AwaitSecond'
    BY <1>1, <1>2, <1>5, <1>8, <2>1, <2>2 DEF AwaitSecond
  <2> QED
    BY <1>3, <2>3 DEF Course
<1>9. CASE InFlight
  <2> DEFINE p == ClientPlace(MessagesRead[cpc])
  <2>1. Serves /\ cpc \in FlightLabels /\ Leads(retry, down, p, ServerPlace)
    BY <1>9 DEF InFlight
  <2>2. p \in Nat /\ p' = p
    <3>1. p \in 1..9
      BY <2>1, FlightPlace
    <3> QED
      BY <1>2, <3>1 DEF ClientPlace
  <2> HIDE DEF p
  <2>3. Leads(retry, down', p, ServerPlace')
    BY <1>4, <2>1, <2>2 DEF Serves
  <2>4. InFlight'
    BY <1>1, <1>2, <1>5, <1>9, <2>1, <2>2, <2>3 DEF InFlight, p
  <2> QED
    BY <1>3, <2>4 DEF Course
<1>10. CASE Finishing
  <2>1. Serves /\ Leads(retry, down, 9, ServerPlace)
    BY <1>10 DEF Finishing
  <2>2. Leads(retry, down', 9, ServerPlace')
    BY <1>4, <2>1 DEF Serves
  <2>3. Finishing'
    BY <1>1, <1>2, <1>5, <1>10, <2>1, <2>2 DEF Finishing
  <2> QED
    BY <1>3, <2>3 DEF Course
<1>11. CASE Done
  <2>1. Answered /\ Leads(retry, down, 9, 9) /\ spc \in {"waitFinished", "open"}
    BY <1>1, <1>11 DEF Done
  <2>2. spc' = "waitFinished" \/ (spc = "open" /\ spc' \in {"open", "ended"})
    BY <1>4, <2>1
  <2>3. ServerPlace = 9 /\ ServerPlace' = 9
    BY <2>1, <2>2 DEF ServerPlace
  <2>4. Leads(retry, down', 9, 9) /\ Answered'
    BY <1>4, <2>1, <2>3
  <2>5. Done'
    BY <1>1, <1>2, <1>4, <1>11, <2>1, <2>2, <2>4 DEF Done
  <2> QED
    BY <1>3, <2>5 DEF Course
<1> QED
  BY <1>6, <1>7, <1>8, <1>9, <1>10, <1>11 DEF Course

(* The client's Finished verifies, and the server is open.                 *)
LEMMA ServerFinishedCourse ==
  ASSUME Typed, Course, cpc \notin Ended, ServerReadFinished
  PROVE  Done'
<1> DEFINE retry == server.retry
           m == ClientFinished(retry)
<1>1. /\ spc = "waitFinished" /\ up # <<>> /\ up' = Tail(up) /\ server' = server
      /\ outKey' = outKey /\ UNCHANGED <<client, shared>>
  BY DEF ServerReadFinished, Received
<1>2. Done /\ up = <<m>>
  <2>1. AwaitSecond => spc = "waitSecondHello" \/ up = <<>>
    BY DEF AwaitSecond, Refused, Serves
  <2> QED
    BY <1>1, <2>1, Receives
<1>3. Request = m /\ up' = <<>>
  BY <1>1, <1>2 DEF Request
<1>4. Request.over = transcript["server"] /\ Answered /\ transcript["server"] = Hashed(retry, 4)
  <2>1. m.over = Hashed(retry, 4)
    BY DEF ClientFinished, Message
  <2>2. Answered /\ transcript["server"] = Hashed(retry, 4)
    BY <1>1, <1>2 DEF Done, Answered
  <2> QED
    BY <1>3, <2>1, <2>2
<1>5. spc' = "open" /\ Hash("server", m) /\ down' = down
  BY <1>3, <1>4, Zenon DEF ServerReadFinished
<1>6. m \in Messages
  <2>1. "Finished" \in Kinds /\ "client" \in Values /\ 0 \in Nat
    BY DEF Kinds, Values
  <2>2. Hashed(retry, 4) \in Seq(Tokens)
    BY HashedShape
  <2> QED
    BY <2>1, <2>2, MessageShape DEF ClientFinished
<1> HIDE DEF m
<1>7. transcript'["server"] = WithFinished(retry) /\ transcript'["client"] = transcript["client"]
  <2>1. transcript'["server"] = Append(transcript["server"], Token(m))
        /\ transcript'["client"] = transcript["client"]
    BY <1>5, <1>6, HashShape DEF Typed
  <2> QED
    BY <1>4, <2>1 DEF WithFinished, m
<1>8. Answered'
  BY <1>1, <1>4, <1>5, <1>7 DEF Answered
<1> QED
  BY <1>1, <1>2, <1>3, <1>5, <1>7, <1>8 DEF Done, client

(* Tickets and key updates wait in an open server.                         *)
LEMMA ChoiceCourse ==
  ASSUME Typed, Course, cpc \notin Ended, IssueTicket \/ UpdateKey
  PROVE  Done'
<1>1. /\ spc = "open" /\ spc' = spc /\ outKey' = outKey /\ server' = server
      /\ UNCHANGED client /\ UNCHANGED <<transcript, shared, up, down>>
  BY DEF IssueTicket, UpdateKey
<1>2. Done
  BY <1>1 DEF Course, Starting, AwaitFirst, Retried, AwaitSecond, InFlight, Finishing, Over,
              Asked, Refused, Serves
<1>3. Answered'
  <2>1. Answered
    BY <1>2 DEF Done
  <2> QED
    BY <1>1, <2>1 DEF Answered
<1> QED
  BY <1>1, <1>2, <1>3 DEF Done, client

(* Records after records.                                                  *)
LEMMA Added ==
  ASSUME NEW s \in Seq(AllRecords), NEW t \in Seq(AllRecords)
  PROVE  /\ s \o t \in Seq(AllRecords) /\ Len(s) \in Nat /\ Len(t) \in Nat
         /\ Len(s \o t) = Len(s) + Len(t)
         /\ \A i \in 1..Len(s) : (s \o t)[i] = s[i]
         /\ Len(t) > 0 => (s \o t)[Len(s) + 1] = t[1]
<1>1. Len(s) \in Nat /\ Len(t) \in Nat /\ s \o t \in Seq(AllRecords)
  BY LenProperties, ConcatProperties
<1>2. Len(s \o t) = Len(s) + Len(t)
  BY ConcatProperties
<1>3. \A i \in 1..Len(s) + Len(t) :
        (s \o t)[i] = IF i <= Len(s) THEN s[i] ELSE t[i - Len(s)]
  BY ConcatProperties
<1>4. \A i \in 1..Len(s) : (s \o t)[i] = s[i]
  BY <1>1, <1>3
<1>5. Len(t) > 0 => (s \o t)[Len(s) + 1] = t[1]
  BY <1>1, <1>3
<1> QED
  BY <1>1, <1>2, <1>4, <1>5

(* The server only adds to the stream to the client.                       *)
LEMMA ServerAdds ==
  ASSUME Typed, ServerStep \/ ServerChoice
  PROVE  Len(down) <= Len(down') /\ \A i \in 1..Len(down) : down'[i] = down[i]
<1>1. down \in Seq(AllRecords) /\ Len(down) \in Nat
  BY DEF Typed, Shape
<1>2. ASSUME NEW r, down' = Append(down, r)
      PROVE  Len(down) <= Len(down') /\ \A i \in 1..Len(down) : down'[i] = down[i]
  BY <1>1, <1>2
<1>3. ASSUME NEW cut \in BOOLEAN, ServerReadHello(cut) \/ ServerReadSecondHello(cut)
      PROVE  Len(down) <= Len(down') /\ \A i \in 1..Len(down) : down'[i] = down[i]
  <2>1. AnswersHello(cut)
    BY <1>3, HelloAnswered
  <2>2. up # <<>> /\ (Abort \/ Answer(Request, cut) \/ Retry(Request, cut))
    BY <2>1, Zenon DEF AnswersHello
  <2>3. CASE Abort
    BY <1>2, <2>3 DEF Abort
  <2>4. CASE Answer(Request, cut) \/ Retry(Request, cut)
    <3>1. PICK m \in Messages : down' = down \o InTheClear(m, cut) \o Compatibility
      BY <2>2, <2>4, Clear DEF Typed
    <3> DEFINE s == InTheClear(m, cut)
    <3>2. s \in Seq(AllRecords) /\ Compatibility \in Seq(AllRecords)
      BY ClearShape, CompatibilityShape
    <3>3. down' = (down \o s) \o Compatibility
      BY <3>1
    <3> HIDE DEF s
    <3> DEFINE u == down \o s
    <3>4. /\ u \in Seq(AllRecords) /\ Len(s) \in Nat /\ Len(u) = Len(down) + Len(s)
          /\ \A i \in 1..Len(down) : u[i] = down[i]
      BY <1>1, <3>2, Added
    <3>5. /\ Len(Compatibility) \in Nat /\ Len(down') = Len(u) + Len(Compatibility)
          /\ \A i \in 1..Len(u) : down'[i] = u[i]
      BY <3>2, <3>3, <3>4, Added
    <3> HIDE DEF u
    <3> QED
      BY <1>1, <3>4, <3>5
  <2> QED
    BY <2>2, <2>3, <2>4
<1>4. CASE ServerSkipChangeCipherSpec
  BY <1>1, <1>4 DEF ServerSkipChangeCipherSpec
<1>5. ASSUME NEW k \in 1..Len(queue), ServerWrite(k)
      PROVE  Len(down) <= Len(down') /\ \A i \in 1..Len(down) : down'[i] = down[i]
  BY <1>2, <1>5, Zenon DEF ServerWrite
<1>6. CASE ServerReadFinished
  BY <1>1, <1>2, <1>6 DEF ServerReadFinished
<1>7. CASE ServerChoice
  BY <1>1, <1>2, <1>7 DEF ServerChoice, IssueTicket, UpdateKey, SendData, ServerClose
<1> QED
  BY <1>3, <1>4, <1>5, <1>6, <1>7 DEF ServerStep

(* A hello that is cut cuts the conversation short.                        *)
LEMMA CutCourse ==
  ASSUME Typed, Course, cpc \notin Ended, CutsHello, Idle'
  PROVE  CutShort'
<1>1. /\ spc \in {"waitHello", "waitSecondHello"} /\ up # <<>> /\ UNCHANGED client
      /\ Answer(Request, TRUE) \/ Retry(Request, TRUE)
  BY Zenon DEF CutsHello
<1>2. cpc = "readServerHello" /\ hellos <= 2 /\ down \in {<<>>, <<Skipped>>}
  <2>1. ~Done \/ spc \notin {"waitHello", "waitSecondHello"}
    BY DEF Done, Answered
  <2>2. AwaitFirst \/ AwaitSecond => cpc = "readServerHello" /\ hellos <= 2
    BY DEF AwaitFirst, AwaitSecond
  <2> QED
    BY <1>1, <2>1, <2>2, Receives
<1>3. torn'
  BY <1>1, Clear DEF Typed
<1>4. PICK m \in Messages : down' = down \o InTheClear(m, TRUE) \o Compatibility
  BY <1>1, Clear DEF Typed
<1> DEFINE s == InTheClear(m, TRUE)
           u == down \o s
           n == Len(down)
<1>5. /\ s \in Seq(AllRecords) /\ Len(s) = 2 /\ HelloPart(s[1])
      /\ Compatibility \in Seq(AllRecords) /\ down \in Seq(AllRecords)
  BY ClearShape, CompatibilityShape DEF Typed, Shape
<1>6. down' = u \o Compatibility
  BY <1>4
<1> HIDE DEF s
<1>7. /\ u \in Seq(AllRecords) /\ n \in Nat /\ Len(u) = n + 2 /\ u[n + 1] = s[1]
      /\ \A i \in 1..n : u[i] = down[i]
  <2>1. /\ u \in Seq(AllRecords) /\ n \in Nat /\ Len(u) = n + Len(s)
        /\ \A i \in 1..n : u[i] = down[i]
        /\ Len(s) > 0 => u[n + 1] = s[1]
    BY <1>5, Added, Zenon
  <2> HIDE DEF u, n
  <2> QED
    BY <1>5, <2>1
<1> HIDE DEF u
<1>8. /\ Len(Compatibility) \in Nat /\ Len(down') = Len(u) + Len(Compatibility)
      /\ \A i \in 1..Len(u) : down'[i] = u[i]
  <2>1. u \in Seq(AllRecords) /\ Compatibility \in Seq(AllRecords)
    BY <1>5, <1>7, Zenon
  <2>2. /\ Len(Compatibility) \in Nat
        /\ Len(u \o Compatibility) = Len(u) + Len(Compatibility)
        /\ \A i \in 1..Len(u) : (u \o Compatibility)[i] = u[i]
    BY <2>1, Added, Zenon
  <2> QED
    BY <1>6, <2>2, Zenon
<1>9. \A i \in 1..n : down[i].type = "ccs"
  BY <1>2, CompatibilityShape
<1> HIDE DEF n
<1>10. n + 1 \in 1..Len(down') /\ HelloPart(down'[n + 1])
  BY <1>5, <1>7, <1>8
<1>11. \A j \in 1..n : down'[j].type = "ccs"
  BY <1>7, <1>8, <1>9
<1>12. \A j \in 1 .. (n + 1) - 1 : down'[j].type = "ccs"
  BY <1>7, <1>11
<1> QED
  BY <1>1, <1>2, <1>3, <1>10, <1>12 DEF CutShort, client

(* The client of a conversation cut short skips ChangeCipherSpec records,  *)
(* or fails; the server may write on.                                      *)
LEMMA CutShortStep ==
  Typed /\ CutShort /\ [Next]_vars => CutShort' \/ (Course' /\ cpc' = "failed")
<1> SUFFICES ASSUME Typed, CutShort, [Next]_vars
             PROVE  CutShort' \/ (Course' /\ cpc' = "failed")
  OBVIOUS
<1>1. Idle /\ torn /\ cpc = "readServerHello" /\ hellos <= 2 /\ cpc \notin Ended
  BY DEF CutShort, Ended
<1>2. PICK i \in 1..Len(down) :
        HelloPart(down[i]) /\ \A j \in 1 .. i - 1 : down[j].type = "ccs"
  BY DEF CutShort
<1>3. down \in Seq(AllRecords) /\ Len(down) \in Nat
  BY DEF Typed, Shape
<1>4. CASE SkipChangeCipherSpec
  <2>1. /\ Pending /\ Next1.type = "ccs" /\ down' = Tail(down)
        /\ UNCHANGED <<client, serving>>
    BY <1>4 DEF SkipChangeCipherSpec, Reading
  <2>2. /\ down[1] = Next1 /\ Len(down') = Len(down) - 1
        /\ \A j \in 1..Len(down') : down'[j] = down[j + 1]
    BY <1>3, <2>1, Taken DEF Pending, Next1
  <2>3. i # 1
    BY <1>2, <2>1, <2>2 DEF HelloPart
  <2>4. i - 1 \in 1..Len(down') /\ HelloPart(down'[i - 1])
    BY <1>2, <1>3, <2>2, <2>3
  <2>5. \A j \in 1 .. (i - 1) - 1 : down'[j].type = "ccs"
    BY <1>2, <1>3, <2>2, <2>3
  <2>6. Idle'
    BY <1>1, <2>1, IdleKept
  <2> QED
    BY <1>1, <2>1, <2>4, <2>5, <2>6 DEF CutShort, client, serving
<1>5. CASE ReadHelloPart
  <2>1. cpc' = "failed" /\ hellos' = hellos /\ server' = server /\ UNCHANGED serving
    BY <1>5 DEF ReadHelloPart, Goto
  <2>2. Idle'
    BY <1>1, <2>1, IdleKept
  <2>3. Explained'
    BY <1>1, <2>1 DEF Explained, Unsupported, serving
  <2>4. Over'
    BY <1>1, <2>1, <2>3 DEF Over, Ended
  <2> QED
    BY <2>1, <2>2, <2>4 DEF Course
<1>6. CASE ServerStep \/ ServerChoice
  <2>1. Idle' /\ UNCHANGED client /\ torn'
    BY <1>1, <1>6, IdleServer, ServerMoves
  <2>2. Len(down) <= Len(down') /\ \A j \in 1..Len(down) : down'[j] = down[j]
    BY <1>6, ServerAdds
  <2>3. i \in 1..Len(down') /\ HelloPart(down'[i])
    <3>1. Len(down') \in Nat
      BY <1>6, TypedStep DEF Next, Typed, Shape
    <3> QED
      BY <1>2, <1>3, <2>2, <3>1
  <2>4. \A j \in 1 .. i - 1 : down'[j].type = "ccs"
    BY <1>2, <1>3, <2>2
  <2> QED
    BY <1>1, <2>1, <2>3, <2>4 DEF CutShort, client
<1>7. ~Redial /\ ~Terminated
  BY <1>1 DEF Redial, Terminated
<1>8. CASE UNCHANGED vars
  BY <1>8 DEF CutShort, Idle, vars, client, serving
<1>9. ClientStep => SkipChangeCipherSpec \/ ReadHelloPart
  BY CutShortRead DEF Typed
<1> QED
  BY <1>4, <1>5, <1>6, <1>7, <1>8, <1>9, Zenon DEF Next

(* In its course the client meets no part of a hello.                      *)
LEMMA NoHelloPart == ASSUME Shape, Course PROVE ~ReadHelloPart
<1> SUFFICES ASSUME ReadHelloPart PROVE FALSE
  OBVIOUS
<1>1. cpc = "readServerHello" /\ Pending /\ Next1.type = "handshake" /\ Len(Next1.units) < 2
  BY DEF ReadHelloPart
<1>2. PICK m \in Messages : Next1 = Record(NoKey, "handshake", Units(m))
  <2>1. RetryMessage(server.retry) \in Messages /\ Reply(server.retry) \in Messages
    BY RetryShape
  <2>2. AlertRecord(NoKey).type = "alert"
    BY DEF AlertRecord, Record
  <2> HIDE DEF AlertRecord, Record
  <2> QED
    BY <1>1, <2>1, <2>2, HelloHead DEF Asks
<1>3. Len(Next1.units) = 2
  BY <1>2, UnitShape DEF Record
<1> QED
  BY <1>1, <1>3

(* The next connection starts anew.                                        *)
LEMMA RedialCourse == ASSUME Redial PROVE Course'
<1>1. /\ cpc' = "sendHello" /\ hellos' = 0 /\ hsBuf' = <<>> /\ transcript' = Fresh
      /\ up' = <<>> /\ down' = <<>> /\ spc' = "waitHello" /\ queue' = <<>>
  BY DEF Redial
<1> QED
  BY <1>1 DEF Course, Idle, Starting

(* A step that changes nothing keeps the course.                           *)
LEMMA UnchangedCourse == ASSUME Course, UNCHANGED vars PROVE Course'
<1>1. UNCHANGED <<server, conn, cpc, why, hellos, requested, km, inKey, hsBuf, offer, cache, got>>
      /\ UNCHANGED <<spc, queue, outKey, issued, sent, updates, torn>>
      /\ UNCHANGED <<transcript, shared, up, down>>
  BY DEF vars, client, serving
<1>2. Idle' = Idle /\ Over' = Over /\ Starting' = Starting /\ Retried' = Retried
      /\ ServerPlace' = ServerPlace /\ Explained' = Explained /\ Asked' = Asked
  BY <1>1 DEF Idle, Over, Starting, Retried, ServerPlace, Explained, Unsupported, Asked
<1>3. Answered' = Answered /\ (Serves' <=> Serves)
  BY <1>1 DEF Answered, Serves
<1>4. (AwaitFirst' <=> AwaitFirst) /\ (AwaitSecond' <=> AwaitSecond)
  BY <1>1, <1>2, <1>3 DEF AwaitFirst, AwaitSecond, Refused
<1>5. (InFlight' <=> InFlight) /\ (Finishing' <=> Finishing) /\ (Done' <=> Done)
  BY <1>1, <1>2, <1>3 DEF InFlight, Finishing, Done, ClientPlace
<1> QED
  BY <1>2, <1>4, <1>5 DEF Course

(* Every step keeps the course of the conversation, but that of a server   *)
(* that cuts its hello.                                                    *)
LEMMA CourseStep == Typed /\ Course /\ [Next]_vars => Course' \/ CutShort'
<1> SUFFICES ASSUME Typed, Course, [Next]_vars PROVE Course' \/ CutShort'
  OBVIOUS
<1>1. Idle
  BY DEF Course
<1>2. CASE ClientStep
  <2>1. ASSUME SendHello PROVE Course'
    <3>1. Idle'
      BY <1>1, <2>1, IdleKept DEF SendHello
    <3> QED
      BY <2>1, <3>1, SendHelloCourse DEF Course
  <2>2. ASSUME SendSecondHello PROVE Course'
    <3>1. Idle'
      BY <1>1, <2>2, IdleKept DEF SendSecondHello
    <3> QED
      BY <2>2, <3>1, SecondHelloCourse DEF Course
  <2>3. ASSUME ReadStep PROVE Course'
    BY <2>3, ReadCourse
  <2> QED
    BY <1>2, <2>1, <2>2, <2>3, SkipCourse, HelloRetryCourse, NoHelloPart, ServerHelloCourse,
       FillCourse, ReadMessageCourse, RefuseCourse, SendFinishedCourse,
       Zenon DEF ClientStep, ReadStep, Typed
<1>3. CASE ServerStep \/ ServerChoice
  <2>1. Idle'
    BY <1>1, <1>3, IdleServer
  <2>2. CASE cpc \in Ended
    BY <1>3, <2>2, EndedCourse
  <2>3. CASE cpc \notin Ended
    <3>1. ASSUME AwaitFirst' \/ AwaitSecond' \/ Done' PROVE Course'
      BY <2>1, <3>1 DEF Course
    <3>2. ASSUME Sends PROVE Course'
      BY <2>3, <3>2, SendingCourse
    <3>3. ASSUME CutsHello PROVE CutShort'
      BY <2>1, <2>3, <3>3, CutCourse
    <3>4. \/ ServerReadHello(FALSE) \/ ServerReadSecondHello(FALSE) \/ CutsHello
          \/ ServerSkipChangeCipherSpec \/ ServerReadFinished \/ IssueTicket \/ UpdateKey
          \/ Sends
      BY <1>3, WholeOrCut, Zenon DEF ServerStep, ServerChoice, Sends
    <3> QED
      BY <2>3, <3>1, <3>2, <3>3, <3>4, FirstHelloCourse, SecondAnswerCourse, ServerSkipCourse,
         ServerFinishedCourse, ChoiceCourse, Zenon
  <2> QED
    BY <2>2, <2>3
<1>4. CASE Redial
  BY <1>4, RedialCourse
<1>5. CASE Terminated \/ UNCHANGED vars
  BY <1>5, UnchangedCourse DEF Terminated
<1> QED
  BY <1>2, <1>3, <1>4, <1>5 DEF Next

(* The first connection starts.                                            *)
LEMMA CourseInit == Init => Course
  BY DEF Init, Course, Idle, Starting

---------------------------------------------------------------------------
(* Theorems about the handshake *)

(* The inductive invariant of the handshake.                               *)
LEMMA CourseKept == Spec => [](Typed /\ (Course \/ CutShort))
<1>1. Init => Typed /\ (Course \/ CutShort)
  BY TypedInit, CourseInit
<1>2. Typed /\ (Course \/ CutShort) /\ [Next]_vars => Typed' /\ (Course' \/ CutShort')
  BY TypedStep, CourseStep, CutShortStep
<1> QED
  BY <1>1, <1>2, PTL DEF Spec

(* A sequence is a prefix of one that goes on longer, and its front if     *)
(* that is longer by one.                                                  *)
LEMMA PrefixOfLonger ==
  ASSUME NEW S, NEW s \in Seq(S), NEW t \in Seq(S), NEW x \in S
  PROVE  /\ IsPrefix(s, s)
         /\ IsPrefix(s, t) => IsPrefix(s, Append(t, x))
         /\ Front(Append(t, x)) = t
<1> DEFINE a == Append(t, x)
           n == Len(s)
           m == Len(t)
<1>1. /\ a \in Seq(S) /\ Len(a) = m + 1 /\ \A i \in 1..m : a[i] = t[i]
      /\ n \in Nat /\ m \in Nat
  OBVIOUS
<1> HIDE DEF a, n, m
<1>2. /\ IsPrefix(s, s) <=> n <= n /\ SubSeq(s, 1, n) = SubSeq(s, 1, n)
      /\ IsPrefix(s, t) <=> n <= m /\ SubSeq(s, 1, n) = SubSeq(t, 1, n)
      /\ IsPrefix(s, a) <=> n <= Len(a) /\ SubSeq(s, 1, n) = SubSeq(a, 1, n)
      /\ Front(a) = SubSeq(a, 1, Len(a) - 1)
  BY Zenon DEF IsPrefix, Front, n, m
<1>3. \A k \in Nat : k <= m => SubSeq(a, 1, k) = SubSeq(t, 1, k)
  <2> SUFFICES ASSUME NEW k \in Nat, k <= m PROVE SubSeq(a, 1, k) = SubSeq(t, 1, k)
    OBVIOUS
  <2>1. 1 \in Nat \ {0} /\ 1 <= k + 1 /\ k <= Len(a) /\ k <= Len(t) /\ k - 1 + 1 = k
        /\ \A i \in 1..k : i \in 1..m /\ 1 + i - 1 = i
    BY <1>1 DEF m
  <2>2. /\ SubSeq(a, 1, k) \in Seq(S) /\ Len(SubSeq(a, 1, k)) = k - 1 + 1
        /\ \A i \in 1..k - 1 + 1 : SubSeq(a, 1, k)[i] = a[1 + i - 1]
    BY <1>1, <2>1, Slice
  <2>3. /\ SubSeq(t, 1, k) \in Seq(S) /\ Len(SubSeq(t, 1, k)) = k - 1 + 1
        /\ \A i \in 1..k - 1 + 1 : SubSeq(t, 1, k)[i] = t[1 + i - 1]
    BY <1>1, <2>1, Slice
  <2> DEFINE u == SubSeq(a, 1, k)
             v == SubSeq(t, 1, k)
  <2> HIDE DEF u, v
  <2>4. u \in Seq(S) /\ v \in Seq(S) /\ Len(u) = k /\ Len(v) = k
        /\ \A i \in 1..k : u[i] = v[i]
    BY <1>1, <2>1, <2>2, <2>3 DEF u, v
  <2>5. u = v
    BY <2>4, SeqEqual
  <2> QED
    BY <2>5 DEF u, v
<1>4. SubSeq(t, 1, m) = t
  BY DEF m
<1>5. Front(a) = t
  <2>1. Len(a) - 1 = m /\ m <= m
    BY <1>1
  <2> QED
    BY <1>1, <1>2, <1>3, <1>4, <2>1
<1>6. IsPrefix(s, s)
  BY <1>1, <1>2
<1>7. IsPrefix(s, t) => IsPrefix(s, a)
  BY <1>1, <1>2, <1>3
<1> QED
  BY <1>5, <1>6, <1>7 DEF a

(* What was hashed is a prefix of what is hashed in the end.               *)
LEMMA HashedPrefix ==
  ASSUME NEW retry \in {"no", "X25519"}
  PROVE  /\ \A c \in 0..4 : /\ IsPrefix(Hashed(retry, c), Hashed(retry, 4))
                            /\ IsPrefix(Hashed(retry, c), WithFinished(retry))
         /\ IsPrefix(WithFinished(retry), WithFinished(retry))
         /\ Front(WithFinished(retry)) = Hashed(retry, 4)
<1> DEFINE h(c) == Hashed(retry, c)
           x == Token(ClientFinished(retry))
           w == WithFinished(retry)
<1>1. /\ \A c \in 0..4 : h(c) \in Seq(Tokens)
      /\ \A c \in 0..3 : h(c + 1) = Append(h(c), FlightHash[c + 1])
      /\ \A i \in 1..4 : FlightHash[i] \in Tokens
  BY HashedShape, FlightHashShape
<1>2. x \in Tokens /\ w = Append(h(4), x)
  <2>1. /\ "Finished" \in Kinds /\ "client" \in Values /\ 0 \in Nat
        /\ Hashed(retry, 4) \in Seq(Tokens)
    <3>1. 4 \in 0..4
      OBVIOUS
    <3> QED
      BY <1>1, <3>1 DEF Kinds, Values
  <2>2. ClientFinished(retry) \in Messages
    BY <2>1, MessageShape, Zenon DEF ClientFinished
  <2> QED
    BY <2>2, TokenShape DEF WithFinished
<1> HIDE DEF h, x, w
<1>3. \A s \in Seq(Tokens), t \in Seq(Tokens), y \in Tokens :
        /\ IsPrefix(s, s) /\ Front(Append(t, y)) = t
        /\ IsPrefix(s, t) => IsPrefix(s, Append(t, y))
  BY PrefixOfLonger
<1>4. \A c \in 0..4 : IsPrefix(h(c), h(4))
  <2>1. /\ h(0) \in Seq(Tokens) /\ h(1) \in Seq(Tokens) /\ h(2) \in Seq(Tokens)
        /\ h(3) \in Seq(Tokens) /\ h(4) \in Seq(Tokens)
        /\ h(1) = Append(h(0), FlightHash[1]) /\ h(2) = Append(h(1), FlightHash[2])
        /\ h(3) = Append(h(2), FlightHash[3]) /\ h(4) = Append(h(3), FlightHash[4])
        /\ FlightHash[1] \in Tokens /\ FlightHash[2] \in Tokens
        /\ FlightHash[3] \in Tokens /\ FlightHash[4] \in Tokens
    <3>1. /\ 0 \in 0..3 /\ 1 \in 0..3 /\ 2 \in 0..3 /\ 3 \in 0..3
          /\ 0 + 1 = 1 /\ 1 + 1 = 2 /\ 2 + 1 = 3 /\ 3 + 1 = 4
      OBVIOUS
    <3>2. h(1) = Append(h(0), FlightHash[1]) /\ h(2) = Append(h(1), FlightHash[2])
          /\ h(3) = Append(h(2), FlightHash[3]) /\ h(4) = Append(h(3), FlightHash[4])
      BY <1>1, <3>1
    <3>3. /\ h(0) \in Seq(Tokens) /\ h(1) \in Seq(Tokens) /\ h(2) \in Seq(Tokens)
          /\ h(3) \in Seq(Tokens) /\ h(4) \in Seq(Tokens)
      BY <1>1
    <3>4. /\ FlightHash[1] \in Tokens /\ FlightHash[2] \in Tokens
          /\ FlightHash[3] \in Tokens /\ FlightHash[4] \in Tokens
      BY <1>1
    <3> QED
      BY <3>2, <3>3, <3>4, Zenon
  <2>2. \A s \in Seq(Tokens) : /\ IsPrefix(s, h(0)) => IsPrefix(s, h(1))
                               /\ IsPrefix(s, h(1)) => IsPrefix(s, h(2))
                               /\ IsPrefix(s, h(2)) => IsPrefix(s, h(3))
                               /\ IsPrefix(s, h(3)) => IsPrefix(s, h(4))
    <3> SUFFICES ASSUME NEW s \in Seq(Tokens)
                 PROVE  /\ IsPrefix(s, h(0)) => IsPrefix(s, h(1))
                        /\ IsPrefix(s, h(1)) => IsPrefix(s, h(2))
                        /\ IsPrefix(s, h(2)) => IsPrefix(s, h(3))
                        /\ IsPrefix(s, h(3)) => IsPrefix(s, h(4))
      OBVIOUS
    <3>1. \A t \in Seq(Tokens), y \in Tokens :
            IsPrefix(s, t) => IsPrefix(s, Append(t, y))
      BY <1>3, Zenon
    <3>2. IsPrefix(s, h(0)) => IsPrefix(s, h(1))
      BY <2>1, <3>1
    <3>3. IsPrefix(s, h(1)) => IsPrefix(s, h(2))
      BY <2>1, <3>1
    <3>4. IsPrefix(s, h(2)) => IsPrefix(s, h(3))
      BY <2>1, <3>1
    <3>5. IsPrefix(s, h(3)) => IsPrefix(s, h(4))
      BY <2>1, <3>1
    <3> QED
      BY <3>2, <3>3, <3>4, <3>5
  <2>3. IsPrefix(h(0), h(4)) /\ IsPrefix(h(1), h(4)) /\ IsPrefix(h(2), h(4))
        /\ IsPrefix(h(3), h(4)) /\ IsPrefix(h(4), h(4))
    BY <1>3, <2>1, <2>2, Zenon
  <2>4. \A c \in 0..4 : c = 0 \/ c = 1 \/ c = 2 \/ c = 3 \/ c = 4
    OBVIOUS
  <2> QED
    BY <2>3, <2>4, Zenon
<1>5. h(4) \in Seq(Tokens) /\ w \in Seq(Tokens)
  <2>1. h(4) \in Seq(Tokens)
    BY <1>1
  <2> QED
    BY <1>2, <2>1
<1>6. \A c \in 0..4 : IsPrefix(h(c), w)
  BY <1>1, <1>2, <1>3, <1>4, <1>5, Zenon
<1>7. IsPrefix(w, w) /\ Front(w) = h(4)
  BY <1>2, <1>3, <1>5, Zenon
<1> QED
  BY <1>4, <1>6, <1>7 DEF h, w

(* The variables keep their types: with every server the client and the    *)
(* server are in one of their calls, and a handshake has an error exactly  *)
(* when it failed.                                                         *)
THEOREM InteropTypeCorrect == Spec => []TypeOK
<1>1. Typed => TypeOK
  BY DEF Typed
<1> QED
  BY <1>1, CourseKept, PTL

(* However a server of RFC 8446 asks for another share, cuts its messages  *)
(* and mixes in ChangeCipherSpec records, the client that is past the      *)
(* ServerHello has its secret, and its transcript is the server's so far.  *)
THEOREM HandshakesAgree == Spec => []SameHandshake
<1>1. CutShort => SameHandshake
  BY DEF CutShort, SameHandshake, FlightLabels
<1>2. Typed /\ Course => SameHandshake
  <2> SUFFICES ASSUME Typed, Course PROVE SameHandshake
    OBVIOUS
  <2> DEFINE retry == server.retry
  <2>1. hellos <= 2
    BY Phase
  <2>2. CASE cpc \in FlightLabels
    <3>1. InFlight
      BY <2>2, Phase
    <3> DEFINE c == MessagesRead[cpc]
    <3>2. /\ transcript["client"] = Hashed(retry, c) /\ shared["client"] = Secret(retry)
          /\ shared["server"] = Secret(retry) /\ transcript["server"] = Hashed(retry, 4)
          /\ retry \in {"no", "X25519"}
      BY <3>1 DEF InFlight, Serves, Answered
    <3>3. c \in 0..4
      BY <2>2 DEF MessagesRead, FlightLabels
    <3> HIDE DEF c
    <3> QED
      BY <2>1, <3>2, <3>3, HashedPrefix DEF SameHandshake
  <2>3. CASE cpc = "sendFinished"
    <3>1. Finishing
      BY <2>3, Phase
    <3>2. /\ transcript["client"] = Hashed(retry, 4) /\ shared["client"] = Secret(retry)
          /\ shared["server"] = Secret(retry) /\ transcript["server"] = Hashed(retry, 4)
          /\ retry \in {"no", "X25519"} /\ 4 \in 0..4
      BY <3>1 DEF Finishing, Serves, Answered
    <3> QED
      BY <2>1, <3>2, HashedPrefix DEF SameHandshake
  <2>4. CASE cpc = "done"
    <3>1. Done
      BY <2>4, Phase
    <3>2. /\ transcript["client"] = WithFinished(retry) /\ shared["client"] = Secret(retry)
          /\ shared["server"] = Secret(retry) /\ retry \in {"no", "X25519"}
          /\ transcript["server"] \in {Hashed(retry, 4), WithFinished(retry)}
      BY <3>1 DEF Done, Answered
    <3> QED
      BY <2>1, <2>4, <3>2, HashedPrefix DEF SameHandshake
  <2> QED
    BY <2>1, <2>2, <2>3, <2>4 DEF SameHandshake
<1> QED
  BY <1>1, <1>2, CourseKept, PTL

(* A handshake fails for the reasons FailureExplained names alone.  Two of *)
(* them are this client's own: it takes a ServerHello or HelloRetryRequest *)
(* from one record, and its binder does not match with a server that knows *)
(* the ticket.  How the server cuts its encrypted messages, and a ticket   *)
(* it does not know, are no reasons.                                       *)
THEOREM FailuresExplained == Spec => []FailureExplained
<1>1. Course => FailureExplained
  BY Phase DEF FailureExplained, Explained
<1>2. CutShort => FailureExplained
  BY DEF CutShort, FailureExplained
<1> QED
  BY <1>1, <1>2, CourseKept, PTL

---------------------------------------------------------------------------
(* Tickets under way *)

(* Slots of a stream after its first record was read.                      *)
LEMMA SlotsTail ==
  ASSUME NEW s \in Seq(AllRecords), s # <<>>, NEW w
  PROVE  /\ Slots(Tail(s)) = 1..Len(s) /\ Slots(s) = 1 .. Len(s) + 1 /\ Len(s) \in Nat \ {0}
         /\ \A i \in 1..Len(s) : Slot(Tail(s), w, i) = Slot(s, w, i + 1)
         /\ Slot(s, w, 1) = Content(Head(s))
<1> DEFINE t == Tail(s)
           n == Len(s)
<1>1. n \in Nat \ {0} /\ Len(t) = n - 1 /\ s[1] = Head(s) /\ \A i \in 1..n - 1 : t[i] = s[i + 1]
  OBVIOUS
<1> HIDE DEF t, n
<1>2. Slots(t) = 1..n /\ Slots(s) = 1 .. n + 1
  BY <1>1 DEF Slots, n
<1>3. ASSUME NEW i \in 1..n PROVE Slot(t, w, i) = Slot(s, w, i + 1)
  <2>1. CASE i = n
    <3>1. i = Len(t) + 1 /\ i + 1 = Len(s) + 1
      BY <1>1, <2>1 DEF n
    <3> QED
      BY <3>1 DEF Slot
  <2>2. CASE i # n
    <3>1. i # Len(t) + 1 /\ i + 1 # Len(s) + 1 /\ i \in 1..n - 1
      BY <1>1, <2>2 DEF n
    <3>2. t[i] = s[i + 1]
      BY <1>1, <3>1
    <3> QED
      BY <3>1, <3>2 DEF Slot
  <2> QED
    BY <2>1, <2>2
<1>4. Slot(s, w, 1) = Content(Head(s))
  <2>1. 1 # Len(s) + 1
    BY <1>1 DEF n
  <2> QED
    BY <1>1, <2>1 DEF Slot
<1> QED
  BY <1>1, <1>2, <1>3, <1>4 DEF t, n

(* Slots of a stream one record was put into.                              *)
Longer(s, r, w, v) ==
  LET t == Append(s, r) IN
  /\ Len(s) \in Nat /\ Slots(s) = 1 .. Len(s) + 1 /\ Slots(t) = 1 .. Len(s) + 2
  /\ \A i \in 1..Len(s) : Slot(t, v, i) = Slot(s, w, i)
  /\ Slot(s, w, Len(s) + 1) = w /\ Slot(t, v, Len(s) + 2) = v
  /\ Slot(t, v, Len(s) + 1) = Content(r)

(* Slots of a stream with one more record, when what waits changes with    *)
(* it.                                                                     *)
LEMMA SlotsAppended ==
  ASSUME NEW s \in Seq(AllRecords), NEW r \in AllRecords, NEW w, NEW v
  PROVE  Longer(s, r, w, v)
<1> DEFINE t == Append(s, r)
           n == Len(s)
<1>1. n \in Nat /\ Len(t) = n + 1 /\ t[n + 1] = r /\ \A i \in 1..n : t[i] = s[i]
  OBVIOUS
<1> HIDE DEF t, n
<1>2. Slots(s) = 1 .. n + 1 /\ Slots(t) = 1 .. n + 2
  BY <1>1 DEF Slots, n
<1>3. ASSUME NEW i \in 1..n PROVE Slot(t, v, i) = Slot(s, w, i)
  <2>1. i # Len(s) + 1 /\ i # Len(t) + 1
    BY <1>1 DEF n
  <2> QED
    BY <1>1, <2>1 DEF Slot
<1>4. Slot(s, w, n + 1) = w /\ Slot(t, v, n + 2) = v
  <2>1. n + 1 = Len(s) + 1 /\ n + 2 = Len(t) + 1
    BY <1>1 DEF n
  <2> QED
    BY <2>1 DEF Slot
<1>5. Slot(t, v, n + 1) = Content(r)
  <2>1. n + 1 # Len(t) + 1
    BY <1>1
  <2> QED
    BY <1>1, <2>1 DEF Slot
<1> QED
  BY <1>1, <1>2, <1>3, <1>4, <1>5 DEF t, n, Longer

(* Other units are still to be written.                                    *)
Otherwise(s, w, v) ==
  /\ Len(s) \in Nat /\ Slots(s) = 1 .. Len(s) + 1
  /\ \A i \in 1..Len(s) : Slot(s, v, i) = Slot(s, w, i)
  /\ Slot(s, w, Len(s) + 1) = w /\ Slot(s, v, Len(s) + 1) = v

(* Slots of a stream when what waits changes alone.                        *)
LEMMA SlotsLast ==
  ASSUME NEW s \in Seq(AllRecords), NEW w, NEW v
  PROVE  Otherwise(s, w, v)
<1> DEFINE n == Len(s)
<1>1. n \in Nat
  OBVIOUS
<1> HIDE DEF n
<1>2. \A i \in 1..n : i # n + 1
  BY <1>1
<1> QED
  BY <1>1, <1>2 DEF Slots, Slot, n, Otherwise

(* Nothing is in no unit.                                                  *)
LEMMA NoUnits ==
  /\ Rising(<<>>) /\ Whole(<<>>) /\ \A c : Follows(<<>>, c)
  /\ \A ids : Issues(<<>>, ids)
  /\ \A u : Precedes(<<>>, u) /\ Precedes(u, <<>>)
  /\ \A id : ~Holds(<<>>, id)
<1>1. Len(<<>>) = 0 /\ \A i \in 1..Len(<<>>) : FALSE
  OBVIOUS
<1>2. Whole(<<>>)
  <2>1. 0 \in Nat /\ Len(<<>>) = 2 * 0 /\ \A i \in 1..0 : FALSE
    BY <1>1
  <2> QED
    BY <2>1 DEF Whole
<1> QED
  BY <1>1, <1>2, Zenon DEF Rising, Follows, Issues, Precedes, Holds

(* The parts of a run of units.                                            *)
LEMMA CutUnits ==
  ASSUME NEW w \in Seq(AllUnits), NEW k \in 0..Len(w)
  PROVE  LET a == SubSeq(w, 1, k)
             b == SubSeq(w, k + 1, Len(w))
         IN  /\ a \in Seq(AllUnits) /\ b \in Seq(AllUnits)
             /\ Len(a) = k /\ Len(b) = Len(w) - k
             /\ \A i \in 1..k : a[i] = w[i]
             /\ \A i \in 1..Len(w) - k : b[i] = w[k + i]
<1> DEFINE n == Len(w)
           a == SubSeq(w, 1, k)
           b == SubSeq(w, k + 1, n)
<1>1. n \in Nat
  OBVIOUS
<1>2. 1 \in Nat \ {0} /\ k \in Nat /\ 1 <= k + 1 /\ k <= Len(w) /\ k - 1 + 1 = k
      /\ \A i \in 1..k : 1 + i - 1 = i
  BY <1>1
<1>3. k + 1 \in Nat \ {0} /\ n \in Nat /\ k + 1 <= n + 1 /\ n <= Len(w)
      /\ n - (k + 1) + 1 = n - k /\ \A i \in 1..n - k : k + 1 + i - 1 = k + i
  BY <1>1
<1> DEFINE l == k + 1
<1> HIDE DEF n, l
<1>4. \A x \in Nat \ {0}, y \in Nat : x <= y + 1 /\ y <= Len(w) =>
        /\ SubSeq(w, x, y) \in Seq(AllUnits) /\ Len(SubSeq(w, x, y)) = y - x + 1
        /\ \A i \in 1..y - x + 1 : SubSeq(w, x, y)[i] = w[x + i - 1]
  <2>1. \A s \in Seq(AllUnits), x \in Nat \ {0}, y \in Nat : x <= y + 1 /\ y <= Len(s) =>
          /\ SubSeq(s, x, y) \in Seq(AllUnits) /\ Len(SubSeq(s, x, y)) = y - x + 1
          /\ \A i \in 1..y - x + 1 : SubSeq(s, x, y)[i] = s[x + i - 1]
    BY Slice
  <2> QED
    BY <2>1, Zenon
<1> HIDE DEF a, b
<1>5. /\ a \in Seq(AllUnits) /\ Len(a) = k - 1 + 1
      /\ \A i \in 1..k - 1 + 1 : a[i] = w[1 + i - 1]
  BY <1>2, <1>4, Zenon DEF a
<1>6. /\ b \in Seq(AllUnits) /\ Len(b) = n - (k + 1) + 1
      /\ \A i \in 1..n - (k + 1) + 1 : b[i] = w[k + 1 + i - 1]
  BY <1>3, <1>4, Zenon DEF b
<1>7. a \in Seq(AllUnits) /\ Len(a) = k /\ \A i \in 1..k : a[i] = w[i]
  BY <1>2, <1>5
<1>8. b \in Seq(AllUnits) /\ Len(b) = n - k /\ \A i \in 1..n - k : b[i] = w[k + i]
  BY <1>3, <1>6
<1> QED
  BY <1>7, <1>8 DEF a, b, n

(* A run of units cut in two is in the same order.                         *)
LEMMA CutOrder ==
  ASSUME NEW w \in Seq(AllUnits), NEW k \in 0..Len(w)
  PROVE  LET a == SubSeq(w, 1, k)
             b == SubSeq(w, k + 1, Len(w))
         IN  /\ Rising(w) => Rising(a) /\ Rising(b) /\ Precedes(a, b)
             /\ \A u : Precedes(u, w) => Precedes(u, a) /\ Precedes(u, b)
             /\ \A c : Follows(w, c) => Follows(a, c) /\ Follows(b, c)
             /\ \A ids : Issues(w, ids) => Issues(a, ids) /\ Issues(b, ids)
             /\ \A id : Holds(w, id) => Holds(a, id) \/ Holds(b, id)
<1> DEFINE n == Len(w)
           a == SubSeq(w, 1, k)
           b == SubSeq(w, k + 1, n)
<1>1. /\ Len(a) = k /\ Len(b) = n - k /\ n \in Nat /\ k \in 0..n
      /\ \A i \in 1..k : a[i] = w[i]
      /\ \A i \in 1..n - k : b[i] = w[k + i]
  BY CutUnits
<1> HIDE DEF n, a, b
<1>2. /\ \A i \in 1..k : i \in 1..n /\ a[i] = w[i]
      /\ \A i \in 1..n - k : k + i \in 1..n /\ b[i] = w[k + i]
      /\ \A i \in 1..k, j \in 1..n - k : i < k + j
      /\ \A i, j \in 1..n - k : i < j => k + i < k + j
      /\ \A i \in 1..n : i \in 1..k \/ (i - k \in 1..n - k /\ k + (i - k) = i)
  BY <1>1
<1>3. Rising(w) => Rising(a) /\ Rising(b) /\ Precedes(a, b)
  <2> SUFFICES ASSUME Rising(w) PROVE Rising(a) /\ Rising(b) /\ Precedes(a, b)
    OBVIOUS
  <2>1. \A i, j \in 1..n : i < j /\ IsTicket(w[i].msg) /\ IsTicket(w[j].msg)
                             => Rank(w[i]) < Rank(w[j])
    BY DEF Rising, n
  <2>2. Rising(a)
    BY <1>1, <1>2, <2>1 DEF Rising
  <2>3. Rising(b)
    <3> SUFFICES ASSUME NEW i \in 1..Len(b), NEW j \in 1..Len(b),
                        i < j, IsTicket(b[i].msg), IsTicket(b[j].msg)
                 PROVE  Rank(b[i]) < Rank(b[j])
      BY DEF Rising
    <3> DEFINE x == k + i
               y == k + j
    <3>1. x \in 1..n /\ y \in 1..n /\ x < y /\ b[i] = w[x] /\ b[j] = w[y]
      BY <1>1, <1>2
    <3> HIDE DEF x, y
    <3> QED
      BY <2>1, <3>1
  <2>4. Precedes(a, b)
    BY <1>1, <1>2, <2>1 DEF Precedes
  <2> QED
    BY <2>2, <2>3, <2>4
<1>4. ASSUME NEW u, Precedes(u, w) PROVE Precedes(u, a) /\ Precedes(u, b)
  BY <1>1, <1>2, <1>4 DEF Precedes, n
<1>5. ASSUME NEW c, Follows(w, c) PROVE Follows(a, c) /\ Follows(b, c)
  BY <1>1, <1>2, <1>5 DEF Follows, n
<1>6. ASSUME NEW ids, Issues(w, ids) PROVE Issues(a, ids) /\ Issues(b, ids)
  BY <1>1, <1>2, <1>6 DEF Issues, n
<1>7. ASSUME NEW id, Holds(w, id) PROVE Holds(a, id) \/ Holds(b, id)
  <2>1. PICK j \in 1..n : IsTicket(w[j].msg) /\ w[j].msg.n = id
    BY <1>7 DEF Holds, n
  <2>2. CASE j \in 1..k
    BY <1>1, <1>2, <2>1, <2>2 DEF Holds
  <2>3. CASE j - k \in 1..n - k /\ k + (j - k) = j
    <3> DEFINE i == j - k
    <3>1. i \in 1..Len(b) /\ b[i] = w[j]
      BY <1>1, <1>2, <2>3
    <3> HIDE DEF i
    <3> QED
      BY <2>1, <3>1 DEF Holds
  <2> QED
    BY <1>2, <2>2, <2>3
<1> QED
  BY <1>3, <1>4, <1>5, <1>6, <1>7 DEF n, a, b

(* The order of the tickets under way, and that they are whole: kept when  *)
(* a record is read that holds none.                                       *)
LEMMA InOrderTail ==
  ASSUME NEW s \in Seq(AllRecords), s # <<>>, NEW w, NEW c, NEW ids, InOrder(s, w, c, ids)
  PROVE  InOrder(Tail(s), w, c, ids)
<1> DEFINE n == Len(s)
           F(i) == Slot(s, w, i)
           G(i) == Slot(Tail(s), w, i)
<1>1. /\ Slots(Tail(s)) = 1..n /\ Slots(s) = 1 .. n + 1 /\ n \in Nat \ {0}
      /\ \A i \in 1..n : G(i) = F(i + 1)
  BY SlotsTail
<1>2. /\ \A i \in 1 .. n + 1 : Rising(F(i)) /\ Follows(F(i), c) /\ Issues(F(i), ids)
      /\ \A i, j \in 1 .. n + 1 : i < j => Precedes(F(i), F(j))
  BY <1>1 DEF InOrder
<1> HIDE DEF n, F, G
<1>3. /\ \A i \in 1..n : i + 1 \in 1 .. n + 1
      /\ \A i, j \in 1..n : i < j => i + 1 < j + 1
  BY <1>1
<1>4. \A i \in 1..n : Rising(G(i)) /\ Follows(G(i), c) /\ Issues(G(i), ids)
  BY <1>1, <1>2, <1>3
<1>5. \A i, j \in 1..n : i < j => Precedes(G(i), G(j))
  BY <1>1, <1>2, <1>3
<1> QED
  BY <1>1, <1>4, <1>5 DEF InOrder, G

(* The client reads a record that carries no ticket.                       *)
LEMMA UndamagedTail ==
  ASSUME NEW s \in Seq(AllRecords), s # <<>>, ~Carries(Head(s)), NEW w, NEW c, NEW ids,
         Undamaged(s, w, c, ids)
  PROVE  Undamaged(Tail(s), w, c, ids)
<1> DEFINE n == Len(s)
           F(i) == Slot(s, w, i)
           G(i) == Slot(Tail(s), w, i)
<1>1. /\ Slots(Tail(s)) = 1..n /\ Slots(s) = 1 .. n + 1 /\ n \in Nat \ {0}
      /\ \A i \in 1..n : G(i) = F(i + 1)
      /\ F(1) = <<>>
  BY SlotsTail DEF Content
<1>2. /\ \A i \in 1 .. n + 1 : Whole(F(i))
      /\ \A id \in ids : Kept(c, id) \/ \E i \in 1 .. n + 1 : Holds(F(i), id)
  BY <1>1 DEF Undamaged
<1>3. \A id : ~Holds(F(1), id)
  BY <1>1, NoUnits
<1> HIDE DEF n, F, G
<1>4. \A i \in 1..n : Whole(G(i))
  BY <1>1, <1>2
<1>5. ASSUME NEW id \in ids, ~Kept(c, id) PROVE \E i \in 1..n : Holds(G(i), id)
  <2>1. PICK i \in 1 .. n + 1 : Holds(F(i), id)
    BY <1>2, <1>5
  <2> DEFINE k == i - 1
  <2>2. k \in 1..n /\ k + 1 = i
    BY <1>1, <1>3, <2>1
  <2> HIDE DEF k
  <2>3. Holds(G(k), id)
    BY <1>1, <2>1, <2>2
  <2> QED
    BY <2>2, <2>3
<1> QED
  BY <1>1, <1>4, <1>5 DEF Undamaged, G

(* The same when a record is written: with the first k units, which are    *)
(* none if the record is no ticket record.                                 *)
LEMMA InOrderCut ==
  ASSUME NEW s \in Seq(AllRecords), NEW r \in AllRecords, NEW w \in Seq(AllUnits),
         NEW k \in 0..Len(w), Content(r) = SubSeq(w, 1, k),
         NEW c, NEW ids, InOrder(s, w, c, ids)
  PROVE  InOrder(Append(s, r), SubSeq(w, k + 1, Len(w)), c, ids)
<1> DEFINE n == Len(s)
           a == SubSeq(w, 1, k)
           b == SubSeq(w, k + 1, Len(w))
           F(i) == Slot(s, w, i)
           G(i) == Slot(Append(s, r), b, i)
           u == Content(r)
<1>0. u = a
  OBVIOUS
<1> HIDE DEF a, b
<1>1. /\ n \in Nat /\ Slots(s) = 1 .. n + 1 /\ Slots(Append(s, r)) = 1 .. n + 2
      /\ \A i \in 1..n : G(i) = F(i)
      /\ F(n + 1) = w /\ G(n + 1) = a /\ G(n + 2) = b
  <2>1. /\ n \in Nat /\ Slots(s) = 1 .. n + 1 /\ Slots(Append(s, r)) = 1 .. n + 2
        /\ \A i \in 1..n : G(i) = F(i)
        /\ F(n + 1) = w /\ G(n + 1) = u /\ G(n + 2) = b
    <3>1. Longer(s, r, w, b)
      BY SlotsAppended
    <3> QED
      BY <3>1, Zenon DEF Longer
  <2> QED
    BY <1>0, <2>1
<1>2. /\ \A i \in 1 .. n + 1 : Rising(F(i)) /\ Follows(F(i), c) /\ Issues(F(i), ids)
      /\ \A i, j \in 1 .. n + 1 : i < j => Precedes(F(i), F(j))
  BY <1>1 DEF InOrder
<1>3. /\ Rising(w) => Rising(a) /\ Rising(b) /\ Precedes(a, b)
      /\ \A v : Precedes(v, w) => Precedes(v, a) /\ Precedes(v, b)
      /\ Follows(w, c) => Follows(a, c) /\ Follows(b, c)
      /\ Issues(w, ids) => Issues(a, ids) /\ Issues(b, ids)
  BY CutOrder DEF a, b
<1> HIDE DEF n, F, G, u
<1>4. Rising(w) /\ Follows(w, c) /\ Issues(w, ids)
  <2>1. n + 1 \in 1 .. n + 1
    BY <1>1
  <2> QED
    BY <1>1, <1>2, <2>1
<1>5. ASSUME NEW i \in 1 .. n + 2
      PROVE  Rising(G(i)) /\ Follows(G(i), c) /\ Issues(G(i), ids)
  <2>1. i \in 1..n \/ i = n + 1 \/ i = n + 2
    BY <1>1
  <2>2. CASE i \in 1..n
    <3>1. i \in 1 .. n + 1
      BY <1>1, <2>2
    <3> QED
      BY <1>1, <1>2, <2>2, <3>1
  <2> QED
    BY <1>1, <1>3, <1>4, <2>1, <2>2
<1>6. ASSUME NEW i \in 1 .. n + 2, NEW j \in 1 .. n + 2, i < j
      PROVE  Precedes(G(i), G(j))
  <2>1. CASE i \in 1..n /\ j \in 1..n
    <3>1. i \in 1 .. n + 1 /\ j \in 1 .. n + 1
      BY <1>1, <2>1
    <3> QED
      BY <1>1, <1>2, <1>6, <2>1, <3>1
  <2>2. CASE i \in 1..n /\ j \in {n + 1, n + 2}
    <3>1. i \in 1 .. n + 1 /\ n + 1 \in 1 .. n + 1 /\ i < n + 1
      BY <1>1, <2>2
    <3>2. Precedes(F(i), F(n + 1))
      BY <1>2, <3>1
    <3> QED
      BY <1>1, <1>3, <2>2, <3>2
  <2>3. CASE i = n + 1 /\ j = n + 2
    BY <1>1, <1>3, <1>4, <2>3
  <2> QED
    BY <1>1, <1>6, <2>1, <2>2, <2>3
<1> QED
  BY <1>1, <1>5, <1>6 DEF InOrder, G, b

(* A run of whole tickets is cut into such runs after the second part of   *)
(* one.                                                                    *)
LEMMA WholeCut ==
  ASSUME NEW w \in Seq(AllUnits), NEW k \in 0..Len(w), Whole(w), k > 0 => w[k].part = 2
  PROVE  Whole(SubSeq(w, 1, k)) /\ Whole(SubSeq(w, k + 1, Len(w)))
<1> DEFINE n == Len(w)
           a == SubSeq(w, 1, k)
           b == SubSeq(w, k + 1, n)
<1>1. /\ Len(a) = k /\ Len(b) = n - k /\ n \in Nat /\ k \in 0..n
      /\ \A i \in 1..k : a[i] = w[i]
      /\ \A i \in 1..n - k : b[i] = w[k + i]
  BY CutUnits
<1>2. PICK m \in Nat : n = 2 * m /\ \A i \in 1..m : Pair(w[2 * i - 1], w[2 * i])
  BY DEF Whole
<1> HIDE DEF n, a, b
<1>3. \E h \in 0..m : k = 2 * h
  <2>1. PICK h \in 0..m : k = 2 * h \/ k = 2 * h - 1
    <3>1. k \in Nat /\ k <= 2 * m
      BY <1>1, <1>2
    <3>2. \A x \in Nat, y \in Nat : x <= 2 * y => \E h \in 0..y : x = 2 * h \/ x = 2 * h - 1
      <4> SUFFICES ASSUME NEW x \in Nat, NEW y \in Nat, x <= 2 * y
                   PROVE  \E h \in 0..y : x = 2 * h \/ x = 2 * h - 1
        OBVIOUS
      <4> DEFINE h == (x + 1) \div 2
      <4>1. h \in Nat /\ (x = 2 * h \/ x = 2 * h - 1)
        OBVIOUS
      <4> HIDE DEF h
      <4>2. h \in 0..y
        BY <4>1
      <4> QED
        BY <4>1, <4>2
    <3> QED
      BY <3>1, <3>2, Zenon
  <2>2. CASE k = 2 * h - 1
    <3>1. h \in 1..m /\ k > 0
      BY <1>1, <2>2
    <3>2. w[k].part = 1
      BY <1>2, <2>2, <3>1 DEF Pair
    <3> QED
      BY <3>1, <3>2
  <2> QED
    BY <2>1, <2>2
<1>4. PICK h \in 0..m : k = 2 * h
  BY <1>3
<1>5. Whole(a)
  <2>1. \A i \in 1..h : i \in 1..m /\ 2 * i - 1 \in 1..k /\ 2 * i \in 1..k
    BY <1>1, <1>4
  <2>2. \A i \in 1..h : Pair(a[2 * i - 1], a[2 * i])
    BY <1>1, <1>2, <2>1
  <2>3. h \in Nat /\ Len(a) = 2 * h
    BY <1>1, <1>4
  <2> QED
    BY <2>2, <2>3 DEF Whole
<1>6. Whole(b)
  <2> DEFINE g == m - h
  <2>1. g \in Nat /\ Len(b) = 2 * g
    BY <1>1, <1>2, <1>4
  <2>2. ASSUME NEW i \in 1..g PROVE Pair(b[2 * i - 1], b[2 * i])
    <3>1. /\ h + i \in 1..m /\ 2 * i - 1 \in 1..n - k /\ 2 * i \in 1..n - k
          /\ k + (2 * i - 1) = 2 * (h + i) - 1 /\ k + 2 * i = 2 * (h + i)
      BY <1>1, <1>2, <1>4
    <3>2. b[2 * i - 1] = w[2 * (h + i) - 1] /\ b[2 * i] = w[2 * (h + i)]
      BY <1>1, <3>1
    <3> QED
      BY <1>2, <3>1, <3>2
  <2> HIDE DEF g
  <2> QED
    BY <2>1, <2>2 DEF Whole
<1> QED
  BY <1>5, <1>6 DEF a, b, n

(* The server writes the first k units that wait into one record, and cuts *)
(* no ticket.                                                              *)
LEMMA UndamagedCut ==
  ASSUME NEW s \in Seq(AllRecords), NEW r \in AllRecords, NEW w \in Seq(AllUnits),
         NEW k \in 0..Len(w), Content(r) = SubSeq(w, 1, k),
         Whole(w) /\ k > 0 => w[k].part = 2,
         NEW c, NEW ids, Undamaged(s, w, c, ids)
  PROVE  Undamaged(Append(s, r), SubSeq(w, k + 1, Len(w)), c, ids)
<1> DEFINE n == Len(s)
           a == SubSeq(w, 1, k)
           b == SubSeq(w, k + 1, Len(w))
           F(i) == Slot(s, w, i)
           G(i) == Slot(Append(s, r), b, i)
           u == Content(r)
<1>0. u = a
  OBVIOUS
<1> HIDE DEF a, b
<1>1. /\ n \in Nat /\ Slots(s) = 1 .. n + 1 /\ Slots(Append(s, r)) = 1 .. n + 2
      /\ \A i \in 1..n : G(i) = F(i)
      /\ F(n + 1) = w /\ G(n + 1) = a /\ G(n + 2) = b
  <2>1. /\ n \in Nat /\ Slots(s) = 1 .. n + 1 /\ Slots(Append(s, r)) = 1 .. n + 2
        /\ \A i \in 1..n : G(i) = F(i)
        /\ F(n + 1) = w /\ G(n + 1) = u /\ G(n + 2) = b
    <3>1. Longer(s, r, w, b)
      BY SlotsAppended
    <3> QED
      BY <3>1, Zenon DEF Longer
  <2> QED
    BY <1>0, <2>1
<1>2. /\ \A i \in 1 .. n + 1 : Whole(F(i))
      /\ \A id \in ids : Kept(c, id) \/ \E i \in 1 .. n + 1 : Holds(F(i), id)
  BY <1>1 DEF Undamaged
<1>3. n + 1 \in 1 .. n + 1 /\ n + 1 \in 1 .. n + 2 /\ n + 2 \in 1 .. n + 2
      /\ \A i \in 1..n : i \in 1 .. n + 1 /\ i \in 1 .. n + 2
  BY <1>1
<1>4. Whole(a) /\ Whole(b)
  <2>1. Whole(w)
    BY <1>1, <1>2, <1>3
  <2> QED
    BY <2>1, WholeCut DEF a, b
<1>5. \A id : Holds(w, id) => Holds(a, id) \/ Holds(b, id)
  BY CutOrder DEF a, b
<1> HIDE DEF n, F, G, u
<1>6. ASSUME NEW i \in 1 .. n + 2 PROVE Whole(G(i))
  <2>1. i \in 1..n \/ i = n + 1 \/ i = n + 2
    BY <1>1
  <2> QED
    BY <1>1, <1>2, <1>3, <1>4, <2>1
<1>7. ASSUME NEW id \in ids, ~Kept(c, id) PROVE \E i \in 1 .. n + 2 : Holds(G(i), id)
  <2>1. PICK i \in 1 .. n + 1 : Holds(F(i), id)
    BY <1>2, <1>7
  <2>2. i \in 1..n \/ i = n + 1
    BY <1>1
  <2> QED
    BY <1>1, <1>3, <1>5, <2>1, <2>2
<1> QED
  BY <1>1, <1>6, <1>7 DEF Undamaged, G, b

(* Two units more to be written: no parts of a ticket, or a ticket with a  *)
(* number above all others.                                                *)
Above(x, y, c, ids) ==
  IsTicket(x.msg) \/ IsTicket(y.msg) =>
    /\ Pair(x, y) /\ x.msg.n \in Nat
    /\ \A z \in ids : z \in Nat /\ z < x.msg.n
    /\ \A i \in 1..Len(c) : c[i].id \in Nat /\ c[i].id < x.msg.n

(* A sequence with two more elements.                                      *)
LEMMA TwoMore ==
  ASSUME NEW w \in Seq(AllUnits), NEW x \in AllUnits, NEW y \in AllUnits
  PROVE  LET v == w \o <<x, y>> IN
         /\ v \in Seq(AllUnits) /\ Len(w) \in Nat /\ Len(v) = Len(w) + 2
         /\ \A i \in 1..Len(w) : v[i] = w[i]
         /\ v[Len(w) + 1] = x /\ v[Len(w) + 2] = y
<1> DEFINE p == <<x, y>>
<1>1. p \in Seq(AllUnits) /\ Len(p) = 2 /\ p[1] = x /\ p[2] = y
  OBVIOUS
<1> HIDE DEF p
<1>2. /\ w \o p \in Seq(AllUnits) /\ Len(w \o p) = Len(w) + Len(p)
      /\ \A i \in 1 .. Len(w) + Len(p) :
           (w \o p)[i] = IF i <= Len(w) THEN w[i] ELSE p[i - Len(w)]
  BY <1>1, ConcatProperties
<1> DEFINE n == Len(w)
           v == w \o p
<1>3. n \in Nat
  OBVIOUS
<1> HIDE DEF n, v
<1>4. /\ v \in Seq(AllUnits) /\ Len(v) = n + 2
      /\ \A i \in 1 .. n + 2 : v[i] = IF i <= n THEN w[i] ELSE p[i - n]
  BY <1>1, <1>2 DEF n, v
<1>5. \A i \in 1..n : v[i] = w[i]
  BY <1>3, <1>4
<1>6. v[n + 1] = x /\ v[n + 2] = y
  <2> DEFINE a == n + 1
             b == n + 2
  <2>1. /\ a \in 1 .. n + 2 /\ ~(a <= n) /\ a - n = 1
        /\ b \in 1 .. n + 2 /\ ~(b <= n) /\ b - n = 2
    BY <1>3
  <2> HIDE DEF a, b
  <2>2. v[a] = p[a - n] /\ v[b] = p[b - n]
    BY <1>4, <2>1, Zenon
  <2>3. v[a] = x /\ v[b] = y
    BY <1>1, <2>1, <2>2
  <2> QED
    BY <2>3 DEF a, b
<1> QED
  BY <1>3, <1>4, <1>5, <1>6 DEF n, p, v

(* The rank of a unit of a ticket.                                         *)
LEMMA RankShape ==
  ASSUME NEW x \in AllUnits
  PROVE  /\ x.msg.n \in Nat /\ x.part \in {1, 2} /\ Rank(x) = 2 * x.msg.n + x.part
         /\ Rank(x) \in Nat
<1>1. x.msg.n \in Nat /\ x.part \in {1, 2}
  BY DEF AllUnits, Messages
<1> QED
  BY <1>1 DEF Rank

(* Two units of a message above all others, behind the units that wait.    *)
LEMMA OrderOfTwoMore ==
  ASSUME NEW w \in Seq(AllUnits), NEW x \in AllUnits, NEW y \in AllUnits, NEW c, NEW ids,
         Above(x, y, c, ids), Rising(w), Follows(w, c), Issues(w, ids)
  PROVE  LET v == w \o <<x, y>> IN
         /\ Rising(v) /\ Follows(v, c)
         /\ \A more : ids \subseteq more /\ (IsTicket(x.msg) => x.msg.n \in more)
              => Issues(v, more)
         /\ \A u \in Seq(AllUnits) : Issues(u, ids) /\ Precedes(u, w) => Precedes(u, v)
<1> DEFINE n == Len(w)
           v == w \o <<x, y>>
<1>1. /\ n \in Nat /\ Len(v) = n + 2 /\ \A i \in 1..n : v[i] = w[i]
      /\ v[n + 1] = x /\ v[n + 2] = y
  BY TwoMore
<1>2. \A i \in 1..n : w[i] \in AllUnits
  OBVIOUS
<1> HIDE DEF n, v
<1>3. \A i \in 1 .. n + 2 : i \in 1..n \/ i = n + 1 \/ i = n + 2
  BY <1>1
<1>4. IsTicket(x.msg) \/ IsTicket(y.msg) =>
        Rank(x) = 2 * x.msg.n + 1 /\ Rank(y) = 2 * x.msg.n + 2
  BY RankShape DEF Above, Pair
<1>5. ASSUME NEW z \in AllUnits, IsTicket(z.msg), z.msg.n \in ids,
             IsTicket(x.msg) \/ IsTicket(y.msg)
      PROVE  Rank(z) < Rank(x) /\ Rank(z) < Rank(y)
  <2>1. z.msg.n \in Nat /\ z.part \in {1, 2} /\ Rank(z) = 2 * z.msg.n + z.part
    BY RankShape
  <2>2. z.msg.n < x.msg.n /\ x.msg.n \in Nat
    BY <1>5 DEF Above
  <2>3. Rank(x) = 2 * x.msg.n + 1 /\ Rank(y) = 2 * x.msg.n + 2
    BY <1>4, <1>5
  <2> DEFINE a == z.msg.n
             b == x.msg.n
             d == z.part
  <2>4. a \in Nat /\ b \in Nat /\ d \in {1, 2} /\ a < b
    BY <2>1, <2>2
  <2> HIDE DEF a, b, d
  <2>5. 2 * a + d < 2 * b + 1 /\ 2 * a + d < 2 * b + 2
    BY <2>4
  <2> QED
    BY <2>1, <2>3, <2>5 DEF a, b, d
<1>6. Rising(v)
  <2> SUFFICES ASSUME NEW i \in 1 .. n + 2, NEW j \in 1 .. n + 2, i < j,
                      IsTicket(v[i].msg), IsTicket(v[j].msg)
               PROVE  Rank(v[i]) < Rank(v[j])
    BY <1>1 DEF Rising
  <2>1. CASE i \in 1..n /\ j \in 1..n
    BY <1>1, <2>1 DEF Rising, n
  <2>2. CASE i \in 1..n /\ j \in {n + 1, n + 2}
    <3>1. w[i] \in AllUnits /\ v[i] = w[i]
      BY <1>1, <1>2, <2>2
    <3>2. w[i].msg.n \in ids
      BY <2>2, <3>1 DEF Issues, n
    <3>3. v[j] = x \/ v[j] = y
      BY <1>1, <2>2
    <3> QED
      BY <1>5, <3>1, <3>2, <3>3
  <2>3. CASE i = n + 1 /\ j = n + 2
    <3>1. v[i] = x /\ v[j] = y
      BY <1>1, <2>3
    <3>2. Rank(x) = 2 * x.msg.n + 1 /\ Rank(y) = 2 * x.msg.n + 2
      BY <1>4, <3>1
    <3>3. x.msg.n \in Nat
      BY RankShape
    <3> QED
      BY <3>1, <3>2, <3>3
  <2> QED
    BY <1>1, <2>1, <2>2, <2>3
<1>7. Follows(v, c)
  <2> SUFFICES ASSUME NEW i \in 1..Len(c), NEW j \in 1 .. n + 2, IsTicket(v[j].msg)
               PROVE  2 * c[i].id + 1 < Rank(v[j])
    BY <1>1 DEF Follows
  <2>1. CASE j \in 1..n
    BY <1>1, <2>1 DEF Follows, n
  <2>2. CASE j \in {n + 1, n + 2}
    <3>1. v[j] = x \/ v[j] = y
      BY <1>1, <2>2
    <3>2. c[i].id \in Nat /\ c[i].id < x.msg.n /\ x.msg.n \in Nat
      BY <3>1 DEF Above
    <3>3. Rank(x) = 2 * x.msg.n + 1 /\ Rank(y) = 2 * x.msg.n + 2
      BY <1>4, <3>1
    <3> DEFINE a == c[i].id
               b == x.msg.n
    <3>4. a \in Nat /\ b \in Nat /\ a < b
      BY <3>2
    <3> HIDE DEF a, b
    <3>5. 2 * a + 1 < 2 * b + 1 /\ 2 * a + 1 < 2 * b + 2
      BY <3>4
    <3> QED
      BY <3>1, <3>3, <3>5 DEF a, b
  <2> QED
    BY <1>3, <2>1, <2>2
<1>8. ASSUME NEW more, ids \subseteq more, IsTicket(x.msg) => x.msg.n \in more
      PROVE  Issues(v, more)
  <2> SUFFICES ASSUME NEW j \in 1 .. n + 2, IsTicket(v[j].msg) PROVE v[j].msg.n \in more
    BY <1>1 DEF Issues
  <2>1. CASE j \in 1..n
    BY <1>1, <1>8, <2>1 DEF Issues, n
  <2>2. CASE j = n + 1
    BY <1>1, <1>8, <2>2
  <2>3. CASE j = n + 2
    <3>1. v[j] = y
      BY <1>1, <2>3
    <3>2. Pair(x, y)
      BY <3>1 DEF Above
    <3> QED
      BY <1>8, <3>1, <3>2 DEF Pair
  <2> QED
    BY <1>3, <2>1, <2>2, <2>3
<1>9. ASSUME NEW u \in Seq(AllUnits), Issues(u, ids), Precedes(u, w)
      PROVE  Precedes(u, v)
  <2> SUFFICES ASSUME NEW i \in 1..Len(u), NEW j \in 1 .. n + 2,
                      IsTicket(u[i].msg), IsTicket(v[j].msg)
               PROVE  Rank(u[i]) < Rank(v[j])
    BY <1>1 DEF Precedes
  <2>1. CASE j \in 1..n
    BY <1>1, <1>9, <2>1 DEF Precedes, n
  <2>2. CASE j \in {n + 1, n + 2}
    <3>1. v[j] = x \/ v[j] = y
      BY <1>1, <2>2
    <3>2. u[i] \in AllUnits /\ u[i].msg.n \in ids
      BY <1>9 DEF Issues
    <3> QED
      BY <1>5, <3>1, <3>2
  <2> QED
    BY <1>3, <2>1, <2>2
<1> QED
  BY <1>6, <1>7, <1>8, <1>9 DEF v

(* The server queues a message: what is under way stays in order.          *)
LEMMA InOrderMore ==
  ASSUME NEW s \in Seq(AllRecords), NEW w \in Seq(AllUnits), NEW x \in AllUnits,
         NEW y \in AllUnits, NEW c, NEW ids, NEW more, Above(x, y, c, ids),
         ids \subseteq more, IsTicket(x.msg) => x.msg.n \in more, InOrder(s, w, c, ids)
  PROVE  InOrder(s, w \o <<x, y>>, c, more)
<1> DEFINE n == Len(s)
           v == w \o <<x, y>>
           F(i) == Slot(s, w, i)
           G(i) == Slot(s, v, i)
<1>1. /\ n \in Nat /\ Slots(s) = 1 .. n + 1 /\ \A i \in 1..n : G(i) = F(i)
      /\ F(n + 1) = w /\ G(n + 1) = v
  <2> HIDE DEF v
  <2>1. Otherwise(s, w, v)
    BY SlotsLast
  <2> QED
    BY <2>1, Zenon DEF Otherwise
<1>2. /\ \A i \in 1 .. n + 1 : Rising(F(i)) /\ Follows(F(i), c) /\ Issues(F(i), ids)
      /\ \A i, j \in 1 .. n + 1 : i < j => Precedes(F(i), F(j))
  BY <1>1 DEF InOrder
<1>3. \A i \in 1..n : F(i) \in Seq(AllUnits)
  <2> TAKE i \in 1..n
  <2>1. s[i] \in AllRecords
    OBVIOUS
  <2>2. Content(s[i]) \in Seq(AllUnits)
    BY <2>1, EmptySeq DEF AllRecords, Content
  <2>3. i # Len(s) + 1
    BY <1>1
  <2> QED
    BY <2>2, <2>3 DEF Slot
<1>4. n + 1 \in 1 .. n + 1 /\ \A i \in 1..n : i \in 1 .. n + 1 /\ i < n + 1
  BY <1>1
<1>5. Rising(w) /\ Follows(w, c) /\ Issues(w, ids)
  BY <1>1, <1>2, <1>4
<1>6. /\ Rising(v) /\ Follows(v, c) /\ Issues(v, more)
      /\ \A u \in Seq(AllUnits) : Issues(u, ids) /\ Precedes(u, w) => Precedes(u, v)
  BY <1>5, OrderOfTwoMore
<1>7. \A u : Issues(u, ids) => Issues(u, more)
  BY Zenon DEF Issues
<1> HIDE DEF n, F, G, v
<1>8. ASSUME NEW i \in 1 .. n + 1
      PROVE  Rising(G(i)) /\ Follows(G(i), c) /\ Issues(G(i), more)
  <2>1. i \in 1..n \/ i = n + 1
    BY <1>1
  <2> QED
    BY <1>1, <1>2, <1>6, <1>7, <2>1
<1>9. ASSUME NEW i \in 1 .. n + 1, NEW j \in 1 .. n + 1, i < j
      PROVE  Precedes(G(i), G(j))
  <2>1. i \in 1..n /\ (j \in 1..n \/ j = n + 1)
    BY <1>1, <1>9
  <2>2. CASE j \in 1..n
    BY <1>1, <1>2, <1>9, <2>1, <2>2
  <2>3. CASE j = n + 1
    <3>1. Precedes(F(i), w) /\ Issues(F(i), ids)
      BY <1>1, <1>2, <1>4, <2>1
    <3> QED
      BY <1>1, <1>3, <1>6, <2>1, <2>3, <3>1
  <2> QED
    BY <2>1, <2>2, <2>3
<1> QED
  BY <1>1, <1>8, <1>9 DEF InOrder, G, v

(* The server queues a whole ticket.                                       *)
LEMMA UndamagedMore ==
  ASSUME NEW s \in Seq(AllRecords), NEW w \in Seq(AllUnits), NEW x \in AllUnits,
         NEW y \in AllUnits, NEW c, NEW ids, Pair(x, y), Undamaged(s, w, c, ids)
  PROVE  Undamaged(s, w \o <<x, y>>, c, ids \cup {x.msg.n})
<1> DEFINE n == Len(s)
           m == Len(w)
           v == w \o <<x, y>>
           F(i) == Slot(s, w, i)
           G(i) == Slot(s, v, i)
<1>1. /\ n \in Nat /\ Slots(s) = 1 .. n + 1 /\ \A i \in 1..n : G(i) = F(i)
      /\ F(n + 1) = w /\ G(n + 1) = v
  <2> HIDE DEF v
  <2>1. Otherwise(s, w, v)
    BY SlotsLast
  <2> QED
    BY <2>1, Zenon DEF Otherwise
<1>2. /\ \A i \in 1 .. n + 1 : Whole(F(i))
      /\ \A id \in ids : Kept(c, id) \/ \E i \in 1 .. n + 1 : Holds(F(i), id)
  BY <1>1 DEF Undamaged
<1>3. /\ m \in Nat /\ Len(v) = m + 2 /\ \A i \in 1..m : v[i] = w[i]
      /\ v[m + 1] = x /\ v[m + 2] = y
  BY TwoMore
<1>4. n + 1 \in 1 .. n + 1 /\ \A i \in 1..n : i \in 1 .. n + 1
  BY <1>1
<1>5. PICK h \in Nat : m = 2 * h /\ \A i \in 1..h : Pair(w[2 * i - 1], w[2 * i])
  <2>1. Whole(w)
    BY <1>1, <1>2, <1>4
  <2> QED
    BY <2>1 DEF Whole
<1> HIDE DEF n, m, F, G, v
<1>6. Whole(v)
  <2>1. h + 1 \in Nat /\ Len(v) = 2 * (h + 1)
    BY <1>3, <1>5
  <2>2. ASSUME NEW i \in 1 .. h + 1 PROVE Pair(v[2 * i - 1], v[2 * i])
    <3>1. CASE i \in 1..h
      <4>1. 2 * i - 1 \in 1..m /\ 2 * i \in 1..m
        BY <1>3, <1>5, <3>1
      <4> QED
        BY <1>3, <1>5, <3>1, <4>1
    <3>2. CASE i = h + 1
      <4>1. 2 * i - 1 = m + 1 /\ 2 * i = m + 2
        BY <1>5, <3>2
      <4> QED
        BY <1>3, <4>1
    <3> QED
      BY <3>1, <3>2
  <2> DEFINE g == h + 1
  <2> HIDE DEF g
  <2>3. g \in Nat /\ Len(v) = 2 * g /\ \A i \in 1..g : Pair(v[2 * i - 1], v[2 * i])
    BY <2>1, <2>2 DEF g
  <2> QED
    BY <2>3 DEF Whole
<1>7. Holds(v, x.msg.n) /\ \A id : Holds(w, id) => Holds(v, id)
  <2>1. Holds(v, x.msg.n)
    <3>1. m + 1 \in 1..Len(v) /\ IsTicket(v[m + 1].msg) /\ v[m + 1].msg.n = x.msg.n
      BY <1>3 DEF Pair
    <3> QED
      BY <3>1 DEF Holds
  <2>2. ASSUME NEW id, Holds(w, id) PROVE Holds(v, id)
    <3>1. PICK j \in 1..m : IsTicket(w[j].msg) /\ w[j].msg.n = id
      BY <2>2 DEF Holds, m
    <3>2. j \in 1..Len(v) /\ v[j] = w[j]
      BY <1>3
    <3> QED
      BY <3>1, <3>2 DEF Holds
  <2> QED
    BY <2>1, <2>2
<1>8. ASSUME NEW i \in 1 .. n + 1 PROVE Whole(G(i))
  <2>1. i \in 1..n \/ i = n + 1
    BY <1>1
  <2> QED
    BY <1>1, <1>2, <1>4, <1>6, <2>1
<1>9. ASSUME NEW id \in ids \cup {x.msg.n}, ~Kept(c, id)
      PROVE  \E i \in 1 .. n + 1 : Holds(G(i), id)
  <2>1. CASE id = x.msg.n
    BY <1>1, <1>4, <1>7, <2>1
  <2>2. CASE id \in ids
    <3>1. PICK i \in 1 .. n + 1 : Holds(F(i), id)
      BY <1>2, <1>9, <2>2
    <3>2. i \in 1..n \/ i = n + 1
      BY <1>1
    <3>3. Holds(G(i), id)
      BY <1>1, <1>7, <3>1, <3>2
    <3> QED
      BY <3>3
  <2> QED
    BY <2>1, <2>2
<1> QED
  BY <1>1, <1>8, <1>9 DEF Undamaged, G, v

(* The cache with the tickets of a run of units, in the order they had     *)
(* there.                                                                  *)
CachedTickets == [id : Nat, hash : {<<>>}]
Sorted(c) == \A i, j \in 1..Len(c) : i < j => c[i].id < c[j].id

(* The cache with the tickets of one record.                               *)
LEMMA CacheWith ==
  ASSUME NEW u \in Seq(AllUnits), NEW c \in Seq(CachedTickets)
  PROVE  LET d == c \o WholeTickets(u) IN
         /\ d \in Seq(CachedTickets)
         /\ \E m \in Nat :
              /\ Len(c) \in Nat /\ Len(d) = Len(c) + m /\ 2 * m <= Len(u)
              /\ \A j \in 1 .. 2 * m : IsTicket(u[j].msg)
              /\ \A i \in Nat : 2 * i <= Len(u) /\ (\A j \in 1 .. 2 * i : IsTicket(u[j].msg))
                                  => i <= m
              /\ \A i \in 1..Len(c) : d[i] = c[i]
              /\ \A i \in 1..m : d[Len(c) + i].id = u[2 * i].msg.n
<1> DEFINE t == WholeTickets(u)
           d == c \o t
<1>1. PICK m \in Nat :
        /\ 2 * m <= Len(u) /\ \A j \in 1 .. 2 * m : IsTicket(u[j].msg)
        /\ \A i \in Nat : 2 * i <= Len(u) /\ (\A j \in 1 .. 2 * i : IsTicket(u[j].msg))
                            => i <= m
        /\ t = [i \in 1..m |-> [id |-> u[2 * i].msg.n, hash |-> <<>>]]
        /\ t \in Seq(CachedTickets)
  BY StoredTickets DEF CachedTickets
<1>2. Len(t) = m /\ \A i \in 1..m : t[i].id = u[2 * i].msg.n
  BY <1>1
<1> HIDE DEF t
<1>3. /\ d \in Seq(CachedTickets) /\ Len(d) = Len(c) + Len(t)
      /\ \A i \in 1 .. Len(c) + Len(t) : d[i] = IF i <= Len(c) THEN c[i] ELSE t[i - Len(c)]
  BY <1>1, ConcatProperties
<1> DEFINE n == Len(c)
<1>4. n \in Nat
  OBVIOUS
<1> HIDE DEF n, d
<1>5. Len(d) = n + m /\ \A i \in 1 .. n + m : d[i] = IF i <= n THEN c[i] ELSE t[i - n]
  BY <1>2, <1>3 DEF n
<1>6. \A i \in 1..n : d[i] = c[i]
  BY <1>4, <1>5
<1>7. ASSUME NEW i \in 1..m PROVE d[n + i].id = u[2 * i].msg.n
  <2> DEFINE k == n + i
  <2>1. k \in 1 .. n + m /\ ~(k <= n) /\ k - n = i
    BY <1>4
  <2> HIDE DEF k
  <2>2. d[k] = t[i]
    BY <1>5, <2>1
  <2> QED
    BY <1>2, <2>2 DEF k
<1> QED
  BY <1>1, <1>3, <1>4, <1>5, <1>6, <1>7 DEF n, d, t

(* The parts of whole tickets, one after the other.                        *)
LEMMA RanksApart ==
  ASSUME NEW u \in Seq(AllUnits), NEW m \in Nat, 2 * m <= Len(u), Rising(u),
         \A j \in 1 .. 2 * m : IsTicket(u[j].msg)
  PROVE  /\ \A i \in 1..m : /\ u[2 * i].msg.n \in Nat
                            /\ 2 * u[2 * i].msg.n + 1 <= Rank(u[2 * i])
                            /\ Rank(u[2 * i]) <= 2 * u[2 * i].msg.n + 2
                            /\ Rank(u[2 * i - 1]) < Rank(u[2 * i])
                            /\ Rank(u[2 * i]) \in Nat /\ Rank(u[2 * i - 1]) \in Nat
                            /\ 2 * i \in 1..Len(u) /\ 2 * i - 1 \in 1..Len(u)
                            /\ IsTicket(u[2 * i].msg) /\ IsTicket(u[2 * i - 1].msg)
         /\ \A i, k \in 1..m : i < k => u[2 * i].msg.n < u[2 * k].msg.n
<1>1. Len(u) \in Nat
  OBVIOUS
<1>2. ASSUME NEW i \in 1..m
      PROVE  /\ u[2 * i].msg.n \in Nat
             /\ 2 * u[2 * i].msg.n + 1 <= Rank(u[2 * i])
             /\ Rank(u[2 * i]) <= 2 * u[2 * i].msg.n + 2
             /\ Rank(u[2 * i - 1]) < Rank(u[2 * i])
             /\ Rank(u[2 * i]) \in Nat /\ Rank(u[2 * i - 1]) \in Nat
             /\ 2 * i \in 1..Len(u) /\ 2 * i - 1 \in 1..Len(u)
             /\ IsTicket(u[2 * i].msg) /\ IsTicket(u[2 * i - 1].msg)
  <2> DEFINE a == 2 * i
             b == 2 * i - 1
  <2>1. a \in 1..Len(u) /\ b \in 1..Len(u) /\ b < a /\ a \in 1 .. 2 * m /\ b \in 1 .. 2 * m
    BY <1>1
  <2> HIDE DEF a, b
  <2>2. u[a] \in AllUnits /\ u[b] \in AllUnits /\ IsTicket(u[a].msg) /\ IsTicket(u[b].msg)
    BY <2>1
  <2>3. Rank(u[b]) < Rank(u[a])
    BY <2>1, <2>2 DEF Rising
  <2>4. /\ u[a].msg.n \in Nat /\ u[a].part \in {1, 2}
        /\ Rank(u[a]) = 2 * u[a].msg.n + u[a].part /\ Rank(u[a]) \in Nat
        /\ Rank(u[b]) \in Nat
    BY <2>2, RankShape
  <2>5. 2 * u[a].msg.n + 1 <= Rank(u[a]) /\ Rank(u[a]) <= 2 * u[a].msg.n + 2
    <3> DEFINE x == u[a].msg.n
               q == u[a].part
               z == Rank(u[a])
    <3>1. x \in Nat /\ q \in {1, 2} /\ z = 2 * x + q
      BY <2>4
    <3> HIDE DEF x, q, z
    <3>2. 2 * x + 1 <= z /\ z <= 2 * x + 2
      BY <3>1
    <3> QED
      BY <3>2 DEF x, z
  <2> QED
    BY <2>1, <2>2, <2>3, <2>4, <2>5 DEF a, b
<1>3. ASSUME NEW i \in 1..m, NEW k \in 1..m, i < k
      PROVE  u[2 * i].msg.n < u[2 * k].msg.n
  <2> DEFINE a == 2 * i
             b == 2 * k - 1
             e == 2 * k
             x == u[a].msg.n
             y == u[e].msg.n
  <2>1. a < b
    BY <1>3
  <2>2. /\ a \in 1..Len(u) /\ IsTicket(u[a].msg) /\ x \in Nat
        /\ 2 * x + 1 <= Rank(u[a]) /\ Rank(u[a]) \in Nat
    BY <1>2
  <2>3. /\ b \in 1..Len(u) /\ IsTicket(u[b].msg) /\ y \in Nat /\ Rank(u[e]) <= 2 * y + 2
        /\ Rank(u[b]) < Rank(u[e]) /\ Rank(u[e]) \in Nat /\ Rank(u[b]) \in Nat
    BY <1>2
  <2> HIDE DEF a, b, e
  <2>4. Rank(u[a]) < Rank(u[b])
    BY <2>1, <2>2, <2>3 DEF Rising
  <2> HIDE DEF x, y
  <2>5. x < y
    BY <2>2, <2>3, <2>4
  <2> QED
    BY <2>5 DEF x, y, a, e
<1> QED
  BY <1>2, <1>3

(* A record's tickets go behind those in the cache, before all that        *)
(* follow.                                                                 *)
LEMMA StoredOrder ==
  ASSUME NEW u \in Seq(AllUnits), NEW c \in Seq(CachedTickets), NEW ids,
         Rising(u), Follows(u, c), Issues(u, ids)
  PROVE  LET d == c \o WholeTickets(u) IN
         /\ \A v \in Seq(AllUnits) : Follows(v, c) /\ Precedes(u, v) => Follows(v, d)
         /\ Sorted(c) => Sorted(d)
         /\ \A i \in 1..Len(d) : (\E j \in 1..Len(c) : d[i] = c[j]) \/ d[i].id \in ids
<1> DEFINE d == c \o WholeTickets(u)
           n == Len(c)
<1>1. PICK m \in Nat :
        /\ n \in Nat /\ Len(d) = n + m /\ 2 * m <= Len(u)
        /\ \A j \in 1 .. 2 * m : IsTicket(u[j].msg)
        /\ \A i \in 1..n : d[i] = c[i]
        /\ \A i \in 1..m : d[n + i].id = u[2 * i].msg.n
  BY CacheWith
<1>2. /\ \A i \in 1..m : /\ u[2 * i].msg.n \in Nat
                         /\ 2 * u[2 * i].msg.n + 1 <= Rank(u[2 * i])
                         /\ Rank(u[2 * i]) <= 2 * u[2 * i].msg.n + 2
                         /\ Rank(u[2 * i - 1]) < Rank(u[2 * i])
                         /\ Rank(u[2 * i]) \in Nat /\ Rank(u[2 * i - 1]) \in Nat
                         /\ 2 * i \in 1..Len(u) /\ 2 * i - 1 \in 1..Len(u)
                         /\ IsTicket(u[2 * i].msg) /\ IsTicket(u[2 * i - 1].msg)
      /\ \A i, k \in 1..m : i < k => u[2 * i].msg.n < u[2 * k].msg.n
  BY <1>1, RanksApart
<1>3. \A i \in 1..n : c[i].id \in Nat
  <2> TAKE i \in 1..n
  <2>1. c[i] \in CachedTickets
    OBVIOUS
  <2> QED
    BY <2>1 DEF CachedTickets
<1> HIDE DEF d, n
<1>4. \A i \in 1..Len(d) : i \in 1..n \/ (i - n \in 1..m /\ n + (i - n) = i)
  BY <1>1
<1>5. ASSUME NEW v \in Seq(AllUnits), Follows(v, c), Precedes(u, v) PROVE Follows(v, d)
  <2> SUFFICES ASSUME NEW i \in 1..Len(d), NEW j \in 1..Len(v), IsTicket(v[j].msg)
               PROVE  2 * d[i].id + 1 < Rank(v[j])
    BY DEF Follows
  <2>1. CASE i \in 1..n
    BY <1>1, <1>5, <2>1 DEF Follows, n
  <2>2. CASE i - n \in 1..m /\ n + (i - n) = i
    <3> DEFINE k == i - n
    <3>1. k \in 1..m /\ d[i].id = u[2 * k].msg.n
      BY <1>1, <2>2
    <3> HIDE DEF k
    <3> DEFINE a == 2 * k
               x == u[a].msg.n
    <3>2. /\ a \in 1..Len(u) /\ IsTicket(u[a].msg) /\ x \in Nat
          /\ 2 * x + 1 <= Rank(u[a]) /\ Rank(u[a]) \in Nat
      BY <1>2, <3>1
    <3> HIDE DEF a
    <3>3. Rank(u[a]) < Rank(v[j])
      BY <1>5, <3>2 DEF Precedes
    <3>4. Rank(v[j]) \in Nat
      BY RankShape
    <3> HIDE DEF x
    <3>5. 2 * x + 1 < Rank(v[j])
      BY <3>2, <3>3, <3>4
    <3> QED
      BY <3>1, <3>5 DEF x, a
  <2> QED
    BY <1>4, <2>1, <2>2
<1>6. ASSUME Sorted(c) PROVE Sorted(d)
  <2> SUFFICES ASSUME NEW i \in 1..Len(d), NEW j \in 1..Len(d), i < j
               PROVE  d[i].id < d[j].id
    BY DEF Sorted
  <2>0. i < j
    OBVIOUS
  <2>1. CASE i \in 1..n /\ j \in 1..n
    BY <1>1, <1>6, <2>1 DEF Sorted, n
  <2>2. CASE i \in 1..n /\ j - n \in 1..m /\ n + (j - n) = j
    <3> DEFINE k == j - n
    <3>1. k \in 1..m /\ d[j].id = u[2 * k].msg.n
      BY <1>1, <2>2
    <3> HIDE DEF k
    <3> DEFINE a == 2 * k - 1
               e == 2 * k
               y == u[e].msg.n
               x == c[i].id
    <3>2. /\ a \in 1..Len(u) /\ IsTicket(u[a].msg) /\ y \in Nat
          /\ Rank(u[e]) <= 2 * y + 2 /\ Rank(u[e]) \in Nat /\ Rank(u[a]) \in Nat
          /\ Rank(u[a]) < Rank(u[e])
      BY <1>2, <3>1
    <3> HIDE DEF a, e
    <3>3. 2 * x + 1 < Rank(u[a])
      BY <2>2, <3>2 DEF Follows, n
    <3>4. x \in Nat /\ d[i].id = x
      BY <1>1, <1>3, <2>2
    <3> HIDE DEF x, y
    <3>5. x < y
      BY <3>2, <3>3, <3>4
    <3> QED
      BY <3>1, <3>4, <3>5 DEF y, e
  <2>3. CASE i - n \in 1..m /\ n + (i - n) = i /\ j - n \in 1..m /\ n + (j - n) = j
    <3> DEFINE k == i - n
               l == j - n
    <3>1. k \in 1..m /\ l \in 1..m /\ k < l /\ n + k = i /\ n + l = j
      <4>1. k \in 1..m /\ l \in 1..m /\ n + k = i /\ n + l = j
        BY <2>3, Zenon
      <4> HIDE DEF k, l
      <4>2. n + k < n + l
        BY <2>0, <4>1, Zenon
      <4>3. k < l
        BY <1>1, <4>1, <4>2
      <4> QED
        BY <4>1, <4>3
    <3> HIDE DEF k, l
    <3>2. d[i].id = u[2 * k].msg.n /\ d[j].id = u[2 * l].msg.n
      BY <1>1, <3>1
    <3> QED
      BY <1>2, <3>1, <3>2
  <2>4. ~(i - n \in 1..m /\ j \in 1..n)
    BY <1>1
  <2> QED
    BY <1>4, <2>1, <2>2, <2>3, <2>4
<1>7. ASSUME NEW i \in 1..Len(d)
      PROVE  (\E j \in 1..n : d[i] = c[j]) \/ d[i].id \in ids
  <2>1. CASE i \in 1..n
    BY <1>1, <2>1
  <2>2. CASE i - n \in 1..m /\ n + (i - n) = i
    <3> DEFINE k == i - n
    <3>1. k \in 1..m /\ d[i].id = u[2 * k].msg.n
      BY <1>1, <2>2
    <3> HIDE DEF k
    <3> DEFINE a == 2 * k
    <3>2. a \in 1..Len(u) /\ IsTicket(u[a].msg)
      BY <1>2, <3>1
    <3> HIDE DEF a
    <3>3. u[a].msg.n \in ids
      BY <3>2 DEF Issues
    <3> QED
      BY <3>1, <3>3 DEF a
  <2> QED
    BY <1>4, <2>1, <2>2
<1> QED
  BY <1>5, <1>6, <1>7 DEF d, n

(* Of whole tickets all are stored.                                        *)
LEMMA StoredWhole ==
  ASSUME NEW u \in Seq(AllUnits), NEW c \in Seq(CachedTickets)
  PROVE  LET d == c \o WholeTickets(u) IN
         /\ \A id : Kept(c, id) => Kept(d, id)
         /\ Whole(u) => \A id : Holds(u, id) => Kept(d, id)
<1> DEFINE d == c \o WholeTickets(u)
           n == Len(c)
<1>1. PICK m \in Nat :
        /\ n \in Nat /\ Len(d) = n + m
        /\ \A i \in Nat : 2 * i <= Len(u) /\ (\A j \in 1 .. 2 * i : IsTicket(u[j].msg))
                            => i <= m
        /\ \A i \in 1..n : d[i] = c[i]
        /\ \A i \in 1..m : d[n + i].id = u[2 * i].msg.n
  BY CacheWith
<1> HIDE DEF d, n
<1>2. ASSUME NEW id, Kept(c, id) PROVE Kept(d, id)
  <2>1. PICK i \in 1..n : c[i].id = id
    BY <1>2 DEF Kept, n
  <2>2. i \in 1..Len(d) /\ d[i].id = id
    BY <1>1, <2>1
  <2> QED
    BY <2>2 DEF Kept
<1>3. ASSUME Whole(u), NEW id, Holds(u, id) PROVE Kept(d, id)
  <2>1. PICK h \in Nat : Len(u) = 2 * h /\ \A i \in 1..h : Pair(u[2 * i - 1], u[2 * i])
    BY <1>3 DEF Whole
  <2>2. PICK j \in 1..Len(u) : u[j].msg.n = id
    BY <1>3 DEF Holds
  <2>3. \A k \in 1 .. 2 * h : \E i \in 1..h : k = 2 * i - 1 \/ k = 2 * i
    <3> TAKE k \in 1 .. 2 * h
    <3>1. (k + 1) \div 2 \in 1..h /\ (k = 2 * ((k + 1) \div 2) - 1 \/ k = 2 * ((k + 1) \div 2))
      BY <2>1
    <3> QED
      BY <3>1
  <2>4. h <= m
    <3>1. \A k \in 1 .. 2 * h : IsTicket(u[k].msg)
      BY <2>1, <2>3 DEF Pair
    <3>2. 2 * h <= Len(u)
      BY <2>1
    <3> QED
      BY <1>1, <3>1, <3>2
  <2>5. PICK i \in 1..h : j = 2 * i - 1 \/ j = 2 * i
    BY <2>1, <2>2, <2>3
  <2>6. u[2 * i].msg.n = id
    BY <2>1, <2>2, <2>5 DEF Pair
  <2>7. i \in 1..m /\ n + i \in 1..Len(d)
    BY <1>1, <2>4
  <2>8. d[n + i].id = id
    BY <1>1, <2>6, <2>7
  <2> QED
    BY <2>7, <2>8 DEF Kept
<1> QED
  BY <1>2, <1>3 DEF d, n

(* The tickets in the first record are put into the cache.                 *)
LEMMA InOrderStored ==
  ASSUME NEW s \in Seq(AllRecords), s # <<>>, Carries(Head(s)), NEW w \in Seq(AllUnits),
         NEW c \in Seq(CachedTickets), NEW ids, InOrder(s, w, c, ids)
  PROVE  LET d == c \o WholeTickets(Head(s).units) IN
         /\ InOrder(Tail(s), w, d, ids)
         /\ Sorted(c) => Sorted(d)
         /\ \A i \in 1..Len(d) : (\E j \in 1..Len(c) : d[i] = c[j]) \/ d[i].id \in ids
<1> DEFINE n == Len(s)
           u == Head(s).units
           d == c \o WholeTickets(u)
           F(i) == Slot(s, w, i)
           G(i) == Slot(Tail(s), w, i)
<1>1. /\ Slots(Tail(s)) = 1..n /\ Slots(s) = 1 .. n + 1 /\ n \in Nat \ {0}
      /\ \A i \in 1..n : G(i) = F(i + 1)
      /\ F(1) = u
  BY SlotsTail DEF Content
<1>2. /\ \A i \in 1 .. n + 1 : Rising(F(i)) /\ Follows(F(i), c) /\ Issues(F(i), ids)
      /\ \A i, j \in 1 .. n + 1 : i < j => Precedes(F(i), F(j))
  BY <1>1 DEF InOrder
<1>3. u \in Seq(AllUnits) /\ \A i \in 1 .. n + 1 : F(i) \in Seq(AllUnits)
  <2>1. Head(s) \in AllRecords
    OBVIOUS
  <2>2. u \in Seq(AllUnits)
    BY <2>1 DEF AllRecords
  <2>3. ASSUME NEW i \in 1 .. n + 1 PROVE F(i) \in Seq(AllUnits)
    <3>1. CASE i = Len(s) + 1
      BY <3>1 DEF Slot
    <3>2. CASE i # Len(s) + 1
      <4>1. s[i] \in AllRecords
        BY <3>2
      <4>2. Content(s[i]) \in Seq(AllUnits)
        BY <4>1, EmptySeq DEF AllRecords, Content
      <4> QED
        BY <3>2, <4>2 DEF Slot
    <3> QED
      BY <3>1, <3>2
  <2> QED
    BY <2>2, <2>3
<1> HIDE DEF n, F, G
<1>4. Rising(u) /\ Follows(u, c) /\ Issues(u, ids)
  <2>1. 1 \in 1 .. n + 1
    BY <1>1
  <2> QED
    BY <1>1, <1>2, <2>1
<1> HIDE DEF u
<1>5. /\ \A v \in Seq(AllUnits) : Follows(v, c) /\ Precedes(u, v) => Follows(v, d)
      /\ Sorted(c) => Sorted(d)
      /\ \A i \in 1..Len(d) : (\E j \in 1..Len(c) : d[i] = c[j]) \/ d[i].id \in ids
  BY <1>3, <1>4, StoredOrder
<1> HIDE DEF d
<1>6. \A i \in 1..n : 1 \in 1 .. n + 1 /\ i + 1 \in 1 .. n + 1 /\ 1 < i + 1
  BY <1>1
<1>7. ASSUME NEW i \in 1..n PROVE Rising(G(i)) /\ Follows(G(i), d) /\ Issues(G(i), ids)
  <2> DEFINE k == i + 1
  <2>1. 1 \in 1 .. n + 1 /\ k \in 1 .. n + 1 /\ 1 < k /\ G(i) = F(k)
    BY <1>1, <1>6
  <2> HIDE DEF k
  <2>2. Precedes(u, F(k)) /\ Rising(F(k)) /\ Follows(F(k), c) /\ Issues(F(k), ids)
        /\ F(k) \in Seq(AllUnits)
    BY <1>1, <1>2, <1>3, <2>1
  <2> QED
    BY <1>5, <2>1, <2>2
<1>8. ASSUME NEW i \in 1..n, NEW j \in 1..n, i < j PROVE Precedes(G(i), G(j))
  <2> DEFINE k == i + 1
             l == j + 1
  <2>1. k \in 1 .. n + 1 /\ l \in 1 .. n + 1 /\ k < l /\ G(i) = F(k) /\ G(j) = F(l)
    BY <1>1, <1>6, <1>8
  <2> HIDE DEF k, l
  <2> QED
    BY <1>2, <2>1
<1>9. InOrder(Tail(s), w, d, ids)
  BY <1>1, <1>7, <1>8 DEF InOrder, G
<1> QED
  BY <1>5, <1>9 DEF d, u

(* The client stores a record of whole tickets: it misses none.            *)
LEMMA UndamagedStored ==
  ASSUME NEW s \in Seq(AllRecords), s # <<>>, Carries(Head(s)), NEW w \in Seq(AllUnits),
         NEW c \in Seq(CachedTickets), NEW ids, Undamaged(s, w, c, ids)
  PROVE  /\ Undamaged(Tail(s), w, c \o WholeTickets(Head(s).units), ids)
         /\ Whole(Head(s).units)
<1> DEFINE n == Len(s)
           u == Head(s).units
           d == c \o WholeTickets(u)
           F(i) == Slot(s, w, i)
           G(i) == Slot(Tail(s), w, i)
<1>1. /\ Slots(Tail(s)) = 1..n /\ Slots(s) = 1 .. n + 1 /\ n \in Nat \ {0}
      /\ \A i \in 1..n : G(i) = F(i + 1)
      /\ F(1) = u
  BY SlotsTail DEF Content
<1>2. /\ \A i \in 1 .. n + 1 : Whole(F(i))
      /\ \A id \in ids : Kept(c, id) \/ \E i \in 1 .. n + 1 : Holds(F(i), id)
  BY <1>1 DEF Undamaged
<1>3. u \in Seq(AllUnits)
  <2>1. Head(s) \in AllRecords
    OBVIOUS
  <2> QED
    BY <2>1 DEF AllRecords
<1> HIDE DEF n, F, G
<1>4. Whole(u)
  <2>1. 1 \in 1 .. n + 1
    BY <1>1
  <2> QED
    BY <1>1, <1>2, <2>1
<1> HIDE DEF u
<1>5. /\ \A id : Kept(c, id) => Kept(d, id)
      /\ \A id : Holds(u, id) => Kept(d, id)
  BY <1>3, <1>4, StoredWhole
<1> HIDE DEF d
<1>6. \A i \in 1..n : Whole(G(i))
  BY <1>1, <1>2
<1>7. ASSUME NEW id \in ids, ~Kept(d, id) PROVE \E i \in 1..n : Holds(G(i), id)
  <2>1. PICK i \in 1 .. n + 1 : Holds(F(i), id)
    BY <1>2, <1>5, <1>7
  <2>2. i # 1
    BY <1>1, <1>5, <1>7, <2>1
  <2> DEFINE k == i - 1
  <2>3. k \in 1..n /\ k + 1 = i
    BY <1>1, <2>2
  <2> HIDE DEF k
  <2>4. Holds(G(k), id)
    BY <1>1, <2>1, <2>3
  <2> QED
    BY <2>3, <2>4
<1>8. Undamaged(Tail(s), w, d, ids)
  BY <1>1, <1>6, <1>7 DEF Undamaged, G
<1> QED
  BY <1>4, <1>8 DEF d, u

(* Nothing is under way in an empty stream.                                *)
LEMMA NothingUnderWay ==
  ASSUME NEW c, NEW ids
  PROVE  /\ InOrder(<<>>, <<>>, c, ids)
         /\ (\A id \in ids : Kept(c, id)) <=> Undamaged(<<>>, <<>>, c, ids)
         /\ Counted(<<>>, 0, 0)
<1>1. Len(<<>>) = 0
  OBVIOUS
<1>2. Slots(<<>>) = {1} /\ Slot(<<>>, <<>>, 1) = <<>>
  BY <1>1 DEF Slots, Slot
<1>3. /\ Rising(<<>>) /\ Follows(<<>>, c) /\ Issues(<<>>, ids) /\ Whole(<<>>)
      /\ \A id : ~Holds(<<>>, id)
  BY NoUnits
<1>4. InOrder(<<>>, <<>>, c, ids)
  BY <1>2, <1>3 DEF InOrder
<1>5. (\A id \in ids : Kept(c, id)) <=> Undamaged(<<>>, <<>>, c, ids)
  BY <1>2, <1>3 DEF Undamaged
<1>6. Counted(<<>>, 0, 0)
  <2> DEFINE f == [i \in 1..Len(<<>>) + 1 |-> 0]
  <2>1. f \in [1..Len(<<>>) + 1 -> 0..0] /\ f[1] = 0 /\ f[Len(<<>>) + 1] = 0
        /\ \A i \in 1..Len(<<>>) : FALSE
    BY <1>1
  <2> HIDE DEF f
  <2> QED
    BY <2>1 DEF Counted
<1> QED
  BY <1>4, <1>5, <1>6

(* Data records written, and read.                                         *)
Datum(r) == IF r.type = "data" THEN 1 ELSE 0

(* The server sends one more record.                                       *)
LEMMA CountedMore ==
  ASSUME NEW s \in Seq(AllRecords), NEW r \in AllRecords, NEW p \in Nat, NEW q \in Nat,
         Counted(s, p, q)
  PROVE  Counted(Append(s, r), p, q + Datum(r))
<1> DEFINE n == Len(s)
           t == Append(s, r)
           g == q + Datum(r)
<1>1. PICK at \in [1..n + 1 -> 0..q] :
        /\ at[1] = p /\ at[n + 1] = q
        /\ \A i \in 1..n : at[i + 1] = at[i] + Datum(s[i])
  BY DEF Counted, Datum
<1>2. n \in Nat /\ Len(t) = n + 1 /\ t[n + 1] = r /\ \A i \in 1..n : t[i] = s[i]
  OBVIOUS
<1>3. g \in Nat /\ q <= g
  BY DEF Datum
<1> HIDE DEF n, t, g
<1> DEFINE to == [i \in 1..n + 2 |-> IF i <= n + 1 THEN at[i] ELSE g]
<1>4. to \in [1..Len(t) + 1 -> 0..g]
  <2>1. \A i \in 1..n + 2 : (IF i <= n + 1 THEN at[i] ELSE g) \in 0..g
    <3> TAKE i \in 1..n + 2
    <3>1. i <= n + 1 => at[i] \in 0..q
      BY <1>1, <1>2
    <3> QED
      BY <1>3, <3>1
  <2>2. Len(t) + 1 = n + 2
    BY <1>2
  <2> QED
    BY <2>1, <2>2
<1>5. /\ to[1] = p /\ to[n + 1] = q /\ to[n + 2] = g
      /\ \A i \in 1..n + 1 : to[i] = at[i]
  BY <1>1, <1>2
<1> HIDE DEF to
<1>6. ASSUME NEW i \in 1..n + 1 PROVE to[i + 1] = to[i] + Datum(t[i])
  <2>1. CASE i \in 1..n
    <3>1. at[i + 1] = at[i] + Datum(s[i]) /\ i + 1 \in 1..n + 1
      BY <1>1, <1>2, <2>1
    <3> QED
      BY <1>2, <1>5, <2>1, <3>1
  <2>2. CASE i = n + 1
    <3>1. to[i] = q /\ to[i + 1] = g /\ t[i] = r
      BY <1>2, <1>5, <2>2
    <3> QED
      BY <3>1 DEF g
  <2>3. i \in 1..n \/ i = n + 1
    BY <1>2
  <2> QED
    BY <2>1, <2>2, <2>3
<1>7. to[Len(t) + 1] = g /\ Len(t) = n + 1
  BY <1>2, <1>5
<1>8. Counted(t, p, g)
  BY <1>4, <1>5, <1>6, <1>7 DEF Counted, Datum
<1> QED
  BY <1>8 DEF t, g

(* The client reads the first record.                                      *)
LEMMA CountedTail ==
  ASSUME NEW s \in Seq(AllRecords), s # <<>>, NEW p \in Nat, NEW q \in Nat, Counted(s, p, q)
  PROVE  Counted(Tail(s), p + Datum(Head(s)), q)
<1> DEFINE n == Len(s)
           t == Tail(s)
<1>1. PICK at \in [1..n + 1 -> 0..q] :
        /\ at[1] = p /\ at[n + 1] = q
        /\ \A i \in 1..n : at[i + 1] = at[i] + Datum(s[i])
  BY DEF Counted, Datum
<1>2. n \in Nat \ {0} /\ s[1] = Head(s) /\ Len(t) = n - 1
  OBVIOUS
<1>3. \A i \in 1..n - 1 : t[i] = s[i + 1]
  OBVIOUS
<1> HIDE DEF n, t
<1> DEFINE to == [i \in 1..n |-> at[i + 1]]
<1>4. \A i \in 1..n : i + 1 \in 1..n + 1
  BY <1>2
<1>5. to \in [1..n -> 0..q] /\ \A i \in 1..n : to[i] = at[i + 1]
  BY <1>1, <1>4
<1> HIDE DEF to
<1>6. to[1] = p + Datum(Head(s)) /\ to[n] = q
  <2>1. 1 \in 1..n /\ 1 + 1 = 2 /\ n \in 1..n
    BY <1>2
  <2>2. at[2] = at[1] + Datum(s[1])
    BY <1>1, <2>1
  <2> QED
    BY <1>1, <1>2, <1>5, <2>1, <2>2
<1>7. Len(t) + 1 = n
  BY <1>2
<1>8. ASSUME NEW i \in 1..Len(t) PROVE to[i + 1] = to[i] + Datum(t[i])
  <2>1. i \in 1..n - 1 /\ i \in 1..n /\ i + 1 \in 1..n
    BY <1>2
  <2>2. at[(i + 1) + 1] = at[i + 1] + Datum(s[i + 1])
    BY <1>1, <2>1
  <2> QED
    BY <1>3, <1>5, <2>1, <2>2
<1>9. Counted(t, p + Datum(Head(s)), q)
  BY <1>5, <1>6, <1>7, <1>8 DEF Counted, Datum
<1> QED
  BY <1>9 DEF t

(* All data in one record of another kind: none was missed.                *)
LEMMA CountedLast ==
  ASSUME NEW s \in Seq(AllRecords), s # <<>>, Len(s) = 1, Head(s).type # "data",
         NEW p \in Nat, NEW q \in Nat, Counted(s, p, q)
  PROVE  p = q
<1>1. PICK at \in [1..Len(s) + 1 -> 0..q] :
        /\ at[1] = p /\ at[Len(s) + 1] = q
        /\ \A i \in 1..Len(s) : at[i + 1] = at[i] + (IF s[i].type = "data" THEN 1 ELSE 0)
  BY DEF Counted
<1>2. s[1] = Head(s) /\ 1 \in 1..Len(s) /\ at[1] \in 0..q
  BY <1>1
<1>3. at[1 + 1] = at[1] + 0
  BY <1>1, <1>2
<1> QED
  BY <1>1, <1>2, <1>3

---------------------------------------------------------------------------
(* The course of the data and of the tickets *)

(* What a step of the client leaves alone.                                 *)
Served == UNCHANGED <<server, conn, serving>>

(* What there is to say of the server alone stays so.                      *)
LEMMA ServedKept ==
  ASSUME Served
  PROVE  /\ (Clean' <=> Clean) /\ Waiting' = Waiting /\ IssuedHere' = IssuedHere
         /\ IdsHere' = IdsHere /\ (Numbered' <=> Numbered)
         /\ cache' = cache => (Cached' <=> Cached)
<1>1. conn' = conn /\ UNCHANGED <<spc, queue, issued, updates, torn>>
  BY DEF Served, serving
<1>2. Clean' <=> Clean
  BY <1>1 DEF Clean
<1>3. Waiting' = Waiting
  BY <1>1 DEF Waiting
<1>4. IssuedHere' = IssuedHere
  BY <1>1 DEF IssuedHere, OfThisConn
<1>5. IdsHere' = IdsHere
  BY <1>4 DEF IdsHere
<1>6. Numbered' <=> Numbered
  BY <1>1, <1>4 DEF Numbered
<1>7. cache' = cache => (Cached' <=> Cached)
  BY <1>1 DEF Cached
<1> QED
  BY <1>2, <1>3, <1>4, <1>5, <1>6, <1>7

(* A step that changes the client's handshake alone.                       *)
LEMMA DeliverySame ==
  ASSUME Delivery, cpc \notin Ended, cpc' \notin {"broken", "closed"}, Served,
         UNCHANGED <<cache, got, down>>
  PROVE  Delivery'
<1>1. UnderWay /\ Numbered /\ Cached
  BY DEF Delivery
<1>2. Sealed'
  <2>1. Sealed /\ UNCHANGED <<server, spc, queue, outKey, updates>> /\ down' = down
    BY <1>1 DEF UnderWay, Served, serving
  <2>2. Waiting' = Waiting
    BY ServedKept
  <2> QED
    BY <2>1, <2>2 DEF Sealed, OneKey
<1>3. sent' = sent
  BY DEF Served, serving
<1>4. UnderWay'
  BY <1>1, <1>2, <1>3, ServedKept DEF UnderWay
<1> QED
  BY <1>1, <1>4, ServedKept DEF Delivery

(* The client takes a record: what there is to say of the others stays so. *)
LEMMA SealedTaken ==
  ASSUME Shape, Sealed, Pending, down' = Tail(down), Served
  PROVE  Sealed'
<1>1. /\ UNCHANGED <<server, spc, queue, outKey, updates>> /\ Waiting' = Waiting
  BY ServedKept DEF Served, serving
<1>2. /\ Len(down) \in Nat \ {0} /\ Len(down') = Len(down) - 1
      /\ \A i \in 1..Len(down') : i + 1 \in 1..Len(down) /\ down'[i] = down[i + 1]
  <2>1. down \in Seq(AllRecords) /\ down # <<>>
    BY DEF Shape, Pending
  <2> QED
    BY <2>1, Taken
<1>3. updates = 0 => OneKey'
  <2> SUFFICES ASSUME updates = 0 PROVE OneKey'
    OBVIOUS
  <2>1. OneKey
    BY DEF Sealed
  <2> QED
    BY <1>1, <1>2, <2>1 DEF OneKey
<1>4. ASSUME NEW i \in 1..Len(down')
      PROVE  /\ Carries(down'[i]) => down'[i].units # <<>>
             /\ Protected(down'[i]) /\ down'[i].type = "alert" =>
                  i = Len(down') /\ spc' = "ended" /\ down'[i].key = outKey'
  <2> DEFINE j == i + 1
  <2>1. j \in 1..Len(down) /\ down'[i] = down[j]
    BY <1>2, Zenon
  <2>2. j = Len(down) => i = Len(down')
    <3>1. Len(down) \in Nat /\ Len(down') = Len(down) - 1 /\ i \in 1 .. Len(down) - 1
      BY <1>2
    <3> HIDE DEF j
    <3>2. j = i + 1
      BY DEF j
    <3> QED
      BY <3>1, <3>2
  <2> HIDE DEF j
  <2>3. /\ Carries(down[j]) => down[j].units # <<>>
        /\ Protected(down[j]) /\ down[j].type = "alert" =>
             j = Len(down) /\ spc = "ended" /\ down[j].key = outKey
    BY <2>1 DEF Sealed
  <2> QED
    BY <1>1, <2>1, <2>2, <2>3
<1>5. updates > 0 => /\ spc' \in {"open", "ended"}
                     /\ outKey'.generation > 0 \/ \E i \in 1..Len(queue') : Ends(queue'[i])
  BY <1>1 DEF Sealed
<1> QED
  BY <1>1, <1>3, <1>4, <1>5 DEF Sealed

(* The client takes a record that carries no ticket.                       *)
LEMMA DeliveryTaken ==
  ASSUME Typed, Delivery, cpc \notin Ended, cpc' \notin {"broken", "closed"}, Served,
         Pending, down' = Tail(down), ~Carries(Next1), cache' = cache,
         Len(got') = Len(got) + Datum(Next1)
  PROVE  Delivery'
<1>1. UnderWay /\ Numbered /\ Cached
  BY DEF Delivery
<1>2. /\ down \in Seq(AllRecords) /\ down # <<>> /\ Next1 = Head(down)
      /\ Len(got) \in Nat /\ sent \in Nat /\ sent' = sent
  <2>1. got \in Seq(Nat) /\ down \in Seq(AllRecords) /\ down # <<>>
    BY DEF Typed, Shape, Pending
  <2>2. sent \in 0..MaxData /\ MaxData \in Nat
    BY InteropAssumption, TwoParts DEF Typed, ServerTyped
  <2> QED
    BY <2>1, <2>2 DEF Next1, Served, serving
<1>3. Sealed'
  BY <1>1, SealedTaken DEF UnderWay, Typed
<1>4. Counted(down', Len(got'), sent')
  <2>1. Counted(down, Len(got), sent)
    BY <1>1 DEF UnderWay
  <2> QED
    BY <1>2, <2>1, CountedTail
<1>5. InOrder(down', Waiting', cache', IdsHere')
  <2>1. InOrder(down, Waiting, cache, IdsHere)
    BY <1>1 DEF UnderWay
  <2>2. InOrder(down', Waiting, cache, IdsHere)
    BY <1>2, <2>1, InOrderTail
  <2> QED
    BY <2>2, ServedKept
<1>6. Clean' => Undamaged(down', Waiting', cache', IdsHere')
  <2> SUFFICES ASSUME Clean' PROVE Undamaged(down', Waiting', cache', IdsHere')
    OBVIOUS
  <2>1. Undamaged(down, Waiting, cache, IdsHere)
    BY <1>1, ServedKept DEF UnderWay
  <2>2. Undamaged(down', Waiting, cache, IdsHere)
    BY <1>2, <2>1, UndamagedTail
  <2> QED
    BY <2>2, ServedKept
<1>7. UnderWay'
  BY <1>3, <1>4, <1>5, <1>6 DEF UnderWay
<1> QED
  BY <1>1, <1>7, ServedKept DEF Delivery

(* No record of the handshake is protected as data and tickets are.        *)
LEMMA PlainRecord ==
  ASSUME NEW key, key.phase # "application", NEW type, NEW units
  PROVE  ~Carries(Record(key, type, units))
  BY DEF Carries, Protected, Record

(* The client's handshake touches neither data nor tickets.                *)
LEMMA HandshakeDelivery ==
  ASSUME Typed, Course, Delivery,
         \/ SendHello \/ SendSecondHello \/ SkipChangeCipherSpec \/ ReadHelloRetry
         \/ ReadServerHello \/ FillBuffer \/ ReadMessage \/ Refuse \/ SendFinished
  PROVE  Delivery'
<1>1. ASSUME SendHello \/ SendSecondHello \/ ReadMessage \/ Refuse \/ SendFinished
      PROVE  Delivery'
  <2>1. Served /\ UNCHANGED <<cache, got, down>>
    BY <1>1 DEF SendHello, SendSecondHello, ReadMessage, Refuse, SendFinished, Served
  <2>2. cpc \notin Ended
    BY <1>1 DEF SendHello, SendSecondHello, ReadMessage, Refuse, SendFinished, Reading,
                HandshakeReads, FlightLabels, Ended
  <2>3. cpc' \notin {"broken", "closed"}
    <3>1. SendHello \/ SendSecondHello \/ Refuse \/ SendFinished => cpc' \notin {"broken", "closed"}
      BY DEF SendHello, SendSecondHello, Refuse, SendFinished, Goto
    <3>2. ReadMessage => cpc' \notin {"broken", "closed"}
      BY DEF ReadMessage, Goto, After, FlightLabels
    <3> QED
      BY <1>1, <3>1, <3>2
  <2> QED
    BY <2>1, <2>2, <2>3, DeliverySame
<1>2. ASSUME SkipChangeCipherSpec \/ ReadHelloRetry \/ ReadServerHello \/ FillBuffer
      PROVE  Delivery'
  <2>1. Served /\ UNCHANGED <<cache, got>> /\ Pending /\ down' = Tail(down)
    BY <1>2 DEF SkipChangeCipherSpec, ReadHelloRetry, ReadServerHello, FillBuffer, Served,
                Reading, IsHello, client
  <2>2. cpc \in HandshakeReads /\ cpc \notin Ended
    BY <1>2 DEF SkipChangeCipherSpec, ReadHelloRetry, ReadServerHello, FillBuffer, Reading,
                IsHello, HandshakeReads, FlightLabels, Ended
  <2>3. cpc' \notin {"broken", "closed"}
    BY <1>2, <2>2 DEF SkipChangeCipherSpec, ReadHelloRetry, ReadServerHello, FillBuffer, Goto,
                client, HandshakeReads, FlightLabels
  <2>4. ~Carries(Next1) /\ Next1.type # "data"
    <3>1. SkipChangeCipherSpec => ~Carries(Next1) /\ Next1.type # "data"
      BY DEF SkipChangeCipherSpec, Carries
    <3>2. ASSUME ReadHelloRetry \/ ReadServerHello
          PROVE  ~Carries(Next1) /\ Next1.type # "data"
      <4>1. cpc = "readServerHello" /\ Next1.type = "handshake"
        BY <3>2 DEF ReadHelloRetry, ReadServerHello, IsHello
      <4>2. AlertRecord(NoKey).type = "alert"
        BY DEF AlertRecord, Record
      <4>3. \/ Next1 = Asks(server.retry)
            \/ Next1 = Record(NoKey, "handshake", Units(Reply(server.retry)))
        <5> HIDE DEF AlertRecord, Asks, Record
        <5> QED
          BY <2>1, <4>1, <4>2, HelloHead DEF Typed
      <4> QED
        BY <4>1, <4>3, NoKeyShape, PlainRecord DEF Asks
    <3>3. ASSUME FillBuffer PROVE ~Carries(Next1) /\ Next1.type # "data"
      <4>1. cpc \in FlightLabels /\ Next1.type = "handshake" /\ Next1.key = inKey
        BY <3>3 DEF FillBuffer
      <4>2. inKey = FlightKey(server.retry)
        BY <4>1, FlightPlace
      <4>3. FlightKey(server.retry).phase = "handshake"
        BY DEF FlightKey, HandshakeKey
      <4> QED
        BY <4>1, <4>2, <4>3 DEF Carries, Protected
    <3> QED
      BY <1>2, <3>1, <3>2, <3>3
  <2>5. Len(got') = Len(got) + Datum(Next1)
    <3>1. Len(got) \in Nat
      BY DEF Typed, Shape
    <3> QED
      BY <2>1, <2>4, <3>1 DEF Datum
  <2> QED
    BY <2>1, <2>2, <2>3, <2>4, <2>5, DeliveryTaken
<1> QED
  BY <1>1, <1>2

(* The record the client reads after the handshake.                        *)
LEMMA DoneHead ==
  ASSUME Typed, Course, cpc = "done", Pending
  PROVE  /\ Protected(Next1) /\ Next1.type \in {"data", "handshake", "alert"}
         /\ inKey = DataKey(server.retry) /\ Answered
<1>1. /\ Answered /\ inKey = DataKey(server.retry) /\ Leads(server.retry, down, 9, 9)
  BY Phase DEF Done
<1>2. down \in Seq(AllRecords) /\ down # <<>>
  BY DEF Typed, Shape, Pending
<1>3. PICK q \in 0..9 : Moves(server.retry, Next1, 9, q)
  BY <1>1, <1>2, LeadsTail DEF Next1
<1>4. Protected(Next1) /\ Next1.type \in {"data", "handshake", "alert"}
  BY <1>3, Way
<1> QED
  BY <1>1, <1>4

(* A data record read is one returned.                                     *)
LEMMA ReadDataDelivery == ASSUME Typed, Course, Delivery, ReadData PROVE Delivery'
<1>1. /\ cpc = "done" /\ cpc' = cpc /\ Pending /\ Next1.type = "data" /\ down' = Tail(down)
      /\ got' = Append(got, Len(got) + 1) /\ Served /\ cache' = cache
  BY DEF ReadData, Opened, Served
<1>2. ~Carries(Next1) /\ Datum(Next1) = 1
  BY <1>1 DEF Carries, Datum
<1>3. Len(got') = Len(got) + Datum(Next1)
  <2>1. got \in Seq(Nat) /\ Len(got) + 1 \in Nat
    BY DEF Typed, Shape
  <2> QED
    BY <1>1, <1>2, <2>1, AppendProperties
<1> QED
  BY <1>1, <1>2, <1>3, DeliveryTaken DEF Ended

(* Of a record under way in a clean stream the first unit begins a ticket. *)
LEMMA CleanHead ==
  ASSUME Typed, Course, Delivery, Clean, cpc = "done", Pending
  PROVE  /\ Next1.key = inKey
         /\ Carries(Next1) => Consumed(Next1.units)
<1>1. /\ Protected(Next1) /\ inKey = DataKey(server.retry)
  BY DoneHead
<1>2. UnderWay /\ updates = 0
  BY DEF Delivery, Clean, Ended
<1>3. /\ down \in Seq(AllRecords) /\ down # <<>> /\ Next1 = Head(down)
      /\ Len(down) \in Nat \ {0} /\ down[1] = Next1
  <2>1. down \in Seq(AllRecords) /\ down # <<>>
    BY DEF Typed, Shape, Pending
  <2> QED
    BY <2>1, Taken DEF Next1
<1>4. Next1.key = inKey
  <2>1. OneKey /\ 1 \in 1..Len(down)
    BY <1>2, <1>3 DEF UnderWay, Sealed
  <2> QED
    BY <1>1, <1>3, <2>1 DEF OneKey
<1>5. ASSUME Carries(Next1) PROVE Consumed(Next1.units)
  <2> DEFINE u == Next1.units
  <2>1. u # <<>> /\ u \in Seq(AllUnits)
    <3>1. Sealed /\ 1 \in 1..Len(down)
      BY <1>2, <1>3 DEF UnderWay
    <3>2. u # <<>>
      BY <1>3, <1>5, <3>1 DEF Sealed
    <3>3. Next1 \in AllRecords
      BY DownShape DEF Typed
    <3> QED
      BY <3>2, <3>3 DEF AllRecords
  <2>2. Whole(u)
    <3>1. Undamaged(down, Waiting, cache, IdsHere)
      BY <1>2 DEF UnderWay
    <3>2. Slot(down, Waiting, 1) = Content(Next1) /\ 1 \in Slots(down)
      BY <1>3, SlotsTail
    <3>3. Whole(Content(Next1))
      BY <3>1, <3>2 DEF Undamaged
    <3> QED
      BY <1>5, <3>3 DEF Content
  <2> HIDE DEF u
  <2>3. Len(u) \in Nat \ {0}
    BY <2>1
  <2>4. PICK n \in Nat : Len(u) = 2 * n /\ \A i \in 1..n : Pair(u[2 * i - 1], u[2 * i])
    BY <2>2 DEF Whole
  <2>5. 1 \in 1..n
    BY <2>3, <2>4
  <2>6. Pair(u[2 * 1 - 1], u[2 * 1])
    BY <2>4, <2>5
  <2>7. IsTicket(u[1].msg) /\ u[1].part = 1
    BY <2>6 DEF Pair
  <2> QED
    BY <2>7 DEF Consumed, u
<1> QED
  BY <1>4, <1>5

(* The tickets of a record go into the cache. The other case, a part of a  *)
(* ticket alone, does not arise while the stream is clean.                 *)
LEMMA ReadTicketsDelivery == ASSUME Typed, Course, Delivery, ReadTickets PROVE Delivery'
<1> DEFINE u == Next1.units
<1>1. /\ cpc = "done" /\ cpc' = cpc /\ Pending /\ Next1.type = "handshake"
      /\ down' = Tail(down) /\ got' = got /\ Served
      /\ \/ Consumed(u) /\ cache' = cache \o WholeTickets(u)
         \/ u[1].part = 2 /\ cache' = cache
  BY Zenon DEF ReadTickets, Opened, Served
<1>2. Carries(Next1)
  BY <1>1, DoneHead DEF Carries
<1>3. UnderWay /\ Numbered /\ Cached
  BY <1>1 DEF Delivery, Ended
<1>4. /\ down \in Seq(AllRecords) /\ down # <<>> /\ Next1 = Head(down)
      /\ Len(got) \in Nat /\ sent \in Nat /\ sent' = sent
      /\ cache \in Seq(CachedTickets) /\ Waiting \in Seq(AllUnits)
  <2>1. got \in Seq(Nat) /\ down \in Seq(AllRecords) /\ down # <<>> /\ queue \in Seq(AllUnits)
        /\ cache \in Seq(CachedTickets)
    BY <1>1 DEF Typed, Shape, Pending, CachedTickets
  <2>2. sent \in 0..MaxData /\ MaxData \in Nat
    BY InteropAssumption, TwoParts DEF Typed, ServerTyped
  <2>3. <<>> \in Seq(AllUnits)
    BY EmptySeq
  <2> QED
    BY <1>1, <2>1, <2>2, <2>3 DEF Next1, Served, serving, Waiting
<1>5. Sealed'
  BY <1>1, <1>3, SealedTaken DEF UnderWay, Typed
<1>6. Counted(down', Len(got'), sent')
  <2>1. Counted(down, Len(got), sent)
    BY <1>3 DEF UnderWay
  <2>2. Datum(Head(down)) = 0
    BY <1>1, <1>4 DEF Datum
  <2>3. Counted(Tail(down), Len(got) + Datum(Head(down)), sent)
    BY <1>4, <2>1, CountedTail
  <2> QED
    BY <1>1, <1>4, <2>2, <2>3
<1>7. InOrder(down, Waiting, cache, IdsHere)
  BY <1>3 DEF UnderWay
<1>8. CASE Consumed(u) /\ cache' = cache \o WholeTickets(u)
  <2>1. /\ InOrder(down', Waiting', cache', IdsHere')
        /\ Sorted(cache) => Sorted(cache')
        /\ \A i \in 1..Len(cache') : (\E j \in 1..Len(cache) : cache'[i] = cache[j])
                                      \/ cache'[i].id \in IdsHere
    BY <1>1, <1>2, <1>4, <1>7, <1>8, InOrderStored, ServedKept
  <2>2. Clean' => Undamaged(down', Waiting', cache', IdsHere')
    <3> SUFFICES ASSUME Clean' PROVE Undamaged(down', Waiting', cache', IdsHere')
      OBVIOUS
    <3>1. Undamaged(down, Waiting, cache, IdsHere)
      BY <1>1, <1>3, ServedKept DEF UnderWay
    <3> QED
      BY <1>1, <1>2, <1>4, <1>8, <3>1, UndamagedStored, ServedKept
  <2>3. Cached'
    <3>1. Sorted(cache')
      BY <1>3, <2>1 DEF Cached, Sorted
    <3>2. issued' = issued
      BY <1>1 DEF Served, serving
    <3>3. ASSUME NEW i \in 1..Len(cache') PROVE \E t \in issued : t.id = cache'[i].id
      <4>1. CASE \E j \in 1..Len(cache) : cache'[i] = cache[j]
        BY <1>3, <4>1 DEF Cached
      <4>2. CASE cache'[i].id \in IdsHere
        BY <4>2 DEF IdsHere, IssuedHere, OfThisConn
      <4> QED
        BY <2>1, <4>1, <4>2
    <3> QED
      BY <3>1, <3>2, <3>3 DEF Cached, Sorted
  <2>4. UnderWay'
    BY <1>5, <1>6, <2>1, <2>2 DEF UnderWay
  <2> QED
    BY <1>1, <1>3, <2>3, <2>4, ServedKept DEF Delivery
<1>9. CASE u[1].part = 2 /\ cache' = cache
  <2>1. ~Clean
    <3> SUFFICES ASSUME Clean PROVE FALSE
      OBVIOUS
    <3>1. Consumed(u)
      BY <1>1, <1>2, CleanHead
    <3> QED
      BY <1>9, <3>1 DEF Consumed
  <2>2. InOrder(down', Waiting, cache, IdsHere)
    BY <1>1, <1>4, <1>7, InOrderTail
  <2>3. UnderWay'
    BY <1>1, <1>5, <1>6, <1>9, <2>1, <2>2, ServedKept DEF UnderWay
  <2> QED
    BY <1>1, <1>3, <1>9, <2>3, ServedKept DEF Delivery
<1> QED
  BY <1>1, <1>8, <1>9

(* A Read that fails has met an updated key or a part of a ticket.         *)
LEMMA ReadFailsDelivery == ASSUME Typed, Course, Delivery, ReadFails PROVE Delivery'
<1>1. /\ cpc = "done" /\ cpc' = "broken" /\ Pending /\ Served /\ cache' = cache
      /\ \/ Next1.key # inKey
         \/ Next1.type = "handshake" /\ ~Consumed(Next1.units)
  BY Zenon DEF ReadFails, Goto, Served
<1>2. Numbered /\ Cached
  BY DEF Delivery
<1>3. ~Clean
  <2> SUFFICES ASSUME Clean PROVE FALSE
    OBVIOUS
  <2>1. Protected(Next1)
    BY <1>1, DoneHead
  <2>2. Next1.type = "handshake" => Carries(Next1)
    BY <2>1 DEF Carries
  <2> QED
    BY <1>1, <2>2, CleanHead
<1> QED
  BY <1>1, <1>2, <1>3, ServedKept DEF Delivery, Ended

(* The server's close_notify is the last record, under the key of all that *)
(* came before it: the server has updated no key.                          *)
LEMMA ReadCloseDelivery == ASSUME Typed, Course, Delivery, ReadCloseNotify PROVE Delivery'
<1>1. /\ cpc = "done" /\ cpc' = "closed" /\ Pending /\ Served /\ cache' = cache /\ got' = got
      /\ Next1.type = "alert" /\ Next1.key = inKey
  BY Zenon DEF ReadCloseNotify, Opened, Goto, Served
<1>2. Numbered /\ Cached /\ UnderWay
  BY <1>1 DEF Delivery, Ended
<1>3. /\ Protected(Next1) /\ Next1.key = DataKey(server.retry)
  BY <1>1, DoneHead
<1>4. /\ down \in Seq(AllRecords) /\ down # <<>> /\ Next1 = Head(down) /\ Next1 = down[1]
      /\ Len(down) \in Nat \ {0} /\ Len(got) \in Nat /\ sent \in Nat /\ sent' = sent
      /\ queue \in Seq(AllUnits)
  <2>1. got \in Seq(Nat) /\ down \in Seq(AllRecords) /\ down # <<>> /\ queue \in Seq(AllUnits)
    BY <1>1 DEF Typed, Shape, Pending
  <2>2. sent \in 0..MaxData /\ MaxData \in Nat
    BY InteropAssumption, TwoParts DEF Typed, ServerTyped
  <2>3. Next1 = Head(down) /\ Next1 = down[1] /\ Len(down) \in Nat \ {0}
    BY <2>1, Taken DEF Next1
  <2> QED
    BY <1>1, <2>1, <2>2, <2>3 DEF Served, serving
<1>5. Len(down) = 1 /\ spc = "ended" /\ outKey = DataKey(server.retry)
  <2>1. Sealed /\ 1 \in 1..Len(down)
    BY <1>2, <1>4 DEF UnderWay
  <2>2. Protected(down[1]) /\ down[1].type = "alert" =>
          1 = Len(down) /\ spc = "ended" /\ down[1].key = outKey
    BY <2>1 DEF Sealed
  <2> QED
    BY <1>1, <1>3, <1>4, <2>2
<1>6. updates = 0 /\ Waiting = <<>>
  <2>1. outKey.generation = 0
    BY <1>5, RetryShape, HashedShape, KeyShape DEF DataKey
  <2>2. queue = <<>>
    BY <1>5 DEF Course, Idle
  <2>3. ~(updates > 0)
    BY <1>2, <2>1, <2>2 DEF UnderWay, Sealed
  <2>4. updates \in 0..MaxUpdates /\ MaxUpdates \in Nat
    BY InteropAssumption, TwoParts DEF Typed, ServerTyped
  <2> QED
    BY <1>5, <2>3, <2>4 DEF Waiting
<1>7. Len(got) = sent
  <2>1. Counted(down, Len(got), sent)
    BY <1>2 DEF UnderWay
  <2> QED
    BY <1>1, <1>4, <1>5, <2>1, CountedLast
<1>8. ~torn => \A id \in IdsHere : Kept(cache, id)
  <2> SUFFICES ASSUME ~torn PROVE \A id \in IdsHere : Kept(cache, id)
    OBVIOUS
  <2>1. Undamaged(down, <<>>, cache, IdsHere)
    BY <1>2, <1>6 DEF UnderWay, Clean
  <2>2. ~Carries(Head(down))
    BY <1>1, <1>4 DEF Carries
  <2>3. Undamaged(Tail(down), <<>>, cache, IdsHere)
    BY <1>4, <2>1, <2>2, UndamagedTail
  <2>4. Tail(down) = <<>>
    <3>1. Tail(down) \in Seq(AllRecords) /\ Len(Tail(down)) = 0
      BY <1>4, <1>5, Taken
    <3> QED
      BY <3>1, EmptySeq
  <2> QED
    BY <2>3, <2>4, NothingUnderWay
<1>9. Closed'
  <2>1. spc' = spc /\ torn' = torn
    BY <1>1 DEF Served, serving
  <2> QED
    BY <1>1, <1>4, <1>5, <1>7, <1>8, <2>1, ServedKept DEF Closed
<1> QED
  BY <1>1, <1>2, <1>9, ServedKept DEF Delivery, Ended

(* A new ticket has a number above all others, of its connection.          *)
LEMMA TicketIssued ==
  ASSUME Typed, Numbered, Cached, IssueTicket
  PROVE  LET id == 10 * conn + Cardinality(IssuedHere) + 1 IN
         /\ Numbered' /\ Cached' /\ IdsHere' = IdsHere \cup {id} /\ id \in Nat
         /\ \A z \in IdsHere : z \in Nat /\ z < id
         /\ \A i \in 1..Len(cache) : cache[i].id \in Nat /\ cache[i].id < id
<1> DEFINE n == Cardinality(IssuedHere)
           id == 10 * conn + n + 1
           new == IssuedTicket(id)
<1>1. /\ conn' = conn /\ cache' = cache /\ issued' = issued \cup {new} /\ n < MaxTickets
  BY DEF IssueTicket, client
<1>2. /\ conn \in Nat /\ n \in Nat /\ MaxTickets \in Nat /\ MaxTickets < 10
      /\ IsFiniteSet(IssuedHere) /\ cache \in Seq(CachedTickets)
  BY IssuedShape, InteropAssumption DEF Typed, Shape, CachedTickets
<1>3. new.id = id
  BY DEF IssuedTicket
<1> HIDE DEF new
<1>4. \A t \in issued : t.id \in 11 .. 10 * conn + n
  BY DEF Numbered
<1>5. id \in Nat /\ id \div 10 = conn
  <2> HIDE DEF n
  <2>1. n + 1 \in 0..9
    BY <1>1, <1>2
  <2>2. \A c \in Nat, k \in 0..9 : (10 * c + k) \div 10 = c
    OBVIOUS
  <2>3. id = 10 * conn + (n + 1)
    BY <1>2
  <2> HIDE DEF id
  <2> QED
    BY <1>2, <2>1, <2>2, <2>3
<1>6. IssuedHere' = IssuedHere \cup {new}
  <2>1. IssuedHere' = {t \in issued \cup {new} : t.id \div 10 = conn}
    BY <1>1 DEF IssuedHere, OfThisConn
  <2> HIDE DEF id
  <2> QED
    BY <1>3, <1>5, <2>1 DEF IssuedHere, OfThisConn
<1>7. \A t \in issued : t.id \in Nat /\ t.id < id
  <2> HIDE DEF n
  <2>1. id = 10 * conn + n + 1
    OBVIOUS
  <2> HIDE DEF id
  <2> QED
    BY <1>2, <1>4, <2>1
<1>8. new \notin issued
  <2> HIDE DEF id
  <2> QED
    BY <1>3, <1>5, <1>7
<1>9. Cardinality(IssuedHere') = n + 1
  <2>1. new \notin IssuedHere
    BY <1>8 DEF IssuedHere, OfThisConn
  <2> QED
    BY <1>2, <1>6, <2>1, FS_AddElement
<1>10. Numbered'
  <2>1. \A t \in issued' : t.id \in 11 .. 10 * conn + (n + 1)
    <3> HIDE DEF n
    <3>1. id = 10 * conn + (n + 1) /\ conn >= 1
      <4>1. conn \in 1..MaxConns
        BY TwoParts DEF Typed, ServerTyped
      <4> QED
        BY <1>2, <4>1, InteropAssumption
    <3> HIDE DEF id
    <3> QED
      BY <1>1, <1>2, <1>3, <1>4, <3>1
  <2>2. n + 1 <= MaxTickets
    <3> HIDE DEF n
    <3> QED
      BY <1>1, <1>2
  <2> QED
    BY <1>1, <1>9, <2>1, <2>2 DEF Numbered
<1>11. Cached'
  BY <1>1 DEF Cached
<1>12. IdsHere' = IdsHere \cup {id}
  <2> HIDE DEF id
  <2> QED
    BY <1>3, <1>6 DEF IdsHere
<1>13. \A z \in IdsHere : z \in Nat /\ z < id
  <2> HIDE DEF id
  <2> QED
    BY <1>7 DEF IdsHere, IssuedHere, OfThisConn
<1>14. \A i \in 1..Len(cache) : cache[i].id \in Nat /\ cache[i].id < id
  <2> HIDE DEF id
  <2> QED
    BY <1>7 DEF Cached
<1> QED
  BY <1>5, <1>10, <1>11, <1>12, <1>13, <1>14

(* Once the client's connection is over, the server changes only what it   *)
(* has issued and updated.                                                 *)
LEMMA IssuedKept ==
  ASSUME conn' = conn, issued' = issued
  PROVE  /\ IssuedHere' = IssuedHere /\ IdsHere' = IdsHere /\ (Numbered' <=> Numbered)
         /\ cache' = cache => (Cached' <=> Cached)
<1>1. IssuedHere' = IssuedHere
  BY DEF IssuedHere, OfThisConn
<1> QED
  BY <1>1 DEF IdsHere, Numbered, Cached

(* When the client has ended, what it knew of the server's key and tickets *)
(* holds on, and a server that has closed does nothing.                    *)
LEMMA EndedDelivery ==
  ASSUME Typed, Delivery, cpc \in Ended, ServerStep \/ ServerChoice
  PROVE  Delivery'
<1>1. /\ conn' = conn /\ UNCHANGED <<cpc, cache>> /\ spc # "ended" /\ (torn => torn')
      /\ updates' = updates \/ updates' = updates + 1
      /\ issued' = issued \/ IssueTicket
  BY ServerMoves DEF client
<1>2. Numbered' /\ Cached'
  <2>1. Numbered /\ Cached
    BY DEF Delivery
  <2> QED
    BY <1>1, <2>1, IssuedKept, TicketIssued
<1>3. cpc # "closed"
  BY <1>1 DEF Delivery, Closed
<1>4. ~Clean => ~Clean'
  <2>1. updates \in Nat
    <3>1. updates \in 0..MaxUpdates /\ MaxUpdates \in Nat
      BY InteropAssumption, TwoParts DEF Typed, ServerTyped
    <3> QED
      BY <3>1
  <2>2. updates # 0 => updates' # 0
    BY <1>1, <2>1
  <2> QED
    BY <1>1, <2>2, Zenon DEF Clean
<1> QED
  BY <1>1, <1>2, <1>3, <1>4 DEF Delivery, Ended

(* A record that is not protected and no data adds nothing.                *)
Plain(s) == \A i \in 1..Len(s) : ~Protected(s[i])

(* A record that is no data and not protected by an application key.       *)
LEMMA PlainMore ==
  ASSUME NEW s \in Seq(AllRecords), NEW r \in AllRecords, ~Protected(r), r.type # "data",
         NEW c, NEW ids, NEW p \in Nat, NEW q \in Nat
  PROVE  LET t == Append(s, r) IN
         /\ t \in Seq(AllRecords)
         /\ Plain(s) => Plain(t)
         /\ InOrder(s, <<>>, c, ids) => InOrder(t, <<>>, c, ids)
         /\ Undamaged(s, <<>>, c, ids) => Undamaged(t, <<>>, c, ids)
         /\ Counted(s, p, q) => Counted(t, p, q)
<1> DEFINE t == Append(s, r)
           w == <<>>
<1>1. /\ t \in Seq(AllRecords) /\ Len(s) \in Nat /\ Len(t) = Len(s) + 1
      /\ \A i \in 1..Len(s) : t[i] = s[i]
      /\ t[Len(s) + 1] = r
  BY AppendProperties
<1>2. Plain(s) => Plain(t)
  <2> HIDE DEF t
  <2> SUFFICES ASSUME Plain(s), NEW i \in 1..Len(t) PROVE ~Protected(t[i])
    BY DEF Plain
  <2>1. CASE i = Len(s) + 1
    BY <1>1, <2>1
  <2>2. CASE i # Len(s) + 1
    <3>1. i \in 1..Len(s)
      BY <1>1, <2>2
    <3> QED
      BY <1>1, <3>1 DEF Plain
  <2> QED
    BY <2>1, <2>2
<1>3. /\ w \in Seq(AllUnits) /\ 0 \in 0..Len(w) /\ ~(0 > 0)
      /\ SubSeq(w, 1, 0) = <<>> /\ SubSeq(w, 0 + 1, Len(w)) = <<>>
  BY EmptySeq
<1>4. Content(r) = <<>>
  BY DEF Content, Carries
<1>5. InOrder(s, <<>>, c, ids) => InOrder(t, <<>>, c, ids)
  BY <1>3, <1>4, InOrderCut
<1>6. Undamaged(s, <<>>, c, ids) => Undamaged(t, <<>>, c, ids)
  BY <1>3, <1>4, UndamagedCut
<1>7. Counted(s, p, q) => Counted(t, p, q)
  <2>1. Datum(r) = 0 /\ q + 0 = q
    BY DEF Datum
  <2> QED
    BY <2>1, CountedMore
<1> QED
  BY <1>1, <1>2, <1>5, <1>6, <1>7

(* The answer to a hello: the ServerHello or the HelloRetryRequest and     *)
(* maybe a ChangeCipherSpec record, or an alert.                           *)
LEMMA AnswerRecords ==
  ASSUME Shape, AnswersHello(FALSE)
  PROVE  /\ \E h \in AllRecords : /\ ~Protected(h) /\ h.type # "data"
                                  /\ \/ down' = Append(down, h)
                                     \/ down' = Append(Append(down, h), Skipped)
         /\ spc' \in {"ended", "flight", "waitSecondHello"}
         /\ outKey' = outKey \/ outKey'.phase = "handshake"
<1>1. up # <<>> /\ (Abort \/ Answer(Request, FALSE) \/ Retry(Request, FALSE))
  BY Zenon DEF AnswersHello
<1>2. /\ down \in Seq(AllRecords) /\ NoKey \in Keys /\ ~(NoKey.phase = "application")
      /\ "alert" \in Contents /\ "handshake" \in Contents /\ <<>> \in Seq(AllUnits)
  BY NoKeyShape, EmptySeq DEF Shape, Contents
<1>3. ASSUME NEW type \in Contents, type # "data", NEW units \in Seq(AllUnits)
      PROVE  LET h == Record(NoKey, type, units) IN
             h \in AllRecords /\ ~Protected(h) /\ h.type # "data"
  BY <1>2, <1>3, RecordShape DEF Protected
<1>4. ASSUME NEW h \in AllRecords, down' = down \o <<h>> \o Compatibility
      PROVE  down' = Append(down, h) \/ down' = Append(Append(down, h), Skipped)
  <2>1. down \o <<h>> = Append(down, h) /\ Append(down, h) \in Seq(AllRecords)
    BY <1>2, AppendIsConcat, AppendProperties
  <2>2. CASE Compatibility = <<>>
    <3>1. Append(down, h) \o <<>> = Append(down, h)
      BY <2>1, ConcatEmptySeq
    <3> QED
      BY <1>4, <2>1, <2>2, <3>1
  <2>3. CASE Compatibility = <<Skipped>>
    <3>1. Append(down, h) \o <<Skipped>> = Append(Append(down, h), Skipped)
      BY <2>1, CompatibilityShape, AppendIsConcat
    <3> QED
      BY <1>4, <2>1, <2>3, <3>1
  <2> QED
    BY <2>2, <2>3, CompatibilityShape
<1>5. CASE Abort
  <2>1. down' = Append(down, AlertRecord(NoKey)) /\ spc' = "ended" /\ outKey' = outKey
    BY <1>5, Zenon DEF Abort
  <2>2. /\ AlertRecord(NoKey) \in AllRecords /\ ~Protected(AlertRecord(NoKey))
        /\ AlertRecord(NoKey).type # "data"
    BY <1>2, <1>3 DEF AlertRecord
  <2> QED
    BY <2>1, <2>2
<1>6. CASE Answer(Request, FALSE) \/ Retry(Request, FALSE)
  <2>1. PICK m \in Messages : down' = down \o InTheClear(m, FALSE) \o Compatibility
    BY <1>1, <1>6, Clear
  <2> DEFINE h == Record(NoKey, "handshake", Units(m))
  <2>2. down' = down \o <<h>> \o Compatibility
    BY <2>1, ClearShape
  <2>3. Units(m) \in Seq(AllUnits)
    BY UnitShape
  <2>4. h \in AllRecords /\ ~Protected(h) /\ h.type # "data"
    BY <1>2, <1>3, <2>3
  <2>5. ASSUME Answer(Request, FALSE) PROVE spc' = "flight" /\ outKey'.phase = "handshake"
    <3>1. spc' = "flight" /\ \E s, hash : outKey' = HandshakeKey(s, hash)
      BY <2>5, Zenon DEF Answer
    <3> QED
      BY <3>1 DEF HandshakeKey
  <2>6. Retry(Request, FALSE) => spc' = "waitSecondHello" /\ outKey' = outKey
    BY Zenon DEF Retry
  <2> HIDE DEF h
  <2> QED
    BY <1>4, <1>6, <2>2, <2>4, <2>5, <2>6
<1> QED
  BY <1>1, <1>5, <1>6

(* The answer to a hello holds neither data nor tickets.                   *)
LEMMA AnswerDelivery ==
  ASSUME Typed, Course, Delivery, cpc \notin Ended, AnswersHello(FALSE)
  PROVE  Delivery'
<1>1. /\ spc \in {"waitHello", "waitSecondHello"} /\ up # <<>>
      /\ UNCHANGED <<server, conn, cpc, cache, got, issued, sent, updates, torn>>
  <2>1. /\ spc \in {"waitHello", "waitSecondHello"} /\ up # <<>>
        /\ Abort \/ Answer(Request, FALSE) \/ Retry(Request, FALSE)
        /\ UNCHANGED <<server, conn, client, issued, sent, updates>>
    BY Zenon DEF AnswersHello
  <2>2. torn' = torn \/ torn' = (torn \/ FALSE)
    BY <2>1, Zenon DEF Abort, Answer, Retry
  <2>3. torn \in BOOLEAN
    BY TwoParts DEF Typed, ServerTyped
  <2>4. torn' = torn
    BY <2>2, <2>3
  <2> QED
    BY <2>1, <2>4 DEF client
<1>2. /\ spc' \in {"ended", "flight", "waitSecondHello"}
      /\ outKey' = outKey \/ outKey'.phase = "handshake"
  BY AnswerRecords DEF Typed
<1>3. UnderWay /\ Numbered /\ Cached
  BY DEF Delivery
<1>4. /\ Waiting = <<>> /\ Waiting' = <<>> /\ (Clean' <=> Clean) /\ IdsHere' = IdsHere
      /\ (Numbered' <=> Numbered) /\ (Cached' <=> Cached)
  BY <1>1, <1>2, IssuedKept DEF Waiting, Clean
<1>5. /\ down \in Seq(AllRecords) /\ Len(got) \in Nat /\ sent \in Nat /\ updates \in Nat
  <2>1. got \in Seq(Nat) /\ down \in Seq(AllRecords)
    BY DEF Typed, Shape
  <2>2. sent \in 0..MaxData /\ MaxData \in Nat /\ updates \in 0..MaxUpdates /\ MaxUpdates \in Nat
    BY InteropAssumption, TwoParts DEF Typed, ServerTyped
  <2> QED
    BY <2>1, <2>2
<1>6. Plain(down)
  <2>1. down \in {<<>>, <<Skipped>>}
    BY <1>1, Receives
  <2>2. ~Protected(Skipped)
    BY NoKeyShape DEF Protected, Skipped, Record
  <2> QED
    BY <2>1, <2>2 DEF Plain
<1>7. PICK h \in AllRecords : /\ ~Protected(h) /\ h.type # "data"
                              /\ \/ down' = Append(down, h)
                                 \/ down' = Append(Append(down, h), Skipped)
  BY AnswerRecords DEF Typed
<1>8. /\ Plain(down')
      /\ InOrder(down, <<>>, cache, IdsHere) => InOrder(down', <<>>, cache, IdsHere)
      /\ Undamaged(down, <<>>, cache, IdsHere) => Undamaged(down', <<>>, cache, IdsHere)
      /\ Counted(down, Len(got), sent) => Counted(down', Len(got), sent)
  <2> DEFINE t == Append(down, h)
             v == Append(t, Skipped)
  <2>1. /\ t \in Seq(AllRecords) /\ Plain(t)
        /\ InOrder(down, <<>>, cache, IdsHere) => InOrder(t, <<>>, cache, IdsHere)
        /\ Undamaged(down, <<>>, cache, IdsHere) => Undamaged(t, <<>>, cache, IdsHere)
        /\ Counted(down, Len(got), sent) => Counted(t, Len(got), sent)
    BY <1>5, <1>6, <1>7, PlainMore
  <2>2. Skipped \in AllRecords /\ ~Protected(Skipped) /\ Skipped.type # "data"
    BY CompatibilityShape, NoKeyShape DEF Protected, Skipped, Record
  <2> HIDE DEF t
  <2>3. /\ Plain(v)
        /\ InOrder(t, <<>>, cache, IdsHere) => InOrder(v, <<>>, cache, IdsHere)
        /\ Undamaged(t, <<>>, cache, IdsHere) => Undamaged(v, <<>>, cache, IdsHere)
        /\ Counted(t, Len(got), sent) => Counted(v, Len(got), sent)
    BY <1>5, <2>1, <2>2, PlainMore
  <2>4. down' = t \/ down' = v
    BY <1>7 DEF t
  <2> HIDE DEF v
  <2> QED
    BY <2>1, <2>3, <2>4
<1>9. Sealed'
  <2>1. updates = 0 /\ OneKey
    <3>1. ~(updates > 0)
      BY <1>1, <1>3 DEF UnderWay, Sealed
    <3> QED
      BY <1>3, <1>5, <3>1 DEF UnderWay, Sealed
  <2>2. outKey'.phase = "application" => outKey' = DataKey(server.retry)
    BY <1>2, <2>1 DEF OneKey
  <2>3. OneKey'
    BY <1>1, <1>4, <1>8, <2>2 DEF OneKey, Plain
  <2>4. \A i \in 1..Len(down') : ~Protected(down'[i]) /\ ~Carries(down'[i])
    BY <1>8 DEF Plain, Carries
  <2> QED
    BY <1>1, <2>1, <2>3, <2>4 DEF Sealed
<1>10. UnderWay'
  BY <1>1, <1>3, <1>4, <1>8, <1>9 DEF UnderWay
<1> QED
  BY <1>1, <1>3, <1>4, <1>10 DEF Delivery, Ended

(* The server opens with nothing queued.                                   *)
LEMMA ServerFinishedDelivery ==
  ASSUME Typed, Course, Delivery, cpc \notin Ended, ServerReadFinished
  PROVE  Delivery'
<1>1. /\ spc = "waitFinished" /\ up # <<>>
      /\ UNCHANGED <<server, conn, client, queue, outKey, issued, sent, updates, torn>>
  BY DEF ServerReadFinished, Received
<1>2. down' = down /\ spc' = "open"
  <2> DEFINE m == ClientFinished(server.retry)
  <2>1. Done /\ up = <<m>>
    <3>1. AwaitSecond => spc = "waitSecondHello" \/ up = <<>>
      BY DEF AwaitSecond, Refused, Serves
    <3> QED
      BY <1>1, <3>1, Receives
  <2>2. Request = m
    BY <2>1 DEF Request
  <2>3. m.over = Hashed(server.retry, 4)
    BY DEF ClientFinished, Message
  <2>4. transcript["server"] = Hashed(server.retry, 4)
    BY <1>1, <2>1 DEF Done, Answered
  <2>5. Request.over = transcript["server"]
    BY <2>2, <2>3, <2>4
  <2> QED
    BY <2>5, Zenon DEF ServerReadFinished
<1>3. UnderWay /\ Numbered /\ Cached /\ updates \in Nat
  <2>1. updates \in 0..MaxUpdates /\ MaxUpdates \in Nat
    BY InteropAssumption, TwoParts DEF Typed, ServerTyped
  <2> QED
    BY <2>1 DEF Delivery
<1>4. Waiting = <<>> /\ Waiting' = <<>>
  <2>1. queue = <<>>
    BY <1>1 DEF Course, Idle
  <2> QED
    BY <1>1, <2>1 DEF Waiting
<1>5. Sealed'
  <2>1. updates = 0 /\ Sealed
    BY <1>1, <1>3 DEF UnderWay, Sealed
  <2> QED
    BY <1>1, <1>2, <1>4, <2>1 DEF Sealed, OneKey
<1>6. /\ (Clean' <=> Clean) /\ IdsHere' = IdsHere
      /\ (Numbered' <=> Numbered) /\ (Cached' <=> Cached) /\ UNCHANGED <<cpc, got, cache, sent>>
  BY <1>1, IssuedKept DEF Clean, client
<1>7. UnderWay'
  BY <1>2, <1>3, <1>4, <1>5, <1>6 DEF UnderWay
<1> QED
  BY <1>3, <1>6, <1>7 DEF Delivery, Ended

(* A server that has sent its flight, or is about to, has answered.        *)
LEMMA HasAnswered ==
  ASSUME Course, cpc \notin Ended, spc \in {"flight", "waitFinished", "open"}
  PROVE  Answered /\ (spc = "open" => Done)
<1>1. ~Starting /\ ~Retried /\ ~Over
  BY DEF Starting, Retried, Over
<1>2. CASE AwaitFirst
  BY <1>2 DEF AwaitFirst, Asked, Refused, Serves
<1>3. CASE AwaitSecond
  BY <1>3 DEF AwaitSecond, Refused, Serves
<1>4. CASE InFlight \/ Finishing
  BY <1>4 DEF InFlight, Finishing, Serves
<1>5. CASE Done
  BY <1>5 DEF Done
<1> QED
  BY <1>1, <1>2, <1>3, <1>4, <1>5 DEF Course

(* The server sends the record r, with the first k units that wait.        *)
LEMMA SealedSent ==
  ASSUME Shape, Sealed, spc # "ended", NEW r \in AllRecords, down' = Append(down, r),
         UNCHANGED <<server, updates>>,
         updates = 0 => /\ outKey'.phase = "application" => outKey' = DataKey(server.retry)
                        /\ Protected(r) => r.key = DataKey(server.retry)
                        /\ \A i \in 1..Len(Waiting') : IsTicket(Waiting'[i].msg),
         updates > 0 => /\ spc' \in {"open", "ended"}
                        /\ outKey'.generation > 0 \/ \E i \in 1..Len(queue') : Ends(queue'[i]),
         Carries(r) => r.units # <<>>,
         Protected(r) /\ r.type = "alert" => spc' = "ended" /\ r.key = outKey'
  PROVE  Sealed'
<1>1. /\ Len(down) \in Nat /\ Len(down') = Len(down) + 1
      /\ \A i \in 1..Len(down) : down'[i] = down[i]
      /\ down'[Len(down) + 1] = r
  <2>1. down \in Seq(AllRecords)
    BY DEF Shape
  <2> QED
    BY <2>1, AppendProperties
<1>2. updates = 0 => OneKey'
  <2> SUFFICES ASSUME updates = 0 PROVE OneKey'
    OBVIOUS
  <2>1. ASSUME NEW i \in 1..Len(down'), Protected(down'[i])
        PROVE  down'[i].key = DataKey(server.retry)
    <3>1. CASE i = Len(down) + 1
      BY <1>1, <2>1, <3>1
    <3>2. CASE i # Len(down) + 1
      <4>1. i \in 1..Len(down) /\ down'[i] = down[i]
        BY <1>1, <3>2
      <4>2. OneKey
        BY DEF Sealed
      <4> QED
        BY <2>1, <4>1, <4>2 DEF OneKey
    <3> QED
      BY <3>1, <3>2
  <2> QED
    BY <2>1 DEF OneKey
<1>3. ASSUME NEW i \in 1..Len(down')
      PROVE  /\ Carries(down'[i]) => down'[i].units # <<>>
             /\ Protected(down'[i]) /\ down'[i].type = "alert" =>
                  i = Len(down') /\ spc' = "ended" /\ down'[i].key = outKey'
  <2>1. CASE i = Len(down) + 1
    BY <1>1, <2>1
  <2>2. CASE i # Len(down) + 1
    <3>1. i \in 1..Len(down) /\ down'[i] = down[i]
      BY <1>1, <2>2
    <3>2. /\ Carries(down[i]) => down[i].units # <<>>
          /\ ~(Protected(down[i]) /\ down[i].type = "alert")
      BY <3>1 DEF Sealed
    <3> QED
      BY <3>1, <3>2
  <2> QED
    BY <2>1, <2>2
<1> QED
  BY <1>2, <1>3 DEF Sealed

(* The server sends a record: what waited for it is under way.             *)
LEMMA DeliverySent ==
  ASSUME Typed, Delivery, cpc \notin Ended, UNCHANGED <<conn, client, issued>>,
         updates' = updates, torn => torn', NEW r \in AllRecords, down' = Append(down, r),
         sent' = sent + Datum(r), NEW k \in 0..Len(Waiting),
         Content(r) = SubSeq(Waiting, 1, k),
         Waiting' = SubSeq(Waiting, k + 1, Len(Waiting)),
         Clean' /\ k > 0 => Waiting[k].part = 2, Sealed'
  PROVE  Delivery'
<1>1. /\ UnderWay /\ Numbered' /\ Cached' /\ IdsHere' = IdsHere /\ Numbered /\ Cached
      /\ UNCHANGED <<cpc, cache, got>>
  BY IssuedKept DEF Delivery, client
<1>2. /\ down \in Seq(AllRecords) /\ Len(got) \in Nat /\ sent \in Nat /\ Waiting \in Seq(AllUnits)
  <2>1. got \in Seq(Nat) /\ down \in Seq(AllRecords) /\ queue \in Seq(AllUnits)
    BY DEF Typed, Shape
  <2>2. sent \in 0..MaxData /\ MaxData \in Nat
    BY InteropAssumption, TwoParts DEF Typed, ServerTyped
  <2> QED
    BY <2>1, <2>2, EmptySeq DEF Waiting
<1>3. Counted(down', Len(got'), sent')
  <2>1. Counted(down, Len(got), sent)
    BY <1>1 DEF UnderWay
  <2> QED
    BY <1>1, <1>2, <2>1, CountedMore
<1>4. InOrder(down', Waiting', cache', IdsHere')
  <2>1. InOrder(down, Waiting, cache, IdsHere)
    BY <1>1 DEF UnderWay
  <2> QED
    BY <1>1, <1>2, <2>1, InOrderCut
<1>5. Clean' => Undamaged(down', Waiting', cache', IdsHere')
  <2> SUFFICES ASSUME Clean' PROVE Undamaged(down', Waiting', cache', IdsHere')
    OBVIOUS
  <2>1. Clean
    BY Zenon DEF Clean
  <2>2. Undamaged(down, Waiting, cache, IdsHere)
    BY <1>1, <2>1 DEF UnderWay
  <2> QED
    BY <1>1, <1>2, <2>2, UndamagedCut
<1>6. UnderWay'
  BY <1>3, <1>4, <1>5 DEF UnderWay
<1> QED
  BY <1>1, <1>6 DEF Delivery, Ended

(* A record of the flight: it is protected under the handshake key, and    *)
(* after it the server may write under its application key.                *)
LEMMA FlightDelivery ==
  ASSUME Typed, Course, Delivery, cpc \notin Ended, spc = "flight",
         NEW k \in 1..Len(queue), ServerWrite(k)
  PROVE  Delivery'
<1> DEFINE u == SubSeq(queue, 1, k)
           r == Record(outKey, "handshake", u)
           retry == server.retry
<1>1. /\ UNCHANGED <<server, conn, client, issued, sent, updates>>
      /\ down' = Append(down, r) /\ (torn => torn')
      /\ outKey' = outKey \/ outKey' = AppKey(shared["server"], transcript["server"])
      /\ spc' = IF queue' = <<>> /\ spc = "flight" THEN "waitFinished" ELSE spc
  BY Zenon DEF ServerWrite
<1>2. /\ Answered /\ outKey = FlightKey(retry) /\ shared["server"] = Secret(retry)
      /\ transcript["server"] = Hashed(retry, 4)
  BY HasAnswered DEF Answered
<1>3. /\ r \in AllRecords /\ r.key = outKey /\ r.type = "handshake"
  <2>1. outKey \in Keys /\ queue \in Seq(AllUnits) /\ "handshake" \in Contents
    BY DEF Typed, Shape, Contents
  <2>2. u \in Seq(AllUnits)
    BY <2>1, CutUnits
  <2> HIDE DEF u
  <2> QED
    BY <2>1, <2>2, RecordShape
<1>4. ~Protected(r) /\ ~Carries(r)
  <2>1. FlightKey(retry).phase = "handshake"
    BY DEF FlightKey, HandshakeKey
  <2> HIDE DEF r
  <2> QED
    BY <1>2, <1>3, <2>1 DEF Protected, Carries
<1> HIDE DEF r
<1>5. Waiting = <<>> /\ Waiting' = <<>>
  BY <1>1 DEF Waiting
<1>6. UnderWay /\ Sealed /\ updates = 0
  <2>1. UnderWay /\ Sealed
    BY DEF Delivery, UnderWay
  <2>2. updates \in 0..MaxUpdates /\ MaxUpdates \in Nat
    BY InteropAssumption, TwoParts DEF Typed, ServerTyped
  <2> QED
    BY <2>1, <2>2 DEF Sealed
<1>7. Sealed'
  <2>1. outKey'.phase = "application" => outKey' = DataKey(retry)
    <3>1. FlightKey(retry).phase = "handshake"
      BY DEF FlightKey, HandshakeKey
    <3> QED
      BY <1>1, <1>2, <3>1 DEF DataKey
  <2> QED
    BY <1>1, <1>3, <1>4, <1>5, <1>6, <2>1, SealedSent DEF Typed
<1>8. /\ Content(r) = SubSeq(Waiting, 1, 0) /\ 0 \in 0..Len(Waiting)
      /\ Waiting' = SubSeq(Waiting, 0 + 1, Len(Waiting)) /\ ~(0 > 0)
  <2>1. Content(r) = <<>>
    BY <1>4 DEF Content
  <2>2. SubSeq(<<>>, 1, 0) = <<>> /\ 0 \in 0..Len(<<>>) /\ SubSeq(<<>>, 0 + 1, Len(<<>>)) = <<>>
    OBVIOUS
  <2> QED
    BY <1>5, <2>1, <2>2
<1>9. sent' = sent + Datum(r)
  <2>1. sent \in 0..MaxData /\ MaxData \in Nat
    BY InteropAssumption, TwoParts DEF Typed, ServerTyped
  <2> QED
    BY <1>1, <1>3, <2>1 DEF Datum
<1> QED
  BY <1>1, <1>3, <1>7, <1>8, <1>9, DeliverySent

(* A record with tickets and key updates.                                  *)
LEMMA OpenDelivery ==
  ASSUME Typed, Course, Delivery, cpc \notin Ended, spc = "open",
         NEW k \in 1..Len(queue), ServerWrite(k)
  PROVE  Delivery'
<1> DEFINE u == SubSeq(queue, 1, k)
           v == SubSeq(queue, k + 1, Len(queue))
           r == Record(outKey, "handshake", u)
           retry == server.retry
<1>1. /\ UNCHANGED <<server, conn, client, issued, sent, updates>>
      /\ down' = Append(down, r) /\ queue' = v
      /\ \A i \in 1 .. k - 1 : ~Ends(queue[i])
  BY Zenon DEF ServerWrite
<1>2. torn' = (torn \/ (IsTicket(queue[k].msg) /\ queue[k].part = 1))
  BY Zenon DEF ServerWrite
<1>3. outKey' = IF ~Ends(queue[k]) THEN outKey ELSE [outKey EXCEPT !.generation = @ + 1]
  BY DEF ServerWrite
<1>4. spc' = "open"
  BY DEF ServerWrite
<1>5. /\ Answered /\ outKey.phase = "application" /\ outKey \in Keys
      /\ queue \in Seq(AllUnits) /\ Len(queue) \in Nat
  BY HasAnswered DEF Answered, Typed, Shape
<1>6. /\ u \in Seq(AllUnits) /\ Len(u) = k /\ Len(v) = Len(queue) - k
      /\ \A i \in 1..Len(queue) - k : v[i] = queue[k + i]
  BY <1>5, CutUnits
<1>7. queue[k] \in AllUnits /\ queue[k].part \in {1, 2}
  <2>1. queue[k] \in AllUnits
    BY <1>5
  <2> QED
    BY <2>1 DEF AllUnits
<1>8. /\ r \in AllRecords /\ r.key = outKey /\ r.type = "handshake" /\ r.units = u
  <2>1. "handshake" \in Contents
    BY DEF Contents
  <2> HIDE DEF u
  <2> QED
    BY <1>5, <1>6, <2>1, RecordShape
<1> HIDE DEF r
<1>9. Protected(r) /\ Carries(r) /\ u # <<>> /\ k # 0
  <2> HIDE DEF u
  <2> QED
    BY <1>5, <1>6, <1>8 DEF Protected, Carries
<1>10. Waiting = queue /\ Waiting' = v
  BY <1>1, <1>4 DEF Waiting
<1>11. UnderWay /\ Sealed /\ updates \in Nat
  <2>1. UnderWay /\ Sealed
    BY DEF Delivery, UnderWay
  <2>2. updates \in 0..MaxUpdates /\ MaxUpdates \in Nat
    BY InteropAssumption, TwoParts DEF Typed, ServerTyped
  <2> QED
    BY <2>1, <2>2
<1> HIDE DEF u, v
<1>12. ASSUME updates = 0
       PROVE  /\ outKey'.phase = "application" => outKey' = DataKey(retry)
              /\ Protected(r) => r.key = DataKey(retry)
              /\ \A i \in 1..Len(Waiting') : IsTicket(Waiting'[i].msg)
              /\ IsTicket(queue[k].msg)
  <2>1. OneKey
    BY <1>11, <1>12 DEF Sealed
  <2>2. \A i \in 1..Len(queue) : IsTicket(queue[i].msg)
    BY <1>10, <2>1 DEF OneKey
  <2>3. IsTicket(queue[k].msg) /\ ~Ends(queue[k])
    BY <2>2 DEF IsTicket, Ends
  <2>4. outKey' = outKey /\ outKey = DataKey(retry)
    BY <1>3, <1>5, <2>1, <2>3 DEF OneKey
  <2>5. \A i \in 1..Len(v) : IsTicket(v[i].msg)
    <3> SUFFICES ASSUME NEW i \in 1..Len(v) PROVE IsTicket(v[i].msg)
      OBVIOUS
    <3>1. k + i \in 1..Len(queue) /\ v[i] = queue[k + i]
      BY <1>5, <1>6
    <3> QED
      BY <2>2, <3>1
  <2> QED
    BY <1>8, <1>10, <2>3, <2>4, <2>5
<1>13. updates > 0 => outKey'.generation > 0 \/ \E i \in 1..Len(v) : Ends(v[i])
  <2> SUFFICES ASSUME updates > 0
               PROVE  outKey'.generation > 0 \/ \E i \in 1..Len(v) : Ends(v[i])
    OBVIOUS
  <2>1. outKey.generation \in Nat
    BY <1>5 DEF Keys
  <2>2. CASE Ends(queue[k])
    <3>1. outKey' = [outKey EXCEPT !.generation = outKey.generation + 1]
      BY <1>3, <2>2
    <3>2. outKey'.generation = outKey.generation + 1
      BY <1>5, <3>1 DEF Keys
    <3> QED
      BY <2>1, <3>2
  <2>3. CASE ~Ends(queue[k]) /\ outKey.generation > 0
    BY <1>3, <2>3
  <2>4. CASE ~Ends(queue[k]) /\ ~(outKey.generation > 0)
    <3>1. PICK i \in 1..Len(queue) : Ends(queue[i])
      BY <1>11, <2>4 DEF Sealed
    <3>2. i \notin 1 .. k - 1 /\ i # k
      BY <1>1, <2>4, <3>1
    <3> DEFINE j == i - k
    <3>3. j \in 1 .. Len(queue) - k /\ k + j = i
      BY <1>5, <3>2
    <3> HIDE DEF j
    <3>4. j \in 1..Len(v) /\ v[j] = queue[k + j]
      BY <1>6, <3>3
    <3> QED
      BY <3>1, <3>3, <3>4
  <2> QED
    BY <2>2, <2>3, <2>4
<1>14. Sealed'
  BY <1>1, <1>4, <1>8, <1>9, <1>11, <1>12, <1>13, SealedSent DEF Typed
<1>15. /\ Content(r) = SubSeq(Waiting, 1, k) /\ k \in 0..Len(Waiting)
       /\ Waiting' = SubSeq(Waiting, k + 1, Len(Waiting))
  BY <1>8, <1>9, <1>10 DEF Content, u, v
<1>16. Clean' /\ k > 0 => Waiting[k].part = 2
  <2> SUFFICES ASSUME Clean' PROVE queue[k].part = 2
    BY <1>10
  <2>1. updates = 0 /\ ~torn'
    BY <1>1 DEF Clean
  <2>2. IsTicket(queue[k].msg)
    BY <1>12, <2>1
  <2>3. queue[k].part # 1
    BY <1>2, <2>1, <2>2, Zenon
  <2> QED
    BY <1>7, <2>3
<1>17. sent' = sent + Datum(r)
  <2>1. sent \in 0..MaxData /\ MaxData \in Nat
    BY InteropAssumption, TwoParts DEF Typed, ServerTyped
  <2> QED
    BY <1>1, <1>8, <2>1 DEF Datum
<1>18. torn => torn'
  BY <1>2, Zenon
<1> QED
  BY <1>1, <1>8, <1>14, <1>15, <1>16, <1>17, <1>18, DeliverySent

(* Data and the alert go out under the key of the records before them.     *)
LEMMA SendingDelivery ==
  ASSUME Typed, Course, Delivery, cpc \notin Ended, SendData \/ ServerClose
  PROVE  Delivery'
<1> DEFINE retry == server.retry
<1>1. /\ spc \in {"waitFinished", "open"}
      /\ UNCHANGED <<server, conn, client, queue, outKey, issued, updates, torn>>
      /\ \E t \in {"data", "alert"} :
           /\ down' = Append(down, Record(outKey, t, <<>>))
           /\ t = "data" => sent' = sent + 1 /\ spc' = spc
           /\ t = "alert" => sent' = sent /\ spc' = "ended" /\ queue = <<>>
  <2>1. ASSUME SendData
        PROVE  /\ spc \in {"waitFinished", "open"} /\ sent' = sent + 1 /\ spc' = spc
               /\ down' = Append(down, Record(outKey, "data", <<>>))
               /\ UNCHANGED <<server, conn, client, queue, outKey, issued, updates, torn>>
    BY <2>1, Zenon DEF SendData
  <2>2. ASSUME ServerClose
        PROVE  /\ spc = "open" /\ sent' = sent /\ spc' = "ended" /\ queue = <<>>
               /\ down' = Append(down, Record(outKey, "alert", <<>>))
               /\ UNCHANGED <<server, conn, client, queue, outKey, issued, updates, torn>>
    BY <2>2, Zenon DEF ServerClose, AlertRecord
  <2>3. CASE SendData
    <3>1. "data" \in {"data", "alert"} /\ "data" # "alert"
      OBVIOUS
    <3> QED
      BY <2>1, <2>3, <3>1
  <2>4. CASE ServerClose
    <3>1. "alert" \in {"data", "alert"} /\ "data" # "alert"
      OBVIOUS
    <3> QED
      BY <2>2, <2>4, <3>1
  <2> QED
    BY <2>3, <2>4
<1>2. PICK t \in {"data", "alert"} :
        /\ down' = Append(down, Record(outKey, t, <<>>))
        /\ t = "data" => sent' = sent + 1 /\ spc' = spc
        /\ t = "alert" => sent' = sent /\ spc' = "ended" /\ queue = <<>>
  BY <1>1
<1> DEFINE r == Record(outKey, t, <<>>)
<1>3. /\ r \in AllRecords /\ r.key = outKey /\ r.type = t /\ ~Carries(r)
  <2>1. outKey \in Keys /\ t \in Contents /\ <<>> \in Seq(AllUnits)
    BY EmptySeq DEF Typed, Shape, Contents
  <2>2. r \in AllRecords /\ r.key = outKey /\ r.type = t
    BY <2>1 DEF Record, AllRecords
  <2> HIDE DEF r
  <2> QED
    BY <2>2 DEF Carries
<1>4. down' = Append(down, r)
  BY <1>2
<1> HIDE DEF r
<1>5. Waiting' = Waiting /\ Waiting \in Seq(AllUnits)
  <2>1. queue \in Seq(AllUnits)
    BY DEF Typed, Shape
  <2>2. t = "data" \/ t = "alert"
    OBVIOUS
  <2> QED
    BY <1>1, <1>2, <2>1, <2>2, EmptySeq DEF Waiting
<1>6. UnderWay /\ Sealed /\ updates \in Nat /\ outKey.phase = "application"
  <2>1. UnderWay /\ Sealed
    BY DEF Delivery, UnderWay
  <2>2. updates \in 0..MaxUpdates /\ MaxUpdates \in Nat
    BY InteropAssumption, TwoParts DEF Typed, ServerTyped
  <2>3. outKey.phase = "application"
    BY <1>1, HasAnswered DEF Answered
  <2> QED
    BY <2>1, <2>2, <2>3
<1>7. Sealed'
  <2>1. updates = 0 => /\ outKey'.phase = "application" => outKey' = DataKey(retry)
                       /\ Protected(r) => r.key = DataKey(retry)
                       /\ \A i \in 1..Len(Waiting') : IsTicket(Waiting'[i].msg)
    <3> SUFFICES ASSUME updates = 0
                 PROVE  /\ outKey = DataKey(retry)
                        /\ \A i \in 1..Len(Waiting) : IsTicket(Waiting[i].msg)
      BY <1>1, <1>3, <1>5
    <3> QED
      BY <1>6 DEF Sealed, OneKey
  <2>2. updates > 0 => /\ spc' \in {"open", "ended"}
                       /\ outKey'.generation > 0 \/ \E i \in 1..Len(queue') : Ends(queue'[i])
    <3> SUFFICES ASSUME updates > 0
                 PROVE  /\ spc' \in {"open", "ended"}
                        /\ outKey'.generation > 0 \/ \E i \in 1..Len(queue') : Ends(queue'[i])
      OBVIOUS
    <3>1. /\ spc \in {"open", "ended"}
          /\ outKey.generation > 0 \/ \E i \in 1..Len(queue) : Ends(queue[i])
      BY <1>6 DEF Sealed
    <3> QED
      BY <1>1, <1>2, <3>1
  <2>3. r.type = "alert" => spc' = "ended" /\ r.key = outKey'
    BY <1>1, <1>2, <1>3
  <2> QED
    BY <1>1, <1>3, <1>4, <1>6, <2>1, <2>2, <2>3, SealedSent DEF Typed
<1>8. /\ Content(r) = SubSeq(Waiting, 1, 0) /\ 0 \in 0..Len(Waiting)
      /\ Waiting' = SubSeq(Waiting, 0 + 1, Len(Waiting)) /\ ~(0 > 0)
  <2>1. Content(r) = <<>>
    BY <1>3 DEF Content
  <2>2. \A s \in Seq(AllUnits) : /\ SubSeq(s, 1, 0) = <<>> /\ 0 \in 0..Len(s)
                                 /\ SubSeq(s, 0 + 1, Len(s)) = s
    OBVIOUS
  <2> QED
    BY <1>5, <2>1, <2>2
<1>9. sent' = sent + Datum(r)
  <2>1. sent \in 0..MaxData /\ MaxData \in Nat
    BY InteropAssumption, TwoParts DEF Typed, ServerTyped
  <2> QED
    BY <1>2, <1>3, <2>1 DEF Datum
<1> QED
  BY <1>1, <1>3, <1>4, <1>7, <1>8, <1>9, DeliverySent

(* The server queues a message: a ticket after all others, a key update.   *)
LEMMA QueuedUnits ==
  ASSUME Shape, spc = "open", spc' = "open", NEW m \in Messages, queue' = queue \o Units(m)
  PROVE  LET x == Unit(m, 1)
             y == Unit(m, 2)
         IN  /\ Waiting = queue /\ Waiting' = queue \o <<x, y>> /\ queue' = queue \o <<x, y>>
             /\ x \in AllUnits /\ y \in AllUnits /\ queue \in Seq(AllUnits)
             /\ x.msg = m /\ y.msg = m /\ x.part = 1 /\ y.part = 2
             /\ Len(queue) \in Nat /\ Len(queue') = Len(queue) + 2
             /\ \A i \in 1..Len(queue) : queue'[i] = queue[i]
             /\ queue'[Len(queue) + 1] = x /\ queue'[Len(queue) + 2] = y
<1> DEFINE x == Unit(m, 1)
           y == Unit(m, 2)
<1>1. /\ x \in AllUnits /\ y \in AllUnits /\ queue \in Seq(AllUnits)
  BY UnitShape DEF Shape
<1>2. x.msg = m /\ y.msg = m /\ x.part = 1 /\ y.part = 2
  BY DEF Unit
<1> HIDE DEF x, y
<1>3. Units(m) = <<x, y>>
  BY DEF Units, x, y
<1>4. Waiting = queue /\ Waiting' = queue'
  BY DEF Waiting
<1>5. LET v == queue \o <<x, y>> IN
      /\ Len(queue) \in Nat /\ Len(v) = Len(queue) + 2
      /\ \A i \in 1..Len(queue) : v[i] = queue[i]
      /\ v[Len(queue) + 1] = x /\ v[Len(queue) + 2] = y
  BY <1>1, TwoMore
<1> QED
  BY <1>1, <1>2, <1>3, <1>4, <1>5 DEF x, y

(* A key update waits: from now on the stream is not clean.                *)
LEMMA UpdateDelivery ==
  ASSUME Typed, Course, Delivery, cpc \notin Ended, UpdateKey
  PROVE  Delivery'
<1> DEFINE m == Message("KeyUpdate", "server", 0, <<>>)
           x == Unit(m, 1)
           y == Unit(m, 2)
<1>1. /\ spc = "open" /\ spc' = spc /\ updates' = updates + 1 /\ queue' = queue \o Units(m)
      /\ UNCHANGED <<server, conn, client, outKey, issued, sent, torn, down>>
  BY Zenon DEF UpdateKey
<1>2. m \in Messages /\ ~IsTicket(m) /\ m.type = "KeyUpdate"
  <2>1. "KeyUpdate" \in Kinds /\ "server" \in Values /\ 0 \in Nat /\ <<>> \in Seq(Tokens)
    BY EmptySeq DEF Kinds, Values
  <2>2. m.type = "KeyUpdate"
    BY DEF Message
  <2> HIDE DEF m
  <2>3. m \in Messages
    BY <2>1, MessageShape DEF m
  <2> QED
    BY <2>2, <2>3 DEF IsTicket
<1> HIDE DEF m, x, y
<1>3. /\ Waiting = queue /\ Waiting' = queue \o <<x, y>>
      /\ x \in AllUnits /\ y \in AllUnits /\ queue \in Seq(AllUnits)
      /\ x.msg = m /\ y.msg = m /\ y.part = 2
      /\ Len(queue) \in Nat /\ Len(queue') = Len(queue) + 2 /\ queue'[Len(queue) + 2] = y
  BY <1>1, <1>2, QueuedUnits DEF Typed, x, y
<1>4. /\ UnderWay /\ Numbered /\ Cached /\ Numbered' /\ Cached' /\ IdsHere' = IdsHere
      /\ UNCHANGED <<cpc, cache, got, sent>>
  BY <1>1, IssuedKept DEF Delivery, client
<1>5. updates' > 0 /\ ~Clean'
  <2>1. updates \in 0..MaxUpdates /\ MaxUpdates \in Nat
    BY InteropAssumption, TwoParts DEF Typed, ServerTyped
  <2> QED
    BY <1>1, <2>1 DEF Clean
<1>6. InOrder(down, queue \o <<x, y>>, cache, IdsHere)
  <2>1. InOrder(down, queue, cache, IdsHere)
    BY <1>3, <1>4 DEF UnderWay
  <2>2. Above(x, y, cache, IdsHere) /\ (IsTicket(x.msg) => x.msg.n \in IdsHere)
    BY <1>2, <1>3 DEF Above
  <2>3. down \in Seq(AllRecords)
    BY DEF Typed, Shape
  <2> QED
    BY <1>3, <2>1, <2>2, <2>3, InOrderMore
<1>7. Sealed'
  <2>1. Sealed
    BY <1>4 DEF UnderWay
  <2>2. Ends(queue'[Len(queue) + 2]) /\ Len(queue) + 2 \in 1..Len(queue')
    BY <1>2, <1>3 DEF Ends
  <2> QED
    BY <1>1, <1>5, <2>1, <2>2 DEF Sealed
<1>8. UnderWay'
  BY <1>1, <1>3, <1>4, <1>5, <1>6, <1>7 DEF UnderWay
<1> QED
  BY <1>4, <1>8 DEF Delivery, Ended

(* A new ticket waits behind those under way.                              *)
LEMMA IssueDelivery ==
  ASSUME Typed, Course, Delivery, cpc \notin Ended, IssueTicket
  PROVE  Delivery'
<1> DEFINE id == 10 * conn + Cardinality(IssuedHere) + 1
           m == Message("NewSessionTicket", "server", id, <<>>)
           x == Unit(m, 1)
           y == Unit(m, 2)
<1>1. /\ spc = "open" /\ spc' = spc /\ queue' = queue \o Units(m)
      /\ UNCHANGED <<server, conn, client, outKey, sent, updates, torn, down>>
  BY Zenon DEF IssueTicket
<1>2. /\ UnderWay /\ Numbered /\ Cached /\ UNCHANGED <<cpc, cache, got, sent>>
  BY <1>1 DEF Delivery, client
<1>3. /\ Numbered' /\ Cached' /\ IdsHere' = IdsHere \cup {id} /\ id \in Nat
      /\ \A z \in IdsHere : z \in Nat /\ z < id
      /\ \A i \in 1..Len(cache) : cache[i].id \in Nat /\ cache[i].id < id
  BY <1>2, TicketIssued
<1> HIDE DEF id
<1>4. m \in Messages /\ IsTicket(m) /\ m.n = id
  <2>1. "NewSessionTicket" \in Kinds /\ "server" \in Values /\ <<>> \in Seq(Tokens)
    BY EmptySeq DEF Kinds, Values
  <2>2. m.type = "NewSessionTicket" /\ m.n = id
    BY DEF Message
  <2> HIDE DEF m
  <2>3. m \in Messages
    BY <1>3, <2>1, MessageShape DEF m
  <2> QED
    BY <2>2, <2>3 DEF IsTicket
<1> HIDE DEF m, x, y
<1>5. /\ Waiting = queue /\ Waiting' = queue \o <<x, y>> /\ queue' = queue \o <<x, y>>
      /\ x \in AllUnits /\ y \in AllUnits /\ queue \in Seq(AllUnits)
      /\ x.msg = m /\ y.msg = m /\ x.part = 1 /\ y.part = 2
      /\ Len(queue) \in Nat /\ Len(queue') = Len(queue) + 2
      /\ \A i \in 1..Len(queue) : queue'[i] = queue[i]
      /\ queue'[Len(queue) + 1] = x /\ queue'[Len(queue) + 2] = y
  BY <1>1, <1>4, QueuedUnits DEF Typed, x, y
<1>6. Pair(x, y) /\ Above(x, y, cache, IdsHere)
  BY <1>3, <1>4, <1>5 DEF Pair, Above
<1>7. down \in Seq(AllRecords)
  BY DEF Typed, Shape
<1>8. InOrder(down, queue \o <<x, y>>, cache, IdsHere \cup {id})
  <2>1. InOrder(down, queue, cache, IdsHere)
    BY <1>2, <1>5 DEF UnderWay
  <2>2. IdsHere \subseteq IdsHere \cup {id} /\ (IsTicket(x.msg) => x.msg.n \in IdsHere \cup {id})
    BY <1>4, <1>5
  <2> QED
    BY <1>5, <1>6, <1>7, <2>1, <2>2, InOrderMore
<1>9. Clean' => Undamaged(down, queue \o <<x, y>>, cache, IdsHere \cup {id})
  <2> SUFFICES ASSUME Clean'
               PROVE  Undamaged(down, queue \o <<x, y>>, cache, IdsHere \cup {id})
    OBVIOUS
  <2>1. Undamaged(down, queue, cache, IdsHere)
    BY <1>1, <1>2, <1>5 DEF UnderWay, Clean
  <2>2. Undamaged(down, queue \o <<x, y>>, cache, IdsHere \cup {x.msg.n})
    BY <1>5, <1>6, <1>7, <2>1, UndamagedMore
  <2>3. x.msg.n = id
    BY <1>4, <1>5
  <2> QED
    BY <2>2, <2>3
<1>10. Sealed'
  <2>1. Sealed
    BY <1>2 DEF UnderWay
  <2>2. ASSUME OneKey PROVE OneKey'
    <3>1. ASSUME NEW i \in 1..Len(Waiting') PROVE IsTicket(Waiting'[i].msg)
      <4>1. CASE i \in 1..Len(queue)
        BY <1>5, <2>2, <4>1 DEF OneKey
      <4>2. CASE i \notin 1..Len(queue)
        <5>1. i = Len(queue) + 1 \/ i = Len(queue) + 2
          BY <1>5, <4>2
        <5> QED
          BY <1>4, <1>5, <5>1
      <4> QED
        BY <4>1, <4>2
    <3> QED
      BY <1>1, <2>2, <3>1 DEF OneKey
  <2>3. (\E i \in 1..Len(queue) : Ends(queue[i])) => \E i \in 1..Len(queue') : Ends(queue'[i])
    <3> SUFFICES ASSUME NEW i \in 1..Len(queue), Ends(queue[i])
                 PROVE  \E j \in 1..Len(queue') : Ends(queue'[j])
      OBVIOUS
    <3>1. i \in 1..Len(queue') /\ queue'[i] = queue[i]
      BY <1>5
    <3> QED
      BY <3>1
  <2> QED
    BY <1>1, <2>1, <2>2, <2>3 DEF Sealed
<1>11. UnderWay'
  BY <1>1, <1>2, <1>3, <1>5, <1>8, <1>9, <1>10 DEF UnderWay
<1> QED
  BY <1>2, <1>3, <1>11 DEF Delivery, Ended

(* On a new connection nothing is under way.                               *)
LEMMA EmptyDelivery ==
  ASSUME Numbered', Cached', IssuedHere' = {}, cpc' = "sendHello", down' = <<>>, got' = <<>>,
         sent' = 0, updates' = 0, spc' = "waitHello", outKey' = NoKey
  PROVE  Delivery'
<1>1. Waiting' = <<>> /\ IdsHere' = {}
  BY DEF Waiting, IdsHere
<1>2. Sealed'
  <2>1. outKey'.phase # "application"
    BY NoKeyShape
  <2> QED
    BY <1>1, <2>1 DEF Sealed, OneKey
<1>3. UnderWay'
  BY <1>1, <1>2, NothingUnderWay DEF UnderWay
<1> QED
  BY <1>3 DEF Delivery

(* No ticket of the next connection was issued before it.                  *)
LEMMA RedialDelivery == ASSUME Typed, Delivery, Redial PROVE Delivery'
<1>1. /\ conn' = conn + 1 /\ cache' = cache /\ issued' = issued
      /\ cpc' = "sendHello" /\ down' = <<>> /\ got' = <<>> /\ sent' = 0 /\ updates' = 0
      /\ spc' = "waitHello" /\ outKey' = NoKey
  BY DEF Redial
<1>2. Numbered /\ Cached
  BY DEF Delivery
<1> DEFINE n == Cardinality(IssuedHere)
<1>3. conn \in Nat /\ n \in Nat /\ n < 10 /\ \A t \in issued : t.id \in 11 .. 10 * conn + n
  <2>1. conn \in Nat /\ n \in Nat
    BY IssuedShape DEF Typed, Shape
  <2>2. n <= MaxTickets /\ \A t \in issued : t.id \in 11 .. 10 * conn + n
    BY <1>2 DEF Numbered
  <2> HIDE DEF n
  <2>3. MaxTickets \in Nat /\ MaxTickets < 10
    BY InteropAssumption
  <2>4. n < 10
    BY <2>1, <2>2, <2>3
  <2> QED
    BY <2>1, <2>2, <2>4
<1> HIDE DEF n
<1>4. IssuedHere' = {}
  <2>1. \A c \in Nat, x \in Nat : x < 10 * c + 10 => x \div 10 # c + 1
    OBVIOUS
  <2>2. \A t \in issued : t.id \in Nat /\ t.id < 10 * conn + 10
    BY <1>3
  <2>3. \A t \in issued : t.id \div 10 # conn + 1
    BY <1>3, <2>1, <2>2
  <2> QED
    BY <1>1, <2>3 DEF IssuedHere, OfThisConn
<1>5. Numbered'
  <2>1. Cardinality(IssuedHere') = 0
    BY <1>4, FS_EmptySet
  <2>2. \A t \in issued : t.id \in 11 .. 10 * (conn + 1) + 0
    BY <1>3
  <2>3. 0 <= MaxTickets
    BY InteropAssumption
  <2> QED
    BY <1>1, <2>1, <2>2, <2>3 DEF Numbered
<1>6. Cached'
  BY <1>1, <1>2 DEF Cached
<1> QED
  BY <1>1, <1>4, <1>5, <1>6, EmptyDelivery

(* A step that changes nothing keeps what is under way.                    *)
LEMMA UnchangedDelivery == ASSUME Delivery, UNCHANGED vars PROVE Delivery'
<1>1. /\ UNCHANGED <<cpc, cache, got>>
      /\ UNCHANGED <<spc, queue, outKey, issued, sent, updates, torn>>
      /\ UNCHANGED <<server, conn, down>> /\ Served
  BY DEF vars, client, serving, Served
<1>2. CASE cpc \notin Ended
  BY <1>1, <1>2, DeliverySame DEF Ended
<1>3. CASE cpc \in Ended
  <2>1. Closed' <=> Closed
    BY <1>1, ServedKept DEF Closed
  <2> QED
    BY <1>1, <1>3, <2>1, ServedKept DEF Delivery
<1> QED
  BY <1>2, <1>3

(* The numbers of the tickets are kept by every step that does not begin   *)
(* the next connection.                                                    *)
LEMMA NumbersKept ==
  ASSUME Typed, Numbered, Cached,
         \/ SkipChangeCipherSpec \/ ReadHelloPart \/ ServerStep \/ ServerChoice
         \/ UNCHANGED vars
  PROVE  Numbered' /\ Cached'
<1>1. CASE ServerStep \/ ServerChoice
  <2>1. conn' = conn /\ cache' = cache /\ (issued' = issued \/ IssueTicket)
    BY <1>1, ServerMoves DEF client
  <2> QED
    BY <2>1, IssuedKept, TicketIssued
<1>2. CASE SkipChangeCipherSpec \/ ReadHelloPart \/ UNCHANGED vars
  <2>1. conn' = conn /\ cache' = cache /\ issued' = issued
    BY <1>2 DEF SkipChangeCipherSpec, ReadHelloPart, vars, client, serving
  <2> QED
    BY <2>1, IssuedKept
<1> QED
  BY <1>1, <1>2

(* Every step keeps what is under way, but that of a server that cuts its  *)
(* hello.                                                                  *)
LEMMA DeliveryStep ==
  Typed /\ Course /\ Delivery /\ [Next]_vars =>
    Delivery' \/ (CutShort' /\ Numbered' /\ Cached')
<1> SUFFICES ASSUME Typed, Course, Delivery, [Next]_vars
             PROVE  Delivery' \/ (CutShort' /\ Numbered' /\ Cached')
  OBVIOUS
<1>1. CASE ClientStep
  BY <1>1, HandshakeDelivery, NoHelloPart, ReadDataDelivery, ReadTicketsDelivery,
     ReadFailsDelivery, ReadCloseDelivery, Zenon DEF ClientStep, Typed
<1>2. CASE ServerStep \/ ServerChoice
  <2>1. CASE cpc \in Ended
    BY <1>2, <2>1, EndedDelivery
  <2>2. CASE cpc \notin Ended
    <3>1. ASSUME ServerReadHello(FALSE) \/ ServerReadSecondHello(FALSE) PROVE Delivery'
      <4>1. FALSE \in BOOLEAN
        OBVIOUS
      <4> QED
        BY <2>2, <3>1, <4>1, HelloAnswered, AnswerDelivery, Zenon
    <3>2. ASSUME CutsHello PROVE CutShort' /\ Numbered' /\ Cached'
      <4>1. Idle /\ Numbered /\ Cached
        BY DEF Course, Delivery
      <4>2. Idle'
        BY <1>2, <4>1, IdleServer
      <4> QED
        BY <1>2, <2>2, <3>2, <4>1, <4>2, CutCourse, NumbersKept
    <3>3. ASSUME ServerSkipChangeCipherSpec PROVE Delivery'
      <4>1. Served /\ UNCHANGED <<cpc, cache, got, down>>
        BY <3>3 DEF ServerSkipChangeCipherSpec, Served, client
      <4> QED
        BY <2>2, <4>1, DeliverySame DEF Ended
    <3>4. ASSUME NEW k \in 1..Len(queue), ServerWrite(k) PROVE Delivery'
      <4>1. spc = "flight" \/ spc = "open"
        BY <3>4 DEF ServerWrite
      <4> QED
        BY <2>2, <3>4, <4>1, FlightDelivery, OpenDelivery
    <3>5. ASSUME NEW cut \in BOOLEAN, ServerReadHello(cut) \/ ServerReadSecondHello(cut)
          PROVE  Delivery' \/ (CutShort' /\ Numbered' /\ Cached')
      BY <3>1, <3>2, <3>5, WholeOrCut
    <3> QED
      BY <1>2, <2>2, <3>3, <3>4, <3>5, ServerFinishedDelivery, IssueDelivery, UpdateDelivery,
         SendingDelivery, Zenon DEF ServerStep, ServerChoice
  <2> QED
    BY <2>1, <2>2
<1>3. CASE Redial
  BY <1>3, RedialDelivery
<1>4. CASE Terminated \/ UNCHANGED vars
  BY <1>4, UnchangedDelivery DEF Terminated
<1> QED
  BY <1>1, <1>2, <1>3, <1>4 DEF Next

(* The client of a conversation cut short fails, and the tickets keep      *)
(* their numbers.                                                          *)
LEMMA CutShortDelivery ==
  Typed /\ CutShort /\ Numbered /\ Cached /\ [Next]_vars =>
    (CutShort' /\ Numbered' /\ Cached') \/ (Course' /\ Delivery')
<1> SUFFICES ASSUME Typed, CutShort, Numbered, Cached, [Next]_vars
             PROVE  (CutShort' /\ Numbered' /\ Cached') \/ (Course' /\ Delivery')
  OBVIOUS
<1>1. ~Redial /\ ~Terminated
  BY DEF CutShort, Redial, Terminated, Ended
<1>2. ClientStep => SkipChangeCipherSpec \/ ReadHelloPart
  BY CutShortRead DEF Typed
<1>3. Numbered' /\ Cached'
  BY <1>1, <1>2, NumbersKept, Zenon DEF Next
<1>4. cpc' = "failed" => Delivery'
  BY <1>3 DEF Delivery, Ended
<1> QED
  BY <1>3, <1>4, CutShortStep

(* Before the first connection there is no ticket.                         *)
LEMMA DeliveryInit == Init => Delivery
<1> SUFFICES ASSUME Init PROVE Delivery
  OBVIOUS
<1>1. /\ cpc = "sendHello" /\ cache = <<>> /\ got = <<>> /\ down = <<>> /\ spc = "waitHello"
      /\ outKey = NoKey /\ issued = {} /\ sent = 0 /\ updates = 0
  BY DEF Init
<1>2. IssuedHere = {} /\ IdsHere = {} /\ Waiting = <<>>
  BY <1>1 DEF IssuedHere, OfThisConn, IdsHere, Waiting
<1>3. Numbered
  <2>1. Cardinality(IssuedHere) = 0 /\ 0 <= MaxTickets
    BY <1>2, FS_EmptySet, InteropAssumption
  <2> QED
    BY <1>1, <2>1 DEF Numbered
<1>4. Cached
  BY <1>1 DEF Cached
<1>5. Sealed
  <2>1. outKey.phase # "application"
    BY <1>1, NoKeyShape
  <2> QED
    BY <1>1, <1>2, <2>1 DEF Sealed, OneKey
<1>6. UnderWay
  BY <1>1, <1>2, <1>5, NothingUnderWay DEF UnderWay
<1> QED
  BY <1>1, <1>3, <1>4, <1>6 DEF Delivery

---------------------------------------------------------------------------
(* Theorems about Read *)

(* The inductive invariant of the data and the tickets.                    *)
Conversation == (Course /\ Delivery) \/ (CutShort /\ Numbered /\ Cached)

LEMMA DeliveryKept == Spec => [](Typed /\ Conversation)
<1>1. Init => Typed /\ Conversation
  BY TypedInit, CourseInit, DeliveryInit DEF Conversation
<1>2. Typed /\ Conversation /\ [Next]_vars => Typed' /\ Conversation'
  <2> SUFFICES ASSUME Typed, Conversation, [Next]_vars PROVE Typed' /\ Conversation'
    OBVIOUS
  <2>1. Typed'
    BY TypedStep DEF Conversation
  <2>2. CASE Course /\ Delivery
    <3>1. Course' \/ CutShort'
      BY <2>2, CourseStep
    <3>2. Delivery' \/ (CutShort' /\ Numbered' /\ Cached')
      BY <2>2, DeliveryStep
    <3>3. Delivery' => Numbered' /\ Cached'
      BY DEF Delivery
    <3> QED
      BY <2>1, <3>1, <3>2, <3>3 DEF Conversation
  <2>3. CASE CutShort /\ Numbered /\ Cached
    BY <2>1, <2>3, CutShortDelivery DEF Conversation
  <2> QED
    BY <2>2, <2>3 DEF Conversation
<1> QED
  BY <1>1, <1>2, PTL DEF Spec

(* Read fails only with a server that has updated its key, which this      *)
(* client cannot follow, or that has put one ticket into two records.      *)
THEOREM ReadFailuresExplained == Spec => []ReadFailureExplained
<1>1. Typed /\ Delivery => ReadFailureExplained
  <2> SUFFICES ASSUME Typed, Delivery, cpc = "broken" PROVE torn \/ updates > 0
    BY DEF ReadFailureExplained
  <2>1. ~Clean
    BY DEF Delivery
  <2>2. updates \in Nat
    <3>1. updates \in 0..MaxUpdates /\ MaxUpdates \in Nat
      BY InteropAssumption, TwoParts DEF Typed, ServerTyped
    <3> QED
      BY <3>1
  <2>3. updates # 0 => updates > 0
    BY <2>2
  <2> QED
    BY <2>1, <2>3, Zenon DEF Clean
<1>2. CutShort => ReadFailureExplained
  BY DEF CutShort, ReadFailureExplained
<1> QED
  BY <1>1, <1>2, DeliveryKept, PTL DEF Conversation

(* A Read that meets the server's close_notify has returned every data     *)
(* record, and OnNewSessionTicket got every ticket that came in one record,*)
(* once and in the order of issue.                                         *)
THEOREM NothingIsLost == Spec => []NothingLost
<1>1. Typed /\ Delivery => NothingLost
  <2> SUFFICES ASSUME Typed, Delivery, cpc = "closed"
               PROVE  /\ Len(got) = sent
                      /\ ~torn => OfThisConn(ToSet(cache)) =
                                  {[id |-> t.id, hash |-> <<>>] : t \in IssuedHere}
                      /\ \A i, j \in DOMAIN cache : i < j => cache[i].id < cache[j].id
    BY DEF NothingLost
  <2>1. Closed /\ Cached
    BY DEF Delivery
  <2>2. /\ cache \in Seq(CachedTickets) /\ DOMAIN cache = 1..Len(cache)
        /\ \A i \in 1..Len(cache) : cache[i] = [id |-> cache[i].id, hash |-> <<>>]
    <3>1. cache \in Seq(CachedTickets)
      BY DEF Typed, Shape, CachedTickets
    <3>2. \A i \in 1..Len(cache) : cache[i] \in CachedTickets
      BY <3>1
    <3>3. \A x \in CachedTickets : x = [id |-> x.id, hash |-> <<>>]
      BY DEF CachedTickets
    <3> QED
      BY <3>1, <3>2, <3>3
  <2>3. ToSet(cache) = {cache[i] : i \in 1..Len(cache)}
    BY <2>2 DEF ToSet
  <2> DEFINE kept == {[id |-> t.id, hash |-> <<>>] : t \in IssuedHere}
  <2>4. ASSUME NEW c \in OfThisConn(ToSet(cache)) PROVE c \in kept
    <3>1. PICK i \in 1..Len(cache) : c = cache[i]
      BY <2>3 DEF OfThisConn
    <3>2. PICK t \in issued : t.id = cache[i].id
      BY <2>1 DEF Cached
    <3>3. c.id \div 10 = conn
      BY DEF OfThisConn
    <3>4. t \in IssuedHere
      BY <3>1, <3>2, <3>3 DEF IssuedHere, OfThisConn
    <3>5. c = [id |-> t.id, hash |-> <<>>]
      BY <2>2, <3>1, <3>2
    <3> QED
      BY <3>4, <3>5
  <2>5. ASSUME ~torn, NEW c \in kept PROVE c \in OfThisConn(ToSet(cache))
    <3>1. PICK t \in IssuedHere : c = [id |-> t.id, hash |-> <<>>]
      OBVIOUS
    <3>2. Kept(cache, t.id)
      BY <2>1, <2>5 DEF Closed, IdsHere
    <3>3. PICK i \in 1..Len(cache) : cache[i].id = t.id
      BY <3>2 DEF Kept
    <3>4. c = cache[i]
      BY <2>2, <3>1, <3>3
    <3>5. c.id \div 10 = conn
      BY <3>1 DEF IssuedHere, OfThisConn
    <3> QED
      BY <2>3, <3>4, <3>5 DEF OfThisConn
  <2>6. ~torn => OfThisConn(ToSet(cache)) = kept
    BY <2>4, <2>5
  <2>7. \A i, j \in DOMAIN cache : i < j => cache[i].id < cache[j].id
    BY <2>1, <2>2 DEF Cached
  <2> QED
    BY <2>1, <2>6, <2>7 DEF Closed
<1>2. CutShort => NothingLost
  BY DEF CutShort, NothingLost
<1> QED
  BY <1>1, <1>2, DeliveryKept, PTL DEF Conversation
=============================================================================
