------------------------------ MODULE Interop ------------------------------
(***************************************************************************)
(* The gmtls client against servers this repository does not contain: an   *)
(* RFC 8446 server that may ask for another key share (HelloRetryRequest), *)
(* sends middlebox ChangeCipherSpec records, cuts its handshake messages,  *)
(* its hello too, into records as it likes, issues session tickets,        *)
(* recognises them on the next connection or not, and updates its key.     *)
(*                                                                         *)
(* A message is two units, its first and its second part, so that a record *)
(* can hold a part of a message, one message or several.  Hashes, keys and *)
(* pre-shared keys are symbolic as in Handshake; record sequence numbers   *)
(* and the client certificate are left to that module.                     *)
(***************************************************************************)
EXTENDS Naturals, Sequences, FiniteSets, SequencesExt

CONSTANTS
  Servers,      \* the servers to consider, a set of Server records
  MaxConns,     \* bound: connections made one after the other
  MaxTickets,   \* bound: tickets a server issues on one connection, below 10
  MaxUpdates,   \* bound: key updates of a server on one connection
  MaxData       \* bound: data records a server sends on one connection

None == "none"
Groups == {"SM2", "X25519"}

(* retry: the HelloRetryRequest the server answers with, "no" if none:     *)
(* another group, one the client does not have, another group and a        *)
(* cookie, or one request after the other.                                 *)
Server == [retry : {"no", "X25519", "unknown", "cookie", "twice"},
           strict : BOOLEAN,       \* compares the second hello with the first
           compat : BOOLEAN,       \* sends ChangeCipherSpec records
           recognises : BOOLEAN]   \* knows its tickets when they come back

ASSUME InteropAssumption ==
  /\ Servers \subseteq Server
  /\ MaxConns \in Nat \ {0} /\ {MaxTickets, MaxUpdates, MaxData} \subseteq Nat
  /\ MaxTickets < 10

VARIABLES
  server,      \* the server
  conn,        \* number of the connection
  cpc,         \* the call the client is in
  why,         \* the error its handshake failed with
  hellos,      \* tls13ClientHelloCnt
  requested,   \* tls13RequestedGroup
  km,          \* for each group the hello its private key was made for, 0 if none
  transcript,  \* messages hashed, of either side
  shared,      \* shared secret, of either side
  inKey,       \* key the client opens records with
  hsBuf,       \* tls13HandshakeBuf
  offer,       \* the ticket offered, NoTicket if none
  cache,       \* tickets the application got and loads for the next connection
  got,         \* data Read has returned
  spc,         \* what the server waits for or does
  queue,       \* units of handshake messages the server has still to write
  outKey,      \* key it writes with
  issued,      \* tickets it has issued
  sent,        \* data records it has sent on this connection
  updates,     \* key updates on this connection
  torn,        \* it has cut, on this connection, a message the client takes from
               \* one record: its ServerHello, a HelloRetryRequest, a ticket
  up, down     \* the stream to the server and the stream to the client

client == <<cpc, why, hellos, requested, km, inKey, hsBuf, offer, cache, got>>
serving == <<spc, queue, outKey, issued, sent, updates, torn>>
vars == <<server, conn, client, serving, transcript, shared, up, down>>

---------------------------------------------------------------------------
(* Messages, keys, records *)

NoBinder == [id |-> 0, hash |-> <<>>, scope |-> None]
Message(type, val, n, over) ==
  [type |-> type, val |-> val, n |-> n, over |-> over, binder |-> NoBinder]
Token(m) == [type |-> m.type, val |-> m.val, n |-> m.n]

ChangeCipherSpec == Message("change_cipher_spec", None, 0, <<>>)

Unit(m, i) == [msg |-> m, part |-> i]
Units(m) == <<Unit(m, 1), Unit(m, 2)>>

NoShared == [group |-> None, key |-> 0]
NoKey == [phase |-> None, shared |-> NoShared, hash |-> <<>>, generation |-> 0]
HandshakeKey(s, hash) ==
  [phase |-> "handshake", shared |-> s, hash |-> hash, generation |-> 0]
AppKey(s, hash) ==
  [phase |-> "application", shared |-> s, hash |-> hash, generation |-> 0]

(* type: the content type as the reader of the record finds it.           *)
Record(key, type, units) == [key |-> key, type |-> type, units |-> units]
Compatibility ==
  IF server.compat /\ spc = "waitHello" THEN <<Record(NoKey, "ccs", <<>>)>> ELSE <<>>
AlertRecord(key) == Record(key, "alert", <<>>)

Ended == {"failed", "broken", "closed"}

---------------------------------------------------------------------------
(* Tickets *)

NoTicket == [id |-> 0, hash |-> <<>>]

(* DeriveResumptionMasterSecret: the client's secret covers an empty       *)
(* transcript, and so does the PSK it derives from it for a ticket.        *)
ReceivedTicket(m) == [id |-> m.n, hash |-> <<>>]

(* RFC 8446: the server's covers the handshake with the client's Finished. *)
IssuedTicket(id) == [id |-> id, hash |-> transcript["server"]]

(* sendClientHelloTLS13WithGroup: a binder over the whole hello, binders   *)
(* zeroed, on its own also after a HelloRetryRequest.                      *)
Binder(t) ==
  IF t = NoTicket THEN NoBinder
  ELSE [id |-> t.id, hash |-> t.hash, scope |-> "whole"]

(* RFC 8446: a binder covers the transcript and the hello up to the binders*)
Recognised(b) == server.recognises /\ \E t \in issued : t.id = b.id
ValidBinder(b) ==
  \E t \in issued : b = [id |-> t.id, hash |-> t.hash, scope |-> "truncated"]

---------------------------------------------------------------------------
(* The client's hellos *)

Goto(label) == cpc' = label
Hash(p, m) == transcript' = [transcript EXCEPT ![p] = Append(@, Token(m))]

(* supported_groups puts the group of the key share first.                 *)
SupportedGroups(share) ==
  IF share = "X25519" THEN <<"X25519", "SM2">> ELSE <<"SM2", "X25519">>

Hello(n, share, ticket) ==
  [Message("ClientHello", share, n, <<>>) EXCEPT !.binder = Binder(ticket)]

SendHello ==
  LET ticket == IF cache = <<>> THEN NoTicket ELSE Last(cache)
      hello == Hello(1, "SM2", ticket)
  IN  /\ cpc = "sendHello"
      /\ offer' = ticket
      /\ up' = Append(up, hello)
      /\ Hash("client", hello)
      /\ km' = [km EXCEPT !["SM2"] = 1]
      /\ hellos' = 1
      /\ Goto("readServerHello")
      /\ UNCHANGED <<server, conn, why, requested, inKey, hsBuf, cache, got, serving,
                     shared, down>>

(* A dummy ChangeCipherSpec, then a hello with the requested group; the    *)
(* private keys of the first one are kept.                                 *)
SendSecondHello ==
  LET hello == Hello(hellos + 1, requested, offer) IN
  /\ cpc = "sendSecondHello"
  /\ IF requested \in Groups
       THEN /\ up' = up \o <<ChangeCipherSpec, hello>>
            /\ Hash("client", hello)
            /\ km' = [km EXCEPT ![requested] = hellos + 1]
            /\ hellos' = hellos + 1
            /\ Goto("readServerHello")
            /\ UNCHANGED why
       ELSE /\ up' = Append(up, ChangeCipherSpec)
            /\ Goto("failed") /\ why' = "group"
            /\ UNCHANGED <<transcript, km, hellos>>
  /\ UNCHANGED <<server, conn, requested, inKey, hsBuf, offer, cache, got, serving,
                 shared, down>>

---------------------------------------------------------------------------
(* The client's handshake reads *)

FlightLabels == {"readEncryptedExtensions", "readCertificate",
                 "readCertificateVerify", "readFinished"}
HandshakeReads == {"readServerHello"} \cup FlightLabels

Pending == down # <<>>
Next1 == Head(down)
Complete == Len(hsBuf) >= 2
Reading == cpc \in HandshakeReads /\ ~Complete /\ Pending

(* Both loops skip ChangeCipherSpec records wherever they come.            *)
SkipChangeCipherSpec ==
  /\ Reading /\ Next1.type = "ccs"
  /\ down' = Tail(down)
  /\ UNCHANGED <<server, conn, client, serving, transcript, shared, up>>

IsHello(type) ==
  /\ cpc = "readServerHello" /\ Pending
  /\ Next1.type = "handshake" /\ Len(Next1.units) = 2
  /\ Next1.units[1].msg.type = type

(* readServerHelloTLS13 takes its message from one record.  Of a message   *)
(* that goes on in the next one it finds no extensions, hence no key share *)
(* and no group, if it is long enough to be read at all.  What a failed    *)
(* handshake has hashed is left out.                                       *)
ReadHelloPart ==
  /\ cpc = "readServerHello" /\ Pending
  /\ Next1.type = "handshake" /\ Len(Next1.units) < 2
  /\ down' = Tail(down)
  /\ Goto("failed") /\ why' = "part"
  /\ UNCHANGED <<server, conn, hellos, requested, km, inKey, hsBuf, offer, cache, got,
                 serving, transcript, shared, up>>

(* Faulty variant: the first hello itself stays in the transcript.         *)
AfterRetryPlain(hello, retry) == <<Token(hello), Token(retry)>>

(* message_hash(ClientHello1) and the HelloRetryRequest.                   *)
AfterRetry(hello, retry) ==
  <<[Token(hello) EXCEPT !.type = "message_hash"], Token(retry)>>

(* Faulty variant: every request is granted.                               *)
ReadHelloRetryAgain ==
  LET retry == Next1.units[1].msg IN
  /\ IsHello("HelloRetryRequest")
  /\ down' = Tail(down)
  /\ requested' = retry.val
  /\ transcript' = [transcript EXCEPT !["client"] = AfterRetry(Last(@), retry)]
  /\ Goto("sendSecondHello")
  /\ UNCHANGED <<server, conn, why, hellos, km, inKey, hsBuf, offer, cache, got,
                 serving, shared, up>>

(* readServerHelloTLS13 returns errHelloRetryRequest; the second time its  *)
(* caller passes it on.                                                    *)
ReadHelloRetry ==
  LET retry == Next1.units[1].msg IN
  /\ IsHello("HelloRetryRequest")
  /\ down' = Tail(down)
  /\ requested' = retry.val
  /\ transcript' = [transcript EXCEPT !["client"] = AfterRetry(Last(@), retry)]
  /\ IF hellos = 1
       THEN Goto("sendSecondHello") /\ UNCHANGED why
       ELSE Goto("failed") /\ why' = "retried"
  /\ UNCHANGED <<server, conn, hellos, km, inKey, hsBuf, offer, cache, got, serving,
                 shared, up>>

ClientSecret(group) == [group |-> group, key |-> km[group]]

(* The private key of the server's group is used, whichever hello it was   *)
(* made for; the server's handshake key opens what follows.                *)
ReadServerHello ==
  LET hello == Next1.units[1].msg
      s == ClientSecret(hello.val)
  IN  /\ IsHello("ServerHello")
      /\ down' = Tail(down)
      /\ Hash("client", hello)
      /\ shared' = [shared EXCEPT !["client"] = s]
      /\ inKey' = HandshakeKey(s, transcript'["client"])
      /\ Goto("readEncryptedExtensions")
      /\ UNCHANGED <<server, conn, why, hellos, requested, km, hsBuf, offer, cache,
                     got, serving, up>>

(* readTLS13HandshakeMsg collects records until a message is complete.     *)
FillBuffer ==
  /\ cpc \in FlightLabels /\ Reading
  /\ Next1.type = "handshake" /\ Next1.key = inKey
  /\ hsBuf' = hsBuf \o Next1.units
  /\ down' = Tail(down)
  /\ UNCHANGED <<server, conn, cpc, why, hellos, requested, km, inKey, offer, cache,
                 got, serving, transcript, shared, up>>

After(label) ==
  CASE label = "readEncryptedExtensions" -> "readCertificate"
    [] label = "readCertificate"         -> "readCertificateVerify"
    [] label = "readCertificateVerify"   -> "readFinished"
    [] label = "readFinished"            -> "sendFinished"

Expected ==
  CASE cpc = "readEncryptedExtensions" -> "EncryptedExtensions"
    [] cpc = "readCertificate"         -> "Certificate"
    [] cpc = "readCertificateVerify"   -> "CertificateVerify"
    [] cpc = "readFinished"            -> "Finished"

(* CertificateVerify and Finished cover the transcript before them.        *)
MessageError(m) ==
  IF m.type # Expected THEN "unexpected"
  ELSE IF m.type \in {"CertificateVerify", "Finished"} /\ m.over # transcript["client"]
    THEN "verify" ELSE None

(* Faulty variant: what follows the message in its record is dropped.      *)
LeftAfterMessageNone == <<>>

LeftAfterMessage == SubSeq(hsBuf, 3, Len(hsBuf))

(* One message of the server's flight; after its Finished the server's     *)
(* application key opens what follows.                                     *)
ReadMessage ==
  LET m == hsBuf[1].msg IN
  /\ cpc \in FlightLabels /\ Complete
  /\ hsBuf' = LeftAfterMessage
  /\ IF MessageError(m) = None
       THEN /\ Hash("client", m)
            /\ inKey' = IF cpc = "readFinished"
                          THEN AppKey(shared["client"], transcript'["client"]) ELSE inKey
            /\ Goto(After(cpc))
            /\ UNCHANGED why
       ELSE /\ Goto("failed") /\ why' = MessageError(m)
            /\ UNCHANGED <<transcript, inKey>>
  /\ UNCHANGED <<server, conn, hellos, requested, km, offer, cache, got, serving,
                 shared, up, down>>

(* Why a handshake read refuses the next record: an alert, one that does   *)
(* not open, one that is no handshake message.                             *)
RecordError ==
  IF Next1.type = "ccs" THEN None
  ELSE IF Next1.type = "alert" THEN "alert"
  ELSE IF cpc \in FlightLabels /\ Next1.key # inKey THEN "record"
  ELSE IF Next1.type = "data" THEN "unexpected" ELSE None

Refuse ==
  /\ Reading /\ RecordError # None
  /\ Goto("failed") /\ why' = RecordError
  /\ UNCHANGED <<server, conn, hellos, requested, km, inKey, hsBuf, offer, cache, got,
                 serving, transcript, shared, up, down>>

SendFinished ==
  LET m == Message("Finished", "client", 0, transcript["client"]) IN
  /\ cpc = "sendFinished"
  /\ up' = Append(up, m)
  /\ Hash("client", m)
  /\ Goto("done")
  /\ UNCHANGED <<server, conn, why, hellos, requested, km, inKey, hsBuf, offer, cache,
                 got, serving, shared, down>>

---------------------------------------------------------------------------
(* The client's Read after the handshake *)

IsTicket(m) == m.type = "NewSessionTicket"

(* Faulty variant: one ticket a record.                                    *)
FirstTicket(u) == <<ReceivedTicket(u[1].msg)>>

(* The whole tickets a run of units begins with: tls13ParseAndStoreTickets *)
(* stores them one by one until something else, or a part, stops it.       *)
WholeTickets(u) ==
  LET whole(i) == \A j \in 1 .. 2 * i : IsTicket(u[j].msg)
      counts == {i \in 0 .. Len(u) \div 2 : whole(i)}
      n == CHOOSE i \in counts : \A j \in counts : j <= i
  IN  [i \in 1..n |-> ReceivedTicket(u[2 * i].msg)]

(* Faulty variant: a ticket counts only if it is alone in its record.      *)
ConsumedAlone(u) == u[1].part = 1 /\ Len(u) = 2 /\ IsTicket(u[1].msg)

(* tls13ConsumeNewSessionTickets goes by the first byte.                   *)
Consumed(u) == u[1].part = 1 /\ IsTicket(u[1].msg)

Opened == cpc = "done" /\ Pending /\ Next1.key = inKey

ReadData ==
  /\ Opened /\ Next1.type = "data"
  /\ got' = Append(got, Len(got) + 1)
  /\ down' = Tail(down)
  /\ UNCHANGED <<server, conn, cpc, why, hellos, requested, km, inKey, hsBuf, offer,
                 cache, serving, transcript, shared, up>>

(* Whatever follows the tickets in the record is dropped without an error, *)
(* a key update too.  The second part of a ticket may begin with any byte, *)
(* also the one that makes it look like a ticket, which then stores        *)
(* nothing.                                                                *)
ReadTickets ==
  /\ Opened /\ Next1.type = "handshake"
  /\ \/ Consumed(Next1.units) /\ cache' = cache \o WholeTickets(Next1.units)
     \/ Next1.units[1].part = 2 /\ UNCHANGED cache
  /\ down' = Tail(down)
  /\ UNCHANGED <<server, conn, cpc, why, hellos, requested, km, inKey, hsBuf, offer,
                 got, serving, transcript, shared, up>>

(* A record that does not open, a key update, a part of a ticket.          *)
ReadFails ==
  /\ cpc = "done" /\ Pending
  /\ \/ Next1.key # inKey
     \/ Next1.type = "handshake" /\ ~Consumed(Next1.units)
  /\ Goto("broken")
  /\ down' = Tail(down)
  /\ UNCHANGED <<server, conn, why, hellos, requested, km, inKey, hsBuf, offer, cache,
                 got, serving, transcript, shared, up>>

ReadCloseNotify ==
  /\ Opened /\ Next1.type = "alert"
  /\ Goto("closed")
  /\ down' = Tail(down)
  /\ UNCHANGED <<server, conn, why, hellos, requested, km, inKey, hsBuf, offer, cache,
                 got, serving, transcript, shared, up>>

---------------------------------------------------------------------------
(* The server *)

Received(label) == spc = label /\ up # <<>>
Request == Head(up)

ServerFlight(hash) ==
  LET m(type, over) == Message(type, "server", 0, over)
      ee == m("EncryptedExtensions", <<>>)
      cert == m("Certificate", <<>>)
      verify == m("CertificateVerify", hash \o <<Token(ee), Token(cert)>>)
      finished == m("Finished", hash \o <<Token(ee), Token(cert), Token(verify)>>)
  IN  <<ee, cert, verify, finished>>

Abort ==
  /\ down' = Append(down, AlertRecord(NoKey))
  /\ spc' = "ended"
  /\ UNCHANGED <<queue, outKey, torn, transcript, shared>>

(* A message in the clear, in one record or cut over two.                  *)
InTheClear(m, cut) ==
  LET record(units) == Record(NoKey, "handshake", units) IN
  IF cut THEN <<record(<<Unit(m, 1)>>), record(<<Unit(m, 2)>>)>> ELSE <<record(Units(m))>>

(* The ServerHello for the hello's key share, then the encrypted flight.   *)
Answer(hello, cut) ==
  LET s == [group |-> hello.val, key |-> hello.n]
      reply == Message("ServerHello", hello.val, 0, <<>>)
      hash == transcript["server"] \o <<Token(hello), Token(reply)>>
      flight == ServerFlight(hash)
  IN  /\ down' = down \o InTheClear(reply, cut) \o Compatibility
      /\ torn' = (torn \/ cut)
      /\ shared' = [shared EXCEPT !["server"] = s]
      /\ outKey' = HandshakeKey(s, hash)
      /\ queue' = Units(flight[1]) \o Units(flight[2]) \o Units(flight[3]) \o Units(flight[4])
      /\ transcript' = [transcript EXCEPT !["server"] =
                          hash \o [i \in 1..4 |-> Token(flight[i])]]
      /\ spc' = "flight"

(* A hello that is not answered with a retry: a recognised ticket needs a  *)
(* valid binder, one that is not recognised is ignored.                    *)
AnswerOrAbort(hello, cut) ==
  IF Recognised(hello.binder) /\ ~ValidBinder(hello.binder) THEN Abort
  ELSE Answer(hello, cut)

Retry(hello, cut) ==
  LET group == IF server.retry = "unknown" THEN "P256" ELSE "X25519"
      retry == Message("HelloRetryRequest", group, 0, <<>>)
  IN  /\ down' = down \o InTheClear(retry, cut) \o Compatibility
      /\ torn' = (torn \/ cut)
      /\ transcript' = [transcript EXCEPT !["server"] =
            <<[Token(hello) EXCEPT !.type = "message_hash"], Token(retry)>>]
      /\ spc' = "waitSecondHello"
      /\ UNCHANGED <<queue, outKey, shared>>

ServerReadHello(cut) ==
  /\ Received("waitHello")
  /\ IF server.retry = "no" THEN AnswerOrAbort(Request, cut) ELSE Retry(Request, cut)
  /\ up' = Tail(up)
  /\ UNCHANGED <<server, conn, client, issued, sent, updates>>

ServerSkipChangeCipherSpec ==
  /\ Received("waitSecondHello") /\ Request.type = "change_cipher_spec"
  /\ up' = Tail(up)
  /\ UNCHANGED <<server, conn, client, serving, transcript, shared, down>>

(* The cookie has to come back; a strict server compares the groups.       *)
ServerReadSecondHello(cut) ==
  /\ Received("waitSecondHello") /\ Request.type = "ClientHello"
  /\ IF \/ server.retry = "cookie"
        \/ /\ server.strict
           /\ SupportedGroups(Request.val) # SupportedGroups(transcript["server"][1].val)
       THEN Abort
     ELSE IF server.retry = "twice" THEN Retry(Request, cut)
     ELSE AnswerOrAbort(Request, cut)
  /\ up' = Tail(up)
  /\ UNCHANGED <<server, conn, client, issued, sent, updates>>

(* A record with the next k units.  Keys change at record boundaries, so   *)
(* only its last unit may end a Finished or a key update.                  *)
Ends(u) == u.part = 2 /\ u.msg.type \in {"Finished", "KeyUpdate"}
ServerWrite(k) ==
  /\ spc \in {"flight", "open"} /\ k \in 1..Len(queue)
  /\ \A i \in 1 .. k - 1 : ~Ends(queue[i])
  /\ down' = Append(down, Record(outKey, "handshake", SubSeq(queue, 1, k)))
  /\ queue' = SubSeq(queue, k + 1, Len(queue))
  /\ outKey' = IF ~Ends(queue[k]) THEN outKey
               ELSE IF spc = "flight" THEN AppKey(shared["server"], transcript["server"])
               ELSE [outKey EXCEPT !.generation = @ + 1]
  /\ spc' = IF queue' = <<>> /\ spc = "flight" THEN "waitFinished" ELSE spc
  /\ torn' = (torn \/ (IsTicket(queue[k].msg) /\ queue[k].part = 1))
  /\ UNCHANGED <<server, conn, client, issued, sent, updates, transcript, shared, up>>

ServerReadFinished ==
  /\ Received("waitFinished")
  /\ IF Request.over = transcript["server"]
       THEN spc' = "open" /\ Hash("server", Request) /\ UNCHANGED down
       ELSE spc' = "ended" /\ down' = Append(down, AlertRecord(outKey))
            /\ UNCHANGED transcript
  /\ up' = Tail(up)
  /\ UNCHANGED <<server, conn, client, queue, outKey, issued, sent, updates, torn,
                 shared>>

(* Tickets of a connection have the numbers after ten times its own.       *)
OfThisConn(tickets) == {t \in tickets : t.id \div 10 = conn}
IssuedHere == OfThisConn(issued)

IssueTicket ==
  LET id == 10 * conn + Cardinality(IssuedHere) + 1 IN
  /\ spc = "open" /\ Cardinality(IssuedHere) < MaxTickets
  /\ issued' = issued \cup {IssuedTicket(id)}
  /\ queue' = queue \o Units(Message("NewSessionTicket", "server", id, <<>>))
  /\ UNCHANGED <<server, conn, client, spc, outKey, sent, updates, torn, transcript,
                 shared, up, down>>

UpdateKey ==
  /\ spc = "open" /\ updates < MaxUpdates
  /\ updates' = updates + 1
  /\ queue' = queue \o Units(Message("KeyUpdate", "server", 0, <<>>))
  /\ UNCHANGED <<server, conn, client, spc, outKey, issued, sent, torn, transcript,
                 shared, up, down>>

(* Data, from the server's Finished on; not between two parts of a message.*)
SendData ==
  /\ spc \in {"waitFinished", "open"} /\ sent < MaxData
  /\ queue # <<>> => Head(queue).part = 1
  /\ sent' = sent + 1
  /\ down' = Append(down, Record(outKey, "data", <<>>))
  /\ UNCHANGED <<server, conn, client, spc, queue, outKey, issued, updates, torn,
                 transcript, shared, up>>

ServerClose ==
  /\ spc = "open" /\ queue = <<>>
  /\ down' = Append(down, AlertRecord(outKey))
  /\ spc' = "ended"
  /\ UNCHANGED <<server, conn, client, queue, outKey, issued, sent, updates, torn,
                 transcript, shared, up>>

---------------------------------------------------------------------------

Fresh == [p \in {"client", "server"} |-> <<>>]
NoSecrets == [p \in {"client", "server"} |-> NoShared]

(* The application makes its next connection, with the tickets it has got  *)
(* through OnNewSessionTicket in the new Config.                           *)
Redial ==
  /\ conn < MaxConns /\ cpc \in Ended
  /\ conn' = conn + 1
  /\ cpc' = "sendHello" /\ why' = None /\ hellos' = 0 /\ requested' = None
  /\ km' = [g \in Groups |-> 0] /\ inKey' = NoKey /\ hsBuf' = <<>> /\ got' = <<>>
  /\ offer' = NoTicket
  /\ spc' = "waitHello" /\ queue' = <<>> /\ outKey' = NoKey
  /\ sent' = 0 /\ updates' = 0 /\ torn' = FALSE
  /\ transcript' = Fresh /\ shared' = NoSecrets /\ up' = <<>> /\ down' = <<>>
  /\ UNCHANGED <<server, cache, issued>>

Init ==
  /\ server \in Servers /\ conn = 1
  /\ cpc = "sendHello" /\ why = None /\ hellos = 0 /\ requested = None
  /\ km = [g \in Groups |-> 0] /\ inKey = NoKey /\ hsBuf = <<>> /\ got = <<>>
  /\ offer = NoTicket /\ cache = <<>>
  /\ spc = "waitHello" /\ queue = <<>> /\ outKey = NoKey
  /\ issued = {} /\ sent = 0 /\ updates = 0 /\ torn = FALSE
  /\ transcript = Fresh /\ shared = NoSecrets /\ up = <<>> /\ down = <<>>

ClientStep ==
  \/ SendHello \/ SendSecondHello \/ SkipChangeCipherSpec \/ ReadHelloRetry
  \/ ReadHelloPart \/ ReadServerHello \/ FillBuffer \/ ReadMessage \/ Refuse \/ SendFinished
  \/ ReadData \/ ReadTickets \/ ReadFails \/ ReadCloseNotify

ServerStep ==
  \/ \E cut \in BOOLEAN : ServerReadHello(cut) \/ ServerReadSecondHello(cut)
  \/ ServerSkipChangeCipherSpec
  \/ \E k \in 1..Len(queue) : ServerWrite(k)
  \/ ServerReadFinished

ServerChoice == IssueTicket \/ UpdateKey \/ SendData \/ ServerClose

Terminated == conn = MaxConns /\ cpc \in Ended /\ UNCHANGED vars

Next == ClientStep \/ ServerStep \/ ServerChoice \/ Redial \/ Terminated

(* The client's goroutine runs on, and the server goes on with a handshake *)
(* and with a message it has begun; what it sends besides is its choice.   *)
Spec == Init /\ [][Next]_vars /\ WF_vars(ClientStep) /\ WF_vars(ServerStep)

---------------------------------------------------------------------------
(* Properties *)

(* The shape of the state.                                                 *)
TypeOK ==
  /\ server \in Server /\ conn \in 1..MaxConns
  /\ cpc \in HandshakeReads \cup Ended \cup
             {"sendHello", "sendSecondHello", "sendFinished", "done"}
  /\ why \in {None, "group", "retried", "alert", "part", "record", "unexpected",
              "verify"}
  /\ (cpc = "failed") <=> (why # None)
  /\ requested \in Groups \cup {None, "P256"}
  /\ km \in [Groups -> 0..2]
  /\ spc \in {"waitHello", "waitSecondHello", "flight", "waitFinished", "open", "ended"}
  /\ updates \in 0..MaxUpdates /\ sent \in 0..MaxData /\ torn \in BOOLEAN

(* From the ServerHello on client and server have the same shared secret   *)
(* and the client hashes what the server hashed, also when a               *)
(* HelloRetryRequest replaced the first hello by its hash and the share of *)
(* a second private key is used, and however the messages are cut.  No     *)
(* server sends the client round twice.                                    *)
SameHandshake ==
  /\ hellos <= 2
  /\ cpc \in FlightLabels \cup {"sendFinished", "done"} =>
       /\ shared["client"] = shared["server"]
       /\ \/ IsPrefix(transcript["client"], transcript["server"])
          \/ /\ cpc = "done"
             /\ Front(transcript["client"]) = transcript["server"]

(* What else than a ticket makes a handshake fail with a server that       *)
(* follows RFC 8446: a HelloRetryRequest with a cookie, a second one, or   *)
(* one for a group the client has not got; a server that compares the      *)
(* groups of the second hello with those of the first; a ServerHello or    *)
(* HelloRetryRequest cut over two records (tickets come later).            *)
Unsupported ==
  \/ server.retry \in {"cookie", "twice", "unknown"}
  \/ server.retry = "X25519" /\ server.strict
  \/ torn

(* A handshake fails for one of these reasons, or because the server knows *)
(* the ticket it is offered: the client's binder never matches.  How the   *)
(* encrypted messages are cut and joined, ChangeCipherSpec records and a   *)
(* ticket the server has forgotten are no reasons.                         *)
FailureExplained ==
  cpc = "failed" => Unsupported \/ (server.recognises /\ offer # NoTicket)

(* README.md:9 and its example at 101-118 say that a client resumes with   *)
(* the tickets it has got: then a ticket the server knows is no reason for *)
(* a handshake to fail.                                                    *)
ResumptionSupported == cpc = "failed" => Unsupported

(* Read fails only with a server that updated its key, or put one ticket   *)
(* into two records.                                                       *)
ReadFailureExplained == cpc = "broken" => torn \/ updates > 0

(* A Read that meets the server's close_notify has returned all data, and  *)
(* stored every ticket that came in one record, once, in order.            *)
NothingLost ==
  cpc = "closed" =>
    /\ Len(got) = sent
    /\ ~torn => OfThisConn(ToSet(cache)) =
                {[id |-> t.id, hash |-> <<>>] : t \in IssuedHere}
    /\ \A i, j \in DOMAIN cache : i < j => cache[i].id < cache[j].id

(* Every handshake ends, with a connection or with an error, also when the *)
(* server aborts, retries or cuts its messages in any way.                 *)
HandshakeEnds == cpc = "sendHello" ~> cpc \in {"done"} \cup Ended
=============================================================================
