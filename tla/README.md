# Verification of gmtls

TLA+ models of the GM (SM2/SM3/SM4) TLS 1.3 library in this repository and of the EPP
client built on it, the TLC configurations that check them, and TLAPS proofs of the
safety properties that matter most. Paths below are relative to the repository;
`conn.go:1025-1049` means these lines of `src/conn.go`.

    tlc -workers 2 -config MCHandshake_auth.cfg MCHandshake      # one run
    tlapm HandshakeProofs.tla                                    # one proof

`PROJECT.json` lists the runs, the code each definition stands for (`map`), the
hazards and the theorems. Every property of a passing run has a *faulty variant*:
an operator, placed right before the definition it changes and marked as such, that
is that definition with one plausible bug. With the variant in place of the
definition TLC finds the property violated; nothing else uses these operators.

## 1. The system

| component | where | state | operations |
|---|---|---|---|
| client handshake | `conn.go:983-1071` and the `send…`/`read…` functions it calls | transcript, key material, two halfConn ciphers, peerCert, whether a certificate was requested, negotiated suite and protocol | one call per message |
| server handshake | `conn.go:1957-2031`, same functions | the same | one call per message |
| negotiation | `conn.go:433-545`, `1074-1087`, `2101-2142`, `cipher.go:50-120` | none | cipher suite (two numbers each), key_share group, application protocol |
| record layer | `conn.go:579-700`, `cipher.go:173-277` | per direction a key and a sequence number | writeRecord, readRecord, Encrypt, Decrypt |
| application data | `conn.go:702-812`, `918-934` | appReadBuf, the connection's tickets | Read, Write, Close |
| session ticket cache | `conn.go:788-882`, `1316-1336` | Config.SessionTickets under sessionTicketsMu | storeSessionTicket, snapshotSessionTickets, selectResumptionTicket |
| API | `api.go` | the Config, cloned by Dial | Dial, Listen, Accept, Clone, GMClientConfig |
| resumption, HelloRetryRequest | `conn.go:859-1015`, `1224-1343`, `tls13.go` | PSK, second ClientHello | client side only |
| message and extension codecs | `handshake.go`, `extensions.go`, `tls13_cert.go` | none | marshal, unmarshal |
| certificate verification | `verify.go` | none | chain, host name, signature |
| key schedule | `tls13.go` | none | derive |
| SM2/SM3/SM4/X25519, PEM files | `sm2*.go`, `sm3.go`, `sm4.go`, `x25519.go` | none | wrappers of the gmsm library |
| EPP client and its two commands | `cmd/` | one connection | connect, handshake, greeting, one or two requests |

**How they interact.** Two endpoints exchange records over one `net.Conn`; each
endpoint is driven by the goroutine that called `Dial` or `Accept` until the
handshake is over, then by the goroutines of the application. There are no
background goroutines. The EPP client is one run of one goroutine over one connection; its
server sits behind a listener whose `Accept` does one handshake after the other. Endpoints of one program share a `Config`: every `Read` that
meets a NewSessionTicket writes to its ticket list, every ClientHello reads it, and
`Dial` clones it first. Errors end a handshake by closing the socket; no alert is
ever written, `Close` writes no close_notify, so the other side learns of it only
as the end of the stream.

**What is hard.** Each side decides for itself when a direction changes its key and
whether a client certificate is part of the handshake; the transcript a key, a
signature or a verify_data covers grows meanwhile. A record's content type is looked
for in two places. The ticket list is filtered in place in an array that other slice
headers may share. Servers that are not this program send what its own server never does:
a HelloRetryRequest, tickets that come back, key updates, messages cut anywhere. Nothing
has a deadline but the EPP client's connect. `PROJECT.json` lists each hazard at its line; the ones without a
property say what they wait for.

**What makes each part correct.** Handshake: two endpoints that complete agree on the
transcript, the keys and what was negotiated; a verifying endpoint goes no further
than it may with an unauthenticated peer; compatible configurations succeed,
incompatible ones end on both sides, and the only failures are those a configuration
or the transport explains. Records: no nonce twice, data only under application keys.
Stream: the bytes written, in order, once, and an end only after all of them. Ticket
cache: nothing lost, nothing made up, every store takes effect. Negotiation: the best
common choice, one the other side accepts, no refusal without a reason. Against foreign
servers: both sides hash the same after a HelloRetryRequest, a handshake or a Read fails
only for a nameable reason, no ticket and no data is lost. Codecs: what is written is read
back, a part is never another message, no reader leaves its input. Service: no
connection is left open behind a failed handshake, every run ends unless one of two named
situations keeps it, and a connection is a dialog of whole frames.

## 2. Modules

| module | models |
|---|---|
| `Negotiation` | the choices of the two hellos, pure operators |
| `Handshake` | both state machines over one byte stream, with the record layer's keys and sequence numbers, the first application data, errors, closes |
| `Session` | abstract: what a pair of endpoints promises its applications |
| `HandshakeInvariants` | inductive invariants of `Handshake` |
| `HandshakeScript` | what two configurations fix of a handshake, record by record, and the invariant that nobody leaves it |
| `HandshakeProofs`, `HandshakeAgreement` | theorems about `Handshake` |
| `Interop` | the client against RFC 8446 servers: HelloRetryRequest, tickets and PSK binders over several connections, cut and joined messages, key updates |
| `InteropProofs` | theorems about `Interop`, with its invariants `Course`, `CutShort` and `Delivery` |
| `HelloChoice` | `readClientHelloTLS13` facing any client |
| `NegotiationProofs`, `HelloChoiceProofs` | what the choices return, and theorems about `HelloChoice` |
| `Records` | one application data record: Encrypt's inner plaintext, and what readRecord, the unwrapping and Read make of it |
| `AppStream` | one direction of application data as bytes: Write, Read and its buffer, closes, deadlines; extends `Records` |
| `ByteStream` | abstract: a stream of bytes with an end |
| `AppStreamProofs` | theorems about `AppStream` |
| `TicketCache` | `Config.SessionTickets`, its mutex, its backing arrays, Clone |
| `TicketStore` | abstract: a list of tickets with insertion and expiry |
| `TicketCacheProofs` | theorems about `TicketCache` |
| `Codec` | the bytes of every handshake message and extension: marshal and unmarshal |
| `Listener` | the listener of `api.go`: Accept with its handshake, Close, the backlog |
| `EPPService` | runs of the EPP client and the server's handlers: extends `Listener` (who is in which handshake) and `Records` (how frames travel) |
| `Dialog` | abstract: two sides that take turns and take what was said |
| `EPPServiceProofs` | theorems about `EPPService` |
| `MC…` | configurations, messages and tickets for TLC |

**Handshake.** An endpoint's `pc` is the function its handshake is in. An action is one
such call with everything that follows it up to the next access to the stream: for
instance `ServerSendFinished` is `sendFinishedTLS13` and the switch of the incoming
direction to the client's handshake key (`conn.go:1993-2016`). A read is enabled when a
record is pending and its checks pass; `Refuse` is the same read with a check that
fails, for the reason `ReadError` computes in the order of the code. Cryptography is
symbolic: a hash is the sequence hashed, a key is its label, secret and hash, a record
opens with the key and the sequence number it was sealed with. A message is one
record, as this implementation writes it. The transcript holds the messages without
their signatures and MACs: these are functions of what was hashed before, so no two
different transcripts become equal (see the comment of `Message`). A configuration has
the outcome chain verification would have under it (`chainOk`), and whether its private
key belongs to its certificate. `TransportFault` is a reset or a deadline at any call,
`PeerGone` the end of the stream or a write to a closed connection. `Capacity` is how
many records fit into the stream before a writer blocks.

**Interop.** The client's actions are its calls again; the server's are RFC 8446's, as far as
this client can tell them apart, and its behaviour is a `Server` record: how it retries,
whether it compares the second hello with the first, sends ChangeCipherSpec records,
knows its tickets. A message is two units, and `ServerWrite` puts any number of encrypted units into
a record as long as a key changes only at a record boundary, so that a record holds a part
of a message, one, or several. A ServerHello and a HelloRetryRequest, in the clear, come in one record
or cut over two (`InTheClear`): `readServerHelloTLS13` takes its message from one record
(`conn.go:1347-1430`), and `ReadHelloPart` is what it does with a part. `km` holds for each group the hello its private key was made
for: `sendClientHelloTLS13WithGroup` keeps the keys of the first hello (`conn.go:1110-1118`).
A PSK is the transcript it was derived over: `DeriveResumptionMasterSecret` hashes none
(`tls13.go:275-278`), a server hashes the handshake. A binder is what it was computed
over: the whole hello in the code (`conn.go:1206-1214`), the hello up to the binders in RFC
8446. Record sequence numbers and client certificates are `Handshake`'s. `Redial` is the
application's next connection with the tickets `OnNewSessionTicket` gave it.

**Codec.** A message is a record of its fields; `Marshal` writes bytes, one of three changes may
happen to them (the end is cut off, something follows, one byte is another), `Unmarshal` reads
them with the code's own comparisons: what is checked against the end of the list and
what only against the end of the input, where zero is read for a number, where 16 bits
wrap. Bytes are base `Base`, 4 in the run, so that lengths of one, two and three bytes
overflow at 4, 16 and 64. Messages and extensions are read one at a time:
`Negotiation` and `Handshake` take their contents for given.

**Listener and EPPService.** `Listener` has the listener's part of a step; `EPPService` joins it with
the clients' and the handlers'. The handshake is one step here, with its outcome: between
two endpoints that do this is what `Handshake` is about. A client is a kind: an EPP client
whose run is `client.go:89-261`, one the server refuses, one that refuses the server, one whose
certificates do not load, one that connects and sends nothing. `DialFails` is the dialer's ten
seconds, spent on a full backlog. Frames are bytes, and each `Write` is a record that the
other side's `Read` gets through `Records!Outcome`, hence through the content type that is looked
for twice. The handler and the loop around `Accept` are the application's: the handler takes
turns, framing as the client does or joining length and payload in one record; the loop
ends at an error of `Accept` or goes on (`stops`).

**Records, AppStream.** Bytes, because the properties are about bytes that look like content
types. A record is its inner plaintext. `Outcome` follows `readRecord` and `Read` through
both places that look at the content type. With `MaxPadding`, `MaxTickets` and
`CloseNotify` the writer may be an RFC 8446 peer such as Tongsuo, without them it is
this implementation. `Timeout` tears a record; `ReadTorn` then allows every outcome the
code can have for bytes from the middle of a record (an error, or an end if they look
like an alert), which is more than a particular run of the code does. The application
stops at the first error.

**TicketCache.** A slice is a header and a backing array in `heap`. Under the mutex the
loop of `storeSessionTicket` runs element by element, because `Clone` and nothing else may
read beside it. `Clone` takes three kinds of steps: `make` with the length it reads, the
evaluation of the slice it ranges over, and one element per turn. Reading a header is
one step; a torn header, which the Go memory model also allows, is not modelled.

**HelloChoice** enumerates ClientHellos, not only the ones of this client, and lets a
client that follows RFC 8446 judge the answer.

## 3. Runs

Passing runs:

| run | what it shows | distinct states |
|---|---|---|
| `auth` | who completes with whom over all 24 x 96 pairs of certificate, key, InsecureSkipVerify, chain, RequireClientCert and ClientCAs; agreement; `ScriptInv`; `ClientAuthenticated`, `ServerAuthenticatedFirst`, `OnlyCompatible` | 50 792 |
| `session` | suites, protocols, some failing authentications; data, closes and one transport error; a stream of two records: `NoProtocolError`, `NoncesUnique`, `DataUnderAppKeys`, `ImplementsSession`, `HandshakeEnds`, `CompatibleSucceeds` | 55 388 |
| `stream` | cuts, padding, tickets, announced and unannounced closes, a deadline inside a record: `ImplementsByteStream` and its parts | 126 899 |
| `shared` | two connections on one Config with a limit of one, a third on a clone of it made by Dial; an undated and a living ticket loaded, two sent: `NoTicketLost`, `ImplementsTicketStore`, `EventuallyStored`, `OnlyHolderChanges` | 204 208 |
| `interop` | two connections to each of the 40 servers, up to two tickets, one key update and one data record on each: `SameHandshake`, `FailureExplained`, `ReadFailureExplained`, `NothingLost`, `HandshakeEnds` | 412 700 |
| `service` | two clients of every two of six kinds at one listener with a backlog of one: `NoConnLeaked`, `FailureExplained`, `EveryRunEnds`, `ImplementsDialog` | 122 940 |
| `codec` | 2 000 values of 16 messages and extensions with every change: `RoundTrip`, `NoPanic`, `PartNotMisread` | 115 668 |
| `choice` | all ClientHellos with up to three suites, two shares, two protocols, against all configurations with up to two suites; an empty protocol name among the names: `NoNeedlessRefusal`, `ClientNeverAborts`, `BestChoice` | 195 120 |

Runs that show a disagreement between the code and what it, its tests or its
documentation say (details and quotes in `PROJECT.json`, `findings`):

| run | what TLC finds |
|---|---|
| `binary` | data whose last byte in a record is 20 to 23 is shortened, or ends the Read: the content type is stripped in `readRecord` and once more in `Read`. The four bytes of an EPP frame length are such data |
| `inplace` | `Encrypt` appends the content type to the caller's slice and overwrites the caller's next byte |
| `resume` | a client offers its ticket to the server that issued it, and the handshake fails: `ResumptionSupported`, the claim of `README.md:9` and the example at `README.md:101-118` |
| `clone` | `Clone` beside `storeSessionTicket`: a ticket copied twice, or an index out of range |

In `stream` the data therefore never ends in 20 to 23 and buffers are not written in parts
of one array: these two are what the `binary` and `inplace` runs are about. In `shared` the
property `CloneIntact` is absent because of `clone`; in `interop` `FailureExplained` is
`ResumptionSupported` with the exception that `resume` is about.

What the models also show, without a run of its own:

- A NewSessionTicket in a padded record is returned by `Read` as application data, since
  `unwrapTLS13ApplicationData` looks at the last byte without skipping the padding
  (`conn.go:198`). With `TicketPadding = 1` in `MCAppStream_stream.cfg` TLC finds
  `ImplementsByteStream` violated.
- Tickets of a dialled connection stay in the clone; the Config passed to `Dial` never gets one
  (`api.go:21`), though `README.md:20` says tickets are cached in `Config.SessionTickets`.
- `parseALPNExtension` lets an empty protocol name through, and `selectALPNProtocol` ends its
  search at one that both sides list, as if nothing were common: `BestChoice` says so.
- A server configured with a CCM suite negotiates it and encrypts with GCM (`conn.go:2117`): only
  the client keeps CCM out (`conn.go:1081-1082`).
- What makes a handshake with an RFC 8446 server fail, besides the ticket of `resume`
  (`Unsupported` in `Interop`): three kinds of HelloRetryRequest (with a cookie, repeated, for an
  unknown group), a server that compares the order of supported_groups, and a ServerHello or
  HelloRetryRequest cut over two records, which is not put together (`conn.go:1347-1430`; the
  encrypted messages are, `conn.go:114-155`). `FailureExplained` says there is nothing else.
  With a server that has forgotten the ticket the handshake is a full one.
- A frame of the EPP client whose length ends in 20 to 23 makes its server fail, or makes
  both sides wait for ever (`EPPService`, the disjunct `Misframed` of `EveryRunEnds`); a client that
  connects and stays silent keeps `Accept`, and so every client behind it (`Behind`).
- A signature of 65528 bytes or more makes `certificateVerifyMsg.unmarshal` slice past its
  start (`handshake.go:525`), the one exception in `NoPanic`.
- A hello whose extensions are cut off is read as one without extensions (`handshake.go:181`),
  the last disjunct of `PartNotMisread`.

**Bounds and why they are enough.** Two endpoints are the whole protocol; configurations
enter only through the tests the code makes, and the sets in `MCHandshake` contain every
combination of the authentication tests and every list that `SelectCipherSuite` and
`SelectALPN` tell apart. Two data messages a side make an overtaken or repeated one
visible; a stream of two records blocks both flights (the server's has five or six records),
while the client's Finished and its first data can be in flight together. One transport
error ends an endpoint, and the second end then meets an ended peer. Two messages of up
to three bytes with slices of one and three bytes cover a record larger than,
equal to and smaller than the slice; one padding byte distinguishes padded from not.
Two tickets of one or two contents, on connections that share a Config or do not, make
replacement, eviction and contention happen; a limit of one is the boundary at which the code keeps two
tickets (`Room`), which leaves room for these contents and no other; times up to 3 make tickets with a lifetime of 1
die before, during and after a store, and one with 9 live on. `interop`: a second connection is where a ticket comes back, two tickets
are the least that can share a record and be cut between two, one key update and one data
record the least that a wrong key can hit; all 40 servers are considered. `service`: two clients
are the one in `Accept` and the one behind it, a backlog of one fills; the frame lengths 22 to 24
are two that are misread (22 fails the Read, 23 shortens it) and one that is not; `check` sends two
requests, so that frames of both directions follow each other. The branch of an invalid
frame length is not entered with these servers. `codec`: each vector is empty, short,
at the limit of its length field and beyond it; every place of a cut and every other value of
every byte is tried. Symmetry is not used.

**Fairness.** `FairSpec` of `Handshake` assumes weak fairness of each endpoint's own steps:
a goroutine that can go on does. Nothing is assumed of applications (they need not write,
read more, or close) or of the network (it need not fail). An open `Read` in
`AppStream` is repeated by its application, weakly fair; writers are not. In `TicketCache`,
`storeSessionTicket` is strongly fair: Go's mutex hands itself to a waiter after one
millisecond (starvation mode), so no goroutine is passed over for ever. `Interop` assumes weak
fairness of the client's steps and of the server's handshake and writes; what it sends
besides is its choice. `EPPService` has one condition, on all steps of both programs: none of them is
ever undone and each happens finitely often, so that a step that stays possible is
taken in the end; a silent client need not leave and a listener need not be closed, unless its
loop has ended (`Retire`). Deadlock is checked in every run but `service` and `codec`, where a
state without a step is the end of all runs, the wait `EveryRunEnds` is about, or a message that has
been read; elsewhere the only states in which nothing happens are the ones the modules name
`Terminated` or `Ended`.

## 4. Proofs

For every set of configurations and every value of the bounds, from the named
assumptions of the modules (`Handshake`: configurations are records of the given form, bounds are
natural numbers; `Listener`, `EPPService`: the same of profiles and the backlog, frames of 6 to 1000 bytes, any set
of clients; `AppStream`: messages are sequences of bytes, none empty, and no `Read` has an empty slice; `HelloChoice`: hellos and configurations have the form of one, with lists of any
length; `Interop`: any set of servers, at least one connection (the first is there from the start), any bounds, and fewer than ten tickets
a connection, as a ticket's number is ten times its connection's and a digit; `TicketCache`: any connections, ids, lifetimes, limit and tickets loaded,
`Caller` and `None` are no connections and `None` is a string, a fact the provers have no
rule for):

| theorem | statement |
|---|---|
| `HandshakeProofs!TypeCorrect` | `Spec => []TypeOK` |
| `HandshakeProofs!NoncesAreUnique`, `NonceInvariant` | `Spec => []NoncesUnique`, `Spec => []NonceInv` |
| `HandshakeProofs!ServerIsAuthenticatedFirst` | `Spec => []ServerAuthenticatedFirst` |
| `HandshakeProofs!ClientIsAuthenticated`, `AuthInvariant` | `Spec => []ClientAuthenticated`, `Spec => []AuthInv` |
| `HandshakeAgreement!FollowsTheScript` | `Spec => []ScriptInv` |
| `HandshakeAgreement!EndpointsAgree` | `Spec => []Agreement` |
| `HandshakeAgreement!FailuresAreExplained` | `Spec => []NoProtocolError` |
| `HandshakeAgreement!SessionsAreCompatible` | `Spec => []OnlyCompatible` |
| `HandshakeAgreement!DataIsUnderAppKeys` | `Spec => []DataUnderAppKeys` |
| `HandshakeAgreement!SessionIsImplemented` | `Spec => ImplementsSession` |
| `InteropProofs!InteropTypeCorrect` | `Spec => []TypeOK` |
| `InteropProofs!HandshakesAgree` | `Spec => []SameHandshake` |
| `InteropProofs!FailuresExplained` | `Spec => []FailureExplained` |
| `InteropProofs!ReadFailuresExplained` | `Spec => []ReadFailureExplained` |
| `InteropProofs!NothingIsLost` | `Spec => []NothingLost` |
| `HelloChoiceProofs!RefusalsAreNeeded` | `Spec => []NoNeedlessRefusal` |
| `HelloChoiceProofs!ClientsGoOn` | `Spec => []ClientNeverAborts` |
| `HelloChoiceProofs!ChoiceIsBest` | `Spec => []BestChoice` |
| `TicketCacheProofs!TypesAreCorrect` | `Spec => []TypeOK` |
| `TicketCacheProofs!OnlyTheHolderChanges` | `Spec => OnlyHolderChanges` |
| `TicketCacheProofs!TicketStoreIsImplemented` | `Spec => ImplementsTicketStore` |
| `TicketCacheProofs!NoTicketIsLost` | `Spec => []NoTicketLost` |
| `AppStreamProofs!StreamTypeCorrect` | `Spec => []TypeOK` |
| `AppStreamProofs!NoErrorOfItsOwn` | `Plain` implies `Spec => []NoSpuriousError` |
| `AppStreamProofs!EveryTicketIsKept` | `Plain` implies `Spec => []TicketsKept` |
| `AppStreamProofs!PlainIsDeliveredInOrder` | `Plain` implies `Spec => []DeliveredInOrder` |
| `AppStreamProofs!RecordsAreByteStream` | `Plain` implies `Spec => ImplementsByteStream` |
| `EPPServiceProofs!ServiceTypeCorrect` | `Spec => []TypeOK` |
| `EPPServiceProofs!NoConnectionLeaks` | `Spec => []NoConnLeaked` |
| `EPPServiceProofs!FailuresAreExplained` | `Spec => []FailureExplained` |
| `EPPServiceProofs!DialogIsImplemented` | `Spec => ImplementsDialog` |

*Nonces.* That all records so far differ says nothing of the next one, so `NonceInv` adds
what an endpoint's outgoing cipher has to do with what it has written: no record under
that key has a number as high as the next one; the keys an endpoint writes under are its
own; before the handshake is over none is an application key, and before its first
encryption it has written in the clear only. With these, a cipher that is continued
goes to an unused number (`WritesSeal`), a cipher that is made anew has a key that was not
used (`WritesRekey`), and `sendFinishedTLS13`, which does either (`conn.go:1782-1801`), makes a
new one only where nothing was encrypted before (`FinishedWrites`). Across the two
directions the keys differ because they are derived from different labels.

*Authentication.* `ClientAuthenticated` speaks of the two ends of a conversation, and the
fact that links them is that a signature in the log was made with the key its endpoint is
configured with. `AuthInv` therefore has three parts: `Signatures` (who signed, with
which key, after which certificate; what has been checked when a signature is awaited),
`ClientOrder` (what a client may have written before it has verified) and `ServerOrder`
(a server that gave up for a missing certificate has not signed; a server that asked has
verified before it waits for the Finished). Each is preserved by every action with
the others' help. The module the runs instantiate extends `HandshakeInvariants`, so that `AuthInv`
can be added to the invariants of `auth` and `NonceInv` to those of `session`: TLC finds both
to hold there.

*Script.* Agreement is about two endpoints that have completed, and nothing about them alone
makes the next step agree: what one hashes now the other hashed many steps ago, or will.
Comparing the two transcripts with each other through all interleavings of reads and writes
gives a case for every pair of calls. `ScriptInv` compares each endpoint with a third thing
instead: the conversation its two configurations fix (`HandshakeScript`). `RecordOf(C, p, i)` is
the i-th record of endpoint `p` under the configurations `C`: its message, the transcript its
signature or MAC covers, the key and number it is sealed with. The invariant says that every
record ever written is that one (`OnScript`) and that an endpoint that has not failed is at the
place in the script that its call, its records written and its records read determine (`Placed`), has
the transcript, secrets and negotiated values of that place (`Knows`), waits with the cipher of the
record to come (`Opening`) and holds the cipher of the record it writes next (`Sealing`). Failing is
the only way to leave the script, and it leaves the records behind, on the script (`Outcome`). Each
action is then a lemma about one endpoint; the other enters only through its log. The whole
rests on what the two selections return (`NegotiationProofs`: the client accepts the server's choice).
From `ScriptInv` the five properties follow in a few steps each: both are done, so both are
at the end of the same script (`Agreement`); the record a reader meets is the one its cipher opens and its
call expects, so that `Refuse` has a reason in the configurations (`NoProtocolError`); who
has passed a check has what the check asks for (`OnlyCompatible`); data comes after the Finished in
the script (`DataUnderAppKeys`).

*Session.* The refinement reads the abstract phase, parameters and counts off the logs. `Seen` states
these mapped values in terms of the script, so that a step of `Handshake` is a step of `Session`
by comparison: the last call of an endpoint is `Establish`, a failure before it `Abort`, a record of data
a write or a read, `Quit` a close, and every other step changes nothing `Session` sees. That the
server does not establish before the client follows from the place of the client's Finished.

*Interop.* A server may cut its messages into records anywhere, put several into one and mix in
ChangeCipherSpec records, so what is under way has no fixed form. `Course` gives the conversation ten places
instead: 0 before the ServerHello, 1 to 8 before each unit of the encrypted flight, 9 after it. A
record leads from one place to another (`Moves`), and `Leads(retry, down, p, e)` says that the records under way
lead, one after the other, from the client's place to the server's. Whatever the server writes next adds a
step at the far end (lemma `LeadsAppended`), whatever the client reads takes the first (`LeadsOn`), and no cut needs a case of
its own. Around this, `Course` lists the phases of a client (the first hello, the retry and the second
hello, the flight with the part of a message in `hsBuf`, the Finished, the data) and says what both sides have
hashed there: of what a server chooses, that depends on its HelloRetryRequest alone. A handshake leaves
these phases only by failing, and `Explained` holds whenever it does. The other way out is `CutShort`:
once a hello has been cut over two records, its first part is what the client will read of it, and the client
fails there, after any ChangeCipherSpec records before it. What the server has sent or sends behind it the client never
meets, so `CutShort` says nothing of the server but that `torn` names the reason.
`Course \/ CutShort` is inductive, and `SameHandshake` and `FailureExplained` follow.

`Delivery` is about what comes after, where no hello was cut; in a conversation that is cut short only the
numbering of tickets has to be kept for the connections to come (`Conversation`). The tickets under way are in *slots*: each handshake record under an
application key is one, and the units an open server has still to write are the last. Within a
slot, from slot to slot, and after the tickets in the cache, their ranks rise (`InOrder`): the ranks are
the numbers of issue with the two parts of each. As long as the server has updated no key and torn no
ticket (`Clean`), each slot is made of whole tickets, and every ticket issued is in the cache or in a slot
(`Undamaged`); the data records under way are those from what `Read` has returned to what was sent (`Counted`).
`Sealed` says which key protects what is under way, and that an alert is the last record, under the key the server
has last written with: a client that has not followed an update cannot open it, which is why a Read
that meets close_notify has seen a server without updates. A server writing moves units from the last slot to a
new one, a Read empties the first into the cache. When no slot holds anything, what is in the cache is what was
issued, in that order.

TLC checked `Course` and `Delivery`, with the quantifiers over functions replaced by recursive operators that decide the same,
before they were proved: on all 40 servers in the instance of `interop`, where no hello is cut.

*Choice.* `SelectCipherSuite`, `SelectALPN` and `SelectKeyShare` take the first element that passes
a test; `NegotiationProofs` states this once for positions in a list (the smallest number of a
set that is not empty exists) and `HelloChoiceProofs` draws the three properties from it, for lists of any
length. A hello and a configuration are fixed in the initial state, so the invariant (`Decided`) only
has to say what the answer was.

*Ticket cache.* `CacheInv` has five parts. `CacheTypes` and `Headers` are the shape, with every header
inside its array; `Held` ties the mutex to the two labels at which it is held; `Filtering` says that
the in-place filter writes behind what it has read (`kept < at`), that the ticket came in the past; `Apart` that no two
Configs show the same array. `Apart` is what everything else needs: a filter that wrote into
an array another Config shows would change a list whose mutex it does not hold. It is inductive only together with
what `Clone` has not finished yet, hence `Made`. `List` is what a Config lists as seen through its mutex, and
`Remains` says what it is while a filter is at work: the tickets kept, then those not seen; a turn
that keeps one leaves this sequence alone (`RemainsKept`) though the array changes, a turn that
drops one removes exactly that one (`RemainsDropped`), and the end of the loop changes nothing
(`RemainsAtEnds`). `OnlyHolderChanges` and the refinement are these facts, one per action, with
`PrependedIsInsert`: the loop with its early exit computes the abstract insertion.
`NoTicketLost` is not inductive either. A ticket may be anywhere in the list, and the last places are cut off
by the next insertion; `KeptInv` therefore says that each list *starts* with tickets that servers sent, all different, and
that every living ticket a connection has received is among them, unless the connection is about to
store it. Tickets the application loaded can only be behind these. An insertion lets at most as many
different tickets stand in front as there are contents, hence no more than there is room for (`LeadRenewed`, by
counting an injection), and what the filter takes out is dead for good (`DeadStay`). Both invariants were first checked
by TLC, with two connections on one Config and with a Config made by `Dial` besides.

The loops are recursive functions. What they compute is an induction over their turns, and the
library's induction theorems cannot be used here; `Turns` states it for a set of turn numbers instead, and
follows from the smallest number outside the set (`Smallest`, by `WFMin`).

*Application data.* `Read` does not deliver every stream: the runs `binary` and `inplace` and the
padded ticket of section 3 are the three ways the code breaks it. `Plain` rules out these three:
no byte of a message is 20 to 23 (any byte can be the last of a record, as a Write may end
anywhere), chunks are not sub-slices of one buffer, tickets are not padded. The instance of `stream`
satisfies it. Messages of
any length, their cuts into Writes, the slices given to `Read`, padding of data, tickets, an announced or
silent close and deadlines stay arbitrary. What has to be known between two steps is what is on the
wire. `Carry(stream, meant, p)` says that there are places in `meant`, from `p` to its end, such that each record is
read as the bytes between two neighbours, or as nothing; `Count` says the same of the tickets. `p` is
how much `Read` has returned and kept, so that `Flow` (with `Writing`: what is left in the buffer is what the
application means; and `Received`: what was read is the beginning of `meant`) is inductive: a writer's step
adds a place (`CarryAppended`, lemma `Sends`), a reader's takes the first (`CarryTail`, lemma `Takes`), and a
stream without records leaves nothing to read (`CarryNone`). What `Outcome` makes of bytes is only
needed for the three records a writer sends (`OutcomesOfPlain`), which rests on where the last byte that is
not zero is (`Position`). TLC checked `Flow` in a smaller instance of `stream` first. The
refinement maps a Write to `Push`, a Read of data to `Pull` and an end without a tear to `End`.

*Connections.* `NoConnLeaked` is proved together with `TypeOK`: the conjunction `Held` is inductive. A step
that ends a handler or a handshake also takes away the server's side of the connection
(`Fail`, `AcceptFails`), one that hands a connection on (`InnerAccept`, `Accepted`) names its next holder;
the steps of all other clients leave the three places a connection can be in alone.

*Dialog.* `Service` adds two parts to `Held`. `Dialogs` says that at any moment at most one frame is
under way on a connection, that of the side whose turn it is (`Turn`): nothing of it yet
(`Silent`), its length, or all of it (`Spoken`). `Coming` lists the few ways such a frame can lie about
between the wire, the bytes `ReadFull` has and the length it took, whether length and payload are one
record or two: among them the two that follow a length ending in 23, which loses its last byte
(three bytes wait for a fourth, and take the `<` of the payload for it, after which the frame is too
long for what is left). A length ending in 20, 21 or 22 ends the run at once. Everything about bytes is in the
lemmas on `Coming`: what `Outcome` makes of the next record (`ComingRecord`), of four bytes
(`ComingLength`: always a valid length, so that the run never fails there) and of a whole payload
(`ComingPayload`: it is what the other side sent). Each step of a side is then one lemma about one connection.
`Causes` says why a side fails. An error reaches a run only from a misread record or
because the peer has closed, and a server has closed only because it refused the client (`Served`), because its
handler failed before, which has a cause itself (`Blamed`), or because the run is over (`Opened`); that the
listener closes nobody who is past his handshake needs each connection to be queued once (`QueuedOnce`). TLC
checked `Dialogs` and `Causes` in the instance of `service` first. The refinement of `Dialog` reads off `Turn`: a
payload is read only when it is the next one sent, and written only when the counts are even.

*Only model-checked.* `Codec` uses a recursive operator for its lists, so that no
theorem can be stated about it. `CloneIntact` does not hold. Liveness (`HandshakeEnds`,
`CompatibleSucceeds`, `EventuallyRead`, `EventuallyStored`, `EveryRunEnds`) is out of the prover's
reach and stays with TLC.

## 5. Not modelled

- Cryptographic primitives and the HKDF computations: symbolic, or none. Nothing here
  says anything about an attacker; both ends run this code, or follow RFC 8446.
- PEM files and path building of certificates: pure functions of libraries, whose outcome is
  a field of a configuration. `parseStatusRequestExtension`, which nothing calls, and extensions
  written from constants.
- Concurrent calls of `Write` on one connection (the sequence number is not protected),
  `SessionTickets()` beside `Read`, and record lengths above 2^16.
- On the server's side: client messages cut over records, ChangeCipherSpec records, clients
  that are not this one beyond their ClientHello.
- The XML of EPP requests and responses, which the client sends and prints without looking at it:
  it sends the check whatever the response to the login says.
- `verify_data`, signature and chain are skipped with InsecureSkipVerify in the code
  (`conn.go:1602`, `1665`, `1708-1728`); the model does the same, which is why agreement is
  stated for these configurations as well.
- The contents of `ConnectionState().PeerCertificates`: the models keep only whether a
  certificate is held. (It has one element, nil, when there is none; without
  `RequireClientCert` and `ClientCAs` no certificate is asked for, so the check after
  the handshake that `README.md:152` describes then has nothing to look at.)

## 6. Plan

Done, the most important behaviour first:

1. `Negotiation`, `Handshake`, `Session`: the two state machines, their agreement,
   authentication and keys, with the theorems above.
2. `Records`, `AppStream`, `ByteStream`: application data.
3. `TicketCache`, `TicketStore`: the state connections share.
4. `HelloChoice`: the server's choice against any client.
5. `Interop`: the client against servers of other implementations.
6. `Listener`, `EPPService`, `Dialog`: the Accept loop and the EPP client.
7. `Codec`: messages and extensions as bytes.

Proved: the safety properties and refinements of `Handshake`, `Interop`, `AppStream`, `HelloChoice`,
`TicketCache` and `EPPService`.

Left, in the models: several goroutines in `Write`, and the record length field.
