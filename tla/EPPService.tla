---------------------------- MODULE EPPService -----------------------------
(***************************************************************************)
(* Runs of the EPP client (cmd/internal/eppclient) against an EPP server   *)
(* behind a gmtls listener: connect, handshake, greeting, one or two       *)
(* requests, and the frames of both directions, a length and a payload, in *)
(* application data records.                                               *)
(*                                                                         *)
(* The server's loop and the handler of a connection are not this          *)
(* repository's; the handler frames its messages as the client does, or    *)
(* puts length and payload into one record.  The handshake is its outcome  *)
(* here (module Handshake has its steps); nothing is said of the XML but   *)
(* the byte it begins with.                                                *)
(***************************************************************************)
EXTENDS Records, Listener

CONSTANTS
  Lengths,     \* lengths a frame may have, its four bytes of length included
  Profiles     \* the clients to consider: for each of Clients a Profile record

(* "epp" and "refused" are EPP clients, the second with a certificate the  *)
(* server does not accept; "refuses" is one that does not accept the       *)
(* server's; "misconfigured" one whose certificates or keys do not load,   *)
(* which it finds out once it is connected; "silent" connects and sends    *)
(* nothing.                                                                *)
Profile == [kind : {"epp", "refused", "refuses", "misconfigured", "silent"},
            action : {"hello", "login", "check"},   \* the flag -action
            joined : BOOLEAN]   \* its handler joins length and payload

(* A payload begins with "<" and ends with ">".                            *)
ASSUME ServiceAssumption == Lengths \subseteq 6..1000 /\ Profiles \subseteq [Clients -> Profile]

VARIABLES
  profile,     \* of each client
  pc,          \* what each side of a connection does
  why,         \* the error a run ended with
  todo,        \* requests a run has still to send
  wire,        \* records on their way to each side
  inbox,       \* bytes Read has returned to io.ReadFull, and appReadBuf
  size,        \* length of the frame a side reads
  begun,       \* lengths of the frames it has begun to write
  sent, read   \* payloads each side has written and read

run == <<pc, why, todo, wire, inbox, size, begun, sent, read>>
vars == <<listener, profile, run>>

---------------------------------------------------------------------------
(* Frames *)

Header(n) == <<0, 0, n \div 256, n % 256>>
HeaderValue(h) == h[1] * 16777216 + h[2] * 65536 + h[3] * 256 + h[4]

(* The payload of a frame of n bytes, its serial number in every byte      *)
(* between the first and the last.                                         *)
Payload(n, serial) == <<60>> \o [i \in 1 .. n - 6 |-> 96 + serial] \o <<62>>

MaxFrame == 10 * 1024 * 1024

(* Faulty variant: the lower bound is that of a frame with a request in it.*)
ValidLengthAbove(n) == 24 < n /\ n <= MaxFrame

ValidLength(n) == 4 <= n /\ n <= MaxFrame

(* Faulty variant: the length does not count its own four bytes.           *)
BodyLengthWhole(n) == n

(* What is left of a frame of n bytes after its length.                    *)
BodyLength(n) == n - 4

Sealed(bytes) == InnerPlaintext(bytes, ApplicationData, 0)

---------------------------------------------------------------------------

Goto(c, side, label) == pc' = [pc EXCEPT ![c][side] = label]

(* Faulty variant: the error of a run is dropped.                          *)
FailWithNothing(c, side, reason) == Goto(c, side, "failed") /\ UNCHANGED why

FailWith(c, side, reason) ==
  /\ Goto(c, side, "failed")
  /\ why' = IF side = "client" THEN [why EXCEPT ![c] = reason] ELSE why

(* Closing is deferred to the end of the run, or of the handler.           *)
Fail(c, side, reason) ==
  /\ FailWith(c, side, reason)
  /\ Shut(c, side)
  /\ UNCHANGED <<listening, loop, stops, backlog, accepting>>

Init ==
  /\ ListenerInit
  /\ profile \in Profiles
  /\ pc = [c \in Clients |-> [client |-> "dial", server |-> "none"]]
  /\ why = [c \in Clients |-> None]
  /\ todo = [c \in Clients |->
               IF profile[c].action = "check" THEN <<"login", "check">>
               ELSE <<profile[c].action>>]
  /\ wire = [c \in Clients |-> [s \in Sides |-> <<>>]]
  /\ inbox = wire /\ begun = wire /\ sent = wire /\ read = wire
  /\ size = [c \in Clients |-> [s \in Sides |-> 0]]

---------------------------------------------------------------------------
(* Connecting *)

Dial(c) ==
  /\ pc[c].client = "dial"
  /\ Connect(c)
  /\ Goto(c, "client", "handshake")
  /\ UNCHANGED <<profile, why, todo, wire, inbox, size, begun, sent, read>>

(* The ten seconds of the dialer, spent on a full backlog; no deadline     *)
(* after that.  A closed listener refuses at once.                         *)
DialFails(c) ==
  /\ pc[c].client = "dial"
  /\ ~listening \/ Len(backlog) = Backlog
  /\ FailWith(c, "client", "connect")
  /\ UNCHANGED <<listener, profile, todo, wire, inbox, size, begun, sent, read>>

(* The certificates and keys of the profile are loaded after connecting.   *)
LoadFails(c) ==
  /\ pc[c].client = "handshake" /\ profile[c].kind = "misconfigured"
  /\ Fail(c, "client", "config")
  /\ UNCHANGED <<profile, todo, wire, inbox, size, begun, sent, read>>

(* gmtls.Client returns before the server has read the client's Finished.  *)
ClientHandshake(c) ==
  /\ pc[c].client = "handshake" /\ accepting = c
  /\ profile[c].kind \notin {"misconfigured", "silent"}
  /\ IF profile[c].kind = "refuses"
       THEN Fail(c, "client", "handshake")
       ELSE Goto(c, "client", "readLength") /\ UNCHANGED <<listener, why>>
  /\ UNCHANGED <<profile, todo, wire, inbox, size, begun, sent, read>>

ClientHandshakeEof(c) ==
  /\ pc[c].client = "handshake" /\ "server" \notin ends[c]
  /\ profile[c].kind # "misconfigured"
  /\ Fail(c, "client", "handshake")
  /\ UNCHANGED <<profile, todo, wire, inbox, size, begun, sent, read>>

(* A silent client may leave.                                              *)
Leave(c) ==
  /\ pc[c].client = "handshake" /\ profile[c].kind = "silent"
  /\ Fail(c, "client", "left")
  /\ UNCHANGED <<profile, todo, wire, inbox, size, begun, sent, read>>

HandshakeOver(c) == pc[c].client # "handshake"
HandshakeOk(c) == HandshakeOver(c) /\ profile[c].kind = "epp"

Accepted(c) ==
  /\ HandshakeOk(c)
  /\ AcceptReturns(c)
  /\ Goto(c, "server", "writeLength")
  /\ UNCHANGED <<profile, why, todo, wire, inbox, size, begun, sent, read>>

Rejected(c) ==
  /\ HandshakeOver(c) /\ profile[c].kind # "epp"
  /\ AcceptFails(c)
  /\ UNCHANGED <<profile, run>>

Accepting ==
  /\ InnerAccept \/ AcceptClosed
  /\ UNCHANGED <<profile, run>>

(* The application closes the listener whenever it likes, and when its loop*)
(* has ended.                                                              *)
Shutdown == CloseListener /\ UNCHANGED <<profile, run>>
Retire == loop = "stopped" /\ Shutdown

---------------------------------------------------------------------------
(* Frames read and written, by either side *)

Needs(c, side) == IF pc[c][side] = "readLength" THEN 4 ELSE BodyLength(size[c][side])
Reading(c, side) ==
  /\ pc[c][side] \in {"readLength", "readPayload"}
  /\ Len(inbox[c][side]) < Needs(c, side)

(* io.ReadFull calls Read until it has enough; Outcome is what Read makes  *)
(* of a record.                                                            *)
ReadRecord(c, side) ==
  LET result == Outcome(Head(wire[c][side])) IN
  /\ Reading(c, side) /\ wire[c][side] # <<>>
  /\ wire' = [wire EXCEPT ![c][side] = Tail(@)]
  /\ IF result.kind = "data"
       THEN /\ inbox' = [inbox EXCEPT ![c][side] = @ \o result.bytes]
            /\ UNCHANGED <<listener, pc, why>>
       ELSE Fail(c, side, "record") /\ UNCHANGED inbox
  /\ UNCHANGED <<profile, todo, size, begun, sent, read>>

ReadEof(c, side) ==
  /\ Reading(c, side) /\ wire[c][side] = <<>>
  /\ Peer(side) \notin ends[c]
  /\ Fail(c, side, "eof")
  /\ UNCHANGED <<profile, todo, wire, inbox, size, begun, sent, read>>

ReadLength(c, side) ==
  LET n == HeaderValue(inbox[c][side]) IN
  /\ pc[c][side] = "readLength" /\ Len(inbox[c][side]) >= 4
  /\ IF ValidLength(n)
       THEN /\ size' = [size EXCEPT ![c][side] = n]
            /\ inbox' = [inbox EXCEPT ![c][side] = SubSeq(@, 5, Len(@))]
            /\ Goto(c, side, "readPayload")
            /\ UNCHANGED <<listener, why>>
       ELSE Fail(c, side, "length") /\ UNCHANGED <<size, inbox>>
  /\ UNCHANGED <<profile, todo, wire, begun, sent, read>>

(* Faulty variant: the next request does not wait for the response.        *)
AfterWriteAhead(c, side) ==
  IF side = "client" /\ Len(todo[c]) > 1 THEN "writeLength" ELSE "readLength"

AfterWrite(c, side) == "readLength"

(* The client prints the frame, whatever it says, and goes on to its next  *)
(* request; the handler answers.                                           *)
ReadPayload(c, side) ==
  LET n == BodyLength(size[c][side])
      over == side = "client" /\ todo[c] = <<>>
  IN  /\ pc[c][side] = "readPayload" /\ Len(inbox[c][side]) >= n
      /\ read' = [read EXCEPT ![c][side] = Append(@, SubSeq(inbox[c][side], 1, n))]
      /\ inbox' = [inbox EXCEPT ![c][side] = SubSeq(@, n + 1, Len(@))]
      /\ Goto(c, side, IF over THEN "done" ELSE "writeLength")
      /\ IF over
           THEN Shut(c, side) /\ UNCHANGED <<listening, loop, stops, backlog, accepting>>
           ELSE UNCHANGED listener
      /\ UNCHANGED <<profile, why, todo, wire, size, begun, sent>>

(* eppWriteFrame calls Write twice: the length is a record of its own.  A  *)
(* handler that joins the two writes both in WritePayload.                 *)
Joins(c, side) == side = "server" /\ profile[c].joined

WriteLength(c, side, n) ==
  /\ pc[c][side] = "writeLength" /\ n \in Lengths
  /\ begun' = [begun EXCEPT ![c][side] = Append(@, n)]
  /\ wire' = IF Joins(c, side) THEN wire
             ELSE [wire EXCEPT ![c][Peer(side)] = Append(@, Sealed(Header(n)))]
  /\ Goto(c, side, "writePayload")
  /\ UNCHANGED <<listener, profile, why, todo, inbox, size, sent, read>>

WritePayload(c, side) ==
  LET n == Last(begun[c][side])
      payload == Payload(n, Len(sent[c][side]))
      record == IF Joins(c, side) THEN Header(n) \o payload ELSE payload
  IN  /\ pc[c][side] = "writePayload"
      /\ wire' = [wire EXCEPT ![c][Peer(side)] = Append(@, Sealed(record))]
      /\ sent' = [sent EXCEPT ![c][side] = Append(@, payload)]
      /\ todo' = IF side = "client" THEN [todo EXCEPT ![c] = Tail(@)] ELSE todo
      /\ Goto(c, side, AfterWrite(c, side))
      /\ UNCHANGED <<listener, profile, why, inbox, size, begun, read>>

(* The other side has closed the socket.                                   *)
WriteFails(c, side) ==
  /\ pc[c][side] \in {"writeLength", "writePayload"} /\ Peer(side) \notin ends[c]
  /\ Fail(c, side, "write")
  /\ UNCHANGED <<profile, todo, wire, inbox, size, begun, sent, read>>

---------------------------------------------------------------------------

Exchange(c, side) ==
  \/ ReadRecord(c, side) \/ ReadEof(c, side)
  \/ ReadLength(c, side) \/ ReadPayload(c, side)
  \/ (\E n \in Lengths : WriteLength(c, side, n))
  \/ WritePayload(c, side) \/ WriteFails(c, side)

ClientStep(c) ==
  \/ Dial(c) \/ DialFails(c) \/ LoadFails(c)
  \/ ClientHandshake(c) \/ ClientHandshakeEof(c)
  \/ Exchange(c, "client")

AcceptStep == Accepting \/ \E c \in Clients : Accepted(c) \/ Rejected(c)

Over(c) == pc[c].client \in {"done", "failed"}

System ==
  \/ AcceptStep \/ Retire
  \/ \E c \in Clients : ClientStep(c) \/ Exchange(c, "server")

Next == System \/ Shutdown \/ \E c \in Clients : Leave(c)

(* Every goroutine runs on.  No step is ever undone, so that one condition *)
(* on all of them says it for each.  That a silent client leaves or the    *)
(* application closes the listener is for them to decide.                  *)
Spec == Init /\ [][Next]_vars /\ WF_vars(System)

---------------------------------------------------------------------------
(* Properties *)

ClientLabels == {"dial", "handshake", "readLength", "readPayload", "writeLength",
                 "writePayload", "done", "failed"}
ServerLabels == {"none", "readLength", "readPayload", "writeLength", "writePayload",
                 "failed"}
Errors == {None, "connect", "config", "handshake", "left", "record", "eof", "length",
           "write"}

(* The shape of the state; a run has failed exactly when it has an error.  *)
TypeOK ==
  /\ ListenerTypeOK
  /\ profile \in [Clients -> Profile]
  /\ pc \in [Clients -> [client : ClientLabels, server : ServerLabels]]
  /\ why \in [Clients -> Errors]
  /\ \A c \in Clients : (pc[c].client = "failed") <=> (why[c] # None)

(* A connection the server holds open waits for Accept, is in its          *)
(* handshake there, or is in the hands of a handler: one whose handshake   *)
(* failed or whose handler ended is closed.                                *)
Queued(c) == \E i \in DOMAIN backlog : backlog[i] = c
Handled(c) == pc[c].server \notin {"none", "failed"}
NoConnLeaked ==
  \A c \in Clients :
    "server" \in ends[c] => Queued(c) \/ accepting = c \/ Handled(c)

(* A frame whose length ends in 20 to 23 in a record of its own: Read takes*)
(* the byte for a content type.                                            *)
Misread(n) == IsInnerTypeByte(n % 256)
Misframes(c, side) ==
  /\ ~Joins(c, side)
  /\ \E i \in DOMAIN begun[c][side] : Misread(begun[c][side][i])

(* A run that fails after its handshake was refused by the server, or one  *)
(* of the two sides sent a length in a record of its own that Read takes   *)
(* for something else: frames in other records never fail a run.           *)
FailureExplained ==
  \A c \in Clients :
    why[c] \in {"record", "eof", "length", "write"} =>
      profile[c].kind = "refused" \/ Misframes(c, "client") \/ Misframes(c, "server")

Behind(c) ==
  /\ pc[c].client = "handshake"
  /\ accepting # None /\ profile[accepting].kind = "silent" /\ ~HandshakeOver(accepting)
Misframed(c) ==
  \E side \in Sides :
    pc[c][side] = "readPayload" /\ Misframes(c, Peer(side)) /\ wire[c][side] = <<>>

(* Every run ends, though it has no deadline after connecting, unless a    *)
(* silent client keeps Accept, which keeps everybody behind it waiting, or *)
(* a length was misread, after which both sides wait for each other.       *)
EveryRunEnds ==
  \A c \in Clients :
    profile[c].kind # "silent" => <>[](Over(c) \/ Behind(c) \/ Misframed(c))

Payloads == {Payload(n, serial) : n \in Lengths, serial \in 0..2}
Of(said, side) == [c \in Clients |-> said[c][side]]
D == INSTANCE Dialog WITH
  Frames <- Payloads,
  said <- Of(sent, "server"), heard <- Of(read, "client"),
  asked <- Of(sent, "client"), taken <- Of(read, "server")

(* Both sides take turns and take what the other said, whole, once and in  *)
(* order, however records cut it.                                          *)
ImplementsDialog == D!Spec
=============================================================================
