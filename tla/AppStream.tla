----------------------------- MODULE AppStream -----------------------------
(***************************************************************************)
(* One direction of a connection after the handshake: Write and writeRecord*)
(* on one side, readRecord, unwrapTLS13ApplicationData and Read on the     *)
(* other.  Encryption is transparent here (module Handshake covers keys    *)
(* and sequence numbers): a record carries its inner plaintext, that is    *)
(* content, content type and padding, as bytes.                            *)
(*                                                                         *)
(* With no padding, no tickets and no close_notify the writer is this      *)
(* implementation; otherwise it is an RFC 8446 peer such as Tongsuo.       *)
(***************************************************************************)
EXTENDS Records

CONSTANTS
  Messages,     \* what an application may want to send, sequences of bytes
  MaxMessages,  \* bound: messages sent
  ReadSizes,    \* lengths of the slices passed to Read
  InPlace,      \* chunks are sub-slices of the application's buffer
  MaxPadding,   \* zero bytes an RFC 8446 peer may pad a data record with
  MaxTickets,   \* bound: tickets sent by an RFC 8446 peer
  TicketPadding,\* zero bytes it may pad a ticket record with
  CloseNotify,  \* the writer may send close_notify before it closes
  MaxTimeouts   \* bound: read deadlines that pass in the middle of a record

ASSUME StreamAssumption ==
  /\ Messages \subseteq Seq(Byte) \ {<<>>}
  /\ ReadSizes \subseteq Nat \ {0} /\ ReadSizes # {}
  /\ {InPlace, CloseNotify} \subseteq BOOLEAN
  /\ {MaxMessages, MaxPadding, MaxTickets, TicketPadding, MaxTimeouts} \subseteq Nat

VARIABLES
  buffer,      \* what is left of the buffer the application is writing from
  meant,       \* every byte the application meant to send, so far written
  rest,        \* the bytes it still means to send of the current message
  messages,    \* messages begun
  stream,      \* records on the wire
  closed,      \* the writer has closed the connection
  appReadBuf,  \* Conn.appReadBuf
  got,         \* every byte Read has returned
  status,      \* "open", or how Read ended: "eof", "error"
  torn,        \* a deadline passed inside a record; its first part is lost
  tickets,     \* tickets sent
  stored,      \* tickets the reader has put in its cache
  timeouts

writer == <<buffer, meant, rest, messages>>
vars == <<writer, stream, closed, appReadBuf, got, status, torn, tickets, stored,
          timeouts>>

---------------------------------------------------------------------------
(* The writer *)

Init ==
  /\ buffer = <<>> /\ meant = <<>> /\ rest = <<>> /\ messages = 0
  /\ stream = <<>> /\ closed = FALSE
  /\ appReadBuf = <<>> /\ got = <<>> /\ status = "open" /\ torn = FALSE
  /\ tickets = 0 /\ stored = 0 /\ timeouts = 0

(* The application fills its buffer with the next message.                 *)
BeginMessage(m) ==
  /\ ~closed /\ rest = <<>> /\ messages < MaxMessages
  /\ buffer' = m /\ rest' = m
  /\ messages' = messages + 1
  /\ UNCHANGED <<meant, stream, closed, appReadBuf, got, status, torn, tickets,
                 stored, timeouts>>

(* What stays in the application's buffer after a Write of its first k     *)
(* bytes.  Encrypt appends the content type to the slice it is given: when *)
(* that slice ends inside a larger buffer, append stores the byte in place.*)
AfterAppend(b, k) ==
  LET left == SubSeq(b, k + 1, Len(b)) IN
  IF InPlace /\ left # <<>> THEN [left EXCEPT ![1] = ApplicationData] ELSE left

(* Write of the next k bytes: one record.                                  *)
Write(k, pad) ==
  /\ ~closed /\ k \in 1..Len(rest) /\ pad \in 0..MaxPadding
  /\ stream' = Append(stream,
                      InnerPlaintext(SubSeq(buffer, 1, k), ApplicationData, pad))
  /\ buffer' = AfterAppend(buffer, k)
  /\ meant' = meant \o SubSeq(rest, 1, k)
  /\ rest' = SubSeq(rest, k + 1, Len(rest))
  /\ UNCHANGED <<messages, closed, appReadBuf, got, status, torn, tickets, stored,
                 timeouts>>

(* A NewSessionTicket of the peer, in a record of its own.                 *)
SendTicket(pad) ==
  /\ ~closed /\ tickets < MaxTickets /\ pad \in 0..TicketPadding
  /\ stream' = Append(stream, InnerPlaintext(<<NewSessionTicket, 97>>, Handshake, pad))
  /\ tickets' = tickets + 1
  /\ UNCHANGED <<writer, closed, appReadBuf, got, status, torn, stored, timeouts>>

(* Close only closes the socket; a peer may announce it.                   *)
CloseWriter ==
  /\ ~closed
  /\ closed' = TRUE
  /\ \/ UNCHANGED stream
     \/ CloseNotify /\ stream' = Append(stream, InnerPlaintext(<<1, 0>>, Alert, 0))
  /\ UNCHANGED <<writer, appReadBuf, got, status, torn, tickets, stored, timeouts>>

---------------------------------------------------------------------------
(* The reader: Read with a slice of n bytes *)

(* Faulty variant: what does not fit is dropped.                           *)
TakeDrops(n, bytes) ==
  /\ got' = got \o SubSeq(bytes, 1, IF n < Len(bytes) THEN n ELSE Len(bytes))
  /\ appReadBuf' = <<>>

Take(n, bytes) ==
  /\ got' = got \o SubSeq(bytes, 1, IF n < Len(bytes) THEN n ELSE Len(bytes))
  /\ appReadBuf' = SubSeq(bytes, n + 1, Len(bytes))

ReadBuffered(n) ==
  /\ status = "open" /\ appReadBuf # <<>>
  /\ Take(n, appReadBuf)
  /\ UNCHANGED <<writer, stream, closed, status, torn, tickets, stored, timeouts>>

Reading == status = "open" /\ appReadBuf = <<>> /\ ~torn /\ stream # <<>>

ReadData(n) ==
  /\ Reading
  /\ Outcome(Head(stream)).kind = "data"
  /\ Take(n, Outcome(Head(stream)).bytes)
  /\ stream' = Tail(stream)
  /\ UNCHANGED <<writer, closed, status, torn, tickets, stored, timeouts>>

(* Faulty variants: the ticket is skipped; the loop goes round without     *)
(* reading on.                                                             *)
ReadTicketSkips ==
  /\ Reading
  /\ Outcome(Head(stream)) = Ticket
  /\ stream' = Tail(stream)
  /\ UNCHANGED <<writer, closed, appReadBuf, got, status, torn, tickets, stored,
                 timeouts>>
ReadTicketStays ==
  /\ Reading
  /\ Outcome(Head(stream)) = Ticket
  /\ UNCHANGED vars

(* The loop of Read goes round again after a ticket.                       *)
ReadTicket ==
  /\ Reading
  /\ Outcome(Head(stream)) = Ticket
  /\ stream' = Tail(stream)
  /\ stored' = stored + 1
  /\ UNCHANGED <<writer, closed, appReadBuf, got, status, torn, tickets, timeouts>>

ReadFails ==
  /\ Reading
  /\ Outcome(Head(stream)).kind \in {"eof", "error"}
  /\ status' = Outcome(Head(stream)).kind
  /\ stream' = Tail(stream)
  /\ UNCHANGED <<writer, closed, appReadBuf, got, torn, tickets, stored, timeouts>>

(* The socket is closed and drained: io.ReadFull of the header is io.EOF.  *)
ReadEnd ==
  /\ status = "open" /\ appReadBuf = <<>> /\ ~torn /\ stream = <<>> /\ closed
  /\ status' = "eof"
  /\ UNCHANGED <<writer, stream, closed, appReadBuf, got, torn, tickets, stored,
                 timeouts>>

(* A read deadline passes when a part of a record is in: readRecord returns*)
(* the error and forgets the part.  A deadline between two records changes *)
(* nothing.                                                                *)
Timeout ==
  /\ Reading /\ timeouts < MaxTimeouts
  /\ torn' = TRUE
  /\ timeouts' = timeouts + 1
  /\ UNCHANGED <<writer, stream, closed, appReadBuf, got, status, tickets, stored>>

(* The next Read takes bytes from the middle of a record for a header.     *)
(* Nothing it takes for a record opens, but the types 20 and 21 are not    *)
(* opened: those bytes can be an unexpected type, an alert, a close_notify.*)
ReadTorn ==
  /\ status = "open" /\ torn /\ appReadBuf = <<>>
  /\ status' \in {"eof", "error"}
  /\ UNCHANGED <<writer, stream, closed, appReadBuf, got, torn, tickets, stored,
                 timeouts>>

ReadStep ==
  \/ \E n \in ReadSizes : ReadBuffered(n) \/ ReadData(n)
  \/ ReadTicket \/ ReadFails \/ ReadEnd \/ ReadTorn

WriteStep ==
  \/ \E m \in Messages : BeginMessage(m)
  \/ \E k \in 1..Len(rest), pad \in 0..MaxPadding : Write(k, pad)
  \/ \E pad \in 0..TicketPadding : SendTicket(pad)
  \/ CloseWriter

(* The connection is closed and the reader knows.                          *)
Terminated == closed /\ status # "open" /\ UNCHANGED vars

Next == ReadStep \/ WriteStep \/ Timeout \/ Terminated

(* The reading application calls Read until it ends.                       *)
Spec == Init /\ [][Next]_vars /\ WF_vars(ReadStep)

---------------------------------------------------------------------------
(* Properties *)

(* The shape of the state.                                                 *)
TypeOK ==
  /\ {buffer, meant, rest, appReadBuf, got} \subseteq Seq(Byte)
  /\ stream \in Seq(Seq(Byte))
  /\ {closed, torn} \subseteq BOOLEAN
  /\ status \in {"open", "eof", "error"}
  /\ messages \in 0..MaxMessages /\ tickets \in 0..MaxTickets
  /\ stored \in Nat /\ timeouts \in 0..MaxTimeouts

(* Read returns the bytes the application meant to write, in order, without*)
(* gaps, repetitions or foreign bytes, whatever the cuts of Write and Read,*)
(* the tickets in between and the deadlines that pass.                     *)
DeliveredInOrder == IsPrefix(got \o appReadBuf, meant)

(* As long as no record was torn by a deadline, Read reports no error.     *)
NoSpuriousError == status = "error" => torn

(* Every ticket of the peer reaches the cache and none is made up.         *)
TicketsKept == stored <= tickets /\ (status = "eof" /\ ~torn => stored = tickets)

(* What is written is read, and a close is seen, as long as the reading    *)
(* application keeps calling Read.                                         *)
EventuallyRead ==
  /\ \A n \in 1..4 : Len(meant) >= n ~> Len(got) >= n \/ torn
  /\ closed ~> status # "open"

B == INSTANCE ByteStream WITH
  sent <- meant, received <- got, ended <- (status = "eof" /\ ~torn)

(* Records, types, padding, tickets, buffers and deadlines implement a     *)
(* stream of bytes, which ends where the writer ended it unless a deadline *)
(* tore a record.                                                          *)
ImplementsByteStream == B!Spec
=============================================================================
