------------------------------ MODULE Records ------------------------------
(***************************************************************************)
(* Application data records after the handshake, byte by byte: what Encrypt*)
(* is given, and what readRecord, unwrapTLS13ApplicationData and Read make *)
(* of the inner plaintext they get back.  AppStream reads a stream of such *)
(* records, EPPService the frames of the EPP protocol from them.           *)
(***************************************************************************)
EXTENDS Naturals, Sequences, SequencesExt

Byte == 0..255

ChangeCipherSpec == 20
Alert == 21
Handshake == 22
ApplicationData == 23
NewSessionTicket == 4

(* stripTLS13InnerContentType: drop the zero padding; the last byte left is*)
(* the content type.                                                       *)
HasInnerType(data) == \E i \in 1..Len(data) : data[i] # 0
TypePosition(data) == SelectLastInSeq(data, LAMBDA b : b # 0)
InnerType(data) == data[TypePosition(data)]
Content(data) == SubSeq(data, 1, TypePosition(data) - 1)

IsInnerTypeByte(b) == b \in ChangeCipherSpec .. ApplicationData

(* Faulty variant: the content type is not cut to a byte.                  *)
InnerPlaintextWide(content, type, pad) ==
  Append(content, type + 256) \o [i \in 1..pad |-> 0]

(* What Encrypt is given: the content, then the content type; only a peer  *)
(* adds padding.                                                           *)
InnerPlaintext(content, type, pad) ==
  Append(content, type) \o [i \in 1..pad |-> 0]

(* What a call of Read makes of a record.                                  *)
Data(bytes) == [kind |-> "data", bytes |-> bytes]
Ticket == [kind |-> "ticket", bytes |-> <<>>]
EndOfFile == [kind |-> "eof", bytes |-> <<>>]
Error == [kind |-> "error", bytes |-> <<>>]

(* Faulty variant: every alert is an error.                                *)
AlertOutcomeError(content) == Error

(* alertErrorWithCloseNotify: a close_notify is the end of the stream.     *)
AlertOutcome(content) ==
  IF Len(content) >= 2 /\ content[1] = 1 /\ content[2] = 0 THEN EndOfFile ELSE Error

(* tls13ConsumeNewSessionTickets: the first message decides, an empty      *)
(* content counts as nothing but tickets.                                  *)
ConsumesTickets(content) == content = <<>> \/ content[1] = NewSessionTicket

(* unwrapTLS13ApplicationData, applied by Read to what readRecord returned:*)
(* a last byte that could be a content type is taken for one.              *)
Unwrap(data) ==
  IF data = <<>> \/ ~IsInnerTypeByte(Last(data)) THEN Data(data)
  ELSE CASE Last(data) = ApplicationData -> Data(Front(data))
         [] Last(data) = Alert           -> AlertOutcome(Front(data))
         [] Last(data) = Handshake /\ ConsumesTickets(Front(data)) -> Ticket
         [] OTHER -> Error

(* readRecord after the handshake strips the content type of alerts and of *)
(* application data, and leaves any other record as it is; Read goes on    *)
(* with the result.                                                        *)
Outcome(plaintext) ==
  IF HasInnerType(plaintext) /\ InnerType(plaintext) = Alert
    THEN AlertOutcome(Content(plaintext))
  ELSE IF HasInnerType(plaintext) /\ InnerType(plaintext) = ApplicationData
    THEN Unwrap(Content(plaintext))
  ELSE Unwrap(plaintext)
=============================================================================
