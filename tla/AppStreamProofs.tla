-------------------------- MODULE AppStreamProofs --------------------------
(***************************************************************************)
(* Theorems about AppStream, for any messages, cuts, paddings, tickets and *)
(* deadlines: the state has its shape, and what a writer that is Plain     *)
(* sends is read as a stream of bytes.                                     *)
(***************************************************************************)
EXTENDS AppStream, SequenceTheorems, WellFoundedInduction, NaturalsInduction, TLAPS

(* Application data without the four bytes that are content types, which   *)
(* Read strips from the end of a record (conn.go:1071-1099), each Write    *)
(* from a buffer of its own, which Encrypt cannot overwrite, and tickets   *)
(* that are not padded, which readRecord does not strip (conn.go:198).     *)
Plain ==
  /\ ~InPlace /\ TicketPadding = 0
  /\ \A m \in Messages : \A i \in 1..Len(m) : ~IsInnerTypeByte(m[i])

(* What is left in the buffer is what the application means to send.       *)
Writing == buffer = rest /\ \A i \in 1..Len(rest) : ~IsInnerTypeByte(rest[i])

(* The outcome r of a record is the bytes of m from a to b, or nothing.    *)
Carries(m, r, a, b) ==
  \/ a <= b /\ r = Data(SubSeq(m, a + 1, b))
  \/ a = b /\ r \in {Ticket, EndOfFile}

(* The records s carry what m holds after its first p bytes: at says where *)
(* in m each of them begins.                                               *)
Carry(s, m, p) ==
  \E at \in [1..Len(s) + 1 -> 0..Len(m)] :
    /\ at[1] = p /\ at[Len(s) + 1] = Len(m)
    /\ \A i \in 1..Len(s) : Carries(m, Outcome(s[i]), at[i], at[i + 1])

(* The tickets in s are those from p to q: n counts them.                  *)
Count(s, p, q) ==
  \E n \in [1..Len(s) + 1 -> 0..q] :
    /\ n[1] = p /\ n[Len(s) + 1] = q
    /\ \A i \in 1..Len(s) :
         n[i + 1] = n[i] + (IF Outcome(s[i]) = Ticket THEN 1 ELSE 0)

(* What was written and is not yet read is under way, and so are the       *)
(* tickets not yet stored; only the last record ends the stream.           *)
UnderWay ==
  /\ Carry(stream, meant, Len(got) + Len(appReadBuf))
  /\ Count(stream, stored, tickets)
  /\ \A i \in 1..Len(stream) : Outcome(stream[i]) = EndOfFile => closed /\ i = Len(stream)

(* What was read is the beginning of what was written, and Read ends only  *)
(* with the stream.                                                        *)
Received ==
  /\ got \o appReadBuf = SubSeq(meant, 1, Len(got) + Len(appReadBuf))
  /\ status # "open" => appReadBuf = <<>>
  /\ status = "error" => torn
  /\ status = "eof" /\ ~torn => closed /\ stream = <<>>

StreamInv == TypeOK /\ Writing /\ UnderWay /\ Received

---------------------------------------------------------------------------
(* Records *)

(* A set of natural numbers with an element has a smallest one.            *)
LEMMA Lowest ==
  ASSUME NEW S, S \subseteq Nat, S # {}
  PROVE  \E x \in S : \A y \in S : x <= y
<1> DEFINE R == {p \in Nat \X Nat : p[1] < p[2]}
<1>1. OpToRel(<, Nat) = R
  BY DEF OpToRel
<1> HIDE DEF R
<1>2. IsWellFoundedOn(R, Nat)
  BY <1>1, NatLessThanWellFounded, Zenon
<1>3. PICK x \in S : \A y \in S : <<y, x>> \notin R
  BY <1>2, WFMin
<1>4. \A y \in S : x <= y
  <2> TAKE y \in S
  <2>1. <<y, x>> \in Nat \X Nat /\ <<y, x>>[1] = y /\ <<y, x>>[2] = x
    OBVIOUS
  <2> QED
    BY <1>3, <2>1 DEF R
<1> QED
  BY <1>4

(* A set of positions with an element has a last one.                      *)
LEMMA Highest ==
  ASSUME NEW n \in Nat, NEW I, I \subseteq 1..n, I # {}
  PROVE  Max(I) \in I /\ \A y \in I : y <= Max(I)
<1> DEFINE S == {k \in Nat : n - k \in I}
<1>1. S # {} /\ \A y \in I : n - y \in S
  <2>1. \A y \in I : n - y \in Nat /\ n - (n - y) = y
    OBVIOUS
  <2> QED
    BY <2>1
<1>2. PICK x \in S : \A y \in S : x <= y
  BY <1>1, Lowest
<1>3. \A y \in I : y <= n - x
  <2> TAKE y \in I
  <2>1. x <= n - y /\ y \in 1..n /\ x \in Nat
    BY <1>1, <1>2
  <2> QED
    BY <2>1
<1>4. n - x \in I
  BY <1>2
<1>5. \A z \in I : (\A y \in I : z >= y) => z = n - x
  <2> TAKE z \in I
  <2>1. z \in 1..n /\ n - x \in 1..n
    BY <1>4
  <2>2. (\A y \in I : z >= y) => z >= n - x
    BY <1>4
  <2>3. z <= n - x
    BY <1>3
  <2> QED
    BY <2>1, <2>2, <2>3
<1>6. \A y \in I : n - x >= y
  <2> TAKE y \in I
  <2>1. y \in 1..n /\ n - x \in 1..n /\ y <= n - x
    BY <1>3, <1>4
  <2> QED
    BY <2>1
<1> HIDE DEF S
<1>7. Max(I) = n - x
  BY <1>4, <1>5, <1>6 DEF Max
<1> QED
  BY <1>3, <1>4, <1>7

(* The last byte of a record that is not zero is one of its bytes.         *)
LEMMA Position ==
  ASSUME NEW d \in Seq(Byte)
  PROVE  /\ TypePosition(d) \in 0..Len(d)
         /\ HasInnerType(d) => /\ d[TypePosition(d)] # 0 /\ TypePosition(d) \in 1..Len(d)
                               /\ \A i \in 1..Len(d) : d[i] # 0 => i <= TypePosition(d)
<1> DEFINE I == {i \in 1..Len(d) : d[i] # 0}
<1>1. TypePosition(d) = IF I # {} THEN Max(I) ELSE 0
  BY DEF TypePosition, SelectLastInSeq
<1>2. CASE I = {}
  BY <1>1, <1>2 DEF HasInnerType
<1>3. CASE I # {}
  <2>1. Len(d) \in Nat /\ I \subseteq 1..Len(d)
    OBVIOUS
  <2>2. Max(I) \in I /\ \A y \in I : y <= Max(I)
    BY <1>3, <2>1, Highest
  <2> QED
    BY <1>1, <1>3, <2>2
<1> QED
  BY <1>2, <1>3

(* What a call of Read makes of any bytes is bytes, or none.               *)
LEMMA OutcomeTyped ==
  ASSUME NEW d \in Seq(Byte)
  PROVE  \/ \E b \in Seq(Byte) : Outcome(d) = Data(b)
         \/ Outcome(d) \in {Ticket, EndOfFile, Error}
<1>1. Content(d) \in Seq(Byte)
  <2> DEFINE k == TypePosition(d)
  <2>1. k \in 0..Len(d)
    BY Position
  <2> HIDE DEF k
  <2>2. SubSeq(d, 1, k - 1) \in Seq(Byte)
    <3>1. \A i \in 1..(k - 1) : d[i] \in Byte
      BY <2>1
    <3> QED
      BY <2>1, <3>1, SubSeqProperties
  <2> QED
    BY <2>2 DEF Content, k
<1>2. \A x : AlertOutcome(x) \in {EndOfFile, Error}
  BY DEF AlertOutcome
<1>3. ASSUME NEW x \in Seq(Byte)
      PROVE  \/ \E b \in Seq(Byte) : Unwrap(x) = Data(b)
             \/ Unwrap(x) \in {Ticket, EndOfFile, Error}
  <2>1. CASE x = <<>> \/ ~IsInnerTypeByte(Last(x))
    BY <2>1 DEF Unwrap
  <2>2. CASE ~(x = <<>> \/ ~IsInnerTypeByte(Last(x)))
    <3>1. Front(x) \in Seq(Byte)
      BY <2>2 DEF Front
    <3>2. CASE Last(x) = ApplicationData
      <4>1. Unwrap(x) = Data(Front(x))
        BY <2>2, <3>2 DEF Unwrap, ApplicationData, Alert, Handshake
      <4> QED
        BY <3>1, <4>1
    <3>3. CASE Last(x) # ApplicationData
      <4>1. Unwrap(x) \in {AlertOutcome(Front(x)), Ticket, Error}
        BY <2>2, <3>3, Zenon DEF Unwrap
      <4> QED
        BY <1>2, <4>1
    <3> QED
      BY <3>2, <3>3
  <2> QED
    BY <2>1, <2>2
<1> QED
  BY <1>1, <1>2, <1>3, Zenon DEF Outcome

(* The content type of a record of ours is found, and its content.         *)
LEMMA PlaintextRead ==
  ASSUME NEW content \in Seq(Byte), NEW type \in Byte \ {0}, NEW pad \in Nat
  PROVE  LET d == InnerPlaintext(content, type, pad)
         IN  /\ d \in Seq(Byte) /\ HasInnerType(d)
             /\ InnerType(d) = type /\ Content(d) = content
             /\ pad = 0 => d = Append(content, type)
<1> DEFINE a == Append(content, type)
           z == [i \in 1..pad |-> 0]
           d == a \o z
           k == Len(content) + 1
<1>1. /\ a \in Seq(Byte) /\ Len(a) = k /\ a[k] = type
      /\ \A i \in 1..Len(content) : a[i] = content[i]
  OBVIOUS
<1>2. z \in Seq(Byte) /\ Len(z) = pad /\ \A i \in 1..pad : z[i] = 0
  BY DEF Byte
<1> HIDE DEF a, z
<1>3. /\ d \in Seq(Byte) /\ Len(d) = k + pad
      /\ \A i \in 1..k + pad : d[i] = IF i <= k THEN a[i] ELSE z[i - k]
  <2>1. /\ d \in Seq(Byte) /\ Len(d) = Len(a) + Len(z)
        /\ \A i \in 1..Len(a) + Len(z) : d[i] = IF i <= Len(a) THEN a[i] ELSE z[i - Len(a)]
    BY <1>1, <1>2, ConcatProperties
  <2> QED
    BY <1>1, <1>2, <2>1
<1>4. k \in 1..Len(d) /\ d[k] = type /\ \A i \in 1..Len(d) : d[i] # 0 => i <= k
  BY <1>1, <1>2, <1>3
<1>5. \A i \in 1..Len(content) : d[i] = content[i]
  BY <1>1, <1>3
<1>6. pad = 0 => d = a
  BY <1>1, <1>2, <1>3
<1> HIDE DEF d
<1>7. HasInnerType(d)
  BY <1>4 DEF HasInnerType
<1>8. TypePosition(d) = k
  BY <1>3, <1>4, <1>7, Position
<1>9. Content(d) = content
  <2>1. SubSeq(d, 1, Len(content)) = content
    BY <1>3, <1>5
  <2> QED
    BY <1>8, <2>1 DEF Content
<1> QED
  BY <1>3, <1>4, <1>6, <1>7, <1>8, <1>9 DEF InnerPlaintext, InnerType, d, a, z

(* What is left without the byte at the end.                               *)
LEMMA ByteAppended ==
  ASSUME NEW t \in Seq(Byte), NEW x \in Byte
  PROVE  Append(t, x) # <<>> /\ Last(Append(t, x)) = x /\ Front(Append(t, x)) = t
<1> DEFINE d == Append(t, x)
<1>1. /\ d \in Seq(Byte) /\ Len(d) = Len(t) + 1 /\ d[Len(t) + 1] = x
      /\ \A i \in 1..Len(t) : d[i] = t[i]
  BY AppendProperties
<1> HIDE DEF d
<1>2. SubSeq(d, 1, Len(t)) = t
  BY <1>1
<1> QED
  BY <1>1, <1>2 DEF Last, Front, d

(* The records of a plain writer: data, tickets and close_notify.          *)
LEMMA OutcomesOfPlain ==
  /\ \A b \in Seq(Byte), pad \in Nat :
       b # <<>> /\ ~IsInnerTypeByte(b[Len(b)]) =>
         /\ Outcome(InnerPlaintext(b, ApplicationData, pad)) = Data(b)
         /\ InnerPlaintext(b, ApplicationData, pad) \in Seq(Byte)
  /\ Outcome(InnerPlaintext(<<NewSessionTicket, 97>>, Handshake, 0)) = Ticket
  /\ Outcome(InnerPlaintext(<<1, 0>>, Alert, 0)) = EndOfFile
<1>1. ASSUME NEW b \in Seq(Byte), NEW pad \in Nat,
             b # <<>>, ~IsInnerTypeByte(b[Len(b)])
      PROVE  /\ Outcome(InnerPlaintext(b, ApplicationData, pad)) = Data(b)
             /\ InnerPlaintext(b, ApplicationData, pad) \in Seq(Byte)
  <2> DEFINE d == InnerPlaintext(b, ApplicationData, pad)
  <2>1. ApplicationData \in Byte \ {0} /\ ApplicationData # Alert
    BY DEF ApplicationData, Byte, Alert
  <2>2. d \in Seq(Byte) /\ HasInnerType(d) /\ InnerType(d) = ApplicationData /\ Content(d) = b
    BY <2>1, PlaintextRead
  <2> HIDE DEF d
  <2>3. Outcome(d) = Unwrap(b)
    BY <2>1, <2>2, Zenon DEF Outcome
  <2>4. Unwrap(b) = Data(b)
    BY <1>1 DEF Unwrap, Last
  <2> QED
    BY <2>2, <2>3, <2>4 DEF d
<1>2. Outcome(InnerPlaintext(<<NewSessionTicket, 97>>, Handshake, 0)) = Ticket
  <2> DEFINE t == <<NewSessionTicket, 97>>
             d == InnerPlaintext(t, Handshake, 0)
  <2>1. t \in Seq(Byte) /\ Len(t) = 2 /\ t[1] = NewSessionTicket
    BY DEF NewSessionTicket, Byte
  <2>2. Handshake \in Byte \ {0} /\ Handshake # Alert /\ Handshake # ApplicationData
    BY DEF Handshake, Byte, Alert, ApplicationData
  <2> HIDE DEF t
  <2>3. d \in Seq(Byte) /\ InnerType(d) = Handshake /\ d = Append(t, Handshake)
    BY <2>1, <2>2, PlaintextRead
  <2> HIDE DEF d
  <2>4. Outcome(d) = Unwrap(d)
    BY <2>2, <2>3, Zenon DEF Outcome
  <2>5. d # <<>> /\ Last(d) = Handshake /\ Front(d) = t
    BY <2>1, <2>2, <2>3, ByteAppended
  <2>6. IsInnerTypeByte(Handshake) /\ ConsumesTickets(t)
    BY <2>1 DEF IsInnerTypeByte, Handshake, ConsumesTickets, ChangeCipherSpec, ApplicationData
  <2>7. Unwrap(d) = Ticket
    BY <2>2, <2>5, <2>6 DEF Unwrap
  <2> QED
    BY <2>4, <2>7 DEF d, t
<1>3. Outcome(InnerPlaintext(<<1, 0>>, Alert, 0)) = EndOfFile
  <2> DEFINE t == <<1, 0>>
             d == InnerPlaintext(t, Alert, 0)
  <2>1. t \in Seq(Byte) /\ Len(t) >= 2 /\ t[1] = 1 /\ t[2] = 0
    BY DEF Byte
  <2>2. Alert \in Byte \ {0}
    BY DEF Alert, Byte
  <2> HIDE DEF t
  <2>3. HasInnerType(d) /\ InnerType(d) = Alert /\ Content(d) = t
    BY <2>1, <2>2, PlaintextRead
  <2> HIDE DEF d
  <2>4. Outcome(d) = AlertOutcome(t)
    BY <2>3, Zenon DEF Outcome
  <2>5. AlertOutcome(t) = EndOfFile
    BY <2>1 DEF AlertOutcome
  <2> QED
    BY <2>4, <2>5 DEF d, t
<1> QED
  BY <1>1, <1>2, <1>3

---------------------------------------------------------------------------
(* The shape of the state *)

(* The buffer holds as many bytes as the application still means to send.  *)
Shape == TypeOK /\ Len(buffer) = Len(rest)

(* The pieces of a sequence.                                               *)
LEMMA Pieces ==
  ASSUME NEW s \in Seq(Byte), NEW k \in 0..Len(s)
  PROVE  /\ SubSeq(s, 1, k) \in Seq(Byte) /\ Len(SubSeq(s, 1, k)) = k
         /\ SubSeq(s, k + 1, Len(s)) \in Seq(Byte)
         /\ Len(SubSeq(s, k + 1, Len(s))) = Len(s) - k
         /\ \A i \in 1..k : SubSeq(s, 1, k)[i] = s[i]
         /\ \A i \in 1..Len(s) - k : SubSeq(s, k + 1, Len(s))[i] = s[k + i]
<1>1. \A i \in 1..Len(s) : s[i] \in Byte
  OBVIOUS
<1>2. /\ SubSeq(s, 1, k) \in Seq(Byte) /\ Len(SubSeq(s, 1, k)) = k
      /\ \A i \in 1..k : SubSeq(s, 1, k)[i] = s[i]
  BY <1>1, SubSeqProperties
<1>3. /\ SubSeq(s, k + 1, Len(s)) \in Seq(Byte)
      /\ Len(SubSeq(s, k + 1, Len(s))) = Len(s) - k
      /\ \A i \in 1..Len(s) - k : SubSeq(s, k + 1, Len(s))[i] = s[k + i]
  BY <1>1, SubSeqProperties
<1> QED
  BY <1>2, <1>3

(* A record of ours is bytes.                                              *)
LEMMA PlaintextTyped ==
  ASSUME NEW content \in Seq(Byte), NEW type \in {Alert, Handshake, ApplicationData},
         NEW pad \in Nat
  PROVE  InnerPlaintext(content, type, pad) \in Seq(Byte)
<1>1. type \in Byte \ {0}
  BY DEF Alert, Handshake, ApplicationData, Byte
<1> QED
  BY <1>1, PlaintextRead

(* What a step of the writer adds, and what is left, are bytes.            *)
LEMMA WriteShape ==
  ASSUME Shape, WriteStep PROVE Shape'
<1>1. ASSUME NEW m \in Messages, BeginMessage(m) PROVE Shape'
  <2>1. m \in Seq(Byte)
    BY StreamAssumption
  <2>2. messages + 1 \in 0..MaxMessages
    BY <1>1, StreamAssumption DEF BeginMessage, Shape, TypeOK
  <2> QED
    BY <1>1, <2>1, <2>2 DEF BeginMessage, Shape, TypeOK
<1>2. ASSUME NEW k \in 1..Len(rest), NEW pad \in 0..MaxPadding, Write(k, pad) PROVE Shape'
  <2> DEFINE chunk == SubSeq(buffer, 1, k)
             piece == SubSeq(rest, 1, k)
             left == SubSeq(buffer, k + 1, Len(buffer))
             more == SubSeq(rest, k + 1, Len(rest))
             d == InnerPlaintext(chunk, ApplicationData, pad)
  <2>1. /\ buffer \in Seq(Byte) /\ rest \in Seq(Byte) /\ meant \in Seq(Byte)
        /\ stream \in Seq(Seq(Byte)) /\ Len(buffer) = Len(rest)
        /\ k \in 0..Len(buffer) /\ k \in 0..Len(rest)
    BY DEF Shape, TypeOK
  <2>2. chunk \in Seq(Byte) /\ left \in Seq(Byte) /\ Len(left) = Len(buffer) - k
    BY <2>1, Pieces
  <2>3. piece \in Seq(Byte) /\ more \in Seq(Byte) /\ Len(more) = Len(rest) - k
    BY <2>1, Pieces
  <2>4. d \in Seq(Byte)
    <3>1. pad \in Nat
      BY StreamAssumption
    <3> QED
      BY <2>2, <3>1, PlaintextTyped, Zenon
  <2>5. AfterAppend(buffer, k) \in Seq(Byte) /\ Len(AfterAppend(buffer, k)) = Len(left)
    <3>1. AfterAppend(buffer, k) = IF InPlace /\ left # <<>>
                                     THEN [left EXCEPT ![1] = ApplicationData] ELSE left
      BY DEF AfterAppend
    <3>2. ApplicationData \in Byte
      BY DEF ApplicationData, Byte
    <3> HIDE DEF left
    <3> QED
      BY <2>2, <3>1, <3>2
  <2> HIDE DEF chunk, piece, left, more, d
  <2>6. Append(stream, d) \in Seq(Seq(Byte)) /\ meant \o piece \in Seq(Byte)
    BY <2>1, <2>3, <2>4
  <2>7. /\ stream' = Append(stream, d) /\ buffer' = AfterAppend(buffer, k)
        /\ meant' = meant \o piece /\ rest' = more
        /\ UNCHANGED <<messages, closed, appReadBuf, got, status, torn, tickets, stored, timeouts>>
    BY <1>2 DEF Write, chunk, piece, more, d
  <2> QED
    BY <2>1, <2>2, <2>3, <2>5, <2>6, <2>7 DEF Shape, TypeOK
<1>3. ASSUME NEW pad \in 0..TicketPadding, SendTicket(pad) PROVE Shape'
  <2> DEFINE d == InnerPlaintext(<<NewSessionTicket, 97>>, Handshake, pad)
  <2>1. d \in Seq(Byte)
    <3>1. <<NewSessionTicket, 97>> \in Seq(Byte)
      BY DEF NewSessionTicket, Byte
    <3>2. pad \in Nat
      BY StreamAssumption
    <3> QED
      BY <3>1, <3>2, PlaintextTyped, Zenon
  <2> HIDE DEF d
  <2>2. stream' = Append(stream, d) /\ tickets' = tickets + 1 /\ tickets < MaxTickets
    BY <1>3 DEF SendTicket, d
  <2>3. stream' \in Seq(Seq(Byte)) /\ tickets' \in 0..MaxTickets
    <3>1. stream \in Seq(Seq(Byte)) /\ tickets \in 0..MaxTickets /\ MaxTickets \in Nat
      BY StreamAssumption DEF Shape, TypeOK
    <3>2. stream' \in Seq(Seq(Byte))
      BY <2>1, <2>2, <3>1
    <3>3. tickets + 1 \in 0..MaxTickets
      BY <2>2, <3>1
    <3> QED
      BY <2>2, <3>2, <3>3
  <2> QED
    BY <1>3, <2>3 DEF SendTicket, Shape, TypeOK, writer
<1>4. CASE CloseWriter
  <2> DEFINE d == InnerPlaintext(<<1, 0>>, Alert, 0)
  <2>1. d \in Seq(Byte)
    <3>1. <<1, 0>> \in Seq(Byte)
      BY DEF Byte
    <3> QED
      BY <3>1, PlaintextTyped
  <2> HIDE DEF d
  <2>2. stream' = stream \/ stream' = Append(stream, d)
    BY <1>4 DEF CloseWriter, d
  <2>3. stream' \in Seq(Seq(Byte))
    <3>1. stream \in Seq(Seq(Byte))
      BY DEF Shape, TypeOK
    <3>2. Append(stream, d) \in Seq(Seq(Byte))
      BY <2>1, <3>1
    <3> QED
      BY <2>2, <3>1, <3>2
  <2> QED
    BY <1>4, <2>3 DEF CloseWriter, Shape, TypeOK, writer
<1> QED
  BY <1>1, <1>2, <1>3, <1>4 DEF WriteStep

(* What Read returns and keeps is bytes.                                   *)
LEMMA TakeTyped ==
  ASSUME NEW n \in ReadSizes, NEW b \in Seq(Byte), got \in Seq(Byte), Take(n, b)
  PROVE  \E k \in 0..Len(b) : /\ got' = got \o SubSeq(b, 1, k) /\ got' \in Seq(Byte)
                             /\ appReadBuf' = SubSeq(b, k + 1, Len(b))
                             /\ appReadBuf' \in Seq(Byte)
<1> DEFINE k == IF n < Len(b) THEN n ELSE Len(b)
<1>1. k \in 0..Len(b) /\ n \in Nat
  BY StreamAssumption
<1>2. SubSeq(b, n + 1, Len(b)) = SubSeq(b, k + 1, Len(b))
  <2>1. CASE n < Len(b)
    BY <2>1
  <2>2. CASE ~(n < Len(b))
    <3>1. /\ Len(b) < n + 1 /\ Len(b) < k + 1
          /\ Len(b) \in Int /\ n + 1 \in Int /\ k + 1 \in Int /\ 1 \in Int
      BY <1>1, <2>2
    <3> HIDE DEF k
    <3>2. SubSeq(b, n + 1, Len(b)) = <<>>
      BY <3>1, SubSeqEmpty
    <3>3. SubSeq(b, k + 1, Len(b)) = <<>>
      BY <3>1, SubSeqEmpty
    <3> QED
      BY <3>2, <3>3
  <2> QED
    BY <2>1, <2>2
<1>3. got' = got \o SubSeq(b, 1, k) /\ appReadBuf' = SubSeq(b, k + 1, Len(b))
  BY <1>2 DEF Take
<1> HIDE DEF k
<1>4. SubSeq(b, 1, k) \in Seq(Byte) /\ SubSeq(b, k + 1, Len(b)) \in Seq(Byte)
  BY <1>1, Pieces
<1>5. got \o SubSeq(b, 1, k) \in Seq(Byte)
  BY <1>4, ConcatProperties
<1> QED
  BY <1>1, <1>3, <1>4, <1>5


(* What is left of the records is records.                                 *)
LEMMA HeadAndTail ==
  ASSUME stream \in Seq(Seq(Byte)), stream # <<>>
  PROVE  /\ Head(stream) \in Seq(Byte) /\ Tail(stream) \in Seq(Seq(Byte))
         /\ Len(Tail(stream)) = Len(stream) - 1 /\ Head(stream) = stream[1]
         /\ \A i \in 1..Len(stream) - 1 : Tail(stream)[i] = stream[i + 1]
  OBVIOUS

(* The reader's steps, and those of neither.                               *)
LEMMA ReadShape ==
  ASSUME Shape, ReadStep \/ Timeout \/ UNCHANGED vars PROVE Shape'
<1>1. ASSUME NEW n \in ReadSizes, ReadBuffered(n) PROVE Shape'
  <2>1. got' \in Seq(Byte) /\ appReadBuf' \in Seq(Byte)
    BY <1>1, TakeTyped DEF ReadBuffered, Shape, TypeOK
  <2> QED
    BY <1>1, <2>1 DEF ReadBuffered, Shape, TypeOK, writer
<1>2. ASSUME NEW n \in ReadSizes, ReadData(n) PROVE Shape'
  <2>1. stream \in Seq(Seq(Byte)) /\ stream # <<>> /\ got \in Seq(Byte)
    BY <1>2 DEF ReadData, Reading, Shape, TypeOK
  <2>2. Head(stream) \in Seq(Byte) /\ Tail(stream) \in Seq(Seq(Byte))
    BY <2>1, HeadAndTail
  <2>3. PICK b \in Seq(Byte) : Outcome(Head(stream)) = Data(b)
    <3>1. Outcome(Head(stream)).kind = "data"
      BY <1>2 DEF ReadData
    <3> QED
      BY <2>2, <3>1, OutcomeTyped DEF Ticket, EndOfFile, Error
  <2>4. Take(n, b)
    BY <1>2, <2>3 DEF ReadData, Data
  <2>5. got' \in Seq(Byte) /\ appReadBuf' \in Seq(Byte)
    BY <2>1, <2>4, TakeTyped
  <2> QED
    BY <1>2, <2>2, <2>5 DEF ReadData, Shape, TypeOK, writer
<1>3. CASE ReadTicket
  <2>1. Tail(stream) \in Seq(Seq(Byte))
    BY <1>3, HeadAndTail DEF ReadTicket, Reading, Shape, TypeOK
  <2> QED
    BY <1>3, <2>1 DEF ReadTicket, Shape, TypeOK, writer
<1>4. CASE ReadFails
  <2>1. Tail(stream) \in Seq(Seq(Byte))
    BY <1>4, HeadAndTail DEF ReadFails, Reading, Shape, TypeOK
  <2> QED
    BY <1>4, <2>1 DEF ReadFails, Shape, TypeOK, writer
<1>5. CASE ReadEnd \/ ReadTorn
  BY <1>5 DEF ReadEnd, ReadTorn, Shape, TypeOK, writer
<1>6. CASE Timeout
  BY <1>6, StreamAssumption DEF Timeout, Shape, TypeOK, writer
<1>7. CASE UNCHANGED vars
  BY <1>7 DEF vars, writer, Shape, TypeOK
<1> QED
  BY <1>1, <1>2, <1>3, <1>4, <1>5, <1>6, <1>7 DEF ReadStep

(* At the start nothing is written.                                        *)
LEMMA ShapeInit == Init => Shape
<1> SUFFICES ASSUME Init PROVE Shape
  OBVIOUS
<1>1. \A S : <<>> \in Seq(S)
  OBVIOUS
<1>2. 0 \in 0..MaxMessages /\ 0 \in 0..MaxTickets /\ 0 \in 0..MaxTimeouts
  BY StreamAssumption
<1> QED
  BY <1>1, <1>2 DEF Init, Shape, TypeOK

(* Every step keeps the shape.                                             *)
LEMMA ShapeStep == Shape /\ [Next]_vars => Shape'
  BY WriteShape, ReadShape DEF Next, Terminated

(* Whatever the messages are made of, what is written, under way, read and *)
(* kept is bytes, and every bound is kept (conn.go:655-740, 908-934).      *)
THEOREM StreamTypeCorrect == Spec => []TypeOK
<1>1. Shape => TypeOK
  BY DEF Shape
<1> QED
  BY <1>1, ShapeInit, ShapeStep, PTL DEF Spec

---------------------------------------------------------------------------
(* The stream *)

(* Two pieces of a sequence that follow each other.                        *)
LEMMA Rejoined ==
  ASSUME NEW m \in Seq(Byte), NEW a \in Nat, NEW b \in Nat, a <= b, b <= Len(m)
  PROVE  /\ SubSeq(m, 1, a) \o SubSeq(m, a + 1, b) = SubSeq(m, 1, b)
         /\ SubSeq(m, a + 1, b) \in Seq(Byte) /\ Len(SubSeq(m, a + 1, b)) = b - a
<1>1. \A i \in 1..Len(m) : m[i] \in Byte
  OBVIOUS
<1>2. SubSeq(m, a + 1, b) \in Seq(Byte) /\ Len(SubSeq(m, a + 1, b)) = b - a
  BY <1>1, SubSeqProperties
<1>3. 1 \in 1..Len(m) + 1 /\ a \in 1 - 1..Len(m) /\ b \in a..Len(m)
  OBVIOUS
<1>4. SubSeq(m, 1, a) \o SubSeq(m, a + 1, b) = SubSeq(m, 1, b)
  BY <1>3, ConcatAdjacentSubSeq
<1> QED
  BY <1>2, <1>4

(* What is already written stays where it is.                              *)
LEMMA SamePiece ==
  ASSUME NEW m \in Seq(Byte), NEW p \in Seq(Byte), NEW a \in 0..Len(m), NEW b \in 0..Len(m)
  PROVE  SubSeq(m \o p, a + 1, b) = SubSeq(m, a + 1, b)
<1> DEFINE w == m \o p
<1>1. /\ w \in Seq(Byte) /\ Len(w) = Len(m) + Len(p)
      /\ \A i \in 1..Len(m) : w[i] = m[i] /\ w[i] \in Byte /\ m[i] \in Byte
  OBVIOUS
<1> HIDE DEF w
<1>2. /\ SubSeq(w, a + 1, b) \in Seq(Byte)
      /\ Len(SubSeq(w, a + 1, b)) = IF a + 1 <= b THEN b - (a + 1) + 1 ELSE 0
      /\ \A i \in 1..b - (a + 1) + 1 : SubSeq(w, a + 1, b)[i] = w[a + 1 + i - 1]
  <2>1. \A i \in a + 1..b : w[i] \in Byte
    BY <1>1
  <2> QED
    BY <2>1, SubSeqProperties
<1>3. /\ SubSeq(m, a + 1, b) \in Seq(Byte)
      /\ Len(SubSeq(m, a + 1, b)) = IF a + 1 <= b THEN b - (a + 1) + 1 ELSE 0
      /\ \A i \in 1..b - (a + 1) + 1 : SubSeq(m, a + 1, b)[i] = m[a + 1 + i - 1]
  <2>1. \A i \in a + 1..b : m[i] \in Byte
    BY <1>1
  <2> QED
    BY <2>1, SubSeqProperties
<1> DEFINE x == SubSeq(w, a + 1, b)
           y == SubSeq(m, a + 1, b)
<1>4. Len(x) = Len(y) /\ \A i \in 1..Len(x) : x[i] = y[i]
  <2>1. Len(x) = Len(y)
    BY <1>2, <1>3
  <2>2. ASSUME NEW i \in 1..Len(x) PROVE x[i] = y[i]
    <3>1. /\ i \in 1..b - (a + 1) + 1 /\ x[i] = w[a + 1 + i - 1] /\ y[i] = m[a + 1 + i - 1]
      BY <1>2, <1>3
    <3>2. a + 1 + i - 1 \in 1..Len(m)
      BY <1>2, <3>1
    <3> QED
      BY <1>1, <3>1, <3>2
  <2> QED
    BY <2>1, <2>2
<1>5. x \in Seq(Byte) /\ y \in Seq(Byte)
  BY <1>2, <1>3
<1> HIDE DEF x, y
<1>6. x = y
  BY <1>4, <1>5
<1> QED
  BY <1>6 DEF x, y, w

(* What is added is at the end.                                            *)
LEMMA AppendedPiece ==
  ASSUME NEW m \in Seq(Byte), NEW p \in Seq(Byte)
  PROVE  SubSeq(m \o p, Len(m) + 1, Len(m \o p)) = p
<1> DEFINE w == m \o p
           k == Len(m)
           x == SubSeq(w, k + 1, Len(w))
<1>1. /\ w \in Seq(Byte) /\ Len(w) = k + Len(p) /\ k \in Nat /\ Len(p) \in Nat
      /\ \A i \in 1..Len(p) : w[k + i] = p[i]
  OBVIOUS
<1> HIDE DEF w, k
<1>2. k \in 0..Len(w)
  BY <1>1
<1>3. x \in Seq(Byte) /\ Len(x) = Len(w) - k /\ \A i \in 1..Len(w) - k : x[i] = w[k + i]
  BY <1>1, <1>2, Pieces
<1> HIDE DEF x
<1>4. Len(x) = Len(p) /\ \A i \in 1..Len(p) : x[i] = p[i]
  BY <1>1, <1>3
<1>5. x = p
  BY <1>3, <1>4
<1> QED
  BY <1>5 DEF x, w, k

(* A record is added to those under way, with the bytes p it carries.      *)
LEMMA CarryAppended ==
  ASSUME NEW s \in Seq(Seq(Byte)), NEW m \in Seq(Byte), NEW q \in Nat, Carry(s, m, q),
         NEW d \in Seq(Byte), NEW p \in Seq(Byte),
         Outcome(d) = Data(p) \/ (p = <<>> /\ Outcome(d) \in {Ticket, EndOfFile})
  PROVE  Carry(Append(s, d), m \o p, q)
<1> DEFINE n == Len(s)
           t == Append(s, d)
           w == m \o p
<1>1. PICK at \in [1..n + 1 -> 0..Len(m)] :
        /\ at[1] = q /\ at[n + 1] = Len(m)
        /\ \A i \in 1..n : Carries(m, Outcome(s[i]), at[i], at[i + 1])
  BY DEF Carry
<1>2. n \in Nat /\ Len(t) = n + 1 /\ t[n + 1] = d /\ \A i \in 1..n : t[i] = s[i]
  OBVIOUS
<1>3. /\ w \in Seq(Byte) /\ Len(w) = Len(m) + Len(p) /\ Len(m) \in Nat /\ Len(p) \in Nat
  OBVIOUS
<1>4. \A a, b \in 0..Len(m) : SubSeq(w, a + 1, b) = SubSeq(m, a + 1, b)
  BY SamePiece
<1>5. SubSeq(w, Len(m) + 1, Len(w)) = p
  BY AppendedPiece
<1>6. p = <<>> => Len(w) = Len(m)
  BY <1>3
<1> HIDE DEF n, t, w
<1> DEFINE to == [i \in 1..n + 2 |-> IF i <= n + 1 THEN at[i] ELSE Len(w)]
<1>7. to \in [1..Len(t) + 1 -> 0..Len(w)]
  <2>1. \A i \in 1..n + 2 : (IF i <= n + 1 THEN at[i] ELSE Len(w)) \in 0..Len(w)
    <3> TAKE i \in 1..n + 2
    <3>1. i <= n + 1 => at[i] \in 0..Len(m)
      BY <1>1, <1>2
    <3> QED
      BY <1>2, <1>3, <3>1
  <2>2. Len(t) + 1 = n + 2
    BY <1>2
  <2> QED
    BY <2>1, <2>2
<1>8. /\ to[1] = q /\ to[n + 1] = Len(m) /\ to[n + 2] = Len(w)
      /\ \A i \in 1..n + 1 : to[i] = at[i]
  BY <1>1, <1>2
<1> HIDE DEF to
<1>9. ASSUME NEW i \in 1..n + 1 PROVE Carries(w, Outcome(t[i]), to[i], to[i + 1])
  <2>1. CASE i \in 1..n
    <3>1. Carries(m, Outcome(s[i]), at[i], at[i + 1])
      BY <1>1, <2>1
    <3>2. i + 1 \in 1..n + 1
      BY <1>2, <2>1
    <3>3. at[i] \in 0..Len(m) /\ at[i + 1] \in 0..Len(m)
      BY <1>1, <3>2
    <3>4. SubSeq(w, at[i] + 1, at[i + 1]) = SubSeq(m, at[i] + 1, at[i + 1])
      BY <1>4, <3>3
    <3>5. Carries(w, Outcome(s[i]), at[i], at[i + 1])
      BY <3>1, <3>4 DEF Carries
    <3> QED
      BY <1>2, <1>8, <2>1, <3>2, <3>5
  <2>2. CASE i = n + 1
    <3>1. to[i] = Len(m) /\ to[i + 1] = Len(w) /\ t[i] = d
      BY <1>2, <1>8, <2>2
    <3>2. Len(m) <= Len(w)
      BY <1>3
    <3>3. Carries(w, Outcome(d), Len(m), Len(w))
      BY <1>5, <1>6, <3>2 DEF Carries
    <3> QED
      BY <3>1, <3>3
  <2>3. i \in 1..n \/ i = n + 1
    BY <1>2
  <2> QED
    BY <2>1, <2>2, <2>3
<1>10. to[Len(t) + 1] = Len(w) /\ Len(t) = n + 1
  BY <1>2, <1>8
<1>11. Carry(t, w, q)
  BY <1>7, <1>8, <1>9, <1>10 DEF Carry
<1> QED
  BY <1>11 DEF t, w

(* The first record carries the next bytes, the others those after them.   *)
LEMMA CarryTail ==
  ASSUME NEW s \in Seq(Seq(Byte)), s # <<>>, NEW m \in Seq(Byte), NEW q, Carry(s, m, q)
  PROVE  /\ q \in 0..Len(m)
         /\ \E b \in 0..Len(m) : Carries(m, Outcome(Head(s)), q, b) /\ Carry(Tail(s), m, b)
<1> DEFINE n == Len(s)
           t == Tail(s)
<1>1. PICK at \in [1..n + 1 -> 0..Len(m)] :
        /\ at[1] = q /\ at[n + 1] = Len(m)
        /\ \A i \in 1..n : Carries(m, Outcome(s[i]), at[i], at[i + 1])
  BY DEF Carry
<1>2. /\ n \in Nat \ {0} /\ Len(t) = n - 1 /\ Head(s) = s[1]
      /\ \A i \in 1..n - 1 : t[i] = s[i + 1]
  OBVIOUS
<1> HIDE DEF n, t
<1> DEFINE to == [i \in 1..n |-> at[i + 1]]
<1>3. \A i \in 1..n : i + 1 \in 1..n + 1 /\ at[i + 1] \in 0..Len(m)
  <2> TAKE i \in 1..n
  <2>1. i + 1 \in 1..n + 1
    BY <1>2
  <2> QED
    BY <1>1, <2>1
<1>4. to \in [1..Len(t) + 1 -> 0..Len(m)]
  <2>1. Len(t) + 1 = n
    BY <1>2
  <2> QED
    BY <1>3, <2>1
<1>5. to[1] = at[2] /\ to[Len(t) + 1] = Len(m)
  BY <1>1, <1>2
<1>6. ASSUME NEW i \in 1..Len(t) PROVE Carries(m, Outcome(t[i]), to[i], to[i + 1])
  <2>1. i \in 1..n /\ i + 1 \in 1..n /\ t[i] = s[i + 1] /\ i + 1 + 1 = i + 2
    BY <1>2
  <2>2. to[i] = at[i + 1] /\ to[i + 1] = at[i + 1 + 1]
    BY <2>1
  <2>3. Carries(m, Outcome(s[i + 1]), at[i + 1], at[i + 1 + 1])
    BY <1>1, <2>1
  <2> QED
    BY <2>1, <2>2, <2>3
<1> HIDE DEF to
<1>7. Carry(t, m, at[2])
  BY <1>4, <1>5, <1>6 DEF Carry
<1>8. 1 \in 1..n /\ 1 \in 1..n + 1 /\ at[1] \in 0..Len(m) /\ at[2] \in 0..Len(m)
  BY <1>1, <1>2, <1>3
<1>9. Carries(m, Outcome(Head(s)), q, at[2])
  BY <1>1, <1>2, <1>8
<1> QED
  BY <1>1, <1>7, <1>8, <1>9 DEF t

(* What is under way begins somewhere in what was written.                 *)
LEMMA CarryStart ==
  ASSUME NEW s \in Seq(Seq(Byte)), NEW m \in Seq(Byte), NEW q, Carry(s, m, q)
  PROVE  q \in 0..Len(m)
<1>1. PICK at \in [1..Len(s) + 1 -> 0..Len(m)] : at[1] = q
  BY DEF Carry
<1>2. Len(s) \in Nat
  OBVIOUS
<1>3. 1 \in 1..Len(s) + 1
  BY <1>2
<1> QED
  BY <1>1, <1>3

(* When nothing is under way, everything was read.                         *)
LEMMA CarryNone ==
  ASSUME NEW m \in Seq(Byte), NEW q PROVE Carry(<<>>, m, q) <=> q = Len(m)
<1>1. Len(<<>>) = 0 /\ Len(m) \in 0..Len(m)
  OBVIOUS
<1>2. ASSUME q = Len(m) PROVE Carry(<<>>, m, q)
  <2> DEFINE to == [i \in 1..1 |-> Len(m)]
  <2>1. to \in [1..1 -> 0..Len(m)] /\ to[1] = Len(m)
    BY <1>1
  <2> HIDE DEF to
  <2>2. to \in [1..Len(<<>>) + 1 -> 0..Len(m)] /\ to[Len(<<>>) + 1] = Len(m)
    BY <1>1, <2>1
  <2> QED
    BY <1>1, <1>2, <2>1, <2>2 DEF Carry
<1>3. ASSUME Carry(<<>>, m, q) PROVE q = Len(m)
  BY <1>1, <1>3 DEF Carry
<1> QED
  BY <1>2, <1>3

(* A record is added to those under way: it is a ticket or it is not.      *)
LEMMA CountAppended ==
  ASSUME NEW s \in Seq(Seq(Byte)), NEW p \in Nat, NEW q \in Nat, Count(s, p, q),
         NEW d \in Seq(Byte)
  PROVE  Count(Append(s, d), p, q + (IF Outcome(d) = Ticket THEN 1 ELSE 0))
<1> DEFINE n == Len(s)
           t == Append(s, d)
           One(i) == IF Outcome(t[i]) = Ticket THEN 1 ELSE 0
           r == q + (IF Outcome(d) = Ticket THEN 1 ELSE 0)
<1>1. PICK c \in [1..n + 1 -> 0..q] :
        /\ c[1] = p /\ c[n + 1] = q
        /\ \A i \in 1..n : c[i + 1] = c[i] + (IF Outcome(s[i]) = Ticket THEN 1 ELSE 0)
  BY DEF Count
<1>2. n \in Nat /\ Len(t) = n + 1 /\ t[n + 1] = d /\ \A i \in 1..n : t[i] = s[i]
  OBVIOUS
<1> HIDE DEF t
<1>3. /\ \A i \in 1..n : c[i + 1] = c[i] + One(i)
      /\ r = q + One(n + 1) /\ One(n + 1) \in {0, 1}
  BY <1>1, <1>2
<1> HIDE DEF n, One, r
<1>4. r \in Nat /\ q <= r
  BY <1>3
<1> DEFINE to == [i \in 1..n + 2 |-> IF i <= n + 1 THEN c[i] ELSE r]
<1>5. to \in [1..Len(t) + 1 -> 0..r]
  <2>1. \A i \in 1..n + 2 : (IF i <= n + 1 THEN c[i] ELSE r) \in 0..r
    <3> TAKE i \in 1..n + 2
    <3>1. i <= n + 1 => c[i] \in 0..q
      BY <1>1, <1>2
    <3> QED
      BY <1>2, <1>4, <3>1
  <2>2. Len(t) + 1 = n + 2
    BY <1>2
  <2> QED
    BY <2>1, <2>2
<1>6. /\ to[1] = p /\ to[n + 1] = q /\ to[n + 2] = r
      /\ \A i \in 1..n + 1 : to[i] = c[i]
  BY <1>1, <1>2
<1> HIDE DEF to
<1>7. ASSUME NEW i \in 1..n + 1 PROVE to[i + 1] = to[i] + One(i)
  <2>1. CASE i \in 1..n
    <3>1. i + 1 \in 1..n + 1 /\ i \in 1..n + 1
      BY <1>2, <2>1
    <3> QED
      BY <1>3, <1>6, <2>1, <3>1
  <2>2. CASE i = n + 1
    <3>1. i + 1 = n + 2
      BY <1>2, <2>2
    <3> QED
      BY <1>3, <1>6, <2>2, <3>1
  <2>3. i \in 1..n \/ i = n + 1
    BY <1>2
  <2> QED
    BY <2>1, <2>2, <2>3
<1>8. to[Len(t) + 1] = r /\ Len(t) = n + 1
  BY <1>2, <1>6
<1>9. Count(t, p, r)
  BY <1>5, <1>6, <1>7, <1>8 DEF Count, One
<1> QED
  BY <1>9 DEF t, r

(* The first record is a ticket or it is not; the others are counted on.   *)
LEMMA CountTail ==
  ASSUME NEW s \in Seq(Seq(Byte)), s # <<>>, NEW p, NEW q \in Nat, Count(s, p, q)
  PROVE  Count(Tail(s), p + (IF Outcome(Head(s)) = Ticket THEN 1 ELSE 0), q)
<1> DEFINE n == Len(s)
           t == Tail(s)
           r == p + (IF Outcome(Head(s)) = Ticket THEN 1 ELSE 0)
<1>1. PICK c \in [1..n + 1 -> 0..q] :
        /\ c[1] = p /\ c[n + 1] = q
        /\ \A i \in 1..n : c[i + 1] = c[i] + (IF Outcome(s[i]) = Ticket THEN 1 ELSE 0)
  BY DEF Count
<1>2. /\ n \in Nat \ {0} /\ Len(t) = n - 1 /\ Head(s) = s[1]
      /\ \A i \in 1..n - 1 : t[i] = s[i + 1]
  OBVIOUS
<1> HIDE DEF n, t
<1> DEFINE to == [i \in 1..n |-> c[i + 1]]
<1>3. \A i \in 1..n : i + 1 \in 1..n + 1 /\ c[i + 1] \in 0..q
  <2> TAKE i \in 1..n
  <2>1. i + 1 \in 1..n + 1
    BY <1>2
  <2> QED
    BY <1>1, <2>1
<1>4. to \in [1..Len(t) + 1 -> 0..q]
  <2>1. Len(t) + 1 = n
    BY <1>2
  <2> QED
    BY <1>3, <2>1
<1>5. to[1] = r /\ to[Len(t) + 1] = q
  <2>1. 1 \in 1..n /\ c[1 + 1] = c[1] + (IF Outcome(s[1]) = Ticket THEN 1 ELSE 0)
    BY <1>1, <1>2
  <2>2. to[1] = c[1 + 1]
    BY <2>1
  <2>3. to[1] = r
    BY <1>1, <1>2, <2>1, <2>2
  <2>4. to[n] = c[n + 1] /\ Len(t) + 1 = n
    BY <1>2
  <2> QED
    BY <1>1, <2>3, <2>4
<1>6. ASSUME NEW i \in 1..Len(t)
      PROVE  to[i + 1] = to[i] + (IF Outcome(t[i]) = Ticket THEN 1 ELSE 0)
  <2>1. i \in 1..n /\ i + 1 \in 1..n /\ t[i] = s[i + 1]
    BY <1>2
  <2>2. to[i] = c[i + 1] /\ to[i + 1] = c[i + 1 + 1]
    BY <2>1
  <2> QED
    BY <1>1, <2>1, <2>2
<1> HIDE DEF to, r
<1>7. Count(t, r, q)
  BY <1>4, <1>5, <1>6 DEF Count
<1> QED
  BY <1>7 DEF t, r

(* When nothing is under way, every ticket was stored.                     *)
LEMMA CountNone ==
  ASSUME NEW q \in Nat, NEW p PROVE Count(<<>>, p, q) <=> p = q
<1>1. Len(<<>>) = 0 /\ q \in 0..q
  OBVIOUS
<1>2. ASSUME p = q PROVE Count(<<>>, p, q)
  <2> DEFINE to == [i \in 1..1 |-> q]
  <2>1. to \in [1..1 -> 0..q] /\ to[1] = q
    BY <1>1
  <2> HIDE DEF to
  <2>2. to \in [1..Len(<<>>) + 1 -> 0..q] /\ to[Len(<<>>) + 1] = q
    BY <1>1, <2>1
  <2> QED
    BY <1>1, <1>2, <2>1, <2>2 DEF Count
<1>3. ASSUME Count(<<>>, p, q) PROVE p = q
  BY <1>1, <1>3 DEF Count
<1> QED
  BY <1>2, <1>3

(* Pieces may be joined in any order.                                      *)
LEMMA Associative ==
  ASSUME NEW s \in Seq(Byte), NEW t \in Seq(Byte), NEW u \in Seq(Byte)
  PROVE  (s \o t) \o u = s \o (t \o u)
<1> DEFINE S == Byte
<1>1. s \in Seq(S) /\ t \in Seq(S) /\ u \in Seq(S)
  OBVIOUS
<1> HIDE DEF S
<1> QED
  BY <1>1, ConcatAssociative

(* What Read returns and keeps is what it had and what it took.            *)
LEMMA TakeJoined ==
  ASSUME NEW n \in ReadSizes, NEW b \in Seq(Byte), got \in Seq(Byte), Take(n, b)
  PROVE  /\ got' \o appReadBuf' = got \o b
         /\ Len(got') + Len(appReadBuf') = Len(got) + Len(b)
<1>1. PICK k \in 0..Len(b) :
        /\ got' = got \o SubSeq(b, 1, k) /\ got' \in Seq(Byte)
        /\ appReadBuf' = SubSeq(b, k + 1, Len(b)) /\ appReadBuf' \in Seq(Byte)
  BY TakeTyped
<1> DEFINE x == SubSeq(b, 1, k)
           y == SubSeq(b, k + 1, Len(b))
<1>2. /\ x \in Seq(Byte) /\ Len(x) = k /\ y \in Seq(Byte) /\ Len(y) = Len(b) - k
  BY Pieces
<1>3. x \o y = b
  <2>1. SubSeq(b, 1, Len(b)) = b
    BY SubSeqFull
  <2>2. k \in Nat /\ Len(b) \in Nat /\ k <= Len(b) /\ Len(b) <= Len(b)
    OBVIOUS
  <2>3. SubSeq(b, 1, k) \o SubSeq(b, k + 1, Len(b)) = SubSeq(b, 1, Len(b))
    BY <2>2, Rejoined, Zenon
  <2> QED
    BY <2>1, <2>3, Zenon
<1> HIDE DEF x, y
<1>4. (got \o x) \o y = got \o (x \o y)
  <2>1. got \in Seq(Byte) /\ x \in Seq(Byte) /\ y \in Seq(Byte)
    BY <1>2
  <2> QED
    BY <2>1, Associative
<1>5. Len(got \o x) = Len(got) + Len(x) /\ Len(got) \in Nat
  <2>1. got \in Seq(Byte) /\ x \in Seq(Byte)
    BY <1>2
  <2>2. Len(got \o x) = Len(got) + Len(x)
    BY <2>1, ConcatProperties, Zenon
  <2> QED
    BY <2>1, <2>2
<1>6. got' = got \o x /\ appReadBuf' = y
  BY <1>1 DEF x, y
<1>7. got' \o appReadBuf' = got \o b
  BY <1>3, <1>4, <1>6
<1>8. Len(got') + Len(appReadBuf') = Len(got) + Len(b)
  <2>1. Len(got') = Len(got) + k /\ Len(appReadBuf') = Len(b) - k /\ Len(b) \in Nat
    BY <1>2, <1>5, <1>6
  <2> QED
    BY <1>5, <2>1
<1> QED
  BY <1>7, <1>8

---------------------------------------------------------------------------
(* The invariant, without the shape of the state *)

Flow == Writing /\ UnderWay /\ Received

(* At the start nothing is under way.                                      *)
LEMMA FlowInit == Init => Flow
<1> SUFFICES ASSUME Init PROVE Flow
  OBVIOUS
<1>1. /\ buffer = <<>> /\ rest = <<>> /\ meant = <<>> /\ stream = <<>> /\ got = <<>>
      /\ appReadBuf = <<>> /\ status = "open" /\ stored = 0 /\ tickets = 0
  BY DEF Init
<1>2. \A S : <<>> \in Seq(S)
  OBVIOUS
<1>3. Len(<<>>) = 0 /\ 1..0 = {}
  OBVIOUS
<1>4. Carry(<<>>, <<>>, 0) /\ Count(<<>>, 0, 0)
  BY <1>2, <1>3, CarryNone, CountNone
<1>5. Writing /\ UnderWay
  BY <1>1, <1>3, <1>4 DEF Writing, UnderWay
<1>6. <<>> \o <<>> = <<>> /\ SubSeq(<<>>, 1, 0) = <<>>
  OBVIOUS
<1>7. Received
  BY <1>1, <1>3, <1>6 DEF Received
<1> QED
  BY <1>5, <1>7 DEF Flow

(* The application fills its buffer with bytes that are no content type.   *)
LEMMA BeginFlow ==
  ASSUME Plain, TypeOK, Flow, NEW m \in Messages, BeginMessage(m) PROVE Flow'
<1>1. Writing'
  BY DEF Plain, BeginMessage, Writing
<1>2. UnderWay' /\ Received'
  BY DEF Flow, UnderWay, Received, BeginMessage
<1> QED
  BY <1>1, <1>2 DEF Flow

(* A step that adds a record d, which carries p, to what is under way.     *)
LEMMA Sends ==
  ASSUME TypeOK, TypeOK', UnderWay, Received, ~closed,
         NEW d \in Seq(Byte), NEW p \in Seq(Byte),
         Outcome(d) = Data(p) \/ (p = <<>> /\ Outcome(d) \in {Ticket, EndOfFile}),
         stream' = Append(stream, d), meant' = meant \o p,
         tickets' = tickets + (IF Outcome(d) = Ticket THEN 1 ELSE 0),
         Outcome(d) = EndOfFile => closed',
         UNCHANGED <<got, appReadBuf, status, torn, stored>>
  PROVE  UnderWay' /\ Received'
<1> DEFINE q == Len(got) + Len(appReadBuf)
<1>1. /\ stream \in Seq(Seq(Byte)) /\ meant \in Seq(Byte) /\ q \in Nat /\ stored \in Nat
      /\ tickets \in Nat /\ got \in Seq(Byte) /\ appReadBuf \in Seq(Byte)
  BY StreamAssumption DEF TypeOK
<1>2. q' = q
  OBVIOUS
<1>3. Carry(stream, meant, q) /\ Count(stream, stored, tickets)
  BY DEF UnderWay
<1> HIDE DEF q
<1>4. Carry(stream', meant', q)
  BY <1>1, <1>3, CarryAppended
<1>5. Count(stream', stored', tickets')
  BY <1>1, <1>3, CountAppended
<1>6. \A i \in 1..Len(stream') : Outcome(stream'[i]) = EndOfFile => closed' /\ i = Len(stream')
  <2>1. /\ Len(stream') = Len(stream) + 1 /\ stream'[Len(stream) + 1] = d
        /\ Len(stream) \in Nat /\ \A i \in 1..Len(stream) : stream'[i] = stream[i]
    BY <1>1
  <2>2. \A i \in 1..Len(stream) : Outcome(stream[i]) # EndOfFile
    BY DEF UnderWay
  <2>3. \A i \in 1..Len(stream') : i \in 1..Len(stream) \/ i = Len(stream) + 1
    BY <2>1
  <2> QED
    BY <2>1, <2>2, <2>3
<1>7. UnderWay'
  BY <1>2, <1>4, <1>5, <1>6 DEF UnderWay, q
<1>8. q \in 0..Len(meant)
  BY <1>1, <1>3, CarryStart
<1>9. got' \o appReadBuf' = SubSeq(meant', 1, Len(got') + Len(appReadBuf'))
  <2>1. got \o appReadBuf = SubSeq(meant, 1, q)
    BY DEF Received, q
  <2>2. 0 \in 0..Len(meant)
    BY <1>1
  <2>3. SubSeq(meant \o p, 0 + 1, q) = SubSeq(meant, 0 + 1, q)
    BY <1>1, <1>8, <2>2, SamePiece
  <2>4. 0 + 1 = 1
    OBVIOUS
  <2>5. SubSeq(meant', 1, q) = SubSeq(meant, 1, q)
    BY <2>3, <2>4, Zenon
  <2>6. got' = got /\ appReadBuf' = appReadBuf
    OBVIOUS
  <2>7. got' \o appReadBuf' = SubSeq(meant', 1, q)
    BY <2>1, <2>5, <2>6, Zenon
  <2> QED
    BY <2>7 DEF q
<1>10. Received'
  BY <1>9 DEF Received
<1> QED
  BY <1>7, <1>10

(* A Write sends a record that is read as the bytes it was given.          *)
LEMMA WriteFlow ==
  ASSUME Plain, TypeOK, TypeOK', Flow, NEW k \in 1..Len(rest), NEW pad \in 0..MaxPadding,
         Write(k, pad)
  PROVE  Flow'
<1> DEFINE p == SubSeq(rest, 1, k)
           d == InnerPlaintext(p, ApplicationData, pad)
<1>1. /\ rest \in Seq(Byte) /\ buffer = rest /\ k \in 0..Len(rest) /\ k \in 1..k
      /\ pad \in Nat /\ \A i \in 1..Len(rest) : ~IsInnerTypeByte(rest[i])
  BY StreamAssumption DEF TypeOK, Flow, Writing
<1>2. /\ p \in Seq(Byte) /\ Len(p) = k /\ \A i \in 1..k : p[i] = rest[i]
      /\ Len(SubSeq(rest, k + 1, Len(rest))) = Len(rest) - k
      /\ \A i \in 1..Len(rest) - k : SubSeq(rest, k + 1, Len(rest))[i] = rest[k + i]
  BY <1>1, Pieces
<1>3. /\ stream' = Append(stream, d) /\ meant' = meant \o p /\ ~closed
      /\ UNCHANGED <<closed, got, appReadBuf, status, torn, tickets, stored>>
  BY <1>1 DEF Write
<1>4. rest' = SubSeq(rest, k + 1, Len(rest)) /\ buffer' = SubSeq(rest, k + 1, Len(rest))
  BY <1>1 DEF Write, AfterAppend, Plain
<1>5. Writing'
  <2>1. \A i \in 1..Len(rest) - k : k + i \in 1..Len(rest)
    BY <1>1
  <2> HIDE DEF p, d
  <2>2. \A i \in 1..Len(rest) - k : ~IsInnerTypeByte(SubSeq(rest, k + 1, Len(rest))[i])
    BY <1>1, <1>2, <2>1
  <2> QED
    BY <1>2, <1>4, <2>2 DEF Writing
<1>6. p # <<>> /\ ~IsInnerTypeByte(p[Len(p)])
  BY <1>1, <1>2
<1> HIDE DEF p
<1>7. Outcome(d) = Data(p) /\ d \in Seq(Byte)
  BY <1>1, <1>2, <1>6, OutcomesOfPlain
<1> HIDE DEF d
<1>8. Outcome(d) # Ticket /\ Outcome(d) # EndOfFile
  BY <1>7 DEF Data, Ticket, EndOfFile
<1>9. tickets' = tickets + (IF Outcome(d) = Ticket THEN 1 ELSE 0)
  <2>1. tickets \in Nat
    BY StreamAssumption DEF TypeOK
  <2> QED
    BY <1>3, <1>8, <2>1
<1>10. UnderWay' /\ Received'
  BY <1>2, <1>3, <1>7, <1>8, <1>9, Sends DEF Flow
<1> QED
  BY <1>5, <1>10 DEF Flow

(* Nothing is meant by a record without content.                           *)
LEMMA NothingMeant == ASSUME TypeOK PROVE meant = meant \o <<>> /\ <<>> \in Seq(Byte)
<1>1. meant \in Seq(Byte)
  BY DEF TypeOK
<1> QED
  BY <1>1, ConcatEmptySeq

(* A ticket that is not padded is read as a ticket.                        *)
LEMMA TicketFlow ==
  ASSUME Plain, TypeOK, TypeOK', Flow, NEW pad \in 0..TicketPadding, SendTicket(pad)
  PROVE  Flow'
<1> DEFINE t == <<NewSessionTicket, 97>>
           d == InnerPlaintext(t, Handshake, 0)
<1>1. pad = 0
  BY DEF Plain
<1>2. /\ stream' = Append(stream, d) /\ meant' = meant /\ ~closed /\ tickets' = tickets + 1
      /\ UNCHANGED <<rest, buffer, closed, got, appReadBuf, status, torn, stored>>
  BY <1>1 DEF SendTicket, writer
<1>3. d \in Seq(Byte)
  <2>1. t \in Seq(Byte) /\ 0 \in Nat
    BY DEF NewSessionTicket, Byte
  <2> HIDE DEF t
  <2> QED
    BY <2>1, PlaintextTyped
<1>4. Outcome(d) = Ticket
  BY OutcomesOfPlain, Zenon
<1> HIDE DEF t, d
<1>5. /\ tickets' = tickets + (IF Outcome(d) = Ticket THEN 1 ELSE 0)
      /\ Outcome(d) # EndOfFile
  BY <1>2, <1>4 DEF Ticket, EndOfFile
<1>6. UnderWay' /\ Received'
  <2>1. meant' = meant \o <<>> /\ <<>> \in Seq(Byte)
    BY <1>2, NothingMeant
  <2> QED
    BY <1>2, <1>3, <1>4, <1>5, <2>1, Sends DEF Flow
<1>7. Writing'
  BY <1>2 DEF Flow, Writing
<1> QED
  BY <1>6, <1>7 DEF Flow

(* A close is the end of the stream, announced or not.                     *)
LEMMA CloseFlow ==
  ASSUME TypeOK, TypeOK', Flow, CloseWriter PROVE Flow'
<1> DEFINE t == <<1, 0>>
           d == InnerPlaintext(t, Alert, 0)
<1>1. /\ ~closed /\ closed' /\ meant' = meant
      /\ UNCHANGED <<rest, buffer, got, appReadBuf, status, torn, tickets, stored>>
  BY DEF CloseWriter, writer
<1>2. Writing'
  BY <1>1 DEF Flow, Writing
<1>3. ASSUME stream' = stream PROVE UnderWay' /\ Received'
  BY <1>1, <1>3 DEF Flow, UnderWay, Received
<1>4. ASSUME stream' = Append(stream, d) PROVE UnderWay' /\ Received'
  <2>1. d \in Seq(Byte)
    <3>1. t \in Seq(Byte) /\ 0 \in Nat
      BY DEF Byte
    <3> HIDE DEF t
    <3> QED
      BY <3>1, PlaintextTyped
  <2>2. Outcome(d) = EndOfFile
    BY OutcomesOfPlain, Zenon
  <2> HIDE DEF t, d
  <2>3. tickets' = tickets + (IF Outcome(d) = Ticket THEN 1 ELSE 0)
    <3>1. Outcome(d) # Ticket
      BY <2>2 DEF Ticket, EndOfFile
    <3> QED
      BY <1>1, <3>1, StreamAssumption DEF TypeOK
  <2>4. meant' = meant \o <<>> /\ <<>> \in Seq(Byte)
    BY <1>1, NothingMeant
  <2> QED
    BY <1>1, <1>4, <2>1, <2>2, <2>3, <2>4, Sends DEF Flow
<1> QED
  BY <1>2, <1>3, <1>4 DEF CloseWriter, Flow

(* The first record and the others.                                        *)
LEMMA OneFewer ==
  ASSUME NEW s \in Seq(Seq(Byte)), s # <<>>
  PROVE  /\ 1 \in 1..Len(s) /\ s[1] = Head(s)
         /\ Len(s) = 1 => Tail(s) = <<>>
         /\ \A i \in 1..Len(Tail(s)) :
              /\ i + 1 \in 1..Len(s) /\ Tail(s)[i] = s[i + 1]
              /\ i + 1 = Len(s) => i = Len(Tail(s))
<1> DEFINE n == Len(s)
           t == Tail(s)
<1>1. n \in Nat \ {0} /\ s[1] = Head(s) /\ t \in Seq(Seq(Byte)) /\ Len(t) = n - 1
  OBVIOUS
<1>2. \A i \in 1..n - 1 : t[i] = s[i + 1]
  OBVIOUS
<1> HIDE DEF n, t
<1>3. n = 1 => t = <<>>
  BY <1>1
<1>4. ASSUME NEW i \in 1..Len(t)
      PROVE  i + 1 \in 1..n /\ t[i] = s[i + 1] /\ (i + 1 = n => i = Len(t))
  <2>1. i \in 1..n - 1
    BY <1>1
  <2> QED
    BY <1>1, <1>2, <2>1
<1>5. 1 \in 1..n
  BY <1>1
<1> QED
  BY <1>1, <1>3, <1>4, <1>5, Zenon DEF n, t

(* A step that takes the first record, which holds x, from what is under   *)
(* way, and reads or keeps x: it is the next piece of what was written.    *)
LEMMA Takes ==
  ASSUME TypeOK, TypeOK', UnderWay, Received, stream # <<>>, appReadBuf = <<>>,
         NEW x \in Seq(Byte),
         Outcome(Head(stream)) = Data(x) \/
           (x = <<>> /\ Outcome(Head(stream)) \in {Ticket, EndOfFile}),
         got' \o appReadBuf' = got \o x,
         Len(got') + Len(appReadBuf') = Len(got) + Len(x),
         stream' = Tail(stream),
         stored' = stored + (IF Outcome(Head(stream)) = Ticket THEN 1 ELSE 0),
         UNCHANGED <<meant, closed, tickets>>
  PROVE  /\ UnderWay'
         /\ got' \o appReadBuf' = SubSeq(meant', 1, Len(got') + Len(appReadBuf'))
         /\ Outcome(Head(stream)) = EndOfFile => closed' /\ stream' = <<>>
<1> DEFINE q == Len(got)
           r == Outcome(Head(stream))
<1>1. /\ stream \in Seq(Seq(Byte)) /\ meant \in Seq(Byte) /\ q \in Nat /\ stored \in Nat
      /\ tickets \in Nat /\ got \in Seq(Byte)
  BY StreamAssumption DEF TypeOK
<1>2. got \o <<>> = got /\ Len(<<>>) = 0 /\ q + 0 = q
  BY <1>1, ConcatEmptySeq
<1>3. got = SubSeq(meant, 1, q)
  BY <1>2 DEF Received
<1>4. Carry(stream, meant, q) /\ Count(stream, stored, tickets)
  BY <1>2 DEF UnderWay
<1>5. PICK b \in 0..Len(meant) : Carries(meant, r, q, b) /\ Carry(Tail(stream), meant, b)
  BY <1>1, <1>4, CarryTail
<1>6. q \in 0..Len(meant)
  BY <1>1, <1>4, CarryStart
<1> HIDE DEF q, r
<1>7. q <= b /\ x = SubSeq(meant, q + 1, b)
  <2>1. CASE r = Data(x)
    <3>1. r # Ticket /\ r # EndOfFile
      BY <2>1 DEF Data, Ticket, EndOfFile
    <3>2. q <= b /\ r = Data(SubSeq(meant, q + 1, b))
      BY <1>5, <3>1 DEF Carries
    <3> QED
      BY <2>1, <3>2 DEF Data
  <2>2. CASE x = <<>> /\ r \in {Ticket, EndOfFile}
    <3>1. \A y : r # Data(y)
      BY <2>2 DEF Data, Ticket, EndOfFile
    <3>2. q = b
      BY <1>5, <3>1 DEF Carries
    <3>3. SubSeq(meant, q + 1, q) = <<>>
      <4>1. q < q + 1 /\ q \in Int /\ q + 1 \in Int
        BY <1>1
      <4> QED
        BY <4>1, SubSeqEmpty
    <3> QED
      BY <1>1, <2>2, <3>2, <3>3
  <2> QED
    BY <2>1, <2>2 DEF r
<1>8. got \o x = SubSeq(meant, 1, b) /\ q + Len(x) = b
  <2>1. /\ SubSeq(meant, 1, q) \o SubSeq(meant, q + 1, b) = SubSeq(meant, 1, b)
        /\ Len(SubSeq(meant, q + 1, b)) = b - q
    <3>1. b \in Nat /\ b <= Len(meant) /\ q <= b
      BY <1>1, <1>7
    <3> QED
      BY <1>1, <3>1, Rejoined, Zenon
  <2>2. q + (b - q) = b
    BY <1>1
  <2> QED
    BY <1>3, <1>7, <2>1, <2>2
<1>9. Len(got') + Len(appReadBuf') = b
  BY <1>8 DEF q
<1>10. got' \o appReadBuf' = SubSeq(meant', 1, Len(got') + Len(appReadBuf'))
  BY <1>8, <1>9
<1>11. Carry(stream', meant', Len(got') + Len(appReadBuf'))
  BY <1>5, <1>9
<1>12. Count(stream', stored', tickets')
  BY <1>1, <1>4, CountTail
<1>13. /\ 1 \in 1..Len(stream) /\ stream[1] = Head(stream)
       /\ Len(stream) = 1 => stream' = <<>>
       /\ \A i \in 1..Len(stream') :
            /\ i + 1 \in 1..Len(stream) /\ stream'[i] = stream[i + 1]
            /\ i + 1 = Len(stream) => i = Len(stream')
  BY <1>1, OneFewer, Zenon
<1>14. \A i \in 1..Len(stream) : Outcome(stream[i]) = EndOfFile => closed /\ i = Len(stream)
  BY DEF UnderWay
<1>15. \A i \in 1..Len(stream') : Outcome(stream'[i]) = EndOfFile => closed' /\ i = Len(stream')
  BY <1>13, <1>14, Zenon
<1>16. UnderWay'
  BY <1>11, <1>12, <1>15 DEF UnderWay
<1>17. r = EndOfFile => closed' /\ stream' = <<>>
  BY <1>13, <1>14, Zenon DEF r
<1> QED
  BY <1>10, <1>16, <1>17 DEF r

(* Read takes the next piece of what was written.                          *)
LEMMA DataFlow ==
  ASSUME TypeOK, TypeOK', Flow, NEW n \in ReadSizes, ReadData(n) PROVE Flow'
<1>1. /\ stream # <<>> /\ appReadBuf = <<>> /\ status = "open"
      /\ stream \in Seq(Seq(Byte)) /\ got \in Seq(Byte) /\ stored \in Nat
  BY DEF ReadData, Reading, TypeOK
<1>2. Head(stream) \in Seq(Byte)
  BY <1>1, HeadAndTail
<1>3. PICK x \in Seq(Byte) : Outcome(Head(stream)) = Data(x)
  <2>1. Outcome(Head(stream)).kind = "data"
    BY DEF ReadData
  <2> QED
    BY <1>2, <2>1, OutcomeTyped DEF Ticket, EndOfFile, Error
<1>4. Take(n, x)
  BY <1>3 DEF ReadData, Data
<1>5. /\ got' \o appReadBuf' = got \o x
      /\ Len(got') + Len(appReadBuf') = Len(got) + Len(x)
  BY <1>1, <1>4, TakeJoined
<1>6. /\ stream' = Tail(stream)
      /\ UNCHANGED <<rest, buffer, meant, closed, status, torn, tickets, stored>>
  BY DEF ReadData, writer
<1>7. stored' = stored + (IF Outcome(Head(stream)) = Ticket THEN 1 ELSE 0)
  <2>1. Outcome(Head(stream)) # Ticket
    BY <1>3 DEF Data, Ticket
  <2> QED
    BY <1>1, <1>6, <2>1
<1>8. /\ UnderWay'
      /\ got' \o appReadBuf' = SubSeq(meant', 1, Len(got') + Len(appReadBuf'))
  BY <1>1, <1>3, <1>5, <1>6, <1>7, Takes DEF Flow
<1>9. Received'
  BY <1>1, <1>6, <1>8 DEF Received
<1>10. Writing'
  BY <1>6 DEF Flow, Writing
<1> QED
  BY <1>8, <1>9, <1>10 DEF Flow

(* A ticket is stored, and the stream is where it was.                     *)
LEMMA TicketReadFlow ==
  ASSUME TypeOK, TypeOK', Flow, ReadTicket PROVE Flow'
<1>1. /\ stream # <<>> /\ appReadBuf = <<>> /\ status = "open"
      /\ Outcome(Head(stream)) = Ticket /\ got \in Seq(Byte) /\ appReadBuf \in Seq(Byte)
  BY DEF ReadTicket, Reading, TypeOK
<1>2. /\ stream' = Tail(stream) /\ stored' = stored + 1 /\ got' = got /\ appReadBuf' = <<>>
      /\ UNCHANGED <<rest, buffer, meant, closed, status, torn, tickets>>
  BY <1>1 DEF ReadTicket, writer
<1>3. stored' = stored + (IF Outcome(Head(stream)) = Ticket THEN 1 ELSE 0)
  BY <1>1, <1>2
<1>4. <<>> \in Seq(Byte)
  OBVIOUS
<1>5. UnderWay' /\ got' \o appReadBuf' = SubSeq(meant', 1, Len(got') + Len(appReadBuf'))
  BY <1>1, <1>2, <1>3, <1>4, Takes DEF Flow
<1>6. Received'
  BY <1>1, <1>2, <1>5 DEF Received
<1>7. Writing'
  BY <1>2 DEF Flow, Writing
<1> QED
  BY <1>5, <1>6, <1>7 DEF Flow

(* Of what is under way only a close_notify, the last record, ends Read.   *)
LEMMA FailFlow ==
  ASSUME TypeOK, TypeOK', Flow, ReadFails PROVE Flow'
<1>1. /\ stream # <<>> /\ appReadBuf = <<>> /\ status = "open" /\ ~torn
      /\ stream \in Seq(Seq(Byte)) /\ meant \in Seq(Byte) /\ got \in Seq(Byte)
      /\ stored \in Nat /\ Outcome(Head(stream)).kind \in {"eof", "error"}
  BY DEF ReadFails, Reading, TypeOK
<1>2. /\ stream' = Tail(stream) /\ status' = Outcome(Head(stream)).kind
      /\ UNCHANGED <<rest, buffer, meant, closed, got, appReadBuf, torn, tickets, stored>>
  BY DEF ReadFails, writer
<1>3. Outcome(Head(stream)) = EndOfFile
  <2>1. PICK b : Carries(meant, Outcome(Head(stream)), Len(got) + Len(appReadBuf), b)
    BY <1>1, CarryTail DEF Flow, UnderWay
  <2> QED
    BY <1>1, <2>1 DEF Carries, Data, Ticket
<1>4. stored' = stored + (IF Outcome(Head(stream)) = Ticket THEN 1 ELSE 0)
  <2>1. EndOfFile # Ticket
    BY DEF EndOfFile, Ticket
  <2> QED
    BY <1>1, <1>2, <1>3, <2>1
<1>5. <<>> \in Seq(Byte)
  OBVIOUS
<1>6. /\ UnderWay' /\ closed' /\ stream' = <<>>
      /\ got' \o appReadBuf' = SubSeq(meant', 1, Len(got') + Len(appReadBuf'))
  BY <1>1, <1>2, <1>3, <1>4, <1>5, Takes DEF Flow
<1>7. status' = "eof"
  BY <1>2, <1>3 DEF EndOfFile
<1>8. Received'
  BY <1>1, <1>2, <1>6, <1>7 DEF Received
<1>9. Writing'
  BY <1>2 DEF Flow, Writing
<1> QED
  BY <1>6, <1>8, <1>9 DEF Flow

(* Read from what is kept, a deadline, the end: nothing under way changes. *)
LEMMA OtherFlow ==
  ASSUME TypeOK, TypeOK', Flow,
         \/ \E n \in ReadSizes : ReadBuffered(n)
         \/ ReadEnd \/ ReadTorn \/ Timeout \/ UNCHANGED vars
  PROVE  Flow'
<1>1. ASSUME NEW n \in ReadSizes, ReadBuffered(n) PROVE Flow'
  <2>1. got \in Seq(Byte) /\ appReadBuf \in Seq(Byte) /\ status = "open" /\ Take(n, appReadBuf)
    BY <1>1 DEF ReadBuffered, TypeOK
  <2>2. /\ got' \o appReadBuf' = got \o appReadBuf
        /\ Len(got') + Len(appReadBuf') = Len(got) + Len(appReadBuf)
    BY <2>1, TakeJoined
  <2>3. UNCHANGED <<rest, buffer, meant, stream, closed, status, torn, tickets, stored>>
    BY <1>1 DEF ReadBuffered, writer
  <2>4. Writing' /\ UnderWay'
    BY <2>2, <2>3 DEF Flow, Writing, UnderWay
  <2>5. Received'
    BY <2>1, <2>2, <2>3 DEF Flow, Received
  <2> QED
    BY <2>4, <2>5 DEF Flow
<1>2. ASSUME ReadEnd \/ ReadTorn \/ Timeout \/ UNCHANGED vars PROVE Flow'
  <2>1. UNCHANGED <<rest, buffer, meant, stream, closed, got, appReadBuf, tickets, stored>>
    BY <1>2 DEF ReadEnd, ReadTorn, Timeout, vars, writer
  <2>2. Writing' /\ UnderWay'
    BY <2>1 DEF Flow, Writing, UnderWay
  <2>3. Received'
    <3>1. CASE ReadEnd
      BY <2>1, <3>1 DEF Flow, Received, ReadEnd
    <3>2. CASE ReadTorn
      BY <2>1, <3>2 DEF Flow, Received, ReadTorn
    <3>3. CASE Timeout
      BY <2>1, <3>3 DEF Flow, Received, Timeout, Reading
    <3>4. CASE UNCHANGED vars
      BY <2>1, <3>4 DEF Flow, Received, vars
    <3> QED
      BY <1>2, <3>1, <3>2, <3>3, <3>4
  <2> QED
    BY <2>2, <2>3 DEF Flow
<1> QED
  BY <1>1, <1>2

(* Every step of a plain writer and its reader keeps the flow.             *)
LEMMA FlowStep == Plain /\ TypeOK /\ TypeOK' /\ Flow /\ [Next]_vars => Flow'
<1> SUFFICES ASSUME Plain, TypeOK, TypeOK', Flow, [Next]_vars PROVE Flow'
  OBVIOUS
<1>1. ASSUME WriteStep PROVE Flow'
  BY <1>1, BeginFlow, WriteFlow, TicketFlow, CloseFlow DEF WriteStep
<1>2. ASSUME ReadStep PROVE Flow'
  BY <1>2, DataFlow, TicketReadFlow, FailFlow, OtherFlow DEF ReadStep
<1>3. ASSUME Timeout \/ UNCHANGED vars PROVE Flow'
  BY <1>3, OtherFlow
<1> QED
  BY <1>1, <1>2, <1>3 DEF Next, Terminated

(* What is under way is, from the start and after every step, the rest of  *)
(* what was written and not yet read.                                      *)
LEMMA FlowKept == ASSUME Plain PROVE Spec => [](TypeOK /\ Flow)
<1>1. Init => Shape /\ Flow
  BY ShapeInit, FlowInit
<1>2. Shape /\ Flow /\ [Next]_vars => Shape' /\ Flow'
  <2>1. (Shape => TypeOK) /\ (Shape' => TypeOK')
    BY DEF Shape
  <2> QED
    BY <2>1, ShapeStep, FlowStep
<1>3. Shape /\ Flow => TypeOK /\ Flow
  BY DEF Shape
<1> QED
  BY <1>1, <1>2, <1>3, PTL DEF Spec

---------------------------------------------------------------------------
(* The theorems *)

(* Read reports an error only when a deadline tore a record: nothing that  *)
(* a plain writer sends is taken for an alert or for a handshake message   *)
(* by unwrapTLS13ApplicationData (conn.go:908-934, 1071-1099).             *)
THEOREM NoErrorOfItsOwn == ASSUME Plain PROVE Spec => []NoSpuriousError
<1>1. TypeOK /\ Flow => NoSpuriousError
  BY DEF Flow, Received, NoSpuriousError
<1> QED
  BY <1>1, FlowKept, PTL

(* The tickets in the cache are never more than those sent, and when Read  *)
(* has seen the end of a stream that was not torn they are all there       *)
(* (conn.go:1084-1093).                                                    *)
THEOREM EveryTicketIsKept == ASSUME Plain PROVE Spec => []TicketsKept
<1>1. TypeOK /\ Flow => TicketsKept
  <2> SUFFICES ASSUME TypeOK, Flow PROVE TicketsKept
    OBVIOUS
  <2>1. /\ tickets \in Nat /\ stored \in Nat /\ stream \in Seq(Seq(Byte))
        /\ Count(stream, stored, tickets)
    BY StreamAssumption DEF TypeOK, Flow, UnderWay
  <2>2. stored <= tickets
    <3>1. PICK n \in [1..Len(stream) + 1 -> 0..tickets] : n[1] = stored
      BY <2>1 DEF Count
    <3>2. Len(stream) \in Nat
      BY <2>1
    <3>3. 1 \in 1..Len(stream) + 1
      BY <3>2
    <3>4. stored \in 0..tickets
      BY <3>1, <3>3
    <3> QED
      BY <2>1, <3>4
  <2>3. status = "eof" /\ ~torn => stored = tickets
    BY <2>1, CountNone DEF Flow, Received
  <2> QED
    BY <2>2, <2>3 DEF TicketsKept
<1> QED
  BY <1>1, FlowKept, PTL

(* What Read returned and what it keeps is the beginning of what was       *)
(* written, even when a deadline tore a record (conn.go:715-740).          *)
THEOREM PlainIsDeliveredInOrder == ASSUME Plain PROVE Spec => []DeliveredInOrder
<1>1. TypeOK /\ Flow => DeliveredInOrder
  <2> SUFFICES ASSUME TypeOK, Flow PROVE DeliveredInOrder
    OBVIOUS
  <2> DEFINE q == Len(got) + Len(appReadBuf)
             x == got \o appReadBuf
  <2>1. /\ got \in Seq(Byte) /\ appReadBuf \in Seq(Byte) /\ meant \in Seq(Byte)
        /\ stream \in Seq(Seq(Byte)) /\ Carry(stream, meant, q) /\ x = SubSeq(meant, 1, q)
    BY DEF TypeOK, Flow, UnderWay, Received
  <2>2. x \in Seq(Byte) /\ Len(x) = q
    BY <2>1, ConcatProperties
  <2> HIDE DEF x, q
  <2>3. q \in 0..Len(meant) /\ Len(meant) \in Nat
    BY <2>1, CarryStart
  <2>4. SubSeq(x, 1, Len(x)) = x
    BY <2>2, SubSeqFull
  <2>5. Len(x) <= Len(meant)
    BY <2>2, <2>3
  <2> QED
    BY <2>1, <2>2, <2>4, <2>5 DEF DeliveredInOrder, IsPrefix, x
<1> QED
  BY <1>1, FlowKept, PTL

(* Everything that was read is the beginning of what was written, and all  *)
(* of it when nothing is kept or under way.                                *)
SoFar ==
  /\ Len(got) \in 0..Len(meant) /\ got = SubSeq(meant, 1, Len(got))
  /\ stream = <<>> /\ appReadBuf = <<>> => got = meant

(* That follows from what is under way.                                    *)
LEMMA ReadSoFar == TypeOK /\ Flow => SoFar
<1> SUFFICES ASSUME TypeOK, Flow PROVE SoFar
  OBVIOUS
<1> DEFINE g == Len(got)
           q == g + Len(appReadBuf)
<1>1. /\ got \in Seq(Byte) /\ appReadBuf \in Seq(Byte) /\ meant \in Seq(Byte)
      /\ stream \in Seq(Seq(Byte)) /\ Carry(stream, meant, q)
      /\ got \o appReadBuf = SubSeq(meant, 1, q)
  BY DEF TypeOK, Flow, UnderWay, Received
<1>2. g \in Nat /\ Len(appReadBuf) \in Nat /\ (appReadBuf = <<>> => q = g)
  BY <1>1
<1>3. q \in 0..Len(meant)
  <2> HIDE DEF q
  <2> QED
    BY <1>1, CarryStart
<1>4. g \in 0..Len(meant)
  BY <1>2, <1>3
<1>5. got = SubSeq(meant, 1, g)
  <2> DEFINE x == SubSeq(meant, 1, g)
             y == SubSeq(meant, 1, q)
  <2>1. x \in Seq(Byte) /\ Len(x) = g /\ \A i \in 1..g : x[i] = meant[i]
    BY <1>1, <1>4, Pieces
  <2>2. \A i \in 1..q : y[i] = meant[i]
    BY <1>1, <1>3, Pieces
  <2>3. \A i \in 1..g : (got \o appReadBuf)[i] = got[i]
    BY <1>1
  <2> HIDE DEF x
  <2>4. \A i \in 1..g : got[i] = x[i]
    <3>1. \A i \in 1..g : i \in 1..q
      BY <1>2
    <3> HIDE DEF g, q, y
    <3> QED
      BY <1>1, <2>1, <2>2, <2>3, <3>1 DEF y
  <2>5. got = x
    <3>1. got \in Seq(Byte) /\ x \in Seq(Byte) /\ Len(got) = Len(x)
      BY <1>1, <2>1
    <3>2. \A i \in 1..Len(got) : got[i] = x[i]
      BY <2>4
    <3> HIDE DEF g, q
    <3> QED
      BY <3>1, <3>2
  <2> QED
    BY <2>5 DEF x
<1>6. ASSUME stream = <<>>, appReadBuf = <<>> PROVE got = meant
  <2>1. g = Len(meant)
    <3>1. Carry(<<>>, meant, g)
      BY <1>1, <1>2, <1>6
    <3> HIDE DEF g
    <3> QED
      BY <1>1, <3>1, CarryNone
  <2>2. SubSeq(meant, 1, Len(meant)) = meant
    BY <1>1, SubSeqFull
  <2> QED
    BY <1>5, <2>1, <2>2
<1> QED
  BY <1>4, <1>5, <1>6 DEF SoFar

(* A step that only adds to what was written.                              *)
LEMMA Pushed ==
  ASSUME TypeOK, NEW p \in Seq(Byte), meant' = meant \o p,
         UNCHANGED <<got, status, torn>>
  PROVE  B!Next
<1>1. meant \in Seq(Byte)
  BY DEF TypeOK
<1>2. Len(meant') >= Len(meant)
  <2>1. Len(meant \o p) = Len(meant) + Len(p) /\ Len(meant) \in Nat /\ Len(p) \in Nat
    BY <1>1, ConcatProperties
  <2> QED
    BY <2>1
<1>3. SubSeq(meant', 1, Len(meant)) = meant
  <2>1. 0 \in 0..Len(meant) /\ Len(meant) \in 0..Len(meant) /\ 0 + 1 = 1
    BY <1>1
  <2>2. SubSeq(meant \o p, 0 + 1, Len(meant)) = SubSeq(meant, 0 + 1, Len(meant))
    BY <1>1, <2>1, SamePiece
  <2>3. SubSeq(meant, 1, Len(meant)) = meant
    BY <1>1, SubSeqFull
  <2> QED
    BY <2>1, <2>2, <2>3, Zenon
<1> QED
  BY <1>2, <1>3 DEF B!Next, B!Push

(* A step that only reads.                                                 *)
LEMMA Pulled ==
  ASSUME SoFar', status = "open", NEW b \in Seq(Byte), NEW n \in ReadSizes,
         got \in Seq(Byte), Take(n, b), UNCHANGED <<meant, status, torn>>
  PROVE  B!Next
<1>1. Len(got') \in 0..Len(meant') /\ got' = SubSeq(meant', 1, Len(got'))
  BY DEF SoFar
<1>2. PICK k \in 0..Len(b) : got' = got \o SubSeq(b, 1, k)
  BY TakeTyped
<1>3. Len(got') >= Len(got) /\ Len(got) \in Nat
  <2>1. SubSeq(b, 1, k) \in Seq(Byte) /\ Len(SubSeq(b, 1, k)) = k
    BY Pieces
  <2>2. Len(got \o SubSeq(b, 1, k)) = Len(got) + k
    BY <2>1, ConcatProperties
  <2> QED
    BY <1>2, <2>2
<1>4. Len(got') \in Len(got)..Len(meant)
  BY <1>1, <1>3
<1> QED
  BY <1>1, <1>4 DEF B!Next, B!Pull

(* A step that ends Read, or tears a record.                               *)
LEMMA Ended ==
  ASSUME SoFar', Received', status = "open",
         UNCHANGED <<meant, got>>
  PROVE  B!Next \/ UNCHANGED B!vars
<1>1. CASE status' = "eof" /\ ~torn'
  <2>1. stream' = <<>> /\ appReadBuf' = <<>>
    BY <1>1 DEF Received
  <2>2. got' = meant'
    BY <2>1 DEF SoFar
  <2> QED
    BY <1>1, <2>2 DEF B!Next, B!End
<1>2. CASE ~(status' = "eof" /\ ~torn')
  BY <1>2 DEF B!vars
<1> QED
  BY <1>1, <1>2

(* Every step of the records is a step of the stream of bytes, or nothing. *)
LEMMA StepIsStreamStep ==
  ASSUME Plain, TypeOK, Flow, SoFar', Flow', [Next]_vars
  PROVE  B!Next \/ UNCHANGED B!vars
<1>1. ASSUME UNCHANGED <<meant, got, status, torn>> PROVE UNCHANGED B!vars
  BY <1>1 DEF B!vars
<1>2. ASSUME WriteStep PROVE B!Next \/ UNCHANGED B!vars
  <2>1. ASSUME NEW m \in Messages, BeginMessage(m) PROVE UNCHANGED B!vars
    BY <1>1, <2>1 DEF BeginMessage
  <2>2. ASSUME NEW k \in 1..Len(rest), NEW pad \in 0..MaxPadding, Write(k, pad)
        PROVE  B!Next
    <3>1. rest \in Seq(Byte) /\ k \in 0..Len(rest)
      BY DEF TypeOK
    <3>2. SubSeq(rest, 1, k) \in Seq(Byte)
      BY <3>1, Pieces
    <3>3. meant' = meant \o SubSeq(rest, 1, k) /\ UNCHANGED <<got, status, torn>>
      BY <2>2 DEF Write
    <3> QED
      BY <3>2, <3>3, Pushed
  <2>3. ASSUME NEW pad \in 0..TicketPadding, SendTicket(pad) PROVE UNCHANGED B!vars
    BY <1>1, <2>3 DEF SendTicket, writer
  <2>4. ASSUME CloseWriter PROVE UNCHANGED B!vars
    BY <1>1, <2>4 DEF CloseWriter, writer
  <2> QED
    BY <1>2, <2>1, <2>2, <2>3, <2>4 DEF WriteStep
<1>3. ASSUME ReadStep \/ Timeout PROVE B!Next \/ UNCHANGED B!vars
  <2>1. got \in Seq(Byte) /\ appReadBuf \in Seq(Byte) /\ stream \in Seq(Seq(Byte))
    BY DEF TypeOK
  <2>2. ASSUME NEW n \in ReadSizes, ReadBuffered(n) PROVE B!Next
    BY <2>1, <2>2, Pulled DEF ReadBuffered, writer
  <2>3. ASSUME NEW n \in ReadSizes, ReadData(n) PROVE B!Next
    <3>1. Outcome(Head(stream)).kind = "data" /\ stream # <<>> /\ status = "open"
      BY <2>3 DEF ReadData, Reading
    <3>2. Head(stream) \in Seq(Byte)
      BY <2>1, <3>1, HeadAndTail
    <3>3. PICK x \in Seq(Byte) : Outcome(Head(stream)) = Data(x)
      BY <3>1, <3>2, OutcomeTyped DEF Ticket, EndOfFile, Error
    <3>4. Take(n, x) /\ UNCHANGED <<meant, status, torn>>
      BY <2>3, <3>3 DEF ReadData, Data, writer
    <3> QED
      BY <2>1, <3>1, <3>4, Pulled
  <2>4. ASSUME ReadTicket PROVE UNCHANGED B!vars
    BY <1>1, <2>4 DEF ReadTicket, Reading, writer
  <2>5. ASSUME ReadFails \/ ReadEnd \/ ReadTorn \/ Timeout PROVE B!Next \/ UNCHANGED B!vars
    <3>1. status = "open" /\ UNCHANGED <<meant, got>>
      BY <2>5 DEF ReadFails, ReadEnd, ReadTorn, Timeout, Reading, writer
    <3> QED
      BY <3>1, Ended DEF Flow
  <2> QED
    BY <1>3, <2>2, <2>3, <2>4, <2>5 DEF ReadStep
<1>4. ASSUME UNCHANGED vars PROVE UNCHANGED B!vars
  BY <1>1, <1>4 DEF vars, writer
<1> QED
  BY <1>2, <1>3, <1>4 DEF Next, Terminated

(* Records, content types, padding, tickets, cuts and deadlines implement  *)
(* the stream of bytes of ByteStream, for every plain writer.              *)
THEOREM RecordsAreByteStream == ASSUME Plain PROVE Spec => ImplementsByteStream
<1>1. Init => B!Init
  BY DEF Init, B!Init
<1>2. TypeOK' /\ Flow' => SoFar'
  BY ReadSoFar, PTL
<1>3. TypeOK /\ Flow /\ TypeOK' /\ Flow' /\ [Next]_vars => [B!Next]_(B!vars)
  BY <1>2, StepIsStreamStep
<1> QED
  BY <1>1, <1>3, FlowKept, PTL DEF Spec, ImplementsByteStream, B!Spec
=============================================================================
