-------------------------- MODULE EPPServiceProofs --------------------------
(***************************************************************************)
(* Theorems about EPPService, for every set of clients and of frame        *)
(* lengths, every profile and every backlog: the state has its shape, the  *)
(* server holds no connection open that nobody will close, no run fails    *)
(* without a cause, and every connection is a dialog.                      *)
(*                                                                         *)
(* The last two rest on what is on its way at any moment: at most one      *)
(* frame, of the side whose turn it is, in one of a few ways its records   *)
(* and Read can have cut it (Coming).                                      *)
(***************************************************************************)
EXTENDS EPPService, SequenceTheorems, TLAPS

Labels == [client : ClientLabels, server : ServerLabels]

(* NoConnLeaked is inductive with the types: every step that takes a       *)
(* connection from the queue, from Accept or from a handler gives it to    *)
(* the next of them or closes it.                                          *)
Held == TypeOK /\ NoConnLeaked

(* A label a side in mid-run may go to: neither its beginning nor failed.  *)
MayGo(side, label) ==
  IF side = "client" THEN label \in ClientLabels \ {"failed"}
                     ELSE label \in ServerLabels \ {"none", "failed"}

(* Going on to another label changes that label only.                      *)
LEMMA GotoMoves ==
  ASSUME NEW c \in Clients, NEW side \in Sides, NEW label,
         pc \in [Clients -> Labels],
         label \in IF side = "client" THEN ClientLabels ELSE ServerLabels,
         Goto(c, side, label)
  PROVE  /\ pc' \in [Clients -> Labels]
         /\ \A d \in Clients \ {c} : pc'[d] = pc[d]
         /\ side = "client" => pc'[c].client = label /\ pc'[c].server = pc[c].server
         /\ side = "server" => pc'[c].server = label /\ pc'[c].client = pc[c].client
<1>1. CASE side = "client"
  BY <1>1 DEF Goto, Labels
<1>2. CASE side = "server"
  BY <1>2 DEF Goto, Labels
<1> QED
  BY <1>1, <1>2 DEF Sides

(* Closing one's end of a connection.                                      *)
LEMMA ShutCloses ==
  ASSUME NEW c \in Clients, NEW side \in Sides, ends \in [Clients -> SUBSET Sides],
         Shut(c, side)
  PROVE  /\ ends' \in [Clients -> SUBSET Sides]
         /\ ends'[c] = ends[c] \ {side}
         /\ \A d \in Clients \ {c} : ends'[d] = ends[d]
  BY DEF Shut

(* A step of a run or a handler that goes on leaves the connection with it.*)
LEMMA GoingOn ==
  ASSUME Held, NEW c \in Clients, NEW side \in Sides, NEW label,
         Goto(c, side, label), MayGo(side, label),
         side = "client" => pc[c].client # "failed",
         UNCHANGED <<listener, profile, why>>
  PROVE  Held'
<1>1. /\ pc' \in [Clients -> Labels]
      /\ \A d \in Clients \ {c} : pc'[d] = pc[d]
      /\ side = "client" => pc'[c].client = label /\ pc'[c].server = pc[c].server
      /\ side = "server" => pc'[c].server = label /\ pc'[c].client = pc[c].client
  BY GotoMoves DEF Held, TypeOK, Labels, MayGo
<1>2. TypeOK'
  BY <1>1 DEF Held, TypeOK, ListenerTypeOK, listener, Labels, MayGo, Sides
<1>3. \A d \in Clients : Handled(d) => Handled(d)'
  BY <1>1 DEF Handled, MayGo, Sides
<1> QED
  BY <1>2, <1>3 DEF Held, NoConnLeaked, Queued, listener

(* A run or a handler that fails closes its end.                           *)
LEMMA Failing ==
  ASSUME Held, NEW c \in Clients, NEW side \in Sides, NEW reason \in Errors \ {None},
         Fail(c, side, reason), UNCHANGED profile
  PROVE  Held'
<1>1. /\ pc' \in [Clients -> Labels]
      /\ \A d \in Clients \ {c} : pc'[d] = pc[d]
      /\ side = "client" => pc'[c].client = "failed" /\ pc'[c].server = pc[c].server
      /\ side = "server" => pc'[c].server = "failed" /\ pc'[c].client = pc[c].client
  BY GotoMoves DEF Held, TypeOK, Labels, Fail, FailWith, ClientLabels, ServerLabels
<1>2. /\ ends' \in [Clients -> SUBSET Sides]
      /\ ends'[c] = ends[c] \ {side}
      /\ \A d \in Clients \ {c} : ends'[d] = ends[d]
  BY ShutCloses DEF Held, TypeOK, ListenerTypeOK, Fail
<1>3. why' \in [Clients -> Errors]
  BY DEF Held, TypeOK, Fail, FailWith
<1>4. \A d \in Clients : (pc'[d].client = "failed") <=> (why'[d] # None)
  BY <1>1 DEF Held, TypeOK, Fail, FailWith, Sides
<1>5. TypeOK'
  BY <1>1, <1>2, <1>3, <1>4 DEF Held, TypeOK, ListenerTypeOK, Fail, Labels
<1>6. ASSUME NEW d \in Clients, "server" \in ends'[d]
      PROVE  "server" \in ends[d] /\ (Handled(d) => Handled(d)')
  BY <1>1, <1>2, <1>6 DEF Handled, Sides
<1> QED
  BY <1>5, <1>6 DEF Held, NoConnLeaked, Queued, Fail

---------------------------------------------------------------------------

(* The frames of either side.                                              *)
LEMMA ExchangeHolds ==
  ASSUME Held, NEW c \in Clients, NEW side \in Sides, Exchange(c, side)
  PROVE  Held'
<1>1. CASE ReadRecord(c, side)
  <2>1. CASE Outcome(Head(wire[c][side])).kind = "data"
    BY <1>1, <2>1
       DEF ReadRecord, Held, TypeOK, ListenerTypeOK, listener, NoConnLeaked, Queued, Handled
  <2>2. CASE Outcome(Head(wire[c][side])).kind # "data"
    BY <1>1, <2>2, Failing DEF ReadRecord, Errors, None
  <2> QED
    BY <2>1, <2>2
<1>2. CASE ReadEof(c, side)
  BY <1>2, Failing DEF ReadEof, Errors, None
<1>3. CASE ReadLength(c, side)
  <2>1. CASE ValidLength(HeaderValue(inbox[c][side]))
    <3>1. MayGo(side, "readPayload") /\ (side = "client" => pc[c].client # "failed")
      BY <1>3 DEF ReadLength, MayGo, ClientLabels, ServerLabels
    <3> QED
      BY <1>3, <2>1, <3>1, GoingOn DEF ReadLength
  <2>2. CASE ~ValidLength(HeaderValue(inbox[c][side]))
    BY <1>3, <2>2, Failing DEF ReadLength, Errors, None
  <2> QED
    BY <2>1, <2>2
<1>4. CASE ReadPayload(c, side)
  <2>1. CASE side = "client" /\ todo[c] = <<>>
    <3>1. Goto(c, "client", "done") /\ pc[c].client = "readPayload"
      BY <1>4, <2>1 DEF ReadPayload
    <3>2. /\ pc' \in [Clients -> Labels]
          /\ \A d \in Clients \ {c} : pc'[d] = pc[d]
          /\ pc'[c].client = "done" /\ pc'[c].server = pc[c].server
      BY <2>1, <3>1, GotoMoves DEF Held, TypeOK, Labels, ClientLabels
    <3>3. /\ ends' \in [Clients -> SUBSET Sides]
          /\ ends'[c] = ends[c] \ {"client"}
          /\ \A d \in Clients \ {c} : ends'[d] = ends[d]
      BY <1>4, <2>1, ShutCloses DEF ReadPayload, Held, TypeOK, ListenerTypeOK
    <3>4. UNCHANGED <<profile, why, listening, loop, stops, backlog, accepting>>
      BY <1>4, <2>1 DEF ReadPayload
    <3>5. TypeOK'
      BY <3>1, <3>2, <3>3, <3>4 DEF Held, TypeOK, ListenerTypeOK, Labels
    <3> QED
      BY <3>2, <3>3, <3>4, <3>5 DEF Held, NoConnLeaked, Queued, Handled
  <2>2. CASE ~(side = "client" /\ todo[c] = <<>>)
    <3>1. /\ Goto(c, side, "writeLength") /\ UNCHANGED <<listener, profile, why>>
          /\ MayGo(side, "writeLength") /\ (side = "client" => pc[c].client # "failed")
      BY <1>4, <2>2 DEF ReadPayload, MayGo, ClientLabels, ServerLabels
    <3> QED
      BY <3>1, GoingOn
  <2> QED
    BY <2>1, <2>2
<1>5. ASSUME NEW n \in Lengths, WriteLength(c, side, n) PROVE Held'
  <2>1. MayGo(side, "writePayload") /\ (side = "client" => pc[c].client # "failed")
    BY <1>5 DEF WriteLength, MayGo, ClientLabels, ServerLabels
  <2> QED
    BY <1>5, <2>1, GoingOn DEF WriteLength
<1>6. CASE WritePayload(c, side)
  <2>1. MayGo(side, "readLength") /\ (side = "client" => pc[c].client # "failed")
    BY <1>6 DEF WritePayload, MayGo, ClientLabels, ServerLabels
  <2> QED
    BY <1>6, <2>1, GoingOn DEF WritePayload, AfterWrite
<1>7. CASE WriteFails(c, side)
  BY <1>7, Failing DEF WriteFails, Errors, None
<1> QED
  BY <1>1, <1>2, <1>3, <1>4, <1>5, <1>6, <1>7 DEF Exchange

(* A run that dials, waits for its handshake or gives up.                  *)
LEMMA ClientHolds ==
  ASSUME Held, NEW c \in Clients, ClientStep(c) \/ Leave(c) PROVE Held'
<1>1. CASE Dial(c)
  <2>1. /\ pc' \in [Clients -> Labels]
        /\ \A d \in Clients \ {c} : pc'[d] = pc[d]
        /\ pc'[c].client = "handshake" /\ pc'[c].server = pc[c].server
    BY <1>1, GotoMoves DEF Dial, Held, TypeOK, Labels, ClientLabels, Sides
  <2>2. /\ backlog \in Seq(Clients) /\ backlog' = Append(backlog, c)
        /\ ends' = [ends EXCEPT ![c] = Sides]
        /\ UNCHANGED <<profile, why, listening, loop, stops, accepting>>
    BY <1>1 DEF Dial, Connect, Held, TypeOK, ListenerTypeOK
  <2>3. TypeOK'
    <3>1. backlog' \in Seq(Clients) /\ ends' \in [Clients -> SUBSET Sides]
      BY <2>2 DEF Held, TypeOK, ListenerTypeOK
    <3>2. pc[c].client = "dial"
      BY <1>1 DEF Dial
    <3>3. \A d \in Clients : (pc'[d].client = "failed") <=> (why'[d] # None)
      BY <2>1, <2>2, <3>2 DEF Held, TypeOK
    <3> QED
      BY <2>1, <2>2, <3>1, <3>3 DEF Held, TypeOK, ListenerTypeOK, Labels
  <2>4. \A d \in Clients : Queued(d) => Queued(d)'
    BY <2>2 DEF Queued
  <2>5. Queued(c)'
    <3>1. Len(backlog) + 1 \in DOMAIN backlog' /\ backlog'[Len(backlog) + 1] = c
      BY <2>2
    <3> QED
      BY <3>1 DEF Queued
  <2> QED
    BY <2>1, <2>2, <2>3, <2>4, <2>5 DEF Held, NoConnLeaked, Handled, TypeOK, ListenerTypeOK
<1>2. CASE DialFails(c)
  <2>1. /\ pc' \in [Clients -> Labels]
        /\ \A d \in Clients \ {c} : pc'[d] = pc[d]
        /\ pc'[c].client = "failed" /\ pc'[c].server = pc[c].server
    BY <1>2, GotoMoves DEF DialFails, FailWith, Held, TypeOK, Labels, ClientLabels, Sides
  <2>2. TypeOK'
    BY <1>2, <2>1
       DEF DialFails, FailWith, Held, TypeOK, ListenerTypeOK, listener, Labels, Errors, None
  <2> QED
    BY <1>2, <2>1, <2>2 DEF DialFails, Held, NoConnLeaked, Queued, Handled, listener
<1>3. CASE ClientHandshake(c)
  <2>1. CASE profile[c].kind = "refuses"
    BY <1>3, <2>1, Failing DEF ClientHandshake, Errors, None, Sides
  <2>2. CASE profile[c].kind # "refuses"
    <3>1. MayGo("client", "readLength")
      BY DEF MayGo, ClientLabels
    <3> QED
      BY <1>3, <2>2, <3>1, GoingOn DEF ClientHandshake, Sides
  <2> QED
    BY <2>1, <2>2
<1>4. CASE ClientHandshakeEof(c)
  BY <1>4, Failing DEF ClientHandshakeEof, Errors, None, Sides
<1>5. CASE Leave(c)
  BY <1>5, Failing DEF Leave, Errors, None, Sides
<1>6. CASE Exchange(c, "client")
  BY <1>6, ExchangeHolds DEF Sides
<1>7. CASE LoadFails(c)
  BY <1>7, Failing DEF LoadFails, Errors, None, Sides
<1> QED
  BY <1>1, <1>2, <1>3, <1>4, <1>5, <1>6, <1>7 DEF ClientStep

(* The listener's side: a connection goes from the queue to Accept and from*)
(* there to a handler, or is closed on the way.                            *)
LEMMA ListenerHolds ==
  ASSUME Held, AcceptStep \/ Shutdown PROVE Held'
<1>1. ASSUME NEW c \in Clients, Accepted(c) PROVE Held'
  <2>1. /\ pc' \in [Clients -> Labels]
        /\ \A d \in Clients \ {c} : pc'[d] = pc[d]
        /\ pc'[c].server = "writeLength" /\ pc'[c].client = pc[c].client
    BY <1>1, GotoMoves DEF Accepted, Held, TypeOK, Labels, ServerLabels, Sides
  <2>2. TypeOK'
    BY <1>1, <2>1
       DEF Accepted, AcceptReturns, Held, TypeOK, ListenerTypeOK, Labels
  <2> QED
    BY <1>1, <2>1, <2>2
       DEF Accepted, AcceptReturns, Held, NoConnLeaked, Queued, Handled
<1>2. ASSUME NEW c \in Clients, Rejected(c) PROVE Held'
  <2>1. /\ ends' \in [Clients -> SUBSET Sides]
        /\ ends'[c] = ends[c] \ {"server"}
        /\ \A d \in Clients \ {c} : ends'[d] = ends[d]
    BY <1>2, ShutCloses DEF Rejected, AcceptFails, Held, TypeOK, ListenerTypeOK, Sides
  <2>2. TypeOK'
    BY <1>2, <2>1 DEF Rejected, AcceptFails, Held, TypeOK, ListenerTypeOK, run
  <2> QED
    BY <1>2, <2>1, <2>2
       DEF Rejected, AcceptFails, Held, NoConnLeaked, Queued, Handled, run
<1>3. CASE InnerAccept /\ UNCHANGED <<profile, run>>
  <2>1. /\ backlog \in Seq(Clients) /\ backlog # <<>> /\ accepting = None
        /\ accepting' = Head(backlog) /\ backlog' = Tail(backlog)
        /\ UNCHANGED <<profile, run, listening, loop, stops, ends>>
    BY <1>3 DEF InnerAccept, Held, TypeOK, ListenerTypeOK
  <2>2. backlog[1] = Head(backlog) /\ Head(backlog) \in Clients /\ Tail(backlog) \in Seq(Clients)
    BY <2>1
  <2>3. TypeOK'
    BY <2>1, <2>2 DEF Held, TypeOK, ListenerTypeOK, run
  <2>4. ASSUME NEW d \in Clients, NEW i \in DOMAIN backlog, backlog[i] = d,
               d # Head(backlog)
        PROVE  Queued(d)'
    <3>1. i - 1 \in DOMAIN backlog' /\ backlog'[i - 1] = d
      BY <2>1, <2>2, <2>4
    <3> QED
      BY <3>1 DEF Queued
  <2>5. \A d \in Clients : Queued(d) => Queued(d)' \/ accepting' = d
    BY <2>1, <2>4 DEF Queued
  <2>6. \A d \in Clients : accepting # d
    BY <2>1, ListenerAssumption
  <2> QED
    BY <2>1, <2>3, <2>5, <2>6 DEF Held, NoConnLeaked, Handled, run
<1>4. CASE AcceptClosed /\ UNCHANGED <<profile, run>>
  BY <1>4 DEF AcceptClosed, Held, TypeOK, ListenerTypeOK, NoConnLeaked, Queued, Handled, run
<1>5. CASE Shutdown
  <2>1. /\ listening' = FALSE /\ backlog' = <<>>
        /\ ends' = [d \in Clients |-> IF Queued(d) THEN ends[d] \ {"server"} ELSE ends[d]]
        /\ UNCHANGED <<profile, run, loop, stops, accepting>>
    BY <1>5 DEF Shutdown, CloseListener, Queued
  <2>2. TypeOK'
    <3>1. ends' \in [Clients -> SUBSET Sides]
      BY <2>1 DEF Held, TypeOK, ListenerTypeOK
    <3>2. backlog' \in Seq(Clients)
      BY <2>1
    <3> QED
      BY <2>1, <3>1, <3>2 DEF Held, TypeOK, ListenerTypeOK, run
  <2>3. ASSUME NEW d \in Clients, "server" \in ends'[d]
        PROVE  "server" \in ends[d] /\ ~Queued(d)
    BY <2>1, <2>3
  <2> QED
    BY <2>1, <2>2, <2>3 DEF Held, NoConnLeaked, Handled, run
<1> QED
  BY <1>1, <1>2, <1>3, <1>4, <1>5 DEF AcceptStep, Accepting

---------------------------------------------------------------------------

(* At the start nothing is held.                                           *)
LEMMA HeldInit == Init => Held
<1> SUFFICES ASSUME Init PROVE Held
  OBVIOUS
<1>1. TypeOK
  BY ServiceAssumption, ListenerAssumption
     DEF Init, ListenerInit, TypeOK, ListenerTypeOK, ClientLabels, ServerLabels, Errors, None
<1> QED
  BY <1>1 DEF Held, NoConnLeaked, Init, ListenerInit

(* Every step keeps the invariant.                                         *)
LEMMA HeldStep == Held /\ [Next]_vars => Held'
<1> SUFFICES ASSUME Held, [Next]_vars PROVE Held'
  OBVIOUS
<1>1. CASE AcceptStep \/ Shutdown \/ Retire
  BY <1>1, ListenerHolds DEF Retire
<1>2. ASSUME NEW c \in Clients, ClientStep(c) \/ Leave(c) \/ Exchange(c, "server")
      PROVE  Held'
  BY <1>2, ClientHolds, ExchangeHolds DEF Sides
<1>3. CASE UNCHANGED vars
  BY <1>3 DEF vars, run, listener, Held, TypeOK, ListenerTypeOK, NoConnLeaked, Queued, Handled
<1> QED
  BY <1>1, <1>2, <1>3 DEF Next, System

(* The state of every connection, its run and its handler has its shape,   *)
(* and a run has failed exactly when it returns an error (client.go:89-285,*)
(* api.go:107-131).                                                        *)
THEOREM ServiceTypeCorrect == Spec => []TypeOK
<1>1. Held => TypeOK
  BY DEF Held
<1> QED
  BY <1>1, HeldInit, HeldStep, PTL DEF Spec

(* Accept closes what it does not return, and a handler closes what it was *)
(* given: with any number of clients, of any kind, no connection is left   *)
(* open on the server with nobody in charge of it (api.go:112-123).        *)
THEOREM NoConnectionLeaks == Spec => []NoConnLeaked
<1>1. Held => NoConnLeaked
  BY DEF Held
<1> QED
  BY <1>1, HeldInit, HeldStep, PTL DEF Spec
---------------------------------------------------------------------------
(* What is said on a connection                                            *)

(* The records of the frame a side writes: of its length only, or all of it*)
Written(n, p, joined, whole) ==
  IF joined THEN IF whole THEN <<Sealed(Header(n) \o p)>> ELSE <<>>
  ELSE IF whole THEN <<Sealed(Header(n)), Sealed(p)>> ELSE <<Sealed(Header(n))>>

(* The reader has what Read made of the record of the length: the four     *)
(* bytes, which it may have taken, or three of them.                       *)
LengthRead(label, b, k, n) ==
  \/ /\ ~Misread(n)
     /\ \/ label = "readLength" /\ b = Header(n)
        \/ label = "readPayload" /\ b = <<>> /\ k = n
  \/ n % 256 = 23 /\ label = "readLength" /\ b = <<0, 0, n \div 256>>

(* Of the length and the payload p of a frame, w is on its way, and the    *)
(* bytes b have arrived; k is the length the reader has taken.  After a    *)
(* misread length it waits for more than will ever come.                   *)
Coming(label, w, b, k, n, p, joined, whole) ==
  \/ label = "readLength" /\ b = <<>> /\ w = Written(n, p, joined, whole)
  \/ ~joined /\ LengthRead(label, b, k, n) /\ w = IF whole THEN <<Sealed(p)>> ELSE <<>>
  \/ /\ whole /\ w = <<>>
     /\ \/ joined /\ label = "readLength" /\ b = Header(n) \o p
        \/ label = "readPayload" /\ b = p /\ k = n
        \/ /\ ~joined /\ n % 256 = 23
           /\ \/ label = "readLength" /\ b = <<0, 0, n \div 256>> \o p
              \/ label = "readPayload" /\ Len(b) < k - 4

(* All that was said to a side it has taken.                               *)
Idle(c, side) ==
  /\ wire[c][side] = <<>> /\ inbox[c][side] = <<>>
  /\ read[c][side] = sent[c][Peer(side)]
  /\ Len(begun[c][Peer(side)]) = Len(sent[c][Peer(side)])

(* The frame s says, and how far the other side is with it.                *)
Saying(c, s, whole) ==
  LET t == Peer(s)
      n == Last(begun[c][s])
  IN  Coming(pc[c][t], wire[c][t], inbox[c][t], size[c][t],
             n, Payload(n, Len(read[c][t])), Joins(c, s), whole)

(* It is the turn of s, which has said nothing yet ...                     *)
Silent(c, s) ==
  /\ Idle(c, s) /\ Idle(c, Peer(s))
  /\ pc[c][s] \in {"none", "writeLength", "done", "failed"}
  /\ pc[c][Peer(s)] \in {"dial", "handshake", "readLength", "failed"}

(* ... or the length of its frame, or all of it; the other side listens,   *)
(* or has failed.                                                          *)
Spoken(c, s, whole) ==
  /\ Idle(c, s)
  /\ pc[c][s] \in {IF whole THEN "readLength" ELSE "writePayload", "failed"}
  /\ pc[c][Peer(s)] \in {"readLength", "readPayload", "failed"}
  /\ Len(begun[c][s]) = Len(read[c][Peer(s)]) + 1
  /\ sent[c][s] =
       IF whole THEN Append(read[c][Peer(s)],
                            Payload(Last(begun[c][s]), Len(read[c][Peer(s)])))
                ELSE read[c][Peer(s)]
  /\ pc[c][Peer(s)] # "failed" => Saying(c, s, whole)

(* The server has said as much as the client, or one frame more.           *)
Even(c, s) ==
  IF s = "server" THEN Len(read[c]["client"]) = Len(sent[c]["client"])
                  ELSE Len(sent[c]["server"]) = Len(read[c]["server"]) + 1

Turn(c, s) == Even(c, s) /\ (Silent(c, s) \/ \E whole \in BOOLEAN : Spoken(c, s, whole))

(* A run has at most two requests, and one left when it is about to write. *)
Requests(c) ==
  /\ Len(sent[c]["client"]) + Len(todo[c]) <= 2
  /\ pc[c].client \in {"writeLength", "writePayload"} => todo[c] # <<>>

Actions == {"hello", "login", "check"}

FrameTypes ==
  /\ todo \in [Clients -> Seq(Actions)]
  /\ wire \in [Clients -> [Sides -> Seq(Seq(Nat))]]
  /\ inbox \in [Clients -> [Sides -> Seq(Nat)]]
  /\ size \in [Clients -> [Sides -> Nat]]
  /\ begun \in [Clients -> [Sides -> Seq(Lengths)]]
  /\ {sent, read} \subseteq [Clients -> [Sides -> Seq(Payloads)]]

(* The frames of a connection, and whose turn it is.                       *)
Talk(c) == Requests(c) /\ \E s \in Sides : Turn(c, s)

Dialogs == FrameTypes /\ \A c \in Clients : Talk(c)

---------------------------------------------------------------------------
(* Why a side fails                                                        *)

(* A connection is in the queue or in Accept once.                         *)
QueuedOnce ==
  /\ \A i, j \in DOMAIN backlog : backlog[i] = backlog[j] => i = j
  /\ \A i \in DOMAIN backlog : backlog[i] # accepting

EitherMisframes(c) == Misframes(c, "client") \/ Misframes(c, "server")

(* Who has the socket of a connection open, by where its two sides are.    *)
Opened(c) ==
  /\ pc[c].client \in {"dial", "handshake"} => pc[c].server = "none"
  /\ pc[c].client = "dial" => ~Queued(c) /\ accepting # c
  /\ Queued(c) => pc[c].client \in {"handshake", "failed"} /\ pc[c].server = "none"
  /\ accepting = c => pc[c].server = "none"
  /\ Queued(c) \/ accepting = c => "server" \in ends[c]
  /\ ~Over(c) /\ pc[c].client # "dial" => "client" \in ends[c]

(* Past its handshake a run has a server, unless that has failed.          *)
Served(c) ==
  ~Over(c) /\ pc[c].client \notin {"dial", "handshake"} =>
    /\ profile[c].kind \in {"epp", "refused"}
    /\ profile[c].kind = "epp" => "server" \in ends[c] \/ pc[c].server = "failed"

Blamed(c) ==
  /\ pc[c].server = "failed" => EitherMisframes(c) \/ Over(c)
  /\ why[c] \in {"record", "eof", "length", "write"} =>
       profile[c].kind = "refused" \/ EitherMisframes(c)

Causes == QueuedOnce /\ \A c \in Clients : Opened(c) /\ Served(c) /\ Blamed(c)

(* The inductive invariant.                                                *)
Service == Held /\ Dialogs /\ Causes

---------------------------------------------------------------------------
(* Records and frames                                                      *)

FrameLengths == 6..1000

(* The lengths of frames.                                                  *)
LEMMA LengthsOfFrames == Lengths \subseteq FrameLengths
  BY ServiceAssumption DEF FrameLengths

(* Read strips the content type of a record of application data and goes   *)
(* on with its content.                                                    *)
LEMMA OutcomeOfSealed ==
  ASSUME NEW b \in Seq(Nat)
  PROVE  Outcome(Sealed(b)) = Unwrap(b) /\ Sealed(b) \in Seq(Nat)
<1> DEFINE d == Sealed(b)
           I == {i \in 1..Len(d) : d[i] # 0}
<1>1. d = Append(b, 23)
  <2>1. [i \in 1..0 |-> 0] = <<>>
    OBVIOUS
  <2>2. Append(b, 23) \in Seq(Nat)
    OBVIOUS
  <2> QED
    BY <2>1, <2>2 DEF Sealed, InnerPlaintext, ApplicationData
<1>2. /\ d \in Seq(Nat) /\ Len(d) = Len(b) + 1 /\ d[Len(d)] = 23
      /\ SubSeq(d, 1, Len(d) - 1) = b
  BY <1>1
<1> HIDE DEF d
<1>3. Len(d) \in I /\ \A y \in I : Len(d) >= y
  BY <1>2
<1>4. \A x \in I : (\A y \in I : x >= y) => x = Len(d)
  BY <1>2, <1>3
<1>5. Max(I) = Len(d)
  BY <1>3, <1>4 DEF Max
<1>6. TypePosition(d) = Len(d)
  <2>1. TypePosition(d) = IF I # {} THEN Max(I) ELSE 0
    BY DEF TypePosition, SelectLastInSeq
  <2>2. I # {}
    BY <1>3
  <2> HIDE DEF I
  <2> QED
    BY <1>5, <2>1, <2>2
<1>7. HasInnerType(d)
  BY <1>3 DEF HasInnerType
<1>8. InnerType(d) = ApplicationData /\ InnerType(d) # Alert /\ Content(d) = b
  BY <1>2, <1>6 DEF InnerType, Content, ApplicationData, Alert
<1>9. Outcome(d) = Unwrap(b)
  BY <1>7, <1>8 DEF Outcome
<1> QED
  BY <1>2, <1>9 DEF d

(* The first three of four bytes.                                          *)
LEMMA ThreeOfFour ==
  ASSUME NEW q \in Nat, NEW r \in Nat
  PROVE  /\ <<0, 0, q, r>> \in Seq(Nat) /\ Front(<<0, 0, q, r>>) = <<0, 0, q>>
         /\ Len(<<0, 0, q, r>>) = 4 /\ Last(<<0, 0, q, r>>) = r
<1> DEFINE h == <<0, 0, q, r>>
           f == <<0, 0, q>>
           s == SubSeq(h, 1, 3)
<1>1. /\ h \in Seq(Nat) /\ Len(h) = 4 /\ h[1] = 0 /\ h[2] = 0 /\ h[3] = q /\ h[4] = r
      /\ f \in Seq(Nat) /\ Len(f) = 3 /\ f[1] = 0 /\ f[2] = 0 /\ f[3] = q
  OBVIOUS
<1> HIDE DEF h, f
<1>2. \A i \in 1..3 : h[i] \in Nat
  BY <1>1
<1>3. s \in Seq(Nat) /\ Len(s) = 3 /\ \A i \in 1..3 : s[i] = h[i]
  BY <1>2, SubSeqProperties
<1> HIDE DEF s
<1>4. \A i \in 1..3 : s[i] = f[i]
  <2>1. \A i \in 1..3 : i = 1 \/ i = 2 \/ i = 3
    OBVIOUS
  <2> QED
    BY <1>1, <1>3, <2>1
<1>5. s = f
  BY <1>1, <1>3, <1>4, SeqEqual
<1>6. Front(h) = f
  BY <1>1, <1>5 DEF Front, s
<1> QED
  BY <1>1, <1>6 DEF Last, h, f

(* The bytes h are the length n of a frame.                                *)
LengthBytes(h, n) ==
  /\ h \in Seq(Nat) /\ Len(h) = 4 /\ h # <<>>
  /\ h[1] = 0 /\ h[2] = 0 /\ h[3] = n \div 256 /\ h[4] = n % 256
  /\ Last(h) = n % 256 /\ Front(h) = <<0, 0, n \div 256>>
  /\ HeaderValue(h) = n

(* The four bytes of a length.                                             *)
LEMMA HeaderOf ==
  ASSUME NEW n \in FrameLengths
  PROVE  LengthBytes(Header(n), n)
<1>1. n \div 256 \in Nat /\ n % 256 \in Nat
  BY DEF FrameLengths
<1>2. n = (n \div 256) * 256 + (n % 256)
  BY DEF FrameLengths
<1>3. Header(n) = <<0, 0, n \div 256, n % 256>>
  BY DEF Header
<1> DEFINE q == n \div 256
           r == n % 256
<1> HIDE DEF q, r
<1>4. <<0, 0, q, r>> \in Seq(Nat) /\ Len(<<0, 0, q, r>>) = 4 /\ Last(<<0, 0, q, r>>) = r
      /\ Front(<<0, 0, q, r>>) = <<0, 0, q>>
  BY <1>1, ThreeOfFour DEF q, r
<1>5. HeaderValue(<<0, 0, q, r>>) = q * 256 + r
  BY <1>1 DEF HeaderValue, q, r
<1>6. <<0, 0, q, r>> # <<>>
  OBVIOUS
<1> QED
  BY <1>2, <1>3, <1>4, <1>5, <1>6 DEF LengthBytes, q, r

(* p may be the payload of a frame of n bytes.                             *)
Text(p, n) == p \in Seq(Nat) /\ Len(p) = n - 4 /\ p[1] = 60 /\ p[Len(p)] = 62

(* A payload has the bytes the length promises.                            *)
LEMMA PayloadOf ==
  ASSUME NEW n \in FrameLengths, NEW serial \in Nat PROVE Text(Payload(n, serial), n)
<1> DEFINE m == [i \in 1 .. n - 6 |-> 96 + serial]
<1>1. m \in Seq(Nat) /\ Len(m) = n - 6
  BY DEF FrameLengths
<1> HIDE DEF m
<1>2. <<60>> \o m \in Seq(Nat) /\ Len(<<60>> \o m) = n - 5 /\ (<<60>> \o m)[1] = 60
  BY <1>1 DEF FrameLengths
<1> DEFINE l == <<60>> \o m
<1>3. Payload(n, serial) = l \o <<62>>
  BY DEF Payload, m
<1>4. l \in Seq(Nat) /\ Len(l) = n - 5 /\ l[1] = 60 /\ n - 5 \in Nat \ {0}
  BY <1>2
<1> HIDE DEF l
<1>5. l \o <<62>> \in Seq(Nat) /\ Len(l \o <<62>>) = (n - 5) + 1
  BY <1>4
<1>6. (l \o <<62>>)[1] = 60 /\ (l \o <<62>>)[n - 5 + 1] = 62
  BY <1>4 DEF FrameLengths
<1> QED
  BY <1>3, <1>5, <1>6 DEF Text, FrameLengths

(* What is left of a sequence after its first m elements.                  *)
LEMMA Dropped ==
  ASSUME NEW r \in Seq(Nat), NEW m \in Nat, NEW k \in Nat, Len(r) = m + k
  PROVE  LET s == SubSeq(r, m + 1, m + k)
         IN  s \in Seq(Nat) /\ Len(s) = k /\ \A i \in 1..k : s[i] = r[m + i]
<1> DEFINE s == SubSeq(r, m + 1, m + k)
<1>1. \A i \in m + 1 .. m + k : r[i] \in Nat
  <2>1. \A i \in m + 1 .. m + k : i \in 1..Len(r)
    OBVIOUS
  <2> QED
    BY <2>1, ElementOfSeq
<1>2. m + 1 \in Int /\ m + k \in Int
  OBVIOUS
<1>3. /\ s \in Seq(Nat)
      /\ Len(s) = IF m + 1 <= m + k THEN m + k - (m + 1) + 1 ELSE 0
      /\ \A i \in 1 .. m + k - (m + 1) + 1 : s[i] = r[m + 1 + i - 1]
  BY <1>1, <1>2, SubSeqProperties
<1> HIDE DEF s
<1>4. m + k - (m + 1) + 1 = k /\ (m + 1 <= m + k <=> k # 0)
  OBVIOUS
<1>5. \A i \in 1..k : m + 1 + i - 1 = m + i
  OBVIOUS
<1>6. \A i \in 1..k : s[i] = r[m + i]
  BY <1>3, <1>4, <1>5
<1> QED
  BY <1>3, <1>4, <1>6 DEF s

(* b is a followed by p.                                                   *)
Together(b, a, p) ==
  /\ b \in Seq(Nat) /\ Len(b) = Len(a) + Len(p)
  /\ \A i \in 1..Len(a) : b[i] = a[i]
  /\ \A i \in 1..Len(p) : b[Len(a) + i] = p[i]
  /\ SubSeq(b, Len(a) + 1, Len(b)) = p

(* Bytes joined to a beginning.                                            *)
LEMMA JoinedBytes ==
  ASSUME NEW a \in Seq(Nat), NEW p \in Seq(Nat) PROVE Together(a \o p, a, p)
<1> DEFINE r == a \o p
           s == SubSeq(r, Len(a) + 1, Len(a) + Len(p))
<1>1. /\ r \in Seq(Nat) /\ Len(r) = Len(a) + Len(p)
      /\ \A i \in 1..Len(a) : r[i] = a[i]
      /\ \A i \in 1..Len(p) : r[Len(a) + i] = p[i]
  OBVIOUS
<1>2. Len(a) \in Nat /\ Len(p) \in Nat
  OBVIOUS
<1> HIDE DEF r
<1>3. s \in Seq(Nat) /\ Len(s) = Len(p) /\ \A i \in 1..Len(p) : s[i] = r[Len(a) + i]
  BY <1>1, <1>2, Dropped
<1>4. s = p
  <2>1. \A i \in 1..Len(s) : s[i] = p[i]
    BY <1>1, <1>3
  <2> HIDE DEF s
  <2> QED
    BY <1>3, <2>1, SeqEqual
<1> QED
  BY <1>1, <1>4 DEF r, Together

(* What ends like a payload is read as it is.                              *)
LEMMA UnwrapText ==
  ASSUME NEW b \in Seq(Nat), Len(b) > 0, b[Len(b)] = 62
  PROVE  Unwrap(b) = Data(b)
BY DEF Unwrap, IsInnerTypeByte, Last, ChangeCipherSpec, ApplicationData

(* A length is read as it is unless its last byte is that of a content     *)
(* type, when it loses that byte or is an error.                           *)
LEMMA UnwrapHeader ==
  ASSUME NEW n \in FrameLengths
  PROVE  /\ ~Misread(n) => Unwrap(Header(n)) = Data(Header(n))
         /\ n % 256 = 23 => Unwrap(Header(n)) = Data(<<0, 0, n \div 256>>)
         /\ Misread(n) /\ n % 256 # 23 => Unwrap(Header(n)) = Error
<1> DEFINE h == Header(n)
           f == <<0, 0, n \div 256>>
<1>1. h # <<>> /\ Last(h) = n % 256 /\ n % 256 \in Nat /\ Front(h) = f
  <2>1. LengthBytes(h, n)
    BY HeaderOf, Zenon
  <2> HIDE DEF h
  <2> QED
    BY <2>1 DEF LengthBytes
<1>2. /\ IsInnerTypeByte(Last(h)) <=> Misread(n)
      /\ Misread(n) <=> n % 256 \in 20..23
  BY <1>1 DEF Misread, IsInnerTypeByte, ChangeCipherSpec, ApplicationData
<1>4. f # <<>> /\ f[1] = 0
  OBVIOUS
<1> HIDE DEF h, f
<1>5. ~Misread(n) => Unwrap(h) = Data(h)
  BY <1>2 DEF Unwrap
<1>6. n % 256 = 23 => Unwrap(h) = Data(f)
  <2>1. n % 256 = 23 => IsInnerTypeByte(Last(h)) /\ Last(h) = ApplicationData
    BY <1>1 DEF IsInnerTypeByte, ChangeCipherSpec, ApplicationData
  <2> QED
    <3> SUFFICES ASSUME n % 256 = 23 PROVE Unwrap(h) = Data(f)
      OBVIOUS
    <3>1. IsInnerTypeByte(Last(h)) /\ Last(h) = ApplicationData
      BY <1>1, <2>1
    <3> QED
      BY <1>1, <3>1 DEF Unwrap, Alert, ApplicationData, Handshake
<1>7. AlertOutcome(f) = Error /\ ~ConsumesTickets(f)
  BY <1>4 DEF AlertOutcome, ConsumesTickets, NewSessionTicket
<1>8. Misread(n) /\ n % 256 # 23 => Unwrap(h) = Error
  BY <1>1, <1>2, <1>7
     DEF Unwrap, ApplicationData, Alert, Handshake, ChangeCipherSpec
<1> QED
  BY <1>5, <1>6, <1>8 DEF h, f

---------------------------------------------------------------------------
(* A frame on its way                                                      *)

(* b is the length n of a frame and the payload p.                         *)
Both(b, n, p) ==
  /\ b \in Seq(Nat) /\ Len(b) = n /\ b[Len(b)] = 62
  /\ HeaderValue(b) = n /\ SubSeq(b, 5, Len(b)) = p

(* Length and payload in one record.                                       *)
LEMMA LengthAndText ==
  ASSUME NEW n \in FrameLengths, NEW p, Text(p, n) PROVE Both(Header(n) \o p, n, p)
<1> DEFINE h == Header(n)
           b == h \o p
<1>1. LengthBytes(h, n)
  BY HeaderOf, Zenon
<1> HIDE DEF h
<1>2. h \in Seq(Nat) /\ Len(h) = 4 /\ p \in Seq(Nat) /\ Len(p) = n - 4 /\ p[Len(p)] = 62
  BY <1>1 DEF LengthBytes, Text
<1>3. Together(b, h, p)
  BY <1>2, JoinedBytes
<1> HIDE DEF b
<1>4. Len(b) = n /\ Len(h) + Len(p) = Len(b) /\ Len(p) \in 1..Len(p)
  BY <1>2, <1>3 DEF Together, FrameLengths
<1>5. b[Len(b)] = 62
  <2>1. b[Len(h) + Len(p)] = p[Len(p)]
    BY <1>3, <1>4 DEF Together
  <2> QED
    BY <1>2, <1>4, <2>1
<1>6. 1 \in 1..4 /\ 2 \in 1..4 /\ 3 \in 1..4 /\ 4 \in 1..4
  OBVIOUS
<1>7. HeaderValue(b) = HeaderValue(h)
  BY <1>2, <1>3, <1>6 DEF HeaderValue, Together
<1>8. HeaderValue(h) = n
  BY <1>1 DEF LengthBytes
<1>9. SubSeq(b, 5, Len(b)) = p
  BY <1>2, <1>3 DEF Together
<1> QED
  BY <1>3, <1>4, <1>5, <1>7, <1>8, <1>9 DEF b, h, Together, Both

(* b is taken for the beginning of a longer frame than it is.              *)
TooShort(b) ==
  /\ b \in Seq(Nat) /\ Len(b) > 3
  /\ HeaderValue(b) \in Nat /\ ValidLength(HeaderValue(b))
  /\ Len(SubSeq(b, 5, Len(b))) < HeaderValue(b) - 4

(* Three bytes of a length that was cut, and what is taken for the fourth. *)
LEMMA CutAndText ==
  ASSUME NEW n \in FrameLengths, NEW p, Text(p, n), n % 256 = 23
  PROVE  TooShort(<<0, 0, n \div 256>> \o p)
<1> DEFINE q == n \div 256
           h == <<0, 0, q>>
           b == h \o p
<1>1. q \in 0..3 /\ n = q * 256 + 23
  BY DEF FrameLengths
<1> HIDE DEF q
<1>2. h \in Seq(Nat) /\ Len(h) = 3 /\ h[1] = 0 /\ h[2] = 0 /\ h[3] = q
  BY <1>1
<1>3. p \in Seq(Nat) /\ Len(p) = n - 4 /\ p[1] = 60
  BY DEF Text
<1> HIDE DEF h
<1>4. Together(b, h, p)
  BY <1>2, <1>3, JoinedBytes
<1> HIDE DEF b
<1>5. 1 \in 1..3 /\ 2 \in 1..3 /\ 3 \in 1..3 /\ 1 \in 1..Len(p) /\ 3 + 1 = 4
  BY <1>3 DEF FrameLengths
<1>6. b[1] = 0 /\ b[2] = 0 /\ b[3] = q /\ b[4] = 60 /\ Len(b) = n - 1
  <2>1. b[1] = h[1] /\ b[2] = h[2] /\ b[3] = h[3] /\ b[3 + 1] = p[1] /\ Len(b) = 3 + Len(p)
    BY <1>2, <1>4, <1>5 DEF Together
  <2> QED
    BY <1>2, <1>3, <2>1 DEF FrameLengths
<1>7. HeaderValue(b) = q * 256 + 60
  BY <1>1, <1>6 DEF HeaderValue
<1>8. ValidLength(q * 256 + 60) /\ q * 256 + 60 \in Nat
  BY <1>1 DEF ValidLength, MaxFrame
<1> DEFINE m == n - 5
<1>9. m \in Nat /\ Len(b) = 4 + m /\ m < q * 256 + 56
  BY <1>1, <1>6
<1> HIDE DEF m
<1>10. Len(SubSeq(b, 4 + 1, 4 + m)) = m
  BY <1>4, <1>9, Dropped DEF Together
<1>11. Len(SubSeq(b, 5, Len(b))) = m
  BY <1>9, <1>10
<1>12. m < q * 256 + 60 - 4 /\ Len(b) > 3
  BY <1>1, <1>9
<1>13. TooShort(b)
  <2>1. b \in Seq(Nat) /\ Len(b) > 3
    BY <1>4, <1>12 DEF Together
  <2>2. HeaderValue(b) \in Nat /\ ValidLength(HeaderValue(b))
    BY <1>7, <1>8, Zenon
  <2>3. Len(SubSeq(b, 5, Len(b))) < HeaderValue(b) - 4
    BY <1>1, <1>7, <1>9, <1>11, <1>12
  <2> QED
    BY <2>1, <2>2, <2>3 DEF TooShort
<1> QED
  BY <1>13 DEF b, h, q

(* The length, or nothing yet, is what a frame begins with.                *)
LEMMA ComingBegins ==
  ASSUME NEW n, NEW p, NEW k, NEW joined
  PROVE  Coming("readLength", Written(n, p, joined, FALSE), <<>>, k, n, p, joined, FALSE)
BY DEF Coming

(* One or two records.                                                     *)
LEMMA Appended == \A x, y : Append(<<>>, x) = <<x>> /\ Append(<<x>>, y) = <<x, y>>
<1> SUFFICES ASSUME NEW x, NEW y
             PROVE  Append(<<>>, x) = <<x>> /\ Append(<<x>>, y) = <<x, y>>
  BY Zenon
<1> DEFINE S == {x, y}
           s == <<x, y>>
           a == Append(<<x>>, y)
<1>1. /\ <<>> \in Seq(S) /\ <<x>> \in Seq(S) /\ s \in Seq(S) /\ x \in S /\ y \in S
      /\ Len(<<x>>) = 1 /\ Len(s) = 2 /\ s[1] = x /\ s[2] = y /\ <<x>>[1] = x
  OBVIOUS
<1> HIDE DEF S, s
<1>2. a \in Seq(S) /\ Len(a) = 2 /\ a[1] = x /\ a[2] = y
  BY <1>1, AppendProperties
<1> HIDE DEF a
<1>3. \A i \in 1..2 : a[i] = s[i]
  <2>1. \A i \in 1..2 : i = 1 \/ i = 2
    OBVIOUS
  <2> QED
    BY <1>1, <1>2, <2>1
<1>4. a = s
  BY <1>1, <1>2, <1>3, SeqEqual
<1> DEFINE u == Append(<<>>, x)
<1>5. u \in Seq(S) /\ Len(u) = 1 /\ u[1] = x
  BY <1>1, AppendProperties
<1> HIDE DEF u
<1>6. \A i \in 1..1 : u[i] = <<x>>[i]
  BY <1>1, <1>5
<1>7. u = <<x>>
  BY <1>1, <1>5, <1>6, SeqEqual
<1> QED
  BY <1>4, <1>7 DEF a, s, u

(* The rest of the frame is written.                                       *)
LEMMA ComingWhole ==
  ASSUME NEW label, NEW w, NEW b, NEW k, NEW n, NEW p, NEW joined \in BOOLEAN,
         Coming(label, w, b, k, n, p, joined, FALSE)
  PROVE  Coming(label, Append(w, Sealed(IF joined THEN Header(n) \o p ELSE p)), b, k,
                n, p, joined, TRUE)
<1>1. \A x, y : Append(<<>>, x) = <<x>> /\ Append(<<x>>, y) = <<x, y>>
  BY Appended, Zenon
<1> DEFINE x == Sealed(Header(n))
           y == Sealed(p)
           z == Sealed(Header(n) \o p)
<1> HIDE DEF x, y, z
<1>2. CASE label = "readLength" /\ b = <<>> /\ w = Written(n, p, joined, FALSE)
  <2>1. CASE joined
    <3>1. w = <<>> /\ Written(n, p, joined, TRUE) = <<z>>
      BY <1>2, <2>1 DEF Written, z
    <3>2. Append(w, z) = Written(n, p, joined, TRUE)
      BY <1>1, <3>1
    <3> QED
      BY <1>2, <2>1, <3>2 DEF Coming, z
  <2>2. CASE ~joined
    <3>1. w = <<x>> /\ Written(n, p, joined, TRUE) = <<x, y>>
      BY <1>2, <2>2 DEF Written, x, y
    <3>2. Append(w, y) = Written(n, p, joined, TRUE)
      BY <1>1, <3>1
    <3> QED
      BY <1>2, <2>2, <3>2 DEF Coming, y
  <2> QED
    BY <2>1, <2>2, Zenon
<1>3. CASE ~joined /\ LengthRead(label, b, k, n) /\ w = <<>>
  <2>1. Append(w, y) = <<y>>
    BY <1>1, <1>3
  <2> QED
    BY <1>3, <2>1 DEF Coming, y
<1> QED
  BY <1>2, <1>3 DEF Coming

(* A side hears a frame: all that is known of it.                          *)
Hears(label, w, b, k, n, p, joined, whole) ==
  /\ k \in Nat /\ n \in FrameLengths /\ Text(p, n) /\ b \in Seq(Nat)
  /\ joined \in BOOLEAN /\ whole \in BOOLEAN
  /\ Coming(label, w, b, k, n, p, joined, whole)

(* Of a frame that is on its way one record is read, unless it has a       *)
(* misread length.                                                         *)
Got(label, w, b, k, n, p, joined, whole) ==
  LET r == Outcome(Head(w)) IN
  /\ r.kind = "data" =>
       b \o r.bytes \in Seq(Nat)
         /\ Coming(label, Tail(w), b \o r.bytes, k, n, p, joined, whole)
  /\ r.kind # "data" => ~joined /\ Misread(n)

(* It is data, and joins what has arrived.                                 *)
LEMMA GotData ==
  ASSUME NEW label, NEW w, NEW b, NEW k, NEW n, NEW p, NEW joined, NEW whole,
         NEW d, NEW e \in Seq(Nat), Outcome(Head(w)) = Data(d), b \o d = e,
         Coming(label, Tail(w), e, k, n, p, joined, whole)
  PROVE  Got(label, w, b, k, n, p, joined, whole)
<1>1. Data(d).kind = "data" /\ Data(d).bytes = d
  BY DEF Data
<1> DEFINE r == Outcome(Head(w))
<1>2. r.kind = "data" /\ r.bytes = d
  BY <1>1
<1> HIDE DEF r
<1>3. b \o r.bytes = e
  BY <1>2, Zenon
<1> QED
  BY <1>2, <1>3, Zenon DEF Got, r

(* Reading a record of a frame.                                            *)
LEMMA ComingRecord ==
  ASSUME NEW label, NEW w, NEW b, NEW k, NEW n, NEW p, NEW joined, NEW whole,
         Hears(label, w, b, k, n, p, joined, whole), w # <<>>,
         label = "readLength" => Len(b) < 4
  PROVE  Got(label, w, b, k, n, p, joined, whole)
<1> /\ k \in Nat /\ n \in FrameLengths /\ Text(p, n) /\ b \in Seq(Nat)
    /\ joined \in BOOLEAN /\ whole \in BOOLEAN
    /\ Coming(label, w, b, k, n, p, joined, whole)
  BY Zenon DEF Hears
<1> DEFINE h == Header(n)
           q == n \div 256
<1>1. h \in Seq(Nat) /\ Len(h) = 4
  <2>1. LengthBytes(h, n)
    BY HeaderOf, Zenon
  <2> HIDE DEF h
  <2> QED
    BY <2>1 DEF LengthBytes
<1>2. p \in Seq(Nat) /\ Unwrap(p) = Data(p)
  <2>1. Len(p) > 0
    BY DEF Text, FrameLengths
  <2> QED
    BY <2>1, UnwrapText, Zenon DEF Text
<1>3. h \o p \in Seq(Nat) /\ Unwrap(h \o p) = Data(h \o p)
  <2> DEFINE d == h \o p
  <2>1. Both(d, n, p)
    BY LengthAndText, Zenon
  <2> HIDE DEF d
  <2>2. Len(d) > 0
    BY <2>1 DEF Both, FrameLengths
  <2>3. Unwrap(d) = Data(d)
    BY <2>1, <2>2, UnwrapText, Zenon DEF Both
  <2> QED
    BY <2>1, <2>3 DEF d, Both
<1>4. /\ Outcome(Sealed(h)) = Unwrap(h) /\ Outcome(Sealed(p)) = Data(p)
      /\ Outcome(Sealed(h \o p)) = Data(h \o p)
  BY <1>1, <1>2, <1>3, OutcomeOfSealed, Zenon
<1>5. /\ ~Misread(n) => Unwrap(h) = Data(h)
      /\ n % 256 = 23 => Unwrap(h) = Data(<<0, 0, q>>)
      /\ Misread(n) /\ n % 256 # 23 => Unwrap(h) = Error
  BY UnwrapHeader, Zenon
<1>6. <<0, 0, q>> \in Seq(Nat) /\ <<0, 0, q>> \o p \in Seq(Nat)
  <2>1. q \in Nat
    BY DEF FrameLengths
  <2> HIDE DEF q
  <2> QED
    BY <1>2, <2>1
<1>7. \A x \in Seq(Nat) : <<>> \o x = x
  OBVIOUS
<1>8. Error.kind # "data"
  BY DEF Error
<1>9. \A x, y : /\ Head(<<x>>) = x /\ Tail(<<x>>) = <<>>
                /\ Head(<<x, y>>) = x /\ Tail(<<x, y>>) = <<y>>
  OBVIOUS
<1> HIDE DEF h, q
<1> DEFINE x == Sealed(h)
           y == Sealed(p)
           z == Sealed(h \o p)
<1> HIDE DEF x, y, z
<1>10. CASE label = "readLength" /\ b = <<>> /\ w = Written(n, p, joined, whole)
  <2>1. CASE joined
    <3>1. whole /\ w = <<z>>
      BY <1>10, <2>1 DEF Written, z, h
    <3>2. Head(w) = z /\ Tail(w) = <<>>
      BY <1>9, <3>1
    <3>3. Outcome(Head(w)) = Data(h \o p)
      BY <1>4, <3>2 DEF z
    <3>4. Coming(label, <<>>, h \o p, k, n, p, joined, whole)
      BY <1>10, <2>1, <3>1 DEF Coming, h
    <3>5. b \o (h \o p) = h \o p
      BY <1>3, <1>7, <1>10
    <3> QED
      BY <1>3, <3>2, <3>3, <3>4, <3>5, GotData, Zenon
  <2>2. CASE ~joined
    <3>1. w = IF whole THEN <<x, y>> ELSE <<x>>
      BY <1>10, <2>2 DEF Written, x, y, h
    <3>2. Head(w) = x /\ Tail(w) = IF whole THEN <<y>> ELSE <<>>
      BY <1>9, <3>1
    <3>3. Outcome(Head(w)) = Unwrap(h)
      BY <1>4, <3>2 DEF x
    <3>4. \A d : LengthRead(label, d, k, n) => Coming(label, Tail(w), d, k, n, p, joined, whole)
      BY <2>2, <3>2 DEF Coming, y
    <3>5. CASE ~Misread(n)
      <4>1. LengthRead(label, h, k, n)
        BY <1>10, <3>5 DEF LengthRead, h
      <4>2. Coming(label, Tail(w), h, k, n, p, joined, whole)
        BY <3>4, <4>1
      <4>3. Outcome(Head(w)) = Data(h) /\ b \o h = h
        BY <1>1, <1>5, <1>7, <1>10, <3>3, <3>5
      <4> QED
        BY <1>1, <4>2, <4>3, GotData, Zenon
    <3>6. CASE n % 256 = 23
      <4> DEFINE f == <<0, 0, q>>
      <4>1. LengthRead(label, f, k, n)
        BY <1>10, <3>6 DEF LengthRead, q
      <4>2. Coming(label, Tail(w), f, k, n, p, joined, whole)
        BY <3>4, <4>1
      <4>3. Outcome(Head(w)) = Data(f)
        BY <1>5, <3>3, <3>6
      <4>4. f \in Seq(Nat)
        BY <1>6
      <4> HIDE DEF f
      <4>5. b \o f = f
        BY <1>7, <1>10, <4>4
      <4> QED
        BY <4>2, <4>3, <4>4, <4>5, GotData, Zenon
    <3>7. CASE Misread(n) /\ n % 256 # 23
      <4>1. Outcome(Head(w)).kind # "data"
        BY <1>5, <1>8, <3>3, <3>7
      <4> QED
        BY <2>2, <3>7, <4>1 DEF Got
    <3> QED
      BY <3>5, <3>6, <3>7
  <2> QED
    BY <2>1, <2>2, Zenon
<1>11. CASE ~joined /\ LengthRead(label, b, k, n) /\ w = IF whole THEN <<Sealed(p)>> ELSE <<>>
  <2>1. whole /\ w = <<y>>
    BY <1>11 DEF y
  <2>2. Head(w) = y /\ Tail(w) = <<>>
    BY <1>9, <2>1
  <2>3. Outcome(Head(w)) = Data(p)
    BY <1>4, <2>2 DEF y
  <2>4. CASE label = "readPayload" /\ b = <<>> /\ k = n
    <3>1. Coming(label, <<>>, p, k, n, p, joined, whole)
      BY <2>1, <2>4 DEF Coming
    <3>2. b \o p = p
      BY <1>2, <1>7, <2>4
    <3> QED
      BY <1>2, <2>2, <2>3, <3>1, <3>2, GotData, Zenon
  <2>5. CASE n % 256 = 23 /\ label = "readLength" /\ b = <<0, 0, q>>
    <3>1. Coming(label, <<>>, b \o p, k, n, p, joined, whole)
      BY <1>11, <2>1, <2>5 DEF Coming, q
    <3>2. b \o p \in Seq(Nat)
      BY <1>6, <2>5
    <3> QED
      BY <2>2, <2>3, <3>1, <3>2, GotData, Zenon
  <2>6. ~(label = "readLength" /\ b = h)
    <3>1. label = "readLength" => Len(b) < 4
      OBVIOUS
    <3>2. b = h => Len(b) = 4
      BY <1>1
    <3>3. Len(b) = 4 => ~(Len(b) < 4)
      OBVIOUS
    <3> QED
      BY <3>1, <3>2, <3>3, Zenon
  <2> QED
    BY <1>11, <2>4, <2>5, <2>6, Zenon DEF LengthRead, h, q
<1> QED
  BY <1>10, <1>11 DEF Coming

(* Four bytes are neither none nor three.                                  *)
LEMMA FourBytes ==
  ASSUME NEW b \in Seq(Nat), Len(b) >= 4, NEW q PROVE b # <<>> /\ b # <<0, 0, q>>
<1>1. b # <<>>
  OBVIOUS
<1> DEFINE f == <<0, 0, q>>
<1>2. Len(f) = 3
  OBVIOUS
<1> HIDE DEF f
<1>3. ASSUME b = f PROVE FALSE
  <2>1. Len(b) = 3
    BY <1>2, <1>3, Zenon
  <2> QED
    BY <2>1
<1> QED
  BY <1>1, <1>3 DEF f

(* The reader of a frame has the four bytes it takes for the length.       *)
LEMMA ComingLength ==
  ASSUME NEW w, NEW b, NEW k, NEW n, NEW p, NEW joined, NEW whole,
         Hears("readLength", w, b, k, n, p, joined, whole), Len(b) >= 4
  PROVE  /\ ValidLength(HeaderValue(b))
         /\ Hears("readPayload", w, SubSeq(b, 5, Len(b)), HeaderValue(b), n, p, joined, whole)
<1> /\ k \in Nat /\ n \in FrameLengths /\ Text(p, n) /\ b \in Seq(Nat)
    /\ joined \in BOOLEAN /\ whole \in BOOLEAN
    /\ Coming("readLength", w, b, k, n, p, joined, whole)
  BY Zenon DEF Hears
<1> DEFINE h == Header(n)
           f == <<0, 0, n \div 256>>
           m == HeaderValue(b)
           d == SubSeq(b, 5, Len(b))
<1>1. ValidLength(n) /\ n \in Nat
  BY DEF ValidLength, MaxFrame, FrameLengths
<1>2. d \in Seq(Nat)
  <2>1. \A i \in 5 .. Len(b) : b[i] \in Nat
    OBVIOUS
  <2>2. 5 \in Int /\ Len(b) \in Int
    OBVIOUS
  <2> QED
    BY <2>1, <2>2, SubSeqProperties
<1>3. LengthBytes(h, n)
  BY HeaderOf, Zenon
<1>4. Both(h \o p, n, p)
  BY LengthAndText, Zenon
<1> HIDE DEF h, f, m, d
<1>5. CASE b = h /\ ~joined /\ ~Misread(n) /\ w = IF whole THEN <<Sealed(p)>> ELSE <<>>
  <2>1. m = n /\ Len(b) = 4
    BY <1>3, <1>5 DEF m, LengthBytes
  <2>2. d = <<>>
    BY <2>1, SubSeqEmpty DEF d
  <2>3. LengthRead("readPayload", d, m, n)
    BY <1>5, <2>1, <2>2 DEF LengthRead
  <2> QED
    BY <1>1, <1>2, <1>5, <2>1, <2>3, Zenon DEF Coming, Hears, m, d
<1>6. CASE b = h \o p /\ whole /\ w = <<>>
  <2>1. m = n /\ d = p
    BY <1>4, <1>6, Zenon DEF m, d, Both
  <2> QED
    BY <1>1, <1>2, <1>6, <2>1, Zenon DEF Coming, Hears, m, d
<1>7. CASE b = f \o p /\ whole /\ w = <<>> /\ ~joined /\ n % 256 = 23
  <2>1. TooShort(b)
    BY <1>7, CutAndText, Zenon DEF f
  <2> QED
    BY <1>2, <1>7, <2>1, Zenon DEF Coming, Hears, m, d, TooShort
<1>8. \/ b = h /\ ~joined /\ ~Misread(n) /\ w = IF whole THEN <<Sealed(p)>> ELSE <<>>
      \/ b = h \o p /\ whole /\ w = <<>>
      \/ b = f \o p /\ whole /\ w = <<>> /\ ~joined /\ n % 256 = 23
  <2>1. b # <<>> /\ b # f
    BY FourBytes, Zenon DEF f
  <2>2. "readLength" # "readPayload"
    OBVIOUS
  <2> QED
    BY <2>1, <2>2, Zenon DEF Coming, LengthRead, h, f
<1> QED
  BY <1>5, <1>6, <1>7, <1>8, Zenon DEF m, d

(* The reader of a frame has as many bytes as the length it has taken: all *)
(* of the payload and no more.                                             *)
LEMMA ComingPayload ==
  ASSUME NEW w, NEW b, NEW k, NEW n, NEW p, NEW joined, NEW whole,
         Hears("readPayload", w, b, k, n, p, joined, whole), Len(b) >= k - 4
  PROVE  /\ whole /\ w = <<>>
         /\ SubSeq(b, 1, k - 4) = p /\ SubSeq(b, k - 4 + 1, Len(b)) = <<>>
<1> /\ k \in Nat /\ n \in FrameLengths /\ Text(p, n) /\ b \in Seq(Nat)
    /\ joined \in BOOLEAN /\ whole \in BOOLEAN
    /\ Coming("readPayload", w, b, k, n, p, joined, whole)
  BY Zenon DEF Hears
<1>1. ~(b = <<>> /\ k = n) /\ ~(Len(b) < k - 4)
  BY DEF FrameLengths
<1>2. whole /\ w = <<>> /\ b = p /\ k = n
  <2>1. "readLength" # "readPayload"
    OBVIOUS
  <2> QED
    BY <1>1, <2>1, Zenon DEF Coming, LengthRead
<1>3. Len(p) = k - 4 /\ p \in Seq(Nat)
  BY <1>2 DEF Text
<1>4. SubSeq(p, 1, Len(p)) = p
  BY <1>3
<1>5. SubSeq(p, Len(p) + 1, Len(p)) = <<>>
  BY <1>3, SubSeqEmpty
<1> QED
  BY <1>2, <1>3, <1>4, <1>5

---------------------------------------------------------------------------
(* What steps change                                                       *)

(* g is f but for its value v at c and side.                               *)
Updated(g, f, c, side, v) ==
  /\ g[c][side] = v /\ g[c][Peer(side)] = f[c][Peer(side)]
  /\ \A d \in Clients \ {c} : g[d] = f[d]

(* There are two sides.                                                    *)
LEMMA TwoSides ==
  \A side \in Sides :
    /\ Peer(side) \in Sides /\ Peer(side) # side /\ Peer(Peer(side)) = side
    /\ \A s \in Sides : s = side \/ s = Peer(side)
BY DEF Sides, Peer

(* Where both sides are after a step of one of them.                       *)
Went(c, side, label) ==
  /\ pc'[c][side] = label /\ pc'[c][Peer(side)] = pc[c][Peer(side)]
  /\ \A d \in Clients \ {c} : pc'[d] = pc[d]

(* Going on to another label.                                              *)
LEMMA GotoWent ==
  ASSUME TypeOK, NEW c \in Clients, NEW side \in Sides, NEW label, Goto(c, side, label)
  PROVE  Went(c, side, label)
<1>1. pc \in [Clients -> [client : ClientLabels, server : ServerLabels]]
  BY DEF TypeOK
<1>2. CASE side = "client"
  BY <1>1, <1>2 DEF Went, Goto, Peer
<1>3. CASE side = "server"
  BY <1>1, <1>3 DEF Went, Goto, Peer
<1> QED
  BY <1>2, <1>3 DEF Sides

(* What a step may change of a connection leaves the others' dialogs alone.*)
LEMMA OthersTalk ==
  ASSUME NEW d \in Clients, Talk(d),
         pc'[d] = pc[d], todo'[d] = todo[d], wire'[d] = wire[d], inbox'[d] = inbox[d],
         size'[d] = size[d], begun'[d] = begun[d], sent'[d] = sent[d], read'[d] = read[d],
         profile' = profile
  PROVE  Talk(d)'
<1>1. Requests(d)'
  BY DEF Talk, Requests
<1>2. ASSUME NEW s \in Sides, Turn(d, s) PROVE Turn(d, s)'
  <2>1. Even(d, s)'
    BY <1>2 DEF Turn, Even
  <2>2. \A r \in Sides : Idle(d, r) => Idle(d, r)'
    BY DEF Idle
  <2>3. Silent(d, s) => Silent(d, s)'
    BY <2>2, TwoSides DEF Silent
  <2>4. ASSUME NEW whole \in BOOLEAN PROVE Saying(d, s, whole) => Saying(d, s, whole)'
    BY DEF Saying, Joins
  <2>5. ASSUME NEW whole \in BOOLEAN, Spoken(d, s, whole) PROVE Spoken(d, s, whole)'
    BY <2>2, <2>4, <2>5, Zenon DEF Spoken
  <2> QED
    BY <1>2, <2>1, <2>3, <2>5, Zenon DEF Turn
<1> QED
  BY <1>1, <1>2, Zenon DEF Talk

frames == <<profile, todo, wire, inbox, size, begun, sent, read>>

(* A side that hears a frame goes on hearing it, or fails.                 *)
LEMMA StillSpoken ==
  ASSUME NEW c \in Clients, NEW s \in Sides, NEW whole \in BOOLEAN, Spoken(c, s, whole),
         wire'[c][s] = wire[c][s], inbox'[c][s] = inbox[c][s],
         UNCHANGED <<profile, begun, sent, read>>,
         pc'[c][s] \in {pc[c][s], "failed"},
         pc'[c][Peer(s)] \in {"readLength", "readPayload", "failed"},
         pc'[c][Peer(s)] # "failed" => Saying(c, s, whole)'
  PROVE  Spoken(c, s, whole)'
<1>1. Idle(c, s)'
  BY DEF Spoken, Idle
<1>2. pc'[c][s] \in {IF whole THEN "readLength" ELSE "writePayload", "failed"}
  BY Zenon DEF Spoken
<1> QED
  BY <1>1, <1>2, Zenon DEF Spoken

(* A side that fails says and hears no more.                               *)
LEMMA FailedTalks ==
  ASSUME NEW c \in Clients, Talk(c), NEW a \in Sides, Went(c, a, "failed"), UNCHANGED frames
  PROVE  Talk(c)'
<1>1. Requests(c)'
  <2>1. CASE a = "client"
    BY <2>1 DEF Talk, Requests, Went, frames
  <2>2. CASE a = "server"
    BY <2>2 DEF Talk, Requests, Went, frames, Peer
  <2> QED
    BY <2>1, <2>2 DEF Sides
<1>2. ASSUME NEW s \in Sides, Turn(c, s) PROVE Turn(c, s)'
  <2>1. Even(c, s)'
    BY <1>2 DEF Turn, Even, frames
  <2>2. \A r \in Sides : Idle(c, r) => Idle(c, r)'
    BY DEF Idle, frames
  <2>3. \A r \in Sides : pc'[c][r] \in {pc[c][r], "failed"} /\ (r # a => pc'[c][r] = pc[c][r])
    BY TwoSides DEF Went
  <2>4. Silent(c, s) => Silent(c, s)'
    BY <2>2, <2>3, TwoSides DEF Silent
  <2>5. ASSUME NEW whole \in BOOLEAN, Spoken(c, s, whole) PROVE Spoken(c, s, whole)'
    <3>1. pc'[c][Peer(s)] # "failed" => pc[c][Peer(s)] = pc'[c][Peer(s)]
      BY <2>3, TwoSides
    <3>2. pc'[c][Peer(s)] # "failed" => Saying(c, s, whole)'
      BY <2>5, <3>1, Zenon DEF Spoken, Saying, Joins, frames
    <3>3. pc'[c][Peer(s)] \in {"readLength", "readPayload", "failed"}
      BY <2>3, <2>5, TwoSides, Zenon DEF Spoken
    <3> QED
      BY <2>3, <2>5, <3>2, <3>3, StillSpoken, Zenon DEF frames
  <2> QED
    BY <1>2, <2>1, <2>4, <2>5, Zenon DEF Turn
<1> QED
  BY <1>1, <1>2, Zenon DEF Talk

(* A side that begins has heard and said nothing.                          *)
LEMMA BeginnerTalks ==
  ASSUME NEW c \in Clients, Talk(c), NEW a \in Sides, NEW label, Went(c, a, label),
         UNCHANGED frames,
         \/ /\ a = "client" /\ pc[c].client \in {"dial", "handshake"}
            /\ label \in {"handshake", "readLength"}
         \/ a = "server" /\ pc[c].server = "none" /\ label = "writeLength"
  PROVE  Talk(c)'
<1>1. Requests(c)'
  BY DEF Talk, Requests, Went, frames, Peer
<1>2. ASSUME NEW s \in Sides, Turn(c, s) PROVE Turn(c, s)'
  <2>1. Even(c, s)'
    BY <1>2 DEF Turn, Even, frames
  <2>2. \A r \in Sides : Idle(c, r) => Idle(c, r)'
    BY DEF Idle, frames
  <2>3. ~Spoken(c, s, TRUE) /\ ~Spoken(c, s, FALSE)
    BY DEF Spoken, Sides, Peer
  <2>4. Silent(c, s)
    BY <1>2, <2>3, Zenon DEF Turn
  <2>5. Silent(c, s)'
    BY <2>2, <2>4 DEF Silent, Went, Sides, Peer
  <2> QED
    BY <2>1, <2>5, Zenon DEF Turn
<1> QED
  BY <1>1, <1>2, Zenon DEF Talk

(* A side that has something to read, or a length, hears the other.        *)
LEMMA Hearing ==
  ASSUME NEW c \in Clients, NEW a \in Sides, Talk(c),
         \/ pc[c][a] = "readPayload"
         \/ pc[c][a] = "readLength" /\ (wire[c][a] # <<>> \/ inbox[c][a] # <<>>)
  PROVE  Even(c, Peer(a)) /\ \E whole \in BOOLEAN : Spoken(c, Peer(a), whole)
<1>1. PICK s \in Sides : Turn(c, s)
  BY Zenon DEF Talk
<1>2. CASE s = a
  <2>1. ~Silent(c, a)
    BY DEF Silent
  <2>2. ASSUME NEW whole \in BOOLEAN, Spoken(c, a, whole) PROVE FALSE
    <3>1. pc[c][a] \in {"readLength", "writePayload", "failed"} /\ Idle(c, a)
      BY <2>2, Zenon DEF Spoken
    <3> QED
      BY <3>1 DEF Idle
  <2> QED
    BY <1>1, <1>2, <2>1, <2>2, Zenon DEF Turn
<1>3. CASE s = Peer(a)
  <2>1. ~Silent(c, s)
    BY <1>3, TwoSides DEF Silent, Idle
  <2> QED
    BY <1>1, <1>3, <2>1, Zenon DEF Turn
<1> QED
  BY <1>2, <1>3, TwoSides

(* The frame a side says.                                                  *)
Frame(c, s) == Payload(Last(begun[c][s]), Len(read[c][Peer(s)]))

Framed(c, s) ==
  /\ Last(begun[c][s]) \in Lengths /\ Last(begun[c][s]) \in FrameLengths
  /\ Text(Frame(c, s), Last(begun[c][s]))

(* It has a length and a payload.                                          *)
LEMMA FrameSpoken ==
  ASSUME FrameTypes, NEW c \in Clients, NEW s \in Sides, NEW whole \in BOOLEAN,
         Spoken(c, s, whole)
  PROVE  Framed(c, s)
<1>1. /\ begun[c][s] \in Seq(Lengths) /\ Len(read[c][Peer(s)]) \in Nat
      /\ Len(begun[c][s]) = Len(read[c][Peer(s)]) + 1
  BY TwoSides DEF FrameTypes, Spoken
<1>2. Last(begun[c][s]) \in Lengths
  BY <1>1 DEF Last
<1>3. Last(begun[c][s]) \in FrameLengths
  BY <1>2, LengthsOfFrames, Zenon
<1> DEFINE n == Last(begun[c][s])
           i == Len(read[c][Peer(s)])
<1>4. n \in FrameLengths /\ i \in Nat
  BY <1>1, <1>3
<1> HIDE DEF n, i
<1>5. Text(Payload(n, i), n)
  BY <1>4, PayloadOf, Zenon
<1> QED
  BY <1>2, <1>3, <1>5 DEF Framed, Frame, n, i

(* A misread frame of either side is known by what that side began.        *)
LEMMA SpokenMisframes ==
  ASSUME FrameTypes, NEW c \in Clients, NEW s \in Sides, NEW whole \in BOOLEAN,
         Spoken(c, s, whole), ~Joins(c, s), Misread(Last(begun[c][s]))
  PROVE  EitherMisframes(c)
<1>1. /\ begun[c][s] \in Seq(Lengths) /\ Len(read[c][Peer(s)]) \in Nat
      /\ Len(begun[c][s]) = Len(read[c][Peer(s)]) + 1
  BY TwoSides DEF FrameTypes, Spoken
<1>2. Len(begun[c][s]) \in DOMAIN begun[c][s]
  BY <1>1
<1>3. Misframes(c, s)
  BY <1>2 DEF Misframes, Last
<1> QED
  BY <1>3 DEF EitherMisframes, Sides

(* The dialogs of all connections after a step of one of them.             *)
LEMMA AllTalk ==
  ASSUME Dialogs, FrameTypes', NEW c \in Clients, Talk(c)', profile' = profile,
         \A d \in Clients \ {c} :
           /\ pc'[d] = pc[d] /\ todo'[d] = todo[d] /\ wire'[d] = wire[d]
           /\ inbox'[d] = inbox[d] /\ size'[d] = size[d] /\ begun'[d] = begun[d]
           /\ sent'[d] = sent[d] /\ read'[d] = read[d]
  PROVE  Dialogs'
<1>1. ASSUME NEW d \in Clients, d # c PROVE Talk(d)'
  <2>1. Talk(d)
    BY <1>1 DEF Dialogs
  <2>2. d \in Clients \ {c}
    BY <1>1
  <2> QED
    BY <2>1, <2>2, OthersTalk, Zenon
<1> QED
  BY <1>1 DEF Dialogs

(* Where a reader is with the frame it hears.                              *)
HearsFrame(c, a, whole) ==
  Hears(pc[c][a], wire[c][a], inbox[c][a], size[c][a],
        Last(begun[c][Peer(a)]), Frame(c, Peer(a)), Joins(c, Peer(a)), whole)

(* What a side reads, or has to read, is of a frame of the other.           *)
LEMMA HearingFrame ==
  ASSUME TypeOK, Dialogs, NEW c \in Clients, NEW a \in Sides,
         \/ pc[c][a] = "readPayload"
         \/ pc[c][a] = "readLength" /\ (wire[c][a] # <<>> \/ inbox[c][a] # <<>>)
  PROVE  /\ Even(c, Peer(a))
         /\ \E whole \in BOOLEAN : Spoken(c, Peer(a), whole) /\ HearsFrame(c, a, whole)
<1> DEFINE s == Peer(a)
           n == Last(begun[c][s])
<1>1. /\ s \in Sides /\ Peer(s) = a
      /\ inbox[c][a] \in Seq(Nat) /\ size[c][a] \in Nat
  BY TwoSides DEF Dialogs, FrameTypes
<1>2. Talk(c) /\ FrameTypes
  BY DEF Dialogs
<1>3. Even(c, s) /\ \E whole \in BOOLEAN : Spoken(c, s, whole)
  BY <1>2, Hearing
<1>4. PICK whole \in BOOLEAN : Spoken(c, s, whole)
  BY <1>3, Zenon
<1>5. n \in FrameLengths /\ Text(Frame(c, s), n)
  <2> HIDE DEF s
  <2>1. Framed(c, s)
    BY <1>1, <1>2, <1>4, FrameSpoken, Zenon
  <2> QED
    BY <2>1, Zenon DEF Framed, n
<1>6. Joins(c, s) \in BOOLEAN
  BY <1>1 DEF Joins, TypeOK, Profile
<1>7. pc[c][a] # "failed"
  OBVIOUS
<1>8. Coming(pc[c][a], wire[c][a], inbox[c][a], size[c][a], n, Frame(c, s), Joins(c, s), whole)
  <2>1. Saying(c, s, whole)
    BY <1>1, <1>4, <1>7, Zenon DEF Spoken
  <2> QED
    BY <1>1, <2>1, Zenon DEF Saying, Frame
<1>9. HearsFrame(c, a, whole)
  BY <1>1, <1>5, <1>6, <1>8, Zenon DEF HearsFrame, Hears
<1> QED
  BY <1>3, <1>4, <1>9, Zenon

(* A record is read.                                                       *)
LEMMA RecordTalks ==
  ASSUME TypeOK, Dialogs, NEW c \in Clients, NEW a \in Sides, ReadRecord(c, a)
  PROVE  /\ Dialogs'
         /\ Outcome(Head(wire[c][a])).kind # "data" => EitherMisframes(c)
<1> DEFINE s == Peer(a)
           n == Last(begun[c][s])
           r == Outcome(Head(wire[c][a]))
           joined == Joins(c, s)
<1>1. /\ s \in Sides /\ Peer(s) = a /\ s # a
      /\ wire[c][a] \in Seq(Seq(Nat)) /\ inbox[c][a] \in Seq(Nat) /\ size[c][a] \in Nat
  BY TwoSides DEF Dialogs, FrameTypes
<1>2. /\ pc[c][a] \in {"readLength", "readPayload"} /\ wire[c][a] # <<>>
      /\ pc[c][a] = "readLength" => Len(inbox[c][a]) < 4
  BY DEF ReadRecord, Reading, Needs
<1>3. Talk(c) /\ FrameTypes
  BY DEF Dialogs
<1>4. /\ Even(c, s)
      /\ \E whole \in BOOLEAN : Spoken(c, s, whole) /\ HearsFrame(c, a, whole)
  BY <1>2, HearingFrame, Zenon
<1>5. PICK whole \in BOOLEAN : Spoken(c, s, whole) /\ HearsFrame(c, a, whole)
  BY <1>4, Zenon
<1>6. Got(pc[c][a], wire[c][a], inbox[c][a], size[c][a], n, Frame(c, s), joined, whole)
  <2>1. Hears(pc[c][a], wire[c][a], inbox[c][a], size[c][a], n, Frame(c, s), joined, whole)
    BY <1>5, Zenon DEF HearsFrame
  <2> HIDE DEF n, joined
  <2> QED
    BY <1>2, <2>1, ComingRecord, Zenon
<1>7. /\ UNCHANGED <<profile, todo, size, begun, sent, read>>
       /\ wire' = [wire EXCEPT ![c][a] = Tail(wire[c][a])]
  BY DEF ReadRecord
<1>8. /\ wire' \in [Clients -> [Sides -> Seq(Seq(Nat))]]
      /\ Updated(wire', wire, c, a, Tail(wire[c][a]))
  <2>1. Tail(wire[c][a]) \in Seq(Seq(Nat)) /\ wire \in [Clients -> [Sides -> Seq(Seq(Nat))]]
    BY <1>1, <1>2, <1>3 DEF FrameTypes
  <2> DEFINE v == Tail(wire[c][a])
  <2>2. v \in Seq(Seq(Nat)) /\ wire' = [wire EXCEPT ![c][a] = v]
    BY <1>7, <2>1
  <2> HIDE DEF v
  <2>3. wire' \in [Clients -> [Sides -> Seq(Seq(Nat))]] /\ Updated(wire', wire, c, a, v)
    BY <2>1, <2>2, TwoSides DEF Updated
  <2> QED
    BY <2>3 DEF v
<1>9. Even(c, s)'
  BY <1>4, <1>7 DEF Even
<1>10. CASE r.kind = "data"
  <2>1. /\ inbox' = [inbox EXCEPT ![c][a] = inbox[c][a] \o r.bytes]
        /\ UNCHANGED pc
    BY <1>10 DEF ReadRecord
  <2>2. /\ inbox[c][a] \o r.bytes \in Seq(Nat)
        /\ Coming(pc[c][a], Tail(wire[c][a]), inbox[c][a] \o r.bytes, size[c][a], n,
                  Frame(c, s), joined, whole)
    BY <1>6, <1>10, Zenon DEF Got
  <2>3. /\ inbox' \in [Clients -> [Sides -> Seq(Nat)]]
        /\ Updated(inbox', inbox, c, a, inbox[c][a] \o r.bytes)
    <3>1. inbox \in [Clients -> [Sides -> Seq(Nat)]]
      BY <1>3 DEF FrameTypes
    <3> DEFINE v == inbox[c][a] \o r.bytes
    <3>2. v \in Seq(Nat) /\ inbox' = [inbox EXCEPT ![c][a] = v]
      BY <2>1, <2>2
    <3> HIDE DEF v
    <3>3. inbox' \in [Clients -> [Sides -> Seq(Nat)]] /\ Updated(inbox', inbox, c, a, v)
      BY <3>1, <3>2, TwoSides DEF Updated
    <3> QED
      BY <3>3 DEF v
  <2>4. FrameTypes'
    BY <1>3, <1>7, <1>8, <2>3 DEF FrameTypes
  <2>5. Requests(c)'
    BY <1>3, <1>7, <2>1 DEF Talk, Requests
  <2>6. Saying(c, s, whole)'
    <3>1. /\ wire'[c][a] = Tail(wire[c][a]) /\ inbox'[c][a] = inbox[c][a] \o r.bytes
          /\ pc'[c][a] = pc[c][a] /\ size'[c][a] = size[c][a] /\ begun' = begun
          /\ read' = read /\ profile' = profile
      BY <1>7, <1>8, <2>1, <2>3 DEF Updated
    <3> QED
      BY <1>1, <2>2, <3>1, Zenon DEF Saying, Frame, Joins
  <2>7. Spoken(c, s, whole)'
    <3>1. wire'[c][s] = wire[c][s] /\ inbox'[c][s] = inbox[c][s]
      BY <1>8, <2>3 DEF Updated
    <3>2. /\ pc'[c][s] \in {pc[c][s], "failed"}
          /\ pc'[c][Peer(s)] \in {"readLength", "readPayload", "failed"}
      BY <1>1, <1>2, <2>1
    <3> QED
      BY <1>1, <1>5, <1>7, <2>6, <3>1, <3>2, StillSpoken, Zenon
  <2>8. Talk(c)'
    BY <1>1, <1>9, <2>5, <2>7, Zenon DEF Talk, Turn
  <2> QED
    BY <1>7, <1>8, <1>10, <2>1, <2>3, <2>4, <2>8, AllTalk DEF Updated
<1>11. CASE r.kind # "data"
  <2>1. UNCHANGED inbox /\ Went(c, a, "failed")
    BY <1>11, GotoWent DEF ReadRecord, Fail, FailWith
  <2>2. FrameTypes'
    BY <1>3, <1>7, <1>8, <2>1 DEF FrameTypes
  <2>3. Requests(c)'
    BY <1>3, <1>7, <2>1 DEF Talk, Requests, Went, Sides, Peer
  <2>4. Spoken(c, s, whole)'
    <3>1. wire'[c][s] = wire[c][s] /\ inbox'[c][s] = inbox[c][s]
      BY <1>8, <2>1 DEF Updated
    <3>2. pc'[c][s] = pc[c][s] /\ pc'[c][Peer(s)] = "failed"
      BY <1>1, <2>1 DEF Went
    <3> QED
      BY <1>1, <1>5, <1>7, <3>1, <3>2, StillSpoken, Zenon
  <2>5. Talk(c)'
    BY <1>1, <1>9, <2>3, <2>4, Zenon DEF Talk, Turn
  <2>6. EitherMisframes(c)
    BY <1>1, <1>3, <1>5, <1>6, <1>11, SpokenMisframes, Zenon DEF Got
  <2> QED
    BY <1>7, <1>8, <2>1, <2>2, <2>5, <2>6, AllTalk DEF Updated, Went
<1> QED
  BY <1>10, <1>11

(* A length is read: nothing that travels is taken for an invalid one.     *)
LEMMA LengthTalks ==
  ASSUME TypeOK, Dialogs, NEW c \in Clients, NEW a \in Sides, ReadLength(c, a)
  PROVE  ValidLength(HeaderValue(inbox[c][a])) /\ Dialogs'
<1> DEFINE s == Peer(a)
           n == Last(begun[c][s])
           b == inbox[c][a]
           m == HeaderValue(b)
           d == SubSeq(b, 5, Len(b))
<1>1. s \in Sides /\ Peer(s) = a /\ s # a /\ b \in Seq(Nat)
  BY TwoSides DEF Dialogs, FrameTypes
<1>2. pc[c][a] = "readLength" /\ Len(b) >= 4 /\ b # <<>>
  BY <1>1 DEF ReadLength
<1>3. Talk(c) /\ FrameTypes
  BY DEF Dialogs
<1>4. /\ Even(c, s)
      /\ \E whole \in BOOLEAN : Spoken(c, s, whole) /\ HearsFrame(c, a, whole)
  BY <1>2, HearingFrame, Zenon
<1>5. PICK whole \in BOOLEAN : Spoken(c, s, whole) /\ HearsFrame(c, a, whole)
  BY <1>4, Zenon
<1>6. /\ ValidLength(m)
      /\ Hears("readPayload", wire[c][a], d, m, n, Frame(c, s), Joins(c, s), whole)
  <2>1. Hears("readLength", wire[c][a], b, size[c][a], n, Frame(c, s), Joins(c, s), whole)
    BY <1>2, <1>5, Zenon DEF HearsFrame
  <2> HIDE DEF n, b
  <2> QED
    BY <1>2, <2>1, ComingLength, Zenon
<1>7. /\ UNCHANGED <<profile, todo, wire, begun, sent, read>>
      /\ size' = [size EXCEPT ![c][a] = m] /\ inbox' = [inbox EXCEPT ![c][a] = d]
      /\ Goto(c, a, "readPayload")
  BY <1>6 DEF ReadLength
<1>8. m \in Nat /\ d \in Seq(Nat)
  BY <1>6, Zenon DEF Hears
<1>9. Went(c, a, "readPayload")
  BY <1>7, GotoWent
<1> HIDE DEF m, d
<1>10. /\ size' \in [Clients -> [Sides -> Nat]] /\ Updated(size', size, c, a, m)
       /\ inbox' \in [Clients -> [Sides -> Seq(Nat)]] /\ Updated(inbox', inbox, c, a, d)
  BY <1>3, <1>7, <1>8, TwoSides DEF FrameTypes, Updated
<1>11. FrameTypes'
  BY <1>3, <1>7, <1>10 DEF FrameTypes
<1>12. Requests(c)' /\ Even(c, s)'
  BY <1>3, <1>4, <1>7, <1>9 DEF Talk, Requests, Went, Even, Sides, Peer
<1>13. Spoken(c, s, whole)'
  <2>1. Saying(c, s, whole)'
    <3>1. /\ wire'[c][a] = wire[c][a] /\ inbox'[c][a] = d
          /\ pc'[c][a] = "readPayload" /\ size'[c][a] = m /\ begun' = begun
          /\ read' = read /\ profile' = profile
      BY <1>7, <1>9, <1>10 DEF Updated, Went
    <3> QED
      BY <1>1, <1>6, <3>1, Zenon DEF Saying, Frame, Joins, Hears
  <2>2. wire'[c][s] = wire[c][s] /\ inbox'[c][s] = inbox[c][s]
    BY <1>7, <1>10 DEF Updated
  <2>3. pc'[c][s] = pc[c][s] /\ pc'[c][Peer(s)] = "readPayload"
    BY <1>1, <1>9 DEF Went
  <2> QED
    BY <1>1, <1>5, <1>7, <2>1, <2>2, <2>3, StillSpoken, Zenon
<1>14. Talk(c)'
  BY <1>1, <1>12, <1>13, Zenon DEF Talk, Turn
<1>15. Dialogs'
  BY <1>7, <1>9, <1>10, <1>11, <1>14, AllTalk DEF Updated, Went
<1> QED
  BY <1>6, <1>15 DEF m

(* A payload is read whole, and is what the other side sent.               *)
LEMMA PayloadTalks ==
  ASSUME TypeOK, Dialogs, NEW c \in Clients, NEW a \in Sides, ReadPayload(c, a)
  PROVE  /\ Dialogs'
         /\ sent[c][Peer(a)] = Append(read[c][a], Frame(c, Peer(a)))
         /\ read' = [read EXCEPT ![c][a] = Append(read[c][a], Frame(c, Peer(a)))]
<1> DEFINE s == Peer(a)
           n == Last(begun[c][s])
           p == Frame(c, s)
           b == inbox[c][a]
           k == size[c][a]
<1>1. s \in Sides /\ Peer(s) = a /\ s # a
  BY TwoSides
<1>2. pc[c][a] = "readPayload" /\ Len(b) >= k - 4
  BY DEF ReadPayload, BodyLength
<1>3. Talk(c) /\ FrameTypes
  BY DEF Dialogs
<1>4. /\ Even(c, s)
      /\ \E whole \in BOOLEAN : Spoken(c, s, whole) /\ HearsFrame(c, a, whole)
  BY <1>2, HearingFrame, Zenon
<1>5. PICK whole \in BOOLEAN : Spoken(c, s, whole) /\ HearsFrame(c, a, whole)
  BY <1>4, Zenon
<1>6. /\ whole /\ wire[c][a] = <<>>
      /\ SubSeq(b, 1, k - 4) = p /\ SubSeq(b, k - 4 + 1, Len(b)) = <<>>
  <2>1. Hears("readPayload", wire[c][a], b, k, n, p, Joins(c, s), whole)
    BY <1>2, <1>5, Zenon DEF HearsFrame
  <2> HIDE DEF n, b, k, p
  <2> QED
    BY <1>2, <2>1, ComingPayload, Zenon
<1>7. /\ Idle(c, s) /\ pc[c][s] \in {"readLength", "failed"}
      /\ Len(begun[c][s]) = Len(read[c][a]) + 1
      /\ sent[c][s] = Append(read[c][a], p)
  BY <1>1, <1>5, <1>6, Zenon DEF Spoken, Frame
<1> DEFINE over == a = "client" /\ todo[c] = <<>>
           label == IF over THEN "done" ELSE "writeLength"
<1>8. /\ UNCHANGED <<profile, todo, wire, size, begun, sent>>
      /\ read' = [read EXCEPT ![c][a] = Append(read[c][a], p)]
      /\ inbox' = [inbox EXCEPT ![c][a] = <<>>]
      /\ Goto(c, a, label)
  BY <1>6 DEF ReadPayload, BodyLength
<1>9. Went(c, a, label)
  BY <1>8, GotoWent
<1>10. sent[c][s] \in Seq(Payloads) /\ <<>> \in Seq(Nat) /\ read[c][a] \in Seq(Payloads)
  BY <1>1, <1>3 DEF FrameTypes
<1>11. Len(sent[c][s]) = Len(read[c][a]) + 1
  BY <1>7, <1>10
<1> HIDE DEF p, b, k
<1>12. /\ read' \in [Clients -> [Sides -> Seq(Payloads)]]
       /\ Updated(read', read, c, a, sent[c][s])
       /\ inbox' \in [Clients -> [Sides -> Seq(Nat)]] /\ Updated(inbox', inbox, c, a, <<>>)
  <2> DEFINE v == sent[c][s]
  <2>1. v \in Seq(Payloads) /\ read' = [read EXCEPT ![c][a] = v]
    BY <1>7, <1>8, <1>10
  <2>2. /\ read \in [Clients -> [Sides -> Seq(Payloads)]]
        /\ inbox \in [Clients -> [Sides -> Seq(Nat)]]
    BY <1>3 DEF FrameTypes
  <2> HIDE DEF v
  <2>3. read' \in [Clients -> [Sides -> Seq(Payloads)]] /\ Updated(read', read, c, a, v)
    BY <2>1, <2>2, TwoSides DEF Updated
  <2>4. inbox' \in [Clients -> [Sides -> Seq(Nat)]] /\ Updated(inbox', inbox, c, a, <<>>)
    BY <1>8, <1>10, <2>2, TwoSides DEF Updated
  <2> QED
    BY <2>3, <2>4 DEF v
<1>13. FrameTypes'
  BY <1>3, <1>8, <1>12 DEF FrameTypes
<1>14. Requests(c)'
  <2>1. CASE a = "client"
    BY <1>3, <1>8, <1>9, <2>1 DEF Talk, Requests, Went
  <2>2. CASE a = "server"
    BY <1>3, <1>8, <1>9, <2>2 DEF Talk, Requests, Went, Peer
  <2> QED
    BY <2>1, <2>2 DEF Sides
<1>15. Idle(c, a)'
  BY <1>1, <1>6, <1>7, <1>8, <1>11, <1>12 DEF Idle, Updated
<1>16. Idle(c, s)'
  BY <1>1, <1>7, <1>8, <1>12 DEF Idle, Updated
<1>17. Silent(c, a)'
  BY <1>1, <1>7, <1>9, <1>15, <1>16 DEF Silent, Went
<1>18. Even(c, a)'
  <2>1. /\ read'[c][a] = sent[c][s] /\ read'[c][s] = read[c][s] /\ sent' = sent
        /\ read[c][s] = sent[c][a] /\ Len(read[c][a]) \in Nat
    BY <1>1, <1>7, <1>8, <1>10, <1>12 DEF Updated, Idle
  <2>2. CASE a = "client"
    BY <1>4, <1>11, <2>1, <2>2 DEF Even, Peer
  <2>3. CASE a = "server"
    BY <1>4, <1>11, <2>1, <2>3 DEF Even, Peer
  <2> QED
    BY <2>2, <2>3 DEF Sides
<1>19. Talk(c)'
  BY <1>14, <1>17, <1>18, Zenon DEF Talk, Turn
<1>20. Dialogs'
  BY <1>8, <1>9, <1>12, <1>13, <1>19, AllTalk DEF Updated, Went
<1> QED
  BY <1>7, <1>8, <1>20 DEF p

(* Who is about to write says the next frame, and the other side listens.  *)
LEMMA Speaking ==
  ASSUME TypeOK, NEW c \in Clients, NEW a \in Sides, Talk(c), Opened(c)
  PROVE  /\ pc[c][a] = "writeLength" =>
              /\ Even(c, a) /\ Silent(c, a)
              /\ pc[c][Peer(a)] \in {"readLength", "failed"}
         /\ pc[c][a] = "writePayload" => Even(c, a) /\ Spoken(c, a, FALSE)
<1>1. PICK s \in Sides : Turn(c, s)
  BY Zenon DEF Talk
<1>2. CASE s = a
  <2>1. \A whole \in BOOLEAN : Spoken(c, a, whole) => pc[c][a] # "writeLength"
    BY Zenon DEF Spoken
  <2>2. Spoken(c, a, TRUE) => pc[c][a] # "writePayload"
    BY Zenon DEF Spoken
  <2>3. Silent(c, a) => pc[c][a] # "writePayload"
    BY DEF Silent
  <2>4. Silent(c, a) /\ pc[c][a] = "writeLength" => pc[c][Peer(a)] \in {"readLength", "failed"}
    <3>1. CASE a = "client"
      BY <3>1 DEF Silent, TypeOK, ServerLabels, Peer
    <3>2. CASE a = "server"
      BY <3>2 DEF Silent, Opened, Peer
    <3> QED
      BY <3>1, <3>2 DEF Sides
  <2> QED
    BY <1>1, <1>2, <2>1, <2>2, <2>3, <2>4, Zenon DEF Turn
<1>3. CASE s = Peer(a)
  <2>1. Silent(c, s) => pc[c][a] \notin {"writeLength", "writePayload"}
    BY <1>3, TwoSides DEF Silent
  <2>2. \A whole \in BOOLEAN :
          Spoken(c, s, whole) => pc[c][a] \notin {"writeLength", "writePayload"}
    <3>1. Peer(s) = a
      BY <1>3, TwoSides
    <3> QED
      BY <3>1, Zenon DEF Spoken
  <2> QED
    BY <1>1, <2>1, <2>2, Zenon DEF Turn
<1> QED
  BY <1>2, <1>3, TwoSides

(* A frame is begun.                                                       *)
LEMMA BegunTalks ==
  ASSUME TypeOK, Dialogs, NEW c \in Clients, Opened(c), NEW a \in Sides,
         NEW n \in Lengths, WriteLength(c, a, n)
  PROVE  Dialogs'
<1> DEFINE t == Peer(a)
           joined == Joins(c, a)
           w == IF joined THEN <<>> ELSE <<Sealed(Header(n))>>
<1>1. t \in Sides /\ Peer(t) = a /\ t # a
  BY TwoSides
<1>2. Talk(c) /\ FrameTypes
  BY DEF Dialogs
<1>3. /\ Even(c, a) /\ Idle(c, a) /\ Idle(c, t)
      /\ pc[c][t] \in {"readLength", "failed"}
  BY <1>2, Speaking DEF WriteLength, Silent
<1>4. wire[c][t] = <<>> /\ inbox[c][t] = <<>> /\ read[c][t] = sent[c][a]
      /\ Len(begun[c][a]) = Len(sent[c][a])
  BY <1>1, <1>3 DEF Idle
<1>5. w \in Seq(Seq(Nat))
  <2>1. n \in FrameLengths
    BY LengthsOfFrames, Zenon
  <2>2. Header(n) \in Seq(Nat)
    <3> DEFINE h == Header(n)
    <3>1. LengthBytes(h, n)
      BY <2>1, HeaderOf, Zenon
    <3> QED
      BY <3>1, Zenon DEF LengthBytes
  <2>3. Sealed(Header(n)) \in Seq(Nat)
    BY <2>2, OutcomeOfSealed, Zenon
  <2> DEFINE x == Sealed(Header(n))
  <2> HIDE DEF x
  <2>4. <<x>> \in Seq(Seq(Nat)) /\ <<>> \in Seq(Seq(Nat))
    BY <2>3 DEF x
  <2> QED
    BY <2>4, Zenon DEF x
<1>6. wire' = [wire EXCEPT ![c][t] = w]
  <2>1. CASE joined
    <3>1. wire' = wire /\ w = wire[c][t]
      BY <1>4, <2>1 DEF WriteLength
    <3> HIDE DEF w
    <3> QED
      BY <1>1, <1>2, <3>1 DEF FrameTypes
  <2>2. CASE ~joined
    <3>1. wire' = [wire EXCEPT ![c][t] = Append(wire[c][t], Sealed(Header(n)))]
      BY <2>2 DEF WriteLength
    <3>2. Append(wire[c][t], Sealed(Header(n))) = w
      BY <1>4, <2>2, Appended, Zenon
    <3> QED
      BY <3>1, <3>2, Zenon
  <2> QED
    BY <2>1, <2>2, Zenon
<1>7. /\ UNCHANGED <<profile, todo, inbox, size, sent, read>>
      /\ begun' = [begun EXCEPT ![c][a] = Append(begun[c][a], n)]
      /\ Went(c, a, "writePayload")
  BY GotoWent DEF WriteLength
<1> HIDE DEF w
<1> DEFINE b == Append(begun[c][a], n)
<1>8. b \in Seq(Lengths) /\ Len(b) = Len(begun[c][a]) + 1 /\ Last(b) = n
  <2>1. begun[c][a] \in Seq(Lengths)
    BY <1>2 DEF FrameTypes
  <2> QED
    BY <2>1 DEF Last
<1> HIDE DEF b
<1>9. /\ wire' \in [Clients -> [Sides -> Seq(Seq(Nat))]] /\ Updated(wire', wire, c, t, w)
      /\ begun' \in [Clients -> [Sides -> Seq(Lengths)]] /\ Updated(begun', begun, c, a, b)
  <2>1. /\ wire \in [Clients -> [Sides -> Seq(Seq(Nat))]]
        /\ begun \in [Clients -> [Sides -> Seq(Lengths)]]
    BY <1>2 DEF FrameTypes
  <2>2. begun' = [begun EXCEPT ![c][a] = b]
    BY <1>7 DEF b
  <2> QED
    BY <1>1, <1>5, <1>6, <1>8, <2>1, <2>2, TwoSides DEF Updated
<1>10. FrameTypes'
  BY <1>2, <1>7, <1>9 DEF FrameTypes
<1>11. Requests(c)' /\ Even(c, a)'
  <2>1. Even(c, a)'
    BY <1>3, <1>7 DEF Even
  <2>2. CASE a = "client"
    BY <1>2, <1>7, <2>1, <2>2 DEF Talk, Requests, Went, WriteLength
  <2>3. CASE a = "server"
    BY <1>2, <1>7, <2>1, <2>3 DEF Talk, Requests, Went, Peer
  <2> QED
    BY <2>2, <2>3 DEF Sides
<1>12. Spoken(c, a, FALSE)'
  <2>1. Idle(c, a)'
    BY <1>1, <1>3, <1>7, <1>9 DEF Idle, Updated
  <2>2. pc'[c][a] = "writePayload" /\ pc'[c][t] \in {"readLength", "failed"}
    BY <1>3, <1>7 DEF Went
  <2>3. Len(begun'[c][a]) = Len(read'[c][t]) + 1 /\ sent'[c][a] = read'[c][t]
    BY <1>4, <1>7, <1>8, <1>9 DEF Updated
  <2>4. pc'[c][t] # "failed" => Saying(c, a, FALSE)'
    <3>1. /\ wire'[c][t] = w /\ inbox'[c][t] = <<>> /\ Last(begun'[c][a]) = n
          /\ profile' = profile
          /\ pc'[c][t] # "failed" => pc'[c][t] = "readLength"
      BY <1>1, <1>4, <1>7, <1>8, <1>9, <2>2 DEF Updated
    <3> DEFINE p == Payload(n, Len(read'[c][t]))
    <3>2. w = Written(n, p, joined, FALSE)
      BY Zenon DEF Written, w
    <3> HIDE DEF p
    <3>3. Coming("readLength", w, <<>>, size'[c][t], n, p, joined, FALSE)
      BY <3>2, ComingBegins, Zenon
    <3> QED
      BY <3>1, <3>3, Zenon DEF Saying, Joins, p
  <2> QED
    BY <2>1, <2>2, <2>3, <2>4, Zenon DEF Spoken
<1>13. Talk(c)'
  BY <1>11, <1>12, Zenon DEF Talk, Turn
<1> QED
  BY <1>7, <1>9, <1>10, <1>13, AllTalk DEF Updated, Went

(* A frame is completed, by the one whose turn it is.                      *)
LEMMA CompletedTalks ==
  ASSUME TypeOK, Dialogs, NEW c \in Clients, Opened(c), NEW a \in Sides,
         WritePayload(c, a)
  PROVE  /\ Dialogs'
         /\ Even(c, a) /\ Idle(c, a) /\ sent[c][a] = read[c][Peer(a)]
         /\ \E f \in Payloads : sent' = [sent EXCEPT ![c][a] = Append(sent[c][a], f)]
<1> DEFINE t == Peer(a)
           joined == Joins(c, a)
           n == Last(begun[c][a])
           p == Payload(n, Len(sent[c][a]))
           x == Sealed(IF joined THEN Header(n) \o p ELSE p)
           w == Append(wire[c][t], x)
<1>1. t \in Sides /\ Peer(t) = a /\ t # a
  BY TwoSides
<1>2. Talk(c) /\ FrameTypes
  BY DEF Dialogs
<1>3. Even(c, a) /\ Spoken(c, a, FALSE)
  BY <1>2, Speaking DEF WritePayload
<1>4. /\ Idle(c, a) /\ pc[c][t] \in {"readLength", "readPayload", "failed"}
      /\ Len(begun[c][a]) = Len(read[c][t]) + 1 /\ sent[c][a] = read[c][t]
      /\ pc[c][t] # "failed" => Saying(c, a, FALSE)
  BY <1>3, Zenon DEF Spoken
<1>5. Frame(c, a) = p
  BY <1>4, Zenon DEF Frame
<1>6. n \in Lengths /\ n \in FrameLengths /\ Text(p, n)
  <2>1. Framed(c, a)
    BY <1>2, <1>3, FrameSpoken, Zenon
  <2> QED
    BY <1>5, <2>1, Zenon DEF Framed
<1>7. joined \in BOOLEAN
  BY DEF Joins, TypeOK, Profile
<1>8. x \in Seq(Nat)
  <2> HIDE DEF n, p, joined
  <2>1. p \in Seq(Nat)
    BY <1>6 DEF Text
  <2>2. Header(n) \o p \in Seq(Nat)
    BY <1>6, LengthAndText, Zenon DEF Both
  <2>3. (IF joined THEN Header(n) \o p ELSE p) \in Seq(Nat)
    BY <2>1, <2>2, Zenon
  <2> QED
    BY <2>3, OutcomeOfSealed, Zenon
<1>9. /\ UNCHANGED <<profile, inbox, size, begun, read>>
      /\ wire' = [wire EXCEPT ![c][t] = w]
      /\ sent' = [sent EXCEPT ![c][a] = Append(sent[c][a], p)]
      /\ todo' = IF a = "client" THEN [todo EXCEPT ![c] = Tail(@)] ELSE todo
      /\ Goto(c, a, "readLength")
  BY Zenon DEF WritePayload, AfterWrite
<1>10. Went(c, a, "readLength")
  BY <1>9, GotoWent
<1>11. Len(sent[c][a]) \in 0..2
  <2>1. /\ sent[c]["client"] \in Seq(Payloads) /\ sent[c]["server"] \in Seq(Payloads)
        /\ todo[c] \in Seq(Actions)
    BY <1>2 DEF FrameTypes, Sides
  <2>2. Len(sent[c]["client"]) + Len(todo[c]) <= 2
    BY <1>2 DEF Talk, Requests
  <2> DEFINE i == Len(sent[c]["client"])
             j == Len(todo[c])
  <2>5. i \in 0..2
    <3>1. i \in Nat /\ j \in Nat /\ i + j <= 2
      <4>1. i \in Nat /\ j \in Nat
        BY <2>1, LenProperties, Zenon
      <4> QED
        BY <2>2, <4>1, Zenon
    <3> HIDE DEF i, j
    <3> QED
      BY <3>1
  <2>3. CASE a = "client"
    BY <2>3, <2>5
  <2>4. CASE a = "server"
    <3>1. Len(sent[c]["server"]) = Len(sent[c]["client"])
      BY <1>3, <1>4, <2>4 DEF Even, Peer
    <3> QED
      BY <2>4, <2>5, <3>1
  <2> QED
    BY <2>3, <2>4 DEF Sides
<1>12. p \in Payloads
  <2> DEFINE i == Len(sent[c][a])
  <2>1. n \in Lengths /\ i \in 0..2
    BY <1>6, <1>11
  <2> HIDE DEF n, i
  <2>2. Payload(n, i) \in Payloads
    BY <2>1 DEF Payloads
  <2> QED
    BY <2>2, Zenon DEF n, i
<1> DEFINE l == Append(sent[c][a], p)
<1>13. l \in Seq(Payloads) /\ Len(l) = Len(sent[c][a]) + 1
  <2>1. sent[c][a] \in Seq(Payloads)
    BY <1>2 DEF FrameTypes
  <2> HIDE DEF p
  <2> QED
    BY <1>12, <2>1
<1>14. w \in Seq(Seq(Nat))
  <2>1. wire[c][t] \in Seq(Seq(Nat))
    BY <1>1, <1>2 DEF FrameTypes
  <2> HIDE DEF x
  <2> QED
    BY <1>8, <2>1
<1> HIDE DEF w, l
<1>15. /\ wire' \in [Clients -> [Sides -> Seq(Seq(Nat))]] /\ Updated(wire', wire, c, t, w)
       /\ sent' \in [Clients -> [Sides -> Seq(Payloads)]] /\ Updated(sent', sent, c, a, l)
  <2>1. /\ wire \in [Clients -> [Sides -> Seq(Seq(Nat))]]
        /\ sent \in [Clients -> [Sides -> Seq(Payloads)]]
    BY <1>2 DEF FrameTypes
  <2>2. sent' = [sent EXCEPT ![c][a] = l] /\ wire' = [wire EXCEPT ![c][t] = w]
    BY <1>9, Zenon DEF l
  <2> QED
    BY <1>1, <1>13, <1>14, <2>1, <2>2, TwoSides DEF Updated
<1>16. /\ todo' \in [Clients -> Seq(Actions)]
       /\ \A d \in Clients \ {c} : todo'[d] = todo[d]
       /\ a = "server" => todo'[c] = todo[c]
       /\ a = "client" => Len(todo'[c]) = Len(todo[c]) - 1
  <2>1. todo \in [Clients -> Seq(Actions)]
    BY <1>2 DEF FrameTypes
  <2>2. CASE a = "client"
    <3>1. todo[c] \in Seq(Actions) /\ todo[c] # <<>>
      BY <1>2, <2>1, <2>2 DEF Talk, Requests, WritePayload
    <3>2. Tail(todo[c]) \in Seq(Actions) /\ Len(Tail(todo[c])) = Len(todo[c]) - 1
      BY <3>1
    <3>3. todo' = [todo EXCEPT ![c] = Tail(todo[c])]
      BY <1>9, <2>2, Zenon
    <3> QED
      BY <2>1, <2>2, <3>2, <3>3
  <2>3. CASE a = "server"
    BY <1>9, <2>1, <2>3
  <2> QED
    BY <2>2, <2>3 DEF Sides
<1>17. FrameTypes'
  BY <1>2, <1>9, <1>15, <1>16 DEF FrameTypes
<1>18. Requests(c)'
  <2>1. /\ sent[c]["client"] \in Seq(Payloads) /\ todo[c] \in Seq(Actions)
        /\ Len(sent[c]["client"]) + Len(todo[c]) <= 2
    BY <1>2 DEF FrameTypes, Sides, Talk, Requests
  <2>2. CASE a = "client"
    <3>1. pc'[c].client = "readLength"
      BY <1>10, <2>2 DEF Went
    <3>2. Len(sent'[c]["client"]) + Len(todo'[c]) <= 2
      <4> DEFINE i == Len(sent[c]["client"])
                 j == Len(todo[c])
      <4>1. i \in Nat /\ j \in Nat /\ i + j <= 2
        BY <2>1, LenProperties, Zenon
      <4>2. Len(sent'[c]["client"]) = i + 1 /\ Len(todo'[c]) = j - 1
        BY <1>13, <1>15, <1>16, <2>2 DEF Updated
      <4> HIDE DEF i, j
      <4> QED
        BY <4>1, <4>2
    <3> QED
      BY <3>1, <3>2 DEF Requests
  <2>3. CASE a = "server"
    <3>1. /\ pc'[c].client = pc[c].client /\ todo'[c] = todo[c]
          /\ sent'[c]["client"] = sent[c]["client"]
      BY <1>10, <1>15, <1>16, <2>3 DEF Went, Updated, Peer
    <3> QED
      BY <1>2, <3>1 DEF Talk, Requests
  <2> QED
    BY <2>2, <2>3 DEF Sides
<1>19. Even(c, a)'
  <2>1. CASE a = "client"
    BY <1>3, <1>9, <1>15, <2>1 DEF Even, Updated, Peer
  <2>2. CASE a = "server"
    BY <1>3, <1>9, <1>15, <2>2 DEF Even, Updated, Peer
  <2> QED
    BY <2>1, <2>2 DEF Sides
<1>20. Spoken(c, a, TRUE)'
  <2>1. Idle(c, a)'
    BY <1>1, <1>4, <1>9, <1>15 DEF Idle, Updated
  <2>2. pc'[c][a] = "readLength" /\ pc'[c][t] = pc[c][t]
    BY <1>10 DEF Went
  <2>3. sent'[c][a] = Append(read'[c][t], Payload(Last(begun'[c][a]), Len(read'[c][t])))
    BY <1>4, <1>9, <1>15, Zenon DEF l, Updated
  <2>4. pc'[c][t] # "failed" => Saying(c, a, TRUE)'
    <3> SUFFICES ASSUME pc[c][t] # "failed" PROVE Saying(c, a, TRUE)'
      BY <2>2
    <3>1. Coming(pc[c][t], wire[c][t], inbox[c][t], size[c][t], n, p, joined, FALSE)
      BY <1>4, Zenon DEF Saying
    <3>2. Coming(pc[c][t], w, inbox[c][t], size[c][t], n, p, joined, TRUE)
      BY <1>7, <3>1, ComingWhole, Zenon DEF w
    <3>3. wire'[c][t] = w /\ pc'[c][t] = pc[c][t]
      BY <1>15, <2>2 DEF Updated
    <3> QED
      BY <1>4, <1>9, <3>2, <3>3, Zenon DEF Saying, Joins
  <2> QED
    BY <1>4, <1>9, <2>1, <2>2, <2>3, <2>4, Zenon DEF Spoken
<1>21. Talk(c)'
  BY <1>18, <1>19, <1>20, Zenon DEF Talk, Turn
<1>22. Dialogs'
  BY <1>9, <1>10, <1>15, <1>16, <1>17, <1>21, AllTalk DEF Updated, Went
<1> QED
  BY <1>3, <1>4, <1>9, <1>12, <1>22, Zenon

---------------------------------------------------------------------------
(* Who failed and why                                                      *)

(* Nothing begun is undone: who misframes has misframed.                   *)
LEMMA StillMisframed ==
  ASSUME FrameTypes, NEW c \in Clients, EitherMisframes(c), profile' = profile,
         \/ begun'[c] = begun[c]
         \/ \E a \in Sides, n \in Lengths :
              Updated(begun', begun, c, a, Append(begun[c][a], n))
  PROVE  EitherMisframes(c)'
<1>1. \A s \in Sides : \A i \in DOMAIN begun[c][s] :
        i \in DOMAIN begun'[c][s] /\ begun'[c][s][i] = begun[c][s][i]
  <2>1. CASE begun'[c] = begun[c]
    BY <2>1
  <2>2. ASSUME NEW a \in Sides, NEW n \in Lengths,
               Updated(begun', begun, c, a, Append(begun[c][a], n))
        PROVE  \A s \in Sides : \A i \in DOMAIN begun[c][s] :
                 i \in DOMAIN begun'[c][s] /\ begun'[c][s][i] = begun[c][s][i]
    <3>1. begun[c][a] \in Seq(Lengths)
      BY DEF FrameTypes
    <3>2. \A i \in DOMAIN begun[c][a] :
            i \in DOMAIN Append(begun[c][a], n) /\ Append(begun[c][a], n)[i] = begun[c][a][i]
      BY <3>1
    <3>3. begun'[c][a] = Append(begun[c][a], n) /\ begun'[c][Peer(a)] = begun[c][Peer(a)]
      BY <2>2 DEF Updated
    <3>4. \A i \in DOMAIN begun[c][a] :
            i \in DOMAIN begun'[c][a] /\ begun'[c][a][i] = begun[c][a][i]
      BY <3>2, <3>3, Zenon
    <3>5. \A i \in DOMAIN begun[c][Peer(a)] :
            i \in DOMAIN begun'[c][Peer(a)] /\ begun'[c][Peer(a)][i] = begun[c][Peer(a)][i]
      BY <3>3, Zenon
    <3> QED
      BY <3>4, <3>5, TwoSides, Zenon
  <2> QED
    BY <2>1, <2>2
<1>2. ASSUME NEW s \in Sides, Misframes(c, s) PROVE Misframes(c, s)'
  BY <1>1, <1>2, Zenon DEF Misframes, Joins
<1> QED
  BY <1>2 DEF EitherMisframes, Sides

(* Of a connection a step leaves alone nothing changes.                    *)
LEMMA OthersCauses ==
  ASSUME NEW d \in Clients, Opened(d), Served(d), Blamed(d), FrameTypes,
         pc'[d] = pc[d], why'[d] = why[d], ends'[d] = ends[d], begun'[d] = begun[d],
         profile' = profile, Queued(d)' => Queued(d),
         accepting' = d => Queued(d) \/ accepting = d
  PROVE  (Opened(d) /\ Served(d) /\ Blamed(d))'
<1>1. EitherMisframes(d) => EitherMisframes(d)'
  BY StillMisframed
<1>2. Over(d)' <=> Over(d)
  BY DEF Over
<1>3. Opened(d)'
  BY <1>2 DEF Opened
<1>4. Served(d)'
  BY <1>2 DEF Served
<1>5. Blamed(d)'
  BY <1>1, <1>2 DEF Blamed
<1> QED
  BY <1>3, <1>4, <1>5

Midway == {"readLength", "readPayload", "writeLength", "writePayload"}

(* A step within a dialog.                                                 *)
LEMMA GoingOnCauses ==
  ASSUME TypeOK, FrameTypes, Causes, NEW c \in Clients, NEW a \in Sides, NEW label \in Midway,
         pc[c][a] \in Midway, Went(c, a, label), UNCHANGED <<listener, profile, why>>,
         \A d \in Clients \ {c} : begun'[d] = begun[d],
         \/ begun'[c] = begun[c]
         \/ \E s \in Sides, n \in Lengths :
              Updated(begun', begun, c, s, Append(begun[c][s], n))
  PROVE  Causes'
<1>1. EitherMisframes(c) => EitherMisframes(c)'
  BY StillMisframed
<1>2. Opened(c) /\ Served(c) /\ Blamed(c)
  BY DEF Causes
<1>3. QueuedOnce' /\ \A d \in Clients : Queued(d)' <=> Queued(d)
  BY DEF Causes, QueuedOnce, Queued, listener
<1>4. ASSUME a = "client" PROVE (Opened(c) /\ Served(c) /\ Blamed(c))'
  <2>1. /\ pc[c].client \in Midway /\ pc'[c].client \in Midway /\ pc'[c].server = pc[c].server
        /\ ~Over(c) /\ ~Over(c)'
    BY <1>4 DEF Went, Over, Midway, Peer
  <2>2. Opened(c)'
    BY <1>2, <1>3, <2>1 DEF Opened, Midway, listener
  <2>3. Served(c)'
    BY <1>2, <2>1 DEF Served, Midway, listener
  <2>4. Blamed(c)'
    BY <1>1, <1>2, <2>1 DEF Blamed
  <2> QED
    BY <2>2, <2>3, <2>4
<1>5. ASSUME a = "server" PROVE (Opened(c) /\ Served(c) /\ Blamed(c))'
  <2>1. /\ pc[c].server \in Midway /\ pc'[c].server \in Midway /\ pc'[c].client = pc[c].client
        /\ Over(c)' <=> Over(c)
    BY <1>5 DEF Went, Over, Midway, Peer
  <2>2. Opened(c)'
    BY <1>2, <1>3, <2>1 DEF Opened, Midway, listener
  <2>3. Served(c)'
    BY <1>2, <2>1 DEF Served, Midway, listener
  <2>4. Blamed(c)'
    BY <1>1, <1>2, <2>1 DEF Blamed, Midway
  <2> QED
    BY <2>2, <2>3, <2>4
<1>6. (Opened(c) /\ Served(c) /\ Blamed(c))'
  BY <1>4, <1>5 DEF Sides
<1>7. ASSUME NEW d \in Clients, d # c PROVE (Opened(d) /\ Served(d) /\ Blamed(d))'
  <2>1. /\ pc'[d] = pc[d] /\ why'[d] = why[d] /\ ends'[d] = ends[d] /\ accepting' = accepting
        /\ begun'[d] = begun[d]
    BY <1>7 DEF Went, listener
  <2>2. Opened(d) /\ Served(d) /\ Blamed(d)
    BY DEF Causes
  <2> QED
    BY <1>3, <2>1, <2>2, OthersCauses
<1> QED
  BY <1>3, <1>6, <1>7 DEF Causes

(* A side that ends closes its end, and a run says why.                    *)
LEMMA EndingCauses ==
  ASSUME TypeOK, FrameTypes, Causes, NEW c \in Clients, NEW a \in Sides,
         NEW label \in {"done", "failed"}, Went(c, a, label), Shut(c, a) \/ ends' = ends,
         UNCHANGED <<backlog, accepting, profile, begun>>,
         label = "done" => pc[c][a] \in Midway,
         a = "server" => /\ label = "failed" /\ pc[c].server \in Midway
                         /\ EitherMisframes(c) \/ Over(c),
         \A d \in Clients \ {c} : why'[d] = why[d],
         \/ why'[c] \notin {"record", "eof", "length", "write"} \/ why'[c] = why[c]
         \/ profile[c].kind = "refused" \/ EitherMisframes(c)
  PROVE  Causes'
<1>1. EitherMisframes(c) => EitherMisframes(c)'
  BY StillMisframed
<1>2. Opened(c) /\ Served(c) /\ Blamed(c)
  BY DEF Causes
<1>3. QueuedOnce' /\ \A d \in Clients : Queued(d)' <=> Queued(d)
  BY DEF Causes, QueuedOnce, Queued
<1>4. /\ ends'[c] \in {ends[c], ends[c] \ {a}}
      /\ \A d \in Clients \ {c} : ends'[d] = ends[d]
  BY ShutCloses DEF TypeOK, ListenerTypeOK
<1>5. ASSUME a = "client" PROVE (Opened(c) /\ Served(c) /\ Blamed(c))'
  <2>1. /\ pc'[c].client \in {"done", "failed"} /\ pc'[c].server = pc[c].server
        /\ Over(c)' /\ ("server" \in ends'[c] <=> "server" \in ends[c])
    BY <1>4, <1>5 DEF Went, Over, Peer
  <2>2. Opened(c)'
    <3>1. Queued(c)' => pc'[c].client = "failed" /\ pc'[c].server = "none"
      BY <1>2, <1>3, <1>5, <2>1 DEF Opened, Went, Midway
    <3> QED
      BY <1>2, <1>3, <2>1, <3>1 DEF Opened
  <2>3. Served(c)'
    BY <2>1 DEF Served
  <2>4. Blamed(c)'
    BY <1>1, <1>2, <2>1 DEF Blamed
  <2> QED
    BY <2>2, <2>3, <2>4
<1>6. ASSUME a = "server" PROVE (Opened(c) /\ Served(c) /\ Blamed(c))'
  <2>1. /\ pc[c].server \in Midway /\ pc'[c].server = "failed" /\ pc'[c].client = pc[c].client
        /\ Over(c)' <=> Over(c)
        /\ "client" \in ends'[c] <=> "client" \in ends[c]
    BY <1>4, <1>6 DEF Went, Over, Peer
  <2>2. Opened(c)'
    BY <1>2, <1>3, <2>1 DEF Opened, Midway
  <2>3. Served(c)'
    BY <1>2, <2>1 DEF Served
  <2>4. Blamed(c)'
    BY <1>1, <1>2, <1>6, <2>1 DEF Blamed
  <2> QED
    BY <2>2, <2>3, <2>4
<1>7. (Opened(c) /\ Served(c) /\ Blamed(c))'
  BY <1>5, <1>6 DEF Sides
<1>8. ASSUME NEW d \in Clients, d # c PROVE (Opened(d) /\ Served(d) /\ Blamed(d))'
  <2>1. pc'[d] = pc[d] /\ why'[d] = why[d] /\ ends'[d] = ends[d] /\ begun'[d] = begun[d]
    BY <1>4, <1>8 DEF Went
  <2>2. Opened(d) /\ Served(d) /\ Blamed(d)
    BY DEF Causes
  <2> QED
    BY <1>3, <2>1, <2>2, OthersCauses
<1> QED
  BY <1>3, <1>7, <1>8 DEF Causes

(* A side fails in its dialog only if a length was misread or the other    *)
(* side has closed; a server that has closed has refused the client, or    *)
(* its handler has failed before the run ended.                            *)
LEMMA FailingCauses ==
  ASSUME TypeOK, FrameTypes, Causes, NEW c \in Clients, NEW a \in Sides, NEW reason,
         pc[c][a] \in Midway, Fail(c, a, reason), UNCHANGED <<profile, begun>>,
         EitherMisframes(c) \/ Peer(a) \notin ends[c]
  PROVE  Causes'
<1>1. Went(c, a, "failed") /\ Shut(c, a) /\ UNCHANGED <<backlog, accepting>>
  BY GotoWent DEF Fail, FailWith
<1>2. Opened(c) /\ Served(c) /\ Blamed(c)
  BY DEF Causes
<1>3. \A d \in Clients \ {c} : why'[d] = why[d]
  BY DEF Fail, FailWith, TypeOK
<1>4. CASE a = "client"
  <2>1. ~Over(c) /\ pc[c].client \notin {"dial", "handshake"}
    BY <1>4 DEF Over, Midway
  <2>2. profile[c].kind = "refused" \/ EitherMisframes(c)
    BY <1>2, <1>4, <2>1 DEF Served, Blamed, Peer
  <2> QED
    BY <1>1, <1>3, <1>4, <2>2, EndingCauses
<1>5. CASE a = "server"
  <2>1. pc[c].server \in Midway /\ pc[c].client # "dial"
    BY <1>2, <1>5 DEF Opened, Midway
  <2>2. EitherMisframes(c) \/ Over(c)
    BY <1>2, <1>5, <2>1 DEF Opened, Peer
  <2>3. why'[c] = why[c]
    BY <1>5 DEF Fail, FailWith
  <2> QED
    BY <1>1, <1>3, <1>5, <2>1, <2>2, <2>3, EndingCauses
<1> QED
  BY <1>4, <1>5 DEF Sides

(* The frames of either side.                                              *)
LEMMA ExchangeServes ==
  ASSUME Service, NEW c \in Clients, NEW a \in Sides, Exchange(c, a)
  PROVE  Dialogs' /\ Causes'
<1>1. TypeOK /\ Dialogs /\ Causes /\ FrameTypes /\ Talk(c) /\ Opened(c)
  BY DEF Service, Held, Dialogs, Causes
<1>2. CASE ReadRecord(c, a)
  <2>1. Dialogs' /\ (Outcome(Head(wire[c][a])).kind # "data" => EitherMisframes(c))
    BY <1>1, <1>2, RecordTalks, Zenon
  <2>2. CASE Outcome(Head(wire[c][a])).kind = "data"
    <3>1. UNCHANGED <<listener, profile, pc, why, begun>>
      BY <1>2, <2>2 DEF ReadRecord
    <3>2. pc[c][a] \in Midway /\ Went(c, a, pc[c][a])
      BY <1>2, <3>1 DEF ReadRecord, Reading, Midway, Went
    <3>3. Causes'
      BY <1>1, <3>1, <3>2, GoingOnCauses
    <3> QED
      BY <2>1, <3>3
  <2>3. CASE Outcome(Head(wire[c][a])).kind # "data"
    <3>1. /\ Fail(c, a, "record") /\ UNCHANGED <<profile, begun>> /\ pc[c][a] \in Midway
      BY <1>2, <2>3 DEF ReadRecord, Reading, Midway
    <3>2. Causes'
      BY <1>1, <2>1, <2>3, <3>1, FailingCauses
    <3> QED
      BY <2>1, <3>2
  <2> QED
    BY <2>2, <2>3
<1>3. CASE ReadEof(c, a) \/ WriteFails(c, a)
  <2>1. PICK reason : Fail(c, a, reason)
    BY <1>3 DEF ReadEof, WriteFails
  <2>2. /\ UNCHANGED frames /\ pc[c][a] \in Midway /\ Peer(a) \notin ends[c]
    BY <1>3 DEF ReadEof, WriteFails, Reading, Midway, frames
  <2>3. Went(c, a, "failed")
    BY <1>1, <2>1, GotoWent DEF Fail, FailWith
  <2>4. Talk(c)'
    BY <1>1, <2>2, <2>3, FailedTalks
  <2>5. Dialogs'
    BY <1>1, <2>2, <2>3, <2>4, AllTalk DEF Went, frames, FrameTypes
  <2>6. Causes'
    BY <1>1, <2>1, <2>2, FailingCauses DEF frames
  <2> QED
    BY <2>5, <2>6
<1>4. CASE ReadLength(c, a)
  <2>1. Dialogs' /\ ValidLength(HeaderValue(inbox[c][a]))
    BY <1>1, <1>4, LengthTalks, Zenon
  <2>2. /\ Goto(c, a, "readPayload") /\ UNCHANGED <<listener, profile, why, begun>>
        /\ pc[c][a] \in Midway
    BY <1>4, <2>1 DEF ReadLength, Midway
  <2>3. Went(c, a, "readPayload") /\ "readPayload" \in Midway
    BY <1>1, <2>2, GotoWent DEF Midway
  <2>4. Causes'
    BY <1>1, <2>2, <2>3, GoingOnCauses
  <2> QED
    BY <2>1, <2>4
<1>5. CASE ReadPayload(c, a)
  <2>1. Dialogs'
    BY <1>1, <1>5, PayloadTalks, Zenon
  <2>2. pc[c][a] \in Midway /\ UNCHANGED <<profile, why, begun>>
    BY <1>5 DEF ReadPayload, Midway
  <2>3. CASE a = "client" /\ todo[c] = <<>>
    <3>1. /\ Goto(c, a, "done") /\ Shut(c, a) /\ UNCHANGED <<backlog, accepting>>
      BY <1>5, <2>3 DEF ReadPayload
    <3>2. Went(c, a, "done")
      BY <1>1, <3>1, GotoWent
    <3>3. Causes'
      BY <1>1, <2>2, <2>3, <3>1, <3>2, EndingCauses
    <3> QED
      BY <2>1, <3>3
  <2>4. CASE ~(a = "client" /\ todo[c] = <<>>)
    <3>1. Goto(c, a, "writeLength") /\ UNCHANGED listener
      BY <1>5, <2>4 DEF ReadPayload
    <3>2. Went(c, a, "writeLength") /\ "writeLength" \in Midway
      BY <1>1, <3>1, GotoWent DEF Midway
    <3>3. Causes'
      BY <1>1, <2>2, <3>1, <3>2, GoingOnCauses
    <3> QED
      BY <2>1, <3>3
  <2> QED
    BY <2>3, <2>4
<1>6. ASSUME NEW n \in Lengths, WriteLength(c, a, n) PROVE Dialogs' /\ Causes'
  <2>1. Dialogs'
    BY <1>1, <1>6, BegunTalks, Zenon
  <2>2. /\ Goto(c, a, "writePayload") /\ UNCHANGED <<listener, profile, why>>
        /\ pc[c][a] \in Midway /\ "writePayload" \in Midway
        /\ begun' = [begun EXCEPT ![c][a] = Append(begun[c][a], n)]
    BY <1>6 DEF WriteLength, Midway
  <2>3. Went(c, a, "writePayload")
    BY <1>1, <2>2, GotoWent
  <2>4. Updated(begun', begun, c, a, Append(begun[c][a], n))
    <3>1. begun \in [Clients -> [Sides -> Seq(Lengths)]]
      BY <1>1 DEF FrameTypes
    <3> DEFINE v == Append(begun[c][a], n)
    <3>2. begun' = [begun EXCEPT ![c][a] = v]
      BY <2>2
    <3> HIDE DEF v
    <3>3. Updated(begun', begun, c, a, v)
      BY <3>1, <3>2, TwoSides DEF Updated
    <3> QED
      BY <3>3 DEF v
  <2>5. \A d \in Clients \ {c} : begun'[d] = begun[d]
    BY <2>4 DEF Updated
  <2>6. Causes'
    BY <1>1, <2>2, <2>3, <2>4, <2>5, GoingOnCauses
  <2> QED
    BY <2>1, <2>6
<1>7. CASE WritePayload(c, a)
  <2>1. Dialogs'
    BY <1>1, <1>7, CompletedTalks, Zenon
  <2>2. /\ Goto(c, a, "readLength") /\ UNCHANGED <<listener, profile, why, begun>>
        /\ pc[c][a] \in Midway /\ "readLength" \in Midway
    BY <1>7 DEF WritePayload, AfterWrite, Midway
  <2>3. Went(c, a, "readLength")
    BY <1>1, <2>2, GotoWent
  <2>4. Causes'
    BY <1>1, <2>2, <2>3, GoingOnCauses
  <2> QED
    BY <2>1, <2>4
<1> QED
  BY <1>2, <1>3, <1>4, <1>5, <1>6, <1>7 DEF Exchange

(* The steps of a run before its first frame.                              *)
LEMMA BeginningServes ==
  ASSUME Service, NEW c \in Clients,
         \/ Dial(c) \/ DialFails(c) \/ LoadFails(c)
         \/ ClientHandshake(c) \/ ClientHandshakeEof(c) \/ Leave(c)
  PROVE  Dialogs' /\ Causes'
<1>1. TypeOK /\ Dialogs /\ Causes /\ FrameTypes /\ Talk(c)
  BY DEF Service, Held, Dialogs
<1>2. Opened(c) /\ Served(c) /\ Blamed(c) /\ QueuedOnce
  BY <1>1 DEF Causes
<1>3. ASSUME NEW label, Went(c, "client", label), UNCHANGED frames, Talk(c)' PROVE Dialogs'
  BY <1>1, <1>3, AllTalk DEF Went, frames, FrameTypes
<1>4. "client" \in Sides
  BY DEF Sides
<1>5. CASE Dial(c)
  <2>1. /\ Went(c, "client", "handshake") /\ UNCHANGED frames /\ pc[c].client = "dial"
        /\ UNCHANGED <<profile, why, accepting>>
    BY <1>1, <1>4, <1>5, GotoWent DEF Dial, Connect, frames
  <2>2. Talk(c)'
    BY <1>1, <1>4, <2>1, BeginnerTalks
  <2>3. /\ backlog \in Seq(Clients) /\ backlog' = Append(backlog, c)
        /\ ends'[c] = Sides /\ \A d \in Clients \ {c} : ends'[d] = ends[d]
    BY <1>1, <1>5 DEF Dial, Connect, TypeOK, ListenerTypeOK
  <2>4. ~Queued(c) /\ accepting # c /\ pc[c].server = "none" /\ why[c] = None
    BY <1>1, <1>2, <2>1 DEF Opened, TypeOK
  <2>5. QueuedOnce'
    BY <1>2, <2>1, <2>3, <2>4 DEF QueuedOnce, Queued
  <2>6. pc'[c].client = "handshake" /\ pc'[c].server = "none" /\ ~Over(c)'
    BY <2>1, <2>4 DEF Went, Peer, Over
  <2>7. Opened(c)'
    BY <2>1, <2>3, <2>4, <2>6 DEF Opened, Sides
  <2>8. Served(c)' /\ Blamed(c)'
    BY <2>1, <2>4, <2>6 DEF Served, Blamed, None
  <2>9. ASSUME NEW d \in Clients, d # c PROVE (Opened(d) /\ Served(d) /\ Blamed(d))'
    <3>1. Queued(d)' => Queued(d)
      BY <2>3, <2>9 DEF Queued
    <3>2. Opened(d) /\ Served(d) /\ Blamed(d)
      BY <1>1 DEF Causes
    <3>3. /\ pc'[d] = pc[d] /\ why'[d] = why[d] /\ ends'[d] = ends[d] /\ begun'[d] = begun[d]
          /\ profile' = profile /\ accepting' = accepting
      BY <2>1, <2>3, <2>9 DEF Went, frames
    <3> QED
      BY <1>1, <3>1, <3>2, <3>3, OthersCauses
  <2> QED
    BY <1>3, <2>1, <2>2, <2>5, <2>7, <2>8, <2>9 DEF Causes
<1>6. CASE \/ DialFails(c) \/ LoadFails(c) \/ ClientHandshakeEof(c) \/ Leave(c)
           \/ ClientHandshake(c) /\ profile[c].kind = "refuses"
  <2>1. PICK reason \in {"connect", "config", "handshake", "left"} :
          FailWith(c, "client", reason)
    BY <1>6 DEF DialFails, LoadFails, ClientHandshakeEof, Leave, ClientHandshake, Fail
  <2>2. /\ UNCHANGED frames /\ UNCHANGED <<backlog, accepting>>
        /\ Shut(c, "client") \/ ends' = ends
    BY <1>6 DEF DialFails, LoadFails, ClientHandshakeEof, Leave, ClientHandshake, Fail, frames,
                listener
  <2>3. Went(c, "client", "failed")
    BY <1>1, <1>4, <2>1, GotoWent DEF FailWith
  <2>4. Talk(c)'
    BY <1>1, <1>4, <2>2, <2>3, FailedTalks
  <2>5. why' = [why EXCEPT ![c] = reason]
    BY <2>1 DEF FailWith
  <2>6. why'[c] = reason /\ \A d \in Clients \ {c} : why'[d] = why[d]
    BY <1>1, <2>5 DEF TypeOK
  <2>7. Causes'
    BY <1>1, <1>4, <2>2, <2>3, <2>6, EndingCauses DEF frames
  <2> QED
    BY <1>3, <2>2, <2>3, <2>4, <2>7
<1>7. CASE ClientHandshake(c) /\ profile[c].kind # "refuses"
  <2>1. /\ Went(c, "client", "readLength") /\ UNCHANGED frames /\ pc[c].client = "handshake"
        /\ UNCHANGED <<profile, why, listener, begun>> /\ accepting = c
        /\ profile[c].kind \in {"epp", "refused"}
    <3>1. profile[c].kind \in {"epp", "refused", "refuses", "misconfigured", "silent"}
      BY <1>1 DEF TypeOK, Profile
    <3> QED
      BY <1>1, <1>4, <1>7, <3>1, GotoWent DEF ClientHandshake, frames
  <2>2. Talk(c)'
    BY <1>1, <1>4, <2>1, BeginnerTalks
  <2>3. ~Queued(c) /\ "server" \in ends[c] /\ pc[c].server = "none" /\ why[c] = None
    BY <1>1, <1>2, <2>1 DEF Opened, QueuedOnce, Queued, TypeOK
  <2>4. QueuedOnce' /\ \A d \in Clients : Queued(d)' <=> Queued(d)
    BY <1>2, <2>1 DEF QueuedOnce, Queued, listener
  <2>5. pc'[c].client = "readLength" /\ pc'[c].server = "none" /\ ~Over(c) /\ ~Over(c)'
    BY <2>1, <2>3 DEF Went, Peer, Over
  <2>6. Opened(c)'
    BY <1>2, <2>1, <2>3, <2>4, <2>5 DEF Opened, listener
  <2>7. Served(c)' /\ Blamed(c)'
    BY <2>1, <2>3, <2>5 DEF Served, Blamed, None, listener
  <2>8. ASSUME NEW d \in Clients, d # c PROVE (Opened(d) /\ Served(d) /\ Blamed(d))'
    <3>1. Opened(d) /\ Served(d) /\ Blamed(d)
      BY <1>1 DEF Causes
    <3>2. /\ pc'[d] = pc[d] /\ why'[d] = why[d] /\ ends'[d] = ends[d] /\ begun'[d] = begun[d]
          /\ profile' = profile /\ accepting' = accepting
      BY <2>1, <2>8 DEF Went, frames, listener
    <3> QED
      BY <1>1, <2>4, <3>1, <3>2, OthersCauses
  <2> QED
    BY <1>3, <2>1, <2>2, <2>4, <2>6, <2>7, <2>8 DEF Causes
<1> QED
  BY <1>5, <1>6, <1>7

(* The listener's steps: a connection reaches a handler only once its      *)
(* handshake is over, and is closed only before its run has a server, or   *)
(* when the server refuses it.                                             *)
LEMMA ListenerServes ==
  ASSUME Service, AcceptStep \/ Shutdown PROVE Dialogs' /\ Causes'
<1>1. TypeOK /\ Dialogs /\ Causes /\ FrameTypes /\ QueuedOnce
  BY DEF Service, Held, Dialogs, Causes
<1>2. \A c \in Clients : Opened(c) /\ Served(c) /\ Blamed(c) /\ Talk(c)
  BY <1>1 DEF Causes, Dialogs
<1>3. backlog \in Seq(Clients) /\ ends \in [Clients -> SUBSET Sides] /\ \A c \in Clients : c # None
  BY <1>1, ListenerAssumption DEF TypeOK, ListenerTypeOK
<1>4. ASSUME UNCHANGED <<profile, run>> PROVE Dialogs'
  <2>1. \A c \in Clients : Talk(c)'
    BY <1>2, <1>4, OthersTalk DEF run
  <2> QED
    BY <1>1, <1>4, <2>1 DEF Dialogs, FrameTypes, run
<1>5. ASSUME NEW c \in Clients, Accepted(c) PROVE Dialogs' /\ Causes'
  <2>1. /\ Goto(c, "server", "writeLength") /\ UNCHANGED frames
        /\ UNCHANGED <<profile, why, ends, backlog, begun>> /\ accepting = c /\ accepting' = None
        /\ pc[c].client # "handshake"
    BY <1>5 DEF Accepted, AcceptReturns, HandshakeOk, HandshakeOver, frames
  <2>2. Went(c, "server", "writeLength")
    BY <1>1, <2>1, GotoWent DEF Sides
  <2>3. pc[c].server = "none" /\ pc[c].client # "dial" /\ ~Queued(c)
    BY <1>1, <1>2, <2>1 DEF Opened, QueuedOnce, Queued
  <2>4. Talk(c)'
    BY <1>2, <2>1, <2>2, <2>3, BeginnerTalks DEF Sides
  <2>5. Dialogs'
    BY <1>1, <2>1, <2>2, <2>4, AllTalk DEF Went, frames, FrameTypes
  <2>6. QueuedOnce' /\ \A d \in Clients : Queued(d)' <=> Queued(d)
    BY <1>1, <1>3, <2>1 DEF QueuedOnce, Queued
  <2>7. pc'[c].client = pc[c].client /\ pc'[c].server = "writeLength" /\ (Over(c)' <=> Over(c))
    BY <2>2 DEF Went, Peer, Over
  <2>8. Opened(c)'
    BY <1>2, <1>3, <2>1, <2>3, <2>6, <2>7 DEF Opened
  <2>9. Served(c)'
    BY <1>2, <2>1, <2>3, <2>7 DEF Served
  <2>10. Blamed(c)'
    <3>1. EitherMisframes(c) => EitherMisframes(c)'
      BY <1>1, <2>1, StillMisframed
    <3> QED
      BY <1>2, <2>1, <2>7, <3>1 DEF Blamed
  <2>11. ASSUME NEW d \in Clients, d # c PROVE (Opened(d) /\ Served(d) /\ Blamed(d))'
    <3>1. /\ pc'[d] = pc[d] /\ why'[d] = why[d] /\ ends'[d] = ends[d] /\ begun'[d] = begun[d]
          /\ profile' = profile /\ accepting' # d
      BY <1>3, <2>1, <2>2, <2>11 DEF Went
    <3> QED
      BY <1>1, <1>2, <2>6, <3>1, OthersCauses
  <2> QED
    BY <2>5, <2>6, <2>8, <2>9, <2>10, <2>11 DEF Causes
<1>6. ASSUME NEW c \in Clients, Rejected(c) PROVE Dialogs' /\ Causes'
  <2>1. /\ UNCHANGED <<profile, run, backlog>> /\ accepting = c /\ accepting' = None
        /\ profile[c].kind # "epp" /\ Shut(c, "server")
    BY <1>6 DEF Rejected, AcceptFails
  <2>2. ends'[c] = ends[c] \ {"server"} /\ \A d \in Clients \ {c} : ends'[d] = ends[d]
    BY <1>3, <2>1, ShutCloses DEF Sides
  <2>3. ~Queued(c) /\ pc' = pc /\ why' = why /\ begun' = begun /\ (Over(c)' <=> Over(c))
    BY <1>1, <2>1 DEF QueuedOnce, Queued, run, Over
  <2>4. QueuedOnce' /\ \A d \in Clients : Queued(d)' <=> Queued(d)
    BY <1>1, <1>3, <2>1 DEF QueuedOnce, Queued
  <2>5. Opened(c)'
    BY <1>2, <1>3, <2>1, <2>2, <2>3, <2>4 DEF Opened
  <2>6. Served(c)'
    BY <1>2, <2>1, <2>2, <2>3 DEF Served
  <2>7. Blamed(c)'
    <3>1. EitherMisframes(c) => EitherMisframes(c)'
      BY <1>1, <2>1, <2>3, StillMisframed
    <3> QED
      BY <1>2, <2>1, <2>3, <3>1 DEF Blamed
  <2>8. ASSUME NEW d \in Clients, d # c PROVE (Opened(d) /\ Served(d) /\ Blamed(d))'
    <3>1. /\ pc'[d] = pc[d] /\ why'[d] = why[d] /\ ends'[d] = ends[d] /\ begun'[d] = begun[d]
          /\ profile' = profile /\ accepting' # d
      BY <1>3, <2>1, <2>2, <2>3, <2>8
    <3> QED
      BY <1>1, <1>2, <2>4, <3>1, OthersCauses
  <2> QED
    BY <1>4, <2>1, <2>4, <2>5, <2>6, <2>7, <2>8 DEF Causes
<1>7. CASE InnerAccept /\ UNCHANGED <<profile, run>>
  <2>1. /\ UNCHANGED <<profile, run, ends>> /\ backlog # <<>>
        /\ accepting' = Head(backlog) /\ backlog' = Tail(backlog)
    BY <1>7 DEF InnerAccept
  <2>2. /\ accepting' = backlog[1] /\ 1 \in DOMAIN backlog
        /\ \A i \in DOMAIN backlog' : i + 1 \in DOMAIN backlog /\ backlog'[i] = backlog[i + 1]
        /\ \A i \in DOMAIN backlog' : i \in Nat \ {0}
    BY <1>3, <2>1
  <2>3. QueuedOnce'
    <3>1. ASSUME NEW i \in DOMAIN backlog', NEW j \in DOMAIN backlog', backlog'[i] = backlog'[j]
          PROVE  i = j
      <4>1. i + 1 = j + 1
        BY <1>1, <2>2, <3>1 DEF QueuedOnce
      <4> QED
        BY <2>2, <4>1
    <3>2. ASSUME NEW i \in DOMAIN backlog', backlog'[i] = accepting' PROVE FALSE
      <4>1. i + 1 = 1
        BY <1>1, <2>2, <3>2 DEF QueuedOnce
      <4> QED
        BY <2>2, <4>1
    <3> QED
      BY <3>1, <3>2 DEF QueuedOnce
  <2>4. ASSUME NEW d \in Clients PROVE (Opened(d) /\ Served(d) /\ Blamed(d))'
    <3>1. Queued(d)' => Queued(d)
      BY <2>2 DEF Queued
    <3>2. accepting' = d => Queued(d)
      BY <2>2 DEF Queued
    <3>3. /\ pc'[d] = pc[d] /\ why'[d] = why[d] /\ ends'[d] = ends[d] /\ begun'[d] = begun[d]
          /\ profile' = profile
      BY <2>1 DEF run
    <3> QED
      BY <1>1, <1>2, <3>1, <3>2, <3>3, OthersCauses
  <2> QED
    BY <1>4, <2>1, <2>3, <2>4 DEF Causes
<1>8. CASE AcceptClosed /\ UNCHANGED <<profile, run>>
  <2>1. UNCHANGED <<profile, run, ends, backlog, accepting>>
    BY <1>8 DEF AcceptClosed
  <2>2. QueuedOnce' /\ \A d \in Clients : Queued(d)' <=> Queued(d)
    BY <1>1, <2>1 DEF QueuedOnce, Queued
  <2>3. ASSUME NEW d \in Clients PROVE (Opened(d) /\ Served(d) /\ Blamed(d))'
    BY <1>1, <1>2, <2>1, <2>2, OthersCauses DEF run
  <2> QED
    BY <1>4, <2>1, <2>2, <2>3 DEF Causes
<1>9. CASE Shutdown
  <2>1. /\ backlog' = <<>> /\ UNCHANGED <<profile, run, accepting>>
        /\ ends' = [d \in Clients |-> IF Queued(d) THEN ends[d] \ {"server"} ELSE ends[d]]
    BY <1>9 DEF Shutdown, CloseListener, Queued
  <2>2. QueuedOnce' /\ \A d \in Clients : ~Queued(d)'
    BY <2>1 DEF QueuedOnce, Queued
  <2>3. ASSUME NEW d \in Clients PROVE (Opened(d) /\ Served(d) /\ Blamed(d))'
    <3>1. /\ pc'[d] = pc[d] /\ why'[d] = why[d] /\ begun'[d] = begun[d] /\ profile' = profile
          /\ (Over(d)' <=> Over(d))
      BY <2>1 DEF run, Over
    <3>2. CASE Queued(d)
      <4>1. accepting # d /\ pc[d].client \in {"handshake", "failed"} /\ pc[d].server = "none"
        BY <1>1, <1>2, <3>2 DEF QueuedOnce, Queued, Opened
      <4>2. ends'[d] = ends[d] \ {"server"}
        BY <2>1, <3>2
      <4>3. Opened(d)'
        BY <1>2, <2>1, <2>2, <3>1, <4>1, <4>2 DEF Opened
      <4>4. Served(d)'
        BY <3>1, <4>1 DEF Served, Over
      <4>5. Blamed(d)'
        <5>1. EitherMisframes(d) => EitherMisframes(d)'
          BY <1>1, <3>1, StillMisframed
        <5> QED
          BY <1>2, <3>1, <5>1 DEF Blamed
      <4> QED
        BY <4>3, <4>4, <4>5
    <3>3. CASE ~Queued(d)
      <4>1. ends'[d] = ends[d]
        BY <2>1, <3>3
      <4> QED
        BY <1>1, <1>2, <2>1, <2>2, <3>1, <4>1, OthersCauses
    <3> QED
      BY <3>2, <3>3
  <2> QED
    BY <1>4, <2>1, <2>2, <2>3 DEF Causes
<1> QED
  BY <1>5, <1>6, <1>7, <1>8, <1>9 DEF AcceptStep, Accepting

---------------------------------------------------------------------------
(* The theorems                                                            *)

(* At the start nothing is said.                                           *)
LEMMA ServiceInit == Init => Service
<1> SUFFICES ASSUME Init PROVE Service
  OBVIOUS
<1>1. Held
  BY HeldInit
<1>2. /\ \A c \in Clients : pc[c] = [client |-> "dial", server |-> "none"] /\ why[c] = None
      /\ \A c \in Clients : \A s \in Sides :
           /\ wire[c][s] = <<>> /\ inbox[c][s] = <<>> /\ begun[c][s] = <<>>
           /\ sent[c][s] = <<>> /\ read[c][s] = <<>>
  BY DEF Init
<1>3. FrameTypes
  <2>1. todo \in [Clients -> Seq(Actions)]
    <3>1. \A c \in Clients : profile[c].action \in Actions
      BY <1>1 DEF Held, TypeOK, Profile, Actions
    <3>2. <<"login", "check">> \in Seq(Actions)
      BY DEF Actions
    <3>3. \A x \in Actions : <<x>> \in Seq(Actions)
      OBVIOUS
    <3> HIDE DEF Actions
    <3> QED
      BY <3>1, <3>2, <3>3 DEF Init
  <2>2. /\ wire = [c \in Clients |-> [s \in Sides |-> <<>>]]
        /\ inbox = wire /\ begun = wire /\ sent = wire /\ read = wire
        /\ size = [c \in Clients |-> [s \in Sides |-> 0]]
    BY DEF Init
  <2>3. \A S : <<>> \in Seq(S)
    OBVIOUS
  <2> QED
    BY <2>1, <2>2, <2>3 DEF FrameTypes
<1>4. ASSUME NEW c \in Clients PROVE Talk(c)
  <2>1. \A s \in Sides : Idle(c, s)
    BY <1>2, TwoSides DEF Idle
  <2>2. Turn(c, "server")
    BY <1>2, <2>1 DEF Turn, Even, Silent, Sides, Peer
  <2>3. Requests(c)
    <3>1. Len(todo[c]) <= 2
      BY DEF Init
    <3> QED
      BY <1>2, <1>3, <3>1 DEF Requests, FrameTypes, Sides
  <2> QED
    BY <2>2, <2>3 DEF Talk, Sides
<1>5. backlog = <<>> /\ accepting = None /\ \A c \in Clients : c # None
  BY ListenerAssumption DEF Init, ListenerInit
<1>6. Causes
  BY <1>2, <1>5 DEF Causes, QueuedOnce, Queued, Opened, Served, Blamed, Over, None
<1> QED
  BY <1>1, <1>3, <1>4, <1>6 DEF Service, Dialogs

(* Every step keeps the invariant.                                         *)
LEMMA ServiceStep == Service /\ [Next]_vars => Service'
<1> SUFFICES ASSUME Service, [Next]_vars PROVE Service'
  OBVIOUS
<1>1. Held'
  BY HeldStep DEF Service
<1>2. CASE AcceptStep \/ Shutdown \/ Retire
  BY <1>1, <1>2, ListenerServes DEF Retire, Service
<1>3. ASSUME NEW c \in Clients, ClientStep(c) \/ Leave(c) \/ Exchange(c, "server")
      PROVE  Service'
  BY <1>1, <1>3, BeginningServes, ExchangeServes DEF ClientStep, Service, Sides
<1>4. CASE UNCHANGED vars
  <2>1. FrameTypes' /\ QueuedOnce' /\ \A d \in Clients : Queued(d)' <=> Queued(d)
    BY <1>4 DEF vars, run, listener, Service, Dialogs, Causes, FrameTypes, QueuedOnce, Queued
  <2>2. ASSUME NEW d \in Clients PROVE Talk(d)' /\ (Opened(d) /\ Served(d) /\ Blamed(d))'
    <3>1. Talk(d) /\ Opened(d) /\ Served(d) /\ Blamed(d) /\ FrameTypes
      BY DEF Service, Dialogs, Causes
    <3> QED
      BY <1>4, <2>1, <3>1, OthersTalk, OthersCauses DEF vars, run, listener
  <2> QED
    BY <1>1, <2>1, <2>2 DEF Service, Dialogs, Causes
<1> QED
  BY <1>2, <1>3, <1>4 DEF Next, System

(* A run that fails after its handshake was refused by the server, or one  *)
(* side sent a length in a record of its own that Read takes for a content *)
(* type: with any number of clients, any lengths and however records cut   *)
(* the frames (client.go:215-243, 295-320, conn.go:194-219).               *)
THEOREM FailuresAreExplained == Spec => []FailureExplained
<1>1. Service => FailureExplained
  BY DEF Service, Causes, Blamed, FailureExplained, EitherMisframes
<1> QED
  BY <1>1, ServiceInit, ServiceStep, PTL DEF Spec

(* A frame a side has read is the next the other has sent.                 *)
LEMMA ReadingImplements ==
  ASSUME Service, NEW c \in Clients, NEW a \in Sides, ReadPayload(c, a)
  PROVE  D!Next
<1> DEFINE s == Peer(a)
           f == Frame(c, s)
           l == read[c][a]
<1>1. /\ sent[c][s] = Append(l, f) /\ sent' = sent
      /\ read' = [read EXCEPT ![c][a] = Append(l, f)]
  BY PayloadTalks DEF Service, Held, ReadPayload
<1>2. {sent, read} \subseteq [Clients -> [Sides -> Seq(Payloads)]]
  BY DEF Service, Dialogs, FrameTypes
<1>3. l \in Seq(Payloads) /\ sent[c][s] \in Seq(Payloads)
  BY <1>2, TwoSides
<1> HIDE DEF f
<1>4. Len(l) < Len(sent[c][s]) /\ sent[c][s][Len(l) + 1] = f
  BY <1>1, <1>3
<1> DEFINE m == Append(l, sent[c][s][Len(l) + 1])
<1>5. read' = [read EXCEPT ![c][a] = m]
  BY <1>1, <1>4
<1> HIDE DEF m
<1>6. CASE a = "client"
  <2>1. Of(read, "client")[c] = l /\ Of(sent, "server")[c] = sent[c][s]
    BY <1>6 DEF Of, Peer
  <2>2. Of(read, "client")' = [Of(read, "client") EXCEPT ![c] = m]
    BY <1>2, <1>5, <1>6 DEF Of, Sides
  <2>3. UNCHANGED <<Of(sent, "server"), Of(sent, "client"), Of(read, "server")>>
    BY <1>1, <1>2, <1>5, <1>6 DEF Of, Sides
  <2>4. D!Hear(c)
    BY <1>4, <2>1, <2>2, <2>3, Zenon DEF D!Hear, m
  <2> QED
    BY <2>4 DEF D!Next
<1>7. CASE a = "server"
  <2>1. Of(read, "server")[c] = l /\ Of(sent, "client")[c] = sent[c][s]
    BY <1>7 DEF Of, Peer
  <2>2. Of(read, "server")' = [Of(read, "server") EXCEPT ![c] = m]
    BY <1>2, <1>5, <1>7 DEF Of, Sides
  <2>3. UNCHANGED <<Of(sent, "server"), Of(sent, "client"), Of(read, "client")>>
    BY <1>1, <1>2, <1>5, <1>7 DEF Of, Sides
  <2>4. D!Take(c)
    BY <1>4, <2>1, <2>2, <2>3, Zenon DEF D!Take, m
  <2> QED
    BY <2>4 DEF D!Next
<1> QED
  BY <1>6, <1>7 DEF Sides

(* A frame a side completes is said when it is its turn.                   *)
LEMMA WritingImplements ==
  ASSUME Service, NEW c \in Clients, NEW a \in Sides, WritePayload(c, a)
  PROVE  D!Next
<1>1. /\ Even(c, a) /\ Idle(c, a) /\ sent[c][a] = read[c][Peer(a)] /\ UNCHANGED read
      /\ \E f \in Payloads : sent' = [sent EXCEPT ![c][a] = Append(sent[c][a], f)]
  <2>1. TypeOK /\ Dialogs /\ Opened(c)
    BY DEF Service, Held, Causes
  <2>2. UNCHANGED read
    BY DEF WritePayload
  <2> QED
    BY <2>1, <2>2, CompletedTalks, Zenon
<1>2. PICK f \in Payloads : sent' = [sent EXCEPT ![c][a] = Append(sent[c][a], f)]
  BY <1>1, Zenon
<1>3. {sent, read} \subseteq [Clients -> [Sides -> Seq(Payloads)]]
  BY DEF Service, Dialogs, FrameTypes
<1> DEFINE m == Append(sent[c][a], f)
<1>4. sent' = [sent EXCEPT ![c][a] = m]
  BY <1>2
<1> HIDE DEF m
<1>5. CASE a = "client"
  <2>1. Len(Of(read, "client")[c]) = Len(Of(sent, "client")[c]) + 1
    BY <1>1, <1>5 DEF Of, Peer, Even, Idle
  <2>2. /\ Of(sent, "client")' = [Of(sent, "client") EXCEPT ![c] = m]
        /\ Of(sent, "client")[c] = sent[c][a]
    BY <1>3, <1>4, <1>5 DEF Of, Sides
  <2>3. UNCHANGED <<Of(sent, "server"), Of(read, "client"), Of(read, "server")>>
    BY <1>1, <1>3, <1>4, <1>5 DEF Of, Sides
  <2>4. D!Ask(c, f)
    BY <2>1, <2>2, <2>3, Zenon DEF D!Ask, m
  <2> QED
    BY <2>4 DEF D!Next
<1>6. CASE a = "server"
  <2>1. Len(Of(sent, "server")[c]) = Len(Of(read, "server")[c])
    BY <1>1, <1>6 DEF Of, Peer, Even, Idle
  <2>2. /\ Of(sent, "server")' = [Of(sent, "server") EXCEPT ![c] = m]
        /\ Of(sent, "server")[c] = sent[c][a]
    BY <1>3, <1>4, <1>6 DEF Of, Sides
  <2>3. UNCHANGED <<Of(sent, "client"), Of(read, "client"), Of(read, "server")>>
    BY <1>1, <1>3, <1>4, <1>6 DEF Of, Sides
  <2>4. D!Say(c, f)
    BY <2>1, <2>2, <2>3, Zenon DEF D!Say, m
  <2> QED
    BY <2>4 DEF D!Next
<1> QED
  BY <1>5, <1>6 DEF Sides

(* Every step of the service is one of the dialog or leaves it alone.      *)
LEMMA ServiceImplements == Service /\ [Next]_vars => [D!Next]_(D!vars)
<1> SUFFICES ASSUME Service, [Next]_vars PROVE [D!Next]_(D!vars)
  OBVIOUS
<1>1. ASSUME UNCHANGED <<sent, read>> PROVE UNCHANGED D!vars
  BY <1>1 DEF D!vars, Of
<1>2. ASSUME NEW c \in Clients, NEW a \in Sides, Exchange(c, a)
      PROVE  D!Next \/ UNCHANGED <<sent, read>>
  BY <1>2, ReadingImplements, WritingImplements
     DEF Exchange, ReadRecord, ReadEof, ReadLength, WriteLength, WriteFails
<1>3. ASSUME AcceptStep \/ Shutdown \/ Retire PROVE UNCHANGED <<sent, read>>
  BY <1>3 DEF AcceptStep, Accepting, Accepted, Rejected, Shutdown, Retire, run
<1>4. ASSUME NEW c \in Clients,
             \/ Dial(c) \/ DialFails(c) \/ LoadFails(c)
             \/ ClientHandshake(c) \/ ClientHandshakeEof(c) \/ Leave(c)
      PROVE  UNCHANGED <<sent, read>>
  BY <1>4 DEF Dial, DialFails, LoadFails, ClientHandshake, ClientHandshakeEof, Leave
<1>5. CASE UNCHANGED vars
  BY <1>1, <1>5 DEF vars, run
<1> QED
  BY <1>1, <1>2, <1>3, <1>4, <1>5 DEF Next, System, ClientStep, Sides

(* On every connection the server speaks first, the two take turns, and    *)
(* each takes what the other said, whole, once and in order, however       *)
(* records cut it and whatever fails (client.go:225-243, 295-320).         *)
THEOREM DialogIsImplemented == Spec => ImplementsDialog
<1>1. Init => D!Init
  BY DEF Init, D!Init, D!Nothing, Of, Sides
<1> QED
  BY <1>1, ServiceInit, ServiceStep, ServiceImplements, PTL DEF Spec, ImplementsDialog, D!Spec
=============================================================================
