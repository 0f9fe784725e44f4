---------------------------- MODULE TicketCache ----------------------------
(***************************************************************************)
(* Config.SessionTickets, shared by the connections made with one Config:  *)
(* snapshotSessionTickets and selectResumptionTicket at each ClientHello,  *)
(* storeSessionTicket for each ticket Read meets, both under               *)
(* sessionTicketsMu, and Config.Clone, which Dial calls without it.        *)
(*                                                                         *)
(* A Go slice is a header (array, length) and a backing array that other   *)
(* headers may share; storeSessionTicket drops dead tickets in place, so   *)
(* arrays are modelled: heap holds them, header says which one is in use.  *)
(***************************************************************************)
EXTENDS Integers, Sequences, FiniteSets, SequencesExt

CONSTANTS
  Conns,        \* connections of the client program
  Dialled,      \* those made by Dial, which works on a clone of the Config
  Ids,          \* ticket contents a server may send
  Lifetimes,    \* lifetimes it may give them
  Limit,        \* SessionTicketLimit
  Loaded,       \* lists of tickets the application may start with
  MaxTickets,   \* bound: tickets sent in all
  MaxTime       \* bound: seconds that pass

None == "none"
Caller == "caller"      \* the Config the application holds
Configs == {Caller} \cup Dialled

Ticket == [id : STRING, received : Nat, lifetime : Nat, psk : BOOLEAN]

ASSUME TicketAssumption ==
  /\ Dialled \subseteq Conns /\ {Caller, None} \cap Conns = {}
  /\ Ids \subseteq STRING /\ Lifetimes \subseteq Nat /\ Limit \in Int
  /\ Loaded \subseteq Seq(Ticket)
  /\ MaxTickets \in Nat /\ MaxTime \in Nat \ {0}

(* A string is one: the provers have no rule that says so.                 *)
ASSUME StringAssumption == None \in STRING

VARIABLES
  now,       \* the clock, in seconds; 0 is the zero time.Time
  heap,      \* backing arrays, in order of allocation
  header,    \* the SessionTickets slice of each Config
  mutex,     \* sessionTicketsMu of each Config, who holds it
  pc,        \* what a connection is doing
  work,      \* locals of storeSessionTicket: t, now, the range loop's
             \* position and the length of dst
  clone,     \* the copy Clone is making: what make allocated, the slice
             \* ranged over, the next index
  offer,     \* the ticket offered in the ClientHello, None if there is none
  own,       \* Conn.tls13Tickets
  reported   \* tickets passed to OnNewSessionTicket

vars == <<now, heap, header, mutex, pc, work, clone, offer, own, reported>>

ConfigOf(c) == IF c \in Dialled THEN c ELSE Caller
Array(h) == heap[h.array]
Elements(h) == SubSeq(Array(h), 1, h.len)

(* make and append into a nil slice: a new array.                          *)
Allocate(s) == heap' = Append(heap, s)
NewHeader(s) == [array |-> Len(heap) + 1, len |-> Len(s)]

NoHeader == [array |-> 1, len |-> 0]
NoTicket == [id |-> None, received |-> 0, lifetime |-> 0, psk |-> FALSE]
NoWork == [ticket |-> NoTicket, time |-> 0, at |-> 1, kept |-> 0]
NoClone == [copy |-> <<>>, header |-> NoHeader, at |-> 1]

---------------------------------------------------------------------------
(* Pure parts *)

(* Faulty variant: the last second of the lifetime is lost.                *)
UsableBefore(t, time) ==
  t.received # 0 /\ t.lifetime # 0 /\ time - t.received < t.lifetime

Usable(t, time) ==
  t.received # 0 /\ t.lifetime # 0 /\ ~(time - t.received > t.lifetime)

(* selectResumptionTicket: among the usable tickets that carry a PSK, the  *)
(* first of the most recent ones.                                          *)
SelectTicket(s) ==
  LET eligible(t) == Usable(t, now) /\ t.psk
      i == SelectInSeq(s, LAMBDA t : /\ eligible(t)
                                     /\ \A u \in ToSet(s) :
                                          eligible(u) => u.received <= t.received)
  IN  IF i = 0 THEN None ELSE s[i].id

EffectiveLimit == IF Limit <= 0 THEN 4 ELSE Limit

(* How many tickets the loop below lets into a list: not less than two.    *)
Room == IF EffectiveLimit > 1 THEN EffectiveLimit ELSE 2

(* Faulty variants: older copies of the ticket stay; the ticket goes last. *)
PrependedTwice(t, s) ==
  <<t>> \o SubSeq(s, 1, IF Len(s) < EffectiveLimit THEN Len(s) ELSE EffectiveLimit - 1)
PrependedLast(t, s) == SelectSeq(s, LAMBDA x : x.id # t.id) \o <<t>>

(* The loop that builds the new list: out starts with t, turn i skips the  *)
(* tickets with the same bytes and appends the others.  The length is      *)
(* compared with the limit after an append and the loop ends there, so one *)
(* other ticket always gets in.                                            *)
Prepended(t, s) ==
  LET Left(out) == Len(out) > 1 /\ Len(out) >= EffectiveLimit
      out[i \in 0..Len(s)] ==
        IF i = 0 THEN <<t>>
        ELSE IF s[i].id = t.id \/ Left(out[i - 1]) THEN out[i - 1]
        ELSE Append(out[i - 1], s[i])
  IN  out[Len(s)]

---------------------------------------------------------------------------
(* A connection begins *)

Goto(c, label) == pc' = [pc EXCEPT ![c] = label]

(* buildTLS13PSKInfo over snapshotSessionTickets: the list is copied under *)
(* the mutex, so it is a step of its own, taken when nobody holds it.      *)
Hello(c) ==
  /\ pc[c] = "hello" /\ mutex[ConfigOf(c)] = None
  /\ offer' = [offer EXCEPT ![c] = SelectTicket(Elements(header[ConfigOf(c)]))]
  /\ Goto(c, "connected")
  /\ UNCHANGED <<now, heap, header, mutex, work, clone, own, reported>>

(* Clone does not take the mutex.  It allocates for the length it reads,   *)
(* then ranges over the slice it finds, element by element.  A slice header*)
(* is read in one step here.                                               *)
CloneMake(c) ==
  /\ pc[c] = "dial"
  /\ clone' = [clone EXCEPT ![c].copy = [i \in 1..header[Caller].len |-> NoTicket]]
  /\ Goto(c, "range")
  /\ UNCHANGED <<now, heap, header, mutex, work, offer, own, reported>>

CloneRange(c) ==
  /\ pc[c] = "range"
  /\ clone' = [clone EXCEPT ![c].header = header[Caller]]
  /\ Goto(c, "copy")
  /\ UNCHANGED <<now, heap, header, mutex, work, offer, own, reported>>

CloneElement(c) ==
  LET k == clone[c] IN
  /\ pc[c] = "copy" /\ k.at <= k.header.len
  /\ IF k.at <= Len(k.copy)
       THEN /\ clone' = [clone EXCEPT ![c] =
              [copy |-> [k.copy EXCEPT ![k.at] = Array(k.header)[k.at]],
               header |-> k.header, at |-> k.at + 1]]
            /\ UNCHANGED pc
       ELSE Goto(c, "panic") /\ UNCHANGED clone    \* index out of range
  /\ UNCHANGED <<now, heap, header, mutex, work, offer, own, reported>>

(* Faulty variant: the slice is copied without its elements.               *)
CloneDoneShared(c) ==
  /\ pc[c] = "copy" /\ clone[c].at > clone[c].header.len
  /\ header' = [header EXCEPT ![c] = clone[c].header]
  /\ Goto(c, "hello")
  /\ UNCHANGED <<now, heap, mutex, work, clone, offer, own, reported>>

(* The clone is complete; Client is called with it.                        *)
CloneDone(c) ==
  /\ pc[c] = "copy" /\ clone[c].at > clone[c].header.len
  /\ Allocate(clone[c].copy)
  /\ header' = [header EXCEPT ![c] = NewHeader(clone[c].copy)]
  /\ Goto(c, "hello")
  /\ UNCHANGED <<now, mutex, work, clone, offer, own, reported>>

---------------------------------------------------------------------------
(* A ticket arrives: tls13ParseAndStoreTickets and storeSessionTicket *)

Sent == SumFunction([c \in Conns |-> Len(own[c])])

(* The ticket is stamped, appended to the connection's own list, and given *)
(* to the application's callback, all before the mutex is asked for.       *)
Receive(c, id, lifetime) ==
  LET t == [id |-> id, received |-> now, lifetime |-> lifetime, psk |-> TRUE] IN
  /\ pc[c] = "connected" /\ Sent < MaxTickets
  /\ own' = [own EXCEPT ![c] = Append(@, t)]
  /\ reported' = reported \cup {t}
  /\ work' = [work EXCEPT ![c] = [NoWork EXCEPT !.ticket = t]]
  /\ Goto(c, "lock")
  /\ UNCHANGED <<now, heap, header, mutex, clone, offer>>

(* Faulty variant: the mutex is not waited for.                            *)
LockAtOnce(c) ==
  /\ pc[c] = "lock"
  /\ mutex' = [mutex EXCEPT ![ConfigOf(c)] = c]
  /\ work' = [work EXCEPT ![c].time = now]
  /\ Goto(c, "filter")
  /\ UNCHANGED <<now, heap, header, clone, offer, own, reported>>

Lock(c) ==
  /\ pc[c] = "lock" /\ mutex[ConfigOf(c)] = None
  /\ mutex' = [mutex EXCEPT ![ConfigOf(c)] = c]
  /\ work' = [work EXCEPT ![c].time = now]
  /\ Goto(c, "filter")
  /\ UNCHANGED <<now, heap, header, clone, offer, own, reported>>

(* One turn of the loop that drops expired tickets: dst shares the array,  *)
(* so a ticket that stays is written back to it.                           *)
Filter(c) ==
  LET h == header[ConfigOf(c)]
      w == work[c]
      t == Array(h)[w.at]
  IN  /\ pc[c] = "filter" /\ w.at <= h.len
      /\ IF Usable(t, w.time)
           THEN /\ heap' = [heap EXCEPT ![h.array][w.kept + 1] = t]
                /\ work' = [work EXCEPT ![c].at = @ + 1, ![c].kept = @ + 1]
           ELSE /\ work' = [work EXCEPT ![c].at = @ + 1]
                /\ UNCHANGED heap
      /\ UNCHANGED <<now, header, mutex, pc, clone, offer, own, reported>>

(* Faulty variant: one element too many is kept.                           *)
ShrinkLess(c) ==
  /\ pc[c] = "filter" /\ work[c].at > header[ConfigOf(c)].len
  /\ header' = [header EXCEPT ![ConfigOf(c)].len = work[c].kept + 1]
  /\ Goto(c, "publish")
  /\ UNCHANGED <<now, heap, mutex, work, clone, offer, own, reported>>

(* c.config.SessionTickets = dst                                           *)
Shrink(c) ==
  /\ pc[c] = "filter" /\ work[c].at > header[ConfigOf(c)].len
  /\ header' = [header EXCEPT ![ConfigOf(c)].len = work[c].kept]
  /\ Goto(c, "publish")
  /\ UNCHANGED <<now, heap, mutex, work, clone, offer, own, reported>>

(* c.config.SessionTickets = out, and the deferred Unlock.                 *)
Publish(c) ==
  LET list == Prepended(work[c].ticket, Elements(header[ConfigOf(c)])) IN
  /\ pc[c] = "publish"
  /\ Allocate(list)
  /\ header' = [header EXCEPT ![ConfigOf(c)] = NewHeader(list)]
  /\ mutex' = [mutex EXCEPT ![ConfigOf(c)] = None]
  /\ work' = [work EXCEPT ![c] = NoWork]
  /\ Goto(c, "connected")
  /\ UNCHANGED <<now, clone, offer, own, reported>>

Tick ==
  /\ now < MaxTime
  /\ now' = now + 1
  /\ UNCHANGED <<heap, header, mutex, pc, work, clone, offer, own, reported>>

---------------------------------------------------------------------------

Init ==
  /\ now = 1
  /\ \E list \in Loaded :
       /\ heap = <<list>>
       /\ header = [g \in Configs |-> IF g = Caller
                                     THEN [NoHeader EXCEPT !.len = Len(list)]
                                     ELSE NoHeader]
  /\ mutex = [g \in Configs |-> None]
  /\ pc = [c \in Conns |-> IF c \in Dialled THEN "dial" ELSE "hello"]
  /\ work = [c \in Conns |-> NoWork]
  /\ clone = [c \in Conns |-> NoClone]
  /\ offer = [c \in Conns |-> None]
  /\ own = [c \in Conns |-> <<>>]
  /\ reported = {}

Cloning(c) == CloneMake(c) \/ CloneRange(c) \/ CloneElement(c) \/ CloneDone(c)
Storing(c) == Lock(c) \/ Filter(c) \/ Shrink(c) \/ Publish(c)

(* Nothing is left to happen: every connection waits for its peer.         *)
Terminated ==
  /\ now = MaxTime /\ Sent = MaxTickets
  /\ \A c \in Conns : pc[c] \in {"connected", "panic"}
  /\ UNCHANGED vars

Next ==
  \/ \E c \in Conns :
       \/ Hello(c) \/ Cloning(c) \/ Storing(c)
       \/ \E id \in Ids, lifetime \in Lifetimes : Receive(c, id, lifetime)
  \/ Tick
  \/ Terminated

(* Every goroutine runs on; a sync.Mutex is not kept from a waiter for     *)
(* ever (its starvation mode).                                             *)
Spec == Init /\ [][Next]_vars /\ \A c \in Conns : SF_vars(Storing(c))
---------------------------------------------------------------------------
(* Properties *)

(* The shape of the state; a header never points past its array.           *)
TypeOK ==
  /\ now \in 1..MaxTime
  /\ heap \in Seq(Seq(Ticket))
  /\ \A g \in Configs : /\ header[g].array \in DOMAIN heap
                         /\ header[g].len \in 0..Len(Array(header[g]))
  /\ mutex \in [Configs -> Conns \cup {None}]
  /\ pc \in [Conns -> {"dial", "range", "copy", "panic", "hello", "connected",
                       "lock", "filter", "publish"}]
  /\ own \in [Conns -> Seq(Ticket)]
  /\ offer \in [Conns -> STRING]

(* The list of a Config as its mutex protects it: while a filter is at     *)
(* work, the tickets it has kept and those it has not seen yet.            *)
List(g) ==
  LET c == mutex[g] IN
  IF c # None /\ pc[c] = "filter"
    THEN SubSeq(Array(header[g]), 1, work[c].kept)
           \o SubSeq(Elements(header[g]), work[c].at, header[g].len)
    ELSE Elements(header[g])

Store == INSTANCE TicketStore WITH
  Room  <- Room,
  cache <- List(Caller),
  now   <- now

(* storeSessionTicket, run by any number of connections that share a       *)
(* Config, with its in-place filter and its second array, only ever drops  *)
(* dead tickets and puts new ones in front.                                *)
ImplementsTicketStore == Store!Spec

(* No update is lost: as long as there are no more different tickets than  *)
(* a list has room for, one that some connection has stored in its Config  *)
(* is there until it, or one with the same bytes that took its place, dies;*)
(* whatever the application loaded is pushed out first.                    *)
NoTicketLost ==
  IsFiniteSet(Ids) /\ Cardinality(Ids) <= Room =>
    \A c \in Conns : pc[c] = "connected" =>
      \A t \in ToSet(own[c]) :
        (\A u \in reported : u.id = t.id => Usable(u, now))
          => \E u \in ToSet(List(ConfigOf(c))) : u.id = t.id

(* A ticket is in front of its Config's list some time after it came in,   *)
(* however many connections want the mutex.                                *)
EventuallyStored ==
  \A c \in Conns :
    pc[c] = "lock"
      ~> /\ own[c] # <<>> /\ header[ConfigOf(c)].len > 0
         /\ Elements(header[ConfigOf(c)])[1].id = Last(own[c]).id

(* The list of one Config changes only in steps of a connection that works *)
(* with that Config and holds its mutex; in particular the clones Dial     *)
(* makes share no array with the Config they were made from.               *)
OnlyHolderChanges ==
  [][\A g \in Configs :
       List(g)' # List(g) =>
         \E c \in Conns : /\ ConfigOf(c) = g
                          /\ mutex[g] = c \/ pc[c] = "copy"
                          /\ pc[c]' # pc[c] \/ work[c]' # work[c]]_vars

Copied(c) == pc[c] \in {"hello", "connected", "lock", "filter", "publish"}

(* Clone never panics, and what it copies are tickets, none of them twice, *)
(* when the Config it copies holds none twice.                             *)
CloneIntact ==
  \A c \in Dialled :
    /\ pc[c] # "panic"
    /\ Copied(c) => /\ NoTicket \notin ToSet(clone[c].copy)
                    /\ \A i, j \in DOMAIN clone[c].copy :
                         i # j => clone[c].copy[i].id # clone[c].copy[j].id
=============================================================================
