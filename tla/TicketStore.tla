---------------------------- MODULE TicketStore ----------------------------
(***************************************************************************)
(* What a Config's ticket cache promises the connections that share it: a  *)
(* list of tickets in which nothing happens but that a ticket is put in    *)
(* front (taking the place of an older one with the same bytes and pushing *)
(* the oldest out when the list is full) and that a dead ticket goes.      *)
(***************************************************************************)
EXTENDS Naturals, Sequences, SequencesExt

CONSTANT Room          \* how many tickets an insertion leaves at most

VARIABLES cache, now

vars == <<cache, now>>

(* A ticket without a time of receipt or a lifetime is dead from the start.*)
Dead(t, time) ==
  t.received = 0 \/ t.lifetime = 0 \/ time - t.received > t.lifetime

(* The tickets of s that have other bytes than id.                         *)
Without(s, id) ==
  LET others[i \in 0..Len(s)] ==
        IF i = 0 THEN <<>>
        ELSE IF s[i].id = id THEN others[i - 1] ELSE Append(others[i - 1], s[i])
  IN  others[Len(s)]

Insert(t, s) ==
  LET others == Without(s, t.id)
      kept == IF Len(others) < Room THEN Len(others) ELSE Room - 1
  IN  <<t>> \o SubSeq(others, 1, kept)

Add == /\ cache' # <<>>
       /\ cache' = Insert(Head(cache'), cache)
       /\ Head(cache').received <= now
       /\ UNCHANGED now

Expire == /\ \E i \in 1..Len(cache) : /\ Dead(cache[i], now)
                                      /\ cache' = RemoveAt(cache, i)
          /\ UNCHANGED now

Tick == now' = now + 1 /\ UNCHANGED cache

Init == cache \in Seq([id : STRING, received : Nat, lifetime : Nat, psk : BOOLEAN])
        /\ now \in Nat

Next == Add \/ Expire \/ Tick

Spec == Init /\ [][Next]_vars
=============================================================================
