------------------------------ MODULE Dialog -------------------------------
(***************************************************************************)
(* What each connection promises the EPP client and the application behind *)
(* a listener: the server speaks first, then the two take turns, and each  *)
(* of them takes what the other said, whole, once and in order.            *)
(***************************************************************************)
EXTENDS Naturals, Sequences

CONSTANTS Clients, Frames

VARIABLES
  said,    \* for each connection the frames of the server
  heard,   \* frames the client has printed
  asked,   \* requests of the client
  taken    \* requests the server has taken

vars == <<said, heard, asked, taken>>

Nothing == [c \in Clients |-> <<>>]

Init == said = Nothing /\ heard = Nothing /\ asked = Nothing /\ taken = Nothing

Say(c, f) ==
  /\ Len(said[c]) = Len(taken[c])
  /\ said' = [said EXCEPT ![c] = Append(@, f)]
  /\ UNCHANGED <<heard, asked, taken>>

Hear(c) ==
  /\ Len(heard[c]) < Len(said[c])
  /\ heard' = [heard EXCEPT ![c] = Append(@, said[c][Len(@) + 1])]
  /\ UNCHANGED <<said, asked, taken>>

Ask(c, f) ==
  /\ Len(heard[c]) = Len(asked[c]) + 1
  /\ asked' = [asked EXCEPT ![c] = Append(@, f)]
  /\ UNCHANGED <<said, heard, taken>>

Take(c) ==
  /\ Len(taken[c]) < Len(asked[c])
  /\ taken' = [taken EXCEPT ![c] = Append(@, asked[c][Len(@) + 1])]
  /\ UNCHANGED <<said, heard, asked>>

Next ==
  \E c \in Clients :
    Hear(c) \/ Take(c) \/ \E f \in Frames : Say(c, f) \/ Ask(c, f)

Spec == Init /\ [][Next]_vars
=============================================================================
