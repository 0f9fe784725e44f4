----------------------------- MODULE Listener ------------------------------
(***************************************************************************)
(* The listener of api.go: Accept takes a connection from the listener it  *)
(* wraps and does the whole handshake before it returns, without a         *)
(* deadline.  The actions have the part of a step that concerns the        *)
(* listener; EPPService joins them with those of the two endpoints.        *)
(*                                                                         *)
(* The net.Listener inside, the queue of its connections and the loop that *)
(* calls Accept are not this repository's.                                 *)
(***************************************************************************)
EXTENDS Naturals, Sequences, FiniteSets

CONSTANTS
  Clients,
  Backlog      \* bound: connections the kernel holds for Accept

None == "none"

ASSUME ListenerAssumption == Backlog \in Nat /\ None \notin Clients

VARIABLES
  listening,   \* the inner listener is open
  loop,        \* the application's loop: "accept", or "stopped"
  stops,       \* the application's loop ends at an error of Accept
  backlog,     \* connections inner.Accept has still to return
  accepting,   \* the connection Accept does the handshake of
  ends         \* for each connection the sides that have it open

listener == <<listening, loop, stops, backlog, accepting, ends>>

Sides == {"client", "server"}
Peer(side) == IF side = "client" THEN "server" ELSE "client"

ListenerTypeOK ==
  /\ {listening, stops} \subseteq BOOLEAN
  /\ loop \in {"accept", "stopped"}
  /\ backlog \in Seq(Clients)
  /\ accepting \in Clients \cup {None}
  /\ ends \in [Clients -> SUBSET Sides]

ListenerInit ==
  /\ listening = TRUE /\ loop = "accept" /\ stops \in BOOLEAN
  /\ backlog = <<>> /\ accepting = None
  /\ ends = [c \in Clients |-> {}]

Shut(c, side) == ends' = [ends EXCEPT ![c] = @ \ {side}]

(* The kernel answers the client; nobody has to be in Accept.              *)
Connect(c) ==
  /\ listening /\ Len(backlog) < Backlog
  /\ backlog' = Append(backlog, c)
  /\ ends' = [ends EXCEPT ![c] = Sides]
  /\ UNCHANGED <<listening, loop, stops, accepting>>

InnerAccept ==
  /\ loop = "accept" /\ accepting = None /\ backlog # <<>>
  /\ accepting' = Head(backlog)
  /\ backlog' = Tail(backlog)
  /\ UNCHANGED <<listening, loop, stops, ends>>

(* The handshake is done: Accept returns the connection.                   *)
AcceptReturns(c) ==
  /\ accepting = c
  /\ accepting' = None
  /\ UNCHANGED <<listening, loop, stops, backlog, ends>>

(* Faulty variant: the connection stays open.                              *)
AcceptFailsOpen(c) ==
  /\ accepting = c
  /\ accepting' = None
  /\ loop' = IF stops THEN "stopped" ELSE loop
  /\ UNCHANGED <<listening, stops, backlog, ends>>

(* The handshake fails: Accept closes the connection and returns the error *)
(* of this one client as its own.                                          *)
AcceptFails(c) ==
  /\ accepting = c
  /\ accepting' = None
  /\ Shut(c, "server")
  /\ loop' = IF stops THEN "stopped" ELSE loop
  /\ UNCHANGED <<listening, stops, backlog>>

(* inner.Accept of a closed listener.                                      *)
AcceptClosed ==
  /\ loop = "accept" /\ accepting = None /\ ~listening
  /\ loop' = "stopped"
  /\ UNCHANGED <<listening, stops, backlog, accepting, ends>>

(* Close closes the inner listener, which resets what is in its backlog; a *)
(* handshake Accept is in goes on.                                         *)
CloseListener ==
  /\ listening
  /\ listening' = FALSE
  /\ backlog' = <<>>
  /\ ends' = [c \in Clients |-> IF \E i \in DOMAIN backlog : backlog[i] = c
                                  THEN ends[c] \ {"server"} ELSE ends[c]]
  /\ UNCHANGED <<loop, stops, accepting>>
=============================================================================
