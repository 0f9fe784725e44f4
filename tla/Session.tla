------------------------------ MODULE Session ------------------------------
(***************************************************************************)
(* What a pair of connected endpoints promises its two applications, with  *)
(* no messages and no keys: each endpoint ends its handshake once, by      *)
(* establishing a session or by giving up; the server never establishes    *)
(* before its client has; when both have established they hold the same    *)
(* parameters; and what one application writes the other one reads once,   *)
(* in order, without gaps.                                                 *)
(***************************************************************************)
EXTENDS Naturals, Sequences

CONSTANT NoParams      \* the parameters of an endpoint with no session

VARIABLES
  phase,               \* "handshaking", "established", "failed" or "closed"
  params,              \* what the endpoint's ConnectionState reports
  written,             \* how many messages the application has written
  delivered            \* the numbers of the peer's messages it has read

vars == <<phase, params, written, delivered>>

Ends == {"client", "server"}
Other(p) == IF p = "client" THEN "server" ELSE "client"

Init ==
  /\ phase = [p \in Ends |-> "handshaking"]
  /\ params = [p \in Ends |-> NoParams]
  /\ written = [p \in Ends |-> 0]
  /\ delivered = [p \in Ends |-> <<>>]

Establish(p) ==
  /\ phase[p] = "handshaking"
  /\ p = "server" => params["client"] # NoParams
  /\ phase' = [phase EXCEPT ![p] = "established"]
  /\ params'[p] # NoParams
  /\ params[Other(p)] # NoParams => params'[p] = params[Other(p)]
  /\ params' = [params EXCEPT ![p] = params'[p]]
  /\ UNCHANGED <<written, delivered>>

Abort(p) ==
  /\ phase[p] = "handshaking"
  /\ phase' = [phase EXCEPT ![p] = "failed"]
  /\ UNCHANGED <<params, written, delivered>>

WriteMessage(p) ==
  /\ phase[p] = "established"
  /\ written' = [written EXCEPT ![p] = @ + 1]
  /\ UNCHANGED <<phase, params, delivered>>

ReadMessage(p) ==
  /\ phase[p] = "established"
  /\ Len(delivered[p]) < written[Other(p)]
  /\ delivered' = [delivered EXCEPT ![p] = Append(@, Len(@) + 1)]
  /\ UNCHANGED <<phase, params, written>>

Finish(p) ==
  /\ phase[p] = "established"
  /\ phase' = [phase EXCEPT ![p] = "closed"]
  /\ UNCHANGED <<params, written, delivered>>

Next == \E p \in Ends : \/ Establish(p)
                        \/ Abort(p)
                        \/ WriteMessage(p)
                        \/ ReadMessage(p)
                        \/ Finish(p)

Spec == Init /\ [][Next]_vars
=============================================================================
