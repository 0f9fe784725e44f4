---------------------------- MODULE MCTicketCache ----------------------------
(* Tickets an application may have loaded, for model checking TicketCache. *)
EXTENDS TicketCache

Old(id, received, lifetime, psk) ==
  [id |-> id, received |-> received, lifetime |-> lifetime, psk |-> psk]

(* One that lives for a while, one that is about to die, one without a PSK *)
(* and one without a time of receipt.                                      *)
Live == Old("live", 1, 9, TRUE)
Dying == Old("dying", 1, 1, TRUE)
NoPSK == Old("nopsk", 1, 9, FALSE)
Undated == Old("undated", 0, 9, TRUE)

OneLoaded == {<<Undated, Live>>}
TwoLoaded == {<<Undated, Live>>, <<Dying, NoPSK>>, <<Live, Dying>>}
=============================================================================
