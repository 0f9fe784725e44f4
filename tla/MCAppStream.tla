---------------------------- MODULE MCAppStream ----------------------------
(* Messages for model checking AppStream.                                  *)
EXTENDS AppStream

(* Data that never uses the four content type values; some of it ends in   *)
(* zeros, as the padding of a record does.                                 *)
TextMessages == {<<97, 0, 98>>, <<0>>, <<98, 0>>}

(* The low byte of a length, or any other binary data, can be one of them. *)
BinaryMessages == {<<0, 21>>, <<97, 23>>, <<97, 97>>}
=============================================================================
