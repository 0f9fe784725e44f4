----------------------------- MODULE MCInterop -----------------------------
(* Servers for model checking Interop.                                     *)
EXTENDS Interop

AllServers == Server
=============================================================================
