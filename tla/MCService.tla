------------------------------ MODULE MCService ------------------------------
(***************************************************************************)
(* Two io threads, so that accept handlers and sessions overlap, and two   *)
(* clients, one with access and one without.                               *)
(***************************************************************************)
EXTENDS Service

CONSTANTS c1, c2
MCClients == {c1, c2}
MCLoopback == {}
MCAccess == {c1}
=============================================================================
