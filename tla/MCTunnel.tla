------------------------------ MODULE MCTunnel ------------------------------
(***************************************************************************)
(* Two bytes of input, three of output through connections that hold one:  *)
(* a copier can have read several, written one and wait for a slow peer,   *)
(* which meanwhile ends, closes or is cut off.                             *)
(***************************************************************************)
EXTENDS Tunnel

MCMaxSent == [client |-> 2, daemon |-> 3]
=============================================================================
