------------------------------ MODULE MCConfirm ------------------------------
(***************************************************************************)
(* Two goroutines that call Ask again and again, one prompting while the   *)
(* other waits for the lock; a timeout and a window of two ticks; room for *)
(* a foreign signal in front of an answer, or for two answers.             *)
(***************************************************************************)
EXTENDS Confirm, TLC
=============================================================================
