---------------------------- MODULE MCSessionSync ----------------------------
(***************************************************************************)
(* A small instance of SessionSync: one session and rows that are not      *)
(* recorded. Sessions meet only in the limit of a search.                  *)
(***************************************************************************)
EXTENDS SessionSync

CONSTANT a

OneSession == {a}
=============================================================================
