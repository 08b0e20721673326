-------------------------- MODULE MCAccountSession --------------------------
(***************************************************************************)
(* A small instance of the account session for TLC.                        *)
(***************************************************************************)
EXTENDS AccountSession

CONSTANT call  \* one call, beside the timer, the logins and logouts
=============================================================================
