--------------------------- MODULE MCRuntimeHost ---------------------------
(***************************************************************************)
(* A small instance of the runtime host for TLC.                           *)
(***************************************************************************)
EXTENDS RuntimeHost

CONSTANTS a, k,             \* a database call and a compute call
          local, account    \* the offline space and an account's space
=============================================================================
