----------------------------- MODULE MCStartup -----------------------------
(* A small instance of Startup. *)
EXTENDS Startup

CONSTANTS adm, tre, evm, zer
=============================================================================
