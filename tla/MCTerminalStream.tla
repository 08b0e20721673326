-------------------------- MODULE MCTerminalStream --------------------------
(* An instance of TerminalStream: a ring of a few bytes that wraps.        *)
EXTENDS TerminalStream
=============================================================================
