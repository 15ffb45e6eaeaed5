----------------------------- MODULE MCOutFile -----------------------------
(* The instance of OutFile for TLC. *)
EXTENDS OutFile

CONSTANTS a, b, c

MCDomain == {a, b, c}
MCFile == {"f"}
=============================================================================
