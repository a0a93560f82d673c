---------------------------- MODULE MCConsoleHub ----------------------------
(* ConsoleHub for TLC; every constant is a number or a set of model values. *)
EXTENDS ConsoleHub
=============================================================================
