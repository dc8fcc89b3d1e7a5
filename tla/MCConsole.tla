----------------------------- MODULE MCConsole -----------------------------
(* A few keys, commands of one and two characters, and lines that the keys typed
   can fill. *)
EXTENDS Console

MCBack == <<"b">>
MCFold == <<"e", "b">>
=============================================================================
