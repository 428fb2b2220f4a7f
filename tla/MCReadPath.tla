----------------------------- MODULE MCReadPath -----------------------------
(***************************************************************************)
(* Instances of ReadPath for TLC.                                          *)
(***************************************************************************)
EXTENDS ReadPath

UserTable == <<"id", "embedding", "content">>
=============================================================================
