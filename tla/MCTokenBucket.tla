--------------------------- MODULE MCTokenBucket ----------------------------
(***************************************************************************)
(* An instance of TokenBucket for TLC; the numbers are in the cfg files.   *)
(***************************************************************************)
EXTENDS TokenBucket

=============================================================================
