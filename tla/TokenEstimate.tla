--------------------------- MODULE TokenEstimate ----------------------------
(***************************************************************************)
(* conservative_token_estimate of alembicio/providers/http_util.py: the    *)
(* HTTP providers' count_tokens.  int(chars / 3.5 + 0.999) is the ceiling  *)
(* of chars / 3.5, and no batch counts for less than one token.            *)
(***************************************************************************)
EXTENDS Integers, Functions, FiniteSetsExt

\* Chars[d] is the length of the text of d.
ConservativeTokenEstimate(chars) ==
  Max({1, (2 * SumFunction(chars) + 6) \div 7})
=============================================================================
