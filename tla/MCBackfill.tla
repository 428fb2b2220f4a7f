----------------------------- MODULE MCBackfill -----------------------------
(***************************************************************************)
(* Instances of Backfill for TLC.                                          *)
(***************************************************************************)
EXTENDS Backfill, TLC

CONSTANTS
  a, b,   \* two texts, and the contents that have no more than them
  c,      \* text a with other values in the columns the hash expression sees
  n       \* no inline text, but values in those columns

LOCAL TE == INSTANCE TokenEstimate

\* One and two tokens on their own; two tokens together.
Chars == a :> 1 @@ b :> 4
\* The same with the texts exchanged.
SwappedChars == a :> 4 @@ b :> 1

MCTextOf(t) == CASE t = c -> a [] t = n -> Null [] OTHER -> t

TokensOf(chars, claimed) ==
  LET inline == { d \in DOMAIN claimed : MCTextOf(claimed[d]) # Null }
  IN  TE!ConservativeTokenEstimate([d \in inline |-> chars[MCTextOf(claimed[d])]])

MCTokenCount(claimed) == TokensOf(Chars, claimed)
SwappedTokenCount(claimed) == TokensOf(SwappedChars, claimed)

TwoTexts == {a, b}
TextsAndTitle == {a, b, c}
TitleAndNull == {a, b, c, Null}
AnyContent == {a, b, c, n}

\* Tokens or dollars give out first; ceilings below, at and above what a corpus needs.
TightLimits == { [tokens |-> 2, usd |-> 9], [tokens |-> 9, usd |-> 4] }
\* Enough for the corpus as it was, not for a row written again.
PairLimit == { [tokens |-> 3, usd |-> 9] }
WideLimit == { [tokens |-> 20, usd |-> 40] }
=============================================================================
