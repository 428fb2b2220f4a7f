--------------------------- MODULE MCHttpBackfill ---------------------------
(***************************************************************************)
(* Instances of HttpBackfill for TLC.                                      *)
(***************************************************************************)
EXTENDS HttpBackfill, TLC

CONSTANTS
  a, b,   \* two texts, and the contents that have no more than them
  n       \* a content without an inline text

LOCAL TE == INSTANCE TokenEstimate

\* One and two tokens on their own; two tokens together.
Chars == a :> 1 @@ b :> 4

MCTextOf(t) == IF t = n THEN Null ELSE t

MCTokenCount(claimed) ==
  LET inline == { d \in DOMAIN claimed : MCTextOf(claimed[d]) # Null }
  IN  TE!ConservativeTokenEstimate([d \in inline |-> Chars[MCTextOf(claimed[d])]])

TwoTexts == {a, b}
TextsAndNoText == {a, b, n}
AnyContent == {a, b, n, Null}
\* Too small for the corpus, or wide.
TwoLimits == { [tokens |-> 1, usd |-> 9], [tokens |-> 20, usd |-> 40] }
WideLimit == { [tokens |-> 20, usd |-> 40] }
=============================================================================
