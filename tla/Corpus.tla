------------------------------- MODULE Corpus -------------------------------
(***************************************************************************)
(* What the store, the control plane and the worker share: the documents   *)
(* of the user's table and their contents.  A content is what the          *)
(* configured content_hash_expr sees of a row: the text column and perhaps *)
(* others.  A content hash identifies it (md5 is taken to be injective),   *)
(* so a hash is modelled by the content it was computed from.              *)
(***************************************************************************)
EXTENDS Integers, FiniteSets

CONSTANTS
  Docs,     \* document ids, the primary keys of the user's table
  Texts,    \* the contents with a hash that is not NULL
  TextOf(_),\* the text column of a content, or Null
  Null,     \* SQL NULL
  Absent    \* the table has no row with this id

\* Ids are numbers because claim_batch orders by them.
ASSUME DocsAssumption == Docs \subseteq Nat /\ IsFiniteSet(Docs)
ASSUME TextsAssumption ==
  /\ Null \notin Texts
  /\ TextOf(Null) = Null
  /\ \A t \in Texts : TextOf(t) \in Texts \cup {Null}

\* A dead-letter or vector record's key: (doc_id, content_hash).
Keys == Docs \X Texts

\* A claimed batch maps each claimed document to the content read by the claim.
Batches == UNION { [D -> Texts] : D \in SUBSET Docs }

\* The batches in which every row has an inline text.
Embeddable == { b \in Batches : \A d \in DOMAIN b : TextOf(b[d]) # Null }

NoBatch == [d \in {} |-> Null]

\* The keys of a batch.
KeysOf(b) == { <<d, b[d]>> : d \in DOMAIN b }
=============================================================================
