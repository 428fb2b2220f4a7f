------------------------------- MODULE PgStore ------------------------------
(***************************************************************************)
(* The pgvector store adapter (alembicio/adapters/pgvector.py) over the    *)
(* user's table, together with the application that keeps writing to it.   *)
(*                                                                         *)
(* A row carries the user's text and the three companion columns that      *)
(* prepare() adds: the vector, its content hash and its provenance.  The   *)
(* application's writes are transactions of one row: between Open and      *)
(* Commit the row is locked and readers still see its committed version.   *)
(***************************************************************************)
EXTENDS Corpus

CONSTANTS
  Contents,     \* the contents the application writes, Null one without a hash
  NoWrite,      \* no application transaction holds the row's lock
  BatchSize,    \* backfill.batch_size, the LIMIT of claim_batch
  MappingOnly,  \* mapping.mode = "mapping_only": projected rows are complete
  MaxWrites     \* bound on application transactions

ASSUME StoreAssumption ==
  /\ Contents \subseteq Texts \cup {Null}
  /\ BatchSize \in Nat \ {0}
  /\ MappingOnly \in BOOLEAN
  /\ MaxWrites \in Nat

VARIABLES
  rows,    \* the committed rows of the table
  open,    \* open[d]: what the open transaction on row d will make of it
  writes   \* application transactions opened so far (bound only)

storeVars == <<rows, open, writes>>

Provenances == {"embedded", "projected"}

\* A vector by the text it is of and by what made it: the provider, which is taken
\* to make of one text one vector, or a projection of the old vector.
Vectors == [ text: Texts, by: Provenances ]

\* text is the row's content.
RowType == [ text: Texts \cup {Null}, vec: Vectors \cup {Null},
             hash: Texts \cup {Null}, prov: Provenances ]

ASSUME VectorAssumption == Null \notin Vectors
ASSUME AbsentAssumption == Absent \notin RowType /\ Absent \notin Contents
ASSUME NoWriteAssumption == NoWrite \notin Contents \cup {Absent}

\* A row nobody has embedded: as ADD COLUMN leaves it and as the trigger resets it.
Unembedded(t) == [text |-> t, vec |-> Null, hash |-> Null, prov |-> "embedded"]

\* The vector p has made of content t.
VectorOf(t, p) == IF TextOf(t) = Null THEN Null ELSE [text |-> TextOf(t), by |-> p]

\* A complete row: the vector it holds was made for its text.
Written(t, p) == [text |-> t, vec |-> VectorOf(t, p), hash |-> t, prov |-> p]

\* Mutant of Embedded: the SET clause without the companion hash.
EmbeddedUnhashed(row, t, p) == [row EXCEPT !.vec = VectorOf(t, p), !.prov = p]

\* The SET clause of upsert_vectors, for the vector, hash and provenance of a record.
Embedded(row, t, p) == [text |-> row.text, vec |-> VectorOf(t, p), hash |-> t, prov |-> p]

Present(d) == rows[d] # Absent

-----------------------------------------------------------------------------
(* The pending predicate (D11).  IS DISTINCT FROM treats NULLs as equal,   *)
(* so a row whose content has no hash, as md5(NULL), is not pending.       *)

Pending(d) ==
  /\ Present(d)
  /\ \/ rows[d].hash # rows[d].text
     \/ rows[d].prov = "projected" /\ ~MappingOnly

PendingDocs == { d \in Docs : Pending(d) }

Done(d) == Present(d) /\ ~Pending(d) /\ rows[d].vec # Null

\* The rows a search of the new space ranks: WHERE the new column IS NOT NULL.
Found == { d \in Docs : Present(d) /\ rows[d].vec # Null }

\* Mutant of Claimable: without the NOT EXISTS on dead_letter.
ClaimableIfPending(deadKeys) == { d \in PendingDocs : open[d] = NoWrite }

\* Pending rows whose key is not dead-lettered and that no one has locked.
Claimable(deadKeys) ==
  { d \in PendingDocs : open[d] = NoWrite /\ <<d, rows[d].text>> \notin deadKeys }

\* ORDER BY id LIMIT BatchSize FOR UPDATE SKIP LOCKED.
FirstClaimable(deadKeys) ==
  { d \in Claimable(deadKeys) :
      Cardinality({ e \in Claimable(deadKeys) : e < d }) < BatchSize }

ClaimBatch(deadKeys) == [d \in FirstClaimable(deadKeys) |-> rows[d].text]

\* Mutant of Matching: the WHERE clause without its hash guard.
MatchingById(b) == { d \in DOMAIN b : Present(d) }

\* The rows that satisfy the WHERE clause of upsert_vectors for batch b.
Matching(b) == { d \in DOMAIN b : Present(d) /\ rows[d].text = b[d] }

-----------------------------------------------------------------------------
(* The adapter's write.  One transaction for the whole batch: it waits for *)
(* the rows the application has locked and re-evaluates its guard on their *)
(* new version, so its effect is that of the instant it commits.           *)

\* Mutant of UpsertVectors: INSERT ... ON CONFLICT DO UPDATE.
InsertOrUpdate(b, p) ==
  /\ rows' = [d \in Docs |->
                IF d \in DOMAIN b /\ (Present(d) => rows[d].text = b[d])
                THEN Written(b[d], p) ELSE rows[d]]
  /\ UNCHANGED <<open, writes>>

UpsertVectors(b, p) ==
  /\ \A d \in Matching(b) : open[d] = NoWrite
  /\ rows' = [d \in Docs |-> IF d \in Matching(b) THEN Embedded(rows[d], b[d], p) ELSE rows[d]]
  /\ UNCHANGED <<open, writes>>

-----------------------------------------------------------------------------
(* The application, and the trigger prepare() installs: BEFORE INSERT OR   *)
(* UPDATE, a new or changed text resets the companion columns.  It watches *)
(* the text column only: a change of what else the hash expression sees    *)
(* leaves the row with its vector and a hash that is no longer right.      *)

\* Mutant of AfterTrigger: every update resets the companion columns.
AfterEveryUpdate(row, t) == Unembedded(t)

AfterTrigger(row, t) ==
  IF row # Absent /\ TextOf(row.text) = TextOf(t)
  THEN [row EXCEPT !.text = t] ELSE Unembedded(t)

AppOpen(d, c) ==
  /\ writes < MaxWrites
  /\ open[d] = NoWrite
  /\ c = Absent => Present(d)
  /\ open' = [open EXCEPT ![d] = c]
  /\ writes' = writes + 1
  /\ UNCHANGED rows

AppCommit(d) ==
  /\ open[d] # NoWrite
  /\ rows' = [rows EXCEPT ![d] =
                IF open[d] = Absent THEN Absent ELSE AfterTrigger(rows[d], open[d])]
  /\ open' = [open EXCEPT ![d] = NoWrite]
  /\ UNCHANGED writes

AppRollback(d) ==
  /\ open[d] # NoWrite
  /\ open' = [open EXCEPT ![d] = NoWrite]
  /\ UNCHANGED <<rows, writes>>

-----------------------------------------------------------------------------
(* The store on its own, with clients that upsert any batch at any time:   *)
(* what it guarantees does not depend on the worker being careful.         *)

WithText == { t \in Contents : TextOf(t) # Null }

StoreInit ==
  /\ rows \in [Docs -> {Absent} \cup { Unembedded(t) : t \in Contents }
                                \cup { Written(t, "projected") : t \in WithText }]
  /\ open = [d \in Docs |-> NoWrite]
  /\ writes = 0

StoreNext ==
  \/ \E b \in Embeddable, p \in Provenances : UpsertVectors(b, p)
  \/ \E d \in Docs, c \in Contents \cup {Absent} : AppOpen(d, c)
  \/ \E d \in Docs : AppCommit(d)
  \/ \E d \in Docs : AppRollback(d)

StoreSpec == StoreInit /\ [][StoreNext]_storeVars

-----------------------------------------------------------------------------
\* The store's variables have their types.
StoreTypeOK ==
  /\ rows \in [Docs -> RowType \cup {Absent}]
  /\ open \in [Docs -> Contents \cup {Absent, NoWrite}]
  /\ writes \in 0 .. MaxWrites

\* I4: no row ever carries a vector of a text other than its current one, or a
\* companion hash or provenance that is not its vector's, whichever writers race and
\* whatever columns the hash expression sees beside the text: the guard of
\* upsert_vectors and the trigger together leave no window (pgvector.py:220-225,
\* 324-329).
NoStaleVector ==
  \A d \in Docs : Present(d) =>
    /\ rows[d].vec # Null => rows[d].vec.text = TextOf(rows[d].text)
    /\ rows[d].vec = VectorOf(rows[d].hash, rows[d].prov)

\* I3: deletes win.  A row that appears was inserted by the application and
\* carries no vector: a late upsert never brings a deleted row back.
DeletesWin ==
  [][\A d \in Docs : ~Present(d) /\ Present(d)'
       => open[d] = rows'[d].text /\ rows'[d].vec = Null]_storeVars
=============================================================================
