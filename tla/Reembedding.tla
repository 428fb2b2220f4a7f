----------------------------- MODULE Reembedding ----------------------------
(***************************************************************************)
(* What a migration promises to the owner of the table, with no word of    *)
(* batches, workers, crashes, ledgers or hashes: each document is embedded *)
(* or set aside, the migration is completed when a count finds none        *)
(* outstanding, and only the owner's writes undo what was done.            *)
(***************************************************************************)
CONSTANTS
  Docs,     \* the documents
  DeadHold  \* documents set aside hold the completion back

VARIABLES
  status,     \* of each document
  changed,    \* documents written since the last count that found nothing
  completed,  \* the migration is completed, or about to be
  blind       \* some count has failed and was taken for "nothing"

reVars == <<status, changed, completed, blind>>

\* There is no such row; it has nothing to embed; it waits; it was set aside; or
\* a search of the new space finds it by its current text.
Statuses == {"absent", "empty", "pending", "dead", "searchable"}

Outstanding ==
  { d \in Docs : status[d] = "pending" \/ (status[d] = "dead" /\ DeadHold) }

Init ==
  /\ status \in [Docs -> Statuses \ {"dead"}]
  /\ changed = {} /\ completed = FALSE /\ blind = FALSE

-----------------------------------------------------------------------------
\* Documents become searchable together, and nothing else becomes of any other.
Embed ==
  /\ \E D \in SUBSET { d \in Docs : status[d] \in {"pending", "dead"} } :
       status' = [d \in Docs |-> IF d \in D THEN "searchable" ELSE status[d]]
  /\ UNCHANGED <<changed, completed, blind>>

SetAside(d) ==
  /\ status[d] = "pending"
  /\ status' = [status EXCEPT ![d] = "dead"]
  /\ UNCHANGED <<changed, completed, blind>>

\* The owner writes.  What has no vector of its text gets none by that.
Change(d) ==
  /\ \E s \in Statuses :
       /\ s = "searchable" => status[d] \notin {"absent", "empty"}
       /\ status' = [status EXCEPT ![d] = s]
  /\ changed' = changed \cup {d}
  /\ UNCHANGED <<completed, blind>>

Complete ==
  /\ Outstanding = {}
  /\ completed' = TRUE /\ changed' = {}
  /\ UNCHANGED <<status, blind>>

CompleteBlindly ==
  /\ completed' = TRUE /\ blind' = TRUE
  /\ UNCHANGED <<status, changed>>

\* The process dies before it has written the state, or the migration is begun anew.
Withdraw ==
  /\ completed' = FALSE
  /\ UNCHANGED <<status, changed, blind>>

Next ==
  \/ Embed \/ Complete \/ CompleteBlindly \/ Withdraw
  \/ \E d \in Docs : SetAside(d) \/ Change(d)

Spec == Init /\ [][Next]_reVars

-----------------------------------------------------------------------------
\* In a completed migration a search of the new space finds every document there
\* is something to embed of, but for those written after the count, those set
\* aside where they do not count, and the consequences of a failed count.
Kept ==
  completed /\ ~blind =>
    \A d \in Docs \ changed :
      status[d] \in {"absent", "empty", "searchable"} \cup IF DeadHold THEN {} ELSE {"dead"}
=============================================================================
