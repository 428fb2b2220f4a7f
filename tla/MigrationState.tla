-------------------------- MODULE MigrationState --------------------------
(***************************************************************************)
(* The migration state machine of alembicio/core/state.py: a constant      *)
(* table of legal transitions, the states a backfill may be entered from   *)
(* and the terminal states.  Persistence is the control plane's concern.   *)
(***************************************************************************)

MigrationStates ==
  { "CREATED", "PREPARED", "BACKFILLING", "BACKFILLED", "VERIFIED", "CANARY",
    "CUTOVER", "SOAKING", "DONE", "ROLLED_BACK", "PAUSED_BUDGET", "PAUSED_ERROR" }

\* The moves that change the state; the identity is added by IsLegal.
Successors ==
  [ s \in MigrationStates |->
      CASE s = "CREATED"     -> {"PREPARED"}
        [] s = "PREPARED"    -> {"BACKFILLING"}
        [] s = "BACKFILLING" -> {"BACKFILLED", "PAUSED_BUDGET", "PAUSED_ERROR"}
        [] s \in {"PAUSED_BUDGET", "PAUSED_ERROR"} -> {"BACKFILLING"}
        [] s = "BACKFILLED"  -> {"VERIFIED"}
        [] s = "VERIFIED"    -> {"CANARY", "CUTOVER"}
        [] s = "CANARY"      -> {"CUTOVER", "SOAKING", "ROLLED_BACK"}
        [] s = "CUTOVER"     -> {"SOAKING", "ROLLED_BACK"}
        [] s = "SOAKING"     -> {"DONE", "ROLLED_BACK"}
        [] s \in {"DONE", "ROLLED_BACK"} -> {} ]

LegalTransitions ==
  { move \in MigrationStates \X MigrationStates :
      move[2] = move[1] \/ move[2] \in Successors[move[1]] }

\* Mutant of ResumableEntry: an error pause cannot be resumed.
ResumableIfHealthy == {"PREPARED", "BACKFILLING", "PAUSED_BUDGET"}

ResumableEntry == {"PREPARED", "BACKFILLING", "PAUSED_BUDGET", "PAUSED_ERROR"}

TerminalStates == {"DONE", "ROLLED_BACK"}

IsLegal(from, to) == <<from, to>> \in LegalTransitions
=============================================================================
