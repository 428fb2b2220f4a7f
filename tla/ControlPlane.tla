---------------------------- MODULE ControlPlane ----------------------------
(***************************************************************************)
(* The Postgres control plane (alembicio/core/control_plane.py): the       *)
(* migration's state, its spend ledger and its dead-letter table.  Each    *)
(* method is one transaction on its own connection, hence one step.        *)
(***************************************************************************)
EXTENDS Corpus, MigrationState

CONSTANT Price   \* USD per token, in the smallest unit the runs tell apart

ASSUME PriceAssumption == Price \in Nat

VARIABLES
  state,    \* alembicio.migration.state
  ledger,   \* alembicio.ledger: tokens_in and usd_est
  dead      \* alembicio.dead_letter: attempts per key, 0 where there is no row

controlVars == <<state, ledger, dead>>

Spend == [tokens: Nat, usd: Nat]

NoSpend == [tokens |-> 0, usd |-> 0]

SpendOf(n) == [tokens |-> n, usd |-> n * Price]

Plus(s, t) == [tokens |-> s.tokens + t.tokens, usd |-> s.usd + t.usd]

DeadKeys == { k \in Keys : dead[k] > 0 }

\* set_state: the row is read FOR UPDATE, so the check and the write are one
\* step; an illegal move raises TransitionError and writes nothing.
SetState(s) == IsLegal(state, s) /\ state' = s

CommitSpend(n) == ledger' = Plus(ledger, SpendOf(n))

\* INSERT ... ON CONFLICT DO UPDATE SET attempts = attempts + 1.
RecordDeadLetter(k) == dead' = [dead EXCEPT ![k] = @ + 1]

\* ensure_schema on a new migration id.
ControlInit ==
  /\ state = "CREATED"
  /\ ledger = NoSpend
  /\ dead = [k \in Keys |-> 0]

\* The control plane's variables have their types.
ControlTypeOK ==
  /\ state \in MigrationStates
  /\ ledger \in Spend
  /\ dead \in [Keys -> Nat]
=============================================================================
