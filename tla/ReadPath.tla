------------------------------ MODULE ReadPath ------------------------------
(***************************************************************************)
(* The read path of adapters/pgvector.py: the search view over the user's  *)
(* table and the read_state row that flip_read_path writes together, the   *)
(* companion columns of prepare, and decommission.  A column has the number*)
(* of its pg_attribute row for good, and every list of columns is in the   *)
(* order of these numbers: a list, and a view, is a function from them.    *)
(***************************************************************************)
EXTENDS Naturals, Sequences, Functions

CONSTANTS
  UserColumns,    \* the user's table before the migration, a sequence of names
  LaterColumns,   \* columns the owner of the table may add
  Old,            \* old_embedding_column, or the default name "embedding"
  OldType,        \* vector type and dimension of Old ...
  NewType,        \* ... and of the new companion column
  Operators,      \* processes that flip
  MaxChanges,     \* bound on the owner's changes of the table
  None            \* no read_state row

Companions == <<"new", "hash", "provenance">>   \* _emb_col, _hash_col, _prov_col
Spaces == {"old", "new"}

ASSUME ReadPathAssumption ==
  /\ UserColumns \in Seq(Range(UserColumns)) /\ IsInjective(UserColumns)
  /\ \A c \in Range(UserColumns) \union LaterColumns : c \notin Range(Companions)
  /\ LaterColumns \cap Range(UserColumns) = {} /\ Old \notin LaterColumns
  /\ None \notin Spaces

VARIABLES
  attributes,  \* pg_attribute: the columns the table ever had
  gone,        \* those that are dropped (attisdropped)
  view,        \* the search view, <<>> if there is none
  readState,   \* read_state.active of the migration
  flip,        \* per operator, the target and the columns listed, or NoFlip
  changes,     \* changes the owner made
  left         \* history: a decommission is the last call that was made

readVars == <<attributes, gone, view, readState, flip, changes, left>>

NoFlip == [active |-> None, listed |-> <<>>]

Init ==
  /\ attributes = UserColumns /\ view = <<>> /\ readState = None
  /\ flip = [o \in Operators |-> NoFlip]
  /\ gone = {} /\ changes = 0 /\ left = FALSE

Columns == Range(attributes) \ gone

Live == { i \in DOMAIN attributes : attributes[i] \notin gone }

\* _list_columns.
ListColumns == [i \in Live |-> attributes[i]]

-----------------------------------------------------------------------------
(* The statement flip_read_path makes.                                     *)

\* The column that serves a space.
Source(active) == IF active = "new" THEN "new" ELSE Old

TypeOf(c) == CASE c = "new" -> NewType [] c = Old -> OldType [] OTHER -> c

\* Output columns of the view: their name, and the column they read.
Output(c, active) ==
  IF c = Old THEN [name |-> "embedding", from |-> Source(active)]
             ELSE [name |-> c, from |-> c]

\* Mutant of SelectList: the vector in the place its own column has.
SelectInPlace(listed, active) ==
  [i \in { j \in DOMAIN listed : listed[j] \notin {Old, "new"} \ {Source(active)} } |->
     [name |-> IF listed[i] = Source(active) THEN "embedding" ELSE listed[i],
      from |-> listed[i]]]

SelectList(listed, active) ==
  [i \in { j \in DOMAIN listed : listed[j] # "new" \/ listed[j] = Old } |->
     Output(listed[i], active)]

(* What Postgres says to it.                                               *)

Readable(v) == \A i \in DOMAIN v : v[i].from \in Columns

NamesDiffer(v) == \A i, j \in DOMAIN v : v[i].name = v[j].name => i = j

\* Mutant of Accepted: the view is dropped and created anew.
AcceptedAnew(v) == Readable(v) /\ NamesDiffer(v)

\* The columns it reads exist and its names differ; the view it replaces keeps
\* its columns, their names, types and places, and may get more at its end.
Accepted(v) ==
  /\ Readable(v) /\ NamesDiffer(v)
  /\ \A i \in DOMAIN view :
       /\ i \in DOMAIN v
       /\ v[i].name = view[i].name /\ TypeOf(v[i].from) = TypeOf(view[i].from)
       /\ \A j \in DOMAIN v \ DOMAIN view : i < j

Statement(o) == SelectList(flip[o].listed, flip[o].active)

-----------------------------------------------------------------------------
(* The operators.                                                          *)

Missing(c) == c \notin Columns

\* Mutant of Prepare: ADD COLUMN without a look at the columns there are.
PrepareBlindly ==
  /\ attributes' = attributes \o Companions
  /\ left' = FALSE
  /\ UNCHANGED <<gone, view, readState, flip, changes>>

AddIfNotExists(table, c) == IF c \in Range(table) THEN table ELSE Append(table, c)

Prepare ==
  /\ attributes' = AddIfNotExists(AddIfNotExists(AddIfNotExists(attributes, Companions[1]),
                                                 Companions[2]), Companions[3])
  /\ left' = FALSE
  /\ UNCHANGED <<gone, view, readState, flip, changes>>

\* _list_columns, a transaction of its own.
FlipList(o, active) ==
  /\ flip[o] = NoFlip /\ Columns # {}
  /\ flip' = [flip EXCEPT ![o] = [active |-> active, listed |-> ListColumns]]
  /\ left' = FALSE
  /\ UNCHANGED <<attributes, gone, view, readState, changes>>

\* View and read_state in one transaction ...
FlipCommit(o) ==
  /\ flip[o] # NoFlip /\ Accepted(Statement(o))
  /\ view' = Statement(o)
  /\ readState' = flip[o].active
  /\ flip' = [flip EXCEPT ![o] = NoFlip]
  /\ UNCHANGED <<attributes, gone, changes, left>>

\* Mutant of FlipFails: the two statements are transactions of their own, and
\* the second runs although the first failed.
FlipHalf(o) ==
  /\ flip[o] # NoFlip /\ ~ Accepted(Statement(o))
  /\ readState' = flip[o].active
  /\ flip' = [flip EXCEPT ![o] = NoFlip]
  /\ UNCHANGED <<attributes, gone, view, changes, left>>

\* ... or psycopg raises and the transaction is rolled back.
FlipFails(o) ==
  /\ flip[o] # NoFlip /\ ~ Accepted(Statement(o))
  /\ flip' = [flip EXCEPT ![o] = NoFlip]
  /\ UNCHANGED <<attributes, gone, view, readState, changes, left>>

\* A process that flips is killed; what it did not commit is rolled back.
FlipDies(o) ==
  /\ flip[o] # NoFlip
  /\ flip' = [flip EXCEPT ![o] = NoFlip]
  /\ UNCHANGED <<attributes, gone, view, readState, changes, left>>

\* A parameter makes psycopg bind on the server, which takes one statement at a
\* time: the string of five is refused before any of them is executed.
Bindable(statements, parameters) == statements = 1 \/ parameters = 0

Decommission ==
  /\ left' = TRUE
  /\ IF Bindable(5, 1)
     THEN gone' = gone \union Range(Companions) /\ view' = <<>> /\ readState' = None
     ELSE UNCHANGED <<gone, view, readState>>
  /\ UNCHANGED <<attributes, flip, changes>>

(* The owner of the table.                                                 *)

\* Bound: the name of a dropped column is not used again (README, section 3).
AddColumn(c) ==
  /\ changes < MaxChanges /\ c \notin Range(attributes)
  /\ attributes' = Append(attributes, c)
  /\ changes' = changes + 1
  /\ UNCHANGED <<gone, view, readState, flip, left>>

\* Refused while the view reads the column.
DropColumn(c) ==
  /\ changes < MaxChanges
  /\ c \in Columns /\ \A i \in DOMAIN view : view[i].from # c
  /\ gone' = gone \union {c}
  /\ changes' = changes + 1
  /\ UNCHANGED <<attributes, view, readState, flip, left>>

-----------------------------------------------------------------------------

Next ==
  \/ Prepare \/ Decommission
  \/ \E o \in Operators, active \in Spaces : FlipList(o, active)
  \/ \E o \in Operators : FlipCommit(o) \/ FlipFails(o) \/ FlipDies(o)
  \/ \E c \in LaterColumns : AddColumn(c) \/ DropColumn(c)

Spec == Init /\ [][Next]_readVars

-----------------------------------------------------------------------------
\* A table has each column once, however often prepare runs (pgvector.py:200-248),
\* and a flip lists columns there were (pgvector.py:495-511).
TypeOK ==
  LET AllColumns == Range(UserColumns) \union LaterColumns \union Range(Companions)
  IN  /\ attributes \in Seq(AllColumns) /\ IsInjective(attributes)
      /\ gone \subseteq Range(attributes)
      /\ readState \in Spaces \union {None}
      /\ \A o \in Operators : /\ flip[o].active \in Spaces \union {None}
                              /\ Range(flip[o].listed) \subseteq AllColumns

\* When read_state names a space the view serves the vectors of that space and
\* of no other, whatever flips overlap or fail (pgvector.py:449, 480-493).
ServesActiveSpace ==
  readState # None =>
    {c \in {Old, "new"} : \E i \in DOMAIN view : view[i].from = c} = {Source(readState)}

\* The view shows every column of the table that is older than one it shows, but
\* for that of the new vectors, though a flip may use a list of columns that is out
\* of date and columns come and go (pgvector.py:450, 457-469, 495-511).
NothingSkipped ==
  \A i \in Live, j \in DOMAIN view :
    i < j /\ attributes[i] # "new" => i \in DOMAIN view

UpToDate(o) == flip[o] # NoFlip /\ flip[o].listed = ListColumns /\ ~ Missing("new")

\* Once the migration is prepared, a flip whose list of columns is up to date
\* is accepted: the path can be flipped at any time, however often it was flipped
\* and the table changed, and whatever flips with older lists have committed
\* (pgvector.py:450-479).
CurrentListAccepted == \A o \in Operators : UpToDate(o) => Accepted(Statement(o))

\* After a cutover the path can be flipped back (README.md:11, "one-command
\* rollback"; cli.py:105; pgvector.py:473-479).
RollbackAccepted ==
  \A o \in Operators :
    UpToDate(o) /\ readState = "new" /\ flip[o].active = "old" => Accepted(Statement(o))

\* After decommission nothing of the migration is left in the user's database
\* (README.md:11, "It runs once, verifies, and leaves"; pgvector.py:513-543).
DecommissionLeaves ==
  left => view = <<>> /\ readState = None /\ \A c \in Range(Companions) : Missing(c)
=============================================================================
