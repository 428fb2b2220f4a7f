--------------------------- MODULE ReadPathProofs ---------------------------
(***************************************************************************)
(* The read path, for any table, any columns its owner adds and drops and  *)
(* any number of operators.  The key is what a list of columns, however    *)
(* old, still says of the table: columns keep their numbers, new ones get  *)
(* higher ones, so what it lacks is new, or newer than all it has.         *)
(***************************************************************************)
EXTENDS ReadPath, TLAPS

AllColumns == Range(UserColumns) \union LaterColumns \union Range(Companions)

\* Lists of columns, by number.
Lists == UNION { [D -> AllColumns] : D \in SUBSET Nat }

\* Types, with the shape of what a flip keeps (pgvector.py:450-511).
TypeInv ==
  /\ attributes \in Seq(AllColumns) /\ IsInjective(attributes)
  /\ gone \subseteq LaterColumns \intersect Range(attributes)
  /\ readState \in Spaces \union {None}
  /\ flip \in [Operators -> [active : Spaces \union {None}, listed : Lists]]

\* A table grows at its end (pgvector.py:214-217).
Grown(table, larger) ==
  /\ larger \in Seq(AllColumns) /\ IsInjective(larger)
  /\ Len(larger) >= Len(table)
  /\ \A i \in 1 .. Len(table) : larger[i] = table[i]

-----------------------------------------------------------------------------
(* Types.                                                                  *)

\* The companions by name (pgvector.py:93-95).
LEMMA CompanionsAre ==
  /\ Companions[1] = "new" /\ Companions[2] = "hash" /\ Companions[3] = "provenance"
  /\ Range(Companions) = {"new", "hash", "provenance"}
  BY DEF Companions, Range

\* ADD COLUMN puts a column at the end (pgvector.py:215-217).
LEMMA AppendGrows ==
  ASSUME NEW table \in Seq(AllColumns), IsInjective(table),
         NEW c \in AllColumns, c \notin Range(table)
  PROVE  Grown(table, Append(table, c))
  BY DEF Grown, IsInjective, Range

\* ADD COLUMN IF NOT EXISTS puts it there when it is missing (pgvector.py:215-217).
LEMMA AddIfNotExistsGrows ==
  ASSUME NEW table \in Seq(AllColumns), IsInjective(table), NEW c \in AllColumns
  PROVE  Grown(table, AddIfNotExists(table, c))
<1>1. CASE c \in Range(table)
  BY <1>1 DEF AddIfNotExists, Grown
<1>2. CASE c \notin Range(table)
  BY <1>2, AppendGrows DEF AddIfNotExists
<1> QED BY <1>1, <1>2

\* To grow twice is to grow (pgvector.py:214-217).
LEMMA GrownTwice ==
  ASSUME NEW s \in Seq(AllColumns), NEW t, NEW u, Grown(s, t), Grown(t, u)
  PROVE  Grown(s, u)
  BY DEF Grown

\* prepare lets the table grow (pgvector.py:200-248).
LEMMA PrepareGrows ==
  ASSUME TypeInv, Prepare
  PROVE  Grown(attributes, attributes')
<1> DEFINE t1 == AddIfNotExists(attributes, Companions[1])
           t2 == AddIfNotExists(t1, Companions[2])
<1>1. /\ Companions[1] \in AllColumns /\ Companions[2] \in AllColumns
      /\ Companions[3] \in AllColumns
  BY CompanionsAre DEF AllColumns
<1>2. Grown(attributes, t1)
  BY <1>1, AddIfNotExistsGrows DEF TypeInv
<1>3. Grown(t1, t2)
  BY <1>1, <1>2, AddIfNotExistsGrows DEF Grown
<1>4. Grown(t2, attributes')
  <2>1. attributes' = AddIfNotExists(t2, Companions[3])
    BY DEF Prepare
  <2>2. t2 \in Seq(AllColumns) /\ IsInjective(t2)
    BY <1>3 DEF Grown
  <2> QED BY <1>1, <2>1, <2>2, AddIfNotExistsGrows
<1> QED BY <1>2, <1>3, <1>4, GrownTwice DEF TypeInv, Grown

\* The string of five statements is refused (pgvector.py:541-542).
LEMMA DecommissionRefused ==
  ASSUME Decommission
  PROVE  UNCHANGED <<attributes, gone, view, readState, flip, changes>>
  BY DEF Decommission, Bindable

\* A list of columns is one (pgvector.py:495-511).
LEMMA ListIsList == TypeInv => ListColumns \in Lists
<1> SUFFICES ASSUME TypeInv PROVE ListColumns \in Lists
  OBVIOUS
<1>1. Live \subseteq Nat /\ \A i \in Live : attributes[i] \in AllColumns
  BY DEF TypeInv, Live
<1>2. ListColumns \in [Live -> AllColumns]
  BY <1>1 DEF ListColumns
<1> QED BY <1>1, <1>2 DEF Lists

\* Nothing is listed by an operator that does not flip.
LEMMA NoFlipTyped == NoFlip \in [active : Spaces \union {None}, listed : Lists]
<1>1. <<>> \in [{} -> AllColumns]
  OBVIOUS
<1>2. <<>> \in Lists
  BY <1>1 DEF Lists
<1> QED BY <1>2 DEF NoFlip

\* Every step keeps the types (pgvector.py:200-248, 442-543).
LEMMA TypeStep == TypeInv /\ [Next]_readVars => TypeInv'
<1> SUFFICES ASSUME TypeInv, [Next]_readVars PROVE TypeInv'
  OBVIOUS
<1>1. ASSUME Grown(attributes, attributes'), UNCHANGED <<gone, readState, flip>>
      PROVE  TypeInv'
  <2>1. Range(attributes) \subseteq Range(attributes')
    BY <1>1 DEF Grown, Range, TypeInv
  <2> QED BY <1>1, <2>1 DEF TypeInv, Grown
<1>2. CASE Prepare
  BY <1>1, <1>2, PrepareGrows DEF Prepare
<1>3. CASE Decommission
  BY <1>3, DecommissionRefused DEF TypeInv
<1>4. ASSUME NEW o \in Operators, NEW active \in Spaces, FlipList(o, active)
      PROVE  TypeInv'
  BY <1>4, ListIsList DEF FlipList, TypeInv
<1>5. ASSUME NEW o \in Operators, FlipCommit(o) \/ FlipFails(o) \/ FlipDies(o)
      PROVE  TypeInv'
  <2>1. flip' = [flip EXCEPT ![o] = NoFlip] /\ UNCHANGED <<attributes, gone>>
    BY <1>5 DEF FlipCommit, FlipFails, FlipDies
  <2>2. readState' \in Spaces \union {None}
    BY <1>5 DEF FlipCommit, FlipFails, FlipDies, TypeInv
  <2> QED BY <2>1, <2>2, NoFlipTyped DEF TypeInv
<1>6. ASSUME NEW c \in LaterColumns, AddColumn(c) PROVE TypeInv'
  BY <1>1, <1>6, AppendGrows DEF AddColumn, TypeInv, AllColumns
<1>7. ASSUME NEW c \in LaterColumns, DropColumn(c) PROVE TypeInv'
  BY <1>7 DEF DropColumn, TypeInv, Columns
<1>8. CASE UNCHANGED readVars
  BY <1>8 DEF readVars, TypeInv
<1> QED BY <1>2, <1>3, <1>4, <1>5, <1>6, <1>7, <1>8 DEF Next

\* A migration starts with the user's table (pgvector.py:200).
LEMMA TypeInit == Init => TypeInv
<1> SUFFICES ASSUME Init PROVE TypeInv
  OBVIOUS
<1>1. UserColumns \in Seq(AllColumns) /\ IsInjective(UserColumns)
  BY ReadPathAssumption DEF AllColumns
<1> QED BY <1>1, NoFlipTyped DEF Init, TypeInv

\* For every table and whatever its owner adds and drops: prepare, run any number of
\* times, never adds a column twice, and flips list columns there were
\* (pgvector.py:200-248, 495-511).
THEOREM ReadPathTypeOK == Spec => []TypeOK
<1>1. TypeInv => TypeOK
  <2> SUFFICES ASSUME TypeInv PROVE TypeOK
    OBVIOUS
  <2>1. \A o \in Operators : Range(flip[o].listed) \subseteq AllColumns
    <3> SUFFICES ASSUME NEW o \in Operators PROVE Range(flip[o].listed) \subseteq AllColumns
      OBVIOUS
    <3>1. flip[o].listed \in Lists
      BY DEF TypeInv
    <3>2. PICK D \in SUBSET Nat : flip[o].listed \in [D -> AllColumns]
      BY <3>1 DEF Lists
    <3> QED BY <3>2 DEF Range
  <2>2. \A o \in Operators : flip[o].active \in Spaces \union {None}
    BY DEF TypeInv
  <2> QED BY <2>1, <2>2 DEF TypeInv, TypeOK, AllColumns
<1> QED BY <1>1, TypeInit, TypeStep, PTL DEF Spec

-----------------------------------------------------------------------------
(* The view.                                                               *)

\* What a flip has listed are columns of the table, and what it lacks is dropped,
\* or newer than all of them (pgvector.py:450, 495-511).
ListInv ==
  \A o \in Operators :
    LET listed == flip[o].listed
    IN  /\ \A i \in DOMAIN listed : i \in DOMAIN attributes /\ listed[i] = attributes[i]
        /\ \A i \in Live, j \in DOMAIN listed : i < j => i \in DOMAIN listed
        /\ flip[o] # NoFlip => /\ flip[o].active \in Spaces
                               /\ \E i \in DOMAIN listed : listed[i] = Old

\* The view is what a flip to read_state makes of columns the table still has
\* (pgvector.py:457-479).
ViewInv ==
  /\ \A i \in DOMAIN view :
       /\ i \in Live /\ attributes[i] # "new"
       /\ view[i] = Output(attributes[i], readState)
       /\ readState \in Spaces
  /\ readState # None => \E i \in DOMAIN view : attributes[i] = Old

ReadInv == TypeInv /\ Old \in Columns /\ ListInv /\ ViewInv /\ NothingSkipped

\* The column of old vectors is one of the user's (pgvector.py:455).
HasOld == Old \in Range(UserColumns)

\* No later column is the old one, and no companion either.
LEMMA OldIsNotNew ==
  HasOld => Old # "new" /\ Old \notin LaterColumns /\ "new" \notin LaterColumns
  BY ReadPathAssumption, CompanionsAre DEF HasOld

\* An output column (pgvector.py:459-464).
LEMMA OutputIs ==
  ASSUME NEW c, NEW active
  PROVE  /\ Output(c, active).name = IF c = Old THEN "embedding" ELSE c
         /\ Output(c, active).from = IF c = Old THEN Source(active) ELSE c
  BY DEF Output

\* What a flip selects of a list (pgvector.py:457-469).
LEMMA Selected ==
  ASSUME HasOld, NEW listed, NEW active
  PROVE  LET v == SelectList(listed, active)
         IN  /\ DOMAIN v = { i \in DOMAIN listed : listed[i] # "new" }
             /\ \A i \in DOMAIN v : v[i] = Output(listed[i], active)
<1>1. \A c : (c # "new" \/ c = Old) <=> c # "new"
  BY OldIsNotNew
<1> QED BY <1>1 DEF SelectList

\* A larger table has the columns it had, where it had them (pgvector.py:214-217).
LEMMA GrownLive ==
  ASSUME TypeInv, Grown(attributes, attributes'), UNCHANGED gone
  PROVE  /\ Live \subseteq Live' /\ Columns \subseteq Columns'
         /\ DOMAIN attributes \subseteq DOMAIN attributes'
         /\ \A i \in DOMAIN attributes : i \in Nat /\ attributes'[i] = attributes[i]
         /\ \A i \in Live', j \in DOMAIN attributes : i < j => i \in Live
<1>1. /\ DOMAIN attributes = 1 .. Len(attributes) /\ Len(attributes) \in Nat
      /\ DOMAIN attributes' = 1 .. Len(attributes)' /\ Len(attributes)' \in Nat
  BY DEF TypeInv, Grown
<1>2. /\ DOMAIN attributes \subseteq DOMAIN attributes'
      /\ \A i \in DOMAIN attributes : i \in Nat /\ attributes'[i] = attributes[i]
  BY <1>1 DEF Grown
<1>3. Live \subseteq Live'
  BY <1>2 DEF Live
<1>4. Columns \subseteq Columns'
  BY <1>2 DEF Columns, Range
<1>5. ASSUME NEW i \in Live', NEW j \in DOMAIN attributes, i < j PROVE i \in Live
  <2>1. i \in DOMAIN attributes' /\ attributes'[i] \notin gone
    BY DEF Live
  <2>2. i \in DOMAIN attributes
    BY <1>1, <1>5, <2>1
  <2> QED BY <1>2, <2>1, <2>2 DEF Live
<1> QED BY <1>2, <1>3, <1>4, <1>5

\* A table that grows keeps the invariant (pgvector.py:214-217).
LEMMA GrowthKeeps ==
  ASSUME ReadInv, Grown(attributes, attributes'), UNCHANGED <<gone, view, readState, flip>>
  PROVE  Old \in Columns' /\ ListInv' /\ ViewInv' /\ NothingSkipped'
<1>0. TypeInv
  BY DEF ReadInv
<1>1. Old \in Columns'
  BY <1>0, GrownLive DEF ReadInv
<1>2. ListInv'
  <2> SUFFICES ASSUME NEW o \in Operators
               PROVE  LET listed == flip[o].listed
                      IN  /\ \A i \in DOMAIN listed :
                               i \in DOMAIN attributes' /\ listed[i] = attributes'[i]
                          /\ \A i \in Live', j \in DOMAIN listed : i < j => i \in DOMAIN listed
    BY DEF ListInv, ReadInv
  <2>1. \A i \in DOMAIN flip[o].listed :
          i \in DOMAIN attributes /\ flip[o].listed[i] = attributes[i]
    BY DEF ReadInv, ListInv
  <2>2. \A i \in Live', j \in DOMAIN flip[o].listed : i < j => i \in Live
    BY <1>0, <2>1, GrownLive
  <2>3. \A i \in Live, j \in DOMAIN flip[o].listed : i < j => i \in DOMAIN flip[o].listed
    BY DEF ReadInv, ListInv
  <2> QED BY <1>0, <2>1, <2>2, <2>3, GrownLive
<1>3. \A i \in DOMAIN view : i \in Live /\ i \in DOMAIN attributes
  BY DEF ReadInv, ViewInv, Live
<1>4. ViewInv'
  BY <1>0, <1>3, GrownLive DEF ReadInv, ViewInv
<1>5. NothingSkipped'
  <2> SUFFICES ASSUME NEW i \in Live', NEW j \in DOMAIN view, i < j, attributes'[i] # "new"
               PROVE  i \in DOMAIN view
    BY DEF NothingSkipped
  <2>1. i \in Live /\ i \in DOMAIN attributes
    BY <1>0, <1>3, GrownLive DEF Live
  <2> QED BY <1>0, <2>1, GrownLive DEF ReadInv, NothingSkipped
<1> QED BY <1>1, <1>2, <1>4, <1>5

\* A flip that commits shows what it has listed, and the path is the one it names
\* (pgvector.py:472-493).
LEMMA CommitKeeps ==
  ASSUME ReadInv, HasOld, NEW o \in Operators, FlipCommit(o)
  PROVE  ViewInv' /\ NothingSkipped'
<1> DEFINE listed == flip[o].listed
           active == flip[o].active
<1>1. /\ flip[o] # NoFlip /\ view' = SelectList(listed, active) /\ readState' = active
      /\ Accepted(SelectList(listed, active))
      /\ UNCHANGED <<attributes, gone>>
  BY DEF FlipCommit, Statement
<1>2. /\ \A i \in DOMAIN listed : i \in DOMAIN attributes /\ listed[i] = attributes[i]
      /\ \A i \in Live, j \in DOMAIN listed : i < j => i \in DOMAIN listed
      /\ active \in Spaces /\ \E i \in DOMAIN listed : listed[i] = Old
  BY <1>1 DEF ReadInv, ListInv
<1>3. /\ DOMAIN view' = { i \in DOMAIN listed : listed[i] # "new" }
      /\ \A i \in DOMAIN view' : view'[i] = Output(listed[i], active)
  BY <1>1, Selected
<1>4. Live' = Live
  BY <1>1 DEF Live
<1>5. \A i \in DOMAIN view' : i \in Live
  <2> SUFFICES ASSUME NEW i \in DOMAIN view' PROVE attributes[i] \notin gone
    BY <1>2, <1>3 DEF Live
  <2>1. CASE attributes[i] = Old
    BY <2>1 DEF ReadInv, Columns
  <2>2. CASE attributes[i] # Old
    <3>1. view'[i].from = attributes[i]
      BY <1>2, <1>3, <2>2, OutputIs
    <3> QED BY <1>1, <3>1 DEF Accepted, Readable, Columns
  <2> QED BY <2>1, <2>2
<1>6. ViewInv'
  <2>1. \A i \in DOMAIN view' : view'[i] = Output(attributes[i], active)
    BY <1>2, <1>3
  <2>2. \E i \in DOMAIN view' : attributes[i] = Old
    BY <1>2, <1>3, OldIsNotNew
  <2>3. \A i \in DOMAIN view' : attributes[i] # "new"
    BY <1>2, <1>3
  <2>4. \A i \in DOMAIN view' : view'[i] = Output(attributes'[i], readState')
    BY <1>1, <2>1
  <2> QED BY <1>1, <1>2, <1>4, <1>5, <2>2, <2>3, <2>4 DEF ViewInv
<1>7. NothingSkipped'
  BY <1>1, <1>2, <1>3, <1>4 DEF NothingSkipped
<1> QED BY <1>6, <1>7

\* The owner drops no column the view reads (pgvector.py:473-479).
LEMMA DropKeeps ==
  ASSUME ReadInv, HasOld, NEW c \in LaterColumns, DropColumn(c)
  PROVE  Old \in Columns' /\ ListInv' /\ ViewInv' /\ NothingSkipped'
<1>1. /\ gone' = gone \union {c} /\ UNCHANGED <<attributes, view, readState, flip>>
      /\ \A i \in DOMAIN view : view[i].from # c
  BY DEF DropColumn
<1>2. Old \in Columns'
  BY <1>1, OldIsNotNew DEF ReadInv, Columns
<1>3. Live' \subseteq Live
  BY <1>1 DEF Live
<1>4. ListInv'
  BY <1>1, <1>3 DEF ReadInv, ListInv
<1>5. ASSUME NEW i \in DOMAIN view PROVE i \in Live'
  <2>1. i \in Live /\ view[i] = Output(attributes[i], readState)
    BY DEF ReadInv, ViewInv
  <2>2. attributes[i] # c
    <3>1. CASE attributes[i] = Old
      BY <3>1, OldIsNotNew
    <3>2. CASE attributes[i] # Old
      BY <1>1, <2>1, <3>2 DEF Output
    <3> QED BY <3>1, <3>2
  <2> QED BY <1>1, <2>1, <2>2 DEF Live
<1>6. ViewInv'
  BY <1>1, <1>5 DEF ReadInv, ViewInv
<1>7. NothingSkipped'
  BY <1>1, <1>3 DEF ReadInv, NothingSkipped
<1> QED BY <1>2, <1>4, <1>6, <1>7

\* Every step keeps the invariant (pgvector.py:200-248, 442-543).
LEMMA ReadStep == HasOld /\ ReadInv /\ [Next]_readVars => ReadInv'
<1> SUFFICES ASSUME HasOld, ReadInv, [Next]_readVars PROVE ReadInv'
  OBVIOUS
<1>0. TypeInv /\ TypeInv'
  BY TypeStep DEF ReadInv
<1>1. CASE UNCHANGED <<attributes, gone, view, readState, flip>>
  BY <1>0, <1>1 DEF ReadInv, ListInv, ViewInv, NothingSkipped, Columns, Live
<1>2. CASE Prepare
  BY <1>0, <1>2, PrepareGrows, GrowthKeeps DEF Prepare, ReadInv
<1>3. CASE Decommission
  BY <1>1, <1>3, DecommissionRefused
<1>4. ASSUME NEW o \in Operators, NEW active \in Spaces, FlipList(o, active)
      PROVE  ReadInv'
  <2>1. /\ flip' = [flip EXCEPT ![o] = [active |-> active, listed |-> ListColumns]]
        /\ UNCHANGED <<attributes, gone, view, readState>>
    BY <1>4 DEF FlipList
  <2>2. Live' = Live /\ Columns' = Columns /\ ViewInv' /\ NothingSkipped'
    BY <2>1 DEF ReadInv, Live, Columns, ViewInv, NothingSkipped
  <2>3. /\ DOMAIN ListColumns = Live
        /\ \A i \in Live : ListColumns[i] = attributes[i] /\ i \in DOMAIN attributes
    BY DEF ListColumns, Live
  <2>4. \E i \in Live : attributes[i] = Old
    BY DEF ReadInv, Columns, Range, Live
  <2>5. flip'[o].listed = ListColumns /\ flip'[o].active = active
    BY <1>0, <2>1 DEF TypeInv
  <2>6. \A p \in Operators \ {o} : flip'[p] = flip[p]
    BY <1>0, <2>1 DEF TypeInv
  <2>7. ListInv'
    BY <2>1, <2>2, <2>3, <2>4, <2>5, <2>6 DEF ReadInv, ListInv
  <2> QED BY <1>0, <2>2, <2>7 DEF ReadInv
<1>5. ASSUME NEW o \in Operators, FlipCommit(o) \/ FlipFails(o) \/ FlipDies(o)
      PROVE  ReadInv'
  <2>1. flip' = [flip EXCEPT ![o] = NoFlip] /\ UNCHANGED <<attributes, gone>>
    BY <1>5 DEF FlipCommit, FlipFails, FlipDies
  <2>2. Live' = Live /\ Columns' = Columns
    BY <2>1 DEF Live, Columns
  <2>3. ListInv'
    <3>1. flip'[o] = NoFlip /\ flip'[o].listed = <<>>
      BY <1>0, <2>1 DEF TypeInv, NoFlip
    <3>2. \A p \in Operators \ {o} : flip'[p] = flip[p]
      BY <1>0, <2>1 DEF TypeInv
    <3> QED BY <2>1, <2>2, <3>1, <3>2 DEF ReadInv, ListInv
  <2>4. ViewInv' /\ NothingSkipped'
    <3>1. CASE FlipCommit(o)
      BY <3>1, CommitKeeps
    <3>2. CASE FlipFails(o) \/ FlipDies(o)
      BY <3>2, <2>2 DEF FlipFails, FlipDies, ReadInv, ViewInv, NothingSkipped
    <3> QED BY <1>5, <3>1, <3>2
  <2> QED BY <1>0, <2>2, <2>3, <2>4 DEF ReadInv
<1>6. ASSUME NEW c \in LaterColumns, AddColumn(c) PROVE ReadInv'
  <2>1. Grown(attributes, attributes')
    BY <1>0, <1>6, AppendGrows DEF AddColumn, TypeInv, AllColumns
  <2> QED BY <1>0, <1>6, <2>1, GrowthKeeps DEF AddColumn, ReadInv
<1>7. ASSUME NEW c \in LaterColumns, DropColumn(c) PROVE ReadInv'
  BY <1>0, <1>7, DropKeeps DEF ReadInv
<1> QED BY <1>1, <1>2, <1>3, <1>4, <1>5, <1>6, <1>7 DEF Next, readVars

\* Before the migration there is no view (pgvector.py:454-456).
LEMMA ReadInit == HasOld /\ Init => ReadInv
<1> SUFFICES ASSUME HasOld, Init PROVE ReadInv
  OBVIOUS
<1>1. DOMAIN view = {} /\ readState = None
  BY DEF Init
<1>2. \A o \in Operators : flip[o] = NoFlip /\ DOMAIN flip[o].listed = {}
  BY DEF Init, NoFlip
<1>3. Old \in Columns
  BY DEF Init, HasOld, Columns
<1> QED BY <1>1, <1>2, <1>3, TypeInit DEF ReadInv, ListInv, ViewInv, NothingSkipped

\* Of a table with a column of old vectors: whatever flips overlap, fail or die, the
\* view serves the space that read_state names and no other (pgvector.py:449-493).
THEOREM ServesActiveSpaceTheorem ==
  ASSUME HasOld
  PROVE  Spec => []ServesActiveSpace
<1>1. ReadInv => ServesActiveSpace
  <2> SUFFICES ASSUME ReadInv, readState # None
               PROVE  \A c \in {Old, "new"} :
                        (\E i \in DOMAIN view : view[i].from = c) <=> c = Source(readState)
    BY OldIsNotNew DEF ServesActiveSpace, Source
  <2>1. \A i \in DOMAIN view : /\ view[i] = Output(attributes[i], readState)
                              /\ attributes[i] # "new"
    BY DEF ReadInv, ViewInv
  <2>2. \A i \in DOMAIN view :
          view[i].from = IF attributes[i] = Old THEN Source(readState) ELSE attributes[i]
    BY <2>1 DEF Output
  <2>3. PICK k \in DOMAIN view : attributes[k] = Old
    BY DEF ReadInv, ViewInv
  <2>4. Source(readState) \in {Old, "new"}
    BY DEF Source
  <2> QED BY <2>1, <2>2, <2>3, <2>4
<1>2. Init => ReadInv
  BY ReadInit
<1>3. ReadInv /\ [Next]_readVars => ReadInv'
  BY ReadStep
<1> QED BY <1>1, <1>2, <1>3, PTL DEF Spec

\* Of such a table: no column older than one the view shows is missing from it,
\* though flips use lists that are out of date (pgvector.py:450-479).
THEOREM NothingSkippedTheorem ==
  ASSUME HasOld
  PROVE  Spec => []NothingSkipped
<1>1. ReadInv => NothingSkipped
  BY DEF ReadInv
<1>2. Init => ReadInv
  BY ReadInit
<1>3. ReadInv /\ [Next]_readVars => ReadInv'
  BY ReadStep
<1> QED BY <1>1, <1>2, <1>3, PTL DEF Spec

\* Of such a table, when both spaces have one type and no other column is called
\* "embedding": a flip with an up-to-date list is accepted, however often the path was
\* flipped and the table changed (pgvector.py:450-479).
THEOREM CurrentListAcceptedTheorem ==
  ASSUME HasOld, OldType = NewType,
         "embedding" \in Range(UserColumns) \union LaterColumns => Old = "embedding"
  PROVE  Spec => []CurrentListAccepted
<1>1. ReadInv => CurrentListAccepted
  <2> SUFFICES ASSUME ReadInv, NEW o \in Operators, UpToDate(o)
               PROVE  Accepted(Statement(o))
    BY DEF CurrentListAccepted
  <2> DEFINE v == Statement(o)
             active == flip[o].active
  <2>1. /\ DOMAIN v = { i \in Live : attributes[i] # "new" }
        /\ \A i \in DOMAIN v : v[i] = Output(attributes[i], active)
    <3>1. v = SelectList(ListColumns, active)
      BY DEF UpToDate, Statement
    <3>2. DOMAIN ListColumns = Live /\ \A i \in Live : ListColumns[i] = attributes[i]
      BY DEF ListColumns
    <3> HIDE DEF v, active
    <3>3. /\ DOMAIN v = { i \in DOMAIN ListColumns : ListColumns[i] # "new" }
          /\ \A i \in DOMAIN v : v[i] = Output(ListColumns[i], active)
      BY <3>1, Selected
    <3> QED BY <3>2, <3>3
  <2>2. TypeInv /\ Old \in Columns /\ ViewInv /\ NothingSkipped /\ "new" \in Columns
    BY DEF ReadInv, UpToDate, Missing
  <2>3. \A i \in Live : /\ i \in Nat /\ i \in DOMAIN attributes
                        /\ attributes[i] \in AllColumns /\ attributes[i] \in Columns
    BY <2>2 DEF Live, TypeInv, Columns, Range
  <2>4. Readable(v)
    <3> SUFFICES ASSUME NEW i \in DOMAIN v PROVE v[i].from \in Columns
      BY DEF Readable
    <3>1. v[i].from = IF attributes[i] = Old THEN Source(active) ELSE attributes[i]
      BY <2>1, OutputIs
    <3>2. Source(active) \in Columns
      BY <2>2 DEF Source
    <3> QED BY <2>1, <2>3, <3>1, <3>2
  <2>5. NamesDiffer(v)
    <3>1. \A i \in DOMAIN v : v[i].name = IF attributes[i] = Old THEN "embedding"
                                                               ELSE attributes[i]
      BY <2>1, OutputIs
    <3>2. \A i \in DOMAIN v : attributes[i] = "embedding" => Old = "embedding"
      <4>1. "embedding" \notin Range(Companions)
        BY CompanionsAre
      <4> QED BY <2>1, <2>3, <4>1 DEF AllColumns
    <3>3. \A i, j \in DOMAIN v : attributes[i] = attributes[j] => i = j
      BY <2>1, <2>2, <2>3 DEF TypeInv, IsInjective
    <3> QED BY <3>1, <3>2, <3>3 DEF NamesDiffer
  <2>6. ASSUME NEW i \in DOMAIN view
        PROVE  /\ i \in DOMAIN v
               /\ v[i].name = view[i].name /\ TypeOf(v[i].from) = TypeOf(view[i].from)
               /\ \A j \in DOMAIN v \ DOMAIN view : i < j
    <3>1. /\ i \in Live /\ attributes[i] # "new"
          /\ view[i] = Output(attributes[i], readState)
      BY <2>2 DEF ViewInv
    <3>2. i \in DOMAIN v /\ v[i] = Output(attributes[i], active)
      BY <2>1, <3>1
    <3>3. v[i].name = view[i].name
      BY <3>1, <3>2 DEF Output
    <3>4. TypeOf(v[i].from) = TypeOf(view[i].from)
      <4>1. TypeOf(Old) = TypeOf("new")
        BY DEF TypeOf
      <4> QED BY <3>1, <3>2, <4>1 DEF Output, Source
    <3>5. ASSUME NEW j \in DOMAIN v, j \notin DOMAIN view PROVE i < j
      <4>1. j \in Live /\ attributes[j] # "new"
        BY <2>1
      <4>2. ~ (j < i)
        BY <2>2, <3>5, <4>1 DEF NothingSkipped
      <4> QED BY <2>3, <3>1, <3>5, <4>1, <4>2
    <3> QED BY <3>2, <3>3, <3>4, <3>5
  <2> QED BY <2>4, <2>5, <2>6 DEF Accepted
<1>2. Init => ReadInv
  BY ReadInit
<1>3. ReadInv /\ [Next]_readVars => ReadInv'
  BY ReadStep
<1> QED BY <1>1, <1>2, <1>3, PTL DEF Spec

\* The space that is served first is served for good.
FirstSpaceStays == [][readState # None => readState' = readState]_readVars

\* Of such a table, when the spaces differ in type: no flip to the other space is ever
\* accepted, neither the rollback after a cutover nor, once the old vectors have been
\* served, the cutover itself (pgvector.py:473-479).
LEMMA OtherSpaceRefused ==
  ASSUME HasOld, OldType # NewType, ReadInv, NEW o \in Operators, flip[o] # NoFlip,
         readState # None, flip[o].active # readState
  PROVE  ~ Accepted(Statement(o))
<1> DEFINE v == Statement(o)
           active == flip[o].active
<1>1. PICK k \in DOMAIN view : attributes[k] = Old
  BY DEF ReadInv, ViewInv
<1>2. view[k] = Output(Old, readState) /\ readState \in Spaces
  BY <1>1 DEF ReadInv, ViewInv
<1>3. active \in Spaces /\ \A i \in DOMAIN flip[o].listed : flip[o].listed[i] = attributes[i]
  BY DEF ReadInv, ListInv
<1>4. SUFFICES ASSUME Accepted(v) PROVE FALSE
  OBVIOUS
<1>5. k \in DOMAIN v /\ TypeOf(v[k].from) = TypeOf(view[k].from)
  BY <1>1, <1>4 DEF Accepted
<1>6. v[k] = Output(Old, active)
  <2>1. /\ \A i \in DOMAIN v : i \in DOMAIN flip[o].listed
        /\ \A i \in DOMAIN v : v[i] = Output(flip[o].listed[i], active)
    BY Selected DEF Statement
  <2> QED BY <1>1, <1>3, <1>5, <2>1
<1>7. v[k].from = Source(active) /\ view[k].from = Source(readState)
  BY <1>2, <1>6, OutputIs
<1>8. TypeOf("new") = NewType /\ TypeOf(Old) = OldType
  BY OldIsNotNew DEF TypeOf
<1> QED BY <1>2, <1>3, <1>5, <1>7, <1>8 DEF Source, Spaces

\* What is served never changes then, whatever operators flip and the owner changes: the
\* rollback the documentation promises is out of reach for every such migration.
THEOREM FirstSpaceStaysTheorem ==
  ASSUME HasOld, OldType # NewType
  PROVE  Spec => FirstSpaceStays
<1>1. Init => ReadInv
  BY ReadInit
<1>2. ReadInv /\ [Next]_readVars => ReadInv'
  BY ReadStep
<1>3. ReadInv /\ [Next]_readVars => [readState # None => readState' = readState]_readVars
  <2> SUFFICES ASSUME ReadInv, [Next]_readVars, readState # None, readState' # readState
               PROVE  FALSE
    OBVIOUS
  <2>1. PICK o \in Operators : FlipCommit(o)
    BY DEF Next, Prepare, Decommission, Bindable, FlipList, FlipFails, FlipDies, AddColumn,
       DropColumn, readVars
  <2> QED BY <2>1, OtherSpaceRefused DEF FlipCommit
<1> QED BY <1>1, <1>2, <1>3, PTL DEF Spec, FirstSpaceStays
=============================================================================
