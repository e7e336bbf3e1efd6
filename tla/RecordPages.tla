---------------------------- MODULE RecordPages ------------------------------
(***************************************************************************)
(* A list read page by page while its rows change.  All lists of the       *)
(* administration work alike: the request records of usage/reader.go, and  *)
(* the resources of internal/control with control/cursor.go.  A row's      *)
(* place is its time, then its rowid; the cursor is the place of the last  *)
(* row of a page.  A record is stored when its request has ended, under    *)
(* the time it started, so rows also appear among those already listed.    *)
(***************************************************************************)
EXTENDS Integers, FiniteSets, Sequences, SequencesExt

CONSTANTS DefaultLimit, MaxLimit,   \* 50 and 200 rows
          LastTime, MaxRows         \* bounds on times and on rows

ASSUME RecordPagesAssumption ==
  {DefaultLimit, MaxLimit, LastTime, MaxRows} \subseteq Nat \ {0}

VARIABLES
  table,    \* the places of the rows that are stored
  cursor,   \* the cursor the reader will send; its listing has ended at End
  listed,   \* the rows it was sent, in order
  kept      \* history: the rows stored ever since the listing began

recordPagesVars == <<table, cursor, listed, kept>>

Places == (1..LastTime) \X (1..MaxRows)

Start == <<LastTime + 1, MaxRows + 1>>   \* the largest integers, in the code
End == <<0, 0>>

RecordPagesInit == table = {} /\ cursor = End /\ listed = <<>> /\ kept = {}

\* Mutant of Before: the comparison of the rowid is forgotten.
BeforeByTime(p, q) == p[1] < q[1]

\* started_at_ms < ? OR (started_at_ms = ? AND id < ?)
Before(p, q) == p[1] < q[1] \/ (p[1] = q[1] /\ p[2] < q[2])

\* ORDER BY started_at_ms DESC, id DESC
Ordered(rows) ==
  CHOOSE s \in [1..Cardinality(rows) -> rows] :
    \A i, j \in DOMAIN s :
      i < j => s[i][1] > s[j][1] \/ (s[i][1] = s[j][1] /\ s[i][2] > s[j][2])

normalizeLimit(limit) ==
  IF limit <= 0 THEN DefaultLimit ELSE IF limit > MaxLimit THEN MaxLimit ELSE limit

Begin ==
  /\ cursor = End
  /\ cursor' = Start /\ listed' = <<>> /\ kept' = table
  /\ UNCHANGED table

\* One row more than the page tells that another page follows.
ListPage(limit) ==
  LET rows == Ordered({p \in table : Before(p, cursor)})
      page == SubSeq(rows, 1, IF Len(rows) > limit THEN limit ELSE Len(rows))
  IN /\ cursor # End
     /\ listed' = listed \o page
     /\ cursor' = IF Len(rows) > limit THEN page[limit] ELSE End
     /\ UNCHANGED <<table, kept>>

\* SQLite gives a new row the rowid after the largest that is there.
Store ==
  /\ \E t \in 1..LastTime, id \in 1..MaxRows :
       /\ \A p \in table : p[2] < id
       /\ id = 1 \/ \E p \in table : p[2] = id - 1
       /\ table' = table \cup {<<t, id>>}
  /\ UNCHANGED <<cursor, listed, kept>>

Delete ==
  /\ \E p \in table : table' = table \ {p} /\ kept' = kept \ {p}
  /\ UNCHANGED <<cursor, listed>>

RecordPagesNext ==
  \/ Begin
  \/ \E limit \in 0..(MaxLimit + 1) : ListPage(normalizeLimit(limit))
  \/ Store
  \/ Delete

RecordPagesSpec == RecordPagesInit /\ [][RecordPagesNext]_recordPagesVars

-----------------------------------------------------------------------------
RecordPagesTypeOK ==
  /\ table \subseteq Places /\ kept \subseteq table
  /\ cursor \in Places \cup {Start, End}
  /\ listed \in Seq(Places)

(***************************************************************************)
(* While rows come and go, also at the place where a page ended and with   *)
(* equal times, no row is listed twice, and a listing that has ended holds *)
(* every row that was there from its beginning to its end                  *)
(* (usage/reader.go:70).                                                   *)
(***************************************************************************)
PagesAreComplete ==
  /\ IsInjective(listed)
  /\ cursor = End => kept \subseteq ToSet(listed)
=============================================================================
