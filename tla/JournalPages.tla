---------------------------- MODULE JournalPages ----------------------------
(***************************************************************************)
(* An administrator walks the operation history page by page while other   *)
(* requests are journaled: OperationJournal.page (backend/app/audit/       *)
(* journal.py) under list_operation_audit (api/operation_audit.py).        *)
(*                                                                         *)
(* Receipts are stamped before they are committed, by several processes,   *)
(* with a clock that is not monotonic: they appear in the table in any     *)
(* order of their timestamps.  Every page request has a receipt of its     *)
(* own, committed before the page is read and excluded from it.            *)
(***************************************************************************)
EXTENDS Integers, FiniteSets

CONSTANTS
  Id,       \* operation ids; their order is the order of the table's text keys
  MaxTime,  \* bound on the timestamps
  MaxLimit, \* the largest page the API allows
  None

ASSUME ConstantsAssumption ==
  /\ Id \subseteq Nat
  /\ MaxTime \in Nat
  /\ MaxLimit \in Nat \ {0}

Row == [at: 0 .. MaxTime, id: Id]

ASSUME NoneAssumption == None \notin Row

VARIABLES
  rows,   \* the table operation_receipts
  own,    \* the receipt of the page request that is being served, or None
  cursor, \* next_before of the last page, or None
  stage,  \* of the walk: "first", "next" or "over"
  page,   \* the records of the last page
  seen,   \* the records of the pages before it
  old     \* the rows the table held when the walk began

vars == <<rows, own, cursor, stage, page, seen, old>>

Init ==
  /\ rows = {}
  /\ own = None
  /\ cursor = None
  /\ stage = "first"
  /\ page = {}
  /\ seen = {}
  /\ old = {}

-----------------------------------------------------------------------------

\* ORDER BY created_at DESC, id DESC.
Newer(x, y) == x.at > y.at \/ (x.at = y.at /\ x.id > y.id)

StrictlyEarlier(x, c) == x.at < c.at

\* The WHERE clause of a page after cursor c.
Before(x, c) == x.at < c.at \/ (x.at = c.at /\ x.id < c.id)

\* The rows a page may show: not the request's own, and older than the cursor.
Selected ==
  {x \in rows \ {own} : cursor = None \/ Before(x, cursor)}

\* The first n rows in that order.
Newest(n, set) == {x \in set : Cardinality({y \in set : Newer(y, x)}) < n}

\* len(rows) > limit, one row more than the page having been asked for.
HasMore(n, set) == Cardinality(set) > n

Unused(id) == \A x \in rows : x.id # id

\* Any request's receipt becomes durable.
AppendRow(row) ==
  /\ Unused(row.id)
  /\ rows' = rows \union {row}
  /\ UNCHANGED <<own, cursor, stage, page, seen, old>>

\* The administrator asks for the next page: the request's receipt is committed.
Ask(row) ==
  /\ stage # "over"
  /\ own = None
  /\ Unused(row.id)
  /\ rows' = rows \union {row}
  /\ own' = row
  /\ UNCHANGED <<cursor, stage, page, seen, old>>

\* The page is read in one query and answered.
Read(limit) ==
  LET found == Selected
      shown == Newest(limit, found)
  IN
  /\ own # None
  /\ own' = None
  /\ old' = IF stage = "first" THEN found ELSE old
  /\ seen' = seen \union page
  /\ page' = shown
  /\ \/ /\ HasMore(limit, found)
        /\ stage' = "next"
        /\ cursor' \in {c \in shown : \A x \in shown : x = c \/ Newer(x, c)}
     \/ /\ ~HasMore(limit, found)
        /\ stage' = "over"
        /\ cursor' = None
  /\ UNCHANGED rows

\* A cursor that names no receipt is refused with 400.
RefuseCursor(id) ==
  /\ own # None
  /\ Unused(id)
  /\ own' = None
  /\ UNCHANGED <<rows, cursor, stage, page, seen, old>>

Next ==
  \/ \E row \in Row : AppendRow(row) \/ Ask(row)
  \/ \E limit \in 1 .. MaxLimit : Read(limit)
  \/ \E id \in Id : RefuseCursor(id)

Spec == Init /\ [][Next]_vars

-----------------------------------------------------------------------------
(* Properties *)

TypeOK ==
  /\ rows \subseteq Row
  /\ own \in Row \union {None}
  /\ cursor \in Row \union {None}
  /\ stage \in {"first", "next", "over"}
  /\ page \subseteq rows
  /\ seen \subseteq rows
  /\ old \subseteq rows

\* No record is shown twice, and every page continues strictly below the pages before
\* it, also among receipts with equal timestamps and with new receipts in between.
WalkDescends == \A x \in page, y \in seen : Newer(y, x)

\* A complete walk has shown every receipt that was durable when it began, whatever
\* was added meanwhile and wherever pages were cut.
NothingSkipped == stage = "over" => old \subseteq seen \union page

\* The primary key: no two receipts have one id.
OneRowPerId == \A x, y \in rows : x.id = y.id => x = y

\* What makes both inductive: the cursor is the oldest record shown, a record of the
\* beginning that was not shown yet is older, and it is never the request's own.
CursorInv ==
  /\ stage = "first" => page = {} /\ seen = {} /\ old = {}
  /\ stage = "over" => own = None
  /\ stage = "next" <=> cursor # None
  /\ own \notin old
  /\ cursor # None =>
       /\ cursor \in page
       /\ \A x \in page \union seen : x = cursor \/ Newer(x, cursor)
       /\ \A x \in old \ (seen \union page) : Newer(cursor, x)

IInv ==
  /\ TypeOK
  /\ IsFiniteSet(rows)
  /\ OneRowPerId
  /\ WalkDescends
  /\ NothingSkipped
  /\ CursorInv

=============================================================================
