-------------------------- MODULE Algorithms_proofs --------------------------
(***************************************************************************)
(* What the run of MCAlgorithms checks on small inputs and is provable for *)
(* all of them.  A walk through the operation history shows every receipt  *)
(* that was durable when it began exactly once, newest first.  The         *)
(* directories that training leaves behind are whole when they are         *)
(* selected, and stay whole when they were published.                      *)
(***************************************************************************)
EXTENDS JournalPages, ModelStore, FiniteSetTheorems, TLAPS

-----------------------------------------------------------------------------
(* The walk through the history (JournalPages).                             *)

Unambiguous(S) == \A x, y \in S : x.id = y.id => x = y

LEMMA RowFields == \A x \in Row : x.at \in Int /\ x.id \in Int
<1> TAKE x \in Row
<1>1. x.at \in 0 .. MaxTime /\ x.id \in Id
  BY DEF Row
<1>2. x.id \in Nat
  BY <1>1, ConstantsAssumption
<1>3. x.at \in Int
  BY <1>1
<1> QED
  BY <1>2, <1>3

\* Newer is a strict total order on rows with distinct ids.
LEMMA NewerOrder ==
  ASSUME NEW S, S \subseteq Row, Unambiguous(S)
  PROVE  /\ \A x \in S : ~Newer(x, x)
         /\ \A x, y \in S : x = y \/ Newer(x, y) \/ Newer(y, x)
         /\ \A x, y, z \in S : Newer(x, y) /\ Newer(y, z) => Newer(x, z)
<1>1. \A x \in Row : x.at \in Int /\ x.id \in Int
  BY RowFields
<1> QED
  BY <1>1 DEF Newer, Unambiguous

\* Before(x, c) is the converse of Newer(c, x).
LEMMA BeforeIsOlder == ASSUME NEW x \in Row, NEW c \in Row
                       PROVE  Before(x, c) <=> Newer(c, x)
<1>1. /\ x.at \in Int /\ x.id \in Int
      /\ c.at \in Int /\ c.id \in Int
  BY RowFields
<1> QED
  BY <1>1 DEF Before, Newer

\* A page that is the last one shows all it could.
LEMMA LastPage ==
  ASSUME NEW S, S \subseteq Row, Unambiguous(S), IsFiniteSet(S),
         NEW n \in Nat, Cardinality(S) <= n
  PROVE  Newest(n, S) = S
<1> SUFFICES ASSUME NEW x \in S
             PROVE  Cardinality({y \in S : Newer(y, x)}) < n
  BY DEF Newest
<1> DEFINE T == {y \in S : Newer(y, x)}
<1>1. T \subseteq S \ {x}
  BY NewerOrder
<1>2. IsFiniteSet(S \ {x}) /\ Cardinality(S \ {x}) = Cardinality(S) - 1
  BY FS_RemoveElement
<1>3. Cardinality(T) <= Cardinality(S \ {x})
  BY <1>1, <1>2, FS_Subset
<1>4. Cardinality(S) \in Nat /\ Cardinality(T) \in Nat
  BY <1>1, <1>2, FS_Subset, FS_CardinalityType
<1> QED
  BY <1>2, <1>3, <1>4

\* Everything a page leaves out is older than everything it shows.
LEMMA PageIsNewest ==
  ASSUME NEW S, S \subseteq Row, Unambiguous(S), IsFiniteSet(S), NEW n \in Nat,
         NEW x \in S, x \notin Newest(n, S), NEW y \in Newest(n, S)
  PROVE  Newer(y, x)
<1> DEFINE Above(z) == {w \in S : Newer(w, z)}
<1>1. y \in S /\ x # y
  BY DEF Newest
<1>2. SUFFICES ASSUME Newer(x, y) PROVE FALSE
  BY <1>1, NewerOrder
<1>3. Above(x) \subseteq Above(y)
  BY <1>1, <1>2, NewerOrder
<1>4. IsFiniteSet(Above(x)) /\ IsFiniteSet(Above(y))
  BY FS_Subset
<1>5. Cardinality(Above(x)) <= Cardinality(Above(y))
  BY <1>3, <1>4, FS_Subset
<1>6. Cardinality(Above(y)) < n
  BY DEF Newest
<1>7. Cardinality(Above(x)) \in Nat /\ Cardinality(Above(y)) \in Nat
  BY <1>4, FS_CardinalityType
<1>8. Cardinality(Above(x)) < n
  BY <1>5, <1>6, <1>7
<1> QED
  BY <1>8 DEF Newest

-----------------------------------------------------------------------------

LEMMA InitIInv == Init => IInv
<1> SUFFICES ASSUME Init PROVE IInv
  OBVIOUS
<1>1. IsFiniteSet(rows)
  BY FS_EmptySet DEF Init
<1> QED
  BY <1>1, NoneAssumption DEF Init, IInv, TypeOK, OneRowPerId, WalkDescends, NothingSkipped, CursorInv

\* A new receipt, of a page request or of another one, changes nothing of a walk.
LEMMA AppendInv ==
  ASSUME IInv, NEW row \in Row, Unused(row.id), rows' = rows \union {row},
         own' = own \/ (own' = row /\ stage # "over"),
         UNCHANGED <<cursor, stage, page, seen, old>>
  PROVE  IInv'
<1>1. TypeOK'
  BY DEF IInv, TypeOK
<1>2. IsFiniteSet(rows')
  BY FS_AddElement DEF IInv
<1>3. OneRowPerId'
  BY DEF IInv, OneRowPerId, Unused
<1>4. row \notin old
  BY DEF IInv, TypeOK, Unused
<1>5. WalkDescends' /\ NothingSkipped'
  BY DEF IInv, WalkDescends, NothingSkipped
<1>6. CursorInv'
  BY <1>4 DEF IInv, CursorInv
<1> QED
  BY <1>1, <1>2, <1>3, <1>5, <1>6 DEF IInv

\* The next page: everything it may show is older than everything shown before.
LEMMA ReadInv ==
  ASSUME IInv, NEW limit \in 1 .. MaxLimit, Read(limit)
  PROVE  IInv'
<1> DEFINE shown == Newest(limit, Selected)
<1>1. limit \in Nat
  BY ConstantsAssumption
<1>2. Selected \subseteq rows /\ rows \subseteq Row /\ UNCHANGED rows
  BY DEF Selected, IInv, TypeOK, Read
<1>3. IsFiniteSet(Selected) /\ Unambiguous(Selected) /\ Unambiguous(rows)
  BY <1>2, FS_Subset DEF IInv, OneRowPerId, Unambiguous
<1>4. /\ shown \subseteq Selected
      /\ page' = shown
      /\ seen' = seen \union page
      /\ own # None /\ own' = None
      /\ old' = IF stage = "first" THEN Selected ELSE old
  BY DEF Newest, Read
<1>5. \A x \in Selected \ shown : \A y \in shown : Newer(y, x)
  BY <1>1, <1>2, <1>3, PageIsNewest
<1>6. stage = "first" \/ stage = "next"
  BY <1>4 DEF IInv, TypeOK, CursorInv
<1>7. \A x \in Selected : \A y \in page \union seen : Newer(y, x)
  <2> SUFFICES ASSUME NEW x \in Selected, NEW y \in page \union seen
               PROVE  Newer(y, x)
    OBVIOUS
  <2>1. cursor # None /\ cursor \in rows /\ y \in rows /\ x \in rows
    BY <1>2, <1>6 DEF IInv, TypeOK, CursorInv
  <2>2. Newer(cursor, x)
    BY <1>2, <2>1, BeforeIsOlder DEF Selected
  <2>3. y = cursor \/ Newer(y, cursor)
    BY <2>1 DEF IInv, CursorInv
  <2> QED
    BY <1>2, <1>3, <2>1, <2>2, <2>3, NewerOrder
<1>8. TypeOK' /\ IsFiniteSet(rows') /\ OneRowPerId'
  <2>1. cursor' \in Row \union {None} /\ stage' \in {"first", "next", "over"}
    BY <1>2, <1>4 DEF Read
  <2>2. page' \subseteq rows' /\ seen' \subseteq rows' /\ old' \subseteq rows'
    BY <1>2, <1>4 DEF IInv, TypeOK
  <2> QED
    BY <1>2, <1>4, <2>1, <2>2 DEF IInv, TypeOK, OneRowPerId
<1>9. WalkDescends'
  BY <1>4, <1>7 DEF WalkDescends
<1>10. own' \notin old'
  BY <1>2, <1>4, NoneAssumption DEF IInv, TypeOK
<1>11. CASE HasMore(limit, Selected)
  <2>1. /\ stage' = "next"
        /\ cursor' \in shown
        /\ \A x \in shown : x = cursor' \/ Newer(x, cursor')
    BY <1>11 DEF Read
  <2>2. cursor' # None
    BY <1>2, <1>4, <2>1, NoneAssumption
  <2>3. ASSUME NEW x \in old' \ (seen' \union page')
        PROVE  x \in Selected \ shown
    <3>1. CASE stage = "first"
      BY <1>4, <2>3, <3>1
    <3>2. CASE stage = "next"
      <4>1. x \in old /\ x \in rows /\ x # own /\ x \notin shown
        BY <1>4, <2>3, <3>2 DEF IInv, TypeOK, CursorInv
      <4>2. cursor # None /\ cursor \in rows /\ Newer(cursor, x)
        BY <1>4, <2>3, <3>2, <4>1 DEF IInv, TypeOK, CursorInv
      <4>3. Before(x, cursor)
        BY <1>2, <4>1, <4>2, BeforeIsOlder
      <4> QED
        BY <4>1, <4>3 DEF Selected
    <3> QED
      BY <1>6, <3>1, <3>2
  <2>4. CursorInv'
    BY <1>4, <1>5, <1>7, <1>10, <2>1, <2>2, <2>3 DEF CursorInv
  <2> QED
    BY <1>8, <1>9, <2>1, <2>4 DEF IInv, NothingSkipped
<1>12. CASE ~HasMore(limit, Selected)
  <2>1. stage' = "over" /\ cursor' = None
    BY <1>12 DEF Read
  <2>2. Cardinality(Selected) <= limit
    BY <1>1, <1>3, <1>12, FS_CardinalityType DEF HasMore
  <2>3. shown = Selected
    BY <1>1, <1>2, <1>3, <2>2, LastPage
  <2>4. ASSUME NEW x \in old' PROVE x \in seen' \union page'
    <3>1. CASE stage = "first"
      BY <1>4, <2>3, <2>4, <3>1
    <3>2. CASE stage = "next" /\ x \notin seen \union page
      <4>1. x \in old /\ x \in rows /\ x # own
        BY <1>4, <2>4, <3>2 DEF IInv, TypeOK, CursorInv
      <4>2. cursor # None /\ cursor \in rows /\ Newer(cursor, x)
        BY <3>2, <4>1 DEF IInv, TypeOK, CursorInv
      <4>3. Before(x, cursor)
        BY <1>2, <4>1, <4>2, BeforeIsOlder
      <4> QED
        BY <1>4, <2>3, <4>1, <4>3 DEF Selected
    <3> QED
      BY <1>4, <1>6, <3>1, <3>2
  <2>5. NothingSkipped' /\ CursorInv'
    BY <1>4, <1>10, <2>1, <2>4 DEF NothingSkipped, CursorInv
  <2> QED
    BY <1>8, <1>9, <2>5 DEF IInv
<1> QED
  BY <1>11, <1>12

LEMMA NextIInv == IInv /\ [Next]_vars => IInv'
<1> SUFFICES ASSUME IInv, [Next]_vars PROVE IInv'
  OBVIOUS
<1>1. ASSUME NEW row \in Row, AppendRow(row) PROVE IInv'
  BY <1>1, AppendInv DEF AppendRow
<1>2. ASSUME NEW row \in Row, Ask(row) PROVE IInv'
  BY <1>2, AppendInv DEF Ask
<1>3. ASSUME NEW limit \in 1 .. MaxLimit, Read(limit) PROVE IInv'
  BY <1>3, ReadInv
<1>4. ASSUME NEW id \in Id, RefuseCursor(id) PROVE IInv'
  BY <1>4, NoneAssumption
     DEF RefuseCursor, IInv, TypeOK, OneRowPerId, WalkDescends, NothingSkipped, CursorInv
<1>5. CASE UNCHANGED vars
  BY <1>5 DEF vars, IInv, TypeOK, OneRowPerId, WalkDescends, NothingSkipped, CursorInv
<1> QED
  BY <1>1, <1>2, <1>3, <1>4, <1>5 DEF Next

\* The inductive invariant of the walk.
THEOREM WalkInvariance == Spec => []IInv
  BY InitIInv, NextIInv, PTL DEF Spec

\* The walk's state is well typed: everything shown is a row of the table.
THEOREM WalkTypes == Spec => []TypeOK
<1>1. IInv => TypeOK
  BY DEF IInv
<1> QED
  BY <1>1, WalkInvariance, PTL

\* The pages of OperationJournal.page descend without repetition, for every limit.
THEOREM Descending == Spec => []WalkDescends
<1>1. IInv => WalkDescends
  BY DEF IInv
<1> QED
  BY <1>1, WalkInvariance, PTL

\* A walk that reached its last page has shown all that was durable when it began.
THEOREM Complete == Spec => []NothingSkipped
<1>1. IInv => NothingSkipped
  BY DEF IInv
<1> QED
  BY <1>1, WalkInvariance, PTL

-----------------------------------------------------------------------------
(* The plan by which a directory is written (ModelStore): its steps one by  *)
(* one, and what the rest of the proof needs to know of them.               *)

Kinds == {"native", "foundation", "dataset"}
Dirs == {"entry", "records", "audit", "bundle", "encoder"}
FileNames == {".incomplete", "tokenizer", "report", "weights", "manifest", "heads.json",
              "heads.sha256", "splits", "audits", "quality-report", "entry.json"}
Steps == [op : {"make", "put", "unmark", "verify"}, dir : Dirs \cup {"none"}, name : FileNames \cup {"none"}]

LEMMA Joined ==
  ASSUME NEW s \in Seq(Steps), NEW t \in Seq(Steps)
  PROVE  /\ s \o t \in Seq(Steps) /\ Len(s \o t) = Len(s) + Len(t)
         /\ \A i \in 1 .. Len(s) : (s \o t)[i] = s[i]
         /\ \A i \in 1 .. Len(t) : (s \o t)[Len(s) + i] = t[i]
OBVIOUS

LEMMA AStep == /\ \A d \in Dirs : Make(d) \in Steps /\ Unmark(d) \in Steps
               /\ \A d \in Dirs, n \in FileNames : Put(d, n) \in Steps
               /\ Verify \in Steps
BY DEF Make, Unmark, Put, Verify, Steps, FileNames

LEMMA MarkedSteps ==
  ASSUME NEW d \in Dirs, NEW s \in Seq(Steps)
  PROVE  /\ Marked(d, s) \in Seq(Steps) /\ Len(Marked(d, s)) = Len(s) + 3
         /\ Marked(d, s)[1] = Make(d) /\ Marked(d, s)[2] = Put(d, ".incomplete")
         /\ \A i \in 1 .. Len(s) : Marked(d, s)[2 + i] = s[i]
         /\ Marked(d, s)[Len(s) + 3] = Unmark(d)
<1> DEFINE h == <<Make(d), Put(d, ".incomplete")>>
<1>1. h \in Seq(Steps) /\ Len(h) = 2 /\ h[1] = Make(d) /\ h[2] = Put(d, ".incomplete")
  BY AStep DEF FileNames
<1>2. <<Unmark(d)>> \in Seq(Steps) /\ Len(<<Unmark(d)>>) = 1 /\ <<Unmark(d)>>[1] = Unmark(d)
  BY AStep
<1> HIDE DEF h
<1>3. /\ h \o s \in Seq(Steps) /\ Len(h \o s) = 2 + Len(s)
      /\ (h \o s)[1] = h[1] /\ (h \o s)[2] = h[2]
      /\ \A i \in 1 .. Len(s) : (h \o s)[2 + i] = s[i]
  <2>1. /\ h \o s \in Seq(Steps) /\ Len(h \o s) = Len(h) + Len(s)
        /\ \A i \in 1 .. Len(h) : (h \o s)[i] = h[i]
        /\ \A i \in 1 .. Len(s) : (h \o s)[Len(h) + i] = s[i]
    BY <1>1, Joined
  <2> QED
    BY <1>1, <2>1
<1>4. Marked(d, s) = (h \o s) \o <<Unmark(d)>>
  BY DEF Marked, h
<1> QED
  BY <1>1, <1>2, <1>3, <1>4, Joined

LEMMA PutsSteps ==
  ASSUME NEW d \in Dirs, NEW s \in Seq(FileNames)
  PROVE  /\ Puts(d, s) \in Seq(Steps) /\ Len(Puts(d, s)) = Len(s)
         /\ \A i \in 1 .. Len(s) : Puts(d, s)[i] = Put(d, s[i])
BY AStep DEF Puts

LEMMA EncoderSteps ==
  /\ Encoder \in Seq(Steps) /\ Len(Encoder) = 7
  /\ Encoder[1] = Make("encoder") /\ Encoder[2] = Put("encoder", ".incomplete")
  /\ Encoder[3] = Put("encoder", "tokenizer") /\ Encoder[4] = Put("encoder", "report")
  /\ Encoder[5] = Put("encoder", "weights") /\ Encoder[6] = Put("encoder", "manifest")
  /\ Encoder[7] = Unmark("encoder")
<1> DEFINE n == <<"tokenizer", "report", "weights", "manifest">>
           s == Puts("encoder", n)
<1>1. /\ n \in Seq(FileNames) /\ Len(n) = 4 /\ "encoder" \in Dirs
      /\ n[1] = "tokenizer" /\ n[2] = "report" /\ n[3] = "weights" /\ n[4] = "manifest"
  BY DEF FileNames, Dirs
<1> HIDE DEF n
<1>2. /\ s \in Seq(Steps) /\ Len(s) = 4
      /\ s[1] = Put("encoder", n[1]) /\ s[2] = Put("encoder", n[2])
      /\ s[3] = Put("encoder", n[3]) /\ s[4] = Put("encoder", n[4])
  BY <1>1, PutsSteps
<1> HIDE DEF s
<1>3. /\ Marked("encoder", s) \in Seq(Steps) /\ Len(Marked("encoder", s)) = 7
      /\ Marked("encoder", s)[1] = Make("encoder")
      /\ Marked("encoder", s)[2] = Put("encoder", ".incomplete")
      /\ Marked("encoder", s)[7] = Unmark("encoder")
      /\ \A i \in 1 .. 4 : Marked("encoder", s)[2 + i] = s[i]
  <2>1. /\ Marked("encoder", s) \in Seq(Steps) /\ Len(Marked("encoder", s)) = Len(s) + 3
        /\ Marked("encoder", s)[1] = Make("encoder")
        /\ Marked("encoder", s)[2] = Put("encoder", ".incomplete")
        /\ \A i \in 1 .. Len(s) : Marked("encoder", s)[2 + i] = s[i]
        /\ Marked("encoder", s)[Len(s) + 3] = Unmark("encoder")
    BY <1>1, <1>2, MarkedSteps
  <2> QED
    BY <1>2, <2>1
<1>4. Encoder = Marked("encoder", s)
  BY DEF Encoder, s, n
<1> QED
  BY <1>1, <1>2, <1>3, <1>4

LEMMA HeadsSteps ==
  /\ Heads \in Seq(Steps) /\ Len(Heads) = 2
  /\ Heads[1] = Put("bundle", "heads.json") /\ Heads[2] = Put("bundle", "heads.sha256")
<1> DEFINE n == <<"heads.json", "heads.sha256">>
<1>1. /\ n \in Seq(FileNames) /\ Len(n) = 2 /\ "bundle" \in Dirs
      /\ n[1] = "heads.json" /\ n[2] = "heads.sha256"
  BY DEF FileNames, Dirs
<1>2. Heads = Puts("bundle", n)
  BY DEF Heads
<1> HIDE DEF n
<1> QED
  BY <1>1, <1>2, PutsSteps

\* A bundle of heads, around its encoder if it brings one.
LEMMA BundleSteps ==
  /\ Bundle("native") \in Seq(Steps) /\ Len(Bundle("native")) = 12
  /\ Bundle("native")[1] = Make("bundle") /\ Bundle("native")[2] = Put("bundle", ".incomplete")
  /\ \A i \in 1 .. 7 : Bundle("native")[2 + i] = Encoder[i]
  /\ Bundle("native")[10] = Heads[1] /\ Bundle("native")[11] = Heads[2]
  /\ Bundle("native")[12] = Unmark("bundle")
  /\ Bundle("foundation") \in Seq(Steps) /\ Len(Bundle("foundation")) = 5
  /\ Bundle("foundation")[1] = Make("bundle")
  /\ Bundle("foundation")[2] = Put("bundle", ".incomplete")
  /\ Bundle("foundation")[3] = Heads[1] /\ Bundle("foundation")[4] = Heads[2]
  /\ Bundle("foundation")[5] = Unmark("bundle")
<1> DEFINE s == Encoder \o Heads
<1>1. /\ s \in Seq(Steps) /\ Len(s) = 9
      /\ \A i \in 1 .. 7 : s[i] = Encoder[i]
      /\ \A i \in 1 .. 2 : s[7 + i] = Heads[i]
  <2>1. /\ s \in Seq(Steps) /\ Len(s) = Len(Encoder) + Len(Heads)
        /\ \A i \in 1 .. Len(Encoder) : s[i] = Encoder[i]
        /\ \A i \in 1 .. Len(Heads) : s[Len(Encoder) + i] = Heads[i]
    <3>1. Encoder \in Seq(Steps) /\ Heads \in Seq(Steps)
      BY EncoderSteps, HeadsSteps
    <3> QED
      BY <3>1, Joined
  <2> QED
    BY <2>1, EncoderSteps, HeadsSteps
<1>2. Bundle("native") = Marked("bundle", s) /\ Bundle("foundation") = Marked("bundle", Heads)
  BY DEF Bundle
<1>3. "bundle" \in Dirs
  BY DEF Dirs
<1> HIDE DEF s
<1>4. /\ Marked("bundle", s) \in Seq(Steps) /\ Len(Marked("bundle", s)) = 12
      /\ Marked("bundle", s)[1] = Make("bundle")
      /\ Marked("bundle", s)[2] = Put("bundle", ".incomplete")
      /\ Marked("bundle", s)[12] = Unmark("bundle")
      /\ \A i \in 1 .. 9 : Marked("bundle", s)[2 + i] = s[i]
  <2>1. /\ Marked("bundle", s) \in Seq(Steps) /\ Len(Marked("bundle", s)) = Len(s) + 3
        /\ Marked("bundle", s)[1] = Make("bundle")
        /\ Marked("bundle", s)[2] = Put("bundle", ".incomplete")
        /\ \A i \in 1 .. Len(s) : Marked("bundle", s)[2 + i] = s[i]
        /\ Marked("bundle", s)[Len(s) + 3] = Unmark("bundle")
    BY <1>1, <1>3, MarkedSteps
  <2> QED
    BY <1>1, <1>3, <2>1
<1>5. /\ Marked("bundle", Heads) \in Seq(Steps) /\ Len(Marked("bundle", Heads)) = 5
      /\ Marked("bundle", Heads)[1] = Make("bundle")
      /\ Marked("bundle", Heads)[2] = Put("bundle", ".incomplete")
      /\ Marked("bundle", Heads)[5] = Unmark("bundle")
      /\ \A i \in 1 .. 2 : Marked("bundle", Heads)[2 + i] = Heads[i]
  <2>1. /\ Marked("bundle", Heads) \in Seq(Steps) /\ Len(Marked("bundle", Heads)) = Len(Heads) + 3
        /\ Marked("bundle", Heads)[1] = Make("bundle")
        /\ Marked("bundle", Heads)[2] = Put("bundle", ".incomplete")
        /\ \A i \in 1 .. Len(Heads) : Marked("bundle", Heads)[2 + i] = Heads[i]
        /\ Marked("bundle", Heads)[Len(Heads) + 3] = Unmark("bundle")
    BY <1>3, HeadsSteps, MarkedSteps
  <2> QED
    BY <1>3, HeadsSteps, <2>1
<1>6. /\ Marked("bundle", s)[10] = Heads[1] /\ Marked("bundle", s)[11] = Heads[2]
      /\ \A i \in 1 .. 7 : Marked("bundle", s)[2 + i] = Encoder[i]
  BY <1>1, <1>4
<1> QED
  BY <1>2, <1>4, <1>5, <1>6

LEMMA DatasetSteps ==
  /\ Plan("dataset") \in Seq(Steps) /\ Len(Plan("dataset")) = 10
  /\ Plan("dataset")[1] = Make("entry") /\ Plan("dataset")[2] = Put("entry", ".incomplete")
  /\ Plan("dataset")[3] = Make("records") /\ Plan("dataset")[4] = Make("audit")
  /\ Plan("dataset")[5] = Put("records", "splits") /\ Plan("dataset")[6] = Put("audit", "audits")
  /\ Plan("dataset")[7] = Put("entry", "quality-report")
  /\ Plan("dataset")[8] = Put("entry", "manifest")
  /\ Plan("dataset")[9] = Unmark("entry") /\ Plan("dataset")[10] = Verify
<1> DEFINE a == <<Make("records"), Make("audit")>>
           b == Puts("records", <<"splits">>)
           c == Puts("audit", <<"audits">>)
           d == Puts("entry", <<"quality-report", "manifest">>)
           s == a \o b \o c \o d
           m == Marked("entry", s)
           v == <<Verify>>
<1>1. a \in Seq(Steps) /\ Len(a) = 2 /\ a[1] = Make("records") /\ a[2] = Make("audit")
  BY AStep DEF Dirs
<1>2. b \in Seq(Steps) /\ Len(b) = 1 /\ b[1] = Put("records", "splits")
  <2> DEFINE n == <<"splits">>
  <2>1. n \in Seq(FileNames) /\ Len(n) = 1 /\ n[1] = "splits" /\ "records" \in Dirs
    BY DEF FileNames, Dirs
  <2> HIDE DEF n
  <2>2. Puts("records", n) \in Seq(Steps) /\ Len(Puts("records", n)) = 1
        /\ Puts("records", n)[1] = Put("records", n[1])
    BY <2>1, PutsSteps
  <2> QED
    BY <2>1, <2>2 DEF n
<1>3. c \in Seq(Steps) /\ Len(c) = 1 /\ c[1] = Put("audit", "audits")
  <2> DEFINE n == <<"audits">>
  <2>1. n \in Seq(FileNames) /\ Len(n) = 1 /\ n[1] = "audits" /\ "audit" \in Dirs
    BY DEF FileNames, Dirs
  <2> HIDE DEF n
  <2>2. Puts("audit", n) \in Seq(Steps) /\ Len(Puts("audit", n)) = 1
        /\ Puts("audit", n)[1] = Put("audit", n[1])
    BY <2>1, PutsSteps
  <2> QED
    BY <2>1, <2>2 DEF n
<1>4. /\ d \in Seq(Steps) /\ Len(d) = 2
      /\ d[1] = Put("entry", "quality-report") /\ d[2] = Put("entry", "manifest")
  <2> DEFINE n == <<"quality-report", "manifest">>
  <2>1. /\ n \in Seq(FileNames) /\ Len(n) = 2 /\ "entry" \in Dirs
        /\ n[1] = "quality-report" /\ n[2] = "manifest"
    BY DEF FileNames, Dirs
  <2> HIDE DEF n
  <2>2. /\ Puts("entry", n) \in Seq(Steps) /\ Len(Puts("entry", n)) = 2
        /\ Puts("entry", n)[1] = Put("entry", n[1]) /\ Puts("entry", n)[2] = Put("entry", n[2])
    BY <2>1, PutsSteps
  <2> QED
    BY <2>1, <2>2 DEF n
<1>5. v \in Seq(Steps) /\ Len(v) = 1 /\ v[1] = Verify
  BY AStep
<1>6. Plan("dataset") = m \o v
  BY DEF Plan
<1> HIDE DEF a, b, c, d, v
<1>7. /\ s \in Seq(Steps) /\ Len(s) = 6
      /\ s[1] = a[1] /\ s[2] = a[2] /\ s[3] = b[1] /\ s[4] = c[1] /\ s[5] = d[1] /\ s[6] = d[2]
  <2>1. /\ a \o b \in Seq(Steps) /\ Len(a \o b) = 3
        /\ (a \o b)[1] = a[1] /\ (a \o b)[2] = a[2] /\ (a \o b)[3] = b[1]
    <3>1. /\ a \o b \in Seq(Steps) /\ Len(a \o b) = Len(a) + Len(b)
          /\ \A i \in 1 .. Len(a) : (a \o b)[i] = a[i]
          /\ \A i \in 1 .. Len(b) : (a \o b)[Len(a) + i] = b[i]
      BY <1>1, <1>2, Joined
    <3> QED
      BY <1>1, <1>2, <3>1
  <2>2. /\ (a \o b) \o c \in Seq(Steps) /\ Len((a \o b) \o c) = 4
        /\ \A i \in 1 .. 3 : ((a \o b) \o c)[i] = (a \o b)[i]
        /\ ((a \o b) \o c)[4] = c[1]
    <3> DEFINE e == a \o b
    <3> HIDE DEF e
    <3>0. e \in Seq(Steps) /\ Len(e) = 3
      BY <2>1 DEF e
    <3>1. /\ e \o c \in Seq(Steps) /\ Len(e \o c) = Len(e) + Len(c)
          /\ \A i \in 1 .. Len(e) : (e \o c)[i] = e[i]
          /\ \A i \in 1 .. Len(c) : (e \o c)[Len(e) + i] = c[i]
      BY <3>0, <1>3, Joined
    <3> QED
      BY <3>0, <1>3, <3>1 DEF e
  <2>3. /\ s \in Seq(Steps) /\ Len(s) = 6
        /\ \A i \in 1 .. 4 : s[i] = ((a \o b) \o c)[i]
        /\ s[5] = d[1] /\ s[6] = d[2]
    <3> DEFINE e == (a \o b) \o c
    <3>0. e \in Seq(Steps) /\ Len(e) = 4
      BY <2>2
    <3>1. s = e \o d
      OBVIOUS
    <3> HIDE DEF e, s
    <3>2. /\ e \o d \in Seq(Steps) /\ Len(e \o d) = Len(e) + Len(d)
          /\ \A i \in 1 .. Len(e) : (e \o d)[i] = e[i]
          /\ \A i \in 1 .. Len(d) : (e \o d)[Len(e) + i] = d[i]
      BY <3>0, <1>4, Joined
    <3>3. /\ e \o d \in Seq(Steps) /\ Len(e \o d) = 6
          /\ \A i \in 1 .. 4 : (e \o d)[i] = e[i]
          /\ (e \o d)[5] = d[1] /\ (e \o d)[6] = d[2]
      BY <3>0, <1>4, <3>2
    <3> QED
      BY <3>1, <3>3 DEF e
  <2> QED
    BY <2>1, <2>2, <2>3
<1> HIDE DEF s
<1>8. /\ m \in Seq(Steps) /\ Len(m) = 9 /\ m[1] = Make("entry")
      /\ m[2] = Put("entry", ".incomplete") /\ m[9] = Unmark("entry")
      /\ \A i \in 1 .. 6 : m[2 + i] = s[i]
  <2>0. "entry" \in Dirs
    BY DEF Dirs
  <2>1. /\ Marked("entry", s) \in Seq(Steps) /\ Len(Marked("entry", s)) = Len(s) + 3
        /\ Marked("entry", s)[1] = Make("entry")
        /\ Marked("entry", s)[2] = Put("entry", ".incomplete")
        /\ \A i \in 1 .. Len(s) : Marked("entry", s)[2 + i] = s[i]
        /\ Marked("entry", s)[Len(s) + 3] = Unmark("entry")
    BY <2>0, <1>7, MarkedSteps
  <2> QED
    BY <2>0, <1>7, <2>1
<1> HIDE DEF m
<1>9. /\ m \o v \in Seq(Steps) /\ Len(m \o v) = 10
      /\ \A i \in 1 .. 9 : (m \o v)[i] = m[i]
      /\ (m \o v)[10] = v[1]
  <2>1. /\ m \o v \in Seq(Steps) /\ Len(m \o v) = Len(m) + Len(v)
        /\ \A i \in 1 .. Len(m) : (m \o v)[i] = m[i]
        /\ \A i \in 1 .. Len(v) : (m \o v)[Len(m) + i] = v[i]
    BY <1>5, <1>8, Joined
  <2> QED
    BY <1>5, <1>8, <2>1
<1>10. /\ m[3] = s[1] /\ m[4] = s[2] /\ m[5] = s[3] /\ m[6] = s[4] /\ m[7] = s[5] /\ m[8] = s[6]
  BY <1>8
<1> DEFINE p == m \o v
<1>11. p \in Seq(Steps) /\ Len(p) = 10 /\ (\A i \in 1 .. 9 : p[i] = m[i]) /\ p[10] = v[1]
  BY <1>9
<1>12. Plan("dataset") = p
  BY <1>6
<1> HIDE DEF p
<1>13. /\ p[1] = m[1] /\ p[2] = m[2] /\ p[3] = m[3] /\ p[4] = m[4] /\ p[5] = m[5]
       /\ p[6] = m[6] /\ p[7] = m[7] /\ p[8] = m[8] /\ p[9] = m[9]
  BY <1>11
<1> QED
  BY <1>1, <1>2, <1>3, <1>4, <1>5, <1>7, <1>8, <1>10, <1>11, <1>12, <1>13

\* An entry of the registry: its bundle, then the check, then its manifest.
LEMMA EntrySteps ==
  ASSUME NEW kind \in {"native", "foundation"}
  PROVE  LET b == Bundle(kind) IN
         /\ Plan(kind) \in Seq(Steps) /\ Len(Plan(kind)) = Len(b) + 5
         /\ Plan(kind)[1] = Make("entry") /\ Plan(kind)[2] = Put("entry", ".incomplete")
         /\ \A i \in 1 .. Len(b) : Plan(kind)[2 + i] = b[i]
         /\ Plan(kind)[Len(b) + 3] = Verify
         /\ Plan(kind)[Len(b) + 4] = Put("entry", "entry.json")
         /\ Plan(kind)[Len(b) + 5] = Unmark("entry")
<1> DEFINE b == Bundle(kind)
           t == <<Verify, Put("entry", "entry.json")>>
           s == b \o t
<1>1. b \in Seq(Steps) /\ Len(b) \in Nat
  BY BundleSteps
<1>2. t \in Seq(Steps) /\ Len(t) = 2 /\ t[1] = Verify /\ t[2] = Put("entry", "entry.json")
  BY AStep DEF FileNames, Dirs
<1>3. Plan(kind) = Marked("entry", s)
  BY DEF Plan
<1> HIDE DEF b, t
<1>4. /\ s \in Seq(Steps) /\ Len(s) = Len(b) + 2
      /\ \A i \in 1 .. Len(b) : s[i] = b[i]
      /\ s[Len(b) + 1] = t[1] /\ s[Len(b) + 2] = t[2]
  <2>1. /\ b \o t \in Seq(Steps) /\ Len(b \o t) = Len(b) + Len(t)
        /\ \A i \in 1 .. Len(b) : (b \o t)[i] = b[i]
        /\ \A i \in 1 .. Len(t) : (b \o t)[Len(b) + i] = t[i]
    BY <1>1, <1>2, Joined
  <2> QED
    BY <1>1, <1>2, <2>1
<1>5. "entry" \in Dirs
  BY DEF Dirs
<1> HIDE DEF s
<1>6. /\ Marked("entry", s) \in Seq(Steps) /\ Len(Marked("entry", s)) = Len(s) + 3
      /\ Marked("entry", s)[1] = Make("entry")
      /\ Marked("entry", s)[2] = Put("entry", ".incomplete")
      /\ \A i \in 1 .. Len(s) : Marked("entry", s)[2 + i] = s[i]
      /\ Marked("entry", s)[Len(s) + 3] = Unmark("entry")
  BY <1>4, <1>5, MarkedSteps
<1>7. /\ Marked("entry", s)[Len(b) + 3] = t[1] /\ Marked("entry", s)[Len(b) + 4] = t[2]
      /\ Marked("entry", s)[Len(b) + 5] = Unmark("entry")
      /\ Len(Marked("entry", s)) = Len(b) + 5
      /\ \A i \in 1 .. Len(b) : Marked("entry", s)[2 + i] = b[i]
  <2>1. /\ Marked("entry", s)[2 + (Len(b) + 1)] = s[Len(b) + 1]
        /\ Marked("entry", s)[2 + (Len(b) + 2)] = s[Len(b) + 2]
    BY <1>1, <1>4, <1>6
  <2> QED
    BY <1>1, <1>4, <1>6, <2>1
<1> QED
  BY <1>2, <1>3, <1>6, <1>7 DEF b

LEMMA FoundationSteps ==
  LET P == Plan("foundation") IN
  /\ P \in Seq(Steps) /\ Len(P) = 10
  /\ P[1] = Make("entry") /\ P[2] = Put("entry", ".incomplete")
  /\ P[3] = Make("bundle") /\ P[4] = Put("bundle", ".incomplete")
  /\ P[5] = Put("bundle", "heads.json") /\ P[6] = Put("bundle", "heads.sha256")
  /\ P[7] = Unmark("bundle") /\ P[8] = Verify
  /\ P[9] = Put("entry", "entry.json") /\ P[10] = Unmark("entry")
<1> DEFINE P == Plan("foundation")
           b == Bundle("foundation")
<1> HIDE DEF P, b
<1>1. /\ Len(b) = 5 /\ b[1] = Make("bundle") /\ b[2] = Put("bundle", ".incomplete")
      /\ b[3] = Heads[1] /\ b[4] = Heads[2] /\ b[5] = Unmark("bundle")
  BY BundleSteps DEF b
<1>2. /\ P \in Seq(Steps) /\ Len(P) = Len(b) + 5
      /\ P[1] = Make("entry") /\ P[2] = Put("entry", ".incomplete")
      /\ \A i \in 1 .. Len(b) : P[2 + i] = b[i]
      /\ P[Len(b) + 3] = Verify /\ P[Len(b) + 4] = Put("entry", "entry.json")
      /\ P[Len(b) + 5] = Unmark("entry")
  BY EntrySteps DEF P, b
<1>3. P[3] = b[1] /\ P[4] = b[2] /\ P[5] = b[3] /\ P[6] = b[4] /\ P[7] = b[5]
  BY <1>1, <1>2
<1> QED
  BY <1>1, <1>2, <1>3, HeadsSteps DEF P

LEMMA NativeSteps ==
  LET P == Plan("native") IN
  /\ P \in Seq(Steps) /\ Len(P) = 17
  /\ P[1] = Make("entry") /\ P[2] = Put("entry", ".incomplete")
  /\ P[3] = Make("bundle") /\ P[4] = Put("bundle", ".incomplete")
  /\ P[5] = Make("encoder") /\ P[6] = Put("encoder", ".incomplete")
  /\ P[7] = Put("encoder", "tokenizer") /\ P[8] = Put("encoder", "report")
  /\ P[9] = Put("encoder", "weights") /\ P[10] = Put("encoder", "manifest")
  /\ P[11] = Unmark("encoder")
  /\ P[12] = Put("bundle", "heads.json") /\ P[13] = Put("bundle", "heads.sha256")
  /\ P[14] = Unmark("bundle") /\ P[15] = Verify
  /\ P[16] = Put("entry", "entry.json") /\ P[17] = Unmark("entry")
<1> DEFINE P == Plan("native")
           b == Bundle("native")
<1> HIDE DEF P, b
<1>1. /\ Len(b) = 12 /\ b[1] = Make("bundle") /\ b[2] = Put("bundle", ".incomplete")
      /\ \A i \in 1 .. 7 : b[2 + i] = Encoder[i]
      /\ b[10] = Heads[1] /\ b[11] = Heads[2] /\ b[12] = Unmark("bundle")
  BY BundleSteps DEF b
<1>2. /\ P \in Seq(Steps) /\ Len(P) = Len(b) + 5
      /\ P[1] = Make("entry") /\ P[2] = Put("entry", ".incomplete")
      /\ \A i \in 1 .. Len(b) : P[2 + i] = b[i]
      /\ P[Len(b) + 3] = Verify /\ P[Len(b) + 4] = Put("entry", "entry.json")
      /\ P[Len(b) + 5] = Unmark("entry")
  BY EntrySteps DEF P, b
<1>3. /\ P[3] = b[1] /\ P[4] = b[2] /\ P[5] = b[3] /\ P[6] = b[4] /\ P[7] = b[5]
      /\ P[8] = b[6] /\ P[9] = b[7] /\ P[10] = b[8] /\ P[11] = b[9]
      /\ P[12] = b[10] /\ P[13] = b[11] /\ P[14] = b[12]
      /\ P[15] = Verify /\ P[16] = Put("entry", "entry.json") /\ P[17] = Unmark("entry")
  BY <1>1, <1>2
<1>4. /\ b[3] = Encoder[1] /\ b[4] = Encoder[2] /\ b[5] = Encoder[3] /\ b[6] = Encoder[4]
      /\ b[7] = Encoder[5] /\ b[8] = Encoder[6] /\ b[9] = Encoder[7]
  BY <1>1
<1> QED
  BY <1>1, <1>2, <1>3, <1>4, HeadsSteps, EncoderSteps DEF P

\* What the proof uses of a plan: the directory is made first and marked next, no file is
\* put twice, a marker is removed once and after it was put, and something else is put.
WellPlanned(P) ==
  /\ P \in Seq(Steps) /\ 2 < Len(P)
  /\ P[1] = Make("entry") /\ P[2] = Put("entry", ".incomplete")
  /\ \A i \in 1 .. Len(P) : P[i].op = "make" /\ P[i].dir = "entry" => i = 1
  /\ \A i, j \in 1 .. Len(P) :
       P[i].op = "put" /\ P[j].op = "put" /\ P[i].dir = P[j].dir /\ P[i].name = P[j].name => i = j
  /\ \A j \in 1 .. Len(P) : P[j].op = "unmark" => P[j] = Unmark(P[j].dir)
  /\ \A i \in 1 .. Len(P) : P[i].op = "put" /\ P[i].name = ".incomplete" =>
       \E j \in 1 .. Len(P) : i < j /\ P[j] = Unmark(P[i].dir)
  /\ \A i, j \in 1 .. Len(P) : P[i].op = "unmark" /\ P[j].op = "unmark" /\ P[i].dir = P[j].dir
                            => i = j
  /\ \E i \in 1 .. Len(P) : P[i].op = "put" /\ P[i].dir = "entry" /\ P[i].name # ".incomplete"

LEMMA DatasetPlanned == WellPlanned(Plan("dataset"))
<1> DEFINE P == Plan("dataset")
<1> HIDE DEF P
<1>1. P \in Seq(Steps) /\ Len(P) = 10
  BY DatasetSteps DEF P
<1>2. /\ P[1] = Make("entry") /\ P[2] = Put("entry", ".incomplete") /\ P[3] = Make("records")
      /\ P[4] = Make("audit") /\ P[5] = Put("records", "splits") /\ P[6] = Put("audit", "audits")
      /\ P[7] = Put("entry", "quality-report") /\ P[8] = Put("entry", "manifest")
      /\ P[9] = Unmark("entry") /\ P[10] = Verify
  BY DatasetSteps DEF P
<1>3. \A i \in 1 .. 10 : i \in {1, 2, 3, 4, 5, 6, 7, 8, 9, 10}
  OBVIOUS
<1>4. WellPlanned(P)
  BY <1>1, <1>2, <1>3, SMTT(60) DEF WellPlanned, Make, Put, Unmark, Verify
<1> QED
  BY <1>4 DEF P

LEMMA FoundationPlanned == WellPlanned(Plan("foundation"))
<1> DEFINE P == Plan("foundation")
<1> HIDE DEF P
<1>1. P \in Seq(Steps) /\ Len(P) = 10
  BY FoundationSteps DEF P
<1>2. /\ P[1] = Make("entry") /\ P[2] = Put("entry", ".incomplete")
      /\ P[3] = Make("bundle") /\ P[4] = Put("bundle", ".incomplete")
      /\ P[5] = Put("bundle", "heads.json") /\ P[6] = Put("bundle", "heads.sha256")
      /\ P[7] = Unmark("bundle") /\ P[8] = Verify
      /\ P[9] = Put("entry", "entry.json") /\ P[10] = Unmark("entry")
  BY FoundationSteps DEF P
<1>3. WellPlanned(P)
  BY <1>1, <1>2, SMTT(60) DEF WellPlanned, Make, Put, Unmark, Verify
<1> QED
  BY <1>3 DEF P

LEMMA NativePlanned == WellPlanned(Plan("native"))
<1> DEFINE P == Plan("native")
<1> HIDE DEF P
<1>1. P \in Seq(Steps) /\ Len(P) = 17
  BY NativeSteps DEF P
<1>2. /\ P[1] = Make("entry") /\ P[2] = Put("entry", ".incomplete")
      /\ P[3] = Make("bundle") /\ P[4] = Put("bundle", ".incomplete")
      /\ P[5] = Make("encoder") /\ P[6] = Put("encoder", ".incomplete")
      /\ P[7] = Put("encoder", "tokenizer") /\ P[8] = Put("encoder", "report")
      /\ P[9] = Put("encoder", "weights") /\ P[10] = Put("encoder", "manifest")
      /\ P[11] = Unmark("encoder")
      /\ P[12] = Put("bundle", "heads.json") /\ P[13] = Put("bundle", "heads.sha256")
      /\ P[14] = Unmark("bundle") /\ P[15] = Verify
      /\ P[16] = Put("entry", "entry.json") /\ P[17] = Unmark("entry")
  BY NativeSteps DEF P
<1>3. WellPlanned(P)
  BY <1>1, <1>2, SMTT(60) DEF WellPlanned, Make, Put, Unmark, Verify
<1> QED
  BY <1>3 DEF P

LEMMA PlanOf == \A pin \in Pins : WellPlanned(Plan(Kind[pin]))
BY StoreConstants, DatasetPlanned, FoundationPlanned, NativePlanned

-----------------------------------------------------------------------------
(* The inductive invariant of the directories.                              *)

LEMMA EntriesFinite ==
  ASSUME StoreTypes
  PROVE  IsFiniteSet(Entries) /\ Cardinality(Entries) \in Nat
<1> DEFINE f == [pin \in Entries |-> <<pin, "entry">>]
<1>1. IsFiniteSet(dirs)
  BY DEF StoreTypes
<1>2. f \in Injection(Entries, dirs)
  BY DEF Entries, Injection, IsInjective
<1> QED
  BY <1>1, <1>2, FS_Injection, FS_CardinalityType

\* A pin of which nothing changes keeps its part of the invariant.
LEMMA PinStays ==
  ASSUME NEW pin \in Pins, PinInv(pin),
         reached'[pin] = reached[pin], published'[pin] = published[pin],
         losses' = 0 => losses = 0,
         <<pin, "entry">> \in dirs' <=> <<pin, "entry">> \in dirs,
         \A f : f[1] = pin => (f \in DOMAIN files' <=> f \in DOMAIN files),
         \A f \in DOMAIN files : f[1] = pin => files'[f] = files[f]
  PROVE  PinInv(pin)'
<1>1. \A i : Kept(pin, i)' <=> Kept(pin, i)
  BY DEF Kept, Removed
<1>2. \A i : Placed(pin, i)[1] = pin
  BY DEF Placed
<1>3. FilesInv(pin)
  BY DEF PinInv
<1>4. \A i : Placed(pin, i)' = Placed(pin, i)
  BY DEF Placed
<1>5. FilesInv(pin)'
  BY <1>1, <1>2, <1>3, <1>4 DEF FilesInv
<1> QED
  BY <1>5 DEF PinInv

\* Where nothing is written, every pin does.
LEMMA NothingWritten ==
  ASSUME StoreInv, UNCHANGED <<dirs, files, reached, published, losses>>
  PROVE  /\ \A pin \in Pins : PinInv(pin)'
         /\ Readable' /\ Entries' = Entries
         /\ IsFiniteSet(dirs') /\ (\A f \in DOMAIN files' : f[1] \in Pins)
         /\ reached' \in [Pins -> Nat] /\ published' \in [Pins -> Nat] /\ losses' \in Nat
<1>1. \A pin \in Pins : PinInv(pin)'
  BY PinStays DEF StoreInv
<1>2. Entries' = Entries
  BY DEF Entries
<1> QED
  BY <1>1, <1>2 DEF StoreInv, StoreTypes, Readable

LEMMA StoreBegins == StoreInit => StoreInv
<1> SUFFICES ASSUME StoreInit
             PROVE  StoreInv
  OBVIOUS
<1>1. dirs = {} /\ DOMAIN files = {} /\ losses = 0 /\ writer = [w \in Writers |-> Idle]
  BY DEF StoreInit
<1>2. \A pin \in Pins : reached[pin] = 0 /\ published[pin] = 0
  BY DEF StoreInit
<1>3. StoreTypes
  BY <1>1, FS_EmptySet DEF StoreInit, StoreTypes
<1>4. Readable
  <2>1. Entries = {}
    BY <1>1 DEF Entries
  <2> QED
    BY <2>1, FS_EmptySet, StoreConstants DEF Readable
<1>5. \A pin \in Pins : PinInv(pin)
  <2> TAKE pin \in Pins
  <2>1. FilesInv(pin)
    BY <1>1, <1>2 DEF FilesInv
  <2>2. Len(Plan(Kind[pin])) > 2 /\ Len(Plan(Kind[pin])) \in Nat
    BY PlanOf DEF WellPlanned
  <2> QED
    BY <1>1, <1>2, <2>1, <2>2 DEF PinInv
<1>6. (\A w \in Writers : WriterInv(w)) /\ OneWriter
  BY <1>1 DEF WriterInv, OneWriter, Busy
<1> QED
  BY <1>3, <1>4, <1>5, <1>6 DEF StoreInv

\* What a writer at work knows of itself.
LEMMA Actor ==
  ASSUME StoreInv, NEW w \in Writers, writer[w] # Idle
  PROVE  /\ writer[w] \in [pin : Pins, step : Nat, open : BOOLEAN]
         /\ writer[w].pin \in Pins /\ writer[w].step \in Nat /\ writer[w].step >= 1
         /\ writer[w].step <= Len(Plan(Kind[writer[w].pin])) + 1
         /\ WellPlanned(Plan(Kind[writer[w].pin])) /\ Len(Plan(Kind[writer[w].pin])) \in Nat
         /\ PinInv(writer[w].pin) /\ WriterInv(w)
         /\ reached[writer[w].pin] \in Nat /\ published[writer[w].pin] \in Nat
<1>1. writer[w] \in [pin : Pins, step : Nat, open : BOOLEAN]
  BY DEF StoreInv, StoreTypes
<1>2. writer[w].pin \in Pins /\ writer[w].step \in Nat
  BY <1>1
<1>3. WellPlanned(Plan(Kind[writer[w].pin]))
  BY <1>2, PlanOf
<1>4. Len(Plan(Kind[writer[w].pin])) \in Nat
  BY <1>3 DEF WellPlanned
<1>5. PinInv(writer[w].pin) /\ WriterInv(w)
  BY <1>2 DEF StoreInv
<1> QED
  BY <1>1, <1>2, <1>3, <1>4, <1>5 DEF StoreInv, StoreTypes, WriterInv

\* A writer that goes on leaves the others where they are.
LEMMA Advancing ==
  ASSUME StoreInv, NEW w \in Writers, writer[w] # Idle, Advance(w),
         writer[w].step <= Len(Plan(Kind[writer[w].pin])),
         writer[w].step = 1 => reached[writer[w].pin] = 0,
         published' = published,
         Kind[writer[w].pin] = "dataset" => Entries' = Entries
  PROVE  /\ reached[writer[w].pin] = writer[w].step - 1
         /\ published[writer[w].pin] = 0
         /\ reached' = [reached EXCEPT ![writer[w].pin] = writer[w].step]
         /\ reached' \in [Pins -> Nat]
         /\ writer' \in [Writers -> [pin : Pins, step : Nat, open : BOOLEAN] \cup {Idle}]
         /\ \A v \in Writers : WriterInv(v)'
         /\ OneWriter'
<1> DEFINE a == writer[w]
           p == a.pin
           L == Len(Plan(Kind[p]))
           b == Writing(p, a.step + 1, FALSE)
<1>1. /\ p \in Pins /\ a.step \in Nat /\ a.step >= 1 /\ a.step <= L /\ L \in Nat /\ L > 2
      /\ PinInv(p) /\ WriterInv(w) /\ reached[p] \in Nat /\ published[p] \in Nat
  BY Actor DEF WellPlanned
<1>2. reached[p] = a.step - 1
  BY <1>1 DEF WriterInv
<1>3. published[p] = 0
  BY <1>1, <1>2 DEF PinInv
<1>4. reached \in [Pins -> Nat] /\ published \in [Pins -> Nat]
      /\ writer \in [Writers -> [pin : Pins, step : Nat, open : BOOLEAN] \cup {Idle}]
  BY DEF StoreInv, StoreTypes
<1>5. reached' = [reached EXCEPT ![p] = a.step]
  <2>1. reached' = [reached EXCEPT ![p] = IF reached[p] < a.step THEN a.step ELSE reached[p]]
    BY <1>1, <1>4 DEF Advance
  <2>2. (IF reached[p] < a.step THEN a.step ELSE reached[p]) = a.step
    BY <1>1, <1>2
  <2> QED
    BY <2>1, <2>2
<1>6. b \in [pin : Pins, step : Nat, open : BOOLEAN] /\ b # Idle
      /\ b.pin = p /\ b.step = a.step + 1 /\ b.open = FALSE
  <2>1. b = [pin |-> p, step |-> a.step + 1, open |-> FALSE]
    BY DEF Writing
  <2>2. [pin |-> p, step |-> a.step + 1, open |-> FALSE] \in [pin : Pins, step : Nat, open : BOOLEAN]
    BY <1>1
  <2>3. b \in [pin : Pins, step : Nat, open : BOOLEAN]
    BY <2>1, <2>2
  <2>4. b.pin = p /\ b.step = a.step + 1 /\ b.open = FALSE
    BY Zenon DEF Writing
  <2> HIDE DEF b
  <2>5. b # Idle
    BY <2>3, StoreConstants
  <2> QED
    BY <2>3, <2>4, <2>5
<1>7. writer' = [writer EXCEPT ![w] = b]
  BY <1>4 DEF Advance
<1> HIDE DEF b
<1>8. writer'[w] = b /\ \A v \in Writers : v # w => writer'[v] = writer[v]
  BY <1>4, <1>7
<1>9. reached'[p] = a.step /\ \A q \in Pins : q # p => reached'[q] = reached[q]
  BY <1>1, <1>4, <1>5
<1>10. Busy' = Busy /\ w \in Busy
  BY <1>6, <1>8 DEF Busy
<1>11. \A v \in Busy : v # w => /\ v \in Writers /\ writer[v] # Idle /\ WriterInv(v)
                               /\ writer[v].pin \in Pins /\ writer[v].step \in Nat
                               /\ writer[v].step >= 1
  <2> TAKE v \in Busy
  <2>1. v \in Writers /\ writer[v] # Idle
    BY DEF Busy
  <2> QED
    BY <2>1, Actor
<1>12. \A v \in Busy : v # w /\ writer[v].pin = p => writer[v].step = 1
  <2> SUFFICES ASSUME NEW v \in Busy, v # w, writer[v].pin = p, writer[v].step > 1
               PROVE  FALSE
    BY <1>11
  <2>1. reached[p] = writer[v].step - 1
    BY <1>11 DEF WriterInv
  <2>2. a.step > 1
    BY <1>1, <1>2, <1>11, <2>1
  <2> QED
    BY <1>10, <2>2 DEF StoreInv, OneWriter
<1>13. \A v \in Busy : v # w => "dataset" \in {Kind[writer[v].pin], Kind[p]}
  BY <1>10 DEF StoreInv, OneWriter
<1>14. \A v \in Writers : WriterInv(v)'
  <2> TAKE v \in Writers
  <2>1. CASE v = w
    BY <1>1, <1>3, <1>6, <1>8, <1>9, <2>1 DEF WriterInv
  <2>2. CASE v # w /\ writer[v] = Idle
    BY <1>8, <2>2 DEF WriterInv
  <2>3. CASE v # w /\ writer[v] # Idle
    <3>1. v \in Busy /\ writer'[v] = writer[v]
      BY <1>8, <2>3 DEF Busy
    <3>2. writer[v].step > 1 => reached'[writer[v].pin] = reached[writer[v].pin]
      BY <1>9, <1>11, <1>12, <2>3, <3>1
    <3>3. Kind[writer[v].pin] # "dataset" => Entries' = Entries
      BY <1>13, <2>3, <3>1
    <3>4. WriterInv(v)
      BY <1>11, <2>3, <3>1
    <3> QED
      BY <3>1, <3>2, <3>3, <3>4 DEF WriterInv
  <2> QED
    BY <2>1, <2>2, <2>3
<1>15. OneWriter'
  <2> SUFFICES ASSUME NEW u \in Busy, NEW v \in Busy, u # v
               PROVE  /\ writer'[u].step > 1 /\ writer'[v].step > 1
                          => writer'[u].pin # writer'[v].pin
                      /\ "dataset" \in {Kind[writer'[u].pin], Kind[writer'[v].pin]}
    BY <1>10 DEF OneWriter
  <2>0. u \in Writers /\ v \in Writers
    BY DEF Busy
  <2>1. CASE u = w
    <3>1. writer'[u] = b /\ writer'[v] = writer[v] /\ v # w
      BY <1>8, <2>0, <2>1
    <3> QED
      BY <1>6, <1>12, <1>13, <3>1
  <2>2. CASE v = w
    <3>1. writer'[v] = b /\ writer'[u] = writer[u] /\ u # w
      BY <1>8, <2>0, <2>2
    <3> QED
      BY <1>6, <1>12, <1>13, <3>1
  <2>3. CASE u # w /\ v # w
    BY <1>8, <2>0, <2>3 DEF StoreInv, OneWriter
  <2> QED
    BY <2>1, <2>2, <2>3
<1>16. /\ reached' \in [Pins -> Nat]
       /\ writer' \in [Writers -> [pin : Pins, step : Nat, open : BOOLEAN] \cup {Idle}]
  BY <1>1, <1>4, <1>5, <1>6, <1>7
<1> QED
  BY <1>2, <1>3, <1>5, <1>14, <1>15, <1>16

\* A writer that stops, fails or is done leaves the others where they are.
LEMMA Leaving ==
  ASSUME StoreInv, NEW w \in Writers, Leave(w), reached' = reached, Entries' = Entries,
         \A v \in Busy : v # w /\ writer[v].step > 1 =>
                          published'[writer[v].pin] = published[writer[v].pin]
  PROVE  /\ writer' \in [Writers -> [pin : Pins, step : Nat, open : BOOLEAN] \cup {Idle}]
         /\ \A v \in Writers : WriterInv(v)'
         /\ OneWriter'
<1>1. writer \in [Writers -> [pin : Pins, step : Nat, open : BOOLEAN] \cup {Idle}]
  BY DEF StoreInv, StoreTypes
<1>2. writer'[w] = Idle /\ \A v \in Writers : v # w => writer'[v] = writer[v]
  BY <1>1 DEF Leave
<1>3. \A v \in Writers : WriterInv(v)'
  <2> TAKE v \in Writers
  <2>1. CASE writer'[v] = Idle
    BY <2>1 DEF WriterInv
  <2>2. CASE writer'[v] # Idle
    <3>1. v # w /\ v \in Busy /\ writer'[v] = writer[v] /\ WriterInv(v)
      BY <1>2, <2>2 DEF Busy, StoreInv
    <3>2. writer[v].step > 1 => published'[writer[v].pin] = published[writer[v].pin]
      BY <3>1
    <3> QED
      BY <2>2, <3>1, <3>2 DEF WriterInv
  <2> QED
    BY <2>1, <2>2
<1>4. \A v \in Busy' : v \in Busy /\ v \in Writers /\ writer'[v] = writer[v]
  BY <1>2 DEF Busy
<1>5. OneWriter'
  BY <1>4 DEF StoreInv, OneWriter
<1> QED
  BY <1>1, <1>3, <1>5 DEF Leave

\* A step that removes no marker changes nothing about what the steps before it put.
LEMMA KeptGoesOn ==
  ASSUME NEW pin \in Pins, reached[pin] \in Nat, reached'[pin] = reached[pin] + 1,
         Plan(Kind[pin])[reached[pin] + 1].op # "unmark"
  PROVE  \A i : Kept(pin, i)' <=> Kept(pin, i)
<1> DEFINE P == Plan(Kind[pin])
           r == reached[pin]
<1>1. \A d : P[r + 1] # Unmark(d)
  BY DEF Unmark
<1>2. \A i : Removed(pin, i)' <=> Removed(pin, i)
  <2> TAKE i
  <2>1. (\E j \in 1 .. r + 1 : P[j] = Unmark(P[i].dir)) <=> (\E j \in 1 .. r : P[j] = Unmark(P[i].dir))
    <3>1. \A j \in 1 .. r + 1 : j # r + 1 => j \in 1 .. r
      OBVIOUS
    <3>2. \A j \in 1 .. r : j \in 1 .. r + 1
      OBVIOUS
    <3> HIDE DEF P, r
    <3> QED
      BY <1>1, <3>1, <3>2
  <2> QED
    BY <2>1 DEF Removed
<1> QED
  BY <1>2 DEF Kept

-----------------------------------------------------------------------------
LEMMA BeginInv ==
  ASSUME StoreInv, NEW w \in Writers, NEW pin \in Pins, Begin(w, pin)
  PROVE  StoreInv'
<1> DEFINE b == Writing(pin, 1, FALSE)
<1>1. b \in [pin : Pins, step : Nat, open : BOOLEAN] /\ b.pin = pin /\ b.step = 1 /\ b.open = FALSE
  BY DEF Writing
<1>2. writer \in [Writers -> [pin : Pins, step : Nat, open : BOOLEAN] \cup {Idle}]
      /\ writer[w] = Idle /\ writer' = [writer EXCEPT ![w] = b]
  BY DEF StoreInv, StoreTypes, Begin
<1> HIDE DEF b
<1>3. b # Idle
  BY <1>1, StoreConstants
<1>4. UNCHANGED <<dirs, files, reached, published, losses>>
  BY DEF Begin
<1>5. writer'[w] = b /\ \A v \in Writers : v # w => writer'[v] = writer[v]
  BY <1>2
<1>6. /\ \A q \in Pins : PinInv(q)'
      /\ Readable' /\ Entries' = Entries
      /\ IsFiniteSet(dirs') /\ (\A f \in DOMAIN files' : f[1] \in Pins)
      /\ reached' \in [Pins -> Nat] /\ published' \in [Pins -> Nat] /\ losses' \in Nat
  BY <1>4, NothingWritten
<1>7. writer' \in [Writers -> [pin : Pins, step : Nat, open : BOOLEAN] \cup {Idle}]
  BY <1>1, <1>2
<1>8. /\ Kind[pin] # "dataset" => Cardinality(Entries) < MaxEntries
      /\ Kind[pin] # "dataset" => \A v \in Busy : Kind[writer[v].pin] = "dataset"
  BY DEF Begin
<1>9. \A v \in Writers : WriterInv(v)'
  <2> TAKE v \in Writers
  <2>1. CASE v = w
    <3>1. Len(Plan(Kind[pin])) \in Nat
      BY PlanOf DEF WellPlanned
    <3> QED
      BY <1>1, <1>5, <1>6, <1>8, <2>1, <3>1 DEF WriterInv
  <2>2. CASE v # w
    <3>1. writer'[v] = writer[v] /\ WriterInv(v)
      BY <1>5, <2>2 DEF StoreInv
    <3> QED
      BY <1>4, <1>6, <3>1 DEF WriterInv
  <2> QED
    BY <2>1, <2>2
<1>10. Busy' = Busy \cup {w}
  BY <1>3, <1>5 DEF Busy
<1>11. w \notin Busy /\ Busy \subseteq Writers
  BY <1>2 DEF Busy
<1>12. \A u, v \in Busy' : u # v /\ u = w => /\ v \in Busy /\ writer'[u] = b /\ writer'[v] = writer[v]
  BY <1>5, <1>10, <1>11
<1>13. \A v \in Busy : "dataset" \in {Kind[writer[v].pin], Kind[pin]}
  BY <1>8
<1>14. OneWriter'
  <2> SUFFICES ASSUME NEW u \in Busy', NEW v \in Busy', u # v
               PROVE  /\ writer'[u].step > 1 /\ writer'[v].step > 1
                          => writer'[u].pin # writer'[v].pin
                      /\ "dataset" \in {Kind[writer'[u].pin], Kind[writer'[v].pin]}
    BY DEF OneWriter
  <2>1. CASE u = w
    BY <1>1, <1>12, <1>13, <2>1
  <2>2. CASE v = w
    BY <1>1, <1>12, <1>13, <2>2
  <2>3. CASE u # w /\ v # w
    <3>1. u \in Busy /\ v \in Busy /\ writer'[u] = writer[u] /\ writer'[v] = writer[v]
      BY <1>5, <1>10, <1>11, <2>3
    <3> QED
      BY <3>1 DEF StoreInv, OneWriter
  <2> QED
    BY <2>1, <2>2, <2>3
<1> QED
  BY <1>6, <1>7, <1>9, <1>14 DEF StoreInv, StoreTypes

LEMMA StopInv ==
  ASSUME StoreInv, NEW w \in Writers, Leave(w), UNCHANGED <<dirs, files, reached, published, losses>>
  PROVE  StoreInv'
<1>1. /\ \A q \in Pins : PinInv(q)'
      /\ Readable' /\ Entries' = Entries
      /\ IsFiniteSet(dirs') /\ (\A f \in DOMAIN files' : f[1] \in Pins)
      /\ reached' \in [Pins -> Nat] /\ published' \in [Pins -> Nat] /\ losses' \in Nat
  BY NothingWritten
<1>2. /\ writer' \in [Writers -> [pin : Pins, step : Nat, open : BOOLEAN] \cup {Idle}]
      /\ \A v \in Writers : WriterInv(v)'
      /\ OneWriter'
  BY <1>1, Leaving
<1> QED
  BY <1>1, <1>2 DEF StoreInv, StoreTypes

\* The step a writer is at, when it is to do op.
LEMMA AtStep ==
  ASSUME StoreInv, NEW w \in Writers, NEW op, At(w, op)
  PROVE  LET p == writer[w].pin
             k == writer[w].step
             P == Plan(Kind[p])
         IN /\ writer[w] # Idle /\ p \in Pins /\ WellPlanned(P) /\ Len(P) \in Nat
            /\ k \in Nat /\ k >= 1 /\ k <= Len(P) /\ k \in 1 .. Len(P)
            /\ P[k] \in Steps /\ P[k].op = op /\ Op(w) = P[k]
            /\ op # "make" => k > 1
            /\ PinInv(p) /\ FilesInv(p)
            /\ k > 1 => reached[p] = k - 1 /\ published[p] = 0
            /\ reached[p] \in Nat /\ reached[p] <= Len(P) /\ published[p] \in Nat
<1> DEFINE p == writer[w].pin
           k == writer[w].step
           P == Plan(Kind[p])
<1>1. writer[w] # Idle /\ k <= Len(P) /\ P[k].op = op /\ Op(w) = P[k]
  BY DEF At, Op
<1>2. /\ p \in Pins /\ k \in Nat /\ k >= 1 /\ WellPlanned(P) /\ Len(P) \in Nat
      /\ PinInv(p) /\ WriterInv(w) /\ reached[p] \in Nat /\ published[p] \in Nat
  BY <1>1, Actor
<1>3. k \in 1 .. Len(P)
  BY <1>1, <1>2
<1>4. P[k] \in Steps
  BY <1>2, <1>3 DEF WellPlanned
<1>5. op # "make" => k > 1
  <2>1. P[1].op = "make"
    BY <1>2 DEF WellPlanned, Make
  <2> QED
    BY <1>1, <1>2, <2>1
<1>6. k > 1 => reached[p] = k - 1 /\ published[p] = 0
  BY <1>1, <1>2 DEF WriterInv
<1> QED
  BY <1>1, <1>2, <1>3, <1>4, <1>5, <1>6 DEF PinInv

\* A step that touches no file.
LEMMA FilesGoOn ==
  ASSUME NEW pin \in Pins, NEW k \in Nat, k >= 1, k <= Len(Plan(Kind[pin])), FilesInv(pin),
         reached[pin] = k - 1, reached'[pin] = k,
         Plan(Kind[pin])[k].op \notin {"put", "unmark"}, UNCHANGED <<files, losses>>
  PROVE  FilesInv(pin)'
<1> DEFINE P == Plan(Kind[pin])
<1>1. \A i : Kept(pin, i)' <=> Kept(pin, i)
  <2>1. reached[pin] \in Nat /\ reached'[pin] = reached[pin] + 1
        /\ Plan(Kind[pin])[reached[pin] + 1].op # "unmark"
    OBVIOUS
  <2> QED
    BY <2>1, KeptGoesOn
<1>2. \A i : Placed(pin, i)' = Placed(pin, i)
  BY DEF Placed
<1>3. \A i \in 1 .. k : Kept(pin, i) => i \in 1 .. reached[pin]
  BY DEF Kept
<1>4. \A f \in DOMAIN files : f[1] = pin =>
        \E i \in 1 .. Len(P) : i <= k + 1 /\ Kept(pin, i) /\ f = Placed(pin, i)
  BY DEF FilesInv
<1>5. \A i \in 1 .. k : Kept(pin, i) =>
        /\ Placed(pin, i) \in DOMAIN files
        /\ losses = 0 \/ Kind[pin] = "dataset" => files[Placed(pin, i)] = "whole"
  BY <1>3 DEF FilesInv
<1> QED
  BY <1>1, <1>2, <1>4, <1>5 DEF FilesInv

LEMMA MakeDirInv ==
  ASSUME StoreInv, NEW w \in Writers, MakeDir(w)
  PROVE  StoreInv'
<1> PICK p, k : p = writer[w].pin /\ k = writer[w].step
  OBVIOUS
<1> DEFINE P == Plan(Kind[p])
           d == <<p, P[k].dir>>
<1>1. At(w, "make") /\ UNCHANGED <<files, published, losses>>
  BY DEF MakeDir
<1>2. /\ writer[w] # Idle /\ p \in Pins /\ WellPlanned(P) /\ Len(P) \in Nat
      /\ k \in Nat /\ k >= 1 /\ k <= Len(P) /\ k \in 1 .. Len(P)
      /\ P[k].op = "make" /\ Op(w) = P[k]
      /\ PinInv(p) /\ FilesInv(p) /\ reached[p] \in Nat
      /\ k > 1 => reached[p] = k - 1
  BY <1>1, AtStep
<1>3. CASE d \in dirs
  <2>1. Leave(w) /\ UNCHANGED <<dirs, reached>>
    BY <1>2, <1>3 DEF MakeDir
  <2> QED
    BY <1>1, <2>1, StopInv
<1>4. CASE d \notin dirs
  <2>1. dirs' = dirs \cup {d} /\ Advance(w)
    BY <1>2, <1>4 DEF MakeDir
  <2>2. P[k].dir = "entry" => k = 1
    BY <1>2 DEF WellPlanned
  <2>3. k = 1 => P[k].dir = "entry" /\ reached[p] = 0
    <3>1. k = 1 => P[k].dir = "entry"
      BY <1>2 DEF WellPlanned, Make
    <3> QED
      BY <1>2, <1>4, <3>1 DEF PinInv
  <2>4. /\ Kind[p] = "dataset" => Entries' = Entries
        /\ Entries' = Entries \/ (k = 1 /\ Kind[p] # "dataset" /\ Entries' = Entries \cup {p})
    BY <1>2, <2>1, <2>2 DEF Entries
  <2>5. /\ reached[p] = k - 1
        /\ published[p] = 0
        /\ reached' = [reached EXCEPT ![p] = k]
        /\ reached' \in [Pins -> Nat]
        /\ writer' \in [Writers -> [pin : Pins, step : Nat, open : BOOLEAN] \cup {Idle}]
        /\ \A v \in Writers : WriterInv(v)'
        /\ OneWriter'
    BY <1>1, <1>2, <2>1, <2>3, <2>4, Advancing
  <2>6. IsFiniteSet(dirs')
    BY <2>1, FS_AddElement DEF StoreInv, StoreTypes
  <2>7. Readable'
    <3>1. CASE Entries' = Entries
      BY <3>1 DEF StoreInv, Readable
    <3>2. CASE k = 1 /\ Kind[p] # "dataset" /\ Entries' = Entries \cup {p}
      <4>1. Cardinality(Entries) < MaxEntries
        BY <1>2, <3>2 DEF StoreInv, WriterInv
      <4>2. IsFiniteSet(Entries) /\ Cardinality(Entries) \in Nat
        BY EntriesFinite DEF StoreInv
      <4>3. Cardinality(Entries \cup {p}) <= Cardinality(Entries) + 1
        <5>1. Cardinality(Entries \cup {p})
                = IF p \in Entries THEN Cardinality(Entries) ELSE Cardinality(Entries) + 1
          BY <4>2, FS_AddElement
        <5> QED
          BY <4>2, <5>1
      <4>4. Cardinality(Entries \cup {p}) \in Nat
        BY <4>2, FS_AddElement, FS_CardinalityType
      <4> QED
        BY <3>2, <4>1, <4>2, <4>3, <4>4, StoreConstants DEF Readable
    <3> QED
      BY <2>4, <3>1, <3>2
  <2>8. reached'[p] = k /\ \A q \in Pins : q # p => reached'[q] = reached[q]
    BY <1>2, <2>5 DEF StoreInv, StoreTypes
  <2>9. \A q \in Pins : PinInv(q)'
    <3> TAKE q \in Pins
    <3>1. CASE q # p
      <4>1. PinInv(q)
        BY DEF StoreInv
      <4>2. <<q, "entry">> \in dirs' <=> <<q, "entry">> \in dirs
        BY <2>1, <3>1
      <4> QED
        BY <1>1, <2>8, <3>1, <4>1, <4>2, PinStays
    <3>2. CASE q = p
      <4>4. FilesInv(p)'
        BY <1>1, <1>2, <2>5, <2>8, FilesGoOn
      <4>5. <<p, "entry">> \in dirs'
        <5>1. k > 1 => <<p, "entry">> \in dirs
          BY <1>2 DEF PinInv
        <5> QED
          BY <1>2, <2>1, <2>3, <5>1
      <4> QED
        BY <1>1, <1>2, <2>5, <2>8, <3>2, <4>4, <4>5 DEF PinInv
    <3> QED
      BY <3>1, <3>2
  <2> QED
    BY <1>1, <2>5, <2>6, <2>7, <2>9 DEF StoreInv, StoreTypes
<1> QED
  BY <1>3, <1>4

LEMMA CheckInv ==
  ASSUME StoreInv, NEW w \in Writers, Check(w)
  PROVE  StoreInv'
<1> PICK p, k : p = writer[w].pin /\ k = writer[w].step
  OBVIOUS
<1> DEFINE P == Plan(Kind[p])
<1>1. At(w, "verify") /\ UNCHANGED <<dirs, files, published, losses>>
      /\ ((Leave(w) /\ UNCHANGED reached) \/ Advance(w))
  BY DEF Check
<1>2. CASE Leave(w) /\ UNCHANGED reached
  BY <1>1, <1>2, StopInv
<1>3. CASE Advance(w)
  <2>1. /\ writer[w] # Idle /\ p \in Pins /\ WellPlanned(P) /\ Len(P) \in Nat
        /\ k \in Nat /\ k > 1 /\ k <= Len(P) /\ P[k].op = "verify"
        /\ PinInv(p) /\ FilesInv(p) /\ reached[p] \in Nat /\ reached[p] = k - 1
    BY <1>1, AtStep
  <2>2. Entries' = Entries
    BY <1>1 DEF Entries
  <2>3. /\ published[p] = 0
        /\ reached' = [reached EXCEPT ![p] = k]
        /\ reached' \in [Pins -> Nat]
        /\ writer' \in [Writers -> [pin : Pins, step : Nat, open : BOOLEAN] \cup {Idle}]
        /\ \A v \in Writers : WriterInv(v)'
        /\ OneWriter'
    BY <1>1, <1>3, <2>1, <2>2, Advancing
  <2>4. reached'[p] = k /\ \A q \in Pins : q # p => reached'[q] = reached[q]
    BY <2>1, <2>3 DEF StoreInv, StoreTypes
  <2>5. \A q \in Pins : PinInv(q)'
    <3> TAKE q \in Pins
    <3>1. CASE q # p
      BY <1>1, <2>4, <3>1, PinStays DEF StoreInv
    <3>2. CASE q = p
      <4>4. FilesInv(p)'
        BY <1>1, <2>1, <2>4, FilesGoOn
      <4> QED
        BY <1>1, <2>1, <2>3, <2>4, <3>2, <4>4 DEF PinInv
    <3> QED
      BY <3>1, <3>2
  <2> QED
    BY <1>1, <2>2, <2>3, <2>5 DEF StoreInv, StoreTypes, Readable
<1> QED
  BY <1>1, <1>2, <1>3

\* What a writer is about to put is not a marker it removed before.
LEMMA PutIsKept ==
  ASSUME NEW pin \in Pins, NEW k \in 1 .. Len(Plan(Kind[pin])), Plan(Kind[pin])[k].op = "put",
         reached[pin] = k - 1
  PROVE  Kept(pin, k)
<1> DEFINE P == Plan(Kind[pin])
<1>1. WellPlanned(P) /\ Len(P) \in Nat
  BY PlanOf DEF WellPlanned
<1>2. \A j \in 1 .. reached[pin] : P[k].name = ".incomplete" => P[j] # Unmark(P[k].dir)
  <2> SUFFICES ASSUME NEW j \in 1 .. reached[pin], P[k].name = ".incomplete",
                      P[j] = Unmark(P[k].dir)
               PROVE  FALSE
    OBVIOUS
  <2>1. PICK i \in 1 .. Len(P) : k < i /\ P[i] = Unmark(P[k].dir)
    BY <1>1 DEF WellPlanned
  <2>2. P[i].op = "unmark" /\ P[j].op = "unmark" /\ P[i].dir = P[j].dir
    BY <2>1 DEF Unmark
  <2>3. j \in 1 .. Len(P) /\ j < k
    BY <1>1
  <2>4. i = j
    BY <1>1, <2>2, <2>3 DEF WellPlanned
  <2> QED
    BY <1>1, <2>1, <2>3, <2>4
<1> QED
  BY <1>2 DEF Kept, Removed

LEMMA OpenInv ==
  ASSUME StoreInv, NEW w \in Writers, Open(w)
  PROVE  StoreInv'
<1> PICK p, k : p = writer[w].pin /\ k = writer[w].step
  OBVIOUS
<1> DEFINE P == Plan(Kind[p])
           g == <<p, P[k].dir, P[k].name>>
<1>1. At(w, "put") /\ UNCHANGED <<dirs, reached, published, losses>>
  BY DEF Open
<1>2. /\ writer[w] # Idle /\ p \in Pins /\ WellPlanned(P) /\ Len(P) \in Nat
      /\ k \in Nat /\ k > 1 /\ k <= Len(P) /\ k \in 1 .. Len(P)
      /\ P[k].op = "put" /\ Op(w) = P[k]
      /\ PinInv(p) /\ FilesInv(p) /\ reached[p] = k - 1
  BY <1>1, AtStep
<1>3. Path(w) = g
  BY <1>2 DEF Path
<1>4. CASE g \in DOMAIN files
  BY <1>1, <1>3, <1>4, StopInv DEF Open
<1>5. CASE g \notin DOMAIN files
  <2>1. files' = With(g, "torn") /\ writer' = [writer EXCEPT ![w].open = TRUE]
    BY <1>3, <1>5 DEF Open
  <2>2. /\ DOMAIN files' = DOMAIN files \cup {g}
        /\ \A f \in DOMAIN files : files'[f] = files[f]
    BY <1>5, <2>1 DEF With
  <2>3. Kept(p, k) /\ Placed(p, k) = g
    <3>1. Kept(p, k)
      BY <1>2, PutIsKept
    <3> QED
      BY <3>1 DEF Placed
  <2>4. \A q, i : (Kept(q, i)' <=> Kept(q, i)) /\ Placed(q, i)' = Placed(q, i)
    BY <1>1 DEF Kept, Removed, Placed
  <2>5. \A q \in Pins : PinInv(q)'
    <3> TAKE q \in Pins
    <3>1. CASE q # p
      <4>1. \A f : f[1] = q => (f \in DOMAIN files' <=> f \in DOMAIN files)
        BY <2>2, <3>1
      <4> QED
        BY <1>1, <2>2, <4>1, PinStays DEF StoreInv
    <3>2. CASE q = p
      <4>1. FilesInv(p)'
        <5>1. \A f \in DOMAIN files' : f[1] = p =>
                \E i \in 1 .. Len(P) : i <= reached[p] + 1 /\ Kept(p, i) /\ f = Placed(p, i)
          <6> TAKE f \in DOMAIN files'
          <6> HAVE f[1] = p
          <6>1. CASE f = g
            <7>1. f = Placed(p, k)
              BY <2>3, <6>1
            <7>2. k \in 1 .. Len(P) /\ k <= reached[p] + 1
              BY <1>2
            <7> HIDE DEF P, g
            <7> QED
              BY <2>3, <7>1, <7>2
          <6>2. CASE f # g
            BY <1>2, <2>2, <6>2 DEF FilesInv
          <6> QED
            BY <6>1, <6>2
        <5>2. \A i \in 1 .. reached[p] : Kept(p, i) =>
                /\ Placed(p, i) \in DOMAIN files'
                /\ losses = 0 \/ Kind[p] = "dataset" => files'[Placed(p, i)] = "whole"
          BY <1>2, <2>2 DEF FilesInv
        <5> QED
          BY <1>1, <2>4, <5>1, <5>2 DEF FilesInv
      <4> QED
        BY <1>1, <1>2, <3>2, <4>1 DEF PinInv
    <3> QED
      BY <3>1, <3>2
  <2>6. writer \in [Writers -> [pin : Pins, step : Nat, open : BOOLEAN] \cup {Idle}]
    BY DEF StoreInv, StoreTypes
  <2>7. writer[w] \in [pin : Pins, step : Nat, open : BOOLEAN]
    BY <1>2, <2>6
  <2> DEFINE b == [writer[w] EXCEPT !.open = TRUE]
  <2>8. b \in [pin : Pins, step : Nat, open : BOOLEAN] /\ b.pin = p /\ b.step = k
    BY <2>7
  <2>9. writer' = [writer EXCEPT ![w] = b]
    BY <2>1, <2>6
  <2> HIDE DEF b
  <2>10. b # Idle
    BY <2>8, StoreConstants
  <2>11. writer'[w] = b /\ \A v \in Writers : v # w => writer'[v] = writer[v]
    BY <2>6, <2>9
  <2>12. Busy' = Busy
    BY <1>2, <2>10, <2>11 DEF Busy
  <2>13. Entries' = Entries
    BY <1>1 DEF Entries
  <2>14. \A v \in Writers : WriterInv(v)'
    <3> TAKE v \in Writers
    <3>0. WriterInv(v)
      BY DEF StoreInv
    <3>1. CASE v = w
      BY <1>1, <1>2, <2>8, <2>11, <2>13, <3>0, <3>1 DEF WriterInv
    <3>2. CASE v # w
      BY <1>1, <2>11, <2>13, <3>0, <3>2 DEF WriterInv
    <3> QED
      BY <3>1, <3>2
  <2>15. OneWriter'
    <3>1. \A v \in Busy : writer'[v].pin = writer[v].pin /\ writer'[v].step = writer[v].step
      BY <2>8, <2>11 DEF Busy
    <3> QED
      BY <2>12, <3>1 DEF StoreInv, OneWriter
  <2>16. writer' \in [Writers -> [pin : Pins, step : Nat, open : BOOLEAN] \cup {Idle}]
    BY <2>6, <2>8, <2>9
  <2>17. \A f \in DOMAIN files' : f[1] \in Pins
    BY <1>2, <2>2 DEF StoreInv, StoreTypes
  <2> QED
    BY <1>1, <2>5, <2>13, <2>14, <2>15, <2>16, <2>17 DEF StoreInv, StoreTypes, Readable
<1> QED
  BY <1>4, <1>5

LEMMA CloseInv ==
  ASSUME StoreInv, NEW w \in Writers, Close(w)
  PROVE  StoreInv'
<1> PICK p, k : p = writer[w].pin /\ k = writer[w].step
  OBVIOUS
<1> DEFINE P == Plan(Kind[p])
           g == <<p, P[k].dir, P[k].name>>
<1>1. At(w, "put") /\ Advance(w) /\ UNCHANGED <<dirs, published, losses>>
  BY DEF Close
<1>2. /\ writer[w] # Idle /\ p \in Pins /\ WellPlanned(P) /\ Len(P) \in Nat
      /\ k \in Nat /\ k > 1 /\ k <= Len(P) /\ k \in 1 .. Len(P)
      /\ P[k].op = "put" /\ Op(w) = P[k]
      /\ PinInv(p) /\ FilesInv(p) /\ reached[p] = k - 1
  BY <1>1, AtStep
<1>3. Path(w) = g
  BY <1>2 DEF Path
<1>0. g[1] = p
  OBVIOUS
<1>4. /\ DOMAIN files' = DOMAIN files \cup {g} /\ files'[g] = "whole"
      /\ \A f \in DOMAIN files : f # g => files'[f] = files[f]
  BY <1>3 DEF Close, With
<1>5. Entries' = Entries
  BY <1>1 DEF Entries
<1>6. /\ published[p] = 0
      /\ reached' = [reached EXCEPT ![p] = k]
      /\ reached' \in [Pins -> Nat]
      /\ writer' \in [Writers -> [pin : Pins, step : Nat, open : BOOLEAN] \cup {Idle}]
      /\ \A v \in Writers : WriterInv(v)'
      /\ OneWriter'
  BY <1>1, <1>2, <1>5, Advancing
<1>7. reached'[p] = k /\ \A q \in Pins : q # p => reached'[q] = reached[q]
  BY <1>2, <1>6 DEF StoreInv, StoreTypes
<1>8. \A q \in Pins : PinInv(q)'
  <2> TAKE q \in Pins
  <2>1. CASE q # p
    <3>1. \A f : f[1] = q => (f \in DOMAIN files' <=> f \in DOMAIN files)
      BY <1>0, <1>4, <2>1
    <3>2. \A f \in DOMAIN files : f[1] = q => files'[f] = files[f]
      BY <1>4, <2>1
    <3> QED
      BY <1>1, <1>7, <2>1, <3>1, <3>2, PinStays DEF StoreInv
  <2>2. CASE q = p
    <3>1. \A i : Kept(p, i)' <=> Kept(p, i)
      BY <1>2, <1>7, KeptGoesOn
    <3>2. \A i : Placed(p, i)' = Placed(p, i)
      BY DEF Placed
    <3>3. Placed(p, k) = g
      BY DEF Placed
    <3>4. Kept(p, k)
      BY <1>2, PutIsKept
    <3>5. FilesInv(p)'
      <4>1. \A f \in DOMAIN files' : f[1] = p =>
              \E i \in 1 .. Len(P) : i <= k + 1 /\ Kept(p, i) /\ f = Placed(p, i)
        <5> TAKE f \in DOMAIN files'
        <5> HAVE f[1] = p
        <5>1. CASE f = g
          <6>1. f = Placed(p, k)
            BY <3>3, <5>1
          <6>2. k \in 1 .. Len(P) /\ k <= k + 1
            BY <1>2
          <6> HIDE DEF P, g
          <6> QED
            BY <3>4, <6>1, <6>2
        <5>2. CASE f # g
          <6>1. f \in DOMAIN files
            BY <1>4, <5>2
          <6>2. PICK i \in 1 .. Len(P) : i <= reached[p] + 1 /\ Kept(p, i) /\ f = Placed(p, i)
            BY <1>2, <6>1 DEF FilesInv
          <6> QED
            BY <1>2, <6>2
        <5> QED
          BY <5>1, <5>2
      <4>2. \A i \in 1 .. k : Kept(p, i) =>
              /\ Placed(p, i) \in DOMAIN files'
              /\ losses = 0 \/ Kind[p] = "dataset" => files'[Placed(p, i)] = "whole"
        <5> TAKE i \in 1 .. k
        <5> HAVE Kept(p, i)
        <5>1. CASE i = k
          BY <1>4, <3>3, <5>1
        <5>2. CASE i # k
          <6>1. i \in 1 .. reached[p]
            BY <1>2, <5>2
          <6>2. /\ Placed(p, i) \in DOMAIN files
                /\ losses = 0 \/ Kind[p] = "dataset" => files[Placed(p, i)] = "whole"
            BY <1>2, <6>1 DEF FilesInv
          <6> QED
            BY <1>4, <6>2
        <5> QED
          BY <5>1, <5>2
      <4> QED
        BY <1>1, <1>7, <3>1, <3>2, <4>1, <4>2 DEF FilesInv
    <3>6. <<p, "entry">> \in dirs
      BY <1>2 DEF PinInv
    <3> QED
      BY <1>1, <1>2, <1>6, <1>7, <2>2, <3>5, <3>6 DEF PinInv
  <2> QED
    BY <2>1, <2>2
<1>9. \A f \in DOMAIN files' : f[1] \in Pins
  BY <1>0, <1>2, <1>4 DEF StoreInv, StoreTypes
<1> QED
  BY <1>1, <1>5, <1>6, <1>8, <1>9 DEF StoreInv, StoreTypes, Readable

LEMMA RemoveMarkerInv ==
  ASSUME StoreInv, NEW w \in Writers, RemoveMarker(w)
  PROVE  StoreInv'
<1> PICK p, k : p = writer[w].pin /\ k = writer[w].step
  OBVIOUS
<1> DEFINE P == Plan(Kind[p])
           g == <<p, P[k].dir, ".incomplete">>
<1>1. At(w, "unmark") /\ Advance(w) /\ UNCHANGED <<dirs, published, losses>>
  BY DEF RemoveMarker
<1>2. /\ writer[w] # Idle /\ p \in Pins /\ WellPlanned(P) /\ Len(P) \in Nat
      /\ k \in Nat /\ k > 1 /\ k <= Len(P) /\ k \in 1 .. Len(P)
      /\ P[k].op = "unmark" /\ Op(w) = P[k]
      /\ PinInv(p) /\ FilesInv(p) /\ reached[p] = k - 1
  BY <1>1, AtStep
<1>3. P[k] = Unmark(P[k].dir)
  BY <1>2 DEF WellPlanned
<1>4. Path(w) = g
  BY <1>2, <1>3 DEF Path, Unmark
<1>5. /\ DOMAIN files' = DOMAIN files \ {g}
      /\ \A f \in DOMAIN files : f # g => files'[f] = files[f]
  BY <1>4 DEF RemoveMarker
<1>6. Entries' = Entries
  BY <1>1 DEF Entries
<1>7. /\ published[p] = 0
      /\ reached' = [reached EXCEPT ![p] = k]
      /\ reached' \in [Pins -> Nat]
      /\ writer' \in [Writers -> [pin : Pins, step : Nat, open : BOOLEAN] \cup {Idle}]
      /\ \A v \in Writers : WriterInv(v)'
      /\ OneWriter'
  BY <1>1, <1>2, <1>6, Advancing
<1>8. reached'[p] = k /\ \A q \in Pins : q # p => reached'[q] = reached[q]
  BY <1>2, <1>7 DEF StoreInv, StoreTypes
<1>9. g[1] = p
  OBVIOUS
<1>10. \A q \in Pins : PinInv(q)'
  <2> TAKE q \in Pins
  <2>1. CASE q # p
    <3>1. \A f : f[1] = q => (f \in DOMAIN files' <=> f \in DOMAIN files)
      BY <1>5, <1>9, <2>1
    <3>2. \A f \in DOMAIN files : f[1] = q => files'[f] = files[f]
      BY <1>5, <1>9, <2>1
    <3> QED
      BY <1>1, <1>8, <2>1, <3>1, <3>2, PinStays DEF StoreInv
  <2>2. CASE q = p
    <3>1. \A i : Placed(p, i)' = Placed(p, i)
      BY DEF Placed
    <3>2. \A i : Kept(p, i)' <=> Kept(p, i) /\ ~(P[i].name = ".incomplete" /\ P[k] = Unmark(P[i].dir))
      <4> TAKE i
      <4>1. (\E j \in 1 .. k : P[j] = Unmark(P[i].dir))
              <=> (\E j \in 1 .. k - 1 : P[j] = Unmark(P[i].dir)) \/ P[k] = Unmark(P[i].dir)
        <5>1. \A j \in 1 .. k : j # k => j \in 1 .. k - 1
          BY <1>2
        <5>2. \A j \in 1 .. k - 1 : j \in 1 .. k
          BY <1>2
        <5>3. k \in 1 .. k
          BY <1>2
        <5> HIDE DEF P
        <5> QED
          BY <5>1, <5>2, <5>3
      <4> QED
        BY <1>2, <1>8, <4>1 DEF Kept, Removed
    <3>3. \A i \in 1 .. Len(P) : Kept(p, i) /\ Placed(p, i) # g => Kept(p, i)'
      <4> SUFFICES ASSUME NEW i \in 1 .. Len(P), P[i].name = ".incomplete", P[k] = Unmark(P[i].dir)
                   PROVE  Placed(p, i) = g
        BY <3>2
      <4>1. P[k].dir = P[i].dir
        BY DEF Unmark
      <4> QED
        BY <4>1 DEF Placed
    <3>4. \A i \in 1 .. k : Kept(p, i)' => i \in 1 .. reached[p] /\ Kept(p, i) /\ Placed(p, i) # g
      <4> TAKE i \in 1 .. k
      <4> HAVE Kept(p, i)'
      <4>1. Kept(p, i) /\ ~(P[i].name = ".incomplete" /\ P[k] = Unmark(P[i].dir))
        BY <3>2
      <4>2. i # k
        BY <1>2, <4>1 DEF Kept
      <4>3. Placed(p, i) # g
        <5> SUFFICES ASSUME Placed(p, i) = g
                     PROVE  FALSE
          OBVIOUS
        <5>1. P[i].dir = P[k].dir /\ P[i].name = ".incomplete"
          BY DEF Placed
        <5> QED
          BY <1>3, <4>1, <5>1
      <4> QED
        BY <1>2, <4>1, <4>2, <4>3
    <3>5. FilesInv(p)'
      <4>1. \A f \in DOMAIN files' : f[1] = p =>
              \E i \in 1 .. Len(P) : i <= k + 1 /\ Kept(p, i)' /\ f = Placed(p, i)
        <5> TAKE f \in DOMAIN files'
        <5> HAVE f[1] = p
        <5>1. f \in DOMAIN files /\ f # g
          BY <1>5
        <5>2. PICK i \in 1 .. Len(P) : i <= reached[p] + 1 /\ Kept(p, i) /\ f = Placed(p, i)
          BY <1>2, <5>1 DEF FilesInv
        <5>3. Kept(p, i)'
          BY <3>3, <5>1, <5>2
        <5> QED
          BY <1>2, <5>2, <5>3
      <4>2. \A i \in 1 .. k : Kept(p, i)' =>
              /\ Placed(p, i) \in DOMAIN files'
              /\ losses = 0 \/ Kind[p] = "dataset" => files'[Placed(p, i)] = "whole"
        <5> TAKE i \in 1 .. k
        <5> HAVE Kept(p, i)'
        <5>1. i \in 1 .. reached[p] /\ Kept(p, i) /\ Placed(p, i) # g
          BY <3>4
        <5>2. /\ Placed(p, i) \in DOMAIN files
              /\ losses = 0 \/ Kind[p] = "dataset" => files[Placed(p, i)] = "whole"
          BY <1>2, <5>1 DEF FilesInv
        <5> QED
          BY <1>5, <5>1, <5>2
      <4> QED
        BY <1>1, <1>8, <3>1, <4>1, <4>2 DEF FilesInv
    <3>6. <<p, "entry">> \in dirs
      BY <1>2 DEF PinInv
    <3> QED
      BY <1>1, <1>2, <1>7, <1>8, <2>2, <3>5, <3>6 DEF PinInv
  <2> QED
    BY <2>1, <2>2
<1>11. \A f \in DOMAIN files' : f[1] \in Pins
  BY <1>5 DEF StoreInv, StoreTypes
<1> QED
  BY <1>1, <1>6, <1>7, <1>10, <1>11 DEF StoreInv, StoreTypes, Readable

LEMMA ReturnInv ==
  ASSUME StoreInv, NEW w \in Writers, Return(w)
  PROVE  StoreInv'
<1> PICK p, k : p = writer[w].pin /\ k = writer[w].step
  OBVIOUS
<1> DEFINE P == Plan(Kind[p])
<1>1. /\ writer[w] # Idle /\ k = Len(P) + 1 /\ Leave(w)
      /\ UNCHANGED <<dirs, files, reached, losses>>
      /\ published' = [published EXCEPT ![p] = @ + 1]
  BY DEF Return
<1>2. /\ p \in Pins /\ k \in Nat /\ WellPlanned(P) /\ Len(P) \in Nat
      /\ PinInv(p) /\ WriterInv(w) /\ reached[p] \in Nat
  BY <1>1, Actor
<1>3. k > 1 /\ reached[p] = k - 1 /\ published[p] = 0
  BY <1>1, <1>2 DEF WriterInv, WellPlanned
<1>4. published' \in [Pins -> Nat] /\ published'[p] = 1
      /\ \A q \in Pins : q # p => published'[q] = published[q]
  BY <1>1, <1>2, <1>3 DEF StoreInv, StoreTypes
<1>5. Entries' = Entries
  BY <1>1 DEF Entries
<1>6. \A v \in Busy : v # w /\ writer[v].step > 1 =>
                     published'[writer[v].pin] = published[writer[v].pin]
  <2> TAKE v \in Busy
  <2> HAVE v # w /\ writer[v].step > 1
  <2>1. w \in Busy /\ v \in Writers /\ writer[v] # Idle
    BY <1>1 DEF Busy
  <2>2. writer[v].pin # p
    BY <1>3, <2>1 DEF StoreInv, OneWriter
  <2>3. writer[v].pin \in Pins
    BY <2>1, Actor
  <2> QED
    BY <1>4, <2>2, <2>3
<1>7. /\ writer' \in [Writers -> [pin : Pins, step : Nat, open : BOOLEAN] \cup {Idle}]
      /\ \A v \in Writers : WriterInv(v)'
      /\ OneWriter'
  BY <1>1, <1>5, <1>6, Leaving
<1>8. \A q \in Pins : PinInv(q)'
  <2> TAKE q \in Pins
  <2>1. CASE q # p
    BY <1>1, <1>4, <2>1, PinStays DEF StoreInv
  <2>2. CASE q = p
    <3>1. FilesInv(p)'
      <4>1. \A i : (Kept(p, i)' <=> Kept(p, i)) /\ Placed(p, i)' = Placed(p, i)
        BY <1>1 DEF Kept, Removed, Placed
      <4>2. FilesInv(p)
        BY <1>2 DEF PinInv
      <4> QED
        BY <1>1, <4>1, <4>2 DEF FilesInv
    <3> QED
      BY <1>1, <1>2, <1>3, <1>4, <2>2, <3>1 DEF PinInv
  <2> QED
    BY <2>1, <2>2
<1> QED
  BY <1>1, <1>4, <1>5, <1>7, <1>8 DEF StoreInv, StoreTypes, Readable

LEMMA LosePowerInv ==
  ASSUME StoreInv, NEW g \in DOMAIN files, LosePower(g)
  PROVE  StoreInv'
<1>1. /\ Kind[g[1]] # "dataset" /\ losses' = losses + 1
      /\ UNCHANGED <<dirs, reached, published>>
      /\ writer' = [w \in Writers |-> Idle]
  BY DEF LosePower
<1>2. DOMAIN files' = DOMAIN files /\ \A f \in DOMAIN files : f # g => files'[f] = files[f]
  BY DEF LosePower, With
<1>3. losses \in Nat /\ losses' \in Nat /\ losses' # 0
  BY <1>1 DEF StoreInv, StoreTypes
<1>4. \A q, i : (Kept(q, i)' <=> Kept(q, i)) /\ Placed(q, i)' = Placed(q, i)
  BY <1>1 DEF Kept, Removed, Placed
<1>5. \A q, i : Placed(q, i)[1] = q
  BY DEF Placed
<1>6. \A q \in Pins : PinInv(q)'
  <2> TAKE q \in Pins
  <2>0. PinInv(q) /\ FilesInv(q)
    BY DEF StoreInv, PinInv
  <2>1. \A f \in DOMAIN files : f[1] = q /\ Kind[q] = "dataset" => files'[f] = files[f]
    BY <1>1, <1>2
  <2>2. FilesInv(q)'
    <3>1. \A f \in DOMAIN files : f[1] = q =>
            \E i \in 1 .. Len(Plan(Kind[q])) : i <= reached[q] + 1 /\ Kept(q, i) /\ f = Placed(q, i)
      BY <2>0 DEF FilesInv
    <3>2. \A i \in 1 .. reached[q] : Kept(q, i) =>
            /\ Placed(q, i) \in DOMAIN files
            /\ losses' = 0 \/ Kind[q] = "dataset" => files'[Placed(q, i)] = "whole"
      BY <1>3, <1>5, <2>0, <2>1 DEF FilesInv
    <3> QED
      BY <1>1, <1>2, <1>4, <3>1, <3>2 DEF FilesInv
  <2> QED
    BY <1>1, <2>0, <2>2 DEF PinInv
<1>7. Entries' = Entries
  BY <1>1 DEF Entries
<1>8. (\A w \in Writers : WriterInv(w)') /\ OneWriter'
  BY <1>1 DEF WriterInv, OneWriter, Busy
<1> QED
  BY <1>1, <1>2, <1>3, <1>6, <1>7, <1>8 DEF StoreInv, StoreTypes, Readable

LEMMA StoreStep == StoreInv /\ [StoreNext]_storeVars => StoreInv'
<1> SUFFICES ASSUME StoreInv, [StoreNext]_storeVars
             PROVE  StoreInv'
  OBVIOUS
<1>1. CASE \E w \in Writers, pin \in Pins : Begin(w, pin)
  BY <1>1, BeginInv
<1>2. CASE \E w \in Writers : MakeDir(w)
  BY <1>2, MakeDirInv
<1>3. CASE \E w \in Writers : Open(w)
  BY <1>3, OpenInv
<1>4. CASE \E w \in Writers : Close(w)
  BY <1>4, CloseInv
<1>5. CASE \E w \in Writers : RemoveMarker(w)
  BY <1>5, RemoveMarkerInv
<1>6. CASE \E w \in Writers : Check(w)
  BY <1>6, CheckInv
<1>7. CASE \E w \in Writers : Return(w)
  BY <1>7, ReturnInv
<1>8. CASE \E w \in Writers : Stop(w)
  BY <1>8, StopInv DEF Stop
<1>9. CASE \E f \in DOMAIN files : LosePower(f)
  BY <1>9, LosePowerInv
<1>10. CASE UNCHANGED storeVars
  BY <1>10 DEF storeVars, StoreInv, StoreTypes, Readable, Entries, PinInv, FilesInv, Kept, Removed,
               Placed, WriterInv, OneWriter, Busy
<1> QED
  BY <1>1, <1>2, <1>3, <1>4, <1>5, <1>6, <1>7, <1>8, <1>9, <1>10 DEF StoreNext

\* The directories that training leaves behind keep their invariant whichever writers begin,
\* fail, stop or return and whatever a power failure tears.
THEOREM StoreInvariance == StoreSpec => []StoreInv
<1> QED
  BY StoreBegins, StoreStep, PTL DEF StoreSpec

-----------------------------------------------------------------------------
(* What follows for the readers.                                            *)

LEMMA LastChangeOf ==
  ASSUME NEW pin \in Pins
  PROVE  /\ LastChange(Kind[pin]) \in 1 .. Len(Plan(Kind[pin]))
         /\ \A j \in 1 .. Len(Plan(Kind[pin])) :
              Plan(Kind[pin])[j] = Unmark("entry") => j = LastChange(Kind[pin])
<1> DEFINE P == Plan(Kind[pin])
<1>1. WellPlanned(P) /\ Len(P) \in Nat /\ DOMAIN P = 1 .. Len(P) /\ Len(P) > 2
  BY PlanOf DEF WellPlanned
<1>2. P[2].op = "put" /\ P[2].name = ".incomplete" /\ P[2].dir = "entry" /\ 2 \in 1 .. Len(P)
  BY <1>1 DEF WellPlanned, Put
<1>3. \E j \in 1 .. Len(P) : P[j] = Unmark("entry")
  BY <1>1, <1>2 DEF WellPlanned
<1>4. LastChange(Kind[pin]) \in DOMAIN P /\ P[LastChange(Kind[pin])] = Unmark("entry")
  BY <1>1, <1>3 DEF LastChange
<1>5. \A i, j \in 1 .. Len(P) : P[i] = Unmark("entry") /\ P[j] = Unmark("entry") => i = j
  BY <1>1 DEF WellPlanned, Unmark
<1> QED
  BY <1>1, <1>4, <1>5

LEMMA FinishedIsSound ==
  ASSUME StoreInv, NEW pin \in Pins, NEW d, reached[pin] = Len(Plan(Kind[pin])),
         losses = 0 \/ Kind[pin] = "dataset"
  PROVE  Sound(pin, d)
<1> DEFINE P == Plan(Kind[pin])
           L == Len(P)
<1>1. WellPlanned(P) /\ L \in Nat /\ P \in Seq(Steps) /\ DOMAIN P = 1 .. L
  BY PlanOf DEF WellPlanned
<1>2. FilesInv(pin)
  BY DEF StoreInv, PinInv
<1>3. \A i \in 1 .. L : P[i].op = "put" => (Kept(pin, i) <=> P[i].name # ".incomplete")
  <2> TAKE i \in 1 .. L
  <2> HAVE P[i].op = "put"
  <2>1. P[i].name = ".incomplete" => \E j \in 1 .. L : P[j] = Unmark(P[i].dir)
    BY <1>1 DEF WellPlanned
  <2> QED
    BY <2>1 DEF Kept, Removed
<1>4. \A f \in DOMAIN files : f[1] = pin =>
        \E i \in 1 .. L : P[i].op = "put" /\ P[i].name # ".incomplete" /\ f = <<pin, P[i].dir, P[i].name>>
  <2> TAKE f \in DOMAIN files
  <2> HAVE f[1] = pin
  <2>1. PICK i \in 1 .. L : Kept(pin, i) /\ f = Placed(pin, i)
    BY <1>2 DEF FilesInv
  <2> QED
    BY <1>3, <2>1 DEF Kept, Placed
<1>5. \A i \in 1 .. L : P[i].op = "put" /\ P[i].name # ".incomplete" =>
        /\ <<pin, P[i].dir, P[i].name>> \in DOMAIN files
        /\ files[<<pin, P[i].dir, P[i].name>>] = "whole"
  BY <1>2, <1>3 DEF FilesInv, Placed
<1>6. ToSet(P) = {P[i] : i \in 1 .. L}
  BY <1>1 DEF ToSet
<1>7. \A n : n \in Expected(Kind[pin], d) <=>
             \E i \in 1 .. L : P[i].op = "put" /\ P[i].dir = d /\ P[i].name = n /\ n # ".incomplete"
  BY <1>6 DEF Expected
<1>8. \A n : n \in Names(pin, d) <=> \E f \in DOMAIN files : f[1] = pin /\ f[2] = d /\ f[3] = n
  BY DEF Names
<1>9. \A n \in Names(pin, d) : n \in Expected(Kind[pin], d) /\ files[<<pin, d, n>>] = "whole"
  <2> TAKE n \in Names(pin, d)
  <2>1. PICK f \in DOMAIN files : f[1] = pin /\ f[2] = d /\ f[3] = n
    BY <1>8
  <2>2. PICK i \in 1 .. L : P[i].op = "put" /\ P[i].name # ".incomplete"
                           /\ f = <<pin, P[i].dir, P[i].name>>
    BY <1>4, <2>1
  <2>3. P[i].dir = d /\ P[i].name = n
    BY <2>1, <2>2
  <2> QED
    BY <1>5, <1>7, <2>2, <2>3
<1>10. \A n \in Expected(Kind[pin], d) : n \in Names(pin, d)
  <2> TAKE n \in Expected(Kind[pin], d)
  <2>1. PICK i \in 1 .. L : P[i].op = "put" /\ P[i].dir = d /\ P[i].name = n /\ n # ".incomplete"
    BY <1>7
  <2>2. <<pin, d, n>> \in DOMAIN files
    BY <1>5, <2>1
  <2> QED
    BY <1>8, <2>2
<1>11. Names(pin, d) = Expected(Kind[pin], d)
  BY <1>9, <1>10
<1> QED
  BY <1>9, <1>11 DEF Sound

\* A directory that is accepted is one whose marker was removed.
LEMMA SoundIsFinished ==
  ASSUME StoreInv, NEW pin \in Pins, Sound(pin, "entry")
  PROVE  reached[pin] >= LastChange(Kind[pin])
<1> DEFINE P == Plan(Kind[pin])
           L == Len(P)
<1>1. WellPlanned(P) /\ L \in Nat /\ L > 2 /\ P \in Seq(Steps) /\ DOMAIN P = 1 .. L
  BY PlanOf DEF WellPlanned
<1>2. FilesInv(pin) /\ reached[pin] \in Nat /\ reached[pin] <= L
  BY DEF StoreInv, StoreTypes, PinInv
<1>3. PICK m \in 1 .. L : P[m].op = "put" /\ P[m].dir = "entry" /\ P[m].name # ".incomplete"
  BY <1>1 DEF WellPlanned
<1>4. P[m].name \in Expected(Kind[pin], "entry")
  BY <1>1, <1>3 DEF Expected, ToSet
<1>5. P[m].name \in Names(pin, "entry")
  BY <1>4 DEF Sound
<1>6. PICK f \in DOMAIN files : f[1] = pin /\ f[2] = "entry" /\ f[3] = P[m].name
  BY <1>5 DEF Names
<1>7. PICK i \in 1 .. L : i <= reached[pin] + 1 /\ Kept(pin, i) /\ f = Placed(pin, i)
  BY <1>2, <1>6 DEF FilesInv
<1>8. P[i].op = "put" /\ P[i].name # ".incomplete"
  BY <1>3, <1>6, <1>7 DEF Kept, Placed
<1>9. P[1].op = "make" /\ P[2].op = "put" /\ P[2].dir = "entry" /\ P[2].name = ".incomplete"
  BY <1>1 DEF WellPlanned, Make, Put
<1>10. i # 1 /\ i # 2
  BY <1>8, <1>9
<1>11. 2 \in 1 .. reached[pin]
  BY <1>2, <1>7, <1>10
<1>12. ~Kept(pin, 2)
  <2> SUFFICES ASSUME Kept(pin, 2)
               PROVE  FALSE
    OBVIOUS
  <2>1. Placed(pin, 2) = <<pin, "entry", ".incomplete">>
    BY <1>9 DEF Placed
  <2>2. <<pin, "entry", ".incomplete">> \in DOMAIN files
    BY <1>2, <1>11, <2>1 DEF FilesInv
  <2>3. ".incomplete" \in Names(pin, "entry")
    BY <2>2 DEF Names
  <2>4. ".incomplete" \notin Expected(Kind[pin], "entry")
    BY DEF Expected
  <2> QED
    BY <2>3, <2>4 DEF Sound
<1>13. PICK j \in 1 .. reached[pin] : P[j] = Unmark("entry")
  BY <1>9, <1>12 DEF Kept, Removed
<1>14. j \in 1 .. L
  BY <1>1, <1>2
<1>15. j = LastChange(Kind[pin])
  BY <1>13, <1>14, LastChangeOf
<1> QED
  BY <1>2, <1>13, <1>15

\* What a writer answered to be complete stays selectable, and only what was written to its
\* end is ever selected: training's promise to whoever loads a model or a dataset.
THEOREM Published == StoreSpec => []PublishedIsWhole
<1>1. StoreInv => PublishedIsWhole
  <2> SUFFICES ASSUME StoreInv, NEW pin \in Pins
               PROVE  /\ published[pin] > 0 /\ (losses = 0 \/ Kind[pin] = "dataset") => Selectable(pin)
                      /\ Selectable(pin) => reached[pin] >= LastChange(Kind[pin])
                      /\ published[pin] <= 1
    BY DEF PublishedIsWhole
  <2>1. PinInv(pin) /\ Readable /\ Kind[pin] \in Kinds
    BY StoreConstants DEF StoreInv, Kinds
  <2>2. ASSUME published[pin] > 0, losses = 0 \/ Kind[pin] = "dataset"
        PROVE  Selectable(pin)
    <3>1. reached[pin] = Len(Plan(Kind[pin]))
      BY <2>1, <2>2 DEF PinInv
    <3>2. \A d : Sound(pin, d)
      BY <2>2, <3>1, FinishedIsSound
    <3> QED
      BY <2>1, <3>2 DEF Selectable, Verifiable, Kinds
  <2>3. ASSUME Selectable(pin)
        PROVE  reached[pin] >= LastChange(Kind[pin])
    <3>1. Sound(pin, "entry")
      BY <2>3 DEF Selectable, Verifiable
    <3> QED
      BY <3>1, SoundIsFinished
  <2> QED
    BY <2>1, <2>2, <2>3 DEF PinInv
<1> QED
  BY <1>1, StoreInvariance, PTL

=============================================================================
