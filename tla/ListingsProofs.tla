--------------------------- MODULE ListingsProofs ---------------------------
(***************************************************************************)
(* Proofs about the listing of habits (Listings): for any number of rows,  *)
(* any size of batches and pages and any interleaving of other requests,   *)
(* what the loop over batches may skip or read twice, and that a page      *)
(* nobody writes to meanwhile is exact.                                    *)
(*                                                                         *)
(* The argument is one of offsets: the offset of a row is the number of    *)
(* rows in front of it, so a sorted list is the list of its rows by        *)
(* offset, and what other requests do to a row is what they do to the set  *)
(* of rows in front of it.                                                 *)
(***************************************************************************)
EXTENDS Listings, FiniteSetTheorems, FunctionTheorems, TLAPS

-----------------------------------------------------------------------------
(* Sorting by offset.                                                       *)

Below(S, order, h) == {g \in S : <<g, h>> \in order}

StrictOrder(S, order) ==
  /\ \A g \in S : <<g, g>> \notin order
  /\ \A f, g, h \in S : <<f, g>> \in order /\ <<g, h>> \in order => <<f, h>> \in order
  /\ \A g, h \in S : g = h \/ <<g, h>> \in order \/ <<h, g>> \in order

\* A member of S has fewer members below it than S has.
LEMMA BelowCount ==
  ASSUME NEW S, IsFiniteSet(S), NEW order, StrictOrder(S, order), NEW h \in S
  PROVE  /\ IsFiniteSet(Below(S, order, h))
         /\ Cardinality(Below(S, order, h)) \in Nat
         /\ Cardinality(Below(S, order, h)) < Cardinality(S)
<1> DEFINE B == Below(S, order, h)
<1>1. B \in SUBSET S /\ B # S
  BY DEF Below, StrictOrder
<1> HIDE DEF B
<1>2. IsFiniteSet(B) /\ Cardinality(B) <= Cardinality(S) /\ Cardinality(B) # Cardinality(S)
  BY <1>1, FS_Subset
<1>3. Cardinality(B) \in Nat /\ Cardinality(S) \in Nat
  BY <1>2, FS_CardinalityType
<1> QED BY <1>2, <1>3 DEF B

\* Who comes later has more members below.
LEMMA BelowGrows ==
  ASSUME NEW S, IsFiniteSet(S), NEW order, StrictOrder(S, order),
         NEW g \in S, NEW h \in S, <<g, h>> \in order
  PROVE  Cardinality(Below(S, order, g)) < Cardinality(Below(S, order, h))
<1> DEFINE A == Below(S, order, g)
           B == Below(S, order, h)
<1>1. A \in SUBSET B /\ A # B
  BY DEF Below, StrictOrder
<1>2. IsFiniteSet(B)
  BY BelowCount
<1> HIDE DEF A, B
<1>3. IsFiniteSet(A) /\ Cardinality(A) <= Cardinality(B) /\ Cardinality(A) # Cardinality(B)
  BY <1>1, <1>2, FS_Subset
<1>4. Cardinality(A) \in Nat /\ Cardinality(B) \in Nat
  BY <1>2, <1>3, FS_CardinalityType
<1> QED BY <1>3, <1>4 DEF A, B

\* No two members have equally many below.
LEMMA OffsetIsOwn ==
  ASSUME NEW S, IsFiniteSet(S), NEW order, StrictOrder(S, order), NEW g \in S, NEW h \in S,
         Cardinality(Below(S, order, g)) = Cardinality(Below(S, order, h))
  PROVE  g = h
<1> SUFFICES ASSUME g # h PROVE FALSE
  OBVIOUS
<1>1. /\ Cardinality(Below(S, order, g)) \in Nat
      /\ Cardinality(Below(S, order, h)) \in Nat
  BY BelowCount
<1>2. CASE <<g, h>> \in order
  BY <1>1, <1>2, BelowGrows
<1>3. CASE <<h, g>> \in order
  BY <1>1, <1>3, BelowGrows
<1> QED BY <1>2, <1>3 DEF StrictOrder

\* Every offset below the number of members is somebody's.
LEMMA OffsetIsTaken ==
  ASSUME NEW S, IsFiniteSet(S), NEW order, StrictOrder(S, order), NEW n \in 1..Cardinality(S)
  PROVE  \E h \in S : Cardinality(Below(S, order, h)) = n - 1
<1> DEFINE N == Cardinality(S)
           P == 1..N
           f == [h \in S |-> Cardinality(Below(S, order, h)) + 1]
<1>1. N \in Nat
  BY FS_CardinalityType
<1>2. ASSUME NEW h \in S PROVE f[h] \in P
  <2>1. Cardinality(Below(S, order, h)) \in Nat /\ Cardinality(Below(S, order, h)) < N
    BY BelowCount
  <2> QED BY <1>1, <2>1
<1>3. ASSUME NEW g \in S, NEW h \in S, f[g] = f[h] PROVE g = h
  <2>1. Cardinality(Below(S, order, g)) \in Nat /\ Cardinality(Below(S, order, h)) \in Nat
    BY BelowCount
  <2>2. Cardinality(Below(S, order, g)) = Cardinality(Below(S, order, h))
    BY <1>3, <2>1
  <2> QED BY <2>2, OffsetIsOwn
<1>4. f \in Injection(S, P)
  BY <1>2, <1>3 DEF Injection, IsInjective
<1>5. IsFiniteSet(P) /\ Cardinality(P) = N
  BY <1>1, FS_Interval
<1> HIDE DEF f, P
<1>6. f \in Surjection(S, P)
  BY <1>4, <1>5, FS_Injection DEF N
<1>7. PICK h \in S : f[h] = n
  BY <1>6 DEF Surjection, P
<1>8. Cardinality(Below(S, order, h)) \in Nat
  BY BelowCount
<1> QED BY <1>7, <1>8 DEF f

\* InOrder lists the members of S, each once, by their offset.
LEMMA InOrderSorts ==
  ASSUME NEW S, IsFiniteSet(S), NEW order, StrictOrder(S, order)
  PROVE  /\ Cardinality(S) \in Nat
         /\ InOrder(S, order) \in [1..Cardinality(S) -> S]
         /\ \A n \in 1..Cardinality(S) :
              Cardinality(Below(S, order, InOrder(S, order)[n])) = n - 1
         /\ \A h \in S :
              /\ Cardinality(Below(S, order, h)) + 1 \in 1..Cardinality(S)
              /\ InOrder(S, order)[Cardinality(Below(S, order, h)) + 1] = h
<1> DEFINE N == Cardinality(S)
           s == InOrder(S, order)
<1>1. N \in Nat
  BY FS_CardinalityType
<1>2. s = [n \in 1..N |-> CHOOSE h \in S : Cardinality(Below(S, order, h)) = n - 1]
  BY DEF InOrder, Below
<1> HIDE DEF s
<1>3. ASSUME NEW n \in 1..N
      PROVE  s[n] \in S /\ Cardinality(Below(S, order, s[n])) = n - 1
  <2>1. s[n] = CHOOSE h \in S : Cardinality(Below(S, order, h)) = n - 1
    BY <1>2
  <2>2. \E h \in S : Cardinality(Below(S, order, h)) = n - 1
    BY OffsetIsTaken
  <2> QED BY <2>1, <2>2
<1>4. ASSUME NEW h \in S
      PROVE  /\ Cardinality(Below(S, order, h)) + 1 \in 1..N
             /\ s[Cardinality(Below(S, order, h)) + 1] = h
  <2> DEFINE k == Cardinality(Below(S, order, h)) + 1
  <2>1. Cardinality(Below(S, order, h)) \in Nat /\ Cardinality(Below(S, order, h)) < N
    BY BelowCount
  <2>2. k \in 1..N
    BY <1>1, <2>1
  <2>3. s[k] \in S /\ Cardinality(Below(S, order, s[k])) = k - 1
    BY <1>3, <2>2
  <2>4. Cardinality(Below(S, order, s[k])) = Cardinality(Below(S, order, h))
    BY <2>1, <2>3
  <2>5. s[k] = h
    BY <2>3, <2>4, OffsetIsOwn
  <2> QED BY <2>2, <2>5
<1>5. s \in [1..N -> S]
  BY <1>2, <1>3
<1> QED BY <1>1, <1>3, <1>4, <1>5 DEF s
-----------------------------------------------------------------------------
(* The queries.                                                             *)

OrderOf(S) == {p \in S \X S : Precedes(p[1], p[2])}

\* ORDER BY leaves no two rows in one place: created_at breaks every tie.
LEMMA PrecedesIsOrder ==
  ASSUME NEW S \in SUBSET Row
  PROVE  /\ StrictOrder(S, OrderOf(S))
         /\ \A p, q \in S : <<p, q>> \in OrderOf(S) <=> Precedes(p, q)
<1>1. \A p, q \in S : <<p, q>> \in OrderOf(S) <=> Precedes(p, q)
  BY DEF OrderOf
<1>2. ASSUME NEW p \in S PROVE p.col \in Nat /\ p.id \in Nat
  BY ListingsAssumption DEF ListingsAssumption, Row
<1>3. \A p \in S : ~Precedes(p, p)
  BY <1>2 DEF Precedes
<1>4. \A p, q, r \in S : Precedes(p, q) /\ Precedes(q, r) => Precedes(p, r)
  BY <1>2 DEF Precedes
<1>5. ASSUME NEW p \in S, NEW q \in S PROVE p = q \/ Precedes(p, q) \/ Precedes(q, p)
  <2>1. CASE p.col = q.col /\ p.id = q.id
    <3>1. p = [col |-> p.col, id |-> p.id] /\ q = [col |-> q.col, id |-> q.id]
      BY DEF Row
    <3> QED BY <2>1, <3>1
  <2>2. CASE ~(p.col = q.col /\ p.id = q.id)
    BY <1>2, <2>2 DEF Precedes
  <2> QED BY <2>1, <2>2
<1> HIDE DEF OrderOf
<1> QED BY <1>1, <1>3, <1>4, <1>5 DEF StrictOrder

\* What a query selects is a finite set of habits.
LEMMA ListedIsFinite ==
  ASSUME TypeOK, NEW status \in Status
  PROVE  /\ Listed(status) \in SUBSET Habit
         /\ IsFiniteSet(Listed(status))
         /\ Cardinality(Listed(status)) \in Nat
<1>1. Listed(status) \in SUBSET Habit
  BY DEF TypeOK, Status, Listed
<1>2. IsFiniteSet(Habit)
  BY ListingsAssumption DEF ListingsAssumption
<1>3. IsFiniteSet(Listed(status))
  BY <1>1, <1>2, FS_Subset
<1> QED BY <1>1, <1>3, FS_CardinalityType

\* A habit makes a row.
LEMMA RowOfType ==
  ASSUME TypeOK, NEW sort \in Sort, NEW h \in Habit
  PROVE  RowOf(sort, h) \in Row /\ RowOf(sort, h).id = h
<1>1. h \in Nat /\ key[h] \in Nat /\ Completions[h] \in Nat
  BY ListingsAssumption DEF ListingsAssumption, TypeOK
<1>2. Column(sort, h) \in Nat
  BY <1>1 DEF Column, Sort
<1> QED BY <1>2 DEF RowOf, Row

\* The rows a query selects, one of each habit listed.
LEMMA TableIs ==
  ASSUME TypeOK, NEW status \in Status, NEW sort \in Sort
  PROVE  /\ Table(status, sort) \in SUBSET Row
         /\ IsFiniteSet(Table(status, sort))
         /\ Cardinality(Table(status, sort)) = Cardinality(Listed(status))
         /\ Cardinality(Table(status, sort)) \in Nat
         /\ \A q \in Table(status, sort) :
              q.id \in Listed(status) /\ q = RowOf(sort, q.id)
         /\ \A h \in Listed(status) : RowOf(sort, h) \in Table(status, sort)
<1> DEFINE S == Listed(status)
           T == Table(status, sort)
           f == [h \in S |-> RowOf(sort, h)]
<1>1. S \in SUBSET Habit /\ IsFiniteSet(S) /\ Cardinality(S) \in Nat
  BY ListedIsFinite
<1> HIDE DEF S
<1>2. \A h \in S : RowOf(sort, h) \in Row /\ RowOf(sort, h).id = h
  BY <1>1, RowOfType
<1>3. T = {RowOf(sort, h) : h \in S}
  BY DEF Table, S
<1> HIDE DEF T
<1>4. f \in Bijection(S, T)
  BY <1>2, <1>3 DEF Bijection, Injection, Surjection, IsInjective
<1>5. \A q \in T : q.id \in S /\ q = RowOf(sort, q.id) /\ q \in Row
  BY <1>2, <1>3
<1> HIDE DEF f
<1>6. IsFiniteSet(T) /\ Cardinality(T) = Cardinality(S)
  BY <1>1, <1>4, FS_Bijection DEF ExistsBijection
<1> QED BY <1>1, <1>3, <1>5, <1>6 DEF S, T

\* The rows a query answers with.
LEMMA RowsType ==
  ASSUME TypeOK, NEW status \in Status, NEW sort \in Sort
  PROVE  /\ Rows(status, sort) \in Seq(Row)
         /\ Len(Rows(status, sort)) = Cardinality(Table(status, sort))
<1> DEFINE S == Table(status, sort)
           order == OrderOf(S)
<1>1. Rows(status, sort) = InOrder(S, order)
  BY DEF Rows, OrderOf
<1>2. S \in SUBSET Row /\ IsFiniteSet(S)
  BY TableIs
<1> HIDE DEF S
<1>3. StrictOrder(S, order)
  BY <1>2, PrecedesIsOrder
<1> HIDE DEF order
<1>4. Cardinality(S) \in Nat /\ InOrder(S, order) \in [1..Cardinality(S) -> S]
  BY <1>2, <1>3, InOrderSorts
<1> QED BY <1>1, <1>2, <1>4 DEF S

\* The statuses and the sorts asked for, and the rows of today's list.
LEMMA AskIs ==
  ASSUME TypeOK
  PROVE  /\ ask.status \in Status /\ ask.sort \in Sort /\ ask.page \in Nat \ {0}
         /\ "todays" \in Status
         /\ Current \in SUBSET Row /\ IsFiniteSet(Current)
         /\ Cardinality(Current) \in Nat
         /\ \A p, q \in Current : p.id = q.id => p = q
<1>1. NoAsk \in [status : Status, sort : Sort, page : Nat \ {0}]
  BY DEF NoAsk, Status, Sort
<1>2. ask \in [status : Status, sort : Sort, page : Nat \ {0}]
  BY <1>1, ListingsAssumption DEF ListingsAssumption, TypeOK
<1>3. "todays" \in Status
  BY DEF Status
<1>4. ask.status \in Status /\ ask.sort \in Sort /\ ask.page \in Nat \ {0}
  BY <1>2
<1> QED BY <1>3, <1>4, TableIs DEF Current

\* Today's list is the list of its rows by offset.
LEMMA RowsByOffset ==
  ASSUME TypeOK
  PROVE  LET rows == Rows("todays", ask.sort)
         IN /\ \A n \in 1..Len(rows) :
                 rows[n] \in Current /\ Offset(rows[n]) = n - 1
            /\ \A q \in Current :
                 /\ Offset(q) \in Nat /\ Offset(q) < Len(rows)
                 /\ rows[Offset(q) + 1] = q
<1> DEFINE S == Current
           order == OrderOf(S)
           rows == Rows("todays", ask.sort)
<1>1. rows = InOrder(S, order)
  BY DEF Rows, OrderOf, Current
<1>2. S \in SUBSET Row /\ IsFiniteSet(S)
  BY AskIs
<1>3. Len(rows) = Cardinality(S)
  BY AskIs, RowsType DEF Current
<1> HIDE DEF S
<1>4. StrictOrder(S, order) /\ \A p, q \in S : <<p, q>> \in order <=> Precedes(p, q)
  BY <1>2, PrecedesIsOrder
<1> HIDE DEF order, rows
<1>5. ASSUME NEW q \in S PROVE Offset(q) = Cardinality(Below(S, order, q))
  <2>1. Below(S, order, q) = {p \in S : Precedes(p, q)}
    BY <1>4 DEF Below
  <2> QED BY <2>1 DEF Offset, S
<1>6. /\ Cardinality(S) \in Nat
      /\ rows \in [1..Cardinality(S) -> S]
      /\ \A n \in 1..Cardinality(S) : Cardinality(Below(S, order, rows[n])) = n - 1
      /\ \A q \in S :
           /\ Cardinality(Below(S, order, q)) + 1 \in 1..Cardinality(S)
           /\ rows[Cardinality(Below(S, order, q)) + 1] = q
  BY <1>1, <1>2, <1>4, InOrderSorts
<1>7. ASSUME NEW n \in 1..Len(rows)
      PROVE  rows[n] \in S /\ Offset(rows[n]) = n - 1
  BY <1>3, <1>5, <1>6
<1>8. ASSUME NEW q \in S
      PROVE  /\ Offset(q) \in Nat /\ Offset(q) < Len(rows)
             /\ rows[Offset(q) + 1] = q
  <2>1. Cardinality(Below(S, order, q)) \in Nat
    BY <1>2, <1>4, BelowCount
  <2> QED BY <1>3, <1>5, <1>6, <2>1
<1> QED BY <1>7, <1>8 DEF rows, S

\* LIMIT and OFFSET, and a slice of Python.
LEMMA WindowIs ==
  ASSUME NEW T, NEW seq \in Seq(T), NEW skip \in Nat, NEW limit \in Nat
  PROVE  LET w == Window(seq, skip, limit)
         IN /\ w \in Seq(T)
            /\ \A i \in 1..Len(w) :
                 /\ skip + i \in 1..Len(seq) /\ i <= limit
                 /\ w[i] = seq[skip + i]
            /\ \A k \in 1..Len(seq) :
                 skip < k /\ k <= skip + limit => k - skip \in 1..Len(w)
<1> DEFINE last == IF skip + limit < Len(seq) THEN skip + limit ELSE Len(seq)
           w == SubSeq(seq, skip + 1, last)
<1>1. Window(seq, skip, limit) = w
  BY DEF Window
<1>2. last \in Nat /\ last <= Len(seq) /\ last <= skip + limit
  OBVIOUS
<1>3. \A k \in 1..Len(seq) : k <= skip + limit => k <= last
  OBVIOUS
<1> HIDE DEF last
<1>4. w \in Seq(T)
  BY <1>2
<1>5. Len(w) = IF skip + 1 <= last THEN last - skip ELSE 0
  BY <1>2
<1>6. \A i \in 1..Len(w) : w[i] = seq[skip + i]
  BY <1>2, <1>5
<1> HIDE DEF w
<1>7. ASSUME NEW i \in 1..Len(w) PROVE skip + i \in 1..Len(seq) /\ i <= limit
  BY <1>2, <1>5
<1>8. ASSUME NEW k \in 1..Len(seq), skip < k, k <= skip + limit PROVE k - skip \in 1..Len(w)
  BY <1>2, <1>3, <1>5, <1>8
<1> QED BY <1>1, <1>4, <1>6, <1>7, <1>8
-----------------------------------------------------------------------------
(* The items.                                                               *)

Before(rows, i, j) ==
  IF ask.sort = "streak" /\ rows[i].id # rows[j].id
  THEN Precedes(StreakRow(rows[i].id), StreakRow(rows[j].id)) ELSE i < j

BeforeOf(rows, places) == {p \in places \X places : Before(rows, p[1], p[2])}

\* The stable sort of Python orders the places even if a habit was read twice.
LEMMA BeforeIsOrder ==
  ASSUME NEW rows \in Seq(Row), NEW places \in SUBSET (1..Len(rows))
  PROVE  /\ StrictOrder(places, BeforeOf(rows, places))
         /\ \A i, j \in places :
              <<i, j>> \in BeforeOf(rows, places) <=> Before(rows, i, j)
<1>1. \A i, j \in places :
        <<i, j>> \in BeforeOf(rows, places) <=> Before(rows, i, j)
  BY DEF BeforeOf
<1>2. \A i \in places : i \in Nat /\ rows[i].id \in Habit
  <2>1. \A i \in places : i \in Nat /\ rows[i] \in Row
    OBVIOUS
  <2> QED BY <2>1 DEF Row
<1>3. \A h \in Habit : h \in Nat /\ Streak[h] \in Nat
  BY ListingsAssumption DEF ListingsAssumption
<1> DEFINE A(g, h) == Precedes(StreakRow(g), StreakRow(h))
<1>4. /\ \A g \in Habit : ~A(g, g)
      /\ \A f, g, h \in Habit : A(f, g) /\ A(g, h) => A(f, h)
      /\ \A g, h \in Habit : g = h \/ A(g, h) \/ A(h, g)
  BY <1>3 DEF Precedes, StreakRow
<1> HIDE DEF A
<1>5. \A i, j \in places :
        Before(rows, i, j) <=> IF ask.sort = "streak" /\ rows[i].id # rows[j].id
                               THEN A(rows[i].id, rows[j].id) ELSE i < j
  BY DEF Before, A
<1>6. \A i \in places : ~Before(rows, i, i)
  BY <1>2, <1>5
<1>7. ASSUME NEW i \in places, NEW j \in places, NEW k \in places,
             Before(rows, i, j), Before(rows, j, k)
      PROVE  Before(rows, i, k)
  <2>1. CASE ask.sort # "streak"
    BY <2>1, <1>2, <1>5, <1>7
  <2>2. CASE ask.sort = "streak"
    <3>1. CASE rows[i].id = rows[j].id
      BY <2>2, <3>1, <1>2, <1>5, <1>7
    <3>2. CASE rows[j].id = rows[k].id
      BY <2>2, <3>2, <1>2, <1>5, <1>7
    <3>3. CASE rows[i].id # rows[j].id /\ rows[j].id # rows[k].id
      <4>1. A(rows[i].id, rows[j].id) /\ A(rows[j].id, rows[k].id)
        BY <2>2, <3>3, <1>5, <1>7
      <4>2. A(rows[i].id, rows[k].id)
        BY <4>1, <1>2, <1>4
      <4>3. rows[i].id # rows[k].id
        BY <4>2, <1>2, <1>4
      <4> QED BY <2>2, <4>2, <4>3, <1>5
    <3> QED BY <3>1, <3>2, <3>3
  <2> QED BY <2>1, <2>2
<1>8. \A i, j \in places : i = j \/ Before(rows, i, j) \/ Before(rows, j, i)
  BY <1>2, <1>4, <1>5
<1> HIDE DEF Before, BeforeOf
<1> QED BY <1>1, <1>6, <1>7, <1>8 DEF StrictOrder

\* The items are the habits of the rows at the places kept, each once, in their order.
LEMMA ItemsSorted ==
  ASSUME NEW rows \in Seq(Row), NEW places \in SUBSET (1..Len(rows))
  PROVE  LET P == BeforeOf(rows, places)
         IN /\ Items(rows, places) \in Seq(Habit)
            /\ Len(Items(rows, places)) = Cardinality(places)
            /\ IsFiniteSet(places) /\ Cardinality(places) \in Nat
            /\ \A n \in 1..Cardinality(places) :
                 \E i \in places : /\ Cardinality(Below(places, P, i)) = n - 1
                                   /\ Items(rows, places)[n] = rows[i].id
            /\ \A i \in places :
                 /\ Cardinality(Below(places, P, i)) + 1 \in 1..Cardinality(places)
                 /\ Items(rows, places)[Cardinality(Below(places, P, i)) + 1] = rows[i].id
<1> DEFINE P == BeforeOf(rows, places)
           N == Cardinality(places)
           s == InOrder(places, P)
           I == Items(rows, places)
<1>1. I = [n \in 1..N |-> rows[s[n]].id]
  BY DEF Items, BeforeOf, Before
<1>2. IsFiniteSet(places)
  <2>1. Len(rows) \in Nat
    OBVIOUS
  <2>2. IsFiniteSet(1..Len(rows))
    BY <2>1, FS_Interval
  <2> QED BY <2>2, FS_Subset
<1>3. StrictOrder(places, P)
  BY BeforeIsOrder
<1> HIDE DEF P
<1>4. /\ N \in Nat /\ s \in [1..N -> places]
      /\ \A n \in 1..N : Cardinality(Below(places, P, s[n])) = n - 1
      /\ \A i \in places :
           /\ Cardinality(Below(places, P, i)) + 1 \in 1..N
           /\ s[Cardinality(Below(places, P, i)) + 1] = i
  BY <1>2, <1>3, InOrderSorts
<1> HIDE DEF N, s, I
<1>5. \A i \in places : rows[i].id \in Habit
  <2>1. \A i \in places : rows[i] \in Row
    OBVIOUS
  <2> QED BY <2>1 DEF Row
<1>6. I \in [1..N -> Habit]
  BY <1>1, <1>4, <1>5
<1>7. I \in Seq(Habit) /\ Len(I) = N
  BY <1>4, <1>6
<1>8. ASSUME NEW n \in 1..N
      PROVE  \E i \in places : /\ Cardinality(Below(places, P, i)) = n - 1
                               /\ I[n] = rows[i].id
  BY <1>1, <1>4
<1>9. ASSUME NEW i \in places
      PROVE  I[Cardinality(Below(places, P, i)) + 1] = rows[i].id
  BY <1>1, <1>4
<1> QED BY <1>2, <1>4, <1>7, <1>8, <1>9 DEF N, I, P

-----------------------------------------------------------------------------
(* Types.                                                                   *)

\* The places of what is due today are places.
LEMMA DuePlacesType == ASSUME NEW rows PROVE DuePlaces(rows) \in SUBSET (1..Len(rows))
BY DEF DuePlaces

\* The offset of a page is a number.
LEMMA SkipType == ASSUME TypeOK PROVE Skip \in Nat /\ PerPage \in Nat /\ BatchSize \in Nat
<1>1. ask.page \in Nat /\ ask.page >= 1
  BY AskIs
<1>2. PerPage \in Nat /\ BatchSize \in Nat
  BY ListingsAssumption DEF ListingsAssumption
<1> DEFINE n == ask.page - 1
<1>3. n \in Nat
  BY <1>1
<1> HIDE DEF n
<1>4. n * PerPage \in Nat
  BY <1>2, <1>3
<1> QED BY <1>2, <1>4 DEF Skip, n

\* Nothing has been asked for in the beginning.
LEMMA TypeInit == Init => TypeOK
<1> SUFFICES ASSUME Init PROVE TypeOK
  OBVIOUS
<1>1. key \in [Habit -> Nat]
  <2>1. key \in [Habit -> UNION {Keys[h] : h \in Habit}]
    BY DEF Init
  <2>2. ASSUME NEW h \in Habit PROVE key[h] \in Nat
    BY ListingsAssumption DEF ListingsAssumption, Init
  <2> QED BY <2>1, <2>2
<1> QED BY <1>1 DEF Init, TypeOK

\* An edit leaves every habit a key.
LEMMA StampType ==
  ASSUME TypeOK, NEW h \in Habit, Stamp(h) PROVE key' \in [Habit -> Nat]
<1>1. PICK k \in Keys[h] : key' = [key EXCEPT ![h] = k]
  BY DEF Stamp
<1>2. k \in Nat
  BY ListingsAssumption DEF ListingsAssumption
<1> QED BY <1>1, <1>2 DEF TypeOK

\* Writes keep the rows and their keys.
LEMMA WrittenType ==
  ASSUME TypeOK, NEW h \in Habit, Written(h)
  PROVE  /\ habits' \subseteq Habit /\ archived' \subseteq habits' /\ done' \subseteq habits'
         /\ key' \in [Habit -> Nat]
<1>1. habits' \subseteq Habit /\ archived' \subseteq habits' /\ done' \subseteq habits'
  BY DEF Written, Create, Delete, Edit, Archive, Unarchive, Complete, Incomplete, TypeOK
<1>2. key' = key \/ Stamp(h)
  BY DEF Written, Create, Delete, Edit, Archive, Unarchive, Complete, Incomplete
<1>3. key' \in [Habit -> Nat]
  BY <1>2, StampType DEF TypeOK
<1> QED BY <1>1, <1>3

\* Whatever is written, today's list has rows.
LEMMA WroteType ==
  ASSUME TypeOK, NEW h \in Habit, Written(h), Wrote
  PROVE  TypeOK'
<1>1. /\ habits' \subseteq Habit /\ archived' \subseteq habits' /\ done' \subseteq habits'
      /\ key' \in [Habit -> Nat]
  BY WrittenType
<1>2. UNCHANGED listing /\ ask' = ask /\ ask.sort \in Sort
  BY AskIs DEF Wrote, listing
<1>3. Table("todays", ask.sort)' \subseteq Row
  <2>1. Listed("todays")' \subseteq Habit
    BY <1>1 DEF Listed
  <2>2. ASSUME NEW g \in Habit PROVE RowOf(ask.sort, g)' \in Row
    <3>1. g \in Nat /\ key'[g] \in Nat /\ Completions[g] \in Nat
      BY <1>1, ListingsAssumption DEF ListingsAssumption
    <3>2. Column(ask.sort, g)' \in Nat
      BY <1>2, <3>1 DEF Column, Sort
    <3> QED BY <3>2 DEF RowOf, Row
  <2> QED BY <2>1, <2>2 DEF Table
<1>4. Table("todays", ask.sort) \subseteq Row
  BY AskIs DEF Current
<1>5. left' \cup came' \subseteq Row
  BY <1>3, <1>4 DEF Wrote, TypeOK
<1> QED BY <1>1, <1>2, <1>5 DEF TypeOK, listing

\* Every statement of a listing and every write keeps the types.
LEMMA TypeStep == TypeOK /\ [Next]_vars => TypeOK'
<1> SUFFICES ASSUME TypeOK, [Next]_vars PROVE TypeOK'
  OBVIOUS
<1>1. ask.status \in Status /\ ask.sort \in Sort /\ "todays" \in Status
  BY AskIs
<1>2. CASE Ask
  BY <1>2 DEF Ask, TypeOK, table
<1>3. CASE UNCHANGED table /\ Count
  <2>1. Cardinality(Listed(ask.status)) \in Nat
    BY <1>1, ListedIsFinite
  <2> QED BY <1>3, <2>1 DEF Count, TypeOK, table
<1>4. CASE UNCHANGED table /\ ReadBatch
  <2> DEFINE batch == Window(Rows("todays", ask.sort), Len(read), BatchSize)
  <2>1. Rows("todays", ask.sort) \in Seq(Row)
    BY <1>1, RowsType
  <2>2. Len(read) \in Nat /\ BatchSize \in Nat
    BY SkipType DEF TypeOK
  <2>3. batch \in Seq(Row)
    BY <2>1, <2>2, WindowIs
  <2>4. read' = read \o batch /\ pc' \in {"completions", "count"} /\ total' = 0
    BY <1>4 DEF ReadBatch, ReadBatchFrom
  <2>5. UNCHANGED <<table, ask, items, left, came>>
    BY <1>4 DEF ReadBatch, ReadBatchFrom
  <2> HIDE DEF batch
  <2>6. read' \in Seq(Row)
    BY <2>3, <2>4 DEF TypeOK
  <2> QED BY <2>4, <2>5, <2>6 DEF TypeOK, table
<1>5. CASE UNCHANGED table /\ ReadPage
  <2> DEFINE rows == Rows(ask.status, ask.sort)
  <2>1. rows \in Seq(Row)
    BY <1>1, RowsType
  <2>2. read' = Window(rows, Skip, PerPage)
    BY <1>5 DEF ReadPage
  <2> HIDE DEF rows
  <2>3. read' \in Seq(Row)
    BY <2>1, <2>2, SkipType, WindowIs
  <2> QED BY <1>5, <2>3 DEF ReadPage, TypeOK, table
<1>6. CASE UNCHANGED table /\ Build
  <2> DEFINE due == Items(read, DuePlaces(read))
             shown == Items(read, 1..Len(read))
  <2>1. read \in Seq(Row)
    BY DEF TypeOK
  <2>2. due \in Seq(Habit)
    BY <2>1, DuePlacesType, ItemsSorted
  <2>3. shown \in Seq(Habit)
    <3>1. 1..Len(read) \in SUBSET (1..Len(read))
      OBVIOUS
    <3> QED BY <2>1, <3>1, ItemsSorted
  <2>4. \/ items' = Window(due, Skip, PerPage) /\ total' = Len(due)
        \/ items' = shown /\ total' = total
    BY <1>6 DEF Build
  <2> HIDE DEF due, shown
  <2>5. Window(due, Skip, PerPage) \in Seq(Habit)
    BY <2>2, SkipType, WindowIs
  <2>6. items' \in Seq(Habit) /\ total' \in Nat
    BY <2>2, <2>3, <2>4, <2>5 DEF TypeOK
  <2>7. read' = <<>> /\ pc' = "answer" /\ UNCHANGED <<table, ask, left, came>>
    BY <1>6 DEF Build
  <2>8. read' \in Seq(Row)
    BY <2>7
  <2> QED BY <2>6, <2>7, <2>8 DEF TypeOK, table
<1>7. CASE UNCHANGED table /\ Answer
  BY <1>7 DEF Answer, TypeOK, table
<1>8. ASSUME NEW h \in Habit, Written(h), Wrote PROVE TypeOK'
  BY <1>8, WroteType
<1>9. CASE UNCHANGED vars
  BY <1>9 DEF vars, table, listing, TypeOK
<1> QED BY <1>2, <1>3, <1>4, <1>5, <1>6, <1>7, <1>8, <1>9 DEF Next, List

\* Every state has the types of its variables, counts and pages of habits included.
THEOREM TypeCorrect == Spec => []TypeOK
BY TypeInit, TypeStep, PTL DEF Spec
-----------------------------------------------------------------------------
(* What other requests do to the rows in front of a row.                    *)

\* A write of another request leaves the listing alone and is remembered.
LEMMA WroteIs ==
  ASSUME ask.status = "todays", Wrote
  PROVE  /\ ask' = ask /\ pc' = pc /\ total' = total /\ read' = read /\ items' = items
         /\ left' = left \cup (Current \ Current')
         /\ came' = came \cup (Current' \ Current)
BY DEF Wrote, listing, Current

\* If a row is undisturbed after a write it was before, at the same offset.
LEMMA UndisturbedStays ==
  ASSUME ask.status = "todays", Wrote, NEW q, Undisturbed(q)'
  PROVE  Undisturbed(q) /\ Offset(q)' = Offset(q)
<1> DEFINE T == Current
<1>1. /\ left' = left \cup (T \ T')
      /\ came' = came \cup (T' \ T)
  BY WroteIs
<1>2. q \in T' \ came' /\ \A p \in left' \cup came' : ~Precedes(p, q)
  BY DEF Undisturbed
<1>3. Offset(q) = Cardinality({p \in T : Precedes(p, q)})
  BY DEF Offset
<1>4. Offset(q)' = Cardinality({p \in T' : Precedes(p, q)})
  BY DEF Offset
<1>5. Undisturbed(q) <=> q \in T \ came /\ \A p \in left \cup came : ~Precedes(p, q)
  BY DEF Undisturbed
<1> HIDE DEF T
<1>6. q \in T \ came /\ \A p \in left \cup came : ~Precedes(p, q)
  BY <1>1, <1>2
<1>7. {p \in T' : Precedes(p, q)} = {p \in T : Precedes(p, q)}
  BY <1>1, <1>2
<1> QED BY <1>3, <1>4, <1>5, <1>6, <1>7

\* If a row is not pushed back after a write it was not before, and its offset has
\* not grown.
LEMMA NotPushedBackStays ==
  ASSUME TypeOK, ask.status = "todays", Wrote, NEW q, NotPushedBack(q)'
  PROVE  /\ NotPushedBack(q)
         /\ Offset(q) \in Nat /\ Offset(q)' \in Nat /\ Offset(q)' <= Offset(q)
<1> DEFINE T == Current
           A == {p \in T : Precedes(p, q)}
           B == {p \in T' : Precedes(p, q)}
<1>1. came' = came \cup (T' \ T)
  BY WroteIs
<1>2. q \in T' \ came' /\ \A p \in came' : ~Precedes(p, q)
  BY DEF NotPushedBack
<1>3. Offset(q) = Cardinality(A) /\ Offset(q)' = Cardinality(B)
  BY DEF Offset
<1>4. NotPushedBack(q) <=> q \in T \ came /\ \A p \in came : ~Precedes(p, q)
  BY DEF NotPushedBack
<1>5. IsFiniteSet(T)
  BY AskIs
<1>6. A \in SUBSET T
  OBVIOUS
<1> HIDE DEF T
<1>7. q \in T \ came /\ \A p \in came : ~Precedes(p, q)
  BY <1>1, <1>2
<1>8. B \in SUBSET A
  BY <1>1, <1>2
<1> HIDE DEF A, B
<1>9. IsFiniteSet(A)
  BY <1>5, <1>6, FS_Subset
<1>10. IsFiniteSet(B) /\ Cardinality(B) <= Cardinality(A)
  BY <1>8, <1>9, FS_Subset
<1>11. Cardinality(A) \in Nat /\ Cardinality(B) \in Nat
  BY <1>9, <1>10, FS_CardinalityType
<1> QED BY <1>3, <1>4, <1>7, <1>10, <1>11

\* When nothing has left or entered, the list is what it was.
LEMMA QuietStays ==
  ASSUME ask.status = "todays", Wrote, left' \cup came' = {}
  PROVE  /\ left \cup came = {}
         /\ Current' = Current
         /\ \A q : Offset(q)' = Offset(q)
<1> DEFINE T == Current
<1>1. /\ left' = left \cup (T \ T')
      /\ came' = came \cup (T' \ T)
  BY WroteIs
<1>2. \A q : Offset(q) = Cardinality({p \in T : Precedes(p, q)})
  BY DEF Offset
<1>3. \A q : Offset(q)' = Cardinality({p \in T' : Precedes(p, q)})
  BY DEF Offset
<1> HIDE DEF T
<1>4. left \cup came = {} /\ T' = T
  BY <1>1
<1>5. ASSUME NEW q PROVE Offset(q)' = Offset(q)
  BY <1>2, <1>3, <1>4
<1> QED BY <1>4, <1>5 DEF T
-----------------------------------------------------------------------------
(* The invariant, action by action.                                         *)

HasBeenRead(q) == q \in {read[i] : i \in 1..Len(read)}

\* Unless table, order and history change, offsets are what they were.
LEMMA OffsetsStay ==
  ASSUME UNCHANGED <<table, ask, left, came>>
  PROVE  /\ Current' = Current
         /\ \A q : Offset(q)' = Offset(q)
         /\ \A q : Undisturbed(q)' <=> Undisturbed(q)
         /\ \A q : NotPushedBack(q)' <=> NotPushedBack(q)
<1>1. Current' = Current
  BY DEF Current, Table, RowOf, Column, Listed, table
<1>2. ASSUME NEW q PROVE Offset(q)' = Offset(q)
  <2> DEFINE T == Current
  <2>1. Offset(q) = Cardinality({p \in T : Precedes(p, q)})
    BY DEF Offset
  <2>2. Offset(q)' = Cardinality({p \in T' : Precedes(p, q)})
    BY DEF Offset
  <2>3. T' = T
    BY <1>1
  <2> HIDE DEF T
  <2> QED BY <2>1, <2>2, <2>3
<1>3. ASSUME NEW q PROVE Undisturbed(q)' <=> Undisturbed(q)
  BY <1>1 DEF Undisturbed
<1>4. ASSUME NEW q PROVE NotPushedBack(q)' <=> NotPushedBack(q)
  BY <1>1 DEF NotPushedBack
<1> QED BY <1>1, <1>2, <1>3, <1>4

\* Offsets of listed rows are numbers, smaller than the number of rows.
LEMMA OffsetType ==
  ASSUME TypeOK, NEW q \in Current
  PROVE  q \in Row /\ Offset(q) \in Nat /\ Offset(q) < Cardinality(Current)
<1>1. Offset(q) \in Nat /\ Offset(q) < Len(Rows("todays", ask.sort))
  BY RowsByOffset
<1>2. Len(Rows("todays", ask.sort)) = Cardinality(Current)
  BY AskIs, RowsType DEF Current
<1>3. Current \in SUBSET Row
  BY AskIs
<1> QED BY <1>1, <1>2, <1>3

\* What a batch adds: the rows from the next offset on, and nothing only at the end.
LEMMA BatchIs ==
  ASSUME TypeOK, UNCHANGED table, ReadBatch
  PROVE  /\ UNCHANGED <<table, ask, items, left, came>>
         /\ pc = "page" /\ ask.status = "todays"
         /\ Len(read) \in Nat /\ Len(read') \in Nat /\ Len(read) <= Len(read')
         /\ \A i \in 1..Len(read) : read'[i] = read[i]
         /\ \A i \in 1..Len(read') :
              i > Len(read) => read'[i] \in Current /\ Offset(read'[i]) = i - 1
         /\ \A q \in Current :
              Len(read) <= Offset(q) /\ Offset(q) < Len(read') => HasBeenRead(q)'
         /\ Len(read') = Len(read) \/ Len(read') <= Cardinality(Current)
         /\ \/ pc' = "count" /\ Len(read) < Len(read')
            \/ pc' = "completions" /\ Cardinality(Current) <= Len(read)
            \/ pc' = "completions" /\ Len(read') >= total
<1> DEFINE rows == Rows("todays", ask.sort)
           L == Len(read)
           batch == Window(rows, L, BatchSize)
<1>1. /\ UNCHANGED <<table, ask, items, left, came>>
      /\ pc = "page" /\ ask.status = "todays"
      /\ read' = read \o batch
      /\ pc' = IF read' = read \/ Len(read') >= total THEN "completions" ELSE "count"
  BY DEF ReadBatch, ReadBatchFrom
<1>2. /\ rows \in Seq(Row) /\ Len(rows) = Cardinality(Current)
      /\ \A n \in 1..Len(rows) : rows[n] \in Current /\ Offset(rows[n]) = n - 1
      /\ \A q \in Current :
           /\ Offset(q) \in Nat /\ Offset(q) < Len(rows)
           /\ rows[Offset(q) + 1] = q
  BY AskIs, RowsType, RowsByOffset DEF Current
<1>3. read \in Seq(Row) /\ L \in Nat
  BY DEF TypeOK
<1>4. BatchSize \in Nat /\ BatchSize >= 1
  BY ListingsAssumption DEF ListingsAssumption
<1> HIDE DEF rows
<1>5. /\ batch \in Seq(Row)
      /\ \A i \in 1..Len(batch) : L + i \in 1..Len(rows) /\ batch[i] = rows[L + i]
      /\ \A k \in 1..Len(rows) : L < k /\ k <= L + BatchSize => k - L \in 1..Len(batch)
  <2>1. rows \in Seq(Row) /\ L \in Nat /\ BatchSize \in Nat
    BY <1>2, <1>3, <1>4
  <2> HIDE DEF L
  <2>2. /\ batch \in Seq(Row)
        /\ \A i \in 1..Len(batch) :
             /\ L + i \in 1..Len(rows) /\ i <= BatchSize
             /\ batch[i] = rows[L + i]
        /\ \A k \in 1..Len(rows) :
             L < k /\ k <= L + BatchSize => k - L \in 1..Len(batch)
    BY <2>1, WindowIs
  <2> QED BY <2>2
<1> HIDE DEF batch
<1>6. /\ Len(read') = L + Len(batch) /\ Len(batch) \in Nat
      /\ \A i \in 1..L : read'[i] = read[i]
      /\ \A i \in 1..Len(batch) : read'[L + i] = batch[i]
  BY <1>1, <1>3, <1>5
<1>7. ASSUME NEW i \in 1..Len(read'), i > L
      PROVE  read'[i] \in Current /\ Offset(read'[i]) = i - 1
  <2>1. i - L \in 1..Len(batch) /\ L + (i - L) = i
    BY <1>3, <1>6, <1>7
  <2>2. read'[i] = rows[i] /\ i \in 1..Len(rows)
    BY <1>5, <1>6, <2>1
  <2> QED BY <1>2, <2>2
<1>8. ASSUME NEW q \in Current, L <= Offset(q), Offset(q) < Len(read')
      PROVE  HasBeenRead(q)'
  <2> DEFINE k == Offset(q) + 1
  <2>1. Offset(q) \in Nat /\ rows[k] = q
    BY <1>2
  <2>2. k - L \in 1..Len(batch) /\ L + (k - L) = k /\ k \in 1..Len(read')
    BY <1>3, <1>6, <1>8, <2>1
  <2>3. read'[k] = q
    BY <1>5, <1>6, <2>1, <2>2
  <2> QED BY <2>2, <2>3 DEF HasBeenRead
<1>9. Len(batch) = 0 => Cardinality(Current) <= L
  <2> SUFFICES ASSUME Len(batch) = 0, L < Len(rows) PROVE FALSE
    BY <1>2, <1>3
  <2>1. L + 1 \in 1..Len(rows) /\ L < L + 1 /\ L + 1 <= L + BatchSize
    BY <1>2, <1>3, <1>4
  <2>2. (L + 1) - L \in 1..Len(batch)
    BY <1>5, <2>1
  <2> QED BY <1>3, <2>2
<1>10. \/ pc' = "count" /\ L < Len(read')
       \/ pc' = "completions" /\ Cardinality(Current) <= L
       \/ pc' = "completions" /\ Len(read') >= total
  <2>1. CASE Len(batch) = 0
    <3>1. read' = read
      BY <1>1, <1>3, <1>5, <2>1
    <3> QED BY <1>1, <1>9, <2>1, <3>1
  <2>2. CASE Len(batch) > 0
    BY <1>1, <1>3, <1>6, <2>2
  <2> QED BY <1>6, <2>1, <2>2
<1>11. Len(read') = L \/ Len(read') <= Cardinality(Current)
  <2>1. CASE Len(batch) = 0
    BY <1>3, <1>6, <2>1
  <2>2. CASE Len(batch) # 0
    <3>1. Len(batch) \in 1..Len(batch)
      BY <1>6, <2>2
    <3>2. L + Len(batch) \in 1..Len(rows)
      BY <1>5, <3>1
    <3> QED BY <1>2, <1>6, <3>2
  <2> QED BY <2>1, <2>2
<1> QED BY <1>1, <1>3, <1>6, <1>7, <1>8, <1>10, <1>11

\* Counting: the last count covers every row that is listed.
LEMMA CountKeeps ==
  ASSUME IInv, TypeOK', UNCHANGED table, Count
  PROVE  IInv'
<1>1. /\ UNCHANGED <<table, ask, read, items, left, came>>
      /\ pc = "count" /\ pc' = "page"
      /\ total' = Cardinality(Listed(ask.status))
  BY DEF Count
<1>2. /\ Current' = Current
      /\ \A q : Offset(q)' = Offset(q)
      /\ \A q : Undisturbed(q)' <=> Undisturbed(q)
      /\ \A q : NotPushedBack(q)' <=> NotPushedBack(q)
  BY <1>1, OffsetsStay
<1>3. ~Reading' /\ (Batches' <=> Batches) /\ (Batches => ask.status = "todays")
  BY <1>1 DEF Reading, Batches
<1>4. ask.status = "todays" => total' = Cardinality(Current)
  <2>1. TypeOK /\ "todays" \in Status /\ ask.sort \in Sort
    BY AskIs DEF IInv
  <2>2. Cardinality(Table("todays", ask.sort)) = Cardinality(Listed("todays"))
    BY <2>1, TableIs
  <2> QED BY <1>1, <2>2 DEF Current
<1>5. PassedIsRead'
  <2> SUFFICES ASSUME Batches, NEW q \in Current, Undisturbed(q)
               PROVE  /\ Offset(q) < Len(read) => HasBeenRead(q)
                      /\ Offset(q) < total'
    BY <1>1, <1>2, <1>3 DEF PassedIsRead, HasBeenRead
  <2>1. Offset(q) < Len(read) => HasBeenRead(q)
    BY DEF IInv, PassedIsRead, HasBeenRead
  <2>2. Offset(q) < Cardinality(Current)
    BY OffsetType DEF IInv
  <2> QED BY <1>3, <1>4, <2>1, <2>2
<1>6. ReadIsPassed' /\ ReadWasListed'
  BY <1>1, <1>2, <1>3 DEF IInv, ReadIsPassed, ReadWasListed
<1>7. NoneReadTwice'
  BY <1>1, <1>2, <1>3 DEF IInv, NoneReadTwice
<1>8. QuietReadIsExact'
  BY <1>1, <1>2, <1>3, <1>4 DEF IInv, QuietReadIsExact
<1>9. SkipsOnlyAfterChange' /\ TwiceOnlyAfterInsertion'
  BY <1>3 DEF SkipsOnlyAfterChange, TwiceOnlyAfterInsertion
<1>10. QuietPageIsExact' /\ pc' # "idle"
  BY <1>1 DEF QuietPageIsExact
<1> QED BY <1>5, <1>6, <1>7, <1>8, <1>9, <1>10 DEF IInv

\* Reading a batch: an undisturbed row is in it when its offset is, and a habit of it
\* that was read before has been pushed back or has moved.
LEMMA ReadBatchKeeps ==
  ASSUME IInv, TypeOK', UNCHANGED table, ReadBatch
  PROVE  IInv'
<1> DEFINE T == Current
           L == Len(read)
<1>1. /\ UNCHANGED <<table, ask, items, left, came>>
      /\ pc = "page" /\ ask.status = "todays"
      /\ L \in Nat /\ Len(read') \in Nat /\ L <= Len(read')
      /\ \A i \in 1..L : read'[i] = read[i]
      /\ \A i \in 1..Len(read') : i > L => read'[i] \in T /\ Offset(read'[i]) = i - 1
      /\ \A q \in T : L <= Offset(q) /\ Offset(q) < Len(read') => HasBeenRead(q)'
      /\ \/ pc' = "count"
         \/ pc' = "completions" /\ Cardinality(T) <= L
         \/ pc' = "completions" /\ Len(read') >= total
  BY BatchIs DEF IInv
<1>2. /\ T' = T
      /\ \A q : Offset(q)' = Offset(q)
      /\ \A q : Undisturbed(q)' <=> Undisturbed(q)
      /\ \A q : NotPushedBack(q)' <=> NotPushedBack(q)
  BY <1>1, OffsetsStay
<1>3. Batches
  BY <1>1 DEF Batches
<1>4. \A q \in T : Offset(q) \in Nat /\ Offset(q) < Cardinality(T)
  BY OffsetType DEF IInv
<1>5. \A q : HasBeenRead(q) => HasBeenRead(q)'
  <2> SUFFICES ASSUME NEW q, NEW i \in 1..L, read[i] = q
               PROVE  \E j \in 1..Len(read') : read'[j] = q
    BY DEF HasBeenRead
  <2>1. i \in 1..Len(read') /\ read'[i] = q
    BY <1>1
  <2> QED BY <2>1
<1>6. ASSUME NEW q \in T, Undisturbed(q)
      PROVE  /\ Offset(q) < Len(read') => HasBeenRead(q)'
             /\ pc' = "completions" => HasBeenRead(q)'
  <2>1. (Offset(q) < L => HasBeenRead(q)) /\ Offset(q) < total
    BY <1>1, <1>3, <1>6 DEF IInv, PassedIsRead, HasBeenRead
  <2>2. Offset(q) \in Nat /\ Offset(q) < Cardinality(T)
    BY <1>4
  <2>3. Cardinality(T) \in Nat /\ total \in Nat
    BY AskIs DEF IInv, TypeOK
  <2> HIDE DEF T, L
  <2>4. Offset(q) < Len(read') => HasBeenRead(q)'
    BY <1>1, <1>5, <2>1, <2>2
  <2>5. pc' = "completions" => HasBeenRead(q)'
    BY <1>1, <1>5, <2>1, <2>2, <2>3, <2>4
  <2> QED BY <2>4, <2>5
<1>7. PassedIsRead'
  BY <1>1, <1>2, <1>6 DEF PassedIsRead, HasBeenRead, Batches
<1>8. SkipsOnlyAfterChange'
  <2> SUFFICES ASSUME pc' = "completions", NEW q \in T \ came, ~HasBeenRead(q)'
               PROVE  \E p \in left \cup came : Precedes(p, q)
    BY <1>1, <1>2 DEF SkipsOnlyAfterChange, Reading, HasBeenRead
  <2>1. ~Undisturbed(q)
    BY <1>6
  <2> QED BY <2>1 DEF Undisturbed
<1>9. ASSUME NEW i \in 1..Len(read'), NotPushedBack(read'[i]) PROVE Offset(read'[i]) < i
  <2>1. CASE i > L
    BY <1>1, <2>1
  <2>2. CASE i \in 1..L
    BY <1>1, <1>3, <1>9, <2>2 DEF IInv, ReadIsPassed
  <2> QED BY <1>1, <2>1, <2>2
<1>10. ReadIsPassed'
  BY <1>2, <1>9 DEF ReadIsPassed
<1>11. /\ \A i \in 1..Len(read') : read'[i] \in T \cup left
       /\ \A p, q \in (T \cup left) \ came : p.id = q.id => p = q
  <2>1. /\ \A i \in 1..L : read[i] \in T \cup left
        /\ \A p, q \in (T \cup left) \ came : p.id = q.id => p = q
    BY <1>3 DEF IInv, ReadWasListed
  <2> HIDE DEF T, L
  <2>2. ASSUME NEW i \in 1..Len(read') PROVE read'[i] \in T \cup left
    <3>1. CASE i > L
      BY <1>1, <3>1
    <3>2. CASE i \in 1..L
      BY <1>1, <2>1, <3>2
    <3> QED BY <1>1, <3>1, <3>2
  <2> QED BY <2>1, <2>2
<1>12. ReadWasListed'
  BY <1>1, <1>2, <1>11 DEF ReadWasListed
<1>13. ASSUME NEW i \in 1..Len(read'), NEW j \in 1..Len(read'), i < j,
              read'[i].id = read'[j].id
       PROVE  \E p \in came : p.id = read'[i].id \/ Precedes(p, read'[i])
  <2> DEFINE q == read'[j]
  <2>1. CASE j \in 1..L
    <3>1. i \in 1..L /\ read[i].id = read[j].id /\ read'[i] = read[i]
      BY <1>1, <1>13, <2>1
    <3> QED BY <1>3, <1>13, <2>1, <3>1 DEF IInv, NoneReadTwice
  <2>2. CASE j > L
    <3>1. q \in T /\ Offset(q) = j - 1
      BY <1>1, <2>2
    <3>2. CASE read'[i] # q
      <4>1. read'[i] \in came \/ q \in came
        BY <1>11, <1>13, <3>1, <3>2
      <4> QED BY <1>13, <4>1
    <3>3. CASE read'[i] = q /\ NotPushedBack(q)
      <4>1. Offset(q) < i
        BY <1>9, <3>3
      <4> QED BY <1>13, <3>1, <4>1
    <3>4. CASE read'[i] = q /\ ~NotPushedBack(q)
      BY <3>1, <3>4 DEF NotPushedBack
    <3> QED BY <3>2, <3>3, <3>4
  <2> QED BY <1>1, <2>1, <2>2
<1>14. NoneReadTwice' /\ TwiceOnlyAfterInsertion'
  BY <1>1, <1>2, <1>13 DEF NoneReadTwice, TwiceOnlyAfterInsertion
<1>15. QuietReadIsExact'
  <2> SUFFICES ASSUME left \cup came = {}
               PROVE  /\ \A i \in 1..Len(read') : read'[i] \in T /\ Offset(read'[i]) = i - 1
                      /\ pc' # "page"
                      /\ pc' = "completions" => Len(read') >= Cardinality(T)
    BY <1>1, <1>2 DEF QuietReadIsExact
  <2>1. /\ \A i \in 1..L : read[i] \in T /\ Offset(read[i]) = i - 1
        /\ total = Cardinality(T)
    BY <1>1, <1>3 DEF IInv, QuietReadIsExact
  <2>2. Cardinality(T) \in Nat
    BY AskIs DEF IInv
  <2> HIDE DEF T, L
  <2>3. \A i \in 1..Len(read') : read'[i] \in T /\ Offset(read'[i]) = i - 1
    BY <1>1, <2>1
  <2> QED BY <1>1, <2>1, <2>2, <2>3
<1>16. QuietPageIsExact' /\ pc' # "idle"
  BY <1>1 DEF QuietPageIsExact
<1> QED BY <1>7, <1>8, <1>10, <1>12, <1>14, <1>15, <1>16 DEF IInv

\* While today's list stays, the page shows the habits due as it did.
LEMMA ShownStays ==
  ASSUME TypeOK, TypeOK', ask' = ask, ask.status = "todays", Current' = Current
  PROVE  ShownAs(ask.sort)' = ShownAs(ask.sort)
<1> DEFINE sort == ask.sort
           S == Listed("todays")
<1>1. sort \in Sort /\ "todays" \in Status
  BY AskIs
<1>2. S \in SUBSET Habit /\ S' \in SUBSET Habit
  BY DEF TypeOK, Listed
<1>3. \A h : RowOf(sort, h) = [col |-> Column(sort, h), id |-> h]
  BY DEF RowOf
<1>4. \A h : RowOf(sort, h)' = [col |-> Column(sort, h)', id |-> h]
  BY DEF RowOf
<1>5. {RowOf(sort, h) : h \in S} = {RowOf(sort, h)' : h \in S'}
  BY DEF Current, Table
<1> HIDE DEF S, sort
<1>6. ASSUME NEW h \in S PROVE h \in S' /\ RowOf(sort, h)' = RowOf(sort, h)
  <2>1. PICK g \in S' : RowOf(sort, h) = RowOf(sort, g)'
    BY <1>5
  <2>2. g = h
    BY <1>3, <1>4, <2>1
  <2> QED BY <2>1, <2>2
<1>7. ASSUME NEW h \in S' PROVE h \in S
  <2>1. PICK g \in S : RowOf(sort, h)' = RowOf(sort, g)
    BY <1>5
  <2>2. g = h
    BY <1>3, <1>4, <2>1
  <2> QED BY <2>1, <2>2
<1>8. DueHabits = S \cap DueToday /\ DueHabits' = S' \cap DueToday
  BY DEF DueHabits, Listed, S
<1>9. DueHabits' = DueHabits
  BY <1>6, <1>7, <1>8
<1> DEFINE D == DueHabits
           shown == [h \in D |-> IF sort = "streak" THEN StreakRow(h) ELSE RowOf(sort, h)]
           next == [h \in D |-> IF sort = "streak" THEN StreakRow(h) ELSE RowOf(sort, h)']
<1>10. \A h \in D : RowOf(sort, h)' = RowOf(sort, h)
  BY <1>6, <1>8
<1>11. ShownAs(ask.sort) = shown
  BY DEF ShownAs, sort
<1>12. ShownAs(ask.sort)' = next
  BY <1>9 DEF ShownAs, StreakRow, sort
<1> HIDE DEF D
<1> QED BY <1>10, <1>11, <1>12

\* Another request: what is undisturbed or not pushed back after its write was so
\* before, at no smaller an offset.
LEMMA WroteKeeps ==
  ASSUME IInv, TypeOK', ask.status = "todays", Wrote
  PROVE  IInv'
<1> DEFINE T == Current
<1>1. /\ ask' = ask /\ pc' = pc /\ total' = total /\ read' = read /\ items' = items
      /\ left' = left \cup (T \ T')
      /\ came' = came \cup (T' \ T)
  BY WroteIs
<1>2. /\ Batches' <=> Batches
      /\ Reading' <=> Reading
      /\ \A q : HasBeenRead(q)' <=> HasBeenRead(q)
  BY <1>1 DEF Batches, Reading, HasBeenRead
<1>3. \A q : Undisturbed(q)' => q \in T /\ Undisturbed(q) /\ Offset(q)' = Offset(q)
  BY UndisturbedStays DEF Undisturbed
<1>4. \A q :
        NotPushedBack(q)' =>
          /\ NotPushedBack(q)
          /\ Offset(q) \in Nat /\ Offset(q)' \in Nat /\ Offset(q)' <= Offset(q)
  BY NotPushedBackStays DEF IInv
<1>5. PassedIsRead'
  <2> SUFFICES ASSUME Batches, NEW q \in T', Undisturbed(q)'
               PROVE  /\ Offset(q)' < Len(read) => HasBeenRead(q)
                      /\ pc = "page" => Offset(q)' < total
    BY <1>1, <1>2 DEF PassedIsRead, HasBeenRead
  <2>1. q \in T /\ Undisturbed(q) /\ Offset(q)' = Offset(q)
    BY <1>3
  <2> QED BY <2>1 DEF IInv, PassedIsRead, HasBeenRead
<1>6. SkipsOnlyAfterChange'
  <2> SUFFICES ASSUME Reading, NEW q \in T' \ came', ~HasBeenRead(q)
               PROVE  \E p \in left' \cup came' : Precedes(p, q)
    BY <1>2 DEF SkipsOnlyAfterChange, HasBeenRead
  <2>1. CASE Undisturbed(q)'
    <3>1. Undisturbed(q)
      BY <1>3, <2>1
    <3>2. q \in T \ came /\ \A p \in left \cup came : ~Precedes(p, q)
      BY <3>1 DEF Undisturbed
    <3>3. HasBeenRead(q)
      BY <3>2 DEF IInv, SkipsOnlyAfterChange, HasBeenRead
    <3> QED BY <3>3
  <2>2. CASE ~Undisturbed(q)'
    BY <2>2 DEF Undisturbed
  <2> QED BY <2>1, <2>2
<1>7. ReadIsPassed'
  <2> SUFFICES ASSUME Batches, NEW i \in 1..Len(read), NotPushedBack(read[i])'
               PROVE  Offset(read[i])' < i
    BY <1>1, <1>2 DEF ReadIsPassed
  <2> DEFINE q == read[i]
  <2>1. NotPushedBack(q)'
    BY <1>1
  <2>2. Offset(q)' = Offset(read[i])'
    BY <1>1
  <2>3. /\ NotPushedBack(q)
        /\ Offset(q) \in Nat /\ Offset(q)' \in Nat /\ Offset(q)' <= Offset(q)
    BY <1>1, <1>4, <2>1
  <2>4. Offset(q) < i
    BY <2>3 DEF IInv, ReadIsPassed
  <2>5. i \in Nat
    BY DEF IInv, TypeOK
  <2> QED BY <2>2, <2>3, <2>4, <2>5
<1>8. ReadWasListed'
  <2> SUFFICES ASSUME Batches
               PROVE  /\ \A i \in 1..Len(read) : read[i] \in T' \cup left'
                      /\ \A p, q \in (T' \cup left') \ came' : p.id = q.id => p = q
    BY <1>1, <1>2 DEF ReadWasListed
  <2>1. /\ \A i \in 1..Len(read) : read[i] \in T \cup left
        /\ \A p, q \in (T \cup left) \ came : p.id = q.id => p = q
    BY DEF IInv, ReadWasListed
  <2> HIDE DEF T
  <2>2. T \cup left \subseteq T' \cup left' /\ (T' \cup left') \ came' \subseteq (T \cup left) \ came
    BY <1>1
  <2> QED BY <2>1, <2>2
<1>9. NoneReadTwice' /\ TwiceOnlyAfterInsertion'
  BY <1>1, <1>2 DEF IInv, NoneReadTwice, TwiceOnlyAfterInsertion
<1>10. QuietReadIsExact'
  <2> SUFFICES ASSUME left' \cup came' = {}, Batches \/ Reading PROVE QuietReadIsExact'
    BY <1>2 DEF QuietReadIsExact
  <2>1. left \cup came = {} /\ T' = T /\ \A q : Offset(q)' = Offset(q)
    BY QuietStays
  <2> QED BY <1>1, <1>2, <2>1 DEF IInv, QuietReadIsExact
<1>11. QuietPageIsExact'
  <2> SUFFICES ASSUME left' \cup came' = {}, pc' = "answer"
               PROVE  PageIsExact(ShownAs(ask.sort)', ask.page, total, items)
    BY <1>1 DEF QuietPageIsExact
  <2>1. left \cup came = {} /\ T' = T
    BY QuietStays
  <2>2. PageIsExact(ShownAs(ask.sort), ask.page, total, items)
    BY <1>1, <2>1 DEF IInv, QuietPageIsExact
  <2>3. ShownAs(ask.sort)' = ShownAs(ask.sort)
    BY <1>1, <2>1, ShownStays DEF IInv
  <2> QED BY <2>2, <2>3
<1>12. pc' = "idle" => read' = <<>>
  BY <1>1 DEF IInv
<1> QED BY <1>5, <1>6, <1>7, <1>8, <1>9, <1>10, <1>11, <1>12 DEF IInv
-----------------------------------------------------------------------------
(* The page of a listing nobody wrote to.                                   *)

\* Division, by its quotient.
LEMMA QuotientIs ==
  ASSUME NEW n \in Nat, NEW q \in Nat, NEW d \in Nat \ {0}
  PROVE  n \div d = q <=> q * d <= n /\ n < q * d + d
<1>1. n = d * (n \div d) + (n % d) /\ (n % d) \in 0..(d - 1) /\ n \div d \in Nat
  OBVIOUS
<1> DEFINE x == n \div d
           r == n % d
<1>2. n = d * x + r /\ r \in Nat /\ r < d /\ x \in Nat
  BY <1>1
<1> HIDE DEF x, r
<1>3. CASE x = q
  BY <1>2, <1>3
<1>4. CASE x > q
  <2>1. PICK k \in Nat : x = q + 1 + k
    BY <1>2, <1>4
  <2>2. d * x = q * d + d + k * d
    BY <1>2, <2>1
  <2>3. k * d \in Nat
    OBVIOUS
  <2> QED BY <1>2, <2>2, <2>3
<1>5. CASE x < q
  <2>1. PICK k \in Nat : q = x + 1 + k
    BY <1>2, <1>5
  <2>2. q * d = d * x + d + k * d
    BY <1>2, <2>1
  <2>3. k * d \in Nat /\ d * x \in Nat
    BY <1>2
  <2> QED BY <1>2, <2>2, <2>3
<1> QED BY <1>2, <1>3, <1>4, <1>5 DEF x

\* Listed rows are in front of each other as their offsets are.
LEMMA OffsetOrders ==
  ASSUME TypeOK, NEW p \in Current, NEW q \in Current
  PROVE  /\ Offset(p) = Offset(q) => p = q
         /\ Precedes(p, q) <=> Offset(p) < Offset(q)
<1> DEFINE T == Current
           order == OrderOf(T)
<1>1. T \in SUBSET Row /\ IsFiniteSet(T)
  BY AskIs
<1>2. p \in T /\ q \in T /\ Offset(p) \in Nat /\ Offset(q) \in Nat
  BY OffsetType
<1> HIDE DEF T
<1>3. /\ StrictOrder(T, order)
      /\ \A f, k \in T : <<f, k>> \in order <=> Precedes(f, k)
  BY <1>1, PrecedesIsOrder
<1> HIDE DEF order
<1>4. ASSUME NEW k \in T PROVE Offset(k) = Cardinality(Below(T, order, k))
  <2>1. Below(T, order, k) = {f \in T : Precedes(f, k)}
    BY <1>3 DEF Below
  <2> QED BY <2>1 DEF Offset, T
<1>5. Offset(p) = Offset(q) => p = q
  BY <1>1, <1>2, <1>3, <1>4, OffsetIsOwn
<1>6. <<p, q>> \in order => Offset(p) < Offset(q)
  BY <1>1, <1>2, <1>3, <1>4, BelowGrows
<1>7. <<q, p>> \in order => Offset(q) < Offset(p)
  BY <1>1, <1>2, <1>3, <1>4, BelowGrows
<1>8. p = q \/ <<p, q>> \in order \/ <<q, p>> \in order
  BY <1>2, <1>3 DEF StrictOrder
<1> QED BY <1>2, <1>3, <1>5, <1>6, <1>7, <1>8

\* When nobody wrote, the loop has read every row of today's list once, in order.
LEMMA QuietReadIs ==
  ASSUME TypeOK, QuietReadIsExact, Reading, left \cup came = {}
  PROVE  /\ \A i \in 1..Len(read) : /\ read[i].id \in Listed("todays")
                                    /\ read[i] = RowOf(ask.sort, read[i].id)
         /\ \A h \in Listed("todays") : \E i \in 1..Len(read) : read[i].id = h
         /\ \A i, j \in 1..Len(read) : read[i].id = read[j].id => i = j
         /\ \A i, j \in 1..Len(read) : Precedes(read[i], read[j]) <=> i < j
<1> DEFINE T == Current
<1>1. /\ \A i \in 1..Len(read) : read[i] \in T /\ Offset(read[i]) = i - 1
      /\ Len(read) >= Cardinality(T)
  BY DEF QuietReadIsExact, Reading
<1>2. Len(read) \in Nat /\ Cardinality(T) \in Nat
  BY AskIs DEF TypeOK
<1>3. /\ \A p, q \in T : p.id = q.id => p = q
      /\ \A q \in T : q.id \in Listed("todays") /\ q = RowOf(ask.sort, q.id)
      /\ \A h \in Listed("todays") : RowOf(ask.sort, h) \in T /\ RowOf(ask.sort, h).id = h
  BY AskIs, TableIs DEF Current, RowOf
<1>4. ASSUME NEW q \in T PROVE \E i \in 1..Len(read) : read[i] = q
  <2> DEFINE i == Offset(q) + 1
  <2>1. Offset(q) \in Nat /\ Offset(q) < Cardinality(T)
    BY OffsetType
  <2>2. i \in 1..Len(read)
    BY <1>1, <1>2, <2>1
  <2>3. read[i] \in T /\ Offset(read[i]) = Offset(q)
    BY <1>1, <2>1, <2>2
  <2>4. read[i] = q
    BY <2>3, OffsetOrders
  <2> QED BY <2>2, <2>4
<1>5. ASSUME NEW i \in 1..Len(read), NEW j \in 1..Len(read)
      PROVE  /\ read[i] = read[j] => i = j
             /\ Precedes(read[i], read[j]) <=> i < j
  <2>1. Precedes(read[i], read[j]) <=> Offset(read[i]) < Offset(read[j])
    BY <1>1, OffsetOrders
  <2> QED BY <1>1, <1>2, <2>1
<1> HIDE DEF T
<1>6. \A i \in 1..Len(read) : /\ read[i].id \in Listed("todays")
                              /\ read[i] = RowOf(ask.sort, read[i].id)
  BY <1>1, <1>3
<1>7. \A h \in Listed("todays") : \E i \in 1..Len(read) : read[i].id = h
  BY <1>3, <1>4
<1>8. \A i, j \in 1..Len(read) : read[i].id = read[j].id => i = j
  BY <1>1, <1>3, <1>5
<1> QED BY <1>5, <1>6, <1>7, <1>8

\* Then the two sorts agree: Python's order of the places is that of the rows shown.
LEMMA SortsAgree ==
  ASSUME TypeOK, QuietReadIsExact, Reading, left \cup came = {},
         NEW i \in 1..Len(read), NEW j \in 1..Len(read),
         read[i].id \in DueHabits, read[j].id \in DueHabits
  PROVE  LET shown == ShownAs(ask.sort)
         IN Before(read, j, i) <=> Precedes(shown[read[j].id], shown[read[i].id])
<1> DEFINE shown == ShownAs(ask.sort)
<1>1. /\ read[i].id = read[j].id => i = j
      /\ Precedes(read[j], read[i]) <=> j < i
      /\ read[i] = RowOf(ask.sort, read[i].id) /\ read[j] = RowOf(ask.sort, read[j].id)
  BY QuietReadIs
<1>2. i \in Nat /\ j \in Nat /\ read[i].id \in Habit
  <2>1. Len(read) \in Nat
    BY DEF TypeOK
  <2>2. DueHabits \subseteq Habit
    BY ListingsAssumption DEF ListingsAssumption, DueHabits
  <2> QED BY <2>1, <2>2
<1>3. \A h \in DueHabits :
        shown[h] = IF ask.sort = "streak" THEN StreakRow(h) ELSE RowOf(ask.sort, h)
  BY DEF ShownAs
<1> HIDE DEF shown
<1>4. CASE ask.sort # "streak"
  <2>1. shown[read[i].id] = read[i] /\ shown[read[j].id] = read[j]
    BY <1>1, <1>3, <1>4
  <2> QED BY <1>1, <1>4, <2>1 DEF Before, shown
<1>5. CASE ask.sort = "streak" /\ read[j].id # read[i].id
  <2>1. /\ shown[read[i].id] = StreakRow(read[i].id)
        /\ shown[read[j].id] = StreakRow(read[j].id)
    BY <1>3, <1>5
  <2> QED BY <1>5, <2>1 DEF Before, shown
<1>6. CASE ask.sort = "streak" /\ read[j].id = read[i].id
  <2>1. i = j
    BY <1>1, <1>6
  <2>2. shown[read[i].id] = StreakRow(read[i].id)
    BY <1>3, <1>6
  <2>3. ~Precedes(StreakRow(read[i].id), StreakRow(read[i].id))
    <3>1. read[i].id \in Nat /\ Streak[read[i].id] \in Nat
      BY <1>2, ListingsAssumption DEF ListingsAssumption
    <3> QED BY <3>1 DEF Precedes, StreakRow
  <2>4. ~Before(read, j, i)
    BY <1>2, <1>6, <2>1 DEF Before
  <2> QED BY <1>6, <2>2, <2>3, <2>4 DEF shown
<1> QED BY <1>4, <1>5, <1>6

\* The places of what is due are as many as the habits due, and one of them comes
\* after as many others as its habit.
LEMMA DuePlacesAre ==
  ASSUME TypeOK, QuietReadIsExact, Reading, left \cup came = {}
  PROVE  LET K == DuePlaces(read)
         IN /\ Cardinality(K) = Cardinality(DueHabits)
            /\ \A h \in DueHabits : \E i \in K : read[i].id = h
            /\ \A i \in K :
                 /\ read[i].id \in DueHabits
                 /\ Cardinality(Below(K, BeforeOf(read, K), i))
                      = PlaceIn(ShownAs(ask.sort), read[i].id)
<1> DEFINE K == DuePlaces(read)
           P == BeforeOf(read, K)
           T == Listed("todays")
           D == DueHabits
           shown == ShownAs(ask.sort)
<1>1. /\ \A i \in 1..Len(read) : read[i].id \in T
      /\ \A h \in T : \E i \in 1..Len(read) : read[i].id = h
      /\ \A i, j \in 1..Len(read) : read[i].id = read[j].id => i = j
  BY QuietReadIs
<1>2. D = T \cap DueToday /\ T \cap done = {}
  BY DEF DueHabits, Listed
<1>3. K \in SUBSET (1..Len(read)) /\ K = {i \in 1..Len(read) : read[i].id \in DueToday \ done}
  BY DEF DuePlaces
<1>4. read \in Seq(Row) /\ DOMAIN shown = D
  BY DEF TypeOK, ShownAs
<1> HIDE DEF T, K
<1>5. \A i \in K : read[i].id \in D
  BY <1>1, <1>2, <1>3
<1>6. \A j \in K : \A i \in K :
        Before(read, j, i) <=> Precedes(shown[read[j].id], shown[read[i].id])
  BY <1>3, <1>5, SortsAgree
<1> HIDE DEF D, shown
<1>7. \A h \in D : \E i \in K : read[i].id = h
  BY <1>1, <1>2, <1>3
<1>8. IsFiniteSet(K)
  BY <1>3, <1>4, ItemsSorted
<1>9. Cardinality(K) = Cardinality(D)
  <2> DEFINE f == [i \in K |-> read[i].id]
  <2>1. f \in Bijection(K, D)
    BY <1>1, <1>3, <1>5, <1>7 DEF Bijection, Injection, Surjection, IsInjective
  <2> HIDE DEF f
  <2> QED BY <1>8, <2>1, FS_Bijection DEF ExistsBijection
<1>10. ASSUME NEW i \in K
       PROVE  Cardinality(Below(K, P, i)) = PlaceIn(shown, read[i].id)
  <2> DEFINE A == Below(K, P, i)
             B == {g \in D : Precedes(shown[g], shown[read[i].id])}
             f == [j \in A |-> read[j].id]
  <2>1. \A j \in K : j \in A <=> Before(read, j, i)
    BY <1>3, <1>4, BeforeIsOrder DEF Below
  <2>2. A \in SUBSET K
    BY DEF Below
  <2> HIDE DEF A
  <2>3. \A j \in A : f[j] \in B
    BY <1>5, <1>6, <2>1, <2>2
  <2>4. \A h \in B : \E j \in A : f[j] = h
    BY <1>6, <1>7, <2>1
  <2>5. \A j, k \in A : f[j] = f[k] => j = k
    BY <1>1, <1>3, <2>2
  <2> HIDE DEF B
  <2>6. f \in [A -> B]
    BY <2>3
  <2> HIDE DEF f
  <2>7. f \in Bijection(A, B)
    BY <2>4, <2>5, <2>6 DEF Bijection, Injection, Surjection, IsInjective
  <2>8. IsFiniteSet(A)
    BY <1>8, <2>2, FS_Subset
  <2>9. Cardinality(A) = Cardinality(B)
    BY <2>7, <2>8, FS_Bijection DEF ExistsBijection
  <2> QED BY <1>4, <2>9 DEF A, B, PlaceIn
<1> QED BY <1>5, <1>7, <1>9, <1>10 DEF K, D, shown

\* What Build makes of it is the page of the habits due.
LEMMA BuildIsExact ==
  ASSUME TypeOK, QuietReadIsExact, Reading, left \cup came = {},
         NEW number, NEW page,
         page = Window(Items(read, DuePlaces(read)), Skip, PerPage),
         number = Len(Items(read, DuePlaces(read)))
  PROVE  PageIsExact(ShownAs(ask.sort), ask.page, number, page)
<1> DEFINE K == DuePlaces(read)
           P == BeforeOf(read, K)
           I == Items(read, K)
           D == DueHabits
           Place(h) == PlaceIn(ShownAs(ask.sort), h)
<1>1. /\ Cardinality(K) = Cardinality(D)
      /\ \A h \in D : \E i \in K : read[i].id = h
      /\ \A i \in K : read[i].id \in D /\ Cardinality(Below(K, P, i)) = Place(read[i].id)
  BY DuePlacesAre
<1>2. read \in Seq(Row) /\ K \in SUBSET (1..Len(read))
  BY DuePlacesType DEF TypeOK
<1> HIDE DEF K
<1>3. /\ I \in Seq(Habit) /\ Len(I) = Cardinality(K) /\ Cardinality(K) \in Nat
      /\ \A n \in 1..Cardinality(K) :
           \E i \in K : Cardinality(Below(K, P, i)) = n - 1 /\ I[n] = read[i].id
      /\ \A i \in K :
           /\ Cardinality(Below(K, P, i)) + 1 \in 1..Cardinality(K)
           /\ I[Cardinality(Below(K, P, i)) + 1] = read[i].id
  BY <1>2, ItemsSorted
<1>4. page = Window(I, Skip, PerPage) /\ number = Len(I)
  BY DEF K
<1> HIDE DEF I, P, D, Place
<1>5. \A n \in 1..Len(I) : I[n] \in D /\ Place(I[n]) = n - 1
  BY <1>1, <1>3
<1>6. ASSUME NEW h \in D
      PROVE  Place(h) + 1 \in 1..Len(I) /\ I[Place(h) + 1] = h /\ Place(h) \in Nat
  <2>1. PICK i \in K : read[i].id = h
    BY <1>1
  <2>2. Place(h) + 1 \in 1..Len(I) /\ I[Place(h) + 1] = h
    BY <1>1, <1>3, <2>1
  <2>3. PICK n \in 1..Len(I) : n = Place(h) + 1
    BY <2>2
  <2>4. I[n] = h
    BY <2>2, <2>3
  <2>5. Place(h) = n - 1
    BY <1>5, <2>4
  <2> QED BY <1>3, <2>2, <2>5
<1> DEFINE w == Window(I, Skip, PerPage)
<1>7. Skip \in Nat /\ PerPage \in Nat \ {0}
  BY SkipType, ListingsAssumption DEF ListingsAssumption
<1>8. /\ w \in Seq(Habit)
      /\ \A i \in 1..Len(w) :
           /\ Skip + i \in 1..Len(I) /\ i <= PerPage
           /\ w[i] = I[Skip + i]
      /\ \A k \in 1..Len(I) : Skip < k /\ k <= Skip + PerPage => k - Skip \in 1..Len(w)
  BY <1>3, <1>7, WindowIs
<1> HIDE DEF w
<1>9. ask.page - 1 \in Nat
  BY AskIs
<1>10. Skip = (ask.page - 1) * PerPage
  BY DEF Skip
<1> DEFINE skip == Skip
           q == ask.page - 1
<1>11. \A i \in 1..Len(w) : Place(w[i]) = (skip + i) - 1 /\ w[i] \in D
  BY <1>5, <1>8
<1>12. ASSUME NEW h \in D
       PROVE  Place(h) \div PerPage = q <=> skip <= Place(h) /\ Place(h) < skip + PerPage
  <2>1. Place(h) \in Nat
    BY <1>6
  <2> DEFINE n == Place(h)
  <2> HIDE DEF n, q
  <2>2. n \div PerPage = q <=> q * PerPage <= n /\ n < q * PerPage + PerPage
    BY <1>7, <1>9, <2>1, QuotientIs DEF n, q
  <2> QED BY <1>10, <2>2 DEF n, q
<1> HIDE DEF skip
<1>13. skip = Skip
  BY DEF skip
<1> HIDE DEF q
<1>14. {w[i] : i \in 1..Len(w)} = {h \in D : Place(h) \div PerPage = q}
  <2>1. ASSUME NEW i \in 1..Len(w) PROVE w[i] \in D /\ Place(w[i]) \div PerPage = q
    <3>1. w[i] \in D /\ Place(w[i]) = (skip + i) - 1 /\ i <= PerPage
      BY <1>8, <1>11
    <3>2. i \in Nat /\ i >= 1
      BY <1>8
    <3>3. skip <= Place(w[i]) /\ Place(w[i]) < skip + PerPage
      BY <1>7, <1>13, <3>1, <3>2
    <3> QED BY <1>12, <3>1, <3>3
  <2>2. ASSUME NEW h \in D, Place(h) \div PerPage = q PROVE \E i \in 1..Len(w) : w[i] = h
    <3> DEFINE k == Place(h) + 1
    <3>1. k \in 1..Len(I) /\ I[k] = h /\ Place(h) \in Nat
      BY <1>6
    <3>2. skip <= Place(h) /\ Place(h) < skip + PerPage
      BY <1>12, <2>2
    <3>3. Skip < k /\ k <= Skip + PerPage /\ Skip + (k - Skip) = k
      BY <1>7, <1>13, <3>1, <3>2
    <3> HIDE DEF k
    <3>4. k - Skip \in 1..Len(w)
      BY <1>8, <3>1, <3>3
    <3>5. w[k - Skip] = h
      BY <1>8, <3>1, <3>3, <3>4
    <3> QED BY <3>4, <3>5
  <2> QED BY <2>1, <2>2
<1>15. number = Cardinality(D)
  BY <1>1, <1>3, <1>4
<1>16. page = w
  BY <1>4 DEF w
<1>17. \A i \in 1..Len(w) : Place(w[i]) = (ask.page - 1) * PerPage + i - 1
  <2> DEFINE first == (ask.page - 1) * PerPage
  <2> SUFFICES ASSUME NEW i \in 1..Len(w) PROVE Place(w[i]) = first + i - 1
    OBVIOUS
  <2>1. first = skip /\ skip \in Nat
    BY <1>7, <1>10, <1>13
  <2>2. Place(w[i]) = (skip + i) - 1 /\ i \in Nat
    BY <1>8, <1>11
  <2> HIDE DEF first
  <2> QED BY <2>1, <2>2
<1>18. DOMAIN ShownAs(ask.sort) = D
  BY DEF ShownAs, D
<1> QED BY <1>14, <1>15, <1>16, <1>17, <1>18 DEF PageIsExact, Place, q

\* The last step of a listing.
LEMMA BuildKeeps ==
  ASSUME IInv, TypeOK', UNCHANGED table, Build
  PROVE  IInv'
<1>1. /\ pc = "completions" /\ pc' = "answer"
      /\ UNCHANGED <<table, ask, left, came>>
      /\ ask.status = "todays" =>
           /\ items' = Window(Items(read, DuePlaces(read)), Skip, PerPage)
           /\ total' = Len(Items(read, DuePlaces(read)))
  BY DEF Build
<1>2. ~Batches' /\ ~Reading' /\ pc' # "idle"
  BY <1>1 DEF Batches, Reading
<1>3. /\ PassedIsRead' /\ ReadIsPassed' /\ ReadWasListed' /\ NoneReadTwice'
      /\ QuietReadIsExact'
      /\ SkipsOnlyAfterChange' /\ TwiceOnlyAfterInsertion'
  BY <1>2 DEF PassedIsRead, ReadIsPassed, ReadWasListed, NoneReadTwice, QuietReadIsExact,
              SkipsOnlyAfterChange, TwiceOnlyAfterInsertion
<1>4. QuietPageIsExact'
  <2> SUFFICES ASSUME ask.status = "todays", left \cup came = {}
               PROVE  PageIsExact(ShownAs(ask.sort)', ask.page, total', items')
    BY <1>1 DEF QuietPageIsExact
  <2>1. PageIsExact(ShownAs(ask.sort), ask.page, total', items')
    BY <1>1, BuildIsExact DEF IInv, Reading
  <2>2. ShownAs(ask.sort)' = ShownAs(ask.sort)
    BY <1>1, OffsetsStay, ShownStays DEF IInv
  <2> QED BY <2>1, <2>2
<1> QED BY <1>2, <1>3, <1>4 DEF IInv

\* When no batches of today's list are under way the invariant says little.
LEMMA IdleKeeps ==
  ASSUME TypeOK', pc' = "idle" => read' = <<>>, ~Batches', ~Reading',
         ask'.status # "todays" \/ pc' # "answer"
  PROVE  IInv'
BY DEF IInv, PassedIsRead, ReadIsPassed, NoneReadTwice, QuietReadIsExact,
       ReadWasListed, SkipsOnlyAfterChange, TwiceOnlyAfterInsertion, QuietPageIsExact

\* A listing begins with no rows.
LEMMA AskKeeps ==
  ASSUME IInv, TypeOK', Ask
  PROVE  IInv'
<1>1. /\ pc = "idle" /\ pc' = "count" /\ read' = <<>>
      /\ left' = {} /\ came' = {} /\ UNCHANGED table
  BY DEF Ask, IInv
<1>2. ~Reading' /\ pc' # "idle" /\ pc' # "page" /\ pc' # "answer" /\ pc' # "completions"
  BY <1>1 DEF Reading
<1>3. Len(read') = 0
  BY <1>1
<1>4. PassedIsRead'
  <2> SUFFICES ASSUME NEW q \in Current', Undisturbed(q)' PROVE ~(Offset(q)' < 0)
    BY <1>2, <1>3 DEF PassedIsRead
  <2>1. Offset(q)' \in Nat
    <3> DEFINE T == Current
               A == {p \in T' : Precedes(p, q)}
    <3>1. Offset(q)' = Cardinality(A)
      BY DEF Offset
    <3>2. IsFiniteSet(T')
      <4>1. IsFiniteSet(Habit)
        BY ListingsAssumption DEF ListingsAssumption
      <4>2. Listed("todays")' \in SUBSET Habit
        BY DEF TypeOK, Listed
      <4>3. IsFiniteSet(Listed("todays")')
        BY <4>1, <4>2, FS_Subset
      <4> DEFINE S == Listed("todays")'
                 f == [h \in S |-> RowOf(ask.sort, h)']
      <4>4. T' = {RowOf(ask.sort, h)' : h \in S}
        BY DEF Current, Table
      <4> HIDE DEF S, T
      <4>5. f \in Surjection(S, T')
        BY <4>4 DEF Surjection
      <4> HIDE DEF f
      <4> QED BY <4>3, <4>5, FS_Surjection DEF S
    <3> HIDE DEF T
    <3>3. A \in SUBSET T'
      OBVIOUS
    <3> HIDE DEF A
    <3>4. IsFiniteSet(A)
      BY <3>2, <3>3, FS_Subset
    <3> QED BY <3>1, <3>4, FS_CardinalityType
  <2> QED BY <2>1
<1>5. ReadIsPassed' /\ NoneReadTwice'
  BY <1>3 DEF ReadIsPassed, NoneReadTwice
<1>6. ReadWasListed'
  <2> SUFFICES ASSUME NEW p \in Current', NEW q \in Current', p.id = q.id PROVE p = q
    BY <1>1, <1>3 DEF ReadWasListed
  <2>1. PICK g \in Listed("todays")' : p = RowOf(ask.sort, g)'
    BY DEF Current, Table
  <2>2. PICK h \in Listed("todays")' : q = RowOf(ask.sort, h)'
    BY DEF Current, Table
  <2>3. p.id = g /\ q.id = h
    BY <2>1, <2>2 DEF RowOf
  <2> QED BY <2>1, <2>2, <2>3
<1>7. QuietReadIsExact'
  BY <1>2, <1>3 DEF QuietReadIsExact
<1>8. SkipsOnlyAfterChange' /\ TwiceOnlyAfterInsertion' /\ QuietPageIsExact'
  BY <1>2 DEF SkipsOnlyAfterChange, TwiceOnlyAfterInsertion, QuietPageIsExact
<1> QED BY <1>2, <1>4, <1>5, <1>6, <1>7, <1>8 DEF IInv

\* In the beginning no listing is under way.
LEMMA InvInit == Init => IInv
<1> SUFFICES ASSUME Init PROVE IInv
  OBVIOUS
<1>1. TypeOK
  BY TypeInit
<1>2. pc = "idle" /\ read = <<>>
  BY DEF Init
<1> QED BY <1>1, <1>2 DEF IInv, Batches, Reading, PassedIsRead, ReadIsPassed,
      ReadWasListed, NoneReadTwice, QuietReadIsExact, SkipsOnlyAfterChange,
      TwiceOnlyAfterInsertion, QuietPageIsExact

\* Every statement of a listing and every write keeps the invariant.
LEMMA InvStep == IInv /\ [Next]_vars => IInv'
<1> SUFFICES ASSUME IInv, [Next]_vars PROVE IInv'
  OBVIOUS
<1>1. TypeOK'
  BY TypeStep DEF IInv
<1>2. CASE Ask
  BY <1>1, <1>2, AskKeeps
<1>3. CASE UNCHANGED table /\ Count
  BY <1>1, <1>3, CountKeeps
<1>4. CASE UNCHANGED table /\ ReadBatch
  BY <1>1, <1>4, ReadBatchKeeps
<1>5. CASE UNCHANGED table /\ ReadPage
  <2>1. pc' = "completions" /\ ask'.status # "todays"
    BY <1>5 DEF ReadPage
  <2> QED BY <1>1, <2>1, IdleKeeps DEF Batches, Reading
<1>6. CASE UNCHANGED table /\ Build
  BY <1>1, <1>6, BuildKeeps
<1>7. CASE UNCHANGED table /\ Answer
  <2>1. pc' = "idle" /\ read' = <<>>
    BY <1>7 DEF Answer
  <2> QED BY <1>1, <2>1, IdleKeeps DEF Batches, Reading
<1>8. ASSUME NEW h \in Habit, Written(h), Wrote PROVE IInv'
  <2>1. CASE ask.status = "todays"
    BY <1>1, <1>8, <2>1, WroteKeeps
  <2>2. CASE ask.status # "todays"
    <3>1. ask' = ask /\ pc' = pc /\ read' = read
      BY <1>8 DEF Wrote, listing
    <3> QED BY <1>1, <2>2, <3>1, IdleKeeps DEF Batches, Reading, IInv
  <2> QED BY <2>1, <2>2
<1>9. CASE UNCHANGED vars
  <2>1. UNCHANGED <<table, ask, left, came>> /\ UNCHANGED <<pc, total, read, items>>
    BY <1>9 DEF vars, listing
  <2>2. /\ Current' = Current
        /\ \A q : Offset(q)' = Offset(q)
        /\ \A q : Undisturbed(q)' <=> Undisturbed(q)
        /\ \A q : NotPushedBack(q)' <=> NotPushedBack(q)
    BY <2>1, OffsetsStay
  <2>3. (Batches' <=> Batches) /\ (Reading' <=> Reading)
    BY <2>1 DEF Batches, Reading
  <2>4. PassedIsRead' /\ ReadIsPassed' /\ ReadWasListed'
    BY <2>1, <2>2, <2>3 DEF IInv, PassedIsRead, ReadIsPassed, ReadWasListed
  <2>5. NoneReadTwice' /\ QuietReadIsExact'
    BY <2>1, <2>2, <2>3 DEF IInv, NoneReadTwice, QuietReadIsExact
  <2>6. SkipsOnlyAfterChange' /\ TwiceOnlyAfterInsertion'
    BY <2>1, <2>2, <2>3 DEF IInv, SkipsOnlyAfterChange, TwiceOnlyAfterInsertion
  <2>7. QuietPageIsExact'
    <3> SUFFICES ASSUME pc = "answer", ask.status = "todays", left \cup came = {}
                 PROVE  PageIsExact(ShownAs(ask.sort)', ask.page, total, items)
      BY <2>1 DEF QuietPageIsExact
    <3>1. PageIsExact(ShownAs(ask.sort), ask.page, total, items)
      BY DEF IInv, QuietPageIsExact
    <3>2. ShownAs(ask.sort)' = ShownAs(ask.sort)
      BY <1>1, <2>1, <2>2, ShownStays DEF IInv
    <3> QED BY <3>1, <3>2
  <2> QED BY <1>1, <2>1, <2>4, <2>5, <2>6, <2>7 DEF IInv
<1> QED BY <1>2, <1>3, <1>4, <1>5, <1>6, <1>7, <1>8, <1>9 DEF Next, List

\* While batches are read, an undisturbed row that has been passed has been read, a
\* row that has been read is passed unless pushed back, a habit has one place unless it
\* has moved, and without writes the rows read are the first of the list.
THEOREM Invariant == Spec => []IInv
BY InvInit, InvStep, PTL DEF Spec

-----------------------------------------------------------------------------
(* What follows from it.                                                    *)

\* The loop over batches skips a row that stays where it is all the time only when a
\* row in front of it has left or entered, be it by an edit that moved it within the
\* list (_list_habits_for_due_today_filter, update_habit).
THEOREM SkipsAreExplained == Spec => []SkipsOnlyAfterChange
<1>1. IInv => SkipsOnlyAfterChange
  BY DEF IInv
<1> QED BY <1>1, Invariant, PTL

\* It reads a habit twice only when that habit has entered the list or moved within it,
\* or another has entered or moved in front of it.
THEOREM RepeatsAreExplained == Spec => []TwiceOnlyAfterInsertion
<1>1. IInv => TwiceOnlyAfterInsertion
  BY DEF IInv
<1> QED BY <1>1, Invariant, PTL

\* When nobody writes, a page of today's habits holds exactly the habits due whose
\* places it covers, in order, and the total is their number (list_habits).
THEOREM QuietPagesAreExact == Spec => []QuietPageIsExact
<1>1. IInv => QuietPageIsExact
  BY DEF IInv
<1> QED BY <1>1, Invariant, PTL
\* Why the loop over batches ends: each round but the last reads at least one row
\* (_list_habits_for_due_today_filter), ...
THEOREM RoundsAdvance == Spec => [][ReadBatch /\ pc' = "count" => Len(read') > Len(read)]_vars
<1>1. TypeOK /\ [Next]_vars => [ReadBatch /\ pc' = "count" => Len(read') > Len(read)]_vars
  <2> SUFFICES ASSUME TypeOK, Next, ReadBatch, pc' = "count" PROVE Len(read') > Len(read)
    OBVIOUS
  <2>1. pc = "page" /\ ask.status = "todays" /\ UNCHANGED ask
    BY DEF ReadBatch, ReadBatchFrom
  <2>2. UNCHANGED table
    BY <2>1 DEF Next, List, Ask, Wrote, listing
  <2> QED BY <2>2, BatchIs
<1> QED BY <1>1, TypeCorrect, PTL DEF Spec

\* ... and never more rows than there are ids, whatever is created, deleted and
\* counted meanwhile.
THEOREM RowsAreBounded ==
  Spec => [](ask.status = "todays" => Len(read) <= Cardinality(Habit))
<1> DEFINE Bounded == ask.status = "todays" => Len(read) <= Cardinality(Habit)
<1>1. IsFiniteSet(Habit) /\ Cardinality(Habit) \in Nat
  BY ListingsAssumption, FS_CardinalityType DEF ListingsAssumption
<1>2. Init => Bounded
  BY DEF Init, NoAsk
<1>3. IInv /\ Bounded /\ [Next]_vars => Bounded'
  <2> SUFFICES ASSUME IInv, Bounded, [Next]_vars, ask'.status = "todays"
               PROVE  Len(read') <= Cardinality(Habit)
    OBVIOUS
  <2>1. CASE read' = <<>>
    BY <1>1, <2>1
  <2>2. CASE read' = read /\ ask' = ask
    BY <2>2
  <2>3. CASE UNCHANGED table /\ ReadBatch
    <3> DEFINE T == Listed("todays")
    <3>1. Len(read') = Len(read) \/ Len(read') <= Cardinality(Current)
      BY <2>3, BatchIs DEF IInv
    <3>2. ask.status = "todays" /\ Len(read) \in Nat /\ Len(read') \in Nat
      BY <2>3, BatchIs DEF IInv
    <3>3. "todays" \in Status /\ ask.sort \in Sort
      BY AskIs DEF IInv
    <3>4. T \in SUBSET Habit /\ Cardinality(T) \in Nat /\ Cardinality(Current) = Cardinality(T)
      BY <3>3, ListedIsFinite, TableIs DEF IInv, Current
    <3> HIDE DEF T
    <3>5. Cardinality(T) <= Cardinality(Habit)
      BY <1>1, <3>4, FS_Subset
    <3> QED BY <1>1, <3>1, <3>2, <3>4, <3>5
  <2>4. CASE UNCHANGED table /\ ReadPage
    BY <2>4 DEF ReadPage
  <2>5. CASE Ask
    BY <2>1, <2>5 DEF Ask, IInv
  <2>6. CASE UNCHANGED table /\ (Count \/ Build \/ Answer)
    BY <2>1, <2>2, <2>6 DEF Count, Build, Answer
  <2>7. CASE \E h \in Habit : Written(h) /\ Wrote
    BY <2>2, <2>7 DEF Wrote, listing
  <2>8. CASE UNCHANGED vars
    BY <2>2, <2>8 DEF vars, listing
  <2> QED BY <2>3, <2>4, <2>5, <2>6, <2>7, <2>8 DEF Next, List
<1> HIDE DEF Bounded
<1>4. Spec => []Bounded
  BY <1>2, <1>3, Invariant, PTL DEF Spec
<1> QED BY <1>4 DEF Bounded

=============================================================================
