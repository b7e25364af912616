------------------------- MODULE HabitScheduleProofs -------------------------
(***************************************************************************)
(* Proofs about the operators of HabitSchedule, for every habit, history   *)
(* and day: that all loops over dates agree with OccursOn.  Days are any   *)
(* integers; Python's dates are those of the years 1 to 9999.              *)
(***************************************************************************)
EXTENDS HabitSchedule, FiniteSetTheorems, FunctionTheorems, TLAPS

-----------------------------------------------------------------------------
(* Induction.                                                              *)

\* A set of natural numbers has a least element: how everything below is proved
\* for all days, by its least counterexample.
LEMMA NatLeast ==
  ASSUME NEW T \in SUBSET Nat, T # {}
  PROVE  \E n \in T : \A m \in T : n <= m
<1> DEFINE F == {0..(n - 1) : n \in T}
<1>1. F \subseteq FiniteSubsetsOf(Nat)
  <2> SUFFICES ASSUME NEW n \in T PROVE 0..(n-1) \in FiniteSubsetsOf(Nat)
    OBVIOUS
  <2>1. IsFiniteSet(0..(n-1))
    BY FS_Interval
  <2>2. 0..(n-1) \subseteq Nat
    OBVIOUS
  <2> QED BY <2>1, <2>2 DEF FiniteSubsetsOf
<1>2. F # {}
  OBVIOUS
<1>3. PICK x \in F : \A y \in F : ~(<<y, x>> \in StrictSubsetOrdering(Nat))
  <2> HIDE DEF F
  <2> QED BY <1>1, <1>2, FS_StrictSubsetOrderingWellFounded, WFMin
<1>4. PICK n \in T : x = 0..(n - 1)
  BY <1>3
<1>5. ASSUME NEW m \in T, m < n PROVE FALSE
  <2>1. 0..(m-1) \in F
    OBVIOUS
  <2>2. 0..(m-1) \subseteq 0..(n-1) /\ 0..(m-1) # 0..(n-1)
    <3>1. m \in 0..(n-1) /\ m \notin 0..(m-1)
      BY <1>5
    <3>2. 0..(m-1) \subseteq 0..(n-1)
      BY <1>5
    <3> QED BY <3>1, <3>2
  <2>3. <<0..(m-1), 0..(n-1)>> \in StrictSubsetOrdering(Nat)
    BY <2>2 DEF StrictSubsetOrdering
  <2> QED BY <2>1, <2>3, <1>3, <1>4
<1> QED BY <1>5

-----------------------------------------------------------------------------
(* Years and months.                                                        *)

\* The days before a year are a whole number.
LEMMA YearStarts ==
  ASSUME NEW y \in Int
  PROVE  DaysBeforeYear(y) \in Int
BY DEF DaysBeforeYear

\* A year has 365 days, or 366 when it is a leap year.
LEMMA YearGrows ==
  ASSUME NEW y \in Int
  PROVE  DaysBeforeYear(y + 1) = DaysBeforeYear(y) + 365 + (IF IsLeap(y) THEN 1 ELSE 0)
BY DEF DaysBeforeYear, IsLeap

\* Later years start later.
LEMMA YearsMonotonic ==
  ASSUME NEW y \in Int, NEW z \in Int, y <= z
  PROVE  DaysBeforeYear(y) + 365 * (z - y) <= DaysBeforeYear(z)
BY DEF DaysBeforeYear

\* The year of a day is found among the three that YearOf looks at.
LEMMA YearFound ==
  ASSUME NEW n \in Int
  PROVE  LET least == (400 * n) \div 146097
         IN DaysBeforeYear(least) < n /\ n <= DaysBeforeYear(least + 3)
BY DEF DaysBeforeYear

\* The month table, read entry by entry.
LEMMA MonthTable ==
  ASSUME NEW y \in Int, NEW m \in 1..12
  PROVE  /\ DaysBeforeMonth(y, m) \in Int
         /\ m = 1 => DaysBeforeMonth(y, m) = 0
         /\ m < 12 => DaysBeforeMonth(y, m + 1) = DaysBeforeMonth(y, m) + MonthLength(y, m)
         /\ m = 12 => DaysBeforeMonth(y, m) + MonthLength(y, m) = 365 + (IF IsLeap(y) THEN 1 ELSE 0)
BY DEF DaysBeforeMonth, MonthLength

\* A month starts where the one before it ends.
LEMMA MonthsInOrder ==
  ASSUME NEW y \in Int, NEW m \in 1..12, NEW k \in 1..12, m < k
  PROVE  DaysBeforeMonth(y, m) + MonthLength(y, m) <= DaysBeforeMonth(y, k)
BY DEF DaysBeforeMonth, MonthLength

\* No month is shorter than 28 days or longer than 31.
LEMMA MonthLengths ==
  ASSUME NEW y, NEW m
  PROVE  MonthLength(y, m) \in 28..31
BY DEF MonthLength

\* YearOf is the year the day lies in.
LEMMA YearOfDay ==
  ASSUME NEW n \in Int
  PROVE  /\ YearOf(n) \in Int
         /\ DaysBeforeYear(YearOf(n)) < n
         /\ n <= DaysBeforeYear(YearOf(n) + 1)
<1> DEFINE least == (400 * n) \div 146097
           In(y) == DaysBeforeYear(y) < n /\ n <= DaysBeforeYear(y + 1)
<1>1. least \in Int
  OBVIOUS
<1>2. \A y \in Int : DaysBeforeYear(y) \in Int
  BY DEF DaysBeforeYear
<1>3. DaysBeforeYear(least) < n /\ n <= DaysBeforeYear(least + 3)
  BY YearFound
<1>4. In(least) \/ In(least + 1) \/ In(least + 2)
  <2> HIDE DEF least
  <2>1. /\ (least + 1) + 1 = least + 2
        /\ (least + 2) + 1 = least + 3
    BY <1>1
  <2>2. /\ DaysBeforeYear(least + 1) \in Int
        /\ DaysBeforeYear(least + 2) \in Int
    BY <1>1, <1>2
  <2> QED BY <1>3, <2>1, <2>2
<1>5. \E y \in least..(least + 2) : In(y)
  <2> HIDE DEF least, In
  <2> QED BY <1>1, <1>4
<1>6. YearOf(n) \in least..(least + 2) /\ In(YearOf(n))
  BY <1>5 DEF YearOf
<1> QED BY <1>1, <1>6

\* A day lies in one year only.
LEMMA YearIsUnique ==
  ASSUME NEW n \in Int, NEW y \in Int,
         DaysBeforeYear(y) < n, n <= DaysBeforeYear(y + 1)
  PROVE  YearOf(n) = y
<1>1. \A z \in Int : DaysBeforeYear(z) \in Int
  BY DEF DaysBeforeYear
<1> DEFINE x == YearOf(n)
<1>2. /\ x \in Int
      /\ DaysBeforeYear(x) < n
      /\ n <= DaysBeforeYear(x + 1)
  BY YearOfDay
<1> HIDE DEF x
<1>3. ASSUME x < y PROVE FALSE
  BY <1>1, <1>2, <1>3, YearsMonotonic
<1>4. ASSUME y < x PROVE FALSE
  BY <1>1, <1>2, <1>4, YearsMonotonic
<1>5. x = y
  BY <1>2, <1>3, <1>4
<1> QED BY <1>5 DEF x

\* A later day does not lie in an earlier year.
LEMMA YearOfMonotonic ==
  ASSUME NEW n \in Int, NEW k \in Int, n <= k
  PROVE  YearOf(n) <= YearOf(k)
<1> DEFINE y == YearOf(n)
           z == YearOf(k)
<1>1. /\ y \in Int /\ DaysBeforeYear(y) < n
      /\ z \in Int /\ k <= DaysBeforeYear(z + 1)
  BY YearOfDay
<1> HIDE DEF y, z
<1>2. ASSUME z < y PROVE FALSE
  <2>1. DaysBeforeYear(z + 1) \in Int /\ DaysBeforeYear(y) \in Int /\ z + 1 \in Int /\ z + 1 <= y
    BY <1>1, <1>2, YearStarts
  <2>2. DaysBeforeYear(z + 1) <= DaysBeforeYear(y)
    BY <1>1, <2>1, YearsMonotonic
  <2> QED BY <1>1, <2>1, <2>2
<1>3. y <= z
  BY <1>1, <1>2
<1> QED BY <1>3 DEF y, z

\* MonthOf is the month the day lies in.
LEMMA MonthOfDay ==
  ASSUME NEW n \in Int
  PROVE  /\ MonthOf(n) \in 1..12
         /\ Ordinal(YearOf(n), MonthOf(n), 1) <= n
         /\ n < Ordinal(YearOf(n), MonthOf(n), 1) + MonthLength(YearOf(n), MonthOf(n))
<1> DEFINE y == YearOf(n)
           In(m) == Ordinal(y, m, 1) <= n /\ n < Ordinal(y, m, 1) + MonthLength(y, m)
<1>1. y \in Int /\ DaysBeforeYear(y) < n /\ n <= DaysBeforeYear(y + 1)
  BY YearOfDay
<1> HIDE DEF y
<1>2. DaysBeforeYear(y) \in Int
  BY <1>1 DEF DaysBeforeYear
<1>3. n <= DaysBeforeYear(y) + 365 + (IF IsLeap(y) THEN 1 ELSE 0)
  BY <1>1, YearGrows
<1>4. \E m \in 1..12 : In(m)
  BY <1>1, <1>2, <1>3 DEF Ordinal, DaysBeforeMonth, MonthLength
<1>5. MonthOf(n) = CHOOSE m \in 1..12 : In(m)
  BY DEF MonthOf, y
<1>6. MonthOf(n) \in 1..12 /\ In(MonthOf(n))
  <2> HIDE DEF In
  <2> QED BY <1>4, <1>5
<1> QED BY <1>6 DEF y

-----------------------------------------------------------------------------
(* Remainders by a cycle of any length.                                     *)

-----------------------------------------------------------------------------
(* Remainders.                                                              *)

\* Quotient and remainder.
LEMMA DivMod ==
  ASSUME NEW n \in Int, NEW c \in Nat \ {0}
  PROVE  /\ n \div c \in Int /\ n % c \in 0..(c - 1)
         /\ n = c * (n \div c) + (n % c)
OBVIOUS
\* Only 0 is a multiple of c between -c and c.
LEMMA NoSmallMultiple ==
  ASSUME NEW c \in Nat \ {0}, NEW d \in Int, 0 - c < c * d, c * d < c
  PROVE d = 0
<1>1. ASSUME d >= 1 PROVE FALSE
  BY <1>1
<1>2. ASSUME d <= 0-1 PROVE FALSE
  BY <1>2
<1> QED BY <1>1, <1>2
\* A remainder is known by its size.
LEMMA ModUnique ==
  ASSUME NEW n \in Int, NEW c \in Nat \ {0}, NEW q \in Int, NEW r \in 0..(c-1), n = c * q + r
  PROVE n % c = r /\ n \div c = q
<1>1. /\ n \div c \in Int /\ n % c \in 0..(c - 1)
      /\ n = c * (n \div c) + (n % c)
  BY DivMod
<1> DEFINE p == n \div c
           s == n % c
<1> HIDE DEF p, s
<1>2. p \in Int /\ s \in 0..(c-1) /\ n = c * p + s
  BY <1>1 DEF p, s
<1>3. c * (p - q) = c * p - c * q
  BY <1>2
<1>4. p - q = 0
  BY <1>2, <1>3, NoSmallMultiple
<1> QED BY <1>2, <1>4 DEF p, s
\* Shifting a number within its block shifts the remainder.
LEMMA ModShift ==
  ASSUME NEW n \in Int, NEW c \in Nat \ {0}, NEW k \in Int, 0 <= (n % c) + k, (n % c) + k < c
  PROVE  (n + k) % c = (n % c) + k
<1>1. /\ n \div c \in Int /\ n % c \in 0..(c - 1)
      /\ n = c * (n \div c) + (n % c)
  BY DivMod
<1> DEFINE q == n \div c
           r == n % c
<1> HIDE DEF q, r
<1>2. n + k \in Int /\ q \in Int /\ r + k \in 0..(c - 1) /\ n + k = c * q + (r + k)
  BY <1>1 DEF q, r
<1>3. (n + k) % c = r + k
  <2> DEFINE m == n + k
             s == r + k
  <2>1. m \in Int /\ s \in 0..(c - 1) /\ m = c * q + s
    BY <1>2
  <2> HIDE DEF m, s
  <2>2. m % c = s
    BY <1>2, <2>1, ModUnique
  <2> QED BY <2>2 DEF m, s
<1> QED BY <1>3 DEF r
\* Remainders repeat with the block.
LEMMA ModTurn ==
  ASSUME NEW n \in Int, NEW c \in Nat \ {0}, NEW k \in Int, 0 <= (n % c) + k + c, (n % c) + k + c < c
  PROVE  (n + k) % c = (n % c) + k + c
<1>1. /\ n \div c \in Int /\ n % c \in 0..(c - 1)
      /\ n = c * (n \div c) + (n % c)
  BY DivMod
<1> DEFINE q == n \div c
           r == n % c
<1> HIDE DEF q, r
<1>2. q \in Int /\ n = c * q + r /\ r \in Int
  BY <1>1 DEF q, r
<1>3. c * (q - 1) = c * q - c
  BY <1>2
<1>4. q - 1 \in Int /\ (r + k) + c \in 0..(c - 1) /\ n + k = c * (q - 1) + ((r + k) + c)
  BY <1>2, <1>3 DEF r
<1>5. (n + k) % c = (r + k) + c
  BY <1>4, ModUnique
<1> QED BY <1>5 DEF r

-----------------------------------------------------------------------------
(* Months numbered through the years: month m of year y is 12 * y + m - 1.  *)

FirstOf(i) == Ordinal(i \div 12, (i % 12) + 1, 1)
LengthOf(i) == MonthLength(i \div 12, (i % 12) + 1)
MonthIndex(n) == YearOf(n) * 12 + MonthOf(n) - 1

\* The months in one row: what an index stands for.
LEMMA MonthParts ==
  ASSUME NEW i \in Int
  PROVE  /\ i \div 12 \in Int
         /\ (i % 12) + 1 \in 1..12
         /\ FirstOf(i) \in Int
         /\ LengthOf(i) \in 28..31
<1>1. i \div 12 \in Int /\ (i % 12) + 1 \in 1..12
  OBVIOUS
<1>2. DaysBeforeMonth(i \div 12, (i % 12) + 1) \in Int
  BY <1>1, MonthTable
<1>3. DaysBeforeYear(i \div 12) \in Int
  BY <1>1 DEF DaysBeforeYear
<1> QED BY <1>1, <1>2, <1>3, MonthLengths DEF FirstOf, LengthOf, Ordinal

\* The index of a month determines the month.
LEMMA IndexParts ==
  ASSUME NEW y \in Int, NEW m \in 1..12
  PROVE  /\ y * 12 + m - 1 \in Int
         /\ (y * 12 + m - 1) \div 12 = y
         /\ ((y * 12 + m - 1) % 12) + 1 = m
OBVIOUS

\* Each month starts the day after the one before it ends, December included.
LEMMA MonthsFollow ==
  ASSUME NEW i \in Int
  PROVE  FirstOf(i + 1) = FirstOf(i) + LengthOf(i)
<1> DEFINE y == i \div 12
           m == (i % 12) + 1
<1>1. y \in Int /\ m \in 1..12
  OBVIOUS
<1>2. IF m = 12 THEN (i + 1) \div 12 = y + 1 /\ ((i + 1) % 12) + 1 = 1
                ELSE (i + 1) \div 12 = y /\ ((i + 1) % 12) + 1 = m + 1
  OBVIOUS
<1>3. FirstOf(i) = DaysBeforeYear(y) + DaysBeforeMonth(y, m) + 1 /\ LengthOf(i) = MonthLength(y, m)
  BY DEF FirstOf, LengthOf, Ordinal
<1>4. FirstOf(i + 1) = IF m = 12 THEN DaysBeforeYear(y + 1) + DaysBeforeMonth(y + 1, 1) + 1
                                 ELSE DaysBeforeYear(y) + DaysBeforeMonth(y, m + 1) + 1
  BY <1>2 DEF FirstOf, Ordinal
<1> HIDE DEF y, m
<1>5. DaysBeforeYear(y) \in Int /\ DaysBeforeYear(y + 1) \in Int
  BY <1>1 DEF DaysBeforeYear
<1>6. MonthLength(y, m) \in Int
  BY MonthLengths
<1>7. CASE m = 12
  <2>1. DaysBeforeMonth(y + 1, 1) = 0
    BY <1>1, MonthTable
  <2>2. DaysBeforeMonth(y, m) \in Int /\ DaysBeforeMonth(y, m) + MonthLength(y, m) = 365 + (IF IsLeap(y) THEN 1 ELSE 0)
    BY <1>1, <1>7, MonthTable
  <2>3. DaysBeforeYear(y + 1) = DaysBeforeYear(y) + 365 + (IF IsLeap(y) THEN 1 ELSE 0)
    BY <1>1, YearGrows
  <2> QED BY <1>3, <1>4, <1>5, <1>6, <1>7, <2>1, <2>2, <2>3
<1>8. CASE m # 12
  <2>1. DaysBeforeMonth(y, m) \in Int /\ DaysBeforeMonth(y, m + 1) = DaysBeforeMonth(y, m) + MonthLength(y, m)
    BY <1>1, <1>8, MonthTable
  <2> QED BY <1>3, <1>4, <1>5, <1>6, <1>8, <2>1
<1> QED BY <1>7, <1>8

\* A later month starts after an earlier one has ended.
LEMMA MonthsMonotonic ==
  ASSUME NEW i \in Int, NEW j \in Int, i < j
  PROVE  FirstOf(i) + LengthOf(i) <= FirstOf(j)
<1> DEFINE y == i \div 12
           m == (i % 12) + 1
           z == j \div 12
           k == (j % 12) + 1
<1>1. y \in Int /\ m \in 1..12 /\ z \in Int /\ k \in 1..12
  OBVIOUS
<1>2. y < z \/ (y = z /\ m < k)
  OBVIOUS
<1>3. /\ FirstOf(i) = DaysBeforeYear(y) + DaysBeforeMonth(y, m) + 1
      /\ LengthOf(i) = MonthLength(y, m)
      /\ FirstOf(j) = DaysBeforeYear(z) + DaysBeforeMonth(z, k) + 1
  BY DEF FirstOf, LengthOf, Ordinal
<1> HIDE DEF y, m, z, k
<1>4. /\ DaysBeforeYear(y) \in Int /\ DaysBeforeYear(y + 1) \in Int /\ DaysBeforeYear(z) \in Int
      /\ DaysBeforeMonth(y, m) \in Int /\ DaysBeforeMonth(z, k) \in Int
      /\ MonthLength(y, m) \in Int
  <2>1. DaysBeforeYear(y) \in Int /\ DaysBeforeYear(y + 1) \in Int /\ DaysBeforeYear(z) \in Int
    BY <1>1 DEF DaysBeforeYear
  <2>2. DaysBeforeMonth(y, m) \in Int /\ DaysBeforeMonth(z, k) \in Int
    BY <1>1, MonthTable
  <2> QED BY <2>1, <2>2, MonthLengths
<1>5. CASE y < z
  <2>1. DaysBeforeYear(y + 1) <= DaysBeforeYear(z)
    BY <1>1, <1>4, <1>5, YearsMonotonic
  <2>2. DaysBeforeYear(y + 1) = DaysBeforeYear(y) + 365 + (IF IsLeap(y) THEN 1 ELSE 0)
    BY <1>1, YearGrows
  <2>3. DaysBeforeMonth(y, m) + MonthLength(y, m) <= 365 + (IF IsLeap(y) THEN 1 ELSE 0)
    BY <1>1 DEF DaysBeforeMonth, MonthLength
  <2>4. DaysBeforeMonth(z, k) >= 0
    BY <1>1 DEF DaysBeforeMonth
  <2> QED BY <1>3, <1>4, <2>1, <2>2, <2>3, <2>4
<1>6. CASE y = z /\ m < k
  BY <1>1, <1>3, <1>4, <1>6, MonthsInOrder
<1> QED BY <1>2, <1>5, <1>6

\* A day lies in the month of its index.
LEMMA MonthIndexOfDay ==
  ASSUME NEW n \in Int
  PROVE  /\ MonthIndex(n) \in Int
         /\ MonthIndex(n) \div 12 = YearOf(n)
         /\ (MonthIndex(n) % 12) + 1 = MonthOf(n)
         /\ FirstOf(MonthIndex(n)) <= n
         /\ n < FirstOf(MonthIndex(n)) + LengthOf(MonthIndex(n))
<1>1. YearOf(n) \in Int /\ MonthOf(n) \in 1..12
  BY YearOfDay, MonthOfDay
<1>2. /\ MonthIndex(n) \in Int
      /\ MonthIndex(n) \div 12 = YearOf(n)
      /\ (MonthIndex(n) % 12) + 1 = MonthOf(n)
  BY <1>1 DEF MonthIndex
<1> QED BY <1>2, MonthOfDay DEF FirstOf, LengthOf

\* A day lies in one month only.
LEMMA MonthIsUnique ==
  ASSUME NEW n \in Int, NEW i \in Int, FirstOf(i) <= n, n < FirstOf(i) + LengthOf(i)
  PROVE  MonthIndex(n) = i
<1> DEFINE j == MonthIndex(n)
<1>1. j \in Int /\ FirstOf(j) <= n /\ n < FirstOf(j) + LengthOf(j)
  BY MonthIndexOfDay
<1> HIDE DEF j
<1>2. /\ FirstOf(i) \in Int /\ FirstOf(j) \in Int
      /\ LengthOf(i) \in Int /\ LengthOf(j) \in Int
  BY <1>1, MonthParts
<1>3. ~(i < j) /\ ~(j < i)
  BY <1>1, <1>2, MonthsMonotonic
<1>4. i = j
  BY <1>1, <1>3
<1> QED BY <1>4 DEF j

-----------------------------------------------------------------------------
(* Expected dates of the calendar types.                                    *)

ExpectedIn(i, day) == MonthlyExpectedDate(i \div 12, (i % 12) + 1, day)

\* The expected day of a month lies in that month.
LEMMA ExpectedInMonth ==
  ASSUME NEW i \in Int, NEW day \in 1..31
  PROVE  /\ ExpectedIn(i, day) \in Int
         /\ ExpectedIn(i, day) = FirstOf(i) - 1 + (IF day <= LengthOf(i) THEN day ELSE LengthOf(i))
         /\ FirstOf(i) <= ExpectedIn(i, day)
         /\ ExpectedIn(i, day) < FirstOf(i) + LengthOf(i)
         /\ MonthIndex(ExpectedIn(i, day)) = i
<1>1. FirstOf(i) \in Int /\ LengthOf(i) \in 28..31
  BY MonthParts
<1>2. DaysBeforeYear(i \div 12) \in Int /\ DaysBeforeMonth(i \div 12, (i % 12) + 1) \in Int
  <2>1. i \div 12 \in Int /\ (i % 12) + 1 \in 1..12
    BY MonthParts
  <2> QED BY <2>1, MonthTable, YearStarts
<1>3. ExpectedIn(i, day) = FirstOf(i) - 1 + (IF day <= LengthOf(i) THEN day ELSE LengthOf(i))
  BY <1>1, <1>2 DEF ExpectedIn, MonthlyExpectedDate, Ordinal, FirstOf, LengthOf
<1>4. /\ ExpectedIn(i, day) \in Int
      /\ FirstOf(i) <= ExpectedIn(i, day)
      /\ ExpectedIn(i, day) < FirstOf(i) + LengthOf(i)
  BY <1>1, <1>3
<1> QED BY <1>3, <1>4, MonthIsUnique

\* Expected days of later months are later.
LEMMA ExpectedInOrder ==
  ASSUME NEW i \in Int, NEW j \in Int, i < j, NEW day \in 1..31
  PROVE  ExpectedIn(i, day) < ExpectedIn(j, day)
<1>1. ExpectedIn(i, day) \in Int /\ ExpectedIn(i, day) < FirstOf(i) + LengthOf(i)
  BY ExpectedInMonth
<1>2. ExpectedIn(j, day) \in Int /\ FirstOf(j) <= ExpectedIn(j, day)
  BY ExpectedInMonth
<1>3. FirstOf(i) \in Int /\ LengthOf(i) \in Int /\ FirstOf(j) \in Int
  BY MonthParts
<1> QED BY <1>1, <1>2, <1>3, MonthsMonotonic

\* A later day does not lie in an earlier month.
LEMMA MonthIndexMonotonic ==
  ASSUME NEW n \in Int, NEW k \in Int, n <= k
  PROVE  MonthIndex(n) <= MonthIndex(k)
<1> DEFINE i == MonthIndex(n)
           j == MonthIndex(k)
<1>1. /\ i \in Int /\ FirstOf(i) <= n /\ n < FirstOf(i) + LengthOf(i)
      /\ j \in Int /\ FirstOf(j) <= k /\ k < FirstOf(j) + LengthOf(j)
  BY MonthIndexOfDay
<1> HIDE DEF i, j
<1>2. /\ FirstOf(i) \in Int /\ FirstOf(j) \in Int
      /\ LengthOf(i) \in Int /\ LengthOf(j) \in Int
  BY <1>1, MonthParts
<1>3. ~(j < i)
  BY <1>1, <1>2, MonthsMonotonic
<1>4. i <= j
  BY <1>1, <1>3
<1> QED BY <1>4 DEF i, j

\* PreviousMonth is one index less.
LEMMA MonthBefore ==
  ASSUME NEW i \in Int
  PROVE  PreviousMonth(i \div 12, (i % 12) + 1) = <<(i - 1) \div 12, ((i - 1) % 12) + 1>>
<1>1. IF (i % 12) + 1 = 1 THEN (i - 1) \div 12 = i \div 12 - 1 /\ ((i - 1) % 12) + 1 = 12
                          ELSE (i - 1) \div 12 = i \div 12 /\ ((i - 1) % 12) + 1 = (i % 12)
  OBVIOUS
<1>2. ((i % 12) + 1) - 1 = i % 12
  OBVIOUS
<1> QED BY <1>1, <1>2 DEF PreviousMonth

\* A set of weekdays is met at least once in any seven days.
LEMMA LastWeekday ==
  ASSUME NEW days \in SUBSET (0..6), days # {}, NEW n \in Int
  PROVE  /\ LastWeekdayUpTo(days, n) \in (n - 6)..n
         /\ WeekdayOf(LastWeekdayUpTo(days, n)) \in days
         /\ \A e \in (LastWeekdayUpTo(days, n) + 1)..n : WeekdayOf(e) \notin days
<1> DEFINE Hit == {k \in 0..6 : WeekdayOf(n - k) \in days}
<1>1. Hit # {}
  <2>1. PICK d \in days : d \in 0..6
    OBVIOUS
  <2>2. \E k \in 0..6 : WeekdayOf(n - k) = d
    BY <2>1 DEF WeekdayOf
  <2> QED BY <2>1, <2>2
<1>2. PICK k \in Hit : \A j \in Hit : k <= j
  BY <1>1, NatLeast
<1>3. n - k \in (n - 6)..n /\ WeekdayOf(n - k) \in days
  OBVIOUS
<1>4. ASSUME NEW e \in (n - k + 1)..n PROVE WeekdayOf(e) \notin days
  <2>1. n - e \in 0..6 /\ n - e < k /\ n - (n - e) = e
    BY <1>3
  <2>2. n - e \notin Hit
    BY <1>2, <2>1
  <2> QED BY <2>1, <2>2
<1>5. \E c \in (n - 6)..n : WeekdayOf(c) \in days /\ \A e \in (c + 1)..n : WeekdayOf(e) \notin days
  BY <1>3, <1>4
<1> QED BY <1>5, Zenon DEF LastWeekdayUpTo

-----------------------------------------------------------------------------
(* The two steps of the backward walk.                                      *)

\* What normalize_schedule_config and the date columns guarantee of a row.
IsRow(h) ==
  /\ h.type \in ScheduleTypes
  /\ ConfigFits(h.type, h.cfg)
  /\ AnchorDate(h) \in Int

Latest(h, ref) == LatestExpectedDate(h.type, h.cfg, ref, AnchorDate(h))
Previous(h, day) == PreviousExpectedDate(h.type, h.cfg, day, AnchorDate(h))

\* last is the last day up to ref that the schedule of h names.
IsLastUpTo(h, last, ref) ==
  /\ last \in Int /\ last <= ref
  /\ OccursOn(h, last)
  /\ \A e \in (last + 1)..ref : ~OccursOn(h, e)

-----------------------------------------------------------------------------
(* The days of each schedule type.                                          *)

\* A monthly habit occurs on the expected day of each month.
LEMMA MonthlyOccurs ==
  ASSUME NEW h, IsRow(h), h.type = "monthly_day", NEW n \in Int
  PROVE  /\ h.cfg.day \in 1..31
         /\ OccursOn(h, n) <=> n = ExpectedIn(MonthIndex(n), h.cfg.day)
<1>1. h.cfg.day \in 1..31
  BY DEF IsRow, ConfigFits
<1> DEFINE i == MonthIndex(n)
<1>2. /\ i \in Int /\ i \div 12 = YearOf(n) /\ (i % 12) + 1 = MonthOf(n)
      /\ FirstOf(i) <= n /\ n < FirstOf(i) + LengthOf(i)
  BY MonthIndexOfDay
<1>3. /\ FirstOf(i) = Ordinal(YearOf(n), MonthOf(n), 1)
      /\ LengthOf(i) = MonthLength(YearOf(n), MonthOf(n))
  BY <1>2 DEF FirstOf, LengthOf
<1>4. OccursOn(h, n) <=> \/ n - FirstOf(i) + 1 = h.cfg.day
                         \/ n - FirstOf(i) + 1 = LengthOf(i) /\ h.cfg.day > LengthOf(i)
  BY <1>3 DEF OccursOn
<1> HIDE DEF i
<1>5. FirstOf(i) \in Int /\ LengthOf(i) \in Int
  BY <1>2, MonthParts
<1>6. ExpectedIn(i, h.cfg.day) = FirstOf(i) - 1 + (IF h.cfg.day <= LengthOf(i) THEN h.cfg.day ELSE LengthOf(i))
  BY <1>1, <1>2, ExpectedInMonth
<1>7. OccursOn(h, n) <=> n = ExpectedIn(i, h.cfg.day)
  BY <1>1, <1>2, <1>4, <1>5, <1>6
<1> QED BY <1>1, <1>7 DEF i

\* A yearly habit occurs on the expected day of its month.
LEMMA YearlyOccurs ==
  ASSUME NEW h, IsRow(h), h.type = "yearly_date", NEW n \in Int
  PROVE  /\ h.cfg.day \in 1..31 /\ h.cfg.month \in 1..12
         /\ OccursOn(h, n) <=> n = MonthlyExpectedDate(YearOf(n), h.cfg.month, h.cfg.day)
<1>1. h.cfg.day \in 1..31 /\ h.cfg.month \in 1..12
  <2>1. h.cfg.month \in 1..12 /\ h.cfg.day \in 1..MonthLength(2024, h.cfg.month)
    BY DEF IsRow, ConfigFits
  <2> QED BY <2>1, MonthLengths
<1> DEFINE i == MonthIndex(n)
           k == YearOf(n) * 12 + h.cfg.month - 1
<1>2. /\ i \in Int /\ i \div 12 = YearOf(n) /\ (i % 12) + 1 = MonthOf(n)
      /\ FirstOf(i) <= n /\ n < FirstOf(i) + LengthOf(i)
  BY MonthIndexOfDay
<1>3. /\ FirstOf(i) = Ordinal(YearOf(n), MonthOf(n), 1)
      /\ LengthOf(i) = MonthLength(YearOf(n), MonthOf(n))
  BY <1>2 DEF FirstOf, LengthOf
<1>4. OccursOn(h, n) <=> /\ MonthOf(n) = h.cfg.month
                         /\ \/ n - FirstOf(i) + 1 = h.cfg.day
                            \/ n - FirstOf(i) + 1 = LengthOf(i) /\ h.cfg.day > LengthOf(i)
  BY <1>3 DEF OccursOn
<1>5. YearOf(n) \in Int /\ MonthOf(n) \in 1..12
  BY YearOfDay, MonthOfDay
<1>6. k \in Int /\ k \div 12 = YearOf(n) /\ (k % 12) + 1 = h.cfg.month
  BY <1>1, <1>5, IndexParts
<1>7. ExpectedIn(k, h.cfg.day) = MonthlyExpectedDate(YearOf(n), h.cfg.month, h.cfg.day)
  BY <1>6 DEF ExpectedIn
<1>8. i = k <=> MonthOf(n) = h.cfg.month
  BY <1>1, <1>5 DEF MonthIndex
<1> HIDE DEF i, k
<1>9. FirstOf(i) \in Int /\ LengthOf(i) \in Int
  BY <1>2, MonthParts
<1>10. ExpectedIn(i, h.cfg.day) = FirstOf(i) - 1 + (IF h.cfg.day <= LengthOf(i) THEN h.cfg.day ELSE LengthOf(i))
  BY <1>1, <1>2, ExpectedInMonth
<1>11. MonthIndex(ExpectedIn(k, h.cfg.day)) = k
  BY <1>1, <1>6, ExpectedInMonth
<1>12. ASSUME n = ExpectedIn(k, h.cfg.day) PROVE i = k
  BY <1>11, <1>12 DEF i
<1>13. OccursOn(h, n) <=> n = ExpectedIn(k, h.cfg.day)
  <2>1. CASE i = k
    BY <1>1, <1>2, <1>4, <1>8, <1>9, <1>10, <2>1
  <2>2. CASE i # k
    BY <1>4, <1>8, <1>12, <2>2
  <2> QED BY <2>1, <2>2
<1> QED BY <1>1, <1>7, <1>13

\* Between the expected days of two months in a row no day occurs.
LEMMA MonthlyLast ==
  ASSUME NEW h, IsRow(h), h.type = "monthly_day", NEW ref \in Int, NEW k \in Int,
         ExpectedIn(k, h.cfg.day) <= ref, ref < ExpectedIn(k + 1, h.cfg.day)
  PROVE  IsLastUpTo(h, ExpectedIn(k, h.cfg.day), ref)
<1> DEFINE day == h.cfg.day
           last == ExpectedIn(k, day)
<1>1. day \in 1..31
  BY MonthlyOccurs, k \in Int
<1> HIDE DEF day
<1>2. last \in Int /\ last <= ref /\ MonthIndex(last) = k
  BY <1>1, ExpectedInMonth DEF day
<1>3. OccursOn(h, last)
  <2> HIDE DEF last
  <2>1. OccursOn(h, last) <=> last = ExpectedIn(MonthIndex(last), day)
    BY <1>2, MonthlyOccurs DEF day
  <2> QED BY <1>2, <2>1 DEF last
<1>4. ASSUME NEW e \in (last + 1)..ref, OccursOn(h, e) PROVE FALSE
  <2> DEFINE j == MonthIndex(e)
  <2>1. e \in Int /\ last < e /\ e <= ref
    BY <1>2
  <2>2. j \in Int /\ e = ExpectedIn(j, day)
    BY <1>4, <2>1, MonthIndexOfDay, MonthlyOccurs DEF day
  <2> HIDE DEF j
  <2>3. CASE j <= k
    <3>1. j = k \/ j < k
      BY <2>2, <2>3
    <3>2. j < k => ExpectedIn(j, day) < ExpectedIn(k, day)
      BY <1>1, <2>2, ExpectedInOrder
    <3> QED BY <1>2, <2>1, <2>2, <3>1, <3>2
  <2>4. CASE k + 1 <= j
    <3>1. j = k + 1 \/ k + 1 < j
      BY <2>2, <2>4
    <3>2. k + 1 < j => ExpectedIn(k + 1, day) < ExpectedIn(j, day)
      BY <1>1, <2>2, ExpectedInOrder
    <3>3. ref < ExpectedIn(k + 1, day) /\ ExpectedIn(k + 1, day) \in Int
      <4>1. k + 1 \in Int
        OBVIOUS
      <4> QED BY <1>1, <4>1, ExpectedInMonth DEF day
    <3> QED BY <2>1, <2>2, <3>1, <3>2, <3>3
  <2> QED BY <2>2, <2>3, <2>4
<1> QED BY <1>2, <1>3, <1>4 DEF IsLastUpTo, day

\* The yearly date of year y.
ExpectedOf(h, y) == MonthlyExpectedDate(y, h.cfg.month, h.cfg.day)

\* The expected day of a year lies in that year.
LEMMA YearlyExpected ==
  ASSUME NEW h, IsRow(h), h.type = "yearly_date", NEW y \in Int
  PROVE  /\ ExpectedOf(h, y) \in Int
         /\ YearOf(ExpectedOf(h, y)) = y
         /\ \A z \in Int : y < z => ExpectedOf(h, y) < ExpectedOf(h, z)
<1> DEFINE day == h.cfg.day
           i(z) == z * 12 + h.cfg.month - 1
<1>1. day \in 1..31 /\ h.cfg.month \in 1..12
  BY YearlyOccurs, y \in Int
<1>2. \A z \in Int : i(z) \in Int /\ ExpectedOf(h, z) = ExpectedIn(i(z), day)
  BY <1>1, IndexParts DEF ExpectedIn, ExpectedOf
<1>3. i(y) \div 12 = y
  BY <1>1, IndexParts
<1>4. \A z \in Int : y < z => i(y) < i(z)
  BY <1>1
<1> HIDE DEF day, i
<1>5. ExpectedIn(i(y), day) \in Int /\ MonthIndex(ExpectedIn(i(y), day)) = i(y)
  BY <1>1, <1>2, ExpectedInMonth
<1>6. YearOf(ExpectedOf(h, y)) = y
  BY <1>2, <1>3, <1>5, MonthIndexOfDay
<1>7. ASSUME NEW z \in Int, y < z PROVE ExpectedOf(h, y) < ExpectedOf(h, z)
  BY <1>1, <1>2, <1>4, <1>7, ExpectedInOrder
<1> QED BY <1>2, <1>5, <1>6, <1>7

\* Between the expected days of two years in a row no day occurs.
LEMMA YearlyLast ==
  ASSUME NEW h, IsRow(h), h.type = "yearly_date", NEW ref \in Int, NEW y \in Int,
         ExpectedOf(h, y) <= ref, ref < ExpectedOf(h, y + 1)
  PROVE  IsLastUpTo(h, ExpectedOf(h, y), ref)
<1> DEFINE last == ExpectedOf(h, y)
<1>1. last \in Int /\ last <= ref /\ YearOf(last) = y
  BY YearlyExpected
<1>2. OccursOn(h, last)
  <2> HIDE DEF last
  <2>1. OccursOn(h, last) <=> last = ExpectedOf(h, YearOf(last))
    BY <1>1, YearlyOccurs DEF ExpectedOf
  <2> QED BY <1>1, <2>1 DEF last
<1>3. ASSUME NEW e \in (last + 1)..ref, OccursOn(h, e) PROVE FALSE
  <2> DEFINE z == YearOf(e)
  <2>1. e \in Int /\ last < e /\ e <= ref
    BY <1>1
  <2>2. z \in Int /\ e = ExpectedOf(h, z)
    BY <1>3, <2>1, YearOfDay, YearlyOccurs DEF ExpectedOf
  <2> HIDE DEF z
  <2>3. CASE z <= y
    <3>1. z = y \/ z < y
      BY <2>2, <2>3
    <3>2. z < y => ExpectedOf(h, z) < ExpectedOf(h, y)
      BY <2>2, YearlyExpected
    <3> QED BY <1>1, <2>1, <2>2, <3>1, <3>2
  <2>4. CASE y + 1 <= z
    <3>1. z = y + 1 \/ y + 1 < z
      BY <2>2, <2>4
    <3>2. y + 1 < z => ExpectedOf(h, y + 1) < ExpectedOf(h, z)
      BY <2>2, YearlyExpected
    <3>3. ref < ExpectedOf(h, y + 1) /\ ExpectedOf(h, y + 1) \in Int
      BY YearlyExpected
    <3> QED BY <2>1, <2>2, <3>1, <3>2, <3>3
  <2> QED BY <2>2, <2>3, <2>4
<1> QED BY <1>1, <1>2, <1>3 DEF IsLastUpTo

\* The expected days of last year and of next year lie on both sides of a day.
LEMMA YearBounds ==
  ASSUME NEW h, IsRow(h), h.type = "yearly_date", NEW n \in Int
  PROVE  /\ ExpectedOf(h, YearOf(n) - 1) < n
         /\ n < ExpectedOf(h, YearOf(n) + 1)
<1> DEFINE y == YearOf(n)
           before == ExpectedOf(h, y - 1)
           after == ExpectedOf(h, y + 1)
<1>1. y \in Int /\ DaysBeforeYear(y) < n /\ n <= DaysBeforeYear(y + 1)
  BY YearOfDay
<1> HIDE DEF y
<1>2. y - 1 \in Int /\ y + 1 \in Int /\ (y - 1) + 1 = y
  BY <1>1
<1>3. before \in Int /\ after \in Int /\ YearOf(before) = y - 1 /\ YearOf(after) = y + 1
  BY <1>2, YearlyExpected
<1> HIDE DEF before, after
<1>4. before <= DaysBeforeYear(y)
  BY <1>2, <1>3, YearOfDay
<1>5. DaysBeforeYear(y + 1) < after
  BY <1>3, YearOfDay
<1>6. DaysBeforeYear(y) \in Int /\ DaysBeforeYear(y + 1) \in Int
  BY <1>1, <1>2, YearStarts
<1>7. before < n /\ n < after
  BY <1>1, <1>3, <1>4, <1>5, <1>6
<1> QED BY <1>7 DEF before, after, y

\* The expected days of last month and of next month lie on both sides of a day.
LEMMA MonthBounds ==
  ASSUME NEW n \in Int, NEW day \in 1..31
  PROVE  /\ ExpectedIn(MonthIndex(n) - 1, day) < n
         /\ n < ExpectedIn(MonthIndex(n) + 1, day)
<1> DEFINE i == MonthIndex(n)
<1>1. i \in Int /\ FirstOf(i) <= n /\ n < FirstOf(i) + LengthOf(i)
  BY MonthIndexOfDay
<1> HIDE DEF i
<1>2. i - 1 \in Int /\ i + 1 \in Int /\ (i - 1) + 1 = i
  BY <1>1
<1>3. /\ FirstOf(i) = FirstOf(i - 1) + LengthOf(i - 1)
      /\ FirstOf(i + 1) = FirstOf(i) + LengthOf(i)
  BY <1>1, <1>2, MonthsFollow
<1>4. /\ ExpectedIn(i - 1, day) \in Int
      /\ ExpectedIn(i - 1, day) < FirstOf(i - 1) + LengthOf(i - 1)
  BY <1>2, ExpectedInMonth
<1>5. ExpectedIn(i + 1, day) \in Int /\ FirstOf(i + 1) <= ExpectedIn(i + 1, day)
  BY <1>2, ExpectedInMonth
<1>6. FirstOf(i) \in Int /\ LengthOf(i) \in Int /\ FirstOf(i + 1) \in Int
  BY <1>1, <1>2, MonthParts
<1>7. ExpectedIn(i - 1, day) < n /\ n < ExpectedIn(i + 1, day)
  BY <1>1, <1>3, <1>4, <1>5, <1>6
<1> QED BY <1>7 DEF i

\* The days of an interval cycle by their phase.
LEMMA IntervalOccurs ==
  ASSUME NEW h, IsRow(h), h.type = "interval_cycle", NEW n \in Int
  PROVE  /\ h.cfg.active \in Nat \ {0} /\ h.cfg.break \in Nat \ {0}
         /\ h.cfg.active + h.cfg.break \in Nat \ {0}
         /\ IntervalPhase(h.cfg, AnchorDate(h), n) \in 0..((h.cfg.active + h.cfg.break) - 1)
         /\ OccursOn(h, n) <=> IntervalPhase(h.cfg, AnchorDate(h), n) < h.cfg.active
<1>1. h.cfg.active \in Nat \ {0} /\ h.cfg.break \in Nat \ {0}
  BY DEF IsRow, ConfigFits
<1>2. h.cfg.active + h.cfg.break \in Nat \ {0}
  BY <1>1
<1>3. n - AnchorDate(h) \in Int
  BY DEF IsRow
<1>4. (n - AnchorDate(h)) % (h.cfg.active + h.cfg.break) \in 0..((h.cfg.active + h.cfg.break) - 1)
  <2> DEFINE m == n - AnchorDate(h)
             cycle == h.cfg.active + h.cfg.break
  <2> HIDE DEF m, cycle
  <2>1. m % cycle \in 0..(cycle - 1)
    BY <1>2, <1>3, DivMod DEF m, cycle
  <2> QED BY <2>1 DEF m, cycle
<1> QED BY <1>1, <1>2, <1>4 DEF IntervalPhase, OccursOn

\* Within a cycle the phase moves with the day.
LEMMA PhaseShift ==
  ASSUME NEW h, IsRow(h), h.type = "interval_cycle", NEW n \in Int, NEW k \in Int
  PROVE  LET phase == IntervalPhase(h.cfg, AnchorDate(h), n)
             cycle == h.cfg.active + h.cfg.break
         IN /\ phase + k \in 0..(cycle - 1) => IntervalPhase(h.cfg, AnchorDate(h), n + k) = phase + k
            /\ (phase + k) + cycle \in 0..(cycle - 1) =>
                  IntervalPhase(h.cfg, AnchorDate(h), n + k) = (phase + k) + cycle
<1> DEFINE m == n - AnchorDate(h)
           cycle == h.cfg.active + h.cfg.break
<1>1. m \in Int /\ (n + k) - AnchorDate(h) = m + k
  BY DEF IsRow
<1>2. cycle \in Nat \ {0}
  BY IntervalOccurs
<1>3. /\ IntervalPhase(h.cfg, AnchorDate(h), n) = m % cycle
      /\ IntervalPhase(h.cfg, AnchorDate(h), n + k) = (m + k) % cycle
  BY <1>1 DEF IntervalPhase
<1> HIDE DEF m, cycle
<1>4. m % cycle \in Int
  BY <1>1, <1>2, DivMod
<1>5. (m % cycle) + k \in 0..(cycle - 1) => (m + k) % cycle = (m % cycle) + k
  <2> SUFFICES ASSUME (m % cycle) + k \in 0..(cycle - 1) PROVE (m + k) % cycle = (m % cycle) + k
    OBVIOUS
  <2>1. 0 <= (m % cycle) + k /\ (m % cycle) + k < cycle
    BY <1>2, <1>4
  <2> QED BY <1>1, <1>2, <2>1, ModShift
<1>6. ((m % cycle) + k) + cycle \in 0..(cycle - 1) => (m + k) % cycle = ((m % cycle) + k) + cycle
  <2> SUFFICES ASSUME ((m % cycle) + k) + cycle \in 0..(cycle - 1)
               PROVE  (m + k) % cycle = ((m % cycle) + k) + cycle
    OBVIOUS
  <2>1. 0 <= ((m % cycle) + k) + cycle /\ ((m % cycle) + k) + cycle < cycle
    BY <1>2, <1>4
  <2> QED BY <1>1, <1>2, <2>1, ModTurn
<1> QED BY <1>3, <1>5, <1>6 DEF cycle

\* After the last active day of a cycle come rest days only.
LEMMA IntervalLast ==
  ASSUME NEW h, IsRow(h), h.type = "interval_cycle", NEW ref \in Int, NEW k \in Nat,
         LET phase == IntervalPhase(h.cfg, AnchorDate(h), ref)
         IN \/ phase < h.cfg.active /\ k = 0
            \/ phase >= h.cfg.active /\ k = (phase - h.cfg.active) + 1
  PROVE  IsLastUpTo(h, ref - k, ref)
<1> DEFINE phase(n) == IntervalPhase(h.cfg, AnchorDate(h), n)
           cycle == h.cfg.active + h.cfg.break
<1>1. /\ h.cfg.active \in Nat \ {0} /\ h.cfg.break \in Nat \ {0}
      /\ \A n \in Int : phase(n) \in 0..(cycle - 1) /\ (OccursOn(h, n) <=> phase(n) < h.cfg.active)
  BY IntervalOccurs
<1>2. \A j \in Int : phase(ref) - j \in 0..(cycle - 1) => phase(ref - j) = phase(ref) - j
  <2> SUFFICES ASSUME NEW j \in Int, phase(ref) - j \in 0..(cycle - 1)
               PROVE  phase(ref - j) = phase(ref) - j
    OBVIOUS
  <2>1. 0 - j \in Int /\ ref + (0 - j) = ref - j /\ phase(ref) + (0 - j) = phase(ref) - j
    BY <1>1
  <2> QED BY <2>1, PhaseShift
<1>3. \/ phase(ref) < h.cfg.active /\ k = 0
      \/ phase(ref) >= h.cfg.active /\ k = (phase(ref) - h.cfg.active) + 1
  OBVIOUS
<1> HIDE DEF phase
<1>4. OccursOn(h, ref - k)
  <2>1. phase(ref) - k \in 0..(cycle - 1) /\ phase(ref) - k < h.cfg.active
    BY <1>1, <1>3
  <2> QED BY <1>1, <1>2, <2>1
<1>5. ASSUME NEW e \in (ref - k + 1)..ref PROVE ~OccursOn(h, e)
  <2> DEFINE j == ref - e
  <2>1. j \in Int /\ e = ref - j /\ 0 <= j /\ j < k
    OBVIOUS
  <2>2. phase(ref) - j \in 0..(cycle - 1) /\ phase(ref) - j >= h.cfg.active
    BY <1>1, <1>3, <2>1
  <2> HIDE DEF j
  <2> QED BY <1>1, <1>2, <2>1, <2>2
<1>6. ref - k \in Int /\ ref - k <= ref
  OBVIOUS
<1> QED BY <1>4, <1>5, <1>6 DEF IsLastUpTo

\* The latest expected date is the last scheduled day up to the reference day,
\* for every schedule and every day (_latest_expected_date).
THEOREM LatestIsLast ==
  ASSUME NEW h, IsRow(h), NEW ref \in Int
  PROVE  IsLastUpTo(h, Latest(h, ref), ref)
<1>1. CASE h.type = "daily"
  <2>1. Latest(h, ref) = ref /\ OccursOn(h, ref)
    BY <1>1 DEF Latest, LatestExpectedDate, OccursOn
  <2> QED BY <2>1 DEF IsLastUpTo
<1>2. CASE h.type = "weekly_days"
  <2>1. h.cfg.days \in SUBSET (0..6) /\ h.cfg.days # {}
    BY <1>2 DEF IsRow, ConfigFits
  <2>2. Latest(h, ref) = LastWeekdayUpTo(h.cfg.days, ref)
    BY <1>2 DEF Latest, LatestExpectedDate
  <2>3. \A n : OccursOn(h, n) <=> WeekdayOf(n) \in h.cfg.days
    BY <1>2 DEF OccursOn
  <2> DEFINE last == LastWeekdayUpTo(h.cfg.days, ref)
  <2>4. /\ last \in (ref - 6)..ref
        /\ WeekdayOf(last) \in h.cfg.days
        /\ \A e \in (last + 1)..ref : WeekdayOf(e) \notin h.cfg.days
    BY <2>1, LastWeekday
  <2> HIDE DEF last
  <2>5. IsLastUpTo(h, last, ref)
    BY <2>3, <2>4 DEF IsLastUpTo
  <2> QED BY <2>2, <2>5 DEF last
<1>3. CASE h.type = "monthly_day"
  <2> DEFINE i == MonthIndex(ref)
             day == h.cfg.day
  <2>1. /\ i \in Int /\ i \div 12 = YearOf(ref) /\ (i % 12) + 1 = MonthOf(ref)
    BY MonthIndexOfDay
  <2>2. day \in 1..31
    BY <1>3, MonthlyOccurs
  <2>3. PreviousMonth(YearOf(ref), MonthOf(ref)) = <<(i - 1) \div 12, ((i - 1) % 12) + 1>>
    BY <2>1, MonthBefore
  <2>4. Latest(h, ref) = IF ExpectedIn(i, day) <= ref THEN ExpectedIn(i, day) ELSE ExpectedIn(i - 1, day)
    BY <1>3, <2>1, <2>3 DEF Latest, LatestExpectedDate, ExpectedIn
  <2>5. ExpectedIn(i - 1, day) < ref /\ ref < ExpectedIn(i + 1, day)
    BY <2>2, MonthBounds
  <2> HIDE DEF i, day
  <2>6. ExpectedIn(i, day) \in Int /\ i - 1 \in Int /\ (i - 1) + 1 = i /\ ExpectedIn(i - 1, day) \in Int
    <3>1. i - 1 \in Int /\ (i - 1) + 1 = i
      BY <2>1
    <3> QED BY <2>1, <2>2, <3>1, ExpectedInMonth
  <2>7. CASE ExpectedIn(i, day) <= ref
    BY <1>3, <2>1, <2>4, <2>5, <2>7, MonthlyLast DEF day
  <2>8. CASE ~(ExpectedIn(i, day) <= ref)
    <3>1. ref < ExpectedIn((i - 1) + 1, day) /\ ExpectedIn(i - 1, day) <= ref
      BY <2>5, <2>6, <2>8
    <3> QED BY <1>3, <2>4, <2>6, <2>8, <3>1, MonthlyLast DEF day
  <2> QED BY <2>7, <2>8
<1>4. CASE h.type = "yearly_date"
  <2> DEFINE y == YearOf(ref)
  <2>1. y \in Int /\ y - 1 \in Int /\ (y - 1) + 1 = y
    BY YearOfDay
  <2>2. Latest(h, ref) = IF ExpectedOf(h, y) <= ref THEN ExpectedOf(h, y) ELSE ExpectedOf(h, y - 1)
    BY <1>4 DEF Latest, LatestExpectedDate, ExpectedOf
  <2>3. ExpectedOf(h, y - 1) < ref /\ ref < ExpectedOf(h, y + 1)
    BY <1>4, YearBounds
  <2> HIDE DEF y
  <2>4. ExpectedOf(h, y) \in Int /\ ExpectedOf(h, y - 1) \in Int
    BY <1>4, <2>1, YearlyExpected
  <2>5. CASE ExpectedOf(h, y) <= ref
    BY <1>4, <2>1, <2>2, <2>3, <2>5, YearlyLast
  <2>6. CASE ~(ExpectedOf(h, y) <= ref)
    <3>1. ref < ExpectedOf(h, (y - 1) + 1) /\ ExpectedOf(h, y - 1) <= ref
      BY <2>1, <2>3, <2>4, <2>6
    <3> QED BY <1>4, <2>1, <2>2, <2>6, <3>1, YearlyLast
  <2> QED BY <2>5, <2>6
<1>5. CASE h.type = "interval_cycle"
  <2> DEFINE phase == IntervalPhase(h.cfg, AnchorDate(h), ref)
             k == IF phase < h.cfg.active THEN 0 ELSE (phase - h.cfg.active) + 1
  <2>1. h.cfg.active \in Nat \ {0} /\ phase \in Int
    BY <1>5, IntervalOccurs
  <2>2. Latest(h, ref) = IF phase < h.cfg.active THEN ref ELSE ref - (phase - h.cfg.active + 1)
    BY <1>5 DEF Latest, LatestExpectedDate
  <2> HIDE DEF phase
  <2>3. k \in Nat /\ Latest(h, ref) = ref - k
    BY <2>1, <2>2
  <2>4. \/ phase < h.cfg.active /\ k = 0
        \/ phase >= h.cfg.active /\ k = (phase - h.cfg.active) + 1
    BY <2>1
  <2> HIDE DEF k
  <2>5. IsLastUpTo(h, ref - k, ref)
    BY <1>5, <2>3, <2>4, IntervalLast DEF phase
  <2> QED BY <2>3, <2>5
<1> QED BY <1>1, <1>2, <1>3, <1>4, <1>5 DEF IsRow, ScheduleTypes

\* From a scheduled day, the previous expected date is the last scheduled day
\* before it (_previous_expected_date).
THEOREM PreviousIsLast ==
  ASSUME NEW h, IsRow(h), NEW day \in Int, OccursOn(h, day)
  PROVE  IsLastUpTo(h, Previous(h, day), day - 1)
<1>1. CASE h.type = "daily"
  <2>1. Previous(h, day) = day - 1 /\ OccursOn(h, day - 1)
    BY <1>1 DEF Previous, PreviousExpectedDate, OccursOn
  <2> QED BY <2>1 DEF IsLastUpTo
<1>2. CASE h.type = "weekly_days"
  <2>1. Previous(h, day) = Latest(h, day - 1)
    BY <1>2 DEF Previous, Latest, PreviousExpectedDate, LatestExpectedDate
  <2> QED BY <2>1, LatestIsLast
<1>3. CASE h.type = "monthly_day"
  <2> DEFINE i == MonthIndex(day)
             d == h.cfg.day
  <2>1. /\ i \in Int /\ i \div 12 = YearOf(day) /\ (i % 12) + 1 = MonthOf(day)
    BY MonthIndexOfDay
  <2>2. d \in 1..31 /\ day = ExpectedIn(i, d)
    BY <1>3, MonthlyOccurs
  <2>3. PreviousMonth(YearOf(day), MonthOf(day)) = <<(i - 1) \div 12, ((i - 1) % 12) + 1>>
    BY <2>1, MonthBefore
  <2>4. Previous(h, day) = ExpectedIn(i - 1, d)
    BY <1>3, <2>3 DEF Previous, PreviousExpectedDate, ExpectedIn
  <2>5. ExpectedIn(i - 1, d) < day
    BY <2>2, MonthBounds
  <2> HIDE DEF i
  <2>6. i - 1 \in Int /\ (i - 1) + 1 = i /\ ExpectedIn(i - 1, d) \in Int
    <3>1. i - 1 \in Int /\ (i - 1) + 1 = i
      BY <2>1
    <3> QED BY <2>2, <3>1, ExpectedInMonth
  <2>7. /\ day - 1 \in Int /\ ExpectedIn(i - 1, d) <= day - 1
        /\ day - 1 < ExpectedIn((i - 1) + 1, d)
    BY <2>2, <2>5, <2>6
  <2>8. IsLastUpTo(h, ExpectedIn(i - 1, h.cfg.day), day - 1)
    BY <1>3, <2>6, <2>7, MonthlyLast
  <2> QED BY <2>4, <2>8
<1>4. CASE h.type = "yearly_date"
  <2> DEFINE y == YearOf(day)
  <2>1. y \in Int /\ y - 1 \in Int /\ (y - 1) + 1 = y
    BY YearOfDay
  <2>2. Previous(h, day) = ExpectedOf(h, y - 1) /\ day = ExpectedOf(h, y)
    BY <1>4, YearlyOccurs DEF Previous, PreviousExpectedDate, ExpectedOf
  <2>3. ExpectedOf(h, y - 1) < day
    BY <1>4, YearBounds
  <2> HIDE DEF y
  <2>4. ExpectedOf(h, y - 1) \in Int
    BY <1>4, <2>1, YearlyExpected
  <2>5. /\ day - 1 \in Int /\ ExpectedOf(h, y - 1) <= day - 1
        /\ day - 1 < ExpectedOf(h, (y - 1) + 1)
    BY <2>1, <2>2, <2>3, <2>4
  <2> QED BY <1>4, <2>1, <2>2, <2>5, YearlyLast
<1>5. CASE h.type = "interval_cycle"
  <2> DEFINE phase(n) == IntervalPhase(h.cfg, AnchorDate(h), n)
             cycle == h.cfg.active + h.cfg.break
  <2>1. /\ h.cfg.active \in Nat \ {0} /\ h.cfg.break \in Nat \ {0}
        /\ phase(day) \in 0..(cycle - 1) /\ phase(day) < h.cfg.active
    BY <1>5, IntervalOccurs
  <2>2. Previous(h, day) = IF phase(day) > 0 THEN day - 1 ELSE day - (h.cfg.break + 1)
    BY <1>5 DEF Previous, PreviousExpectedDate
  <2>3. CASE phase(day) > 0
    <3>1. phase(day) + (0 - 1) \in 0..(cycle - 1) /\ 0 - 1 \in Int /\ day + (0 - 1) = day - 1
      BY <2>1, <2>3
    <3>2. phase(day - 1) = phase(day) + (0 - 1)
      BY <1>5, <3>1, PhaseShift
    <3>3. phase(day - 1) < h.cfg.active
      BY <2>1, <3>2
    <3>4. IsLastUpTo(h, (day - 1) - 0, day - 1)
      BY <1>5, <3>3, IntervalLast
    <3> QED BY <2>2, <2>3, <3>4
  <2>4. CASE phase(day) = 0
    <3>1. (phase(day) + (0 - 1)) + cycle \in 0..(cycle - 1) /\ 0 - 1 \in Int /\ day + (0 - 1) = day - 1
      BY <2>1, <2>4
    <3>2. phase(day - 1) = (phase(day) + (0 - 1)) + cycle
      BY <1>5, <3>1, PhaseShift
    <3>3. phase(day - 1) >= h.cfg.active /\ h.cfg.break = (phase(day - 1) - h.cfg.active) + 1
      <4> HIDE DEF phase
      <4> QED BY <2>1, <2>4, <3>2
    <3>4. IsLastUpTo(h, (day - 1) - h.cfg.break, day - 1)
      BY <1>5, <2>1, <3>3, IntervalLast
    <3>5. Previous(h, day) = (day - 1) - h.cfg.break
      <4> HIDE DEF phase
      <4> QED BY <2>1, <2>2, <2>4
    <3> QED BY <3>4, <3>5
  <2>5. phase(day) > 0 \/ phase(day) = 0
    <3> HIDE DEF phase
    <3> QED BY <2>1
  <2> QED BY <2>3, <2>4, <2>5
<1> QED BY <1>1, <1>2, <1>3, <1>4, <1>5 DEF IsRow, ScheduleTypes

-----------------------------------------------------------------------------
(* The streak.                                                              *)

\* The run of expected dates that _streak_interval walks back over, as a function.
WalkFrom(h, N, ref, e) ==
  e = [n \in 0..N |-> IF n = 0 THEN Latest(h, ref) ELSE Previous(h, e[n - 1])]

\* The walk of the streak loop exists, for any number of steps.
LEMMA WalkExists ==
  ASSUME NEW h, NEW ref, NEW N \in Nat
  PROVE  \E e : WalkFrom(h, N, ref, e)
<1> DEFINE Bad == {n \in Nat : ~\E e : WalkFrom(h, n, ref, e)}
<1>1. ASSUME Bad # {} PROVE FALSE
  <2>1. PICK n \in Bad : \A m \in Bad : n <= m
    BY <1>1, NatLeast
  <2>2. n \in Nat
    OBVIOUS
  <2>3. CASE n = 0
    <3> DEFINE e == [k \in 0..0 |-> Latest(h, ref)]
    <3>1. e = [k \in 0..0 |-> IF k = 0 THEN Latest(h, ref) ELSE Previous(h, e[k - 1])]
      OBVIOUS
    <3>2. WalkFrom(h, 0, ref, e)
      BY <3>1, Zenon DEF WalkFrom
    <3> QED BY <2>1, <2>3, <3>2
  <2>4. CASE n # 0
    <3>1. n - 1 \in Nat /\ n - 1 \notin Bad
      <4> HIDE DEF Bad
      <4> QED BY <2>1, <2>2, <2>4
    <3>2. PICK f : WalkFrom(h, n - 1, ref, f)
      BY <3>1
    <3>3. /\ f = [k \in 0..(n - 1) |-> IF k = 0 THEN Latest(h, ref) ELSE Previous(h, f[k - 1])]
          /\ \A k \in 0..(n - 1) : f[k] = IF k = 0 THEN Latest(h, ref) ELSE Previous(h, f[k - 1])
      BY <3>2, Zenon DEF WalkFrom
    <3> DEFINE e == [k \in 0..n |-> IF k = n THEN Previous(h, f[n - 1]) ELSE f[k]]
    <3>4. ASSUME NEW k \in 0..n
          PROVE  e[k] = IF k = 0 THEN Latest(h, ref) ELSE Previous(h, e[k - 1])
      <4>1. CASE k = n
        <5>1. e[k] = Previous(h, f[n - 1]) /\ e[k - 1] = f[n - 1]
          BY <2>2, <2>4, <4>1
        <5> QED BY <2>4, <4>1, <5>1
      <4>2. CASE k # n
        <5>1. k \in 0..(n - 1) /\ e[k] = f[k]
          BY <2>2, <4>2
        <5>2. k # 0 => e[k - 1] = f[k - 1]
          BY <2>2, <4>2
        <5> QED BY <3>3, <5>1, <5>2
      <4> QED BY <4>1, <4>2
    <3>5. e = [k \in 0..n |-> IF k = 0 THEN Latest(h, ref) ELSE Previous(h, e[k - 1])]
      BY <3>4
    <3>6. WalkFrom(h, n, ref, e)
      <4> HIDE DEF e
      <4> QED BY <3>5, Zenon DEF WalkFrom
    <3> QED BY <2>1, <3>6
  <2> QED BY <2>3, <2>4
<1> QED BY <1>1

\* The walk lists the scheduled days up to ref from the last one back.
LEMMA WalkDescends ==
  ASSUME NEW h, IsRow(h), NEW ref \in Int, NEW N \in Nat, NEW e, WalkFrom(h, N, ref, e)
  PROVE  /\ \A n \in 0..N : e[n] \in Int /\ e[n] <= ref /\ OccursOn(h, e[n])
         /\ \A n \in 0..N : \A k \in 0..N : k < n => e[n] < e[k]
         /\ \A n \in 0..N : \A day \in Int :
              e[n] <= day /\ day <= ref /\ OccursOn(h, day) => \E k \in 0..n : day = e[k]
<1>1. \A n \in 0..N : e[n] = IF n = 0 THEN Latest(h, ref) ELSE Previous(h, e[n - 1])
  BY Zenon DEF WalkFrom
<1> DEFINE Good(n) ==
      /\ e[n] \in Int /\ e[n] <= ref /\ OccursOn(h, e[n])
      /\ \A k \in 0..N : k < n => e[n] < e[k]
      /\ \A day \in Int :
           e[n] <= day /\ day <= ref /\ OccursOn(h, day) => \E k \in 0..n : day = e[k]
           Bad == {n \in 0..N : ~Good(n)}
<1>2. ASSUME Bad # {} PROVE FALSE
  <2>1. PICK n \in Bad : \A m \in Bad : n <= m
    <3>1. Bad \in SUBSET Nat
      OBVIOUS
    <3> HIDE DEF Bad
    <3> QED BY <1>2, <3>1, NatLeast
  <2>2. n \in 0..N /\ ~Good(n) /\ \A m \in 0..N : m < n => Good(m)
    BY <2>1
  <2>3. CASE n = 0
    <3>1. IsLastUpTo(h, e[0], ref)
      BY <1>1, <2>2, <2>3, LatestIsLast
    <3>2. ASSUME NEW day \in Int, e[0] <= day, day <= ref, OccursOn(h, day) PROVE day = e[0]
      <4>1. e[0] \in Int /\ ~(day \in (e[0] + 1)..ref)
        BY <3>1, <3>2 DEF IsLastUpTo
      <4> QED BY <3>2, <4>1
    <3>3. Good(0)
      BY <3>1, <3>2 DEF IsLastUpTo
    <3> QED BY <2>2, <2>3, <3>3
  <2>4. CASE n # 0
    <3>1. n - 1 \in 0..N /\ n - 1 < n
      BY <2>2, <2>4
    <3>2. Good(n - 1)
      BY <2>2, <3>1
    <3> DEFINE a == e[n - 1]
               b == e[n]
    <3>3. a \in Int /\ a <= ref /\ OccursOn(h, a)
      BY <3>2
    <3>4. b = Previous(h, a)
      BY <1>1, <2>2, <2>4
    <3>5. IsLastUpTo(h, b, a - 1)
      BY <3>3, <3>4, PreviousIsLast
    <3>6. b \in Int /\ b < a /\ OccursOn(h, b) /\ \A x \in (b + 1)..(a - 1) : ~OccursOn(h, x)
      BY <3>3, <3>5 DEF IsLastUpTo
    <3>7. b <= ref
      BY <3>3, <3>6
    <3>8. ASSUME NEW k \in 0..N, k < n PROVE b < e[k]
      <4>1. k = n - 1 \/ k < n - 1
        BY <2>2, <3>8
      <4>2. CASE k = n - 1
        BY <3>6, <4>2
      <4>3. CASE k < n - 1
        <5>1. a < e[k]
          BY <3>2, <4>3
        <5>2. e[k] \in Int
          BY <2>2, <3>8
        <5> QED BY <3>3, <3>6, <5>1, <5>2
      <4> QED BY <4>1, <4>2, <4>3
    <3>9. ASSUME NEW day \in Int, b <= day, day <= ref, OccursOn(h, day)
          PROVE  \E k \in 0..n : day = e[k]
      <4>1. CASE day = b
        BY <2>2, <4>1
      <4>2. CASE a <= day
        <5>1. PICK k \in 0..(n - 1) : day = e[k]
          BY <3>2, <3>9, <4>2
        <5> QED BY <3>1, <5>1
      <4>3. CASE b < day /\ day < a
        BY <3>3, <3>6, <3>9, <4>3
      <4> QED BY <3>3, <3>6, <3>9, <4>1, <4>2, <4>3
    <3>10. Good(n)
      BY <3>6, <3>7, <3>8, <3>9
    <3> QED BY <2>2, <3>10
  <2> QED BY <2>3, <2>4
<1>3. \A n \in 0..N : Good(n)
  BY <1>2
<1> QED BY <1>3

\* The scheduled days from the anchor to ref, and those of them that no
\* uncompleted one follows.
ScheduledTo(h, ref) == {day \in AnchorDate(h)..ref : OccursOn(h, day)}

SinceLastMiss(h, completed, ref) ==
  {day \in ScheduledTo(h, ref) :
     \A later \in ScheduledTo(h, ref) : later >= day => later \in completed}

\* The streak is the number of scheduled days since the last one missed, for every
\* schedule, every history and every day (_streak_interval).
THEOREM StreakIsRun ==
  ASSUME NEW h, IsRow(h), NEW ref \in Int, NEW completed \in SUBSET Int, IsFiniteSet(completed)
  PROVE  Streak(h, completed, ref) = Cardinality(SinceLastMiss(h, completed, ref))
<1> DEFINE anchor == AnchorDate(h)
           N == Cardinality(completed)
           D == SinceLastMiss(h, completed, ref)
<1>1. anchor \in Int /\ N \in Nat
  BY FS_CardinalityType DEF IsRow
<1>2. CASE completed = {} \/ ref < anchor
  <2>1. Streak(h, completed, ref) = 0
    BY <1>2 DEF Streak
  <2>2. D = {}
    <3>1. ScheduledTo(h, ref) = {} \/ completed = {}
      BY <1>1, <1>2 DEF ScheduledTo
    <3>2. \A day \in D : day \in ScheduledTo(h, ref) /\ day \in completed
      BY <1>1 DEF SinceLastMiss, ScheduledTo
    <3> QED BY <3>1, <3>2
  <2> QED BY <2>1, <2>2, FS_EmptySet
<1>3. CASE ~(completed = {} \/ ref < anchor)
  <2> DEFINE expected[n \in 0..N] ==
        IF n = 0 THEN LatestExpectedDate(h.type, h.cfg, ref, anchor)
                 ELSE PreviousExpectedDate(h.type, h.cfg, expected[n - 1], anchor)
             stops(n) == expected[n] < anchor \/ expected[n] \notin completed
  <2>1. Streak(h, completed, ref)
          = CHOOSE n \in 0..N : stops(n) /\ \A k \in 0..(n - 1) : ~stops(k)
    BY <1>3 DEF Streak
  <2>2. WalkFrom(h, N, ref, expected)
    <3>1. \E e : e = [n \in 0..N |-> IF n = 0 THEN Latest(h, ref) ELSE Previous(h, e[n - 1])]
      <4>1. \E e : WalkFrom(h, N, ref, e)
        <5> HIDE DEF N
        <5> QED BY <1>1, WalkExists
      <4> QED BY <4>1, Zenon DEF WalkFrom
    <3>2. expected = CHOOSE e : e = [n \in 0..N |-> IF n = 0 THEN Latest(h, ref) ELSE Previous(h, e[n - 1])]
      BY DEF Latest, Previous
    <3> HIDE DEF expected
    <3>3. expected = [n \in 0..N |-> IF n = 0 THEN Latest(h, ref) ELSE Previous(h, expected[n - 1])]
      BY <3>1, <3>2
    <3> QED BY <3>3, Zenon DEF WalkFrom
  <2> DEFINE e == expected
  <2>3. /\ \A n \in 0..N : e[n] \in Int /\ e[n] <= ref /\ OccursOn(h, e[n])
        /\ \A n \in 0..N : \A k \in 0..N : k < n => e[n] < e[k]
        /\ \A n \in 0..N : \A day \in Int :
             e[n] <= day /\ day <= ref /\ OccursOn(h, day) => \E k \in 0..n : day = e[k]
    <3> HIDE DEF expected
    <3> QED BY <1>1, <2>2, WalkDescends
  <2> HIDE DEF expected, N, anchor
  <2>4. \E n \in 0..N : stops(n)
    <3> SUFFICES ASSUME \A n \in 0..N : ~stops(n) PROVE FALSE
      OBVIOUS
    <3> DEFINE f == [n \in 0..N |-> e[n]]
    <3>1. f \in [0..N -> completed]
      OBVIOUS
    <3>2. IsFiniteSet(0..N) /\ Cardinality(0..N) = N + 1
      BY <1>1, FS_Interval
    <3>3. Cardinality(completed) < Cardinality(0..N)
      BY <1>1, <3>2 DEF N
    <3>4. \E x, y \in 0..N : x # y /\ f[x] = f[y]
      <4> HIDE DEF f
      <4> QED BY <3>1, <3>2, <3>3, FS_PigeonHole
    <3>5. PICK x \in 0..N, y \in 0..N : x # y /\ e[x] = e[y]
      BY <3>4
    <3>6. (x < y \/ y < x) /\ e[x] \in Int /\ e[y] \in Int
      BY <1>1, <2>3, <3>5
    <3> QED BY <2>3, <3>5, <3>6
  <2>5. \E n \in 0..N : stops(n) /\ \A k \in 0..(n - 1) : ~stops(k)
    <3> DEFINE Stopped == {n \in 0..N : stops(n)}
    <3>1. Stopped \in SUBSET Nat /\ Stopped # {}
      BY <2>4
    <3>2. PICK n \in Stopped : \A m \in Stopped : n <= m
      <4> HIDE DEF Stopped
      <4> QED BY <3>1, NatLeast
    <3>3. ASSUME NEW k \in 0..(n - 1) PROVE ~stops(k)
      <4>1. k \in 0..N /\ ~(n <= k)
        BY <1>1
      <4> QED BY <3>2, <4>1
    <3> QED BY <3>2, <3>3
  <2> DEFINE n == Streak(h, completed, ref)
  <2>6. n \in 0..N /\ stops(n) /\ \A k \in 0..(n - 1) : ~stops(k)
    <3> HIDE DEF stops
    <3> QED BY <2>1, <2>5
  <2> HIDE DEF n
  <2>7. ASSUME NEW k \in 0..(n - 1) PROVE e[k] \in D
    <3>1. k \in 0..N /\ e[k] \in Int /\ e[k] <= ref /\ OccursOn(h, e[k]) /\ anchor <= e[k]
      BY <1>1, <2>3, <2>6
    <3>2. e[k] \in ScheduledTo(h, ref)
      BY <1>1, <3>1 DEF ScheduledTo, anchor
    <3>3. ASSUME NEW later \in ScheduledTo(h, ref), later >= e[k] PROVE later \in completed
      <4>1. later \in Int /\ later <= ref /\ OccursOn(h, later)
        BY <1>1 DEF ScheduledTo, anchor
      <4>2. PICK j \in 0..k : later = e[j]
        BY <2>3, <3>1, <3>3, <4>1
      <4>3. j \in 0..(n - 1)
        BY <2>6
      <4> QED BY <2>6, <4>2, <4>3
    <3> QED BY <3>2, <3>3 DEF SinceLastMiss
  <2>8. ASSUME NEW day \in D PROVE \E k \in 0..(n - 1) : day = e[k]
    <3>1. /\ day \in ScheduledTo(h, ref)
          /\ \A later \in ScheduledTo(h, ref) : later >= day => later \in completed
      BY DEF SinceLastMiss
    <3>2. day \in Int /\ day <= ref /\ anchor <= day /\ OccursOn(h, day)
      BY <1>1, <3>1 DEF ScheduledTo, anchor
    <3>3. e[n] \in Int /\ e[n] <= ref /\ OccursOn(h, e[n])
      BY <2>3, <2>6
    <3>4. ASSUME day <= e[n] PROVE FALSE
      <4>1. e[n] >= anchor /\ e[n] >= day
        BY <1>1, <3>2, <3>3, <3>4
      <4>2. e[n] \in ScheduledTo(h, ref)
        BY <1>1, <3>3, <4>1 DEF ScheduledTo, anchor
      <4>3. e[n] \in completed
        BY <3>1, <4>1, <4>2
      <4> QED BY <1>1, <2>6, <3>3, <4>1, <4>3
    <3>5. PICK k \in 0..n : day = e[k]
      BY <2>3, <2>6, <3>2, <3>3, <3>4
    <3>6. k # n
      BY <3>2, <3>3, <3>4, <3>5
    <3> QED BY <2>6, <3>5, <3>6
  <2> DEFINE f == [k \in 0..(n - 1) |-> e[k]]
  <2>9. f \in Bijection(0..(n - 1), D)
    <3> HIDE DEF D
    <3>1. f \in [0..(n - 1) -> D]
      BY <2>7
    <3>2. ASSUME NEW a \in 0..(n - 1), NEW b \in 0..(n - 1), f[a] = f[b] PROVE a = b
      <4>1. a \in 0..N /\ b \in 0..N /\ e[a] = e[b]
        BY <1>1, <2>6, <3>2
      <4>2. e[a] \in Int /\ ~(a < b) /\ ~(b < a)
        BY <2>3, <4>1
      <4> QED BY <4>2
    <3>3. \A day \in D : \E k \in 0..(n - 1) : f[k] = day
      BY <2>8
    <3> HIDE DEF f
    <3> QED BY <3>1, <3>2, <3>3, Fun_IsBij
  <2>10. IsFiniteSet(0..(n - 1)) /\ Cardinality(0..(n - 1)) = n
    BY <2>6, FS_Interval
  <2>11. Cardinality(D) = n
    <3> HIDE DEF D, f
    <3>1. ExistsBijection(0..(n - 1), D)
      BY <2>9, Zenon DEF ExistsBijection
    <3> QED BY <2>10, <3>1, FS_Bijection
  <2> QED BY <2>11 DEF n
<1> QED BY <1>2, <1>3

-----------------------------------------------------------------------------
(* Required occurrences.                                                    *)

\* The number of days a period asks for, counted by days, weeks, months, years or
\* phases, is the number of scheduled days in it; for an interval habit the period
\* has to start at the anchor (_required_occurrences_in_period).
THEOREM RequiredIsScheduled ==
  ASSUME NEW h, IsRow(h), NEW from \in Int, NEW to \in Int,
         h.type = "interval_cycle" => from = AnchorDate(h)
  PROVE  RequiredOccurrences(h.type, h.cfg, from, to)
           = Cardinality({day \in from..to : OccursOn(h, day)})
<1> DEFINE D == {day \in from..to : OccursOn(h, day)}
<1>1. CASE h.type = "daily"
  <2>1. D = PeriodDates(from, to)
    BY <1>1 DEF OccursOn, PeriodDates
  <2> QED BY <1>1, <2>1 DEF RequiredOccurrences
<1>2. CASE h.type = "weekly_days"
  <2>1. D = {d \in PeriodDates(from, to) : WeekdayOf(d) \in h.cfg.days}
    BY <1>2 DEF OccursOn, PeriodDates
  <2> QED BY <1>2, <2>1 DEF RequiredOccurrences
<1>3. CASE h.type = "interval_cycle"
  <2>1. D = {d \in PeriodDates(from, to) : (d - from) % (h.cfg.active + h.cfg.break) < h.cfg.active}
    BY <1>3 DEF OccursOn, PeriodDates
  <2> QED BY <1>3, <2>1 DEF RequiredOccurrences
<1>4. CASE h.type = "monthly_day"
  <2> DEFINE dom == h.cfg.day
             I == {i \in MonthIndex(from)..MonthIndex(to) : ExpectedIn(i, dom) \in from..to}
             f == [i \in I |-> ExpectedIn(i, dom)]
  <2>1. RequiredOccurrences(h.type, h.cfg, from, to) = Cardinality(I)
    BY <1>4 DEF RequiredOccurrences, MonthIndex, ExpectedIn
  <2>2. dom \in 1..31 /\ \A n \in Int : OccursOn(h, n) <=> n = ExpectedIn(MonthIndex(n), dom)
    BY <1>4, MonthlyOccurs
  <2>3. MonthIndex(from) \in Int /\ MonthIndex(to) \in Int
    BY MonthIndexOfDay
  <2> HIDE DEF dom
  <2>4. \A i \in I : i \in Int /\ ExpectedIn(i, dom) \in Int /\ MonthIndex(ExpectedIn(i, dom)) = i
    <3>1. \A i \in Int : ExpectedIn(i, dom) \in Int /\ MonthIndex(ExpectedIn(i, dom)) = i
      BY <2>2, ExpectedInMonth
    <3> QED BY <2>3, <3>1
  <2>5. f \in [I -> D]
    <3> SUFFICES ASSUME NEW i \in I PROVE ExpectedIn(i, dom) \in D
      OBVIOUS
    <3> QED BY <2>2, <2>4
  <2>6. ASSUME NEW i \in I, NEW j \in I, f[i] = f[j] PROVE i = j
    BY <2>4, <2>6
  <2>7. ASSUME NEW day \in D PROVE \E i \in I : f[i] = day
    <3>1. day \in Int /\ from <= day /\ day <= to /\ day = ExpectedIn(MonthIndex(day), dom)
      BY <2>2
    <3>2. MonthIndex(day) \in Int /\ MonthIndex(from) <= MonthIndex(day) /\ MonthIndex(day) <= MonthIndex(to)
      BY <3>1, MonthIndexMonotonic, MonthIndexOfDay
    <3>3. MonthIndex(day) \in I
      BY <2>3, <3>1, <3>2
    <3> QED BY <3>1, <3>3
  <2> HIDE DEF f
  <2>8. ExistsBijection(I, D)
    <3> HIDE DEF I, D
    <3>1. f \in Bijection(I, D)
      BY <2>5, <2>6, <2>7, Fun_IsBij
    <3> QED BY <3>1, Zenon DEF ExistsBijection
  <2>9. IsFiniteSet(I)
    <3>1. IsFiniteSet(MonthIndex(from)..MonthIndex(to))
      BY <2>3, FS_Interval
    <3>2. I \in SUBSET (MonthIndex(from)..MonthIndex(to))
      OBVIOUS
    <3> QED BY <3>1, <3>2, FS_Subset
  <2> HIDE DEF I, D
  <2> QED BY <2>1, <2>8, <2>9, FS_Bijection DEF D
<1>5. CASE h.type = "yearly_date"
  <2> DEFINE Y == {y \in YearOf(from)..YearOf(to) : ExpectedOf(h, y) \in from..to}
             f == [y \in Y |-> ExpectedOf(h, y)]
  <2>1. RequiredOccurrences(h.type, h.cfg, from, to) = Cardinality(Y)
    BY <1>5 DEF RequiredOccurrences, ExpectedOf
  <2>2. \A n \in Int : OccursOn(h, n) <=> n = ExpectedOf(h, YearOf(n))
    BY <1>5, YearlyOccurs DEF ExpectedOf
  <2>3. YearOf(from) \in Int /\ YearOf(to) \in Int
    BY YearOfDay
  <2>4. \A y \in Y : y \in Int /\ ExpectedOf(h, y) \in Int /\ YearOf(ExpectedOf(h, y)) = y
    BY <1>5, <2>3, YearlyExpected
  <2>5. f \in [Y -> D]
    <3> SUFFICES ASSUME NEW y \in Y PROVE ExpectedOf(h, y) \in D
      OBVIOUS
    <3> QED BY <2>2, <2>4
  <2>6. ASSUME NEW y \in Y, NEW z \in Y, f[y] = f[z] PROVE y = z
    BY <2>4, <2>6
  <2>7. ASSUME NEW day \in D PROVE \E y \in Y : f[y] = day
    <3>1. day \in Int /\ from <= day /\ day <= to /\ day = ExpectedOf(h, YearOf(day))
      BY <2>2
    <3>2. YearOf(day) \in Int /\ YearOf(from) <= YearOf(day) /\ YearOf(day) <= YearOf(to)
      BY <3>1, YearOfMonotonic, YearOfDay
    <3>3. YearOf(day) \in Y
      BY <2>3, <3>1, <3>2
    <3> QED BY <3>1, <3>3
  <2> HIDE DEF f
  <2>8. ExistsBijection(Y, D)
    <3> HIDE DEF Y, D
    <3>1. f \in Bijection(Y, D)
      BY <2>5, <2>6, <2>7, Fun_IsBij
    <3> QED BY <3>1, Zenon DEF ExistsBijection
  <2>9. IsFiniteSet(Y)
    <3>1. IsFiniteSet(YearOf(from)..YearOf(to))
      BY <2>3, FS_Interval
    <3>2. Y \in SUBSET (YearOf(from)..YearOf(to))
      OBVIOUS
    <3> QED BY <3>1, <3>2, FS_Subset
  <2> HIDE DEF Y, D
  <2> QED BY <2>1, <2>8, <2>9, FS_Bijection DEF D
<1> QED BY <1>1, <1>2, <1>3, <1>4, <1>5 DEF IsRow, ScheduleTypes

-----------------------------------------------------------------------------
(* The due rule.                                                            *)

\* For the four calendar types the due rule names the scheduled days
\* (_is_habit_due_today).
LEMMA CalendarDue ==
  ASSUME NEW h, IsRow(h), h.type # "interval_cycle", NEW day \in Int,
         NEW completed, NEW done, NEW respect
  PROVE  IsHabitDue(h, completed, day, done, respect)
           <=> /\ ~(respect /\ h.archived) /\ ~done
               /\ day >= AnchorDate(h) /\ (h.ends # NoDate => day <= h.ends)
               /\ OccursOn(h, day)
<1>1. CASE h.type = "daily"
  BY <1>1, ZenonT(30) DEF IsHabitDue, OccursOn
<1>2. CASE h.type = "weekly_days"
  BY <1>2, ZenonT(30) DEF IsHabitDue, OccursOn
<1>3. CASE h.type = "monthly_day"
  <2>1. MonthIndex(day) \div 12 = YearOf(day) /\ (MonthIndex(day) % 12) + 1 = MonthOf(day)
    BY MonthIndexOfDay
  <2>2. OccursOn(h, day) <=> day = MonthlyExpectedDate(YearOf(day), MonthOf(day), h.cfg.day)
    BY <1>3, <2>1, MonthlyOccurs DEF ExpectedIn
  <2> QED BY <1>3, <2>2, ZenonT(30) DEF IsHabitDue
<1>4. CASE h.type = "yearly_date"
  <2>1. OccursOn(h, day) <=> day = MonthlyExpectedDate(YearOf(day), h.cfg.month, h.cfg.day)
    BY <1>4, YearlyOccurs
  <2> QED BY <1>4, <2>1, ZenonT(30) DEF IsHabitDue
<1> QED BY <1>1, <1>2, <1>3, <1>4 DEF IsRow, ScheduleTypes

\* The due rule of interval habits, spelled out.
LEMMA IntervalDue ==
  ASSUME NEW h, h.type = "interval_cycle", NEW day,
         NEW completed, NEW done, NEW respect
  PROVE  IsHabitDue(h, completed, day, done, respect)
           <=> /\ ~(respect /\ h.archived) /\ ~done
               /\ day >= AnchorDate(h) /\ (h.ends # NoDate => day <= h.ends)
               /\ IsIntervalCycleDue(h, completed, day)
BY ZenonT(30) DEF IsHabitDue

\* The anchor is the first day of a cycle.
LEMMA AnchorPhase ==
  ASSUME NEW h, IsRow(h), h.type = "interval_cycle"
  PROVE  IntervalPhase(h.cfg, AnchorDate(h), AnchorDate(h)) = 0 /\ OccursOn(h, AnchorDate(h))
<1> DEFINE cycle == h.cfg.active + h.cfg.break
<1>1. cycle \in Nat \ {0} /\ h.cfg.active \in Nat \ {0} /\ AnchorDate(h) \in Int
  BY IntervalOccurs DEF IsRow
<1>2. IntervalPhase(h.cfg, AnchorDate(h), AnchorDate(h)) = 0 % cycle
  BY <1>1 DEF IntervalPhase
<1> HIDE DEF cycle
<1>3. 0 % cycle = 0
  <2>1. 0 = cycle * 0 + 0 /\ 0 \in 0..(cycle - 1)
    BY <1>1
  <2> QED BY <1>1, <2>1, ModUnique
<1> QED BY <1>1, <1>2, <1>3, IntervalOccurs

\* A finite set of integers that is not empty has a last element.
LEMMA LastExists ==
  ASSUME NEW S \in SUBSET Int, S # {}, NEW b \in Int, \A x \in S : x <= b
  PROVE  \E x \in S : \A y \in S : y <= x
<1> DEFINE T == {b - x : x \in S}
<1>1. T \in SUBSET Nat /\ T # {}
  <2>1. ASSUME NEW x \in S PROVE b - x \in Nat
    <3>1. x \in Int /\ x <= b
      OBVIOUS
    <3> QED BY <3>1
  <2> QED BY <2>1
<1>2. PICK n \in T : \A m \in T : n <= m
  <2> HIDE DEF T
  <2> QED BY <1>1, NatLeast
<1>3. PICK x \in S : n = b - x
  BY <1>2
<1>4. ASSUME NEW y \in S PROVE y <= x
  <2>1. b - y \in T /\ y \in Int /\ x \in Int
    OBVIOUS
  <2>2. n <= b - y
    BY <1>2, <2>1
  <2> QED BY <1>3, <2>1, <2>2
<1> QED BY <1>4

\* While every scheduled day so far has been done and no other, the due rule of
\* interval habits, which goes by the completions, names the days of the cycle.
LEMMA IntervalDueInPhase ==
  ASSUME NEW h, IsRow(h), h.type = "interval_cycle", NEW day \in Int, AnchorDate(h) <= day,
         NEW completed \in SUBSET Int,
         \A d \in AnchorDate(h)..(day - 1) : d \in completed <=> OccursOn(h, d)
  PROVE  IsIntervalCycleDue(h, completed, day) <=> OccursOn(h, day)
<1> DEFINE anchor == AnchorDate(h)
           phase(n) == IntervalPhase(h.cfg, anchor, n)
           a == h.cfg.active
           b == h.cfg.break
           cycle == a + b
           past == {c \in completed : anchor <= c /\ c < day}
           last == CHOOSE c \in past : \A e \in past : e <= c
           fullRun == \A i \in 0..(a - 1) : last - i \in past
<1>1. IsIntervalCycleDue(h, completed, day)
        <=> IF past = {} THEN TRUE ELSE day >= last + 1 + (IF fullRun THEN b ELSE 0)
  BY DEF IsIntervalCycleDue
<1>2. anchor \in Int /\ phase(anchor) = 0 /\ OccursOn(h, anchor)
  BY AnchorPhase DEF IsRow
<1>3. /\ a \in Nat \ {0} /\ b \in Nat \ {0}
      /\ \A n \in Int : phase(n) \in 0..(cycle - 1) /\ (OccursOn(h, n) <=> phase(n) < a)
  BY IntervalOccurs
<1>4. /\ \A n \in Int : \A k \in Int : phase(n) + k \in 0..(cycle - 1) => phase(n + k) = phase(n) + k
      /\ \A n \in Int : \A k \in Int :
           (phase(n) + k) + cycle \in 0..(cycle - 1) => phase(n + k) = (phase(n) + k) + cycle
  BY PhaseShift
<1>5. \A c \in Int : c \in past <=> anchor <= c /\ c < day /\ OccursOn(h, c)
  BY <1>2
<1>6. CASE past = {}
  <2>1. day = anchor
    BY <1>2, <1>5, <1>6
  <2> QED BY <1>1, <1>2, <1>6, <2>1
<1>7. CASE past # {}
  <2>1. last \in past /\ \A e \in past : e <= last
    <3>1. past \in SUBSET Int /\ \A x \in past : x <= day
      <4>1. ASSUME NEW x \in past PROVE x \in Int /\ x <= day
        <5>1. x \in Int /\ x < day
          OBVIOUS
        <5> QED BY <5>1
      <4> QED BY <4>1
    <3> HIDE DEF past
    <3>2. \E c \in past : \A e \in past : e <= c
      BY <1>7, <3>1, LastExists
    <3> QED BY <3>2
  <2>2. last \in Int /\ anchor <= last /\ last < day /\ OccursOn(h, last)
    BY <1>5, <2>1
  <2>3. \A c \in Int : last < c /\ c < day => ~OccursOn(h, c)
    BY <1>2, <1>5, <2>1, <2>2
  <2> DEFINE p == phase(last)
  <2>4. p \in 0..(a - 1)
    BY <1>3, <2>2
  <2> HIDE DEF anchor, phase, a, b, past, last
  <2>5. CASE p < a - 1
    <3>1. p + 1 \in 0..(cycle - 1)
      BY <1>3, <2>4, <2>5
    <3>2. phase(last + 1) = p + 1
      BY <1>4, <2>2, <3>1
    <3>3. OccursOn(h, last + 1)
      BY <1>3, <2>2, <2>5, <3>2
    <3>4. day = last + 1
      BY <2>2, <2>3, <3>3
    <3>5. ~fullRun
      <4> SUFFICES ASSUME fullRun PROVE FALSE
        OBVIOUS
      <4> DEFINE k == 0 - (p + 1)
      <4>1. p + 1 \in 0..(a - 1) /\ k \in Int /\ last + k = last - (p + 1)
        BY <1>3, <2>2, <2>4, <2>5
      <4>2. (p + k) + cycle \in 0..(cycle - 1) /\ (p + k) + cycle >= a
        BY <1>3, <2>4
      <4> HIDE DEF k
      <4>3. phase(last + k) = (p + k) + cycle
        BY <1>4, <2>2, <4>1, <4>2
      <4>4. ~OccursOn(h, last + k)
        <5>1. last + k \in Int
          BY <2>2, <4>1
        <5> QED BY <1>3, <4>2, <4>3, <5>1
      <4>5. last + k \in past
        BY <4>1
      <4> QED BY <1>5, <2>2, <4>1, <4>4, <4>5
    <3> QED BY <1>1, <1>7, <2>2, <3>3, <3>4, <3>5
  <2>6. CASE p = a - 1
    <3>1. fullRun
      <4> SUFFICES ASSUME NEW i \in 0..(a - 1) PROVE last - i \in past
        OBVIOUS
      <4> DEFINE k == 0 - i
      <4>1. k \in Int /\ last + k = last - i /\ p + k \in 0..(cycle - 1) /\ p + k < a
        BY <1>3, <2>2, <2>6
      <4> HIDE DEF k
      <4>2. phase(last + k) = p + k
        BY <1>4, <2>2, <4>1
      <4>3. OccursOn(h, last - i)
        <5>1. last + k \in Int
          BY <2>2, <4>1
        <5> QED BY <1>3, <4>1, <4>2, <5>1
      <4>4. anchor <= last - i
        <5> SUFFICES ASSUME last - i < anchor PROVE FALSE
          BY <1>2, <2>2
        <5> DEFINE j == 0 - (last - anchor)
        <5>1. j \in Int /\ last + j = anchor /\ p + j \in 0..(cycle - 1) /\ p + j > 0
          BY <1>2, <1>3, <2>2, <2>6
        <5> HIDE DEF j
        <5>2. phase(anchor) = p + j
          BY <1>4, <2>2, <5>1
        <5> QED BY <1>2, <5>1, <5>2
      <4> QED BY <1>3, <1>5, <2>2, <4>3, <4>4
    <3>2. ASSUME NEW i \in 1..b PROVE last + i \in Int /\ ~OccursOn(h, last + i)
      <4>1. p + i \in 0..(cycle - 1) /\ p + i >= a /\ i \in Int /\ last + i \in Int
        BY <1>3, <2>2, <2>6
      <4>2. phase(last + i) = p + i
        BY <1>4, <2>2, <4>1
      <4> QED BY <1>3, <4>1, <4>2
    <3>3. OccursOn(h, last + (1 + b))
      <4>1. (p + (1 + b)) - cycle = 0 /\ last + (1 + b) \in Int
        BY <1>3, <2>2, <2>6
      <4>2. phase(last + b) = p + b
        <5>1. p + b \in 0..(cycle - 1)
          BY <1>3, <2>6
        <5> QED BY <1>3, <1>4, <2>2, <5>1
      <4>4. phase(last + (1 + b)) = 0
        <5> DEFINE n == last + (1 + b)
                   k == 0 - 1
        <5>1. n \in Int /\ k \in Int /\ n + k = last + b /\ phase(n + k) = cycle - 1
          BY <1>3, <2>2, <2>6, <4>2
        <5> HIDE DEF n
        <5>2. phase(n) \in 0..(cycle - 1)
          BY <1>3, <5>1
        <5>3. phase(n) > 0 => phase(n) + k \in 0..(cycle - 1) /\ phase(n) + k < cycle - 1
          BY <1>3, <5>2
        <5> HIDE DEF k
        <5>4. ~(phase(n) > 0)
          BY <1>3, <1>4, <5>1, <5>3
        <5> QED BY <1>3, <5>2, <5>4 DEF n
      <4> QED BY <1>3, <4>1, <4>4
    <3>4. day <= last + (1 + b)
      BY <1>3, <2>2, <2>3, <3>3
    <3>5. day # last + (1 + b) => ~OccursOn(h, day)
      <4> SUFFICES ASSUME day # last + (1 + b) PROVE ~OccursOn(h, day)
        OBVIOUS
      <4> DEFINE i == day - last
      <4>1. i \in 1..b /\ last + i = day
        BY <1>3, <2>2, <3>4
      <4> QED BY <3>2, <4>1
    <3> QED BY <1>1, <1>3, <1>7, <2>2, <3>1, <3>3, <3>4, <3>5
  <2> QED BY <1>3, <2>4, <2>5, <2>6
<1> QED BY <1>6, <1>7

\* Completions that were due when they were made never fill more days of a window
\* than a cycle with rests of one day would ask for: every run of `active` days and
\* one more has a day without.
LEMMA IntervalCapacity ==
  ASSUME NEW h, IsRow(h), h.type = "interval_cycle", NEW to \in Int,
         NEW completed \in SUBSET Int,
         \A c \in completed : IsIntervalCycleDue(h, completed, c)
  PROVE  LET from == AnchorDate(h)
         IN Cardinality({c \in completed : from <= c /\ c <= to})
              <= Cardinality({d \in from..to : (d - from) % (h.cfg.active + 1) < h.cfg.active})
<1> DEFINE from == AnchorDate(h)
           a == h.cfg.active
           F == from..to
           phase(n) == (n - from) % (a + 1)
           C == {c \in completed : from <= c /\ c <= to}
           Asked == {d \in F : phase(d) < a}
           Rest == F \ Asked
           Free == F \ C
<1>1. from \in Int /\ a \in Nat \ {0} /\ h.cfg.break \in Nat \ {0}
  BY IntervalOccurs DEF IsRow
<1>2. \A n \in Int : phase(n) \in 0..a
  <2> SUFFICES ASSUME NEW n \in Int PROVE phase(n) \in 0..a
    OBVIOUS
  <2> DEFINE m == n - from
             c == a + 1
  <2>1. m \in Int /\ c \in Nat \ {0}
    BY <1>1
  <2>2. m % c \in 0..(c - 1)
    <3> HIDE DEF m, c
    <3> QED BY <2>1, DivMod
  <2>3. c - 1 = a
    BY <1>1
  <2> QED BY <2>2, <2>3
<1>3. \A n \in Int : \A k \in 0..a : phase(n) = a => phase(n - k) = a - k
  <2> SUFFICES ASSUME NEW n \in Int, NEW k \in 0..a, phase(n) = a PROVE phase(n - k) = a - k
    OBVIOUS
  <2> DEFINE m == n - from
             c == a + 1
             j == 0 - k
  <2>1. m \in Int /\ c \in Nat \ {0} /\ j \in Int /\ m + j = (n - k) - from /\ m % c = a
    BY <1>1
  <2>2. 0 <= (m % c) + j /\ (m % c) + j < c
    BY <1>1, <2>1
  <2>3. (m + j) % c = (m % c) + j
    <3> HIDE DEF m, c, j
    <3> QED BY <2>1, <2>2, ModShift
  <2>4. (m % c) + j = a - k
    BY <1>1, <2>1
  <2> QED BY <2>1, <2>3, <2>4
<1>4. phase(from) = 0
  <2> DEFINE c == a + 1
  <2>1. c \in Nat \ {0} /\ from - from = 0
    BY <1>1
  <2>2. 0 = c * 0 + 0 /\ 0 \in 0..(c - 1)
    BY <1>1
  <2> HIDE DEF c
  <2>3. 0 % c = 0
    BY <2>1, <2>2, ModUnique
  <2> QED BY <2>1, <2>3 DEF c
<1> HIDE DEF phase
<1>5. \A r \in Rest : r \in Int /\ r <= to /\ phase(r) = a /\ from <= r - a
  <2> SUFFICES ASSUME NEW r \in Rest PROVE r \in Int /\ r <= to /\ phase(r) = a /\ from <= r - a
    OBVIOUS
  <2>1. r \in Int /\ from <= r /\ r <= to /\ ~(phase(r) < a)
    <3>1. r \in F /\ r \notin Asked
      OBVIOUS
    <3>2. r \in Int /\ from <= r /\ r <= to
      BY <1>1, <3>1
    <3> QED BY <3>1, <3>2
  <2>2. phase(r) = a
    BY <1>1, <1>2, <2>1
  <2>3. ASSUME r - a < from PROVE FALSE
    <3> DEFINE k == r - from
    <3>1. k \in 0..a /\ k < a /\ r - k = from
      BY <1>1, <2>1, <2>3
    <3> HIDE DEF k
    <3>2. phase(from) = a - k
      BY <1>3, <2>1, <2>2, <3>1
    <3> QED BY <1>1, <1>4, <3>1, <3>2
  <2> QED BY <1>1, <2>1, <2>2, <2>3
<1>6. \A r \in Rest : \E d \in (r - a)..r : d \in Free
  <2> SUFFICES ASSUME NEW r \in Rest, \A d \in (r - a)..r : d \notin Free PROVE FALSE
    OBVIOUS
  <2>1. r \in Int /\ r <= to /\ from <= r - a
    BY <1>5
  <2>2. \A d \in (r - a)..r : d \in completed /\ from <= d
    BY <1>1, <2>1
  <2> DEFINE past == {c \in completed : from <= c /\ c < r}
             last == CHOOSE c \in past : \A e \in past : e <= c
             fullRun == \A i \in 0..(a - 1) : last - i \in past
  <2>3. r \in completed /\ r - 1 \in past
    BY <1>1, <2>1, <2>2
  <2>4. IF past = {} THEN TRUE ELSE r >= last + 1 + (IF fullRun THEN h.cfg.break ELSE 0)
    BY <2>3 DEF IsIntervalCycleDue
  <2>5. \A e \in past : e \in Int /\ e <= r - 1
    <3> SUFFICES ASSUME NEW e \in past PROVE e \in Int /\ e <= r - 1
      OBVIOUS
    <3>1. e \in Int /\ e < r
      OBVIOUS
    <3> QED BY <2>1, <3>1
  <2>6. last = r - 1
    <3>1. \E c \in past : \A e \in past : e <= c
      BY <2>3, <2>5
    <3>2. last \in past /\ \A e \in past : e <= last
      <4> HIDE DEF past
      <4> QED BY <3>1
    <3> HIDE DEF past, last
    <3> QED BY <2>1, <2>3, <2>5, <3>2
  <2>7. fullRun
    <3> SUFFICES ASSUME NEW i \in 0..(a - 1) PROVE last - i \in past
      OBVIOUS
    <3> HIDE DEF last
    <3>1. last - i = (r - 1) - i /\ (r - 1) - i \in (r - a)..r /\ (r - 1) - i < r
      BY <1>1, <2>1, <2>6
    <3> QED BY <2>2, <3>1
  <2> HIDE DEF past, last, fullRun
  <2> QED BY <1>1, <2>1, <2>3, <2>4, <2>6, <2>7
<1> DEFINE f == [r \in Rest |-> CHOOSE d \in (r - a)..r : d \in Free]
<1> HIDE DEF phase, Rest, Free
<1>7. \A r \in Rest : f[r] \in (r - a)..r /\ f[r] \in Free
  BY <1>6
<1>8. \A r \in Rest : \A s \in Rest : r < s => r < s - a
  <2> SUFFICES ASSUME NEW r \in Rest, NEW s \in Rest, r < s, ~(r < s - a) PROVE FALSE
    OBVIOUS
  <2>1. r \in Int /\ s \in Int /\ phase(r) = a /\ phase(s) = a
    BY <1>5
  <2> DEFINE k == s - r
  <2>2. k \in 0..a /\ k > 0 /\ s - k = r
    BY <1>1, <2>1
  <2> HIDE DEF k
  <2>3. phase(s - k) = a - k
    BY <1>3, <2>1, <2>2
  <2> QED BY <1>1, <2>1, <2>2, <2>3
<1>9. f \in Injection(Rest, Free)
  <2>1. f \in [Rest -> Free]
    BY <1>7
  <2>2. ASSUME NEW r \in Rest, NEW s \in Rest, f[r] = f[s] PROVE r = s
    <3>1. r \in Int /\ s \in Int /\ f[r] \in (r - a)..r /\ f[r] \in (s - a)..s
      BY <1>5, <1>7, <2>2
    <3> HIDE DEF f
    <3>2. ~(r < s) /\ ~(s < r)
      BY <1>1, <1>8, <3>1
    <3> QED BY <3>1, <3>2
  <2> HIDE DEF f
  <2> QED BY <2>1, <2>2, Fun_IsInj
<1>10. IsFiniteSet(F)
  BY <1>1, FS_Interval
<1>11. C \in SUBSET F /\ Asked \in SUBSET F
  <2>1. \A c \in C : c \in Int /\ from <= c /\ c <= to
    OBVIOUS
  <2>2. \A c \in C : c \in F
    BY <1>1, <2>1
  <2>3. Asked \subseteq F
    OBVIOUS
  <2> QED BY <2>2, <2>3
<1> HIDE DEF F, C, Asked, f
<1>12. /\ IsFiniteSet(Free) /\ Cardinality(Free) = Cardinality(F) - Cardinality(C)
       /\ IsFiniteSet(Rest) /\ Cardinality(Rest) = Cardinality(F) - Cardinality(Asked)
  <2>1. F \cap C = C /\ F \cap Asked = Asked
    BY <1>11
  <2>2. \A T : IsFiniteSet(F \ T) /\ Cardinality(F \ T) = Cardinality(F) - Cardinality(F \cap T)
    BY <1>10, FS_Difference
  <2>3. IsFiniteSet(Free) /\ Cardinality(Free) = Cardinality(F) - Cardinality(C)
    BY <2>1, <2>2 DEF Free
  <2>4. IsFiniteSet(Rest) /\ Cardinality(Rest) = Cardinality(F) - Cardinality(Asked)
    BY <2>1, <2>2 DEF Rest
  <2> QED BY <2>3, <2>4
<1>13. Cardinality(Rest) <= Cardinality(Free)
  BY <1>9, <1>12, FS_Injection
<1>14. /\ Cardinality(F) \in Nat /\ Cardinality(C) \in Nat /\ Cardinality(Asked) \in Nat
  BY <1>10, <1>11, FS_Subset, FS_CardinalityType
<1>15. Cardinality(C) <= Cardinality(Asked)
  BY <1>12, <1>13, <1>14
<1> QED BY <1>15 DEF C, Asked, F, phase

=============================================================================
