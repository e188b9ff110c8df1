--------------------------- MODULE WebScreens_proofs ---------------------------
(* What the screens of the web applications show when nothing is under way, for   *)
(* any numbers of domains, queries, sections, dialogs, boxes, forms, conversations *)
(* and actions: dates and views, searches, console, export, dialogs and menus,    *)
(* widgets, forms, the domains page and the three panes of the mail application.   *)
(* WebApps_proofs puts them beside the other applications.                        *)
EXTENDS CalendarViews, Lookups, ConsoleApp, DataExport, Overlays, Widgets, Forms,
        MailDomains, MailReader, FiniteSetTheorems, SequenceTheorems, WellFoundedInduction,
        TLAPS

-------------------------------------------------------------------------------
(* Numbers. *)

\* A set of natural numbers that is not empty has a least one.
LEMMA LeastExists ==
    ASSUME NEW S, S \subseteq Nat, S # {}
    PROVE  \E m \in S : \A n \in S : m <= n
<1> DEFINE R == OpToRel(<, Nat)
<1>1. IsWellFoundedOn(R, Nat) BY NatLessThanWellFounded
<1>2. \A x, y \in Nat : y < x => <<y, x>> \in R BY DEF OpToRel
<1> HIDE DEF R
<1>3. PICK x \in S : \A y \in S : ~ (<<y, x>> \in R) BY <1>1, WFMin
<1>4. ASSUME NEW y \in S PROVE x <= y
 <2>1. x \in Nat /\ y \in Nat OBVIOUS
 <2>2. ~(y < x) BY <1>2, <1>3, <2>1
 <2> QED BY <2>1, <2>2
<1> QED BY <1>4

Below(S, n) == Cardinality({m \in S : m < n})

\* Below a number that is one higher there is one number more, if it is in the set.
LEMMA BelowNext ==
    ASSUME NEW S, IsFiniteSet(S), S \subseteq Nat, NEW n \in Nat
    PROVE  /\ Below(S, n) \in Nat
           /\ Below(S, n + 1) = Below(S, n) + (IF n \in S THEN 1 ELSE 0)
<1> DEFINE B == {m \in S : m < n}
           C == {m \in S : m < n + 1}
<1>1. B \in SUBSET S /\ n \notin B OBVIOUS
<1>2. C = IF n \in S THEN B \cup {n} ELSE B
 <2>1. \A m \in S : m < n + 1 <=> m < n \/ m = n OBVIOUS
 <2> QED BY <2>1
<1>3. Below(S, n) = Cardinality(B) /\ Below(S, n + 1) = Cardinality(C) BY DEF Below
<1> HIDE DEF B, C
<1>4. IsFiniteSet(B) BY <1>1, FS_Subset
<1>5. Cardinality(B) \in Nat BY <1>4, FS_CardinalityType
<1>6. Cardinality(B \cup {n}) = Cardinality(B) + 1 BY <1>1, <1>4, FS_AddElement
<1> QED BY <1>2, <1>3, <1>5, <1>6

\* A finite set of numbers has a k-th one, up to its size: the least count of numbers
\* below that reaches k is reached by it.
LEMMA NthInExists ==
    ASSUME NEW S, NEW b \in Nat, S \subseteq 0 .. b, NEW h \in 1 .. Cardinality(S)
    PROVE  NthIn(S, h) \in S /\ Below(S, NthIn(S, h)) = h - 1
<1> DEFINE T == {n \in Nat : Below(S, n) >= h}
<1>1. IsFiniteSet(S)
 <2>1. IsFiniteSet(0 .. b) BY FS_Interval
 <2> QED BY <2>1, FS_Subset
<1>2. S \subseteq Nat /\ \A m \in S : m \in Nat /\ m <= b OBVIOUS
<1>3. Cardinality(S) \in Nat BY <1>1, FS_CardinalityType
<1>4. Below(S, b + 1) = Cardinality(S)
 <2>1. \A m \in S : m < b + 1 BY <1>2
 <2>2. {m \in S : m < b + 1} = S BY <2>1
 <2> QED BY <2>2 DEF Below
<1>5. b + 1 \in T BY <1>3, <1>4
<1>6. Below(S, 0) = 0
 <2>1. \A m \in S : ~(m < 0) BY <1>2
 <2>2. {m \in S : m < 0} = {} BY <2>1
 <2> QED BY <2>2, FS_EmptySet DEF Below
<1>7. \A n \in Nat : /\ Below(S, n) \in Nat
                     /\ Below(S, n + 1) = Below(S, n) + (IF n \in S THEN 1 ELSE 0)
  BY <1>1, <1>2, BelowNext
<1>8. T \subseteq Nat /\ T # {} BY <1>5
<1>9. PICK t \in T : \A n \in T : t <= n
 <2> HIDE DEF T
 <2> QED BY <1>8, LeastExists
<1>10. t \in Nat /\ Below(S, t) >= h OBVIOUS
<1>11. t # 0 /\ t - 1 \in Nat BY <1>6, <1>10
<1>12. ~(Below(S, t - 1) >= h)
 <2>1. t - 1 \notin T BY <1>9, <1>11
 <2> QED BY <1>11, <2>1
<1>13. Below(S, t) = Below(S, t - 1) + (IF t - 1 \in S THEN 1 ELSE 0)
 <2>1. t = (t - 1) + 1 BY <1>10
 <2>2. Below(S, (t - 1) + 1) = Below(S, t - 1) + (IF t - 1 \in S THEN 1 ELSE 0) BY <1>7, <1>11
 <2> QED BY <2>1, <2>2
<1>14. Below(S, t - 1) \in Nat BY <1>7, <1>11
<1>15. t - 1 \in S /\ Below(S, t - 1) = h - 1 BY <1>10, <1>12, <1>13, <1>14
<1>16. \E n \in S : Below(S, n) = h - 1 BY <1>15
<1> QED BY <1>16 DEF NthIn, Below

\* A finite set of numbers that is not empty has a greatest one: the one with the fewest
\* numbers above it.
LEMMA GreatestOf ==
    ASSUME NEW S, IsFiniteSet(S), S \subseteq Nat, S # {}
    PROVE  \E m \in S : \A n \in S : n <= m
<1> DEFINE U(m) == {n \in S : n > m}
           C == {Cardinality(U(m)) : m \in S}
<1>1. \A m \in S : U(m) \subseteq S OBVIOUS
<1>2. \A m \in S : IsFiniteSet(U(m)) /\ Cardinality(U(m)) \in Nat
 <2> TAKE m \in S
 <2> HIDE DEF U
 <2>1. IsFiniteSet(U(m)) BY <1>1, FS_Subset
 <2> QED BY <2>1, FS_CardinalityType
<1>3. C \subseteq Nat /\ C # {} BY <1>2
<1>4. PICK c \in C : \A d \in C : c <= d
 <2> HIDE DEF C
 <2> QED BY <1>3, LeastExists
<1>5. PICK m \in S : c = Cardinality(U(m)) OBVIOUS
<1>6. ASSUME NEW n \in S, ~(n <= m) PROVE FALSE
 <2>1. n \in U(m) /\ n \notin U(n) BY <1>6
 <2>2. U(n) \subseteq U(m)
  <3>1. ASSUME NEW x \in S, x > n PROVE x > m
   <4>1. x \in Nat /\ n \in Nat /\ m \in Nat OBVIOUS
   <4> QED BY <1>6, <3>1, <4>1
  <3> QED BY <3>1
 <2>3. U(n) \cup {n} \subseteq U(m) BY <2>1, <2>2
 <2>4. Cardinality(U(n)) \in C OBVIOUS
 <2> HIDE DEF U, C
 <2>5. Cardinality(U(n) \cup {n}) = Cardinality(U(n)) + 1 BY <1>2, <2>1, FS_AddElement
 <2>6. Cardinality(U(n) \cup {n}) <= Cardinality(U(m)) BY <1>2, <2>3, FS_Subset
 <2>7. c <= Cardinality(U(n)) /\ Cardinality(U(n)) \in Nat /\ c \in Nat BY <1>2, <1>4, <1>5, <2>4
 <2> QED BY <1>5, <2>5, <2>6, <2>7
<1> QED BY <1>6

LEMMA FiniteIsBounded ==
    ASSUME NEW S, IsFiniteSet(S), S \subseteq Nat
    PROVE  \E b \in Nat : S \subseteq 0 .. b
<1>1. CASE S = {} BY <1>1
<1>2. CASE S # {}
 <2>1. PICK m \in S : \A n \in S : n <= m BY <1>2, GreatestOf
 <2>2. \A n \in S : n \in 0 .. m BY <2>1
 <2>3. m \in Nat /\ S \subseteq 0 .. m BY <2>2
 <2> QED BY <2>3
<1> QED BY <1>1, <1>2

\* The elements of a finite set of numbers, in their order, are all of it.
LEMMA NthInIsAll ==
    ASSUME NEW S, IsFiniteSet(S), S \subseteq Nat
    PROVE  /\ Cardinality(S) \in Nat
           /\ \A i \in 1 .. Cardinality(S) : NthIn(S, i) \in S /\ Below(S, NthIn(S, i)) = i - 1
           /\ \A i, j \in 1 .. Cardinality(S) : NthIn(S, i) = NthIn(S, j) => i = j
           /\ \A k \in S : \E i \in 1 .. Cardinality(S) : NthIn(S, i) = k
<1>0. PICK b \in Nat : S \subseteq 0 .. b BY FiniteIsBounded
<1>2. Cardinality(S) \in Nat BY FS_CardinalityType
<1>4. \A i \in 1 .. Cardinality(S) : NthIn(S, i) \in S /\ Below(S, NthIn(S, i)) = i - 1
  BY <1>0, NthInExists
<1>5. ASSUME NEW i \in 1 .. Cardinality(S), NEW j \in 1 .. Cardinality(S),
             NthIn(S, i) = NthIn(S, j)
      PROVE  i = j
 <2>1. i - 1 = j - 1 BY <1>4, <1>5
 <2> QED BY <1>2, <2>1
<1>6. ASSUME NEW k \in S PROVE \E i \in 1 .. Cardinality(S) : NthIn(S, i) = k
 <2>1. \A x \in S : x \in Nat OBVIOUS
 <2> DEFINE U(x) == {m \in S : m < x}
 <2>2. ASSUME NEW x \in S
       PROVE  /\ IsFiniteSet(U(x)) /\ Cardinality(U(x)) \in Nat /\ Below(S, x) = Cardinality(U(x))
              /\ Cardinality(U(x) \cup {x}) = Cardinality(U(x)) + 1
  <3>1. U(x) \subseteq S /\ x \notin U(x) BY <2>1
  <3>2. IsFiniteSet(U(x)) BY <3>1, FS_Subset
  <3> QED BY <3>1, <3>2, FS_CardinalityType, FS_AddElement DEF Below
 <2>8. ASSUME NEW x \in S PROVE U(x) \cup {x} \subseteq S OBVIOUS
 <2>9. ASSUME NEW x \in S, NEW y \in S, x < y
       PROVE  U(x) \cup {x} \subseteq U(y)
  <3>1. \A m \in S : m < x => m < y BY <2>1, <2>9
  <3> QED BY <2>9, <3>1
 <2> HIDE DEF U
 <2>3. ASSUME NEW x \in S, NEW y \in S, x < y
       PROVE  Below(S, x) < Below(S, y)
  <3>1. U(x) \cup {x} \subseteq U(y) BY <2>3, <2>9
  <3>2. IsFiniteSet(U(y)) BY <2>2
  <3>3. Cardinality(U(x) \cup {x}) <= Cardinality(U(y)) BY <3>1, <3>2, FS_Subset
  <3>4. Cardinality(U(x)) \in Nat /\ Cardinality(U(y)) \in Nat
        /\ Below(S, x) = Cardinality(U(x)) /\ Below(S, y) = Cardinality(U(y))
        /\ Cardinality(U(x) \cup {x}) = Cardinality(U(x)) + 1
    BY <2>2
  <3> QED BY <3>3, <3>4
 <2>4. PICK i : i = Below(S, k) + 1 OBVIOUS
 <2>5. i \in 1 .. Cardinality(S)
  <3>1. U(k) \cup {k} \subseteq S BY <2>8
  <3>2. Cardinality(U(k) \cup {k}) <= Cardinality(S) BY <3>1, FS_Subset
  <3>3. /\ Cardinality(U(k)) \in Nat /\ Below(S, k) = Cardinality(U(k))
        /\ Cardinality(U(k) \cup {k}) = Cardinality(U(k)) + 1
    BY <2>2
  <3> QED BY <1>2, <2>4, <3>2, <3>3
 <2>6. NthIn(S, i) \in S /\ Below(S, NthIn(S, i)) = Below(S, k)
  <3>1. Below(S, k) \in Nat BY <2>2
  <3> QED BY <1>4, <2>4, <2>5, <3>1
 <2>7. NthIn(S, i) = k
  <3>1. PICK x \in S : x = NthIn(S, i) BY <2>6
  <3>2. Below(S, x) = Below(S, k) /\ Below(S, x) \in Nat BY <2>2, <2>6, <3>1
  <3>3. ~(x < k) /\ ~(k < x) BY <2>3, <3>2
  <3> QED BY <2>1, <3>1, <3>3
 <2> QED BY <2>5, <2>7
<1> QED BY <1>2, <1>4, <1>5, <1>6

\* A set with one element more at most, and one with one element less at least.
LEMMA OneMore ==
    ASSUME NEW A, NEW B, NEW k, IsFiniteSet(A), B \subseteq A \cup {k}
    PROVE  IsFiniteSet(B) /\ Cardinality(B) \in Nat /\ Cardinality(B) <= Cardinality(A) + 1
<1>1. /\ IsFiniteSet(A \cup {k})
      /\ Cardinality(A \cup {k}) = IF k \in A THEN Cardinality(A) ELSE Cardinality(A) + 1
  BY FS_AddElement
<1>2. IsFiniteSet(B) /\ Cardinality(B) <= Cardinality(A \cup {k}) BY <1>1, FS_Subset
<1>3. Cardinality(A) \in Nat /\ Cardinality(B) \in Nat BY <1>2, FS_CardinalityType
<1> QED BY <1>1, <1>2, <1>3

LEMMA OneLess ==
    ASSUME NEW A, NEW B, NEW j \in A, IsFiniteSet(A), B \subseteq A \ {j}
    PROVE  Cardinality(B) + 1 <= Cardinality(A)
<1>1. /\ IsFiniteSet(A \ {j}) /\ Cardinality(A \ {j}) = Cardinality(A) - 1 BY FS_RemoveElement
<1>2. IsFiniteSet(B) /\ Cardinality(B) <= Cardinality(A \ {j}) BY <1>1, FS_Subset
<1> QED BY <1>1, <1>2, FS_CardinalityType

-------------------------------------------------------------------------------
(* I. The dates and the views of the calendar application. *)

MonthCount == Len(MonthLength)

LEMMA ConstantsOfViews ==
    /\ MonthCount \in Nat /\ Months = 1 .. MonthCount
    /\ \A m \in 1 .. MonthCount : MonthLength[m] \in 28 .. 31
    /\ FirstWeekday \in 0 .. 6 /\ Ticks \in Nat \ {0}
  BY ViewsAssumption DEF MonthCount, Months

\* The days before month m, for the months up to n.
Counts(f, n) == f = [m \in 1 .. n + 1 |-> IF m = 1 THEN 0 ELSE f[m - 1] + MonthLength[m - 1]]

\* The recursion of FirstDay defines a function: a least number of months that it counts for
\* no function would be one more than a number that it does.
LEMMA CountsExist == \A n \in Nat : \E f : Counts(f, n)
<1> DEFINE Bad == {n \in Nat : ~ \E f : Counts(f, n)}
<1>1. 0 \notin Bad
 <2>1. PICK g : g = [m \in 1 .. 0 + 1 |-> 0] OBVIOUS
 <2>2. \A m \in 1 .. 0 + 1 : m = 1 OBVIOUS
 <2>3. Counts(g, 0) BY <2>1, <2>2 DEF Counts
 <2> QED BY <2>3
<1>2. ASSUME NEW n \in Nat, n \notin Bad
      PROVE  n + 1 \notin Bad
 <2>1. PICK f : Counts(f, n) BY <1>2
 <2>2. PICK g : g = [m \in 1 .. (n + 1) + 1 |-> IF m = n + 2 THEN f[n + 1] + MonthLength[n + 1] ELSE f[m]]
   OBVIOUS
 <2>3. ASSUME NEW m \in 1 .. (n + 1) + 1
       PROVE  g[m] = IF m = 1 THEN 0 ELSE g[m - 1] + MonthLength[m - 1]
  <3>1. CASE m = n + 2
   <4>1. m # 1 /\ m - 1 = n + 1 /\ n + 1 \in 1 .. (n + 1) + 1 /\ n + 1 # n + 2 BY <3>1
   <4>2. g[n + 1] = f[n + 1] BY <2>2, <4>1
   <4> QED BY <2>2, <3>1, <4>1, <4>2
  <3>2. CASE m # n + 2
   <4>1. m \in 1 .. n + 1 BY <3>2
   <4>2. f[m] = IF m = 1 THEN 0 ELSE f[m - 1] + MonthLength[m - 1] BY <2>1, <4>1 DEF Counts
   <4>3. m # 1 => m - 1 \in 1 .. (n + 1) + 1 /\ m - 1 # n + 2 BY <4>1
   <4>4. m # 1 => g[m - 1] = f[m - 1] BY <2>2, <4>3
   <4> QED BY <2>2, <3>2, <4>2, <4>4
  <3> QED BY <3>1, <3>2
 <2>4. g = [m \in 1 .. (n + 1) + 1 |-> IF m = 1 THEN 0 ELSE g[m - 1] + MonthLength[m - 1]]
   BY <2>2, <2>3
 <2>5. Counts(g, n + 1) BY <2>4 DEF Counts
 <2> QED BY <2>5
<1>3. Bad \subseteq Nat OBVIOUS
<1>4. Bad = {}
 <2> HIDE DEF Bad
 <2>1. SUFFICES ASSUME Bad # {} PROVE FALSE OBVIOUS
 <2>2. PICK b \in Bad : \A n \in Bad : b <= n BY <1>3, <2>1, LeastExists
 <2>3. b \in Nat /\ b # 0 BY <1>1, <1>3
 <2>4. b - 1 \in Nat /\ (b - 1) + 1 = b BY <2>3
 <2>5. b - 1 \notin Bad BY <1>3, <2>2, <2>3
 <2> QED BY <1>2, <2>4, <2>5
<1> QED BY <1>4

LEMMA FirstDays ==
    /\ FirstDay[1] = 0
    /\ \A m \in 1 .. MonthCount : FirstDay[m + 1] = FirstDay[m] + MonthLength[m]
<1>1. Counts(FirstDay, MonthCount) BY ConstantsOfViews, CountsExist DEF Counts, FirstDay, MonthCount
<1>2. 1 \in 1 .. MonthCount + 1 /\ \A m \in 1 .. MonthCount : m + 1 \in 1 .. MonthCount + 1 /\ m + 1 # 1 /\ (m + 1) - 1 = m
  BY ConstantsOfViews
<1>3. \A m \in 1 .. MonthCount + 1 : FirstDay[m] = IF m = 1 THEN 0 ELSE FirstDay[m - 1] + MonthLength[m - 1]
  BY <1>1 DEF Counts
<1> QED BY <1>2, <1>3

\* Months follow each other.
LEMMA MonthsFollow ==
    /\ \A m \in 1 .. MonthCount + 1 : FirstDay[m] \in Nat
    /\ \A m \in 1 .. MonthCount + 1 : \A n \in 1 .. m : FirstDay[n] <= FirstDay[m]
<1> DEFINE Good(m) == FirstDay[m] \in Nat /\ \A n \in 1 .. m : FirstDay[n] \in Nat /\ FirstDay[n] <= FirstDay[m]
           Bad == {m \in 1 .. MonthCount + 1 : ~ Good(m)}
<1>1. Good(1)
 <2>1. \A n \in 1 .. 1 : n = 1 OBVIOUS
 <2> QED BY <2>1, FirstDays
<1>2. ASSUME NEW m \in 1 .. MonthCount, Good(m)
      PROVE  Good(m + 1)
 <2>1. FirstDay[m + 1] = FirstDay[m] + MonthLength[m] BY FirstDays
 <2>2. MonthLength[m] \in 28 .. 31 BY ConstantsOfViews
 <2>3. FirstDay[m + 1] \in Nat /\ FirstDay[m] <= FirstDay[m + 1] BY <1>2, <2>1, <2>2
 <2>4. ASSUME NEW n \in 1 .. m + 1 PROVE FirstDay[n] \in Nat /\ FirstDay[n] <= FirstDay[m + 1]
  <3>1. CASE n = m + 1 BY <2>3, <3>1
  <3>2. CASE n \in 1 .. m
   <4>1. FirstDay[n] \in Nat /\ FirstDay[n] <= FirstDay[m] BY <1>2, <3>2
   <4> QED BY <1>2, <2>3, <4>1
  <3> QED BY <3>1, <3>2
 <2> QED BY <2>3, <2>4
<1>3. Bad \subseteq Nat BY ConstantsOfViews
<1>4. Bad = {}
 <2>1. SUFFICES ASSUME Bad # {} PROVE FALSE OBVIOUS
 <2>2. PICK b \in Bad : \A n \in Bad : b <= n
  <3> HIDE DEF Bad
  <3> QED BY <1>3, <2>1, LeastExists
 <2>3. b \in 1 .. MonthCount + 1 /\ b # 1 BY <1>1
 <2>4. b - 1 \in 1 .. MonthCount /\ (b - 1) + 1 = b BY <2>3, ConstantsOfViews
 <2>5. b - 1 \notin Bad BY <2>2, <2>3, <2>4
 <2>6. Good(b - 1)
  <3>1. b - 1 \in 1 .. MonthCount + 1 BY <2>4, ConstantsOfViews
  <3> QED BY <2>5, <3>1
 <2>7. Good((b - 1) + 1)
  <3> HIDE DEF Good
  <3> QED BY <1>2, <2>4, <2>6
 <2> QED BY <2>4, <2>7
<1> QED BY <1>4

\* The month of a day, for the days of the range.
LEMMA MonthIs ==
    ASSUME NEW m \in 1 .. MonthCount, NEW d \in Int, FirstDay[m] <= d, d < FirstDay[m + 1]
    PROVE  MonthOf(d) = m
<1>1. ASSUME NEW n \in Months, FirstDay[n] <= d, d < FirstDay[n + 1]
      PROVE  n = m
 <2>1. n \in 1 .. MonthCount /\ n \in Nat /\ m \in Nat /\ MonthCount \in Nat BY ConstantsOfViews
 <2>2. ~(n < m)
  <3>1. SUFFICES ASSUME n < m PROVE FALSE OBVIOUS
  <3>2. n + 1 \in 1 .. m /\ m \in 1 .. MonthCount + 1 BY <2>1, <3>1
  <3>3. FirstDay[n + 1] <= FirstDay[m] BY <3>2, MonthsFollow
  <3>4. FirstDay[n + 1] \in Nat /\ FirstDay[m] \in Nat BY <2>1, <3>2, MonthsFollow
  <3> QED BY <1>1, <3>3, <3>4
 <2>3. ~(m < n)
  <3>1. SUFFICES ASSUME m < n PROVE FALSE OBVIOUS
  <3>2. m + 1 \in 1 .. n /\ n \in 1 .. MonthCount + 1 BY <2>1, <3>1
  <3>3. FirstDay[m + 1] <= FirstDay[n] BY <3>2, MonthsFollow
  <3>4. FirstDay[m + 1] \in Nat /\ FirstDay[n] \in Nat BY <2>1, <3>2, MonthsFollow
  <3> QED BY <1>1, <3>3, <3>4
 <2> QED BY <2>1, <2>2, <2>3
<1>2. m \in Months BY ConstantsOfViews
<1> QED BY <1>1, <1>2 DEF MonthOf

LEMMA MonthExists ==
    ASSUME NEW d \in 0 .. FirstDay[MonthCount + 1] - 1
    PROVE  /\ MonthOf(d) \in 1 .. MonthCount
           /\ FirstDay[MonthOf(d)] <= d /\ d < FirstDay[MonthOf(d) + 1]
<1> DEFINE After == {m \in 1 .. MonthCount + 1 : d < FirstDay[m]}
<1>1. MonthCount + 1 \in 1 .. MonthCount + 1 /\ FirstDay[MonthCount + 1] \in Nat BY ConstantsOfViews, MonthsFollow
<1>2. MonthCount + 1 \in After /\ d \in Nat BY <1>1
<1>3. After \subseteq Nat BY ConstantsOfViews
<1>4. PICK m \in After : \A n \in After : m <= n
 <2> HIDE DEF After
 <2> QED BY <1>2, <1>3, LeastExists
<1>5. m # 1 /\ m \in 1 .. MonthCount + 1 BY <1>2, FirstDays
<1>6. m - 1 \in 1 .. MonthCount /\ m - 1 \in 1 .. MonthCount + 1 /\ (m - 1) + 1 = m BY <1>5, ConstantsOfViews
<1>7. m - 1 \notin After BY <1>4, <1>5, <1>6
<1>8. FirstDay[m - 1] \in Nat BY <1>6, MonthsFollow
<1>9. FirstDay[m - 1] <= d /\ d < FirstDay[(m - 1) + 1] BY <1>2, <1>4, <1>6, <1>7, <1>8
<1>10. d \in Int BY <1>2
<1>11. MonthOf(d) = m - 1 BY <1>6, <1>9, <1>10, MonthIs
<1> QED BY <1>6, <1>9, <1>11

\* A date is in its month, whose neighbours have days too.
LEMMA InnerDays ==
    ASSUME NEW d \in Inner
    PROVE  /\ d \in Nat /\ MonthOf(d) \in 3 .. MonthCount - 2 /\ DateOf(d) \in 1 .. 31
           /\ FirstDay[MonthOf(d)] \in Nat /\ d = FirstDay[MonthOf(d)] + DateOf(d) - 1
           /\ d < FirstDay[MonthOf(d) + 1]
<1>1. d \in 0 .. FirstDay[MonthCount + 1] - 1 /\ MonthOf(d) \in 3 .. MonthCount - 2 BY DEF Inner, MonthCount
<1>2. MonthCount + 1 \in 1 .. MonthCount + 1 /\ FirstDay[MonthCount + 1] \in Nat BY ConstantsOfViews, MonthsFollow
<1>3. PICK m \in 1 .. MonthCount : m = MonthOf(d) /\ FirstDay[m] <= d /\ d < FirstDay[m + 1]
  BY <1>1, MonthExists
<1>4. m \in 1 .. MonthCount + 1 BY ConstantsOfViews
<1>5. FirstDay[m] \in Nat /\ FirstDay[m + 1] = FirstDay[m] + MonthLength[m] /\ MonthLength[m] \in 28 .. 31
  BY <1>4, ConstantsOfViews, FirstDays, MonthsFollow
<1>6. DateOf(d) = d - FirstDay[m] + 1 BY <1>3 DEF DateOf
<1>7. d \in Nat BY <1>1, <1>2
<1> QED BY <1>1, <1>3, <1>5, <1>6, <1>7

\* A month has 28 days at least: these days of it are dates of the next and of the last.
LEMMA MovedMonths ==
    ASSUME NEW d \in Inner, DateOf(d) <= 28, NEW n \in {-1, 1}
    PROVE  /\ MonthOf(MonthMoved(d, n)) = MonthOf(d) + n
           /\ DateOf(MonthMoved(d, n)) = DateOf(d)
<1>1. PICK m \in 3 .. MonthCount - 2 : m = MonthOf(d) BY InnerDays
<1>2. PICK k \in 1 .. 28 : k = DateOf(d)
 <2>1. DateOf(d) \in 1 .. 31 BY InnerDays
 <2> QED BY <2>1
<1>3. m + n \in 1 .. MonthCount /\ m + n \in 1 .. MonthCount + 1 BY ConstantsOfViews
<1>4. FirstDay[m + n] \in Nat /\ FirstDay[(m + n) + 1] = FirstDay[m + n] + MonthLength[m + n]
      /\ MonthLength[m + n] \in 28 .. 31
  BY <1>3, ConstantsOfViews, FirstDays, MonthsFollow
<1>5. PICK e : e = FirstDay[m + n] + k - 1 OBVIOUS
<1>6. e \in Int /\ FirstDay[m + n] <= e /\ e < FirstDay[(m + n) + 1] BY <1>2, <1>4, <1>5
<1>7. MonthOf(e) = m + n BY <1>3, <1>6, MonthIs
<1>8. DateOf(e) = k BY <1>4, <1>5, <1>7 DEF DateOf
<1>9. MonthMoved(d, n) = e BY <1>1, <1>2, <1>5 DEF MonthMoved
<1> QED BY <1>1, <1>2, <1>7, <1>8, <1>9

LEMMA WeekdayIs == ASSUME NEW d \in Int PROVE Weekday(d) \in 0 .. 6 /\ (d - Weekday(d) + FirstWeekday) % 7 = 0
  BY ConstantsOfViews DEF Weekday

\* A week back or forward the day of the week is the same, and no day of the one is in the other.
LEMMA MovedWeeks ==
    ASSUME NEW d \in Int, NEW n \in {-1, 1}
    PROVE  /\ Weekday(d + 7 * n) = Weekday(d)
           /\ ToSet(WeekDates(d)) \cap ToSet(WeekDates(d + 7 * n)) = {}
<1>1. Weekday(d + 7 * n) = Weekday(d) /\ Weekday(d) \in 0 .. 6 BY ConstantsOfViews DEF Weekday
<1>2. ASSUME NEW e \in Int, NEW x \in ToSet(WeekDates(e))
      PROVE  x \in e - Weekday(e) .. e - Weekday(e) + 6
 <2>1. PICK w \in 0 .. 6 : w = Weekday(e) BY WeekdayIs
 <2>2. (e - w + 6) - (e - w) + 1 = 7 BY <2>1
 <2>3. WeekDates(e) = [i \in 1 .. 7 |-> (e - w) + i - 1] BY <2>1, <2>2 DEF WeekDates, Days
 <2>4. PICK i \in 1 .. 7 : x = (e - w) + i - 1 BY <1>2, <2>3 DEF ToSet
 <2> QED BY <2>1, <2>4
<1>3. PICK e \in Int : e = d + 7 * n OBVIOUS
<1>4. PICK w \in 0 .. 6 : w = Weekday(d) /\ w = Weekday(e) BY <1>1, <1>3
<1>5. ASSUME NEW x \in ToSet(WeekDates(d)) \cap ToSet(WeekDates(e)) PROVE FALSE
 <2>1. x \in d - w .. d - w + 6 BY <1>2, <1>4
 <2>2. x \in e - w .. e - w + 6 BY <1>2, <1>4
 <2> QED BY <1>3, <2>1, <2>2
<1> QED BY <1>1, <1>3, <1>5

ViewsInv == ViewsTypeOK /\ today \in Inner /\ currentDate \in Inner

LEMMA ViewsInitOK == ViewsInit => ViewsInv
  BY TodaysAssumption DEF ViewsInit, ViewsInv, ViewsTypeOK

LEMMA ViewsNextOK == ViewsInv /\ [ViewsNext]_viewVars => ViewsInv'
<1> SUFFICES ASSUME ViewsInv, [ViewsNext]_viewVars PROVE ViewsInv' OBVIOUS
<1> USE DEF ViewsInv, ViewsTypeOK
<1>1. ASSUME NEW m \in {"month", "week", "day"}, SetViewMode(m) PROVE ViewsInv'
  BY <1>1 DEF SetViewMode
<1>2. ASSUME NEW d, Show(d) PROVE ViewsInv' BY <1>2 DEF Show
<1>3. ASSUME NEW c \in Calendars, ToggleCalendar(c) PROVE ViewsInv' BY <1>3 DEF ToggleCalendar
<1>4. CASE UNCHANGED viewVars BY <1>4 DEF viewVars
<1> QED BY <1>1, <1>2, <1>3, <1>4 DEF ViewsNext, GoToday, GoPrev, GoNext, PrevMonth, NextMonth, PickDay

\* The arrows turn the page they show.
PagesTurned ==
    currentDate # currentDate' /\ (GoPrev \/ GoNext) =>
         CASE viewMode = "month" ->
                DateOf(currentDate) <= 28 =>
                    /\ MonthOf(currentDate') - MonthOf(currentDate) \in {-1, 1}
                    /\ DateOf(currentDate') = DateOf(currentDate)
           [] viewMode = "week" ->
                /\ ToSet(WeekDates(currentDate)) \cap ToSet(WeekDates(currentDate)') = {}
                /\ Weekday(currentDate') = Weekday(currentDate)
           [] OTHER -> currentDate' - currentDate \in {-1, 1}

LEMMA ArrowsTurn == ViewsInv => PagesTurned
<1> SUFFICES ASSUME ViewsInv, GoPrev \/ GoNext PROVE PagesTurned BY DEF PagesTurned
<1>1. PICK n \in {-1, 1} : Show(Moved(currentDate, n)) BY DEF GoPrev, GoNext
<1>2. currentDate' = Moved(currentDate, n) BY <1>1 DEF Show
<1>3. currentDate \in Inner /\ currentDate \in Int /\ MonthOf(currentDate) \in Int
  BY InnerDays DEF ViewsInv
<1>4. CASE viewMode = "month"
 <2>1. currentDate' = MonthMoved(currentDate, n) BY <1>2, <1>4 DEF Moved
 <2>2. DateOf(currentDate) <= 28 =>
           /\ MonthOf(currentDate') = MonthOf(currentDate) + n
           /\ DateOf(currentDate') = DateOf(currentDate)
   BY <1>3, <2>1, MovedMonths
 <2> QED BY <1>3, <1>4, <2>2 DEF PagesTurned
<1>5. CASE viewMode = "week"
 <2>1. currentDate' = currentDate + 7 * n BY <1>2, <1>5 DEF Moved
 <2>2. PICK e : e = currentDate' OBVIOUS
 <2>3. Weekday(e) = Weekday(currentDate) /\ ToSet(WeekDates(currentDate)) \cap ToSet(WeekDates(e)) = {}
   BY <1>3, <2>1, <2>2, MovedWeeks
 <2>4. ToSet(WeekDates(currentDate)') = ToSet(WeekDates(e)) /\ Weekday(currentDate') = Weekday(e)
   BY <2>2 DEF ToSet, WeekDates, Weekday, Days
 <2> QED BY <1>5, <2>3, <2>4 DEF PagesTurned
<1>6. CASE viewMode = "day"
 <2>1. currentDate' = currentDate + n BY <1>2, <1>6 DEF Moved
 <2> QED BY <1>3, <1>6, <2>1 DEF PagesTurned
<1> QED BY <1>4, <1>5, <1>6 DEF ViewsInv, ViewsTypeOK

(* What the views show. *)

\* The days from a to b.
LEMMA DaysAre ==
    ASSUME NEW a \in Int, NEW n \in Nat
    PROVE  /\ Days(a, a + n - 1) = [i \in 1 .. n |-> a + i - 1]
           /\ Days(a, a + n - 1) \in Seq(Int) /\ Len(Days(a, a + n - 1)) = n
           /\ ToSet(Days(a, a + n - 1)) = a .. a + n - 1
<1>1. PICK s : s = [i \in 1 .. n |-> a + i - 1] OBVIOUS
<1>2. (a + n - 1) - a + 1 = n OBVIOUS
<1>3. Days(a, a + n - 1) = s BY <1>1, <1>2 DEF Days
<1>4. s \in Seq(Int) /\ Len(s) = n BY <1>1
<1>5. ToSet(s) = a .. a + n - 1
 <2>1. ASSUME NEW x \in ToSet(s) PROVE x \in a .. a + n - 1 BY <1>1, <2>1 DEF ToSet
 <2>2. ASSUME NEW x \in a .. a + n - 1 PROVE x \in ToSet(s)
  <3>1. x - a + 1 \in 1 .. n /\ s[x - a + 1] = x BY <1>1
  <3>2. DOMAIN s = 1 .. n BY <1>1
  <3> QED BY <3>1, <3>2 DEF ToSet
 <2> QED BY <2>1, <2>2
<1> QED BY <1>1, <1>3, <1>4, <1>5

\* Weeks that follow each other are, one after the other, the days of all of them: the
\* recursion of FlattenSeq has no other solution than these.
LEMMA Flattened ==
    ASSUME NEW a \in Int, NEW n \in Nat \ {0},
           NEW g, g = [r \in 1 .. n |-> Days(a + 7 * (r - 1), a + 7 * r - 1)]
    PROVE  FlattenSeq(g) = Days(a, a + 7 * n - 1)
<1> DEFINE Solves(f) == f = [i \in 1 .. n |-> IF i = 1 THEN g[i] ELSE f[i - 1] \o g[i]]
           Upto(i) == Days(a, a + 7 * i - 1)
<1>1. Len(g) = n OBVIOUS
<1>2. \A i \in 1 .. n : Upto(i) = [j \in 1 .. 7 * i |-> a + j - 1]
 <2>1. \A i \in 1 .. n : 7 * i \in Nat OBVIOUS
 <2> QED BY <2>1, DaysAre
<1>3. \A r \in 1 .. n : g[r] = [j \in 1 .. 7 |-> a + 7 * (r - 1) + j - 1]
 <2> SUFFICES ASSUME NEW r \in 1 .. n PROVE g[r] = [j \in 1 .. 7 |-> a + 7 * (r - 1) + j - 1]
   OBVIOUS
 <2>1. PICK b \in Int : b = a + 7 * (r - 1) OBVIOUS
 <2>2. a + 7 * r - 1 = b + 7 - 1 BY <2>1
 <2>3. g[r] = Days(b, b + 7 - 1) BY <2>1, <2>2
 <2>4. Days(b, b + 7 - 1) = [j \in 1 .. 7 |-> b + j - 1] BY DaysAre
 <2> QED BY <2>1, <2>3, <2>4
<1>4. ASSUME NEW i \in 1 .. n, i # 1 PROVE Upto(i - 1) \o g[i] = Upto(i)
 <2>1. i - 1 \in 1 .. n /\ 7 * (i - 1) \in Nat /\ 7 * i = 7 * (i - 1) + 7 BY <1>4
 <2>2. PICK p \in Nat : p = 7 * (i - 1) BY <2>1
 <2>3. PICK s : s = [j \in 1 .. p |-> a + j - 1] OBVIOUS
 <2>4. PICK t : t = [j \in 1 .. 7 |-> a + p + j - 1] OBVIOUS
 <2>5. s \in Seq(Int) /\ t \in Seq(Int) /\ Len(s) = p /\ Len(t) = 7 BY <2>1, <2>2, <2>3, <2>4
 <2>6. PICK u : u = s \o t OBVIOUS
 <2>7. /\ u \in Seq(Int) /\ Len(u) = p + 7
       /\ \A j \in 1 .. p + 7 : u[j] = IF j <= p THEN s[j] ELSE t[j - p]
  <3>1. /\ s \o t \in Seq(Int) /\ Len(s \o t) = Len(s) + Len(t)
        /\ \A j \in 1 .. Len(s) + Len(t) :
              (s \o t)[j] = IF j <= Len(s) THEN s[j] ELSE t[j - Len(s)]
    BY <2>5, ConcatProperties, Zenon
  <3> QED BY <2>5, <2>6, <3>1, Zenon
 <2>8. u = [j \in 1 .. p + 7 |-> a + j - 1]
  <3>1. ASSUME NEW j \in 1 .. p + 7 PROVE u[j] = a + j - 1
   <4>1. CASE j <= p
    <5>1. u[j] = s[j] /\ j \in 1 .. p BY <2>7, <4>1
    <5> QED BY <2>3, <5>1
   <4>2. CASE ~(j <= p)
    <5>1. PICK k \in 1 .. 7 : k = j - p BY <4>2
    <5>2. u[j] = t[k] BY <2>7, <4>2, <5>1
    <5> QED BY <2>4, <5>1, <5>2
   <4> QED BY <4>1, <4>2
  <3>2. u = [j \in 1 .. p + 7 |-> u[j]] BY <2>7
  <3> QED BY <3>1, <3>2
 <2>9. Upto(i - 1) = s /\ g[i] = t BY <1>2, <1>3, <2>1, <2>2, <2>3, <2>4
 <2>10. Upto(i) = [j \in 1 .. p + 7 |-> a + j - 1] BY <1>2, <2>1, <2>2
 <2> QED BY <2>6, <2>8, <2>9, <2>10
<1>5. Upto(1) = g[1]
 <2>1. 7 * 1 = 7 /\ 1 \in 1 .. n /\ a + 7 * (1 - 1) = a OBVIOUS
 <2> QED BY <1>2, <1>3, <2>1
<1>6. \E f : Solves(f)
 <2> HIDE DEF Upto
 <2>1. PICK f : f = [i \in 1 .. n |-> Upto(i)] OBVIOUS
 <2>2. ASSUME NEW i \in 1 .. n PROVE f[i] = IF i = 1 THEN g[i] ELSE f[i - 1] \o g[i]
  <3>1. CASE i = 1 BY <1>5, <2>1, <3>1
  <3>2. CASE i # 1
   <4>1. i - 1 \in 1 .. n BY <3>2
   <4> QED BY <1>4, <2>1, <3>2, <4>1
  <3> QED BY <3>1, <3>2
 <2>3. Solves(f) BY <2>1, <2>2
 <2> QED BY <2>3
<1>7. ASSUME NEW f, Solves(f) PROVE f[n] = Upto(n)
 <2> DEFINE Bad == {i \in 1 .. n : f[i] # Upto(i)}
 <2> HIDE DEF Upto
 <2>1. \A i \in 1 .. n : f[i] = IF i = 1 THEN g[i] ELSE f[i - 1] \o g[i] BY <1>7
 <2>2. Bad = {}
  <3>1. SUFFICES ASSUME Bad # {} PROVE FALSE OBVIOUS
  <3>2. PICK i \in Bad : \A j \in Bad : i <= j
   <4>1. Bad \subseteq Nat OBVIOUS
   <4> HIDE DEF Bad
   <4> QED BY <3>1, <4>1, LeastExists
  <3>3. i # 1 BY <1>5, <2>1, <3>2
  <3>4. i - 1 \in 1 .. n /\ i - 1 \notin Bad BY <3>2, <3>3
  <3>5. f[i - 1] = Upto(i - 1) BY <3>4
  <3> QED BY <1>4, <2>1, <3>2, <3>3, <3>5
 <2>3. n \in 1 .. n OBVIOUS
 <2> QED BY <2>2, <2>3
<1>8. PICK f : f = CHOOSE h : Solves(h) OBVIOUS
<1>9. Solves(f) BY <1>6, <1>8
<1>10. FlattenSeq(g) = f[n] BY <1>1, <1>8, Zenon DEF FlattenSeq
<1> QED BY <1>7, <1>9, <1>10

\* The n weeks from the Sunday a on begin and end with those of month m.
SpanOf(m, a, n) ==
    /\ m \in 3 .. MonthCount - 2 /\ a \in Int /\ n \in Nat \ {0}
    /\ FirstDay[m] \in Nat /\ FirstDay[m + 1] \in Nat /\ FirstDay[m] < FirstDay[m + 1]
    /\ a <= FirstDay[m] /\ FirstDay[m] <= a + 6 /\ Weekday(a) = 0
    /\ FirstDay[m + 1] <= a + 7 * n /\ a + 7 * n <= FirstDay[m + 1] + 6

\* The n weeks from day a on.
WeeksFrom(g, a, n) == g = [r \in 1 .. n |-> Days(a + 7 * (r - 1), a + 7 * r - 1)]

\* Its row r begins with day b.
RowFrom(b, a, r) == b = a + 7 * (r - 1)

\* The weeks of the month of a date.
GridFrom(d, m, a, n) ==
    /\ m = MonthOf(d) /\ SpanOf(m, a, n)
    /\ WeeksFrom(MonthGrid(d), a, n)

LEMMA GridIs ==
    ASSUME NEW d \in Inner
    PROVE  \E m, a, n : GridFrom(d, m, a, n)
<1>1. PICK m \in 3 .. MonthCount - 2 : m = MonthOf(d) BY InnerDays
<1>2. m \in 1 .. MonthCount /\ m \in 1 .. MonthCount + 1 BY ConstantsOfViews
<1>3. /\ FirstDay[m] \in Nat /\ MonthLength[m] \in 28 .. 31
      /\ FirstDay[m + 1] = FirstDay[m] + MonthLength[m]
  BY <1>2, ConstantsOfViews, FirstDays, MonthsFollow
<1>4. PICK o \in Nat : o = FirstDay[m] BY <1>3
<1>5. PICK k \in 28 .. 31 : k = MonthLength[m] BY <1>3
<1>6. PICK w \in 0 .. 6 : w = Weekday(o) /\ (o - w + FirstWeekday) % 7 = 0 BY WeekdayIs
<1>7. PICK n \in Nat \ {0} : n = (w + k + 6) \div 7
 <2>1. (w + k + 6) \div 7 \in Nat \ {0} OBVIOUS
 <2> QED BY <2>1
<1>8. PICK a \in Int : a = o - w OBVIOUS
<1>9. Weekday(a) = 0 BY <1>6, <1>8 DEF Weekday
<1>10. w + k <= 7 * n /\ 7 * n <= w + k + 6 BY <1>7
<1>11. o + k <= a + 7 * n /\ a + 7 * n <= o + k + 6 /\ a <= o /\ o <= a + 6 BY <1>8, <1>10
<1>12. MonthGrid(d) = [r \in 1 .. n |-> Days(a + 7 * (r - 1), a + 7 * r - 1)]
  BY <1>1, <1>4, <1>5, <1>6, <1>7, <1>8 DEF MonthGrid
<1>13. SpanOf(m, a, n) BY <1>3, <1>4, <1>5, <1>9, <1>11 DEF SpanOf
<1>14. GridFrom(d, m, a, n) BY <1>1, <1>12, <1>13 DEF GridFrom, WeeksFrom
<1> QED BY <1>14

\* The row r of the grid begins with day b.
LEMMA RowIs ==
    ASSUME NEW a \in Int, NEW n \in Nat \ {0}, NEW g, WeeksFrom(g, a, n), NEW r \in 1 .. n,
           NEW b \in Int, RowFrom(b, a, r)
    PROVE  /\ \A i \in 1 .. 7 : g[r][i] = b + i - 1
           /\ g[r] \in Seq(Int) /\ Len(g[r]) = 7
           /\ ToSet(g[r]) = b .. b + 7 - 1
<1>1. b = a + 7 * (r - 1) BY DEF RowFrom
<1>2. a + 7 * r - 1 = b + 7 - 1 BY <1>1
<1>3. g[r] = Days(b, b + 7 - 1) BY <1>1, <1>2 DEF WeeksFrom
<1>4. /\ Days(b, b + 7 - 1) = [i \in 1 .. 7 |-> b + i - 1]
      /\ Days(b, b + 7 - 1) \in Seq(Int) /\ Len(Days(b, b + 7 - 1)) = 7
      /\ ToSet(Days(b, b + 7 - 1)) = b .. b + 7 - 1
  BY DaysAre
<1>5. \A i \in 1 .. 7 : g[r][i] = b + i - 1 BY <1>3, <1>4
<1> QED BY <1>1, <1>2, <1>3, <1>4, <1>5

\* Every one of the weeks of a month holds a day of it.
LEMMA RowsReach ==
    ASSUME NEW m \in 3 .. MonthCount - 2, NEW a \in Int, NEW n \in Nat \ {0},
           SpanOf(m, a, n), NEW r \in 1 .. n, NEW b \in Int, RowFrom(b, a, r)
    PROVE  /\ Weekday(b) = 0
           /\ \E i \in 1 .. 7 : FirstDay[m] <= b + i - 1 /\ b + i - 1 < FirstDay[m + 1]
<1> PICK o \in Nat, t \in Nat : o = FirstDay[m] /\ t = FirstDay[m + 1] BY DEF SpanOf
<1> /\ o < t /\ a <= o /\ o <= a + 6 /\ t <= a + 7 * n /\ a + 7 * n <= t + 6
    /\ Weekday(a) = 0
  BY DEF SpanOf
<1>1. b = a + 7 * (r - 1) BY DEF RowFrom
<1>2. Weekday(b) = 0 BY <1>1, ConstantsOfViews DEF Weekday
<1>3. CASE r = 1
 <2>1. PICK i \in 1 .. 7 : i = o - a + 1 OBVIOUS
 <2>2. b + i - 1 = o BY <1>1, <1>3, <2>1
 <2> QED BY <1>1, <1>2, <2>2
<1>4. CASE r # 1
 <2>1. 7 * r <= 7 * n /\ r >= 2 BY <1>4
 <2>2. o <= b + 1 - 1 /\ b + 1 - 1 < t BY <1>1, <2>1
 <2> QED BY <1>1, <1>2, <2>2
<1> QED BY <1>3, <1>4

LEMMA GridIsWhole == ViewsInv => GridWhole
<1> SUFFICES ASSUME ViewsInv PROVE GridWhole OBVIOUS
<1>1. PICK m, a, n : GridFrom(currentDate, m, a, n) BY GridIs DEF ViewsInv
<1>2. PICK g : g = MonthGrid(currentDate) OBVIOUS
<1>3. SpanOf(m, a, n) /\ m = MonthOf(currentDate) BY <1>1 DEF GridFrom
<1>4. m \in 3 .. MonthCount - 2 /\ a \in Int /\ n \in Nat \ {0} BY <1>3 DEF SpanOf
<1>5. WeeksFrom(g, a, n) BY <1>1, <1>2 DEF GridFrom
<1>6. PICK all : all = FlattenSeq(g) OBVIOUS
<1>7. PICK k \in Nat : k = 7 * n BY <1>4
<1>8. all = Days(a, a + k - 1) BY <1>4, <1>5, <1>6, <1>7, Flattened DEF WeeksFrom
<1>9. /\ all = [i \in 1 .. k |-> a + i - 1] /\ Len(all) = k
      /\ ToSet(all) = a .. a + k - 1
  BY <1>4, <1>7, <1>8, DaysAre
<1>10. DOMAIN g = 1 .. n BY <1>5 DEF WeeksFrom
<1>11. ASSUME NEW r \in 1 .. n
       PROVE  /\ Len(g[r]) = 7 /\ Weekday(g[r][1]) = 0
              /\ \E i \in 1 .. 7 : MonthOf(g[r][i]) = m
 <2>1. PICK b \in Int : RowFrom(b, a, r) BY <1>4 DEF RowFrom
 <2>2. (\A i \in 1 .. 7 : g[r][i] = b + i - 1) /\ Len(g[r]) = 7 BY <1>4, <1>5, <2>1, RowIs
 <2>3. SpanOf(m, a, n) BY <1>3
 <2>4. Weekday(b) = 0 /\ \E i \in 1 .. 7 : FirstDay[m] <= b + i - 1 /\ b + i - 1 < FirstDay[m + 1]
   BY <1>4, <2>1, <2>3, RowsReach
 <2>5. PICK i \in 1 .. 7 : FirstDay[m] <= b + i - 1 /\ b + i - 1 < FirstDay[m + 1] BY <2>4
 <2>6. g[r][1] = b /\ g[r][i] = b + i - 1 BY <2>2
 <2>7. PICK d \in Int : d = b + i - 1 OBVIOUS
 <2>8. MonthOf(d) = m
  <3>1. m \in 1 .. MonthCount BY <1>4, ConstantsOfViews
  <3> QED BY <2>5, <2>7, <3>1, MonthIs
 <2>9. MonthOf(g[r][i]) = m BY <2>6, <2>7, <2>8
 <2> QED BY <2>2, <2>4, <2>6, <2>9
<1>12. \A i \in 1 .. Len(all) - 1 : all[i + 1] = all[i] + 1
 <2> SUFFICES ASSUME NEW i \in 1 .. k - 1 PROVE all[i + 1] = all[i] + 1 BY <1>9
 <2>1. i \in 1 .. k /\ i + 1 \in 1 .. k BY <1>7
 <2> QED BY <1>4, <1>9, <2>1
<1>13. FirstDay[m] .. FirstDay[m + 1] - 1 \subseteq ToSet(all)
 <2>1. PICK o \in Nat, t \in Nat :
           o = FirstDay[m] /\ t = FirstDay[m + 1] /\ a <= o /\ t <= a + k
   BY <1>3, <1>7 DEF SpanOf
 <2>2. o .. t - 1 \subseteq a .. a + k - 1 BY <1>4, <2>1
 <2> QED BY <1>9, <2>1, <2>2
<1> QED BY <1>2, <1>3, <1>6, <1>10, <1>11, <1>12, <1>13 DEF GridWhole

\* Days, in ticks.
LEMMA TicksFollow ==
    ASSUME NEW a \in Int, NEW b \in Int, a <= b
    PROVE  a * Ticks \in Int /\ b * Ticks \in Int /\ a * Ticks <= b * Ticks
<1>1. PICK k \in Nat : b = a + k
 <2>1. b - a \in Nat /\ b = a + (b - a) OBVIOUS
 <2> QED BY <2>1
<1>2. PICK t \in Nat : t = Ticks BY ConstantsOfViews
<1>3. k * t \in Nat /\ a * t \in Int /\ b * t = a * t + k * t BY <1>1
<1> QED BY <1>2, <1>3

\* The days on the screen are within the window when it shows a day of this month.
LEMMA ShownDaysAre ==
    ASSUME ViewsInv, NEW d \in ShownDays
    PROVE  \E m \in 3 .. MonthCount - 2 :
              /\ m = MonthOf(currentDate) /\ d \in Int
              /\ FirstDay[m - 1] \in Nat /\ FirstDay[m + 2] \in Nat
              /\ FirstDay[m - 1] <= d /\ d + 1 <= FirstDay[m + 2] - 1
<1>1. PICK m, a, n : GridFrom(currentDate, m, a, n) BY GridIs DEF ViewsInv
<1>2. /\ m \in 3 .. MonthCount - 2 /\ m = MonthOf(currentDate) /\ a \in Int /\ n \in Nat \ {0}
      /\ FirstDay[m] \in Nat /\ FirstDay[m + 1] \in Nat
      /\ a + 6 >= FirstDay[m] /\ a + 7 * n <= FirstDay[m + 1] + 6
 <2>1. SpanOf(m, a, n) /\ m = MonthOf(currentDate) BY <1>1 DEF GridFrom
 <2> QED BY <2>1 DEF SpanOf
<1>3. m - 1 \in 1 .. MonthCount /\ m + 1 \in 1 .. MonthCount /\ (m - 1) + 1 = m /\ (m + 1) + 1 = m + 2
  BY <1>2, ConstantsOfViews
<1>4. /\ FirstDay[m - 1] \in Nat /\ FirstDay[m] = FirstDay[m - 1] + MonthLength[m - 1]
      /\ FirstDay[m + 2] = FirstDay[m + 1] + MonthLength[m + 1]
      /\ MonthLength[m - 1] \in 28 .. 31 /\ MonthLength[m + 1] \in 28 .. 31
 <2>1. m - 1 \in 1 .. MonthCount + 1 BY <1>3, ConstantsOfViews
 <2>2. FirstDay[m - 1] \in Nat BY <2>1, MonthsFollow
 <2>3. FirstDay[(m - 1) + 1] = FirstDay[m - 1] + MonthLength[m - 1]
       /\ FirstDay[(m + 1) + 1] = FirstDay[m + 1] + MonthLength[m + 1]
   BY <1>3, FirstDays
 <2>4. MonthLength[m - 1] \in 28 .. 31 /\ MonthLength[m + 1] \in 28 .. 31 BY <1>3, ConstantsOfViews
 <2> QED BY <1>3, <2>2, <2>3, <2>4
<1>5. /\ currentDate \in Nat /\ FirstDay[m] <= currentDate /\ currentDate < FirstDay[m + 1]
  BY <1>2, InnerDays DEF ViewsInv
<1>6. d \in Int /\ FirstDay[m] - 6 <= d /\ d <= FirstDay[m + 1] + 5
 <2>1. CASE viewMode = "month"
  <3>1. PICK g : g = MonthGrid(currentDate) OBVIOUS
  <3>2. WeeksFrom(g, a, n) BY <1>1, <3>1 DEF GridFrom
  <3>3. PICK r \in 1 .. n : d \in ToSet(g[r]) BY <2>1, <3>1, <3>2 DEF ShownDays, WeeksFrom
  <3>4. d \in a + 7 * (r - 1) .. a + 7 * r - 1
   <4>1. a \in Int /\ n \in Nat \ {0} BY <1>2
   <4>2. PICK b \in Int : RowFrom(b, a, r) BY <4>1 DEF RowFrom
   <4>3. ToSet(g[r]) = b .. b + 7 - 1 BY <3>2, <4>1, <4>2, RowIs
   <4> QED BY <3>3, <4>1, <4>2, <4>3 DEF RowFrom
  <3>5. 7 * r <= 7 * n /\ 7 * (r - 1) >= 0 BY <1>2
  <3> QED BY <1>2, <3>4, <3>5
 <2>2. CASE viewMode = "week"
  <3>1. PICK w \in 0 .. 6 : w = Weekday(currentDate) BY <1>5, WeekdayIs
  <3>2. currentDate - w + 6 = (currentDate - w) + 7 - 1 /\ currentDate - w \in Int BY <1>5, <3>1
  <3>3. ToSet(WeekDates(currentDate)) = (currentDate - w) .. (currentDate - w) + 7 - 1
   <4>1. PICK e \in Int : e = currentDate - w BY <3>2
   <4>2. ToSet(Days(e, e + 7 - 1)) = e .. e + 7 - 1 BY DaysAre
   <4>3. WeekDates(currentDate) = Days(e, e + 7 - 1) BY <3>1, <3>2, <4>1 DEF WeekDates
   <4> QED BY <4>1, <4>2, <4>3
  <3>4. d \in (currentDate - w) .. (currentDate - w) + 7 - 1 BY <2>2, <3>3 DEF ShownDays
  <3> QED BY <1>2, <1>5, <3>1, <3>4
 <2>3. CASE viewMode = "day" BY <1>2, <1>5, <2>3 DEF ShownDays
 <2> QED BY <2>1, <2>2, <2>3 DEF ViewsInv, ViewsTypeOK
<1> QED BY <1>2, <1>4, <1>6

LEMMA TodayIsWhole == ViewsInv => TodayWhole
<1> SUFFICES ASSUME ViewsInv, MonthOf(currentDate) = MonthOf(today), NEW d \in ShownDays
             PROVE  /\ Shown(d) = {e \in Stored : /\ e.calendar \in visible
                                                  /\ e.start < (d + 1) * Ticks
                                                  /\ e.end > d * Ticks
                                                  /\ viewMode = "week" => ~e.allDay}
                    /\ \A e \in Shown(d) : LET c == Clamped(e, d)
                                           IN  0 <= c.top /\ c.top <= c.bottom /\ c.bottom <= Ticks
  BY DEF TodayWhole
<1>1. PICK m \in 3 .. MonthCount - 2 :
         /\ m = MonthOf(today) /\ d \in Int
         /\ FirstDay[m - 1] \in Nat /\ FirstDay[m + 2] \in Nat
         /\ FirstDay[m - 1] <= d /\ d + 1 <= FirstDay[m + 2] - 1
  BY ShownDaysAre
<1>2. PICK from \in Int : from = d * Ticks BY <1>1, ConstantsOfViews
<1>3. PICK to \in Int : to = (d + 1) * Ticks /\ to = from + Ticks
 <2>1. (d + 1) * Ticks = d * Ticks + Ticks BY <1>1, ConstantsOfViews
 <2> QED BY <1>2, <2>1, ConstantsOfViews
<1>4. WindowStart \in Int /\ WindowEnd \in Int /\ WindowStart <= from /\ to <= WindowEnd
 <2>1. FirstDay[m - 1] * Ticks \in Int /\ FirstDay[m - 1] * Ticks <= d * Ticks BY <1>1, TicksFollow
 <2>2. (FirstDay[m + 2] - 1) * Ticks \in Int /\ (d + 1) * Ticks <= (FirstDay[m + 2] - 1) * Ticks
  <3>1. PICK x \in Int : x = FirstDay[m + 2] - 1 BY <1>1
  <3>2. d + 1 \in Int /\ d + 1 <= x BY <1>1, <3>1
  <3>3. x * Ticks \in Int /\ (d + 1) * Ticks <= x * Ticks BY <3>2, TicksFollow
  <3> QED BY <3>1, <3>3
 <2> QED BY <1>1, <1>2, <1>3, <2>1, <2>2 DEF WindowStart, WindowEnd
<1>5. \A e \in Stored : e.start \in Nat /\ e.end \in Nat /\ e.start <= e.end BY ViewsAssumption
<1>6. EventsForDay(Loaded, d) = {e \in Stored : /\ e.calendar \in visible
                                                /\ e.start < to /\ e.end > from}
  BY <1>2, <1>3, <1>4, <1>5 DEF EventsForDay, Loaded
<1>7. Shown(d) = {e \in Stored : /\ e.calendar \in visible
                                 /\ e.start < to /\ e.end > from
                                 /\ viewMode = "week" => ~e.allDay}
 <2>1. CASE viewMode = "month" BY <1>6, <2>1 DEF Shown, MonthCell
 <2>2. CASE viewMode = "week" BY <1>6, <2>2 DEF Shown, WeekColumn
 <2>3. CASE viewMode = "day" BY <1>6, <2>3 DEF Shown, DayAllDay, DayColumn
 <2> QED BY <2>1, <2>2, <2>3 DEF ViewsInv, ViewsTypeOK
<1>8. ASSUME NEW e \in Shown(d)
      PROVE  LET c == Clamped(e, d)
             IN  0 <= c.top /\ c.top <= c.bottom /\ c.bottom <= Ticks
 <2>1. e \in Stored /\ e.start < to /\ e.end > from BY <1>7
 <2>2. e.start \in Nat /\ e.end \in Nat /\ e.start <= e.end /\ Ticks \in Nat
   BY <1>5, <2>1, ConstantsOfViews
 <2>3. Clamped(e, d) = [top |-> (IF e.start < from THEN from ELSE e.start) - from,
                        bottom |-> (IF e.end > to THEN to ELSE e.end) - from]
   BY <1>2, <1>3 DEF Clamped
 <2> QED BY <1>3, <2>1, <2>2, <2>3
<1> QED BY <1>2, <1>3, <1>7, <1>8

LEMMA InvSettlesViews == ViewsInv => ViewsWhole
  BY GridIsWhole, TodayIsWhole DEF ViewsWhole

-------------------------------------------------------------------------------
(* II. The searches. *)

\* A request that is used is for what is entered; what has no request under way shows the
\* answer, or forgot what it showed.
AsksForQuery == \A r \in asked : r.query = query

ShowsAnswer ==
    /\ box \in Texts => results = IF query = NoQuery THEN "empty" ELSE query
    /\ box = "preview" => /\ results = IF query \in Viewable THEN query ELSE "empty"
                          /\ ~searching /\ ~error
    /\ box \in Polls \cup {"users", "folders"} /\ typed > 0 =>
          results = query /\ ~searching /\ ~error

\* The types of the variables.
LookupsVarTypes ==
    /\ box \in Boxes /\ query \in Query /\ results \in Query \cup {"empty"}
    /\ asked \subseteq [n: 0 .. MaxTyped, query: Query] /\ typed \in 0 .. MaxTyped
    /\ timer \in BOOLEAN /\ searching \in BOOLEAN /\ error \in BOOLEAN /\ astray \in BOOLEAN

LookupsInv ==
    /\ LookupsVarTypes
    /\ timer => box \in Texts \cup {"users"} /\ (box \in Texts => query # NoQuery)
    /\ timer /\ box = "users" => asked = {}
    /\ ~Unguarded \/ ~astray => AsksForQuery
    /\ box = "preview" /\ asked # {} => query \in Viewable
    /\ ~astray /\ box \in Texts /\ (timer \/ query = NoQuery) => asked = {}
    /\ ~astray /\ ~timer /\ asked = {} => ShowsAnswer

LEMMA LookupsInitOK == LookupsInit => LookupsInv
<1> SUFFICES ASSUME LookupsInit PROVE LookupsInv OBVIOUS
<1> USE LookupsAssumption DEF LookupsInit
<1>0. timer \in BOOLEAN
 <2>1. (box = "users") \in BOOLEAN OBVIOUS
 <2> QED BY <2>1
<1>1. LookupsVarTypes
 <2>1. box \in Boxes /\ query \in Query /\ results \in Query \cup {"empty"} BY DEF Query
 <2>2. asked \subseteq [n: 0 .. MaxTyped, query: Query] /\ typed \in 0 .. MaxTyped OBVIOUS
 <2>3. searching \in BOOLEAN /\ error \in BOOLEAN /\ astray \in BOOLEAN OBVIOUS
 <2> QED BY <1>0, <2>1, <2>2, <2>3 DEF LookupsVarTypes
<1>2. timer => box = "users" OBVIOUS
<1>3. ShowsAnswer BY DEF ShowsAnswer, Texts, Polls
<1> QED BY <1>1, <1>2, <1>3 DEF LookupsInv, AsksForQuery, Texts

\* The parts of the invariant that depend on what is asked for.
LEMMA LookupsParts ==
    ASSUME LookupsVarTypes',
           timer' => box' \in Texts \cup {"users"} /\ (box' \in Texts => query' # NoQuery),
           timer' /\ box' = "users" => asked' = {},
           box' \in {"users", "preview"} \/ ~astray' => \A r \in asked' : r.query = query',
           box' = "preview" /\ asked' # {} => query' \in Viewable,
           ~astray' /\ box' \in Texts /\ (timer' \/ query' = NoQuery) => asked' = {},
           ~astray' /\ ~timer' /\ asked' = {} => ShowsAnswer'
    PROVE  LookupsInv'
  BY DEF LookupsInv, AsksForQuery, Unguarded

LEMMA QueryChangedOK ==
    ASSUME LookupsInv, NEW q \in Query, QueryChanged(q), q # NoQuery \/ q # query \/ box = "folders"
    PROVE  LookupsInv'
<1> USE LookupsAssumption DEF LookupsInv, LookupsVarTypes, QueryChanged, Kept, Unguarded, Request,
                              AsksForQuery, ShowsAnswer
<1>0. /\ typed' \in 0 .. MaxTyped /\ typed' > 0 /\ typed' = typed + 1
      /\ query' = q /\ box' = box /\ box \in Boxes
  OBVIOUS
<1>1. CASE Emptied /\ box \in Texts /\ q = NoQuery
 <2>1. searching' \in BOOLEAN /\ astray' \in BOOLEAN BY <1>1 DEF Emptied
 <2> QED BY <1>0, <1>1, <2>1, LookupsParts DEF Emptied, Texts, Polls
<1>2. CASE Delayed /\ box \in Texts \cup {"users"} /\ ~(box \in Texts /\ q = NoQuery)
  BY <1>0, <1>2, LookupsParts DEF Delayed, Texts, Polls
<1>3. CASE Previewed(q) /\ box = "preview"
 <2>1. astray' \in BOOLEAN BY <1>3 DEF Previewed
 <2>2. /\ asked' \subseteq [n: 0 .. MaxTyped, query: Query] /\ \A r \in asked' : r.query = query'
       /\ asked' # {} => q \in Viewable
   BY <1>0, <1>3 DEF Previewed
 <2>3. LookupsVarTypes' BY <1>0, <1>3, <2>1, <2>2 DEF Previewed
 <2>4. ~astray' /\ ~timer' /\ asked' = {} => ShowsAnswer' BY <1>0, <1>3 DEF Previewed, Texts, Polls
 <2> QED BY <1>0, <1>3, <2>2, <2>3, <2>4, LookupsParts DEF Previewed, Texts, Polls
<1>4. CASE AskedAtOnce(q) /\ box \in {"folders"} \cup Polls
 <2>1. astray' \in BOOLEAN BY <1>4 DEF AskedAtOnce
 <2>r. PICK r : r = [n |-> typed', query |-> q] OBVIOUS
 <2>s. asked' = asked \cup {r} /\ (~astray' => asked = {}) /\ r.query = q
   BY <1>0, <1>4, <2>r DEF AskedAtOnce, Polls
 <2>2. /\ asked' \subseteq [n: 0 .. MaxTyped, query: Query] /\ asked' # {}
       /\ ~astray' => \A s \in asked' : s.query = query'
  <3>1. r \in [n: 0 .. MaxTyped, query: Query] BY <1>0, <2>r
  <3>2. asked \subseteq [n: 0 .. MaxTyped, query: Query] OBVIOUS
  <3> QED BY <1>0, <2>s, <3>1, <3>2
 <2>3. LookupsVarTypes' BY <1>0, <1>4, <2>1, <2>2 DEF AskedAtOnce
 <2> QED BY <1>0, <1>4, <2>2, <2>3, LookupsParts DEF AskedAtOnce, Texts, Polls
<1> QED BY <1>0, <1>1, <1>2, <1>3, <1>4 DEF Boxes, Texts, Polls

LEMMA LookupsNextOK == LookupsInv /\ [LookupsNext]_lookVars => LookupsInv'
<1> SUFFICES ASSUME LookupsInv, [LookupsNext]_lookVars PROVE LookupsInv' OBVIOUS
<1>1. ASSUME NEW q \in Query, Type(q) PROVE LookupsInv' BY <1>1, QueryChangedOK DEF Type
<1>2. CASE Repeat BY <1>2, QueryChangedOK DEF Repeat, LookupsInv, LookupsVarTypes
<1> USE LookupsAssumption DEF LookupsInv, LookupsVarTypes, AsksForQuery, ShowsAnswer
<1>3. CASE TimerFires
 <2>1. astray' \in BOOLEAN BY <1>3 DEF TimerFires
 <2>r. PICK r : r = [n |-> typed, query |-> query] OBVIOUS
 <2>s. /\ asked' = asked \cup {r} /\ r.query = query /\ query' = query /\ box' = box
       /\ box # "preview" /\ (~astray' \/ box = "users" => asked = {})
   BY <1>3, <2>r DEF TimerFires, Request, Unguarded, Texts
 <2>2. /\ asked' \subseteq [n: 0 .. MaxTyped, query: Query] /\ asked' # {}
       /\ box' \in {"users", "preview"} \/ ~astray' => \A s \in asked' : s.query = query'
  <3>1. r \in [n: 0 .. MaxTyped, query: Query] BY <2>r
  <3>2. asked \subseteq [n: 0 .. MaxTyped, query: Query] OBVIOUS
  <3> QED BY <2>s, <3>1, <3>2
 <2>3. LookupsVarTypes' BY <1>3, <2>1, <2>2 DEF TimerFires
 <2> QED BY <1>3, <2>2, <2>3, LookupsParts DEF TimerFires, Unguarded, Request, Boxes, Texts, Polls
<1>4. CASE TimerFilters BY <1>4, LookupsParts DEF TimerFilters, Unguarded, Boxes, Texts, Polls
<1>5. ASSUME NEW r \in asked, Answered(r) PROVE LookupsInv'
  BY <1>5, LookupsParts DEF Answered, Unguarded, Boxes, Texts, Polls
<1>6. ASSUME NEW r \in asked, Fails(r) PROVE LookupsInv'
 <2>1. astray' \in BOOLEAN /\ error' \in BOOLEAN BY <1>6 DEF Fails
 <2> QED BY <1>6, <2>1, LookupsParts DEF Fails, Unguarded, Boxes, Texts, Polls
<1>7. CASE UNCHANGED lookVars BY <1>7 DEF lookVars, Unguarded
<1> QED BY <1>1, <1>2, <1>3, <1>4, <1>5, <1>6, <1>7 DEF LookupsNext

LEMMA InvSettlesLookups == LookupsInv => ResultsOfQuery
<1> SUFFICES ASSUME LookupsInv, ~timer, asked = {}, ~astray, typed > 0
             PROVE  Screen = CASE query = NoQuery /\ box \in Texts \cup {"preview"} -> "hint"
                               [] box = "preview" /\ query \notin Viewable \cup {NoQuery} -> "none"
                               [] OTHER -> query
  BY DEF ResultsOfQuery
<1> USE LookupsAssumption
<1>1. ShowsAnswer /\ box \in Boxes /\ query \in Query /\ "empty" \notin Query
  BY DEF LookupsInv, LookupsVarTypes, Query
<1>2. CASE box = "driveSearch" BY <1>1, <1>2 DEF ShowsAnswer, Screen, SearchScreen, Texts
<1>3. CASE box = "mailSearch"
  BY <1>1, <1>3 DEF ShowsAnswer, Screen, MailSearchScreen, SearchScreen, Texts
<1>4. CASE box = "recipients" BY <1>1, <1>4 DEF ShowsAnswer, Screen, SuggestionsScreen, Texts
<1>5. CASE box = "users" BY <1>1, <1>5 DEF ShowsAnswer, Screen, UsersScreen, Texts
<1>6. CASE box = "metrics" BY <1>1, <1>6 DEF ShowsAnswer, Screen, MetricsScreen, Texts, Polls
<1>7. CASE box = "audit" BY <1>1, <1>7 DEF ShowsAnswer, Screen, AuditScreen, Texts, Polls
<1>8. CASE box = "preview" BY <1>1, <1>8 DEF ShowsAnswer, Screen, PreviewScreen, Texts
<1>9. CASE box = "folders" BY <1>1, <1>9 DEF ShowsAnswer, Screen, FoldersScreen, Texts
<1> QED BY <1>1, <1>2, <1>3, <1>4, <1>5, <1>6, <1>7, <1>8, <1>9 DEF Boxes, Texts, Polls

LEMMA LookupsAreTyped == LookupsInv => LookupsTypeOK
<1> SUFFICES ASSUME LookupsVarTypes PROVE LookupsTypeOK BY DEF LookupsInv
<1>1. {timer, searching, error, astray} \subseteq BOOLEAN BY DEF LookupsVarTypes
<1> QED BY <1>1 DEF LookupsVarTypes, LookupsTypeOK

-------------------------------------------------------------------------------
(* III. The console. *)

ChangeKinds == {"box", "unbox", "verify"}

Details == [of: Domains \cup {NoDomain}, boxes: SUBSET LocalParts, checks: Nat]

JobRecords ==
    [n: Nat, kind: {"list", "add"} \cup ChangeKinds, of: Domains \cup {NoDomain},
     box: LocalParts \cup {NoDomain}, prefer: Domains \cup {NoDomain},
     stage: {"asked", "verified", "served"}, got: Details, list: SUBSET Domains]

\* The types of the variables, the requests included. Each is about a domain, but a list.
ConsoleVarTypes ==
    /\ owned \subseteq Domains /\ domains \subseteq Domains
    /\ boxesOf \in [Domains -> SUBSET LocalParts] /\ checks \in [Domains -> Nat]
    /\ selectedId \in Domains \cup {NoDomain}
    /\ detail \in Details /\ detailGot \in Details
    /\ detailLoad \in {"none", "asked", "served"} /\ conActs \in 0 .. MaxConsole
    /\ onPage \in BOOLEAN /\ tangled \in BOOLEAN

JobOK(j) ==
    /\ j \in JobRecords
    /\ j.kind # "list" => j.of \in Domains
    /\ j.kind = "box" => j.box \in LocalParts
    /\ j.stage = "verified" => j.kind = "verify"

JobsOK ==
    /\ IsFiniteSet(jobs) /\ \A j \in jobs : JobOK(j)
    /\ IsFiniteSet(oldJobs) /\ \A j \in oldJobs : JobOK(j) /\ j.stage = "asked"
    /\ ~onPage => jobs = {} /\ detailLoad = "none"

\* A domain is verified once for each click, or is still to be.
IsAsking(j, d) == j.kind = "verify" /\ j.stage = "asked" /\ j.of = d

AskingDomain(S, d) == {j \in S : IsAsking(j, d)}

ChecksAreAsked ==
    \A d \in Domains : checks[d] + Cardinality(AskingDomain(jobs, d))
                      + Cardinality(AskingDomain(oldJobs, d)) <= conActs

\* What is shown while change c of the detail is under way.
ChangeShown(c) ==
    /\ c.of = selectedId /\ selectedId # NoDomain
    /\ c.stage = "asked" => detail = DetailOf(selectedId)
    /\ c.kind = "box" /\ c.stage = "served" =>
          /\ detail.of = selectedId /\ detail.checks = checks[selectedId]
          /\ boxesOf[selectedId] = detail.boxes \cup {c.box}
    /\ c.kind = "unbox" /\ c.stage = "served" =>
          /\ detail.of = selectedId /\ detail.checks = checks[selectedId]
          /\ boxesOf[selectedId] = detail.boxes \ {c.box}
    /\ c.kind = "verify" /\ c.stage = "served" => c.got = DetailOf(selectedId)

NoChange == \A j \in jobs : j.kind \notin ChangeKinds

\* The detail is that of the selection, or a load or one change of it is under way.
DetailFollows ==
    /\ detailLoad # "none" => selectedId # NoDomain /\ NoChange
    /\ detailLoad = "served" => detailGot = DetailOf(selectedId)
    /\ \A j, k \in jobs : j.kind \in ChangeKinds /\ k.kind \in ChangeKinds => j = k
    /\ \A j \in jobs : j.kind \in ChangeKinds => ChangeShown(j)
    /\ detailLoad = "none" /\ selectedId # NoDomain /\ NoChange => detail = DetailOf(selectedId)

ConsoleInv ==
    /\ ConsoleVarTypes /\ JobsOK /\ ChecksAreAsked
    /\ ~tangled => DetailFollows

LEMMA ConsoleInitOK == ConsoleInit => ConsoleInv
<1> SUFFICES ASSUME ConsoleInit PROVE ConsoleInv OBVIOUS
<1> USE ConsoleAssumption DEF ConsoleInit
<1>1. ConsoleVarTypes
 <2>1. NoDetail \in Details BY DEF NoDetail, Details
 <2>2. boxesOf \in [Domains -> SUBSET LocalParts] /\ checks \in [Domains -> Nat] OBVIOUS
 <2>3. onPage \in BOOLEAN /\ tangled \in BOOLEAN OBVIOUS
 <2>4. conActs \in 0 .. MaxConsole OBVIOUS
 <2> QED BY <2>1, <2>2, <2>3, <2>4 DEF ConsoleVarTypes
<1>2. JobsOK
 <2>1. IsFiniteSet(jobs) BY FS_Singleton
 <2>2. JobOK(FirstList) BY DEF JobOK, FirstList, JobRecords, Details, NoDetail
 <2>3. onPage /\ \A j \in jobs : j = FirstList OBVIOUS
 <2> QED BY <2>1, <2>2, <2>3, FS_EmptySet DEF JobsOK
<1>3. ChecksAreAsked
 <2> SUFFICES ASSUME NEW d \in Domains
              PROVE  checks[d] + Cardinality(AskingDomain(jobs, d)) + Cardinality(AskingDomain(oldJobs, d)) <= conActs
   BY DEF ChecksAreAsked
 <2>1. AskingDomain(jobs, d) = {} /\ AskingDomain(oldJobs, d) = {}
   BY DEF AskingDomain, IsAsking, FirstList
 <2> QED BY <2>1, FS_EmptySet
<1>4. DetailFollows BY DEF DetailFollows, FirstList, NoChange, ChangeKinds
<1> QED BY <1>1, <1>2, <1>3, <1>4 DEF ConsoleInv

\* Requests to verify a domain: another request adds one at most, and one that is served
\* takes one away.
LEMMA AskingGrows ==
    ASSUME NEW S, NEW T, NEW k, NEW d, IsFiniteSet(S), T \subseteq S \cup {k}
    PROVE  /\ IsFiniteSet(T)
           /\ Cardinality(AskingDomain(S, d)) \in Nat /\ Cardinality(AskingDomain(T, d)) \in Nat
           /\ Cardinality(AskingDomain(T, d)) <= Cardinality(AskingDomain(S, d)) + 1
           /\ ~IsAsking(k, d) => Cardinality(AskingDomain(T, d)) <= Cardinality(AskingDomain(S, d))
<1>1. IsFiniteSet(S \cup {k}) BY FS_AddElement
<1>2. IsFiniteSet(T) /\ IsFiniteSet(AskingDomain(S, d)) BY <1>1, FS_Subset DEF AskingDomain
<1>3. /\ IsFiniteSet(AskingDomain(S, d) \cup {k})
      /\ Cardinality(AskingDomain(S, d) \cup {k}) <= Cardinality(AskingDomain(S, d)) + 1
 <2>1. PICK A : A = AskingDomain(S, d) OBVIOUS
 <2>2. IsFiniteSet(A) /\ Cardinality(A) \in Nat BY <1>2, <2>1, FS_CardinalityType
 <2>3. /\ IsFiniteSet(A \cup {k})
       /\ Cardinality(A \cup {k}) = IF k \in A THEN Cardinality(A) ELSE Cardinality(A) + 1
   BY <2>2, FS_AddElement
 <2> QED BY <2>1, <2>2, <2>3
<1>4. AskingDomain(T, d) \subseteq AskingDomain(S, d) \cup {k} BY DEF AskingDomain
<1>5. ~IsAsking(k, d) => AskingDomain(T, d) \subseteq AskingDomain(S, d) BY DEF AskingDomain
<1>6. IsFiniteSet(AskingDomain(T, d)) /\ Cardinality(AskingDomain(T, d)) <= Cardinality(AskingDomain(S, d) \cup {k})
  BY <1>3, <1>4, FS_Subset
<1>7. ~IsAsking(k, d) => Cardinality(AskingDomain(T, d)) <= Cardinality(AskingDomain(S, d))
  BY <1>2, <1>5, FS_Subset
<1>8. Cardinality(AskingDomain(S, d) \cup {k}) \in Nat BY <1>3, FS_CardinalityType
<1> QED BY <1>2, <1>3, <1>6, <1>7, <1>8, FS_CardinalityType

LEMMA AskingShrinks ==
    ASSUME NEW S, NEW T, NEW j \in S, NEW k, NEW d, IsFiniteSet(S), T \subseteq (S \ {j}) \cup {k},
           IsAsking(j, d), ~IsAsking(k, d)
    PROVE  Cardinality(AskingDomain(T, d)) + 1 <= Cardinality(AskingDomain(S, d))
<1>1. IsFiniteSet(AskingDomain(S, d)) BY FS_Subset DEF AskingDomain
<1>2. j \in AskingDomain(S, d) BY DEF AskingDomain
<1>3. /\ IsFiniteSet(AskingDomain(S, d) \ {j})
      /\ Cardinality(AskingDomain(S, d) \ {j}) = Cardinality(AskingDomain(S, d)) - 1
  BY <1>1, <1>2, FS_RemoveElement
<1>4. AskingDomain(T, d) \subseteq AskingDomain(S, d) \ {j} BY DEF AskingDomain
<1>5. IsFiniteSet(AskingDomain(T, d)) /\ Cardinality(AskingDomain(T, d)) <= Cardinality(AskingDomain(S, d) \ {j})
  BY <1>3, <1>4, FS_Subset
<1> QED BY <1>1, <1>3, <1>5, FS_CardinalityType

LEMMA OldAsking ==
    ASSUME ConsoleInv, NEW e
    PROVE  \E m \in Nat : m = Cardinality(AskingDomain(oldJobs, e))
BY FS_Subset, FS_CardinalityType DEF ConsoleInv, JobsOK, AskingDomain

\* The loads of the detail.
LEMMA DetailLoadsOK ==
    ASSUME ConsoleInv, DetailServed \/ DetailAnswered \/ DetailFails
    PROVE  ConsoleInv'
<1> USE DEF ConsoleInv
<1>1. JobsOK' /\ ChecksAreAsked'
  BY DEF DetailServed, DetailAnswered, DetailFails, JobsOK, ChecksAreAsked, mailVars, ConsoleVarTypes
<1>2. CASE DetailServed
 <2>1. tangled' \in BOOLEAN BY <1>2 DEF DetailServed
 <2>2. DetailOf(selectedId) \in Details /\ selectedId \in Domains
   BY <1>2 DEF DetailServed, ConsoleVarTypes, DetailOf, Details
 <2>3. ConsoleVarTypes' BY <1>2, <2>1, <2>2 DEF DetailServed, ConsoleVarTypes, mailVars
 <2>4. ASSUME ~tangled' PROVE DetailFollows'
   BY <1>2, <2>2, <2>4, ConsoleAssumption
      DEF DetailServed, DetailFollows, DetailOf, Changing, NoChange, ChangeKinds, ChangeShown, mailVars
 <2> QED BY <1>1, <2>3, <2>4
<1>3. CASE DetailAnswered
 <2>1. ConsoleVarTypes' BY <1>3 DEF DetailAnswered, ConsoleVarTypes, mailVars, NoDetail, Details
 <2>2. ASSUME ~tangled' PROVE DetailFollows'
   BY <1>3, <2>2 DEF DetailAnswered, DetailFollows, DetailOf, NoChange, ChangeShown, mailVars
 <2> QED BY <1>1, <2>1, <2>2
<1>4. CASE DetailFails BY <1>1, <1>4 DEF DetailFails, ConsoleVarTypes, mailVars, NoDetail, Details
<1> QED BY <1>2, <1>3, <1>4

\* Another selection.
LEMMA SelectedOK ==
    ASSUME ConsoleInv, NEW d \in Domains \cup {NoDomain}, Selected(d), jobs' \subseteq jobs,
           \A j \in jobs \ jobs' : j.kind = "list",
           UNCHANGED <<owned, boxesOf, checks, oldJobs>>, onPage' \in BOOLEAN, jobs # {} \/ onPage',
           domains' \subseteq Domains, conActs' \in conActs .. MaxConsole, onPage' = onPage
    PROVE  ConsoleInv'
<1> USE DEF ConsoleInv
<1>1. tangled' \in BOOLEAN /\ detail' \in Details /\ detailGot' \in Details
      /\ detailLoad' \in {"none", "asked", "served"}
 <2>1. tangled' \in BOOLEAN BY DEF Selected, ConsoleVarTypes, Changing
 <2>2. NoDetail \in Details BY DEF NoDetail, Details
 <2>3. detail' \in Details /\ detailGot' \in Details /\ detailLoad' \in {"none", "asked", "served"}
   BY <2>2 DEF Selected, ConsoleVarTypes
 <2> QED BY <2>1, <2>3
<1>2. ConsoleVarTypes' BY <1>1 DEF ConsoleVarTypes, Selected
<1>3. JobsOK'
 <2>1. IsFiniteSet(jobs') /\ \A j \in jobs' : JobOK(j) BY FS_Subset DEF JobsOK
 <2>2. ~onPage' => ~onPage /\ jobs # {} OBVIOUS
 <2>3. onPage' BY <2>2 DEF JobsOK
 <2> QED BY <2>1, <2>3 DEF JobsOK
<1>4. ChecksAreAsked'
 <2> SUFFICES ASSUME NEW e \in Domains
              PROVE  checks'[e] + Cardinality(AskingDomain(jobs', e)) + Cardinality(AskingDomain(oldJobs', e)) <= conActs'
   BY DEF ChecksAreAsked
 <2>1. PICK T : T = jobs' OBVIOUS
 <2>2. ~IsAsking(FirstList, e) BY DEF IsAsking, FirstList
 <2>3. Cardinality(AskingDomain(T, e)) <= Cardinality(AskingDomain(jobs, e)) /\ Cardinality(AskingDomain(T, e)) \in Nat
       /\ Cardinality(AskingDomain(jobs, e)) \in Nat
   BY <2>1, <2>2, AskingGrows DEF JobsOK
 <2>5. PICK m \in Nat : m = Cardinality(AskingDomain(oldJobs, e)) BY OldAsking
 <2>4. checks[e] + Cardinality(AskingDomain(jobs, e)) + m <= conActs /\ checks[e] \in Nat
   BY <2>5 DEF ChecksAreAsked, ConsoleVarTypes
 <2> QED BY <2>1, <2>3, <2>4, <2>5 DEF ConsoleVarTypes
<1>5. ASSUME ~tangled' PROVE DetailFollows'
 <2>1. CASE d = selectedId
  <3>1. ~tangled /\ UNCHANGED <<selectedId, detail, detailLoad, detailGot>>
    BY <1>5, <2>1 DEF Selected
  <3>2. NoChange' => NoChange BY DEF NoChange, ChangeKinds
  <3>3. \A j : ChangeShown(j) => ChangeShown(j)' BY <3>1 DEF ChangeShown, DetailOf
  <3>4. DetailOf(selectedId)' = DetailOf(selectedId) BY <3>1 DEF DetailOf
  <3>5. DetailFollows BY <3>1
  <3> QED BY <3>1, <3>2, <3>3, <3>4, <3>5 DEF DetailFollows, NoChange
 <2>2. CASE d # selectedId
  <3>1. NoChange' BY <1>5, <2>2 DEF Selected, Changing, NoChange, ChangeKinds
  <3> QED BY <2>2, <3>1 DEF Selected, DetailFollows, NoChange
 <2> QED BY <2>1, <2>2
<1> QED BY <1>2, <1>3, <1>4, <1>5

\* A request that the user asks for.
LEMMA AskedForOK ==
    ASSUME ConsoleInv, NEW k, AskedFor(k), JobOK(k), k.stage = "asked",
           \/ k.kind \in {"list", "add"} /\ UNCHANGED tangled
           \/ k.of = selectedId /\ selectedId # NoDomain /\ Meets
    PROVE  ConsoleInv'
<1> USE DEF ConsoleInv
<1>0. /\ conActs' = conActs + 1 /\ conActs' \in 0 .. MaxConsole /\ onPage /\ onPage' = onPage
      /\ jobs' = jobs \cup {k} /\ UNCHANGED <<owned, boxesOf, checks, oldJobs>>
      /\ UNCHANGED <<domains, selectedId, detail, detailLoad, detailGot>>
  BY ConsoleAssumption DEF AskedFor, ConsoleAct, mailVars, ConsoleVarTypes
<1>1. ConsoleVarTypes'
 <2>1. tangled' \in BOOLEAN BY DEF Meets, ConsoleVarTypes
 <2> QED BY <1>0, <2>1 DEF ConsoleVarTypes
<1>2. JobsOK'
 <2>1. IsFiniteSet(jobs') BY <1>0, FS_AddElement DEF JobsOK
 <2> QED BY <1>0, <2>1 DEF JobsOK
<1>3. ChecksAreAsked'
 <2> SUFFICES ASSUME NEW e \in Domains
              PROVE  checks'[e] + Cardinality(AskingDomain(jobs', e)) + Cardinality(AskingDomain(oldJobs', e)) <= conActs'
   BY DEF ChecksAreAsked
 <2>1. PICK T : T = jobs' OBVIOUS
 <2>2. /\ Cardinality(AskingDomain(T, e)) <= Cardinality(AskingDomain(jobs, e)) + 1
       /\ Cardinality(AskingDomain(T, e)) \in Nat /\ Cardinality(AskingDomain(jobs, e)) \in Nat
   BY <1>0, <2>1, AskingGrows DEF JobsOK
 <2>4. PICK m \in Nat : m = Cardinality(AskingDomain(oldJobs, e)) BY OldAsking
 <2>3. checks[e] + Cardinality(AskingDomain(jobs, e)) + m <= conActs /\ checks[e] \in Nat
   BY <2>4 DEF ChecksAreAsked, ConsoleVarTypes
 <2> QED BY <1>0, <2>1, <2>2, <2>3, <2>4 DEF ConsoleVarTypes
<1>4. ASSUME ~tangled' PROVE DetailFollows'
 <2>1. \A j : ChangeShown(j) => ChangeShown(j)' BY <1>0 DEF ChangeShown, DetailOf
 <2>2. DetailOf(selectedId)' = DetailOf(selectedId) BY <1>0 DEF DetailOf
 <2>3. CASE k.kind \in {"list", "add"} /\ UNCHANGED tangled
  <3>1. DetailFollows /\ k.kind \notin ChangeKinds BY <1>4, <2>3 DEF ChangeKinds
  <3>2. NoChange' <=> NoChange BY <1>0, <3>1 DEF NoChange
  <3> QED BY <1>0, <2>1, <2>2, <3>1, <3>2 DEF DetailFollows
 <2>4. CASE k.of = selectedId /\ selectedId # NoDomain /\ Meets
  <3>1. DetailFollows /\ detailLoad = "none" /\ NoChange
    BY <1>4, <2>4 DEF Meets, Changing, NoChange, ChangeKinds, JobsOK
  <3>2. ChangeShown(k)' BY <1>0, <2>2, <2>4, <3>1 DEF ChangeShown, DetailFollows
  <3>3. k.kind \notin ChangeKinds => NoChange' BY <1>0, <3>1 DEF NoChange
  <3>4. detail' = DetailOf(selectedId)' BY <1>0, <2>2, <2>4, <3>1 DEF DetailFollows
  <3> QED BY <1>0, <3>1, <3>2, <3>4 DEF DetailFollows, NoChange
 <2> QED BY <2>3, <2>4
<1> QED BY <1>1, <1>2, <1>3, <1>4

\* What the user does.
LEMMA ConsoleClicksOK ==
    ASSUME ConsoleInv,
           \/ \E d \in Domains : SelectDomain(d) \/ SubmitDomain(d)
           \/ RefreshList \/ RefreshVerification \/ Leave \/ Return
           \/ \E b \in LocalParts : AddMailbox(b) \/ RemoveMailbox(b)
    PROVE  ConsoleInv'
<1> USE DEF ConsoleInv
<1>n. /\ NoDetail \in Details /\ conActs \in Nat /\ MaxConsole \in Nat
      /\ selectedId \in Domains \cup {NoDomain}
  BY ConsoleAssumption DEF NoDetail, Details, ConsoleVarTypes
<1>1. ASSUME NEW d \in Domains, SelectDomain(d) PROVE ConsoleInv'
 <2>1. Selected(d) /\ jobs' = jobs /\ onPage' = onPage /\ onPage' \in BOOLEAN /\ onPage'
   BY <1>1 DEF SelectDomain
 <2>2. UNCHANGED <<owned, boxesOf, checks, oldJobs>> /\ domains' \subseteq Domains /\ conActs' \in conActs .. MaxConsole
   BY <1>1, <1>n DEF SelectDomain, mailVars, ConsoleAct, ConsoleVarTypes
 <2> QED BY <2>1, <2>2, SelectedOK
<1>2. ASSUME NEW d \in Domains, SubmitDomain(d) PROVE ConsoleInv'
 <2>0. conActs' = conActs + 1 BY <1>2 DEF SubmitDomain, AskedFor, ConsoleAct
 <2>1. PICK k : k = Job("add", d, NoDomain, d) OBVIOUS
 <2>2. JobOK(k) /\ k.stage = "asked" /\ k.kind = "add"
   BY <1>n, <2>0, <2>1 DEF Job, JobOK, JobRecords
 <2>3. AskedFor(k) /\ UNCHANGED tangled BY <1>2, <2>1 DEF SubmitDomain
 <2> QED BY <2>2, <2>3, AskedForOK
<1>3. ASSUME RefreshList PROVE ConsoleInv'
 <2>0. conActs' = conActs + 1 BY <1>3 DEF RefreshList, AskedFor, ConsoleAct
 <2>1. PICK k : k = Job("list", NoDomain, NoDomain, selectedId) OBVIOUS
 <2>2. JobOK(k) /\ k.stage = "asked" /\ k.kind = "list"
   BY <1>n, <2>0, <2>1 DEF Job, JobOK, JobRecords
 <2>3. AskedFor(k) /\ UNCHANGED tangled BY <1>3, <2>1 DEF RefreshList
 <2> QED BY <2>2, <2>3, AskedForOK
<1>4. ASSUME RefreshVerification PROVE ConsoleInv'
 <2>0. conActs' = conActs + 1 /\ selectedId \in Domains /\ selectedId # NoDomain
   BY <1>4, <1>n DEF RefreshVerification, AskedFor, ConsoleAct
 <2>1. PICK k : k = Job("verify", selectedId, NoDomain, selectedId) OBVIOUS
 <2>2. JobOK(k) /\ k.stage = "asked" /\ k.of = selectedId
   BY <1>n, <2>0, <2>1 DEF Job, JobOK, JobRecords, ChangeKinds
 <2> QED BY <1>4, <2>0, <2>1, <2>2, AskedForOK DEF RefreshVerification
<1>5. ASSUME NEW b \in LocalParts, AddMailbox(b) PROVE ConsoleInv'
 <2>0. conActs' = conActs + 1 /\ selectedId \in Domains /\ selectedId # NoDomain
   BY <1>5, <1>n DEF AddMailbox, AskedFor, ConsoleAct
 <2>1. PICK k : k = Job("box", selectedId, b, NoDomain) OBVIOUS
 <2>2. JobOK(k) /\ k.stage = "asked" /\ k.of = selectedId
   BY <1>n, <2>0, <2>1 DEF Job, JobOK, JobRecords, ChangeKinds
 <2> QED BY <1>5, <2>0, <2>1, <2>2, AskedForOK DEF AddMailbox
<1>6. ASSUME NEW b \in LocalParts, RemoveMailbox(b) PROVE ConsoleInv'
 <2>0. conActs' = conActs + 1 /\ selectedId \in Domains /\ selectedId # NoDomain
   BY <1>6, <1>n DEF RemoveMailbox, AskedFor, ConsoleAct
 <2>1. PICK k : k = Job("unbox", selectedId, b, NoDomain) OBVIOUS
 <2>2. JobOK(k) /\ k.stage = "asked" /\ k.of = selectedId
   BY <1>n, <2>0, <2>1 DEF Job, JobOK, JobRecords, ChangeKinds
 <2> QED BY <1>6, <2>0, <2>1, <2>2, AskedForOK DEF RemoveMailbox
<1>7. ASSUME Leave PROVE ConsoleInv'
 <2>a. onPage' \in BOOLEAN /\ tangled' \in BOOLEAN BY <1>7 DEF Leave
 <2>b. UNCHANGED <<owned, boxesOf, checks>> /\ conActs' \in 0 .. MaxConsole
   BY <1>7, <1>n DEF Leave, ConsoleAct, mailVars
 <2>1. ConsoleVarTypes' BY <1>7, <1>n, <2>a, <2>b DEF Leave, ConsoleVarTypes
 <2>c. PICK J : J = {j \in jobs : j.stage = "asked" /\ j.kind # "list"} OBVIOUS
 <2>d. oldJobs' = oldJobs \cup J /\ J \subseteq jobs /\ IsFiniteSet(J) /\ IsFiniteSet(oldJobs')
   BY <1>7, <2>c, FS_Subset, FS_Union DEF Leave, JobsOK
 <2>2. JobsOK' BY <1>7, <2>c, <2>d, FS_EmptySet DEF Leave, JobsOK
 <2>3. ChecksAreAsked'
  <3> SUFFICES ASSUME NEW e \in Domains
             PROVE  checks'[e] + Cardinality(AskingDomain(jobs', e)) + Cardinality(AskingDomain(oldJobs', e)) <= conActs'
    BY DEF ChecksAreAsked
  <3>1. AskingDomain(jobs', e) = {} /\ checks' = checks /\ conActs' = conActs + 1
    BY <1>7 DEF AskingDomain, Leave, ConsoleAct, mailVars
  <3>2. PICK A, B : A = AskingDomain(jobs, e) /\ B = AskingDomain(oldJobs, e) OBVIOUS
  <3>3. IsFiniteSet(A) /\ IsFiniteSet(B) BY <3>2, FS_Subset DEF JobsOK, AskingDomain
  <3>4. /\ IsFiniteSet(A \cup B) /\ Cardinality(A \cup B) <= Cardinality(A) + Cardinality(B)
        /\ Cardinality(A) \in Nat /\ Cardinality(B) \in Nat
   <4>1. PICK a, b, c \in Nat : /\ a = Cardinality(A) /\ b = Cardinality(B)
                                /\ c = Cardinality(A \cap B)
     BY <3>3, FS_Intersection, FS_CardinalityType
   <4>2. IsFiniteSet(A \cup B) /\ Cardinality(A \cup B) = a + b - c BY <3>3, <4>1, FS_Union
   <4> QED BY <4>1, <4>2
  <3>5. PICK T : T = AskingDomain(oldJobs', e) OBVIOUS
  <3>6. T \subseteq A \cup B BY <2>d, <3>2, <3>5 DEF AskingDomain
  <3>7. Cardinality(T) \in Nat /\ Cardinality(T) <= Cardinality(A \cup B) /\ Cardinality(A \cup B) \in Nat
    BY <3>4, <3>6, FS_Subset, FS_CardinalityType
  <3>8. checks[e] + Cardinality(A) + Cardinality(B) <= conActs /\ checks[e] \in Nat
    BY <3>2 DEF ChecksAreAsked, ConsoleVarTypes
  <3>9. checks'[e] + 0 + Cardinality(T) <= conActs' BY <1>n, <3>1, <3>4, <3>7, <3>8
  <3> QED BY <3>1, <3>5, <3>9, FS_EmptySet
 <2>4. DetailFollows' BY <1>7 DEF Leave, DetailFollows, NoChange
 <2> QED BY <2>1, <2>2, <2>3, <2>4
<1>8. ASSUME Return PROVE ConsoleInv'
 <2>1. ConsoleVarTypes' BY <1>8, <1>n DEF Return, ConsoleVarTypes, mailVars
 <2>2. jobs = {} /\ detailLoad = "none" /\ jobs' = {FirstList} /\ onPage' = TRUE
   BY <1>8 DEF Return, JobsOK
 <2>3. JobOK(FirstList) /\ FirstList.kind = "list" BY <1>n DEF JobOK, FirstList, JobRecords
 <2>4. JobsOK' BY <1>8, <2>2, <2>3, FS_Singleton DEF JobsOK, Return
 <2>5. ChecksAreAsked'
  <3>1. \A e : AskingDomain(jobs, e) = {} /\ AskingDomain(jobs', e) = {}
    BY <2>2, <2>3 DEF AskingDomain, IsAsking
  <3> QED BY <1>8, <3>1 DEF ChecksAreAsked, Return, mailVars
 <2>6. DetailFollows => DetailFollows'
   BY <1>8, <2>2, <2>3 DEF Return, DetailFollows, NoChange, DetailOf, ChangeKinds, mailVars
 <2> QED BY <1>8, <2>1, <2>4, <2>5, <2>6 DEF Return
<1> QED BY <1>1, <1>2, <1>3, <1>4, <1>5, <1>6, <1>7, <1>8

\* The server's part of a request: what is changed is its own domain.
LEMMA MailChanges ==
    ASSUME ConsoleVarTypes, NEW j, JobOK(j), MailChange(j)
    PROVE  /\ owned' \subseteq Domains
           /\ boxesOf' \in [Domains -> SUBSET LocalParts] /\ checks' \in [Domains -> Nat]
           /\ \A d \in Domains : IF j.kind = "verify" /\ d = j.of THEN checks'[d] = checks[d] + 1
                                 ELSE checks'[d] = checks[d]
           /\ j.kind = "box"   => boxesOf'[j.of] = boxesOf[j.of] \cup {j.box}
           /\ j.kind = "unbox" => boxesOf'[j.of] = boxesOf[j.of] \ {j.box}
           /\ j.kind \notin {"box", "unbox"} => boxesOf' = boxesOf
           /\ j.kind # "verify" => checks' = checks
<1> USE DEF ConsoleVarTypes, JobOK, JobRecords, MailChange, mailVars, ChangeKinds
<1>1. CASE j.kind = "list" BY <1>1
<1>2. CASE j.kind = "add" BY <1>2
<1>3. CASE j.kind = "box" BY <1>3
<1>4. CASE j.kind = "unbox" BY <1>4
<1>5. CASE j.kind = "verify" BY <1>5
<1> QED BY <1>1, <1>2, <1>3, <1>4, <1>5

\* Job j ends or becomes k, which has not still to verify anything.
LEMMA JobsGoOn ==
    ASSUME ConsoleInv, NEW j \in jobs, NEW k, jobs' \in {jobs \ {j}, (jobs \ {j}) \cup {k}},
           JobOK(k), k.kind = "verify" => k.stage # "asked", onPage' = onPage,
           detailLoad' = detailLoad \/ onPage', conActs' = conActs, oldJobs' = oldJobs,
           checks' = checks \/ (j.stage = "asked" /\ MailChange(j))
    PROVE  JobsOK' /\ ChecksAreAsked'
<1> USE DEF ConsoleInv
<1>1. JobsOK'
 <2>1. IsFiniteSet(jobs \ {j}) /\ IsFiniteSet((jobs \ {j}) \cup {k})
   BY FS_RemoveElement, FS_AddElement DEF JobsOK
 <2>2. IsFiniteSet(jobs') /\ \A i \in jobs' : JobOK(i) BY <2>1 DEF JobsOK
 <2>3. onPage BY DEF JobsOK
 <2> QED BY <2>2, <2>3 DEF JobsOK
<1>2. ASSUME NEW e \in Domains
      PROVE  checks'[e] + Cardinality(AskingDomain(jobs', e)) + Cardinality(AskingDomain(oldJobs', e)) <= conActs'
 <2>1. PICK T : T = jobs' OBVIOUS
 <2>2. ~IsAsking(k, e) /\ T \subseteq jobs \cup {k} /\ T \subseteq (jobs \ {j}) \cup {k}
   BY <2>1 DEF IsAsking
 <2>3. /\ Cardinality(AskingDomain(T, e)) <= Cardinality(AskingDomain(jobs, e))
       /\ Cardinality(AskingDomain(T, e)) \in Nat /\ Cardinality(AskingDomain(jobs, e)) \in Nat
   BY <2>2, AskingGrows DEF JobsOK
 <2>4. IsAsking(j, e) => Cardinality(AskingDomain(T, e)) + 1 <= Cardinality(AskingDomain(jobs, e))
   BY <2>2, AskingShrinks DEF JobsOK
 <2>8. PICK m \in Nat : m = Cardinality(AskingDomain(oldJobs, e)) BY OldAsking
 <2>5. checks[e] + Cardinality(AskingDomain(jobs, e)) + m <= conActs /\ checks[e] \in Nat /\ conActs \in Nat
   BY <2>8 DEF ChecksAreAsked, ConsoleVarTypes
 <2>6. CASE checks' = checks BY <2>1, <2>3, <2>5, <2>6, <2>8
 <2>7. CASE j.stage = "asked" /\ MailChange(j)
  <3>1. checks'[e] = IF IsAsking(j, e) THEN checks[e] + 1 ELSE checks[e]
    BY <2>7, MailChanges DEF IsAsking, JobsOK
  <3> QED BY <2>1, <2>3, <2>4, <2>5, <2>8, <3>1
 <2> QED BY <2>6, <2>7
<1> QED BY <1>1, <1>2 DEF ChecksAreAsked

LEMMA JobServedOK ==
    ASSUME ConsoleInv, NEW j \in jobs, JobServed(j)
    PROVE  ConsoleInv'
<1> USE DEF ConsoleInv
<1>1. PICK k : k = [j EXCEPT !.stage = IF j.kind = "verify" THEN "verified" ELSE "served", !.list = owned]
  OBVIOUS
<1>2. JobOK(j) BY DEF JobsOK
<1>3. JobOK(k) /\ k.kind = j.kind /\ k.of = j.of /\ k.box = j.box /\ k.got = j.got
      /\ k.stage = (IF j.kind = "verify" THEN "verified" ELSE "served")
  BY <1>1, <1>2 DEF JobOK, JobRecords, ConsoleVarTypes
<1>4. /\ jobs' = (jobs \ {j}) \cup {k} /\ MailChange(j) /\ j.stage = "asked"
      /\ UNCHANGED <<onPage, domains, selectedId, detail, detailLoad, detailGot, oldJobs, conActs, tangled>>
  BY <1>1 DEF JobServed, Becomes
<1>5. JobsOK' /\ ChecksAreAsked' BY <1>3, <1>4, JobsGoOn
<1>6. ConsoleVarTypes' BY <1>2, <1>4, MailChanges DEF ConsoleVarTypes
<1>7. ASSUME ~tangled' PROVE DetailFollows'
 <2>1. DetailFollows BY <1>4, <1>7
 <2>2. CASE j.kind \notin ChangeKinds
  <3>1. UNCHANGED <<boxesOf, checks>> BY <1>2, <1>4, <2>2, MailChanges DEF ChangeKinds
  <3>2. NoChange' <=> NoChange BY <1>3, <1>4, <2>2 DEF NoChange
  <3>3. \A i : ChangeShown(i) => ChangeShown(i)' BY <1>4, <3>1 DEF ChangeShown, DetailOf
  <3>4. DetailOf(selectedId)' = DetailOf(selectedId) BY <1>4, <3>1 DEF DetailOf
  <3> QED BY <1>3, <1>4, <2>1, <2>2, <3>2, <3>3, <3>4 DEF DetailFollows
 <2>3. CASE j.kind \in ChangeKinds
  <3>1. ChangeShown(j) /\ detailLoad = "none" /\ \A i \in jobs : i.kind \in ChangeKinds => i = j
    BY <2>1, <2>3 DEF DetailFollows, NoChange
  <3>2. detail = DetailOf(selectedId) /\ selectedId \in Domains /\ j.of = selectedId
    BY <1>4, <3>1 DEF ChangeShown, ConsoleVarTypes
  <3>3. ChangeShown(k)'
   <4>1. CASE j.kind = "box"
     BY <1>2, <1>3, <1>4, <3>1, <3>2, <4>1, MailChanges DEF ChangeShown, DetailOf, ConsoleVarTypes
   <4>2. CASE j.kind = "unbox"
     BY <1>2, <1>3, <1>4, <3>1, <3>2, <4>2, MailChanges DEF ChangeShown, DetailOf, ConsoleVarTypes
   <4>3. CASE j.kind = "verify"
     BY <1>2, <1>3, <1>4, <3>1, <3>2, <4>3, MailChanges DEF ChangeShown, DetailOf, ConsoleVarTypes
   <4> QED BY <2>3, <4>1, <4>2, <4>3 DEF ChangeKinds
  <3> QED BY <1>3, <1>4, <2>3, <3>1, <3>3 DEF DetailFollows, NoChange
 <2> QED BY <2>2, <2>3
<1> QED BY <1>5, <1>6, <1>7

LEMMA DetailAskedOK ==
    ASSUME ConsoleInv, NEW j \in jobs, DetailAsked(j)
    PROVE  ConsoleInv'
<1> USE DEF ConsoleInv
<1>1. PICK k : k = [j EXCEPT !.stage = "served", !.got = DetailOf(j.of)] OBVIOUS
<1>2. JobOK(j) /\ j.kind = "verify" /\ j.of \in Domains BY DEF JobsOK, JobOK, DetailAsked
<1>3. JobOK(k) /\ k.kind = "verify" /\ k.of = j.of /\ k.got = DetailOf(j.of) /\ k.stage = "served"
  BY <1>1, <1>2 DEF JobOK, JobRecords, ConsoleVarTypes, DetailOf, Details
<1>4. /\ jobs' = (jobs \ {j}) \cup {k}
      /\ UNCHANGED <<owned, boxesOf, checks>>
      /\ UNCHANGED <<onPage, domains, selectedId, detail, detailLoad, detailGot, oldJobs, conActs, tangled>>
  BY <1>1 DEF DetailAsked, Becomes, mailVars
<1>5. JobsOK' /\ ChecksAreAsked' BY <1>3, <1>4, JobsGoOn
<1>6. ConsoleVarTypes' BY <1>4 DEF ConsoleVarTypes
<1>7. ASSUME ~tangled' PROVE DetailFollows'
 <2>1. DetailFollows BY <1>4, <1>7
 <2>2. ChangeShown(j) /\ detailLoad = "none" /\ \A i \in jobs : i.kind \in ChangeKinds => i = j
   BY <1>2, <2>1 DEF DetailFollows, NoChange, ChangeKinds
 <2>3. ChangeShown(k)' /\ k.kind \in ChangeKinds
   BY <1>3, <1>4, <2>2 DEF ChangeShown, DetailOf, ChangeKinds
 <2> QED BY <1>4, <2>2, <2>3 DEF DetailFollows, NoChange
<1> QED BY <1>5, <1>6, <1>7

LEMMA DomainsAnsweredOK ==
    ASSUME ConsoleInv, NEW j \in jobs, DomainsAnswered(j)
    PROVE  ConsoleInv'
<1> USE DEF ConsoleInv
<1>1. JobOK(j) /\ j.kind = "list" BY DEF JobsOK, DomainsAnswered
<1>2. PICK d \in IF j.prefer # NoDomain THEN {j.prefer}
                 ELSE IF j.list = {} THEN {NoDomain} ELSE j.list : Selected(d)
  BY DEF DomainsAnswered
<1>3. d \in Domains \cup {NoDomain} /\ j.list \subseteq Domains BY <1>1, <1>2 DEF JobOK, JobRecords
<1>4. /\ jobs' = jobs \ {j} /\ jobs # {} /\ domains' = j.list
      /\ UNCHANGED <<owned, boxesOf, checks, oldJobs>> /\ onPage' = onPage /\ conActs' = conActs
  BY DEF DomainsAnswered, mailVars
<1>5. conActs' \in conActs .. MaxConsole /\ onPage' \in BOOLEAN
  BY <1>4, ConsoleAssumption DEF ConsoleVarTypes
<1> QED BY <1>1, <1>2, <1>3, <1>4, <1>5, SelectedOK

\* The answer to a change makes the detail that of the server.
LEMMA JobAnsweredOK ==
    ASSUME ConsoleInv, NEW j \in jobs, JobAnswered(j)
    PROVE  ConsoleInv'
<1> USE DEF ConsoleInv
<1>1. PICK k : k = [j EXCEPT !.kind = "list", !.stage = "asked", !.got = NoDetail] OBVIOUS
<1>2. JobOK(j) /\ j.kind # "list" /\ j.stage = "served" /\ j.of \in Domains /\ j.kind \in {"add"} \cup ChangeKinds
  BY DEF JobsOK, JobOK, JobRecords, JobAnswered
<1>3. JobOK(k) /\ k.kind = "list"
  BY <1>1, <1>2, ConsoleAssumption DEF JobOK, JobRecords, NoDetail, Details
<1>4. /\ jobs' \in {jobs \ {j}, (jobs \ {j}) \cup {k}}
      /\ UNCHANGED <<owned, boxesOf, checks>> /\ detail' = DetailChanged(j)
      /\ UNCHANGED <<onPage, domains, selectedId, detailLoad, detailGot, oldJobs, conActs, tangled>>
  BY <1>1 DEF JobAnswered, Becomes, mailVars
<1>5. JobsOK' /\ ChecksAreAsked' BY <1>3, <1>4, JobsGoOn
<1>6. ConsoleVarTypes'
 <2>1. detail' \in Details
  <3>1. CASE j.kind = "box" BY <1>2, <1>4, <3>1 DEF DetailChanged, ConsoleVarTypes, Details, JobOK
  <3>2. CASE j.kind = "unbox" BY <1>4, <3>2 DEF DetailChanged, ConsoleVarTypes, Details
  <3>3. CASE j.kind = "verify" BY <1>2, <1>4, <3>3 DEF DetailChanged, JobOK, JobRecords
  <3>4. CASE j.kind = "add" BY <1>4, <3>4 DEF DetailChanged, ConsoleVarTypes
  <3> QED BY <1>2, <3>1, <3>2, <3>3, <3>4 DEF ChangeKinds
 <2> QED BY <1>4, <2>1 DEF ConsoleVarTypes
<1>7. ASSUME ~tangled' PROVE DetailFollows'
 <2>1. DetailFollows /\ detail \in Details BY <1>4, <1>7 DEF ConsoleVarTypes
 <2>2. CASE j.kind = "add"
  <3>1. detail' = detail BY <1>4, <2>2 DEF DetailChanged
  <3>2. NoChange' <=> NoChange BY <1>3, <1>4, <2>2 DEF NoChange, ChangeKinds
  <3>3. \A i : ChangeShown(i) => ChangeShown(i)' BY <1>4, <3>1 DEF ChangeShown, DetailOf
  <3>4. DetailOf(selectedId)' = DetailOf(selectedId) BY <1>4 DEF DetailOf
  <3>5. \A i \in jobs' : i.kind \in ChangeKinds => i \in jobs BY <1>3, <1>4 DEF ChangeKinds
  <3> QED BY <1>4, <2>1, <3>1, <3>2, <3>3, <3>4, <3>5 DEF DetailFollows
 <2>3. CASE j.kind \in ChangeKinds
  <3>1. ChangeShown(j) /\ detailLoad = "none" /\ \A i \in jobs : i.kind \in ChangeKinds => i = j
    BY <2>1, <2>3 DEF DetailFollows, NoChange
  <3>2. NoChange' BY <1>3, <1>4, <3>1 DEF NoChange, ChangeKinds
  <3>3. selectedId \in Domains /\ j.of = selectedId BY <1>2, <3>1 DEF ChangeShown
  <3>4. detail' = DetailOf(selectedId)
   <4>1. CASE j.kind = "box"
    <5>1. detail # NoDetail
      BY <1>2, <3>1, <3>3, <4>1, ConsoleAssumption DEF ChangeShown, NoDetail
    <5> QED
      BY <1>2, <1>4, <2>1, <3>1, <4>1, <5>1 DEF ChangeShown, DetailOf, DetailChanged, Details
   <4>2. CASE j.kind = "unbox"
     BY <1>2, <1>4, <2>1, <3>1, <4>2 DEF ChangeShown, DetailOf, DetailChanged, Details
   <4>3. CASE j.kind = "verify" BY <1>2, <1>4, <3>1, <4>3 DEF ChangeShown, DetailChanged
   <4> QED BY <2>3, <4>1, <4>2, <4>3 DEF ChangeKinds
  <3>5. DetailOf(selectedId)' = DetailOf(selectedId) BY <1>4 DEF DetailOf
  <3> QED BY <1>4, <3>1, <3>2, <3>4, <3>5 DEF DetailFollows, NoChange
 <2> QED BY <1>2, <2>2, <2>3
<1> QED BY <1>5, <1>6, <1>7

LEMMA JobFailsOK ==
    ASSUME ConsoleInv, NEW j \in jobs, JobFails(j)
    PROVE  ConsoleInv'
<1> USE DEF ConsoleInv
<1>1. JobOK(j) BY DEF JobsOK
<1>2. /\ jobs' = jobs \ {j}
      /\ UNCHANGED <<onPage, domains, selectedId, detail, detailLoad, detailGot, oldJobs, conActs>>
      /\ \/ UNCHANGED <<owned, boxesOf, checks>>
         \/ j.stage = "asked" /\ MailChange(j)
  BY DEF JobFails, mailVars
<1>3. JobOK(FirstList) /\ FirstList.kind = "list"
  BY ConsoleAssumption DEF JobOK, FirstList, JobRecords, NoDetail, Details
<1>4. JobsOK' /\ ChecksAreAsked' BY <1>2, <1>3, JobsGoOn
<1>5. ConsoleVarTypes'
 <2>1. tangled' \in BOOLEAN BY DEF JobFails, ConsoleVarTypes
 <2>2. owned' \subseteq Domains /\ boxesOf' \in [Domains -> SUBSET LocalParts] /\ checks' \in [Domains -> Nat]
   BY <1>1, <1>2, MailChanges DEF ConsoleVarTypes
 <2> QED BY <1>2, <2>1, <2>2 DEF ConsoleVarTypes
<1>6. ASSUME ~tangled' PROVE DetailFollows'
 <2>1. ~tangled /\ boxesOf' = boxesOf /\ checks' = checks /\ (j.kind = "list" \/ j.stage = "asked")
   BY <1>6 DEF JobFails
 <2>2. DetailFollows BY <2>1
 <2>3. \A i : ChangeShown(i) => ChangeShown(i)' BY <1>2, <2>1 DEF ChangeShown, DetailOf
 <2>4. DetailOf(selectedId)' = DetailOf(selectedId) BY <1>2, <2>1 DEF DetailOf
 <2>5. NoChange => NoChange' BY <1>2 DEF NoChange
 <2>6. NoChange' /\ ~NoChange => j.kind \in ChangeKinds /\ j.stage = "asked"
   BY <1>2, <2>1 DEF NoChange, ChangeKinds
 <2>7. j.kind \in ChangeKinds /\ j.stage = "asked" => detail = DetailOf(selectedId)
   BY <2>2 DEF DetailFollows, ChangeShown
 <2> QED BY <1>2, <2>2, <2>3, <2>4, <2>5, <2>6, <2>7 DEF DetailFollows
<1> QED BY <1>4, <1>5, <1>6

\* A change of a page that was left: the detail is loaded after it, or is not its own.
LEMMA OldJobServedOK ==
    ASSUME ConsoleInv, NEW j \in oldJobs, OldJobServed(j)
    PROVE  ConsoleInv'
<1> USE DEF ConsoleInv
<1>1. JobOK(j) /\ j.stage = "asked" BY DEF JobsOK
<1>2. /\ oldJobs' = oldJobs \ {j} /\ MailChange(j)
      /\ UNCHANGED <<onPage, domains, selectedId, detail, detailLoad, detailGot, jobs, conActs>>
  BY DEF OldJobServed
<1>3. JobsOK' BY <1>2, FS_RemoveElement DEF JobsOK
<1>4. ConsoleVarTypes'
 <2>1. tangled' \in BOOLEAN BY DEF OldJobServed, ConsoleVarTypes
 <2> QED BY <1>1, <1>2, <2>1, MailChanges DEF ConsoleVarTypes
<1>5. ChecksAreAsked'
 <2> SUFFICES ASSUME NEW e \in Domains
              PROVE  checks'[e] + Cardinality(AskingDomain(jobs', e)) + Cardinality(AskingDomain(oldJobs', e)) <= conActs'
   BY DEF ChecksAreAsked
 <2>1. PICK T : T = oldJobs' OBVIOUS
 <2>2. ~IsAsking(FirstList, e) /\ T \subseteq oldJobs \cup {FirstList} /\ T \subseteq (oldJobs \ {j}) \cup {FirstList}
   BY <1>2, <2>1 DEF IsAsking, FirstList
 <2>3. PICK m, n \in Nat : /\ m = Cardinality(AskingDomain(oldJobs, e)) /\ n = Cardinality(AskingDomain(T, e))
                           /\ n <= m
   BY <2>2, AskingGrows DEF JobsOK
 <2>4. IsAsking(j, e) => n + 1 <= m BY <2>2, <2>3, AskingShrinks DEF JobsOK
 <2>5. PICK c \in Nat : c = Cardinality(AskingDomain(jobs, e))
   BY FS_Subset, FS_CardinalityType DEF JobsOK, AskingDomain
 <2>6. checks[e] + c + m <= conActs /\ checks[e] \in Nat /\ conActs \in Nat
   BY <2>3, <2>5 DEF ChecksAreAsked, ConsoleVarTypes
 <2>7. checks'[e] = IF IsAsking(j, e) THEN checks[e] + 1 ELSE checks[e]
   BY <1>1, <1>2, MailChanges DEF IsAsking
 <2> QED BY <1>2, <2>1, <2>3, <2>4, <2>5, <2>6, <2>7
<1>6. ASSUME ~tangled' PROVE DetailFollows'
 <2>1. DetailFollows /\ (j.kind # "add" /\ j.of = selectedId => detailLoad = "asked")
   BY <1>6 DEF OldJobServed
 <2>2. CASE detailLoad = "asked" BY <1>2, <2>1, <2>2 DEF DetailFollows, NoChange
 <2>3. CASE detailLoad # "asked"
  <3>1. j.kind = "add" \/ j.of # selectedId BY <2>1, <2>3
  <3>2. selectedId \in Domains =>
          checks'[selectedId] = checks[selectedId] /\ boxesOf'[selectedId] = boxesOf[selectedId]
    BY <1>1, <1>2, <3>1 DEF MailChange, mailVars, ConsoleVarTypes, JobOK, JobRecords, ChangeKinds
  <3>3. selectedId # NoDomain => DetailOf(selectedId)' = DetailOf(selectedId)
    BY <1>2, <3>2 DEF DetailOf, ConsoleVarTypes
  <3>4. \A i : ChangeShown(i) => ChangeShown(i)'
    BY <1>2, <3>2, <3>3 DEF ChangeShown, ConsoleVarTypes
  <3> QED BY <1>2, <2>1, <3>3, <3>4 DEF DetailFollows, NoChange
 <2> QED BY <2>2, <2>3
<1> QED BY <1>3, <1>4, <1>5, <1>6

LEMMA ConsoleNextOK == ConsoleInv /\ [ConsoleNext]_consoleVars => ConsoleInv'
<1> SUFFICES ASSUME ConsoleInv, [ConsoleNext]_consoleVars PROVE ConsoleInv' OBVIOUS
<1>1. CASE DetailServed \/ DetailAnswered \/ DetailFails BY <1>1, DetailLoadsOK
<1>2. CASE \/ \E d \in Domains : SelectDomain(d) \/ SubmitDomain(d)
           \/ RefreshList \/ RefreshVerification \/ Leave \/ Return
           \/ \E b \in LocalParts : AddMailbox(b) \/ RemoveMailbox(b)
  BY <1>2, ConsoleClicksOK
<1>3. ASSUME NEW j \in jobs,
             JobServed(j) \/ DetailAsked(j) \/ DomainsAnswered(j) \/ JobAnswered(j) \/ JobFails(j)
      PROVE  ConsoleInv'
  BY <1>3, JobServedOK, DetailAskedOK, DomainsAnsweredOK, JobAnsweredOK, JobFailsOK
<1>4. CASE UNCHANGED consoleVars
 <2>1. UNCHANGED <<owned, boxesOf, checks, onPage, domains, selectedId, detail, detailLoad,
                   detailGot, jobs, oldJobs, conActs, tangled>>
   BY <1>4 DEF consoleVars
 <2>2. DetailFollows => DetailFollows' BY <2>1 DEF DetailFollows, ChangeShown, DetailOf, NoChange
 <2>3. ConsoleVarTypes' /\ JobsOK' /\ ChecksAreAsked'
   BY <2>1 DEF ConsoleInv, ConsoleVarTypes, JobsOK, ChecksAreAsked
 <2> QED BY <2>1, <2>2, <2>3 DEF ConsoleInv
<1>5. ASSUME NEW j \in oldJobs, OldJobServed(j) PROVE ConsoleInv' BY <1>5, OldJobServedOK
<1> QED BY <1>1, <1>2, <1>3, <1>4, <1>5 DEF ConsoleNext

LEMMA InvSettlesConsole == ConsoleInv => DetailIsOfSelection /\ ConsoleTypeOK
<1> SUFFICES ASSUME ConsoleInv PROVE DetailIsOfSelection /\ ConsoleTypeOK OBVIOUS
<1>1. DetailIsOfSelection
  BY DEF ConsoleInv, DetailFollows, NoChange, DetailIsOfSelection, RecordsShown, MailboxesShown,
         TimelineShown, DetailOf
<1>2. ASSUME NEW d \in Domains PROVE checks[d] \in 0 .. MaxConsole
 <2>1. PICK c : c = Cardinality(AskingDomain(jobs, d)) OBVIOUS
 <2>2. c \in Nat BY <2>1, FS_Subset, FS_CardinalityType DEF ConsoleInv, JobsOK, AskingDomain
 <2>3. PICK m \in Nat : m = Cardinality(AskingDomain(oldJobs, d)) BY OldAsking
 <2> QED BY <2>1, <2>2, <2>3, ConsoleAssumption DEF ConsoleInv, ChecksAreAsked, ConsoleVarTypes
<1>3. checks \in [Domains -> 0 .. MaxConsole] BY <1>2 DEF ConsoleInv, ConsoleVarTypes
<1>4. ConsoleTypeOK BY <1>3 DEF ConsoleInv, ConsoleVarTypes, ConsoleTypeOK, Details
<1> QED BY <1>1, <1>4

-------------------------------------------------------------------------------
(* IV. The export. *)

\* The exports that go on without their page have something left.
LeftAreWhole == left \in Seq(Seq(Sections) \ {<<>>})

\* What the page exports is the end of what it selected.
EndOfSelection ==
    /\ Len(todo) <= Len(toExport)
    /\ \A i \in 1 .. Len(todo) : todo[i] = toExport[Len(toExport) - Len(todo) + i]

\* The signs are those of the export, and a section that is done was downloaded.
SignsOfExport ==
    /\ exporting = (todo # <<>>)
    /\ exporting => EndOfSelection
    /\ \A s \in Sections : status[s] = "exporting" <=> todo # <<>> /\ s = Head(todo)
    /\ \A s \in Sections : status[s] = "done" => s \in since
    /\ \A s \in since : \E f \in downloads : f.section = s

ExportVarTypes ==
    /\ toExport \in Seq(Sections) /\ IsInjective(toExport)
    /\ todo \in Seq(Sections) /\ status \in [Sections -> Statuses] /\ exporting \in BOOLEAN
    /\ downloads \subseteq [section: Sections, holds: Holdings] /\ since \subseteq Sections
    /\ pressed \in 0 .. MaxExport

ExportInv == ExportVarTypes /\ LeftAreWhole /\ SignsOfExport

LEMMA ExportInitOK == ExportInit => ExportInv
<1> SUFFICES ASSUME ExportInit PROVE ExportInv OBVIOUS
<1> USE ExportAssumption DEF ExportInit
<1>1. ExportVarTypes
 <2>1. exporting \in BOOLEAN OBVIOUS
 <2> QED BY <2>1 DEF ExportVarTypes, IsInjective, Statuses
<1>2. LeftAreWhole BY DEF LeftAreWhole
<1>3. SignsOfExport BY DEF SignsOfExport
<1> QED BY <1>1, <1>2, <1>3 DEF ExportInv

\* A selection without one of its sections.
LEMMA OneTaken ==
    ASSUME NEW S, NEW q \in Seq(S), NEW i \in DOMAIN q
    PROVE  RemoveAt(q, i) \in Seq(S) /\ (IsInjective(q) => IsInjective(RemoveAt(q, i)))
<1>1. PICK n : n = Len(q) OBVIOUS
<1>2. n \in Nat /\ DOMAIN q = 1 .. n /\ i \in 1 .. n BY <1>1
<1>3. PICK a : a = SubSeq(q, 1, i - 1) OBVIOUS
<1>4. a \in Seq(S) /\ Len(a) = i - 1 /\ \A k \in 1 .. i - 1 : a[k] = q[k] BY <1>2, <1>3
<1>5. PICK b : b = SubSeq(q, i + 1, Len(q)) OBVIOUS
<1>6. b \in Seq(S) /\ Len(b) = n - i /\ \A k \in 1 .. n - i : b[k] = q[k + i] BY <1>1, <1>2, <1>5
<1>7. PICK c : c = a \o b OBVIOUS
<1>8. c \in Seq(S) /\ Len(c) = n - 1
      /\ \A k \in 1 .. n - 1 : c[k] = IF k <= i - 1 THEN q[k] ELSE q[k + 1]
 <2>1. /\ c \in Seq(S) /\ Len(c) = Len(a) + Len(b)
       /\ \A k \in 1 .. Len(a) + Len(b) : c[k] = IF k <= Len(a) THEN a[k] ELSE b[k - Len(a)]
   BY <1>4, <1>6, <1>7, ConcatProperties
 <2>2. Len(a) + Len(b) = n - 1 BY <1>2, <1>4, <1>6
 <2>3. ASSUME NEW k \in 1 .. n - 1 PROVE c[k] = IF k <= i - 1 THEN q[k] ELSE q[k + 1]
  <3>1. k <= i - 1 => k \in 1 .. i - 1 OBVIOUS
  <3>2. ~(k <= i - 1) => k - (i - 1) \in 1 .. n - i /\ (k - (i - 1)) + i = k + 1 BY <1>2
  <3> QED BY <1>2, <1>4, <1>6, <2>1, <2>2, <3>1, <3>2
 <2> QED BY <2>1, <2>2, <2>3
<1>9. \A k \in 1 .. n - 1 : k \in 1 .. n /\ k + 1 \in 1 .. n BY <1>2
<1>10. IsInjective(q) => IsInjective(c)
 <2> SUFFICES ASSUME IsInjective(q), NEW k \in 1 .. n - 1, NEW l \in 1 .. n - 1, c[k] = c[l]
              PROVE  k = l
   BY <1>8 DEF IsInjective
 <2>1. \A x, y \in 1 .. n : q[x] = q[y] => x = y BY <1>2 DEF IsInjective
 <2> QED BY <1>2, <1>8, <1>9, <2>1
<1>11. RemoveAt(q, i) = c BY <1>3, <1>5, <1>7 DEF RemoveAt
<1> QED BY <1>8, <1>10, <1>11

\* The clicks on the page.
LEMMA ToggleOK ==
    ASSUME ExportInv, NEW s \in Sections, Toggle(s)
    PROVE  ExportInv'
<1> USE ExportAssumption DEF ExportInv
<1>1. /\ UNCHANGED <<status, exporting, todo, left, downloads, since>> /\ ~exporting
      /\ pressed' \in 0 .. MaxExport
  BY DEF Toggle, Pressed, ExportVarTypes
<1>2. toExport' \in Seq(Sections) /\ IsInjective(toExport')
 <2>1. toExport \in Seq(Sections) /\ IsInjective(toExport) BY DEF ExportVarTypes
 <2>2. CASE Contains(toExport, s)
  <3>1. PICK i \in DOMAIN toExport : toExport' = RemoveAt(toExport, i) BY <2>2 DEF Toggle
  <3> QED BY <2>1, <3>1, OneTaken
 <2>3. CASE ~Contains(toExport, s)
  <3>1. toExport' = Append(toExport, s) /\ \A i \in 1 .. Len(toExport) : toExport[i] # s
    BY <2>3 DEF Toggle, Contains
  <3>2. toExport' \in Seq(Sections) /\ Len(toExport') = Len(toExport) + 1
        /\ \A i \in 1 .. Len(toExport') :
              toExport'[i] = IF i = Len(toExport') THEN s ELSE toExport[i]
    BY <2>1, <3>1
  <3> QED BY <2>1, <3>1, <3>2 DEF IsInjective
 <2> QED BY <2>2, <2>3
<1> QED BY <1>1, <1>2 DEF ExportVarTypes, LeftAreWhole, SignsOfExport

LEMMA HandleExportOK ==
    ASSUME ExportInv, HandleExport
    PROVE  ExportInv'
<1> USE ExportAssumption DEF ExportInv
<1>1. /\ UNCHANGED <<toExport, left, downloads, since>> /\ toExport # <<>> /\ ~exporting
      /\ pressed' \in 0 .. MaxExport /\ todo' = toExport /\ exporting' = TRUE
      /\ status' = [status EXCEPT ![Head(toExport)] = "exporting"]
  BY DEF HandleExport, Pressed, ExportVarTypes
<1>2. toExport \in Seq(Sections) /\ Head(toExport) \in Sections BY <1>1 DEF ExportVarTypes
<1>3. ExportVarTypes'
 <2>1. exporting' \in BOOLEAN BY <1>1
 <2>2. status' \in [Sections -> Statuses] BY <1>1 DEF ExportVarTypes, Statuses
 <2> QED BY <1>1, <2>1, <2>2 DEF ExportVarTypes
<1>4. SignsOfExport'
 <2>1. EndOfSelection' BY <1>1, <1>2 DEF EndOfSelection
 <2>2. \A s \in Sections : status[s] # "exporting" BY <1>1 DEF SignsOfExport
 <2>3. \A s \in Sections : status'[s] = IF s = Head(toExport) THEN "exporting" ELSE status[s]
   BY <1>1, <1>2 DEF ExportVarTypes
 <2>4. exporting' = (todo' # <<>>) BY <1>1
 <2>5. \A s \in Sections : status'[s] = "exporting" <=> todo' # <<>> /\ s = Head(todo')
   BY <1>1, <2>2, <2>3
 <2> QED BY <1>1, <2>1, <2>3, <2>4, <2>5 DEF SignsOfExport
<1> QED BY <1>1, <1>3, <1>4 DEF LeftAreWhole

\* The next section: what is left of the export is still the end of the selection.
LEMMA OnwardsOK ==
    ASSUME ExportInv, NEW now \in {"done", "error"}, todo # <<>>, Onwards(now),
           toExport' = toExport, left' = left, pressed' = pressed,
           \/ since' = since /\ downloads' = downloads /\ now = "error"
           \/ \E holds \in Holdings :
                 /\ since' = since \cup {Head(todo)}
                 /\ downloads' = downloads \cup {[section |-> Head(todo), holds |-> holds]}
    PROVE  ExportInv'
<1> USE DEF ExportInv
<1>1. /\ todo' = Tail(todo) /\ exporting' = (todo' # <<>>)
      /\ status' = [s \in Sections |->
                    IF todo' # <<>> /\ s = Head(todo') THEN "exporting"
                    ELSE IF s = Head(todo) THEN now ELSE status[s]]
  BY DEF Onwards
<1>2. /\ todo \in Seq(Sections) /\ toExport \in Seq(Sections) /\ Head(todo) \in Sections
      /\ Len(todo) \in Nat \ {0} /\ Len(toExport) \in Nat
  BY DEF ExportVarTypes
<1>3. /\ todo' \in Seq(Sections) /\ Len(todo') = Len(todo) - 1
      /\ \A i \in 1 .. Len(todo') : todo'[i] = todo[i + 1]
  BY <1>1, <1>2
<1>4. /\ downloads' \subseteq [section: Sections, holds: Holdings] /\ since' \subseteq Sections
      /\ \A s \in since' : \E f \in downloads' : f.section = s
      /\ since \subseteq since' /\ (now = "done" => Head(todo) \in since')
 <2>1. CASE since' = since /\ downloads' = downloads /\ now = "error"
   BY <2>1 DEF ExportVarTypes, SignsOfExport
 <2>2. ASSUME NEW holds \in Holdings, since' = since \cup {Head(todo)},
              downloads' = downloads \cup {[section |-> Head(todo), holds |-> holds]}
       PROVE  /\ downloads' \subseteq [section: Sections, holds: Holdings] /\ since' \subseteq Sections
              /\ \A s \in since' : \E f \in downloads' : f.section = s
              /\ since \subseteq since' /\ (now = "done" => Head(todo) \in since')
  <3>1. PICK f : f = [section |-> Head(todo), holds |-> holds] OBVIOUS
  <3>2. f \in [section: Sections, holds: Holdings] /\ f.section = Head(todo)
        /\ downloads' = downloads \cup {f}
    BY <1>2, <2>2, <3>1
  <3>3. \A s \in since' : \E g \in downloads' : g.section = s BY <2>2, <3>2 DEF SignsOfExport
  <3> QED BY <1>2, <2>2, <3>2, <3>3 DEF ExportVarTypes
 <2> QED BY <2>1, <2>2
<1>5. ExportVarTypes'
 <2>1. exporting' \in BOOLEAN BY <1>1
 <2>2. status' \in [Sections -> Statuses] BY <1>1 DEF ExportVarTypes, Statuses
 <2> QED BY <1>3, <1>4, <2>1, <2>2 DEF ExportVarTypes
<1>6. EndOfSelection'
 <2>1. EndOfSelection BY DEF SignsOfExport
 <2>2. Len(todo') <= Len(toExport') BY <1>2, <1>3, <2>1 DEF EndOfSelection
 <2>3. ASSUME NEW i \in 1 .. Len(todo')
       PROVE  todo'[i] = toExport'[Len(toExport') - Len(todo') + i]
  <3>1. /\ i + 1 \in 1 .. Len(todo) /\ todo'[i] = todo[i + 1]
        /\ Len(toExport) - Len(todo) + (i + 1) = Len(toExport') - Len(todo') + i
    BY <1>2, <1>3
  <3> QED BY <2>1, <3>1 DEF EndOfSelection
 <2> QED BY <2>2, <2>3 DEF EndOfSelection
<1>7. \A s \in Sections : status'[s] = "exporting" <=> todo' # <<>> /\ s = Head(todo')
 <2>1. \A s \in Sections : s # Head(todo) => status[s] # "exporting" BY DEF SignsOfExport
 <2> QED BY <1>1, <2>1
<1>8. \A s \in Sections : status'[s] = "done" => s \in since'
 <2>1. \A s \in Sections : status[s] = "done" => s \in since' BY <1>4 DEF SignsOfExport
 <2> QED BY <1>1, <1>4, <2>1
<1>9. SignsOfExport' BY <1>1, <1>4, <1>6, <1>7, <1>8 DEF SignsOfExport
<1> QED BY <1>5, <1>9 DEF LeftAreWhole

LEMMA AnsweredOK ==
    ASSUME ExportInv, (\E holds \in Holdings : SectionAnswered(holds)) \/ SectionFails
    PROVE  ExportInv'
<1>1. CASE SectionFails
 <2>1. todo # <<>> /\ Onwards("error") /\ UNCHANGED <<toExport, left, downloads, since, pressed>>
   BY <1>1 DEF SectionFails
 <2> QED BY <2>1, OnwardsOK
<1>2. ASSUME NEW holds \in Holdings, SectionAnswered(holds)
      PROVE  ExportInv'
 <2>1. /\ todo # <<>> /\ Onwards("done") /\ UNCHANGED <<toExport, left, pressed>>
       /\ since' = since \cup {Head(todo)}
       /\ downloads' = downloads \cup {[section |-> Head(todo), holds |-> holds]}
   BY <1>2 DEF SectionAnswered
 <2> QED BY <2>1, OnwardsOK
<1> QED BY <1>1, <1>2

LEMMA LeavePageOK ==
    ASSUME ExportInv, LeavePage
    PROVE  ExportInv'
<1> USE ExportAssumption DEF ExportInv
<1>1. /\ pressed' \in 0 .. MaxExport /\ downloads' = downloads
      /\ toExport' = <<>> /\ status' = [s \in Sections |-> "idle"]
      /\ exporting' = FALSE /\ todo' = <<>> /\ since' = {}
      /\ left' = IF todo = <<>> THEN left ELSE Append(left, todo)
  BY DEF LeavePage, Pressed, ExportVarTypes
<1>2. ExportVarTypes'
 <2>1. exporting' \in BOOLEAN BY <1>1
 <2> QED BY <1>1, <2>1 DEF ExportVarTypes, IsInjective, Statuses
<1>3. LeftAreWhole' BY <1>1 DEF ExportVarTypes, LeftAreWhole
<1>4. SignsOfExport' BY <1>1 DEF SignsOfExport
<1> QED BY <1>2, <1>3, <1>4

LEMMA LeftAnsweredOK ==
    ASSUME ExportInv, NEW i \in DOMAIN left, NEW got \in Holdings \cup {"none"}, LeftAnswered(i, got)
    PROVE  ExportInv'
<1> USE DEF ExportInv
<1>1. UNCHANGED <<toExport, status, exporting, todo, since, pressed>> BY DEF LeftAnswered
<1>2. /\ left[i] \in Seq(Sections) /\ left[i] # <<>> /\ Head(left[i]) \in Sections
      /\ Tail(left[i]) \in Seq(Sections)
 <2>1. left[i] \in Seq(Sections) \ {<<>>} BY DEF LeftAreWhole
 <2> QED BY <2>1
<1>3. downloads \subseteq downloads' /\ downloads' \subseteq [section: Sections, holds: Holdings]
  BY <1>2 DEF LeftAnswered, ExportVarTypes
<1>4. LeftAreWhole'
 <2>1. PICK t : t = Tail(left[i]) OBVIOUS
 <2>2. left' = IF t = <<>> THEN RemoveAt(left, i) ELSE [left EXCEPT ![i] = t]
   BY <2>1 DEF LeftAnswered
 <2>3. left \in Seq(Seq(Sections) \ {<<>>}) /\ t \in Seq(Sections) BY <1>2, <2>1 DEF LeftAreWhole
 <2>4. RemoveAt(left, i) \in Seq(Seq(Sections) \ {<<>>}) BY <2>3, OneTaken
 <2>5. t # <<>> => [left EXCEPT ![i] = t] \in Seq(Seq(Sections) \ {<<>>}) BY <2>3
 <2> QED BY <2>2, <2>4, <2>5 DEF LeftAreWhole
<1>5. SignsOfExport' BY <1>1, <1>3 DEF SignsOfExport, EndOfSelection
<1> QED BY <1>1, <1>3, <1>4, <1>5 DEF ExportVarTypes

LEMMA ExportNextOK ==
    ASSUME ExportInv, ExportNext
    PROVE  ExportInv'
BY ToggleOK, HandleExportOK, AnsweredOK, LeavePageOK, LeftAnsweredOK DEF ExportNext

\* What the properties say of the page, from the invariant.
LEMMA InvSettlesExport ==
    ASSUME ExportInv
    PROVE  ExportIsShown /\ ExportTypeOK
<1> USE DEF ExportInv
<1>1. \A s \in Sections : SectionsShown[s].sign = status[s]
                           /\ SectionsShown[s].ticked = Contains(toExport, s)
  BY DEF SectionsShown
<1>2. exporting => IsSuffix(todo, toExport)
 <2> SUFFICES ASSUME exporting PROVE IsSuffix(todo, toExport) OBVIOUS
 <2>1. PICK m : m = Len(todo) OBVIOUS
 <2>2. PICK n : n = Len(toExport) OBVIOUS
 <2>3. m \in Nat /\ n \in Nat /\ m <= n /\ \A i \in 1 .. m : todo[i] = toExport[n - m + i]
   BY <2>1, <2>2 DEF ExportVarTypes, SignsOfExport, EndOfSelection
 <2>4. PICK a : a = Reverse(todo) OBVIOUS
 <2>5. PICK b : b = Reverse(toExport) OBVIOUS
 <2>6. a \in Seq(Sections) /\ Len(a) = m /\ \A i \in 1 .. m : a[i] = todo[(m - i) + 1]
   BY <2>1, <2>3, <2>4 DEF ExportVarTypes, Reverse
 <2>7. b \in Seq(Sections) /\ Len(b) = n /\ \A i \in 1 .. n : b[i] = toExport[(n - i) + 1]
   BY <2>2, <2>3, <2>5 DEF ExportVarTypes, Reverse
 <2>8. \A i \in 1 .. m : a[i] = b[i]
  <3> TAKE i \in 1 .. m
  <3>1. PICK j \in 1 .. m : j = (m - i) + 1 BY <2>3
  <3>2. i \in 1 .. n /\ n - m + j = (n - i) + 1 BY <2>3, <3>1
  <3>3. a[i] = todo[j] BY <2>6, <3>1
  <3>4. b[i] = toExport[n - m + j] BY <2>7, <3>2
  <3>5. todo[j] = toExport[n - m + j] BY <2>3
  <3> QED BY <3>3, <3>4, <3>5
 <2>9. SubSeq(a, 1, m) = SubSeq(b, 1, m) BY <2>3, <2>6, <2>7, <2>8
 <2> QED BY <2>3, <2>4, <2>5, <2>6, <2>7, <2>9 DEF IsSuffix, IsPrefix
<1>3. ButtonShown = "complete" =>
          \A s \in Sections : SectionsShown[s].ticked => \E f \in downloads : f.section = s
 <2> SUFFICES ASSUME ButtonShown = "complete", NEW s \in Sections, SectionsShown[s].ticked
              PROVE  \E f \in downloads : f.section = s
   OBVIOUS
 <2>1. AllDone BY DEF ButtonShown, ExportVarTypes
 <2>2. PICK i \in 1 .. Len(toExport) : toExport[i] = s BY <1>1 DEF Contains
 <2>3. status[s] = "done" BY <2>1, <2>2 DEF AllDone, ExportVarTypes
 <2> QED BY <2>3 DEF SignsOfExport
<1>4. ExportIsShown BY <1>1, <1>2, <1>3 DEF ExportIsShown, SignsOfExport
<1>5. ExportTypeOK BY DEF ExportTypeOK, ExportVarTypes, ToSet
<1> QED BY <1>4, <1>5

\* Where none of its variables changes, neither does the invariant.
LEMMA ExportStepOK == ExportInv /\ [ExportNext]_exportVars => ExportInv'
<1> SUFFICES ASSUME ExportInv, [ExportNext]_exportVars PROVE ExportInv' OBVIOUS
<1>1. CASE ExportNext BY <1>1, ExportNextOK
<1>2. CASE UNCHANGED exportVars
  BY <1>2 DEF exportVars, ExportInv, ExportVarTypes, LeftAreWhole, SignsOfExport, EndOfSelection
<1> QED BY <1>1, <1>2

-------------------------------------------------------------------------------
(* V. The dialogs and menus. *)

LEMMA GreatestExists ==
    ASSUME NEW N \in Nat, NEW S, S \subseteq 0 .. N, S # {}
    PROVE  \E m \in S : \A n \in S : m >= n
<1> DEFINE D == {N - n : n \in S}
<1>1. D \subseteq Nat /\ D # {}
 <2>1. \A n \in S : N - n \in Nat /\ N - n \in D OBVIOUS
 <2> QED BY <2>1
<1>2. PICK d \in D : \A e \in D : d <= e
 <2> HIDE DEF D
 <2> QED BY <1>1, LeastExists
<1>3. PICK m \in S : d = N - m BY <1>2
<1>4. ASSUME NEW n \in S
      PROVE  m >= n
 <2>1. N - n \in D OBVIOUS
 <2>2. d <= N - n BY <1>2, <2>1
 <2>3. m \in Nat /\ n \in Nat OBVIOUS
 <2> QED BY <1>3, <2>2, <2>3
<1> QED BY <1>4

OverlayTypes ==
    /\ overlay \in {"dialog", "menu", "select"}
    /\ barred \subseteq Elements /\ barred # Elements
    /\ selfFocus \in Elements \cup {0} /\ selfFocus \notin barred
    /\ focus \in Inside \cup Outside /\ remembered \in Inside \cup Outside
    /\ highlighted \in Elements \cup {0} /\ picked \in [item: Elements \cup {0}, up: BOOLEAN]
    /\ cameFrom \in {Opener, Body} /\ presses \in 0 .. MaxPresses
    /\ shown \in BOOLEAN /\ frame \in BOOLEAN /\ stableClose \in BOOLEAN /\ wandered \in BOOLEAN

\* What a dialog that is open remembers leads back to where the focus was.
DialogRemembers ==
    overlay = "dialog" /\ shown /\ ~wandered =>
        IF selfFocus # 0 THEN focus \in Inside /\ remembered \in Inside
        ELSE IF cameFrom = Opener THEN remembered = Opener
        ELSE focus \in Inside \cup {Body} /\ remembered \in Inside \cup {Body}

OverlaysInv ==
    /\ OverlayTypes
    /\ frame => shown /\ overlay # "select"
    /\ shown => presses > 0
    /\ DialogRemembers
    /\ FocusIsKept
    /\ picked.item \notin barred

\* The items at the ends, and those beside one, can be used.
LEMMA Neighbours ==
    ASSUME OverlayTypes
    PROVE  /\ FirstItem \in Enabled /\ LastItem \in Enabled
           /\ \A i : Following(i) \in Enabled /\ Preceding(i) \in Enabled
           /\ ListDown \in Elements /\ ListUp \in Elements
           /\ Enabled \subseteq Elements
<1>1. ItemCount \in Nat \ {0} /\ Enabled \subseteq 0 .. ItemCount /\ Enabled \subseteq Nat
      /\ Enabled # {} /\ Enabled \subseteq Elements
 <2>1. ItemCount \in Nat \ {0} /\ Elements \subseteq 0 .. ItemCount /\ Elements \subseteq Nat
   BY OverlaysAssumption DEF Elements
 <2>2. Enabled # {} /\ Enabled \subseteq Elements BY DEF OverlayTypes, Enabled
 <2> QED BY <2>1, <2>2
<1>2. \A S : S \subseteq Enabled /\ S # {} => Min(S) \in Enabled /\ Max(S) \in Enabled
 <2> SUFFICES ASSUME NEW S, S \subseteq Enabled, S # {}
              PROVE  Min(S) \in Enabled /\ Max(S) \in Enabled
   OBVIOUS
 <2>1. Min(S) \in S BY <1>1, LeastExists DEF Min
 <2>2. Max(S) \in S BY <1>1, GreatestExists DEF Max
 <2> QED BY <2>1, <2>2
<1>3. FirstItem \in Enabled /\ LastItem \in Enabled BY <1>1, <1>2 DEF FirstItem, LastItem
<1>4. ASSUME NEW i
      PROVE  Following(i) \in Enabled /\ Preceding(i) \in Enabled
 <2>1. {j \in Enabled : j > i} \subseteq Enabled /\ {j \in Enabled : j < i} \subseteq Enabled
   OBVIOUS
 <2> QED BY <1>2, <1>3, <2>1 DEF Following, Preceding
<1>5. ListDown \in Enabled /\ ListUp \in Enabled
 <2>1. {j \in Enabled : j > highlighted} \subseteq Enabled
       /\ {j \in Enabled : j < highlighted} \subseteq Enabled
   OBVIOUS
 <2>2. ListDown \in Enabled BY <1>2, <1>3, <2>1 DEF ListDown
 <2>3. ListUp \in Enabled BY <1>2, <1>3, <2>1 DEF ListUp
 <2> QED BY <2>2, <2>3
<1> QED BY <1>1, <1>3, <1>4, <1>5

LEMMA OverlaysInitOK == OverlaysInit => OverlaysInv
<1> SUFFICES ASSUME OverlaysInit PROVE OverlaysInv OBVIOUS
<1> USE OverlaysAssumption DEF OverlaysInit
<1>1. shown \in BOOLEAN /\ frame \in BOOLEAN /\ stableClose \in BOOLEAN /\ wandered \in BOOLEAN
  OBVIOUS
<1>2. picked \in [item: Elements \cup {0}, up: BOOLEAN] /\ picked.item = 0 OBVIOUS
<1>3. OverlayTypes BY <1>1, <1>2 DEF OverlayTypes, Opener, Outside
<1>4. picked.item \notin barred BY <1>2 DEF Elements
<1>5. DialogRemembers /\ FocusIsKept BY DEF DialogRemembers, FocusIsKept
<1> QED BY <1>3, <1>4, <1>5 DEF OverlaysInv

\* The dialog.
LEMMA DialogOK ==
    ASSUME OverlaysInv,
           ShowDialog \/ Frame \/ Rerender \/ TabInDialog \/ ClickInDialog \/ DismissDialog
    PROVE  OverlaysInv'
<1> USE OverlaysAssumption DEF OverlaysInv
<1>1. /\ UNCHANGED <<overlay, barred, selfFocus, stableClose, highlighted, picked>>
      /\ presses' \in 0 .. MaxPresses /\ presses' >= presses /\ presses \in Nat
  BY DEF ShowDialog, Frame, Rerender, TabInDialog, ClickInDialog, DismissDialog, kindVars, Press,
         OverlayTypes
<1>2. /\ Inside = Elements \cup {Box} /\ Outside = {Opener, Body, Page}
      /\ Opener \notin Inside /\ Body \notin Inside /\ Page \notin Inside
      /\ Opener # Body /\ Opener # Page /\ Body # Page
  BY DEF Inside, Outside, Elements, Box, Opener, Body, Page
<1>3. /\ FirstItem \in Enabled /\ LastItem \in Enabled
      /\ \A i : Following(i) \in Enabled /\ Preceding(i) \in Enabled
      /\ Enabled \subseteq Elements
  BY Neighbours
<1>4. Enabled' = Enabled BY <1>1 DEF Enabled
<1>5. CASE ShowDialog
 <2>1. /\ shown' = TRUE /\ frame' = TRUE /\ wandered' = FALSE /\ cameFrom' \in {Opener, Body}
       /\ focus' = IF selfFocus # 0 THEN selfFocus ELSE cameFrom'
       /\ remembered' = focus' /\ presses' = presses + 1 /\ overlay = "dialog"
   BY <1>5 DEF ShowDialog, Press
 <2>2. shown' \in BOOLEAN /\ frame' \in BOOLEAN /\ wandered' \in BOOLEAN BY <2>1
 <2>3. focus' \in Inside \cup Outside BY <1>2, <2>1 DEF OverlayTypes
 <2>4. OverlayTypes' BY <1>1, <2>1, <2>2, <2>3 DEF OverlayTypes
 <2>5. DialogRemembers' BY <1>1, <1>2, <2>1 DEF DialogRemembers, OverlayTypes
 <2>6. FocusIsKept' BY <2>1 DEF FocusIsKept
 <2> QED BY <1>1, <2>1, <2>4, <2>5, <2>6
<1>6. CASE Frame
 <2>1. /\ frame' = FALSE /\ focus' = FirstItem /\ shown
       /\ UNCHANGED <<cameFrom, shown, remembered, presses, wandered>>
   BY <1>6 DEF Frame
 <2>2. frame' \in BOOLEAN /\ focus' \in Inside /\ focus' \in Enabled BY <1>2, <1>3, <2>1
 <2>3. OverlayTypes' BY <1>1, <2>1, <2>2 DEF OverlayTypes
 <2>4. DialogRemembers' BY <1>1, <1>2, <2>1, <2>2 DEF DialogRemembers
 <2>5. FocusIsKept' BY <1>4, <2>1, <2>2 DEF FocusIsKept
 <2> QED BY <1>1, <2>1, <2>3, <2>4, <2>5
<1>7. CASE Rerender
 <2>1. /\ frame' = TRUE /\ shown /\ overlay = "dialog"
       /\ focus' = Focused(remembered, Inside \cup {Opener, Page}) /\ remembered' = focus'
       /\ UNCHANGED <<cameFrom, shown, wandered>> /\ presses' = presses + 1
   BY <1>7 DEF Rerender, Press
 <2>2. frame' \in BOOLEAN /\ focus' \in {focus, remembered}
       /\ (remembered \in Inside \cup {Opener, Page} => focus' = remembered)
   BY <2>1 DEF Focused
 <2>3. OverlayTypes' BY <1>1, <2>1, <2>2 DEF OverlayTypes
 <2>4. DialogRemembers' BY <1>1, <1>2, <2>1, <2>2 DEF DialogRemembers
 <2>5. FocusIsKept' BY <2>1 DEF FocusIsKept
 <2> QED BY <1>1, <2>1, <2>3, <2>4, <2>5
<1>8. CASE TabInDialog
 <2>1. /\ shown /\ overlay = "dialog" /\ focus' \in {DialogTab, DialogBackTab}
       /\ wandered' = (wandered \/ focus' = Page)
       /\ UNCHANGED <<cameFrom, shown, frame, remembered>> /\ presses' = presses + 1
   BY <1>8 DEF TabInDialog, Press
 <2>2. DialogTab \in Enabled \cup {Page} /\ DialogBackTab \in Enabled \cup {Page}
  <3>1. focus \in Inside \cup Outside BY DEF OverlayTypes
  <3>2. DialogTab \in Enabled \cup {Page} BY <1>2, <1>3, <3>1 DEF DialogTab
  <3>3. DialogBackTab \in Enabled \cup {Page} BY <1>2, <1>3, <3>1 DEF DialogBackTab
  <3> QED BY <3>2, <3>3
 <2>3. focus' \in Enabled \cup {Page} /\ focus' \in Inside \cup Outside BY <1>2, <1>3, <2>1, <2>2
 <2>4. wandered' \in BOOLEAN BY <2>1
 <2>5. OverlayTypes' BY <1>1, <2>1, <2>3, <2>4 DEF OverlayTypes
 <2>6. DialogRemembers' BY <1>1, <1>2, <1>3, <2>1, <2>3 DEF DialogRemembers
 <2>7. FocusIsKept' BY <1>4, <2>1, <2>3 DEF FocusIsKept
 <2> QED BY <1>1, <2>1, <2>5, <2>6, <2>7
<1>9. CASE ClickInDialog
 <2>1. /\ shown /\ overlay = "dialog" /\ focus' \in Enabled \cup {Box}
       /\ UNCHANGED <<cameFrom, shown, frame, remembered, wandered>> /\ presses' = presses + 1
   BY <1>9 DEF ClickInDialog, Press
 <2>2. focus' \in Inside BY <1>2, <1>3, <2>1
 <2>3. OverlayTypes' BY <1>1, <2>1, <2>2 DEF OverlayTypes
 <2>4. DialogRemembers' BY <1>1, <2>1, <2>2 DEF DialogRemembers
 <2>5. FocusIsKept' BY <1>4, <2>1 DEF FocusIsKept
 <2> QED BY <1>1, <2>1, <2>3, <2>4, <2>5
<1>10. CASE DismissDialog
 <2>1. /\ shown /\ overlay = "dialog" /\ shown' = FALSE /\ frame' = FALSE
       /\ UNCHANGED <<cameFrom, remembered, wandered>> /\ presses' = presses + 1
       /\ remembered \in {Opener, Page} => focus' = remembered
       /\ remembered \notin {Opener, Page} /\ focus \in Inside => focus' = Body
       /\ remembered \notin {Opener, Page} /\ focus \notin Inside => focus' = focus
   BY <1>10 DEF DismissDialog, Press
 <2>2. shown' \in BOOLEAN /\ frame' \in BOOLEAN /\ focus' \in Inside \cup Outside
   BY <1>2, <2>1 DEF OverlayTypes
 <2>3. OverlayTypes' BY <1>1, <2>1, <2>2 DEF OverlayTypes
 <2>4. DialogRemembers' BY <2>1 DEF DialogRemembers
 <2>5. FocusIsKept'
  <3>1. CASE wandered BY <2>1, <3>1 DEF FocusIsKept
  <3>2. CASE ~wandered /\ selfFocus # 0
   <4>1. focus' = Body' BY <1>2, <2>1, <3>2 DEF DialogRemembers, Body
   <4> QED BY <1>1, <2>1, <3>2, <4>1 DEF FocusIsKept
  <3>3. CASE ~wandered /\ selfFocus = 0
   <4>1. focus' = cameFrom BY <1>2, <2>1, <3>3 DEF DialogRemembers, OverlayTypes
   <4> QED BY <1>1, <2>1, <3>3, <4>1 DEF FocusIsKept
  <3> QED BY <3>1, <3>2, <3>3
 <2> QED BY <1>1, <2>1, <2>3, <2>4, <2>5
<1> QED BY <1>5, <1>6, <1>7, <1>8, <1>9, <1>10

\* The menu.
LEMMA MenuOK ==
    ASSUME OverlaysInv,
           \/ ToggleMenu \/ MenuKey \/ TabFromButton \/ ClickInMenu \/ LeaveMenu
           \/ \E i \in Elements : ChooseItem(i)
    PROVE  OverlaysInv'
<1> USE OverlaysAssumption DEF OverlaysInv
<1>1. /\ UNCHANGED <<overlay, barred, selfFocus, stableClose, cameFrom, remembered, highlighted>>
      /\ presses' \in 0 .. MaxPresses /\ presses' = presses + 1 /\ presses \in Nat
      /\ overlay = "menu"
  BY DEF ToggleMenu, MenuKey, TabFromButton, ClickInMenu, LeaveMenu, ChooseItem, kindVars, Press,
         OverlayTypes
<1>2. /\ Inside = Elements \cup {Box} /\ Outside = {Opener, Body, Page}
      /\ Enabled \subseteq Elements /\ Enabled' = Enabled /\ Enabled \cap barred = {}
  BY <1>1 DEF Inside, Outside, Enabled
<1>3. shown' \in BOOLEAN /\ frame' \in BOOLEAN /\ wandered' \in BOOLEAN /\ (frame' => shown')
 <2>1. CASE ToggleMenu BY <2>1 DEF ToggleMenu
 <2>2. CASE MenuKey \/ ClickInMenu \/ TabFromButton
  <3>1. UNCHANGED <<shown, frame>> /\ wandered' \in BOOLEAN
    BY <2>2 DEF MenuKey, ClickInMenu, TabFromButton, OverlayTypes
  <3> QED BY <3>1 DEF OverlayTypes
 <2>3. CASE LeaveMenu \/ \E i \in Elements : ChooseItem(i)
  <3>1. shown' = FALSE /\ frame' = FALSE /\ wandered' = wandered BY <2>3 DEF LeaveMenu, ChooseItem
  <3> QED BY <3>1 DEF OverlayTypes
 <2> QED BY <2>1, <2>2, <2>3
<1>4. /\ focus' \in Inside \cup Outside
      /\ shown' /\ ~frame' /\ ~wandered' => focus' \in Enabled \cup {Box}
 <2>1. CASE ToggleMenu BY <1>2, <2>1 DEF ToggleMenu
 <2>2. CASE MenuKey
  <3>1. focus' \in Enabled BY <2>2, Neighbours DEF MenuKey
  <3> QED BY <1>2, <3>1
 <2>3. CASE TabFromButton BY <1>2, <2>3 DEF TabFromButton
 <2>4. CASE ClickInMenu BY <1>2, <2>4 DEF ClickInMenu
 <2>5. CASE LeaveMenu BY <1>2, <2>5 DEF LeaveMenu
 <2>6. CASE \E i \in Elements : ChooseItem(i) BY <1>2, <2>6 DEF ChooseItem
 <2> QED BY <2>1, <2>2, <2>3, <2>4, <2>5, <2>6
<1>5. picked' \in [item: Elements \cup {0}, up: BOOLEAN] /\ picked'.item \notin barred
 <2>1. CASE picked' = picked BY <2>1 DEF OverlayTypes
 <2>2. ASSUME NEW i \in Elements, ChooseItem(i)
       PROVE  picked' \in [item: Elements \cup {0}, up: BOOLEAN] /\ picked'.item \notin barred
  <3>1. PICK u : u = ~(picked.item = i /\ picked.up) OBVIOUS
  <3>2. u \in BOOLEAN BY <3>1
  <3>3. SortBy(i) = [item |-> i, up |-> u] BY <3>1, Zenon DEF SortBy
  <3>4. picked' = [item |-> i, up |-> u] /\ i \in Enabled BY <2>2, <3>3, Zenon DEF ChooseItem
  <3> QED BY <1>2, <3>2, <3>4
 <2> QED BY <2>1, <2>2 DEF ToggleMenu, MenuKey, TabFromButton, ClickInMenu, LeaveMenu
<1>6. OverlayTypes' BY <1>1, <1>3, <1>4, <1>5 DEF OverlayTypes
<1>7. DialogRemembers' /\ FocusIsKept' BY <1>1, <1>2, <1>4 DEF DialogRemembers, FocusIsKept
<1> QED BY <1>1, <1>3, <1>5, <1>6, <1>7

\* The list of choices.
LEMMA SelectOK ==
    ASSUME OverlaysInv,
           \/ TriggerKey \/ TriggerClick \/ EnterList \/ ListKey \/ Hover \/ CloseList
           \/ EnterHighlighted
           \/ \E i \in Elements : ChooseOption(i)
    PROVE  OverlaysInv'
<1> USE OverlaysAssumption DEF OverlaysInv
<1>1. /\ UNCHANGED <<overlay, barred, selfFocus, stableClose, cameFrom, remembered, frame, wandered>>
      /\ presses' \in 0 .. MaxPresses /\ presses' = presses + 1 /\ presses \in Nat
      /\ overlay = "select"
  BY DEF TriggerKey, TriggerClick, EnterList, ListKey, Hover, CloseList, EnterHighlighted,
         ChooseOption, kindVars, Press, OverlayTypes
<1>2. /\ Inside = Elements \cup {Box} /\ Outside = {Opener, Body, Page}
      /\ Enabled \subseteq Elements /\ Enabled \cap barred = {} /\ 1 \in Elements
  BY DEF Inside, Outside, Enabled, Elements
<1>3. shown' \in BOOLEAN
  BY DEF TriggerKey, TriggerClick, EnterList, ListKey, Hover, CloseList, EnterHighlighted,
         ChooseOption, Closed, OverlayTypes
<1>4. focus' \in Inside \cup Outside
 <2>1. focus' \in {focus, Opener, Body, Page, 1} \cup barred
   BY DEF TriggerKey, TriggerClick, EnterList, ListKey, Hover, CloseList, EnterHighlighted,
          ChooseOption, Closed
 <2> QED BY <1>2, <2>1 DEF OverlayTypes
<1>5. highlighted' \in Elements \cup {0}
 <2>1. highlighted' \in {highlighted, 0, 1, ListDown, ListUp, FirstItem, LastItem} \cup Enabled
   BY DEF TriggerKey, TriggerClick, EnterList, ListKey, Hover, CloseList, EnterHighlighted,
          ChooseOption, Closed
 <2> QED BY <1>2, <2>1, Neighbours DEF OverlayTypes
<1>6. picked' \in [item: Elements \cup {0}, up: BOOLEAN] /\ picked'.item \notin barred
 <2>1. CASE picked' = picked BY <2>1 DEF OverlayTypes
 <2>2. ASSUME NEW i \in Enabled, picked' = [picked EXCEPT !.item = i]
       PROVE  picked' \in [item: Elements \cup {0}, up: BOOLEAN] /\ picked'.item \notin barred
   BY <1>2, <2>2 DEF OverlayTypes
 <2>3. CASE EnterHighlighted
  <3>1. highlighted \in Enabled /\ picked' = [picked EXCEPT !.item = highlighted]
    BY <2>3 DEF EnterHighlighted, Enabled, OverlayTypes
  <3> QED BY <2>2, <3>1
 <2>4. ASSUME NEW i \in Elements, ChooseOption(i)
       PROVE  picked' \in [item: Elements \cup {0}, up: BOOLEAN] /\ picked'.item \notin barred
   BY <2>2, <2>4 DEF ChooseOption
 <2> QED BY <2>1, <2>3, <2>4 DEF TriggerKey, TriggerClick, EnterList, ListKey, Hover, CloseList
<1>7. OverlayTypes' BY <1>1, <1>3, <1>4, <1>5, <1>6 DEF OverlayTypes
<1>8. ~frame BY <1>1
<1>9. DialogRemembers' /\ FocusIsKept' BY <1>1 DEF DialogRemembers, FocusIsKept
<1> QED BY <1>1, <1>6, <1>7, <1>8, <1>9

LEMMA OverlaysNextOK ==
    ASSUME OverlaysInv, OverlaysNext
    PROVE  OverlaysInv'
BY DialogOK, MenuOK, SelectOK DEF OverlaysNext

\* What the properties say of the overlays, from the invariant.
LEMMA InvSettlesOverlays ==
    ASSUME OverlaysInv
    PROVE  FocusIsKept /\ NothingBarredChosen /\ OverlaysTypeOK
<1> USE DEF OverlaysInv
<1>1. NothingBarredChosen
 <2>1. \A i \in Elements : /\ ListShown.options[i].ticked = (i = picked.item)
                           /\ ListShown.options[i].disabled = (i \in barred)
   BY DEF ListShown
 <2>2. \A i \in Elements : /\ MenuShown[i].arrow # "none" => i = picked.item
                           /\ MenuShown[i].disabled = (i \in barred)
   BY DEF MenuShown
 <2> QED BY <2>1, <2>2 DEF NothingBarredChosen
<1>2. OverlaysTypeOK
 <2>1. \A b \in {shown, frame, stableClose, wandered, picked.up} : b \in BOOLEAN
   BY DEF OverlayTypes
 <2>2. picked.item \in Elements \cup {0} BY DEF OverlayTypes
 <2> QED BY <2>1, <2>2 DEF OverlayTypes, OverlaysTypeOK
<1> QED BY <1>1, <1>2

LEMMA OverlaysStepOK == OverlaysInv /\ [OverlaysNext]_overlayVars => OverlaysInv'
<1> SUFFICES ASSUME OverlaysInv, [OverlaysNext]_overlayVars PROVE OverlaysInv' OBVIOUS
<1>1. CASE OverlaysNext BY <1>1, OverlaysNextOK
<1>2. CASE UNCHANGED overlayVars
  BY <1>2 DEF overlayVars, OverlaysInv, OverlayTypes, DialogRemembers, FocusIsKept, Inside, Outside, Enabled
<1> QED BY <1>1, <1>2

-------------------------------------------------------------------------------
(* VI. The widgets. *)

\* The boxes of a code, and what the page was told of them.
CodeInv ==
    /\ boxes \in [BoxPlaces -> Digits \cup {NoDigit}] /\ boxFocus \in BoxPlaces
    /\ entered = Joined(boxes)

\* A message and its timer.
MessageInv ==
    /\ toast \in [message: 0 .. uses, visible: BOOLEAN, countdown: 0 .. 2]
    /\ toastTimer \in BOOLEAN /\ toastShown \in BOOLEAN
    /\ MessageGoes

\* The theme, and what is stored of it.
ThemeInv ==
    /\ storedTheme \in Modes \cup {"none"} /\ themeMode \in Modes
    /\ theme \in Themes /\ prefers \in Themes /\ painted \in Themes \cup {"none"}
    /\ started \in BOOLEAN /\ elsewhere \in BOOLEAN
    /\ started =>
         /\ painted = theme /\ theme = Resolved(themeMode)
         /\ elsewhere \/ storedTheme = themeMode \/ (storedTheme = "none" /\ themeMode = "system")
    /\ ~started => ~elsewhere

WidgetsInv ==
    /\ uses \in 0 .. MaxUses
    /\ CodeInv /\ MessageInv /\ ThemeInv

\* The boxes that are filled are not more than there are, and when they are as many
\* they are all of them.
LEMMA FilledBoxes ==
    ASSUME NEW b
    PROVE  /\ IsFiniteSet(Filled(b)) /\ Cardinality(Filled(b)) \in 0 .. CodeLength
           /\ Len(Joined(b)) = Cardinality(Filled(b))
           /\ Cardinality(Filled(b)) = CodeLength => Filled(b) = BoxPlaces
<1>1. CodeLength \in Nat \ {0} BY WidgetsAssumption
<1>2. IsFiniteSet(BoxPlaces) /\ Cardinality(BoxPlaces) = CodeLength
  BY <1>1, FS_Interval DEF BoxPlaces
<1>3. Filled(b) \subseteq BoxPlaces BY DEF Filled
<1>4. /\ IsFiniteSet(Filled(b)) /\ Cardinality(Filled(b)) <= CodeLength
      /\ Cardinality(Filled(b)) = CodeLength => Filled(b) = BoxPlaces
  BY <1>2, <1>3, FS_Subset
<1>5. Cardinality(Filled(b)) \in Nat BY <1>4, FS_CardinalityType
<1>6. Len(Joined(b)) = Cardinality(Filled(b)) BY <1>5 DEF Joined
<1> QED BY <1>1, <1>4, <1>5, <1>6

\* With all of them filled, the code is what they show.
LEMMA AllFilled ==
    ASSUME NEW b, Filled(b) = BoxPlaces
    PROVE  Joined(b) = [i \in BoxPlaces |-> b[i]]
<1>1. CodeLength \in Nat \ {0} BY WidgetsAssumption
<1>2. ASSUME NEW i \in BoxPlaces
      PROVE  Cardinality({j \in BoxPlaces : j < i}) = i - 1
 <2>1. i \in Nat \ {0} /\ i - 1 \in Nat /\ {j \in BoxPlaces : j < i} = 1 .. i - 1
   BY <1>1 DEF BoxPlaces
 <2>2. PICK h : h = i - 1 OBVIOUS
 <2>3. Cardinality(1 .. h) = h BY <2>1, <2>2, FS_Interval
 <2> QED BY <2>1, <2>2, <2>3
<1>3. ASSUME NEW n \in BoxPlaces
      PROVE  NthFilled(b, n) = n
 <2>1. \A i \in BoxPlaces : Cardinality({j \in BoxPlaces : j < i}) = n - 1 => i = n
   BY <1>1, <1>2 DEF BoxPlaces
 <2>2. Cardinality({j \in BoxPlaces : j < n}) = n - 1 BY <1>2
 <2> QED BY <2>1, <2>2 DEF NthFilled
<1>4. Cardinality(BoxPlaces) = CodeLength BY <1>1, FS_Interval DEF BoxPlaces
<1> QED BY <1>3, <1>4 DEF Joined, BoxPlaces

LEMMA WidgetsInitOK == WidgetsInit => WidgetsInv
<1> SUFFICES ASSUME WidgetsInit PROVE WidgetsInv OBVIOUS
<1> USE WidgetsAssumption DEF WidgetsInit
<1>1. CodeInv
 <2>1. Filled(boxes) = {} BY DEF Filled
 <2>2. Cardinality(Filled(boxes)) = 0 BY <2>1, FS_EmptySet
 <2>3. Joined(boxes) = <<>> BY <2>2 DEF Joined
 <2> QED BY <2>3 DEF CodeInv, BoxPlaces
<1>2. MessageInv
 <2>1. /\ toast = [message |-> 0, visible |-> FALSE, countdown |-> 0]
       /\ toastShown = FALSE /\ toastTimer = FALSE /\ uses = 0
   OBVIOUS
 <2>2. toast \in [message: 0 .. uses, visible: BOOLEAN, countdown: 0 .. 2] /\ ~toast.visible
   BY <2>1
 <2>3. toastTimer \in BOOLEAN /\ toastShown \in BOOLEAN BY <2>1
 <2>4. toastShown = toast.visible
  <3>1. ~toastShown /\ ~toast.visible BY <2>1
  <3> QED BY <2>2, <2>3, <3>1
 <2> QED BY <2>1, <2>2, <2>3, <2>4 DEF MessageInv, MessageGoes
<1>3. ThemeInv BY DEF ThemeInv, Modes, Themes
<1>4. uses \in 0 .. MaxUses OBVIOUS
<1> QED BY <1>1, <1>2, <1>3, <1>4 DEF WidgetsInv

LEMMA UsesOK ==
    ASSUME WidgetsInv, NEW w, Use(w)
    PROVE  /\ uses' \in 0 .. MaxUses /\ uses' = uses + 1
           /\ uses \in 0 .. MaxUses
BY WidgetsAssumption DEF Use, WidgetsInv

\* What the boxes keep when only the others change, and the others when only they do.
LEMMA OthersStay ==
    ASSUME WidgetsInv, uses' \in 0 .. MaxUses, uses' >= uses
    PROVE  /\ UNCHANGED codeVars => CodeInv'
           /\ UNCHANGED toastVars => MessageInv'
           /\ UNCHANGED themeVars => ThemeInv'
<1>1. UNCHANGED codeVars => CodeInv' BY DEF WidgetsInv, CodeInv, codeVars
<1>2. ASSUME UNCHANGED toastVars PROVE MessageInv'
 <2>1. UNCHANGED <<toast, toastShown, toastTimer>> BY <1>2 DEF toastVars
 <2>2. toast \in [message: 0 .. uses', visible: BOOLEAN, countdown: 0 .. 2]
   BY WidgetsAssumption DEF WidgetsInv, MessageInv
 <2>3. MessageGoes' BY <2>1 DEF WidgetsInv, MessageInv, MessageGoes, ToastText, Lasting
 <2> QED BY <2>1, <2>2, <2>3 DEF WidgetsInv, MessageInv
<1>3. ASSUME UNCHANGED themeVars PROVE ThemeInv'
 <2>1. UNCHANGED <<storedTheme, themeMode, theme, painted, prefers, started, elsewhere>>
   BY <1>3 DEF themeVars
 <2> QED BY <2>1 DEF WidgetsInv, ThemeInv, Resolved
<1> QED BY <1>1, <1>2, <1>3

\* The boxes.
LEMMA CodeOK ==
    ASSUME WidgetsInv,
           \/ \E i \in BoxPlaces : ClickBox(i) \/ \E d \in Digits \cup {NoDigit} : HandleChange(i, d)
           \/ HandleKeyDown
           \/ \E text \in SeqOf(Digits \cup {NoDigit}, CodeLength) : HandlePaste(text)
    PROVE  WidgetsInv'
<1> USE WidgetsAssumption DEF CodeInv
<1>1. /\ uses' \in 0 .. MaxUses /\ uses' = uses + 1 /\ uses \in 0 .. MaxUses
      /\ UNCHANGED toastVars /\ UNCHANGED themeVars
  BY UsesOK DEF ClickBox, HandleChange, HandleKeyDown, HandlePaste
<1>2. MessageInv' /\ ThemeInv' BY <1>1, OthersStay
<1>3. CodeInv'
 <2>1. CodeInv BY DEF WidgetsInv
 <2>2. ASSUME NEW i \in BoxPlaces, ClickBox(i)
       PROVE  CodeInv'
   BY <2>1, <2>2 DEF ClickBox
 <2>3. ASSUME NEW i \in BoxPlaces, NEW d \in Digits \cup {NoDigit}, HandleChange(i, d)
       PROVE  CodeInv'
  <3>1. boxes' \in [BoxPlaces -> Digits \cup {NoDigit}] /\ entered' = Joined(boxes')
    BY <2>1, <2>3 DEF HandleChange
  <3>2. boxFocus' \in BoxPlaces BY <2>3 DEF HandleChange, BoxPlaces
  <3> QED BY <3>1, <3>2
 <2>4. CASE HandleKeyDown
  <3>1. boxFocus' \in BoxPlaces /\ UNCHANGED <<boxes, entered>>
    BY <2>1, <2>4 DEF HandleKeyDown, BoxPlaces
  <3> QED BY <2>1, <3>1
 <2>5. ASSUME NEW text \in SeqOf(Digits \cup {NoDigit}, CodeLength), HandlePaste(text)
       PROVE  CodeInv'
  <3>1. boxes' \in [BoxPlaces -> Digits \cup {NoDigit}] /\ entered' = Joined(boxes')
    BY <2>1, <2>5 DEF HandlePaste
  <3>2. PICK empty : empty = {i \in BoxPlaces : boxes'[i] = NoDigit} OBVIOUS
  <3>3. boxFocus' = IF empty # {} THEN Min(empty) ELSE CodeLength BY <2>5, <3>2 DEF HandlePaste
  <3>4. empty \subseteq BoxPlaces /\ empty \subseteq Nat /\ CodeLength \in BoxPlaces
    BY <3>2 DEF BoxPlaces
  <3>5. empty # {} => Min(empty) \in empty BY <3>4, LeastExists DEF Min
  <3> QED BY <3>1, <3>3, <3>4, <3>5
 <2> QED BY <2>2, <2>3, <2>4, <2>5
<1> QED BY <1>1, <1>2, <1>3 DEF WidgetsInv

\* The effect of the Toast keeps the message and its timer together.
LEMMA EffectOK ==
    ASSUME WidgetsInv, ToastEffect, toast' \in [message: 0 .. uses', visible: BOOLEAN, countdown: 0 .. 2]
    PROVE  MessageInv'
<1>1. MessageInv BY DEF WidgetsInv
<1>2. CASE toast'.visible = toast.visible /\ Lasting(toast') = Lasting(toast)
 <2>1. UNCHANGED <<toastShown, toastTimer>> BY <1>2 DEF ToastEffect
 <2>2. /\ toastShown = toast.visible /\ (toastShown => toastTimer \/ Lasting(toast))
       /\ (toastTimer => toastShown)
   BY <1>1 DEF MessageInv, MessageGoes
 <2>3. /\ toastShown' = toast'.visible /\ (toastShown' => toastTimer' \/ Lasting(toast'))
       /\ (toastTimer' => toastShown')
   BY <1>2, <2>1, <2>2
 <2>4. MessageGoes' BY <2>3 DEF MessageGoes, ToastText
 <2> QED BY <1>1, <2>1, <2>4 DEF MessageInv
<1>3. CASE ~(toast'.visible = toast.visible /\ Lasting(toast') = Lasting(toast))
 <2>1. toastShown' = toast'.visible /\ toastTimer' = (toast'.visible /\ ~Lasting(toast'))
   BY <1>3 DEF ToastEffect
 <2>2. toastShown' \in BOOLEAN /\ toastTimer' \in BOOLEAN BY <2>1
 <2>3. MessageGoes' BY <2>1 DEF MessageGoes, ToastText
 <2> QED BY <2>2, <2>3 DEF MessageInv
<1> QED BY <1>2, <1>3

\* A message that is hidden.
LEMMA Hidden ==
    ASSUME NEW n, NEW t \in [message: 0 .. n, visible: BOOLEAN, countdown: 0 .. 2]
    PROVE  /\ [t EXCEPT !.visible = FALSE, !.countdown = 0]
                \in [message: 0 .. n, visible: BOOLEAN, countdown: 0 .. 2]
           /\ ~[t EXCEPT !.visible = FALSE, !.countdown = 0].visible
<1>1. PICK f : f = FALSE OBVIOUS
<1>2. f \in BOOLEAN BY <1>1
<1>3. PICK s : s = [t EXCEPT !.visible = f] OBVIOUS
<1>4. s \in [message: 0 .. n, visible: BOOLEAN, countdown: 0 .. 2] /\ s.visible = f BY <1>2, <1>3
<1>5. PICK u : u = [s EXCEPT !.countdown = 0] OBVIOUS
<1>6. u \in [message: 0 .. n, visible: BOOLEAN, countdown: 0 .. 2] /\ u.visible = f
  BY <1>2, <1>4, <1>5
<1> QED BY <1>1, <1>3, <1>5, <1>6, Zenon

\* The message.
LEMMA ToastOK ==
    ASSUME WidgetsInv,
           \/ \E seconds \in 0 .. 2 : ShowMessage(seconds)
           \/ CountDown \/ HideMessage \/ ToastTimerFires
    PROVE  WidgetsInv'
<1> USE WidgetsAssumption
<1>1. toast \in [message: 0 .. uses, visible: BOOLEAN, countdown: 0 .. 2] /\ uses \in 0 .. MaxUses
  BY DEF WidgetsInv, MessageInv
<1>2. ASSUME NEW seconds \in 0 .. 2, ShowMessage(seconds)
      PROVE  WidgetsInv'
 <2>1. uses' \in 0 .. MaxUses /\ uses' = uses + 1 /\ UNCHANGED codeVars /\ UNCHANGED themeVars
   BY <1>2, UsesOK DEF ShowMessage
 <2>2. toast' = [message |-> toast.message + 1, visible |-> TRUE, countdown |-> seconds] /\ ToastEffect
   BY <1>2 DEF ShowMessage
 <2>3. toast.message + 1 \in 0 .. uses' /\ TRUE \in BOOLEAN BY <1>1, <2>1
 <2>4. toast' \in [message: 0 .. uses', visible: BOOLEAN, countdown: 0 .. 2] BY <2>2, <2>3
 <2>5. MessageInv' BY <2>2, <2>4, EffectOK
 <2> QED BY <1>1, <2>1, <2>5, OthersStay DEF WidgetsInv
<1>3. CASE CountDown
 <2>1. uses' \in 0 .. MaxUses /\ uses' = uses + 1 /\ UNCHANGED codeVars /\ UNCHANGED themeVars
   BY <1>3, UsesOK DEF CountDown
 <2>2. toast' = [toast EXCEPT !.countdown = toast.countdown - 1] /\ toast.countdown > 0 /\ ToastEffect
   BY <1>3 DEF CountDown
 <2>3. toast' \in [message: 0 .. uses', visible: BOOLEAN, countdown: 0 .. 2] BY <1>1, <2>1, <2>2
 <2>4. MessageInv' BY <2>2, <2>3, EffectOK
 <2> QED BY <1>1, <2>1, <2>4, OthersStay DEF WidgetsInv
<1>4. CASE HideMessage
 <2>1. uses' \in 0 .. MaxUses /\ uses' = uses + 1 /\ UNCHANGED codeVars /\ UNCHANGED themeVars
   BY <1>4, UsesOK DEF HideMessage
 <2>2. toast' = [toast EXCEPT !.visible = FALSE, !.countdown = 0] /\ ToastEffect
   BY <1>4, Zenon DEF HideMessage
 <2>3. toast \in [message: 0 .. uses', visible: BOOLEAN, countdown: 0 .. 2] BY <1>1, <2>1
 <2>4. toast' \in [message: 0 .. uses', visible: BOOLEAN, countdown: 0 .. 2]
   BY <2>2, <2>3, Hidden, Zenon
 <2>5. MessageInv' BY <2>2, <2>4, EffectOK, Zenon
 <2> QED BY <1>1, <2>1, <2>5, OthersStay DEF WidgetsInv
<1>5. CASE ToastTimerFires
 <2>1. uses' = uses /\ UNCHANGED codeVars /\ UNCHANGED themeVars BY <1>5 DEF ToastTimerFires
 <2>2. toast' = [toast EXCEPT !.visible = FALSE, !.countdown = 0]
   BY <1>5, Zenon DEF ToastTimerFires
 <2>3. toast' \in [message: 0 .. uses, visible: BOOLEAN, countdown: 0 .. 2] /\ ~toast'.visible
   BY <1>1, <2>2, Hidden, Zenon
 <2>4. toastShown' = FALSE /\ toastTimer' = FALSE BY <1>5 DEF ToastTimerFires
 <2>5. toastShown' \in BOOLEAN /\ toastTimer' \in BOOLEAN BY <2>4
 <2>6. toastShown' = toast'.visible BY <2>3, <2>4
 <2>7. MessageGoes' BY <2>4, <2>6 DEF MessageGoes
 <2>8. MessageInv' BY <2>1, <2>3, <2>5, <2>7 DEF MessageInv
 <2> QED BY <1>1, <2>1, <2>8, OthersStay DEF WidgetsInv
<1> QED BY <1>2, <1>3, <1>4, <1>5

\* The theme.
LEMMA ThemeOK ==
    ASSUME WidgetsInv,
           \/ OpenPage \/ StartPage \/ ChooseTheme \/ ToggleTheme \/ SystemChanges
           \/ \E mode \in Modes : ChosenElsewhere(mode)
    PROVE  WidgetsInv'
<1> USE WidgetsAssumption DEF ThemeInv
<1>1. /\ uses' \in 0 .. MaxUses /\ uses' >= uses
      /\ UNCHANGED codeVars /\ UNCHANGED toastVars
 <2>1. uses \in 0 .. MaxUses BY DEF WidgetsInv
 <2> QED
   BY <2>1, UsesOK DEF OpenPage, StartPage, ChooseTheme, ToggleTheme, SystemChanges, ChosenElsewhere,
                SetStoredTheme
<1>2. CodeInv' /\ MessageInv' BY <1>1, OthersStay
<1>3. ThemeInv BY DEF WidgetsInv
<1>4. \A mode \in Modes : Resolved(mode) \in Themes BY <1>3 DEF Resolved, Modes
<1>5. ASSUME NEW mode \in Modes, SetStoredTheme(mode)
      PROVE  ThemeInv'
 <2>1. /\ storedTheme' = mode /\ elsewhere' = FALSE /\ themeMode' = mode /\ started' = TRUE
       /\ theme' = Resolved(mode) /\ painted' = Resolved(mode) /\ prefers' = prefers
   BY <1>3, <1>5 DEF SetStoredTheme, Apply
 <2>2. Resolved(themeMode)' = Resolved(mode) BY <2>1 DEF Resolved
 <2> QED BY <1>3, <1>4, <2>1, <2>2
<1>6. ASSUME OpenPage PROVE ThemeInv'
 <2>1. /\ themeMode' = "system" /\ theme' = "dark" /\ painted' = "none"
       /\ started' = FALSE /\ elsewhere' = FALSE /\ UNCHANGED <<storedTheme, prefers>>
   BY <1>6 DEF OpenPage
 <2>2. started' \in BOOLEAN /\ elsewhere' \in BOOLEAN BY <2>1
 <2> QED BY <1>3, <2>1, <2>2 DEF Modes, Themes
<1>7. ASSUME StartPage PROVE ThemeInv'
 <2>1. PICK mode : mode = IF storedTheme = "none" THEN "system" ELSE storedTheme OBVIOUS
 <2>2. /\ UNCHANGED <<storedTheme, elsewhere, prefers>> /\ themeMode' = mode /\ started' = TRUE
       /\ theme' = Resolved(mode) /\ painted' = Resolved(mode)
   BY <1>7, <2>1 DEF StartPage, Apply
 <2>3. mode \in Modes /\ Resolved(themeMode)' = Resolved(mode)
   BY <1>3, <2>1, <2>2 DEF Resolved, Modes
 <2> QED BY <1>3, <1>4, <2>1, <2>2, <2>3
<1>8. ASSUME SystemChanges PROVE ThemeInv'
 <2>1. UNCHANGED <<storedTheme, themeMode, started, elsewhere>> /\ prefers' \in Themes /\ started
   BY <1>8 DEF SystemChanges
 <2>2. themeMode = "system" => theme' = prefers' /\ painted' = prefers' BY <1>8 DEF SystemChanges
 <2>3. themeMode # "system" => UNCHANGED <<theme, painted>> BY <1>8 DEF SystemChanges
 <2> QED BY <1>3, <2>1, <2>2, <2>3 DEF Resolved
<1>9. ASSUME NEW mode \in Modes, ChosenElsewhere(mode)
      PROVE  ThemeInv'
  BY <1>3, <1>9 DEF ChosenElsewhere, Resolved
<1>10. ASSUME ChooseTheme PROVE ThemeInv' BY <1>5, <1>10 DEF ChooseTheme
<1>11. ASSUME ToggleTheme PROVE ThemeInv' BY <1>5, <1>11 DEF ToggleTheme, Modes, Themes
<1>12. ThemeInv' BY <1>6, <1>7, <1>8, <1>9, <1>10, <1>11
<1> QED BY <1>1, <1>2, <1>12 DEF WidgetsInv

LEMMA WidgetsNextOK ==
    ASSUME WidgetsInv, WidgetsNext
    PROVE  WidgetsInv'
BY CodeOK, ToastOK, ThemeOK DEF WidgetsNext

\* What the properties say of the three, from the invariant.
LEMMA InvSettlesWidgets ==
    ASSUME WidgetsInv
    PROVE  CodeIsShown /\ MessageGoes /\ ThemeIsStored /\ WidgetsTypeOK
<1> USE WidgetsAssumption
<1>1. CodeIsShown
 <2> SUFFICES ASSUME CanVerify
              PROVE  entered = [i \in BoxPlaces |-> boxes[i]] /\ NoDigit \notin ToSet(entered)
   BY DEF CodeIsShown
 <2>1. Filled(boxes) = BoxPlaces BY FilledBoxes DEF CanVerify, WidgetsInv, CodeInv
 <2>2. entered = [i \in BoxPlaces |-> boxes[i]] BY <2>1, AllFilled DEF WidgetsInv, CodeInv
 <2>3. \A i \in BoxPlaces : boxes[i] # NoDigit BY <2>1 DEF Filled
 <2> QED BY <2>2, <2>3 DEF ToSet
<1>2. MessageGoes BY DEF WidgetsInv, MessageInv
<1>3. ThemeIsStored BY DEF WidgetsInv, ThemeInv, ThemeIsStored, ModesMarked, Modes
<1>4. WidgetsTypeOK
 <2>1. Len(entered) <= CodeLength BY FilledBoxes DEF WidgetsInv, CodeInv
 <2>2. toast.message \in 0 .. MaxUses BY DEF WidgetsInv, MessageInv
 <2>3. \A b \in {toast.visible, toastShown, toastTimer, started, elsewhere} : b \in BOOLEAN
   BY DEF WidgetsInv, MessageInv, ThemeInv
 <2>4. toast.countdown \in 0 .. 2 /\ uses \in 0 .. MaxUses BY DEF WidgetsInv, MessageInv
 <2>5. boxes \in [BoxPlaces -> Digits \cup {NoDigit}] /\ boxFocus \in BoxPlaces
   BY DEF WidgetsInv, CodeInv
 <2>6. /\ storedTheme \in Modes \cup {"none"} /\ themeMode \in Modes
       /\ {theme, prefers} \subseteq Themes /\ painted \in Themes \cup {"none"}
   BY DEF WidgetsInv, ThemeInv
 <2> QED BY <2>1, <2>2, <2>3, <2>4, <2>5, <2>6 DEF WidgetsTypeOK
<1> QED BY <1>1, <1>2, <1>3, <1>4

LEMMA WidgetsStepOK == WidgetsInv /\ [WidgetsNext]_widgetVars => WidgetsInv'
<1> SUFFICES ASSUME WidgetsInv, [WidgetsNext]_widgetVars PROVE WidgetsInv' OBVIOUS
<1>1. CASE WidgetsNext BY <1>1, WidgetsNextOK
<1>2. CASE UNCHANGED widgetVars
  BY <1>2 DEF widgetVars, WidgetsInv, CodeInv, MessageInv, ThemeInv, MessageGoes, Resolved, ToastText
<1> QED BY <1>1, <1>2

-------------------------------------------------------------------------------
(* VII. The forms. *)

ShareRecords == [n: 0 .. MaxForms, file: SharedFiles, who: Guests, may: Permissions]

AddRecords == [n: 0 .. MaxForms, listed: SUBSET Nat, made: Nat]

\* The types of the variables, the requests included.
FormsVarTypes ==
    /\ formKind \in {"share", "calendar"} /\ clicked \in 0 .. MaxForms
    /\ shareOf \in SharedFiles \cup {NoShare} /\ guest \in Guests \cup {NoGuest}
    /\ permission \in Permissions /\ sharing \in BOOLEAN
    /\ sharedWith \subseteq [who: Guests, may: Permissions]
    /\ shares \subseteq ShareRecords
    /\ grants \subseteq [file: SharedFiles, who: Guests, may: Permissions]
    /\ addOpen \in BOOLEAN /\ named \in BOOLEAN /\ savingNew \in BOOLEAN /\ addError \in BOOLEAN
    /\ adds \subseteq AddRecords /\ IsFiniteSet(adds)
    /\ loadingList \in BOOLEAN /\ crossed \in BOOLEAN

\* The signs of sending have a request.
SignsOfSending ==
    /\ shares = {} => ~sharing
    /\ adds = {} => ~savingNew

\* The dialog is that of the requests, and lists what was granted.
ShareFollows ==
    IF shareOf = NoShare THEN sharedWith = {}
    ELSE /\ \A r \in shares : r.file = shareOf
         /\ \A s \in sharedWith : [file |-> shareOf, who |-> s.who, may |-> s.may] \in grants

Unmade == {r \in adds : r.made = 0}

\* The server numbers the calendars, one for each form that was sent and is not still on
\* its way; the page knows no others.
CalendarsNumbered ==
    /\ onServer = 1 .. Cardinality(onServer) /\ IsFiniteSet(onServer)
    /\ Cardinality(onServer) + Cardinality(Unmade) <= clicked + 1
    /\ listed \subseteq onServer /\ ticked \subseteq listed
    /\ \A r \in adds : r.listed \subseteq onServer /\ (r.made # 0 => r.made \in onServer)

\* The list is the server's, but for the one calendar that is being added.
ListFollows ==
    /\ adds # {} => ~loadingList
    /\ \A q, r \in adds : q = r
    /\ \A r \in adds : /\ r.listed = listed
                       /\ onServer = IF r.made = 0 THEN listed ELSE listed \cup {r.made}
    /\ adds = {} /\ ~loadingList => listed = onServer

FormsInv ==
    /\ FormsVarTypes /\ SignsOfSending /\ CalendarsNumbered
    /\ ~crossed => ShareFollows /\ (formKind = "calendar" => ListFollows)

LEMMA FormsInitOK == FormsInit => FormsInv
<1> SUFFICES ASSUME FormsInit PROVE FormsInv OBVIOUS
<1> USE FormsAssumption DEF FormsInit
<1>1. FormsVarTypes
 <2>1. loadingList \in BOOLEAN OBVIOUS
 <2>2. clicked \in 0 .. MaxForms /\ permission \in Permissions BY DEF Permissions
 <2>3. sharing = FALSE /\ addOpen = FALSE /\ named = FALSE /\ savingNew = FALSE /\ addError = FALSE
       /\ crossed = FALSE
   OBVIOUS
 <2> QED BY <2>1, <2>2, <2>3, FS_EmptySet DEF FormsVarTypes
<1>2. SignsOfSending BY DEF SignsOfSending
<1>3. CalendarsNumbered
 <2>1. IsFiniteSet({1}) /\ Cardinality({1}) = 1 /\ {1} = 1 .. 1 BY FS_Singleton
 <2>2. Unmade = {} /\ Cardinality({}) = 0 BY FS_EmptySet DEF Unmade
 <2> QED BY <2>1, <2>2 DEF CalendarsNumbered
<1>4. ShareFollows BY DEF ShareFollows
<1>5. formKind = "calendar" => ListFollows BY DEF ListFollows
<1> QED BY <1>1, <1>2, <1>3, <1>4, <1>5 DEF FormsInv

\* The dialog that shares.
LEMMA SharingOK ==
    ASSUME FormsInv,
           \/ \E f \in SharedFiles : OpenShare(f)
           \/ CloseShare \/ EditShare \/ HandleShare
           \/ \E r \in shares : ShareAnswered(r) \/ ShareFails(r)
    PROVE  FormsInv'
<1> USE FormsAssumption DEF FormsInv
<1>0. /\ UNCHANGED <<formKind, addOpen, named, savingNew, addError, listed, ticked, onServer, adds, loadingList>>
      /\ clicked' \in 0 .. MaxForms /\ clicked' >= clicked
  BY DEF OpenShare, CloseShare, EditShare, HandleShare, ShareAnswered, ShareFails, Acts, addVars, FormsVarTypes
<1>1. CalendarsNumbered'
 <2>1. Unmade' = Unmade BY <1>0 DEF Unmade
 <2>2. clicked \in Nat /\ clicked' \in Nat /\ Cardinality(onServer) \in Nat /\ Cardinality(Unmade) \in Nat
   BY <1>0, FS_Subset, FS_CardinalityType DEF FormsVarTypes, CalendarsNumbered, Unmade
 <2> QED BY <1>0, <2>1, <2>2 DEF CalendarsNumbered
<1>2. ListFollows => ListFollows' BY <1>0 DEF ListFollows
<1>3. FormsVarTypes' /\ SignsOfSending' /\ (~crossed' => ~crossed /\ ShareFollows')
 <2>1. ASSUME NEW f \in SharedFiles, OpenShare(f)
       PROVE  FormsVarTypes' /\ SignsOfSending' /\ (~crossed' => ~crossed /\ ShareFollows')
  <3>1. crossed' \in BOOLEAN /\ UNCHANGED <<guest, permission, sharing, sharedWith, shares, grants>> /\ shareOf' = f
    BY <2>1 DEF OpenShare, FormsVarTypes
  <3>2. FormsVarTypes' /\ SignsOfSending' BY <1>0, <3>1 DEF FormsVarTypes, SignsOfSending
  <3>3. ASSUME ~crossed' PROVE ~crossed /\ ShareFollows'
    BY <2>1, <3>1, <3>3 DEF OpenShare, ShareFollows
  <3> QED BY <3>2, <3>3
 <2>2. CASE CloseShare
  <3>1. UNCHANGED <<permission, sharing, shares, grants, crossed>>
        /\ shareOf' = NoShare /\ guest' = NoGuest /\ sharedWith' = {}
    BY <2>2 DEF CloseShare
  <3> QED BY <1>0, <3>1 DEF FormsVarTypes, SignsOfSending, ShareFollows
 <2>3. CASE EditShare
  <3>1. UNCHANGED <<shareOf, sharing, sharedWith, shares, grants, crossed>>
        /\ guest' \in Guests \cup {NoGuest} /\ permission' \in Permissions
    BY <2>3 DEF EditShare, FormsVarTypes
  <3> QED BY <1>0, <3>1 DEF FormsVarTypes, SignsOfSending, ShareFollows
 <2>4. CASE HandleShare
  <3>1. PICK r : r = [n |-> clicked, file |-> shareOf, who |-> guest, may |-> permission]
    OBVIOUS
  <3>2. UNCHANGED <<shareOf, guest, permission, sharedWith, grants, crossed>>
        /\ sharing' = TRUE /\ shares' = shares \cup {r} /\ shareOf # NoShare /\ guest # NoGuest
    BY <2>4, <3>1 DEF HandleShare
  <3>3. r \in ShareRecords /\ r.file = shareOf BY <3>1, <3>2 DEF FormsVarTypes, ShareRecords
  <3> QED BY <1>0, <3>2, <3>3 DEF FormsVarTypes, SignsOfSending, ShareFollows
 <2>5. ASSUME NEW r \in shares, ShareAnswered(r)
       PROVE  FormsVarTypes' /\ SignsOfSending' /\ (~crossed' => ~crossed /\ ShareFollows')
  <3>1. PICK g : g = [file |-> r.file, who |-> r.who, may |-> r.may] OBVIOUS
  <3>2. PICK s : s = [who |-> r.who, may |-> r.may] OBVIOUS
  <3>3. shares' = shares \ {r} /\ sharing' = FALSE /\ grants' = grants \cup {g}
        /\ sharedWith' = sharedWith \cup {s} /\ guest' = NoGuest /\ UNCHANGED <<shareOf, permission>>
    BY <2>5, <3>1, <3>2 DEF ShareAnswered
  <3>4. crossed' \in BOOLEAN BY <2>5 DEF ShareAnswered, FormsVarTypes
  <3>5. g \in [file: SharedFiles, who: Guests, may: Permissions] /\ s \in [who: Guests, may: Permissions]
        /\ g.file = r.file /\ g = [file |-> r.file, who |-> s.who, may |-> s.may]
    BY <3>1, <3>2 DEF FormsVarTypes, ShareRecords
  <3>6. FormsVarTypes' /\ SignsOfSending'
    BY <1>0, <3>3, <3>4, <3>5 DEF FormsVarTypes, SignsOfSending
  <3>7. ASSUME ~crossed' PROVE ~crossed /\ ShareFollows'
   <4>1. ~crossed /\ shareOf # NoShare BY <2>5, <3>7 DEF ShareAnswered
   <4> QED BY <3>3, <3>5, <4>1 DEF ShareFollows
  <3> QED BY <3>6, <3>7
 <2>6. ASSUME NEW r \in shares, ShareFails(r)
       PROVE  FormsVarTypes' /\ SignsOfSending' /\ (~crossed' => ~crossed /\ ShareFollows')
  <3>1. PICK g : g = [file |-> r.file, who |-> r.who, may |-> r.may] OBVIOUS
  <3>2. shares' = shares \ {r} /\ sharing' = FALSE /\ grants' \in {grants, grants \cup {g}}
        /\ UNCHANGED <<shareOf, guest, permission, sharedWith, crossed>>
    BY <2>6, <3>1 DEF ShareFails
  <3>3. g \in [file: SharedFiles, who: Guests, may: Permissions]
    BY <3>1 DEF FormsVarTypes, ShareRecords
  <3> QED BY <1>0, <3>2, <3>3 DEF FormsVarTypes, SignsOfSending, ShareFollows
 <2> QED BY <2>1, <2>2, <2>3, <2>4, <2>5, <2>6
<1> QED BY <1>0, <1>1, <1>2, <1>3

\* What the dialog that adds leaves alone, and the bound on the clicks.
LEMMA FormsActs ==
    ASSUME FormsInv, Acts("calendar")
    PROVE  /\ formKind' = formKind /\ clicked' \in 0 .. MaxForms /\ clicked' = clicked + 1
           /\ clicked \in 0 .. MaxForms
BY FormsAssumption DEF Acts, FormsInv, FormsVarTypes

\* A change that keeps the server and the requests of new calendars.
LEMMA SameCalendars ==
    ASSUME FormsInv, onServer' = onServer, Unmade' \subseteq Unmade, clicked' \in Nat,
           clicked' >= clicked, listed' \subseteq onServer, ticked' \subseteq listed',
           \A r \in adds' : r.listed \subseteq onServer /\ (r.made # 0 => r.made \in onServer)
    PROVE  CalendarsNumbered'
<1>1. IsFiniteSet(Unmade) /\ IsFiniteSet(Unmade')
      /\ Cardinality(Unmade') <= Cardinality(Unmade)
  BY FS_Subset DEF FormsInv, FormsVarTypes, Unmade
<1>2. Cardinality(Unmade) \in Nat /\ Cardinality(Unmade') \in Nat /\ Cardinality(onServer) \in Nat
  BY <1>1, FS_CardinalityType DEF FormsInv, CalendarsNumbered
<1>3. clicked \in Nat BY FormsAssumption DEF FormsInv, FormsVarTypes
<1>4. Cardinality(onServer') + Cardinality(Unmade') <= clicked' + 1
  BY <1>1, <1>2, <1>3 DEF FormsInv, CalendarsNumbered
<1> QED BY <1>4 DEF FormsInv, CalendarsNumbered

\* The dialog that adds, and the page, without a request.
LEMMA AddingOK ==
    ASSUME FormsInv, ToggleAdd \/ NameIt \/ \E c \in listed : TickCalendar(c)
    PROVE  FormsInv'
<1> USE DEF FormsInv
<1>1. /\ formKind' = formKind /\ clicked' \in 0 .. MaxForms /\ clicked' = clicked + 1
      /\ clicked \in 0 .. MaxForms
  BY FormsActs DEF ToggleAdd, NameIt, TickCalendar
<1>2. UNCHANGED <<shareVars, savingNew, addError, listed, onServer, adds, loadingList, crossed>>
  BY DEF ToggleAdd, NameIt, TickCalendar
<1>3. addOpen' \in BOOLEAN BY DEF ToggleAdd, NameIt, TickCalendar, FormsVarTypes
<1>4. named' \in BOOLEAN BY DEF ToggleAdd, NameIt, TickCalendar, FormsVarTypes
<1>5. ticked' \subseteq listed BY DEF ToggleAdd, NameIt, TickCalendar, CalendarsNumbered
<1>6. UNCHANGED <<shareOf, guest, permission, sharing, sharedWith, shares, grants>>
  BY <1>2 DEF shareVars
<1>7. FormsVarTypes' BY <1>1, <1>2, <1>3, <1>4, <1>6 DEF FormsVarTypes
<1>8. SignsOfSending' /\ (ShareFollows => ShareFollows') /\ (ListFollows => ListFollows')
  BY <1>2, <1>6 DEF SignsOfSending, ShareFollows, ListFollows
<1>9. CalendarsNumbered'
 <2>1. Unmade' = Unmade BY <1>2 DEF Unmade
 <2>2. clicked' \in Nat /\ clicked' >= clicked BY <1>1, FormsAssumption
 <2> QED BY <1>2, <1>5, <2>1, <2>2, SameCalendars DEF CalendarsNumbered
<1> QED BY <1>1, <1>2, <1>7, <1>8, <1>9

\* The form goes: once more on its way, and one click more.
LEMMA HandleSaveOK ==
    ASSUME FormsInv, HandleSave
    PROVE  FormsInv'
<1> USE DEF FormsInv
<1>1. /\ formKind' = formKind /\ clicked' \in 0 .. MaxForms /\ clicked' = clicked + 1
      /\ clicked \in 0 .. MaxForms
  BY FormsActs DEF HandleSave
<1>2. PICK k : k = [n |-> clicked, listed |-> listed, made |-> 0] OBVIOUS
<1>3. /\ adds' = adds \cup {k} /\ savingNew' = TRUE /\ addError' = FALSE
      /\ UNCHANGED <<shareVars, addOpen, named, listed, ticked, onServer, loadingList>>
  BY <1>2 DEF HandleSave
<1>4. UNCHANGED <<shareOf, guest, permission, sharing, sharedWith, shares, grants>>
  BY <1>3 DEF shareVars
<1>5. listed \subseteq Nat
 <2>1. Cardinality(onServer) \in Nat BY FS_CardinalityType DEF CalendarsNumbered
 <2> QED BY <2>1 DEF CalendarsNumbered
<1>6. k \in AddRecords /\ k.listed = listed /\ k.made = 0 BY <1>1, <1>2, <1>5 DEF AddRecords
<1>7. FormsVarTypes'
 <2>1. crossed' \in BOOLEAN BY DEF HandleSave, FormsVarTypes
 <2>2. adds' \subseteq AddRecords /\ IsFiniteSet(adds')
   BY <1>3, <1>6, FS_AddElement DEF FormsVarTypes
 <2> QED BY <1>1, <1>3, <1>4, <2>1, <2>2 DEF FormsVarTypes
<1>8. SignsOfSending' BY <1>3, <1>4 DEF SignsOfSending
<1>9. CalendarsNumbered'
 <2>1. IsFiniteSet(Unmade) /\ Unmade' \subseteq Unmade \cup {k}
   BY <1>3, FS_Subset DEF FormsVarTypes, Unmade
 <2>2. Cardinality(Unmade') \in Nat /\ Cardinality(Unmade') <= Cardinality(Unmade) + 1
   BY <2>1, OneMore
 <2>3. Cardinality(Unmade) \in Nat /\ Cardinality(onServer) \in Nat
   BY <2>1, FS_CardinalityType DEF CalendarsNumbered
 <2>4. Cardinality(onServer') + Cardinality(Unmade') <= clicked' + 1
   BY <1>1, <1>3, <2>2, <2>3 DEF CalendarsNumbered
 <2>5. \A r \in adds' : r.listed \subseteq onServer' /\ (r.made # 0 => r.made \in onServer')
   BY <1>3, <1>6 DEF CalendarsNumbered
 <2> QED BY <1>3, <2>4, <2>5 DEF CalendarsNumbered
<1>10. ASSUME ~crossed'
       PROVE  ~crossed /\ (ShareFollows => ShareFollows') /\ (ListFollows => ListFollows')
 <2>1. ~crossed /\ adds = {} /\ ~loadingList BY <1>10 DEF HandleSave
 <2>2. adds' = {k} BY <1>3, <2>1
 <2> QED BY <1>3, <1>4, <1>6, <2>1, <2>2 DEF ShareFollows, ListFollows
<1> QED BY <1>1, <1>7, <1>8, <1>9, <1>10

\* The server makes the calendar of a form: one form less on its way, one calendar more.
LEMMA CalendarMadeOK ==
    ASSUME FormsInv, NEW r \in adds, CalendarMade(r)
    PROVE  FormsInv'
<1> USE DEF FormsInv
<1>1. PICK n : n = Cardinality(onServer) OBVIOUS
<1>2. n \in Nat /\ onServer = 1 .. n /\ IsFiniteSet(onServer)
  BY <1>1, FS_CardinalityType DEF CalendarsNumbered
<1>3. PICK k : k = [r EXCEPT !.made = n + 1] OBVIOUS
<1>4. /\ r.made = 0 /\ adds' = (adds \ {r}) \cup {k} /\ onServer' = onServer \cup {n + 1}
      /\ UNCHANGED <<formKind, clicked, shareVars, addOpen, named, savingNew, addError, listed,
                     ticked, loadingList, crossed>>
  BY <1>1, <1>3 DEF CalendarMade
<1>5. UNCHANGED <<shareOf, guest, permission, sharing, sharedWith, shares, grants>>
  BY <1>4 DEF shareVars
<1>6. k \in AddRecords /\ k.listed = r.listed /\ k.made = n + 1
  BY <1>2, <1>3 DEF FormsVarTypes, AddRecords
<1>7. FormsVarTypes'
 <2>1. adds' \subseteq AddRecords BY <1>4, <1>6 DEF FormsVarTypes
 <2>2. IsFiniteSet(adds') BY <1>4, FS_AddElement, FS_RemoveElement DEF FormsVarTypes
 <2> QED BY <1>4, <1>5, <2>1, <2>2 DEF FormsVarTypes
<1>8. SignsOfSending' BY <1>4, <1>5 DEF SignsOfSending
<1>9. onServer' = 1 .. n + 1 /\ n + 1 \notin onServer BY <1>2, <1>4
<1>10. IsFiniteSet(onServer') /\ Cardinality(onServer') = n + 1
 <2>1. PICK x : x = n + 1 OBVIOUS
 <2>2. IsFiniteSet(onServer \cup {x}) /\ Cardinality(onServer \cup {x}) = Cardinality(onServer) + 1
   BY <1>2, <1>9, <2>1, FS_AddElement
 <2> QED BY <1>1, <1>4, <2>1, <2>2
<1>11. CalendarsNumbered'
 <2>1. IsFiniteSet(Unmade) /\ r \in Unmade BY <1>4, FS_Subset DEF FormsVarTypes, Unmade
 <2>2. Unmade' \subseteq Unmade \ {r} BY <1>2, <1>4, <1>6 DEF Unmade
 <2>3. Cardinality(Unmade') + 1 <= Cardinality(Unmade) /\ Cardinality(Unmade') \in Nat
   BY <2>1, <2>2, OneLess, FS_Subset, FS_RemoveElement, FS_CardinalityType
 <2>4. Cardinality(Unmade) \in Nat /\ clicked \in Nat
   BY <2>1, FS_CardinalityType, FormsAssumption DEF FormsVarTypes
 <2>5. Cardinality(onServer') + Cardinality(Unmade') <= clicked' + 1
   BY <1>1, <1>2, <1>4, <1>10, <2>3, <2>4 DEF CalendarsNumbered
 <2>6. \A q \in adds' : q.listed \subseteq onServer' /\ (q.made # 0 => q.made \in onServer')
   BY <1>4, <1>6 DEF CalendarsNumbered
 <2>7. onServer' = 1 .. Cardinality(onServer') BY <1>9, <1>10
 <2> QED BY <1>4, <1>10, <2>5, <2>6, <2>7 DEF CalendarsNumbered
<1>12. ListFollows => ListFollows'
 <2> SUFFICES ASSUME ListFollows PROVE ListFollows' OBVIOUS
 <2>1. adds = {r} /\ onServer = listed /\ r.listed = listed /\ ~loadingList BY <1>4 DEF ListFollows
 <2>2. adds' = {k} /\ onServer' = listed \cup {n + 1} /\ n + 1 # 0 BY <1>2, <1>4, <2>1
 <2> QED BY <1>4, <1>6, <2>1, <2>2 DEF ListFollows
<1> QED BY <1>4, <1>5, <1>7, <1>8, <1>11, <1>12 DEF ShareFollows

\* What the answers of the form and of the list leave of the signs and the types.
LEMMA AddAnsweredOK ==
    ASSUME FormsInv, NEW r \in adds, AddAnswered(r) \/ AddFails(r)
    PROVE  FormsInv'
<1> USE DEF FormsInv
<1>1. /\ adds' = adds \ {r} /\ savingNew' = FALSE /\ onServer' = onServer
      /\ UNCHANGED <<formKind, clicked, shareVars, loadingList>>
  BY DEF AddAnswered, AddFails
<1>2. UNCHANGED <<shareOf, guest, permission, sharing, sharedWith, shares, grants>>
  BY <1>1 DEF shareVars
<1>3. adds' \subseteq AddRecords /\ IsFiniteSet(adds') BY <1>1, FS_RemoveElement DEF FormsVarTypes
<1>4. /\ addOpen' \in BOOLEAN /\ named' \in BOOLEAN /\ addError' \in BOOLEAN
      /\ crossed' \in BOOLEAN
 <2>1. CASE AddAnswered(r)
  <3>1. addOpen' = FALSE /\ named' = FALSE /\ UNCHANGED <<addError, crossed>>
    BY <2>1 DEF AddAnswered
  <3> QED BY <3>1 DEF FormsVarTypes
 <2>2. CASE AddFails(r)
  <3>1. addError' = TRUE /\ UNCHANGED <<addOpen, named>> BY <2>2 DEF AddFails
  <3>2. crossed' \in BOOLEAN BY <2>2 DEF AddFails, FormsVarTypes
  <3> QED BY <3>1, <3>2 DEF FormsVarTypes
 <2> QED BY <2>1, <2>2
<1>5. FormsVarTypes' BY <1>1, <1>2, <1>3, <1>4 DEF FormsVarTypes
<1>6. SignsOfSending' BY <1>1, <1>2 DEF SignsOfSending
<1>7. listed' \subseteq onServer /\ ticked' \subseteq listed'
  BY DEF AddAnswered, AddFails, SetCalendars, CalendarsNumbered
<1>8. CalendarsNumbered'
 <2>1. Unmade' \subseteq Unmade BY <1>1 DEF Unmade
 <2>2. clicked' \in Nat /\ clicked' >= clicked BY <1>1, FormsAssumption DEF FormsVarTypes
 <2>3. \A q \in adds' : q.listed \subseteq onServer /\ (q.made # 0 => q.made \in onServer)
   BY <1>1 DEF CalendarsNumbered
 <2> QED BY <1>1, <1>7, <2>1, <2>2, <2>3, SameCalendars
<1>9. ASSUME ~crossed'
      PROVE  ~crossed /\ (ShareFollows => ShareFollows') /\ (ListFollows => ListFollows')
 <2>1. ~crossed BY <1>9 DEF AddAnswered, AddFails, FormsVarTypes
 <2>2. ShareFollows => ShareFollows' BY <1>2 DEF ShareFollows
 <2>3. ASSUME ListFollows PROVE ListFollows'
  <3>1. adds' = {} /\ ~loadingList' /\ r.listed = listed
        /\ onServer = IF r.made = 0 THEN listed ELSE listed \cup {r.made}
    BY <1>1, <2>3 DEF ListFollows
  <3>2. listed' = onServer BY <1>9, <3>1 DEF AddAnswered, AddFails, SetCalendars
  <3> QED BY <1>1, <3>1, <3>2 DEF ListFollows
 <2> QED BY <2>1, <2>2, <2>3
<1> QED BY <1>1, <1>5, <1>6, <1>8, <1>9

\* The list is loaded.
LEMMA ListLoadsOK ==
    ASSUME FormsInv, ListLoads
    PROVE  FormsInv'
<1> USE DEF FormsInv
<1>1. /\ loadingList' = FALSE /\ listed' = onServer /\ ticked' = onServer
      /\ UNCHANGED <<formKind, clicked, shareVars, addOpen, named, savingNew, addError, onServer,
                     adds, crossed>>
  BY DEF ListLoads, SetCalendars
<1>2. UNCHANGED <<shareOf, guest, permission, sharing, sharedWith, shares, grants>>
  BY <1>1 DEF shareVars
<1>3. FormsVarTypes' /\ SignsOfSending' /\ (ShareFollows => ShareFollows')
  BY <1>1, <1>2 DEF FormsVarTypes, SignsOfSending, ShareFollows
<1>4. CalendarsNumbered'
 <2>1. Unmade' = Unmade BY <1>1 DEF Unmade
 <2>2. clicked' \in Nat /\ clicked' >= clicked BY <1>1, FormsAssumption DEF FormsVarTypes
 <2> QED BY <1>1, <2>1, <2>2, SameCalendars DEF CalendarsNumbered
<1>5. ListFollows => ListFollows' BY <1>1 DEF ListLoads, ListFollows
<1> QED BY <1>1, <1>3, <1>4, <1>5

LEMMA FormsNextOK ==
    ASSUME FormsInv, FormsNext
    PROVE  FormsInv'
<1>1. CASE \/ \E f \in SharedFiles : OpenShare(f)
           \/ CloseShare \/ EditShare \/ HandleShare
           \/ \E r \in shares : ShareAnswered(r) \/ ShareFails(r)
  BY <1>1, SharingOK
<1>2. CASE ToggleAdd \/ NameIt \/ \E c \in listed : TickCalendar(c) BY <1>2, AddingOK
<1>3. CASE HandleSave BY <1>3, HandleSaveOK
<1>4. CASE ListLoads BY <1>4, ListLoadsOK
<1>5. CASE \E r \in adds : CalendarMade(r) \/ AddAnswered(r) \/ AddFails(r)
  BY <1>5, CalendarMadeOK, AddAnsweredOK
<1> QED BY <1>1, <1>2, <1>3, <1>4, <1>5 DEF FormsNext

\* What the properties say of the dialogs, from the invariant.
LEMMA InvSettlesForms ==
    ASSUME FormsInv
    PROVE  ShareListsGrants /\ FormsCanBeSent /\ ListIsComplete /\ FormsTypeOK
<1> USE DEF FormsInv
<1>1. ShareListsGrants BY DEF ShareListsGrants, ShareShown, ShareFollows
<1>2. FormsCanBeSent BY DEF FormsCanBeSent, ShareShown, AddShown, SignsOfSending
<1>3. ListIsComplete BY DEF ListIsComplete, CalendarsNumbered, ListFollows
<1>4. FormsTypeOK
 <2>1. Cardinality(onServer) \in Nat /\ Cardinality(Unmade) \in Nat
   BY FS_Subset, FS_CardinalityType DEF FormsVarTypes, CalendarsNumbered, Unmade
 <2>2. onServer \subseteq 1 .. MaxForms + 1
   BY <2>1, FormsAssumption DEF FormsVarTypes, CalendarsNumbered
 <2>3. listed \cup ticked \subseteq 1 .. MaxForms + 1 BY <2>2 DEF CalendarsNumbered
 <2>4. \A b \in {sharing, addOpen, named, savingNew, addError, loadingList, crossed} : b \in BOOLEAN
   BY DEF FormsVarTypes
 <2>5. shares \subseteq [n: 0 .. MaxForms, file: SharedFiles, who: Guests, may: Permissions]
   BY DEF FormsVarTypes, ShareRecords
 <2> QED BY <2>2, <2>3, <2>4, <2>5 DEF FormsTypeOK, FormsVarTypes
<1> QED BY <1>1, <1>2, <1>3, <1>4

LEMMA FormsStepOK == FormsInv /\ [FormsNext]_formVars => FormsInv'
<1> SUFFICES ASSUME FormsInv, [FormsNext]_formVars PROVE FormsInv' OBVIOUS
<1>1. CASE FormsNext BY <1>1, FormsNextOK
<1>2. CASE UNCHANGED formVars
  BY <1>2 DEF formVars, FormsInv, FormsVarTypes, SignsOfSending, CalendarsNumbered, ShareFollows,
              ListFollows, Unmade
<1> QED BY <1>1, <1>2

-------------------------------------------------------------------------------
(* VIII. The domains page. *)

DomainKinds   == {"list", "get", "logs", "add", "verify", "delete", "box", "unbox"}
DomainChanges == {"add", "verify", "delete", "box", "unbox"}

DomainDetails ==
    [id: CustomDomains \cup {NoCustom}, checks: 0 .. MaxDomainActs,
     records: CustomDomains \cup {NoCustom}, mailboxes: SUBSET (0 .. MaxDomainActs)]

ListedDomains == [id: CustomDomains, checks: 0 .. MaxDomainActs]

DomainRequests ==
    [n: 0 .. MaxDomainActs, kind: DomainKinds, of: CustomDomains \cup {NoCustom},
     box: 0 .. MaxDomainActs, after: {"mount", "click", "verify"}, mine: BOOLEAN,
     served: BOOLEAN, got: DomainDetails, list: SUBSET ListedDomains]

\* The types of the variables, the requests included.
DomainsVarTypes ==
    /\ held \subseteq spent /\ spent \subseteq CustomDomains
    /\ mailboxesOf \in [CustomDomains -> SUBSET (0 .. MaxDomainActs)]
    /\ verified \in [CustomDomains -> 0 .. MaxDomainActs]
    /\ domainView \in {"list", "detail"} /\ domainList \subseteq ListedDomains
    /\ activeDomainId \in CustomDomains \cup {NoCustom} /\ activeDomain \in DomainDetails
    /\ dnsLogs \in CustomDomains \cup {NoCustom}
    /\ waiting \subseteq {"list", "get", "logs", "add", "verify", "box"}
    /\ popup \in {"none", "add", "box", "delete"}
    /\ detailTab \in {"dns", "mailboxes", "logs"}
    /\ inFlight \subseteq DomainRequests
    /\ \A r \in inFlight : r.kind # "list" => r.of \in CustomDomains
    /\ domainActs \in 0 .. MaxDomainActs /\ overtaken \in BOOLEAN

\* The verifications the server has still to make.
Unverified == {r \in inFlight : r.kind = "verify" /\ ~r.served}

VerifiedCounts ==
    /\ IsFiniteSet(inFlight)
    /\ \A d \in CustomDomains : verified[d] + Cardinality(Unverified) <= domainActs

\* The request that ends a flag.
Ends(r, f) ==
    CASE f \in {"list", "get", "logs"} -> r.kind = f
      [] f \in {"add", "box"}          -> r.kind = f /\ r.mine
      [] f = "verify"                  -> r.mine /\ (r.kind = "verify" \/ r.after = "verify")

FlagsWillEnd == \A f \in waiting : \E r \in inFlight : Ends(r, f)

\* Without anything overtaken: a change is alone under way, and asked for where its
\* form is; a load is of the domain that is active, and its answer is current.
RequestsInTurn ==
    /\ \A r \in inFlight : r.kind \in DomainChanges =>
          /\ inFlight = {r} /\ domainView = IF r.kind = "add" THEN "list" ELSE "detail"
    /\ \A r \in inFlight : r.kind \notin {"list", "add"} => r.of = activeDomainId
    /\ \A r \in inFlight : r.served /\ r.kind = "get" => r.of \in held /\ r.got = DomainResponse(r.of)
    /\ \A r \in inFlight : r.served /\ r.kind = "list" => r.list = ListDomains

ListInTurn ==
    domainView = "list" =>
        (\E r \in inFlight : r.kind \in {"list", "add"}) \/ domainList = ListDomains

\* What a mailbox request has done already that the detail does not show.
BehindBy(r) ==
    /\ activeDomain.id = activeDomainId /\ activeDomain.records = activeDomainId
    /\ activeDomain.checks = verified[activeDomainId] /\ activeDomainId \in held
    /\ mailboxesOf[activeDomainId] =
          IF r.kind = "box" THEN activeDomain.mailboxes \cup {r.box}
          ELSE activeDomain.mailboxes \ {r.box}

DetailInTurn ==
    domainView = "detail" =>
        \/ \E r \in inFlight : r.kind \in {"get", "delete", "verify"}
        \/ \E r \in inFlight : r.kind \in {"box", "unbox"} /\ r.served /\ BehindBy(r)
        \/ /\ activeDomainId \in held /\ activeDomain = DomainResponse(activeDomainId)
           /\ \A r \in inFlight : r.kind \in {"box", "unbox"} => ~r.served

\* Without the sign of waiting, the detail is of the active domain.
DetailNamed == domainView = "detail" => "get" \in waiting \/ activeDomain.id = activeDomainId

LogsInTurn ==
    domainView = "detail" /\ detailTab = "logs" =>
        (\E r \in inFlight : r.kind = "logs") \/ dnsLogs = activeDomainId

DomainsInv ==
    /\ DomainsVarTypes /\ VerifiedCounts /\ FlagsWillEnd
    /\ ~overtaken => RequestsInTurn /\ ListInTurn /\ DetailInTurn /\ DetailNamed /\ LogsInTurn

\* What a request asks for, which its answers leave as it is.
Alike(q, r) ==
    /\ q.n = r.n /\ q.kind = r.kind /\ q.of = r.of /\ q.box = r.box /\ q.after = r.after

LEMMA AskIs ==
    ASSUME NEW n \in 0 .. MaxDomainActs, NEW kind \in DomainKinds, NEW d \in CustomDomains \cup {NoCustom},
           NEW after \in {"mount", "click", "verify"}
    PROVE  /\ DomainAsk(n, kind, d, after) \in DomainRequests
           /\ DomainAsk(n, kind, d, after).n = n /\ DomainAsk(n, kind, d, after).kind = kind
           /\ DomainAsk(n, kind, d, after).of = d /\ DomainAsk(n, kind, d, after).after = after
           /\ DomainAsk(n, kind, d, after).mine /\ ~DomainAsk(n, kind, d, after).served
<1>1. PICK t \in BOOLEAN : t = TRUE OBVIOUS
<1>2. PICK u \in BOOLEAN : u = FALSE OBVIOUS
<1>3. 0 \in 0 .. MaxDomainActs /\ NoActive \in DomainDetails
  BY MailDomainsAssumption DEF NoActive, DomainDetails
<1>4. PICK g : g = NoActive OBVIOUS
<1>5. PICK r : r = [n |-> n, kind |-> kind, of |-> d, box |-> 0, after |-> after, mine |-> t,
                   served |-> u, got |-> g, list |-> {}]
  OBVIOUS
<1>6. r \in DomainRequests /\ r.n = n /\ r.kind = kind /\ r.of = d /\ r.after = after /\ r.mine = t
      /\ r.served = u
  BY <1>3, <1>4, <1>5 DEF DomainRequests
<1>7. DomainAsk(n, kind, d, after) = r BY <1>1, <1>2, <1>4, <1>5, Zenon DEF DomainAsk
<1>8. r.mine /\ ~r.served BY <1>1, <1>2, <1>6
<1> QED BY <1>6, <1>7, <1>8, Zenon

\* A request whose component goes with the view.
DomainKept(r, v) == [r EXCEPT !.mine = @ /\ ~(v # domainView)]

LEMMA KeptIs ==
    ASSUME NEW r \in DomainRequests, NEW v
    PROVE  /\ DomainKept(r, v) \in DomainRequests /\ Alike(DomainKept(r, v), r)
           /\ DomainKept(r, v).served = r.served /\ DomainKept(r, v).got = r.got /\ DomainKept(r, v).list = r.list
           /\ DomainKept(r, v).mine <=> r.mine /\ v = domainView
<1>1. PICK b \in BOOLEAN : b <=> r.mine /\ ~(v # domainView)
 <2>1. (r.mine /\ ~(v # domainView)) \in BOOLEAN OBVIOUS
 <2> QED BY <2>1, Zenon
<1>2. PICK q : q = [r EXCEPT !.mine = b] OBVIOUS
<1>3. q \in DomainRequests /\ Alike(q, r) /\ q.served = r.served /\ q.got = r.got /\ q.list = r.list
      /\ q.mine = b
  BY <1>2 DEF DomainRequests, Alike
<1>4. DomainKept(r, v) = q
 <2>1. b = (r.mine /\ ~(v # domainView)) BY <1>1, Zenon
 <2> QED BY <1>2, <2>1, Zenon DEF DomainKept
<1> QED BY <1>1, <1>3, <1>4, Zenon

\* What the requests are when the page shows something.
LEMMA ShownRequests ==
    ASSUME NEW v, NEW d, NEW rs, NEW w, NEW n, Shows(v, d, rs, w, n),
           NEW al, al = DomainAsk(n, "list", d, "mount"), NEW ag, ag = DomainAsk(n, "get", d, "mount")
    PROVE  /\ domainView' = v /\ activeDomainId' = d
           /\ detailTab' = IF v # domainView THEN "dns" ELSE detailTab
           /\ \A q \in inFlight' :
                 \/ q = al /\ v # domainView /\ v = "list"
                 \/ q = ag /\ v = "detail" /\ d # NoCustom
                 \/ \E r \in rs : q = DomainKept(r, v)
           /\ \A r \in rs : DomainKept(r, v) \in inFlight'
           /\ v # domainView /\ v = "list" => al \in inFlight'
           /\ v # domainView /\ v = "detail" /\ d # NoCustom => ag \in inFlight'
<1>1. PICK ml : ml = IF v # domainView /\ v = "list" THEN {al} ELSE {} OBVIOUS
<1>2. PICK mg : mg = IF v = "detail" /\ d # NoCustom /\ (v # domainView \/ d # activeDomainId)
                     THEN {ag} ELSE {}
  OBVIOUS
<1>3. inFlight' = ml \cup mg \cup {DomainKept(r, v) : r \in rs}
  BY <1>1, <1>2, Zenon DEF Shows, DomainKept
<1>4. domainView' = v /\ activeDomainId' = d /\ detailTab' = IF v # domainView THEN "dns" ELSE detailTab
  BY Zenon DEF Shows
<1>5. /\ \A q \in inFlight' : q \in ml \/ q \in mg \/ \E r \in rs : q = DomainKept(r, v)
      /\ \A r \in rs : DomainKept(r, v) \in inFlight'
      /\ ml \subseteq inFlight' /\ mg \subseteq inFlight'
  BY <1>3, Zenon
<1> QED BY <1>1, <1>2, <1>4, <1>5, Zenon

LEMMA ShownFlags ==
    ASSUME NEW v, NEW d, NEW rs, NEW w, NEW n, Shows(v, d, rs, w, n),
           NEW al, al = DomainAsk(n, "list", d, "mount"), NEW ag, ag = DomainAsk(n, "get", d, "mount")
    PROVE  \A f \in waiting' :
              \/ f \in w /\ ~(v # domainView /\ f \in OfComponents)
              \/ f = al.kind /\ al \in inFlight'
              \/ f = ag.kind /\ ag \in inFlight'
<1>1. PICK ml : ml = IF v # domainView /\ v = "list" THEN {al} ELSE {} OBVIOUS
<1>2. PICK mg : mg = IF v = "detail" /\ d # NoCustom /\ (v # domainView \/ d # activeDomainId)
                     THEN {ag} ELSE {}
  OBVIOUS
<1>3. ml \subseteq inFlight' /\ mg \subseteq inFlight' BY <1>1, <1>2, Zenon DEF Shows
<1>4. waiting' = {f \in w : ~(v # domainView /\ f \in OfComponents)} \cup {r.kind : r \in ml \cup mg}
  BY <1>1, <1>2, Zenon DEF Shows
<1>5. TAKE f \in waiting'
<1>6. (f \in w /\ ~(v # domainView /\ f \in OfComponents)) \/ \E r \in ml \cup mg : f = r.kind
  BY <1>4, <1>5, Zenon
<1>7. ASSUME NEW r \in ml \cup mg, f = r.kind
      PROVE  (f = al.kind /\ al \in inFlight') \/ (f = ag.kind /\ ag \in inFlight')
 <2>1. r \in inFlight' BY <1>3
 <2>2. r = al \/ r = ag BY <1>1, <1>2, Zenon
 <2> QED BY <1>7, <2>1, <2>2, Zenon
<1> QED BY <1>6, <1>7, Zenon

\* Requests that are those of A, each as it was kept, are not more.
LEMMA KeptCount ==
    ASSUME NEW A, IsFiniteSet(A), NEW B, NEW v, B \subseteq {DomainKept(r, v) : r \in A}
    PROVE  IsFiniteSet(B) /\ Cardinality(B) \in Nat /\ Cardinality(B) <= Cardinality(A)
<1>1. PICK f : f = [r \in A |-> DomainKept(r, v)] OBVIOUS
<1>2. PICK C : C = {DomainKept(r, v) : r \in A} OBVIOUS
<1>3. f \in Surjection(A, C) BY <1>1, <1>2 DEF Surjection
<1>4. IsFiniteSet(C) /\ Cardinality(C) <= Cardinality(A) BY <1>3, FS_Surjection
<1>5. IsFiniteSet(B) /\ Cardinality(B) <= Cardinality(C) BY <1>2, <1>4, FS_Subset
<1> QED BY <1>4, <1>5, FS_CardinalityType

DomainFlags == {"list", "get", "logs", "add", "verify", "box"}

\* A request of some kind of a domain, as those that are sent.
Typed(r) == r \in DomainRequests /\ (r.kind # "list" => r.of \in CustomDomains)

\* What the page shows keeps the types and flags, and no verification is added.
LEMMA ShowsOK ==
    ASSUME NEW v \in {"list", "detail"}, NEW d \in CustomDomains \cup {NoCustom}, NEW rs, NEW w,
           NEW n \in 0 .. MaxDomainActs, Shows(v, d, rs, w, n),
           \A r \in rs : Typed(r), IsFiniteSet(rs), w \subseteq DomainFlags,
           \A f \in w : \E r \in rs : Ends(r, f)
    PROVE  /\ \A r \in inFlight' : Typed(r)
           /\ waiting' \subseteq DomainFlags /\ FlagsWillEnd'
           /\ IsFiniteSet(inFlight')
           /\ IsFiniteSet({r \in rs : r.kind = "verify" /\ ~r.served})
           /\ Cardinality(Unverified') \in Nat
           /\ Cardinality(Unverified') <= Cardinality({r \in rs : r.kind = "verify" /\ ~r.served})
<1>1. PICK al : al = DomainAsk(n, "list", d, "mount") OBVIOUS
<1>2. PICK ag : ag = DomainAsk(n, "get", d, "mount") OBVIOUS
<1>3. al \in DomainRequests /\ al.kind = "list" /\ al.of = d BY <1>1, AskIs DEF DomainKinds
<1>4. ag \in DomainRequests /\ ag.kind = "get" /\ ag.of = d BY <1>2, AskIs DEF DomainKinds
<1>5. /\ \A q \in inFlight' :
            \/ q = al
            \/ q = ag /\ d # NoCustom
            \/ \E r \in rs : q = DomainKept(r, v)
      /\ \A r \in rs : DomainKept(r, v) \in inFlight'
  BY <1>1, <1>2, ShownRequests
<1>6. ASSUME NEW r \in rs
      PROVE  /\ Typed(DomainKept(r, v)) /\ Alike(DomainKept(r, v), r) /\ DomainKept(r, v).served = r.served
             /\ DomainKept(r, v).mine <=> r.mine /\ v = domainView
  BY KeptIs DEF Typed, Alike
<1>7. \A r \in inFlight' : Typed(r)
 <2> SUFFICES ASSUME NEW q \in inFlight' PROVE Typed(q) OBVIOUS
 <2>1. CASE q = al BY <1>3, <2>1 DEF Typed
 <2>2. CASE q = ag /\ d # NoCustom BY <1>4, <2>2 DEF Typed
 <2>3. CASE \E r \in rs : q = DomainKept(r, v) BY <1>6, <2>3
 <2> QED BY <1>5, <2>1, <2>2, <2>3
<1>8. \A f \in waiting' : \/ f \in w /\ ~(v # domainView /\ f \in OfComponents)
                          \/ f = "list" /\ al \in inFlight'
                          \/ f = "get" /\ ag \in inFlight'
 <2>1. \A f \in waiting' : \/ f \in w /\ ~(v # domainView /\ f \in OfComponents)
                           \/ f = al.kind /\ al \in inFlight'
                           \/ f = ag.kind /\ ag \in inFlight'
   BY <1>1, <1>2, ShownFlags
 <2> QED BY <1>3, <1>4, <2>1, Zenon
<1>9. waiting' \subseteq DomainFlags BY <1>8 DEF DomainFlags
<1>10. FlagsWillEnd'
 <2> SUFFICES ASSUME NEW f \in waiting' PROVE \E r \in inFlight' : Ends(r, f) BY DEF FlagsWillEnd
 <2>1. CASE f \in w /\ ~(v # domainView /\ f \in OfComponents)
  <3>1. PICK r \in rs : Ends(r, f) BY <2>1
  <3>2. f \in DomainFlags /\ (f \in {"add", "verify", "box"} => v = domainView)
    BY <2>1 DEF OfComponents
  <3>3. Ends(DomainKept(r, v), f) BY <1>6, <3>1, <3>2 DEF Ends, Alike, DomainFlags
  <3> QED BY <1>5, <3>3
 <2>2. CASE f = "list" /\ al \in inFlight' BY <1>3, <2>2 DEF Ends
 <2>3. CASE f = "get" /\ ag \in inFlight' BY <1>4, <2>3 DEF Ends
 <2> QED BY <1>8, <2>1, <2>2, <2>3
<1>11. IsFiniteSet(inFlight')
 <2>1. PICK K : K = {DomainKept(r, v) : r \in rs} OBVIOUS
 <2>2. IsFiniteSet(K) BY <2>1, KeptCount
 <2>3. IsFiniteSet((K \cup {al}) \cup {ag}) BY <2>2, FS_AddElement
 <2>4. inFlight' \subseteq (K \cup {al}) \cup {ag} BY <1>5, <2>1
 <2> QED BY <2>3, <2>4, FS_Subset
<1>12. /\ IsFiniteSet({r \in rs : r.kind = "verify" /\ ~r.served})
       /\ Cardinality(Unverified') \in Nat
       /\ Cardinality(Unverified') <= Cardinality({r \in rs : r.kind = "verify" /\ ~r.served})
 <2>1. PICK A : A = {r \in rs : r.kind = "verify" /\ ~r.served} OBVIOUS
 <2>2. PICK B : B = Unverified' OBVIOUS
 <2>3. IsFiniteSet(A) BY <2>1, FS_Subset
 <2>4. B \subseteq {DomainKept(r, v) : r \in A}
  <3> SUFFICES ASSUME NEW q \in B PROVE \E r \in A : q = DomainKept(r, v) OBVIOUS
  <3>1. q \in inFlight' /\ q.kind = "verify" /\ ~q.served BY <2>2 DEF Unverified
  <3>2. PICK r \in rs : q = DomainKept(r, v) BY <1>3, <1>4, <1>5, <3>1
  <3> QED BY <1>6, <2>1, <3>1, <3>2 DEF Alike
 <2> QED BY <2>1, <2>2, <2>3, <2>4, KeptCount
<1> QED BY <1>7, <1>9, <1>10, <1>11, <1>12

\* The types of what a request shares with the page.
LEMMA RequestIs ==
    ASSUME DomainsVarTypes, NEW r \in inFlight
    PROVE  /\ Typed(r) /\ r.n \in 0 .. MaxDomainActs /\ r.kind \in DomainKinds
           /\ r.of \in CustomDomains \cup {NoCustom} /\ r.box \in 0 .. MaxDomainActs
           /\ r.mine \in BOOLEAN /\ r.served \in BOOLEAN
           /\ r.got \in DomainDetails /\ r.list \subseteq ListedDomains
BY DEF DomainsVarTypes, DomainRequests, Typed

\* What a flag waits for when one request has ended.
LEMMA EndedFlags ==
    ASSUME DomainsVarTypes, FlagsWillEnd, NEW r \in inFlight
    PROVE  /\ Ended(r) \subseteq DomainFlags /\ Ended(r) \subseteq waiting
           /\ \A f \in Ended(r) : \E q \in inFlight \ {r} : Ends(q, f)
<1>1. Ended(r) \subseteq waiting /\ waiting \subseteq DomainFlags
  BY DEF Ended, DomainsVarTypes, DomainFlags
<1>2. ASSUME NEW f \in Ended(r)
      PROVE  \E q \in inFlight \ {r} : Ends(q, f)
 <2>1. PICK q \in inFlight : Ends(q, f) BY <1>1, <1>2 DEF FlagsWillEnd
 <2>2. ~Ends(r, f) BY <1>1, <1>2 DEF Ended, Ends, DomainFlags, OfComponents
 <2> QED BY <2>1, <2>2
<1> QED BY <1>1, <1>2

LEMMA DomainsInitOK == DomainsInit => DomainsInv
<1> SUFFICES ASSUME DomainsInit PROVE DomainsInv OBVIOUS
<1> USE MailDomainsAssumption DEF DomainsInit
<1>1. PICK a : a = DomainAsk(0, "list", NoCustom, "mount") OBVIOUS
<1>2. a \in DomainRequests /\ a.kind = "list" /\ ~a.served /\ inFlight = {a}
  BY <1>1, AskIs DEF DomainKinds
<1>3. DomainsVarTypes
 <2>1. overtaken \in BOOLEAN OBVIOUS
 <2>2. activeDomain \in DomainDetails BY DEF DomainDetails, NoActive
 <2>3. mailboxesOf \in [CustomDomains -> SUBSET (0 .. MaxDomainActs)] OBVIOUS
 <2>4. inFlight \subseteq DomainRequests /\ \A r \in inFlight : r.kind # "list" => r.of \in CustomDomains
   BY <1>2
 <2>5. held \subseteq spent /\ spent \subseteq CustomDomains
       /\ verified \in [CustomDomains -> 0 .. MaxDomainActs]
       /\ domainActs \in 0 .. MaxDomainActs
   OBVIOUS
 <2> QED BY <2>1, <2>2, <2>3, <2>4, <2>5 DEF DomainsVarTypes
<1>4. VerifiedCounts
 <2>1. Unverified = {} BY <1>2 DEF Unverified
 <2>2. Cardinality(Unverified) = 0 /\ IsFiniteSet({a}) BY <2>1, FS_EmptySet, FS_Singleton
 <2> QED BY <1>2, <2>2 DEF VerifiedCounts
<1>5. FlagsWillEnd BY <1>2 DEF FlagsWillEnd, Ends
<1>6. RequestsInTurn /\ ListInTurn /\ DetailInTurn /\ DetailNamed /\ LogsInTurn
  BY <1>2 DEF RequestsInTurn, ListInTurn, DetailInTurn, DetailNamed, LogsInTurn, DomainChanges
<1> QED BY <1>3, <1>4, <1>5, <1>6 DEF DomainsInv

\* The count of verifications, when the server made none.
LEMMA CountOK ==
    ASSUME DomainsVarTypes, VerifiedCounts, verified' = verified, IsFiniteSet(inFlight'),
           Cardinality(Unverified') \in Nat, domainActs' \in 0 .. MaxDomainActs,
           \/ Cardinality(Unverified') <= Cardinality(Unverified) /\ domainActs' >= domainActs
           \/ Cardinality(Unverified') <= Cardinality(Unverified) + 1 /\ domainActs' = domainActs + 1
    PROVE  VerifiedCounts'
<1>1. IsFiniteSet(Unverified) /\ Cardinality(Unverified) \in Nat
  BY FS_Subset, FS_CardinalityType DEF VerifiedCounts, Unverified
<1>2. domainActs \in Nat /\ domainActs' \in Nat /\ \A d \in CustomDomains : verified[d] \in Nat
  BY MailDomainsAssumption DEF DomainsVarTypes
<1>3. ASSUME NEW d \in CustomDomains
      PROVE  verified[d] + Cardinality(Unverified') <= domainActs'
  BY <1>1, <1>2 DEF VerifiedCounts
<1> QED BY <1>3 DEF VerifiedCounts

\* A request goes, with the flags it will end.
LEMMA SendsOK ==
    ASSUME DomainsVarTypes, VerifiedCounts, FlagsWillEnd, DomainAct,
           NEW r, Typed(r), NEW w, w \subseteq DomainFlags, \A f \in w : Ends(r, f), Sends(r, w),
           popup' = popup, detailTab' \in {"dns", "mailboxes", "logs"}, overtaken' \in BOOLEAN
    PROVE  DomainsVarTypes' /\ VerifiedCounts' /\ FlagsWillEnd'
<1>1. /\ inFlight' = inFlight \cup {r} /\ waiting' = waiting \cup w
      /\ UNCHANGED <<held, spent, mailboxesOf, verified, domainList, activeDomain, dnsLogs, domainView,
                     activeDomainId>>
  BY DEF Sends, hosted, storedVars
<1>2. domainActs' \in 0 .. MaxDomainActs /\ domainActs' = domainActs + 1
  BY MailDomainsAssumption DEF DomainAct, DomainsVarTypes
<1>3. DomainsVarTypes'
 <2>1. inFlight' \subseteq DomainRequests /\ \A q \in inFlight' : q.kind # "list" => q.of \in CustomDomains
   BY <1>1 DEF DomainsVarTypes, Typed
 <2>2. waiting' \subseteq {"list", "get", "logs", "add", "verify", "box"}
   BY <1>1 DEF DomainsVarTypes, DomainFlags
 <2> QED BY <1>1, <1>2, <2>1, <2>2 DEF DomainsVarTypes
<1>4. VerifiedCounts'
 <2>1. IsFiniteSet(Unverified) /\ Unverified' \subseteq Unverified \cup {r}
   BY <1>1, FS_Subset DEF VerifiedCounts, Unverified
 <2>2. Cardinality(Unverified') \in Nat /\ Cardinality(Unverified') <= Cardinality(Unverified) + 1
   BY <2>1, OneMore
 <2>3. IsFiniteSet(inFlight') BY <1>1, FS_AddElement DEF VerifiedCounts
 <2> QED BY <1>1, <1>2, <2>2, <2>3, CountOK
<1>5. FlagsWillEnd' BY <1>1 DEF FlagsWillEnd
<1> QED BY <1>3, <1>4, <1>5

\* What the page shows and the server stay as they are.
LEMMA SameAnswers ==
    ASSUME UNCHANGED hosted
    PROVE  ListDomains' = ListDomains /\ \A d : DomainResponse(d)' = DomainResponse(d)
BY DEF hosted, ListDomains, DomainResponse

InTurn == RequestsInTurn /\ ListInTurn /\ DetailInTurn /\ DetailNamed /\ LogsInTurn

\* A load goes while no change is under way.
LEMMA LoadInTurn ==
    ASSUME InTurn, NEW r, ~r.served, r.kind \in {"list", "logs"}, NEW w, Sends(r, w), ~Changes,
           r.kind = "logs" => r.of = activeDomainId,
           DomainsVarTypes,
           detailTab' = "logs" => domainView = "list" \/ r.kind = "logs"
    PROVE  InTurn'
<1> USE DEF InTurn
<1>1. /\ inFlight' = inFlight \cup {r}
      /\ UNCHANGED <<held, spent, mailboxesOf, verified, domainList, activeDomain, dnsLogs, domainView,
                     activeDomainId>>
  BY DEF Sends, hosted, storedVars
<1>2. ListDomains' = ListDomains /\ \A d : DomainResponse(d)' = DomainResponse(d)
  BY SameAnswers DEF Sends
<1>3. \A q \in inFlight' : q.kind \notin DomainChanges BY <1>1 DEF Changes, DomainChanges
<1>4. RequestsInTurn' BY <1>1, <1>2, <1>3 DEF RequestsInTurn
<1>5. ListInTurn' BY <1>1, <1>2 DEF ListInTurn
<1>6. DetailInTurn'
 <2> SUFFICES ASSUME domainView' = "detail"
              PROVE  \/ \E q \in inFlight' : q.kind \in {"get", "delete", "verify"}
                     \/ /\ activeDomainId \in held /\ activeDomain = DomainResponse(activeDomainId)
                        /\ \A q \in inFlight' : q.kind \in {"box", "unbox"} => ~q.served
   BY <1>1, <1>2 DEF DetailInTurn, DomainResponse
 <2>1. \A q \in inFlight' : q.kind \notin {"box", "unbox"} BY <1>3 DEF DomainChanges
 <2> QED BY <1>1, <2>1 DEF DetailInTurn
<1>7. LogsInTurn' /\ DetailNamed' BY <1>1 DEF LogsInTurn, DetailNamed, Sends
<1> QED BY <1>4, <1>5, <1>6, <1>7

\* A change goes while nothing is under way.
LEMMA ChangeInTurn ==
    ASSUME InTurn, NEW r, ~r.served, r.kind \in DomainChanges, NEW w, Sends(r, w), inFlight = {},
           domainView = IF r.kind = "add" THEN "list" ELSE "detail",
           r.kind # "add" => r.of = activeDomain.id, detailTab' = detailTab, DomainsVarTypes
    PROVE  InTurn'
<1> USE DEF InTurn
<1>1. /\ inFlight' = {r}
      /\ UNCHANGED <<held, spent, mailboxesOf, verified, domainList, activeDomain, dnsLogs, domainView,
                     activeDomainId>>
  BY DEF Sends, hosted, storedVars
<1>2. DomainResponse(activeDomainId)' = DomainResponse(activeDomainId) BY <1>1 DEF DomainResponse
<1>3. r.kind # "add" => r.of = activeDomainId /\ activeDomainId \in held
                        /\ activeDomain = DomainResponse(activeDomainId)
  BY DEF DetailInTurn, DomainResponse
<1>4. RequestsInTurn' BY <1>1, <1>3 DEF RequestsInTurn, DomainChanges
<1>5. ListInTurn' BY <1>1 DEF ListInTurn
<1>6. DetailInTurn' BY <1>1, <1>2, <1>3 DEF DetailInTurn
<1>7. LogsInTurn' /\ DetailNamed' BY <1>1 DEF LogsInTurn, DetailNamed, Sends
<1> QED BY <1>4, <1>5, <1>6, <1>7

\* The requests that the user sends.
LEMMA FetchDomainsOK ==
    ASSUME DomainsInv, FetchDomains
    PROVE  DomainsInv'
<1> USE MailDomainsAssumption DEF DomainsInv
<1>1. domainActs' \in 0 .. MaxDomainActs /\ DomainAct
  BY DEF FetchDomains, DomainAct, DomainsVarTypes
<1>2. PICK r : r = DomainAsk(domainActs', "list", NoCustom, "click") OBVIOUS
<1>3. r \in DomainRequests /\ r.kind = "list" /\ ~r.served BY <1>1, <1>2, AskIs DEF DomainKinds
<1>4. Sends(r, {"list"}) /\ UNCHANGED <<popup, detailTab>> /\ domainView = "list"
  BY <1>2 DEF FetchDomains, OnList
<1>5. overtaken' \in BOOLEAN /\ (~overtaken' => ~overtaken /\ ~Changes)
  BY DEF FetchDomains, DomainsVarTypes
<1>6. DomainsVarTypes' /\ VerifiedCounts' /\ FlagsWillEnd'
 <2>1. Typed(r) /\ {"list"} \subseteq DomainFlags /\ \A f \in {"list"} : Ends(r, f)
   BY <1>3 DEF Typed, DomainFlags, Ends
 <2>2. detailTab' \in {"dns", "mailboxes", "logs"} BY <1>4 DEF DomainsVarTypes
 <2> QED BY <1>1, <1>4, <1>5, <2>1, <2>2, SendsOK
<1>7. ~overtaken' => InTurn' BY <1>3, <1>4, <1>5, LoadInTurn DEF InTurn
<1> QED BY <1>6, <1>7 DEF InTurn

LEMMA ChooseTabOK ==
    ASSUME DomainsInv, NEW t \in {"dns", "mailboxes", "logs"}, ChooseTab(t)
    PROVE  DomainsInv'
<1> USE MailDomainsAssumption DEF DomainsInv
<1>1. domainActs' \in 0 .. MaxDomainActs /\ DomainAct /\ domainActs' >= domainActs
      /\ domainActs \in 0 .. MaxDomainActs
  BY DEF ChooseTab, DomainAct, DomainsVarTypes
<1>2. PICK r : r = DomainAsk(domainActs', "logs", activeDomain.id, "click") OBVIOUS
<1>3. activeDomain.id \in CustomDomains BY DEF ChooseTab, OnDetail, DomainsVarTypes, DomainDetails
<1>4. r \in DomainRequests /\ r.kind = "logs" /\ ~r.served /\ r.of = activeDomain.id
  BY <1>1, <1>2, <1>3, AskIs DEF DomainKinds
<1>5. overtaken' \in BOOLEAN /\ (~overtaken' => ~overtaken /\ ~Changes)
  BY DEF ChooseTab, DomainsVarTypes
<1>6. detailTab' = t /\ popup' = popup /\ domainView = "detail" /\ "get" \notin waiting
  BY DEF ChooseTab, OnDetail
<1>7. CASE t = "logs"
 <2>1. Sends(r, {"logs"}) BY <1>2, <1>7 DEF ChooseTab
 <2>2. Typed(r) /\ {"logs"} \subseteq DomainFlags /\ \A f \in {"logs"} : Ends(r, f)
   BY <1>3, <1>4 DEF Typed, DomainFlags, Ends
 <2>3. DomainsVarTypes' /\ VerifiedCounts' /\ FlagsWillEnd'
   BY <1>1, <1>5, <1>6, <2>1, <2>2, SendsOK
 <2>4. ASSUME ~overtaken' PROVE InTurn'
  <3>1. InTurn /\ ~Changes BY <1>5, <2>4 DEF InTurn
  <3>2. CASE r.of = activeDomainId BY <1>4, <2>1, <3>1, <3>2, LoadInTurn
  <3>3. CASE r.of # activeDomainId BY <1>4, <1>6, <3>1, <3>3 DEF InTurn, DetailNamed
  <3> QED BY <3>2, <3>3
 <2> QED BY <2>3, <2>4 DEF InTurn
<1>8. CASE t # "logs"
 <2>1. UNCHANGED <<hosted, storedVars, domainView, activeDomainId, waiting, inFlight>>
   BY <1>8 DEF ChooseTab
 <2>2. UNCHANGED <<held, spent, mailboxesOf, verified, domainList, activeDomain, dnsLogs, domainView,
                   activeDomainId, waiting, inFlight>>
   BY <2>1 DEF hosted, storedVars
 <2>3. Unverified' = Unverified /\ IsFiniteSet(inFlight') /\ Cardinality(Unverified) \in Nat
   BY <2>2, FS_Subset, FS_CardinalityType DEF Unverified, VerifiedCounts
 <2>4. VerifiedCounts' BY <1>1, <2>2, <2>3, CountOK
 <2>5. DomainsVarTypes' /\ FlagsWillEnd'
   BY <1>1, <1>5, <1>6, <2>2 DEF DomainsVarTypes, FlagsWillEnd
 <2>6. ListDomains' = ListDomains /\ \A d : DomainResponse(d)' = DomainResponse(d)
   BY <2>1, SameAnswers
 <2>7. ASSUME ~overtaken' PROVE InTurn'
  <3>1. InTurn BY <1>5, <2>7 DEF InTurn
  <3>2. RequestsInTurn' /\ ListInTurn' BY <2>2, <2>6, <3>1 DEF InTurn, RequestsInTurn, ListInTurn
  <3>3. DetailInTurn' BY <2>2, <3>1 DEF InTurn, DetailInTurn, BehindBy, DomainResponse
  <3>4. LogsInTurn' /\ DetailNamed' BY <1>6, <1>8, <2>2, <3>1 DEF InTurn, LogsInTurn, DetailNamed
  <3> QED BY <3>2, <3>3, <3>4 DEF InTurn
 <2> QED BY <2>4, <2>5, <2>7 DEF InTurn
<1> QED BY <1>7, <1>8

\* A form or a button that changes something.
LEMMA AsksOK ==
    ASSUME DomainsInv, DomainAct, NEW r, Typed(r), ~r.served, r.kind \in DomainChanges,
           NEW w, w \subseteq DomainFlags, \A f \in w : Ends(r, f), Asks(r, w),
           domainView = IF r.kind = "add" THEN "list" ELSE "detail",
           r.kind # "add" => r.of = activeDomain.id
    PROVE  DomainsInv'
<1> USE DEF DomainsInv
<1>1. Sends(r, w) /\ UNCHANGED <<popup, detailTab>> BY DEF Asks
<1>2. overtaken' \in BOOLEAN /\ (~overtaken' => ~overtaken /\ inFlight = {})
  BY DEF Asks, DomainsVarTypes
<1>3. DomainsVarTypes' /\ VerifiedCounts' /\ FlagsWillEnd'
 <2>1. detailTab' \in {"dns", "mailboxes", "logs"} BY <1>1 DEF DomainsVarTypes
 <2> QED BY <1>1, <1>2, <2>1, SendsOK
<1>4. ~overtaken' => InTurn' BY <1>1, <1>2, ChangeInTurn DEF InTurn
<1> QED BY <1>3, <1>4 DEF InTurn

LEMMA ChangesOK ==
    ASSUME DomainsInv,
           \/ HandleAddMailbox \/ HandleVerify \/ HandleDelete
           \/ \E d \in CustomDomains : HandleSubmit(d)
           \/ \E b \in BoxesShown : DeleteMailbox(b)
    PROVE  DomainsInv'
<1> USE MailDomainsAssumption
<1>1. domainActs' \in 0 .. MaxDomainActs /\ DomainAct /\ DomainsVarTypes
 <2>1. DomainAct /\ DomainsVarTypes
   BY DEF HandleAddMailbox, HandleVerify, HandleDelete, HandleSubmit, DeleteMailbox, DomainsInv
 <2>2. domainActs' \in 0 .. MaxDomainActs BY <2>1 DEF DomainAct, DomainsVarTypes
 <2> QED BY <2>1, <2>2
<1>2. ASSUME NEW d \in CustomDomains, HandleSubmit(d)
      PROVE  DomainsInv'
 <2>1. PICK r : r = DomainAsk(domainActs', "add", d, "click") OBVIOUS
 <2>2. r \in DomainRequests /\ r.kind = "add" /\ r.of = d /\ ~r.served /\ r.mine
   BY <1>1, <2>1, AskIs DEF DomainKinds
 <2>3. Asks(r, {"add"}) /\ domainView = "list" BY <1>2, <2>1 DEF HandleSubmit, CanSubmit
 <2>4. Typed(r) /\ {"add"} \subseteq DomainFlags /\ \A f \in {"add"} : Ends(r, f)
       /\ r.kind \in DomainChanges
   BY <2>2 DEF Typed, DomainFlags, Ends, DomainChanges
 <2> QED BY <1>1, <2>2, <2>3, <2>4, AsksOK
<1>3. OnDetail => activeDomain.id \in CustomDomains
  BY <1>1 DEF OnDetail, DomainsVarTypes, DomainDetails
<1>4. CASE HandleVerify
 <2>1. PICK r : r = DomainAsk(domainActs', "verify", activeDomain.id, "click") OBVIOUS
 <2>2. Asks(r, {"verify"}) /\ domainView = "detail" /\ activeDomain.id \in CustomDomains
   BY <1>3, <1>4, <2>1 DEF HandleVerify, OnDetail
 <2>3. r \in DomainRequests /\ r.kind = "verify" /\ r.of = activeDomain.id /\ ~r.served /\ r.mine
   BY <1>1, <2>1, <2>2, AskIs DEF DomainKinds
 <2>4. Typed(r) /\ {"verify"} \subseteq DomainFlags /\ \A f \in {"verify"} : Ends(r, f)
       /\ r.kind \in DomainChanges
   BY <2>2, <2>3 DEF Typed, DomainFlags, Ends, DomainChanges
 <2> QED BY <1>1, <2>2, <2>3, <2>4, AsksOK
<1>5. CASE HandleDelete
 <2>1. PICK r : r = DomainAsk(domainActs', "delete", activeDomain.id, "click") OBVIOUS
 <2>2. Asks(r, {}) /\ domainView = "detail" /\ activeDomain.id \in CustomDomains
   BY <1>3, <1>5, <2>1 DEF HandleDelete, OnDetail
 <2>3. r \in DomainRequests /\ r.kind = "delete" /\ r.of = activeDomain.id /\ ~r.served
   BY <1>1, <2>1, <2>2, AskIs DEF DomainKinds
 <2>4. Typed(r) /\ {} \subseteq DomainFlags /\ r.kind \in DomainChanges
   BY <2>2, <2>3 DEF Typed, DomainChanges
 <2> QED BY <1>1, <2>2, <2>3, <2>4, AsksOK
<1>6. ASSUME NEW a, NEW k \in {"box", "unbox"}, a = DomainAsk(domainActs', k, activeDomain.id, "click"),
             NEW b \in 0 .. MaxDomainActs, NEW w \in {{}, {"box"}}, k = "unbox" => w = {},
             Asks([a EXCEPT !.box = b], w), OnDetail
      PROVE  DomainsInv'
 <2>1. activeDomain.id \in CustomDomains /\ domainView = "detail" BY <1>3, <1>6 DEF OnDetail
 <2>2. a \in DomainRequests /\ a.kind = k /\ a.of = activeDomain.id /\ ~a.served /\ a.mine
   BY <1>1, <1>6, <2>1, AskIs DEF DomainKinds
 <2>3. PICK r : r = [a EXCEPT !.box = b] OBVIOUS
 <2>4. r \in DomainRequests /\ r.kind = k /\ r.of = activeDomain.id
   BY <2>2, <2>3 DEF DomainRequests
 <2>5. r.served = a.served /\ r.mine = a.mine BY <2>2, <2>3 DEF DomainRequests
 <2>6. Typed(r) /\ w \subseteq DomainFlags /\ (\A f \in w : Ends(r, f)) /\ r.kind \in DomainChanges
   BY <2>1, <2>2, <2>4, <2>5, <1>6 DEF Typed, DomainFlags, Ends, DomainChanges
 <2>7. Asks(r, w) /\ ~r.served BY <1>6, <2>2, <2>3, <2>5
 <2>8. r.kind # "add" /\ r.kind # "list" BY <2>4
 <2> QED BY <1>1, <2>1, <2>4, <2>6, <2>7, <2>8, AsksOK
<1>7. CASE HandleAddMailbox
 <2>1. PICK a : a = DomainAsk(domainActs', "box", activeDomain.id, "click") OBVIOUS
 <2>2. PICK b : b = domainActs' OBVIOUS
 <2>3. Asks([a EXCEPT !.box = b], {"box"}) /\ OnDetail
   BY <1>7, <2>1, <2>2, Zenon DEF HandleAddMailbox, CanAddMailbox
 <2> QED BY <1>1, <1>6, <2>1, <2>2, <2>3
<1>8. ASSUME NEW b \in BoxesShown, DeleteMailbox(b)
      PROVE  DomainsInv'
 <2>1. PICK a : a = DomainAsk(domainActs', "unbox", activeDomain.id, "click") OBVIOUS
 <2>2. Asks([a EXCEPT !.box = b], {}) /\ OnDetail BY <1>8, <2>1, Zenon DEF DeleteMailbox
 <2>3. b \in 0 .. MaxDomainActs
   BY <1>1, <1>8, <2>2 DEF BoxesShown, DetailShown, DomainsVarTypes, DomainDetails
 <2> QED BY <1>1, <1>6, <2>1, <2>2, <2>3
<1> QED BY <1>2, <1>4, <1>5, <1>7, <1>8

LEMMA DomainDialogOK ==
    ASSUME DomainsInv, NEW from, NEW to \in {"none", "add", "box", "delete"}, TurnsDialog(from, to)
    PROVE  DomainsInv'
<1> USE MailDomainsAssumption DEF DomainsInv
<1>1. domainActs' \in 0 .. MaxDomainActs /\ domainActs' >= domainActs /\ popup' = to
  BY DEF TurnsDialog, DomainAct, DomainsVarTypes
<1>2. UNCHANGED <<held, spent, mailboxesOf, verified, domainList, activeDomain, dnsLogs, domainView,
                  activeDomainId, waiting, inFlight, detailTab, overtaken>>
  BY DEF TurnsDialog, hosted, storedVars
<1>3. Unverified' = Unverified /\ IsFiniteSet(inFlight') /\ Cardinality(Unverified) \in Nat
  BY <1>2, FS_Subset, FS_CardinalityType DEF Unverified, VerifiedCounts
<1>4. VerifiedCounts' BY <1>1, <1>2, <1>3, CountOK
<1>5. DomainsVarTypes' /\ FlagsWillEnd' BY <1>1, <1>2 DEF DomainsVarTypes, FlagsWillEnd
<1>6. RequestsInTurn' = RequestsInTurn /\ ListInTurn' = ListInTurn
  BY <1>2 DEF RequestsInTurn, ListInTurn, ListDomains, DomainResponse
<1>7. DetailInTurn' = DetailInTurn /\ LogsInTurn' = LogsInTurn /\ DetailNamed' = DetailNamed
  BY <1>2 DEF DetailInTurn, BehindBy, DomainResponse, LogsInTurn, DetailNamed
<1> QED BY <1>2, <1>4, <1>5, <1>6, <1>7

\* What the user does in a dialog: only which one is open changes.
LEMMA DialogsOK ==
    ASSUME DomainsInv,
           \/ OpenAdd \/ CloseAdd \/ OpenAddMailbox \/ CloseAddMailbox
           \/ OpenDeleteConfirm \/ CancelDelete
    PROVE  DomainsInv'
BY DomainDialogOK DEF OpenAdd, CloseAdd, OpenAddMailbox, CloseAddMailbox, OpenDeleteConfirm, CancelDelete

\* The flags that stay up, and that of a detail that appears.
LEMMA ShownUp ==
    ASSUME NEW v, NEW d, NEW rs, NEW w, NEW n, Shows(v, d, rs, w, n), n \in 0 .. MaxDomainActs,
           d \in CustomDomains \cup {NoCustom}
    PROVE  /\ \A f \in w : f \notin OfComponents => f \in waiting'
           /\ v # domainView /\ v = "detail" /\ d # NoCustom => "get" \in waiting'
<1>1. PICK ml : ml = IF v # domainView /\ v = "list" THEN {DomainAsk(n, "list", d, "mount")} ELSE {}
  OBVIOUS
<1>2. PICK ag : ag = DomainAsk(n, "get", d, "mount") OBVIOUS
<1>3. PICK mg : mg = IF v = "detail" /\ d # NoCustom /\ (v # domainView \/ d # activeDomainId)
                     THEN {ag} ELSE {}
  OBVIOUS
<1>4. ag.kind = "get" BY <1>2, AskIs DEF DomainKinds
<1>5. waiting' = {f \in w : ~(v # domainView /\ f \in OfComponents)} \cup {r.kind : r \in ml \cup mg}
  BY <1>1, <1>2, <1>3, Zenon DEF Shows
<1>6. \A f \in w : f \notin OfComponents => f \in waiting' BY <1>5, Zenon
<1>7. ASSUME v # domainView, v = "detail", d # NoCustom PROVE "get" \in waiting'
 <2>1. ag \in ml \cup mg BY <1>3, <1>7
 <2> QED BY <1>4, <1>5, <2>1, Zenon
<1> QED BY <1>6, <1>7

\* What the page shows, the rest of the variables included.
LEMMA ShowsTyped ==
    ASSUME DomainsVarTypes, VerifiedCounts, UNCHANGED hosted,
           NEW v \in {"list", "detail"}, NEW d \in CustomDomains \cup {NoCustom}, NEW rs, NEW w,
           NEW n \in 0 .. MaxDomainActs, Shows(v, d, rs, w, n),
           \A r \in rs : Typed(r), IsFiniteSet(rs), w \subseteq DomainFlags,
           \A f \in w : \E r \in rs : Ends(r, f),
           \A r \in rs : r.kind = "verify" /\ ~r.served => r \in inFlight,
           domainList' \subseteq ListedDomains, activeDomain' \in DomainDetails, dnsLogs' = dnsLogs,
           popup' \in {"none", "add", "box", "delete"}, overtaken' \in BOOLEAN,
           domainActs' \in 0 .. MaxDomainActs, domainActs' >= domainActs
    PROVE  DomainsVarTypes' /\ VerifiedCounts' /\ FlagsWillEnd'
<1>1. PICK A : A = {r \in rs : r.kind = "verify" /\ ~r.served} OBVIOUS
<1>2. /\ \A r \in inFlight' : Typed(r)
      /\ waiting' \subseteq DomainFlags /\ FlagsWillEnd' /\ IsFiniteSet(inFlight')
  BY ShowsOK
<1>3. IsFiniteSet(A) /\ Cardinality(Unverified') \in Nat /\ Cardinality(Unverified') <= Cardinality(A)
  BY <1>1, ShowsOK
<1>4. UNCHANGED <<held, spent, mailboxesOf, verified>> BY DEF hosted
<1>5. VerifiedCounts'
 <2>1. A \subseteq Unverified /\ IsFiniteSet(Unverified)
   BY <1>1, FS_Subset DEF Unverified, VerifiedCounts
 <2>2. Cardinality(A) <= Cardinality(Unverified) /\ Cardinality(A) \in Nat
       /\ Cardinality(Unverified) \in Nat
   BY <2>1, FS_Subset, FS_CardinalityType
 <2>3. Cardinality(Unverified') <= Cardinality(Unverified) BY <1>3, <2>2
 <2> QED BY <1>2, <1>3, <1>4, <2>3, CountOK
<1>6. domainView' \in {"list", "detail"} /\ activeDomainId' \in CustomDomains \cup {NoCustom}
      /\ detailTab' \in {"dns", "mailboxes", "logs"}
  BY DEF Shows, DomainsVarTypes
<1>7. inFlight' \subseteq DomainRequests /\ \A r \in inFlight' : r.kind # "list" => r.of \in CustomDomains
  BY <1>2 DEF Typed
<1>8. waiting' \subseteq {"list", "get", "logs", "add", "verify", "box"} BY <1>2 DEF DomainFlags
<1>9. DomainsVarTypes' BY <1>4, <1>6, <1>7, <1>8 DEF DomainsVarTypes
<1> QED BY <1>2, <1>5, <1>9

LEMMA HandleDomainClickOK ==
    ASSUME DomainsInv, NEW d \in CustomDomains, HandleDomainClick(d)
    PROVE  DomainsInv'
<1> USE MailDomainsAssumption DEF DomainsInv
<1>1. domainActs' \in 0 .. MaxDomainActs /\ domainActs' >= domainActs
  BY DEF HandleDomainClick, DomainAct, DomainsVarTypes
<1>2. PICK a : a = DomainAsk(domainActs', "get", d, "click") OBVIOUS
<1>3. a \in DomainRequests /\ a.kind = "get" /\ a.of = d /\ ~a.served
  BY <1>1, <1>2, AskIs DEF DomainKinds
<1>4. PICK n : n = domainActs' OBVIOUS
<1>5. PICK rs : rs = inFlight \cup {a} OBVIOUS
<1>6. PICK w : w = waiting \cup {"get"} OBVIOUS
<1>7. /\ Shows("detail", d, rs, w, n) /\ n \in 0 .. MaxDomainActs
      /\ UNCHANGED hosted /\ UNCHANGED <<domainList, activeDomain, dnsLogs, popup>>
      /\ domainView = "list" /\ (overtaken' <=> inFlight # {})
  BY <1>1, <1>2, <1>4, <1>5, <1>6 DEF HandleDomainClick, OnList, storedVars
<1>8. overtaken' \in BOOLEAN BY DEF HandleDomainClick
<1>9. DomainsVarTypes' /\ VerifiedCounts' /\ FlagsWillEnd'
 <2>1. \A r \in rs : Typed(r) BY <1>3, <1>5, RequestIs DEF Typed
 <2>2. IsFiniteSet(rs) /\ w \subseteq DomainFlags
   BY <1>5, <1>6, FS_AddElement DEF VerifiedCounts, DomainsVarTypes, DomainFlags
 <2>3. \A f \in w : \E r \in rs : Ends(r, f)
  <3>1. \A f \in waiting : \E r \in rs : Ends(r, f) BY <1>5 DEF FlagsWillEnd
  <3>2. Ends(a, "get") /\ a \in rs BY <1>3, <1>5 DEF Ends
  <3> QED BY <1>6, <3>1, <3>2
 <2>4. \A r \in rs : r.kind = "verify" /\ ~r.served => r \in inFlight BY <1>3, <1>5
 <2>5. domainList' \subseteq ListedDomains /\ activeDomain' \in DomainDetails
       /\ popup' \in {"none", "add", "box", "delete"}
   BY <1>7 DEF DomainsVarTypes
 <2> QED BY <1>1, <1>7, <1>8, <2>1, <2>2, <2>3, <2>4, <2>5, ShowsTyped
<1>10. ASSUME ~overtaken' PROVE RequestsInTurn' /\ ListInTurn' /\ DetailInTurn' /\ DetailNamed' /\ LogsInTurn'
 <2>1. rs = {a} BY <1>5, <1>7, <1>10
 <2>2. PICK al : al = DomainAsk(n, "list", d, "mount") OBVIOUS
 <2>3. PICK ag : ag = DomainAsk(n, "get", d, "mount") OBVIOUS
 <2>4. ag.kind = "get" /\ ag.of = d /\ ~ag.served BY <1>7, <2>3, AskIs DEF DomainKinds
 <2>5. /\ domainView' = "detail" /\ activeDomainId' = d /\ detailTab' = "dns"
       /\ \A q \in inFlight' : q = ag \/ q = DomainKept(a, "detail")
       /\ DomainKept(a, "detail") \in inFlight'
  <3>1. d # NoCustom OBVIOUS
  <3> QED BY <1>7, <2>1, <2>2, <2>3, <3>1, ShownRequests
 <2>6. DomainKept(a, "detail").kind = "get" /\ DomainKept(a, "detail").of = d /\ ~DomainKept(a, "detail").served
   BY <1>3, KeptIs DEF Alike
 <2>7. \A q \in inFlight' : q.kind = "get" /\ q.of = d /\ ~q.served BY <2>4, <2>5, <2>6
 <2>8. "get" \in waiting' BY <1>6, <1>7, ShownUp DEF OfComponents
 <2>9. RequestsInTurn' BY <2>5, <2>7 DEF RequestsInTurn, DomainChanges
 <2>10. \E q \in inFlight' : q.kind = "get" BY <2>5, <2>6
 <2>11. ListInTurn' /\ DetailInTurn' /\ DetailNamed' /\ LogsInTurn'
   BY <2>5, <2>8, <2>10 DEF ListInTurn, DetailInTurn, DetailNamed, LogsInTurn
 <2> QED BY <2>9, <2>11
<1> QED BY <1>9, <1>10

LEMMA BackToDomainsOK ==
    ASSUME DomainsInv, BackToDomains
    PROVE  DomainsInv'
<1> USE MailDomainsAssumption DEF DomainsInv
<1>1. domainActs' \in 0 .. MaxDomainActs /\ domainActs' >= domainActs
  BY DEF BackToDomains, DomainAct, DomainsVarTypes
<1>2. PICK n : n = domainActs' OBVIOUS
<1>3. PICK d : d = activeDomainId OBVIOUS
<1>4. PICK rs : rs = inFlight OBVIOUS
<1>5. PICK w : w = waiting OBVIOUS
<1>6. /\ Shows("list", d, rs, w, n) /\ n \in 0 .. MaxDomainActs /\ d \in CustomDomains \cup {NoCustom}
      /\ UNCHANGED hosted /\ UNCHANGED <<domainList, activeDomain, dnsLogs, popup>>
      /\ domainView = "detail"
  BY <1>1, <1>2, <1>3, <1>4, <1>5 DEF BackToDomains, OnDetail, storedVars, DomainsVarTypes
<1>7. overtaken' \in BOOLEAN /\ (~overtaken' => ~overtaken /\ ~Changes)
  BY DEF BackToDomains, DomainsVarTypes
<1>8. DomainsVarTypes' /\ VerifiedCounts' /\ FlagsWillEnd'
 <2>1. \A r \in rs : Typed(r) BY <1>4, RequestIs
 <2>2. IsFiniteSet(rs) /\ w \subseteq DomainFlags
   BY <1>4, <1>5 DEF VerifiedCounts, DomainsVarTypes, DomainFlags
 <2>3. \A f \in w : \E r \in rs : Ends(r, f) BY <1>4, <1>5 DEF FlagsWillEnd
 <2>4. domainList' \subseteq ListedDomains /\ activeDomain' \in DomainDetails
       /\ popup' \in {"none", "add", "box", "delete"}
   BY <1>6 DEF DomainsVarTypes
 <2> QED BY <1>1, <1>4, <1>6, <1>7, <2>1, <2>2, <2>3, <2>4, ShowsTyped
<1>9. ASSUME ~overtaken' PROVE RequestsInTurn' /\ ListInTurn' /\ DetailInTurn' /\ DetailNamed' /\ LogsInTurn'
 <2>1. RequestsInTurn /\ \A r \in rs : r.kind \in {"list", "get", "logs"} /\ r \in DomainRequests
   BY <1>4, <1>7, <1>9 DEF Changes, DomainsVarTypes
 <2>2. PICK al : al = DomainAsk(n, "list", d, "mount") OBVIOUS
 <2>3. PICK ag : ag = DomainAsk(n, "get", d, "mount") OBVIOUS
 <2>4. al.kind = "list" /\ ~al.served BY <1>6, <2>2, AskIs DEF DomainKinds
 <2>5. /\ domainView' = "list" /\ activeDomainId' = d /\ al \in inFlight'
       /\ \A q \in inFlight' : q = al \/ \E r \in rs : q = DomainKept(r, "list")
   BY <1>6, <2>2, <2>3, ShownRequests
 <2>6. ListDomains' = ListDomains /\ \A x : DomainResponse(x)' = DomainResponse(x)
   BY <1>6, SameAnswers
 <2>7. held' = held BY <1>6 DEF hosted
 <2>8. ASSUME NEW q \in inFlight'
       PROVE  /\ q.kind \in {"list", "get", "logs"}
              /\ q.kind # "list" => q.of = d
              /\ q.served /\ q.kind = "get" => q.of \in held /\ q.got = DomainResponse(q.of)
              /\ q.served /\ q.kind = "list" => q.list = ListDomains
  <3>1. CASE q = al BY <2>4, <3>1
  <3>2. ASSUME NEW r \in rs, q = DomainKept(r, "list") PROVE <2>8!2
   <4>1. /\ q.kind = r.kind /\ q.of = r.of /\ q.served = r.served /\ q.got = r.got /\ q.list = r.list
     BY <2>1, <3>2, KeptIs DEF Alike
   <4> QED BY <1>3, <1>4, <2>1, <4>1 DEF RequestsInTurn
  <3> QED BY <2>5, <2>8, <3>1, <3>2
 <2>9. RequestsInTurn' BY <1>3, <2>5, <2>6, <2>7, <2>8 DEF RequestsInTurn, DomainChanges
 <2>10. ListInTurn' /\ DetailInTurn' /\ DetailNamed' /\ LogsInTurn'
   BY <2>4, <2>5 DEF ListInTurn, DetailInTurn, DetailNamed, LogsInTurn
 <2> QED BY <2>9, <2>10
<1> QED BY <1>8, <1>9

\* What is left of the requests when r has ended.
LEMMA WithoutOne ==
    ASSUME DomainsVarTypes, VerifiedCounts, NEW r \in inFlight, NEW rs, rs = inFlight \ {r}
    PROVE  /\ \A q \in rs : Typed(q)
           /\ IsFiniteSet(rs)
           /\ \A q \in rs : q.kind = "verify" /\ ~q.served => q \in inFlight
<1>1. \A q \in rs : Typed(q) BY RequestIs
<1>2. IsFiniteSet(rs) BY FS_RemoveElement DEF VerifiedCounts
<1> QED BY <1>1, <1>2

LEMMA DialogAfterIs ==
    ASSUME DomainsVarTypes, NEW r, NEW v
    PROVE  DialogAfter(r, v) \in {"none", "add", "box", "delete"}
BY DEF DialogAfter, DomainsVarTypes

LEMMA DomainAddedOK ==
    ASSUME DomainsInv, NEW r \in inFlight, DomainAdded(r)
    PROVE  DomainsInv'
<1> USE MailDomainsAssumption DEF DomainsInv
<1>1. /\ Typed(r) /\ r.kind = "add" /\ r.of \in CustomDomains /\ r.got \in DomainDetails
      /\ r.n \in 0 .. MaxDomainActs
  BY RequestIs DEF DomainAdded, Typed
<1>2. PICK rs : rs = inFlight \ {r} OBVIOUS
<1>3. PICK w : w = Ended(r) OBVIOUS
<1>4. PICK d : d = r.of OBVIOUS
<1>5. PICK n : n = r.n OBVIOUS
<1>6. /\ Shows("detail", d, rs, w, n) /\ UNCHANGED hosted
      /\ UNCHANGED <<dnsLogs, domainActs, overtaken>>
      /\ d \in CustomDomains /\ n \in 0 .. MaxDomainActs
  BY <1>1, <1>2, <1>3, <1>4, <1>5 DEF DomainAdded
<1>7. DomainsVarTypes' /\ VerifiedCounts' /\ FlagsWillEnd'
 <2>1. domainList' \subseteq ListedDomains /\ activeDomain' \in DomainDetails
   BY <1>1 DEF DomainAdded, DomainsVarTypes, ListedDomains, DomainDetails
 <2>2. popup' \in {"none", "add", "box", "delete"} BY DialogAfterIs DEF DomainAdded
 <2>3. w \subseteq DomainFlags /\ \A f \in w : \E q \in rs : Ends(q, f) BY <1>2, <1>3, EndedFlags
 <2>4. overtaken' \in BOOLEAN /\ domainActs' \in 0 .. MaxDomainActs /\ domainActs' >= domainActs
   BY <1>6 DEF DomainsVarTypes
 <2>5. /\ \A q \in rs : Typed(q)
       /\ IsFiniteSet(rs)
       /\ \A q \in rs : q.kind = "verify" /\ ~q.served => q \in inFlight
   BY <1>2, WithoutOne
 <2> QED BY <1>6, <2>1, <2>2, <2>3, <2>4, <2>5, ShowsTyped
<1>8. ASSUME ~overtaken' PROVE RequestsInTurn' /\ ListInTurn' /\ DetailInTurn' /\ DetailNamed' /\ LogsInTurn'
 <2>1. rs = {} /\ domainView = "list" BY <1>1, <1>2, <1>6, <1>8 DEF RequestsInTurn, DomainChanges
 <2>2. PICK al : al = DomainAsk(n, "list", d, "mount") OBVIOUS
 <2>3. PICK ag : ag = DomainAsk(n, "get", d, "mount") OBVIOUS
 <2>4. ag.kind = "get" /\ ag.of = d /\ ~ag.served BY <1>6, <2>3, AskIs DEF DomainKinds
 <2>5. /\ domainView' = "detail" /\ activeDomainId' = d /\ detailTab' = "dns"
       /\ \A q \in inFlight' : q = ag
       /\ ag \in inFlight'
   BY <1>6, <2>1, <2>2, <2>3, ShownRequests
 <2>6. "get" \in waiting' BY <1>6, <2>1, ShownUp
 <2>7. RequestsInTurn' BY <2>4, <2>5 DEF RequestsInTurn, DomainChanges
 <2>8. ListInTurn' /\ DetailInTurn' /\ DetailNamed' /\ LogsInTurn'
   BY <2>4, <2>5, <2>6 DEF ListInTurn, DetailInTurn, DetailNamed, LogsInTurn
 <2> QED BY <2>7, <2>8
<1> QED BY <1>7, <1>8

LEMMA DomainDeletedOK ==
    ASSUME DomainsInv, NEW r \in inFlight, DomainDeleted(r)
    PROVE  DomainsInv'
<1> USE MailDomainsAssumption DEF DomainsInv
<1>1. r.kind = "delete" /\ r.n \in 0 .. MaxDomainActs BY RequestIs DEF DomainDeleted
<1>2. PICK rs : rs = inFlight \ {r} OBVIOUS
<1>3. PICK w : w = Ended(r) OBVIOUS
<1>4. PICK n : n = r.n OBVIOUS
<1>5. PICK d : d = NoCustom OBVIOUS
<1>6. /\ Shows("list", d, rs, w, n) /\ UNCHANGED hosted
      /\ UNCHANGED <<dnsLogs, domainActs, overtaken>>
      /\ n \in 0 .. MaxDomainActs /\ d \in CustomDomains \cup {NoCustom}
  BY <1>1, <1>2, <1>3, <1>4, <1>5 DEF DomainDeleted
<1>7. DomainsVarTypes' /\ VerifiedCounts' /\ FlagsWillEnd'
 <2>1. domainList' \subseteq ListedDomains /\ activeDomain' \in DomainDetails
   BY DEF DomainDeleted, DomainsVarTypes, NoActive, DomainDetails
 <2>2. popup' \in {"none", "add", "box", "delete"} BY DialogAfterIs DEF DomainDeleted
 <2>3. w \subseteq DomainFlags /\ \A f \in w : \E q \in rs : Ends(q, f) BY <1>2, <1>3, EndedFlags
 <2>4. overtaken' \in BOOLEAN /\ domainActs' \in 0 .. MaxDomainActs /\ domainActs' >= domainActs
   BY <1>6 DEF DomainsVarTypes
 <2>5. /\ \A q \in rs : Typed(q)
       /\ IsFiniteSet(rs)
       /\ \A q \in rs : q.kind = "verify" /\ ~q.served => q \in inFlight
   BY <1>2, WithoutOne
 <2> QED BY <1>6, <2>1, <2>2, <2>3, <2>4, <2>5, ShowsTyped
<1>8. ASSUME ~overtaken' PROVE RequestsInTurn' /\ ListInTurn' /\ DetailInTurn' /\ DetailNamed' /\ LogsInTurn'
 <2>1. rs = {} /\ domainView = "detail" BY <1>1, <1>2, <1>6, <1>8 DEF RequestsInTurn, DomainChanges
 <2>2. PICK al : al = DomainAsk(n, "list", d, "mount") OBVIOUS
 <2>3. PICK ag : ag = DomainAsk(n, "get", d, "mount") OBVIOUS
 <2>4. al.kind = "list" /\ ~al.served BY <1>6, <2>2, AskIs DEF DomainKinds
 <2>5. domainView' = "list" /\ al \in inFlight' /\ \A q \in inFlight' : q = al
   BY <1>6, <2>1, <2>2, <2>3, ShownRequests
 <2>6. RequestsInTurn' BY <2>4, <2>5 DEF RequestsInTurn, DomainChanges
 <2>7. ListInTurn' /\ DetailInTurn' /\ DetailNamed' /\ LogsInTurn'
   BY <2>4, <2>5 DEF ListInTurn, DetailInTurn, DetailNamed, LogsInTurn
 <2> QED BY <2>6, <2>7
<1> QED BY <1>7, <1>8

LEMMA DomainVerifiedOK ==
    ASSUME DomainsInv, NEW r \in inFlight, DomainVerified(r)
    PROVE  DomainsInv'
<1> USE MailDomainsAssumption DEF DomainsInv
<1>1. /\ r.kind = "verify" /\ r.of \in CustomDomains /\ r.got \in DomainDetails
      /\ r.n \in 0 .. MaxDomainActs /\ r.mine \in BOOLEAN
  BY RequestIs DEF DomainVerified, Typed
<1>2. PICK a : a = DomainAsk(r.n, "get", r.of, "verify") OBVIOUS
<1>3. a \in DomainRequests /\ a.kind = "get" /\ a.of = r.of /\ a.after = "verify" /\ ~a.served
  BY <1>1, <1>2, AskIs DEF DomainKinds
<1>4. PICK m : m = r.mine OBVIOUS
<1>5. PICK g : g = [a EXCEPT !.mine = m] OBVIOUS
<1>6. /\ g \in DomainRequests /\ g.kind = "get" /\ g.of = r.of /\ g.after = "verify"
      /\ g.served = a.served /\ g.mine = m
  BY <1>1, <1>3, <1>4, <1>5 DEF DomainRequests
<1>7. ~g.served /\ (g.mine <=> r.mine) BY <1>3, <1>4, <1>6
<1>8. PICK rest : rest = inFlight \ {r} OBVIOUS
<1>9. PICK rs : rs = rest \cup {g} OBVIOUS
<1>10. PICK w : w = waiting \cup {"get"} OBVIOUS
<1>11. PICK d : d = r.of OBVIOUS
<1>12. PICK n : n = r.n OBVIOUS
<1>13. PICK v : v = domainView OBVIOUS
<1>14. /\ Shows(v, d, rs, w, n) /\ UNCHANGED hosted
       /\ UNCHANGED <<dnsLogs, popup, domainActs, overtaken>>
       /\ d \in CustomDomains /\ n \in 0 .. MaxDomainActs /\ v \in {"list", "detail"}
  BY <1>1, <1>2, <1>4, <1>5, <1>8, <1>9, <1>10, <1>11, <1>12, <1>13 DEF DomainVerified, DomainsVarTypes
<1>15. DomainsVarTypes' /\ VerifiedCounts' /\ FlagsWillEnd'
 <2>1. domainList' \subseteq ListedDomains
   BY <1>1 DEF DomainVerified, DomainsVarTypes, ListedDomains, DomainDetails
 <2>2. activeDomain' \in DomainDetails
   BY <1>1 DEF DomainVerified, DomainsVarTypes, InDetail, NoActive, DomainDetails
 <2>3. w \subseteq DomainFlags BY <1>10 DEF DomainsVarTypes, DomainFlags
 <2>4. \A f \in w : \E q \in rs : Ends(q, f)
  <3>1. Ends(g, "get") /\ g \in rs BY <1>6, <1>9 DEF Ends
  <3>2. ASSUME NEW f \in waiting PROVE \E q \in rs : Ends(q, f)
   <4>1. PICK q \in inFlight : Ends(q, f) BY DEF FlagsWillEnd
   <4>2. CASE q # r BY <1>8, <1>9, <4>1, <4>2
   <4>3. CASE q = r
    <5>1. f = "verify" /\ r.mine BY <1>1, <4>1, <4>3 DEF Ends, DomainsVarTypes
    <5>2. Ends(g, "verify") BY <1>6, <1>7, <5>1 DEF Ends
    <5> QED BY <1>9, <5>1, <5>2
   <4> QED BY <4>2, <4>3
  <3> QED BY <1>10, <3>1, <3>2
 <2>5. overtaken' \in BOOLEAN /\ domainActs' \in 0 .. MaxDomainActs /\ domainActs' >= domainActs
       /\ popup' \in {"none", "add", "box", "delete"}
   BY <1>14 DEF DomainsVarTypes
 <2>6. /\ \A q \in rs : Typed(q)
       /\ IsFiniteSet(rs)
       /\ \A q \in rs : q.kind = "verify" /\ ~q.served => q \in inFlight
  <3>1. /\ \A q \in rest : Typed(q)
        /\ IsFiniteSet(rest)
        /\ \A q \in rest : q.kind = "verify" /\ ~q.served => q \in inFlight
    BY <1>8, WithoutOne
  <3>2. Typed(g) /\ g.kind # "verify" BY <1>1, <1>6 DEF Typed
  <3> QED BY <1>9, <3>1, <3>2, FS_AddElement
 <2> QED BY <1>14, <2>1, <2>2, <2>3, <2>4, <2>5, <2>6, ShowsTyped
<1>16. ASSUME ~overtaken' PROVE RequestsInTurn' /\ ListInTurn' /\ DetailInTurn' /\ DetailNamed' /\ LogsInTurn'
 <2>1. /\ rest = {} /\ v = "detail" /\ inFlight = {r} /\ d = activeDomainId
   BY <1>1, <1>8, <1>11, <1>13, <1>14, <1>16 DEF RequestsInTurn, DomainChanges
 <2>2. PICK al : al = DomainAsk(n, "list", d, "mount") OBVIOUS
 <2>3. PICK ag : ag = DomainAsk(n, "get", d, "mount") OBVIOUS
 <2>4. ag.kind = "get" /\ ag.of = d /\ ~ag.served BY <1>14, <2>3, AskIs DEF DomainKinds
 <2>5. rs = {g} BY <1>9, <2>1
 <2>6. /\ domainView' = "detail" /\ activeDomainId' = d /\ detailTab' = detailTab
       /\ \A q \in inFlight' : q = ag \/ q = DomainKept(g, v)
       /\ DomainKept(g, v) \in inFlight'
   BY <1>13, <1>14, <2>1, <2>2, <2>3, <2>5, ShownRequests
 <2>7. DomainKept(g, v).kind = "get" /\ DomainKept(g, v).of = d /\ ~DomainKept(g, v).served
   BY <1>6, <1>7, <1>11, KeptIs DEF Alike
 <2>8. \A q \in inFlight' : q.kind = "get" /\ q.of = d /\ ~q.served BY <2>4, <2>6, <2>7
 <2>9. "get" \in waiting' BY <1>10, <1>14, ShownUp DEF OfComponents
 <2>10. RequestsInTurn' BY <2>6, <2>8 DEF RequestsInTurn, DomainChanges
 <2>11. \E q \in inFlight' : q.kind = "get" BY <2>6, <2>7
 <2>12. ListInTurn' /\ DetailInTurn' /\ DetailNamed'
   BY <2>6, <2>9, <2>11 DEF ListInTurn, DetailInTurn, DetailNamed
 <2>13. LogsInTurn' BY <1>1, <1>13, <1>14, <1>16, <2>1, <2>6 DEF LogsInTurn
 <2> QED BY <2>10, <2>12, <2>13
<1> QED BY <1>15, <1>16

\* What the server changes keeps its types, and a verification it makes is not counted twice.
LEMMA HostedOK ==
    ASSUME DomainsVarTypes, VerifiedCounts, NEW r \in inFlight, ~r.served, HostedChange(r),
           IsFiniteSet(inFlight'), Unverified' \subseteq Unverified \ {r}, domainActs' = domainActs
    PROVE  /\ VerifiedCounts'
           /\ held' \subseteq spent' /\ spent' \subseteq CustomDomains
           /\ mailboxesOf' \in [CustomDomains -> SUBSET (0 .. MaxDomainActs)]
           /\ verified' \in [CustomDomains -> 0 .. MaxDomainActs]
<1> USE MailDomainsAssumption
<1>1. /\ Typed(r) /\ r.kind \in DomainKinds /\ r.box \in 0 .. MaxDomainActs BY RequestIs
<1>2. held \subseteq spent /\ spent \subseteq CustomDomains BY DEF DomainsVarTypes
<1>3. r.kind # "list" => r.of \in CustomDomains BY <1>1 DEF Typed
<1>4. held' \subseteq spent' /\ spent' \subseteq CustomDomains
  BY <1>1, <1>2, <1>3 DEF HostedChange, hosted, DomainKinds
<1>5. mailboxesOf' \in [CustomDomains -> SUBSET (0 .. MaxDomainActs)]
 <2>1. mailboxesOf \in [CustomDomains -> SUBSET (0 .. MaxDomainActs)] BY DEF DomainsVarTypes
 <2>2. \/ mailboxesOf' = mailboxesOf
       \/ r.kind = "box" /\ mailboxesOf' = [mailboxesOf EXCEPT ![r.of] = @ \cup {r.box}]
       \/ r.kind = "unbox" /\ mailboxesOf' = [mailboxesOf EXCEPT ![r.of] = @ \ {r.box}]
   BY <1>1 DEF HostedChange, hosted, DomainKinds
 <2> QED BY <1>1, <1>3, <2>1, <2>2
<1>6. IsFiniteSet(Unverified) /\ IsFiniteSet(Unverified')
  BY FS_Subset DEF VerifiedCounts, Unverified
<1>7. /\ Cardinality(Unverified) \in Nat /\ Cardinality(Unverified') \in Nat
      /\ Cardinality(Unverified') <= Cardinality(Unverified)
  BY <1>6, FS_Subset, FS_CardinalityType
<1>8. /\ verified \in [CustomDomains -> 0 .. MaxDomainActs] /\ domainActs \in 0 .. MaxDomainActs
      /\ \A d \in CustomDomains : verified[d] + Cardinality(Unverified) <= domainActs
  BY DEF DomainsVarTypes, VerifiedCounts
<1>9. CASE r.kind = "verify"
 <2>1. verified' = [verified EXCEPT ![r.of] = @ + 1] /\ r.of \in CustomDomains
   BY <1>3, <1>9 DEF HostedChange
 <2>2. r \in Unverified BY <1>9 DEF Unverified
 <2>3. Cardinality(Unverified') + 1 <= Cardinality(Unverified) BY <1>6, <2>2, OneLess
 <2>4. ASSUME NEW d \in CustomDomains
       PROVE  /\ verified'[d] \in Nat /\ verified'[d] + Cardinality(Unverified') <= domainActs
              /\ verified'[d] \in 0 .. MaxDomainActs
   BY <1>7, <1>8, <2>1, <2>3
 <2>5. verified' \in [CustomDomains -> 0 .. MaxDomainActs] BY <1>8, <2>1, <2>4
 <2>6. VerifiedCounts' BY <2>4 DEF VerifiedCounts
 <2> QED BY <1>4, <1>5, <2>5, <2>6
<1>10. CASE r.kind # "verify"
 <2>1. verified' = verified BY <1>1, <1>10 DEF HostedChange, hosted, DomainKinds
 <2>2. VerifiedCounts' BY <1>7, <1>8, <2>1 DEF VerifiedCounts
 <2> QED BY <1>4, <1>5, <1>8, <2>1, <2>2
<1> QED BY <1>9, <1>10

\* The answer of the server to a request.
LEMMA AnswerIs ==
    ASSUME DomainsVarTypes, NEW r \in inFlight, DomainServed(r),
           verified' \in [CustomDomains -> 0 .. MaxDomainActs]
    PROVE  \E q \in DomainRequests :
              /\ inFlight' = (inFlight \ {r}) \cup {q} /\ Alike(q, r) /\ (q.mine <=> r.mine) /\ q.served
              /\ r.kind = "get" => q.got = [DomainResponse(r.of) EXCEPT !.checks = verified'[r.of]]
              /\ r.kind = "list" => q.list = ListDomains
<1>1. Typed(r) BY RequestIs
<1>2. PICK g : g = IF r.kind \in {"get", "add", "verify"}
                   THEN [DomainResponse(r.of) EXCEPT !.checks = verified'[r.of]]
                   ELSE NoActive
  OBVIOUS
<1>3. PICK l : l = IF r.kind = "list" THEN ListDomains ELSE {} OBVIOUS
<1>4. g \in DomainDetails
 <2>1. CASE r.kind \in {"get", "add", "verify"}
  <3>1. r.of \in CustomDomains BY <1>1, <2>1 DEF Typed
  <3>2. PICK k : k = verified'[r.of] OBVIOUS
  <3>3. k \in 0 .. MaxDomainActs /\ mailboxesOf[r.of] \in SUBSET (0 .. MaxDomainActs)
    BY <3>1, <3>2 DEF DomainsVarTypes
  <3>4. g = [id |-> r.of, checks |-> k, records |-> r.of, mailboxes |-> mailboxesOf[r.of]]
    BY <1>2, <2>1, <3>2 DEF DomainResponse
  <3> QED BY <3>1, <3>3, <3>4 DEF DomainDetails
 <2>2. CASE r.kind \notin {"get", "add", "verify"}
   BY <1>2, <2>2, MailDomainsAssumption DEF NoActive, DomainDetails
 <2> QED BY <2>1, <2>2
<1>5. l \subseteq ListedDomains BY <1>3 DEF DomainsVarTypes, ListDomains, ListedDomains
<1>6. PICK t \in BOOLEAN : t = TRUE OBVIOUS
<1>7. \E q : /\ q = [r EXCEPT !.served = t, !.got = g, !.list = l]
             /\ q \in DomainRequests /\ Alike(q, r) /\ q.mine = r.mine
             /\ q.served = t /\ q.got = g /\ q.list = l
 <2>1. r \in DomainRequests BY <1>1 DEF Typed
 <2>2. PICK p : p = [r EXCEPT !.served = t] OBVIOUS
 <2>3. p \in DomainRequests /\ Alike(p, r) /\ p.mine = r.mine /\ p.served = t
   BY <2>1, <2>2 DEF DomainRequests, Alike
 <2>4. PICK o : o = [p EXCEPT !.got = g] OBVIOUS
 <2>5. o \in DomainRequests /\ Alike(o, r) /\ o.mine = r.mine /\ o.served = t /\ o.got = g
   BY <1>4, <2>3, <2>4 DEF DomainRequests, Alike
 <2>6. PICK q : q = [o EXCEPT !.list = l] OBVIOUS
 <2>7. /\ q \in DomainRequests /\ Alike(q, r) /\ q.mine = r.mine
       /\ q.served = t /\ q.got = g /\ q.list = l
   BY <1>5, <2>5, <2>6 DEF DomainRequests, Alike
 <2>8. q = [r EXCEPT !.served = t, !.got = g, !.list = l] BY <2>2, <2>4, <2>6, Zenon
 <2> QED BY <2>7, <2>8, Zenon
<1>8. PICK q : /\ q = [r EXCEPT !.served = t, !.got = g, !.list = l]
               /\ q \in DomainRequests /\ Alike(q, r) /\ (q.mine <=> r.mine)
               /\ q.served /\ q.got = g /\ q.list = l
  BY <1>6, <1>7, Zenon
<1>9. inFlight' = (inFlight \ {r}) \cup {q} BY <1>2, <1>3, <1>6, <1>8, Zenon DEF DomainServed
<1>10. /\ r.kind = "get" => q.got = [DomainResponse(r.of) EXCEPT !.checks = verified'[r.of]]
       /\ r.kind = "list" => q.list = ListDomains
  BY <1>2, <1>3, <1>8
<1> QED BY <1>8, <1>9, <1>10

LEMMA DomainServedOK ==
    ASSUME DomainsInv, NEW r \in inFlight, DomainServed(r)
    PROVE  DomainsInv'
<1> USE MailDomainsAssumption DEF DomainsInv
<1>1. /\ ~r.served /\ HostedChange(r)
      /\ UNCHANGED <<domainList, activeDomain, dnsLogs, domainView, activeDomainId, waiting, popup,
                     detailTab, domainActs, overtaken>>
  BY DEF DomainServed, storedVars
<1>2. Typed(r) /\ r.kind \in DomainKinds BY RequestIs
<1>3. IsFiniteSet(inFlight') /\ Unverified' \subseteq Unverified \ {r}
 <2>1. PICK a : inFlight' = (inFlight \ {r}) \cup {a} /\ a.served
  <3>1. PICK g : g = IF r.kind \in {"get", "add", "verify"}
                     THEN [DomainResponse(r.of) EXCEPT !.checks = verified'[r.of]]
                     ELSE NoActive
    OBVIOUS
  <3>2. PICK l : l = IF r.kind = "list" THEN ListDomains ELSE {} OBVIOUS
  <3>3. PICK t \in BOOLEAN : t = TRUE OBVIOUS
  <3>4. PICK a : a = [r EXCEPT !.served = t, !.got = g, !.list = l] OBVIOUS
  <3>5. a.served = t BY <1>2, <3>4 DEF Typed, DomainRequests
  <3>6. inFlight' = (inFlight \ {r}) \cup {a} BY <3>1, <3>2, <3>3, <3>4, Zenon DEF DomainServed
  <3> QED BY <3>3, <3>5, <3>6
 <2>2. IsFiniteSet(inFlight \ {r}) BY FS_RemoveElement DEF VerifiedCounts
 <2>3. IsFiniteSet(inFlight') BY <2>1, <2>2, FS_AddElement
 <2> QED BY <2>1, <2>3 DEF Unverified
<1>4. /\ VerifiedCounts'
      /\ held' \subseteq spent' /\ spent' \subseteq CustomDomains
      /\ mailboxesOf' \in [CustomDomains -> SUBSET (0 .. MaxDomainActs)]
      /\ verified' \in [CustomDomains -> 0 .. MaxDomainActs]
  BY <1>1, <1>3, HostedOK
<1>5. PICK q \in DomainRequests :
         /\ inFlight' = (inFlight \ {r}) \cup {q} /\ Alike(q, r) /\ (q.mine <=> r.mine) /\ q.served
         /\ r.kind = "get" => q.got = [DomainResponse(r.of) EXCEPT !.checks = verified'[r.of]]
         /\ r.kind = "list" => q.list = ListDomains
  BY <1>4, AnswerIs
<1>6. DomainsVarTypes'
 <2>1. inFlight' \subseteq DomainRequests /\ \A p \in inFlight' : p.kind # "list" => p.of \in CustomDomains
   BY <1>2, <1>5 DEF DomainsVarTypes, Typed, Alike
 <2> QED BY <1>1, <1>4, <2>1 DEF DomainsVarTypes
<1>7. FlagsWillEnd'
 <2> SUFFICES ASSUME NEW f \in waiting PROVE \E p \in inFlight' : Ends(p, f)
   BY <1>1 DEF FlagsWillEnd
 <2>1. PICK p \in inFlight : Ends(p, f) BY DEF FlagsWillEnd
 <2>2. Ends(r, f) => Ends(q, f) BY <1>5 DEF Ends, Alike, DomainsVarTypes
 <2> QED BY <1>5, <2>1, <2>2
<1>8. ASSUME ~overtaken' PROVE RequestsInTurn' /\ ListInTurn' /\ DetailInTurn' /\ DetailNamed' /\ LogsInTurn'
 <2>1. RequestsInTurn /\ ListInTurn /\ DetailInTurn /\ DetailNamed /\ LogsInTurn BY <1>1, <1>8
 <2>2. r.kind \in DomainChanges => inFlight = {r} /\ inFlight' = {q}
   BY <1>5, <2>1 DEF RequestsInTurn
 <2>3. r.kind \notin DomainChanges => UNCHANGED hosted /\ r.kind \in {"list", "get", "logs"}
   BY <1>1, <1>2 DEF HostedChange, DomainChanges, DomainKinds
 <2>4. r.kind \notin DomainChanges =>
         ListDomains' = ListDomains /\ held' = held /\ \A d : DomainResponse(d)' = DomainResponse(d)
   BY <2>3, SameAnswers DEF hosted
 <2>5. RequestsInTurn'
  <3>1. CASE r.kind \in DomainChanges
    BY <1>1, <1>5, <2>1, <2>2, <3>1 DEF RequestsInTurn, Alike, DomainChanges
  <3>2. CASE r.kind \notin DomainChanges
   <4>1. r.kind = "get" => r.of \in held /\ q.got = DomainResponse(r.of)
    <5>1. ASSUME r.kind = "get" PROVE r.of \in held /\ verified' = verified /\ r.of \in CustomDomains
      BY <1>1, <1>2, <5>1 DEF HostedChange, hosted, Typed
    <5> QED BY <1>5, <5>1 DEF DomainResponse
   <4>2. \A p \in inFlight' : p.kind \notin DomainChanges
    <5>1. \A p \in inFlight : p.kind \notin DomainChanges BY <2>1, <3>2 DEF RequestsInTurn
    <5> QED BY <1>5, <3>2, <5>1 DEF Alike
   <4>3. \A p \in inFlight' : p.kind \notin {"list", "add"} => p.of = activeDomainId
     BY <1>5, <2>1 DEF RequestsInTurn, Alike
   <4>4. \A p \in inFlight' : p.served /\ p.kind = "get" => p.of \in held /\ p.got = DomainResponse(p.of)
     BY <1>5, <2>1, <4>1 DEF RequestsInTurn, Alike
   <4>5. \A p \in inFlight' : p.served /\ p.kind = "list" => p.list = ListDomains
     BY <1>5, <2>1 DEF RequestsInTurn, Alike
   <4> QED BY <1>1, <2>4, <3>2, <4>2, <4>3, <4>4, <4>5 DEF RequestsInTurn
  <3> QED BY <3>1, <3>2
 <2>6. ListInTurn'
  <3> SUFFICES ASSUME domainView = "list"
               PROVE  (\E p \in inFlight' : p.kind \in {"list", "add"}) \/ domainList = ListDomains'
    BY <1>1 DEF ListInTurn
  <3>1. CASE \E p \in inFlight : p.kind \in {"list", "add"} BY <1>5, <3>1 DEF Alike
  <3>2. CASE domainList = ListDomains /\ r.kind \notin DomainChanges BY <2>4, <3>2
  <3>3. CASE r.kind \in DomainChanges
    BY <2>1, <3>3 , <1>5 DEF RequestsInTurn, Alike, DomainChanges
  <3> QED BY <2>1, <3>1, <3>2, <3>3 DEF ListInTurn
 <2>7. DetailInTurn'
  <3> SUFFICES ASSUME domainView = "detail"
               PROVE  \/ \E p \in inFlight' : p.kind \in {"get", "delete", "verify"}
                      \/ \E p \in inFlight' : p.kind \in {"box", "unbox"} /\ p.served /\ BehindBy(p)'
                      \/ /\ activeDomainId \in held' /\ activeDomain = DomainResponse(activeDomainId)'
                         /\ \A p \in inFlight' : p.kind \in {"box", "unbox"} => ~p.served
   <4>1. CASE \E p \in inFlight' : p.kind \in {"box", "unbox"} /\ p.served /\ BehindBy(p)'
     BY <4>1 DEF DetailInTurn, BehindBy
   <4> QED BY <1>1, <4>1 DEF DetailInTurn
  <3>1. CASE \E p \in inFlight : p.kind \in {"get", "delete", "verify"} BY <1>5, <3>1 DEF Alike
  <3>2. CASE \E p \in inFlight : p.kind \in {"box", "unbox"} /\ p.served /\ BehindBy(p)
   <4>1. PICK p \in inFlight : p.kind \in {"box", "unbox"} /\ p.served BY <3>2
   <4>2. inFlight = {p} BY <2>1, <4>1 DEF RequestsInTurn, DomainChanges
   <4> QED BY <1>1, <4>1, <4>2
  <3>3. ASSUME activeDomainId \in held, activeDomain = DomainResponse(activeDomainId),
               \A p \in inFlight : p.kind \in {"box", "unbox"} => ~p.served
        PROVE  \/ \E p \in inFlight' : p.kind \in {"get", "delete", "verify"}
               \/ \E p \in inFlight' : p.kind \in {"box", "unbox"} /\ p.served /\ BehindBy(p)'
               \/ /\ activeDomainId \in held' /\ activeDomain = DomainResponse(activeDomainId)'
                  /\ \A p \in inFlight' : p.kind \in {"box", "unbox"} => ~p.served
   <4>1. CASE r.kind \notin DomainChanges
    <5>1. DomainResponse(activeDomainId)' = DomainResponse(activeDomainId)
      BY <1>1, <2>3, <4>1 DEF DomainResponse, hosted
    <5>2. q.kind \notin {"box", "unbox"} BY <1>5, <4>1 DEF Alike, DomainChanges
    <5> QED BY <1>5, <2>4, <3>3, <4>1, <5>1, <5>2
   <4>2. CASE r.kind \in {"box", "unbox"}
    <5>1. /\ r.of = activeDomainId /\ r.of \in held /\ held' = held /\ verified' = verified
          /\ mailboxesOf' = [mailboxesOf EXCEPT ![r.of] =
                                IF r.kind = "box" THEN @ \cup {r.box} ELSE @ \ {r.box}]
      BY <1>1, <2>1, <4>2 DEF HostedChange, RequestsInTurn
    <5>2. activeDomainId \in CustomDomains /\ mailboxesOf \in [CustomDomains -> SUBSET (0 .. MaxDomainActs)]
      BY <5>1 DEF DomainsVarTypes
    <5>3. mailboxesOf'[activeDomainId] = IF r.kind = "box" THEN mailboxesOf[activeDomainId] \cup {r.box}
                                         ELSE mailboxesOf[activeDomainId] \ {r.box}
      BY <5>1, <5>2
    <5>4. /\ activeDomain.id = activeDomainId /\ activeDomain.records = activeDomainId
          /\ activeDomain.checks = verified[activeDomainId]
          /\ activeDomain.mailboxes = mailboxesOf[activeDomainId]
      BY <3>3 DEF DomainResponse
    <5>5. BehindBy(q)' BY <1>1, <1>5, <5>1, <5>3, <5>4 DEF BehindBy, Alike
    <5> QED BY <1>5, <4>2, <5>5 DEF Alike
   <4>3. CASE r.kind \in {"delete", "verify"} BY <1>5, <4>3 DEF Alike
   <4>4. CASE r.kind = "add" BY <2>1, <4>4 DEF RequestsInTurn, DomainChanges
   <4> QED BY <4>1, <4>2, <4>3, <4>4 DEF DomainChanges
  <3> QED BY <2>1, <3>1, <3>2, <3>3 DEF DetailInTurn
 <2>8. DetailNamed' /\ LogsInTurn' BY <1>1, <1>5, <2>1 DEF DetailNamed, LogsInTurn, Alike
 <2> QED BY <2>5, <2>6, <2>7, <2>8
<1> QED BY <1>4, <1>6, <1>7, <1>8

LEMMA DomainsLoadAnsweredOK ==
    ASSUME DomainsInv, NEW r \in inFlight, DomainsLoadAnswered(r)
    PROVE  DomainsInv'
<1> USE MailDomainsAssumption DEF DomainsInv
<1>1. /\ r.served /\ r.kind \in {"list", "get", "logs"} /\ inFlight' = inFlight \ {r}
      /\ waiting' = Ended(r)
      /\ UNCHANGED <<held, spent, mailboxesOf, verified, domainView, activeDomainId, popup, detailTab,
                     domainActs, overtaken>>
  BY DEF DomainsLoadAnswered, hosted
<1>2. /\ domainList' = IF r.kind = "list" THEN r.list ELSE domainList
      /\ activeDomain' = IF r.kind = "get" THEN r.got ELSE activeDomain
      /\ dnsLogs' = IF r.kind = "logs" THEN r.of ELSE dnsLogs
  BY DEF DomainsLoadAnswered
<1>3. DomainsVarTypes'
 <2>1. domainList' \subseteq ListedDomains /\ activeDomain' \in DomainDetails
       /\ dnsLogs' \in CustomDomains \cup {NoCustom}
   BY <1>2, RequestIs DEF DomainsVarTypes
 <2>2. waiting' \subseteq {"list", "get", "logs", "add", "verify", "box"}
   BY <1>1, EndedFlags DEF DomainFlags
 <2>3. inFlight' \subseteq DomainRequests /\ \A p \in inFlight' : p.kind # "list" => p.of \in CustomDomains
   BY <1>1 DEF DomainsVarTypes
 <2> QED BY <1>1, <2>1, <2>2, <2>3 DEF DomainsVarTypes
<1>4. VerifiedCounts'
 <2>1. IsFiniteSet(inFlight') /\ Unverified' \subseteq Unverified /\ IsFiniteSet(Unverified)
   BY <1>1, FS_Subset DEF VerifiedCounts, Unverified
 <2>2. Cardinality(Unverified') \in Nat /\ Cardinality(Unverified') <= Cardinality(Unverified)
   BY <2>1, FS_Subset, FS_CardinalityType
 <2>3. domainActs' \in 0 .. MaxDomainActs /\ domainActs' >= domainActs BY <1>1 DEF DomainsVarTypes
 <2> QED BY <1>1, <2>1, <2>2, <2>3, CountOK
<1>5. FlagsWillEnd' BY <1>1, EndedFlags DEF FlagsWillEnd
<1>6. ASSUME ~overtaken' PROVE RequestsInTurn' /\ ListInTurn' /\ DetailInTurn' /\ DetailNamed' /\ LogsInTurn'
 <2>1. RequestsInTurn /\ ListInTurn /\ DetailInTurn /\ DetailNamed /\ LogsInTurn BY <1>1, <1>6
 <2>2. ListDomains' = ListDomains /\ \A d : DomainResponse(d)' = DomainResponse(d)
   BY <1>1, SameAnswers DEF hosted
 <2>3. \A p \in inFlight : p.kind \notin DomainChanges
   BY <1>1, <2>1 DEF RequestsInTurn, DomainChanges
 <2>4. RequestsInTurn' BY <1>1, <2>1, <2>2, <2>3 DEF RequestsInTurn
 <2>5. ListInTurn'
  <3>1. CASE r.kind = "list" BY <1>1, <1>2, <2>1, <2>2, <3>1 DEF ListInTurn, RequestsInTurn
  <3>2. CASE r.kind # "list" BY <1>1, <1>2, <2>1, <2>2, <3>2 DEF ListInTurn
  <3> QED BY <3>1, <3>2
 <2>6. DetailInTurn'
  <3>1. CASE r.kind = "get"
   <4>1. activeDomainId \in held /\ activeDomain' = DomainResponse(activeDomainId)
     BY <1>1, <1>2, <2>1, <3>1 DEF RequestsInTurn
   <4>2. \A p \in inFlight' : p.kind \notin {"box", "unbox"} BY <1>1, <2>3 DEF DomainChanges
   <4>3. DomainResponse(activeDomainId)' = DomainResponse(activeDomainId)
     BY <1>1 DEF DomainResponse
   <4> QED BY <1>1, <4>1, <4>2, <4>3 DEF DetailInTurn
  <3>2. CASE r.kind # "get"
   <4>1. DomainResponse(activeDomainId)' = DomainResponse(activeDomainId)
     BY <1>1 DEF DomainResponse
   <4>2. \A p \in inFlight : p.kind \notin {"box", "unbox", "delete", "verify"}
     BY <2>3 DEF DomainChanges
   <4> QED BY <1>1, <1>2, <2>1, <3>2, <4>1, <4>2 DEF DetailInTurn
  <3> QED BY <3>1, <3>2
 <2>7. DetailNamed'
  <3>1. CASE r.kind = "get"
   <4>1. activeDomain' = DomainResponse(activeDomainId)
     BY <1>1, <1>2, <2>1, <3>1 DEF RequestsInTurn
   <4> QED BY <1>1, <4>1 DEF DetailNamed, DomainResponse
  <3>2. CASE r.kind # "get"
   <4>1. "get" \in waiting => "get" \in waiting' BY <1>1, <3>2 DEF Ended, OfComponents
   <4> QED BY <1>1, <1>2, <2>1, <3>2, <4>1 DEF DetailNamed
  <3> QED BY <3>1, <3>2
 <2>8. LogsInTurn' BY <1>1, <1>2, <2>1 DEF LogsInTurn, RequestsInTurn
 <2> QED BY <2>4, <2>5, <2>6, <2>7, <2>8
<1> QED BY <1>3, <1>4, <1>5, <1>6

LEMMA MailboxChangedOK ==
    ASSUME DomainsInv, NEW r \in inFlight, MailboxChanged(r)
    PROVE  DomainsInv'
<1> USE MailDomainsAssumption DEF DomainsInv
<1>1. /\ r.served /\ r.kind \in {"box", "unbox"} /\ inFlight' = inFlight \ {r}
      /\ waiting' = Ended(r) /\ activeDomain' = InDetail(r)
      /\ UNCHANGED <<held, spent, mailboxesOf, verified, domainView, domainList, activeDomainId, dnsLogs,
                     detailTab, domainActs, overtaken>>
  BY DEF MailboxChanged, hosted
<1>2. DomainsVarTypes'
 <2>1. activeDomain' \in DomainDetails
  <3>1. activeDomain \in DomainDetails /\ r.box \in 0 .. MaxDomainActs
    BY RequestIs DEF DomainsVarTypes
  <3> QED BY <1>1, <3>1 DEF InDetail, DomainDetails
 <2>2. waiting' \subseteq {"list", "get", "logs", "add", "verify", "box"}
   BY <1>1, EndedFlags DEF DomainFlags
 <2>3. inFlight' \subseteq DomainRequests /\ \A p \in inFlight' : p.kind # "list" => p.of \in CustomDomains
   BY <1>1 DEF DomainsVarTypes
 <2>4. popup' \in {"none", "add", "box", "delete"} BY DialogAfterIs DEF MailboxChanged
 <2> QED BY <1>1, <2>1, <2>2, <2>3, <2>4 DEF DomainsVarTypes
<1>3. VerifiedCounts'
 <2>1. IsFiniteSet(inFlight') /\ Unverified' \subseteq Unverified /\ IsFiniteSet(Unverified)
   BY <1>1, FS_Subset DEF VerifiedCounts, Unverified
 <2>2. Cardinality(Unverified') \in Nat /\ Cardinality(Unverified') <= Cardinality(Unverified)
   BY <2>1, FS_Subset, FS_CardinalityType
 <2>3. domainActs' \in 0 .. MaxDomainActs /\ domainActs' >= domainActs BY <1>1 DEF DomainsVarTypes
 <2> QED BY <1>1, <2>1, <2>2, <2>3, CountOK
<1>4. FlagsWillEnd' BY <1>1, EndedFlags DEF FlagsWillEnd
<1>5. ASSUME ~overtaken' PROVE RequestsInTurn' /\ ListInTurn' /\ DetailInTurn' /\ DetailNamed' /\ LogsInTurn'
 <2>1. RequestsInTurn /\ DetailInTurn /\ LogsInTurn BY <1>1, <1>5
 <2>2. inFlight = {r} /\ inFlight' = {} /\ domainView = "detail"
   BY <1>1, <2>1 DEF RequestsInTurn, DomainChanges
 <2>3. BehindBy(r) BY <1>1, <2>1, <2>2 DEF DetailInTurn
 <2>4. activeDomainId \in held /\ activeDomain' = DomainResponse(activeDomainId)
  <3>1. activeDomain # NoActive /\ activeDomain \in DomainDetails
    BY <2>3 DEF BehindBy, NoActive, DomainsVarTypes
  <3>2. CASE r.kind = "box"
    BY <1>1, <2>3, <3>1, <3>2 DEF InDetail, BehindBy, DomainResponse, DomainDetails
  <3>3. CASE r.kind = "unbox"
    BY <1>1, <2>3, <3>1, <3>3 DEF InDetail, BehindBy, DomainResponse, DomainDetails
  <3> QED BY <1>1, <2>3, <3>2, <3>3 DEF BehindBy
 <2>5. DomainResponse(activeDomainId)' = DomainResponse(activeDomainId) BY <1>1 DEF DomainResponse
 <2>6. RequestsInTurn' /\ ListInTurn' /\ LogsInTurn'
   BY <1>1, <2>1, <2>2 DEF RequestsInTurn, ListInTurn, LogsInTurn
 <2>7. DetailInTurn' /\ DetailNamed'
   BY <1>1, <2>2, <2>4, <2>5 DEF DetailInTurn, DetailNamed, DomainResponse
 <2> QED BY <2>6, <2>7
<1> QED BY <1>2, <1>3, <1>4, <1>5

LEMMA DomainFailsOK ==
    ASSUME DomainsInv, NEW r \in inFlight, DomainFails(r)
    PROVE  DomainsInv'
<1> USE MailDomainsAssumption DEF DomainsInv
<1>1. /\ inFlight' = inFlight \ {r} /\ waiting' = Ended(r) /\ overtaken' = TRUE
      /\ UNCHANGED <<domainList, activeDomain, dnsLogs, domainView, activeDomainId, popup, detailTab,
                     domainActs>>
  BY DEF DomainFails, storedVars
<1>2. IsFiniteSet(inFlight') /\ Unverified' \subseteq Unverified /\ Unverified' \subseteq Unverified \ {r}
  BY <1>1, FS_RemoveElement DEF VerifiedCounts, Unverified
<1>3. /\ VerifiedCounts'
      /\ held' \subseteq spent' /\ spent' \subseteq CustomDomains
      /\ mailboxesOf' \in [CustomDomains -> SUBSET (0 .. MaxDomainActs)]
      /\ verified' \in [CustomDomains -> 0 .. MaxDomainActs]
 <2>1. CASE UNCHANGED hosted
  <3>1. UNCHANGED <<held, spent, mailboxesOf, verified>> BY <2>1 DEF hosted
  <3>2. IsFiniteSet(Unverified) BY FS_Subset DEF VerifiedCounts, Unverified
  <3>3. Cardinality(Unverified') \in Nat /\ Cardinality(Unverified') <= Cardinality(Unverified)
    BY <1>2, <3>2, FS_Subset, FS_CardinalityType
  <3>4. domainActs' \in 0 .. MaxDomainActs /\ domainActs' >= domainActs
    BY <1>1 DEF DomainsVarTypes
  <3>5. VerifiedCounts' BY <1>2, <3>1, <3>3, <3>4, CountOK
  <3> QED BY <3>1, <3>5 DEF DomainsVarTypes
 <2>2. CASE ~r.served /\ HostedChange(r) BY <1>1, <1>2, <2>2, HostedOK
 <2> QED BY <2>1, <2>2 DEF DomainFails
<1>4. DomainsVarTypes'
 <2>1. waiting' \subseteq {"list", "get", "logs", "add", "verify", "box"}
   BY <1>1, EndedFlags DEF DomainFlags
 <2>2. inFlight' \subseteq DomainRequests /\ \A p \in inFlight' : p.kind # "list" => p.of \in CustomDomains
   BY <1>1 DEF DomainsVarTypes
 <2>3. overtaken' \in BOOLEAN BY <1>1
 <2> QED BY <1>1, <1>3, <2>1, <2>2, <2>3 DEF DomainsVarTypes
<1>5. FlagsWillEnd' BY <1>1, EndedFlags DEF FlagsWillEnd
<1> QED BY <1>1, <1>3, <1>4, <1>5

LEMMA DomainsNextOK == DomainsInv /\ DomainsNext => DomainsInv'
<1> SUFFICES ASSUME DomainsInv, DomainsNext PROVE DomainsInv' OBVIOUS
<1>1. CASE FetchDomains BY <1>1, FetchDomainsOK
<1>2. CASE HandleAddMailbox \/ HandleVerify \/ HandleDelete BY <1>2, ChangesOK
<1>3. CASE BackToDomains BY <1>3, BackToDomainsOK
<1>4. CASE \/ OpenAdd \/ CloseAdd \/ OpenAddMailbox \/ CloseAddMailbox
           \/ OpenDeleteConfirm \/ CancelDelete
  BY <1>4, DialogsOK
<1>5. ASSUME NEW d \in CustomDomains, HandleDomainClick(d) \/ HandleSubmit(d) PROVE DomainsInv'
  BY <1>5, HandleDomainClickOK, ChangesOK
<1>6. ASSUME NEW b \in BoxesShown, DeleteMailbox(b) PROVE DomainsInv' BY <1>6, ChangesOK
<1>7. ASSUME NEW t \in {"dns", "mailboxes", "logs"}, ChooseTab(t) PROVE DomainsInv'
  BY <1>7, ChooseTabOK
<1>8. ASSUME NEW r \in inFlight,
             \/ DomainServed(r) \/ DomainsLoadAnswered(r) \/ DomainAdded(r)
             \/ DomainDeleted(r) \/ MailboxChanged(r) \/ DomainVerified(r) \/ DomainFails(r)
      PROVE  DomainsInv'
  BY <1>8, DomainServedOK, DomainsLoadAnsweredOK, DomainAddedOK, DomainDeletedOK, MailboxChangedOK,
     DomainVerifiedOK, DomainFailsOK
<1> QED BY <1>1, <1>2, <1>3, <1>4, <1>5, <1>6, <1>7, <1>8, Zenon DEF DomainsNext

LEMMA InvSettlesDomains == DomainsInv => ActiveDomainWhole /\ FlagsHaveRequests /\ DomainsTypeOK
<1> SUFFICES ASSUME DomainsInv PROVE ActiveDomainWhole /\ FlagsHaveRequests /\ DomainsTypeOK
  OBVIOUS
<1> USE DEF DomainsInv
<1>1. FlagsHaveRequests
 <2>1. ASSUME NEW f \in waiting, NEW r, Ends(r, f)
       PROVE  r.kind = f \/ (f = "verify" /\ r.after = "verify" /\ r.mine)
   BY <2>1 DEF Ends, DomainsVarTypes
 <2> QED BY <2>1 DEF FlagsHaveRequests, FlagsWillEnd
<1>2. DomainsTypeOK BY DEF DomainsTypeOK, DomainsVarTypes, ListedDomains, DomainDetails
<1>3. ASSUME inFlight = {}, ~overtaken, domainView = "list" PROVE domainList = ListDomains
  BY <1>3 DEF ListInTurn
<1>4. ASSUME inFlight = {}, ~overtaken, domainView = "detail"
      PROVE  /\ OnDetail /\ activeDomainId \in held
             /\ HeaderShown = [id |-> activeDomainId,
                               checks |-> verified[activeDomainId]]
             /\ RecordsOf \in {NoCustom, activeDomainId}
             /\ detailTab = "mailboxes" => BoxesShown = mailboxesOf[activeDomainId]
             /\ LogsShown \in {NoCustom, activeDomainId}
 <2>1. activeDomainId \in held /\ activeDomain = DomainResponse(activeDomainId)
       /\ activeDomainId # NoCustom
   BY <1>4, MailDomainsAssumption DEF DetailInTurn, DomainsVarTypes
 <2>2. waiting = {} BY <1>1, <1>4 DEF FlagsHaveRequests
 <2>3. OnDetail BY <1>4, <2>1, <2>2 DEF OnDetail, DomainResponse
 <2>4. DetailShown = DomainResponse(activeDomainId) BY <2>1, <2>3 DEF DetailShown
 <2>5. /\ HeaderShown = [id |-> activeDomainId, checks |-> verified[activeDomainId]]
       /\ RecordsOf \in {NoCustom, activeDomainId}
       /\ detailTab = "mailboxes" => BoxesShown = mailboxesOf[activeDomainId]
   BY <2>4 DEF HeaderShown, RecordsOf, BoxesShown, DomainResponse
 <2>6. LogsShown \in {NoCustom, activeDomainId} BY <1>4 DEF LogsShown, LogsInTurn
 <2> QED BY <2>1, <2>3, <2>5, <2>6
<1> QED BY <1>1, <1>2, <1>3, <1>4 DEF ActiveDomainWhole

LEMMA DomainsStepOK == DomainsInv /\ [DomainsNext]_domainVars => DomainsInv'
<1> SUFFICES ASSUME DomainsInv, [DomainsNext]_domainVars PROVE DomainsInv' OBVIOUS
<1>1. CASE DomainsNext BY <1>1, DomainsNextOK
<1>2. CASE UNCHANGED domainVars
 <2>1. /\ UNCHANGED <<held, spent, mailboxesOf, verified, domainView, domainList>>
       /\ UNCHANGED <<activeDomainId, activeDomain, dnsLogs, waiting, popup, detailTab>>
       /\ UNCHANGED <<inFlight, domainActs, overtaken>>
   BY <1>2 DEF domainVars
 <2>2. ListDomains' = ListDomains /\ Unverified' = Unverified BY <2>1 DEF ListDomains, Unverified
 <2>3. DomainsVarTypes' BY <2>1 DEF DomainsInv, DomainsVarTypes
 <2>4. VerifiedCounts' BY <2>1, <2>2 DEF DomainsInv, VerifiedCounts
 <2>5. FlagsWillEnd' BY <2>1 DEF DomainsInv, FlagsWillEnd
 <2>6. ~overtaken => RequestsInTurn' BY <2>1, <2>2 DEF DomainsInv, RequestsInTurn, DomainResponse
 <2>7. ~overtaken => ListInTurn' BY <2>1, <2>2 DEF DomainsInv, ListInTurn
 <2>8. ~overtaken => DetailInTurn' BY <2>1 DEF DomainsInv, DetailInTurn, DomainResponse, BehindBy
 <2>9. ~overtaken => DetailNamed' /\ LogsInTurn' BY <2>1 DEF DomainsInv, DetailNamed, LogsInTurn
 <2> QED BY <2>1, <2>3, <2>4, <2>5, <2>6, <2>7, <2>8, <2>9 DEF DomainsInv
<1> QED BY <1>1, <1>2

-------------------------------------------------------------------------------
(* IX. The three panes of the mail application. *)

-------------------------------------------------------------------------------
(* The reader in three panes: its lists. *)

LEMMA ConstantsOfReader ==
    /\ Conversations \subseteq Nat /\ 0 \notin Conversations /\ IsFiniteSet(Conversations)
    /\ FirstLabel \in ReaderLabels /\ ReaderPage \in Nat \ {0} /\ MaxReads \in Nat
  BY ReaderAssumption

ReaderRow == [id: Conversations, place: ReaderLabels, read: BOOLEAN, star: BOOLEAN,
              length: Nat \ {0}]

\* What the server has of each thread.
MailBoxes == {b \in [Conversations -> ReaderRow] : \A t \in Conversations : b[t].id = t}

Once(s) == \A i, j \in DOMAIN s : s[i].id = s[j].id => i = j

\* The rows s are the threads A, each once and as bx has it.
RowsOf(s, A, bx) ==
    /\ s \in Seq(ReaderRow) /\ IdsIn(s) = A
    /\ Once(s)
    /\ \A i \in DOMAIN s : s[i] = bx[s[i].id]

LEMMA IdsAre ==
    ASSUME NEW s \in Seq(ReaderRow)
    PROVE  /\ Len(s) \in Nat /\ DOMAIN s = 1 .. Len(s)
           /\ IdsIn(s) \in SUBSET Conversations
           /\ \A i \in DOMAIN s : s[i] \in ReaderRow /\ s[i].id \in IdsIn(s)
           /\ \A t \in IdsIn(s) : \E i \in DOMAIN s : s[i].id = t
<1>1. Len(s) \in Nat /\ DOMAIN s = 1 .. Len(s) /\ \A i \in DOMAIN s : s[i] \in ReaderRow
  OBVIOUS
<1> QED BY <1>1 DEF IdsIn, ReaderRow

LEMMA NoRows == \A bx : RowsOf(<<>>, {}, bx)
  BY DEF RowsOf, Once, IdsIn

\* A selection of the rows s.
IsSelection(rows, s, P) ==
    /\ rows \in Seq(ReaderRow)
    /\ \A i \in DOMAIN rows : \E k \in P : rows[i] = s[k]
    /\ \A k \in P : \E i \in DOMAIN rows : rows[i] = s[k]
    /\ Once(s) => Once(rows)

LEMMA ChosenRows ==
    ASSUME NEW s \in Seq(ReaderRow), NEW P \in SUBSET DOMAIN s
    PROVE  IsSelection(Chosen(s, P), s, P)
<1>1. Len(s) \in Nat /\ DOMAIN s = 1 .. Len(s) /\ \A i \in DOMAIN s : s[i] \in ReaderRow
  OBVIOUS
<1>2. IsFiniteSet(P) /\ P \subseteq Nat
 <2>1. IsFiniteSet(1 .. Len(s)) /\ 1 .. Len(s) \subseteq Nat BY <1>1, FS_Interval
 <2> QED BY <1>1, <2>1, FS_Subset
<1> DEFINE n == Cardinality(P)
           out == [k \in 1 .. n |-> s[NthIn(P, k)]]
<1>3. /\ n \in Nat
      /\ \A i \in 1 .. n : NthIn(P, i) \in P
      /\ \A i, j \in 1 .. n : NthIn(P, i) = NthIn(P, j) => i = j
      /\ \A k \in P : \E i \in 1 .. n : NthIn(P, i) = k
  BY <1>2, NthInIsAll
<1>4. Chosen(s, P) = out BY DEF Chosen
<1> HIDE DEF n
<1>5. DOMAIN out = 1 .. n /\ \A i \in 1 .. n : out[i] = s[NthIn(P, i)] OBVIOUS
<1>6. \A i \in 1 .. n : NthIn(P, i) \in DOMAIN s /\ out[i] \in ReaderRow BY <1>1, <1>3, <1>5
<1>7. out \in Seq(ReaderRow) BY <1>3, <1>6
<1> HIDE DEF out
<1>8. \A i \in DOMAIN out : \E k \in P : out[i] = s[k] BY <1>3, <1>5
<1>9. \A k \in P : \E i \in DOMAIN out : out[i] = s[k] BY <1>3, <1>5
<1>10. ASSUME \A i, j \in DOMAIN s : s[i].id = s[j].id => i = j,
              NEW i \in DOMAIN out, NEW j \in DOMAIN out, out[i].id = out[j].id
       PROVE  i = j
 <2>1. NthIn(P, i) = NthIn(P, j) BY <1>5, <1>6, <1>10
 <2> QED BY <1>3, <1>5, <2>1
<1> QED BY <1>4, <1>7, <1>8, <1>9, <1>10 DEF IsSelection, Once

\* Leaving out the threads ts.
LEMMA RowsLess ==
    ASSUME NEW s \in Seq(ReaderRow), NEW ts
    PROVE  /\ RowsWithout(s, ts) \in Seq(ReaderRow)
           /\ IdsIn(RowsWithout(s, ts)) = IdsIn(s) \ ts
           /\ \A A, bx : RowsOf(s, A, bx) => RowsOf(RowsWithout(s, ts), A \ ts, bx)
           /\ \A i \in DOMAIN RowsWithout(s, ts) : \E k \in DOMAIN s : RowsWithout(s, ts)[i] = s[k]
<1> DEFINE P == {i \in DOMAIN s : s[i].id \notin ts}
<1>1. P \in SUBSET DOMAIN s /\ \A i \in DOMAIN s : i \in P <=> s[i].id \notin ts OBVIOUS
<1>2. PICK out : out = RowsWithout(s, ts) OBVIOUS
<1>3. out = Chosen(s, P) BY <1>2 DEF RowsWithout
<1> HIDE DEF P
<1>4. /\ out \in Seq(ReaderRow)
      /\ \A i \in DOMAIN out : \E k \in P : out[i] = s[k]
      /\ \A k \in P : \E i \in DOMAIN out : out[i] = s[k]
      /\ Once(s) => Once(out)
 <2>1. IsSelection(Chosen(s, P), s, P) BY <1>1, ChosenRows
 <2> QED BY <1>3, <2>1 DEF IsSelection
<1>5. IdsIn(out) = IdsIn(s) \ ts
 <2>1. ASSUME NEW t \in IdsIn(out) PROVE t \in IdsIn(s) \ ts
  <3>1. PICK i \in DOMAIN out : out[i].id = t BY DEF IdsIn
  <3>2. PICK k \in P : out[i] = s[k] BY <1>4
  <3> QED BY <1>1, <3>1, <3>2 DEF IdsIn
 <2>2. ASSUME NEW t \in IdsIn(s) \ ts PROVE t \in IdsIn(out)
  <3>1. PICK k \in DOMAIN s : s[k].id = t BY DEF IdsIn
  <3>2. PICK i \in DOMAIN out : out[i] = s[k] BY <1>1, <1>4, <3>1
  <3> QED BY <3>1, <3>2 DEF IdsIn
 <2> QED BY <2>1, <2>2
<1>6. ASSUME NEW A, NEW bx, RowsOf(s, A, bx) PROVE RowsOf(out, A \ ts, bx)
 <2>1. \A i \in DOMAIN out : out[i] = bx[out[i].id] BY <1>1, <1>4, <1>6 DEF RowsOf
 <2> QED BY <1>4, <1>5, <1>6, <2>1 DEF RowsOf
<1> QED BY <1>1, <1>2, <1>4, <1>5, <1>6

\* Rows put after others.
LEMMA RowsTogether ==
    ASSUME NEW s \in Seq(ReaderRow), NEW u \in Seq(ReaderRow)
    PROVE  /\ s \o u \in Seq(ReaderRow)
           /\ IdsIn(s \o u) = IdsIn(s) \cup IdsIn(u)
           /\ \A A, B, bx : RowsOf(s, A, bx) /\ RowsOf(u, B, bx) /\ A \cap B = {}
                                => RowsOf(s \o u, A \cup B, bx)
           /\ \A i \in DOMAIN (s \o u) : \/ \E k \in DOMAIN s : (s \o u)[i] = s[k]
                                         \/ \E k \in DOMAIN u : (s \o u)[i] = u[k]
<1> DEFINE su == s \o u
<1>1. /\ Len(s) \in Nat /\ Len(u) \in Nat
      /\ DOMAIN s = 1 .. Len(s) /\ DOMAIN u = 1 .. Len(u)
      /\ DOMAIN su = 1 .. Len(s) + Len(u)
      /\ \A k \in 1 .. Len(s) : su[k] = s[k]
      /\ \A k \in 1 .. Len(u) : su[Len(s) + k] = u[k]
      /\ su \in Seq(ReaderRow)
  OBVIOUS
<1> HIDE DEF su
<1>2. \A k \in DOMAIN s : k \in DOMAIN su /\ su[k] = s[k] BY <1>1
<1>3. \A k \in DOMAIN u : Len(s) + k \in DOMAIN su /\ su[Len(s) + k] = u[k] BY <1>1
<1>4. \A i \in DOMAIN su : i \in DOMAIN s \/ (i \notin DOMAIN s /\ i - Len(s) \in DOMAIN u
                                               /\ i = Len(s) + (i - Len(s)))
  BY <1>1
<1>5. \A i \in DOMAIN su : \/ i \in DOMAIN s /\ su[i] = s[i]
                           \/ /\ i \notin DOMAIN s /\ i - Len(s) \in DOMAIN u
                              /\ su[i] = u[i - Len(s)]
  BY <1>2, <1>3, <1>4
<1>6. IdsIn(su) = IdsIn(s) \cup IdsIn(u)
 <2>1. IdsIn(su) \subseteq IdsIn(s) \cup IdsIn(u) BY <1>5 DEF IdsIn
 <2>2. IdsIn(s) \subseteq IdsIn(su) BY <1>2 DEF IdsIn
 <2>3. ASSUME NEW t \in IdsIn(u) PROVE t \in IdsIn(su)
  <3>1. PICK k \in DOMAIN u : u[k].id = t BY DEF IdsIn
  <3>2. PICK i \in DOMAIN su : su[i] = u[k] BY <1>3
  <3> QED BY <3>1, <3>2 DEF IdsIn
 <2> QED BY <2>1, <2>2, <2>3
<1>7. ASSUME NEW A, NEW B, NEW bx, RowsOf(s, A, bx), RowsOf(u, B, bx), A \cap B = {}
      PROVE  RowsOf(su, A \cup B, bx)
 <2>1. /\ \A k \in DOMAIN s : s[k].id \in A /\ s[k] = bx[s[k].id]
       /\ \A k \in DOMAIN u : u[k].id \in B /\ u[k] = bx[u[k].id]
       /\ \A i, j \in DOMAIN s : s[i].id = s[j].id => i = j
       /\ \A i, j \in DOMAIN u : u[i].id = u[j].id => i = j
   BY <1>7 DEF RowsOf, Once, IdsIn
 <2>2. \A i \in DOMAIN su : su[i] = bx[su[i].id] BY <1>5, <2>1
 <2>3. ASSUME NEW i \in DOMAIN su, NEW j \in DOMAIN su, su[i].id = su[j].id PROVE i = j
  <3>1. CASE i \in DOMAIN s /\ j \in DOMAIN s BY <1>5, <2>1, <2>3, <3>1
  <3>2. CASE i \notin DOMAIN s /\ j \notin DOMAIN s
   <4>1. i - Len(s) \in DOMAIN u /\ j - Len(s) \in DOMAIN u
         /\ u[i - Len(s)].id = u[j - Len(s)].id
     BY <1>5, <2>3, <3>2
   <4>2. i - Len(s) = j - Len(s) BY <2>1, <4>1
   <4> QED BY <1>1, <4>2
  <3>3. CASE i \in DOMAIN s /\ j \notin DOMAIN s
   <4>1. su[i].id \in A /\ su[j].id \in B BY <1>5, <2>1, <3>3
   <4> QED BY <1>7, <2>3, <4>1
  <3>4. CASE i \notin DOMAIN s /\ j \in DOMAIN s
   <4>1. su[i].id \in B /\ su[j].id \in A BY <1>5, <2>1, <3>4
   <4> QED BY <1>7, <2>3, <4>1
  <3> QED BY <3>1, <3>2, <3>3, <3>4
 <2>4. IdsIn(s) = A /\ IdsIn(u) = B BY <1>7 DEF RowsOf
 <2> QED BY <1>1, <1>6, <2>2, <2>3, <2>4 DEF RowsOf, Once
<1> QED BY <1>1, <1>5, <1>6, <1>7 DEF su

\* A row alone.
LEMMA RowAlone ==
    ASSUME NEW e \in ReaderRow
    PROVE  /\ <<e>> \in Seq(ReaderRow) /\ IdsIn(<<e>>) = {e.id}
           /\ \A bx : e = bx[e.id] => RowsOf(<<e>>, {e.id}, bx)
           /\ <<e>> # <<>> /\ <<e>>[1] = e
<1>1. /\ <<e>> \in Seq(ReaderRow) /\ DOMAIN <<e>> = {1} /\ <<e>>[1] = e /\ <<e>> # <<>> OBVIOUS
<1>2. IdsIn(<<e>>) = {e.id} BY <1>1 DEF IdsIn
<1> QED BY <1>1, <1>2 DEF RowsOf, Once

\* Rows that are the same in another bx.
LEMMA RowsInBoth ==
    ASSUME NEW s, NEW A, NEW bx, NEW b, RowsOf(s, A, bx), \A t \in A : b[t] = bx[t]
    PROVE  RowsOf(s, A, b)
<1>1. \A i \in DOMAIN s : s[i].id \in A BY DEF RowsOf, IdsIn
<1> QED BY <1>1 DEF RowsOf

-------------------------------------------------------------------------------
(* The reader: requests. *)

WireKinds == {"move", "late", "label", "read", "star", "reply", "refresh", "more"}
FlagKinds == {"read", "star", "reply"}

ReaderPages == [rows: Seq(ReaderRow), more: BOOLEAN, cursor: Conversations \cup {0}]

ReaderWires ==
    [n: Nat, kind: WireKinds, to: ReaderLabels \cup BOOLEAN, ids: SUBSET Conversations,
     next: Seq(ReaderRow), at: Conversations \cup {0}, closes: BOOLEAN, clears: BOOLEAN,
     mine: BOOLEAN, served: BOOLEAN, got: ReaderPages]

ToFits(kind, to) == IF kind \in FlagKinds THEN to \in BOOLEAN ELSE to \in ReaderLabels

WireOK(r) == r \in ReaderWires /\ ToFits(r.kind, r.to) /\ (r.kind = "late" => r.next # <<>>)

\* They differ in whom they are for.
SameWires(q, r) ==
    /\ q.n = r.n /\ q.kind = r.kind /\ q.to = r.to /\ q.ids = r.ids /\ q.next = r.next
    /\ q.at = r.at /\ q.closes = r.closes /\ q.clears = r.clears /\ q.served = r.served
    /\ q.got = r.got

\* The requests Q are the requests w.
Carried(Q, w) ==
    \E f : Q = {f[r] : r \in w} /\ \A r \in w : WireOK(f[r]) /\ SameWires(f[r], r)

LEMMA SameCarried ==
    ASSUME NEW w, \A r \in w : WireOK(r)
    PROVE  Carried(w, w)
<1>1. PICK f : f = [r \in w |-> r] OBVIOUS
<1>2. \A r \in w : f[r] = r BY <1>1
<1>3. w = {f[r] : r \in w} BY <1>2
<1>4. \A r \in w : WireOK(f[r]) /\ SameWires(f[r], r) BY <1>2 DEF SameWires
<1> QED BY <1>3, <1>4 DEF Carried

LEMMA MineCarried ==
    ASSUME NEW w, \A r \in w : WireOK(r), NEW b \in BOOLEAN,
           NEW Q, Q = {[r EXCEPT !.mine = @ /\ b] : r \in w}
    PROVE  Carried(Q, w)
<1> DEFINE g(r) == [r EXCEPT !.mine = @ /\ b]
<1>0. Q = {g(r) : r \in w} OBVIOUS
<1>1. ASSUME NEW r \in w
      PROVE  WireOK(g(r)) /\ SameWires(g(r), r)
 <2>1. r \in ReaderWires /\ ToFits(r.kind, r.to) /\ (r.kind = "late" => r.next # <<>>)
   BY DEF WireOK
 <2>2. PICK m \in BOOLEAN : m = (r.mine /\ b) OBVIOUS
 <2>3. PICK q : q = [r EXCEPT !.mine = m] OBVIOUS
 <2>4. q = g(r) BY <2>2, <2>3, Zenon
 <2>5. q \in ReaderWires BY <2>1, <2>3 DEF ReaderWires
 <2>6. SameWires(q, r) BY <2>1, <2>3 DEF SameWires, ReaderWires
 <2>7. WireOK(q) BY <2>1, <2>5, <2>6 DEF WireOK, SameWires
 <2> QED BY <2>4, <2>6, <2>7
<1> HIDE DEF g
<1>2. PICK f : f = [r \in w |-> g(r)] OBVIOUS
<1>3. \A r \in w : f[r] = g(r) BY <1>2
<1>4. Q = {f[r] : r \in w} BY <1>0, <1>3
<1>5. \A r \in w : WireOK(f[r]) /\ SameWires(f[r], r) BY <1>1, <1>3
<1> QED BY <1>4, <1>5 DEF Carried

LEMMA CarriedOnes ==
    ASSUME NEW Q, NEW w, Carried(Q, w)
    PROVE  /\ \A q \in Q : WireOK(q) /\ \E r \in w : SameWires(q, r)
           /\ \A r \in w : \E q \in Q : SameWires(q, r)
           /\ w = {} <=> Q = {}
           /\ (\A q, r \in w : q = r) => \A q, r \in Q : q = r
<1>1. PICK f : Q = {f[r] : r \in w} /\ \A r \in w : WireOK(f[r]) /\ SameWires(f[r], r)
  BY DEF Carried
<1>2. \A q \in Q : \E r \in w : q = f[r] BY <1>1
<1>3. \A r \in w : f[r] \in Q BY <1>1
<1> QED BY <1>1, <1>2, <1>3

-------------------------------------------------------------------------------
(* The reader: the types of its variables. *)

UndoFits(u, n) == \A d \in u : d.row \in ReaderRow /\ d.row.length <= n + 1

ReaderTypes ==
    /\ readerPart \in {"threads", "labels"} /\ mailbox \in MailBoxes /\ shownLabel \in ReaderLabels
    /\ threads \in Seq(ReaderRow)
    /\ cursorAt \in Conversations \cup {0} /\ openThread \in Conversations \cup {0}
    /\ ticks \in SUBSET Conversations
    /\ reads \in 0 .. MaxReads /\ UndoFits(undoOf, reads)
    /\ \A d \in leaving : d \in [n: 1 .. reads, row: ReaderRow, to: ReaderLabels]
    /\ \A r \in wires : WireOK(r) /\ r.n <= reads

ReaderBits ==
    /\ moreRows \in BOOLEAN /\ refreshing \in BOOLEAN /\ replyOpen \in BOOLEAN
    /\ follows \in BOOLEAN /\ replaced \in BOOLEAN
    /\ labelNamed \in BOOLEAN /\ creating \in BOOLEAN

\* A request that is made now.
NewWire(r, kind, to, ts, next) ==
    /\ r.n = reads' /\ r.kind = kind /\ r.to = to /\ r.ids = ts /\ r.next = next
    /\ r.at = cursorAt /\ r.served = FALSE
    /\ r.got = [rows |-> <<>>, more |-> FALSE, cursor |-> 0]

LEMMA NoPage == [rows |-> <<>>, more |-> FALSE, cursor |-> 0] \in ReaderPages
<1>1. PICK no \in BOOLEAN : no = FALSE OBVIOUS
<1>2. [rows |-> <<>>, more |-> no, cursor |-> 0] \in ReaderPages BY DEF ReaderPages
<1> QED BY <1>1, <1>2

LEMMA WireIs ==
    ASSUME ReaderTypes, reads' \in Nat, NEW kind \in WireKinds, NEW to, ToFits(kind, to),
           NEW ts \in SUBSET Conversations, NEW next \in Seq(ReaderRow),
           kind = "late" => next # <<>>,
           NEW r, \/ r = Wire(kind, to, ts, next)
                  \/ r = [Wire(kind, to, ts, next) EXCEPT !.clears = TRUE]
                  \/ r = [Wire(kind, to, ts, next) EXCEPT !.closes = TRUE]
    PROVE  WireOK(r) /\ NewWire(r, kind, to, ts, next)
<1>1. PICK no \in BOOLEAN, yes \in BOOLEAN : no = FALSE /\ yes = TRUE OBVIOUS
<1>2. PICK p \in ReaderPages : p = [rows |-> <<>>, more |-> FALSE, cursor |-> 0] BY NoPage
<1>3. PICK w : w = [n |-> reads', kind |-> kind, to |-> to, ids |-> ts, next |-> next,
                    at |-> cursorAt, closes |-> no, clears |-> no, mine |-> yes,
                    served |-> no, got |-> p]
  OBVIOUS
<1>4. w = Wire(kind, to, ts, next) BY <1>1, <1>2, <1>3, Zenon DEF Wire
<1>5. to \in ReaderLabels \cup BOOLEAN /\ cursorAt \in Conversations \cup {0}
  BY DEF ToFits, ReaderTypes
<1>6. w \in ReaderWires BY <1>3, <1>5 DEF ReaderWires
<1>7. r = w \/ r = [w EXCEPT !.clears = yes] \/ r = [w EXCEPT !.closes = yes] BY <1>1, <1>4, Zenon
<1>8. r \in ReaderWires BY <1>6, <1>7 DEF ReaderWires
<1>9. /\ r.n = w.n /\ r.kind = w.kind /\ r.to = w.to /\ r.ids = w.ids /\ r.next = w.next
      /\ r.at = w.at /\ r.served = w.served /\ r.got = w.got
  BY <1>6, <1>7 DEF ReaderWires
<1>10. /\ w.n = reads' /\ w.kind = kind /\ w.to = to /\ w.ids = ts /\ w.next = next
       /\ w.at = cursorAt /\ w.served = no /\ w.got = p
  BY <1>3
<1>11. r.served = FALSE BY <1>1, <1>9, <1>10, Zenon
<1> QED BY <1>2, <1>8, <1>9, <1>10, <1>11 DEF WireOK, NewWire

-------------------------------------------------------------------------------
(* The reader: what a request makes of a thread, and pages. *)

MoveKinds == {"move", "late", "label"}

\* The thread x is e after the request.
Alters(kind, to, e, x) ==
    /\ x \in ReaderRow /\ x.id = e.id
    /\ x.place = IF kind \in MoveKinds THEN to ELSE e.place
    /\ x.length <= e.length + 1 /\ (kind # "reply" => x.length = e.length)
    /\ kind \in {"refresh", "more"} => x = e
    /\ kind = "read" /\ to = TRUE /\ e.read => x = e

LEMMA AlteredRow ==
    ASSUME NEW e \in ReaderRow, NEW kind \in WireKinds, NEW to, ToFits(kind, to)
    PROVE  Alters(kind, to, e, Altered(kind, to, e))
<1> PICK x : x = Altered(kind, to, e) OBVIOUS
<1>1. /\ e.id \in Conversations /\ e.place \in ReaderLabels /\ e.read \in BOOLEAN
      /\ e.star \in BOOLEAN /\ e.length \in Nat \ {0}
  BY DEF ReaderRow
<1>2. CASE kind \in MoveKinds
 <2>1. to \in ReaderLabels BY <1>2 DEF ToFits, FlagKinds, MoveKinds
 <2>2. x = [e EXCEPT !.place = to] BY <1>2 DEF Altered, MoveKinds
 <2>3. x \in ReaderRow /\ x.id = e.id /\ x.place = to /\ x.length = e.length
   BY <2>1, <2>2 DEF ReaderRow
 <2> QED BY <1>1, <1>2, <2>3 DEF MoveKinds, Alters
<1>3. CASE kind = "read"
 <2>1. PICK b \in BOOLEAN : b = to BY <1>3 DEF ToFits, FlagKinds
 <2>2. x = [e EXCEPT !.read = b] BY <1>3, <2>1 DEF Altered
 <2>3. x \in ReaderRow /\ x.id = e.id /\ x.place = e.place /\ x.length = e.length
   BY <2>2 DEF ReaderRow
 <2>4. ASSUME b = e.read PROVE x = e BY <2>2, <2>4 DEF ReaderRow
 <2>5. ASSUME to = TRUE, e.read PROVE b = e.read BY <1>1, <2>1, <2>5
 <2>6. to = TRUE /\ e.read => x = e BY <2>4, <2>5, Zenon
 <2>7. x.length <= e.length + 1 BY <1>1, <2>3
 <2>8. x.place = IF kind \in MoveKinds THEN to ELSE e.place BY <1>3, <2>3 DEF MoveKinds
 <2>9. kind \notin {"refresh", "more"} BY <1>3
 <2> QED BY <2>3, <2>6, <2>7, <2>8, <2>9, Zenon DEF Alters
<1>4. CASE kind = "star"
 <2>1. PICK b \in BOOLEAN : b = to BY <1>4 DEF ToFits, FlagKinds
 <2>2. x = [e EXCEPT !.star = b] BY <1>4, <2>1 DEF Altered
 <2>3. x \in ReaderRow /\ x.id = e.id /\ x.place = e.place /\ x.length = e.length
   BY <2>2 DEF ReaderRow
 <2> QED BY <1>1, <1>4, <2>3 DEF MoveKinds, Alters
<1>5. CASE kind = "reply"
 <2>1. x = [e EXCEPT !.length = e.length + 1] BY <1>5 DEF Altered
 <2>2. e.length + 1 \in Nat \ {0} BY <1>1
 <2>3. x \in ReaderRow /\ x.id = e.id /\ x.place = e.place /\ x.length = e.length + 1
   BY <2>1, <2>2 DEF ReaderRow
 <2> QED BY <1>1, <1>5, <2>3 DEF MoveKinds, Alters
<1>6. CASE kind \in {"refresh", "more"}
 <2>1. x = e BY <1>6 DEF Altered
 <2> QED BY <1>1, <1>6, <2>1 DEF MoveKinds, Alters
<1> QED BY <1>2, <1>3, <1>4, <1>5, <1>6 DEF WireKinds, MoveKinds

\* The rows with some of them altered.
LEMMA RemadeRows ==
    ASSUME threads \in Seq(ReaderRow), NEW kind \in WireKinds, NEW to, ToFits(kind, to), NEW ts,
           NEW rows, rows = Remade(kind, to, ts)
    PROVE  /\ rows \in Seq(ReaderRow) /\ IdsIn(rows) = IdsIn(threads)
           /\ DOMAIN rows = DOMAIN threads
           /\ \A i \in DOMAIN rows : rows[i].length <= threads[i].length + 1
           /\ \A A, bx, b :
                 /\ RowsOf(threads, A, bx)
                 /\ \A t \in A : b[t] = IF t \in ts THEN Altered(kind, to, bx[t]) ELSE bx[t]
                 => RowsOf(rows, A, b)
<1>1. /\ Len(threads) \in Nat /\ DOMAIN threads = 1 .. Len(threads)
      /\ \A i \in DOMAIN threads : threads[i] \in ReaderRow /\ threads[i].id \in IdsIn(threads)
  BY IdsAre
<1>2. /\ DOMAIN rows = DOMAIN threads
      /\ \A i \in DOMAIN threads :
            rows[i] = IF threads[i].id \in ts THEN Altered(kind, to, threads[i]) ELSE threads[i]
  BY DEF Remade
<1>3. rows = [i \in 1 .. Len(threads) |-> rows[i]] BY <1>1 DEF Remade
<1>4. ASSUME NEW i \in DOMAIN threads
      PROVE  /\ rows[i] \in ReaderRow /\ rows[i].id = threads[i].id
             /\ rows[i].length <= threads[i].length + 1
 <2>1. threads[i] \in ReaderRow /\ threads[i].length \in Nat BY <1>1 DEF ReaderRow
 <2>2. CASE threads[i].id \in ts
  <3>1. PICK e \in ReaderRow : e = threads[i] BY <2>1
  <3>2. PICK x : x = Altered(kind, to, e) OBVIOUS
  <3>3. x \in ReaderRow /\ x.id = e.id /\ x.length <= e.length + 1 BY <3>2, AlteredRow DEF Alters
  <3> QED BY <1>2, <2>2, <3>1, <3>2, <3>3
 <2>3. CASE threads[i].id \notin ts BY <1>2, <2>1, <2>3
 <2> QED BY <2>2, <2>3
<1>5. rows \in Seq(ReaderRow) BY <1>1, <1>3, <1>4
<1>6. IdsIn(rows) = IdsIn(threads) BY <1>2, <1>4 DEF IdsIn
<1>7. ASSUME NEW A, NEW bx, NEW b, RowsOf(threads, A, bx),
             \A t \in A : b[t] = IF t \in ts THEN Altered(kind, to, bx[t]) ELSE bx[t]
      PROVE  RowsOf(rows, A, b)
 <2>1. Once(rows) BY <1>2, <1>4, <1>7 DEF RowsOf, Once
 <2>2. ASSUME NEW i \in DOMAIN rows PROVE rows[i] = b[rows[i].id]
  <3>1. PICK t : t = threads[i].id OBVIOUS
  <3>2. i \in DOMAIN threads /\ t \in A /\ threads[i] = bx[t] /\ rows[i].id = t
    BY <1>1, <1>2, <1>4, <1>7, <3>1 DEF RowsOf
  <3>3. rows[i] = IF t \in ts THEN Altered(kind, to, bx[t]) ELSE bx[t] BY <1>2, <3>1, <3>2
  <3> QED BY <1>7, <3>2, <3>3
 <2> QED BY <1>5, <1>6, <1>7, <2>1, <2>2 DEF RowsOf
<1> QED BY <1>2, <1>4, <1>5, <1>6, <1>7

\* A page p of label l below c: the newest of the threads there, down to its cursor.
PageFor(p, bx, l, c) ==
    \E A \in SUBSET Conversations :
        /\ RowsOf(p.rows, A, bx)
        /\ \A t \in Conversations :
              t \in A <=> /\ bx[t].place = l /\ (c = 0 \/ t < c)
                          /\ p.more => t >= p.cursor
        /\ p.more /\ c # 0 => p.cursor < c

LEMMA PageIs ==
    ASSUME mailbox \in MailBoxes, NEW l \in ReaderLabels, NEW c \in Conversations \cup {0},
           NEW p, p = PageOf(l, c)
    PROVE  p \in ReaderPages /\ PageFor(p, mailbox, l, c)
<1> DEFINE all == {t \in Conversations : mailbox[t].place = l /\ (c = 0 \/ t < c)}
           above(t) == {u \in all : u > t}
           tops == {t \in all : Cardinality(above(t)) < ReaderPage}
           size == Cardinality(tops)
<1>1. p = [rows |-> [k \in 1 .. size |-> mailbox[NthIn(tops, size + 1 - k)]],
           more |-> tops # all, cursor |-> IF tops = all THEN 0 ELSE NthIn(tops, 1)]
  BY Zenon DEF PageOf
<1>2. /\ all \subseteq Nat /\ IsFiniteSet(all) /\ all \subseteq Conversations
      /\ c \in Nat
 <2>1. all \subseteq Conversations OBVIOUS
 <2> HIDE DEF all
 <2>2. IsFiniteSet(all) BY <2>1, ConstantsOfReader, FS_Subset, Zenon
 <2> QED BY <2>1, <2>2, ConstantsOfReader
<1>3. tops \subseteq all /\ \A t \in all : t \in tops <=> Cardinality(above(t)) < ReaderPage
  OBVIOUS
<1>4. \A t \in all : above(t) \subseteq all OBVIOUS
<1>5. \A t \in Conversations : t \in all <=> mailbox[t].place = l /\ (c = 0 \/ t < c) OBVIOUS
<1>6. \A t, u \in all : u > t => u \in above(t) OBVIOUS
<1>7. \A t, u \in all : u <= t => above(t) \subseteq above(u)
 <2>1. \A t, u, x \in all : u <= t /\ x > t => x > u BY <1>2
 <2> QED BY <2>1
<1>8. \A t, u \in all : u \in above(t) => u > t OBVIOUS
<1> HIDE DEF above, tops, all
<1>9. \A t \in all : IsFiniteSet(above(t)) /\ Cardinality(above(t)) \in Nat
  BY <1>2, <1>4, FS_Subset, FS_CardinalityType
<1>10. IsFiniteSet(tops) /\ tops \subseteq Nat /\ tops \subseteq Conversations
  BY <1>2, <1>3, FS_Subset
<1>11. /\ size \in Nat
       /\ \A i \in 1 .. size : NthIn(tops, i) \in tops /\ Below(tops, NthIn(tops, i)) = i - 1
       /\ \A i, j \in 1 .. size : NthIn(tops, i) = NthIn(tops, j) => i = j
       /\ \A k \in tops : \E i \in 1 .. size : NthIn(tops, i) = k
  BY <1>10, NthInIsAll
<1>12. ASSUME tops # all PROVE tops # {}
 <2>1. all # {} BY <1>3, <1>12
 <2>2. PICK t \in all : \A u \in all : u <= t BY <1>2, <2>1, GreatestOf
 <2>3. above(t) = {}
  <3>1. \A u \in all : ~(u > t) BY <1>2, <2>2
  <3> QED BY <1>4, <1>8, <3>1
 <2>4. Cardinality(above(t)) = 0 BY <2>3, FS_EmptySet
 <2> QED BY <1>3, <2>4, ConstantsOfReader
<1>13. PICK cur : cur = IF tops = all THEN 0 ELSE NthIn(tops, 1) OBVIOUS
<1>14. ASSUME tops # all
       PROVE  cur \in tops /\ \A t \in all : t \in tops <=> t >= cur
 <2>1. size # 0 BY <1>10, <1>12, <1>14, FS_EmptySet
 <2>2. 1 \in 1 .. size BY <1>11, <2>1
 <2>3. cur \in tops /\ Below(tops, cur) = 0 BY <1>11, <1>13, <1>14, <2>2
 <2>4. ASSUME NEW t \in tops PROVE t >= cur
  <3> DEFINE B == {m \in tops : m < cur}
  <3>1. B \subseteq tops /\ Cardinality(B) = 0 BY <2>3 DEF Below
  <3>2. \A m \in tops : m < cur => m \in B OBVIOUS
  <3> HIDE DEF B
  <3>3. IsFiniteSet(B) BY <1>10, <3>1, FS_Subset
  <3>4. B = {} BY <3>1, <3>3, FS_EmptySet
  <3>5. ~(t < cur) BY <3>2, <3>4
  <3> QED BY <1>10, <2>3, <3>5
 <2>5. ASSUME NEW t \in all, t >= cur PROVE t \in tops
  <3>1. cur \in all /\ cur <= t BY <1>2, <1>3, <2>3, <2>5
  <3>2. above(t) \subseteq above(cur) BY <1>7, <3>1
  <3>3. Cardinality(above(t)) <= Cardinality(above(cur)) BY <1>9, <3>1, <3>2, FS_Subset
  <3>4. Cardinality(above(cur)) < ReaderPage BY <1>3, <2>3, <3>1
  <3> QED BY <1>3, <1>9, <3>1, <3>3, <3>4, ConstantsOfReader
 <2> QED BY <2>3, <2>4, <2>5
<1>15. PICK rows : rows = [k \in 1 .. size |-> mailbox[NthIn(tops, size + 1 - k)]] OBVIOUS
<1>16. p.rows = rows /\ (p.more <=> tops # all) /\ p.cursor = cur
 <2>1. PICK m \in BOOLEAN : m = (tops # all) OBVIOUS
 <2>2. p = [rows |-> rows, more |-> m, cursor |-> cur] BY <1>1, <1>13, <1>15, <2>1, Zenon
 <2>3. p.rows = rows /\ p.more = m /\ p.cursor = cur BY <2>2
 <2> QED BY <2>1, <2>3, Zenon
<1>17. \A t \in Conversations : mailbox[t] \in ReaderRow /\ mailbox[t].id = t BY DEF MailBoxes
<1> HIDE DEF size
<1>18. /\ DOMAIN rows = 1 .. size
       /\ \A k \in 1 .. size : rows[k] = mailbox[NthIn(tops, size + 1 - k)]
  BY <1>15
<1>19. \A k \in 1 .. size : size + 1 - k \in 1 .. size BY <1>11
<1>20. \A k \in 1 .. size : /\ NthIn(tops, size + 1 - k) \in tops
                            /\ rows[k] \in ReaderRow /\ rows[k].id = NthIn(tops, size + 1 - k)
  BY <1>10, <1>11, <1>17, <1>18, <1>19
<1>21. rows \in Seq(ReaderRow) BY <1>11, <1>15, <1>18, <1>20
<1>22. RowsOf(rows, tops, mailbox)
 <2>1. IdsIn(rows) = tops
  <3>1. IdsIn(rows) \subseteq tops BY <1>18, <1>20 DEF IdsIn
  <3>2. ASSUME NEW t \in tops PROVE t \in IdsIn(rows)
   <4>1. PICK i \in 1 .. size : NthIn(tops, i) = t BY <1>11
   <4>2. PICK k \in 1 .. size : k = size + 1 - i BY <1>19
   <4>3. size + 1 - k = i BY <1>11, <4>2
   <4>4. rows[k].id = t BY <1>20, <4>1, <4>3
   <4> QED BY <1>18, <4>4 DEF IdsIn
  <3> QED BY <3>1, <3>2
 <2>2. ASSUME NEW i \in DOMAIN rows, NEW j \in DOMAIN rows, rows[i].id = rows[j].id PROVE i = j
  <3>1. i \in 1 .. size /\ j \in 1 .. size BY <1>18
  <3>2. NthIn(tops, size + 1 - i) = NthIn(tops, size + 1 - j) BY <1>20, <2>2, <3>1
  <3>3. size + 1 - i = size + 1 - j BY <1>11, <1>19, <3>1, <3>2
  <3> QED BY <1>11, <3>1, <3>3
 <2>3. \A i \in DOMAIN rows : rows[i] = mailbox[rows[i].id] BY <1>18, <1>20
 <2> QED BY <1>21, <2>1, <2>2, <2>3 DEF RowsOf, Once
<1>23. p \in ReaderPages
 <2>1. cur \in Conversations \cup {0} BY <1>10, <1>13, <1>14
 <2>2. p = [rows |-> rows, more |-> tops # all, cursor |-> cur] BY <1>1, <1>13, <1>15 DEF size
 <2>3. PICK m \in BOOLEAN : m = (tops # all) OBVIOUS
 <2>4. p = [rows |-> rows, more |-> m, cursor |-> cur] BY <2>2, <2>3, Zenon
 <2> QED BY <1>21, <2>1, <2>4 DEF ReaderPages
<1>24. \A t \in Conversations : t \in tops <=> /\ mailbox[t].place = l /\ (c = 0 \/ t < c)
                                               /\ p.more => t >= p.cursor
  BY <1>3, <1>5, <1>14, <1>16
<1>25. p.more /\ c # 0 => p.cursor < c BY <1>3, <1>5, <1>10, <1>14, <1>16
<1> QED BY <1>10, <1>16, <1>22, <1>23, <1>24, <1>25 DEF PageFor

-------------------------------------------------------------------------------
(* The reader: rows that are as the server has them. *)

\* The mailbox in which the threads ts are altered.
BoxWith(kind, to, ts, bx) ==
    [t \in Conversations |-> IF t \in ts THEN Altered(kind, to, bx[t]) ELSE bx[t]]

BoxAlters(kind, to, ts, bx, b) ==
    /\ b \in MailBoxes
    /\ \A t \in Conversations : /\ b[t] = IF t \in ts THEN Altered(kind, to, bx[t]) ELSE bx[t]
                                /\ Alters(kind, to, bx[t], Altered(kind, to, bx[t]))

LEMMA BoxIs ==
    ASSUME NEW bx \in MailBoxes, NEW kind \in WireKinds, NEW to, ToFits(kind, to), NEW ts,
           NEW b, b = BoxWith(kind, to, ts, bx)
    PROVE  BoxAlters(kind, to, ts, bx, b)
<1>1. ASSUME NEW t \in Conversations
      PROVE  /\ b[t] = IF t \in ts THEN Altered(kind, to, bx[t]) ELSE bx[t]
             /\ Alters(kind, to, bx[t], Altered(kind, to, bx[t]))
             /\ b[t] \in ReaderRow /\ b[t].id = t
 <2>1. bx[t] \in ReaderRow /\ bx[t].id = t BY DEF MailBoxes
 <2>2. PICK e \in ReaderRow : e = bx[t] BY <2>1
 <2>3. PICK x : x = Altered(kind, to, e) OBVIOUS
 <2>4. Alters(kind, to, e, x) BY <2>3, AlteredRow
 <2>5. x \in ReaderRow /\ x.id = t BY <2>1, <2>2, <2>4 DEF Alters
 <2>6. b[t] = IF t \in ts THEN x ELSE e BY <2>2, <2>3 DEF BoxWith
 <2> QED BY <2>1, <2>2, <2>3, <2>4, <2>5, <2>6
<1>2. b \in [Conversations -> ReaderRow]
 <2>1. b = [t \in Conversations |-> b[t]] BY DEF BoxWith
 <2> QED BY <1>1, <2>1
<1> QED BY <1>1, <1>2 DEF BoxAlters, MailBoxes

\* The rows s are threads of label l as bx has them, and none that is gone; if they follow
\* the list, they are all of it down to c.
WholeRows(s, bx, l, gone, f, c) ==
    /\ RowsOf(s, IdsIn(s), bx)
    /\ \A t \in IdsIn(s) : bx[t].place = l
    /\ IdsIn(s) \cap gone = {}
    /\ f => /\ \A t \in IdsIn(s) : t >= c
            /\ \A t \in Conversations : bx[t].place = l /\ t >= c => t \in IdsIn(s) \cup gone

LEMMA WholeOfNone ==
    ASSUME NEW bx, NEW l, NEW gone, NEW c
    PROVE  WholeRows(<<>>, bx, l, gone, FALSE, c)
<1>1. RowsOf(<<>>, {}, bx) BY NoRows
<1>2. IdsIn(<<>>) = {} BY DEF IdsIn
<1> QED BY <1>1, <1>2 DEF WholeRows

\* Rows that leave.
LEMMA WholeLess ==
    ASSUME NEW s, NEW bx, NEW l, NEW gone, NEW f, NEW c, WholeRows(s, bx, l, gone, f, c), NEW ts,
           NEW rows, rows = RowsWithout(s, ts)
    PROVE  WholeRows(rows, bx, l, gone \cup (ts \cap IdsIn(s)), f, c)
<1>1. s \in Seq(ReaderRow) /\ RowsOf(s, IdsIn(s), bx) BY DEF WholeRows, RowsOf
<1>2. IdsIn(rows) = IdsIn(s) \ ts /\ RowsOf(rows, IdsIn(s) \ ts, bx) BY <1>1, RowsLess
<1> QED BY <1>2 DEF WholeRows

\* Rows that are moved away.
LEMMA WholeMoved ==
    ASSUME NEW s, NEW bx, NEW l, NEW gone, NEW f, NEW c, WholeRows(s, bx, l, gone, f, c), NEW ts,
           NEW rows, rows = RowsWithout(s, ts), NEW b,
           \A t \in Conversations : IF t \in ts \cap IdsIn(s) THEN b[t].place # l ELSE b[t] = bx[t]
    PROVE  WholeRows(rows, b, l, gone, f, c)
<1>1. s \in Seq(ReaderRow) /\ RowsOf(s, IdsIn(s), bx) BY DEF WholeRows, RowsOf
<1>2. IdsIn(rows) = IdsIn(s) \ ts /\ RowsOf(rows, IdsIn(s) \ ts, bx) BY <1>1, RowsLess
<1>3. IdsIn(s) \subseteq Conversations BY <1>1, IdsAre
<1>4. \A t \in IdsIn(s) \ ts : b[t] = bx[t] BY <1>3
<1>5. RowsOf(rows, IdsIn(s) \ ts, b) BY <1>2, <1>4, RowsInBoth
<1> QED BY <1>2, <1>3, <1>4, <1>5 DEF WholeRows

\* Rows that are altered where they are.
LEMMA WholeRemade ==
    ASSUME NEW s, NEW bx, NEW l, NEW gone, NEW f, NEW c, WholeRows(s, bx, l, gone, f, c),
           NEW rows, NEW b, IdsIn(rows) = IdsIn(s), RowsOf(rows, IdsIn(s), b),
           \A t \in Conversations : b[t].place = bx[t].place
    PROVE  WholeRows(rows, b, l, gone, f, c)
<1>1. s \in Seq(ReaderRow) BY DEF WholeRows, RowsOf
<1>2. IdsIn(s) \subseteq Conversations BY <1>1, IdsAre
<1> QED BY <1>2 DEF WholeRows

\* A row that comes back, before or after the others.
LEMMA WholeMore ==
    ASSUME NEW s, NEW bx, NEW l, NEW gone, NEW f, NEW c, WholeRows(s, bx, l, gone, f, c),
           NEW e \in ReaderRow, e = bx[e.id], e.place = l, e.id \in gone, f => e.id >= c,
           NEW rest, e.id \notin rest, rest \cup {e.id} = gone,
           NEW rows, rows = <<e>> \o s
    PROVE  WholeRows(rows, bx, l, rest, f, c)
<1>1. s \in Seq(ReaderRow) /\ RowsOf(s, IdsIn(s), bx) BY DEF WholeRows, RowsOf
<1>2. <<e>> \in Seq(ReaderRow) /\ IdsIn(<<e>>) = {e.id} /\ RowsOf(<<e>>, {e.id}, bx) BY RowAlone
<1>3. e.id \notin IdsIn(s) BY DEF WholeRows
<1>4. IdsIn(rows) = {e.id} \cup IdsIn(s) /\ RowsOf(rows, {e.id} \cup IdsIn(s), bx)
 <2>1. PICK A, B : A = {e.id} /\ B = IdsIn(s) OBVIOUS
 <2>2. A \cap B = {} BY <1>3, <2>1
 <2>3. PICK u \in Seq(ReaderRow) : u = <<e>> BY <1>2
 <2>4. IdsIn(u) = A /\ RowsOf(u, A, bx) /\ rows = u \o s /\ RowsOf(s, B, bx) /\ IdsIn(s) = B
   BY <1>1, <1>2, <2>1, <2>3
 <2>5. RowsOf(u \o s, A \cup B, bx) /\ IdsIn(u \o s) = A \cup B BY <1>1, <2>2, <2>4, RowsTogether
 <2> QED BY <2>1, <2>4, <2>5
<1>5. \A t \in IdsIn(rows) : t = e.id \/ t \in IdsIn(s) BY <1>4
<1>6. bx[e.id].place = l OBVIOUS
<1> QED BY <1>4, <1>5, <1>6 DEF WholeRows

\* A thread that is gone, and is moved away.
LEMMA WholeSettled ==
    ASSUME NEW s, NEW bx, NEW l, NEW gone, NEW f, NEW c, WholeRows(s, bx, l, gone, f, c),
           NEW t \in gone, NEW rest, rest = gone \ {t}, NEW b, b[t].place # l,
           \A u \in Conversations \ {t} : b[u] = bx[u]
    PROVE  WholeRows(s, b, l, rest, f, c)
<1>1. s \in Seq(ReaderRow) /\ RowsOf(s, IdsIn(s), bx) BY DEF WholeRows, RowsOf
<1>2. IdsIn(s) \subseteq Conversations /\ t \notin IdsIn(s) BY <1>1, IdsAre DEF WholeRows
<1>3. \A u \in IdsIn(s) : b[u] = bx[u] BY <1>2
<1>4. RowsOf(s, IdsIn(s), b) BY <1>1, <1>3, RowsInBoth
<1> QED BY <1>2, <1>3, <1>4 DEF WholeRows

\* Rows that need not follow the list.
LEMMA WholeApart ==
    ASSUME NEW s, NEW bx, NEW l, NEW gone, NEW f, NEW c, WholeRows(s, bx, l, gone, f, c), NEW d
    PROVE  WholeRows(s, bx, l, gone, FALSE, d)
  BY DEF WholeRows

\* The first page, of which none is gone.
LEMMA WholePage ==
    ASSUME NEW p \in ReaderPages, NEW bx, NEW l, NEW d, PageFor(p, bx, l, d), NEW c
    PROVE  WholeRows(p.rows, bx, l, {}, FALSE, c)
<1>1. PICK A \in SUBSET Conversations :
          /\ RowsOf(p.rows, A, bx)
          /\ \A t \in Conversations :
                t \in A <=> /\ bx[t].place = l /\ (d = 0 \/ t < d)
                            /\ p.more => t >= p.cursor
  BY DEF PageFor
<1>2. IdsIn(p.rows) = A BY <1>1 DEF RowsOf
<1> QED BY <1>1, <1>2 DEF WholeRows

LEMMA WholeFirst ==
    ASSUME NEW p \in ReaderPages, NEW bx, NEW l, PageFor(p, bx, l, 0),
           NEW f, NEW c, c = IF p.more THEN p.cursor ELSE 0
    PROVE  WholeRows(p.rows, bx, l, {}, f, c)
<1>1. PICK A \in SUBSET Conversations :
          /\ RowsOf(p.rows, A, bx)
          /\ \A t \in Conversations :
                t \in A <=> /\ bx[t].place = l
                            /\ p.more => t >= p.cursor
  BY DEF PageFor
<1>2. IdsIn(p.rows) = A BY <1>1 DEF RowsOf
<1>3. \A t \in Conversations : t \in Nat /\ t >= 0 BY ConstantsOfReader
<1> QED BY <1>1, <1>2, <1>3 DEF WholeRows

\* The page below the rows, put after them.
LEMMA WholeDown ==
    ASSUME NEW s, NEW bx, NEW l, NEW gone, NEW f, NEW d, WholeRows(s, bx, l, gone, f, d),
           d \in Conversations, NEW p \in ReaderPages, PageFor(p, bx, l, d),
           f => \A t \in gone : t >= d, ~f => gone = {}, gone \subseteq Conversations,
           NEW c, c = IF p.more THEN p.cursor ELSE 0,
           NEW rows, rows = s \o RowsWithout(p.rows, IdsIn(s))
    PROVE  WholeRows(rows, bx, l, gone, f, c)
<1>1. PICK A \in SUBSET Conversations :
          /\ RowsOf(p.rows, A, bx)
          /\ \A t \in Conversations :
                t \in A <=> /\ bx[t].place = l /\ (d = 0 \/ t < d)
                            /\ p.more => t >= p.cursor
  BY DEF PageFor
<1>2. d \in Nat /\ d # 0 /\ \A t \in Conversations : t \in Nat BY ConstantsOfReader
<1>3. s \in Seq(ReaderRow) /\ RowsOf(s, IdsIn(s), bx) /\ IdsIn(s) \in SUBSET Conversations
  BY IdsAre DEF WholeRows, RowsOf
<1>4. IdsIn(p.rows) = A /\ p.rows \in Seq(ReaderRow) BY <1>1 DEF RowsOf
<1>5. PICK u \in Seq(ReaderRow) : /\ u = RowsWithout(p.rows, IdsIn(s))
                                  /\ IdsIn(u) = A \ IdsIn(s) /\ RowsOf(u, A \ IdsIn(s), bx)
  BY <1>1, <1>4, RowsLess
<1>6. IdsIn(rows) = IdsIn(s) \cup A /\ RowsOf(rows, IdsIn(s) \cup A, bx)
 <2>1. IdsIn(s) \cap (A \ IdsIn(s)) = {} /\ IdsIn(s) \cup (A \ IdsIn(s)) = IdsIn(s) \cup A
   OBVIOUS
 <2>2. rows = s \o u BY <1>5
 <2> QED BY <1>3, <1>5, <2>1, <2>2, RowsTogether
<1>7. \A t \in A : t \in Conversations /\ bx[t].place = l /\ t < d /\ (p.more => t >= p.cursor)
  BY <1>1, <1>2
<1>8. A \cap gone = {}
 <2>1. ASSUME NEW t \in A, t \in gone PROVE FALSE BY <1>2, <1>7, <2>1
 <2> QED BY <2>1
<1>9. c \in Nat /\ (p.more => c < d) /\ (~p.more => c = 0)
  BY <1>2, ConstantsOfReader DEF PageFor, ReaderPages
<1>10. ASSUME f, NEW t \in IdsIn(rows) PROVE t >= c
 <2>1. CASE t \in A BY <1>2, <1>7, <1>9, <2>1
 <2>2. CASE t \in IdsIn(s)
  <3>1. t >= d /\ t \in Nat BY <1>2, <1>3, <1>10, <2>2 DEF WholeRows
  <3> QED BY <1>2, <1>9, <3>1
 <2> QED BY <1>6, <2>1, <2>2
<1>11. ASSUME f, NEW t \in Conversations, bx[t].place = l, t >= c
       PROVE  t \in IdsIn(rows) \cup gone
 <2>1. CASE t >= d BY <1>6, <1>11, <2>1 DEF WholeRows
 <2>2. CASE t < d
  <3>1. p.more => t >= p.cursor BY <1>11
  <3> QED BY <1>1, <1>6, <1>11, <2>2, <3>1
 <2> QED BY <1>2, <2>1, <2>2
<1>12. \A t \in IdsIn(rows) : bx[t].place = l BY <1>6, <1>7 DEF WholeRows
<1>13. IdsIn(rows) \cap gone = {} BY <1>6, <1>8 DEF WholeRows
<1> QED BY <1>6, <1>10, <1>11, <1>12, <1>13 DEF WholeRows

-------------------------------------------------------------------------------
(* The reader: its invariant. *)

\* A reply that is sent lengthens a thread by one message when the server has it.
ShortRows(s, n) == \A i \in DOMAIN s : s[i].length <= n

Due(w) == {r.n : r \in {x \in w : x.kind = "reply" /\ ~x.served}}

LengthsFit(bx, s, lv, w, n) ==
    /\ ShortRows(s, n) /\ \A d \in lv : d.row.length <= n
    /\ \A r \in w : ShortRows(r.next, n) /\ ShortRows(r.got.rows, n)
    /\ \A q, r \in w : q.kind = "reply" /\ r.kind = "reply" /\ q.n = r.n => q = r
    /\ \A t \in Conversations : bx[t].length + Cardinality(Due(w)) <= n

ReaderLengths == LengthsFit(mailbox, threads, leaving, wires, reads + 1)

GoneOf(lv) == {d.row.id : d \in lv}
EdgeOf(m, at) == IF m THEN at ELSE 0

\* The threads that leave are of label l, and of what the list has reached.
LeavingFits(lv, bx, l, f, c) ==
    /\ \A d, e \in lv : d.row.id = e.row.id => d = e
    /\ \A d \in lv : /\ d.row = bx[d.row.id] /\ d.row.place = l /\ d.to # l
                     /\ f => d.row.id >= c

\* What the page has when a request is answered, and when it fails.
RowsAfter(r, s) == IF r.kind \in {"late", "refresh", "more"} THEN s ELSE r.next
RowsBack(r, s) == IF r.kind = "late" THEN r.next \o s ELSE s

\* The only request under way: its rows are right once the server has done it.
WireFits(r, s, bx, l, lv, m, at, f) ==
    /\ r.kind # "label" /\ r.ids \cap GoneOf(lv) = {}
    /\ r.kind = "refresh" => ~f /\ lv = {}
    /\ r.kind = "more" => m /\ at # 0 /\ r.at = at /\ (~f => lv = {})
    /\ r.kind \in {"refresh", "more"} => r.to = l /\ r.ids = {}
    /\ r.served => /\ WholeRows(RowsAfter(r, s), bx, l, GoneOf(lv), f, EdgeOf(m, at))
                   /\ r.kind = "refresh" => PageFor(r.got, bx, l, 0)
                   /\ r.kind = "more" => PageFor(r.got, bx, l, at)
    /\ ~r.served => /\ WholeRows(RowsBack(r, s), bx, l, GoneOf(lv), f, EdgeOf(m, at))
                    /\ WholeRows(RowsAfter(r, s), BoxWith(r.kind, r.to, r.ids, bx), l,
                             GoneOf(lv), f, EdgeOf(m, at))

ThreadsSettled(bx, l, s, at, m, f, lv, w) ==
    /\ LeavingFits(lv, bx, l, f, EdgeOf(m, at))
    /\ \A q, r \in w : q = r
    /\ w = {} => WholeRows(s, bx, l, GoneOf(lv), f, EdgeOf(m, at))
    /\ \A r \in w : WireFits(r, s, bx, l, lv, m, at, f)

Settled ==
    ~replaced => ThreadsSettled(mailbox, shownLabel, threads, cursorAt, moreRows, follows,
                                leaving, wires)

LabelWireOK(r, k) ==
    r \in [n: Nat, kind: {"create", "delete"}, of: 1 .. k, kept: SUBSET (1 .. k), served: BOOLEAN]

LabelTypes ==
    /\ userLabels \in SUBSET (1 .. reads + 1) /\ labelsThere \in SUBSET (1 .. reads + 1)
    /\ \A r \in labelWires : LabelWireOK(r, reads + 1)

LabelsAfter(r) == IF r.kind = "create" THEN r.kept \cup {r.of} ELSE r.kept \ {r.of}

\* The labels of the page are those of the server, or will be when the request is answered.
LabelsSettled ==
    /\ readerPart = "threads" => labelWires = {} /\ ~creating
    /\ creating => \E r \in labelWires : r.kind = "create"
    /\ readerPart = "threads" \/ ~replaced =>
          /\ \A q, r \in labelWires : q = r
          /\ labelWires = {} => userLabels = labelsThere
          /\ \A r \in labelWires :
                /\ r.kept = userLabels
                /\ labelsThere = IF r.served THEN LabelsAfter(r) ELSE userLabels

ReaderInv ==
    ReaderTypes /\ ReaderBits /\ ReaderLengths /\ Settled /\ LabelTypes /\ LabelsSettled

-------------------------------------------------------------------------------
(* The reader: what is not disturbed. *)

LEMMA UndoOn ==
    /\ \A u : \A m, n \in Nat : m <= n /\ UndoFits(u, m) => UndoFits(u, n)
    /\ \A n : UndoFits({}, n)
  BY IdsAre DEF UndoFits, ReaderRow

LEMMA NumbersUp ==
    \A m, n \in Nat : m <= n => /\ m + 1 \in Nat /\ n + 1 \in Nat /\ m + 1 <= n + 1
                                /\ \A k \in 1 .. m + 1 : k \in 1 .. n + 1
  OBVIOUS

LEMMA DueIs ==
    ASSUME ReaderTypes
    PROVE  IsFiniteSet(Due(wires)) /\ Cardinality(Due(wires)) \in Nat /\ Due(wires) \subseteq 0 .. reads
<1>1. reads \in Nat /\ \A r \in wires : r.n \in 0 .. reads
  BY ConstantsOfReader DEF ReaderTypes, WireOK, ReaderWires
<1>2. Due(wires) \subseteq 0 .. reads BY <1>1 DEF Due
<1>3. IsFiniteSet(0 .. reads) BY <1>1, FS_Interval
<1> QED BY <1>2, <1>3, FS_Subset, FS_CardinalityType

LEMMA DueSame ==
    ASSUME NEW Q, NEW w, Carried(Q, w)
    PROVE  /\ Due(Q) = Due(w)
           /\ (\A q, r \in w : q.kind = "reply" /\ r.kind = "reply" /\ q.n = r.n => q = r)
                 => \A q, r \in Q : q.kind = "reply" /\ r.kind = "reply" /\ q.n = r.n => q = r
<1>1. /\ \A q \in Q : \E r \in w : SameWires(q, r)
      /\ \A r \in w : \E q \in Q : SameWires(q, r)
  BY CarriedOnes
<1>2. PICK f : Q = {f[r] : r \in w} /\ \A r \in w : SameWires(f[r], r) BY DEF Carried
<1>3. \A q \in Q : \E r \in w : q = f[r] /\ SameWires(q, r) BY <1>2
<1>4. \A q, r : SameWires(q, r) => q.n = r.n /\ q.kind = r.kind /\ q.served = r.served
  BY DEF SameWires
<1>5. ASSUME NEW k \in Due(Q) PROVE k \in Due(w)
 <2>1. PICK q \in Q : q.kind = "reply" /\ ~q.served /\ k = q.n BY DEF Due
 <2>2. PICK r \in w : SameWires(q, r) BY <1>1
 <2> QED BY <1>4, <2>1, <2>2 DEF Due
<1>6. ASSUME NEW k \in Due(w) PROVE k \in Due(Q)
 <2>1. PICK r \in w : r.kind = "reply" /\ ~r.served /\ k = r.n BY DEF Due
 <2>2. PICK q \in Q : SameWires(q, r) BY <1>1
 <2> QED BY <1>4, <2>1, <2>2 DEF Due
<1>7. ASSUME \A q, r \in w : q.kind = "reply" /\ r.kind = "reply" /\ q.n = r.n => q = r,
             NEW a \in Q, NEW b \in Q, a.kind = "reply", b.kind = "reply", a.n = b.n
      PROVE  a = b
 <2>1. PICK q \in w : a = f[q] /\ SameWires(a, q) BY <1>3
 <2>2. PICK r \in w : b = f[r] /\ SameWires(b, r) BY <1>3
 <2>3. q = r BY <1>4, <1>7, <2>1, <2>2
 <2> QED BY <2>1, <2>2, <2>3
<1> QED BY <1>5, <1>6, <1>7

LEMMA LongerRows ==
    ASSUME NEW s \in Seq(ReaderRow), NEW m \in Nat, NEW n \in Nat, m <= n, ShortRows(s, m)
    PROVE  ShortRows(s, n)
<1>1. \A i \in DOMAIN s : s[i].length \in Nat BY IdsAre DEF ReaderRow
<1> QED BY <1>1 DEF ShortRows

LEMMA TypesOfWires ==
    ASSUME NEW r, WireOK(r)
    PROVE  /\ r.n \in Nat /\ r.kind \in WireKinds /\ ToFits(r.kind, r.to)
           /\ r.ids \in SUBSET Conversations /\ r.next \in Seq(ReaderRow)
           /\ r.at \in Conversations \cup {0} /\ r.served \in BOOLEAN /\ r.got \in ReaderPages
           /\ r.got.rows \in Seq(ReaderRow) /\ r.closes \in BOOLEAN /\ r.clears \in BOOLEAN
           /\ (r.kind = "late" => r.next # <<>>)
  BY DEF WireOK, ReaderWires, ReaderPages

\* More may be long, and the requests may be for nobody.
LEMMA LengthsKept ==
    ASSUME NEW bx \in MailBoxes, NEW s \in Seq(ReaderRow), NEW lv, NEW w, NEW Q, NEW m \in Nat,
           NEW n \in Nat, m <= n, LengthsFit(bx, s, lv, w, m), Carried(Q, w),
           \A d \in lv : d.row \in ReaderRow, \A r \in w : WireOK(r),
           Cardinality(Due(w)) \in Nat
    PROVE  LengthsFit(bx, s, lv, Q, n)
<1>1. ShortRows(s, n) BY LongerRows DEF LengthsFit
<1>2. \A d \in lv : d.row.length <= n
 <2>1. \A d \in lv : d.row.length \in Nat /\ d.row.length <= m BY DEF ReaderRow, LengthsFit
 <2> QED BY <2>1
<1>3. ASSUME NEW q \in Q PROVE ShortRows(q.next, n) /\ ShortRows(q.got.rows, n)
 <2>1. PICK r \in w : SameWires(q, r) BY CarriedOnes
 <2>2. r.next \in Seq(ReaderRow) /\ r.got.rows \in Seq(ReaderRow) BY TypesOfWires
 <2>3. ShortRows(r.next, n) /\ ShortRows(r.got.rows, n) BY <2>2, LongerRows DEF LengthsFit
 <2> QED BY <2>1, <2>3 DEF SameWires
<1>4. \A t \in Conversations : bx[t].length + Cardinality(Due(Q)) <= n
 <2>1. Due(Q) = Due(w) BY DueSame
 <2>2. \A t \in Conversations : bx[t].length \in Nat BY DEF MailBoxes, ReaderRow
 <2>3. PICK k \in Nat : k = Cardinality(Due(w)) OBVIOUS
 <2>4. \A t \in Conversations : bx[t].length + k <= m BY <2>3 DEF LengthsFit
 <2> QED BY <2>1, <2>2, <2>3, <2>4
<1>5. \A q, r \in Q : q.kind = "reply" /\ r.kind = "reply" /\ q.n = r.n => q = r
  BY DueSame DEF LengthsFit
<1> QED BY <1>1, <1>2, <1>3, <1>4, <1>5 DEF LengthsFit

LEMMA SettledKept ==
    ASSUME NEW bx, NEW l, NEW s, NEW at, NEW m, NEW f, NEW lv, NEW w, NEW Q, Carried(Q, w),
           ThreadsSettled(bx, l, s, at, m, f, lv, w)
    PROVE  ThreadsSettled(bx, l, s, at, m, f, lv, Q)
<1>1. /\ \A q \in Q : \E r \in w : SameWires(q, r)
      /\ w = {} <=> Q = {}
      /\ (\A q, r \in w : q = r) => \A q, r \in Q : q = r
  BY CarriedOnes
<1>2. ASSUME NEW q \in Q PROVE WireFits(q, s, bx, l, lv, m, at, f)
 <2>1. PICK r \in w : SameWires(q, r) BY <1>1
 <2>2. WireFits(r, s, bx, l, lv, m, at, f) BY DEF ThreadsSettled
 <2>3. RowsAfter(q, s) = RowsAfter(r, s) /\ RowsBack(q, s) = RowsBack(r, s)
   BY <2>1 DEF RowsAfter, RowsBack, SameWires
 <2> QED BY <2>1, <2>2, <2>3 DEF WireFits, SameWires
<1> QED BY <1>1, <1>2 DEF ThreadsSettled

LEMMA LabelsKept ==
    ASSUME LabelTypes, LabelsSettled, UNCHANGED <<labelVars, readerPart>>,
           reads \in Nat, reads' \in Nat, reads <= reads',
           readerPart = "threads" \/ (~replaced' => ~replaced)
    PROVE  LabelTypes' /\ LabelsSettled'
<1>1. /\ userLabels' = userLabels /\ labelsThere' = labelsThere /\ labelWires' = labelWires
      /\ creating' = creating /\ readerPart' = readerPart
  BY DEF labelVars
<1>2. \A k \in 1 .. reads + 1 : k \in 1 .. reads' + 1
 <2>1. PICK m \in Nat, n \in Nat : m = reads /\ n = reads' /\ m <= n OBVIOUS
 <2>2. \A k \in 1 .. m + 1 : k \in 1 .. n + 1 BY <2>1, NumbersUp
 <2> QED BY <2>1, <2>2
<1>3. LabelTypes' BY <1>1, <1>2 DEF LabelTypes, LabelWireOK
<1>4. LabelsSettled' BY <1>1 DEF LabelsSettled
<1> QED BY <1>3, <1>4

\* The page turns, and neither the rows nor the requests do.
QuietStep ==
    /\ UNCHANGED <<labelVars, readerPart, mailbox, shownLabel, threads, cursorAt, moreRows,
                   leaving, follows, replaced>>
    /\ Carried(wires', wires)
    /\ reads' \in 0 .. MaxReads /\ reads <= reads'
    /\ openThread' \in Conversations \cup {0} /\ ticks' \in SUBSET Conversations
    /\ UndoFits(undoOf', reads') /\ refreshing' \in BOOLEAN /\ replyOpen' \in BOOLEAN
    /\ labelNamed' \in BOOLEAN

LEMMA QuietKeeps ==
    ASSUME ReaderInv, QuietStep
    PROVE  ReaderInv'
<1>1. /\ readerPart' = readerPart /\ mailbox' = mailbox /\ shownLabel' = shownLabel
      /\ threads' = threads /\ cursorAt' = cursorAt /\ moreRows' = moreRows
      /\ leaving' = leaving /\ follows' = follows /\ replaced' = replaced
      /\ creating' = creating /\ UNCHANGED labelVars
  BY DEF QuietStep, labelVars
<1>2. reads \in Nat /\ reads' \in Nat /\ reads <= reads'
  BY ConstantsOfReader DEF QuietStep, ReaderInv, ReaderTypes
<1>3. ReaderTypes'
 <2>1. \A r \in wires' : WireOK(r) /\ r.n <= reads'
  <3>1. ASSUME NEW q \in wires' PROVE WireOK(q) /\ q.n <= reads'
   <4>1. WireOK(q) /\ \E r \in wires : SameWires(q, r) BY CarriedOnes DEF QuietStep
   <4>2. PICK r \in wires : q.n = r.n BY <4>1 DEF SameWires
   <4>3. r.n <= reads /\ r.n \in Nat BY TypesOfWires DEF ReaderInv, ReaderTypes
   <4> QED BY <1>2, <4>1, <4>2, <4>3
  <3> QED BY <3>1
 <2>2. \A d \in leaving' : d \in [n: 1 .. reads', row: ReaderRow, to: ReaderLabels]
  <3>1. \A k \in 1 .. reads : k \in 1 .. reads' BY <1>2
  <3> QED BY <1>1, <3>1 DEF ReaderInv, ReaderTypes
 <2>3. reads' \in 0 .. MaxReads /\ UndoFits(undoOf', reads') /\ ticks' \in SUBSET Conversations
       /\ openThread' \in Conversations \cup {0}
   BY DEF QuietStep
 <2> QED BY <1>1, <2>1, <2>2, <2>3 DEF ReaderInv, ReaderTypes
<1>4. ReaderBits' BY <1>1 DEF ReaderInv, ReaderBits, QuietStep
<1>5. ReaderLengths'
 <2>1. /\ mailbox \in MailBoxes /\ threads \in Seq(ReaderRow) /\ \A r \in wires : WireOK(r)
       /\ LengthsFit(mailbox, threads, leaving, wires, reads + 1)
   BY DEF ReaderInv, ReaderTypes, ReaderLengths
 <2>2. Cardinality(Due(wires)) \in Nat BY DueIs DEF ReaderInv
 <2>3. \A d \in leaving : d.row \in ReaderRow BY DEF ReaderInv, ReaderTypes
 <2>4. PICK i \in Nat, j \in Nat : i = reads /\ j = reads' /\ i <= j BY <1>2
 <2>5. PICK m \in Nat, n \in Nat : m = reads + 1 /\ n = reads' + 1 /\ m <= n
  <3>1. i + 1 \in Nat /\ j + 1 \in Nat /\ i + 1 <= j + 1 BY <2>4, NumbersUp
  <3> QED BY <2>4, <3>1
 <2>6. Carried(wires', wires) BY DEF QuietStep
 <2>7. LengthsFit(mailbox, threads, leaving, wires', n)
   BY <2>1, <2>2, <2>3, <2>5, <2>6, LengthsKept
 <2> QED BY <1>1, <2>5, <2>7 DEF ReaderLengths
<1>6. Settled'
 <2>1. ASSUME ~replaced'
       PROVE  ThreadsSettled(mailbox, shownLabel, threads, cursorAt, moreRows, follows, leaving,
                             wires')
  <3>1. ThreadsSettled(mailbox, shownLabel, threads, cursorAt, moreRows, follows, leaving, wires)
    BY <1>1, <2>1 DEF ReaderInv, Settled
  <3>2. Carried(wires', wires) BY DEF QuietStep
  <3> QED BY <3>1, <3>2, SettledKept
 <2> QED BY <1>1, <2>1 DEF Settled
<1>7. LabelTypes' /\ LabelsSettled' BY <1>1, <1>2, LabelsKept DEF ReaderInv
<1> QED BY <1>3, <1>4, <1>5, <1>6, <1>7 DEF ReaderInv

-------------------------------------------------------------------------------
(* The reader: actions that leave the rows as they are. *)

LEMMA ShownAre ==
    ASSUME threads \in Seq(ReaderRow)
    PROVE  /\ IsSelection(RowsShown, threads,
                          {i \in DOMAIN threads : threads[i].place = shownLabel})
           /\ IdsIn(RowsShown) \subseteq IdsIn(threads)
           /\ IdsIn(threads) \subseteq Conversations
<1> DEFINE P == {i \in DOMAIN threads : threads[i].place = shownLabel}
<1>1. P \in SUBSET DOMAIN threads OBVIOUS
<1>2. PICK rows : rows = RowsShown OBVIOUS
<1>3. rows = Chosen(threads, P) BY <1>2 DEF RowsShown
<1> HIDE DEF P
<1>4. IsSelection(rows, threads, P) BY <1>1, <1>3, ChosenRows
<1>5. \A i \in DOMAIN rows : \E k \in P : rows[i] = threads[k] BY <1>4 DEF IsSelection
<1>6. IdsIn(rows) \subseteq IdsIn(threads) BY <1>1, <1>5 DEF IdsIn
<1>7. IdsIn(threads) \subseteq Conversations BY IdsAre
<1> QED BY <1>2, <1>4, <1>6, <1>7 DEF P

LEMMA HoldsCarries ==
    ASSUME NEW w, \A r \in w : WireOK(r), NEW s, NEW t, Holds(s, t, w)
    PROVE  threads' = s /\ openThread' = t /\ Carried(wires', w)
<1>1. PICK b \in BOOLEAN : b = (t \in IdsIn(s))
 <2>1. CASE t \in IdsIn(s)
  <3>1. TRUE = (t \in IdsIn(s)) /\ TRUE \in BOOLEAN BY <2>1, Zenon
  <3> QED BY <3>1, Zenon
 <2>2. CASE ~(t \in IdsIn(s))
  <3>1. FALSE = (t \in IdsIn(s)) BY <2>2
  <3> QED BY <3>1, Zenon
 <2> QED BY <2>1, <2>2
<1>2. PICK Q : Q = wires' OBVIOUS
<1>3. threads' = s /\ openThread' = t /\ Q = {[r EXCEPT !.mine = @ /\ t \in IdsIn(s)] : r \in w}
  BY <1>2 DEF Holds
<1>4. Q = {[r EXCEPT !.mine = @ /\ b] : r \in w} BY <1>1, <1>3, Zenon
<1>5. Carried(Q, w) BY <1>4, MineCarried
<1> QED BY <1>2, <1>3, <1>5

LEMMA ReadActIs ==
    ASSUME ReaderTypes, NEW p, ReadAct(p)
    PROVE  /\ readerPart = p /\ readerPart' = readerPart /\ reads \in Nat /\ reads' = reads + 1
           /\ reads' \in Nat /\ reads <= reads' /\ reads' \in 0 .. MaxReads
           /\ \A k \in 0 .. reads : k \in 0 .. reads'
<1>1. reads \in Nat /\ reads < MaxReads /\ reads' = reads + 1 /\ MaxReads \in Nat
      /\ readerPart = p /\ readerPart' = p
  BY ConstantsOfReader DEF ReaderTypes, ReadAct
<1>2. PICK m \in Nat, k \in Nat : m = reads /\ k = MaxReads BY <1>1
<1>3. m < k BY <1>1, <1>2
<1>4. m + 1 \in Nat /\ m <= m + 1 /\ m + 1 \in 0 .. k /\ \A i \in 0 .. m : i \in 0 .. m + 1 BY <1>3
<1> QED BY <1>1, <1>2, <1>4

LEMMA NoTime ==
    ASSUME ReaderTypes, UNCHANGED reads
    PROVE  reads' = reads /\ reads' \in 0 .. MaxReads /\ reads \in Nat /\ reads <= reads'
<1>1. reads \in 0 .. MaxReads /\ MaxReads \in Nat /\ reads' = reads
  BY ConstantsOfReader DEF ReaderTypes
<1>2. PICK m \in Nat : m = reads /\ m <= m BY <1>1
<1> QED BY <1>1, <1>2

\* The handlers that only turn the page.
LEMMA ActsAreQuiet ==
    ASSUME ReaderInv, ReadAct("threads"),
           UNCHANGED <<labelVars, mailbox, shownLabel, cursorAt, moreRows, leaving, follows,
                       replaced>>,
           threads' = threads, Carried(wires', wires), openThread' \in Conversations \cup {0},
           ticks' \in SUBSET Conversations, undoOf' = undoOf \/ undoOf' = {},
           refreshing' = refreshing, replyOpen' \in BOOLEAN
    PROVE  ReaderInv'
<1>1. ReaderTypes BY DEF ReaderInv
<1>2. /\ readerPart' = readerPart /\ reads <= reads' /\ reads' \in 0 .. MaxReads
      /\ \A k \in 0 .. reads : k \in 0 .. reads'
      /\ reads' \in Nat
  BY <1>1, ReadActIs
<1>3. UndoFits(undoOf', reads')
 <2>1. UndoFits(undoOf, reads) /\ reads \in Nat BY <1>1, ConstantsOfReader DEF ReaderTypes
 <2> QED BY <1>2, <2>1, UndoOn
<1>4. labelNamed' \in BOOLEAN /\ refreshing' \in BOOLEAN BY DEF ReaderInv, ReaderBits, labelVars
<1>5. QuietStep BY <1>2, <1>3, <1>4 DEF QuietStep
<1> QED BY <1>5, QuietKeeps

LEMMA WiresCarried ==
    ASSUME ReaderInv
    PROVE  /\ \A r \in wires : WireOK(r)
           /\ wires' = wires => Carried(wires', wires)
<1>1. \A r \in wires : WireOK(r) BY DEF ReaderInv, ReaderTypes
<1>2. Carried(wires, wires) BY <1>1, SameCarried
<1> QED BY <1>1, <1>2

LEMMA OpenRowKeeps ==
    ASSUME ReaderInv, NEW t \in Conversations, OpenRow(t)
    PROVE  ReaderInv'
<1>1. /\ threads' = threads /\ openThread' = t /\ Carried(wires', wires)
  BY WiresCarried, HoldsCarries DEF OpenRow
<1>2. /\ UNCHANGED <<labelVars, mailbox, shownLabel, cursorAt, moreRows, leaving, follows, replaced>>
      /\ ticks' = ticks /\ undoOf' = undoOf /\ refreshing' = refreshing /\ replyOpen' = replyOpen
      /\ ReadAct("threads")
  BY DEF OpenRow
<1>3. ticks' \in SUBSET Conversations /\ replyOpen' \in BOOLEAN
  BY <1>2 DEF ReaderInv, ReaderTypes, ReaderBits
<1> QED BY <1>1, <1>2, <1>3, ActsAreQuiet

LEMMA BackToRowsKeeps ==
    ASSUME ReaderInv, BackToRows
    PROVE  ReaderInv'
<1>1. /\ threads' = threads /\ openThread' = 0 /\ Carried(wires', wires)
  BY WiresCarried, HoldsCarries DEF BackToRows
<1>2. /\ UNCHANGED <<labelVars, mailbox, shownLabel, cursorAt, moreRows, leaving, follows, replaced>>
      /\ ticks' = ticks /\ undoOf' = undoOf /\ refreshing' = refreshing /\ replyOpen' = replyOpen
      /\ ReadAct("threads")
  BY DEF BackToRows
<1>3. ticks' \in SUBSET Conversations /\ replyOpen' \in BOOLEAN
  BY <1>2 DEF ReaderInv, ReaderTypes, ReaderBits
<1> QED BY <1>1, <1>2, <1>3, ActsAreQuiet

LEMMA TicksKeep ==
    ASSUME ReaderInv, (\E t \in Conversations : TickRow(t)) \/ TickAll \/ NoneUnread
    PROVE  ReaderInv'
<1>1. /\ UNCHANGED <<labelVars, mailbox, shownLabel, cursorAt, moreRows, leaving, follows, replaced>>
      /\ undoOf' = undoOf \/ undoOf' = {}
      /\ refreshing' = refreshing /\ replyOpen' = replyOpen
      /\ ReadAct("threads") /\ threads' = threads /\ openThread' = openThread /\ wires' = wires
  BY DEF TickRow, TickAll, NoneUnread, listVars
<1>2. ticks' \in SUBSET Conversations
 <2>1. ticks \in SUBSET Conversations /\ IdsIn(threads) \in SUBSET Conversations
   BY IdsAre DEF ReaderInv, ReaderTypes
 <2> QED BY <2>1 DEF TickRow, TickAll, NoneUnread
<1>3. openThread' \in Conversations \cup {0} /\ replyOpen' \in BOOLEAN
  BY <1>1 DEF ReaderInv, ReaderTypes, ReaderBits
<1>4. Carried(wires', wires) BY <1>1, WiresCarried
<1> QED BY <1>1, <1>2, <1>3, <1>4, ActsAreQuiet

LEMMA TurnReplyKeeps ==
    ASSUME ReaderInv, TurnReply
    PROVE  ReaderInv'
<1>1. /\ UNCHANGED <<labelVars, mailbox, shownLabel, cursorAt, moreRows, leaving, follows, replaced>>
      /\ ticks' = ticks /\ undoOf' = undoOf /\ refreshing' = refreshing
      /\ ReadAct("threads") /\ threads' = threads /\ openThread' = openThread
      /\ replyOpen' = ~replyOpen
      /\ wires' = {[r EXCEPT !.mine = @ /\ ~replyOpen] : r \in wires}
  BY DEF TurnReply, listVars
<1>2. PICK b \in BOOLEAN : b = ~replyOpen OBVIOUS
<1>3. PICK Q : Q = wires' OBVIOUS
<1>4. Q = {[r EXCEPT !.mine = @ /\ b] : r \in wires} BY <1>1, <1>2, <1>3, Zenon
<1>5. Carried(Q, wires) BY <1>4, WiresCarried, MineCarried
<1>6. Carried(wires', wires) /\ replyOpen' \in BOOLEAN BY <1>1, <1>3, <1>5
<1>7. ticks' \in SUBSET Conversations /\ openThread' \in Conversations \cup {0}
  BY <1>1 DEF ReaderInv, ReaderTypes
<1> QED BY <1>1, <1>6, <1>7, ActsAreQuiet

LEMMA MessageHidesKeeps ==
    ASSUME ReaderInv, MessageHides
    PROVE  ReaderInv'
<1>1. /\ UNCHANGED <<labelVars, readerPart, mailbox, shownLabel, cursorAt, moreRows, leaving,
                     follows, replaced>>
      /\ ticks' = ticks /\ undoOf' = {} /\ refreshing' = refreshing /\ replyOpen' = replyOpen
      /\ threads' = threads /\ openThread' = openThread /\ wires' = wires /\ UNCHANGED reads
  BY DEF MessageHides, listVars
<1>2. reads' \in 0 .. MaxReads /\ reads <= reads' /\ reads' \in Nat BY <1>1, NoTime DEF ReaderInv
<1>3. UndoFits(undoOf', reads') BY <1>1, UndoOn
<1>4. Carried(wires', wires) BY <1>1, WiresCarried
<1>5. /\ ticks' \in SUBSET Conversations /\ openThread' \in Conversations \cup {0}
      /\ refreshing' \in BOOLEAN /\ replyOpen' \in BOOLEAN /\ labelNamed' \in BOOLEAN
  BY <1>1 DEF ReaderInv, ReaderTypes, ReaderBits, labelVars
<1>6. QuietStep BY <1>1, <1>2, <1>3, <1>4, <1>5 DEF QuietStep
<1> QED BY <1>6, QuietKeeps

-------------------------------------------------------------------------------
(* The reader: actions that send a request. *)

LEMMA NumbersOn ==
    \A m \in Nat : /\ m + 1 \in Nat /\ m <= m + 1 /\ m + 1 \notin 0 .. m /\ m <= m
                   /\ \A k \in 0 .. m : k \in 0 .. m + 1
                   /\ \A k \in 1 .. m : k \in 1 .. m + 1
                   /\ \A i, j \in Nat : i + j <= m + 1 => i + (j + 1) <= m + 2 /\ i + j <= m + 2
                   /\ \A i, j \in Nat : i <= m + 1 /\ j <= i + 1 => j <= m + 2
                   /\ m + 2 = (m + 1) + 1
  OBVIOUS

\* The request r is sent, and the rows stay.
AskStep(r) ==
    /\ readerPart = "threads" /\ readerPart' = readerPart
    /\ UNCHANGED <<labelVars, mailbox, shownLabel, threads, cursorAt, moreRows, leaving>>
    /\ openThread' = openThread /\ ticks' = ticks /\ undoOf' = undoOf /\ replyOpen' = replyOpen
    /\ wires' = wires \cup {r} /\ WireOK(r) /\ r.n = reads' /\ r.served = FALSE
    /\ r.got.rows = <<>> /\ ShortRows(r.next, reads' + 1)
    /\ reads' = reads + 1 \/ (reads' = reads /\ r.kind # "reply")
    /\ reads' \in 0 .. MaxReads
    /\ refreshing' \in BOOLEAN /\ follows' \in BOOLEAN /\ replaced' \in BOOLEAN

LEMMA AskLengths ==
    ASSUME ReaderInv, NEW r, AskStep(r)
    PROVE  ReaderLengths'
<1>1. /\ mailbox' = mailbox /\ threads' = threads /\ leaving' = leaving
      /\ wires' = wires \cup {r} /\ WireOK(r) /\ r.n = reads' /\ r.served = FALSE
      /\ r.got.rows = <<>> /\ ShortRows(r.next, reads' + 1)
      /\ reads' = reads + 1 \/ (reads' = reads /\ r.kind # "reply")
  BY DEF AskStep
<1>2. /\ ReaderTypes /\ LengthsFit(mailbox, threads, leaving, wires, reads + 1)
      /\ mailbox \in MailBoxes /\ threads \in Seq(ReaderRow)
      /\ \A q \in wires : WireOK(q)
      /\ \A d \in leaving : d.row \in ReaderRow
  BY DEF ReaderInv, ReaderTypes, ReaderLengths
<1>3. reads \in Nat BY <1>2, ConstantsOfReader DEF ReaderTypes
<1>4. IsFiniteSet(Due(wires)) /\ Cardinality(Due(wires)) \in Nat /\ Due(wires) \subseteq 0 .. reads
  BY <1>2, DueIs
<1>5. PICK k \in Nat : k = reads BY <1>3
<1>6. PICK m \in Nat, n \in Nat : m = reads + 1 /\ n = reads' + 1 /\ m <= n
 <2>1. reads' = k + 1 \/ reads' = k BY <1>1, <1>5
 <2>2. PICK j \in Nat : j = reads' /\ k <= j BY <2>1, NumbersOn
 <2>3. k + 1 \in Nat /\ j + 1 \in Nat /\ k + 1 <= j + 1 BY <2>2, NumbersUp
 <2> QED BY <1>5, <2>2, <2>3
<1>7. Carried(wires, wires) BY <1>2, SameCarried
<1>8. LengthsFit(mailbox, threads, leaving, wires, n) BY <1>2, <1>4, <1>6, <1>7, LengthsKept
<1>9. \A q \in wires' : ShortRows(q.next, n) /\ ShortRows(q.got.rows, n)
 <2>1. ShortRows(<<>>, n) BY DEF ShortRows
 <2> QED BY <1>1, <1>6, <1>8, <2>1 DEF LengthsFit
<1>10. CASE r.kind # "reply"
 <2>1. Due(wires') = Due(wires) BY <1>1, <1>10 DEF Due
 <2>2. \A p, q \in wires' : p.kind = "reply" /\ q.kind = "reply" /\ p.n = q.n => p = q
   BY <1>1, <1>8, <1>10 DEF LengthsFit
 <2>3. \A t \in Conversations : mailbox[t].length + Cardinality(Due(wires')) <= n
   BY <1>8, <2>1 DEF LengthsFit
 <2> QED BY <1>1, <1>6, <1>8, <1>9, <2>2, <2>3 DEF LengthsFit, ReaderLengths
<1>11. CASE r.kind = "reply"
 <2>1. reads' = k + 1 /\ r.n = k + 1 /\ n = k + 2
  <3>1. reads' = k + 1 BY <1>1, <1>5, <1>11
  <3> QED BY <1>1, <1>6, <3>1, NumbersOn
 <2>2. Due(wires') = Due(wires) \cup {k + 1} BY <1>1, <1>11, <2>1 DEF Due
 <2>3. k + 1 \notin Due(wires) BY <1>4, <1>5, NumbersOn
 <2>4. Cardinality(Due(wires')) = Cardinality(Due(wires)) + 1 BY <1>4, <2>2, <2>3, FS_AddElement
 <2>5. \A p, q \in wires' : p.kind = "reply" /\ q.kind = "reply" /\ p.n = q.n => p = q
  <3>1. \A q \in wires : q.kind = "reply" => q.n # r.n
   <4>1. \A q \in wires : q.n <= k /\ q.n \in Nat BY <1>2, <1>5, TypesOfWires DEF ReaderTypes
   <4>2. \A q \in wires : q.n # k + 1 BY <4>1
   <4> QED BY <2>1, <4>2
  <3>2. \A p, q \in wires : p.kind = "reply" /\ q.kind = "reply" /\ p.n = q.n => p = q
    BY <1>8 DEF LengthsFit
  <3> QED BY <1>1, <3>1, <3>2
 <2>6. ASSUME NEW t \in Conversations
       PROVE  mailbox[t].length + Cardinality(Due(wires')) <= n
  <3>1. mailbox[t].length \in Nat BY <1>2 DEF MailBoxes, ReaderRow
  <3>2. mailbox[t].length + Cardinality(Due(wires)) <= k + 1 BY <1>2, <1>5 DEF LengthsFit
  <3>3. PICK i \in Nat, j \in Nat : i = mailbox[t].length /\ j = Cardinality(Due(wires))
    BY <1>4, <3>1
  <3>4. i + j <= k + 1 BY <3>2, <3>3
  <3>5. i + (j + 1) <= k + 2 BY <3>4, NumbersOn
  <3> QED BY <2>1, <2>4, <3>3, <3>5
 <2> QED BY <1>1, <1>6, <1>8, <1>9, <2>5, <2>6 DEF LengthsFit, ReaderLengths
<1> QED BY <1>10, <1>11

LEMMA AskingKeeps ==
    ASSUME ReaderInv, NEW r, AskStep(r), Settled'
    PROVE  ReaderInv'
<1>1. /\ readerPart' = readerPart /\ mailbox' = mailbox /\ shownLabel' = shownLabel
      /\ threads' = threads /\ cursorAt' = cursorAt /\ moreRows' = moreRows
      /\ leaving' = leaving /\ creating' = creating /\ labelNamed' = labelNamed
      /\ UNCHANGED labelVars /\ openThread' = openThread /\ ticks' = ticks
      /\ undoOf' = undoOf /\ replyOpen' = replyOpen /\ readerPart = "threads"
  BY DEF AskStep, labelVars
<1>2. /\ reads \in Nat /\ reads' \in Nat /\ reads <= reads'
      /\ \A k \in 0 .. reads : k \in 0 .. reads'
      /\ \A k \in 1 .. reads : k \in 1 .. reads'
 <2>1. reads \in Nat /\ (reads' = reads + 1 \/ reads' = reads)
   BY ConstantsOfReader DEF ReaderInv, ReaderTypes, AskStep
 <2> QED BY <2>1, NumbersOn
<1>3. ReaderTypes'
 <2>1. \A q \in wires' : WireOK(q) /\ q.n <= reads'
  <3>1. ASSUME NEW q \in wires PROVE WireOK(q) /\ q.n <= reads'
   <4>1. WireOK(q) /\ q.n <= reads BY DEF ReaderInv, ReaderTypes
   <4>2. q.n \in Nat BY <4>1, TypesOfWires
   <4> QED BY <1>2, <4>1, <4>2
  <3>2. WireOK(r) /\ r.n <= reads'
   <4>1. WireOK(r) /\ r.n = reads' BY DEF AskStep
   <4> QED BY <1>2, <4>1
  <3> QED BY <3>1, <3>2 DEF AskStep
 <2>2. \A d \in leaving' : d \in [n: 1 .. reads', row: ReaderRow, to: ReaderLabels]
   BY <1>1, <1>2 DEF ReaderInv, ReaderTypes
 <2>3. reads' \in 0 .. MaxReads /\ UndoFits(undoOf', reads')
   BY <1>1, <1>2, UndoOn DEF AskStep, ReaderInv, ReaderTypes
 <2> QED BY <1>1, <2>1, <2>2, <2>3 DEF ReaderInv, ReaderTypes
<1>4. ReaderBits' BY <1>1 DEF ReaderInv, ReaderBits, AskStep
<1>5. ReaderLengths' BY AskLengths
<1>6. LabelTypes' /\ LabelsSettled' BY <1>1, <1>2, LabelsKept DEF ReaderInv
<1> QED BY <1>3, <1>4, <1>5, <1>6 DEF ReaderInv

LEMMA AskSettles ==
    ASSUME ReaderInv, NEW r, AskStep(r), follows' = follows \/ follows' = FALSE,
           ~replaced' => wires = {} /\ ~replaced,
           wires = {} /\ ~replaced' => WireFits(r, threads, mailbox, shownLabel, leaving, moreRows,
                                                cursorAt, follows')
    PROVE  ReaderInv'
<1>1. /\ mailbox' = mailbox /\ shownLabel' = shownLabel
      /\ threads' = threads /\ cursorAt' = cursorAt /\ moreRows' = moreRows
      /\ leaving' = leaving /\ wires' = wires \cup {r}
  BY DEF AskStep
<1>2. ASSUME ~replaced'
      PROVE  ThreadsSettled(mailbox, shownLabel, threads, cursorAt, moreRows, follows', leaving,
                            wires')
 <2>1. wires' = {r} BY <1>1, <1>2
 <2>2. WireFits(r, threads, mailbox, shownLabel, leaving, moreRows, cursorAt, follows') BY <1>2
 <2>3. LeavingFits(leaving, mailbox, shownLabel, follows, EdgeOf(moreRows, cursorAt))
   BY <1>2 DEF ReaderInv, Settled, ThreadsSettled
 <2>4. LeavingFits(leaving, mailbox, shownLabel, follows', EdgeOf(moreRows, cursorAt))
   BY <2>3 DEF LeavingFits
 <2> QED BY <2>1, <2>2, <2>4 DEF ThreadsSettled
<1>3. Settled' BY <1>1, <1>2 DEF Settled
<1> QED BY <1>3, AskingKeeps

\* Nothing is under way.
LEMMA CalmIs ==
    ASSUME ReaderInv, wires = {}, ~replaced
    PROVE  /\ WholeRows(threads, mailbox, shownLabel, GoneOf(leaving), follows,
                    EdgeOf(moreRows, cursorAt))
           /\ LeavingFits(leaving, mailbox, shownLabel, follows, EdgeOf(moreRows, cursorAt))
           /\ IdsIn(threads) \cap GoneOf(leaving) = {}
  BY DEF ReaderInv, Settled, ThreadsSettled, WholeRows

-------------------------------------------------------------------------------
(* The reader: the requests for threads. *)

LEMMA WiredAsks ==
    ASSUME ReaderInv, ReadAct("threads"), NEW r, Wired(r), WireOK(r), NEW kind, NEW to, NEW ts,
           NEW next, NewWire(r, kind, to, ts, next), ShortRows(next, reads' + 1),
           refreshing' \in BOOLEAN, follows' \in BOOLEAN, replaced' \in BOOLEAN
    PROVE  AskStep(r)
<1>1. /\ readerPart = "threads" /\ readerPart' = readerPart /\ reads' = reads + 1
      /\ reads' \in 0 .. MaxReads
  BY ReadActIs DEF ReaderInv
<1>2. /\ UNCHANGED <<labelVars, mailbox, shownLabel, threads, cursorAt, moreRows, leaving>>
      /\ openThread' = openThread /\ ticks' = ticks /\ undoOf' = undoOf /\ replyOpen' = replyOpen
      /\ wires' = wires \cup {r}
  BY DEF Wired, listVars
<1>3. r.n = reads' /\ r.served = FALSE /\ r.got.rows = <<>> /\ r.next = next BY DEF NewWire
<1> QED BY <1>1, <1>2, <1>3 DEF AskStep

LEMMA ShortSelections ==
    ASSUME ReaderInv, reads' = reads + 1, NEW us, NEW next, next = RowsWithout(threads, us)
    PROVE  next \in Seq(ReaderRow) /\ ShortRows(next, reads' + 1)
<1>1. threads \in Seq(ReaderRow) /\ ShortRows(threads, reads + 1) /\ reads \in Nat
  BY ConstantsOfReader DEF ReaderInv, ReaderTypes, ReaderLengths, LengthsFit
<1>2. next \in Seq(ReaderRow) /\ \A i \in DOMAIN next : \E k \in DOMAIN threads : next[i] = threads[k]
  BY <1>1, RowsLess
<1>3. ShortRows(next, reads + 1) BY <1>1, <1>2 DEF ShortRows
<1>4. PICK m \in Nat, n \in Nat : m = reads + 1 /\ n = reads' + 1 /\ m <= n
 <2>1. PICK k \in Nat : k = reads BY <1>1
 <2>2. k + 1 \in Nat /\ k <= k + 1 BY NumbersOn
 <2>3. (k + 1) + 1 \in Nat /\ k + 1 <= (k + 1) + 1 BY <2>2, NumbersOn
 <2> QED BY <2>1, <2>2, <2>3
<1>5. ShortRows(next, n) BY <1>2, <1>3, <1>4, LongerRows
<1> QED BY <1>2, <1>4, <1>5

LEMMA ShortRemade ==
    ASSUME ReaderInv, reads' = reads + 1, NEW kind \in WireKinds, NEW to, ToFits(kind, to),
           NEW us, NEW next, next = Remade(kind, to, us)
    PROVE  next \in Seq(ReaderRow) /\ ShortRows(next, reads' + 1)
<1>1. threads \in Seq(ReaderRow) /\ ShortRows(threads, reads + 1) /\ reads \in Nat
  BY ConstantsOfReader DEF ReaderInv, ReaderTypes, ReaderLengths, LengthsFit
<1>2. /\ next \in Seq(ReaderRow) /\ DOMAIN next = DOMAIN threads
      /\ \A i \in DOMAIN next : next[i].length <= threads[i].length + 1
  BY <1>1, RemadeRows
<1>3. PICK k \in Nat : k = reads BY <1>1
<1>4. reads' + 1 = k + 2
 <2>1. reads' = k + 1 BY <1>3
 <2> QED BY <2>1, NumbersOn
<1>5. ASSUME NEW i \in DOMAIN next PROVE next[i].length <= k + 2
 <2>1. next[i].length \in Nat /\ threads[i].length \in Nat
  <3>1. next[i] \in ReaderRow /\ threads[i] \in ReaderRow BY <1>1, <1>2, IdsAre
  <3> QED BY <3>1 DEF ReaderRow
 <2>2. threads[i].length <= k + 1 /\ next[i].length <= threads[i].length + 1
   BY <1>1, <1>2, <1>3 DEF ShortRows
 <2>3. PICK a \in Nat, b \in Nat : a = threads[i].length /\ b = next[i].length BY <2>1
 <2>4. a <= k + 1 /\ b <= a + 1 BY <2>2, <2>3
 <2>5. b <= k + 2 BY <2>4, NumbersOn
 <2> QED BY <2>3, <2>5
<1> QED BY <1>2, <1>4, <1>5 DEF ShortRows

\* The rows are altered as the server alters the threads.
LEMMA RemadeFits ==
    ASSUME ReaderInv, wires = {}, ~replaced, NEW kind \in FlagKinds, NEW to, ToFits(kind, to),
           NEW ts \in SUBSET IdsIn(threads), NEW us, ts \subseteq us,
           \A t \in IdsIn(threads) : t \in us => t \in ts \/ Altered(kind, to, mailbox[t]) = mailbox[t],
           NEW next, next = Remade(kind, to, us), NEW r, NewWire(r, kind, to, ts, next)
    PROVE  WireFits(r, threads, mailbox, shownLabel, leaving, moreRows, cursorAt, follows)
<1>1. /\ r.kind = kind /\ r.to = to /\ r.ids = ts /\ r.next = next /\ r.served = FALSE
      /\ kind \in WireKinds /\ kind \notin {"label", "refresh", "more", "late", "move"}
  BY DEF NewWire, FlagKinds, WireKinds
<1>2. threads \in Seq(ReaderRow) /\ mailbox \in MailBoxes BY DEF ReaderInv, ReaderTypes
<1>3. /\ WholeRows(threads, mailbox, shownLabel, GoneOf(leaving), follows, EdgeOf(moreRows, cursorAt))
      /\ IdsIn(threads) \cap GoneOf(leaving) = {}
  BY CalmIs
<1>4. PICK b : b = BoxWith(kind, to, ts, mailbox) OBVIOUS
<1>5. BoxAlters(kind, to, ts, mailbox, b) BY <1>1, <1>2, <1>4, BoxIs
<1>6. IdsIn(threads) \in SUBSET Conversations BY <1>2, IdsAre
<1>7. \A t \in IdsIn(threads) : b[t] = IF t \in us THEN Altered(kind, to, mailbox[t]) ELSE mailbox[t]
  BY <1>5, <1>6 DEF BoxAlters
<1>8. RowsOf(threads, IdsIn(threads), mailbox) BY <1>3 DEF WholeRows
<1>9. IdsIn(next) = IdsIn(threads) /\ RowsOf(next, IdsIn(threads), b)
 <2>1. PICK A : A = IdsIn(threads) OBVIOUS
 <2>2. RowsOf(threads, A, mailbox) BY <1>8, <2>1
 <2>3. \A t \in A : b[t] = IF t \in us THEN Altered(kind, to, mailbox[t]) ELSE mailbox[t]
   BY <1>7, <2>1
 <2>4. /\ IdsIn(next) = IdsIn(threads)
       /\ \A B, bx, b1 :
                /\ RowsOf(threads, B, bx)
                /\ \A t \in B : b1[t] = IF t \in us THEN Altered(kind, to, bx[t]) ELSE bx[t]
                => RowsOf(next, B, b1)
   BY <1>1, <1>2, RemadeRows
 <2>5. RowsOf(next, A, b) BY <2>2, <2>3, <2>4
 <2> QED BY <2>1, <2>4, <2>5
<1>10. \A t \in Conversations : b[t].place = mailbox[t].place
  BY <1>1, <1>5 DEF BoxAlters, Alters, MoveKinds
<1>11. WholeRows(next, b, shownLabel, GoneOf(leaving), follows, EdgeOf(moreRows, cursorAt))
  BY <1>3, <1>9, <1>10, WholeRemade
<1>12. RowsAfter(r, threads) = next /\ RowsBack(r, threads) = threads
  BY <1>1 DEF RowsAfter, RowsBack
<1>13. r.ids \cap GoneOf(leaving) = {} BY <1>1, <1>3
<1> QED BY <1>1, <1>3, <1>4, <1>11, <1>12, <1>13 DEF WireFits

\* The threads are moved away, and their rows go.
LEMMA MoveFits ==
    ASSUME ReaderInv, wires = {}, ~replaced, NEW l \in ReaderLabels, l # shownLabel,
           NEW us, NEW ts, ts = us \cap IdsIn(threads),
           NEW next, next = RowsWithout(threads, us), NEW r, NewWire(r, "move", l, ts, next)
    PROVE  WireFits(r, threads, mailbox, shownLabel, leaving, moreRows, cursorAt, follows)
<1>1. /\ r.kind = "move" /\ r.to = l /\ r.ids = ts /\ r.next = next /\ r.served = FALSE
      /\ "move" \in WireKinds /\ "move" \in MoveKinds
  BY DEF NewWire, WireKinds, MoveKinds
<1>2. threads \in Seq(ReaderRow) /\ mailbox \in MailBoxes BY DEF ReaderInv, ReaderTypes
<1>3. /\ WholeRows(threads, mailbox, shownLabel, GoneOf(leaving), follows, EdgeOf(moreRows, cursorAt))
      /\ IdsIn(threads) \cap GoneOf(leaving) = {}
  BY CalmIs
<1>4. PICK b : b = BoxWith("move", l, ts, mailbox) OBVIOUS
<1>5. BoxAlters("move", l, ts, mailbox, b)
 <2>1. ToFits("move", l) BY DEF ToFits, FlagKinds
 <2> QED BY <1>1, <1>2, <1>4, <2>1, BoxIs
<1>6. \A t \in Conversations :
          IF t \in us \cap IdsIn(threads) THEN b[t].place # shownLabel ELSE b[t] = mailbox[t]
  BY <1>1, <1>5 DEF BoxAlters, Alters
<1>7. WholeRows(next, b, shownLabel, GoneOf(leaving), follows, EdgeOf(moreRows, cursorAt))
  BY <1>3, <1>6, WholeMoved
<1>8. RowsAfter(r, threads) = next /\ RowsBack(r, threads) = threads BY <1>1 DEF RowsAfter, RowsBack
<1>9. r.ids \cap GoneOf(leaving) = {} BY <1>1, <1>3
<1> QED BY <1>1, <1>3, <1>4, <1>7, <1>8, <1>9 DEF WireFits

\* A page is asked for: what the page shows stays.
LEMMA PageFits ==
    ASSUME ReaderInv, wires = {}, ~replaced, NEW kind \in {"refresh", "more"}, NEW r,
           NewWire(r, kind, shownLabel, {}, <<>>), NEW f \in BOOLEAN, f = follows \/ f = FALSE,
           kind = "refresh" => f = FALSE /\ leaving = {},
           kind = "more" => moreRows /\ cursorAt # 0 /\ (~f => leaving = {})
    PROVE  WireFits(r, threads, mailbox, shownLabel, leaving, moreRows, cursorAt, f)
<1>1. /\ r.kind = kind /\ r.to = shownLabel /\ r.ids = {} /\ r.next = <<>> /\ r.served = FALSE
      /\ r.at = cursorAt
  BY DEF NewWire
<1>2. WholeRows(threads, mailbox, shownLabel, GoneOf(leaving), follows, EdgeOf(moreRows, cursorAt))
  BY CalmIs
<1>3. WholeRows(threads, mailbox, shownLabel, GoneOf(leaving), f, EdgeOf(moreRows, cursorAt))
 <2>1. CASE f = follows BY <1>2, <2>1
 <2>2. CASE f = FALSE
  <3>1. WholeRows(threads, mailbox, shownLabel, GoneOf(leaving), FALSE, EdgeOf(moreRows, cursorAt))
    BY <1>2, WholeApart
  <3> QED BY <2>2, <3>1
 <2> QED BY <2>1, <2>2
<1>4. mailbox = BoxWith(kind, shownLabel, {}, mailbox)
 <2>1. mailbox \in [Conversations -> ReaderRow] BY DEF ReaderInv, ReaderTypes, MailBoxes
 <2> QED BY <2>1 DEF BoxWith
<1>5. RowsAfter(r, threads) = threads /\ RowsBack(r, threads) = threads
  BY <1>1 DEF RowsAfter, RowsBack
<1> QED BY <1>1, <1>3, <1>4, <1>5 DEF WireFits

LEMMA ViewedIs ==
    ASSUME threads \in Seq(ReaderRow)
    PROVE  /\ Viewed \subseteq IdsIn(threads)
           /\ Viewed # {} => /\ Viewed = {openThread} /\ openThread \in IdsIn(threads)
                             /\ ViewedRow \in ReaderRow /\ ViewedRow.id = openThread
                             /\ \E k \in DOMAIN threads : threads[k] = ViewedRow
<1>1. Viewed \subseteq IdsIn(threads) /\ (Viewed # {} => Viewed = {openThread} /\ openThread \in IdsIn(threads))
  BY DEF Viewed
<1>2. ASSUME openThread \in IdsIn(threads)
      PROVE  /\ ViewedRow \in ReaderRow /\ ViewedRow.id = openThread
             /\ \E k \in DOMAIN threads : threads[k] = ViewedRow
 <2>1. PICK k \in DOMAIN threads : threads[k].id = openThread BY <1>2, IdsAre
 <2>2. threads[k] \in ToSet(threads) BY DEF ToSet
 <2>3. ViewedRow \in ToSet(threads) /\ ViewedRow.id = openThread BY <2>1, <2>2 DEF ViewedRow
 <2>4. PICK i \in DOMAIN threads : threads[i] = ViewedRow BY <2>3 DEF ToSet
 <2>5. threads[i] \in ReaderRow BY IdsAre
 <2> QED BY <2>3, <2>4, <2>5
<1> QED BY <1>1, <1>2

LEMMA EmptyRows == <<>> \in Seq(ReaderRow)
  OBVIOUS

LEMMA AsksMove ==
    ASSUME ReaderInv, NEW l \in ReaderLabels, NEW us, NEW ts, ts = us \cap IdsIn(threads),
           NEW next, next = RowsWithout(threads, us), ReadAct("threads"), NEW r, Wired(r),
           \/ r = [Wire("move", l, ts, next) EXCEPT !.clears = TRUE]
           \/ r = [Wire("move", l, ts, next) EXCEPT !.closes = TRUE],
           MovingTo(l), UNCHANGED <<refreshing, follows>>
    PROVE  ReaderInv'
<1>1. ReaderTypes /\ threads \in Seq(ReaderRow) /\ follows \in BOOLEAN /\ refreshing \in BOOLEAN
  BY DEF ReaderInv, ReaderTypes, ReaderBits
<1>2. reads' = reads + 1 /\ reads' \in Nat BY <1>1, ReadActIs
<1>3. next \in Seq(ReaderRow) /\ ShortRows(next, reads' + 1) BY <1>2, ShortSelections
<1>4. "move" \in WireKinds /\ ToFits("move", l) /\ ts \in SUBSET Conversations
  BY <1>1, IdsAre DEF WireKinds, ToFits, FlagKinds
<1>5. WireOK(r) /\ NewWire(r, "move", l, ts, next) BY <1>1, <1>2, <1>3, <1>4, WireIs
<1>6. replaced' \in BOOLEAN /\ (~replaced' => wires = {} /\ ~replaced /\ l # shownLabel)
  BY DEF MovingTo
<1>7. refreshing' \in BOOLEAN /\ follows' \in BOOLEAN /\ follows' = follows BY <1>1
<1>8. AskStep(r) BY <1>3, <1>5, <1>6, <1>7, WiredAsks
<1>9. wires = {} /\ ~replaced' => WireFits(r, threads, mailbox, shownLabel, leaving, moreRows,
                                           cursorAt, follows')
  BY <1>5, <1>6, <1>7, MoveFits
<1> QED BY <1>6, <1>7, <1>8, <1>9, AskSettles

LEMMA AsksRemade ==
    ASSUME ReaderInv, NEW kind \in FlagKinds, NEW to, ToFits(kind, to),
           NEW ts \in SUBSET IdsIn(threads), NEW us, ts \subseteq us,
           \A t \in IdsIn(threads) : t \in us => t \in ts \/ Altered(kind, to, mailbox[t]) = mailbox[t]
                                                  \/ replaced \/ wires # {},
           NEW next, next = Remade(kind, to, us), ReadAct("threads"), NEW r, Wired(r),
           \/ r = [Wire(kind, to, ts, next) EXCEPT !.clears = TRUE]
           \/ r = Wire(kind, to, ts, next),
           Meeting, UNCHANGED <<refreshing, follows>>
    PROVE  ReaderInv'
<1>1. ReaderTypes /\ threads \in Seq(ReaderRow) /\ follows \in BOOLEAN /\ refreshing \in BOOLEAN
      /\ kind \in WireKinds /\ kind # "late"
  BY DEF ReaderInv, ReaderTypes, ReaderBits, FlagKinds, WireKinds
<1>2. reads' = reads + 1 /\ reads' \in Nat BY <1>1, ReadActIs
<1>3. next \in Seq(ReaderRow) /\ ShortRows(next, reads' + 1) BY <1>1, <1>2, ShortRemade
<1>4. ts \in SUBSET Conversations BY <1>1, IdsAre
<1>5. WireOK(r) /\ NewWire(r, kind, to, ts, next) BY <1>1, <1>2, <1>3, <1>4, WireIs
<1>6. replaced' \in BOOLEAN /\ (~replaced' => wires = {} /\ ~replaced) BY DEF Meeting
<1>7. refreshing' \in BOOLEAN /\ follows' \in BOOLEAN /\ follows' = follows BY <1>1
<1>8. AskStep(r) BY <1>3, <1>5, <1>6, <1>7, WiredAsks
<1>9. ASSUME wires = {}, ~replaced'
      PROVE  WireFits(r, threads, mailbox, shownLabel, leaving, moreRows, cursorAt, follows)
 <2>1. ~replaced BY <1>6, <1>9
 <2>2. \A t \in IdsIn(threads) : t \in us => t \in ts \/ Altered(kind, to, mailbox[t]) = mailbox[t]
   BY <1>9, <2>1
 <2> QED BY <1>5, <1>9, <2>1, <2>2, RemadeFits
<1>10. wires = {} /\ ~replaced' => WireFits(r, threads, mailbox, shownLabel, leaving, moreRows,
                                            cursorAt, follows')
  BY <1>7, <1>9
<1> QED BY <1>6, <1>7, <1>8, <1>10, AskSettles

LEMMA BulkMoveToKeeps ==
    ASSUME ReaderInv, NEW l \in ReaderLabels, BulkMoveTo(l)
    PROVE  ReaderInv'
<1>1. PICK next : next = RowsWithout(threads, ticks) OBVIOUS
<1>2. PICK ts : ts = ticks \cap IdsIn(threads) OBVIOUS
<1>3. PICK r : r = [Wire("move", l, ts, next) EXCEPT !.clears = TRUE] OBVIOUS
<1>4. Wired(r) /\ ReadAct("threads") /\ MovingTo(l) /\ UNCHANGED <<refreshing, follows>>
  BY <1>1, <1>2, <1>3 DEF BulkMoveTo
<1> QED BY <1>1, <1>2, <1>3, <1>4, AsksMove

LEMMA MoveToLabelKeeps ==
    ASSUME ReaderInv, NEW l \in ReaderLabels, MoveToLabel(l)
    PROVE  ReaderInv'
<1>0. threads \in Seq(ReaderRow) BY DEF ReaderInv, ReaderTypes
<1>1. PICK next : next = RowsWithout(threads, Viewed) OBVIOUS
<1>2. PICK ts : ts = Viewed /\ ts = Viewed \cap IdsIn(threads) BY <1>0, ViewedIs
<1>3. PICK r : r = [Wire("move", l, ts, next) EXCEPT !.closes = TRUE] OBVIOUS
<1>4. Wired(r) /\ ReadAct("threads") /\ MovingTo(l) /\ UNCHANGED <<refreshing, follows>>
  BY <1>1, <1>2, <1>3 DEF MoveToLabel
<1>5. PICK us : us = Viewed OBVIOUS
<1>6. next = RowsWithout(threads, us) /\ ts = us \cap IdsIn(threads) BY <1>1, <1>2, <1>5
<1> QED BY <1>3, <1>4, <1>6, AsksMove

LEMMA BulkFlagKeeps ==
    ASSUME ReaderInv, NEW kind \in {"read", "star"}, BulkFlag(kind)
    PROVE  ReaderInv'
<1>1. PICK yes : yes = TRUE OBVIOUS
<1>2. PICK next : next = Remade(kind, yes, ticks) OBVIOUS
<1>3. PICK ts : ts = ticks \cap IdsIn(threads) OBVIOUS
<1>4. PICK r : r = [Wire(kind, yes, ts, next) EXCEPT !.clears = TRUE] OBVIOUS
<1>5. Wired(r) /\ ReadAct("threads") /\ Meeting /\ UNCHANGED <<refreshing, follows>>
  BY <1>1, <1>2, <1>3, <1>4, Zenon DEF BulkFlag
<1>6. kind \in FlagKinds /\ ToFits(kind, yes) BY <1>1 DEF FlagKinds, ToFits
<1>7. ts \in SUBSET IdsIn(threads) /\ ts \subseteq ticks /\ \A t \in IdsIn(threads) : t \in ticks => t \in ts
  BY <1>3
<1> QED BY <1>2, <1>4, <1>5, <1>6, <1>7, AsksRemade

LEMMA ToggleFlagKeeps ==
    ASSUME ReaderInv, NEW kind \in {"read", "star"}, ToggleFlag(kind)
    PROVE  ReaderInv'
<1>0. threads \in Seq(ReaderRow) BY DEF ReaderInv, ReaderTypes
<1>1. PICK to : to = IF kind = "read" THEN ~ViewedRow.read ELSE ~ViewedRow.star OBVIOUS
<1>2. PICK next : next = Remade(kind, to, Viewed) OBVIOUS
<1>3. PICK ts : ts = Viewed OBVIOUS
<1>4. PICK r : r = Wire(kind, to, ts, next) OBVIOUS
<1>5. Wired(r) /\ ReadAct("threads") /\ Meeting /\ UNCHANGED <<refreshing, follows>>
  BY <1>1, <1>2, <1>3, <1>4, Zenon DEF ToggleFlag
<1>6. kind \in FlagKinds /\ ToFits(kind, to) BY <1>1 DEF FlagKinds, ToFits
<1>7. ts \in SUBSET IdsIn(threads) /\ next = Remade(kind, to, ts) BY <1>0, <1>2, <1>3, ViewedIs
<1> QED BY <1>4, <1>5, <1>6, <1>7, AsksRemade

LEMMA SendReplyKeeps ==
    ASSUME ReaderInv, SendReply
    PROVE  ReaderInv'
<1>0. threads \in Seq(ReaderRow) BY DEF ReaderInv, ReaderTypes
<1>1. PICK yes : yes = TRUE OBVIOUS
<1>2. PICK next : next = Remade("reply", yes, Viewed) OBVIOUS
<1>3. PICK ts : ts = Viewed OBVIOUS
<1>4. PICK r : r = Wire("reply", yes, ts, next) OBVIOUS
<1>5. Wired(r) /\ ReadAct("threads") /\ Meeting /\ UNCHANGED <<refreshing, follows>>
  BY <1>1, <1>2, <1>3, <1>4, Zenon DEF SendReply
<1>6. "reply" \in FlagKinds /\ ToFits("reply", yes) BY <1>1 DEF FlagKinds, ToFits
<1>7. ts \in SUBSET IdsIn(threads) /\ next = Remade("reply", yes, ts) BY <1>0, <1>2, <1>3, ViewedIs
<1> QED BY <1>4, <1>5, <1>6, <1>7, AsksRemade

LEMMA MarkAllReadKeeps ==
    ASSUME ReaderInv, MarkAllRead
    PROVE  ReaderInv'
<1>0. threads \in Seq(ReaderRow) /\ mailbox \in MailBoxes BY DEF ReaderInv, ReaderTypes
<1>1. PICK yes : yes = TRUE OBVIOUS
<1>2. PICK us : us = IdsIn(RowsShown) OBVIOUS
<1>3. PICK next : next = Remade("read", yes, us) OBVIOUS
<1>4. PICK ts : ts = {e.id : e \in {x \in ToSet(RowsShown) : ~x.read}} OBVIOUS
<1>5. PICK r : r = Wire("read", yes, ts, next) OBVIOUS
<1>6. Wired(r) /\ ReadAct("threads") /\ Meeting /\ UNCHANGED <<refreshing, follows>>
  BY <1>1, <1>2, <1>3, <1>4, <1>5, Zenon DEF MarkAllRead
<1>7. "read" \in FlagKinds /\ "read" \in WireKinds /\ ToFits("read", yes)
  BY <1>1 DEF FlagKinds, ToFits, WireKinds
<1>8. PICK rows : rows = RowsShown OBVIOUS
<1>9. ts \subseteq us /\ us \subseteq IdsIn(threads)
 <2>1. ts \subseteq us BY <1>2, <1>4, <1>8 DEF IdsIn, ToSet
 <2>2. us \subseteq IdsIn(threads) BY <1>0, <1>2, ShownAre
 <2> QED BY <2>1, <2>2
<1>10. ASSUME ~replaced, wires = {}, NEW t \in us, t \notin ts
       PROVE  Altered("read", yes, mailbox[t]) = mailbox[t]
 <2>1. PICK i \in DOMAIN rows : rows[i].id = t BY <1>2, <1>8 DEF IdsIn
 <2>2. rows[i].read BY <1>4, <1>8, <1>10, <2>1 DEF ToSet
 <2>3. PICK k \in DOMAIN threads : rows[i] = threads[k]
  <3>1. IsSelection(rows, threads, {j \in DOMAIN threads : threads[j].place = shownLabel})
    BY <1>0, <1>8, ShownAre
  <3> QED BY <3>1 DEF IsSelection
 <2>4. WholeRows(threads, mailbox, shownLabel, GoneOf(leaving), follows, EdgeOf(moreRows, cursorAt))
   BY <1>10, CalmIs
 <2>5. threads[k] = mailbox[t] /\ threads[k] \in ReaderRow
   BY <1>0, <2>1, <2>3, <2>4, IdsAre DEF WholeRows, RowsOf
 <2>6. PICK e \in ReaderRow : e = mailbox[t] /\ e.read BY <2>2, <2>3, <2>5
 <2>7. PICK x : x = Altered("read", yes, e) OBVIOUS
 <2>8. Alters("read", yes, e, x) BY <1>7, <2>7, AlteredRow
 <2>9. x = e BY <1>1, <2>6, <2>8 DEF Alters
 <2> QED BY <2>6, <2>7, <2>9
<1>11. \A t \in IdsIn(threads) :
          t \in us => t \in ts \/ Altered("read", yes, mailbox[t]) = mailbox[t] \/ replaced \/ wires # {}
  BY <1>10
<1>12. ts \in SUBSET IdsIn(threads) BY <1>9
<1> QED BY <1>3, <1>5, <1>6, <1>7, <1>9, <1>11, <1>12, AsksRemade

LEMMA BulkApplyLabelKeeps ==
    ASSUME ReaderInv, NEW l \in ReaderLabels, BulkApplyLabel(l)
    PROVE  ReaderInv'
<1>1. PICK next \in Seq(ReaderRow) : next = <<>> BY EmptyRows
<1>2. PICK ts : ts = ticks \cap IdsIn(threads) OBVIOUS
<1>3. PICK r : r = [Wire("label", l, ts, next) EXCEPT !.clears = TRUE] OBVIOUS
<1>4. Wired(r) /\ ReadAct("threads") /\ replaced' = TRUE /\ UNCHANGED <<refreshing, follows>>
  BY <1>1, <1>2, <1>3 DEF BulkApplyLabel
<1>5. ReaderTypes /\ threads \in Seq(ReaderRow) /\ follows \in BOOLEAN /\ refreshing \in BOOLEAN
  BY DEF ReaderInv, ReaderTypes, ReaderBits
<1>6. "label" \in WireKinds /\ ToFits("label", l) /\ ts \in SUBSET Conversations /\ reads' \in Nat
  BY <1>2, <1>4, <1>5, IdsAre, ReadActIs DEF WireKinds, ToFits, FlagKinds
<1>7. WireOK(r) /\ NewWire(r, "label", l, ts, next) BY <1>3, <1>5, <1>6, WireIs
<1>8. ShortRows(next, reads' + 1) BY <1>1 DEF ShortRows
<1>9. refreshing' \in BOOLEAN /\ follows' \in BOOLEAN /\ replaced' \in BOOLEAN /\ replaced'
  BY <1>4, <1>5
<1>10. AskStep(r) BY <1>4, <1>7, <1>8, <1>9, WiredAsks
<1>11. Settled' BY <1>9 DEF Settled
<1> QED BY <1>10, <1>11, AskingKeeps

LEMMA RefreshRowsKeeps ==
    ASSUME ReaderInv, RefreshRows
    PROVE  ReaderInv'
<1>1. PICK next \in Seq(ReaderRow) : next = <<>> BY EmptyRows
<1>2. PICK r : r = Wire("refresh", shownLabel, {}, next) OBVIOUS
<1>3. /\ Wired(r) /\ ReadAct("threads") /\ replaced' = (replaced \/ wires # {} \/ leaving # {})
      /\ refreshing' = TRUE /\ follows' = FALSE
  BY <1>1, <1>2 DEF RefreshRows
<1>4. ReaderTypes /\ shownLabel \in ReaderLabels BY DEF ReaderInv, ReaderTypes
<1>5. "refresh" \in WireKinds /\ ToFits("refresh", shownLabel) /\ reads' \in Nat
      /\ {} \in SUBSET Conversations
  BY <1>3, <1>4, ReadActIs DEF WireKinds, ToFits, FlagKinds
<1>6. WireOK(r) /\ NewWire(r, "refresh", shownLabel, {}, next) BY <1>2, <1>4, <1>5, WireIs
<1>7. ShortRows(next, reads' + 1) BY <1>1 DEF ShortRows
<1>8. refreshing' \in BOOLEAN /\ follows' \in BOOLEAN /\ replaced' \in BOOLEAN
      /\ (~replaced' => wires = {} /\ ~replaced /\ leaving = {})
  BY <1>3
<1>9. AskStep(r) BY <1>3, <1>6, <1>7, <1>8, WiredAsks
<1>10. ASSUME wires = {}, ~replaced'
       PROVE  WireFits(r, threads, mailbox, shownLabel, leaving, moreRows, cursorAt, FALSE)
 <2>1. ~replaced /\ leaving = {} BY <1>8, <1>10
 <2>2. PICK f \in BOOLEAN : f = FALSE OBVIOUS
 <2>3. WireFits(r, threads, mailbox, shownLabel, leaving, moreRows, cursorAt, f)
   BY <1>1, <1>6, <1>10, <2>1, <2>2, PageFits
 <2> QED BY <2>2, <2>3
<1>11. wires = {} /\ ~replaced' => WireFits(r, threads, mailbox, shownLabel, leaving, moreRows,
                                            cursorAt, follows')
  BY <1>3, <1>10
<1> QED BY <1>3, <1>8, <1>9, <1>11, AskSettles

LEMMA FetchMoreKeeps ==
    ASSUME ReaderInv, FetchMore
    PROVE  ReaderInv'
<1>1. PICK next \in Seq(ReaderRow) : next = <<>> BY EmptyRows
<1>2. PICK r : r = Wire("more", shownLabel, {}, next) OBVIOUS
<1>3. /\ Wired(r) /\ readerPart = "threads" /\ readerPart' = readerPart /\ UNCHANGED reads
      /\ replaced' = (replaced \/ wires # {} \/ (leaving # {} /\ ~follows))
      /\ refreshing' = refreshing /\ follows' = follows /\ moreRows /\ cursorAt # 0
  BY <1>1, <1>2 DEF FetchMore
<1>4. ReaderTypes /\ shownLabel \in ReaderLabels /\ refreshing \in BOOLEAN /\ follows \in BOOLEAN
  BY DEF ReaderInv, ReaderTypes, ReaderBits
<1>5. reads' = reads /\ reads' \in 0 .. MaxReads /\ reads \in Nat /\ reads' \in Nat
  BY <1>3, <1>4, NoTime
<1>6. "more" \in WireKinds /\ ToFits("more", shownLabel) /\ {} \in SUBSET Conversations
  BY <1>4 DEF WireKinds, ToFits, FlagKinds
<1>7. WireOK(r) /\ NewWire(r, "more", shownLabel, {}, next) BY <1>2, <1>4, <1>5, <1>6, WireIs
<1>8. ShortRows(next, reads' + 1) BY <1>1 DEF ShortRows
<1>9. refreshing' \in BOOLEAN /\ follows' \in BOOLEAN /\ replaced' \in BOOLEAN
      /\ (~replaced' => wires = {} /\ ~replaced /\ (~follows => leaving = {}))
  BY <1>3, <1>4
<1>10. AskStep(r)
 <2>1. /\ UNCHANGED <<labelVars, mailbox, shownLabel, threads, cursorAt, moreRows, leaving>>
       /\ openThread' = openThread /\ ticks' = ticks /\ undoOf' = undoOf /\ replyOpen' = replyOpen
       /\ wires' = wires \cup {r}
   BY <1>3 DEF Wired, listVars
 <2>2. r.n = reads' /\ r.served = FALSE /\ r.got.rows = <<>> /\ r.next = next /\ r.kind # "reply"
   BY <1>7 DEF NewWire
 <2> QED BY <1>3, <1>5, <1>7, <1>8, <1>9, <2>1, <2>2 DEF AskStep
<1>11. ASSUME wires = {}, ~replaced'
       PROVE  WireFits(r, threads, mailbox, shownLabel, leaving, moreRows, cursorAt, follows)
 <2>1. ~replaced /\ (~follows => leaving = {}) BY <1>9, <1>11
 <2> QED BY <1>1, <1>3, <1>4, <1>7, <1>11, <2>1, PageFits
<1>12. wires = {} /\ ~replaced' => WireFits(r, threads, mailbox, shownLabel, leaving, moreRows,
                                            cursorAt, follows')
  BY <1>3, <1>11
<1> QED BY <1>3, <1>9, <1>10, <1>12, AskSettles

-------------------------------------------------------------------------------
(* The reader: rows that leave, and come back. *)

LEMMA CarriedTypes ==
    ASSUME NEW w, NEW Q, Carried(Q, w), NEW m \in Nat, NEW n \in Nat, m <= n,
           \A r \in w : WireOK(r) /\ r.n <= m
    PROVE  \A q \in Q : WireOK(q) /\ q.n <= n
<1>1. ASSUME NEW q \in Q PROVE WireOK(q) /\ q.n <= n
 <2>1. WireOK(q) /\ \E r \in w : SameWires(q, r) BY CarriedOnes
 <2>2. PICK r \in w : q.n = r.n BY <2>1 DEF SameWires
 <2>3. r.n <= m /\ r.n \in Nat BY TypesOfWires
 <2> QED BY <2>1, <2>2, <2>3
<1> QED BY <1>1

LEMMA ReaderNow ==
    ASSUME ReaderInv
    PROVE  /\ ReaderTypes /\ mailbox \in MailBoxes /\ threads \in Seq(ReaderRow)
           /\ IdsIn(threads) \in SUBSET Conversations
           /\ shownLabel \in ReaderLabels /\ cursorAt \in Conversations \cup {0}
           /\ openThread \in Conversations \cup {0} /\ ticks \in SUBSET Conversations
           /\ UndoFits(undoOf, reads) /\ reads \in Nat
           /\ \A r \in wires : WireOK(r) /\ r.n <= reads
           /\ \A d \in leaving : /\ d \in [n: 1 .. reads, row: ReaderRow, to: ReaderLabels]
                                 /\ d.row \in ReaderRow /\ d.to \in ReaderLabels
                                 /\ d.n \in 1 .. reads
           /\ Carried(wires, wires)
           /\ IsFiniteSet(Due(wires)) /\ Cardinality(Due(wires)) \in Nat
           /\ LengthsFit(mailbox, threads, leaving, wires, reads + 1)
<1>1. ReaderTypes /\ LengthsFit(mailbox, threads, leaving, wires, reads + 1)
  BY DEF ReaderInv, ReaderLengths
<1>2. IsFiniteSet(Due(wires)) /\ Cardinality(Due(wires)) \in Nat BY <1>1, DueIs
<1>3. threads \in Seq(ReaderRow) BY <1>1 DEF ReaderTypes
<1>4. IdsIn(threads) \in SUBSET Conversations BY <1>3, IdsAre
<1>5. Carried(wires, wires)
 <2>1. \A r \in wires : WireOK(r) BY <1>1 DEF ReaderTypes
 <2> QED BY <2>1, SameCarried
<1>6. reads \in Nat BY <1>1, ConstantsOfReader DEF ReaderTypes
<1> QED BY <1>1, <1>2, <1>3, <1>4, <1>5, <1>6 DEF ReaderTypes

\* Fewer rows, fewer that leave, fewer requests; and some time later.
LEMMA LengthsLess ==
    ASSUME NEW bx, NEW s, NEW lv, NEW w, NEW n, LengthsFit(bx, s, lv, w, n), n \in Nat,
           bx \in MailBoxes, IsFiniteSet(Due(w)), NEW u, ShortRows(u, n),
           NEW x, \A d \in x : d.row.length <= n, NEW v, v \subseteq w
    PROVE  LengthsFit(bx, u, x, v, n) /\ Cardinality(Due(v)) \in Nat
<1>1. Due(v) \subseteq Due(w) BY DEF Due
<1>2. /\ IsFiniteSet(Due(v)) /\ Cardinality(Due(v)) <= Cardinality(Due(w))
      /\ Cardinality(Due(v)) \in Nat /\ Cardinality(Due(w)) \in Nat
  BY <1>1, FS_Subset, FS_CardinalityType
<1>3. ASSUME NEW t \in Conversations PROVE bx[t].length + Cardinality(Due(v)) <= n
 <2>1. bx[t].length \in Nat /\ bx[t].length + Cardinality(Due(w)) <= n
   BY DEF LengthsFit, MailBoxes, ReaderRow
 <2>2. PICK i \in Nat, j \in Nat, k \in Nat :
           i = bx[t].length /\ j = Cardinality(Due(w)) /\ k = Cardinality(Due(v))
   BY <1>2, <2>1
 <2>3. i + j <= n /\ k <= j BY <1>2, <2>1, <2>2
 <2>4. i + k <= n BY <2>3
 <2> QED BY <2>2, <2>4
<1> QED BY <1>2, <1>3 DEF LengthsFit

LEMMA TimeOn ==
    ASSUME NEW m \in Nat
    PROVE  /\ m + 1 \in Nat /\ (m + 1) + 1 \in Nat /\ m + 1 <= (m + 1) + 1 /\ m <= m + 1
           /\ m + 1 <= m + 1 /\ m <= m
           /\ \A k \in 1 .. m : k \in 1 .. m + 1
           /\ m + 1 \in 1 .. m + 1
           /\ m + 1 \in 0 .. m + 1
  OBVIOUS

LEMMA ShowLabelKeeps ==
    ASSUME ReaderInv, NEW l \in ReaderLabels, ShowLabel(l)
    PROVE  ReaderInv'
<1>0. ReaderTypes /\ ReaderBits BY DEF ReaderInv
<1>1. /\ ReadAct("threads") /\ shownLabel' = l /\ cursorAt' = 0 /\ moreRows' = FALSE /\ ticks' = {}
      /\ follows' = FALSE /\ replaced' = (wires # {} \/ leaving # {})
      /\ mailbox' = mailbox /\ refreshing' = refreshing /\ replyOpen' = replyOpen
      /\ leaving' = leaving /\ undoOf' = undoOf
      /\ UNCHANGED labelVars /\ labelNamed' = labelNamed /\ creating' = creating
  BY DEF ShowLabel, labelVars
<1>2. threads' = <<>> /\ openThread' = 0 /\ Carried(wires', wires)
  BY WiresCarried, HoldsCarries DEF ShowLabel
<1>3. /\ readerPart = "threads" /\ readerPart' = readerPart /\ reads' = reads + 1
      /\ reads' \in 0 .. MaxReads /\ reads \in Nat /\ reads' \in Nat /\ reads <= reads'
      /\ \A k \in 0 .. reads : k \in 0 .. reads'
  BY <1>0, <1>1, ReadActIs
<1>4. ReaderTypes'
 <2>1. \A q \in wires' : WireOK(q) /\ q.n <= reads' BY <1>2, <1>3, ReaderNow, CarriedTypes
 <2>2. \A d \in leaving' : d \in [n: 1 .. reads', row: ReaderRow, to: ReaderLabels]
   BY <1>1, <1>3, ReaderNow, TimeOn
 <2>3. UndoFits(undoOf', reads') BY <1>1, <1>3, ReaderNow, UndoOn
 <2> QED BY <1>1, <1>2, <1>3, <2>1, <2>2, <2>3, ReaderNow, EmptyRows DEF ReaderTypes
<1>5. ReaderBits' BY <1>0, <1>1 DEF ReaderBits
<1>6. ReaderLengths'
 <2>1. PICK m \in Nat, n \in Nat : m = reads + 1 /\ n = reads' + 1 /\ m <= n BY <1>3, TimeOn
 <2>2. LengthsFit(mailbox, threads, leaving, wires', n) BY <1>2, <2>1, ReaderNow, LengthsKept
 <2>3. ShortRows(<<>>, n) BY DEF ShortRows
 <2>4. LengthsFit(mailbox, <<>>, leaving, wires', n) BY <2>2, <2>3 DEF LengthsFit
 <2> QED BY <1>1, <1>2, <2>1, <2>4 DEF ReaderLengths
<1>7. Settled'
 <2>1. ASSUME ~replaced'
       PROVE  ThreadsSettled(mailbox, l, <<>>, 0, FALSE, FALSE, {}, {})
  <3>1. WholeRows(<<>>, mailbox, l, GoneOf({}), FALSE, EdgeOf(FALSE, 0)) BY WholeOfNone
  <3>2. LeavingFits({}, mailbox, l, FALSE, EdgeOf(FALSE, 0)) BY DEF LeavingFits
  <3> QED BY <3>1, <3>2 DEF ThreadsSettled
 <2>2. ASSUME ~replaced' PROVE wires' = {} /\ leaving' = {} BY <1>1, <1>2, <2>2, CarriedOnes
 <2> QED BY <1>1, <1>2, <2>1, <2>2 DEF Settled
<1>8. LabelTypes' /\ LabelsSettled' BY <1>1, <1>3, LabelsKept DEF ReaderInv
<1> QED BY <1>4, <1>5, <1>6, <1>7, <1>8 DEF ReaderInv

LEMMA Leave5Keeps ==
    ASSUME ReaderInv, NEW l \in ReaderLabels, Leave5(l)
    PROVE  ReaderInv'
<1>0. ReaderTypes /\ ReaderBits BY DEF ReaderInv
<1>1. PICK e : e = ViewedRow OBVIOUS
<1>2. PICK d : d = [n |-> reads', row |-> e, to |-> l] OBVIOUS
<1>3. PICK rows : rows = RowsWithout(threads, Viewed) OBVIOUS
<1>4. /\ ReadAct("threads") /\ Viewed # {} /\ leaving' = leaving \cup {d} /\ undoOf' = {d}
      /\ replaced' = (replaced \/ wires # {} \/ l = shownLabel)
      /\ mailbox' = mailbox /\ shownLabel' = shownLabel /\ cursorAt' = cursorAt
      /\ moreRows' = moreRows /\ refreshing' = refreshing /\ replyOpen' = replyOpen
      /\ ticks' = ticks /\ follows' = follows
      /\ UNCHANGED labelVars /\ labelNamed' = labelNamed /\ creating' = creating
      /\ Holds(rows, 0, wires)
  BY <1>1, <1>2, <1>3 DEF Leave5, MovingTo, labelVars
<1>5. threads' = rows /\ openThread' = 0 /\ Carried(wires', wires)
  BY <1>4, WiresCarried, HoldsCarries
<1>6. /\ readerPart = "threads" /\ readerPart' = readerPart /\ reads' = reads + 1
      /\ reads' \in 0 .. MaxReads /\ reads \in Nat /\ reads' \in Nat /\ reads <= reads'
      /\ \A k \in 0 .. reads : k \in 0 .. reads'
  BY <1>0, <1>4, ReadActIs
<1>7. /\ Viewed = {openThread} /\ openThread \in IdsIn(threads)
      /\ e \in ReaderRow /\ e.id = openThread
      /\ \E k \in DOMAIN threads : threads[k] = e
  BY <1>1, <1>4, ReaderNow, ViewedIs
<1>8. PICK m \in Nat, n \in Nat : m = reads + 1 /\ n = reads' + 1 /\ m <= n BY <1>6, TimeOn
<1>9. rows \in Seq(ReaderRow) /\ ShortRows(rows, reads' + 1) BY <1>3, <1>6, ShortSelections
<1>10. d.n = reads' /\ d.row = e /\ d.to = l /\ d \in [n: 1 .. reads', row: ReaderRow, to: ReaderLabels]
  BY <1>2, <1>6, <1>7, TimeOn
<1>11. ReaderTypes'
 <2>1. \A q \in wires' : WireOK(q) /\ q.n <= reads' BY <1>5, <1>6, ReaderNow, CarriedTypes
 <2>2. \A x \in leaving' : x \in [n: 1 .. reads', row: ReaderRow, to: ReaderLabels]
   BY <1>4, <1>6, <1>10, ReaderNow, TimeOn
 <2>3. UndoFits(undoOf', reads')
  <3>1. LengthsFit(mailbox, threads, leaving, wires', n) BY <1>5, <1>8, ReaderNow, LengthsKept
  <3>2. e.length <= n BY <1>7, <3>1 DEF LengthsFit, ShortRows
  <3> QED BY <1>4, <1>7, <1>8, <1>10, <3>2 DEF UndoFits
 <2> QED BY <1>4, <1>5, <1>6, <1>9, <2>1, <2>2, <2>3, ReaderNow DEF ReaderTypes
<1>12. ReaderBits' BY <1>0, <1>4 DEF ReaderBits
<1>13. ReaderLengths'
 <2>1. LengthsFit(mailbox, threads, leaving, wires', n) BY <1>5, <1>8, ReaderNow, LengthsKept
 <2>2. e.length <= n BY <1>7, <2>1 DEF LengthsFit, ShortRows
 <2>3. \A x \in leaving \cup {d} : x.row.length <= n BY <1>10, <2>1, <2>2 DEF LengthsFit
 <2>4. LengthsFit(mailbox, rows, leaving \cup {d}, wires', n)
   BY <1>8, <1>9, <2>1, <2>3 DEF LengthsFit
 <2> QED BY <1>4, <1>5, <1>8, <2>4 DEF ReaderLengths
<1>14. Settled'
 <2>1. ASSUME ~replaced'
       PROVE  ThreadsSettled(mailbox, shownLabel, rows, cursorAt, moreRows, follows,
                             leaving \cup {d}, {})
  <3>1. wires = {} /\ ~replaced /\ l # shownLabel BY <1>4, <2>1
  <3>2. PICK c : c = EdgeOf(moreRows, cursorAt) OBVIOUS
  <3>3. /\ WholeRows(threads, mailbox, shownLabel, GoneOf(leaving), follows, c)
        /\ LeavingFits(leaving, mailbox, shownLabel, follows, c)
        /\ IdsIn(threads) \cap GoneOf(leaving) = {}
    BY <3>1, <3>2, CalmIs
  <3>4. PICK ts : ts = Viewed OBVIOUS
  <3>5. GoneOf(leaving \cup {d}) = GoneOf(leaving) \cup (ts \cap IdsIn(threads))
    BY <1>7, <1>10, <3>4 DEF GoneOf
  <3>6. WholeRows(rows, mailbox, shownLabel, GoneOf(leaving \cup {d}), follows, c)
   <4>1. rows = RowsWithout(threads, ts) BY <1>3, <3>4
   <4> QED BY <3>3, <3>5, <4>1, WholeLess
  <3>7. e = mailbox[e.id] /\ e.place = shownLabel /\ (follows => e.id >= c)
   <4>1. e = mailbox[e.id] BY <1>7, <3>3 DEF WholeRows, RowsOf
   <4> QED BY <1>7, <3>3, <4>1 DEF WholeRows
  <3>8. \A x \in leaving : x.row.id # e.id BY <1>7, <3>3 DEF GoneOf
  <3>9. LeavingFits(leaving \cup {d}, mailbox, shownLabel, follows, c)
    BY <1>10, <3>1, <3>3, <3>7, <3>8 DEF LeavingFits
  <3> QED BY <3>2, <3>6, <3>9 DEF ThreadsSettled
 <2>2. ASSUME ~replaced' PROVE wires' = {} BY <1>4, <1>5, <2>2, CarriedOnes
 <2> QED BY <1>4, <1>5, <2>1, <2>2 DEF Settled
<1>15. LabelTypes' /\ LabelsSettled' BY <1>4, <1>6, LabelsKept DEF ReaderInv
<1> QED BY <1>11, <1>12, <1>13, <1>14, <1>15 DEF ReaderInv

\* A thread that leaves is shown again.
LEMMA BackAgain ==
    ASSUME ReaderInv, wires = {}, ~replaced, NEW d \in leaving, NEW lv, lv = leaving \ {d},
           NEW rows, rows = <<d.row>> \o threads
    PROVE  /\ WholeRows(rows, mailbox, shownLabel, GoneOf(lv), follows, EdgeOf(moreRows, cursorAt))
           /\ LeavingFits(lv, mailbox, shownLabel, follows, EdgeOf(moreRows, cursorAt))
           /\ d.row.id \in GoneOf(leaving) /\ GoneOf(lv) = GoneOf(leaving) \ {d.row.id}
           /\ d.to # shownLabel
<1>1. PICK c : c = EdgeOf(moreRows, cursorAt) OBVIOUS
<1>2. /\ WholeRows(threads, mailbox, shownLabel, GoneOf(leaving), follows, c)
      /\ LeavingFits(leaving, mailbox, shownLabel, follows, c)
  BY <1>1, CalmIs
<1>3. PICK e : e = d.row OBVIOUS
<1>4. /\ e \in ReaderRow /\ e = mailbox[e.id] /\ e.place = shownLabel /\ (follows => e.id >= c)
      /\ d.to # shownLabel
  BY <1>2, <1>3, ReaderNow DEF LeavingFits
<1>5. e.id \in GoneOf(leaving) BY <1>3 DEF GoneOf
<1>6. GoneOf(lv) = GoneOf(leaving) \ {e.id}
 <2>1. \A x \in leaving : x.row.id = d.row.id => x = d BY <1>2 DEF LeavingFits
 <2> QED BY <1>3, <2>1 DEF GoneOf
<1>7. e.id \notin GoneOf(lv) /\ GoneOf(lv) \cup {e.id} = GoneOf(leaving) BY <1>5, <1>6
<1>8. WholeRows(rows, mailbox, shownLabel, GoneOf(lv), follows, c)
 <2>1. rows = <<e>> \o threads BY <1>3
 <2> QED BY <1>2, <1>4, <1>5, <1>7, <2>1, WholeMore
<1>9. LeavingFits(lv, mailbox, shownLabel, follows, c) BY <1>2 DEF LeavingFits
<1> QED BY <1>1, <1>3, <1>4, <1>5, <1>6, <1>8, <1>9

LEMMA UndoLeaveKeeps ==
    ASSUME ReaderInv, UndoLeave
    PROVE  ReaderInv'
<1>0. ReaderTypes /\ ReaderBits BY DEF ReaderInv
<1>1. PICK d \in undoOf : /\ leaving' = leaving \ {d}
                          /\ Holds(<<d.row>> \o threads, openThread, wires)
                          /\ replaced' = (replaced \/ wires # {} \/ d \notin leaving)
  BY DEF UndoLeave
<1>2. /\ ReadAct("threads") /\ undoOf' = undoOf
      /\ mailbox' = mailbox /\ shownLabel' = shownLabel /\ cursorAt' = cursorAt
      /\ moreRows' = moreRows /\ refreshing' = refreshing /\ replyOpen' = replyOpen
      /\ ticks' = ticks /\ follows' = follows
      /\ UNCHANGED labelVars /\ labelNamed' = labelNamed /\ creating' = creating
  BY DEF UndoLeave, labelVars
<1>3. PICK rows : rows = <<d.row>> \o threads OBVIOUS
<1>4. threads' = rows /\ openThread' = openThread /\ Carried(wires', wires)
  BY <1>1, <1>3, WiresCarried, HoldsCarries
<1>5. /\ readerPart = "threads" /\ readerPart' = readerPart /\ reads' = reads + 1
      /\ reads' \in 0 .. MaxReads /\ reads \in Nat /\ reads' \in Nat /\ reads <= reads'
      /\ \A k \in 0 .. reads : k \in 0 .. reads'
  BY <1>0, <1>2, ReadActIs
<1>6. PICK m \in Nat, n \in Nat : m = reads + 1 /\ n = reads' + 1 /\ m <= n BY <1>5, TimeOn
<1>7. LengthsFit(mailbox, threads, leaving, wires, m) /\ LengthsFit(mailbox, threads, leaving, wires', n)
  BY <1>4, <1>6, ReaderNow, LengthsKept
<1>8. d.row \in ReaderRow /\ d.row.length <= n BY <1>5, <1>6, ReaderNow, UndoOn DEF UndoFits
<1>9. rows \in Seq(ReaderRow) /\ ShortRows(rows, n)
 <2>1. PICK u \in Seq(ReaderRow) : u = <<d.row>> BY <1>8, RowAlone
 <2>2. DOMAIN u = {1} /\ u[1] = d.row BY <1>8, <2>1
 <2>3. rows = u \o threads BY <1>3, <2>1
 <2>4. /\ u \o threads \in Seq(ReaderRow)
       /\ \A i \in DOMAIN (u \o threads) : \/ \E k \in DOMAIN u : (u \o threads)[i] = u[k]
                                           \/ \E k \in DOMAIN threads : (u \o threads)[i] = threads[k]
   BY ReaderNow, RowsTogether
 <2>5. ShortRows(threads, n) BY <1>7 DEF LengthsFit
 <2>6. \A i \in DOMAIN rows : rows[i] = d.row \/ \E k \in DOMAIN threads : rows[i] = threads[k]
   BY <2>2, <2>3, <2>4
 <2> QED BY <1>8, <2>3, <2>4, <2>5, <2>6 DEF ShortRows
<1>10. ReaderTypes'
 <2>1. \A q \in wires' : WireOK(q) /\ q.n <= reads' BY <1>4, <1>5, ReaderNow, CarriedTypes
 <2>2. \A x \in leaving' : x \in [n: 1 .. reads', row: ReaderRow, to: ReaderLabels]
   BY <1>1, <1>5, ReaderNow, TimeOn
 <2>3. UndoFits(undoOf', reads') BY <1>2, <1>5, ReaderNow, UndoOn
 <2> QED BY <1>2, <1>4, <1>5, <1>9, <2>1, <2>2, <2>3, ReaderNow DEF ReaderTypes
<1>11. ReaderBits' BY <1>0, <1>1, <1>2 DEF ReaderBits
<1>12. ReaderLengths'
 <2>1. LengthsFit(mailbox, rows, leaving \ {d}, wires', n) BY <1>7, <1>9 DEF LengthsFit
 <2> QED BY <1>1, <1>2, <1>4, <1>6, <2>1 DEF ReaderLengths
<1>13. Settled'
 <2>1. ASSUME ~replaced'
       PROVE  ThreadsSettled(mailbox, shownLabel, rows, cursorAt, moreRows, follows,
                             leaving \ {d}, {})
  <3>1. wires = {} /\ ~replaced BY <1>1, <2>1
  <3>2. d \in leaving BY <1>1, <2>1
  <3>3. PICK lv : lv = leaving \ {d} OBVIOUS
  <3>4. /\ WholeRows(rows, mailbox, shownLabel, GoneOf(lv), follows, EdgeOf(moreRows, cursorAt))
        /\ LeavingFits(lv, mailbox, shownLabel, follows, EdgeOf(moreRows, cursorAt))
    BY <1>3, <3>1, <3>2, <3>3, BackAgain
  <3> QED BY <3>3, <3>4 DEF ThreadsSettled
 <2>2. ASSUME ~replaced' PROVE wires' = {} BY <1>1, <1>4, <2>2, CarriedOnes
 <2> QED BY <1>1, <1>2, <1>4, <2>1, <2>2 DEF Settled
<1>14. LabelTypes' /\ LabelsSettled' BY <1>2, <1>5, LabelsKept DEF ReaderInv
<1> QED BY <1>10, <1>11, <1>12, <1>13, <1>14 DEF ReaderInv

\* The request of a thread that leaves.
LEMMA LateIs ==
    ASSUME ReaderInv, reads' \in Nat, NEW d \in leaving,
           NEW r, r = [Wire("late", d.to, {d.row.id}, <<d.row>>) EXCEPT !.n = d.n]
    PROVE  /\ WireOK(r) /\ r.n = d.n /\ r.kind = "late" /\ r.to = d.to /\ r.ids = {d.row.id}
           /\ r.next = <<d.row>> /\ r.served = FALSE /\ r.got.rows = <<>>
<1>1. d.row \in ReaderRow /\ d.to \in ReaderLabels /\ d.n \in Nat /\ ReaderTypes BY ReaderNow
<1>2. PICK next \in Seq(ReaderRow) : next = <<d.row>> /\ next # <<>> BY <1>1, RowAlone
<1>3. PICK ts \in SUBSET Conversations : ts = {d.row.id} BY <1>1 DEF ReaderRow
<1>4. PICK w : w = Wire("late", d.to, ts, next) OBVIOUS
<1>5. ToFits("late", d.to) /\ "late" \in WireKinds BY <1>1 DEF ToFits, FlagKinds, WireKinds
<1>6. WireOK(w) /\ NewWire(w, "late", d.to, ts, next) BY <1>1, <1>2, <1>4, <1>5, WireIs
<1>7. r = [w EXCEPT !.n = d.n] BY <1>2, <1>3, <1>4
<1>8. /\ w \in ReaderWires /\ w.kind = "late" /\ w.to = d.to /\ w.ids = ts /\ w.next = next
      /\ w.served = FALSE /\ w.got.rows = <<>>
  BY <1>6 DEF WireOK, NewWire
<1>9. /\ r \in ReaderWires /\ r.n = d.n /\ r.kind = w.kind /\ r.to = w.to /\ r.ids = w.ids
      /\ r.next = w.next /\ r.served = w.served /\ r.got = w.got
  BY <1>1, <1>7, <1>8 DEF ReaderWires
<1> QED BY <1>2, <1>3, <1>5, <1>6, <1>8, <1>9 DEF WireOK

LEMMA TimeIsOverKeeps ==
    ASSUME ReaderInv, NEW d \in leaving, TimeIsOver(d)
    PROVE  ReaderInv'
<1>0. ReaderTypes /\ ReaderBits BY DEF ReaderInv
<1>1. PICK r : r = [Wire("late", d.to, {d.row.id}, <<d.row>>) EXCEPT !.n = d.n] OBVIOUS
<1>2. PICK lv : lv = leaving \ {d} OBVIOUS
<1>3. /\ UNCHANGED reads /\ leaving' = lv /\ wires' = wires \cup {r}
      /\ replaced' = (replaced \/ wires # {})
      /\ readerPart' = readerPart /\ mailbox' = mailbox /\ shownLabel' = shownLabel
      /\ threads' = threads /\ cursorAt' = cursorAt /\ openThread' = openThread
      /\ moreRows' = moreRows /\ refreshing' = refreshing /\ replyOpen' = replyOpen
      /\ ticks' = ticks /\ follows' = follows /\ undoOf' = undoOf
      /\ UNCHANGED labelVars /\ labelNamed' = labelNamed /\ creating' = creating
  BY <1>1, <1>2 DEF TimeIsOver, labelVars, listVars
<1>4. reads' = reads /\ reads' \in 0 .. MaxReads /\ reads \in Nat /\ reads' \in Nat /\ reads <= reads'
  BY <1>0, <1>3, NoTime
<1>5. /\ WireOK(r) /\ r.n = d.n /\ r.kind = "late" /\ r.to = d.to /\ r.ids = {d.row.id}
      /\ r.next = <<d.row>> /\ r.served = FALSE /\ r.got.rows = <<>>
  BY <1>1, <1>4, LateIs
<1>6. ReaderTypes'
 <2>1. r.n <= reads' BY <1>4, <1>5, ReaderNow
 <2>2. \A q \in wires' : WireOK(q) /\ q.n <= reads' BY <1>3, <1>4, <1>5, <2>1, ReaderNow
 <2>3. \A x \in leaving' : x \in [n: 1 .. reads', row: ReaderRow, to: ReaderLabels]
   BY <1>2, <1>3, <1>4, ReaderNow
 <2> QED BY <1>0, <1>3, <1>4, <2>2, <2>3 DEF ReaderTypes
<1>7. ReaderBits' BY <1>0, <1>3 DEF ReaderBits
<1>8. ReaderLengths'
 <2>1. LengthsFit(mailbox, threads, leaving, wires, reads + 1) BY ReaderNow
 <2>2. Due(wires') = Due(wires) BY <1>3, <1>5 DEF Due
 <2>3. \A q \in wires' : ShortRows(q.next, reads + 1) /\ ShortRows(q.got.rows, reads + 1)
  <3>1. d.row.length <= reads + 1 /\ d.row \in ReaderRow BY <2>1, ReaderNow DEF LengthsFit
  <3>2. DOMAIN <<d.row>> = {1} /\ <<d.row>>[1] = d.row OBVIOUS
  <3>3. ShortRows(<<d.row>>, reads + 1) /\ ShortRows(<<>>, reads + 1) BY <3>1, <3>2 DEF ShortRows
  <3> QED BY <1>3, <1>5, <2>1, <3>3 DEF LengthsFit
 <2>4. \A p, q \in wires' : p.kind = "reply" /\ q.kind = "reply" /\ p.n = q.n => p = q
   BY <1>3, <1>5, <2>1 DEF LengthsFit
 <2>5. LengthsFit(mailbox, threads, lv, wires', reads + 1)
   BY <1>2, <2>1, <2>2, <2>3, <2>4 DEF LengthsFit
 <2> QED BY <1>3, <1>4, <2>5 DEF ReaderLengths
<1>9. Settled'
 <2>1. ASSUME ~replaced'
       PROVE  ThreadsSettled(mailbox, shownLabel, threads, cursorAt, moreRows, follows, lv, {r})
  <3>1. wires = {} /\ ~replaced BY <1>3, <2>1
  <3>2. PICK c : c = EdgeOf(moreRows, cursorAt) OBVIOUS
  <3>3. PICK rows : rows = <<d.row>> \o threads OBVIOUS
  <3>4. /\ WholeRows(rows, mailbox, shownLabel, GoneOf(lv), follows, c)
        /\ LeavingFits(lv, mailbox, shownLabel, follows, c)
        /\ d.row.id \in GoneOf(leaving) /\ GoneOf(lv) = GoneOf(leaving) \ {d.row.id}
        /\ d.to # shownLabel
    BY <1>2, <3>1, <3>2, <3>3, BackAgain
  <3>5. WholeRows(threads, mailbox, shownLabel, GoneOf(leaving), follows, c) BY <3>1, <3>2, CalmIs
  <3>6. PICK b : b = BoxWith("late", d.to, {d.row.id}, mailbox) OBVIOUS
  <3>7. BoxAlters("late", d.to, {d.row.id}, mailbox, b)
   <4>1. ToFits("late", d.to) /\ "late" \in WireKinds
     BY ReaderNow DEF ToFits, FlagKinds, WireKinds
   <4> QED BY <3>6, <4>1, ReaderNow, BoxIs
  <3>8. PICK t \in GoneOf(leaving) : t = d.row.id BY <3>4
  <3>9. t \in Conversations BY <3>8, ReaderNow DEF ReaderRow
  <3>10. b[t].place # shownLabel /\ \A u \in Conversations \ {t} : b[u] = mailbox[u]
   <4>1. \A u \in Conversations : b[u] = IF u \in {t} THEN Altered("late", d.to, mailbox[u]) ELSE mailbox[u]
     BY <3>7, <3>8 DEF BoxAlters
   <4>2. Alters("late", d.to, mailbox[t], Altered("late", d.to, mailbox[t]))
     BY <3>7, <3>9 DEF BoxAlters
   <4>3. b[t].place = d.to BY <3>9, <4>1, <4>2 DEF Alters, MoveKinds
   <4> QED BY <3>4, <4>1, <4>3
  <3>11. WholeRows(threads, b, shownLabel, GoneOf(lv), follows, c)
   <4>1. GoneOf(lv) = GoneOf(leaving) \ {t} BY <3>4, <3>8
   <4> QED BY <3>5, <3>8, <3>10, <4>1, WholeSettled
  <3>12. RowsAfter(r, threads) = threads /\ RowsBack(r, threads) = rows
    BY <1>5, <3>3 DEF RowsAfter, RowsBack
  <3>13. r.ids \cap GoneOf(lv) = {} BY <1>5, <3>4
  <3>14. WireFits(r, threads, mailbox, shownLabel, lv, moreRows, cursorAt, follows)
    BY <1>5, <3>2, <3>4, <3>6, <3>11, <3>12, <3>13 DEF WireFits
  <3> QED BY <3>2, <3>4, <3>14 DEF ThreadsSettled
 <2>2. ASSUME ~replaced' PROVE wires' = {r} BY <1>3, <2>2
 <2> QED BY <1>3, <2>1, <2>2 DEF Settled
<1>10. LabelTypes' /\ LabelsSettled' BY <1>3, <1>4, LabelsKept DEF ReaderInv
<1> QED BY <1>6, <1>7, <1>8, <1>9, <1>10 DEF ReaderInv

-------------------------------------------------------------------------------
(* The reader: requests that are done, answered, or fail. *)

\* The server has altered some of the threads of r.
LEMMA ServedLengths ==
    ASSUME ReaderInv, NEW r \in wires, ~r.served, NEW ts,
           NEW b, b = BoxWith(r.kind, r.to, ts, mailbox), NEW v, v = wires \ {r}
    PROVE  /\ b \in MailBoxes /\ BoxAlters(r.kind, r.to, ts, mailbox, b)
           /\ IsFiniteSet(Due(v)) /\ Cardinality(Due(v)) \in Nat
           /\ \A t \in Conversations : b[t].length + Cardinality(Due(v)) <= reads + 1
<1>1. r.kind \in WireKinds /\ ToFits(r.kind, r.to) BY ReaderNow, TypesOfWires
<1>2. BoxAlters(r.kind, r.to, ts, mailbox, b) BY <1>1, ReaderNow, BoxIs
<1>3. LengthsFit(mailbox, threads, leaving, wires, reads + 1) BY ReaderNow
<1>4. Due(v) \subseteq Due(wires) /\ IsFiniteSet(Due(wires)) BY ReaderNow DEF Due
<1>5. /\ IsFiniteSet(Due(v)) /\ Cardinality(Due(v)) <= Cardinality(Due(wires))
      /\ Cardinality(Due(v)) \in Nat /\ Cardinality(Due(wires)) \in Nat
  BY <1>4, FS_Subset, FS_CardinalityType
<1>6. ASSUME r.kind = "reply" PROVE Cardinality(Due(wires)) = Cardinality(Due(v)) + 1
 <2>1. Due(wires) = Due(v) \cup {r.n} BY <1>6 DEF Due
 <2>2. \A q \in wires : q.kind = "reply" /\ q.n = r.n => q = r BY <1>3, <1>6 DEF LengthsFit
 <2>3. r.n \notin Due(v) BY <2>2 DEF Due
 <2> QED BY <1>5, <2>1, <2>3, FS_AddElement
<1>7. ASSUME NEW t \in Conversations PROVE b[t].length + Cardinality(Due(v)) <= reads + 1
 <2>1. mailbox[t] \in ReaderRow /\ b[t] \in ReaderRow BY <1>2, ReaderNow DEF BoxAlters, MailBoxes
 <2>2. /\ b[t].length <= mailbox[t].length + 1
       /\ r.kind # "reply" => b[t].length = mailbox[t].length
  <3>1. CASE t \in ts
   <4>1. b[t] = Altered(r.kind, r.to, mailbox[t]) BY <1>2, <3>1 DEF BoxAlters
   <4>2. Alters(r.kind, r.to, mailbox[t], b[t]) BY <1>2, <4>1 DEF BoxAlters
   <4> QED BY <4>2 DEF Alters
  <3>2. CASE t \notin ts
   <4>1. b[t] = mailbox[t] BY <1>2, <3>2 DEF BoxAlters
   <4>2. PICK i \in Nat : i = mailbox[t].length /\ i <= i + 1 BY <2>1 DEF ReaderRow
   <4> QED BY <4>1, <4>2
  <3> QED BY <3>1, <3>2
 <2>3. PICK i \in Nat, j \in Nat, k \in Nat, c \in Nat, n \in Nat :
           /\ i = mailbox[t].length /\ j = b[t].length /\ k = Cardinality(Due(v))
           /\ c = Cardinality(Due(wires)) /\ n = reads + 1
   BY <1>5, <2>1, ReaderNow, TimeOn DEF ReaderRow
 <2>4. i + c <= n BY <1>3, <2>3 DEF LengthsFit
 <2>5. j <= i + 1 /\ (r.kind # "reply" => j = i) /\ k <= c /\ (r.kind = "reply" => c = k + 1)
   BY <1>5, <1>6, <2>2, <2>3
 <2>6. j + k <= n BY <2>4, <2>5
 <2> QED BY <2>3, <2>6
<1> QED BY <1>2, <1>5, <1>7 DEF BoxAlters

\* The request after the server has done it.
LEMMA ServedIs ==
    ASSUME ReaderInv, NEW r \in wires,
           NEW q, q = [r EXCEPT !.served = TRUE,
                                !.got = CASE r.kind = "refresh" -> PageOf(r.to, 0)
                                          [] r.kind = "more"    -> PageOf(r.to, r.at)
                                          [] OTHER -> r.got]
    PROVE  /\ WireOK(q) /\ q.n = r.n /\ q.kind = r.kind /\ q.to = r.to /\ q.ids = r.ids
           /\ q.next = r.next /\ q.at = r.at /\ q.served = TRUE
           /\ q.kind = "refresh" => PageFor(q.got, mailbox, q.to, 0)
           /\ q.kind = "more" => PageFor(q.got, mailbox, q.to, q.at)
           /\ ShortRows(q.got.rows, reads + 1)
<1>1. /\ WireOK(r) /\ r \in ReaderWires /\ r.got \in ReaderPages /\ ToFits(r.kind, r.to)
      /\ r.at \in Conversations \cup {0} /\ ReaderTypes
  BY ReaderNow, TypesOfWires DEF WireOK
<1>2. PICK p : p = CASE r.kind = "refresh" -> PageOf(r.to, 0)
                     [] r.kind = "more"    -> PageOf(r.to, r.at)
                     [] OTHER -> r.got
  OBVIOUS
<1>3. ASSUME NEW c \in Conversations \cup {0}, r.kind \in {"refresh", "more"}, p = PageOf(r.to, c)
      PROVE  p \in ReaderPages /\ PageFor(p, mailbox, r.to, c) /\ ShortRows(p.rows, reads + 1)
 <2>1. r.to \in ReaderLabels BY <1>1, <1>3 DEF ToFits, FlagKinds
 <2>2. p \in ReaderPages /\ PageFor(p, mailbox, r.to, c) BY <1>1, <1>3, <2>1, ReaderNow, PageIs
 <2>3. PICK A \in SUBSET Conversations : RowsOf(p.rows, A, mailbox) BY <2>2 DEF PageFor
 <2>4. \A i \in DOMAIN p.rows : p.rows[i] = mailbox[p.rows[i].id] /\ p.rows[i].id \in Conversations
   BY <2>3 DEF RowsOf, IdsIn
 <2>5. ASSUME NEW t \in Conversations PROVE mailbox[t].length <= reads + 1
  <3>1. mailbox[t].length + Cardinality(Due(wires)) <= reads + 1 BY ReaderNow DEF LengthsFit
  <3>2. PICK i \in Nat, j \in Nat, n \in Nat :
            i = mailbox[t].length /\ j = Cardinality(Due(wires)) /\ n = reads + 1
    BY ReaderNow, TimeOn DEF MailBoxes, ReaderRow
  <3>3. i + j <= n BY <3>1, <3>2
  <3>4. i <= n BY <3>3
  <3> QED BY <3>2, <3>4
 <2> QED BY <2>2, <2>4, <2>5 DEF ShortRows
<1>4. /\ p \in ReaderPages /\ ShortRows(p.rows, reads + 1)
      /\ r.kind = "refresh" => PageFor(p, mailbox, r.to, 0)
      /\ r.kind = "more" => PageFor(p, mailbox, r.to, r.at)
 <2>1. CASE r.kind = "refresh"
  <3>1. p = PageOf(r.to, 0) BY <1>2, <2>1
  <3> QED BY <1>3, <2>1, <3>1
 <2>2. CASE r.kind = "more"
  <3>1. p = PageOf(r.to, r.at) BY <1>2, <2>2
  <3> QED BY <1>1, <1>3, <2>2, <3>1
 <2>3. CASE r.kind \notin {"refresh", "more"}
  <3>1. p = r.got BY <1>2, <2>3
  <3>2. ShortRows(r.got.rows, reads + 1) BY ReaderNow DEF LengthsFit
  <3> QED BY <1>1, <2>3, <3>1, <3>2
 <2> QED BY <2>1, <2>2, <2>3
<1>5. PICK yes \in BOOLEAN : yes = TRUE OBVIOUS
<1>6. PICK x : x = [r EXCEPT !.served = yes] OBVIOUS
<1>7. q = [x EXCEPT !.got = p]
 <2>1. q = [r EXCEPT !.served = yes, !.got = p] BY <1>2, <1>5, Zenon
 <2> QED BY <1>6, <2>1
<1>8. /\ x \in ReaderWires /\ x.n = r.n /\ x.kind = r.kind /\ x.to = r.to /\ x.ids = r.ids
      /\ x.next = r.next /\ x.at = r.at /\ x.served = yes
  BY <1>1, <1>6 DEF ReaderWires
<1>9. /\ q \in ReaderWires /\ q.n = x.n /\ q.kind = x.kind /\ q.to = x.to /\ q.ids = x.ids
      /\ q.next = x.next /\ q.at = x.at /\ q.served = x.served /\ q.got = p
  BY <1>4, <1>7, <1>8 DEF ReaderWires
<1>10. q.served = TRUE BY <1>5, <1>8, <1>9, Zenon
<1>11. WireOK(q) BY <1>1, <1>8, <1>9 DEF WireOK
<1> QED BY <1>4, <1>8, <1>9, <1>10, <1>11

LEMMA WireServedKeeps ==
    ASSUME ReaderInv, NEW r \in wires, WireServed(r)
    PROVE  ReaderInv'
<1>0. ReaderTypes /\ ReaderBits BY DEF ReaderInv
<1>1. PICK q : q = [r EXCEPT !.served = TRUE,
                             !.got = CASE r.kind = "refresh" -> PageOf(r.to, 0)
                                       [] r.kind = "more"    -> PageOf(r.to, r.at)
                                       [] OTHER -> r.got]
  OBVIOUS
<1>2. PICK b : b = BoxWith(r.kind, r.to, r.ids, mailbox) OBVIOUS
<1>3. PICK v : v = wires \ {r} OBVIOUS
<1>4. /\ ~r.served /\ mailbox' = b /\ wires' = v \cup {q}
      /\ readerPart' = readerPart /\ shownLabel' = shownLabel /\ replaced' = replaced
      /\ threads' = threads /\ cursorAt' = cursorAt /\ openThread' = openThread
      /\ moreRows' = moreRows /\ refreshing' = refreshing /\ replyOpen' = replyOpen
      /\ ticks' = ticks /\ follows' = follows /\ undoOf' = undoOf /\ leaving' = leaving
      /\ UNCHANGED labelVars /\ labelNamed' = labelNamed /\ creating' = creating /\ UNCHANGED reads
  BY <1>1, <1>2, <1>3 DEF WireServed, ServerAlters, BoxWith, labelVars, listVars
<1>5. reads' = reads /\ reads' \in 0 .. MaxReads /\ reads \in Nat /\ reads' \in Nat /\ reads <= reads'
  BY <1>0, <1>4, NoTime
<1>6. /\ WireOK(q) /\ q.n = r.n /\ q.kind = r.kind /\ q.to = r.to /\ q.ids = r.ids
      /\ q.next = r.next /\ q.at = r.at /\ q.served = TRUE
      /\ q.kind = "refresh" => PageFor(q.got, mailbox, q.to, 0)
      /\ q.kind = "more" => PageFor(q.got, mailbox, q.to, q.at)
      /\ ShortRows(q.got.rows, reads + 1)
  BY <1>1, ServedIs
<1>7. /\ b \in MailBoxes /\ BoxAlters(r.kind, r.to, r.ids, mailbox, b)
      /\ \A t \in Conversations : b[t].length + Cardinality(Due(v)) <= reads + 1
  BY <1>2, <1>3, <1>4, ServedLengths
<1>8. ReaderTypes'
 <2>1. \A x \in wires' : WireOK(x) /\ x.n <= reads' BY <1>3, <1>4, <1>5, <1>6, ReaderNow
 <2>2. \A x \in leaving' : x \in [n: 1 .. reads', row: ReaderRow, to: ReaderLabels]
   BY <1>4, <1>5, ReaderNow
 <2> QED BY <1>0, <1>4, <1>5, <1>7, <2>1, <2>2 DEF ReaderTypes
<1>9. ReaderBits' BY <1>0, <1>4 DEF ReaderBits
<1>10. ReaderLengths'
 <2>1. LengthsFit(mailbox, threads, leaving, wires, reads + 1) BY ReaderNow
 <2>2. Due(wires') = Due(v) BY <1>4, <1>6 DEF Due
 <2>3. \A x \in wires' : ShortRows(x.next, reads + 1) /\ ShortRows(x.got.rows, reads + 1)
   BY <1>3, <1>4, <1>6, <2>1 DEF LengthsFit
 <2>4. \A x, y \in wires' : x.kind = "reply" /\ y.kind = "reply" /\ x.n = y.n => x = y
  <3>1. \A x \in v : x.kind = "reply" /\ r.kind = "reply" => x.n # r.n
    BY <1>3, <2>1 DEF LengthsFit
  <3>2. \A x, y \in v : x.kind = "reply" /\ y.kind = "reply" /\ x.n = y.n => x = y
    BY <1>3, <2>1 DEF LengthsFit
  <3> QED BY <1>4, <1>6, <3>1, <3>2
 <2>5. LengthsFit(b, threads, leaving, wires', reads + 1)
   BY <1>7, <2>1, <2>2, <2>3, <2>4 DEF LengthsFit
 <2> QED BY <1>4, <1>5, <2>5 DEF ReaderLengths
<1>11. Settled'
 <2>1. ASSUME ~replaced
       PROVE  ThreadsSettled(b, shownLabel, threads, cursorAt, moreRows, follows, leaving, {q})
              /\ wires' = {q}
  <3>1. PICK c : c = EdgeOf(moreRows, cursorAt) OBVIOUS
  <3>2. /\ LeavingFits(leaving, mailbox, shownLabel, follows, c)
        /\ \A x, y \in wires : x = y
        /\ WireFits(r, threads, mailbox, shownLabel, leaving, moreRows, cursorAt, follows)
    BY <2>1, <3>1 DEF ReaderInv, Settled, ThreadsSettled
  <3>3. wires' = {q} BY <1>3, <1>4, <3>2
  <3>4. /\ r.kind # "label" /\ r.ids \cap GoneOf(leaving) = {}
        /\ r.kind = "refresh" => ~follows /\ leaving = {}
        /\ r.kind = "more" => moreRows /\ cursorAt # 0 /\ r.at = cursorAt /\ (~follows => leaving = {})
        /\ r.kind \in {"refresh", "more"} => r.to = shownLabel /\ r.ids = {}
        /\ WholeRows(RowsAfter(r, threads), b, shownLabel, GoneOf(leaving), follows, c)
    BY <1>2, <1>4, <3>1, <3>2 DEF WireFits
  <3>5. ASSUME NEW d \in leaving PROVE b[d.row.id] = mailbox[d.row.id]
   <4>1. d.row.id \in GoneOf(leaving) /\ d.row.id \in Conversations
     BY ReaderNow DEF GoneOf, ReaderRow
   <4> QED BY <1>7, <3>4, <4>1 DEF BoxAlters
  <3>6. LeavingFits(leaving, b, shownLabel, follows, c) BY <3>2, <3>5 DEF LeavingFits
  <3>7. ASSUME r.kind \in {"refresh", "more"} PROVE b = mailbox
   <4>1. mailbox \in [Conversations -> ReaderRow] BY ReaderNow DEF MailBoxes
   <4>2. r.ids = {} BY <3>4, <3>7
   <4> QED BY <1>2, <4>1, <4>2 DEF BoxWith
  <3>8. RowsAfter(q, threads) = RowsAfter(r, threads) BY <1>6 DEF RowsAfter
  <3>9. /\ q.kind = "refresh" => PageFor(q.got, b, shownLabel, 0)
        /\ q.kind = "more" => PageFor(q.got, b, shownLabel, cursorAt)
    BY <1>6, <3>4, <3>7
  <3>10. WireFits(q, threads, b, shownLabel, leaving, moreRows, cursorAt, follows)
    BY <1>6, <3>1, <3>4, <3>8, <3>9 DEF WireFits
  <3> QED BY <3>1, <3>3, <3>6, <3>10 DEF ThreadsSettled
 <2> QED BY <1>4, <2>1 DEF Settled
<1>12. LabelTypes' /\ LabelsSettled' BY <1>4, <1>5, LabelsKept DEF ReaderInv
<1> QED BY <1>8, <1>9, <1>10, <1>11, <1>12 DEF ReaderInv

LEMMA TwoRows ==
    ASSUME NEW s \in Seq(ReaderRow), NEW u \in Seq(ReaderRow), NEW n, ShortRows(s, n), ShortRows(u, n),
           NEW rows, rows = s \o u
    PROVE  rows \in Seq(ReaderRow) /\ ShortRows(rows, n)
<1>1. /\ s \o u \in Seq(ReaderRow)
      /\ \A i \in DOMAIN (s \o u) : \/ \E k \in DOMAIN s : (s \o u)[i] = s[k]
                                    \/ \E k \in DOMAIN u : (s \o u)[i] = u[k]
  BY RowsTogether
<1> QED BY <1>1 DEF ShortRows

\* The requests but one are carried on.
LEMMA CarriedRest ==
    ASSUME ReaderInv, NEW r \in wires, NEW Q, Carried(Q, wires \ {r})
    PROVE  /\ \A q \in Q : WireOK(q) /\ q.n <= reads
           /\ (\A q \in wires : q = r) => Q = {}
           /\ Due(Q) = Due(wires \ {r})
           /\ LengthsFit(mailbox, threads, leaving, Q, reads + 1)
<1>1. PICK v : v = wires \ {r} OBVIOUS
<1>2. Carried(Q, v) /\ v \subseteq wires BY <1>1
<1>3. PICK m \in Nat : m = reads /\ m <= m BY ReaderNow, TimeOn
<1>4. \A q \in v : WireOK(q) /\ q.n <= m BY <1>2, <1>3, ReaderNow
<1>5. \A q \in Q : WireOK(q) /\ q.n <= m BY <1>2, <1>3, <1>4, CarriedTypes
<1>6. (\A q \in wires : q = r) => Q = {} BY <1>1, <1>2, CarriedOnes
<1>7. Due(Q) = Due(v) BY <1>2, DueSame
<1>8. PICK n \in Nat : n = reads + 1 /\ n <= n BY ReaderNow, TimeOn
<1>9. LengthsFit(mailbox, threads, leaving, v, n) /\ Cardinality(Due(v)) \in Nat
 <2>1. LengthsFit(mailbox, threads, leaving, wires, n) BY <1>8, ReaderNow
 <2>2. ShortRows(threads, n) /\ \A d \in leaving : d.row.length <= n BY <2>1 DEF LengthsFit
 <2> QED BY <1>2, <2>1, <2>2, ReaderNow, LengthsLess
<1>10. LengthsFit(mailbox, threads, leaving, Q, n) BY <1>2, <1>4, <1>8, <1>9, ReaderNow, LengthsKept
<1> QED BY <1>1, <1>3, <1>5, <1>6, <1>7, <1>8, <1>10

\* What the answer makes of the page.
RowsAnswered(r, s) ==
    CASE r.kind \in {"late", "label"} -> s
      [] r.kind = "refresh" -> r.got.rows
      [] r.kind = "more"    -> s \o RowsWithout(r.got.rows, IdsIn(s))
      [] OTHER -> r.next

LEMMA AnsweredRows ==
    ASSUME NEW r, NEW s, NEW rows, rows = RowsAnswered(r, s), r.kind \in WireKinds
    PROVE  \/ r.kind \in {"late", "label"} /\ rows = s
           \/ r.kind = "refresh" /\ rows = r.got.rows
           \/ r.kind = "more" /\ rows = s \o RowsWithout(r.got.rows, IdsIn(s))
           \/ r.kind \in {"move", "read", "star", "reply"} /\ rows = r.next
  BY DEF RowsAnswered, WireKinds

LEMMA AnsweredShort ==
    ASSUME ReaderInv, NEW r \in wires, NEW rows, rows = RowsAnswered(r, threads)
    PROVE  rows \in Seq(ReaderRow) /\ ShortRows(rows, reads + 1)
<1>1. /\ r.kind \in WireKinds /\ r.next \in Seq(ReaderRow) /\ r.got.rows \in Seq(ReaderRow)
  BY ReaderNow, TypesOfWires
<1>2. /\ ShortRows(threads, reads + 1) /\ ShortRows(r.next, reads + 1)
      /\ ShortRows(r.got.rows, reads + 1) /\ threads \in Seq(ReaderRow)
  BY ReaderNow DEF LengthsFit
<1>3. CASE rows = threads \o RowsWithout(r.got.rows, IdsIn(threads))
 <2>1. PICK u \in Seq(ReaderRow) : /\ u = RowsWithout(r.got.rows, IdsIn(threads))
                                   /\ \A i \in DOMAIN u : \E k \in DOMAIN r.got.rows : u[i] = r.got.rows[k]
   BY <1>1, RowsLess
 <2>2. ShortRows(u, reads + 1) BY <1>2, <2>1 DEF ShortRows
 <2>3. rows = threads \o u BY <1>3, <2>1
 <2>4. PICK n : n = reads + 1 OBVIOUS
 <2> QED BY <1>2, <2>2, <2>3, <2>4, TwoRows
<1>4. \/ rows = threads \/ rows = r.got.rows \/ rows = r.next
      \/ rows = threads \o RowsWithout(r.got.rows, IdsIn(threads))
  BY <1>1, AnsweredRows
<1> QED BY <1>1, <1>2, <1>3, <1>4

\* After the only request is answered nothing is under way.
LEMMA AnsweredSettles ==
    ASSUME ReaderInv, NEW r \in wires, r.served, ~replaced,
           NEW rows, rows = RowsAnswered(r, threads),
           NEW at, at = IF r.kind = "more" THEN r.got.cursor ELSE cursorAt,
           NEW m, m = IF r.kind = "more" THEN r.got.more ELSE moreRows
    PROVE  /\ ThreadsSettled(mailbox, shownLabel, rows, at, m, follows, leaving, {})
           /\ \A q \in wires : q = r
<1>1. PICK c : c = EdgeOf(moreRows, cursorAt) OBVIOUS
<1>2. PICK e : e = EdgeOf(m, at) OBVIOUS
<1>3. /\ LeavingFits(leaving, mailbox, shownLabel, follows, c)
      /\ \A x, y \in wires : x = y
      /\ WireFits(r, threads, mailbox, shownLabel, leaving, moreRows, cursorAt, follows)
  BY <1>1 DEF ReaderInv, Settled, ThreadsSettled
<1>4. /\ r.kind # "label"
      /\ r.kind = "refresh" => ~follows /\ leaving = {}
      /\ r.kind = "more" => moreRows /\ cursorAt # 0 /\ r.at = cursorAt /\ (~follows => leaving = {})
      /\ WholeRows(RowsAfter(r, threads), mailbox, shownLabel, GoneOf(leaving), follows, c)
      /\ r.kind = "refresh" => PageFor(r.got, mailbox, shownLabel, 0)
      /\ r.kind = "more" => PageFor(r.got, mailbox, shownLabel, cursorAt)
  BY <1>1, <1>3 DEF WireFits
<1>5. /\ r.kind \in WireKinds /\ r.got \in ReaderPages /\ follows \in BOOLEAN
  BY ReaderNow, TypesOfWires DEF ReaderInv, ReaderBits
<1>6. CASE r.kind \in {"late", "move", "read", "star", "reply"}
 <2>1. at = cursorAt /\ m = moreRows /\ e = c BY <1>1, <1>2, <1>6
 <2>2. rows = RowsAfter(r, threads) BY <1>5, <1>6, AnsweredRows DEF RowsAfter
 <2> QED BY <1>2, <1>3, <1>4, <2>1, <2>2 DEF ThreadsSettled
<1>7. CASE r.kind = "refresh"
 <2>1. at = cursorAt /\ m = moreRows /\ e = c /\ rows = r.got.rows
   BY <1>1, <1>2, <1>5, <1>7, AnsweredRows
 <2>2. GoneOf(leaving) = {} BY <1>4, <1>7 DEF GoneOf
 <2>3. WholeRows(rows, mailbox, shownLabel, {}, FALSE, e) BY <1>4, <1>5, <1>7, <2>1, WholePage
 <2>4. WholeRows(rows, mailbox, shownLabel, GoneOf(leaving), follows, e)
   BY <1>4, <1>7, <2>2, <2>3 DEF WholeRows
 <2> QED BY <1>2, <1>3, <2>1, <2>4 DEF ThreadsSettled
<1>8. CASE r.kind = "more"
 <2>1. PICK p \in ReaderPages : p = r.got BY <1>5
 <2>2. at = p.cursor /\ m = p.more /\ e = (IF p.more THEN p.cursor ELSE 0)
   BY <1>2, <1>8, <2>1 DEF EdgeOf
 <2>3. rows = threads \o RowsWithout(p.rows, IdsIn(threads)) BY <1>5, <1>8, <2>1, AnsweredRows
 <2>4. c = cursorAt /\ cursorAt \in Conversations /\ moreRows
   BY <1>1, <1>4, <1>8, ReaderNow DEF EdgeOf
 <2>5. WholeRows(threads, mailbox, shownLabel, GoneOf(leaving), follows, cursorAt)
   BY <1>4, <1>8, <2>4 DEF RowsAfter
 <2>6. PageFor(p, mailbox, shownLabel, cursorAt) BY <1>4, <1>8, <2>1
 <2>7. /\ follows => \A t \in GoneOf(leaving) : t >= cursorAt
       /\ ~follows => GoneOf(leaving) = {}
       /\ GoneOf(leaving) \subseteq Conversations
   BY <1>3, <1>4, <1>8, <2>4, ReaderNow DEF GoneOf, LeavingFits, ReaderRow
 <2>8. WholeRows(rows, mailbox, shownLabel, GoneOf(leaving), follows, e)
   BY <2>2, <2>3, <2>4, <2>5, <2>6, <2>7, WholeDown
 <2>9. LeavingFits(leaving, mailbox, shownLabel, follows, e)
  <3>1. e \in Nat /\ cursorAt \in Nat /\ e <= cursorAt
   <4>1. cursorAt \in Nat /\ cursorAt # 0 /\ p.cursor \in Nat /\ (p.more => p.cursor < cursorAt)
    <5>1. cursorAt \in Nat /\ cursorAt # 0 /\ p.cursor \in Nat
     <6>1. p.cursor \in Conversations \cup {0} BY DEF ReaderPages
     <6>2. \A x \in Conversations : x \in Nat /\ x # 0 BY ConstantsOfReader
     <6>3. cursorAt \in Conversations BY <2>4
     <6> QED BY <6>1, <6>2, <6>3
    <5>2. p.more => p.cursor < cursorAt BY <2>6, <5>1 DEF PageFor
    <5> QED BY <5>1, <5>2
   <4> QED BY <2>2, <4>1
  <3>2. ASSUME follows, NEW d \in leaving PROVE d.row.id >= e
   <4>1. d.row.id >= cursorAt /\ d.row.id \in Nat BY <2>7, <3>2, ConstantsOfReader DEF GoneOf
   <4> QED BY <3>1, <4>1
  <3> QED BY <1>3, <3>2 DEF LeavingFits
 <2> QED BY <1>2, <1>3, <2>8, <2>9 DEF ThreadsSettled
<1> QED BY <1>3, <1>4, <1>5, <1>6, <1>7, <1>8 DEF WireKinds

LEMMA WireAnsweredKeeps ==
    ASSUME ReaderInv, NEW r \in wires, WireAnswered(r)
    PROVE  ReaderInv'
<1>0. ReaderTypes /\ ReaderBits BY DEF ReaderInv
<1>1. PICK rows : rows = RowsAnswered(r, threads) OBVIOUS
<1>2. PICK t : t = IF r.closes THEN 0 ELSE openThread OBVIOUS
<1>3. /\ r.served /\ Holds(rows, t, wires \ {r})
      /\ cursorAt' = (IF r.kind = "more" THEN r.got.cursor ELSE cursorAt)
      /\ moreRows' = (IF r.kind = "more" THEN r.got.more ELSE moreRows)
      /\ refreshing' = (refreshing /\ r.kind # "refresh")
      /\ replyOpen' = (replyOpen /\ r.kind # "reply")
      /\ ticks' = (IF r.clears THEN {} ELSE ticks)
      /\ undoOf' = (IF r.kind \in {"late", "refresh", "more"} THEN undoOf ELSE {})
      /\ readerPart' = readerPart /\ mailbox' = mailbox /\ shownLabel' = shownLabel
      /\ leaving' = leaving /\ follows' = follows /\ replaced' = replaced
      /\ UNCHANGED labelVars /\ labelNamed' = labelNamed /\ creating' = creating /\ UNCHANGED reads
  BY <1>1, <1>2 DEF WireAnswered, RowsAnswered, labelVars
<1>4. reads' = reads /\ reads' \in 0 .. MaxReads /\ reads \in Nat /\ reads' \in Nat /\ reads <= reads'
  BY <1>0, <1>3, NoTime
<1>5. threads' = rows /\ openThread' = t /\ Carried(wires', wires \ {r})
 <2>1. PICK v : v = wires \ {r} OBVIOUS
 <2>2. \A x \in v : WireOK(x) BY <2>1, ReaderNow
 <2> QED BY <1>3, <2>1, <2>2, HoldsCarries
<1>6. /\ \A q \in wires' : WireOK(q) /\ q.n <= reads
      /\ (\A q \in wires : q = r) => wires' = {}
      /\ LengthsFit(mailbox, threads, leaving, wires', reads + 1)
 <2>1. PICK Q : Q = wires' OBVIOUS
 <2> QED BY <1>5, <2>1, CarriedRest
<1>7. rows \in Seq(ReaderRow) /\ ShortRows(rows, reads + 1) BY <1>1, AnsweredShort
<1>8. r.got \in ReaderPages /\ r.closes \in BOOLEAN /\ r.clears \in BOOLEAN
  BY ReaderNow, TypesOfWires
<1>9. ReaderTypes'
 <2>1. \A x \in wires' : WireOK(x) /\ x.n <= reads' BY <1>4, <1>6
 <2>2. \A x \in leaving' : x \in [n: 1 .. reads', row: ReaderRow, to: ReaderLabels]
   BY <1>3, <1>4, ReaderNow
 <2>3. cursorAt' \in Conversations \cup {0} /\ openThread' \in Conversations \cup {0}
   BY <1>2, <1>3, <1>5, <1>8, ReaderNow DEF ReaderPages
 <2>4. UndoFits(undoOf', reads') /\ ticks' \in SUBSET Conversations
   BY <1>3, <1>4, ReaderNow, UndoOn
 <2> QED BY <1>0, <1>3, <1>4, <1>5, <1>7, <2>1, <2>2, <2>3, <2>4 DEF ReaderTypes
<1>10. ReaderBits'
 <2>1. moreRows' \in BOOLEAN BY <1>0, <1>3, <1>8 DEF ReaderBits, ReaderPages
 <2> QED BY <1>0, <1>3, <2>1 DEF ReaderBits
<1>11. ReaderLengths' BY <1>3, <1>4, <1>5, <1>6, <1>7 DEF ReaderLengths, LengthsFit
<1>12. Settled'
 <2>1. PICK at : at = cursorAt' OBVIOUS
 <2>2. PICK m : m = moreRows' OBVIOUS
 <2>3. ASSUME ~replaced
       PROVE  ThreadsSettled(mailbox, shownLabel, rows, at, m, follows, leaving, {}) /\ wires' = {}
   BY <1>1, <1>3, <1>6, <2>1, <2>2, <2>3, AnsweredSettles
 <2> QED BY <1>3, <1>5, <2>1, <2>2, <2>3 DEF Settled
<1>13. LabelTypes' /\ LabelsSettled' BY <1>3, <1>4, LabelsKept DEF ReaderInv
<1> QED BY <1>9, <1>10, <1>11, <1>12, <1>13 DEF ReaderInv

LEMMA WireFailsKeeps ==
    ASSUME ReaderInv, NEW r \in wires, WireFails(r)
    PROVE  ReaderInv'
<1>0. ReaderTypes /\ ReaderBits BY DEF ReaderInv
<1>1. PICK rows : rows = RowsBack(r, threads) OBVIOUS
<1>2. PICK ts \in SUBSET r.ids : IF r.served THEN UNCHANGED mailbox ELSE ServerAlters(r, ts)
  BY DEF WireFails
<1>3. /\ Holds(rows, openThread, wires \ {r})
      /\ moreRows' = (moreRows /\ r.kind # "more") /\ follows' = (follows /\ r.kind # "more")
      /\ refreshing' = (refreshing /\ r.kind # "refresh")
      /\ undoOf' = (IF r.kind \in {"refresh", "more"} THEN undoOf ELSE {})
      /\ replaced' = (replaced \/ mailbox' # mailbox \/ r.served \/ wires # {r})
      /\ readerPart' = readerPart /\ shownLabel' = shownLabel /\ cursorAt' = cursorAt
      /\ replyOpen' = replyOpen /\ ticks' = ticks /\ leaving' = leaving
      /\ UNCHANGED labelVars /\ labelNamed' = labelNamed /\ creating' = creating /\ UNCHANGED reads
  BY <1>1 DEF WireFails, RowsBack, labelVars
<1>4. reads' = reads /\ reads' \in 0 .. MaxReads /\ reads \in Nat /\ reads' \in Nat /\ reads <= reads'
  BY <1>0, <1>3, NoTime
<1>5. threads' = rows /\ openThread' = openThread /\ Carried(wires', wires \ {r})
 <2>1. PICK v : v = wires \ {r} OBVIOUS
 <2>2. \A x \in v : WireOK(x) BY <2>1, ReaderNow
 <2> QED BY <1>3, <2>1, <2>2, HoldsCarries
<1>6. /\ \A q \in wires' : WireOK(q) /\ q.n <= reads
      /\ (\A q \in wires : q = r) => wires' = {}
      /\ Due(wires') = Due(wires \ {r})
      /\ LengthsFit(mailbox, threads, leaving, wires', reads + 1)
 <2>1. PICK Q : Q = wires' OBVIOUS
 <2> QED BY <1>5, <2>1, CarriedRest
<1>7. rows \in Seq(ReaderRow) /\ ShortRows(rows, reads + 1)
 <2>1. /\ ShortRows(threads, reads + 1) /\ ShortRows(r.next, reads + 1)
       /\ r.next \in Seq(ReaderRow) /\ threads \in Seq(ReaderRow)
   BY ReaderNow, TypesOfWires DEF LengthsFit
 <2>2. CASE r.kind = "late"
  <3>1. rows = r.next \o threads BY <1>1, <2>2 DEF RowsBack
  <3>2. PICK n, u : n = reads + 1 /\ u = r.next OBVIOUS
  <3> QED BY <2>1, <3>1, <3>2, TwoRows
 <2>3. CASE r.kind # "late" BY <1>1, <2>1, <2>3 DEF RowsBack
 <2> QED BY <2>2, <2>3
<1>8. /\ mailbox' \in MailBoxes
      /\ \A t \in Conversations : mailbox'[t].length + Cardinality(Due(wires')) <= reads + 1
 <2>1. CASE r.served
  <3>1. mailbox' = mailbox BY <1>2, <2>1
  <3> QED BY <1>6, <3>1, ReaderNow DEF LengthsFit
 <2>2. CASE ~r.served
  <3>1. PICK v : v = wires \ {r} OBVIOUS
  <3>2. PICK b : b = BoxWith(r.kind, r.to, ts, mailbox) OBVIOUS
  <3>3. mailbox' = b BY <1>2, <2>2, <3>2 DEF ServerAlters, BoxWith
  <3>4. /\ b \in MailBoxes
        /\ \A t \in Conversations : b[t].length + Cardinality(Due(v)) <= reads + 1
    BY <2>2, <3>1, <3>2, ServedLengths
  <3> QED BY <1>6, <3>1, <3>3, <3>4
 <2> QED BY <2>1, <2>2
<1>9. ReaderTypes'
 <2>1. \A x \in wires' : WireOK(x) /\ x.n <= reads' BY <1>4, <1>6
 <2>2. \A x \in leaving' : x \in [n: 1 .. reads', row: ReaderRow, to: ReaderLabels]
   BY <1>3, <1>4, ReaderNow
 <2>3. UndoFits(undoOf', reads') BY <1>3, <1>4, ReaderNow, UndoOn
 <2> QED BY <1>0, <1>3, <1>4, <1>5, <1>7, <1>8, <2>1, <2>2, <2>3 DEF ReaderTypes
<1>10. ReaderBits' BY <1>0, <1>3 DEF ReaderBits
<1>11. ReaderLengths' BY <1>3, <1>4, <1>5, <1>6, <1>7, <1>8 DEF ReaderLengths, LengthsFit
<1>12. Settled'
 <2>1. PICK f : f = follows' OBVIOUS
 <2>2. PICK m : m = moreRows' OBVIOUS
 <2>3. ASSUME ~replaced'
       PROVE  /\ ThreadsSettled(mailbox, shownLabel, rows, cursorAt, m, f, leaving, {})
              /\ wires' = {} /\ mailbox' = mailbox
  <3>1. ~replaced /\ mailbox' = mailbox /\ ~r.served /\ wires = {r} BY <1>3, <2>3
  <3>2. wires' = {} BY <1>6, <3>1
  <3>3. PICK c : c = EdgeOf(moreRows, cursorAt) OBVIOUS
  <3>4. /\ LeavingFits(leaving, mailbox, shownLabel, follows, c)
        /\ WireFits(r, threads, mailbox, shownLabel, leaving, moreRows, cursorAt, follows)
    BY <3>1, <3>3 DEF ReaderInv, Settled, ThreadsSettled
  <3>5. WholeRows(rows, mailbox, shownLabel, GoneOf(leaving), follows, c)
    BY <1>1, <3>1, <3>3, <3>4 DEF WireFits
  <3>6. CASE r.kind # "more"
   <4>1. m = moreRows /\ f = follows BY <1>3, <2>1, <2>2, <3>6, <1>0 DEF ReaderBits
   <4> QED BY <3>1, <3>2, <3>3, <3>4, <3>5, <4>1 DEF ThreadsSettled
  <3>7. CASE r.kind = "more"
   <4>1. m = FALSE /\ f = FALSE BY <1>3, <2>1, <2>2, <3>7
   <4>2. WholeRows(rows, mailbox, shownLabel, GoneOf(leaving), FALSE, EdgeOf(FALSE, cursorAt))
     BY <3>5, WholeApart
   <4>3. LeavingFits(leaving, mailbox, shownLabel, FALSE, EdgeOf(FALSE, cursorAt))
     BY <3>4 DEF LeavingFits
   <4> QED BY <3>1, <3>2, <4>1, <4>2, <4>3 DEF ThreadsSettled
  <3> QED BY <3>6, <3>7
 <2> QED BY <1>3, <1>5, <2>1, <2>2, <2>3 DEF Settled
<1>13. LabelTypes' /\ LabelsSettled'
 <2>1. ~replaced' => ~replaced BY <1>3
 <2> QED BY <1>3, <1>4, <2>1, LabelsKept DEF ReaderInv
<1> QED BY <1>9, <1>10, <1>11, <1>12, <1>13 DEF ReaderInv

-------------------------------------------------------------------------------
(* The reader: the dialog of the labels. *)

LEMMA ThreadsKept ==
    ASSUME ReaderInv, UNCHANGED <<readerPart, threadVars>>, reads' \in 0 .. MaxReads,
           reads' \in Nat, reads <= reads', ~replaced' => ~replaced,
           labelNamed' \in BOOLEAN, creating' \in BOOLEAN, replaced' \in BOOLEAN
    PROVE  ReaderTypes' /\ ReaderLengths' /\ Settled' /\ ReaderBits'
<1>0. ReaderTypes /\ ReaderBits BY DEF ReaderInv
<1>1. /\ readerPart' = readerPart /\ mailbox' = mailbox /\ shownLabel' = shownLabel
      /\ threads' = threads /\ cursorAt' = cursorAt /\ moreRows' = moreRows
      /\ leaving' = leaving /\ follows' = follows /\ wires' = wires /\ openThread' = openThread
      /\ ticks' = ticks /\ undoOf' = undoOf /\ refreshing' = refreshing /\ replyOpen' = replyOpen
  BY DEF threadVars, listVars
<1>2. PICK m \in Nat, n \in Nat : m = reads /\ n = reads' /\ m <= n BY ReaderNow
<1>3. ReaderTypes'
 <2>1. (\A k \in 0 .. m : k \in 0 .. n) /\ \A k \in 1 .. m : k \in 1 .. n BY <1>2
 <2>2. UndoFits(undoOf', reads') BY <1>1, <1>2, ReaderNow, UndoOn
 <2>3. \A d \in leaving' : d \in [n: 1 .. reads', row: ReaderRow, to: ReaderLabels]
   BY <1>1, <1>2, <2>1, ReaderNow
 <2>4. \A q \in wires : WireOK(q) /\ q.n <= n
  <3>1. \A q \in wires : WireOK(q) /\ q.n <= m /\ q.n \in Nat BY <1>2, ReaderNow, TypesOfWires
  <3> QED BY <1>2, <3>1
 <2> QED BY <1>0, <1>1, <1>2, <2>2, <2>3, <2>4 DEF ReaderTypes
<1>4. ReaderLengths'
 <2>1. m + 1 \in Nat /\ n + 1 \in Nat /\ m + 1 <= n + 1 BY <1>2, NumbersUp
 <2>2. PICK i \in Nat, j \in Nat : i = reads + 1 /\ j = reads' + 1 /\ i <= j BY <1>2, <2>1
 <2>3. LengthsFit(mailbox, threads, leaving, wires, j) BY <2>2, ReaderNow, LengthsKept
 <2> QED BY <1>1, <2>2, <2>3 DEF ReaderLengths
<1>5. Settled' BY <1>1 DEF ReaderInv, Settled
<1>6. ReaderBits' BY <1>0, <1>1 DEF ReaderBits
<1> QED BY <1>3, <1>4, <1>5, <1>6

LEMMA LabelsNow ==
    ASSUME ReaderInv
    PROVE  /\ ReaderTypes /\ LabelTypes /\ LabelsSettled /\ reads \in Nat
           /\ labelNamed \in BOOLEAN /\ creating \in BOOLEAN /\ replaced \in BOOLEAN
           /\ userLabels \in SUBSET (1 .. reads + 1) /\ labelsThere \in SUBSET (1 .. reads + 1)
           /\ \A r \in labelWires : LabelWireOK(r, reads + 1)
           /\ readerPart = "threads" => labelWires = {} /\ ~creating
  BY ReaderNow DEF ReaderInv, ReaderBits, LabelTypes, LabelsSettled

LEMMA LaterLabels ==
    ASSUME NEW m \in Nat, NEW n \in Nat, m <= n
    PROVE  /\ \A s \in SUBSET (1 .. m + 1) : s \in SUBSET (1 .. n + 1)
           /\ \A r : LabelWireOK(r, m + 1) => LabelWireOK(r, n + 1)
<1>1. \A k \in 1 .. m + 1 : k \in 1 .. n + 1 BY NumbersUp
<1> QED BY <1>1 DEF LabelWireOK

LEMMA NameLabelKeeps ==
    ASSUME ReaderInv, NameLabel
    PROVE  ReaderInv'
<1>1. /\ ReadAct("labels") /\ labelNamed' = ~labelNamed /\ UNCHANGED threadVars
      /\ userLabels' = userLabels /\ labelsThere' = labelsThere /\ creating' = creating
      /\ labelWires' = labelWires /\ replaced' = replaced
  BY DEF NameLabel
<1>2. /\ readerPart' = readerPart /\ reads \in Nat /\ reads' \in Nat /\ reads <= reads'
      /\ reads' \in 0 .. MaxReads
  BY <1>1, LabelsNow, ReadActIs
<1>3. /\ labelNamed' \in BOOLEAN /\ creating' \in BOOLEAN /\ replaced' \in BOOLEAN
  BY <1>1, LabelsNow
<1>4. ReaderTypes' /\ ReaderLengths' /\ Settled' /\ ReaderBits' BY <1>1, <1>2, <1>3, ThreadsKept
<1>5. LabelTypes'
 <2>1. PICK m \in Nat, n \in Nat : m = reads /\ n = reads' /\ m <= n BY <1>2
 <2>2. /\ userLabels \in SUBSET (1 .. m + 1) /\ labelsThere \in SUBSET (1 .. m + 1)
       /\ \A r \in labelWires : LabelWireOK(r, m + 1)
   BY <2>1, LabelsNow
 <2>3. /\ userLabels \in SUBSET (1 .. n + 1) /\ labelsThere \in SUBSET (1 .. n + 1)
       /\ \A r \in labelWires : LabelWireOK(r, n + 1)
   BY <2>1, <2>2, LaterLabels
 <2> QED BY <1>1, <2>1, <2>3 DEF LabelTypes
<1>6. LabelsSettled' BY <1>1, <1>2, LabelsNow DEF LabelsSettled
<1> QED BY <1>4, <1>5, <1>6 DEF ReaderInv

LEMMA LabelAskedKeeps ==
    ASSUME ReaderInv, ReadAct("labels"), NEW kind \in {"create", "delete"}, NEW of,
           of \in 1 .. reads' + 1, LabelAsked(kind, of),
           (kind = "create" /\ creating' = TRUE) \/ creating' = creating
    PROVE  ReaderInv'
<1>1. PICK no \in BOOLEAN : no = FALSE OBVIOUS
<1>2. PICK r : r = [n |-> reads', kind |-> kind, of |-> of, kept |-> userLabels, served |-> no]
  OBVIOUS
<1>3. /\ labelWires' = labelWires \cup {r} /\ replaced' = (replaced \/ labelWires # {})
      /\ UNCHANGED threadVars /\ userLabels' = userLabels /\ labelsThere' = labelsThere
      /\ labelNamed' = labelNamed
  BY <1>1, <1>2, Zenon DEF LabelAsked
<1>4. /\ readerPart' = readerPart /\ reads \in Nat /\ reads' \in Nat /\ reads <= reads'
      /\ reads' \in 0 .. MaxReads /\ readerPart = "labels"
  BY LabelsNow, ReadActIs
<1>5. /\ labelNamed' \in BOOLEAN /\ creating' \in BOOLEAN /\ replaced' \in BOOLEAN
      /\ (~replaced' => ~replaced /\ labelWires = {})
  BY <1>3, LabelsNow
<1>6. ReaderTypes' /\ ReaderLengths' /\ Settled' /\ ReaderBits' BY <1>3, <1>4, <1>5, ThreadsKept
<1>7. r.kind = kind /\ r.of = of /\ r.kept = userLabels /\ r.served = no BY <1>2
<1>8. LabelTypes'
 <2>1. PICK m \in Nat, n \in Nat : m = reads /\ n = reads' /\ m <= n BY <1>4
 <2>2. /\ userLabels \in SUBSET (1 .. m + 1) /\ labelsThere \in SUBSET (1 .. m + 1)
       /\ \A q \in labelWires : LabelWireOK(q, m + 1)
   BY <2>1, LabelsNow
 <2>3. /\ userLabels \in SUBSET (1 .. n + 1) /\ labelsThere \in SUBSET (1 .. n + 1)
       /\ \A q \in labelWires : LabelWireOK(q, n + 1)
   BY <2>1, <2>2, LaterLabels
 <2>4. LabelWireOK(r, n + 1) BY <1>2, <2>1, <2>3 DEF LabelWireOK
 <2> QED BY <1>3, <2>1, <2>3, <2>4 DEF LabelTypes
<1>9. LabelsSettled'
 <2>1. creating' => \E q \in labelWires' : q.kind = "create"
   BY <1>3, <1>7, LabelsNow DEF LabelsSettled
 <2>2. readerPart' # "threads" BY <1>4
 <2>3. ASSUME ~replaced'
       PROVE  /\ labelWires' = {r}
              /\ r.kept = userLabels' /\ ~r.served /\ labelsThere' = userLabels'
  <3>1. labelWires = {} /\ ~replaced BY <1>5, <2>3
  <3>2. userLabels = labelsThere BY <3>1, LabelsNow DEF LabelsSettled
  <3>3. ~r.served BY <1>1, <1>7
  <3> QED BY <1>3, <1>7, <3>1, <3>2, <3>3
 <2> QED BY <2>1, <2>2, <2>3 DEF LabelsSettled
<1> QED BY <1>6, <1>8, <1>9 DEF ReaderInv

LEMMA CreateLabelKeeps ==
    ASSUME ReaderInv, CreateLabel
    PROVE  ReaderInv'
<1>1. ReadAct("labels") /\ creating' = TRUE /\ LabelAsked("create", reads' + 1) BY DEF CreateLabel
<1>2. reads' \in Nat BY <1>1, LabelsNow, ReadActIs
<1>3. PICK of : of = reads' + 1 /\ of \in 1 .. reads' + 1 BY <1>2, TimeOn
<1> QED BY <1>1, <1>3, LabelAskedKeeps

LEMMA DeleteLabelKeeps ==
    ASSUME ReaderInv, NEW l \in userLabels, DeleteLabel(l)
    PROVE  ReaderInv'
<1>1. ReadAct("labels") /\ creating' = creating /\ LabelAsked("delete", l) BY DEF DeleteLabel
<1>2. reads' \in Nat /\ reads \in Nat /\ reads <= reads' BY <1>1, LabelsNow, ReadActIs
<1>3. l \in 1 .. reads' + 1
 <2>1. PICK m \in Nat, n \in Nat : m = reads /\ n = reads' /\ m <= n BY <1>2
 <2>2. l \in 1 .. m + 1 BY <2>1, LabelsNow
 <2>3. l \in 1 .. n + 1 BY <2>1, <2>2, NumbersUp
 <2> QED BY <2>1, <2>3
<1> QED BY <1>1, <1>3, LabelAskedKeeps

LEMMA LabelServedKeeps ==
    ASSUME ReaderInv, NEW r \in labelWires, LabelServed(r)
    PROVE  ReaderInv'
<1>1. PICK yes \in BOOLEAN : yes = TRUE OBVIOUS
<1>2. PICK q : q = [r EXCEPT !.served = yes] OBVIOUS
<1>3. /\ ~r.served /\ LabelChange(r) /\ labelWires' = (labelWires \ {r}) \cup {q}
      /\ readerPart' = readerPart /\ UNCHANGED threadVars /\ userLabels' = userLabels
      /\ labelNamed' = labelNamed /\ creating' = creating /\ UNCHANGED reads /\ replaced' = replaced
  BY <1>1, <1>2, Zenon DEF LabelServed
<1>4. reads' = reads /\ reads' \in 0 .. MaxReads /\ reads \in Nat /\ reads' \in Nat /\ reads <= reads'
  BY <1>3, LabelsNow, NoTime
<1>5. ReaderTypes' /\ ReaderLengths' /\ Settled' /\ ReaderBits'
  BY <1>3, <1>4, LabelsNow, ThreadsKept
<1>6. LabelWireOK(r, reads + 1) /\ readerPart # "threads" BY LabelsNow
<1>7. /\ q.kind = r.kind /\ q.of = r.of /\ q.kept = r.kept /\ q.served = yes
      /\ LabelWireOK(q, reads + 1)
  BY <1>2, <1>6 DEF LabelWireOK
<1>8. /\ r.kind \in {"create", "delete"} /\ r.of \in 1 .. reads + 1 BY <1>6 DEF LabelWireOK
<1>9. LabelTypes'
 <2>1. labelsThere' \in SUBSET (1 .. reads + 1) BY <1>3, <1>8, LabelsNow DEF LabelChange
 <2>2. \A x \in labelWires' : LabelWireOK(x, reads + 1) BY <1>3, <1>7, LabelsNow
 <2> QED BY <1>3, <1>4, <2>1, <2>2, LabelsNow DEF LabelTypes
<1>10. LabelsSettled'
 <2>1. creating' => \E x \in labelWires' : x.kind = "create"
  <3>1. ASSUME creating PROVE \E x \in labelWires' : x.kind = "create"
   <4>1. PICK x \in labelWires : x.kind = "create" BY <3>1, LabelsNow DEF LabelsSettled
   <4> QED BY <1>3, <1>7, <4>1
  <3> QED BY <1>3, <3>1
 <2>2. readerPart' # "threads" BY <1>3, <1>6
 <2>3. ASSUME ~replaced'
       PROVE  /\ labelWires' = {q}
              /\ q.kept = userLabels' /\ q.served /\ labelsThere' = LabelsAfter(q)
  <3>1. /\ labelWires = {r} /\ r.kept = userLabels
        /\ labelsThere = IF r.served THEN LabelsAfter(r) ELSE userLabels
    BY <1>3, <2>3, LabelsNow DEF LabelsSettled
  <3>2. labelsThere = userLabels BY <1>3, <3>1
  <3>3. labelsThere' = LabelsAfter(q) BY <1>3, <1>7, <3>1, <3>2 DEF LabelChange, LabelsAfter
  <3>4. q.served BY <1>1, <1>7
  <3> QED BY <1>3, <1>7, <3>1, <3>3, <3>4
 <2> QED BY <2>1, <2>2, <2>3 DEF LabelsSettled
<1> QED BY <1>5, <1>9, <1>10 DEF ReaderInv

LEMMA LabelAnsweredKeeps ==
    ASSUME ReaderInv, NEW r \in labelWires, LabelAnswered(r)
    PROVE  ReaderInv'
<1>1. /\ r.served /\ labelWires' = labelWires \ {r}
      /\ userLabels' = LabelsAfter(r)
      /\ readerPart' = readerPart /\ UNCHANGED threadVars /\ labelsThere' = labelsThere
      /\ labelNamed' = (labelNamed /\ r.kind # "create")
      /\ creating' = (creating /\ r.kind # "create")
      /\ UNCHANGED reads /\ replaced' = replaced
  BY DEF LabelAnswered, LabelsAfter
<1>2. reads' = reads /\ reads' \in 0 .. MaxReads /\ reads \in Nat /\ reads' \in Nat /\ reads <= reads'
  BY <1>1, LabelsNow, NoTime
<1>3. ReaderTypes' /\ ReaderLengths' /\ Settled' /\ ReaderBits'
  BY <1>1, <1>2, LabelsNow, ThreadsKept
<1>4. LabelWireOK(r, reads + 1) /\ readerPart # "threads" BY LabelsNow
<1>5. LabelTypes'
 <2>1. userLabels' \in SUBSET (1 .. reads + 1) BY <1>1, <1>4 DEF LabelsAfter, LabelWireOK
 <2> QED BY <1>1, <1>2, <2>1, LabelsNow DEF LabelTypes
<1>6. LabelsSettled'
 <2>1. creating' => \E x \in labelWires' : x.kind = "create"
  <3>1. ASSUME creating, r.kind # "create" PROVE \E x \in labelWires' : x.kind = "create"
   <4>1. PICK x \in labelWires : x.kind = "create" BY <3>1, LabelsNow DEF LabelsSettled
   <4> QED BY <1>1, <3>1, <4>1
  <3> QED BY <1>1, <3>1
 <2>2. readerPart' # "threads" BY <1>1, <1>4
 <2>3. ASSUME ~replaced'
       PROVE  labelWires' = {} /\ userLabels' = labelsThere'
  <3>1. /\ labelWires = {r} /\ r.kept = userLabels
        /\ labelsThere = IF r.served THEN LabelsAfter(r) ELSE userLabels
    BY <1>1, <2>3, LabelsNow DEF LabelsSettled
  <3> QED BY <1>1, <3>1
 <2> QED BY <2>1, <2>2, <2>3 DEF LabelsSettled
<1> QED BY <1>3, <1>5, <1>6 DEF ReaderInv

LEMMA LabelFailsKeeps ==
    ASSUME ReaderInv, NEW r \in labelWires, LabelFails(r)
    PROVE  ReaderInv'
<1>1. /\ labelWires' = labelWires \ {r} /\ userLabels' = userLabels
      /\ readerPart' = readerPart /\ UNCHANGED threadVars
      /\ UNCHANGED labelsThere \/ LabelChange(r)
      /\ labelNamed' = labelNamed
      /\ creating' = (creating /\ r.kind # "create")
      /\ UNCHANGED reads /\ replaced' = (replaced \/ r.served \/ labelsThere' # labelsThere)
  BY DEF LabelFails
<1>2. reads' = reads /\ reads' \in 0 .. MaxReads /\ reads \in Nat /\ reads' \in Nat /\ reads <= reads'
  BY <1>1, LabelsNow, NoTime
<1>3. ReaderTypes' /\ ReaderLengths' /\ Settled' /\ ReaderBits'
 <2>1. replaced' \in BOOLEAN /\ (~replaced' => ~replaced) /\ creating' \in BOOLEAN
       /\ labelNamed' \in BOOLEAN
   BY <1>1, LabelsNow
 <2> QED BY <1>1, <1>2, <2>1, ThreadsKept
<1>4. LabelWireOK(r, reads + 1) /\ readerPart # "threads" BY LabelsNow
<1>5. LabelTypes'
 <2>1. labelsThere' \in SUBSET (1 .. reads + 1)
   BY <1>1, <1>4, LabelsNow DEF LabelChange, LabelWireOK
 <2> QED BY <1>1, <1>2, <2>1, LabelsNow DEF LabelTypes
<1>6. LabelsSettled'
 <2>1. creating' => \E x \in labelWires' : x.kind = "create"
  <3>1. ASSUME creating, r.kind # "create" PROVE \E x \in labelWires' : x.kind = "create"
   <4>1. PICK x \in labelWires : x.kind = "create" BY <3>1, LabelsNow DEF LabelsSettled
   <4> QED BY <1>1, <3>1, <4>1
  <3> QED BY <1>1, <3>1
 <2>2. readerPart' # "threads" BY <1>1, <1>4
 <2>3. ASSUME ~replaced'
       PROVE  labelWires' = {} /\ userLabels' = labelsThere'
  <3>1. ~replaced /\ ~r.served /\ labelsThere' = labelsThere BY <1>1, <2>3
  <3>2. /\ labelWires = {r} /\ r.kept = userLabels
        /\ labelsThere = IF r.served THEN LabelsAfter(r) ELSE userLabels
    BY <3>1, LabelsNow DEF LabelsSettled
  <3> QED BY <1>1, <3>1, <3>2
 <2> QED BY <2>1, <2>2, <2>3 DEF LabelsSettled
<1> QED BY <1>3, <1>5, <1>6 DEF ReaderInv

-------------------------------------------------------------------------------
(* The reader: the invariant of its steps. *)

LEMMA FirstMailbox ==
    ASSUME ReaderInit
    PROVE  /\ mailbox \in MailBoxes
           /\ \A t \in Conversations : mailbox[t].length = 1
<1>1. PICK place \in [Conversations -> ReaderLabels] :
          mailbox = [t \in Conversations |->
                        [id |-> t, place |-> place[t], read |-> FALSE, star |-> FALSE, length |-> 1]]
  BY DEF ReaderInit
<1>2. PICK no \in BOOLEAN : no = FALSE OBVIOUS
<1> DEFINE g(t) == [id |-> t, place |-> place[t], read |-> no, star |-> no, length |-> 1]
<1>3. \A t \in Conversations : g(t) \in ReaderRow /\ g(t).id = t /\ g(t).length = 1 BY DEF ReaderRow
<1>4. mailbox = [t \in Conversations |-> g(t)] BY <1>1, <1>2, Zenon
<1> HIDE DEF g
<1> QED BY <1>3, <1>4 DEF MailBoxes

LEMMA ReaderInitOK == ReaderInit => ReaderInv
<1> SUFFICES ASSUME ReaderInit PROVE ReaderInv OBVIOUS
<1> USE ConstantsOfReader
<1>1. mailbox \in MailBoxes /\ \A t \in Conversations : mailbox[t].length = 1 BY FirstMailbox
<1>2. PICK p : p = PageOf(FirstLabel, 0) OBVIOUS
<1>3. p \in ReaderPages /\ PageFor(p, mailbox, FirstLabel, 0) BY <1>1, <1>2, PageIs
<1>4. /\ shownLabel = FirstLabel /\ threads = p.rows /\ cursorAt = p.cursor /\ moreRows = p.more
      /\ leaving = {} /\ wires = {} /\ follows = TRUE /\ replaced = FALSE /\ reads = 0
      /\ labelWires = {} /\ userLabels = {1} /\ labelsThere = {1} /\ creating = FALSE
      /\ refreshing = FALSE /\ openThread = 0 /\ replyOpen = FALSE /\ ticks = {} /\ undoOf = {}
      /\ labelNamed = FALSE /\ readerPart \in {"threads", "labels"}
  BY <1>2 DEF ReaderInit
<1>5. p.rows \in Seq(ReaderRow) /\ p.cursor \in Conversations \cup {0} /\ p.more \in BOOLEAN
  BY <1>3 DEF ReaderPages
<1>6. ReaderTypes BY <1>1, <1>4, <1>5, UndoOn DEF ReaderTypes
<1>7. ReaderBits BY <1>4, <1>5 DEF ReaderBits
<1>8. WholeRows(threads, mailbox, shownLabel, {}, follows, EdgeOf(moreRows, cursorAt))
 <2>1. PICK c : c = IF p.more THEN p.cursor ELSE 0 OBVIOUS
 <2>2. EdgeOf(moreRows, cursorAt) = c BY <1>4, <2>1 DEF EdgeOf
 <2>3. WholeRows(p.rows, mailbox, FirstLabel, {}, follows, c) BY <1>3, <2>1, WholeFirst
 <2> QED BY <1>4, <2>2, <2>3
<1>9. GoneOf(leaving) = {} /\ Due(wires) = {} BY <1>4 DEF GoneOf, Due
<1>10. Settled BY <1>4, <1>8, <1>9 DEF Settled, ThreadsSettled, LeavingFits
<1>11. ShortRows(threads, 1)
 <2>1. RowsOf(threads, IdsIn(threads), mailbox) /\ IdsIn(threads) \subseteq Conversations
   BY <1>4, <1>5, <1>8, IdsAre DEF WholeRows
 <2>2. \A i \in DOMAIN threads : threads[i] = mailbox[threads[i].id] /\ threads[i].id \in Conversations
   BY <2>1 DEF RowsOf, IdsIn
 <2>3. ASSUME NEW i \in DOMAIN threads PROVE threads[i].length = 1
  <3>1. PICK t \in Conversations : t = threads[i].id BY <2>2
  <3>2. threads[i] = mailbox[t] BY <2>2, <3>1
  <3> QED BY <1>1, <3>2
 <2> QED BY <2>3 DEF ShortRows
<1>12. ReaderLengths
 <2>1. Cardinality(Due(wires)) = 0 BY <1>9, FS_EmptySet
 <2>2. reads + 1 = 1 BY <1>4
 <2> QED BY <1>1, <1>4, <1>11, <2>1, <2>2 DEF ReaderLengths, LengthsFit
<1>13. LabelTypes BY <1>4 DEF LabelTypes
<1>14. LabelsSettled BY <1>4 DEF LabelsSettled
<1> QED BY <1>6, <1>7, <1>10, <1>12, <1>13, <1>14 DEF ReaderInv

LEMMA ReaderNextOK ==
    ASSUME ReaderInv, ReaderNext
    PROVE  ReaderInv'
<1>1. CASE \E l \in ReaderLabels : \/ ShowLabel(l) \/ BulkMoveTo(l) \/ BulkApplyLabel(l)
                                   \/ Leave5(l) \/ MoveToLabel(l)
  BY <1>1, ShowLabelKeeps, BulkMoveToKeeps, BulkApplyLabelKeeps, Leave5Keeps, MoveToLabelKeeps
<1>2. CASE \E t \in Conversations : OpenRow(t) BY <1>2, OpenRowKeeps
<1>3. CASE (\E t \in Conversations : TickRow(t)) \/ TickAll \/ NoneUnread BY <1>3, TicksKeep
<1>4. CASE \E kind \in {"read", "star"} : BulkFlag(kind) \/ ToggleFlag(kind)
  BY <1>4, BulkFlagKeeps, ToggleFlagKeeps
<1>5. CASE MarkAllRead \/ RefreshRows \/ FetchMore \/ BackToRows
  BY <1>5, MarkAllReadKeeps, RefreshRowsKeeps, FetchMoreKeeps, BackToRowsKeeps
<1>6. CASE UndoLeave \/ MessageHides \/ TurnReply \/ SendReply
  BY <1>6, UndoLeaveKeeps, MessageHidesKeeps, TurnReplyKeeps, SendReplyKeeps
<1>7. CASE \E d \in leaving : TimeIsOver(d) BY <1>7, TimeIsOverKeeps
<1>8. CASE \E r \in wires : WireServed(r) \/ WireAnswered(r) \/ WireFails(r)
  BY <1>8, WireServedKeeps, WireAnsweredKeeps, WireFailsKeeps
<1>9. CASE NameLabel \/ CreateLabel \/ \E l \in userLabels : DeleteLabel(l)
  BY <1>9, NameLabelKeeps, CreateLabelKeeps, DeleteLabelKeeps
<1>10. CASE \E r \in labelWires : LabelServed(r) \/ LabelAnswered(r) \/ LabelFails(r)
  BY <1>10, LabelServedKeeps, LabelAnsweredKeeps, LabelFailsKeeps
<1> QED BY <1>1, <1>2, <1>3, <1>4, <1>5, <1>6, <1>7, <1>8, <1>9, <1>10, Zenon DEF ReaderNext

-------------------------------------------------------------------------------
(* The reader: what its invariant says. *)

\* As many threads as rows.
LEMMA ThreadsCounted ==
    ASSUME NEW s \in Seq(ReaderRow), Once(s)
    PROVE  Cardinality(IdsIn(s)) = Len(s)
<1>1. Len(s) \in Nat /\ DOMAIN s = 1 .. Len(s) OBVIOUS
<1>2. PICK n \in Nat : n = Len(s) BY <1>1
<1> DEFINE f == [i \in 1 .. n |-> s[i].id]
<1>3. f \in Bijection(1 .. n, IdsIn(s))
 <2>1. f \in [1 .. n -> IdsIn(s)] BY <1>1, <1>2 DEF IdsIn
 <2>2. IsInjective(f) BY <1>1, <1>2 DEF IsInjective, Once
 <2>3. \A t \in IdsIn(s) : \E i \in 1 .. n : f[i] = t BY <1>1, <1>2 DEF IdsIn
 <2> QED BY <2>1, <2>2, <2>3 DEF Bijection, Injection, Surjection
<1>4. IsFiniteSet(1 .. n) /\ Cardinality(1 .. n) = n BY FS_Interval
<1>5. PICK S, T : S = 1 .. n /\ T = IdsIn(s) OBVIOUS
<1>6. ExistsBijection(S, T) /\ IsFiniteSet(S) BY <1>3, <1>4, <1>5 DEF ExistsBijection
<1>7. Cardinality(T) = Cardinality(S) BY <1>6, FS_Bijection
<1> QED BY <1>2, <1>4, <1>5, <1>7

\* The rows of the page of label l that are not read, and their threads.
LEMMA UnreadCounted ==
    ASSUME NEW s \in Seq(ReaderRow), Once(s), NEW P \in SUBSET DOMAIN s,
           NEW A, A = {s[i].id : i \in P}
    PROVE  Cardinality(P) = Cardinality(A)
<1>1. Len(s) \in Nat /\ DOMAIN s = 1 .. Len(s) OBVIOUS
<1>2. IsFiniteSet(P)
 <2>1. IsFiniteSet(1 .. Len(s)) /\ P \subseteq 1 .. Len(s) BY <1>1, FS_Interval
 <2> QED BY <2>1, FS_Subset
<1> DEFINE f == [i \in P |-> s[i].id]
<1>3. f \in Bijection(P, A)
 <2>1. f \in [P -> A] OBVIOUS
 <2>2. IsInjective(f) BY DEF IsInjective, Once
 <2>3. \A t \in A : \E i \in P : f[i] = t OBVIOUS
 <2> QED BY <2>1, <2>2, <2>3 DEF Bijection, Injection, Surjection
<1>4. ExistsBijection(P, A) BY <1>3 DEF ExistsBijection
<1> QED BY <1>2, <1>4, FS_Bijection

LEMMA RowsSettled == ReaderInv => RowsAreOfLabel
<1> SUFFICES ASSUME ReaderInv, wires = {}, leaving = {}, ~replaced
             PROVE  /\ Cardinality(IdsIn(RowsShown)) = Len(RowsShown)
                    /\ \A i \in DOMAIN RowsShown : RowsShown[i] = mailbox[RowsShown[i].id]
                    /\ follows /\ ~moreRows =>
                          LET there == {t \in Conversations : mailbox[t].place = shownLabel} IN
                          /\ there \subseteq IdsIn(RowsShown)
                          /\ CountForLabel(shownLabel) = Cardinality({t \in there : ~mailbox[t].read})
  BY DEF RowsAreOfLabel
<1>1. WholeRows(threads, mailbox, shownLabel, {}, follows, EdgeOf(moreRows, cursorAt))
 <2>1. GoneOf(leaving) = {} BY DEF GoneOf
 <2> QED BY <2>1, CalmIs
<1>2. threads \in Seq(ReaderRow) /\ IdsIn(threads) \subseteq Conversations BY ReaderNow
<1>3. /\ Once(threads)
      /\ \A i \in DOMAIN threads : /\ threads[i] = mailbox[threads[i].id]
                                   /\ threads[i].id \in Conversations
                                   /\ threads[i].place = shownLabel
  BY <1>1, <1>2 DEF WholeRows, RowsOf, IdsIn
<1>4. PICK s : s = RowsShown OBVIOUS
<1>5. IsSelection(s, threads, {i \in DOMAIN threads : threads[i].place = shownLabel})
  BY <1>2, <1>4, ShownAre
<1>6. {i \in DOMAIN threads : threads[i].place = shownLabel} = DOMAIN threads BY <1>3
<1>7. IsSelection(s, threads, DOMAIN threads) BY <1>5, <1>6
<1>8. /\ s \in Seq(ReaderRow) /\ Once(s)
      /\ \A i \in DOMAIN s : \E k \in DOMAIN threads : s[i] = threads[k]
      /\ \A k \in DOMAIN threads : \E i \in DOMAIN s : s[i] = threads[k]
  BY <1>3, <1>7 DEF IsSelection
<1>9. Cardinality(IdsIn(s)) = Len(s) BY <1>8, ThreadsCounted
<1>10. \A i \in DOMAIN s : s[i] = mailbox[s[i].id] BY <1>3, <1>8
<1>11. ASSUME follows, ~moreRows
       PROVE  LET there == {t \in Conversations : mailbox[t].place = shownLabel} IN
              /\ there \subseteq IdsIn(s)
              /\ CountForLabel(shownLabel) = Cardinality({t \in there : ~mailbox[t].read})
 <2> DEFINE there == {t \in Conversations : mailbox[t].place = shownLabel}
            P == {i \in DOMAIN threads : threads[i].place = shownLabel /\ ~threads[i].read}
            A == {t \in there : ~mailbox[t].read}
 <2>1. EdgeOf(moreRows, cursorAt) = 0 /\ \A t \in Conversations : t \in Nat /\ t >= 0
   BY <1>11, ConstantsOfReader DEF EdgeOf
 <2>2. \A t \in Conversations : mailbox[t].place = shownLabel => t \in IdsIn(threads)
   BY <1>1, <1>11, <2>1 DEF WholeRows
 <2>3. there \subseteq IdsIn(s) BY <1>8, <2>2 DEF IdsIn
 <2>4. A = {threads[i].id : i \in P}
  <3>1. ASSUME NEW t \in A PROVE t \in {threads[i].id : i \in P}
   <4>1. PICK i \in DOMAIN threads : threads[i].id = t BY <2>2 DEF IdsIn
   <4>2. threads[i] = mailbox[t] /\ threads[i].place = shownLabel BY <1>3, <4>1
   <4>3. i \in P BY <4>2
   <4> QED BY <4>1, <4>3
  <3>2. ASSUME NEW i \in P PROVE threads[i].id \in A BY <1>3
  <3> QED BY <3>1, <3>2
 <2>5. P \in SUBSET DOMAIN threads OBVIOUS
 <2>6. CountForLabel(shownLabel) = Cardinality(P) BY DEF CountForLabel
 <2> HIDE DEF P
 <2>7. PICK B : B = A OBVIOUS
 <2>8. B = {threads[i].id : i \in P} BY <2>4, <2>7
 <2>9. Cardinality(P) = Cardinality(B) BY <1>2, <1>3, <2>5, <2>8, UnreadCounted
 <2> QED BY <2>3, <2>6, <2>7, <2>9
<1> QED BY <1>4, <1>9, <1>10, <1>11

LEMMA LabelsAgree == ReaderInv => LabelsAreListed
  BY DEF ReaderInv, LabelsSettled, LabelsAreListed, CreateBarred, ReaderBits

LEMMA ReaderTyped == ReaderInv => ReaderTypeOK
<1> SUFFICES ASSUME ReaderInv PROVE ReaderTypeOK OBVIOUS
<1> USE ConstantsOfReader
<1> DEFINE Row == [id: Conversations, place: ReaderLabels, read: BOOLEAN, star: BOOLEAN,
                   length: 1 .. MaxReads + 1]
<1>1. ReaderTypes /\ ReaderBits /\ LabelTypes /\ reads \in Nat /\ threads \in Seq(ReaderRow)
  BY ReaderNow DEF ReaderInv
<1>2. PICK m \in Nat, n \in Nat : m = reads + 1 /\ n = MaxReads + 1 /\ m <= n
  BY <1>1 DEF ReaderTypes
<1>3. \A k \in Nat \ {0} : k <= m => k \in 1 .. n BY <1>2
<1>4. ASSUME NEW e \in ReaderRow, e.length <= reads + 1 PROVE e \in Row
 <2>1. e.length \in Nat \ {0} /\ e.length <= m BY <1>2, <1>4 DEF ReaderRow
 <2>2. e.length \in 1 .. MaxReads + 1 BY <1>2, <1>3, <2>1
 <2> QED BY <2>2 DEF ReaderRow
<1>5. \A i \in DOMAIN threads : threads[i] \in Row
 <2>1. \A i \in DOMAIN threads : threads[i] \in ReaderRow /\ threads[i].length <= reads + 1
   BY <1>1, ReaderNow, IdsAre DEF LengthsFit, ShortRows
 <2> HIDE DEF Row
 <2> QED BY <1>4, <2>1
<1>6. ToSet(threads) \subseteq Row
 <2> HIDE DEF Row
 <2> QED BY <1>5 DEF ToSet
<1>7. mailbox \in [Conversations -> Row]
 <2>1. mailbox \in [Conversations -> ReaderRow] BY <1>1 DEF ReaderTypes, MailBoxes
 <2>2. ASSUME NEW t \in Conversations PROVE mailbox[t].length <= reads + 1
  <3>1. mailbox[t].length + Cardinality(Due(wires)) <= reads + 1 BY ReaderNow DEF LengthsFit
  <3>2. PICK i \in Nat, j \in Nat : i = mailbox[t].length /\ j = Cardinality(Due(wires))
    BY <2>1, ReaderNow DEF ReaderRow
  <3>3. i + j <= m BY <1>2, <3>1, <3>2
  <3>4. i <= m BY <3>3
  <3> QED BY <1>2, <3>2, <3>4
 <2> HIDE DEF Row
 <2> QED BY <1>4, <2>1, <2>2
<1>8. userLabels \cup labelsThere \subseteq 1 .. MaxReads + 1
 <2>1. \A k \in 1 .. m : k \in 1 .. n BY <1>2
 <2>2. userLabels \in SUBSET (1 .. m) /\ labelsThere \in SUBSET (1 .. m)
   BY <1>1, <1>2 DEF LabelTypes
 <2> QED BY <1>2, <2>1, <2>2
<1>9. reads \in 0 .. MaxReads /\ {d.row : d \in undoOf} \subseteq Row
 <2> HIDE DEF Row
 <2> QED BY <1>1, <1>4 DEF ReaderTypes, UndoFits
<1>10. {moreRows, refreshing, replyOpen, labelNamed, creating, follows, replaced} \subseteq BOOLEAN
  BY <1>1 DEF ReaderBits
<1> QED BY <1>1, <1>6, <1>7, <1>8, <1>9, <1>10 DEF ReaderTypeOK, ReaderTypes

\* The invariant says what is checked of the reader.
LEMMA InvSettlesReader == ReaderInv => RowsAreOfLabel /\ LabelsAreListed /\ ReaderTypeOK
  BY RowsSettled, LabelsAgree, ReaderTyped

LEMMA ReaderStepOK == ReaderInv /\ [ReaderNext]_readerVars => ReaderInv'
<1> SUFFICES ASSUME ReaderInv, [ReaderNext]_readerVars PROVE ReaderInv' OBVIOUS
<1>1. CASE ReaderNext BY <1>1, ReaderNextOK
<1>2. CASE UNCHANGED readerVars
 <2>1. /\ UNCHANGED <<labelVars, readerPart, mailbox, shownLabel, threads, cursorAt, moreRows,
                      leaving, follows, replaced>>
       /\ wires' = wires /\ reads' = reads /\ openThread' = openThread /\ ticks' = ticks
       /\ undoOf' = undoOf /\ refreshing' = refreshing /\ replyOpen' = replyOpen
       /\ labelNamed' = labelNamed
   BY <1>2 DEF readerVars, threadVars, listVars, labelVars
 <2>2. Carried(wires', wires) BY <2>1, ReaderNow
 <2>3. QuietStep BY <2>1, <2>2 DEF QuietStep, ReaderInv, ReaderTypes, ReaderBits
 <2> QED BY <2>3, QuietKeeps
<1> QED BY <1>1, <1>2

===============================================================================
