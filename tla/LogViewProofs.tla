---------------------------- MODULE LogViewProofs ----------------------------
(***************************************************************************)
(* The log window, for any texts, sizes of the queue, of the history and   *)
(* of the window, and any cut of a text into messages.                     *)
(*                                                                         *)
(* The argument.  AsAWhole: a newline that is in the text of all messages  *)
(* so far is in the unfinished line of the messages before, or in what the *)
(* last one brought, so the lines of the whole are those of the part       *)
(* before and those of unfinished line and new message together            *)
(* (LinesJoin).  The k-th position of a set is made of the k-th of its two *)
(* halves (NthJoined), and the window drops its first line when, as        *)
(* counted, it is full (ShowAllIs).  A line that cannot be decoded ends    *)
(* the loop with the count as it was: what is shown then is no longer what *)
(* is counted, but the window never holds less than is counted, up to its  *)
(* capacity, and only lines of the text (ShowAllFills).                    *)
(*                                                                         *)
(* Unbroken: what is on its way is linked, from the queue of the child to  *)
(* the history (Piped), from the history to the messages, and from the     *)
(* text to the first of those (Seam): each piece is a run of positions     *)
(* that goes on where the one before ends, color codes apart in the text.  *)
(***************************************************************************)
EXTENDS LogView, WellFoundedInduction, FiniteSetTheorems, SequenceTheorems, TLAPS

-----------------------------------------------------------------------------
(* Positions: the least, the greatest, the k-th of a set                   *)

\* A set of numbers has a least one.
LEMMA Least ==
  ASSUME NEW T, T \subseteq Nat, T # {}
  PROVE  \E m \in T : \A n \in T : m <= n
<1> DEFINE R == OpToRel(<, Nat)
<1>1. IsWellFoundedOn(R, Nat)
  BY NatLessThanWellFounded
<1>2. \A m, n \in Nat : m < n => <<m, n>> \in R
  BY DEF OpToRel
<1> HIDE DEF R
<1>3. PICK m \in T : \A n \in T : ~ (<<n, m>> \in R)
  BY <1>1, WFMin
<1>4. ASSUME NEW n \in T PROVE m <= n
  <2>1. m \in Nat /\ n \in Nat /\ ~(n < m)
    BY <1>2, <1>3
  <2> QED
    BY <2>1
<1> QED
  BY <1>4

\* Induction up to N.
LEMMA UpTo ==
  ASSUME NEW N \in Nat, NEW T, 0 \in T, \A n \in 1..N : n - 1 \in T => n \in T
  PROVE  \A n \in 0..N : n \in T
<1> DEFINE U == (0..N) \ T
<1> SUFFICES ASSUME U # {} PROVE FALSE
  OBVIOUS
<1>1. U \subseteq Nat
  OBVIOUS
<1>2. PICK m \in U : \A n \in U : m <= n
  <2> HIDE DEF U
  <2> QED
    BY <1>1, Least
<1>3. m \in 1..N /\ m - 1 \in 0..N /\ ~(m <= m - 1)
  BY <1>2
<1> QED
  BY <1>2, <1>3

\* Max is what its name says, of positions up to n.
LEMMA Greatest ==
  ASSUME NEW n \in Nat, NEW S, \A x \in S : x \in 0..n, S # {}
  PROVE  Max(S) \in S /\ \A i \in S : i <= Max(S)
<1> DEFINE U == {n - i : i \in S}
<1>1. U \subseteq Nat /\ U # {}
  OBVIOUS
<1>2. PICK u \in U : \A v \in U : u <= v
  <2> HIDE DEF U
  <2> QED
    BY <1>1, Least
<1>3. PICK m \in S : u = n - m
  OBVIOUS
<1>4. ASSUME NEW i \in S PROVE m >= i
  <2>1. n - m <= n - i
    BY <1>2, <1>3
  <2> QED
    BY <2>1
<1>5. \E x \in S : \A y \in S : x >= y
  BY <1>4
<1>6. Max(S) \in S /\ \A y \in S : Max(S) >= y
  BY <1>5 DEF Max
<1> QED
  BY <1>6

LEMMA GreatestIs ==
  ASSUME NEW n \in Nat, NEW S, \A x \in S : x \in 0..n, NEW m \in S, \A i \in S : i <= m
  PROVE  Max(S) = m
<1>1. Max(S) \in S /\ \A i \in S : i <= Max(S)
  BY Greatest
<1> QED
  BY <1>1

Below(S, i) == {j \in S : j <= i}

LEMMA BelowIs ==
  ASSUME NEW n \in Nat, NEW S, \A x \in S : x \in 1..n, NEW i
  PROVE  /\ IsFiniteSet(S) /\ Cardinality(S) \in Nat
         /\ IsFiniteSet(Below(S, i)) /\ Cardinality(Below(S, i)) \in 0..Cardinality(S)
<1>1. IsFiniteSet(1..n)
  BY FS_Interval
<1>2. IsFiniteSet(S)
  BY <1>1, FS_Subset
<1>3. Below(S, i) \in SUBSET S
  BY DEF Below
<1>4. IsFiniteSet(Below(S, i)) /\ Cardinality(Below(S, i)) <= Cardinality(S)
  BY <1>2, <1>3, FS_Subset
<1>5. Cardinality(S) \in Nat /\ Cardinality(Below(S, i)) \in Nat
  BY <1>2, <1>4, FS_CardinalityType
<1> QED
  BY <1>2, <1>4, <1>5

\* Who comes later has more below.
LEMMA RankGrows ==
  ASSUME NEW n \in Nat, NEW S, \A x \in S : x \in 1..n, NEW i \in Nat, NEW j \in S, i < j
  PROVE  Cardinality(Below(S, i)) < Cardinality(Below(S, j))
<1>1. Below(S, i) \in SUBSET Below(S, j)
  BY DEF Below
<1>2. Below(S, i) # Below(S, j)
  BY DEF Below
<1>3. IsFiniteSet(Below(S, j))
  BY BelowIs
<1>4. /\ Cardinality(Below(S, i)) <= Cardinality(Below(S, j))
      /\ Cardinality(Below(S, j)) # Cardinality(Below(S, i))
  BY <1>1, <1>2, <1>3, FS_Subset
<1>5. Cardinality(Below(S, i)) \in Nat /\ Cardinality(Below(S, j)) \in Nat
  BY BelowIs
<1> QED
  BY <1>4, <1>5

\* For every k up to its size, some position of a set is the k-th.
LEMMA NthExists ==
  ASSUME NEW n \in Nat, NEW S, \A x \in S : x \in 1..n, NEW k \in 1..Cardinality(S)
  PROVE  \E i \in S : Cardinality(Below(S, i)) = k
<1> DEFINE r(i) == Cardinality(Below(S, i))
           T == {i \in 0..n : r(i) >= k}
<1>1. r(n) = Cardinality(S)
  <2>1. Below(S, n) = S
    BY DEF Below
  <2> QED
    BY <2>1
<1>2. Cardinality(S) \in Nat
  BY BelowIs
<1>3. T \subseteq Nat /\ T # {}
  BY <1>1, <1>2
<1>4. PICK m \in T : \A i \in T : m <= i
  <2> HIDE DEF T
  <2> QED
    BY <1>3, Least
<1>5. r(0) = 0
  <2>1. Below(S, 0) = {}
    BY DEF Below
  <2> QED
    BY <2>1, FS_EmptySet
<1>6. m \in 1..n /\ m - 1 \in 0..n /\ m - 1 \notin T
  BY <1>4, <1>5, <1>2
<1>7. r(m - 1) \in Nat /\ r(m) \in Nat /\ IsFiniteSet(Below(S, m - 1))
  BY BelowIs
<1>8. r(m - 1) < k
  BY <1>2, <1>6, <1>7
<1>9. m \in S /\ Below(S, m) = Below(S, m - 1) \cup {m}
  <2>1. m \in S
    <3>1. CASE m \notin S
      <4>1. Below(S, m) = Below(S, m - 1)
        BY <1>6, <3>1 DEF Below
      <4> QED
        BY <4>1, <1>4, <1>8, <1>7, <1>2
    <3> QED
      BY <3>1
  <2>2. \A j \in S : j <= m <=> (j <= m - 1 \/ j = m)
    BY <1>6
  <2> QED
    BY <2>1, <2>2 DEF Below
<1>10. m \notin Below(S, m - 1)
  BY <1>6 DEF Below
<1>11. r(m) = r(m - 1) + 1
  BY <1>7, <1>9, <1>10, FS_AddElement
<1>12. r(m) >= k
  BY <1>4
<1>13. r(m) = k
  BY <1>2, <1>7, <1>8, <1>11, <1>12
<1> QED
  BY <1>9, <1>13

LEMMA NthIs ==
  ASSUME NEW n \in Nat, NEW S, \A x \in S : x \in 1..n, NEW k \in 1..Cardinality(S)
  PROVE  Nth(S, k) \in S /\ Cardinality(Below(S, Nth(S, k))) = k
<1>1. \E i \in S : Cardinality({j \in S : j <= i}) = k
  BY NthExists DEF Below
<1> QED
  BY <1>1 DEF Nth, Below

\* No other position has as many below.
LEMMA NthOnly ==
  ASSUME NEW n \in Nat, NEW S, \A x \in S : x \in 1..n, NEW i \in S
  PROVE  /\ Cardinality(Below(S, i)) \in 1..Cardinality(S)
         /\ Nth(S, Cardinality(Below(S, i))) = i
<1> DEFINE k == Cardinality(Below(S, i))
<1>1. k \in 1..Cardinality(S)
  <2>1. k \in 0..Cardinality(S) /\ IsFiniteSet(Below(S, i)) /\ Cardinality(S) \in Nat
    BY BelowIs
  <2>2. Below(S, i) # {}
    BY DEF Below
  <2> QED
    BY <2>1, <2>2, FS_EmptySet
<1>2. Nth(S, k) \in S /\ Cardinality(Below(S, Nth(S, k))) = k
  BY <1>1, NthIs
<1> DEFINE j == Nth(S, k)
<1>3. j \in Nat /\ i \in Nat /\ j \in S /\ Cardinality(Below(S, j)) = k /\ k \in Nat
  BY <1>1, <1>2, BelowIs
<1> HIDE DEF j
<1>4. ~(i < j) /\ ~(j < i)
  <2>1. i < j => k < Cardinality(Below(S, j))
    BY <1>3, RankGrows
  <2>2. j < i => Cardinality(Below(S, j)) < k
    BY <1>3, RankGrows
  <2> HIDE DEF k
  <2> QED
    BY <1>3, <2>1, <2>2
<1>5. i = j
  BY <1>3, <1>4
<1> QED
  BY <1>1, <1>5 DEF j

\* The positions come one after the other, from the first to the last.
LEMMA NthNext ==
  ASSUME NEW n \in Nat, NEW S, \A x \in S : x \in 1..n
  PROVE  /\ \A k \in 1..Cardinality(S) - 1 :
              /\ Nth(S, k) < Nth(S, k + 1)
              /\ \A j \in S : j <= Nth(S, k) \/ j >= Nth(S, k + 1)
         /\ \A j \in S : Nth(S, 1) <= j /\ j <= Nth(S, Cardinality(S))
<1> DEFINE r(i) == Cardinality(Below(S, i))
<1>0. Cardinality(S) \in Nat
  BY BelowIs
<1>1. \A k \in 1..Cardinality(S) : Nth(S, k) \in S /\ r(Nth(S, k)) = k
  BY NthIs
<1>2. \A i, j \in S : i < j => r(i) < r(j)
  BY RankGrows
<1>3. \A j \in S : r(j) \in 1..Cardinality(S) /\ j \in Nat
  BY NthOnly
<1> HIDE DEF r
<1>4. ASSUME NEW k \in 1..Cardinality(S) - 1
      PROVE  /\ Nth(S, k) < Nth(S, k + 1)
             /\ \A j \in S : j <= Nth(S, k) \/ j >= Nth(S, k + 1)
  <2> DEFINE x == Nth(S, k)
             y == Nth(S, k + 1)
  <2>1. k \in 1..Cardinality(S) /\ k + 1 \in 1..Cardinality(S)
    BY <1>0
  <2>2. x \in S /\ y \in S /\ r(x) = k /\ r(y) = k + 1
    BY <1>1, <2>1
  <2> HIDE DEF x, y
  <2>3. x \in Nat /\ y \in Nat
    BY <1>3, <2>2
  <2>4. x < y
    <3>1. y < x => r(y) < r(x)
      BY <1>2, <2>2
    <3> QED
      BY <2>2, <2>3, <3>1, <2>1
  <2>5. ASSUME NEW j \in S, x < j, j < y PROVE FALSE
    <3>1. r(x) < r(j) /\ r(j) < r(y) /\ r(j) \in Nat
      BY <1>2, <1>3, <2>2, <2>5
    <3> QED
      BY <3>1, <2>2, <2>1
  <2>6. \A j \in S : j <= x \/ j >= y
    BY <2>5, <2>3, <1>3
  <2> QED
    BY <2>4, <2>6 DEF x, y
<1>5. ASSUME NEW j \in S PROVE Nth(S, 1) <= j /\ j <= Nth(S, Cardinality(S))
  <2> DEFINE x == Nth(S, 1)
             y == Nth(S, Cardinality(S))
  <2>1. r(j) \in 1..Cardinality(S) /\ j \in Nat
    BY <1>3
  <2>2. 1 \in 1..Cardinality(S) /\ Cardinality(S) \in 1..Cardinality(S)
    BY <2>1, <1>0
  <2>3. x \in S /\ y \in S /\ r(x) = 1 /\ r(y) = Cardinality(S)
    BY <1>1, <2>2
  <2> HIDE DEF x, y
  <2>4. x \in Nat /\ y \in Nat
    BY <1>3, <2>3
  <2>5. j < x => r(j) < r(x)
    BY <1>2, <2>3
  <2>6. y < j => r(y) < r(j)
    BY <1>2, <2>3
  <2>7. x <= j /\ j <= y
    BY <2>1, <2>3, <2>4, <2>5, <2>6, <1>0
  <2> QED
    BY <2>7 DEF x, y
<1> QED
  BY <1>4, <1>5

-----------------------------------------------------------------------------
(* Lines                                                                   *)

\* The newline before position e, 0 if there is none.
Before(t, s, e) == Max({i \in Ends(t, s) : i < e} \cup {0})

LEMMA EndsAre ==
  ASSUME NEW t, NEW P, NEW s \in Seq(P)
  PROVE  Len(s) \in Nat /\ \A i \in Ends(t, s) : i \in 1..Len(s)
BY LenProperties DEF Ends

IsBefore(t, s, e, b) ==
  /\ b \in 0..e - 1 /\ (b = 0 \/ b \in Ends(t, s))
  /\ \A i \in Ends(t, s) : i < e => i <= b

LEMMA BeforeIs ==
  ASSUME NEW t, NEW P, NEW s \in Seq(P), NEW e \in 1..Len(s) + 1
  PROVE  IsBefore(t, s, e, Before(t, s, e))
<1> DEFINE S == {i \in Ends(t, s) : i < e} \cup {0}
           b == Before(t, s, e)
<1>1. Len(s) \in Nat /\ \A i \in Ends(t, s) : i \in 1..Len(s)
  BY EndsAre
<1>2. (\A i \in S : i \in 0..e - 1) /\ S # {} /\ e - 1 \in Nat
  BY <1>1
<1>3. Max(S) \in S /\ \A i \in S : i <= Max(S)
  <2> HIDE DEF S
  <2> QED
    BY <1>2, Greatest
<1>4. b = Max(S)
  BY DEF Before
<1> HIDE DEF b
<1>5. b \in S /\ \A i \in S : i <= b
  <2> HIDE DEF S
  <2> QED
    BY <1>3, <1>4
<1>6. b \in 0..e - 1 /\ (b = 0 \/ b \in Ends(t, s))
  BY <1>2, <1>5
<1>7. \A i \in Ends(t, s) : i < e => i <= b
  BY <1>5
<1>8. IsBefore(t, s, e, b)
  BY <1>6, <1>7 DEF IsBefore
<1> QED
  BY <1>8 DEF b

\* It is the only number of which that is true.
LEMMA BeforeOnly ==
  ASSUME NEW t, NEW P, NEW s \in Seq(P), NEW e \in 1..Len(s) + 1,
         NEW b, IsBefore(t, s, e, b)
  PROVE  Before(t, s, e) = b
<1> DEFINE c == Before(t, s, e)
<1>1. IsBefore(t, s, e, c)
  BY BeforeIs
<1> HIDE DEF c
<1>2. Len(s) \in Nat
  BY EndsAre
<1>3. c <= b /\ b <= c
  BY <1>1, <1>2 DEF IsBefore
<1>4. c = b
  BY <1>1, <1>2, <1>3 DEF IsBefore
<1> QED
  BY <1>4 DEF c

IsLine(P, s, e, b, l) ==
  /\ l \in Seq(P) /\ Len(l) = e - 1 - b
  /\ \A i \in 1..Len(l) : b + i \in 1..Len(s) /\ l[i] = s[b + i]

\* What LineAt cuts out.
LEMMA LineIs ==
  ASSUME NEW t, NEW P, NEW s \in Seq(P), NEW e \in 1..Len(s) + 1
  PROVE  IsLine(P, s, e, Before(t, s, e), LineAt(t, s, e))
<1> DEFINE b == Before(t, s, e)
           l == LineAt(t, s, e)
<1>1. b \in 0..e - 1 /\ Len(s) \in Nat
  BY BeforeIs, EndsAre DEF IsBefore
<1>2. l = SubSeq(s, b + 1, e - 1)
  BY DEF LineAt, Before
<1> HIDE DEF b, l
<1>3. \A i \in b + 1..e - 1 : i \in 1..Len(s)
  BY <1>1
<1>4. \A i \in b + 1..e - 1 : s[i] \in P
  BY <1>3, ElementOfSeq
<1>5. b + 1 \in Int /\ e - 1 \in Int
  BY <1>1
<1>6. /\ l \in Seq(P)
      /\ Len(l) = IF b + 1 <= e - 1 THEN e - 1 - (b + 1) + 1 ELSE 0
      /\ \A i \in 1..e - 1 - (b + 1) + 1 : l[i] = s[b + 1 + i - 1]
  BY <1>2, <1>4, <1>5, SubSeqProperties
<1>7. Len(l) = e - 1 - b
  BY <1>1, <1>6
<1>8. ASSUME NEW i \in 1..Len(l) PROVE b + i \in 1..Len(s) /\ l[i] = s[b + i]
  <2>1. i \in 1..e - 1 - (b + 1) + 1 /\ b + 1 + i - 1 = b + i
    BY <1>1, <1>7
  <2>2. b + i \in b + 1..e - 1
    BY <1>1, <1>7
  <2> QED
    BY <2>1, <2>2, <1>3, <1>6
<1>9. IsLine(P, s, e, b, l)
  BY <1>6, <1>7, <1>8 DEF IsLine
<1> QED
  BY <1>9 DEF b, l

\* What a is with x after it, and its unfinished line with x after it, agree
\* after the last newline of a, and so do their newlines.
Joins(t, P, a, x, m, w, c) ==
  /\ m \in 0..Len(a) /\ Len(a) \in Nat /\ Len(w) \in Nat /\ Len(c) \in Nat
  /\ a \in Seq(P) /\ w \in Seq(P) /\ c \in Seq(P)
  /\ Len(c) = Len(w) - m /\ Len(w) >= Len(a)
  /\ \A i \in 1..Len(a) : w[i] = a[i]
  /\ \A i \in 1..Len(c) : c[i] = w[m + i]
  /\ m = 0 \/ m \in Ends(t, a)
  /\ \A i \in Ends(t, a) : i \in 1..m
  /\ \A i \in 1..m : i \in Ends(t, w) <=> i \in Ends(t, a)
  /\ \A i \in 1..Len(c) : m + i \in Ends(t, w) <=> i \in Ends(t, c)

LEMMA Joined ==
  ASSUME NEW t, NEW P, NEW a \in Seq(P), NEW x \in Seq(P)
  PROVE  Joins(t, P, a, x, Before(t, a, Len(a) + 1), a \o x, RestOf(t, a) \o x)
<1> DEFINE m == Before(t, a, Len(a) + 1)
           w == a \o x
           r == RestOf(t, a)
           c == r \o x
<1>1. Len(a) \in Nat /\ Len(x) \in Nat /\ Len(a) + 1 \in 1..Len(a) + 1
  BY LenProperties
<1>2. /\ m \in 0..Len(a) /\ (m = 0 \/ m \in Ends(t, a))
      /\ \A i \in Ends(t, a) : i < Len(a) + 1 => i <= m
  <2>1. IsBefore(t, a, Len(a) + 1, m)
    BY <1>1, BeforeIs
  <2> HIDE DEF m
  <2> QED
    BY <1>1, <2>1 DEF IsBefore
<1>3. /\ r \in Seq(P) /\ Len(r) = Len(a) - m
      /\ \A i \in 1..Len(r) : r[i] = a[m + i]
  <2>1. IsLine(P, a, Len(a) + 1, m, r)
    BY <1>1, LineIs DEF RestOf
  <2> HIDE DEF m, r
  <2> QED
    BY <1>1, <1>2, <2>1 DEF IsLine
<1>4. /\ w \in Seq(P) /\ Len(w) = Len(a) + Len(x)
      /\ \A i \in 1..Len(a) + Len(x) :
           w[i] = IF i <= Len(a) THEN a[i] ELSE x[i - Len(a)]
  BY ConcatProperties
<1>5. /\ c \in Seq(P) /\ Len(c) = Len(r) + Len(x)
      /\ \A i \in 1..Len(r) + Len(x) :
           c[i] = IF i <= Len(r) THEN r[i] ELSE x[i - Len(r)]
  BY <1>3, ConcatProperties
<1> HIDE DEF m, w, r, c
<1>6. \A i \in 1..Len(a) : w[i] = a[i]
  BY <1>1, <1>4
<1>7. ASSUME NEW i \in 1..Len(c) PROVE c[i] = w[m + i]
  <2>1. m + i \in 1..Len(a) + Len(x) /\ i \in 1..Len(r) + Len(x)
    BY <1>1, <1>2, <1>3, <1>5
  <2>2. CASE i <= Len(r)
    <3>1. i \in 1..Len(r) /\ m + i <= Len(a)
      BY <1>1, <1>2, <1>3, <2>1, <2>2
    <3>2. c[i] = a[m + i] /\ w[m + i] = a[m + i]
      <4>1. c[i] = r[i]
        BY <2>1, <2>2, <1>5
      <4>2. w[m + i] = a[m + i]
        BY <3>1, <2>1, <1>4
      <4> QED
        BY <3>1, <4>1, <4>2, <1>3
    <3> QED
      BY <3>2
  <2>3. CASE ~(i <= Len(r))
    <3> DEFINE j == m + i
    <3>1. j \in 1..Len(a) + Len(x) /\ ~(j <= Len(a)) /\ j - Len(a) = i - Len(r)
      BY <1>1, <1>2, <1>3, <2>1, <2>3
    <3>2. c[i] = x[i - Len(r)]
      BY <2>1, <2>3, <1>5
    <3> HIDE DEF j
    <3>3. w[j] = x[j - Len(a)]
      BY <3>1, <1>4
    <3>4. c[i] = w[j]
      BY <3>1, <3>2, <3>3
    <3> QED
      BY <3>4 DEF j
  <2> QED
    BY <2>2, <2>3
<1>8. \A i \in Ends(t, a) : i \in 1..m
  <2>1. \A i \in Ends(t, a) : i \in 1..Len(a)
    BY EndsAre
  <2> QED
    BY <1>1, <1>2, <2>1
<1>9. ASSUME NEW i \in 1..m PROVE i \in Ends(t, w) <=> i \in Ends(t, a)
  <2>1. i \in 1..Len(a) /\ i \in 1..Len(w)
    BY <1>1, <1>2, <1>4
  <2>2. w[i] = a[i]
    BY <1>6, <2>1
  <2> QED
    BY <2>1, <2>2 DEF Ends
<1>10. ASSUME NEW i \in 1..Len(c) PROVE m + i \in Ends(t, w) <=> i \in Ends(t, c)
  <2>1. m + i \in 1..Len(w)
    BY <1>1, <1>2, <1>3, <1>4, <1>5
  <2> QED
    BY <2>1, <1>7 DEF Ends
<1>11. Len(w) \in Nat /\ Len(c) \in Nat /\ Len(c) = Len(w) - m /\ Len(w) >= Len(a)
  BY <1>1, <1>2, <1>3, <1>4, <1>5
<1>12. Joins(t, P, a, x, m, w, c)
  BY <1>1, <1>2, <1>4, <1>5, <1>6, <1>7, <1>8, <1>9, <1>10, <1>11 DEF Joins
<1> QED
  BY <1>12 DEF m, w, c, r

LEMMA JoinedLines ==
  ASSUME NEW t, NEW P, NEW a, NEW x, NEW m, NEW w, NEW c,
         Joins(t, P, a, x, m, w, c)
  PROVE  /\ \A e \in Ends(t, a) : LineAt(t, w, e) = LineAt(t, a, e)
         /\ \A e \in 1..Len(c) + 1 : LineAt(t, w, m + e) = LineAt(t, c, e)
<1> USE DEF Joins
<1>1. ASSUME NEW e \in Ends(t, a) PROVE LineAt(t, w, e) = LineAt(t, a, e)
  <2> DEFINE b == Before(t, a, e)
             k == LineAt(t, a, e)
             l == LineAt(t, w, e)
  <2>1. e \in 1..m /\ e \in 1..Len(a) + 1 /\ e \in 1..Len(w) + 1
    OBVIOUS
  <2>b. IsBefore(t, a, e, b)
    BY <2>1, BeforeIs
  <2>k. IsLine(P, a, e, b, k)
    BY <2>1, LineIs
  <2> HIDE DEF b, k
  <2>2. /\ b \in 0..e - 1 /\ (b = 0 \/ b \in Ends(t, a))
        /\ \A i \in Ends(t, a) : i < e => i <= b
    BY <2>b DEF IsBefore
  <2>3. /\ k \in Seq(P) /\ Len(k) = e - 1 - b
        /\ \A i \in 1..Len(k) : b + i \in 1..Len(a) /\ k[i] = a[b + i]
    BY <2>k DEF IsLine
  <2>4. b = 0 \/ b \in Ends(t, w)
    BY <2>2
  <2>5. ASSUME NEW i \in Ends(t, w), i < e PROVE i <= b
    <3>1. i \in 1..Len(w)
      BY EndsAre
    <3>2. i \in 1..m
      BY <3>1, <2>1, <2>5
    <3> QED
      BY <3>2, <2>2, <2>5
  <2>6. Before(t, w, e) = b
    <3>1. IsBefore(t, w, e, b)
      BY <2>2, <2>4, <2>5 DEF IsBefore
    <3> QED
      BY <3>1, <2>1, BeforeOnly
  <2>l. IsLine(P, w, e, b, l)
    BY <2>1, <2>6, LineIs
  <2> HIDE DEF l
  <2>7. /\ l \in Seq(P) /\ Len(l) = e - 1 - b
        /\ \A i \in 1..Len(l) : l[i] = w[b + i]
    BY <2>l DEF IsLine
  <2>8. \A i \in 1..Len(l) : l[i] = k[i]
    BY <2>3, <2>7
  <2>9. l = k
    BY <2>3, <2>7, <2>8, SeqEqual
  <2> QED
    BY <2>9 DEF l, k
<1>2. ASSUME NEW e \in 1..Len(c) + 1 PROVE LineAt(t, w, m + e) = LineAt(t, c, e)
  <2> DEFINE b == Before(t, c, e)
             k == LineAt(t, c, e)
             l == LineAt(t, w, m + e)
  <2>1. m + e \in 1..Len(w) + 1 /\ e \in Nat /\ m \in Nat
    OBVIOUS
  <2>b. IsBefore(t, c, e, b)
    BY BeforeIs
  <2>k. IsLine(P, c, e, b, k)
    BY LineIs
  <2> HIDE DEF b, k
  <2>2. /\ b \in 0..e - 1 /\ (b = 0 \/ b \in Ends(t, c))
        /\ \A i \in Ends(t, c) : i < e => i <= b
    BY <2>b DEF IsBefore
  <2>3. /\ k \in Seq(P) /\ Len(k) = e - 1 - b
        /\ \A i \in 1..Len(k) : b + i \in 1..Len(c) /\ k[i] = c[b + i]
    BY <2>k DEF IsLine
  <2>4. m + b \in 0..m + e - 1 /\ b \in Nat
    BY <2>1, <2>2
  <2>5. m + b = 0 \/ m + b \in Ends(t, w)
    <3>1. CASE b = 0
      <4>1. m + b = m
        BY <3>1, <2>1
      <4>2. m = 0 \/ m \in Ends(t, w)
        OBVIOUS
      <4> QED
        BY <4>1, <4>2
    <3>2. CASE b \in Ends(t, c)
      <4>1. b \in 1..Len(c)
        BY <3>2, EndsAre
      <4> QED
        BY <4>1, <3>2
    <3> QED
      BY <3>1, <3>2, <2>2
  <2>6. ASSUME NEW i \in Ends(t, w), i < m + e PROVE i <= m + b
    <3>1. i \in 1..Len(w)
      BY EndsAre
    <3>2. CASE i <= m
      BY <3>1, <3>2, <2>1, <2>4
    <3>3. CASE ~(i <= m)
      <4>1. i - m \in 1..Len(c) /\ m + (i - m) = i /\ i - m < e
        BY <3>1, <3>3, <2>1, <2>6
      <4>2. i - m \in Ends(t, c)
        BY <4>1
      <4>3. i - m <= b
        BY <4>1, <4>2, <2>2
      <4> QED
        BY <4>3, <3>1, <2>1, <2>4
    <3> QED
      BY <3>2, <3>3
  <2>7. Before(t, w, m + e) = m + b
    <3>1. IsBefore(t, w, m + e, m + b)
      BY <2>4, <2>5, <2>6 DEF IsBefore
    <3> QED
      BY <3>1, <2>1, BeforeOnly
  <2>l. IsLine(P, w, m + e, m + b, l)
    BY <2>1, <2>7, LineIs
  <2> HIDE DEF l
  <2>8. /\ l \in Seq(P) /\ Len(l) = e - 1 - b
        /\ \A i \in 1..Len(l) : l[i] = w[m + b + i]
    <3> DEFINE f == m + e
               d == m + b
    <3>1. f \in Nat /\ d \in Nat /\ f - 1 - d = e - 1 - b
      BY <2>1, <2>4
    <3>2. IsLine(P, w, f, d, l)
      BY <2>l
    <3> HIDE DEF f, d
    <3>3. /\ l \in Seq(P) /\ Len(l) = e - 1 - b
          /\ \A i \in 1..Len(l) : l[i] = w[d + i]
      BY <3>1, <3>2 DEF IsLine
    <3> QED
      BY <3>3 DEF d
  <2>9. Len(l) = Len(k)
    BY <2>3, <2>8
  <2>10. ASSUME NEW i \in 1..Len(l) PROVE l[i] = k[i]
    <3>1. k[i] = c[b + i] /\ b + i \in 1..Len(c)
      BY <2>3, <2>9
    <3>2. c[b + i] = w[m + (b + i)]
      BY <3>1
    <3>3. i \in Nat /\ m + (b + i) = m + b + i
      BY <2>1, <2>2, <2>4, <2>3, <2>9
    <3> QED
      BY <3>1, <3>2, <3>3, <2>8
  <2>11. l = k
    BY <2>3, <2>8, <2>9, <2>10, SeqEqual
  <2> QED
    BY <2>11 DEF l, k
<1> QED
  BY <1>1, <1>2

\* Moving a set of positions does not change how many they are.
LEMMA Moved ==
  ASSUME NEW n \in Nat, NEW S, \A x \in S : x \in 1..n, NEW m \in Nat
  PROVE  /\ IsFiniteSet({m + i : i \in S})
         /\ Cardinality({m + i : i \in S}) = Cardinality(S)
<1> DEFINE D == {m + i : i \in S}
           f == [i \in S |-> m + i]
<1>1. \A i, j \in S : m + i = m + j => i = j
  OBVIOUS
<1>2. f \in Injection(S, D)
  BY <1>1 DEF Injection, IsInjective
<1>3. f \in Surjection(S, D)
  BY DEF Surjection
<1>4. ExistsBijection(S, D)
  BY <1>2, <1>3 DEF ExistsBijection, Bijection
<1>5. IsFiniteSet(S)
  BY BelowIs
<1> HIDE DEF D
<1> QED
  BY <1>4, <1>5, FS_Bijection DEF D

\* U has the positions A up to m, and C after m.
IsJoined(m, n, A, C, U) ==
  /\ m \in Nat /\ n \in Nat
  /\ (\A i \in A : i \in 1..m) /\ (\A i \in C : i \in 1..n)
  /\ \A i \in U : i \in 1..m + n
  /\ \A i \in 1..m : i \in U <=> i \in A
  /\ \A i \in 1..n : m + i \in U <=> i \in C

Joint(m, A, C, U) ==
  /\ Cardinality(A) \in Nat /\ Cardinality(C) \in Nat
  /\ Cardinality(U) = Cardinality(A) + Cardinality(C)
  /\ \A k \in 1..Cardinality(A) : Nth(U, k) = Nth(A, k)
  /\ \A k \in 1..Cardinality(C) : Nth(U, Cardinality(A) + k) = m + Nth(C, k)

LEMMA NthJoined ==
  ASSUME NEW m, NEW n, NEW A, NEW C, NEW U, IsJoined(m, n, A, C, U)
  PROVE  Joint(m, A, C, U)
<1> USE DEF IsJoined
<1> DEFINE D(S) == {m + i : i \in S}
<1>1. /\ IsFiniteSet(A) /\ Cardinality(A) \in Nat
      /\ IsFiniteSet(C) /\ Cardinality(C) \in Nat
  BY BelowIs
<1>2. m + n \in Nat
  OBVIOUS
<1>3. ASSUME NEW j \in U PROVE j \in A \/ (j - m \in C /\ j - m \in 1..n /\ m + (j - m) = j)
  <2>1. j \in 1..m + n
    OBVIOUS
  <2>2. CASE j <= m
    BY <2>1, <2>2
  <2>3. CASE ~(j <= m)
    <3>1. j - m \in 1..n /\ m + (j - m) = j
      BY <2>1, <2>3
    <3> QED
      BY <3>1
  <2> QED
    BY <2>2, <2>3
<1>4. \A i \in C : i \in Nat /\ m + i \in U /\ m + i > m
  OBVIOUS
<1>5. \A i \in A : i \in Nat /\ i \in U /\ i <= m
  OBVIOUS
<1>6. ASSUME NEW S, S \subseteq C
      PROVE  Cardinality(A \cup D(S)) = Cardinality(A) + Cardinality(S)
  <2>1. \A i \in S : i \in 1..n
    BY <1>6
  <2>2. IsFiniteSet(D(S)) /\ Cardinality(D(S)) = Cardinality(S)
    BY <2>1, Moved
  <2>3. A \cap D(S) = {}
    BY <2>1, <1>5
  <2>4. Cardinality(A \cap D(S)) = 0 /\ Cardinality(S) \in Nat
    BY <2>1, <2>3, FS_EmptySet, BelowIs
  <2> HIDE DEF D
  <2>5. Cardinality(A \cup D(S)) =
          Cardinality(A) + Cardinality(D(S)) - Cardinality(A \cap D(S))
    BY <1>1, <2>2, FS_Union
  <2> QED
    BY <1>1, <2>2, <2>4, <2>5
<1>7. U = A \cup D(C)
  <2>1. \A j \in U : j \in A \cup D(C)
    BY <1>3
  <2>2. \A j \in A \cup D(C) : j \in U
    BY <1>4, <1>5
  <2> QED
    BY <2>1, <2>2
<1>8. Cardinality(U) = Cardinality(A) + Cardinality(C)
  <2> HIDE DEF D
  <2> QED
    BY <1>6, <1>7
<1>9. ASSUME NEW k \in 1..Cardinality(A) PROVE Nth(U, k) = Nth(A, k)
  <2> DEFINE i == Nth(A, k)
  <2>1. i \in A /\ Cardinality(Below(A, i)) = k
    BY NthIs
  <2> HIDE DEF i
  <2>2. Below(U, i) = Below(A, i)
    <3>1. \A j \in U : j <= i => j \in A
      <4> SUFFICES ASSUME NEW j \in U, j <= i PROVE j \in A
        OBVIOUS
      <4>1. j \in 1..m + n /\ i \in 1..m
        BY <2>1
      <4>2. j \in 1..m
        BY <4>1
      <4> QED
        BY <4>2
    <3> QED
      BY <3>1, <1>5 DEF Below
  <2>3. i \in U
    BY <1>5, <2>1
  <2>4. Nth(U, k) = i
    <3>1. Nth(U, Cardinality(Below(U, i))) = i
      BY <1>2, <2>3, NthOnly
    <3> QED
      BY <3>1, <2>1, <2>2
  <2> QED
    BY <2>4 DEF i
<1>10. ASSUME NEW k \in 1..Cardinality(C)
       PROVE  Nth(U, Cardinality(A) + k) = m + Nth(C, k)
  <2> DEFINE i == Nth(C, k)
             B == Below(C, i)
  <2>1. i \in C /\ Cardinality(B) = k
    BY NthIs
  <2> HIDE DEF i
  <2>2. Below(U, m + i) = A \cup D(B)
    <3>1. ASSUME NEW j \in U, j <= m + i PROVE j \in A \cup D(B)
      <4>1. j \in A \/ (j - m \in C /\ j - m \in 1..n /\ m + (j - m) = j)
        BY <1>3
      <4>2. ASSUME j - m \in C, j - m \in 1..n, m + (j - m) = j PROVE j \in D(B)
        <5>1. j - m <= i
          BY <3>1, <4>2, <1>4, <2>1
        <5>2. j - m \in B
          BY <4>2, <5>1 DEF Below
        <5> HIDE DEF B
        <5> QED
          BY <4>2, <5>2
      <4> HIDE DEF B, D
      <4> QED
        BY <4>1, <4>2
    <3>2. ASSUME NEW j \in A PROVE j \in U /\ j <= m + i
      BY <1>5, <1>4, <2>1
    <3>3. ASSUME NEW j \in D(B) PROVE j \in U /\ j <= m + i
      <4>1. PICK h \in B : j = m + h
        OBVIOUS
      <4>2. h \in C /\ h <= i
        BY DEF Below
      <4>3. h \in Nat /\ i \in Nat /\ m + h \in U
        BY <4>2, <1>4, <2>1
      <4> QED
        BY <4>1, <4>2, <4>3
    <3> HIDE DEF B, D
    <3> QED
      BY <3>1, <3>2, <3>3 DEF Below
  <2>3. m + i \in U
    BY <1>4, <2>1
  <2>4. B \subseteq C
    BY DEF Below
  <2> HIDE DEF B, D
  <2>5. Cardinality(Below(U, m + i)) = Cardinality(A) + k
    BY <2>1, <2>2, <2>4, <1>6
  <2>6. Nth(U, Cardinality(A) + k) = m + i
    BY <1>2, <2>3, <2>5, NthOnly, ZenonT(30)
  <2> QED
    BY <2>6 DEF i
<1> QED
  BY <1>1, <1>8, <1>9, <1>10 DEF Joint

\* The lines that are shown of s, and their types.
LEMMA LinesAre ==
  ASSUME NEW t, NEW P, NEW s \in Seq(P)
  PROVE  /\ \A e \in ShownEnds(t, s) : e \in 1..Len(s) /\ e \in Ends(t, s)
         /\ Cardinality(ShownEnds(t, s)) \in Nat
         /\ Len(LinesOf(t, s)) = Cardinality(ShownEnds(t, s))
         /\ LinesOf(t, s) \in Seq(Seq(P))
         /\ \A k \in 1..Len(LinesOf(t, s)) :
              LinesOf(t, s)[k] = LineAt(t, s, Nth(ShownEnds(t, s), k))
<1> DEFINE E == ShownEnds(t, s)
           L == LinesOf(t, s)
           N == Cardinality(E)
<1>1. Len(s) \in Nat /\ \A i \in Ends(t, s) : i \in 1..Len(s)
  BY EndsAre
<1>2. \A e \in E : e \in 1..Len(s) /\ e \in Ends(t, s)
  BY <1>1 DEF ShownEnds
<1> HIDE DEF E
<1>3. N \in Nat
  BY <1>1, <1>2, BelowIs
<1>4. ASSUME NEW k \in 1..N PROVE LineAt(t, s, Nth(E, k)) \in Seq(P)
  <2>1. Nth(E, k) \in E
    BY <1>1, <1>2, NthIs
  <2>2. Nth(E, k) \in 1..Len(s) + 1
    BY <1>1, <1>2, <2>1
  <2>3. IsLine(P, s, Nth(E, k), Before(t, s, Nth(E, k)), LineAt(t, s, Nth(E, k)))
    BY <2>2, LineIs
  <2> QED
    BY <2>3 DEF IsLine
<1>5. L = [k \in 1..N |-> LineAt(t, s, Nth(E, k))]
  BY DEF LinesOf, E
<1> HIDE DEF N, L
<1>6. L \in [1..N -> Seq(P)] /\ \A k \in 1..N : L[k] = LineAt(t, s, Nth(E, k))
  BY <1>4, <1>5
<1>7. L \in Seq(Seq(P))
  BY <1>3, <1>6, SeqDef
<1>8. Len(L) = N
  BY <1>3, <1>6, <1>7, LenProperties
<1> QED
  BY <1>2, <1>3, <1>6, <1>7, <1>8 DEF E, N, L

\* The lines of a text are those of its beginning, and those of what remained
\* unfinished there together with the rest.
LEMMA LinesJoin ==
  ASSUME NEW t, NEW P, NEW a \in Seq(P), NEW x \in Seq(P)
  PROVE  /\ LinesOf(t, a \o x) = LinesOf(t, a) \o LinesOf(t, RestOf(t, a) \o x)
         /\ RestOf(t, a \o x) = RestOf(t, RestOf(t, a) \o x)
<1> DEFINE m == Before(t, a, Len(a) + 1)
           w == a \o x
           c == RestOf(t, a) \o x
           A == ShownEnds(t, a)
           U == ShownEnds(t, w)
           C == ShownEnds(t, c)
<1>1. Joins(t, P, a, x, m, w, c)
  BY Joined
<1> HIDE DEF m, w, c
<1>2. /\ \A e \in Ends(t, a) : LineAt(t, w, e) = LineAt(t, a, e)
      /\ \A e \in 1..Len(c) + 1 : LineAt(t, w, m + e) = LineAt(t, c, e)
  BY <1>1, JoinedLines
<1>3. /\ m \in Nat /\ m <= Len(a) /\ Len(a) \in Nat /\ Len(w) \in Nat /\ Len(c) \in Nat
      /\ Len(w) = m + Len(c) /\ w \in Seq(P) /\ c \in Seq(P)
      /\ \A i \in Ends(t, a) : i \in 1..m
      /\ \A i \in 1..m : i \in Ends(t, w) <=> i \in Ends(t, a)
      /\ \A i \in 1..Len(c) : m + i \in Ends(t, w) <=> i \in Ends(t, c)
  BY <1>1 DEF Joins
<1>4. RestOf(t, w) = RestOf(t, c)
  <2>1. Len(c) + 1 \in 1..Len(c) + 1 /\ Len(w) + 1 = m + (Len(c) + 1)
    BY <1>3
  <2> QED
    BY <2>1, <1>2 DEF RestOf
<1>5. \A i \in A : i \in 1..m
  BY <1>3 DEF ShownEnds
<1>6. \A i \in C : i \in 1..Len(c)
  BY <1>3, LinesAre
<1>7. \A i \in U : i \in 1..m + Len(c)
  BY <1>3, LinesAre
<1>8. \A i \in 1..m : i \in U <=> i \in A
  BY <1>2, <1>3 DEF ShownEnds
<1>9. ASSUME NEW i \in 1..Len(c) PROVE m + i \in U <=> i \in C
  <2>1. i \in 1..Len(c) + 1
    BY <1>3
  <2> QED
    BY <2>1, <1>2, <1>3 DEF ShownEnds
<1> DEFINE LA == LinesOf(t, a)
           LU == LinesOf(t, w)
           LC == LinesOf(t, c)
<1>10. /\ LA \in Seq(Seq(P)) /\ Len(LA) = Cardinality(A)
       /\ \A k \in 1..Len(LA) : LA[k] = LineAt(t, a, Nth(A, k))
  BY LinesAre
<1>11. /\ LU \in Seq(Seq(P)) /\ Len(LU) = Cardinality(U)
       /\ \A k \in 1..Len(LU) : LU[k] = LineAt(t, w, Nth(U, k))
  BY <1>3, LinesAre
<1>12. /\ LC \in Seq(Seq(P)) /\ Len(LC) = Cardinality(C)
       /\ \A k \in 1..Len(LC) : LC[k] = LineAt(t, c, Nth(C, k))
  BY <1>3, LinesAre
<1>13. \A i \in A : i \in Ends(t, a)
  BY DEF ShownEnds
<1> HIDE DEF A, U, C, LA, LU, LC
<1>14. /\ Cardinality(A) \in Nat /\ Cardinality(C) \in Nat
       /\ Cardinality(U) = Cardinality(A) + Cardinality(C)
       /\ \A k \in 1..Cardinality(A) : Nth(U, k) = Nth(A, k)
       /\ \A k \in 1..Cardinality(C) : Nth(U, Cardinality(A) + k) = m + Nth(C, k)
  <2>1. IsJoined(m, Len(c), A, C, U)
    BY <1>3, <1>5, <1>6, <1>7, <1>8, <1>9 DEF IsJoined
  <2> QED
    BY <2>1, NthJoined DEF Joint
<1>15. /\ LA \o LC \in Seq(Seq(P)) /\ Len(LA \o LC) = Len(LA) + Len(LC)
       /\ \A k \in 1..Len(LA) + Len(LC) :
            (LA \o LC)[k] = IF k <= Len(LA) THEN LA[k] ELSE LC[k - Len(LA)]
  BY <1>10, <1>12, ConcatProperties
<1>16. ASSUME NEW k \in 1..Len(LU) PROVE LU[k] = (LA \o LC)[k]
  <2>1. k \in 1..Len(LA) + Len(LC)
    BY <1>10, <1>11, <1>12, <1>14
  <2>2. CASE k <= Len(LA)
    <3>1. k \in 1..Len(LA) /\ k \in 1..Cardinality(A)
      BY <2>1, <2>2, <1>10, <1>14
    <3>2. Nth(A, k) \in A
      BY <1>3, <1>5, <3>1, NthIs
    <3>3. LU[k] = LineAt(t, w, Nth(A, k)) /\ LA[k] = LineAt(t, a, Nth(A, k))
      BY <3>1, <1>10, <1>11, <1>14
    <3>4. LU[k] = LA[k]
      BY <3>2, <3>3, <1>2, <1>13
    <3> QED
      BY <3>4, <2>1, <2>2, <1>15
  <2>3. CASE ~(k <= Len(LA))
    <3> DEFINE j == k - Len(LA)
    <3>1. j \in 1..Cardinality(C) /\ k = Cardinality(A) + j
      BY <2>1, <2>3, <1>10, <1>12, <1>14
    <3>2. (LA \o LC)[k] = LC[j]
      BY <2>1, <2>3, <1>15
    <3> HIDE DEF j
    <3>3. Nth(C, j) \in C
      BY <1>3, <1>6, <3>1, NthIs
    <3>4. Nth(C, j) \in 1..Len(c) + 1
      BY <3>3, <1>3, <1>6
    <3>5. LU[k] = LineAt(t, w, m + Nth(C, j)) /\ LC[j] = LineAt(t, c, Nth(C, j))
      BY <3>1, <1>11, <1>12, <1>14
    <3> QED
      BY <3>2, <3>4, <3>5, <1>2
  <2> QED
    BY <2>2, <2>3
<1>17. LU = LA \o LC
  BY <1>10, <1>11, <1>12, <1>14, <1>15, <1>16, SeqEqual
<1> QED
  BY <1>4, <1>17 DEF LA, LU, LC, w, c

-----------------------------------------------------------------------------
(* The window                                                              *)

\* What is left of s, of at most n.
IsEnd(P, s, n, l) ==
  LET o == IF Len(s) <= n THEN 0 ELSE Len(s) - n
  IN  /\ l \in Seq(P) /\ Len(l) = Len(s) - o
      /\ \A i \in 1..Len(l) : o + i \in 1..Len(s) /\ l[i] = s[o + i]

\* LastOf is the end of s.
LEMMA LastOfIs ==
  ASSUME NEW P, NEW s \in Seq(P), NEW n \in Nat
  PROVE  IsEnd(P, s, n, LastOf(s, n))
<1>1. Len(s) \in Nat
  BY LenProperties
<1>2. CASE Len(s) <= n
  <2>1. LastOf(s, n) = s
    BY <1>2 DEF LastOf
  <2> QED
    BY <1>1, <1>2, <2>1 DEF IsEnd
<1>3. CASE ~(Len(s) <= n)
  <2> DEFINE o == Len(s) - n
             l == LastOf(s, n)
  <2>1. l = SubSeq(s, o + 1, Len(s))
    BY <1>3 DEF LastOf
  <2>2. o \in Nat /\ o + 1 \in Int /\ Len(s) \in Int /\ Len(s) - (o + 1) + 1 = Len(s) - o
        /\ o <= Len(s)
    BY <1>1, <1>3
  <2>o. o = IF Len(s) <= n THEN 0 ELSE Len(s) - n
    BY <1>3
  <2> HIDE DEF o, l
  <2>3. \A i \in o + 1..Len(s) : s[i] \in P
    BY <2>2, ElementOfSeq
  <2>4. /\ l \in Seq(P)
        /\ Len(l) = IF o + 1 <= Len(s) THEN Len(s) - (o + 1) + 1 ELSE 0
        /\ \A i \in 1..Len(s) - (o + 1) + 1 : l[i] = s[o + 1 + i - 1]
    BY <2>1, <2>2, <2>3, SubSeqProperties
  <2>5. Len(l) = Len(s) - o
    <3>1. CASE o + 1 <= Len(s)
      BY <3>1, <1>1, <2>2, <2>4
    <3>2. CASE ~(o + 1 <= Len(s))
      <4>1. Len(l) = 0
        BY <3>2, <2>4
      <4>2. o \in Nat /\ o <= Len(s) /\ Len(s) \in Nat
        BY <1>1, <2>2
      <4>3. Len(s) - o = 0
        BY <3>2, <4>2
      <4> QED
        BY <4>1, <4>3
    <3> QED
      BY <3>1, <3>2
  <2>6. ASSUME NEW i \in 1..Len(l) PROVE o + i \in 1..Len(s) /\ l[i] = s[o + i]
    <3>1. i \in 1..Len(s) - (o + 1) + 1 /\ o + 1 + i - 1 = o + i /\ o + i \in 1..Len(s)
      BY <1>1, <2>2, <2>5
    <3> QED
      BY <3>1, <2>4
  <2>7. IsEnd(P, s, n, l)
    BY <2>4, <2>5, <2>6, <2>o DEF IsEnd
  <2> QED
    BY <2>7 DEF l
<1> QED
  BY <1>2, <1>3

\* There is only one end of a length.
LEMMA EndOnly ==
  ASSUME NEW P, NEW s \in Seq(P), NEW n \in Nat, NEW l, IsEnd(P, s, n, l)
  PROVE  l = LastOf(s, n)
<1> DEFINE k == LastOf(s, n)
<1>1. IsEnd(P, s, n, k)
  BY LastOfIs
<1> HIDE DEF k
<1>2. /\ l \in Seq(P) /\ k \in Seq(P) /\ Len(l) = Len(k)
      /\ \A i \in 1..Len(l) : l[i] = k[i]
  BY <1>1 DEF IsEnd
<1>3. l = k
  BY <1>2, SeqEqual
<1> QED
  BY <1>3 DEF k

\* One more line, in a window that has the last lines so far.
LEMMA ShowIs ==
  ASSUME NEW P, NEW s \in Seq(P), NEW l \in P
  PROVE  Show(LastOf(s, MaxLines), Len(s) + 1, l) = LastOf(Append(s, l), MaxLines)
<1> DEFINE d == LastOf(s, MaxLines)
           a == Append(s, l)
           r == IF Len(s) + 1 > MaxLines THEN Tail(d) ELSE d
           w == Append(r, l)
           o == IF Len(s) <= MaxLines THEN 0 ELSE Len(s) - MaxLines
           q == IF Len(a) <= MaxLines THEN 0 ELSE Len(a) - MaxLines
<1>1. MaxLines \in Nat /\ MaxLines > 0 /\ Len(s) \in Nat
  BY LogViewAssumption, LenProperties
<1>2. IsEnd(P, s, MaxLines, d)
  BY <1>1, LastOfIs
<1>3. /\ a \in Seq(P) /\ Len(a) = Len(s) + 1 /\ a[Len(s) + 1] = l
      /\ \A i \in 1..Len(s) : a[i] = s[i]
  BY AppendProperties
<1>4. /\ d \in Seq(P) /\ Len(d) = Len(s) - o
      /\ \A i \in 1..Len(d) : o + i \in 1..Len(s) /\ d[i] = s[o + i]
  <2> HIDE DEF d
  <2> QED
    BY <1>2 DEF IsEnd
<1> HIDE DEF d, a
<1>5. /\ o \in Nat /\ q \in Nat /\ o <= Len(s) /\ q <= Len(s)
      /\ Len(s) + 1 > MaxLines => q = o + 1 \/ (q = 1 /\ o = 0)
      /\ ~(Len(s) + 1 > MaxLines) => q = 0 /\ o = 0
  BY <1>1, <1>3
<1>6. /\ Len(s) + 1 > MaxLines => q = o + 1
      /\ Len(a) - q = Len(s) + 1 - q
  BY <1>1, <1>3, <1>5
<1>q. q = IF Len(a) <= MaxLines THEN 0 ELSE Len(a) - MaxLines
  OBVIOUS
<1> HIDE DEF o, q
<1>7. /\ r \in Seq(P) /\ Len(r) = Len(s) - q
      /\ \A i \in 1..Len(r) : q + i \in 1..Len(s) /\ r[i] = s[q + i]
  <2>1. CASE Len(s) + 1 > MaxLines
    <3>1. r = Tail(d) /\ q = o + 1
      BY <2>1, <1>6
    <3>2. d # <<>>
      <4>1. Len(d) # 0
        BY <3>1, <1>1, <1>4, <1>5
      <4> QED
        BY <4>1, EmptySeq
    <3>3. /\ Tail(d) \in Seq(P) /\ Len(Tail(d)) = Len(d) - 1
          /\ \A i \in 1..Len(Tail(d)) : Tail(d)[i] = d[i + 1]
      BY <1>4, <3>2, HeadTailProperties
    <3> HIDE DEF r
    <3>4. r \in Seq(P) /\ Len(r) = Len(s) - q
      BY <3>1, <3>3, <1>1, <1>4, <1>5
    <3>5. ASSUME NEW i \in 1..Len(r) PROVE q + i \in 1..Len(s) /\ r[i] = s[q + i]
      <4>1. i + 1 \in 1..Len(d) /\ o + (i + 1) = q + i
        BY <3>1, <3>4, <1>1, <1>4, <1>5
      <4>2. r[i] = d[i + 1]
        BY <3>1, <3>3
      <4> QED
        BY <4>1, <4>2, <1>4
    <3> QED
      BY <3>4, <3>5
  <2>2. CASE ~(Len(s) + 1 > MaxLines)
    <3>1. r = d /\ q = o
      BY <2>2, <1>5
    <3> HIDE DEF r
    <3> QED
      BY <3>1, <1>4
  <2> QED
    BY <2>1, <2>2
<1> HIDE DEF r
<1>8. /\ w \in Seq(P) /\ Len(w) = Len(r) + 1 /\ w[Len(r) + 1] = l
      /\ \A i \in 1..Len(r) : w[i] = r[i]
  BY <1>7, AppendProperties
<1> HIDE DEF w
<1>9. Len(w) = Len(a) - q
  BY <1>1, <1>3, <1>5, <1>7, <1>8
<1>10. ASSUME NEW i \in 1..Len(w) PROVE q + i \in 1..Len(a) /\ w[i] = a[q + i]
  <2>1. CASE i \in 1..Len(r)
    <3>1. q + i \in 1..Len(s) /\ w[i] = s[q + i]
      BY <2>1, <1>7, <1>8
    <3> QED
      BY <3>1, <1>1, <1>3
  <2>2. CASE i = Len(r) + 1
    <3>1. q + i = Len(s) + 1
      BY <2>2, <1>1, <1>5, <1>7
    <3> QED
      BY <3>1, <2>2, <1>1, <1>3, <1>8
  <2>3. i \in 1..Len(r) \/ i = Len(r) + 1
    BY <1>1, <1>5, <1>7, <1>8
  <2> QED
    BY <2>1, <2>2, <2>3
<1>11. IsEnd(P, a, MaxLines, w)
  BY <1>8, <1>9, <1>10, <1>q DEF IsEnd
<1>12. w = LastOf(a, MaxLines)
  BY <1>1, <1>3, <1>11, EndOnly
<1> QED
  BY <1>12 DEF Show, w, r, a, d

LEMMA AppendJoin ==
  ASSUME NEW P, NEW a \in Seq(P), NEW b \in Seq(P), NEW l \in P
  PROVE  /\ a \o b \in Seq(P) /\ Len(a \o b) = Len(a) + Len(b)
         /\ a \o (b \o <<l>>) = Append(a \o b, l)
<1>1. <<l>> \in Seq(P)
  OBVIOUS
<1>2. (a \o b) \o <<l>> = a \o (b \o <<l>>)
  BY <1>1, ConcatAssociative
<1>3. a \o b \in Seq(P) /\ Len(a \o b) = Len(a) + Len(b)
  BY ConcatProperties
<1>4. Append(a \o b, l) = (a \o b) \o <<l>>
  BY <1>3, AppendIsConcat
<1> QED
  BY <1>2, <1>3, <1>4

\* A window that has a line to take out whenever, as counted, it is full, and
\* to which n lines were shown.
Filled(P, d, n) ==
  d \in Seq(P) /\ (Len(d) >= count + n \/ Len(d) >= MaxLines)

\* One more line goes to it.
LEMMA ShowFills ==
  ASSUME count \in Nat, MaxLines \in Nat \ {0},
         NEW P, NEW n \in Nat, NEW d, Filled(P, d, n), NEW l \in P
  PROVE  Filled(P, Show(d, count + (n + 1), l), n + 1)
<1>1. d \in Seq(P) /\ Len(d) \in Nat /\ (Len(d) >= count + n \/ Len(d) >= MaxLines)
  BY LenProperties DEF Filled
<1>2. CASE count + (n + 1) > MaxLines
  <2>1. Len(d) \in Nat \ {0} /\ Len(d) >= MaxLines
    BY <1>1, <1>2
  <2>2. Tail(d) \in Seq(P) /\ Len(Tail(d)) = Len(d) - 1
    BY <1>1, <2>1, EmptySeq, HeadTailProperties
  <2>3. /\ Append(Tail(d), l) \in Seq(P)
        /\ Len(Append(Tail(d), l)) = Len(Tail(d)) + 1
    BY <2>2, AppendProperties
  <2>4. Len(Append(Tail(d), l)) >= MaxLines
    BY <2>1, <2>2, <2>3
  <2> QED
    BY <1>2, <2>3, <2>4 DEF Show, Filled
<1>3. CASE ~(count + (n + 1) > MaxLines)
  <2>1. Append(d, l) \in Seq(P) /\ Len(Append(d, l)) = Len(d) + 1
    BY <1>1, AppendProperties
  <2>2. Len(d) + 1 >= count + (n + 1) \/ Len(d) + 1 >= MaxLines
    BY <1>1
  <2> QED
    BY <1>3, <2>1, <2>2 DEF Show, Filled
<1> QED
  BY <1>2, <1>3

\* What the loop has shown after each of its first m lines.
IsLoop(g, d, lines, m) ==
  g = [n \in 0..m |-> IF n = 0 THEN d ELSE Show(g[n - 1], count + n, lines[n])]

\* There is such a function, from one line to the next.
LEMMA LoopExists ==
  ASSUME NEW d, NEW lines, NEW N \in Nat
  PROVE  \E g : IsLoop(g, d, lines, N)
<1> DEFINE T == {m \in 0..N : \E g : IsLoop(g, d, lines, m)}
<1>1. 0 \in T
  <2> DEFINE g == [n \in 0..0 |-> d]
  <2>1. g = [n \in 0..0 |-> IF n = 0 THEN d ELSE Show(g[n - 1], count + n, lines[n])]
    OBVIOUS
  <2>2. IsLoop(g, d, lines, 0)
    BY <2>1 DEF IsLoop
  <2> QED
    BY <2>2
<1>2. ASSUME NEW m \in 1..N, m - 1 \in T PROVE m \in T
  <2>1. PICK g : IsLoop(g, d, lines, m - 1)
    BY <1>2
  <2>2. m - 1 \in Nat /\ 0..m = (0..m - 1) \cup {m} /\ m \notin 0..m - 1
    OBVIOUS
  <2>3. \A n \in 0..m - 1 :
          g[n] = IF n = 0 THEN d ELSE Show(g[n - 1], count + n, lines[n])
    BY <2>1 DEF IsLoop
  <2> DEFINE x == Show(g[m - 1], count + m, lines[m])
             f == [n \in 0..m |-> IF n = m THEN x ELSE g[n]]
             e == [n \in 0..m |-> IF n = 0 THEN d
                                  ELSE Show(f[n - 1], count + n, lines[n])]
  <2>4. ASSUME NEW n \in 0..m PROVE f[n] = e[n]
    <3>1. CASE n = 0
      BY <3>1, <2>2, <2>3
    <3>2. CASE n # 0 /\ n # m
      <4>1. n \in 0..m - 1 /\ n - 1 \in 0..m /\ n - 1 # m
        BY <3>2
      <4>2. f[n] = g[n] /\ f[n - 1] = g[n - 1]
        BY <4>1, <3>2
      <4>3. e[n] = Show(f[n - 1], count + n, lines[n])
        BY <3>2
      <4> HIDE DEF f, e
      <4> QED
        BY <4>1, <4>2, <4>3, <3>2, <2>3
    <3>3. CASE n # 0 /\ n = m
      <4>1. n - 1 \in 0..m /\ n - 1 # m
        BY <3>3
      <4>2. f[n] = x /\ f[n - 1] = g[n - 1]
        BY <4>1, <3>3
      <4>3. e[n] = Show(f[n - 1], count + n, lines[n])
        BY <3>3
      <4> HIDE DEF f, e
      <4> QED
        BY <4>2, <4>3, <3>3
    <3> QED
      BY <3>1, <3>2, <3>3
  <2>5. f = [n \in 0..m |-> f[n]] /\ e = [n \in 0..m |-> e[n]]
    OBVIOUS
  <2>6. f = e
    <3> HIDE DEF f, e
    <3> QED
      BY <2>4, <2>5
  <2>7. IsLoop(f, d, lines, m)
    <3> HIDE DEF f
    <3> QED
      BY <2>6 DEF IsLoop
  <2>8. m \in 0..N
    OBVIOUS
  <2> HIDE DEF f
  <2> QED
    BY <2>7, <2>8
<1>3. \A n \in 0..N : n \in T
  <2> HIDE DEF T
  <2> QED
    BY <1>1, <1>2, UpTo
<1>4. N \in 0..N
  OBVIOUS
<1> QED
  BY <1>3, <1>4

Shows(g, d, lines) ==
  /\ ShowAll(d, lines) = g[Len(lines)] /\ g[0] = d
  /\ \A n \in 1..Len(lines) : g[n] = Show(g[n - 1], count + n, lines[n])

\* The loop shows one line after the other.
LEMMA LoopIs ==
  ASSUME NEW d, NEW lines, Len(lines) \in Nat
  PROVE  \E g : Shows(g, d, lines)
<1> DEFINE N == Len(lines)
           Loop(g) == g = [n \in 0..N |-> IF n = 0 THEN d
                                          ELSE Show(g[n - 1], count + n, lines[n])]
           shown == CHOOSE g : Loop(g)
<1>1. Loop(shown)
  <2>0. N \in Nat
    OBVIOUS
  <2>1. PICK g : IsLoop(g, d, lines, N)
    <3> HIDE DEF N
    <3> QED
      BY <2>0, LoopExists
  <2>2. Loop(g)
    BY <2>1 DEF IsLoop
  <2> HIDE DEF Loop
  <2> QED
    BY <2>2
<1>2. ShowAll(d, lines) = shown[N]
  BY DEF ShowAll
<1> HIDE DEF shown
<1>3. \A n \in 0..N : shown[n] = IF n = 0 THEN d
                                 ELSE Show(shown[n - 1], count + n, lines[n])
  BY <1>1
<1>4. \A n \in 1..N : n \in 0..N /\ n # 0
  OBVIOUS
<1>5. shown[0] = d /\ \A n \in 1..N : shown[n] = Show(shown[n - 1], count + n, lines[n])
  BY <1>3, <1>4
<1>6. Shows(shown, d, lines)
  BY <1>2, <1>5 DEF Shows
<1> QED
  BY <1>6

\* So the loop leaves such a window, from any other.
LEMMA ShowAllFills ==
  ASSUME count \in Nat, MaxLines \in Nat \ {0},
         NEW P, NEW d, Filled(P, d, 0), NEW lines \in Seq(P)
  PROVE  Filled(P, ShowAll(d, lines), Len(lines))
<1> DEFINE N == Len(lines)
<1>1. N \in Nat
  BY LenProperties
<1>s. PICK g : Shows(g, d, lines)
  BY <1>1, LoopIs
<1>2. /\ ShowAll(d, lines) = g[N] /\ g[0] = d
      /\ \A n \in 1..N : g[n] = Show(g[n - 1], count + n, lines[n])
  BY <1>s DEF Shows
<1> DEFINE T == {n \in 0..N : Filled(P, g[n], n)}
<1>3. \A n \in 1..N : lines[n] \in P
  BY ElementOfSeq
<1> HIDE DEF N
<1>4. 0 \in T
  BY <1>1, <1>2
<1>5. ASSUME NEW n \in 1..N, n - 1 \in T PROVE n \in T
  <2>1. n - 1 \in Nat /\ n - 1 + 1 = n /\ n \in 0..N
    BY <1>1
  <2>2. Filled(P, g[n - 1], n - 1)
    BY <1>5
  <2>3. Filled(P, Show(g[n - 1], count + (n - 1 + 1), lines[n]), n - 1 + 1)
    BY <2>1, <2>2, <1>3, ShowFills
  <2>4. g[n] = Show(g[n - 1], count + n, lines[n])
    BY <1>2
  <2> QED
    BY <2>1, <2>3, <2>4
<1>6. \A n \in 0..N : n \in T
  <2> HIDE DEF T
  <2> QED
    BY <1>1, <1>4, <1>5, UpTo
<1>7. N \in 0..N
  BY <1>1
<1>8. Filled(P, g[N], N)
  BY <1>6, <1>7
<1> QED
  BY <1>8, <1>2 DEF N

\* The loop over lines, from a window that has the last lines so far and with
\* the count of those lines, leaves the last lines.
LEMMA ShowAllIs ==
  ASSUME NEW P, NEW all \in Seq(P), NEW lines \in Seq(P), count = Len(all)
  PROVE  ShowAll(LastOf(all, MaxLines), lines) = LastOf(all \o lines, MaxLines)
<1> DEFINE N == Len(lines)
           d == LastOf(all, MaxLines)
           sofar(n) == all \o SubSeq(lines, 1, n)
<1>1. N \in Nat /\ Len(all) \in Nat
  BY LenProperties
<1>2. sofar(0) = all /\ sofar(N) = all \o lines
  <2>1. SubSeq(lines, 1, 0) = <<>>
    BY SubSeqEmpty
  <2>2. all \o <<>> = all
    BY ConcatEmptySeq
  <2>3. SubSeq(lines, 1, N) = lines
    BY SubSeqFull
  <2> QED
    BY <2>1, <2>2, <2>3
<1>3. ASSUME NEW n \in 1..N
      PROVE  /\ sofar(n - 1) \in Seq(P) /\ Len(sofar(n - 1)) + 1 = count + n
             /\ lines[n] \in P /\ sofar(n) = Append(sofar(n - 1), lines[n])
  <2> DEFINE u == SubSeq(lines, 1, n - 1)
  <2>1. lines[n] \in P
    BY ElementOfSeq
  <2>2. u \in Seq(P) /\ Len(u) = n - 1
    <3>1. \A i \in 1..n - 1 : lines[i] \in P
      BY <1>1, ElementOfSeq
    <3>2. n - 1 \in Int /\ 1 \in Int
      BY <1>1
    <3>3. /\ u \in Seq(P)
          /\ Len(u) = IF 1 <= n - 1 THEN n - 1 - 1 + 1 ELSE 0
      BY <3>1, <3>2, SubSeqProperties
    <3> HIDE DEF u
    <3> QED
      BY <3>3, <1>1
  <2>3. SubSeq(lines, 1, n) = u \o <<lines[n]>>
    <3>1. 1 \in 1..N /\ n \in 1..N
      BY <1>1
    <3> QED
      BY <3>1, SubSeqRecursiveSecond
  <2> HIDE DEF u
  <2>4. /\ all \o u \in Seq(P) /\ Len(all \o u) = Len(all) + Len(u)
        /\ all \o (u \o <<lines[n]>>) = Append(all \o u, lines[n])
    BY <2>1, <2>2, AppendJoin
  <2>5. Len(all \o u) + 1 = count + n
    BY <1>1, <2>2, <2>4
  <2> QED
    BY <2>1, <2>3, <2>4, <2>5 DEF u
<1> HIDE DEF sofar
<1>4. ASSUME NEW n \in 1..N
      PROVE  LastOf(sofar(n), MaxLines)
               = Show(LastOf(sofar(n - 1), MaxLines), count + n, lines[n])
  <2>1. Show(LastOf(sofar(n - 1), MaxLines), Len(sofar(n - 1)) + 1, lines[n])
          = LastOf(Append(sofar(n - 1), lines[n]), MaxLines)
    BY <1>3, ShowIs
  <2> QED
    BY <2>1, <1>3
<1> HIDE DEF N
<1>g. PICK g : Shows(g, d, lines)
  <2> HIDE DEF d
  <2>1. Len(lines) \in Nat
    BY <1>1 DEF N
  <2> QED
    BY <2>1, LoopIs
<1>5. /\ ShowAll(d, lines) = g[N] /\ g[0] = d
      /\ \A n \in 1..N : g[n] = Show(g[n - 1], count + n, lines[n])
  BY <1>g DEF Shows, N
<1> DEFINE T == {n \in 0..N : g[n] = LastOf(sofar(n), MaxLines)}
<1>9. 0 \in T
  BY <1>1, <1>2, <1>5 DEF d
<1>10. ASSUME NEW n \in 1..N, n - 1 \in T PROVE n \in T
  <2>1. n \in 0..N /\ n # 0
    BY <1>1
  <2>2. g[n] = Show(g[n - 1], count + n, lines[n])
    BY <2>1, <1>5
  <2> QED
    BY <2>1, <2>2, <1>4, <1>10
<1>11. N \in T
  <2>1. \A n \in 0..N : n \in T
    <3> HIDE DEF T
    <3> QED
      BY <1>1, <1>9, <1>10, UpTo
  <2> QED
    BY <2>1, <1>1
<1> QED
  BY <1>5, <1>11, <1>2 DEF d

-----------------------------------------------------------------------------
(* Pieces: parts of a text as it was written                               *)

Run(s) == \A i \in 1..Len(s) - 1 : s[i + 1] = s[i] + 1

\* Where a run begins and ends says what it is.
LEMMA RunIs ==
  ASSUME NEW N \in Nat, NEW s \in Seq(1..N), Run(s), s # <<>>
  PROVE  /\ Len(s) \in Nat \ {0} /\ s[1] \in Nat /\ Last(s) = s[1] + Len(s) - 1
         /\ \A i \in 1..Len(s) : s[i] = s[1] + i - 1
<1>1. Len(s) \in Nat \ {0}
  BY EmptySeq
<1>2. \A i \in 1..Len(s) : s[i] \in 1..N
  BY ElementOfSeq
<1>3. s[1] \in Nat
  BY <1>1, <1>2
<1> DEFINE n == Len(s) - 1
           T == {i \in 0..n : s[i + 1] = s[1] + i}
<1>4. n \in Nat /\ 0 \in T
  BY <1>1, <1>3
<1>5. ASSUME NEW i \in 1..n, i - 1 \in T PROVE i \in T
  <2>1. s[i] = s[1] + (i - 1)
    <3>1. i - 1 + 1 = i
      BY <1>1
    <3> QED
      BY <3>1, <1>5
  <2>2. s[i + 1] = s[i] + 1
    BY <1>5 DEF Run
  <2> QED
    BY <1>1, <1>3, <2>1, <2>2
<1>6. \A i \in 0..n : i \in T
  <2> HIDE DEF T, n
  <2> QED
    BY <1>4, <1>5, UpTo
<1>7. ASSUME NEW i \in 1..Len(s) PROVE s[i] = s[1] + i - 1
  <2>1. i - 1 \in 0..n /\ i - 1 + 1 = i
    BY <1>1
  <2>2. s[i - 1 + 1] = s[1] + (i - 1)
    BY <2>1, <1>6
  <2> QED
    BY <2>1, <2>2, <1>3
<1>8. Last(s) = s[1] + Len(s) - 1
  BY <1>1, <1>7 DEF Last
<1> QED
  BY <1>1, <1>3, <1>7, <1>8

\* What evt.data.replace leaves of a message, and where it was.
LEMMA StrippedType ==
  ASSUME NEW t, NEW P, NEW s \in Seq(P)
  PROVE  LET x == Stripped(t, s)
             K == Kept(t, s)
         IN  /\ Len(s) \in Nat /\ \A i \in K : i \in 1..Len(s)
             /\ Cardinality(K) \in Nat /\ x \in Seq(P) /\ Len(x) = Cardinality(K)
             /\ \A k \in 1..Len(x) : Nth(K, k) \in K /\ x[k] = s[Nth(K, k)]
<1> DEFINE x == Stripped(t, s)
           K == Kept(t, s)
           N == Cardinality(K)
<1>1. Len(s) \in Nat
  BY LenProperties
<1>2. \A i \in K : i \in 1..Len(s)
  BY DEF Kept
<1>3. x = [k \in 1..N |-> s[Nth(K, k)]]
  BY DEF Stripped
<1> HIDE DEF x, K
<1>4. N \in Nat
  BY <1>1, <1>2, BelowIs
<1>5. ASSUME NEW k \in 1..N PROVE Nth(K, k) \in K /\ s[Nth(K, k)] \in P
  <2>1. Nth(K, k) \in K
    BY <1>1, <1>2, NthIs
  <2>2. Nth(K, k) \in 1..Len(s)
    BY <1>2, <2>1
  <2> QED
    BY <2>1, <2>2, ElementOfSeq
<1> HIDE DEF N
<1>6. x \in [1..N -> P] /\ \A k \in 1..N : x[k] = s[Nth(K, k)]
  BY <1>3, <1>5
<1>7. x \in Seq(P)
  BY <1>4, <1>6, SeqDef
<1>8. Len(x) = N
  BY <1>4, <1>6, <1>7, LenProperties
<1> QED
  BY <1>1, <1>2, <1>4, <1>5, <1>6, <1>7, <1>8 DEF x, K, N

\* Nothing is missing between the positions of s but color codes.
Chained(t, s) ==
  \A i \in 1..Len(s) - 1 :
    s[i] < s[i + 1] /\ OnlyCodes(t, s[i] + 1, s[i + 1] - 1)

\* What is left of a run from position from to position to.
Cleaned(t, from, to, x) ==
  /\ Chained(t, x)
  /\ x = <<>> => OnlyCodes(t, from, to)
  /\ x # <<>> => /\ from <= x[1] /\ OnlyCodes(t, from, x[1] - 1)
                 /\ Last(x) <= to /\ OnlyCodes(t, Last(x) + 1, to)

\* A message that is a run loses nothing but color codes.
LEMMA StrippedRun ==
  ASSUME NEW t, NEW N \in Nat, NEW s \in Seq(1..N), Run(s), s # <<>>
  PROVE  Cleaned(t, s[1], Last(s), Stripped(t, s))
<1> DEFINE x == Stripped(t, s)
           K == Kept(t, s)
           f == s[1]
<1>1. /\ Len(s) \in Nat \ {0} /\ f \in Nat /\ Last(s) = f + Len(s) - 1
      /\ \A i \in 1..Len(s) : s[i] = f + i - 1
  BY RunIs
<1>2. /\ \A i \in K : i \in 1..Len(s)
      /\ Cardinality(K) \in Nat /\ x \in Seq(1..N) /\ Len(x) = Cardinality(K)
      /\ \A k \in 1..Len(x) : Nth(K, k) \in K /\ x[k] = s[Nth(K, k)]
  BY StrippedType
<1>3. ASSUME NEW i \in 1..Len(s), i \notin K
      PROVE  Token(t, s[i]) \in {EscStart, EscEnd}
  <2>1. Code(t, s, i) \/ Code(t, s, i - 1)
    BY <1>3 DEF Kept
  <2>2. i - 1 + 1 = i
    BY <1>1
  <2> QED
    BY <2>1, <2>2 DEF Code
<1>4. /\ \A k \in 1..Cardinality(K) - 1 :
           /\ Nth(K, k) < Nth(K, k + 1)
           /\ \A j \in K : j <= Nth(K, k) \/ j >= Nth(K, k + 1)
      /\ \A j \in K : Nth(K, 1) <= j /\ j <= Nth(K, Cardinality(K))
  BY <1>1, <1>2, NthNext
<1> HIDE DEF x, K, f
<1>5. ASSUME NEW p \in Nat, f <= p, p <= Last(s), p - f + 1 \notin K
      PROVE  Token(t, p) \in {EscStart, EscEnd}
  <2>1. p - f + 1 \in 1..Len(s) /\ f + (p - f + 1) - 1 = p
    BY <1>1, <1>5
  <2>2. s[p - f + 1] = p
    BY <1>1, <2>1
  <2> QED
    BY <1>3, <1>5, <2>1, <2>2
<1>6. \A k \in 1..Len(x) : /\ Nth(K, k) \in 1..Len(s) /\ x[k] = f + Nth(K, k) - 1
  BY <1>1, <1>2
<1>7. ASSUME NEW k \in 1..Len(x) - 1
      PROVE  x[k] < x[k + 1] /\ OnlyCodes(t, x[k] + 1, x[k + 1] - 1)
  <2> DEFINE a == Nth(K, k)
             b == Nth(K, k + 1)
  <2>1. k \in 1..Len(x) /\ k + 1 \in 1..Len(x) /\ k \in 1..Cardinality(K) - 1
    BY <1>2
  <2>2. /\ a \in 1..Len(s) /\ b \in 1..Len(s)
        /\ x[k] = f + a - 1 /\ x[k + 1] = f + b - 1
    BY <2>1, <1>6
  <2>3. a < b /\ \A j \in K : j <= a \/ j >= b
    BY <2>1, <1>4
  <2> HIDE DEF a, b
  <2>4. x[k] < x[k + 1]
    BY <1>1, <2>2, <2>3
  <2>5. ASSUME NEW p \in x[k] + 1..x[k + 1] - 1
        PROVE  Token(t, p) \in {EscStart, EscEnd}
    <3>1. /\ p \in Nat /\ f <= p /\ p <= Last(s)
          /\ ~(p - f + 1 <= a) /\ ~(p - f + 1 >= b)
      BY <1>1, <2>2
    <3> QED
      BY <3>1, <2>3, <1>5
  <2> QED
    BY <2>4, <2>5 DEF OnlyCodes
<1>8. ASSUME x = <<>> PROVE OnlyCodes(t, f, Last(s))
  <2>1. Len(x) = 0
    BY <1>8
  <2>2. K = {}
    <3>1. IsFiniteSet(K)
      BY <1>1, <1>2, BelowIs
    <3> QED
      BY <3>1, <2>1, <1>2, FS_EmptySet
  <2>3. ASSUME NEW p \in f..Last(s) PROVE Token(t, p) \in {EscStart, EscEnd}
    <3>1. p \in Nat /\ f <= p /\ p <= Last(s)
      BY <1>1
    <3> QED
      BY <3>1, <2>2, <1>5
  <2> QED
    BY <2>3 DEF OnlyCodes
<1>9. ASSUME x # <<>>
      PROVE  /\ f <= x[1] /\ OnlyCodes(t, f, x[1] - 1)
             /\ Last(x) <= Last(s) /\ OnlyCodes(t, Last(x) + 1, Last(s))
  <2> DEFINE a == Nth(K, 1)
             b == Nth(K, Cardinality(K))
  <2>1. Len(x) \in Nat \ {0}
    BY <1>2, <1>9, EmptySeq
  <2>2. 1 \in 1..Len(x) /\ Cardinality(K) \in 1..Len(x)
    BY <1>2, <2>1
  <2>3. /\ a \in 1..Len(s) /\ b \in 1..Len(s)
        /\ x[1] = f + a - 1 /\ Last(x) = f + b - 1
    BY <2>2, <1>2, <1>6 DEF Last
  <2>4. \A j \in K : a <= j /\ j <= b
    BY <1>4
  <2> HIDE DEF a, b
  <2>5. f <= x[1] /\ Last(x) <= Last(s)
    BY <1>1, <2>3
  <2>6. ASSUME NEW p \in f..x[1] - 1 PROVE Token(t, p) \in {EscStart, EscEnd}
    <3>1. p \in Nat /\ f <= p /\ p <= Last(s) /\ ~(a <= p - f + 1)
      BY <1>1, <2>3
    <3> QED
      BY <3>1, <2>4, <1>5
  <2>7. ASSUME NEW p \in Last(x) + 1..Last(s) PROVE Token(t, p) \in {EscStart, EscEnd}
    <3>1. p \in Nat /\ f <= p /\ p <= Last(s) /\ ~(p - f + 1 <= b)
      BY <1>1, <2>3
    <3> QED
      BY <3>1, <2>4, <1>5
  <2> QED
    BY <2>5, <2>6, <2>7 DEF OnlyCodes
<1> QED
  BY <1>7, <1>8, <1>9 DEF Cleaned, Chained, x, f

\* A write of n tokens after position p.
LEMMA WriteRun ==
  ASSUME NEW N \in Nat, NEW p \in Nat, NEW n \in Nat \ {0}, p + n <= N
  PROVE  LET w == [i \in 1..n |-> p + i]
         IN  /\ w \in Seq(1..N) /\ w # <<>> /\ Run(w)
             /\ w[1] = p + 1 /\ Last(w) = p + n
<1> DEFINE w == [i \in 1..n |-> p + i]
<1>1. w \in [1..n -> 1..N] /\ \A i \in 1..n : w[i] = p + i
  OBVIOUS
<1> HIDE DEF w
<1>2. w \in Seq(1..N)
  BY <1>1, SeqDef
<1>3. Len(w) = n
  BY <1>1, <1>2, LenProperties
<1>4. w # <<>>
  BY <1>3
<1>5. w[1] = p + 1 /\ Last(w) = p + n
  BY <1>1, <1>3 DEF Last
<1>6. ASSUME NEW i \in 1..n - 1 PROVE w[i + 1] = w[i] + 1
  <2>1. i \in 1..n /\ i + 1 \in 1..n
    OBVIOUS
  <2>2. w[i] = p + i /\ w[i + 1] = p + (i + 1)
    BY <1>1, <2>1
  <2> QED
    BY <2>2
<1> QED
  BY <1>2, <1>3, <1>4, <1>5, <1>6 DEF Run, w

\* The history after one more piece.
LEMMA RingRun ==
  ASSUME NEW N \in Nat, NEW r \in Seq(1..N), NEW p \in Seq(1..N),
         Run(r), Run(p), p # <<>>, r # <<>> => p[1] = Last(r) + 1,
         NEW n \in Nat \ {0}
  PROVE  LET l == LastOf(r \o p, n)
         IN  l # <<>> /\ Run(l) /\ Last(l) = Last(p)
<1> DEFINE s == r \o p
           l == LastOf(s, n)
           o == IF Len(s) <= n THEN 0 ELSE Len(s) - n
<1>1. /\ s \in Seq(1..N) /\ Len(s) = Len(r) + Len(p)
      /\ \A i \in 1..Len(r) + Len(p) :
           s[i] = IF i <= Len(r) THEN r[i] ELSE p[i - Len(r)]
  BY ConcatProperties
<1>2. Len(p) \in Nat \ {0} /\ Len(r) \in Nat
  BY EmptySeq, LenProperties
<1>3. IsEnd(1..N, s, n, l)
  BY <1>1, LastOfIs
<1> HIDE DEF s, l
<1>r. \A i \in 1..Len(r) : s[i] = r[i]
  <2> SUFFICES ASSUME NEW i \in 1..Len(r) PROVE s[i] = r[i]
    OBVIOUS
  <2>1. i \in 1..Len(r) + Len(p) /\ i <= Len(r)
    BY <1>2
  <2> QED
    BY <2>1, <1>1
<1>p. ASSUME NEW j \in 1..Len(p), NEW i, i = Len(r) + j PROVE s[i] = p[j]
  <2>1. i \in 1..Len(r) + Len(p) /\ ~(i <= Len(r)) /\ i - Len(r) = j
    BY <1>2, <1>p
  <2> QED
    BY <2>1, <1>1
<1>4. ASSUME NEW i \in 1..Len(s) - 1 PROVE s[i + 1] = s[i] + 1
  <2>1. CASE i + 1 <= Len(r)
    <3>1. i \in 1..Len(r) /\ i + 1 \in 1..Len(r) /\ i \in 1..Len(r) - 1
      BY <1>1, <1>2, <2>1
    <3>2. s[i] = r[i] /\ s[i + 1] = r[i + 1]
      BY <3>1, <1>r
    <3> QED
      BY <3>1, <3>2 DEF Run
  <2>2. CASE i = Len(r)
    <3>1. i \in 1..Len(r) /\ i + 1 = Len(r) + 1 /\ 1 \in 1..Len(p)
      BY <1>1, <1>2, <2>2
    <3>2. s[i] = Last(r) /\ s[i + 1] = p[1]
      BY <3>1, <2>2, <1>r, <1>p DEF Last
    <3>3. r # <<>>
      BY <1>2, <3>1
    <3> QED
      BY <3>2, <3>3
  <2>3. CASE i > Len(r)
    <3> DEFINE j == i - Len(r)
    <3>0. /\ Len(r) \in Nat /\ Len(p) \in Nat /\ i \in Nat
          /\ i < Len(r) + Len(p)
      BY <1>1, <1>2
    <3>1. /\ j \in 1..Len(p) /\ j + 1 \in 1..Len(p) /\ j \in 1..Len(p) - 1
          /\ i = Len(r) + j /\ i + 1 = Len(r) + (j + 1)
      BY <2>3, <3>0, SMTT(30)
    <3> HIDE DEF j
    <3>2. s[i] = p[j] /\ s[i + 1] = p[j + 1]
      BY <3>1, <1>p
    <3> QED
      BY <3>1, <3>2 DEF Run
  <2>4. i + 1 <= Len(r) \/ i = Len(r) \/ i > Len(r)
    BY <1>1, <1>2
  <2> QED
    BY <2>1, <2>2, <2>3, <2>4
<1>5. /\ l \in Seq(1..N) /\ Len(l) = Len(s) - o /\ o \in Nat /\ o < Len(s)
      /\ \A i \in 1..Len(l) : o + i \in 1..Len(s) /\ l[i] = s[o + i]
  <2>1. Len(s) \in Nat /\ Len(s) > 0 /\ n \in Nat \ {0}
    <3>1. Len(s) = Len(r) + Len(p)
      BY <1>1
    <3> QED
      BY <3>1, <1>2
  <2>2. o \in Nat /\ o < Len(s)
    BY <2>1
  <2> QED
    BY <1>3, <2>2 DEF IsEnd
<1> HIDE DEF o
<1>6. Len(l) \in Nat \ {0} /\ l # <<>>
  <2>1. Len(s) \in Nat
    BY <1>1, <1>2
  <2>2. Len(l) \in Nat \ {0}
    <3>1. Len(l) = Len(s) - o /\ o \in Nat /\ o < Len(s)
      BY <1>5
    <3> QED
      BY <2>1, <3>1
  <2> QED
    BY <2>2
<1>7. Run(l)
  <2>1. ASSUME NEW i \in 1..Len(l) - 1 PROVE l[i + 1] = l[i] + 1
    <3>1. i \in 1..Len(l) /\ i + 1 \in 1..Len(l) /\ o + (i + 1) = (o + i) + 1
          /\ o + i \in 1..Len(s) - 1
      BY <1>1, <1>2, <1>5, <1>6
    <3>l. l[i] = s[o + i] /\ l[i + 1] = s[o + (i + 1)]
      BY <3>1, <1>5
    <3> DEFINE j == o + i
    <3>2. l[i] = s[j] /\ l[i + 1] = s[j + 1] /\ j \in 1..Len(s) - 1
      BY <3>1, <3>l
    <3> HIDE DEF j
    <3> QED
      BY <3>2, <1>4
  <2> QED
    BY <2>1 DEF Run
<1>8. Last(l) = Last(p)
  <2>1. Len(l) \in 1..Len(l) /\ o + Len(l) = Len(s)
    BY <1>1, <1>2, <1>5, <1>6
  <2>2. l[Len(l)] = s[Len(s)]
    BY <2>1, <1>5
  <2>3. s[Len(s)] = p[Len(p)]
    <3>1. Len(s) \in 1..Len(r) + Len(p) /\ ~(Len(s) <= Len(r)) /\ Len(s) - Len(r) = Len(p)
      <4>1. Len(s) = Len(r) + Len(p)
        BY <1>1
      <4> QED
        BY <4>1, <1>2
    <3> QED
      BY <3>1, <1>1
  <2> QED
    BY <2>2, <2>3 DEF Last
<1> QED
  BY <1>6, <1>7, <1>8 DEF l, s

-----------------------------------------------------------------------------
(* The types, and what the window shows                                    *)

LEMMA LengthIs == \A t \in Targets : Len(Texts[t]) \in Nat
BY LogViewAssumption, LenProperties

LEMMA Bounds == /\ MaxWrite \in Nat \ {0} /\ QueueCap \in Nat \ {0}
                /\ RingCap \in Nat \ {0} /\ MaxLines \in Nat \ {0}
BY LogViewAssumption

\* The types of what the operators return
LEMMA LastOfType ==
  ASSUME NEW P, NEW s \in Seq(P), NEW n \in Nat
  PROVE  LastOf(s, n) \in Seq(P) /\ Len(LastOf(s, n)) <= n
<1> DEFINE l == LastOf(s, n)
<1>1. IsEnd(P, s, n, l) /\ Len(s) \in Nat
  BY LastOfIs, LenProperties
<1> HIDE DEF l
<1>2. l \in Seq(P) /\ Len(l) <= n
  BY <1>1 DEF IsEnd
<1> QED
  BY <1>2 DEF l

LEMMA RestType ==
  ASSUME NEW t, NEW P, NEW s \in Seq(P)
  PROVE  RestOf(t, s) \in Seq(P)
<1>1. Len(s) + 1 \in 1..Len(s) + 1
  BY LenProperties
<1>2. IsLine(P, s, Len(s) + 1, Before(t, s, Len(s) + 1), LineAt(t, s, Len(s) + 1))
  BY <1>1, LineIs
<1> QED
  BY <1>2 DEF IsLine, RestOf

\* Nothing is shown of nothing.
LEMMA EmptyText ==
  ASSUME NEW t
  PROVE  LinesOf(t, <<>>) = <<>> /\ RestOf(t, <<>>) = <<>>
         /\ LastOf(<<>>, MaxLines) = <<>>
<1> DEFINE E == ShownEnds(t, <<>>)
           L == LinesOf(t, <<>>)
           R == RestOf(t, <<>>)
<1>1. <<>> \in Seq({}) /\ Len(<<>>) = 0
  OBVIOUS
<1>2. \A e \in E : e \in 1..0
  BY <1>1, LinesAre
<1>3. E = {}
  BY <1>2
<1>4. L \in Seq(Seq({})) /\ Len(L) = Cardinality(E)
  BY <1>1, LinesAre
<1>5. Len(L) = 0
  BY <1>3, <1>4, FS_EmptySet
<1>6. R \in Seq({})
  BY <1>1, RestType
<1> HIDE DEF L, R, E
<1>7. L = <<>>
  BY <1>4, <1>5, EmptySeq
<1>8. R = <<>>
  <2>1. R # <<>> => Len(R) \in Nat \ {0}
    BY <1>6, EmptySeq
  <2>2. \A i \in 1..Len(R) : R[i] \in {}
    BY <1>6, ElementOfSeq
  <2>3. R # <<>> => 1 \in 1..Len(R)
    BY <2>1
  <2> QED
    BY <2>2, <2>3
<1>9. LastOf(<<>>, MaxLines) = <<>>
  BY <1>1, Bounds DEF LastOf
<1> QED
  BY <1>7, <1>8, <1>9 DEF L, R

\* A cleared window shows a text of which nothing came yet.
LEMMA ClearWhole == ASSUME Clear PROVE AsAWhole'
<1>1. /\ LinesOf(tail', <<>>) = <<>> /\ RestOf(tail', <<>>) = <<>>
      /\ LastOf(<<>>, MaxLines) = <<>>
  BY EmptyText
<1>2. Len(<<>>) = 0
  OBVIOUS
<1> QED
  BY <1>1, <1>2 DEF Clear, AsAWhole

LEMMA ClearTyped ==
  ASSUME Clear
  PROVE  /\ last' \in Pieces(tail') /\ count' \in Nat /\ div' \in Seq(Pieces(tail'))
         /\ text' \in Pieces(tail')
BY DEF Clear, Pieces

\* A sequence whose elements are in P is one over P.
LEMMA SeqOfOthers ==
  ASSUME NEW Q, NEW P, NEW s \in Seq(Q), \A i \in 1..Len(s) : s[i] \in P
  PROVE  s \in Seq(P)
<1>1. Len(s) \in Nat /\ s \in [1..Len(s) -> Q]
  BY LenProperties
<1>2. s \in [1..Len(s) -> P]
  BY <1>1
<1> QED
  BY <1>1, <1>2, SeqDef

\* The lines before the first throw, which are all if none throws.
LEMMA DecodedIs ==
  ASSUME NEW t, NEW P, NEW lines \in Seq(P)
  PROVE  /\ Decoded(t, lines) \in Seq(P)
         /\ Decodable(t, lines) => Decoded(t, lines) = lines
<1> DEFINE bad == {k \in 1..Len(lines) : Throws(t, lines[k])}
<1>1. Len(lines) \in Nat /\ \A k \in 1..Len(lines) : lines[k] \in P
  BY LenProperties, ElementOfSeq
<1>2. CASE bad = {}
  BY <1>2 DEF Decoded
<1>3. CASE bad # {}
  <2>1. PICK m \in bad : \A n \in bad : m <= n
    <3>1. bad \subseteq Nat
      OBVIOUS
    <3> HIDE DEF bad
    <3> QED
      BY <1>3, <3>1, Least
  <2>2. Min(bad) \in bad
    <3> HIDE DEF bad
    <3> QED
      BY <2>1 DEF Min
  <2>3. Min(bad) - 1 \in Nat /\ \A k \in 1..Min(bad) - 1 : k \in 1..Len(lines)
    <3>1. Min(bad) \in 1..Len(lines)
      BY <2>2
    <3> HIDE DEF bad
    <3> QED
      BY <1>1, <3>1
  <2>4. SubSeq(lines, 1, Min(bad) - 1) \in Seq(P)
    <3>1. \A k \in 1..Min(bad) - 1 : lines[k] \in P
      BY <1>1, <2>3
    <3> HIDE DEF bad
    <3> QED
      BY <2>3, <3>1, SubSeqProperties
  <2>5. Decoded(t, lines) = SubSeq(lines, 1, Min(bad) - 1)
    BY <1>3 DEF Decoded
  <2>6. ~Decodable(t, lines)
    BY <1>3 DEF Decodable
  <2> QED
    BY <2>4, <2>5, <2>6
<1> QED
  BY <1>2, <1>3

\* A text whose lines do not throw has no such line in either part.
LEMMA DecodableParts ==
  ASSUME NEW t, NEW P, NEW a \in Seq(P), NEW b \in Seq(P), Decodable(t, a \o b)
  PROVE  Decodable(t, a) /\ Decodable(t, b)
<1>1. /\ Len(a) \in Nat /\ Len(b) \in Nat /\ Len(a \o b) = Len(a) + Len(b)
      /\ \A i \in 1..Len(a) + Len(b) :
           (a \o b)[i] = IF i <= Len(a) THEN a[i] ELSE b[i - Len(a)]
  BY LenProperties, ConcatProperties
<1>2. ASSUME NEW k \in 1..Len(a) PROVE ~Throws(t, a[k])
  <2>1. k \in 1..Len(a) + Len(b) /\ (a \o b)[k] = a[k]
    BY <1>1
  <2> QED
    BY <1>1, <2>1 DEF Decodable
<1>3. ASSUME NEW k \in 1..Len(b) PROVE ~Throws(t, b[k])
  <2>1. /\ Len(a) + k \in 1..Len(a) + Len(b) /\ ~(Len(a) + k <= Len(a))
        /\ Len(a) + k - Len(a) = k
    BY <1>1
  <2>2. (a \o b)[Len(a) + k] = b[k]
    BY <1>1, <2>1
  <2> QED
    BY <1>1, <2>1, <2>2 DEF Decodable
<1> QED
  BY <1>2, <1>3 DEF Decodable

\* The queue stays within its capacity, the history within its own.
LEMMA WriteTyped ==
  ASSUME TypeOK, NEW t \in Targets, NEW n \in 1..MaxWrite, Write(t, n)
  PROVE  TypeOK'
<1> DEFINE w == [i \in 1..n |-> pos[t] + i]
<1>1. w \in Pieces(t) /\ pos[t] + n \in 0..Len(Texts[t])
  <2>1. /\ Len(Texts[t]) \in Nat /\ pos[t] \in Nat /\ n \in Nat \ {0}
        /\ pos[t] + n <= Len(Texts[t])
    <3>1. Len(Texts[t]) \in Nat /\ pos[t] \in 0..Len(Texts[t])
      BY LengthIs DEF TypeOK
    <3>2. MaxWrite \in Nat /\ n \in 1..MaxWrite
      BY Bounds
    <3>3. pos[t] + n <= Len(Texts[t])
      BY DEF Write
    <3> QED
      BY <3>1, <3>2, <3>3
  <2> QED
    BY <2>1, WriteRun DEF Pieces
<1> HIDE DEF w
<1>2. /\ bufC[t] \in Seq(Pieces(t)) /\ Len(bufC[t]) \in Nat
  BY LenProperties DEF TypeOK
<1>3. /\ Append(bufC[t], w) \in Seq(Pieces(t))
      /\ Len(Append(bufC[t], w)) = Len(bufC[t]) + 1
  BY <1>1, <1>2, AppendProperties
<1>4. pos' = [pos EXCEPT ![t] = pos[t] + n]
  BY DEF Write
<1>5. /\ DOMAIN pos' = Targets
      /\ \A u \in Targets : pos'[u] = IF u = t THEN pos[t] + n ELSE pos[u]
  BY <1>4 DEF TypeOK
<1>6. /\ DOMAIN bufC' = Targets
      /\ \A u \in Targets : bufC'[u] \in Seq(Pieces(u)) /\ Len(bufC'[u]) <= QueueCap
  <2>1. CASE Len(bufC[t]) < QueueCap
    <3>1. bufC' = [bufC EXCEPT ![t] = Append(bufC[t], w)]
      BY <2>1 DEF Write, w
    <3>2. /\ DOMAIN bufC' = Targets
          /\ \A u \in Targets : bufC'[u] = IF u = t THEN Append(bufC[t], w) ELSE bufC[u]
      BY <3>1 DEF TypeOK
    <3>3. Len(bufC[t]) + 1 <= QueueCap
      BY <2>1, <1>2, Bounds
    <3> QED
      BY <3>2, <3>3, <1>3 DEF TypeOK
  <2>2. CASE ~(Len(bufC[t]) < QueueCap)
    BY <2>2 DEF Write, TypeOK
  <2> QED
    BY <2>1, <2>2
<1>7. dropped' \subseteq Targets
  BY DEF Write, TypeOK
<1>8. UNCHANGED <<ring, sock, tail, srv, ch, follow, last, count, div, text, holes>>
  BY DEF Write, view
<1> QED
  BY <1>1, <1>5, <1>6, <1>7, <1>8 DEF TypeOK

LEMMA DrainTyped ==
  ASSUME TypeOK, NEW t \in Targets, Drain(t)
  PROVE  TypeOK'
<1> DEFINE p == Head(bufC[t])
           q == Tail(bufC[t])
           r == LastOf(ring[t] \o p, RingCap)
<1>1. bufC[t] \in Seq(Pieces(t)) /\ bufC[t] # <<>> /\ Len(bufC[t]) <= QueueCap
  BY DEF TypeOK, Drain
<1>2. p \in Pieces(t) /\ q \in Seq(Pieces(t)) /\ Len(q) = Len(bufC[t]) - 1
  BY <1>1, HeadTailProperties
<1>3. Len(q) <= QueueCap
  BY <1>1, <1>2, LenProperties, Bounds
<1>4. r \in Pieces(t) /\ Len(r) <= RingCap
  <2>1. ring[t] \in Seq(1..Len(Texts[t])) /\ p \in Seq(1..Len(Texts[t]))
    BY <1>2 DEF TypeOK, Pieces
  <2>2. ring[t] \o p \in Seq(1..Len(Texts[t]))
    BY <2>1, ConcatProperties
  <2> QED
    BY <2>2, LastOfType, Bounds DEF Pieces
<1> HIDE DEF p, q, r
<1>5. bufC' = [bufC EXCEPT ![t] = q] /\ ring' = [ring EXCEPT ![t] = r]
  BY DEF Drain, p, q, r
<1>6. /\ DOMAIN bufC' = Targets /\ DOMAIN ring' = Targets
      /\ \A u \in Targets : /\ bufC'[u] = IF u = t THEN q ELSE bufC[u]
                            /\ ring'[u] = IF u = t THEN r ELSE ring[u]
  BY <1>5 DEF TypeOK
<1>7. UNCHANGED <<pos, dropped, sock, tail, srv, follow, last, count, div, text>>
  BY DEF Drain, view
<1>8. ch' \in Seq(Pieces(tail)) /\ holes' \subseteq {"paused", "raced"}
  <2>1. CASE srv # "none" /\ tail = t
    <3>1. ch' = Append(ch, p) /\ p \in Pieces(tail) /\ ch \in Seq(Pieces(tail))
      BY <2>1, <1>2 DEF Drain, TypeOK, p
    <3>2. Append(ch, p) \in Seq(Pieces(tail))
      BY <3>1, AppendProperties
    <3> QED
      BY <2>1, <3>1, <3>2 DEF Drain, TypeOK
  <2>2. CASE ~(srv # "none" /\ tail = t)
    BY <2>2 DEF Drain, TypeOK
  <2> QED
    BY <2>1, <2>2
<1> QED
  BY <1>2, <1>3, <1>4, <1>6, <1>7, <1>8 DEF TypeOK

\* A message that the page follows.
Followed(new, content, lines) ==
  /\ new = Stripped(tail, Head(ch)) /\ content = last \o new
  /\ lines = LinesOf(tail, content)
  /\ last' = RestOf(tail, content)
  /\ div' = ShowAll(div, Decoded(tail, lines))
  /\ count' = IF Decoded(tail, lines) = lines THEN count + Len(lines) ELSE count
  /\ text' = text \o new
  /\ UNCHANGED <<follow, holes>>

\* A message is followed, or the user paused.
LEMMA DeliverCases ==
  ASSUME Deliver
  PROVE  /\ sock = "open" /\ ch # <<>> /\ ch' = Tail(ch)
         /\ UNCHANGED <<pos, bufC, ring, dropped, sock, tail, srv>>
         /\ \/ /\ ~follow /\ UNCHANGED <<follow, last, count, div, text>>
               /\ holes' = holes \cup (IF Head(ch) = <<>> THEN {} ELSE {"paused"})
            \/ \E new, content, lines : Followed(new, content, lines)
<1>1. sock = "open" /\ ch # <<>> /\ ch' = Tail(ch)
      /\ UNCHANGED <<pos, bufC, ring, dropped, sock, tail, srv>>
  BY DEF Deliver, pipe
<1>2. CASE ~follow
  BY <1>1, <1>2 DEF Deliver, ProcessLogEvent, view
<1>3. CASE follow
  <2>1. /\ UNCHANGED <<follow, holes>>
        /\ \E new \in {Stripped(tail, Head(ch))} : \E content \in {last \o new} :
           \E lines \in {LinesOf(tail, content)} :
             /\ last' = RestOf(tail, content)
             /\ div' = ShowAll(div, Decoded(tail, lines))
             /\ count' = IF Decoded(tail, lines) = lines
                         THEN count + Len(lines) ELSE count
             /\ text' = text \o new
    BY <1>3 DEF Deliver, ProcessLogEvent
  <2> QED
    BY <1>1, <2>1 DEF Followed
<1> QED
  BY <1>2, <1>3

\* A message puts the lines of unfinished line and message to those shown,
\* up to the first that throws.
LEMMA DeliverKeeps ==
  ASSUME TypeOK, AsAWhole, Deliver
  PROVE  TypeOK' /\ AsAWhole'
<1> DEFINE P == 1..Len(Texts[tail])
<1>1. /\ ch \in Seq(Pieces(tail)) /\ ch # <<>> /\ ch' = Tail(ch)
      /\ UNCHANGED <<pos, bufC, ring, dropped, sock, tail, srv>>
  BY DeliverCases DEF TypeOK
<1>2. Head(ch) \in Pieces(tail) /\ ch' \in Seq(Pieces(tail))
  BY <1>1, HeadTailProperties
<1>3. CASE /\ ~follow /\ UNCHANGED <<follow, last, count, div, text>>
           /\ holes' = holes \cup (IF Head(ch) = <<>> THEN {} ELSE {"paused"})
  <2>1. holes' \subseteq {"paused", "raced"}
    BY <1>3 DEF TypeOK
  <2>2. TypeOK'
    BY <1>1, <1>2, <1>3, <2>1 DEF TypeOK
  <2>3. AsAWhole'
    BY <1>1, <1>3 DEF AsAWhole
  <2> QED
    BY <2>2, <2>3
<1>4. ASSUME NEW new, NEW content, NEW lines, Followed(new, content, lines)
      PROVE  TypeOK' /\ AsAWhole'
  <2> DEFINE all == LinesOf(tail, text)
  <2>1. text \in Seq(P) /\ last \in Seq(P) /\ Head(ch) \in Seq(P) /\ count \in Nat
    BY <1>2 DEF TypeOK, Pieces
  <2>2. new \in Seq(P)
    BY <1>4, <2>1, StrippedType DEF Followed
  <2>3. content \in Seq(P) /\ text \o new \in Seq(P)
    <3>1. last \o new \in Seq(P) /\ text \o new \in Seq(P)
      BY <2>1, <2>2, ConcatProperties
    <3> QED
      BY <3>1, <1>4 DEF Followed
  <2>4. /\ all \in Seq(Seq(P)) /\ lines \in Seq(Seq(P))
    <3>1. LinesOf(tail, content) \in Seq(Seq(P))
      BY <2>3, LinesAre
    <3>2. all \in Seq(Seq(P))
      BY <2>1, LinesAre
    <3> QED
      BY <3>1, <3>2, <1>4 DEF Followed
  <2>5. /\ last = RestOf(tail, text)
        /\ \A i \in 1..Len(div) : \E k \in 1..Len(all) : div[i] = all[k]
        /\ Len(div) >= count \/ Len(div) >= MaxLines
        /\ Decodable(tail, all) => div = LastOf(all, MaxLines) /\ count = Len(all)
    BY DEF AsAWhole
  <2>6. content = RestOf(tail, text) \o new /\ lines = LinesOf(tail, content)
    BY <1>4, <2>5 DEF Followed
  <2>7. /\ LinesOf(tail, text \o new) = all \o lines
        /\ RestOf(tail, text \o new) = RestOf(tail, content)
    <3> DEFINE c == RestOf(tail, text) \o new
    <3>1. /\ LinesOf(tail, text \o new) = all \o LinesOf(tail, c)
          /\ RestOf(tail, text \o new) = RestOf(tail, c)
      <4> HIDE DEF P
      <4> QED
        BY <2>1, <2>2, LinesJoin
    <3>2. content = c
      BY <2>6
    <3> HIDE DEF c, all
    <3> QED
      BY <2>6, <3>1, <3>2
  <2>8. div \in Seq(Seq(P))
    BY DEF TypeOK, Pieces
  <2> DEFINE whole == all \o lines
             L == {whole[k] : k \in 1..Len(whole)}
             shown == Decoded(tail, lines)
  <2> HIDE DEF all, P
  <2>9. /\ Len(all) \in Nat /\ Len(lines) \in Nat /\ whole \in Seq(Seq(P))
        /\ Len(whole) = Len(all) + Len(lines)
        /\ \A i \in 1..Len(all) + Len(lines) :
             whole[i] = IF i <= Len(all) THEN all[i] ELSE lines[i - Len(all)]
    BY <2>4, LenProperties, ConcatProperties
  <2>10. \A k \in 1..Len(all) : all[k] \in L
    <3>1. ASSUME NEW k \in 1..Len(all) PROVE all[k] \in L
      <4>1. k \in 1..Len(all) + Len(lines) /\ k <= Len(all)
        BY <2>9
      <4>2. k \in 1..Len(whole) /\ whole[k] = all[k]
        <5> HIDE DEF whole
        <5> QED
          BY <2>9, <4>1
      <4> QED
        BY <4>2
    <3> QED
      BY <3>1
  <2>11. \A k \in 1..Len(lines) : lines[k] \in L
    <3>1. ASSUME NEW k \in 1..Len(lines) PROVE lines[k] \in L
      <4>1. /\ Len(all) + k \in 1..Len(all) + Len(lines) /\ ~(Len(all) + k <= Len(all))
            /\ Len(all) + k - Len(all) = k
        BY <2>9
      <4>2. Len(all) + k \in 1..Len(whole) /\ whole[Len(all) + k] = lines[k]
        <5> HIDE DEF whole
        <5> QED
          BY <2>9, <4>1
      <4> QED
        BY <4>2
    <3> QED
      BY <3>1
  <2> HIDE DEF L
  <2>12. div \in Seq(L) /\ lines \in Seq(L)
    <3>1. \A i \in 1..Len(div) : div[i] \in L
      BY <2>5, <2>10
    <3> QED
      BY <2>4, <2>8, <2>11, <3>1, SeqOfOthers
  <2>13. Filled(L, ShowAll(div, shown), Len(shown))
         /\ Filled(Seq(P), ShowAll(div, shown), Len(shown))
    <3>1. shown \in Seq(L) /\ shown \in Seq(Seq(P))
      <4> HIDE DEF shown
      <4> QED
        BY <2>4, <2>12, DecodedIs DEF shown
    <3>2. Filled(L, div, 0) /\ Filled(Seq(P), div, 0)
      BY <2>1, <2>5, <2>8, <2>12 DEF Filled
    <3> HIDE DEF shown
    <3> QED
      BY <2>1, <3>1, <3>2, Bounds, ShowAllFills
  <2>14. /\ div' = ShowAll(div, shown)
         /\ count' = IF shown = lines THEN count + Len(lines) ELSE count
    BY <1>4 DEF Followed
  <2>15. Len(shown) \in Nat
    BY <2>4, DecodedIs, LenProperties
  <2>16. ASSUME Decodable(tail, whole)
         PROVE  div' = LastOf(whole, MaxLines) /\ count' = Len(whole)
    <3>1. Decodable(tail, all) /\ Decodable(tail, lines)
      BY <2>4, <2>16, DecodableParts
    <3>2. div = LastOf(all, MaxLines) /\ count = Len(all) /\ shown = lines
      BY <2>4, <2>5, <3>1, DecodedIs
    <3>3. ShowAll(div, lines) = LastOf(whole, MaxLines)
      BY <2>4, <3>2, ShowAllIs
    <3> QED
      BY <2>9, <2>14, <3>2, <3>3
  <2> HIDE DEF whole, shown
  <2>17. AsAWhole'
    <3>1. LinesOf(tail', text') = whole /\ RestOf(tail', text') = last'
      BY <1>1, <1>4, <2>7 DEF Followed, whole
    <3>2. \A i \in 1..Len(div') : \E k \in 1..Len(whole) : div'[i] = whole[k]
      <4>1. div' \in Seq(L)
        BY <2>13, <2>14 DEF Filled
      <4>2. \A i \in 1..Len(div') : div'[i] \in L
        BY <4>1, ElementOfSeq
      <4> QED
        BY <4>2 DEF L
    <3>3. Len(div') >= count' \/ Len(div') >= MaxLines
      <4>1. /\ Len(div') >= count + Len(shown) \/ Len(div') >= MaxLines
            /\ Len(div') \in Nat
        BY <2>13, <2>14, LenProperties DEF Filled
      <4>2. CASE shown = lines
        BY <2>14, <4>1, <4>2
      <4>3. CASE shown # lines
        <5>1. count' = count
          BY <2>14, <4>3
        <5> QED
          BY <2>1, <2>15, <4>1, <5>1, Bounds
      <4> QED
        BY <4>2, <4>3
    <3>4. tail' = tail
      BY <1>1
    <3> QED
      BY <2>16, <3>1, <3>2, <3>3, <3>4 DEF AsAWhole
  <2>18. TypeOK'
    <3>1. div' \in Seq(Seq(P))
      BY <2>13, <2>14 DEF Filled
    <3>2. count' \in Nat
      BY <2>1, <2>9, <2>14
    <3>3. last' \in Seq(P)
      <4>1. RestOf(tail, content) \in Seq(P)
        BY <2>3, RestType
      <4> QED
        BY <4>1, <1>4 DEF Followed
    <3>4. text' \in Seq(P) /\ UNCHANGED <<follow, holes>>
      BY <1>4, <2>3 DEF Followed
    <3>5. Seq(P) = Pieces(tail)
      BY DEF P, Pieces
    <3> HIDE DEF P
    <3> QED
      BY <1>1, <1>2, <3>1, <3>2, <3>3, <3>4, <3>5 DEF TypeOK
  <2> QED
    BY <2>17, <2>18
<1> QED
  BY <1>3, <1>4, DeliverCases

LEMMA OthersTyped ==
  ASSUME TypeOK,
         \/ \E t \in Targets : CmdTail(t)
         \/ Register \/ SendHistory \/ CutOff \/ OnOpen \/ Hide \/ Follow
  PROVE  TypeOK'
<1>1. ASSUME NEW t \in Targets, CmdTail(t) PROVE TypeOK'
  <2>1. /\ last' \in Pieces(tail') /\ count' \in Nat /\ div' \in Seq(Pieces(tail'))
        /\ text' \in Pieces(tail')
    BY <1>1, ClearTyped DEF CmdTail
  <2> QED
    BY <1>1, <2>1 DEF CmdTail, NewWebsocket, TypeOK, pipe
<1>2. CASE Register
  BY <1>2 DEF Register, TypeOK, pipe, view
<1>3. CASE SendHistory
  <2>1. ch \in Seq(Pieces(tail)) /\ ring[tail] \in Pieces(tail)
    BY DEF TypeOK
  <2>2. ch' \in Seq(Pieces(tail))
    BY <1>3, <2>1, AppendProperties DEF SendHistory
  <2> QED
    BY <1>3, <2>2 DEF SendHistory, TypeOK, pipe, view
<1>4. CASE CutOff
  BY <1>4 DEF CutOff, TypeOK, pipe, view
<1>5. CASE OnOpen
  <2>1. /\ last' \in Pieces(tail') /\ count' \in Nat /\ div' \in Seq(Pieces(tail'))
        /\ text' \in Pieces(tail')
    BY <1>5, ClearTyped DEF OnOpen
  <2> QED
    BY <1>5, <2>1 DEF OnOpen, TypeOK, pipe
<1>6. CASE Hide
  BY <1>6 DEF Hide, TypeOK, pipe, view
<1>7. CASE Follow
  BY <1>7 DEF Follow, TypeOK, pipe
<1> QED
  BY <1>1, <1>2, <1>3, <1>4, <1>5, <1>6, <1>7

Shown == TypeOK /\ AsAWhole

LEMMA InitShown == Init => Shown
<1> SUFFICES ASSUME Init PROVE Shown
  OBVIOUS
<1>1. /\ LinesOf(tail, <<>>) = <<>> /\ RestOf(tail, <<>>) = <<>>
      /\ LastOf(<<>>, MaxLines) = <<>>
  BY EmptyText
<1>2. Len(<<>>) = 0
  OBVIOUS
<1>3. AsAWhole
  BY <1>1, <1>2 DEF Init, AsAWhole
<1>4. \A t \in Targets : /\ pos[t] = 0 /\ bufC[t] = <<>> /\ ring[t] = <<>>
                         /\ Len(Texts[t]) \in Nat
  BY LengthIs DEF Init
<1>5. TypeOK
  BY <1>2, <1>4, Bounds DEF Init, TypeOK, Pieces
<1> QED
  BY <1>3, <1>5 DEF Shown

LEMMA ShownStep == Shown /\ [Next]_vars => Shown'
<1> SUFFICES ASSUME TypeOK, AsAWhole, [Next]_vars PROVE TypeOK' /\ AsAWhole'
  BY DEF Shown
<1>1. ASSUME NEW t \in Targets, NEW n \in 1..MaxWrite, Write(t, n)
      PROVE  TypeOK' /\ AsAWhole'
  <2>1. AsAWhole'
    BY <1>1 DEF Write, AsAWhole, view
  <2> QED
    BY <1>1, <2>1, WriteTyped
<1>2. ASSUME NEW t \in Targets, Drain(t) PROVE TypeOK' /\ AsAWhole'
  <2>1. AsAWhole'
    BY <1>2 DEF Drain, AsAWhole, view
  <2> QED
    BY <1>2, <2>1, DrainTyped
<1>3. ASSUME NEW t \in Targets, CmdTail(t) PROVE TypeOK' /\ AsAWhole'
  BY <1>3, OthersTyped, ClearWhole DEF CmdTail
<1>4. CASE OnOpen
  BY <1>4, OthersTyped, ClearWhole DEF OnOpen
<1>5. CASE Register \/ SendHistory \/ CutOff \/ Hide \/ Follow
  <2>1. UNCHANGED <<tail, last, count, div, text>>
    BY <1>5 DEF Register, SendHistory, CutOff, Hide, Follow, view
  <2>2. AsAWhole'
    BY <2>1 DEF AsAWhole
  <2> QED
    BY <1>5, <2>2, OthersTyped
<1>6. CASE Deliver
  BY <1>6, DeliverKeeps
<1>7. CASE UNCHANGED vars
  BY <1>7 DEF vars, pipe, view, TypeOK, AsAWhole
<1> QED
  BY <1>1, <1>2, <1>3, <1>4, <1>5, <1>6, <1>7 DEF Next

\* Types, and the lines of the text as a whole, at any time (processLogEvent)
THEOREM ShownAlways == Spec => []Shown
BY InitShown, ShownStep, PTL DEF Spec

\* Queue and history stay within their capacities, and what is in the window
\* is of the target it is open for (bufC, broadcast.go; newWebsocket).
THEOREM LogTypes == Spec => []TypeOK
<1>1. Shown => TypeOK
  BY DEF Shown
<1> QED
  BY <1>1, ShownAlways, PTL

\* However the text is cut into messages, the unfinished line is kept, only
\* lines of the text are shown, and there is one to take out whenever, as
\* counted, the window is full; while no line of the text throws, the window
\* has its last MaxLines lines (processLogEvent).
THEOREM AsAWholeAlways == Spec => []AsAWhole
<1>1. Shown => AsAWhole
  BY DEF Shown
<1> QED
  BY <1>1, ShownAlways, PTL

-----------------------------------------------------------------------------
(* Queues of pieces, each the continuation of the one before               *)

\* The pieces of q continue one another up to position e; only the first, a
\* history, can be empty.
Linked(q, e) ==
  /\ \A i \in 1..Len(q) : Run(q[i])
  /\ \A i \in 2..Len(q) : q[i] # <<>>
  /\ \A i \in 1..Len(q) - 1 : q[i] # <<>> => q[i + 1][1] = Last(q[i]) + 1
  /\ q # <<>> /\ Last(q) # <<>> => Last(Last(q)) = e

\* One piece, or none, is linked.
LEMMA LinkedOne ==
  ASSUME NEW p, NEW e, Run(p), p # <<>> => Last(p) = e
  PROVE  Linked(<<p>>, e) /\ Linked(<<>>, e)
<1>1. Len(<<p>>) = 1 /\ <<p>>[1] = p /\ Last(<<p>>) = p
  BY DEF Last
<1>2. Len(<<>>) = 0
  OBVIOUS
<1>3. Linked(<<p>>, e)
  <2> DEFINE q == <<p>>
  <2>1. Len(q) = 1 /\ q[1] = p /\ Last(q) = p
    BY <1>1
  <2> HIDE DEF q
  <2>2. Linked(q, e)
    BY <2>1 DEF Linked
  <2> QED
    BY <2>2 DEF q
<1>4. Linked(<<>>, e)
  BY <1>2 DEF Linked
<1> QED
  BY <1>3, <1>4

\* A queue that gets the next piece stays linked.
LEMMA LinkedAppend ==
  ASSUME NEW P, NEW q \in Seq(P), NEW e, Linked(q, e),
         NEW p \in P, Run(p), p # <<>>, p[1] = e + 1
  PROVE  Linked(Append(q, p), Last(p))
<1> DEFINE a == Append(q, p)
           n == Len(q)
<1>1. /\ n \in Nat /\ a \in Seq(P) /\ Len(a) = n + 1 /\ a[n + 1] = p
      /\ \A i \in 1..n : a[i] = q[i]
  BY AppendProperties, LenProperties
<1>2. q # <<>> => Last(q) = q[n]
  BY DEF Last
<1>3. q = <<>> => n = 0
  OBVIOUS
<1> HIDE DEF a, n
<1>4. Last(a) = p
  BY <1>1 DEF Last
<1>5. ASSUME NEW i \in 1..n PROVE a[i] = q[i] /\ Run(a[i]) /\ (i >= 2 => a[i] # <<>>)
  BY <1>1, <1>5 DEF Linked, n
<1>6. ASSUME NEW i \in 1..n, a[i] # <<>> PROVE a[i + 1][1] = Last(a[i]) + 1
  <2>1. CASE i = n
    <3>1. a[i] = Last(q) /\ q # <<>> /\ a[i + 1] = p
      BY <2>1, <1>1, <1>2, <1>3
    <3>2. Last(a[i]) = e
      BY <3>1, <1>6 DEF Linked
    <3> QED
      BY <3>1, <3>2
  <2>2. CASE i # n
    <3>1. i \in 1..n - 1 /\ i + 1 \in 1..n
      BY <2>2, <1>1
    <3>2. a[i] = q[i] /\ a[i + 1] = q[i + 1]
      BY <3>1, <1>1
    <3> QED
      BY <3>1, <3>2, <1>6 DEF Linked, n
  <2> QED
    BY <2>1, <2>2
<1>7. \A i \in 1..Len(a) : i \in 1..n \/ i = n + 1
  BY <1>1
<1>8. \A i \in 1..Len(a) - 1 : i \in 1..n
  BY <1>1
<1>9. Linked(a, Last(p))
  BY <1>1, <1>4, <1>5, <1>6, <1>7, <1>8 DEF Linked
<1> QED
  BY <1>9 DEF a

\* So does one whose first piece is taken; the next one goes on there.
LEMMA LinkedTail ==
  ASSUME NEW P, NEW q \in Seq(P), NEW e, Linked(q, e), q # <<>>
  PROVE  /\ Linked(Tail(q), e) /\ Run(q[1]) /\ Head(q) = q[1]
         /\ Tail(q) # <<>> => /\ Tail(q)[1] # <<>>
                              /\ q[1] # <<>> => Tail(q)[1][1] = Last(q[1]) + 1
         /\ Tail(q) = <<>> /\ q[1] # <<>> => Last(q[1]) = e
<1> DEFINE r == Tail(q)
           n == Len(q)
<1>1. /\ n \in Nat \ {0} /\ r \in Seq(P) /\ Len(r) = n - 1
      /\ \A i \in 1..n - 1 : r[i] = q[i + 1]
  BY EmptySeq, HeadTailProperties
<1>2. r = <<>> => n = 1
  <2>1. Len(<<>>) = 0
    OBVIOUS
  <2> HIDE DEF r
  <2> QED
    BY <1>1, <2>1
<1>3. r # <<>> => n > 1
  <2>1. r # <<>> => Len(r) # 0
    BY <1>1, EmptySeq
  <2> QED
    BY <1>1, <2>1
<1>4. Head(q) = q[1]
  OBVIOUS
<1> HIDE DEF r, n
<1>5. \A i \in 1..n - 1 : i + 1 \in 2..n /\ i + 1 \in 1..n
  BY <1>1
<1>6. \A i \in 1..n - 1 : Run(r[i]) /\ r[i] # <<>>
  BY <1>1, <1>5 DEF Linked, n
<1>7. ASSUME NEW i \in 1..Len(r) - 1, r[i] # <<>> PROVE r[i + 1][1] = Last(r[i]) + 1
  <2> DEFINE j == i + 1
  <2>1. i \in 1..n - 1 /\ j \in 1..n - 1 /\ j \in 1..Len(q) - 1
    BY <1>1 DEF n
  <2>2. r[i] = q[j] /\ r[j] = q[j + 1]
    BY <2>1, <1>1
  <2> HIDE DEF j
  <2>3. q[j] # <<>>
    BY <2>2, <1>7
  <2>4. q[j + 1][1] = Last(q[j]) + 1
    BY <2>1, <2>3 DEF Linked
  <2>5. r[j][1] = Last(r[i]) + 1
    BY <2>2, <2>4
  <2> QED
    BY <2>5 DEF j
<1>8. r # <<>> => Last(r) = Last(q)
  <2> SUFFICES ASSUME r # <<>> PROVE Last(r) = Last(q)
    OBVIOUS
  <2>1. n - 1 \in 1..n - 1 /\ n - 1 + 1 = n
    BY <1>1, <1>3
  <2>2. r[n - 1] = q[n]
    BY <1>1, <2>1
  <2> QED
    BY <1>1, <2>2 DEF Last, n
<1>9. Linked(r, e)
  <2>1. \A i \in 1..Len(r) : i \in 1..n - 1
    BY <1>1
  <2>2. \A i \in 2..Len(r) : i \in 1..n - 1
    BY <1>1
  <2>3. r # <<>> /\ Last(r) # <<>> => Last(Last(r)) = e
    BY <1>8 DEF Linked
  <2> QED
    BY <1>6, <1>7, <2>1, <2>2, <2>3 DEF Linked
<1>10. Run(q[1])
  <2>1. 1 \in 1..Len(q)
    BY <1>1 DEF n
  <2> QED
    BY <2>1 DEF Linked
<1>11. ASSUME r # <<>> PROVE r[1] # <<>> /\ (q[1] # <<>> => r[1][1] = Last(q[1]) + 1)
  <2>1. 1 \in 1..n - 1 /\ 1 \in 1..Len(q) - 1
    BY <1>1, <1>3, <1>11 DEF n
  <2>2. r[1] = q[1 + 1]
    BY <2>1, <1>1
  <2>3. q[1] # <<>> => q[1 + 1][1] = Last(q[1]) + 1
    BY <2>1 DEF Linked
  <2> QED
    BY <2>1, <2>2, <2>3, <1>6
<1>12. ASSUME r = <<>>, q[1] # <<>> PROVE Last(q[1]) = e
  <2>1. Last(q) = q[1]
    BY <1>2, <1>12 DEF Last, n
  <2> QED
    BY <2>1, <1>12 DEF Linked
<1> QED
  BY <1>4, <1>9, <1>10, <1>11, <1>12 DEF r

\* What a message that starts after the text leaves of it.
LEMMA ChainJoin ==
  ASSUME NEW t, NEW N \in Nat, NEW a \in Seq(1..N), NEW x \in Seq(1..N),
         NEW from \in Nat, NEW to \in Nat, from <= to,
         Chained(t, a), Cleaned(t, from, to, x),
         a # <<>> => Last(a) < from /\ OnlyCodes(t, Last(a) + 1, from - 1)
  PROVE  LET w == a \o x
         IN  /\ Chained(t, w)
             /\ w # <<>> => Last(w) < to + 1 /\ OnlyCodes(t, Last(w) + 1, to)
<1> DEFINE w == a \o x
<1>1. /\ w \in Seq(1..N) /\ Len(w) = Len(a) + Len(x)
      /\ \A i \in 1..Len(a) + Len(x) :
           w[i] = IF i <= Len(a) THEN a[i] ELSE x[i - Len(a)]
  BY ConcatProperties
<1>2. Len(a) \in Nat /\ Len(x) \in Nat
  BY LenProperties
<1>3. a # <<>> => Last(a) \in 1..N
  <2>1. a # <<>> => Len(a) \in 1..Len(a)
    BY EmptySeq, LenProperties
  <2> QED
    BY <2>1, ElementOfSeq DEF Last
<1>4. x # <<>> => x[1] \in 1..N /\ Last(x) \in 1..N /\ Len(x) \in Nat \ {0}
  <2>1. x # <<>> => Len(x) \in 1..Len(x) /\ 1 \in 1..Len(x)
    BY EmptySeq, LenProperties
  <2> QED
    BY <2>1, ElementOfSeq DEF Last
<1>5. CASE x = <<>>
  <2>1. w = a
    BY <1>5, ConcatEmptySeq
  <2> HIDE DEF w
  <2>2. ASSUME a # <<>> PROVE Last(a) < to + 1 /\ OnlyCodes(t, Last(a) + 1, to)
    <3>1. /\ OnlyCodes(t, from, to) /\ OnlyCodes(t, Last(a) + 1, from - 1)
          /\ Last(a) < from /\ Last(a) \in Nat
      BY <1>3, <1>5, <2>2 DEF Cleaned
    <3>2. Last(a) < to + 1
      BY <3>1
    <3>3. ASSUME NEW p \in Last(a) + 1..to PROVE Token(t, p) \in {EscStart, EscEnd}
      <4>1. p \in from..to \/ p \in Last(a) + 1..from - 1
        BY <1>3, <2>2
      <4> QED
        BY <3>1, <4>1 DEF OnlyCodes
    <3> QED
      BY <3>2, <3>3 DEF OnlyCodes
  <2> QED
    BY <2>1, <2>2 DEF w
<1>6. CASE x # <<>>
  <2> HIDE DEF w
  <2>1. /\ from <= x[1] /\ OnlyCodes(t, from, x[1] - 1)
        /\ Last(x) <= to /\ OnlyCodes(t, Last(x) + 1, to) /\ Chained(t, x)
    BY <1>6 DEF Cleaned
  <2>2. Last(w) = Last(x)
    <3>1. /\ Len(w) \in 1..Len(a) + Len(x) /\ ~(Len(w) <= Len(a))
          /\ Len(w) - Len(a) = Len(x)
      <4>1. Len(w) = Len(a) + Len(x) /\ Len(a) \in Nat /\ Len(x) \in Nat \ {0}
        BY <1>1, <1>2, <1>4, <1>6
      <4> QED
        BY <4>1
    <3>2. w[Len(w)] = x[Len(x)]
      BY <1>1, <3>1
    <3> QED
      BY <3>2 DEF Last
  <2>a. ASSUME NEW i \in 1..Len(a) PROVE w[i] = a[i]
    <3>1. i \in 1..Len(a) + Len(x) /\ i <= Len(a)
      BY <1>2
    <3> QED
      BY <3>1, <1>1
  <2>x. ASSUME NEW j \in 1..Len(x), NEW i, i = Len(a) + j PROVE w[i] = x[j]
    <3>1. i \in 1..Len(a) + Len(x) /\ ~(i <= Len(a)) /\ i - Len(a) = j
      BY <1>2, <2>x
    <3> QED
      BY <3>1, <1>1
  <2>3. ASSUME NEW i \in 1..Len(w) - 1
        PROVE  w[i] < w[i + 1] /\ OnlyCodes(t, w[i] + 1, w[i + 1] - 1)
    <3>1. CASE i + 1 <= Len(a)
      <4>1. i \in 1..Len(a) /\ i + 1 \in 1..Len(a) /\ i \in 1..Len(a) - 1
        BY <1>1, <1>2, <3>1
      <4>2. w[i] = a[i] /\ w[i + 1] = a[i + 1]
        BY <4>1, <2>a
      <4> QED
        BY <4>1, <4>2 DEF Chained
    <3>2. CASE i = Len(a)
      <4>1. i \in 1..Len(a) /\ i + 1 = Len(a) + 1 /\ 1 \in 1..Len(x)
        BY <1>1, <1>2, <1>4, <1>6, <3>2
      <4>2. w[i] = Last(a) /\ w[i + 1] = x[1]
        BY <4>1, <3>2, <2>a, <2>x DEF Last
      <4>3. a # <<>>
        BY <1>2, <4>1
      <4>4. /\ Last(a) < from /\ OnlyCodes(t, Last(a) + 1, from - 1)
            /\ Last(a) \in Nat /\ x[1] \in Nat
        <5>1. Last(a) \in 1..N /\ x[1] \in 1..N
          BY <4>3, <1>3, <1>4, <1>6
        <5>2. Last(a) \in Nat /\ x[1] \in Nat
          BY <5>1
        <5> QED
          BY <4>3, <5>2
      <4>5. Last(a) < x[1]
        BY <4>4, <2>1
      <4>6. ASSUME NEW p \in Last(a) + 1..x[1] - 1
            PROVE  Token(t, p) \in {EscStart, EscEnd}
        <5>1. p \in Last(a) + 1..from - 1 \/ p \in from..x[1] - 1
          BY <4>4
        <5> QED
          BY <5>1, <4>4, <2>1 DEF OnlyCodes
      <4> QED
        BY <4>2, <4>5, <4>6 DEF OnlyCodes
    <3>3. CASE i > Len(a)
      <4> DEFINE j == i - Len(a)
      <4>0. /\ Len(a) \in Nat /\ Len(x) \in Nat /\ i \in Nat
            /\ i < Len(a) + Len(x)
        BY <1>1, <1>2
      <4>1. /\ j \in 1..Len(x) /\ j + 1 \in 1..Len(x) /\ j \in 1..Len(x) - 1
            /\ i = Len(a) + j /\ i + 1 = Len(a) + (j + 1)
        BY <3>3, <4>0, SMTT(30)
      <4> HIDE DEF j
      <4>2. w[i] = x[j] /\ w[i + 1] = x[j + 1]
        BY <4>1, <2>x
      <4> QED
        BY <4>1, <4>2, <2>1 DEF Chained
    <3>4. i + 1 <= Len(a) \/ i = Len(a) \/ i > Len(a)
      BY <1>1, <1>2
    <3> QED
      BY <3>1, <3>2, <3>3, <3>4
  <2>4. Last(w) < to + 1 /\ OnlyCodes(t, Last(w) + 1, to)
    BY <2>1, <2>2, <1>4, <1>6
  <2> QED
    BY <2>3, <2>4 DEF Chained, w
<1> QED
  BY <1>5, <1>6

-----------------------------------------------------------------------------
(* Nothing missing: the inductive invariant                                 *)

\* How far the broadcaster has read what t wrote.
Drained(t) == IF bufC[t] = <<>> THEN pos[t] ELSE bufC[t][1][1] - 1

\* As long as its queue was never full, all that t wrote is in the history or
\* in the queue.
Piped(t) ==
  t \notin dropped =>
    /\ Linked(bufC[t], pos[t]) /\ (bufC[t] # <<>> => bufC[t][1] # <<>>)
    /\ Run(ring[t]) /\ (ring[t] # <<>> => Last(ring[t]) = Drained(t))

\* The position that the next message to the page begins with.
Coming == IF ch = <<>> THEN Drained(tail) + 1 ELSE ch[1][1]

\* The messages go on where the text ends, color codes apart.
Ahead ==
  text # <<>> => /\ ch # <<>> => ch[1] # <<>>
                 /\ Last(text) < Coming
                 /\ OnlyCodes(tail, Last(text) + 1, Coming - 1)

Seam ==
  holes = {} /\ tail \notin dropped =>
    /\ Chained(tail, text)
    /\ srv = "registered" => ch = <<>>
    /\ sock \in {"connecting", "open"} /\ srv # "loop" => text = <<>>
    /\ srv = "loop" => Linked(ch, Drained(tail)) /\ Ahead

Served == /\ srv # "none" => sock \in {"connecting", "open"}
          /\ srv = "none" => ch = <<>>

AllPiped == \A t \in Targets : Piped(t)

UnbrokenInv == Served /\ AllPiped /\ Seam

LEMMA NoneLinked == ASSUME NEW e PROVE Linked(<<>>, e)
<1>1. Len(<<>>) = 0
  OBVIOUS
<1> QED
  BY <1>1 DEF Linked

LEMMA NoneChained == ASSUME NEW t PROVE Chained(t, <<>>)
<1>1. Len(<<>>) = 0
  OBVIOUS
<1> QED
  BY <1>1 DEF Chained

LEMMA EmptyRun == Run(<<>>)
<1>1. Len(<<>>) = 0
  OBVIOUS
<1> QED
  BY <1>1 DEF Run

\* What a pipe does not say of the others it leaves as it is.
LEMMA OtherPiped ==
  ASSUME NEW u \in Targets, Piped(u), dropped \subseteq dropped',
         pos'[u] = pos[u], bufC'[u] = bufC[u], ring'[u] = ring[u]
  PROVE  Piped(u)' /\ Drained(u)' = Drained(u)
<1>1. Drained(u)' = Drained(u)
  BY DEF Drained
<1>2. ASSUME u \notin dropped' PROVE u \notin dropped
  BY <1>2
<1>3. u \notin dropped => /\ Linked(bufC[u], pos[u]) /\ (bufC[u] # <<>> => bufC[u][1] # <<>>)
    /\ Run(ring[u]) /\ (ring[u] # <<>> => Last(ring[u]) = Drained(u))
  BY DEF Piped
<1>4. Piped(u)'
  BY <1>1, <1>2, <1>3 DEF Piped
<1> QED
  BY <1>1, <1>4

\* The page sees no more of the pipes than how far its target's is drained.
LEMMA SeamStays ==
  ASSUME Served, Seam, UNCHANGED <<sock, tail, srv, ch, text, holes>>,
         dropped \subseteq dropped', tail \notin dropped' => Drained(tail)' = Drained(tail)
  PROVE  Served' /\ Seam'
<1>1. Served'
  BY DEF Served
<1>2. ASSUME holes' = {}, tail' \notin dropped' PROVE
        /\ Chained(tail', text')
        /\ srv' = "registered" => ch' = <<>>
        /\ sock' \in {"connecting", "open"} /\ srv' # "loop" => text' = <<>>
        /\ srv' = "loop" => Linked(ch', Drained(tail)') /\ Ahead'
  <2>1. holes = {} /\ tail \notin dropped /\ Drained(tail)' = Drained(tail)
    BY <1>2
  <2>2. Coming' = Coming
    BY <2>1 DEF Coming
  <2>3. Ahead' <=> Ahead
    BY <2>2 DEF Ahead
  <2> QED
    BY <2>1, <2>3 DEF Seam
<1>3. Seam'
  BY <1>2 DEF Seam
<1> QED
  BY <1>1, <1>3

\* The types of what t wrote
LEMMA PieceIs ==
  ASSUME TypeOK, NEW t \in Targets
  PROVE  /\ Len(Texts[t]) \in Nat /\ Pieces(t) = Seq(1..Len(Texts[t]))
         /\ pos[t] \in Nat /\ bufC[t] \in Seq(Pieces(t)) /\ ring[t] \in Pieces(t)
BY LengthIs DEF TypeOK, Pieces

\* A write goes on where the queue ends, or t has lost something.
LEMMA WriteUnbroken ==
  ASSUME TypeOK, UnbrokenInv, NEW t \in Targets, NEW n \in 1..MaxWrite, Write(t, n)
  PROVE  UnbrokenInv'
<1> DEFINE w == [i \in 1..n |-> pos[t] + i]
<1>1. /\ Len(Texts[t]) \in Nat /\ pos[t] \in Nat /\ n \in Nat \ {0}
      /\ pos[t] + n <= Len(Texts[t])
  BY PieceIs, Bounds DEF Write
<1>2. /\ w \in Pieces(t) /\ w # <<>> /\ Run(w)
      /\ w[1] = pos[t] + 1 /\ Last(w) = pos[t] + n
  BY <1>1, WriteRun DEF Pieces
<1> HIDE DEF w
<1>3. /\ UNCHANGED <<sock, tail, srv, ch, text, holes, ring>>
      /\ dropped \subseteq dropped' /\ tail \in Targets
      /\ Served /\ AllPiped /\ Seam
  BY DEF Write, view, TypeOK, UnbrokenInv
<1>4. pos' = [pos EXCEPT ![t] = pos[t] + n]
  BY DEF Write
<1>5. ASSUME NEW u \in Targets, u # t
      PROVE  Piped(u)' /\ Drained(u)' = Drained(u)
  <2>1. pos'[u] = pos[u] /\ bufC'[u] = bufC[u] /\ ring'[u] = ring[u]
    BY <1>4, <1>5 DEF TypeOK, Write
  <2> QED
    BY <2>1, <1>3, OtherPiped DEF AllPiped
<1>6. ASSUME t \notin dropped'
      PROVE  Piped(t)' /\ Drained(t)' = Drained(t)
  <2>1. Len(bufC[t]) < QueueCap /\ t \notin dropped
    BY <1>3, <1>6 DEF Write
  <2>2. bufC' = [bufC EXCEPT ![t] = Append(bufC[t], w)]
    BY <2>1 DEF Write, w
  <2>3. /\ pos'[t] = pos[t] + n /\ bufC'[t] = Append(bufC[t], w)
        /\ ring'[t] = ring[t]
    BY <1>3, <1>4, <2>2 DEF TypeOK
  <2>4. /\ Linked(bufC[t], pos[t]) /\ (bufC[t] # <<>> => bufC[t][1] # <<>>)
        /\ Run(ring[t]) /\ (ring[t] # <<>> => Last(ring[t]) = Drained(t))
    BY <1>3, <2>1 DEF AllPiped, Piped
  <2>5. bufC[t] \in Seq(Pieces(t))
    BY PieceIs
  <2>6. Linked(bufC'[t], pos'[t])
    BY <1>2, <2>3, <2>4, <2>5, LinkedAppend
  <2>7. /\ bufC'[t] # <<>> /\ Len(bufC[t]) \in Nat
        /\ bufC[t] = <<>> => bufC'[t][1] = w
        /\ bufC[t] # <<>> => bufC'[t][1] = bufC[t][1]
    <3>1. /\ Len(bufC[t]) \in Nat /\ Len(bufC'[t]) = Len(bufC[t]) + 1
          /\ bufC'[t][Len(bufC[t]) + 1] = w
          /\ \A i \in 1..Len(bufC[t]) : bufC'[t][i] = bufC[t][i]
          /\ bufC'[t] \in Seq(Pieces(t))
      BY <1>2, <2>3, <2>5, AppendProperties, LenProperties
    <3>2. Len(<<>>) = 0
      OBVIOUS
    <3>3. bufC[t] # <<>> => Len(bufC[t]) # 0
      BY <2>5, EmptySeq
    <3> QED
      BY <3>1, <3>2, <3>3
  <2>8. Drained(t)' = Drained(t)
    <3>1. CASE bufC[t] = <<>>
      <4>1. Drained(t)' = bufC'[t][1][1] - 1 /\ Drained(t) = pos[t]
        BY <3>1, <2>7 DEF Drained
      <4>2. bufC'[t][1][1] = pos[t] + 1
        BY <3>1, <2>7, <1>2
      <4> QED
        BY <4>1, <4>2, <1>1
    <3>2. CASE bufC[t] # <<>>
      BY <3>2, <2>7 DEF Drained
    <3> QED
      BY <3>1, <3>2
  <2>9. Piped(t)'
    BY <1>2, <2>3, <2>4, <2>6, <2>7, <2>8 DEF Piped
  <2> QED
    BY <2>8, <2>9
<1>7. AllPiped'
  <2>1. t \in dropped' => Piped(t)'
    BY DEF Piped
  <2> QED
    BY <1>5, <1>6, <2>1 DEF AllPiped
<1>8. Served' /\ Seam'
  BY <1>3, <1>5, <1>6, SeamStays
<1> QED
  BY <1>7, <1>8 DEF UnbrokenInv

\* What drain takes is what comes after the history.
LEMMA DrainPiped ==
  ASSUME TypeOK, UnbrokenInv, NEW t \in Targets, Drain(t), t \notin dropped
  PROVE  LET p == Head(bufC[t])
         IN  /\ p \in Pieces(t) /\ p # <<>> /\ Run(p) /\ p[1] \in Nat
             /\ p[1] = Drained(t) + 1 /\ Drained(t)' = Last(p) /\ Piped(t)'
<1> DEFINE p == Head(bufC[t])
           q == Tail(bufC[t])
           r == LastOf(ring[t] \o p, RingCap)
           N == Len(Texts[t])
<1>1. /\ bufC[t] \in Seq(Pieces(t)) /\ bufC[t] # <<>> /\ N \in Nat
      /\ pos[t] \in Nat /\ ring[t] \in Seq(1..N) /\ Pieces(t) = Seq(1..N)
  BY PieceIs DEF Drain
<1>2. /\ Linked(bufC[t], pos[t]) /\ bufC[t][1] # <<>>
      /\ Run(ring[t]) /\ (ring[t] # <<>> => Last(ring[t]) = Drained(t))
  BY <1>1 DEF UnbrokenInv, AllPiped, Piped
<1>3. /\ Linked(q, pos[t]) /\ Run(p) /\ p = bufC[t][1] /\ p # <<>>
      /\ q # <<>> => q[1] # <<>> /\ q[1][1] = Last(p) + 1
      /\ q = <<>> => Last(p) = pos[t]
  BY <1>1, <1>2, LinkedTail
<1>4. p \in Seq(1..N)
  BY <1>1, HeadTailProperties
<1> HIDE DEF p, q, N
<1>5. p[1] \in Nat /\ Len(p) \in Nat \ {0} /\ Last(p) = p[1] + Len(p) - 1
  BY <1>1, <1>3, <1>4, RunIs
<1>6. p[1] = Drained(t) + 1
  <2>1. Drained(t) = p[1] - 1
    BY <1>1, <1>3 DEF Drained
  <2> QED
    BY <2>1, <1>5
<1>7. r # <<>> /\ Run(r) /\ Last(r) = Last(p)
  <2>1. RingCap \in Nat \ {0}
    BY Bounds
  <2>2. ring[t] # <<>> => p[1] = Last(ring[t]) + 1
    BY <1>2, <1>6
  <2> QED
    BY <1>1, <1>2, <1>3, <1>4, <2>1, <2>2, RingRun, SMTT(30)
<1> HIDE DEF r
<1>8. bufC'[t] = q /\ ring'[t] = r /\ pos'[t] = pos[t]
  BY DEF Drain, TypeOK, p, q, r
<1>9. Drained(t)' = Last(p)
  <2>1. CASE q = <<>>
    BY <2>1, <1>3, <1>8 DEF Drained
  <2>2. CASE q # <<>>
    <3>1. Drained(t)' = q[1][1] - 1
      BY <2>2, <1>8 DEF Drained
    <3>2. q[1][1] = Last(p) + 1
      BY <2>2, <1>3
    <3> QED
      BY <3>1, <3>2, <1>5
  <2> QED
    BY <2>1, <2>2
<1>10. Piped(t)'
  BY <1>3, <1>7, <1>8, <1>9 DEF Piped
<1> QED
  BY <1>1, <1>3, <1>4, <1>5, <1>6, <1>9, <1>10 DEF p

\* A registered socket gets it after what it got before.
LEMMA DrainUnbroken ==
  ASSUME TypeOK, UnbrokenInv, NEW t \in Targets, Drain(t)
  PROVE  UnbrokenInv'
<1> DEFINE p == Head(bufC[t])
<1>1. /\ UNCHANGED <<pos, dropped, sock, tail, srv, text>> /\ tail \in Targets
      /\ Served /\ AllPiped /\ Seam
  BY DEF Drain, view, TypeOK, UnbrokenInv
<1>2. ASSUME NEW u \in Targets, u # t
      PROVE  Piped(u)' /\ Drained(u)' = Drained(u)
  <2>1. pos'[u] = pos[u] /\ bufC'[u] = bufC[u] /\ ring'[u] = ring[u]
    BY <1>1, <1>2 DEF TypeOK, Drain
  <2> QED
    BY <2>1, <1>1, <1>2, OtherPiped DEF AllPiped
<1>3. ASSUME t \notin dropped
      PROVE  /\ p \in Pieces(t) /\ p # <<>> /\ Run(p) /\ p[1] \in Nat
             /\ p[1] = Drained(t) + 1 /\ Drained(t)' = Last(p) /\ Piped(t)'
  BY <1>3, DrainPiped
<1>4. AllPiped'
  <2>1. t \in dropped => Piped(t)'
    BY <1>1 DEF Piped
  <2> QED
    BY <1>2, <1>3, <2>1 DEF AllPiped
<1> HIDE DEF p
<1>5. CASE srv = "none" \/ tail # t
  <2>1. UNCHANGED <<ch, holes>>
    BY <1>5 DEF Drain
  <2>2. CASE tail # t
    BY <2>1, <2>2, <1>1, <1>2, <1>4, SeamStays DEF UnbrokenInv
  <2>3. CASE srv = "none"
    <3>1. Served' /\ Seam'
      BY <2>1, <2>3, <1>1 DEF Served, Seam
    <3> QED
      BY <3>1, <1>4 DEF UnbrokenInv
  <2> QED
    BY <1>5, <2>2, <2>3
<1>6. CASE srv # "none" /\ tail = t
  <2>1. /\ ch' = Append(ch, p)
        /\ holes' = holes \cup (IF srv = "registered" THEN {"raced"} ELSE {})
    BY <1>6 DEF Drain, p
  <2>2. Served'
    BY <1>1, <1>6 DEF Served
  <2>3. ASSUME holes' = {}, tail' \notin dropped'
        PROVE  /\ srv = "loop" /\ Chained(tail, text)
               /\ Linked(ch', Drained(tail)') /\ Ahead'
    <3>1. /\ holes = {} /\ srv # "registered" /\ t \notin dropped /\ tail' = t
          /\ srv = "loop"
      BY <2>1, <2>3, <1>1, <1>6 DEF TypeOK
    <3>2. Chained(tail, text) /\ Linked(ch, Drained(tail)) /\ Ahead
      BY <3>1, <1>1, <1>6 DEF Seam
    <3>3. /\ p \in Pieces(tail) /\ p # <<>> /\ Run(p) /\ p[1] \in Nat
          /\ p[1] = Drained(tail) + 1 /\ Drained(tail)' = Last(p)
      BY <3>1, <1>3, <1>6
    <3>4. ch \in Seq(Pieces(tail))
      BY DEF TypeOK
    <3>5. Linked(ch', Drained(tail)')
      BY <2>1, <3>2, <3>3, <3>4, LinkedAppend
    <3>6. /\ ch' # <<>>
          /\ ch = <<>> => ch'[1] = p
          /\ ch # <<>> => ch'[1] = ch[1]
      <4>1. /\ Len(ch) \in Nat /\ Len(ch') = Len(ch) + 1
            /\ ch'[Len(ch) + 1] = p /\ \A i \in 1..Len(ch) : ch'[i] = ch[i]
            /\ ch' \in Seq(Pieces(tail))
        BY <2>1, <3>3, <3>4, AppendProperties, LenProperties
      <4>2. Len(<<>>) = 0
        OBVIOUS
      <4>3. ch # <<>> => Len(ch) # 0
        BY <3>4, EmptySeq
      <4> QED
        BY <4>1, <4>2, <4>3
    <3>7. Coming' = Coming
      BY <3>3, <3>6 DEF Coming
    <3>8. Ahead'
      BY <1>1, <3>2, <3>3, <3>6, <3>7 DEF Ahead
    <3> QED
      BY <3>1, <3>2, <3>5, <3>8
  <2>4. Seam'
    BY <1>1, <2>3 DEF Seam
  <2> QED
    BY <1>4, <2>2, <2>4 DEF UnbrokenInv
<1> QED
  BY <1>5, <1>6

\* Nothing but the page, its server and the messages moves.
LEMMA PipedStays ==
  ASSUME UnbrokenInv, UNCHANGED <<pos, bufC, ring, dropped>>
  PROVE  AllPiped' /\ \A t \in Targets : Drained(t)' = Drained(t)
<1>1. ASSUME NEW t \in Targets PROVE Piped(t)' /\ Drained(t)' = Drained(t)
  BY OtherPiped DEF UnbrokenInv, AllPiped
<1> QED
  BY <1>1 DEF AllPiped

\* The page takes the next message, and the text goes on with it.
LEMMA DeliverUnbroken ==
  ASSUME TypeOK, UnbrokenInv, Deliver
  PROVE  UnbrokenInv'
<1> DEFINE h == Head(ch)
           N == Len(Texts[tail])
<1>1. /\ sock = "open" /\ ch # <<>> /\ ch' = Tail(ch)
      /\ UNCHANGED <<pos, bufC, ring, dropped, sock, tail, srv>>
  BY DeliverCases
<1>2. /\ tail \in Targets /\ N \in Nat /\ ch \in Seq(Seq(1..N))
      /\ text \in Seq(1..N) /\ Pieces(tail) = Seq(1..N)
  BY LengthIs DEF TypeOK, Pieces
<1>3. AllPiped' /\ Drained(tail)' = Drained(tail)
  BY <1>1, <1>2, PipedStays
<1>4. Served /\ Served' /\ srv # "none"
  BY <1>1 DEF UnbrokenInv, Served
<1>5. h \in Seq(1..N)
  BY <1>1, <1>2, HeadTailProperties
<1> HIDE DEF h, N
<1>6. ASSUME holes' = {}, tail' \notin dropped'
      PROVE  /\ srv = "loop" /\ Chained(tail, text')
             /\ Linked(ch', Drained(tail)) /\ Ahead'
  <2>1. holes = {} /\ tail \notin dropped
    BY <1>1, <1>6, DeliverCases DEF Followed
  <2>2. /\ Chained(tail, text) /\ srv = "loop"
        /\ Linked(ch, Drained(tail)) /\ Ahead
    BY <1>1, <1>4, <2>1 DEF UnbrokenInv, Seam, TypeOK
  <2>3. /\ Linked(ch', Drained(tail)) /\ Run(h) /\ h = ch[1]
        /\ ch' # <<>> => ch'[1] # <<>> /\ (h # <<>> => ch'[1][1] = Last(h) + 1)
        /\ ch' = <<>> /\ h # <<>> => Last(h) = Drained(tail)
    BY <1>1, <1>2, <2>2, LinkedTail DEF h
  <2>4. CASE /\ UNCHANGED text
             /\ holes' = holes \cup (IF Head(ch) = <<>> THEN {} ELSE {"paused"})
    <3>1. h = <<>>
      BY <1>6, <2>4 DEF h
    <3>2. text = <<>>
      BY <1>1, <2>2, <2>3, <3>1 DEF Ahead
    <3> QED
      BY <2>2, <2>3, <2>4, <3>2 DEF Ahead
  <2>5. ASSUME NEW new, NEW content, NEW lines, Followed(new, content, lines)
        PROVE  Chained(tail, text') /\ Ahead'
    <3>1. text' = text \o new /\ new = Stripped(tail, h) /\ new \in Seq(1..N)
      BY <1>5, <2>5, StrippedType DEF Followed, h
    <3>2. CASE h = <<>>
      <4>1. text = <<>>
        BY <1>1, <2>2, <2>3, <3>2 DEF Ahead
      <4>2. new = <<>>
        <5>1. Len(new) = Cardinality(Kept(tail, h)) /\ \A i \in Kept(tail, h) : i \in 1..Len(h)
          BY <1>5, <3>1, StrippedType
        <5>2. Len(h) = 0
          BY <3>2
        <5>3. Kept(tail, h) = {}
          BY <5>1, <5>2
        <5>4. Len(new) = 0
          BY <5>1, <5>3, FS_EmptySet
        <5> QED
          BY <3>1, <5>4, EmptySeq
      <4>3. text' = <<>>
        BY <3>1, <4>1, <4>2
      <4> QED
        BY <4>3, NoneChained DEF Ahead
    <3>3. CASE h # <<>>
      <4>1. h[1] \in Nat /\ Last(h) \in Nat /\ h[1] <= Last(h)
        <5>1. /\ Len(h) \in Nat \ {0} /\ h[1] \in Nat
              /\ Last(h) = h[1] + Len(h) - 1
          BY <1>2, <1>5, <2>3, <3>3, RunIs
        <5> QED
          BY <5>1
      <4>2. Cleaned(tail, h[1], Last(h), new)
        BY <1>2, <1>5, <2>3, <3>1, <3>3, StrippedRun
      <4>3. text # <<>> => Last(text) < h[1] /\ OnlyCodes(tail, Last(text) + 1, h[1] - 1)
        BY <1>1, <2>2, <2>3 DEF Ahead, Coming
      <4>4. /\ Chained(tail, text')
            /\ text' # <<>> => /\ Last(text') < Last(h) + 1
                               /\ OnlyCodes(tail, Last(text') + 1, Last(h))
        BY <1>2, <2>2, <3>1, <4>1, <4>2, <4>3, ChainJoin
      <4>5. Coming' = Last(h) + 1
        <5>1. CASE ch' = <<>>
          <6>1. Coming' = Drained(tail)' + 1
            BY <5>1 DEF Coming
          <6> QED
            BY <6>1, <5>1, <1>3, <2>3, <3>3
        <5>2. CASE ch' # <<>>
          <6>1. Coming' = ch'[1][1]
            BY <5>2 DEF Coming
          <6> QED
            BY <6>1, <5>2, <2>3, <3>3
        <5> QED
          BY <5>1, <5>2
      <4>6. Coming' - 1 = Last(h)
        BY <4>1, <4>5
      <4> QED
        BY <1>1, <2>3, <4>4, <4>5, <4>6 DEF Ahead
    <3> QED
      BY <3>2, <3>3
  <2> QED
    BY <2>2, <2>3, <2>4, <2>5, DeliverCases
<1>7. Seam'
  BY <1>1, <1>3, <1>6 DEF Seam
<1> QED
  BY <1>3, <1>4, <1>7 DEF UnbrokenInv

\* A page that is opened, and one that is given its history, has no text yet.
LEMMA OthersUnbroken ==
  ASSUME TypeOK, UnbrokenInv,
         \/ \E t \in Targets : CmdTail(t)
         \/ Register \/ SendHistory \/ CutOff \/ OnOpen \/ Hide \/ Follow
  PROVE  UnbrokenInv'
<1>1. UNCHANGED <<pos, bufC, ring, dropped>>
  BY DEF CmdTail, Register, SendHistory, CutOff, OnOpen, Hide, Follow, pipe
<1>2. /\ AllPiped' /\ tail \in Targets /\ Served /\ Seam /\ AllPiped
      /\ tail' = tail => Drained(tail)' = Drained(tail)
  BY <1>1, PipedStays DEF TypeOK, UnbrokenInv
<1>3. ASSUME NEW t \in Targets, CmdTail(t) PROVE Served' /\ Seam'
  <2>1. srv' = "none" /\ ch' = <<>> /\ text' = <<>>
    BY <1>3 DEF CmdTail, NewWebsocket, Clear
  <2>2. Chained(tail', text')
    BY <2>1, NoneChained
  <2> QED
    BY <2>1, <2>2 DEF Served, Seam
<1>4. ASSUME OnOpen PROVE Served' /\ Seam'
  <2>1. sock' = "open" /\ UNCHANGED <<srv, ch, tail, holes, dropped>> /\ text' = <<>>
        /\ sock = "connecting"
    BY <1>1, <1>4 DEF OnOpen, Clear
  <2>2. Chained(tail', text') /\ Ahead'
    BY <2>1, NoneChained DEF Ahead
  <2>3. Seam'
    BY <1>2, <2>1, <2>2 DEF Seam
  <2> QED
    BY <1>2, <2>1, <2>3 DEF Served
<1>5. ASSUME Register PROVE Served' /\ Seam'
  <2>1. /\ srv = "none" /\ srv' = "registered" /\ sock \in {"connecting", "open"}
        /\ UNCHANGED <<sock, tail, ch, text, holes, dropped>>
    BY <1>1, <1>5 DEF Register, view
  <2> QED
    BY <1>2, <2>1 DEF Served, Seam
<1>6. ASSUME SendHistory PROVE Served' /\ Seam'
  <2>1. /\ srv = "registered" /\ srv' = "loop" /\ ch' = Append(ch, ring[tail])
        /\ UNCHANGED <<sock, tail, text, holes, dropped>>
    BY <1>1, <1>6 DEF SendHistory, view
  <2>2. Served'
    BY <1>2, <2>1 DEF Served
  <2>3. ASSUME holes = {}, tail \notin dropped
        PROVE  Chained(tail, text) /\ Linked(ch', Drained(tail)) /\ text = <<>>
    <3>1. ch = <<>> /\ text = <<>> /\ Chained(tail, text)
      BY <1>2, <2>1, <2>3 DEF Served, Seam
    <3>2. Run(ring[tail]) /\ (ring[tail] # <<>> => Last(ring[tail]) = Drained(tail))
      BY <1>2, <2>3 DEF AllPiped, Piped
    <3>3. ch' = <<ring[tail]>>
      BY <2>1, <3>1
    <3>4. Linked(<<ring[tail]>>, Drained(tail))
      BY <3>2, LinkedOne
    <3> QED
      BY <3>1, <3>3, <3>4
  <2>4. Seam'
    <3>1. text' = <<>> => Ahead'
      BY DEF Ahead
    <3> QED
      BY <1>2, <2>1, <2>3, <3>1 DEF Seam
  <2> QED
    BY <2>2, <2>4
<1>7. ASSUME CutOff \/ Hide PROVE Served' /\ Seam'
  <2>1. /\ sock' \notin {"connecting", "open"} /\ srv' = "none" /\ ch' = <<>>
        /\ UNCHANGED <<tail, text, holes, dropped>>
    BY <1>1, <1>7 DEF CutOff, Hide, view
  <2> QED
    BY <1>2, <2>1 DEF Served, Seam
<1>8. ASSUME Follow PROVE Served' /\ Seam'
  <2>1. UNCHANGED <<sock, tail, srv, ch, text, holes, dropped>>
    BY <1>1, <1>8 DEF Follow
  <2> QED
    BY <1>2, <2>1, SeamStays
<1> QED
  BY <1>2, <1>3, <1>4, <1>5, <1>6, <1>7, <1>8 DEF UnbrokenInv

\* Nothing is written yet.
LEMMA InitUnbroken == Init => UnbrokenInv
<1> SUFFICES ASSUME Init PROVE UnbrokenInv
  OBVIOUS
<1>1. Served
  BY DEF Init, Served
<1>2. ASSUME NEW t \in Targets PROVE Piped(t)
  <2>1. bufC[t] = <<>> /\ ring[t] = <<>>
    BY DEF Init
  <2> QED
    BY <2>1, NoneLinked, EmptyRun DEF Piped
<1>3. Seam
  BY NoneChained DEF Init, Seam
<1> QED
  BY <1>1, <1>2, <1>3 DEF UnbrokenInv, AllPiped

LEMMA UnbrokenStep == TypeOK /\ UnbrokenInv /\ [Next]_vars => UnbrokenInv'
<1> SUFFICES ASSUME TypeOK, UnbrokenInv, [Next]_vars PROVE UnbrokenInv'
  OBVIOUS
<1>1. ASSUME NEW t \in Targets, NEW n \in 1..MaxWrite, Write(t, n) PROVE UnbrokenInv'
  BY <1>1, WriteUnbroken
<1>2. ASSUME NEW t \in Targets, Drain(t) PROVE UnbrokenInv'
  BY <1>2, DrainUnbroken
<1>3. ASSUME \/ \E t \in Targets : CmdTail(t)
             \/ Register \/ SendHistory \/ CutOff \/ OnOpen \/ Hide \/ Follow
      PROVE  UnbrokenInv'
  BY <1>3, OthersUnbroken
<1>4. CASE Deliver
  BY <1>4, DeliverUnbroken
<1>5. CASE UNCHANGED vars
  <2>1. UNCHANGED <<pos, bufC, ring, dropped, sock, tail, srv, ch, text, holes>>
    BY <1>5 DEF vars, pipe, view
  <2>2. AllPiped' /\ Drained(tail)' = Drained(tail)
    BY <2>1, PipedStays DEF TypeOK
  <2> QED
    BY <2>1, <2>2, SeamStays DEF UnbrokenInv
<1> QED
  BY <1>1, <1>2, <1>3, <1>4, <1>5 DEF Next

\* Unless a queue was full, the user paused, or a message came before the
\* history, nothing but color codes is missing in the text, and nothing is
\* repeated or out of place (drain, NewChanString, processLogEvent).
THEOREM UnbrokenAlways == Spec => []Unbroken
<1>1. UnbrokenInv => Unbroken
  BY DEF UnbrokenInv, Seam, Unbroken, Chained
<1>2. Spec => []UnbrokenInv
  BY InitUnbroken, UnbrokenStep, LogTypes, PTL DEF Spec
<1> QED
  BY <1>1, <1>2, PTL
=============================================================================
