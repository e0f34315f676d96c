----------------------------- MODULE BacklogProofs -----------------------------
(* Theorems about Backlog. *)
EXTENDS Backlog, FiniteSetTheorems, SequenceTheorems, WellFoundedInduction, TLAPS

-----------------------------------------------------------------------------
(* Minima, maxima and folds *)

\* Induction on the naturals, for the members of a set.
LEMMA CountingUp ==
  ASSUME NEW G, 0 \in G, \A n \in Nat : n \in G => n + 1 \in G
  PROVE  \A n \in Nat : n \in G
<1> DEFINE Missed == Nat \ G
<1> SUFFICES ASSUME Missed # {} PROVE FALSE
  OBVIOUS
<1>1. PICK n \in Missed : \A m \in Missed : ~(<<m, n>> \in OpToRel(<, Nat))
  <2>1. Missed \subseteq Nat
    OBVIOUS
  <2>2. QED
    BY <2>1, NatLessThanWellFounded, WFMin
<1>2. n \in Nat /\ n \notin G
  OBVIOUS
<1>3. n # 0
  BY <1>2
<1>4. n - 1 \in Nat
  BY <1>2, <1>3
<1>5. n - 1 \notin G
  BY <1>2, <1>4
<1>6. <<n - 1, n>> \in OpToRel(<, Nat)
  BY <1>2, <1>4 DEF OpToRel
<1>7. QED
  BY <1>1, <1>4, <1>5, <1>6

LEMMA MaxOf ==
  ASSUME NEW n \in Nat, NEW s \in SUBSET (1 .. n), s # {}
  PROVE  Max(s) \in s /\ \A y \in s : Max(s) >= y
<1> DEFINE G == {m \in Nat : \A t \in SUBSET (1 .. m) :
                                t # {} => \E x \in t : \A y \in t : x >= y}
<1>1. 0 \in G
  <2>1. \A t \in SUBSET (1 .. 0) : t = {}
    OBVIOUS
  <2>2. QED
    BY <2>1
<1>2. ASSUME NEW m \in Nat, m \in G PROVE m + 1 \in G
  <2> SUFFICES ASSUME NEW t \in SUBSET (1 .. m + 1), t # {}
               PROVE  \E x \in t : \A y \in t : x >= y
    OBVIOUS
  <2>1. CASE m + 1 \in t
    BY <2>1
  <2>2. CASE m + 1 \notin t
    <3>1. t \in SUBSET (1 .. m)
      BY <2>2
    <3>2. QED
      BY <1>2, <3>1
  <2>3. QED
    BY <2>1, <2>2
<1>3. n \in G
  <2> HIDE DEF G
  <2>1. QED
    BY <1>1, <1>2, CountingUp
<1>4. QED
  BY <1>3 DEF Max

LEMMA MaxUpTo ==
  ASSUME NEW n \in Nat, NEW i \in 1 .. n
  PROVE  Max(1 .. i) = i /\ (1 .. i) \ {i} = 1 .. i - 1 /\ 1 .. i # {}
<1>1. 1 .. i \in SUBSET (1 .. n) /\ i \in 1 .. i
  OBVIOUS
<1>2. Max(1 .. i) \in 1 .. i /\ Max(1 .. i) >= i
  BY <1>1, MaxOf
<1>3. QED
  BY <1>2

\* h is the table that a fold of the community modules fills.
Folds(h, base, n, step) ==
  /\ h[{}] = base
  /\ \A s \in SUBSET (1 .. n) : s # {} => h[s] = step[Max(s)][h[s \ {Max(s)}]]

LEMMA SubsetRecursion ==
  ASSUME NEW D, NEW base \in D, NEW n \in Nat, NEW step \in [1 .. n -> [D -> D]]
  PROVE  \E h \in [SUBSET (1 .. n) -> D] : Folds(h, base, n, step)
<1> DEFINE Sol(m, h) == h[{}] = base /\ \A s \in SUBSET (1 .. m) :
                          s # {} => h[s] = step[Max(s)][h[s \ {Max(s)}]]
           P(m) == \E h \in [SUBSET (1 .. m) -> D] : Sol(m, h)
           G == {m \in Nat : m <= n => P(m)}
<1>1. P(0)
  <2> DEFINE h == [s \in SUBSET (1 .. 0) |-> base]
  <2>1. \A s \in SUBSET (1 .. 0) : s = {}
    OBVIOUS
  <2>2. h \in [SUBSET (1 .. 0) -> D] /\ h[{}] = base
    OBVIOUS
  <2> HIDE DEF h
  <2>3. Sol(0, h)
    BY <2>1, <2>2
  <2>4. QED
    BY <2>2, <2>3
<1>2. ASSUME NEW m \in Nat, m + 1 <= n, P(m) PROVE P(m + 1)
  <2>1. PICK h \in [SUBSET (1 .. m) -> D] : Sol(m, h)
    BY <1>2
  <2> DEFINE g == [s \in SUBSET (1 .. m + 1) |->
                     IF m + 1 \in s THEN step[m + 1][h[s \ {m + 1}]] ELSE h[s]]
  <2>2. \A s \in SUBSET (1 .. m + 1) : s \ {m + 1} \in SUBSET (1 .. m)
                                       /\ (m + 1 \notin s => s \in SUBSET (1 .. m))
    OBVIOUS
  <2>3. g \in [SUBSET (1 .. m + 1) -> D]
    <3>1. m + 1 \in 1 .. n
      BY <1>2
    <3>2. \A s \in SUBSET (1 .. m + 1) : g[s] \in D
      BY <2>2, <3>1
    <3>3. QED
      BY <3>2
  <2>4. g[{}] = base
    BY <2>1
  <2>5. ASSUME NEW s \in SUBSET (1 .. m + 1), s # {}
        PROVE  g[s] = step[Max(s)][g[s \ {Max(s)}]]
    <3>1. Max(s) \in s /\ (\A y \in s : Max(s) >= y) /\ Max(s) \in 1 .. m + 1
      <4>1. m + 1 \in Nat /\ s # {}
        BY <2>5
      <4>2. QED
        BY <4>1, MaxOf
    <3>2. s \ {Max(s)} \in SUBSET (1 .. m + 1)
      OBVIOUS
    <3>3. CASE m + 1 \in s
      <4>1. Max(s) = m + 1
        BY <3>1, <3>3
      <4>2. g[s \ {m + 1}] = h[s \ {m + 1}]
        BY <2>2
      <4>3. QED
        BY <3>3, <4>1, <4>2
    <3>4. CASE m + 1 \notin s
      <4>1. g[s] = h[s] /\ g[s \ {Max(s)}] = h[s \ {Max(s)}] /\ s \in SUBSET (1 .. m)
        BY <3>2, <3>4, <2>2
      <4>2. h[s] = step[Max(s)][h[s \ {Max(s)}]]
        BY <4>1, <2>1, <2>5
      <4>3. QED
        BY <4>1, <4>2
    <3>5. QED
      BY <3>3, <3>4
  <2>6. Sol(m + 1, g)
    BY <2>4, <2>5
  <2> HIDE DEF g, Sol
  <2>7. QED
    BY <2>3, <2>6
<1>3. P(n)
  <2> HIDE DEF P
  <2>1. 0 \in G /\ \A m \in Nat : m \in G => m + 1 \in G
    BY <1>1, <1>2
  <2>2. n \in G
    <3> HIDE DEF G
    <3>1. QED
      BY <2>1, CountingUp
  <2>3. QED
    BY <2>2
<1>4. QED
  BY <1>3 DEF Folds

LEMMA MinOf ==
  ASSUME NEW s \in SUBSET Nat, s # {}
  PROVE  Min(s) \in s /\ \A y \in s : Min(s) <= y
<1>1. PICK n \in s : \A m \in s : ~(<<m, n>> \in OpToRel(<, Nat))
  BY NatLessThanWellFounded, WFMin
<1>2. ASSUME NEW m \in s PROVE n <= m
  <2>1. n \in Nat /\ m \in Nat
    OBVIOUS
  <2>2. ~(<<m, n>> \in OpToRel(<, Nat))
    BY <1>1
  <2>3. m < n => <<m, n>> \in OpToRel(<, Nat)
    BY <2>1 DEF OpToRel
  <2>4. ~(m < n)
    BY <2>2, <2>3
  <2> QED BY <2>1, <2>4
<1> QED BY <1>2 DEF Min

-----------------------------------------------------------------------------
(* Sorted sequences of ids, and the place of a message in them *)

Rising(s)   == \A i, j \in 1 .. Len(s) : i < j => s[i] < s[j]
Climbing(s) == \A i, j \in 1 .. Len(s) : i < j => s[i] <= s[j]
Falling(s)  == \A i, j \in 1 .. Len(s) : i < j => s[i] >= s[j]

LEMMA ToSetIs ==
  ASSUME NEW S, NEW s \in Seq(S)
  PROVE  /\ ToSet(s) \subseteq S
         /\ \A x : x \in ToSet(s) <=> \E i \in 1 .. Len(s) : s[i] = x
<1>1. DOMAIN s = 1 .. Len(s) /\ \A i \in 1 .. Len(s) : s[i] \in S
  BY LenProperties, ElementOfSeq
<1> QED BY <1>1 DEF ToSet

LEMMA IndexIs ==
  ASSUME NEW rows \in Seq(Nat), NEW id \in Nat
  PROVE  /\ IndexForId(rows, id) \in 0 .. Len(rows)
         /\ \A i \in 1 .. IndexForId(rows, id) : rows[i] < id
         /\ IndexForId(rows, id) < Len(rows) => rows[IndexForId(rows, id) + 1] >= id
<1> DEFINE S == {i \in 1 .. Len(rows) : rows[i] >= id} \union {Len(rows) + 1}
<1>1. Len(rows) \in Nat /\ \A i \in 1 .. Len(rows) : rows[i] \in Nat
  BY LenProperties, ElementOfSeq
<1>2. S \in SUBSET Nat /\ S # {} /\ S \subseteq 1 .. Len(rows) + 1
  BY <1>1
<1>3. /\ \A i \in 1 .. Len(rows) : i \in S <=> rows[i] >= id
      /\ Len(rows) + 1 \in S
  BY <1>1
<1>4. IndexForId(rows, id) = Min(S) - 1
  BY DEF IndexForId
<1> HIDE DEF S
<1>5. Min(S) \in S /\ \A y \in S : Min(S) <= y
  BY <1>2, MinOf
<1>6. Min(S) \in 1 .. Len(rows) + 1
  BY <1>2, <1>5
<1>7. ASSUME NEW i \in 1 .. Min(S) - 1
      PROVE  rows[i] < id
  <2>1. i \in 1 .. Len(rows) /\ i < Min(S)
    BY <1>1, <1>6, <1>7
  <2>2. i \notin S
    BY <1>1, <1>5, <1>6, <2>1
  <2> QED BY <1>1, <1>3, <2>1, <2>2
<1>8. Min(S) - 1 < Len(rows) => rows[Min(S)] >= id
  BY <1>1, <1>3, <1>5, <1>6
<1> QED BY <1>1, <1>4, <1>6, <1>7, <1>8

LEMMA IndexIsOnly ==
  ASSUME NEW rows \in Seq(Nat), NEW id \in Nat, NEW k \in 0 .. Len(rows),
         \A i \in 1 .. k : rows[i] < id, k < Len(rows) => rows[k + 1] >= id
  PROVE  IndexForId(rows, id) = k
<1> DEFINE n == IndexForId(rows, id)
<1>1. Len(rows) \in Nat /\ \A i \in 1 .. Len(rows) : rows[i] \in Nat
  BY LenProperties, ElementOfSeq
<1>2. /\ n \in 0 .. Len(rows)
      /\ \A i \in 1 .. n : rows[i] < id
      /\ n < Len(rows) => rows[n + 1] >= id
  BY IndexIs
<1> HIDE DEF n
<1>3. ~(n < k)
  <2> SUFFICES ASSUME n < k PROVE FALSE
    OBVIOUS
  <2>1. n + 1 \in 1 .. k /\ n + 1 \in 1 .. Len(rows) /\ n < Len(rows)
    BY <1>1, <1>2
  <2> QED BY <1>1, <1>2, <2>1
<1>4. ~(k < n)
  <2> SUFFICES ASSUME k < n PROVE FALSE
    OBVIOUS
  <2>1. k + 1 \in 1 .. n /\ k + 1 \in 1 .. Len(rows) /\ k < Len(rows)
    BY <1>1, <1>2
  <2> QED BY <1>1, <1>2, <2>1
<1> QED BY <1>1, <1>2, <1>3, <1>4 DEF n

\* A group put between the k-th row and the next.
Spliced(r, rows, group, k) ==
  /\ r \in Seq(Nat) /\ Len(r) = Len(rows) + Len(group)
  /\ \A i \in 1 .. Len(r) : /\ i <= k => r[i] = rows[i]
                            /\ k < i /\ i <= k + Len(group) => r[i] = group[i - k]
                            /\ k + Len(group) < i => r[i] = rows[i - Len(group)]

LEMMA SplicedIs ==
  ASSUME NEW rows \in Seq(Nat), NEW group \in Seq(Nat), NEW k \in 0 .. Len(rows)
  PROVE  Spliced(SubSeq(rows, 1, k) \o group \o SubSeq(rows, k + 1, Len(rows)), rows, group, k)
<1> DEFINE a == SubSeq(rows, 1, k)
           c == SubSeq(rows, k + 1, Len(rows))
           n == Len(rows)
           m == Len(group)
<1>1. n \in Nat /\ m \in Nat
  BY LenProperties
<1>2. a \in Seq(Nat) /\ Len(a) = k /\ \A i \in 1 .. k : a[i] = rows[i]
  BY <1>1, SubSeqProperties
<1>3. c \in Seq(Nat) /\ Len(c) = n - k /\ \A i \in 1 .. n - k : c[i] = rows[k + i]
  BY <1>1, SubSeqProperties
<1> HIDE DEF a, c
<1>4. /\ a \o group \in Seq(Nat) /\ Len(a \o group) = k + m
      /\ \A i \in 1 .. k : (a \o group)[i] = a[i]
      /\ \A i \in 1 .. m : (a \o group)[k + i] = group[i]
  <2>1. a \o group \in Seq(Nat) /\ Len(a \o group) = Len(a) + Len(group)
    BY <1>2, ConcatProperties
  <2>2. \A i \in 1 .. Len(a) + Len(group) :
          (a \o group)[i] = IF i <= Len(a) THEN a[i] ELSE group[i - Len(a)]
    BY <1>2, ConcatProperties
  <2>3. \A i \in 1 .. m : (a \o group)[k + i] = group[i]
    <3> SUFFICES ASSUME NEW i \in 1 .. m PROVE (a \o group)[k + i] = group[i]
      OBVIOUS
    <3>1. k + i \in 1 .. Len(a) + Len(group) /\ ~(k + i <= Len(a)) /\ k + i - Len(a) = i
      BY <1>1, <1>2
    <3>2. (a \o group)[k + i] = group[k + i - Len(a)]
      BY <2>2, <3>1
    <3> QED BY <3>1, <3>2
  <2>4. \A i \in 1 .. k : (a \o group)[i] = a[i]
    BY <1>1, <1>2, <2>2
  <2> QED BY <1>2, <2>1, <2>3, <2>4
<1> DEFINE ag == a \o group
<1> HIDE DEF ag
<1>5. ag \in Seq(Nat) /\ Len(ag) = k + m
  BY <1>4 DEF ag
<1> DEFINE r == ag \o c
<1>6. /\ r \in Seq(Nat) /\ Len(r) = n + m
      /\ \A i \in 1 .. k + m : r[i] = ag[i]
      /\ \A i \in 1 .. n - k : r[k + m + i] = c[i]
  <2>1. ag \o c \in Seq(Nat) /\ Len(ag \o c) = Len(ag) + Len(c)
    BY <1>3, <1>5, ConcatProperties
  <2>2. \A i \in 1 .. Len(ag) + Len(c) :
          (ag \o c)[i] = IF i <= Len(ag) THEN ag[i] ELSE c[i - Len(ag)]
    BY <1>3, <1>5, ConcatProperties
  <2>3. \A i \in 1 .. n - k : (ag \o c)[k + m + i] = c[i]
    <3> SUFFICES ASSUME NEW i \in 1 .. n - k PROVE (ag \o c)[k + m + i] = c[i]
      OBVIOUS
    <3>1. k + m + i \in 1 .. Len(ag) + Len(c) /\ ~(k + m + i <= Len(ag))
          /\ k + m + i - Len(ag) = i
      BY <1>1, <1>3, <1>5
    <3>2. (ag \o c)[k + m + i] = c[k + m + i - Len(ag)]
      BY <2>2, <3>1
    <3> QED BY <3>1, <3>2
  <2>4. \A i \in 1 .. k + m : (ag \o c)[i] = ag[i]
    BY <1>1, <1>3, <1>5, <2>2
  <2>5. Len(ag \o c) = n + m
    BY <1>1, <1>3, <1>5, <2>1
  <2> QED BY <2>1, <2>3, <2>4, <2>5
<1>7. r = SubSeq(rows, 1, k) \o group \o SubSeq(rows, k + 1, Len(rows))
  BY DEF r, ag, a, c
<1> HIDE DEF r, n, m
<1>8. ASSUME NEW i \in 1 .. Len(r)
      PROVE  /\ i <= k => r[i] = rows[i]
             /\ k < i /\ i <= k + m => r[i] = group[i - k]
             /\ k + m < i => r[i] = rows[i - m]
  <2>1. CASE i <= k
    <3>1. i \in 1 .. k /\ i \in 1 .. k + m
      BY <1>1, <1>6, <2>1
    <3>2. r[i] = ag[i]
      BY <1>6, <3>1
    <3>3. ag[i] = a[i]
      BY <1>4, <3>1 DEF ag
    <3>4. a[i] = rows[i]
      BY <1>2, <3>1
    <3>5. r[i] = rows[i]
      BY <3>2, <3>3, <3>4
    <3>6. ~(k < i) /\ ~(k + m < i)
      BY <1>1, <2>1, <3>1
    <3> QED BY <3>5, <3>6
  <2>2. CASE k < i /\ i <= k + m
    <3>1. i \in 1 .. k + m /\ i - k \in 1 .. m /\ k + (i - k) = i
      BY <1>1, <1>6, <2>2
    <3>2. r[i] = ag[i] /\ ag[k + (i - k)] = group[i - k]
      BY <1>4, <1>6, <3>1 DEF ag
    <3> QED BY <1>1, <2>2, <3>1, <3>2
  <2>3. CASE k + m < i
    <3>1. i - m - k \in 1 .. n - k /\ k + m + (i - m - k) = i /\ k + (i - m - k) = i - m
      BY <1>1, <1>6, <2>3
    <3>2. r[k + m + (i - m - k)] = c[i - m - k] /\ c[i - m - k] = rows[k + (i - m - k)]
      BY <1>3, <1>6, <3>1
    <3> QED BY <1>1, <2>3, <3>1, <3>2
  <2> QED BY <1>1, <1>6, <2>1, <2>2, <2>3
<1> QED BY <1>1, <1>6, <1>7, <1>8 DEF Spliced, n, m

LEMMA SplicedSet ==
  ASSUME NEW rows \in Seq(Nat), NEW group \in Seq(Nat), NEW k \in 0 .. Len(rows),
         NEW r, Spliced(r, rows, group, k)
  PROVE  ToSet(r) = ToSet(rows) \union ToSet(group)
<1> DEFINE n == Len(rows)
           m == Len(group)
<1>1. n \in Nat /\ m \in Nat /\ r \in Seq(Nat) /\ Len(r) = n + m
  BY LenProperties DEF Spliced
<1>2. \A i \in 1 .. Len(r) : /\ i <= k => r[i] = rows[i]
                             /\ k < i /\ i <= k + m => r[i] = group[i - k]
                             /\ k + m < i => r[i] = rows[i - m]
  BY DEF Spliced
<1> HIDE DEF n, m
<1>3. ASSUME NEW x \in ToSet(r) PROVE x \in ToSet(rows) \union ToSet(group)
  <2>1. PICK i \in 1 .. Len(r) : r[i] = x
    BY <1>1, ToSetIs
  <2>2. CASE i <= k
    <3>1. i \in 1 .. n
      BY <1>1, <2>2 DEF n
    <3> QED BY <1>2, <2>1, <2>2, <3>1, ToSetIs DEF n
  <2>3. CASE k < i /\ i <= k + m
    <3>1. i - k \in 1 .. m
      BY <1>1, <2>3
    <3> QED BY <1>2, <2>1, <2>3, <3>1, ToSetIs DEF m
  <2>4. CASE k + m < i
    <3>1. i - m \in 1 .. n
      BY <1>1, <2>4
    <3> QED BY <1>2, <2>1, <2>4, <3>1, ToSetIs DEF n
  <2> QED BY <1>1, <2>2, <2>3, <2>4
<1>4. ASSUME NEW x \in ToSet(rows) PROVE x \in ToSet(r)
  <2>1. PICK i \in 1 .. n : rows[i] = x
    BY ToSetIs DEF n
  <2>2. CASE i <= k
    <3>1. i \in 1 .. Len(r) /\ r[i] = x
      BY <1>1, <1>2, <2>1, <2>2
    <3> QED BY <1>1, <3>1, ToSetIs
  <2>3. CASE k < i
    <3>1. i + m \in 1 .. Len(r) /\ k + m < i + m /\ (i + m) - m = i
      BY <1>1, <2>3
    <3>2. r[i + m] = x
      BY <1>2, <2>1, <3>1
    <3> QED BY <1>1, <3>1, <3>2, ToSetIs
  <2> QED BY <1>1, <2>2, <2>3
<1>5. ASSUME NEW x \in ToSet(group) PROVE x \in ToSet(r)
  <2>1. PICK i \in 1 .. m : group[i] = x
    BY ToSetIs DEF m
  <2>2. k + i \in 1 .. Len(r) /\ k < k + i /\ k + i <= k + m /\ (k + i) - k = i
    BY <1>1, <2>1 DEF n
  <2>3. r[k + i] = x
    BY <1>2, <2>1, <2>2
  <2> QED BY <1>1, <2>2, <2>3, ToSetIs
<1> QED BY <1>3, <1>4, <1>5

\* The assertions of insertMessageGroup: a group that lies between two rows.
LEMMA InsertRises ==
  ASSUME NEW rows \in Seq(Nat), Rising(rows), NEW group \in Seq(Nat), group # << >>, Rising(group),
         IndexForId(rows, group[1]) < Len(rows)
           => group[Len(group)] < rows[IndexForId(rows, group[1]) + 1]
  PROVE  /\ InsertMessageGroup(rows, group) \in Seq(Nat)
         /\ Rising(InsertMessageGroup(rows, group))
         /\ ToSet(InsertMessageGroup(rows, group)) = ToSet(rows) \union ToSet(group)
<1> DEFINE k == IndexForId(rows, group[1])
           r == InsertMessageGroup(rows, group)
           n == Len(rows)
           m == Len(group)
<1>1. n \in Nat /\ m \in Nat \ {0} /\ (\A i \in 1 .. n : rows[i] \in Nat)
      /\ \A i \in 1 .. m : group[i] \in Nat
  BY LenProperties, ElementOfSeq, EmptySeq
<1>2. group[1] \in Nat /\ Head(group) = group[1]
  BY <1>1
<1>3. k \in 0 .. n /\ (\A i \in 1 .. k : rows[i] < group[1])
  BY <1>2, IndexIs
<1>4. r = SubSeq(rows, 1, k) \o group \o SubSeq(rows, k + 1, Len(rows))
  BY <1>2 DEF InsertMessageGroup
<1> HIDE DEF k, r
<1>5. Spliced(r, rows, group, k)
  BY <1>3, <1>4, SplicedIs
<1>6. r \in Seq(Nat) /\ ToSet(r) = ToSet(rows) \union ToSet(group)
  <2>1. ToSet(r) = ToSet(rows) \union ToSet(group)
    BY <1>3, <1>5, SplicedSet
  <2> QED BY <1>5, <2>1 DEF Spliced
<1>7. /\ Len(r) = n + m
      /\ \A i \in 1 .. Len(r) : /\ i <= k => r[i] = rows[i]
                                /\ k < i /\ i <= k + m => r[i] = group[i - k]
                                /\ k + m < i => r[i] = rows[i - m]
  BY <1>5 DEF Spliced
<1>8. k < n => group[m] < rows[k + 1]
  BY DEF k
<1>9. (\A i, j \in 1 .. n : i < j => rows[i] < rows[j])
      /\ \A i, j \in 1 .. m : i < j => group[i] < group[j]
  BY DEF Rising
<1> HIDE DEF n, m
<1>10. ASSUME NEW i \in 1 .. Len(r), NEW j \in 1 .. Len(r), i < j
       PROVE  r[i] < r[j]
  <2>1. i \in Nat /\ j \in Nat /\ k \in Nat /\ 1 <= i /\ j <= n + m
    BY <1>1, <1>3, <1>7
  <2>2. CASE i <= k
    <3>1. i \in 1 .. n /\ i \in 1 .. k
      BY <1>1, <1>3, <2>1, <2>2
    <3>2. r[i] = rows[i] /\ rows[i] < group[1] /\ rows[i] \in Nat
      BY <1>1, <1>3, <1>7, <2>2, <3>1
    <3>3. CASE j <= k
      <4>1. j \in 1 .. n /\ r[j] = rows[j]
        BY <1>1, <1>3, <1>7, <2>1, <3>3
      <4> QED BY <1>9, <1>10, <3>1, <3>2, <4>1
    <3>4. CASE k < j /\ j <= k + m
      <4>1. j - k \in 1 .. m /\ 1 \in 1 .. m
        BY <1>1, <2>1, <3>4
      <4>2. r[j] = group[j - k]
        BY <1>7, <3>4
      <4>3. 1 < j - k => group[1] < group[j - k]
        BY <1>9, <4>1
      <4>4. group[1] <= group[j - k] /\ group[j - k] \in Nat
        BY <1>1, <1>2, <4>1, <4>3
      <4> QED BY <1>2, <3>2, <4>2, <4>4
    <3>5. CASE k + m < j
      <4>1. j - m \in 1 .. n /\ i < j - m
        BY <1>1, <2>1, <2>2, <3>5
      <4>2. r[j] = rows[j - m]
        BY <1>7, <3>5
      <4> QED BY <1>9, <3>1, <3>2, <4>1, <4>2
    <3> QED BY <1>1, <2>1, <3>3, <3>4, <3>5
  <2>3. CASE k < i /\ i <= k + m
    <3>1. i - k \in 1 .. m /\ m \in 1 .. m
      BY <1>1, <2>1, <2>3
    <3>2. r[i] = group[i - k] /\ group[i - k] \in Nat /\ group[m] \in Nat
      BY <1>1, <1>7, <2>3, <3>1
    <3>3. CASE j <= k + m
      <4>1. j - k \in 1 .. m /\ i - k < j - k /\ k < j
        BY <1>1, <1>10, <2>1, <2>3, <3>3
      <4>2. r[j] = group[j - k]
        BY <1>7, <3>3, <4>1
      <4> QED BY <1>9, <3>1, <3>2, <4>1, <4>2
    <3>4. CASE k + m < j
      <4>1. j - m \in 1 .. n /\ k < n /\ k + 1 \in 1 .. n /\ k + 1 <= j - m
        BY <1>1, <2>1, <3>4
      <4>2. r[j] = rows[j - m] /\ rows[j - m] \in Nat /\ rows[k + 1] \in Nat
        BY <1>1, <1>7, <3>4, <4>1
      <4>3. i - k < m => group[i - k] < group[m]
        BY <1>9, <3>1
      <4>4. group[i - k] <= group[m]
        <5>1. i - k < m \/ i - k = m
          BY <1>1, <2>1, <3>1
        <5> QED BY <3>2, <4>3, <5>1
      <4>5. k + 1 < j - m => rows[k + 1] < rows[j - m]
        BY <1>9, <4>1
      <4>6. rows[k + 1] <= rows[j - m]
        BY <1>1, <2>1, <4>1, <4>2, <4>5
      <4>7. group[m] < rows[k + 1]
        BY <1>8, <4>1
      <4>8. \A w, x, y, z \in Nat : w <= x /\ x < y /\ y <= z => w < z
        OBVIOUS
      <4>9. group[i - k] < rows[j - m]
        BY <3>2, <4>2, <4>4, <4>6, <4>7, <4>8
      <4> QED BY <3>2, <4>2, <4>9
    <3> QED BY <1>1, <2>1, <3>3, <3>4
  <2>4. CASE k + m < i
    <3>1. i - m \in 1 .. n /\ j - m \in 1 .. n /\ i - m < j - m /\ k + m < j
      BY <1>1, <1>10, <2>1, <2>4
    <3>2. r[i] = rows[i - m] /\ r[j] = rows[j - m]
      BY <1>7, <2>4, <3>1
    <3> QED BY <1>9, <3>1, <3>2
  <2> QED BY <1>1, <2>1, <2>2, <2>3, <2>4
<1> QED BY <1>6, <1>10 DEF Rising, r

\* A step of the insertion sort.
LEMMA InsertedClimbs ==
  ASSUME NEW rows \in Seq(Nat), NEW id \in Nat
  PROVE  /\ Inserted(rows, id) \in Seq(Nat)
         /\ Len(Inserted(rows, id)) = Len(rows) + 1
         /\ Climbing(rows) => Climbing(Inserted(rows, id))
         /\ ToSet(Inserted(rows, id)) = ToSet(rows) \union {id}
<1> DEFINE k == IndexForId(rows, id)
           r == Inserted(rows, id)
           n == Len(rows)
           g == <<id>>
<1>1. n \in Nat /\ \A i \in 1 .. n : rows[i] \in Nat
  BY LenProperties, ElementOfSeq
<1>2. g \in Seq(Nat) /\ Len(g) = 1 /\ g[1] = id /\ Head(g) = id /\ ToSet(g) = {id}
  BY DEF ToSet
<1>3. k \in 0 .. n /\ (\A i \in 1 .. k : rows[i] < id) /\ (k < n => rows[k + 1] >= id)
  BY IndexIs
<1>4. r = SubSeq(rows, 1, k) \o g \o SubSeq(rows, k + 1, Len(rows))
  BY <1>2 DEF Inserted, InsertMessageGroup
<1> HIDE DEF k, r, g
<1>5. Spliced(r, rows, g, k)
  BY <1>2, <1>3, <1>4, SplicedIs
<1>6. r \in Seq(Nat) /\ ToSet(r) = ToSet(rows) \union {id}
  <2>1. ToSet(r) = ToSet(rows) \union ToSet(g)
    BY <1>2, <1>3, <1>5, SplicedSet
  <2> QED BY <1>2, <1>5, <2>1 DEF Spliced
<1>7. /\ Len(r) = n + 1
      /\ \A i \in 1 .. Len(r) : /\ i <= k => r[i] = rows[i]
                                /\ i = k + 1 => r[i] = id
                                /\ k + 1 < i => r[i] = rows[i - 1]
  <2>1. Len(r) = n + 1
    BY <1>2, <1>5 DEF Spliced
  <2>2. ASSUME NEW i \in 1 .. Len(r)
        PROVE  /\ i <= k => r[i] = rows[i]
               /\ k < i /\ i <= k + 1 => r[i] = g[i - k]
               /\ k + 1 < i => r[i] = rows[i - 1]
    BY <1>2, <1>5 DEF Spliced
  <2>3. ASSUME NEW i \in 1 .. Len(r), i = k + 1
        PROVE  r[i] = id
    <3>1. k < i /\ i <= k + 1 /\ i - k = 1
      BY <1>1, <1>3, <2>3
    <3> QED BY <1>2, <2>2, <3>1
  <2> QED BY <2>1, <2>2, <2>3
<1> HIDE DEF n
<1>8. ASSUME Climbing(rows), NEW i \in 1 .. Len(r), NEW j \in 1 .. Len(r), i < j
      PROVE  r[i] <= r[j]
  <2>1. \A x, y \in 1 .. n : x < y => rows[x] <= rows[y]
    BY <1>8 DEF Climbing, n
  <2>2. CASE i <= k
    <3>1. i \in 1 .. n /\ r[i] = rows[i] /\ rows[i] < id
      BY <1>1, <1>3, <1>7, <2>2
    <3>2. CASE j <= k
      BY <1>1, <1>3, <1>7, <1>8, <2>1, <3>1, <3>2
    <3>3. CASE j = k + 1
      BY <1>1, <1>3, <1>7, <3>1, <3>3
    <3>4. CASE k + 1 < j
      <4>1. j - 1 \in 1 .. n /\ r[j] = rows[j - 1] /\ i < j - 1
        BY <1>1, <1>3, <1>7, <2>2, <3>4
      <4> QED BY <2>1, <3>1, <4>1
    <3> QED BY <1>1, <1>3, <3>2, <3>3, <3>4
  <2>3. CASE i = k + 1
    <3>1. j - 1 \in 1 .. n /\ r[j] = rows[j - 1] /\ k < n /\ k + 1 \in 1 .. n /\ r[i] = id
      BY <1>1, <1>3, <1>7, <1>8, <2>3
    <3>2. rows[k + 1] >= id /\ (k + 1 < j - 1 => rows[k + 1] <= rows[j - 1])
      BY <1>1, <1>3, <2>1, <3>1
    <3> QED BY <1>1, <1>3, <1>8, <2>3, <3>1, <3>2
  <2>4. CASE k + 1 < i
    <3>1. i - 1 \in 1 .. n /\ j - 1 \in 1 .. n /\ r[i] = rows[i - 1] /\ r[j] = rows[j - 1]
          /\ i - 1 < j - 1
      BY <1>1, <1>3, <1>7, <1>8, <2>4
    <3> QED BY <2>1, <3>1
  <2> QED BY <1>1, <1>3, <2>2, <2>3, <2>4
<1> QED BY <1>6, <1>7, <1>8 DEF Climbing, r, n

-----------------------------------------------------------------------------
(* qSort *)

\* The insertions of a sort, one after the other.
Sorts(f, q) ==
  /\ f \in [0 .. Len(q) -> Seq(Nat)]
  /\ f[0] = << >> /\ f[Len(q)] = Ascending(q)
  /\ \A i \in 1 .. Len(q) : f[i] = Inserted(f[i - 1], q[i])

LEMMA AscendingFold ==
  ASSUME NEW q \in Seq(Nat)
  PROVE  \E f : Sorts(f, q)
<1> DEFINE n == Len(q)
           step == [i \in 1 .. n |-> [d \in Seq(Nat) |-> Inserted(d, q[i])]]
           Sol(h) == h = [s \in SUBSET (1 .. n) |->
                            IF s = {} THEN << >> ELSE Inserted(h[s \ {Max(s)}], q[Max(s)])]
           iter == CHOOSE h : Sol(h)
<1>1. n \in Nat /\ DOMAIN q = 1 .. n /\ (\A i \in 1 .. n : q[i] \in Nat) /\ << >> \in Seq(Nat)
  BY LenProperties, ElementOfSeq, EmptySeq
<1>2. Ascending(q) = iter[1 .. n]
  BY <1>1 DEF Ascending, FoldLeft, MapThenFoldSet
<1>3. /\ step \in [1 .. n -> [Seq(Nat) -> Seq(Nat)]]
      /\ \A i \in 1 .. n : \A d \in Seq(Nat) : step[i][d] = Inserted(d, q[i])
  BY <1>1, InsertedClimbs
<1> HIDE DEF n, step
<1>4. PICK h \in [SUBSET (1 .. n) -> Seq(Nat)] : Folds(h, << >>, n, step)
  BY <1>1, <1>3, SubsetRecursion
<1>5. \A s \in SUBSET (1 .. n) : s # {} => h[s] = Inserted(h[s \ {Max(s)}], q[Max(s)])
  <2> SUFFICES ASSUME NEW s \in SUBSET (1 .. n), s # {}
               PROVE  h[s] = Inserted(h[s \ {Max(s)}], q[Max(s)])
    OBVIOUS
  <2>1. Max(s) \in 1 .. n
    BY <1>1, MaxOf
  <2>2. h[s \ {Max(s)}] \in Seq(Nat)
    OBVIOUS
  <2> QED BY <1>3, <1>4, <2>1, <2>2 DEF Folds
<1>6. Sol(h)
  BY <1>4, <1>5 DEF Folds
<1>7. Sol(iter)
  <2> HIDE DEF Sol
  <2> QED BY <1>6
<1> HIDE DEF iter
<1>8. iter[{}] = << >> /\ \A i \in 1 .. n : iter[1 .. i] = Inserted(iter[1 .. i - 1], q[i])
  <2>1. iter[{}] = << >>
    BY <1>7
  <2>2. ASSUME NEW i \in 1 .. n PROVE iter[1 .. i] = Inserted(iter[1 .. i - 1], q[i])
    <3>1. Max(1 .. i) = i /\ (1 .. i) \ {i} = 1 .. i - 1 /\ 1 .. i # {}
      BY <1>1, MaxUpTo
    <3>2. 1 .. i \in SUBSET (1 .. n)
      BY <1>1
    <3>3. iter[1 .. i] = Inserted(iter[(1 .. i) \ {Max(1 .. i)}], q[Max(1 .. i)])
      BY <1>7, <3>1, <3>2
    <3> QED BY <3>1, <3>3
  <2> QED BY <2>1, <2>2
<1> DEFINE f == [i \in 0 .. n |-> iter[1 .. i]]
           G == {i \in Nat : i <= n => f[i] \in Seq(Nat)}
<1>9. f[0] = << >> /\ (\A i \in 1 .. n : f[i] = Inserted(f[i - 1], q[i])) /\ f[n] = iter[1 .. n]
  BY <1>1, <1>8
<1>10. \A i \in Nat : i \in G
  <2>1. 0 \in G
    BY <1>1, <1>9
  <2>2. ASSUME NEW i \in Nat, i \in G PROVE i + 1 \in G
    <3> SUFFICES ASSUME i + 1 <= n PROVE f[i + 1] \in Seq(Nat)
      OBVIOUS
    <3>1. i + 1 \in 1 .. n /\ (i + 1) - 1 = i /\ i <= n
      BY <1>1
    <3>2. f[i] \in Seq(Nat)
      BY <2>2, <3>1
    <3>3. f[i + 1] = Inserted(f[i], q[i + 1])
      <4> HIDE DEF f
      <4> QED BY <1>9, <3>1
    <3> HIDE DEF f
    <3> QED BY <1>1, <3>1, <3>2, <3>3, InsertedClimbs
  <2> HIDE DEF G
  <2> QED BY <2>1, <2>2, CountingUp
<1>11. f \in [0 .. n -> Seq(Nat)]
  <2>1. \A i \in 0 .. n : i \in Nat /\ i <= n
    BY <1>1
  <2>2. \A i \in 0 .. n : f[i] \in Seq(Nat)
    <3> HIDE DEF f
    <3> QED BY <1>10, <2>1
  <2> QED BY <2>2
<1> HIDE DEF f
<1> QED BY <1>2, <1>9, <1>11 DEF n, Sorts

LEMMA AscendingIs ==
  ASSUME NEW q \in Seq(Nat)
  PROVE  /\ Ascending(q) \in Seq(Nat)
         /\ Climbing(Ascending(q))
         /\ Len(Ascending(q)) = Len(q)
         /\ ToSet(Ascending(q)) = ToSet(q)
<1> DEFINE n == Len(q)
<1>1. n \in Nat /\ \A i \in 1 .. n : q[i] \in Nat
  BY LenProperties, ElementOfSeq
<1>2. PICK f : Sorts(f, q)
  BY AscendingFold
<1>3. /\ f \in [0 .. n -> Seq(Nat)] /\ f[0] = << >> /\ f[n] = Ascending(q)
      /\ \A i \in 1 .. n : f[i] = Inserted(f[i - 1], q[i])
  BY <1>2 DEF Sorts
<1> DEFINE Done(i) == Climbing(f[i]) /\ Len(f[i]) = i /\ ToSet(f[i]) = {q[j] : j \in 1 .. i}
           G == {i \in Nat : i <= n => Done(i)}
<1> HIDE DEF n
<1>4. 0 \in G
  <2>1. Climbing(<< >>) /\ Len(<< >>) = 0 /\ ToSet(<< >>) = {}
    BY DEF Climbing, ToSet
  <2>2. {q[j] : j \in 1 .. 0} = {}
    OBVIOUS
  <2> QED BY <1>3, <2>1, <2>2
<1>5. ASSUME NEW i \in Nat, i \in G PROVE i + 1 \in G
  <2> SUFFICES ASSUME i + 1 <= n PROVE Done(i + 1)
    OBVIOUS
  <2>1. i + 1 \in 1 .. n /\ i \in 0 .. n /\ i <= n /\ (i + 1) - 1 = i
    BY <1>1
  <2>2. f[i] \in Seq(Nat) /\ Done(i) /\ q[i + 1] \in Nat
    BY <1>1, <1>3, <1>5, <2>1
  <2>3. f[i + 1] = Inserted(f[i], q[i + 1])
    BY <1>3, <2>1
  <2>4. Climbing(f[i + 1]) /\ Len(f[i + 1]) = i + 1 /\ ToSet(f[i + 1]) = ToSet(f[i]) \union {q[i + 1]}
    BY <2>2, <2>3, InsertedClimbs
  <2>5. {q[j] : j \in 1 .. i + 1} = {q[j] : j \in 1 .. i} \union {q[i + 1]}
    <3>1. 1 .. i + 1 = (1 .. i) \union {i + 1}
      OBVIOUS
    <3> QED BY <3>1
  <2> QED BY <2>2, <2>4, <2>5
<1>6. Done(n)
  <2> HIDE DEF G, Done
  <2>1. n \in G
    BY <1>1, <1>4, <1>5, CountingUp
  <2> QED BY <1>1, <2>1 DEF G
<1>7. ToSet(q) = {q[j] : j \in 1 .. n}
  BY LenProperties DEF ToSet, n
<1>8. f[n] \in Seq(Nat)
  BY <1>1, <1>3
<1> QED BY <1>3, <1>6, <1>7, <1>8 DEF n

\* A finite set of ids from the newest to the oldest.
LEMMA SetToSeqIs ==
  ASSUME NEW S, IsFiniteSet(S), NEW T, S \subseteq T
  PROVE  SetToSeq(S) \in Seq(T) /\ ToSet(SetToSeq(S)) = S
<1> DEFINE c == Cardinality(S)
           q == SetToSeq(S)
<1>1. c \in Nat /\ ExistsBijection(1 .. c, S)
  BY FS_CardinalityType
<1>2. \E f \in [1 .. c -> S] : IsInjective(f)
  BY <1>1 DEF ExistsBijection, Bijection, Injection
<1>3. q \in [1 .. c -> S] /\ IsInjective(q)
  BY <1>2 DEF SetToSeq
<1> HIDE DEF q
<1>4. q \in Surjection(1 .. c, S)
  <2>1. q \in Injection(1 .. c, S)
    BY <1>3 DEF Injection
  <2>2. Cardinality(1 .. c) = c
    BY <1>1, FS_Interval
  <2> HIDE DEF c
  <2>3. Cardinality(1 .. c) = Cardinality(S)
    BY <2>2 DEF c
  <2>4. IsFiniteSet(1 .. c)
    BY <1>1, FS_Interval
  <2> QED BY <2>1, <2>3, <2>4, FS_Injection
<1>5. q \in Seq(S) /\ q \in Seq(T)
  BY <1>1, <1>3, SeqDef
<1>6. ToSet(q) = S
  BY <1>3, <1>4 DEF Surjection, ToSet
<1> QED BY <1>5, <1>6 DEF q

LEMMA DescendingIs ==
  ASSUME NEW S \in SUBSET Nat, IsFiniteSet(S)
  PROVE  Descending(S) \in Seq(Nat) /\ Falling(Descending(S)) /\ ToSet(Descending(S)) = S
<1> DEFINE q == SetToSeq(S)
           a == Ascending(q)
           n == Len(a)
           d == Descending(S)
<1>1. q \in Seq(Nat) /\ ToSet(q) = S
  BY SetToSeqIs
<1> HIDE DEF q
<1>2. a \in Seq(Nat) /\ Climbing(a) /\ ToSet(a) = S
  BY <1>1, AscendingIs
<1>3. d = [i \in 1 .. n |-> a[n - i + 1]]
  BY DEF Descending, Reverse, q
<1> HIDE DEF a, d
<1>4. n \in Nat /\ \A i \in 1 .. n : a[i] \in Nat
  BY <1>2, LenProperties, ElementOfSeq
<1> HIDE DEF n
<1>5. \A i \in 1 .. n : n - i + 1 \in 1 .. n /\ d[i] = a[n - i + 1]
  BY <1>3, <1>4
<1>6. d \in Seq(Nat) /\ Len(d) = n
  <2>1. d \in [1 .. n -> Nat]
    BY <1>3, <1>4, <1>5
  <2> QED BY <1>4, <2>1, SeqDef
<1>7. ASSUME NEW i \in 1 .. n, NEW j \in 1 .. n, i < j
      PROVE  d[i] >= d[j]
  <2>1. n - j + 1 < n - i + 1
    BY <1>4, <1>7
  <2>2. a[n - j + 1] <= a[n - i + 1]
    BY <1>2, <1>5, <2>1 DEF Climbing, n
  <2>3. a[n - j + 1] \in Nat /\ a[n - i + 1] \in Nat
    BY <1>4, <1>5
  <2> QED BY <1>5, <2>2, <2>3
<1>8. ToSet(d) = ToSet(a)
  <2>1. ASSUME NEW x \in ToSet(d) PROVE x \in ToSet(a)
    <3>1. PICK i \in 1 .. n : d[i] = x
      BY <1>6, ToSetIs
    <3> QED BY <1>2, <1>5, <3>1, ToSetIs DEF n
  <2>2. ASSUME NEW x \in ToSet(a) PROVE x \in ToSet(d)
    <3>1. PICK i \in 1 .. n : a[i] = x
      BY <1>2, ToSetIs DEF n
    <3>2. n - i + 1 \in 1 .. n /\ n - (n - i + 1) + 1 = i
      BY <1>4
    <3>3. d[n - i + 1] = a[i]
      BY <1>5, <3>2
    <3> QED BY <1>6, <3>1, <3>2, <3>3, ToSetIs
  <2> QED BY <2>1, <2>2
<1> QED BY <1>2, <1>6, <1>7, <1>8 DEF Falling, d

-----------------------------------------------------------------------------
(* insertMessagesGracefully *)

LEMMA FromTopIs ==
  ASSUME NEW list \in Seq(Nat), list # << >>, Climbing(list) \/ Falling(list)
  PROVE  /\ FromTop(list) \in Seq(Nat) /\ Falling(FromTop(list))
         /\ Len(FromTop(list)) = Len(list) /\ ToSet(FromTop(list)) = ToSet(list)
<1> DEFINE n == Len(list)
           d == Reverse(list)
<1>1. n \in Nat \ {0} /\ \A i \in 1 .. n : list[i] \in Nat
  BY LenProperties, ElementOfSeq, EmptySeq
<1>2. 1 \in 1 .. n /\ n \in 1 .. n /\ InOrder(list) = (list[1] < list[n])
  BY <1>1 DEF InOrder, Last
<1>3. CASE InOrder(list)
  <2>1. Climbing(list)
    <3> SUFFICES ASSUME Falling(list) PROVE Climbing(list)
      OBVIOUS
    <3>1. 1 < n => list[1] >= list[n]
      BY <1>2 DEF Falling
    <3>2. list[1] \in Nat /\ list[n] \in Nat
      BY <1>1, <1>2
    <3>3. list[1] < list[n]
      BY <1>2, <1>3
    <3> HIDE DEF n
    <3>4. ~(1 < n)
      BY <3>1, <3>2, <3>3
    <3>5. n = 1
      BY <1>1, <3>4
    <3> QED BY <3>2, <3>3, <3>5
  <2>2. d = [i \in 1 .. n |-> list[n - i + 1]]
    BY DEF Reverse
  <2> HIDE DEF n, d
  <2>3. \A i \in 1 .. n : n - i + 1 \in 1 .. n /\ d[i] = list[n - i + 1]
    BY <1>1, <2>2
  <2>4. d \in Seq(Nat) /\ Len(d) = n
    <3>1. d \in [1 .. n -> Nat]
      BY <1>1, <2>2, <2>3
    <3> QED BY <1>1, <3>1, SeqDef
  <2>5. ASSUME NEW i \in 1 .. n, NEW j \in 1 .. n, i < j
        PROVE  d[i] >= d[j]
    <3>1. n - j + 1 < n - i + 1
      BY <1>1, <2>5
    <3>2. list[n - j + 1] <= list[n - i + 1]
      BY <2>1, <2>3, <3>1 DEF Climbing, n
    <3>3. list[n - j + 1] \in Nat /\ list[n - i + 1] \in Nat
      BY <1>1, <2>3
    <3> QED BY <2>3, <3>2, <3>3
  <2>6. ToSet(d) = ToSet(list)
    <3>1. ASSUME NEW x \in ToSet(d) PROVE x \in ToSet(list)
      <4>1. PICK i \in 1 .. n : d[i] = x
        BY <2>4, ToSetIs
      <4> QED BY <2>3, <4>1, ToSetIs DEF n
    <3>2. ASSUME NEW x \in ToSet(list) PROVE x \in ToSet(d)
      <4>1. PICK i \in 1 .. n : list[i] = x
        BY ToSetIs DEF n
      <4>2. n - i + 1 \in 1 .. n /\ n - (n - i + 1) + 1 = i
        BY <1>1
      <4>3. d[n - i + 1] = list[i]
        BY <2>3, <4>2
      <4> QED BY <2>4, <4>1, <4>2, <4>3, ToSetIs
    <3> QED BY <3>1, <3>2
  <2>7. FromTop(list) = d
    BY <1>3 DEF FromTop, d
  <2> QED BY <2>4, <2>5, <2>6, <2>7 DEF Falling, n
<1>4. CASE ~InOrder(list)
  <2>1. FromTop(list) = list
    BY <1>4 DEF FromTop
  <2>2. Falling(list)
    <3> SUFFICES ASSUME Climbing(list), NEW i \in 1 .. n, NEW j \in 1 .. n, i < j
                 PROVE  list[i] >= list[j]
      BY DEF Falling
    <3>1. (1 < i => list[1] <= list[i]) /\ (j < n => list[j] <= list[n])
      BY <1>2 DEF Climbing
    <3>2. list[1] \in Nat /\ list[n] \in Nat /\ list[i] \in Nat /\ list[j] \in Nat
      BY <1>1, <1>2
    <3>3. ~(list[1] < list[n])
      BY <1>2, <1>4
    <3> HIDE DEF n
    <3>4. i = 1 \/ 1 < i
      BY <1>1
    <3>5. j = n \/ j < n
      BY <1>1
    <3>6. list[1] <= list[i] /\ list[j] <= list[n]
      BY <3>1, <3>2, <3>4, <3>5
    <3> QED BY <3>2, <3>3, <3>6
  <2> QED BY <2>1, <2>2
<1> QED BY <1>3, <1>4

LEMMA ProcessedIs ==
  ASSUME NEW rows, NEW top \in Seq(Nat), top # << >>
  PROVE  /\ Processed(rows, top) \in 1 .. Len(top)
         /\ 1 .. Processed(rows, top) \subseteq Above(rows, top)
<1> DEFINE len == Len(top)
           A == Above(rows, top)
           S == {n \in 1 .. len : n < len => n + 1 \notin A}
<1>1. len \in Nat \ {0}
  BY LenProperties, EmptySeq
<1>2. 1 \in A /\ A \subseteq 1 .. len
  BY <1>1 DEF Above
<1> HIDE DEF len, A
<1>3. S \in SUBSET Nat /\ len \in S /\ S \subseteq 1 .. len
  BY <1>1
<1>4. Min(S) \in S /\ \A y \in S : Min(S) <= y
  BY <1>3, MinOf
<1>5. \A n \in 1 .. len : n \notin S => n + 1 \in A
  OBVIOUS
<1>6. Min(S) < len => Min(S) + 1 \notin A
  BY <1>4
<1>a. Min(S) \in 1 .. len
  BY <1>3, <1>4
<1> HIDE DEF S
<1>7. ASSUME NEW m \in 1 .. Min(S) PROVE m \in A
  <2>1. CASE m = 1
    BY <1>2, <2>1
  <2>2. CASE m # 1
    <3>1. m - 1 \in 1 .. len /\ m - 1 < Min(S) /\ (m - 1) + 1 = m /\ Min(S) \in Nat
      BY <1>1, <1>a, <2>2
    <3>2. m - 1 \notin S
      BY <1>3, <1>4, <3>1
    <3> QED BY <1>5, <3>1, <3>2
  <2> QED BY <2>1, <2>2
<1>8. \E n \in 1 .. len : 1 .. n \subseteq A /\ (n < len => n + 1 \notin A)
  BY <1>3, <1>4, <1>6, <1>7
<1> QED BY <1>8 DEF Processed, len, A

\* The messages of the queue q that are no duplicates, gathered from the last one up.
Gathered(rows, q) == FoldLeft(LAMBDA g, id : Grouped(rows, g, id), << >>, q)

Gathers(f, rows, q) ==
  /\ f \in [0 .. Len(q) -> Seq(Nat)]
  /\ f[0] = << >> /\ f[Len(q)] = Gathered(rows, q)
  /\ \A i \in 1 .. Len(q) : f[i] = Grouped(rows, f[i - 1], q[i])

LEMMA Prepended ==
  ASSUME NEW g \in Seq(Nat), NEW id \in Nat
  PROVE  /\ <<id>> \o g \in Seq(Nat) /\ <<id>> \o g # << >>
         /\ Len(<<id>> \o g) = Len(g) + 1
         /\ (<<id>> \o g)[1] = id
         /\ \A i \in 2 .. Len(g) + 1 : (<<id>> \o g)[i] = g[i - 1]
         /\ ToSet(<<id>> \o g) = {id} \union ToSet(g)
<1> DEFINE a == <<id>>
           r == <<id>> \o g
<1>1. Len(g) \in Nat /\ a \in Seq(Nat) /\ Len(a) = 1 /\ a[1] = id
  BY LenProperties
<1> HIDE DEF a
<1>2. /\ a \o g \in Seq(Nat) /\ Len(a \o g) = Len(a) + Len(g)
      /\ \A i \in 1 .. Len(a) + Len(g) : (a \o g)[i] = IF i <= Len(a) THEN a[i] ELSE g[i - Len(a)]
  BY <1>1, ConcatProperties
<1>3. r = a \o g
  BY DEF a
<1> HIDE DEF r
<1>4. r \in Seq(Nat) /\ Len(r) = Len(g) + 1 /\ r[1] = id
      /\ \A i \in 2 .. Len(g) + 1 : r[i] = g[i - 1]
  BY <1>1, <1>2, <1>3
<1>5. r # << >>
  BY <1>1, <1>4, EmptySeq
<1>6. ASSUME NEW x \in ToSet(r) PROVE x \in {id} \union ToSet(g)
  <2>1. PICK i \in 1 .. Len(g) + 1 : r[i] = x
    BY <1>4, ToSetIs
  <2>2. CASE i # 1
    <3>1. i \in 2 .. Len(g) + 1 /\ i - 1 \in 1 .. Len(g)
      BY <1>1, <2>2
    <3>2. g[i - 1] \in ToSet(g)
      BY <3>1, ToSetIs
    <3>3. r[i] = g[i - 1]
      BY <1>4, <3>1
    <3> QED BY <2>1, <3>2, <3>3
  <2> QED BY <1>4, <2>1, <2>2
<1>7. ASSUME NEW x \in ToSet(g) PROVE x \in ToSet(r)
  <2>1. PICK i \in 1 .. Len(g) : g[i] = x
    BY ToSetIs
  <2>2. i + 1 \in 2 .. Len(g) + 1 /\ i + 1 \in 1 .. Len(r) /\ (i + 1) - 1 = i
    BY <1>1, <1>4
  <2>3. r[i + 1] = x
    BY <1>4, <2>1, <2>2
  <2> QED BY <1>4, <2>2, <2>3, ToSetIs
<1>8. id \in ToSet(r)
  <2>1. 1 \in 1 .. Len(r)
    BY <1>1, <1>4
  <2> QED BY <1>4, <2>1, ToSetIs
<1> QED BY <1>4, <1>5, <1>6, <1>7, <1>8 DEF r

LEMMA GroupedType ==
  ASSUME NEW rows, NEW g \in Seq(Nat), NEW id \in Nat
  PROVE  Grouped(rows, g, id) \in Seq(Nat)
BY Prepended DEF Grouped

LEMMA GatheredFold ==
  ASSUME NEW rows, NEW q \in Seq(Nat)
  PROVE  \E f : Gathers(f, rows, q)
<1> DEFINE n == Len(q)
           step == [i \in 1 .. n |-> [d \in Seq(Nat) |-> Grouped(rows, d, q[i])]]
           Sol(h) == h = [s \in SUBSET (1 .. n) |->
                            IF s = {} THEN << >> ELSE Grouped(rows, h[s \ {Max(s)}], q[Max(s)])]
           iter == CHOOSE h : Sol(h)
<1>1. n \in Nat /\ DOMAIN q = 1 .. n /\ (\A i \in 1 .. n : q[i] \in Nat) /\ << >> \in Seq(Nat)
  BY LenProperties, ElementOfSeq, EmptySeq
<1>2. Gathered(rows, q) = iter[1 .. n]
  BY <1>1 DEF Gathered, FoldLeft, MapThenFoldSet
<1>3. /\ step \in [1 .. n -> [Seq(Nat) -> Seq(Nat)]]
      /\ \A i \in 1 .. n : \A d \in Seq(Nat) : step[i][d] = Grouped(rows, d, q[i])
  BY <1>1, GroupedType
<1> HIDE DEF n, step
<1>4. PICK h \in [SUBSET (1 .. n) -> Seq(Nat)] : Folds(h, << >>, n, step)
  BY <1>1, <1>3, SubsetRecursion
<1>5. \A s \in SUBSET (1 .. n) : s # {} => h[s] = Grouped(rows, h[s \ {Max(s)}], q[Max(s)])
  <2> SUFFICES ASSUME NEW s \in SUBSET (1 .. n), s # {}
               PROVE  h[s] = Grouped(rows, h[s \ {Max(s)}], q[Max(s)])
    OBVIOUS
  <2>1. Max(s) \in 1 .. n
    BY <1>1, MaxOf
  <2>2. h[s \ {Max(s)}] \in Seq(Nat)
    OBVIOUS
  <2> QED BY <1>3, <1>4, <2>1, <2>2 DEF Folds
<1>6. Sol(h)
  BY <1>4, <1>5 DEF Folds
<1>7. Sol(iter)
  <2> HIDE DEF Sol
  <2> QED BY <1>6
<1> HIDE DEF iter
<1>8. iter[{}] = << >> /\ \A i \in 1 .. n : iter[1 .. i] = Grouped(rows, iter[1 .. i - 1], q[i])
  <2>1. iter[{}] = << >>
    BY <1>7
  <2>2. ASSUME NEW i \in 1 .. n PROVE iter[1 .. i] = Grouped(rows, iter[1 .. i - 1], q[i])
    <3>1. Max(1 .. i) = i /\ (1 .. i) \ {i} = 1 .. i - 1 /\ 1 .. i # {}
      BY <1>1, MaxUpTo
    <3>2. 1 .. i \in SUBSET (1 .. n)
      BY <1>1
    <3>3. iter[1 .. i] = Grouped(rows, iter[(1 .. i) \ {Max(1 .. i)}], q[Max(1 .. i)])
      BY <1>7, <3>1, <3>2
    <3> QED BY <3>1, <3>3
  <2> QED BY <2>1, <2>2
<1> DEFINE f == [i \in 0 .. n |-> iter[1 .. i]]
           G == {i \in Nat : i <= n => f[i] \in Seq(Nat)}
<1>9. f[0] = << >> /\ (\A i \in 1 .. n : f[i] = Grouped(rows, f[i - 1], q[i])) /\ f[n] = iter[1 .. n]
  BY <1>1, <1>8
<1>10. \A i \in Nat : i \in G
  <2>1. 0 \in G
    BY <1>1, <1>9
  <2>2. ASSUME NEW i \in Nat, i \in G PROVE i + 1 \in G
    <3> SUFFICES ASSUME i + 1 <= n PROVE f[i + 1] \in Seq(Nat)
      OBVIOUS
    <3>1. i + 1 \in 1 .. n /\ (i + 1) - 1 = i /\ i <= n
      BY <1>1
    <3>2. f[i] \in Seq(Nat)
      BY <2>2, <3>1
    <3>3. f[i + 1] = Grouped(rows, f[i], q[i + 1])
      <4> HIDE DEF f
      <4> QED BY <1>9, <3>1
    <3> HIDE DEF f
    <3> QED BY <1>1, <3>1, <3>2, <3>3, GroupedType
  <2> HIDE DEF G
  <2> QED BY <2>1, <2>2, CountingUp
<1>11. f \in [0 .. n -> Seq(Nat)]
  <2>1. \A i \in 0 .. n : i \in Nat /\ i <= n
    BY <1>1
  <2>2. \A i \in 0 .. n : f[i] \in Seq(Nat)
    <3> HIDE DEF f
    <3> QED BY <1>10, <2>1
  <2> QED BY <2>2
<1> HIDE DEF f
<1> QED BY <1>2, <1>9, <1>11 DEF n, Gathers

\* What has been gathered from the first k messages of q: nothing as long as they are rows
\* already, and then an ascending group that ends below a row.
Grows(g, rows, q, k) ==
  \/ g = << >> /\ \A i \in 1 .. k : q[i] \in ToSet(rows)
  \/ /\ g # << >> /\ Rising(g) /\ k > 0 /\ g[1] = q[k]
     /\ g[Len(g)] \notin ToSet(rows)
     /\ \A x \in ToSet(g) : \E i \in 1 .. k : x = q[i]
     /\ \A i \in 1 .. k : q[i] \in ToSet(rows) \union ToSet(g)

LEMMA GrowsStep ==
  ASSUME NEW rows, NEW q \in Seq(Nat), Falling(q), NEW k \in Nat, k < Len(q),
         NEW g \in Seq(Nat), Grows(g, rows, q, k)
  PROVE  Grows(Grouped(rows, g, q[k + 1]), rows, q, k + 1)
<1> DEFINE id == q[k + 1]
           n == Len(q)
<1>1. n \in Nat /\ k + 1 \in 1 .. n /\ \A i \in 1 .. n : q[i] \in Nat
  BY LenProperties, ElementOfSeq
<1>2. id \in Nat /\ \A i \in 1 .. k + 1 : i \in 1 .. k \/ i = k + 1
  BY <1>1
<1>3. CASE g = << >>
  <2>1. \A i \in 1 .. k : q[i] \in ToSet(rows)
    BY <1>3 DEF Grows
  <2>2. CASE id \in ToSet(rows)
    <3>1. Grouped(rows, g, id) = << >>
      BY <1>3, <2>2 DEF Grouped
    <3> QED BY <1>2, <2>1, <2>2, <3>1 DEF Grows
  <2>3. CASE id \notin ToSet(rows)
    <3>1. Grouped(rows, g, id) = <<id>>
      BY <1>3, <2>3 DEF Grouped
    <3>2. /\ <<id>> # << >> /\ Rising(<<id>>) /\ <<id>>[1] = id /\ Len(<<id>>) = 1
          /\ ToSet(<<id>>) = {id}
      BY DEF Rising, ToSet
    <3>3. \A i \in 1 .. k + 1 : q[i] \in ToSet(rows) \union ToSet(<<id>>)
      BY <1>2, <2>1, <3>2
    <3>4. k + 1 > 0 /\ k + 1 \in 1 .. k + 1
      OBVIOUS
    <3>5. \A x \in ToSet(<<id>>) : \E i \in 1 .. k + 1 : x = q[i]
      BY <3>2, <3>4
    <3>6. <<id>>[Len(<<id>>)] \notin ToSet(rows)
      BY <2>3, <3>2
    <3> DEFINE h == <<id>>
    <3> HIDE DEF h
    <3>7. Grows(h, rows, q, k + 1)
      BY <3>2, <3>3, <3>4, <3>5, <3>6 DEF Grows, h
    <3> QED BY <3>1, <3>7 DEF h
  <2> QED BY <2>2, <2>3
<1>4. CASE g # << >>
  <2>1. /\ Rising(g) /\ k > 0 /\ g[1] = q[k] /\ g[Len(g)] \notin ToSet(rows)
        /\ \A x \in ToSet(g) : \E i \in 1 .. k : x = q[i]
        /\ \A i \in 1 .. k : q[i] \in ToSet(rows) \union ToSet(g)
    BY <1>4 DEF Grows
  <2>2. Len(g) \in Nat \ {0} /\ Head(g) = g[1] /\ \A i \in 1 .. Len(g) : g[i] \in Nat
    BY <1>4, LenProperties, ElementOfSeq, EmptySeq
  <2>3. g[1] \in ToSet(g)
    <3>1. 1 \in 1 .. Len(g)
      BY <2>2
    <3> QED BY <3>1, ToSetIs
  <2>4. \A i \in 1 .. k : i \in 1 .. k + 1
    OBVIOUS
  <2>5. CASE id = g[1]
    <3>1. Grouped(rows, g, id) = g
      BY <1>4, <2>2, <2>5 DEF Grouped
    <3>2. \A i \in 1 .. k + 1 : q[i] \in ToSet(rows) \union ToSet(g)
      BY <1>2, <2>1, <2>3, <2>5
    <3>3. \A x \in ToSet(g) : \E i \in 1 .. k + 1 : x = q[i]
      BY <2>1, <2>4
    <3>4. k + 1 > 0
      OBVIOUS
    <3>5. Grows(g, rows, q, k + 1)
      BY <1>4, <2>1, <2>5, <3>2, <3>3, <3>4 DEF Grows
    <3> QED BY <3>1, <3>5
  <2>6. CASE id # g[1]
    <3> DEFINE h == <<id>> \o g
    <3>1. Grouped(rows, g, id) = h
      BY <1>4, <2>2, <2>6 DEF Grouped
    <3>2. /\ h \in Seq(Nat) /\ h # << >> /\ Len(h) = Len(g) + 1 /\ h[1] = id
          /\ \A i \in 2 .. Len(g) + 1 : h[i] = g[i - 1]
          /\ ToSet(h) = {id} \union ToSet(g)
      BY <1>2, Prepended
    <3> HIDE DEF h
    <3>3. id < g[1]
      <4>1. k \in 1 .. n /\ k < k + 1 /\ 1 \in 1 .. Len(g)
        BY <1>1, <2>1, <2>2
      <4>2. q[k] >= id /\ g[1] \in Nat
        BY <1>1, <2>2, <4>1 DEF Falling
      <4> QED BY <1>2, <2>1, <2>6, <4>2
    <3>4. ASSUME NEW i \in 1 .. Len(h), NEW j \in 1 .. Len(h), i < j
          PROVE  h[i] < h[j]
      <4>1. j \in 2 .. Len(g) + 1 /\ j - 1 \in 1 .. Len(g) /\ 1 \in 1 .. Len(g)
        BY <2>2, <3>2, <3>4
      <4>2. h[j] = g[j - 1]
        BY <3>2, <4>1
      <4>3. CASE i = 1
        <5> DEFINE u == g[1]
                   v == g[j - 1]
        <5>1. 1 < j - 1 => u < v
          BY <2>1, <4>1 DEF Rising
        <5>2. u \in Nat /\ v \in Nat
          BY <2>2, <4>1
        <5>3. 1 = j - 1 \/ 1 < j - 1
          BY <2>2, <4>1
        <5>4. 1 = j - 1 => u = v
          OBVIOUS
        <5>5. h[i] = id
          BY <3>2, <4>3
        <5>6. id < v
          <6>1. id \in Nat /\ id < u
            BY <1>2, <3>3
          <6> HIDE DEF id, u, v
          <6>2. u <= v
            BY <5>1, <5>2, <5>3, <5>4
          <6> QED BY <5>2, <6>1, <6>2
        <5> QED BY <4>2, <5>5, <5>6
      <4>4. CASE i # 1
        <5>1. i \in 2 .. Len(g) + 1 /\ i - 1 \in 1 .. Len(g) /\ i - 1 < j - 1
          BY <2>2, <3>2, <3>4, <4>4
        <5>2. h[i] = g[i - 1]
          BY <3>2, <5>1
        <5>3. Rising(g)
          BY <2>1
        <5>4. \A x, y \in 1 .. Len(g) : x < y => g[x] < g[y]
          BY <5>3 DEF Rising
        <5>5. g[i - 1] < g[j - 1]
          BY <4>1, <5>1, <5>4
        <5> QED BY <4>2, <5>2, <5>5
      <4> QED BY <4>3, <4>4
    <3>5. h[Len(h)] = g[Len(g)]
      <4>1. Len(g) + 1 \in 2 .. Len(g) + 1 /\ (Len(g) + 1) - 1 = Len(g)
        BY <2>2
      <4> QED BY <3>2, <4>1
    <3>6. \A i \in 1 .. k + 1 : q[i] \in ToSet(rows) \union ToSet(h)
      BY <1>2, <2>1, <3>2
    <3>7. \A x \in ToSet(h) : \E i \in 1 .. k + 1 : x = q[i]
      <4>1. k + 1 \in 1 .. k + 1
        OBVIOUS
      <4> QED BY <2>1, <2>4, <3>2, <4>1
    <3>8. k + 1 > 0
      OBVIOUS
    <3>9. Grows(h, rows, q, k + 1)
      BY <2>1, <3>2, <3>4, <3>5, <3>6, <3>7, <3>8 DEF Grows, Rising
    <3> QED BY <3>1, <3>9
  <2> QED BY <2>5, <2>6
<1> QED BY <1>3, <1>4

LEMMA GatheredIs ==
  ASSUME NEW rows, NEW q \in Seq(Nat), Falling(q)
  PROVE  Gathered(rows, q) \in Seq(Nat) /\ Grows(Gathered(rows, q), rows, q, Len(q))
<1> DEFINE n == Len(q)
<1>1. n \in Nat
  BY LenProperties
<1>2. PICK f : Gathers(f, rows, q)
  BY GatheredFold
<1>3. /\ f \in [0 .. n -> Seq(Nat)] /\ f[0] = << >> /\ f[n] = Gathered(rows, q)
      /\ \A i \in 1 .. n : f[i] = Grouped(rows, f[i - 1], q[i])
  BY <1>2 DEF Gathers
<1> DEFINE G == {i \in Nat : i <= n => Grows(f[i], rows, q, i)}
<1> HIDE DEF n
<1>4. 0 \in G
  <2>1. Grows(<< >>, rows, q, 0)
    BY DEF Grows
  <2> QED BY <1>3, <2>1
<1>5. ASSUME NEW i \in Nat, i \in G PROVE i + 1 \in G
  <2> SUFFICES ASSUME i + 1 <= n PROVE Grows(f[i + 1], rows, q, i + 1)
    OBVIOUS
  <2>1. i + 1 \in 1 .. n /\ i \in 0 .. n /\ i < n /\ (i + 1) - 1 = i
    BY <1>1
  <2>2. f[i] \in Seq(Nat) /\ Grows(f[i], rows, q, i)
    BY <1>1, <1>3, <1>5, <2>1
  <2>3. f[i + 1] = Grouped(rows, f[i], q[i + 1])
    BY <1>3, <2>1
  <2> QED BY <2>1, <2>2, <2>3, GrowsStep DEF n
<1>6. Grows(f[n], rows, q, n)
  <2>1. n \in G
    <3> HIDE DEF G
    <3> QED BY <1>1, <1>4, <1>5, CountingUp
  <2> QED BY <1>1, <2>1
<1>7. f[n] \in Seq(Nat)
  BY <1>1, <1>3
<1> QED BY <1>3, <1>6, <1>7 DEF n

\* What the insertion of a list makes of the rows sh and of what is buffered, pe: nothing
\* is lost or invented, and what was inserted is newer than what is left.
Delivered(sh, pe, list, sh2, pe2) ==
  /\ sh2 \in Seq(Nat) /\ Rising(sh2) /\ pe2 \in Seq(Nat) /\ Climbing(pe2)
  /\ ToSet(sh) \subseteq ToSet(sh2)
  /\ ToSet(sh2) \union ToSet(pe2) = ToSet(sh) \union ToSet(pe) \union ToSet(list)
  /\ \A x \in ToSet(sh2) \ ToSet(sh), y \in ToSet(pe2) : y <= x

LEMMA GracefulIs ==
  ASSUME NEW rows \in Seq(Nat), Rising(rows), NEW list \in Seq(Nat), list # << >>,
         Climbing(list) \/ Falling(list)
  PROVE  Delivered(rows, << >>, list, InsertGracefully(rows, list), Remaining(rows, list))
<1> DEFINE top == FromTop(list)
           len == Len(top)
           n == Processed(rows, top)
           q == SubSeq(top, 1, n)
           g == Gathered(rows, q)
           rest == SubSeq(top, n + 1, len)
           r == InsertGracefully(rows, list)
           p == Remaining(rows, list)
           k == IndexForId(rows, top[1])
<1>1. top \in Seq(Nat) /\ Falling(top) /\ ToSet(top) = ToSet(list) /\ len = Len(list)
  BY FromTopIs
<1>2. len \in Nat \ {0} /\ top # << >>
  BY <1>1, LenProperties, EmptySeq
<1>3. r = (IF g = << >> THEN rows ELSE InsertMessageGroup(rows, g)) /\ p = Ascending(rest)
  BY DEF InsertGracefully, Remaining, Gathered
<1> HIDE DEF top
<1>4. n \in 1 .. len /\ 1 .. n \subseteq Above(rows, top)
  BY <1>1, <1>2, ProcessedIs
<1> HIDE DEF n, r, p
<1>5. q \in Seq(Nat) /\ Len(q) = n /\ \A i \in 1 .. n : q[i] = top[i]
  BY <1>1, <1>2, <1>4, SubSeqProperties
<1>6. rest \in Seq(Nat) /\ Len(rest) = len - n /\ \A i \in 1 .. len - n : rest[i] = top[n + i]
  BY <1>1, <1>2, <1>4, SubSeqProperties
<1>7. \A i \in 1 .. len : top[i] \in Nat
  BY <1>1, ElementOfSeq
<1>8. \A i, j \in 1 .. len : i < j => top[i] >= top[j]
  BY <1>1 DEF Falling
<1> HIDE DEF q, rest, len
<1>9. ASSUME NEW i \in 1 .. n, NEW j \in 1 .. n, i < j
      PROVE  q[i] >= q[j]
  <2>1. i \in 1 .. len /\ j \in 1 .. len
    BY <1>2, <1>4
  <2> QED BY <1>5, <1>8, <1>9, <2>1
<1>10. g \in Seq(Nat) /\ Grows(g, rows, q, n)
  <2>1. Falling(q)
    BY <1>5, <1>9 DEF Falling
  <2> QED BY <1>5, <2>1, GatheredIs
<1> HIDE DEF g
<1>11. p \in Seq(Nat) /\ Climbing(p) /\ ToSet(p) = ToSet(rest)
  BY <1>3, <1>6, AscendingIs
<1>12. /\ \A x \in ToSet(rest) : \E i \in n + 1 .. len : x = top[i]
       /\ \A i \in n + 1 .. len : top[i] \in ToSet(rest)
  <2>1. ASSUME NEW x \in ToSet(rest) PROVE \E i \in n + 1 .. len : x = top[i]
    <3>1. PICK i \in 1 .. len - n : rest[i] = x
      BY <1>6, ToSetIs
    <3>2. n + i \in n + 1 .. len
      BY <1>2, <1>4
    <3> QED BY <1>6, <3>1, <3>2
  <2>2. ASSUME NEW i \in n + 1 .. len PROVE top[i] \in ToSet(rest)
    <3>1. i - n \in 1 .. len - n /\ n + (i - n) = i
      BY <1>2, <1>4
    <3>2. rest[i - n] = top[i]
      BY <1>6, <3>1
    <3> QED BY <1>6, <3>1, <3>2, ToSetIs
  <2> QED BY <2>1, <2>2
<1>13. /\ \A x \in ToSet(g) : \E i \in 1 .. n : x = top[i]
       /\ \A i \in 1 .. n : top[i] \in ToSet(rows) \union ToSet(g)
  <2>1. CASE g = << >>
    <3>1. ToSet(g) = {}
      BY <2>1 DEF ToSet
    <3>2. \A i \in 1 .. n : q[i] \in ToSet(rows)
      BY <1>10, <2>1 DEF Grows
    <3> QED BY <1>5, <3>1, <3>2
  <2>2. CASE g # << >>
    <3>1. /\ \A x \in ToSet(g) : \E i \in 1 .. n : x = q[i]
          /\ \A i \in 1 .. n : q[i] \in ToSet(rows) \union ToSet(g)
      BY <1>10, <2>2 DEF Grows
    <3> QED BY <1>5, <3>1
  <2> QED BY <2>1, <2>2
<1>14. r \in Seq(Nat) /\ Rising(r) /\ ToSet(r) = ToSet(rows) \union ToSet(g)
  <2>1. CASE g = << >>
    <3>1. ToSet(g) = {}
      BY <2>1 DEF ToSet
    <3> QED BY <1>3, <2>1, <3>1
  <2>2. CASE g # << >>
    <3> DEFINE m == Len(g)
    <3>1. m \in Nat \ {0} /\ \A i \in 1 .. m : g[i] \in Nat
      BY <1>10, <2>2, LenProperties, ElementOfSeq, EmptySeq
    <3>2. Rising(g) /\ g[m] \notin ToSet(rows)
      BY <1>10, <2>2 DEF Grows
    <3>3. 1 \in 1 .. m /\ m \in 1 .. m /\ g[1] \in ToSet(g) /\ g[m] \in ToSet(g)
      <4>1. 1 \in 1 .. m /\ m \in 1 .. m
        BY <3>1
      <4> QED BY <1>10, <4>1, ToSetIs
    <3>4. Len(rows) \in Nat /\ \A i \in 1 .. Len(rows) : rows[i] \in Nat
      BY LenProperties, ElementOfSeq
    <3>5. /\ k \in 0 .. Len(rows) /\ (\A i \in 1 .. k : rows[i] < top[1])
          /\ k < Len(rows) => rows[k + 1] >= top[1]
      <4>1. 1 \in 1 .. len
        BY <1>2
      <4> QED BY <1>7, <4>1, IndexIs
    <3>6. Above(rows, top) = {i \in 1 .. len : i = 1 \/ k = 0 \/ top[i] > rows[k]}
      BY DEF Above, len
    <3> HIDE DEF k, m
    <3>7. ASSUME k < Len(rows)
          PROVE  g[m] < rows[k + 1]
      <4>1. k + 1 \in 1 .. Len(rows)
        BY <3>4, <3>5, <3>7
      <4>2. rows[k + 1] \in ToSet(rows) /\ rows[k + 1] \in Nat
        BY <3>4, <4>1, ToSetIs
      <4>3. PICK i \in 1 .. n : g[m] = top[i]
        BY <1>13, <3>3
      <4>4. i \in 1 .. len /\ 1 \in 1 .. len /\ (i = 1 \/ 1 < i)
        BY <1>2, <1>4
      <4>5. top[1] >= top[i] /\ top[1] \in Nat /\ top[i] \in Nat
        BY <1>7, <1>8, <4>4
      <4>6. g[m] # rows[k + 1]
        BY <3>2, <4>2
      <4>7. rows[k + 1] >= top[1]
        BY <3>5, <3>7
      <4> QED BY <4>2, <4>3, <4>5, <4>6, <4>7
    <3>8. ASSUME NEW j \in 1 .. k
          PROVE  rows[j] < g[1]
      <4>1. j \in 1 .. Len(rows) /\ k \in 1 .. Len(rows) /\ k # 0 /\ (j = k \/ j < k)
        BY <3>4, <3>5
      <4>2. j < k => rows[j] < rows[k]
        BY <4>1 DEF Rising
      <4>3. rows[j] \in Nat /\ rows[k] \in Nat
        BY <3>4, <4>1
      <4>4. rows[j] <= rows[k]
        BY <4>1, <4>2, <4>3
      <4>5. PICK i \in 1 .. n : g[1] = top[i]
        BY <1>13, <3>3
      <4>6. i = 1 \/ top[i] > rows[k]
        BY <1>4, <3>6, <4>1
      <4>7. i \in 1 .. len /\ top[i] \in Nat
        BY <1>2, <1>4, <1>7
      <4>8. i = 1 => rows[k] < top[i]
        BY <3>5, <4>1
      <4> QED BY <4>3, <4>4, <4>5, <4>6, <4>7, <4>8
    <3>9. k < Len(rows) => rows[k + 1] >= g[1]
      <4> SUFFICES ASSUME k < Len(rows) PROVE rows[k + 1] >= g[1]
        OBVIOUS
      <4>1. 1 < m => g[1] < g[m]
        BY <3>2, <3>3 DEF Rising, m
      <4>2. g[1] \in Nat /\ g[m] \in Nat /\ (m = 1 \/ 1 < m)
        BY <3>1, <3>3
      <4>3. k + 1 \in 1 .. Len(rows)
        BY <3>4, <3>5
      <4>4. g[m] < rows[k + 1] /\ rows[k + 1] \in Nat
        BY <3>4, <3>7, <4>3
      <4> QED BY <4>1, <4>2, <4>4
    <3>10. IndexForId(rows, g[1]) = k
      BY <3>1, <3>3, <3>5, <3>8, <3>9, IndexIsOnly
    <3>11. r = InsertMessageGroup(rows, g)
      BY <1>3, <2>2
    <3> QED BY <1>10, <2>2, <3>2, <3>7, <3>10, <3>11, InsertRises DEF m
  <2> QED BY <2>1, <2>2
<1>15. ASSUME NEW x \in ToSet(r) \ ToSet(rows), NEW y \in ToSet(p) PROVE y <= x
  <2>1. x \in ToSet(g) /\ y \in ToSet(rest)
    BY <1>11, <1>14
  <2>2. PICK i \in 1 .. n : x = top[i]
    BY <1>13, <2>1
  <2>3. PICK j \in n + 1 .. len : y = top[j]
    BY <1>12, <2>1
  <2>4. i \in 1 .. len /\ j \in 1 .. len /\ i < j
    BY <1>2, <1>4
  <2> QED BY <1>7, <1>8, <2>2, <2>3, <2>4
<1>16. ASSUME NEW x
       PROVE  x \in ToSet(r) \union ToSet(p) <=> x \in ToSet(rows) \union ToSet(list)
  <2>1. \A i \in 1 .. len : i \in 1 .. n \/ i \in n + 1 .. len
    BY <1>2, <1>4
  <2>2. \A i \in 1 .. n : i \in 1 .. len
    BY <1>2, <1>4
  <2>3. \A i \in n + 1 .. len : i \in 1 .. len
    BY <1>2, <1>4
  <2>4. x \in ToSet(list) <=> \E i \in 1 .. len : top[i] = x
    BY <1>1, ToSetIs DEF len
  <2>5. ASSUME x \in ToSet(list) PROVE x \in ToSet(r) \union ToSet(p)
    <3>1. PICK i \in 1 .. len : top[i] = x
      BY <2>4, <2>5
    <3> QED BY <1>11, <1>12, <1>13, <1>14, <2>1, <3>1
  <2>6. ASSUME x \in ToSet(g) \/ x \in ToSet(rest) PROVE x \in ToSet(list)
    BY <1>12, <1>13, <2>2, <2>3, <2>4, <2>6
  <2> QED BY <1>11, <1>14, <2>5, <2>6
<1>17. ToSet(<< >>) = {}
  BY DEF ToSet
<1> QED BY <1>11, <1>14, <1>15, <1>16, <1>17 DEF Delivered, r, p

-----------------------------------------------------------------------------
(* What the core answers *)

\* With each of its members A has the greater ones of S.
UpIn(A, S) == \A x \in A, y \in S : x < y => y \in A

LEMMA NewestIs ==
  ASSUME NEW S \in SUBSET Nat, IsFiniteSet(S), NEW limit \in Nat
  PROVE  /\ Newest(S, limit) \in Seq(Nat) /\ Falling(Newest(S, limit))
         /\ ToSet(Newest(S, limit)) \subseteq S
         /\ UpIn(ToSet(Newest(S, limit)), S)
         /\ Len(Newest(S, limit)) >= limit \/ ToSet(Newest(S, limit)) = S
<1> DEFINE d == Descending(S)
           n == Len(d)
           r == Newest(S, limit)
<1>1. d \in Seq(Nat) /\ Falling(d) /\ ToSet(d) = S
  BY DescendingIs
<1>2. r = IF n <= limit THEN d ELSE SubSeq(d, 1, limit)
  BY DEF Newest
<1> HIDE DEF d, r
<1>3. n \in Nat /\ \A i \in 1 .. n : d[i] \in Nat
  BY <1>1, LenProperties, ElementOfSeq
<1>4. CASE n <= limit
  <2>1. r = d
    BY <1>2, <1>4
  <2> QED BY <1>1, <2>1 DEF UpIn, r
<1>5. CASE ~(n <= limit)
  <2>1. r = SubSeq(d, 1, limit)
    BY <1>2, <1>5
  <2> HIDE DEF n
  <2>2. limit <= n /\ limit < n + 1
    BY <1>3, <1>5
  <2>3. r \in Seq(Nat) /\ Len(r) = limit /\ \A i \in 1 .. limit : r[i] = d[i]
    BY <1>1, <1>3, <2>1, <2>2, SubSeqProperties DEF n
  <2>4. \A i \in 1 .. limit : i \in 1 .. n
    BY <1>3, <2>2
  <2>5. \A i, j \in 1 .. n : i < j => d[i] >= d[j]
    BY <1>1 DEF Falling, n
  <2>6. Falling(r)
    BY <2>3, <2>4, <2>5 DEF Falling
  <2>7. ASSUME NEW x \in ToSet(r) PROVE \E i \in 1 .. limit : d[i] = x
    BY <2>3, ToSetIs
  <2>8. \A i \in 1 .. n : d[i] \in S
    BY <1>1, ToSetIs DEF n
  <2>9. ToSet(r) \subseteq S
    BY <2>4, <2>7, <2>8
  <2>10. ASSUME NEW x \in ToSet(r), NEW y \in S, x < y PROVE y \in ToSet(r)
    <3>1. PICK i \in 1 .. limit : d[i] = x
      BY <2>7
    <3>2. PICK j \in 1 .. n : d[j] = y
      BY <1>1, ToSetIs DEF n
    <3>3. i \in 1 .. n /\ d[i] \in Nat /\ d[j] \in Nat
      BY <1>3, <2>4
    <3>4. i < j => d[i] >= d[j]
      BY <2>5, <3>3
    <3>5. ~(i < j)
      BY <2>10, <3>1, <3>2, <3>3, <3>4
    <3>6. j \in 1 .. limit
      BY <1>3, <3>5
    <3>7. r[j] = y
      BY <2>3, <3>2, <3>6
    <3> QED BY <2>3, <3>6, <3>7, ToSetIs
  <2>11. Len(r) >= limit
    BY <2>3
  <2> QED BY <2>3, <2>6, <2>9, <2>10, <2>11 DEF UpIn, r
<1> QED BY <1>4, <1>5

LEMMA ConcatIs ==
  ASSUME NEW S, NEW a \in Seq(S), NEW c \in Seq(S)
  PROVE  /\ a \o c \in Seq(S) /\ Len(a \o c) = Len(a) + Len(c)
         /\ \A i \in 1 .. Len(a) : (a \o c)[i] = a[i]
         /\ \A i \in 1 .. Len(c) : (a \o c)[Len(a) + i] = c[i]
         /\ ToSet(a \o c) = ToSet(a) \union ToSet(c)
<1> DEFINE n == Len(a)
           m == Len(c)
           r == a \o c
<1>1. n \in Nat /\ m \in Nat
  BY LenProperties
<1>2. /\ r \in Seq(S) /\ Len(r) = n + m
      /\ \A i \in 1 .. n + m : r[i] = IF i <= n THEN a[i] ELSE c[i - n]
  BY ConcatProperties
<1> HIDE DEF n, m, r
<1>3. \A i \in 1 .. n : r[i] = a[i]
  <2> SUFFICES ASSUME NEW i \in 1 .. n PROVE r[i] = a[i]
    OBVIOUS
  <2>1. i \in 1 .. n + m /\ i <= n
    BY <1>1
  <2> QED BY <1>2, <2>1
<1>4. \A i \in 1 .. m : r[n + i] = c[i]
  <2> SUFFICES ASSUME NEW i \in 1 .. m PROVE r[n + i] = c[i]
    OBVIOUS
  <2>1. n + i \in 1 .. n + m /\ ~(n + i <= n) /\ (n + i) - n = i
    BY <1>1
  <2> QED BY <1>2, <2>1
<1>5. ASSUME NEW x \in ToSet(r) PROVE x \in ToSet(a) \union ToSet(c)
  <2>1. PICK i \in 1 .. n + m : r[i] = x
    BY <1>2, <1>5, ToSetIs
  <2>2. CASE i <= n
    <3>1. i \in 1 .. n
      BY <1>1, <2>2
    <3>2. a[i] = x
      BY <1>3, <2>1, <3>1
    <3> QED BY <3>1, <3>2, ToSetIs DEF n
  <2>3. CASE ~(i <= n)
    <3>1. i - n \in 1 .. m /\ n + (i - n) = i
      BY <1>1, <2>3
    <3>2. r[n + (i - n)] = c[i - n]
      BY <1>4, <3>1
    <3>3. c[i - n] = x
      BY <2>1, <3>1, <3>2
    <3> QED BY <3>1, <3>3, ToSetIs DEF m
  <2> QED BY <2>2, <2>3
<1>6. ASSUME NEW x \in ToSet(a) PROVE x \in ToSet(r)
  <2>1. PICK i \in 1 .. n : a[i] = x
    BY ToSetIs DEF n
  <2>2. i \in 1 .. n + m
    BY <1>1
  <2> QED BY <1>2, <1>3, <2>1, <2>2, ToSetIs
<1>7. ASSUME NEW x \in ToSet(c) PROVE x \in ToSet(r)
  <2>1. PICK i \in 1 .. m : c[i] = x
    BY ToSetIs DEF m
  <2>2. n + i \in 1 .. n + m
    BY <1>1
  <2>3. r[n + i] = x
    BY <1>4, <2>1
  <2> QED BY <1>2, <2>2, <2>3, ToSetIs
<1>8. ToSet(r) = ToSet(a) \union ToSet(c)
  BY <1>5, <1>6, <1>7
<1> QED BY <1>2, <1>3, <1>4, <1>8 DEF n, m, r

LEMMA ConcatFalls ==
  ASSUME NEW a \in Seq(Nat), NEW c \in Seq(Nat), Falling(a), Falling(c),
         \A x \in ToSet(a), y \in ToSet(c) : x >= y
  PROVE  Falling(a \o c)
<1> DEFINE n == Len(a)
           m == Len(c)
           r == a \o c
<1>1. n \in Nat /\ m \in Nat
  BY LenProperties
<1>2. /\ Len(r) = n + m
      /\ \A i \in 1 .. n : r[i] = a[i] /\ r[i] \in ToSet(a)
      /\ \A i \in 1 .. m : r[n + i] = c[i] /\ r[n + i] \in ToSet(c)
  BY ConcatIs, ToSetIs
<1>3. /\ \A i, j \in 1 .. n : i < j => a[i] >= a[j]
      /\ \A i, j \in 1 .. m : i < j => c[i] >= c[j]
  BY DEF Falling
<1> HIDE DEF n, m, r
<1>4. ASSUME NEW i \in 1 .. n + m, NEW j \in 1 .. n + m, i < j
      PROVE  r[i] >= r[j]
  <2>1. CASE j <= n
    <3>1. i \in 1 .. n /\ j \in 1 .. n
      BY <1>1, <1>4, <2>1
    <3> QED BY <1>2, <1>3, <1>4, <3>1
  <2>2. CASE ~(j <= n) /\ i <= n
    <3>1. i \in 1 .. n /\ j - n \in 1 .. m /\ n + (j - n) = j
      BY <1>1, <1>4, <2>2
    <3>2. r[i] \in ToSet(a) /\ r[n + (j - n)] \in ToSet(c)
      BY <1>2, <3>1
    <3>3. r[j] \in ToSet(c)
      BY <3>1, <3>2
    <3> QED BY <3>2, <3>3
  <2>3. CASE ~(i <= n)
    <3>1. /\ i - n \in 1 .. m /\ j - n \in 1 .. m /\ i - n < j - n
          /\ n + (i - n) = i /\ n + (j - n) = j
      BY <1>1, <1>4, <2>3
    <3>2. r[n + (i - n)] = c[i - n] /\ r[n + (j - n)] = c[j - n]
      BY <1>2, <3>1
    <3>3. c[i - n] >= c[j - n]
      BY <1>3, <3>1
    <3> QED BY <3>1, <3>2, <3>3
  <2> QED BY <2>1, <2>2, <2>3
<1> QED BY <1>2, <1>4 DEF Falling, r

-----------------------------------------------------------------------------
(* The invariant *)

Requests ==
  [b : Buffers \union {"all"}, first : Int, last : Int, limit : {Limit}, additional : Nat]
Answers == [b : Buffers \union {"all", "live"}, msgs : Seq(Nat)]

\* A request for messages before one that is shown, or for the newest.
Fetches(r, b) == r.b = b /\ r.first = -1 /\ r.additional = 0

RequestOK(r, l, sh) ==
  /\ r \in Requests
  /\ \/ r.b = "all" /\ r.first \in Nat
     \/ r.b \in Buffers /\ r.first \in Nat /\ r.last = -1
     \/ /\ r.b \in Buffers /\ Fetches(r, r.b)
        /\ r.last = -1 \/ (r.last \in ToSet(sh) /\ l[r.last] = r.b)

AnswerOK(m, l) ==
  /\ m \in Answers /\ Falling(m.msgs) /\ ToSet(m.msgs) \subseteq 1 .. Len(l)
  /\ m.b = "live" => Len(m.msgs) = 1

\* the live messages under way, and with them what is shown
Live(dn) == {dn[i].msgs[1] : i \in {j \in 1 .. Len(dn) : dn[j].b = "live"}}
Seen(sh, dn) == ToSet(sh) \union Live(dn)

LEMMA StoredIs ==
  ASSUME log \in Seq(Buffers), NEW S, S \subseteq Ids
  PROVE  S \in SUBSET Nat /\ IsFiniteSet(S)
<1>1. Len(log) \in Nat
  BY LenProperties
<1>2. IsFiniteSet(Ids) /\ Ids \subseteq Nat
  BY <1>1, FS_Interval DEF Ids
<1> QED BY <1>2, FS_Subset

\* The answer to a request that starts with a message: the read messages that precede the
\* unread ones come only if none is missing in between.
LEMMA InitialAnswer ==
  ASSUME log \in Seq(Buffers), NEW r \in Requests, r.first \in Nat, r.last = -1
  PROVE  /\ RequestBacklog(r) \in Seq(Nat) /\ Falling(RequestBacklog(r))
         /\ ToSet(RequestBacklog(r)) \subseteq In(r.b)
         /\ UpIn(ToSet(RequestBacklog(r)), In(r.b))
<1> DEFINE S == In(r.b)
           f == r.first
           U == {id \in S : id >= f}
           D == {id \in S : id < f}
           m == RequestMsgs(S, f, r.last, r.limit)
           c == RequestMsgs(S, -1, f, r.additional)
           oldest == IF m = << >> THEN f ELSE Last(m)
           answer == RequestBacklog(r)
<1>1. r.limit = Limit /\ Limit \in Nat \ {0} /\ r.additional \in Nat /\ f \in Nat
  BY BacklogAssumption DEF Requests
<1>2. S \subseteq Ids
  BY DEF In
<1>3. S \in SUBSET Nat /\ IsFiniteSet(S) /\ U \in SUBSET Nat /\ IsFiniteSet(U)
      /\ D \in SUBSET Nat /\ IsFiniteSet(D)
  <2>1. U \subseteq Ids /\ D \subseteq Ids
    BY <1>2
  <2> QED BY <1>2, <2>1, StoredIs
<1>4. m = Newest(U, Limit)
  BY <1>1 DEF RequestMsgs
<1>5. c = Newest(D, r.additional)
  <2>1. D = {id \in S : id >= -1 /\ (f = -1 \/ id < f)}
    BY <1>1, <1>3
  <2> HIDE DEF S, D, f
  <2> QED BY <2>1 DEF RequestMsgs
<1>6. answer = IF r.additional > 0 /\ f = oldest THEN m \o c ELSE m
  <2>1. f # -1
    BY <1>1
  <2> QED BY <2>1 DEF RequestBacklog, Continues
<1> HIDE DEF S, m, c, answer
<1>7. /\ m \in Seq(Nat) /\ Falling(m) /\ ToSet(m) \subseteq U /\ UpIn(ToSet(m), U)
      /\ Len(m) >= Limit \/ ToSet(m) = U
  BY <1>1, <1>3, <1>4, NewestIs
<1>8. c \in Seq(Nat) /\ Falling(c) /\ ToSet(c) \subseteq D /\ UpIn(ToSet(c), D)
  BY <1>1, <1>3, <1>5, NewestIs
<1>9. ASSUME NEW x \in ToSet(m), NEW y \in S, x < y PROVE y \in ToSet(m)
  <2>1. x \in U /\ x \in Nat /\ y \in Nat /\ x >= f
    BY <1>3, <1>7
  <2>2. y \in U
    BY <1>1, <1>9, <2>1
  <2> QED BY <1>7, <1>9, <2>2 DEF UpIn
<1>10. CASE r.additional > 0 /\ f = oldest
  <2>1. answer = m \o c
    BY <1>6, <1>10
  <2>2. m \o c \in Seq(Nat) /\ ToSet(m \o c) = ToSet(m) \union ToSet(c)
    BY <1>7, <1>8, ConcatIs
  <2>3. Falling(m \o c)
    <3>1. ASSUME NEW x \in ToSet(m), NEW y \in ToSet(c) PROVE x >= y
      <4>1. x \in U /\ y \in D
        BY <1>7, <1>8
      <4>2. x \in Nat /\ y \in Nat /\ x >= f /\ y < f
        BY <1>3, <4>1
      <4> QED BY <1>1, <4>2
    <3> QED BY <1>7, <1>8, <3>1, ConcatFalls
  <2>4. U \subseteq ToSet(m)
    <3>1. CASE m = << >>
      <4>1. Len(m) = 0 /\ ToSet(m) = {}
        BY <3>1 DEF ToSet
      <4> QED BY <1>1, <1>7, <4>1
    <3>2. CASE m # << >>
      <4>1. Len(m) \in 1 .. Len(m) /\ Last(m) = m[Len(m)]
        BY <1>7, <3>2, LenProperties, EmptySeq DEF Last
      <4>2. Last(m) \in ToSet(m) /\ f = Last(m)
        BY <1>7, <1>10, <3>2, <4>1, ToSetIs
      <4> SUFFICES ASSUME NEW y \in U PROVE y \in ToSet(m)
        OBVIOUS
      <4>3. y \in S /\ y \in Nat /\ (y = f \/ f < y)
        BY <1>1, <1>3
      <4> QED BY <1>9, <4>2, <4>3
    <3> QED BY <3>1, <3>2
  <2>5. ASSUME NEW x \in ToSet(c), NEW y \in S, x < y PROVE y \in ToSet(m) \union ToSet(c)
    <3>1. y \in U \/ y \in D
      BY <1>1, <1>3
    <3> QED BY <1>8, <2>4, <2>5, <3>1 DEF UpIn
  <2>6. UpIn(ToSet(m \o c), S)
    BY <1>9, <2>2, <2>5 DEF UpIn
  <2>7. ToSet(m \o c) \subseteq S
    BY <1>7, <1>8, <2>2
  <2> QED BY <2>1, <2>2, <2>3, <2>6, <2>7 DEF answer, S
<1>11. CASE ~(r.additional > 0 /\ f = oldest)
  <2>1. answer = m
    BY <1>6, <1>11
  <2>2. UpIn(ToSet(m), S) /\ ToSet(m) \subseteq S
    BY <1>7, <1>9 DEF UpIn
  <2> QED BY <1>7, <2>1, <2>2 DEF answer, S
<1> QED BY <1>10, <1>11

Before(b, last) == {id \in In(b) : last = -1 \/ id < last}

\* The answer to a fetch.
LEMMA FetchedAnswer ==
  ASSUME log \in Seq(Buffers), NEW r \in Requests, Fetches(r, r.b)
  PROVE  /\ RequestBacklog(r) \in Seq(Nat) /\ Falling(RequestBacklog(r))
         /\ ToSet(RequestBacklog(r)) \subseteq In(r.b)
         /\ UpIn(ToSet(RequestBacklog(r)), Before(r.b, r.last))
         /\ \/ Len(RequestBacklog(r)) >= Limit
            \/ ToSet(RequestBacklog(r)) = Before(r.b, r.last)
<1> DEFINE S == Before(r.b, r.last)
<1>1. r.limit = Limit /\ Limit \in Nat /\ r.additional = 0 /\ r.first = -1
  BY BacklogAssumption DEF Requests, Fetches
<1>2. S \subseteq Ids /\ S \subseteq In(r.b)
  BY DEF Before, In
<1>3. S \in SUBSET Nat /\ IsFiniteSet(S)
  BY <1>2, StoredIs
<1>4. S = {id \in In(r.b) : id >= -1 /\ (r.last = -1 \/ id < r.last)}
  <2>1. \A id \in In(r.b) : id \in Nat
    <3>1. In(r.b) \subseteq Ids
      BY DEF In
    <3> QED BY <3>1, StoredIs
  <2> QED BY <2>1 DEF Before
<1>5. RequestBacklog(r) = Newest(S, Limit)
  BY <1>1, <1>4 DEF RequestBacklog, RequestMsgs
<1> HIDE DEF S
<1>6. /\ Newest(S, Limit) \in Seq(Nat) /\ Falling(Newest(S, Limit))
      /\ ToSet(Newest(S, Limit)) \subseteq S /\ UpIn(ToSet(Newest(S, Limit)), S)
      /\ Len(Newest(S, Limit)) >= Limit \/ ToSet(Newest(S, Limit)) = S
  BY <1>1, <1>3, NewestIs
<1> QED BY <1>2, <1>5, <1>6 DEF S

\* An answer without a hole that starts with the last message has all that follow one of
\* its messages.
LEMMA NoHole ==
  ASSUME NEW a \in Seq(Nat), Falling(a), NEW n \in Nat, a # << >> => a[1] = n, ~Hole(a)
  PROVE  UpIn(ToSet(a), 1 .. n)
<1> DEFINE len == Len(a)
<1>1. len \in Nat /\ \A i \in 1 .. len : a[i] \in Nat
  BY LenProperties, ElementOfSeq
<1> SUFFICES ASSUME NEW x \in ToSet(a), NEW y \in 1 .. n, x < y PROVE y \in ToSet(a)
  BY DEF UpIn
<1>2. PICK k \in 1 .. len : a[k] = x
  BY ToSetIs
<1>3. a[1] = n /\ 1 \in 1 .. len
  BY <1>1, <1>2, EmptySeq
<1> DEFINE T == {i \in 1 .. len : a[i] >= y}
           m == Max(T)
<1>4. 1 \in T /\ T \in SUBSET (1 .. len)
  BY <1>3
<1> HIDE DEF T, m, len
<1>5. m \in T /\ \A i \in T : m >= i
  BY <1>1, <1>4, MaxOf DEF m
<1>6. m \in 1 .. len /\ a[m] >= y
  BY <1>5 DEF T
<1>7. CASE a[m] = y
  BY <1>6, <1>7, ToSetIs DEF len
<1>8. CASE a[m] # y
  <2>1. a[m] \in Nat /\ y \in Nat /\ x \in Nat /\ a[m] > y
    BY <1>1, <1>2, <1>6, <1>8
  <2>2. k # m /\ (k < m => a[k] >= a[m])
    BY <1>2, <1>6, <2>1 DEF Falling, len
  <2>3. ~(k < m)
    BY <1>2, <2>1, <2>2
  <2>4. m \in 1 .. len - 1 /\ m + 1 \in 1 .. len /\ ~(m >= m + 1)
    BY <1>1, <1>2, <1>6, <2>2, <2>3
  <2>5. m + 1 \notin T
    BY <1>5, <2>4
  <2>6. a[m + 1] < y /\ a[m + 1] \in Nat
    BY <1>1, <2>4, <2>5 DEF T
  <2>7. a[m] - a[m + 1] > 1
    BY <2>1, <2>6
  <2> QED BY <2>4, <2>7 DEF Hole, len
<1> QED BY <1>7, <1>8

LEMMA AllAnswer ==
  ASSUME log \in Seq(Buffers), NEW r \in Requests, r.first \in Nat
  PROVE  /\ RequestBacklogAll(r) \in Seq(Nat) /\ Falling(RequestBacklogAll(r))
         /\ ToSet(RequestBacklogAll(r)) \subseteq Ids
         /\ Hole(RequestBacklogAll(r)) \/ UpIn(ToSet(RequestBacklogAll(r)), Ids)
<1> DEFINE f == r.first
           U == {id \in Ids : id >= f}
           D == {id \in Ids : id < f}
           m == RequestMsgs(Ids, f, -1, r.limit)
           c == RequestMsgs(Ids, -1, f, r.additional)
           a == m \o c
           n == Len(log)
<1>1. r.limit = Limit /\ Limit \in Nat \ {0} /\ r.additional \in Nat /\ f \in Nat /\ n \in Nat
  BY BacklogAssumption, LenProperties DEF Requests
<1>2. /\ U \in SUBSET Nat /\ IsFiniteSet(U) /\ D \in SUBSET Nat /\ IsFiniteSet(D)
      /\ Ids \subseteq Nat
  <2>1. U \subseteq Ids /\ D \subseteq Ids
    OBVIOUS
  <2> QED BY <2>1, StoredIs
<1>3. m = Newest(U, Limit)
  BY <1>1 DEF RequestMsgs
<1>4. c = Newest(D, r.additional)
  <2>1. D = {id \in Ids : id >= -1 /\ (f = -1 \/ id < f)}
    BY <1>1, <1>2
  <2> HIDE DEF D, f
  <2> QED BY <2>1 DEF RequestMsgs
<1>5. RequestBacklogAll(r) = a
  BY DEF RequestBacklogAll
<1> HIDE DEF m, c
<1>6. /\ m \in Seq(Nat) /\ Falling(m) /\ ToSet(m) \subseteq U /\ UpIn(ToSet(m), U)
      /\ Len(m) >= Limit \/ ToSet(m) = U
  BY <1>1, <1>2, <1>3, NewestIs
<1>7. /\ c \in Seq(Nat) /\ Falling(c) /\ ToSet(c) \subseteq D /\ UpIn(ToSet(c), D)
      /\ Len(c) >= r.additional \/ ToSet(c) = D
  BY <1>1, <1>2, <1>4, NewestIs
<1>8. a \in Seq(Nat) /\ ToSet(a) = ToSet(m) \union ToSet(c) /\ Len(a) = Len(m) + Len(c)
      /\ (\A i \in 1 .. Len(m) : a[i] = m[i]) /\ (\A i \in 1 .. Len(c) : a[Len(m) + i] = c[i])
  BY <1>6, <1>7, ConcatIs
<1>9. Len(m) \in Nat /\ Len(c) \in Nat
  BY <1>6, <1>7, LenProperties
<1>10. Falling(a)
  <2>1. ASSUME NEW x \in ToSet(m), NEW y \in ToSet(c) PROVE x >= y
    <3>1. x \in U /\ y \in D
      BY <1>6, <1>7
    <3>2. x \in Nat /\ y \in Nat /\ x >= f /\ y < f
      BY <1>2, <3>1
    <3> QED BY <1>1, <3>2
  <2> QED BY <1>6, <1>7, <2>1, ConcatFalls
<1>11. ToSet(a) \subseteq Ids
  BY <1>6, <1>7, <1>8
\* the first message is the last one stored
<1>12. ASSUME NEW q \in Seq(Nat), Falling(q), NEW T, ToSet(q) \subseteq T, T \subseteq Ids, n \in T,
              UpIn(ToSet(q), T), q # << >>
       PROVE  q[1] = n
  <2>1. 1 \in 1 .. Len(q) /\ Len(q) \in Nat
    BY <1>12, LenProperties, EmptySeq
  <2>2. q[1] \in ToSet(q)
    BY <2>1, ToSetIs
  <2>3. q[1] \in 1 .. n
    BY <1>12, <2>2 DEF Ids
  <2> SUFFICES ASSUME q[1] # n PROVE FALSE
    OBVIOUS
  <2>4. q[1] < n
    BY <1>1, <2>3
  <2>5. n \in ToSet(q)
    BY <1>12, <2>2, <2>4 DEF UpIn
  <2>6. PICK i \in 1 .. Len(q) : q[i] = n
    BY <2>5, ToSetIs
  <2>7. i = 1 \/ 1 < i
    BY <2>1
  <2>8. 1 < i => q[1] >= q[i]
    BY <1>12, <2>1 DEF Falling
  <2> QED BY <1>1, <2>3, <2>4, <2>6, <2>7, <2>8
<1>13. ASSUME a # << >> PROVE a[1] = n
  <2>1. Ids # {} /\ n \in Ids
    <3>1. Len(a) # 0
      BY <1>8, <1>13, EmptySeq
    <3>2. 1 \in 1 .. Len(a)
      BY <1>8, <1>9, <3>1
    <3>3. a[1] \in Ids
      <4>1. a[1] \in ToSet(a)
        BY <1>8, <3>2, ToSetIs
      <4> QED BY <1>11, <4>1
    <3> QED BY <1>1, <3>3 DEF Ids
  <2>2. CASE m # << >>
    <3>1. 1 \in 1 .. Len(m)
      BY <1>6, <1>9, <2>2, EmptySeq
    <3>2. m[1] \in U
      BY <1>6, <3>1, ToSetIs
    <3>3. n \in U
      BY <1>1, <2>1, <3>2 DEF Ids
    <3>4. U \subseteq Ids
      OBVIOUS
    <3> HIDE DEF U
    <3>5. m[1] = n
      BY <1>6, <1>12, <2>2, <3>3, <3>4
    <3> QED BY <1>8, <3>1, <3>5
  <2>3. CASE m = << >>
    <3>1. Len(m) = 0 /\ ToSet(m) = {}
      BY <2>3 DEF ToSet
    <3>2. U = {}
      BY <1>1, <1>6, <3>1
    <3>3. n \in D /\ D \subseteq Ids
      BY <1>1, <1>2, <2>1, <3>2
    <3>4. c # << >>
      <4>1. Len(a) # 0
        BY <1>8, <1>13, EmptySeq
      <4> QED BY <1>8, <1>9, <3>1, <4>1
    <3> HIDE DEF D, U
    <3>5. c[1] = n
      BY <1>7, <1>12, <3>3, <3>4
    <3>6. 1 \in 1 .. Len(c) /\ 0 + 1 = 1
      BY <1>7, <1>9, <3>4, EmptySeq
    <3>7. a[0 + 1] = c[1]
      BY <1>8, <3>1, <3>6
    <3> QED BY <3>5, <3>6, <3>7
  <2> QED BY <2>2, <2>3
<1> HIDE DEF a, n
<1>14. Hole(a) \/ UpIn(ToSet(a), 1 .. n)
  BY <1>1, <1>8, <1>10, <1>13, NoHole
<1> QED BY <1>5, <1>8, <1>10, <1>11, <1>14 DEF Ids, n

\* A live message comes after all that is known when it comes.
Fresh(dn, known) ==
  \A i \in 1 .. Len(dn) : dn[i].b = "live" =>
    /\ \A x \in known : x < dn[i].msgs[1]
    /\ \A j \in 1 .. i - 1 : \A x \in ToSet(dn[j].msgs) : x < dn[i].msgs[1]

\* With each of the messages A of the log l there are those of its buffer that are newer:
\* among A themselves, or among V.
Gapless(A, l, V) == \A x \in A, y \in 1 .. Len(l) : x < y /\ l[y] = l[x] => y \in A \union V

\* An answer has no gap, unless it is a global backlog with a hole in it.
Whole(m, l, V) == (m.b = "all" /\ Hole(m.msgs)) \/ Gapless(ToSet(m.msgs), l, V)

\* A fetch of the buffer b waits for its answer, or for one that will finish it, or it has
\* had all there was, which is known or seen.
Stored(l, b) == {id \in 1 .. Len(l) : l[id] = b}
Finishes(m, b, l, V) ==
  m.b = b /\ (Len(m.msgs) >= Limit \/ Stored(l, b) \subseteq ToSet(m.msgs) \union V)
Ends(b, u, dn, l, kn, V) ==
  \/ \E i \in 1 .. Len(u) : Fetches(u[i], b)
  \/ \E i \in 1 .. Len(dn) : Finishes(dn[i], b, l, V)
  \/ Stored(l, b) \subseteq kn \union V

Known == ToSet(shown) \union ToSet(pending) \union ToSet(requester.buffered)

TypeInv ==
  /\ log \in Seq(Buffers) /\ attached \in BOOLEAN /\ torn \in BOOLEAN
  /\ requester \in [type : {"none", "fixed", "unread", "global"}, waiting : SUBSET Buffers,
                    buffered : Seq(Nat)]
  /\ shown \in Seq(Nat) /\ Rising(shown)
  /\ pending \in Seq(Nat) /\ Climbing(pending) /\ posted \in Nat
  /\ fetching \in [Buffers -> 0 .. Limit]
  /\ up \in Seq(Requests) /\ \A i \in 1 .. Len(up) : RequestOK(up[i], log, shown)
  /\ down \in Seq(Answers) /\ \A i \in 1 .. Len(down) : AnswerOK(down[i], log)
  /\ Known \subseteq Ids

\* Without a core there is nothing, unless messages of the last session were left.
DetachedInv ==
  ~attached =>
    /\ up = << >> /\ down = << >> /\ requester = NoRequester
    /\ \A b \in Buffers : fetching[b] = 0
    /\ ~torn => shown = << >> /\ pending = << >>

StuckInv ==
  /\ NothingStuck
  /\ ~Buffering => requester.waiting = {} /\ requester.buffered = << >>

GapInv ==
  ~torn =>
    /\ Gapless(ToSet(shown), log, Seen(shown, down))
    /\ Gapless(ToSet(pending), log, Seen(shown, down))
    /\ Gapless(ToSet(requester.buffered), log, Seen(shown, down))
    /\ \A i \in 1 .. Len(down) : Whole(down[i], log, Seen(shown, down))

FetchInv ==
  ~torn => \A b \in Buffers :
    fetching[b] > 0 => Ends(b, up, down, log, Known, Seen(shown, down))

FreshInv == Fresh(down, Known)

IInv == TypeInv /\ DetachedInv /\ StuckInv /\ GapInv /\ FetchInv /\ FreshInv

-----------------------------------------------------------------------------
(* The parts of the invariant *)

LEMMA TailIs ==
  ASSUME NEW S, NEW s \in Seq(S), s # << >>
  PROVE  /\ Len(s) \in Nat \ {0} /\ Tail(s) \in Seq(S) /\ Len(Tail(s)) = Len(s) - 1
         /\ Head(s) = s[1] /\ s[1] \in S
         /\ \A i \in 1 .. Len(s) - 1 : i + 1 \in 2 .. Len(s) /\ Tail(s)[i] = s[i + 1]
         /\ \A i \in 2 .. Len(s) : i - 1 \in 1 .. Len(s) - 1 /\ Tail(s)[i - 1] = s[i]
<1>1. Len(s) \in Nat \ {0} /\ 1 \in 1 .. Len(s)
  BY LenProperties, EmptySeq
<1>2. s[1] \in S /\ Head(s) = s[1]
  BY <1>1, ElementOfSeq
<1>3. /\ Tail(s) \in Seq(S) /\ Len(Tail(s)) = Len(s) - 1
      /\ \A i \in 1 .. Len(Tail(s)) : Tail(s)[i] = s[i + 1]
  BY <1>1, HeadTailProperties
<1>4. ASSUME NEW i \in 2 .. Len(s)
      PROVE  i - 1 \in 1 .. Len(s) - 1 /\ Tail(s)[i - 1] = s[i]
  <2>1. i - 1 \in 1 .. Len(s) - 1 /\ (i - 1) + 1 = i
    BY <1>1
  <2> QED BY <1>3, <2>1
<1> QED BY <1>1, <1>2, <1>3, <1>4

LEMMA AppendIs ==
  ASSUME NEW S, NEW s \in Seq(S), NEW e \in S
  PROVE  /\ Len(s) \in Nat /\ Append(s, e) \in Seq(S) /\ Len(Append(s, e)) = Len(s) + 1
         /\ \A i \in 1 .. Len(s) : i \in 1 .. Len(s) + 1 /\ Append(s, e)[i] = s[i]
         /\ Len(s) + 1 \in 1 .. Len(s) + 1 /\ Append(s, e)[Len(s) + 1] = e
         /\ \A i \in 1 .. Len(s) + 1 : i \in 1 .. Len(s) \/ i = Len(s) + 1
<1>1. Len(s) \in Nat
  BY LenProperties
<1>2. /\ Append(s, e) \in Seq(S) /\ Len(Append(s, e)) = Len(s) + 1
      /\ \A i \in 1 .. Len(s) : Append(s, e)[i] = s[i]
      /\ Append(s, e)[Len(s) + 1] = e
  BY AppendProperties
<1> QED BY <1>1, <1>2

LEMMA LiveIs ==
  ASSUME NEW dn, NEW x
  PROVE  x \in Live(dn) <=> \E i \in 1 .. Len(dn) : dn[i].b = "live" /\ x = dn[i].msgs[1]
BY DEF Live

LEMMA LiveTail ==
  ASSUME NEW dn \in Seq(Answers), dn # << >>
  PROVE  /\ Live(Tail(dn)) \subseteq Live(dn)
         /\ \A x \in Live(dn) : x \in Live(Tail(dn)) \/ (dn[1].b = "live" /\ x = dn[1].msgs[1])
<1> DEFINE n == Len(dn)
           t == Tail(dn)
<1>1. /\ n \in Nat \ {0} /\ Len(t) = n - 1
      /\ \A i \in 1 .. n - 1 : i + 1 \in 2 .. n /\ t[i] = dn[i + 1]
      /\ \A i \in 2 .. n : i - 1 \in 1 .. n - 1 /\ t[i - 1] = dn[i]
  BY TailIs
<1> HIDE DEF n, t
<1>2. \A i \in 1 .. n : i = 1 \/ i \in 2 .. n
  BY <1>1
<1>3. \A i \in 2 .. n : i \in 1 .. n
  BY <1>1
<1>4. ASSUME NEW x \in Live(t) PROVE x \in Live(dn)
  <2>1. PICK i \in 1 .. n - 1 : t[i].b = "live" /\ x = t[i].msgs[1]
    BY <1>1, LiveIs
  <2>2. i + 1 \in 1 .. n /\ t[i] = dn[i + 1]
    BY <1>1, <1>3
  <2> QED BY <2>1, <2>2, LiveIs DEF n
<1>5. ASSUME NEW x \in Live(dn), ~(dn[1].b = "live" /\ x = dn[1].msgs[1]) PROVE x \in Live(t)
  <2>1. PICK i \in 1 .. n : dn[i].b = "live" /\ x = dn[i].msgs[1]
    BY LiveIs DEF n
  <2>2. i \in 2 .. n
    BY <1>2, <1>5, <2>1
  <2>3. i - 1 \in 1 .. Len(t) /\ t[i - 1] = dn[i]
    BY <1>1, <2>2
  <2> QED BY <2>1, <2>3, LiveIs
<1> QED BY <1>4, <1>5 DEF t

LEMMA LiveAppend ==
  ASSUME NEW dn \in Seq(Answers), NEW m \in Answers
  PROVE  /\ Live(dn) \subseteq Live(Append(dn, m))
         /\ m.b = "live" => m.msgs[1] \in Live(Append(dn, m))
         /\ \A x \in Live(Append(dn, m)) : x \in Live(dn) \/ (m.b = "live" /\ x = m.msgs[1])
<1> DEFINE n == Len(dn)
           a == Append(dn, m)
<1>1. /\ n \in Nat /\ Len(a) = n + 1
      /\ \A i \in 1 .. n : i \in 1 .. n + 1 /\ a[i] = dn[i]
      /\ n + 1 \in 1 .. n + 1 /\ a[n + 1] = m
      /\ \A i \in 1 .. n + 1 : i \in 1 .. n \/ i = n + 1
  BY AppendIs
<1> HIDE DEF n, a
<1>2. \A x : x \in Live(a) <=> \E i \in 1 .. n + 1 : a[i].b = "live" /\ x = a[i].msgs[1]
  BY <1>1, LiveIs
<1>3. \A x : x \in Live(dn) <=> \E i \in 1 .. n : dn[i].b = "live" /\ x = dn[i].msgs[1]
  BY LiveIs DEF n
<1>4. ASSUME NEW x \in Live(dn) PROVE x \in Live(a)
  <2>1. PICK i \in 1 .. n : dn[i].b = "live" /\ x = dn[i].msgs[1]
    BY <1>3
  <2>2. i \in 1 .. n + 1 /\ a[i] = dn[i]
    BY <1>1
  <2> QED BY <1>2, <2>1, <2>2
<1>5. m.b = "live" => m.msgs[1] \in Live(a)
  BY <1>1, <1>2
<1>6. ASSUME NEW x \in Live(a) PROVE x \in Live(dn) \/ (m.b = "live" /\ x = m.msgs[1])
  <2>1. PICK i \in 1 .. n + 1 : a[i].b = "live" /\ x = a[i].msgs[1]
    BY <1>2
  <2>2. CASE i \in 1 .. n
    BY <1>1, <1>3, <2>1, <2>2
  <2>3. CASE i = n + 1
    BY <1>1, <2>1, <2>3
  <2> QED BY <1>1, <2>2, <2>3
<1> QED BY <1>4, <1>5, <1>6 DEF a

LEMMA FreshTail ==
  ASSUME NEW dn \in Seq(Answers), dn # << >>, NEW known, NEW known2, Fresh(dn, known),
         known2 \subseteq known \union ToSet(dn[1].msgs)
  PROVE  Fresh(Tail(dn), known2)
<1> DEFINE n == Len(dn)
           t == Tail(dn)
<1>1. /\ n \in Nat \ {0} /\ Len(t) = n - 1
      /\ \A i \in 1 .. n - 1 : i + 1 \in 2 .. n /\ t[i] = dn[i + 1]
  BY TailIs
<1> HIDE DEF t
<1> SUFFICES ASSUME NEW i \in 1 .. n - 1, t[i].b = "live"
             PROVE  /\ \A x \in known2 : x < t[i].msgs[1]
                    /\ \A j \in 1 .. i - 1 : \A x \in ToSet(t[j].msgs) : x < t[i].msgs[1]
  BY <1>1 DEF Fresh, t
<1>2. t[i] = dn[i + 1] /\ i + 1 \in 1 .. n /\ 1 \in 1 .. (i + 1) - 1
  BY <1>1
<1> HIDE DEF n
<1>3. /\ \A x \in known : x < dn[i + 1].msgs[1]
      /\ \A j \in 1 .. (i + 1) - 1 : \A x \in ToSet(dn[j].msgs) : x < dn[i + 1].msgs[1]
  BY <1>2 DEF Fresh, n
<1>4. \A x \in known2 : x < t[i].msgs[1]
  BY <1>2, <1>3
<1>5. ASSUME NEW j \in 1 .. i - 1, NEW x \in ToSet(t[j].msgs) PROVE x < t[i].msgs[1]
  <2>1. j \in 1 .. n - 1 /\ j + 1 \in 1 .. (i + 1) - 1
    BY <1>1, <1>2
  <2>2. t[j] = dn[j + 1]
    BY <1>1, <2>1
  <2> QED BY <1>2, <1>3, <2>1, <2>2
<1> QED BY <1>4, <1>5

LEMMA FreshAppend ==
  ASSUME NEW dn \in Seq(Answers), NEW m \in Answers, NEW known, Fresh(dn, known),
         m.b = "live" => /\ \A x \in known : x < m.msgs[1]
                         /\ \A j \in 1 .. Len(dn) : \A x \in ToSet(dn[j].msgs) : x < m.msgs[1]
  PROVE  Fresh(Append(dn, m), known)
<1> DEFINE n == Len(dn)
           a == Append(dn, m)
<1>1. /\ n \in Nat /\ Len(a) = n + 1
      /\ \A i \in 1 .. n : a[i] = dn[i]
      /\ a[n + 1] = m
      /\ \A i \in 1 .. n + 1 : i \in 1 .. n \/ i = n + 1
  BY AppendIs
<1> HIDE DEF n, a
<1> SUFFICES ASSUME NEW i \in 1 .. n + 1, a[i].b = "live"
             PROVE  /\ \A x \in known : x < a[i].msgs[1]
                    /\ \A j \in 1 .. i - 1 : \A x \in ToSet(a[j].msgs) : x < a[i].msgs[1]
  BY <1>1 DEF Fresh, a
<1>2. \A j \in 1 .. i - 1 : j \in 1 .. n /\ a[j] = dn[j]
  BY <1>1
<1>3. CASE i \in 1 .. n
  <2>1. a[i] = dn[i]
    BY <1>1, <1>3
  <2>2. /\ \A x \in known : x < dn[i].msgs[1]
        /\ \A j \in 1 .. i - 1 : \A x \in ToSet(dn[j].msgs) : x < dn[i].msgs[1]
    BY <1>3, <2>1 DEF Fresh, n
  <2> QED BY <1>2, <2>1, <2>2
<1>4. CASE i = n + 1
  BY <1>1, <1>2, <1>4 DEF n
<1> QED BY <1>1, <1>3, <1>4

LEMMA GaplessMore ==
  ASSUME NEW A, NEW l, NEW V, NEW W, Gapless(A, l, V), V \subseteq A \union W
  PROVE  Gapless(A, l, W)
BY DEF Gapless

LEMMA GaplessBoth ==
  ASSUME NEW A, NEW B, NEW l, NEW V, Gapless(A, l, V), Gapless(B, l, V)
  PROVE  Gapless(A \union B, l, V)
BY DEF Gapless

LEMMA GaplessStored ==
  ASSUME NEW l \in Seq(Buffers), NEW b \in Buffers, NEW A, NEW V, NEW W, Gapless(A, l, V),
         A \subseteq 1 .. Len(l), V \union {Len(l) + 1} \subseteq W
  PROVE  Gapless(A, Append(l, b), W)
<1> DEFINE n == Len(l)
           k == Append(l, b)
<1>1. /\ n \in Nat /\ Len(k) = n + 1
      /\ \A i \in 1 .. n : k[i] = l[i]
      /\ \A i \in 1 .. n + 1 : i \in 1 .. n \/ i = n + 1
  BY AppendIs
<1> HIDE DEF k, n
<1> SUFFICES ASSUME NEW x \in A, NEW y \in 1 .. n + 1, x < y, k[y] = k[x] PROVE y \in A \union W
  BY <1>1 DEF Gapless, k
<1>2. x \in 1 .. n /\ k[x] = l[x]
  BY <1>1 DEF n
<1>3. CASE y \in 1 .. n
  <2>1. l[y] = l[x]
    BY <1>1, <1>2, <1>3
  <2>2. y \in A \union V
    BY <1>3, <2>1 DEF Gapless, n
  <2> QED BY <2>2
<1>4. CASE y = n + 1
  BY <1>4 DEF n
<1> QED BY <1>1, <1>3, <1>4

\* A delivery of messages of the log l to what has no gap, V being seen before and W after.
Completes(sh, pe, list, sh2, pe2, l, V, W) ==
  /\ Delivered(sh, pe, list, sh2, pe2)
  /\ ToSet(sh) \subseteq V /\ V \subseteq W /\ ToSet(sh2) \subseteq W
  /\ ToSet(sh2) \subseteq Nat /\ ToSet(pe2) \subseteq Nat
  /\ Gapless(ToSet(sh), l, V) /\ Gapless(ToSet(pe), l, V) /\ Gapless(ToSet(list), l, V)

LEMMA DeliveredGapless ==
  ASSUME NEW sh, NEW pe, NEW list, NEW sh2, NEW pe2, NEW l, NEW V, NEW W,
         Completes(sh, pe, list, sh2, pe2, l, V, W)
  PROVE  Gapless(ToSet(sh2), l, W) /\ Gapless(ToSet(pe2), l, W)
<1>0. /\ Delivered(sh, pe, list, sh2, pe2)
      /\ ToSet(sh) \subseteq V /\ V \subseteq W /\ ToSet(sh2) \subseteq W
      /\ ToSet(sh2) \subseteq Nat /\ ToSet(pe2) \subseteq Nat
      /\ Gapless(ToSet(sh), l, V) /\ Gapless(ToSet(pe), l, V) /\ Gapless(ToSet(list), l, V)
  BY DEF Completes
<1>1. /\ ToSet(sh) \subseteq ToSet(sh2)
      /\ ToSet(sh2) \union ToSet(pe2) = ToSet(sh) \union ToSet(pe) \union ToSet(list)
      /\ \A x \in ToSet(sh2) \ ToSet(sh), y \in ToSet(pe2) : y <= x
  BY <1>0 DEF Delivered
<1>2. ASSUME NEW x \in ToSet(sh2) \union ToSet(pe2), NEW y \in 1 .. Len(l), x < y, l[y] = l[x]
      PROVE  /\ y \in ToSet(sh2) \union ToSet(pe2) \union W
             /\ x \in ToSet(sh) => y \in W
  BY <1>0, <1>1, <1>2 DEF Gapless
<1>3. ASSUME NEW x \in ToSet(sh2), NEW y \in 1 .. Len(l), x < y, l[y] = l[x]
      PROVE  y \in ToSet(sh2) \union W
  <2>1. CASE x \in ToSet(sh)
    BY <1>0, <1>2, <1>3, <2>1
  <2>2. CASE x \notin ToSet(sh)
    <3>1. ASSUME y \in ToSet(pe2) PROVE FALSE
      <4>1. y <= x /\ x \in Nat /\ y \in Nat
        BY <1>0, <1>1, <2>2, <3>1
      <4> QED BY <1>3, <4>1
    <3> QED BY <1>0, <1>2, <1>3, <3>1
  <2> QED BY <2>1, <2>2
<1>4. ASSUME NEW x \in ToSet(pe2), NEW y \in 1 .. Len(l), x < y, l[y] = l[x]
      PROVE  y \in ToSet(pe2) \union W
  BY <1>0, <1>2, <1>4
<1> QED BY <1>3, <1>4 DEF Gapless

LEMMA RequestKept ==
  ASSUME NEW r, NEW l \in Seq(Buffers), NEW l2 \in Seq(Buffers), NEW sh, NEW sh2, RequestOK(r, l, sh),
         ToSet(sh) \subseteq 1 .. Len(l), ToSet(sh) \subseteq ToSet(sh2),
         \A i \in 1 .. Len(l) : l2[i] = l[i]
  PROVE  RequestOK(r, l2, sh2)
<1>1. r.last \in ToSet(sh) => r.last \in ToSet(sh2) /\ l2[r.last] = l[r.last]
  OBVIOUS
<1> QED BY <1>1 DEF RequestOK

LEMMA StoredIn ==
  ASSUME NEW b
  PROVE  In(b) = Stored(log, b)
BY DEF In, Ids, Stored

LEMMA EndsMore ==
  ASSUME NEW b, NEW u, NEW dn, NEW l, NEW kn, NEW kn2, NEW V, NEW W, Ends(b, u, dn, l, kn, V),
         kn \union V \subseteq kn2 \union W, V \subseteq W
  PROVE  Ends(b, u, dn, l, kn2, W)
<1>1. ASSUME NEW i \in 1 .. Len(dn), Finishes(dn[i], b, l, V) PROVE Finishes(dn[i], b, l, W)
  BY <1>1 DEF Finishes
<1> QED BY <1>1 DEF Ends

-----------------------------------------------------------------------------
(* What the client asks for, and what becomes of an answer *)

LEMMA InsertedMessages ==
  ASSUME TypeInv, NEW list \in Seq(Nat), list # << >> => Climbing(list) \/ Falling(list),
         InsertMessages(list)
  PROVE  /\ Delivered(shown, pending, list, shown', pending')
         /\ posted' \in Nat
         /\ (pending # << >> => posted > 0) => (pending' # << >> => posted' > 0)
<1>1. /\ shown \in Seq(Nat) /\ Rising(shown) /\ pending \in Seq(Nat) /\ Climbing(pending)
      /\ posted \in Nat
  BY DEF TypeInv
<1>2. CASE list = << >>
  <2>1. UNCHANGED modelVars
    BY <1>2 DEF InsertMessages
  <2>2. shown' = shown /\ pending' = pending /\ posted' = posted
    BY <2>1 DEF modelVars
  <2>3. ToSet(list) = {}
    BY <1>2 DEF ToSet
  <2> QED BY <1>1, <2>2, <2>3 DEF Delivered
<1>3. CASE list # << >> /\ pending = << >>
  <2>1. /\ shown' = InsertGracefully(shown, list) /\ pending' = Remaining(shown, list)
        /\ posted' = IF pending' = << >> THEN posted ELSE posted + 1
    BY <1>3 DEF InsertMessages
  <2>2. Delivered(shown, << >>, list, shown', pending')
    BY <1>1, <1>3, <2>1, GracefulIs
  <2>3. posted' \in Nat /\ (pending' # << >> => posted' > 0)
    BY <1>1, <2>1
  <2> QED BY <1>3, <2>2, <2>3
<1>4. CASE list # << >> /\ pending # << >>
  <2>1. pending' = Ascending(pending \o list) /\ shown' = shown /\ posted' = posted
    BY <1>4 DEF InsertMessages
  <2>2. pending \o list \in Seq(Nat) /\ ToSet(pending \o list) = ToSet(pending) \union ToSet(list)
    BY <1>1, ConcatIs
  <2>3. /\ pending' \in Seq(Nat) /\ Climbing(pending')
        /\ ToSet(pending') = ToSet(pending) \union ToSet(list)
    <3> DEFINE q == pending \o list
    <3> HIDE DEF q
    <3>1. Ascending(q) \in Seq(Nat) /\ Climbing(Ascending(q)) /\ ToSet(Ascending(q)) = ToSet(q)
      BY <2>2, AscendingIs DEF q
    <3> QED BY <2>1, <2>2, <3>1 DEF q
  <2>4. ToSet(shown') \union ToSet(pending') = ToSet(shown) \union ToSet(pending) \union ToSet(list)
    BY <2>1, <2>3
  <2>5. ToSet(shown') \ ToSet(shown) = {} /\ ToSet(shown) \subseteq ToSet(shown')
    BY <2>1
  <2>6. shown' \in Seq(Nat) /\ Rising(shown')
    BY <1>1, <2>1
  <2>7. Delivered(shown, pending, list, shown', pending')
    BY <2>3, <2>4, <2>5, <2>6 DEF Delivered
  <2>8. posted' \in Nat /\ (posted > 0 => posted' > 0)
    BY <1>1, <2>1
  <2> QED BY <1>4, <2>7, <2>8
<1> QED BY <1>2, <1>3, <1>4

Askable(S, read) == S \in SUBSET Buffers /\ read \in Reads

LEMMA AsksIs ==
  ASSUME NEW S, NEW type, NEW read, Askable(S, read), log \in Seq(Buffers)
  PROVE  /\ Asks(S, type, read) \in Seq(Requests)
         /\ \A i \in 1 .. Len(Asks(S, type, read)) : RequestOK(Asks(S, type, read)[i], log, shown)
         /\ \A b \in S : \E i \in 1 .. Len(Asks(S, type, read)) : Asks(S, type, read)[i].b = b
<1> DEFINE s == SetToSeq(S)
           n == Len(s)
           a == Asks(S, type, read)
           one(b) == IF type = "fixed" THEN Ask(b, -1, -1, 0) ELSE Ask(b, read[b], -1, Additional)
<1>0. S \in SUBSET Buffers /\ read \in Reads
  BY DEF Askable
<1>1. Limit \in Nat /\ Additional \in Nat /\ IsFiniteSet(Buffers)
  BY BacklogAssumption
<1>2. IsFiniteSet(S)
  BY <1>0, <1>1, FS_Subset
<1>3. s \in Seq(Buffers) /\ ToSet(s) = S
  BY <1>0, <1>2, SetToSeqIs
<1> HIDE DEF s
<1>4. n \in Nat /\ DOMAIN s = 1 .. n /\ \A i \in 1 .. n : s[i] \in Buffers
  BY <1>3, LenProperties, ElementOfSeq
<1>5. ASSUME NEW b \in Buffers
      PROVE  one(b) \in Requests /\ RequestOK(one(b), log, shown) /\ one(b).b = b
  <2>1. read[b] \in Nat
    <3>1. Ids \in SUBSET Nat
      BY StoredIs
    <3>2. read \in [Buffers -> {0} \union Ids]
      BY <1>0 DEF Reads
    <3>3. read[b] \in {0} \union Ids
      BY <3>2
    <3>4. \A x \in Ids : x \in Nat
      BY <3>1
    <3>5. \A x \in {0} \union Ids : x \in Nat
      BY <3>4
    <3> DEFINE v == read[b]
    <3> HIDE DEF v
    <3>6. v \in Nat
      BY <3>3, <3>5 DEF v
    <3> QED BY <3>6 DEF v
  <2>2. CASE type = "fixed"
    <3>1. one(b) = [b |-> b, first |-> -1, last |-> -1, limit |-> Limit, additional |-> 0]
      BY <2>2 DEF Ask
    <3>2. one(b) \in Requests
      BY <1>1, <3>1 DEF Requests
    <3>3. one(b).b = b /\ one(b).first = -1 /\ one(b).last = -1 /\ one(b).additional = 0
      BY <3>1
    <3> HIDE DEF one
    <3> QED BY <3>2, <3>3 DEF RequestOK, Fetches
  <2>3. CASE type # "fixed"
    <3>1. one(b) = [b |-> b, first |-> read[b], last |-> -1, limit |-> Limit,
                    additional |-> Additional]
      BY <2>3 DEF Ask
    <3>2. one(b) \in Requests
      BY <1>1, <2>1, <3>1 DEF Requests
    <3>3. one(b).b = b /\ one(b).first = read[b] /\ one(b).last = -1
      BY <3>1
    <3> HIDE DEF one
    <3> QED BY <2>1, <3>2, <3>3 DEF RequestOK
  <2> QED BY <2>2, <2>3
<1>6. a = [i \in 1 .. n |-> one(s[i])]
  BY <1>4 DEF Asks, s
<1> HIDE DEF one, a
<1>7. \A i \in 1 .. n : a[i] = one(s[i]) /\ a[i] \in Requests /\ RequestOK(a[i], log, shown)
                        /\ a[i].b = s[i]
  BY <1>4, <1>5, <1>6
<1>8. a \in Seq(Requests) /\ Len(a) = n
  <2>1. a \in [1 .. n -> Requests]
    BY <1>6, <1>7
  <2> QED BY <1>4, <2>1, SeqDef
<1>9. ASSUME NEW b \in S PROVE \E i \in 1 .. n : a[i].b = b
  <2>1. PICK i \in 1 .. n : s[i] = b
    BY <1>3, ToSetIs
  <2> QED BY <1>7, <2>1
<1> QED BY <1>7, <1>8, <1>9 DEF a

LEMMA OldestIs ==
  ASSUME TypeInv, NEW b
  PROVE  Oldest(b) = -1 \/ (Oldest(b) \in ToSet(shown) /\ Oldest(b) \in Nat /\ log[Oldest(b)] = b)
<1> DEFINE I == {i \in 1 .. Len(shown) : log[shown[i]] = b}
           row == SelectInSeq(shown, LAMBDA id : log[id] = b)
<1>1. shown \in Seq(Nat) /\ Len(shown) \in Nat /\ \A i \in 1 .. Len(shown) : shown[i] \in Nat
  BY LenProperties, ElementOfSeq DEF TypeInv
<1>2. row = IF I # {} THEN Min(I) ELSE 0
  BY DEF SelectInSeq
<1>3. Oldest(b) = IF row = 0 THEN -1 ELSE shown[row]
  BY DEF Oldest
<1> HIDE DEF row
<1>4. CASE I = {}
  BY <1>2, <1>3, <1>4
<1>5. CASE I # {}
  <2>1. I \in SUBSET Nat
    BY <1>1
  <2>2. Min(I) \in I
    BY <1>5, <2>1, MinOf
  <2>3. Min(I) \in 1 .. Len(shown) /\ log[shown[Min(I)]] = b /\ Min(I) # 0
    BY <1>1, <2>2
  <2>4. Oldest(b) = shown[Min(I)]
    BY <1>2, <1>3, <1>5, <2>3
  <2>5. shown[Min(I)] \in ToSet(shown) /\ shown[Min(I)] \in Nat
    BY <1>1, <2>3, ToSetIs
  <2> QED BY <2>3, <2>4, <2>5
<1> QED BY <1>4, <1>5

\* A list handed over to the model, or kept until more answers have come.
LEMMA ReceivedIs ==
  ASSUME TypeInv, StuckInv, NEW b \in Buffers, NEW msgs \in Seq(Nat), Falling(msgs),
         ReceiveBacklog(b, msgs)
  PROVE  \E list \in Seq(Nat) :
           /\ InsertMessages(list) /\ (list # << >> => Climbing(list) \/ Falling(list))
           /\ requester' \in [type : {"none", "fixed", "unread", "global"}, waiting : SUBSET Buffers,
                              buffered : Seq(Nat)]
           /\ ToSet(list) \subseteq ToSet(requester.buffered) \union ToSet(msgs)
           /\ ToSet(list) \union ToSet(requester'.buffered)
                = ToSet(requester.buffered) \union ToSet(msgs)
           /\ ToSet(list) \in {{}, ToSet(msgs), ToSet(requester.buffered) \union ToSet(msgs)}
           /\ ToSet(requester'.buffered) \in
                {{}, ToSet(requester.buffered), ToSet(requester.buffered) \union ToSet(msgs)}
           /\ requester'.type = requester.type
           /\ requester'.waiting \subseteq requester.waiting \ {b}
           /\ requester'.buffered # << >> => requester'.waiting # {}
           /\ ~Buffering => requester'.waiting = {} /\ requester'.buffered = << >>
<1> DEFINE R == [type : {"none", "fixed", "unread", "global"}, waiting : SUBSET Buffers,
                 buffered : Seq(Nat)]
           all == requester.buffered \o msgs
<1>1. requester \in R /\ requester.buffered \in Seq(Nat) /\ requester.waiting \in SUBSET Buffers
  BY DEF TypeInv
<1>2. all \in Seq(Nat) /\ ToSet(all) = ToSet(requester.buffered) \union ToSet(msgs)
  BY <1>1, ConcatIs
<1>3. << >> \in Seq(Nat) /\ ToSet(<< >>) = {}
  BY EmptySeq DEF ToSet
<1>4. ~Buffering => requester.waiting = {} /\ requester.buffered = << >>
  BY DEF StuckInv
<1>5. \/ ~Buffering /\ InsertMessages(msgs) /\ requester' = requester
      \/ /\ Buffering
         /\ InsertMessages(Ascending(all))
         /\ requester' = [requester EXCEPT !.waiting = {}, !.buffered = << >>]
      \/ /\ Buffering /\ requester.waiting \ {b} # {}
         /\ requester' = [requester EXCEPT !.waiting = requester.waiting \ {b}, !.buffered = all]
         /\ UNCHANGED modelVars
  BY DEF ReceiveBacklog
<1> HIDE DEF all
<1>6. CASE ~Buffering /\ InsertMessages(msgs) /\ requester' = requester
  <2> WITNESS msgs \in Seq(Nat)
  <2>1. requester'.buffered = << >> /\ requester'.waiting = {} /\ requester.buffered = << >>
    BY <1>4, <1>6
  <2>2. ToSet(requester'.buffered) = {} /\ ToSet(requester.buffered) = {}
    BY <1>3, <2>1
  <2>3. requester' \in R /\ requester'.type = requester.type
    BY <1>1, <1>6
  <2>4. requester'.waiting \subseteq requester.waiting \ {b}
    BY <2>1
  <2> QED BY <1>6, <2>1, <2>2, <2>3, <2>4
<1>7. CASE /\ Buffering
           /\ InsertMessages(Ascending(all))
           /\ requester' = [requester EXCEPT !.waiting = {}, !.buffered = << >>]
  <2>1. Ascending(all) \in Seq(Nat) /\ Climbing(Ascending(all)) /\ ToSet(Ascending(all)) = ToSet(all)
    BY <1>2, AscendingIs
  <2> Ascending(all) \in Seq(Nat)
    BY <2>1
  <2> WITNESS Ascending(all) \in Seq(Nat)
  <2>2. requester' \in R /\ requester'.type = requester.type /\ requester'.waiting = {}
        /\ requester'.buffered = << >>
    BY <1>1, <1>3, <1>7
  <2>3. ToSet(requester'.buffered) = {}
    BY <1>3, <2>2
  <2> QED BY <1>2, <1>7, <2>1, <2>2, <2>3
<1>8. CASE /\ Buffering /\ requester.waiting \ {b} # {}
           /\ requester' = [requester EXCEPT !.waiting = requester.waiting \ {b}, !.buffered = all]
           /\ UNCHANGED modelVars
  <2> WITNESS << >> \in Seq(Nat)
  <2>1. InsertMessages(<< >>)
    BY <1>8 DEF InsertMessages
  <2>2. /\ requester' \in R /\ requester'.type = requester.type
        /\ requester'.waiting = requester.waiting \ {b} /\ requester'.buffered = all
    BY <1>1, <1>2, <1>8
  <2> QED BY <1>2, <1>3, <1>8, <2>1, <2>2
<1> QED BY <1>5, <1>6, <1>7, <1>8

-----------------------------------------------------------------------------
(* Every step keeps the invariant *)

LEMMA OutstandingIs ==
  ASSUME TypeInv, NEW b
  PROVE  b \in Outstanding <=> \/ \E i \in 1 .. Len(up) : up[i].b = b
                               \/ \E i \in 1 .. Len(down) : down[i].b = b
<1>1. DOMAIN up = 1 .. Len(up) /\ DOMAIN down = 1 .. Len(down)
  BY LenProperties DEF TypeInv
<1> QED BY <1>1 DEF Outstanding

\* What is known has been stored, and what is seen is at least what is shown.
LEMMA SeenIs ==
  ASSUME TypeInv
  PROVE  /\ ToSet(shown) \subseteq Seen(shown, down)
         /\ Known \subseteq 1 .. Len(log)
         /\ ToSet(shown) \subseteq 1 .. Len(log)
         /\ ToSet(pending) \subseteq 1 .. Len(log)
         /\ ToSet(requester.buffered) \subseteq 1 .. Len(log)
BY DEF TypeInv, Seen, Known, Ids

\* What the receipt of an answer or of a live message does: it is known from then on, and
\* what it leaves has no gaps.
Receives ==
  /\ down # << >> /\ down' = Tail(down) /\ UNCHANGED <<log, attached, up>>
  /\ shown' \in Seq(Nat) /\ Rising(shown') /\ pending' \in Seq(Nat) /\ Climbing(pending')
  /\ ToSet(shown) \subseteq ToSet(shown') /\ Known' = Known \union ToSet(down[1].msgs)
  /\ down[1].b = "live" => down[1].msgs[1] \in ToSet(shown')
  /\ posted' \in Nat /\ ((pending # << >> => posted > 0) => (pending' # << >> => posted' > 0))
  /\ requester' \in [type : {"none", "fixed", "unread", "global"}, waiting : SUBSET Buffers,
                     buffered : Seq(Nat)]
  /\ requester'.type = requester.type
  /\ requester'.waiting \subseteq requester.waiting \ {down[1].b}
  /\ requester'.buffered # << >> => requester'.waiting # {}
  /\ ~Buffering => requester'.waiting = {} /\ requester'.buffered = << >>
  /\ torn' \in BOOLEAN
  /\ ~torn' => /\ ~torn
               /\ Gapless(ToSet(shown'), log, Seen(shown', down'))
               /\ Gapless(ToSet(pending'), log, Seen(shown', down'))
               /\ Gapless(ToSet(requester'.buffered), log, Seen(shown', down'))
  /\ fetching' \in [Buffers -> 0 .. Limit]
  /\ \A b \in Buffers : fetching'[b] > 0 =>
       fetching[b] > 0 /\ (down[1].b = b => Len(down[1].msgs) < Limit)

\* Nothing that is seen gets out of sight.
LEMMA SeenGrows ==
  ASSUME TypeInv, down # << >>, down' = Tail(down), ToSet(shown) \subseteq ToSet(shown'),
         down[1].b = "live" => down[1].msgs[1] \in ToSet(shown')
  PROVE  /\ ToSet(shown) \subseteq Seen(shown, down)
         /\ Seen(shown, down) \subseteq Seen(shown', down')
         /\ ToSet(shown') \subseteq Seen(shown', down')
<1>1. down \in Seq(Answers)
  BY DEF TypeInv
<1>2. \A x \in Live(down) : x \in Live(down') \/ x \in ToSet(shown')
  BY <1>1, LiveTail
<1> QED BY <1>2 DEF Seen

LEMMA ReceivesKeeps ==
  ASSUME IInv, Receives
  PROVE  IInv'
<1> DEFINE m == down[1]
           n == Len(down)
           V == Seen(shown, down)
           W == Seen(shown', down')
           X == ToSet(down[1].msgs)
<1>1. TypeInv /\ DetachedInv /\ StuckInv /\ GapInv /\ FetchInv /\ FreshInv
  BY DEF IInv
<1>2. posted' \in Nat /\ ((pending # << >> => posted > 0) => (pending' # << >> => posted' > 0))
  BY DEF Receives
<1>3. /\ down \in Seq(Answers) /\ down # << >> /\ down' = Tail(down)
      /\ log' = log /\ attached' = attached /\ up' = up
  BY <1>1 DEF Receives, TypeInv
<1>4. /\ n \in Nat \ {0} /\ down' \in Seq(Answers) /\ Len(down') = n - 1 /\ m \in Answers
      /\ \A i \in 1 .. n - 1 : i + 1 \in 2 .. n /\ down'[i] = down[i + 1]
      /\ \A i \in 2 .. n : i - 1 \in 1 .. n - 1 /\ down'[i - 1] = down[i]
  BY <1>3, TailIs
<1>5. (\A i \in 1 .. n : i = 1 \/ i \in 2 .. n) /\ (\A i \in 2 .. n : i \in 1 .. n) /\ 1 \in 1 .. n
  BY <1>4
<1>6. \A i \in 1 .. n : AnswerOK(down[i], log)
  BY <1>1 DEF TypeInv
<1>7. /\ ToSet(shown) \subseteq ToSet(shown')
      /\ shown' \in Seq(Nat) /\ Rising(shown') /\ pending' \in Seq(Nat) /\ Climbing(pending')
  BY DEF Receives
<1>9. V \subseteq W /\ ToSet(shown) \subseteq V /\ ToSet(shown') \subseteq W
  BY <1>1, SeenGrows DEF Receives
<1>11. Known' = Known \union X
  BY DEF Receives
<1>12. X \subseteq 1 .. Len(log) /\ Known \subseteq 1 .. Len(log) /\ ToSet(shown) \subseteq 1 .. Len(log)
  <2>1. AnswerOK(m, log)
    BY <1>5, <1>6
  <2> QED BY <1>1, <2>1, SeenIs DEF AnswerOK
<1>13. TypeInv'
  <2>1. log' \in Seq(Buffers) /\ attached' \in BOOLEAN /\ torn' \in BOOLEAN
    BY <1>1, <1>3 DEF TypeInv, Receives
  <2>2. requester' \in [type : {"none", "fixed", "unread", "global"}, waiting : SUBSET Buffers,
                        buffered : Seq(Nat)]
    BY DEF Receives
  <2>3. fetching' \in [Buffers -> 0 .. Limit]
    BY DEF Receives
  <2>4. up' \in Seq(Requests) /\ \A i \in 1 .. Len(up') : RequestOK(up'[i], log', shown')
    <3>1. up \in Seq(Requests) /\ (\A i \in 1 .. Len(up) : RequestOK(up[i], log, shown))
          /\ log \in Seq(Buffers)
      BY <1>1 DEF TypeInv
    <3>2. \A i \in 1 .. Len(up) : RequestOK(up[i], log, shown')
      BY <1>7, <1>12, <3>1, RequestKept
    <3> QED BY <1>3, <3>1, <3>2
  <2>5. \A i \in 1 .. Len(down') : AnswerOK(down'[i], log')
    <3> SUFFICES ASSUME NEW i \in 1 .. n - 1 PROVE AnswerOK(down'[i], log')
      BY <1>4
    <3>1. i + 1 \in 1 .. n /\ down'[i] = down[i + 1]
      BY <1>4, <1>5
    <3> QED BY <1>3, <1>6, <3>1
  <2>6. (Known \subseteq Ids)'
    <3>1. Ids' = 1 .. Len(log)
      BY <1>3 DEF Ids
    <3> QED BY <1>11, <1>12, <3>1
  <2> QED BY <1>2, <1>4, <1>7, <2>1, <2>2, <2>3, <2>4, <2>5, <2>6 DEF TypeInv
<1>14. DetachedInv'
  <2>1. attached
    BY <1>1, <1>3 DEF DetachedInv
  <2> QED BY <1>3, <2>1 DEF DetachedInv
<1>15. StuckInv'
  <2>1. requester.waiting \subseteq Outstanding /\ (pending # << >> => posted > 0)
    BY <1>1 DEF StuckInv, NothingStuck
  <2>2. ASSUME NEW b \in requester'.waiting PROVE b \in Outstanding'
    <3>1. b \in requester.waiting /\ b # m.b
      BY <2>2 DEF Receives
    <3>2. b \in Outstanding
      BY <2>1, <3>1
    <3>3. (\E i \in 1 .. Len(up) : up[i].b = b) \/ (\E i \in 1 .. n : down[i].b = b)
      BY <1>1, <3>2, OutstandingIs
    <3>4. (\E i \in 1 .. Len(up') : up'[i].b = b) \/ (\E i \in 1 .. Len(down') : down'[i].b = b)
      <4>1. CASE \E i \in 1 .. Len(up) : up[i].b = b
        BY <1>3, <4>1
      <4>2. CASE \E i \in 1 .. n : down[i].b = b
        <5>1. PICK i \in 1 .. n : down[i].b = b
          BY <4>2
        <5>2. i \in 2 .. n
          BY <1>5, <3>1, <5>1
        <5>3. i - 1 \in 1 .. Len(down') /\ down'[i - 1] = down[i]
          BY <1>4, <5>2
        <5> QED BY <5>1, <5>3
      <4> QED BY <3>3, <4>1, <4>2
    <3>5. (b \in Outstanding <=> \/ \E i \in 1 .. Len(up) : up[i].b = b
                                 \/ \E i \in 1 .. Len(down) : down[i].b = b)'
      <4>1. DOMAIN up' = 1 .. Len(up') /\ DOMAIN down' = 1 .. Len(down')
        BY <1>3, <1>4, <1>13, LenProperties DEF TypeInv
      <4> QED BY <4>1 DEF Outstanding
    <3> QED BY <3>4, <3>5
  <2>3. ~Buffering' => requester'.waiting = {} /\ requester'.buffered = << >>
    BY DEF Receives, Buffering
  <2>4. requester'.buffered # << >> => requester'.waiting # {}
    BY DEF Receives
  <2>5. pending' # << >> => posted' > 0
    BY <1>2, <2>1
  <2> QED BY <2>2, <2>3, <2>4, <2>5 DEF StuckInv, NothingStuck
<1>16. GapInv'
  <2> SUFFICES ASSUME ~torn'
               PROVE  /\ Gapless(ToSet(shown'), log, W)
                      /\ Gapless(ToSet(pending'), log, W)
                      /\ Gapless(ToSet(requester'.buffered), log, W)
                      /\ \A i \in 1 .. n - 1 : Whole(down'[i], log, W)
    BY <1>3, <1>4 DEF GapInv
  <2>1. /\ ~torn /\ Gapless(ToSet(shown'), log, W) /\ Gapless(ToSet(pending'), log, W)
        /\ Gapless(ToSet(requester'.buffered), log, W)
    BY DEF Receives
  <2>2. \A i \in 1 .. n : Whole(down[i], log, V)
    BY <1>1, <2>1 DEF GapInv
  <2>6. ASSUME NEW i \in 1 .. n - 1 PROVE Whole(down'[i], log, W)
    <3>1. i + 1 \in 1 .. n /\ down'[i] = down[i + 1]
      BY <1>4, <1>5
    <3>2. Whole(down[i + 1], log, V)
      BY <2>2, <3>1
    <3> HIDE DEF V, W
    <3>3. Gapless(ToSet(down[i + 1].msgs), log, V) => Gapless(ToSet(down[i + 1].msgs), log, W)
      BY <1>9, GaplessMore
    <3> QED BY <3>1, <3>2, <3>3 DEF Whole
  <2> QED BY <2>1, <2>6
<1>17. FetchInv'
  <2> SUFFICES ASSUME ~torn', NEW b \in Buffers, fetching'[b] > 0
               PROVE  Ends(b, up, down', log, Known', W)
    BY <1>3 DEF FetchInv
  <2>1. ~torn /\ fetching[b] > 0 /\ (m.b = b => Len(m.msgs) < Limit)
    BY DEF Receives
  <2>2. Ends(b, up, down, log, Known, V)
    BY <1>1, <2>1 DEF FetchInv
  <2> HIDE DEF V, W, m, X
  <2>3. CASE \E i \in 1 .. Len(up) : Fetches(up[i], b)
    BY <2>3 DEF Ends
  <2>4. CASE \E i \in 1 .. n : Finishes(down[i], b, log, V)
    <3>1. PICK i \in 1 .. n : Finishes(down[i], b, log, V)
      BY <2>4
    <3>2. CASE i = 1
      <4>1. Finishes(m, b, log, V)
        BY <3>1, <3>2 DEF m
      <4>2. Len(m.msgs) \in Nat /\ Limit \in Nat
        BY <1>4, BacklogAssumption, LenProperties DEF Answers
      <4>3. m.b = b /\ (Len(m.msgs) >= Limit \/ Stored(log, b) \subseteq ToSet(m.msgs) \union V)
        BY <4>1 DEF Finishes
      <4>4. Stored(log, b) \subseteq ToSet(m.msgs) \union V
        BY <2>1, <4>2, <4>3
      <4>5. Stored(log, b) \subseteq Known' \union W
        BY <1>9, <1>11, <4>4 DEF X, m
      <4> QED BY <4>5 DEF Ends
    <3>3. CASE i # 1
      <4>1. i \in 2 .. n
        BY <1>5, <3>3
      <4>2. i - 1 \in 1 .. Len(down') /\ down'[i - 1] = down[i]
        BY <1>4, <4>1
      <4>3. Finishes(down'[i - 1], b, log, W)
        BY <1>9, <3>1, <4>2 DEF Finishes
      <4> QED BY <4>2, <4>3 DEF Ends
    <3> QED BY <3>2, <3>3
  <2>5. CASE Stored(log, b) \subseteq Known \union V
    <3>1. Stored(log, b) \subseteq Known' \union W
      BY <1>9, <1>11, <2>5
    <3> QED BY <3>1 DEF Ends
  <2> QED BY <2>2, <2>3, <2>4, <2>5 DEF Ends
<1>18. FreshInv'
  <2>1. Fresh(down, Known)
    BY <1>1 DEF FreshInv
  <2>2. Fresh(Tail(down), Known')
    BY <1>3, <1>11, <2>1, FreshTail
  <2> QED BY <1>3, <2>2 DEF FreshInv
<1> QED BY <1>13, <1>14, <1>15, <1>16, <1>17, <1>18 DEF IInv

Taking(list) ==
  /\ down # << >> /\ down' = Tail(down) /\ UNCHANGED <<log, attached, up>>
  /\ down[1].b # "live"
  /\ InsertMessages(list) /\ (list # << >> => Climbing(list) \/ Falling(list))
  /\ requester' \in [type : {"none", "fixed", "unread", "global"}, waiting : SUBSET Buffers,
                     buffered : Seq(Nat)]
  /\ ToSet(list) \union ToSet(requester'.buffered)
       = ToSet(requester.buffered) \union ToSet(down[1].msgs)
  /\ requester'.type = requester.type
  /\ requester'.waiting \subseteq requester.waiting \ {down[1].b}
  /\ requester'.buffered # << >> => requester'.waiting # {}
  /\ ~Buffering => requester'.waiting = {} /\ requester'.buffered = << >>
  /\ torn' \in BOOLEAN
  /\ ~torn' => /\ ~torn
               /\ Gapless(ToSet(list), log, Seen(shown, down))
               /\ Gapless(ToSet(requester'.buffered), log, Seen(shown, down))
  /\ fetching' \in [Buffers -> 0 .. Limit]
  /\ \A b \in Buffers : fetching'[b] > 0 =>
       fetching[b] > 0 /\ (down[1].b = b => Len(down[1].msgs) < Limit)

LEMMA TakingReceives ==
  ASSUME IInv, NEW list \in Seq(Nat), Taking(list)
  PROVE  Receives
<1> DEFINE V == Seen(shown, down)
           W == Seen(shown', down')
<1>1. TypeInv /\ GapInv
  BY DEF IInv
<1>2. /\ Delivered(shown, pending, list, shown', pending') /\ posted' \in Nat
      /\ (pending # << >> => posted > 0) => (pending' # << >> => posted' > 0)
  BY <1>1, InsertedMessages DEF Taking
<1>3. /\ ToSet(shown) \subseteq ToSet(shown')
      /\ ToSet(shown') \union ToSet(pending') = ToSet(shown) \union ToSet(pending) \union ToSet(list)
      /\ shown' \in Seq(Nat) /\ Rising(shown') /\ pending' \in Seq(Nat) /\ Climbing(pending')
  BY <1>2 DEF Delivered
<1>4. V \subseteq W /\ ToSet(shown) \subseteq V /\ ToSet(shown') \subseteq W
  BY <1>1, <1>3, SeenGrows DEF Taking
<1>5. Known' = Known \union ToSet(down[1].msgs)
  <2>1. ToSet(list) \union ToSet(requester'.buffered)
          = ToSet(requester.buffered) \union ToSet(down[1].msgs)
    BY DEF Taking
  <2> QED BY <1>3, <2>1 DEF Known
<1>6. ASSUME ~torn'
      PROVE  /\ ~torn
             /\ Gapless(ToSet(shown'), log, W) /\ Gapless(ToSet(pending'), log, W)
             /\ Gapless(ToSet(requester'.buffered), log, W)
  <2>1. ~torn /\ Gapless(ToSet(list), log, V) /\ Gapless(ToSet(requester'.buffered), log, V)
    BY <1>6 DEF Taking
  <2>2. Gapless(ToSet(shown), log, V) /\ Gapless(ToSet(pending), log, V)
    BY <1>1, <2>1 DEF GapInv
  <2>3. ToSet(shown') \subseteq Nat /\ ToSet(pending') \subseteq Nat
    BY <1>3, ToSetIs
  <2>4. Completes(shown, pending, list, shown', pending', log, V, W)
    BY <1>2, <1>4, <2>1, <2>2, <2>3 DEF Completes
  <2> HIDE DEF V, W
  <2>5. Gapless(ToSet(shown'), log, W) /\ Gapless(ToSet(pending'), log, W)
    BY <2>4, DeliveredGapless
  <2>6. Gapless(ToSet(requester'.buffered), log, W)
    BY <1>4, <2>1, GaplessMore
  <2> QED BY <2>1, <2>5, <2>6
<1> QED BY <1>2, <1>3, <1>5, <1>6 DEF Taking, Receives

LEMMA InsertedRises ==
  ASSUME NEW rows \in Seq(Nat), Rising(rows), NEW id \in Nat, id \notin ToSet(rows)
  PROVE  /\ Inserted(rows, id) \in Seq(Nat) /\ Rising(Inserted(rows, id))
         /\ ToSet(Inserted(rows, id)) = ToSet(rows) \union {id}
<1> DEFINE g == <<id>>
           k == IndexForId(rows, id)
<1>1. /\ g \in Seq(Nat) /\ g # << >> /\ Rising(g) /\ g[1] = id /\ Len(g) = 1 /\ g[Len(g)] = id
      /\ ToSet(g) = {id}
  BY DEF Rising, ToSet
<1>2. k \in 0 .. Len(rows) /\ (k < Len(rows) => rows[k + 1] >= id)
  BY IndexIs
<1> HIDE DEF g, k
<1>3. ASSUME k < Len(rows) PROVE id < rows[k + 1]
  <2>1. Len(rows) \in Nat /\ k + 1 \in 1 .. Len(rows)
    BY <1>2, <1>3, LenProperties
  <2>2. rows[k + 1] \in ToSet(rows) /\ rows[k + 1] \in Nat
    BY <2>1, ToSetIs
  <2> QED BY <1>2, <1>3, <2>2
<1>4. IndexForId(rows, g[1]) < Len(rows) => g[Len(g)] < rows[IndexForId(rows, g[1]) + 1]
  BY <1>1, <1>3 DEF k
<1>5. /\ InsertMessageGroup(rows, g) \in Seq(Nat) /\ Rising(InsertMessageGroup(rows, g))
      /\ ToSet(InsertMessageGroup(rows, g)) = ToSet(rows) \union ToSet(g)
  BY <1>1, <1>4, InsertRises
<1>6. Inserted(rows, id) = InsertMessageGroup(rows, g)
  BY DEF Inserted, g
<1> QED BY <1>1, <1>5, <1>6

LEMMA LiveReceives ==
  ASSUME IInv, down # << >>, down' = Tail(down), down[1].b = "live", InsertMessage(down[1].msgs[1]),
         UNCHANGED <<log, attached, up, requester, fetching, torn>>
  PROVE  Receives
<1> DEFINE m == down[1]
           id == m.msgs[1]
           V == Seen(shown, down)
           W == Seen(shown', down')
<1>1. TypeInv /\ GapInv /\ StuckInv
  BY DEF IInv
<1>2. /\ down \in Seq(Answers) /\ 1 \in 1 .. Len(down) /\ m \in Answers
  BY <1>1, TailIs DEF TypeInv
<1>3. m.msgs \in Seq(Nat) /\ Len(m.msgs) = 1
  BY <1>1, <1>2 DEF TypeInv, AnswerOK, Answers
<1>4. id \in Nat /\ ToSet(m.msgs) = {id}
  <2>1. 1 \in 1 .. 1 /\ \A i \in 1 .. 1 : i = 1
    OBVIOUS
  <2>2. \A x : x \in ToSet(m.msgs) <=> \E i \in 1 .. 1 : m.msgs[i] = x
    BY <1>3, ToSetIs
  <2>3. m.msgs[1] \in Nat
    BY <1>3, <2>1, ElementOfSeq
  <2>4. \A x : x \in ToSet(m.msgs) <=> x = id
    BY <2>1, <2>2
  <2> QED BY <2>3, <2>4
<1>5. /\ shown \in Seq(Nat) /\ Rising(shown) /\ pending \in Seq(Nat) /\ Climbing(pending)
      /\ posted \in Nat /\ torn \in BOOLEAN /\ fetching \in [Buffers -> 0 .. Limit]
      /\ requester \in [type : {"none", "fixed", "unread", "global"}, waiting : SUBSET Buffers,
                        buffered : Seq(Nat)]
  BY <1>1 DEF TypeInv
<1>6. shown' = (IF id \in ToSet(shown) THEN shown ELSE Inserted(shown, id))
      /\ pending' = pending /\ posted' = posted
  BY DEF InsertMessage
<1> HIDE DEF id
<1>7. shown' \in Seq(Nat) /\ Rising(shown') /\ ToSet(shown') = ToSet(shown) \union {id}
  <2>1. CASE id \in ToSet(shown)
    <3>1. shown' = shown /\ ToSet(shown) = ToSet(shown) \union {id}
      BY <1>6, <2>1
    <3> QED BY <1>5, <3>1
  <2>2. CASE id \notin ToSet(shown)
    <3>1. shown' = Inserted(shown, id)
      BY <1>6, <2>2
    <3> QED BY <1>4, <1>5, <2>2, <3>1, InsertedRises
  <2> QED BY <2>1, <2>2
<1>8. V \subseteq W /\ ToSet(shown) \subseteq V /\ ToSet(shown') \subseteq W
  BY <1>1, <1>7, SeenGrows DEF id
<1>9. Known' = Known \union ToSet(m.msgs)
  BY <1>4, <1>6, <1>7 DEF Known
<1>10. /\ requester.waiting \subseteq requester.waiting \ {m.b}
       /\ requester.buffered # << >> => requester.waiting # {}
       /\ ~Buffering => requester.waiting = {} /\ requester.buffered = << >>
  <2>1. "live" \notin Buffers /\ requester.waiting \subseteq Buffers
    BY <1>5, BacklogAssumption
  <2> QED BY <1>1, <2>1 DEF StuckInv, NothingStuck
<1>11. ASSUME ~torn
       PROVE  /\ Gapless(ToSet(shown'), log, W) /\ Gapless(ToSet(pending), log, W)
              /\ Gapless(ToSet(requester.buffered), log, W)
  <2>1. /\ Gapless(ToSet(shown), log, V) /\ Gapless(ToSet(pending), log, V)
        /\ Gapless(ToSet(requester.buffered), log, V) /\ Whole(m, log, V)
    BY <1>1, <1>2, <1>11 DEF GapInv
  <2>2. Gapless({id}, log, V)
    BY <1>4, <2>1 DEF Whole
  <2> HIDE DEF V, W, m
  <2>3. Gapless(ToSet(shown'), log, V)
    BY <1>7, <2>1, <2>2, GaplessBoth
  <2> QED BY <1>8, <2>1, <2>3, GaplessMore
<1>12. ASSUME NEW b \in Buffers PROVE m.b # b
  BY BacklogAssumption
<1> QED BY <1>5, <1>6, <1>7, <1>9, <1>10, <1>11, <1>12 DEF Receives, id

LEMMA FetchedIs ==
  ASSUME fetching \in [Buffers -> 0 .. Limit], NEW b \in Buffers, NEW count \in Nat
  PROVE  /\ Fetched(b, count) \in [Buffers -> 0 .. Limit]
         /\ \A c \in Buffers : Fetched(b, count)[c] > 0 =>
              fetching[c] > 0 /\ (b = c => count < Limit)
<1>1. Limit \in Nat /\ \A c \in Buffers : fetching[c] \in 0 .. Limit
  BY BacklogAssumption
<1>2. CASE fetching[b] = 0
  <2>1. Fetched(b, count) = fetching
    BY <1>2 DEF Fetched
  <2>2. \A c \in Buffers : fetching[c] > 0 => c # b
    BY <1>2
  <2> QED BY <1>1, <2>1, <2>2
<1>3. CASE fetching[b] # 0
  <2> DEFINE v == IF fetching[b] > count THEN fetching[b] - count ELSE 0
  <2>1. Fetched(b, count) = [fetching EXCEPT ![b] = v]
    BY <1>3 DEF Fetched
  <2>2. v \in 0 .. Limit /\ (v > 0 => fetching[b] > 0 /\ count < Limit)
    BY <1>1
  <2> HIDE DEF v
  <2>3. Fetched(b, count) \in [Buffers -> 0 .. Limit]
    BY <2>1, <2>2
  <2>4. \A c \in Buffers : Fetched(b, count)[c] = IF c = b THEN v ELSE fetching[c]
    BY <2>1
  <2>5. ASSUME NEW c \in Buffers, Fetched(b, count)[c] > 0
        PROVE  fetching[c] > 0 /\ (b = c => count < Limit)
    <3>1. CASE c = b
      BY <2>2, <2>4, <2>5, <3>1
    <3>2. CASE c # b
      BY <2>4, <2>5, <3>2
    <3> QED BY <3>1, <3>2
  <2> QED BY <2>3, <2>5
<1> QED BY <1>2, <1>3

LEMMA ClientReceivesKeeps ==
  ASSUME IInv, ClientReceives
  PROVE  IInv'
<1> DEFINE m == down[1]
           V == Seen(shown, down)
           R == [type : {"none", "fixed", "unread", "global"}, waiting : SUBSET Buffers,
                 buffered : Seq(Nat)]
<1>1. TypeInv /\ GapInv /\ StuckInv
  BY DEF IInv
<1>2. down # << >> /\ down' = Tail(down) /\ log' = log /\ attached' = attached /\ up' = up
  BY DEF ClientReceives
<1>3. /\ down \in Seq(Answers) /\ 1 \in 1 .. Len(down) /\ m \in Answers /\ Head(down) = m
  BY <1>1, <1>2, TailIs DEF TypeInv
<1>4. m.msgs \in Seq(Nat) /\ Falling(m.msgs) /\ Len(m.msgs) \in Nat
  BY <1>1, <1>3, LenProperties DEF TypeInv, AnswerOK, Answers
<1>5. /\ requester \in R /\ fetching \in [Buffers -> 0 .. Limit] /\ torn \in BOOLEAN
  BY <1>1 DEF TypeInv
<1>6. /\ requester.buffered # << >> => requester.waiting # {}
      /\ ~Buffering => requester.waiting = {} /\ requester.buffered = << >>
      /\ requester.waiting \subseteq Buffers
  BY <1>1, <1>5 DEF StuckInv, NothingStuck
<1>7. \/ m.b = "live" /\ InsertMessage(m.msgs[1]) /\ UNCHANGED <<requester, fetching, torn>>
      \/ m.b = "all" /\ ReceiveBacklogAll(m.msgs)
      \/ m.b \in Buffers /\ ReceiveBacklog(m.b, m.msgs)
  BY <1>3 DEF ClientReceives
<1>8. "all" \notin Buffers /\ "live" \notin Buffers /\ "all" # "live"
  BY BacklogAssumption
<1>9. ~torn => /\ Whole(m, log, V)
               /\ Gapless(ToSet(requester.buffered), log, V)
  BY <1>1, <1>3 DEF GapInv
<1>10. CASE m.b = "live" /\ InsertMessage(m.msgs[1]) /\ UNCHANGED <<requester, fetching, torn>>
  <2>1. Receives
    BY <1>2, <1>10, LiveReceives
  <2> QED BY <2>1, ReceivesKeeps
<1>11. CASE m.b = "all" /\ ReceiveBacklogAll(m.msgs)
  <2>1. /\ InsertMessages(m.msgs) /\ torn' = (torn \/ Hole(m.msgs))
        /\ requester' = requester /\ fetching' = fetching
    BY <1>11 DEF ReceiveBacklogAll
  <2>2. m.b # "live" /\ \A b \in Buffers : m.b # b
    BY <1>8, <1>11
  <2>3. torn' \in BOOLEAN
    BY <2>1
  <2>4. ~torn' => ~torn /\ Gapless(ToSet(m.msgs), log, V)
    <3> SUFFICES ASSUME ~torn' PROVE ~torn /\ Gapless(ToSet(m.msgs), log, V)
      OBVIOUS
    <3>1. ~torn /\ ~Hole(m.msgs)
      BY <2>1
    <3> QED BY <1>9, <3>1 DEF Whole
  <2>5. ToSet(m.msgs) \union ToSet(requester'.buffered) = ToSet(requester.buffered) \union ToSet(m.msgs)
    BY <2>1
  <2>6. requester'.waiting \subseteq requester.waiting \ {m.b}
    BY <1>6, <2>1, <2>2
  <2>7. \A b \in Buffers : fetching'[b] > 0 => fetching[b] > 0 /\ (m.b = b => Len(m.msgs) < Limit)
    BY <2>1, <2>2
  <2>8. Taking(m.msgs)
    <3>1. ~torn' => /\ ~torn
                    /\ Gapless(ToSet(m.msgs), log, V)
                    /\ Gapless(ToSet(requester'.buffered), log, V)
      BY <1>9, <2>1, <2>4
    <3> QED BY <1>2, <1>4, <1>5, <1>6, <2>1, <2>2, <2>3, <2>5, <2>6, <2>7, <3>1 DEF Taking
  <2>9. Receives
    BY <1>4, <2>8, TakingReceives
  <2> QED BY <2>9, ReceivesKeeps
<1>12. CASE m.b \in Buffers /\ ReceiveBacklog(m.b, m.msgs)
  <2>1. torn' = torn /\ fetching' = Fetched(m.b, Len(m.msgs))
    BY <1>12 DEF ReceiveBacklog
  <2>2. PICK list \in Seq(Nat) :
          /\ InsertMessages(list) /\ (list # << >> => Climbing(list) \/ Falling(list))
          /\ requester' \in R
          /\ ToSet(list) \subseteq ToSet(requester.buffered) \union ToSet(m.msgs)
          /\ ToSet(list) \union ToSet(requester'.buffered)
               = ToSet(requester.buffered) \union ToSet(m.msgs)
          /\ ToSet(list) \in {{}, ToSet(m.msgs), ToSet(requester.buffered) \union ToSet(m.msgs)}
          /\ ToSet(requester'.buffered) \in
               {{}, ToSet(requester.buffered), ToSet(requester.buffered) \union ToSet(m.msgs)}
          /\ requester'.type = requester.type
          /\ requester'.waiting \subseteq requester.waiting \ {m.b}
          /\ requester'.buffered # << >> => requester'.waiting # {}
          /\ ~Buffering => requester'.waiting = {} /\ requester'.buffered = << >>
    <3> HIDE DEF m
    <3> QED BY <1>1, <1>4, <1>12, ReceivedIs
  <2>3. m.b # "live" /\ m.b # "all"
    BY <1>8, <1>12
  <2>4. fetching' \in [Buffers -> 0 .. Limit]
        /\ \A b \in Buffers : fetching'[b] > 0 =>
             fetching[b] > 0 /\ (m.b = b => Len(m.msgs) < Limit)
    <3> HIDE DEF m
    <3> QED BY <1>4, <1>5, <1>12, <2>1, FetchedIs
  <2>5. ASSUME ~torn'
        PROVE  /\ ~torn
               /\ Gapless(ToSet(list), log, V)
               /\ Gapless(ToSet(requester'.buffered), log, V)
    <3>1. ~torn /\ Gapless(ToSet(m.msgs), log, V) /\ Gapless(ToSet(requester.buffered), log, V)
      BY <1>9, <2>1, <2>3, <2>5 DEF Whole
    <3>2. Gapless({}, log, V)
      BY DEF Gapless
    <3> HIDE DEF V, m
    <3>3. Gapless(ToSet(requester.buffered) \union ToSet(m.msgs), log, V)
      BY <3>1, GaplessBoth
    <3> QED BY <2>2, <3>1, <3>2, <3>3
  <2>6. Taking(list)
    BY <1>2, <1>5, <2>1, <2>2, <2>3, <2>4, <2>5 DEF Taking
  <2>7. Receives
    BY <2>6, TakingReceives
  <2> QED BY <2>7, ReceivesKeeps
<1> QED BY <1>7, <1>10, <1>11, <1>12

LEMMA ProcessBufferEventKeeps ==
  ASSUME IInv, ProcessBufferEvent
  PROVE  IInv'
<1> DEFINE V == Seen(shown, down)
           W == Seen(shown', down)
<1>1. TypeInv /\ DetachedInv /\ StuckInv /\ GapInv /\ FetchInv /\ FreshInv
  BY DEF IInv
<1>2. /\ log' = log /\ attached' = attached /\ requester' = requester /\ fetching' = fetching
      /\ torn' = torn /\ up' = up /\ down' = down
  BY DEF ProcessBufferEvent, sessionVars
<1>3. /\ shown \in Seq(Nat) /\ Rising(shown) /\ pending \in Seq(Nat) /\ Climbing(pending)
      /\ posted \in Nat /\ posted > 0
  BY <1>1 DEF TypeInv, ProcessBufferEvent
<1>4. ToSet(<< >>) = {}
  BY DEF ToSet
<1>5. /\ Delivered(shown, << >>, pending, shown', pending')
      /\ posted' \in Nat /\ (pending' # << >> => posted' > 0)
  <2>1. CASE pending # << >>
    <3>1. /\ shown' = InsertGracefully(shown, pending) /\ pending' = Remaining(shown, pending)
          /\ posted' = posted - 1 + Repost(pending')
      BY <2>1 DEF ProcessBufferEvent
    <3>2. Repost(pending') = IF pending' = << >> THEN 0 ELSE 1
      BY DEF Repost
    <3>3. Delivered(shown, << >>, pending, shown', pending')
      BY <1>3, <2>1, <3>1, GracefulIs
    <3>4. posted' \in Nat /\ (pending' # << >> => posted' > 0)
      BY <1>3, <3>1, <3>2
    <3> QED BY <3>3, <3>4
  <2>2. CASE pending = << >>
    <3>1. posted' = posted - 1 /\ shown' = shown /\ pending' = pending
      BY <2>2 DEF ProcessBufferEvent
    <3>2. Delivered(shown, << >>, pending, shown', pending')
      BY <1>3, <1>4, <2>2, <3>1 DEF Delivered
    <3> QED BY <1>3, <2>2, <3>1, <3>2
  <2> QED BY <2>1, <2>2
<1>6. /\ ToSet(shown) \subseteq ToSet(shown')
      /\ ToSet(shown') \union ToSet(pending') = ToSet(shown) \union ToSet(pending)
      /\ shown' \in Seq(Nat) /\ Rising(shown') /\ pending' \in Seq(Nat) /\ Climbing(pending')
  BY <1>4, <1>5 DEF Delivered
<1>7. V \subseteq W /\ ToSet(shown) \subseteq V /\ ToSet(shown') \subseteq W
  BY <1>6 DEF Seen
<1>8. Known' = Known
  BY <1>2, <1>6 DEF Known
<1>9. TypeInv'
  <2>1. \A i \in 1 .. Len(up) : RequestOK(up[i], log, shown')
    <3>1. ToSet(shown) \subseteq 1 .. Len(log) /\ log \in Seq(Buffers)
      BY <1>1, SeenIs DEF TypeInv
    <3>2. \A i \in 1 .. Len(up) : RequestOK(up[i], log, shown)
      BY <1>1 DEF TypeInv
    <3> QED BY <1>6, <3>1, <3>2, RequestKept
  <2>2. Ids' = Ids
    BY <1>2 DEF Ids
  <2> QED BY <1>1, <1>2, <1>5, <1>6, <1>8, <2>1, <2>2 DEF TypeInv
<1>10. DetachedInv'
  <2> SUFFICES ASSUME ~attached, ~torn PROVE shown' = << >> /\ pending' = << >>
    BY <1>1, <1>2 DEF DetachedInv
  <2>1. shown = << >> /\ pending = << >>
    BY <1>1 DEF DetachedInv
  <2> QED BY <2>1 DEF ProcessBufferEvent
<1>11. StuckInv'
  <2>1. Outstanding' = Outstanding /\ (Buffering' = Buffering)
    BY <1>2 DEF Outstanding, Buffering
  <2> QED BY <1>1, <1>2, <1>5, <2>1 DEF StuckInv, NothingStuck
<1>12. GapInv'
  <2> SUFFICES ASSUME ~torn
               PROVE  /\ Gapless(ToSet(shown'), log, W)
                      /\ Gapless(ToSet(pending'), log, W)
                      /\ Gapless(ToSet(requester.buffered), log, W)
                      /\ \A i \in 1 .. Len(down) : Whole(down[i], log, W)
    BY <1>2 DEF GapInv
  <2>1. /\ Gapless(ToSet(shown), log, V) /\ Gapless(ToSet(pending), log, V)
        /\ Gapless(ToSet(requester.buffered), log, V)
        /\ \A i \in 1 .. Len(down) : Whole(down[i], log, V)
    BY <1>1 DEF GapInv
  <2>2. ToSet(shown') \subseteq Nat /\ ToSet(pending') \subseteq Nat
    BY <1>6, ToSetIs
  <2>3. Gapless(ToSet(<< >>), log, V)
    BY <1>4 DEF Gapless
  <2>4. Completes(shown, << >>, pending, shown', pending', log, V, W)
    BY <1>5, <1>7, <2>1, <2>2, <2>3 DEF Completes
  <2> HIDE DEF V, W
  <2>5. Gapless(ToSet(shown'), log, W) /\ Gapless(ToSet(pending'), log, W)
    BY <2>4, DeliveredGapless
  <2>6. Gapless(ToSet(requester.buffered), log, W)
    BY <1>7, <2>1, GaplessMore
  <2>7. ASSUME NEW i \in 1 .. Len(down) PROVE Whole(down[i], log, W)
    <3>1. Whole(down[i], log, V)
      BY <2>1
    <3>2. Gapless(ToSet(down[i].msgs), log, V) => Gapless(ToSet(down[i].msgs), log, W)
      BY <1>7, GaplessMore
    <3> QED BY <3>1, <3>2 DEF Whole
  <2> QED BY <2>5, <2>6, <2>7
<1>13. FetchInv'
  <2> SUFFICES ASSUME ~torn, NEW b \in Buffers, fetching[b] > 0
               PROVE  Ends(b, up, down, log, Known, W)
    BY <1>2, <1>8 DEF FetchInv
  <2>1. Ends(b, up, down, log, Known, V)
    BY <1>1 DEF FetchInv
  <2> HIDE DEF V, W
  <2>2. Known \union V \subseteq Known \union W
    BY <1>7
  <2> QED BY <1>7, <2>1, <2>2, EndsMore
<1>14. FreshInv'
  BY <1>1, <1>2, <1>8 DEF FreshInv
<1> QED BY <1>9, <1>10, <1>11, <1>12, <1>13, <1>14 DEF IInv

LEMMA AnswerKept ==
  ASSUME NEW m, NEW l, NEW k, AnswerOK(m, l), Len(l) \in Nat, Len(k) = Len(l) + 1
  PROVE  AnswerOK(m, k)
<1>1. 1 .. Len(l) \subseteq 1 .. Len(k)
  OBVIOUS
<1> QED BY <1>1 DEF AnswerOK

\* A stored message that is under way spoils nothing.
LEMMA EndsStored ==
  ASSUME NEW b, NEW u, NEW dn \in Seq(Answers), NEW m \in Answers, NEW l \in Seq(Buffers),
         NEW c \in Buffers, NEW kn, NEW V, NEW W, Ends(b, u, dn, l, kn, V),
         V \union {Len(l) + 1} \subseteq W
  PROVE  Ends(b, u, Append(dn, m), Append(l, c), kn, W)
<1>1. Stored(Append(l, c), b) \subseteq Stored(l, b) \union {Len(l) + 1}
  <2>1. /\ Len(Append(l, c)) = Len(l) + 1
        /\ \A i \in 1 .. Len(l) : Append(l, c)[i] = l[i]
        /\ \A i \in 1 .. Len(l) + 1 : i \in 1 .. Len(l) \/ i = Len(l) + 1
    BY AppendIs
  <2> QED BY <2>1 DEF Stored
<1>2. CASE \E i \in 1 .. Len(u) : Fetches(u[i], b)
  BY <1>2 DEF Ends
<1>3. CASE \E i \in 1 .. Len(dn) : Finishes(dn[i], b, l, V)
  <2>1. PICK i \in 1 .. Len(dn) : Finishes(dn[i], b, l, V)
    BY <1>3
  <2>2. i \in 1 .. Len(Append(dn, m)) /\ Append(dn, m)[i] = dn[i]
    BY AppendIs
  <2>3. Finishes(Append(dn, m)[i], b, Append(l, c), W)
    BY <1>1, <2>1, <2>2 DEF Finishes
  <2> QED BY <2>2, <2>3 DEF Ends
<1>4. CASE Stored(l, b) \subseteq kn \union V
  <2>1. Stored(Append(l, c), b) \subseteq kn \union W
    BY <1>1, <1>4
  <2> QED BY <2>1 DEF Ends
<1> QED BY <1>2, <1>3, <1>4 DEF Ends

LEMMA CoreStoresKeeps ==
  ASSUME IInv, NEW b \in Buffers, CoreStores(b)
  PROVE  IInv'
<1> DEFINE n == Len(log)
           V == Seen(shown, down)
           W == Seen(shown, down')
           m == [b |-> "live", msgs |-> <<n + 1>>]
<1>1. TypeInv /\ DetachedInv /\ StuckInv /\ GapInv /\ FetchInv /\ FreshInv
  BY DEF IInv
<1>2. /\ attached' = attached /\ requester' = requester /\ fetching' = fetching /\ torn' = torn
      /\ shown' = shown /\ pending' = pending /\ posted' = posted /\ up' = up
      /\ log' = Append(log, b)
  BY DEF CoreStores, sessionVars, modelVars
<1>3. log \in Seq(Buffers) /\ down \in Seq(Answers)
  BY <1>1 DEF TypeInv
<1>4. /\ n \in Nat /\ log' \in Seq(Buffers) /\ Len(log') = n + 1
      /\ \A i \in 1 .. n : log'[i] = log[i]
  BY <1>2, <1>3, AppendIs
<1>5. down' = IF attached THEN Append(down, m) ELSE down
  BY <1>2, <1>4 DEF CoreStores
<1>6. /\ m \in Answers /\ m.b = "live" /\ m.msgs[1] = n + 1 /\ ToSet(m.msgs) = {n + 1}
      /\ AnswerOK(m, log')
  <2>1. <<n + 1>> \in Seq(Nat) /\ Len(<<n + 1>>) = 1 /\ <<n + 1>>[1] = n + 1
    BY <1>4
  <2>2. ToSet(<<n + 1>>) = {n + 1} /\ Falling(<<n + 1>>)
    BY DEF ToSet, Falling
  <2>3. m \in Answers
    BY <2>1 DEF Answers
  <2>4. n + 1 \in 1 .. Len(log')
    BY <1>4
  <2>5. m.b = "live" /\ m.msgs = <<n + 1>>
    OBVIOUS
  <2> HIDE DEF m
  <2> QED BY <2>1, <2>2, <2>3, <2>4, <2>5 DEF AnswerOK
<1>7. Known' = Known /\ Known \subseteq 1 .. n /\ ToSet(shown) \subseteq 1 .. n
  BY <1>1, <1>2, SeenIs DEF Known
<1>8. \A i \in 1 .. Len(down) : AnswerOK(down[i], log') /\ ToSet(down[i].msgs) \subseteq 1 .. n
  <2> SUFFICES ASSUME NEW i \in 1 .. Len(down)
               PROVE  AnswerOK(down[i], log') /\ ToSet(down[i].msgs) \subseteq 1 .. n
    OBVIOUS
  <2>1. AnswerOK(down[i], log)
    BY <1>1 DEF TypeInv
  <2>2. AnswerOK(down[i], log')
    BY <1>4, <2>1, AnswerKept
  <2> QED BY <2>1, <2>2 DEF AnswerOK
<1> HIDE DEF m, n
<1>9. /\ Len(Append(down, m)) = Len(down) + 1
      /\ \A i \in 1 .. Len(down) : i \in 1 .. Len(down) + 1 /\ Append(down, m)[i] = down[i]
      /\ Append(down, m)[Len(down) + 1] = m
      /\ \A i \in 1 .. Len(down) + 1 : i \in 1 .. Len(down) \/ i = Len(down) + 1
      /\ Append(down, m) \in Seq(Answers) /\ Len(down) + 1 \in 1 .. Len(down) + 1
  BY <1>3, <1>6, AppendIs
<1>10. TypeInv'
  <2>1. \A i \in 1 .. Len(up) : RequestOK(up[i], log', shown)
    <3>1. \A i \in 1 .. Len(up) : RequestOK(up[i], log, shown)
      BY <1>1 DEF TypeInv
    <3> QED BY <1>3, <1>4, <1>7, <3>1, RequestKept DEF n
  <2>2. (Known \subseteq Ids)'
    <3>1. Ids' = 1 .. n + 1 /\ 1 .. n \subseteq 1 .. n + 1
      BY <1>4 DEF Ids
    <3> QED BY <1>7, <3>1
  <2>3. down' \in Seq(Answers) /\ \A i \in 1 .. Len(down') : AnswerOK(down'[i], log')
    <3>1. CASE attached
      <4>1. down' = Append(down, m)
        BY <1>5, <3>1
      <4>2. ASSUME NEW i \in 1 .. Len(down) + 1 PROVE AnswerOK(Append(down, m)[i], log')
        BY <1>6, <1>8, <1>9
      <4> QED BY <1>9, <4>1, <4>2
    <3>2. CASE ~attached
      BY <1>3, <1>5, <1>8, <3>2
    <3> QED BY <3>1, <3>2
  <2> QED BY <1>1, <1>2, <1>4, <2>1, <2>2, <2>3 DEF TypeInv
<1>11. DetachedInv'
  BY <1>1, <1>2, <1>5 DEF DetachedInv
<1>12. StuckInv'
  <2>1. requester.waiting \subseteq Outstanding
    BY <1>1 DEF StuckInv, NothingStuck
  <2>2. \A x \in Outstanding : x \in Outstanding'
    <3> SUFFICES ASSUME NEW x \in Outstanding PROVE x \in Outstanding'
      OBVIOUS
    <3>1. (\E i \in 1 .. Len(up) : up[i].b = x) \/ (\E i \in 1 .. Len(down) : down[i].b = x)
      BY <1>1, OutstandingIs
    <3>2. DOMAIN up = 1 .. Len(up) /\ DOMAIN down' = 1 .. Len(down')
      BY <1>10, <1>2, LenProperties DEF TypeInv
    <3>3. \A i \in 1 .. Len(down) : i \in 1 .. Len(down') /\ down'[i] = down[i]
      BY <1>5, <1>9
    <3> QED BY <1>2, <3>1, <3>2, <3>3 DEF Outstanding
  <2> QED BY <1>1, <1>2, <2>1, <2>2 DEF StuckInv, NothingStuck, Buffering
<1>13. CASE ~attached
  <2>1. down = << >> /\ requester.buffered = << >> /\ down' = << >> /\ Len(down') = 0
    BY <1>1, <1>5, <1>13 DEF DetachedInv, NoRequester
  <2>2. ~torn => shown = << >> /\ pending = << >>
    BY <1>1, <1>13 DEF DetachedInv
  <2>3. GapInv'
    <3> SUFFICES ASSUME ~torn
                 PROVE  /\ Gapless(ToSet(shown), log', W) /\ Gapless(ToSet(pending), log', W)
                        /\ Gapless(ToSet(requester.buffered), log', W)
      BY <1>2, <2>1 DEF GapInv
    <3>1. ToSet(<< >>) = {} /\ Gapless({}, log', W)
      BY DEF ToSet, Gapless
    <3> QED BY <2>1, <2>2, <3>1
  <2>4. FetchInv'
    <3>1. \A c \in Buffers : fetching[c] = 0
      BY <1>1, <1>13 DEF DetachedInv
    <3>2. \A c \in Buffers : ~(fetching'[c] > 0)
      BY <1>2, <3>1
    <3> QED BY <3>2 DEF FetchInv
  <2>5. FreshInv'
    <3>1. \A i \in 1 .. Len(down') : FALSE
      BY <2>1
    <3> QED BY <3>1 DEF FreshInv, Fresh
  <2> QED BY <1>10, <1>11, <1>12, <2>3, <2>4, <2>5 DEF IInv
<1>14. CASE attached
  <2>1. down' = Append(down, m)
    BY <1>5, <1>14
  <2>2. V \union {n + 1} \subseteq W
    <3>1. Live(down) \subseteq Live(down') /\ n + 1 \in Live(down')
      BY <1>3, <1>6, <2>1, LiveAppend
    <3> QED BY <3>1 DEF Seen
  <2> HIDE DEF V, W
  <2>3. \A A : Gapless(A, log, V) /\ A \subseteq 1 .. n => Gapless(A, log', W)
    BY <1>2, <1>3, <2>2, GaplessStored DEF n
  <2>4. GapInv'
    <3> SUFFICES ASSUME ~torn
                 PROVE  /\ Gapless(ToSet(shown), log', W) /\ Gapless(ToSet(pending), log', W)
                        /\ Gapless(ToSet(requester.buffered), log', W)
                        /\ \A i \in 1 .. Len(down) + 1 : Whole(down'[i], log', W)
      BY <1>2, <1>9, <2>1 DEF GapInv, W
    <3>1. /\ Gapless(ToSet(shown), log, V) /\ Gapless(ToSet(pending), log, V)
          /\ Gapless(ToSet(requester.buffered), log, V)
          /\ \A i \in 1 .. Len(down) : Whole(down[i], log, V)
      BY <1>1 DEF GapInv, V
    <3>2. /\ ToSet(shown) \subseteq 1 .. n /\ ToSet(pending) \subseteq 1 .. n
          /\ ToSet(requester.buffered) \subseteq 1 .. n
      BY <1>1, SeenIs DEF n
    <3>3. ASSUME NEW i \in 1 .. Len(down) + 1 PROVE Whole(down'[i], log', W)
      <4>1. CASE i \in 1 .. Len(down)
        <5>1. down'[i] = down[i] /\ Whole(down[i], log, V) /\ ToSet(down[i].msgs) \subseteq 1 .. n
          BY <1>8, <1>9, <2>1, <3>1, <4>1
        <5>2. Gapless(ToSet(down[i].msgs), log, V) => Gapless(ToSet(down[i].msgs), log', W)
          BY <2>3, <5>1
        <5> QED BY <5>1, <5>2 DEF Whole
      <4>2. CASE i = Len(down) + 1
        <5>1. down'[i] = m
          BY <1>9, <2>1, <4>2
        <5>2. Gapless({n + 1}, log', W)
          BY <1>4 DEF Gapless
        <5> QED BY <1>6, <5>1, <5>2 DEF Whole
      <4> QED BY <1>9, <4>1, <4>2
    <3> QED BY <2>3, <3>1, <3>2, <3>3
  <2>5. FetchInv'
    <3> SUFFICES ASSUME ~torn, NEW c \in Buffers, fetching[c] > 0
                 PROVE  Ends(c, up, down', log', Known, W)
      BY <1>2, <1>7 DEF FetchInv, W
    <3>1. Ends(c, up, down, log, Known, V)
      BY <1>1 DEF FetchInv, V
    <3> QED BY <1>2, <1>3, <1>6, <2>1, <2>2, <3>1, EndsStored DEF n
  <2>6. FreshInv'
    <3>1. Fresh(down, Known)
      BY <1>1 DEF FreshInv
    <3>2. \A x \in Known : x < m.msgs[1]
      BY <1>4, <1>6, <1>7
    <3>3. ASSUME NEW j \in 1 .. Len(down), NEW x \in ToSet(down[j].msgs) PROVE x < m.msgs[1]
      <4>1. x \in 1 .. n
        BY <1>8
      <4> QED BY <1>4, <1>6, <4>1
    <3> QED BY <1>3, <1>6, <1>7, <2>1, <3>1, <3>2, <3>3, FreshAppend DEF FreshInv
  <2> QED BY <1>10, <1>11, <1>12, <2>4, <2>5, <2>6 DEF IInv
<1> QED BY <1>13, <1>14

\* The messages that a fetch does not ask for have been seen.
LEMMA FetchCovers ==
  ASSUME TypeInv, GapInv, ~torn, NEW b, NEW last,
         last = -1 \/ (last \in ToSet(shown) /\ log[last] = b)
  PROVE  In(b) \subseteq Before(b, last) \union Seen(shown, down)
<1> SUFFICES ASSUME NEW y \in In(b), y \notin Before(b, last) PROVE y \in Seen(shown, down)
  OBVIOUS
<1>1. In(b) \subseteq 1 .. Len(log) /\ log[y] = b
  BY DEF In, Ids
<1>2. last # -1 /\ ~(y < last)
  BY DEF Before
<1>3. last \in ToSet(shown) /\ log[last] = b /\ last \in 1 .. Len(log)
  BY <1>2, SeenIs
<1>4. y = last \/ last < y
  BY <1>1, <1>2, <1>3
<1>5. Gapless(ToSet(shown), log, Seen(shown, down))
  BY DEF GapInv
<1>6. last < y => y \in ToSet(shown) \union Seen(shown, down)
  BY <1>1, <1>3, <1>5 DEF Gapless
<1> QED BY <1>3, <1>4, <1>6, SeenIs

LEMMA CoreAnswersKeeps ==
  ASSUME IInv, CoreAnswers
  PROVE  IInv'
<1> DEFINE r == up[1]
           n == Len(up)
           list == IF r.b = "all" THEN RequestBacklogAll(r) ELSE RequestBacklog(r)
           m == [b |-> r.b, msgs |-> list]
           V == Seen(shown, down)
           W == Seen(shown, down')
<1>1. TypeInv /\ DetachedInv /\ StuckInv /\ GapInv /\ FetchInv /\ FreshInv
  BY DEF IInv
<1>2. /\ attached' = attached /\ requester' = requester /\ fetching' = fetching /\ torn' = torn
      /\ shown' = shown /\ pending' = pending /\ posted' = posted /\ log' = log
      /\ up # << >> /\ up' = Tail(up)
  BY DEF CoreAnswers, sessionVars, modelVars
<1>3. log \in Seq(Buffers) /\ down \in Seq(Answers) /\ up \in Seq(Requests)
  BY <1>1 DEF TypeInv
<1>4. /\ n \in Nat \ {0} /\ up' \in Seq(Requests) /\ Len(up') = n - 1 /\ r \in Requests
      /\ Head(up) = r
      /\ \A i \in 1 .. n - 1 : i + 1 \in 2 .. n /\ up'[i] = up[i + 1]
      /\ \A i \in 2 .. n : i - 1 \in 1 .. n - 1 /\ up'[i - 1] = up[i]
  BY <1>2, <1>3, TailIs
<1>5. (\A i \in 1 .. n : i = 1 \/ i \in 2 .. n) /\ (\A i \in 2 .. n : i \in 1 .. n) /\ 1 \in 1 .. n
  BY <1>4
<1>6. down' = Append(down, m)
  BY <1>4 DEF CoreAnswers
<1>7. RequestOK(r, log, shown)
  BY <1>1, <1>5 DEF TypeInv
<1>8. r.b \in Buffers \union {"all"} /\ "all" \notin Buffers /\ "live" \notin Buffers
  BY <1>4, BacklogAssumption DEF Requests
<1>9. m.b = r.b /\ m.msgs = list
  OBVIOUS
<1>10. /\ list \in Seq(Nat) /\ Falling(list) /\ ToSet(list) \subseteq 1 .. Len(log)
       /\ ~torn => Whole(m, log, V)
       /\ ~torn => \A b \in Buffers : Fetches(r, b) => Finishes(m, b, log, V)
  <2> HIDE DEF m, list, r
  <2>a. \A b : In(b) \subseteq 1 .. Len(log) /\ \A y \in 1 .. Len(log) : log[y] = b <=> y \in In(b)
    BY DEF In, Ids
  <2>1. CASE r.b = "all" /\ r.first \in Nat
    <3>1. list = RequestBacklogAll(r)
      BY <2>1 DEF list
    <3>2. /\ list \in Seq(Nat) /\ Falling(list) /\ ToSet(list) \subseteq 1 .. Len(log)
          /\ Hole(list) \/ UpIn(ToSet(list), 1 .. Len(log))
      BY <1>3, <1>4, <2>1, <3>1, AllAnswer DEF Ids
    <3>3. UpIn(ToSet(list), 1 .. Len(log)) => Gapless(ToSet(list), log, V)
      BY DEF UpIn, Gapless
    <3>4. Whole(m, log, V)
      BY <1>9, <2>1, <3>2, <3>3 DEF Whole
    <3>5. \A b \in Buffers : ~Fetches(r, b)
      BY <1>8, <2>1 DEF Fetches
    <3> QED BY <3>2, <3>4, <3>5
  <2>2. CASE r.b \in Buffers /\ r.first \in Nat /\ r.last = -1
    <3>1. list = RequestBacklog(r)
      BY <1>8, <2>2 DEF list
    <3>2. /\ list \in Seq(Nat) /\ Falling(list) /\ ToSet(list) \subseteq In(r.b)
          /\ UpIn(ToSet(list), In(r.b))
      BY <1>3, <1>4, <2>2, <3>1, InitialAnswer
    <3>3. Gapless(ToSet(list), log, V)
      <4> SUFFICES ASSUME NEW x \in ToSet(list), NEW y \in 1 .. Len(log), x < y, log[y] = log[x]
                   PROVE  y \in ToSet(list)
        BY DEF Gapless
      <4>1. x \in In(r.b) /\ log[x] = r.b
        BY <2>a, <3>2
      <4>2. y \in In(r.b)
        BY <2>a, <4>1
      <4> QED BY <3>2, <4>2 DEF UpIn
    <3>4. \A b \in Buffers : ~Fetches(r, b)
      BY <2>2 DEF Fetches
    <3> QED BY <2>a, <3>2, <3>3, <3>4 DEF Whole, m
  <2>3. CASE /\ r.b \in Buffers /\ Fetches(r, r.b)
             /\ r.last = -1 \/ (r.last \in ToSet(shown) /\ log[r.last] = r.b)
    <3>1. list = RequestBacklog(r)
      BY <1>8, <2>3 DEF list
    <3> DEFINE B == Before(r.b, r.last)
    <3>2. /\ list \in Seq(Nat) /\ Falling(list) /\ ToSet(list) \subseteq In(r.b)
          /\ UpIn(ToSet(list), B)
          /\ Len(list) >= Limit \/ ToSet(list) = B
      BY <1>3, <1>4, <2>3, <3>1, FetchedAnswer
    <3>3. ~torn => In(r.b) \subseteq B \union V
      BY <1>1, <2>3, FetchCovers
    <3> HIDE DEF B, V
    <3>4. ASSUME ~torn PROVE Gapless(ToSet(list), log, V)
      <4> SUFFICES ASSUME NEW x \in ToSet(list), NEW y \in 1 .. Len(log), x < y, log[y] = log[x]
                   PROVE  y \in ToSet(list) \union V
        BY DEF Gapless
      <4>1. x \in In(r.b) /\ log[x] = r.b
        BY <2>a, <3>2
      <4>2. y \in In(r.b)
        BY <2>a, <4>1
      <4>3. y \in B => y \in ToSet(list)
        BY <3>2 DEF UpIn
      <4> QED BY <3>3, <3>4, <4>2, <4>3
    <3>5. ASSUME ~torn, NEW b \in Buffers, Fetches(r, b) PROVE Finishes(m, b, log, V)
      <4>1. b = r.b
        BY <3>5 DEF Fetches
      <4>2. Stored(log, b) \subseteq B \union V
        BY <3>3, <3>5, <4>1, StoredIn
      <4>3. Len(list) >= Limit \/ Stored(log, b) \subseteq ToSet(list) \union V
        BY <3>2, <4>2
      <4> QED BY <1>9, <4>1, <4>3 DEF Finishes
    <3> QED BY <1>9, <2>a, <3>2, <3>4, <3>5 DEF Whole
  <2> QED BY <1>7, <2>1, <2>2, <2>3 DEF RequestOK
<1>11. m \in Answers /\ AnswerOK(m, log) /\ m.b # "live"
  <2>1. m.b # "live"
    BY <1>8
  <2>2. m \in Answers
    BY <1>8, <1>10 DEF Answers
  <2> HIDE DEF m, list
  <2> QED BY <1>9, <1>10, <2>1, <2>2 DEF AnswerOK
<1> HIDE DEF m, n, list
<1>12. /\ Len(Append(down, m)) = Len(down) + 1
       /\ \A i \in 1 .. Len(down) : i \in 1 .. Len(down) + 1 /\ Append(down, m)[i] = down[i]
       /\ Append(down, m)[Len(down) + 1] = m
       /\ \A i \in 1 .. Len(down) + 1 : i \in 1 .. Len(down) \/ i = Len(down) + 1
       /\ Append(down, m) \in Seq(Answers) /\ Len(down) + 1 \in 1 .. Len(down) + 1
  BY <1>3, <1>11, AppendIs
<1>13. W = V
  <2>1. Live(down') = Live(down)
    BY <1>3, <1>6, <1>11, LiveAppend
  <2> QED BY <2>1 DEF Seen
<1> HIDE DEF V, W
<1>14. Known' = Known
  BY <1>2 DEF Known
<1>15. TypeInv'
  <2>1. \A i \in 1 .. n - 1 : RequestOK(up'[i], log, shown)
    <3>1. \A i \in 1 .. n : RequestOK(up[i], log, shown)
      BY <1>1 DEF TypeInv, n
    <3> QED BY <1>4, <1>5, <3>1
  <2>2. \A i \in 1 .. Len(down) + 1 : AnswerOK(down'[i], log)
    <3>1. \A i \in 1 .. Len(down) : AnswerOK(down[i], log)
      BY <1>1 DEF TypeInv
    <3> QED BY <1>6, <1>11, <1>12, <3>1
  <2>3. Ids' = Ids
    BY <1>2 DEF Ids
  <2> QED BY <1>1, <1>2, <1>4, <1>6, <1>12, <1>14, <2>1, <2>2, <2>3 DEF TypeInv
<1>16. DetachedInv'
  <2>1. attached
    BY <1>1, <1>2 DEF DetachedInv
  <2> QED BY <1>2, <2>1 DEF DetachedInv
<1>17. StuckInv'
  <2>1. requester.waiting \subseteq Outstanding
    BY <1>1 DEF StuckInv, NothingStuck
  <2>2. \A x \in Outstanding : x \in Outstanding'
    <3> SUFFICES ASSUME NEW x \in Outstanding PROVE x \in Outstanding'
      OBVIOUS
    <3>1. (\E i \in 1 .. n : up[i].b = x) \/ (\E i \in 1 .. Len(down) : down[i].b = x)
      BY <1>1, OutstandingIs DEF n
    <3>2. DOMAIN up' = 1 .. n - 1 /\ DOMAIN down' = 1 .. Len(down) + 1
      BY <1>4, <1>6, <1>12, LenProperties
    <3>3. CASE \E i \in 1 .. n : up[i].b = x
      <4>1. PICK i \in 1 .. n : up[i].b = x
        BY <3>3
      <4>2. CASE i = 1
        <5>1. down'[Len(down) + 1].b = x
          BY <1>6, <1>9, <1>12, <4>1, <4>2
        <5> QED BY <1>12, <3>2, <5>1 DEF Outstanding
      <4>3. CASE i # 1
        <5>1. i \in 2 .. n
          BY <1>5, <4>3
        <5>2. i - 1 \in 1 .. n - 1 /\ up'[i - 1] = up[i]
          BY <1>4, <5>1
        <5> QED BY <3>2, <4>1, <5>2 DEF Outstanding
      <4> QED BY <4>2, <4>3
    <3>4. CASE \E i \in 1 .. Len(down) : down[i].b = x
      <4>1. PICK i \in 1 .. Len(down) : down[i].b = x
        BY <3>4
      <4>2. i \in 1 .. Len(down) + 1 /\ down'[i] = down[i]
        BY <1>6, <1>12
      <4> QED BY <3>2, <4>1, <4>2 DEF Outstanding
    <3> QED BY <3>1, <3>3, <3>4
  <2> QED BY <1>1, <1>2, <2>1, <2>2 DEF StuckInv, NothingStuck, Buffering
<1>18. GapInv'
  <2> SUFFICES ASSUME ~torn
               PROVE  /\ Gapless(ToSet(shown), log, V) /\ Gapless(ToSet(pending), log, V)
                      /\ Gapless(ToSet(requester.buffered), log, V)
                      /\ \A i \in 1 .. Len(down) + 1 : Whole(down'[i], log, V)
    BY <1>2, <1>6, <1>12, <1>13 DEF GapInv, W
  <2>1. /\ Gapless(ToSet(shown), log, V) /\ Gapless(ToSet(pending), log, V)
        /\ Gapless(ToSet(requester.buffered), log, V)
        /\ \A i \in 1 .. Len(down) : Whole(down[i], log, V)
    BY <1>1 DEF GapInv, V
  <2>2. ASSUME NEW i \in 1 .. Len(down) + 1 PROVE Whole(down'[i], log, V)
    BY <1>6, <1>10, <1>12, <2>1
  <2> QED BY <2>1, <2>2
<1>19. FetchInv'
  <2> SUFFICES ASSUME ~torn, NEW b \in Buffers, fetching[b] > 0
               PROVE  Ends(b, up', down', log, Known, V)
    BY <1>2, <1>13, <1>14 DEF FetchInv, W
  <2>1. Ends(b, up, down, log, Known, V)
    BY <1>1 DEF FetchInv, V
  <2>2. CASE \E i \in 1 .. n : Fetches(up[i], b)
    <3>1. PICK i \in 1 .. n : Fetches(up[i], b)
      BY <2>2
    <3>2. CASE i = 1
      <4>1. Finishes(m, b, log, V)
        BY <1>10, <3>1, <3>2
      <4>2. Len(down) + 1 \in 1 .. Len(down') /\ down'[Len(down) + 1] = m
        BY <1>6, <1>12
      <4> QED BY <4>1, <4>2 DEF Ends
    <3>3. CASE i # 1
      <4>1. i \in 2 .. n
        BY <1>5, <3>3
      <4>2. i - 1 \in 1 .. Len(up') /\ up'[i - 1] = up[i]
        BY <1>4, <4>1
      <4> QED BY <3>1, <4>2 DEF Ends
    <3> QED BY <3>2, <3>3
  <2>3. CASE \E i \in 1 .. Len(down) : Finishes(down[i], b, log, V)
    <3>1. PICK i \in 1 .. Len(down) : Finishes(down[i], b, log, V)
      BY <2>3
    <3>2. i \in 1 .. Len(down') /\ down'[i] = down[i]
      BY <1>6, <1>12
    <3> QED BY <3>1, <3>2 DEF Ends
  <2>4. CASE Stored(log, b) \subseteq Known \union V
    BY <2>4 DEF Ends
  <2> QED BY <2>1, <2>2, <2>3, <2>4 DEF Ends, n
<1>20. FreshInv'
  <2>1. Fresh(down, Known)
    BY <1>1 DEF FreshInv
  <2> QED BY <1>3, <1>6, <1>11, <1>14, <2>1, FreshAppend DEF FreshInv
<1> QED BY <1>15, <1>16, <1>17, <1>18, <1>19, <1>20 DEF IInv

\* The client sends the requests a.
Asking(a) ==
  /\ attached /\ UNCHANGED <<log, attached, torn, modelVars, down>> /\ up' = up \o a
  /\ \A i \in 1 .. Len(a) : RequestOK(a[i], log, shown)
  /\ requester' \in [type : {"none", "fixed", "unread", "global"}, waiting : SUBSET Buffers,
                     buffered : Seq(Nat)]
  /\ requester'.buffered = requester.buffered
  /\ requester'.buffered # << >> => requester'.waiting # {}
  /\ \A b \in requester'.waiting : b \in Outstanding \/ \E i \in 1 .. Len(a) : a[i].b = b
  /\ ~Buffering' => requester'.waiting = {} /\ requester'.buffered = << >>
  /\ fetching' \in [Buffers -> 0 .. Limit]
  /\ \A b \in Buffers : fetching'[b] > 0 =>
       fetching[b] > 0 \/ \E i \in 1 .. Len(a) : Fetches(a[i], b)

LEMMA AskingKeeps ==
  ASSUME IInv, NEW a \in Seq(Requests), Asking(a)
  PROVE  IInv'
<1> DEFINE n == Len(up)
           k == Len(a)
           u == up \o a
<1>1. TypeInv /\ DetachedInv /\ StuckInv /\ GapInv /\ FetchInv /\ FreshInv
  BY DEF IInv
<1>2. /\ attached' = attached /\ torn' = torn /\ log' = log /\ down' = down /\ attached
      /\ shown' = shown /\ pending' = pending /\ posted' = posted /\ up' = u
      /\ requester'.buffered = requester.buffered
  BY DEF Asking, modelVars
<1>3. up \in Seq(Requests) /\ n \in Nat /\ k \in Nat
  BY <1>1, LenProperties DEF TypeInv
<1>4. /\ u \in Seq(Requests) /\ Len(u) = n + k
      /\ \A i \in 1 .. n : u[i] = up[i]
      /\ \A i \in 1 .. k : u[n + i] = a[i]
  BY <1>3, ConcatIs
<1> HIDE DEF n, k, u
<1>5. /\ \A i \in 1 .. n : i \in 1 .. n + k
      /\ \A i \in 1 .. k : n + i \in 1 .. n + k
      /\ \A i \in 1 .. n + k : i \in 1 .. n \/ (i - n \in 1 .. k /\ n + (i - n) = i)
  BY <1>3
<1>6. Known' = Known
  BY <1>2 DEF Known
<1>7. TypeInv'
  <2>1. ASSUME NEW i \in 1 .. n + k PROVE RequestOK(u[i], log, shown)
    <3>1. CASE i \in 1 .. n
      <4>1. RequestOK(up[i], log, shown)
        BY <1>1, <3>1 DEF TypeInv, n
      <4> QED BY <1>4, <3>1, <4>1
    <3>2. CASE i - n \in 1 .. k /\ n + (i - n) = i
      <4>1. u[n + (i - n)] = a[i - n] /\ RequestOK(a[i - n], log, shown)
        BY <1>4, <3>2 DEF Asking, k
      <4> QED BY <3>2, <4>1
    <3> QED BY <1>5, <3>1, <3>2
  <2>2. Ids' = Ids
    BY <1>2 DEF Ids
  <2>3. /\ requester' \in [type : {"none", "fixed", "unread", "global"}, waiting : SUBSET Buffers,
                           buffered : Seq(Nat)]
        /\ fetching' \in [Buffers -> 0 .. Limit]
    BY DEF Asking
  <2> QED BY <1>1, <1>2, <1>4, <1>6, <2>1, <2>2, <2>3 DEF TypeInv
<1>8. DetachedInv'
  BY <1>2 DEF DetachedInv
<1>9. StuckInv'
  <2>1. DOMAIN up' = 1 .. n + k /\ down' = down
    BY <1>2, <1>4, LenProperties
  <2>2. ASSUME NEW b \in Outstanding PROVE b \in Outstanding'
    <3>1. (\E i \in 1 .. n : up[i].b = b) \/ (\E i \in 1 .. Len(down) : down[i].b = b)
      BY <1>1, OutstandingIs DEF n
    <3>2. DOMAIN down' = 1 .. Len(down)
      BY <1>1, <1>2, LenProperties DEF TypeInv
    <3>3. \A i \in 1 .. n : i \in 1 .. n + k /\ up'[i] = up[i]
      BY <1>2, <1>4, <1>5
    <3> QED BY <1>2, <2>1, <3>1, <3>2, <3>3 DEF Outstanding
  <2>3. ASSUME NEW b, NEW i \in 1 .. k, a[i].b = b PROVE b \in Outstanding'
    <3>1. n + i \in DOMAIN up' /\ up'[n + i] = a[i]
      BY <1>2, <1>4, <1>5, <2>1
    <3> QED BY <2>3, <3>1 DEF Outstanding
  <2>4. \A b \in requester'.waiting : b \in Outstanding'
    BY <2>2, <2>3 DEF Asking, k
  <2>5. pending' # << >> => posted' > 0
    BY <1>1, <1>2 DEF StuckInv, NothingStuck
  <2>6. requester'.buffered # << >> => requester'.waiting # {}
    BY DEF Asking
  <2>7. ~Buffering' => requester'.waiting = {} /\ requester'.buffered = << >>
    BY DEF Asking
  <2> QED BY <2>4, <2>5, <2>6, <2>7 DEF StuckInv, NothingStuck
<1>10. GapInv'
  BY <1>1, <1>2 DEF GapInv
<1>11. FetchInv'
  <2> SUFFICES ASSUME ~torn, NEW b \in Buffers, fetching'[b] > 0
               PROVE  Ends(b, u, down, log, Known, Seen(shown, down))
    BY <1>2, <1>6 DEF FetchInv
  <2>1. CASE fetching[b] > 0
    <3>1. Ends(b, up, down, log, Known, Seen(shown, down))
      BY <1>1, <2>1 DEF FetchInv
    <3>2. ASSUME NEW i \in 1 .. n, Fetches(up[i], b) PROVE \E j \in 1 .. Len(u) : Fetches(u[j], b)
      <4>1. i \in 1 .. Len(u) /\ u[i] = up[i]
        BY <1>4, <1>5
      <4> QED BY <3>2, <4>1
    <3> QED BY <3>1, <3>2 DEF Ends, n
  <2>2. CASE \E i \in 1 .. k : Fetches(a[i], b)
    <3>1. PICK i \in 1 .. k : Fetches(a[i], b)
      BY <2>2
    <3>2. n + i \in 1 .. Len(u) /\ u[n + i] = a[i]
      BY <1>4, <1>5
    <3> QED BY <3>1, <3>2 DEF Ends
  <2> QED BY <2>1, <2>2 DEF Asking, k
<1>12. FreshInv'
  BY <1>1, <1>2, <1>6 DEF FreshInv
<1> QED BY <1>7, <1>8, <1>9, <1>10, <1>11, <1>12 DEF IInv

\* One request.
LEMMA AskingOne ==
  ASSUME TypeInv, NEW r \in Requests
  PROVE  /\ <<r>> \in Seq(Requests) /\ Append(up, r) = up \o <<r>>
         /\ Len(<<r>>) = 1 /\ <<r>>[1] = r /\ (\A i \in 1 .. Len(<<r>>) : <<r>>[i] = r)
         /\ 1 \in 1 .. Len(<<r>>)
<1>1. Append(up, r) = up \o <<r>>
  BY AppendIsConcat DEF TypeInv
<1> QED BY <1>1

LEMMA RequestInitialBacklogKeeps ==
  ASSUME IInv, NEW type \in {"fixed", "unread", "global"}, NEW view \in SUBSET Buffers,
         NEW read \in Reads, RequestInitialBacklog(type, view, read)
  PROVE  IInv'
<1> DEFINE R == [type : {"none", "fixed", "unread", "global"}, waiting : SUBSET Buffers,
                 buffered : Seq(Nat)]
<1>1. TypeInv /\ StuckInv
  BY DEF IInv
<1>2. /\ attached /\ UNCHANGED <<log, attached, torn, modelVars, down>> /\ fetching' = fetching
      /\ requester.type = "none"
  BY DEF RequestInitialBacklog
<1>3. fetching \in [Buffers -> 0 .. Limit] /\ log \in Seq(Buffers) /\ requester.buffered = << >>
  BY <1>1, <1>2 DEF TypeInv, StuckInv, Buffering
<1>4. << >> \in Seq(Nat)
  BY EmptySeq
<1>5. CASE type = "global"
  <2>1. requester' = [type |-> type, waiting |-> {}, buffered |-> << >>]
    BY <1>5 DEF RequestInitialBacklog, NoRequester
  <2>2. PICK b \in Buffers : up' = Append(up, Ask("all", read[b], -1, Additional))
    BY <1>5 DEF RequestInitialBacklog
  <2> DEFINE r == Ask("all", read[b], -1, Additional)
  <2>3. read[b] \in Nat
    <3>1. Ids \in SUBSET Nat
      BY <1>3, StoredIs
    <3>2. read[b] \in {0} \union Ids
      BY DEF Reads
    <3>3. \A x \in {0} \union Ids : x \in Nat
      BY <3>1
    <3> DEFINE v == read[b]
    <3> HIDE DEF v
    <3>4. v \in Nat
      BY <3>2, <3>3 DEF v
    <3> QED BY <3>4 DEF v
  <2>4. r = [b |-> "all", first |-> read[b], last |-> -1, limit |-> Limit, additional |-> Additional]
    BY DEF Ask
  <2>5. r \in Requests /\ r.b = "all" /\ r.first \in Nat
    BY <2>3, <2>4, BacklogAssumption DEF Requests
  <2>6. RequestOK(r, log, shown)
    <3> HIDE DEF r
    <3> QED BY <2>5 DEF RequestOK
  <2> HIDE DEF r
  <2>7. /\ <<r>> \in Seq(Requests) /\ up' = up \o <<r>>
        /\ \A i \in 1 .. Len(<<r>>) : RequestOK(<<r>>[i], log, shown)
    BY <1>1, <2>2, <2>5, <2>6, AskingOne DEF r
  <2> DEFINE a == <<r>>
  <2> HIDE DEF a
  <2>8. a \in Seq(Requests) /\ up' = up \o a /\ \A i \in 1 .. Len(a) : RequestOK(a[i], log, shown)
    BY <2>7 DEF a
  <2>9. requester' \in R /\ requester'.waiting = {} /\ requester'.buffered = << >>
    BY <1>4, <1>5, <2>1
  <2>10. Asking(a)
    BY <1>2, <1>3, <2>8, <2>9 DEF Asking
  <2> QED BY <2>8, <2>10, AskingKeeps
<1>6. CASE type # "global"
  <2> DEFINE a == Asks(view, type, read)
  <2>1. requester' = [type |-> type, waiting |-> view, buffered |-> << >>] /\ up' = up \o a
    BY <1>6 DEF RequestInitialBacklog, NoRequester
  <2>2. /\ a \in Seq(Requests)
        /\ \A i \in 1 .. Len(a) : RequestOK(a[i], log, shown)
        /\ \A b \in view : \E i \in 1 .. Len(a) : a[i].b = b
    <3>1. Askable(view, read)
      BY DEF Askable
    <3>2. log \in Seq(Buffers)
      BY <1>3
    <3> QED BY <3>1, <3>2, AsksIs
  <2> HIDE DEF a
  <2>3. requester' \in R /\ requester'.waiting = view /\ requester'.buffered = << >>
        /\ requester'.type = type
    BY <1>4, <2>1
  <2>4. Buffering'
    BY <1>6, <2>3 DEF Buffering
  <2>5. Asking(a)
    BY <1>2, <1>3, <2>1, <2>2, <2>3, <2>4 DEF Asking
  <2> QED BY <2>2, <2>5, AskingKeeps
<1> QED BY <1>5, <1>6

LEMMA CheckForBacklogKeeps ==
  ASSUME IInv, NEW view \in SUBSET Buffers, NEW read \in Reads, CheckForBacklog(view, read)
  PROVE  IInv'
<1> DEFINE R == [type : {"none", "fixed", "unread", "global"}, waiting : SUBSET Buffers,
                 buffered : Seq(Nat)]
           new == view \ requested
           type == requester.type
           a == Asks(new, type, read)
<1>1. TypeInv
  BY DEF IInv
<1>2. /\ attached /\ UNCHANGED <<log, attached, torn, modelVars, down>> /\ fetching' = fetching
      /\ requester.type \in {"fixed", "unread"} /\ new # {}
      /\ requester' = [requester EXCEPT !.waiting = new] /\ up' = up \o a
  BY DEF CheckForBacklog, WaitFor
<1>3. fetching \in [Buffers -> 0 .. Limit] /\ log \in Seq(Buffers) /\ requester \in R
  BY <1>1 DEF TypeInv
<1>4. new \in SUBSET Buffers
  OBVIOUS
<1> HIDE DEF new
<1>5. /\ a \in Seq(Requests)
      /\ \A i \in 1 .. Len(a) : RequestOK(a[i], log, shown)
      /\ \A b \in new : \E i \in 1 .. Len(a) : a[i].b = b
  <2>1. Askable(new, read)
    BY <1>4 DEF Askable
  <2>2. log \in Seq(Buffers)
    BY <1>3
  <2> HIDE DEF type
  <2> QED BY <2>1, <2>2, AsksIs
<1> HIDE DEF a
<1>6. /\ requester' \in R /\ requester'.waiting = new /\ requester'.buffered = requester.buffered
      /\ requester'.type = requester.type
  BY <1>2, <1>3, <1>4
<1>7. Buffering'
  BY <1>2, <1>6 DEF Buffering
<1>8. Asking(a)
  BY <1>2, <1>3, <1>5, <1>6, <1>7 DEF Asking
<1> QED BY <1>5, <1>8, AskingKeeps

LEMMA FetchKeeps ==
  ASSUME IInv, NEW b \in Buffers, Fetch(b)
  PROVE  IInv'
<1> DEFINE R == [type : {"none", "fixed", "unread", "global"}, waiting : SUBSET Buffers,
                 buffered : Seq(Nat)]
           r == Ask(b, -1, Oldest(b), 0)
<1>1. TypeInv /\ StuckInv
  BY DEF IInv
<1>2. /\ attached /\ UNCHANGED <<log, attached, torn, modelVars, down>> /\ requester' = requester
      /\ fetching' = [fetching EXCEPT ![b] = Limit] /\ up' = Append(up, r)
  BY DEF Fetch
<1>3. fetching \in [Buffers -> 0 .. Limit] /\ requester \in R
  BY <1>1 DEF TypeInv
<1>4. Oldest(b) = -1 \/ (Oldest(b) \in ToSet(shown) /\ Oldest(b) \in Nat /\ log[Oldest(b)] = b)
  BY <1>1, OldestIs
<1>5. r = [b |-> b, first |-> -1, last |-> Oldest(b), limit |-> Limit, additional |-> 0]
  BY DEF Ask
<1>6. r \in Requests /\ r.b = b /\ r.first = -1 /\ r.additional = 0 /\ r.last = Oldest(b)
  BY <1>4, <1>5 DEF Requests
<1> HIDE DEF r
<1>7. RequestOK(r, log, shown) /\ Fetches(r, b)
  BY <1>4, <1>6 DEF RequestOK, Fetches
<1> DEFINE a == <<r>>
<1>8. /\ a \in Seq(Requests) /\ up' = up \o a
      /\ \A i \in 1 .. Len(a) : RequestOK(a[i], log, shown)
      /\ \E i \in 1 .. Len(a) : Fetches(a[i], b)
  BY <1>1, <1>2, <1>6, <1>7, AskingOne
<1> HIDE DEF a
<1>9. /\ fetching' \in [Buffers -> 0 .. Limit]
      /\ \A c \in Buffers : fetching'[c] > 0 =>
           fetching[c] > 0 \/ \E i \in 1 .. Len(a) : Fetches(a[i], c)
  <2>1. Limit \in 0 .. Limit
    BY BacklogAssumption
  <2>2. fetching' \in [Buffers -> 0 .. Limit] /\ \A c \in Buffers : c # b => fetching'[c] = fetching[c]
    BY <1>2, <1>3, <2>1
  <2>3. ASSUME NEW c \in Buffers, fetching'[c] > 0
        PROVE  fetching[c] > 0 \/ \E i \in 1 .. Len(a) : Fetches(a[i], c)
    <3>1. CASE c = b
      BY <1>8, <3>1
    <3>2. CASE c # b
      BY <2>2, <2>3, <3>2
    <3> QED BY <3>1, <3>2
  <2> QED BY <2>2, <2>3
<1>10. /\ requester.buffered # << >> => requester.waiting # {}
       /\ \A c \in requester.waiting : c \in Outstanding
       /\ ~Buffering => requester.waiting = {} /\ requester.buffered = << >>
       /\ Buffering' = Buffering
  BY <1>1, <1>2 DEF StuckInv, NothingStuck, Buffering
<1>11. Asking(a)
  BY <1>2, <1>3, <1>8, <1>9, <1>10 DEF Asking
<1> QED BY <1>8, <1>11, AskingKeeps

LEMMA AttachKeeps ==
  ASSUME IInv, Attach
  PROVE  IInv'
<1>1. /\ attached' = TRUE /\ log' = log /\ requester' = requester /\ fetching' = fetching
      /\ torn' = torn /\ shown' = shown /\ pending' = pending /\ posted' = posted
      /\ up' = up /\ down' = down
  BY DEF Attach, modelVars
<1>2. TypeInv /\ DetachedInv /\ StuckInv /\ GapInv /\ FetchInv /\ FreshInv
  BY DEF IInv
<1>3. Known' = Known /\ Ids' = Ids /\ Outstanding' = Outstanding /\ (Buffering' = Buffering)
  BY <1>1 DEF Known, Ids, Outstanding, Buffering
<1>4. TypeInv'
  BY <1>1, <1>2, <1>3 DEF TypeInv
<1>5. StuckInv'
  BY <1>1, <1>2, <1>3 DEF StuckInv, NothingStuck
<1>6. DetachedInv'
  BY <1>1 DEF DetachedInv
<1>7. GapInv' /\ FetchInv' /\ FreshInv'
  BY <1>1, <1>2, <1>3 DEF GapInv, FetchInv, FreshInv
<1> QED BY <1>4, <1>5, <1>6, <1>7 DEF IInv

\* All of a state without a session follows from what is still to be inserted.
IdleState ==
  /\ log \in Seq(Buffers) /\ pending \in Seq(Nat) /\ Climbing(pending) /\ posted \in Nat
  /\ torn \in BOOLEAN /\ ToSet(pending) \subseteq Ids /\ (pending # << >> => posted > 0)
  /\ (~torn => pending = << >>) /\ attached = FALSE /\ requester = NoRequester
  /\ shown = << >> /\ fetching = [b \in Buffers |-> 0] /\ up = << >> /\ down = << >>

LEMMA Idle == IdleState => IInv
<1> SUFFICES ASSUME IdleState PROVE IInv
  OBVIOUS
<1>0. /\ log \in Seq(Buffers) /\ pending \in Seq(Nat) /\ Climbing(pending) /\ posted \in Nat
      /\ torn \in BOOLEAN /\ ToSet(pending) \subseteq Ids /\ (pending # << >> => posted > 0)
      /\ (~torn => pending = << >>) /\ attached = FALSE /\ requester = NoRequester
      /\ shown = << >> /\ fetching = [b \in Buffers |-> 0] /\ up = << >> /\ down = << >>
  BY DEF IdleState
<1>1. /\ ToSet(<< >>) = {} /\ << >> \in Seq(Nat) /\ Rising(<< >>) /\ Len(<< >>) = 0
      /\ (\A i \in 1 .. Len(<< >>) : FALSE) /\ DOMAIN << >> = {}
      /\ << >> \in Seq(Requests) /\ << >> \in Seq(Answers)
  BY EmptySeq DEF ToSet, Rising
<1>2. /\ requester \in [type : {"none", "fixed", "unread", "global"}, waiting : SUBSET Buffers,
                        buffered : Seq(Nat)]
      /\ requester.waiting = {} /\ requester.buffered = << >> /\ requester.type = "none"
  BY <1>0, <1>1 DEF NoRequester
<1>3. fetching \in [Buffers -> 0 .. Limit] /\ \A b \in Buffers : ~(fetching[b] > 0) /\ fetching[b] = 0
  BY <1>0, BacklogAssumption
<1>4. Known = ToSet(pending)
  BY <1>0, <1>1, <1>2 DEF Known
<1>5. TypeInv
  <2>1. \A i \in 1 .. Len(up) : RequestOK(up[i], log, shown)
    BY <1>0, <1>1
  <2>2. \A i \in 1 .. Len(down) : AnswerOK(down[i], log)
    BY <1>0, <1>1
  <2>3. log \in Seq(Buffers) /\ attached \in BOOLEAN /\ torn \in BOOLEAN
    BY <1>0
  <2>4. shown \in Seq(Nat) /\ Rising(shown)
    BY <1>0, <1>1
  <2>5. up \in Seq(Requests) /\ down \in Seq(Answers)
    BY <1>0, <1>1
  <2>6. pending \in Seq(Nat) /\ Climbing(pending) /\ posted \in Nat /\ Known \subseteq Ids
    BY <1>0, <1>4
  <2> QED BY <1>2, <1>3, <2>1, <2>2, <2>3, <2>4, <2>5, <2>6 DEF TypeInv
<1>6. DetachedInv
  BY <1>0, <1>3 DEF DetachedInv
<1>7. StuckInv
  BY <1>0, <1>2 DEF StuckInv, NothingStuck
<1>8. GapInv
  <2> SUFFICES ASSUME ~torn
               PROVE  /\ Gapless(ToSet(shown), log, Seen(shown, down))
                      /\ Gapless(ToSet(pending), log, Seen(shown, down))
                      /\ Gapless(ToSet(requester.buffered), log, Seen(shown, down))
                      /\ \A i \in 1 .. Len(down) : Whole(down[i], log, Seen(shown, down))
    BY DEF GapInv
  <2>1. Gapless({}, log, Seen(shown, down))
    BY DEF Gapless
  <2>2. ToSet(shown) = {} /\ ToSet(pending) = {} /\ ToSet(requester.buffered) = {}
    BY <1>0, <1>1, <1>2
  <2>3. \A i \in 1 .. Len(down) : FALSE
    BY <1>0, <1>1
  <2> QED BY <2>1, <2>2, <2>3
<1>9. FetchInv
  BY <1>0, <1>3 DEF FetchInv
<1>10. FreshInv
  <2>1. \A i \in 1 .. Len(down) : FALSE
    BY <1>0, <1>1
  <2> QED BY <2>1 DEF FreshInv, Fresh
<1> QED BY <1>5, <1>6, <1>7, <1>8, <1>9, <1>10 DEF IInv

LEMMA DetachKeeps ==
  ASSUME IInv, Detach
  PROVE  IInv'
<1>1. /\ attached' = FALSE /\ requester' = NoRequester /\ shown' = << >>
      /\ fetching' = [b \in Buffers |-> 0] /\ up' = << >> /\ down' = << >>
      /\ torn' = (pending # << >>) /\ log' = log /\ pending' = pending /\ posted' = posted
  BY DEF Detach
<1>2. /\ log \in Seq(Buffers) /\ pending \in Seq(Nat) /\ Climbing(pending) /\ posted \in Nat
      /\ ToSet(pending) \subseteq Ids
  BY DEF IInv, TypeInv, Known
<1>3. pending # << >> => posted > 0
  BY DEF IInv, StuckInv, NothingStuck
<1>4. /\ ToSet(pending') \subseteq Ids' /\ torn' \in BOOLEAN
      /\ ~torn' => pending' = << >>
  BY <1>1, <1>2 DEF Ids
<1>5. IdleState'
  BY <1>1, <1>2, <1>3, <1>4 DEF IdleState
<1>6. IdleState' => IInv'
  BY Idle, PTL
<1> QED BY <1>5, <1>6

LEMMA InitHolds ==
  ASSUME BacklogInit
  PROVE  IInv
<1>1. << >> \in Seq(Nat) /\ ToSet(<< >>) = {} /\ Climbing(<< >>)
  BY EmptySeq DEF ToSet, Climbing
<1>2. log \in Seq(Buffers)
  BY BacklogAssumption DEF BacklogInit
<1> QED BY <1>1, <1>2, Idle DEF BacklogInit, IdleState

LEMMA NextKeeps ==
  ASSUME IInv, [BacklogNext]_backlogVars
  PROVE  IInv'
<1>1. CASE BacklogNext
  <2>1. ASSUME NEW type \in {"fixed", "unread", "global"}, NEW view \in SUBSET Buffers,
               NEW read \in Reads, RequestInitialBacklog(type, view, read)
        PROVE  IInv'
    BY <2>1, RequestInitialBacklogKeeps
  <2>2. ASSUME NEW view \in SUBSET Buffers, NEW read \in Reads, CheckForBacklog(view, read)
        PROVE  IInv'
    BY <2>2, CheckForBacklogKeeps
  <2>3. ASSUME NEW b \in Buffers, Fetch(b) PROVE IInv'
    BY <2>3, FetchKeeps
  <2>4. ASSUME NEW b \in Buffers, CoreStores(b) PROVE IInv'
    BY <2>4, CoreStoresKeeps
  <2>5. CASE CoreAnswers
    BY <2>5, CoreAnswersKeeps
  <2>6. CASE ClientReceives
    BY <2>6, ClientReceivesKeeps
  <2>7. CASE ProcessBufferEvent
    BY <2>7, ProcessBufferEventKeeps
  <2>8. CASE Attach
    BY <2>8, AttachKeeps
  <2>9. CASE Detach
    BY <2>9, DetachKeeps
  <2> QED BY <1>1, <2>1, <2>2, <2>3, <2>4, <2>5, <2>6, <2>7, <2>8, <2>9 DEF BacklogNext
<1>2. CASE UNCHANGED backlogVars
  <2>1. /\ log' = log /\ attached' = attached /\ requester' = requester /\ fetching' = fetching
        /\ torn' = torn /\ shown' = shown /\ pending' = pending /\ posted' = posted
        /\ up' = up /\ down' = down
    BY <1>2 DEF backlogVars, sessionVars, modelVars
  <2>2. TypeInv /\ DetachedInv /\ StuckInv /\ GapInv /\ FetchInv /\ FreshInv
    BY DEF IInv
  <2>3. Known' = Known /\ Ids' = Ids /\ Outstanding' = Outstanding /\ (Buffering' = Buffering)
    BY <2>1 DEF Known, Ids, Outstanding, Buffering
  <2>4. TypeInv'
    BY <2>1, <2>2, <2>3 DEF TypeInv
  <2>5. DetachedInv' /\ StuckInv'
    BY <2>1, <2>2, <2>3 DEF DetachedInv, StuckInv, NothingStuck
  <2>6. GapInv' /\ FetchInv' /\ FreshInv'
    BY <2>1, <2>2, <2>3 DEF GapInv, FetchInv, FreshInv
  <2> QED BY <2>4, <2>5, <2>6 DEF IInv
<1> QED BY <1>1, <1>2

LEMMA Invariant == BacklogSpec => []IInv
<1>1. BacklogInit => IInv
  BY InitHolds
<1>2. IInv /\ [BacklogNext]_backlogVars => IInv'
  BY NextKeeps
<1> QED BY <1>1, <1>2, PTL DEF BacklogSpec

-----------------------------------------------------------------------------
(* Theorems *)

\* Whatever brings a message first, and in however many groups it is inserted, the rows of
\* the MessageModel rise strictly (insertMessageGroup, insertMessagesGracefully).
THEOREM RowsInOrderHolds == BacklogSpec => []RowsInOrder
<1>1. IInv => RowsInOrder
  <2> SUFFICES ASSUME IInv, NEW i \in 1 .. Len(shown) - 1 PROVE shown[i] < shown[i + 1]
    BY DEF RowsInOrder
  <2>1. Rising(shown) /\ Len(shown) \in Nat
    BY LenProperties DEF IInv, TypeInv
  <2>2. i \in 1 .. Len(shown) /\ i + 1 \in 1 .. Len(shown) /\ i < i + 1
    BY <2>1
  <2> QED BY <2>1, <2>2 DEF Rising
<1> QED BY <1>1, Invariant, PTL

\* Between two messages of a buffer that are shown none of its messages is missing: a
\* message that is newer than one that is shown is shown too, or it is a live message under
\* way, which is newer than all that is known.
THEOREM NoGapHolds == BacklogSpec => []NoGap
<1>1. IInv => NoGap
  <2> SUFFICES ASSUME IInv, ~torn, NEW b \in Buffers, NEW id \in Ids, log[id] = b,
                      NEW i \in DOMAIN shown, NEW j \in DOMAIN shown,
                      shown[i] < id, id < shown[j], log[shown[i]] = b
               PROVE  id \in ToSet(shown)
    BY DEF NoGap
  <2>1. TypeInv /\ GapInv /\ Fresh(down, Known)
    BY DEF IInv, FreshInv
  <2>2. shown \in Seq(Nat) /\ DOMAIN shown = 1 .. Len(shown)
    BY <2>1, LenProperties DEF TypeInv
  <2>3. shown[i] \in ToSet(shown) /\ shown[j] \in ToSet(shown) /\ shown[j] \in Nat
    BY <2>2, ToSetIs
  <2>4. Gapless(ToSet(shown), log, Seen(shown, down))
    BY <2>1 DEF GapInv
  <2>5. id \in 1 .. Len(log) /\ Len(log) \in Nat
    BY <2>1, LenProperties DEF Ids, TypeInv
  <2>6. id \in ToSet(shown) \union Seen(shown, down)
    BY <2>3, <2>4, <2>5 DEF Gapless
  <2>7. ASSUME id \in Live(down) PROVE FALSE
    <3>1. PICK k \in 1 .. Len(down) : down[k].b = "live" /\ id = down[k].msgs[1]
      BY <2>7, LiveIs
    <3>2. shown[j] \in Known
      BY <2>3 DEF Known
    <3>3. shown[j] < id
      BY <2>1, <3>1, <3>2 DEF Fresh
    <3> QED BY <2>3, <2>5, <3>3
  <2> QED BY <2>6, <2>7 DEF Seen
<1> QED BY <1>1, Invariant, PTL

\* What the client has buffered waits for an answer that is under way, and what it has not
\* inserted for an event that is posted.
THEOREM NothingStuckHolds == BacklogSpec => []NothingStuck
<1>1. IInv => NothingStuck
  BY DEF IInv, StuckInv
<1> QED BY <1>1, Invariant, PTL

\* A buffer whose fetch has not ended, though no answer for it is under way, has nothing
\* left to fetch.
THEOREM FetchEndsHolds == BacklogSpec => []FetchEnds
<1>1. IInv => FetchEnds
  <2> SUFFICES ASSUME IInv, NEW b \in Buffers, fetching[b] > 0, b \notin Outstanding, ~torn
               PROVE  In(b) \subseteq ToSet(shown \o pending \o requester.buffered) \union OnTheWay
    BY DEF FetchEnds
  <2>1. TypeInv /\ FetchInv
    BY DEF IInv
  <2>2. Ends(b, up, down, log, Known, Seen(shown, down))
    BY <2>1 DEF FetchInv
  <2>3. /\ \A i \in 1 .. Len(up) : up[i].b # b
        /\ \A i \in 1 .. Len(down) : down[i].b # b
    BY <2>1, OutstandingIs
  <2>4. Stored(log, b) \subseteq Known \union Seen(shown, down)
    BY <2>2, <2>3 DEF Ends, Fetches, Finishes
  <2>5. /\ shown \in Seq(Nat) /\ pending \in Seq(Nat) /\ requester.buffered \in Seq(Nat)
        /\ down \in Seq(Answers) /\ DOMAIN down = 1 .. Len(down)
    BY <2>1, LenProperties DEF TypeInv
  <2>6. ToSet(shown \o pending \o requester.buffered) = Known
    <3> DEFINE s == shown \o pending
    <3>1. s \in Seq(Nat) /\ ToSet(s) = ToSet(shown) \union ToSet(pending)
      BY <2>5, ConcatIs
    <3> HIDE DEF s
    <3>2. ToSet(s \o requester.buffered) = ToSet(s) \union ToSet(requester.buffered)
      BY <2>5, <3>1, ConcatIs
    <3> QED BY <3>1, <3>2 DEF Known, s
  <2>7. Live(down) \subseteq OnTheWay
    <3> SUFFICES ASSUME NEW x \in Live(down) PROVE x \in OnTheWay
      OBVIOUS
    <3>1. PICK i \in 1 .. Len(down) : down[i].b = "live" /\ x = down[i].msgs[1]
      BY LiveIs
    <3>2. AnswerOK(down[i], log)
      BY <2>1 DEF TypeInv
    <3>3. down[i].msgs \in Seq(Nat) /\ Len(down[i].msgs) = 1 /\ 1 \in 1 .. 1
      BY <3>1, <3>2 DEF AnswerOK, Answers
    <3>4. x \in ToSet(down[i].msgs)
      BY <3>1, <3>3, ToSetIs
    <3> QED BY <2>5, <3>4 DEF OnTheWay
  <2>8. ToSet(shown) \subseteq Known
    BY DEF Known
  <2> QED BY <2>4, <2>6, <2>7, <2>8, StoredIn DEF Seen
<1> QED BY <1>1, Invariant, PTL
=============================================================================
