---------------------------- MODULE Lists_proofs ----------------------------
(***************************************************************************)
(* Facts about lists, for lists of any length: which elements a list has   *)
(* after an operation, and what is kept of it; about the least of some     *)
(* numbers, lists of lists, and the places in an order.                    *)
(***************************************************************************)
EXTENDS Lists, FiniteSetTheorems, TLAPS

(***************************************************************************)
(* Lists as sets.                                                          *)
(***************************************************************************)
LEMMA AppendSet ==
  ASSUME NEW S, NEW s \in Seq(S), NEW x \in S
  PROVE  Append(s, x) \in Seq(S) /\ ToSet(Append(s, x)) = ToSet(s) \cup {x}
<1>1. /\ Append(s, x) \in Seq(S) /\ Len(Append(s, x)) = Len(s) + 1
      /\ Append(s, x)[Len(s) + 1] = x /\ \A i \in 1..Len(s) : Append(s, x)[i] = s[i]
      /\ Len(s) \in Nat /\ DOMAIN Append(s, x) = 1..(Len(s) + 1) /\ DOMAIN s = 1..Len(s)
  OBVIOUS
<1> DEFINE t == Append(s, x)
           n == Len(s)
<1> HIDE DEF t, n
<1>2. /\ n \in Nat /\ t[n + 1] = x /\ DOMAIN t = 1..(n + 1) /\ DOMAIN s = 1..n
      /\ \A i \in 1..n : t[i] = s[i]
  BY <1>1 DEF t, n
<1>3. \A i : i \in 1..(n + 1) <=> i = n + 1 \/ i \in 1..n
  BY <1>2
<1>4. ToSet(t) = ToSet(s) \cup {x}
  BY <1>2, <1>3 DEF ToSet
<1>5. QED
  BY <1>1, <1>4 DEF t

LEMMA ConcatSet ==
  ASSUME NEW S, NEW s \in Seq(S), NEW t \in Seq(S)
  PROVE  s \o t \in Seq(S) /\ ToSet(s \o t) = ToSet(s) \cup ToSet(t)
<1> DEFINE u == s \o t
           m == Len(s)
           n == Len(t)
<1>1. /\ u \in Seq(S) /\ m \in Nat /\ n \in Nat
      /\ DOMAIN u = 1..(m + n) /\ DOMAIN s = 1..m /\ DOMAIN t = 1..n
      /\ \A i \in 1..(m + n) : u[i] = IF i <= m THEN s[i] ELSE t[i - m]
  OBVIOUS
<1> HIDE DEF u, m, n
<1>2. ASSUME NEW i \in 1..(m + n) PROVE u[i] \in ToSet(s) \cup ToSet(t)
  <2>1. CASE i <= m
    <3>1. i \in DOMAIN s /\ u[i] = s[i]
      BY <1>1, <1>2, <2>1
    <3>2. QED
      BY <3>1 DEF ToSet
  <2>2. CASE ~(i <= m)
    <3>1. i - m \in DOMAIN t /\ u[i] = t[i - m]
      BY <1>1, <1>2, <2>2
    <3>2. QED
      BY <3>1 DEF ToSet
  <2>3. QED
    BY <2>1, <2>2
<1>3. ASSUME NEW i \in 1..m PROVE s[i] \in ToSet(u)
  <2>1. i \in DOMAIN u /\ u[i] = s[i]
    BY <1>1, <1>3
  <2>2. QED
    BY <2>1 DEF ToSet
<1>4. ASSUME NEW i \in 1..n PROVE t[i] \in ToSet(u)
  <2>1. m + i \in DOMAIN u /\ u[m + i] = t[i]
    BY <1>1, <1>4
  <2>2. QED
    BY <2>1 DEF ToSet
<1>5. ToSet(u) \subseteq ToSet(s) \cup ToSet(t)
  BY <1>1, <1>2 DEF ToSet
<1>6. ToSet(s) \subseteq ToSet(u)
  BY <1>1, <1>3 DEF ToSet
<1>7. ToSet(t) \subseteq ToSet(u)
  BY <1>1, <1>4 DEF ToSet
<1>8. QED
  BY <1>1, <1>5, <1>6, <1>7 DEF u

LEMMA HeadSet ==
  ASSUME NEW S, NEW s \in Seq(S), s # <<>>
  PROVE  /\ Head(s) \in S /\ Tail(s) \in Seq(S)
         /\ ToSet(s) = {Head(s)} \cup ToSet(Tail(s))
<1> DEFINE t == Tail(s)
           n == Len(s)
<1>1. /\ Head(s) \in S /\ t \in Seq(S) /\ Head(s) = s[1]
      /\ n \in Nat /\ n >= 1 /\ DOMAIN s = 1..n /\ DOMAIN t = 1..(n - 1)
      /\ \A i \in 1..(n - 1) : t[i] = s[i + 1]
  OBVIOUS
<1> HIDE DEF t, n
<1>2. ASSUME NEW i \in 1..n PROVE s[i] = s[1] \/ s[i] \in ToSet(t)
  <2>1. CASE i # 1
    <3>1. i - 1 \in DOMAIN t /\ t[i - 1] = s[i]
      BY <1>1, <1>2, <2>1
    <3>2. QED
      BY <3>1 DEF ToSet
  <2>2. QED
    BY <2>1
<1>3. ASSUME NEW i \in 1..(n - 1) PROVE t[i] \in ToSet(s)
  <2>1. i + 1 \in DOMAIN s /\ t[i] = s[i + 1]
    BY <1>1, <1>3
  <2>2. QED
    BY <2>1 DEF ToSet
<1>4. s[1] \in ToSet(s)
  BY <1>1 DEF ToSet
<1>5. ToSet(s) \subseteq {s[1]} \cup ToSet(t)
  BY <1>1, <1>2 DEF ToSet
<1>6. ToSet(t) \subseteq ToSet(s)
  BY <1>1, <1>3 DEF ToSet
<1>7. QED
  BY <1>1, <1>4, <1>5, <1>6 DEF t

-----------------------------------------------------------------------------
(***************************************************************************)
(* The places of a set are numbered without gaps: a place has as many      *)
(* before it as its number says, and of any number there is one.           *)
(***************************************************************************)
LEMMA BeforeGrows ==
  ASSUME NEW m \in Nat, NEW at \in SUBSET (1..m)
  PROVE  /\ IsFiniteSet(at) /\ Cardinality(at) \in Nat
         /\ \A i \in at : Before(at, i) \in 1..Cardinality(at)
         /\ \A i \in at, j \in at : i < j => Before(at, i) < Before(at, j)
<1>1. IsFiniteSet(1..m)
  BY FS_Interval
<1>2. IsFiniteSet(at) /\ Cardinality(at) \in Nat
  BY <1>1, FS_Subset, FS_CardinalityType
<1>3. ASSUME NEW i \in at
      PROVE  /\ IsFiniteSet({k \in at : k <= i})
             /\ Before(at, i) \in Nat /\ Before(at, i) <= Cardinality(at)
  <2> DEFINE T == {k \in at : k <= i}
  <2>1. T \in SUBSET at
    OBVIOUS
  <2> HIDE DEF T
  <2>2. IsFiniteSet(T) /\ Cardinality(T) <= Cardinality(at) /\ Cardinality(T) \in Nat
    BY <1>2, <2>1, FS_Subset, FS_CardinalityType
  <2>3. QED
    BY <2>2 DEF T, Before
<1>4. ASSUME NEW i \in at PROVE Before(at, i) # 0
  <2> DEFINE T == {k \in at : k <= i}
  <2>1. i \in T
    OBVIOUS
  <2>2. IsFiniteSet(T)
    BY <1>3
  <2> HIDE DEF T
  <2>3. Cardinality(T) # 0
    BY <2>1, <2>2, FS_EmptySet
  <2>4. QED
    BY <2>3 DEF T, Before
<1>5. ASSUME NEW i \in at, NEW j \in at, i < j PROVE Before(at, i) < Before(at, j)
  <2> DEFINE T == {k \in at : k <= i}
             U == {k \in at : k <= j}
  <2>0. i \in Int /\ j \in Int /\ \A k \in at : k \in Int
    OBVIOUS
  <2>5. j <= j /\ ~(j <= i) /\ \A k \in at : k <= i => k <= j
    BY <1>5, <2>0
  <2>1. T \in SUBSET U /\ j \in U /\ j \notin T
    BY <2>5
  <2>2. IsFiniteSet(U)
    BY <1>3
  <2> HIDE DEF T, U
  <2>3. Cardinality(T) <= Cardinality(U) /\ Cardinality(T) # Cardinality(U)
    BY <2>1, <2>2, FS_Subset
  <2>4. Cardinality(T) \in Nat /\ Cardinality(U) \in Nat
    BY <2>1, <2>2, FS_Subset, FS_CardinalityType
  <2>6. QED
    BY <2>3, <2>4 DEF T, U, Before
<1>6. ASSUME NEW i \in at PROVE Before(at, i) \in 1..Cardinality(at)
  <2>1. Before(at, i) \in Nat /\ Before(at, i) <= Cardinality(at) /\ Before(at, i) # 0
    BY <1>3, <1>4
  <2>2. QED
    BY <1>2, <2>1
<1>7. QED
  BY <1>2, <1>5, <1>6

LEMMA NthFacts ==
  ASSUME NEW m \in Nat, NEW at \in SUBSET (1..m)
  PROVE  /\ Cardinality(at) \in Nat
         /\ \A n \in 1..Cardinality(at) : Nth(at, n) \in at /\ Before(at, Nth(at, n)) = n
         /\ \A i \in at : Before(at, i) \in 1..Cardinality(at) /\ Nth(at, Before(at, i)) = i
         /\ \A i \in at, j \in at : i < j => Before(at, i) < Before(at, j)
<1> DEFINE c == Cardinality(at)
           f == [i \in at |-> Before(at, i)]
<1>1. /\ IsFiniteSet(at) /\ c \in Nat
      /\ \A i \in at : Before(at, i) \in 1..c
      /\ \A i \in at, j \in at : i < j => Before(at, i) < Before(at, j)
  BY BeforeGrows
<1>2. \A i \in at, j \in at : Before(at, i) = Before(at, j) => i = j
  <2> SUFFICES ASSUME NEW i \in at, NEW j \in at, Before(at, i) = Before(at, j), i # j
               PROVE  FALSE
    OBVIOUS
  <2>1. i \in Nat /\ j \in Nat
    OBVIOUS
  <2>2. Before(at, i) \in Nat /\ Before(at, j) \in Nat
    BY <1>1
  <2>3. i < j \/ j < i
    BY <2>1
  <2>4. QED
    BY <1>1, <2>2, <2>3
<1>3. f \in Injection(at, 1..c)
  <2>1. f \in [at -> 1..c]
    BY <1>1
  <2>2. \A i \in at, j \in at : f[i] = f[j] => i = j
    BY <1>2
  <2> HIDE DEF f, c
  <2>3. QED
    BY <2>1, <2>2 DEF Injection, IsInjective
<1>4. IsFiniteSet(1..c) /\ Cardinality(1..c) = c
  BY <1>1, FS_Interval
<1>5. f \in Surjection(at, 1..c)
  <2> HIDE DEF f
  <2>1. QED
    BY <1>3, <1>4, FS_Injection
<1>6. \A n \in 1..c : \E i \in at : Before(at, i) = n
  BY <1>5 DEF Surjection
<1> HIDE DEF c, f
<1>7. \A n \in 1..c : Nth(at, n) \in at /\ Before(at, Nth(at, n)) = n
  BY <1>6 DEF Nth
<1>8. \A i \in at : Nth(at, Before(at, i)) = i
  BY <1>1, <1>2, <1>7
<1>9. QED
  BY <1>1, <1>7, <1>8 DEF c
-----------------------------------------------------------------------------
(***************************************************************************)
(* What is kept of a list.                                                 *)
(***************************************************************************)
LEMMA KeptFacts ==
  ASSUME NEW T, NEW seq \in Seq(T), NEW S
  PROVE  /\ Kept(seq, S) \in Seq(T \cap S)
         /\ ToSet(Kept(seq, S)) = ToSet(seq) \cap S
         /\ IsInjective(seq) => IsInjective(Kept(seq, S))
<1> DEFINE at == {i \in DOMAIN seq : seq[i] \in S}
           c  == Cardinality(at)
           u  == Kept(seq, S)
           m  == Len(seq)
<1>1. /\ m \in Nat /\ DOMAIN seq = 1..m /\ at \in SUBSET (1..m)
      /\ \A i \in 1..m : seq[i] \in T
  OBVIOUS
<1>2. \A i : i \in at <=> i \in DOMAIN seq /\ seq[i] \in S
  OBVIOUS
<1>3. u = [n \in 1..c |-> seq[Nth(at, n)]]
  BY DEF Kept
<1> HIDE DEF at, m
<1>4. /\ c \in Nat
      /\ \A n \in 1..c : Nth(at, n) \in at /\ Before(at, Nth(at, n)) = n
      /\ \A i \in at : Before(at, i) \in 1..c /\ Nth(at, Before(at, i)) = i
  BY <1>1, NthFacts
<1> HIDE DEF c, u
<1>5. DOMAIN u = 1..c /\ \A n \in 1..c : u[n] = seq[Nth(at, n)]
  BY <1>3
<1>6. \A n \in 1..c : seq[Nth(at, n)] \in T \cap S /\ seq[Nth(at, n)] \in ToSet(seq)
  BY <1>1, <1>2, <1>4 DEF ToSet
<1>7. u \in Seq(T \cap S)
  BY <1>3, <1>4, <1>6
<1>8. ToSet(u) = ToSet(seq) \cap S
  <2>1. ToSet(u) \subseteq ToSet(seq) \cap S
    BY <1>5, <1>6 DEF ToSet
  <2>2. ASSUME NEW x \in ToSet(seq) \cap S PROVE x \in ToSet(u)
    <3>1. PICK i \in at : seq[i] = x
      BY <1>2 DEF ToSet
    <3>2. Before(at, i) \in DOMAIN u /\ u[Before(at, i)] = x
      BY <1>4, <1>5, <3>1
    <3>3. QED
      BY <3>2 DEF ToSet
  <2>3. QED
    BY <2>1, <2>2
<1>9. IsInjective(seq) => IsInjective(u)
  BY <1>2, <1>4, <1>5 DEF IsInjective
<1>10. QED
  BY <1>7, <1>8, <1>9 DEF u

LEMMA KeptLength ==
  ASSUME NEW T, NEW seq \in Seq(T), NEW S
  PROVE  Len(Kept(seq, S)) \in Nat /\ Len(Kept(seq, S)) <= Len(seq)
<1> DEFINE at == {i \in DOMAIN seq : seq[i] \in S}
           c  == Cardinality(at)
           m  == Len(seq)
<1>1. m \in Nat /\ at \in SUBSET (1..m)
  OBVIOUS
<1>2. Kept(seq, S) = [n \in 1..c |-> seq[Nth(at, n)]]
  BY DEF Kept
<1> HIDE DEF at, m
<1>3. IsFiniteSet(1..m) /\ Cardinality(1..m) = m
  BY <1>1, FS_Interval
<1>4. c \in Nat /\ c <= m
  BY <1>1, <1>3, FS_Subset, FS_CardinalityType
<1> HIDE DEF c
<1>5. Kept(seq, S) \in Seq(T) /\ DOMAIN Kept(seq, S) = 1..c
  <2>1. \A u : u \in Seq(T \cap S) => u \in Seq(T)
    OBVIOUS
  <2>2. QED
    BY <1>2, <2>1, KeptFacts
<1>6. Len(Kept(seq, S)) = c
  <2>1. \A u \in Seq(T) : DOMAIN u = 1..c => Len(u) = c
    BY <1>4
  <2>2. QED
    BY <1>5, <2>1
<1>7. QED
  BY <1>4, <1>6 DEF m

\* Where nothing is left out, everything is kept.
LEMMA KeptAll ==
  ASSUME NEW T, NEW seq \in Seq(T), NEW S, ToSet(seq) \subseteq S
  PROVE  Kept(seq, S) = seq
<1> DEFINE at == {i \in DOMAIN seq : seq[i] \in S}
           m  == Len(seq)
<1>1. m \in Nat /\ DOMAIN seq = 1..m /\ seq = [i \in 1..m |-> seq[i]]
  OBVIOUS
<1>2. at = 1..m
  BY <1>1 DEF ToSet
<1>3. Kept(seq, S) = [n \in 1..Cardinality(at) |-> seq[Nth(at, n)]]
  BY DEF Kept
<1> HIDE DEF at, m
<1>4. Cardinality(at) = m
  BY <1>1, <1>2, FS_Interval
<1>5. ASSUME NEW i \in 1..m PROVE Nth(at, i) = i
  <2>1. {k \in at : k <= i} = 1..i
    BY <1>1, <1>2
  <2>2. Cardinality(1..i) = i
    BY FS_Interval
  <2>3. Before(at, i) = i
    BY <2>1, <2>2 DEF Before
  <2>4. Nth(at, Before(at, i)) = i
    BY <1>1, <1>2, NthFacts
  <2>5. QED
    BY <2>3, <2>4
<1>6. QED
  BY <1>1, <1>3, <1>4, <1>5

\* Only the places of the kept elements count.
LEMMA KeptSame ==
  ASSUME NEW T, NEW s \in Seq(T), NEW t \in Seq(T), NEW R, NEW S,
         Len(s) <= Len(t),
         \A i \in 1..Len(s) : t[i] = s[i],
         \A i \in 1..Len(s) : s[i] \in R <=> s[i] \in S,
         \A i \in 1..Len(t) : i \in 1..Len(s) \/ t[i] \notin S
  PROVE  Kept(s, R) = Kept(t, S)
<1> DEFINE a == {i \in DOMAIN s : s[i] \in R}
           b == {i \in DOMAIN t : t[i] \in S}
           m == Len(s)
           n == Len(t)
<1>1. m \in Nat /\ n \in Nat /\ DOMAIN s = 1..m /\ DOMAIN t = 1..n /\ a \in SUBSET (1..m)
  OBVIOUS
<1>2. a = b
  <2> HIDE DEF m, n
  <2>1. \A i \in 1..m : i \in 1..n
    BY <1>1 DEF m, n
  <2>2. QED
    BY <1>1, <2>1 DEF m, n
<1>3. \A i \in a : s[i] = t[i]
  BY <1>1
<1>4. /\ Kept(s, R) = [i \in 1..Cardinality(a) |-> s[Nth(a, i)]]
      /\ Kept(t, S) = [i \in 1..Cardinality(a) |-> t[Nth(a, i)]]
  BY <1>2 DEF Kept
<1> HIDE DEF a, b, m, n
<1>5. \A i \in 1..Cardinality(a) : Nth(a, i) \in a
  BY <1>1, NthFacts
<1>6. QED
  BY <1>3, <1>4, <1>5

LEMMA KeptAgrees ==
  ASSUME NEW T, NEW s \in Seq(T), NEW R, NEW S,
         \A x \in ToSet(s) : x \in R <=> x \in S
  PROVE  Kept(s, R) = Kept(s, S)
<1>1. \A i \in 1..Len(s) : s[i] \in ToSet(s)
  BY DEF ToSet
<1>2. QED
  BY <1>1, KeptSame

\* What is put at the end and not kept makes no difference.
LEMMA KeptConcat ==
  ASSUME NEW T, NEW s \in Seq(T), NEW t \in Seq(T), NEW S,
         ToSet(t) \cap S = {}
  PROVE  Kept(s \o t, S) = Kept(s, S)
<1> DEFINE u == s \o t
           m == Len(s)
           n == Len(t)
<1>1. /\ u \in Seq(T) /\ m \in Nat /\ n \in Nat /\ Len(u) = m + n /\ DOMAIN t = 1..n
      /\ \A i \in 1..(m + n) : u[i] = IF i <= m THEN s[i] ELSE t[i - m]
  OBVIOUS
<1>2. \A i \in 1..n : t[i] \notin S
  BY <1>1 DEF ToSet
<1> HIDE DEF u, m, n
<1>3. m <= m + n /\ \A i \in 1..m : i \in 1..(m + n) /\ i <= m
  BY <1>1
<1>4. \A i \in 1..(m + n) : i \in 1..m \/ (i - m \in 1..n /\ ~(i <= m))
  BY <1>1
<1>5. Len(s) <= Len(u) /\ \A i \in 1..Len(s) : u[i] = s[i]
  BY <1>1, <1>3 DEF m
<1>6. \A i \in 1..Len(u) : i \in 1..Len(s) \/ u[i] \notin S
  BY <1>1, <1>2, <1>4 DEF m
<1>7. Kept(s, S) = Kept(u, S)
  BY <1>1, <1>5, <1>6, KeptSame
<1>8. QED
  BY <1>7 DEF u

LEMMA KeptAppend ==
  ASSUME NEW T, NEW s \in Seq(T), NEW x \in T, NEW S, x \notin S
  PROVE  Kept(Append(s, x), S) = Kept(s, S)
<1> DEFINE u == Append(s, x)
           m == Len(s)
<1>1. /\ u \in Seq(T) /\ Len(u) = m + 1 /\ m \in Nat
      /\ u[m + 1] = x /\ \A i \in 1..m : u[i] = s[i]
  OBVIOUS
<1> HIDE DEF u, m
<1>2. /\ m <= m + 1
      /\ \A i \in 1..(m + 1) : i \in 1..m \/ i = m + 1
  BY <1>1
<1>3. \A i \in 1..Len(u) : i \in 1..Len(s) \/ u[i] \notin S
  BY <1>1, <1>2 DEF m
<1>4. Len(s) <= Len(u) /\ \A i \in 1..Len(s) : u[i] = s[i]
  BY <1>1, <1>2 DEF m
<1>5. Kept(s, S) = Kept(u, S)
  BY <1>1, <1>3, <1>4, KeptSame
<1>6. QED
  BY <1>5 DEF u
-----------------------------------------------------------------------------
(***************************************************************************)
(* Lists in which nothing occurs twice.                                    *)
(***************************************************************************)
LEMMA AppendOnce ==
  ASSUME NEW S, NEW s \in Seq(S), NEW x \in S, IsInjective(s), x \notin ToSet(s)
  PROVE  IsInjective(Append(s, x))
<1> DEFINE t == Append(s, x)
           n == Len(s)
<1>1. /\ n \in Nat /\ DOMAIN t = 1..(n + 1) /\ DOMAIN s = 1..n
      /\ t[n + 1] = x /\ \A i \in 1..n : t[i] = s[i]
  OBVIOUS
<1> HIDE DEF t, n
<1>2. \A i \in 1..(n + 1) : i = n + 1 \/ i \in 1..n
  BY <1>1
<1>3. \A i \in 1..n : t[i] # x /\ \A j \in 1..n : t[i] = t[j] => i = j
  BY <1>1 DEF IsInjective, ToSet
<1>4. \A i \in 1..(n + 1), j \in 1..(n + 1) : t[i] = t[j] => i = j
  BY <1>1, <1>2, <1>3
<1>5. QED
  BY <1>1, <1>4 DEF t, IsInjective

LEMMA ConcatOnce ==
  ASSUME NEW S, NEW s \in Seq(S), NEW t \in Seq(S),
         IsInjective(s), IsInjective(t), ToSet(s) \cap ToSet(t) = {}
  PROVE  IsInjective(s \o t)
<1> DEFINE u == s \o t
           m == Len(s)
           n == Len(t)
<1>1. /\ m \in Nat /\ n \in Nat
      /\ DOMAIN u = 1..(m + n) /\ DOMAIN s = 1..m /\ DOMAIN t = 1..n
      /\ \A i \in 1..(m + n) : u[i] = IF i <= m THEN s[i] ELSE t[i - m]
  OBVIOUS
<1> HIDE DEF u, m, n
<1>2. \A i \in 1..(m + n) : i <= m => i \in 1..m
  BY <1>1
<1>3. \A i \in 1..(m + n) : ~(i <= m) => i - m \in 1..n
  BY <1>1
<1>4. \A i \in 1..(m + n), j \in 1..(m + n) : i - m = j - m => i = j
  BY <1>1
<1>5. \A i \in 1..m, j \in 1..n : s[i] # t[j]
  BY <1>1 DEF ToSet
<1>6. ASSUME NEW i \in 1..(m + n), NEW j \in 1..(m + n), u[i] = u[j]
      PROVE  i = j
  <2>1. CASE i <= m /\ j <= m
    BY <1>1, <1>2, <1>6, <2>1 DEF IsInjective
  <2>2. CASE ~(i <= m) /\ ~(j <= m)
    <3>1. t[i - m] = t[j - m] /\ i - m \in 1..n /\ j - m \in 1..n
      BY <1>1, <1>3, <1>6, <2>2
    <3>2. i - m = j - m
      BY <1>1, <3>1 DEF IsInjective
    <3>3. QED
      BY <1>4, <3>2
  <2>3. CASE i <= m /\ ~(j <= m)
    BY <1>1, <1>2, <1>3, <1>5, <1>6, <2>3
  <2>4. CASE ~(i <= m) /\ j <= m
    BY <1>1, <1>2, <1>3, <1>5, <1>6, <2>4
  <2>5. QED
    BY <2>1, <2>2, <2>3, <2>4
<1>7. QED
  BY <1>1, <1>6 DEF u, IsInjective

LEMMA PrefixOnce ==
  ASSUME NEW S, NEW s \in Seq(S), NEW n \in 0..Len(s), IsInjective(s)
  PROVE  SubSeq(s, 1, n) \in Seq(S) /\ IsInjective(SubSeq(s, 1, n))
<1>1. /\ SubSeq(s, 1, n) \in Seq(S) /\ DOMAIN SubSeq(s, 1, n) = 1..n
      /\ \A i \in 1..n : SubSeq(s, 1, n)[i] = s[i] /\ i \in DOMAIN s
  OBVIOUS
<1>2. QED
  BY <1>1 DEF IsInjective

\* What is left when place j is taken out.
LEMMA RemoveAtFacts ==
  ASSUME NEW S, NEW s \in Seq(S), NEW j \in DOMAIN s
  PROVE  /\ RemoveAt(s, j) \in Seq(S)
         /\ DOMAIN RemoveAt(s, j) = 1..(Len(s) - 1)
         /\ \A i \in 1..(Len(s) - 1) :
              RemoveAt(s, j)[i] = IF i < j THEN s[i] ELSE s[i + 1]
<1> DEFINE n == Len(s)
           a == SubSeq(s, 1, j - 1)
           b == SubSeq(s, j + 1, n)
<1>1. n \in Nat /\ j \in 1..n /\ DOMAIN s = 1..n
  OBVIOUS
<1>2. a \in Seq(S) /\ Len(a) = j - 1 /\ \A i \in 1..(j - 1) : a[i] = s[i]
  OBVIOUS
<1>3. b \in Seq(S) /\ Len(b) = n - j /\ \A i \in 1..(n - j) : b[i] = s[j + i]
  OBVIOUS
<1> HIDE DEF a, b, n
<1>4. /\ a \o b \in Seq(S) /\ DOMAIN (a \o b) = 1..(Len(a) + Len(b))
      /\ \A i \in 1..(Len(a) + Len(b)) :
           (a \o b)[i] = IF i <= Len(a) THEN a[i] ELSE b[i - Len(a)]
  <2>1. a \in Seq(S) /\ b \in Seq(S)
    BY <1>2, <1>3
  <2>2. QED
    BY <2>1
<1>5. Len(a) + Len(b) = n - 1
  BY <1>1, <1>2, <1>3
<1>6. ASSUME NEW i \in 1..(n - 1) PROVE (a \o b)[i] = IF i < j THEN s[i] ELSE s[i + 1]
  <2>1. CASE i < j
    <3>1. i <= j - 1 /\ i \in 1..(j - 1)
      BY <1>1, <1>6, <2>1
    <3>2. QED
      BY <1>2, <1>4, <1>5, <2>1, <3>1
  <2>2. CASE ~(i < j)
    <3>1. ~(i <= j - 1) /\ i - (j - 1) \in 1..(n - j) /\ j + (i - (j - 1)) = i + 1
      BY <1>1, <1>6, <2>2
    <3>2. QED
      BY <1>2, <1>3, <1>4, <1>5, <2>2, <3>1
  <2>3. QED
    BY <2>1, <2>2
<1>7. RemoveAt(s, j) = a \o b
  BY DEF RemoveAt, a, b, n
<1>8. QED
  BY <1>4, <1>5, <1>6, <1>7 DEF n

\* Two lists, one after the other, place by place.
LEMMA ConcatIs ==
  ASSUME NEW S, NEW s \in Seq(S), NEW t \in Seq(S)
  PROVE  /\ s \o t \in Seq(S) /\ Len(s \o t) = Len(s) + Len(t)
         /\ \A i \in 1..Len(s) : (s \o t)[i] = s[i]
         /\ \A i \in 1..(Len(s) + Len(t)) : ~(i <= Len(s)) => (s \o t)[i] = t[i - Len(s)]
OBVIOUS

\* The first element of one list taken to the end of another.
LEMMA HeadMoves ==
  ASSUME NEW S, NEW s \in Seq(S), NEW t \in Seq(S), t # <<>>
  PROVE  Append(s, Head(t)) \o Tail(t) = s \o t
<1> DEFINE a == Append(s, Head(t))
           r == Tail(t)
           u == a \o r
           v == s \o t
           n == Len(s)
           m == Len(t)
<1>1. /\ n \in Nat /\ m \in Nat /\ m >= 1 /\ a \in Seq(S) /\ Len(a) = n + 1
      /\ a[n + 1] = t[1] /\ \A i \in 1..n : a[i] = s[i]
  OBVIOUS
<1>2. r \in Seq(S) /\ Len(r) = m - 1 /\ \A i \in 1..(m - 1) : r[i] = t[i + 1]
  OBVIOUS
<1> HIDE DEF a, r
<1>3. /\ u \in Seq(S) /\ Len(u) = Len(a) + Len(r)
      /\ \A i \in 1..Len(a) : u[i] = a[i]
      /\ \A i \in 1..(Len(a) + Len(r)) : ~(i <= Len(a)) => u[i] = r[i - Len(a)]
  BY <1>1, <1>2, ConcatIs
<1>4. /\ v \in Seq(S) /\ Len(v) = n + m
      /\ \A i \in 1..n : v[i] = s[i]
      /\ \A i \in 1..(n + m) : ~(i <= n) => v[i] = t[i - n]
  BY ConcatIs
<1> HIDE DEF u, v, n, m
<1>5. Len(u) = n + m
  BY <1>1, <1>2, <1>3
<1>6. ASSUME NEW i \in 1..(n + m) PROVE u[i] = v[i]
  <2>1. CASE i <= n
    <3>1. i \in 1..n /\ i \in 1..Len(a)
      BY <1>1, <2>1
    <3>2. QED
      BY <1>1, <1>3, <1>4, <3>1
  <2>2. CASE i = n + 1
    <3>1. i \in 1..Len(a) /\ ~(i <= n) /\ i - n = 1
      BY <1>1, <2>2
    <3>2. u[i] = t[1]
      BY <1>1, <1>3, <2>2, <3>1
    <3>3. v[i] = t[1]
      BY <1>4, <3>1
    <3>4. QED
      BY <3>2, <3>3
  <2>3. CASE i > n + 1
    <3>1. /\ i \in 1..(Len(a) + Len(r)) /\ ~(i <= Len(a)) /\ ~(i <= n)
          /\ i - Len(a) \in 1..(m - 1) /\ (i - Len(a)) + 1 = i - n
      BY <1>1, <1>2, <2>3
    <3>2. u[i] = r[i - Len(a)] /\ v[i] = t[i - n]
      BY <1>3, <1>4, <3>1
    <3>3. r[i - Len(a)] = t[i - n]
      BY <1>2, <3>1
    <3>4. QED
      BY <3>2, <3>3
  <2>4. QED
    BY <1>1, <2>1, <2>2, <2>3
<1>7. u = v
  BY <1>3, <1>4, <1>5, <1>6
<1>8. QED
  BY <1>7 DEF u, v, a, r
-----------------------------------------------------------------------------
(***************************************************************************)
(* Numbers: a set of naturals has a least element, and what holds at the   *)
(* start and from one number to the next holds of all.  (Stated of sets,   *)
(* it is induction without an operator to instantiate.)                    *)
(***************************************************************************)
\* Some numbers have a least one.
LEMMA LeastNumber ==
  ASSUME NEW T, T \subseteq Nat, T # {}
  PROVE  \E m \in T : \A n \in T : m <= n
<1>1. PICK x \in T : TRUE
  OBVIOUS
<1> DEFINE at == {k \in 1..(x + 1) : k - 1 \in T}
<1>2. x \in Nat /\ x + 1 \in Nat /\ at \in SUBSET (1..(x + 1)) /\ x + 1 \in at
  BY <1>1
<1>3. /\ \A n \in 1..Cardinality(at) : Nth(at, n) \in at /\ Before(at, Nth(at, n)) = n
      /\ \A i \in at : Before(at, i) \in 1..Cardinality(at)
      /\ \A i \in at, j \in at : i < j => Before(at, i) < Before(at, j)
      /\ Cardinality(at) \in Nat
  BY <1>2, NthFacts
<1>4. 1 \in 1..Cardinality(at)
  BY <1>2, <1>3
<1> DEFINE k == Nth(at, 1)
<1>5. k \in at /\ Before(at, k) = 1
  BY <1>3, <1>4
<1> HIDE DEF k
<1>6. \A j \in at : k <= j
  <2> SUFFICES ASSUME NEW j \in at, ~(k <= j) PROVE FALSE
    OBVIOUS
  <2>1. k \in Nat /\ j \in Nat
    BY <1>5
  <2>2. Before(at, j) < Before(at, k) /\ Before(at, j) \in 1..Cardinality(at)
    BY <1>3, <1>5, <2>1
  <2> HIDE DEF at
  <2>3. QED
    BY <1>3, <1>5, <2>2
<1>7. k - 1 \in T /\ k \in Nat
  BY <1>5
<1>8. ASSUME NEW n \in T PROVE k - 1 <= n
  <2>1. n \in Nat
    OBVIOUS
  <2>2. CASE n <= x
    <3>1. n + 1 \in at
      BY <1>2, <2>1, <2>2
    <3>2. k <= n + 1
      BY <1>6, <3>1
    <3>3. QED
      BY <1>7, <2>1, <3>2
  <2>3. CASE ~(n <= x)
    <3>1. k <= x + 1
      BY <1>2, <1>6
    <3>2. QED
      BY <1>2, <1>7, <2>1, <2>3, <3>1
  <2>4. QED
    BY <2>2, <2>3
<1>9. QED
  BY <1>7, <1>8

\* What holds of 0, and of each number after one it holds of, holds up to n.
LEMMA UpTo ==
  ASSUME NEW n \in Nat, NEW T, 0 \in T, \A i \in 1..n : i - 1 \in T => i \in T
  PROVE  \A i \in 0..n : i \in T
<1> SUFFICES ASSUME (0..n) \ T # {} PROVE FALSE
  OBVIOUS
<1>1. PICK m \in (0..n) \ T : \A k \in (0..n) \ T : m <= k
  <2>1. (0..n) \ T \subseteq Nat
    OBVIOUS
  <2>2. QED
    BY <2>1, LeastNumber
<1>2. m \in 1..n /\ m - 1 \in 0..n
  BY <1>1
<1>3. m - 1 \in T
  BY <1>1, <1>2
<1>4. QED
  BY <1>1, <1>2, <1>3

\* A bounded set of naturals has a greatest element.
LEMMA GreatestNumber ==
  ASSUME NEW T, T \subseteq Nat, T # {}, NEW b \in Nat, \A n \in T : n <= b
  PROVE  \E m \in T : \A n \in T : n <= m
<1> DEFINE U == {u \in Nat : \A n \in T : n <= u}
<1>1. PICK u \in U : \A v \in U : u <= v
  <2>1. b \in U /\ U \subseteq Nat
    OBVIOUS
  <2> HIDE DEF U
  <2>2. QED
    BY <2>1, LeastNumber
<1>2. u \in Nat /\ \A n \in T : n <= u
  BY <1>1
<1>3. u \in T
  <2> SUFFICES ASSUME u \notin T PROVE FALSE
    OBVIOUS
  <2>1. PICK x \in T : TRUE
    OBVIOUS
  <2>2. x \in Nat /\ x <= u /\ x # u
    BY <1>2, <2>1
  <2>3. u - 1 \in Nat
    BY <1>2, <2>2
  <2>4. \A n \in T : n <= u - 1
    <3> SUFFICES ASSUME NEW n \in T PROVE n <= u - 1
      OBVIOUS
    <3>1. n \in Nat /\ n <= u /\ n # u
      BY <1>2
    <3>2. QED
      BY <1>2, <3>1
  <2>5. u - 1 \in U
    BY <2>3, <2>4
  <2>6. QED
    BY <1>1, <1>2, <2>5
<1>4. QED
  BY <1>2, <1>3

\* Steps can be taken one after the other.
Courses(n, X, x0, step) ==
  {g \in [0..n -> X] : g[0] = x0 /\ \A i \in 1..n : g[i] = step[<<i, g[i - 1]>>]}

LEMMA Iterated ==
  ASSUME NEW n \in Nat, NEW X, NEW x0 \in X, NEW step \in [(1..n) \X X -> X]
  PROVE  Courses(n, X, x0, step) # {}
<1> SUFFICES \E g \in [0..n -> X] : g[0] = x0 /\ \A i \in 1..n : g[i] = step[<<i, g[i - 1]>>]
  BY DEF Courses
<1> DEFINE Good(k) == \E g \in [0..k -> X] :
                        g[0] = x0 /\ \A i \in 1..k : g[i] = step[<<i, g[i - 1]>>]
           T == {k \in 0..n : Good(k)}
<1>1. 0 \in T
  <2>1. [i \in 0..0 |-> x0] \in [0..0 -> X] /\ [i \in 0..0 |-> x0][0] = x0 /\ 1..0 = {}
    OBVIOUS
  <2>2. Good(0)
    BY <2>1
  <2>3. QED
    BY <2>2
<1>2. ASSUME NEW k \in 1..n, k - 1 \in T PROVE k \in T
  <2>1. PICK g \in [0..(k - 1) -> X] :
              g[0] = x0 /\ \A i \in 1..(k - 1) : g[i] = step[<<i, g[i - 1]>>]
    BY <1>2
  <2> DEFINE h == [i \in 0..k |-> IF i = k THEN step[<<k, g[k - 1]>>] ELSE g[i]]
  <2>2. g[k - 1] \in X /\ k - 1 \in 0..(k - 1)
    OBVIOUS
  <2>3. step[<<k, g[k - 1]>>] \in X
    BY <2>2
  <2>4. h \in [0..k -> X]
    BY <2>3
  <2>5. h[0] = x0
    BY <2>1
  <2>6. ASSUME NEW i \in 1..k PROVE h[i] = step[<<i, h[i - 1]>>]
    <3>1. h[i - 1] = g[i - 1]
      OBVIOUS
    <3>2. h[i] = step[<<i, g[i - 1]>>]
      <4>1. CASE i = k
        BY <4>1
      <4>2. CASE i # k
        <5>1. i \in 1..(k - 1) /\ h[i] = g[i]
          BY <4>2
        <5>2. QED
          BY <2>1, <5>1
      <4>3. QED
        BY <4>1, <4>2
    <3> HIDE DEF h
    <3>3. QED
      BY <3>1, <3>2
  <2> HIDE DEF h
  <2>7. Good(k)
    BY <2>4, <2>5, <2>6
  <2> HIDE DEF Good
  <2>8. QED
    BY <2>7
<1> HIDE DEF T
<1>3. n \in T
  BY <1>1, <1>2, UpTo
<1>4. QED
  BY <1>3 DEF T

-----------------------------------------------------------------------------
(***************************************************************************)
(* A flattened list holds what its lists hold, and what is in one of them  *)
(* once only is in it once.                                                *)
(***************************************************************************)
\* FlattenSeq is the function that appends one list after the other.
LEMMA FlatIsRecursive ==
  ASSUME NEW S, NEW ss \in Seq(Seq(S)), ss # <<>>
  PROVE  \E f : /\ f = [i \in 1..Len(ss) |-> IF i = 1 THEN ss[i] ELSE f[i - 1] \o ss[i]]
                /\ FlattenSeq(ss) = f[Len(ss)]
<1> DEFINE n == Len(ss)
<1>1. n \in Nat /\ n >= 1 /\ \A i \in 1..n : ss[i] \in Seq(S)
  OBVIOUS
<1> HIDE DEF n
<1> DEFINE step == [p \in (1..n) \X Seq(S) |-> p[2] \o ss[p[1]]]
<1>2. step \in [(1..n) \X Seq(S) -> Seq(S)]
  <2>1. ASSUME NEW p \in (1..n) \X Seq(S) PROVE p[2] \o ss[p[1]] \in Seq(S)
    <3>1. p[2] \in Seq(S) /\ ss[p[1]] \in Seq(S)
      BY <1>1
    <3>2. QED
      BY <3>1
  <2>2. QED
    BY <2>1
<1>3. <<>> \in Seq(S)
  OBVIOUS
<1>4. PICK g \in Courses(n, Seq(S), <<>>, step) : TRUE
  <2> HIDE DEF step
  <2>1. QED
    BY <1>1, <1>2, <1>3, Iterated
<1>40. g \in [0..n -> Seq(S)] /\ g[0] = <<>>
  <2> HIDE DEF step
  <2>1. QED
    BY <1>4 DEF Courses
<1>41. \A i \in 1..n : g[i] = step[<<i, g[i - 1]>>]
  <2> HIDE DEF step
  <2>1. QED
    BY <1>4 DEF Courses
<1>5. \A i \in 1..n : g[i] = g[i - 1] \o ss[i]
  <2> SUFFICES ASSUME NEW i \in 1..n PROVE g[i] = g[i - 1] \o ss[i]
    OBVIOUS
  <2>1. g[i - 1] \in Seq(S)
    <3>1. i - 1 \in 0..n
      BY <1>1
    <3>2. QED
      BY <1>40, <1>41, <3>1
  <2>2. <<i, g[i - 1]>> \in (1..n) \X Seq(S)
    BY <2>1
  <2>3. QED
    BY <1>40, <1>41, <2>2
<1>6. <<>> \o ss[1] = ss[1]
  BY <1>1
<1> DEFINE f == [i \in 1..n |-> g[i]]
<1>7. f = [i \in 1..n |-> IF i = 1 THEN ss[i] ELSE f[i - 1] \o ss[i]]
  <2>1. ASSUME NEW i \in 1..n PROVE g[i] = IF i = 1 THEN ss[i] ELSE f[i - 1] \o ss[i]
    <3>1. CASE i = 1
      <4>1. g[1] = g[0] \o ss[1]
        <5>1. 1 \in 1..n /\ 1 - 1 = 0
          BY <1>1
        <5>2. g[1] = g[1 - 1] \o ss[1]
          BY <1>5, <5>1
        <5>3. QED
          BY <5>1, <5>2
      <4>2. QED
        BY <1>40, <1>41, <1>6, <3>1, <4>1
    <3>2. CASE i # 1
      <4>1. i - 1 \in 1..n
        BY <1>1, <3>2
      <4>2. f[i - 1] = g[i - 1]
        BY <4>1
      <4>3. QED
        BY <1>5, <3>2, <4>2
    <3>3. QED
      BY <3>1, <3>2
  <2>2. QED
    BY <2>1
<1> HIDE DEF f
<1> DEFINE F == CHOOSE h : h = [i \in 1..Len(ss) |-> IF i = 1 THEN ss[i] ELSE h[i - 1] \o ss[i]]
<1>8. F = [i \in 1..Len(ss) |-> IF i = 1 THEN ss[i] ELSE F[i - 1] \o ss[i]]
  BY <1>7 DEF n
<1>9. FlattenSeq(ss) = F[Len(ss)]
  <2>1. Len(ss) # 0
    BY <1>1 DEF n
  <2>2. QED
    BY <2>1 DEF FlattenSeq
<1> HIDE DEF F
<1>10. QED
  BY <1>8, <1>9

\* What a flattened list holds.
LEMMA FlatFacts ==
  ASSUME NEW S, NEW ss \in Seq(Seq(S))
  PROVE  /\ FlattenSeq(ss) \in Seq(S)
         /\ ToSet(FlattenSeq(ss)) = UNION {ToSet(ss[i]) : i \in DOMAIN ss}
         /\ (/\ \A i \in DOMAIN ss : IsInjective(ss[i])
             /\ \A i, j \in DOMAIN ss : i # j => ToSet(ss[i]) \cap ToSet(ss[j]) = {})
              => IsInjective(FlattenSeq(ss))
<1>1. CASE ss = <<>>
  <2>1. FlattenSeq(ss) = ss /\ DOMAIN ss = {}
    BY <1>1 DEF FlattenSeq
  <2>2. QED
    BY <2>1, <1>1 DEF ToSet, IsInjective
<1>2. CASE ss # <<>>
  <2> DEFINE n == Len(ss)
             Once == /\ \A i \in DOMAIN ss : IsInjective(ss[i])
                     /\ \A i, j \in DOMAIN ss : i # j => ToSet(ss[i]) \cap ToSet(ss[j]) = {}
  <2>1. n \in Nat /\ n >= 1 /\ DOMAIN ss = 1..n /\ \A i \in 1..n : ss[i] \in Seq(S)
    BY <1>2
  <2>2. PICK f : f = [i \in 1..n |-> IF i = 1 THEN ss[i] ELSE f[i - 1] \o ss[i]]
                 /\ FlattenSeq(ss) = f[n]
    BY <1>2, FlatIsRecursive
  <2> HIDE DEF n
  <2> DEFINE All(k) == UNION {ToSet(ss[i]) : i \in 1..k}
             Good(k) == /\ f[k] \in Seq(S) /\ ToSet(f[k]) = All(k)
                        /\ Once => IsInjective(f[k])
             T == {k \in 0..n : k = 0 \/ Good(k)}
  <2>3. 0 \in T
    BY <2>1
  <2>4. ASSUME NEW k \in 1..n, k - 1 \in T PROVE k \in T
    <3>1. CASE k = 1
      <4>1. f[k] = ss[1] /\ ss[1] \in Seq(S)
        BY <2>1, <2>2, <3>1
      <4>2. All(k) = ToSet(ss[1])
        <5>1. 1..k = {1}
          BY <3>1
        <5>2. QED
          BY <5>1
      <4>3. Once => IsInjective(ss[1])
        BY <2>1
      <4> HIDE DEF All, Once
      <4>4. QED
        BY <2>1, <4>1, <4>2, <4>3
    <3>2. CASE k # 1
      <4>1. f[k] = f[k - 1] \o ss[k]
        BY <2>2, <3>2
      <4>2. k - 1 \in 1..n /\ Good(k - 1)
        BY <2>4, <3>2
      <4>3. All(k) = All(k - 1) \cup ToSet(ss[k])
        <5>1. 1..k = (1..(k - 1)) \cup {k}
          BY <2>1
        <5>2. QED
          BY <5>1
      <4>4. Once => IsInjective(ss[k]) /\ All(k - 1) \cap ToSet(ss[k]) = {}
        <5> SUFFICES ASSUME Once PROVE IsInjective(ss[k]) /\ All(k - 1) \cap ToSet(ss[k]) = {}
          OBVIOUS
        <5>1. \A i \in 1..(k - 1) : i \in DOMAIN ss /\ i # k
          BY <2>1
        <5>2. k \in DOMAIN ss
          BY <2>1
        <5>3. \A i \in 1..(k - 1) : ToSet(ss[i]) \cap ToSet(ss[k]) = {}
          BY <5>1, <5>2
        <5>4. QED
          BY <5>2, <5>3
      <4> HIDE DEF All, Once
      <4>5. f[k - 1] \in Seq(S) /\ ss[k] \in Seq(S)
        BY <2>1, <4>2
      <4>6. f[k - 1] \o ss[k] \in Seq(S)
            /\ ToSet(f[k - 1] \o ss[k]) = ToSet(f[k - 1]) \cup ToSet(ss[k])
        BY <4>5, ConcatSet
      <4>7. Once => IsInjective(f[k - 1] \o ss[k])
        <5>1. ASSUME Once PROVE IsInjective(f[k - 1] \o ss[k])
          <6>1. IsInjective(f[k - 1]) /\ IsInjective(ss[k]) /\ ToSet(f[k - 1]) \cap ToSet(ss[k]) = {}
            BY <4>2, <4>4, <5>1
          <6>2. QED
            BY <4>5, <6>1, ConcatOnce
        <5>2. QED
          BY <5>1
      <4>8. ToSet(f[k]) = All(k)
        BY <4>1, <4>2, <4>3, <4>6
      <4>9. f[k] \in Seq(S) /\ (Once => IsInjective(f[k]))
        BY <4>1, <4>6, <4>7
      <4>10. k \in 0..n
        BY <2>1
      <4>11. QED
        BY <4>8, <4>9, <4>10
    <3>3. QED
      BY <3>1, <3>2
  <2>5. n \in T
    <3> HIDE DEF T
    <3>1. \A k \in 1..n : k - 1 \in T => k \in T
      BY <2>4
    <3>2. \A i \in 0..n : i \in T
      BY <2>1, <2>3, <3>1, UpTo
    <3>3. QED
      BY <2>1, <3>2
  <2>6. Good(n)
    BY <2>1, <2>5
  <2>7. QED
    BY <2>1, <2>2, <2>6
<1>3. QED
  BY <1>1, <1>2

-----------------------------------------------------------------------------
(***************************************************************************)
(* A finite set sorted by an order has each element once.                  *)
(***************************************************************************)
\* The place of an element is a number up to the number of them.
LEMMA PlaceIsBounded ==
  ASSUME NEW S, IsFiniteSet(S), NEW R \in SUBSET (S \X S), \A x \in S : <<x, x>> \notin R
  PROVE  \A x \in S : Cardinality({y \in S : <<y, x>> \in R}) + 1 \in 1..Cardinality(S)
<1> SUFFICES ASSUME NEW x \in S
             PROVE  Cardinality({y \in S : <<y, x>> \in R}) + 1 \in 1..Cardinality(S)
  OBVIOUS
<1> DEFINE U == {y \in S : <<y, x>> \in R}
<1>1. U \in SUBSET S /\ x \notin U
  OBVIOUS
<1> HIDE DEF U
<1>2. /\ IsFiniteSet(U) /\ Cardinality(U) <= Cardinality(S) /\ Cardinality(U) # Cardinality(S)
      /\ Cardinality(U) \in Nat /\ Cardinality(S) \in Nat
  BY <1>1, FS_Subset, FS_CardinalityType
<1>3. Cardinality(U) + 1 \in 1..Cardinality(S)
  BY <1>2
<1>4. QED
  BY <1>3 DEF U

\* What is before another has a lower place.
LEMMA PlacesDiffer ==
  ASSUME NEW S, IsFiniteSet(S), NEW R \in SUBSET (S \X S),
         \A x \in S : <<x, x>> \notin R,
         \A x, y, z \in S : <<x, y>> \in R /\ <<y, z>> \in R => <<x, z>> \in R
  PROVE  \A x, y \in S : <<x, y>> \in R =>
           Cardinality({z \in S : <<z, x>> \in R}) < Cardinality({z \in S : <<z, y>> \in R})
<1> SUFFICES ASSUME NEW x \in S, NEW y \in S, <<x, y>> \in R
             PROVE  Cardinality({z \in S : <<z, x>> \in R}) < Cardinality({z \in S : <<z, y>> \in R})
  OBVIOUS
<1> DEFINE U == {z \in S : <<z, x>> \in R}
           V == {z \in S : <<z, y>> \in R}
<1>1. U \in SUBSET V /\ V \in SUBSET S /\ x \in V /\ x \notin U
  OBVIOUS
<1> HIDE DEF U, V
<1>2. IsFiniteSet(V)
  BY <1>1, FS_Subset
<1>3. /\ IsFiniteSet(U) /\ Cardinality(U) <= Cardinality(V) /\ Cardinality(U) # Cardinality(V)
      /\ Cardinality(U) \in Nat /\ Cardinality(V) \in Nat
  BY <1>1, <1>2, FS_Subset, FS_CardinalityType
<1>4. Cardinality(U) < Cardinality(V)
  BY <1>3
<1>5. QED
  BY <1>4 DEF U, V
=============================================================================
