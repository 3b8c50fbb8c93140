----------------------------- MODULE CopyOutProofs -----------------------------
(***************************************************************************)
(* What holds of every archive copy-out writes: an entry has the bytes its *)
(* header announces, no name of the list is lost or repeated on its way    *)
(* through the deferments, the last link of a file is recognised when it   *)
(* comes, and the contents of a file are stored once, after its links.     *)
(***************************************************************************)
EXTENDS CopyOut, SequenceTheorems, FiniteSetTheorems, WellFoundedInduction, TLAPS

(* Counting.  Between(s, a, b, T) is how many of the elements of s from     *)
(* position a to position b belong to T.                                    *)
Positions(s, a, b, T) == {k \in a .. b : s[k] \in T}
Between(s, a, b, T) == Cardinality(Positions(s, a, b, T))
Count(s, T) == Between(s, 1, Len(s), T)
One(x, T) == IF x \in T THEN 1 ELSE 0

-------------------------------------------------------------------------------
(* Induction on the natural numbers, as the existence of a least one.      *)
LEMMA LeastNatural ==
  ASSUME NEW T, T \subseteq Nat, T # {}
  PROVE  \E m \in T : \A k \in T : m <= k
<1> DEFINE R == OpToRel(<, Nat)
<1>1. IsWellFoundedOn(R, Nat)
  BY NatLessThanWellFounded
<1>2. \A k, m \in Nat : <<k, m>> \in R <=> k < m
  BY DEF OpToRel
<1> HIDE DEF R
<1>3. PICK m \in T : \A k \in T : <<k, m>> \notin R
  BY <1>1, WFMin
<1>4. SUFFICES ASSUME NEW k \in T PROVE m <= k
  BY <1>3
<1>5. ~(k < m)
  BY <1>2, <1>3
<1>6. k \in Nat /\ m \in Nat
  OBVIOUS
<1>7. QED
  BY <1>5, <1>6

LEMMA BetweenType ==
  ASSUME NEW s, NEW a \in Int, NEW b \in Int, NEW T
  PROVE  IsFiniteSet(Positions(s, a, b, T)) /\ Between(s, a, b, T) \in Nat
<1>1. IsFiniteSet(a .. b) /\ Positions(s, a, b, T) \in SUBSET (a .. b)
  BY FS_Interval DEF Positions
<1>2. QED
  BY <1>1, FS_Subset, FS_CardinalityType DEF Between

LEMMA BetweenNone ==
  ASSUME NEW s, NEW a \in Int, NEW b \in Int, NEW T, b < a
  PROVE  Between(s, a, b, T) = 0
<1>1. Positions(s, a, b, T) = {}
  BY DEF Positions
<1>2. QED
  BY <1>1, FS_EmptySet DEF Between

LEMMA BetweenLast ==
  ASSUME NEW s, NEW a \in Int, NEW b \in Int, NEW T, a <= b
  PROVE  Between(s, a, b, T) = Between(s, a, b - 1, T) + One(s[b], T)
<1>1. IsFiniteSet(Positions(s, a, b - 1, T)) /\ Between(s, a, b - 1, T) \in Nat
  BY BetweenType
<1>2. b \notin Positions(s, a, b - 1, T)
  BY DEF Positions
<1>3. CASE s[b] \in T
  <2>1. Positions(s, a, b, T) = Positions(s, a, b - 1, T) \cup {b}
    BY <1>3 DEF Positions
  <2>2. QED
    BY <1>1, <1>2, <1>3, <2>1, FS_AddElement DEF Between, One
<1>4. CASE s[b] \notin T
  <2>1. Positions(s, a, b, T) = Positions(s, a, b - 1, T)
    BY <1>4 DEF Positions
  <2>2. QED
    BY <1>1, <1>4, <2>1 DEF Between, One
<1>5. QED
  BY <1>3, <1>4

LEMMA BetweenFirst ==
  ASSUME NEW s, NEW a \in Int, NEW b \in Int, NEW T, a <= b
  PROVE  Between(s, a, b, T) = One(s[a], T) + Between(s, a + 1, b, T)
<1>1. IsFiniteSet(Positions(s, a + 1, b, T)) /\ Between(s, a + 1, b, T) \in Nat
  BY BetweenType
<1>2. a \notin Positions(s, a + 1, b, T)
  BY DEF Positions
<1>3. CASE s[a] \in T
  <2>1. Positions(s, a, b, T) = Positions(s, a + 1, b, T) \cup {a}
    BY <1>3 DEF Positions
  <2>2. QED
    BY <1>1, <1>2, <1>3, <2>1, FS_AddElement DEF Between, One
<1>4. CASE s[a] \notin T
  <2>1. Positions(s, a, b, T) = Positions(s, a + 1, b, T)
    BY <1>4 DEF Positions
  <2>2. QED
    BY <1>1, <1>4, <2>1 DEF Between, One
<1>5. QED
  BY <1>3, <1>4

LEMMA BetweenSame ==
  ASSUME NEW s, NEW t, NEW a \in Int, NEW b \in Int, NEW T, NEW U,
         \A k \in a .. b : s[k] \in T <=> t[k] \in U
  PROVE  Between(s, a, b, T) = Between(t, a, b, U)
<1>1. Positions(s, a, b, T) = Positions(t, a, b, U)
  BY DEF Positions
<1>2. QED
  BY <1>1 DEF Between

LEMMA BetweenWithin ==
  ASSUME NEW s, NEW a \in Int, NEW b \in Int, NEW c \in Int, NEW d \in Int, NEW T,
         a <= c, d <= b
  PROVE  Between(s, c, d, T) <= Between(s, a, b, T)
<1>1. Positions(s, c, d, T) \in SUBSET Positions(s, a, b, T)
  BY DEF Positions
<1>2. QED
  BY <1>1, BetweenType, FS_Subset DEF Between

(* The elements of two sequences, one after the other.                     *)
LEMMA CountConcat ==
  ASSUME NEW N, NEW s \in Seq(N), NEW t \in Seq(N), NEW T
  PROVE  Count(s \o t, T) = Count(s, T) + Count(t, T)
<1>0. PICK u : u = s \o t
  OBVIOUS
<1> DEFINE Agrees(m) == Between(u, 1, Len(s) + m, T) = Count(s, T) + Between(t, 1, m, T)
           Wrong == {m \in 0 .. Len(t) : ~Agrees(m)}
<1>1. /\ Len(s) \in Nat /\ Len(t) \in Nat /\ Len(u) = Len(s) + Len(t)
      /\ \A i \in 1 .. Len(s) : u[i] = s[i]
      /\ \A i \in 1 .. Len(t) : u[Len(s) + i] = t[i]
  BY <1>0
<1>2. Agrees(0)
  <2>1. Between(u, 1, Len(s), T) = Count(s, T)
    <3>1. \A i \in 1 .. Len(s) : u[i] \in T <=> s[i] \in T
      BY <1>1
    <3>2. 1 \in Int /\ Len(s) \in Int
      BY <1>1
    <3>3. QED
      BY <3>1, <3>2, BetweenSame, SMT DEF Count
  <2>2. Between(t, 1, 0, T) = 0 /\ Count(s, T) \in Nat
    BY <1>1, BetweenNone, BetweenType DEF Count
  <2>3. QED
    BY <1>1, <2>1, <2>2
<1>3. ASSUME NEW m \in 1 .. Len(t), Agrees(m - 1) PROVE Agrees(m)
  <2>1. Between(u, 1, Len(s) + m, T)
          = Between(u, 1, Len(s) + m - 1, T) + One(u[Len(s) + m], T)
    <3>1. 1 \in Int /\ Len(s) + m \in Int /\ 1 <= Len(s) + m
      BY <1>1
    <3>2. QED
      BY <3>1, BetweenLast, SMT
  <2>2. Between(t, 1, m, T) = Between(t, 1, m - 1, T) + One(t[m], T)
    BY <1>1, BetweenLast
  <2>3. /\ Len(s) + (m - 1) = Len(s) + m - 1 /\ u[Len(s) + m] = t[m]
        /\ One(t[m], T) \in Nat
    BY <1>1 DEF One
  <2>4. Between(t, 1, m - 1, T) \in Nat /\ Count(s, T) \in Nat
    BY <1>1, BetweenType DEF Count
  <2>5. QED
    BY <1>3, <2>1, <2>2, <2>3, <2>4
<1>4. Wrong = {}
  <2>1. SUFFICES ASSUME Wrong # {} PROVE FALSE
    OBVIOUS
  <2>2. PICK m \in Wrong : \A k \in Wrong : m <= k
    <3>1. Wrong \subseteq Nat
      BY <1>1
    <3>2. QED
      BY <2>1, <3>1, LeastNatural, Zenon
  <2>3. m \in 1 .. Len(t)
    BY <1>1, <1>2, <2>2
  <2>4. m - 1 \in 0 .. Len(t) /\ m - 1 \notin Wrong
    BY <1>1, <2>2, <2>3
  <2>5. Agrees(m - 1)
    BY <2>4
  <2>6. QED
    BY <1>3, <2>2, <2>3, <2>5
<1>5. Agrees(Len(t))
  BY <1>1, <1>4
<1>6. QED
  BY <1>0, <1>1, <1>5 DEF Count

LEMMA CountEmpty ==
  ASSUME NEW T
  PROVE  Count(<< >>, T) = 0
BY BetweenNone DEF Count

LEMMA CountAppend ==
  ASSUME NEW N, NEW s \in Seq(N), NEW x \in N, NEW T
  PROVE  Count(Append(s, x), T) = Count(s, T) + One(x, T)
<1>0. PICK u : u = Append(s, x)
  OBVIOUS
<1>1. /\ Len(s) \in Nat /\ Len(u) = Len(s) + 1
      /\ u[Len(s) + 1] = x /\ \A i \in 1 .. Len(s) : u[i] = s[i]
  BY <1>0
<1>2. Between(u, 1, Len(s) + 1, T)
        = Between(u, 1, Len(s), T) + One(x, T)
  <2>1. PICK m : m = Len(s) + 1
    OBVIOUS
  <2>2. 1 \in Int /\ m \in Int /\ 1 <= m /\ m - 1 = Len(s) /\ u[m] = x
    BY <1>1, <2>1
  <2>3. Between(u, 1, m, T) = Between(u, 1, m - 1, T) + One(u[m], T)
    BY <2>2, BetweenLast, SMT
  <2>4. QED
    BY <2>1, <2>2, <2>3, Zenon
<1>3. Between(u, 1, Len(s), T) = Between(s, 1, Len(s), T)
  <2>1. \A i \in 1 .. Len(s) : u[i] \in T <=> s[i] \in T
    BY <1>1
  <2>2. 1 \in Int /\ Len(s) \in Int
    BY <1>1
  <2>3. QED
    BY <2>1, <2>2, BetweenSame, SMT
<1>4. QED
  BY <1>0, <1>1, <1>2, <1>3 DEF Count

LEMMA CountOne ==
  ASSUME NEW x, NEW T
  PROVE  Count(<< x >>, T) = One(x, T)
<1>1. PICK s, N : s = << >> /\ N = {x}
  OBVIOUS
<1>2. s \in Seq(N) /\ x \in N
  BY <1>1
<1>3. << x >> = Append(s, x)
  BY <1>1
<1>4. Count(Append(s, x), T) = Count(s, T) + One(x, T)
  BY <1>2, CountAppend, Zenon
<1>5. Count(s, T) = 0
  BY <1>1, CountEmpty, Zenon
<1>6. One(x, T) \in Nat
  BY DEF One
<1>7. Count(Append(s, x), T) = One(x, T)
  BY <1>4, <1>5, <1>6
<1>8. QED
  BY <1>3, <1>7, Zenon

-------------------------------------------------------------------------------
(* The function in the definition of Among exists, and its k-th value is   *)
(* what the first k elements contribute.                                   *)
Walked(w, s, some, k) ==
  IF k = 0 THEN << >>
  ELSE IF s[k] \in some THEN Append(w[k - 1], s[k])
  ELSE w[k - 1]
Walk(w, s, some, m) == w = [k \in 0 .. m |-> Walked(w, s, some, k)]

LEMMA WalkExists ==
  ASSUME NEW N, NEW s \in Seq(N), NEW some
  PROVE  \E w : Walk(w, s, some, Len(s))
<1> DEFINE Wrong == {m \in 0 .. Len(s) : ~\E w : Walk(w, s, some, m)}
<1>1. Len(s) \in Nat
  OBVIOUS
<1>2. \E w : Walk(w, s, some, 0)
  <2>1. PICK w : w = [k \in 0 .. 0 |-> << >>]
    OBVIOUS
  <2>2. [k \in 0 .. 0 |-> << >>] = [k \in 0 .. 0 |-> Walked(w, s, some, k)]
    BY DEF Walked
  <2>3. QED
    BY <2>1, <2>2 DEF Walk
<1>3. ASSUME NEW m \in 1 .. Len(s), NEW v, Walk(v, s, some, m - 1)
      PROVE  \E w : Walk(w, s, some, m)
  <2>1. PICK w : w = [k \in 0 .. m |-> IF k = m THEN Walked(v, s, some, m) ELSE v[k]]
    OBVIOUS
  <2>2. ASSUME NEW k \in 0 .. m
        PROVE  w[k] = Walked(w, s, some, k)
    <3>1. CASE k = 0
      <4>1. w[k] = v[k]
        BY <2>1, <3>1
      <4>2. v = [j \in 0 .. m - 1 |-> Walked(v, s, some, j)] /\ 0 \in 0 .. m - 1
        BY <1>3 DEF Walk
      <4>3. v[0] = Walked(v, s, some, 0)
        BY <4>2
      <4>4. QED
        BY <3>1, <4>1, <4>3 DEF Walked
    <3>2. CASE k \in 1 .. m - 1
      <4>1. w[k] = v[k] /\ w[k - 1] = v[k - 1]
        BY <2>1, <3>2
      <4>2. v = [j \in 0 .. m - 1 |-> Walked(v, s, some, j)] /\ k \in 0 .. m - 1
        BY <1>3, <3>2 DEF Walk
      <4>3. v[k] = Walked(v, s, some, k)
        BY <4>2
      <4>4. QED
        BY <4>1, <4>3 DEF Walked
    <3>3. CASE k = m
      <4>1. w[k] = Walked(v, s, some, m) /\ w[k - 1] = v[k - 1]
        BY <2>1, <3>3
      <4>2. QED
        BY <3>3, <4>1 DEF Walked
    <3>4. QED
      BY <3>1, <3>2, <3>3
  <2>3. w = [k \in 0 .. m |-> w[k]]
    BY <2>1
  <2>4. [k \in 0 .. m |-> w[k]] = [k \in 0 .. m |-> Walked(w, s, some, k)]
    BY <2>2
  <2>5. QED
    BY <2>3, <2>4 DEF Walk
<1>4. Wrong = {}
  <2>1. SUFFICES ASSUME Wrong # {} PROVE FALSE
    OBVIOUS
  <2>2. PICK m \in Wrong : \A k \in Wrong : m <= k
    <3>1. Wrong \subseteq Nat
      BY <1>1
    <3>2. QED
      BY <2>1, <3>1, LeastNatural, Zenon
  <2>3. m \in 0 .. Len(s) /\ ~\E w : Walk(w, s, some, m)
    BY <2>2
  <2>4. m \in 1 .. Len(s)
    BY <1>1, <1>2, <2>3
  <2>5. m - 1 \in 0 .. Len(s) /\ m - 1 \notin Wrong
    BY <1>1, <2>2, <2>4
  <2>6. PICK v : Walk(v, s, some, m - 1)
    BY <2>5
  <2>7. QED
    BY <1>3, <2>3, <2>4, <2>6
<1>5. QED
  BY <1>1, <1>4

LEMMA AmongIsWalk ==
  ASSUME NEW N, NEW s \in Seq(N), NEW some
  PROVE  \E w : Walk(w, s, some, Len(s)) /\ Among(s, some) = w[Len(s)]
<1> DEFINE Step(w) == [k \in 0 .. Len(s) |-> IF k = 0 THEN << >>
                                            ELSE IF s[k] \in some THEN Append(w[k - 1], s[k])
                                            ELSE w[k - 1]]
           W == CHOOSE w : w = Step(w)
<1>1. \A w : Walk(w, s, some, Len(s)) <=> w = Step(w)
  BY DEF Walk, Walked
<1>2. PICK v : v = Step(v)
  BY <1>1, WalkExists
<1>3. W = Step(W)
  BY <1>2
<1>4. Among(s, some) = W[Len(s)]
  BY DEF Among
<1>5. QED
  BY <1>1, <1>3, <1>4

(* What Among returns, and how much of it belongs to T.                    *)
LEMMA AmongCounts ==
  ASSUME NEW N, NEW s \in Seq(N), NEW some, NEW T
  PROVE  /\ Among(s, some) \in Seq(N)
         /\ Count(Among(s, some), T) = Count(s, some \cap T)
<1>1. PICK w : Walk(w, s, some, Len(s)) /\ Among(s, some) = w[Len(s)]
  BY AmongIsWalk
<1> DEFINE Right(m) == /\ w[m] \in Seq(N)
                       /\ Count(w[m], T) = Between(s, 1, m, some \cap T)
           Wrong == {m \in 0 .. Len(s) : ~Right(m)}
<1>2. Len(s) \in Nat
  OBVIOUS
<1>3. \A k \in 0 .. Len(s) : w[k] = Walked(w, s, some, k)
  BY <1>1 DEF Walk
<1>4. Right(0)
  <2>1. w[0] = << >>
    BY <1>2, <1>3 DEF Walked
  <2>2. Count(<< >>, T) = 0
    BY CountEmpty
  <2>3. Between(s, 1, 0, some \cap T) = 0
    BY BetweenNone
  <2>4. QED
    BY <2>1, <2>2, <2>3
<1>5. ASSUME NEW m \in 1 .. Len(s), Right(m - 1) PROVE Right(m)
  <2>1. PICK v : v = w[m - 1]
    OBVIOUS
  <2>2. v \in Seq(N) /\ Count(v, T) = Between(s, 1, m - 1, some \cap T)
    BY <1>5, <2>1
  <2>3. s[m] \in N /\ m \in Int /\ 1 <= m /\ 1 \in Int
    BY <1>2
  <2>4. w[m] = IF s[m] \in some THEN Append(v, s[m]) ELSE v
    BY <1>2, <1>3, <2>1 DEF Walked
  <2>5. Between(s, 1, m, some \cap T)
          = Between(s, 1, m - 1, some \cap T) + One(s[m], some \cap T)
    BY <2>3, BetweenLast
  <2>6. Between(s, 1, m - 1, some \cap T) \in Nat
    BY <2>3, BetweenType
  <2>7. CASE s[m] \in some
    <3>1. One(s[m], some \cap T) = One(s[m], T)
      BY <2>7 DEF One
    <3>2. w[m] = Append(v, s[m])
      BY <2>4, <2>7
    <3>3. Count(w[m], T) = Count(v, T) + One(s[m], T)
      BY <2>2, <2>3, <3>2, CountAppend
    <3>4. w[m] \in Seq(N)
      BY <2>2, <2>3, <3>2
    <3>5. QED
      BY <2>2, <2>5, <3>1, <3>3, <3>4
  <2>8. CASE s[m] \notin some
    <3>1. One(s[m], some \cap T) = 0
      BY <2>8 DEF One
    <3>2. w[m] = v
      BY <2>4, <2>8
    <3>3. QED
      BY <2>2, <2>5, <2>6, <3>1, <3>2
  <2>9. QED
    BY <2>7, <2>8
<1>6. Wrong = {}
  <2>1. SUFFICES ASSUME Wrong # {} PROVE FALSE
    OBVIOUS
  <2>2. PICK m \in Wrong : \A k \in Wrong : m <= k
    <3>1. Wrong \subseteq Nat
      BY <1>2
    <3>2. QED
      BY <2>1, <3>1, LeastNatural, Zenon
  <2>3. m \in 1 .. Len(s)
    BY <1>2, <1>4, <2>2
  <2>4. m - 1 \in 0 .. Len(s) /\ m - 1 \notin Wrong
    <3>1. m - 1 \in 0 .. Len(s) /\ ~(m <= m - 1)
      BY <1>2, <2>3
    <3>2. QED
      BY <2>2, <3>1, Zenon
  <2>5. Right(m - 1)
    BY <2>4
  <2>6. QED
    BY <1>5, <2>2, <2>3, <2>5
<1>7. Right(Len(s))
  <2>1. Len(s) \in 0 .. Len(s)
    BY <1>2
  <2>2. QED
    BY <1>6, <2>1
<1>8. QED
  BY <1>1, <1>7 DEF Count

-------------------------------------------------------------------------------
(* Every variable keeps its type.                                          *)
Entries == [name : Names, size : Nat, body : Nat]
Named(n) == {e \in Entries : e.name = n}
DataOf(i) == {e \in Entries : inode[e.name] = i /\ e.size > 0}

LEMMA EntryType ==
  ASSUME NEW n \in Names, NEW s \in Nat
  PROVE  /\ Entry(n, s) \in Entries /\ Entry(n, s).name = n
         /\ Entry(n, s).size = s /\ Entry(n, s).body = 0
BY DEF Entry, Entries

(* The headers of deferred links have no contents.                         *)
LEMMA HeadersFacts ==
  ASSUME NEW s \in Seq(Names)
  PROVE  /\ HeadersOf(s) \in Seq(Entries) /\ Len(HeadersOf(s)) = Len(s)
         /\ \A k \in 1 .. Len(s) : HeadersOf(s)[k].size = 0 /\ HeadersOf(s)[k].body = 0
         /\ \A n : Count(HeadersOf(s), Named(n)) = Count(s, {n})
         /\ \A i : Count(HeadersOf(s), DataOf(i)) = 0
<1>1. Len(s) \in Nat /\ \A k \in 1 .. Len(s) : s[k] \in Names
  OBVIOUS
<1>2. PICK h : h = HeadersOf(s)
  OBVIOUS
<1>3. h = [k \in 1 .. Len(s) |-> Entry(s[k], 0)]
  BY <1>2 DEF HeadersOf
<1>4. \A k \in 1 .. Len(s) : /\ h[k] \in Entries /\ h[k].name = s[k]
                             /\ h[k].size = 0 /\ h[k].body = 0
  BY <1>1, <1>3, EntryType
<1>5. h \in [1 .. Len(s) -> Entries]
  BY <1>3, <1>4
<1>6. h \in Seq(Entries) /\ Len(h) = Len(s)
  BY <1>1, <1>5
<1>7. ASSUME NEW n PROVE Count(h, Named(n)) = Count(s, {n})
  <2>1. \A k \in 1 .. Len(s) : h[k] \in Named(n) <=> s[k] \in {n}
    BY <1>4 DEF Named
  <2>2. Between(h, 1, Len(s), Named(n)) = Between(s, 1, Len(s), {n})
    BY <1>1, <2>1, BetweenSame
  <2>3. QED
    BY <1>6, <2>2 DEF Count
<1>8. ASSUME NEW i PROVE Count(h, DataOf(i)) = 0
  <2>1. \A k \in 1 .. Len(s) : h[k] \in DataOf(i) <=> h[k] \in {}
    BY <1>4 DEF DataOf
  <2>2. Positions(h, 1, Len(s), DataOf(i)) = {}
    BY <2>1 DEF Positions
  <2>3. QED
    BY <1>6, <2>2, FS_EmptySet DEF Count, Between
<1>9. QED
  BY <1>2, <1>4, <1>6, <1>7, <1>8

(* A size goes through the signed word unchanged when it is less than Half *)
LEMMA CastKeeps ==
  ASSUME NEW s \in Nat
  PROVE  /\ AsUsize(AsI32(s)) \in Nat
         /\ s < Half => AsUsize(AsI32(s)) = s
<1>1. 2 * Half \in Nat \ {0} /\ Word \in Nat \ {0} /\ Half \in Nat \ {0} /\ Word >= 2 * Half
  BY CastsAssumption
<1>2. s % (2 * Half) \in 0 .. 2 * Half - 1
  BY <1>1
<1>3. AsI32(s) \in Int
  BY <1>1, <1>2 DEF AsI32
<1>4. AsUsize(AsI32(s)) \in Nat
  BY <1>1, <1>3 DEF AsUsize
<1>5. ASSUME s < Half PROVE AsUsize(AsI32(s)) = s
  <2>1. s % (2 * Half) = s
    BY <1>1, <1>5
  <2>2. AsI32(s) = s
    BY <2>1, <1>5, <1>1 DEF AsI32
  <2>3. s % Word = s
    BY <1>1, <1>5
  <2>4. QED
    BY <2>2, <2>3 DEF AsUsize
<1>6. QED
  BY <1>4, <1>5

(* The names of a file, and those that copy-out takes for them: they are   *)
(* the same when the headers tell the file from the others.                *)
LinksOf(i) == {n \in Names : inode[n] = i}
Told(i) == deferring => Identified(i)

LEMMA ToldApart ==
  ASSUME TypeOK, NEW i \in Inodes, Identified(i), NEW j \in Inodes
  PROVE  (SameInode(i, j) <=> i = j) /\ (SameInode(j, i) <=> i = j)
<1>1. Number[i] \in Nat /\ Number[j] \in Nat
  BY CopyOutAssumption
<1>2. ~renumber /\ (ignoreDevno /\ i # j => Number[j] # Number[i])
  BY DEF Identified
<1>3. QED
  BY <1>2 DEF SameInode

LEMMA LinksTold ==
  ASSUME TypeOK, NEW i \in Inodes, Identified(i)
  PROVE  LinksTo(i) = LinksOf(i)
<1>1. \A n \in Names : inode[n] \in Inodes
  BY DEF TypeOK
<1>2. ASSUME NEW n \in Names PROVE SameInode(inode[n], i) <=> inode[n] = i
  BY <1>1, ToldApart
<1>3. QED
  BY <1>2 DEF LinksTo, LinksOf

(* The other names written with a name are not those of another file.      *)
LEMMA LinksOfOther ==
  ASSUME TypeOK, NEW i \in Inodes, Identified(i), NEW j \in Inodes, i # j
  PROVE  LinksTo(j) \cap LinksOf(i) = {}
<1>1. ~SameInode(i, j)
  BY ToldApart
<1>2. QED
  BY <1>1 DEF LinksTo, LinksOf

(* A link that is written now takes the deferred links of its file with    *)
(* it: they leave the deferments for the archive.                          *)
LEMMA GroupMoves ==
  ASSUME TypeOK, NEW n \in Names
  PROVE  /\ Preceding(n) \in Seq(Entries) /\ Kept(n) \in Seq(Names)
         /\ \A k \in 1 .. Len(Preceding(n)) : /\ Preceding(n)[k].size = 0
                                              /\ Preceding(n)[k].body = 0
         /\ \A m : Count(Preceding(n), Named(m)) + Count(Kept(n), {m})
                     = Count(deferments, {m})
         /\ \A i : Count(Preceding(n), DataOf(i)) = 0
         /\ \A i \in Inodes : Told(i) =>
              Count(Kept(n), LinksOf(i)) =
                IF IsLinked(n) /\ i = inode[n] THEN 0 ELSE Count(deferments, LinksOf(i))
<1>1. deferments \in Seq(Names) /\ Len(deferments) \in Nat
  BY DEF TypeOK
<1>2. inode[n] \in Inodes
  BY DEF TypeOK
<1>3. CASE IsLinked(n)
  <2>1. PICK o, r : o = OtherDefers(n) /\ r = Remaining(n)
    OBVIOUS
  <2>2. /\ o \in Seq(Names) /\ r \in Seq(Names)
        /\ \A T : Count(o, T) = Count(deferments, LinksTo(inode[n]) \cap T)
        /\ \A T : Count(r, T) = Count(deferments, (Names \ LinksTo(inode[n])) \cap T)
    <3>1. \A some, T : /\ Among(deferments, some) \in Seq(Names)
                       /\ Count(Among(deferments, some), T) = Count(deferments, some \cap T)
      <4>1. TAKE some, T
      <4>2. QED
        BY <1>1, AmongCounts, SMT
    <3>2. QED
      BY <2>1, <3>1, Zenon DEF OtherDefers, Remaining
  <2>3. Preceding(n) = HeadersOf(o) /\ Kept(n) = r
    BY <1>3, <2>1 DEF Preceding, Kept
  <2>4. ASSUME NEW m PROVE Count(o, {m}) + Count(r, {m}) = Count(deferments, {m})
    <3>1. Count(deferments, {m}) \in Nat
      BY <1>1, BetweenType DEF Count
    <3>2. CASE m \in LinksTo(inode[n])
      <4>1. /\ LinksTo(inode[n]) \cap {m} = {m}
            /\ (Names \ LinksTo(inode[n])) \cap {m} = {}
        BY <3>2
      <4>2. Count(deferments, {}) = 0
        BY <1>1, FS_EmptySet DEF Count, Between, Positions
      <4>3. QED
        BY <2>2, <3>1, <4>1, <4>2
    <3>3. CASE m \in Names \ LinksTo(inode[n])
      <4>1. /\ LinksTo(inode[n]) \cap {m} = {}
            /\ (Names \ LinksTo(inode[n])) \cap {m} = {m}
        BY <3>3
      <4>2. Count(deferments, {}) = 0
        BY <1>1, FS_EmptySet DEF Count, Between, Positions
      <4>3. QED
        BY <2>2, <3>1, <4>1, <4>2
    <3>4. CASE m \notin Names
      <4>1. /\ LinksTo(inode[n]) \cap {m} = {}
            /\ (Names \ LinksTo(inode[n])) \cap {m} = {}
        BY <3>4 DEF LinksTo
      <4>2. Count(deferments, {}) = 0
        BY <1>1, FS_EmptySet DEF Count, Between, Positions
      <4>3. Count(deferments, {m}) = Count(deferments, {})
        <5>1. \A k \in 1 .. Len(deferments) : deferments[k] \in {m} <=> deferments[k] \in {}
          BY <1>1, <3>4
        <5>2. QED
          BY <1>1, <5>1, BetweenSame DEF Count
      <4>4. QED
        BY <2>2, <4>1, <4>2, <4>3
    <3>5. QED
      BY <3>2, <3>3, <3>4
  <2>5. ASSUME NEW i \in Inodes, Told(i)
        PROVE  Count(r, LinksOf(i)) = IF i = inode[n] THEN 0 ELSE Count(deferments, LinksOf(i))
    <3>4. Identified(i)
      BY <1>3, <2>5 DEF Told, IsLinked
    <3>1. CASE i = inode[n]
      <4>1. (Names \ LinksTo(inode[n])) \cap LinksOf(i) = {}
        BY <3>1, <3>4, LinksTold
      <4>2. Count(deferments, {}) = 0
        BY <1>1, FS_EmptySet DEF Count, Between, Positions
      <4>3. QED
        BY <2>2, <3>1, <4>1, <4>2
    <3>2. CASE i # inode[n]
      <4>1. (Names \ LinksTo(inode[n])) \cap LinksOf(i) = LinksOf(i)
        BY <1>2, <3>2, <3>4, LinksOfOther DEF LinksOf
      <4>2. QED
        BY <2>2, <3>2, <4>1
    <3>3. QED
      BY <3>1, <3>2
  <2>6. PICK h : h = HeadersOf(o)
    OBVIOUS
  <2>7. /\ h \in Seq(Entries) /\ Len(h) = Len(o)
        /\ \A k \in 1 .. Len(o) : h[k].size = 0 /\ h[k].body = 0
        /\ \A m : Count(h, Named(m)) = Count(o, {m})
        /\ \A i : Count(h, DataOf(i)) = 0
    BY <2>2, <2>6, HeadersFacts
  <2>8. QED
    BY <1>3, <2>2, <2>3, <2>4, <2>5, <2>6, <2>7
<1>4. CASE ~IsLinked(n)
  <2>1. Preceding(n) = << >> /\ Kept(n) = deferments /\ << >> \in Seq(Entries)
    BY <1>4 DEF Preceding, Kept
  <2>2. \A m : Count(deferments, {m}) \in Nat
    BY <1>1, BetweenType DEF Count
  <2>3. \A T : Count(<< >>, T) = 0
    BY CountEmpty
  <2>4. /\ Preceding(n) \in Seq(Entries) /\ Kept(n) \in Seq(Names)
        /\ \A k \in 1 .. Len(Preceding(n)) : FALSE
    BY <1>1, <2>1
  <2>5. ASSUME NEW m
        PROVE  Count(Preceding(n), Named(m)) + Count(Kept(n), {m}) = Count(deferments, {m})
    <3>1. Count(Preceding(n), Named(m)) = 0 /\ Count(Kept(n), {m}) = Count(deferments, {m})
      BY <2>1, <2>3, Zenon
    <3>2. PICK p, q : p = Count(Preceding(n), Named(m)) /\ q = Count(Kept(n), {m})
      OBVIOUS
    <3>3. p = 0 /\ q = Count(deferments, {m}) /\ q \in Nat
      BY <2>2, <3>1, <3>2, Zenon
    <3>4. p + q = q
      BY <3>3
    <3>5. QED
      BY <3>2, <3>3, <3>4, Zenon
  <2>6. ASSUME NEW i
        PROVE  /\ Count(Preceding(n), DataOf(i)) = 0
               /\ Count(Kept(n), LinksOf(i)) = Count(deferments, LinksOf(i))
    BY <2>1, <2>3, Zenon
  <2>7. QED
    BY <1>4, <2>4, <2>5, <2>6
<1>5. QED
  BY <1>3, <1>4

LEMMA FileTypes ==
  ASSUME TypeOK, NEW n \in Names
  PROVE  /\ inode[n] \in Inodes /\ size[inode[n]] \in Nat
         /\ nlink[inode[n]] \in Nat \ {0}
<1>1. inode[n] \in Inodes
  BY DEF TypeOK
<1>2. size[inode[n]] \in 0 .. MaxSize /\ nlink[inode[n]] \in 1 .. MaxLinks
  BY <1>1 DEF TypeOK
<1>3. QED
  BY <1>1, <1>2, CopyOutAssumption

LEMMA InitType == Init => TypeOK
<1> SUFFICES ASSUME Init PROVE TypeOK
  OBVIOUS
<1>1. PICK k \in 0 .. MaxList : list \in [1 .. k -> Names \cup {Blank}]
  BY DEF Init
<1>2. list \in Seq(Names \cup {Blank})
  BY <1>1
<1>3. counted \in BOOLEAN /\ zero \in SUBSET Inodes
  <2>1. counted = FALSE /\ zero = {}
    BY DEF Init
  <2>2. QED
    BY <2>1, Zenon
<1>4. /\ deferments \in Seq(Names) /\ dropped \in Seq(Names)
      /\ archive \in Seq([name : Names, size : Nat, body : Nat])
  BY DEF Init
<1>5. at \in Nat \ {0} /\ final \in Nat \ {0} /\ left \in Nat
  BY DEF Init
<1>6. QED
  BY <1>2, <1>3, <1>4, <1>5, Zenon DEF Init, TypeOK

(* The entry in hand grows.                                                *)
LEMMA GrownType ==
  ASSUME TypeOK, NEW n \in Nat, Len(archive) > 0
  PROVE  /\ Grown(n) \in Seq(Entries) /\ Len(Grown(n)) = Len(archive)
         /\ \A k \in 1 .. Len(archive) :
              /\ Grown(n)[k].name = archive[k].name /\ Grown(n)[k].size = archive[k].size
              /\ Grown(n)[k].body = archive[k].body + (IF k = Len(archive) THEN n ELSE 0)
<1>1. /\ archive \in Seq(Entries) /\ Len(archive) \in Nat
      /\ \A k \in 1 .. Len(archive) : archive[k] \in Entries
  <2>1. archive \in Seq(Entries)
    BY DEF TypeOK, Entries
  <2>2. QED
    BY <2>1
<1>2. PICK last : last = Len(archive) /\ last \in 1 .. Len(archive)
  BY <1>1
<1>3. PICK e : e = [archive[last] EXCEPT !.body = @ + n]
  OBVIOUS
<1>4. /\ e \in Entries /\ e.name = archive[last].name /\ e.size = archive[last].size
      /\ e.body = archive[last].body + n
  BY <1>1, <1>2, <1>3 DEF Entries
<1>5. Grown(n) = [archive EXCEPT ![last] = e]
  BY <1>1, <1>2, <1>3 DEF Grown
<1>6. PICK g : g = [archive EXCEPT ![last] = e]
  OBVIOUS
<1>7. /\ g \in Seq(Entries) /\ Len(g) = Len(archive)
      /\ \A k \in 1 .. Len(archive) : g[k] = IF k = last THEN e ELSE archive[k]
  BY <1>1, <1>2, <1>4, <1>6, ExceptSeq
<1>8. \A k \in 1 .. Len(archive) : archive[k].body + 0 = archive[k].body
  BY <1>1 DEF Entries
<1>9. QED
  BY <1>2, <1>4, <1>5, <1>6, <1>7, <1>8

(* Where the program is.                                                   *)
Place ==
  /\ at \in 1 .. Len(list) + 1
  /\ final \in 1 .. Len(deferments) + 1
  /\ phase \in {"list", "copy"} => final = 1
  /\ phase = "copy" => at <= Len(list)
  /\ phase = "copyfinal" => final <= Len(deferments)
  /\ phase \in {"copy", "copyfinal"} => Len(archive) > 0

LEMMA NumbersType ==
  ASSUME TypeOK, [Next]_vars
  PROVE  counted' \in BOOLEAN /\ zero' \in SUBSET Inodes
<1>1. counted \in BOOLEAN /\ zero \in SUBSET Inodes /\ \A n \in Names : inode[n] \in Inodes
  BY DEF TypeOK
<1>2. UNCHANGED numbers \/ \E n \in Names : CountInode(n)
  BY DEF Next, ForName, EndOfNames, NoSuchFile, WriteNode, WriteLink, DeferLink, StartFile,
         CopyPiece, PadWithNuls, Copied, FinalLink, FinalFile, Trailer, vars
<1>3. ASSUME NEW n \in Names, CountInode(n) PROVE zero' \in SUBSET Inodes /\ counted' \in BOOLEAN
  <2>1. {} \in SUBSET Inodes /\ {inode[n]} \in SUBSET Inodes
    BY <1>1, Zenon
  <2>2. \/ counted' = TRUE /\ zero' \in {{}, {inode[n]}}
        \/ counted' = counted /\ zero' = zero
    BY <1>3 DEF CountInode, numbers
  <2>3. QED
    BY <1>1, <2>1, <2>2, Zenon
<1>4. CASE UNCHANGED numbers
  BY <1>1, <1>4 DEF numbers
<1>5. QED
  BY <1>2, <1>3, <1>4

LEMMA TypeStep ==
  ASSUME TypeOK, Place, [Next]_vars
  PROVE  TypeOK'
<1> USE NumbersType DEF files
<1>1. /\ deferments \in Seq(Names) /\ archive \in Seq(Entries) /\ dropped \in Seq(Names)
      /\ left \in Nat /\ at \in Nat \ {0} /\ final \in Nat \ {0}
      /\ at + 1 \in Nat \ {0} /\ final + 1 \in Nat \ {0}
      /\ \A n \in Names : Append(dropped, n) \in Seq(Names)
  <2>1. /\ deferments \in Seq(Names) /\ archive \in Seq(Entries) /\ dropped \in Seq(Names)
        /\ left \in Nat /\ at \in Nat \ {0} /\ final \in Nat \ {0}
    BY DEF TypeOK, Entries
  <2>2. QED
    BY <2>1
<1>2. CASE EndOfNames \/ Trailer
  BY <1>2 DEF EndOfNames, Trailer, TypeOK
<1>3. CASE \E n \in Names : NoSuchFile(n)
  BY <1>3 DEF NoSuchFile, TypeOK
<1>4. ASSUME NEW n \in Names, WriteNode(n) PROVE TypeOK'
  <2>1. Entry(n, 0) \in Entries
    BY EntryType
  <2>2. Append(archive, Entry(n, 0)) \in Seq(Entries)
    BY <1>1, <2>1
  <2>3. archive' \in Seq(Entries) /\ dropped' \in Seq(Names) /\ at' \in Nat \ {0}
    BY <1>1, <1>4, <2>2, Zenon DEF WriteNode
  <2>4. QED
    BY <1>4, <2>3 DEF WriteNode, TypeOK, Entries
<1>5. ASSUME NEW n \in Names, WriteLink(n) PROVE TypeOK'
  <2>1. PICK e, f : e = Entry(n, 1) /\ f = [Entry(n, 1) EXCEPT !.body = 1]
    OBVIOUS
  <2>2. e \in Entries /\ f \in Entries
    BY <2>1 DEF Entry, Entries
  <2>3. Append(archive, e) \in Seq(Entries) /\ Append(archive, f) \in Seq(Entries)
    BY <1>1, <2>2
  <2>4. archive' \in Seq(Entries)
    BY <1>1, <1>5, <2>1, <2>3 DEF WriteLink
  <2>5. /\ dropped' \in Seq(Names) /\ at' \in Nat \ {0}
        /\ status' \in {status, "panic"}
    BY <1>1, <1>5, Zenon DEF WriteLink
  <2>6. QED
    BY <1>5, <2>4, <2>5 DEF WriteLink, TypeOK, Entries
<1>6. ASSUME NEW n \in Names, DeferLink(n) PROVE TypeOK'
  BY <1>1, <1>6 DEF DeferLink, TypeOK
<1>7. ASSUME NEW n \in Names, StartFile(n) PROVE TypeOK'
  <2>1. PICK before, e : before = Preceding(n) /\ e = Entry(n, size[inode[n]])
    OBVIOUS
  <2>2. before \in Seq(Entries) /\ Kept(n) \in Seq(Names)
    BY <2>1, GroupMoves
  <2>3. e \in Entries
    BY <2>1, EntryType, FileTypes
  <2>4. archive \o before \o <<e>> \in Seq(Entries) /\ archive \o before \in Seq(Entries)
    BY <1>1, <2>2, <2>3
  <2>5. archive' \in Seq(Entries)
    BY <1>7, <2>1, <2>4, Zenon DEF StartFile
  <2>6. deferments' \in Seq(Names)
    BY <1>7, <2>2, Zenon DEF StartFile
  <2>7. AsUsize(AsI32(size[inode[n]])) \in Nat
    BY FileTypes, CastKeeps
  <2>8. /\ left' \in Nat /\ at' \in Nat \ {0} /\ dropped' \in Seq(Names)
        /\ phase' \in {phase, "copy"} /\ UNCHANGED <<files, final, status>>
    BY <1>1, <1>7, <2>7, Zenon DEF StartFile
  <2>9. QED
    BY <2>5, <2>6, <2>8 DEF TypeOK, Entries
<1>8. CASE CopyPiece \/ PadWithNuls
  <2>1. PICK m \in Nat : archive' = Grown(m) /\ left' = left - m /\ m <= left
    BY <1>1, <1>8 DEF CopyPiece, PadWithNuls
  <2>2. Copying /\ UNCHANGED <<files, at, deferments, final, dropped, phase, status>>
    BY <1>8 DEF CopyPiece, PadWithNuls
  <2>3. archive' \in Seq(Entries)
    BY <2>1, <2>2, GrownType DEF Place, Copying
  <2>4. left' \in Nat
    BY <1>1, <2>1
  <2>5. QED
    BY <2>2, <2>3, <2>4 DEF TypeOK, Entries
<1>9. CASE Copied
  BY <1>1, <1>9 DEF Copied, TypeOK
<1>10. ASSUME NEW n \in Names, FinalLink(n) PROVE TypeOK'
  <2>1. Entry(n, 0) \in Entries
    BY EntryType
  <2>2. Append(archive, Entry(n, 0)) \in Seq(Entries)
    BY <1>1, <2>1
  <2>3. QED
    BY <1>1, <1>10, <2>2 DEF FinalLink, TypeOK, Entries
<1>11. ASSUME NEW n \in Names, FinalFile(n) PROVE TypeOK'
  <2>1. PICK e : e = Entry(n, size[inode[n]])
    OBVIOUS
  <2>2. e \in Entries
    BY <2>1, EntryType, FileTypes
  <2>3. Append(archive, e) \in Seq(Entries)
    BY <1>1, <2>2
  <2>4. archive' \in Seq(Entries)
    BY <1>1, <1>11, <2>1, <2>3, Zenon DEF FinalFile
  <2>5. left' \in Nat /\ final' \in Nat \ {0} /\ dropped' \in Seq(Names)
    <3>1. AsUsize(AsI32(size[inode[n]])) \in Nat
      BY FileTypes, CastKeeps
    <3>2. QED
      BY <1>1, <1>11, <3>1, Zenon DEF FinalFile
  <2>6. QED
    BY <1>11, <2>4, <2>5 DEF FinalFile, TypeOK, Entries
<1>12. CASE UNCHANGED vars
  BY <1>12 DEF vars, TypeOK
<1>13. QED
  BY <1>2, <1>3, <1>4, <1>5, <1>6, <1>7, <1>8, <1>9, <1>10, <1>11, <1>12 DEF Next, ForName

LEMMA PlaceStep ==
  ASSUME TypeOK, Place, [Next]_vars
  PROVE  Place'
<1> USE DEF files
<1>1. /\ Len(list) \in Nat /\ Len(deferments) \in Nat /\ Len(archive) \in Nat
      /\ at \in Nat \ {0} /\ final \in Nat \ {0}
      /\ deferments \in Seq(Names) /\ archive \in Seq(Entries)
  BY DEF TypeOK, Entries
<1>2. CASE EndOfNames \/ Trailer \/ Copied
  BY <1>1, <1>2 DEF EndOfNames, Trailer, Copied, Copying, Place
<1>3. ASSUME NEW n \in Names, NoSuchFile(n) \/ WriteNode(n) \/ WriteLink(n)
      PROVE  Place'
  <2>1. /\ phase = "list" /\ phase' = phase /\ at <= Len(list) /\ at' \in {at, at + 1}
        /\ UNCHANGED <<list, deferments, final>>
    BY <1>3 DEF NoSuchFile, WriteNode, WriteLink, HasName
  <2>2. QED
    BY <1>1, <2>1 DEF Place
<1>4. ASSUME NEW n \in Names, DeferLink(n) PROVE Place'
  <2>1. Len(deferments') = Len(deferments) + 1
    BY <1>1, <1>4 DEF DeferLink
  <2>2. /\ phase = "list" /\ phase' = phase /\ at <= Len(list) /\ at' = at + 1
        /\ UNCHANGED <<list, final>>
    BY <1>4 DEF DeferLink, HasName
  <2>3. QED
    BY <1>1, <2>1, <2>2 DEF Place
<1>5. ASSUME NEW n \in Names, StartFile(n) PROVE Place'
  <2>1. PICK before, e : before = Preceding(n) /\ e = Entry(n, size[inode[n]])
    OBVIOUS
  <2>2. before \in Seq(Entries) /\ Kept(n) \in Seq(Names) /\ e \in Entries
    BY <2>1, GroupMoves, EntryType, FileTypes
  <2>3. Len(archive \o before \o <<e>>) > 0
    BY <1>1, <2>2
  <2>4. /\ phase = "list" /\ at <= Len(list) /\ UNCHANGED <<list, final>>
        /\ \/ phase' = "copy" /\ at' = at /\ archive' = archive \o before \o <<e>>
           \/ phase' = phase /\ at' = at + 1
    BY <1>5, <2>1, Zenon DEF StartFile, HasName
  <2>5. deferments' \in Seq(Names)
    BY <1>5, <2>2, Zenon DEF StartFile
  <2>6. Len(deferments') \in Nat
    BY <2>5
  <2>7. QED
    BY <1>1, <2>3, <2>4, <2>6 DEF Place
<1>6. CASE CopyPiece \/ PadWithNuls
  <2>1. PICK m \in Nat : archive' = Grown(m)
    BY <1>6 DEF CopyPiece, PadWithNuls, TypeOK
  <2>2. Copying /\ UNCHANGED <<list, at, deferments, final, phase>>
    BY <1>6 DEF CopyPiece, PadWithNuls
  <2>3. Len(archive') = Len(archive)
    BY <2>1, <2>2, GrownType DEF Place, Copying
  <2>4. QED
    BY <2>2, <2>3 DEF Place
<1>7. ASSUME NEW n \in Names, FinalLink(n) PROVE Place'
  BY <1>1, <1>7 DEF FinalLink, HasFinal, Place
<1>8. ASSUME NEW n \in Names, FinalFile(n) PROVE Place'
  <2>1. PICK e : e = Entry(n, size[inode[n]])
    OBVIOUS
  <2>2. Len(Append(archive, e)) > 0
    BY <1>1
  <2>3. /\ phase = "final" /\ final <= Len(deferments) /\ UNCHANGED <<list, at, deferments>>
        /\ \/ archive' = Append(archive, e) /\ phase' = "copyfinal" /\ final' = final
           \/ phase' = phase /\ final' \in {final, final + 1}
    BY <1>8, <2>1 DEF FinalFile, HasFinal
  <2>4. QED
    BY <1>1, <2>2, <2>3 DEF Place
<1>9. CASE UNCHANGED vars
  BY <1>9 DEF vars, Place
<1>10. QED
  BY <1>2, <1>3, <1>4, <1>5, <1>6, <1>7, <1>8, <1>9 DEF Next, ForName

-------------------------------------------------------------------------------
(* What follows a header, when the cast leaves the size as it is.          *)
Whole(s) == \A k \in 1 .. Len(s) : s[k].size < Half => s[k].body = s[k].size

LEMMA WholeConcat ==
  ASSUME NEW s \in Seq(Entries), NEW t \in Seq(Entries), Whole(s), Whole(t)
  PROVE  Whole(s \o t)
<1>1. PICK u : u = s \o t
  OBVIOUS
<1>2. /\ Len(s) \in Nat /\ Len(t) \in Nat /\ Len(u) = Len(s) + Len(t)
      /\ \A k \in 1 .. Len(s) : u[k] = s[k]
      /\ \A k \in Len(s) + 1 .. Len(u) : u[k] = t[k - Len(s)] /\ k - Len(s) \in 1 .. Len(t)
  BY <1>1
<1>3. ASSUME NEW k \in 1 .. Len(u), u[k].size < Half PROVE u[k].body = u[k].size
  <2>1. CASE k \in 1 .. Len(s)
    BY <1>2, <1>3, <2>1 DEF Whole
  <2>2. CASE k \in Len(s) + 1 .. Len(u)
    BY <1>2, <1>3, <2>2 DEF Whole
  <2>3. QED
    BY <1>2, <2>1, <2>2
<1>4. QED
  BY <1>1, <1>3 DEF Whole

(* An archive with a new entry last, none of whose bytes are written yet.  *)
LEMMA WholeButLast ==
  ASSUME NEW s \in Seq(Entries), Whole(s), NEW e \in Entries
  PROVE  /\ Len(s \o << e >>) = Len(s) + 1 /\ (s \o << e >>)[Len(s) + 1] = e
         /\ \A k \in 1 .. Len(s) :
              (s \o << e >>)[k].size < Half => (s \o << e >>)[k].body = (s \o << e >>)[k].size
<1>1. /\ Len(s) \in Nat /\ Len(s \o << e >>) = Len(s) + 1 /\ (s \o << e >>)[Len(s) + 1] = e
      /\ \A k \in 1 .. Len(s) : (s \o << e >>)[k] = s[k]
  OBVIOUS
<1>2. QED
  BY <1>1 DEF Whole

LEMMA MatchStep ==
  ASSUME TypeOK, Place, EntriesMatchHeaders, [Next]_vars
  PROVE  EntriesMatchHeaders'
<1> USE DEF files
<1>1. /\ archive \in Seq(Entries) /\ Len(archive) \in Nat /\ left \in Nat
      /\ \A k \in 1 .. Len(archive) : /\ archive[k] \in Entries
                                      /\ archive[k].size \in Nat /\ archive[k].body \in Nat
  <2>1. archive \in Seq(Entries) /\ left \in Nat
    BY DEF TypeOK, Entries
  <2>2. \A k \in 1 .. Len(archive) : archive[k] \in Entries
    BY <2>1
  <2>3. QED
    BY <2>1, <2>2 DEF Entries
<1>2. ASSUME Running, ~Copying PROVE Whole(archive)
  BY <1>1, <1>2 DEF EntriesMatchHeaders, MatchesHeader, Whole
<1>3. ASSUME Whole(archive'), ~Copying' PROVE EntriesMatchHeaders'
  <2>1. SUFFICES ASSUME NEW k \in 1 .. Len(archive'), archive'[k].size < Half
                 PROVE  archive'[k].body = archive'[k].size - 0
    BY <1>3 DEF EntriesMatchHeaders, MatchesHeader
  <2>2. archive'[k].body = archive'[k].size
    BY <1>3, <2>1 DEF Whole
  <2>3. archive'[k].size \in Int
    <3>1. archive' \in Seq(Entries)
      BY TypeStep DEF TypeOK, Entries
    <3>2. archive'[k] \in Entries
      BY <3>1
    <3>3. QED
      BY <3>2 DEF Entries
  <2>4. QED
    BY <2>2, <2>3
<1>4. CASE status' = "panic"
  BY <1>4 DEF EntriesMatchHeaders, Running
<1>5. ASSUME NEW e \in Entries, e.body = e.size PROVE Whole(<< e >>)
  BY <1>5 DEF Whole
<1>6. CASE EndOfNames \/ Trailer \/ \E n \in Names : NoSuchFile(n) \/ DeferLink(n)
  <2>1. Running /\ phase \in {"list", "final"} /\ archive' = archive
        /\ phase' \in {"list", "final", "done"}
    BY <1>6 DEF EndOfNames, Trailer, NoSuchFile, DeferLink, HasName
  <2>2. QED
    BY <1>2, <1>3, <2>1 DEF Copying
<1>7. ASSUME NEW n \in Names, WriteNode(n) \/ WriteLink(n) \/ FinalLink(n)
      PROVE  EntriesMatchHeaders'
  <2>1. PICK e, f : e = Entry(n, 0) /\ f = [Entry(n, 1) EXCEPT !.body = 1]
    OBVIOUS
  <2>2. e \in Entries /\ f \in Entries /\ e.body = e.size /\ f.body = f.size
    BY <2>1 DEF Entry, Entries
  <2>3. /\ Running /\ phase \in {"list", "final"} /\ phase' = phase
        /\ \/ archive' = Append(archive, e)
           \/ archive' = Append(archive, f)
           \/ archive' = archive
           \/ status' = "panic"
    BY <1>7, <2>1, Zenon DEF WriteNode, WriteLink, FinalLink, HasName, HasFinal
  <2>4. Whole(archive \o << e >>) /\ Whole(archive \o << f >>)
    <3>1. Whole(archive)
      BY <1>2, <2>3 DEF Copying
    <3>2. /\ << e >> \in Seq(Entries) /\ << f >> \in Seq(Entries)
          /\ Whole(<< e >>) /\ Whole(<< f >>)
      BY <1>5, <2>2
    <3>3. QED
      BY <1>1, <3>1, <3>2, WholeConcat
  <2>5. Append(archive, e) = archive \o << e >> /\ Append(archive, f) = archive \o << f >>
    <3>1. \A x \in Entries : Append(archive, x) = archive \o << x >>
      BY <1>1
    <3>2. QED
      BY <2>2, <3>1, Zenon
  <2>6. Whole(archive') \/ status' = "panic"
    BY <1>2, <2>3, <2>4, <2>5 DEF Copying
  <2>7. QED
    BY <1>3, <1>4, <2>3, <2>6 DEF Copying
<1>8. ASSUME NEW s \in Seq(Entries), Whole(s), NEW e \in Entries, e.body = 0,
             archive' = s \o << e >>, e.size < Half => left' = e.size, Copying'
      PROVE  EntriesMatchHeaders'
  <2>1. PICK u : u = archive'
    OBVIOUS
  <2>2. /\ Len(u) = Len(s) + 1 /\ u[Len(s) + 1] = e /\ Len(s) \in Nat
        /\ \A k \in 1 .. Len(s) : u[k].size < Half => u[k].body = u[k].size
    BY <1>8, <2>1, WholeButLast
  <2>3. SUFFICES ASSUME NEW k \in 1 .. Len(u), u[k].size < Half
                 PROVE  u[k].body = u[k].size - (IF k = Len(u) THEN left' ELSE 0)
    BY <1>8, <2>1 DEF EntriesMatchHeaders, MatchesHeader
  <2>4. CASE k = Len(u)
    BY <1>8, <2>2, <2>3, <2>4 DEF Entries
  <2>5. CASE k \in 1 .. Len(s)
    <3>1. u[k] = s[k] /\ s[k] \in Entries
      BY <1>8, <2>1, <2>5
    <3>2. QED
      BY <2>2, <2>3, <2>5, <3>1 DEF Entries
  <2>6. QED
    BY <2>2, <2>4, <2>5
<1>9. ASSUME NEW n \in Names, StartFile(n) PROVE EntriesMatchHeaders'
  <2>1. PICK before, e : before = Preceding(n) /\ e = Entry(n, size[inode[n]])
    OBVIOUS
  <2>2. /\ before \in Seq(Entries) /\ Whole(before)
        /\ e \in Entries /\ e.body = 0 /\ e.size = size[inode[n]]
    BY <2>1, GroupMoves, EntryType, FileTypes DEF Whole
  <2>3. /\ Running /\ phase = "list" /\ UNCHANGED status
        /\ \/ archive' = archive \o before \o << e >> /\ phase' = "copy"
              /\ left' = AsUsize(AsI32(e.size))
           \/ archive' = archive \o before /\ phase' = phase
    BY <1>9, <2>1, <2>2, Zenon DEF StartFile, HasName
  <2>4. archive \o before \in Seq(Entries) /\ Whole(archive \o before)
    BY <1>1, <1>2, <2>2, <2>3, WholeConcat DEF Copying
  <2>5. CASE archive' = archive \o before \o << e >> /\ phase' = "copy"
             /\ left' = AsUsize(AsI32(e.size))
    <3>1. Copying'
      BY <2>3, <2>5 DEF Copying, Running
    <3>2. e.size < Half => left' = e.size
      BY <2>2, <2>5, FileTypes, CastKeeps
    <3>3. QED
      BY <1>8, <2>2, <2>4, <2>5, <3>1, <3>2
  <2>6. CASE archive' = archive \o before /\ phase' = phase
    BY <1>3, <2>3, <2>4, <2>6 DEF Copying
  <2>7. QED
    BY <2>3, <2>5, <2>6
<1>10. CASE CopyPiece \/ PadWithNuls
  <2>1. PICK m \in Nat : archive' = Grown(m) /\ left' = left - m /\ m <= left
    BY <1>1, <1>10 DEF CopyPiece, PadWithNuls
  <2>2. Copying /\ Copying' /\ Running
    BY <1>10 DEF CopyPiece, PadWithNuls, Copying, Running
  <2>3. PICK u : u = archive'
    OBVIOUS
  <2>4. /\ Len(u) = Len(archive)
        /\ \A k \in 1 .. Len(archive) :
             /\ u[k].size = archive[k].size
             /\ u[k].body = archive[k].body + (IF k = Len(archive) THEN m ELSE 0)
    BY <2>1, <2>2, <2>3, GrownType DEF Place, Copying
  <2>5. \A k \in 1 .. Len(archive) : archive[k].size < Half =>
          archive[k].body = archive[k].size - (IF k = Len(archive) THEN left ELSE 0)
    BY <2>2 DEF EntriesMatchHeaders, MatchesHeader
  <2>6. \A k \in 1 .. Len(u) : u[k].size < Half =>
          u[k].body = u[k].size - (IF k = Len(u) THEN left - m ELSE 0)
    BY <1>1, <2>1, <2>4, <2>5
  <2>7. QED
    BY <2>1, <2>2, <2>3, <2>6 DEF EntriesMatchHeaders, MatchesHeader
<1>11. CASE Copied
  <2>1. Copying /\ Running /\ left = 0 /\ archive' = archive /\ ~Copying'
    BY <1>11 DEF Copied, Copying
  <2>2. Whole(archive)
    BY <1>1, <2>1 DEF EntriesMatchHeaders, MatchesHeader, Whole
  <2>3. QED
    BY <1>3, <2>1, <2>2
<1>12. ASSUME NEW n \in Names, FinalFile(n) PROVE EntriesMatchHeaders'
  <2>1. PICK e : e = Entry(n, size[inode[n]])
    OBVIOUS
  <2>2. e \in Entries /\ e.body = 0 /\ e.size = size[inode[n]]
    BY <2>1, EntryType, FileTypes
  <2>3. /\ Running /\ phase = "final"
        /\ \/ archive' = Append(archive, e) /\ phase' = "copyfinal"
              /\ left' = AsUsize(AsI32(e.size)) /\ status' = status
           \/ archive' = archive /\ phase' = phase
    BY <1>12, <2>1, <2>2, Zenon DEF FinalFile, HasFinal
  <2>4. Whole(archive)
    BY <1>2, <2>3 DEF Copying
  <2>5. Append(archive, e) = archive \o << e >>
    BY <1>1, <2>2
  <2>6. CASE archive' = Append(archive, e) /\ phase' = "copyfinal"
             /\ left' = AsUsize(AsI32(e.size)) /\ status' = status
    <3>1. Copying'
      BY <2>3, <2>6 DEF Copying, Running
    <3>2. e.size < Half => left' = e.size
      BY <2>2, <2>6, FileTypes, CastKeeps
    <3>3. QED
      BY <1>1, <1>8, <2>2, <2>4, <2>5, <2>6, <3>1, <3>2
  <2>7. CASE archive' = archive /\ phase' = phase
    BY <1>3, <2>3, <2>4, <2>7 DEF Copying
  <2>8. QED
    BY <2>3, <2>6, <2>7
<1>13. CASE UNCHANGED vars
  BY <1>13 DEF vars, EntriesMatchHeaders, MatchesHeader, Copying, Running
<1>14. QED
  BY <1>6, <1>7, <1>9, <1>10, <1>11, <1>12, <1>13 DEF Next, ForName

-------------------------------------------------------------------------------
(* Every name that was read is in one place.  Taken is the last line of    *)
(* the list whose name has left the list, Held the first deferment whose   *)
(* name has not left the deferments.                                       *)
Taken == IF phase = "copy" THEN at ELSE at - 1
Held == IF phase = "copyfinal" THEN final + 1 ELSE final
Placed(m) == Count(archive, Named(m)) + Count(dropped, {m})
             + Between(deferments, Held, Len(deferments), {m})
Accounted == Running => \A m \in Names : Between(list, 1, Taken, {m}) = Placed(m)

LEMMA CountType ==
  ASSUME NEW N, NEW s \in Seq(N), NEW T
  PROVE  Count(s, T) \in Nat
<1>1. Len(s) \in Int /\ 1 \in Int
  OBVIOUS
<1>2. QED
  BY <1>1, BetweenType DEF Count

LEMMA EntryNamed ==
  ASSUME NEW e \in Entries, NEW m
  PROVE  One(e, Named(m)) = One(e.name, {m})
BY DEF One, Named

LEMMA EntryCounted ==
  ASSUME NEW s \in Seq(Entries), NEW e \in Entries, NEW m
  PROVE  /\ Count(Append(s, e), Named(m)) = Count(s, Named(m)) + One(e.name, {m})
         /\ Count(s \o << e >>, Named(m)) = Count(s, Named(m)) + One(e.name, {m})
<1>1. Count(Append(s, e), Named(m)) = Count(s, Named(m)) + One(e, Named(m))
  BY CountAppend
<1>2. One(e, Named(m)) = One(e.name, {m})
  BY EntryNamed
<1>3. s \o << e >> = Append(s, e)
  OBVIOUS
<1>4. QED
  BY <1>1, <1>2, <1>3, Zenon

LEMMA GrownCounts ==
  ASSUME TypeOK, NEW n \in Nat, Len(archive) > 0
  PROVE  /\ \A m : Count(Grown(n), Named(m)) = Count(archive, Named(m))
         /\ \A i : Positions(Grown(n), 1, Len(Grown(n)), DataOf(i))
                     = Positions(archive, 1, Len(archive), DataOf(i))
<1>1. PICK g : g = Grown(n)
  OBVIOUS
<1>2. /\ g \in Seq(Entries) /\ Len(g) = Len(archive)
      /\ \A k \in 1 .. Len(archive) : g[k].name = archive[k].name /\ g[k].size = archive[k].size
  BY <1>1, GrownType
<1>3. archive \in Seq(Entries)
  BY DEF TypeOK, Entries
<1>4. /\ Len(archive) \in Int
      /\ \A k \in 1 .. Len(archive) : archive[k] \in Entries /\ g[k] \in Entries
  BY <1>2, <1>3
<1>5. ASSUME NEW m PROVE Count(g, Named(m)) = Count(archive, Named(m))
  <2>1. \A k \in 1 .. Len(archive) : g[k] \in Named(m) <=> archive[k] \in Named(m)
    BY <1>2, <1>4 DEF Named
  <2>2. QED
    BY <1>2, <1>4, <2>1, BetweenSame DEF Count
<1>6. ASSUME NEW i
      PROVE  Positions(g, 1, Len(g), DataOf(i)) = Positions(archive, 1, Len(archive), DataOf(i))
  <2>1. \A k \in 1 .. Len(archive) : g[k] \in DataOf(i) <=> archive[k] \in DataOf(i)
    BY <1>2, <1>4 DEF DataOf
  <2>2. QED
    BY <1>2, <2>1 DEF Positions
<1>7. QED
  BY <1>1, <1>5, <1>6

(* One more name is read, and is in one more place.                        *)
LEMMA OneMorePlaced ==
  ASSUME TypeOK, Place, Accounted, HasName(list[at]), list' = list, Taken' = at,
         \A m \in Names : Placed(m)' = Placed(m) + One(list[at], {m})
  PROVE  Accounted'
<1>1. at \in Int /\ 1 \in Int /\ 1 <= at /\ Taken = at - 1 /\ Running
  BY DEF Place, HasName, Taken, TypeOK
<1>2. ASSUME NEW m \in Names PROVE Between(list', 1, Taken', {m}) = Placed(m)'
  <2>1. Between(list, 1, at, {m}) = Between(list, 1, at - 1, {m}) + One(list[at], {m})
    BY <1>1, BetweenLast
  <2>2. Between(list, 1, at - 1, {m}) = Placed(m)
    BY <1>1 DEF Accounted
  <2>3. Placed(m)' = Placed(m) + One(list[at], {m})
    OBVIOUS
  <2>4. Between(list', 1, Taken', {m}) = Between(list, 1, at, {m})
    OBVIOUS
  <2>5. QED
    BY <2>1, <2>2, <2>3, <2>4
<1>3. QED
  BY <1>2 DEF Accounted

LEMMA NamesInHand ==
  ASSUME TypeOK, Place, NEW n, HasName(n)
  PROVE  /\ n = list[at] /\ HasName(list[at]) /\ phase = "list" /\ Running
         /\ Held = 1 /\ Held = final /\ Taken = at - 1
BY DEF HasName, Held, Taken, Place

LEMMA CountsOfState ==
  ASSUME TypeOK, Place
  PROVE  /\ archive \in Seq(Entries) /\ dropped \in Seq(Names) /\ deferments \in Seq(Names)
         /\ \A T : Count(archive, T) \in Nat /\ Count(dropped, T) \in Nat
         /\ \A T : Between(deferments, Held, Len(deferments), T) \in Nat
         /\ final \in Nat \ {0} /\ at \in Nat \ {0} /\ Len(deferments) \in Nat
         /\ Held \in Int
<1>1. /\ archive \in Seq(Entries) /\ dropped \in Seq(Names) /\ deferments \in Seq(Names)
      /\ final \in Nat \ {0} /\ at \in Nat \ {0}
  BY DEF TypeOK, Entries
<1>2. Len(deferments) \in Nat /\ Held \in Int
  BY <1>1 DEF Held
<1>3. \A T : Count(archive, T) \in Nat /\ Count(dropped, T) \in Nat
  BY <1>1, CountType
<1>4. \A T : Between(deferments, Held, Len(deferments), T) \in Nat
  BY <1>2, BetweenType
<1>5. QED
  BY <1>1, <1>2, <1>3, <1>4

(* The names that no longer are in the list.                               *)
LEMMA NameWritten ==
  ASSUME TypeOK, Place, Accounted, NEW n \in Names, NEW e \in Entries, e.name = n,
         HasName(n), archive' = Append(archive, e), Taken' = at, Held' = Held,
         UNCHANGED <<list, dropped, deferments>>
  PROVE  Accounted'
<1>1. \A m : Count(archive', Named(m)) = Count(archive, Named(m)) + One(n, {m})
  <2>1. archive \in Seq(Entries)
    BY CountsOfState
  <2>2. QED
    <3>1. TAKE m
    <3>2. Count(Append(archive, e), Named(m)) = Count(archive, Named(m)) + One(n, {m})
      BY <2>1, EntryCounted
    <3>3. QED
      BY <3>2
<1>2. ASSUME NEW m \in Names PROVE Placed(m)' = Placed(m) + One(list[at], {m})
  <2>1. /\ Count(archive', Named(m)) = Count(archive, Named(m)) + One(n, {m})
        /\ One(n, {m}) \in Nat /\ n = list[at]
    BY <1>1, NamesInHand DEF One
  <2>2. Between(deferments', Held', Len(deferments'), {m})
          = Between(deferments, Held, Len(deferments), {m})
    OBVIOUS
  <2>3. QED
    BY <2>1, <2>2, CountsOfState DEF Placed
<1>3. HasName(list[at])
  BY NamesInHand
<1>4. QED
  BY <1>2, <1>3, OneMorePlaced

LEMMA NameDropped ==
  ASSUME TypeOK, Place, Accounted, NEW n \in Names,
         HasName(n), dropped' = Append(dropped, n), Taken' = at, Held' = Held,
         UNCHANGED <<list, archive, deferments>>
  PROVE  Accounted'
<1>1. \A m : Count(dropped', {m}) = Count(dropped, {m}) + One(n, {m})
  BY CountAppend, CountsOfState
<1>2. ASSUME NEW m \in Names PROVE Placed(m)' = Placed(m) + One(list[at], {m})
  <2>1. /\ Count(dropped', {m}) = Count(dropped, {m}) + One(n, {m})
        /\ One(n, {m}) \in Nat /\ n = list[at]
    BY <1>1, NamesInHand DEF One
  <2>2. Between(deferments', Held', Len(deferments'), {m})
          = Between(deferments, Held, Len(deferments), {m})
    OBVIOUS
  <2>3. QED
    BY <2>1, <2>2, CountsOfState DEF Placed
<1>3. HasName(list[at])
  BY NamesInHand
<1>4. QED
  BY <1>2, <1>3, OneMorePlaced

LEMMA NameDeferred ==
  ASSUME TypeOK, Place, Accounted, NEW n \in Names, DeferLink(n)
  PROVE  Accounted'
<1>1. /\ HasName(n) /\ deferments' = <<n>> \o deferments /\ at' = at + 1
      /\ UNCHANGED <<list, archive, dropped, phase, final>>
  BY DEF DeferLink, files
<1>2. Taken' = at /\ Held' = 1 /\ Held = 1 /\ n = list[at] /\ HasName(list[at])
  BY <1>1, NamesInHand DEF Taken, Held, TypeOK
<1>3. << n >> \in Seq(Names)
  OBVIOUS
<1>4. ASSUME NEW m \in Names PROVE Placed(m)' = Placed(m) + One(list[at], {m})
  <2>1. Count(deferments', {m}) = One(n, {m}) + Count(deferments, {m})
    <3>1. Count(<<n>> \o deferments, {m}) = Count(<< n >>, {m}) + Count(deferments, {m})
      <4>1. PICK s, t : s = <<n>> /\ t = deferments
        OBVIOUS
      <4>2. s \in Seq(Names) /\ t \in Seq(Names)
        BY <1>3, <4>1, CountsOfState
      <4>3. Count(s \o t, {m}) = Count(s, {m}) + Count(t, {m})
        BY <4>2, CountConcat
      <4>4. QED
        BY <4>1, <4>3
    <3>2. Count(<< n >>, {m}) = One(n, {m})
      BY CountOne
    <3>3. QED
      BY <1>1, <3>1, <3>2, Zenon
  <2>2. /\ Between(deferments', Held', Len(deferments'), {m}) = Count(deferments', {m})
        /\ Between(deferments, Held, Len(deferments), {m}) = Count(deferments, {m})
    BY <1>2 DEF Count
  <2>3. One(n, {m}) \in Nat /\ Count(deferments, {m}) \in Nat
    BY CountType, CountsOfState DEF One
  <2>4. PICK a, f, d, o : /\ a = Count(archive, Named(m)) /\ f = Count(dropped, {m})
                          /\ d = Count(deferments, {m}) /\ o = One(n, {m})
    OBVIOUS
  <2>5. Placed(m) = a + f + d
    BY <2>2, <2>4, Zenon DEF Placed
  <2>6. Placed(m)' = a + f + (o + d)
    BY <1>1, <2>1, <2>2, <2>4, Zenon DEF Placed
  <2>7. a \in Nat /\ f \in Nat /\ d \in Nat /\ o \in Nat
    BY <2>3, <2>4, CountsOfState
  <2>8. a + f + (o + d) = a + f + d + o
    BY <2>7
  <2>9. QED
    BY <1>2, <2>4, <2>5, <2>6, <2>8, Zenon
<1>5. QED
  BY <1>1, <1>2, <1>4, OneMorePlaced

LEMMA NameStarted ==
  ASSUME TypeOK, Place, Accounted, NEW n \in Names, StartFile(n)
  PROVE  Accounted'
<1>1. PICK before, e : before = Preceding(n) /\ e = Entry(n, size[inode[n]])
  OBVIOUS
<1>2. /\ HasName(n) /\ deferments' = Kept(n) /\ UNCHANGED <<list, final>>
      /\ \/ /\ archive' = archive \o before \o << e >>
            /\ phase' = "copy" /\ at' = at /\ dropped' = dropped
         \/ /\ archive' = archive \o before
            /\ phase' = phase /\ at' = at + 1 /\ dropped' = Append(dropped, n)
  BY <1>1, Zenon DEF StartFile, files
<1>3. /\ Held = 1 /\ n = list[at] /\ HasName(list[at]) /\ phase = "list" /\ final = 1
  BY <1>2, NamesInHand
<1>4. Taken' = at /\ Held' = 1
  BY <1>2, <1>3, CountsOfState DEF Taken, Held
<1>5. /\ before \in Seq(Entries) /\ Kept(n) \in Seq(Names)
      /\ e \in Entries /\ e.name = n /\ << e >> \in Seq(Entries)
      /\ \A m : Count(before, Named(m)) + Count(Kept(n), {m}) = Count(deferments, {m})
  <2>1. size[inode[n]] \in Nat
    BY FileTypes
  <2>2. e \in Entries /\ e.name = n
    BY <1>1, <2>1, EntryType
  <2>3. << e >> \in Seq(Entries)
    BY <2>2
  <2>4. /\ before \in Seq(Entries) /\ Kept(n) \in Seq(Names)
        /\ \A m : Count(before, Named(m)) + Count(Kept(n), {m}) = Count(deferments, {m})
    BY <1>1, GroupMoves, Zenon
  <2>5. QED
    BY <2>2, <2>3, <2>4
<1>6. archive \o before \in Seq(Entries)
  BY <1>5, CountsOfState
<1>7. ASSUME NEW m \in Names PROVE Placed(m)' = Placed(m) + One(list[at], {m})
  <2>1. PICK b, k, d, o, a, f : /\ b = Count(before, Named(m)) /\ k = Count(Kept(n), {m})
                                /\ d = Count(deferments, {m}) /\ o = One(n, {m})
                                /\ a = Count(archive, Named(m)) /\ f = Count(dropped, {m})
    OBVIOUS
  <2>2. /\ b \in Nat /\ k \in Nat /\ d \in Nat /\ o \in Nat /\ a \in Nat /\ f \in Nat
        /\ b + k = d
    BY <1>5, <2>1, CountType, CountsOfState DEF One
  <2>3. Count(archive \o before, Named(m)) = a + b
    BY <1>5, <2>1, CountConcat, CountsOfState
  <2>4. Count(archive \o before \o << e >>, Named(m)) = a + b + o
    <3>1. PICK s \in Seq(Entries) : s = archive \o before
      BY <1>6
    <3>2. Count(s \o << e >>, Named(m)) = Count(s, Named(m)) + o
      <4>1. e \in Entries /\ e.name = n
        BY <1>5
      <4>2. Count(s \o << e >>, Named(m)) = Count(s, Named(m)) + One(n, {m})
        BY <4>1, EntryCounted
      <4>3. QED
        BY <2>1, <4>2
    <3>3. QED
      BY <2>3, <3>1, <3>2
  <2>5. Count(Append(dropped, n), {m}) = f + o
    BY <2>1, CountAppend, CountsOfState
  <2>6. Count(archive', Named(m)) + Count(dropped', {m}) = a + f + b + o
    <3>1. CASE archive' = archive \o before \o << e >> /\ dropped' = dropped
      <4>1. Count(archive', Named(m)) = a + b + o /\ Count(dropped', {m}) = f
        BY <2>1, <2>4, <3>1, Zenon
      <4>2. QED
        BY <2>2, <4>1
    <3>2. CASE archive' = archive \o before /\ dropped' = Append(dropped, n)
      <4>1. Count(archive', Named(m)) = a + b /\ Count(dropped', {m}) = f + o
        BY <2>3, <2>5, <3>2, Zenon
      <4>2. QED
        BY <2>2, <4>1
    <3>3. QED
      BY <1>2, <3>1, <3>2
  <2>7. Between(deferments', Held', Len(deferments'), {m}) = k
    BY <1>2, <1>4, <2>1 DEF Count
  <2>8. Between(deferments, Held, Len(deferments), {m}) = d
    BY <1>3, <2>1 DEF Count
  <2>9. Placed(m) = a + f + d
    BY <2>1, <2>8 DEF Placed
  <2>10. Placed(m)' = a + f + b + o + k
    BY <2>6, <2>7 DEF Placed
  <2>11. QED
    BY <1>3, <2>1, <2>2, <2>9, <2>10
<1>8. QED
  BY <1>2, <1>3, <1>4, <1>7, OneMorePlaced

LEMMA FinalPlaced ==
  ASSUME TypeOK, Place, Accounted, NEW n \in Names, FinalLink(n) \/ FinalFile(n)
  PROVE  Accounted'
<1>1. PICK e, f : e = Entry(n, 0) /\ f = Entry(n, size[inode[n]])
  OBVIOUS
<1>2. /\ HasFinal(n) /\ UNCHANGED <<list, deferments, at>>
      /\ \/ /\ archive' \in {Append(archive, e), Append(archive, f)} /\ dropped' = dropped
            /\ \/ phase' = phase /\ final' = final + 1
               \/ phase' = "copyfinal" /\ final' = final
         \/ /\ archive' = archive /\ dropped' = Append(dropped, n)
            /\ phase' = phase /\ final' = final + 1
         \/ status' = "panic"
  BY <1>1, Zenon DEF FinalLink, FinalFile, files
<1>3. e \in Entries /\ f \in Entries /\ e.name = n /\ f.name = n
  BY <1>1, EntryType, FileTypes
<1>4. CASE status' = "panic"
  BY <1>4 DEF Accounted, Running
<1>5. CASE status' # "panic"
  <2>1. /\ phase = "final" /\ n = deferments[final] /\ final <= Len(deferments) /\ Running
        /\ Held = final /\ Held' = final + 1 /\ Taken = at - 1 /\ Taken' = at - 1
    BY <1>2, <1>5, CountsOfState DEF HasFinal, Held, Taken
  <2>2. ASSUME NEW m \in Names PROVE Placed(m)' = Placed(m)
    <3>1. PICK o, a, f0, w : /\ o = One(n, {m}) /\ a = Count(archive, Named(m))
                             /\ f0 = Count(dropped, {m})
                             /\ w = Between(deferments, final + 1, Len(deferments), {m})
      OBVIOUS
    <3>2. o \in Nat /\ a \in Nat /\ f0 \in Nat /\ w \in Nat
      BY <3>1, BetweenType, CountsOfState DEF One
    <3>3. Between(deferments, final, Len(deferments), {m}) = o + w
      BY <2>1, <3>1, BetweenFirst, CountsOfState
    <3>4. /\ Count(Append(archive, e), Named(m)) = a + o
          /\ Count(Append(archive, f), Named(m)) = a + o
          /\ Count(Append(dropped, n), {m}) = f0 + o
      <4>1. archive \in Seq(Entries) /\ dropped \in Seq(Names)
        BY CountsOfState
      <4>2. Count(Append(dropped, n), {m}) = f0 + o
        BY <3>1, <4>1, CountAppend
      <4>3. QED
        <5>1. /\ Count(Append(archive, e), Named(m)) = Count(archive, Named(m)) + One(n, {m})
              /\ Count(Append(archive, f), Named(m)) = Count(archive, Named(m)) + One(n, {m})
          <6>1. PICK s \in Seq(Entries) : s = archive
            BY <4>1
          <6>2. Count(Append(s, e), Named(m)) = Count(s, Named(m)) + One(e.name, {m})
            BY <1>3, EntryCounted
          <6>3. Count(Append(s, f), Named(m)) = Count(s, Named(m)) + One(f.name, {m})
            BY <1>3, EntryCounted
          <6>4. QED
            BY <1>3, <6>1, <6>2, <6>3, Zenon
        <5>2. QED
          BY <3>1, <4>2, <5>1
    <3>5. Count(archive', Named(m)) + Count(dropped', {m}) = a + f0 + o
      <4>1. CASE archive' \in {Append(archive, e), Append(archive, f)} /\ dropped' = dropped
        <5>1. Count(archive', Named(m)) = a + o /\ Count(dropped', {m}) = f0
          BY <3>1, <3>4, <4>1, Zenon
        <5>2. QED
          BY <3>2, <5>1
      <4>2. CASE archive' = archive /\ dropped' = Append(dropped, n)
        <5>1. Count(archive', Named(m)) = a /\ Count(dropped', {m}) = f0 + o
          BY <3>1, <3>4, <4>2, Zenon
        <5>2. QED
          BY <3>2, <5>1
      <4>3. QED
        BY <1>2, <1>5, <4>1, <4>2
    <3>6. Placed(m) = a + f0 + (o + w)
      BY <2>1, <3>1, <3>3 DEF Placed
    <3>7. Placed(m)' = a + f0 + o + w
      BY <1>2, <2>1, <3>1, <3>5 DEF Placed
    <3>8. QED
      BY <3>2, <3>6, <3>7
  <2>3. Taken' = Taken /\ list' = list
    BY <1>2, <2>1
  <2>4. ASSUME NEW m \in Names PROVE Between(list', 1, Taken', {m}) = Placed(m)'
    BY <2>1, <2>2, <2>3 DEF Accounted
  <2>5. QED
    BY <2>4 DEF Accounted
<1>6. QED
  BY <1>4, <1>5

LEMMA AccountStep ==
  ASSUME TypeOK, Place, Accounted, [Next]_vars
  PROVE  Accounted'
<1>1. ASSUME UNCHANGED <<list, archive, dropped, deferments>>, Taken' = Taken, Held' = Held,
             Running
      PROVE  Accounted'
  BY <1>1 DEF Accounted, Placed
<1>2. CASE EndOfNames \/ Trailer
  <2>1. /\ UNCHANGED <<list, archive, dropped, deferments, at, final>> /\ Running
        /\ phase \in {"list", "final"} /\ phase' \in {"final", "done"}
    BY <1>2 DEF EndOfNames, Trailer, files
  <2>2. QED
    BY <1>1, <2>1 DEF Taken, Held
<1>3. CASE Copied
  <2>1. /\ UNCHANGED <<list, archive, dropped, deferments>> /\ Running
        /\ \/ phase = "copy" /\ phase' = "list" /\ at' = at + 1 /\ final' = final
           \/ phase = "copyfinal" /\ phase' = "final" /\ final' = final + 1 /\ at' = at
    BY <1>3 DEF Copied, Copying, files
  <2>2. Taken' = Taken /\ Held' = Held
    BY <2>1, CountsOfState DEF Taken, Held
  <2>3. QED
    BY <1>1, <2>1, <2>2
<1>4. CASE CopyPiece \/ PadWithNuls
  <2>1. PICK m \in Nat : archive' = Grown(m)
    BY <1>4 DEF CopyPiece, PadWithNuls, TypeOK
  <2>2. Copying /\ UNCHANGED <<list, at, dropped, deferments, final, phase, status>>
    BY <1>4 DEF CopyPiece, PadWithNuls, files
  <2>3. \A n : Count(archive', Named(n)) = Count(archive, Named(n))
    BY <2>1, <2>2, GrownCounts DEF Place, Copying
  <2>4. \A n : Placed(n)' = Placed(n)
    BY <2>2, <2>3 DEF Placed, Held
  <2>5. QED
    BY <2>2, <2>4 DEF Accounted, Taken, Running
<1>5. ASSUME NEW n \in Names, NoSuchFile(n) \/ WriteNode(n) \/ WriteLink(n)
      PROVE  Accounted'
  <2>1. PICK e, f : e = Entry(n, 0) /\ f = [Entry(n, 1) EXCEPT !.body = 1]
    OBVIOUS
  <2>2. e \in Entries /\ e.name = n /\ f \in Entries /\ f.name = n
    BY <2>1 DEF Entry, Entries
  <2>3. /\ HasName(n) /\ UNCHANGED <<list, deferments, phase, final>>
        /\ \/ archive' \in {Append(archive, e), Append(archive, f)} /\ dropped' = dropped
              /\ at' = at + 1
           \/ archive' = archive /\ dropped' = Append(dropped, n) /\ at' = at + 1
           \/ status' = "panic"
    BY <1>5, <2>1, Zenon DEF NoSuchFile, WriteNode, WriteLink, files
  <2>4. CASE status' = "panic"
    BY <2>4 DEF Accounted, Running
  <2>5. CASE status' # "panic"
    <3>1. Taken' = at /\ Held' = Held
      BY <2>3, <2>5, NamesInHand, CountsOfState DEF Taken, Held
    <3>2. QED
      BY <2>2, <2>3, <2>5, <3>1, NameWritten, NameDropped
  <2>6. QED
    BY <2>4, <2>5
<1>6. CASE UNCHANGED vars
  BY <1>6 DEF vars, files, Accounted, Placed, Taken, Held, Running
<1>7. QED
  BY <1>2, <1>3, <1>4, <1>5, <1>6, NameDeferred, NameStarted, FinalPlaced DEF Next, ForName

(* The counts of Accounted are those of EveryNameAccounted.                *)
LEMMA AccountedSays ==
  ASSUME TypeOK, Place, Accounted
  PROVE  EveryNameAccounted
<1>1. SUFFICES ASSUME Running, NEW n \in Names
               PROVE  Read(n) = Archived(n) + Times(n, dropped)
                        + (IF phase = "copyfinal" /\ deferments[final] = n
                           THEN Waiting(n) - 1 ELSE Waiting(n))
  BY DEF EveryNameAccounted
<1>2. /\ archive \in Seq(Entries) /\ dropped \in Seq(Names) /\ Len(deferments) \in Nat
      /\ final \in Nat \ {0} /\ at \in Nat \ {0} /\ list \in Seq(Names \cup {Blank})
  BY CountsOfState DEF TypeOK
<1>3. Archived(n) = Count(archive, Named(n))
  <2>1. \A k \in 1 .. Len(archive) : archive[k] \in Entries
    BY <1>2
  <2>2. {k \in 1 .. Len(archive) : archive[k].name = n}
          = {k \in 1 .. Len(archive) : archive[k] \in Named(n)}
    BY <2>1 DEF Named
  <2>3. QED
    BY <2>2 DEF Archived, Count, Between, Positions
<1>4. Times(n, dropped) = Count(dropped, {n})
  <2>1. {k \in 1 .. Len(dropped) : dropped[k] = n} = {k \in 1 .. Len(dropped) : dropped[k] \in {n}}
    OBVIOUS
  <2>2. QED
    BY <2>1 DEF Times, Count, Between, Positions
<1>5. Waiting(n) = Between(deferments, final, Len(deferments), {n})
  <2>1. {k \in final .. Len(deferments) : deferments[k] = n}
          = {k \in final .. Len(deferments) : deferments[k] \in {n}}
    OBVIOUS
  <2>2. QED
    BY <2>1 DEF Waiting, Between, Positions
<1>6. Times(n, SubSeq(list, 1, at - 1)) = Between(list, 1, at - 1, {n})
  <2>1. at - 1 \in 0 .. Len(list) /\ Len(list) \in Nat
    BY <1>2 DEF Place
  <2>2. PICK u : u = SubSeq(list, 1, at - 1)
    OBVIOUS
  <2>3. Len(u) = at - 1 /\ \A k \in 1 .. at - 1 : u[k] = list[k]
    BY <1>2, <2>1, <2>2
  <2>4. {k \in 1 .. Len(u) : u[k] = n} = {k \in 1 .. at - 1 : list[k] \in {n}}
    BY <2>3
  <2>5. QED
    BY <2>2, <2>4 DEF Times, Between, Positions
<1>7. Read(n) = Between(list, 1, Taken, {n})
  <2>1. Between(list, 1, at - 1, {n}) \in Nat
    BY <1>2, BetweenType
  <2>2. Between(list, 1, at, {n}) = Between(list, 1, at - 1, {n}) + One(list[at], {n})
    BY <1>2, BetweenLast
  <2>3. QED
    BY <1>6, <2>1, <2>2 DEF Read, Taken, One
<1>8. (IF phase = "copyfinal" /\ deferments[final] = n THEN Waiting(n) - 1 ELSE Waiting(n))
        = Between(deferments, Held, Len(deferments), {n})
  <2>1. CASE phase = "copyfinal"
    <3>1. final <= Len(deferments)
      BY <2>1 DEF Place
    <3>2. Between(deferments, final, Len(deferments), {n})
            = One(deferments[final], {n}) + Between(deferments, final + 1, Len(deferments), {n})
      BY <1>2, <3>1, BetweenFirst
    <3>3. Between(deferments, final + 1, Len(deferments), {n}) \in Nat
      BY <1>2, BetweenType
    <3>4. QED
      BY <1>5, <2>1, <3>2, <3>3 DEF Held, One
  <2>2. CASE phase # "copyfinal"
    BY <1>5, <2>2 DEF Held
  <2>3. QED
    BY <2>1, <2>2
<1>9. QED
  BY <1>1, <1>3, <1>4, <1>7, <1>8 DEF Accounted, Placed

-------------------------------------------------------------------------------
(* The deferred links of a file.                                           *)
LEMMA DeferredCount ==
  ASSUME TypeOK, NEW i \in Inodes, Identified(i)
  PROVE  /\ Cardinality(DeferredTo(i)) = Count(deferments, LinksOf(i))
         /\ DeferredTo(i) = Positions(deferments, 1, Len(deferments), LinksOf(i))
<1>1. \A k \in 1 .. Len(deferments) : deferments[k] \in Names
  BY DEF TypeOK
<1>2. DeferredTo(i) = Positions(deferments, 1, Len(deferments), LinksTo(i))
  BY <1>1 DEF DeferredTo, Positions, LinksTo
<1>3. QED
  BY <1>2, LinksTold DEF Count, Between

(* The walk of writeout_final_defers counts the link in hand.              *)
LEMMA AloneCount ==
  ASSUME TypeOK, Place, NEW n \in Names, HasFinal(n), Identified(inode[n])
  PROVE  AloneDeferred(n) <=> Count(deferments, LinksOf(inode[n])) = 1
<1>1. inode[n] \in Inodes /\ final \in 1 .. Len(deferments) /\ deferments[final] = n
  BY DEF HasFinal, TypeOK, Place
<1>2. DeferredTo(inode[n]) = Positions(deferments, 1, Len(deferments), LinksOf(inode[n]))
  BY <1>1, DeferredCount
<1>3. final \in DeferredTo(inode[n])
  BY <1>1, <1>2 DEF Positions, LinksOf
<1>4. DeferredTo(inode[n]) \cup {final} = DeferredTo(inode[n])
  BY <1>3
<1>5. QED
  BY <1>1, <1>4, DeferredCount DEF AloneDeferred

Below == \A i \in Inodes : Identified(i) => Count(deferments, LinksOf(i)) < nlink[i]

LEMMA BelowSays ==
  ASSUME TypeOK
  PROVE  DeferredBelowLinks <=> Below
BY DeferredCount DEF DeferredBelowLinks, Below

LEMMA DeferredFront ==
  ASSUME TypeOK, NEW n \in Names, NEW i
  PROVE  Count(<<n>> \o deferments, LinksOf(i))
           = Count(deferments, LinksOf(i)) + (IF inode[n] = i THEN 1 ELSE 0)
<1>1. PICK s, t : s = << n >> /\ t = deferments
  OBVIOUS
<1>2. s \in Seq(Names) /\ t \in Seq(Names)
  BY <1>1 DEF TypeOK
<1>3. Count(s \o t, LinksOf(i)) = Count(s, LinksOf(i)) + Count(t, LinksOf(i))
  BY <1>2, CountConcat
<1>4. Count(s, LinksOf(i)) = One(n, LinksOf(i))
  BY <1>1, CountOne
<1>5. One(n, LinksOf(i)) = IF inode[n] = i THEN 1 ELSE 0
  BY DEF One, LinksOf
<1>6. Count(t, LinksOf(i)) \in Nat
  BY <1>2, CountType
<1>7. QED
  BY <1>1, <1>3, <1>4, <1>5, <1>6

LEMMA FilesStay ==
  ASSUME [Next]_vars
  PROVE  UNCHANGED files
BY DEF Next, ForName, EndOfNames, NoSuchFile, WriteNode, WriteLink, DeferLink, StartFile,
       CopyPiece, PadWithNuls, Copied, FinalLink, FinalFile, Trailer, vars

LEMMA DefermentsStay ==
  ASSUME [Next]_vars, ~\E n \in Names : DeferLink(n) \/ StartFile(n)
  PROVE  UNCHANGED deferments
BY DEF Next, ForName, EndOfNames, NoSuchFile, WriteNode, WriteLink,
       CopyPiece, PadWithNuls, Copied, FinalLink, FinalFile, Trailer, vars

LEMMA BelowStep ==
  ASSUME TypeOK, Below, [Next]_vars
  PROVE  Below'
<1>1. /\ nlink' = nlink /\ inode' = inode
      /\ renumber' = renumber /\ ignoreDevno' = ignoreDevno
  BY FilesStay DEF files
<1>2. \A i : LinksOf(i)' = LinksOf(i) /\ (Identified(i)' <=> Identified(i))
  BY <1>1 DEF LinksOf, Identified
<1>3. \A i \in Inodes : nlink[i] \in Nat \ {0}
  BY CopyOutAssumption DEF TypeOK
<1>4. \A i : Count(deferments, LinksOf(i)) \in Nat
  BY CountType DEF TypeOK
<1>5. ASSUME NEW n \in Names, DeferLink(n), NEW i \in Inodes, Identified(i)
      PROVE  Count(deferments', LinksOf(i)) < nlink[i]
  <2>1. /\ deferments' = <<n>> \o deferments
        /\ inode[n] = i => nlink[i] # Count(deferments, LinksOf(i)) + 1
    BY <1>5, DeferredCount DEF DeferLink, LastLink
  <2>2. Count(deferments', LinksOf(i))
          = Count(deferments, LinksOf(i)) + (IF inode[n] = i THEN 1 ELSE 0)
    BY <2>1, DeferredFront
  <2>3. Count(deferments, LinksOf(i)) < nlink[i]
    BY <1>5 DEF Below
  <2>4. QED
    BY <1>3, <1>4, <2>1, <2>2, <2>3
<1>6. ASSUME NEW n \in Names, StartFile(n), NEW i \in Inodes, Identified(i)
      PROVE  Count(deferments', LinksOf(i)) < nlink[i]
  <2>1. Count(Kept(n), LinksOf(i)) \in {0, Count(deferments, LinksOf(i))}
    BY <1>6, GroupMoves DEF Told
  <2>2. deferments' = Kept(n)
    BY <1>6 DEF StartFile
  <2>3. QED
    BY <1>3, <1>6, <2>1, <2>2 DEF Below
<1>7. ASSUME UNCHANGED deferments, NEW i \in Inodes, Identified(i)
      PROVE  Count(deferments', LinksOf(i)) < nlink[i]
  BY <1>7 DEF Below
<1>8. QED
  BY <1>1, <1>2, <1>5, <1>6, <1>7, DefermentsStay DEF Below

-------------------------------------------------------------------------------
(* The contents of a file whose links are listed once each.  While the     *)
(* list is read, all links of a file that has its contents were read; after *)
(* it, none of them waits.                                                 *)
Contents(i) == Count(archive, DataOf(i))
Deferred(i) == Count(deferments, LinksOf(i))
Awaiting(i) == Between(deferments, Held, Len(deferments), LinksOf(i))
ReadLinks(i) == Between(list, 1, Taken, LinksOf(i))

OnceFor(i) ==
  /\ Contents(i) <= 1
  /\ phase \in {"list", "copy"} =>
       Deferred(i) + (IF Contents(i) = 0 THEN 0 ELSE nlink[i]) <= ReadLinks(i)
  /\ phase \notin {"list", "copy"} => Contents(i) = 0 \/ Awaiting(i) = 0
Complete(i) == Identified(i) /\ kind[i] = "reg" /\ 1 < nlink[i] /\ Listed(i) <= nlink[i]
Once == deferring => \A i \in Inodes : Complete(i) => OnceFor(i)

LEMMA ListedCount ==
  ASSUME TypeOK, NEW i
  PROVE  Listed(i) = Between(list, 1, Len(list), LinksOf(i))
<1>1. \A k \in 1 .. Len(list) : list[k] \in Names \cup {Blank}
  BY DEF TypeOK
<1>2. {k \in 1 .. Len(list) : list[k] # Blank /\ inode[list[k]] = i}
        = Positions(list, 1, Len(list), LinksOf(i))
  BY <1>1, CopyOutAssumption DEF Positions, LinksOf
<1>3. QED
  BY <1>2 DEF Listed, Between

LEMMA ContentsOfState ==
  ASSUME TypeOK, Place, NEW i \in Inodes
  PROVE  /\ Contents(i) \in Nat /\ Deferred(i) \in Nat /\ Awaiting(i) \in Nat
         /\ ReadLinks(i) \in Nat /\ nlink[i] \in Nat \ {0}
         /\ ReadLinks(i) <= Listed(i) /\ Listed(i) \in Nat
<1>1. Contents(i) \in Nat /\ Deferred(i) \in Nat /\ Awaiting(i) \in Nat
  BY CountsOfState, CountType DEF Contents, Deferred, Awaiting
<1>2. nlink[i] \in Nat \ {0}
  BY CopyOutAssumption DEF TypeOK
<1>3. Taken \in Int /\ Taken <= Len(list) /\ Len(list) \in Int /\ 1 \in Int /\ 1 <= 1
  BY DEF Place, Taken, TypeOK
<1>4. ReadLinks(i) \in Nat /\ Between(list, 1, Len(list), LinksOf(i)) \in Nat
  BY <1>3, BetweenType DEF ReadLinks
<1>5. ReadLinks(i) <= Between(list, 1, Len(list), LinksOf(i))
  BY <1>3, BetweenWithin DEF ReadLinks
<1>6. QED
  BY <1>1, <1>2, <1>4, <1>5, ListedCount

(* The name in hand is read.                                               *)
LEMMA OneMoreRead ==
  ASSUME TypeOK, Place, NEW n \in Names, HasName(n), list' = list, inode' = inode,
         Taken' \in {Taken, at}, NEW i \in Inodes
  PROVE  /\ Taken' = at => ReadLinks(i)' = ReadLinks(i) + (IF inode[n] = i THEN 1 ELSE 0)
         /\ ReadLinks(i)' >= ReadLinks(i) /\ ReadLinks(i)' \in Nat
         /\ ReadLinks(i) + (IF inode[n] = i THEN 1 ELSE 0) <= Listed(i)
<1>1. /\ at \in Int /\ 1 \in Int /\ 1 <= at /\ at <= Len(list) /\ Len(list) \in Int
      /\ Taken = at - 1 /\ n = list[at]
  <2>1. at \in Nat \ {0}
    BY CountsOfState
  <2>2. Taken = at - 1 /\ n = list[at]
    BY NamesInHand
  <2>3. at <= Len(list)
    BY DEF HasName
  <2>4. Len(list) \in Int
    BY DEF TypeOK
  <2>5. QED
    BY <2>1, <2>2, <2>3, <2>4
<1>2. Between(list, 1, at, LinksOf(i))
        = Between(list, 1, at - 1, LinksOf(i)) + One(list[at], LinksOf(i))
  BY <1>1, BetweenLast
<1>3. One(list[at], LinksOf(i)) = IF inode[n] = i THEN 1 ELSE 0
  BY <1>1 DEF One, LinksOf
<1>4. ReadLinks(i) = Between(list, 1, at - 1, LinksOf(i)) /\ ReadLinks(i) \in Nat
  BY <1>1, ContentsOfState DEF ReadLinks
<1>5. Between(list, 1, at, LinksOf(i)) <= Between(list, 1, Len(list), LinksOf(i))
  BY <1>1, BetweenWithin
<1>6. LinksOf(i)' = LinksOf(i)
  BY DEF LinksOf
<1>7. Taken' = at => ReadLinks(i)' = Between(list, 1, at, LinksOf(i))
  BY <1>6 DEF ReadLinks
<1>8. Taken' = Taken => ReadLinks(i)' = ReadLinks(i)
  BY <1>6 DEF ReadLinks
<1>9. QED
  BY <1>2, <1>3, <1>4, <1>5, <1>7, <1>8, ListedCount

(* What an entry adds to the contents of a file.                           *)
LEMMA DataOfEntry ==
  ASSUME NEW e \in Entries, NEW i
  PROVE  /\ One(e, DataOf(i)) = IF inode[e.name] = i /\ e.size > 0 THEN 1 ELSE 0
         /\ One(e, DataOf(i)) \in {0, 1}
BY DEF One, DataOf

LEMMA ContentsAppend ==
  ASSUME NEW s \in Seq(Entries), NEW e \in Entries, NEW i
  PROVE  /\ Count(Append(s, e), DataOf(i)) = Count(s, DataOf(i)) + One(e, DataOf(i))
         /\ Count(s \o << e >>, DataOf(i)) = Count(s, DataOf(i)) + One(e, DataOf(i))
<1>1. Count(Append(s, e), DataOf(i)) = Count(s, DataOf(i)) + One(e, DataOf(i))
  BY CountAppend
<1>2. s \o << e >> = Append(s, e)
  OBVIOUS
<1>3. QED
  BY <1>1, <1>2, Zenon

(* A name of the list that gets no contents, or is not of the file i.      *)
LEMMA OnceRead ==
  ASSUME TypeOK, Place, NEW i \in Inodes, OnceFor(i), NEW n \in Names, HasName(n),
         list' = list, inode' = inode, nlink' = nlink, phase' \in {"list", "copy"},
         Contents(i)' = Contents(i),
         \/ Deferred(i)' \in {0, Deferred(i)} /\ Taken' \in {Taken, at}
         \/ Deferred(i)' = Deferred(i) + (IF inode[n] = i THEN 1 ELSE 0) /\ Taken' = at
  PROVE  OnceFor(i)'
<1>1. phase = "list"
  BY DEF HasName
<1>2. PICK o : o = IF inode[n] = i THEN 1 ELSE 0
  OBVIOUS
<1>3. PICK r : r = ReadLinks(i)'
  OBVIOUS
<1>4. (Taken' = at => r = ReadLinks(i) + o) /\ r >= ReadLinks(i) /\ r \in Nat
  BY <1>2, <1>3, OneMoreRead
<1>5. /\ Contents(i) <= 1
      /\ Deferred(i) + (IF Contents(i) = 0 THEN 0 ELSE nlink[i]) <= ReadLinks(i)
  BY <1>1 DEF OnceFor
<1>6. PICK d : d = Deferred(i)'
  OBVIOUS
<1>7. d + (IF Contents(i) = 0 THEN 0 ELSE nlink[i]) <= r
  <2>1. CASE d \in {0, Deferred(i)}
    <3>1. d <= Deferred(i) /\ d \in Nat
      BY <2>1, ContentsOfState
    <3>2. QED
      BY <1>4, <1>5, <3>1, ContentsOfState
  <2>2. CASE d = Deferred(i) + o /\ Taken' = at
    BY <1>2, <1>4, <1>5, <2>2, ContentsOfState
  <2>3. QED
    BY <1>2, <1>6, <2>1, <2>2
<1>8. QED
  BY <1>3, <1>5, <1>6, <1>7 DEF OnceFor

(* The last link of a file comes: its contents were not written before.    *)
LEMMA OnceStarted ==
  ASSUME TypeOK, Place, deferring, NEW i \in Inodes, OnceFor(i), Complete(i),
         NEW n \in Names, StartFile(n)
  PROVE  OnceFor(i)'
<1>1. PICK before, e : before = Preceding(n) /\ e = Entry(n, size[inode[n]])
  OBVIOUS
<1>2. /\ HasName(n) /\ deferments' = Kept(n)
      /\ list' = list /\ inode' = inode /\ nlink' = nlink
      /\ IsLinked(n) => LastLink(n)
      /\ \/ archive' = archive \o before \o << e >> /\ phase' = "copy" /\ at' = at
         \/ archive' = archive \o before /\ phase' = "list" /\ at' = at + 1
  BY <1>1, Zenon DEF StartFile, files, HasName
<1>3. /\ phase = "list" /\ Taken = at - 1 /\ at \in Nat
  BY <1>2, NamesInHand, CountsOfState
<1>4. Taken' = at /\ phase' \in {"list", "copy"}
  BY <1>2, <1>3 DEF Taken
<1>5. size[inode[n]] \in Nat /\ archive \in Seq(Entries)
  BY FileTypes, CountsOfState
<1>6. e \in Entries /\ e.name = n
  BY <1>1, <1>5, EntryType
<1>7. before \in Seq(Entries) /\ Count(before, DataOf(i)) = 0
  BY <1>1, GroupMoves
<1>8. PICK s \in Seq(Entries) : s = archive \o before
  <2>1. archive \o before \in Seq(Entries)
    BY <1>5, <1>7
  <2>2. QED
    BY <2>1
<1>9. Count(s, DataOf(i)) = Contents(i)
  <2>1. Count(s, DataOf(i)) = Count(archive, DataOf(i)) + Count(before, DataOf(i))
    BY <1>5, <1>7, <1>8, CountConcat
  <2>2. QED
    BY <1>7, <2>1, ContentsOfState DEF Contents
<1>10. PICK o : o = One(e, DataOf(i))
  OBVIOUS
<1>11. o \in {0, 1} /\ (inode[n] # i => o = 0)
  BY <1>6, <1>10, DataOfEntry
<1>12. Count(s \o << e >>, DataOf(i)) = Contents(i) + o
  BY <1>6, <1>9, <1>10, ContentsAppend
<1>13. PICK c : c = Contents(i)'
  OBVIOUS
<1>14. c \in {Contents(i), Contents(i) + o}
  <2>1. DataOf(i)' = DataOf(i)
    BY <1>2 DEF DataOf
  <2>2. c = Count(archive', DataOf(i))
    BY <1>13, <2>1 DEF Contents
  <2>3. QED
    BY <1>2, <1>8, <1>9, <1>12, <2>2
<1>15. PICK d : d = Deferred(i)'
  OBVIOUS
<1>16. d = IF IsLinked(n) /\ i = inode[n] THEN 0 ELSE Deferred(i)
  <2>1. LinksOf(i)' = LinksOf(i)
    BY <1>2 DEF LinksOf
  <2>2. d = Count(Kept(n), LinksOf(i))
    BY <1>2, <1>15, <2>1 DEF Deferred
  <2>3. QED
    BY <2>2, GroupMoves DEF Deferred, Complete, Told
<1>17. CASE inode[n] # i
  <2>1. c = Contents(i) /\ d = Deferred(i)
    BY <1>11, <1>14, <1>16, <1>17, ContentsOfState
  <2>2. QED
    BY <1>2, <1>4, <1>13, <1>15, <2>1, OnceRead
<1>18. CASE inode[n] = i
  <2>1. IsLinked(n) /\ d = 0
    BY <1>16, <1>18 DEF IsLinked, Complete
  <2>2. nlink[i] = Deferred(i) + 1
    BY <1>2, <1>18, <2>1, DeferredCount DEF LastLink, Deferred, Complete
  <2>3. ReadLinks(i) + 1 <= nlink[i] /\ ReadLinks(i)' = ReadLinks(i) + 1
    <3>1. /\ ReadLinks(i) + (IF inode[n] = i THEN 1 ELSE 0) <= Listed(i)
          /\ ReadLinks(i)' = ReadLinks(i) + (IF inode[n] = i THEN 1 ELSE 0)
      BY <1>2, <1>4, OneMoreRead
    <3>2. QED
      BY <1>18, <3>1, ContentsOfState DEF Complete
  <2>4. Deferred(i) + (IF Contents(i) = 0 THEN 0 ELSE nlink[i]) <= ReadLinks(i)
    BY <1>3 DEF OnceFor
  <2>5. Contents(i) = 0
    BY <2>2, <2>3, <2>4, ContentsOfState
  <2>6. c <= 1
    BY <1>11, <1>14, <2>5
  <2>7. PICK r : r = ReadLinks(i)'
    OBVIOUS
  <2>8. d + (IF c = 0 THEN 0 ELSE nlink[i]) <= r
    BY <2>1, <2>2, <2>3, <2>4, <2>5, <2>7, ContentsOfState
  <2>9. nlink'[i] = nlink[i]
    BY <1>2
  <2>10. QED
    BY <1>4, <1>13, <1>15, <2>6, <2>7, <2>8, <2>9 DEF OnceFor
<1>19. QED
  BY <1>17, <1>18

(* The list has ended, and the deferred links are written.                 *)
LEMMA OnceListEnds ==
  ASSUME TypeOK, Place, NEW i \in Inodes, OnceFor(i), Complete(i), EndOfNames
  PROVE  OnceFor(i)'
<1>1. /\ phase = "list" /\ phase' = "final" /\ inode' = inode
      /\ UNCHANGED <<archive, deferments, final>>
  BY DEF EndOfNames, files
<1>2. Held' = 1
  BY <1>1 DEF Held, Place
<1>3. LinksOf(i)' = LinksOf(i) /\ DataOf(i)' = DataOf(i)
  BY <1>1 DEF LinksOf, DataOf
<1>4. Contents(i)' = Contents(i) /\ Awaiting(i)' = Deferred(i)
  BY <1>1, <1>2, <1>3 DEF Contents, Awaiting, Deferred, Count
<1>5. Contents(i) <= 1
      /\ Deferred(i) + (IF Contents(i) = 0 THEN 0 ELSE nlink[i]) <= ReadLinks(i)
  BY <1>1 DEF OnceFor
<1>6. Contents(i) = 0 \/ Deferred(i) = 0
  BY <1>5, ContentsOfState DEF Complete
<1>7. QED
  BY <1>1, <1>4, <1>5, <1>6 DEF OnceFor

LEMMA OnceFinal ==
  ASSUME TypeOK, Place, NEW i \in Inodes, OnceFor(i), Identified(i),
         NEW n \in Names, FinalLink(n) \/ FinalFile(n)
  PROVE  OnceFor(i)'
<1>1. PICK e, f : e = Entry(n, 0) /\ f = Entry(n, size[inode[n]])
  OBVIOUS
<1>2. /\ HasFinal(n) /\ inode' = inode /\ deferments' = deferments
      /\ \/ archive' = Append(archive, e) /\ phase' = phase /\ final' = final + 1
         \/ archive' = Append(archive, f) /\ phase' = "copyfinal" /\ final' = final
            /\ AloneDeferred(n)
         \/ archive' = archive /\ phase' = phase /\ final' \in {final, final + 1}
  BY <1>1, Zenon DEF FinalLink, FinalFile, files
<1>3. size[inode[n]] \in Nat /\ archive \in Seq(Entries)
  BY FileTypes, CountsOfState
<1>4. /\ e \in Entries /\ e.name = n /\ e.size = 0
      /\ f \in Entries /\ f.name = n
  BY <1>1, <1>3, EntryType
<1>5. /\ phase = "final" /\ n = deferments[final] /\ final <= Len(deferments)
      /\ Held = final /\ Held' \in {final, final + 1} /\ phase' \in {"final", "copyfinal"}
  BY <1>2, CountsOfState DEF HasFinal, Held
<1>6. LinksOf(i)' = LinksOf(i) /\ DataOf(i)' = DataOf(i)
  BY <1>2 DEF LinksOf, DataOf
<1>7. PICK c, w, later : /\ c = Contents(i)' /\ w = Awaiting(i)'
                         /\ later = Between(deferments, final + 1, Len(deferments), LinksOf(i))
  OBVIOUS
<1>8. later \in Nat
  BY <1>7, BetweenType, CountsOfState
<1>9. Awaiting(i) = (IF inode[n] = i THEN 1 ELSE 0) + later
  <2>1. Between(deferments, final, Len(deferments), LinksOf(i))
          = One(deferments[final], LinksOf(i)) + later
    BY <1>5, <1>7, BetweenFirst, CountsOfState
  <2>2. One(deferments[final], LinksOf(i)) = IF inode[n] = i THEN 1 ELSE 0
    BY <1>5 DEF One, LinksOf
  <2>3. QED
    BY <1>5, <2>1, <2>2 DEF Awaiting
<1>10. w \in {Awaiting(i), later} /\ (Held' = final + 1 => w = later)
  <2>1. w = Between(deferments, Held', Len(deferments), LinksOf(i))
    BY <1>2, <1>6, <1>7 DEF Awaiting
  <2>2. CASE Held' = final + 1
    BY <1>7, <2>1, <2>2
  <2>3. CASE Held' # final + 1
    BY <1>5, <2>1, <2>3 DEF Awaiting
  <2>4. QED
    BY <2>2, <2>3
<1>11. c = Count(archive', DataOf(i))
  BY <1>6, <1>7 DEF Contents
<1>12. Contents(i) <= 1 /\ (Contents(i) = 0 \/ Awaiting(i) = 0)
  BY <1>5 DEF OnceFor
<1>13. CASE archive' = Append(archive, f) /\ phase' = "copyfinal" /\ final' = final
            /\ AloneDeferred(n)
  <2>1. PICK o : o = One(f, DataOf(i))
    OBVIOUS
  <2>2. o \in {0, 1} /\ (inode[n] # i => o = 0)
    BY <1>4, <2>1, DataOfEntry
  <2>3. c = Contents(i) + o
    BY <1>3, <1>4, <1>11, <1>13, <2>1, ContentsAppend DEF Contents
  <2>4. w = later
    BY <1>10, <1>13 DEF Held
  <2>5. CASE inode[n] = i
    <3>1. Deferred(i) = 1
      BY <1>2, <1>13, <2>5, AloneCount DEF Deferred
    <3>2. Awaiting(i) <= Deferred(i)
      BY <1>5, BetweenWithin, CountsOfState DEF Awaiting, Deferred, Count
    <3>3. later = 0
      BY <1>8, <1>9, <2>5, <3>1, <3>2
    <3>4. Contents(i) = 0
      BY <1>8, <1>9, <1>12, <2>5
    <3>5. c <= 1 /\ w = 0
      BY <2>2, <2>3, <2>4, <3>3, <3>4
    <3>6. QED
      BY <1>5, <1>7, <1>13, <3>5 DEF OnceFor
  <2>6. CASE inode[n] # i
    <3>1. c = Contents(i) /\ w = Awaiting(i)
      BY <1>8, <1>9, <2>2, <2>3, <2>4, <2>6, ContentsOfState
    <3>2. QED
      BY <1>7, <1>12, <1>13, <3>1 DEF OnceFor
  <2>7. QED
    BY <2>5, <2>6
<1>14. CASE archive' = archive \/ archive' = Append(archive, e)
  <2>1. One(e, DataOf(i)) = 0
    BY <1>4, DataOfEntry
  <2>2. c = Contents(i)
    <3>1. Count(Append(archive, e), DataOf(i)) = Contents(i) + One(e, DataOf(i))
      BY <1>3, <1>4, ContentsAppend DEF Contents
    <3>2. Count(Append(archive, e), DataOf(i)) = Contents(i)
      BY <2>1, <3>1, ContentsOfState
    <3>3. QED
      BY <1>11, <1>14, <3>2, Zenon DEF Contents
  <2>3. c <= 1 /\ (c = 0 \/ w = 0)
    BY <1>8, <1>9, <1>10, <1>12, <2>2, ContentsOfState
  <2>4. QED
    BY <1>5, <1>7, <2>3 DEF OnceFor
<1>15. QED
  BY <1>2, <1>13, <1>14

LEMMA OnceSame ==
  ASSUME NEW i, OnceFor(i), Contents(i)' = Contents(i), Deferred(i)' = Deferred(i),
         Awaiting(i)' = Awaiting(i), ReadLinks(i)' = ReadLinks(i), nlink' = nlink,
         phase' \in {"list", "copy"} <=> phase \in {"list", "copy"}
  PROVE  OnceFor(i)'
BY DEF OnceFor

LEMMA OnceStep ==
  ASSUME TypeOK, Place, Once, [Next]_vars
  PROVE  Once'
<1>1. /\ inode' = inode /\ nlink' = nlink /\ kind' = kind /\ list' = list
      /\ deferring' = deferring /\ renumber' = renumber /\ ignoreDevno' = ignoreDevno
  BY FilesStay DEF files
<1>2. SUFFICES ASSUME deferring, NEW i \in Inodes, Complete(i), OnceFor(i)
               PROVE  OnceFor(i)'
  <2>1. \A i : Complete(i)' <=> Complete(i)
    BY <1>1 DEF Complete, Listed, Identified
  <2>2. QED
    BY <1>1, <2>1 DEF Once
<1>3. LinksOf(i)' = LinksOf(i) /\ DataOf(i)' = DataOf(i)
  BY <1>1 DEF LinksOf, DataOf
<1>4. UNCHANGED deferments => Deferred(i)' = Deferred(i)
  BY <1>3 DEF Deferred
<1>5. UNCHANGED archive => Contents(i)' = Contents(i)
  BY <1>3 DEF Contents
<1>6. UNCHANGED <<deferments>> /\ Held' = Held => Awaiting(i)' = Awaiting(i)
  BY <1>3 DEF Awaiting
<1>7. Taken' = Taken => ReadLinks(i)' = ReadLinks(i)
  BY <1>1, <1>3 DEF ReadLinks
<1>8. CASE EndOfNames
  BY <1>2, <1>8, OnceListEnds
<1>9. CASE Trailer
  <2>1. /\ UNCHANGED <<archive, deferments, at, final>>
        /\ phase = "final" /\ phase' = "done"
    BY <1>9 DEF Trailer
  <2>2. Taken' = Taken /\ Held' = Held
    BY <2>1 DEF Taken, Held
  <2>3. QED
    BY <1>1, <1>2, <1>4, <1>5, <1>6, <1>7, <2>1, <2>2, OnceSame
<1>10. CASE Copied
  <2>1. /\ UNCHANGED <<archive, deferments>>
        /\ \/ phase = "copy" /\ phase' = "list" /\ at' = at + 1 /\ final' = final
           \/ phase = "copyfinal" /\ phase' = "final" /\ final' = final + 1 /\ at' = at
    BY <1>10 DEF Copied, Copying
  <2>2. Taken' = Taken /\ Held' = Held
    BY <2>1, CountsOfState DEF Taken, Held
  <2>3. QED
    BY <1>1, <1>2, <1>4, <1>5, <1>6, <1>7, <2>1, <2>2, OnceSame
<1>11. CASE CopyPiece \/ PadWithNuls
  <2>1. PICK m \in Nat : archive' = Grown(m)
    BY <1>11 DEF CopyPiece, PadWithNuls, TypeOK
  <2>2. Copying /\ UNCHANGED <<at, deferments, final, phase>>
    BY <1>11 DEF CopyPiece, PadWithNuls
  <2>3. Len(archive) > 0
    BY <2>2 DEF Place, Copying
  <2>4. Positions(archive', 1, Len(archive'), DataOf(i))
          = Positions(archive, 1, Len(archive), DataOf(i))
    BY <2>1, <2>3, GrownCounts
  <2>5. Contents(i)' = Contents(i)
    BY <1>3, <2>4 DEF Contents, Count, Between
  <2>6. Taken' = Taken /\ Held' = Held
    BY <2>2 DEF Taken, Held
  <2>7. QED
    BY <1>1, <1>2, <1>4, <1>6, <1>7, <2>2, <2>5, <2>6, OnceSame
<1>12. ASSUME NEW n \in Names, NoSuchFile(n) \/ WriteNode(n) \/ WriteLink(n)
       PROVE  OnceFor(i)'
  <2>1. PICK e, f, g : /\ e = Entry(n, 0) /\ f = [Entry(n, 1) EXCEPT !.body = 1]
                       /\ g = Entry(n, 1)
    OBVIOUS
  <2>2. /\ e \in Entries /\ f \in Entries /\ g \in Entries
        /\ e.name = n /\ f.name = n /\ g.name = n /\ e.size = 0
    BY <2>1 DEF Entry, Entries
  <2>3. /\ HasName(n) /\ UNCHANGED <<deferments, phase>> /\ at' \in {at, at + 1}
        /\ \/ archive' = archive
           \/ archive' = Append(archive, e)
           \/ archive' \in {Append(archive, f), Append(archive, g)} /\ kind[inode[n]] = "lnk"
    BY <1>12, <2>1, Zenon DEF NoSuchFile, WriteNode, WriteLink
  <2>4. phase = "list" /\ phase' = "list"
    BY <2>3 DEF HasName
  <2>5. Taken' \in {Taken, at}
    BY <2>3, <2>4, CountsOfState DEF Taken
  <2>6. archive \in Seq(Entries)
    BY CountsOfState
  <2>7. kind[inode[n]] = "lnk" => inode[n] # i
    BY <1>2 DEF Complete
  <2>8. /\ Count(Append(archive, e), DataOf(i)) = Contents(i) + One(e, DataOf(i))
        /\ Count(Append(archive, f), DataOf(i)) = Contents(i) + One(f, DataOf(i))
        /\ Count(Append(archive, g), DataOf(i)) = Contents(i) + One(g, DataOf(i))
    BY <2>2, <2>6, ContentsAppend DEF Contents
  <2>9. /\ One(e, DataOf(i)) = 0
        /\ kind[inode[n]] = "lnk" => One(f, DataOf(i)) = 0 /\ One(g, DataOf(i)) = 0
    BY <2>2, <2>7, DataOfEntry
  <2>10. Count(archive', DataOf(i)) = Contents(i)
    <3>1. CASE archive' = archive
      BY <3>1 DEF Contents
    <3>2. CASE archive' = Append(archive, e)
      BY <2>8, <2>9, <3>2, ContentsOfState
    <3>3. CASE archive' \in {Append(archive, f), Append(archive, g)} /\ kind[inode[n]] = "lnk"
      <4>1. /\ Count(Append(archive, f), DataOf(i)) = Contents(i)
            /\ Count(Append(archive, g), DataOf(i)) = Contents(i)
        BY <2>8, <2>9, <3>3, ContentsOfState
      <4>2. QED
        BY <3>3, <4>1
    <3>4. QED
      BY <2>3, <3>1, <3>2, <3>3
  <2>11. Contents(i)' = Contents(i)
    BY <1>3, <2>10 DEF Contents
  <2>12. Deferred(i)' = Deferred(i)
    BY <1>4, <2>3
  <2>13. QED
    BY <1>1, <1>2, <2>3, <2>4, <2>5, <2>11, <2>12, OnceRead
<1>13. ASSUME NEW n \in Names, DeferLink(n) PROVE OnceFor(i)'
  <2>1. /\ HasName(n) /\ UNCHANGED <<archive, phase>> /\ at' = at + 1
        /\ deferments' = <<n>> \o deferments
    BY <1>13 DEF DeferLink
  <2>2. phase = "list" /\ phase' = "list" /\ Taken' = at
    BY <2>1, CountsOfState DEF HasName, Taken
  <2>3. Deferred(i)' = Deferred(i) + (IF inode[n] = i THEN 1 ELSE 0)
    BY <1>3, <2>1, DeferredFront DEF Deferred
  <2>4. QED
    BY <1>1, <1>2, <1>5, <2>1, <2>2, <2>3, OnceRead
<1>14. ASSUME NEW n \in Names, StartFile(n) PROVE OnceFor(i)'
  BY <1>2, <1>14, OnceStarted
<1>15. ASSUME NEW n \in Names, FinalLink(n) \/ FinalFile(n) PROVE OnceFor(i)'
  BY <1>2, <1>15, OnceFinal DEF Complete
<1>16. CASE UNCHANGED vars
  BY <1>1, <1>2, <1>4, <1>5, <1>6, <1>7, <1>16, OnceSame DEF vars, Taken, Held
<1>17. QED
  BY <1>8, <1>9, <1>10, <1>11, <1>12, <1>13, <1>14, <1>15, <1>16 DEF Next, ForName

LEMMA OnceSays ==
  ASSUME TypeOK, Once
  PROVE  ContentsOnce
<1>1. archive \in Seq(Entries) /\ \A k \in 1 .. Len(archive) : archive[k] \in Entries
  <2>1. archive \in Seq(Entries)
    BY DEF TypeOK, Entries
  <2>2. QED
    BY <2>1
<1>2. ASSUME NEW i PROVE Cardinality(WithData(i)) = Contents(i)
  <2>1. WithData(i) = Positions(archive, 1, Len(archive), DataOf(i))
    BY <1>1 DEF WithData, Positions, DataOf
  <2>2. QED
    BY <2>1 DEF Contents, Count, Between
<1>3. QED
  BY <1>2 DEF ContentsOnce, Once, Complete, OnceFor

-------------------------------------------------------------------------------
(* Every link in the archive is followed by the contents of its file.      *)
Follows(s, i) ==
  \A k \in 1 .. Len(s) : inode[s[k].name] = i =>
    \E j \in k .. Len(s) : inode[s[j].name] = i /\ s[j].size > 0

LEMMA FollowsLast ==
  ASSUME NEW s \in Seq(Entries), NEW e \in Entries, NEW i, inode[e.name] = i, e.size > 0
  PROVE  Follows(s \o << e >>, i)
<1>1. PICK u : u = s \o << e >>
  OBVIOUS
<1>2. Len(s) \in Nat /\ Len(u) = Len(s) + 1 /\ u[Len(s) + 1] = e
  BY <1>1
<1>3. ASSUME NEW k \in 1 .. Len(u)
      PROVE  \E j \in k .. Len(u) : inode[u[j].name] = i /\ u[j].size > 0
  <2>1. Len(s) + 1 \in k .. Len(u)
    BY <1>2
  <2>2. QED
    BY <1>2, <2>1
<1>4. QED
  BY <1>1, <1>3 DEF Follows

LEMMA FollowsOthers ==
  ASSUME NEW s \in Seq(Entries), NEW t \in Seq(Entries), NEW i, Follows(s, i),
         \A k \in 1 .. Len(t) : inode[t[k].name] # i
  PROVE  Follows(s \o t, i)
<1>1. PICK u : u = s \o t
  OBVIOUS
<1>2. /\ Len(s) \in Nat /\ Len(t) \in Nat /\ Len(u) = Len(s) + Len(t)
      /\ \A k \in 1 .. Len(s) : u[k] = s[k]
      /\ \A k \in Len(s) + 1 .. Len(u) : u[k] = t[k - Len(s)] /\ k - Len(s) \in 1 .. Len(t)
  BY <1>1
<1>3. ASSUME NEW k \in 1 .. Len(u), inode[u[k].name] = i
      PROVE  \E j \in k .. Len(u) : inode[u[j].name] = i /\ u[j].size > 0
  <2>1. k \in 1 .. Len(s) /\ inode[s[k].name] = i
    BY <1>2, <1>3
  <2>2. PICK j \in k .. Len(s) : inode[s[j].name] = i /\ s[j].size > 0
    BY <2>1 DEF Follows
  <2>3. j \in k .. Len(u) /\ u[j] = s[j]
    BY <1>2, <2>1, <2>2
  <2>4. QED
    BY <2>2, <2>3
<1>4. QED
  BY <1>1, <1>3 DEF Follows

LEMMA FollowsOne ==
  ASSUME NEW s \in Seq(Entries), NEW e \in Entries, NEW i, Follows(s, i), inode[e.name] # i
  PROVE  Follows(Append(s, e), i)
<1>1. << e >> \in Seq(Entries) /\ \A k \in 1 .. Len(<< e >>) : << e >>[k] = e
  OBVIOUS
<1>2. \A k \in 1 .. Len(<< e >>) : inode[<< e >>[k].name] # i
  BY <1>1
<1>3. Follows(s \o << e >>, i)
  BY <1>1, <1>2, FollowsOthers
<1>4. Append(s, e) = s \o << e >>
  OBVIOUS
<1>5. QED
  BY <1>3, <1>4

LEMMA FollowsGrown ==
  ASSUME TypeOK, NEW n \in Nat, Len(archive) > 0, NEW i, Follows(archive, i)
  PROVE  Follows(Grown(n), i)
<1>1. PICK g : g = Grown(n)
  OBVIOUS
<1>2. /\ Len(g) = Len(archive)
      /\ \A k \in 1 .. Len(archive) : g[k].name = archive[k].name /\ g[k].size = archive[k].size
  BY <1>1, GrownType
<1>3. Len(archive) \in Nat
  BY DEF TypeOK
<1>4. ASSUME NEW k \in 1 .. Len(g), inode[g[k].name] = i
      PROVE  \E j \in k .. Len(g) : inode[g[j].name] = i /\ g[j].size > 0
  <2>1. PICK j \in k .. Len(archive) : inode[archive[j].name] = i /\ archive[j].size > 0
    BY <1>2, <1>4 DEF Follows
  <2>2. j \in 1 .. Len(archive)
    BY <1>2, <1>3, <2>1
  <2>3. QED
    BY <1>2, <2>1, <2>2
<1>5. QED
  BY <1>1, <1>4 DEF Follows

(* The deferred links that are written with a file are links of that file. *)
LEMMA PrecedingLinks ==
  ASSUME TypeOK, NEW n \in Names, NEW i \in Inodes, Told(i), inode[n] # i
  PROVE  \A k \in 1 .. Len(Preceding(n)) : inode[Preceding(n)[k].name] # i
<1>1. CASE IsLinked(n)
  <2>1. PICK o : o = OtherDefers(n)
    OBVIOUS
  <2>2. deferments \in Seq(Names)
    BY DEF TypeOK
  <2>3. o = Among(deferments, LinksTo(inode[n]))
    BY <2>1 DEF OtherDefers
  <2>4. PICK rest : rest = Names \ LinksTo(inode[n])
    OBVIOUS
  <2>5. o \in Seq(Names) /\ Count(o, rest) = Count(deferments, LinksTo(inode[n]) \cap rest)
    BY <2>2, <2>3, AmongCounts
  <2>6. Count(deferments, LinksTo(inode[n]) \cap rest) = 0
    <3>1. LinksTo(inode[n]) \cap rest = {}
      BY <2>4
    <3>2. Positions(deferments, 1, Len(deferments), {}) = {}
      BY DEF Positions
    <3>3. QED
      BY <3>1, <3>2, FS_EmptySet DEF Count, Between
  <2>7. Positions(o, 1, Len(o), rest) = {}
    <3>1. Len(o) \in Int /\ 1 \in Int
      BY <2>5
    <3>2. IsFiniteSet(Positions(o, 1, Len(o), rest))
      BY <3>1, BetweenType
    <3>3. QED
      BY <2>5, <2>6, <3>2, FS_EmptySet DEF Count, Between
  <2>8. \A k \in 1 .. Len(o) : o[k] \in Names /\ inode[o[k]] # i
    <3>1. \A k \in 1 .. Len(o) : o[k] \in Names /\ o[k] \notin rest
      BY <2>5, <2>7 DEF Positions
    <3>2. Identified(i) /\ inode[n] \in Inodes
      BY <1>1 DEF Told, IsLinked, TypeOK
    <3>3. LinksTo(inode[n]) \cap LinksOf(i) = {}
      BY <3>2, LinksOfOther
    <3>4. QED
      BY <2>4, <3>1, <3>3 DEF LinksOf
  <2>9. Preceding(n) = [k \in 1 .. Len(o) |-> Entry(o[k], 0)]
    BY <1>1, <2>1 DEF Preceding, HeadersOf
  <2>10. PICK p : p = Preceding(n)
    OBVIOUS
  <2>11. Len(p) = Len(o) /\ \A k \in 1 .. Len(o) : p[k] = Entry(o[k], 0)
    <3>1. Len(o) \in Nat
      BY <2>5
    <3>2. p = [k \in 1 .. Len(o) |-> Entry(o[k], 0)]
      BY <2>9, <2>10
    <3>3. QED
      BY <3>1, <3>2
  <2>12. \A k \in 1 .. Len(o) : p[k].name = o[k]
    BY <2>8, <2>11, EntryType
  <2>13. QED
    BY <2>8, <2>10, <2>11, <2>12
<1>2. CASE ~IsLinked(n)
  <2>1. Preceding(n) = << >>
    BY <1>2 DEF Preceding
  <2>2. QED
    BY <2>1
<1>3. QED
  BY <1>1, <1>2

(* As long as nothing was given up: the links of a file come in groups of  *)
(* nlink, of which the last, incomplete one is deferred, and each link in  *)
(* the archive is followed by the contents of the file.  After the list    *)
(* that holds only of files with at most one deferred link.                *)
Linked(i) == deferring /\ 1 < nlink[i]
Groups(i) == \E q \in Nat : ReadLinks(i) = q * nlink[i] + Deferred(i)
FollowFor(i) ==
  /\ phase \in {"list", "copy"} \/ Deferred(i) <= 1 => Follows(archive, i)
  /\ Linked(i) => Groups(i)
  /\ ~Linked(i) => Deferred(i) = 0
Follow == dropped = << >> =>
            \A i \in Inodes : size[i] > 0 /\ Told(i) => FollowFor(i)
OnlyFilesHaveSize == \A i \in Inodes : kind[i] # "reg" => size[i] = 0

LEMMA DroppedGrows ==
  ASSUME TypeOK, NEW n \in Names
  PROVE  Append(dropped, n) # << >>
<1>1. dropped \in Seq(Names)
  BY DEF TypeOK
<1>2. Len(Append(dropped, n)) = Len(dropped) + 1 /\ Len(dropped) \in Nat
  BY <1>1
<1>3. Len(Append(dropped, n)) # Len(<< >>)
  BY <1>2
<1>4. QED
  BY <1>3, Zenon

LEMMA FollowSame ==
  ASSUME NEW i, FollowFor(i), UNCHANGED files, UNCHANGED deferments, Taken' = Taken,
         Follows(archive, i) => Follows(archive', i),
         phase' \in {"list", "copy"} => phase \in {"list", "copy"}
  PROVE  FollowFor(i)'
<1>1. inode' = inode /\ nlink' = nlink /\ list' = list /\ deferring' = deferring
  BY DEF files
<1>2. LinksOf(i)' = LinksOf(i)
  BY <1>1 DEF LinksOf
<1>3. Deferred(i)' = Deferred(i) /\ ReadLinks(i)' = ReadLinks(i)
  BY <1>1, <1>2 DEF Deferred, ReadLinks
<1>4. Follows(archive, i)' <=> Follows(archive', i)
  BY <1>1 DEF Follows
<1>5. (Linked(i)' <=> Linked(i)) /\ (Groups(i)' <=> Groups(i))
  BY <1>1, <1>3 DEF Linked, Groups
<1>6. CASE phase' \in {"list", "copy"} \/ Deferred(i) <= 1
  BY <1>3, <1>4, <1>5, <1>6 DEF FollowFor
<1>7. CASE ~(phase' \in {"list", "copy"} \/ Deferred(i) <= 1)
  BY <1>3, <1>4, <1>5, <1>7 DEF FollowFor
<1>8. QED
  BY <1>6, <1>7

(* A name of the list that is not of the file i.                           *)
LEMMA FollowOther ==
  ASSUME TypeOK, Place, NEW i \in Inodes, FollowFor(i), NEW n \in Names, HasName(n),
         inode[n] # i, UNCHANGED files, Taken' \in {Taken, at}, Deferred(i)' = Deferred(i),
         Follows(archive', i)
  PROVE  FollowFor(i)'
<1>1. inode' = inode /\ nlink' = nlink /\ list' = list /\ deferring' = deferring
  BY DEF files
<1>2. ReadLinks(i)' = ReadLinks(i)
  <2>1. CASE Taken' = at
    <3>1. ReadLinks(i)' = ReadLinks(i) + (IF inode[n] = i THEN 1 ELSE 0)
      BY <1>1, <2>1, OneMoreRead
    <3>2. QED
      BY <3>1, ContentsOfState
  <2>2. CASE Taken' = Taken
    BY <1>1, <2>2 DEF ReadLinks, LinksOf
  <2>3. QED
    BY <2>1, <2>2
<1>3. Follows(archive, i)'
  BY <1>1 DEF Follows
<1>4. (Linked(i)' <=> Linked(i)) /\ (Groups(i)' <=> Groups(i))
  BY <1>1, <1>2 DEF Linked, Groups
<1>5. QED
  BY <1>3, <1>4 DEF FollowFor

LEMMA FollowDeferred ==
  ASSUME TypeOK, Place, NEW i \in Inodes, FollowFor(i), NEW n \in Names, DeferLink(n)
  PROVE  FollowFor(i)'
<1>1. /\ HasName(n) /\ UNCHANGED <<archive, phase>> /\ at' = at + 1 /\ IsLinked(n)
      /\ deferments' = <<n>> \o deferments /\ UNCHANGED files
  BY DEF DeferLink
<1>2. /\ phase = "list" /\ phase' = "list" /\ Taken' = at
      /\ inode' = inode /\ nlink' = nlink /\ list' = list /\ deferring' = deferring
  BY <1>1, CountsOfState DEF HasName, Taken, files
<1>3. Deferred(i)' = Deferred(i) + (IF inode[n] = i THEN 1 ELSE 0)
  <2>1. LinksOf(i)' = LinksOf(i)
    BY <1>2 DEF LinksOf
  <2>2. QED
    BY <1>1, <2>1, DeferredFront DEF Deferred
<1>4. Follows(archive, i)
  BY <1>2 DEF FollowFor
<1>5. Follows(archive', i)
  BY <1>1, <1>4
<1>6. CASE inode[n] # i
  <2>1. Deferred(i)' = Deferred(i)
    BY <1>3, <1>6, ContentsOfState
  <2>2. QED
    BY <1>1, <1>2, <1>5, <1>6, <2>1, FollowOther
<1>7. CASE inode[n] = i
  <2>1. Linked(i)
    BY <1>1, <1>7 DEF IsLinked, Linked
  <2>2. PICK q \in Nat : ReadLinks(i) = q * nlink[i] + Deferred(i)
    BY <2>1 DEF FollowFor, Groups
  <2>3. PICK d, r : d = Deferred(i)' /\ r = ReadLinks(i)'
    OBVIOUS
  <2>4. d = Deferred(i) + 1
    BY <1>3, <1>7, <2>3
  <2>5. r = ReadLinks(i) + 1
    <3>1. ReadLinks(i)' = ReadLinks(i) + (IF inode[n] = i THEN 1 ELSE 0)
      BY <1>1, <1>2, OneMoreRead
    <3>2. QED
      BY <1>7, <2>3, <3>1
  <2>6. PICK p : p = q * nlink[i]
    OBVIOUS
  <2>7. p \in Int
    BY <2>6, ContentsOfState
  <2>8. r = p + d
    BY <2>2, <2>4, <2>5, <2>6, <2>7, ContentsOfState
  <2>9. Groups(i)'
    BY <1>2, <2>3, <2>6, <2>8 DEF Groups
  <2>10. Follows(archive, i)' /\ (Linked(i)' <=> Linked(i))
    BY <1>2, <1>5 DEF Follows, Linked
  <2>11. QED
    BY <2>1, <2>9, <2>10 DEF FollowFor
<1>8. QED
  BY <1>6, <1>7

LEMMA FollowStarted ==
  ASSUME TypeOK, Place, NEW i \in Inodes, FollowFor(i), size[i] > 0, Told(i),
         NEW n \in Names, StartFile(n), dropped' = << >>
  PROVE  FollowFor(i)'
<1>1. PICK before, e : before = Preceding(n) /\ e = Entry(n, size[inode[n]])
  OBVIOUS
<1>2. Append(dropped, n) # << >>
  BY DroppedGrows
<1>3. /\ HasName(n) /\ deferments' = Kept(n) /\ UNCHANGED files
      /\ IsLinked(n) => LastLink(n)
      /\ archive' = archive \o before \o << e >> /\ phase' = "copy" /\ at' = at
  BY <1>1, <1>2, Zenon DEF StartFile
<1>4. /\ Taken' = at /\ phase = "list"
      /\ inode' = inode /\ nlink' = nlink /\ list' = list /\ deferring' = deferring
  BY <1>3 DEF Taken, HasName, files
<1>5. size[inode[n]] \in Nat /\ archive \in Seq(Entries)
  BY FileTypes, CountsOfState
<1>6. e \in Entries /\ e.name = n /\ e.size = size[inode[n]]
  BY <1>1, <1>5, EntryType
<1>7. before \in Seq(Entries)
  BY <1>1, GroupMoves
<1>8. PICK s : s = archive \o before
  OBVIOUS
<1>9. s \in Seq(Entries)
  BY <1>5, <1>7, <1>8
<1>10. archive' = s \o << e >>
  BY <1>3, <1>8
<1>11. Deferred(i)' = IF IsLinked(n) /\ i = inode[n] THEN 0 ELSE Deferred(i)
  <2>1. LinksOf(i)' = LinksOf(i)
    BY <1>4 DEF LinksOf
  <2>2. Deferred(i)' = Count(Kept(n), LinksOf(i))
    BY <1>3, <2>1 DEF Deferred
  <2>3. QED
    BY <2>2, GroupMoves DEF Deferred
<1>12. CASE inode[n] # i
  <2>1. Follows(archive, i)
    BY <1>4 DEF FollowFor
  <2>2. \A k \in 1 .. Len(before) : inode[before[k].name] # i
    BY <1>1, <1>12, PrecedingLinks
  <2>3. Follows(s, i)
    BY <1>5, <1>7, <1>8, <2>1, <2>2, FollowsOthers
  <2>4. Follows(Append(s, e), i)
    BY <1>6, <1>9, <1>12, <2>3, FollowsOne
  <2>5. Append(s, e) = s \o << e >>
    BY <1>6, <1>9
  <2>6. Follows(archive', i)
    BY <1>10, <2>4, <2>5
  <2>7. QED
    BY <1>3, <1>4, <1>11, <1>12, <2>6, FollowOther
<1>13. CASE inode[n] = i
  <2>1. Follows(archive', i)
    BY <1>6, <1>9, <1>10, <1>13, FollowsLast
  <2>2. Follows(archive, i)' /\ (Linked(i)' <=> Linked(i))
    BY <1>4, <2>1 DEF Follows, Linked
  <2>3. CASE Linked(i)
    <3>1. IsLinked(n) /\ Deferred(i)' = 0
      BY <1>11, <1>13, <2>3 DEF IsLinked, Linked
    <3>2. nlink[i] = Deferred(i) + 1
      BY <1>3, <1>13, <2>3, <3>1, DeferredCount DEF LastLink, Deferred, Told, Linked
    <3>3. PICK q \in Nat : ReadLinks(i) = q * nlink[i] + Deferred(i)
      BY <2>3 DEF FollowFor, Groups
    <3>4. ReadLinks(i)' = ReadLinks(i) + 1
      <4>1. ReadLinks(i)' = ReadLinks(i) + (IF inode[n] = i THEN 1 ELSE 0)
        BY <1>3, <1>4, OneMoreRead
      <4>2. QED
        BY <1>13, <4>1
    <3>5. (q + 1) * nlink[i] = q * nlink[i] + nlink[i] /\ q * nlink[i] \in Int
      <4>1. PICK m \in Int : m = nlink[i]
        BY ContentsOfState
      <4>2. (q + 1) * m = q * m + m /\ q * m \in Int
        OBVIOUS
      <4>3. QED
        BY <4>1, <4>2
    <3>6. PICK p : p = q * nlink[i]
      OBVIOUS
    <3>7. ReadLinks(i) + 1 = (q + 1) * nlink[i]
      BY <3>2, <3>3, <3>5, <3>6, ContentsOfState
    <3>8. q + 1 \in Nat /\ (q + 1) * nlink[i] + 0 = (q + 1) * nlink[i]
      BY ContentsOfState
    <3>9. Groups(i)'
      BY <1>4, <3>1, <3>4, <3>7, <3>8 DEF Groups
    <3>10. QED
      BY <2>2, <2>3, <3>9 DEF FollowFor
  <2>4. CASE ~Linked(i)
    <3>1. Deferred(i)' = 0
      BY <1>11, <2>4 DEF FollowFor
    <3>2. QED
      BY <2>2, <2>4, <3>1 DEF FollowFor
  <2>5. QED
    BY <2>3, <2>4
<1>14. QED
  BY <1>12, <1>13

LEMMA FollowFinal ==
  ASSUME TypeOK, Place, NEW i \in Inodes, FollowFor(i), size[i] > 0, Told(i),
         NEW n \in Names, FinalLink(n) \/ FinalFile(n)
  PROVE  FollowFor(i)'
<1>1. PICK e, f : e = Entry(n, 0) /\ f = Entry(n, size[inode[n]])
  OBVIOUS
<1>2. /\ HasFinal(n) /\ UNCHANGED files /\ deferments' = deferments /\ at' = at
      /\ phase' \in {"final", "copyfinal"}
      /\ \/ archive' = Append(archive, e) /\ ~AloneDeferred(n)
         \/ archive' = Append(archive, f)
         \/ archive' = archive
  BY <1>1, Zenon DEF FinalLink, FinalFile, HasFinal
<1>3. size[inode[n]] \in Nat /\ archive \in Seq(Entries)
  BY FileTypes, CountsOfState
<1>4. /\ e \in Entries /\ e.name = n
      /\ f \in Entries /\ f.name = n /\ f.size = size[inode[n]]
  BY <1>1, <1>3, EntryType
<1>5. /\ phase = "final" /\ n = deferments[final] /\ final <= Len(deferments)
      /\ Taken' = Taken
      /\ inode' = inode /\ nlink' = nlink /\ list' = list /\ deferring' = deferring
  BY <1>2 DEF HasFinal, Taken, files
<1>6. CASE Follows(archive, i) => Follows(archive', i)
  BY <1>2, <1>5, <1>6, FollowSame
<1>7. CASE archive' = archive
  BY <1>6, <1>7
<1>8. CASE archive' = Append(archive, f)
  <2>1. CASE inode[n] = i
    <3>1. Append(archive, f) = archive \o << f >>
      BY <1>3, <1>4
    <3>2. Follows(archive \o << f >>, i)
      BY <1>3, <1>4, <2>1, FollowsLast
    <3>3. QED
      BY <1>6, <1>8, <3>1, <3>2
  <2>2. CASE inode[n] # i
    BY <1>3, <1>4, <1>6, <1>8, <2>2, FollowsOne
  <2>3. QED
    BY <2>1, <2>2
<1>9. CASE archive' = Append(archive, e) /\ ~AloneDeferred(n)
  <2>1. CASE inode[n] # i
    BY <1>3, <1>4, <1>6, <1>9, <2>1, FollowsOne
  <2>2. CASE inode[n] = i
    <3>2. Deferred(i) >= 1
      <4>1. Between(deferments, final, final, LinksOf(i))
              = One(deferments[final], LinksOf(i)) + Between(deferments, final + 1, final, LinksOf(i))
        BY BetweenFirst, CountsOfState
      <4>2. Between(deferments, final + 1, final, LinksOf(i)) = 0
        BY BetweenNone, CountsOfState
      <4>3. One(deferments[final], LinksOf(i)) = 1
        BY <1>5, <2>2 DEF One, LinksOf
      <4>4. Between(deferments, final, final, LinksOf(i)) <= Deferred(i)
        BY <1>5, BetweenWithin, CountsOfState DEF Deferred, Count
      <4>5. QED
        BY <4>1, <4>2, <4>3, <4>4, ContentsOfState
    <3>1. Deferred(i) # 1
      <4>1. Deferred(i) # 0
        BY <3>2, ContentsOfState
      <4>2. Identified(i)
        BY <4>1 DEF FollowFor, Linked, Told
      <4>3. QED
        BY <1>2, <1>9, <2>2, <4>2, AloneCount DEF Deferred
    <3>3. ~(Deferred(i) <= 1)
      BY <3>1, <3>2, ContentsOfState
    <3>4. LinksOf(i)' = LinksOf(i)
      BY <1>5 DEF LinksOf
    <3>5. Deferred(i)' = Deferred(i) /\ ReadLinks(i)' = ReadLinks(i)
      BY <1>2, <1>5, <3>4 DEF Deferred, ReadLinks
    <3>6. (Linked(i)' <=> Linked(i)) /\ (Groups(i)' <=> Groups(i))
      BY <1>5, <3>5 DEF Linked, Groups
    <3>7. QED
      BY <1>2, <3>3, <3>5, <3>6 DEF FollowFor
  <2>3. QED
    BY <2>1, <2>2
<1>10. QED
  BY <1>2, <1>7, <1>8, <1>9

LEMMA NothingDropped ==
  ASSUME TypeOK, [Next]_vars, dropped' = << >>
  PROVE  dropped = << >>
<1>1. \A n \in Names : Append(dropped, n) # << >>
  BY DroppedGrows
<1>2. dropped' = dropped \/ \E n \in Names : dropped' = Append(dropped, n)
  BY DEF Next, ForName, EndOfNames, NoSuchFile, WriteNode, WriteLink, DeferLink, StartFile,
         CopyPiece, PadWithNuls, Copied, FinalLink, FinalFile, Trailer, vars
<1>3. QED
  BY <1>1, <1>2

LEMMA FollowStep ==
  ASSUME TypeOK, Place, OnlyFilesHaveSize, Follow, [Next]_vars
  PROVE  Follow'
<1>1. UNCHANGED files
  BY FilesStay
<1>2. SUFFICES ASSUME dropped' = << >>, NEW i \in Inodes, size[i] > 0, Told(i), FollowFor(i)
               PROVE  FollowFor(i)'
  <2>1. \A i : Told(i)' <=> Told(i)
    BY <1>1 DEF Told, Identified, files
  <2>2. QED
    BY <1>1, <2>1, NothingDropped DEF Follow, files
<1>3. CASE EndOfNames \/ Trailer
  <2>1. /\ UNCHANGED <<archive, deferments, at>> /\ phase \in {"list", "final"}
        /\ phase' \in {"final", "done"}
    BY <1>3 DEF EndOfNames, Trailer
  <2>2. Taken' = Taken
    BY <2>1 DEF Taken
  <2>3. QED
    BY <1>1, <1>2, <2>1, <2>2, FollowSame
<1>4. CASE Copied
  <2>1. /\ UNCHANGED <<archive, deferments>>
        /\ \/ phase = "copy" /\ phase' = "list" /\ at' = at + 1
           \/ phase = "copyfinal" /\ phase' = "final" /\ at' = at
    BY <1>4 DEF Copied, Copying
  <2>2. Taken' = Taken
    BY <2>1, CountsOfState DEF Taken
  <2>3. QED
    BY <1>1, <1>2, <2>1, <2>2, FollowSame
<1>5. CASE CopyPiece \/ PadWithNuls
  <2>1. PICK m \in Nat : archive' = Grown(m)
    BY <1>5 DEF CopyPiece, PadWithNuls, TypeOK
  <2>2. Copying /\ UNCHANGED <<at, deferments, phase>>
    BY <1>5 DEF CopyPiece, PadWithNuls
  <2>3. Len(archive) > 0
    BY <2>2 DEF Place, Copying
  <2>4. Follows(archive, i) => Follows(archive', i)
    BY <2>1, <2>3, FollowsGrown
  <2>5. Taken' = Taken
    BY <2>2 DEF Taken
  <2>6. QED
    BY <1>1, <1>2, <2>2, <2>4, <2>5, FollowSame
<1>6. ASSUME NEW n \in Names, NoSuchFile(n) \/ WriteNode(n) \/ WriteLink(n)
      PROVE  FollowFor(i)'
  <2>1. PICK e, f, g : /\ e = Entry(n, 0) /\ f = [Entry(n, 1) EXCEPT !.body = 1]
                       /\ g = Entry(n, 1)
    OBVIOUS
  <2>2. /\ e \in Entries /\ f \in Entries /\ g \in Entries
        /\ e.name = n /\ f.name = n /\ g.name = n
    BY <2>1 DEF Entry, Entries
  <2>3. dropped = << >> /\ Append(dropped, n) # << >>
    BY <1>2, NothingDropped, DroppedGrows
  <2>4. /\ HasName(n) /\ UNCHANGED <<deferments, phase>> /\ at' \in {at, at + 1}
        /\ archive' \in {archive, Append(archive, e), Append(archive, f), Append(archive, g)}
        /\ kind[inode[n]] # "reg"
    BY <1>2, <1>6, <2>1, <2>3, Zenon DEF NoSuchFile, WriteNode, WriteLink
  <2>5. phase = "list" /\ phase' = "list" /\ Taken' \in {Taken, at}
    BY <2>4, CountsOfState DEF HasName, Taken
  <2>6. inode[n] # i
    <3>1. size[inode[n]] = 0
      BY <2>4, FileTypes DEF OnlyFilesHaveSize
    <3>2. QED
      BY <1>2, <3>1
  <2>7. archive \in Seq(Entries)
    BY CountsOfState
  <2>8. Follows(archive, i)
    BY <1>2, <2>5 DEF FollowFor
  <2>9. /\ Follows(Append(archive, e), i) /\ Follows(Append(archive, f), i)
        /\ Follows(Append(archive, g), i)
    BY <2>2, <2>6, <2>7, <2>8, FollowsOne
  <2>10. Follows(archive', i)
    BY <2>4, <2>8, <2>9
  <2>11. Deferred(i)' = Deferred(i)
    BY <1>1, <2>4 DEF Deferred, LinksOf, files
  <2>12. QED
    BY <1>1, <1>2, <2>4, <2>5, <2>6, <2>10, <2>11, FollowOther
<1>7. ASSUME NEW n \in Names, DeferLink(n) PROVE FollowFor(i)'
  BY <1>2, <1>7, FollowDeferred
<1>8. ASSUME NEW n \in Names, StartFile(n) PROVE FollowFor(i)'
  BY <1>2, <1>8, FollowStarted
<1>9. ASSUME NEW n \in Names, FinalLink(n) \/ FinalFile(n) PROVE FollowFor(i)'
  BY <1>2, <1>9, FollowFinal
<1>10. CASE UNCHANGED vars
  BY <1>1, <1>2, <1>10, FollowSame DEF vars, Taken
<1>11. QED
  BY <1>3, <1>4, <1>5, <1>6, <1>7, <1>8, <1>9, <1>10 DEF Next, ForName

(* What is left of a number of links after whole groups of n.              *)
LEMMA Remainder ==
  ASSUME NEW q \in Nat, NEW n \in Nat \ {0}, NEW d \in Nat, d < n
  PROVE  (q * n + d) % n = d
<1>1. PICK t : t = q * n + d
  OBVIOUS
<1>2. q * n \in Nat /\ t \in Nat
  BY <1>1
<1>3. QED
  BY <1>1, <1>2

LEMMA FollowSays ==
  ASSUME TypeOK, Place, Below, Follow
  PROVE  CompleteGroupsHaveContents
<1>1. SUFFICES ASSUME phase = "done", dropped = << >>, at > Len(list), NEW i \in Inodes,
                      ~deferring \/ (Identified(i) /\ Listed(i) % nlink[i] <= 1)
               PROVE  ContentsFollow(i)
  BY DEF CompleteGroupsHaveContents
<1>2. CASE ~(size[i] > 0)
  BY <1>2 DEF ContentsFollow
<1>3. CASE size[i] > 0
  <2>1. FollowFor(i)
    BY <1>1, <1>3 DEF Follow, Told
  <2>2. Deferred(i) <= 1
    <3>1. CASE ~Linked(i)
      BY <2>1, <3>1 DEF FollowFor
    <3>2. CASE Linked(i)
      <4>1. PICK q \in Nat : ReadLinks(i) = q * nlink[i] + Deferred(i)
        BY <2>1, <3>2 DEF FollowFor, Groups
      <4>2. Taken = Len(list)
        <5>1. at \in 1 .. Len(list) + 1 /\ Len(list) \in Nat
          BY DEF Place, TypeOK
        <5>2. QED
          BY <1>1, <5>1 DEF Taken
      <4>3. Listed(i) = ReadLinks(i)
        BY <4>2, ListedCount DEF ReadLinks
      <4>4. Deferred(i) < nlink[i]
        BY <1>1, <3>2 DEF Below, Deferred, Linked
      <4>5. Listed(i) % nlink[i] = Deferred(i)
        BY <4>1, <4>3, <4>4, ContentsOfState, Remainder
      <4>6. QED
        BY <1>1, <3>2, <4>5 DEF Linked
    <3>3. QED
      BY <3>1, <3>2
  <2>3. Follows(archive, i)
    BY <2>1, <2>2 DEF FollowFor
  <2>4. Len(archive) \in Nat
    BY DEF TypeOK
  <2>5. ASSUME NEW k \in 1 .. Len(archive), inode[archive[k].name] = i
        PROVE  \E j \in WithData(i) : j >= k
    <3>1. PICK j \in k .. Len(archive) : inode[archive[j].name] = i /\ archive[j].size > 0
      BY <2>3, <2>5 DEF Follows
    <3>2. j \in 1 .. Len(archive) /\ j >= k
      BY <2>4, <3>1
    <3>3. j \in WithData(i)
      BY <3>1, <3>2 DEF WithData
    <3>4. QED
      BY <3>2, <3>3
  <2>6. QED
    BY <2>5 DEF ContentsFollow
<1>4. QED
  BY <1>2, <1>3

-------------------------------------------------------------------------------
(* The inductive invariant.                                                *)
CopyOutInv == /\ TypeOK /\ Place /\ EntriesMatchHeaders /\ Accounted /\ Below /\ Once
              /\ OnlyFilesHaveSize /\ Follow

LEMMA InitInv == Init => CopyOutInv
<1> SUFFICES ASSUME Init PROVE CopyOutInv
  OBVIOUS
<1>1. TypeOK
  BY InitType
<1>2. /\ at = 1 /\ final = 1 /\ deferments = << >> /\ archive = << >> /\ dropped = << >>
      /\ phase = "list" /\ Len(deferments) = 0 /\ Len(archive) = 0
  BY DEF Init
<1>3. Place
  BY <1>1, <1>2 DEF Place, TypeOK
<1>4. EntriesMatchHeaders
  BY <1>2 DEF EntriesMatchHeaders
<1>5. \A T : Count(archive, T) = 0 /\ Count(dropped, T) = 0 /\ Count(deferments, T) = 0
  BY <1>2, CountEmpty
<1>6. Held = 1 /\ Taken = 0
  BY <1>2 DEF Held, Taken
<1>7. Accounted
  <2>1. \A m : Between(list, 1, Taken, {m}) = 0
    BY <1>6, BetweenNone
  <2>2. \A m : Between(deferments, Held, Len(deferments), {m}) = 0
    BY <1>5, <1>6 DEF Count
  <2>3. \A m : Placed(m) = 0
    BY <1>5, <2>2 DEF Placed
  <2>4. QED
    BY <2>1, <2>3 DEF Accounted
<1>8. Below
  BY <1>1, <1>5, CopyOutAssumption DEF Below, TypeOK
<1>9. Once
  <2>1. ASSUME NEW i \in Inodes PROVE OnceFor(i)
    <3>1. Contents(i) = 0 /\ Deferred(i) = 0
      BY <1>5 DEF Contents, Deferred
    <3>2. ReadLinks(i) \in Nat
      BY <1>1, <1>3, ContentsOfState
    <3>3. QED
      BY <1>2, <3>1, <3>2 DEF OnceFor
  <2>2. QED
    BY <2>1 DEF Once
<1>10. OnlyFilesHaveSize
  BY DEF Init, OnlyFilesHaveSize
<1>11. Follow
  <2>1. ASSUME NEW i \in Inodes PROVE FollowFor(i)
    <3>1. Deferred(i) = 0
      BY <1>5 DEF Deferred
    <3>2. ReadLinks(i) = 0
      BY <1>6, BetweenNone DEF ReadLinks
    <3>3. Follows(archive, i)
      BY <1>2 DEF Follows
    <3>4. 0 * nlink[i] + 0 = 0
      BY <1>1, <1>3, ContentsOfState
    <3>5. Groups(i)
      BY <3>1, <3>2, <3>4 DEF Groups
    <3>6. QED
      BY <3>1, <3>3, <3>5 DEF FollowFor
  <2>2. QED
    BY <2>1 DEF Follow
<1>12. QED
  BY <1>1, <1>3, <1>4, <1>7, <1>8, <1>9, <1>10, <1>11 DEF CopyOutInv

LEMMA InvStep == CopyOutInv /\ [Next]_vars => CopyOutInv'
<1> SUFFICES ASSUME CopyOutInv, [Next]_vars PROVE CopyOutInv'
  OBVIOUS
<1>1. /\ TypeOK /\ Place /\ EntriesMatchHeaders /\ Accounted /\ Below /\ Once
      /\ OnlyFilesHaveSize /\ Follow
  BY DEF CopyOutInv
<1>2. TypeOK' /\ Place' /\ EntriesMatchHeaders' /\ Accounted' /\ Below' /\ Once'
  BY <1>1, TypeStep, PlaceStep, MatchStep, AccountStep, BelowStep, OnceStep
<1>3. OnlyFilesHaveSize'
  BY <1>1, FilesStay DEF OnlyFilesHaveSize, files
<1>4. Follow'
  BY <1>1, FollowStep
<1>5. QED
  BY <1>2, <1>3, <1>4 DEF CopyOutInv

LEMMA InvHolds == Spec => []CopyOutInv
BY InitInv, InvStep, PTL DEF Spec

(* Every variable keeps its type: the size in a header and the bytes after *)
(* it are never negative, and only names of the list are archived.         *)
THEOREM TypeCorrect == Spec => []TypeOK
<1>1. CopyOutInv => TypeOK
  BY DEF CopyOutInv
<1>2. QED
  BY <1>1, InvHolds, PTL

(* Whatever happens to a file while it is copied, as many bytes follow its *)
(* header as the header announces, when the signed word holds its size:    *)
(* below 2 GiB.                                                            *)
THEOREM BodiesMatchHeaders == Spec => []EntriesMatchHeaders
<1>1. CopyOutInv => EntriesMatchHeaders
  BY DEF CopyOutInv
<1>2. QED
  BY <1>1, InvHolds, PTL

(* No name of the list is lost or repeated on its way through the          *)
(* deferments to the archive.                                              *)
THEOREM NamesAreAccounted == Spec => []EveryNameAccounted
<1>1. CopyOutInv => EveryNameAccounted
  BY AccountedSays DEF CopyOutInv
<1>2. QED
  BY <1>1, InvHolds, PTL

(* Of a file that its headers tell from all others, fewer links are        *)
(* deferred than it has: the last one is recognised.                       *)
THEOREM DeferredAreFewer == Spec => []DeferredBelowLinks
<1>1. CopyOutInv => DeferredBelowLinks
  BY BelowSays DEF CopyOutInv
<1>2. QED
  BY <1>1, InvHolds, PTL

(* With -c the contents of a file that its headers tell from all others,   *)
(* and whose links are listed once each, are stored once.                  *)
THEOREM ContentsStoredOnce == Spec => []ContentsOnce
<1>1. CopyOutInv => ContentsOnce
  BY OnceSays DEF CopyOutInv
<1>2. QED
  BY <1>1, InvHolds, PTL

(* When nothing was given up, the contents of a file are in the archive,   *)
(* after each of its links, when links are not deferred, or its headers    *)
(* tell it from all others and all its links are listed, or one is.        *)
THEOREM CompleteGroupsStored == Spec => []CompleteGroupsHaveContents
<1>1. CopyOutInv => CompleteGroupsHaveContents
  BY FollowSays DEF CopyOutInv
<1>2. QED
  BY <1>1, InvHolds, PTL
================================================================================
