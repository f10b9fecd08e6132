--------------------------- MODULE CorrectorProofs ---------------------------
(***************************************************************************)
(* Proofs about the histories, for every length of a history and its folded*)
(* copy, every set of branches and every trace; and about the statistical  *)
(* corrector, for every number and size of its tables, every width of its  *)
(* counters and every history.                                             *)
(*                                                                         *)
(* The histories: each is about the youngest of a set of numbers, those of *)
(* the branches it is kept for or those of their bits, and a new branch    *)
(* adds its number to these sets.  Folding is exclusive or, by which only  *)
(* the parity of the set of bits counts that fall on a place.              *)
(***************************************************************************)
EXTENDS Corrector, FiniteSetTheorems, TLAPS

-----------------------------------------------------------------------------
(* Remainders.                                                              *)

(* No multiple of n lies strictly between 0 and n.                          *)
LEMMA NoMultiple ==
  ASSUME NEW n \in Nat \ {0}, NEW k \in Int
  PROVE  ~(0 < n * k /\ n * k < n)
<1>1. CASE k <= 0
  <2>1. n * k <= 0  BY <1>1, SMT
  <2>. QED  BY <2>1
<1>2. CASE k >= 1
  <2>1. PICK m \in Nat : k = m + 1
    <3>1. k - 1 \in Nat /\ k = (k - 1) + 1  BY <1>2
    <3>. QED  BY <3>1
  <2>2. n * k = n * m + n /\ n * m \in Nat
    BY <2>1
  <2>. QED  BY <2>2
<1>. QED  BY <1>1, <1>2

(* Quotient and remainder.                                                  *)
LEMMA Division ==
  ASSUME NEW n \in Nat \ {0}, NEW x \in Int
  PROVE  x \div n \in Int /\ x % n \in 0 .. n - 1 /\ x = n * (x \div n) + (x % n)
OBVIOUS

(* Numbers that differ by less than n have different remainders.            *)
LEMMA NearRemainders ==
  ASSUME NEW n \in Nat \ {0}, NEW c \in Int, NEW d \in Int, c < d, d < c + n
  PROVE  d % n # c % n
<1>. DEFINE p == c \div n
            q == d \div n
<1>1. SUFFICES ASSUME d % n = c % n PROVE FALSE
  OBVIOUS
<1>2. p \in Int /\ q \in Int /\ c = n * p + (c % n) /\ d = n * q + (c % n) /\ c % n \in Int
  BY <1>1, Division
<1>. HIDE DEF p, q
<1>3. n * p \in Int /\ n * q \in Int /\ q - p \in Int
  BY <1>2
<1>4. n * (q - p) = n * q - n * p
  BY <1>2
<1>5. n * (q - p) = d - c
  BY <1>2, <1>3, <1>4
<1>. QED  BY <1>3, <1>5, NoMultiple

(* Numbers that leave the same remainder at a distance of n.                *)
LEMMA NextRemainder ==
  ASSUME NEW n \in Nat \ {0}, NEW x \in Nat
  PROVE  (x + 1) % n = IF x % n = n - 1 THEN 0 ELSE (x % n) + 1
<1>. DEFINE p == x \div n
            q == (x + 1) \div n
            a == x % n
            b == (x + 1) % n
<1>1. /\ p \in Int /\ a \in 0 .. n - 1 /\ x = n * p + a
      /\ q \in Int /\ b \in 0 .. n - 1 /\ x + 1 = n * q + b
  BY Division
<1>. HIDE DEF p, q, a, b
<1>2. /\ n * p \in Int /\ n * q \in Int /\ n * (q - p) = n * q - n * p
      /\ n * (p - q) = n * p - n * q /\ q - p \in Int /\ p - q \in Int
  BY <1>1
<1>3. n * (q - p) = a + 1 - b
  BY <1>1, <1>2
<1>4. CASE a = n - 1
  <2>1. n * (q - p) = n - b  BY <1>1, <1>3, <1>4
  <2>2. ~(0 < n - b /\ n - b < n)  BY <1>2, <2>1, NoMultiple
  <2>3. b = 0  BY <1>1, <2>2
  <2>. QED  BY <1>4, <2>3 DEF a, b
<1>5. CASE a # n - 1
  <2>1. ~(0 < a + 1 - b /\ a + 1 - b < n)  BY <1>2, <1>3, NoMultiple
  <2>2. n * (p - q) = b - a - 1  BY <1>1, <1>2
  <2>3. ~(0 < b - a - 1 /\ b - a - 1 < n)  BY <1>2, <2>2, NoMultiple
  <2>4. b = a + 1  BY <1>1, <1>5, <2>1, <2>3
  <2>. QED  BY <1>5, <2>4 DEF a, b
<1>. QED  BY <1>4, <1>5

-----------------------------------------------------------------------------
(* The youngest of a set.                                                   *)

(* A new, youngest number makes the others older by one.                    *)
LEMMA AgeAdded ==
  ASSUME NEW S \in SUBSET Nat, IsFiniteSet(S), NEW n \in Nat, \A j \in S : j < n
  PROVE  /\ Age(S \cup {n}, n) = 1
         /\ \A i \in S : /\ Age(S, i) \in Nat \ {0}
                         /\ Age(S \cup {n}, i) = Age(S, i) + 1
<1>1. Age(S \cup {n}, n) = 1
  <2>1. \A j \in S : j \in Nat /\ ~(j >= n)
    OBVIOUS
  <2>2. n >= n
    OBVIOUS
  <2>3. {j \in S \cup {n} : j >= n} = {n}
    BY <2>1, <2>2
  <2>. QED  BY <2>3, FS_Singleton DEF Age
<1>2. ASSUME NEW i \in S
      PROVE  Age(S, i) \in Nat \ {0} /\ Age(S \cup {n}, i) = Age(S, i) + 1
  <2>. DEFINE A == {j \in S : j >= i}
  <2>1. IsFiniteSet(A) /\ i \in A
    BY FS_Subset
  <2>2. n \notin A /\ {j \in S \cup {n} : j >= i} = A \cup {n}
    OBVIOUS
  <2>. HIDE DEF A
  <2>3. Cardinality(A) \in Nat /\ Cardinality(A) # 0
    BY <2>1, FS_CardinalityType, FS_EmptySet
  <2>4. Cardinality(A \cup {n}) = Cardinality(A) + 1
    BY <2>1, <2>2, FS_AddElement
  <2>5. Age(S, i) = Cardinality(A) /\ Age(S \cup {n}, i) = Cardinality(A \cup {n})
    BY <2>2 DEF Age, A
  <2>. QED  BY <2>3, <2>4, <2>5
<1>. QED  BY <1>1, <1>2

(* The set with n or not.                                                   *)
With(T, n, t) == IF t THEN T \cup {n} ELSE T

(* The new number is the youngest.                                          *)
LEMMA YoungestAdded ==
  ASSUME NEW S \in SUBSET Nat, IsFiniteSet(S), NEW n \in Nat, \A j \in S : j < n,
         NEW T \in SUBSET S, NEW t \in BOOLEAN, NEW k \in Nat \ {0}
  PROVE  Youngest(S \cup {n}, With(T, n, t), k) = IF k = 1 THEN t ELSE Youngest(S, T, k - 1)
<1>1. /\ Age(S \cup {n}, n) = 1
      /\ \A i \in S : Age(S, i) \in Nat \ {0} /\ Age(S \cup {n}, i) = Age(S, i) + 1
  BY AgeAdded
<1>2. CASE k = 1
  <2>1. ASSUME Youngest(S \cup {n}, With(T, n, t), k) PROVE t
    <3>1. PICK i \in With(T, n, t) : Age(S \cup {n}, i) = 1
      BY <1>2, <2>1 DEF Youngest
    <3>2. ASSUME i \in T PROVE FALSE
      <4>1. i \in S  BY <3>2
      <4>2. Age(S, i) \in Nat \ {0} /\ Age(S, i) + 1 = 1  BY <1>1, <3>1, <4>1
      <4>. QED  BY <4>2
    <3>. QED  BY <3>1, <3>2 DEF With
  <2>2. ASSUME t PROVE Youngest(S \cup {n}, With(T, n, t), k)
    BY <1>1, <1>2, <2>2 DEF Youngest, With
  <2>3. Youngest(S \cup {n}, With(T, n, t), k) \in BOOLEAN
    BY DEF Youngest
  <2>. QED  BY <1>2, <2>1, <2>2, <2>3
<1>3. CASE k # 1
  <2>1. ASSUME Youngest(S \cup {n}, With(T, n, t), k) PROVE Youngest(S, T, k - 1)
    <3>1. PICK i \in With(T, n, t) : Age(S \cup {n}, i) = k
      BY <2>1 DEF Youngest
    <3>2. i \in T
      BY <1>1, <1>3, <3>1 DEF With
    <3>3. Age(S, i) = k - 1
      BY <1>1, <3>1, <3>2
    <3>. QED  BY <3>2, <3>3 DEF Youngest
  <2>2. ASSUME Youngest(S, T, k - 1) PROVE Youngest(S \cup {n}, With(T, n, t), k)
    <3>1. PICK i \in T : Age(S, i) = k - 1
      BY <2>2 DEF Youngest
    <3>2. i \in S  OBVIOUS
    <3>3. Age(S \cup {n}, i) = k
      BY <1>1, <3>1, <3>2
    <3>4. i \in With(T, n, t)
      BY DEF With
    <3>. QED  BY <3>3, <3>4 DEF Youngest
  <2>3. Youngest(S \cup {n}, With(T, n, t), k) \in BOOLEAN /\ Youngest(S, T, k - 1) \in BOOLEAN
    BY DEF Youngest
  <2>. QED  BY <1>3, <2>1, <2>2, <2>3
<1>. QED  BY <1>2, <1>3

(* The youngest of a set, as a window of length n, and the window moved.    *)
Bools(n) == [1 .. n -> BOOLEAN]
Moved(w, n, t) == [k \in 1 .. n |-> IF k = 1 THEN t ELSE w[k - 1]]

(* A register takes the new entry in.                                       *)
LEMMA PushMoves ==
  ASSUME NEW s \in Bools(WIDTH), NEW t \in BOOLEAN, WIDTH \in Nat \ {0}
  PROVE  Push(s, t) = Moved(s, WIDTH, t) /\ Push(s, t) \in Bools(WIDTH)
<1>1. s \in Seq(BOOLEAN) /\ Len(s) = WIDTH
  BY DEF Bools
<1>2. <<t>> \o s \in Seq(BOOLEAN) /\ Len(<<t>> \o s) = WIDTH + 1
  BY <1>1
<1>3. \A k \in 1 .. WIDTH : (<<t>> \o s)[k] = IF k = 1 THEN t ELSE s[k - 1]
  BY <1>1
<1>4. SubSeq(<<t>> \o s, 1, WIDTH) = [k \in 1 .. WIDTH |-> (<<t>> \o s)[k]]
  BY <1>2
<1>5. Push(s, t) = Moved(s, WIDTH, t)
  BY <1>3, <1>4 DEF Push, Moved
<1>6. Moved(s, WIDTH, t) \in Bools(WIDTH)
  BY DEF Moved, Bools
<1>. QED  BY <1>5, <1>6

(* So does what is recent in a set that gets a new number.                  *)
LEMMA RecentMoves ==
  ASSUME NEW S \in SUBSET Nat, IsFiniteSet(S), NEW n \in Nat, \A j \in S : j < n,
         NEW T \in SUBSET S, NEW t \in BOOLEAN, WIDTH \in Nat \ {0}
  PROVE  /\ Recent(S, T) \in Bools(WIDTH)
         /\ Recent(S \cup {n}, With(T, n, t)) = Push(Recent(S, T), t)
<1>1. Recent(S, T) \in Bools(WIDTH)
  BY DEF Recent, Bools, Youngest
<1>2. \A k \in 1 .. WIDTH : Youngest(S \cup {n}, With(T, n, t), k)
                              = IF k = 1 THEN t ELSE Youngest(S, T, k - 1)
  BY YoungestAdded
<1>3. \A k \in 1 .. WIDTH : k # 1 => Recent(S, T)[k - 1] = Youngest(S, T, k - 1)
  BY DEF Recent
<1>4. Recent(S \cup {n}, With(T, n, t)) = Moved(Recent(S, T), WIDTH, t)
  BY <1>2, <1>3 DEF Recent, Moved
<1>. QED  BY <1>1, <1>4, PushMoves

-----------------------------------------------------------------------------
(* The folded history.                                                      *)

(* The exclusive or.                                                        *)
LEMMA Xor ==
  ASSUME NEW a \in BOOLEAN, NEW b \in BOOLEAN
  PROVE  (a # b) = ~(a <=> b)
OBVIOUS

(* One element more or less changes the parity.                             *)
LEMMA ParityChanges ==
  ASSUME NEW S, IsFiniteSet(S), NEW x
  PROVE  /\ Parity(S \cup {x}) <=> ~(Parity(S) <=> x \notin S)
         /\ Parity(S \ {x}) <=> ~(Parity(S) <=> x \in S)
<1>1. Cardinality(S) \in Nat
  BY FS_CardinalityType
<1>2. /\ Cardinality(S \cup {x}) = IF x \in S THEN Cardinality(S) ELSE Cardinality(S) + 1
      /\ Cardinality(S \ {x}) = IF x \in S THEN Cardinality(S) - 1 ELSE Cardinality(S)
  BY FS_AddElement, FS_RemoveElement
<1>3. ASSUME NEW c \in Int PROVE ((c + 1) % 2 = 1) <=> ~(c % 2 = 1)
  BY <1>3, SMT
<1>4. ASSUME NEW c \in Int PROVE ((c - 1) % 2 = 1) <=> ~(c % 2 = 1)
  BY <1>4, SMT
<1>5. CASE x \in S
  <2>1. Parity(S \cup {x}) = Parity(S)
    BY <1>2, <1>5 DEF Parity
  <2>2. Parity(S \ {x}) <=> ~Parity(S)
    BY <1>1, <1>2, <1>4, <1>5 DEF Parity
  <2>3. Parity(S) \in BOOLEAN  BY DEF Parity
  <2>. QED  BY <1>5, <2>1, <2>2, <2>3
<1>6. CASE x \notin S
  <2>1. Parity(S \ {x}) = Parity(S)
    BY <1>2, <1>6 DEF Parity
  <2>2. Parity(S \cup {x}) <=> ~Parity(S)
    BY <1>1, <1>2, <1>3, <1>6 DEF Parity
  <2>3. Parity(S) \in BOOLEAN  BY DEF Parity
  <2>. QED  BY <1>6, <2>1, <2>2, <2>3
<1>. QED  BY <1>5, <1>6

(* A set moved by one has as many elements.                                 *)
LEMMA ParityMoved ==
  ASSUME NEW S \in SUBSET Nat, IsFiniteSet(S)
  PROVE  /\ IsFiniteSet({k + 1 : k \in S})
         /\ Parity({k + 1 : k \in S}) <=> Parity(S)
<1>. DEFINE U == {k + 1 : k \in S}
            f == [k \in S |-> k + 1]
<1>1. f \in Bijection(S, U)
  <2>1. f \in [S -> U]
    OBVIOUS
  <2>2. \A x, y \in S : f[x] = f[y] => x = y
    <3>1. \A x, y \in S : x \in Nat /\ y \in Nat
      OBVIOUS
    <3>. QED  BY <3>1
  <2>3. \A u \in U : \E x \in S : f[x] = u
    OBVIOUS
  <2>. HIDE DEF U, f
  <2>. QED  BY <2>1, <2>2, <2>3 DEF Bijection, Injection, Surjection, IsInjective
<1>2. ExistsBijection(S, U)
  BY <1>1 DEF ExistsBijection
<1>. HIDE DEF U
<1>3. IsFiniteSet(U) /\ Cardinality(U) = Cardinality(S)
  BY <1>2, FS_Bijection
<1>. QED  BY <1>3 DEF Parity, U

(* The bits that are folded to the same place.                              *)
Piece(w, i) == {k \in 1 .. OLENGTH : (k - 1) % CLENGTH = i /\ w[k]}

(* Folding the moved window is what folded_history::update() does.          *)
LEMMA FoldMoves ==
  ASSUME NEW w \in Bools(OLENGTH), NEW new \in BOOLEAN,
         OLENGTH \in Nat \ {0}, CLENGTH \in Nat \ {0}
  PROVE  FoldOf(Moved(w, OLENGTH, new)) = Folded(FoldOf(w), new, w[OLENGTH])
<1>. DEFINE v == Moved(w, OLENGTH, new)
            Before(i) == IF i = 0 THEN CLENGTH - 1 ELSE i - 1
<1>1. \A k \in 1 .. OLENGTH : v[k] = IF k = 1 THEN new ELSE w[k - 1]
  BY DEF Moved
<1>. HIDE DEF v
<1>2. \A k \in 1 .. OLENGTH : w[k] \in BOOLEAN
  BY DEF Bools
<1>3. ASSUME NEW i \in 0 .. CLENGTH - 1, NEW k \in Nat
      PROVE  (k + 1) % CLENGTH = i <=> k % CLENGTH = Before(i)
  <2>1. k % CLENGTH \in 0 .. CLENGTH - 1
    OBVIOUS
  <2>2. (k + 1) % CLENGTH = IF k % CLENGTH = CLENGTH - 1 THEN 0 ELSE (k % CLENGTH) + 1
    BY NextRemainder
  <2>. DEFINE r == k % CLENGTH
              q == (k + 1) % CLENGTH
  <2>3. r \in 0 .. CLENGTH - 1 /\ q = IF r = CLENGTH - 1 THEN 0 ELSE r + 1
    BY <2>1, <2>2
  <2>. HIDE DEF r, q
  <2>4. q = i <=> r = Before(i)
    BY <2>3
  <2>. QED  BY <2>4 DEF r, q
<1>. DEFINE Out(i) == i = OUTPOINT /\ w[OLENGTH]
<1>4. ASSUME NEW i \in 0 .. CLENGTH - 1
      PROVE  /\ i = 0 => (Parity(Piece(v, i)) <=>
                           ~(~(new <=> Parity(Piece(w, CLENGTH - 1))) <=> Out(i)))
             /\ i # 0 => (Parity(Piece(v, i)) <=> ~(Parity(Piece(w, i - 1)) <=> Out(i)))
  <2>. DEFINE A == Piece(w, Before(i))
              A0 == A \ {OLENGTH}
              A1 == {k + 1 : k \in A0}
  <2>1. IsFiniteSet(A) /\ A \in SUBSET Nat
    <3>1. IsFiniteSet(1 .. OLENGTH)  BY FS_Interval
    <3>2. A \in SUBSET (1 .. OLENGTH)  BY DEF Piece
    <3>3. A \in SUBSET Nat  BY DEF Piece
    <3>. HIDE DEF A
    <3>. QED  BY <3>1, <3>2, <3>3, FS_Subset
  <2>2. IsFiniteSet(A0) /\ A0 \in SUBSET Nat /\ (Parity(A0) <=> ~(Parity(A) <=> OLENGTH \in A))
    <3>. HIDE DEF A
    <3>. QED  BY <2>1, FS_RemoveElement, ParityChanges
  <2>3. OLENGTH \in A <=> Out(i)
    <3>1. OLENGTH - 1 \in Nat /\ (OLENGTH - 1) + 1 = OLENGTH
      OBVIOUS
    <3>2. OLENGTH % CLENGTH = i <=> (OLENGTH - 1) % CLENGTH = Before(i)
      BY <1>3, <3>1
    <3>3. OLENGTH \in 1 .. OLENGTH
      OBVIOUS
    <3>. HIDE DEF Before
    <3>. QED  BY <3>2, <3>3 DEF Piece, OUTPOINT
  <2>4. IsFiniteSet(A1) /\ (Parity(A1) <=> Parity(A0))
    <3>. HIDE DEF A0
    <3>. QED  BY <2>2, ParityMoved
  <2>5. 1 \notin A1
    <3>1. \A k \in A0 : k + 1 # 1
      BY DEF Piece
    <3>. HIDE DEF A0
    <3>. QED  BY <3>1
  <2>6. Piece(v, i) = IF i = 0 /\ new THEN A1 \cup {1} ELSE A1
    <3>1. ASSUME NEW k \in 1 .. OLENGTH, k # 1 PROVE k \in Piece(v, i) <=> k \in A1
      <4>1. k - 2 \in Nat /\ (k - 2) + 1 = k - 1 /\ k - 1 \in 1 .. OLENGTH /\ k - 1 # OLENGTH
        BY <3>1
      <4>2. (k - 1) % CLENGTH = i <=> ((k - 1) - 1) % CLENGTH = Before(i)
        <5>1. (k - 1) - 1 = k - 2  OBVIOUS
        <5>. HIDE DEF Before
        <5>. QED  BY <1>3, <4>1, <5>1
      <4>3. k \in Piece(v, i) <=> k - 1 \in A
        <5>. HIDE DEF Before
        <5>. QED  BY <1>1, <3>1, <4>1, <4>2 DEF Piece
      <4>4. k \in A1 <=> k - 1 \in A0
        <5>1. ASSUME k - 1 \in A0 PROVE k \in A1
          <6>1. (k - 1) + 1 = k  OBVIOUS
          <6>. HIDE DEF A0
          <6>. QED  BY <5>1, <6>1
        <5>2. ASSUME k \in A1 PROVE k - 1 \in A0
          <6>. HIDE DEF A0
          <6>1. PICK j \in A0 : k = j + 1  BY <5>2
          <6>2. j = k - 1  BY <2>2, <6>1
          <6>. QED  BY <6>1, <6>2
        <5>. QED  BY <5>1, <5>2
      <4>. HIDE DEF A, A1
      <4>. QED  BY <4>1, <4>3, <4>4
    <3>2. 1 \in Piece(v, i) <=> (i = 0 /\ new)
      <4>1. 0 % CLENGTH = 0
        BY NextRemainder
      <4>. QED  BY <1>1, <4>1 DEF Piece
    <3>3. Piece(v, i) \subseteq 1 .. OLENGTH
      BY DEF Piece
    <3>4. A1 \subseteq 1 .. OLENGTH
      <4>1. \A k \in A0 : k + 1 \in 1 .. OLENGTH
        BY DEF Piece
      <4>. HIDE DEF A0
      <4>. QED  BY <4>1
    <3>. HIDE DEF A1
    <3>. DEFINE B == IF i = 0 /\ new THEN A1 \cup {1} ELSE A1
    <3>5. 1 \in 1 .. OLENGTH
      OBVIOUS
    <3>6. 1 \in Piece(v, i) <=> 1 \in B
      BY <2>5, <3>2
    <3>7. ASSUME NEW k, k # 1 PROVE k \in Piece(v, i) <=> k \in B
      <4>1. k \in B <=> k \in A1  BY <3>7
      <4>2. CASE k \in 1 .. OLENGTH  BY <3>1, <3>7, <4>1, <4>2
      <4>3. CASE k \notin 1 .. OLENGTH  BY <3>3, <3>4, <4>1, <4>3
      <4>. QED  BY <4>2, <4>3
    <3>8. Piece(v, i) = B
      <4>. HIDE DEF B
      <4>. QED  BY <3>6, <3>7
    <3>. QED  BY <3>8
  <2>7. Parity(Piece(v, i)) <=> ~(Parity(A1) <=> (i = 0 /\ new))
    <3>. HIDE DEF A1
    <3>1. CASE i = 0 /\ new
      <4>1. Piece(v, i) = A1 \cup {1}  BY <2>6, <3>1
      <4>2. Parity(A1 \cup {1}) <=> ~(Parity(A1) <=> 1 \notin A1)  BY <2>4, ParityChanges
      <4>. QED  BY <2>5, <3>1, <4>1, <4>2
    <3>2. CASE ~(i = 0 /\ new)
      <4>1. Piece(v, i) = A1  BY <2>6, <3>2
      <4>2. Parity(A1) \in BOOLEAN  BY DEF Parity
      <4>. QED  BY <3>2, <4>1, <4>2
    <3>. QED  BY <3>1, <3>2
  <2>8. A = IF i = 0 THEN Piece(w, CLENGTH - 1) ELSE Piece(w, i - 1)
    OBVIOUS
  <2>. HIDE DEF A, A0, A1
  <2>9. Parity(A) \in BOOLEAN /\ Parity(A0) \in BOOLEAN /\ Parity(A1) \in BOOLEAN
    BY DEF Parity
  <2>10. Parity(Piece(v, i)) <=> ~(~(Parity(A) <=> Out(i)) <=> (i = 0 /\ new))
    BY <2>2, <2>3, <2>4, <2>7
  <2>. HIDE DEF Out
  <2>11. CASE i = 0
    BY <2>8, <2>10, <2>11
  <2>12. CASE i # 0
    BY <2>8, <2>10, <2>12
  <2>. QED  BY <2>11, <2>12
<1>5. FoldOf(v) = [i \in 0 .. CLENGTH - 1 |-> Parity(Piece(v, i))]
      /\ FoldOf(w) = [i \in 0 .. CLENGTH - 1 |-> Parity(Piece(w, i))]
  BY DEF FoldOf, Piece
<1>6. Folded(FoldOf(w), new, w[OLENGTH]) =
        [i \in 0 .. CLENGTH - 1 |->
           (IF i = 0 THEN new # FoldOf(w)[CLENGTH - 1] ELSE FoldOf(w)[i - 1])
             # (i = OUTPOINT /\ w[OLENGTH])]
  BY DEF Folded
<1>7. ASSUME NEW i \in 0 .. CLENGTH - 1
      PROVE  Parity(Piece(v, i)) =
               ((IF i = 0 THEN new # FoldOf(w)[CLENGTH - 1] ELSE FoldOf(w)[i - 1])
                  # (i = OUTPOINT /\ w[OLENGTH]))
  <2>1. CLENGTH - 1 \in 0 .. CLENGTH - 1 /\ (i # 0 => i - 1 \in 0 .. CLENGTH - 1)
    OBVIOUS
  <2>2. FoldOf(w)[CLENGTH - 1] = Parity(Piece(w, CLENGTH - 1))
        /\ (i # 0 => FoldOf(w)[i - 1] = Parity(Piece(w, i - 1)))
    BY <1>5, <2>1
  <2>. DEFINE a == Parity(Piece(w, CLENGTH - 1))
              b == Parity(Piece(w, i - 1))
              c == Parity(Piece(v, i))
              d == i = OUTPOINT /\ w[OLENGTH]
  <2>3. a \in BOOLEAN /\ b \in BOOLEAN /\ c \in BOOLEAN /\ d \in BOOLEAN
    BY DEF Parity
  <2>4. /\ i = 0 => (c <=> ~(~(new <=> a) <=> d))
        /\ i # 0 => (c <=> ~(b <=> d))
    BY <1>4
  <2>. HIDE DEF a, b, c, d
  <2>5. i = 0 => c = ((new # a) # d)
    <3>1. (new # a) = ~(new <=> a)  BY <2>3, Xor
    <3>2. ((new # a) # d) = ~((new # a) <=> d)  BY <2>3, Xor
    <3>3. i = 0 => (c <=> ((new # a) # d))
      BY <2>4, <3>1, <3>2
    <3>. QED  BY <2>3, <3>3
  <2>6. i # 0 => c = (b # d)
    <3>1. (b # d) = ~(b <=> d)  BY <2>3, Xor
    <3>. QED  BY <2>3, <2>4, <3>1
  <2>7. CASE i = 0
    BY <2>2, <2>5, <2>7 DEF a, c, d
  <2>8. CASE i # 0
    BY <2>2, <2>6, <2>8 DEF b, c, d
  <2>. QED  BY <2>7, <2>8
<1>8. FoldOf(v) = Folded(FoldOf(w), new, w[OLENGTH])
  BY <1>5, <1>6, <1>7
<1>. QED  BY <1>8 DEF v

-----------------------------------------------------------------------------
(* The ring.                                                                *)

HistoryType ==
  [ghist : [0 .. HISTBUFFERLENGTH - 1 -> BOOLEAN], ptghist : Int,
   comp : [0 .. CLENGTH - 1 -> BOOLEAN], phist : Seq(Nat \X (0 .. 2)),
   GHIST : Bools(WIDTH), IMLIcount : 0 .. IMLIMAX,
   IMHIST : [0 .. IMLIMAX -> Bools(WIDTH)],
   L_shist : [Pcs -> Bools(WIDTH)], S_slhist : [Pcs -> Seq(BOOLEAN \X Nat)]]

(* The assumption on the constants, in the form that is cited.              *)
LEMMA Sizes ==
  /\ HISTBUFFERLENGTH \in Nat \ {0} /\ OLENGTH \in Nat \ {0} /\ CLENGTH \in Nat \ {0}
  /\ WIDTH \in Nat \ {0} /\ OLENGTH < HISTBUFFERLENGTH /\ IMLIMAX \in Nat /\ MaxTrace \in Nat
BY HistoryAssumption

(* The fields of a branch.                                                  *)
LEMMA BranchType ==
  ASSUME NEW b \in Branches
  PROVE  /\ b.pc \in Nat /\ b.pc \in Pcs /\ b.kind \in Kinds
         /\ b.backward \in BOOLEAN /\ b.taken \in BOOLEAN
<1>1. PICK s \in Statics, t \in BOOLEAN :
        b = [pc |-> s.pc, kind |-> s.kind, backward |-> s.backward, taken |-> t]
  BY DEF Branches
<1>2. s \in [pc : Nat, kind : Kinds, backward : BOOLEAN]
  BY HistoryAssumption
<1>3. s.pc \in Pcs
  BY DEF Pcs
<1>. QED  BY <1>1, <1>2, <1>3

(* The register of the path takes an entry in.                              *)
LEMMA MixType ==
  ASSUME NEW E, NEW s \in Seq(E), NEW x \in E
  PROVE  Mix(s, x) \in Seq(E)
<1>1. <<x>> \o s \in Seq(E) /\ Len(<<x>> \o s) = Len(s) + 1 /\ Len(s) \in Nat
  OBVIOUS
<1>. DEFINE n == IF Len(s) < WIDTH THEN Len(s) + 1 ELSE WIDTH
<1>2. n \in Nat /\ n <= Len(s) + 1
  BY <1>1, Sizes
<1>3. SubSeq(<<x>> \o s, 1, n) \in Seq(E)
  <2>. DEFINE u == <<x>> \o s
  <2>1. u \in Seq(E) /\ Len(u) = Len(s) + 1  BY <1>1
  <2>. HIDE DEF u, n
  <2>2. \A i \in 1 .. n : u[i] \in E
    BY <1>1, <1>2, <2>1
  <2>. QED  BY <1>2, <2>1, <2>2 DEF u
<1>. QED  BY <1>3 DEF Mix

(* The ring and its folded copy hold the window w.                          *)
Holds(h, w) ==
  /\ \A k \in 1 .. OLENGTH : h.ghist[Slot(h.ptghist + k - 1)] = w[k]
  /\ h.comp = FoldOf(w)

(* What Enter() leaves alone.                                               *)
SameRegisters(g, h) ==
  /\ g.GHIST = h.GHIST /\ g.IMLIcount = h.IMLIcount /\ g.IMHIST = h.IMHIST
  /\ g.L_shist = h.L_shist

(* Every number has a slot in the ring.                                     *)
LEMMA RingSlot ==
  ASSUME NEW y \in Int
  PROVE  Slot(y) \in 0 .. HISTBUFFERLENGTH - 1
BY Sizes DEF Slot

(* Entering a bit moves the window.                                         *)
LEMMA EnterMoves ==
  ASSUME NEW h \in HistoryType, NEW w \in Bools(OLENGTH), Holds(h, w),
         NEW b \in Branches, NEW t \in 0 .. 2
  PROVE  /\ Enter(h, b, t) \in HistoryType
         /\ Holds(Enter(h, b, t), Moved(w, OLENGTH, DIR(b, t)))
         /\ SameRegisters(Enter(h, b, t), h)
<1>. DEFINE Y == h.ptghist - 1
            dir == DIR(b, t)
            ring == [h.ghist EXCEPT ![Slot(Y)] = dir]
            comp == Folded(h.comp, ring[Slot(Y)], ring[Slot(Y + OLENGTH)])
            phist == Mix(h.phist, <<b.pc, t>>)
            g == Enter(h, b, t)
<1>1. g = [h EXCEPT !.ptghist = Y, !.ghist = ring, !.phist = phist, !.comp = comp]
  BY DEF Enter
<1>2. dir \in BOOLEAN
  BY DEF DIR
<1>3. /\ h.ghist \in [0 .. HISTBUFFERLENGTH - 1 -> BOOLEAN] /\ h.ptghist \in Int
      /\ h.phist \in Seq(Nat \X (0 .. 2))
  BY DEF HistoryType
<1>4. Y \in Int
  BY <1>3
<1>. HIDE DEF dir
<1>5. ring \in [0 .. HISTBUFFERLENGTH - 1 -> BOOLEAN] /\ ring[Slot(Y)] = dir
  BY <1>2, <1>3, <1>4, RingSlot
<1>6. \A k \in 1 .. OLENGTH : ring[Slot(Y + k)] = w[k]
  <2>. SUFFICES ASSUME NEW k \in 1 .. OLENGTH PROVE ring[Slot(Y + k)] = w[k]
    OBVIOUS
  <2>1. Y + k \in Int /\ Y < Y + k /\ Y + k < Y + HISTBUFFERLENGTH
    BY <1>4, Sizes
  <2>2. Slot(Y + k) # Slot(Y)
    <3>. HIDE DEF Y
    <3>. QED  BY <1>4, <2>1, Sizes, NearRemainders DEF Slot
  <2>3. h.ptghist + k - 1 = Y + k
    BY <1>3
  <2>4. h.ghist[Slot(Y + k)] = w[k]
    BY <2>3 DEF Holds
  <2>5. Slot(Y + k) \in 0 .. HISTBUFFERLENGTH - 1
    BY <2>1, RingSlot
  <2>. HIDE DEF Y
  <2>. QED  BY <1>3, <2>2, <2>4, <2>5
<1>7. comp = FoldOf(Moved(w, OLENGTH, dir))
  <2>1. OLENGTH \in 1 .. OLENGTH
    BY Sizes
  <2>2. ring[Slot(Y + OLENGTH)] = w[OLENGTH]
    BY <1>6, <2>1
  <2>3. h.comp = FoldOf(w)
    BY DEF Holds
  <2>4. comp = Folded(FoldOf(w), dir, w[OLENGTH])
    BY <1>5, <2>2, <2>3
  <2>. QED  BY <1>2, <2>4, Sizes, FoldMoves
<1>8. comp \in [0 .. CLENGTH - 1 -> BOOLEAN]
  BY <1>7 DEF FoldOf, Parity
<1>9. phist \in Seq(Nat \X (0 .. 2))
  <2>1. <<b.pc, t>> \in Nat \X (0 .. 2)
    BY BranchType
  <2>. QED  BY <1>3, <2>1, MixType
<1>. HIDE DEF ring, comp, phist, Y, g
<1>10. /\ g \in HistoryType /\ g.ptghist = Y /\ g.ghist = ring /\ g.comp = comp
       /\ SameRegisters(g, h)
  BY <1>1, <1>4, <1>5, <1>8, <1>9 DEF HistoryType, SameRegisters
<1>11. ASSUME NEW k \in 1 .. OLENGTH
       PROVE  g.ghist[Slot(g.ptghist + k - 1)] = Moved(w, OLENGTH, dir)[k]
  <2>1. CASE k = 1
    <3>1. Y + k - 1 = Y  BY <1>4, <2>1
    <3>. QED  BY <1>5, <1>10, <2>1, <3>1 DEF Moved
  <2>2. CASE k # 1
    <3>1. k - 1 \in 1 .. OLENGTH  BY <2>2, Sizes
    <3>2. Y + k - 1 = Y + (k - 1)  BY <1>4
    <3>3. ring[Slot(Y + (k - 1))] = w[k - 1]  BY <1>6, <3>1
    <3>. QED  BY <1>10, <2>2, <3>2, <3>3 DEF Moved
  <2>. QED  BY <2>1, <2>2
<1>12. Holds(g, Moved(w, OLENGTH, dir))
  BY <1>7, <1>10, <1>11 DEF Holds
<1>. QED  BY <1>10, <1>12 DEF g, dir

-----------------------------------------------------------------------------
(* The bits of a branch.                                                    *)

Window(S, T) == [k \in 1 .. OLENGTH |-> Youngest(S, T, k)]

(* The ring holds the youngest of S, of which those in T are ones; they are *)
(* older than m.                                                            *)
Sees(h, S, T, m) ==
  /\ S \in SUBSET Nat /\ IsFiniteSet(S) /\ T \in SUBSET S
  /\ m \in Nat /\ \A j \in S : j < m
  /\ h \in HistoryType /\ Holds(h, Window(S, T))

(* Entering a bit adds its number.                                          *)
LEMMA EnterSees ==
  ASSUME NEW h, NEW S, NEW T, NEW m, Sees(h, S, T, m),
         NEW b \in Branches, NEW t \in 0 .. 2
  PROVE  /\ Sees(Enter(h, b, t), S \cup {m}, With(T, m, DIR(b, t)), m + 1)
         /\ SameRegisters(Enter(h, b, t), h)
<1>1. /\ S \in SUBSET Nat /\ IsFiniteSet(S) /\ T \in SUBSET S
      /\ m \in Nat /\ \A j \in S : j < m
      /\ h \in HistoryType /\ Holds(h, Window(S, T))
  BY DEF Sees
<1>2. DIR(b, t) \in BOOLEAN
  BY DEF DIR
<1>3. Window(S, T) \in Bools(OLENGTH)
  BY DEF Window, Bools, Youngest
<1>4. Window(S \cup {m}, With(T, m, DIR(b, t))) = Moved(Window(S, T), OLENGTH, DIR(b, t))
  <2>. DEFINE d == DIR(b, t)
  <2>1. d \in BOOLEAN  BY <1>2
  <2>. HIDE DEF d
  <2>2. \A k \in 1 .. OLENGTH : Youngest(S \cup {m}, With(T, m, d), k)
                                  = IF k = 1 THEN d ELSE Youngest(S, T, k - 1)
    BY <1>1, <2>1, YoungestAdded
  <2>3. \A k \in 1 .. OLENGTH : k # 1 => Window(S, T)[k - 1] = Youngest(S, T, k - 1)
    BY Sizes DEF Window
  <2>4. Window(S \cup {m}, With(T, m, d)) = Moved(Window(S, T), OLENGTH, d)
    BY <2>2, <2>3 DEF Window, Moved
  <2>. QED  BY <2>4 DEF d
<1>5. /\ S \cup {m} \in SUBSET Nat /\ IsFiniteSet(S \cup {m})
      /\ With(T, m, DIR(b, t)) \in SUBSET (S \cup {m})
  BY <1>1, FS_AddElement DEF With
<1>6. m + 1 \in Nat /\ \A j \in S \cup {m} : j < m + 1
  BY <1>1
<1>7. /\ Enter(h, b, t) \in HistoryType
      /\ Holds(Enter(h, b, t), Moved(Window(S, T), OLENGTH, DIR(b, t)))
      /\ SameRegisters(Enter(h, b, t), h)
  BY <1>1, <1>3, EnterMoves
<1>. QED  BY <1>4, <1>5, <1>6, <1>7 DEF Sees

(* The numbers of a branch's bits.                                          *)
LEMMA BitNumber ==
  ASSUME NEW m \in Nat
  PROVE  /\ m = 3 * (m \div 3) + (m % 3) /\ m % 3 \in 0 .. 2 /\ m \div 3 \in Nat
BY SMT

(* And back.                                                                *)
LEMMA BitPlace ==
  ASSUME NEW n \in Nat, NEW t \in 0 .. 2
  PROVE  (3 * n + t) \div 3 = n /\ (3 * n + t) % 3 = t
BY SMT

(* One more branch adds the numbers of its bits, two or three.              *)
LEMMA BitsAppend ==
  ASSUME NEW tr \in Seq(Branches), NEW b \in Branches, NEW n, n = Len(tr) + 1
  PROVE  LET S == (Bits(tr) \cup {3 * n}) \cup {3 * n + 1}
             T == With(With(Ones(tr), 3 * n, DIR(b, 0)), 3 * n + 1, DIR(b, 1))
             long == maxt(b) = 3
         IN  /\ Bits(Append(tr, b)) = IF long THEN S \cup {3 * n + 2} ELSE S
             /\ Ones(Append(tr, b)) = IF long THEN With(T, 3 * n + 2, DIR(b, 2)) ELSE T
<1>. DEFINE new == Append(tr, b)
            S == (Bits(tr) \cup {3 * n}) \cup {3 * n + 1}
            T == With(With(Ones(tr), 3 * n, DIR(b, 0)), 3 * n + 1, DIR(b, 1))
            long == maxt(b) = 3
            S1 == IF long THEN S \cup {3 * n + 2} ELSE S
            T1 == IF long THEN With(T, 3 * n + 2, DIR(b, 2)) ELSE T
<1>1. n \in Nat \ {0} /\ Len(new) = n /\ new[n] = b /\ \A k \in 1 .. n - 1 : new[k] = tr[k]
  OBVIOUS
<1>. HIDE DEF new
<1>2. maxt(b) \in {2, 3}
  BY DEF maxt
<1>3. \A m : m \in Bits(new) <=> m \in 3 .. 3 * n + 2 /\ m % 3 < maxt(new[m \div 3])
  BY <1>1 DEF Bits
<1>4. \A m : m \in Bits(tr) <=> m \in 3 .. 3 * (n - 1) + 2 /\ m % 3 < maxt(tr[m \div 3])
  BY <1>1 DEF Bits
<1>5. ASSUME NEW m \in 3 .. 3 * (n - 1) + 2
      PROVE  /\ new[m \div 3] = tr[m \div 3]
             /\ m \in Bits(new) <=> m \in Bits(tr)
  <2>1. m \in Nat /\ m \in 3 .. 3 * n + 2
    BY <1>1
  <2>2. m \div 3 \in 1 .. n - 1
    BY <1>1, <2>1, BitNumber
  <2>3. new[m \div 3] = tr[m \div 3]
    BY <1>1, <2>2
  <2>. QED  BY <1>3, <1>4, <2>1, <2>3
<1>6. ASSUME NEW t \in 0 .. 2
      PROVE  /\ 3 * n + t \in Bits(new) <=> t < maxt(b)
             /\ new[(3 * n + t) \div 3] = b /\ (3 * n + t) % 3 = t
             /\ 3 * n + t \notin 3 .. 3 * (n - 1) + 2
  <2>1. (3 * n + t) \div 3 = n /\ (3 * n + t) % 3 = t
    BY <1>1, BitPlace
  <2>2. 3 * n + t \in 3 .. 3 * n + 2 /\ 3 * n + t \notin 3 .. 3 * (n - 1) + 2
    BY <1>1
  <2>. QED  BY <1>1, <1>3, <2>1, <2>2
<1>7. \A m : m \in 3 .. 3 * n + 2 =>
               m \in 3 .. 3 * (n - 1) + 2 \/ \E t \in 0 .. 2 : m = 3 * n + t
  <2>. SUFFICES ASSUME NEW m \in 3 .. 3 * n + 2, m \notin 3 .. 3 * (n - 1) + 2
                PROVE  \E t \in 0 .. 2 : m = 3 * n + t
    OBVIOUS
  <2>1. m - 3 * n \in 0 .. 2 /\ m = 3 * n + (m - 3 * n)
    BY <1>1
  <2>. QED  BY <2>1
<1>8. Bits(tr) \subseteq 3 .. 3 * (n - 1) + 2 /\ Bits(new) \subseteq 3 .. 3 * n + 2
  BY <1>3, <1>4
<1>9. /\ \A m \in 3 .. 3 * (n - 1) + 2 : m \in S1 <=> m \in Bits(tr)
      /\ \A t \in 0 .. 2 : 3 * n + t \in S1 <=> t < maxt(b)
      /\ S1 \subseteq 3 .. 3 * n + 2
  <2>1. 3 * n = 3 * n + 0
    BY <1>1
  <2>2. \A t \in 0 .. 2 : 3 * n + t \notin Bits(tr)
    BY <1>6, <1>8
  <2>3. \A m \in 3 .. 3 * (n - 1) + 2 : m # 3 * n /\ m # 3 * n + 1 /\ m # 3 * n + 2
    BY <1>1
  <2>4. {3 * n, 3 * n + 1, 3 * n + 2} \subseteq 3 .. 3 * n + 2
        /\ 3 .. 3 * (n - 1) + 2 \subseteq 3 .. 3 * n + 2
    BY <1>1
  <2>5. \A t \in 0 .. 2 : 3 * n + t \in S1 <=> t < maxt(b)
    <3>. SUFFICES ASSUME NEW t \in 0 .. 2 PROVE 3 * n + t \in S1 <=> t < maxt(b)
      OBVIOUS
    <3>1. t = 0 \/ t = 1 \/ t = 2
      OBVIOUS
    <3>2. 3 * n + 2 # 3 * n /\ 3 * n + 2 # 3 * n + 1
      BY <1>1
    <3>. QED  BY <1>2, <2>1, <2>2, <3>1, <3>2
  <2>. QED  BY <1>8, <2>3, <2>4, <2>5
<1>. HIDE DEF S1
<1>10. Bits(new) = S1
  <2>1. ASSUME NEW m PROVE m \in Bits(new) <=> m \in S1
    <3>1. CASE m \in 3 .. 3 * (n - 1) + 2
      BY <1>5, <1>9, <3>1
    <3>2. CASE \E t \in 0 .. 2 : m = 3 * n + t
      BY <1>6, <1>9, <3>2
    <3>3. CASE m \notin 3 .. 3 * n + 2
      BY <1>8, <1>9, <3>3
    <3>. QED  BY <1>7, <3>1, <3>2, <3>3
  <2>. QED  BY <2>1
<1>11. /\ \A m : m \in Ones(new) <=> m \in Bits(new) /\ DIR(new[m \div 3], m % 3)
       /\ \A m : m \in Ones(tr) <=> m \in Bits(tr) /\ DIR(tr[m \div 3], m % 3)
  BY DEF Ones
<1>12. /\ \A m \in 3 .. 3 * (n - 1) + 2 : m \in Ones(new) <=> m \in Ones(tr)
       /\ \A t \in 0 .. 2 : 3 * n + t \in Ones(new) <=> t < maxt(b) /\ DIR(b, t)
  BY <1>5, <1>6, <1>11
<1>13. /\ \A m \in 3 .. 3 * (n - 1) + 2 : m \in T1 <=> m \in Ones(tr)
       /\ \A t \in 0 .. 2 : 3 * n + t \in T1 <=> t < maxt(b) /\ DIR(b, t)
       /\ T1 \subseteq 3 .. 3 * n + 2
  <2>1. 3 * n = 3 * n + 0
    BY <1>1
  <2>2. \A t \in 0 .. 2 : 3 * n + t \notin Ones(tr)
    BY <1>6, <1>8, <1>11
  <2>3. \A m \in 3 .. 3 * (n - 1) + 2 : m # 3 * n /\ m # 3 * n + 1 /\ m # 3 * n + 2
    BY <1>1
  <2>4. {3 * n, 3 * n + 1, 3 * n + 2} \subseteq 3 .. 3 * n + 2
        /\ 3 .. 3 * (n - 1) + 2 \subseteq 3 .. 3 * n + 2
    BY <1>1
  <2>5. \A t \in 0 .. 2 : 3 * n + t \in T1 <=> t < maxt(b) /\ DIR(b, t)
    <3>. SUFFICES ASSUME NEW t \in 0 .. 2 PROVE 3 * n + t \in T1 <=> t < maxt(b) /\ DIR(b, t)
      OBVIOUS
    <3>1. t = 0 \/ t = 1 \/ t = 2
      OBVIOUS
    <3>2. 3 * n + 2 # 3 * n /\ 3 * n + 2 # 3 * n + 1 /\ 3 * n # 3 * n + 1
      BY <1>1
    <3>. QED  BY <1>2, <2>1, <2>2, <3>1, <3>2 DEF With
  <2>6. Ones(tr) \subseteq 3 .. 3 * (n - 1) + 2
    BY <1>8, <1>11
  <2>. QED  BY <2>3, <2>4, <2>5, <2>6 DEF With
<1>. HIDE DEF T1
<1>14. Ones(new) = T1
  <2>1. ASSUME NEW m PROVE m \in Ones(new) <=> m \in T1
    <3>1. CASE m \in 3 .. 3 * (n - 1) + 2
      BY <1>12, <1>13, <3>1
    <3>2. CASE \E t \in 0 .. 2 : m = 3 * n + t
      BY <1>12, <1>13, <3>2
    <3>3. CASE m \notin 3 .. 3 * n + 2
      BY <1>8, <1>11, <1>13, <3>3
    <3>. QED  BY <1>7, <3>1, <3>2, <3>3
  <2>. QED  BY <2>1
<1>. QED  BY <1>10, <1>14 DEF S1, T1, new

(* All bits of a branch.                                                    *)
LEMMA EnterAllSees ==
  ASSUME NEW tr \in Seq(Branches), NEW b \in Branches, NEW h,
         Sees(h, Bits(tr), Ones(tr), 3 * (Len(tr) + 1))
  PROVE  /\ Sees(EnterAll(h, b), Bits(Append(tr, b)), Ones(Append(tr, b)), 3 * (Len(tr) + 2))
         /\ SameRegisters(EnterAll(h, b), h)
<1>. DEFINE n == Len(tr) + 1
            one == Enter(h, b, 0)
            two == Enter(one, b, 1)
            three == Enter(two, b, 2)
            S == (Bits(tr) \cup {3 * n}) \cup {3 * n + 1}
            T == With(With(Ones(tr), 3 * n, DIR(b, 0)), 3 * n + 1, DIR(b, 1))
            long == maxt(b) = 3
<1>1. n \in Nat /\ 3 * n \in Nat /\ 3 * (Len(tr) + 2) = 3 * n + 3
  OBVIOUS
<1>2. /\ Sees(one, Bits(tr) \cup {3 * n}, With(Ones(tr), 3 * n, DIR(b, 0)), 3 * n + 1)
      /\ SameRegisters(one, h)
  <2>. HIDE DEF n, one
  <2>1. Sees(h, Bits(tr), Ones(tr), 3 * n)  BY DEF n
  <2>. QED  BY <2>1, EnterSees DEF one
<1>3. Sees(two, S, T, (3 * n + 1) + 1) /\ SameRegisters(two, one)
  <2>1. 1 \in 0 .. 2
    OBVIOUS
  <2>. HIDE DEF n, one
  <2>. QED  BY <1>2, <2>1, EnterSees, Zenon
<1>4. Sees(three, S \cup {3 * n + 2}, With(T, 3 * n + 2, DIR(b, 2)), 3 * n + 3)
      /\ SameRegisters(three, two)
  <2>. HIDE DEF n, two, S, T
  <2>1. (3 * n + 1) + 1 = 3 * n + 2 /\ (3 * n + 2) + 1 = 3 * n + 3
    BY <1>1
  <2>2. Sees(two, S, T, 3 * n + 2)
    BY <1>3, <2>1
  <2>3. Sees(three, S \cup {3 * n + 2}, With(T, 3 * n + 2, DIR(b, 2)), (3 * n + 2) + 1)
        /\ SameRegisters(three, two)
    <3>1. 2 \in 0 .. 2
      OBVIOUS
    <3>. QED  BY <2>2, <3>1, EnterSees, Zenon
  <2>. QED  BY <2>1, <2>3
<1>5. Sees(two, S, T, 3 * n + 3)
  <2>. HIDE DEF n, two, S, T
  <2>1. /\ S \in SUBSET Nat /\ \A j \in S : j < (3 * n + 1) + 1
    BY <1>3 DEF Sees
  <2>2. \A j \in S : j < 3 * n + 3
    BY <1>1, <2>1
  <2>. QED  BY <1>1, <1>3, <2>2 DEF Sees
<1>6. /\ Bits(Append(tr, b)) = IF long THEN S \cup {3 * n + 2} ELSE S
      /\ Ones(Append(tr, b)) = IF long THEN With(T, 3 * n + 2, DIR(b, 2)) ELSE T
  BY BitsAppend
<1>7. EnterAll(h, b) = IF long THEN three ELSE two
  BY DEF EnterAll
<1>. HIDE DEF n, one, two, three, S, T, long
<1>8. SameRegisters(two, h) /\ SameRegisters(three, h)
  BY <1>2, <1>3, <1>4 DEF SameRegisters
<1>. QED  BY <1>1, <1>4, <1>5, <1>6, <1>7, <1>8

-----------------------------------------------------------------------------
(* The other histories.                                                     *)

(* The fields that a conditional branch changes.                            *)
LEMMA RegistersAre ==
  ASSUME NEW h \in HistoryType, NEW b \in Branches
  PROVE  LET g == Registers(h, b)
         IN  /\ g \in HistoryType
             /\ g.ghist = h.ghist /\ g.ptghist = h.ptghist /\ g.comp = h.comp
             /\ g.GHIST = Push(h.GHIST, b.taken /\ b.backward)
             /\ g.IMLIcount = Iteration(h.IMLIcount, b)
             /\ g.IMHIST = [h.IMHIST EXCEPT ![h.IMLIcount] = Push(@, b.taken)]
             /\ g.L_shist = [h.L_shist EXCEPT ![b.pc] = Push(@, b.taken)]
<1>. DEFINE IMHIST == [h.IMHIST EXCEPT ![h.IMLIcount] = Push(@, b.taken)]
            IMLIcount == Iteration(h.IMLIcount, b)
            GHIST == Push(h.GHIST, b.taken /\ NextIsBackward(b))
            L_shist == [h.L_shist EXCEPT ![b.pc] = Push(@, b.taken)]
            S_slhist == [h.S_slhist EXCEPT ![b.pc] = Mix(@, <<b.taken, b.pc>>)]
            g == Registers(h, b)
<1>1. g = [h EXCEPT !.IMHIST = IMHIST, !.IMLIcount = IMLIcount, !.GHIST = GHIST,
                    !.L_shist = L_shist, !.S_slhist = S_slhist]
  BY DEF Registers
<1>2. /\ h.GHIST \in Bools(WIDTH) /\ h.IMLIcount \in 0 .. IMLIMAX
      /\ h.IMHIST \in [0 .. IMLIMAX -> Bools(WIDTH)]
      /\ h.L_shist \in [Pcs -> Bools(WIDTH)]
      /\ h.S_slhist \in [Pcs -> Seq(BOOLEAN \X Nat)]
  BY DEF HistoryType
<1>3. b.pc \in Nat /\ b.pc \in Pcs /\ b.taken \in BOOLEAN /\ b.backward \in BOOLEAN
  BY BranchType
<1>4. IMHIST \in [0 .. IMLIMAX -> Bools(WIDTH)]
  <2>1. Push(h.IMHIST[h.IMLIcount], b.taken) \in Bools(WIDTH)
    BY <1>2, <1>3, PushMoves, Sizes
  <2>. QED  BY <1>2, <2>1
<1>5. IMLIcount \in 0 .. IMLIMAX
  BY <1>2, Sizes DEF Iteration
<1>6. GHIST = Push(h.GHIST, b.taken /\ b.backward) /\ GHIST \in Bools(WIDTH)
  <2>1. (b.taken /\ NextIsBackward(b)) = (b.taken /\ b.backward)
    BY <1>3 DEF NextIsBackward
  <2>2. (b.taken /\ b.backward) \in BOOLEAN
    OBVIOUS
  <2>. QED  BY <1>2, <2>1, <2>2, PushMoves, Sizes
<1>7. L_shist \in [Pcs -> Bools(WIDTH)]
  <2>1. Push(h.L_shist[b.pc], b.taken) \in Bools(WIDTH)
    BY <1>2, <1>3, PushMoves, Sizes
  <2>. QED  BY <1>2, <2>1
<1>8. S_slhist \in [Pcs -> Seq(BOOLEAN \X Nat)]
  <2>1. <<b.taken, b.pc>> \in BOOLEAN \X Nat
    BY <1>3
  <2>2. Mix(h.S_slhist[b.pc], <<b.taken, b.pc>>) \in Seq(BOOLEAN \X Nat)
    BY <1>2, <1>3, <2>1, MixType
  <2>. QED  BY <1>2, <2>2
<1>. HIDE DEF IMHIST, IMLIcount, GHIST, L_shist, S_slhist, g
<1>9. /\ g \in HistoryType
      /\ g.ghist = h.ghist /\ g.ptghist = h.ptghist /\ g.comp = h.comp
      /\ g.GHIST = GHIST /\ g.IMLIcount = IMLIcount /\ g.IMHIST = IMHIST
      /\ g.L_shist = L_shist
  BY <1>1, <1>4, <1>5, <1>6, <1>7, <1>8 DEF HistoryType
<1>. QED  BY <1>6, <1>9 DEF IMHIST, IMLIcount, GHIST, L_shist, g

(* A trace with one more branch.                                            *)
LEMMA Longer ==
  ASSUME NEW tr \in Seq(Branches), NEW b \in Branches, NEW n, n = Len(tr) + 1
  PROVE  /\ n \in Nat \ {0} /\ DOMAIN tr = 1 .. n - 1 /\ DOMAIN Append(tr, b) = 1 .. n
         /\ Append(tr, b)[n] = b /\ \A k \in 1 .. n - 1 : Append(tr, b)[k] = tr[k]
OBVIOUS

(* Sets of numbers that are less than n.                                    *)
Below(S, n) == S \in SUBSET Nat /\ IsFiniteSet(S) /\ \A j \in S : j < n

(* All branches of a trace are before the next.                             *)
LEMMA SetsBelow ==
  ASSUME NEW tr \in Seq(Branches), NEW S \in SUBSET Conds(tr)
  PROVE  Below(S, Len(tr) + 1)
<1>. DEFINE n == Len(tr) + 1
<1>1. n \in Nat \ {0} /\ DOMAIN tr = 1 .. n - 1
  OBVIOUS
<1>2. S \in SUBSET (1 .. n - 1)
  BY <1>1 DEF Conds
<1>. HIDE DEF n
<1>3. IsFiniteSet(1 .. n - 1)
  BY <1>1, FS_Interval
<1>4. IsFiniteSet(S)
  BY <1>2, <1>3, FS_Subset
<1>5. S \in SUBSET Nat /\ \A j \in S : j < n
  BY <1>1, <1>2
<1>. QED  BY <1>4, <1>5 DEF Below, n

(* One more branch is added to the sets that it belongs to.                 *)
LEMMA SetsAppend ==
  ASSUME NEW tr \in Seq(Branches), NEW b \in Branches, NEW n, n = Len(tr) + 1
  PROVE  LET new == Append(tr, b)
             cond == b.kind = "cond"
         IN  /\ Conds(new) = With(Conds(tr), n, cond)
             /\ Takens(new) = With(Takens(tr), n, cond /\ b.taken)
             /\ Loops(new) = With(Loops(tr), n, cond /\ b.backward)
             /\ \A p \in Pcs : At(new, p) = With(At(tr, p), n, cond /\ b.pc = p)
<1>. DEFINE new == Append(tr, b)
<1>1. /\ n \in Nat \ {0} /\ DOMAIN tr = 1 .. n - 1 /\ DOMAIN new = 1 .. n
      /\ new[n] = b /\ \A k \in 1 .. n - 1 : new[k] = tr[k]
  BY Longer
<1>. HIDE DEF new
<1>2. 1 .. n = (1 .. n - 1) \cup {n} /\ n \notin 1 .. n - 1
  BY <1>1
<1>3. Conds(new) = With(Conds(tr), n, b.kind = "cond")
  BY <1>1, <1>2 DEF Conds, With
<1>4. n \notin Conds(tr) /\ \A k \in Conds(tr) : new[k] = tr[k]
  BY <1>1, <1>2 DEF Conds
<1>5. Takens(new) = With(Takens(tr), n, b.kind = "cond" /\ b.taken)
  BY <1>1, <1>3, <1>4 DEF Takens, With
<1>6. Loops(new) = With(Loops(tr), n, b.kind = "cond" /\ b.backward)
  BY <1>1, <1>3, <1>4 DEF Loops, With
<1>7. ASSUME NEW p \in Pcs PROVE At(new, p) = With(At(tr, p), n, b.kind = "cond" /\ b.pc = p)
  BY <1>1, <1>3, <1>4 DEF At, With
<1>. QED  BY <1>3, <1>5, <1>6, <1>7 DEF new

(* A loop branch that is taken is one more turn.                            *)
LEMMA TurnsAppend ==
  ASSUME NEW tr \in Seq(Branches), NEW b \in Branches, NEW n, n = Len(tr) + 1
  PROVE  LET new == Append(tr, b)
             turn == b.kind = "cond" /\ NextIsBackward(b)
         IN  /\ \A k \in 1 .. n : Turns(new, k) = Turns(tr, k)
             /\ Turns(new, n + 1) = With(Turns(tr, n), n, turn)
<1>. DEFINE new == Append(tr, b)
            turn == b.kind = "cond" /\ NextIsBackward(b)
            Old == Loops(tr) \cap Takens(tr)
            New == Loops(new) \cap Takens(new)
<1>1. n \in Nat \ {0} /\ DOMAIN tr = 1 .. n - 1
  BY Longer
<1>2. Old \subseteq 1 .. n - 1
  BY <1>1 DEF Takens, Loops, Conds
<1>3. New = With(Old, n, turn)
  <2>1. /\ Takens(new) = With(Takens(tr), n, b.kind = "cond" /\ b.taken)
        /\ Loops(new) = With(Loops(tr), n, b.kind = "cond" /\ b.backward)
    BY SetsAppend
  <2>2. n \notin Takens(tr) /\ n \notin Loops(tr)
    BY <1>1 DEF Takens, Loops, Conds
  <2>. HIDE DEF new
  <2>. QED  BY <2>1, <2>2 DEF With, NextIsBackward
<1>4. \A k : /\ Turns(new, k) = {j \in New : j < k}
             /\ Turns(tr, k) = {j \in Old : j < k}
  BY DEF Turns
<1>. HIDE DEF new, turn, Old, New
<1>5. \A j : j \in New <=> j \in Old \/ (j = n /\ turn)
  BY <1>3 DEF With
<1>6. \A k \in 1 .. n : ~(n < k)
  BY <1>1
<1>7. \A j \in Old : j < n + 1 /\ j < n /\ j \in 1 .. n - 1
  BY <1>1, <1>2
<1>8. \A k \in 1 .. n : Turns(new, k) = Turns(tr, k)
  BY <1>4, <1>5, <1>6
<1>9. Turns(new, n + 1) = With(Turns(tr, n), n, turn)
  <2>1. n < n + 1
    BY <1>1
  <2>2. Turns(new, n + 1) = New /\ Turns(tr, n) = Old
    BY <1>4, <1>5, <1>7, <2>1
  <2>. QED  BY <1>3, <2>2
<1>. QED  BY <1>8, <1>9 DEF new, turn

(* The number of the iteration is counted up, and never down.               *)
LEMMA CountAppend ==
  ASSUME NEW tr \in Seq(Branches), NEW b \in Branches, NEW n, n = Len(tr) + 1
  PROVE  LET new == Append(tr, b)
             cond == b.kind = "cond"
         IN  /\ \A k \in 1 .. n : CountAt(new, k) = CountAt(tr, k)
             /\ CountAt(new, n + 1) = IF cond THEN Iteration(CountAt(tr, n), b) ELSE CountAt(tr, n)
             /\ During(new, CountAt(tr, n)) = With(During(tr, CountAt(tr, n)), n, cond)
             /\ \A c : c # CountAt(tr, n) => During(new, c) = During(tr, c)
<1>. DEFINE new == Append(tr, b)
            cond == b.kind = "cond"
            turns == Turns(tr, n)
<1>1. n \in Nat \ {0} /\ DOMAIN tr = 1 .. n - 1
  BY Longer
<1>2. /\ \A k \in 1 .. n : Turns(new, k) = Turns(tr, k)
      /\ Turns(new, n + 1) = With(turns, n, cond /\ NextIsBackward(b))
      /\ Conds(new) = With(Conds(tr), n, cond)
  BY TurnsAppend, SetsAppend
<1>3. Below(turns, n)
  <2>1. turns \in SUBSET Conds(tr)
    BY DEF Turns, Loops
  <2>. HIDE DEF turns
  <2>. QED  BY <2>1, SetsBelow
<1>. HIDE DEF new, turns
<1>4. \A k \in 1 .. n : CountAt(new, k) = CountAt(tr, k)
  BY <1>2 DEF CountAt
<1>5. CountAt(tr, n) = IF Cardinality(turns) < IMLIMAX THEN Cardinality(turns) ELSE IMLIMAX
  BY DEF CountAt, turns
<1>6. CountAt(new, n + 1) = IF cond THEN Iteration(CountAt(tr, n), b) ELSE CountAt(tr, n)
  <2>. DEFINE d == Turns(new, n + 1)
  <2>1. CountAt(new, n + 1) = IF Cardinality(d) < IMLIMAX THEN Cardinality(d) ELSE IMLIMAX
    BY DEF CountAt
  <2>2. Cardinality(turns) \in Nat
    BY <1>3, FS_CardinalityType DEF Below
  <2>3. CASE ~(cond /\ NextIsBackward(b))
    <3>1. d = turns
      BY <1>2, <2>3 DEF With
    <3>. HIDE DEF d
    <3>. QED  BY <1>5, <2>1, <2>3, <3>1 DEF Iteration
  <2>4. CASE cond /\ NextIsBackward(b)
    <3>1. d = turns \cup {n}
      BY <1>2, <2>4 DEF With
    <3>2. n \notin turns
      BY <1>1, <1>3 DEF Below
    <3>. HIDE DEF d
    <3>3. Cardinality(d) = Cardinality(turns) + 1
      BY <1>3, <3>1, <3>2, FS_AddElement DEF Below
    <3>. QED  BY <1>5, <2>1, <2>2, <2>4, <3>3, Sizes DEF Iteration, NextIsBackward
  <2>. QED  BY <2>3, <2>4
<1>7. /\ \A c, k : k \in During(new, c) <=> k \in Conds(new) /\ CountAt(new, k) = c
      /\ \A c, k : k \in During(tr, c) <=> k \in Conds(tr) /\ CountAt(tr, k) = c
  BY DEF During
<1>8. \A k \in Conds(tr) : k \in 1 .. n /\ k # n
  BY <1>1 DEF Conds
<1>9. \A k : k \in Conds(new) <=> k \in Conds(tr) \/ (k = n /\ cond)
  BY <1>2 DEF With
<1>10. n \in 1 .. n
  BY <1>1
<1>. DEFINE now == CountAt(tr, n)
<1>11. \A c, k : k \in During(new, c) <=> k \in During(tr, c) \/ (k = n /\ cond /\ c = now)
  <2>. SUFFICES ASSUME NEW c, NEW k
                PROVE  k \in During(new, c) <=> k \in During(tr, c) \/ (k = n /\ cond /\ c = now)
    OBVIOUS
  <2>1. CASE k = n
    BY <1>4, <1>7, <1>8, <1>9, <1>10, <2>1
  <2>2. CASE k # n
    BY <1>4, <1>7, <1>8, <1>9, <2>2
  <2>. QED  BY <2>1, <2>2
<1>. HIDE DEF now, cond
<1>12. During(new, now) = With(During(tr, now), n, cond)
  BY <1>11 DEF With
<1>13. \A c : c # now => During(new, c) = During(tr, c)
  BY <1>11
<1>. QED  BY <1>4, <1>6, <1>12, <1>13 DEF now, new, cond

(* The histories kept in registers are those of the trace.                  *)
RegistersMatch(h, tr) ==
  /\ h.GHIST = Recent(Conds(tr), Takens(tr) \cap Loops(tr))
  /\ \A p \in Pcs : h.L_shist[p] = Recent(At(tr, p), Takens(tr) \cap At(tr, p))
  /\ h.IMLIcount = CountAt(tr, Len(tr) + 1)
  /\ \A c \in 0 .. IMLIMAX :
       h.IMHIST[c] = Recent(During(tr, c), Takens(tr) \cap During(tr, c))

(* Adding n to a set and to a part of it.                                   *)
LEMMA RecentWith ==
  ASSUME NEW S, NEW T, NEW n \in Nat, Below(S, n), NEW t \in BOOLEAN, T \subseteq S
  PROVE  Recent(With(S, n, TRUE), With(T, n, t)) = Push(Recent(S, T), t)
<1>1. S \in SUBSET Nat /\ IsFiniteSet(S) /\ \A j \in S : j < n
  BY DEF Below
<1>2. Recent(S \cup {n}, With(T, n, t)) = Push(Recent(S, T), t)
  BY <1>1, RecentMoves, Sizes
<1>. QED  BY <1>2 DEF With

(* A conditional branch is entered in every register that it belongs to.    *)
LEMMA RegistersKeep ==
  ASSUME NEW tr \in Seq(Branches), NEW b \in Branches, b.kind = "cond",
         NEW h \in HistoryType, RegistersMatch(h, tr)
  PROVE  RegistersMatch(Registers(h, b), Append(tr, b))
<1>. DEFINE new == Append(tr, b)
            n == Len(tr) + 1
            now == CountAt(tr, n)
            g == Registers(h, b)
<1>1. n \in Nat \ {0} /\ Len(new) + 1 = n + 1
  OBVIOUS
<1>2. b.pc \in Pcs /\ b.taken \in BOOLEAN /\ b.backward \in BOOLEAN
  BY BranchType
<1>3. /\ Conds(new) = With(Conds(tr), n, TRUE)
      /\ Takens(new) = With(Takens(tr), n, b.taken)
      /\ Loops(new) = With(Loops(tr), n, b.backward)
      /\ \A p \in Pcs : At(new, p) = With(At(tr, p), n, b.pc = p)
  <2>. HIDE DEF n
  <2>1. n = Len(tr) + 1  BY DEF n
  <2>2. /\ Conds(new) = With(Conds(tr), n, b.kind = "cond")
        /\ Takens(new) = With(Takens(tr), n, b.kind = "cond" /\ b.taken)
        /\ Loops(new) = With(Loops(tr), n, b.kind = "cond" /\ b.backward)
        /\ \A p \in Pcs : At(new, p) = With(At(tr, p), n, b.kind = "cond" /\ b.pc = p)
    BY <2>1, SetsAppend
  <2>. HIDE DEF new
  <2>. QED  BY <2>2 DEF With
<1>4. /\ CountAt(new, n + 1) = Iteration(now, b)
      /\ During(new, now) = With(During(tr, now), n, TRUE)
      /\ \A c : c # now => During(new, c) = During(tr, c)
  <2>. HIDE DEF n
  <2>1. n = Len(tr) + 1  BY DEF n
  <2>2. /\ CountAt(new, n + 1) = IF b.kind = "cond" THEN Iteration(now, b) ELSE now
        /\ During(new, now) = With(During(tr, now), n, b.kind = "cond")
        /\ \A c : c # now => During(new, c) = During(tr, c)
    BY <2>1, CountAppend
  <2>. HIDE DEF new, now
  <2>. QED  BY <2>2 DEF With
<1>5. ASSUME NEW S \in SUBSET Conds(tr) PROVE Below(S, n) /\ n \notin S
  <2>1. Below(S, n)
    BY SetsBelow
  <2>. HIDE DEF n
  <2>. QED  BY <1>1, <2>1 DEF Below
<1>6. /\ Takens(tr) \in SUBSET Conds(tr) /\ Loops(tr) \in SUBSET Conds(tr)
      /\ \A p : At(tr, p) \in SUBSET Conds(tr)
      /\ \A c : During(tr, c) \in SUBSET Conds(tr)
  BY DEF Takens, Loops, At, During
<1>7. /\ g \in HistoryType
      /\ g.GHIST = Push(h.GHIST, b.taken /\ b.backward)
      /\ g.IMLIcount = Iteration(h.IMLIcount, b)
      /\ g.IMHIST = [h.IMHIST EXCEPT ![h.IMLIcount] = Push(@, b.taken)]
      /\ g.L_shist = [h.L_shist EXCEPT ![b.pc] = Push(@, b.taken)]
  BY RegistersAre
<1>8. /\ h.IMHIST \in [0 .. IMLIMAX -> Bools(WIDTH)] /\ h.IMLIcount \in 0 .. IMLIMAX
      /\ h.L_shist \in [Pcs -> Bools(WIDTH)]
  BY DEF HistoryType
<1>9. /\ h.GHIST = Recent(Conds(tr), Takens(tr) \cap Loops(tr))
      /\ \A p \in Pcs : h.L_shist[p] = Recent(At(tr, p), Takens(tr) \cap At(tr, p))
      /\ h.IMLIcount = now
      /\ \A c \in 0 .. IMLIMAX :
           h.IMHIST[c] = Recent(During(tr, c), Takens(tr) \cap During(tr, c))
  BY DEF RegistersMatch
<1>. HIDE DEF new, n, now, g
<1>10. g.GHIST = Recent(Conds(new), Takens(new) \cap Loops(new))
  <2>1. Takens(new) \cap Loops(new) = With(Takens(tr) \cap Loops(tr), n, b.taken /\ b.backward)
    BY <1>3, <1>5, <1>6 DEF With
  <2>2. (b.taken /\ b.backward) \in BOOLEAN
    BY <1>2
  <2>3. Takens(tr) \cap Loops(tr) \subseteq Conds(tr) /\ Below(Conds(tr), n)
    BY <1>5, <1>6
  <2>. DEFINE t == b.taken /\ b.backward
              S == Conds(tr)
              T == Takens(tr) \cap Loops(tr)
  <2>4. t \in BOOLEAN /\ T \subseteq S /\ Below(S, n) /\ n \in Nat
    BY <1>1, <2>2, <2>3
  <2>5. Recent(With(S, n, TRUE), With(T, n, t)) = Push(Recent(S, T), t)
    <3>. HIDE DEF S, T, t
    <3>. QED  BY <2>4, RecentWith
  <2>. QED  BY <1>3, <1>7, <1>9, <2>1, <2>5
<1>11. ASSUME NEW p \in Pcs
       PROVE  g.L_shist[p] = Recent(At(new, p), Takens(new) \cap At(new, p))
  <2>1. CASE p = b.pc
    <3>. DEFINE S == At(tr, p)
                T == Takens(tr) \cap At(tr, p)
    <3>1. At(new, p) = With(S, n, TRUE)
      BY <1>3, <2>1
    <3>2. Takens(new) \cap At(new, p) = With(T, n, b.taken)
      BY <1>3, <1>5, <1>6, <3>1 DEF With
    <3>3. T \subseteq S /\ Below(S, n) /\ n \in Nat
      BY <1>1, <1>5, <1>6
    <3>4. Recent(With(S, n, TRUE), With(T, n, b.taken)) = Push(Recent(S, T), b.taken)
      <4>. HIDE DEF S, T
      <4>. QED  BY <1>2, <3>3, RecentWith
    <3>5. g.L_shist[p] = Push(h.L_shist[p], b.taken)
      BY <1>2, <1>7, <1>8, <2>1
    <3>. QED  BY <1>9, <3>1, <3>2, <3>4, <3>5
  <2>2. CASE p # b.pc
    <3>1. At(new, p) = At(tr, p)
      BY <1>3, <2>2 DEF With
    <3>2. Takens(new) \cap At(new, p) = Takens(tr) \cap At(tr, p)
      BY <1>3, <1>5, <1>6, <3>1 DEF With
    <3>3. g.L_shist[p] = h.L_shist[p]
      BY <1>7, <1>8, <2>2
    <3>. QED  BY <1>9, <3>1, <3>2, <3>3
  <2>. QED  BY <2>1, <2>2
<1>12. g.IMLIcount = CountAt(new, Len(new) + 1)
  BY <1>1, <1>4, <1>7, <1>9
<1>13. ASSUME NEW c \in 0 .. IMLIMAX
       PROVE  g.IMHIST[c] = Recent(During(new, c), Takens(new) \cap During(new, c))
  <2>1. CASE c = now
    <3>. DEFINE S == During(tr, c)
                T == Takens(tr) \cap During(tr, c)
    <3>1. During(new, c) = With(S, n, TRUE)
      BY <1>4, <2>1
    <3>2. Takens(new) \cap During(new, c) = With(T, n, b.taken)
      BY <1>3, <1>5, <1>6, <3>1 DEF With
    <3>3. T \subseteq S /\ Below(S, n) /\ n \in Nat
      BY <1>1, <1>5, <1>6
    <3>4. Recent(With(S, n, TRUE), With(T, n, b.taken)) = Push(Recent(S, T), b.taken)
      <4>. HIDE DEF S, T
      <4>. QED  BY <1>2, <3>3, RecentWith
    <3>5. g.IMHIST[c] = Push(h.IMHIST[c], b.taken)
      BY <1>7, <1>8, <1>9, <2>1
    <3>. QED  BY <1>9, <3>1, <3>2, <3>4, <3>5
  <2>2. CASE c # now
    <3>1. During(new, c) = During(tr, c)
      BY <1>4, <2>2
    <3>2. Takens(new) \cap During(new, c) = Takens(tr) \cap During(tr, c)
      BY <1>3, <1>5, <1>6, <3>1 DEF With
    <3>3. g.IMHIST[c] = h.IMHIST[c]
      BY <1>7, <1>8, <1>9, <2>2
    <3>. QED  BY <1>9, <3>1, <3>2, <3>3
  <2>. QED  BY <2>1, <2>2
<1>. QED  BY <1>10, <1>11, <1>12, <1>13 DEF RegistersMatch, g, new

(* Other branches are not entered in the registers.                         *)
LEMMA OthersKeep ==
  ASSUME NEW tr \in Seq(Branches), NEW b \in Branches, b.kind # "cond",
         NEW h, RegistersMatch(h, tr)
  PROVE  RegistersMatch(h, Append(tr, b))
<1>. DEFINE new == Append(tr, b)
            n == Len(tr) + 1
<1>1. Len(new) + 1 = n + 1
  OBVIOUS
<1>2. n = Len(tr) + 1
  OBVIOUS
<1>. HIDE DEF n
<1>3. /\ Conds(new) = With(Conds(tr), n, b.kind = "cond")
      /\ Takens(new) = With(Takens(tr), n, b.kind = "cond" /\ b.taken)
      /\ Loops(new) = With(Loops(tr), n, b.kind = "cond" /\ b.backward)
      /\ \A p \in Pcs : At(new, p) = With(At(tr, p), n, b.kind = "cond" /\ b.pc = p)
  BY <1>2, SetsAppend
<1>4. /\ CountAt(new, n + 1) = IF b.kind = "cond" THEN Iteration(CountAt(tr, n), b)
                               ELSE CountAt(tr, n)
      /\ During(new, CountAt(tr, n)) = With(During(tr, CountAt(tr, n)), n, b.kind = "cond")
      /\ \A c : c # CountAt(tr, n) => During(new, c) = During(tr, c)
  BY <1>2, CountAppend
<1>. HIDE DEF new
<1>5. /\ Conds(new) = Conds(tr) /\ Takens(new) = Takens(tr) /\ Loops(new) = Loops(tr)
      /\ \A p \in Pcs : At(new, p) = At(tr, p)
  BY <1>3 DEF With
<1>6. /\ CountAt(new, n + 1) = CountAt(tr, n)
      /\ \A c : During(new, c) = During(tr, c)
  BY <1>4 DEF With
<1>7. RegistersMatch(h, new)
  BY <1>1, <1>2, <1>5, <1>6 DEF RegistersMatch
<1>. QED  BY <1>7 DEF new

-----------------------------------------------------------------------------
(* The histories.                                                           *)

(* Inductive: the histories match the trace, and the ring holds the bits    *)
(* that the folded copy still has to take out.                              *)
HistoryInv(h, tr) ==
  /\ tr \in Seq(Branches)
  /\ Sees(h, Bits(tr), Ones(tr), 3 * (Len(tr) + 1))
  /\ RegistersMatch(h, tr)

(* The inductive invariant implies what the histories are to be.            *)
LEMMA InvMatches ==
  ASSUME NEW h, NEW tr, HistoryInv(h, tr)
  PROVE  Matches(h, tr)
<1>1. h.comp = FoldOf(Directions(tr))
  BY DEF HistoryInv, Sees, Holds, Window, Directions
<1>. QED  BY <1>1 DEF HistoryInv, RegistersMatch, Matches

(* HistoryUpdate() keeps the invariant.                                     *)
LEMMA HistoryUpdateKeeps ==
  ASSUME NEW h, NEW tr, HistoryInv(h, tr), NEW b \in Branches
  PROVE  HistoryInv(HistoryUpdate(h, b), Append(tr, b))
<1>. DEFINE g == IF b.kind = "cond" THEN Registers(h, b) ELSE h
            new == Append(tr, b)
<1>1. /\ tr \in Seq(Branches) /\ RegistersMatch(h, tr) /\ h \in HistoryType
      /\ Sees(h, Bits(tr), Ones(tr), 3 * (Len(tr) + 1))
  BY DEF HistoryInv, Sees
<1>2. new \in Seq(Branches) /\ 3 * (Len(new) + 1) = 3 * (Len(tr) + 2)
  BY <1>1
<1>3. g \in HistoryType /\ RegistersMatch(g, new)
  BY <1>1, RegistersAre, RegistersKeep, OthersKeep
<1>4. g.ghist = h.ghist /\ g.ptghist = h.ptghist /\ g.comp = h.comp
  BY <1>1, RegistersAre
<1>. HIDE DEF g, new
<1>5. Sees(g, Bits(tr), Ones(tr), 3 * (Len(tr) + 1))
  BY <1>1, <1>3, <1>4 DEF Sees, Holds
<1>6. /\ Sees(EnterAll(g, b), Bits(new), Ones(new), 3 * (Len(tr) + 2))
      /\ SameRegisters(EnterAll(g, b), g)
  BY <1>1, <1>5, EnterAllSees DEF new
<1>7. RegistersMatch(EnterAll(g, b), new)
  BY <1>3, <1>6 DEF RegistersMatch, SameRegisters
<1>8. HistoryUpdate(h, b) = EnterAll(g, b)
  BY DEF HistoryUpdate, g
<1>. QED  BY <1>2, <1>6, <1>7, <1>8 DEF HistoryInv, new

(* The histories of no branch at all.                                       *)
LEMMA InitialMatches == HistoryInv(InitialHistory, <<>>)
<1>. DEFINE h == InitialHistory
            w == Window({}, {})
<1>1. <<>> \in Seq(Branches) /\ Len(<<>>) = 0 /\ DOMAIN <<>> = {}
  OBVIOUS
<1>2. Conds(<<>>) = {} /\ Takens(<<>>) = {} /\ Loops(<<>>) = {}
      /\ (\A p : At(<<>>, p) = {}) /\ (\A c : During(<<>>, c) = {})
      /\ \A k : Turns(<<>>, k) = {}
  BY <1>1 DEF Conds, Takens, Loops, At, During, Turns
<1>3. Bits(<<>>) = {} /\ Ones(<<>>) = {}
  <2>1. 3 * Len(<<>>) + 2 = 2  OBVIOUS
  <2>2. 3 .. 2 = {}  OBVIOUS
  <2>. QED  BY <2>1, <2>2 DEF Bits, Ones
<1>4. \A k : Youngest({}, {}, k) = FALSE
  BY DEF Youngest
<1>5. Recent({}, {}) = Zeros
  BY <1>4 DEF Recent, Zeros
<1>6. CountAt(<<>>, Len(<<>>) + 1) = 0
  <2>1. Cardinality({}) = 0
    BY FS_EmptySet
  <2>2. Cardinality(Turns(<<>>, Len(<<>>) + 1)) = 0
    BY <1>2, <2>1
  <2>. QED  BY <2>2, Sizes DEF CountAt
<1>7. h \in HistoryType
  <2>1. Zeros \in Bools(WIDTH)
    BY DEF Zeros, Bools
  <2>2. <<>> \in Seq(Nat \X (0 .. 2)) /\ <<>> \in Seq(BOOLEAN \X Nat)
    OBVIOUS
  <2>3. 0 \in 0 .. IMLIMAX
    BY Sizes
  <2>. QED  BY <2>1, <2>2, <2>3 DEF InitialHistory, HistoryType
<1>8. RegistersMatch(h, <<>>)
  <2>1. h.GHIST = Zeros /\ h.IMLIcount = 0 /\ (\A p \in Pcs : h.L_shist[p] = Zeros)
        /\ \A c \in 0 .. IMLIMAX : h.IMHIST[c] = Zeros
    BY DEF InitialHistory
  <2>. HIDE DEF h
  <2>. QED  BY <1>2, <1>5, <1>6, <2>1 DEF RegistersMatch
<1>9. Holds(h, w)
  <2>1. \A k \in 1 .. OLENGTH : w[k] = FALSE
    BY <1>4 DEF Window
  <2>2. \A k \in 1 .. OLENGTH : h.ghist[Slot(h.ptghist + k - 1)] = FALSE
    <3>1. \A k \in 1 .. OLENGTH : 0 + k - 1 \in Int
      BY Sizes
    <3>2. \A k \in 1 .. OLENGTH : Slot(0 + k - 1) \in 0 .. HISTBUFFERLENGTH - 1
      BY <3>1, RingSlot
    <3>. QED  BY <3>2 DEF InitialHistory
  <2>3. FoldOf(w) = [i \in 0 .. CLENGTH - 1 |-> FALSE]
    <3>1. ~Parity({})
      <4>1. Cardinality({}) = 0  BY FS_EmptySet
      <4>. QED  BY <4>1 DEF Parity
    <3>. HIDE DEF w
    <3>2. \A i : {k \in 1 .. OLENGTH : (k - 1) % CLENGTH = i /\ w[k]} = {}
      BY <2>1
    <3>3. Parity({}) = FALSE
      BY <3>1 DEF Parity
    <3>. QED  BY <3>2, <3>3 DEF FoldOf
  <2>4. h.comp = [i \in 0 .. CLENGTH - 1 |-> FALSE]
    BY DEF InitialHistory
  <2>. QED  BY <2>1, <2>2, <2>3, <2>4 DEF Holds
<1>10. Sees(h, {}, {}, 3 * (Len(<<>>) + 1))
  <2>1. 3 * (Len(<<>>) + 1) \in Nat
    OBVIOUS
  <2>. HIDE DEF h
  <2>. QED  BY <1>7, <1>9, <2>1, FS_EmptySet DEF Sees
<1>. QED  BY <1>1, <1>3, <1>8, <1>10 DEF HistoryInv

(* The inductive invariant of the histories holds in every reachable state. *)
THEOREM HistoryInvariance == Spec => []HistoryInv(active_hist, trace)
<1>1. Init => HistoryInv(active_hist, trace)
  BY InitialMatches DEF Init, HistoryInit
<1>2. HistoryInv(active_hist, trace) /\ [Next]_vars => HistoryInv(active_hist, trace)'
  <2>. SUFFICES ASSUME HistoryInv(active_hist, trace), [Next]_vars
                PROVE  HistoryInv(active_hist', trace')
    OBVIOUS
  <2>1. CASE UNCHANGED HistoryVars
    <3>1. active_hist' = active_hist /\ trace' = trace
      BY <2>1 DEF HistoryVars
    <3>. QED  BY <3>1
  <2>2. CASE SpecUpdate
    <3>1. PICK b \in Branches : /\ active_hist' = HistoryUpdate(active_hist, b)
                               /\ trace' = Append(trace, b)
      BY <2>2 DEF SpecUpdate
    <3>. QED  BY <3>1, HistoryUpdateKeeps
  <2>. QED  BY <2>1, <2>2, Zenon DEF Next, vars, HistoryVars
<1>. QED  BY <1>1, <1>2, PTL DEF Spec

(* The folded history is the fold of the directions of the branches that    *)
(* were executed; the global and local histories are those of the branches  *)
(* that they are kept for; and the iteration number, by which IMHIST is     *)
(* indexed, counts all loop branches taken since the start, as              *)
(* HistoryUpdate() does, which never resets it (HistoriesMatchTrace).       *)
THEOREM HistoriesRight == Spec => []HistoriesMatchTrace
<1>1. HistoryInv(active_hist, trace) => HistoriesMatchTrace
  BY InvMatches DEF HistoriesMatchTrace
<1>. QED  BY <1>1, HistoryInvariance, PTL

-----------------------------------------------------------------------------
(* The corrector.                                                           *)

USE CorrectorAssumption

-----------------------------------------------------------------------------
(* Arithmetic.                                                              *)

(* A counter keeps its width, and moves towards what it is told by one or,  *)
(* if it is saturated, not at all (ctrupdate()).                            *)
LEMMA CounterMoves ==
  ASSUME NEW max \in Nat, NEW ctr \in Counters(max), NEW taken \in BOOLEAN
  PROVE  LET new == ctrupdate(ctr, taken, max)
         IN  /\ new \in Counters(max)
             /\ taken => new >= ctr /\ (new = ctr => ctr = max)
             /\ ~taken => new <= ctr /\ (new = ctr => ctr = -(max + 1))
BY DEF ctrupdate, Counters

(* The index of a weight is one of the slots (INDUPDS).                     *)
LEMMA SlotRange ==
  ASSUME NEW n \in Nat
  PROVE  INDUPDS(n) \in 0 .. SLOTS - 1
BY DEF INDUPDS

(* A branch's cells and slots are among those of the tables.                *)
LookSane(look) ==
  /\ look.pc \in Observed
  /\ look.pred_inter \in BOOLEAN
  /\ look.conf \in {"low", "medium", "high", "other"}
  /\ \A g \in GroupNames : /\ look.slot[g] \in 0 .. SLOTS - 1
                           /\ \A i \in 1 .. NBR[g] : look.cell[g][i] \in CellsOf(look)
  /\ CellsOf(look) \subseteq Cells

LEMMA LooksSane ==
  ASSUME NEW look \in Looks
  PROVE  LookSane(look)
<1>1. PICK pc \in Observed, h \in Histories, tage \in Lookups : look = Lookup(pc, h, tage)
  BY DEF Looks
<1>2. /\ look.pc = pc /\ look.conf = tage.conf /\ look.pred_inter = tage.pred_inter
      /\ look.slot = [g \in GroupNames |-> SlotOf(g, pc, tage)]
  BY <1>1 DEF Lookup
<1>3. pc \in Nat /\ 2 * pc \in Nat /\ 2 * pc + 1 \in Nat /\ 2 * pc + 0 \in Nat
  OBVIOUS
<1>4. ASSUME NEW g \in GroupNames PROVE look.slot[g] \in 0 .. SLOTS - 1
  <2>1. look.slot[g] = SlotOf(g, pc, tage)  BY <1>2
  <2>2. CASE g = "G"
    <3>1. SlotOf(g, pc, tage) = INDUPDS(2 * pc + 1) \/ SlotOf(g, pc, tage) = INDUPDS(2 * pc + 0)
      BY <2>2 DEF SlotOf
    <3>. QED  BY <3>1, <2>1, <1>3, SlotRange, Zenon
  <2>3. CASE g # "G"
    <3>1. SlotOf(g, pc, tage) = INDUPDS(pc)  BY <2>3 DEF SlotOf
    <3>. QED  BY <3>1, <2>1, <1>3, SlotRange, Zenon
  <2>. QED  BY <2>2, <2>3
<1>5. ASSUME NEW g \in GroupNames, NEW i \in 1 .. NBR[g]
      PROVE  look.cell[g][i] \in CellsOf(look)
  BY DEF CellsOf
<1>6. CellsOf(look) \subseteq Cells
  BY Zenon DEF Cells
<1>7. /\ tage.pred_inter \in BOOLEAN
      /\ tage.conf \in {"low", "medium", "high", "other"}
  OBVIOUS
<1>. QED  BY <1>2, <1>4, <1>5, <1>6, <1>7 DEF LookSane

-----------------------------------------------------------------------------
(* Type correctness.                                                        *)

(* What the tables and the counters hold, without the ghost.                *)
TablesOK ==
  /\ tab \in [Cells -> Counters(PERCMAX)]
  /\ W \in [GroupNames \X (0 .. SLOTS - 1) -> Counters(EMAX)]
  /\ updatethreshold \in Counters(THRESMAX)
  /\ Pupdatethreshold \in [Observed -> Counters(PTHRESMAX)]
  /\ FirstH \in Counters(CONFMAX) /\ SecondH \in Counters(CONFMAX)

LEMMA CountersInt ==
  ASSUME NEW max \in Nat, NEW c \in Counters(max)
  PROVE  c \in Int
BY DEF Counters

(* One cell of a trained table.                                             *)
LEMMA LearntCell ==
  ASSUME TablesOK, NEW look, NEW dir \in BOOLEAN, NEW c \in Cells
  PROVE  /\ Learnt(look, dir)[c] \in Counters(PERCMAX)
         /\ c \in CellsOf(look) => Learnt(look, dir)[c] = ctrupdate(tab[c], dir, PERCMAX)
         /\ c \notin CellsOf(look) => Learnt(look, dir)[c] = tab[c]
<1>1. tab[c] \in Counters(PERCMAX)  BY DEF TablesOK
<1>2. ctrupdate(tab[c], dir, PERCMAX) \in Counters(PERCMAX)  BY <1>1, CounterMoves
<1>. QED  BY <1>1, <1>2 DEF Learnt

(* One weight.                                                              *)
LEMMA LearntWeight ==
  ASSUME TablesOK, NEW look, NEW sum, NEW dir \in BOOLEAN,
         NEW x \in GroupNames \X (0 .. SLOTS - 1)
  PROVE  LearntWeights(look, sum, dir)[x] \in Counters(EMAX)
<1>1. W[x] \in Counters(EMAX)  BY DEF TablesOK
<1>2. Agrees(look, x[1], sum, dir) \in BOOLEAN  BY DEF Agrees
<1>3. ctrupdate(W[x], Agrees(look, x[1], sum, dir), EMAX) \in Counters(EMAX)
  BY <1>1, <1>2, CounterMoves
<1>. QED  BY <1>1, <1>3 DEF LearntWeights

LEMMA TablesInitially == Init => TablesOK
<1>. SUFFICES ASSUME Init PROVE TablesOK
  OBVIOUS
<1>1. tab \in [Cells -> Counters(PERCMAX)]
  <2>1. PICK even \in SUBSET {c \in Cells : c[1] # "B"} :
          tab = [c \in Cells |-> IF c[1] = "B" THEN InitialBias(c[3], c[2])
                                 ELSE IF c \in even THEN -1 ELSE 0]
    BY DEF Init
  <2>2. ASSUME NEW row, NEW i PROVE InitialBias(row, i) \in Counters(PERCMAX)
    BY DEF InitialBias, Counters
  <2>3. -1 \in Counters(PERCMAX) /\ 0 \in Counters(PERCMAX)
    BY DEF Counters
  <2>. QED  BY <2>1, <2>2, <2>3
<1>2. W \in [GroupNames \X (0 .. SLOTS - 1) -> Counters(EMAX)]
  <2>1. ASSUME NEW g PROVE InitialWeight(g) \in Counters(EMAX)
    BY DEF InitialWeight, Counters
  <2>2. W = [x \in GroupNames \X (0 .. SLOTS - 1) |-> InitialWeight(x[1])]
    BY DEF Init
  <2>. QED  BY <2>1, <2>2
<1>3. updatethreshold \in Counters(THRESMAX)
  BY DEF Init, Counters
<1>4. /\ Pupdatethreshold \in [Observed -> Counters(PTHRESMAX)]
      /\ FirstH \in Counters(CONFMAX) /\ SecondH \in Counters(CONFMAX)
  BY DEF Init, Counters
<1>. QED  BY <1>1, <1>2, <1>3, <1>4 DEF TablesOK

LEMMA UpdateKeepsTables ==
  ASSUME TablesOK, NEW look \in Looks, NEW dir \in BOOLEAN, Update(look, dir)
  PROVE  TablesOK'
<1>. DEFINE sum == LSUM(look)
            thres == THRES(look)
            right == look.pred_inter = dir
            wrong == (sum >= 0) # dir
<1>1. LookSane(look)  BY LooksSane
<1>2. /\ FirstH' = IF DecidedFirst(look, sum, thres)
                   THEN ctrupdate(FirstH, right, CONFMAX) ELSE FirstH
      /\ SecondH' = IF DecidedSecond(look, sum, thres)
                    THEN ctrupdate(SecondH, right, CONFMAX) ELSE SecondH
      /\ Train(look, sum, dir) \/ UNCHANGED <<tab, W, updatethreshold, Pupdatethreshold>>
  BY DEF Update
<1>3. right \in BOOLEAN /\ wrong \in BOOLEAN
  OBVIOUS
<1>4. /\ Train(look, sum, dir) => /\ updatethreshold' = ctrupdate(updatethreshold, wrong, THRESMAX)
                                  /\ Pupdatethreshold' =
                                       [Pupdatethreshold EXCEPT ![look.pc] =
                                          ctrupdate(Pupdatethreshold[look.pc], wrong, PTHRESMAX)]
                                  /\ W' = LearntWeights(look, sum, dir)
                                  /\ tab' = Learnt(look, dir)
  BY DEF Train
<1>. HIDE DEF sum, thres, right, wrong
<1>5. FirstH' \in Counters(CONFMAX)
  <2>1. ctrupdate(FirstH, right, CONFMAX) \in Counters(CONFMAX)
    BY <1>3, CounterMoves DEF TablesOK
  <2>. QED  BY <2>1, <1>2 DEF TablesOK
<1>6. SecondH' \in Counters(CONFMAX)
  <2>1. ctrupdate(SecondH, right, CONFMAX) \in Counters(CONFMAX)
    BY <1>3, CounterMoves DEF TablesOK
  <2>. QED  BY <2>1, <1>2 DEF TablesOK
<1>7. CASE UNCHANGED <<tab, W, updatethreshold, Pupdatethreshold>>
  BY <1>5, <1>6, <1>7 DEF TablesOK
<1>8. CASE Train(look, sum, dir)
  <2>1. updatethreshold' \in Counters(THRESMAX)
    BY <1>3, <1>4, <1>8, CounterMoves DEF TablesOK
  <2>2. Pupdatethreshold' \in [Observed -> Counters(PTHRESMAX)]
    <3>1. Pupdatethreshold[look.pc] \in Counters(PTHRESMAX)
      BY <1>1 DEF TablesOK, LookSane
    <3>2. ctrupdate(Pupdatethreshold[look.pc], wrong, PTHRESMAX) \in Counters(PTHRESMAX)
      BY <3>1, <1>3, CounterMoves
    <3>. QED  BY <3>2, <1>4, <1>8 DEF TablesOK
  <2>3. W' \in [GroupNames \X (0 .. SLOTS - 1) -> Counters(EMAX)]
    <3>1. LearntWeights(look, sum, dir) =
            [x \in GroupNames \X (0 .. SLOTS - 1) |-> LearntWeights(look, sum, dir)[x]]
      BY DEF LearntWeights
    <3>. QED  BY <3>1, <1>4, <1>8, LearntWeight
  <2>4. tab' \in [Cells -> Counters(PERCMAX)]
    <3>1. Learnt(look, dir) = [c \in Cells |-> Learnt(look, dir)[c]]
      BY DEF Learnt
    <3>. QED  BY <3>1, <1>4, <1>8, LearntCell
  <2>. QED  BY <2>1, <2>2, <2>3, <2>4, <1>5, <1>6 DEF TablesOK
<1>. QED  BY <1>2, <1>7, <1>8

LEMMA StepKeepsTables == TablesOK /\ [Next]_vars => TablesOK'
<1>. SUFFICES ASSUME TablesOK, [Next]_vars PROVE TablesOK'
  OBVIOUS
<1>1. CASE UNCHANGED <<tab, W, updatethreshold, Pupdatethreshold, FirstH, SecondH>>
  BY <1>1 DEF TablesOK
<1>2. CASE \E look \in Looks, dir \in BOOLEAN : Update(look, dir)
  BY <1>2, UpdateKeepsTables
<1>. QED  BY <1>1, <1>2, Zenon DEF Next, vars

(* The tables of the corrector keep their widths in every reachable state.  *)
THEOREM TablesCorrect == Spec => []TablesOK
BY TablesInitially, StepKeepsTables, PTL DEF Spec

(* Counters of the corrector keep the widths that the code declares for     *)
(* them, and the last update was one of those considered (TypeOK).          *)
THEOREM TypeCorrect == Spec => []TypeOK
<1>. DEFINE GhostOK == updates \in 0 .. MaxUpdates /\ last \in [look : Looks, resolveDir : BOOLEAN]
<1>1. Looks # {}
  <2>1. [k \in 1 .. 0 |-> TRUE] \in Traces
    <3>1. [k \in 1 .. 0 |-> TRUE] \in [1 .. 0 -> Branches] /\ 0 \in 0 .. MaxTrace
      BY HistoryAssumption
    <3>. QED  BY <3>1, Zenon DEF Traces
  <2>2. PICK h : h \in Histories
    <3>1. HistoryAfter([k \in 1 .. 0 |-> TRUE]) \in Histories
      BY <2>1 DEF Histories
    <3>. QED  BY <3>1
  <2>3. PICK pc \in Observed, tage \in Lookups : TRUE
    OBVIOUS
  <2>4. Lookup(pc, h, tage) \in Looks
    BY <2>2, <2>3 DEF Looks
  <2>. QED  BY <2>4
<1>2. Init => GhostOK
  BY <1>1 DEF Init
<1>3. GhostOK /\ [Next]_vars => GhostOK'
  <2>. SUFFICES ASSUME GhostOK, [Next]_vars PROVE GhostOK'
    OBVIOUS
  <2>1. CASE UNCHANGED <<updates, last>>
    BY <2>1
  <2>2. ASSUME NEW look \in Looks, NEW dir \in BOOLEAN, Update(look, dir)
        PROVE  GhostOK'
    BY <2>2 DEF Update
  <2>. QED  BY <2>1, <2>2, Zenon DEF Next, vars
<1>4. TablesOK /\ GhostOK => TypeOK
  BY DEF TablesOK, TypeOK
<1>. QED  BY <1>2, <1>3, <1>4, TablesCorrect, PTL DEF Spec

-----------------------------------------------------------------------------
(* The vote of a group.                                                     *)

(* The sum of a group is a number.                                          *)
LEMMA SumOfInt ==
  ASSUME NEW t \in [Cells -> Counters(PERCMAX)],
         NEW look, LookSane(look), NEW g \in GroupNames
  PROVE  /\ \A i \in 1 .. NBR[g] : look.cell[g][i] \in Cells /\ t[look.cell[g][i]] \in Int
         /\ \A i \in 1 .. 3 : Vote(t, look, g, i) \in Int
         /\ SumOf(t, look, g) \in Int
<1>1. ASSUME NEW i \in 1 .. NBR[g]
      PROVE  look.cell[g][i] \in Cells /\ t[look.cell[g][i]] \in Int
  <2>1. look.cell[g][i] \in Cells  BY DEF LookSane
  <2>. QED  BY <2>1, CountersInt
<1>2. ASSUME NEW i \in 1 .. 3 PROVE Vote(t, look, g, i) \in Int
  <2>1. CASE i <= NBR[g]
    <3>1. i \in 1 .. NBR[g]  BY <2>1
    <3>. QED  BY <3>1, <1>1 DEF Vote
  <2>2. CASE ~(i <= NBR[g])
    BY <2>2 DEF Vote
  <2>. QED  BY <2>1, <2>2
<1>3. SumOf(t, look, g) \in Int
  BY <1>2 DEF SumOf
<1>. QED  BY <1>1, <1>2, <1>3

(* So are the vote of a group and the sum of all votes, whatever the weights*)
(* are.                                                                     *)
LEMMA SumInt ==
  ASSUME NEW t \in [Cells -> Counters(PERCMAX)], NEW w, NEW look, LookSane(look)
  PROVE  /\ \A g \in GroupNames : Gpredict(t, w, look, g) \in Int
         /\ Sum(t, w, look) \in Int
<1>1. ASSUME NEW g \in GroupNames PROVE Gpredict(t, w, look, g) \in Int
  <2>1. SumOf(t, look, g) \in Int  BY SumOfInt
  <2>. QED  BY <2>1 DEF Gpredict
<1>2. /\ Gpredict(t, w, look, "B") \in Int /\ Gpredict(t, w, look, "G") \in Int
      /\ Gpredict(t, w, look, "P") \in Int /\ Gpredict(t, w, look, "L") \in Int
      /\ Gpredict(t, w, look, "S") \in Int /\ Gpredict(t, w, look, "T") \in Int
      /\ Gpredict(t, w, look, "IM") \in Int /\ Gpredict(t, w, look, "I") \in Int
  BY <1>1 DEF GroupNames
<1>. QED  BY <1>1, <1>2 DEF Sum

(* The weight of a group changes only if the group tips the sum, towards    *)
(* doubling if its vote was right and away from it if it was wrong.         *)
LEMMA WeightMoves ==
  ASSUME TablesOK, NEW look, LookSane(look), NEW g \in GroupNames, NEW dir \in BOOLEAN,
         NEW x, x = <<g, look.slot[g]>>
  PROVE  LET new == LearntWeights(look, LSUM(look), dir)[x]
         IN  /\ W[x] \in Int /\ new \in Int
             /\ new > W[x] => Tips(look, g, LSUM(look)) /\ (PERCSUM(look, g) >= 0) = dir
             /\ new < W[x] => Tips(look, g, LSUM(look)) /\ (PERCSUM(look, g) >= 0) # dir
<1>. DEFINE sum == LSUM(look)
            agrees == Agrees(look, g, sum, dir)
            tips == Tips(look, g, sum)
            new == LearntWeights(look, sum, dir)[x]
<1>1. x \in GroupNames \X (0 .. SLOTS - 1) /\ x[1] = g /\ x[2] = look.slot[g]
  BY DEF LookSane
<1>2. new = IF tips THEN ctrupdate(W[x], agrees, EMAX) ELSE W[x]
  BY <1>1 DEF LearntWeights
<1>3. W[x] \in Counters(EMAX)
  BY <1>1 DEF TablesOK
<1>4. agrees = ((PERCSUM(look, g) >= 0) = dir) /\ agrees \in BOOLEAN
  BY DEF Agrees
<1>5. W[x] \in Int
  BY <1>3, CountersInt
<1>. HIDE DEF agrees, new, tips, sum
<1>6. /\ ctrupdate(W[x], agrees, EMAX) \in Counters(EMAX)
      /\ agrees => ctrupdate(W[x], agrees, EMAX) >= W[x]
      /\ ~agrees => ctrupdate(W[x], agrees, EMAX) <= W[x]
  BY <1>3, <1>4, CounterMoves
<1>7. ctrupdate(W[x], agrees, EMAX) \in Int
  BY <1>6, CountersInt
<1>8. new \in Int
  BY <1>2, <1>5, <1>7
<1>9. new > W[x] => tips /\ agrees
  BY <1>2, <1>5, <1>6, <1>7
<1>10. new < W[x] => tips /\ ~agrees
  BY <1>2, <1>5, <1>6, <1>7
<1>. QED  BY <1>4, <1>5, <1>8, <1>9, <1>10 DEF sum, new, tips

(* Gupdate() compares the two sums that the group can produce.              *)
LEMMA TwoSums ==
  ASSUME TablesOK, NEW look, LookSane(look), NEW g \in GroupNames
  PROVE  LET P == PERCSUM(look, g)
         IN  /\ P \in Int /\ Other(look, g) \in Int
             /\ XSUM(look, g, LSUM(look)) = Other(look, g) + P
             /\ Tips(look, g, LSUM(look)) =
                  ((Other(look, g) + 2 * P >= 0) # (Other(look, g) + P >= 0))
<1>. DEFINE P == PERCSUM(look, g)
            sum == LSUM(look)
            w == W[<<g, look.slot[g]>>]
<1>1. P \in Int
  BY SumOfInt DEF PERCSUM, TablesOK
<1>2. sum \in Int /\ Gpredict(tab, W, look, g) \in Int
  BY SumInt DEF LSUM, TablesOK
<1>3. Gpredict(tab, W, look, g) = (IF w >= 0 THEN 2 ELSE 1) * P
  BY DEF Gpredict, PERCSUM
<1>4. Other(look, g) = sum - Gpredict(tab, W, look, g)
  BY DEF Other
<1>5. XSUM(look, g, sum) = IF w >= 0 THEN sum - P ELSE sum
  BY DEF XSUM
<1>6. Tips(look, g, sum) = ((XSUM(look, g, sum) + P >= 0) # (XSUM(look, g, sum) >= 0))
  BY DEF Tips
<1>. HIDE DEF P, sum, w
<1>7. Other(look, g) \in Int
  BY <1>2, <1>4
<1>8. XSUM(look, g, sum) = Other(look, g) + P
  BY <1>1, <1>2, <1>3, <1>4, <1>5
<1>9. Other(look, g) + P + P = Other(look, g) + 2 * P
  BY <1>1, <1>7
<1>10. Tips(look, g, sum) = ((Other(look, g) + 2 * P >= 0) # (Other(look, g) + P >= 0))
  BY <1>6, <1>8, <1>9
<1>. QED  BY <1>1, <1>7, <1>8, <1>10 DEF P, sum

-----------------------------------------------------------------------------
(* Action properties.                                                       *)

(* What one update does to tables and weights, and that it says so in last. *)
LEMMA UpdateEffect ==
  ASSUME NEW look, NEW dir, Update(look, dir)
  PROVE  /\ last'.look = look /\ last'.resolveDir = dir
         /\ Trains(LSUM(look), THRES(look), dir) =>
              W' = LearntWeights(look, LSUM(look), dir) /\ tab' = Learnt(look, dir)
         /\ ~Trains(LSUM(look), THRES(look), dir) => W' = W /\ tab' = tab
<1>1. last' = [look |-> look, resolveDir |-> dir]
  BY DEF Update
<1>2. \/ Trains(LSUM(look), THRES(look), dir) /\ Train(look, LSUM(look), dir)
      \/ ~Trains(LSUM(look), THRES(look), dir) /\ W' = W /\ tab' = tab
  BY DEF Update
<1>. QED  BY <1>1, <1>2 DEF Train

(* A weight is trained only if the group doubled and the group single       *)
(* predict different directions, and towards the one that is right.         *)
WeightRight(look, dir, g) ==
  LET x == <<g, look.slot[g]>>
      single == Other(look, g) + PERCSUM(look, g) >= 0
      double == Other(look, g) + 2 * PERCSUM(look, g) >= 0
  IN  /\ W'[x] > W[x] => double = dir /\ single # dir
      /\ W'[x] < W[x] => single = dir /\ double # dir

(* A vote that tips the sum is, doubled, on its own side and, single, on the*)
(* other one.                                                               *)
LEMMA TippingSide ==
  ASSUME NEW o \in Int, NEW p \in Int, NEW dir \in BOOLEAN,
         (o + 2 * p >= 0) # (o + p >= 0)
  PROVE  /\ (p >= 0) = dir => (o + 2 * p >= 0) = dir /\ (o + p >= 0) # dir
         /\ (p >= 0) # dir => (o + p >= 0) = dir /\ (o + 2 * p >= 0) # dir
<1>1. CASE p >= 0
  <2>1. o + 2 * p >= 0 /\ ~(o + p >= 0)  BY <1>1
  <2>. QED  BY <1>1, <2>1
<1>2. CASE ~(p >= 0)
  <2>1. o + p >= 0 /\ ~(o + 2 * p >= 0)  BY <1>2
  <2>. QED  BY <1>2, <2>1
<1>. QED  BY <1>1, <1>2

LEMMA UpdateTrainsRight ==
  ASSUME TablesOK, NEW look \in Looks, NEW dir \in BOOLEAN, Update(look, dir),
         NEW g \in GroupNames
  PROVE  WeightRight(look, dir, g)
<1>. DEFINE x == <<g, look.slot[g]>>
            P == PERCSUM(look, g)
            O == Other(look, g)
            tips == Tips(look, g, LSUM(look))
            new == LearntWeights(look, LSUM(look), dir)[x]
<1>1. LookSane(look)  BY LooksSane
<1>2. /\ P \in Int /\ O \in Int
      /\ tips = ((O + 2 * P >= 0) # (O + P >= 0))
  BY <1>1, TwoSums
<1>3. /\ W[x] \in Int /\ new \in Int
      /\ new > W[x] => tips /\ (P >= 0) = dir
      /\ new < W[x] => tips /\ (P >= 0) # dir
  BY <1>1, WeightMoves
<1>4. W'[x] = new \/ W'[x] = W[x]
  BY UpdateEffect
<1>. HIDE DEF x, P, O, tips, new
<1>5. tips => /\ (P >= 0) = dir => (O + 2 * P >= 0) = dir /\ (O + P >= 0) # dir
              /\ (P >= 0) # dir => (O + P >= 0) = dir /\ (O + 2 * P >= 0) # dir
  <2>. SUFFICES ASSUME tips
                PROVE  /\ (P >= 0) = dir => (O + 2 * P >= 0) = dir /\ (O + P >= 0) # dir
                       /\ (P >= 0) # dir => (O + P >= 0) = dir /\ (O + 2 * P >= 0) # dir
    OBVIOUS
  <2>1. (O + 2 * P >= 0) # (O + P >= 0)
    BY <1>2
  <2>. QED  BY <1>2, <2>1, TippingSide
<1>6. (W'[x] > W[x] => new > W[x]) /\ (W'[x] < W[x] => new < W[x])
  <2>1. CASE W'[x] = new
    BY <2>1, Zenon
  <2>2. CASE W'[x] = W[x]
    <3>1. W[x] \in Int  BY <1>3
    <3>2. ~(W'[x] > W[x]) /\ ~(W'[x] < W[x])  BY <2>2, <3>1
    <3>. QED  BY <3>2
  <2>. QED  BY <1>4, <2>1, <2>2
<1>7. /\ W'[x] > W[x] => (O + 2 * P >= 0) = dir /\ (O + P >= 0) # dir
      /\ W'[x] < W[x] => (O + P >= 0) = dir /\ (O + 2 * P >= 0) # dir
  BY <1>3, <1>5, <1>6, Zenon
<1>. QED  BY <1>7 DEF WeightRight, x, P, O

(* Gupdate() trains a weight only if it matters, towards the side that is   *)
(* right (WeightsLearnRightSide).                                           *)
THEOREM WeightsRight == Spec => WeightsLearnRightSide
<1>. DEFINE Right ==
       \A g \in GroupNames :
         LET look == last'.look
             x == <<g, look.slot[g]>>
             single == Other(look, g) + PERCSUM(look, g) >= 0
             double == Other(look, g) + 2 * PERCSUM(look, g) >= 0
         IN  /\ W'[x] > W[x] => double = last'.resolveDir /\ single # last'.resolveDir
             /\ W'[x] < W[x] => single = last'.resolveDir /\ double # last'.resolveDir
<1>1. TypeOK /\ [Next]_vars => [Right]_vars
  <2>. SUFFICES ASSUME TypeOK, Next PROVE Right
    OBVIOUS
  <2>. SUFFICES ASSUME NEW g \in GroupNames
                PROVE  WeightRight(last'.look, last'.resolveDir, g)
    BY Zenon DEF WeightRight
  <2>0. TablesOK
    BY DEF TypeOK, TablesOK
  <2>1. CASE W' = W /\ last' = last
    <3>. DEFINE x == <<g, last.look.slot[g]>>
    <3>1. LookSane(last.look)  BY LooksSane DEF TypeOK
    <3>2. x \in GroupNames \X (0 .. SLOTS - 1)  BY <3>1 DEF LookSane
    <3>3. W[x] \in Int
      BY <3>2, <2>0, CountersInt DEF TablesOK
    <3>. HIDE DEF x
    <3>4. ~(W'[x] > W[x]) /\ ~(W'[x] < W[x])
      BY <3>3, <2>1
    <3>. QED  BY <3>4, <2>1 DEF WeightRight, x
  <2>2. ASSUME NEW look \in Looks, NEW dir \in BOOLEAN, Update(look, dir)
        PROVE  WeightRight(last'.look, last'.resolveDir, g)
    BY <2>0, <2>2, UpdateTrainsRight, UpdateEffect, Zenon
  <2>. QED  BY <2>1, <2>2, Zenon DEF Next
<1>. QED  BY <1>1, TypeCorrect, PTL DEF Spec, WeightsLearnRightSide

(* The threshold is a number.                                               *)
LEMMA ThresholdInt ==
  ASSUME TablesOK, NEW look, LookSane(look)
  PROVE  THRES(look) \in Int
<1>. DEFINE names == GroupNames \ {"IM"}
<1>1. IsFiniteSet(names) /\ Doubled(look) \subseteq names
  <2>. DEFINE S1 == {"B"} \cup {"G"}
              S2 == S1 \cup {"P"}
              S3 == S2 \cup {"L"}
              S4 == S3 \cup {"S"}
              S5 == S4 \cup {"T"}
              S6 == S5 \cup {"I"}
  <2>1. ASSUME NEW S, IsFiniteSet(S), NEW e PROVE IsFiniteSet(S \cup {e})
    BY <2>1, FS_AddElement
  <2>2. IsFiniteSet({"B"})  BY FS_Singleton
  <2>3. IsFiniteSet(S1)  BY <2>1, <2>2, Zenon
  <2>4. IsFiniteSet(S2)  BY <2>1, <2>3, Zenon
  <2>5. IsFiniteSet(S3)  BY <2>1, <2>4, Zenon
  <2>6. IsFiniteSet(S4)  BY <2>1, <2>5, Zenon
  <2>7. IsFiniteSet(S5)  BY <2>1, <2>6, Zenon
  <2>8. IsFiniteSet(S6)  BY <2>1, <2>7, Zenon
  <2>9. names \subseteq S6  BY DEF GroupNames
  <2>10. IsFiniteSet(names)  BY <2>8, <2>9, FS_Subset
  <2>. QED  BY <2>10 DEF Doubled
<1>2. Cardinality(Doubled(look)) \in Nat
  BY <1>1, FS_Subset, FS_CardinalityType, Zenon
<1>3. updatethreshold \in Int /\ Pupdatethreshold[look.pc] \in Int
  BY CountersInt DEF TablesOK, LookSane
<1>. QED  BY <1>2, <1>3 DEF THRES

(* The conditions of predict() and of update() agree.                       *)
LEMMA ChooserAgrees ==
  ASSUME NEW look, LookSane(look), NEW sum \in Int, NEW thres \in Int
  PROVE  /\ FirstDecides(look, sum, thres) <=> DecidedFirst(look, sum, thres)
         /\ SecondDecides(look, sum, thres) <=> DecidedSecond(look, sum, thres)
<1>. DEFINE q == thres \div 4
            h == thres \div 2
            a == Abs(sum)
            SCPRED == sum >= 0
<1>1. /\ q \in Int /\ h \in Int /\ a \in Nat
      /\ (a < h) => a < thres
  BY DEF Abs
<1>2. look.pred_inter \in BOOLEAN /\ SCPRED \in BOOLEAN
  BY DEF LookSane
<1>3. -1 < 0 /\ ~(0 < 0)
  OBVIOUS
<1>4. FirstDecides(look, sum, thres) <=> DecidedFirst(look, sum, thres)
  BY <1>2, <1>3 DEF FirstDecides, DecidedFirst, Prediction
<1>5. SecondDecides(look, sum, thres) <=> DecidedSecond(look, sum, thres)
  <2>1. SecondDecides(look, sum, thres) <=>
          /\ look.pred_inter # SCPRED /\ look.conf = "high"
          /\ ~(a < q) /\ a < h
    BY <1>2, <1>3 DEF SecondDecides, Prediction
  <2>2. DecidedSecond(look, sum, thres) <=>
          /\ look.pred_inter # SCPRED /\ look.conf = "high"
          /\ a < thres /\ a < h /\ a >= q
    BY DEF DecidedSecond
  <2>3. a >= q <=> ~(a < q)
    BY <1>1
  <2>. QED  BY <1>1, <2>1, <2>2, <2>3
<1>. QED  BY <1>4, <1>5

(* What an update does to the chooser.                                      *)
ChooserRight(look, dir) ==
  LET sum == LSUM(look)
      thres == THRES(look)
      Trained(ctr) == ctrupdate(ctr, look.pred_inter = dir, CONFMAX)
  IN  /\ FirstH' = IF FirstDecides(look, sum, thres) THEN Trained(FirstH) ELSE FirstH
      /\ SecondH' = IF SecondDecides(look, sum, thres) THEN Trained(SecondH) ELSE SecondH

LEMMA UpdateTrainsChooser ==
  ASSUME TablesOK, NEW look \in Looks, NEW dir \in BOOLEAN, Update(look, dir)
  PROVE  ChooserRight(look, dir)
<1>1. LookSane(look)  BY LooksSane
<1>2. LSUM(look) \in Int
  BY <1>1, SumInt DEF LSUM, TablesOK
<1>3. THRES(look) \in Int
  BY <1>1, ThresholdInt
<1>4. /\ FirstDecides(look, LSUM(look), THRES(look)) <=> DecidedFirst(look, LSUM(look), THRES(look))
      /\ SecondDecides(look, LSUM(look), THRES(look)) <=> DecidedSecond(look, LSUM(look), THRES(look))
  BY <1>1, <1>2, <1>3, ChooserAgrees, Zenon
<1>5. /\ FirstH' = IF DecidedFirst(look, LSUM(look), THRES(look))
                   THEN ctrupdate(FirstH, look.pred_inter = dir, CONFMAX) ELSE FirstH
      /\ SecondH' = IF DecidedSecond(look, LSUM(look), THRES(look))
                    THEN ctrupdate(SecondH, look.pred_inter = dir, CONFMAX) ELSE SecondH
  BY Zenon DEF Update
<1>. QED  BY <1>4, <1>5, Zenon DEF ChooserRight

(* An update that counts is one of Update().                                *)
LEMMA CountedUpdate ==
  ASSUME TypeOK, [Next]_vars, updates' > updates
  PROVE  /\ TablesOK
         /\ \E look \in Looks, dir \in BOOLEAN : Update(look, dir)
<1>1. updates \in Int  BY DEF TypeOK
<1>2. updates' # updates  BY <1>1
<1>3. \E look \in Looks, dir \in BOOLEAN : Update(look, dir)
  BY <1>2, Zenon DEF Next, vars
<1>. QED  BY <1>3 DEF TypeOK, TablesOK

(* The chooser's counters are trained exactly when they decided, towards    *)
(* what is right (ChooserTrainedWhereUsed).                                 *)
THEOREM ChooserTrained == Spec => ChooserTrainedWhereUsed
<1>. DEFINE Right ==
       updates' > updates =>
       LET look == last'.look
           sum == LSUM(look)
           thres == THRES(look)
           Trained(ctr) == ctrupdate(ctr, look.pred_inter = last'.resolveDir, CONFMAX)
       IN  /\ FirstH' = IF FirstDecides(look, sum, thres) THEN Trained(FirstH) ELSE FirstH
           /\ SecondH' = IF SecondDecides(look, sum, thres) THEN Trained(SecondH) ELSE SecondH
<1>1. TypeOK /\ [Next]_vars => [Right]_vars
  <2>. SUFFICES ASSUME TypeOK, [Next]_vars, updates' > updates
                PROVE  ChooserRight(last'.look, last'.resolveDir)
    BY Zenon DEF ChooserRight
  <2>1. PICK look \in Looks, dir \in BOOLEAN : TablesOK /\ Update(look, dir)
    BY CountedUpdate, Zenon
  <2>2. ChooserRight(look, dir)  BY <2>1, UpdateTrainsChooser
  <2>3. last'.look = look /\ last'.resolveDir = dir  BY <2>1, UpdateEffect
  <2>. QED  BY <2>2, <2>3, Zenon
<1>. QED  BY <1>1, TypeCorrect, PTL DEF Spec, ChooserTrainedWhereUsed

-----------------------------------------------------------------------------
(* Training moves the sum.                                                  *)

(* The arithmetic of a group whose vote goes from p to q while its weight   *)
(* goes from v to w.                                                        *)
LEMMA VoteMovesUp ==
  ASSUME NEW p \in Int, NEW q \in Int, NEW v \in Int, NEW w \in Int,
         q >= p, w > v => p >= 0, w < v => p < 0
  PROVE  LET d == (IF w >= 0 THEN 2 ELSE 1) * q - (IF v >= 0 THEN 2 ELSE 1) * p
         IN  d >= 0 /\ (q > p => d > 0)
<1>1. CASE w >= 0 /\ v >= 0  BY <1>1
<1>2. CASE w < 0 /\ v < 0  BY <1>2
<1>3. CASE w >= 0 /\ v < 0  BY <1>3
<1>4. CASE w < 0 /\ v >= 0  BY <1>4
<1>. QED  BY <1>1, <1>2, <1>3, <1>4

LEMMA VoteMovesDown ==
  ASSUME NEW p \in Int, NEW q \in Int, NEW v \in Int, NEW w \in Int,
         q <= p, w > v => p < 0, w < v => p >= 0
  PROVE  LET d == (IF v >= 0 THEN 2 ELSE 1) * p - (IF w >= 0 THEN 2 ELSE 1) * q
         IN  d >= 0 /\ (q < p => d > 0)
<1>1. CASE w >= 0 /\ v >= 0  BY <1>1
<1>2. CASE w < 0 /\ v < 0  BY <1>2
<1>3. CASE w >= 0 /\ v < 0  BY <1>3
<1>4. CASE w < 0 /\ v >= 0  BY <1>4
<1>. QED  BY <1>1, <1>2, <1>3, <1>4

(* A counter moves towards the direction, unless it is saturated.           *)
LEMMA CounterTowards ==
  ASSUME NEW ctr \in Counters(PERCMAX), NEW dir \in BOOLEAN
  PROVE  LET new == ctrupdate(ctr, dir, PERCMAX)
         IN  /\ ctr \in Int /\ new \in Int
             /\ Towards(dir, ctr, new) >= 0
             /\ ~Saturated(ctr, dir) => Towards(dir, ctr, new) > 0
<1>1. CASE dir = TRUE
  BY <1>1 DEF ctrupdate, Counters, Towards, Saturated
<1>2. CASE dir = FALSE
  BY <1>2 DEF ctrupdate, Counters, Towards, Saturated
<1>. QED  BY <1>1, <1>2

(* The sum of a group moves with its counters.                              *)
LEMMA TableMoves ==
  ASSUME TablesOK, NEW look, LookSane(look), NEW g \in GroupNames, NEW dir \in BOOLEAN
  PROVE  LET moved == Towards(dir, SumOf(tab, look, g), SumOf(Learnt(look, dir), look, g))
         IN  /\ moved >= 0
             /\ \A i \in 1 .. NBR[g] : ~Saturated(tab[look.cell[g][i]], dir) => moved > 0
<1>. DEFINE new == Learnt(look, dir)
            a(i) == Vote(tab, look, g, i)
            b(i) == Vote(new, look, g, i)
<1>1. tab \in [Cells -> Counters(PERCMAX)] /\ new \in [Cells -> Counters(PERCMAX)]
  <2>1. new = [c \in Cells |-> new[c]]
    BY DEF Learnt
  <2>2. \A c \in Cells : new[c] \in Counters(PERCMAX)
    BY LearntCell
  <2>. QED  BY <2>1, <2>2 DEF TablesOK
<1>2. ASSUME NEW i \in 1 .. NBR[g]
      PROVE  LET c == look.cell[g][i]
             IN  /\ tab[c] \in Int /\ new[c] \in Int
                 /\ Towards(dir, tab[c], new[c]) >= 0
                 /\ ~Saturated(tab[c], dir) => Towards(dir, tab[c], new[c]) > 0
  <2>. DEFINE c == look.cell[g][i]
  <2>1. c \in Cells /\ c \in CellsOf(look)
    BY DEF LookSane
  <2>2. new[c] = ctrupdate(tab[c], dir, PERCMAX) /\ tab[c] \in Counters(PERCMAX)
    BY <2>1, LearntCell DEF TablesOK
  <2>. HIDE DEF c, new
  <2>. QED  BY <2>2, CounterTowards DEF c
<1>3. /\ NBR[g] \in Nat
      /\ \A i \in 1 .. 3 : a(i) \in Int /\ b(i) \in Int
  BY <1>1, SumOfInt
<1>4. ASSUME NEW i \in 1 .. 3 PROVE Towards(dir, a(i), b(i)) >= 0
  <2>1. CASE i <= NBR[g]
    <3>1. i \in 1 .. NBR[g]  BY <2>1, <1>3
    <3>2. a(i) = 2 * tab[look.cell[g][i]] + 1 /\ b(i) = 2 * new[look.cell[g][i]] + 1
      BY <2>1, Zenon DEF Vote
    <3>. HIDE DEF a, b, new
    <3>. QED  BY <3>1, <3>2, <1>2 DEF Towards
  <2>2. CASE ~(i <= NBR[g])
    <3>1. a(i) = 0 /\ b(i) = 0  BY <2>2, Zenon DEF Vote
    <3>. HIDE DEF a, b, new
    <3>. QED  BY <3>1 DEF Towards
  <2>. QED  BY <2>1, <2>2
<1>5. ASSUME NEW i \in 1 .. NBR[g], ~Saturated(tab[look.cell[g][i]], dir)
      PROVE  i \in 1 .. 3 /\ Towards(dir, a(i), b(i)) > 0
  <2>1. i \in 1 .. 3 /\ i <= NBR[g]  OBVIOUS
  <2>2. a(i) = 2 * tab[look.cell[g][i]] + 1 /\ b(i) = 2 * new[look.cell[g][i]] + 1
    BY <2>1, Zenon DEF Vote
  <2>. HIDE DEF a, b, new
  <2>. QED  BY <2>1, <2>2, <1>2, <1>5 DEF Towards
<1>6. /\ SumOf(tab, look, g) = a(1) + a(2) + a(3)
      /\ SumOf(new, look, g) = b(1) + b(2) + b(3)
  BY DEF SumOf
<1>7. 1 \in 1 .. 3 /\ 2 \in 1 .. 3 /\ 3 \in 1 .. 3
  OBVIOUS
<1>. DEFINE moved == Towards(dir, SumOf(tab, look, g), SumOf(new, look, g))
<1>. HIDE DEF a, b, new
<1>8. moved = Towards(dir, a(1), b(1)) + Towards(dir, a(2), b(2)) + Towards(dir, a(3), b(3))
  BY <1>3, <1>6, <1>7 DEF Towards
<1>9. \A i \in 1 .. 3 : Towards(dir, a(i), b(i)) \in Int
  BY <1>3 DEF Towards
<1>10. moved >= 0
  BY <1>4, <1>7, <1>8, <1>9
<1>11. ASSUME NEW i \in 1 .. NBR[g], ~Saturated(tab[look.cell[g][i]], dir)
       PROVE  moved > 0
  <2>1. i \in 1 .. 3 /\ Towards(dir, a(i), b(i)) > 0  BY <1>5, <1>11
  <2>2. i = 1 \/ i = 2 \/ i = 3  BY <2>1
  <2>. QED  BY <2>1, <2>2, <1>4, <1>7, <1>8, <1>9
<1>. QED  BY <1>10, <1>11 DEF new

(* The vote of a group, with its new weight, moves likewise.                *)
LEMMA GroupMoves ==
  ASSUME TablesOK, NEW look, LookSane(look), NEW g \in GroupNames, NEW dir \in BOOLEAN
  PROVE  LET moved == Towards(dir, Gpredict(tab, W, look, g),
                              Gpredict(Learnt(look, dir),
                                       LearntWeights(look, LSUM(look), dir), look, g))
         IN  /\ moved \in Int /\ moved >= 0
             /\ \A i \in 1 .. NBR[g] : ~Saturated(tab[look.cell[g][i]], dir) => moved > 0
<1>. DEFINE x == <<g, look.slot[g]>>
            new == Learnt(look, dir)
            ws == LearntWeights(look, LSUM(look), dir)
            p == SumOf(tab, look, g)
            q == SumOf(new, look, g)
            v == W[x]
            w == ws[x]
            f == (IF v >= 0 THEN 2 ELSE 1) * p
            h == (IF w >= 0 THEN 2 ELSE 1) * q
            free == \E i \in 1 .. NBR[g] : ~Saturated(tab[look.cell[g][i]], dir)
<1>1. /\ v \in Int /\ w \in Int
      /\ w > v => (p >= 0) = dir
      /\ w < v => (p >= 0) # dir
  BY WeightMoves DEF PERCSUM
<1>2. Towards(dir, p, q) >= 0 /\ (free => Towards(dir, p, q) > 0)
  BY TableMoves, Zenon
<1>3. new \in [Cells -> Counters(PERCMAX)]
  <2>1. new = [c \in Cells |-> new[c]]
    BY DEF Learnt
  <2>2. \A c \in Cells : new[c] \in Counters(PERCMAX)
    BY LearntCell
  <2>. QED  BY <2>1, <2>2
<1>4. p \in Int /\ q \in Int
  BY <1>3, SumOfInt DEF TablesOK
<1>5. Gpredict(tab, W, look, g) = f /\ Gpredict(new, ws, look, g) = h
  BY DEF Gpredict
<1>. HIDE DEF x, new, ws, p, q, v, w, free
<1>6. f \in Int /\ h \in Int
  BY <1>4
<1>7. CASE dir = TRUE
  <2>1. q >= p /\ (free => q > p)
    BY <1>2, <1>4, <1>7 DEF Towards
  <2>2. (w > v => p >= 0) /\ (w < v => p < 0)
    <3>1. (w > v => p >= 0) /\ (w < v => ~(p >= 0))  BY <1>1, <1>7
    <3>. QED  BY <1>4, <3>1
  <2>3. h - f >= 0 /\ (q > p => h - f > 0)
    BY <1>1, <1>4, <2>1, <2>2, VoteMovesUp
  <2>. HIDE DEF f, h
  <2>4. Towards(dir, f, h) \in Int /\ Towards(dir, f, h) >= 0 /\ (free => Towards(dir, f, h) > 0)
    BY <1>6, <1>7, <2>1, <2>3 DEF Towards
  <2>. QED  BY <2>4, <1>5 DEF new, ws, free
<1>8. CASE dir = FALSE
  <2>1. q <= p /\ (free => q < p)
    BY <1>2, <1>4, <1>8 DEF Towards
  <2>2. (w > v => p < 0) /\ (w < v => p >= 0)
    BY <1>1, <1>4, <1>8
  <2>3. f - h >= 0 /\ (q < p => f - h > 0)
    BY <1>1, <1>4, <2>1, <2>2, VoteMovesDown
  <2>. HIDE DEF f, h
  <2>4. Towards(dir, f, h) \in Int /\ Towards(dir, f, h) >= 0 /\ (free => Towards(dir, f, h) > 0)
    BY <1>6, <1>8, <2>1, <2>3 DEF Towards
  <2>. QED  BY <2>4, <1>5 DEF new, ws, free
<1>. QED  BY <1>7, <1>8

(* So does the sum of all groups.                                           *)
LEMMA TrainedSumMoves ==
  ASSUME TablesOK, NEW look, LookSane(look), NEW dir \in BOOLEAN
  PROVE  LET moved == Towards(dir, LSUM(look),
                              Sum(Learnt(look, dir), LearntWeights(look, LSUM(look), dir), look))
         IN  moved >= 0 /\ (moved > 0 \/ \A c \in CellsOf(look) : Saturated(tab[c], dir))
<1>. DEFINE new == Learnt(look, dir)
            ws == LearntWeights(look, LSUM(look), dir)
            f(g) == Gpredict(tab, W, look, g)
            h(g) == Gpredict(new, ws, look, g)
            m(g) == Towards(dir, f(g), h(g))
            moved == Towards(dir, LSUM(look), Sum(new, ws, look))
<1>1. \A g \in GroupNames :
        /\ m(g) \in Int /\ m(g) >= 0
        /\ \A i \in 1 .. NBR[g] : ~Saturated(tab[look.cell[g][i]], dir) => m(g) > 0
  BY GroupMoves
<1>2. new \in [Cells -> Counters(PERCMAX)]
  <2>1. new = [c \in Cells |-> new[c]]
    BY DEF Learnt
  <2>2. \A c \in Cells : new[c] \in Counters(PERCMAX)
    BY LearntCell
  <2>. QED  BY <2>1, <2>2
<1>3. \A g \in GroupNames : f(g) \in Int /\ h(g) \in Int
  BY <1>2, SumInt DEF TablesOK
<1>4. {"B", "G", "P", "L", "S", "T", "IM", "I"} = GroupNames
  BY DEF GroupNames
<1>5. /\ LSUM(look) = f("B") + f("G") + f("P") + f("L") + f("S") + f("T") + f("IM") + f("I")
      /\ Sum(new, ws, look) = h("B") + h("G") + h("P") + h("L") + h("S") + h("T")
                                 + h("IM") + h("I")
  BY DEF LSUM, Sum
<1>. HIDE DEF f, h, new, ws
<1>6. moved = m("B") + m("G") + m("P") + m("L") + m("S") + m("T") + m("IM") + m("I")
  BY <1>3, <1>4, <1>5 DEF Towards
<1>. HIDE DEF m, moved
<1>7. moved >= 0
  BY <1>1, <1>4, <1>6
<1>8. ASSUME NEW g \in GroupNames, m(g) > 0 PROVE moved > 0
  BY <1>1, <1>4, <1>6, <1>8
<1>9. ASSUME NEW c \in CellsOf(look), ~Saturated(tab[c], dir) PROVE moved > 0
  <2>1. PICK g \in GroupNames : \E i \in 1 .. NBR[g] : c = look.cell[g][i]
    BY DEF CellsOf
  <2>2. m(g) > 0
    BY <2>1, <1>1, <1>9
  <2>. QED  BY <2>2, <1>8
<1>. QED  BY <1>7, <1>9 DEF moved, new, ws

LEMMA UpdateMovesSum ==
  ASSUME TablesOK, NEW look \in Looks, NEW dir \in BOOLEAN, Update(look, dir)
  PROVE  LET moved == Towards(dir, LSUM(look), Sum(tab', W', look))
         IN  /\ moved >= 0
             /\ Trains(LSUM(look), THRES(look), dir) =>
                  moved > 0 \/ \A c \in CellsOf(look) : Saturated(tab[c], dir)
<1>1. LookSane(look)  BY LooksSane
<1>2. CASE Trains(LSUM(look), THRES(look), dir)
  <2>1. W' = LearntWeights(look, LSUM(look), dir) /\ tab' = Learnt(look, dir)
    BY <1>2, UpdateEffect
  <2>. QED  BY <1>1, <2>1, TrainedSumMoves
<1>3. CASE ~Trains(LSUM(look), THRES(look), dir)
  <2>1. Sum(tab', W', look) = LSUM(look)
    <3>1. W' = W /\ tab' = tab  BY <1>3, UpdateEffect
    <3>. QED  BY <3>1 DEF LSUM
  <2>2. LSUM(look) \in Int
    BY <1>1, SumInt DEF LSUM, TablesOK
  <2>3. Towards(dir, LSUM(look), LSUM(look)) = 0
    BY <2>2 DEF Towards
  <2>. QED  BY <1>3, <2>1, <2>3
<1>. QED  BY <1>2, <1>3

(* Training never moves the sum away from the direction, and moves it unless*)
(* all counters are saturated (SumMovesRight).                              *)
THEOREM SumMoves == Spec => SumMovesRight
<1>. DEFINE Right ==
       updates' > updates =>
       LET look == last'.look
           dir == last'.resolveDir
           moved == Towards(dir, LSUM(look), Sum(tab', W', look))
       IN  /\ moved >= 0
           /\ Trains(LSUM(look), THRES(look), dir) =>
                \/ moved > 0
                \/ \A c \in CellsOf(look) : Saturated(tab[c], dir)
<1>1. TypeOK /\ [Next]_vars => [Right]_vars
  <2>. SUFFICES ASSUME TypeOK, [Next]_vars, updates' > updates
                PROVE  Right
    OBVIOUS
  <2>1. PICK look \in Looks, dir \in BOOLEAN : TablesOK /\ Update(look, dir)
    BY CountedUpdate, Zenon
  <2>2. last'.look = look /\ last'.resolveDir = dir  BY <2>1, UpdateEffect
  <2>. QED  BY <2>1, <2>2, UpdateMovesSum
<1>. QED  BY <1>1, TypeCorrect, PTL DEF Spec, SumMovesRight
=============================================================================
