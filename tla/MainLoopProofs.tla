--------------------------- MODULE MainLoopProofs ---------------------------
(***************************************************************************)
(* Proofs about the trace reader and the epochs, and the main loop that    *)
(* runs them: for every set of instructions, every trace made of them,     *)
(* every epoch size that is larger than the fetch width and every timing.  *)
(*                                                                         *)
(* The reader: what each piece of an instruction is, as a function of the  *)
(* instruction and the piece's number (CrackedAs), with the place where the*)
(* two indices of the reader are in step (PlaceOf).  The epochs: one never *)
(* ends in the cycle in which it begins, they are full, and they add up.   *)
(***************************************************************************)
EXTENDS MainLoop, FiniteSetTheorems, SequenceTheorems, NaturalsInduction,
        WellFoundedInduction, TLAPS

-----------------------------------------------------------------------------
(* Numbers and recursion.  Functions that are defined recursively by LET    *)
(* exist by RecursionExists, and are unfolded from that.                    *)

LEMMA LeastNumber ==
  ASSUME NEW T \in SUBSET Nat, T # {}
  PROVE  \E x \in T : \A y \in T : x <= y
<1>1. PICK x \in T : \A y \in T : <<y, x>> \notin OpToRel(<, Nat)
  BY NatLessThanWellFounded, WFMin
<1>2. ASSUME NEW y \in T PROVE x <= y
  <2>1. <<y, x>> \in OpToRel(<, Nat) <=> y < x
    BY Zenon DEF OpToRel
  <2>2. ~(y < x)
    BY <1>1, <2>1, Zenon
  <2>. QED  BY <2>2
<1>. QED  BY <1>2

(* What holds of 0, and of the next number with each, holds up to n.        *)
LEMMA CountingUp ==
  ASSUME NEW n \in Nat, NEW T, 0 \in T, \A k \in 0 .. n - 1 : k \in T => k + 1 \in T
  PROVE  \A k \in 0 .. n : k \in T
<1>. DEFINE Bad == {k \in 0 .. n : k \notin T}
<1>1. SUFFICES ASSUME Bad # {} PROVE FALSE
  OBVIOUS
<1>2. PICK b \in Bad : \A y \in Bad : b <= y
  <2>1. Bad \in SUBSET Nat  OBVIOUS
  <2>. HIDE DEF Bad
  <2>. QED  BY <1>1, <2>1, LeastNumber
<1>3. b \in 0 .. n /\ b # 0 /\ b \notin T
  OBVIOUS
<1>4. b - 1 \in 0 .. n - 1 /\ b - 1 \notin Bad
  BY <1>2, <1>3
<1>. QED  BY <1>3, <1>4

(* A function that is defined by recursion over 1 .. n exists.              *)
Iterates(f, n, V, v0, G) ==
  f \in [0 .. n -> V] /\ f[0] = v0 /\ \A k \in 1 .. n : f[k] = G[k][f[k - 1]]

LEMMA RecursionExists ==
  ASSUME NEW n \in Nat, NEW V, NEW v0 \in V, NEW G \in [1 .. n -> [V -> V]]
  PROVE  \E f : Iterates(f, n, V, v0, G)
<1>. DEFINE Fits(m, f) == f[0] = v0 /\ \A k \in 1 .. m : f[k] = G[k][f[k - 1]]
            T == {m \in Nat : \E f \in [0 .. m -> V] : Fits(m, f)}
<1>1. 0 \in T
  <2>1. [k \in 0 .. 0 |-> v0] \in [0 .. 0 -> V] /\ Fits(0, [k \in 0 .. 0 |-> v0])
    OBVIOUS
  <2>. QED  BY <2>1
<1>2. ASSUME NEW m \in 0 .. n - 1, m \in T PROVE m + 1 \in T
  <2>1. PICK f \in [0 .. m -> V] : Fits(m, f)
    BY <1>2
  <2>. DEFINE g == [k \in 0 .. m + 1 |-> IF k <= m THEN f[k] ELSE G[m + 1][f[m]]]
  <2>2. g \in [0 .. m + 1 -> V]
    <3>1. G[m + 1] \in [V -> V] /\ f[m] \in V  OBVIOUS
    <3>2. G[m + 1][f[m]] \in V  BY <3>1
    <3>. QED  BY <3>2
  <2>3. g[0] = v0
    BY <2>1
  <2>4. ASSUME NEW k \in 1 .. m + 1 PROVE g[k] = G[k][g[k - 1]]
    <3>1. CASE k <= m
      <4>1. k \in 1 .. m /\ g[k] = f[k] /\ g[k - 1] = f[k - 1]  BY <3>1
      <4>. QED  BY <2>1, <4>1
    <3>2. CASE k = m + 1
      <4>1. g[k] = G[m + 1][f[m]] /\ g[k - 1] = f[m]  BY <3>2
      <4>. QED  BY <3>2, <4>1
    <3>. QED  BY <3>1, <3>2
  <2>5. Fits(m + 1, g)
    BY <2>3, <2>4
  <2>. HIDE DEF g, Fits
  <2>. QED  BY <2>2, <2>5
<1>3. n \in T
  <2>. HIDE DEF T
  <2>1. n \in 0 .. n  OBVIOUS
  <2>. QED  BY <1>1, <1>2, <2>1, CountingUp
<1>. QED  BY <1>3 DEF Iterates

-----------------------------------------------------------------------------
(* The values of the outputs.  Those of the first k registers begin those   *)
(* of all, each register adds its lanes, and no value comes twice.          *)

LEMMA LanesOf ==
  ASSUME NEW r \in Registers
  PROVE  /\ Lanes(r) \in Seq(Lane)
         /\ Len(Lanes(r)) = IF reg_is_int(r) THEN 1 ELSE 2
         /\ Lanes(r)[1] = <<r, 0>>
         /\ ~reg_is_int(r) => Lanes(r)[2] = <<r, 1>>
<1>1. <<r, 0>> \in Lane /\ <<r, 1>> \in Lane
  BY DEF Lane
<1>2. CASE reg_is_int(r)
  <2>1. Lanes(r) = <<<<r, 0>>>>  BY <1>2 DEF Lanes
  <2>. QED  BY <1>1, <1>2, <2>1
<1>3. CASE ~reg_is_int(r)
  <2>1. Lanes(r) = <<<<r, 0>>, <<r, 1>>>>  BY <1>3 DEF Lanes
  <2>. QED  BY <1>1, <1>3, <2>1
<1>. QED  BY <1>2, <1>3

(* ValuesUpTo is what its recursion says.                                   *)
LEMMA UpToRecursion ==
  ASSUME NEW regs \in Seq(Registers)
  PROVE  /\ ValuesUpTo(regs) \in [0 .. Len(regs) -> Seq(Lane)]
         /\ ValuesUpTo(regs)[0] = <<>>
         /\ \A k \in 1 .. Len(regs) :
              ValuesUpTo(regs)[k] = ValuesUpTo(regs)[k - 1] \o Lanes(regs[k])
<1>. DEFINE n == Len(regs)
            V == Seq(Lane)
            Def(f) == [k \in 0 .. n |-> IF k = 0 THEN <<>> ELSE f[k - 1] \o Lanes(regs[k])]
            G == [k \in 1 .. n |-> [v \in V |-> v \o Lanes(regs[k])]]
<1>1. n \in Nat /\ <<>> \in V
  OBVIOUS
<1>2. G \in [1 .. n -> [V -> V]]
  <2>1. ASSUME NEW k \in 1 .. n, NEW v \in V PROVE v \o Lanes(regs[k]) \in V
    <3>1. Lanes(regs[k]) \in V  BY LanesOf
    <3>. QED  BY <3>1
  <2>. QED  BY <2>1
<1>3. PICK f \in [0 .. n -> V] : f[0] = <<>> /\ \A k \in 1 .. n : f[k] = G[k][f[k - 1]]
  <2>. HIDE DEF G, n, V
  <2>1. \E f : Iterates(f, n, V, <<>>, G)
    BY <1>1, <1>2, RecursionExists, Zenon
  <2>. QED  BY <2>1 DEF Iterates
<1>4. \A k \in 1 .. n : f[k] = f[k - 1] \o Lanes(regs[k])
  <2>1. ASSUME NEW k \in 1 .. n PROVE f[k] = f[k - 1] \o Lanes(regs[k])
    <3>1. f[k - 1] \in V  BY <1>1
    <3>2. G[k] = [v \in V |-> v \o Lanes(regs[k])]  OBVIOUS
    <3>. HIDE DEF G, V
    <3>. QED  BY <1>3, <3>1, <3>2
  <2>. QED  BY <2>1
<1>5. f = Def(f)
  <2>. HIDE DEF n, V
  <2>1. \A k \in 0 .. n : f[k] = IF k = 0 THEN <<>> ELSE f[k - 1] \o Lanes(regs[k])
    <3>1. \A k \in 0 .. n : k = 0 \/ k \in 1 .. n  BY <1>1
    <3>. QED  BY <1>3, <1>4, <3>1
  <2>2. f = [k \in 0 .. n |-> f[k]]
    OBVIOUS
  <2>. QED  BY <2>1, <2>2
<1>6. ValuesUpTo(regs) = CHOOSE g : g = Def(g)
  BY DEF ValuesUpTo
<1>7. ValuesUpTo(regs) = Def(ValuesUpTo(regs))
  <2>. HIDE DEF Def
  <2>. QED  BY <1>5, <1>6
<1>. DEFINE U == ValuesUpTo(regs)
<1>8. DOMAIN U = 0 .. n /\ \A k \in 0 .. n : U[k] = IF k = 0 THEN <<>> ELSE U[k - 1] \o Lanes(regs[k])
  <2>1. U = Def(U)  BY <1>7
  <2>. HIDE DEF U
  <2>. QED  BY <2>1
<1>. HIDE DEF U
<1>9. U[0] = <<>> /\ \A k \in 1 .. n : U[k] = U[k - 1] \o Lanes(regs[k])
  <2>1. 0 \in 0 .. n /\ \A k \in 1 .. n : k \in 0 .. n /\ k # 0  BY <1>1
  <2>. HIDE DEF n
  <2>. QED  BY <1>8, <2>1
<1>10. \A k \in 0 .. n : U[k] \in V
  <2>. DEFINE T == {k \in 0 .. n : U[k] \in V}
  <2>1. 0 \in T  BY <1>1, <1>9
  <2>2. ASSUME NEW k \in 0 .. n - 1, k \in T PROVE k + 1 \in T
    <3>1. k + 1 \in 1 .. n /\ k + 1 - 1 = k /\ k + 1 \in 0 .. n  BY <1>1
    <3>2. regs[k + 1] \in Registers  BY <3>1
    <3>3. Lanes(regs[k + 1]) \in V  BY <3>2, LanesOf
    <3>4. U[k + 1] = U[k] \o Lanes(regs[k + 1])
      <4>1. \A j \in 1 .. n : j - 1 = k => U[j] = U[k] \o Lanes(regs[j])
        <5>. HIDE DEF n
        <5>. QED  BY <1>9
      <4>. HIDE DEF n
      <4>2. k + 1 \in 1 .. n  BY <3>1
      <4>3. (k + 1) - 1 = k  BY <3>1
      <4>. QED  BY <4>2, <4>3, <4>1, Zenon
    <3>5. U[k] \in V  BY <2>2
    <3>6. U[k + 1] \in V
      <4>1. ASSUME NEW a \in V, NEW b \in V PROVE a \o b \in V
        OBVIOUS
      <4>. HIDE DEF V
      <4>. QED  BY <3>3, <3>4, <3>5, <4>1
    <3>. QED  BY <3>1, <3>6
  <2>3. \A k \in 0 .. n : k \in T
    <3>. HIDE DEF T, n
    <3>. QED  BY <1>1, <2>1, <2>2, CountingUp
  <2>. QED  BY <2>3
<1>11. U \in [0 .. n -> V]
  <2>1. U = [k \in 0 .. n |-> U[k]]
    <3>1. Def(U) = [k \in 0 .. n |-> U[k]]
      BY <1>7 DEF U
    <3>. QED  BY <1>7, <3>1 DEF U
  <2>. HIDE DEF V, n
  <2>. QED  BY <1>10, <2>1
<1>. QED  BY <1>9, <1>11 DEF U

(* Where the values of a register end, and how many they are.               *)
Offset(regs, k) == Len(ValuesUpTo(regs)[k])
Width(r) == IF reg_is_int(r) THEN 1 ELSE 2

(* Length and elements of a concatenation.                                  *)
LEMMA Joined ==
  ASSUME NEW S, NEW a \in Seq(S), NEW b \in Seq(S)
  PROVE  /\ Len(a \o b) = Len(a) + Len(b) /\ Len(a) \in Nat /\ Len(b) \in Nat
         /\ \A x \in 1 .. Len(a) + Len(b) :
              (a \o b)[x] = IF x <= Len(a) THEN a[x] ELSE b[x - Len(a)]
OBVIOUS

(* Each register adds its width to the offset, and its lanes in order.      *)
LEMMA OffsetSteps ==
  ASSUME NEW regs \in Seq(Registers)
  PROVE  /\ Offset(regs, 0) = 0
         /\ \A k \in 0 .. Len(regs) : Offset(regs, k) \in Nat
         /\ \A k \in 1 .. Len(regs) :
              /\ Offset(regs, k) = Offset(regs, k - 1) + Width(regs[k])
              /\ \A x \in 1 .. Offset(regs, k - 1) :
                   ValuesUpTo(regs)[k][x] = ValuesUpTo(regs)[k - 1][x]
              /\ \A x \in 1 .. Width(regs[k]) :
                   ValuesUpTo(regs)[k][Offset(regs, k - 1) + x] = <<regs[k], x - 1>>
<1>. DEFINE U == ValuesUpTo(regs)
            n == Len(regs)
<1>1. /\ U \in [0 .. n -> Seq(Lane)] /\ U[0] = <<>>
      /\ \A k \in 1 .. n : U[k] = U[k - 1] \o Lanes(regs[k])
  BY UpToRecursion
<1>2. n \in Nat /\ \A k \in 1 .. n : regs[k] \in Registers
  OBVIOUS
<1>. HIDE DEF U, n
<1>3. \A k \in 0 .. n : U[k] \in Seq(Lane)
  BY <1>1
<1>4. ASSUME NEW k \in 1 .. n
      PROVE  /\ Len(U[k]) = Len(U[k - 1]) + Width(regs[k])
             /\ \A x \in 1 .. Len(U[k - 1]) : U[k][x] = U[k - 1][x]
             /\ \A x \in 1 .. Width(regs[k]) : U[k][Len(U[k - 1]) + x] = <<regs[k], x - 1>>
  <2>1. k - 1 \in 0 .. n /\ regs[k] \in Registers
    BY <1>2
  <2>. DEFINE a == U[k - 1]
              b == Lanes(regs[k])
  <2>2. a \in Seq(Lane) /\ U[k] = a \o b
    BY <1>1, <1>3, <2>1
  <2>3. b \in Seq(Lane) /\ Len(b) = Width(regs[k])
    BY <2>1, LanesOf DEF Width
  <2>4. \A x \in 1 .. Width(regs[k]) : b[x] = <<regs[k], x - 1>>
    <3>1. CASE reg_is_int(regs[k])
      <4>1. Width(regs[k]) = 1 /\ b[1] = <<regs[k], 0>>  BY <2>1, <3>1, LanesOf DEF Width
      <4>. HIDE DEF b
      <4>. QED  BY <4>1
    <3>2. CASE ~reg_is_int(regs[k])
      <4>1. Width(regs[k]) = 2 /\ b[1] = <<regs[k], 0>> /\ b[2] = <<regs[k], 1>>
        BY <2>1, <3>2, LanesOf DEF Width
      <4>. HIDE DEF b
      <4>. QED  BY <4>1
    <3>. QED  BY <3>1, <3>2
  <2>. HIDE DEF a, b
  <2>5. Width(regs[k]) \in Nat
    BY DEF Width
  <2>6. /\ Len(a \o b) = Len(a) + Len(b)
        /\ \A x \in 1 .. Len(a) : (a \o b)[x] = a[x]
        /\ \A x \in 1 .. Len(b) : (a \o b)[Len(a) + x] = b[x]
    <3>1. /\ Len(a \o b) = Len(a) + Len(b) /\ Len(a) \in Nat /\ Len(b) \in Nat
          /\ \A x \in 1 .. Len(a) + Len(b) :
               (a \o b)[x] = IF x <= Len(a) THEN a[x] ELSE b[x - Len(a)]
      BY <2>2, <2>3, Joined, Zenon
    <3>2. ASSUME NEW x \in 1 .. Len(a) PROVE (a \o b)[x] = a[x]
      BY <3>1
    <3>3. ASSUME NEW x \in 1 .. Len(b) PROVE (a \o b)[Len(a) + x] = b[x]
      <4>1. Len(a) + x \in 1 .. Len(a) + Len(b) /\ ~(Len(a) + x <= Len(a))
            /\ Len(a) + x - Len(a) = x
        BY <3>1
      <4>. QED  BY <3>1, <4>1
    <3>. QED  BY <3>1, <3>2, <3>3
  <2>. QED  BY <2>2, <2>3, <2>4, <2>6 DEF a
<1>5. Len(U[0]) = 0 /\ \A k \in 0 .. n : Len(U[k]) \in Nat
  BY <1>1, <1>3
<1>. QED  BY <1>4, <1>5 DEF Offset, U, n

(* The values of the first registers begin those of all.                    *)
LEMMA ValuesBegin ==
  ASSUME NEW regs \in Seq(Registers), NEW m \in 0 .. Len(regs), NEW k \in 0 .. m
  PROVE  /\ Offset(regs, k) <= Offset(regs, m)
         /\ \A x \in 1 .. Offset(regs, k) :
              ValuesUpTo(regs)[m][x] = ValuesUpTo(regs)[k][x]
<1>. DEFINE U == ValuesUpTo(regs)
            n == Len(regs)
            off(j) == Offset(regs, j)
            Begins(l) == /\ off(k) <= off(l)
                         /\ \A x \in 1 .. off(k) : U[l][x] = U[k][x]
            T == {d \in Nat : k + d <= n => Begins(k + d)}
<1>1. n \in Nat /\ m \in Nat /\ k \in Nat /\ m <= n /\ k <= m /\ m - k \in Nat
  OBVIOUS
<1>2. /\ \A j \in 0 .. n : off(j) \in Nat
      /\ \A j \in 1 .. n : /\ off(j) >= off(j - 1)
                           /\ \A x \in 1 .. off(j - 1) : U[j][x] = U[j - 1][x]
  <2>1. \A j \in 1 .. n : Width(regs[j]) \in 0 .. 2 /\ j - 1 \in 0 .. n
    BY DEF Width
  <2>2. \A j \in 0 .. n : off(j) \in Nat
    BY OffsetSteps
  <2>3. \A j \in 1 .. n : off(j) = off(j - 1) + Width(regs[j])
    BY OffsetSteps
  <2>4. \A j \in 1 .. n : \A x \in 1 .. off(j - 1) : U[j][x] = U[j - 1][x]
    BY OffsetSteps
  <2>. HIDE DEF off, U, n
  <2>5. \A j \in 1 .. n : off(j) >= off(j - 1)
    <3>1. ASSUME NEW j \in 1 .. n PROVE off(j) >= off(j - 1)
      <4>1. j - 1 \in 0 .. n /\ j \in 0 .. n /\ Width(regs[j]) \in 0 .. 2
        BY <1>1, <2>1
      <4>2. off(j - 1) \in Nat /\ off(j) = off(j - 1) + Width(regs[j])
        BY <2>2, <2>3, <4>1
      <4>. QED  BY <4>1, <4>2
    <3>. QED  BY <3>1
  <2>6. ASSUME NEW j \in 1 .. n
        PROVE  off(j) >= off(j - 1) /\ \A x \in 1 .. off(j - 1) : U[j][x] = U[j - 1][x]
    BY <2>4, <2>5
  <2>. QED  BY <2>2, <2>6
<1>. HIDE DEF off, U, n
<1>3. 0 \in T
  BY <1>1, <1>2
<1>4. ASSUME NEW d \in 0 .. m - k - 1, d \in T PROVE d + 1 \in T
  <2>1. d \in Nat /\ k + d + 1 \in 1 .. n /\ (k + d + 1) - 1 = k + d /\ k + (d + 1) = k + d + 1
    BY <1>1
  <2>2. Begins(k + d) /\ k + d \in 0 .. n
    BY <1>1, <1>4, <2>1
  <2>3. /\ off(k + d + 1) >= off(k + d)
        /\ \A x \in 1 .. off(k + d) : U[k + d + 1][x] = U[k + d][x]
    <3>. DEFINE j == k + d + 1
    <3>1. j \in 1 .. n /\ j - 1 = k + d  BY <2>1
    <3>. HIDE DEF j
    <3>2. off(j) >= off(k + d) /\ \A x \in 1 .. off(k + d) : U[j][x] = U[k + d][x]
      BY <1>2, <3>1
    <3>. QED  BY <3>2 DEF j
  <2>4. off(k) \in Nat /\ off(k + d) \in Nat /\ off(k + d + 1) \in Nat
    BY <1>1, <1>2, <2>1, <2>2
  <2>5. Begins(k + d + 1)
    BY <2>2, <2>3, <2>4
  <2>. QED  BY <2>1, <2>5
<1>5. m - k \in T
  <2>. HIDE DEF T
  <2>. QED  BY <1>1, <1>3, <1>4, CountingUp
<1>6. k + (m - k) = m
  BY <1>1
<1>. QED  BY <1>1, <1>5, <1>6 DEF off, U

(* Each value is a lane of one of the registers.                            *)
LEMMA ValuesBelong ==
  ASSUME NEW regs \in Seq(Registers), NEW x \in 1 .. Len(Values(regs))
  PROVE  \E k \in 1 .. Len(regs) :
           Offset(regs, k - 1) < x /\ x <= Offset(regs, k)
<1>. DEFINE n == Len(regs)
            off(j) == Offset(regs, j)
            T == {m \in Nat : x <= off(m) =>
                    \E k \in 1 .. n : off(k - 1) < x /\ x <= off(k)}
<1>1. n \in Nat /\ x \in Nat /\ x >= 1 /\ x <= off(n)
  BY OffsetSteps DEF Values, Offset
<1>2. off(0) = 0 /\ \A j \in 0 .. n : off(j) \in Nat
  BY OffsetSteps
<1>. HIDE DEF off, n
<1>3. 0 \in T
  BY <1>1, <1>2
<1>4. ASSUME NEW m \in 0 .. n - 1, m \in T PROVE m + 1 \in T
  <2>1. m \in Nat /\ m + 1 \in 1 .. n /\ m \in 0 .. n /\ m + 1 \in 0 .. n
    BY <1>1
  <2>2. CASE x <= off(m)
    BY <1>4, <2>1, <2>2
  <2>3. CASE ~(x <= off(m))
    <3>1. off(m) < x  BY <1>1, <1>2, <2>1, <2>3
    <3>. DEFINE k == m + 1
    <3>2. k \in 1 .. n /\ k - 1 = m  BY <2>1
    <3>. HIDE DEF k
    <3>3. x <= off(k) => off(k - 1) < x /\ x <= off(k)  BY <3>1, <3>2
    <3>4. x <= off(k) => \E j \in 1 .. n : off(j - 1) < x /\ x <= off(j)
      BY <3>2, <3>3
    <3>. QED  BY <2>1, <3>4 DEF k
  <2>. QED  BY <2>2, <2>3
<1>5. n \in T
  <2>. HIDE DEF T
  <2>1. n \in 0 .. n  BY <1>1
  <2>. QED  BY <1>1, <1>3, <1>4, <2>1, CountingUp
<1>. QED  BY <1>1, <1>5 DEF off, n

(* What is where among the values.                                          *)
Layout(regs) ==
  /\ Values(regs) \in Seq(Lane) /\ Len(Values(regs)) = Offset(regs, Len(regs))
  /\ Offset(regs, 0) = 0
  /\ \A k \in 0 .. Len(regs) :
       Offset(regs, k) \in Nat /\ Offset(regs, k) <= Len(Values(regs))
  /\ \A k \in 1 .. Len(regs) :
       /\ Offset(regs, k) = Offset(regs, k - 1) + Width(regs[k])
       /\ \A x \in 1 .. Width(regs[k]) :
            Values(regs)[Offset(regs, k - 1) + x] = <<regs[k], x - 1>>
  /\ \A x, y \in 1 .. Len(Values(regs)) :
       Values(regs)[x] = Values(regs)[y] => x = y

(* The values of distinct registers are laid out so.                        *)
LEMMA ValuesLaidOut ==
  ASSUME NEW regs \in Seq(Registers), IsInjective(regs)
  PROVE  Layout(regs)
<1>. DEFINE n == Len(regs)
            off(j) == Offset(regs, j)
            vals == Values(regs)
<1>1. n \in Nat /\ 0 \in 0 .. n /\ n \in 0 .. n
  OBVIOUS
<1>2. vals \in Seq(Lane) /\ Len(vals) = off(n)
  BY <1>1, UpToRecursion DEF Values, Offset
<1>3. off(0) = 0 /\ \A k \in 0 .. n : off(k) \in Nat
  BY OffsetSteps
<1>4. \A k \in 0 .. n : off(k) <= Len(vals)
  BY <1>1, <1>2, ValuesBegin
<1>5. ASSUME NEW k \in 1 .. n
      PROVE  /\ off(k) = off(k - 1) + Width(regs[k])
             /\ off(k - 1) \in Nat
             /\ \A x \in 1 .. Width(regs[k]) : vals[off(k - 1) + x] = <<regs[k], x - 1>>
  <2>0. k \in 0 .. n /\ k - 1 \in 0 .. n
    BY <1>1
  <2>1. off(k) = off(k - 1) + Width(regs[k]) /\ off(k - 1) \in Nat /\ off(k) \in Nat
    BY <1>3, <2>0, OffsetSteps
  <2>2. \A x \in 1 .. Width(regs[k]) :
          ValuesUpTo(regs)[k][off(k - 1) + x] = <<regs[k], x - 1>>
    BY OffsetSteps
  <2>3. \A x \in 1 .. off(k) : vals[x] = ValuesUpTo(regs)[k][x]
    BY <1>1, <2>0, ValuesBegin DEF Values
  <2>4. Width(regs[k]) \in Nat
    BY DEF Width
  <2>. HIDE DEF off, vals, n
  <2>5. ASSUME NEW x \in 1 .. Width(regs[k]) PROVE vals[off(k - 1) + x] = <<regs[k], x - 1>>
    <3>1. off(k - 1) + x \in 1 .. off(k)
      BY <2>1, <2>4
    <3>. QED  BY <2>2, <2>3, <3>1
  <2>. QED  BY <2>1, <2>5
<1>6. ASSUME NEW x \in 1 .. Len(vals), NEW y \in 1 .. Len(vals), vals[x] = vals[y]
      PROVE  x = y
  <2>1. PICK k \in 1 .. n : off(k - 1) < x /\ x <= off(k)
    BY ValuesBelong
  <2>2. PICK j \in 1 .. n : off(j - 1) < y /\ y <= off(j)
    BY ValuesBelong
  <2>. DEFINE p == x - off(k - 1)
              q == y - off(j - 1)
  <2>3. x \in Nat /\ y \in Nat /\ Width(regs[k]) \in Nat /\ Width(regs[j]) \in Nat
    BY <1>2, <1>3, <1>1 DEF Width
  <2>4. /\ off(k) = off(k - 1) + Width(regs[k]) /\ off(k - 1) \in Nat
        /\ \A z \in 1 .. Width(regs[k]) : vals[off(k - 1) + z] = <<regs[k], z - 1>>
    BY <1>5
  <2>5. /\ off(j) = off(j - 1) + Width(regs[j]) /\ off(j - 1) \in Nat
        /\ \A z \in 1 .. Width(regs[j]) : vals[off(j - 1) + z] = <<regs[j], z - 1>>
    BY <1>5
  <2>. HIDE DEF off, vals, n
  <2>6. p \in 1 .. Width(regs[k]) /\ x = off(k - 1) + p
    BY <2>1, <2>3, <2>4
  <2>7. q \in 1 .. Width(regs[j]) /\ y = off(j - 1) + q
    BY <2>2, <2>3, <2>5
  <2>8. vals[x] = <<regs[k], p - 1>> /\ vals[y] = <<regs[j], q - 1>>
    <3>. HIDE DEF p, q
    <3>. QED  BY <2>4, <2>5, <2>6, <2>7
  <2>9. regs[k] = regs[j] /\ p = q
    <3>. HIDE DEF p, q
    <3>. QED  BY <1>6, <2>3, <2>6, <2>7, <2>8
  <2>10. k = j
    BY <2>9 DEF IsInjective, n
  <2>. HIDE DEF p, q
  <2>. QED  BY <2>6, <2>7, <2>9, <2>10
<1>. QED  BY <1>2, <1>3, <1>4, <1>5, <1>6 DEF Layout

(* A value for each output and one more for each upper half that is not     *)
(* zero are among the values, and no more if no upper half is zero.         *)
Among(regs, wide, k) == wide \cap {regs[j] : j \in 1 .. k}
Split(regs, wide, k) == \A j \in 1 .. k : reg_is_int(regs[j]) \/ regs[j] \in wide

(* How far the values of the first k registers reach at most, and if each   *)
(* SIMD register has a wide value, exactly.                                 *)
LEMMA LanesCounted ==
  ASSUME NEW regs \in Seq(Registers), IsInjective(regs), NEW wide,
         wide \subseteq {r \in ToSet(regs) : ~reg_is_int(r)}, NEW k \in 0 .. Len(regs)
  PROVE  /\ IsFiniteSet(Among(regs, wide, k))
         /\ k + Cardinality(Among(regs, wide, k)) <= Offset(regs, k)
         /\ Split(regs, wide, k) =>
              k + Cardinality(Among(regs, wide, k)) = Offset(regs, k)
<1>. DEFINE n == Len(regs)
            A(j) == Among(regs, wide, j)
            off(j) == Offset(regs, j)
            Counted_(j) == /\ IsFiniteSet(A(j)) /\ Cardinality(A(j)) \in Nat
                           /\ j + Cardinality(A(j)) <= off(j)
                           /\ Split(regs, wide, j) => j + Cardinality(A(j)) = off(j)
            T == {j \in Nat : Counted_(j)}
<1>1. /\ n \in Nat /\ DOMAIN regs = 1 .. n
      /\ \A x, y \in 1 .. n : regs[x] = regs[y] => x = y
      /\ \A r \in wide : ~reg_is_int(r)
  BY DEF IsInjective
<1>2. off(0) = 0 /\ \A j \in 0 .. n : off(j) \in Nat
  BY OffsetSteps
<1>. HIDE DEF n
<1>3. 0 \in T
  <2>1. A(0) = {}  BY DEF Among
  <2>2. IsFiniteSet(A(0)) /\ Cardinality(A(0)) = 0
    BY <2>1, FS_EmptySet
  <2>. QED  BY <1>2, <2>2
<1>4. ASSUME NEW j \in 0 .. n - 1, j \in T PROVE j + 1 \in T
  <2>. DEFINE r == regs[j + 1]
              m == j + 1
  <2>1. m \in 1 .. n /\ m \in Nat /\ j \in Nat /\ m - 1 = j /\ m \in 0 .. n /\ j \in 0 .. n
    BY <1>1
  <2>2. {regs[x] : x \in 1 .. m} = {regs[x] : x \in 1 .. j} \cup {r}
    <3>1. 1 .. m = (1 .. j) \cup {m}  BY <2>1
    <3>. QED  BY <3>1
  <2>3. r \notin A(j)
    <3>1. SUFFICES ASSUME NEW x \in 1 .. j, regs[x] = r PROVE FALSE
      BY DEF Among
    <3>2. x \in 1 .. n /\ x # m
      <4>. HIDE DEF r
      <4>. QED  BY <1>1, <2>1
    <3>3. regs[x] = regs[m]  BY <3>1
    <3>. QED  BY <1>1, <2>1, <3>2, <3>3
  <2>4. A(m) = IF r \in wide THEN A(j) \cup {r} ELSE A(j)
    BY <2>2 DEF Among
  <2>5. IsFiniteSet(A(j)) /\ Cardinality(A(j)) \in Nat
    BY <1>4
  <2>6. /\ IsFiniteSet(A(m))
        /\ Cardinality(A(m)) = Cardinality(A(j)) + IF r \in wide THEN 1 ELSE 0
    <3>1. CASE r \in wide
      <4>1. A(m) = A(j) \cup {r}  BY <2>4, <3>1
      <4>2. IsFiniteSet(A(j) \cup {r}) /\ Cardinality(A(j) \cup {r}) = Cardinality(A(j)) + 1
        BY <2>3, <2>5, FS_AddElement
      <4>. QED  BY <3>1, <4>1, <4>2
    <3>2. CASE r \notin wide
      <4>1. A(m) = A(j)  BY <2>4, <3>2
      <4>. QED  BY <2>5, <3>2, <4>1
    <3>. QED  BY <3>1, <3>2
  <2>7. off(m) = off(j) + Width(r)
    <3>1. \A x \in 1 .. n : off(x) = off(x - 1) + Width(regs[x])
      BY OffsetSteps DEF n
    <3>2. off(m) = off(m - 1) + Width(regs[m])
      <4>. HIDE DEF m, off
      <4>. QED  BY <2>1, <3>1
    <3>. QED  BY <2>1, <3>2
  <2>8. r \in wide => ~reg_is_int(r)
    BY <1>1
  <2>9. Split(regs, wide, m) => Split(regs, wide, j) /\ (reg_is_int(r) \/ r \in wide)
    BY <2>1 DEF Split
  <2>10. off(j) \in Nat /\ off(m) \in Nat
    BY <1>2, <2>1
  <2>11. /\ j + Cardinality(A(j)) <= off(j)
         /\ Split(regs, wide, j) => j + Cardinality(A(j)) = off(j)
    BY <1>4
  <2>. DEFINE a == Cardinality(A(j))
              b == Cardinality(A(m))
  <2>. HIDE DEF A, off, r, a, b
  <2>12. a \in Nat /\ b = a + (IF r \in wide THEN 1 ELSE 0)
    BY <2>5, <2>6 DEF a, b
  <2>13. j + a <= off(j) /\ (Split(regs, wide, j) => j + a = off(j))
    BY <2>11 DEF a
  <2>14. b \in Nat /\ m + b <= off(m)
    BY <2>1, <2>7, <2>8, <2>10, <2>12, <2>13 DEF Width
  <2>15. Split(regs, wide, m) => m + b = off(m)
    <3>1. SUFFICES ASSUME Split(regs, wide, m) PROVE m + b = off(m)
      OBVIOUS
    <3>2. (reg_is_int(r) \/ r \in wide) /\ j + a = off(j)
      BY <2>9, <2>13, <3>1
    <3>. QED  BY <2>1, <2>7, <2>8, <2>10, <2>12, <3>2 DEF Width
  <2>16. Counted_(m)
    BY <2>6, <2>14, <2>15 DEF b
  <2>. QED  BY <2>1, <2>16
<1>5. k \in T
  <2>1. k \in 0 .. n  BY DEF n
  <2>. HIDE DEF T
  <2>. QED  BY <1>1, <1>3, <1>4, <2>1, CountingUp
<1>. QED  BY <1>5

(* The pieces that the upper halves call for.                               *)
LEMMA PiecesFit ==
  ASSUME NEW regs \in Seq(Registers), IsInjective(regs), NEW wide,
         wide \subseteq {r \in ToSet(regs) : ~reg_is_int(r)}
  PROVE  /\ Cardinality(wide) \in Nat
         /\ Len(regs) + Cardinality(wide) <= Len(Values(regs))
         /\ \A m \in 1 .. Len(regs) : Split(regs, wide, m - 1) =>
              Offset(regs, m - 1) + 1 <= m + Cardinality(wide)
<1>. DEFINE n == Len(regs)
<1>1. n \in Nat /\ n \in 0 .. n
  OBVIOUS
<1>2. Among(regs, wide, n) = wide
  <2>1. DOMAIN regs = 1 .. n  OBVIOUS
  <2>. QED  BY <2>1 DEF Among, ToSet
<1>3. IsFiniteSet(wide) /\ n + Cardinality(wide) <= Offset(regs, n)
  BY <1>1, <1>2, LanesCounted
<1>4. Cardinality(wide) \in Nat
  BY <1>3, FS_CardinalityType
<1>5. Offset(regs, n) = Len(Values(regs))
  BY DEF Offset, Values
<1>6. ASSUME NEW m \in 1 .. n, Split(regs, wide, m - 1)
      PROVE  Offset(regs, m - 1) + 1 <= m + Cardinality(wide)
  <2>1. m - 1 \in 0 .. n
    BY <1>1
  <2>2. /\ IsFiniteSet(Among(regs, wide, m - 1))
        /\ (m - 1) + Cardinality(Among(regs, wide, m - 1)) = Offset(regs, m - 1)
    BY <1>6, <2>1, LanesCounted
  <2>3. Cardinality(Among(regs, wide, m - 1)) <= Cardinality(wide)
    BY <1>3, FS_Subset DEF Among
  <2>4. Cardinality(Among(regs, wide, m - 1)) \in Nat
    BY <2>2, FS_CardinalityType
  <2>. QED  BY <1>1, <1>4, <2>2, <2>3, <2>4
<1>. QED  BY <1>3, <1>4, <1>5, <1>6

-----------------------------------------------------------------------------
(* The order of the outputs.                                                *)

LEMMA MovedLast ==
  ASSUME NEW S, NEW s \in Seq(S), NEW p \in 1 .. Len(s), IsInjective(s)
  PROVE  LET t == Append(RemoveAt(s, p), s[p])
         IN  /\ t \in Seq(S) /\ Len(t) = Len(s) /\ t[Len(t)] = s[p]
             /\ IsInjective(t) /\ ToSet(t) = ToSet(s)
<1>. DEFINE n == Len(s)
            a == SubSeq(s, 1, p - 1)
            b == SubSeq(s, p + 1, n)
            t == Append(a \o b, s[p])
            at(k) == IF k < p THEN k ELSE IF k = n THEN p ELSE k + 1
<1>1. n \in Nat /\ p \in 1 .. n /\ DOMAIN s = 1 .. n
  OBVIOUS
<1>2. /\ a \in Seq(S) /\ Len(a) = p - 1 /\ \A k \in 1 .. p - 1 : a[k] = s[k]
  OBVIOUS
<1>3. /\ b \in Seq(S) /\ Len(b) = n - p /\ \A k \in 1 .. n - p : b[k] = s[p + k]
  OBVIOUS
<1>4. s[p] \in S
  OBVIOUS
<1>. HIDE DEF a, b, n
<1>5. /\ a \o b \in Seq(S) /\ Len(a \o b) = n - 1
      /\ \A k \in 1 .. n - 1 : (a \o b)[k] = IF k <= p - 1 THEN a[k] ELSE b[k - (p - 1)]
  <2>1. a \o b \in Seq(S)  BY <1>2, <1>3
  <2>2. /\ Len(a \o b) = Len(a) + Len(b)
        /\ \A x \in 1 .. Len(a) + Len(b) :
             (a \o b)[x] = IF x <= Len(a) THEN a[x] ELSE b[x - Len(a)]
    BY <1>2, <1>3, Joined, Zenon
  <2>3. Len(a) + Len(b) = n - 1
    BY <1>1, <1>2, <1>3
  <2>. QED  BY <1>2, <2>1, <2>2, <2>3
<1>6. \A k \in 1 .. n - 1 : (a \o b)[k] = s[at(k)]
  <2>1. ASSUME NEW k \in 1 .. n - 1 PROVE (a \o b)[k] = s[at(k)]
    <3>1. CASE k < p
      BY <1>1, <1>2, <1>5, <3>1
    <3>2. CASE ~(k < p)
      <4>1. k - (p - 1) \in 1 .. n - p /\ p + (k - (p - 1)) = k + 1 /\ at(k) = k + 1
            /\ ~(k <= p - 1)
        BY <1>1, <3>2
      <4>. QED  BY <1>3, <1>5, <4>1
    <3>. QED  BY <3>1, <3>2
  <2>. QED  BY <2>1
<1>. DEFINE c == a \o b
<1>. HIDE DEF c
<1>7. /\ Append(c, s[p]) \in Seq(S) /\ Len(Append(c, s[p])) = n
      /\ \A k \in 1 .. n : Append(c, s[p])[k] = s[at(k)]
  <2>1. c \in Seq(S) /\ Len(c) = n - 1 /\ \A k \in 1 .. n - 1 : c[k] = s[at(k)]
    BY <1>5, <1>6 DEF c
  <2>2. at(n) = p
    BY <1>1
  <2>3. /\ Append(c, s[p]) \in Seq(S) /\ Len(Append(c, s[p])) = n
        /\ \A k \in 1 .. n - 1 : Append(c, s[p])[k] = c[k]
        /\ Append(c, s[p])[n] = s[p]
    BY <1>1, <1>4, <2>1
  <2>. HIDE DEF at
  <2>4. ASSUME NEW k \in 1 .. n PROVE Append(c, s[p])[k] = s[at(k)]
    <3>1. k \in 1 .. n - 1 \/ k = n  BY <1>1
    <3>. QED  BY <2>1, <2>2, <2>3, <3>1
  <2>. QED  BY <2>3, <2>4
<1>8. t \in Seq(S) /\ Len(t) = n /\ \A k \in 1 .. n : t[k] = s[at(k)]
  BY <1>7 DEF c
<1>9. /\ \A k \in 1 .. n : at(k) \in 1 .. n
      /\ \A j, k \in 1 .. n : at(j) = at(k) => j = k
      /\ at(n) = p
  BY <1>1
<1>10. ASSUME NEW x \in 1 .. n PROVE \E k \in 1 .. n : at(k) = x
  <2>. DEFINE k == IF x < p THEN x ELSE IF x = p THEN n ELSE x - 1
  <2>1. k \in 1 .. n /\ at(k) = x
    BY <1>1
  <2>. QED  BY <2>1
<1>11. DOMAIN t = 1 .. n
  BY <1>8
<1>. HIDE DEF t, at
<1>12. IsInjective(t)
  BY <1>1, <1>8, <1>9, <1>11 DEF IsInjective
<1>13. ToSet(t) = ToSet(s)
  <2>1. ASSUME NEW x \in ToSet(t) PROVE x \in ToSet(s)
    <3>1. PICK k \in 1 .. n : x = t[k]  BY <1>11 DEF ToSet
    <3>2. x = s[at(k)] /\ at(k) \in 1 .. n  BY <1>8, <1>9, <3>1
    <3>. QED  BY <1>1, <3>2 DEF ToSet
  <2>2. ASSUME NEW x \in ToSet(s) PROVE x \in ToSet(t)
    <3>1. PICK j \in 1 .. n : x = s[j]  BY <1>1 DEF ToSet
    <3>2. PICK k \in 1 .. n : at(k) = j  BY <1>10
    <3>3. x = t[k]  BY <1>8, <3>1, <3>2
    <3>. QED  BY <1>11, <3>3 DEF ToSet
  <2>. QED  BY <2>1, <2>2
<1>14. t[Len(t)] = s[p]
  BY <1>1, <1>8, <1>9
<1>15. Append(RemoveAt(s, p), s[p]) = t
  BY DEF t, RemoveAt, a, b, n
<1>. QED  BY <1>8, <1>12, <1>13, <1>14, <1>15 DEF n

(* The register whose update is a piece of its own is one of the outputs.   *)
LEMMA BaseIsOutput ==
  ASSUME NEW i \in Instrs, ReadAsserts(i), HasBaseUpd(i)
  PROVE  /\ BaseUpdReg(i) \in ToSet(i.outRegs) /\ reg_is_int(BaseUpdReg(i))
         /\ IsMem(i)
         /\ i.type = "store" => Len(i.outRegs) = 1
         /\ i.type = "load" => Len(i.outRegs) > 1
<1>1. IsInstr(i)
  BY InstrAssumption
<1>2. i.outRegs \in Seq(Registers) /\ i.inRegs \in Seq(Registers)
  BY <1>1 DEF IsInstr
<1>3. CASE i.type = "store" /\ Len(i.outRegs) = 1
  <2>1. BaseUpdReg(i) = i.outRegs[1]
    BY <1>3 DEF BaseUpdReg
  <2>2. i.outRegs[1] \in ToSet(i.outRegs)
    BY <1>2, <1>3 DEF ToSet
  <2>3. reg_is_int(i.outRegs[1])
    BY <1>3, <2>2 DEF ReadAsserts
  <2>. QED  BY <1>3, <2>1, <2>2, <2>3 DEF IsMem
<1>4. CASE i.type = "load" /\ Len(i.outRegs) > 1 /\ i.baseUpd /\ Overlap(i) # {}
  <2>1. BaseUpdReg(i) = CHOOSE r \in Overlap(i) : TRUE
    BY <1>4 DEF BaseUpdReg
  <2>2. BaseUpdReg(i) \in Overlap(i)
    BY <1>4, <2>1
  <2>. QED  BY <1>4, <2>2 DEF IsMem, Overlap, reg_is_int
<1>5. (i.type = "store" /\ Len(i.outRegs) = 1)
      \/ (i.type = "load" /\ Len(i.outRegs) > 1 /\ i.baseUpd /\ Overlap(i) # {})
  BY DEF HasBaseUpd, BaseUpdReg
<1>. QED  BY <1>3, <1>4, <1>5

(* Reordering the outputs keeps them distinct, and puts an updated base     *)
(* register last.                                                           *)
LEMMA OutputsOrder ==
  ASSUME NEW i \in Instrs, ReadAsserts(i)
  PROVE  /\ Outputs(i) \in Seq(Registers) /\ IsInjective(Outputs(i))
         /\ Len(Outputs(i)) = Len(i.outRegs) /\ ToSet(Outputs(i)) = ToSet(i.outRegs)
         /\ HasBaseUpd(i) => /\ Len(Outputs(i)) >= 1
                             /\ Outputs(i)[Len(Outputs(i))] = BaseUpdReg(i)
<1>1. i.outRegs \in Seq(Registers) /\ IsInjective(i.outRegs)
  BY InstrAssumption DEF IsInstr
<1>2. CASE BaseUpdReg(i) = None
  <2>1. Outputs(i) = i.outRegs  BY <1>2 DEF Outputs
  <2>. QED  BY <1>1, <1>2, <2>1 DEF HasBaseUpd
<1>3. CASE BaseUpdReg(i) # None
  <2>. DEFINE s == i.outRegs
              p == BasePosition(i)
  <2>1. \E k \in DOMAIN s : s[k] = BaseUpdReg(i)
    BY <1>3, BaseIsOutput DEF HasBaseUpd, ToSet
  <2>2. p \in 1 .. Len(s) /\ s[p] = BaseUpdReg(i)
    BY <1>1, <2>1 DEF BasePosition
  <2>3. Outputs(i) = Append(RemoveAt(s, p), s[p])
    BY <1>3, <2>2 DEF Outputs
  <2>. DEFINE t == Append(RemoveAt(s, p), s[p])
  <2>4. /\ t \in Seq(Registers) /\ Len(t) = Len(s) /\ t[Len(t)] = s[p]
        /\ IsInjective(t) /\ ToSet(t) = ToSet(s)
    <3>. HIDE DEF p, s
    <3>1. s \in Seq(Registers) /\ IsInjective(s)  BY <1>1 DEF s
    <3>. QED  BY <2>2, <3>1, MovedLast
  <2>5. Len(s) >= 1
    BY <1>1, <2>2
  <2>. HIDE DEF t
  <2>. QED  BY <2>2, <2>3, <2>4, <2>5 DEF t
<1>. QED  BY <1>2, <1>3

(* How many pieces there are, the last of which updates the base register.  *)
LEMMA PieceNumbers ==
  ASSUME NEW i \in Instrs, ReadAsserts(i)
  PROVE  /\ MemPieces(i) \in Nat /\ TotalPieces(i) \in Nat \ {0}
         /\ TotalPieces(i) =
              (IF IsMem(i) THEN MemPieces(i) + AsNat(HasBaseUpd(i)) ELSE TotalPieces(i))
         /\ MemPieces(i) >= 1 <=> IsMem(i)
         /\ i.type # "store" =>
              TotalPieces(i) = Larger(1, Len(i.outRegs)) + Cardinality(i.wide)
         /\ i.type = "load" => Len(i.outRegs) >= 1
<1>1. IsInstr(i)
  BY InstrAssumption
<1>2. /\ i.type \in {"alu", "load", "store"} /\ i.outRegs \in Seq(Registers)
      /\ i.inRegs \in Seq(Registers) /\ i.hasRegOffset \in BOOLEAN
      /\ IsInjective(i.outRegs)
      /\ i.wide \subseteq {r \in ToSet(i.outRegs) : ~reg_is_int(r)}
  BY <1>1 DEF IsInstr
<1>3. Cardinality(i.wide) \in Nat
  BY <1>2, PiecesFit
<1>4. Larger(1, Len(i.outRegs)) \in Nat \ {0}
  BY <1>2 DEF Larger
<1>5. Larger(1, StoreValueRegs(i)) \in Nat \ {0}
  <2>1. StoreValueRegs(i) \in Int
    BY <1>2 DEF StoreValueRegs, AsNat
  <2>. QED  BY <2>1 DEF Larger
<1>6. CASE i.type = "store"
  <2>1. /\ MemPieces(i) = Larger(1, StoreValueRegs(i)) /\ IsMem(i)
        /\ TotalPieces(i) = MemPieces(i) + AsNat(HasBaseUpd(i))
    BY <1>6 DEF MemPieces, TotalPieces, IsMem
  <2>. QED  BY <1>5, <1>6, <2>1 DEF AsNat
<1>7. CASE i.type = "load"
  <2>1. /\ MemPieces(i) = TotalPieces(i) - AsNat(HasBaseUpd(i)) /\ IsMem(i)
        /\ TotalPieces(i) = Larger(1, Len(i.outRegs)) + Cardinality(i.wide)
    BY <1>7 DEF MemPieces, TotalPieces, IsMem, TotalUnlessStore
  <2>2. Len(i.outRegs) > 0 /\ Len(i.outRegs) \in Nat
    BY <1>2, <1>7 DEF ReadAsserts, CaptureAsserts
  <2>3. HasBaseUpd(i) => Len(i.outRegs) > 1
    BY <1>7, BaseIsOutput
  <2>. QED  BY <1>3, <1>4, <1>7, <2>1, <2>2, <2>3 DEF AsNat, Larger
<1>8. CASE i.type = "alu"
  <2>1. /\ MemPieces(i) = 0 /\ ~IsMem(i)
        /\ TotalPieces(i) = Larger(1, Len(i.outRegs)) + Cardinality(i.wide)
    BY <1>8 DEF MemPieces, TotalPieces, IsMem, TotalUnlessStore
  <2>. QED  BY <1>3, <1>4, <1>8, <2>1
<1>. QED  BY <1>2, <1>6, <1>7, <1>8

-----------------------------------------------------------------------------
(* Cracking an instruction i.                                               *)

(* The record that readInstr() has filled, and its bookkeeping.             *)
Loaded(i) ==
  /\ mInstr = Reordered(i) /\ mBaseUpdReg = BaseUpdReg(i)
  /\ mTotalPieces = TotalPieces(i) /\ mMemPieces = MemPieces(i)
  /\ mSizeFactor = SizeFactor(i)

(* Piece k: the update of the base register is the last one; the others     *)
(* take the values in their order, or store.                                *)
TakesOutputs(i) == i.type # "store" /\ Outputs(i) # <<>>
UpdatesBase(i, k) == HasBaseUpd(i) /\ k = TotalPieces(i)
InRegOf(i, j) == IF j < Len(i.inRegs) THEN i.inRegs[j + 1] ELSE None
CrackedAs(piece, i, k) ==
  /\ UpdatesBase(i, k) =>
       /\ piece.class = "alu" /\ piece.D = BaseUpdReg(i)
       /\ piece.value = <<BaseUpdReg(i), 0>>
  /\ ~UpdatesBase(i, k) =>
       /\ piece.class = i.type
       /\ TakesOutputs(i) => /\ k <= Len(Values(Outputs(i)))
                             /\ piece.value = Values(Outputs(i))[k]
                             /\ piece.D = piece.value[1]
       /\ ~TakesOutputs(i) => piece.D = None /\ piece.value = None
       /\ i.type = "store" =>
            /\ piece.sources[IF i.hasRegOffset THEN 3 ELSE 2]
                 = InRegOf(i, AsNat(i.hasRegOffset) + k)
            /\ piece.addr = (k - 1) * SizeFactor(i)
            /\ piece.size = Larger(1, SizeFactor(i))

(* The index of the register and the parity of the lane tell which value is *)
(* next.                                                                    *)
PlaceOf(i, r, lane, x) ==
  /\ r \in 0 .. Len(Outputs(i)) /\ lane \in Nat
  /\ x = Offset(Outputs(i), r) + (lane % 2)
  /\ lane % 2 = 1 => r < Len(Outputs(i)) /\ ~reg_is_int(Outputs(i)[r + 1])

PieceRecords ==
  [class : {"alu", "load", "store"}, sources : Seq(Registers \cup {None}),
   D : Registers \cup {None}, value : Lane \cup {None}, addr : Int, size : Int]

CrackingOf(i) ==
  /\ mProcessedPieces \in 0 .. TotalPieces(i) /\ mCrackValIdx = mProcessedPieces
  /\ pieces \in Seq(PieceRecords) /\ Len(pieces) = mProcessedPieces
  /\ \A k \in 1 .. mProcessedPieces : CrackedAs(pieces[k], i, k)
  /\ TakesOutputs(i) /\ mProcessedPieces <= TotalPieces(i) - AsNat(HasBaseUpd(i)) =>
       PlaceOf(i, mCrackRegIdx, start_fp_reg, mProcessedPieces)

NotYetRead ==
  mInstr = NoInstr /\ mTotalPieces = 0 /\ mProcessedPieces = 0 /\ pieces = <<>>

ReaderInv ==
  \/ NotYetRead
  \/ \E i \in Instrs : ReadAsserts(i) /\ Loaded(i) /\ CrackingOf(i)

(* The condition of the base update is that of the last piece.              *)
LEMMA BaseUpdateLast ==
  ASSUME NEW i \in Instrs, ReadAsserts(i), Loaded(i), CrackingOf(i)
  PROVE  /\ CreateBaseUpdateOp <=> UpdatesBase(i, mProcessedPieces + 1)
         /\ TakesOutput <=> ~CreateBaseUpdateOp /\ TakesOutputs(i)
         /\ mProcessedPieces < mTotalPieces /\ ~CreateBaseUpdateOp =>
              mProcessedPieces < TotalPieces(i) - AsNat(HasBaseUpd(i))
         /\ mProcessedPieces \in Nat
<1>1. /\ mInstr.type = i.type /\ mInstr.outRegs = Outputs(i)
      /\ mMemPieces = MemPieces(i) /\ mTotalPieces = TotalPieces(i)
  BY DEF Loaded, Reordered
<1>2. /\ MemPieces(i) \in Nat /\ TotalPieces(i) \in Nat \ {0}
      /\ MemPieces(i) >= 1 <=> IsMem(i)
  BY PieceNumbers
<1>3. IsMem(mInstr) <=> IsMem(i)
  BY <1>1 DEF IsMem
<1>4. mProcessedPieces \in Nat /\ mProcessedPieces <= TotalPieces(i)
  BY <1>2 DEF CrackingOf
<1>5. HasBaseUpd(i) => IsMem(i) /\ TotalPieces(i) = MemPieces(i) + 1
  BY BaseIsOutput, PieceNumbers DEF AsNat
<1>6. IsMem(i) /\ ~HasBaseUpd(i) => TotalPieces(i) = MemPieces(i)
  BY PieceNumbers DEF AsNat
<1>7. CreateBaseUpdateOp <=> UpdatesBase(i, mProcessedPieces + 1)
  BY <1>1, <1>2, <1>3, <1>4, <1>5, <1>6 DEF CreateBaseUpdateOp, UpdatesBase
<1>8. TakesOutput <=> ~CreateBaseUpdateOp /\ TakesOutputs(i)
  BY <1>1 DEF TakesOutput, TakesOutputs
<1>9. mProcessedPieces < mTotalPieces /\ ~CreateBaseUpdateOp =>
        mProcessedPieces < TotalPieces(i) - AsNat(HasBaseUpd(i))
  BY <1>1, <1>2, <1>4, <1>7 DEF UpdatesBase, AsNat
<1>. QED  BY <1>4, <1>7, <1>8, <1>9

(* There are at least as many values as pieces that take them; the value of *)
(* the base register comes after all of theirs.                             *)
LEMMA ValuesSuffice ==
  ASSUME NEW i \in Instrs, ReadAsserts(i), TakesOutputs(i)
  PROVE  TotalPieces(i) <= Len(Values(Outputs(i))) /\ Len(Outputs(i)) >= 1
<1>. DEFINE outs == Outputs(i)
<1>1. /\ outs \in Seq(Registers) /\ IsInjective(outs)
      /\ Len(outs) = Len(i.outRegs) /\ ToSet(outs) = ToSet(i.outRegs)
  BY OutputsOrder
<1>2. i.wide \subseteq {r \in ToSet(outs) : ~reg_is_int(r)}
  BY <1>1, InstrAssumption DEF IsInstr
<1>3. /\ Cardinality(i.wide) \in Nat
      /\ Len(outs) + Cardinality(i.wide) <= Len(Values(outs))
  BY <1>1, <1>2, PiecesFit
<1>4. Len(outs) >= 1 /\ Len(outs) \in Nat
  BY <1>1 DEF TakesOutputs
<1>5. TotalPieces(i) = Larger(1, Len(i.outRegs)) + Cardinality(i.wide)
  BY PieceNumbers DEF TakesOutputs
<1>. QED  BY <1>1, <1>3, <1>4, <1>5 DEF Larger

(* The last value is that of the base register that is updated.             *)
LEMMA BaseValueLast ==
  ASSUME NEW i \in Instrs, ReadAsserts(i), HasBaseUpd(i)
  PROVE  /\ Len(Values(Outputs(i))) >= 1
         /\ Values(Outputs(i))[Len(Values(Outputs(i)))] = <<BaseUpdReg(i), 0>>
<1>. DEFINE outs == Outputs(i)
            n == Len(outs)
            vals == Values(outs)
<1>1. /\ outs \in Seq(Registers) /\ IsInjective(outs) /\ n >= 1
      /\ outs[n] = BaseUpdReg(i)
  BY OutputsOrder
<1>2. reg_is_int(BaseUpdReg(i))
  BY BaseIsOutput
<1>3. Layout(outs)
  BY <1>1, ValuesLaidOut
<1>4. n \in 1 .. n /\ n - 1 \in 0 .. n /\ n \in Nat
  BY <1>1
<1>5. Width(outs[n]) = 1
  BY <1>1, <1>2 DEF Width
<1>6. /\ Len(vals) = Offset(outs, n - 1) + 1 /\ Offset(outs, n - 1) \in Nat
      /\ vals[Offset(outs, n - 1) + 1] = <<outs[n], 1 - 1>>
  <2>1. 1 \in 1 .. Width(outs[n])  BY <1>5
  <2>. HIDE DEF outs, n
  <2>. QED  BY <1>3, <1>4, <1>5, <2>1 DEF Layout, n, vals
<1>. QED  BY <1>1, <1>6

(* The next output, and where cracking goes on.                             *)
LEMMA NextOutput ==
  ASSUME NEW i \in Instrs, ReadAsserts(i), Loaded(i), CrackingOf(i),
         mProcessedPieces < mTotalPieces, TakesOutput
  PROVE  /\ mCrackRegIdx \in 0 .. Len(Outputs(i)) - 1
         /\ mProcessedPieces < Len(Values(Outputs(i)))
         /\ D = Outputs(i)[mCrackRegIdx + 1] /\ D \in Registers
         /\ Value = Values(Outputs(i))[mProcessedPieces + 1]
         /\ Value = <<D, start_fp_reg % 2>>
         /\ PlaceOf(i, NextReg, NextLane, mProcessedPieces + 1)
<1>. DEFINE outs == Outputs(i)
            n == Len(outs)
            vals == Values(outs)
            r == mCrackRegIdx
            p == mProcessedPieces
            lane == start_fp_reg
<1>1. /\ ~CreateBaseUpdateOp /\ TakesOutputs(i) /\ p \in Nat
      /\ p < TotalPieces(i) - AsNat(HasBaseUpd(i))
  BY BaseUpdateLast
<1>2. outs \in Seq(Registers) /\ IsInjective(outs)
  BY OutputsOrder
<1>3. Layout(outs)
  BY <1>2, ValuesLaidOut
<1>4. n \in Nat /\ n >= 1 /\ TotalPieces(i) <= Len(vals) /\ TotalPieces(i) \in Nat
  BY <1>1, <1>2, ValuesSuffice, PieceNumbers
<1>5. p < Len(vals)
  BY <1>1, <1>2, <1>4, <1>3 DEF AsNat, Layout
<1>6. PlaceOf(i, r, lane, p)
  BY <1>1, <1>4 DEF CrackingOf, AsNat
<1>7. r \in 0 .. n - 1
  <2>1. r \in 0 .. n /\ p = Offset(outs, r) + (lane % 2) /\ (lane % 2 = 1 => r < n) /\ lane \in Nat
    BY <1>6 DEF PlaceOf
  <2>2. Offset(outs, n) = Len(vals) /\ Offset(outs, r) \in Nat
    BY <1>3, <2>1 DEF Layout
  <2>3. lane % 2 = 0 \/ lane % 2 = 1
    BY <2>1
  <2>. QED  BY <1>4, <1>5, <2>1, <2>2, <2>3
<1>8. r + 1 \in 1 .. n /\ (r + 1) - 1 = r /\ r + 1 <= n
  BY <1>4, <1>7
<1>9. D = outs[r + 1] /\ Value = vals[p + 1]
  <2>1. mCrackValIdx = p /\ mInstr.outRegs = outs /\ mInstr.values = vals
    BY DEF CrackingOf, Loaded, Reordered
  <2>. HIDE DEF outs, vals
  <2>. QED  BY <1>1, <2>1 DEF D, Value
<1>10. D \in Registers
  BY <1>2, <1>8, <1>9
<1>. DEFINE off(k) == Offset(outs, k)
<1>11. /\ off(r + 1) = off(r) + Width(D) /\ off(r) \in Nat
       /\ \A x \in 1 .. Width(D) : vals[off(r) + x] = <<D, x - 1>>
  <2>1. \A k \in 1 .. n :
          /\ off(k) = off(k - 1) + Width(outs[k])
          /\ \A x \in 1 .. Width(outs[k]) : vals[off(k - 1) + x] = <<outs[k], x - 1>>
    BY <1>3 DEF Layout
  <2>2. off(r) \in Nat
    BY <1>3, <1>7, <1>4 DEF Layout
  <2>. DEFINE k == r + 1
  <2>3. k \in 1 .. n /\ k - 1 = r /\ D = outs[k]
    BY <1>8, <1>9
  <2>. HIDE DEF off, outs, n, vals, k, D
  <2>4. /\ off(k) = off(r) + Width(D)
        /\ \A x \in 1 .. Width(D) : vals[off(r) + x] = <<D, x - 1>>
    BY <2>1, <2>3
  <2>. QED  BY <2>2, <2>4 DEF k
<1>12. /\ p = off(r) + (lane % 2) /\ lane \in Nat /\ r \in Nat
       /\ lane % 2 = 1 => ~reg_is_int(D)
       /\ lane % 2 \in {0, 1}
  BY <1>6, <1>7, <1>9 DEF PlaceOf
<1>13. Value = <<D, lane % 2>>
  <2>1. (lane % 2) + 1 \in 1 .. Width(D) /\ ((lane % 2) + 1) - 1 = lane % 2
    BY <1>12 DEF Width
  <2>. DEFINE x == (lane % 2) + 1
  <2>2. p + 1 = off(r) + x
    BY <1>12, <1>11
  <2>3. vals[off(r) + x] = <<D, x - 1>>
    <3>. HIDE DEF x, off, vals
    <3>. QED  BY <1>11, <2>1 DEF x
  <2>4. x - 1 = lane % 2
    BY <1>12
  <2>. HIDE DEF x, off, vals
  <2>. QED  BY <1>9, <2>2, <2>3, <2>4
<1>14. PlaceOf(i, NextReg, NextLane, p + 1)
  <2>1. InSIMD <=> ~reg_is_int(D)
    <3>1. mInstr.outRegs = outs  BY DEF Loaded, Reordered
    <3>2. r < n  BY <1>4, <1>7
    <3>. HIDE DEF outs, D
    <3>. QED  BY <1>9, <3>1, <3>2 DEF InSIMD, n
  <2>2. NextLane = IF reg_is_int(D) THEN 0 ELSE lane + 1
    <3>. HIDE DEF D
    <3>. QED  BY <1>1 DEF NextLane
  <2>. HIDE DEF outs, n, vals, r, p, lane, off
  <2>3. CASE reg_is_int(D)
    <3>1. NextLane = 0 /\ NextReg = r + 1
      BY <2>1, <2>2, <2>3 DEF NextReg, r
    <3>2. lane % 2 = 0 /\ Width(D) = 1
      BY <1>12, <2>3 DEF Width
    <3>3. p + 1 = off(r + 1) + (0 % 2) /\ 0 % 2 = 0
      BY <1>11, <1>12, <3>2
    <3>. QED  BY <1>8, <1>4, <1>12, <3>1, <3>3 DEF PlaceOf, n, outs, off
  <2>4. CASE ~reg_is_int(D) /\ lane % 2 = 0
    <3>0. (lane + 1) % 2 = 1
      BY <1>12, <2>4
    <3>1. NextLane = lane + 1 /\ NextReg = r
      BY <2>1, <2>2, <2>4, <3>0 DEF NextReg, r
    <3>2. p + 1 = off(r) + ((lane + 1) % 2)
      BY <1>11, <1>12, <2>4, <3>0
    <3>3. r \in 0 .. n /\ lane + 1 \in Nat /\ r < n
      BY <1>4, <1>7, <1>12
    <3>. QED  BY <1>9, <2>4, <3>0, <3>1, <3>2, <3>3 DEF PlaceOf, n, outs, off
  <2>5. CASE ~reg_is_int(D) /\ lane % 2 = 1
    <3>0. (lane + 1) % 2 = 0
      BY <1>12, <2>5
    <3>1. NextLane = lane + 1 /\ NextReg = r + 1
      BY <2>1, <2>2, <2>5, <3>0 DEF NextReg, r
    <3>2. p + 1 = off(r + 1) + ((lane + 1) % 2)
      BY <1>11, <1>12, <2>5, <3>0 DEF Width
    <3>3. r + 1 \in 0 .. n /\ lane + 1 \in Nat
      BY <1>4, <1>7, <1>12
    <3>. QED  BY <3>0, <3>1, <3>2, <3>3 DEF PlaceOf, n, outs, off
  <2>. QED  BY <1>12, <2>3, <2>4, <2>5
<1>. QED  BY <1>5, <1>7, <1>9, <1>10, <1>13, <1>14

(* The division that gives the size of a piece is one of numbers.           *)
LEMMA SizeFactorNat ==
  ASSUME NEW i \in Instrs, ReadAsserts(i)
  PROVE  SizeFactor(i) \in Nat
<1>1. i.memSize \in Nat
  BY InstrAssumption DEF IsInstr
<1>2. /\ MemPieces(i) \in Nat /\ TotalPieces(i) \in Nat \ {0}
      /\ MemPieces(i) >= 1 <=> IsMem(i)
  BY PieceNumbers
<1>. DEFINE d == IF IsMem(i) THEN MemPieces(i) ELSE TotalPieces(i)
<1>3. d \in Nat \ {0}
  BY <1>2
<1>. HIDE DEF d
<1>4. i.memSize \div d \in Nat
  BY <1>1, <1>3
<1>. QED  BY <1>4 DEF SizeFactor, d

(* The reader's invariant, initially and after each step.                   *)
LEMMA ReaderInitially == Init => ReaderInv
BY DEF Init, ReaderInv, NotYetRead

(* Reading an instruction begins a cracking with no piece made.             *)
LEMMA ReadKeepsInv ==
  ASSUME ReaderInv, ReadInstr
  PROVE  ReaderInv'
<1>1. PICK i \in Instrs :
        IF ReadAsserts(i)
        THEN /\ mInstr' = Reordered(i)
             /\ mBaseUpdReg' = BaseUpdReg(i)
             /\ mTotalPieces' = TotalPieces(i) /\ mMemPieces' = MemPieces(i)
             /\ mSizeFactor' = SizeFactor(i)
             /\ mProcessedPieces' = 0 /\ mCrackRegIdx' = 0 /\ mCrackValIdx' = 0
             /\ start_fp_reg' = Start
             /\ pieces' = <<>> /\ UNCHANGED aborted
        ELSE /\ aborted' = TRUE
             /\ UNCHANGED <<mInstr, mBaseUpdReg, bookkeeping, cracking, pieces>>
  BY DEF ReadInstr
<1>2. CASE ReadAsserts(i)
  <2>1. Loaded(i)'
    BY <1>1, <1>2 DEF Loaded
  <2>2. TotalPieces(i) \in Nat
    BY <1>2, PieceNumbers
  <2>3. PlaceOf(i, 0, 0, 0)
    <3>1. Outputs(i) \in Seq(Registers)
      BY <1>2, OutputsOrder
    <3>2. Len(Outputs(i)) \in Nat /\ Offset(Outputs(i), 0) = 0
      BY <3>1, OffsetSteps
    <3>. QED  BY <3>2 DEF PlaceOf
  <2>4. pieces' \in Seq(PieceRecords) /\ Len(pieces') = 0
    BY <1>1, <1>2
  <2>5. CrackingOf(i)'
    BY <1>1, <1>2, <2>2, <2>3, <2>4 DEF CrackingOf, Start
  <2>. QED  BY <1>2, <2>1, <2>5 DEF ReaderInv
<1>3. CASE ~ReadAsserts(i)
  <2>1. UNCHANGED <<mInstr, mBaseUpdReg, bookkeeping, cracking, pieces>>
    BY <1>1, <1>3
  <2>. QED
    BY <2>1 DEF ReaderInv, NotYetRead, Loaded, CrackingOf, bookkeeping, cracking
<1>. QED  BY <1>2, <1>3

(* The piece that populateNewInstr() makes is the next.                     *)
LEMMA PieceMade ==
  ASSUME NEW i \in Instrs, ReadAsserts(i), Loaded(i), CrackingOf(i),
         mProcessedPieces < mTotalPieces, PieceAsserts
  PROVE  Piece \in PieceRecords /\ CrackedAs(Piece, i, mProcessedPieces + 1)
<1>. DEFINE p == mProcessedPieces
            outs == Outputs(i)
            vals == Values(outs)
<1>1. /\ CreateBaseUpdateOp <=> UpdatesBase(i, p + 1)
      /\ TakesOutput <=> ~CreateBaseUpdateOp /\ TakesOutputs(i)
      /\ p \in Nat
  BY BaseUpdateLast
<1>2. /\ mInstr.type = i.type /\ mInstr.outRegs = outs /\ mInstr.values = vals
      /\ mInstr.inRegs = i.inRegs /\ mInstr.hasRegOffset = i.hasRegOffset
      /\ mBaseUpdReg = BaseUpdReg(i) /\ mSizeFactor = SizeFactor(i)
  BY DEF Loaded, Reordered
<1>3. /\ i.type \in {"alu", "load", "store"} /\ i.inRegs \in Seq(Registers)
      /\ i.outRegs \in Seq(Registers) /\ i.hasRegOffset \in BOOLEAN
  BY InstrAssumption DEF IsInstr
<1>4. SizeFactor(i) \in Nat
  BY SizeFactorNat
<1>5. vals \in Seq(Lane)
  <2>1. outs \in Seq(Registers) /\ IsInjective(outs)
    BY OutputsOrder
  <2>. QED  BY <2>1, ValuesLaidOut DEF Layout
<1>6. CreateBaseUpdateOp =>
        /\ D = BaseUpdReg(i) /\ BaseUpdReg(i) \in Registers
        /\ Value = <<BaseUpdReg(i), 0>>
  <2>1. SUFFICES ASSUME CreateBaseUpdateOp
                 PROVE  /\ D = BaseUpdReg(i) /\ BaseUpdReg(i) \in Registers
                        /\ Value = <<BaseUpdReg(i), 0>>
    OBVIOUS
  <2>2. HasBaseUpd(i)
    BY <1>1, <2>1 DEF UpdatesBase
  <2>3. D = BaseUpdReg(i) /\ Value = Last(vals)
    <3>1. mInstr.values = vals /\ mBaseUpdReg = BaseUpdReg(i)
      BY <1>2
    <3>. HIDE DEF vals
    <3>2. Value = Last(mInstr.values) /\ D = mBaseUpdReg
      <4>1. ~TakesOutput  BY <2>1 DEF TakesOutput
      <4>2. Value = Last(mInstr.values)  BY <2>1, <4>1 DEF Value
      <4>3. D = mBaseUpdReg  BY <2>1, <4>1 DEF D
      <4>. QED  BY <4>2, <4>3
    <3>. QED  BY <3>1, <3>2
  <2>4. Last(vals) = <<BaseUpdReg(i), 0>>
    BY <2>2, BaseValueLast DEF Last
  <2>5. BaseUpdReg(i) \in Registers
    <3>1. BaseUpdReg(i) \in ToSet(i.outRegs)
      BY <2>2, BaseIsOutput
    <3>. QED  BY <1>3, <3>1 DEF ToSet
  <2>. QED  BY <2>3, <2>4, <2>5
<1>7. TakesOutput =>
        /\ p + 1 <= Len(vals) /\ Value = vals[p + 1] /\ D \in Registers
        /\ D = Value[1] /\ Value \in Lane
  <2>1. SUFFICES ASSUME TakesOutput
                 PROVE  /\ p + 1 <= Len(vals) /\ Value = vals[p + 1] /\ D \in Registers
                        /\ D = Value[1] /\ Value \in Lane
    OBVIOUS
  <2>2. /\ p < Len(vals) /\ D \in Registers
        /\ Value = vals[p + 1] /\ Value = <<D, start_fp_reg % 2>>
    BY <2>1, NextOutput
  <2>. DEFINE v == Value
              d == D
  <2>3. v = <<d, start_fp_reg % 2>> => v[1] = d
    <3>. HIDE DEF v, d
    <3>. QED  OBVIOUS
  <2>4. p + 1 \in 1 .. Len(vals)
    BY <1>1, <1>5, <2>2
  <2>5. vals[p + 1] \in Lane
    <3>. HIDE DEF vals
    <3>. QED  BY <1>5, <2>4
  <2>. QED  BY <1>1, <2>2, <2>3, <2>4, <2>5
<1>8. ~CreateBaseUpdateOp /\ ~TakesOutput => D = None /\ Value = None
  BY DEF D, Value
<1>9. \A j : InReg(j) = InRegOf(i, j)
  BY <1>2 DEF InReg, InRegOf
<1>10. \A j \in Nat : InRegOf(i, j) \in Registers \cup {None}
  BY <1>3 DEF InRegOf
<1>11. /\ Piece.class = IF CreateBaseUpdateOp THEN "alu" ELSE i.type
       /\ Piece.D = D /\ Piece.value = Value /\ Piece.sources = PieceSources
       /\ Piece.addr = p * SizeFactor(i) /\ Piece.size = Larger(1, SizeFactor(i))
  BY <1>2 DEF Piece
<1>12. PieceSources \in Seq(Registers \cup {None})
  <2>. DEFINE R == Registers \cup {None}
              offset == AsNat(i.hasRegOffset)
  <2>1. InReg(0) \in R /\ InReg(1) \in R /\ InReg(2) \in R /\ InReg(StrValue) \in R
    <3>1. StrValue \in Nat
      BY <1>1, <1>2 DEF StrValue, AsNat
    <3>. QED  BY <1>9, <1>10, <3>1
  <2>2. CreateBaseUpdateOp => mBaseUpdReg \in R
    BY <1>2, <1>6
  <2>3. None \in R
    OBVIOUS
  <2>. HIDE DEF R
  <2>4. \A a, b, c \in R : <<a, b, c>> \in Seq(R)
    OBVIOUS
  <2>5. \/ CreateBaseUpdateOp /\ PieceSources = <<mBaseUpdReg, None, None>>
        \/ PieceSources = <<InReg(0), InReg(1), InReg(StrValue)>>
        \/ PieceSources = <<InReg(0), InReg(StrValue), None>>
        \/ PieceSources = <<InReg(0), InReg(1), InReg(2)>>
    BY DEF PieceSources
  <2>6. PieceSources \in Seq(R)
    BY <2>1, <2>2, <2>3, <2>4, <2>5
  <2>. QED  BY <2>6 DEF R
<1>13. Larger(1, SizeFactor(i)) \in Int /\ p * SizeFactor(i) \in Int
  BY <1>1, <1>4 DEF Larger
<1>14. D \in Registers \cup {None} /\ Value \in Lane \cup {None}
  <2>1. CreateBaseUpdateOp => Value \in Lane
    <3>1. \A r \in Registers : <<r, 0>> \in Lane  BY DEF Lane
    <3>. QED  BY <1>6, <3>1
  <2>. QED  BY <1>6, <1>7, <1>8, <2>1
<1>15. Piece \in PieceRecords
  <2>1. (IF CreateBaseUpdateOp THEN "alu" ELSE mInstr.type) \in {"alu", "load", "store"}
    BY <1>2, <1>3
  <2>2. mProcessedPieces * mSizeFactor \in Int /\ Larger(1, mSizeFactor) \in Int
    BY <1>2, <1>13
  <2>. QED  BY <1>12, <1>14, <2>1, <2>2 DEF Piece, PieceRecords
<1>16. ASSUME ~CreateBaseUpdateOp, i.type = "store"
       PROVE  PieceSources[IF i.hasRegOffset THEN 3 ELSE 2]
                = InRegOf(i, AsNat(i.hasRegOffset) + (p + 1))
  <2>1. StrValue = AsNat(i.hasRegOffset) + (p + 1)
    BY <1>1, <1>2 DEF StrValue, AsNat
  <2>2. InReg(StrValue) = InRegOf(i, AsNat(i.hasRegOffset) + (p + 1))
    BY <1>9, <2>1
  <2>3. CASE i.hasRegOffset
    <3>1. PieceSources = <<InReg(0), InReg(1), InReg(StrValue)>>
      BY <1>2, <1>16, <2>3 DEF PieceSources
    <3>. QED  BY <2>2, <2>3, <3>1
  <2>4. CASE ~i.hasRegOffset
    <3>1. PieceSources = <<InReg(0), InReg(StrValue), None>>
      BY <1>2, <1>16, <2>4 DEF PieceSources
    <3>. QED  BY <2>2, <2>4, <3>1
  <2>. QED  BY <2>3, <2>4
<1>17. (p + 1) - 1 = p
  BY <1>1
<1>. DEFINE piece == Piece
<1>. HIDE DEF piece
<1>18. CrackedAs(piece, i, p + 1)
  <2>1. UpdatesBase(i, p + 1) =>
          /\ piece.class = "alu" /\ piece.D = BaseUpdReg(i)
          /\ piece.value = <<BaseUpdReg(i), 0>>
    BY <1>1, <1>6, <1>11 DEF piece
  <2>2. ~UpdatesBase(i, p + 1) =>
          /\ piece.class = i.type
          /\ TakesOutputs(i) => /\ p + 1 <= Len(vals) /\ piece.value = vals[p + 1]
                                /\ piece.D = piece.value[1]
          /\ ~TakesOutputs(i) => piece.D = None /\ piece.value = None
    BY <1>1, <1>7, <1>8, <1>11 DEF piece
  <2>3. ~UpdatesBase(i, p + 1) /\ i.type = "store" =>
          /\ piece.sources[IF i.hasRegOffset THEN 3 ELSE 2]
               = InRegOf(i, AsNat(i.hasRegOffset) + (p + 1))
          /\ piece.addr = ((p + 1) - 1) * SizeFactor(i)
          /\ piece.size = Larger(1, SizeFactor(i))
    BY <1>1, <1>11, <1>16, <1>17 DEF piece
  <2>. QED  BY <2>1, <2>2, <2>3 DEF CrackedAs
<1>. QED  BY <1>15, <1>18 DEF piece

(* Making a piece keeps all pieces made as CrackedAs says.                  *)
LEMMA PopulateKeepsInv ==
  ASSUME ReaderInv, PopulateNewInstr
  PROVE  ReaderInv'
<1>1. PICK i \in Instrs : ReadAsserts(i) /\ Loaded(i) /\ CrackingOf(i)
  BY DEF ReaderInv, NotYetRead, PopulateNewInstr
<1>2. UNCHANGED <<mInstr, mBaseUpdReg, bookkeeping>> /\ mProcessedPieces < mTotalPieces
  BY DEF PopulateNewInstr
<1>3. Loaded(i)'
  BY <1>1, <1>2 DEF Loaded, bookkeeping
<1>4. CASE ~PieceAsserts
  <2>1. UNCHANGED <<cracking, pieces>>
    BY <1>4 DEF PopulateNewInstr
  <2>2. CrackingOf(i)'
    BY <1>1, <2>1 DEF CrackingOf, cracking
  <2>. QED  BY <1>1, <1>3, <2>2 DEF ReaderInv
<1>5. CASE PieceAsserts
  <2>. DEFINE p == mProcessedPieces
              piece == Piece
  <2>1. /\ pieces' = Append(pieces, piece) /\ mProcessedPieces' = p + 1
        /\ start_fp_reg' = NextLane /\ mCrackValIdx' = mCrackValIdx + 1
        /\ mCrackRegIdx' = NextReg
    BY <1>5 DEF PopulateNewInstr
  <2>2. piece \in PieceRecords /\ CrackedAs(piece, i, p + 1)
    BY <1>1, <1>2, <1>5, PieceMade
  <2>3. /\ p \in 0 .. TotalPieces(i) /\ mCrackValIdx = p
        /\ pieces \in Seq(PieceRecords) /\ Len(pieces) = p
        /\ \A k \in 1 .. p : CrackedAs(pieces[k], i, k)
    BY <1>1 DEF CrackingOf
  <2>4. TotalPieces(i) \in Nat /\ mTotalPieces = TotalPieces(i)
    BY <1>1, PieceNumbers DEF Loaded
  <2>5. /\ CreateBaseUpdateOp <=> UpdatesBase(i, p + 1)
        /\ TakesOutput <=> ~CreateBaseUpdateOp /\ TakesOutputs(i)
    BY <1>1, BaseUpdateLast
  <2>6. /\ pieces' \in Seq(PieceRecords) /\ Len(pieces') = p + 1
        /\ \A k \in 1 .. p : pieces'[k] = pieces[k]
        /\ pieces'[p + 1] = piece
    <3>. HIDE DEF piece
    <3>. QED  BY <2>1, <2>2, <2>3
  <2>7. \A k \in 1 .. p + 1 : CrackedAs(pieces'[k], i, k)
    <3>. HIDE DEF piece
    <3>1. \A k \in 1 .. p + 1 : k \in 1 .. p \/ k = p + 1
      BY <2>3
    <3>. QED  BY <2>2, <2>3, <2>6, <3>1
  <2>8. TakesOutputs(i) /\ p + 1 <= TotalPieces(i) - AsNat(HasBaseUpd(i)) =>
          PlaceOf(i, mCrackRegIdx', start_fp_reg', p + 1)
    <3>1. SUFFICES ASSUME TakesOutputs(i), p + 1 <= TotalPieces(i) - AsNat(HasBaseUpd(i))
                   PROVE  PlaceOf(i, mCrackRegIdx', start_fp_reg', p + 1)
      OBVIOUS
    <3>2. ~CreateBaseUpdateOp
      BY <2>3, <2>4, <2>5, <3>1 DEF UpdatesBase, AsNat
    <3>3. TakesOutput
      BY <2>5, <3>1, <3>2
    <3>. QED  BY <1>1, <1>2, <2>1, <3>3, NextOutput
  <2>9. p + 1 \in 0 .. TotalPieces(i)
    BY <1>2, <2>3, <2>4
  <2>10. CrackingOf(i)'
    <3>. HIDE DEF piece
    <3>. QED  BY <2>1, <2>3, <2>6, <2>7, <2>8, <2>9 DEF CrackingOf
  <2>. QED  BY <1>1, <1>3, <2>10 DEF ReaderInv
<1>. QED  BY <1>4, <1>5

(* The invariant of the trace reader, for every trace.                      *)
THEOREM ReaderInvariance == Spec => []ReaderInv
<1>1. ReaderInv /\ [Next]_vars => ReaderInv'
  <2>1. ASSUME ReaderInv, UNCHANGED vars PROVE ReaderInv'
    BY <2>1 DEF vars, bookkeeping, cracking, ReaderInv, NotYetRead, Loaded, CrackingOf
  <2>. QED  BY <2>1, ReadKeepsInv, PopulateKeepsInv DEF Next
<1>. QED  BY <1>1, ReaderInitially, PTL DEF Spec

(* The main loop reads and cracks as the trace reader does.                 *)
THEOREM MainImplementsReader == MainSpec => Spec
<1>1. MainInit => Init
  BY DEF MainInit
<1>2. [MainNext]_<<vars, EpochVars>> => [Next]_vars
  BY DEF MainNext, Read, StepPiece, Finish, Stopped, Next
<1>. QED  BY <1>1, <1>2, PTL DEF MainSpec, Spec

(* Which values pieces carry: that of the base register, the next one, or   *)
(* none.                                                                    *)
LEMMA PieceValues ==
  ASSUME NEW i \in Instrs, ReadAsserts(i), CrackingOf(i)
  PROVE  /\ \A k \in 1 .. Len(pieces) : pieces[k].D # None =>
              pieces[k].value[1] = pieces[k].D
         /\ \A k, j \in 1 .. Len(pieces) :
              pieces[k].D # None /\ j # k => pieces[j].value # pieces[k].value
<1>. DEFINE p == mProcessedPieces
            outs == Outputs(i)
            vals == Values(outs)
            total == TotalPieces(i)
<1>1. /\ p \in Nat /\ p <= total /\ total \in Nat /\ Len(pieces) = p
      /\ \A k \in 1 .. p : CrackedAs(pieces[k], i, k)
  BY PieceNumbers DEF CrackingOf
<1>2. outs \in Seq(Registers) /\ IsInjective(outs)
  BY OutputsOrder
<1>3. Layout(outs)
  BY <1>2, ValuesLaidOut
<1>4. vals \in Seq(Lane) /\ \A x, y \in 1 .. Len(vals) : vals[x] = vals[y] => x = y
  BY <1>3 DEF Layout
<1>5. ASSUME NEW k \in 1 .. p, pieces[k].D # None
      PROVE  pieces[k].value[1] = pieces[k].D /\ pieces[k].value # None
  <2>1. CASE UpdatesBase(i, k)
    <3>1. pieces[k].value = <<BaseUpdReg(i), 0>> /\ pieces[k].D = BaseUpdReg(i)
      BY <1>1, <2>1 DEF CrackedAs
    <3>2. BaseUpdReg(i) \in Registers
      <4>1. BaseUpdReg(i) \in ToSet(i.outRegs) /\ i.outRegs \in Seq(Registers)
        BY <2>1, BaseIsOutput, InstrAssumption DEF UpdatesBase, IsInstr
      <4>. QED  BY <4>1 DEF ToSet
    <3>3. <<BaseUpdReg(i), 0>> \in Lane
      BY <3>2 DEF Lane
    <3>. QED  BY <3>1, <3>3, NoneAssumption
  <2>2. CASE ~UpdatesBase(i, k)
    <3>1. /\ TakesOutputs(i) /\ k <= Len(vals) /\ pieces[k].value = vals[k]
          /\ pieces[k].D = pieces[k].value[1]
      BY <1>1, <1>5, <2>2 DEF CrackedAs
    <3>2. vals[k] \in Lane
      <4>1. k \in 1 .. Len(vals)  BY <1>1, <1>4, <3>1
      <4>. HIDE DEF vals
      <4>. QED  BY <1>4, <4>1
    <3>. QED  BY <3>1, <3>2, NoneAssumption
  <2>. QED  BY <2>1, <2>2
<1>6. ASSUME NEW k \in 1 .. p, NEW j \in 1 .. p, j # k, pieces[k].D # None,
             pieces[j].value = pieces[k].value
      PROVE  FALSE
  <2>1. CASE ~TakesOutputs(i)
    <3>1. \A x \in 1 .. p : ~UpdatesBase(i, x) => pieces[x].D = None /\ pieces[x].value = None
      BY <1>1, <2>1 DEF CrackedAs
    <3>2. UpdatesBase(i, k)  BY <1>6, <3>1
    <3>3. ~UpdatesBase(i, j)  BY <1>6, <3>2 DEF UpdatesBase
    <3>. QED  BY <1>5, <1>6, <3>1, <3>3
  <2>2. CASE TakesOutputs(i)
    <3>1. total <= Len(vals) /\ Len(vals) \in Nat
      BY <1>4, <2>2, ValuesSuffice
    <3>2. ASSUME NEW x \in 1 .. p
          PROVE  \E y \in 1 .. Len(vals) :
                   /\ pieces[x].value = vals[y]
                   /\ IF UpdatesBase(i, x) THEN y = Len(vals) ELSE y = x
      <4>1. CASE UpdatesBase(i, x)
        <5>1. pieces[x].value = <<BaseUpdReg(i), 0>>
          BY <1>1, <4>1 DEF CrackedAs
        <5>2. Len(vals) >= 1 /\ vals[Len(vals)] = <<BaseUpdReg(i), 0>>
          BY <4>1, BaseValueLast DEF UpdatesBase
        <5>3. Len(vals) \in 1 .. Len(vals)
          BY <3>1, <5>2
        <5>. QED  BY <4>1, <5>1, <5>2, <5>3
      <4>2. CASE ~UpdatesBase(i, x)
        <5>1. pieces[x].value = vals[x]
          BY <1>1, <2>2, <4>2 DEF CrackedAs
        <5>2. x \in 1 .. Len(vals)
          BY <1>1, <3>1
        <5>. QED  BY <4>2, <5>1, <5>2
      <4>. QED  BY <4>1, <4>2
    <3>3. PICK y \in 1 .. Len(vals) :
            /\ pieces[k].value = vals[y]
            /\ IF UpdatesBase(i, k) THEN y = Len(vals) ELSE y = k
      BY <3>2
    <3>4. PICK z \in 1 .. Len(vals) :
            /\ pieces[j].value = vals[z]
            /\ IF UpdatesBase(i, j) THEN z = Len(vals) ELSE z = j
      BY <3>2
    <3>5. y = z
      BY <1>4, <1>6, <3>3, <3>4
    <3>6. \A x \in 1 .. p : ~UpdatesBase(i, x) /\ HasBaseUpd(i) => x < Len(vals)
      BY <1>1, <3>1 DEF UpdatesBase
    <3>7. \A x \in 1 .. p : UpdatesBase(i, x) => x = total /\ HasBaseUpd(i)
      BY DEF UpdatesBase
    <3>. HIDE DEF vals, total, p
    <3>. QED  BY <1>1, <1>6, <3>3, <3>4, <3>5, <3>6, <3>7
  <2>. QED  BY <2>1, <2>2
<1>. HIDE DEF p
<1>. QED  BY <1>1, <1>5, <1>6

(* Each piece writes a value of its register, and no two the same value.    *)
LEMMA ReaderValues == ReaderInv => ValuesMatch
<1>1. ASSUME NotYetRead PROVE ValuesMatch
  BY <1>1 DEF NotYetRead, ValuesMatch
<1>2. ASSUME NEW i \in Instrs, ReadAsserts(i), CrackingOf(i) PROVE ValuesMatch
  <2>1. DOMAIN pieces = 1 .. Len(pieces)
    BY <1>2 DEF CrackingOf
  <2>. QED  BY <1>2, <2>1, PieceValues DEF ValuesMatch
<1>. QED  BY <1>1, <1>2 DEF ReaderInv

(* A piece writes a value of its own destination register, and no value is  *)
(* written by two pieces, for every instruction of every trace.             *)
THEOREM ReaderValuesMatch == MainSpec => []ValuesMatch
BY ReaderValues, ReaderInvariance, MainImplementsReader, PTL

(* The outputs that are written.                                            *)
LEMMA ValueOfOutput ==
  ASSUME NEW regs \in Seq(Registers), IsInjective(regs), NEW x \in 1 .. Len(Values(regs))
  PROVE  \E j \in 1 .. Len(regs) : Values(regs)[x][1] = regs[j]
<1>1. Layout(regs)
  BY ValuesLaidOut
<1>2. PICK j \in 1 .. Len(regs) : Offset(regs, j - 1) < x /\ x <= Offset(regs, j)
  BY ValuesBelong
<1>. DEFINE q == x - Offset(regs, j - 1)
<1>3. Offset(regs, j) = Offset(regs, j - 1) + Width(regs[j])
  BY <1>1 DEF Layout
<1>4. Offset(regs, j - 1) \in Nat /\ x \in Nat /\ Width(regs[j]) \in Nat
  <2>1. j - 1 \in 0 .. Len(regs)
    OBVIOUS
  <2>2. Offset(regs, j - 1) \in Nat
    BY <1>1, <2>1 DEF Layout
  <2>. QED  BY <2>2 DEF Width
<1>5. q \in 1 .. Width(regs[j]) /\ Offset(regs, j - 1) + q = x
  BY <1>2, <1>3, <1>4
<1>. HIDE DEF q
<1>6. Values(regs)[Offset(regs, j - 1) + q] = <<regs[j], q - 1>>
  BY <1>1, <1>5 DEF Layout
<1>7. Values(regs)[x] = <<regs[j], q - 1>>
  BY <1>5, <1>6
<1>. QED  BY <1>7

(* The first lane of register j follows the values of the registers before. *)
LEMMA FirstLaneAt ==
  ASSUME NEW regs \in Seq(Registers), IsInjective(regs), NEW m \in 1 .. Len(regs),
         NEW j \in 1 .. m
  PROVE  /\ Offset(regs, j - 1) \in Nat
         /\ Offset(regs, j - 1) <= Offset(regs, m - 1) /\ Offset(regs, m - 1) \in Nat
         /\ Values(regs)[Offset(regs, j - 1) + 1] = <<regs[j], 0>>
<1>1. Layout(regs)
  BY ValuesLaidOut
<1>2. m - 1 \in 0 .. Len(regs) /\ j - 1 \in 0 .. m - 1 /\ j - 1 \in 0 .. Len(regs) /\ j \in 1 .. Len(regs)
  OBVIOUS
<1>3. Offset(regs, j - 1) \in Nat /\ Offset(regs, m - 1) \in Nat
  BY <1>1, <1>2 DEF Layout
<1>4. Offset(regs, j - 1) <= Offset(regs, m - 1)
  BY <1>2, ValuesBegin
<1>5. 1 \in 1 .. Width(regs[j])
  BY DEF Width
<1>6. Values(regs)[Offset(regs, j - 1) + 1] = <<regs[j], 1 - 1>>
  BY <1>1, <1>2, <1>5 DEF Layout
<1>. QED  BY <1>3, <1>4, <1>6

(* Once an instruction is cracked, its outputs are all written.             *)
LEMMA AllWritten ==
  ASSUME NEW i \in Instrs, ReadAsserts(i), Loaded(i), CrackingOf(i),
         mProcessedPieces = mTotalPieces, i.type # "store", ~NarrowBeforeOther
  PROVE  Written = ToSet(mInstr.outRegs)
<1>. DEFINE outs == Outputs(i)
            n == Len(outs)
            vals == Values(outs)
            total == TotalPieces(i)
            c == Cardinality(i.wide)
            m == n - AsNat(HasBaseUpd(i))
<1>1. /\ mInstr.outRegs = outs /\ mInstr.wide = i.wide /\ mBaseUpdReg = BaseUpdReg(i)
      /\ mTotalPieces = total
  BY DEF Loaded, Reordered
<1>2. /\ outs \in Seq(Registers) /\ IsInjective(outs)
      /\ n = Len(i.outRegs) /\ ToSet(outs) = ToSet(i.outRegs)
      /\ HasBaseUpd(i) => outs[n] = BaseUpdReg(i) /\ n > 1
  <2>1. /\ outs \in Seq(Registers) /\ IsInjective(outs)
        /\ n = Len(i.outRegs) /\ ToSet(outs) = ToSet(i.outRegs)
        /\ HasBaseUpd(i) => outs[n] = BaseUpdReg(i)
    BY OutputsOrder
  <2>2. HasBaseUpd(i) => i.type = "load" /\ Len(i.outRegs) > 1
    BY BaseIsOutput DEF IsMem
  <2>. QED  BY <2>1, <2>2
<1>3. /\ total \in Nat \ {0} /\ Len(pieces) = total /\ DOMAIN pieces = 1 .. total
      /\ \A k \in 1 .. total : CrackedAs(pieces[k], i, k)
  BY <1>1, PieceNumbers DEF CrackingOf
<1>4. n \in Nat /\ DOMAIN outs = 1 .. n /\ \A j \in 1 .. n : outs[j] \in Registers
  BY <1>2
<1>5. CASE outs = <<>>
  <2>1. ~HasBaseUpd(i) /\ ~TakesOutputs(i)
    BY <1>2, <1>5 DEF TakesOutputs
  <2>2. \A k \in 1 .. total : pieces[k].D = None
    BY <1>3, <2>1 DEF CrackedAs, UpdatesBase
  <2>3. Written = {}
    BY <1>3, <2>2 DEF Written
  <2>4. ToSet(mInstr.outRegs) = {}
    BY <1>1, <1>5 DEF ToSet
  <2>. QED  BY <2>3, <2>4
<1>6. CASE outs # <<>>
  <2>1. TakesOutputs(i) /\ n >= 1
    BY <1>4, <1>2, <1>6 DEF TakesOutputs
  <2>2. total <= Len(vals) /\ Len(vals) \in Nat
    <3>1. Layout(outs)  BY <1>2, ValuesLaidOut
    <3>2. vals \in Seq(Lane)  BY <3>1 DEF Layout
    <3>. QED  BY <2>1, <3>2, ValuesSuffice
  <2>3. total = n + c /\ c \in Nat
    <3>1. i.wide \subseteq {r \in ToSet(outs) : ~reg_is_int(r)}
      BY <1>2, InstrAssumption DEF IsInstr
    <3>2. c \in Nat
      BY <1>2, <3>1, PiecesFit
    <3>3. total = Larger(1, Len(i.outRegs)) + Cardinality(i.wide)
      BY PieceNumbers
    <3>. QED  BY <1>2, <1>4, <2>1, <3>2, <3>3 DEF Larger
  <2>4. m \in 1 .. n /\ (HasBaseUpd(i) => m = n - 1) /\ (~HasBaseUpd(i) => m = n)
    <3>. HIDE DEF n
    <3>1. CASE HasBaseUpd(i)
      <4>1. m = n - 1 /\ n > 1  BY <1>2, <3>1 DEF AsNat
      <4>. HIDE DEF m
      <4>. QED  BY <1>4, <3>1, <4>1
    <3>2. CASE ~HasBaseUpd(i)
      <4>1. m = n - 0  BY <3>2 DEF AsNat
      <4>. HIDE DEF m
      <4>. QED  BY <1>4, <2>1, <3>2, <4>1
    <3>. QED  BY <3>1, <3>2
  <2>5. Split(outs, i.wide, m - 1)
    <3>1. outs[m] # mBaseUpdReg
      <4>1. CASE HasBaseUpd(i)
        <5>1. m # n /\ m \in DOMAIN outs /\ n \in DOMAIN outs
          <6>. HIDE DEF m, n, outs
          <6>. QED  BY <1>4, <2>1, <2>4, <4>1
        <5>. QED  BY <1>1, <1>2, <4>1, <5>1 DEF IsInjective
      <4>2. CASE ~HasBaseUpd(i)
        <5>1. mBaseUpdReg = None
          BY <1>1, <4>2 DEF HasBaseUpd
        <5>. QED  BY <1>4, <2>4, <5>1, NoneAssumption
      <4>. QED  BY <4>1, <4>2
    <3>2. ASSUME NEW x \in 1 .. m - 1 PROVE reg_is_int(outs[x]) \/ outs[x] \in i.wide
      <4>1. x < m /\ x \in DOMAIN outs /\ m \in DOMAIN outs
        BY <1>4, <2>4
      <4>. HIDE DEF outs, m
      <4>. QED  BY <1>1, <3>1, <4>1 DEF NarrowBeforeOther
    <3>. QED  BY <3>2 DEF Split
  <2>6. Offset(outs, m - 1) + 1 <= m + c
    <3>1. i.wide \subseteq {r \in ToSet(outs) : ~reg_is_int(r)}
      BY <1>2, InstrAssumption DEF IsInstr
    <3>. QED  BY <1>2, <2>4, <2>5, <3>1, PiecesFit
  <2>7. ASSUME NEW k \in 1 .. total PROVE pieces[k].D \in ToSet(outs)
    <3>1. CASE UpdatesBase(i, k)
      <4>1. pieces[k].D = BaseUpdReg(i)
        BY <1>3, <3>1 DEF CrackedAs
      <4>. QED  BY <1>2, <3>1, <4>1, BaseIsOutput DEF UpdatesBase
    <3>2. CASE ~UpdatesBase(i, k)
      <4>1. k \in 1 .. Len(vals) /\ pieces[k].D = vals[k][1]
        BY <1>3, <2>1, <2>2, <3>2 DEF CrackedAs
      <4>2. \E j \in 1 .. n : vals[k][1] = outs[j]
        BY <1>2, <4>1, ValueOfOutput
      <4>. QED  BY <1>4, <4>1, <4>2 DEF ToSet
    <3>. QED  BY <3>1, <3>2
  <2>8. ASSUME NEW j \in 1 .. n PROVE \E k \in 1 .. total : pieces[k].D = outs[j]
    <3>1. CASE HasBaseUpd(i) /\ j = n
      <4>1. UpdatesBase(i, total)
        BY <3>1 DEF UpdatesBase
      <4>2. total \in 1 .. total
        BY <1>3
      <4>3. pieces[total].D = BaseUpdReg(i)
        BY <1>3, <4>1, <4>2 DEF CrackedAs
      <4>. QED  BY <1>2, <3>1, <4>2, <4>3
    <3>2. CASE ~(HasBaseUpd(i) /\ j = n)
      <4>. DEFINE k == Offset(outs, j - 1) + 1
      <4>1. j \in 1 .. m
        <5>. HIDE DEF m, n
        <5>. QED  BY <1>4, <2>4, <3>2
      <4>2. /\ Offset(outs, j - 1) \in Nat
            /\ Offset(outs, j - 1) <= Offset(outs, m - 1) /\ Offset(outs, m - 1) \in Nat
            /\ vals[k] = <<outs[j], 0>>
        BY <1>2, <2>4, <4>1, FirstLaneAt
      <4>3. k \in 1 .. total /\ ~UpdatesBase(i, k)
        BY <1>3, <1>4, <2>3, <2>4, <2>6, <4>2 DEF UpdatesBase
      <4>4. pieces[k].D = vals[k][1]
        BY <1>3, <2>1, <4>3 DEF CrackedAs
      <4>5. vals[k][1] = outs[j]
        BY <4>2
      <4>. QED  BY <4>3, <4>4, <4>5
    <3>. QED  BY <3>1, <3>2
  <2>. HIDE DEF total, n, outs, m, c, vals
  <2>9. None \notin ToSet(outs)
    BY <1>4, NoneAssumption DEF ToSet
  <2>10. {pieces[k].D : k \in DOMAIN pieces} = ToSet(outs)
    <3>1. ASSUME NEW d, d \in ToSet(outs)
          PROVE  d \in {pieces[k].D : k \in DOMAIN pieces}
      <4>1. PICK j \in 1 .. n : d = outs[j]  BY <1>4, <3>1 DEF ToSet
      <4>. QED  BY <1>3, <2>8, <4>1
    <3>. QED  BY <1>3, <2>7, <3>1
  <2>. QED  BY <1>1, <2>9, <2>10 DEF Written
<1>. QED  BY <1>5, <1>6

(* The invariant implies that all outputs are written.                      *)
LEMMA ReaderOutputs == ReaderInv => OutputsWrittenUnlessNarrow
<1>1. ASSUME NotYetRead PROVE OutputsWrittenUnlessNarrow
  <2>1. ~Cracked
    BY <1>1 DEF NotYetRead, Cracked, NoInstr
  <2>. QED  BY <2>1 DEF OutputsWrittenUnlessNarrow, OutputsWritten
<1>2. ASSUME NEW i \in Instrs, ReadAsserts(i), Loaded(i), CrackingOf(i)
      PROVE  OutputsWrittenUnlessNarrow
  <2>1. mInstr.type = i.type
    BY <1>2 DEF Loaded, Reordered
  <2>. QED  BY <1>2, <2>1, AllWritten DEF OutputsWrittenUnlessNarrow, OutputsWritten, Cracked
<1>. QED  BY <1>1, <1>2 DEF ReaderInv

(* An instruction writes all its outputs, unless one of them follows a SIMD *)
(* register whose upper half is zero (the base register does not count).    *)
THEOREM ReaderWritesOutputs == MainSpec => []OutputsWrittenUnlessNarrow
BY ReaderOutputs, ReaderInvariance, MainImplementsReader, PTL

-----------------------------------------------------------------------------
(* Stores.                                                                  *)

LEMMA EqualParts ==
  ASSUME NEW size \in Nat \ {0}, NEW n \in Nat \ {0}, size % n = 0
  PROVE  size \div n >= 1 /\ n * (size \div n) = size /\ size \div n \in Nat
<1>. DEFINE q == size \div n
<1>1. q \in Nat /\ size = n * q + (size % n)
  OBVIOUS
<1>. HIDE DEF q
<1>2. n * q = size
  BY <1>1
<1>3. q # 0
  <2>1. q = 0 => n * q = 0  OBVIOUS
  <2>. QED  BY <1>2, <2>1
<1>. QED  BY <1>1, <1>2, <1>3 DEF q

(* The pieces of a store that has been cracked.                             *)
LEMMA StoresCover ==
  ASSUME NEW i \in Instrs, WellFormed(i), Loaded(i), CrackingOf(i),
         mProcessedPieces = mTotalPieces, i.type = "store"
  PROVE  StoresEachValue
<1>. DEFINE off == AsNat(i.hasRegOffset)
            n == MemPieces(i)
            size == SizeFactor(i)
            regs == SubSeq(i.inRegs, 2 + off, Len(i.inRegs))
<1>1. ReadAsserts(i) /\ Len(i.inRegs) >= 1 + off /\ i.memSize > 0
  BY DEF WellFormed
<1>2. /\ i.inRegs \in Seq(Registers) /\ i.memSize \in Nat /\ i.hasRegOffset \in BOOLEAN
  BY InstrAssumption DEF IsInstr
<1>3. /\ mInstr.type = "store" /\ mInstr.inRegs = i.inRegs /\ mInstr.memSize = i.memSize
      /\ mInstr.hasRegOffset = i.hasRegOffset /\ mTotalPieces = TotalPieces(i)
  BY DEF Loaded, Reordered
<1>4. /\ n \in Nat \ {0} /\ TotalPieces(i) = n + AsNat(HasBaseUpd(i))
      /\ IsMem(i)
  BY <1>1, PieceNumbers DEF IsMem
<1>5. /\ Len(pieces) = TotalPieces(i) /\ DOMAIN pieces = 1 .. TotalPieces(i)
      /\ \A k \in 1 .. TotalPieces(i) : CrackedAs(pieces[k], i, k)
  BY <1>3, <1>4 DEF CrackingOf, AsNat
<1>6. size >= 1 /\ n * size = i.memSize /\ size \in Nat
  <2>1. i.memSize % n = 0
    BY <1>1 DEF ReadAsserts
  <2>2. size = i.memSize \div n
    BY <1>4 DEF SizeFactor
  <2>3. i.memSize \in Nat \ {0} /\ n \in Nat \ {0}
    BY <1>1, <1>2, <1>4
  <2>4. i.memSize \div n >= 1 /\ n * (i.memSize \div n) = i.memSize /\ i.memSize \div n \in Nat
    <3>. HIDE DEF n
    <3>. QED  BY <2>1, <2>3, EqualParts
  <2>. QED  BY <2>2, <2>4
<1>7. off \in {0, 1}
  BY DEF AsNat
<1>8. ASSUME NEW k \in 1 .. TotalPieces(i)
      PROVE  /\ pieces[k].class = "store" <=> k <= n
             /\ k <= n => /\ pieces[k].addr = (k - 1) * size /\ pieces[k].size = size
                          /\ pieces[k].sources[IF i.hasRegOffset THEN 3 ELSE 2] = InRegOf(i, off + k)
  <2>1. UpdatesBase(i, k) <=> ~(k <= n)
    BY <1>4 DEF UpdatesBase, AsNat
  <2>2. CASE UpdatesBase(i, k)
    BY <1>5, <2>1, <2>2 DEF CrackedAs
  <2>3. CASE ~UpdatesBase(i, k)
    <3>1. Larger(1, size) = size
      BY <1>6 DEF Larger
    <3>. QED  BY <1>5, <2>1, <2>3, <3>1 DEF CrackedAs
  <2>. QED  BY <2>2, <2>3
<1>9. /\ Len(regs) = Len(i.inRegs) - (1 + off)
      /\ \A k \in 1 .. Len(regs) : regs[k] = i.inRegs[1 + off + k]
  BY <1>1, <1>2, <1>7
<1>10. regs # <<>> =>
         /\ Len(regs) = n
         /\ \A k \in 1 .. n : ValueReg(pieces[k]) = regs[k]
  <2>1. SUFFICES ASSUME regs # <<>>
                 PROVE  Len(regs) = n /\ \A k \in 1 .. n : ValueReg(pieces[k]) = regs[k]
    OBVIOUS
  <2>2. Len(regs) >= 1
    <3>1. regs \in Seq(Registers)
      BY <1>2, <1>7
    <3>. HIDE DEF regs
    <3>. QED  BY <2>1, <3>1
  <2>3. n = Len(regs)
    <3>1. n = Larger(1, StoreValueRegs(i))
      BY DEF MemPieces
    <3>2. StoreValueRegs(i) = Len(i.inRegs) - (1 + off)
      BY DEF StoreValueRegs
    <3>. HIDE DEF regs, n
    <3>. QED  BY <1>2, <1>9, <2>2, <3>1, <3>2 DEF Larger
  <2>4. ASSUME NEW k \in 1 .. n PROVE ValueReg(pieces[k]) = regs[k]
    <3>1. k \in 1 .. TotalPieces(i) /\ k <= n
      BY <1>4 DEF AsNat
    <3>2. ValueReg(pieces[k]) = InRegOf(i, off + k)
      BY <1>3, <1>8, <3>1 DEF ValueReg
    <3>3. off + k < Len(i.inRegs) /\ off + k + 1 = 1 + off + k /\ k \in 1 .. Len(regs)
      <4>. HIDE DEF regs, n
      <4>. QED  BY <1>2, <1>7, <1>9, <2>3, <3>1, <1>4
    <3>4. InRegOf(i, off + k) = i.inRegs[off + k + 1]
      BY <3>3 DEF InRegOf
    <3>5. regs[k] = i.inRegs[1 + off + k]
      <4>. HIDE DEF regs
      <4>. QED  BY <1>9, <3>3
    <3>. HIDE DEF regs, off
    <3>. QED  BY <3>2, <3>3, <3>4, <3>5
  <2>. QED  BY <2>3, <2>4
<1>11. pieces[1].addr = 0
  <2>1. 1 \in 1 .. TotalPieces(i) /\ 1 <= n
    BY <1>4 DEF AsNat
  <2>2. pieces[1].addr = (1 - 1) * size
    BY <1>8, <2>1
  <2>. HIDE DEF size
  <2>. QED  BY <1>6, <2>2
<1>12. ASSUME NEW k \in 1 .. n
       PROVE  pieces[k].addr + pieces[k].size =
                IF k = n THEN i.memSize ELSE pieces[k + 1].addr
  <2>1. k \in 1 .. TotalPieces(i) /\ k <= n
    BY <1>4 DEF AsNat
  <2>2. pieces[k].addr = (k - 1) * size /\ pieces[k].size = size
    BY <1>8, <2>1
  <2>3. (k - 1) * size + size = k * size
    <3>. HIDE DEF size, n
    <3>. QED  BY <1>4, <1>6
  <2>4. CASE k = n
    <3>. HIDE DEF size, n
    <3>. QED  BY <1>6, <2>2, <2>3, <2>4
  <2>5. CASE k # n
    <3>1. k + 1 \in 1 .. TotalPieces(i) /\ k + 1 <= n /\ (k + 1) - 1 = k
      BY <1>4, <2>5 DEF AsNat
    <3>2. pieces[k + 1].addr = ((k + 1) - 1) * size
      BY <1>8, <3>1
    <3>3. pieces[k + 1].addr = k * size
      BY <3>1, <3>2
    <3>. HIDE DEF size, n
    <3>. QED  BY <2>2, <2>3, <2>5, <3>3
  <2>. QED  BY <2>4, <2>5
<1>13. n \in 1 .. Len(pieces)
  BY <1>4, <1>5 DEF AsNat
<1>14. ValueRegs = regs
  BY <1>3 DEF ValueRegs
<1>. HIDE DEF n, regs
<1>15. \A k \in DOMAIN pieces : pieces[k].class = "store" <=> k <= n
  BY <1>5, <1>8
<1>. QED  BY <1>3, <1>10, <1>11, <1>12, <1>13, <1>14, <1>15 DEF StoresEachValue

(* What a trace may hold; the checked instances assume it of theirs.        *)
TraceFormat == \A i \in Instrs : WellFormed(i)

(* The invariant implies what StoresEachValue says of each store.           *)
LEMMA ReaderStores == TraceFormat /\ ReaderInv => StoresEachValue
<1>1. ASSUME NotYetRead PROVE StoresEachValue
  <2>1. ~Cracked
    BY <1>1 DEF NotYetRead, Cracked, NoInstr
  <2>. QED  BY <2>1 DEF StoresEachValue
<1>2. ASSUME NEW i \in Instrs, WellFormed(i), Loaded(i), CrackingOf(i)
      PROVE  StoresEachValue
  <2>1. mInstr.type = i.type
    BY <1>2 DEF Loaded, Reordered
  <2>2. CASE i.type = "store" /\ mProcessedPieces = mTotalPieces
    BY <1>2, <2>2, StoresCover
  <2>3. CASE ~(i.type = "store" /\ mProcessedPieces = mTotalPieces)
    BY <2>1, <2>3 DEF StoresEachValue, Cracked
  <2>. QED  BY <2>2, <2>3
<1>. QED  BY <1>1, <1>2 DEF ReaderInv, TraceFormat

(* The pieces of a store of the trace's format take its value registers in  *)
(* their order and cover the access once.                                   *)
THEOREM ReaderStoresEachValue == TraceFormat => (MainSpec => []StoresEachValue)
<1>. SUFFICES ASSUME TraceFormat PROVE MainSpec => []StoresEachValue
  OBVIOUS
<1>1. ReaderInv => StoresEachValue
  BY ReaderStores
<1>. QED  BY <1>1, ReaderInvariance, MainImplementsReader, PTL

-----------------------------------------------------------------------------
(* The assertions.                                                          *)

LEMMA PieceAssertsHold ==
  ASSUME NEW i \in Instrs, WellFormed(i), Loaded(i), CrackingOf(i),
         mProcessedPieces < mTotalPieces
  PROVE  PieceAsserts
<1>1. ReadAsserts(i) /\ (i.type = "store" => Len(i.inRegs) >= 1 + AsNat(i.hasRegOffset))
  BY DEF WellFormed
<1>2. /\ mInstr.type = i.type /\ mInstr.outRegs = Outputs(i)
      /\ mInstr.values = Values(Outputs(i))
      /\ mInstr.inRegs = i.inRegs /\ mInstr.hasRegOffset = i.hasRegOffset
      /\ mMemPieces = MemPieces(i) /\ mTotalPieces = TotalPieces(i)
      /\ mBaseUpdReg = BaseUpdReg(i)
  BY DEF Loaded, Reordered
<1>3. mMemPieces <= mTotalPieces /\ (mMemPieces >= 1 <=> IsMem(mInstr))
  <2>1. IsMem(mInstr) <=> IsMem(i)
    BY <1>2 DEF IsMem
  <2>2. /\ MemPieces(i) \in Nat /\ TotalPieces(i) \in Nat \ {0}
        /\ IsMem(i) => TotalPieces(i) = MemPieces(i) + AsNat(HasBaseUpd(i))
        /\ MemPieces(i) >= 1 <=> IsMem(i)
    BY <1>1, PieceNumbers
  <2>. QED  BY <1>2, <2>1, <2>2 DEF AsNat
<1>4. CreateBaseUpdateOp =>
        /\ mBaseUpdReg # None /\ reg_is_int(mBaseUpdReg)
        /\ mBaseUpdReg = Last(mInstr.outRegs)
  <2>1. SUFFICES ASSUME CreateBaseUpdateOp
                 PROVE  /\ BaseUpdReg(i) # None /\ reg_is_int(BaseUpdReg(i))
                        /\ BaseUpdReg(i) = Last(Outputs(i))
    BY <1>2
  <2>2. HasBaseUpd(i)
    BY <1>1, <2>1, BaseUpdateLast DEF UpdatesBase
  <2>. QED  BY <1>1, <2>2, BaseIsOutput, OutputsOrder DEF HasBaseUpd, Last
<1>5. TakesOutput => mCrackRegIdx < Len(Outputs(i)) /\ mCrackValIdx < Len(Values(Outputs(i)))
  <2>1. SUFFICES ASSUME TakesOutput
                 PROVE  mCrackRegIdx < Len(Outputs(i)) /\ mCrackValIdx < Len(Values(Outputs(i)))
    OBVIOUS
  <2>2. /\ mCrackRegIdx \in 0 .. Len(Outputs(i)) - 1
        /\ mProcessedPieces < Len(Values(Outputs(i)))
    BY <1>1, <2>1, NextOutput
  <2>3. mCrackValIdx = mProcessedPieces
    BY DEF CrackingOf
  <2>4. Len(Outputs(i)) \in Nat
    <3>1. Outputs(i) \in Seq(Registers)  BY <1>1, OutputsOrder
    <3>. QED  BY <3>1
  <2>. QED  BY <2>2, <2>3, <2>4
<1>6. ~CreateBaseUpdateOp /\ mInstr.type = "store" =>
        Len(mInstr.inRegs) >= 1 + AsNat(mInstr.hasRegOffset)
  BY <1>1, <1>2
<1>. QED  BY <1>2, <1>3, <1>4, <1>5, <1>6 DEF PieceAsserts

(* No assertion of the reader fails.                                        *)
LEMMA ReaderNeverAborts == TraceFormat => (Spec => []~aborted)
<1>. SUFFICES ASSUME TraceFormat PROVE Spec => []~aborted
  OBVIOUS
<1>1. Init => ~aborted
  BY DEF Init
<1>2. ASSUME ReaderInv, ~aborted, [Next]_vars PROVE ~aborted'
  <2>1. CASE UNCHANGED vars
    BY <1>2, <2>1 DEF vars
  <2>2. CASE ReadInstr
    BY <1>2, <2>2 DEF ReadInstr, TraceFormat, WellFormed
  <2>3. CASE PopulateNewInstr
    <3>1. PICK i \in Instrs : ReadAsserts(i) /\ Loaded(i) /\ CrackingOf(i)
      BY <1>2, <2>3 DEF ReaderInv, NotYetRead, PopulateNewInstr
    <3>2. PieceAsserts
      BY <2>3, <3>1, PieceAssertsHold DEF TraceFormat, PopulateNewInstr
    <3>. QED  BY <1>2, <2>3, <3>2 DEF PopulateNewInstr
  <2>. QED  BY <1>2, <2>1, <2>2, <2>3 DEF Next
<1>. QED  BY <1>1, <1>2, ReaderInvariance, PTL DEF Spec

-----------------------------------------------------------------------------
(* The epochs.                                                              *)

Epoch == [insts : Nat, cycles : Int, conddir_n : Nat, conddir_m : Nat, wrong_path : Int]

EpochTypeOK ==
  /\ fetch_cycle \in Nat /\ num_fetched \in 0 .. FETCH_WIDTH - 1
  /\ cycle \in Nat /\ num_inst \in Nat /\ cycles_on_wrong_path \in Int
  /\ epochs \in Seq(Epoch) /\ Len(epochs) >= 1
  /\ last_epoch_end_cycle \in Nat
  /\ finished \in BOOLEAN /\ epoch_aborted \in BOOLEAN

(* Instructions fetched in the cycle in which the last epoch ended are all  *)
(* in the current fetch bundle, and something completes after it.           *)
EpochTiming ==
  ~finished =>
    /\ last_epoch_end_cycle <= fetch_cycle
    /\ fetch_cycle = last_epoch_end_cycle => epochs[Len(epochs)].insts <= num_fetched
    /\ num_inst > 0 => last_epoch_end_cycle < cycle

EpochInv == EpochTypeOK /\ ~epoch_aborted /\ EpochTiming /\ EpochsFull

-----------------------------------------------------------------------------
(* The fetch cycle after a uop.  It stays the same only if the uop is       *)
(* counted in a bundle that has room for another.                           *)
LEMMA NextFetchBounds ==
  ASSUME EpochAssumption, NEW p \in Nat, NEW last \in BOOLEAN, NEW bundle \in Bundles,
         NEW wait \in Latencies, num_fetched \in 0 .. FETCH_WIDTH - 1
  PROVE  /\ NextFetch(p, last, bundle, wait) \in Nat
         /\ NextFetched(last, bundle) \in 0 .. FETCH_WIDTH - 1
         /\ NextFetch(p, last, bundle, wait) >= p
         /\ NextFetch(p, last, bundle, wait) = p =>
              NextFetched(last, bundle) = num_fetched + Counts(last)
<1>1. wait \in Nat \ {0} /\ FETCH_WIDTH \in Nat \ {0}
  BY DEF EpochAssumption
<1>2. Counts(last) \in {0, 1}
  BY DEF Counts, Tally
<1>3. bundle = "window_full" \/ bundle # "window_full"
  OBVIOUS
<1>4. CASE bundle = "window_full"
  BY <1>1, <1>4 DEF NextFetch, NextFetched
<1>5. CASE bundle # "window_full" /\ BundleEnds(last, bundle)
  <2>1. NextFetch(p, last, bundle, wait) = p + 1
    BY <1>5 DEF NextFetch
  <2>2. NextFetched(last, bundle) = 0
    BY <1>5 DEF NextFetched
  <2>3. QED
    BY <2>1, <2>2, <1>1
<1>6. CASE bundle # "window_full" /\ ~BundleEnds(last, bundle)
  <2>1. NextFetch(p, last, bundle, wait) = p
    BY <1>6 DEF NextFetch
  <2>2. NextFetched(last, bundle) = num_fetched + Counts(last)
    BY <1>6 DEF NextFetched
  <2>3. num_fetched + Counts(last) # FETCH_WIDTH
    BY <1>6 DEF BundleEnds
  <2>4. QED
    BY <2>1, <2>2, <2>3, <1>1, <1>2
<1>7. QED
  BY <1>3, <1>4, <1>5, <1>6

(* The measurements of one uop.                                             *)
LEMMA MeasuredType ==
  ASSUME NEW e \in Epoch, NEW last \in BOOLEAN, NEW cond \in BOOLEAN,
         NEW misp \in BOOLEAN, NEW wrong \in Int
  PROVE  /\ Measured(e, last, cond, misp, wrong) \in Epoch
         /\ Measured(e, last, cond, misp, wrong).insts = e.insts + Counts(last)
         /\ Measured(e, last, cond, misp, wrong).cycles = e.cycles
         /\ Measured(e, last, cond, misp, wrong).conddir_n = e.conddir_n + Tally(cond)
         /\ Measured(e, last, cond, misp, wrong).conddir_m
              = e.conddir_m + Tally(cond /\ misp)
         /\ Measured(e, last, cond, misp, wrong).wrong_path = e.wrong_path + wrong
<1>1. /\ Counts(last) \in Nat /\ Tally(cond) \in Nat /\ Tally(cond /\ misp) \in Nat
  BY DEF Counts, Tally
<1>2. /\ e.insts \in Nat /\ e.cycles \in Int /\ e.conddir_n \in Nat
      /\ e.conddir_m \in Nat /\ e.wrong_path \in Int
      /\ e = [insts |-> e.insts, cycles |-> e.cycles, conddir_n |-> e.conddir_n,
              conddir_m |-> e.conddir_m, wrong_path |-> e.wrong_path]
  BY DEF Epoch
<1> DEFINE misses == Tally(cond /\ misp)
<1>3. Measured(e, last, cond, misp, wrong)
        = [insts |-> e.insts + Counts(last), cycles |-> e.cycles,
           conddir_n |-> e.conddir_n + Tally(cond), conddir_m |-> e.conddir_m + misses,
           wrong_path |-> e.wrong_path + wrong]
  <2> HIDE DEF misses
  <2>1. Measured(e, last, cond, misp, wrong)
          = [e EXCEPT !.insts = @ + Counts(last), !.conddir_n = @ + Tally(cond),
                      !.conddir_m = @ + misses, !.wrong_path = @ + wrong]
    BY DEF Measured, misses
  <2>2. QED
    BY <2>1, <1>2
<1>4. misses \in Nat
  BY <1>1
<1> HIDE DEF misses
<1>5. QED
  <2>1. Measured(e, last, cond, misp, wrong) \in Epoch
    BY <1>1, <1>2, <1>3, <1>4 DEF Epoch
  <2>2. QED
    BY <1>3, <2>1 DEF misses

-----------------------------------------------------------------------------
(* Sequences of epochs.                                                     *)

FullBut(es) ==
  \A k \in 1 .. Len(es) :
    /\ es[k].conddir_m <= es[k].conddir_n
    /\ es[k].conddir_n <= es[k].insts
    /\ k < Len(es) => es[k].insts = EPOCH_SIZE_INSTS /\ es[k].cycles > 0

(* Replacing the last epoch.                                                *)
LEMMA LastReplaced ==
  ASSUME NEW es \in Seq(Epoch), Len(es) >= 1, NEW e \in Epoch, FullBut(es),
         e.conddir_m <= e.conddir_n, e.conddir_n <= e.insts
  PROVE  LET new == [es EXCEPT ![Len(es)] = e]
         IN  /\ new \in Seq(Epoch) /\ Len(new) = Len(es) /\ new[Len(new)] = e
             /\ FullBut(new)
<1> DEFINE n == Len(es)
           new == [es EXCEPT ![n] = e]
<1>1. n \in Nat \ {0} /\ DOMAIN es = 1 .. n /\ n \in 1 .. n
  OBVIOUS
<1>2. new \in Seq(Epoch) /\ Len(new) = n
  BY <1>1
<1>3. new[n] = e /\ \A k \in 1 .. n : k # n => new[k] = es[k]
  BY <1>1
<1> HIDE DEF n, new
<1>4. ASSUME NEW k \in 1 .. n
      PROVE  /\ new[k].conddir_m <= new[k].conddir_n
             /\ new[k].conddir_n <= new[k].insts
             /\ k < n => new[k].insts = EPOCH_SIZE_INSTS /\ new[k].cycles > 0
  <2>1. CASE k = n
    BY <2>1, <1>1, <1>3
  <2>2. CASE k # n
    <3>1. /\ es[k].conddir_m <= es[k].conddir_n
          /\ es[k].conddir_n <= es[k].insts
          /\ k < n => es[k].insts = EPOCH_SIZE_INSTS /\ es[k].cycles > 0
      BY DEF FullBut, n
    <3>2. new[k] = es[k]
      BY <2>2, <1>3
    <3>3. QED
      BY <3>1, <3>2
  <2>3. QED
    BY <2>1, <2>2
<1>5. FullBut(new)
  BY <1>2, <1>4 DEF FullBut
<1>6. QED
  BY <1>2, <1>3, <1>5 DEF n, new

(* Ending the last epoch changes its cycles only.                           *)
LEMMA EndedLast ==
  ASSUME NEW es \in Seq(Epoch), Len(es) >= 1, NEW end \in Int,
         last_epoch_end_cycle \in Nat
  PROVE  \E e \in Epoch :
           /\ Ended(es, end) = [es EXCEPT ![Len(es)] = e]
           /\ e.insts = es[Len(es)].insts
           /\ e.cycles = end - last_epoch_end_cycle
           /\ e.conddir_n = es[Len(es)].conddir_n
           /\ e.conddir_m = es[Len(es)].conddir_m
           /\ e.wrong_path = es[Len(es)].wrong_path
<1> DEFINE n == Len(es)
           spent == end - last_epoch_end_cycle
           e == [es[n] EXCEPT !.cycles = spent]
<1>1. n \in Nat \ {0} /\ n \in 1 .. n /\ es[n] \in Epoch /\ spent \in Int
  OBVIOUS
<1>2. /\ es[n].insts \in Nat /\ es[n].conddir_n \in Nat
      /\ es[n].conddir_m \in Nat /\ es[n].wrong_path \in Int
      /\ es[n] = [insts |-> es[n].insts, cycles |-> es[n].cycles,
                  conddir_n |-> es[n].conddir_n, conddir_m |-> es[n].conddir_m,
                  wrong_path |-> es[n].wrong_path]
  BY <1>1 DEF Epoch
<1>3. Ended(es, end) = [es EXCEPT ![n] = e]
  BY <1>1 DEF Ended
<1> HIDE DEF n, spent
<1>4. e = [insts |-> es[n].insts, cycles |-> spent, conddir_n |-> es[n].conddir_n,
           conddir_m |-> es[n].conddir_m, wrong_path |-> es[n].wrong_path]
  BY <1>2
<1>5. /\ e \in Epoch /\ e.wrong_path = es[n].wrong_path
      /\ e.conddir_n = es[n].conddir_n /\ e.conddir_m = es[n].conddir_m
      /\ e.insts = es[n].insts /\ e.cycles = spent
  BY <1>1, <1>2, <1>4 DEF Epoch
<1> HIDE DEF e
<1>6. QED
  BY <1>3, <1>5 DEF n, spent

(* Ending the last epoch leaves the epochs full, if it was.                 *)
LEMMA EndedProperties ==
  ASSUME NEW es \in Seq(Epoch), Len(es) >= 1, FullBut(es), NEW end \in Int,
         last_epoch_end_cycle \in Nat
  PROVE  /\ Ended(es, end) \in Seq(Epoch) /\ Len(Ended(es, end)) = Len(es)
         /\ Ended(es, end)[Len(es)].insts = es[Len(es)].insts
         /\ Ended(es, end)[Len(es)].cycles = end - last_epoch_end_cycle
         /\ FullBut(Ended(es, end))
<1>1. PICK e \in Epoch :
        /\ Ended(es, end) = [es EXCEPT ![Len(es)] = e]
        /\ e.insts = es[Len(es)].insts
        /\ e.cycles = end - last_epoch_end_cycle
        /\ e.conddir_n = es[Len(es)].conddir_n
        /\ e.conddir_m = es[Len(es)].conddir_m
  BY EndedLast
<1>2. e.conddir_m <= e.conddir_n /\ e.conddir_n <= e.insts
  <2>1. Len(es) \in 1 .. Len(es)
    OBVIOUS
  <2>2. QED
    BY <1>1, <2>1 DEF FullBut
<1>3. LET new == [es EXCEPT ![Len(es)] = e]
      IN  /\ new \in Seq(Epoch) /\ Len(new) = Len(es) /\ new[Len(new)] = e
          /\ FullBut(new)
  BY <1>2, LastReplaced
<1>4. QED
  BY <1>1, <1>3

(* Beginning another epoch after a full one.                                *)
LEMMA Begun ==
  ASSUME NEW es \in Seq(Epoch), Len(es) >= 1, FullBut(es),
         es[Len(es)].insts = EPOCH_SIZE_INSTS, es[Len(es)].cycles > 0
  PROVE  LET new == Append(es, NewEpoch)
         IN  /\ new \in Seq(Epoch) /\ Len(new) = Len(es) + 1
             /\ new[Len(new)].insts = 0 /\ FullBut(new)
<1> DEFINE n == Len(es)
           new == Append(es, NewEpoch)
<1>1. NewEpoch \in Epoch /\ NewEpoch.insts = 0 /\ NewEpoch.conddir_n = 0
        /\ NewEpoch.conddir_m = 0
  BY DEF NewEpoch, Epoch
<1>2. n \in Nat \ {0}
  OBVIOUS
<1>3. /\ new \in Seq(Epoch) /\ Len(new) = n + 1
      /\ new[n + 1] = NewEpoch /\ \A k \in 1 .. n : new[k] = es[k]
  BY <1>1, <1>2
<1> HIDE DEF n, new
<1>4. ASSUME NEW k \in 1 .. n + 1
      PROVE  /\ new[k].conddir_m <= new[k].conddir_n
             /\ new[k].conddir_n <= new[k].insts
             /\ k < n + 1 => new[k].insts = EPOCH_SIZE_INSTS /\ new[k].cycles > 0
  <2>1. CASE k = n + 1
    BY <2>1, <1>1, <1>2, <1>3
  <2>2. CASE k # n + 1
    <3>1. k \in 1 .. n /\ new[k] = es[k]
      BY <2>2, <1>2, <1>3
    <3>2. /\ es[k].conddir_m <= es[k].conddir_n
          /\ es[k].conddir_n <= es[k].insts
          /\ k < n => es[k].insts = EPOCH_SIZE_INSTS /\ es[k].cycles > 0
      BY <3>1 DEF FullBut, n
    <3>3. k = n \/ k < n
      BY <3>1, <1>2
    <3>4. es[n].insts = EPOCH_SIZE_INSTS /\ es[n].cycles > 0
      BY DEF n
    <3>5. QED
      BY <3>1, <3>2, <3>3, <3>4
  <2>3. QED
    BY <2>1, <2>2
<1>5. FullBut(new)
  BY <1>3, <1>4 DEF FullBut
<1>6. QED
  BY <1>1, <1>3, <1>5 DEF n, new

-----------------------------------------------------------------------------
(* The invariant.                                                           *)

LEMMA EpochInitially == ASSUME EpochAssumption, EpochInit PROVE EpochInv
<1>1. NewEpoch \in Epoch /\ NewEpoch.insts = 0 /\ NewEpoch.conddir_n = 0
        /\ NewEpoch.conddir_m = 0
  BY DEF NewEpoch, Epoch
<1>2. FETCH_WIDTH \in Nat \ {0} /\ EPOCH_SIZE_INSTS \in Nat
        /\ EPOCH_SIZE_INSTS > FETCH_WIDTH
  BY DEF EpochAssumption
<1>3. epochs \in Seq(Epoch) /\ Len(epochs) = 1 /\ epochs[1] = NewEpoch
        /\ DOMAIN epochs = 1 .. 1
  BY <1>1 DEF EpochInit
<1>4. EpochTypeOK
  <2>1. finished \in BOOLEAN /\ epoch_aborted \in BOOLEAN
    BY DEF EpochInit
  <2>2. num_fetched \in 0 .. FETCH_WIDTH - 1
    BY <1>2 DEF EpochInit
  <2>3. /\ fetch_cycle \in Nat /\ cycle \in Nat /\ num_inst \in Nat
        /\ cycles_on_wrong_path \in Int /\ last_epoch_end_cycle \in Nat
    BY DEF EpochInit
  <2>4. Len(epochs) >= 1
    BY <1>3
  <2>5. QED
    BY <1>3, <2>1, <2>2, <2>3, <2>4 DEF EpochTypeOK
<1>5. EpochTiming
  BY <1>1, <1>3 DEF EpochInit, EpochTiming
<1>6. EpochsFull
  BY <1>1, <1>2, <1>3 DEF EpochsFull
<1>7. QED
  BY <1>4, <1>5, <1>6 DEF EpochInit, EpochInv

(* The step of a uop keeps the invariant.                                   *)
LEMMA EpochStepInv ==
  ASSUME EpochAssumption, EpochInv, NEW last \in BOOLEAN, NEW cond \in BOOLEAN,
         NEW misp \in BOOLEAN, NEW delay \in Delays, NEW latency \in Latencies,
         NEW wait \in Latencies, NEW bundle \in Bundles, cond => last,
         EpochStep(last, cond, misp, delay, latency, bundle, wait)
  PROVE  EpochInv'
<1> DEFINE p == fetch_cycle + delay
           next == NextFetch(p, last, bundle, wait)
           resolved == Later(next, p + latency)
           wrong == IF misp THEN resolved - p ELSE 0
           n == Len(epochs)
           e == Measured(epochs[n], last, cond, misp, wrong)
           measured == [epochs EXCEPT ![n] = e]
           full == measured[Len(measured)].insts = EPOCH_SIZE_INSTS
<1>a. /\ FETCH_WIDTH \in Nat \ {0} /\ EPOCH_SIZE_INSTS \in Nat
      /\ EPOCH_SIZE_INSTS > FETCH_WIDTH
      /\ delay \in Nat /\ latency \in Nat \ {0}
  BY DEF EpochAssumption
<1>b. /\ fetch_cycle \in Nat /\ num_fetched \in 0 .. FETCH_WIDTH - 1
      /\ cycle \in Nat /\ num_inst \in Nat /\ cycles_on_wrong_path \in Int
      /\ epochs \in Seq(Epoch) /\ n \in Nat \ {0} /\ DOMAIN epochs = 1 .. n
      /\ last_epoch_end_cycle \in Nat
  BY DEF EpochInv, EpochTypeOK
<1>c. /\ last_epoch_end_cycle <= fetch_cycle
      /\ fetch_cycle = last_epoch_end_cycle => epochs[n].insts <= num_fetched
      /\ finished = FALSE
  BY DEF EpochInv, EpochTypeOK, EpochTiming, EpochStep
<1>d. /\ cycle' = Later(cycle, p + latency)
      /\ num_inst' = num_inst + Tally(last)
      /\ cycles_on_wrong_path' = cycles_on_wrong_path + wrong
      /\ fetch_cycle' = (IF misp THEN resolved ELSE next)
      /\ num_fetched' = (IF misp THEN 0 ELSE NextFetched(last, bundle))
      /\ UNCHANGED finished
  BY DEF EpochStep
<1>e. /\ epochs' = IF full THEN Append(Ended(measured, p), NewEpoch) ELSE measured
      /\ last_epoch_end_cycle' = (IF full THEN p ELSE last_epoch_end_cycle)
      /\ epoch_aborted' = (full /\ ~(p > last_epoch_end_cycle))
  <2>1. Len(measured) = n
    BY <1>b
  <2>2. measured = [epochs EXCEPT ![Len(epochs)] = Measured(@, last, cond, misp, wrong)]
    BY <1>b
  <2>3. QED
    BY <2>1, <2>2 DEF EpochStep
<1>1. p \in Nat /\ next \in Nat /\ next >= p
        /\ NextFetched(last, bundle) \in 0 .. FETCH_WIDTH - 1
        /\ (next = p => NextFetched(last, bundle) = num_fetched + Counts(last))
  <2>1. p \in Nat
    BY <1>a, <1>b
  <2> HIDE DEF p
  <2>2. QED
    BY <2>1, <1>b, NextFetchBounds
<1>2. Tally(last) \in {0, 1} /\ Counts(last) = Tally(last) /\ Tally(cond) <= Tally(last)
        /\ Tally(cond) \in Nat /\ Tally(cond /\ misp) \in Nat
        /\ Tally(cond /\ misp) <= Tally(cond)
  BY DEF Tally, Counts
<1> HIDE DEF p, next
<1>3. resolved \in Nat /\ resolved > p /\ wrong \in Int
  BY <1>a, <1>1 DEF Later
<1>4. cycle' \in Nat /\ cycle' > p
  BY <1>a, <1>b, <1>d, <1>1 DEF Later
<1> HIDE DEF resolved, wrong, n
<1>5. epochs[n] \in Epoch
  BY <1>b
<1>6. /\ epochs[n].conddir_m <= epochs[n].conddir_n
      /\ epochs[n].conddir_n <= epochs[n].insts
      /\ epochs[n].insts < EPOCH_SIZE_INSTS /\ epochs[n].insts \in Nat
      /\ epochs[n].conddir_m \in Nat /\ epochs[n].conddir_n \in Nat
  <2>1. n \in 1 .. n /\ n = Len(epochs)
    BY <1>b DEF n
  <2>2. QED
    BY <2>1, <1>5, <1>b DEF EpochInv, EpochsFull, Epoch
<1>7. /\ e \in Epoch /\ e.insts = epochs[n].insts + Counts(last)
      /\ e.conddir_m <= e.conddir_n /\ e.conddir_n <= e.insts
  <2>1. /\ e \in Epoch /\ e.insts = epochs[n].insts + Counts(last)
        /\ e.conddir_n = epochs[n].conddir_n + Tally(cond)
        /\ e.conddir_m = epochs[n].conddir_m + Tally(cond /\ misp)
    BY <1>3, <1>5, MeasuredType
  <2>2. QED
    BY <2>1, <1>2, <1>6
<1> HIDE DEF e
<1>8. FullBut(epochs)
  BY <1>b DEF EpochInv, EpochsFull, FullBut, n
<1>9. /\ measured \in Seq(Epoch) /\ Len(measured) = n /\ measured[Len(measured)] = e
      /\ FullBut(measured)
  <2>1. Len(epochs) >= 1 /\ epochs \in Seq(Epoch)
    BY <1>b DEF n
  <2>2. /\ [epochs EXCEPT ![Len(epochs)] = e] \in Seq(Epoch)
        /\ Len([epochs EXCEPT ![Len(epochs)] = e]) = Len(epochs)
        /\ [epochs EXCEPT ![Len(epochs)] = e][Len([epochs EXCEPT ![Len(epochs)] = e])] = e
        /\ FullBut([epochs EXCEPT ![Len(epochs)] = e])
    BY <2>1, <1>7, <1>8, LastReplaced
  <2>3. QED
    BY <2>2 DEF n
<1> HIDE DEF measured
<1>10. /\ fetch_cycle' \in Nat /\ num_fetched' \in 0 .. FETCH_WIDTH - 1
       /\ num_inst' \in Nat /\ cycles_on_wrong_path' \in Int
       /\ finished' = FALSE /\ fetch_cycle' >= p
       /\ fetch_cycle' = p => num_fetched' = num_fetched + Counts(last)
  BY <1>a, <1>b, <1>c, <1>d, <1>1, <1>2, <1>3
<1>11. last_epoch_end_cycle <= p /\ (p = last_epoch_end_cycle => fetch_cycle = p)
  BY <1>a, <1>b, <1>c DEF p
<1>12. CASE full
  <2>1. p > last_epoch_end_cycle
    <3>1. SUFFICES ASSUME p = last_epoch_end_cycle PROVE FALSE
      BY <1>1, <1>b, <1>11
    <3>2. epochs[n].insts <= num_fetched
      BY <3>1, <1>11, <1>c
    <3>3. e.insts = EPOCH_SIZE_INSTS
      BY <1>12, <1>9
    <3>4. QED
      BY <3>2, <3>3, <1>2, <1>7, <1>6, <1>a, <1>b
  <2> DEFINE ended == Ended(measured, p)
  <2>2. /\ ended \in Seq(Epoch) /\ Len(ended) = n
        /\ ended[Len(ended)].insts = EPOCH_SIZE_INSTS
        /\ ended[Len(ended)].cycles = p - last_epoch_end_cycle /\ FullBut(ended)
    <3>1. Len(measured) >= 1 /\ p \in Int
      BY <1>9, <1>b, <1>1
    <3>2. /\ ended \in Seq(Epoch) /\ Len(ended) = Len(measured)
          /\ ended[Len(measured)].insts = measured[Len(measured)].insts
          /\ ended[Len(measured)].cycles = p - last_epoch_end_cycle /\ FullBut(ended)
      BY <3>1, <1>9, <1>b, EndedProperties
    <3>3. QED
      BY <3>2, <1>9, <1>12
  <2>3. epochs' = Append(ended, NewEpoch) /\ last_epoch_end_cycle' = p
          /\ epoch_aborted' = FALSE
    BY <1>12, <2>1, <1>e
  <2> HIDE DEF ended
  <2>4. /\ epochs' \in Seq(Epoch) /\ Len(epochs') = n + 1
        /\ epochs'[Len(epochs')].insts = 0 /\ FullBut(epochs')
    <3>1. Len(ended) >= 1 /\ ended[Len(ended)].cycles > 0
      BY <2>1, <2>2, <1>b, <1>1
    <3>2. /\ Append(ended, NewEpoch) \in Seq(Epoch)
          /\ Len(Append(ended, NewEpoch)) = Len(ended) + 1
          /\ Append(ended, NewEpoch)[Len(Append(ended, NewEpoch))].insts = 0
          /\ FullBut(Append(ended, NewEpoch))
      BY <3>1, <2>2, Begun
    <3>3. QED
      BY <3>2, <2>2, <2>3
  <2>5. EpochTypeOK'
    <3>1. finished' \in BOOLEAN /\ epoch_aborted' \in BOOLEAN
      BY <2>3, <1>10
    <3>2. Len(epochs') >= 1 /\ last_epoch_end_cycle' \in Nat
      BY <2>3, <2>4, <1>1, <1>b
    <3>3. QED
      BY <3>1, <3>2, <2>4, <1>10, <1>4 DEF EpochTypeOK
  <2>6. EpochTiming'
    BY <2>3, <2>4, <1>10, <1>4, <1>1 DEF EpochTiming
  <2>7. EpochsFull'
    <3>1. DOMAIN epochs' = 1 .. Len(epochs')
      BY <2>4
    <3>2. QED
      BY <3>1, <2>4, <1>a DEF EpochsFull, FullBut
  <2>8. QED
    BY <2>3, <2>5, <2>6, <2>7 DEF EpochInv
<1>13. CASE ~full
  <2>1. epochs' = measured /\ last_epoch_end_cycle' = last_epoch_end_cycle
          /\ epoch_aborted' = FALSE
    BY <1>13, <1>e
  <2>2. EpochTypeOK'
    <3>1. finished' \in BOOLEAN /\ epoch_aborted' \in BOOLEAN
      BY <2>1, <1>10
    <3>2. /\ Len(epochs') >= 1 /\ epochs' \in Seq(Epoch)
          /\ last_epoch_end_cycle' \in Nat
      BY <2>1, <1>9, <1>b
    <3>3. QED
      BY <3>1, <3>2, <1>10, <1>4 DEF EpochTypeOK
  <2>3. EpochTiming'
    <3>1. SUFFICES ASSUME fetch_cycle' = last_epoch_end_cycle
                   PROVE  e.insts <= num_fetched'
      BY <2>1, <1>9, <1>10, <1>11, <1>4, <1>1, <1>b DEF EpochTiming
    <3>2. fetch_cycle' = p /\ fetch_cycle = last_epoch_end_cycle
      BY <3>1, <1>10, <1>11, <1>1, <1>b
    <3>3. QED
      BY <3>2, <1>c, <1>10, <1>7, <1>2, <1>6, <1>b
  <2>4. EpochsFull'
    <3>1. e.insts # EPOCH_SIZE_INSTS /\ e.insts <= EPOCH_SIZE_INSTS
      BY <1>13, <1>9, <1>7, <1>6, <1>2, <1>a
    <3>2. DOMAIN epochs' = 1 .. Len(epochs')
      BY <2>1, <1>9
    <3>3. epochs'[Len(epochs')].insts < EPOCH_SIZE_INSTS
      BY <3>1, <2>1, <1>9, <1>7, <1>6, <1>2, <1>a
    <3>4. FullBut(epochs')
      BY <2>1, <1>9
    <3>5. QED
      BY <3>2, <3>3, <3>4 DEF EpochsFull, FullBut
  <2>5. QED
    BY <2>1, <2>2, <2>3, <2>4 DEF EpochInv
<1>14. QED
  BY <1>12, <1>13

(* The end of the simulation keeps the invariant.                           *)
LEMMA EpochOutputInv ==
  ASSUME EpochAssumption, EpochInv, num_inst > 0, EpochOutput
  PROVE  EpochInv'
<1>1. /\ fetch_cycle \in Nat /\ num_fetched \in 0 .. FETCH_WIDTH - 1
      /\ cycle \in Nat /\ num_inst \in Nat /\ cycles_on_wrong_path \in Int
      /\ epochs \in Seq(Epoch) /\ Len(epochs) >= 1
      /\ last_epoch_end_cycle \in Nat
      /\ DOMAIN epochs = 1 .. Len(epochs)
  BY DEF EpochInv, EpochTypeOK
<1>2. last_epoch_end_cycle < cycle
  BY DEF EpochInv, EpochTiming, EpochOutput
<1>3. epochs[Len(epochs)].insts < EPOCH_SIZE_INSTS /\ FullBut(epochs)
  BY <1>1 DEF EpochInv, EpochsFull, FullBut
<1>4. /\ Ended(epochs, cycle) \in Seq(Epoch)
      /\ Len(Ended(epochs, cycle)) = Len(epochs)
      /\ Ended(epochs, cycle)[Len(epochs)].insts = epochs[Len(epochs)].insts
      /\ FullBut(Ended(epochs, cycle))
  <2>1. cycle \in Int
    BY <1>1
  <2>2. QED
    BY <2>1, <1>1, <1>3, EndedProperties
<1>5. /\ epochs' = Ended(epochs, cycle) /\ last_epoch_end_cycle' = cycle
      /\ finished' = TRUE /\ epoch_aborted' = FALSE
      /\ UNCHANGED <<fetch_cycle, num_fetched, cycle, num_inst, cycles_on_wrong_path>>
  BY <1>1, <1>2 DEF EpochOutput
<1>6. EpochTypeOK'
  <2>1. finished' \in BOOLEAN /\ epoch_aborted' \in BOOLEAN
    BY <1>5
  <2>2. Len(epochs') >= 1 /\ epochs' \in Seq(Epoch) /\ last_epoch_end_cycle' \in Nat
    BY <1>1, <1>4, <1>5
  <2>3. QED
    BY <2>1, <2>2, <1>1, <1>5 DEF EpochTypeOK
<1>7. EpochTiming'
  BY <1>5 DEF EpochTiming
<1>8. EpochsFull'
  <2>1. DOMAIN epochs' = 1 .. Len(epochs')
    BY <1>4, <1>5
  <2>2. epochs'[Len(epochs')].insts < EPOCH_SIZE_INSTS /\ FullBut(epochs')
    BY <1>3, <1>4, <1>5
  <2>3. QED
    BY <2>1, <2>2 DEF EpochsFull, FullBut
<1>9. QED
  BY <1>5, <1>6, <1>7, <1>8 DEF EpochInv

(* Every step keeps the invariant.                                          *)
LEMMA EpochNextInv ==
  ASSUME EpochAssumption, EpochInv, [EpochNext]_EpochVars
  PROVE  EpochInv'
<1>1. CASE UNCHANGED EpochVars
  <2>1. EpochTypeOK' /\ EpochTiming' /\ EpochsFull' /\ ~epoch_aborted'
    BY <1>1 DEF EpochVars, EpochInv, EpochTypeOK, EpochTiming, EpochsFull
  <2>2. QED
    BY <2>1 DEF EpochInv
<1>2. CASE num_inst > 0 /\ EpochOutput
  BY <1>2, EpochOutputInv
<1>3. ASSUME NEW last \in BOOLEAN, NEW cond \in BOOLEAN, NEW misp \in BOOLEAN,
             NEW delay \in Delays, NEW latency \in Latencies, NEW wait \in Latencies,
             NEW bundle \in Bundles, cond => last,
             EpochStep(last, cond, misp, delay, latency, bundle, wait)
      PROVE  EpochInv'
  BY <1>3, EpochStepInv
<1>4. QED
  BY <1>1, <1>2, <1>3 DEF EpochNext

(* The invariant of the statistics of every simulation.                     *)
THEOREM EpochInvariance == EpochSpec => []EpochInv
<1>1. EpochInit => EpochInv
  BY EpochAssumption, EpochInitially
<1>2. EpochInv /\ [EpochNext]_EpochVars => EpochInv'
  BY EpochAssumption, EpochNextInv
<1>3. QED
  BY <1>1, <1>2, PTL DEF EpochSpec

-----------------------------------------------------------------------------
(* The main loop.                                                           *)

(* Pieces are counted from 0.                                               *)
CountsPieces == mProcessedPieces \in Nat

(* The reader counts its pieces in numbers.                                 *)
LEMMA PiecesCounted == MainSpec => []CountsPieces
<1>1. MainInit => CountsPieces
  BY DEF MainInit, Init, CountsPieces
<1>2. ASSUME CountsPieces, [MainNext]_<<vars, EpochVars>> PROVE CountsPieces'
  <2>1. CASE UNCHANGED <<vars, EpochVars>>
    BY <2>1, <1>2 DEF vars, cracking, CountsPieces
  <2>2. CASE Read
    <3>1. mProcessedPieces' = 0 \/ UNCHANGED mProcessedPieces
      BY <2>2 DEF Read, ReadInstr, cracking
    <3>2. QED
      BY <3>1, <1>2 DEF CountsPieces
  <2>3. CASE StepPiece
    <3>1. mProcessedPieces' = mProcessedPieces + 1 \/ UNCHANGED mProcessedPieces
      BY <2>3 DEF StepPiece, PopulateNewInstr, cracking
    <3>2. QED
      BY <3>1, <1>2 DEF CountsPieces
  <2>4. CASE Finish \/ Stopped
    BY <2>4, <1>2 DEF Finish, Stopped, vars, cracking, CountsPieces
  <2>5. QED
    BY <1>2, <2>1, <2>2, <2>3, <2>4 DEF MainNext
<1>3. QED
  BY <1>1, <1>2, PTL DEF MainSpec

(* The main loop steps the statistics as Epochs says: what the reader marks *)
(* as the last piece ends an instruction, and a branch is one.              *)
THEOREM MainImplementsEpochs == MainSpec => EpochSpec
<1>1. MainInit => EpochInit
  BY DEF MainInit
<1>2. ASSUME CountsPieces, [MainNext]_<<vars, EpochVars>> PROVE [EpochNext]_EpochVars
  <2>1. CASE UNCHANGED <<vars, EpochVars>>
    BY <2>1
  <2>2. CASE Read \/ Stopped
    BY <2>2 DEF Read, Stopped
  <2>3. CASE Finish
    BY <2>3 DEF Finish, EpochNext
  <2>4. CASE StepPiece
    <3>1. CASE aborted'
      BY <2>4, <3>1 DEF StepPiece
    <3>2. CASE ~aborted'
      <4>1. PICK cond \in {FALSE, MayBranch}, misp \in BOOLEAN, delay \in Delays,
                 latency \in Latencies, wait \in Latencies, bundle \in Bundles :
              EpochStep(IsLastPiece, cond, misp, delay, latency, bundle, wait)
        BY <2>4, <3>2 DEF StepPiece
      <4>2. mProcessedPieces < mTotalPieces /\ mProcessedPieces' = mProcessedPieces + 1
        BY <2>4, <3>2 DEF StepPiece, PopulateNewInstr
      <4>3. cond \in BOOLEAN /\ IsLastPiece \in BOOLEAN
        BY DEF MayBranch, IsLastPiece
      <4>4. cond => IsLastPiece
        <5>1. SUFFICES ASSUME cond PROVE IsLastPiece
          OBVIOUS
        <5>2. mTotalPieces = 1
          BY <5>1 DEF MayBranch
        <5>3. QED
          BY <5>2, <4>2, <1>2 DEF CountsPieces, IsLastPiece
      <4>5. EpochNext
        <5> DEFINE last == IsLastPiece
        <5>1. last \in BOOLEAN /\ (cond => last)
          BY <4>3, <4>4
        <5>2. EpochStep(last, cond, misp, delay, latency, bundle, wait)
          BY <4>1
        <5> HIDE DEF last
        <5>3. QED
          BY <5>1, <5>2, <4>3 DEF EpochNext
      <4>6. QED
        BY <4>5
    <3>3. QED
      BY <3>1, <3>2
  <2>5. QED
    BY <1>2, <2>1, <2>2, <2>3, <2>4 DEF MainNext
<1>3. QED
  BY <1>1, <1>2, PiecesCounted, PTL DEF MainSpec, EpochSpec

(* The assertion of end_current_begin_new_epoch() never fails.              *)
THEOREM EpochsTakeTime == MainSpec => []~epoch_aborted
<1>1. EpochInv => ~epoch_aborted
  BY DEF EpochInv
<1>2. QED
  BY <1>1, EpochInvariance, MainImplementsEpochs, PTL

(* Every epoch but the last is full and took time, and counts no more       *)
(* mispredictions than branches and no more branches than instructions.     *)
THEOREM EpochsAreFull == MainSpec => []EpochsFull
<1>1. EpochInv => EpochsFull
  BY DEF EpochInv
<1>2. QED
  BY <1>1, EpochInvariance, MainImplementsEpochs, PTL

-----------------------------------------------------------------------------
(* Sums of epochs.                                                          *)

LEMMA PlusType ==
  ASSUME NEW a \in Epoch, NEW b \in Epoch
  PROVE  /\ Plus(a, b) \in Epoch
         /\ Plus(a, b).insts = a.insts + b.insts
         /\ Plus(a, b).cycles = a.cycles + b.cycles
         /\ Plus(a, b).wrong_path = a.wrong_path + b.wrong_path
BY DEF Plus, Epoch

(* The order of the epochs does not matter to their sum.                    *)
LEMMA PlusAssociative ==
  ASSUME NEW a \in Epoch, NEW b \in Epoch, NEW c \in Epoch
  PROVE  Plus(Plus(a, b), c) = Plus(a, Plus(b, c)) /\ Plus(a, b) = Plus(b, a)
<1>1. /\ Plus(a, b) = [insts |-> a.insts + b.insts, cycles |-> a.cycles + b.cycles,
                       conddir_n |-> a.conddir_n + b.conddir_n,
                       conddir_m |-> a.conddir_m + b.conddir_m,
                       wrong_path |-> a.wrong_path + b.wrong_path]
      /\ Plus(b, c) = [insts |-> b.insts + c.insts, cycles |-> b.cycles + c.cycles,
                       conddir_n |-> b.conddir_n + c.conddir_n,
                       conddir_m |-> b.conddir_m + c.conddir_m,
                       wrong_path |-> b.wrong_path + c.wrong_path]
  BY DEF Plus
<1>2. /\ a.insts \in Nat /\ a.cycles \in Int /\ a.conddir_n \in Nat
      /\ a.conddir_m \in Nat /\ a.wrong_path \in Int
      /\ b.insts \in Nat /\ b.cycles \in Int /\ b.conddir_n \in Nat
      /\ b.conddir_m \in Nat /\ b.wrong_path \in Int
      /\ c.insts \in Nat /\ c.cycles \in Int /\ c.conddir_n \in Nat
      /\ c.conddir_m \in Nat /\ c.wrong_path \in Int
  BY DEF Epoch
<1>3. Plus(a, b) = Plus(b, a)
  BY <1>2 DEF Plus
<1>4. Plus(Plus(a, b), c) = Plus(a, Plus(b, c))
  <2>1. /\ (a.insts + b.insts) + c.insts = a.insts + (b.insts + c.insts)
        /\ (a.cycles + b.cycles) + c.cycles = a.cycles + (b.cycles + c.cycles)
        /\ (a.conddir_n + b.conddir_n) + c.conddir_n
             = a.conddir_n + (b.conddir_n + c.conddir_n)
        /\ (a.conddir_m + b.conddir_m) + c.conddir_m
             = a.conddir_m + (b.conddir_m + c.conddir_m)
        /\ (a.wrong_path + b.wrong_path) + c.wrong_path
             = a.wrong_path + (b.wrong_path + c.wrong_path)
    BY <1>2
  <2>. QED  BY <2>1, <1>1 DEF Plus
<1>. QED  BY <1>3, <1>4

(* An epoch that has begun adds nothing.                                    *)
LEMMA NewEpochZero ==
  /\ NewEpoch \in Epoch
  /\ \A a \in Epoch : Plus(a, NewEpoch) = a /\ Plus(NewEpoch, a) = a
<1>1. NewEpoch \in Epoch
  BY DEF NewEpoch, Epoch
<1>2. ASSUME NEW a \in Epoch PROVE Plus(a, NewEpoch) = a
  <2>1. /\ a.insts \in Nat /\ a.cycles \in Int /\ a.conddir_n \in Nat
        /\ a.conddir_m \in Nat /\ a.wrong_path \in Int
        /\ a = [insts |-> a.insts, cycles |-> a.cycles, conddir_n |-> a.conddir_n,
                conddir_m |-> a.conddir_m, wrong_path |-> a.wrong_path]
    BY DEF Epoch
  <2>2. /\ a.insts + 0 = a.insts /\ a.cycles + 0 = a.cycles
        /\ a.conddir_n + 0 = a.conddir_n /\ a.conddir_m + 0 = a.conddir_m
        /\ a.wrong_path + 0 = a.wrong_path
    BY <2>1
  <2>3. Plus(a, NewEpoch) = [insts |-> a.insts, cycles |-> a.cycles,
                             conddir_n |-> a.conddir_n, conddir_m |-> a.conddir_m,
                             wrong_path |-> a.wrong_path]
    BY <2>2 DEF Plus, NewEpoch
  <2>. QED  BY <2>1, <2>3
<1>3. ASSUME NEW a \in Epoch PROVE Plus(NewEpoch, a) = a
  BY <1>1, <1>2, PlusAssociative
<1>. QED  BY <1>1, <1>2, <1>3

(* TotalUpTo is what its recursion says.                                    *)
LEMMA TotalRecursion ==
  ASSUME NEW es \in Seq(Epoch)
  PROVE  /\ TotalUpTo(es) \in [0 .. Len(es) -> Epoch]
         /\ TotalUpTo(es)[0] = NewEpoch
         /\ \A k \in 1 .. Len(es) : TotalUpTo(es)[k] = Plus(TotalUpTo(es)[k - 1], es[k])
<1>. DEFINE n == Len(es)
            V == Epoch
            v0 == NewEpoch
            Def(f) == [k \in 0 .. n |-> IF k = 0 THEN v0 ELSE Plus(f[k - 1], es[k])]
            G == [k \in 1 .. n |-> [v \in V |-> Plus(v, es[k])]]
<1>1. n \in Nat /\ v0 \in V
  BY NewEpochZero
<1>2. G \in [1 .. n -> [V -> V]]
  <2>1. ASSUME NEW k \in 1 .. n, NEW v \in Epoch PROVE Plus(v, es[k]) \in Epoch
    <3>1. es[k] \in Epoch  OBVIOUS
    <3>. QED  BY <3>1, PlusType
  <2>. QED  BY <2>1
<1>3. PICK f \in [0 .. n -> V] : f[0] = v0 /\ \A k \in 1 .. n : f[k] = G[k][f[k - 1]]
  <2>. HIDE DEF G, n, V, v0
  <2>1. \E f : Iterates(f, n, V, v0, G)
    BY <1>1, <1>2, RecursionExists, Zenon
  <2>. QED  BY <2>1 DEF Iterates
<1>4. \A k \in 1 .. n : f[k] = Plus(f[k - 1], es[k])
  <2>1. ASSUME NEW k \in 1 .. n PROVE f[k] = Plus(f[k - 1], es[k])
    <3>1. f[k - 1] \in Epoch  BY <1>1
    <3>2. G[k] = [v \in Epoch |-> Plus(v, es[k])]  OBVIOUS
    <3>. HIDE DEF G
    <3>. QED  BY <1>3, <3>1, <3>2
  <2>. QED  BY <2>1
<1>5. f = Def(f)
  <2>. HIDE DEF n
  <2>1. \A k \in 0 .. n : f[k] = IF k = 0 THEN NewEpoch ELSE Plus(f[k - 1], es[k])
    <3>1. \A k \in 0 .. n : k = 0 \/ k \in 1 .. n  BY <1>1
    <3>. QED  BY <1>3, <1>4, <3>1
  <2>2. f = [k \in 0 .. n |-> f[k]]
    OBVIOUS
  <2>. QED  BY <2>1, <2>2
<1>6. TotalUpTo(es) = CHOOSE g : g = Def(g)
  BY DEF TotalUpTo
<1>. DEFINE U == TotalUpTo(es)
<1>7. U = Def(U)
  <2>. HIDE DEF Def
  <2>. QED  BY <1>5, <1>6
<1>. HIDE DEF U
<1>8. DOMAIN U = 0 .. n
      /\ \A k \in 0 .. n : U[k] = IF k = 0 THEN NewEpoch ELSE Plus(U[k - 1], es[k])
  BY <1>7
<1>9. U[0] = NewEpoch /\ \A k \in 1 .. n : U[k] = Plus(U[k - 1], es[k])
  <2>1. 0 \in 0 .. n /\ \A k \in 1 .. n : k \in 0 .. n /\ k # 0  BY <1>1
  <2>. HIDE DEF n
  <2>. QED  BY <1>8, <2>1
<1>10. \A k \in 0 .. n : U[k] \in Epoch
  <2>. DEFINE T == {k \in 0 .. n : U[k] \in Epoch}
  <2>1. 0 \in T  BY <1>1, <1>9
  <2>2. ASSUME NEW k \in 0 .. n - 1, k \in T PROVE k + 1 \in T
    <3>1. k + 1 \in 1 .. n /\ (k + 1) - 1 = k /\ k + 1 \in 0 .. n  BY <1>1
    <3>2. es[k + 1] \in Epoch  BY <3>1
    <3>3. U[k + 1] = Plus(U[k], es[k + 1])
      <4>. HIDE DEF n
      <4>1. \A j \in 1 .. n : j - 1 = k => U[j] = Plus(U[k], es[j])
        BY <1>9
      <4>2. k + 1 \in 1 .. n  BY <3>1
      <4>3. (k + 1) - 1 = k  BY <3>1
      <4>. QED  BY <4>2, <4>3, <4>1, Zenon
    <3>4. U[k] \in Epoch  BY <2>2
    <3>5. U[k + 1] \in Epoch
      BY <3>2, <3>3, <3>4, PlusType
    <3>. QED  BY <3>1, <3>5
  <2>3. \A k \in 0 .. n : k \in T
    <3>. HIDE DEF T, n
    <3>. QED  BY <1>1, <2>1, <2>2, CountingUp
  <2>. QED  BY <2>3
<1>11. U \in [0 .. n -> Epoch]
  <2>1. U = [k \in 0 .. n |-> U[k]]
    <3>1. Def(U) = [k \in 0 .. n |-> U[k]]
      BY <1>7
    <3>. QED  BY <1>7, <3>1
  <2>. HIDE DEF n
  <2>. QED  BY <1>10, <2>1
<1>. QED  BY <1>9, <1>11 DEF U

(* The sum of the first epochs depends on those only.                       *)
LEMMA TotalsAgree ==
  ASSUME NEW es \in Seq(Epoch), NEW fs \in Seq(Epoch), NEW m \in Nat,
         m <= Len(es), m <= Len(fs), \A k \in 1 .. m : es[k] = fs[k]
  PROVE  \A k \in 0 .. m : TotalUpTo(es)[k] = TotalUpTo(fs)[k]
<1>. DEFINE T == {k \in Nat : TotalUpTo(es)[k] = TotalUpTo(fs)[k]}
<1>1. 0 \in T
  <2>1. TotalUpTo(es)[0] = NewEpoch /\ TotalUpTo(fs)[0] = NewEpoch
    BY TotalRecursion
  <2>. QED  BY <2>1
<1>2. ASSUME NEW k \in 0 .. m - 1, k \in T PROVE k + 1 \in T
  <2>. DEFINE j == k + 1
  <2>1. j \in 1 .. Len(es) /\ j \in 1 .. Len(fs) /\ j - 1 = k /\ j \in 1 .. m
    OBVIOUS
  <2>. HIDE DEF j
  <2>2. TotalUpTo(es)[j] = Plus(TotalUpTo(es)[j - 1], es[j])
    BY <2>1, TotalRecursion
  <2>3. TotalUpTo(fs)[j] = Plus(TotalUpTo(fs)[j - 1], fs[j])
    BY <2>1, TotalRecursion
  <2>4. TotalUpTo(es)[k] = TotalUpTo(fs)[k] /\ es[j] = fs[j]
    BY <1>2, <2>1
  <2>5. TotalUpTo(es)[j] = TotalUpTo(fs)[j] /\ j \in Nat
    BY <2>1, <2>2, <2>3, <2>4
  <2>. QED  BY <2>5 DEF j
<1>3. \A k \in 0 .. m : k \in T
  <2>. HIDE DEF T
  <2>. QED  BY <1>1, <1>2, CountingUp
<1>. QED  BY <1>3

(* The sum of all epochs is that of all but the last, and the last.         *)
LEMMA TotalLast ==
  ASSUME NEW es \in Seq(Epoch), Len(es) >= 1
  PROVE  /\ Total(es) \in Epoch /\ TotalUpTo(es)[Len(es) - 1] \in Epoch
         /\ Total(es) = Plus(TotalUpTo(es)[Len(es) - 1], es[Len(es)])
<1>1. Len(es) \in 1 .. Len(es) /\ Len(es) \in 0 .. Len(es) /\ Len(es) - 1 \in 0 .. Len(es)
  OBVIOUS
<1>. QED  BY <1>1, TotalRecursion DEF Total

(* Replacing the last epoch, and beginning another one.                     *)
LEMMA TotalReplaced ==
  ASSUME NEW es \in Seq(Epoch), Len(es) >= 1, NEW e \in Epoch
  PROVE  LET total == Total([es EXCEPT ![Len(es)] = e])
         IN  /\ total.insts = Total(es).insts - es[Len(es)].insts + e.insts
             /\ total.cycles = Total(es).cycles - es[Len(es)].cycles + e.cycles
             /\ total.wrong_path
                  = Total(es).wrong_path - es[Len(es)].wrong_path + e.wrong_path
<1>. DEFINE n == Len(es)
            fs == [es EXCEPT ![n] = e]
            b == TotalUpTo(es)[n - 1]
<1>1. /\ n \in Nat \ {0} /\ n - 1 \in Nat /\ fs \in Seq(Epoch) /\ Len(fs) = n
      /\ fs[n] = e /\ es[n] \in Epoch /\ n - 1 \in 0 .. n - 1
  OBVIOUS
<1>2. \A k \in 1 .. n - 1 : es[k] = fs[k]
  OBVIOUS
<1>3. TotalUpTo(fs)[n - 1] = b
  <2>. HIDE DEF fs
  <2>1. n - 1 <= Len(es) /\ n - 1 <= Len(fs)
    BY <1>1
  <2>. HIDE DEF n
  <2>2. \A k \in 0 .. n - 1 : TotalUpTo(es)[k] = TotalUpTo(fs)[k]
    BY <1>1, <1>2, <2>1, TotalsAgree
  <2>. QED  BY <1>1, <2>2
<1>4. Total(es) = Plus(b, es[n]) /\ b \in Epoch
  BY TotalLast
<1>5. Total(fs) = Plus(b, e)
  <2>. HIDE DEF fs, b
  <2>1. Len(fs) >= 1  BY <1>1
  <2>2. Total(fs) = Plus(TotalUpTo(fs)[Len(fs) - 1], fs[Len(fs)])
    BY <1>1, <2>1, TotalLast
  <2>. QED  BY <1>1, <1>3, <2>2
<1>. HIDE DEF b, n, fs
<1>6. /\ Total(es).insts = b.insts + es[n].insts
      /\ Total(es).cycles = b.cycles + es[n].cycles
      /\ Total(es).wrong_path = b.wrong_path + es[n].wrong_path
      /\ Total(fs).insts = b.insts + e.insts
      /\ Total(fs).cycles = b.cycles + e.cycles
      /\ Total(fs).wrong_path = b.wrong_path + e.wrong_path
  BY <1>1, <1>4, <1>5, PlusType
<1>7. \A d \in Epoch : d.insts \in Int /\ d.cycles \in Int /\ d.wrong_path \in Int
  BY DEF Epoch
<1>8. /\ Total(fs).insts = Total(es).insts - es[n].insts + e.insts
      /\ Total(fs).cycles = Total(es).cycles - es[n].cycles + e.cycles
      /\ Total(fs).wrong_path = Total(es).wrong_path - es[n].wrong_path + e.wrong_path
  <2>1. b \in Epoch /\ es[n] \in Epoch /\ e \in Epoch
    BY <1>1, <1>4
  <2>2. Total(fs).insts = Total(es).insts - es[n].insts + e.insts
    <3>1. b.insts \in Int /\ es[n].insts \in Int /\ e.insts \in Int
      BY <1>7, <2>1
    <3>. QED  BY <1>6, <3>1
  <2>3. Total(fs).cycles = Total(es).cycles - es[n].cycles + e.cycles
    <3>1. b.cycles \in Int /\ es[n].cycles \in Int /\ e.cycles \in Int
      BY <1>7, <2>1
    <3>. QED  BY <1>6, <3>1
  <2>4. Total(fs).wrong_path = Total(es).wrong_path - es[n].wrong_path + e.wrong_path
    <3>1. b.wrong_path \in Int /\ es[n].wrong_path \in Int /\ e.wrong_path \in Int
      BY <1>7, <2>1
    <3>. QED  BY <1>6, <3>1
  <2>. QED  BY <2>2, <2>3, <2>4
<1>. QED  BY <1>8, Zenon DEF n, fs

(* Beginning an epoch changes no sum.                                       *)
LEMMA TotalBegun ==
  ASSUME NEW es \in Seq(Epoch), Len(es) >= 1
  PROVE  Total(Append(es, NewEpoch)) = Total(es)
<1>. DEFINE n == Len(es)
            fs == Append(es, NewEpoch)
<1>1. /\ n \in Nat /\ fs \in Seq(Epoch) /\ Len(fs) = n + 1 /\ fs[n + 1] = NewEpoch
      /\ n \in 0 .. n /\ (n + 1) - 1 = n
  BY NewEpochZero
<1>2. \A k \in 1 .. n : es[k] = fs[k]
  OBVIOUS
<1>. HIDE DEF fs
<1>3. TotalUpTo(fs)[n] = Total(es)
  <2>1. n <= Len(es) /\ n <= Len(fs)
    BY <1>1
  <2>. HIDE DEF n
  <2>2. \A k \in 0 .. n : TotalUpTo(es)[k] = TotalUpTo(fs)[k]
    BY <1>1, <1>2, <2>1, TotalsAgree
  <2>. QED  BY <1>1, <2>2 DEF Total, n
<1>4. Total(fs) = Plus(TotalUpTo(fs)[n], NewEpoch)
  <2>1. Len(fs) >= 1  BY <1>1
  <2>2. Total(fs) = Plus(TotalUpTo(fs)[Len(fs) - 1], fs[Len(fs)])
    BY <1>1, <2>1, TotalLast
  <2>. QED  BY <1>1, <2>2
<1>5. Total(es) \in Epoch
  BY TotalLast
<1>. QED  BY <1>3, <1>4, <1>5, NewEpochZero DEF fs

-----------------------------------------------------------------------------
(* The epochs add up to the simulation, and the current one has no cycles   *)
(* before it ends.                                                          *)
AddUp ==
  /\ Total(epochs).insts = num_inst
  /\ Total(epochs).cycles = IF finished THEN cycle ELSE last_epoch_end_cycle
  /\ Total(epochs).wrong_path = cycles_on_wrong_path
  /\ cycles_on_wrong_path <= fetch_cycle
  /\ ~finished => epochs[Len(epochs)].cycles = 0

(* The invariant of the sums, initially and after each step.                *)
LEMMA AddUpInitially == ASSUME EpochInit PROVE AddUp
<1>1. epochs \in Seq(Epoch) /\ Len(epochs) = 1 /\ epochs[1] = NewEpoch
  BY NewEpochZero DEF EpochInit
<1>2. Total(epochs) = Plus(TotalUpTo(epochs)[0], NewEpoch)
  <2>1. Len(epochs) >= 1 /\ 1 - 1 = 0  BY <1>1
  <2>2. Total(epochs) = Plus(TotalUpTo(epochs)[Len(epochs) - 1], epochs[Len(epochs)])
    BY <1>1, <2>1, TotalLast
  <2>. QED  BY <1>1, <2>1, <2>2
<1>3. Total(epochs) = NewEpoch
  <2>1. TotalUpTo(epochs)[0] = NewEpoch
    BY <1>1, TotalRecursion
  <2>. QED  BY <1>2, <2>1, NewEpochZero
<1>4. NewEpoch.insts = 0 /\ NewEpoch.cycles = 0 /\ NewEpoch.wrong_path = 0
  BY DEF NewEpoch
<1>. QED  BY <1>1, <1>3, <1>4 DEF AddUp, EpochInit

(* The measurements of a uop go to one epoch and to the whole; a full epoch *)
(* takes the cycles since the one before ended.                             *)
LEMMA AddUpStep ==
  ASSUME EpochInv, AddUp, NEW last \in BOOLEAN, NEW cond \in BOOLEAN,
         NEW misp \in BOOLEAN, NEW delay \in Delays, NEW latency \in Latencies,
         NEW wait \in Latencies, NEW bundle \in Bundles,
         EpochStep(last, cond, misp, delay, latency, bundle, wait)
  PROVE  AddUp'
<1> DEFINE p == fetch_cycle + delay
           next == NextFetch(p, last, bundle, wait)
           resolved == Later(next, p + latency)
           wrong == IF misp THEN resolved - p ELSE 0
           n == Len(epochs)
           e == Measured(epochs[n], last, cond, misp, wrong)
           measured == [epochs EXCEPT ![n] = e]
           full == measured[Len(measured)].insts = EPOCH_SIZE_INSTS
<1>a. delay \in Nat /\ latency \in Nat \ {0}
  BY EpochAssumption
<1>b. /\ fetch_cycle \in Nat /\ num_fetched \in 0 .. FETCH_WIDTH - 1
      /\ num_inst \in Nat /\ cycles_on_wrong_path \in Int
      /\ epochs \in Seq(Epoch) /\ n \in Nat \ {0} /\ n \in 1 .. n
      /\ last_epoch_end_cycle \in Nat /\ finished = FALSE
  BY DEF EpochInv, EpochTypeOK, EpochStep
<1>c. /\ Total(epochs).insts = num_inst
      /\ Total(epochs).cycles = last_epoch_end_cycle
      /\ Total(epochs).wrong_path = cycles_on_wrong_path
      /\ cycles_on_wrong_path <= fetch_cycle
      /\ epochs[n].cycles = 0
  BY <1>b DEF AddUp
<1>d. /\ num_inst' = num_inst + Tally(last)
      /\ cycles_on_wrong_path' = cycles_on_wrong_path + wrong
      /\ fetch_cycle' = (IF misp THEN resolved ELSE next)
      /\ finished' = FALSE
  BY <1>b DEF EpochStep
<1>e. /\ epochs' = IF full THEN Append(Ended(measured, p), NewEpoch) ELSE measured
      /\ last_epoch_end_cycle' = (IF full THEN p ELSE last_epoch_end_cycle)
  <2>1. Len(measured) = n
    BY <1>b
  <2>2. measured = [epochs EXCEPT ![Len(epochs)] = Measured(@, last, cond, misp, wrong)]
    BY <1>b
  <2>3. QED
    BY <2>1, <2>2 DEF EpochStep
<1>1. p \in Nat /\ p >= fetch_cycle /\ next \in Nat /\ next >= p
  <2>1. p \in Nat /\ p >= fetch_cycle
    BY <1>a, <1>b
  <2> HIDE DEF p
  <2>2. QED
    BY <2>1, <1>b, EpochAssumption, NextFetchBounds
<1>2. Tally(last) \in {0, 1} /\ Counts(last) = Tally(last)
  BY DEF Tally, Counts
<1> HIDE DEF p, next
<1>3. resolved \in Nat /\ wrong \in Int
  BY <1>a, <1>1 DEF Later
<1>4. cycles_on_wrong_path' <= fetch_cycle'
  <2>1. CASE misp
    BY <2>1, <1>b, <1>c, <1>d, <1>1, <1>3
  <2>2. CASE ~misp
    BY <2>2, <1>b, <1>c, <1>d, <1>1, <1>3
  <2>. QED  BY <2>1, <2>2
<1>5. epochs[n] \in Epoch
  BY <1>b
<1> HIDE DEF resolved, wrong, n
<1>6. /\ e \in Epoch /\ e.insts = epochs[n].insts + Tally(last)
      /\ e.cycles = 0 /\ e.wrong_path = epochs[n].wrong_path + wrong
  <2>1. /\ e \in Epoch /\ e.insts = epochs[n].insts + Counts(last)
        /\ e.cycles = epochs[n].cycles /\ e.wrong_path = epochs[n].wrong_path + wrong
    <3>1. ASSUME NEW x \in Epoch, NEW w \in Int
          PROVE  /\ Measured(x, last, cond, misp, w) \in Epoch
                 /\ Measured(x, last, cond, misp, w).insts = x.insts + Counts(last)
                 /\ Measured(x, last, cond, misp, w).cycles = x.cycles
                 /\ Measured(x, last, cond, misp, w).wrong_path = x.wrong_path + w
      BY MeasuredType
    <3>2. wrong \in Int
      BY <1>3
    <3>. QED  BY <1>5, <3>1, <3>2, Zenon
  <2>. HIDE DEF e
  <2>. QED  BY <2>1, <1>2, <1>c
<1> HIDE DEF e
<1>7. /\ measured \in Seq(Epoch) /\ Len(measured) = n /\ measured[n] = e
  BY <1>b, <1>6 DEF n
<1>8. /\ Total(measured).insts = num_inst'
      /\ Total(measured).cycles = last_epoch_end_cycle
      /\ Total(measured).wrong_path = cycles_on_wrong_path'
  <2>1. Len(epochs) >= 1
    BY <1>b DEF n
  <2>2. /\ Total(measured).insts = Total(epochs).insts - epochs[n].insts + e.insts
        /\ Total(measured).cycles = Total(epochs).cycles - epochs[n].cycles + e.cycles
        /\ Total(measured).wrong_path
             = Total(epochs).wrong_path - epochs[n].wrong_path + e.wrong_path
    BY <2>1, <1>b, <1>6, TotalReplaced, Zenon DEF n
  <2>3. epochs[n].insts \in Nat /\ epochs[n].wrong_path \in Int
    BY <1>5 DEF Epoch
  <2>. HIDE DEF measured
  <2>. QED  BY <2>2, <2>3, <1>b, <1>c, <1>d, <1>2, <1>3, <1>6
<1> HIDE DEF measured
<1>9. CASE ~full
  <2>1. epochs' = measured /\ last_epoch_end_cycle' = last_epoch_end_cycle
    BY <1>9, <1>e
  <2>2. epochs'[Len(epochs')].cycles = 0
    BY <2>1, <1>6, <1>7
  <2>. QED  BY <2>1, <2>2, <1>4, <1>8, <1>d DEF AddUp
<1>10. CASE full
  <2>. DEFINE ended == Ended(measured, p)
  <2>1. epochs' = Append(ended, NewEpoch) /\ last_epoch_end_cycle' = p
    BY <1>10, <1>e
  <2>2. Len(measured) >= 1 /\ p \in Int
    BY <1>7, <1>b, <1>1
  <2>3. PICK d \in Epoch :
          /\ ended = [measured EXCEPT ![Len(measured)] = d]
          /\ d.insts = measured[Len(measured)].insts
          /\ d.cycles = p - last_epoch_end_cycle
          /\ d.wrong_path = measured[Len(measured)].wrong_path
    BY <2>2, <1>7, <1>b, EndedLast
  <2>. HIDE DEF ended
  <2>4. /\ d.insts = e.insts /\ d.wrong_path = e.wrong_path
        /\ d.cycles = p - last_epoch_end_cycle
        /\ ended \in Seq(Epoch) /\ Len(ended) = n
    BY <2>3, <1>7, <1>b
  <2>5. /\ Total(ended).insts = Total(measured).insts - e.insts + d.insts
        /\ Total(ended).cycles = Total(measured).cycles - e.cycles + d.cycles
        /\ Total(ended).wrong_path = Total(measured).wrong_path - e.wrong_path + d.wrong_path
    <3>1. LET total == Total([measured EXCEPT ![Len(measured)] = d])
              l == measured[Len(measured)]
          IN  /\ total.insts = Total(measured).insts - l.insts + d.insts
              /\ total.cycles = Total(measured).cycles - l.cycles + d.cycles
              /\ total.wrong_path = Total(measured).wrong_path - l.wrong_path + d.wrong_path
      BY <2>2, <1>7, TotalReplaced
    <3>. QED  BY <3>1, <2>3, <1>7
  <2>6. /\ Total(ended).insts = num_inst' /\ Total(ended).cycles = p
        /\ Total(ended).wrong_path = cycles_on_wrong_path'
    <3>1. e.insts \in Nat /\ e.wrong_path \in Int
      BY <1>6 DEF Epoch
    <3>2. num_inst' \in Nat /\ cycles_on_wrong_path' \in Int
      BY <1>b, <1>d, <1>2, <1>3
    <3>. QED  BY <2>4, <2>5, <3>1, <3>2, <1>b, <1>1, <1>6, <1>8
  <2>7. Total(epochs') = Total(ended)
    <3>1. Len(ended) >= 1  BY <2>4, <1>b
    <3>. QED  BY <2>1, <2>4, <3>1, TotalBegun
  <2>8. epochs'[Len(epochs')].cycles = 0
    <3>1. NewEpoch.cycles = 0  BY DEF NewEpoch
    <3>2. epochs'[Len(epochs')] = NewEpoch
      BY <2>1, <2>4, NewEpochZero
    <3>. QED  BY <3>1, <3>2
  <2>. QED  BY <2>1, <2>6, <2>7, <2>8, <1>4, <1>d DEF AddUp
<1>. QED  BY <1>9, <1>10

(* The last epoch takes the cycles that are left.                           *)
LEMMA AddUpOutput ==
  ASSUME EpochInv, AddUp, EpochOutput
  PROVE  AddUp'
<1>. DEFINE n == Len(epochs)
<1>1. /\ epochs \in Seq(Epoch) /\ n >= 1 /\ cycle \in Int /\ n \in 1 .. n
      /\ last_epoch_end_cycle \in Nat /\ finished = FALSE
      /\ num_inst \in Nat /\ cycles_on_wrong_path \in Int
  BY DEF EpochInv, EpochTypeOK, EpochOutput
<1>2. /\ Total(epochs).insts = num_inst
      /\ Total(epochs).cycles = last_epoch_end_cycle
      /\ Total(epochs).wrong_path = cycles_on_wrong_path
      /\ cycles_on_wrong_path <= fetch_cycle
      /\ epochs[n].cycles = 0
  BY <1>1 DEF AddUp
<1>3. PICK d \in Epoch :
        /\ Ended(epochs, cycle) = [epochs EXCEPT ![n] = d]
        /\ d.insts = epochs[n].insts
        /\ d.cycles = cycle - last_epoch_end_cycle
        /\ d.wrong_path = epochs[n].wrong_path
  BY <1>1, EndedLast
<1>4. /\ epochs' = Ended(epochs, cycle) /\ finished' = TRUE
      /\ UNCHANGED <<fetch_cycle, cycle, num_inst, cycles_on_wrong_path>>
  BY DEF EpochOutput
<1>5. /\ Total(epochs').insts = Total(epochs).insts - epochs[n].insts + d.insts
      /\ Total(epochs').cycles = Total(epochs).cycles - epochs[n].cycles + d.cycles
      /\ Total(epochs').wrong_path
           = Total(epochs).wrong_path - epochs[n].wrong_path + d.wrong_path
  <2>1. LET total == Total([epochs EXCEPT ![n] = d])
        IN  /\ total.insts = Total(epochs).insts - epochs[n].insts + d.insts
            /\ total.cycles = Total(epochs).cycles - epochs[n].cycles + d.cycles
            /\ total.wrong_path
                 = Total(epochs).wrong_path - epochs[n].wrong_path + d.wrong_path
    BY <1>1, TotalReplaced
  <2>. QED  BY <1>3, <1>4, <2>1
<1>6. epochs[n].insts \in Nat /\ epochs[n].wrong_path \in Int
  <2>1. epochs[n] \in Epoch  BY <1>1
  <2>. QED  BY <2>1 DEF Epoch
<1>. HIDE DEF n
<1>7. /\ Total(epochs').insts = num_inst /\ Total(epochs').cycles = cycle
      /\ Total(epochs').wrong_path = cycles_on_wrong_path
  BY <1>1, <1>2, <1>3, <1>5, <1>6
<1>. QED  BY <1>2, <1>4, <1>7 DEF AddUp

(* The sums of the epochs are those of the simulation, always.              *)
LEMMA AddUpAlways == EpochSpec => []AddUp
<1>1. EpochInit => AddUp
  BY AddUpInitially
<1>2. EpochInv /\ AddUp /\ [EpochNext]_EpochVars => AddUp'
  <2>. SUFFICES ASSUME EpochInv, AddUp, [EpochNext]_EpochVars PROVE AddUp'
    OBVIOUS
  <2>1. CASE UNCHANGED EpochVars
    BY <2>1 DEF EpochVars, AddUp
  <2>2. CASE num_inst > 0 /\ EpochOutput
    BY <2>2, AddUpOutput
  <2>3. ASSUME NEW last \in BOOLEAN, NEW cond \in BOOLEAN, NEW misp \in BOOLEAN,
               NEW delay \in Delays, NEW latency \in Latencies, NEW wait \in Latencies,
               NEW bundle \in Bundles,
               EpochStep(last, cond, misp, delay, latency, bundle, wait)
        PROVE  AddUp'
    BY <2>3, AddUpStep, EpochAssumption
  <2>. QED  BY <2>1, <2>2, <2>3 DEF EpochNext
<1>. QED  BY <1>1, <1>2, EpochInvariance, PTL DEF EpochSpec

(* In every simulation the epochs are full and add up to its instructions,  *)
(* cycles and cycles on the wrong path, which no fetch is behind.           *)
THEOREM MainEpochsPartition == MainSpec => []EpochsPartition
<1>1. EpochInv /\ AddUp => EpochsPartition
  BY DEF EpochInv, AddUp, EpochsPartition
<1>. QED  BY <1>1, EpochInvariance, AddUpAlways, MainImplementsEpochs, PTL

-----------------------------------------------------------------------------
(* Reports.                                                                 *)

Reports == [from : Nat, stopped : BOOLEAN, total : Epoch]

(* One more epoch in a report that has not stopped.                         *)
LEMMA CountedIs ==
  ASSUME NEW r \in Reports, NEW k \in Nat, NEW target \in Int, epochs[k] \in Epoch
  PROVE  /\ Counted(r, k, target) \in Reports
         /\ r.stopped => Counted(r, k, target) = r
         /\ ~r.stopped => /\ Counted(r, k, target).from = k
                          /\ Counted(r, k, target).total = Plus(r.total, epochs[k])
                          /\ Counted(r, k, target).stopped
                               <=> Plus(r.total, epochs[k]).insts > target
<1>. DEFINE total == Plus(r.total, epochs[k])
<1>1. r.total \in Epoch /\ r.stopped \in BOOLEAN
  BY DEF Reports
<1>2. total \in Epoch /\ total.insts \in Nat
  <2>1. total \in Epoch  BY <1>1, PlusType
  <2>. QED  BY <2>1 DEF Epoch
<1>. HIDE DEF total
<1>3. CASE r.stopped
  <2>1. Counted(r, k, target) = r
    BY <1>3 DEF Counted
  <2>. QED  BY <1>3, <2>1
<1>4. CASE ~r.stopped
  <2>. DEFINE over == total.insts > target
  <2>1. over \in BOOLEAN
    OBVIOUS
  <2>2. Counted(r, k, target) = [from |-> k, stopped |-> over, total |-> total]
    BY <1>4, Zenon DEF Counted, Stops, total
  <2>. HIDE DEF over
  <2>3. Counted(r, k, target) \in Reports
    BY <1>2, <2>1, <2>2 DEF Reports
  <2>4. /\ Counted(r, k, target).from = k /\ Counted(r, k, target).stopped = over
        /\ Counted(r, k, target).total = total
    BY <2>2
  <2>. QED  BY <1>4, <2>3, <2>4, Zenon DEF over, total
<1>. QED  BY <1>1, <1>3, <1>4

(* ReportAfter is what its recursion says.                                  *)
LEMMA ReportRecursion ==
  ASSUME epochs \in Seq(Epoch), NEW target \in Int
  PROVE  /\ ReportAfter(target) \in [0 .. Len(epochs) -> Reports]
         /\ ReportAfter(target)[0] = Nothing
         /\ \A d \in 1 .. Len(epochs) :
              ReportAfter(target)[d]
                = Counted(ReportAfter(target)[d - 1], Len(epochs) + 1 - d, target)
<1>. DEFINE n == Len(epochs)
            V == Reports
            v0 == Nothing
            next(r, d) == Counted(r, n + 1 - d, target)
            Def(f) == [d \in 0 .. n |-> IF d = 0 THEN v0 ELSE next(f[d - 1], d)]
            G == [d \in 1 .. n |-> [v \in V |-> next(v, d)]]
<1>1. n \in Nat /\ v0 \in V
  BY NewEpochZero DEF Nothing, Reports
<1>2. \A d \in 1 .. n : \A v \in V : next(v, d) \in V
  <2>1. ASSUME NEW d \in 1 .. n, NEW v \in V PROVE next(v, d) \in V
    <3>1. n + 1 - d \in Nat /\ n + 1 - d \in 1 .. n
      BY <1>1
    <3>2. epochs[n + 1 - d] \in Epoch
      BY <3>1
    <3>. HIDE DEF n
    <3>. QED  BY <3>1, <3>2, CountedIs
  <2>. QED  BY <2>1
<1>. HIDE DEF next
<1>3. G \in [1 .. n -> [V -> V]]
  <2>. HIDE DEF V, n
  <2>. QED  BY <1>2
<1>4. PICK f \in [0 .. n -> V] : f[0] = v0 /\ \A d \in 1 .. n : f[d] = G[d][f[d - 1]]
  <2>. HIDE DEF G, n, V, v0
  <2>1. \E f : Iterates(f, n, V, v0, G)
    BY <1>1, <1>3, RecursionExists, Zenon
  <2>. QED  BY <2>1 DEF Iterates
<1>5. \A d \in 1 .. n : f[d] = next(f[d - 1], d)
  <2>1. ASSUME NEW d \in 1 .. n PROVE f[d] = next(f[d - 1], d)
    <3>1. f[d - 1] \in V  BY <1>1
    <3>2. G[d] = [v \in V |-> next(v, d)]  OBVIOUS
    <3>. HIDE DEF G, V
    <3>. QED  BY <1>4, <3>1, <3>2
  <2>. QED  BY <2>1
<1>6. f = Def(f)
  <2>. HIDE DEF n, V, v0
  <2>1. \A d \in 0 .. n : f[d] = IF d = 0 THEN v0 ELSE next(f[d - 1], d)
    <3>1. \A d \in 0 .. n : d = 0 \/ d \in 1 .. n  BY <1>1
    <3>. QED  BY <1>4, <1>5, <3>1
  <2>2. f = [d \in 0 .. n |-> f[d]]
    OBVIOUS
  <2>. QED  BY <2>1, <2>2
<1>7. ReportAfter(target) = CHOOSE g : g = Def(g)
  BY DEF ReportAfter, next
<1>. DEFINE U == ReportAfter(target)
<1>8. U = Def(U)
  <2>. HIDE DEF Def
  <2>. QED  BY <1>6, <1>7
<1>. HIDE DEF U, v0
<1>9. \A d \in 0 .. n : U[d] = IF d = 0 THEN v0 ELSE next(U[d - 1], d)
  BY <1>8
<1>10. U[0] = v0 /\ \A d \in 1 .. n : U[d] = next(U[d - 1], d)
  <2>1. 0 \in 0 .. n /\ \A d \in 1 .. n : d \in 0 .. n /\ d # 0  BY <1>1
  <2>. HIDE DEF n
  <2>. QED  BY <1>9, <2>1
<1>11. \A d \in 0 .. n : U[d] \in V
  <2>. DEFINE T == {d \in 0 .. n : U[d] \in V}
  <2>1. 0 \in T  BY <1>1, <1>10
  <2>2. ASSUME NEW d \in 0 .. n - 1, d \in T PROVE d + 1 \in T
    <3>1. d + 1 \in 1 .. n /\ (d + 1) - 1 = d /\ d + 1 \in 0 .. n  BY <1>1
    <3>2. U[d + 1] = next(U[d], d + 1)
      <4>. HIDE DEF n
      <4>1. \A j \in 1 .. n : j - 1 = d => U[j] = next(U[d], j)
        BY <1>10
      <4>. QED  BY <3>1, <4>1, Zenon
    <3>3. U[d] \in V  BY <2>2
    <3>4. U[d + 1] \in V
      <4>. HIDE DEF V, n
      <4>. QED  BY <1>2, <3>1, <3>2, <3>3
    <3>. QED  BY <3>1, <3>4
  <2>3. \A d \in 0 .. n : d \in T
    <3>. HIDE DEF T, n
    <3>. QED  BY <1>1, <2>1, <2>2, CountingUp
  <2>. QED  BY <2>3
<1>12. U \in [0 .. n -> V]
  <2>1. U = [d \in 0 .. n |-> U[d]]
    <3>1. Def(U) = [d \in 0 .. n |-> U[d]]
      BY <1>8
    <3>. QED  BY <1>8, <3>1
  <2>. HIDE DEF n, V
  <2>. QED  BY <1>11, <2>1
<1>. QED  BY <1>10, <1>12 DEF U, v0, next

(* What a report knows after the last d epochs, k being the first of them.  *)
Covers(r, k, target) ==
  /\ r \in Reports
  /\ r.from \in k .. Len(epochs) + 1 /\ r.from >= 1
  /\ ~r.stopped => r.from = k /\ r.total.insts <= target
  /\ r.stopped => r.total.insts > target
  /\ Plus(TotalUpTo(epochs)[r.from - 1], r.total) = Total(epochs)
  /\ r.from <= Len(epochs) =>
       Total(epochs).insts - TotalUpTo(epochs)[r.from].insts <= target

(* Counting epoch k keeps what the report knows.                            *)
LEMMA CountedCovers ==
  ASSUME epochs \in Seq(Epoch), NEW target \in Nat, NEW r, NEW k \in 1 .. Len(epochs),
         Covers(r, k + 1, target)
  PROVE  Covers(Counted(r, k, target), k, target)
<1>. DEFINE n == Len(epochs)
            c == Counted(r, k, target)
            before(j) == TotalUpTo(epochs)[j]
<1>1. /\ n \in Nat /\ k \in Nat /\ k \in 1 .. n /\ epochs[k] \in Epoch
      /\ k - 1 \in 0 .. n /\ k \in 0 .. n
  OBVIOUS
<1>2. /\ r \in Reports /\ r.from \in k + 1 .. n + 1
      /\ ~r.stopped => r.from = k + 1 /\ r.total.insts <= target
      /\ r.stopped => r.total.insts > target
      /\ Plus(before(r.from - 1), r.total) = Total(epochs)
      /\ r.from <= n => Total(epochs).insts - before(r.from).insts <= target
  BY DEF Covers
<1>3. /\ c \in Reports
      /\ r.stopped => c = r
      /\ ~r.stopped => /\ c.from = k /\ c.total = Plus(r.total, epochs[k])
                       /\ c.stopped <=> c.total.insts > target
  <2>1. target \in Int  OBVIOUS
  <2>. QED  BY <1>1, <1>2, <2>1, CountedIs
<1>4. r.stopped \in BOOLEAN /\ r.total \in Epoch /\ c.stopped \in BOOLEAN /\ c.total \in Epoch
  BY <1>2, <1>3 DEF Reports
<1>5. /\ before(k) \in Epoch /\ before(k - 1) \in Epoch
      /\ before(k) = Plus(before(k - 1), epochs[k])
  BY <1>1, TotalRecursion
<1>. HIDE DEF c, before, n
<1>6. CASE r.stopped
  <2>1. c = r  BY <1>3, <1>6
  <2>2. r.from \in k .. n + 1 /\ r.from >= 1
    BY <1>1, <1>2
  <2>. QED  BY <1>2, <1>6, <2>1, <2>2 DEF Covers, c, n, before
<1>7. CASE ~r.stopped
  <2>1. /\ c.from = k /\ c.total = Plus(r.total, epochs[k])
        /\ c.stopped <=> c.total.insts > target
    BY <1>3, <1>7
  <2>2. r.from - 1 = k
    BY <1>1, <1>2, <1>7
  <2>3. Plus(before(k), r.total) = Total(epochs)
    BY <1>2, <2>2
  <2>4. Plus(before(k - 1), c.total) = Total(epochs)
    <3>1. Plus(before(k - 1), Plus(epochs[k], r.total))
            = Plus(Plus(before(k - 1), epochs[k]), r.total)
      BY <1>1, <1>4, <1>5, PlusAssociative
    <3>2. Plus(r.total, epochs[k]) = Plus(epochs[k], r.total)
      BY <1>1, <1>4, PlusAssociative
    <3>. QED  BY <1>5, <2>1, <2>3, <3>1, <3>2
  <2>5. Total(epochs).insts - before(k).insts <= target
    <3>1. Total(epochs).insts = before(k).insts + r.total.insts
      BY <1>4, <1>5, <2>3, PlusType
    <3>2. before(k).insts \in Nat /\ r.total.insts \in Nat
      BY <1>4, <1>5 DEF Epoch
    <3>3. r.total.insts <= target
      BY <1>2, <1>7
    <3>. QED  BY <3>1, <3>2, <3>3
  <2>6. c.total.insts \in Nat
    BY <1>4 DEF Epoch
  <2>7. ~c.stopped => c.total.insts <= target
    BY <2>1, <2>6
  <2>8. c.from \in k .. n + 1 /\ c.from >= 1
    BY <1>1, <2>1
  <2>. QED  BY <1>3, <2>1, <2>4, <2>5, <2>7, <2>8 DEF Covers, c, n, before
<1>. QED  BY <1>4, <1>6, <1>7

(* The report, when it has seen all epochs.                                 *)
LEMMA ReportCovers ==
  ASSUME epochs \in Seq(Epoch), Len(epochs) >= 1, NEW target \in Nat
  PROVE  Covers(Report(target), 1, target)
<1>. DEFINE n == Len(epochs)
            U == ReportAfter(target)
            T == {d \in Nat : Covers(U[d], n + 1 - d, target)}
<1>1. n \in Nat \ {0} /\ target \in Int /\ 0 \in 0 .. n /\ n \in 0 .. n
  OBVIOUS
<1>2. /\ U[0] = Nothing
      /\ \A d \in 1 .. n : U[d] = Counted(U[d - 1], n + 1 - d, target)
  BY <1>1, ReportRecursion
<1>3. 0 \in T
  <2>1. /\ Nothing \in Reports /\ Nothing.from = n + 1 /\ Nothing.stopped = FALSE
        /\ Nothing.total = NewEpoch /\ NewEpoch.insts = 0
    BY NewEpochZero DEF Nothing, Reports, NewEpoch
  <2>2. Plus(TotalUpTo(epochs)[n], NewEpoch) = Total(epochs)
    <3>1. TotalUpTo(epochs)[n] = Total(epochs) /\ Total(epochs) \in Epoch
      BY TotalLast DEF Total
    <3>. QED  BY <3>1, NewEpochZero
  <2>3. n + 1 - 0 = n + 1 /\ (n + 1) - 1 = n /\ ~(n + 1 <= n) /\ n + 1 \in n + 1 .. n + 1
        /\ n + 1 >= 1 /\ 0 <= target
    BY <1>1
  <2>. HIDE DEF n
  <2>4. Covers(Nothing, n + 1, target)
    BY <2>1, <2>2, <2>3 DEF Covers, n
  <2>. QED  BY <1>2, <2>3, <2>4
<1>4. ASSUME NEW d \in 0 .. n - 1, d \in T PROVE d + 1 \in T
  <2>. DEFINE k == n - d
  <2>1. /\ k \in 1 .. n /\ n + 1 - d = k + 1 /\ n + 1 - (d + 1) = k
        /\ d + 1 \in 1 .. n /\ (d + 1) - 1 = d /\ d + 1 \in Nat
    BY <1>1
  <2>2. Covers(U[d], k + 1, target)
    BY <1>4, <2>1
  <2>3. U[d + 1] = Counted(U[d], k, target)
    <3>. HIDE DEF n, U, k
    <3>1. \A j \in 1 .. n : j - 1 = d /\ n + 1 - j = k => U[j] = Counted(U[d], k, target)
      BY <1>2
    <3>. QED  BY <2>1, <3>1, Zenon
  <2>4. Covers(U[d + 1], k, target)
    <3>. HIDE DEF U, k
    <3>. QED  BY <2>1, <2>2, <2>3, CountedCovers
  <2>. HIDE DEF U, k, n
  <2>. QED  BY <2>1, <2>4
<1>5. n \in T
  <2>. HIDE DEF T, n
  <2>. QED  BY <1>1, <1>3, <1>4, CountingUp
<1>6. n + 1 - n = 1 /\ U[n] = Report(target)
  BY <1>1 DEF Report
<1>. QED  BY <1>5, <1>6

(* A report of output_periodic_info(), after any simulation, is the sum of  *)
(* as few of the last epochs as have more instructions than it is on.       *)
THEOREM MainReportCoversLast == MainSpec => []ReportCoversLast
<1>1. EpochInv /\ AddUp => ReportCoversLast
  <2>. SUFFICES ASSUME EpochInv, AddUp, finished
                PROVE  /\ \A target \in 0 .. num_inst :
                            LET report == Report(target)
                                before(k) == TotalUpTo(epochs)[k]
                            IN  /\ Plus(before(report.from - 1), report.total) = Total(epochs)
                                /\ report.total.insts > target \/ report.from = 1
                                /\ Total(epochs).insts - before(report.from).insts <= target
                       /\ Report(num_inst).total.cycles = cycle
    BY DEF ReportCoversLast
  <2>1. /\ epochs \in Seq(Epoch) /\ Len(epochs) >= 1 /\ num_inst \in Nat
        /\ Len(epochs) \in Nat
    BY DEF EpochInv, EpochTypeOK
  <2>2. Total(epochs).insts = num_inst /\ Total(epochs).cycles = cycle
    BY DEF AddUp
  <2>3. ASSUME NEW target \in 0 .. num_inst
        PROVE  LET report == Report(target)
                   before(k) == TotalUpTo(epochs)[k]
               IN  /\ Plus(before(report.from - 1), report.total) = Total(epochs)
                   /\ report.total.insts > target \/ report.from = 1
                   /\ Total(epochs).insts - before(report.from).insts <= target
    <3>. DEFINE r == Report(target)
    <3>1. target \in Nat
      BY <2>1
    <3>2. Covers(r, 1, target)
      BY <2>1, <3>1, ReportCovers
    <3>. HIDE DEF r
    <3>3. r.from \in 1 .. Len(epochs) + 1 /\ r.stopped \in BOOLEAN
      BY <3>2 DEF Covers, Reports
    <3>4. r.total.insts > target \/ r.from = 1
      BY <3>2, <3>3 DEF Covers
    <3>5. r.from <= Len(epochs)
      <4>1. CASE r.from = 1
        BY <2>1, <4>1
      <4>2. CASE r.from = Len(epochs) + 1
        <5>1. TotalUpTo(epochs)[Len(epochs)] = Total(epochs) /\ Total(epochs) \in Epoch
          BY <2>1, TotalLast DEF Total
        <5>2. r.total \in Epoch /\ Plus(Total(epochs), r.total) = Total(epochs)
          <6>1. r.from - 1 = Len(epochs)
            BY <2>1, <4>2
          <6>. QED  BY <3>2, <5>1, <6>1 DEF Covers, Reports
        <5>3. Total(epochs).insts + r.total.insts = Total(epochs).insts
          BY <5>1, <5>2, PlusType
        <5>4. r.total.insts = 0
          <6>1. r.total.insts \in Nat
            BY <5>2 DEF Epoch
          <6>. QED  BY <2>1, <2>2, <5>3, <6>1
        <5>. QED  BY <3>1, <3>4, <5>4, <2>1
      <4>. QED  BY <2>1, <3>3, <4>1, <4>2
    <3>. QED  BY <3>2, <3>4, <3>5 DEF Covers, r
  <2>4. Report(num_inst).total.cycles = cycle
    <3>. DEFINE r == Report(num_inst)
    <3>1. Covers(r, 1, num_inst)
      BY <2>1, ReportCovers
    <3>. HIDE DEF r
    <3>2. /\ r.from \in 1 .. Len(epochs) + 1 /\ r.total \in Epoch
          /\ Plus(TotalUpTo(epochs)[r.from - 1], r.total) = Total(epochs)
          /\ r.total.insts > num_inst \/ r.from = 1
      BY <3>1 DEF Covers, Reports
    <3>3. r.from - 1 \in 0 .. Len(epochs)
      BY <2>1, <3>2
    <3>4. TotalUpTo(epochs)[r.from - 1] \in Epoch
      BY <2>1, <3>3, TotalRecursion
    <3>5. Total(epochs).insts = TotalUpTo(epochs)[r.from - 1].insts + r.total.insts
      BY <3>2, <3>4, PlusType
    <3>6. r.from = 1
      <4>1. TotalUpTo(epochs)[r.from - 1].insts \in Nat /\ r.total.insts \in Nat
        BY <3>2, <3>4 DEF Epoch
      <4>. QED  BY <2>1, <2>2, <3>2, <3>5, <4>1
    <3>7. TotalUpTo(epochs)[0] = NewEpoch /\ r.from - 1 = 0
      BY <2>1, <3>6, TotalRecursion
    <3>8. r.total = Total(epochs)
      BY <3>2, <3>7, NewEpochZero
    <3>. QED  BY <2>2, <3>8 DEF r
  <2>. QED  BY <2>3, <2>4
<1>. QED  BY <1>1, EpochInvariance, AddUpAlways, MainImplementsEpochs, PTL

(* With a trace of the format, no assertion of readInstr(), of              *)
(* populateNewInstr() or of end_current_begin_new_epoch() fails.            *)
THEOREM MainNeverAborts == TraceFormat => (MainSpec => []NeverAborts)
<1>. SUFFICES ASSUME TraceFormat PROVE MainSpec => []NeverAborts
  OBVIOUS
<1>1. ~aborted /\ ~epoch_aborted => NeverAborts
  BY DEF NeverAborts
<1>2. Spec => []~aborted
  BY ReaderNeverAborts
<1>. QED  BY <1>1, <1>2, MainImplementsReader, EpochsTakeTime, PTL
=============================================================================
