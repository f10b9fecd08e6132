-------------------------- MODULE PredictorProofs --------------------------
(***************************************************************************)
(* Proofs about the tagged tables, for every number of tables, banks, tags *)
(* and branches, and about the flags and the graph of loads in flight, for *)
(* every set of registers, every size of the window and every trace.       *)
(*                                                                         *)
(* The loads in flight: the edges of the graph lead from the last load of  *)
(* a register to the last load of one that it reads, so that the walk over *)
(* the graph stays among the registers that a branch depends on.           *)
(*                                                                         *)
(* The tagged tables: the tables in use are found in different banks       *)
(* (BanksDiffer), so that the loop that allocates, of which RoundInv says  *)
(* what it has made of the tables it has looked at, never meets the entry  *)
(* that is trained afterwards.                                             *)
(***************************************************************************)
EXTENDS LoadDependence, Tage, FiniteSetTheorems, NaturalsInduction,
        WellFoundedInduction, TLAPS

-----------------------------------------------------------------------------
(* Numbers and recursion.                                                   *)

(* A set of numbers that is not empty has a least one.                      *)
LEMMA LeastNumber ==
  ASSUME NEW T \in SUBSET Nat, T # {}
  PROVE  \E x \in T : \A y \in T : x <= y
<1>1. PICK x \in T : \A y \in T : <<y, x>> \notin OpToRel(<, Nat)
  BY NatLessThanWellFounded, WFMin
<1>2. ASSUME NEW y \in T PROVE x <= y
  <2>1. <<y, x>> \in OpToRel(<, Nat) <=> y < x
    BY Zenon DEF OpToRel
  <2>2. ~(y < x)
    BY <1>1, <2>1, Zenon
  <2>. QED  BY <2>2
<1>. QED  BY <1>2

(* What holds of 0, and of the next number with each, holds up to n.        *)
LEMMA CountingUp ==
  ASSUME NEW n \in Nat, NEW T, 0 \in T, \A k \in 0 .. n - 1 : k \in T => k + 1 \in T
  PROVE  \A k \in 0 .. n : k \in T
<1>. DEFINE Bad == {k \in 0 .. n : k \notin T}
<1>1. SUFFICES ASSUME Bad # {} PROVE FALSE
  OBVIOUS
<1>2. PICK b \in Bad : \A y \in Bad : b <= y
  <2>1. Bad \in SUBSET Nat  OBVIOUS
  <2>. HIDE DEF Bad
  <2>. QED  BY <1>1, <2>1, LeastNumber
<1>3. b \in 0 .. n /\ b # 0 /\ b \notin T
  OBVIOUS
<1>4. b - 1 \in 0 .. n - 1 /\ b - 1 \notin Bad
  BY <1>2, <1>3
<1>. QED  BY <1>3, <1>4

(* A function that is defined by recursion over 1 .. n exists.              *)
Iterates(f, n, V, v0, G) ==
  f \in [0 .. n -> V] /\ f[0] = v0 /\ \A k \in 1 .. n : f[k] = G[k][f[k - 1]]

(* A recursion over 1 .. n has a solution.                                  *)
LEMMA RecursionExists ==
  ASSUME NEW n \in Nat, NEW V, NEW v0 \in V, NEW G \in [1 .. n -> [V -> V]]
  PROVE  \E f : Iterates(f, n, V, v0, G)
<1>. DEFINE Fits(m, f) == f[0] = v0 /\ \A k \in 1 .. m : f[k] = G[k][f[k - 1]]
            T == {m \in Nat : \E f \in [0 .. m -> V] : Fits(m, f)}
<1>1. 0 \in T
  <2>1. [k \in 0 .. 0 |-> v0] \in [0 .. 0 -> V] /\ Fits(0, [k \in 0 .. 0 |-> v0])
    OBVIOUS
  <2>. QED  BY <2>1
<1>2. ASSUME NEW m \in 0 .. n - 1, m \in T PROVE m + 1 \in T
  <2>1. PICK f \in [0 .. m -> V] : Fits(m, f)
    BY <1>2
  <2>. DEFINE g == [k \in 0 .. m + 1 |-> IF k <= m THEN f[k] ELSE G[m + 1][f[m]]]
  <2>2. g \in [0 .. m + 1 -> V]
    <3>1. G[m + 1] \in [V -> V] /\ f[m] \in V  OBVIOUS
    <3>2. G[m + 1][f[m]] \in V  BY <3>1
    <3>. QED  BY <3>2
  <2>3. g[0] = v0
    BY <2>1
  <2>4. ASSUME NEW k \in 1 .. m + 1 PROVE g[k] = G[k][g[k - 1]]
    <3>1. CASE k <= m
      <4>1. k \in 1 .. m /\ g[k] = f[k] /\ g[k - 1] = f[k - 1]  BY <3>1
      <4>. QED  BY <2>1, <4>1
    <3>2. CASE k = m + 1
      <4>1. g[k] = G[m + 1][f[m]] /\ g[k - 1] = f[m]  BY <3>2
      <4>. QED  BY <3>2, <4>1
    <3>. QED  BY <3>1, <3>2
  <2>5. Fits(m + 1, g)
    BY <2>3, <2>4
  <2>. HIDE DEF g, Fits
  <2>. QED  BY <2>2, <2>5
<1>3. n \in T
  <2>. HIDE DEF T
  <2>1. n \in 0 .. n  OBVIOUS
  <2>. QED  BY <1>1, <1>2, <2>1, CountingUp
<1>. QED  BY <1>3 DEF Iterates

(* No multiple of n lies strictly between 0 and n.                          *)
LEMMA NoMultiple ==
  ASSUME NEW n \in Nat \ {0}, NEW k \in Int
  PROVE  ~(0 < n * k /\ n * k < n)
<1>1. CASE k <= 0
  <2>1. n * k <= 0  BY <1>1, SMT
  <2>. QED  BY <2>1
<1>2. CASE k >= 1
  <2>1. PICK m \in Nat : k = m + 1
    <3>1. k - 1 \in Nat /\ k = (k - 1) + 1  BY <1>2
    <3>. QED  BY <3>1
  <2>2. n * k = n * m + n /\ n * m \in Nat
    BY <2>1
  <2>. QED  BY <2>2
<1>. QED  BY <1>1, <1>2

(* Quotient and remainder.                                                  *)
LEMMA Division ==
  ASSUME NEW n \in Nat \ {0}, NEW x \in Nat
  PROVE  x \div n \in Int /\ x % n \in 0 .. n - 1 /\ x = n * (x \div n) + (x % n)
OBVIOUS

(* Numbers that differ by less than n have different remainders.            *)
LEMMA NearRemainders ==
  ASSUME NEW n \in Nat \ {0}, NEW c \in Nat, NEW d \in Nat, c < d, d < c + n
  PROVE  d % n # c % n
<1>. DEFINE p == c \div n
            q == d \div n
<1>1. SUFFICES ASSUME d % n = c % n PROVE FALSE
  OBVIOUS
<1>2. p \in Int /\ q \in Int /\ c = n * p + (c % n) /\ d = n * q + (c % n) /\ c % n \in Int
  BY <1>1, Division
<1>. HIDE DEF p, q
<1>3. n * p \in Int /\ n * q \in Int /\ q - p \in Int
  BY <1>2
<1>4. n * (q - p) = n * q - n * p
  BY <1>2
<1>5. n * (q - p) = d - c
  BY <1>2, <1>3, <1>4
<1>. QED  BY <1>3, <1>5, NoMultiple

-----------------------------------------------------------------------------
(* Looking up.                                                              *)

GEntry == [ctr : -(CTRMAX + 1) .. CTRMAX, tag : Tags, u : 0 .. UMAX + U_incrment]
GTables == [Banks -> GEntry]
UseAltIndexes == (0 .. NHIST \div 8) \X BOOLEAN

(* What the assumption says of the constants, in the form that is cited.    *)
LEMMA Constants ==
  /\ NHIST \in Nat /\ NHIST >= 2 /\ BORN \in Nat /\ NBANKLOW \in Nat \ {0} /\ NBANKHIGH \in Nat \ {0}
  /\ U_incrment \in Nat /\ ALTMAX \in Nat /\ BORNTICK \in Nat \ {0} /\ MaxUpdates \in Nat
  /\ NOSKIP \subseteq 1 .. NHIST /\ IsFiniteSet(NOSKIP) /\ 0 \in Tags
<1>1. /\ NHIST \in Nat /\ NHIST >= 2 /\ BORN \in Nat
      /\ NBANKLOW \in Nat \ {0} /\ NBANKHIGH \in Nat \ {0}
      /\ U_incrment \in Nat /\ ALTMAX \in Nat /\ MaxUpdates \in Nat
  BY TageAssumption
<1>2. BORNTICK \in Nat \ {0} /\ NOSKIP \subseteq 1 .. NHIST /\ 0 \in Tags
  BY TageAssumption DEF Tables
<1>3. IsFiniteSet(1 .. NHIST)
  BY <1>1, FS_Interval
<1>4. IsFiniteSet(NOSKIP)
  BY <1>2, <1>3, FS_Subset
<1>. QED  BY <1>1, <1>2, <1>4

(* The tables that share banks get different ones.                          *)
Rank(i) == Cardinality({j \in Alike(i) : j < i})
BankCount(i) == IF Low(i) THEN NBANKLOW ELSE NBANKHIGH

(* A table has a rank among those it shares banks with, below their number. *)
LEMMA RankBounds ==
  ASSUME NEW i \in NOSKIP
  PROVE  Rank(i) \in Nat /\ Rank(i) < BankCount(i)
<1>. DEFINE before == {j \in Alike(i) : j < i}
<1>1. IsFiniteSet(Alike(i)) /\ before \subseteq Alike(i)
  BY Constants, FS_Subset DEF Alike
<1>2. i \in Alike(i) /\ i \notin before
  BY Constants DEF Alike
<1>3. Cardinality(before) <= Cardinality(Alike(i)) /\ Cardinality(before) # Cardinality(Alike(i))
  BY <1>1, <1>2, FS_Subset
<1>4. Cardinality(before) \in Nat /\ Cardinality(Alike(i)) \in Nat
  BY <1>1, FS_Subset, FS_CardinalityType
<1>5. Cardinality(Alike(i)) <= BankCount(i)
  BY TageAssumption DEF BankCount
<1>6. BankCount(i) \in Nat
  BY Constants DEF BankCount
<1>7. Rank(i) = Cardinality(before)
  BY DEF Rank
<1>. HIDE DEF before
<1>. QED  BY <1>3, <1>4, <1>5, <1>6, <1>7

(* Tables that share banks have different ranks, in their order.            *)
LEMMA RankGrows ==
  ASSUME NEW i \in NOSKIP, NEW k \in NOSKIP, Low(i) = Low(k), i < k
  PROVE  Rank(i) < Rank(k)
<1>. DEFINE b == {j \in Alike(i) : j < i}
            c == {j \in Alike(k) : j < k}
<1>1. Alike(i) = Alike(k)
  BY DEF Alike
<1>2. IsFiniteSet(c) /\ b \subseteq c /\ i \in c /\ i \notin b
  <2>1. c \subseteq NOSKIP  BY DEF Alike
  <2>2. IsFiniteSet(c)  BY <2>1, Constants, FS_Subset
  <2>3. i \in Alike(i)  BY DEF Alike
  <2>4. b \subseteq c
    <3>1. \A j \in NOSKIP : j < i => j < k  BY Constants
    <3>. QED  BY <1>1, <3>1 DEF Alike
  <2>. QED  BY <1>1, <2>2, <2>3, <2>4, Constants
<1>3. Cardinality(b) \in Nat /\ Cardinality(c) \in Nat
  BY <1>2, FS_Subset, FS_CardinalityType
<1>4. Cardinality(b) <= Cardinality(c) /\ Cardinality(b) # Cardinality(c)
  BY <1>2, FS_Subset
<1>5. Rank(i) = Cardinality(b) /\ Rank(k) = Cardinality(c)
  BY DEF Rank
<1>. HIDE DEF b, c
<1>. QED  BY <1>3, <1>4, <1>5

(* The inputs of a look-up.                                                 *)
Starts == [low : 0 .. NBANKLOW - 1, high : 0 .. NBANKHIGH - 1]

(* Tables in use are found in different banks.                              *)
LEMMA BanksDiffer ==
  ASSUME NEW T \in Starts, NEW i \in NOSKIP, NEW k \in NOSKIP, i < k
  PROVE  BankOf(i, T) # BankOf(k, T)
<1>1. BankOf(i, T) = IF Low(i) THEN <<"low", (T.low + Rank(i)) % NBANKLOW>>
                     ELSE <<"high", (T.high + Rank(i)) % NBANKHIGH>>
  BY DEF BankOf, Rank
<1>2. BankOf(k, T) = IF Low(k) THEN <<"low", (T.low + Rank(k)) % NBANKLOW>>
                     ELSE <<"high", (T.high + Rank(k)) % NBANKHIGH>>
  BY DEF BankOf, Rank
<1>3. CASE Low(i) # Low(k)
  <2>1. "low" # "high"  OBVIOUS
  <2>. QED  BY <1>1, <1>2, <1>3, <2>1 DEF Low
<1>4. CASE Low(i) = Low(k)
  <2>. DEFINE n == BankCount(i)
              t == IF Low(i) THEN T.low ELSE T.high
  <2>1. Rank(i) \in Nat /\ Rank(k) \in Nat /\ Rank(i) < Rank(k) /\ Rank(k) < n
    BY <1>4, RankBounds, RankGrows DEF BankCount
  <2>2. n \in Nat \ {0} /\ t \in Nat
    BY Constants DEF BankCount, Starts
  <2>3. (t + Rank(k)) % n # (t + Rank(i)) % n
    <3>. DEFINE c == t + Rank(i)
                d == t + Rank(k)
    <3>. HIDE DEF n, t
    <3>1. c \in Nat /\ d \in Nat /\ c < d /\ d < c + n
      BY <2>1, <2>2
    <3>. HIDE DEF c, d
    <3>2. d % n # c % n
      BY <2>2, <3>1, NearRemainders
    <3>. QED  BY <3>2 DEF c, d
  <2>4. Low(i) => BankOf(i, T)[2] = (t + Rank(i)) % n /\ BankOf(k, T)[2] = (t + Rank(k)) % n
    BY <1>1, <1>2, <1>4 DEF BankCount
  <2>5. ~Low(i) => BankOf(i, T)[2] = (t + Rank(i)) % n /\ BankOf(k, T)[2] = (t + Rank(k)) % n
    BY <1>1, <1>2, <1>4 DEF BankCount
  <2>. QED  BY <2>3, <2>4, <2>5
<1>. QED  BY <1>3, <1>4

(* The bank of a table exists.                                              *)
LEMMA BankIsBank ==
  ASSUME NEW T \in Starts, NEW i \in NOSKIP
  PROVE  BankOf(i, T) \in Banks
<1>1. Rank(i) \in Nat  BY RankBounds
<1>2. T.low + Rank(i) \in Nat /\ T.high + Rank(i) \in Nat
  BY <1>1 DEF Starts
<1>3. (T.low + Rank(i)) % NBANKLOW \in 0 .. NBANKLOW - 1
      /\ (T.high + Rank(i)) % NBANKHIGH \in 0 .. NBANKHIGH - 1
  BY <1>2, Constants
<1>. QED  BY <1>3 DEF BankOf, Rank, Banks

(* The longest of the matches that there are.                               *)
LEMMA LongestIs ==
  ASSUME NEW S \in SUBSET NOSKIP
  PROVE  /\ S = {} => Longest(S) = 0
         /\ S # {} => Longest(S) \in S /\ \A x \in S : x <= Longest(S)
<1>1. ASSUME S # {} PROVE \E x \in S : \A y \in S : x >= y
  <2>. DEFINE R == {NHIST - x : x \in S}
  <2>1. \A x \in S : x \in Nat /\ x <= NHIST
    BY Constants
  <2>2. R \in SUBSET Nat /\ R # {}
    <3>1. \A x \in S : NHIST - x \in Nat
      BY <2>1, Constants
    <3>. QED  BY <1>1, <3>1, Zenon
  <2>3. PICK r \in R : \A y \in R : r <= y
    <3>. HIDE DEF R
    <3>. QED  BY <2>2, LeastNumber
  <2>4. PICK x \in S : r = NHIST - x
    BY <2>3
  <2>5. \A y \in S : r <= NHIST - y
    BY <2>3
  <2>. QED  BY <2>1, <2>4, <2>5, Constants
<1>2. ASSUME S # {} PROVE Max(S) \in S /\ \A x \in S : x <= Max(S)
  <2>1. Max(S) \in S /\ \A y \in S : Max(S) >= y
    BY <1>1, <1>2 DEF Max
  <2>2. \A x \in S : x \in Nat  BY Constants
  <2>. QED  BY <2>1, <2>2
<1>. QED  BY <1>2 DEF Longest

GTAGs == [1 .. NHIST \div 2 -> Tags]
LookOK(look) ==
  /\ look.bank \in [NOSKIP -> Banks]
  /\ \A i, k \in NOSKIP : look.bank[i] = look.bank[k] => i = k
  /\ look.GTAG \in GTAGs
  /\ look.HitBank \in NOSKIP \cup {0} /\ look.AltBank \in NOSKIP \cup {0}
  /\ look.HitBank = 0 => look.AltBank = 0 /\ look.alttaken = look.LongestMatchPred
  /\ look.HitBank > 0 => look.AltBank < look.HitBank
  /\ look.LongestMatchPred \in BOOLEAN /\ look.alttaken \in BOOLEAN
  /\ look.HitBank > 0 => look.INDUSEALT \in UseAltIndexes

(* Every look-up finds the tables in different banks, and its matches among *)
(* the tables in use.                                                       *)
LEMMA LookUp ==
  ASSUME NEW T \in Starts, NEW GTAG \in GTAGs
  PROVE  LookOK(Tagepred(T, GTAG))
<1>. DEFINE look == Tagepred(T, GTAG)
            bank == [i \in NOSKIP |-> BankOf(i, T)]
            matches == {i \in NOSKIP : gtable[bank[i]].tag = GTAG[Pair(i)]}
            hit == Longest(matches)
            alt == Longest({i \in matches : i < hit})
            predicts(i) == IF i = 0 THEN BIM >= 2 ELSE gtable[bank[i]].ctr >= 0
            altConf == IF alt = 0 THEN BIM \in {0, 3}
                       ELSE Confidence(gtable[bank[alt]]) > 1
<1>1. /\ look.bank = bank /\ look.GTAG = GTAG /\ look.HitBank = hit /\ look.AltBank = alt
      /\ look.LongestMatchPred = predicts(hit)
      /\ look.alttaken = IF hit = 0 THEN predicts(hit) ELSE predicts(alt)
      /\ look.INDUSEALT = <<(hit - 1) \div 8, altConf>>
  BY DEF Tagepred
<1>2. bank \in [NOSKIP -> Banks]
  BY BankIsBank
<1>3. \A i, k \in NOSKIP : bank[i] = bank[k] => i = k
  <2>1. ASSUME NEW i \in NOSKIP, NEW k \in NOSKIP, i # k PROVE bank[i] # bank[k]
    <3>1. bank[i] = BankOf(i, T) /\ bank[k] = BankOf(k, T)  OBVIOUS
    <3>2. i < k \/ k < i  BY <2>1, Constants
    <3>. QED  BY <3>1, <3>2, BanksDiffer
  <2>. QED  BY <2>1
<1>4. matches \in SUBSET NOSKIP /\ {i \in matches : i < hit} \in SUBSET NOSKIP
  OBVIOUS
<1>5. hit \in NOSKIP \cup {0}
  <2>. HIDE DEF matches
  <2>. QED  BY <1>4, LongestIs
<1>6. alt \in NOSKIP \cup {0} /\ (alt = 0 \/ alt < hit)
  <2>. DEFINE S == {i \in matches : i < hit}
  <2>1. \A i \in S : i < hit  OBVIOUS
  <2>2. S \in SUBSET NOSKIP  BY <1>4
  <2>3. alt = Longest(S)  OBVIOUS
  <2>. HIDE DEF S, alt, hit
  <2>. QED  BY <2>1, <2>2, <2>3, LongestIs
<1>. HIDE DEF matches, hit, alt
<1>7. \A i \in NOSKIP : i \in Nat /\ 0 < i /\ i <= NHIST
  BY Constants
<1>8. hit = 0 => alt = 0
  BY <1>5, <1>6, <1>7
<1>9. hit > 0 => alt < hit
  BY <1>5, <1>6, <1>7
<1>10. predicts(hit) \in BOOLEAN /\ predicts(alt) \in BOOLEAN /\ altConf \in BOOLEAN
  <2>. HIDE DEF bank
  <2>1. (BIM >= 2) \in BOOLEAN /\ (BIM \in {0, 3}) \in BOOLEAN
    OBVIOUS
  <2>2. \A i : (gtable[bank[i]].ctr >= 0) \in BOOLEAN /\ (Confidence(gtable[bank[i]]) > 1) \in BOOLEAN
    OBVIOUS
  <2>. QED  BY <2>1, <2>2, Zenon
<1>11. hit > 0 => (hit - 1) \div 8 \in 0 .. NHIST \div 8
  BY <1>5, <1>7, Constants
<1>12. /\ look.LongestMatchPred \in BOOLEAN /\ look.alttaken \in BOOLEAN
       /\ hit = 0 => look.alttaken = look.LongestMatchPred
  <2>. HIDE DEF look, predicts
  <2>. QED  BY <1>1, <1>10
<1>13. hit > 0 => look.INDUSEALT \in UseAltIndexes
  <2>. HIDE DEF look, altConf
  <2>. QED  BY <1>1, <1>10, <1>11 DEF UseAltIndexes
<1>. HIDE DEF look, bank
<1>14. /\ look.bank \in [NOSKIP -> Banks]
       /\ \A i, k \in NOSKIP : look.bank[i] = look.bank[k] => i = k
  BY <1>1, <1>2, <1>3, Zenon
<1>15. look.GTAG \in GTAGs
  BY <1>1, Zenon
<1>16. /\ look.HitBank \in NOSKIP \cup {0} /\ look.AltBank \in NOSKIP \cup {0}
       /\ look.HitBank = 0 => look.AltBank = 0 /\ look.alttaken = look.LongestMatchPred
       /\ look.HitBank > 0 => look.AltBank < look.HitBank
       /\ look.HitBank > 0 => look.INDUSEALT \in UseAltIndexes
  BY <1>1, <1>5, <1>6, <1>8, <1>9, <1>12, <1>13, Zenon
<1>17. LookOK(look)
  BY <1>12, <1>14, <1>15, <1>16, Zenon DEF LookOK
<1>. QED  BY <1>17 DEF look


(* The longest match has a number.                                          *)
LEMMA HitNumber ==
  ASSUME NEW look, LookOK(look)
  PROVE  look.HitBank \in Nat
<1>1. \A i \in NOSKIP : i \in Nat
  BY Constants
<1>2. look.HitBank \in NOSKIP \cup {0}
  BY DEF LookOK
<1>. QED  BY <1>1, <1>2
-----------------------------------------------------------------------------
(* Allocation: the entries that were looked at (seen), and those taken.     *)

LoopStates ==
  [g : GTables, taken : SUBSET NOSKIP, T : Int, Penalty : Nat,
   skip : BOOLEAN, done : BOOLEAN]

Apart(S) == \A i \in S : \A j \in S \ {i} : Pair(i) - Pair(j) \notin {-1, 0, 1}
Replaceable(e) == e.u = 0 /\ Confidence(e) <= 3

(* What a state of the loop has made of the tables.                         *)
Changes(st, look, seen) ==
  /\ \A b \in Banks : st.g[b].u = gtable[b].u
  /\ \A b \in Banks : st.g[b].tag # gtable[b].tag => \E i \in st.taken : look.bank[i] = b
  /\ \A b \in Banks : (\A i \in seen : look.bank[i] # b) => st.g[b] = gtable[b]
(* What it has taken.                                                       *)
Takes(st, look, seen) ==
  /\ st.taken \subseteq seen
  /\ st.T = NNN - Cardinality(st.taken) /\ st.T >= -1 /\ (st.done <=> st.T < 0)
  /\ \A i \in st.taken : Replaceable(gtable[look.bank[i]])
  /\ Apart(st.taken)
(* What it has done instead.                                                *)
Attempts(st, look, seen) ==
  /\ st.taken = {} => ~st.skip /\ ~st.done
  /\ st.taken = {} /\ st.Penalty = 0 =>
       \A i \in seen : /\ gtable[look.bank[i]].u = 0
                       /\ Confidence(st.g[look.bank[i]]) < Confidence(gtable[look.bank[i]])
  /\ st.Penalty > 0 => \E i \in seen : gtable[look.bank[i]].u > 0

Progress(st, look, seen) ==
  /\ st \in LoopStates /\ seen \subseteq NOSKIP
  /\ Changes(st, look, seen) /\ Takes(st, look, seen) /\ Attempts(st, look, seen)

(* The entry that is examined: taken, made weaker, or left with a penalty.  *)
NewEntry(st, b, look, i, resolveDir) ==
  [ctr |-> IF resolveDir THEN 0 ELSE -1, tag |-> look.GTAG[Pair(i)], u |-> st.g[b].u]
WeakEntry(st, b) ==
  [ctr |-> Weakened(st.g[b].ctr), tag |-> st.g[b].tag, u |-> st.g[b].u]

(* The tables 2 * p - 1 and 2 * p make the pair p.                          *)
LEMMA PairNumber ==
  ASSUME NEW i \in NOSKIP
  PROVE  Pair(i) \in 1 .. NHIST \div 2 /\ 2 * Pair(i) \in {i, i + 1} /\ i \in 1 .. NHIST
<1>1. NHIST % 2 = 0  BY TageAssumption
<1>. QED  BY <1>1, Constants DEF Pair

(* An entry with new fields, written out.                                   *)
LEMMA EntryParts ==
  ASSUME NEW e \in GEntry
  PROVE  /\ \A x \in Tags : \A y \in -(CTRMAX + 1) .. CTRMAX :
              [e EXCEPT !.tag = x, !.ctr = y] = [ctr |-> y, tag |-> x, u |-> e.u]
         /\ [e EXCEPT !.ctr = Weakened(@)] = [ctr |-> Weakened(e.ctr), tag |-> e.tag, u |-> e.u]
<1>. DEFINE A == -(CTRMAX + 1) .. CTRMAX
            B == 0 .. UMAX + U_incrment
<1>1. e \in [ctr : A, tag : Tags, u : B]
  BY DEF GEntry
<1>. HIDE DEF A, B
<1>2. ASSUME NEW x \in Tags, NEW y \in A
      PROVE  [e EXCEPT !.tag = x, !.ctr = y] = [ctr |-> y, tag |-> x, u |-> e.u]
  <2>. DEFINE d == [e EXCEPT !.tag = x, !.ctr = y]
  <2>1. d \in [ctr : A, tag : Tags, u : B]
    BY <1>1
  <2>2. d.ctr = y /\ d.tag = x /\ d.u = e.u
    BY <1>1
  <2>. HIDE DEF d
  <2>3. d = [ctr |-> y, tag |-> x, u |-> e.u]
    BY <2>1, <2>2
  <2>. QED  BY <2>3 DEF d
<1>3. [e EXCEPT !.ctr = Weakened(@)] = [ctr |-> Weakened(e.ctr), tag |-> e.tag, u |-> e.u]
  BY <1>1
<1>. QED  BY <1>2, <1>3 DEF A

(* What looking at a table does, by cases.                                  *)
LEMMA ExamineCases ==
  ASSUME NEW st \in LoopStates, NEW look, LookOK(look), NEW i \in NOSKIP,
         NEW resolveDir \in BOOLEAN
  PROVE  LET b == look.bank[i]
             r == Examine(st, i, look, resolveDir)
         IN  /\ Allocates(st, b) =>
                  r = [g |-> [st.g EXCEPT ![b] = NewEntry(st, b, look, i, resolveDir)],
                       taken |-> st.taken \cup {i}, T |-> st.T - 1, Penalty |-> st.Penalty,
                       skip |-> st.T > 0, done |-> st.T <= 0]
             /\ ~Allocates(st, b) /\ st.g[b].u = 0 =>
                  r = [st EXCEPT !.g = [st.g EXCEPT ![b] = WeakEntry(st, b)]]
             /\ ~Allocates(st, b) /\ st.g[b].u # 0 =>
                  r = [st EXCEPT !.Penalty = st.Penalty + 1]
<1>. DEFINE b == look.bank[i]
            r == Examine(st, i, look, resolveDir)
<1>1. b \in Banks
  BY DEF LookOK
<1>2. st.g \in GTables /\ st.g[b] \in GEntry
  BY <1>1 DEF LoopStates, GTables
<1>3. st = [g |-> st.g, taken |-> st.taken, T |-> st.T, Penalty |-> st.Penalty,
            skip |-> st.skip, done |-> st.done]
  BY DEF LoopStates
<1>4. st.g[b] = [ctr |-> st.g[b].ctr, tag |-> st.g[b].tag, u |-> st.g[b].u]
  BY <1>2 DEF GEntry
<1>5. ASSUME Allocates(st, b)
      PROVE  r = [g |-> [st.g EXCEPT ![b] = NewEntry(st, b, look, i, resolveDir)],
                  taken |-> st.taken \cup {i}, T |-> st.T - 1, Penalty |-> st.Penalty,
                  skip |-> st.T > 0, done |-> st.T <= 0]
  <2>1. [st.g[b] EXCEPT !.tag = look.GTAG[Pair(i)], !.ctr = IF resolveDir THEN 0 ELSE -1]
          = NewEntry(st, b, look, i, resolveDir)
    <3>1. look.GTAG[Pair(i)] \in Tags
      BY PairNumber DEF LookOK, GTAGs
    <3>2. (IF resolveDir THEN 0 ELSE -1) \in -(CTRMAX + 1) .. CTRMAX
      BY DEF CTRMAX
    <3>. QED  BY <1>2, <3>1, <3>2, EntryParts DEF NewEntry
  <2>2. r = [st EXCEPT
              !.g[b] = [@ EXCEPT !.tag = look.GTAG[Pair(i)],
                                 !.ctr = IF resolveDir THEN 0 ELSE -1],
              !.taken = @ \cup {i}, !.T = @ - 1,
              !.done = st.T <= 0, !.skip = st.T > 0]
    BY <1>5 DEF Examine
  <2>. DEFINE more == st.T > 0
              over == st.T <= 0
  <2>3. r = [st EXCEPT
              !.g[b] = [@ EXCEPT !.tag = look.GTAG[Pair(i)],
                                 !.ctr = IF resolveDir THEN 0 ELSE -1],
              !.taken = @ \cup {i}, !.T = @ - 1, !.done = over, !.skip = more]
    BY <2>2
  <2>. HIDE DEF r, b, more, over
  <2>4. r = [g |-> [st.g EXCEPT ![b] = NewEntry(st, b, look, i, resolveDir)],
             taken |-> st.taken \cup {i}, T |-> st.T - 1, Penalty |-> st.Penalty,
             skip |-> more, done |-> over]
    BY <1>3, <2>1, <2>3
  <2>. QED  BY <2>4 DEF more, over
<1>6. ASSUME ~Allocates(st, b), st.g[b].u = 0
      PROVE  r = [st EXCEPT !.g = [st.g EXCEPT ![b] = WeakEntry(st, b)]]
  <2>1. [st.g[b] EXCEPT !.ctr = Weakened(@)] = WeakEntry(st, b)
    BY <1>2, EntryParts DEF WeakEntry
  <2>2. r = [st EXCEPT !.g[b].ctr = Weakened(@)]
    BY <1>6 DEF Examine
  <2>. HIDE DEF r, b
  <2>. QED  BY <1>3, <2>1, <2>2
<1>7. ASSUME ~Allocates(st, b), st.g[b].u # 0
      PROVE  r = [st EXCEPT !.Penalty = st.Penalty + 1]
  BY <1>7 DEF Examine
<1>. QED  BY <1>5, <1>6, <1>7

(* The fields of an entry, and that a sure one can be made less sure.       *)
LEMMA EntryTypes ==
  ASSUME NEW e \in GEntry
  PROVE  /\ e.ctr \in -4 .. 3 /\ e.tag \in Tags /\ e.u \in Nat /\ e.u <= UMAX + U_incrment
         /\ Confidence(e) \in Nat
         /\ Confidence(e) > 3 =>
              LET w == [ctr |-> Weakened(e.ctr), tag |-> e.tag, u |-> e.u]
              IN  w \in GEntry /\ Confidence(w) < Confidence(e)
<1>1. e.ctr \in -4 .. 3 /\ e.tag \in Tags /\ e.u \in 0 .. UMAX + U_incrment
  BY DEF GEntry, CTRMAX
<1>2. e.u \in Nat /\ e.u <= UMAX + U_incrment
  BY <1>1, Constants DEF UMAX
<1>3. Confidence(e) \in Nat
  BY <1>1 DEF Confidence
<1>4. ASSUME Confidence(e) > 3
      PROVE  LET w == [ctr |-> Weakened(e.ctr), tag |-> e.tag, u |-> e.u]
             IN  w \in GEntry /\ Confidence(w) < Confidence(e)
  <2>1. Weakened(e.ctr) \in -4 .. 3
    BY <1>1 DEF Weakened
  <2>2. [ctr |-> Weakened(e.ctr), tag |-> e.tag, u |-> e.u] \in GEntry
    BY <1>1, <2>1 DEF GEntry, CTRMAX
  <2>3. Confidence([ctr |-> Weakened(e.ctr), tag |-> e.tag, u |-> e.u]) < Confidence(e)
    BY <1>1, <1>4 DEF Weakened, Confidence
  <2>. QED  BY <2>2, <2>3
<1>. QED  BY <1>1, <1>2, <1>3, <1>4

(* An entry that has not been looked at yet is what it was.                 *)
LEMMA NotSeen ==
  ASSUME NEW look, LookOK(look), NEW st, NEW seen, Progress(st, look, seen),
         NEW i \in NOSKIP, i \notin seen
  PROVE  /\ look.bank[i] \in Banks /\ st.g[look.bank[i]] = gtable[look.bank[i]]
         /\ \A j \in seen : look.bank[j] # look.bank[i] /\ look.bank[j] \in Banks
<1>1. look.bank[i] \in Banks
  BY DEF LookOK
<1>2. \A j \in seen : j \in NOSKIP /\ j # i
  BY DEF Progress
<1>3. \A j \in seen : look.bank[j] # look.bank[i] /\ look.bank[j] \in Banks
  BY <1>2 DEF LookOK
<1>. QED  BY <1>1, <1>3 DEF Progress, Changes

(* One entry more has been looked at.                                       *)
Examined(st, r, look, now, i) ==
  /\ Progress(r, look, now)
  /\ \/ r.taken = st.taken /\ ~r.skip /\ ~r.done
     \/ r.taken = st.taken \cup {i} /\ r.taken # st.taken /\ (r.skip \/ r.done)

(* Looking at one more table, apart from those taken, keeps what is known.  *)
LEMMA ExamineProgress ==
  ASSUME gtable \in GTables, NEW look, LookOK(look), NEW st, NEW seen,
         Progress(st, look, seen), ~st.skip, ~st.done,
         NEW i \in NOSKIP, i \notin seen,
         \A j \in st.taken : Pair(i) - Pair(j) \notin {-1, 0, 1},
         NEW resolveDir \in BOOLEAN
  PROVE  Examined(st, Examine(st, i, look, resolveDir), look, seen \cup {i}, i)
<1>. DEFINE b == look.bank[i]
            r == Examine(st, i, look, resolveDir)
            now == seen \cup {i}
<1>1. st \in LoopStates /\ seen \subseteq NOSKIP /\ now \subseteq NOSKIP
  BY DEF Progress
<1>2. b \in Banks /\ st.g[b] = gtable[b] /\ \A j \in seen : look.bank[j] # b /\ look.bank[j] \in Banks
  BY NotSeen
<1>3. st.g \in GTables /\ st.g[b] \in GEntry /\ gtable[b] \in GEntry
  BY <1>1, <1>2 DEF LoopStates, GTables
<1>4. /\ \A c \in Banks : st.g[c].u = gtable[c].u
      /\ \A c \in Banks : st.g[c].tag # gtable[c].tag => \E j \in st.taken : look.bank[j] = c
      /\ \A c \in Banks : (\A j \in seen : look.bank[j] # c) => st.g[c] = gtable[c]
  BY DEF Progress, Changes
<1>5. /\ st.taken \subseteq seen
      /\ st.T = NNN - Cardinality(st.taken) /\ st.T >= -1 /\ (st.done <=> st.T < 0)
      /\ \A j \in st.taken : Replaceable(gtable[look.bank[j]])
      /\ Apart(st.taken)
  BY DEF Progress, Takes
<1>6. /\ st.taken = {} /\ st.Penalty = 0 =>
           \A j \in seen : /\ gtable[look.bank[j]].u = 0
                           /\ Confidence(st.g[look.bank[j]]) < Confidence(gtable[look.bank[j]])
      /\ st.Penalty > 0 => \E j \in seen : gtable[look.bank[j]].u > 0
  BY DEF Progress, Attempts
<1>7. st.T \in Int /\ st.Penalty \in Nat /\ st.taken \subseteq NOSKIP
      /\ st.skip \in BOOLEAN /\ st.done \in BOOLEAN
  BY <1>1 DEF LoopStates
<1>8. i \notin st.taken
  BY <1>5
<1>9. CASE Allocates(st, b)
  <2>. DEFINE e == NewEntry(st, b, look, i, resolveDir)
              more == st.T > 0
              over == st.T <= 0
  <2>1. r = [g |-> [st.g EXCEPT ![b] = e], taken |-> st.taken \cup {i}, T |-> st.T - 1,
             Penalty |-> st.Penalty, skip |-> more, done |-> over]
    BY <1>1, <1>9, ExamineCases
  <2>2. e \in GEntry /\ e.u = st.g[b].u
    <3>1. look.GTAG[Pair(i)] \in Tags
      BY PairNumber DEF LookOK, GTAGs
    <3>2. (IF resolveDir THEN 0 ELSE -1) \in -(CTRMAX + 1) .. CTRMAX
      BY DEF CTRMAX
    <3>3. st.g[b].u \in 0 .. UMAX + U_incrment
      BY <1>3 DEF GEntry
    <3>. QED  BY <3>1, <3>2, <3>3 DEF NewEntry, GEntry
  <2>. HIDE DEF e
  <2>3. r.g = [st.g EXCEPT ![b] = e] /\ r.taken = st.taken \cup {i} /\ r.T = st.T - 1
        /\ r.Penalty = st.Penalty /\ (r.skip <=> st.T > 0) /\ (r.done <=> st.T <= 0)
    <3>. HIDE DEF r, b, more, over
    <3>1. r.g = [st.g EXCEPT ![b] = e] /\ r.taken = st.taken \cup {i} /\ r.T = st.T - 1
          /\ r.Penalty = st.Penalty
      BY <2>1
    <3>2. r.skip = more /\ r.done = over
      BY <2>1
    <3>. QED  BY <3>1, <3>2 DEF more, over
  <2>4. r.g \in GTables /\ r.g[b] = e /\ \A c \in Banks \ {b} : r.g[c] = st.g[c]
    BY <1>2, <1>3, <2>2, <2>3 DEF GTables
  <2>5. r \in LoopStates
    <3>1. more \in BOOLEAN /\ over \in BOOLEAN  OBVIOUS
    <3>2. [st.g EXCEPT ![b] = e] \in GTables  BY <2>3, <2>4
    <3>3. st.taken \cup {i} \in SUBSET NOSKIP /\ st.T - 1 \in Int
      BY <1>7
    <3>. HIDE DEF more, over, r, b
    <3>. QED  BY <1>7, <2>1, <3>1, <3>2, <3>3 DEF LoopStates
  <2>. HIDE DEF r, b, more, over
  <2>6. Changes(r, look, now)
    <3>1. \A c \in Banks : r.g[c].u = gtable[c].u
      BY <1>2, <1>4, <2>2, <2>4
    <3>2. ASSUME NEW c \in Banks, r.g[c].tag # gtable[c].tag
          PROVE  \E j \in r.taken : look.bank[j] = c
      <4>1. CASE c = b  BY <2>3, <4>1 DEF b
      <4>2. CASE c # b
        <5>1. r.g[c] = st.g[c]  BY <2>4, <4>2
        <5>. QED  BY <1>4, <2>3, <3>2, <5>1
      <4>. QED  BY <4>1, <4>2
    <3>3. ASSUME NEW c \in Banks, \A j \in now : look.bank[j] # c PROVE r.g[c] = gtable[c]
      <4>1. c # b  BY <3>3 DEF b
      <4>. QED  BY <1>4, <2>4, <3>3, <4>1
    <3>. QED  BY <3>1, <3>2, <3>3 DEF Changes
  <2>7. Takes(r, look, now)
    <3>1. IsFiniteSet(st.taken)
      BY <1>7, Constants, FS_Subset
    <3>2. Cardinality(st.taken \cup {i}) = Cardinality(st.taken) + 1 /\ Cardinality(st.taken) \in Nat
      BY <1>8, <3>1, FS_AddElement, FS_CardinalityType
    <3>3. r.T = NNN - Cardinality(r.taken) /\ r.T >= -1 /\ (r.done <=> r.T < 0)
      BY <1>5, <1>7, <2>3, <3>2 DEF NNN
    <3>4. Replaceable(gtable[b])
      BY <1>2, <1>9 DEF Allocates, Replaceable
    <3>5. Apart(r.taken)
      <4>. SUFFICES ASSUME NEW j \in st.taken \cup {i}, NEW k \in (st.taken \cup {i}) \ {j}
                    PROVE  Pair(j) - Pair(k) \notin {-1, 0, 1}
        BY <2>3 DEF Apart
      <4>0. Pair(i) \in Int /\ \A m \in st.taken : Pair(m) \in Int
        BY <1>7, PairNumber
      <4>1. CASE j = i
        BY <4>1
      <4>2. CASE k = i
        <5>1. Pair(i) - Pair(j) \notin {-1, 0, 1} /\ Pair(j) \in Int  BY <4>0, <4>2
        <5>. QED  BY <4>0, <4>2, <5>1
      <4>3. CASE j # i /\ k # i
        BY <1>5, <4>3 DEF Apart
      <4>. QED  BY <4>1, <4>2, <4>3
    <3>6. \A j \in r.taken : Replaceable(gtable[look.bank[j]])
      BY <1>5, <2>3, <3>4 DEF b
    <3>7. r.taken \subseteq now
      BY <1>5, <2>3
    <3>. QED  BY <3>3, <3>5, <3>6, <3>7 DEF Takes
  <2>8. Attempts(r, look, now)
    BY <1>6, <2>3 DEF Attempts
  <2>9. r.taken # st.taken /\ (r.skip \/ r.done)
    BY <1>7, <1>8, <2>3
  <2>. QED  BY <1>1, <2>3, <2>5, <2>6, <2>7, <2>8, <2>9 DEF Progress, Examined, r
<1>10. CASE ~Allocates(st, b) /\ st.g[b].u = 0
  <2>. DEFINE e == WeakEntry(st, b)
  <2>1. r = [st EXCEPT !.g = [st.g EXCEPT ![b] = e]]
    BY <1>1, <1>10, ExamineCases
  <2>2. Confidence(st.g[b]) > 3
    <3>1. Confidence(st.g[b]) \in Nat  BY <1>3, EntryTypes
    <3>2. ~(Confidence(st.g[b]) <= 3)  BY <1>10 DEF Allocates
    <3>. HIDE DEF b
    <3>. QED  BY <3>1, <3>2
  <2>3. e \in GEntry /\ Confidence(e) < Confidence(st.g[b])
    BY <1>3, <2>2, EntryTypes DEF WeakEntry
  <2>4. e.u = st.g[b].u /\ e.tag = st.g[b].tag
    BY DEF WeakEntry
  <2>. HIDE DEF e
  <2>5. [st.g EXCEPT ![b] = e] \in GTables
    BY <1>2, <1>3, <2>3 DEF GTables
  <2>6. r \in LoopStates
    <3>. HIDE DEF r
    <3>. QED  BY <1>1, <2>1, <2>5 DEF LoopStates
  <2>7. r.g = [st.g EXCEPT ![b] = e] /\ r.taken = st.taken /\ r.T = st.T
        /\ r.Penalty = st.Penalty /\ r.skip = st.skip /\ r.done = st.done
    <3>. HIDE DEF r
    <3>. QED  BY <1>1, <2>1 DEF LoopStates
  <2>8. r.g[b] = e /\ \A c \in Banks \ {b} : r.g[c] = st.g[c]
    BY <1>2, <1>3, <2>7 DEF GTables
  <2>. HIDE DEF r, b
  <2>9. Changes(r, look, now)
    <3>1. \A c \in Banks : r.g[c].u = gtable[c].u
      BY <1>4, <2>4, <2>8
    <3>2. ASSUME NEW c \in Banks, r.g[c].tag # gtable[c].tag
          PROVE  \E j \in r.taken : look.bank[j] = c
      <4>1. r.g[c].tag = st.g[c].tag  BY <2>4, <2>8
      <4>. QED  BY <1>4, <2>7, <3>2, <4>1
    <3>3. ASSUME NEW c \in Banks, \A j \in now : look.bank[j] # c PROVE r.g[c] = gtable[c]
      <4>1. c # b  BY <3>3 DEF b
      <4>. QED  BY <1>4, <2>8, <3>3, <4>1
    <3>. QED  BY <3>1, <3>2, <3>3 DEF Changes
  <2>10. Takes(r, look, now)
    BY <1>5, <2>7 DEF Takes
  <2>11. Attempts(r, look, now)
    <3>1. ASSUME r.taken = {}, r.Penalty = 0, NEW j \in now
          PROVE  /\ gtable[look.bank[j]].u = 0
                 /\ Confidence(r.g[look.bank[j]]) < Confidence(gtable[look.bank[j]])
      <4>1. CASE j = i
        BY <1>2, <1>10, <2>3, <2>8, <4>1 DEF b
      <4>2. CASE j \in seen
        <5>1. r.g[look.bank[j]] = st.g[look.bank[j]]  BY <1>2, <2>8, <4>2
        <5>. QED  BY <1>6, <2>7, <3>1, <4>2, <5>1
      <4>. QED  BY <4>1, <4>2
    <3>. QED  BY <1>6, <2>7, <3>1 DEF Attempts
  <2>. QED  BY <1>1, <2>6, <2>7, <2>9, <2>10, <2>11 DEF Progress, Examined, r
<1>11. CASE ~Allocates(st, b) /\ st.g[b].u # 0
  <2>1. r = [st EXCEPT !.Penalty = st.Penalty + 1]
    BY <1>1, <1>11, ExamineCases
  <2>2. gtable[b].u > 0
    <3>1. gtable[b].u \in Nat  BY <1>3, EntryTypes
    <3>2. gtable[b].u # 0  BY <1>2, <1>11
    <3>. HIDE DEF b
    <3>. QED  BY <3>1, <3>2
  <2>. HIDE DEF r
  <2>3. r.g = st.g /\ r.taken = st.taken /\ r.T = st.T /\ r.Penalty = st.Penalty + 1
        /\ r.skip = st.skip /\ r.done = st.done
    BY <1>1, <2>1 DEF LoopStates
  <2>4. r \in LoopStates
    BY <1>1, <2>1 DEF LoopStates
  <2>. HIDE DEF b
  <2>5. Changes(r, look, now)
    BY <1>4, <2>3 DEF Changes
  <2>6. Takes(r, look, now)
    BY <1>5, <2>3 DEF Takes
  <2>7. Attempts(r, look, now)
    BY <1>7, <2>2, <2>3 DEF Attempts, b
  <2>. QED  BY <1>1, <2>3, <2>4, <2>5, <2>6, <2>7 DEF Progress, Examined, r
<1>. QED  BY <1>9, <1>10, <1>11

-----------------------------------------------------------------------------
(* The rounds of the loop.  Each looks at a pair of tables, and the pairs   *)
(* come in order, whichever table of a pair comes first.                    *)

(* The same for any number, of a table in use or not.                       *)
LEMMA ExamineOne ==
  ASSUME gtable \in GTables, NEW look, LookOK(look), NEW st, NEW seen,
         Progress(st, look, seen), ~st.skip, ~st.done,
         NEW i \in Nat, i \notin seen,
         \A j \in st.taken : Pair(i) - Pair(j) \notin {-1, 0, 1},
         NEW resolveDir \in BOOLEAN
  PROVE  Examined(st, Examine(st, i, look, resolveDir), look, seen \cup ({i} \cap NOSKIP), i)
<1>1. CASE i \in NOSKIP
  <2>1. {i} \cap NOSKIP = {i}  BY <1>1
  <2>. QED  BY <1>1, <2>1, ExamineProgress, Zenon
<1>2. CASE i \notin NOSKIP
  <2>1. Examine(st, i, look, resolveDir) = st
    BY <1>2 DEF Examine
  <2>2. seen \cup ({i} \cap NOSKIP) = seen  BY <1>2
  <2>. QED  BY <2>1, <2>2, Zenon DEF Examined
<1>. QED  BY <1>1, <1>2

(* The tables in the pairs first + 1 .. first + n.                          *)
PairsUpTo(first, n) == {i \in NOSKIP : i > 2 * first /\ Pair(i) <= first + n}

RoundInv(st, look, first, n) ==
  \E seen \in SUBSET PairsUpTo(first, n) :
    /\ Progress(st, look, seen)
    /\ st.taken = {} => seen = PairsUpTo(first, n)
    /\ ~st.skip /\ ~st.done => \A j \in st.taken : Pair(j) < first + n

(* The tables of a round.                                                   *)
Neighbour(I) == IF I % 2 = 0 THEN I + 2 ELSE I
PairIs(I, other, first, n) ==
  /\ I + 1 \in Nat /\ other \in Nat /\ I + 1 # other
  /\ Pair(I + 1) = first + n + 1 /\ Pair(other) = first + n + 1
  /\ PairsUpTo(first, n + 1) =
       PairsUpTo(first, n) \cup ({I + 1} \cap NOSKIP) \cup ({other} \cap NOSKIP)

(* A round looks at the next pair of tables.                                *)
LEMMA PairOfRound ==
  ASSUME NEW first \in Nat, NEW bit \in {0, 1}, NEW n \in Nat
  PROVE  LET I == 2 * first + bit + 2 * n
         IN  PairIs(I, Neighbour(I), first, n)
<1>. DEFINE I == 2 * first + bit + 2 * n
            other == Neighbour(I)
            p == first + n + 1
<1>1. /\ I + 1 \in Nat /\ other \in Nat
      /\ (I + 1 = 2 * p - 1 /\ other = 2 * p) \/ (I + 1 = 2 * p /\ other = 2 * p - 1)
  <2>1. CASE bit = 0
    <3>1. I = 2 * (first + n) /\ I % 2 = 0  BY <2>1
    <3>. QED  BY <3>1 DEF Neighbour
  <2>2. CASE bit = 1
    <3>1. I = 2 * (first + n) + 1 /\ I % 2 = 1  BY <2>2
    <3>. QED  BY <3>1 DEF Neighbour
  <2>. QED  BY <2>1, <2>2
<1>2. Pair(2 * p - 1) = p /\ Pair(2 * p) = p
  BY DEF Pair
<1>3. \A i \in Nat : Pair(i) \in Int /\ (Pair(i) = p <=> i = 2 * p - 1 \/ i = 2 * p)
  BY DEF Pair
<1>4. \A i \in NOSKIP : i \in Nat
  BY Constants
<1>5. 2 * p - 1 > 2 * first /\ 2 * p > 2 * first /\ first + (n + 1) = p
  OBVIOUS
<1>. HIDE DEF I, other
<1>6. \A i \in NOSKIP : i \in PairsUpTo(first, n + 1) <=>
        i \in PairsUpTo(first, n) \/ i = I + 1 \/ i = other
  <2>. SUFFICES ASSUME NEW i \in NOSKIP
                PROVE  i \in PairsUpTo(first, n + 1) <=>
                         i \in PairsUpTo(first, n) \/ i = I + 1 \/ i = other
    OBVIOUS
  <2>1. i \in PairsUpTo(first, n + 1) <=> i > 2 * first /\ Pair(i) <= p
    BY <1>5 DEF PairsUpTo
  <2>2. i \in PairsUpTo(first, n) <=> i > 2 * first /\ Pair(i) < p
    BY <1>3, <1>4 DEF PairsUpTo
  <2>3. Pair(i) = p <=> i = I + 1 \/ i = other
    BY <1>1, <1>3, <1>4
  <2>4. i = I + 1 \/ i = other => i > 2 * first
    BY <1>1, <1>5
  <2>5. Pair(i) \in Int  BY <1>3, <1>4
  <2>. HIDE DEF p
  <2>6. Pair(i) <= p <=> Pair(i) < p \/ Pair(i) = p
    BY <2>5 DEF p
  <2>. QED  BY <2>1, <2>2, <2>3, <2>4, <2>6
<1>7. PairsUpTo(first, n + 1) \subseteq NOSKIP /\ PairsUpTo(first, n) \subseteq NOSKIP
  BY DEF PairsUpTo
<1>8. PairsUpTo(first, n + 1) =
        PairsUpTo(first, n) \cup ({I + 1} \cap NOSKIP) \cup ({other} \cap NOSKIP)
  BY <1>6, <1>7
<1>9. Pair(I + 1) = p /\ Pair(other) = p
  BY <1>1, <1>2
<1>10. I + 1 # other /\ I + 1 \in Nat /\ other \in Nat
  BY <1>1
<1>. HIDE DEF p
<1>11. PairIs(I, other, first, n)
  BY <1>8, <1>9, <1>10 DEF PairIs, p
<1>. QED  BY <1>11 DEF I, other

(* A round of the loop keeps the invariant of the rounds.                   *)
LEMMA IterateKeeps ==
  ASSUME gtable \in GTables, NEW look, LookOK(look), NEW st, NEW first \in Nat,
         NEW bit \in {0, 1}, NEW n \in Nat, RoundInv(st, look, first, n),
         NEW resolveDir \in BOOLEAN
  PROVE  RoundInv(Iterate(st, 2 * first + bit + 2 * n, look, resolveDir), look, first, n + 1)
<1>. DEFINE I == 2 * first + bit + 2 * n
            other == Neighbour(I)
            one == Examine(st, I + 1, look, resolveDir)
            r == Iterate(st, I, look, resolveDir)
            before == PairsUpTo(first, n)
            after == PairsUpTo(first, n + 1)
<1>1. /\ I + 1 \in Nat /\ other \in Nat /\ I + 1 # other
      /\ Pair(I + 1) = first + n + 1 /\ Pair(other) = first + n + 1
      /\ after = before \cup ({I + 1} \cap NOSKIP) \cup ({other} \cap NOSKIP)
  <2>1. PairIs(I, other, first, n)
    BY PairOfRound
  <2>. HIDE DEF I, other
  <2>. QED  BY <2>1 DEF PairIs
<1>2. PICK seen \in SUBSET before :
        /\ Progress(st, look, seen)
        /\ st.taken = {} => seen = before
        /\ ~st.skip /\ ~st.done => \A j \in st.taken : Pair(j) < first + n
  BY DEF RoundInv
<1>3. \A j \in before : Pair(j) \in Int /\ Pair(j) < first + n + 1
  BY PairNumber DEF PairsUpTo
<1>4. st.taken \subseteq seen /\ (st.taken = {} => ~st.skip /\ ~st.done)
  BY <1>2 DEF Progress, Takes, Attempts
<1>5. r = IF st.done THEN st
          ELSE IF st.skip THEN [st EXCEPT !.skip = FALSE]
          ELSE IF one.taken # st.taken THEN one
          ELSE Examine(one, other, look, resolveDir)
  BY DEF Iterate, Neighbour
<1>6. seen \in SUBSET after
  BY <1>1, <1>2
<1>. HIDE DEF I, other, one, before, after
<1>7. SUFFICES RoundInv(r, look, first, n + 1)
  BY DEF I
<1>. HIDE DEF r
<1>8. CASE st.done
  BY <1>2, <1>4, <1>5, <1>6, <1>8 DEF RoundInv, after
<1>9. CASE ~st.done /\ st.skip
  <2>1. r = [st EXCEPT !.skip = FALSE]
    BY <1>5, <1>9
  <2>2. st \in LoopStates
    BY <1>2 DEF Progress
  <2>3. r \in LoopStates /\ r.g = st.g /\ r.taken = st.taken /\ r.T = st.T
        /\ r.Penalty = st.Penalty /\ r.done = st.done
    BY <2>1, <2>2 DEF LoopStates
  <2>4. Progress(r, look, seen)
    BY <1>2, <1>4, <1>9, <2>3 DEF Progress, Changes, Takes, Attempts
  <2>5. \A j \in r.taken : Pair(j) < first + (n + 1)
    BY <1>2, <1>3, <1>4, <2>3
  <2>6. r.taken # {}  BY <1>4, <1>9, <2>3
  <2>. QED  BY <1>6, <2>4, <2>5, <2>6 DEF RoundInv, after
<1>10. CASE ~st.done /\ ~st.skip
  <2>1. \A j \in st.taken : Pair(j) \in Int /\ Pair(j) < first + n
    BY <1>2, <1>3, <1>4, <1>10
  <2>2. \A j \in st.taken : /\ Pair(I + 1) - Pair(j) \notin {-1, 0, 1}
                            /\ Pair(other) - Pair(j) \notin {-1, 0, 1}
    BY <1>1, <2>1
  <2>3. I + 1 \notin before /\ other \notin before
    BY <1>1, <1>3
  <2>4. /\ Progress(one, look, seen \cup ({I + 1} \cap NOSKIP))
        /\ \/ one.taken = st.taken /\ ~one.skip /\ ~one.done
           \/ one.taken # st.taken /\ (one.skip \/ one.done) /\ one.taken = st.taken \cup {I + 1}
    <3>. DEFINE i == I + 1
    <3>1. i \notin seen  BY <1>2, <2>3
    <3>2. \A j \in st.taken : Pair(i) - Pair(j) \notin {-1, 0, 1}  BY <2>2
    <3>3. i \in Nat /\ one = Examine(st, i, look, resolveDir)
      BY <1>1 DEF one
    <3>. HIDE DEF i
    <3>4. Examined(st, one, look, seen \cup ({i} \cap NOSKIP), i)
      BY <1>2, <1>10, <3>1, <3>2, <3>3, ExamineOne
    <3>. QED  BY <3>4 DEF Examined, i
  <2>5. CASE one.taken # st.taken
    <3>1. r = one  BY <1>5, <1>10, <2>5
    <3>2. seen \cup ({I + 1} \cap NOSKIP) \in SUBSET after
      BY <1>1, <1>6
    <3>3. one.taken # {} /\ (one.skip \/ one.done)
      BY <2>4, <2>5
    <3>. QED  BY <2>4, <3>1, <3>2, <3>3 DEF RoundInv, after
  <2>6. CASE one.taken = st.taken
    <3>. DEFINE mid == seen \cup ({I + 1} \cap NOSKIP)
                new == mid \cup ({other} \cap NOSKIP)
    <3>1. r = Examine(one, other, look, resolveDir)
      BY <1>5, <1>10, <2>6
    <3>2. other \notin mid
      BY <1>1, <1>2, <2>3
    <3>3. \A j \in one.taken : Pair(other) - Pair(j) \notin {-1, 0, 1}
      BY <2>2, <2>6
    <3>4. ~one.skip /\ ~one.done /\ Progress(one, look, mid)
      BY <2>4, <2>6
    <3>. HIDE DEF mid
    <3>5. /\ Progress(r, look, new)
          /\ \/ r.taken = one.taken /\ ~r.skip /\ ~r.done
             \/ r.taken # one.taken /\ (r.skip \/ r.done) /\ r.taken = one.taken \cup {other}
      <4>1. Examined(one, r, look, mid \cup ({other} \cap NOSKIP), other)
        BY <1>1, <3>1, <3>2, <3>3, <3>4, ExamineOne
      <4>. QED  BY <4>1 DEF Examined
    <3>6. new \in SUBSET after
      BY <1>1, <1>6 DEF mid
    <3>7. st.taken = {} => new = after
      BY <1>1, <1>2 DEF mid
    <3>8. r.taken = {} => st.taken = {}
      BY <2>6, <3>5
    <3>9. ~r.skip /\ ~r.done => \A j \in r.taken : Pair(j) < first + (n + 1)
      BY <2>1, <2>6, <3>5
    <3>. HIDE DEF new
    <3>. QED  BY <3>5, <3>6, <3>7, <3>8, <3>9 DEF RoundInv, after
  <2>. QED  BY <2>5, <2>6
<1>. QED  BY <1>8, <1>9, <1>10


-----------------------------------------------------------------------------
(* The whole loop.                                                          *)

(* Before the first round nothing was looked at.                            *)
LEMMA StartState ==
  ASSUME gtable \in GTables, NEW look, LookOK(look), NEW first \in Nat
  PROVE  Start \in LoopStates /\ RoundInv(Start, look, first, 0)
<1>1. Start \in LoopStates
  <2>1. NNN \in Int /\ {} \in SUBSET NOSKIP /\ 0 \in Nat
    BY DEF NNN
  <2>. QED  BY <2>1 DEF Start, LoopStates
<1>2. /\ Start.g = gtable /\ Start.taken = {} /\ Start.T = 1 /\ Start.Penalty = 0
      /\ ~Start.skip /\ ~Start.done
  BY DEF Start, NNN
<1>3. PairsUpTo(first, 0) = {}
  <2>1. \A i \in NOSKIP : i \in Nat
    BY Constants
  <2>2. ASSUME NEW i \in Nat, i > 2 * first PROVE ~(Pair(i) <= first + 0)
    BY <2>2 DEF Pair
  <2>. QED  BY <2>1, <2>2 DEF PairsUpTo
<1>4. Changes(Start, look, {})
  BY <1>2 DEF Changes
<1>5. Takes(Start, look, {})
  <2>1. Cardinality({}) = 0  BY FS_EmptySet
  <2>2. Start.T = NNN - Cardinality(Start.taken) /\ Start.T >= -1 /\ (Start.done <=> Start.T < 0)
    BY <1>2, <2>1 DEF NNN
  <2>. QED  BY <1>2, <2>2 DEF Takes, Apart
<1>6. Attempts(Start, look, {})
  BY <1>2 DEF Attempts
<1>7. Progress(Start, look, {})
  BY <1>1, <1>4, <1>5, <1>6 DEF Progress
<1>. QED  BY <1>1, <1>2, <1>3, <1>7 DEF RoundInv

(* A function that steps as the loop does keeps the invariant of its rounds. *)
LEMMA RoundsKeep ==
  ASSUME gtable \in GTables, NEW look, LookOK(look), NEW first \in Nat,
         NEW bit \in {0, 1}, NEW n \in Nat, NEW resolveDir \in BOOLEAN,
         NEW f, f[0] = Start,
         \A k \in 0 .. n - 1 : RoundInv(f[k], look, first, k) =>
           f[k + 1] = Iterate(f[k], 2 * first + bit + 2 * k, look, resolveDir)
  PROVE  \A k \in 0 .. n : RoundInv(f[k], look, first, k)
<1>. DEFINE S == {k \in 0 .. n : RoundInv(f[k], look, first, k)}
<1>1. 0 \in S
  BY StartState
<1>2. ASSUME NEW k \in 0 .. n - 1, k \in S PROVE k + 1 \in S
  <2>1. RoundInv(f[k], look, first, k) /\ k \in Nat /\ k + 1 \in 0 .. n
    BY <1>2
  <2>2. RoundInv(Iterate(f[k], 2 * first + bit + 2 * k, look, resolveDir), look, first, k + 1)
    BY <2>1, IterateKeeps
  <2>3. RoundInv(f[k + 1], look, first, k + 1)
    BY <2>1, <2>2
  <2>. QED  BY <2>1, <2>3
<1>3. \A k \in 0 .. n : k \in S
  <2>. HIDE DEF S
  <2>. QED  BY <1>1, <1>2, CountingUp
<1>. QED  BY <1>3

(* The invariant of the rounds is about states of the loop.                 *)
LEMMA RoundIsState ==
  ASSUME NEW st, NEW look, NEW first, NEW n, RoundInv(st, look, first, n)
  PROVE  st \in LoopStates
BY DEF RoundInv, Progress

(* The number of rounds.                                                    *)
LEMMA RoundsCount ==
  ASSUME NEW dep \in Nat
  PROVE  Rounds(dep) \in Nat
BY Constants DEF Rounds

(* From each state there is a function that steps as the loop does.          *)
Steps(f, s, n, look, dep, resolveDir) ==
  /\ f \in [0 .. n -> LoopStates] /\ f[0] = s
  /\ \A k \in 1 .. n :
       LET next == Iterate(f[k - 1], dep + 2 * (k - 1), look, resolveDir)
       IN  next \in LoopStates => f[k] = next

(* There is such a sequence of rounds.                                      *)
LEMMA StepsExist ==
  ASSUME NEW s \in LoopStates, NEW n \in Nat, NEW look, NEW dep, NEW resolveDir
  PROVE  \E f : Steps(f, s, n, look, dep, resolveDir)
<1>. DEFINE V == LoopStates
            Step(v, k) == Iterate(v, dep + 2 * (k - 1), look, resolveDir)
            G == [k \in 1 .. n |-> [v \in V |-> IF Step(v, k) \in V THEN Step(v, k) ELSE s]]
<1>1. G \in [1 .. n -> [V -> V]]
  <2>. HIDE DEF Step, V
  <2>1. s \in V  BY DEF V
  <2>. QED  BY <2>1
<1>2. PICK f : Iterates(f, n, V, s, G)
  <2>1. s \in V  OBVIOUS
  <2>. HIDE DEF G, V
  <2>. QED  BY <1>1, <2>1, RecursionExists, Zenon
<1>3. ASSUME NEW k \in 1 .. n, Step(f[k - 1], k) \in V PROVE f[k] = Step(f[k - 1], k)
  <2>1. f[k - 1] \in V  BY <1>2 DEF Iterates
  <2>2. G[k] = [v \in V |-> IF Step(v, k) \in V THEN Step(v, k) ELSE s]  OBVIOUS
  <2>. HIDE DEF G, V, Step
  <2>. QED  BY <1>2, <1>3, <2>1, <2>2 DEF Iterates
<1>. QED  BY <1>2, <1>3 DEF Iterates, Steps

(* The loop is defined: the states after its rounds are those of Iterate.   *)
LEMMA LoopRecursion ==
  ASSUME gtable \in GTables, NEW look, LookOK(look), NEW first \in Nat,
         NEW bit \in {0, 1}, NEW resolveDir \in BOOLEAN
  PROVE  LET dep == 2 * first + bit
             U == AfterRounds(look, resolveDir, dep)
         IN  /\ U[0] = Start
             /\ \A k \in 0 .. Rounds(dep) - 1 :
                  U[k + 1] = Iterate(U[k], dep + 2 * k, look, resolveDir)
<1>. DEFINE dep == 2 * first + bit
            n == Rounds(dep)
            V == LoopStates
            Step(v, k) == Iterate(v, dep + 2 * (k - 1), look, resolveDir)
            Def(g) == [k \in 0 .. n |-> IF k = 0 THEN Start ELSE Step(g[k - 1], k)]
<1>0. dep \in Nat
  OBVIOUS
<1>1. n \in Nat /\ Start \in V
  BY <1>0, StartState, RoundsCount
<1>2. PICK f : Steps(f, Start, n, look, dep, resolveDir)
  <2>1. \E f : Steps(f, Start, n, look, dep, resolveDir)
    <3>. HIDE DEF n, dep
    <3>. QED  BY <1>1, StepsExist, Zenon
  <2>. QED  BY <2>1, Zenon
<1>3. f \in [0 .. n -> V] /\ f[0] = Start
  <2>. HIDE DEF n, dep
  <2>. QED  BY <1>2 DEF Steps
<1>4. \A k \in 1 .. n : Step(f[k - 1], k) \in V => f[k] = Step(f[k - 1], k)
  <2>. HIDE DEF n, dep
  <2>. QED  BY <1>2 DEF Steps
<1>5. \A k \in 0 .. n - 1 : RoundInv(f[k], look, first, k) =>
        f[k + 1] = Iterate(f[k], dep + 2 * k, look, resolveDir)
  <2>1. ASSUME NEW k \in 0 .. n - 1, RoundInv(f[k], look, first, k)
        PROVE  f[k + 1] = Iterate(f[k], dep + 2 * k, look, resolveDir)
    <3>1. k \in Nat /\ k + 1 \in 1 .. n /\ (k + 1) - 1 = k
      BY <1>1
    <3>2. RoundInv(Iterate(f[k], 2 * first + bit + 2 * k, look, resolveDir), look, first, k + 1)
      BY <2>1, <3>1, IterateKeeps
    <3>3. Iterate(f[k], dep + 2 * k, look, resolveDir) \in V
      BY <3>2, RoundIsState
    <3>4. Step(f[k], k + 1) = Iterate(f[k], dep + 2 * k, look, resolveDir)
      BY <3>1
    <3>5. Step(f[(k + 1) - 1], k + 1) \in V => f[k + 1] = Step(f[(k + 1) - 1], k + 1)
      <4>. HIDE DEF Step, V, n
      <4>. QED  BY <1>4, <3>1
    <3>. HIDE DEF Step, V, n
    <3>. QED  BY <3>1, <3>3, <3>4, <3>5
  <2>. HIDE DEF n, dep
  <2>. QED  BY <2>1
<1>6. \A k \in 0 .. n : RoundInv(f[k], look, first, k)
  <2>1. \A k \in 0 .. n - 1 : RoundInv(f[k], look, first, k) =>
          f[k + 1] = Iterate(f[k], 2 * first + bit + 2 * k, look, resolveDir)
    BY <1>5
  <2>. HIDE DEF n
  <2>. QED  BY <1>1, <1>3, <2>1, RoundsKeep
<1>7. f = Def(f)
  <2>1. \A k \in 1 .. n : f[k] = Step(f[k - 1], k)
    <3>1. ASSUME NEW k \in 1 .. n PROVE f[k] = Step(f[k - 1], k)
      <4>1. k - 1 \in 0 .. n - 1 /\ k - 1 \in 0 .. n /\ (k - 1) + 1 = k
        BY <1>1
      <4>2. f[(k - 1) + 1] = Iterate(f[k - 1], dep + 2 * (k - 1), look, resolveDir)
        <5>. HIDE DEF n, dep
        <5>. QED  BY <1>5, <1>6, <4>1
      <4>. QED  BY <4>1, <4>2
    <3>. HIDE DEF n, Step
    <3>. QED  BY <3>1
  <2>. HIDE DEF n, V, Step
  <2>2. \A k \in 0 .. n : f[k] = IF k = 0 THEN Start ELSE Step(f[k - 1], k)
    <3>1. \A k \in 0 .. n : k = 0 \/ k \in 1 .. n  BY <1>1
    <3>. QED  BY <1>3, <2>1, <3>1
  <2>3. f = [k \in 0 .. n |-> f[k]]
    BY <1>3
  <2>. QED  BY <2>2, <2>3
<1>8. AfterRounds(look, resolveDir, dep) = CHOOSE g : g = Def(g)
  BY DEF AfterRounds
<1>. DEFINE U == AfterRounds(look, resolveDir, dep)
<1>9. U = Def(U)
  <2>. HIDE DEF Def
  <2>. QED  BY <1>7, <1>8
<1>. HIDE DEF U
<1>10. \A k \in 0 .. n : U[k] = IF k = 0 THEN Start ELSE Step(U[k - 1], k)
  <2>. HIDE DEF Step, n
  <2>. QED  BY <1>9
<1>11. U[0] = Start
  <2>1. 0 \in 0 .. n  BY <1>1
  <2>. HIDE DEF Step, n
  <2>. QED  BY <1>10, <2>1
<1>12. \A k \in 0 .. n - 1 : U[k + 1] = Iterate(U[k], dep + 2 * k, look, resolveDir)
  <2>1. ASSUME NEW k \in 0 .. n - 1
        PROVE  U[k + 1] = Iterate(U[k], dep + 2 * k, look, resolveDir)
    <3>1. k + 1 \in 0 .. n /\ k + 1 # 0 /\ (k + 1) - 1 = k
      BY <1>1
    <3>2. U[k + 1] = Step(U[(k + 1) - 1], k + 1)
      <4>. HIDE DEF Step, n
      <4>. QED  BY <1>10, <3>1
    <3>. QED  BY <3>1, <3>2
  <2>. HIDE DEF n, dep
  <2>. QED  BY <2>1
<1>. QED  BY <1>11, <1>12 DEF U

(* What an allocation has done: it has looked at tables of longer history   *)
(* than the match, and at all of them if it took none.                      *)
Tried(look, A) == {i \in NOSKIP : i > DEP(look, A, 0)}
Allocation(st, look, tried) ==
  \E seen \in SUBSET tried :
    Progress(st, look, seen) /\ (st.taken = {} => seen = tried)

(* The rounds look at all tables from the first one on.                     *)
LEMMA LoopBounds ==
  ASSUME NEW first \in Nat, NEW bit \in {0, 1}
  PROVE  PairsUpTo(first, Rounds(2 * first + bit)) = {i \in NOSKIP : i > 2 * first}
<1>. DEFINE dep == 2 * first + bit
            n == Rounds(dep)
<1>1. PICK m \in Nat : NHIST = 2 * m
  <2>1. NHIST % 2 = 0  BY TageAssumption
  <2>2. NHIST \div 2 \in Nat /\ NHIST = 2 * (NHIST \div 2)  BY <2>1, Constants
  <2>. QED  BY <2>2
<1>2. dep < NHIST => n = m - first
  <2>1. CASE bit = 0
    <3>1. (2 * m + 1 - 2 * first) \div 2 = m - first  OBVIOUS
    <3>. QED  BY <1>1, <2>1, <3>1 DEF Rounds
  <2>2. CASE bit = 1
    <3>1. (2 * m + 1 - (2 * first + 1)) \div 2 = m - first  OBVIOUS
    <3>. QED  BY <1>1, <2>2, <3>1 DEF Rounds
  <2>. QED  BY <2>1, <2>2
<1>3. \A i \in NOSKIP : i \in Nat /\ i <= NHIST /\ Pair(i) \in Int /\ Pair(i) <= m
  <2>1. \A i \in NOSKIP : i \in Nat /\ i <= NHIST
    BY Constants
  <2>2. \A i \in Nat : i <= 2 * m => Pair(i) \in Int /\ Pair(i) <= m
    BY DEF Pair
  <2>. QED  BY <1>1, <2>1, <2>2
<1>4. CASE dep < NHIST
  <2>1. first + n = m  BY <1>2, <1>4
  <2>. HIDE DEF n
  <2>. QED  BY <1>3, <2>1 DEF PairsUpTo, n
<1>5. CASE ~(dep < NHIST)
  <2>1. 2 * first >= NHIST  BY <1>1, <1>5
  <2>2. \A i \in NOSKIP : ~(i > 2 * first)
    BY <1>3, <2>1, Constants
  <2>. QED  BY <2>2 DEF PairsUpTo
<1>. QED  BY <1>4, <1>5

(* The first table that is looked at is longer than the match.              *)
LEMMA FirstTable ==
  ASSUME NEW look, LookOK(look), NEW A \in {1, 2}, NEW bit \in {0, 1}
  PROVE  \E first \in Nat : /\ DEP(look, A, 0) = 2 * first
                            /\ DEP(look, A, bit) = 2 * first + bit
                            /\ 2 * first >= look.HitBank
<1>. DEFINE h == look.HitBank
            first == (h - 1 + 2 * A) \div 2
<1>1. h \in Nat
  BY HitNumber
<1>2. DEP(look, A, 0) = first * 2 + 0 /\ DEP(look, A, bit) = first * 2 + bit
  BY DEF DEP
<1>. HIDE DEF h
<1>3. first \in Nat /\ 2 * first >= h
  BY <1>1
<1>. HIDE DEF first
<1>4. DEP(look, A, 0) = 2 * first /\ DEP(look, A, bit) = 2 * first + bit
  BY <1>2, <1>3
<1>. QED  BY <1>3, <1>4 DEF h

(* Allocate() is an allocation in this sense.                               *)
LEMMA AllocationIs ==
  ASSUME gtable \in GTables, NEW look, LookOK(look), NEW A \in {1, 2}, NEW bit \in {0, 1},
         NEW resolveDir \in BOOLEAN
  PROVE  /\ Allocation(Allocate(look, resolveDir, A, bit), look, Tried(look, A))
         /\ \A i \in Tried(look, A) : i > look.HitBank
<1>1. PICK first \in Nat : /\ DEP(look, A, 0) = 2 * first
                           /\ DEP(look, A, bit) = 2 * first + bit
                           /\ 2 * first >= look.HitBank
  BY FirstTable
<1>. DEFINE dep == 2 * first + bit
            n == Rounds(dep)
            U == AfterRounds(look, resolveDir, dep)
<1>2. n \in Nat
  <2>1. dep \in Nat  OBVIOUS
  <2>. QED  BY <2>1, RoundsCount
<1>3. /\ U[0] = Start
      /\ \A k \in 0 .. n - 1 : U[k + 1] = Iterate(U[k], dep + 2 * k, look, resolveDir)
  BY LoopRecursion
<1>4. \A k \in 0 .. n : RoundInv(U[k], look, first, k)
  <2>1. \A k \in 0 .. n - 1 : RoundInv(U[k], look, first, k) =>
          U[k + 1] = Iterate(U[k], 2 * first + bit + 2 * k, look, resolveDir)
    BY <1>3
  <2>. HIDE DEF n, U
  <2>. QED  BY <1>2, <1>3, <2>1, RoundsKeep
<1>5. RoundInv(U[n], look, first, n)
  <2>. HIDE DEF n, U
  <2>. QED  BY <1>2, <1>4
<1>6. PairsUpTo(first, n) = Tried(look, A)
  BY <1>1, LoopBounds DEF Tried
<1>7. Allocate(look, resolveDir, A, bit) = U[n]
  BY <1>1 DEF Allocate
<1>8. \A i \in Tried(look, A) : i > look.HitBank
  <2>1. \A i \in NOSKIP : i \in Nat
    BY Constants
  <2>2. look.HitBank \in NOSKIP \cup {0}
    BY DEF LookOK
  <2>. DEFINE h == look.HitBank
  <2>3. h \in Nat
    BY <2>1, <2>2
  <2>. HIDE DEF h
  <2>4. 2 * first >= h /\ Tried(look, A) = {i \in NOSKIP : i > 2 * first}
    BY <1>1 DEF Tried, h
  <2>5. \A i \in Tried(look, A) : i > h
    BY <2>1, <2>3, <2>4
  <2>. QED  BY <2>5 DEF h
<1>. HIDE DEF n, U
<1>. QED  BY <1>5, <1>6, <1>7, <1>8 DEF RoundInv, Allocation

-----------------------------------------------------------------------------
(* Training.                                                                *)

(* A saturating counter stays in its range.                                 *)
LEMMA CtrUpdateBounds ==
  ASSUME NEW m \in Nat, NEW c \in -(m + 1) .. m, NEW taken \in BOOLEAN
  PROVE  ctrupdate(c, taken, m) \in -(m + 1) .. m
BY DEF ctrupdate

(* An entry whose counter, or whose usefulness, is set.                     *)
CtrSet(h, g, b, c) ==
  /\ h \in GTables /\ h[b].ctr = c /\ h[b].tag = g[b].tag /\ h[b].u = g[b].u
  /\ \A d \in Banks \ {b} : h[d] = g[d]
UseSet(h, g, b, u) ==
  /\ h \in GTables /\ h[b].ctr = g[b].ctr /\ h[b].tag = g[b].tag /\ h[b].u = u
  /\ \A d \in Banks \ {b} : h[d] = g[d]

(* Setting the counter of an entry.                                         *)
LEMMA SetCtr ==
  ASSUME NEW g \in GTables, NEW b \in Banks, NEW c \in -(CTRMAX + 1) .. CTRMAX
  PROVE  CtrSet([g EXCEPT ![b].ctr = c], g, b, c)
<1>. DEFINE A == -(CTRMAX + 1) .. CTRMAX
            B == 0 .. UMAX + U_incrment
            h == [g EXCEPT ![b].ctr = c]
            e == [g[b] EXCEPT !.ctr = c]
<1>1. g[b] \in [ctr : A, tag : Tags, u : B]
  BY DEF GTables, GEntry
<1>2. c \in A
  OBVIOUS
<1>. HIDE DEF A, B
<1>3. e \in [ctr : A, tag : Tags, u : B] /\ e.ctr = c /\ e.tag = g[b].tag /\ e.u = g[b].u
  BY <1>1, <1>2
<1>4. e \in GEntry
  BY <1>3 DEF GEntry, A, B
<1>5. h = [g EXCEPT ![b] = e]
  OBVIOUS
<1>. HIDE DEF h, e
<1>6. h \in GTables /\ h[b] = e /\ \A d \in Banks \ {b} : h[d] = g[d]
  BY <1>4, <1>5 DEF GTables
<1>7. CtrSet(h, g, b, c)
  BY <1>3, <1>6 DEF CtrSet
<1>. QED  BY <1>7 DEF h

(* Setting the usefulness of an entry.                                      *)
LEMMA SetUse ==
  ASSUME NEW g \in GTables, NEW b \in Banks, NEW u \in 0 .. UMAX + U_incrment
  PROVE  UseSet([g EXCEPT ![b].u = u], g, b, u)
<1>. DEFINE A == -(CTRMAX + 1) .. CTRMAX
            B == 0 .. UMAX + U_incrment
            h == [g EXCEPT ![b].u = u]
            e == [g[b] EXCEPT !.u = u]
<1>1. g[b] \in [ctr : A, tag : Tags, u : B]
  BY DEF GTables, GEntry
<1>2. u \in B
  OBVIOUS
<1>. HIDE DEF A, B
<1>3. e \in [ctr : A, tag : Tags, u : B] /\ e.ctr = g[b].ctr /\ e.tag = g[b].tag /\ e.u = u
  BY <1>1, <1>2
<1>4. e \in GEntry
  BY <1>3 DEF GEntry, A, B
<1>5. h = [g EXCEPT ![b] = e]
  OBVIOUS
<1>. HIDE DEF h, e
<1>6. h \in GTables /\ h[b] = e /\ \A d \in Banks \ {b} : h[d] = g[d]
  BY <1>4, <1>5 DEF GTables
<1>7. UseSet(h, g, b, u)
  BY <1>3, <1>6 DEF UseSet
<1>. QED  BY <1>7 DEF h

(* The counter of an entry is a step nearer to the direction.               *)
LEMMA LearnOne ==
  ASSUME NEW g \in GTables, NEW b \in Banks, NEW resolveDir \in BOOLEAN
  PROVE  CtrSet([g EXCEPT ![b].ctr = ctrupdate(@, resolveDir, CTRMAX)],
                g, b, ctrupdate(g[b].ctr, resolveDir, CTRMAX))
<1>. DEFINE c == ctrupdate(g[b].ctr, resolveDir, CTRMAX)
<1>1. g[b].ctr \in -(CTRMAX + 1) .. CTRMAX
  BY DEF GTables, GEntry
<1>2. CTRMAX \in Nat
  BY DEF CTRMAX
<1>3. c \in -(CTRMAX + 1) .. CTRMAX
  BY <1>1, <1>2, CtrUpdateBounds
<1>4. [g EXCEPT ![b].ctr = ctrupdate(@, resolveDir, CTRMAX)] = [g EXCEPT ![b].ctr = c]
  OBVIOUS
<1>. HIDE DEF c
<1>5. CtrSet([g EXCEPT ![b].ctr = c], g, b, c)
  BY <1>3, SetCtr
<1>6. CtrSet([g EXCEPT ![b].ctr = ctrupdate(@, resolveDir, CTRMAX)], g, b, c)
  BY <1>4, <1>5
<1>. QED  BY <1>6 DEF c

(* What training leaves of the tables: the tags, and the entries of longer  *)
(* history than the match, whose entry learns the direction once.           *)
TrainedFrom(h, g, look, resolveDir) ==
  /\ h \in GTables
  /\ \A b \in Banks : h[b].tag = g[b].tag
  /\ look.HitBank > 0 =>
       h[look.bank[look.HitBank]].ctr
         = ctrupdate(g[look.bank[look.HitBank]].ctr, resolveDir, CTRMAX)
  /\ \A i \in NOSKIP : i > look.HitBank => h[look.bank[i]] = g[look.bank[i]]

(* The banks of the match, of the alternate one and of longer histories.    *)
Places(look) ==
  /\ look.HitBank > 0 => look.bank[look.HitBank] \in Banks
  /\ look.AltBank > 0 => /\ look.bank[look.AltBank] \in Banks
                         /\ look.HitBank > 0
                         /\ look.bank[look.AltBank] # look.bank[look.HitBank]
  /\ \A i \in NOSKIP : i > look.HitBank =>
       /\ look.bank[i] \in Banks
       /\ look.HitBank > 0 => look.bank[i] # look.bank[look.HitBank]
       /\ look.AltBank > 0 => look.bank[i] # look.bank[look.AltBank]

(* These banks are different ones.                                          *)
LEMMA PlacesDiffer ==
  ASSUME NEW look, LookOK(look)
  PROVE  Places(look)
<1>. DEFINE h == look.HitBank
            a == look.AltBank
<1>1. \A i \in NOSKIP : i \in Nat /\ i > 0
  BY Constants
<1>2. /\ h \in NOSKIP \cup {0} /\ a \in NOSKIP \cup {0}
      /\ h = 0 => a = 0
      /\ h > 0 => a < h
  BY DEF LookOK
<1>3. /\ \A i \in NOSKIP : look.bank[i] \in Banks
      /\ \A i, k \in NOSKIP : look.bank[i] = look.bank[k] => i = k
  BY DEF LookOK
<1>. HIDE DEF h, a
<1>4. h \in Nat /\ a \in Nat /\ (h > 0 => h \in NOSKIP) /\ (a > 0 => a \in NOSKIP /\ h > 0)
  BY <1>1, <1>2
<1>5. h > 0 => look.bank[h] \in Banks
  BY <1>3, <1>4
<1>6. a > 0 => look.bank[a] \in Banks /\ h > 0 /\ look.bank[a] # look.bank[h]
  <2>1. a > 0 => a \in NOSKIP /\ h \in NOSKIP /\ a # h /\ h > 0
    BY <1>2, <1>4
  <2>. QED  BY <1>3, <2>1
<1>7. ASSUME NEW i \in NOSKIP, i > h
      PROVE  /\ look.bank[i] \in Banks
             /\ h > 0 => look.bank[i] # look.bank[h]
             /\ a > 0 => look.bank[i] # look.bank[a]
  <2>1. h > 0 => h \in NOSKIP /\ i # h
    BY <1>1, <1>4, <1>7
  <2>2. a > 0 => a \in NOSKIP /\ i # a
    BY <1>1, <1>2, <1>4, <1>7
  <2>. QED  BY <1>3, <2>1, <2>2
<1>. QED  BY <1>5, <1>6, <1>7 DEF Places, h, a

(* Training the entries of the matches.                                     *)
LEMMA TrainedIs ==
  ASSUME NEW g \in GTables, NEW look, LookOK(look), look.HitBank > 0,
         NEW resolveDir \in BOOLEAN
  PROVE  TrainedFrom(Trained(g, look, resolveDir), g, look, resolveDir)
<1>. DEFINE hit == look.bank[look.HitBank]
            alt == look.bank[look.AltBank]
            weak == look.AltBank > 0 /\ WeakAndWrong(g, look, resolveDir)
            protected == IF weak
                         THEN [g EXCEPT ![alt].ctr = ctrupdate(@, resolveDir, CTRMAX)]
                         ELSE g
            learnt == [protected EXCEPT ![hit].ctr = ctrupdate(@, resolveDir, CTRMAX)]
            superfluous == /\ look.AltBank > 0 /\ look.alttaken = resolveDir
                           /\ look.LongestMatchPred = resolveDir
                           /\ Confidence(learnt[alt]) = 7 /\ learnt[hit].u = 1
            loses == Confidence(learnt[hit]) = 1 \/ superfluous
            t == Trained(g, look, resolveDir)
<1>1. t = IF loses THEN [learnt EXCEPT ![hit].u = 0] ELSE learnt
  BY DEF Trained
<1>2. Places(look)
  BY PlacesDiffer
<1>3. hit \in Banks /\ (weak => alt \in Banks /\ alt # hit)
  BY <1>2 DEF Places
<1>4. weak => CtrSet(protected, g, alt, ctrupdate(g[alt].ctr, resolveDir, CTRMAX))
  <2>. HIDE DEF hit, alt, weak
  <2>. QED  BY <1>3, LearnOne
<1>5. ~weak => protected = g
  <2>. HIDE DEF weak
  <2>. QED  OBVIOUS
<1>. HIDE DEF protected
<1>6. /\ protected \in GTables /\ protected[hit] = g[hit]
      /\ \A b \in Banks : protected[b].tag = g[b].tag
      /\ \A b \in Banks : (weak => b # alt) => protected[b] = g[b]
  <2>. HIDE DEF weak, hit, alt
  <2>1. CASE weak
    BY <1>3, <1>4, <2>1 DEF CtrSet
  <2>2. CASE ~weak
    BY <1>5, <2>2
  <2>. QED  BY <2>1, <2>2
<1>7. CtrSet(learnt, protected, hit, ctrupdate(protected[hit].ctr, resolveDir, CTRMAX))
  <2>. HIDE DEF hit
  <2>. QED  BY <1>3, <1>6, LearnOne
<1>. HIDE DEF learnt
<1>8. /\ learnt \in GTables /\ learnt[hit].ctr = ctrupdate(g[hit].ctr, resolveDir, CTRMAX)
      /\ \A b \in Banks : learnt[b].tag = g[b].tag
      /\ \A b \in Banks \ {hit} : (weak => b # alt) => learnt[b] = g[b]
  <2>. HIDE DEF weak, hit, alt
  <2>. QED  BY <1>3, <1>6, <1>7 DEF CtrSet
<1>9. /\ t \in GTables /\ t[hit].ctr = learnt[hit].ctr
      /\ \A b \in Banks : t[b].tag = learnt[b].tag
      /\ \A b \in Banks \ {hit} : t[b] = learnt[b]
  <2>. HIDE DEF loses, hit, t
  <2>1. CASE loses
    <3>1. 0 \in 0 .. UMAX + U_incrment
      BY Constants DEF UMAX
    <3>2. t = [learnt EXCEPT ![hit].u = 0]
      BY <1>1, <2>1
    <3>3. UseSet(t, learnt, hit, 0)
      BY <1>3, <1>8, <3>1, <3>2, SetUse
    <3>. QED  BY <1>3, <3>3 DEF UseSet
  <2>2. CASE ~loses
    BY <1>1, <1>8, <2>2
  <2>. QED  BY <2>1, <2>2
<1>. HIDE DEF t, loses, superfluous
<1>10. ASSUME NEW i \in NOSKIP, i > look.HitBank PROVE t[look.bank[i]] = g[look.bank[i]]
  <2>. DEFINE b == look.bank[i]
  <2>1. b \in Banks /\ b # hit /\ (weak => b # alt)
    BY <1>2, <1>10 DEF Places
  <2>. HIDE DEF b, hit, alt, weak
  <2>2. t[b] = g[b]
    BY <1>8, <1>9, <2>1
  <2>. QED  BY <2>2 DEF b
<1>11. \A b \in Banks : t[b].tag = g[b].tag
  BY <1>8, <1>9
<1>12. t[hit].ctr = ctrupdate(g[hit].ctr, resolveDir, CTRMAX)
  BY <1>8, <1>9
<1>13. TrainedFrom(t, g, look, resolveDir)
  BY <1>9, <1>10, <1>11, <1>12 DEF TrainedFrom
<1>. QED  BY <1>13 DEF t

(* Marking the entry of the match as useful keeps all that.                 *)
MarkedFrom(h, g, look) ==
  /\ h \in GTables
  /\ \A b \in Banks : h[b].tag = g[b].tag /\ h[b].ctr = g[b].ctr
  /\ \A i \in NOSKIP : i > look.HitBank => h[look.bank[i]] = g[look.bank[i]]

(* Marking an entry useful, or less so, is such a change.                   *)
LEMMA MarkedIs ==
  ASSUME NEW g \in GTables, NEW look, LookOK(look), NEW resolveDir \in BOOLEAN,
         NEW more \in {0, U_incrment}
  PROVE  MarkedFrom(Marked(g, look, resolveDir, more), g, look)
<1>. DEFINE hit == look.bank[look.HitBank]
            marks == Useful(look, resolveDir) /\ g[hit].u < UMAX
            h == Marked(g, look, resolveDir, more)
<1>1. h = IF marks THEN [g EXCEPT ![hit].u = @ + 1 + more] ELSE g
  BY DEF Marked
<1>2. CASE ~marks
  <2>1. h = g
    <3>. HIDE DEF h, marks
    <3>. QED  BY <1>1, <1>2
  <2>. HIDE DEF h
  <2>2. MarkedFrom(h, g, look)
    BY <2>1 DEF MarkedFrom
  <2>. QED  BY <2>2 DEF h
<1>3. CASE marks
  <2>1. look.HitBank # 0
    <3>1. look.LongestMatchPred # look.alttaken  BY <1>3 DEF Useful
    <3>. QED  BY <3>1 DEF LookOK
  <2>2. look.HitBank > 0
    <3>1. look.HitBank \in NOSKIP  BY <2>1 DEF LookOK
    <3>2. \A i \in NOSKIP : i > 0  BY Constants
    <3>. QED  BY <3>1, <3>2
  <2>3. hit \in Banks /\ Places(look)
    BY <2>2, PlacesDiffer DEF Places
  <2>4. g[hit] \in GEntry
    BY <2>3 DEF GTables
  <2>5. g[hit].u = 0
    <3>1. g[hit].u \in Nat  BY <2>4, EntryTypes
    <3>2. g[hit].u < 1  BY <1>3 DEF UMAX
    <3>. HIDE DEF hit
    <3>. QED  BY <3>1, <3>2
  <2>6. 1 + more \in 0 .. UMAX + U_incrment
    BY Constants DEF UMAX
  <2>. DEFINE u == 1 + more
  <2>7. h = [g EXCEPT ![hit].u = u]
    <3>. HIDE DEF hit, h, marks
    <3>1. h = [g EXCEPT ![hit].u = g[hit].u + 1 + more]
      BY <1>1, <1>3
    <3>2. g[hit].u + 1 + more = u
      BY <2>5, Constants
    <3>. HIDE DEF u
    <3>. QED  BY <3>1, <3>2
  <2>. HIDE DEF u
  <2>8. UseSet(h, g, hit, u)
    <3>1. u \in 0 .. UMAX + U_incrment  BY <2>6 DEF u
    <3>. HIDE DEF h, hit
    <3>. QED  BY <2>3, <2>7, <3>1, SetUse
  <2>. HIDE DEF h
  <2>9. \A i \in NOSKIP : i > look.HitBank => look.bank[i] \in Banks \ {hit}
    BY <2>2, <2>3 DEF Places
  <2>10. \A b \in Banks : h[b].tag = g[b].tag /\ h[b].ctr = g[b].ctr
    <3>. HIDE DEF hit
    <3>. QED  BY <2>3, <2>8 DEF UseSet
  <2>11. h \in GTables /\ \A i \in NOSKIP : i > look.HitBank => h[look.bank[i]] = g[look.bank[i]]
    <3>. HIDE DEF hit
    <3>. QED  BY <2>8, <2>9 DEF UseSet
  <2>12. MarkedFrom(h, g, look)
    BY <2>10, <2>11 DEF MarkedFrom
  <2>. QED  BY <2>12 DEF h
<1>. QED  BY <1>2, <1>3

(* The whole of Train().                                                    *)
LEMMA TrainIs ==
  ASSUME NEW g \in GTables, NEW look, LookOK(look), NEW resolveDir \in BOOLEAN,
         NEW more \in {0, U_incrment}, Train(look, g, resolveDir, more)
  PROVE  TrainedFrom(gtable', g, look, resolveDir)
<1>. DEFINE t == IF look.HitBank > 0 THEN Trained(g, look, resolveDir) ELSE g
<1>1. TrainedFrom(t, g, look, resolveDir)
  <2>1. CASE look.HitBank > 0
    <3>1. t = Trained(g, look, resolveDir)  BY <2>1
    <3>. QED  BY <2>1, <3>1, TrainedIs
  <2>2. CASE ~(look.HitBank > 0)
    <3>1. t = g  BY <2>2
    <3>. QED  BY <2>2, <3>1 DEF TrainedFrom
  <2>. QED  BY <2>1, <2>2
<1>2. gtable' = Marked(t, look, resolveDir, more)
  BY DEF Train
<1>. HIDE DEF t
<1>3. t \in GTables
  BY <1>1 DEF TrainedFrom
<1>4. /\ gtable' \in GTables
      /\ \A b \in Banks : gtable'[b].tag = t[b].tag /\ gtable'[b].ctr = t[b].ctr
      /\ \A i \in NOSKIP : i > look.HitBank => gtable'[look.bank[i]] = t[look.bank[i]]
  BY <1>2, <1>3, MarkedIs DEF MarkedFrom
<1>5. look.HitBank > 0 => look.bank[look.HitBank] \in Banks
  BY PlacesDiffer DEF Places
<1>. QED  BY <1>1, <1>4, <1>5 DEF TrainedFrom

-----------------------------------------------------------------------------
(* The update of a branch.                                                  *)

(* Halving the usefulness of all entries.                                   *)
LEMMA HalvedIs ==
  ASSUME NEW g \in GTables
  PROVE  /\ Halved(g) \in GTables
         /\ \A b \in Banks : /\ Halved(g)[b].ctr = g[b].ctr /\ Halved(g)[b].tag = g[b].tag
                             /\ Halved(g)[b].u = g[b].u \div 2
<1>. DEFINE A == -(CTRMAX + 1) .. CTRMAX
            B == 0 .. UMAX + U_incrment
            h(b) == [g[b] EXCEPT !.u = @ \div 2]
<1>1. ASSUME NEW b \in Banks
      PROVE  /\ h(b) \in [ctr : A, tag : Tags, u : B]
             /\ h(b).ctr = g[b].ctr /\ h(b).tag = g[b].tag /\ h(b).u = g[b].u \div 2
  <2>1. g[b] \in [ctr : A, tag : Tags, u : B]
    BY DEF GTables, GEntry
  <2>2. \A u \in B : u \div 2 \in B
    BY Constants DEF UMAX
  <2>. HIDE DEF A, B
  <2>3. g[b].u \div 2 \in B
    BY <2>1, <2>2
  <2>. QED  BY <2>1, <2>3
<1>2. Halved(g) = [b \in Banks |-> h(b)]
  BY DEF Halved
<1>3. \A b \in Banks : h(b) \in GEntry
  BY <1>1 DEF GEntry
<1>. HIDE DEF h, A, B
<1>4. Halved(g) \in GTables
  BY <1>2, <1>3 DEF GTables
<1>5. \A b \in Banks : /\ Halved(g)[b].ctr = g[b].ctr /\ Halved(g)[b].tag = g[b].tag
                       /\ Halved(g)[b].u = g[b].u \div 2
  BY <1>1, <1>2
<1>. QED  BY <1>4, <1>5

(* What allocation leaves of the tables: the tags of the entries that it    *)
(* did not take, and the entry that gave the longest match.                 *)
Prepared(g, look, taken) ==
  /\ g \in GTables
  /\ \A b \in Banks : g[b].tag # gtable[b].tag => \E i \in taken : look.bank[i] = b
  /\ look.HitBank > 0 =>
       /\ g[look.bank[look.HitBank]].tag = gtable[look.bank[look.HitBank]].tag
       /\ g[look.bank[look.HitBank]].ctr = gtable[look.bank[look.HitBank]].ctr

(* The table that is trained after an allocation.                           *)
Aged(alloc) == IF TickAfter(alloc) >= BORNTICK THEN Halved(alloc.g) ELSE alloc.g

(* An allocation, with the ageing that may follow it, prepares the tables   *)
(* so.                                                                      *)
LEMMA AllocationPrepares ==
  ASSUME gtable \in GTables, NEW look, LookOK(look), NEW st, NEW tried,
         tried \subseteq NOSKIP, \A i \in tried : i > look.HitBank, Allocation(st, look, tried)
  PROVE  Prepared(Aged(st), look, st.taken)
<1>1. PICK seen \in SUBSET tried : Progress(st, look, seen)
  BY DEF Allocation
<1>2. /\ st.g \in GTables
      /\ \A b \in Banks : st.g[b].tag # gtable[b].tag => \E i \in st.taken : look.bank[i] = b
      /\ \A b \in Banks : (\A i \in seen : look.bank[i] # b) => st.g[b] = gtable[b]
  BY <1>1 DEF Progress, Changes, LoopStates
<1>3. ASSUME look.HitBank > 0
      PROVE  /\ look.bank[look.HitBank] \in Banks
             /\ st.g[look.bank[look.HitBank]] = gtable[look.bank[look.HitBank]]
  <2>1. Places(look)
    BY PlacesDiffer
  <2>2. look.bank[look.HitBank] \in Banks
    BY <1>3, <2>1 DEF Places
  <2>3. \A i \in seen : look.bank[i] # look.bank[look.HitBank]
    BY <1>3, <2>1 DEF Places
  <2>. QED  BY <1>2, <2>2, <2>3
<1>4. /\ Aged(st) \in GTables
      /\ \A b \in Banks : Aged(st)[b].ctr = st.g[b].ctr /\ Aged(st)[b].tag = st.g[b].tag
  <2>1. CASE TickAfter(st) >= BORNTICK
    <3>1. Aged(st) = Halved(st.g)  BY <2>1 DEF Aged
    <3>. QED  BY <1>2, <3>1, HalvedIs
  <2>2. CASE ~(TickAfter(st) >= BORNTICK)
    <3>1. Aged(st) = st.g  BY <2>2 DEF Aged
    <3>. QED  BY <1>2, <3>1
  <2>. QED  BY <2>1, <2>2
<1>. QED  BY <1>2, <1>3, <1>4 DEF Prepared

(* Every step of the specification is an update of one of two kinds.        *)
Updates(look, resolveDir, more) ==
  /\ LookOK(look) /\ resolveDir \in BOOLEAN /\ more \in {0, U_incrment}
  /\ updates < MaxUpdates
  /\ \/ UpdateOnly(look, resolveDir, more)
     \/ \E A \in {1, 2}, bit \in {0, 1} : UpdateAndAllocate(look, resolveDir, more, A, bit)

(* Every step updates the tables in one of these ways.                      *)
LEMMA EveryUpdate ==
  ASSUME TageNext
  PROVE  \E look, resolveDir, more : Updates(look, resolveDir, more)
<1>1. PICK T \in Starts, GTAG \in GTAGs, resolveDir \in BOOLEAN :
        \E more \in IF Useful(Tagepred(T, GTAG), resolveDir) THEN {0, U_incrment} ELSE {0} :
          \/ UpdateOnly(Tagepred(T, GTAG), resolveDir, more)
          \/ \E A \in {1, 2}, bit \in {0, 1} :
               UpdateAndAllocate(Tagepred(T, GTAG), resolveDir, more, A, bit)
  BY Zenon DEF TageNext, Starts, GTAGs
<1>. DEFINE look == Tagepred(T, GTAG)
<1>2. LookOK(look)
  BY LookUp
<1>3. PICK more \in {0, U_incrment} :
          \/ UpdateOnly(look, resolveDir, more)
          \/ \E A \in {1, 2}, bit \in {0, 1} :
               UpdateAndAllocate(look, resolveDir, more, A, bit)
  BY <1>1
<1>4. updates < MaxUpdates
  BY DEF TageNext
<1>. HIDE DEF look
<1>5. Updates(look, resolveDir, more)
  BY <1>2, <1>3, <1>4, Zenon DEF Updates
<1>. QED  BY <1>5

(* An update, its kinds told apart: g is the table that is trained.         *)
NoAllocation(look, g) ==
  g = gtable /\ last'.tried = {} /\ last'.taken = {} /\ TICK' = TICK
WithAllocation(look, g) ==
  \E alloc, A :
    /\ Allocation(alloc, look, last'.tried)
    /\ last'.tried \subseteq NOSKIP /\ \A i \in last'.tried : i > look.HitBank
    /\ g = Aged(alloc) /\ last'.taken = alloc.taken
    /\ TICK' = IF TickAfter(alloc) >= BORNTICK THEN 0 ELSE TickAfter(alloc)
Updated(look, g, resolveDir, more) ==
  /\ LookOK(look) /\ resolveDir \in BOOLEAN /\ more \in {0, U_incrment}
  /\ g \in GTables
  /\ Train(look, g, resolveDir, more)
  /\ Prepared(g, look, last'.taken)
  /\ last'.HitBank = look.HitBank /\ last'.bank = look.bank /\ last'.resolveDir = resolveDir
  /\ updates < MaxUpdates
  /\ NoAllocation(look, g) \/ WithAllocation(look, g)

(* Every step is such an update.                                            *)
LEMMA UpdateCases ==
  ASSUME gtable \in GTables, TageNext
  PROVE  \E look, g, resolveDir, more : Updated(look, g, resolveDir, more)
<1>1. PICK look, resolveDir, more : Updates(look, resolveDir, more)
  BY EveryUpdate
<1>2. LookOK(look) /\ resolveDir \in BOOLEAN /\ more \in {0, U_incrment} /\ updates < MaxUpdates
  BY <1>1 DEF Updates
<1>3. CASE UpdateOnly(look, resolveDir, more)
  <2>1. Train(look, gtable, resolveDir, more) /\ TICK' = TICK
    BY <1>3 DEF UpdateOnly
  <2>2. /\ last'.tried = {} /\ last'.taken = {} /\ last'.HitBank = look.HitBank
        /\ last'.bank = look.bank /\ last'.resolveDir = resolveDir
    BY <1>3 DEF UpdateOnly, Report
  <2>3. Prepared(gtable, look, last'.taken)
    BY DEF Prepared
  <2>4. NoAllocation(look, gtable)
    BY <2>1, <2>2 DEF NoAllocation
  <2>5. Updated(look, gtable, resolveDir, more)
    BY <1>2, <2>1, <2>2, <2>3, <2>4, Zenon DEF Updated
  <2>. QED  BY <2>5
<1>4. ASSUME NEW A \in {1, 2}, NEW bit \in {0, 1},
             UpdateAndAllocate(look, resolveDir, more, A, bit)
      PROVE  \E g : Updated(look, g, resolveDir, more)
  <2>. DEFINE alloc == Allocate(look, resolveDir, A, bit)
              tried == Tried(look, A)
  <2>1. Train(look, Aged(alloc), resolveDir, more)
    BY <1>4 DEF UpdateAndAllocate, Aged
  <2>2. TICK' = IF TickAfter(alloc) >= BORNTICK THEN 0 ELSE TickAfter(alloc)
    BY <1>4 DEF UpdateAndAllocate
  <2>3. /\ last'.tried = tried /\ last'.taken = alloc.taken /\ last'.HitBank = look.HitBank
        /\ last'.bank = look.bank /\ last'.resolveDir = resolveDir
    <3>1. last' = Report(look, tried, alloc.taken, resolveDir)
      BY <1>4 DEF UpdateAndAllocate, Tried
    <3>. HIDE DEF alloc, tried
    <3>. QED  BY <3>1 DEF Report
  <2>4. Allocation(alloc, look, tried) /\ \A i \in tried : i > look.HitBank
    BY <1>2, AllocationIs
  <2>5. tried \subseteq NOSKIP
    BY DEF Tried
  <2>. HIDE DEF alloc, tried
  <2>6. Prepared(Aged(alloc), look, last'.taken)
    <3>1. Prepared(Aged(alloc), look, alloc.taken)
      BY <1>2, <2>4, <2>5, AllocationPrepares
    <3>. QED  BY <2>3, <3>1
  <2>7. WithAllocation(look, Aged(alloc))
    BY <2>2, <2>3, <2>4, <2>5 DEF WithAllocation
  <2>8. Aged(alloc) \in GTables
    BY <2>6 DEF Prepared
  <2>9. Updated(look, Aged(alloc), resolveDir, more)
    BY <1>2, <2>1, <2>3, <2>6, <2>7, <2>8, Zenon DEF Updated
  <2>. QED  BY <2>9
<1>5. \/ UpdateOnly(look, resolveDir, more)
      \/ \E A \in {1, 2}, bit \in {0, 1} : UpdateAndAllocate(look, resolveDir, more, A, bit)
  BY <1>1 DEF Updates
<1>. QED  BY <1>3, <1>4, <1>5

-----------------------------------------------------------------------------
(* The invariant.                                                           *)

TageInv ==
  TypeOK /\ use_alt_on_na \in [UseAltIndexes -> -(ALTMAX + 1) .. ALTMAX]

(* The tables are typed.                                                    *)
LEMMA GTablesType == TypeOK => gtable \in GTables
BY DEF TypeOK, GTables, GEntry

(* The invariant holds at first.                                            *)
LEMMA TageInitially == TageInit => TageInv
<1>. SUFFICES ASSUME TageInit PROVE TageInv
  OBVIOUS
<1>1. 0 \in -(CTRMAX + 1) .. CTRMAX /\ 0 \in 0 .. UMAX + U_incrment /\ 0 \in Tags
  BY Constants DEF CTRMAX, UMAX
<1>2. gtable \in GTables
  <2>1. [ctr |-> 0, tag |-> 0, u |-> 0] \in GEntry
    BY <1>1 DEF GEntry
  <2>. QED  BY <2>1 DEF TageInit, GTables
<1>3. 0 \in -(ALTMAX + 1) .. ALTMAX
  BY Constants
<1>4. use_alt_on_na \in [UseAltIndexes -> -(ALTMAX + 1) .. ALTMAX]
  BY <1>3 DEF TageInit, UseAltIndexes
<1>5. BIM \in 0 .. 3 /\ TICK \in Nat /\ TICK < BORNTICK /\ updates \in 0 .. MaxUpdates
  BY Constants DEF TageInit
<1>. QED  BY <1>2, <1>4, <1>5 DEF TageInv, TypeOK, GTables, GEntry

(* The number of vain attempts, after an allocation.                        *)
LEMMA TickIs ==
  ASSUME TICK \in Nat, NEW st \in LoopStates
  PROVE  /\ TickAfter(st) \in Nat
         /\ st.taken = {} => TickAfter(st) = TICK + st.Penalty
<1>1. IsFiniteSet(st.taken) /\ st.Penalty \in Nat
  BY Constants, FS_Subset DEF LoopStates
<1>2. Cardinality(st.taken) \in Nat
  BY <1>1, FS_CardinalityType
<1>3. st.taken = {} => Cardinality(st.taken) = 0
  BY FS_EmptySet
<1>. QED  BY <1>1, <1>2, <1>3 DEF TickAfter

(* An update keeps the invariant.                                           *)
LEMMA UpdateKeepsTypes ==
  ASSUME TageInv, TageNext
  PROVE  TageInv'
<1>1. /\ gtable \in GTables /\ BIM \in 0 .. 3 /\ TICK \in Nat /\ TICK < BORNTICK
      /\ updates \in 0 .. MaxUpdates
      /\ use_alt_on_na \in [UseAltIndexes -> -(ALTMAX + 1) .. ALTMAX]
  BY GTablesType DEF TageInv, TypeOK
<1>2. PICK look, g, resolveDir, more : Updated(look, g, resolveDir, more)
  BY <1>1, UpdateCases
<1>3. LookOK(look) /\ resolveDir \in BOOLEAN /\ more \in {0, U_incrment} /\ g \in GTables
      /\ Train(look, g, resolveDir, more) /\ updates < MaxUpdates
      /\ (NoAllocation(look, g) \/ WithAllocation(look, g))
  BY <1>2 DEF Updated
<1>4. gtable' \in GTables
  BY <1>3, TrainIs DEF TrainedFrom
<1>5. BIM' \in 0 .. 3
  <2>1. BaseUpdate(resolveDir) \in 0 .. 3
    BY <1>1 DEF BaseUpdate
  <2>2. BIM' = BaseUpdate(resolveDir) \/ BIM' = BIM
    BY <1>3 DEF Train
  <2>. QED  BY <1>1, <2>1, <2>2
<1>6. TICK' \in Nat /\ TICK' < BORNTICK
  <2>1. CASE NoAllocation(look, g)
    BY <1>1, <2>1 DEF NoAllocation
  <2>2. CASE WithAllocation(look, g)
    <3>1. PICK alloc : /\ Allocation(alloc, look, last'.tried)
                       /\ TICK' = IF TickAfter(alloc) >= BORNTICK THEN 0 ELSE TickAfter(alloc)
      BY <2>2 DEF WithAllocation
    <3>2. alloc \in LoopStates
      BY <3>1 DEF Allocation, Progress
    <3>3. TickAfter(alloc) \in Nat
      BY <1>1, <3>2, TickIs
    <3>. QED  BY <3>1, <3>3, Constants
  <2>. QED  BY <1>3, <2>1, <2>2
<1>7. use_alt_on_na' \in [UseAltIndexes -> -(ALTMAX + 1) .. ALTMAX]
  <2>. DEFINE right == look.alttaken = resolveDir
              R == -(ALTMAX + 1) .. ALTMAX
  <2>1. right \in BOOLEAN
    OBVIOUS
  <2>2. CASE NewlyAllocated(look) /\ look.LongestMatchPred # look.alttaken
    <3>1. look.INDUSEALT \in UseAltIndexes
      BY <1>3, <2>2 DEF NewlyAllocated, LookOK
    <3>2. use_alt_on_na' = [use_alt_on_na EXCEPT ![look.INDUSEALT] = ctrupdate(@, right, ALTMAX)]
      BY <1>3, <2>2 DEF Train
    <3>. HIDE DEF right
    <3>3. use_alt_on_na[look.INDUSEALT] \in R /\ ALTMAX \in Nat
      BY <1>1, <3>1, Constants
    <3>4. ctrupdate(use_alt_on_na[look.INDUSEALT], right, ALTMAX) \in R
      BY <2>1, <3>3, CtrUpdateBounds
    <3>. HIDE DEF R
    <3>5. use_alt_on_na \in [UseAltIndexes -> R]
      BY <1>1 DEF R
    <3>6. use_alt_on_na' \in [UseAltIndexes -> R]
      BY <3>1, <3>2, <3>4, <3>5
    <3>. QED  BY <3>6 DEF R
  <2>3. CASE ~(NewlyAllocated(look) /\ look.LongestMatchPred # look.alttaken)
    BY <1>1, <1>3, <2>3 DEF Train
  <2>. QED  BY <2>2, <2>3
<1>8. updates' \in 0 .. MaxUpdates
  BY <1>1, <1>3, Constants DEF Train
<1>9. \A k \in DOMAIN use_alt_on_na' : use_alt_on_na'[k] \in -(ALTMAX + 1) .. ALTMAX
  BY <1>7
<1>10. TypeOK'
  BY <1>4, <1>5, <1>6, <1>8, <1>9 DEF TypeOK, GTables, GEntry
<1>. QED  BY <1>7, <1>10 DEF TageInv

(* So does every step.                                                      *)
LEMMA TageStep == TageInv /\ [TageNext]_TageVars => TageInv'
<1>1. ASSUME TageInv, UNCHANGED TageVars PROVE TageInv'
  BY <1>1 DEF TageVars, TageInv, TypeOK
<1>. QED  BY <1>1, UpdateKeepsTypes

-----------------------------------------------------------------------------
(* The theorems about the tagged tables.                                    *)

(* Every reachable state satisfies the invariant.                           *)
THEOREM TageInvariance == TageSpec => []TageInv
BY TageInitially, TageStep, PTL DEF TageSpec

(* Counters, tags and usefulness stay in their ranges; the usefulness only  *)
(* in that of the added U_incrment.                                         *)
THEOREM TageTypes == TageSpec => []TypeOK
<1>1. TageInv => TypeOK  BY DEF TageInv
<1>. QED  BY <1>1, TageInvariance, PTL

(* The entry of the longest match learns by one step and is not replaced.   *)
Learning ==
  last'.HitBank > 0 =>
    LET hit == last'.bank[last'.HitBank]
    IN  /\ gtable'[hit].tag = gtable[hit].tag
        /\ gtable'[hit].ctr = ctrupdate(gtable[hit].ctr, last'.resolveDir, CTRMAX)

(* An update teaches the match.                                             *)
LEMMA LearningStep ==
  ASSUME TageInv, TageNext
  PROVE  Learning
<1>1. gtable \in GTables
  BY GTablesType DEF TageInv
<1>2. PICK look, g, resolveDir, more : Updated(look, g, resolveDir, more)
  BY <1>1, UpdateCases
<1>3. /\ LookOK(look) /\ TrainedFrom(gtable', g, look, resolveDir)
      /\ Prepared(g, look, last'.taken)
      /\ last'.HitBank = look.HitBank /\ last'.bank = look.bank /\ last'.resolveDir = resolveDir
  BY <1>2, TrainIs DEF Updated
<1>4. ASSUME look.HitBank > 0
      PROVE  LET hit == look.bank[look.HitBank]
             IN  /\ gtable'[hit].tag = gtable[hit].tag
                 /\ gtable'[hit].ctr = ctrupdate(gtable[hit].ctr, resolveDir, CTRMAX)
  <2>. DEFINE hit == look.bank[look.HitBank]
  <2>1. hit \in Banks
    BY <1>3, <1>4, PlacesDiffer DEF Places
  <2>2. g[hit].tag = gtable[hit].tag /\ g[hit].ctr = gtable[hit].ctr
    BY <1>3, <1>4 DEF Prepared
  <2>3. /\ gtable'[hit].tag = g[hit].tag
        /\ gtable'[hit].ctr = ctrupdate(g[hit].ctr, resolveDir, CTRMAX)
    BY <1>3, <1>4, <2>1 DEF TrainedFrom
  <2>. QED  BY <2>2, <2>3
<1>. QED  BY <1>3, <1>4 DEF Learning

(* In every step the entry of the longest match learns the direction of the *)
(* branch by one step, and is not replaced.                                 *)
THEOREM MatchLearns == TageSpec => HitLearns
<1>1. TageInv /\ [TageNext]_TageVars => [Learning]_TageVars
  BY LearningStep
<1>. QED  BY <1>1, TageInvariance, PTL DEF TageSpec, HitLearns, Learning

(* An update takes at most two entries, apart from each other and of longer *)
(* history than the match, none useful or sure, and no other changes its    *)
(* tag.                                                                     *)
TakingApart ==
  /\ Cardinality(last'.taken) <= NNN + 1
  /\ \A i \in last'.taken :
       /\ i > last'.HitBank
       /\ gtable[last'.bank[i]].u = 0 /\ Confidence(gtable[last'.bank[i]]) <= 3
       /\ \A j \in last'.taken \ {i} : Pair(i) - Pair(j) \notin {-1, 0, 1}
  /\ \A b \in Banks :
       gtable'[b].tag # gtable[b].tag => \E i \in last'.taken : last'.bank[i] = b

(* What is known of the entries that are taken.                             *)
LEMMA TakenEntries ==
  ASSUME NEW look, NEW g, WithAllocation(look, g), last'.bank = look.bank,
         last'.HitBank = look.HitBank
  PROVE  /\ Cardinality(last'.taken) <= NNN + 1
         /\ \A i \in last'.taken : i > last'.HitBank /\ Replaceable(gtable[last'.bank[i]])
         /\ Apart(last'.taken)
<1>1. PICK st : /\ Allocation(st, look, last'.tried)
                /\ \A i \in last'.tried : i > look.HitBank
                /\ last'.taken = st.taken
  BY DEF WithAllocation
<1>2. PICK seen \in SUBSET last'.tried : Progress(st, look, seen)
  BY <1>1 DEF Allocation
<1>3. /\ st.taken \subseteq seen /\ st.T = NNN - Cardinality(st.taken) /\ st.T >= -1
      /\ \A i \in st.taken : Replaceable(gtable[look.bank[i]])
      /\ Apart(st.taken) /\ st \in LoopStates
  BY <1>2 DEF Progress, Takes
<1>4. Cardinality(st.taken) <= NNN + 1
  <2>1. IsFiniteSet(st.taken)
    BY <1>3, Constants, FS_Subset DEF LoopStates
  <2>2. Cardinality(st.taken) \in Nat
    BY <2>1, FS_CardinalityType
  <2>. QED  BY <1>3, <2>2 DEF NNN
<1>. QED  BY <1>1, <1>2, <1>3, <1>4

(* An update takes entries apart from each other.                           *)
LEMMA TakingStep ==
  ASSUME TageInv, TageNext
  PROVE  TakingApart
<1>1. gtable \in GTables
  BY GTablesType DEF TageInv
<1>2. PICK look, g, resolveDir, more : Updated(look, g, resolveDir, more)
  BY <1>1, UpdateCases
<1>3. /\ LookOK(look) /\ TrainedFrom(gtable', g, look, resolveDir)
      /\ Prepared(g, look, last'.taken)
      /\ last'.HitBank = look.HitBank /\ last'.bank = look.bank
      /\ NoAllocation(look, g) \/ WithAllocation(look, g)
  BY <1>2, TrainIs DEF Updated
<1>4. \A b \in Banks :
        gtable'[b].tag # gtable[b].tag => \E i \in last'.taken : last'.bank[i] = b
  BY <1>3 DEF TrainedFrom, Prepared
<1>5. CASE NoAllocation(look, g)
  <2>1. last'.taken = {}
    BY <1>5 DEF NoAllocation
  <2>2. Cardinality(last'.taken) <= NNN + 1
    <3>1. Cardinality({}) = 0  BY FS_EmptySet
    <3>. QED  BY <2>1, <3>1 DEF NNN
  <2>. QED  BY <1>4, <2>1, <2>2 DEF TakingApart
<1>6. CASE WithAllocation(look, g)
  <2>1. /\ Cardinality(last'.taken) <= NNN + 1
        /\ \A i \in last'.taken : i > last'.HitBank /\ Replaceable(gtable[last'.bank[i]])
        /\ Apart(last'.taken)
    BY <1>3, <1>6, TakenEntries
  <2>. QED  BY <1>4, <2>1 DEF TakingApart, Replaceable, Apart
<1>. QED  BY <1>3, <1>5, <1>6

(* In every step the entries that are taken are at most two, apart,         *)
(* replaceable, of longer history than the match, and the only ones whose   *)
(* tag changes.                                                             *)
THEOREM AllocationApart == TageSpec => AllocatesApart
<1>1. TageInv /\ [TageNext]_TageVars => [TakingApart]_TageVars
  BY TakingStep
<1>. QED  BY <1>1, TageInvariance, PTL DEF TageSpec, AllocatesApart, TakingApart

(* No attempt to allocate is in vain: what it does not take, it weakens, or *)
(* it counts.                                                               *)
Advancing ==
  last'.tried # {} =>
    \/ last'.taken # {}
    \/ TICK' > TICK
    \/ TICK' = 0 /\ \E b \in Banks : gtable'[b].u < gtable[b].u
    \/ \E i \in last'.tried :
         /\ gtable[last'.bank[i]].u = 0
         /\ Confidence(gtable'[last'.bank[i]]) < Confidence(gtable[last'.bank[i]])

(* An attempt to allocate advances.                                         *)
LEMMA AdvancingStep ==
  ASSUME TageInv, TageNext
  PROVE  Advancing
<1>1. gtable \in GTables /\ TICK \in Nat /\ TICK < BORNTICK
  BY GTablesType DEF TageInv, TypeOK
<1>2. PICK look, g, resolveDir, more : Updated(look, g, resolveDir, more)
  BY <1>1, UpdateCases
<1>3. /\ LookOK(look) /\ TrainedFrom(gtable', g, look, resolveDir) /\ last'.bank = look.bank
      /\ NoAllocation(look, g) \/ WithAllocation(look, g)
  BY <1>2, TrainIs DEF Updated
<1>4. SUFFICES ASSUME last'.tried # {}, last'.taken = {}
               PROVE  \/ TICK' > TICK
                      \/ TICK' = 0 /\ \E b \in Banks : gtable'[b].u < gtable[b].u
                      \/ \E i \in last'.tried :
                           /\ gtable[look.bank[i]].u = 0
                           /\ Confidence(gtable'[look.bank[i]]) < Confidence(gtable[look.bank[i]])
  BY <1>3 DEF Advancing
<1>5. WithAllocation(look, g)
  BY <1>3, <1>4 DEF NoAllocation
<1>6. PICK st : /\ Allocation(st, look, last'.tried)
                /\ last'.tried \subseteq NOSKIP /\ \A i \in last'.tried : i > look.HitBank
                /\ g = Aged(st) /\ last'.taken = st.taken
                /\ TICK' = IF TickAfter(st) >= BORNTICK THEN 0 ELSE TickAfter(st)
  BY <1>5 DEF WithAllocation
<1>7. Progress(st, look, last'.tried)
  BY <1>4, <1>6 DEF Allocation
<1>8. /\ st \in LoopStates
      /\ st.Penalty = 0 =>
           \A i \in last'.tried :
             /\ gtable[look.bank[i]].u = 0
             /\ Confidence(st.g[look.bank[i]]) < Confidence(gtable[look.bank[i]])
      /\ st.Penalty > 0 => \E i \in last'.tried : gtable[look.bank[i]].u > 0
      /\ \A b \in Banks : st.g[b].u = gtable[b].u
  BY <1>4, <1>6, <1>7 DEF Progress, Attempts, Changes
<1>9. st.Penalty \in Nat /\ st.g \in GTables /\ TickAfter(st) = TICK + st.Penalty
  BY <1>1, <1>4, <1>6, <1>8, TickIs DEF LoopStates
<1>10. \A i \in last'.tried : look.bank[i] \in Banks /\ gtable'[look.bank[i]] = g[look.bank[i]]
  BY <1>3, <1>6 DEF TrainedFrom, LookOK
<1>11. CASE st.Penalty > 0 /\ TickAfter(st) < BORNTICK
  <2>1. TICK' = TickAfter(st)
    BY <1>1, <1>6, <1>9, <1>11, Constants
  <2>2. TICK' > TICK
    BY <1>1, <1>9, <1>11, <2>1
  <2>. QED  BY <2>2
<1>12. CASE st.Penalty > 0 /\ TickAfter(st) >= BORNTICK
  <2>1. TICK' = 0 /\ g = Halved(st.g)
    BY <1>6, <1>12 DEF Aged
  <2>2. PICK i \in last'.tried : gtable[look.bank[i]].u > 0
    BY <1>8, <1>12
  <2>. DEFINE b == look.bank[i]
  <2>3. b \in Banks /\ gtable'[b] = g[b] /\ gtable[b].u > 0
    BY <1>10, <2>2
  <2>. HIDE DEF b
  <2>4. gtable'[b].u = gtable[b].u \div 2
    BY <1>8, <1>9, <2>1, <2>3, HalvedIs
  <2>5. gtable[b].u \in Nat
    <3>1. gtable[b] \in GEntry  BY <1>1, <2>3 DEF GTables
    <3>. QED  BY <3>1, EntryTypes
  <2>6. gtable'[b].u < gtable[b].u
    <3>. DEFINE u == gtable[b].u
    <3>1. u \in Nat /\ u > 0  BY <2>3, <2>5
    <3>. HIDE DEF u
    <3>2. u \div 2 < u  BY <3>1
    <3>. QED  BY <2>4, <3>2 DEF u
  <2>. QED  BY <2>1, <2>3, <2>6
<1>13. CASE st.Penalty = 0
  <2>1. g = st.g
    <3>1. ~(TickAfter(st) >= BORNTICK)
      BY <1>1, <1>9, <1>13, Constants
    <3>. QED  BY <1>6, <3>1 DEF Aged
  <2>2. PICK i \in last'.tried : TRUE
    BY <1>4
  <2>3. gtable[look.bank[i]].u = 0 /\ Confidence(st.g[look.bank[i]]) < Confidence(gtable[look.bank[i]])
    BY <1>8, <1>13
  <2>4. gtable'[look.bank[i]] = st.g[look.bank[i]]
    BY <1>10, <2>1
  <2>5. Confidence(gtable'[look.bank[i]]) < Confidence(gtable[look.bank[i]])
    BY <2>3, <2>4 DEF Confidence
  <2>. QED  BY <2>3, <2>5
<1>14. (st.Penalty > 0 /\ TickAfter(st) < BORNTICK)
       \/ (st.Penalty > 0 /\ TickAfter(st) >= BORNTICK) \/ st.Penalty = 0
  BY <1>1, <1>9, Constants
<1>. QED  BY <1>11, <1>12, <1>13, <1>14

(* In every step that tries to allocate something is taken, weakened or     *)
(* counted.                                                                 *)
THEOREM AllocationMakesProgress == TageSpec => AllocationProgress
<1>1. TageInv /\ [TageNext]_TageVars => [Advancing]_TageVars
  BY AdvancingStep
<1>. QED  BY <1>1, TageInvariance, PTL DEF TageSpec, AllocationProgress, Advancing

-----------------------------------------------------------------------------
(* The loads in flight.                                                     *)

USE LoadAssumption

(* The window is a sequence of uops -- of which only class and destination  *)
(* matter here, so they are not typed --, and the graph relates registers.  *)
ShapeOK ==
  /\ \E S : window \in Seq(S)
  /\ registers_in_flight \subseteq Regs
  /\ graph \in [Regs -> SUBSET Regs]

IInv == ShapeOK /\ FlagsInFlight /\ DependenciesCurrent

(* What is known of the window.                                             *)
LEMMA WindowIndexes ==
  ASSUME ShapeOK
  PROVE  Len(window) \in Nat /\ DOMAIN window = 1 .. Len(window)
<1>1. PICK S : window \in Seq(S)
  BY DEF ShapeOK
<1>. QED  BY <1>1

LEMMA Initially == Init => IInv
<1>. SUFFICES ASSUME Init PROVE IInv
  OBVIOUS
<1>1. window \in Seq({})  BY DEF Init
<1>. QED  BY <1>1 DEF Init, IInv, ShapeOK, FlagsInFlight, DependenciesCurrent

-----------------------------------------------------------------------------
(* Decoding.                                                                *)

(* The window gets a uop at its end.                                        *)
LEMMA AppendUop ==
  ASSUME ShapeOK, NEW u, window' = Append(window, u)
  PROVE  /\ \E S : window' \in Seq(S)
         /\ Len(window') = Len(window) + 1 /\ DOMAIN window' = 1 .. Len(window) + 1
         /\ window'[Len(window) + 1] = u
         /\ \A i \in DOMAIN window : window'[i] = window[i]
<1>1. PICK S : window \in Seq(S)
  BY DEF ShapeOK
<1>2. window \in Seq(S \cup {u}) /\ u \in S \cup {u}
  BY <1>1
<1>3. Append(window, u) \in Seq(S \cup {u})
  BY <1>2
<1>. QED  BY <1>1, <1>2, <1>3

(* A uop that is no load and leaves flags and graph alone.                  *)
LEMMA DecodeBranchStep ==
  ASSUME IInv, DecodeBranch
  PROVE  IInv'
<1>1. PICK u : window' = Append(window, u) /\ u.class = "cond"
  BY DEF DecodeBranch, Branch
<1>2. UNCHANGED <<registers_in_flight, graph>>
  BY DEF DecodeBranch
<1>3. ShapeOK  BY DEF IInv
<1>4. PICK n \in Nat : n = Len(window) /\ DOMAIN window = 1 .. n
  BY <1>3, WindowIndexes
<1>5. /\ \E S : window' \in Seq(S)
      /\ Len(window') = n + 1 /\ DOMAIN window' = 1 .. n + 1
      /\ window'[n + 1] = u
      /\ \A i \in 1 .. n : window'[i] = window[i]
  BY <1>1, <1>3, <1>4, AppendUop
<1>6. ASSUME NEW r \in Regs
      PROVE  /\ \A i \in 1 .. n : LoadsTo(i, r)' <=> LoadsTo(i, r)
             /\ ~LoadsTo(n + 1, r)'
  <2>1. ASSUME NEW i \in 1 .. n PROVE LoadsTo(i, r)' <=> LoadsTo(i, r)
    <3>1. window'[i] = window[i]  BY <1>5
    <3>. QED  BY <3>1, Zenon DEF LoadsTo
  <2>2. "cond" # "load"  OBVIOUS
  <2>3. ~LoadsTo(n + 1, r)'
    BY <1>1, <1>5, <2>2, Zenon DEF LoadsTo
  <2>. QED  BY <2>1, <2>3
<1>7. ShapeOK'
  BY <1>2, <1>3, <1>5 DEF ShapeOK
<1>8. FlagsInFlight'
  <2>. SUFFICES ASSUME NEW r \in registers_in_flight
                PROVE  \E i \in DOMAIN window' : LoadsTo(i, r)'
    BY <1>2 DEF FlagsInFlight
  <2>1. PICK i \in DOMAIN window : LoadsTo(i, r)
    BY DEF IInv, FlagsInFlight
  <2>. QED  BY <2>1, <1>3, <1>4, <1>5, <1>6 DEF ShapeOK
<1>9. DependenciesCurrent'
  <2>. SUFFICES ASSUME NEW d \in Regs, NEW s \in graph[d]
                PROVE  \E i \in DOMAIN window' :
                         /\ LastLoad(i, d, End)' /\ s \in window'[i].srcs
                         /\ \A k \in i + 1 .. Len(window') : ~LoadsTo(k, s)'
    BY <1>2 DEF DependenciesCurrent
  <2>1. PICK i \in 1 .. n : /\ LastLoad(i, d, End) /\ s \in window[i].srcs
                            /\ \A k \in i + 1 .. n : ~LoadsTo(k, s)
    BY <1>4 DEF IInv, DependenciesCurrent
  <2>2. i < n + 1 /\ LoadsTo(i, d) /\ \A k \in i + 1 .. n : ~LoadsTo(k, d)
    BY <1>4, <2>1 DEF LastLoad, End
  <2>3. s \in Regs
    BY <1>3 DEF ShapeOK
  <2>4. \A k \in i + 1 .. n + 1 : ~LoadsTo(k, d)' /\ ~LoadsTo(k, s)'
    <3>. SUFFICES ASSUME NEW k \in i + 1 .. n + 1 PROVE ~LoadsTo(k, d)' /\ ~LoadsTo(k, s)'
      OBVIOUS
    <3>1. CASE k = n + 1
      BY <1>6, <2>3, <3>1
    <3>2. CASE k # n + 1
      <4>1. k \in i + 1 .. n /\ k \in 1 .. n  BY <1>4, <3>2
      <4>. QED  BY <4>1, <1>6, <2>1, <2>2, <2>3, Zenon
    <3>. QED  BY <3>1, <3>2
  <2>5. LastLoad(i, d, End)'
    BY <1>4, <1>5, <1>6, <2>2, <2>4 DEF LastLoad, End
  <2>. QED  BY <1>4, <1>5, <2>1, <2>4, <2>5
<1>. QED  BY <1>7, <1>8, <1>9 DEF IInv

(* A load: its register gets a flag and new dependencies, and nothing else  *)
(* depends on it any more.                                                  *)
LEMMA DecodeLoadStep ==
  ASSUME IInv, DecodeLoad
  PROVE  IInv'
<1>1. PICK dst \in Regs, srcs \in LoadSources :
        /\ window' = Append(window, Load(dst, srcs))
        /\ registers_in_flight' = registers_in_flight \cup {dst}
        /\ graph' = addDependencies(deleteDestination(graph, dst), dst, srcs)
  BY DEF DecodeLoad
<1>2. ShapeOK  BY DEF IInv
<1>3. PICK n \in Nat : n = Len(window) /\ DOMAIN window = 1 .. n
  BY <1>2, WindowIndexes
<1>4. PICK u : u = Load(dst, srcs)
  OBVIOUS
<1>5. u.class = "load" /\ u.dst = dst /\ u.srcs = srcs
  BY <1>4 DEF Load
<1>6. /\ \E S : window' \in Seq(S)
      /\ Len(window') = n + 1 /\ DOMAIN window' = 1 .. n + 1
      /\ window'[n + 1] = u
      /\ \A i \in 1 .. n : window'[i] = window[i]
  BY <1>1, <1>2, <1>3, <1>4, AppendUop
<1>7. ASSUME NEW r \in Regs
      PROVE  /\ \A i \in 1 .. n : LoadsTo(i, r)' <=> LoadsTo(i, r)
             /\ LoadsTo(n + 1, r)' <=> r = dst
  <2>1. ASSUME NEW i \in 1 .. n PROVE LoadsTo(i, r)' <=> LoadsTo(i, r)
    <3>1. window'[i] = window[i]  BY <1>6
    <3>. QED  BY <3>1, Zenon DEF LoadsTo
  <2>2. LoadsTo(n + 1, r)' <=> r = dst
    BY <1>5, <1>6, Zenon DEF LoadsTo
  <2>. QED  BY <2>1, <2>2
<1>8. /\ graph' \in [Regs -> SUBSET Regs]
      /\ \A d \in Regs : graph'[d] = IF d = dst THEN srcs ELSE graph[d] \ {dst}
  BY <1>1, <1>2 DEF addDependencies, deleteDestination, ShapeOK
<1>9. ShapeOK'
  BY <1>1, <1>2, <1>6, <1>8 DEF ShapeOK
<1>10. FlagsInFlight'
  <2>. SUFFICES ASSUME NEW r \in registers_in_flight'
                PROVE  \E i \in DOMAIN window' : LoadsTo(i, r)'
    BY DEF FlagsInFlight
  <2>1. CASE r = dst
    <3>1. n + 1 \in DOMAIN window' /\ LoadsTo(n + 1, r)'
      BY <1>3, <1>6, <1>7, <2>1
    <3>. QED  BY <3>1
  <2>2. CASE r # dst
    <3>1. r \in registers_in_flight /\ r \in Regs
      BY <1>1, <1>2, <2>2 DEF ShapeOK
    <3>2. PICK i \in DOMAIN window : LoadsTo(i, r)
      BY <3>1 DEF IInv, FlagsInFlight
    <3>. QED  BY <3>1, <3>2, <1>3, <1>6, <1>7
  <2>. QED  BY <2>1, <2>2
<1>11. DependenciesCurrent'
  <2>. SUFFICES ASSUME NEW d \in Regs, NEW s \in graph'[d]
                PROVE  \E i \in DOMAIN window' :
                         /\ LastLoad(i, d, End)' /\ s \in window'[i].srcs
                         /\ \A k \in i + 1 .. Len(window') : ~LoadsTo(k, s)'
    BY DEF DependenciesCurrent
  <2>0. s \in Regs
    BY <1>8
  <2>1. CASE d = dst
    <3>1. n + 1 \in DOMAIN window' /\ s \in window'[n + 1].srcs
      BY <1>3, <1>5, <1>6, <1>8, <2>1
    <3>2. n + 1 + 1 .. n + 1 = {} /\ n + 1 < n + 1 + 1
      BY <1>3
    <3>3. LastLoad(n + 1, d, End)'
      BY <1>3, <1>6, <1>7, <2>1, <3>2 DEF LastLoad, End
    <3>. QED  BY <1>6, <3>1, <3>2, <3>3
  <2>2. CASE d # dst
    <3>1. s \in graph[d] /\ s # dst
      BY <1>8, <2>2
    <3>2. PICK i \in 1 .. n : /\ LastLoad(i, d, End) /\ s \in window[i].srcs
                              /\ \A k \in i + 1 .. n : ~LoadsTo(k, s)
      BY <1>3, <3>1 DEF IInv, DependenciesCurrent
    <3>3. i < n + 1 /\ LoadsTo(i, d) /\ \A k \in i + 1 .. n : ~LoadsTo(k, d)
      BY <1>3, <3>2 DEF LastLoad, End
    <3>4. \A k \in i + 1 .. n + 1 : ~LoadsTo(k, d)' /\ ~LoadsTo(k, s)'
      <4>. SUFFICES ASSUME NEW k \in i + 1 .. n + 1
                    PROVE  ~LoadsTo(k, d)' /\ ~LoadsTo(k, s)'
        OBVIOUS
      <4>1. CASE k = n + 1
        BY <1>7, <2>0, <2>2, <3>1, <4>1
      <4>2. CASE k # n + 1
        <5>1. k \in i + 1 .. n /\ k \in 1 .. n  BY <1>3, <4>2
        <5>. QED  BY <5>1, <1>7, <2>0, <3>2, <3>3, Zenon
      <4>. QED  BY <4>1, <4>2
    <3>5. LastLoad(i, d, End)'
      BY <1>3, <1>6, <1>7, <3>3, <3>4 DEF LastLoad, End
    <3>. QED  BY <1>3, <1>6, <3>2, <3>4, <3>5
  <2>. QED  BY <2>1, <2>2
<1>. QED  BY <1>9, <1>10, <1>11 DEF IInv

-----------------------------------------------------------------------------
(* Resolution marks a branch, and changes no class, register or source.     *)
LEMMA ResolveStep ==
  ASSUME IInv, Resolve
  PROVE  IInv'
<1>1. PICK i \in DOMAIN window :
        /\ window' = [window EXCEPT ![i].resolved = TRUE,
                         ![i].is_LD_dependent = DependsOnLoad(window[i].srcs)]
        /\ UNCHANGED <<registers_in_flight, graph>>
  BY DEF Resolve
<1>2. PICK S : window \in Seq(S)
  BY DEF IInv, ShapeOK
<1>3. PICK n \in Nat : n = Len(window) /\ DOMAIN window = 1 .. n
  BY WindowIndexes DEF IInv
<1>4. /\ \E T : window' \in Seq(T)
      /\ Len(window') = n /\ DOMAIN window' = 1 .. n
  <2>. DEFINE u == window'[i]
              T == S \cup {u}
  <2>1. window' \in [1 .. n -> T]
    <3>1. window \in [1 .. n -> S]
      BY <1>2, <1>3
    <3>2. window' = [k \in 1 .. n |-> window'[k]]
      BY <1>1, <3>1
    <3>3. \A k \in 1 .. n : k # i => window'[k] = window[k]
      BY <1>1, <3>1
    <3>4. \A k \in 1 .. n : window'[k] \in T
      BY <3>1, <3>3
    <3>. HIDE DEF T
    <3>. QED  BY <3>2, <3>4
  <2>. HIDE DEF u, T
  <2>2. window' \in Seq(T) /\ Len(window') = n
    BY <2>1
  <2>. QED  BY <2>1, <2>2
<1>5. \A k \in 1 .. n : /\ window'[k].class = window[k].class
                         /\ window'[k].dst = window[k].dst
                         /\ window'[k].srcs = window[k].srcs
  BY <1>1, <1>3
<1>6. \A r : \A k \in 1 .. n : LoadsTo(k, r)' <=> LoadsTo(k, r)
  BY <1>5, Zenon DEF LoadsTo
<1>7. ShapeOK'
  BY <1>1, <1>4 DEF IInv, ShapeOK
<1>8. FlagsInFlight'
  BY <1>1, <1>3, <1>4, <1>6 DEF IInv, FlagsInFlight
<1>9. DependenciesCurrent'
  <2>. SUFFICES ASSUME NEW d \in Regs, NEW s \in graph[d]
                PROVE  \E k \in DOMAIN window' :
                         /\ LastLoad(k, d, End)' /\ s \in window'[k].srcs
                         /\ \A j \in k + 1 .. Len(window') : ~LoadsTo(j, s)'
    BY <1>1 DEF DependenciesCurrent
  <2>1. PICK k \in 1 .. n : /\ LastLoad(k, d, End) /\ s \in window[k].srcs
                            /\ \A j \in k + 1 .. n : ~LoadsTo(j, s)
    BY <1>3 DEF IInv, DependenciesCurrent
  <2>2. LastLoad(k, d, End)'
    BY <1>3, <1>4, <1>6, <2>1 DEF LastLoad, End
  <2>3. \A j \in k + 1 .. n : ~LoadsTo(j, s)'
    BY <1>3, <1>6, <2>1
  <2>. QED  BY <1>4, <1>5, <2>1, <2>2, <2>3
<1>. QED  BY <1>7, <1>8, <1>9 DEF IInv

-----------------------------------------------------------------------------
(* Commit.                                                                  *)

(* The front uop leaves the window.                                         *)
LEMMA TailUops ==
  ASSUME ShapeOK, window # <<>>, window' = Tail(window)
  PROVE  /\ \E S : window' \in Seq(S)
         /\ Len(window) >= 1 /\ Len(window') = Len(window) - 1
         /\ DOMAIN window' = 1 .. Len(window) - 1
         /\ Head(window) = window[1]
         /\ \A i \in 1 .. Len(window) - 1 : window'[i] = window[i + 1]
<1>1. PICK S : window \in Seq(S)
  BY DEF ShapeOK
<1>2. Tail(window) \in Seq(S)
  BY <1>1
<1>. QED  BY <1>1, <1>2

(* If it was a load, the flag of its register and all dependencies that name*)
(* the register go: the uops that are left write the others.                *)
LEMMA CommitStep ==
  ASSUME IInv, Commit
  PROVE  IInv'
<1>1. window # <<>> /\ window' = Tail(window)
  BY DEF Commit
<1>2. ShapeOK  BY DEF IInv
<1>3. PICK n \in Nat : n = Len(window) /\ DOMAIN window = 1 .. n
  BY <1>2, WindowIndexes
<1>4. /\ \E S : window' \in Seq(S)
      /\ n >= 1 /\ Len(window') = n - 1 /\ DOMAIN window' = 1 .. n - 1
      /\ Head(window) = window[1]
      /\ \A i \in 1 .. n - 1 : window'[i] = window[i + 1]
  BY <1>1, <1>2, <1>3, TailUops
<1>5. \A r : \A i \in 1 .. n - 1 : LoadsTo(i, r)' <=> LoadsTo(i + 1, r)
  BY <1>4, Zenon DEF LoadsTo
<1>6. /\ registers_in_flight' \subseteq registers_in_flight
      /\ \A r \in registers_in_flight' : ~LoadsTo(1, r)
  BY <1>4 DEF Commit, Unflagged, LoadsTo
<1>7. /\ graph' \in [Regs -> SUBSET Regs]
      /\ \A d \in Regs : /\ graph'[d] \subseteq graph[d]
                         /\ \A s \in graph'[d] : ~LoadsTo(1, d)
  BY <1>2, <1>4 DEF Commit, deleteDestination, ShapeOK, LoadsTo
<1>8. ShapeOK'
  BY <1>2, <1>4, <1>6, <1>7 DEF ShapeOK
<1>9. FlagsInFlight'
  <2>. SUFFICES ASSUME NEW r \in registers_in_flight'
                PROVE  \E i \in DOMAIN window' : LoadsTo(i, r)'
    BY DEF FlagsInFlight
  <2>1. PICK i \in 1 .. n : LoadsTo(i, r)
    BY <1>3, <1>6 DEF IInv, FlagsInFlight
  <2>2. i # 1
    BY <1>6, <2>1
  <2>3. i - 1 \in 1 .. n - 1 /\ i - 1 + 1 = i
    BY <1>3, <2>2
  <2>4. LoadsTo(i - 1, r)'
    BY <1>5, <2>1, <2>3
  <2>. QED  BY <1>4, <2>3, <2>4
<1>10. DependenciesCurrent'
  <2>. SUFFICES ASSUME NEW d \in Regs, NEW s \in graph'[d]
                PROVE  \E i \in DOMAIN window' :
                         /\ LastLoad(i, d, End)' /\ s \in window'[i].srcs
                         /\ \A k \in i + 1 .. Len(window') : ~LoadsTo(k, s)'
    BY DEF DependenciesCurrent
  <2>1. s \in graph[d] /\ ~LoadsTo(1, d)
    BY <1>7
  <2>2. PICK i \in 1 .. n : /\ LastLoad(i, d, End) /\ s \in window[i].srcs
                            /\ \A k \in i + 1 .. n : ~LoadsTo(k, s)
    BY <1>3, <2>1 DEF IInv, DependenciesCurrent
  <2>3. LoadsTo(i, d) /\ \A k \in i + 1 .. n : ~LoadsTo(k, d)
    BY <1>3, <2>2 DEF LastLoad, End
  <2>4. PICK j : j = i - 1
    OBVIOUS
  <2>5. i # 1  BY <2>1, <2>3
  <2>6. j \in 1 .. n - 1 /\ j + 1 = i
    BY <1>3, <2>4, <2>5
  <2>7. \A k \in j + 1 .. n - 1 : ~LoadsTo(k, d)' /\ ~LoadsTo(k, s)'
    <3>. SUFFICES ASSUME NEW k \in j + 1 .. n - 1
                  PROVE  ~LoadsTo(k, d)' /\ ~LoadsTo(k, s)'
      OBVIOUS
    <3>1. k + 1 \in i + 1 .. n /\ k \in 1 .. n - 1  BY <1>3, <2>6
    <3>. QED  BY <3>1, <1>5, <2>2, <2>3, Zenon
  <2>8. LoadsTo(j, d)' /\ s \in window'[j].srcs
    BY <1>4, <1>5, <2>2, <2>3, <2>6
  <2>9. LastLoad(j, d, End)'
    BY <1>3, <1>4, <2>6, <2>7, <2>8 DEF LastLoad, End
  <2>. QED  BY <1>3, <1>4, <2>6, <2>7, <2>8, <2>9
<1>. QED  BY <1>8, <1>9, <1>10 DEF IInv

-----------------------------------------------------------------------------
(* The invariant.                                                           *)

(* Flags and dependencies are those of loads in flight, in every reachable  *)
(* state of the load tracking of cond_branch_predictor_interface.cc.        *)
THEOREM Invariance == Spec => []IInv
<1>1. IInv /\ [Next]_vars => IInv'
  <2>. SUFFICES ASSUME IInv, [Next]_vars PROVE IInv'
    OBVIOUS
  <2>1. CASE UNCHANGED vars
    BY <2>1 DEF IInv, ShapeOK, FlagsInFlight, DependenciesCurrent, LastLoad, LoadsTo, End, vars
  <2>. QED
    BY <2>1, DecodeLoadStep, DecodeBranchStep, ResolveStep, CommitStep, Zenon DEF Next
<1>. QED  BY <1>1, Initially, PTL DEF Spec

(* A register is flagged only while a load in flight will write it.         *)
THEOREM FlagsRight == Spec => []FlagsInFlight
<1>1. IInv => FlagsInFlight  BY DEF IInv
<1>. QED  BY <1>1, Invariance, PTL

(* Dependencies are those of the last load to a register, on registers that *)
(* nothing younger loads.                                                   *)
THEOREM DependenciesRight == Spec => []DependenciesCurrent
<1>1. IInv => DependenciesCurrent  BY DEF IInv
<1>. QED  BY <1>1, Invariance, PTL

-----------------------------------------------------------------------------
(* The count of dependencies.                                               *)

(* The loads that the uop at i reads from.                                  *)
Feeds(i) == {k \in 1 .. i - 1 : \E r \in window[i].srcs : LastLoad(k, r, i)}

(* TrueSources is defined: it is what its recursion says.                   *)
LEMMA SourcesRecursion ==
  ASSUME ShapeOK
  PROVE  \A i \in DOMAIN window :
           TrueSources[i] = window[i].srcs \cup UNION {TrueSources[j] : j \in Feeds(i)}
<1>. DEFINE n == Len(window)
            U == UNION {window[i].srcs : i \in 1 .. n}
            V == [1 .. n -> SUBSET U]
            v0 == [i \in 1 .. n |-> {}]
            Row(v, k) == window[k].srcs \cup UNION {v[j] : j \in Feeds(k)}
            G == [k \in 1 .. n |-> [v \in V |-> [v EXCEPT ![k] = Row(v, k)]]]
            Def(g) == [i \in DOMAIN window |-> Row(g, i)]
<1>1. n \in Nat /\ DOMAIN window = 1 .. n
  BY WindowIndexes
<1>2. v0 \in V
  OBVIOUS
<1>3. \A k \in 1 .. n : \A j \in Feeds(k) : j \in 1 .. n /\ j \in 1 .. k - 1
  <2>. HIDE DEF n
  <2>. QED  BY <1>1 DEF Feeds
<1>4. ASSUME NEW k \in 1 .. n, NEW v \in V PROVE Row(v, k) \in SUBSET U
  <2>1. window[k].srcs \subseteq U
    OBVIOUS
  <2>2. \A j \in Feeds(k) : v[j] \subseteq U
    <3>. HIDE DEF U, n
    <3>. QED  BY <1>3
  <2>. HIDE DEF U, V
  <2>. QED  BY <2>1, <2>2
<1>5. G \in [1 .. n -> [V -> V]]
  <2>1. ASSUME NEW k \in 1 .. n, NEW v \in V PROVE [v EXCEPT ![k] = Row(v, k)] \in V
    <3>1. Row(v, k) \in SUBSET U  BY <1>4
    <3>. HIDE DEF U, Row, n
    <3>. QED  BY <3>1
  <2>. HIDE DEF V, Row, n
  <2>. QED  BY <2>1
<1>6. PICK f : Iterates(f, n, V, v0, G)
  <2>. HIDE DEF G, V, v0, n
  <2>. QED  BY <1>1, <1>2, <1>5, RecursionExists, Zenon
<1>7. f \in [0 .. n -> V] /\ \A k \in 1 .. n : f[k] = [f[k - 1] EXCEPT ![k] = Row(f[k - 1], k)]
  <2>1. f \in [0 .. n -> V] /\ \A k \in 1 .. n : f[k] = G[k][f[k - 1]]
    <3>. HIDE DEF G, V, v0, n
    <3>. QED  BY <1>6 DEF Iterates
  <2>2. ASSUME NEW k \in 1 .. n PROVE f[k] = [f[k - 1] EXCEPT ![k] = Row(f[k - 1], k)]
    <3>1. k - 1 \in 0 .. n  BY <1>1
    <3>2. f[k - 1] \in V
      <4>. HIDE DEF V, G, n
      <4>. QED  BY <2>1, <3>1
    <3>3. G[k] = [v \in V |-> [v EXCEPT ![k] = Row(v, k)]]
      <4>. HIDE DEF V, Row, n
      <4>. QED  OBVIOUS
    <3>. HIDE DEF G, V, Row, n
    <3>. QED  BY <2>1, <3>2, <3>3
  <2>. QED  BY <2>1, <2>2
<1>. DEFINE Stable == {m \in 0 .. n : \A j \in 1 .. m : f[m][j] = f[j][j]}
<1>8. \A m \in 0 .. n : m \in Stable
  <2>1. 0 \in Stable
    <3>. HIDE DEF n
    <3>. QED  BY <1>1
  <2>2. ASSUME NEW m \in 0 .. n - 1, m \in Stable PROVE m + 1 \in Stable
    <3>1. m \in Nat /\ m + 1 \in 1 .. n /\ m + 1 \in 0 .. n /\ m \in 0 .. n
      BY <1>1
    <3>2. f[m + 1] = [f[m] EXCEPT ![m + 1] = Row(f[m], m + 1)]
      <4>1. (m + 1) - 1 = m  BY <3>1
      <4>. HIDE DEF n, Row, V
      <4>. QED  BY <1>7, <3>1, <4>1
    <3>3. DOMAIN f[m] = 1 .. n
      <4>1. f[m] \in V
        <5>. HIDE DEF V, n
        <5>. QED  BY <1>7, <3>1
      <4>. QED  BY <4>1
    <3>4. \A j \in 1 .. m : f[m][j] = f[j][j] /\ j \in 1 .. n
      <4>1. \A j \in 1 .. m : f[m][j] = f[j][j]
        BY <2>2
      <4>2. \A j \in 1 .. m : j \in 1 .. n
        BY <1>1, <3>1
      <4>. QED  BY <4>1, <4>2
    <3>5. ASSUME NEW j \in 1 .. m + 1 PROVE f[m + 1][j] = f[j][j]
      <4>1. CASE j = m + 1
        BY <4>1
      <4>2. CASE j # m + 1
        <5>1. j \in 1 .. m  BY <3>1, <4>2
        <5>2. f[m + 1][j] = f[m][j]
          <6>. HIDE DEF n, Row
          <6>. QED  BY <3>2, <3>3, <3>4, <4>2, <5>1
        <5>. HIDE DEF n
        <5>. QED  BY <3>4, <5>1, <5>2
      <4>. QED  BY <4>1, <4>2
    <3>. HIDE DEF n
    <3>. QED  BY <3>1, <3>5
  <2>. HIDE DEF Stable, n
  <2>. QED  BY <1>1, <2>1, <2>2, CountingUp
<1>. DEFINE h == [i \in 1 .. n |-> f[i][i]]
<1>9. ASSUME NEW i \in 1 .. n PROVE f[i][i] = Row(h, i)
  <2>1. i - 1 \in 0 .. n /\ i - 1 \in Nat /\ i \in Nat
    BY <1>1
  <2>2. f[i] = [f[i - 1] EXCEPT ![i] = Row(f[i - 1], i)] /\ f[i - 1] \in V
    <3>. HIDE DEF n, Row, V
    <3>. QED  BY <1>7, <2>1
  <2>3. f[i][i] = Row(f[i - 1], i)
    <3>1. DOMAIN f[i - 1] = 1 .. n  BY <2>2
    <3>. HIDE DEF n, Row, V
    <3>. QED  BY <2>2, <3>1
  <2>4. \A j \in Feeds(i) : f[i - 1][j] = h[j]
    <3>1. i - 1 \in Stable
      <4>. HIDE DEF Stable, n
      <4>. QED  BY <1>8, <2>1
    <3>. HIDE DEF n
    <3>. QED  BY <1>3, <3>1
  <2>5. Row(f[i - 1], i) = Row(h, i)
    <3>1. {f[i - 1][j] : j \in Feeds(i)} = {h[j] : j \in Feeds(i)}
      <4>. HIDE DEF h
      <4>. QED  BY <2>4
    <3>. HIDE DEF h
    <3>. QED  BY <3>1
  <2>. QED  BY <2>3, <2>5
<1>10. h = Def(h)
  <2>1. h = [i \in 1 .. n |-> Row(h, i)]
    <3>. HIDE DEF n, Row
    <3>1. \A i \in 1 .. n : h[i] = Row(h, i)  BY <1>9
    <3>2. h = [i \in 1 .. n |-> h[i]]  OBVIOUS
    <3>. HIDE DEF h
    <3>. QED  BY <3>1, <3>2
  <2>. HIDE DEF Row, h
  <2>. QED  BY <1>1, <2>1
<1>11. TrueSources = CHOOSE g : g = Def(g)
  BY DEF TrueSources, Feeds
<1>12. TrueSources = Def(TrueSources)
  <2>. HIDE DEF Def, h
  <2>. QED  BY <1>10, <1>11
<1>. QED
  <2>. DEFINE S == TrueSources
  <2>1. S = Def(S)  BY <1>12
  <2>. HIDE DEF S, Row
  <2>2. \A i \in DOMAIN window : S[i] = Row(S, i)
    BY <2>1
  <2>. QED  BY <2>2 DEF S, Row

(* A register that is visited from r is a dependency of r through the loads *)
(* in flight: the edges lead from the last load of a register to the last   *)
(* load of one that it reads, and before it.                                *)
Reached(r, x) ==
  \E k \in DOMAIN window, d \in Regs :
    /\ LastLoad(k, d, End) /\ x \in graph[d]
    /\ \E i \in DOMAIN window : LastLoad(i, r, End) /\ TrueSources[k] \subseteq TrueSources[i]

LEMMA VisitedReached ==
  ASSUME IInv, NEW r, NEW x \in getAllDependencies(r)
  PROVE  x \in Regs /\ Reached(r, x)
<1>. DEFINE S == {y \in Regs \cup {r} : y = r \/ Reached(r, y)}
<1>1. PICK n \in Nat : n = Len(window) /\ DOMAIN window = 1 .. n
  BY WindowIndexes DEF IInv
<1>2. \A i \in DOMAIN window :
        TrueSources[i] = window[i].srcs \cup UNION {TrueSources[j] : j \in Feeds(i)}
  BY SourcesRecursion DEF IInv
<1>3. graph \in [Regs -> SUBSET Regs]
  BY DEF IInv, ShapeOK
<1>4. ASSUME NEW y \in Regs, y = r \/ Reached(r, y), NEW s \in graph[y]
      PROVE  s \in Regs /\ Reached(r, s)
  <2>1. PICK m \in DOMAIN window :
          /\ LastLoad(m, y, End) /\ s \in window[m].srcs
          /\ \A k \in m + 1 .. Len(window) : ~LoadsTo(k, s)
    BY <1>4 DEF IInv, DependenciesCurrent
  <2>2. s \in Regs
    BY <1>3
  <2>3. CASE y = r
    BY <2>1, <2>2, <2>3, <1>4 DEF Reached
  <2>4. CASE Reached(r, y)
    <3>1. PICK k \in DOMAIN window, d \in Regs, i \in DOMAIN window :
            /\ LastLoad(k, d, End) /\ y \in graph[d]
            /\ LastLoad(i, r, End) /\ TrueSources[k] \subseteq TrueSources[i]
      BY <2>4 DEF Reached
    <3>2. /\ y \in window[k].srcs
          /\ \A l \in k + 1 .. Len(window) : ~LoadsTo(l, y)
      <4>1. PICK p \in DOMAIN window :
              /\ LastLoad(p, d, End) /\ y \in window[p].srcs
              /\ \A l \in p + 1 .. Len(window) : ~LoadsTo(l, y)
        BY <3>1 DEF IInv, DependenciesCurrent
      <4>2. p = k
        BY <1>1, <3>1, <4>1 DEF LastLoad, End
      <4>. QED  BY <4>1, <4>2
    <3>3. m \in 1 .. n /\ k \in 1 .. n
      BY <1>1
    <3>4. LoadsTo(m, y) /\ \A l \in m + 1 .. n : ~LoadsTo(l, y)
      BY <1>1, <2>1 DEF LastLoad, End
    <3>5. m <= k
      BY <1>1, <3>2, <3>3, <3>4
    <3>6. TrueSources[m] \subseteq TrueSources[k]
      <4>1. CASE m = k
        BY <4>1
      <4>2. CASE m < k
        <5>1. LastLoad(m, y, k)
          BY <3>3, <3>4, <4>2 DEF LastLoad
        <5>2. m \in Feeds(k)
          BY <3>2, <3>3, <4>2, <5>1 DEF Feeds
        <5>. QED  BY <1>2, <5>2
      <4>. QED  BY <3>3, <3>5, <4>1, <4>2
    <3>7. TrueSources[m] \subseteq TrueSources[i]
      BY <3>1, <3>6
    <3>. QED  BY <1>4, <2>1, <2>2, <3>1, <3>7 DEF Reached
  <2>. QED  BY <1>4, <2>3, <2>4
<1>5. S \in SUBSET (Regs \cup {r}) /\ r \in S
  OBVIOUS
<1>6. Closed(S)
  <2>1. ASSUME NEW y \in S \cap Regs, NEW s \in graph[y] PROVE s \in S
    BY <1>4
  <2>. HIDE DEF S
  <2>. QED  BY <2>1 DEF Closed
<1>7. x \in S /\ x # r
  <2>1. x \in Visited(r) /\ x # r
    BY DEF getAllDependencies
  <2>. HIDE DEF S
  <2>. QED  BY <1>5, <1>6, <2>1 DEF Visited
<1>. QED  BY <1>7

(* So it is one of the registers that r depends on.                         *)
LEMMA VisitedTrue ==
  ASSUME IInv, NEW r, NEW x \in getAllDependencies(r)
  PROVE  x \in Regs /\ x \in TrueDependencies(r, End)
<1>1. x \in Regs /\ Reached(r, x) /\ x # r
  BY VisitedReached DEF getAllDependencies
<1>2. PICK n \in Nat : n = Len(window) /\ DOMAIN window = 1 .. n
  BY WindowIndexes DEF IInv
<1>3. PICK k \in DOMAIN window, d \in Regs, i \in DOMAIN window :
        /\ LastLoad(k, d, End) /\ x \in graph[d]
        /\ LastLoad(i, r, End) /\ TrueSources[k] \subseteq TrueSources[i]
  BY <1>1 DEF Reached
<1>4. x \in window[k].srcs
  <2>1. PICK p \in DOMAIN window : LastLoad(p, d, End) /\ x \in window[p].srcs
    BY <1>1, <1>3 DEF IInv, DependenciesCurrent
  <2>2. p = k
    BY <1>2, <1>3, <2>1 DEF LastLoad, End
  <2>. QED  BY <2>1, <2>2
<1>5. x \in TrueSources[k]
  BY <1>4, SourcesRecursion DEF IInv
<1>6. i \in 1 .. End - 1
  BY <1>2 DEF End
<1>7. i \in {l \in 1 .. End - 1 : LastLoad(l, r, End)}
  BY <1>3, <1>6
<1>8. x \in TrueSources[i] /\ x # r
  BY <1>3, <1>5, VisitedReached DEF getAllDependencies
<1>. QED  BY <1>1, <1>7, <1>8 DEF TrueDependencies

-----------------------------------------------------------------------------
(* What a branch is told when it decodes.                                   *)
Counting ==
  Len(window') > Len(window) =>
    LET b == window'[Len(window')]
    IN  b.load_dependence <=
          Cardinality({p \in Followed(b.srcs) \X Regs : p[2] \in TrueDependencies(p[1], End)})

(* The pairs that are counted are finitely many.                            *)
LEMMA SourcesFinite ==
  ASSUME NEW srcs \in SUBSET (Regs \cup {RFFLAGS})
  PROVE  IsFiniteSet(Followed(srcs) \X Regs)
<1>1. IsFiniteSet(Regs)
  OBVIOUS
<1>2. IsFiniteSet(Regs \cup {RFFLAGS})
  BY <1>1, FS_AddElement
<1>3. Followed(srcs) \subseteq Regs \cup {RFFLAGS}
  BY DEF Followed
<1>4. IsFiniteSet(Followed(srcs))
  BY <1>2, <1>3, FS_Subset
<1>. QED  BY <1>1, <1>4, FS_Product

(* Every step that decodes a branch counts so.                              *)
LEMMA CountingStep ==
  ASSUME IInv, [Next]_vars
  PROVE  Counting
<1>. DEFINE True(srcs) == {p \in Followed(srcs) \X Regs : p[2] \in TrueDependencies(p[1], End)}
            Walked(srcs) == {p \in Followed(srcs) \X Regs : p[2] \in getAllDependencies(p[1])}
<1>1. PICK n \in Nat : n = Len(window) /\ DOMAIN window = 1 .. n
  BY WindowIndexes DEF IInv
<1>2. SUFFICES ASSUME Len(window') > Len(window)
               PROVE  window'[Len(window')].load_dependence
                        <= Cardinality(True(window'[Len(window')].srcs))
  BY DEF Counting
<1>. HIDE DEF True
<1>3. ASSUME NEW srcs \in SUBSET (Regs \cup {RFFLAGS})
      PROVE  /\ LoadCount(srcs) <= Cardinality(True(srcs))
             /\ 0 <= Cardinality(True(srcs))
  <2>1. IsFiniteSet(Followed(srcs) \X Regs)
    BY SourcesFinite
  <2>2. Walked(srcs) \subseteq True(srcs)
    BY VisitedTrue DEF True
  <2>3. IsFiniteSet(True(srcs))
    BY <2>1, FS_Subset DEF True
  <2>4. Cardinality(Walked(srcs)) <= Cardinality(True(srcs)) /\ Cardinality(True(srcs)) \in Nat
    <3>. HIDE DEF Walked
    <3>. QED  BY <2>2, <2>3, FS_Subset, FS_CardinalityType
  <2>5. LoadCount(srcs) = Cardinality(Walked(srcs))
    BY DEF LoadCount
  <2>. HIDE DEF Walked
  <2>. QED  BY <2>4, <2>5
<1>4. CASE DecodeLoad
  <2>1. PICK dst \in Regs, srcs \in LoadSources : window' = Append(window, Load(dst, srcs))
    BY <1>4 DEF DecodeLoad
  <2>. DEFINE u == Load(dst, srcs)
  <2>2. u.load_dependence = 0 /\ u.srcs = srcs
    BY DEF Load
  <2>3. window' = Append(window, u)
    BY <2>1
  <2>. HIDE DEF u
  <2>4. window'[Len(window')] = u
    BY <2>3, AppendUop DEF IInv
  <2>5. srcs \in SUBSET (Regs \cup {RFFLAGS})
    OBVIOUS
  <2>. QED  BY <1>3, <2>2, <2>4, <2>5
<1>5. CASE DecodeBranch
  <2>1. PICK srcs \in BranchSources : window' = Append(window, Branch(srcs, LoadCount(srcs)))
    BY <1>5 DEF DecodeBranch
  <2>. DEFINE u == Branch(srcs, LoadCount(srcs))
  <2>2. u.load_dependence = LoadCount(srcs) /\ u.srcs = srcs
    BY DEF Branch
  <2>3. window' = Append(window, u)
    BY <2>1
  <2>. HIDE DEF u
  <2>4. window'[Len(window')] = u
    BY <2>3, AppendUop DEF IInv
  <2>5. srcs \in SUBSET (Regs \cup {RFFLAGS})
    OBVIOUS
  <2>. QED  BY <1>3, <2>2, <2>4, <2>5
<1>6. CASE Resolve
  <2>1. Len(window') = Len(window)
    BY <1>1, <1>6 DEF Resolve, IInv, ShapeOK
  <2>. QED  BY <1>1, <1>2, <2>1
<1>7. CASE Commit
  <2>1. window' = Tail(window) /\ window # <<>>
    BY <1>7 DEF Commit
  <2>2. Len(window') < Len(window)
    BY <1>1, <2>1 DEF IInv, ShapeOK
  <2>3. Len(window') \in Nat
    BY <2>1 DEF IInv, ShapeOK
  <2>. QED  BY <1>1, <1>2, <2>2, <2>3
<1>8. CASE UNCHANGED vars
  <2>1. Len(window') = Len(window)  BY <1>8 DEF vars
  <2>. QED  BY <1>1, <1>2, <2>1
<1>. QED  BY <1>4, <1>5, <1>6, <1>7, <1>8 DEF Next

(* The count that a branch is given never exceeds the number of registers   *)
(* that it depends on through loads in flight.                              *)
THEOREM CountBounded == Spec => NeverOvercounts
<1>1. IInv /\ [Next]_vars => [Counting]_vars
  BY CountingStep
<1>. QED  BY <1>1, Invariance, PTL DEF Spec, NeverOvercounts, Counting
=============================================================================
