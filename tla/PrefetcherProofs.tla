-------------------------- MODULE PrefetcherProofs --------------------------
(***************************************************************************)
(* Proofs about the prefetcher, for every size of its table, every number  *)
(* of lanes, every width of fetch and every sequence of uops: what its     *)
(* table has learnt and which entry it replaces; that the lanes never      *)
(* leave a queued prefetch behind, that the statistics account for every   *)
(* prefetch, and that prefetches are performed in time.                    *)
(***************************************************************************)
EXTENDS PrefetchQueue, StrideTable, SequenceTheorems, TLAPS

-----------------------------------------------------------------------------
(* The reference prediction table.                                          *)

(* The entries are ranked by their counters, each of 0 .. N - 1 once, and   *)
(* no pc has two entries.                                                   *)
States == {"Invalid", "Initial", "Transient", "SteadyState", "NoPrediction"}
Entry == [state : States, tag : PCs \cup {NoTag}, current_address : Int,
          stride : Int, lru : Nat]
RankedTable(table) ==
  /\ table \in [Indexes -> Entry]
  /\ \A i \in Indexes : table[i].lru < NUM_RPT_ENTRIES
  /\ \A i, j \in Indexes : table[i].lru = table[j].lru => i = j
  /\ \A k \in Indexes : \E i \in Indexes : table[i].lru = k
OneEntryEach ==
  \A i, j \in Indexes : rpt[i].tag = rpt[j].tag /\ rpt[i].tag # NoTag => i = j

(* What an entry has learnt is what its last addresses show.  A steady      *)
(* entry that meets one irregular step keeps its stride: then the step      *)
(* before the last was that stride.                                         *)
Learnt(e, s) ==
  /\ Len(s) >= 1 /\ s[Len(s)] = e.current_address
  /\ e.state # "Invalid"
  /\ e.state = "Initial" =>
       e.stride = 0 \/ (Len(s) >= 3 /\ Step(s, 2) = e.stride)
  /\ e.state = "Transient" => Len(s) >= 2 /\ Step(s, 1) = e.stride
  /\ e.state = "NoPrediction" => Len(s) >= 2 /\ Step(s, 1) = e.stride
  /\ e.state = "SteadyState" => e.stride = 0 \/ Shows(s, e.stride)

TableInv ==
  /\ RankedTable(rpt)
  /\ OneEntryEach
  /\ seen \in [Indexes -> Seq(Int)]
  /\ \A i \in Indexes : Len(seen[i]) <= 4
  /\ \A i \in Indexes : rpt[i].tag # NoTag => Learnt(rpt[i], seen[i])

-----------------------------------------------------------------------------
(* The addresses an entry remembers.                                        *)

LEMMA LastFour ==
  ASSUME NEW s \in Seq(Int), Len(s) <= 4, NEW addr \in Int
  PROVE  LET t == LastOf(Append(s, addr), 4)
         IN  /\ t \in Seq(Int) /\ Len(t) <= 4
             /\ Len(s) <= 3 => Len(t) = Len(s) + 1
             /\ Len(s) = 4 => Len(t) = 4
             /\ t[Len(t)] = addr
             /\ Len(s) >= 1 => Len(t) >= 2 /\ Step(t, 1) = addr - s[Len(s)]
             /\ Len(s) >= 2 => Len(t) >= 3 /\ Step(t, 2) = Step(s, 1)
             /\ Len(s) >= 3 => Len(t) = 4 /\ Step(t, 3) = Step(s, 2)
<1>. DEFINE a == Append(s, addr)
            t == LastOf(a, 4)
            n == Len(s)
<1>1. n \in 0 .. 4
  <2>1. n \in Nat /\ n <= 4  OBVIOUS
  <2>. HIDE DEF n
  <2>. QED  BY <2>1
<1>2. /\ a \in Seq(Int) /\ Len(a) = n + 1 /\ a[n + 1] = addr
      /\ \A j \in 1 .. n : a[j] = s[j]
  OBVIOUS
<1>. HIDE DEF a, n
<1>3. CASE n <= 3
  <2>1. t = a
    BY <1>1, <1>2, <1>3 DEF LastOf
  <2>. HIDE DEF t
  <2>2. n >= 1 => Len(t) >= 2 /\ Step(t, 1) = addr - s[n]
    <3>1. n \in 1 .. n \/ n < 1  BY <1>1
    <3>2. n >= 1 => t[Len(t) - 1 + 1] = addr /\ t[Len(t) - 1] = s[n]
      BY <1>1, <1>2, <2>1, <3>1
    <3>. QED  BY <1>1, <1>2, <2>1, <3>2 DEF Step
  <2>3. n >= 2 => Len(t) >= 3 /\ Step(t, 2) = Step(s, 1)
    <3>1. n < 2 \/ (n \in 1 .. n /\ n - 1 \in 1 .. n)  BY <1>1
    <3>2. n >= 2 => t[Len(t) - 2 + 1] = s[n] /\ t[Len(t) - 2] = s[n - 1]
      BY <1>1, <1>2, <2>1, <3>1
    <3>3. n - 1 + 1 = n  BY <1>1
    <3>. QED  BY <1>1, <1>2, <2>1, <3>2, <3>3 DEF Step, n
  <2>4. n >= 3 => Len(t) = 4 /\ Step(t, 3) = Step(s, 2)
    <3>1. n < 3 \/ (n - 1 \in 1 .. n /\ n - 2 \in 1 .. n)  BY <1>1
    <3>2. n >= 3 => t[Len(t) - 3 + 1] = s[n - 1] /\ t[Len(t) - 3] = s[n - 2]
      BY <1>1, <1>2, <2>1, <3>1
    <3>3. n - 2 + 1 = n - 1  BY <1>1
    <3>. QED  BY <1>1, <1>2, <1>3, <2>1, <3>2, <3>3 DEF Step, n
  <2>5. t \in Seq(Int) /\ Len(t) = n + 1 /\ Len(t) <= 4 /\ t[Len(t)] = addr
    BY <1>1, <1>2, <1>3, <2>1
  <2>. QED  BY <1>1, <1>3, <2>2, <2>3, <2>4, <2>5 DEF t, a, n
<1>4. CASE n = 4
  <2>1. t = SubSeq(a, 2, 5)
    <3>1. Len(a) = 5 /\ Len(a) > 4 /\ Len(a) - 4 + 1 = 2
      BY <1>2, <1>4
    <3>. QED  BY <3>1 DEF LastOf
  <2>0. Len(a) = 5 /\ a \in Seq(Int)
    BY <1>2, <1>4
  <2>. HIDE DEF t
  <2>2. t \in Seq(Int) /\ Len(t) = 4
    <3>1. ASSUME NEW i \in 2 .. 5 PROVE a[i] \in Int
      <4>1. i \in 1 .. Len(a)  BY <2>0
      <4>. QED  BY <2>0, <4>1, ElementOfSeq
    <3>2. /\ SubSeq(a, 2, 5) \in Seq(Int)
          /\ Len(SubSeq(a, 2, 5)) = IF 2 <= 5 THEN 5 - 2 + 1 ELSE 0
      BY <3>1, SubSeqProperties
    <3>. QED  BY <2>1, <3>2
  <2>3. t[1] = a[2] /\ t[2] = a[3] /\ t[3] = a[4] /\ t[4] = a[5]
    BY <2>0, <2>1
  <2>4. a[2] = s[2] /\ a[3] = s[3] /\ a[4] = s[4] /\ a[5] = addr
    BY <1>2, <1>4
  <2>. HIDE DEF t
  <2>5. /\ Step(t, 1) = addr - s[4] /\ Step(t, 2) = s[4] - s[3] /\ Step(t, 3) = s[3] - s[2]
        /\ t[Len(t)] = addr
    BY <2>2, <2>3, <2>4 DEF Step
  <2>6. Step(s, 1) = s[4] - s[3] /\ Step(s, 2) = s[3] - s[2]
    BY <1>4 DEF Step, n
  <2>7. s[n] = s[4]
    BY <1>4
  <2>8. /\ t \in Seq(Int) /\ Len(t) <= 4 /\ ~(n <= 3) /\ Len(t) = 4 /\ t[Len(t)] = addr
        /\ Len(t) >= 2 /\ Step(t, 1) = addr - s[n]
        /\ Len(t) >= 3 /\ Step(t, 2) = Step(s, 1)
        /\ Step(t, 3) = Step(s, 2)
    BY <1>4, <2>2, <2>5, <2>6, <2>7
  <2>. QED  BY <2>8 DEF t, a, n
<1>. QED  BY <1>1, <1>3, <1>4

LEMMA TrainedEntry ==
  ASSUME NEW e \in Entry, e.state # "Invalid", NEW addr \in Int
  PROVE  LET n == Trained(e, addr)
             step == addr - e.current_address
         IN  /\ n \in Entry /\ n.tag = e.tag /\ n.lru = e.lru
             /\ n.current_address = addr
             /\ e.state = "SteadyState" => n.stride = e.stride
             /\ e.state # "SteadyState" => n.stride = step
             /\ e.state = "Initial" => n.state = IF step = e.stride THEN "SteadyState" ELSE "Transient"
             /\ e.state = "Transient" => n.state = IF step = e.stride THEN "SteadyState" ELSE "NoPrediction"
             /\ e.state = "SteadyState" => n.state = IF step = e.stride THEN "SteadyState" ELSE "Initial"
             /\ e.state = "NoPrediction" => n.state = IF step = e.stride THEN "Transient" ELSE "NoPrediction"
<1>. DEFINE step == addr - e.current_address
            next == NextState(e.state, step = e.stride)
            kept == IF e.state = "SteadyState" THEN e.stride ELSE step
<1>1. e.state \in States /\ e.stride \in Int /\ e.current_address \in Int /\ step \in Int
  BY DEF Entry
<1>2. /\ e.state = "Initial" => next = IF step = e.stride THEN "SteadyState" ELSE "Transient"
      /\ e.state = "Transient" => next = IF step = e.stride THEN "SteadyState" ELSE "NoPrediction"
      /\ e.state = "SteadyState" => next = IF step = e.stride THEN "SteadyState" ELSE "Initial"
      /\ e.state = "NoPrediction" => next = IF step = e.stride THEN "Transient" ELSE "NoPrediction"
  BY DEF NextState
<1>3. next \in States
  BY <1>1, <1>2 DEF States
<1>4. kept \in Int
  BY <1>1
<1>5. Trained(e, addr) = [e EXCEPT !.state = next, !.stride = kept, !.current_address = addr]
  BY DEF Trained
<1>. HIDE DEF next, kept
<1>6. LET n == Trained(e, addr)
      IN  /\ n \in Entry /\ n.tag = e.tag /\ n.lru = e.lru
          /\ n.current_address = addr /\ n.state = next /\ n.stride = kept
  BY <1>3, <1>4, <1>5 DEF Entry
<1>. QED  BY <1>2, <1>6 DEF kept

LEMMA LearnsOn ==
  ASSUME NEW e \in Entry, NEW s \in Seq(Int), Len(s) <= 4, Learnt(e, s), NEW addr \in Int
  PROVE  Learnt(Trained(e, addr), LastOf(Append(s, addr), 4))
<1>. DEFINE n == Trained(e, addr)
            t == LastOf(Append(s, addr), 4)
            step == addr - e.current_address
<1>1. /\ Len(t) >= 2 /\ Len(t) <= 4 /\ t[Len(t)] = addr /\ Step(t, 1) = step
      /\ Len(s) >= 2 => Len(t) >= 3 /\ Step(t, 2) = Step(s, 1)
      /\ Len(s) >= 3 => Len(t) = 4 /\ Step(t, 3) = Step(s, 2)
  BY LastFour DEF Learnt
<1>2. Len(t) \in Nat /\ Len(s) \in Nat
  BY LastFour
<1>3. /\ n \in Entry /\ n.current_address = addr
      /\ e.state = "SteadyState" => n.stride = e.stride
      /\ e.state # "SteadyState" => n.stride = step
      /\ e.state = "Initial" => n.state = IF step = e.stride THEN "SteadyState" ELSE "Transient"
      /\ e.state = "Transient" => n.state = IF step = e.stride THEN "SteadyState" ELSE "NoPrediction"
      /\ e.state = "SteadyState" => n.state = IF step = e.stride THEN "SteadyState" ELSE "Initial"
      /\ e.state = "NoPrediction" => n.state = IF step = e.stride THEN "Transient" ELSE "NoPrediction"
  BY TrainedEntry DEF Learnt
<1>4. e.state \in States \ {"Invalid"} /\ e.stride \in Int
  BY DEF Entry, Learnt
<1>. HIDE DEF n, t, step
<1>5. n.state # "Invalid"
  BY <1>3, <1>4 DEF States
<1>6. CASE e.state = "Initial"
  <2>1. e.stride = 0 \/ (Len(s) >= 3 /\ Step(s, 2) = e.stride)
    BY <1>6 DEF Learnt
  <2>2. CASE step = e.stride
    <3>1. n.state = "SteadyState" /\ n.stride = step
      BY <1>3, <1>6, <2>2
    <3>2. step = 0 \/ Shows(t, step)
      BY <1>1, <1>2, <2>1, <2>2 DEF Shows
    <3>. QED  BY <1>1, <1>2, <1>3, <3>1, <3>2 DEF Learnt, n, t
  <2>3. CASE step # e.stride
    <3>1. n.state = "Transient" /\ n.stride = step
      BY <1>3, <1>6, <2>3
    <3>. QED  BY <1>1, <1>2, <1>3, <3>1 DEF Learnt, n, t
  <2>. QED  BY <2>2, <2>3
<1>7. CASE e.state = "Transient"
  <2>1. Len(s) >= 2 /\ Step(s, 1) = e.stride
    BY <1>7 DEF Learnt
  <2>2. CASE step = e.stride
    <3>1. n.state = "SteadyState" /\ n.stride = step
      BY <1>3, <1>7, <2>2
    <3>2. Shows(t, step)
      BY <1>1, <1>2, <2>1, <2>2 DEF Shows
    <3>. QED  BY <1>1, <1>2, <1>3, <3>1, <3>2 DEF Learnt, n, t
  <2>3. CASE step # e.stride
    <3>1. n.state = "NoPrediction" /\ n.stride = step
      BY <1>3, <1>7, <2>3
    <3>. QED  BY <1>1, <1>2, <1>3, <3>1 DEF Learnt, n, t
  <2>. QED  BY <2>2, <2>3
<1>8. CASE e.state = "SteadyState"
  <2>1. e.stride = 0 \/ Shows(s, e.stride)
    BY <1>8 DEF Learnt
  <2>2. Shows(s, e.stride) => Len(s) >= 3 /\ Step(s, 1) = e.stride
    BY DEF Shows
  <2>3. CASE step = e.stride
    <3>1. n.state = "SteadyState" /\ n.stride = step
      BY <1>3, <1>8, <2>3
    <3>2. step = 0 \/ Shows(t, step)
      BY <1>1, <1>2, <2>1, <2>2, <2>3 DEF Shows
    <3>. QED  BY <1>1, <1>2, <1>3, <3>1, <3>2 DEF Learnt, n, t
  <2>4. CASE step # e.stride
    <3>1. n.state = "Initial" /\ n.stride = e.stride
      BY <1>3, <1>8, <2>4
    <3>2. e.stride = 0 \/ (Len(t) >= 3 /\ Step(t, 2) = e.stride)
      BY <1>1, <1>2, <2>1, <2>2
    <3>. QED  BY <1>1, <1>2, <1>3, <3>1, <3>2 DEF Learnt, n, t
  <2>. QED  BY <2>3, <2>4
<1>9. CASE e.state = "NoPrediction"
  <2>1. (n.state = "Transient" \/ n.state = "NoPrediction") /\ n.stride = step
    BY <1>3, <1>9
  <2>. QED  BY <1>1, <1>2, <1>3, <2>1 DEF Learnt, n, t
<1>. QED  BY <1>4, <1>6, <1>7, <1>8, <1>9 DEF States

-----------------------------------------------------------------------------
(* The order of the entries.                                                *)

EntryOf(table, n) == CHOOSE i \in Indexes : table[i].lru = n

LEMMA TableSize == NUM_RPT_ENTRIES \in Nat \ {0}
BY TableAssumption

LEMMA EntryRange ==
  ASSUME NEW table, RankedTable(table), NEW i \in Indexes
  PROVE  table[i] \in Entry /\ table[i].lru \in Indexes
<1>1. table[i] \in Entry /\ table[i].lru < NUM_RPT_ENTRIES
  BY DEF RankedTable
<1>2. table[i].lru \in Nat
  BY <1>1 DEF Entry
<1>. QED  BY <1>1, <1>2, TableSize DEF Indexes

LEMMA EntryOfRank ==
  ASSUME NEW table, RankedTable(table), NEW k \in Indexes
  PROVE  /\ EntryOf(table, k) \in Indexes /\ table[EntryOf(table, k)].lru = k
         /\ \A i \in Indexes : table[i].lru = k => i = EntryOf(table, k)
<1>1. \E i \in Indexes : table[i].lru = k
  BY DEF RankedTable
<1>2. EntryOf(table, k) \in Indexes /\ table[EntryOf(table, k)].lru = k
  BY <1>1 DEF EntryOf
<1>. QED  BY <1>2 DEF RankedTable

LEMMA SameRanks ==
  ASSUME NEW old, RankedTable(old), NEW new \in [Indexes -> Entry],
         \A i \in Indexes : new[i].lru = old[i].lru
  PROVE  /\ RankedTable(new)
         /\ \A k \in Indexes : EntryOf(new, k) = EntryOf(old, k)
<1>1. RankedTable(new)
  <2>1. \A i \in Indexes : new[i].lru < NUM_RPT_ENTRIES
    BY DEF RankedTable
  <2>2. \A i, j \in Indexes : new[i].lru = new[j].lru => i = j
    BY DEF RankedTable
  <2>3. \A k \in Indexes : \E i \in Indexes : new[i].lru = k
    BY DEF RankedTable
  <2>. QED  BY <2>1, <2>2, <2>3 DEF RankedTable
<1>2. ASSUME NEW k \in Indexes PROVE EntryOf(new, k) = EntryOf(old, k)
  <2>1. EntryOf(old, k) \in Indexes /\ old[EntryOf(old, k)].lru = k
    BY EntryOfRank
  <2>2. new[EntryOf(old, k)].lru = k
    BY <2>1
  <2>. QED  BY <1>1, <2>1, <2>2, EntryOfRank
<1>. QED  BY <1>1, <1>2

(* idx goes to the front; those that were ahead of it move back by one.     *)
ToFrontOf(old, new, idx) ==
  /\ EntryOf(new, NUM_RPT_ENTRIES - 1) = idx
  /\ \A k \in Indexes : k < NUM_RPT_ENTRIES - 1 =>
       /\ k >= old[idx].lru => EntryOf(new, k) = EntryOf(old, k + 1)
       /\ k < old[idx].lru => EntryOf(new, k) = EntryOf(old, k)
SameButRanks(old, new) ==
  \A i \in Indexes : /\ new[i].state = old[i].state /\ new[i].tag = old[i].tag
                     /\ new[i].current_address = old[i].current_address
                     /\ new[i].stride = old[i].stride

LEMMA UpdateRanks ==
  ASSUME NEW old, RankedTable(old), NEW idx \in Indexes
  PROVE  /\ RankedTable(UpdateLru(old, idx))
         /\ ToFrontOf(old, UpdateLru(old, idx), idx)
         /\ SameButRanks(old, UpdateLru(old, idx))
<1>. DEFINE N == NUM_RPT_ENTRIES
            new == UpdateLru(old, idx)
            rank(x) == IF x = idx THEN N - 1
                       ELSE IF old[x].lru > old[idx].lru THEN old[x].lru - 1 ELSE old[x].lru
<1>1. \A x \in Indexes : old[x] \in Entry /\ old[x].lru \in Indexes
  BY EntryRange
<1>2. new = [x \in Indexes |-> [old[x] EXCEPT !.lru = rank(x)]]
  BY DEF UpdateLru
<1>3. N \in Nat \ {0} /\ Indexes = 0 .. N - 1
  BY TableSize DEF Indexes
<1>. HIDE DEF N
<1>4. ASSUME NEW x \in Indexes PROVE rank(x) \in Indexes
  <2>1. old[x].lru \in 0 .. N - 1 /\ old[idx].lru \in 0 .. N - 1
    BY <1>1, <1>3
  <2>2. CASE x = idx
    BY <1>3, <2>2
  <2>3. CASE x # idx /\ old[x].lru > old[idx].lru
    BY <1>3, <2>1, <2>3
  <2>4. CASE x # idx /\ ~(old[x].lru > old[idx].lru)
    BY <1>3, <2>1, <2>4
  <2>. QED  BY <2>2, <2>3, <2>4
<1>5. ASSUME NEW x \in Indexes
      PROVE  /\ new[x] \in Entry /\ new[x].lru = rank(x)
             /\ new[x].state = old[x].state /\ new[x].tag = old[x].tag
             /\ new[x].current_address = old[x].current_address
             /\ new[x].stride = old[x].stride
  <2>1. rank(x) \in Nat  BY <1>3, <1>4
  <2>2. new[x] = [old[x] EXCEPT !.lru = rank(x)]  BY <1>2
  <2>. HIDE DEF new, rank
  <2>. QED  BY <1>1, <2>1, <2>2 DEF Entry
<1>6. new \in [Indexes -> Entry]
  BY <1>2, <1>5
<1>. HIDE DEF new
<1>7. ASSUME NEW x \in Indexes, NEW y \in Indexes, rank(x) = rank(y) PROVE x = y
  <2>1. old[x].lru = old[y].lru => x = y
    BY DEF RankedTable
  <2>2. (x # idx => old[x].lru # old[idx].lru) /\ (y # idx => old[y].lru # old[idx].lru)
    BY DEF RankedTable
  <2>3. old[x].lru \in 0 .. N - 1 /\ old[y].lru \in 0 .. N - 1 /\ old[idx].lru \in 0 .. N - 1
    BY <1>1, <1>3
  <2>. QED  BY <1>3, <1>7, <2>1, <2>2, <2>3
<1>. DEFINE was(k) == IF k = N - 1 THEN idx
                      ELSE IF k >= old[idx].lru THEN EntryOf(old, k + 1) ELSE EntryOf(old, k)
<1>8. ASSUME NEW k \in Indexes PROVE was(k) \in Indexes /\ rank(was(k)) = k
  <2>0. k \in 0 .. N - 1 /\ old[idx].lru \in 0 .. N - 1  BY <1>1, <1>3
  <2>1. CASE k = N - 1  BY <2>1
  <2>2. CASE k # N - 1 /\ k >= old[idx].lru
    <3>1. k + 1 \in Indexes  BY <1>3, <2>0, <2>2
    <3>2. EntryOf(old, k + 1) \in Indexes /\ old[EntryOf(old, k + 1)].lru = k + 1
      BY <3>1, EntryOfRank
    <3>3. EntryOf(old, k + 1) # idx  BY <2>0, <2>2, <3>2
    <3>. QED  BY <2>0, <2>2, <3>2, <3>3
  <2>3. CASE k # N - 1 /\ ~(k >= old[idx].lru)
    <3>1. EntryOf(old, k) \in Indexes /\ old[EntryOf(old, k)].lru = k
      BY EntryOfRank
    <3>2. EntryOf(old, k) # idx  BY <2>0, <2>3, <3>1
    <3>. QED  BY <2>0, <2>3, <3>1, <3>2
  <2>. QED  BY <2>1, <2>2, <2>3
<1>9. RankedTable(new)
  <2>1. \A x \in Indexes : new[x].lru < NUM_RPT_ENTRIES
    BY <1>3, <1>4, <1>5 DEF N
  <2>2. \A x, y \in Indexes : new[x].lru = new[y].lru => x = y
    BY <1>5, <1>7
  <2>3. \A k \in Indexes : \E x \in Indexes : new[x].lru = k
    <3>1. TAKE k \in Indexes
    <3>2. was(k) \in Indexes /\ new[was(k)].lru = k  BY <1>5, <1>8
    <3>. QED  BY <3>2
  <2>. QED  BY <1>6, <2>1, <2>2, <2>3 DEF RankedTable
<1>10. \A k \in Indexes : EntryOf(new, k) = was(k)
  <2>1. TAKE k \in Indexes
  <2>2. was(k) \in Indexes /\ new[was(k)].lru = k  BY <1>5, <1>8
  <2>. HIDE DEF was
  <2>. QED  BY <1>9, <2>2, EntryOfRank
<1>11. EntryOf(new, N - 1) = idx
  <2>1. N - 1 \in Indexes  BY <1>3
  <2>. QED  BY <1>10, <2>1
<1>12. ASSUME NEW k \in Indexes, k < N - 1
       PROVE  /\ k >= old[idx].lru => EntryOf(new, k) = EntryOf(old, k + 1)
              /\ k < old[idx].lru => EntryOf(new, k) = EntryOf(old, k)
  <2>1. k # N - 1 /\ k \in 0 .. N - 1 /\ old[idx].lru \in 0 .. N - 1
    BY <1>1, <1>3, <1>12
  <2>. QED  BY <1>10, <2>1
<1>. QED  BY <1>5, <1>9, <1>11, <1>12 DEF new, N, ToFrontOf, SameButRanks

LEMMA UseOfTable ==
  ASSUME RankedTable(rpt), NEW mid, RankedTable(mid), NEW idx \in Indexes,
         mid[idx].lru = rpt[idx].lru, \A x \in Indexes \ {idx} : mid[x] = rpt[x],
         rpt' = UpdateLru(mid, idx),
         \/ rpt[idx].tag = mid[idx].tag
         \/ rpt[idx].lru = 0 /\ \A x \in Indexes : rpt[x].tag # mid[idx].tag
  PROVE  LRU!Use(mid[idx].tag)
<1>. DEFINE N == NUM_RPT_ENTRIES
            tag == mid[idx].tag
            rank == rpt[idx].lru
            p == N - rank
<1>1. /\ RankedTable(rpt') /\ ToFrontOf(mid, rpt', idx)
      /\ \A i \in Indexes : rpt'[i].tag = mid[i].tag
  BY UpdateRanks DEF SameButRanks
<1>2. N \in Nat \ {0} /\ Indexes = 0 .. N - 1 /\ rank \in 0 .. N - 1
  BY TableSize, EntryRange DEF Indexes
<1>3. \A i \in Indexes : mid[i].lru = rpt[i].lru
  OBVIOUS
<1>4. \A k \in Indexes : EntryOf(mid, k) = EntryOf(rpt, k)
  BY <1>3, SameRanks DEF RankedTable
<1>5. /\ Recency = [k \in 1 .. N |-> rpt[EntryOf(rpt, N - k)].tag]
      /\ Recency' = [k \in 1 .. N |-> rpt'[EntryOf(rpt', N - k)].tag]
  BY DEF Recency, EntryAt, EntryOf
<1>6. EntryOf(rpt', N - 1) = idx
  BY <1>1 DEF ToFrontOf
<1>7. ASSUME NEW k \in Indexes, k < N - 1
      PROVE  /\ k >= rank => EntryOf(rpt', k) = EntryOf(mid, k + 1)
             /\ k < rank => EntryOf(rpt', k) = EntryOf(mid, k)
  BY <1>1, <1>7 DEF ToFrontOf
<1>8. EntryOf(rpt, rank) = idx
  BY <1>2, EntryOfRank
<1>. HIDE DEF N, rank, tag
<1>9. p \in 1 .. N /\ N - p = rank
  BY <1>2
<1>. HIDE DEF p
<1>10. \A k \in 1 .. N : Recency[k] = rpt[EntryOf(rpt, N - k)].tag
  BY <1>5
<1>11. ASSUME NEW k \in 1 .. N
       PROVE  rpt'[EntryOf(rpt', N - k)].tag =
                IF k = 1 THEN tag ELSE IF k <= p THEN Recency[k - 1] ELSE Recency[k]
  <2>1. N - k \in Indexes  BY <1>2
  <2>2. CASE k = 1
    BY <1>1, <1>6, <2>2 DEF tag
  <2>3. CASE k # 1 /\ k <= p
    <3>1. N - k < N - 1 /\ N - k >= rank /\ k - 1 \in 1 .. N /\ N - (k - 1) = N - k + 1
          /\ N - k + 1 \in Indexes
      BY <1>2, <1>9, <2>3
    <3>2. EntryOf(rpt', N - k) = EntryOf(rpt, N - k + 1)
      BY <1>4, <1>7, <2>1, <3>1
    <3>3. EntryOf(rpt, N - k + 1) \in Indexes /\ rpt[EntryOf(rpt, N - k + 1)].lru = N - k + 1
      BY <3>1, EntryOfRank
    <3>4. EntryOf(rpt, N - k + 1) # idx
      BY <1>2, <3>1, <3>3 DEF rank
    <3>5. Recency[k - 1] = rpt[EntryOf(rpt, N - k + 1)].tag
      BY <1>10, <3>1
    <3>. QED  BY <1>1, <2>3, <3>2, <3>3, <3>4, <3>5
  <2>4. CASE k # 1 /\ ~(k <= p)
    <3>1. N - k < N - 1 /\ N - k < rank
      BY <1>2, <1>9, <2>4
    <3>2. EntryOf(rpt', N - k) = EntryOf(rpt, N - k)
      BY <1>4, <1>7, <2>1, <3>1
    <3>3. EntryOf(rpt, N - k) \in Indexes /\ rpt[EntryOf(rpt, N - k)].lru = N - k
      BY <2>1, EntryOfRank
    <3>4. EntryOf(rpt, N - k) # idx
      BY <1>2, <3>1, <3>3 DEF rank
    <3>. QED  BY <1>1, <1>10, <2>4, <3>2, <3>3, <3>4
  <2>. QED  BY <2>2, <2>3, <2>4
<1>12. Recency' = [k \in 1 .. N |-> IF k = 1 THEN tag
                     ELSE IF k <= p THEN Recency[k - 1] ELSE Recency[k]]
  BY <1>5, <1>11
<1>13. Recency[p] = tag \/ (p = N /\ \A k \in 1 .. N : Recency[k] # tag)
  <2>1. CASE rpt[idx].tag = mid[idx].tag
    BY <1>8, <1>9, <1>10, <2>1 DEF tag
  <2>2. CASE rpt[idx].lru = 0 /\ \A x \in Indexes : rpt[x].tag # mid[idx].tag
    <3>1. p = N  BY <1>2, <1>9, <2>2 DEF rank
    <3>2. ASSUME NEW k \in 1 .. N PROVE Recency[k] # tag
      <4>1. N - k \in Indexes  BY <1>2
      <4>2. EntryOf(rpt, N - k) \in Indexes  BY <4>1, EntryOfRank
      <4>. QED  BY <1>10, <2>2, <4>2 DEF tag
    <3>. QED  BY <3>1, <3>2
  <2>. QED  BY <2>1, <2>2
<1>. QED  BY <1>9, <1>12, <1>13 DEF LRU!Use, LRU!ToFront, N, tag

-----------------------------------------------------------------------------
(* One load.  The entry of a known load is trained, that of a new one is    *)
(* made in place of the entry with counter 0.                               *)

Begun(e, load, addr) ==
  [e EXCEPT !.state = "Initial", !.tag = load, !.current_address = addr, !.stride = 0]

LEMMA BegunEntry ==
  ASSUME NEW e \in Entry, NEW load \in PCs, NEW addr \in Int
  PROVE  LET n == Begun(e, load, addr)
         IN  /\ n \in Entry /\ n.lru = e.lru /\ n.tag = load /\ n.stride = 0
             /\ n.state = "Initial" /\ n.current_address = addr
<1>1. "Initial" \in States /\ load \in PCs \cup {NoTag} /\ 0 \in Int
  BY DEF States
<1>. QED  BY <1>1 DEF Entry, Begun

(* mid is the table whose entry i now belongs to load and has learnt s.     *)
TrainedTable(mid, i, load, s) ==
  /\ RankedTable(mid)
  /\ mid[i].lru = rpt[i].lru /\ mid[i].tag = load
  /\ \A x \in Indexes \ {i} : mid[x] = rpt[x] /\ rpt[x].tag # load
  /\ s \in Seq(Int) /\ Len(s) <= 4 /\ Learnt(mid[i], s)
  /\ seen' = [seen EXCEPT ![i] = s]

LEMMA ReplacedEntry ==
  ASSUME RankedTable(rpt), NEW i \in Indexes, NEW e \in Entry, e.lru = rpt[i].lru
  PROVE  /\ RankedTable([rpt EXCEPT ![i] = e])
         /\ [rpt EXCEPT ![i] = e][i] = e
         /\ \A x \in Indexes \ {i} : [rpt EXCEPT ![i] = e][x] = rpt[x]
<1>. DEFINE mid == [rpt EXCEPT ![i] = e]
<1>1. rpt \in [Indexes -> Entry]
  BY DEF RankedTable
<1>2. mid \in [Indexes -> Entry] /\ mid[i] = e /\ \A x \in Indexes \ {i} : mid[x] = rpt[x]
  BY <1>1
<1>. HIDE DEF mid
<1>3. \A x \in Indexes : mid[x].lru = rpt[x].lru
  BY <1>2
<1>4. RankedTable(mid)
  BY <1>2, <1>3, SameRanks
<1>. QED  BY <1>2, <1>4 DEF mid

LEMMA KnownLoad ==
  ASSUME TableInv, NEW load \in PCs, NEW addr \in Addresses, TrainKnown(load, addr)
  PROVE  \E i \in Indexes : \E mid, s :
           /\ TrainedTable(mid, i, load, s)
           /\ rpt[i].tag = load
           /\ mid[i].stride # 0 => rpt' = UpdateLru(mid, i)
           /\ mid[i].stride = 0 => rpt' = mid
<1>1. PICK i \in Holding(load) :
        /\ rpt' = Touched([rpt EXCEPT ![i] = Trained(rpt[i], addr)], i)
        /\ seen' = [seen EXCEPT ![i] = LastOf(Append(seen[i], addr), 4)]
  <2>1. /\ rpt \in [Indexes -> Entry] /\ seen \in [Indexes -> Seq(Int)]
    BY DEF TableInv, RankedTable
  <2>. QED  BY <2>1 DEF TrainKnown, Holding
<1>. DEFINE e == Trained(rpt[i], addr)
            mid == [rpt EXCEPT ![i] = e]
            s == LastOf(Append(seen[i], addr), 4)
<1>2. i \in Indexes /\ rpt[i].tag = load /\ load # NoTag /\ addr \in Int
  BY TableAssumption DEF Holding
<1>3. /\ RankedTable(rpt) /\ OneEntryEach
      /\ seen[i] \in Seq(Int) /\ Len(seen[i]) <= 4 /\ Learnt(rpt[i], seen[i])
  BY <1>2 DEF TableInv
<1>4. rpt[i] \in Entry /\ rpt[i].state # "Invalid"
  BY <1>2, <1>3, EntryRange DEF Learnt
<1>5. e \in Entry /\ e.tag = rpt[i].tag /\ e.lru = rpt[i].lru
  BY <1>2, <1>4, TrainedEntry
<1>6. Learnt(e, s)
  BY <1>2, <1>3, <1>4, LearnsOn
<1>7. s \in Seq(Int) /\ Len(s) <= 4
  BY <1>2, <1>3, LastFour
<1>8. seen' = [seen EXCEPT ![i] = s] /\ rpt' = Touched(mid, i)
  BY <1>1
<1>. HIDE DEF e, s
<1>9. /\ RankedTable(mid) /\ mid[i] = e
      /\ \A x \in Indexes \ {i} : mid[x] = rpt[x]
  BY <1>2, <1>3, <1>5, ReplacedEntry
<1>10. \A x \in Indexes \ {i} : rpt[x].tag # load
  BY <1>2, <1>3 DEF OneEntryEach
<1>. HIDE DEF mid
<1>11. TrainedTable(mid, i, load, s)
  BY <1>2, <1>5, <1>6, <1>7, <1>8, <1>9, <1>10 DEF TrainedTable
<1>. QED  BY <1>2, <1>8, <1>11 DEF Touched

LEMMA NewLoad ==
  ASSUME TableInv, NEW load \in PCs, NEW addr \in Addresses, TrainNew(load, addr)
  PROVE  \E i \in Indexes : \E mid, s :
           /\ TrainedTable(mid, i, load, s)
           /\ rpt[i].lru = 0 /\ \A x \in Indexes : rpt[x].tag # load
           /\ mid[i].stride = 0 /\ Len(s) = 1
           /\ rpt' = UpdateLru(mid, i)
<1>. DEFINE v == VictimWay
            e == Begun(rpt[v], load, addr)
            mid == [rpt EXCEPT ![v] = e]
            s == <<addr>>
<1>1. RankedTable(rpt) /\ rpt \in [Indexes -> Entry]
  BY DEF TableInv, RankedTable
<1>2. v \in Indexes /\ rpt[v].lru = 0
  <2>1. 0 \in Indexes  BY TableSize DEF Indexes
  <2>. QED  BY <1>1, <2>1, EntryOfRank DEF VictimWay, EntryOf
<1>. HIDE DEF v
<1>3. rpt[v] \in Entry /\ addr \in Int /\ load \in PCs \cup {NoTag}
  BY <1>1, <1>2, TableAssumption
<1>4. /\ e \in Entry /\ e.lru = rpt[v].lru /\ e.tag = load /\ e.stride = 0
      /\ e.state = "Initial" /\ e.current_address = addr
  BY <1>3, BegunEntry
<1>5. [rpt EXCEPT ![v].state = "Initial", ![v].tag = load,
                  ![v].current_address = addr, ![v].stride = 0] = mid
  BY <1>1, <1>2 DEF Begun
<1>6. rpt' = UpdateLru(mid, v) /\ seen' = [seen EXCEPT ![v] = s]
  BY <1>5 DEF TrainNew, Evicting, v
<1>. HIDE DEF e
<1>7. /\ RankedTable(mid) /\ mid[v] = e
      /\ \A x \in Indexes \ {v} : mid[x] = rpt[x]
  BY <1>1, <1>2, <1>4, ReplacedEntry
<1>8. \A x \in Indexes : rpt[x].tag # load
  BY DEF TrainNew, Holding
<1>9. s \in Seq(Int) /\ Len(s) = 1 /\ s[1] = addr
  BY <1>3
<1>. HIDE DEF mid, s
<1>10. Learnt(e, s)
  BY <1>4, <1>9 DEF Learnt
<1>11. TrainedTable(mid, v, load, s)
  BY <1>2, <1>4, <1>6, <1>7, <1>8, <1>9, <1>10 DEF TrainedTable
<1>. QED  BY <1>2, <1>4, <1>6, <1>7, <1>8, <1>9, <1>11

LEMMA TableStep ==
  ASSUME TableInv, NEW i \in Indexes, NEW mid, NEW load \in PCs, NEW s,
         TrainedTable(mid, i, load, s), rpt' = mid \/ rpt' = UpdateLru(mid, i)
  PROVE  TableInv'
<1>1. RankedTable(rpt') /\ SameButRanks(mid, rpt')
  <2>1. CASE rpt' = mid
    BY <2>1 DEF TrainedTable, SameButRanks
  <2>2. CASE rpt' = UpdateLru(mid, i)
    BY <2>2, UpdateRanks DEF TrainedTable
  <2>. QED  BY <2>1, <2>2
<1>2. /\ mid[i].tag = load /\ s \in Seq(Int) /\ Len(s) <= 4 /\ Learnt(mid[i], s)
      /\ \A x \in Indexes \ {i} : mid[x] = rpt[x] /\ rpt[x].tag # load
      /\ seen' = [seen EXCEPT ![i] = s]
  BY DEF TrainedTable
<1>3. /\ \A x, y \in Indexes : rpt[x].tag = rpt[y].tag /\ rpt[x].tag # NoTag => x = y
      /\ seen \in [Indexes -> Seq(Int)]
      /\ \A x \in Indexes : Len(seen[x]) <= 4
      /\ \A x \in Indexes : rpt[x].tag # NoTag => Learnt(rpt[x], seen[x])
  BY DEF TableInv, OneEntryEach
<1>4. ASSUME NEW x \in Indexes, NEW y \in Indexes, rpt'[x].tag = rpt'[y].tag,
             rpt'[x].tag # NoTag
      PROVE  x = y
  <2>1. mid[x].tag = mid[y].tag /\ mid[x].tag # NoTag
    BY <1>1, <1>4 DEF SameButRanks
  <2>2. (x # i => mid[x] = rpt[x] /\ rpt[x].tag # load) /\ (y # i => mid[y] = rpt[y] /\ rpt[y].tag # load)
    BY <1>2
  <2>. QED  BY <1>2, <1>3, <2>1, <2>2
<1>5. /\ seen'[i] = s
      /\ \A x \in Indexes \ {i} : seen'[x] = seen[x]
      /\ seen' \in [Indexes -> Seq(Int)]
  BY <1>2, <1>3
<1>6. \A x \in Indexes : Len(seen'[x]) <= 4
  BY <1>2, <1>3, <1>5
<1>7. ASSUME NEW x \in Indexes, rpt'[x].tag # NoTag
      PROVE  Learnt(rpt'[x], seen'[x])
  <2>1. Learnt(mid[x], seen'[x])
    <3>1. mid[x].tag # NoTag
      BY <1>1, <1>7 DEF SameButRanks
    <3>2. CASE x = i
      BY <1>2, <1>5, <3>2
    <3>3. CASE x # i
      BY <1>2, <1>3, <1>5, <3>1, <3>3
    <3>. QED  BY <3>2, <3>3
  <2>2. /\ rpt'[x].state = mid[x].state /\ rpt'[x].stride = mid[x].stride
        /\ rpt'[x].current_address = mid[x].current_address
    BY <1>1 DEF SameButRanks
  <2>. QED  BY <2>1, <2>2 DEF Learnt
<1>. QED  BY <1>1, <1>4, <1>5, <1>6, <1>7 DEF TableInv, OneEntryEach

LEMMA TableInvInit == TableInit => TableInv
<1>. SUFFICES ASSUME TableInit PROVE TableInv  OBVIOUS
<1>1. rpt = [i \in Indexes |-> [state |-> "Invalid", tag |-> NoTag,
                                current_address |-> 0, stride |-> -1, lru |-> i]]
  BY DEF TableInit
<1>2. \A i \in Indexes : i \in Nat /\ i < NUM_RPT_ENTRIES
  BY TableSize DEF Indexes
<1>3. \A i \in Indexes : [state |-> "Invalid", tag |-> NoTag, current_address |-> 0,
                          stride |-> -1, lru |-> i] \in Entry
  BY <1>2 DEF Entry, States
<1>4. rpt \in [Indexes -> Entry]
  BY <1>1, <1>3
<1>5. \A i \in Indexes : rpt[i].lru = i /\ rpt[i].tag = NoTag
  BY <1>1
<1>6. RankedTable(rpt)
  BY <1>2, <1>4, <1>5 DEF RankedTable
<1>7. /\ seen \in [Indexes -> Seq(Int)]
      /\ \A i \in Indexes : Len(seen[i]) <= 4
  <2>1. seen = [i \in Indexes |-> <<>>]  BY DEF TableInit
  <2>. QED  BY <2>1
<1>. QED  BY <1>5, <1>6, <1>7 DEF TableInv, OneEntryEach

LEMMA TableInvNext == TableInv /\ [TableNext]_TableVars => TableInv'
<1>1. ASSUME TableInv, TableNext PROVE TableInv'
  <2>1. PICK load \in PCs, addr \in Addresses : TrainKnown(load, addr) \/ TrainNew(load, addr)
    BY <1>1 DEF TableNext, Load
  <2>2. CASE TrainKnown(load, addr)
    <3>1. PICK i \in Indexes : \E mid, s :
            TrainedTable(mid, i, load, s) /\ (rpt' = mid \/ rpt' = UpdateLru(mid, i))
      BY <1>1, <2>2, KnownLoad
    <3>2. PICK mid, s :
            TrainedTable(mid, i, load, s) /\ (rpt' = mid \/ rpt' = UpdateLru(mid, i))
      BY <3>1
    <3>. QED  BY <1>1, <3>2, TableStep
  <2>3. CASE TrainNew(load, addr)
    <3>1. PICK i \in Indexes : \E mid, s :
            TrainedTable(mid, i, load, s) /\ rpt' = UpdateLru(mid, i)
      BY <1>1, <2>3, NewLoad
    <3>2. PICK mid, s : TrainedTable(mid, i, load, s) /\ rpt' = UpdateLru(mid, i)
      BY <3>1
    <3>. QED  BY <1>1, <3>2, TableStep
  <2>. QED  BY <2>1, <2>2, <2>3
<1>2. ASSUME TableInv, UNCHANGED TableVars PROVE TableInv'
  BY <1>2 DEF TableVars, TableInv, OneEntryEach
<1>. QED  BY <1>1, <1>2

-----------------------------------------------------------------------------
(* Theorems.                                                                *)

(* No load has two entries, the counters are the ranks of the entries, and  *)
(* what an entry has learnt is what its last addresses show.                *)
THEOREM StrideInvariance == TableSpec => []TableInv
BY TableInvInit, TableInvNext, PTL DEF TableSpec

SeenStrideStep ==
  generated' # None =>
    \E i \in Indexes :
      /\ Len(seen[i]) >= 3
      /\ generated' = Last(seen[i]) + 2 * Step(seen[i], 1)
      /\ Shows(seen[i], Step(seen[i], 1))

LEMMA SeenStride == TableInv /\ [TableNext]_TableVars => [SeenStrideStep]_TableVars
<1>1. ASSUME TableInv, TableNext PROVE SeenStrideStep
  <2>1. PICK load \in PCs : generated' = Lookahead(load)
    BY <1>1 DEF TableNext, Load
  <2>2. SUFFICES ASSUME generated' # None
                 PROVE  \E i \in Indexes :
                          /\ Len(seen[i]) >= 3
                          /\ generated' = Last(seen[i]) + 2 * Step(seen[i], 1)
                          /\ Shows(seen[i], Step(seen[i], 1))
    BY DEF SeenStrideStep
  <2>. DEFINE i == CHOOSE x \in Holding(load) : TRUE
  <2>3. \E x \in Holding(load) : rpt[x].state = "SteadyState" /\ rpt[x].stride # 0
    BY <2>1, <2>2 DEF Lookahead
  <2>4. i \in Holding(load)
    BY <2>3
  <2>5. generated' = rpt[i].current_address + rpt[i].stride * 2
    BY <2>1, <2>3 DEF Lookahead, PREFETCH_MULTIPLIER
  <2>6. i \in Indexes /\ rpt[i].tag = load /\ load # NoTag
    BY <2>4, TableAssumption DEF Holding
  <2>. HIDE DEF i
  <2>7. rpt[i].state = "SteadyState" /\ rpt[i].stride # 0
    BY <1>1, <2>3, <2>6 DEF Holding, TableInv, OneEntryEach
  <2>8. Learnt(rpt[i], seen[i]) /\ seen[i] \in Seq(Int)
    BY <1>1, <2>6 DEF TableInv
  <2>9. rpt[i].stride \in Int
    <3>1. rpt[i] \in Entry  BY <1>1, <2>6, EntryRange DEF TableInv
    <3>. QED  BY <3>1 DEF Entry
  <2>10. Shows(seen[i], rpt[i].stride) /\ seen[i][Len(seen[i])] = rpt[i].current_address
    BY <2>7, <2>8 DEF Learnt
  <2>11. Len(seen[i]) >= 3 /\ Step(seen[i], 1) = rpt[i].stride
    BY <2>10 DEF Shows
  <2>12. Last(seen[i]) = rpt[i].current_address
    BY <2>10 DEF Last
  <2>13. rpt[i].stride * 2 = 2 * rpt[i].stride
    BY <2>9
  <2>. QED  BY <2>5, <2>6, <2>10, <2>11, <2>12, <2>13
<1>2. ASSUME UNCHANGED TableVars PROVE [SeenStrideStep]_TableVars
  BY <1>2
<1>. QED  BY <1>1, <1>2

(* Only strides that the load's last addresses show are prefetched for      *)
(* (lookahead() in its steady state).                                       *)
THEOREM StridesSeen == TableSpec => PrefetchesSeenStride
<1>1. TableSpec => [][SeenStrideStep]_TableVars
  BY SeenStride, StrideInvariance, PTL DEF TableSpec
<1>. QED  BY <1>1 DEF PrefetchesSeenStride, SeenStrideStep

LruStep ==
  \A i \in Indexes : seen'[i] # seen[i] /\ rpt'[i].stride # 0 => LRU!Use(rpt'[i].tag)

LEMMA LruInit == TableInit => LRU!Init
<1>. SUFFICES ASSUME TableInit PROVE LRU!Init  OBVIOUS
<1>1. RankedTable(rpt)
  BY TableInvInit DEF TableInv
<1>2. \A i \in Indexes : rpt[i].tag = NoTag
  BY DEF TableInit
<1>3. ASSUME NEW k \in 1 .. NUM_RPT_ENTRIES
      PROVE  rpt[EntryAt(NUM_RPT_ENTRIES - k)].tag = NoTag
  <2>1. NUM_RPT_ENTRIES - k \in Indexes  BY TableSize DEF Indexes
  <2>2. EntryOf(rpt, NUM_RPT_ENTRIES - k) \in Indexes  BY <1>1, <2>1, EntryOfRank
  <2>. QED  BY <1>2, <2>2 DEF EntryAt, EntryOf
<1>. QED  BY <1>3 DEF LRU!Init, Recency

LEMMA LruNext ==
  ASSUME TableInv, TableNext
  PROVE  ((\E b \in PCs : LRU!Use(b)) \/ Recency' = Recency) /\ LruStep
<1>1. PICK load \in PCs, addr \in Addresses : TrainKnown(load, addr) \/ TrainNew(load, addr)
  BY DEF TableNext, Load
<1>2. RankedTable(rpt) /\ seen \in [Indexes -> Seq(Int)]
  BY DEF TableInv
<1>3. ASSUME NEW i \in Indexes, NEW mid, NEW s, TrainedTable(mid, i, load, s),
             rpt' = UpdateLru(mid, i),
             rpt[i].tag = load \/ (rpt[i].lru = 0 /\ \A x \in Indexes : rpt[x].tag # load)
      PROVE  LRU!Use(load) /\ LruStep
  <2>1. /\ RankedTable(mid) /\ mid[i].lru = rpt[i].lru /\ mid[i].tag = load
        /\ \A x \in Indexes \ {i} : mid[x] = rpt[x]
        /\ seen' = [seen EXCEPT ![i] = s]
    BY <1>3 DEF TrainedTable
  <2>2. LRU!Use(mid[i].tag)
    BY <1>2, <1>3, <2>1, UseOfTable
  <2>3. rpt'[i].tag = load
    BY <1>3, <2>1, UpdateRanks DEF SameButRanks
  <2>4. \A x \in Indexes \ {i} : seen'[x] = seen[x]
    BY <1>2, <2>1
  <2>. QED  BY <2>1, <2>2, <2>3, <2>4 DEF LruStep
<1>4. CASE TrainKnown(load, addr)
  <2>0. PICK i \in Indexes : \E mid, s :
          /\ TrainedTable(mid, i, load, s) /\ rpt[i].tag = load
          /\ mid[i].stride # 0 => rpt' = UpdateLru(mid, i)
          /\ mid[i].stride = 0 => rpt' = mid
    BY <1>4, KnownLoad
  <2>1. PICK mid, s :
          /\ TrainedTable(mid, i, load, s) /\ rpt[i].tag = load
          /\ mid[i].stride # 0 => rpt' = UpdateLru(mid, i)
          /\ mid[i].stride = 0 => rpt' = mid
    BY <2>0
  <2>2. CASE mid[i].stride # 0
    BY <1>3, <2>1, <2>2
  <2>3. CASE mid[i].stride = 0
    <3>1. /\ RankedTable(mid) /\ mid[i].lru = rpt[i].lru /\ mid[i].tag = load
          /\ \A x \in Indexes \ {i} : mid[x] = rpt[x]
          /\ seen' = [seen EXCEPT ![i] = s]
      BY <2>1 DEF TrainedTable
    <3>2. rpt' = mid
      BY <2>1, <2>3
    <3>3. /\ \A x \in Indexes \ {i} : seen'[x] = seen[x]
          /\ rpt'[i].stride = 0
      BY <1>2, <2>3, <3>1, <3>2
    <3>4. \A k \in Indexes : EntryOf(mid, k) = EntryOf(rpt, k)
      <4>1. \A x \in Indexes : mid[x].lru = rpt[x].lru  BY <3>1
      <4>. QED  BY <1>2, <3>1, <4>1, SameRanks DEF RankedTable
    <3>5. ASSUME NEW k \in 1 .. NUM_RPT_ENTRIES
          PROVE  mid[EntryOf(mid, NUM_RPT_ENTRIES - k)].tag = rpt[EntryOf(rpt, NUM_RPT_ENTRIES - k)].tag
      <4>1. NUM_RPT_ENTRIES - k \in Indexes  BY TableSize DEF Indexes
      <4>2. EntryOf(rpt, NUM_RPT_ENTRIES - k) \in Indexes  BY <1>2, <4>1, EntryOfRank
      <4>3. \A x \in Indexes : mid[x].tag = rpt[x].tag  BY <2>1, <3>1
      <4>. QED  BY <3>4, <4>1, <4>2, <4>3
    <3>6. /\ Recency = [k \in 1 .. NUM_RPT_ENTRIES |-> rpt[EntryOf(rpt, NUM_RPT_ENTRIES - k)].tag]
          /\ Recency' = [k \in 1 .. NUM_RPT_ENTRIES |-> rpt'[EntryOf(rpt', NUM_RPT_ENTRIES - k)].tag]
      BY DEF Recency, EntryAt, EntryOf
    <3>7. Recency' = Recency
      BY <3>2, <3>5, <3>6
    <3>. QED  BY <3>3, <3>7 DEF LruStep
  <2>. QED  BY <2>2, <2>3
<1>5. CASE TrainNew(load, addr)
  <2>0. PICK i \in Indexes : \E mid, s :
          /\ TrainedTable(mid, i, load, s)
          /\ rpt[i].lru = 0 /\ \A x \in Indexes : rpt[x].tag # load
          /\ rpt' = UpdateLru(mid, i)
    BY <1>5, NewLoad
  <2>1. PICK mid, s :
          /\ TrainedTable(mid, i, load, s)
          /\ rpt[i].lru = 0 /\ \A x \in Indexes : rpt[x].tag # load
          /\ rpt' = UpdateLru(mid, i)
    BY <2>0
  <2>. QED  BY <1>3, <2>1
<1>. QED  BY <1>1, <1>4, <1>5

(* The table implements least-recently-used replacement: training an entry  *)
(* with a stride moves it to the front, a new load replaces the last, and   *)
(* an entry of stride 0 is left where it is (train()).                      *)
THEOREM StrideReplacement == TableSpec => ReplacesLRU
<1>1. TableInv /\ [TableNext]_TableVars => [\E b \in PCs : LRU!Use(b)]_Recency
  <2>1. ASSUME UNCHANGED TableVars PROVE Recency' = Recency
    BY <2>1 DEF TableVars, Recency, EntryAt
  <2>. QED  BY <2>1, LruNext
<1>2. TableInv /\ [TableNext]_TableVars => [LruStep]_TableVars
  BY LruNext
<1>3. TableSpec => LRU!Spec
  BY <1>1, LruInit, StrideInvariance, PTL DEF TableSpec, LRU!Spec, LRU!Next
<1>4. TableSpec => [][LruStep]_TableVars
  BY <1>2, StrideInvariance, PTL DEF TableSpec
<1>. QED  BY <1>3, <1>4 DEF ReplacesLRU, LruStep

-----------------------------------------------------------------------------
(* The queue of prefetches.                                                 *)

USE QueueAssumption

Prefetches == [line : Lines, cycle_generated : Nat]
Counts == [generated : Int, issued : Int, dropped : Int, put_back : Int,
           issued_to_mem : Int]

TypeInv ==
  /\ pc \in {"uop", "drain", "advance", "abort"}
  /\ fetch_cycle \in Nat /\ previous_fetch_cycle \in Nat /\ base_cycle \in Nat
  /\ num_uop \in Nat /\ num_fetched \in Nat
  /\ booked \in [Cycles -> Nat]
  /\ queue \in Seq(Prefetches)
  /\ stats \in Counts

(* The queue is in the order of generation, it holds nothing older than the *)
(* lanes' base, and the base is not ahead of fetch.                         *)
QueueInv ==
  /\ base_cycle <= fetch_cycle
  /\ \A k \in DOMAIN queue : base_cycle <= queue[k].cycle_generated
  /\ \A j, k \in DOMAIN queue :
       j < k => queue[j].cycle_generated <= queue[k].cycle_generated

IInv == TypeInv /\ QueueInv /\ NoAbort /\ StatsBalance

(* The counters.                                                            *)
Counted(g, i, d, p, m) ==
  [generated |-> g, issued |-> i, dropped |-> d, put_back |-> p, issued_to_mem |-> m]

LEMMA TheCounters ==
  ASSUME NEW s \in Counts
  PROVE  \E g, i, d, p, m \in Int : s = Counted(g, i, d, p, m)
BY DEF Counts, Counted

(* Counting leaves the other counters alone.                                *)
LEMMA CountGenerated ==
  ASSUME IInv, stats' = [stats EXCEPT !.generated = @ + 1]
  PROVE  \E g, i, d, p, m \in Int : /\ stats = Counted(g, i, d, p, m)
                                   /\ stats' = Counted(g + 1, i, d, p, m)
<1>1. PICK g, i, d, p, m \in Int : stats = Counted(g, i, d, p, m)
  BY TheCounters DEF IInv, TypeInv
<1>2. stats.generated = g
  BY <1>1 DEF Counted
<1>3. stats' = [stats EXCEPT !.generated = g + 1]
  BY <1>2, Zenon
<1>4. [stats EXCEPT !.generated = g + 1] = Counted(g + 1, i, d, p, m)
  BY <1>1 DEF Counted
<1>. QED  BY <1>1, <1>3, <1>4

LEMMA CountDropped ==
  ASSUME IInv, stats' = [stats EXCEPT !.dropped = @ + 1]
  PROVE  \E g, i, d, p, m \in Int : /\ stats = Counted(g, i, d, p, m)
                                   /\ stats' = Counted(g, i, d + 1, p, m)
<1>1. PICK g, i, d, p, m \in Int : stats = Counted(g, i, d, p, m)
  BY TheCounters DEF IInv, TypeInv
<1>2. stats.dropped = d
  BY <1>1 DEF Counted
<1>3. stats' = [stats EXCEPT !.dropped = d + 1]
  BY <1>2, Zenon
<1>4. [stats EXCEPT !.dropped = d + 1] = Counted(g, i, d + 1, p, m)
  BY <1>1 DEF Counted
<1>. QED  BY <1>1, <1>3, <1>4

LEMMA CountIssued ==
  ASSUME IInv, stats' = [stats EXCEPT !.issued = @ + 1, !.issued_to_mem = @ + 1]
  PROVE  \E g, i, d, p, m \in Int : /\ stats = Counted(g, i, d, p, m)
                                   /\ stats' = Counted(g, i + 1, d, p, m + 1)
<1>1. PICK g, i, d, p, m \in Int : stats = Counted(g, i, d, p, m)
  BY TheCounters DEF IInv, TypeInv
<1>2. stats.issued = i /\ stats.issued_to_mem = m
  BY <1>1 DEF Counted
<1>3. PICK t : t = [stats EXCEPT !.issued = i + 1]
  OBVIOUS
<1>4. t = Counted(g, i + 1, d, p, m)
  BY <1>1, <1>3 DEF Counted
<1>5. stats' = [t EXCEPT !.issued_to_mem = m + 1]
  BY <1>2, <1>3, Zenon
<1>6. [t EXCEPT !.issued_to_mem = m + 1] = Counted(g, i + 1, d, p, m + 1)
  BY <1>4 DEF Counted
<1>7. stats' = Counted(g, i + 1, d, p, m + 1)
  BY <1>5, <1>6, Zenon
<1>. QED  BY <1>1, <1>7

LEMMA CountPutBack ==
  ASSUME IInv, stats' = [stats EXCEPT !.issued = @ + 1, !.put_back = @ + 1]
  PROVE  \E g, i, d, p, m \in Int : /\ stats = Counted(g, i, d, p, m)
                                   /\ stats' = Counted(g, i + 1, d, p + 1, m)
<1>1. PICK g, i, d, p, m \in Int : stats = Counted(g, i, d, p, m)
  BY TheCounters DEF IInv, TypeInv
<1>2. stats.issued = i /\ stats.put_back = p
  BY <1>1 DEF Counted
<1>3. PICK t : t = [stats EXCEPT !.issued = i + 1]
  OBVIOUS
<1>4. t = Counted(g, i + 1, d, p, m)
  BY <1>1, <1>3 DEF Counted
<1>5. stats' = [t EXCEPT !.put_back = p + 1]
  BY <1>2, <1>3, Zenon
<1>6. [t EXCEPT !.put_back = p + 1] = Counted(g, i + 1, d, p + 1, m)
  BY <1>4 DEF Counted
<1>7. stats' = Counted(g, i + 1, d, p + 1, m)
  BY <1>5, <1>6, Zenon
<1>. QED  BY <1>1, <1>7

(* How the counters balance with the number of queued prefetches.           *)
Balance(g, i, d, p, m, n) == m = i - p /\ g = m + d + n

LEMMA BalanceOf ==
  ASSUME NEW g \in Int, NEW i \in Int, NEW d \in Int, NEW p \in Int, NEW m \in Int,
         stats = Counted(g, i, d, p, m)
  PROVE  StatsBalance <=> Balance(g, i, d, p, m, Len(queue))
BY DEF Counted, StatsBalance, Balance

LEMMA Initially == Init => IInv
<1>. SUFFICES ASSUME Init PROVE IInv
  OBVIOUS
<1>1. queue \in Seq(Prefetches) /\ Len(queue) = 0 /\ DOMAIN queue = {}
  BY DEF Init
<1>2. TypeInv
  BY <1>1 DEF Init, TypeInv, Counts
<1>. QED  BY <1>1, <1>2 DEF Init, IInv, QueueInv, NoAbort, StatsBalance

-----------------------------------------------------------------------------
(* The queue.                                                               *)

(* A sorted queue holds as many prefetches, each of which was there before, *)
(* in the order of generation.                                              *)
LEMMA SortedQueue ==
  ASSUME NEW pfs \in Seq(Prefetches), NEW q \in Sorted(pfs)
  PROVE  /\ q \in Seq(Prefetches) /\ Len(q) = Len(pfs) /\ DOMAIN q = DOMAIN pfs
         /\ \A k \in DOMAIN q : \E i \in DOMAIN pfs : q[k] = pfs[i]
         /\ \A j, k \in DOMAIN q : j < k => q[j].cycle_generated <= q[k].cycle_generated
<1>1. PICK p \in [DOMAIN pfs -> DOMAIN pfs] : q = [k \in DOMAIN pfs |-> pfs[p[k]]]
  BY Zenon DEF Sorted, Bijection, Injection
<1>2. PICK n \in Nat : n = Len(pfs) /\ DOMAIN pfs = 1 .. n
  OBVIOUS
<1>3. \A k \in 1 .. n : p[k] \in 1 .. n /\ pfs[p[k]] \in Prefetches
  BY <1>1, <1>2
<1>4. q = [k \in 1 .. n |-> pfs[p[k]]]
  BY <1>1, <1>2
<1>5. q \in Seq(Prefetches) /\ Len(q) = n /\ DOMAIN q = 1 .. n
  BY <1>3, <1>4
<1>6. \A k \in DOMAIN q : \E i \in DOMAIN pfs : q[k] = pfs[i]
  BY <1>2, <1>3, <1>4
<1>7. ASSUME NEW j \in DOMAIN q, NEW k \in DOMAIN q, j < k
      PROVE  q[j].cycle_generated <= q[k].cycle_generated
  <2>1. ~Older(q[k], q[j])
    BY <1>2, <1>5, <1>7, Zenon DEF Sorted
  <2>2. q[j] \in Prefetches /\ q[k] \in Prefetches
    BY <1>5
  <2>. QED  BY <2>1, <2>2 DEF Older, Prefetches
<1>. QED  BY <1>2, <1>5, <1>6, <1>7

(* A prefetch is generated in the present, and counted.                     *)
LEMMA GenerateStep ==
  ASSUME IInv, fetch_cycle' \in Nat, fetch_cycle' >= fetch_cycle,
         base_cycle' = base_cycle, NEW line \in Lines, Generate(line)
  PROVE  /\ queue' \in Seq(Prefetches) /\ stats' \in Counts
         /\ QueueInv' /\ StatsBalance'
<1>. USE DEF IInv, TypeInv
<1>. DEFINE pf == [line |-> line, cycle_generated |-> fetch_cycle']
            old == \E k \in DOMAIN queue : queue[k].line = line
<1>1. CASE old
  <2>1. UNCHANGED <<queue, stats>>  BY <1>1, Zenon DEF Generate
  <2>. QED  BY <2>1 DEF QueueInv, StatsBalance
<1>2. CASE ~old
  <2>1. queue' \in Sorted(Append(queue, pf))  BY <1>2, Zenon DEF Generate
  <2>2. stats' = [stats EXCEPT !.generated = @ + 1]  BY <1>2, Zenon DEF Generate
  <2>3. pf \in Prefetches  BY DEF Prefetches
  <2>4. PICK n \in Nat : n = Len(queue) /\ DOMAIN queue = 1 .. n
    OBVIOUS
  <2>5. PICK pfs : pfs = Append(queue, pf)
    OBVIOUS
  <2>6. /\ pfs \in Seq(Prefetches) /\ Len(pfs) = n + 1 /\ DOMAIN pfs = 1 .. n + 1
        /\ \A k \in 1 .. n : pfs[k] = queue[k]
        /\ pfs[n + 1] = pf
    BY <2>3, <2>4, <2>5
  <2>7. \A k \in 1 .. n + 1 : pfs[k].cycle_generated >= base_cycle
    <3>1. \A k \in 1 .. n : pfs[k].cycle_generated >= base_cycle
      BY <2>4, <2>6 DEF QueueInv, Prefetches
    <3>2. pfs[n + 1].cycle_generated >= base_cycle
      BY <2>6 DEF QueueInv
    <3>3. \A k \in 1 .. n + 1 : k \in 1 .. n \/ k = n + 1
      BY <2>4
    <3>. QED  BY <3>1, <3>2, <3>3, Zenon
  <2>8. queue' \in Sorted(pfs)  BY <2>1, <2>5
  <2>9. /\ queue' \in Seq(Prefetches) /\ Len(queue') = n + 1
        /\ \A k \in DOMAIN queue' : \E i \in 1 .. n + 1 : queue'[k] = pfs[i]
        /\ \A j, k \in DOMAIN queue' :
             j < k => queue'[j].cycle_generated <= queue'[k].cycle_generated
    BY <2>6, <2>8, SortedQueue
  <2>10. \A k \in DOMAIN queue' : base_cycle' <= queue'[k].cycle_generated
    BY <2>7, <2>9
  <2>11. QueueInv'
    BY <2>9, <2>10 DEF QueueInv
  <2>12. stats' \in Counts /\ StatsBalance'
      <3>1. PICK g, i, d, p, m \in Int :
              stats = Counted(g, i, d, p, m) /\ stats' = Counted(g + 1, i, d, p, m)
        BY <2>2, CountGenerated
      <3>3. stats' \in Counts
        BY <3>1 DEF Counted, Counts
      <3>4. Balance(g, i, d, p, m, Len(queue))
        BY <3>1, BalanceOf DEF IInv
      <3>5. Balance(g + 1, i, d, p, m, Len(queue'))
        BY <2>4, <2>9, <3>1, <3>4 DEF Balance, IInv, TypeInv
      <3>6. StatsBalance'
        BY <3>1, <3>5 DEF Counted, StatsBalance, Balance
      <3>. QED  BY <3>3, <3>6
  <2>. QED  BY <2>9, <2>11, <2>12
<1>. QED  BY <1>1, <1>2

(* Without its front a queue is still one.                                  *)
LEMMA TailStep ==
  ASSUME IInv, queue # <<>>, queue' = Tail(queue),
         UNCHANGED <<base_cycle, fetch_cycle>>
  PROVE  /\ queue' \in Seq(Prefetches) /\ Len(queue') = Len(queue) - 1
         /\ QueueInv'
<1>1. PICK n \in Nat : n = Len(queue) /\ DOMAIN queue = 1 .. n /\ n # 0
  BY DEF IInv, TypeInv
<1>2. /\ queue' \in Seq(Prefetches) /\ Len(queue') = n - 1 /\ DOMAIN queue' = 1 .. n - 1
      /\ \A k \in 1 .. n - 1 : queue'[k] = queue[k + 1]
  BY <1>1 DEF IInv, TypeInv
<1>3. \A k \in 1 .. n - 1 : k + 1 \in 1 .. n
  BY <1>1
<1>4. QueueInv'
  <2>1. \A k \in 1 .. n - 1 : base_cycle <= queue'[k].cycle_generated
    BY <1>1, <1>2, <1>3 DEF IInv, QueueInv
  <2>2. \A j, k \in 1 .. n - 1 :
          j < k => queue'[j].cycle_generated <= queue'[k].cycle_generated
    BY <1>1, <1>2, <1>3 DEF IInv, QueueInv
  <2>. QED  BY <1>2, <2>1, <2>2 DEF IInv, QueueInv
<1>. QED  BY <1>1, <1>2, <1>4

(* The front.                                                               *)
LEMMA OldestQueued ==
  ASSUME IInv, queue # <<>>
  PROVE  /\ Head(queue) \in Prefetches
         /\ Head(queue).cycle_generated \in Nat
         /\ Head(queue).cycle_generated >= base_cycle
         /\ \A k \in DOMAIN queue :
              Head(queue).cycle_generated <= queue[k].cycle_generated
<1>1. PICK n \in Nat : n = Len(queue) /\ DOMAIN queue = 1 .. n /\ n # 0
  BY DEF IInv, TypeInv
<1>2. Head(queue) = queue[1] /\ 1 \in DOMAIN queue
  BY <1>1 DEF IInv, TypeInv
<1>3. Head(queue) \in Prefetches
  BY <1>2 DEF IInv, TypeInv
<1>4. \A k \in DOMAIN queue : queue[k] \in Prefetches
  BY DEF IInv, TypeInv
<1>5. \A k \in DOMAIN queue : k = 1 \/ 1 < k
  BY <1>1
<1>. QED  BY <1>2, <1>3, <1>4, <1>5 DEF IInv, QueueInv, Prefetches

LEMMA TwoNumbers ==
  ASSUME NEW a \in Nat, NEW b \in Nat
  PROVE  /\ Max({a, b}) \in {a, b} /\ Max({a, b}) >= a /\ Max({a, b}) >= b
         /\ Min({a, b}) \in {a, b} /\ Min({a, b}) <= a /\ Min({a, b}) <= b
<1>1. \E x \in {a, b} : \A y \in {a, b} : x >= y
  BY a >= b \/ b >= a
<1>2. \E x \in {a, b} : \A y \in {a, b} : x <= y
  BY a >= b \/ b >= a
<1>. QED  BY <1>1, <1>2 DEF Max, Min

(* The first cycle that the front may use is not before the lanes' base,    *)
(* and bookings keep their type.                                            *)
LEMMA FirstCycleInBase ==
  ASSUME IInv, queue # <<>>
  PROVE  /\ FirstCycle(Head(queue)) \in Nat
         /\ FirstCycle(Head(queue)) >= base_cycle
         /\ FirstCycle(Head(queue)) >= Head(queue).cycle_generated
BY OldestQueued, TwoNumbers DEF IInv, TypeInv, FirstCycle

LEMMA BookType ==
  ASSUME TypeInv, NEW c, Book(c)
  PROVE  booked' \in [Cycles -> Nat]
<1>1. CASE c \in Cycles  BY <1>1 DEF TypeInv, Book
<1>2. CASE c \notin Cycles  BY <1>2 DEF TypeInv, Book
<1>. QED  BY <1>1, <1>2

-----------------------------------------------------------------------------
(* The steps.                                                               *)

LEMMA BeginType ==
  ASSUME TypeInv, Begin
  PROVE  /\ pc' = "drain" /\ num_uop' \in Nat
         /\ fetch_cycle' \in Nat /\ fetch_cycle' >= fetch_cycle
BY DEF TypeInv, Begin

LEMMA OtherUopStep == IInv /\ OtherUop => IInv'
<1>. SUFFICES ASSUME IInv, OtherUop PROVE IInv'
  OBVIOUS
<1>1. /\ pc' = "drain" /\ num_uop' \in Nat
      /\ fetch_cycle' \in Nat /\ fetch_cycle' >= fetch_cycle
  BY BeginType DEF IInv, OtherUop
<1>2. UNCHANGED <<previous_fetch_cycle, num_fetched, booked, base_cycle, queue, stats>>
  BY DEF OtherUop
<1>. QED  BY <1>1, <1>2 DEF IInv, TypeInv, QueueInv, NoAbort, StatsBalance

LEMMA MemoryUopStep == IInv /\ MemoryUop => IInv'
<1>. SUFFICES ASSUME IInv, MemoryUop PROVE IInv'
  OBVIOUS
<1>1. /\ pc' = "drain" /\ num_uop' \in Nat
      /\ fetch_cycle' \in Nat /\ fetch_cycle' >= fetch_cycle
  BY BeginType DEF IInv, MemoryUop
<1>2. UNCHANGED <<previous_fetch_cycle, num_fetched, base_cycle>>
  BY DEF MemoryUop
<1>3. PICK c : Book(c)
  BY Zenon DEF MemoryUop
<1>4. booked' \in [Cycles -> Nat]
  BY <1>3, BookType DEF IInv
<1>5. /\ queue' \in Seq(Prefetches) /\ stats' \in Counts
      /\ QueueInv' /\ StatsBalance'
  <2>1. CASE \E line \in Lines : Generate(line)
    BY <1>1, <1>2, <2>1, GenerateStep
  <2>2. CASE UNCHANGED <<queue, stats>>
    BY <1>1, <1>2, <2>2 DEF IInv, TypeInv, QueueInv, StatsBalance
  <2>. QED  BY <2>1, <2>2 DEF MemoryUop
<1>. QED  BY <1>1, <1>2, <1>4, <1>5 DEF IInv, TypeInv, NoAbort

LEMMA DropStep == IInv /\ Drop => IInv'
<1>. SUFFICES ASSUME IInv, Drop PROVE IInv'
  OBVIOUS
<1>1. /\ queue # <<>> /\ queue' = Tail(queue)
      /\ stats' = [stats EXCEPT !.dropped = @ + 1]
      /\ UNCHANGED <<pc, fetch_cycle, previous_fetch_cycle, num_uop, num_fetched,
                     booked, base_cycle>>
  BY DEF Drop
<1>2. queue' \in Seq(Prefetches) /\ Len(queue') = Len(queue) - 1 /\ QueueInv'
  BY <1>1, TailStep
<1>3. stats' \in Counts /\ StatsBalance'
    <2>1. PICK g, i, d, p, m \in Int :
            stats = Counted(g, i, d, p, m) /\ stats' = Counted(g, i, d + 1, p, m)
      BY <1>1, CountDropped
    <2>3. stats' \in Counts
      BY <2>1 DEF Counted, Counts
    <2>4. Balance(g, i, d, p, m, Len(queue))
      BY <2>1, BalanceOf DEF IInv
    <2>5. Balance(g, i, d + 1, p, m, Len(queue'))
      <3>1. Len(queue) \in Nat  BY DEF IInv, TypeInv
      <3>. QED  BY <1>2, <2>1, <2>4, <3>1 DEF Balance
    <2>6. StatsBalance'
      BY <2>1, <2>5 DEF Counted, StatsBalance, Balance
    <2>. QED  BY <2>3, <2>6
<1>. QED  BY <1>1, <1>2, <1>3 DEF IInv, TypeInv, NoAbort

LEMMA IssueStep == IInv /\ Issue => IInv'
<1>. SUFFICES ASSUME IInv, Issue PROVE IInv'
  OBVIOUS
<1>1. /\ queue # <<>> /\ queue' = Tail(queue)
      /\ stats' = [stats EXCEPT !.issued = @ + 1, !.issued_to_mem = @ + 1]
      /\ UNCHANGED <<fetch_cycle, previous_fetch_cycle, num_uop, num_fetched,
                     base_cycle>>
  BY DEF Issue, Ready
<1>2. queue' \in Seq(Prefetches) /\ Len(queue') = Len(queue) - 1 /\ QueueInv'
  BY <1>1, TailStep
<1>3. stats' \in Counts /\ StatsBalance'
    <2>1. PICK g, i, d, p, m \in Int :
            stats = Counted(g, i, d, p, m) /\ stats' = Counted(g, i + 1, d, p, m + 1)
      BY <1>1, CountIssued
    <2>3. stats' \in Counts
      BY <2>1 DEF Counted, Counts
    <2>4. Balance(g, i, d, p, m, Len(queue))
      BY <2>1, BalanceOf DEF IInv
    <2>5. Balance(g, i + 1, d, p, m + 1, Len(queue'))
      <3>1. Len(queue) \in Nat  BY DEF IInv, TypeInv
      <3>. QED  BY <1>2, <2>1, <2>4, <3>1 DEF Balance
    <2>6. StatsBalance'
      BY <2>1, <2>5 DEF Counted, StatsBalance, Balance
    <2>. QED  BY <2>3, <2>6
<1>4. pc' = pc
  BY <1>1, FirstCycleInBase DEF Issue, UnlessBeforeBase, IInv, TypeInv
<1>5. PICK c : Book(c)
  BY Zenon DEF Issue
<1>6. booked' \in [Cycles -> Nat]
  BY <1>5, BookType DEF IInv
<1>. QED  BY <1>1, <1>2, <1>3, <1>4, <1>6 DEF IInv, TypeInv, NoAbort

LEMMA PutBackStep == IInv /\ PutBack => IInv'
<1>. SUFFICES ASSUME IInv, PutBack PROVE IInv'
  OBVIOUS
<1>1. /\ queue # <<>>
      /\ stats' = [stats EXCEPT !.issued = @ + 1, !.put_back = @ + 1]
      /\ UNCHANGED <<fetch_cycle, previous_fetch_cycle, num_uop, num_fetched, booked,
                     base_cycle, queue>>
  BY DEF PutBack, Ready
<1>2. pc' = "advance"
  BY <1>1, FirstCycleInBase DEF PutBack, UnlessBeforeBase, IInv, TypeInv
<1>3. stats' \in Counts /\ StatsBalance'
    <2>1. PICK g, i, d, p, m \in Int :
            stats = Counted(g, i, d, p, m) /\ stats' = Counted(g, i + 1, d, p + 1, m)
      BY <1>1, CountPutBack
    <2>3. stats' \in Counts
      BY <2>1 DEF Counted, Counts
    <2>4. Balance(g, i, d, p, m, Len(queue))
      BY <2>1, BalanceOf DEF IInv
    <2>5. Balance(g, i + 1, d, p + 1, m, Len(queue'))
      BY <1>1, <2>1, <2>4 DEF Balance, IInv, TypeInv
    <2>6. StatsBalance'
      BY <2>1, <2>5 DEF Counted, StatsBalance, Balance
    <2>. QED  BY <2>3, <2>6
<1>. QED  BY <1>1, <1>2, <1>3 DEF IInv, TypeInv, QueueInv, NoAbort

LEMMA DrainedStep == IInv /\ Drained => IInv'
BY DEF IInv, Drained, TypeInv, QueueInv, NoAbort, StatsBalance

(* The new base is not behind the old one, nor ahead of fetch or of what is *)
(* queued.                                                                  *)
LEMMA NewBaseBounds ==
  ASSUME IInv, fetch_cycle' \in Nat, fetch_cycle' >= fetch_cycle
  PROVE  /\ NewBase \in Nat /\ base_cycle <= NewBase /\ NewBase <= fetch_cycle'
         /\ \A k \in DOMAIN queue : NewBase <= queue[k].cycle_generated
<1>1. CASE queue = <<>>
  BY <1>1 DEF NewBase, IInv, TypeInv, QueueInv
<1>2. CASE queue # <<>>
  <2>1. NewBase = Min({fetch_cycle', Head(queue).cycle_generated})
    BY <1>2 DEF NewBase
  <2>2. PICK g \in Nat : /\ g = Head(queue).cycle_generated /\ g >= base_cycle
                         /\ \A k \in DOMAIN queue : g <= queue[k].cycle_generated
    BY <1>2, OldestQueued
  <2>3. /\ NewBase \in {fetch_cycle', g} /\ NewBase <= fetch_cycle' /\ NewBase <= g
    BY <2>1, <2>2, TwoNumbers
  <2>4. \A k \in DOMAIN queue : queue[k].cycle_generated \in Nat
    <3>1. \A k \in DOMAIN queue : queue[k] \in Prefetches
      BY DEF IInv, TypeInv
    <3>. QED  BY <3>1 DEF Prefetches
  <2>. QED  BY <2>2, <2>3, <2>4 DEF IInv, TypeInv, QueueInv
<1>. QED  BY <1>1, <1>2

LEMMA AdvanceStep == IInv /\ Advance => IInv'
<1>. SUFFICES ASSUME IInv, Advance PROVE IInv'
  OBVIOUS
<1>1. /\ previous_fetch_cycle' = fetch_cycle
      /\ num_fetched' \in Nat
      /\ fetch_cycle' \in Nat /\ fetch_cycle' >= fetch_cycle
      /\ UNCHANGED <<num_uop, queue, stats>>
  BY DEF Advance, IInv, TypeInv
<1>2. PICK base \in Nat : /\ base = NewBase /\ base_cycle <= base /\ base <= fetch_cycle'
                          /\ \A k \in DOMAIN queue : base <= queue[k].cycle_generated
  BY <1>1, NewBaseBounds
<1>3. base_cycle' = base /\ pc' = "uop"
  BY <1>2 DEF Advance, IInv, TypeInv
<1>4. booked' \in [Cycles -> Nat]
  BY <1>2 DEF Advance, IInv, TypeInv
<1>5. QueueInv'
  BY <1>1, <1>2, <1>3 DEF IInv, QueueInv
<1>. QED  BY <1>1, <1>3, <1>4, <1>5 DEF IInv, TypeInv, NoAbort, StatsBalance

LEMMA StepInv == IInv /\ [Next]_vars => IInv'
<1>1. ASSUME IInv, UNCHANGED vars PROVE IInv'
  BY <1>1 DEF vars, IInv, TypeInv, QueueInv, NoAbort, StatsBalance
<1>. QED
  BY <1>1, OtherUopStep, MemoryUopStep, DropStep, IssueStep, PutBackStep, DrainedStep,
     AdvanceStep DEF Next, Terminated

-----------------------------------------------------------------------------
(* The theorems.                                                            *)

(* The queue is ordered and not behind the lanes' base, in every reachable  *)
(* state.                                                                   *)
THEOREM Invariance == Spec => []IInv
BY Initially, StepInv, PTL DEF Spec

(* The assertions of schedule() and of advance_base_cycle() never fail.     *)
THEOREM NeverBeforeBase == Spec => []NoAbort
<1>1. IInv => NoAbort  BY DEF IInv
<1>. QED  BY <1>1, Invariance, PTL

(* The printed statistics account for every generated prefetch.             *)
THEOREM StatsAccount == Spec => []StatsBalance
<1>1. IInv => StatsBalance  BY DEF IInv
<1>. QED  BY <1>1, Invariance, PTL

(* A prefetch is performed after it is generated, and in time.              *)
THEOREM PerformsInTime == Spec => PerformedInTime
<1>. DEFINE InTime ==
       \A c \in Cycles :
         stats'.issued_to_mem > stats.issued_to_mem /\ booked'[c] > booked[c] =>
           /\ Head(queue).cycle_generated <= c
           /\ c <= Head(queue).cycle_generated + PF_MUST_ISSUE_BEFORE_CYCLES
<1>1. IInv /\ [Next]_vars => [InTime]_vars
  <2>. SUFFICES ASSUME IInv, [Next]_vars, NEW c \in Cycles,
                       stats'.issued_to_mem > stats.issued_to_mem,
                       booked'[c] > booked[c]
                PROVE  /\ Head(queue).cycle_generated <= c
                       /\ c <= Head(queue).cycle_generated + PF_MUST_ISSUE_BEFORE_CYCLES
    OBVIOUS
  <2>1. stats \in Counts /\ booked \in [Cycles -> Nat]
    BY DEF IInv, TypeInv
  <2>2. Issue
    <3>1. Issue \/ stats'.issued_to_mem = stats.issued_to_mem
      <4>1. \/ Issue \/ UNCHANGED stats
            \/ stats' = [stats EXCEPT !.generated = @ + 1]
            \/ stats' = [stats EXCEPT !.dropped = @ + 1]
            \/ stats' = [stats EXCEPT !.issued = @ + 1, !.put_back = @ + 1]
        BY Zenon DEF Next, vars, Terminated, OtherUop, MemoryUop, Generate, Drop, PutBack,
                     Drained, Advance
      <4>2. CASE stats' = [stats EXCEPT !.generated = @ + 1]
        BY <4>2, CountGenerated DEF Counted
      <4>3. CASE stats' = [stats EXCEPT !.dropped = @ + 1]
        BY <4>3, CountDropped DEF Counted
      <4>4. CASE stats' = [stats EXCEPT !.issued = @ + 1, !.put_back = @ + 1]
        BY <4>4, CountPutBack DEF Counted
      <4>. QED  BY <4>1, <4>2, <4>3, <4>4, Zenon
    <3>2. stats.issued_to_mem \in Int
      BY <2>1 DEF Counts
    <3>. QED  BY <3>1, <3>2
  <2>3. PICK d \in Slots : Book(d)
    BY <2>2, Zenon DEF Issue
  <2>4. c = d
    BY <2>1, <2>3 DEF Book
  <2>5. queue # <<>> /\ ~TooOld(Head(queue))
    BY <2>2 DEF Issue, Ready
  <2>6. PICK first \in Nat : /\ first = FirstCycle(Head(queue))
                             /\ first >= Head(queue).cycle_generated
    BY <2>5, FirstCycleInBase
  <2>7. d \in first .. fetch_cycle
    BY <2>3, <2>6 DEF Slots, FirstFree
  <2>8. Head(queue).cycle_generated \in Nat
    BY <2>5, OldestQueued
  <2>. QED  BY <2>4, <2>5, <2>6, <2>7, <2>8 DEF TooOld, IInv, TypeInv
<1>. QED  BY <1>1, Invariance, PTL DEF Spec, PerformedInTime
=============================================================================
