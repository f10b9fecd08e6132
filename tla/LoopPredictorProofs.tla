------------------------ MODULE LoopPredictorProofs ------------------------
(***************************************************************************)
(* Proofs about LoopPredictor, for any number of branches, ways and        *)
(* entries.  IInv adds to the properties that only the youngest branch in  *)
(* flight can be mispredicted.                                             *)
(***************************************************************************)
EXTENDS LoopPredictor, SequenceTheorems, TLAPS

(* Nothing is fetched behind a mispredicted branch.                         *)
OnlyLastMispredicted == \A i \in DOMAIN inflight :
  Mispredicted(inflight[i]) => i = Len(inflight)

IInv == TypeOK /\ LoopCountsKnown /\ OnlyLastMispredicted

Looks == [LHIT : Ways \cup {NoWay}, LVALID : BOOLEAN, predloop : BOOLEAN]
SensibleEntry(e) ==
  /\ e.confid > 0 => e.NbIter >= 3
  /\ e.NbIter > 0 => e.CurrentIter <= e.NbIter

-----------------------------------------------------------------------------
(* Removing an element of a sequence.                                       *)
LEMMA WithoutProperties ==
  ASSUME NEW S, NEW s \in Seq(S), NEW i \in DOMAIN s
  PROVE  /\ Without(s, i) \in Seq(S)
         /\ Len(Without(s, i)) = Len(s) - 1
         /\ \A j \in DOMAIN Without(s, i) :
              Without(s, i)[j] = IF j < i THEN s[j] ELSE s[j + 1]
<1> DEFINE head == SubSeq(s, 1, i - 1)
           tail == SubSeq(s, i + 1, Len(s))
<1>1. i \in 1 .. Len(s) /\ Len(s) \in Nat
  OBVIOUS
<1>2. /\ head \in Seq(S) /\ Len(head) = i - 1
      /\ \A j \in 1 .. i - 1 : head[j] = s[j]
  BY <1>1
<1>3. /\ tail \in Seq(S) /\ Len(tail) = Len(s) - i
      /\ \A j \in 1 .. Len(s) - i : tail[j] = s[i + j]
  BY <1>1
<1> HIDE DEF head, tail
<1>4. /\ head \o tail \in Seq(S) /\ Len(head \o tail) = Len(s) - 1
      /\ \A j \in 1 .. Len(s) - 1 :
           (head \o tail)[j] = IF j <= i - 1 THEN head[j] ELSE tail[j - (i - 1)]
  <2>1. (i - 1) + (Len(s) - i) = Len(s) - 1
    BY <1>1
  <2>2. /\ head \o tail \in Seq(S)
        /\ Len(head \o tail) = Len(head) + Len(tail)
        /\ \A j \in 1 .. Len(head) + Len(tail) : (head \o tail)[j] =
             IF j <= Len(head) THEN head[j] ELSE tail[j - Len(head)]
    BY <1>2, <1>3, ConcatProperties, Zenon
  <2>3. QED
    BY <1>2, <1>3, <2>1, <2>2
<1>5. ASSUME NEW j \in 1 .. Len(s) - 1
      PROVE  (head \o tail)[j] = IF j < i THEN s[j] ELSE s[j + 1]
  <2>1. CASE j < i
    BY <1>1, <1>2, <1>4, <2>1
  <2>2. CASE ~(j < i)
    <3>0. ~(j <= i - 1)
      BY <1>1, <2>2
    <3>1. (head \o tail)[j] = tail[j - (i - 1)]
      BY <1>4, <3>0
    <3>2. /\ j - (i - 1) \in 1 .. Len(s) - i
          /\ i + (j - (i - 1)) = j + 1
      BY <1>1, <2>2
    <3>3. tail[j - (i - 1)] = s[i + (j - (i - 1))]
      BY <1>3, <3>2
    <3>4. QED
      BY <2>2, <3>1, <3>2, <3>3
  <2>3. QED
    BY <2>1, <2>2
<1>6. DOMAIN (head \o tail) = 1 .. Len(s) - 1
  BY <1>1, <1>4
<1>7. Without(s, i) = head \o tail
  BY DEF Without, head, tail
<1>8. QED
  BY <1>4, <1>5, <1>6, <1>7

(* What getloop() returns.                                                  *)
LEMMA LookType ==
  ASSUME LoopAssumption, NEW t \in Tables, NEW pc \in PCs
  PROVE  getloop(t, pc) \in Looks
<1>1. CASE Holding(t, pc) = {}
  BY <1>1 DEF getloop, Looks
<1>2. CASE Holding(t, pc) # {}
  <2>1. Holding(t, pc) \subseteq Ways /\ Holding(t, pc) \subseteq 0 .. 3
    BY DEF Holding, LoopAssumption
  <2>2. PICK least \in Holding(t, pc) : \A v \in Holding(t, pc) : least <= v
    <3>1. \/ 0 \in Holding(t, pc)
          \/ 0 \notin Holding(t, pc) /\ 1 \in Holding(t, pc)
          \/ Holding(t, pc) \cap {0, 1} = {} /\ 2 \in Holding(t, pc)
          \/ Holding(t, pc) \cap {0, 1, 2} = {} /\ 3 \in Holding(t, pc)
      BY <1>2, <2>1
    <3>2. QED
      BY <2>1, <3>1
  <2> DEFINE first == CHOOSE w \in Holding(t, pc) : \A v \in Holding(t, pc) : w <= v
             e == t[Index[pc][first]]
  <2>3. first \in Ways
    BY <2>1, <2>2
  <2> HIDE DEF first
  <2>4. e \in Entries
    BY <2>3 DEF LoopAssumption, Tables
  <2> HIDE DEF e
  <2>5. Valid(e) \in BOOLEAN /\ Direction(e) \in BOOLEAN
    BY <2>4 DEF Valid, Direction, Entries
  <2>6. getloop(t, pc) = [LHIT |-> first, LVALID |-> Valid(e), predloop |-> Direction(e)]
    BY <1>2 DEF getloop, first, e
  <2>7. QED
    BY <2>3, <2>5, <2>6 DEF Looks
<1>3. QED
  BY <1>1, <1>2

(* An entry is the record of its fields, and every record of such fields is *)
(* an entry.                                                                *)
Entry(n, c, k, tag, a, d) ==
  [NbIter |-> n, confid |-> c, CurrentIter |-> k, TAG |-> tag, age |-> a, dir |-> d]

Fields(e) ==
  /\ e = Entry(e.NbIter, e.confid, e.CurrentIter, e.TAG, e.age, e.dir)
  /\ e.NbIter \in 0 .. WIDTHNBITERLOOP_MASK /\ e.NbIter \in Nat
  /\ e.CurrentIter \in 0 .. WIDTHNBITERLOOP_MASK /\ e.CurrentIter \in Nat
  /\ e.confid \in 0 .. CONFLOOP /\ e.confid \in Nat
  /\ e.age \in 0 .. CONFLOOP /\ e.age \in Nat
  /\ e.TAG \in Tags /\ e.dir \in BOOLEAN

(* The fields of an entry built by Entry are its arguments.                 *)
LEMMA EntryFields ==
  ASSUME LoopAssumption, NEW e \in Entries
  PROVE  Fields(e)
BY DEF LoopAssumption, Entries, Entry, Fields

(* Entry builds an entry of the table from fields of the right types.       *)
LEMMA EntryType ==
  ASSUME NEW n \in 0 .. WIDTHNBITERLOOP_MASK, NEW c \in 0 .. CONFLOOP,
         NEW k \in 0 .. WIDTHNBITERLOOP_MASK, NEW tag \in Tags,
         NEW a \in 0 .. CONFLOOP, NEW d \in BOOLEAN
  PROVE  Entry(n, c, k, tag, a, d) \in Entries
BY DEF Entries, Entry

(* loopupdate() keeps entries in their widths and sensible.                 *)
LEMMA LearntEntry ==
  ASSUME LoopAssumption, NEW e \in Entries, SensibleEntry(e), NEW look \in Looks,
         NEW Taken \in BOOLEAN, NEW raised \in BOOLEAN
  PROVE  Learnt(e, look, Taken, raised) \in Entries /\
         SensibleEntry(Learnt(e, look, Taken, raised))
<1> DEFINE a == Aged(e, look.LVALID /\ raised)
           c == Counted(a)
<1>0. 0 \in 0 .. CONFLOOP /\ 0 \in 0 .. WIDTHNBITERLOOP_MASK
  BY DEF LoopAssumption
<1>e. Fields(e)
  BY EntryFields
<1>1. /\ WIDTHNBITERLOOP_MASK \in Nat /\ CONFLOOP \in Nat /\ 0 < CONFLOOP
  BY DEF LoopAssumption
<1>2. a \in Entries /\ SensibleEntry(a)
  BY <1>1 DEF Aged, Entries, SensibleEntry
<1>a. Fields(a)
  BY <1>2, EntryFields
<1> HIDE DEF a
<1>3. c \in Entries /\ SensibleEntry(c)
  <2> DEFINE n == (a.CurrentIter + 1) % (WIDTHNBITERLOOP_MASK + 1)
  <2>1. n \in 0 .. WIDTHNBITERLOOP_MASK
    BY <1>1, <1>2 DEF Entries
  <2> HIDE DEF n
  <2>2. c = IF n > a.NbIter
            THEN [a EXCEPT !.CurrentIter = n, !.confid = 0, !.NbIter = 0]
            ELSE [a EXCEPT !.CurrentIter = n]
    BY DEF Counted, n
  <2>3. CASE n > a.NbIter
    <3>1. c = Entry(0, 0, n, a.TAG, a.age, a.dir)
      BY <1>2, <2>2, <2>3, <1>a DEF Entry, Entries, Fields
    <3>2. c \in Entries
      BY <1>1, <1>2, <2>1, <3>1, <1>0, <1>a, EntryType DEF Fields
    <3>3. QED
      BY <3>1, <3>2 DEF SensibleEntry, Entry
  <2>4. CASE ~(n > a.NbIter)
    <3>1. c = Entry(a.NbIter, a.confid, n, a.TAG, a.age, a.dir)
      BY <1>2, <2>2, <2>4 DEF Entry, Entries
    <3>2. c \in Entries
      BY <1>1, <1>2, <2>1, <3>1, <1>0, <1>a, EntryType DEF Fields
    <3>3. n <= a.NbIter
      BY <1>1, <1>2, <2>1, <2>4, <1>a DEF Fields
    <3>4. QED
      BY <1>2, <3>1, <3>2, <3>3 DEF SensibleEntry, Entry
  <2>5. QED
    BY <2>3, <2>4
<1>c. Fields(c)
  BY <1>3, EntryFields
<1> HIDE DEF c
<1>4. Freed(e) \in Entries /\ SensibleEntry(Freed(e))
  <2>1. Freed(e) = Entry(0, 0, 0, e.TAG, 0, e.dir)
    <3> DEFINE e1 == [e EXCEPT !.NbIter = 0]
               e2 == [e1 EXCEPT !.age = 0]
               e3 == [e2 EXCEPT !.confid = 0]
    <3>1. e1 = Entry(0, e.confid, e.CurrentIter, e.TAG, e.age, e.dir)
      BY DEF Entries, Entry
    <3> HIDE DEF e1
    <3>2. e2 = Entry(0, e.confid, e.CurrentIter, e.TAG, 0, e.dir)
      BY <3>1 DEF Entry
    <3> HIDE DEF e2
    <3>3. e3 = Entry(0, 0, e.CurrentIter, e.TAG, 0, e.dir)
      BY <3>2 DEF Entry
    <3> HIDE DEF e3
    <3>4. Freed(e) = [e3 EXCEPT !.CurrentIter = 0]
      BY DEF Freed, e1, e2, e3
    <3>5. QED
      BY <3>3, <3>4 DEF Entry
  <2>2. QED
    BY <1>1, <2>1, <1>0, <1>e, EntryType DEF SensibleEntry, Entry, Fields
<1>5. Ended(c, Taken) \in Entries /\ SensibleEntry(Ended(c, Taken))
  <2>1. CASE c.CurrentIter = c.NbIter /\ c.NbIter < 3
    <3>1. Ended(c, Taken) = Entry(0, 0, 0, c.TAG, 0, Taken)
      BY <1>3, <2>1 DEF Ended, Freed, Entry, Entries
    <3>2. QED
      BY <1>1, <1>3, <3>1, <1>0, <1>c, EntryType DEF SensibleEntry, Entry, Fields
  <2>2. CASE c.CurrentIter = c.NbIter /\ ~(c.NbIter < 3)
    <3> DEFINE m == IF c.confid < CONFLOOP THEN c.confid + 1 ELSE c.confid
    <3>1. m \in 0 .. CONFLOOP
      BY <1>1, <1>3, <1>c DEF Fields
    <3>2. Ended(c, Taken) = Entry(c.NbIter, m, 0, c.TAG, c.age, c.dir)
      BY <1>3, <2>2 DEF Ended, Entry, Entries
    <3> HIDE DEF m
    <3>3. Ended(c, Taken) \in Entries
      BY <1>1, <1>3, <3>1, <3>2, <1>0, <1>c, EntryType DEF Fields
    <3>4. c.NbIter >= 3 /\ 0 <= c.NbIter
      BY <1>3, <2>2, <1>c DEF Fields
    <3>5. QED
      BY <3>2, <3>3, <3>4 DEF SensibleEntry, Entry
  <2>3. CASE c.CurrentIter # c.NbIter
    <3> DEFINE m == IF c.NbIter = 0 THEN c.CurrentIter ELSE 0
    <3>1. m \in 0 .. WIDTHNBITERLOOP_MASK
      BY <1>1, <1>3, <1>c DEF Fields
    <3>2. Ended(c, Taken) = Entry(m, 0, 0, c.TAG, c.age, c.dir)
      BY <1>3, <2>3 DEF Ended, Entry, Entries
    <3> HIDE DEF m
    <3>3. Ended(c, Taken) \in Entries
      BY <1>1, <1>3, <3>1, <3>2, <1>0, <1>c, EntryType DEF Fields
    <3>4. QED
      BY <3>1, <3>2, <3>3 DEF SensibleEntry, Entry
  <2>4. QED
    BY <2>1, <2>2, <2>3
<1>6. QED
  BY <1>3, <1>4, <1>5 DEF Learnt, a, c

(* What allocation makes of an entry is a sensible entry.                   *)
LEMMA ReplacedEntry ==
  ASSUME LoopAssumption, NEW e \in Entries, SensibleEntry(e), NEW pc \in PCs,
         NEW Taken \in BOOLEAN
  PROVE  Replaced(e, pc, Taken) \in Entries /\ SensibleEntry(Replaced(e, pc, Taken))
<1>0. 0 \in 0 .. CONFLOOP /\ 0 \in 0 .. WIDTHNBITERLOOP_MASK
  BY DEF LoopAssumption
<1>e. Fields(e)
  BY EntryFields
<1>1. CASE e.age = 0
  <2> DEFINE d == ~Taken
  <2>1. Replaced(e, pc, Taken) = Entry(0, 0, 0, LTAG[pc], FreshAge, d)
    BY <1>1 DEF Replaced, Entry
  <2>2. FreshAge \in 0 .. CONFLOOP /\ LTAG[pc] \in Tags /\ d \in BOOLEAN
    BY DEF LoopAssumption
  <2> HIDE DEF d
  <2>3. Replaced(e, pc, Taken) \in Entries
    BY <1>0, <2>1, <2>2, EntryType
  <2>4. SensibleEntry(Replaced(e, pc, Taken))
    BY <2>1 DEF SensibleEntry, Entry
  <2>5. QED
    BY <2>3, <2>4
<1>2. CASE e.age # 0
  <2>1. Replaced(e, pc, Taken) =
          Entry(e.NbIter, e.confid, e.CurrentIter, e.TAG, e.age - 1, e.dir)
    BY <1>2 DEF Replaced, Entry, Entries
  <2>2. e.age - 1 \in 0 .. CONFLOOP
    BY <1>2, <1>e DEF LoopAssumption, Fields
  <2>3. QED
    BY <2>1, <2>2, <1>0, <1>e, EntryType DEF SensibleEntry, Entry, Fields
<1>3. QED
  BY <1>1, <1>2

(* loopupdate keeps a table typed and sensible.                             *)
LEMMA UpdatedTable ==
  ASSUME LoopAssumption, NEW t \in Tables, Sensible(t), NEW pc \in PCs,
         NEW look \in Looks, NEW Taken \in BOOLEAN, NEW ALLOC \in BOOLEAN,
         NEW choice \in Choices
  PROVE  loopupdate(t, look, pc, Taken, ALLOC, choice) \in Tables /\
         Sensible(loopupdate(t, look, pc, Taken, ALLOC, choice))
<1>1. \A i \in Indexes : t[i] \in Entries /\ SensibleEntry(t[i])
  BY DEF Tables, Sensible, SensibleEntry
<1>2. choice.chance \in BOOLEAN /\ choice.way \in Ways
  BY DEF Choices
<1>3. CASE look.LHIT # NoWay
  <2> DEFINE i == Index[pc][look.LHIT]
             new == Learnt(t[i], look, Taken, choice.chance)
  <2>1. i \in Indexes
    BY <1>3 DEF Looks, LoopAssumption
  <2>2. new \in Entries /\ SensibleEntry(new)
    BY <1>1, <1>2, <2>1, LearntEntry
  <2>3. loopupdate(t, look, pc, Taken, ALLOC, choice) = [t EXCEPT ![i] = new]
    BY <1>3 DEF loopupdate
  <2> HIDE DEF i, new
  <2>4. QED
    BY <1>1, <2>1, <2>2, <2>3 DEF Tables, Sensible, SensibleEntry
<1>4. CASE ~(look.LHIT # NoWay) /\ (ALLOC /\ choice.chance)
  <2> DEFINE i == Index[pc][choice.way]
             new == Replaced(t[i], pc, Taken)
  <2>1. i \in Indexes
    BY <1>2 DEF LoopAssumption
  <2>2. new \in Entries /\ SensibleEntry(new)
    BY <1>1, <2>1, ReplacedEntry
  <2>3. loopupdate(t, look, pc, Taken, ALLOC, choice) = [t EXCEPT ![i] = new]
    BY <1>4 DEF loopupdate
  <2> HIDE DEF i, new
  <2>4. QED
    BY <1>1, <2>1, <2>2, <2>3 DEF Tables, Sensible, SensibleEntry
<1>5. CASE ~(look.LHIT # NoWay) /\ ~(ALLOC /\ choice.chance)
  BY <1>5 DEF loopupdate
<1>6. QED
  BY <1>3, <1>4, <1>5

(* The counter WITHLOOP saturates inside its range.                         *)
LEMMA TrustType ==
  ASSUME LoopAssumption, NEW n \in Counters, NEW look, NEW pred, NEW right
  PROVE  Trust(n, look, pred, right) \in Counters
BY DEF LoopAssumption, Trust, ctrupdate, Counters

-----------------------------------------------------------------------------
(* The invariant.                                                           *)

(* The empty table satisfies the invariant.                                 *)
LEMMA InitIInv == ASSUME LoopAssumption, Init PROVE IInv
<1>1. 0 \in 0 .. CONFLOOP /\ 0 \in 0 .. WIDTHNBITERLOOP_MASK /\ -1 \in Counters
  BY DEF LoopAssumption, Counters
<1>2. \A i \in Indexes : EmptyTable[i] = Entry(0, 0, 0, EmptyTag, 0, FALSE)
  BY DEF EmptyTable, Entry
<1>3. Entry(0, 0, 0, EmptyTag, 0, FALSE) \in Entries
  BY <1>1, EntryType DEF LoopAssumption
<1>4. EmptyTable \in Tables
  BY <1>2, <1>3 DEF EmptyTable, Tables, Entry
<1>5. Sensible(EmptyTable)
  BY <1>2 DEF Sensible, Entry
<1>6. inflight = <<>> /\ inflight \in Seq(Branches) /\ DOMAIN inflight = {}
  BY DEF Init
<1>7. QED
  BY <1>1, <1>4, <1>5, <1>6 DEF Init, IInv, TypeOK, LoopCountsKnown, OnlyLastMispredicted

(* What is known of a branch in flight.                                     *)
LEMMA InFlightBranch ==
  ASSUME IInv, NEW i \in DOMAIN inflight
  PROVE  /\ inflight[i] \in Branches /\ Sensible(inflight[i].ltable)
         /\ inflight[i].pc \in PCs /\ inflight[i].taken \in BOOLEAN
         /\ inflight[i].ltable \in Tables /\ inflight[i].WITHLOOP \in Counters
<1>1. inflight[i] \in Branches
  BY DEF IInv, TypeOK
<1>2. QED
  BY <1>1 DEF IInv, LoopCountsKnown, Branches

(* predict() with its speculative update keeps the invariant.               *)
LEMMA PredictStep ==
  ASSUME LoopAssumption, IInv, NEW pc \in PCs, NEW taken \in BOOLEAN,
         NEW pred \in BOOLEAN, NEW choice \in Choices,
         Predict(pc, taken, pred, choice)
  PROVE  IInv'
<1> DEFINE look == getloop(ltable, pc)
           b == [pc |-> pc, taken |-> taken, pred |-> pred,
                 ltable |-> ltable, WITHLOOP |-> WITHLOOP]
<1>1. ltable \in Tables /\ Sensible(ltable) /\ WITHLOOP \in Counters
      /\ inflight \in Seq(Branches)
  BY DEF IInv, TypeOK, LoopCountsKnown
<1>2. look \in Looks
  BY <1>1, LookType
<1>3. b \in Branches
  BY <1>1 DEF Branches
<1>4. /\ inflight' = Append(inflight, b)
      /\ ltable' = loopupdate(ltable, look, pc, pred, FALSE, choice)
      /\ WITHLOOP' = Trust(WITHLOOP, look, pred, look.predloop = pred)
      /\ agreed' = TRUE
      /\ ~Mispredicting
  BY DEF Predict
<1>b. b.ltable = ltable
  OBVIOUS
<1> HIDE DEF look, b
<1>5. ltable' \in Tables /\ Sensible(ltable')
  BY <1>1, <1>2, <1>4, UpdatedTable
<1>6. WITHLOOP' \in Counters
  BY <1>1, <1>4, TrustType
<1>7. /\ inflight' \in Seq(Branches) /\ Len(inflight') = Len(inflight) + 1
      /\ Len(inflight) \in Nat
      /\ DOMAIN inflight' = 1 .. Len(inflight) + 1
      /\ inflight'[Len(inflight) + 1] = b
      /\ \A i \in 1 .. Len(inflight) : inflight'[i] = inflight[i]
  BY <1>1, <1>3, <1>4
<1>8. TypeOK'
  BY <1>4, <1>5, <1>6, <1>7 DEF TypeOK
<1>9. LoopCountsKnown'
  <2>1. ASSUME NEW i \in DOMAIN inflight' PROVE Sensible(inflight'[i].ltable)
    <3>1. CASE i = Len(inflight) + 1
      BY <1>1, <1>7, <1>b, <3>1
    <3>2. CASE i # Len(inflight) + 1
      <4>1. i \in 1 .. Len(inflight)
        BY <1>7, <3>2
      <4>2. i \in DOMAIN inflight
        BY <1>1, <4>1
      <4>3. QED
        BY <1>7, <4>1, <4>2, InFlightBranch
    <3>3. QED
      BY <3>1, <3>2
  <2>2. QED
    BY <1>5, <2>1 DEF LoopCountsKnown, Sensible
<1>10. OnlyLastMispredicted'
  <2>1. ASSUME NEW i \in 1 .. Len(inflight) PROVE ~Mispredicted(inflight[i])
    <3>1. CASE i = Len(inflight)
      <4>1. inflight # <<>>
        BY <1>1, <3>1
      <4>2. QED
        BY <1>4, <3>1, <4>1 DEF Mispredicting
    <3>2. CASE i # Len(inflight)
      BY <1>1, <3>2 DEF IInv, OnlyLastMispredicted
    <3>3. QED
      BY <3>1, <3>2
  <2>2. ASSUME NEW i \in DOMAIN inflight', Mispredicted(inflight'[i])
        PROVE  i = Len(inflight')
    BY <1>7, <2>1, <2>2
  <2>3. QED
    BY <2>2 DEF OnlyLastMispredicted, Mispredicted
<1>11. QED
  BY <1>8, <1>9, <1>10 DEF IInv

(* update(), with or without rollback, keeps the invariant.                 *)
LEMMA ResolveStep ==
  ASSUME LoopAssumption, IInv, NEW i \in DOMAIN inflight,
         NEW pred \in BOOLEAN, NEW choice \in Choices,
         Resolve(i, pred, choice)
  PROVE  IInv'
<1> DEFINE b == inflight[i]
           look == getloop(b.ltable, b.pc)
<1>1. /\ b.pc \in PCs /\ b.taken \in BOOLEAN /\ b.ltable \in Tables
      /\ b.WITHLOOP \in Counters /\ Sensible(b.ltable)
  BY InFlightBranch
<1>2. look \in Looks
  BY <1>1, LookType
<1>3. /\ ltable \in Tables /\ Sensible(ltable) /\ WITHLOOP \in Counters
      /\ inflight \in Seq(Branches)
  BY DEF IInv, TypeOK, LoopCountsKnown
<1>4. \/ /\ ltable' = loopupdate(b.ltable, look, b.pc, b.taken, TRUE, choice)
         /\ WITHLOOP' = Trust(b.WITHLOOP, look, pred, look.predloop = b.taken)
      \/ ltable' = ltable /\ WITHLOOP' = WITHLOOP
  BY DEF Resolve, FixHistory, Restored
<1>5. inflight' = Without(inflight, i) /\ agreed' = (pred = b.pred)
  BY DEF Resolve
<1>6. agreed' \in BOOLEAN
  BY <1>5
<1> HIDE DEF b, look
<1>7. /\ ltable' \in Tables /\ Sensible(ltable')
      /\ WITHLOOP' \in Counters
  <2>1. CASE /\ ltable' = loopupdate(b.ltable, look, b.pc, b.taken, TRUE, choice)
             /\ WITHLOOP' = Trust(b.WITHLOOP, look, pred, look.predloop = b.taken)
    <3>1. ltable' \in Tables /\ Sensible(ltable')
      BY <1>1, <1>2, <2>1, UpdatedTable
    <3>2. WITHLOOP' \in Counters
      BY <1>1, <2>1, TrustType
    <3>3. QED
      BY <3>1, <3>2
  <2>2. CASE ltable' = ltable /\ WITHLOOP' = WITHLOOP
    BY <1>3, <2>2
  <2>3. QED
    BY <1>4, <2>1, <2>2
<1>8. /\ inflight' \in Seq(Branches) /\ Len(inflight') = Len(inflight) - 1
      /\ \A j \in DOMAIN inflight' :
           inflight'[j] = IF j < i THEN inflight[j] ELSE inflight[j + 1]
  BY <1>3, <1>5, WithoutProperties
<1>9. Len(inflight) \in Nat /\ i \in 1 .. Len(inflight)
      /\ DOMAIN inflight' = 1 .. Len(inflight) - 1
      /\ DOMAIN inflight = 1 .. Len(inflight)
  BY <1>3, <1>8
<1>10. TypeOK'
  BY <1>6, <1>7, <1>8 DEF TypeOK
<1>11. LoopCountsKnown'
  <2>1. ASSUME NEW j \in DOMAIN inflight' PROVE Sensible(inflight'[j].ltable)
    <3>1. CASE j < i
      <4>1. j \in DOMAIN inflight
        BY <1>9
      <4>2. QED
        BY <1>8, <3>1, <4>1, InFlightBranch
    <3>2. CASE ~(j < i)
      <4>1. j + 1 \in DOMAIN inflight
        BY <1>9
      <4>2. QED
        BY <1>8, <3>2, <4>1, InFlightBranch
    <3>3. QED
      BY <3>1, <3>2
  <2>2. QED
    BY <1>7, <2>1 DEF LoopCountsKnown, Sensible
<1>12. OnlyLastMispredicted'
  <2>1. ASSUME NEW j \in DOMAIN inflight', Mispredicted(inflight'[j])
        PROVE  j = Len(inflight')
    <3>1. CASE j < i
      <4>1. j \in DOMAIN inflight /\ j # Len(inflight)
        BY <1>9, <3>1
      <4>2. QED
        BY <1>8, <2>1, <3>1, <4>1 DEF IInv, OnlyLastMispredicted
    <3>2. CASE ~(j < i)
      <4>1. j + 1 \in DOMAIN inflight
        BY <1>9
      <4>2. j + 1 = Len(inflight)
        BY <1>8, <2>1, <3>2, <4>1 DEF IInv, OnlyLastMispredicted
      <4>3. QED
        BY <1>8, <1>9, <4>2
    <3>3. QED
      BY <3>1, <3>2
  <2>2. QED
    BY <2>1 DEF OnlyLastMispredicted, Mispredicted
<1>13. QED
  BY <1>10, <1>11, <1>12 DEF IInv

(* Every step keeps the invariant.                                          *)
LEMMA NextIInv == ASSUME LoopAssumption, IInv, [Next]_vars PROVE IInv'
<1>1. CASE Next
  BY <1>1, PredictStep, ResolveStep, InFlightAssumption DEF Next
<1>2. CASE UNCHANGED vars
  BY <1>2 DEF vars, IInv, TypeOK, LoopCountsKnown, OnlyLastMispredicted,
              Sensible, Mispredicted
<1>3. QED
  BY <1>1, <1>2

(* Types, sensible tables and the youngest misprediction: in every          *)
(* reachable state.                                                         *)
THEOREM Invariance == Spec => []IInv
<1>1. Init => IInv
  BY InitIInv, LoopAssumption
<1>2. IInv /\ [Next]_vars => IInv'
  BY NextIInv, LoopAssumption
<1>3. QED
  BY <1>1, <1>2, PTL DEF Spec

(* Entries keep the widths that class lentry documents.                     *)
THEOREM TypeCorrect == Spec => []TypeOK
<1>1. IInv => TypeOK
  BY DEF IInv
<1>2. QED
  BY <1>1, Invariance, PTL

(* No entry has confidence in a loop of one or two iterations, in the       *)
(* active table or in a checkpoint.                                         *)
THEOREM LoopCounts == Spec => []LoopCountsKnown
<1>1. IInv => LoopCountsKnown
  BY DEF IInv
<1>2. QED
  BY <1>1, Invariance, PTL

-----------------------------------------------------------------------------
(* Speculation is invisible.  The operators of LoopTable mean the same in   *)
(* the specification of the predictor that updates right away.              *)

(* A look-up of the loop table has one meaning.                             *)
LEMMA SameLook == \A t, pc : InOrder!getloop(t, pc) = getloop(t, pc)
BY DEF InOrder!getloop, InOrder!Holding, InOrder!Valid, InOrder!Direction,
       InOrder!NoWay, getloop, Holding, Valid, Direction, NoWay

(* Learning has one meaning.                                                *)
LEMMA SameLearnt == \A e, look, Taken, raised :
  InOrder!Learnt(e, look, Taken, raised) = Learnt(e, look, Taken, raised)
BY DEF InOrder!Learnt, InOrder!Counted, InOrder!Aged, InOrder!Freed, InOrder!Ended,
       Learnt, Counted, Aged, Freed, Ended

(* loopupdate has one meaning.                                              *)
LEMMA SameUpdate == \A t, look, pc, Taken, ALLOC, choice :
  InOrder!loopupdate(t, look, pc, Taken, ALLOC, choice)
    = loopupdate(t, look, pc, Taken, ALLOC, choice)
<1> TAKE t, look, pc, Taken, ALLOC, choice
<1>1. \A e : InOrder!Replaced(e, pc, Taken) = Replaced(e, pc, Taken)
  BY DEF InOrder!Replaced, Replaced
<1>2. \A e : InOrder!Learnt(e, look, Taken, choice.chance)
               = Learnt(e, look, Taken, choice.chance)
  BY SameLearnt, Zenon
<1>3. InOrder!NoWay = NoWay
  BY DEF InOrder!NoWay, NoWay
<1>4. CASE look.LHIT # NoWay
  BY <1>2, <1>3, <1>4 DEF InOrder!loopupdate, loopupdate
<1>5. CASE ~(look.LHIT # NoWay)
  BY <1>1, <1>3, <1>5 DEF InOrder!loopupdate, loopupdate
<1>6. QED
  BY <1>4, <1>5

(* The update of WITHLOOP has one meaning.                                  *)
LEMMA SameTrust == \A n, look, pred, right :
  InOrder!Trust(n, look, pred, right) = Trust(n, look, pred, right)
BY DEF InOrder!Trust, InOrder!ctrupdate, Trust, ctrupdate

(* A step of the predictor that updates right away, from the state that     *)
(* Committed takes for its own.                                             *)
LEMMA BranchStep ==
  ASSUME NEW pc \in PCs, NEW taken \in BOOLEAN, NEW pred \in BOOLEAN,
         NEW choice \in Choices,
         Committed'.ltable = loopupdate(Committed.ltable,
           getloop(Committed.ltable, pc), pc, taken, pred # taken, choice),
         Committed'.WITHLOOP = Trust(Committed.WITHLOOP,
           getloop(Committed.ltable, pc), pred,
           getloop(Committed.ltable, pc).predloop = taken)
  PROVE  InOrder!Next
<1>1. InOrder!Branch(pc, taken, pred, choice)
  BY SameLook, SameUpdate, SameTrust DEF InOrder!Branch
<1>2. choice \in InOrder!Choices
  BY DEF InOrder!Choices, Choices
<1>3. QED
  BY <1>1, <1>2 DEF InOrder!Next

(* The state that the refinement mapping shows.                             *)
LEMMA CommittedIs ==
  /\ Mispredicting =>
       /\ Committed.ltable = inflight[Len(inflight)].ltable
       /\ Committed.WITHLOOP = inflight[Len(inflight)].WITHLOOP
  /\ ~Mispredicting => Committed.ltable = ltable /\ Committed.WITHLOOP = WITHLOOP
BY DEF Committed

(* The state that it shows after a step.                                    *)
LEMMA CommittedIsNext ==
  /\ Mispredicting' =>
       /\ Committed'.ltable = inflight'[Len(inflight')].ltable
       /\ Committed'.WITHLOOP = inflight'[Len(inflight')].WITHLOOP
  /\ ~Mispredicting' =>
       Committed'.ltable = ltable' /\ Committed'.WITHLOOP = WITHLOOP'
BY DEF Committed, Mispredicting, Mispredicted

(* What is predicted rightly is an update; a misprediction is none yet.     *)
LEMMA PredictInOrder ==
  ASSUME IInv, NEW pc \in PCs, NEW taken \in BOOLEAN,
         NEW pred \in BOOLEAN, NEW choice \in Choices,
         Predict(pc, taken, pred, choice)
  PROVE  InOrder!Next \/ UNCHANGED InOrder!vars
<1> DEFINE look == getloop(ltable, pc)
           b == [pc |-> pc, taken |-> taken, pred |-> pred,
                 ltable |-> ltable, WITHLOOP |-> WITHLOOP]
<1>1. /\ inflight' = Append(inflight, b)
      /\ ltable' = loopupdate(ltable, look, pc, pred, FALSE, choice)
      /\ WITHLOOP' = Trust(WITHLOOP, look, pred, look.predloop = pred)
      /\ ~Mispredicting
  BY DEF Predict
<1>2. Committed.ltable = ltable /\ Committed.WITHLOOP = WITHLOOP
  BY <1>1, CommittedIs
<1>3. b \in Branches /\ inflight \in Seq(Branches)
  BY DEF IInv, TypeOK, Branches
<1>4. b.pred = pred /\ b.taken = taken /\ b.ltable = ltable /\ b.WITHLOOP = WITHLOOP
  OBVIOUS
<1> HIDE DEF b
<1>5. inflight' # <<>> /\ inflight'[Len(inflight')] = b
  BY <1>1, <1>3
<1>6. Mispredicting' <=> pred # taken
  BY <1>4, <1>5 DEF Mispredicting, Mispredicted
<1>7. CASE pred # taken
  <2>1. Committed'.ltable = ltable /\ Committed'.WITHLOOP = WITHLOOP
    BY <1>4, <1>5, <1>6, <1>7, CommittedIsNext
  <2>2. QED
    BY <1>2, <2>1 DEF InOrder!vars
<1>8. CASE pred = taken
  <2>1. Committed'.ltable = ltable' /\ Committed'.WITHLOOP = WITHLOOP'
    BY <1>6, <1>8, CommittedIsNext
  <2>2. (pred # taken) = FALSE
    BY <1>8
  <2>3. /\ Committed'.ltable = loopupdate(Committed.ltable,
             getloop(Committed.ltable, pc), pc, taken, pred # taken, choice)
        /\ Committed'.WITHLOOP = Trust(Committed.WITHLOOP,
             getloop(Committed.ltable, pc), pred,
             getloop(Committed.ltable, pc).predloop = taken)
    BY <1>1, <1>2, <1>8, <2>1, <2>2
  <2>4. QED
    BY <2>3, BranchStep
<1>9. QED
  BY <1>7, <1>8

(* If a branch is predicted again as before, its update is visible if and   *)
(* only if it was mispredicted.                                             *)
LEMMA ResolveInOrder ==
  ASSUME IInv, NEW i \in DOMAIN inflight, NEW pred \in BOOLEAN,
         NEW choice \in Choices, Resolve(i, pred, choice), agreed'
  PROVE  InOrder!Next \/ UNCHANGED InOrder!vars
<1> DEFINE b == inflight[i]
           look == getloop(b.ltable, b.pc)
<1>1. b.pc \in PCs /\ b.taken \in BOOLEAN
  BY InFlightBranch
<1>2. pred = b.pred
  BY DEF Resolve
<1>3. /\ pred # b.taken =>
           /\ ltable' = loopupdate(b.ltable, look, b.pc, b.taken, TRUE, choice)
           /\ WITHLOOP' = Trust(b.WITHLOOP, look, pred, look.predloop = b.taken)
      /\ pred = b.taken => ltable' = ltable /\ WITHLOOP' = WITHLOOP
  BY DEF Resolve, FixHistory, Restored
<1>4. inflight \in Seq(Branches) /\ inflight' = Without(inflight, i)
  BY DEF IInv, TypeOK, Resolve
<1>5. /\ inflight' \in Seq(Branches) /\ Len(inflight') = Len(inflight) - 1
      /\ \A j \in DOMAIN inflight' :
           inflight'[j] = IF j < i THEN inflight[j] ELSE inflight[j + 1]
  BY <1>4, WithoutProperties
<1>6. /\ Len(inflight) \in Nat /\ i \in 1 .. Len(inflight)
      /\ DOMAIN inflight' = 1 .. Len(inflight) - 1
      /\ DOMAIN inflight = 1 .. Len(inflight)
      /\ inflight # <<>>
  BY <1>4, <1>5
<1>7. CASE i = Len(inflight)
  <2>1. ~Mispredicting'
    <3>1. ASSUME inflight' # <<>> PROVE ~Mispredicted(inflight'[Len(inflight')])
      <4>1. /\ Len(inflight') \in DOMAIN inflight' /\ Len(inflight') < i
            /\ Len(inflight') \in DOMAIN inflight /\ Len(inflight') # Len(inflight)
        BY <1>5, <1>6, <1>7, <3>1
      <4>2. inflight'[Len(inflight')] = inflight[Len(inflight')]
        BY <1>5, <4>1
      <4>3. QED
        BY <4>1, <4>2 DEF IInv, OnlyLastMispredicted
    <3>2. QED
      BY <3>1 DEF Mispredicting, Mispredicted
  <2>2. Committed'.ltable = ltable' /\ Committed'.WITHLOOP = WITHLOOP'
    BY <2>1, CommittedIsNext
  <2>3. Mispredicting <=> pred # b.taken
    BY <1>2, <1>6, <1>7 DEF Mispredicting, Mispredicted
  <2>4. CASE pred # b.taken
    <3>1. Committed.ltable = b.ltable /\ Committed.WITHLOOP = b.WITHLOOP
      BY <1>7, <2>3, <2>4, CommittedIs
    <3>2. (pred # b.taken) = TRUE
      BY <2>4
    <3>3. /\ Committed'.ltable = loopupdate(Committed.ltable,
               getloop(Committed.ltable, b.pc), b.pc, b.taken, pred # b.taken, choice)
          /\ Committed'.WITHLOOP = Trust(Committed.WITHLOOP,
               getloop(Committed.ltable, b.pc), pred,
               getloop(Committed.ltable, b.pc).predloop = b.taken)
      BY <1>3, <2>2, <2>4, <3>1, <3>2
    <3>4. QED
      BY <1>1, <3>3, BranchStep
  <2>5. CASE pred = b.taken
    <3>1. Committed.ltable = ltable /\ Committed.WITHLOOP = WITHLOOP
      BY <2>3, <2>5, CommittedIs
    <3>2. QED
      BY <1>3, <2>2, <2>5, <3>1 DEF InOrder!vars
  <2>6. QED
    BY <2>4, <2>5
<1>8. CASE i # Len(inflight)
  <2>1. pred = b.taken
    BY <1>2, <1>8 DEF IInv, OnlyLastMispredicted, Mispredicted
  <2>2. ltable' = ltable /\ WITHLOOP' = WITHLOOP
    BY <1>3, <2>1
  <2>3. /\ Len(inflight') \in DOMAIN inflight' /\ ~(Len(inflight') < i)
        /\ Len(inflight') + 1 = Len(inflight) /\ inflight' # <<>>
    BY <1>5, <1>6, <1>8
  <2>4. inflight'[Len(inflight')] = inflight[Len(inflight)]
    BY <1>5, <2>3
  <2>5. Mispredicting' <=> Mispredicting
    BY <1>6, <2>3, <2>4 DEF Mispredicting, Mispredicted
  <2>6. Committed'.ltable = Committed.ltable /\ Committed'.WITHLOOP = Committed.WITHLOOP
    BY <2>2, <2>4, <2>5, CommittedIs, CommittedIsNext
  <2>7. QED
    BY <2>6 DEF InOrder!vars
<1>9. QED
  BY <1>7, <1>8

(* The speculative predictor implements the one that updates right away, in *)
(* every step in which update() predicts as predict() did.                  *)
THEOREM SpeculationInvisible == Spec => UpdatesInOrder
<1>1. Init => InOrder!Init
  <2>1. InOrder!EmptyTable = EmptyTable
    BY DEF InOrder!EmptyTable, EmptyTable
  <2>2. Init => ~Mispredicting
    BY DEF Init, Mispredicting
  <2>3. QED
    BY <2>1, <2>2, CommittedIs DEF Init, InOrder!Init
<1>2. IInv /\ [Next]_vars
        => [agreed' => InOrder!Next \/ UNCHANGED InOrder!vars]_vars
  <2>1. ASSUME IInv, Next, agreed'
        PROVE  InOrder!Next \/ UNCHANGED InOrder!vars
    BY <2>1, PredictInOrder, ResolveInOrder, InFlightAssumption DEF Next
  <2>2. QED
    BY <2>1
<1>3. QED
  BY <1>1, <1>2, Invariance, PTL DEF Spec, UpdatesInOrder
=============================================================================
