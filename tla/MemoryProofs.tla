---------------------------- MODULE MemoryProofs ----------------------------
(***************************************************************************)
(* Proofs about when data are available: register and store-queue          *)
(* timestamps, for every set of uops, latency and trace; and the caches,   *)
(* for every geometry, latency and sequence of accesses.                   *)
(***************************************************************************)
EXTENDS Dataflow, Cache, WellFoundedInduction, TLAPS

-----------------------------------------------------------------------------
(* A bounded set of numbers has a maximum.                                  *)
LEMMA LeastNumber ==
  ASSUME NEW T \in SUBSET Nat, T # {}
  PROVE  \E x \in T : \A y \in T : x <= y
<1>1. PICK x \in T : \A y \in T : <<y, x>> \notin OpToRel(<, Nat)
  BY NatLessThanWellFounded, WFMin
<1>2. ASSUME NEW y \in T PROVE x <= y
  <2>1. <<y, x>> \in OpToRel(<, Nat) <=> y < x
    BY Zenon DEF OpToRel
  <2>2. ~(y < x)
    BY <1>1, <2>1, Zenon
  <2>. QED  BY <2>2
<1>. QED  BY <1>2

LEMMA MaxOfBounded ==
  ASSUME NEW T \in SUBSET Nat, T # {}, NEW b \in Nat, \A x \in T : x <= b
  PROVE  Max(T) \in T /\ \A x \in T : x <= Max(T)
<1>. DEFINE R == {k \in Nat : \E x \in T : k = b - x}
<1>1. R # {}
  <2>1. PICK x \in T : TRUE  OBVIOUS
  <2>2. b - x \in R  BY <2>1
  <2>. QED  BY <2>2
<1>2. PICK k \in R : \A y \in R : k <= y
  BY <1>1, LeastNumber
<1>3. PICK x \in T : k = b - x
  OBVIOUS
<1>4. ASSUME NEW y \in T PROVE x >= y
  <2>1. b - y \in R  OBVIOUS
  <2>2. k <= b - y  BY <1>2, <2>1
  <2>. QED  BY <1>3, <2>2
<1>. QED  BY <1>4 DEF Max

-----------------------------------------------------------------------------
(* The invariant.                                                           *)

Records == [uop : Uops, start : Nat, done : Nat, retire : Nat, fromL1 : SUBSET Bytes]
Entries == [exec_cycle : Nat, ret_cycle : Nat]

TypeInv ==
  /\ fetch_cycle \in Nat
  /\ RF \in [Regs -> Nat]
  /\ SQ \in [DOMAIN SQ -> Entries]
  /\ back_retire \in Nat
  /\ history \in Seq(Records)

End == Len(history) + 1

(* A register has the timestamp of its last writer.                         *)
RegisterInv ==
  \A r \in Regs \ {RFZERO}, i \in DOMAIN history :
    LastWriter(End, r, i) => RF[r] = history[i].done

(* A byte has the timestamps of the last store to it, and no store is still *)
(* to execute when the last uop has retired.                                *)
StoreInv ==
  /\ \A a \in DOMAIN SQ : SQ[a].exec_cycle <= back_retire
  /\ \A a \in Bytes, i \in DOMAIN history :
       LastStore(End, a, i) =>
         /\ a \in DOMAIN SQ
         /\ SQ[a].exec_cycle = history[i].done
         /\ SQ[a].ret_cycle >= history[i].done
         /\ SQ[a].ret_cycle >= history[i].retire

IInv == TypeInv /\ RegisterInv /\ StoreInv /\ DataReadyUnlessZero /\ LoadsSeeStores

LEMMA Initially == Init => IInv
<1>. SUFFICES ASSUME Init PROVE IInv
  OBVIOUS
<1>1. TypeInv
  <2>1. 0 \in Nat /\ <<>> \in Seq(Records)  OBVIOUS
  <2>2. SQ = [a \in {} |-> 0] /\ DOMAIN SQ = {}  BY DEF Init
  <2>. QED  BY <2>1, <2>2 DEF Init, TypeInv
<1>2. DOMAIN history = {} /\ DOMAIN SQ = {}
  BY DEF Init
<1>. QED
  BY <1>1, <1>2 DEF IInv, RegisterInv, StoreInv, DataReadyUnlessZero, LoadsSeeStores

-----------------------------------------------------------------------------
(* The cycles of a uop.                                                     *)

(* Execution starts when all registers that the uop waits for are ready.    *)
LEMMA ReadyCycle ==
  ASSUME TypeInv, fetch_cycle' \in Nat, NEW u \in Uops
  PROVE  /\ Ready(u) \in Nat
         /\ \A r \in WaitedFor(u) : r \in Regs /\ RF[r] <= Ready(u)
<1>. DEFINE T == {fetch_cycle' + PIPELINE_FILL_LATENCY} \cup {RF[r] : r \in WaitedFor(u)}
            v(x) == IF x \in Regs THEN RF[x] ELSE 0
            b == fetch_cycle' + PIPELINE_FILL_LATENCY + v(u.A) + v(u.B) + v(u.C)
<1>1. WaitedFor(u) \subseteq Regs /\ WaitedFor(u) \subseteq {u.A, u.B, u.C}
  BY UopAssumption DEF WaitedFor
<1>2. PIPELINE_FILL_LATENCY \in Nat
  BY TimeAssumption
<1>3. v(u.A) \in Nat /\ v(u.B) \in Nat /\ v(u.C) \in Nat
  BY DEF TypeInv
<1>4. \A r \in WaitedFor(u) : RF[r] \in Nat /\ RF[r] \in {v(u.A), v(u.B), v(u.C)}
  BY <1>1 DEF TypeInv
<1>5. T \in SUBSET Nat /\ T # {}
  BY <1>2, <1>4
<1>. HIDE DEF v
<1>6. b \in Nat /\ \A x \in T : x <= b
  <2>1. b \in Nat  BY <1>2, <1>3
  <2>2. fetch_cycle' + PIPELINE_FILL_LATENCY <= b  BY <1>2, <1>3
  <2>3. v(u.A) <= b /\ v(u.B) <= b /\ v(u.C) <= b  BY <1>2, <1>3
  <2>. HIDE DEF b
  <2>. QED  BY <1>4, <2>1, <2>2, <2>3
<1>7. \A r \in WaitedFor(u) : RF[r] \in T
  OBVIOUS
<1>. HIDE DEF T, b
<1>8. Max(T) \in T /\ \A x \in T : x <= Max(T)
  BY <1>5, <1>6, MaxOfBounded
<1>9. Ready(u) = Max(T)
  BY Zenon DEF Ready, T
<1>. QED  BY <1>1, <1>5, <1>7, <1>8, <1>9

(* Execution ends, for a load, when all its bytes have come.                *)
LEMMA DoneCycle ==
  ASSUME TypeInv, StoreInv, NEW u \in Uops, NEW start \in Nat, NEW cache \in Nat
  PROVE  /\ Done(u, start, cache) \in Nat
         /\ u.class = "load" =>
              \A a \in u.bytes : /\ ByteReady(a, start, cache) \in Nat
                                 /\ ByteReady(a, start, cache) <= Done(u, start, cache)
<1>1. CASE u.class # "load"
  <2>1. ExecLatency(u) \in Nat
    BY TimeAssumption DEF ExecLatency
  <2>. QED  BY <1>1, <2>1 DEF Done
<1>2. CASE u.class = "load"
  <2>. DEFINE T == {ByteReady(a, start, cache) : a \in u.bytes}
              b == start + 2 + cache + back_retire
  <2>1. u.bytes # {}
    BY <1>2, UopAssumption
  <2>2. ASSUME NEW a \in u.bytes
        PROVE  ByteReady(a, start, cache) \in Nat /\ ByteReady(a, start, cache) <= b
    <3>1. CASE InSQ(a, SearchCycle(start))
      <4>1. SQ[a].exec_cycle \in Nat /\ SQ[a].exec_cycle <= back_retire /\ back_retire \in Nat
        BY <3>1 DEF TypeInv, StoreInv, InSQ, Entries
      <4>2. ByteReady(a, start, cache) = Larger(start + 2, SQ[a].exec_cycle)
        BY <3>1 DEF ByteReady, SearchCycle
      <4>. QED  BY <4>1, <4>2 DEF Larger
    <3>2. CASE ~InSQ(a, SearchCycle(start))
      <4>1. ByteReady(a, start, cache) = start + 1 + cache /\ back_retire \in Nat
        BY <3>2 DEF ByteReady, TypeInv
      <4>. QED  BY <4>1
    <3>. QED  BY <3>1, <3>2
  <2>3. b \in Nat
    BY DEF TypeInv
  <2>4. T \in SUBSET Nat /\ T # {} /\ \A x \in T : x <= b
    BY <2>1, <2>2
  <2>5. \A a \in u.bytes : ByteReady(a, start, cache) \in T
    OBVIOUS
  <2>. HIDE DEF T, b
  <2>6. Max(T) \in T /\ \A x \in T : x <= Max(T)
    BY <2>3, <2>4, MaxOfBounded
  <2>7. Done(u, start, cache) = Max(T)
    BY <1>2, Zenon DEF Done, T
  <2>. QED  BY <2>2, <2>4, <2>5, <2>6, <2>7
<1>. QED  BY <1>1, <1>2

-----------------------------------------------------------------------------
(* A step.                                                                  *)

Record(u, start, done, retire) ==
  [uop |-> u, start |-> start, done |-> done, retire |-> retire,
   fromL1 |-> FromL1(u, start)]

(* What a step does, and what is known of the cycles it computes.           *)
Effect(u, cache, start, done, retire) ==
  /\ \A r \in WaitedFor(u) : RF[r] <= start
  /\ u.class = "load" => cache # 0
  /\ done = Done(u, start, cache)
  /\ retire = Larger(done, back_retire)
  /\ RF' = WrittenRF(u, done)
  /\ SQ' = WrittenSQ(u, done, cache)
  /\ back_retire' = retire
  /\ history' = Append(history, Record(u, start, done, retire))

Timed(u, wait, cache) ==
  LET start == Ready(u) + wait
      done == Done(u, start, cache)
      retire == Larger(done, back_retire)
  IN  /\ RF' = WrittenRF(u, done)
      /\ SQ' = WrittenSQ(u, done, cache)
      /\ back_retire' = retire
      /\ history' = Append(history, Record(u, start, done, retire))

LEMMA StepEffect ==
  ASSUME IInv, Step
  PROVE  /\ fetch_cycle' \in Nat
         /\ \E u \in Uops, cache \in Nat, start \in Nat, done \in Nat, retire \in Nat :
              Effect(u, cache, start, done, retire)
<1>1. fetch_cycle' \in Nat
  BY TimeAssumption DEF IInv, TypeInv, Step
<1>2. PICK u \in Uops, wait \in Waits : \E cache \in AccessTimes(u) : Timed(u, wait, cache)
  BY Zenon DEF Step, Record, Timed
<1>3. PICK cache \in AccessTimes(u) : Timed(u, wait, cache)
  BY <1>2, Zenon
<1>4. cache \in Nat /\ (u.class = "load" => cache # 0) /\ wait \in Nat
  BY TimeAssumption DEF AccessTimes
<1>5. /\ Ready(u) \in Nat
      /\ \A r \in WaitedFor(u) : r \in Regs /\ RF[r] <= Ready(u)
  BY <1>1, ReadyCycle DEF IInv
<1>6. PICK start \in Nat : start = Ready(u) + wait
  BY <1>4, <1>5
<1>7. \A r \in WaitedFor(u) : RF[r] <= start
  BY <1>4, <1>5, <1>6 DEF IInv, TypeInv
<1>8. PICK done \in Nat : done = Done(u, start, cache)
  BY <1>4, DoneCycle DEF IInv
<1>9. PICK retire \in Nat : retire = Larger(done, back_retire)
  BY DEF Larger, IInv, TypeInv
<1>10. Effect(u, cache, start, done, retire)
  BY <1>3, <1>4, <1>6, <1>7, <1>8, <1>9, Zenon DEF Effect, Timed
<1>. QED  BY <1>1, <1>4, <1>10

(* The timestamps keep their types.                                         *)
LEMMA TypeStep ==
  ASSUME IInv, fetch_cycle' \in Nat,
         NEW u \in Uops, NEW cache \in Nat, NEW start \in Nat, NEW done \in Nat,
         NEW retire \in Nat, Effect(u, cache, start, done, retire)
  PROVE  TypeInv'
<1>1. RF' \in [Regs -> Nat]
  <2>1. u.D \in Regs \cup {None}  BY UopAssumption
  <2>. QED  BY <2>1 DEF Effect, WrittenRF, IInv, TypeInv
<1>2. SQ' \in [DOMAIN SQ' -> Entries]
  <2>1. CASE u.class = "store"
    <3>1. SQ' = [a \in DOMAIN SQ \cup u.bytes |->
                   IF a \in u.bytes THEN StoreEntry(done, cache) ELSE SQ[a]]
      BY <2>1, Zenon DEF Effect, WrittenSQ
    <3>2. StoreEntry(done, cache) \in Entries
      BY DEF StoreEntry, Entries, Larger, IInv, TypeInv
    <3>3. \A a \in DOMAIN SQ : SQ[a] \in Entries
      BY DEF IInv, TypeInv
    <3>. QED  BY <3>1, <3>2, <3>3
  <2>2. CASE u.class # "store"
    <3>1. SQ' = SQ  BY <2>2, Zenon DEF Effect, WrittenSQ
    <3>. QED  BY <3>1 DEF IInv, TypeInv
  <2>. QED  BY <2>1, <2>2
<1>3. history' \in Seq(Records)
  <2>1. Record(u, start, done, retire) \in Records
    <3>. DEFINE l1 == FromL1(u, start)
    <3>1. l1 \in SUBSET Bytes
      BY DEF FromL1, Bytes
    <3>2. Record(u, start, done, retire) =
            [uop |-> u, start |-> start, done |-> done, retire |-> retire, fromL1 |-> l1]
      BY DEF Record
    <3>. HIDE DEF l1
    <3>. QED  BY <3>1, <3>2 DEF Records
  <2>. QED  BY <2>1 DEF Effect, IInv, TypeInv
<1>. QED  BY <1>1, <1>2, <1>3 DEF Effect, TypeInv

(* The history grows by the uop, and what was before it remains.            *)
Grown(n, rec) ==
  /\ n = Len(history) /\ DOMAIN history = 1 .. n
  /\ Len(history') = n + 1 /\ DOMAIN history' = 1 .. n + 1
  /\ history'[n + 1] = rec
  /\ \A i \in 1 .. n : history'[i] = history[i]

LEMMA HistoryGrows ==
  ASSUME TypeInv, NEW rec, history' = Append(history, rec)
  PROVE  \E n \in Nat : Grown(n, rec)
<1>1. history \in Seq(Records)  BY DEF TypeInv
<1>2. history \in Seq(Records \cup {rec}) /\ rec \in Records \cup {rec}
  BY <1>1
<1>. HIDE DEF Records
<1>. QED  BY <1>1, <1>2 DEF Grown

(* Who is last changes only by the new uop.                                 *)
LEMMA LastWriters ==
  ASSUME NEW n \in Nat, NEW rec, Grown(n, rec), NEW r, NEW i \in 1 .. n
  PROVE  /\ \A j \in 1 .. n + 1 : LastWriter(j, r, i)' <=> LastWriter(j, r, i)
         /\ LastWriter(n + 2, r, i)' <=> LastWriter(n + 1, r, i) /\ rec.uop.D # r
<1>1. \A k \in 1 .. n : Writer(k, r)' <=> Writer(k, r)
  BY Zenon DEF Grown, Writer
<1>2. Writer(n + 1, r)' <=> rec.uop.D = r
  BY Zenon DEF Grown, Writer
<1>3. ASSUME NEW j \in 1 .. n + 1 PROVE LastWriter(j, r, i)' <=> LastWriter(j, r, i)
  <2>1. \A k \in i + 1 .. j - 1 : k \in 1 .. n
    OBVIOUS
  <2>. QED  BY <1>1, <2>1, Zenon DEF LastWriter
<1>4. LastWriter(n + 2, r, i)' <=> LastWriter(n + 1, r, i) /\ rec.uop.D # r
  <2>1. n + 2 - 1 = n + 1 /\ n + 1 - 1 = n /\ i < n + 2 /\ i < n + 1
    OBVIOUS
  <2>2. \A k : k \in i + 1 .. n + 1 <=> k \in i + 1 .. n \/ k = n + 1
    OBVIOUS
  <2>3. \A k \in i + 1 .. n : k \in 1 .. n
    OBVIOUS
  <2>4. LastWriter(n + 2, r, i)' <=>
          Writer(i, r)' /\ \A k \in i + 1 .. n + 1 : ~Writer(k, r)'
    BY <2>1 DEF LastWriter
  <2>5. LastWriter(n + 1, r, i) <=> Writer(i, r) /\ \A k \in i + 1 .. n : ~Writer(k, r)
    BY <2>1 DEF LastWriter
  <2>. QED  BY <1>1, <1>2, <2>2, <2>3, <2>4, <2>5, Zenon
<1>. QED  BY <1>3, <1>4

LEMMA LastStores ==
  ASSUME NEW n \in Nat, NEW rec, Grown(n, rec), NEW a, NEW i \in 1 .. n
  PROVE  /\ \A j \in 1 .. n + 1 : LastStore(j, a, i)' <=> LastStore(j, a, i)
         /\ LastStore(n + 2, a, i)' <=>
              LastStore(n + 1, a, i) /\ ~(rec.uop.class = "store" /\ a \in rec.uop.bytes)
<1>1. \A k \in 1 .. n : Stores(k, a)' <=> Stores(k, a)
  BY Zenon DEF Grown, Stores
<1>2. Stores(n + 1, a)' <=> rec.uop.class = "store" /\ a \in rec.uop.bytes
  BY Zenon DEF Grown, Stores
<1>3. ASSUME NEW j \in 1 .. n + 1 PROVE LastStore(j, a, i)' <=> LastStore(j, a, i)
  <2>1. \A k \in i + 1 .. j - 1 : k \in 1 .. n
    OBVIOUS
  <2>. QED  BY <1>1, <2>1, Zenon DEF LastStore
<1>4. LastStore(n + 2, a, i)' <=>
        LastStore(n + 1, a, i) /\ ~(rec.uop.class = "store" /\ a \in rec.uop.bytes)
  <2>1. n + 2 - 1 = n + 1 /\ n + 1 - 1 = n /\ i < n + 2 /\ i < n + 1
    OBVIOUS
  <2>2. \A k : k \in i + 1 .. n + 1 <=> k \in i + 1 .. n \/ k = n + 1
    OBVIOUS
  <2>3. \A k \in i + 1 .. n : k \in 1 .. n
    OBVIOUS
  <2>4. LastStore(n + 2, a, i)' <=>
          Stores(i, a)' /\ \A k \in i + 1 .. n + 1 : ~Stores(k, a)'
    BY <2>1 DEF LastStore
  <2>5. LastStore(n + 1, a, i) <=> Stores(i, a) /\ \A k \in i + 1 .. n : ~Stores(k, a)
    BY <2>1 DEF LastStore
  <2>. QED  BY <1>1, <1>2, <2>2, <2>3, <2>4, <2>5, Zenon
<1>. QED  BY <1>3, <1>4

(* The register that the uop writes gets its cycle.                         *)
LEMMA RegisterStep ==
  ASSUME IInv,
         NEW u \in Uops, NEW cache \in Nat, NEW start \in Nat, NEW done \in Nat,
         NEW retire \in Nat, Effect(u, cache, start, done, retire)
  PROVE  RegisterInv'
<1>. DEFINE rec == Record(u, start, done, retire)
<1>1. PICK n \in Nat : Grown(n, rec)
  BY HistoryGrows DEF IInv, Effect
<1>2. rec.uop = u /\ rec.done = done
  BY DEF Record
<1>. HIDE DEF rec
<1>. SUFFICES ASSUME NEW r \in Regs \ {RFZERO}, NEW i \in 1 .. n + 1, LastWriter(n + 2, r, i)'
              PROVE  RF'[r] = history'[i].done
  BY <1>1 DEF RegisterInv, End, Grown
<1>3. RF' = WrittenRF(u, done) /\ RF \in [Regs -> Nat]
  BY DEF Effect, IInv, TypeInv
<1>4. CASE i = n + 1
  <2>1. u.D = r
    BY <1>1, <1>2, <1>4 DEF LastWriter, Writer, Grown
  <2>2. u.D \notin {None, RFZERO}
    BY <2>1, UopAssumption
  <2>. QED  BY <1>1, <1>2, <1>3, <1>4, <2>1, <2>2 DEF WrittenRF, Grown
<1>5. CASE i # n + 1
  <2>1. i \in 1 .. n  BY <1>5
  <2>2. LastWriter(n + 1, r, i) /\ u.D # r
    BY <1>1, <1>2, <2>1, LastWriters
  <2>3. RF[r] = history[i].done
    BY <1>1, <2>1, <2>2 DEF IInv, RegisterInv, End, Grown
  <2>4. RF'[r] = RF[r]
    BY <1>3, <2>2 DEF WrittenRF
  <2>. QED  BY <1>1, <2>1, <2>3, <2>4 DEF Grown
<1>. QED  BY <1>4, <1>5

(* A store enters its bytes in the store queue.                             *)
LEMMA StoreStep ==
  ASSUME IInv,
         NEW u \in Uops, NEW cache \in Nat, NEW start \in Nat, NEW done \in Nat,
         NEW retire \in Nat, Effect(u, cache, start, done, retire)
  PROVE  StoreInv'
<1>. DEFINE rec == Record(u, start, done, retire)
<1>1. PICK n \in Nat : Grown(n, rec)
  BY HistoryGrows DEF IInv, Effect
<1>2. rec.uop = u /\ rec.done = done /\ rec.retire = retire
  BY DEF Record
<1>. HIDE DEF rec
<1>3. /\ back_retire \in Nat /\ back_retire' = retire /\ retire = Larger(done, back_retire)
      /\ retire >= done /\ retire >= back_retire
  BY DEF Effect, Larger, IInv, TypeInv
<1>4. /\ StoreEntry(done, cache).exec_cycle = done
      /\ StoreEntry(done, cache).ret_cycle >= done
      /\ StoreEntry(done, cache).ret_cycle >= retire
  BY <1>3 DEF StoreEntry, Larger
<1>5. u.class = "store" =>
        /\ DOMAIN SQ' = DOMAIN SQ \cup u.bytes
        /\ \A a \in u.bytes : SQ'[a] = StoreEntry(done, cache)
        /\ \A a \in DOMAIN SQ : a \notin u.bytes => SQ'[a] = SQ[a]
  BY DEF Effect, WrittenSQ
<1>6. u.class # "store" => SQ' = SQ
  BY DEF Effect, WrittenSQ
<1>7. ASSUME NEW a \in DOMAIN SQ' PROVE SQ'[a].exec_cycle <= back_retire'
  <2>1. CASE u.class = "store" /\ a \in u.bytes
    BY <2>1, <1>3, <1>4, <1>5
  <2>2. CASE ~(u.class = "store" /\ a \in u.bytes)
    <3>1. a \in DOMAIN SQ /\ SQ'[a] = SQ[a]
      BY <2>2, <1>5, <1>6
    <3>2. SQ[a].exec_cycle \in Nat /\ SQ[a].exec_cycle <= back_retire
      BY <3>1 DEF IInv, TypeInv, StoreInv, Entries
    <3>. QED  BY <3>1, <3>2, <1>3
  <2>. QED  BY <2>1, <2>2
<1>8. ASSUME NEW a \in Bytes, NEW i \in 1 .. n + 1, LastStore(n + 2, a, i)'
      PROVE  /\ a \in DOMAIN SQ'
             /\ SQ'[a].exec_cycle = history'[i].done
             /\ SQ'[a].ret_cycle >= history'[i].done
             /\ SQ'[a].ret_cycle >= history'[i].retire
  <2>1. CASE i = n + 1
    <3>1. u.class = "store" /\ a \in u.bytes
      BY <1>1, <1>2, <1>8, <2>1 DEF LastStore, Stores, Grown
    <3>2. history'[i] = rec
      BY <1>1, <2>1 DEF Grown
    <3>. QED  BY <1>2, <1>4, <1>5, <3>1, <3>2
  <2>2. CASE i # n + 1
    <3>1. i \in 1 .. n  BY <2>2
    <3>2. LastStore(n + 1, a, i) /\ ~(u.class = "store" /\ a \in u.bytes)
      BY <1>1, <1>2, <1>8, <3>1, LastStores
    <3>3. /\ a \in DOMAIN SQ
          /\ SQ[a].exec_cycle = history[i].done
          /\ SQ[a].ret_cycle >= history[i].done
          /\ SQ[a].ret_cycle >= history[i].retire
      BY <1>1, <3>1, <3>2 DEF IInv, StoreInv, End, Grown
    <3>4. a \in DOMAIN SQ' /\ SQ'[a] = SQ[a]
      BY <1>5, <1>6, <3>2, <3>3
    <3>5. history'[i] = history[i]
      BY <1>1, <3>1 DEF Grown
    <3>. QED  BY <3>3, <3>4, <3>5
  <2>. QED  BY <2>1, <2>2
<1>9. End' = n + 2 /\ DOMAIN history' = 1 .. n + 1
  BY <1>1 DEF End, Grown
<1>. QED  BY <1>7, <1>8, <1>9 DEF StoreInv

(* The uop waits for its source registers, which have the timestamps of     *)
(* their last writers.                                                      *)
LEMMA SourcesStep ==
  ASSUME IInv,
         NEW u \in Uops, NEW cache \in Nat, NEW start \in Nat, NEW done \in Nat,
         NEW retire \in Nat, Effect(u, cache, start, done, retire)
  PROVE  DataReadyUnlessZero'
<1>. DEFINE rec == Record(u, start, done, retire)
<1>1. PICK n \in Nat : Grown(n, rec)
  BY HistoryGrows DEF IInv, Effect
<1>2. rec.uop = u /\ rec.start = start
  BY DEF Record
<1>. HIDE DEF rec
<1>. SUFFICES ASSUME NEW j \in 1 .. n + 1, history'[j].uop.A # RFZERO,
                     NEW r \in Sources(history'[j].uop), NEW i \in 1 .. n + 1,
                     LastWriter(j, r, i)'
              PROVE  history'[i].done <= history'[j].start
  BY <1>1 DEF DataReadyUnlessZero, SourcesReady, Grown
<1>3. i < j /\ i \in 1 .. n
  BY DEF LastWriter
<1>4. LastWriter(j, r, i)
  BY <1>1, <1>3, LastWriters
<1>5. history'[i] = history[i]
  BY <1>1, <1>3 DEF Grown
<1>6. CASE j = n + 1
  <2>1. history'[j] = rec
    BY <1>1, <1>6 DEF Grown
  <2>2. r \in WaitedFor(u) /\ r # RFZERO
    BY <1>2, <2>1 DEF Sources, WaitedFor
  <2>3. r \in Regs
    BY <2>2, UopAssumption DEF WaitedFor
  <2>4. RF[r] <= start
    BY <2>2 DEF Effect
  <2>5. RF[r] = history[i].done
    BY <1>1, <1>3, <1>4, <1>6, <2>2, <2>3 DEF IInv, RegisterInv, End, Grown
  <2>. QED  BY <1>2, <1>5, <2>1, <2>4, <2>5
<1>7. CASE j # n + 1
  <2>1. j \in 1 .. n /\ history'[j] = history[j]
    BY <1>1, <1>7 DEF Grown
  <2>. QED
    BY <1>1, <1>3, <1>4, <1>5, <2>1 DEF IInv, DataReadyUnlessZero, SourcesReady, Grown
<1>. QED  BY <1>6, <1>7

(* A load waits for the stores that the store queue holds, and takes from   *)
(* L1 only the bytes whose stores have left it.                             *)
LEMMA LoadsStep ==
  ASSUME IInv,
         NEW u \in Uops, NEW cache \in Nat, NEW start \in Nat, NEW done \in Nat,
         NEW retire \in Nat, Effect(u, cache, start, done, retire)
  PROVE  LoadsSeeStores'
<1>. DEFINE rec == Record(u, start, done, retire)
<1>1. PICK n \in Nat : Grown(n, rec)
  BY HistoryGrows DEF IInv, Effect
<1>2. rec.uop = u /\ rec.start = start /\ rec.done = done
  BY DEF Record
<1>3. \A a \in rec.fromL1 : ~InSQ(a, SearchCycle(start))
  BY DEF Record, FromL1
<1>. HIDE DEF rec
<1>. SUFFICES ASSUME NEW j \in 1 .. n + 1, IsLoad(j)', NEW a \in history'[j].uop.bytes,
                     NEW i \in 1 .. n + 1, LastStore(j, a, i)'
              PROVE  /\ history'[j].done >= history'[i].done
                     /\ SearchCycle(history'[j].start) < history'[i].retire
                          => a \notin history'[j].fromL1
  BY <1>1 DEF LoadsSeeStores, SearchCycle, Grown
<1>4. i < j /\ i \in 1 .. n
  BY DEF LastStore
<1>5. LastStore(j, a, i)
  BY <1>1, <1>4, LastStores
<1>6. history'[i] = history[i]
  BY <1>1, <1>4 DEF Grown
<1>7. CASE j = n + 1
  <2>1. history'[j] = rec
    BY <1>1, <1>7 DEF Grown
  <2>2. u.class = "load" /\ a \in u.bytes
    BY <1>2, <2>1 DEF IsLoad
  <2>3. a \in Bytes
    BY <2>2 DEF Bytes
  <2>4. /\ a \in DOMAIN SQ
        /\ SQ[a].exec_cycle = history[i].done
        /\ SQ[a].ret_cycle >= history[i].done
        /\ SQ[a].ret_cycle >= history[i].retire
    BY <1>1, <1>4, <1>5, <1>7, <2>3 DEF IInv, StoreInv, End, Grown
  <2>5. /\ SQ[a].exec_cycle \in Nat /\ SQ[a].ret_cycle \in Nat
        /\ history[i].done \in Nat /\ history[i].retire \in Nat
    <3>1. SQ[a] \in Entries
      BY <2>4 DEF IInv, TypeInv
    <3>2. history[i] \in Records
      <4>1. i \in DOMAIN history  BY <1>1, <1>4 DEF Grown
      <4>. QED  BY <4>1 DEF IInv, TypeInv
    <3>. QED  BY <3>1, <3>2 DEF Entries, Records
  <2>6. ByteReady(a, start, cache) \in Nat /\ ByteReady(a, start, cache) <= done
    BY <2>2, DoneCycle DEF IInv, Effect
  <2>7. CASE InSQ(a, SearchCycle(start))
    <3>1. ByteReady(a, start, cache) = Larger(SearchCycle(start), SQ[a].exec_cycle)
      BY <2>7 DEF ByteReady
    <3>2. ByteReady(a, start, cache) >= SQ[a].exec_cycle
      BY <2>5, <3>1 DEF Larger, SearchCycle
    <3>3. done >= history[i].done
      BY <2>4, <2>5, <2>6, <3>2
    <3>4. a \notin rec.fromL1
      BY <1>3, <2>7
    <3>. QED  BY <1>2, <1>6, <2>1, <3>3, <3>4
  <2>8. CASE ~InSQ(a, SearchCycle(start))
    <3>1. ByteReady(a, start, cache) = start + 1 + cache
      BY <2>8 DEF ByteReady
    <3>2. SearchCycle(start) = start + 2
      BY DEF SearchCycle
    <3>3. SQ[a].ret_cycle <= start + 2 /\ cache # 0
      BY <2>2, <2>4, <2>5, <2>8, <3>2 DEF InSQ, Effect
    <3>4. done >= history[i].done
      BY <2>4, <2>5, <2>6, <3>1, <3>3
    <3>5. ~(SearchCycle(start) < history[i].retire)
      BY <2>4, <2>5, <3>2, <3>3
    <3>. QED  BY <1>2, <1>6, <2>1, <3>4, <3>5
  <2>. QED  BY <2>7, <2>8
<1>8. CASE j # n + 1
  <2>1. j \in 1 .. n /\ history'[j] = history[j]
    BY <1>1, <1>8 DEF Grown
  <2>2. IsLoad(j)
    BY <2>1 DEF IsLoad
  <2>. QED
    BY <1>1, <1>4, <1>5, <1>6, <2>1, <2>2 DEF IInv, LoadsSeeStores, Grown
<1>. QED  BY <1>7, <1>8

-----------------------------------------------------------------------------
(* The theorems.                                                            *)

(* Timestamps are those of the last writers and stores, in every reachable  *)
(* state.                                                                   *)
THEOREM Invariance == Spec => []IInv
<1>1. IInv /\ [Next]_vars => IInv'
  <2>. SUFFICES ASSUME IInv, [Next]_vars PROVE IInv'
    OBVIOUS
  <2>1. CASE UNCHANGED vars
    BY <2>1 DEF IInv, TypeInv, RegisterInv, StoreInv, DataReadyUnlessZero, SourcesReady,
                LoadsSeeStores, LastWriter, Writer, LastStore, Stores, IsLoad, End, vars
  <2>2. CASE Step
    <3>1. fetch_cycle' \in Nat
      BY <2>2, StepEffect
    <3>2. PICK u \in Uops, cache \in Nat, start \in Nat, done \in Nat, retire \in Nat :
            Effect(u, cache, start, done, retire)
      BY <2>2, StepEffect
    <3>. QED
      BY <3>1, <3>2, TypeStep, RegisterStep, StoreStep, SourcesStep, LoadsStep, Zenon DEF IInv
  <2>. QED  BY <2>1, <2>2, Zenon DEF Next, Terminated
<1>. QED  BY <1>1, Initially, PTL DEF Spec

(* Dataflow order: no uop starts before its producers are done, if its first*)
(* source is not the zero register (uarchsim.cc:471-497).                   *)
THEOREM DataReady == Spec => []DataReadyUnlessZero
<1>1. IInv => DataReadyUnlessZero  BY DEF IInv
<1>. QED  BY <1>1, Invariance, PTL

(* Memory order: for each byte of a load, of any width, the load waits for  *)
(* the youngest older store, and takes the byte from L1 only if that store  *)
(* has retired (the look-up byte by byte, uarchsim.cc:537-549).             *)
THEOREM MemoryOrder == Spec => []LoadsSeeStores
<1>1. IInv => LoadsSeeStores  BY DEF IInv
<1>. QED  BY <1>1, Invariance, PTL
-----------------------------------------------------------------------------
(* The caches.                                                              *)

(* A level's ways are ranked by their counters: each of 0 .. n - 1 once.    *)
Way == [line : Nat \cup {NoLine}, timestamp : Nat, lru : Nat]
Ranked(set, n) ==
  /\ set \in [0 .. n - 1 -> Way]
  /\ \A w \in 0 .. n - 1 : set[w].lru < n
  /\ \A w, x \in 0 .. n - 1 : set[w].lru = set[x].lru => w = x
  /\ \A k \in 0 .. n - 1 : \E w \in 0 .. n - 1 : set[w].lru = k

RankInv ==
  /\ C = [level \in Levels |-> C[level]]
  /\ \A level \in Levels :
       /\ C[level] = [i \in 0 .. Sets[level] - 1 |-> C[level][i]]
       /\ \A i \in 0 .. Sets[level] - 1 : Ranked(C[level][i], Assoc[level])

-----------------------------------------------------------------------------
(* Replacement in one set.                                                  *)

LEMMA RankRange ==
  ASSUME NEW n \in Nat \ {0}, NEW set, Ranked(set, n)
  PROVE  /\ DOMAIN set = 0 .. n - 1
         /\ \A w \in 0 .. n - 1 : set[w] \in Way /\ set[w].lru \in 0 .. n - 1
<1>1. DOMAIN set = 0 .. n - 1 /\ \A w \in 0 .. n - 1 : set[w] \in Way /\ set[w].lru < n
  BY DEF Ranked
<1>2. \A w \in 0 .. n - 1 : set[w].lru \in Nat
  BY <1>1 DEF Way
<1>. QED  BY <1>1, <1>2

LEMMA WayOfRank ==
  ASSUME NEW n \in Nat \ {0}, NEW set, Ranked(set, n), NEW k \in 0 .. n - 1
  PROVE  /\ WayAt(set, k) \in 0 .. n - 1
         /\ set[WayAt(set, k)].lru = k
         /\ \A w \in 0 .. n - 1 : set[w].lru = k => w = WayAt(set, k)
<1>1. DOMAIN set = 0 .. n - 1  BY DEF Ranked
<1>2. \E w \in DOMAIN set : set[w].lru = k  BY <1>1 DEF Ranked
<1>3. WayAt(set, k) \in DOMAIN set /\ set[WayAt(set, k)].lru = k
  BY <1>2 DEF WayAt
<1>. QED  BY <1>1, <1>3 DEF Ranked

(* The victim is the way that was used longest ago; the code asserts it.    *)
LEMMA VictimIsLast ==
  ASSUME NEW n \in Nat \ {0}, NEW set, Ranked(set, n)
  PROVE  Victim(set) \in 0 .. n - 1 /\ set[Victim(set)].lru = n - 1
<1>1. DOMAIN set = 0 .. n - 1 /\ \A w \in 0 .. n - 1 : set[w].lru \in 0 .. n - 1
  BY RankRange
<1>2. PICK w \in 0 .. n - 1 : set[w].lru = n - 1
  BY DEF Ranked
<1>. DEFINE Oldest(v) == \A x \in DOMAIN set :
              set[x].lru < set[v].lru \/ (set[x].lru = set[v].lru /\ x <= v)
<1>3. Oldest(w)
  <2>1. ASSUME NEW x \in 0 .. n - 1 PROVE set[x].lru < set[w].lru \/ (set[x].lru = set[w].lru /\ x <= w)
    <3>1. CASE set[x].lru = set[w].lru
      <4>1. x = w  BY <3>1 DEF Ranked
      <4>. QED  BY <4>1
    <3>2. CASE set[x].lru # set[w].lru
      BY <1>1, <1>2, <3>2
    <3>. QED  BY <3>1, <3>2
  <2>. QED  BY <1>1, <2>1
<1>4. Victim(set) \in DOMAIN set /\ Oldest(Victim(set))
  BY <1>1, <1>3 DEF Victim
<1>. DEFINE v == Victim(set)
<1>5. v \in 0 .. n - 1 /\ w \in DOMAIN set /\ set[v].lru \in 0 .. n - 1
  BY <1>1, <1>4
<1>6. set[w].lru < set[v].lru \/ set[w].lru = set[v].lru
  BY <1>4, <1>5
<1>. QED  BY <1>2, <1>5, <1>6

LEMMA TouchRanks ==
  ASSUME NEW n \in Nat \ {0}, NEW set, Ranked(set, n), NEW w \in 0 .. n - 1
  PROVE  /\ Ranked(Touch(set, w), n)
         /\ \A x \in 0 .. n - 1 : /\ Touch(set, w)[x].line = set[x].line
                                  /\ Touch(set, w)[x].timestamp = set[x].timestamp
         /\ WayAt(Touch(set, w), 0) = w
         /\ \A k \in 1 .. n - 1 : /\ k <= set[w].lru =>
                                       WayAt(Touch(set, w), k) = WayAt(set, k - 1)
                                  /\ k > set[w].lru =>
                                       WayAt(Touch(set, w), k) = WayAt(set, k)
<1>. DEFINE t == Touch(set, w)
            rank(x) == IF x = w THEN 0
                       ELSE IF set[x].lru < set[w].lru THEN set[x].lru + 1 ELSE set[x].lru
<1>1. DOMAIN set = 0 .. n - 1 /\ \A x \in 0 .. n - 1 : set[x] \in Way /\ set[x].lru \in 0 .. n - 1
  BY RankRange
<1>2. t = [x \in 0 .. n - 1 |-> [set[x] EXCEPT !.lru = rank(x)]]
  BY <1>1 DEF Touch
<1>3. ASSUME NEW x \in 0 .. n - 1
      PROVE  /\ t[x] \in Way /\ t[x].lru = rank(x)
             /\ t[x].line = set[x].line /\ t[x].timestamp = set[x].timestamp
  <2>1. rank(x) \in Nat  BY <1>1
  <2>2. t[x] = [set[x] EXCEPT !.lru = rank(x)]  BY <1>2
  <2>. HIDE DEF t, rank
  <2>. QED  BY <1>1, <2>1, <2>2 DEF Way
<1>4. DOMAIN t = 0 .. n - 1 /\ t \in [0 .. n - 1 -> Way]
  BY <1>2, <1>3
<1>. HIDE DEF t
<1>5. \A x \in 0 .. n - 1 : rank(x) \in 0 .. n - 1
  <2>1. TAKE x \in 0 .. n - 1
  <2>2. CASE x # w /\ set[x].lru < set[w].lru
    BY <1>1, <2>2
  <2>. QED  BY <1>1, <2>2
<1>6. ASSUME NEW x \in 0 .. n - 1, NEW y \in 0 .. n - 1, rank(x) = rank(y) PROVE x = y
  <2>1. set[x].lru = set[y].lru => x = y
    BY DEF Ranked
  <2>2. (x # w => set[x].lru # set[w].lru) /\ (y # w => set[y].lru # set[w].lru)
    BY DEF Ranked
  <2>. QED  BY <1>1, <1>6, <2>1, <2>2
<1>. DEFINE before(k) == IF k = 0 THEN w
                         ELSE IF k <= set[w].lru THEN WayAt(set, k - 1) ELSE WayAt(set, k)
<1>7. ASSUME NEW k \in 0 .. n - 1 PROVE before(k) \in 0 .. n - 1 /\ rank(before(k)) = k
  <2>1. CASE k = 0  BY <2>1
  <2>2. CASE k # 0 /\ k <= set[w].lru
    <3>1. k - 1 \in 0 .. n - 1  BY <2>2
    <3>2. WayAt(set, k - 1) \in 0 .. n - 1 /\ set[WayAt(set, k - 1)].lru = k - 1
      BY <3>1, WayOfRank
    <3>3. WayAt(set, k - 1) # w  BY <1>1, <2>2, <3>2
    <3>. QED  BY <1>1, <2>2, <3>2, <3>3
  <2>3. CASE k # 0 /\ ~(k <= set[w].lru)
    <3>1. WayAt(set, k) \in 0 .. n - 1 /\ set[WayAt(set, k)].lru = k
      BY WayOfRank
    <3>. QED  BY <1>1, <2>3, <3>1
  <2>. QED  BY <2>1, <2>2, <2>3
<1>8. Ranked(t, n)
  <2>1. \A k \in 0 .. n - 1 : \E x \in 0 .. n - 1 : t[x].lru = k
    <3>1. TAKE k \in 0 .. n - 1
    <3>2. before(k) \in 0 .. n - 1 /\ t[before(k)].lru = k  BY <1>3, <1>7
    <3>. QED  BY <3>2
  <2>2. \A x \in 0 .. n - 1 : t[x].lru < n
    BY <1>3, <1>5
  <2>3. \A x, y \in 0 .. n - 1 : t[x].lru = t[y].lru => x = y
    BY <1>3, <1>6
  <2>. QED  BY <1>4, <2>1, <2>2, <2>3 DEF Ranked
<1>9. \A k \in 0 .. n - 1 : WayAt(t, k) = before(k)
  <2>1. TAKE k \in 0 .. n - 1
  <2>2. before(k) \in 0 .. n - 1 /\ t[before(k)].lru = k  BY <1>3, <1>7
  <2>. HIDE DEF before
  <2>. QED  BY <1>8, <2>2, WayOfRank
<1>10. WayAt(t, 0) = w
  BY <1>9
<1>11. ASSUME NEW k \in 1 .. n - 1
       PROVE  /\ k <= set[w].lru => WayAt(t, k) = WayAt(set, k - 1)
              /\ k > set[w].lru => WayAt(t, k) = WayAt(set, k)
  <2>1. k \in 0 .. n - 1 /\ k # 0 /\ set[w].lru \in 0 .. n - 1
    BY <1>1
  <2>. QED  BY <1>9, <2>1
<1>. QED  BY <1>3, <1>8, <1>10, <1>11 DEF t

(* The ways' lines in the order of their ranks change as LRUSet's Use of    *)
(* the line changes its places.                                             *)
UsedAs(old, new, n, line) ==
  \E p \in 1 .. n :
    /\ \/ old[WayAt(old, p - 1)].line = line
       \/ p = n /\ \A k \in 1 .. n : old[WayAt(old, k - 1)].line # line
    /\ [k \in 1 .. n |-> new[WayAt(new, k - 1)].line] =
       [k \in 1 .. n |-> IF k = 1 THEN line
          ELSE IF k <= p THEN old[WayAt(old, k - 2)].line
          ELSE old[WayAt(old, k - 1)].line]

LEMMA UseOfSet ==
  ASSUME NEW n \in Nat \ {0}, NEW old, Ranked(old, n), NEW set, Ranked(set, n),
         NEW w \in 0 .. n - 1, NEW line,
         set[w].lru = old[w].lru, set[w].line = line,
         \A x \in 0 .. n - 1 \ {w} : set[x] = old[x],
         \/ old[w].line = line
         \/ old[w].lru = n - 1 /\ \A x \in 0 .. n - 1 : old[x].line # line
  PROVE  UsedAs(old, Touch(set, w), n, line)
<1>. DEFINE p == old[w].lru + 1
            t == Touch(set, w)
<1>1. p \in 1 .. n /\ old[w].lru \in 0 .. n - 1
  BY RankRange
<1>2. WayAt(old, p - 1) = w
  BY <1>1, WayOfRank
<1>3. ASSUME NEW k \in 0 .. n - 1 PROVE WayAt(set, k) = WayAt(old, k)
  <2>1. WayAt(old, k) \in 0 .. n - 1 /\ old[WayAt(old, k)].lru = k  BY WayOfRank
  <2>2. set[WayAt(old, k)].lru = k  BY <2>1
  <2>. QED  BY <2>1, <2>2, WayOfRank
<1>4. /\ WayAt(t, 0) = w
      /\ \A k \in 1 .. n - 1 : /\ k <= set[w].lru => WayAt(t, k) = WayAt(set, k - 1)
                               /\ k > set[w].lru => WayAt(t, k) = WayAt(set, k)
  BY TouchRanks
<1>5. \A x \in 0 .. n - 1 : t[x].line = set[x].line
  BY TouchRanks
<1>. HIDE DEF t
<1>6. ASSUME NEW k \in 1 .. n
      PROVE  t[WayAt(t, k - 1)].line =
               IF k = 1 THEN line
               ELSE IF k <= p THEN old[WayAt(old, k - 2)].line
               ELSE old[WayAt(old, k - 1)].line
  <2>1. k - 1 \in 0 .. n - 1  OBVIOUS
  <2>2. CASE k = 1
    BY <1>4, <1>5, <2>1, <2>2
  <2>3. CASE k # 1 /\ k <= p
    <3>1. k - 2 \in 0 .. n - 1 /\ k - 2 = (k - 1) - 1 /\ k - 1 \in 1 .. n - 1 /\ k - 1 <= set[w].lru
      BY <1>1, <2>3
    <3>2. WayAt(t, k - 1) = WayAt(old, k - 2)
      <4>1. WayAt(t, k - 1) = WayAt(set, (k - 1) - 1)  BY <1>4, <3>1
      <4>2. WayAt(set, k - 2) = WayAt(old, k - 2)  BY <1>3, <3>1
      <4>. QED  BY <3>1, <4>1, <4>2
    <3>3. WayAt(old, k - 2) \in 0 .. n - 1 /\ old[WayAt(old, k - 2)].lru = k - 2
      BY <3>1, WayOfRank
    <3>4. WayAt(old, k - 2) # w
      BY <1>1, <2>3, <3>3
    <3>. QED  BY <1>5, <2>3, <3>2, <3>3, <3>4
  <2>4. CASE k # 1 /\ ~(k <= p)
    <3>1. k - 1 \in 1 .. n - 1 /\ k - 1 > set[w].lru
      BY <1>1, <2>4
    <3>2. WayAt(t, k - 1) = WayAt(old, k - 1)
      <4>1. WayAt(t, k - 1) = WayAt(set, k - 1)  BY <1>4, <3>1
      <4>. QED  BY <1>3, <2>1, <4>1
    <3>3. WayAt(old, k - 1) \in 0 .. n - 1 /\ old[WayAt(old, k - 1)].lru = k - 1
      BY <2>1, WayOfRank
    <3>4. WayAt(old, k - 1) # w
      BY <1>1, <2>4, <3>3
    <3>. QED  BY <1>5, <2>4, <3>2, <3>3, <3>4
  <2>. QED  BY <2>2, <2>3, <2>4
<1>7. \/ old[WayAt(old, p - 1)].line = line
      \/ p = n /\ \A k \in 1 .. n : old[WayAt(old, k - 1)].line # line
  <2>1. CASE old[w].line = line
    BY <1>2, <2>1
  <2>2. CASE old[w].lru = n - 1 /\ \A x \in 0 .. n - 1 : old[x].line # line
    <3>1. ASSUME NEW k \in 1 .. n PROVE old[WayAt(old, k - 1)].line # line
      <4>1. k - 1 \in 0 .. n - 1  OBVIOUS
      <4>2. WayAt(old, k - 1) \in 0 .. n - 1  BY <4>1, WayOfRank
      <4>. QED  BY <2>2, <4>2
    <3>. QED  BY <2>2, <3>1
  <2>. QED  BY <2>1, <2>2
<1>8. [k \in 1 .. n |-> t[WayAt(t, k - 1)].line] =
      [k \in 1 .. n |-> IF k = 1 THEN line
         ELSE IF k <= p THEN old[WayAt(old, k - 2)].line
         ELSE old[WayAt(old, k - 1)].line]
  BY <1>6
<1>. QED  BY <1>1, <1>7, <1>8 DEF t, UsedAs

-----------------------------------------------------------------------------
(* One access.                                                              *)

EntryLevels == {"IC", "L1"}

LEMMA ChainLevels ==
  ASSUME NEW level \in EntryLevels
  PROVE  /\ Chain(level) = <<level, "L2", "L3">> /\ Len(Chain(level)) = 3
         /\ DOMAIN Chain(level) = 1 .. 3
         /\ Chain(level)[1] = level /\ Chain(level)[2] = "L2" /\ Chain(level)[3] = "L3"
         /\ level \notin {"L2", "L3"} /\ level \in Levels
BY DEF Chain, EntryLevels, Levels

LEMMA PrefixLevels ==
  ASSUME NEW level \in EntryLevels, NEW d \in 0 .. 4
  PROVE  Prefix(Chain(level), d) =
           {l \in {level, "L2", "L3"} : \/ l = level /\ d >= 1
                                        \/ l = "L2" /\ d >= 2
                                        \/ l = "L3" /\ d >= 3}
<1>. DEFINE chain == Chain(level)
<1>1. Prefix(chain, d) = {chain[j] : j \in {i \in 1 .. 3 : i <= d}}
  BY ChainLevels DEF Prefix
<1>2. ASSUME NEW l
      PROVE  (\E j \in 1 .. 3 : j <= d /\ l = chain[j]) <=>
               \/ l = chain[1] /\ d >= 1
               \/ l = chain[2] /\ d >= 2
               \/ l = chain[3] /\ d >= 3
  <2>1. \A i \in 1 .. 3 : i = 1 \/ i = 2 \/ i = 3  OBVIOUS
  <2>2. 1 \in 1 .. 3 /\ 2 \in 1 .. 3 /\ 3 \in 1 .. 3  OBVIOUS
  <2>. HIDE DEF chain
  <2>. QED  BY <2>1, <2>2
<1>3. chain[1] = level /\ chain[2] = "L2" /\ chain[3] = "L3"
  BY ChainLevels
<1>. HIDE DEF chain
<1>. QED  BY <1>1, <1>2, <1>3 DEF chain

(* An access hits at its depth and misses above it.                         *)
LEMMA Depth ==
  ASSUME NEW level \in EntryLevels, NEW b
  PROVE  /\ HitDepth(Chain(level), b) \in 1 .. 4
         /\ HitDepth(Chain(level), b) <= 3 =>
              Hits(Chain(level)[HitDepth(Chain(level), b)], b)
         /\ \A k \in 1 .. 3 : k < HitDepth(Chain(level), b) => ~Hits(Chain(level)[k], b)
<1>. DEFINE chain == Chain(level)
            S == {k \in 1 .. 3 : Hits(chain[k], b)} \cup {4}
<1>1. HitDepth(chain, b) = Min(S)
  <2>1. DOMAIN chain = 1 .. 3 /\ Len(chain) = 3
    BY ChainLevels
  <2>2. Len(chain) + 1 = 4
    BY <2>1
  <2>. HIDE DEF chain
  <2>. QED  BY <2>1, <2>2, Zenon DEF HitDepth
<1>2. \E k \in S : \A x \in S : k <= x
  <2>1. CASE 1 \in S  BY <2>1
  <2>2. CASE 1 \notin S /\ 2 \in S  BY <2>2
  <2>3. CASE 1 \notin S /\ 2 \notin S /\ 3 \in S  BY <2>3
  <2>4. CASE 1 \notin S /\ 2 \notin S /\ 3 \notin S
    <3>1. S = {4}  BY <2>4
    <3>. QED  BY <3>1
  <2>. QED  BY <2>1, <2>2, <2>3, <2>4
<1>3. Min(S) \in S /\ \A x \in S : Min(S) <= x
  BY <1>2 DEF Min
<1>. DEFINE d == HitDepth(chain, b)
<1>4. d \in S /\ \A x \in S : d <= x
  BY <1>1, <1>3
<1>. HIDE DEF d
<1>5. d \in 1 .. 4 /\ (d <= 3 => Hits(chain[d], b))
  <2>0. S \subseteq 1 .. 4
    <3>1. \A x \in 1 .. 3 : x \in 1 .. 4  OBVIOUS
    <3>. QED  BY <3>1
  <2>1. d \in 1 .. 4  BY <1>4, <2>0
  <2>2. d <= 3 => d # 4  OBVIOUS
  <2>. QED  BY <1>4, <2>1, <2>2
<1>6. ASSUME NEW k \in 1 .. 3, k < d PROVE ~Hits(chain[k], b)
  BY <1>4, <1>5, <1>6
<1>. QED  BY <1>5, <1>6 DEF d

LEMMA Indices ==
  ASSUME NEW level \in Levels, NEW b \in Nat
  PROVE  /\ Assoc[level] \in Nat \ {0} /\ Sets[level] \in Nat \ {0}
         /\ Span[level] \in Nat \ {0} /\ Latency[level] \in Nat
         /\ Line(level, b) \in Nat /\ Index(level, b) \in 0 .. Sets[level] - 1
<1>1. /\ Assoc[level] \in Nat \ {0} /\ Sets[level] \in Nat \ {0}
      /\ Span[level] \in Nat \ {0} /\ Latency[level] \in Nat
  BY CacheAssumption
<1>2. Line(level, b) \in Nat
  BY <1>1 DEF Line
<1>. QED  BY <1>1, <1>2 DEF Index

LEMMA Searching ==
  ASSUME NEW level \in EntryLevels, NEW cycle \in Nat, NEW k \in 1 .. 3
  PROVE  SearchedBy(Chain(level), cycle, k) \in Nat
<1>1. \A j \in 1 .. 3 : Latency[Chain(level)[j]] \in Nat
  BY ChainLevels, CacheAssumption DEF Levels
<1>. QED  BY <1>1 DEF SearchedBy

(* Data that hit are available not before the copy that was found.          *)
LEMMA Availability ==
  ASSUME RankInv, NEW level \in EntryLevels, NEW cycle \in Nat, NEW b \in Nat
  PROVE  /\ Avail(Chain(level), cycle, b) \in Nat
         /\ LET k == HitDepth(Chain(level), b)
            IN  k <= 3 => \E w \in WaysHolding(Chain(level)[k], b) :
                  Avail(Chain(level), cycle, b) >= SetOf(Chain(level)[k], b)[w].timestamp
<1>. DEFINE chain == Chain(level)
            k == HitDepth(chain, b)
<1>1. k \in 1 .. 4 /\ (k <= 3 => Hits(chain[k], b)) /\ Len(chain) = 3
  BY Depth, ChainLevels
<1>2. CASE k = 4
  <2>1. Avail(chain, cycle, b) = SearchedBy(chain, cycle, 3) + MAIN_MEMORY_LATENCY
    BY <1>1, <1>2 DEF Avail
  <2>. QED  BY <1>2, <2>1, Searching, CacheAssumption
<1>3. CASE k # 4
  <2>. DEFINE hit == CHOOSE w \in WaysHolding(chain[k], b) : TRUE
              stamp == SetOf(chain[k], b)[hit].timestamp
              here == SearchedBy(chain, cycle, k)
  <2>1. k \in 1 .. 3 /\ chain[k] \in Levels
    BY <1>1, <1>3, ChainLevels DEF Levels
  <2>2. hit \in WaysHolding(chain[k], b)
    BY <1>1, <2>1 DEF Hits
  <2>3. hit \in 0 .. Assoc[chain[k]] - 1
    BY <2>2 DEF WaysHolding, Ways
  <2>4. Ranked(SetOf(chain[k], b), Assoc[chain[k]])
    BY <2>1, Indices DEF RankInv, SetOf
  <2>5. SetOf(chain[k], b)[hit] \in Way
    BY <2>1, <2>3, <2>4, Indices, RankRange
  <2>6. stamp \in Nat
    BY <2>5 DEF Way
  <2>7. here \in Nat
    BY <2>1, Searching
  <2>8. Avail(chain, cycle, b) = Later(stamp, here)
    BY <1>1, <2>1 DEF Avail
  <2>. HIDE DEF stamp, here, hit
  <2>9. Avail(chain, cycle, b) \in Nat /\ Avail(chain, cycle, b) >= stamp
    BY <2>6, <2>7, <2>8 DEF Later
  <2>. QED  BY <2>2, <2>9 DEF stamp
<1>. QED  BY <1>2, <1>3

(* A way that holds b, and what a fill puts in place of the victim.         *)
LEMMA HitWay ==
  ASSUME RankInv, NEW level \in Levels, NEW b \in Nat, Hits(level, b)
  PROVE  LET w == CHOOSE x \in WaysHolding(level, b) : TRUE
         IN  w \in 0 .. Assoc[level] - 1 /\ SetOf(level, b)[w].line = Line(level, b)
<1>1. \E x \in WaysHolding(level, b) : TRUE
  BY DEF Hits
<1>2. (CHOOSE x \in WaysHolding(level, b) : TRUE) \in WaysHolding(level, b)
  BY <1>1
<1>. QED  BY <1>2 DEF WaysHolding, Ways

LEMMA RankedSet ==
  ASSUME RankInv, NEW level \in Levels, NEW b \in Nat
  PROVE  Ranked(SetOf(level, b), Assoc[level])
BY Indices DEF RankInv, SetOf

Filled(old, v, line, avail) == [old EXCEPT ![v].line = line, ![v].timestamp = avail]
FilledWay(old, set, n, v, line, avail) ==
  /\ Ranked(set, n)
  /\ set[v].lru = old[v].lru /\ set[v].line = line /\ set[v].timestamp = avail
  /\ \A x \in 0 .. n - 1 \ {v} : set[x] = old[x]

LEMMA FillWay ==
  ASSUME NEW n \in Nat \ {0}, NEW old, Ranked(old, n), NEW line \in Nat,
         NEW avail \in Nat, NEW v \in 0 .. n - 1
  PROVE  FilledWay(old, Filled(old, v, line, avail), n, v, line, avail)
<1>. DEFINE set == [old EXCEPT ![v].line = line, ![v].timestamp = avail]
<1>2. DOMAIN old = 0 .. n - 1 /\ \A w \in 0 .. n - 1 : old[w] \in Way
  BY RankRange
<1>3. set[v] = [old[v] EXCEPT !.line = line, !.timestamp = avail] /\ DOMAIN set = 0 .. n - 1
  BY <1>2
<1>4. \A x \in 0 .. n - 1 \ {v} : set[x] = old[x]
  BY <1>2
<1>5. set \in [DOMAIN old -> {set[x] : x \in DOMAIN old}]
  BY <1>2, <1>3
<1>. HIDE DEF set
<1>6. /\ set[v] \in Way /\ set[v].lru = old[v].lru
      /\ set[v].line = line /\ set[v].timestamp = avail
  <2>1. old[v] \in Way  BY <1>2
  <2>. QED  BY <1>3, <2>1 DEF Way
<1>7. \A x \in 0 .. n - 1 : set[x] \in Way /\ set[x].lru = old[x].lru
  BY <1>2, <1>4, <1>6
<1>8. set \in [0 .. n - 1 -> Way]
  BY <1>2, <1>5, <1>7
<1>9. Ranked(set, n)
  <2>1. \A w \in 0 .. n - 1 : set[w].lru < n
    BY <1>7 DEF Ranked
  <2>2. \A w, x \in 0 .. n - 1 : set[w].lru = set[x].lru => w = x
    BY <1>7 DEF Ranked
  <2>3. \A k \in 0 .. n - 1 : \E w \in 0 .. n - 1 : set[w].lru = k
    BY <1>7 DEF Ranked
  <2>. QED  BY <1>8, <2>1, <2>2, <2>3 DEF Ranked
<1>. QED  BY <1>4, <1>6, <1>9 DEF set, Filled, FilledWay

(* What an access does at one level: nothing, a hit, or a miss and a fill   *)
(* with data that arrive at the cycle the access returns.                   *)
Untouched(level, b) == C'[level] = C[level]
HitAt(level, b) ==
  /\ Hits(level, b)
  /\ C'[level] = [C[level] EXCEPT ![Index(level, b)] = AfterHit(level, b)]
FilledAt(level, b, avail) ==
  /\ ~Hits(level, b)
  /\ C'[level] = [C[level] EXCEPT ![Index(level, b)] = AfterFill(level, b, avail)]

LEMMA AccessEffect ==
  ASSUME NEW e \in EntryLevels, NEW cycle \in Nat, NEW b \in Nat, NEW pf \in BOOLEAN,
         AccessFrom(e, cycle, b, pf), NEW level \in Levels
  PROVE  /\ level \notin Prefix(Chain(e), HitDepth(Chain(e), b)) => Untouched(level, b)
         /\ level \in Prefix(Chain(e), HitDepth(Chain(e), b)) =>
              HitAt(level, b) \/ FilledAt(level, b, Avail(Chain(e), cycle, b))
<1>. DEFINE chain == Chain(e)
            d == HitDepth(chain, b)
            found == Prefix(chain, d)
            filled == Prefix(chain, d - 1)
<1>1. /\ d \in 1 .. 4 /\ (d <= 3 => Hits(chain[d], b))
      /\ \A k \in 1 .. 3 : k < d => ~Hits(chain[k], b)
  BY Depth
<1>2. chain[1] = e /\ chain[2] = "L2" /\ chain[3] = "L3" /\ e \notin {"L2", "L3"}
  BY ChainLevels
<1>3. /\ level \in filled => ~Hits(level, b) /\ level \in found
      /\ level \in found /\ level \notin filled => Hits(level, b)
  <2>1. d \in 0 .. 4 /\ d - 1 \in 0 .. 4  BY <1>1
  <2>. HIDE DEF d, chain
  <2>2. found = {l \in {e, "L2", "L3"} : \/ l = e /\ d >= 1
                                         \/ l = "L2" /\ d >= 2
                                         \/ l = "L3" /\ d >= 3}
    BY <2>1, PrefixLevels DEF chain
  <2>3. filled = {l \in {e, "L2", "L3"} : \/ l = e /\ d - 1 >= 1
                                          \/ l = "L2" /\ d - 1 >= 2
                                          \/ l = "L3" /\ d - 1 >= 3}
    BY <2>1, PrefixLevels DEF chain
  <2>. HIDE DEF found, filled
  <2>4. level \in filled => \/ level = chain[1] /\ d > 1
                            \/ level = chain[2] /\ d > 2
                            \/ level = chain[3] /\ d > 3
    BY <1>1, <1>2, <2>3
  <2>5. level \in filled => ~Hits(level, b)
    BY <1>1, <2>4
  <2>6. level \in filled => level \in found
    BY <1>1, <2>2, <2>3
  <2>7. level \in found /\ level \notin filled => d <= 3 /\ level = chain[d]
    BY <1>1, <1>2, <2>2, <2>3
  <2>. QED  BY <1>1, <2>5, <2>6, <2>7
<1>4. C'[level] = IF level \in filled
                 THEN [C[level] EXCEPT ![Index(level, b)] =
                         AfterFill(level, b, Avail(chain, cycle, b))]
                 ELSE IF level \in found
                 THEN [C[level] EXCEPT ![Index(level, b)] = AfterHit(level, b)]
                 ELSE C[level]
  BY Zenon DEF AccessFrom
<1>. HIDE DEF filled, found
<1>. QED  BY <1>3, <1>4, Zenon DEF found, Untouched, HitAt, FilledAt

LEMMA HitEffect ==
  ASSUME RankInv, NEW level \in Levels, NEW b \in Nat, Hits(level, b)
  PROVE  /\ Ranked(AfterHit(level, b), Assoc[level])
         /\ UsedAs(SetOf(level, b), AfterHit(level, b), Assoc[level], Line(level, b))
         /\ \A x \in 0 .. Assoc[level] - 1 :
              /\ AfterHit(level, b)[x].line = SetOf(level, b)[x].line
              /\ AfterHit(level, b)[x].timestamp = SetOf(level, b)[x].timestamp
<1>. DEFINE n == Assoc[level]
            old == SetOf(level, b)
            w == CHOOSE x \in WaysHolding(level, b) : TRUE
<1>1. n \in Nat \ {0} /\ Ranked(old, n)
  BY Indices, RankedSet
<1>2. w \in 0 .. n - 1 /\ old[w].line = Line(level, b)
  BY HitWay
<1>3. AfterHit(level, b) = Touch(old, w)
  BY DEF AfterHit
<1>. HIDE DEF n, old, w
<1>4. /\ Ranked(Touch(old, w), n)
      /\ \A x \in 0 .. n - 1 : /\ Touch(old, w)[x].line = old[x].line
                               /\ Touch(old, w)[x].timestamp = old[x].timestamp
  BY <1>1, <1>2, TouchRanks
<1>5. UsedAs(old, Touch(old, w), n, Line(level, b))
  BY <1>1, <1>2, UseOfSet
<1>. QED  BY <1>3, <1>4, <1>5 DEF n, old

LEMMA FillEffect ==
  ASSUME RankInv, NEW level \in Levels, NEW b \in Nat, ~Hits(level, b), NEW avail \in Nat
  PROVE  /\ Ranked(AfterFill(level, b, avail), Assoc[level])
         /\ UsedAs(SetOf(level, b), AfterFill(level, b, avail), Assoc[level], Line(level, b))
         /\ \A x \in 0 .. Assoc[level] - 1 :
              \/ /\ AfterFill(level, b, avail)[x].line = SetOf(level, b)[x].line
                 /\ AfterFill(level, b, avail)[x].timestamp = SetOf(level, b)[x].timestamp
              \/ /\ AfterFill(level, b, avail)[x].line = Line(level, b)
                 /\ AfterFill(level, b, avail)[x].timestamp = avail
<1>. DEFINE n == Assoc[level]
            old == SetOf(level, b)
            line == Line(level, b)
            v == Victim(old)
            set == Filled(old, v, line, avail)
<1>1. n \in Nat \ {0} /\ Ranked(old, n) /\ line \in Nat
  BY Indices, RankedSet
<1>2. AfterFill(level, b, avail) = Touch(set, v)
  BY DEF AfterFill, Filled
<1>3. \A x \in 0 .. n - 1 : old[x].line # line
  BY DEF Hits, WaysHolding, Ways
<1>. HIDE DEF n, old, line, v
<1>4. /\ v \in 0 .. n - 1 /\ old[v].lru = n - 1
      /\ Ranked(set, n)
      /\ set[v].lru = old[v].lru /\ set[v].line = line /\ set[v].timestamp = avail
      /\ \A x \in 0 .. n - 1 \ {v} : set[x] = old[x]
  <2>1. v \in 0 .. n - 1 /\ old[v].lru = n - 1
    BY <1>1, VictimIsLast DEF v
  <2>2. n \in Nat \ {0} /\ Ranked(old, n) /\ line \in Nat /\ v \in 0 .. n - 1
    BY <1>1, <2>1
  <2>3. FilledWay(old, set, n, v, line, avail)
    BY <2>2, FillWay
  <2>. HIDE DEF set
  <2>. QED  BY <2>1, <2>3 DEF FilledWay
<1>. HIDE DEF set
<1>5. /\ Ranked(Touch(set, v), n)
      /\ \A x \in 0 .. n - 1 : /\ Touch(set, v)[x].line = set[x].line
                               /\ Touch(set, v)[x].timestamp = set[x].timestamp
  BY <1>1, <1>4, TouchRanks
<1>6. UsedAs(old, Touch(set, v), n, line)
  BY <1>1, <1>3, <1>4, UseOfSet
<1>7. \A x \in 0 .. n - 1 : \/ /\ Touch(set, v)[x].line = old[x].line
                               /\ Touch(set, v)[x].timestamp = old[x].timestamp
                            \/ /\ Touch(set, v)[x].line = line
                               /\ Touch(set, v)[x].timestamp = avail
  BY <1>4, <1>5
<1>. QED  BY <1>2, <1>5, <1>6, <1>7 DEF n, old, line

-----------------------------------------------------------------------------
(* The sets stay ranked.                                                    *)

LEMMA OneAccess ==
  ASSUME CacheNext
  PROVE  \E e \in EntryLevels, cycle \in Nat, b \in Blocks, pf \in BOOLEAN :
           (e = "IC" => ~pf) /\ AccessFrom(e, cycle, b, pf)
<1>1. CASE Fetch
  <2>1. PICK c \in AccessCycles, b \in Blocks : AccessFrom("IC", c, b, FALSE)
    BY <1>1 DEF Fetch
  <2>2. c \in Nat /\ "IC" \in EntryLevels  BY CacheAssumption DEF EntryLevels
  <2>. QED  BY <2>1, <2>2
<1>2. CASE LoadOrStore
  <2>1. PICK c \in AccessCycles, b \in Blocks : AccessFrom("L1", c, b, FALSE)
    BY <1>2 DEF LoadOrStore
  <2>2. c \in Nat /\ "L1" \in EntryLevels  BY CacheAssumption DEF EntryLevels
  <2>. QED  BY <2>1, <2>2
<1>3. CASE Prefetch
  <2>1. PICK c \in AccessCycles, b \in Blocks : AccessFrom("L1", c, b, TRUE)
    BY <1>3 DEF Prefetch
  <2>2. c \in Nat /\ "L1" \in EntryLevels  BY CacheAssumption DEF EntryLevels
  <2>. QED  BY <2>1, <2>2
<1>. QED  BY <1>1, <1>2, <1>3 DEF CacheNext

LEMMA RankInit == CacheInit => RankInv
<1>. SUFFICES ASSUME CacheInit PROVE RankInv  OBVIOUS
<1>1. C = [level \in Levels |-> [i \in 0 .. Sets[level] - 1 |->
            [w \in Ways(level) |-> [line |-> NoLine, timestamp |-> 0, lru |-> w]]]]
  BY DEF CacheInit
<1>2. ASSUME NEW level \in Levels, NEW i \in 0 .. Sets[level] - 1
      PROVE  Ranked(C[level][i], Assoc[level])
  <2>. DEFINE n == Assoc[level]
  <2>1. n \in Nat \ {0}  BY CacheAssumption
  <2>2. C[level][i] = [w \in 0 .. n - 1 |-> [line |-> NoLine, timestamp |-> 0, lru |-> w]]
    BY <1>1 DEF Ways
  <2>. HIDE DEF n
  <2>3. \A w \in 0 .. n - 1 :
          [line |-> NoLine, timestamp |-> 0, lru |-> w] \in Way
    BY <2>1 DEF Way
  <2>4. \A w \in 0 .. n - 1 : C[level][i][w].lru = w
    BY <2>2
  <2>5. C[level][i] \in [0 .. n - 1 -> Way]
    BY <2>2, <2>3
  <2>. QED  BY <2>1, <2>4, <2>5 DEF Ranked, n
<1>3. ASSUME NEW level \in Levels
      PROVE  C[level] = [i \in 0 .. Sets[level] - 1 |-> C[level][i]]
  BY <1>1
<1>4. C = [level \in Levels |-> C[level]]
  BY <1>1
<1>. QED  BY <1>2, <1>3, <1>4 DEF RankInv

LEMMA RankStep ==
  ASSUME RankInv, NEW e \in EntryLevels, NEW cycle \in Nat, NEW b \in Nat, NEW pf \in BOOLEAN,
         AccessFrom(e, cycle, b, pf)
  PROVE  RankInv'
<1>1. C' = [level \in Levels |-> C'[level]]
  <2>1. \E F : C' = [level \in Levels |-> F[level]]
    <3>. DEFINE F == C'
    <3>1. C' = [l \in Levels |->
                 IF l \in Prefix(Chain(e), HitDepth(Chain(e), b) - 1)
                 THEN [C[l] EXCEPT ![Index(l, b)] =
                         AfterFill(l, b, Avail(Chain(e), cycle, b))]
                 ELSE IF l \in Prefix(Chain(e), HitDepth(Chain(e), b))
                 THEN [C[l] EXCEPT ![Index(l, b)] = AfterHit(l, b)]
                 ELSE C[l]]
      BY Zenon DEF AccessFrom
    <3>2. C' = [l \in Levels |-> C'[l]]
      BY <3>1
    <3>. QED  BY <3>2
  <2>. QED  BY <2>1
<1>2. ASSUME NEW level \in Levels
      PROVE  /\ C'[level] = [i \in 0 .. Sets[level] - 1 |-> C'[level][i]]
             /\ \A i \in 0 .. Sets[level] - 1 : Ranked(C'[level][i], Assoc[level])
  <2>. DEFINE k == Index(level, b)
  <2>1. /\ C[level] = [i \in 0 .. Sets[level] - 1 |-> C[level][i]]
        /\ \A i \in 0 .. Sets[level] - 1 : Ranked(C[level][i], Assoc[level])
    BY DEF RankInv
  <2>2. k \in 0 .. Sets[level] - 1  BY Indices
  <2>3. CASE Untouched(level, b)
    BY <2>1, <2>3 DEF Untouched
  <2>4. ASSUME NEW set, C'[level] = [C[level] EXCEPT ![k] = set], Ranked(set, Assoc[level])
        PROVE  /\ C'[level] = [i \in 0 .. Sets[level] - 1 |-> C'[level][i]]
               /\ \A i \in 0 .. Sets[level] - 1 : Ranked(C'[level][i], Assoc[level])
    <3>. HIDE DEF k
    <3>1. C'[level] = [i \in 0 .. Sets[level] - 1 |-> IF i = k THEN set ELSE C[level][i]]
      BY <2>1, <2>2, <2>4
    <3>2. \A i \in 0 .. Sets[level] - 1 : C'[level][i] = IF i = k THEN set ELSE C[level][i]
      BY <3>1
    <3>. QED  BY <2>1, <2>4, <3>1, <3>2
  <2>5. CASE HitAt(level, b)
    <3>1. Ranked(AfterHit(level, b), Assoc[level])
      BY <2>5, HitEffect DEF HitAt
    <3>. QED  BY <2>4, <2>5, <3>1 DEF HitAt
  <2>6. CASE FilledAt(level, b, Avail(Chain(e), cycle, b))
    <3>1. Ranked(AfterFill(level, b, Avail(Chain(e), cycle, b)), Assoc[level])
      BY <2>6, FillEffect, Availability DEF FilledAt
    <3>. QED  BY <2>4, <2>6, <3>1 DEF FilledAt
  <2>. QED  BY <2>3, <2>5, <2>6, AccessEffect
<1>. QED  BY <1>1, <1>2 DEF RankInv

LEMMA RankNext == RankInv /\ [CacheNext]_CacheVars => RankInv'
<1>1. ASSUME RankInv, CacheNext PROVE RankInv'
  <2>1. PICK e \in EntryLevels, cycle \in Nat, b \in Blocks, pf \in BOOLEAN :
          AccessFrom(e, cycle, b, pf)
    BY <1>1, OneAccess
  <2>2. b \in Nat  BY CacheAssumption
  <2>. QED  BY <1>1, <2>1, <2>2, RankStep
<1>2. ASSUME RankInv, UNCHANGED CacheVars PROVE RankInv'
  BY <1>2 DEF CacheVars, RankInv
<1>. QED  BY <1>1, <1>2

(* In every set the counters are the ranks of the ways: exactly one way has *)
(* each value, so the scan for a victim finds one (assert in access()).     *)
THEOREM CacheRanks == CacheSpec => []RankInv
BY RankInit, RankNext, PTL DEF CacheSpec

-----------------------------------------------------------------------------
(* Each miss goes to the next level.                                        *)

CountInv ==
  /\ accesses \in [Levels -> Nat] /\ misses \in [Levels -> Nat]
  /\ pf_accesses \in [Levels -> Nat] /\ pf_misses \in [Levels -> Nat]
  /\ pf_misses["IC"] = 0
  /\ MissesGoDown

LEMMA CountInit == CacheInit => CountInv
<1>. SUFFICES ASSUME CacheInit PROVE CountInv  OBVIOUS
<1>1. \A level \in Levels : Zeros[level] = 0  BY DEF Zeros
<1>2. Zeros \in [Levels -> Nat]  BY DEF Zeros
<1>3. "IC" \in Levels /\ "L1" \in Levels /\ "L2" \in Levels /\ "L3" \in Levels
  BY DEF Levels
<1>. QED  BY <1>1, <1>2, <1>3 DEF CacheInit, CountInv, MissesGoDown

LEMMA Counting ==
  ASSUME NEW f \in [Levels -> Nat], NEW S
  PROVE  /\ Count(f, S) \in [Levels -> Nat]
         /\ \A l \in Levels : /\ l \in S => Count(f, S)[l] = f[l] + 1
                              /\ l \notin S => Count(f, S)[l] = f[l]
BY DEF Count

LEMMA CountStep ==
  ASSUME CountInv, NEW e \in EntryLevels, NEW cycle \in Nat, NEW b \in Nat, NEW pf \in BOOLEAN,
         e = "IC" => ~pf, AccessFrom(e, cycle, b, pf)
  PROVE  CountInv'
<1>. DEFINE d == HitDepth(Chain(e), b)
            found == Prefix(Chain(e), d)
            filled == Prefix(Chain(e), d - 1)
            FD == {l \in found : ~AsPrefetch(l, e, pf)}
            MD == {l \in filled : ~AsPrefetch(l, e, pf)}
            FP == {l \in found : AsPrefetch(l, e, pf)}
            MP == {l \in filled : AsPrefetch(l, e, pf)}
<1>1. /\ accesses' = Count(accesses, FD) /\ misses' = Count(misses, MD)
      /\ pf_accesses' = Count(pf_accesses, FP) /\ pf_misses' = Count(pf_misses, MP)
  BY Zenon DEF AccessFrom
<1>2. d \in 1 .. 4  BY Depth
<1>. HIDE DEF d
<1>3. found = {l \in {e, "L2", "L3"} : \/ l = e /\ d >= 1
                                       \/ l = "L2" /\ d >= 2
                                       \/ l = "L3" /\ d >= 3}
  <2>1. d \in 0 .. 4  BY <1>2
  <2>. QED  BY <2>1, PrefixLevels
<1>4. filled = {l \in {e, "L2", "L3"} : \/ l = e /\ d - 1 >= 1
                                        \/ l = "L2" /\ d - 1 >= 2
                                        \/ l = "L3" /\ d - 1 >= 3}
  <2>1. d - 1 \in 0 .. 4  BY <1>2
  <2>. QED  BY <2>1, PrefixLevels
<1>5. e \in {"IC", "L1"}  BY DEF EntryLevels
<1>. HIDE DEF found, filled
<1>6. /\ "L2" \in FD <=> d >= 2 /\ ~pf
      /\ "L3" \in FD <=> d >= 3 /\ ~pf
      /\ "L2" \in FP <=> d >= 2 /\ pf
      /\ "L3" \in FP <=> d >= 3 /\ pf
  BY <1>2, <1>3, <1>5 DEF AsPrefetch
<1>7. /\ e \in MD <=> d >= 2 /\ ~pf
      /\ "L2" \in MD <=> d >= 3 /\ ~pf
      /\ e \in MP <=> d >= 2 /\ pf
      /\ "L2" \in MP <=> d >= 3 /\ pf
      /\ \A l \in {"IC", "L1"} \ {e} : l \notin MD /\ l \notin MP
  BY <1>2, <1>4, <1>5 DEF AsPrefetch
<1>. HIDE DEF FD, MD, FP, MP
<1>8. "IC" \in Levels /\ "L1" \in Levels /\ "L2" \in Levels /\ "L3" \in Levels
  BY DEF Levels
<1>9. /\ accesses \in [Levels -> Nat] /\ misses \in [Levels -> Nat]
      /\ pf_accesses \in [Levels -> Nat] /\ pf_misses \in [Levels -> Nat]
      /\ pf_misses["IC"] = 0
  BY DEF CountInv
<1>10. /\ accesses' \in [Levels -> Nat] /\ misses' \in [Levels -> Nat]
       /\ pf_accesses' \in [Levels -> Nat] /\ pf_misses' \in [Levels -> Nat]
  BY <1>1, <1>9, Counting
<1>11. /\ d >= 2 /\ ~pf => accesses'["L2"] = accesses["L2"] + 1
       /\ ~(d >= 2 /\ ~pf) => accesses'["L2"] = accesses["L2"]
       /\ d >= 3 /\ ~pf => accesses'["L3"] = accesses["L3"] + 1
       /\ ~(d >= 3 /\ ~pf) => accesses'["L3"] = accesses["L3"]
  BY <1>1, <1>6, <1>8, <1>9, Counting
<1>12. /\ d >= 2 /\ pf => pf_accesses'["L2"] = pf_accesses["L2"] + 1
       /\ ~(d >= 2 /\ pf) => pf_accesses'["L2"] = pf_accesses["L2"]
       /\ d >= 3 /\ pf => pf_accesses'["L3"] = pf_accesses["L3"] + 1
       /\ ~(d >= 3 /\ pf) => pf_accesses'["L3"] = pf_accesses["L3"]
  BY <1>1, <1>6, <1>8, <1>9, Counting
<1>13. /\ d >= 2 /\ ~pf => misses'[e] = misses[e] + 1
       /\ ~(d >= 2 /\ ~pf) => misses'[e] = misses[e]
       /\ d >= 3 /\ ~pf => misses'["L2"] = misses["L2"] + 1
       /\ ~(d >= 3 /\ ~pf) => misses'["L2"] = misses["L2"]
       /\ \A l \in {"IC", "L1"} \ {e} : misses'[l] = misses[l]
  BY <1>1, <1>5, <1>7, <1>8, <1>9, Counting
<1>14. /\ d >= 2 /\ pf => pf_misses'[e] = pf_misses[e] + 1
       /\ ~(d >= 2 /\ pf) => pf_misses'[e] = pf_misses[e]
       /\ d >= 3 /\ pf => pf_misses'["L2"] = pf_misses["L2"] + 1
       /\ ~(d >= 3 /\ pf) => pf_misses'["L2"] = pf_misses["L2"]
       /\ \A l \in {"IC", "L1"} \ {e} : pf_misses'[l] = pf_misses[l]
  BY <1>1, <1>5, <1>7, <1>8, <1>9, Counting
<1>15. \A l \in Levels : /\ accesses[l] \in Nat /\ misses[l] \in Nat
                         /\ pf_accesses[l] \in Nat /\ pf_misses[l] \in Nat
  BY <1>9
<1>16. MissesGoDown  BY DEF CountInv
<1>17. CASE e = "IC"
  <2>1. ~pf  BY <1>17
  <2>2. misses'["L1"] = misses["L1"] /\ pf_misses'["L1"] = pf_misses["L1"]
    BY <1>13, <1>14, <1>17
  <2>3. pf_misses'["IC"] = 0
    BY <1>9, <1>14, <1>17, <2>1
  <2>4. MissesGoDown'
    BY <1>8, <1>11, <1>12, <1>13, <1>14, <1>15, <1>16, <1>17, <2>1, <2>2 DEF MissesGoDown
  <2>. QED  BY <1>10, <2>3, <2>4 DEF CountInv
<1>18. CASE e = "L1"
  <2>1. misses'["IC"] = misses["IC"] /\ pf_misses'["IC"] = pf_misses["IC"]
    BY <1>13, <1>14, <1>18
  <2>2. MissesGoDown'
    <3>1. CASE pf
      BY <1>8, <1>11, <1>12, <1>13, <1>14, <1>15, <1>16, <1>18, <2>1, <3>1 DEF MissesGoDown
    <3>2. CASE ~pf
      BY <1>8, <1>11, <1>12, <1>13, <1>14, <1>15, <1>16, <1>18, <2>1, <3>2 DEF MissesGoDown
    <3>. QED  BY <3>1, <3>2
  <2>. QED  BY <1>9, <1>10, <2>1, <2>2 DEF CountInv
<1>. QED  BY <1>5, <1>17, <1>18

LEMMA CountNext == CountInv /\ [CacheNext]_CacheVars => CountInv'
<1>1. ASSUME CountInv, CacheNext PROVE CountInv'
  <2>1. PICK e \in EntryLevels, cycle \in Nat, b \in Blocks, pf \in BOOLEAN :
          (e = "IC" => ~pf) /\ AccessFrom(e, cycle, b, pf)
    BY <1>1, OneAccess
  <2>2. b \in Nat  BY CacheAssumption
  <2>. QED  BY <1>1, <2>1, <2>2, CountStep
<1>2. ASSUME CountInv, UNCHANGED CacheVars PROVE CountInv'
  BY <1>2 DEF CacheVars, CountInv, MissesGoDown
<1>. QED  BY <1>1, <1>2

(* Every miss of a level is counted as one access of the next, demand       *)
(* accesses and prefetches apart (the counters of cache_t::access).         *)
THEOREM CacheCounts == CacheSpec => []MissesGoDown
<1>1. CountInv => MissesGoDown  BY DEF CountInv
<1>. QED  BY <1>1, CountInit, CountNext, PTL DEF CacheSpec

-----------------------------------------------------------------------------
(* Replacement is least recently used.                                      *)

LEMMA RecencyInit ==
  ASSUME CacheInit, NEW level \in Levels, NEW i \in 0 .. Sets[level] - 1
  PROVE  LRU(level, i)!Init
<1>. DEFINE n == Assoc[level]
<1>1. n \in Nat \ {0} /\ Ranked(C[level][i], n)
  BY RankInit, CacheAssumption DEF RankInv
<1>2. \A w \in 0 .. n - 1 : C[level][i][w].line = NoLine
  BY DEF CacheInit, Ways
<1>3. ASSUME NEW k \in 1 .. n PROVE C[level][i][WayAt(C[level][i], k - 1)].line = NoLine
  <2>1. k - 1 \in 0 .. n - 1  BY <1>1
  <2>2. WayAt(C[level][i], k - 1) \in 0 .. n - 1  BY <1>1, <2>1, WayOfRank
  <2>. QED  BY <1>2, <2>2
<1>4. Recency(level, i) = [k \in 1 .. n |-> NoLine]
  BY <1>3 DEF Recency
<1>. QED  BY <1>4 DEF LRU!Init

LEMMA UseOfLevel ==
  ASSUME NEW level \in Levels, NEW i \in 0 .. Sets[level] - 1, NEW line,
         Assoc[level] \in Nat \ {0},
         UsedAs(C[level][i], C'[level][i], Assoc[level], line)
  PROVE  LRU(level, i)!Use(line)
<1>. DEFINE n == Assoc[level]
            old == C[level][i]
            new == C'[level][i]
<1>1. PICK p \in 1 .. n :
        /\ \/ old[WayAt(old, p - 1)].line = line
           \/ p = n /\ \A k \in 1 .. n : old[WayAt(old, k - 1)].line # line
        /\ [k \in 1 .. n |-> new[WayAt(new, k - 1)].line] =
           [k \in 1 .. n |-> IF k = 1 THEN line
              ELSE IF k <= p THEN old[WayAt(old, k - 2)].line
              ELSE old[WayAt(old, k - 1)].line]
  BY DEF UsedAs
<1>2. /\ Recency(level, i) = [k \in 1 .. n |-> old[WayAt(old, k - 1)].line]
      /\ Recency(level, i)' = [k \in 1 .. n |-> new[WayAt(new, k - 1)].line]
  BY DEF Recency
<1>. HIDE DEF old, new
<1>3. \A k \in 1 .. n : Recency(level, i)[k] = old[WayAt(old, k - 1)].line
  BY <1>2
<1>4. ASSUME NEW k \in 1 .. n
      PROVE  (IF k = 1 THEN line
              ELSE IF k <= p THEN old[WayAt(old, k - 2)].line
              ELSE old[WayAt(old, k - 1)].line) =
             (IF k = 1 THEN line
              ELSE IF k <= p THEN Recency(level, i)[k - 1] ELSE Recency(level, i)[k])
  <2>1. CASE k # 1 /\ k <= p
    <3>1. k - 1 \in 1 .. n /\ (k - 1) - 1 = k - 2  BY <2>1
    <3>. QED  BY <1>3, <2>1, <3>1
  <2>. QED  BY <1>3, <2>1
<1>5. Recency(level, i)' =
        [k \in 1 .. n |-> IF k = 1 THEN line
           ELSE IF k <= p THEN Recency(level, i)[k - 1] ELSE Recency(level, i)[k]]
  BY <1>1, <1>2, <1>4
<1>6. Recency(level, i)[p] = line \/ (p = n /\ \A k \in 1 .. n : Recency(level, i)[k] # line)
  BY <1>1, <1>3
<1>. QED  BY <1>5, <1>6 DEF LRU!Use, LRU!ToFront

LEMMA SearchedLevels ==
  ASSUME CountInv, NEW e \in EntryLevels, NEW cycle \in Nat, NEW b \in Nat, NEW pf \in BOOLEAN,
         AccessFrom(e, cycle, b, pf), NEW level \in Levels
  PROVE  Searched(level) <=> level \in Prefix(Chain(e), HitDepth(Chain(e), b))
<1>. DEFINE found == Prefix(Chain(e), HitDepth(Chain(e), b))
            FD == {l \in found : ~AsPrefetch(l, e, pf)}
            FP == {l \in found : AsPrefetch(l, e, pf)}
<1>1. accesses' = Count(accesses, FD) /\ pf_accesses' = Count(pf_accesses, FP)
  BY Zenon DEF AccessFrom
<1>2. accesses \in [Levels -> Nat] /\ pf_accesses \in [Levels -> Nat]
  BY DEF CountInv
<1>3. level \in found <=> level \in FD \/ level \in FP
  BY DEF AsPrefetch
<1>. HIDE DEF found, FD, FP
<1>4. /\ level \in FD => accesses'[level] = accesses[level] + 1
      /\ level \notin FD => accesses'[level] = accesses[level]
      /\ level \in FP => pf_accesses'[level] = pf_accesses[level] + 1
      /\ level \notin FP => pf_accesses'[level] = pf_accesses[level]
  BY <1>1, <1>2, Counting
<1>5. accesses[level] \in Nat /\ pf_accesses[level] \in Nat
  BY <1>2
<1>. QED  BY <1>3, <1>4, <1>5 DEF Searched, found

ReplacesStep ==
  \A level \in Levels : \A i \in 0 .. Sets[level] - 1 :
    IF Searched(level) /\ i = Index(level, last')
    THEN LRU(level, i)!Use(Line(level, last'))
    ELSE UNCHANGED Recency(level, i)

LEMMA ReplacesAccess ==
  ASSUME RankInv, CountInv, NEW e \in EntryLevels, NEW cycle \in Nat, NEW b \in Nat,
         NEW pf \in BOOLEAN, AccessFrom(e, cycle, b, pf)
  PROVE  ReplacesStep
<1>1. last' = b
  BY Zenon DEF AccessFrom
<1>2. ASSUME NEW level \in Levels, NEW i \in 0 .. Sets[level] - 1
      PROVE  IF Searched(level) /\ i = Index(level, b)
             THEN LRU(level, i)!Use(Line(level, b))
             ELSE UNCHANGED Recency(level, i)
  <2>. DEFINE k == Index(level, b)
              avail == Avail(Chain(e), cycle, b)
  <2>1. k \in 0 .. Sets[level] - 1 /\ Assoc[level] \in Nat \ {0}
    BY Indices
  <2>2. C[level] = [j \in 0 .. Sets[level] - 1 |-> C[level][j]] /\ SetOf(level, b) = C[level][k]
    BY DEF RankInv, SetOf
  <2>3. CASE ~Searched(level)
    <3>1. level \notin Prefix(Chain(e), HitDepth(Chain(e), b))
      <4>. HIDE DEF k, avail
      <4>. QED  BY <2>3, SearchedLevels, Zenon
    <3>2. Untouched(level, b)
      <4>. HIDE DEF k, avail
      <4>. QED  BY <3>1, AccessEffect, Zenon
    <3>3. C'[level] = C[level]
      BY <3>2 DEF Untouched
    <3>4. UNCHANGED Recency(level, i)
      BY <3>3 DEF Recency
    <3>. QED  BY <2>3, <3>4
  <2>4. ASSUME NEW set, C'[level] = [C[level] EXCEPT ![k] = set],
               UsedAs(SetOf(level, b), set, Assoc[level], Line(level, b)), Searched(level)
        PROVE  IF Searched(level) /\ i = k
               THEN LRU(level, i)!Use(Line(level, b))
               ELSE UNCHANGED Recency(level, i)
    <3>. HIDE DEF k
    <3>1. CASE i = k
      <4>1. C'[level][i] = set
        BY <2>1, <2>2, <2>4, <3>1
      <4>2. UsedAs(C[level][i], C'[level][i], Assoc[level], Line(level, b))
        BY <2>2, <2>4, <3>1, <4>1
      <4>3. LRU(level, i)!Use(Line(level, b))
        BY <2>1, <4>2, UseOfLevel
      <4>. QED  BY <2>4, <3>1, <4>3
    <3>2. CASE i # k
      <4>1. C'[level][i] = C[level][i]
        BY <2>1, <2>2, <2>4, <3>2
      <4>2. UNCHANGED Recency(level, i)
        BY <4>1 DEF Recency
      <4>. QED  BY <3>2, <4>2
    <3>. QED  BY <3>1, <3>2
  <2>5. CASE HitAt(level, b) /\ Searched(level)
    <3>1. UsedAs(SetOf(level, b), AfterHit(level, b), Assoc[level], Line(level, b))
      BY <2>5, HitEffect DEF HitAt
    <3>. QED  BY <2>4, <2>5, <3>1 DEF HitAt
  <2>6. CASE FilledAt(level, b, avail) /\ Searched(level)
    <3>1. avail \in Nat
      BY Availability
    <3>. HIDE DEF avail
    <3>2. UsedAs(SetOf(level, b), AfterFill(level, b, avail), Assoc[level], Line(level, b))
      BY <2>6, <3>1, FillEffect DEF FilledAt
    <3>. QED  BY <2>4, <2>6, <3>2 DEF FilledAt
  <2>7. Searched(level) => HitAt(level, b) \/ FilledAt(level, b, avail)
    <3>1. Searched(level) => level \in Prefix(Chain(e), HitDepth(Chain(e), b))
      <4>. HIDE DEF k, avail
      <4>. QED  BY SearchedLevels, Zenon
    <3>. QED  BY <3>1, AccessEffect, Zenon
  <2>. QED  BY <2>3, <2>5, <2>6, <2>7
<1>. QED  BY <1>1, <1>2 DEF ReplacesStep

(* Every set of every level keeps its lines in the order of their last use; *)
(* a hit moves its line to the front, a miss replaces the line at the end,  *)
(* and the sets not searched stay (update_lru() and the scan for a victim). *)
THEOREM CacheReplacement == CacheSpec => ReplacesLRU
<1>1. CacheInit => \A level \in Levels : \A i \in 0 .. Sets[level] - 1 : LRU(level, i)!Init
  BY RecencyInit
<1>2. RankInv /\ CountInv /\ [CacheNext]_CacheVars => [ReplacesStep]_CacheVars
  <2>1. ASSUME RankInv, CountInv, CacheNext PROVE ReplacesStep
    <3>1. PICK e \in EntryLevels, cycle \in Nat, b \in Blocks, pf \in BOOLEAN :
            AccessFrom(e, cycle, b, pf)
      BY <2>1, OneAccess
    <3>2. b \in Nat  BY CacheAssumption
    <3>. QED  BY <2>1, <3>1, <3>2, ReplacesAccess
  <2>. QED  BY <2>1
<1>3. CacheSpec => [](RankInv /\ CountInv)
  BY RankInit, RankNext, CountInit, CountNext, PTL DEF CacheSpec
<1>4. CacheSpec => [][ReplacesStep]_CacheVars
  BY <1>2, <1>3, PTL DEF CacheSpec
<1>. QED  BY <1>1, <1>4, PTL DEF CacheSpec, ReplacesLRU, ReplacesStep

-----------------------------------------------------------------------------
(* Nobody has the data early.                                               *)

(* L3 has the longest blocks, and they are made of whole blocks of the      *)
(* other levels: 64 bytes and 128 by default, and powers of two always.     *)
BlocksNest == \A level \in Levels : \E m \in Nat \ {0} : Span["L3"] = m * Span[level]

Home(level, line) == (line * Span[level]) \div Span["L3"]

LEMMA Quotient ==
  ASSUME NEW x \in Nat, NEW s \in Nat \ {0}
  PROVE  /\ x \div s \in Nat
         /\ (x \div s) * s <= x
         /\ x < (x \div s + 1) * s
OBVIOUS

LEMMA QuotientIs ==
  ASSUME NEW x \in Nat, NEW s \in Nat \ {0}, NEW q \in Nat, q * s <= x, x < (q + 1) * s
  PROVE  x \div s = q
OBVIOUS

LEMMA LessCancel ==
  ASSUME NEW a \in Nat, NEW c \in Nat, NEW s \in Nat \ {0}, a * s < c * s
  PROVE  a < c
OBVIOUS

LEMMA HomeOfBlock ==
  ASSUME BlocksNest, NEW level \in Levels, NEW b \in Nat
  PROVE  Home(level, Line(level, b)) = Line("L3", b)
<1>. DEFINE s == Span[level]
<1>1. s \in Nat \ {0} /\ Span["L3"] \in Nat \ {0}
  BY CacheAssumption DEF Levels
<1>2. PICK m \in Nat \ {0} : Span["L3"] = m * s
  BY DEF BlocksNest
<1>. DEFINE q == b \div s
            r == b \div (m * s)
<1>3. q \in Nat /\ q * s <= b /\ b < (q + 1) * s
  BY <1>1, Quotient
<1>4. m * s \in Nat \ {0}
  BY <1>1, <1>2
<1>5. r \in Nat /\ r * (m * s) <= b /\ b < (r + 1) * (m * s)
  BY <1>4, Quotient
<1>. HIDE DEF s, q, r
<1>6. q * s < ((r + 1) * m) * s /\ (r * m) * s < (q + 1) * s
  BY <1>1, <1>3, <1>4, <1>5
<1>7. q < (r + 1) * m /\ r * m < q + 1
  BY <1>1, <1>3, <1>5, <1>6, LessCancel
<1>8. r * m <= q
  BY <1>3, <1>5, <1>7
<1>9. r * (m * s) <= q * s /\ q * s < (r + 1) * (m * s)
  BY <1>1, <1>3, <1>5, <1>6, <1>8
<1>10. (q * s) \div (m * s) = r
  <2>1. q * s \in Nat  BY <1>1, <1>3
  <2>. QED  BY <1>4, <1>5, <1>9, <2>1, QuotientIs
<1>. QED  BY <1>2, <1>10 DEF Home, Line, q, r, s

(* Every copy of a line has waited for memory's delivery of its L3 line.    *)
L3Lines == {Line("L3", b) : b \in Blocks}
Arrived(level, way, when) ==
  way.line # NoLine =>
    /\ Home(level, way.line) \in L3Lines
    /\ when[Home(level, way.line)] \in Nat
    /\ way.timestamp >= when[Home(level, way.line)]
DataInv ==
  /\ delivered \in [L3Lines -> Nat \cup {NoCycle}]
  /\ \A level \in Levels : \A i \in 0 .. Sets[level] - 1 : \A w \in 0 .. Assoc[level] - 1 :
       Arrived(level, C[level][i][w], delivered)

LEMMA DataInit == CacheInit => DataInv
<1>. SUFFICES ASSUME CacheInit PROVE DataInv  OBVIOUS
<1>1. delivered = [line \in L3Lines |-> NoCycle]
  BY DEF CacheInit, L3Lines
<1>2. delivered \in [L3Lines -> Nat \cup {NoCycle}]
  BY <1>1
<1>3. ASSUME NEW level \in Levels, NEW i \in 0 .. Sets[level] - 1, NEW w \in 0 .. Assoc[level] - 1
      PROVE  C[level][i][w].line = NoLine
  BY DEF CacheInit, Ways
<1>. QED  BY <1>2, <1>3 DEF DataInv, Arrived

(* Deliveries only become earlier, and those of b are not after its access. *)
LEMMA Deliveries ==
  ASSUME RankInv, DataInv, BlocksNest, NEW e \in EntryLevels, NEW cycle \in Nat,
         NEW b \in Blocks, NEW pf \in BOOLEAN, AccessFrom(e, cycle, b, pf)
  PROVE  /\ delivered' \in [L3Lines -> Nat \cup {NoCycle}]
         /\ \A line \in L3Lines : delivered[line] \in Nat =>
              delivered'[line] \in Nat /\ delivered'[line] <= delivered[line]
         /\ delivered'[Line("L3", b)] \in Nat
         /\ Avail(Chain(e), cycle, b) >= delivered'[Line("L3", b)]
<1>. DEFINE chain == Chain(e)
            d == HitDepth(chain, b)
            avail == Avail(chain, cycle, b)
            home == Line("L3", b)
<1>1. b \in Nat /\ home \in L3Lines
  BY CacheAssumption DEF L3Lines
<1>2. d \in 1 .. 4 /\ avail \in Nat /\ Len(chain) = 3
  BY <1>1, Depth, Availability, ChainLevels
<1>3. delivered' = IF d <= Len(chain) THEN delivered
                   ELSE [delivered EXCEPT ![home] =
                           IF @ = NoCycle \/ avail < @ THEN avail ELSE @]
  BY Zenon DEF AccessFrom
<1>4. delivered \in [L3Lines -> Nat \cup {NoCycle}]
  BY DEF DataInv
<1>5. CASE d <= 3
  <2>1. PICK w \in WaysHolding(chain[d], b) : avail >= SetOf(chain[d], b)[w].timestamp
    BY <1>1, <1>5, Availability
  <2>2. d \in 1 .. 3 /\ chain[d] \in Levels
    BY <1>2, <1>5, ChainLevels DEF Levels
  <2>. DEFINE level == chain[d]
              way == SetOf(level, b)[w]
  <2>3. w \in 0 .. Assoc[level] - 1 /\ way.line = Line(level, b)
    BY <2>1 DEF WaysHolding, Ways
  <2>4. Index(level, b) \in 0 .. Sets[level] - 1 /\ Line(level, b) \in Nat
    BY <1>1, <2>2, Indices
  <2>5. Arrived(level, way, delivered)
    BY <2>2, <2>3, <2>4 DEF DataInv, SetOf
  <2>6. Home(level, way.line) = home /\ way.line # NoLine
    BY <1>1, <2>2, <2>3, <2>4, HomeOfBlock DEF NoLine
  <2>7. way.timestamp \in Nat
    <3>1. Ranked(SetOf(level, b), Assoc[level]) /\ Assoc[level] \in Nat \ {0}
      BY <1>1, <2>2, RankedSet, Indices
    <3>2. way \in Way
      BY <2>3, <3>1, RankRange
    <3>. QED  BY <3>2 DEF Way
  <2>8. delivered[home] \in Nat /\ way.timestamp >= delivered[home]
    BY <2>5, <2>6 DEF Arrived
  <2>9. avail >= way.timestamp
    BY <2>1
  <2>10. delivered' = delivered
    BY <1>2, <1>3, <1>5
  <2>. HIDE DEF way, level, avail, home
  <2>11. avail >= delivered[home]
    BY <1>2, <2>7, <2>8, <2>9
  <2>. QED  BY <1>4, <2>8, <2>10, <2>11 DEF avail, home
<1>6. CASE ~(d <= 3)
  <2>. HIDE DEF avail, home, d, chain
  <2>1. delivered' = [delivered EXCEPT ![home] =
                        IF @ = NoCycle \/ avail < @ THEN avail ELSE @]
    BY <1>2, <1>3, <1>6
  <2>. DEFINE new == IF delivered[home] = NoCycle \/ avail < delivered[home]
                     THEN avail ELSE delivered[home]
  <2>2. delivered[home] \in Nat \cup {NoCycle}
    BY <1>1, <1>4
  <2>3. new \in Nat /\ avail >= new /\ (delivered[home] \in Nat => new <= delivered[home])
    BY <1>2, <2>2 DEF NoCycle
  <2>4. /\ delivered'[home] = new
        /\ \A line \in L3Lines : line # home => delivered'[line] = delivered[line]
        /\ delivered' = [line \in L3Lines |-> IF line = home THEN new ELSE delivered[line]]
    BY <1>1, <1>4, <2>1
  <2>. HIDE DEF new
  <2>5. delivered' \in [L3Lines -> Nat \cup {NoCycle}]
    BY <1>4, <2>3, <2>4
  <2>6. ASSUME NEW line \in L3Lines, delivered[line] \in Nat
        PROVE  delivered'[line] \in Nat /\ delivered'[line] <= delivered[line]
    BY <2>3, <2>4, <2>6
  <2>. QED  BY <2>3, <2>4, <2>5, <2>6 DEF avail, home, chain
<1>. QED  BY <1>5, <1>6

LEMMA DataStep ==
  ASSUME RankInv, DataInv, BlocksNest, NEW e \in EntryLevels, NEW cycle \in Nat,
         NEW b \in Blocks, NEW pf \in BOOLEAN, AccessFrom(e, cycle, b, pf)
  PROVE  DataInv'
<1>. DEFINE avail == Avail(Chain(e), cycle, b)
            home == Line("L3", b)
<1>1. b \in Nat /\ home \in L3Lines /\ avail \in Nat
  BY CacheAssumption, Availability DEF L3Lines
<1>2. /\ delivered' \in [L3Lines -> Nat \cup {NoCycle}]
      /\ \A line \in L3Lines : delivered[line] \in Nat =>
           delivered'[line] \in Nat /\ delivered'[line] <= delivered[line]
      /\ delivered'[home] \in Nat
      /\ avail >= delivered'[home]
  BY Deliveries
<1>3. ASSUME NEW level \in Levels, NEW i \in 0 .. Sets[level] - 1, NEW w \in 0 .. Assoc[level] - 1
      PROVE  Arrived(level, C'[level][i][w], delivered')
  <2>. DEFINE k == Index(level, b)
              old == C[level][i][w]
              new == C'[level][i][w]
  <2>1. /\ C[level] = [j \in 0 .. Sets[level] - 1 |-> C[level][j]]
        /\ SetOf(level, b) = C[level][k] /\ Ranked(C[level][i], Assoc[level])
        /\ k \in 0 .. Sets[level] - 1 /\ Assoc[level] \in Nat \ {0}
    BY <1>1, Indices DEF RankInv, SetOf
  <2>2. Arrived(level, old, delivered)
    BY DEF DataInv
  <2>3. old.timestamp \in Nat
    <3>1. old \in Way  BY <2>1, RankRange
    <3>. QED  BY <3>1 DEF Way
  <2>4. Home(level, Line(level, b)) = home
    BY <1>1, HomeOfBlock
  <2>. HIDE DEF old, new, avail, home
  <2>5. ASSUME new.line = old.line, new.timestamp = old.timestamp
        PROVE  Arrived(level, new, delivered')
    <3>1. CASE old.line = NoLine
      BY <2>5, <3>1 DEF Arrived, new
    <3>2. CASE old.line # NoLine
      <4>. DEFINE h == Home(level, old.line)
      <4>1. h \in L3Lines /\ delivered[h] \in Nat /\ old.timestamp >= delivered[h]
        BY <2>2, <3>2 DEF Arrived
      <4>. HIDE DEF h
      <4>2. delivered'[h] \in Nat /\ old.timestamp >= delivered'[h]
        BY <1>2, <2>3, <4>1
      <4>. QED  BY <2>5, <4>1, <4>2 DEF Arrived, h, new
    <3>. QED  BY <3>1, <3>2
  <2>6. ASSUME new.line = Line(level, b), new.timestamp = avail
        PROVE  Arrived(level, new, delivered')
    BY <1>1, <1>2, <2>4, <2>6 DEF Arrived, new
  <2>7. \/ new.line = old.line /\ new.timestamp = old.timestamp
        \/ new.line = Line(level, b) /\ new.timestamp = avail
    <3>1. CASE Untouched(level, b)
      BY <3>1 DEF Untouched, old, new
    <3>2. ASSUME NEW set, C'[level] = [C[level] EXCEPT ![k] = set]
          PROVE  /\ i = k => C'[level][i] = set
                 /\ i # k => C'[level][i] = C[level][i]
      BY <2>1, <3>2
    <3>. HIDE DEF k
    <3>3. CASE HitAt(level, b)
      <4>1. \A x \in 0 .. Assoc[level] - 1 :
              /\ AfterHit(level, b)[x].line = SetOf(level, b)[x].line
              /\ AfterHit(level, b)[x].timestamp = SetOf(level, b)[x].timestamp
        BY <1>1, <3>3, HitEffect DEF HitAt
      <4>2. /\ i = k => C'[level][i] = AfterHit(level, b)
            /\ i # k => C'[level][i] = C[level][i]
        BY <3>2, <3>3 DEF HitAt, k
      <4>. QED  BY <2>1, <4>1, <4>2 DEF old, new
    <3>4. CASE FilledAt(level, b, avail)
      <4>1. \A x \in 0 .. Assoc[level] - 1 :
              \/ /\ AfterFill(level, b, avail)[x].line = SetOf(level, b)[x].line
                 /\ AfterFill(level, b, avail)[x].timestamp = SetOf(level, b)[x].timestamp
              \/ /\ AfterFill(level, b, avail)[x].line = Line(level, b)
                 /\ AfterFill(level, b, avail)[x].timestamp = avail
        BY <1>1, <3>4, FillEffect DEF FilledAt
      <4>2. /\ i = k => C'[level][i] = AfterFill(level, b, avail)
            /\ i # k => C'[level][i] = C[level][i]
        BY <3>2, <3>4 DEF FilledAt, k
      <4>. QED  BY <2>1, <4>1, <4>2 DEF old, new
    <3>. QED  BY <1>1, <3>1, <3>3, <3>4, AccessEffect DEF avail
  <2>8. Arrived(level, new, delivered')
    BY <2>5, <2>6, <2>7
  <2>. QED  BY <2>8 DEF Arrived, new
<1>. QED  BY <1>2, <1>3 DEF DataInv

LEMMA DataNext == BlocksNest /\ RankInv /\ DataInv /\ [CacheNext]_CacheVars => DataInv'
<1>1. ASSUME BlocksNest, RankInv, DataInv, CacheNext PROVE DataInv'
  <2>1. PICK e \in EntryLevels, cycle \in Nat, b \in Blocks, pf \in BOOLEAN :
          AccessFrom(e, cycle, b, pf)
    BY <1>1, OneAccess
  <2>. QED  BY <1>1, <2>1, DataStep
<1>2. ASSUME DataInv, UNCHANGED CacheVars PROVE DataInv'
  BY <1>2 DEF CacheVars, DataInv, Arrived
<1>. QED  BY <1>1, <1>2

(* No level has a line at an earlier cycle than memory first delivered it,  *)
(* not even by a copy made while the fill is in flight (the timestamps of   *)
(* access()).                                                               *)
THEOREM CacheWaits == BlocksNest => (CacheSpec => []NoDataBeforeMemory)
<1>. SUFFICES ASSUME BlocksNest PROVE CacheSpec => []NoDataBeforeMemory
  OBVIOUS
<1>1. RankInv /\ DataInv => NoDataBeforeMemory
  <2>. SUFFICES ASSUME RankInv, DataInv PROVE NoDataBeforeMemory  OBVIOUS
  <2>1. ASSUME NEW level \in Levels, NEW i \in DOMAIN C[level], NEW w \in Ways(level)
        PROVE  LET way == C[level][i][w]
               IN  way.line # NoLine =>
                     way.timestamp >= delivered[(way.line * Span[level]) \div Span["L3"]]
    <3>1. i \in 0 .. Sets[level] - 1
      BY DEF RankInv
    <3>2. Arrived(level, C[level][i][w], delivered)
      BY <3>1 DEF DataInv, Ways
    <3>. QED  BY <3>2 DEF Arrived, Home
  <2>. QED  BY <2>1 DEF NoDataBeforeMemory
<1>2. RankInv /\ DataInv /\ [CacheNext]_CacheVars => DataInv'
  BY DataNext
<1>. QED  BY <1>1, <1>2, RankInit, RankNext, DataInit, PTL DEF CacheSpec
=============================================================================
