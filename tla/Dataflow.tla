------------------------------ MODULE Dataflow ------------------------------
(***************************************************************************)
(* When uops execute (lib/uarchsim.cc:471-571 and 618-658): register and   *)
(* store-queue timestamps.  A uop starts when its source registers are     *)
(* ready and a lane is free; a load takes each byte from the youngest older*)
(* store that still holds it, or else from the L1 cache; a store's bytes   *)
(* stay in the store queue (SQ) until the later of its L1 access and the   *)
(* retirement of its predecessor.                                          *)
(*                                                                         *)
(* The wait for a lane (ResourceSchedule) and the time L1 takes (Cache) are*)
(* inputs.  The window's last retire cycle is kept when the window drains: *)
(* it is then no later than fetch_cycle, which every uop exceeds.          *)
(***************************************************************************)
EXTENDS Integers, Sequences, FiniteSetsExt

CONSTANTS
  PIPELINE_FILL_LATENCY,
  DEFAULT_EXEC_LATENCY, SLOW_ALU_EXEC_LATENCY, FP_EXEC_LATENCY,
  Uops,                  \* [class, A, B, C, D, bytes], see UopAssumption
  Regs, RFZERO, None,    \* registers, the zero register, no register
  Waits, CacheLatencies, Advances,
  MaxUops                \* bound: the longest trace considered

ASSUME UopAssumption ==
  /\ RFZERO \in Regs /\ None \notin Regs
  /\ \A u \in Uops :
       /\ u.class \in {"alu", "slowAlu", "fp", "load", "store"}
       /\ {u.A, u.B, u.C, u.D} \subseteq Regs \cup {None}
       /\ u.class = "load" => u.bytes # {}
       /\ u.class = "store" => u.D = None

ASSUME TimeAssumption ==
  /\ {PIPELINE_FILL_LATENCY, DEFAULT_EXEC_LATENCY, SLOW_ALU_EXEC_LATENCY,
      FP_EXEC_LATENCY} \subseteq Nat \ {0}
  /\ Waits \subseteq Nat /\ CacheLatencies \subseteq Nat \ {0}
  /\ Advances \subseteq Nat /\ MaxUops \in Nat

VARIABLES
  fetch_cycle,
  RF,           \* register -> the cycle in which it is ready
  SQ,           \* byte -> [exec_cycle, ret_cycle] of the last store
  back_retire,  \* retire cycle of the last uop
  history       \* ghost: the uops, and the cycles they were given

vars == <<fetch_cycle, RF, SQ, back_retire, history>>

Bytes == UNION {u.bytes : u \in Uops}

Init ==
  /\ fetch_cycle = 0
  /\ RF = [r \in Regs |-> 0]
  /\ SQ = [a \in {} |-> 0]
  /\ back_retire = 0
  /\ history = <<>>

Larger(a, b) == IF a > b THEN a ELSE b

(* The source registers a uop waits for.  B and C are tested against A's    *)
(* register number: with the zero register as A, neither is waited for.     *)
WaitedForNotC(u) == {u.A, u.B} \ {None, RFZERO}
WaitedFor(u) ==
  IF u.A = RFZERO THEN {} ELSE {u.A, u.B, u.C} \ {None}
Ready(u) ==
  Max({fetch_cycle' + PIPELINE_FILL_LATENCY} \cup {RF[r] : r \in WaitedFor(u)})

(* A load that starts in "start" has its address in the next cycle and has  *)
(* searched the SQ in the one after.                                        *)
SearchCycle(start) == start + 2
InSQ(a, search) == a \in DOMAIN SQ /\ search < SQ[a].ret_cycle
ByteReadyIgnoringStore(a, start, cache) ==
  IF InSQ(a, SearchCycle(start)) THEN SearchCycle(start)
  ELSE start + 1 + cache
ByteReady(a, start, cache) ==
  IF InSQ(a, SearchCycle(start))
  THEN Larger(SearchCycle(start), SQ[a].exec_cycle)
  ELSE start + 1 + cache

(* The bytes that a load takes from L1.                                     *)
FromL1(u, start) ==
  {a \in u.bytes : u.class = "load" /\ ~InSQ(a, SearchCycle(start))}

(* The end of execution.                                                    *)
ExecLatency(u) ==
  CASE u.class = "fp" -> FP_EXEC_LATENCY
    [] u.class = "slowAlu" -> SLOW_ALU_EXEC_LATENCY
    [] OTHER -> DEFAULT_EXEC_LATENCY
Done(u, start, cache) ==
  IF u.class = "load" THEN Max({ByteReady(a, start, cache) : a \in u.bytes})
  ELSE start + ExecLatency(u)

(* A store accesses L1 when it has executed, or not at all (PERFECT_CACHE,  *)
(* or no WRITE_ALLOCATE), which takes no time.                              *)
AccessTimes(u) ==
  IF u.class = "store" THEN CacheLatencies \cup {0} ELSE CacheLatencies
StoreEntryAlone(done, cache) ==
  [exec_cycle |-> done, ret_cycle |-> done + cache]
StoreEntry(done, cache) ==
  [exec_cycle |-> done, ret_cycle |-> Larger(done + cache, back_retire)]

WrittenRF(u, done) ==
  IF u.D \in {None, RFZERO} THEN RF ELSE [RF EXCEPT ![u.D] = done]
WrittenSQ(u, done, cache) ==
  IF u.class = "store"
  THEN [a \in DOMAIN SQ \cup u.bytes |->
          IF a \in u.bytes THEN StoreEntry(done, cache) ELSE SQ[a]]
  ELSE SQ

Step ==
  /\ Len(history) < MaxUops
  /\ fetch_cycle' \in {fetch_cycle + k : k \in Advances}
  /\ \E u \in Uops, wait \in Waits : \E cache \in AccessTimes(u) :
       LET start == Ready(u) + wait
           done == Done(u, start, cache)
           retire == Larger(done, back_retire)
       IN  /\ RF' = WrittenRF(u, done)
           /\ SQ' = WrittenSQ(u, done, cache)
           /\ back_retire' = retire
           /\ history' = Append(history,
                [uop |-> u, start |-> start, done |-> done, retire |-> retire,
                 fromL1 |-> FromL1(u, start)])

Terminated == Len(history) = MaxUops /\ UNCHANGED vars

Next == Step \/ Terminated

Spec == Init /\ [][Next]_vars

-----------------------------------------------------------------------------
(* Properties.                                                              *)

Sources(u) == {u.A, u.B, u.C} \ {None, RFZERO}
Writer(i, r) == history[i].uop.D = r
LastWriter(j, r, i) ==
  i < j /\ Writer(i, r) /\ \A k \in i + 1 .. j - 1 : ~Writer(k, r)

(* Dataflow order ("instr src register readiness", uarchsim.cc:473): no uop *)
(* starts before the uops that produce its source registers are done.  It   *)
(* holds of the uops whose first source is not the zero register.           *)
SourcesReady(j) ==
  \A r \in Sources(history[j].uop), i \in DOMAIN history :
    LastWriter(j, r, i) => history[i].done <= history[j].start
DataReadyUnlessZero ==
  \A j \in DOMAIN history : history[j].uop.A # RFZERO => SourcesReady(j)

Stores(i, a) == history[i].uop.class = "store" /\ a \in history[i].uop.bytes
LastStore(j, a, i) ==
  i < j /\ Stores(i, a) /\ \A k \in i + 1 .. j - 1 : ~Stores(k, a)
IsLoad(j) == history[j].uop.class = "load"

(* Memory order, byte by byte: whatever else it reads, a load is not done   *)
(* before the youngest older store to a byte of it has executed, and does   *)
(* not take that byte from L1 if the store has not yet retired when the     *)
(* load searches the SQ.                                                    *)
LoadsSeeStores ==
  \A j \in DOMAIN history : IsLoad(j) =>
    \A a \in history[j].uop.bytes, i \in DOMAIN history :
      LastStore(j, a, i) =>
        /\ history[j].done >= history[i].done
        /\ SearchCycle(history[j].start) < history[i].retire
             => a \notin history[j].fromL1
=============================================================================
