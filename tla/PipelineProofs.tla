--------------------------- MODULE PipelineProofs ---------------------------
(***************************************************************************)
(* Proofs about Pipeline, for every window size, fetch width, branch       *)
(* limit, latency and trace that the assumptions of the module allow.      *)
(***************************************************************************)
EXTENDS Pipeline, FiniteSetTheorems, TLAPS

(* The uops of the window.                                                  *)
Live == head .. num_uop - 1

(* Every event of this cycle and of the cycles before it has been handled.  *)
Done == IF pc \in {"skip", "miss"} THEN clock - 1
        ELSE IF pc \in {"icache", "issue"} THEN fetch_cycle
        ELSE previous_fetch_cycle

(* Simulated time only moves forward, and a loop runs up to its target.     *)
TimeInv ==
  /\ previous_fetch_cycle <= fetch_cycle
  /\ pc \in {"skip", "miss"} => previous_fetch_cycle <= clock /\ clock <= target
  /\ pc = "skip" => target = fetch_cycle
  /\ pc = "miss" => target > fetch_cycle

(* The cycles of a uop come in order, decode and retire cycles also from    *)
(* one uop to the next.                                                     *)
WindowInv ==
  /\ \A s \in Live :
       /\ window[s].decode_cycle < window[s].exec_cycle
       /\ window[s].exec_cycle <= window[s].retire_cycle
       /\ window[s].decode_cycle <= previous_fetch_cycle + DQ_LATENCY
       /\ IsUncond(window[s].op) => window[s].pred_taken
  /\ \A s, t \in Live : s <= t =>
       /\ window[s].decode_cycle <= window[t].decode_cycle
       /\ window[s].retire_cycle <= window[t].retire_cycle

(* A queue holds the event of a uop of the window at the uop's own cycle.   *)
QueueInv ==
  /\ \A s \in DOMAIN DQ : DQ[s] = window[s].decode_cycle
  /\ \A s \in DOMAIN EQ : EQ[s] = window[s].exec_cycle
  /\ \A s \in DOMAIN AQ : /\ IsMem(window[s].op)
                          /\ window[s].decode_cycle < AQ[s]
                          /\ AQ[s] <= window[s].exec_cycle

(* What is still queued, or in the window, is due later.                    *)
PendingInv ==
  /\ \A s \in DOMAIN DQ : DQ[s] > Done
  /\ \A s \in DOMAIN AQ : AQ[s] > Done
  /\ \A s \in DOMAIN EQ : EQ[s] > Done
  /\ \A s \in Live : window[s].retire_cycle > Done

CheckpointInv ==
  pred_time_histories = {s \in DOMAIN EQ : Predicted(window[s].op)}

(* There is room for a uop when one is issued: fetch has been moved to the  *)
(* retirement of the front of a full window.                                *)
CapacityInv ==
  /\ num_uop - head <= WINDOW_SIZE
  /\ pc \in {"icache", "miss", "issue"} => num_uop - head < WINDOW_SIZE
  /\ pc \in {"next", "skip"} /\ num_uop - head = WINDOW_SIZE
       => window[head].retire_cycle <= fetch_cycle

(* Fetch waits for a mispredicted branch to be executed.                    *)
ResolutionInv ==
  \A s \in Live : Mispredicted(s) => window[s].exec_cycle <= fetch_cycle

(* The counters of the bundle never count less than what was fetched.       *)
BundleInv ==
  /\ FETCH_WIDTH > 0 => num_fetched < FETCH_WIDTH /\ bundle.insts <= FETCH_WIDTH
  /\ FETCH_NUM_BRANCH > 0 => /\ num_fetched_branch < FETCH_NUM_BRANCH
                             /\ bundle.branches <= FETCH_NUM_BRANCH
  /\ fetch_cycle = previous_fetch_cycle =>
       /\ ~bundle.closed
       /\ FETCH_WIDTH > 0 => bundle.insts <= num_fetched
       /\ FETCH_NUM_BRANCH > 0 => bundle.branches <= num_fetched_branch

IInv == /\ TypeOK
        /\ TimeInv
        /\ WindowInv
        /\ QueueInv
        /\ PendingInv
        /\ CheckpointInv
        /\ CapacityInv
        /\ ResolutionInv

-----------------------------------------------------------------------------
(* The invariant holds initially.                                           *)
LEMMA InitIInv == Init => IInv
<1> SUFFICES ASSUME Init PROVE IInv
  OBVIOUS
<1> USE DEF Init
<1>1. TypeOK
  BY LatencyAssumption DEF TypeOK, IsQueue, Nothing, NoBundle
<1>2. Live = {}
  BY DEF Live
<1>3. TimeInv /\ CapacityInv
  BY ParamAssumption DEF TimeInv, CapacityInv
<1>4. WindowInv /\ ResolutionInv
  BY <1>2 DEF WindowInv, ResolutionInv
<1>5. QueueInv /\ PendingInv /\ CheckpointInv
  BY <1>2 DEF QueueInv, PendingInv, CheckpointInv, Nothing
<1>6. QED
  BY <1>1, <1>3, <1>4, <1>5 DEF IInv

-----------------------------------------------------------------------------
(* The steps that leave the window and the queues alone.                    *)

Quiet == UNCHANGED <<fetch_cycle, queueVars, fetchVars>>

(* A step of fetch alone keeps everything the events depend on.             *)
LEMMA QuietKeeps ==
  ASSUME IInv, Quiet,
         pc' \in {"next", "skip", "icache", "miss", "issue", "end", "abort"},
         clock' \in Nat, target' \in Nat, TimeInv', CapacityInv',
         Done' <= Done
  PROVE  IInv'
<1> USE DEF Quiet, queueVars, fetchVars
<1>1. TypeOK'
  BY DEF IInv, TypeOK, IsQueue
<1>2. Live' = Live
  BY DEF Live
<1>3. WindowInv'
  BY <1>2 DEF IInv, WindowInv
<1>4. QueueInv' /\ CheckpointInv'
  BY DEF IInv, QueueInv, CheckpointInv
<1>5. PendingInv'
  <2>1. Done \in Int /\ Done' \in Int
    BY DEF Done, IInv, TypeOK
  <2>2. \A s \in Live : window[s].retire_cycle \in Nat
    BY DEF Live, IInv, TypeOK, Entry
  <2>3. /\ \A s \in DOMAIN DQ : DQ[s] \in Nat
        /\ \A s \in DOMAIN AQ : AQ[s] \in Nat
        /\ \A s \in DOMAIN EQ : EQ[s] \in Nat
    BY DEF IInv, TypeOK, IsQueue
  <2>4. PendingInv
    BY DEF IInv
  <2>5. UNCHANGED <<DQ, AQ, EQ, window>>
    OBVIOUS
  <2>6. ASSUME NEW x \in Nat, x > Done
        PROVE  x > Done'
    BY <2>1, <2>6
  <2>7. QED
    BY <1>2, <2>2, <2>3, <2>4, <2>5, <2>6 DEF PendingInv
<1>6. ResolutionInv'
  BY <1>2 DEF IInv, ResolutionInv, Mispredicted
<1>7. QED
  BY <1>1, <1>3, <1>4, <1>5, <1>6 DEF IInv

(* Reading the next uop, with fetch still behind time, keeps IInv.          *)
LEMMA NextUopStep == IInv /\ NextUop => IInv'
<1> SUFFICES ASSUME IInv, NextUop PROVE IInv'
  OBVIOUS
<1> USE DEF NextUop
<1>1. Quiet
  BY DEF Quiet
<1>2. /\ previous_fetch_cycle \in Nat /\ fetch_cycle \in Nat
      /\ previous_fetch_cycle <= fetch_cycle
  BY DEF IInv, TypeOK, TimeInv
<1>3. /\ pc' \in {"skip", "icache"}
      /\ pc' = "icache" => previous_fetch_cycle = fetch_cycle
      /\ clock' \in Nat /\ target' \in Nat
  BY <1>2
<1>4. TimeInv'
  BY <1>1, <1>2, <1>3 DEF Quiet, fetchVars, TimeInv
<1>5. Done' <= Done
  BY <1>1, <1>2, <1>3 DEF Quiet, fetchVars, Done
<1>6. CapacityInv'
  <2>1. head \in Nat /\ num_uop \in Nat /\ head <= num_uop
    BY DEF IInv, TypeOK
  <2>2. num_uop - head = WINDOW_SIZE =>
          /\ window[head].retire_cycle <= fetch_cycle
          /\ window[head].retire_cycle > previous_fetch_cycle
          /\ window[head].retire_cycle \in Nat
    BY <2>1, ParamAssumption
    DEF IInv, CapacityInv, PendingInv, Live, Done, TypeOK, Entry
  <2>3. QED
    BY <1>1, <1>2, <1>3, <2>1, <2>2, ParamAssumption
    DEF Quiet, queueVars, fetchVars, IInv, CapacityInv
<1>7. QED
  BY <1>1, <1>3, <1>4, <1>5, <1>6, QuietKeeps

(* The end of the trace keeps IInv.                                         *)
LEMMA EndOfTraceStep == IInv /\ EndOfTrace => IInv'
<1> SUFFICES ASSUME IInv, EndOfTrace PROVE IInv'
  OBVIOUS
<1> USE DEF EndOfTrace
<1>1. Quiet /\ pc' = "end" /\ UNCHANGED timeVars
  BY DEF Quiet
<1>2. clock' \in Nat /\ target' \in Nat
  BY DEF timeVars, IInv, TypeOK
<1>3. TimeInv' /\ CapacityInv'
  BY <1>1 DEF Quiet, queueVars, fetchVars, IInv, TimeInv, CapacityInv
<1>4. Done' <= Done
  BY <1>1 DEF Quiet, fetchVars, Done, IInv, TypeOK
<1>5. QED
  BY <1>1, <1>2, <1>3, <1>4, QuietKeeps

(* A fetch that hits the I-cache keeps IInv.                                *)
LEMMA ICacheHitStep == IInv /\ ICacheHit => IInv'
<1> SUFFICES ASSUME IInv, ICacheHit PROVE IInv'
  OBVIOUS
<1> USE DEF ICacheHit
<1>1. Quiet /\ pc' = "issue" /\ UNCHANGED timeVars
  BY DEF Quiet
<1>2. clock' \in Nat /\ target' \in Nat
  BY DEF timeVars, IInv, TypeOK
<1>3. TimeInv' /\ CapacityInv'
  BY <1>1 DEF Quiet, queueVars, fetchVars, IInv, TimeInv, CapacityInv
<1>4. Done' <= Done
  BY <1>1 DEF Quiet, fetchVars, Done, IInv, TypeOK
<1>5. QED
  BY <1>1, <1>2, <1>3, <1>4, QuietKeeps

(* A fetch that misses moves the fetch cycle on, and keeps IInv.            *)
LEMMA ICacheMissStep == IInv /\ ICacheMiss => IInv'
<1> SUFFICES ASSUME IInv, ICacheMiss PROVE IInv'
  OBVIOUS
<1> USE DEF ICacheMiss
<1>1. Quiet /\ pc' = "miss" /\ clock' = fetch_cycle
  BY DEF Quiet
<1>2. target' \in Nat /\ target' > fetch_cycle /\ fetch_cycle \in Nat
  BY LatencyAssumption DEF IInv, TypeOK
<1>3. TimeInv' /\ CapacityInv'
  BY <1>1, <1>2
  DEF Quiet, queueVars, fetchVars, IInv, TypeOK, TimeInv, CapacityInv
<1>4. Done' <= Done
  BY <1>1, <1>2 DEF Done
<1>5. QED
  BY <1>1, <1>2, <1>3, <1>4, QuietKeeps

-----------------------------------------------------------------------------
(* One cycle of a catch-up loop.  Everything due in the cycle leaves its    *)
(* queue, so a uop that retires in it has no event left.                    *)

(* A caught-up cycle (decode, agen, execute, retire) keeps IInv.            *)
LEMMA EvalCycleStep == IInv /\ EvalCycle => IInv'
<1> SUFFICES ASSUME IInv, EvalCycle PROVE IInv'
  OBVIOUS
<1>1. PICK h \in head .. num_uop : EvalRetire(h)
  BY DEF EvalCycle
<1>2. /\ clock \in Nat /\ target \in Nat /\ fetch_cycle \in Nat
      /\ previous_fetch_cycle \in Nat /\ num_uop \in Nat
      /\ head \in Nat /\ h \in Nat
      /\ head <= h /\ h <= num_uop
      /\ pc \in {"skip", "miss"}
  BY DEF IInv, TypeOK, EvalCycle
<1>3. /\ previous_fetch_cycle <= fetch_cycle /\ previous_fetch_cycle <= clock
      /\ clock <= target /\ fetch_cycle <= target
      /\ pc = "skip" => target = fetch_cycle
      /\ pc = "miss" => target > fetch_cycle
  BY <1>2 DEF IInv, TimeInv
<1>4. /\ head' = h /\ num_uop' = num_uop /\ clock' = clock + 1
      /\ target' = target /\ previous_fetch_cycle' = previous_fetch_cycle
      /\ fetch_cycle' = IF clock < target THEN fetch_cycle ELSE target
      /\ \/ pc' = "abort"
         \/ clock < target /\ pc' = pc
         \/ clock = target /\ pc = "skip" /\ pc' = "icache"
         \/ clock = target /\ pc = "miss" /\ pc' = "issue"
  BY <1>1, <1>2, <1>3 DEF EvalCycle, EvalRetire, NextCycle, fetchVars
<1>5. Done = clock - 1 /\ Done' \in Int /\ Done' <= clock
  BY <1>2, <1>3, <1>4 DEF Done
<1>6. /\ \A s \in Live' : s \in Live /\ window'[s] = window[s]
      /\ \A s \in Live : s \in Live' \/ window[s].retire_cycle <= clock
  <2>1. Live' = h .. num_uop - 1 /\ Live = head .. num_uop - 1
    BY <1>4 DEF Live
  <2>2. window' = [s \in h .. num_uop - 1 |-> window[s]]
    BY <1>1 DEF EvalRetire
  <2>3. \A s \in head .. h - 1 : clock >= window[s].retire_cycle
    BY <1>1 DEF EvalRetire
  <2>4. \A s \in Live : s \in Live' \/ s \in head .. h - 1
    BY ONLY <1>2, <2>1
  <2>5. \A s \in Live' : s \in Live
    BY ONLY <1>2, <2>1
  <2>6. \A s \in head .. h - 1 : window[s].retire_cycle <= clock
    BY ONLY <2>3
  <2>7. \A s \in Live' : window'[s] = window[s]
    BY <2>1, <2>2
  <2>8. QED
    BY <2>4, <2>5, <2>6, <2>7
<1>7. \A s \in Live : /\ window[s] \in Entry
                      /\ window[s].decode_cycle \in Nat
                      /\ window[s].exec_cycle \in Nat
                      /\ window[s].retire_cycle \in Nat
  BY DEF IInv, TypeOK, Live, Entry
<1>8. \A s \in Live' : window[s].retire_cycle > clock
  <2> SUFFICES ASSUME NEW s \in Live' PROVE window[s].retire_cycle > clock
    OBVIOUS
  <2>1. h \in Live /\ s \in Live /\ h <= s /\ h < num_uop
    BY <1>2, <1>4 DEF Live
  <2>2. clock < window[h].retire_cycle
    BY <1>1, <2>1 DEF EvalRetire
  <2>3. window[h].retire_cycle <= window[s].retire_cycle
    BY <2>1 DEF IInv, WindowInv
  <2>4. window[h].retire_cycle \in Nat /\ window[s].retire_cycle \in Nat
    BY <1>7, <2>1
  <2>5. QED
    BY <1>2, <2>2, <2>3, <2>4
<1>9. /\ DOMAIN DQ \subseteq Live /\ DOMAIN AQ \subseteq Live
      /\ DOMAIN EQ \subseteq Live
      /\ \A s \in DOMAIN DQ : DQ[s] \in Nat /\ DQ[s] >= clock
      /\ \A s \in DOMAIN AQ : AQ[s] \in Nat /\ AQ[s] >= clock
      /\ \A s \in DOMAIN EQ : EQ[s] \in Nat /\ EQ[s] >= clock
  <2>1. /\ IsQueue(DQ) /\ IsQueue(AQ) /\ IsQueue(EQ)
        /\ PendingInv
    BY DEF IInv, TypeOK
  <2>2. \A x \in Nat : x > Done => x >= clock
    BY <1>2, <1>5
  <2>3. QED
    BY <2>1, <2>2 DEF IsQueue, Live, PendingInv
<1>10. \A s \in DOMAIN DQ' : /\ s \in DOMAIN DQ /\ DQ'[s] = DQ[s]
                             /\ DQ[s] > clock /\ s \in Live'
  <2> SUFFICES ASSUME NEW s \in DOMAIN DQ'
               PROVE  /\ s \in DOMAIN DQ /\ DQ'[s] = DQ[s]
                      /\ DQ[s] > clock /\ s \in Live'
    OBVIOUS
  <2>1. s \in DOMAIN DQ /\ s \notin DueToDecode /\ DQ'[s] = DQ[s]
    BY DEF EvalCycle, Without
  <2>2. PICK t \in DOMAIN DQ : t <= s /\ DQ[t] # clock
    BY <2>1 DEF DueToDecode
  <2>3. DQ[t] > clock
    BY <1>2, <1>9, <2>2
  <2>4. DQ[t] <= DQ[s]
    BY <1>9, <2>1, <2>2 DEF IInv, WindowInv, QueueInv
  <2>5. DQ[s] > clock
    BY <1>2, <1>9, <2>1, <2>2, <2>3, <2>4
  <2>6. window[s].retire_cycle > clock
    BY <1>2, <1>7, <1>9, <2>1, <2>5 DEF IInv, WindowInv, QueueInv
  <2>7. QED
    BY <1>2, <1>6, <1>7, <1>9, <2>1, <2>5, <2>6
<1>11. \A s \in DOMAIN AQ' : /\ s \in DOMAIN AQ /\ AQ'[s] = AQ[s]
                             /\ AQ[s] > clock /\ s \in Live'
  <2> SUFFICES ASSUME NEW s \in DOMAIN AQ'
               PROVE  /\ s \in DOMAIN AQ /\ AQ'[s] = AQ[s]
                      /\ AQ[s] > clock /\ s \in Live'
    OBVIOUS
  <2>1. s \in DOMAIN AQ /\ AQ[s] # clock /\ AQ'[s] = AQ[s]
    BY DEF EvalCycle, Without, Due
  <2>2. AQ[s] > clock
    BY <1>2, <1>9, <2>1
  <2>3. window[s].retire_cycle > clock
    BY <1>2, <1>7, <1>9, <2>1, <2>2 DEF IInv, WindowInv, QueueInv
  <2>4. QED
    BY <1>2, <1>6, <1>7, <1>9, <2>1, <2>2, <2>3
<1>12. /\ \A s \in DOMAIN EQ' : /\ s \in DOMAIN EQ /\ EQ'[s] = EQ[s]
                                /\ EQ[s] > clock /\ s \in Live'
       /\ DOMAIN EQ' = DOMAIN EQ \ Due(EQ)
  <2>1. DOMAIN EQ' = DOMAIN EQ \ Due(EQ)
    BY DEF EvalCycle, Without
  <2> SUFFICES ASSUME NEW s \in DOMAIN EQ'
               PROVE  /\ s \in DOMAIN EQ /\ EQ'[s] = EQ[s]
                      /\ EQ[s] > clock /\ s \in Live'
    BY <2>1
  <2>2. s \in DOMAIN EQ /\ EQ[s] # clock /\ EQ'[s] = EQ[s]
    BY DEF EvalCycle, Without, Due
  <2>3. EQ[s] > clock
    BY <1>2, <1>9, <2>2
  <2>4. window[s].retire_cycle > clock
    BY <1>2, <1>7, <1>9, <2>2, <2>3 DEF IInv, WindowInv, QueueInv
  <2>5. QED
    BY <1>2, <1>6, <1>7, <1>9, <2>2, <2>3, <2>4
<1>13. CheckpointInv'
  <2>1. pred_time_histories' = pred_time_histories \ Due(EQ)
    BY DEF EvalCycle, Erased
  <2>2. pred_time_histories = {s \in DOMAIN EQ : Predicted(window[s].op)}
    BY DEF IInv, CheckpointInv
  <2>3. \A s \in DOMAIN EQ' : Predicted(window[s].op) <=> Predicted(window'[s].op)
    BY <1>6, <1>12
  <2>4. QED
    BY <1>12, <2>1, <2>2, <2>3 DEF CheckpointInv
<1>14. TypeOK'
  <2>1. pred_time_histories' \subseteq Live'
    BY <1>12, <1>13 DEF CheckpointInv
  <2>2. window' \in [Live' -> Entry]
    BY <1>1, <1>4, <1>6, <1>7 DEF EvalRetire, Live
  <2>3. IsQueue(DQ)' /\ IsQueue(AQ)' /\ IsQueue(EQ)'
    BY <1>9, <1>10, <1>11, <1>12 DEF IsQueue, Live
  <2>4. {num_fetched', num_fetched_branch', cycles_on_wrong_path'} \subseteq Nat
        /\ bundle' \in [insts : Nat, branches : Nat, closed : BOOLEAN]
    BY DEF EvalCycle, fetchVars, IInv, TypeOK
  <2>5. {clock', target', fetch_cycle', previous_fetch_cycle', num_uop'}
          \subseteq Nat /\ head' \in 0 .. num_uop'
    BY <1>2, <1>4
  <2>6. QED
    BY <1>2, <1>4, <2>1, <2>2, <2>3, <2>4, <2>5 DEF TypeOK, Live
<1>15. TimeInv'
  BY <1>2, <1>3, <1>4 DEF TimeInv
<1>16. WindowInv'
  BY <1>4, <1>6 DEF IInv, WindowInv
<1>17. QueueInv'
  BY <1>6, <1>10, <1>11, <1>12 DEF IInv, QueueInv
<1>18. PendingInv'
  <2>1. \A x \in Nat : x > clock => x > Done'
    BY <1>2, <1>5
  <2>2. QED
    BY <1>6, <1>7, <1>8, <1>9, <1>10, <1>11, <1>12, <2>1 DEF PendingInv
<1>19. CapacityInv'
  <2>1. num_uop - h <= WINDOW_SIZE
        /\ (num_uop - h = WINDOW_SIZE => h = head /\ num_uop - head = WINDOW_SIZE)
    BY <1>2, ParamAssumption DEF IInv, CapacityInv
  <2>2. num_uop - h = WINDOW_SIZE =>
          /\ h \in Live' /\ pc = "skip"
          /\ window[h].retire_cycle > clock
          /\ window[h].retire_cycle <= fetch_cycle
          /\ window[h].retire_cycle \in Nat
    BY <1>2, <1>4, <1>6, <1>7, <1>8, <2>1, ParamAssumption
    DEF IInv, CapacityInv, Live
  <2>3. pc' \in {"icache", "issue"} => num_uop - h < WINDOW_SIZE
    BY <1>2, <1>3, <1>4, <2>1, <2>2, ParamAssumption
  <2>4. pc' = "miss" => num_uop - h < WINDOW_SIZE
    BY <1>2, <1>4, <2>1, <2>2, ParamAssumption
  <2>5. pc' = "skip" /\ num_uop - h = WINDOW_SIZE
          => window'[h].retire_cycle <= fetch_cycle'
    BY <1>2, <1>3, <1>4, <1>6, <2>2
  <2>6. pc' # "next"
    BY <1>2, <1>4
  <2>7. QED
    BY <1>4, <2>1, <2>3, <2>4, <2>5, <2>6 DEF CapacityInv
<1>20. ResolutionInv'
  <2> SUFFICES ASSUME NEW s \in Live', Mispredicted(s)'
               PROVE  window'[s].exec_cycle <= fetch_cycle'
    BY DEF ResolutionInv
  <2>1. s \in Live /\ Mispredicted(s)
    BY <1>6 DEF Mispredicted
  <2>2. window[s].exec_cycle <= fetch_cycle
    BY <2>1 DEF IInv, ResolutionInv
  <2>3. QED
    BY <1>2, <1>3, <1>4, <1>6, <1>7, <2>1, <2>2
<1>21. QED
  BY <1>13, <1>14, <1>15, <1>16, <1>17, <1>18, <1>19, <1>20 DEF IInv

-----------------------------------------------------------------------------
(* The issue of a uop.                                                      *)

(* Fetch never moves back, it leaves a full window's front retired, and it  *)
(* waits for a mispredicted uop to be executed.                             *)
ForwardFrom(next, front, exec, misp) ==
  /\ next.cycle \in Nat /\ next.insts \in Nat /\ next.branches \in Nat
  /\ next.cycle >= fetch_cycle
  /\ misp => next.cycle >= exec
  /\ num_uop + 1 - head = WINDOW_SIZE => next.cycle >= front

(* The fetch cycle never moves back, and a full window waits for its head.  *)
LEMMA NextFetchForward ==
  ASSUME TypeOK
  PROVE  \A op \in Ops, front \in Nat, exec \in Nat, misp \in BOOLEAN :
           ForwardFrom(AfterPrediction(NextFetch(op, front), exec, misp),
                       front, exec, misp)
<1> SUFFICES ASSUME NEW op \in Ops, NEW front \in Nat, NEW exec \in Nat,
                    NEW misp \in BOOLEAN,
                    NEW first, first = NextFetch(op, front),
                    NEW next, next = AfterPrediction(first, exec, misp)
             PROVE  ForwardFrom(next, front, exec, misp)
  BY Zenon
<1> USE DEF ForwardFrom
<1>1. /\ fetch_cycle \in Nat /\ num_fetched \in Nat /\ num_fetched_branch \in Nat
  BY DEF TypeOK
<1>2. Fetched(op) \in Nat /\ Branches(op) \in Nat
  BY <1>1 DEF Fetched, Branches, AsNat
<1>3. /\ first.cycle \in Nat /\ first.insts \in Nat /\ first.branches \in Nat
      /\ first.cycle >= fetch_cycle
      /\ num_uop + 1 - head = WINDOW_SIZE => first.cycle >= front
  <2>1. CASE num_uop + 1 - head = WINDOW_SIZE
    BY <1>1, <2>1 DEF NextFetch, FetchAt
  <2>2. CASE num_uop + 1 - head # WINDOW_SIZE
    BY <1>1, <1>2, <2>2 DEF NextFetch, FetchAt
  <2>3. QED
    BY <2>1, <2>2
<1>4. CASE misp
  <2>1. /\ next.cycle = Larger(first.cycle, exec)
        /\ next.insts = 0 /\ next.branches = 0
    BY <1>4 DEF AfterPrediction, FetchAt
  <2>2. /\ Larger(first.cycle, exec) \in Nat
        /\ Larger(first.cycle, exec) >= first.cycle
        /\ Larger(first.cycle, exec) >= exec
    BY <1>3 DEF Larger
  <2>3. QED
    BY <1>1, <1>3, <2>1, <2>2
<1>5. CASE ~misp
  BY <1>3, <1>5 DEF AfterPrediction
<1>6. QED
  BY <1>4, <1>5

(* The fetch bundle has its type after any uop.                             *)
LEMMA BundleWithType ==
  ASSUME TypeOK, NEW op \in Ops, NEW misp \in BOOLEAN
  PROVE  BundleWith(op, misp) \in [insts : Nat, branches : Nat, closed : BOOLEAN]
<1> DEFINE b == IF fetch_cycle = previous_fetch_cycle THEN bundle ELSE NoBundle
<1>1. b.insts \in Nat /\ b.branches \in Nat /\ b.closed \in BOOLEAN
  BY DEF TypeOK, NoBundle
<1> HIDE DEF b
<1>2. /\ b.insts + AsNat(op.last) \in Nat
      /\ b.branches + AsNat(IsBranch(op)) \in Nat
  BY <1>1 DEF AsNat
<1>3. (\/ b.closed \/ misp
       \/ FETCH_STOP_AT_TAKEN /\ op.is_taken
       \/ FETCH_STOP_AT_INDIRECT /\ op.class = "indirect") \in BOOLEAN
  BY Zenon
<1>4. QED
  BY <1>2, <1>3 DEF BundleWith, b

(* Issuing a uop, with its prediction, window entry and events, keeps IInv. *)
LEMMA IssueStep == IInv /\ Issue => IInv'
<1> SUFFICES ASSUME IInv, Issue PROVE IInv'
  OBVIOUS
<1>0. PICK op \in Ops, wait \in Waits :
        \E lat \in Latencies(op), dir \in Directions(op) :
          IssueUop(op, wait, lat, dir)
  BY DEF Issue
<1>1. PICK lat \in Latencies(op), dir \in Directions(op) :
        IssueUop(op, wait, lat, dir)
  BY <1>0
<1> DEFINE start == fetch_cycle + PIPELINE_FILL_LATENCY + wait
           exec  == start + lat
           misp  == Mispredicts(op, dir)
           entry == NewEntry(op, start, lat, misp)
           front == IF head = num_uop THEN entry.retire_cycle
                                      ELSE window[head].retire_cycle
           first == NextFetch(op, front)
           next  == AfterPrediction(first, exec, misp)
<1>frame. pc = "issue" /\ clock' = clock /\ target' = target /\ head' = head
  BY Zenon DEF Issue, timeVars
<1>2. /\ window' = With(window, num_uop, entry)
      /\ DQ' = With(DQ, num_uop, entry.decode_cycle)
      /\ AQ' = IF IsMem(op) THEN With(AQ, num_uop, start + 1) ELSE AQ
      /\ EQ' = With(EQ, num_uop, exec)
      /\ pred_time_histories' = IF Predicted(op)
                                THEN pred_time_histories \cup {num_uop}
                                ELSE pred_time_histories
      /\ num_uop' = num_uop + 1
      /\ previous_fetch_cycle' = fetch_cycle /\ fetch_cycle' = next.cycle
  BY <1>1, Zenon DEF IssueUop
<1>ends. pc' \in {"next", "abort"}
  BY <1>1, SMT DEF IssueUop
<1>3. /\ num_fetched' = next.insts /\ num_fetched_branch' = next.branches
      /\ cycles_on_wrong_path' =
           cycles_on_wrong_path + (IF misp THEN WrongPathCycles(next) ELSE 0)
      /\ bundle' = BundleWith(op, misp)
  BY <1>1, Zenon DEF IssueUop
<1>4. /\ fetch_cycle \in Nat /\ previous_fetch_cycle \in Nat
      /\ previous_fetch_cycle <= fetch_cycle
      /\ num_uop \in Nat /\ head \in Nat /\ head <= num_uop
      /\ DQ_LATENCY \in Nat
      /\ clock \in Nat /\ target \in Nat
  BY LatencyAssumption DEF IInv, TypeOK, TimeInv
<1>5. /\ start \in Nat /\ exec \in Nat /\ misp \in BOOLEAN
      /\ start + 1 > fetch_cycle + DQ_LATENCY
      /\ start + 1 <= exec /\ exec > fetch_cycle + DQ_LATENCY
      /\ fetch_cycle + DQ_LATENCY > fetch_cycle
  <2>1. lat \in Nat /\ lat >= 1 /\ wait \in Nat
    BY LatencyAssumption DEF Latencies
  <2>2. misp \in BOOLEAN
    BY DEF Mispredicts
  <2>3. QED
    BY <1>4, <2>1, <2>2, LatencyAssumption
<1>6. \A s \in Live : /\ window[s] \in Entry
                      /\ window[s].decode_cycle \in Nat
                      /\ window[s].exec_cycle \in Nat
                      /\ window[s].retire_cycle \in Nat
  BY DEF IInv, TypeOK, Live, Entry
<1>7. /\ BackRetire \in Nat
      /\ \A s \in Live : window[s].retire_cycle <= BackRetire
  <2>1. CASE head = num_uop
    BY <1>4, <2>1 DEF BackRetire, Live
  <2>2. CASE head # num_uop
    <3>1. num_uop - 1 \in Live /\ \A s \in Live : s <= num_uop - 1
      BY <1>4, <2>2 DEF Live
    <3>2. BackRetire = window[num_uop - 1].retire_cycle
      BY <2>2 DEF BackRetire
    <3>3. \A s \in Live :
            window[s].retire_cycle <= window[num_uop - 1].retire_cycle
      BY <3>1 DEF IInv, WindowInv
    <3>4. QED
      BY <1>6, <3>1, <3>2, <3>3
  <2>3. QED
    BY <2>1, <2>2
<1>8. /\ entry.op = op
      /\ entry.decode_cycle = fetch_cycle + DQ_LATENCY
      /\ entry.exec_cycle = exec
      /\ entry.retire_cycle \in Nat
      /\ entry.retire_cycle >= exec /\ entry.retire_cycle >= BackRetire
      /\ IsUncond(op) => entry.pred_taken
      /\ IsCond(op) /\ ~misp => entry.pred_taken = op.is_taken
      /\ entry \in Entry
  <2>1. /\ Larger(exec, BackRetire) \in Nat
        /\ Larger(exec, BackRetire) >= exec
        /\ Larger(exec, BackRetire) >= BackRetire
    BY <1>5, <1>7 DEF Larger
  <2>2. op.is_taken \in BOOLEAN
    BY OpsAssumption
  <2>3. IsCond(op) \in BOOLEAN /\ IsUncond(op) \in BOOLEAN
    BY DEF IsCond, IsUncond
  <2>4. IsUncond(op) => ~IsCond(op)
    BY DEF IsCond, IsUncond
  <2>5. entry.pred_taken = IF IsCond(op) THEN IF misp THEN ~op.is_taken ELSE op.is_taken
                           ELSE IsUncond(op)
    BY DEF NewEntry
  <2>6. /\ entry.op = op
        /\ entry.decode_cycle = fetch_cycle + DQ_LATENCY
        /\ entry.exec_cycle = exec
        /\ entry.retire_cycle = Larger(exec, BackRetire)
    BY DEF NewEntry
  <2>7. /\ IsUncond(op) => entry.pred_taken
        /\ IsCond(op) /\ ~misp => entry.pred_taken = op.is_taken
        /\ entry.pred_taken \in BOOLEAN
    BY <2>2, <2>3, <2>4, <2>5, Zenon
  <2>8. entry = [op |-> op, decode_cycle |-> fetch_cycle + DQ_LATENCY,
                 exec_cycle |-> exec, retire_cycle |-> Larger(exec, BackRetire),
                 pred_taken |-> entry.pred_taken]
    BY DEF NewEntry
  <2>9. entry \in Entry
    <3> HIDE DEF entry, exec
    <3>1. QED
      BY <1>4, <1>5, <2>1, <2>7, <2>8 DEF Entry
  <2>10. QED
    BY <2>1, <2>6, <2>7, <2>9
<1>9. /\ front \in Nat
      /\ head < num_uop => front = window[head].retire_cycle
      /\ num_uop + 1 - head = WINDOW_SIZE /\ head = num_uop
           => front = entry.retire_cycle
  BY <1>4, <1>6, <1>8 DEF Live
<1>10. /\ next.cycle \in Nat /\ next.insts \in Nat /\ next.branches \in Nat
       /\ next.cycle >= fetch_cycle
       /\ misp => next.cycle >= exec
       /\ num_uop + 1 - head = WINDOW_SIZE => next.cycle >= front
  <2>1. TypeOK
    BY DEF IInv
  <2> HIDE DEF front, exec, misp, first, next
  <2>2. next = AfterPrediction(NextFetch(op, front), exec, misp)
    BY DEF first, next
  <2>3. front \in Nat /\ exec \in Nat /\ misp \in BOOLEAN
    BY <1>5, <1>9
  <2>4. ForwardFrom(next, front, exec, misp)
    BY <2>1, <2>2, <2>3, NextFetchForward, Zenon
  <2>5. QED
    BY <2>4, Zenon DEF ForwardFrom
<1> HIDE DEF start, exec, misp, entry, front, first, next
<1>11. /\ Live' = Live \cup {num_uop} /\ num_uop \notin Live
       /\ DOMAIN window = Live
       /\ window'[num_uop] = entry
       /\ \A s \in Live : window'[s] = window[s]
  BY <1>frame, <1>2, <1>4 DEF Live, With, IInv, TypeOK
<1>12. /\ DOMAIN DQ \subseteq Live /\ DOMAIN AQ \subseteq Live
       /\ DOMAIN EQ \subseteq Live
       /\ \A s \in DOMAIN DQ : DQ[s] \in Nat
       /\ \A s \in DOMAIN AQ : AQ[s] \in Nat
       /\ \A s \in DOMAIN EQ : EQ[s] \in Nat
  BY DEF IInv, TypeOK, IsQueue, Live
<1>13. /\ DOMAIN DQ' = DOMAIN DQ \cup {num_uop}
       /\ DQ'[num_uop] = entry.decode_cycle
       /\ \A s \in DOMAIN DQ : DQ'[s] = DQ[s]
  BY <1>2, <1>11, <1>12 DEF With
<1>14. /\ DOMAIN EQ' = DOMAIN EQ \cup {num_uop}
       /\ EQ'[num_uop] = exec
       /\ \A s \in DOMAIN EQ : EQ'[s] = EQ[s]
  BY <1>2, <1>11, <1>12 DEF With
<1>15. /\ DOMAIN AQ' = DOMAIN AQ \cup (IF IsMem(op) THEN {num_uop} ELSE {})
       /\ IsMem(op) => AQ'[num_uop] = start + 1
       /\ \A s \in DOMAIN AQ : AQ'[s] = AQ[s]
  BY <1>2, <1>11, <1>12 DEF With
<1>16. /\ previous_fetch_cycle' = fetch_cycle
       /\ Done = fetch_cycle /\ Done' = fetch_cycle
  BY <1>frame, <1>ends, <1>2 DEF Done
<1>17. TypeOK'
  <2>1. window' \in [Live' -> Entry]
    <3>1. window' = [t \in Live \cup {num_uop} |->
                       IF t = num_uop THEN entry ELSE window[t]]
      BY <1>2, <1>11 DEF With
    <3>2. QED
      BY <1>6, <1>8, <1>11, <3>1
  <2>2. IsQueue(DQ)' /\ IsQueue(AQ)' /\ IsQueue(EQ)'
    BY <1>5, <1>8, <1>4, <1>11, <1>12, <1>13, <1>14, <1>15 DEF IsQueue, Live
  <2>3. pred_time_histories' \subseteq Live'
    BY <1>2, <1>11 DEF IInv, TypeOK, Live
  <2>4. cycles_on_wrong_path' \in Nat
    <3>1. cycles_on_wrong_path \in Nat
      BY DEF IInv, TypeOK
    <3>2. WrongPathCycles(next) \in Nat
      BY <1>4, <1>10 DEF WrongPathCycles
    <3>3. QED
      BY <1>3, <3>1, <3>2
  <2>5. bundle' \in [insts : Nat, branches : Nat, closed : BOOLEAN]
    BY <1>3, <1>5, BundleWithType DEF IInv
  <2>6. head' \in 0 .. num_uop' /\ num_uop' \in Nat
    BY <1>frame, <1>2, <1>4
  <2>7. /\ clock' \in Nat /\ target' \in Nat /\ fetch_cycle' \in Nat
        /\ previous_fetch_cycle' \in Nat
        /\ num_fetched' \in Nat /\ num_fetched_branch' \in Nat
    BY <1>frame, <1>2, <1>3, <1>4, <1>10
  <2>8. pc' \in {"next", "skip", "icache", "miss", "issue", "end", "abort"}
    BY <1>ends
  <2>9. QED
    BY <2>1, <2>2, <2>3, <2>4, <2>5, <2>6, <2>7, <2>8 DEF TypeOK, Live
<1>18. TimeInv'
  BY <1>frame, <1>ends, <1>2, <1>10 DEF TimeInv
<1>19. /\ \A s \in Live : window[s].decode_cycle <= entry.decode_cycle
       /\ \A s \in Live : window[s].decode_cycle <= fetch_cycle + DQ_LATENCY
       /\ \A s \in Live : window[s].retire_cycle <= entry.retire_cycle
  <2>1. \A s \in Live : window[s].decode_cycle <= previous_fetch_cycle + DQ_LATENCY
    BY DEF IInv, WindowInv
  <2>2. \A s \in Live : window[s].decode_cycle <= fetch_cycle + DQ_LATENCY
    BY <1>4, <1>6, <2>1
  <2>3. \A s \in Live : window[s].retire_cycle <= entry.retire_cycle
    BY <1>6, <1>7, <1>8
  <2>4. QED
    BY <1>8, <2>2, <2>3
<1>20. WindowInv'
  <2>1. ASSUME NEW s \in Live'
        PROVE  /\ window'[s].decode_cycle < window'[s].exec_cycle
               /\ window'[s].exec_cycle <= window'[s].retire_cycle
               /\ window'[s].decode_cycle <= previous_fetch_cycle' + DQ_LATENCY
               /\ IsUncond(window'[s].op) => window'[s].pred_taken
    <3>1. CASE s = num_uop
      BY <1>2, <1>4, <1>5, <1>8, <1>11, <3>1
    <3>2. CASE s \in Live
      BY <1>2, <1>11, <1>19, <3>2 DEF IInv, WindowInv
    <3>3. QED
      BY <1>11, <2>1, <3>1, <3>2
  <2>2. ASSUME NEW s \in Live', NEW t \in Live', s <= t
        PROVE  /\ window'[s].decode_cycle <= window'[t].decode_cycle
               /\ window'[s].retire_cycle <= window'[t].retire_cycle
    <3>1. CASE s \in Live /\ t \in Live
      BY <1>11, <2>2, <3>1 DEF IInv, WindowInv
    <3>2. CASE s \in Live /\ t = num_uop
      BY <1>11, <1>19, <3>2
    <3>3. CASE s = num_uop
      <4>1. t = num_uop
        BY <1>4, <1>11, <2>2, <3>3 DEF Live
      <4>2. QED
        BY <1>4, <1>8, <1>11, <3>3, <4>1
    <3>4. QED
      BY <1>11, <2>2, <3>1, <3>2, <3>3
  <2>3. QED
    BY <2>1, <2>2 DEF WindowInv
<1>21. QueueInv'
  <2>1. \A s \in DOMAIN DQ' : DQ'[s] = window'[s].decode_cycle
    BY <1>11, <1>12, <1>13 DEF IInv, QueueInv
  <2>2. \A s \in DOMAIN EQ' : EQ'[s] = window'[s].exec_cycle
    BY <1>8, <1>11, <1>12, <1>14 DEF IInv, QueueInv
  <2>3. ASSUME NEW s \in DOMAIN AQ'
        PROVE  /\ IsMem(window'[s].op)
               /\ window'[s].decode_cycle < AQ'[s]
               /\ AQ'[s] <= window'[s].exec_cycle
    <3>1. CASE s \in DOMAIN AQ
      BY <1>11, <1>12, <1>15, <3>1 DEF IInv, QueueInv
    <3>2. CASE s = num_uop /\ IsMem(op)
      BY <1>4, <1>5, <1>8, <1>11, <1>15, <3>2
    <3>3. QED
      BY <1>15, <2>3, <3>1, <3>2
  <2>4. QED
    BY <2>1, <2>2, <2>3 DEF QueueInv
<1>22. PendingInv'
  <2>1. /\ \A s \in DOMAIN DQ : DQ[s] > fetch_cycle
        /\ \A s \in DOMAIN AQ : AQ[s] > fetch_cycle
        /\ \A s \in DOMAIN EQ : EQ[s] > fetch_cycle
        /\ \A s \in Live : window[s].retire_cycle > fetch_cycle
    BY <1>16 DEF IInv, PendingInv
  <2>2. /\ entry.decode_cycle > fetch_cycle /\ start + 1 > fetch_cycle
        /\ exec > fetch_cycle /\ entry.retire_cycle > fetch_cycle
    BY <1>4, <1>5, <1>8
  <2>3. /\ \A s \in DOMAIN DQ' : DQ'[s] > Done'
        /\ \A s \in DOMAIN AQ' : AQ'[s] > Done'
        /\ \A s \in DOMAIN EQ' : EQ'[s] > Done'
    BY <1>13, <1>14, <1>15, <1>16, <2>1, <2>2
  <2>4. \A s \in Live' : window'[s].retire_cycle > Done'
    BY <1>11, <1>16, <2>1, <2>2
  <2>5. QED
    BY <2>3, <2>4 DEF PendingInv
<1>23. CheckpointInv'
  <2>1. pred_time_histories = {s \in DOMAIN EQ : Predicted(window[s].op)}
    BY DEF IInv, CheckpointInv
  <2>2. pred_time_histories' = {s \in DOMAIN EQ' : Predicted(window'[s].op)}
    BY <1>2, <1>8, <1>11, <1>12, <1>14, <2>1
  <2>3. QED
    BY <2>2 DEF CheckpointInv, Predicted
<1>24. CapacityInv'
  <2>1. num_uop - head < WINDOW_SIZE
    BY <1>frame DEF IInv, CapacityInv
  <2>2. num_uop' - head' <= WINDOW_SIZE
    BY <1>frame, <1>2, <1>4, <2>1, ParamAssumption
  <2>3. ASSUME num_uop' - head' = WINDOW_SIZE
        PROVE  window'[head'].retire_cycle <= fetch_cycle'
    <3>0. num_uop + 1 - head = WINDOW_SIZE
      BY <1>frame, <1>2, <1>4, <2>3
    <3>1. next.cycle >= front
      BY <1>10, <3>0
    <3>2. CASE head = num_uop
      <4>1. front = entry.retire_cycle
        BY <1>9, <3>0, <3>2
      <4>2. QED
        BY <1>frame, <1>2, <1>8, <1>10, <1>11, <3>1, <3>2, <4>1
    <3>3. CASE head < num_uop
      <4>1. head \in Live
        BY <1>4, <3>3 DEF Live
      <4>2. QED
        BY <1>frame, <1>2, <1>6, <1>9, <1>10, <1>11, <3>1, <3>3, <4>1
    <3>4. QED
      BY <1>4, <3>2, <3>3
  <2>4. QED
    BY <1>ends, <2>2, <2>3 DEF CapacityInv
<1>25. ResolutionInv'
  <2> SUFFICES ASSUME NEW s \in Live', Mispredicted(s)'
               PROVE  window'[s].exec_cycle <= fetch_cycle'
    BY DEF ResolutionInv
  <2>1. Predicted(window'[s].op) /\ window'[s].pred_taken # window'[s].op.is_taken
    BY DEF Mispredicted, Predicted
  <2>2. CASE s = num_uop
    <3>1. misp
      BY <1>8, <1>11, <2>1, <2>2 DEF Predicted
    <3>2. QED
      BY <1>2, <1>8, <1>10, <1>11, <2>2, <3>1
  <2>3. CASE s \in Live
    <3>1. Mispredicted(s)
      BY <1>11, <2>1, <2>3 DEF Mispredicted
    <3>2. window[s].exec_cycle <= fetch_cycle
      BY <2>3, <3>1 DEF IInv, ResolutionInv
    <3>3. QED
      BY <1>2, <1>4, <1>6, <1>10, <1>11, <2>3, <3>2
  <2>4. QED
    BY <1>11, <2>2, <2>3
<1>26. QED
  BY <1>17, <1>18, <1>20, <1>21, <1>22, <1>23, <1>24, <1>25 DEF IInv
-----------------------------------------------------------------------------
(* The theorems.                                                            *)

(* Every step of the timing core keeps IInv.                                *)
LEMMA NextIInv == IInv /\ [Next]_vars => IInv'
<1> SUFFICES ASSUME IInv, [Next]_vars PROVE IInv'
  OBVIOUS
<1>1. CASE NextUop
  BY <1>1, NextUopStep
<1>2. CASE EndOfTrace
  BY <1>2, EndOfTraceStep
<1>3. CASE ICacheHit
  BY <1>3, ICacheHitStep
<1>4. CASE ICacheMiss
  BY <1>4, ICacheMissStep
<1>5. CASE EvalCycle
  BY <1>5, EvalCycleStep
<1>6. CASE Issue
  BY <1>6, IssueStep
<1>7. CASE UNCHANGED vars
  <2>1. /\ UNCHANGED <<pc, clock, target, fetch_cycle>>
        /\ UNCHANGED <<head, window, DQ, AQ, EQ, pred_time_histories>>
        /\ UNCHANGED fetchVars
    BY <1>7 DEF vars, timeVars, queueVars
  <2>2. Quiet
    BY <2>1 DEF Quiet, queueVars
  <2>3. TimeInv' /\ CapacityInv' /\ Done' = Done
    BY <2>1 DEF fetchVars, IInv, TimeInv, CapacityInv, Done
  <2>4. Done \in Int
    BY DEF Done, IInv, TypeOK
  <2>5. QED
    <3>1. Done' <= Done
      BY <2>3, <2>4
    <3>2. /\ pc' \in {"next", "skip", "icache", "miss", "issue", "end", "abort"}
          /\ clock' \in Nat /\ target' \in Nat
      BY <2>1 DEF IInv, TypeOK
    <3>3. QED
      BY <2>2, <2>3, <3>1, <3>2, QuietKeeps, Zenon
<1>8. CASE Terminated
  BY <1>7, <1>8 DEF Terminated
<1>9. QED
  BY <1>1, <1>2, <1>3, <1>4, <1>5, <1>6, <1>7, <1>8 DEF Next

(* IInv is an invariant of the timing core.                                 *)
THEOREM Inductive == Spec => []IInv
<1>1. Init => IInv
  BY InitIInv
<1>2. IInv /\ [Next]_vars => IInv'
  BY NextIInv
<1>3. QED
  BY <1>1, <1>2, PTL DEF Spec

(* Every variable keeps its type, and the queues hold uops of the window.   *)
THEOREM TypeCorrect == Spec => []TypeOK
<1>1. IInv => TypeOK
  BY DEF IInv
<1>2. QED
  BY <1>1, Inductive, PTL

(* The predictor is never asked for a prediction while an older branch that *)
(* it mispredicted is unresolved.                                           *)
THEOREM NeverOnWrongPath == Spec => []NoWrongPathFetch
<1>1. IInv => NoWrongPathFetch
  <2> SUFFICES ASSUME IInv, pc = "issue",
                      NEW s \in Live, Mispredicted(s)
               PROVE  s \notin DOMAIN EQ /\ window[s].exec_cycle <= fetch_cycle
    BY DEF NoWrongPathFetch, Live
  <2>1. window[s].exec_cycle <= fetch_cycle
    BY DEF IInv, ResolutionInv
  <2>2. ASSUME s \in DOMAIN EQ PROVE FALSE
    <3>1. EQ[s] = window[s].exec_cycle
      BY <2>2 DEF IInv, QueueInv
    <3>2. EQ[s] > fetch_cycle
      BY <2>2 DEF IInv, PendingInv, Done
    <3>3. EQ[s] \in Nat /\ fetch_cycle \in Nat
      BY <2>2 DEF IInv, TypeOK, IsQueue
    <3>4. QED
      BY <2>1, <3>1, <3>2, <3>3
  <2>3. QED
    BY <2>1, <2>2
<1>2. QED
  BY <1>1, Inductive, PTL

(* The predictor holds a checkpoint for exactly the unresolved conditional  *)
(* branches, when it predicts at all.                                       *)
THEOREM CheckpointsExact ==
  ASSUME ~PERFECT_BRANCH_PRED
  PROVE  Spec => []CheckpointsMatchEQ
<1>1. IInv => CheckpointsMatchEQ
  BY DEF IInv, CheckpointInv, CheckpointsMatchEQ, Predicted
<1>2. QED
  BY <1>1, Inductive, PTL

(* A uop retires in order and complete: nothing of it is still queued.      *)
LEMMA EvalCycleRetires ==
  IInv /\ EvalCycle =>
    /\ head' >= head
    /\ \A s \in head .. head' - 1 :
         /\ s \notin DOMAIN DQ' \cup DOMAIN AQ' \cup DOMAIN EQ'
         /\ window[s].exec_cycle <= clock
<1> SUFFICES ASSUME IInv, EvalCycle
             PROVE  /\ head' >= head
                    /\ \A s \in head .. head' - 1 :
                         /\ s \notin DOMAIN DQ' \cup DOMAIN AQ' \cup DOMAIN EQ'
                         /\ window[s].exec_cycle <= clock
  OBVIOUS
<1>1. PICK h \in head .. num_uop : EvalRetire(h)
  BY DEF EvalCycle
<1>2. /\ head' = h /\ h \in head .. num_uop
      /\ \A s \in head .. h - 1 : clock >= window[s].retire_cycle
  BY <1>1 DEF EvalRetire
<1>3. head \in Nat /\ num_uop \in Nat /\ clock \in Nat
  BY DEF IInv, TypeOK
<1>4. head' >= head
  BY <1>2, <1>3
<1>5. ASSUME NEW s \in head .. head' - 1
      PROVE  /\ s \notin DOMAIN DQ' \cup DOMAIN AQ' \cup DOMAIN EQ'
             /\ window[s].exec_cycle <= clock
  <2>1. s \in Live /\ clock >= window[s].retire_cycle
    BY <1>2, <1>3, <1>5 DEF Live
  <2>2. /\ window[s].decode_cycle \in Nat /\ window[s].exec_cycle \in Nat
        /\ window[s].retire_cycle \in Nat
    BY <2>1 DEF IInv, TypeOK, Live, Entry
  <2>3. /\ window[s].decode_cycle < window[s].exec_cycle
        /\ window[s].exec_cycle <= window[s].retire_cycle
    BY <2>1 DEF IInv, WindowInv
  <2>4. window[s].exec_cycle <= clock /\ window[s].decode_cycle < clock
    BY <1>3, <2>1, <2>2, <2>3
  <2>5. Done = clock - 1
    BY DEF EvalCycle, Done
  <2>6. ASSUME s \in DOMAIN DQ PROVE FALSE
    <3>1. DQ[s] = window[s].decode_cycle /\ DQ[s] > clock - 1
      BY <2>5, <2>6 DEF IInv, QueueInv, PendingInv
    <3>2. QED
      BY <1>3, <2>2, <2>4, <3>1
  <2>7. ASSUME s \in DOMAIN AQ PROVE AQ[s] = clock
    <3>1. AQ[s] <= window[s].exec_cycle /\ AQ[s] > clock - 1 /\ AQ[s] \in Nat
      BY <2>5, <2>7 DEF IInv, QueueInv, PendingInv, TypeOK, IsQueue
    <3>2. QED
      BY <1>3, <2>2, <2>4, <3>1
  <2>8. ASSUME s \in DOMAIN EQ PROVE EQ[s] = clock
    <3>1. EQ[s] = window[s].exec_cycle /\ EQ[s] > clock - 1 /\ EQ[s] \in Nat
      BY <2>5, <2>8 DEF IInv, QueueInv, PendingInv, TypeOK, IsQueue
    <3>2. QED
      BY <1>3, <2>2, <2>4, <3>1
  <2>9. /\ DOMAIN DQ' = DOMAIN DQ \ DueToDecode
        /\ DOMAIN AQ' = DOMAIN AQ \ Due(AQ)
        /\ DOMAIN EQ' = DOMAIN EQ \ Due(EQ)
    BY DEF EvalCycle, Without
  <2>10. QED
    BY <2>4, <2>6, <2>7, <2>8, <2>9 DEF Due
<1>6. QED
  BY <1>4, <1>5

(* Uops leave the window in order, none with work still queued.            *)
THEOREM RetiresInOrder == Spec => RetiresComplete
<1> DEFINE Retires == /\ head' >= head
                      /\ \A s \in head .. head' - 1 :
                           /\ s \notin DOMAIN DQ' \cup DOMAIN AQ' \cup DOMAIN EQ'
                           /\ window[s].exec_cycle <= clock
<1>1. IInv /\ [Next]_vars => [Retires]_vars
  <2> SUFFICES ASSUME IInv, Next PROVE Retires
    OBVIOUS
  <2>1. CASE EvalCycle
    BY <2>1, EvalCycleRetires, Zenon
  <2>2. CASE head' = head
    <3>1. head \in Nat
      BY DEF IInv, TypeOK
    <3>2. head' >= head /\ head .. head' - 1 = {}
      BY <2>2, <3>1
    <3>3. QED
      BY <3>2
  <2>3. NextUop \/ EndOfTrace \/ ICacheHit \/ ICacheMiss \/ Issue \/ Terminated
          => head' = head
    BY DEF NextUop, EndOfTrace, ICacheHit, ICacheMiss, Issue, Terminated,
           queueVars, vars
  <2>4. QED
    BY <2>1, <2>2, <2>3, Zenon DEF Next
<1>2. QED
  BY <1>1, Inductive, PTL DEF Spec, RetiresComplete

-----------------------------------------------------------------------------
(* The fetch bundle and the wrong-path cycles.                              *)

(* What the issue of a uop does to the cycles: it executes after it is      *)
(* fetched, and the front of the window retires after that.                 *)
Exec(wait, lat) == fetch_cycle + PIPELINE_FILL_LATENCY + wait + lat
Front(op, wait, lat, dir) ==
  IF head = num_uop
  THEN NewEntry(op, fetch_cycle + PIPELINE_FILL_LATENCY + wait, lat,
                Mispredicts(op, dir)).retire_cycle
  ELSE window[head].retire_cycle
NextOf(op, wait, lat, dir) ==
  AfterPrediction(NextFetch(op, Front(op, wait, lat, dir)), Exec(wait, lat),
                  Mispredicts(op, dir))

(* The cycles that an issue computes, in order.                             *)
LEMMA IssueTiming ==
  ASSUME IInv, pc = "issue", NEW op \in Ops, NEW wait \in Waits,
         NEW lat \in Latencies(op), NEW dir \in Directions(op)
  PROVE  /\ Exec(wait, lat) \in Nat /\ Exec(wait, lat) > fetch_cycle
         /\ Front(op, wait, lat, dir) \in Nat
         /\ Front(op, wait, lat, dir) > fetch_cycle
         /\ ForwardFrom(NextOf(op, wait, lat, dir), Front(op, wait, lat, dir),
                        Exec(wait, lat), Mispredicts(op, dir))
<1> DEFINE start == fetch_cycle + PIPELINE_FILL_LATENCY + wait
           exec == Exec(wait, lat)
           misp == Mispredicts(op, dir)
           front == Front(op, wait, lat, dir)
<1>1. fetch_cycle \in Nat /\ num_uop \in Nat /\ head \in Nat /\ head <= num_uop
  BY DEF IInv, TypeOK
<1>2. start \in Nat /\ exec \in Nat /\ exec > fetch_cycle /\ exec = start + lat
  <2>1. lat \in Nat /\ lat >= 1 /\ wait \in Nat
    BY LatencyAssumption DEF Latencies
  <2>2. QED
    BY <1>1, <2>1, LatencyAssumption DEF Exec
<1>3. misp \in BOOLEAN
  BY DEF Mispredicts
<1>4. front \in Nat /\ front > fetch_cycle
  <2>1. CASE head = num_uop
    <3>1. front = Larger(exec, 0)
      BY <1>2, <2>1 DEF Front, NewEntry, BackRetire
    <3>2. QED
      BY <1>1, <1>2, <3>1 DEF Larger
  <2>2. CASE head # num_uop
    <3>1. head \in Live /\ front = window[head].retire_cycle
      BY <1>1, <2>2 DEF Live, Front
    <3>2. window[head].retire_cycle > fetch_cycle
      BY <3>1 DEF IInv, PendingInv, Done
    <3>3. window[head].retire_cycle \in Nat
      BY <3>1 DEF IInv, TypeOK, Live, Entry
    <3>4. QED
      BY <3>1, <3>2, <3>3
  <2>3. QED
    BY <2>1, <2>2
<1>5. ForwardFrom(NextOf(op, wait, lat, dir), front, exec, misp)
  <2>1. TypeOK
    BY DEF IInv
  <2>2. NextOf(op, wait, lat, dir)
          = AfterPrediction(NextFetch(op, front), exec, misp)
    BY DEF NextOf
  <2> HIDE DEF front, exec, misp
  <2>3. QED
    BY <1>2, <1>3, <1>4, <2>1, <2>2, NextFetchForward, Zenon
<1>6. QED
  BY <1>2, <1>4, <1>5

(* What the issue of one uop assigns, in these terms.                       *)
IssueEffect(op, wait, lat, dir) ==
  LET next == NextOf(op, wait, lat, dir)
      misp == Mispredicts(op, dir)
  IN  /\ previous_fetch_cycle' = fetch_cycle
      /\ fetch_cycle' = next.cycle
      /\ num_fetched' = next.insts
      /\ num_fetched_branch' = next.branches
      /\ cycles_on_wrong_path' = cycles_on_wrong_path
           + (IF misp THEN WrongPathCycles(next) ELSE 0)
      /\ bundle' = BundleWith(op, misp)
      /\ pc' = IF IssueAsserts(op, Exec(wait, lat),
                               Front(op, wait, lat, dir), next, misp)
               THEN "next" ELSE "abort"

(* Every issue has this effect, for some uop and some latencies.            *)
LEMMA IssueAssigns ==
  ASSUME Issue
  PROVE  \E op \in Ops, wait \in Waits :
           \E lat \in Latencies(op), dir \in Directions(op) :
             IssueEffect(op, wait, lat, dir)
<1>1. PICK op \in Ops, wait \in Waits :
        \E lat \in Latencies(op), dir \in Directions(op) :
          IssueUop(op, wait, lat, dir)
  BY DEF Issue
<1>2. PICK lat \in Latencies(op), dir \in Directions(op) :
        IssueUop(op, wait, lat, dir)
  BY <1>1
<1>3. IssueEffect(op, wait, lat, dir)
  BY <1>2, Zenon DEF IssueEffect, IssueUop, NextOf, Front, Exec
<1>4. QED
  BY <1>3

(* The counter that uarchsim_t() leaves uninitialised is assumed to start   *)
(* at zero here; it may not, and then the property fails.                   *)
LEMMA WrongPathStep ==
  IInv /\ WrongPathBounded /\ [Next]_vars => WrongPathBounded'
<1> SUFFICES ASSUME IInv, WrongPathBounded, [Next]_vars
             PROVE  WrongPathBounded'
  OBVIOUS
<1>1. cycles_on_wrong_path \in Nat /\ fetch_cycle \in Nat /\ target \in Nat
  BY DEF IInv, TypeOK
<1>2. CASE Issue
  <2>1. pc = "issue"
    BY <1>2 DEF Issue
  <2>2. PICK op \in Ops, wait \in Waits :
          \E lat \in Latencies(op), dir \in Directions(op) :
            IssueEffect(op, wait, lat, dir)
    BY <1>2, IssueAssigns
  <2>3. PICK lat \in Latencies(op), dir \in Directions(op) :
          IssueEffect(op, wait, lat, dir)
    BY <2>2
  <2> DEFINE next == NextOf(op, wait, lat, dir)
  <2>4. next.cycle \in Nat /\ next.cycle >= fetch_cycle
    BY <2>1, IssueTiming DEF ForwardFrom
  <2>5. WrongPathCycles(next) = next.cycle - fetch_cycle
    BY DEF WrongPathCycles
  <2> HIDE DEF next
  <2>6. /\ fetch_cycle' = next.cycle
        /\ \/ cycles_on_wrong_path' = cycles_on_wrong_path + WrongPathCycles(next)
           \/ cycles_on_wrong_path' = cycles_on_wrong_path + 0
    BY <2>3 DEF next, IssueEffect
  <2>7. QED
    BY <1>1, <2>4, <2>5, <2>6 DEF WrongPathBounded
<1>3. CASE EvalCycle
  <2>1. target >= fetch_cycle
    BY <1>1, <1>3 DEF EvalCycle, IInv, TimeInv
  <2>2. cycles_on_wrong_path' = cycles_on_wrong_path
    BY <1>3 DEF EvalCycle, fetchVars
  <2>3. fetch_cycle' = fetch_cycle \/ fetch_cycle' = target
    BY <1>3 DEF EvalCycle
  <2>4. QED
    BY <1>1, <2>1, <2>2, <2>3 DEF WrongPathBounded
<1>4. CASE ~Issue /\ ~EvalCycle
  <2>1. UNCHANGED <<fetch_cycle, cycles_on_wrong_path>>
    BY <1>4 DEF Next, NextUop, EndOfTrace, ICacheHit, ICacheMiss, Terminated,
                fetchVars, vars
  <2>2. QED
    BY <2>1 DEF WrongPathBounded
<1>5. QED
  BY <1>2, <1>3, <1>4

(* The wrong-path cycles never exceed the cycles of the simulation.         *)
THEOREM WrongPathWithinTime ==
  ASSUME UninitWrongPath = {0}
  PROVE  Spec => []WrongPathBounded
<1>1. Init => WrongPathBounded
  BY DEF Init, WrongPathBounded
<1>2. QED
  BY <1>1, WrongPathStep, Inductive, PTL DEF Spec

(* Fetching op leaves the bundle within its limits, and open if fetch stays *)
(* in the cycle.                                                            *)
LEMMA BundleIssue == IInv /\ BundleInv /\ Issue => BundleInv'
<1> SUFFICES ASSUME IInv, BundleInv, Issue PROVE BundleInv'
  OBVIOUS
<1>1. pc = "issue"
  BY DEF Issue
<1>2. PICK op \in Ops, wait \in Waits :
        \E lat \in Latencies(op), dir \in Directions(op) :
          IssueEffect(op, wait, lat, dir)
  BY IssueAssigns
<1>3. PICK lat \in Latencies(op), dir \in Directions(op) :
        IssueEffect(op, wait, lat, dir)
  BY <1>2
<1> DEFINE exec  == Exec(wait, lat)
           misp  == Mispredicts(op, dir)
           front == Front(op, wait, lat, dir)
           first == NextFetch(op, front)
           next  == NextOf(op, wait, lat, dir)
           old   == IF fetch_cycle = previous_fetch_cycle THEN bundle
                                                          ELSE NoBundle
<1>4. /\ previous_fetch_cycle' = fetch_cycle /\ fetch_cycle' = next.cycle
      /\ num_fetched' = next.insts /\ num_fetched_branch' = next.branches
      /\ bundle'.insts = old.insts + AsNat(op.last)
      /\ bundle'.branches = old.branches + AsNat(IsBranch(op))
      /\ bundle'.closed = (\/ old.closed \/ misp
                           \/ FETCH_STOP_AT_TAKEN /\ op.is_taken
                           \/ FETCH_STOP_AT_INDIRECT /\ op.class = "indirect")
  BY <1>3 DEF IssueEffect, BundleWith
<1>5. /\ exec \in Nat /\ exec > fetch_cycle /\ front \in Nat /\ front > fetch_cycle
      /\ fetch_cycle \in Nat /\ num_fetched \in Nat /\ num_fetched_branch \in Nat
      /\ FETCH_WIDTH \in Nat /\ FETCH_NUM_BRANCH \in Nat
  BY <1>1, IssueTiming, ParamAssumption DEF IInv, TypeOK
<1>6. /\ old.insts \in Nat /\ old.branches \in Nat
      /\ ~old.closed
      /\ FETCH_WIDTH > 0 => old.insts <= num_fetched
      /\ FETCH_NUM_BRANCH > 0 => old.branches <= num_fetched_branch
  BY DEF IInv, TypeOK, BundleInv, NoBundle
<1>7. next = AfterPrediction(first, exec, misp)
  BY DEF NextOf
<1> HIDE DEF exec, misp, front, first, next, old
<1>8. /\ Fetched(op) \in Nat /\ Branches(op) \in Nat
      /\ AsNat(op.last) \in {0, 1} /\ AsNat(IsBranch(op)) \in {0, 1}
      /\ FETCH_WIDTH > 0 => /\ Fetched(op) = num_fetched + AsNat(op.last)
                            /\ Fetched(op) <= FETCH_WIDTH
      /\ FETCH_NUM_BRANCH > 0
           => /\ Branches(op) = num_fetched_branch + AsNat(IsBranch(op))
              /\ Branches(op) <= FETCH_NUM_BRANCH
              /\ ~IsBranch(op) => Branches(op) < FETCH_NUM_BRANCH
  BY <1>5 DEF Fetched, Branches, AsNat, BundleInv
<1>9. /\ FETCH_WIDTH > 0 => bundle'.insts <= FETCH_WIDTH
      /\ FETCH_NUM_BRANCH > 0 => bundle'.branches <= FETCH_NUM_BRANCH
      /\ FETCH_WIDTH > 0 => bundle'.insts <= Fetched(op)
      /\ FETCH_NUM_BRANCH > 0 => bundle'.branches <= Branches(op)
  BY <1>4, <1>5, <1>6, <1>8
<1>10. CASE misp
  <2>1. next.insts = 0 /\ next.branches = 0 /\ next.cycle = Larger(first.cycle, exec)
    BY <1>7, <1>10 DEF AfterPrediction, FetchAt
  <2>2. first.cycle \in Nat
    BY <1>5, <1>8 DEF first, NextFetch, FetchAt
  <2>3. next.cycle # fetch_cycle
    BY <1>5, <2>1, <2>2 DEF Larger
  <2>4. QED
    BY <1>4, <1>5, <1>9, <2>1, <2>3 DEF BundleInv
<1>11. CASE ~misp /\ num_uop + 1 - head = WINDOW_SIZE
  <2>1. next = FetchAt(front, 0, num_fetched_branch)
    BY <1>5, <1>7, <1>11 DEF AfterPrediction, first, NextFetch
  <2>2. /\ next.cycle # fetch_cycle /\ next.insts = 0
        /\ next.branches = num_fetched_branch
    BY <1>5, <2>1 DEF FetchAt
  <2>3. QED
    BY <1>4, <1>5, <1>9, <2>2 DEF BundleInv
<1>12. CASE ~misp /\ num_uop + 1 - head # WINDOW_SIZE /\ EndsBundle(op)
  <2>1. next = FetchAt(fetch_cycle + 1, 0, 0)
    BY <1>7, <1>12 DEF AfterPrediction, first, NextFetch
  <2>2. next.cycle # fetch_cycle /\ next.insts = 0 /\ next.branches = 0
    BY <1>5, <2>1 DEF FetchAt
  <2>3. QED
    BY <1>4, <1>5, <1>9, <2>2 DEF BundleInv
<1>13. CASE ~misp /\ num_uop + 1 - head # WINDOW_SIZE /\ ~EndsBundle(op)
  <2>1. next = FetchAt(fetch_cycle, Fetched(op), Branches(op))
    BY <1>7, <1>13 DEF AfterPrediction, first, NextFetch
  <2>2. next.insts = Fetched(op) /\ next.branches = Branches(op)
    BY <2>1 DEF FetchAt
  <2>3. /\ FETCH_WIDTH > 0 => Fetched(op) < FETCH_WIDTH
        /\ FETCH_NUM_BRANCH > 0 => Branches(op) < FETCH_NUM_BRANCH
    BY <1>5, <1>8, <1>13 DEF EndsBundle
  <2>4. ~bundle'.closed
    BY <1>4, <1>6, <1>13, Zenon DEF EndsBundle
  <2>5. QED
    BY <1>4, <1>9, <2>2, <2>3, <2>4 DEF BundleInv
<1>14. QED
  BY <1>10, <1>11, <1>12, <1>13

(* Every step keeps the fetch bundle invariant.                             *)
LEMMA BundleStep == IInv /\ BundleInv /\ [Next]_vars => BundleInv'
<1> SUFFICES ASSUME IInv, BundleInv, [Next]_vars PROVE BundleInv'
  OBVIOUS
<1>1. CASE Issue
  BY <1>1, BundleIssue
<1>2. CASE EvalCycle
  <2>1. UNCHANGED fetchVars
    BY <1>2 DEF EvalCycle
  <2>2. /\ fetch_cycle \in Nat /\ previous_fetch_cycle \in Nat /\ target \in Nat
        /\ previous_fetch_cycle <= fetch_cycle
    BY DEF IInv, TypeOK, TimeInv
  <2>3. \/ fetch_cycle' = fetch_cycle
        \/ fetch_cycle' = target /\ target > fetch_cycle
    BY <1>2, <2>2 DEF EvalCycle, IInv, TimeInv
  <2>4. fetch_cycle' = previous_fetch_cycle' => fetch_cycle = previous_fetch_cycle
    BY <2>1, <2>2, <2>3 DEF fetchVars
  <2>5. QED
    BY <2>1, <2>4 DEF BundleInv, fetchVars
<1>3. CASE ~Issue /\ ~EvalCycle
  <2>1. UNCHANGED <<fetch_cycle, fetchVars>>
    BY <1>3 DEF Next, NextUop, EndOfTrace, ICacheHit, ICacheMiss, Terminated, vars
  <2>2. QED
    BY <2>1 DEF BundleInv, fetchVars
<1>4. QED
  BY <1>1, <1>2, <1>3

(* No cycle fetches more instructions or branches than the machine can, nor *)
(* anything after a uop that has to be the last of its cycle.               *)
THEOREM FetchBundleFinite == Spec => []BundleLimits
<1>1. Init => BundleInv
  BY ParamAssumption DEF Init, BundleInv, NoBundle
<1>2. BundleInv => BundleLimits
  BY DEF BundleInv, BundleLimits
<1>3. QED
  BY <1>1, <1>2, BundleStep, Inductive, PTL DEF Spec

-----------------------------------------------------------------------------
(* The assertions.                                                          *)

(* A conditional branch that is taken to the next instruction breaks an     *)
(* assertion; traces are assumed to have none.                              *)
NoShortBranch == \A op \in Ops : op.class = "cond" /\ op.is_taken => op.gap

(* No assertion fails in a caught-up cycle.                                 *)
LEMMA EvalAsserts ==
  ASSUME ~PERFECT_BRANCH_PRED, IInv, pc \in {"skip", "miss"}
  PROVE  DecodeAsserts /\ AgenAsserts /\ ExecAsserts
<1>1. clock \in Nat /\ Done = clock - 1
  BY DEF IInv, TypeOK, Done
<1>2. /\ \A s \in DOMAIN DQ : s \in Live /\ DQ[s] \in Nat /\ clock <= DQ[s]
      /\ \A s \in DOMAIN AQ : s \in Live /\ AQ[s] \in Nat /\ clock <= AQ[s]
      /\ \A s \in DOMAIN EQ : s \in Live /\ EQ[s] \in Nat /\ clock <= EQ[s]
  BY <1>1 DEF IInv, PendingInv, TypeOK, IsQueue, Live
<1>3. \A s \in Live : InWindow(s) /\ s \in Nat
  BY DEF IInv, TypeOK, Live, InWindow
<1>4. DecodeAsserts
  <2>1. \A s \in DueToDecode : s \in DOMAIN DQ /\ DQ[s] = clock
    BY <1>2, <1>3 DEF DueToDecode
  <2>2. QED
    BY <1>2, <1>3, <2>1 DEF DecodeAsserts, IInv, QueueInv
<1>5. AgenAsserts
  BY <1>2, <1>3 DEF AgenAsserts, Due, IInv, QueueInv
<1>6. ExecAsserts
  <2> SUFFICES ASSUME NEW s \in Due(EQ)
               PROVE  /\ InWindow(s)
                      /\ window[s].exec_cycle = clock
                      /\ ResolveAsserts(s)
    BY <1>2 DEF ExecAsserts
  <2>1. s \in DOMAIN EQ /\ EQ[s] = clock /\ s \in Live
    BY <1>2 DEF Due
  <2>2. InWindow(s) /\ window[s].exec_cycle = clock
    BY <1>3, <2>1 DEF IInv, QueueInv
  <2>3. IsCond(window[s].op) => s \in pred_time_histories
    BY <2>1 DEF IInv, CheckpointInv, Predicted
  <2>4. IsUncond(window[s].op) => window[s].pred_taken
    BY <2>1 DEF IInv, WindowInv
  <2>5. QED
    BY <2>2, <2>3, <2>4 DEF ResolveAsserts
<1>7. QED
  BY <1>4, <1>5, <1>6

(* No assertion fails when a uop is issued.                                 *)
LEMMA IssueAssertsHold ==
  ASSUME NoShortBranch, IInv, pc = "issue", NEW op \in Ops, NEW wait \in Waits,
         NEW lat \in Latencies(op), NEW dir \in Directions(op)
  PROVE  IssueAsserts(op, Exec(wait, lat), Front(op, wait, lat, dir),
                      NextOf(op, wait, lat, dir), Mispredicts(op, dir))
<1> DEFINE exec  == Exec(wait, lat)
           misp  == Mispredicts(op, dir)
           front == Front(op, wait, lat, dir)
           next  == NextOf(op, wait, lat, dir)
<1>1. /\ exec \in Nat /\ exec > fetch_cycle /\ front \in Nat /\ front > fetch_cycle
      /\ next.cycle \in Nat
      /\ misp => next.cycle >= exec
  BY IssueTiming, Zenon DEF ForwardFrom
<1>2. /\ num_uop \in Nat /\ head \in Nat /\ head <= num_uop /\ fetch_cycle \in Nat
      /\ WINDOW_SIZE \in Nat
      /\ num_uop - head < WINDOW_SIZE
  BY ParamAssumption DEF IInv, TypeOK, CapacityInv
<1>3. Cardinality(DOMAIN AQ) + AsNat(IsMem(op)) <= WINDOW_SIZE
  <2>1. DOMAIN AQ \subseteq Live
    BY DEF IInv, TypeOK, IsQueue, Live
  <2>2. /\ IsFiniteSet(Live)
        /\ Cardinality(Live) = num_uop - head
    <3>1. CASE head = num_uop
      BY <1>2, <3>1, FS_EmptySet DEF Live
    <3>2. CASE head < num_uop
      <4>1. head \in Int /\ num_uop - 1 \in Int /\ head <= num_uop - 1
        BY <1>2, <3>2
      <4>2. QED
        BY <1>2, <4>1, FS_Interval DEF Live
    <3>3. QED
      BY <1>2, <3>1, <3>2
  <2>3. /\ Cardinality(DOMAIN AQ) \in Nat
        /\ Cardinality(DOMAIN AQ) <= num_uop - head
    BY <2>1, <2>2, FS_Subset, FS_CardinalityType
  <2>4. QED
    BY <1>2, <2>3 DEF AsNat
<1>4. op.is_taken => (IsCond(op) /\ op.gap) \/ IsUncond(op)
  BY OpsAssumption DEF NoShortBranch, IsCond, IsUncond
<1> HIDE DEF exec, misp, front, next
<1>5. misp => next.cycle > fetch_cycle
  BY <1>1, <1>2
<1>6. num_uop + 1 - head <= WINDOW_SIZE
  BY <1>2
<1>7. IssueAsserts(op, exec, front, next, misp)
  BY <1>1, <1>3, <1>4, <1>5, <1>6 DEF IssueAsserts
<1>8. QED
  BY <1>7 DEF exec, front, next, misp

(* No step takes the simulation to an assertion failure.                    *)
LEMMA NoAbortStep ==
  ASSUME ~PERFECT_BRANCH_PRED, NoShortBranch
  PROVE  IInv /\ NoAbort /\ [Next]_vars => NoAbort'
<1> SUFFICES ASSUME IInv, NoAbort, [Next]_vars PROVE NoAbort'
  OBVIOUS
<1>1. CASE Issue
  <2>1. pc = "issue"
    BY <1>1 DEF Issue
  <2>2. PICK op \in Ops, wait \in Waits :
          \E lat \in Latencies(op), dir \in Directions(op) :
            IssueEffect(op, wait, lat, dir)
    BY <1>1, IssueAssigns
  <2>3. PICK lat \in Latencies(op), dir \in Directions(op) :
          IssueEffect(op, wait, lat, dir)
    BY <2>2
  <2>4. IssueAsserts(op, Exec(wait, lat), Front(op, wait, lat, dir),
                     NextOf(op, wait, lat, dir), Mispredicts(op, dir))
    BY <2>1, IssueAssertsHold
  <2>5. QED
    BY <2>3, <2>4, Zenon DEF IssueEffect, NoAbort
<1>2. CASE EvalCycle
  BY <1>2, EvalAsserts DEF EvalCycle, NoAbort
<1>3. CASE NextUop
  <2>1. previous_fetch_cycle <= fetch_cycle
    BY DEF IInv, TimeInv
  <2>2. previous_fetch_cycle \in Nat /\ fetch_cycle \in Nat
    BY DEF IInv, TypeOK
  <2>3. QED
    BY <1>3, <2>1, <2>2 DEF NextUop, NoAbort
<1>4. CASE ~Issue /\ ~EvalCycle /\ ~NextUop
  BY <1>4 DEF Next, EndOfTrace, ICacheHit, ICacheMiss, Terminated, vars, NoAbort
<1>5. QED
  BY <1>1, <1>2, <1>3, <1>4

(* No assertion fails: no event is left behind by simulated time, each one  *)
(* finds its uop in the window, a resolved branch finds its checkpoint, and *)
(* the window has room for every uop that is issued.                        *)
THEOREM AssertionsHold ==
  ASSUME ~PERFECT_BRANCH_PRED, NoShortBranch
  PROVE  Spec => []NoAbort
<1>1. Init => NoAbort
  BY DEF Init, NoAbort
<1>2. IInv /\ NoAbort /\ [Next]_vars => NoAbort'
  BY NoAbortStep
<1>3. QED
  BY <1>1, <1>2, Inductive, PTL DEF Spec
=============================================================================
