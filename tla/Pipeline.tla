------------------------------ MODULE Pipeline ------------------------------
(***************************************************************************)
(* The timing core of the simulator: uarchsim_t::step() in                 *)
(* lib/uarchsim.cc, called by main() once per micro-op (uop) of the trace. *)
(*                                                                         *)
(* A step first lets simulated time catch up with fetch_cycle -- decode,   *)
(* address generation, execute/resolve and retire of every cycle skipped   *)
(* since the last uop -- then accesses the instruction cache (a miss skips *)
(* further cycles), and then issues the uop: it computes the cycles of its *)
(* life, enters it in the window and in the three queues, and decides the  *)
(* cycle in which the next uop is fetched.  Conditional branches leave a   *)
(* checkpoint in the predictor's pred_time_histories when they are         *)
(* predicted and remove it when they are resolved.                         *)
(*                                                                         *)
(* Abstractions.  A uop is identified by its seq_no.  How long it waits    *)
(* for source registers and for a lane, and the latency of the memory      *)
(* hierarchy, are inputs (Waits, LoadLatencies, FixedLatencies,            *)
(* MissLatencies), and so is the predicted direction.  The window is the   *)
(* interval head..num_uop-1 of sequence numbers.  Value prediction cannot  *)
(* be enabled (VP_ENABLE is false and no option sets it) and is left out.  *)
(* A failed assert(), or a map lookup that throws, ends in pc = "abort".   *)
(* An operator placed just before another one whose name it extends is     *)
(* that operator with a plausible bug, for the mutation runs.              *)
(***************************************************************************)
EXTENDS Integers, FiniteSets

CONSTANTS
  WINDOW_SIZE, FETCH_WIDTH, FETCH_NUM_BRANCH, FETCH_STOP_AT_INDIRECT,
  FETCH_STOP_AT_TAKEN, PERFECT_BRANCH_PRED, PIPELINE_FILL_LATENCY, DQ_LATENCY,
  Ops,              \* what a uop of the trace can be
  Waits,            \* extra cycles before a uop starts to execute
  LoadLatencies,    \* start of a load to its data
  FixedLatencies,   \* start to result of any other uop
  MissLatencies,    \* extra fetch cycles of an I-cache miss
  UninitWrongPath,  \* what the uninitialised counter may hold at first
  MaxUops           \* bound: the longest trace considered

InstClass == {"alu", "load", "store", "cond", "direct", "indirect"}

(* is_taken is the trace's taken flag, last its is_last_piece, and gap says *)
(* that next_pc differs from pc + 4: the reader takes next_pc from the      *)
(* trace for taken branches only, which it asserts to be branches.          *)
ASSUME OpsAssumption ==
  \A op \in Ops : /\ op.class \in InstClass
                  /\ {op.is_taken, op.last, op.gap} \subseteq BOOLEAN
                  /\ op.class \in {"direct", "indirect"} => op.is_taken
                  /\ op.is_taken => op.class \in {"cond", "direct", "indirect"}
                  /\ op.gap => op.is_taken

ASSUME ParamAssumption ==
  /\ WINDOW_SIZE \in Nat \ {0}
  /\ {FETCH_WIDTH, FETCH_NUM_BRANCH, MaxUops} \subseteq Nat
  /\ {FETCH_STOP_AT_INDIRECT, FETCH_STOP_AT_TAKEN, PERFECT_BRANCH_PRED}
       \subseteq BOOLEAN

(* DQ_LATENCY and PIPELINE_FILL_LATENCY are fixed at 2 and 10: a uop is     *)
(* decoded after it is fetched and before its address can be generated.     *)
ASSUME LatencyAssumption ==
  /\ {PIPELINE_FILL_LATENCY, DQ_LATENCY} \subseteq Nat
  /\ 0 < DQ_LATENCY /\ DQ_LATENCY <= PIPELINE_FILL_LATENCY
  /\ Waits \subseteq Nat /\ UninitWrongPath \subseteq Nat
  /\ LoadLatencies \subseteq Nat \ {0, 1}
  /\ FixedLatencies \subseteq Nat \ {0}
  /\ MissLatencies \subseteq Nat \ {0}

VARIABLES
  pc,                   \* where step() is
  clock, target,        \* temp_fetch_cycle and the bound of its loop
  fetch_cycle, previous_fetch_cycle,
  num_uop, head,        \* the window holds head..num_uop-1
  window, DQ, AQ, EQ,   \* from sequence numbers to entries and to cycles
  num_fetched, num_fetched_branch,
  pred_time_histories,  \* the keys that hold a checkpoint
  cycles_on_wrong_path,
  bundle                \* ghost: what was fetched in previous_fetch_cycle

timeVars  == <<clock, target>>
queueVars == <<head, window, DQ, AQ, EQ, pred_time_histories>>
fetchVars == <<previous_fetch_cycle, num_uop, num_fetched, num_fetched_branch,
               cycles_on_wrong_path, bundle>>
vars == <<pc, timeVars, fetch_cycle, queueVars, fetchVars>>

Larger(a, b) == IF a > b THEN a ELSE b
AsNat(b) == IF b THEN 1 ELSE 0
Without(q, S) == [s \in DOMAIN q \ S |-> q[s]]
With(q, s, v) == [t \in DOMAIN q \cup {s} |-> IF t = s THEN v ELSE q[t]]

IsMem(op) == op.class \in {"load", "store"}
IsCond(op) == op.class = "cond"
IsUncond(op) == op.class \in {"direct", "indirect"}
IsBranch(op) == IsCond(op) \/ IsUncond(op)

Nothing == [s \in {} |-> 0]
NoBundle == [insts |-> 0, branches |-> 0, closed |-> FALSE]

Init ==
  /\ pc = "next" /\ clock = 0 /\ target = 0
  /\ fetch_cycle = 0 /\ previous_fetch_cycle = 0
  /\ num_uop = 0 /\ head = 0
  /\ window = Nothing /\ DQ = Nothing /\ AQ = Nothing /\ EQ = Nothing
  /\ num_fetched = 0 /\ num_fetched_branch = 0
  /\ pred_time_histories = {}
  /\ cycles_on_wrong_path \in UninitWrongPath
  /\ bundle = NoBundle

-----------------------------------------------------------------------------
(* One iteration of the catch-up loop: eval_decode, eval_aq, eval_exec and  *)
(* eval_retire, in this order, for the cycle "clock".                       *)

InWindow(s) == head <= s /\ s < num_uop

(* eval_decode pops from the front only: it stops at the first uop that is  *)
(* due in another cycle.                                                    *)
DueToDecode == {s \in DOMAIN DQ : \A t \in DOMAIN DQ : t <= s => DQ[t] = clock}
Due(q) == {s \in DOMAIN q : q[s] = clock}

DecodeAsserts ==
  /\ \A s \in DOMAIN DQ :
       (\A t \in DOMAIN DQ : t < s => DQ[t] = clock) => clock <= DQ[s]
  /\ \A s \in DueToDecode : InWindow(s) /\ window[s].decode_cycle = clock

AgenAsserts ==
  /\ \A s \in DOMAIN AQ : clock <= AQ[s]
  /\ \A s \in Due(AQ) : /\ InWindow(s)
                        /\ IsMem(window[s].op)
                        /\ clock > window[s].decode_cycle
                        /\ clock <= window[s].exec_cycle

(* update() looks a conditional branch's checkpoint up with .at(); other    *)
(* branches assert that they were predicted taken.                          *)
ResolveAsserts(s) ==
  /\ IsCond(window[s].op) => s \in pred_time_histories
  /\ IsUncond(window[s].op) => window[s].pred_taken

ExecAsserts ==
  /\ \A s \in DOMAIN EQ : clock <= EQ[s]
  /\ \A s \in Due(EQ) : /\ InWindow(s)
                        /\ window[s].exec_cycle = clock
                        /\ ResolveAsserts(s)

(* update() erases the checkpoint of each branch it has resolved.           *)
ErasedOnlyTaken == {s \in Due(EQ) : window[s].op.is_taken}
Erased == Due(EQ)

(* eval_retire pops while the front's retire cycle has come: h is the new   *)
(* front.                                                                   *)
EvalRetireEarly(h) ==
  /\ \A s \in head .. h - 1 : clock + 1 >= window[s].retire_cycle
  /\ h < num_uop => clock + 1 < window[h].retire_cycle
  /\ head' = h
  /\ window' = [s \in h .. num_uop - 1 |-> window[s]]
EvalRetire(h) ==
  /\ \A s \in head .. h - 1 : clock >= window[s].retire_cycle
  /\ h < num_uop => clock < window[h].retire_cycle
  /\ head' = h
  /\ window' = [s \in h .. num_uop - 1 |-> window[s]]

NextCycleStalls == IF pc = "miss" /\ DOMAIN DQ = {} THEN clock ELSE clock + 1
NextCycle == clock + 1

EvalCycle ==
  /\ pc \in {"skip", "miss"}
  /\ DQ' = Without(DQ, DueToDecode)
  /\ AQ' = Without(AQ, Due(AQ))
  /\ EQ' = Without(EQ, Due(EQ))
  /\ pred_time_histories' = pred_time_histories \ Erased
  /\ \E h \in head .. num_uop : EvalRetire(h)
  /\ clock' = NextCycle
  /\ fetch_cycle' = IF clock < target THEN fetch_cycle ELSE target
  /\ pc' = IF ~(DecodeAsserts /\ AgenAsserts /\ ExecAsserts) THEN "abort"
           ELSE IF clock < target THEN pc
           ELSE IF pc = "skip" THEN "icache" ELSE "issue"
  /\ UNCHANGED <<target, fetchVars>>

-----------------------------------------------------------------------------
(* The beginning of a step: main() hands over the next uop, or the trace    *)
(* has ended; then the instruction cache is accessed.                       *)

NextUopSkipsCycles ==
  /\ pc = "next" /\ num_uop < MaxUops
  /\ pc' = IF previous_fetch_cycle # fetch_cycle THEN "skip" ELSE "icache"
  /\ clock' = fetch_cycle /\ target' = fetch_cycle
  /\ UNCHANGED <<fetch_cycle, queueVars, fetchVars>>
NextUop ==
  /\ pc = "next" /\ num_uop < MaxUops
  /\ pc' = IF previous_fetch_cycle > fetch_cycle THEN "abort"
           ELSE IF previous_fetch_cycle # fetch_cycle THEN "skip" ELSE "icache"
  /\ clock' = previous_fetch_cycle /\ target' = fetch_cycle
  /\ UNCHANGED <<fetch_cycle, queueVars, fetchVars>>

EndOfTrace ==
  /\ pc = "next" /\ pc' = "end"
  /\ UNCHANGED <<timeVars, fetch_cycle, queueVars, fetchVars>>

ICacheHit ==
  /\ pc = "icache" /\ pc' = "issue"
  /\ UNCHANGED <<timeVars, fetch_cycle, queueVars, fetchVars>>

ICacheMiss ==
  /\ pc = "icache" /\ pc' = "miss"
  /\ \E m \in MissLatencies : target' = fetch_cycle + m
  /\ clock' = fetch_cycle
  /\ UNCHANGED <<fetch_cycle, queueVars, fetchVars>>

-----------------------------------------------------------------------------
(* The issue of a uop, with the data that later modules refine as inputs.   *)

Latencies(op) == IF op.class = "load" THEN LoadLatencies ELSE FixedLatencies

BackRetire == IF head = num_uop THEN 0 ELSE window[num_uop - 1].retire_cycle

(* bp_t::predict(): the predictor is asked about conditional branches only, *)
(* whose outcome is next_pc # pc + 4; the targets of indirect branches are  *)
(* predicted perfectly (PERFECT_INDIRECT_PRED is true and cannot be set).   *)
Predicted(op) == IsCond(op) /\ ~PERFECT_BRANCH_PRED
Directions(op) == IF Predicted(op) THEN BOOLEAN ELSE {op.gap}
Mispredicts(op, dir) ==
  /\ ~PERFECT_BRANCH_PRED
  /\ IF IsCond(op) THEN dir # op.gap ELSE ~IsBranch(op) /\ op.gap

(* The entry that step() pushes, with its pred_taken already updated.       *)
NewEntry(op, start, lat, misp) ==
  [op           |-> op,
   decode_cycle |-> fetch_cycle + DQ_LATENCY,
   exec_cycle   |-> start + lat,
   retire_cycle |-> Larger(start + lat, BackRetire),
   pred_taken   |-> IF IsCond(op) THEN IF misp THEN ~op.is_taken ELSE op.is_taken
                    ELSE IsUncond(op)]

(* The fetch bundle: how many instructions and branches it holds with op,   *)
(* and whether op is its last.                                              *)
Fetched(op) == num_fetched + AsNat(FETCH_WIDTH > 0 /\ op.last)
Branches(op) == num_fetched_branch + AsNat(FETCH_NUM_BRANCH > 0 /\ IsBranch(op))
EndsBundleTooLate(op) ==
  \/ FETCH_WIDTH > 0 /\ Fetched(op) = FETCH_WIDTH + 1
  \/ FETCH_NUM_BRANCH > 0 /\ IsBranch(op) /\ Branches(op) = FETCH_NUM_BRANCH
  \/ FETCH_STOP_AT_INDIRECT /\ op.class = "indirect"
  \/ FETCH_STOP_AT_TAKEN /\ op.is_taken
EndsBundle(op) ==
  \/ FETCH_WIDTH > 0 /\ Fetched(op) = FETCH_WIDTH
  \/ FETCH_NUM_BRANCH > 0 /\ IsBranch(op) /\ Branches(op) = FETCH_NUM_BRANCH
  \/ FETCH_STOP_AT_INDIRECT /\ op.class = "indirect"
  \/ FETCH_STOP_AT_TAKEN /\ op.is_taken

(* Where fetch continues, before a misprediction is accounted for: a full   *)
(* window skips to the retirement of its front (and forgets the bundle's    *)
(* instructions, not its branches), else the bundle's constraints apply.    *)
FetchAt(c, n, b) == [cycle |-> c, insts |-> n, branches |-> b]
NextFetch(op, frontRetire) ==
  IF num_uop + 1 - head = WINDOW_SIZE
  THEN IF fetch_cycle < frontRetire
       THEN FetchAt(frontRetire, 0, num_fetched_branch)
       ELSE FetchAt(fetch_cycle, num_fetched, num_fetched_branch)
  ELSE IF EndsBundle(op) THEN FetchAt(fetch_cycle + 1, 0, 0)
       ELSE FetchAt(fetch_cycle, Fetched(op), Branches(op))

AfterPredictionEarly(next, exec, misp) ==
  IF misp THEN FetchAt(Larger(next.cycle, exec - 1), 0, 0) ELSE next
AfterPrediction(next, exec, misp) ==
  IF misp THEN FetchAt(Larger(next.cycle, exec), 0, 0) ELSE next

(* What a misprediction adds to cycles_on_wrong_path.                       *)
WrongPathCyclesSincePrevious(next) == next.cycle - previous_fetch_cycle
WrongPathCycles(next) == next.cycle - fetch_cycle

IssueAsserts(op, exec, frontRetire, next, misp) ==
  /\ fetch_cycle < exec
  /\ num_uop + 1 - head <= WINDOW_SIZE
  /\ Cardinality(DOMAIN AQ) + AsNat(IsMem(op)) <= WINDOW_SIZE
  /\ frontRetire > fetch_cycle
  /\ num_uop + 1 - head # WINDOW_SIZE /\ FETCH_STOP_AT_TAKEN /\ op.is_taken
       => (IsCond(op) /\ op.gap) \/ IsUncond(op)
  /\ misp => next.cycle > fetch_cycle

(* Ghost: what has been fetched in one cycle, and whether a uop that must   *)
(* be the last of its cycle is among it.                                    *)
BundleWith(op, misp) ==
  LET b == IF fetch_cycle = previous_fetch_cycle THEN bundle ELSE NoBundle
  IN  [insts    |-> b.insts + AsNat(op.last),
       branches |-> b.branches + AsNat(IsBranch(op)),
       closed   |-> \/ b.closed \/ misp
                    \/ FETCH_STOP_AT_TAKEN /\ op.is_taken
                    \/ FETCH_STOP_AT_INDIRECT /\ op.class = "indirect"]

IssueUop(op, wait, lat, dir) ==
  LET start == fetch_cycle + PIPELINE_FILL_LATENCY + wait
      misp  == Mispredicts(op, dir)
      entry == NewEntry(op, start, lat, misp)
      frontRetire == IF head = num_uop THEN entry.retire_cycle
                                       ELSE window[head].retire_cycle
      next  == AfterPrediction(NextFetch(op, frontRetire), start + lat, misp)
  IN  /\ window' = With(window, num_uop, entry)
      /\ DQ' = With(DQ, num_uop, entry.decode_cycle)
      /\ AQ' = IF IsMem(op) THEN With(AQ, num_uop, start + 1) ELSE AQ
      /\ EQ' = With(EQ, num_uop, start + lat)
      /\ pred_time_histories' = IF Predicted(op)
                                THEN pred_time_histories \cup {num_uop}
                                ELSE pred_time_histories
      /\ num_uop' = num_uop + 1
      /\ previous_fetch_cycle' = fetch_cycle
      /\ fetch_cycle' = next.cycle
      /\ num_fetched' = next.insts
      /\ num_fetched_branch' = next.branches
      /\ cycles_on_wrong_path' =
           cycles_on_wrong_path + (IF misp THEN WrongPathCycles(next) ELSE 0)
      /\ bundle' = BundleWith(op, misp)
      /\ pc' = IF IssueAsserts(op, start + lat, frontRetire, next, misp)
               THEN "next" ELSE "abort"

Issue ==
  /\ pc = "issue"
  /\ \E op \in Ops, wait \in Waits :
       \E lat \in Latencies(op), dir \in Directions(op) :
         IssueUop(op, wait, lat, dir)
  /\ UNCHANGED <<timeVars, head>>

Terminated == pc = "end" /\ UNCHANGED vars

Next == \/ NextUop \/ EndOfTrace
        \/ ICacheHit \/ ICacheMiss
        \/ EvalCycle
        \/ Issue
        \/ Terminated

(* One thread runs the simulation: it goes on as long as it can.            *)
Spec == Init /\ [][Next]_vars /\ WF_vars(Next)

-----------------------------------------------------------------------------
(* Properties.                                                              *)

Entry == [op : Ops, decode_cycle : Nat, exec_cycle : Nat, retire_cycle : Nat,
          pred_taken : BOOLEAN]

IsQueue(q) == DOMAIN q \subseteq head .. num_uop - 1
              /\ \A s \in DOMAIN q : q[s] \in Nat

(* Every variable has its type; the queues hold uops of the window only.    *)
TypeOK ==
  /\ pc \in {"next", "skip", "icache", "miss", "issue", "end", "abort"}
  /\ {clock, target, fetch_cycle, previous_fetch_cycle, num_uop, num_fetched,
      num_fetched_branch, cycles_on_wrong_path} \subseteq Nat
  /\ head \in 0 .. num_uop
  /\ window \in [head .. num_uop - 1 -> Entry]
  /\ IsQueue(DQ) /\ IsQueue(AQ) /\ IsQueue(EQ)
  /\ pred_time_histories \subseteq head .. num_uop - 1
  /\ bundle \in [insts : Nat, branches : Nat, closed : BOOLEAN]

(* No assertion of step() and its eval functions fails, and no checkpoint   *)
(* is looked up that is not there: no queued event is ever left behind by   *)
(* the catch-up loops (291, 318, 347), each event finds its uop in the      *)
(* window (262, 295, 351), a uop's events come in order (323, 324), and the *)
(* window never exceeds its capacity nor outlives its front (681, 697).     *)
NoAbort == pc # "abort"

(* While a uop is fetched, every older misprediction has been resolved: the *)
(* predictor never predicts, nor updates its history, on a wrong path.      *)
Mispredicted(s) ==
  LET w == window[s] IN Predicted(w.op) /\ w.pred_taken # w.op.is_taken
NoWrongPathFetch ==
  pc = "issue" =>
    \A s \in head .. num_uop - 1 :
      Mispredicted(s) => s \notin DOMAIN EQ /\ window[s].exec_cycle <= fetch_cycle

(* The predictor holds a checkpoint for exactly the conditional branches    *)
(* that are predicted and not yet resolved: none is missing, none leaks.    *)
CheckpointsMatchEQ ==
  pred_time_histories = {s \in DOMAIN EQ : IsCond(window[s].op)}

(* A fetch cycle never exceeds the machine's limits (uarchsim.h: "finite    *)
(* fetch bundle"), and nothing is fetched in the cycle of an older uop that *)
(* had to be its last.                                                      *)
BundleLimits ==
  /\ FETCH_WIDTH > 0 => bundle.insts <= FETCH_WIDTH
  /\ FETCH_NUM_BRANCH > 0 => bundle.branches <= FETCH_NUM_BRANCH
  /\ pc \in {"next", "icache", "issue"} /\ fetch_cycle = previous_fetch_cycle
       => ~bundle.closed

(* The cycles reported as spent on the wrong path are disjoint intervals of *)
(* simulated time.                                                          *)
WrongPathBounded == cycles_on_wrong_path <= fetch_cycle

(* A uop retires in order, and only once it is decoded, has its address and *)
(* is executed.                                                             *)
RetiresComplete ==
  [][ /\ head' >= head
      /\ \A s \in head .. head' - 1 :
           /\ s \notin DOMAIN DQ' \cup DOMAIN AQ' \cup DOMAIN EQ'
           /\ window[s].exec_cycle <= clock
    ]_vars

(* Every trace is simulated to its end: no catch-up loop runs for ever.     *)
Terminates == <>(pc = "end")
=============================================================================
