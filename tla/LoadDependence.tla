--------------------------- MODULE LoadDependence ---------------------------
(***************************************************************************)
(* What cond_branch_predictor_interface.cc learns of loads: which registers *)
(* loads in flight will write (registers_in_flight), and which registers   *)
(* their addresses depend on (depGraph).  The timing core notifies it of   *)
(* uops that decode in order, branches that resolve in any order, and uops *)
(* that commit in order.                                                   *)
(*                                                                         *)
(* A register with no entry in either map is one that is not flagged, or   *)
(* has no dependencies.  Uops that are neither loads nor conditional       *)
(* branches change nothing and are left out.  At most three sources of 66  *)
(* registers keep load_dependence below the width of its uint8_t.          *)
(***************************************************************************)
EXTENDS Integers, Sequences, FiniteSets

CONSTANTS
  Regs, RFFLAGS,
  LoadSources, BranchSources,   \* the sets of registers that uops read
  WINDOW_SIZE,
  LOAD_DEPENDENT_BRANCHES,
  None

ASSUME LoadAssumption ==
  /\ IsFiniteSet(Regs) /\ RFFLAGS \notin Regs /\ WINDOW_SIZE \in Nat \ {0}
  /\ LoadSources \subseteq SUBSET Regs
  /\ BranchSources \subseteq SUBSET (Regs \cup {RFFLAGS})
  /\ LOAD_DEPENDENT_BRANCHES \in BOOLEAN

VARIABLES
  window,              \* the decoded uops that have not committed, in order
  registers_in_flight, \* the registers that are flagged
  graph                \* depGraph: a register -> those its load's address needs

vars == <<window, registers_in_flight, graph>>

Load(dst, srcs) == [class |-> "load", dst |-> dst, srcs |-> srcs,
                    resolved |-> TRUE, load_dependence |-> 0,
                    is_LD_dependent |-> FALSE]
Branch(srcs, n) == [class |-> "cond", dst |-> None, srcs |-> srcs,
                    resolved |-> FALSE, load_dependence |-> n,
                    is_LD_dependent |-> FALSE]

Init == window = <<>> /\ registers_in_flight = {} /\ graph = [r \in Regs |-> {}]

(* DependencyGraph.                                                         *)
deleteDestinationOnly(g, dst) == [g EXCEPT ![dst] = {}]
deleteDestination(g, dst) ==
  [r \in Regs |-> IF r = dst THEN {} ELSE g[r] \ {dst}]
addDependencies(g, dst, srcs) == [g EXCEPT ![dst] = @ \cup srcs]

(* The registers dfs() visits from r: the least set that holds r and, with  *)
(* each of its registers, those the register depends on.                    *)
Closed(S) == \A r \in S \cap Regs : graph[r] \subseteq S
Visited(r) == {x \in Regs \cup {r} : \A S \in SUBSET (Regs \cup {r}) :
                 r \in S /\ Closed(S) => x \in S}
getAllDependencies(r) == Visited(r) \ {r}

(* Flags alone, and no sources at all, are not followed.                    *)
Followed(srcs) == IF srcs = {RFFLAGS} THEN {} ELSE srcs
(* The sum over the sources: a register counts once for each that needs it. *)
LoadCount(srcs) ==
  Cardinality({p \in Followed(srcs) \X Regs : p[2] \in getAllDependencies(p[1])})

(* notify_instr_decode().                                                   *)
DecodeLoad == Len(window) < WINDOW_SIZE /\ \E dst \in Regs, srcs \in LoadSources :
  /\ window' = Append(window, Load(dst, srcs))
  /\ registers_in_flight' = registers_in_flight \cup {dst}
  /\ graph' = addDependencies(deleteDestination(graph, dst), dst, srcs)

DecodeBranch == Len(window) < WINDOW_SIZE /\ \E srcs \in BranchSources :
  /\ window' = Append(window, Branch(srcs, LoadCount(srcs)))
  /\ UNCHANGED <<registers_in_flight, graph>>

(* notify_instr_execute_resolve(): what update() is told of the branch.     *)
DependsOnLoad(srcs) ==
  LOAD_DEPENDENT_BRANCHES /\ Followed(srcs) \cap registers_in_flight # {}
Resolve == \E i \in DOMAIN window :
  /\ ~window[i].resolved
  /\ window' = [window EXCEPT ![i].resolved = TRUE,
                  ![i].is_LD_dependent = DependsOnLoad(window[i].srcs)]
  /\ UNCHANGED <<registers_in_flight, graph>>

(* notify_instr_commit().                                                   *)
UnflaggedNone(S, dst) == S
Unflagged(S, dst) == S \ {dst}
Commit ==
  /\ window # <<>> /\ Head(window).resolved
  /\ window' = Tail(window)
  /\ IF Head(window).class = "load"
     THEN /\ graph' = deleteDestination(graph, Head(window).dst)
          /\ registers_in_flight' = Unflagged(registers_in_flight, Head(window).dst)
     ELSE UNCHANGED <<registers_in_flight, graph>>

Next == DecodeLoad \/ DecodeBranch \/ Resolve \/ Commit

Spec == Init /\ [][Next]_vars

-----------------------------------------------------------------------------
(* Properties.                                                              *)

LoadsTo(i, r) == window[i].class = "load" /\ window[i].dst = r
(* The uop at j reads r from the load at i.                                 *)
LastLoad(i, r, j) ==
  i < j /\ LoadsTo(i, r) /\ \A k \in i + 1 .. j - 1 : ~LoadsTo(k, r)
End == Len(window) + 1

(* A register is flagged only while a load in flight will write it, so that *)
(* no branch is called load-dependent on account of a load that is gone.    *)
(* (A load in flight need not be flagged: the commit of an older load to    *)
(* the same register takes its flag away.)                                  *)
FlagsInFlight ==
  \A r \in registers_in_flight : \E i \in DOMAIN window : LoadsTo(i, r)

(* Each dependency in the graph is one of the load in flight that will      *)
(* write the register last, on a register that no younger load writes.      *)
DependenciesCurrent ==
  \A d \in Regs : \A s \in graph[d] : \E i \in DOMAIN window :
    /\ LastLoad(i, d, End) /\ s \in window[i].srcs
    /\ \A k \in i + 1 .. Len(window) : ~LoadsTo(k, s)

(* The registers that the uop at i depends on through loads in flight, its  *)
(* own sources included, by the order of the window.                        *)
TrueSources ==
  LET reads[i \in DOMAIN window] ==
        window[i].srcs \cup
        UNION {reads[j] : j \in {k \in 1 .. i - 1 :
                 \E r \in window[i].srcs : LastLoad(k, r, i)}}
  IN  reads
TrueDependencies(r, j) ==
  (UNION {TrueSources[i] : i \in {k \in 1 .. j - 1 : LastLoad(k, r, j)}}) \ {r}

(* The count that a branch is given when it decodes never exceeds the       *)
(* number of registers it depends on through the loads in flight: walking   *)
(* the graph never follows the sources of a load that does not feed it.     *)
NeverOvercounts ==
  [][ Len(window') > Len(window) =>
        LET b == window'[Len(window')]
        IN  b.load_dependence <=
              Cardinality({p \in Followed(b.srcs) \X Regs : p[2] \in TrueDependencies(p[1], End)}) ]_vars
=============================================================================
