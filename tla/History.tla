------------------------------- MODULE History -------------------------------
(***************************************************************************)
(* The branch histories of cbp2016_tage_sc_l.h (cbp_hist_t): the ring of   *)
(* directions with its folded copies, the global, path and local histories *)
(* and those of the inner loop (IMLI).  HistoryUpdate() is called for      *)
(* every branch, with its true direction.                                  *)
(*                                                                         *)
(* Histories that are 64-bit shift registers in the code are sequences, the*)
(* youngest entry first, of WIDTH entries.  A register into which bits of  *)
(* the pc are mixed is the sequence of what is mixed, of which its value is*)
(* a function.  One folded history stands for the three times NHIST of the *)
(* code, which differ in their lengths only.                               *)
(***************************************************************************)
EXTENDS Integers, SequencesExt

CONSTANTS
  HISTBUFFERLENGTH,  \* entries of the ring, 4096 in the code
  OLENGTH, CLENGTH,  \* length of the history and of its folded copy
  WIDTH,             \* entries that are kept of a shift register
  IMLIMAX,           \* 2^Im[0] - 1: the highest iteration number
  Statics,           \* [pc, kind, backward]: branches; backward: target < pc
  MaxTrace           \* bound: the longest trace considered

VARIABLES
  active_hist,
  trace        \* ghost: the branches executed so far

HistoryVars == <<active_hist, trace>>

Kinds == {"cond", "direct", "indirect"}

ASSUME HistoryAssumption ==
  /\ {HISTBUFFERLENGTH, OLENGTH, CLENGTH, WIDTH} \subseteq Nat \ {0}
  /\ OLENGTH < HISTBUFFERLENGTH
  /\ {IMLIMAX, MaxTrace} \subseteq Nat
  /\ Statics \subseteq [pc : Nat, kind : Kinds, backward : BOOLEAN]

Pcs == {s.pc : s \in Statics}

(* Only conditional branches may be not taken.                              *)
Branches ==
  {[pc |-> s.pc, kind |-> s.kind, backward |-> s.backward, taken |-> t] :
     s \in Statics, t \in BOOLEAN} \
  [pc : Pcs, kind : Kinds \ {"cond"}, backward : BOOLEAN, taken : {FALSE}]

-----------------------------------------------------------------------------
(* Folded histories.  Bits are Booleans, and # is the exclusive or.         *)

OUTPOINT == OLENGTH % CLENGTH

(* folded_history::update(): rotate, take the new bit in and the oldest out.*)
FoldedOutTooFar(comp, new, old) ==
  [i \in 0 .. CLENGTH - 1 |->
     (IF i = 0 THEN new # comp[CLENGTH - 1] ELSE comp[i - 1])
       # (i = (OLENGTH + 1) % CLENGTH /\ old)]
Folded(comp, new, old) ==
  [i \in 0 .. CLENGTH - 1 |->
     (IF i = 0 THEN new # comp[CLENGTH - 1] ELSE comp[i - 1])
       # (i = OUTPOINT /\ old)]

Bit(n, t) == (n \div 2^t) % 2 = 1

(* The bits that a branch brings in: of PC ^ (PC >> 2), the lowest one with *)
(* the direction; three of an indirect branch, two of the others.           *)
maxt(b) == IF b.kind = "indirect" THEN 3 ELSE 2
DIR(b, t) == Bit(b.pc, t) # (Bit(b.pc, t + 2) # (t = 0 /\ b.taken))

Slot(Y) == Y % HISTBUFFERLENGTH
Push(s, x) == SubSeq(<<x>> \o s, 1, WIDTH)
Mix(s, x) == SubSeq(<<x>> \o s, 1, IF Len(s) < WIDTH THEN Len(s) + 1 ELSE WIDTH)

(* One bit: into the ring, which grows downwards, and the folded copy.      *)
Enter(h, b, t) ==
  LET Y == h.ptghist - 1
      ring == [h.ghist EXCEPT ![Slot(Y)] = DIR(b, t)]
  IN  [h EXCEPT !.ptghist = Y, !.ghist = ring,
                !.phist = Mix(@, <<b.pc, t>>),
                !.comp = Folded(@, ring[Slot(Y)], ring[Slot(Y + OLENGTH)])]

EnterAll(h, b) ==
  LET two == Enter(Enter(h, b, 0), b, 1)
  IN  IF maxt(b) = 3 THEN Enter(two, b, 2) ELSE two

-----------------------------------------------------------------------------
(* The other histories, of conditional branches.                            *)

(* nextPC < PC.  The next pc of a branch that is not taken is PC + 4, from  *)
(* which bp_t::predict() derives the direction (bp.cc:88, 115).             *)
NextIsBackward(b) == b.taken /\ b.backward

(* The number of the iteration.  The reset for the exit of a loop is under  *)
(* nextPC < PC as well, and so it is never reached.                         *)
Iteration(IMLIcount, b) ==
  IF ~NextIsBackward(b) THEN IMLIcount
  ELSE IF ~b.taken THEN 0
  ELSE IF IMLIcount < IMLIMAX THEN IMLIcount + 1 ELSE IMLIcount

Registers(h, b) ==
  [h EXCEPT !.IMHIST[h.IMLIcount] = Push(@, b.taken),
            !.IMLIcount = Iteration(@, b),
            !.GHIST = Push(@, b.taken /\ NextIsBackward(b)),
            !.L_shist[b.pc] = Push(@, b.taken),
            !.S_slhist[b.pc] = Mix(@, <<b.taken, b.pc>>)]

HistoryUpdate(h, b) ==
  EnterAll(IF b.kind = "cond" THEN Registers(h, b) ELSE h, b)

(* init_histories() and static initialization.                              *)
Zeros == [k \in 1 .. WIDTH |-> FALSE]
InitialHistory ==
  [ghist |-> [y \in 0 .. HISTBUFFERLENGTH - 1 |-> FALSE], ptghist |-> 0,
   comp |-> [i \in 0 .. CLENGTH - 1 |-> FALSE], phist |-> <<>>,
   GHIST |-> Zeros, IMLIcount |-> 0, IMHIST |-> [c \in 0 .. IMLIMAX |-> Zeros],
   L_shist |-> [p \in Pcs |-> Zeros], S_slhist |-> [p \in Pcs |-> <<>>]]

HistoryInit == active_hist = InitialHistory /\ trace = <<>>

(* spec_update(), of any branch.                                            *)
SpecUpdate ==
  /\ Len(trace) < MaxTrace
  /\ \E b \in Branches : /\ active_hist' = HistoryUpdate(active_hist, b)
                         /\ trace' = Append(trace, b)

(* The histories that a branch can find.                                    *)
Traces == UNION {[1 .. n -> Branches] : n \in 0 .. MaxTrace}
HistoryAfter(tr) == FoldLeft(HistoryUpdate, InitialHistory, tr)
Histories == {HistoryAfter(tr) : tr \in Traces}

-----------------------------------------------------------------------------
(* What the histories mean, defined on a trace.                             *)

(* How many of S are no older than i, and whether the k-th youngest of S is *)
(* in T.                                                                    *)
Age(S, i) == Cardinality({j \in S : j >= i})
Youngest(S, T, k) == \E i \in T : Age(S, i) = k
Recent(S, T) == [k \in 1 .. WIDTH |-> Youngest(S, T, k)]

(* Bit t of the branch at k has the number 3 * k + t.                       *)
Bits(tr) == {m \in 3 .. 3 * Len(tr) + 2 : m % 3 < maxt(tr[m \div 3])}
Ones(tr) == {m \in Bits(tr) : DIR(tr[m \div 3], m % 3)}
Directions(tr) == [k \in 1 .. OLENGTH |-> Youngest(Bits(tr), Ones(tr), k)]

(* The folded history is the exclusive or of the last OLENGTH directions,   *)
(* cut into pieces of CLENGTH.                                              *)
Parity(set) == Cardinality(set) % 2 = 1
FoldOf(bits) ==
  [i \in 0 .. CLENGTH - 1 |->
     Parity({k \in 1 .. OLENGTH : (k - 1) % CLENGTH = i /\ bits[k]})]

Conds(tr) == {k \in DOMAIN tr : tr[k].kind = "cond"}
Takens(tr) == {k \in Conds(tr) : tr[k].taken}
Loops(tr) == {k \in Conds(tr) : tr[k].backward}
At(tr, p) == {k \in Conds(tr) : tr[k].pc = p}

(* The iteration number that the branch at n finds: how many loop branches  *)
(* were taken before it, in whatever loops, up to the maximum.              *)
Turns(tr, n) == {k \in Loops(tr) \cap Takens(tr) : k < n}
CountAt(tr, n) ==
  IF Cardinality(Turns(tr, n)) < IMLIMAX THEN Cardinality(Turns(tr, n)) ELSE IMLIMAX
During(tr, c) == {k \in Conds(tr) : CountAt(tr, k) = c}

Matches(h, tr) ==
  /\ h.comp = FoldOf(Directions(tr))
  /\ h.GHIST = Recent(Conds(tr), Takens(tr) \cap Loops(tr))
  /\ \A p \in Pcs : h.L_shist[p] = Recent(At(tr, p), Takens(tr) \cap At(tr, p))
  /\ h.IMLIcount = CountAt(tr, Len(tr) + 1)
  /\ \A c \in 0 .. IMLIMAX :
       h.IMHIST[c] = Recent(During(tr, c), Takens(tr) \cap During(tr, c))

(* Folded histories are updated bit by bit, and every checkpoint carries its*)
(* own: each is the fold of the true history.  The global and the local     *)
(* histories are those of the branches they are kept for, however they      *)
(* interleave.  The iteration number counts the loop branches taken since   *)
(* the start, and stays at its maximum: leaving a loop does not end the     *)
(* count.  IMHIST is indexed by it and has, for each number, the conditional*)
(* branches executed while it was that number.                              *)
HistoriesMatchTrace == Matches(active_hist, trace)
=============================================================================
