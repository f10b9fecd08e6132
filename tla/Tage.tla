-------------------------------- MODULE Tage --------------------------------
(***************************************************************************)
(* The tagged tables of cbp2016_tage_sc_l.h: the lookup (Tagepred) and the *)
(* update of a resolved branch, which looks up again with the histories of *)
(* its prediction, allocates entries in tables of longer history, ages the *)
(* usefulness counters and trains the entry that predicted.                *)
(*                                                                         *)
(* The tables below BORN share NBANKLOW banks, the others NBANKHIGH: bank  *)
(* T serves the first table that is used, bank T+1 the next one.  T and    *)
(* the tags are hashes, here inputs; every bank has one row, rows being    *)
(* independent but for TICK.  The final prediction and MYRANDOM are inputs *)
(* too: after a wrong TAGE prediction the branch may allocate or not.      *)
(* MaxUpdates bounds the number of branches.                               *)
(***************************************************************************)
EXTENDS Integers, FiniteSets, FiniteSetsExt

CONSTANTS NHIST, BORN, NBANKLOW, NBANKHIGH,
          NOSKIP,       \* the tables in use, a subset of 1 .. NHIST
          Tags,         \* 0 is the tag of new entries
          BORNTICK,     \* 1024 in the code
          U_incrment, ALTMAX, MaxUpdates

Low(i) == i < BORN
Alike(i) == {j \in NOSKIP : Low(j) = Low(i)}   \* those that share banks with i
Tables == 1 .. NHIST

(* There are banks enough for the tables in use (six of 10, 15 of 20).       *)
ASSUME TageAssumption ==
  /\ {NHIST, BORN, NBANKLOW, NBANKHIGH, U_incrment, ALTMAX, MaxUpdates} \subseteq Nat
  /\ BORNTICK \in Nat \ {0}
  /\ NHIST % 2 = 0 /\ BORN \in 2 .. NHIST /\ NOSKIP \subseteq Tables
  /\ NBANKLOW > 0 /\ NBANKHIGH > 0 /\ 0 \in Tags
  /\ \A i \in NOSKIP :
       Cardinality(Alike(i)) <= IF Low(i) THEN NBANKLOW ELSE NBANKHIGH

NNN == 1
CTRMAX == 3     \* 2^(CWIDTH - 1) - 1
UMAX == 1       \* 2^UWIDTH - 1
Banks == ({"low"} \X (0 .. NBANKLOW - 1)) \cup ({"high"} \X (0 .. NBANKHIGH - 1))

VARIABLES
  gtable,   \* bank -> [ctr, tag, u]
  BIM,      \* the bimodal counter, pred and hyst
  use_alt_on_na, TICK,
  updates,  \* number of updates so far
  last      \* ghost: what the last update did

TageVars == <<gtable, BIM, use_alt_on_na, TICK, updates, last>>

ctrupdate(ctr, taken, max) ==
  IF taken THEN (IF ctr < max THEN ctr + 1 ELSE ctr)
  ELSE (IF ctr > -(max + 1) THEN ctr - 1 ELSE ctr)

(* |2 * ctr + 1|: 1 is weak, 7 is strong.                                    *)
Confidence(e) == IF e.ctr >= 0 THEN 2 * e.ctr + 1 ELSE -(2 * e.ctr + 1)

(* baseupdate()                                                             *)
BaseUpdate(taken) == IF taken THEN (IF BIM < 3 THEN BIM + 1 ELSE BIM)
                     ELSE (IF BIM > 0 THEN BIM - 1 ELSE BIM)

(* Tagepred(): the bank that each table in use is found in.                 *)
BankOfAlways(i, T) ==
  IF Low(i) THEN <<"low", (T.low + i) % NBANKLOW>>
  ELSE <<"high", (T.high + i) % NBANKHIGH>>
BankOf(i, T) ==
  LET rank == Cardinality({j \in Alike(i) : j < i})
  IN  IF Low(i) THEN <<"low", (T.low + rank) % NBANKLOW>>
      ELSE <<"high", (T.high + rank) % NBANKHIGH>>

Pair(i) == (i + 1) \div 2     \* GTAG[i + 1] = GTAG[i] for odd i

(* Tagepred(): the longest match, the next one, and what they predict.      *)
Longest(matches) == IF matches = {} THEN 0 ELSE Max(matches)
Tagepred(T, GTAG) ==
  LET bank == [i \in NOSKIP |-> BankOf(i, T)]
      matches == {i \in NOSKIP : gtable[bank[i]].tag = GTAG[Pair(i)]}
      HitBank == Longest(matches)
      AltBank == Longest({i \in matches : i < HitBank})
      Predicts(i) == IF i = 0 THEN BIM >= 2 ELSE gtable[bank[i]].ctr >= 0
      AltConf == IF AltBank = 0 THEN BIM \in {0, 3}
                 ELSE Confidence(gtable[bank[AltBank]]) > 1
      useAlt == <<(HitBank - 1) \div 8, AltConf>>     \* INDUSEALT
      LongestMatchPred == Predicts(HitBank)
      alttaken == IF HitBank = 0 THEN LongestMatchPred ELSE Predicts(AltBank)
  IN  [bank |-> bank, GTAG |-> GTAG, HitBank |-> HitBank, AltBank |-> AltBank,
       LongestMatchPred |-> LongestMatchPred, alttaken |-> alttaken,
       INDUSEALT |-> useAlt,
       tage_pred |->
         IF HitBank = 0 \/ use_alt_on_na[useAlt] < 0
              \/ Confidence(gtable[bank[HitBank]]) > 1
         THEN LongestMatchPred ELSE alttaken]

-----------------------------------------------------------------------------
(* Allocation.                                                              *)

NewlyAllocated(look) ==      \* PseudoNewAlloc
  look.HitBank > 0 /\ Confidence(gtable[look.bank[look.HitBank]]) <= 1

(* ALLOC, but for the chance taken when the final prediction is right.      *)
ALLOC(look, resolveDir) ==
  /\ look.tage_pred # resolveDir /\ look.HitBank < NHIST
  /\ ~(NewlyAllocated(look) /\ look.LongestMatchPred = resolveDir)

(* The state of the loop: the tables' content, the entries taken (NA), the  *)
(* extra ones still wanted (T), whether the next two tables are passed over *)
(* and whether the loop was left.                                           *)
Start == [g |-> gtable, taken |-> {}, T |-> NNN, Penalty |-> 0,
          skip |-> FALSE, done |-> FALSE]

Weakened(ctr) == IF ctr > 0 THEN ctr - 1 ELSE ctr + 1
AllocatesAny(st, b) == Confidence(st.g[b]) <= 3
Allocates(st, b) == st.g[b].u = 0 /\ Confidence(st.g[b]) <= 3

Examine(st, i, look, resolveDir) ==
  LET b == look.bank[i]
  IN  IF i \notin NOSKIP THEN st
      ELSE IF Allocates(st, b)
      THEN [st EXCEPT
              !.g[b] = [@ EXCEPT !.tag = look.GTAG[Pair(i)],
                                 !.ctr = IF resolveDir THEN 0 ELSE -1],
              !.taken = @ \cup {i}, !.T = @ - 1,
              !.done = st.T <= 0, !.skip = st.T > 0]
      ELSE IF st.g[b].u = 0
      THEN [st EXCEPT !.g[b].ctr = Weakened(@)]
      ELSE [st EXCEPT !.Penalty = @ + 1]

(* One iteration: table I + 1 and, unless it was taken, its neighbour.      *)
Iterate(st, I, look, resolveDir) ==
  LET first == Examine(st, I + 1, look, resolveDir)
      other == IF I % 2 = 0 THEN I + 2 ELSE I      \* (I ^ 1) + 1
  IN  IF st.done THEN st
      ELSE IF st.skip THEN [st EXCEPT !.skip = FALSE]
      ELSE IF first.taken # st.taken THEN first
      ELSE Examine(first, other, look, resolveDir)

DEP(look, A, bit) == ((look.HitBank - 1 + 2 * A) \div 2) * 2 + bit
Rounds(dep) == IF dep < NHIST THEN (NHIST + 1 - dep) \div 2 ELSE 0

(* The loop from dep in steps of 2: its states after each round.            *)
AfterRounds(look, resolveDir, dep) ==
  LET after[n \in 0 .. Rounds(dep)] ==
        IF n = 0 THEN Start
        ELSE Iterate(after[n - 1], dep + 2 * (n - 1), look, resolveDir)
  IN  after

Allocate(look, resolveDir, A, bit) ==
  LET dep == DEP(look, A, bit)
  IN  AfterRounds(look, resolveDir, dep)[Rounds(dep)]

(* TICK counts vain attempts; when it is full all entries lose usefulness.  *)
TickAfterNeverUp(alloc) ==
  LET n == TICK - 2 * Cardinality(alloc.taken) IN IF n < 0 THEN 0 ELSE n
TickAfter(alloc) ==
  LET n == TICK + alloc.Penalty - 2 * Cardinality(alloc.taken)
  IN  IF n < 0 THEN 0 ELSE n
Halved(g) == [b \in Banks |-> [g[b] EXCEPT !.u = @ \div 2]]

-----------------------------------------------------------------------------
(* Training.  Trained(g, ...) is the table after the counters of the        *)
(* longest match and, while that one is weak and wrong, of the alternate    *)
(* match have learnt the direction; an entry whose counter changes its sign *)
(* is not useful.                                                           *)
WeakAndWrong(g, look, resolveDir) ==
  Confidence(g[look.bank[look.HitBank]]) = 1 /\ look.LongestMatchPred # resolveDir

Trained(g, look, resolveDir) ==
  LET hit == look.bank[look.HitBank]
      alt == look.bank[look.AltBank]
      protected == IF look.AltBank > 0 /\ WeakAndWrong(g, look, resolveDir)
                   THEN [g EXCEPT ![alt].ctr = ctrupdate(@, resolveDir, CTRMAX)]
                   ELSE g
      learnt == [protected EXCEPT ![hit].ctr = ctrupdate(@, resolveDir, CTRMAX)]
      superfluous == /\ look.AltBank > 0 /\ look.alttaken = resolveDir
                     /\ look.LongestMatchPred = resolveDir
                     /\ Confidence(learnt[alt]) = 7 /\ learnt[hit].u = 1
  IN  IF Confidence(learnt[hit]) = 1 \/ superfluous
      THEN [learnt EXCEPT ![hit].u = 0] ELSE learnt

TrainsBase(g, look, resolveDir) ==
  look.HitBank = 0 \/ (look.AltBank = 0 /\ WeakAndWrong(g, look, resolveDir))

(* The entry that was right where the alternate one was wrong is useful; a  *)
(* branch that depends on a load makes it more so: more is 0 or U_incrment. *)
Useful(look, resolveDir) ==
  look.LongestMatchPred # look.alttaken /\ look.LongestMatchPred = resolveDir

MarkedUnlimited(g, look, resolveDir, more) ==
  IF Useful(look, resolveDir)
  THEN [g EXCEPT ![look.bank[look.HitBank]].u = @ + 1 + more] ELSE g
Marked(g, look, resolveDir, more) ==
  IF Useful(look, resolveDir) /\ g[look.bank[look.HitBank]].u < UMAX
  THEN [g EXCEPT ![look.bank[look.HitBank]].u = @ + 1 + more] ELSE g

-----------------------------------------------------------------------------
Report(look, tried, taken, resolveDir) ==
  [HitBank |-> look.HitBank, bank |-> look.bank, tried |-> tried, taken |-> taken,
   resolveDir |-> resolveDir]

TageInit ==
  /\ gtable = [b \in Banks |-> [ctr |-> 0, tag |-> 0, u |-> 0]]
  /\ BIM = 1 /\ TICK = 0
  /\ use_alt_on_na = [k \in (0 .. NHIST \div 8) \X BOOLEAN |-> 0]
  /\ updates = 0
  /\ last = Report([HitBank |-> 0, bank |-> [i \in NOSKIP |-> <<"low", 0>>]], {}, {}, FALSE)

(* The end of an update: g is the table after allocation.                   *)
Train(look, g, resolveDir, more) ==
  LET trained == IF look.HitBank > 0 THEN Trained(g, look, resolveDir) ELSE g
  IN  /\ gtable' = Marked(trained, look, resolveDir, more)
      /\ BIM' = IF TrainsBase(g, look, resolveDir) THEN BaseUpdate(resolveDir) ELSE BIM
      /\ use_alt_on_na' =
           IF NewlyAllocated(look) /\ look.LongestMatchPred # look.alttaken
           THEN [use_alt_on_na EXCEPT ![look.INDUSEALT] =
                   ctrupdate(@, look.alttaken = resolveDir, ALTMAX)]
           ELSE use_alt_on_na
      /\ updates' = updates + 1

(* update() of a branch that does not allocate.                             *)
UpdateOnly(look, resolveDir, more) ==
  /\ Train(look, gtable, resolveDir, more)
  /\ last' = Report(look, {}, {}, resolveDir)
  /\ UNCHANGED TICK

(* update() of one that does, with the choices A and bit of MYRANDOM.       *)
UpdateAndAllocate(look, resolveDir, more, A, bit) ==
  LET alloc == Allocate(look, resolveDir, A, bit)
      full == TickAfter(alloc) >= BORNTICK
  IN  /\ ALLOC(look, resolveDir)
      /\ Train(look, IF full THEN Halved(alloc.g) ELSE alloc.g, resolveDir, more)
      /\ TICK' = IF full THEN 0 ELSE TickAfter(alloc)
      /\ last' = Report(look, {i \in NOSKIP : i > DEP(look, A, 0)}, alloc.taken, resolveDir)

TageNext ==
  /\ updates < MaxUpdates
  /\ \E T \in [low : 0 .. NBANKLOW - 1, high : 0 .. NBANKHIGH - 1],
        GTAG \in [1 .. NHIST \div 2 -> Tags], resolveDir \in BOOLEAN :
       LET look == Tagepred(T, GTAG)
       IN  \E more \in IF Useful(look, resolveDir) THEN {0, U_incrment} ELSE {0} :
             \/ UpdateOnly(look, resolveDir, more)
             \/ \E A \in {1, 2}, bit \in {0, 1} :
                  UpdateAndAllocate(look, resolveDir, more, A, bit)

TageSpec == TageInit /\ [][TageNext]_TageVars

-----------------------------------------------------------------------------
(* Properties.                                                              *)

(* Counters stay in their ranges.  The usefulness does not stay in its      *)
(* UWIDTH = 1 bit: it is tested against 2^UWIDTH - 1 before U_incrment is   *)
(* added.                                                                   *)
TypeOK ==
  /\ gtable \in [Banks -> [ctr : -(CTRMAX + 1) .. CTRMAX, tag : Tags,
                           u : 0 .. UMAX + U_incrment]]
  /\ BIM \in 0 .. 3 /\ TICK \in Nat /\ TICK < BORNTICK
  /\ \A k \in DOMAIN use_alt_on_na : use_alt_on_na[k] \in -(ALTMAX + 1) .. ALTMAX
  /\ updates \in 0 .. MaxUpdates

(* The entry that gave the longest match learns the branch's direction by   *)
(* one step, and is neither replaced nor decayed by the allocation of the   *)
(* same update: the interleaving of banks gives each table in use a bank of *)
(* its own.                                                                 *)
HitLearns ==
  [][ last'.HitBank > 0 =>
        LET hit == last'.bank[last'.HitBank]
        IN  /\ gtable'[hit].tag = gtable[hit].tag
            /\ gtable'[hit].ctr = ctrupdate(gtable[hit].ctr, last'.resolveDir, CTRMAX)
    ]_TageVars

(* An update takes at most 1 + NNN entries, in tables of longer history     *)
(* than the match and not in neighbouring pairs of tables; it takes none    *)
(* that was useful or sure, and no other entry changes its tag.             *)
AllocatesApart ==
  [][ /\ Cardinality(last'.taken) <= NNN + 1
      /\ \A i \in last'.taken :
           /\ i > last'.HitBank
           /\ gtable[last'.bank[i]].u = 0 /\ Confidence(gtable[last'.bank[i]]) <= 3
           /\ \A j \in last'.taken \ {i} : Pair(i) - Pair(j) \notin {-1, 0, 1}
      /\ \A b \in Banks :
           gtable'[b].tag # gtable[b].tag => \E i \in last'.taken : last'.bank[i] = b
    ]_TageVars

(* No starvation: an attempt to allocate that has tables to look at takes   *)
(* an entry, or makes one that is not useful less sure, or brings the       *)
(* moment nearer when all entries lose their usefulness.                    *)
AllocationProgress ==
  [][ last'.tried # {} =>
        \/ last'.taken # {}
        \/ TICK' > TICK
        \/ TICK' = 0 /\ \E b \in Banks : gtable'[b].u < gtable[b].u
        \/ \E i \in last'.tried :
             /\ gtable[last'.bank[i]].u = 0
             /\ Confidence(gtable'[last'.bank[i]]) < Confidence(gtable[last'.bank[i]])
    ]_TageVars
=============================================================================
