------------------------------ MODULE Corrector ------------------------------
(***************************************************************************)
(* The statistical corrector of cbp2016_tage_sc_l.h: groups of tables of   *)
(* counters, indexed by the pc, by the intermediate prediction and by a    *)
(* history, vote on the intermediate prediction of TAGE and the loop       *)
(* predictor.  Groups are weighted by 1 or 2, a chooser arbitrates when the*)
(* sum is small, and a threshold says when to train.                       *)
(*                                                                         *)
(* An update first repeats the prediction with the histories of its time   *)
(* (LSUM, THRES and what TAGE says are recomputed), so a prediction leaves *)
(* nothing behind that an update would read: updates are the only steps.   *)
(* What TAGE and the loop predictor say are inputs.  A row is the          *)
(* part of the history that its index hashes; rows that share an index are *)
(* left out.  MaxUpdates bounds the number of updates.                     *)
(***************************************************************************)
EXTENDS History

CONSTANTS
  NBR,             \* group -> number of its tables, 0 .. 3
  Lengths,         \* group -> table -> entries of the history in the index
  SLOTS,           \* weights of a group, 2^LOGSIZEUPS
  PERCMAX, EMAX, CONFMAX, THRESMAX, PTHRESMAX,   \* of the counters: 2^(width - 1) - 1
  BIASSK,          \* 8 in the code: (PERCMAX + 1) / 4
  THRES0, WB0, W0, \* 35 << 3, 4 and 7 in the code
  Observed,        \* pcs of the conditional branches whose updates are considered
  Lookups,         \* what TAGE says: [conf, differ, bank, pred_inter]
  MaxUpdates

GroupNames == {"B", "G", "P", "L", "S", "T", "IM", "I"}
CondPcs == {s.pc : s \in {r \in Statics : r.kind = "cond"}}

ASSUME CorrectorAssumption ==
  /\ NBR \in [GroupNames -> 0 .. 3] /\ Lengths \in [GroupNames -> [1 .. 3 -> Nat]]
  /\ {PERCMAX, EMAX, CONFMAX, THRESMAX, PTHRESMAX, BIASSK, MaxUpdates} \subseteq Nat
  /\ SLOTS \in Nat \ {0} /\ BIASSK <= PERCMAX
  /\ THRES0 \in -(THRESMAX + 1) .. THRESMAX
  /\ {WB0, W0} \subseteq -(EMAX + 1) .. EMAX
  /\ Observed # {} /\ Lookups # {}
  /\ Lookups \subseteq [conf : {"low", "medium", "high", "other"}, differ : BOOLEAN,
                        bank : Nat, pred_inter : BOOLEAN]
  /\ Observed \subseteq CondPcs \cap (0 .. 1)    \* the weights' index is exact

VARIABLES
  tab,     \* cell -> counter, a cell being a group, a table and a row
  W,       \* group, slot -> WB, WG, WP, WL, WS, WT, WIM and WI
  updatethreshold, Pupdatethreshold,
  FirstH, SecondH,
  updates, \* number of updates so far
  last     \* ghost: the last update

vars == <<HistoryVars, tab, W, updatethreshold, Pupdatethreshold, FirstH, SecondH, updates, last>>

ctrupdate(ctr, taken, max) ==
  IF taken THEN (IF ctr < max THEN ctr + 1 ELSE ctr)
  ELSE (IF ctr > -(max + 1) THEN ctr - 1 ELSE ctr)

-----------------------------------------------------------------------------
(* A branch, as the corrector sees it: where its counters and weights are.  *)

HistoryOf(g, h, pc) ==
  CASE g = "G" -> h.GHIST
    [] g = "P" -> h.phist
    [] g \in {"L", "T"} -> h.L_shist[pc]
    [] g = "S" -> h.S_slhist[pc]
    [] g = "IM" -> h.IMHIST[h.IMLIcount]
    [] g = "I" -> <<h.IMLIcount>>

(* get_bias_index(), get_biassk_index() and get_biasbank_index().           *)
BiasRow(i, pc, tage) ==
  CASE i = 1 -> <<pc, tage.conf = "low" /\ tage.differ, tage.pred_inter>>
    [] i = 2 -> <<pc, tage.conf = "high", tage.pred_inter>>
    [] i = 3 -> <<pc, tage.conf = "high", tage.pred_inter, tage.conf = "low", tage.bank>>

Truncated(s, n) == IF n < Len(s) THEN SubSeq(s, 1, n) ELSE s

(* GINDEX; the first group of history tables has the prediction in its pc.  *)
RowOf(g, i, pc, h, tage) ==
  IF g = "B" THEN BiasRow(i, pc, tage)
  ELSE IF g = "G" THEN <<pc, tage.pred_inter, Truncated(HistoryOf(g, h, pc), Lengths[g][i])>>
  ELSE <<pc, Truncated(HistoryOf(g, h, pc), Lengths[g][i])>>

(* INDUPDS; PC ^ (PC >> 2) is PC for these.                                 *)
INDUPDS(pc) == pc % SLOTS
SlotOf(g, pc, tage) ==
  IF g = "G" THEN INDUPDS(2 * pc + (IF tage.pred_inter THEN 1 ELSE 0)) ELSE INDUPDS(pc)

Lookup(pc, h, tage) ==
  [pc |-> pc, conf |-> tage.conf, pred_inter |-> tage.pred_inter,
   cell |-> [g \in GroupNames |-> [i \in 1 .. NBR[g] |-> <<g, i, RowOf(g, i, pc, h, tage)>>]],
   slot |-> [g \in GroupNames |-> SlotOf(g, pc, tage)]]

(* Whatever history the branch finds.                                       *)
Looks == {Lookup(pc, h, tage) : pc \in Observed, h \in Histories, tage \in Lookups}

CellsOf(look) == UNION {{look.cell[g][i] : i \in 1 .. NBR[g]} : g \in GroupNames}
Cells == UNION {CellsOf(look) : look \in Looks}

-----------------------------------------------------------------------------
(* Prediction.                                                              *)

(* The sum of a table t of counters and weights w.                          *)
Vote(t, look, g, i) == IF i <= NBR[g] THEN 2 * t[look.cell[g][i]] + 1 ELSE 0
SumOf(t, look, g) == Vote(t, look, g, 1) + Vote(t, look, g, 2) + Vote(t, look, g, 3)
Gpredict(t, w, look, g) ==
  (IF w[<<g, look.slot[g]>>] >= 0 THEN 2 ELSE 1) * SumOf(t, look, g)
Sum(t, w, look) ==
  Gpredict(t, w, look, "B") + Gpredict(t, w, look, "G") + Gpredict(t, w, look, "P")
    + Gpredict(t, w, look, "L") + Gpredict(t, w, look, "S") + Gpredict(t, w, look, "T")
    + Gpredict(t, w, look, "IM") + Gpredict(t, w, look, "I")

PERCSUM(look, g) == SumOf(tab, look, g)
LSUM(look) == Sum(tab, W, look)

(* The groups of doubled weight raise the threshold -- all but IM; that of  *)
(* G is looked up at the bare pc.                                           *)
Doubled(look) == {g \in GroupNames \ {"IM"} :
                    NBR[g] > 0 /\ W[<<g, INDUPDS(look.pc)>>] >= 0}
THRES(look) ==
  (updatethreshold \div 8) + Pupdatethreshold[look.pc] + 12 * Cardinality(Doubled(look))

Abs(n) == IF n < 0 THEN -n ELSE n

(* Where THRES is negative C truncates its quotients and \div does not: no  *)
(* |LSUM| is below either.                                                  *)

(* predict_using_given_hist(), its last part.                               *)
Prediction(look, sum, thres, first, second) ==
  LET SCPRED == sum >= 0
  IN  IF look.pred_inter = SCPRED THEN look.pred_inter
      ELSE IF look.conf = "high" /\ Abs(sum) < thres \div 4 THEN look.pred_inter
      ELSE IF look.conf = "high" /\ Abs(sum) < thres \div 2
      THEN (IF second < 0 THEN SCPRED ELSE look.pred_inter)
      ELSE IF look.conf = "medium" /\ Abs(sum) < thres \div 4
      THEN (IF first < 0 THEN SCPRED ELSE look.pred_inter)
      ELSE SCPRED

-----------------------------------------------------------------------------
(* update().                                                                *)

(* The chooser's counter that decides learns whether TAGE was right.        *)
DecidedFirst(look, sum, thres) ==
  /\ look.pred_inter # (sum >= 0) /\ look.conf = "medium"
  /\ Abs(sum) < thres \div 4
DecidedSecondBelow(look, sum, thres) ==
  /\ look.pred_inter # (sum >= 0) /\ look.conf = "high"
  /\ Abs(sum) < thres /\ Abs(sum) < thres \div 2
DecidedSecond(look, sum, thres) ==
  /\ look.pred_inter # (sum >= 0) /\ look.conf = "high"
  /\ Abs(sum) < thres /\ Abs(sum) < thres \div 2 /\ Abs(sum) >= thres \div 4

(* Tables and weights are trained when the sum was wrong or small.          *)
Trains(sum, thres, resolveDir) == (sum >= 0) # resolveDir \/ Abs(sum) < thres

(* Gupdate(): the sum without the second weight of the group, and whether   *)
(* the group tips it.                                                       *)
XSUM(look, g, sum) == IF W[<<g, look.slot[g]>>] >= 0 THEN sum - PERCSUM(look, g) ELSE sum
Tips(look, g, sum) ==
  (XSUM(look, g, sum) + PERCSUM(look, g) >= 0) # (XSUM(look, g, sum) >= 0)

AgreesWithSum(look, g, sum, resolveDir) == (XSUM(look, g, sum) >= 0) = resolveDir
Agrees(look, g, sum, resolveDir) == (PERCSUM(look, g) >= 0) = resolveDir

LearntWeights(look, sum, resolveDir) ==
  [x \in GroupNames \X (0 .. SLOTS - 1) |->
     IF x[2] = look.slot[x[1]] /\ Tips(look, x[1], sum)
     THEN ctrupdate(W[x], Agrees(look, x[1], sum, resolveDir), EMAX)
     ELSE W[x]]

LearntRight(look, resolveDir) ==
  [c \in Cells |-> IF c \in CellsOf(look)
                   THEN ctrupdate(tab[c], resolveDir = look.pred_inter, PERCMAX)
                   ELSE tab[c]]
Learnt(look, resolveDir) ==
  [c \in Cells |-> IF c \in CellsOf(look) THEN ctrupdate(tab[c], resolveDir, PERCMAX)
                   ELSE tab[c]]

(* The thresholds rise when the sum was wrong, and fall otherwise.          *)
Train(look, sum, resolveDir) ==
  LET wrong == (sum >= 0) # resolveDir
  IN  /\ updatethreshold' = ctrupdate(updatethreshold, wrong, THRESMAX)
      /\ Pupdatethreshold' =
           [Pupdatethreshold EXCEPT ![look.pc] = ctrupdate(@, wrong, PTHRESMAX)]
      /\ W' = LearntWeights(look, sum, resolveDir)
      /\ tab' = Learnt(look, resolveDir)

Update(look, resolveDir) ==
  LET sum == LSUM(look)
      thres == THRES(look)
      right == look.pred_inter = resolveDir
  IN  /\ updates < MaxUpdates /\ updates' = updates + 1
      /\ FirstH' = IF DecidedFirst(look, sum, thres)
                   THEN ctrupdate(FirstH, right, CONFMAX) ELSE FirstH
      /\ SecondH' = IF DecidedSecond(look, sum, thres)
                    THEN ctrupdate(SecondH, right, CONFMAX) ELSE SecondH
      /\ \/ Trains(sum, thres, resolveDir) /\ Train(look, sum, resolveDir)
         \/ /\ ~Trains(sum, thres, resolveDir)
            /\ UNCHANGED <<tab, W, updatethreshold, Pupdatethreshold>>
      /\ last' = [look |-> look, resolveDir |-> resolveDir]

(* init_histories().  A counter of a history table begins at -1 or 0, by the*)
(* parity of its index.                                                     *)
InitialBias(row, i) ==
  LET second == row[2]
      pred_inter == row[3]
  IN  IF i = 2 THEN (IF second THEN (IF pred_inter THEN PERCMAX ELSE -(PERCMAX + 1))
                     ELSE (IF pred_inter THEN BIASSK - 1 ELSE -BIASSK))
      ELSE (IF second THEN (IF pred_inter THEN 0 ELSE -1)
            ELSE (IF pred_inter THEN PERCMAX ELSE -(PERCMAX + 1)))

InitialWeight(g) == IF g = "B" THEN WB0 ELSE IF g = "IM" THEN 0 ELSE W0

Init ==
  /\ \E even \in SUBSET {c \in Cells : c[1] # "B"} :
       tab = [c \in Cells |-> IF c[1] = "B" THEN InitialBias(c[3], c[2])
                              ELSE IF c \in even THEN -1 ELSE 0]
  /\ W = [x \in GroupNames \X (0 .. SLOTS - 1) |-> InitialWeight(x[1])]
  /\ updatethreshold = THRES0
  /\ Pupdatethreshold = [pc \in Observed |-> 0]
  /\ FirstH = 0 /\ SecondH = 0
  /\ updates = 0
  /\ last = [look |-> CHOOSE look \in Looks : TRUE, resolveDir |-> FALSE]
  /\ HistoryInit

(* Histories change with each branch and not with the tables, and an update *)
(* takes any history: that both are explored apart leaves nothing out.      *)
Next ==
  \/ /\ updates = 0 /\ SpecUpdate
     /\ UNCHANGED <<tab, W, updatethreshold, Pupdatethreshold, FirstH, SecondH,
                    updates, last>>
  \/ /\ trace = <<>> /\ UNCHANGED HistoryVars
     /\ \E look \in Looks, resolveDir \in BOOLEAN : Update(look, resolveDir)

Spec == Init /\ [][Next]_vars

-----------------------------------------------------------------------------
(* Properties.                                                              *)

Counters(max) == -(max + 1) .. max

(* Counters keep the widths that the code declares for them.                *)
TypeOK ==
  /\ tab \in [Cells -> Counters(PERCMAX)]
  /\ W \in [GroupNames \X (0 .. SLOTS - 1) -> Counters(EMAX)]
  /\ updatethreshold \in Counters(THRESMAX)
  /\ Pupdatethreshold \in [Observed -> Counters(PTHRESMAX)]
  /\ FirstH \in Counters(CONFMAX) /\ SecondH \in Counters(CONFMAX)
  /\ updates \in 0 .. MaxUpdates
  /\ last \in [look : Looks, resolveDir : BOOLEAN]

(* Training moves the sum towards the branch's direction, although weights  *)
(* change with it: repeated with the same histories, the prediction is never*)
(* further from the direction, and nearer unless it was not trained or all  *)
(* counters are saturated.                                                  *)
Towards(dir, old, new) == IF dir THEN new - old ELSE old - new
Saturated(ctr, dir) == ctr = IF dir THEN PERCMAX ELSE -(PERCMAX + 1)
SumMovesRight ==
  [][ updates' > updates =>
      LET look == last'.look
          dir == last'.resolveDir
          moved == Towards(dir, LSUM(look), Sum(tab', W', look))
      IN  /\ moved >= 0
          /\ Trains(LSUM(look), THRES(look), dir) =>
               \/ moved > 0
               \/ \A c \in CellsOf(look) : Saturated(tab[c], dir)
    ]_vars

(* A weight is trained only if the sum with the group doubled and the sum   *)
(* with it single predict different directions, and towards the one that is *)
(* right.                                                                   *)
Other(look, g) == LSUM(look) - Gpredict(tab, W, look, g)
WeightsLearnRightSide ==
  [][ \A g \in GroupNames :
        LET look == last'.look
            x == <<g, look.slot[g]>>
            single == Other(look, g) + PERCSUM(look, g) >= 0
            double == Other(look, g) + 2 * PERCSUM(look, g) >= 0
        IN  /\ W'[x] > W[x] => double = last'.resolveDir /\ single # last'.resolveDir
            /\ W'[x] < W[x] => single = last'.resolveDir /\ double # last'.resolveDir
    ]_vars

(* predict() and update() repeat the chooser's conditions.  A counter of the*)
(* chooser is trained exactly when its sign decided the prediction, towards *)
(* the prediction that is right.                                            *)
FirstDecides(look, sum, thres) ==
  Prediction(look, sum, thres, -1, SecondH) # Prediction(look, sum, thres, 0, SecondH)
SecondDecides(look, sum, thres) ==
  Prediction(look, sum, thres, FirstH, -1) # Prediction(look, sum, thres, FirstH, 0)
ChooserTrainedWhereUsed ==
  [][ updates' > updates =>
      LET look == last'.look
          sum == LSUM(look)
          thres == THRES(look)
          Trained(ctr) == ctrupdate(ctr, look.pred_inter = last'.resolveDir, CONFMAX)
      IN  /\ FirstH' = IF FirstDecides(look, sum, thres) THEN Trained(FirstH) ELSE FirstH
          /\ SecondH' = IF SecondDecides(look, sum, thres) THEN Trained(SecondH) ELSE SecondH
    ]_vars
=============================================================================
