--------------------------- MODULE LoopPredictor ---------------------------
(***************************************************************************)
(* The loop predictor as the simulator uses it: predict() checkpoints the  *)
(* history and spec_update() updates the table at once, with the predicted *)
(* direction; when a branch resolves, in any order, update() predicts it   *)
(* again from the checkpoint but with today's other tables, and if that    *)
(* prediction is wrong goes back to the checkpoint and learns the true     *)
(* direction.                                                              *)
(*                                                                         *)
(* A prediction may be anything: the tagged tables and the statistical     *)
(* corrector decide (see Tage), and misprediction reduction (bp.cc)        *)
(* replaces it.  Nothing is fetched behind a mispredicted branch (see      *)
(* Pipeline).  MaxInFlight bounds the branches that are not resolved.      *)
(***************************************************************************)
EXTENDS LoopTable, Sequences

CONSTANTS MaxInFlight,
          Outcomes      \* [PCs -> SUBSET BOOLEAN]: the directions a branch goes
ASSUME InFlightAssumption ==
  MaxInFlight \in Nat /\ Outcomes \in [PCs -> SUBSET BOOLEAN]

VARIABLES
  ltable, WITHLOOP,  \* of active_hist
  inflight,          \* predicted, unresolved branches with pred_time_histories
  agreed             \* ghost: update() last predicted what predict() had

vars == <<ltable, WITHLOOP, inflight, agreed>>

Branches == [pc : PCs, taken : BOOLEAN, pred : BOOLEAN,
             ltable : Tables, WITHLOOP : Counters]

Init == ltable = EmptyTable /\ WITHLOOP = -1 /\ inflight = <<>> /\ agreed = TRUE

Mispredicted(b) == b.pred # b.taken
Mispredicting ==
  inflight # <<>> /\ Mispredicted(inflight[Len(inflight)])

(* predict() and history_update() of a conditional branch.                  *)
Predict(pc, taken, pred, choice) ==
  LET look == getloop(ltable, pc)
  IN  /\ Len(inflight) < MaxInFlight /\ ~Mispredicting
      /\ inflight' = Append(inflight,
           [pc |-> pc, taken |-> taken, pred |-> pred,
            ltable |-> ltable, WITHLOOP |-> WITHLOOP])
      /\ ltable' = loopupdate(ltable, look, pc, pred, FALSE, choice)
      /\ WITHLOOP' = Trust(WITHLOOP, look, pred, look.predloop = pred)
      /\ agreed' = TRUE

(* update(): `pred` is the second prediction.                               *)
RestoredNot(b) == ltable
Restored(b) == b.ltable
FixHistory(b, pred, choice) ==
  LET look == getloop(b.ltable, b.pc)
  IN  IF pred # b.taken
      THEN /\ ltable' = loopupdate(Restored(b), look, b.pc, b.taken, TRUE, choice)
           /\ WITHLOOP' = Trust(b.WITHLOOP, look, pred, look.predloop = b.taken)
      ELSE UNCHANGED <<ltable, WITHLOOP>>

Without(s, i) == SubSeq(s, 1, i - 1) \o SubSeq(s, i + 1, Len(s))

Resolve(i, pred, choice) ==
  /\ FixHistory(inflight[i], pred, choice)
  /\ inflight' = Without(inflight, i)
  /\ agreed' = (pred = inflight[i].pred)

Next ==
  \E pred \in BOOLEAN, choice \in Choices :
    \/ \E pc \in PCs : \E taken \in Outcomes[pc] : Predict(pc, taken, pred, choice)
    \/ \E i \in DOMAIN inflight : Resolve(i, pred, choice)

Spec == Init /\ [][Next]_vars

-----------------------------------------------------------------------------
(* Properties.                                                              *)

(* The fields of entries keep the widths that class lentry documents (10    *)
(* bits for iterations, 4 for confidence and age), also under rollback.     *)
TypeOK ==
  /\ ltable \in Tables /\ WITHLOOP \in Counters
  /\ inflight \in Seq(Branches) /\ agreed \in BOOLEAN

(* loopupdate() counts a loop's iterations up to the number it has learnt,  *)
(* and does "not predict when the loop count is 1 or 2": an entry has       *)
(* confidence only in three or more.  It holds of the active table and of   *)
(* every checkpoint that may become active.                                 *)
Sensible(t) == \A i \in Indexes :
  /\ t[i].confid > 0 => t[i].NbIter >= 3
  /\ t[i].NbIter > 0 => t[i].CurrentIter <= t[i].NbIter
LoopCountsKnown ==
  /\ Sensible(ltable)
  /\ \A i \in DOMAIN inflight : Sensible(inflight[i].ltable)

(* Speculation is invisible as long as update() predicts what predict()     *)
(* did: taking the checkpoint of a mispredicted branch for the state, every *)
(* step is one of the predictor that updates right away, or none.           *)
Committed == IF Mispredicting
             THEN [ltable |-> inflight[Len(inflight)].ltable,
                   WITHLOOP |-> inflight[Len(inflight)].WITHLOOP]
             ELSE [ltable |-> ltable, WITHLOOP |-> WITHLOOP]
InOrder == INSTANCE LoopInOrder WITH
  ltable <- Committed.ltable, WITHLOOP <- Committed.WITHLOOP
UpdatesInOrder ==
  InOrder!Init /\ [][agreed' => InOrder!Next \/ UNCHANGED InOrder!vars]_vars
=============================================================================
