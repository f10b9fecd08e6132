----------------------------- MODULE LoopTable -----------------------------
(***************************************************************************)
(* The loop predictor's table (class lentry, getloop, loopupdate of        *)
(* cbp2016_tage_sc_l.h): operators on a table, without state.              *)
(*                                                                         *)
(* Where a branch looks (lindex and the skewing by LIB) and its tag are    *)
(* constants.  MYRANDOM is a choice: `chance` decides whether an entry's   *)
(* age is raised (predloop and tage_pred differ, or one time in eight) or, *)
(* for a branch without entry, whether one is tried to allocate, in `way`. *)
(***************************************************************************)
EXTENDS Integers

CONSTANTS PCs, Ways, Indexes, Tags,
          Index,        \* [PCs -> [Ways -> Indexes]]: the entry of each way
          LTAG,         \* [PCs -> Tags]
          EmptyTag,     \* the tag of a new table's entries
          WIDTHNBITERLOOP_MASK,  \* iterations are counted modulo this + 1
          CONFLOOP,     \* highest confidence and age
          MinProduct,   \* 128 in the code: confid * NbIter from which to predict
          FreshAge,     \* 7 in the code
          WITHLOOP_MAX  \* 2^6 - 1 in the code: WITHLOOP has 7 bits

ASSUME LoopAssumption ==
  /\ Ways \subseteq 0 .. 3
  /\ Index \in [PCs -> [Ways -> Indexes]] /\ LTAG \in [PCs -> Tags]
  /\ EmptyTag \in Tags
  /\ {WIDTHNBITERLOOP_MASK, CONFLOOP, MinProduct, FreshAge, WITHLOOP_MAX}
       \subseteq Nat
  /\ FreshAge <= CONFLOOP /\ 0 < CONFLOOP

Entries == [NbIter : 0 .. WIDTHNBITERLOOP_MASK, confid : 0 .. CONFLOOP,
            CurrentIter : 0 .. WIDTHNBITERLOOP_MASK, TAG : Tags,
            age : 0 .. CONFLOOP, dir : BOOLEAN]
Tables == [Indexes -> Entries]
EmptyTable == [i \in Indexes |->
  [NbIter |-> 0, confid |-> 0, CurrentIter |-> 0, TAG |-> EmptyTag, age |-> 0,
   dir |-> FALSE]]

Counters == -(WITHLOOP_MAX + 1) .. WITHLOOP_MAX
Choices == [chance : BOOLEAN, way : Ways]

ctrupdate(ctr, up) ==
  IF up THEN (IF ctr < WITHLOOP_MAX THEN ctr + 1 ELSE ctr)
  ELSE (IF ctr > -(WITHLOOP_MAX + 1) THEN ctr - 1 ELSE ctr)

(* getloop(): the first way with the branch's tag predicts the other        *)
(* direction in the iteration that ended the loop before.                   *)
NoWay == -1
Holding(t, pc) == {w \in Ways : t[Index[pc][w]].TAG = LTAG[pc]}
Valid(e) == e.confid = CONFLOOP \/ e.confid * e.NbIter > MinProduct
Direction(e) == IF e.CurrentIter + 1 = e.NbIter THEN ~e.dir ELSE e.dir
getloop(t, pc) ==
  IF Holding(t, pc) = {}
  THEN [LHIT |-> NoWay, LVALID |-> FALSE, predloop |-> FALSE]
  ELSE LET w == CHOOSE w \in Holding(t, pc) : \A v \in Holding(t, pc) : w <= v
           e == t[Index[pc][w]]
       IN  [LHIT |-> w, LVALID |-> Valid(e), predloop |-> Direction(e)]

(* loopupdate(), an entry that hits: a wrong prediction frees it; else the  *)
(* iteration is counted, and at the end of the loop the number is compared  *)
(* with the last time's.                                                    *)
Freed(e) == [e EXCEPT !.NbIter = 0, !.age = 0, !.confid = 0, !.CurrentIter = 0]
AgedUnbounded(e, raised) == [e EXCEPT !.age = IF raised THEN @ + 1 ELSE @]
Aged(e, raised) ==
  [e EXCEPT !.age = IF raised /\ @ < CONFLOOP THEN @ + 1 ELSE @]
Counted(e) ==
  LET n == (e.CurrentIter + 1) % (WIDTHNBITERLOOP_MASK + 1)
  IN  IF n > e.NbIter
      THEN [e EXCEPT !.CurrentIter = n, !.confid = 0, !.NbIter = 0]
      ELSE [e EXCEPT !.CurrentIter = n]

EndedAnyCount(e, Taken) ==
  IF e.CurrentIter = e.NbIter
  THEN [e EXCEPT !.confid = IF @ < CONFLOOP THEN @ + 1 ELSE @, !.CurrentIter = 0]
  ELSE [e EXCEPT !.NbIter = IF @ = 0 THEN e.CurrentIter ELSE 0, !.confid = 0,
                 !.CurrentIter = 0]
Ended(e, Taken) ==
  IF e.CurrentIter = e.NbIter
  THEN IF e.NbIter < 3
       THEN [Freed(e) EXCEPT !.dir = Taken]
       ELSE [e EXCEPT !.confid = IF @ < CONFLOOP THEN @ + 1 ELSE @, !.CurrentIter = 0]
  ELSE [e EXCEPT !.NbIter = IF @ = 0 THEN e.CurrentIter ELSE 0, !.confid = 0,
                 !.CurrentIter = 0]

Learnt(e, look, Taken, raised) ==
  LET c == Counted(Aged(e, look.LVALID /\ raised))
  IN  IF look.LVALID /\ Taken # look.predloop THEN Freed(e)
      ELSE IF Taken # c.dir THEN Ended(c, Taken) ELSE c

(* loopupdate(), no entry hits: the one way that is looked at is taken if   *)
(* its age is 0, and else made younger.                                     *)
Replaced(e, pc, Taken) ==
  IF e.age = 0
  THEN [NbIter |-> 0, confid |-> 0, CurrentIter |-> 0, TAG |-> LTAG[pc],
        age |-> FreshAge, dir |-> ~Taken]
  ELSE [e EXCEPT !.age = @ - 1]

loopupdate(t, look, pc, Taken, ALLOC, choice) ==
  IF look.LHIT # NoWay
  THEN [t EXCEPT ![Index[pc][look.LHIT]] = Learnt(@, look, Taken, choice.chance)]
  ELSE IF ALLOC /\ choice.chance
       THEN [t EXCEPT ![Index[pc][choice.way]] = Replaced(@, pc, Taken)]
       ELSE t

(* WITHLOOP counts whether the loop prediction was right when the           *)
(* prediction that was used was another.                                    *)
Trust(counter, look, pred, right) ==
  IF look.LVALID /\ pred # look.predloop THEN ctrupdate(counter, right) ELSE counter
=============================================================================
