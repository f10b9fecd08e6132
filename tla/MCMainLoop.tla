----------------------------- MODULE MCMainLoop -----------------------------
(* The shapes of ARM instructions that a trace holds: up to three outputs,  *)
(* integer, SIMD or flags; pairs and base updates of loads and stores.      *)
(* After the first instruction come a branch and a load pair.               *)
EXTENDS MainLoop

Instr(type, upd, off, size, ins, outs, wide) ==
  [type |-> type, baseUpd |-> upd, hasRegOffset |-> off, memSize |-> size,
   inRegs |-> ins, outRegs |-> outs, wide |-> wide]

SIMD(outs) == {r \in ToSet(outs) : ~reg_is_int(r)}

AluOuts == {<<>>, <<3>>, <<3, 64>>, <<3, 4>>, <<33>>, <<33, 34>>, <<33, 64>>,
            <<33, 34, 35>>}
Alus == UNION {{Instr("alu", FALSE, FALSE, 0, ins, outs, wide) :
                  wide \in SUBSET SIMD(outs)} :
                 ins \in {<<>>, <<1>>, <<1, 2>>, <<33, 34, 2>>}, outs \in AluOuts}

(* Loads, through base register 1; those below update it.                   *)
LoadOuts == {<<3>>, <<1>>, <<3, 4>>, <<1, 4>>, <<33>>, <<33, 34>>, <<33, 34, 35>>}
Loads == UNION {{Instr("load", FALSE, FALSE, size, ins, outs, wide) :
                   wide \in SUBSET SIMD(outs)} :
                  size \in {8, 16, 32}, ins \in {<<1>>, <<1, 2>>}, outs \in LoadOuts}
UpdOuts == {<<3, 1>>, <<1, 3>>, <<3, 4, 1>>, <<1, 3, 4>>, <<3, 1, 4>>, <<33, 1>>,
            <<1, 33>>, <<33, 34, 1>>, <<1, 33, 34>>, <<33, 1, 34>>}
UpdLoads == UNION {{Instr("load", TRUE, FALSE, size, <<1>>, outs, wide) :
                      wide \in SUBSET SIMD(outs)} :
                     size \in {8, 16, 32}, outs \in UpdOuts}

(* Stores of no (zeroing), one or two values, with and without offset.      *)
StoreIns(off) == {(IF off THEN <<1, 2>> ELSE <<1>>) \o vals :
                    vals \in {<<>>, <<3>>, <<3, 4>>, <<33>>, <<33, 34>>}}
Stores == UNION {{Instr("store", upd, off, size, ins,
                        IF upd THEN <<1>> ELSE <<>>, {}) : ins \in StoreIns(off)} :
                   upd \in BOOLEAN, off \in BOOLEAN, size \in {8, 16}}

MCInstrs == Alus \cup Loads \cup UpdLoads \cup Stores
ASSUME FormatAssumption == \A i \in MCInstrs : WellFormed(i)
MCLater == {Instr("alu", FALSE, FALSE, 0, <<1>>, <<>>, {}),
            Instr("load", FALSE, FALSE, 16, <<1>>, <<3, 4>>, {})}
=============================================================================
