---------------------------- MODULE TraceReader ----------------------------
(***************************************************************************)
(* TraceReader (lib/trace_reader.h): readInstr() takes an instruction from *)
(* the trace, and each call of populateNewInstr() makes one piece (uop) of *)
(* it: one per output register, per 64-bit lane of a SIMD register, per    *)
(* value that is stored, and one more for a base register that is updated. *)
(*                                                                         *)
(* A register is a number; those from VecOffset to 63 are SIMD.  The value *)
(* of an output is a pair <<register, lane>> that tells where it belongs;  *)
(* the only value that matters is whether an upper half (lane 1) is zero.  *)
(***************************************************************************)
EXTENDS Integers, Sequences, FiniteSets, SequencesExt, FiniteSetsExt

CONSTANTS
  Instrs,   \* the instructions that a trace may hold
  None

VecOffset == 32
ccOffset == 64
ZeroOffset == 65
reg_is_int(r) == r < VecOffset \/ r = ccOffset \/ r = ZeroOffset
Registers == 0 .. ZeroOffset
Lane == Registers \X {0, 1}
ASSUME NoneAssumption == None \notin Registers /\ None \notin Lane

(* An instruction as the trace encodes it; wide holds the SIMD outputs      *)
(* whose upper half is not zero.  An instruction writes a register once.    *)
(* All classes that do not access memory are cracked alike: "alu" stands    *)
(* for them.                                                                *)
IsInstr(i) ==
  /\ i.type \in {"alu", "load", "store"}
  /\ i.baseUpd \in BOOLEAN /\ i.hasRegOffset \in BOOLEAN /\ i.memSize \in Nat
  /\ i.inRegs \in Seq(Registers) /\ i.outRegs \in Seq(Registers)
  /\ IsInjective(i.outRegs)
  /\ i.wide \subseteq {r \in ToSet(i.outRegs) : ~reg_is_int(r)}
ASSUME InstrAssumption == \A i \in Instrs : IsInstr(i)

VARIABLES
  mInstr,             \* the instruction, outputs and values as reordered
  mBaseUpdReg,
  mTotalPieces, mMemPieces, mProcessedPieces, mSizeFactor,
  mCrackRegIdx, mCrackValIdx, start_fp_reg,
  pieces,             \* ghost: the pieces made of mInstr
  aborted             \* an assertion, or a bounds check of at(), has failed

bookkeeping == <<mTotalPieces, mMemPieces, mSizeFactor>>
cracking == <<mProcessedPieces, mCrackRegIdx, mCrackValIdx, start_fp_reg>>
vars == <<mInstr, mBaseUpdReg, bookkeeping, cracking, pieces, aborted>>

AsNat(b) == IF b THEN 1 ELSE 0
Larger(a, b) == IF a > b THEN a ELSE b
NoInstr == [type |-> "undef", baseUpd |-> FALSE, hasRegOffset |-> FALSE,
            memSize |-> 0, inRegs |-> <<>>, outRegs |-> <<>>, wide |-> {},
            values |-> <<>>]

Init ==
  /\ mInstr = NoInstr /\ mBaseUpdReg = None
  /\ mTotalPieces = 0 /\ mMemPieces = 0 /\ mSizeFactor = 0
  /\ mProcessedPieces = 0 /\ mCrackRegIdx = 0 /\ mCrackValIdx = 0
  /\ start_fp_reg = 0 /\ pieces = <<>> /\ aborted = FALSE

IsMem(i) == i.type \in {"load", "store"}

-----------------------------------------------------------------------------
(* readInstr().                                                             *)

(* capture_base_update_log_reg(): the register whose update is a piece of   *)
(* its own.  That of a load is the one integer register that it both reads  *)
(* and writes.                                                              *)
Overlap(i) == {r \in ToSet(i.inRegs) \cap ToSet(i.outRegs) : r < VecOffset}
BaseUpdReg(i) ==
  CASE i.type = "store" /\ Len(i.outRegs) = 1 -> i.outRegs[1]
    [] i.type = "load" /\ Len(i.outRegs) > 1 /\ i.baseUpd /\ Overlap(i) # {} ->
         CHOOSE r \in Overlap(i) : TRUE
    [] OTHER -> None
CaptureAsserts(i) ==
  /\ i.type = "store" => Len(i.outRegs) = AsNat(i.baseUpd)
  /\ i.type = "load" => /\ Len(i.outRegs) > 0
                        /\ Len(i.outRegs) > 1 =>
                             /\ Cardinality(Overlap(i)) <= 1
                             /\ i.baseUpd => Overlap(i) # {}

(* The values of an output register, and the outputs in the order in which  *)
(* they are cracked: an updated base register goes last.                    *)
Lanes(r) == IF reg_is_int(r) THEN <<<<r, 0>>>> ELSE <<<<r, 0>>, <<r, 1>>>>
BasePosition(i) == CHOOSE k \in DOMAIN i.outRegs : i.outRegs[k] = BaseUpdReg(i)
Outputs(i) == IF BaseUpdReg(i) = None THEN i.outRegs
              ELSE Append(RemoveAt(i.outRegs, BasePosition(i)), BaseUpdReg(i))
ValuesUpTo(regs) ==
  LET upTo[k \in 0 .. Len(regs)] ==
        IF k = 0 THEN <<>> ELSE upTo[k - 1] \o Lanes(regs[k])
  IN  upTo
Values(regs) == ValuesUpTo(regs)[Len(regs)]

TotalNarrow(i) == Larger(1, Len(i.outRegs))
TotalUnlessStore(i) == Larger(1, Len(i.outRegs)) + Cardinality(i.wide)

StoreValueRegs(i) == Len(i.inRegs) - (1 + AsNat(i.hasRegOffset))
HasBaseUpd(i) == BaseUpdReg(i) # None
MemPieces(i) ==
  CASE i.type = "store" -> Larger(1, StoreValueRegs(i))
    [] i.type = "load" -> TotalUnlessStore(i) - AsNat(HasBaseUpd(i))
    [] OTHER -> 0
TotalPieces(i) == IF i.type = "store" THEN MemPieces(i) + AsNat(HasBaseUpd(i))
                  ELSE TotalUnlessStore(i)
SizeFactor(i) == i.memSize \div (IF IsMem(i) THEN MemPieces(i) ELSE TotalPieces(i))

ReadAsserts(i) ==
  /\ CaptureAsserts(i)
  /\ i.type = "store" => i.memSize % MemPieces(i) = 0
  /\ i.type = "store" => \A r \in ToSet(i.outRegs) : reg_is_int(r)
  /\ i.type # "store" => Len(i.inRegs) <= 3
  /\ ~IsMem(i) => SizeFactor(i) = 0
  /\ HasBaseUpd(i) => MemPieces(i) >= 1 /\ TotalPieces(i) = MemPieces(i) + 1

(* An instruction of the trace's format: what readInstr() asserts, and a    *)
(* store has an address register and stores something.                      *)
WellFormed(i) ==
  /\ ReadAsserts(i)
  /\ i.type = "store" => Len(i.inRegs) >= 1 + AsNat(i.hasRegOffset) /\ i.memSize > 0

(* The instruction as readInstr() leaves it for cracking.                   *)
Reordered(i) ==
  [type |-> i.type, baseUpd |-> i.baseUpd, hasRegOffset |-> i.hasRegOffset,
   memSize |-> i.memSize, inRegs |-> i.inRegs, outRegs |-> Outputs(i),
   wide |-> i.wide, values |-> Values(Outputs(i))]

(* Every instruction starts to be cracked from its first lane.              *)
Start == 0

ReadInstr ==
  /\ ~aborted /\ mProcessedPieces = mTotalPieces
  /\ \E i \in Instrs :
       IF ReadAsserts(i)
       THEN /\ mInstr' = Reordered(i)
            /\ mBaseUpdReg' = BaseUpdReg(i)
            /\ mTotalPieces' = TotalPieces(i) /\ mMemPieces' = MemPieces(i)
            /\ mSizeFactor' = SizeFactor(i)
            /\ mProcessedPieces' = 0 /\ mCrackRegIdx' = 0 /\ mCrackValIdx' = 0
            /\ start_fp_reg' = Start
            /\ pieces' = <<>> /\ UNCHANGED aborted
       ELSE /\ aborted' = TRUE
            /\ UNCHANGED <<mInstr, mBaseUpdReg, bookkeeping, cracking, pieces>>

-----------------------------------------------------------------------------
(* populateNewInstr().  Indices count from 0, as in the code.               *)

CreateBaseUpdateOp ==
  /\ IsMem(mInstr) /\ mProcessedPieces >= 1
  /\ mProcessedPieces = mMemPieces /\ mMemPieces = mTotalPieces - 1

InReg(k) == IF k < Len(mInstr.inRegs) THEN mInstr.inRegs[k + 1] ELSE None
StrValueNoOffset == 1 + mProcessedPieces
StrValue == 1 + AsNat(mInstr.hasRegOffset) + mProcessedPieces

(* Sources A, B and C.                                                      *)
PieceSources ==
  CASE CreateBaseUpdateOp -> <<mBaseUpdReg, None, None>>
    [] ~CreateBaseUpdateOp /\ mInstr.type = "store" ->
         IF mInstr.hasRegOffset THEN <<InReg(0), InReg(1), InReg(StrValue)>>
         ELSE <<InReg(0), InReg(StrValue), None>>
    [] OTHER -> <<InReg(0), InReg(1), InReg(2)>>

(* Destination D, when it comes from the outputs.                           *)
TakesOutput ==
  ~CreateBaseUpdateOp /\ mInstr.type # "store" /\ mInstr.outRegs # <<>>
D == CASE CreateBaseUpdateOp -> mBaseUpdReg
       [] TakesOutput -> mInstr.outRegs[mCrackRegIdx + 1]
       [] OTHER -> None
Value == CASE CreateBaseUpdateOp -> Last(mInstr.values)
           [] TakesOutput -> mInstr.values[mCrackValIdx + 1]
           [] OTHER -> None

PieceAsserts ==
  /\ mMemPieces <= mTotalPieces /\ (mMemPieces >= 1 <=> IsMem(mInstr))
  /\ CreateBaseUpdateOp => /\ mBaseUpdReg # None /\ reg_is_int(mBaseUpdReg)
                           /\ mBaseUpdReg = Last(mInstr.outRegs)
  /\ ~CreateBaseUpdateOp /\ mInstr.type = "store" =>
       Len(mInstr.inRegs) >= 1 + AsNat(mInstr.hasRegOffset)
  /\ TakesOutput => /\ mCrackRegIdx < Len(mInstr.outRegs)
                    /\ mCrackValIdx < Len(mInstr.values)

(* A SIMD register takes two lanes before the next register is reached.     *)
NextLane == CASE CreateBaseUpdateOp -> start_fp_reg
              [] TakesOutput /\ ~reg_is_int(D) -> start_fp_reg + 1
              [] OTHER -> 0
InSIMD == /\ mCrackRegIdx < Len(mInstr.outRegs)
          /\ ~reg_is_int(mInstr.outRegs[mCrackRegIdx + 1])
NextRegAlways == mCrackRegIdx + 1
NextReg == IF InSIMD /\ NextLane % 2 # 0 THEN mCrackRegIdx ELSE mCrackRegIdx + 1

Piece == [class |-> IF CreateBaseUpdateOp THEN "alu" ELSE mInstr.type,
          sources |-> PieceSources, D |-> D, value |-> Value,
          addr |-> mProcessedPieces * mSizeFactor,
          size |-> Larger(1, mSizeFactor)]

PopulateNewInstr ==
  /\ ~aborted /\ mProcessedPieces < mTotalPieces
  /\ IF PieceAsserts
     THEN /\ pieces' = Append(pieces, Piece)
          /\ mProcessedPieces' = mProcessedPieces + 1
          /\ start_fp_reg' = NextLane
          /\ mCrackValIdx' = mCrackValIdx + 1
          /\ mCrackRegIdx' = NextReg
          /\ UNCHANGED aborted
     ELSE /\ aborted' = TRUE
          /\ UNCHANGED <<cracking, pieces>>
  /\ UNCHANGED <<mInstr, mBaseUpdReg, bookkeeping>>

Next == ReadInstr \/ PopulateNewInstr

Spec == Init /\ [][Next]_vars

-----------------------------------------------------------------------------
(* Properties.                                                              *)

Cracked == mInstr.type # "undef" /\ mProcessedPieces = mTotalPieces

(* A piece that writes a register writes a value of that register, though   *)
(* registers and values are indexed separately, and no two pieces write the *)
(* same value.                                                              *)
ValuesMatch ==
  /\ \A k \in DOMAIN pieces : pieces[k].D # None =>
       /\ pieces[k].value[1] = pieces[k].D
       /\ \A j \in DOMAIN pieces \ {k} : pieces[j].value # pieces[k].value

(* "One instruction object will be created for each output"                 *)
(* (trace_reader.h:178): once cracked, every register it writes has been    *)
(* written.  It holds unless an output follows a SIMD register whose upper  *)
(* half is zero: that half then takes the output's piece.                   *)
Written == {pieces[k].D : k \in DOMAIN pieces} \ {None}
OutputsWritten ==
  Cracked /\ mInstr.type # "store" => Written = ToSet(mInstr.outRegs)
NarrowBeforeOther ==
  \E j, k \in DOMAIN mInstr.outRegs :
    /\ j < k /\ mInstr.outRegs[k] # mBaseUpdReg
    /\ ~reg_is_int(mInstr.outRegs[j]) /\ mInstr.outRegs[j] \notin mInstr.wide
OutputsWrittenUnlessNarrow == ~NarrowBeforeOther => OutputsWritten

(* The stores of an instruction come first, each with a value register of   *)
(* its own, and cover its access once, in order.                            *)
ValueReg(p) == p.sources[IF mInstr.hasRegOffset THEN 3 ELSE 2]
ValueRegs ==
  SubSeq(mInstr.inRegs, 2 + AsNat(mInstr.hasRegOffset), Len(mInstr.inRegs))
StoresEachValue ==
  Cracked /\ mInstr.type = "store" =>
    \E n \in 1 .. Len(pieces) :
      /\ \A k \in DOMAIN pieces : pieces[k].class = "store" <=> k <= n
      /\ ValueRegs # <<>> => /\ Len(ValueRegs) = n
                            /\ \A k \in 1 .. n : ValueReg(pieces[k]) = ValueRegs[k]
      /\ pieces[1].addr = 0
      /\ \A k \in 1 .. n : pieces[k].addr + pieces[k].size =
                            IF k = n THEN mInstr.memSize ELSE pieces[k + 1].addr
=============================================================================
