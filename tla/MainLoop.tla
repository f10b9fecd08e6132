------------------------------ MODULE MainLoop ------------------------------
(***************************************************************************)
(* main() (lib/cbp.cc): the trace reader hands out one uop at a time, the  *)
(* simulator steps it, and the statistics count whole instructions, as the *)
(* reader marks their last piece.  At the end of the trace, output() ends  *)
(* the last epoch and reports.                                             *)
(*                                                                         *)
(* MaxInstrs bounds the instructions of a trace; LaterInstrs are those that*)
(* may follow the first, whose only purpose is to make epochs.             *)
(***************************************************************************)
EXTENDS TraceReader, Epochs

CONSTANTS LaterInstrs, MaxInstrs

ASSUME LoopAssumption == LaterInstrs \subseteq Instrs /\ MaxInstrs \in Nat

MainInit == Init /\ EpochInit

(* readInstr(), at the beginning of get_inst().                             *)
Read ==
  /\ ~finished /\ num_inst < MaxInstrs
  /\ ReadInstr
  /\ num_inst > 0 => \E i \in LaterInstrs : mInstr' = Reordered(i)
  /\ UNCHANGED EpochVars

(* get_inst() sets is_last_piece, and step() simulates the piece.           *)
IsLastPiece == mProcessedPieces' = mTotalPieces
MayBranch == mInstr.type = "alu" /\ mTotalPieces = 1 /\ mInstr.outRegs = <<>>

StepPiece ==
  /\ PopulateNewInstr
  /\ IF aborted' THEN UNCHANGED EpochVars
     ELSE \E cond \in {FALSE, MayBranch}, misp \in BOOLEAN, delay \in Delays,
             latency, wait \in Latencies, bundle \in Bundles :
            EpochStep(IsLastPiece, cond, misp, delay, latency, bundle, wait)

Finish ==
  /\ ~aborted /\ mProcessedPieces = mTotalPieces /\ num_inst > 0
  /\ EpochOutput
  /\ UNCHANGED vars

Stopped == (finished \/ aborted \/ epoch_aborted) /\ UNCHANGED <<vars, EpochVars>>

MainNext == Read \/ StepPiece \/ Finish \/ Stopped

MainSpec == MainInit /\ [][MainNext]_<<vars, EpochVars>>

-----------------------------------------------------------------------------
(* Reading and cracking an instruction of the trace's format fails none of  *)
(* the reader's many assertions, no index is out of bounds, and no epoch    *)
(* ends in the cycle of the one before (asserted in                         *)
(* end_current_begin_new_epoch).                                            *)
NeverAborts == ~aborted /\ ~epoch_aborted
=============================================================================
