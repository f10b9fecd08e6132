----------------------------- MODULE MCDataflow -----------------------------
(* Instances of Dataflow.                                                   *)
EXTENDS Dataflow

CONSTANTS r1, r2

NoUop == [class |-> "alu", A |-> None, B |-> None, C |-> None, D |-> None,
          bytes |-> {}]
Alu(a, b, c, d) == [NoUop EXCEPT !.A = a, !.B = b, !.C = c, !.D = d]
LoadTo(d, bytes) == [NoUop EXCEPT !.class = "load", !.A = r1, !.D = d,
                                  !.bytes = bytes]
StoreOf(b, bytes) == [NoUop EXCEPT !.class = "store", !.A = r1, !.B = b,
                                   !.bytes = bytes]
MCRegs == {r1, r2, RFZERO}

(* Sources in each position, each class, and memory uops of one and two     *)
(* bytes.                                                                   *)
MCUops == {Alu(r1, None, None, r1),
           [Alu(r1, r2, None, r2) EXCEPT !.class = "slowAlu"],
           [Alu(r2, r2, r1, r1) EXCEPT !.class = "fp"],
           Alu(r1, None, None, RFZERO), Alu(RFZERO, r1, None, r2),
           LoadTo(r1, {0}), LoadTo(r2, {0, 1}),
           StoreOf(r2, {0}), StoreOf(r1, {1}), StoreOf(RFZERO, {0, 1})}
=============================================================================
