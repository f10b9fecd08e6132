------------------------------- MODULE Lanes -------------------------------
(***************************************************************************)
(* What a pool of execution lanes promises (uarchsim.h: "finite execution  *)
(* lanes"): no cycle is booked by more uops than there are lanes, a        *)
(* request gets the first cycle that is not full, and the past is dropped. *)
(* ResourceSchedule implements it with a ring of counters.                 *)
(***************************************************************************)
EXTENDS Integers

CONSTANTS width,      \* number of lanes
          MaxCycle    \* bound: the last cycle considered

VARIABLES base_cycle, \* cycles before this one cannot be booked any more
          booked,     \* how many uops start in each cycle
          answer      \* what the last request was told

vars == <<base_cycle, booked, answer>>

Cycles == 0 .. MaxCycle
MAX_CYCLE == MaxCycle + 1   \* the code's ~0: no cycle

Free(c) == booked[c] < width
FirstFree(start, c) ==
  c \in start .. MaxCycle /\ Free(c) /\ \A d \in start .. c - 1 : ~Free(d)

Init == base_cycle = 0 /\ booked = [c \in Cycles |-> 0] /\ answer = MAX_CYCLE

Schedule == \E start \in base_cycle .. MaxCycle, c \in Cycles :
  /\ FirstFree(start, c)
  /\ booked' = [booked EXCEPT ![c] = @ + 1]
  /\ answer' = c
  /\ UNCHANGED base_cycle

Refuse == \E start \in base_cycle .. MaxCycle :
  ~Free(start) /\ answer' = MAX_CYCLE /\ UNCHANGED <<base_cycle, booked>>

Ask == \E start \in base_cycle .. MaxCycle, c \in Cycles :
  FirstFree(start, c) /\ answer' = c /\ UNCHANGED <<base_cycle, booked>>

Advance == \E b \in base_cycle .. MaxCycle :
  /\ base_cycle' = b
  /\ booked' = [c \in Cycles |-> IF c < b THEN 0 ELSE booked[c]]
  /\ UNCHANGED answer

Next == Schedule \/ Refuse \/ Ask \/ Advance

Spec == Init /\ [][Next]_vars
=============================================================================
