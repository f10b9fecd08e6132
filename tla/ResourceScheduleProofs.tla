----------------------- MODULE ResourceScheduleProofs -----------------------
(***************************************************************************)
(* Proof that the ring of counters is a faithful timeline while it does not*)
(* grow, for every number of lanes and every depth for which the mask is   *)
(* the remainder.                                                          *)
(***************************************************************************)
EXTENDS ResourceSchedule, TLAPS

USE RingAssumption

(* The ring does not grow beyond its first size.                            *)
Fixed == MaxDepth = SCHED_DEPTH_INCREMENT

(* The cycles that the ring holds.                                          *)
InRing(c) == base_cycle <= c /\ c < base_cycle + depth

(* Each cycle of the ring has as many bookings as were granted, and no more *)
(* than there are lanes.                                                    *)
IInv ==
  /\ base_cycle \in Cycles
  /\ depth = SCHED_DEPTH_INCREMENT
  /\ sched \in [0 .. depth - 1 -> Nat]
  /\ granted \in [Cycles -> Nat]
  /\ \A c \in Cycles : /\ InRing(c) => granted[c] = sched[MOD_S(c, depth)]
                       /\ ~InRing(c) => granted[c] = 0
                       /\ granted[c] <= width

(* Remainders.                                                              *)
LEMMA NoMultiple ==
  ASSUME NEW n \in Nat \ {0}, NEW k \in Int
  PROVE  ~(0 < n * k /\ n * k < n)
<1>1. CASE k <= 0
  <2>1. n * k <= 0  BY <1>1, SMT
  <2>. QED  BY <2>1
<1>2. CASE k >= 1
  <2>1. PICK m \in Nat : k = m + 1
    <3>1. k - 1 \in Nat /\ k = (k - 1) + 1  BY <1>2
    <3>. QED  BY <3>1
  <2>2. n * k = n * m + n /\ n * m \in Nat
    BY <2>1
  <2>. QED  BY <2>2
<1>. QED  BY <1>1, <1>2

LEMMA Division ==
  ASSUME NEW n \in Nat \ {0}, NEW x \in Nat
  PROVE  x \div n \in Int /\ x % n \in 0 .. n - 1 /\ x = n * (x \div n) + (x % n)
OBVIOUS

LEMMA NearRemainders ==
  ASSUME NEW n \in Nat \ {0}, NEW c \in Nat, NEW d \in Nat, c < d, d < c + n
  PROVE  d % n # c % n
<1>. DEFINE p == c \div n
            q == d \div n
<1>1. SUFFICES ASSUME d % n = c % n PROVE FALSE
  OBVIOUS
<1>2. p \in Int /\ q \in Int /\ c = n * p + (c % n) /\ d = n * q + (c % n) /\ c % n \in Int
  BY <1>1, Division
<1>. HIDE DEF p, q
<1>3. n * p \in Int /\ n * q \in Int /\ q - p \in Int
  BY <1>2
<1>4. n * (q - p) = n * q - n * p
  BY <1>2
<1>5. n * (q - p) = d - c
  BY <1>2, <1>3, <1>4
<1>. QED  BY <1>3, <1>5, NoMultiple

LEMMA RemainderPeriod ==
  ASSUME NEW n \in Nat \ {0}, NEW c \in Nat, c - n >= 0
  PROVE  (c - n) % n = c % n
<1>. DEFINE p == (c - n) \div n
            q == c \div n
            r == (c - n) % n
            s == c % n
<1>1. /\ p \in Int /\ r \in 0 .. n - 1 /\ c - n = n * p + r
      /\ q \in Int /\ s \in 0 .. n - 1 /\ c = n * q + s
  <2>1. c - n \in Nat  OBVIOUS
  <2>. QED  BY <2>1, Division
<1>. HIDE DEF p, q, r, s
<1>2. n * p \in Int /\ n * q \in Int /\ n * (q - p - 1) = n * q - n * p - n
  BY <1>1
<1>3. n * (q - p - 1) = r - s /\ n * (p + 1 - q) = s - r
  <2>1. n * (p + 1 - q) = n * p + n - n * q  BY <1>1
  <2>. QED  BY <1>1, <1>2, <2>1
<1>4. q - p - 1 \in Int /\ p + 1 - q \in Int
  BY <1>1
<1>5. ~(0 < r - s) /\ ~(0 < s - r)
  <2>1. r - s < n /\ s - r < n  BY <1>1
  <2>. QED  BY <1>3, <1>4, <2>1, NoMultiple
<1>6. r = s
  BY <1>1, <1>5
<1>. QED  BY <1>6 DEF r, s

(* The mask finds a slot for each cycle, its own within any depth cycles in *)
(* a row, and the same one again depth cycles later.                        *)
LEMMA Slots ==
  ASSUME NEW n, n = SCHED_DEPTH_INCREMENT, NEW c \in Cycles
  PROVE  /\ MOD_S(c, n) \in 0 .. n - 1
         /\ \A d \in Cycles : c < d /\ d < c + n => MOD_S(d, n) # MOD_S(c, n)
         /\ c - n >= 0 => MOD_S(c - n, n) = MOD_S(c, n)
<1>1. n \in Nat \ {0} /\ \A d \in Cycles : MOD_S(d, n) = d % n
  BY DEF Cycles
<1>2. c \in Nat /\ Cycles \subseteq Nat
  BY DEF Cycles
<1>3. c % n \in 0 .. n - 1
  BY <1>1, <1>2
<1>4. ASSUME NEW d \in Cycles, c < d, d < c + n PROVE d % n # c % n
  BY <1>1, <1>2, <1>4, NearRemainders
<1>5. ASSUME c - n >= 0 PROVE c - n \in Cycles /\ (c - n) % n = c % n
  <2>1. c - n \in Cycles  BY <1>1, <1>2, <1>5 DEF Cycles
  <2>. QED  BY <1>1, <1>2, <1>5, <2>1, RemainderPeriod
<1>. QED  BY <1>1, <1>3, <1>4, <1>5

-----------------------------------------------------------------------------
(* The invariant.                                                           *)

LEMMA Initially == Init => IInv
<1>. SUFFICES ASSUME Init PROVE IInv
  OBVIOUS
<1>1. 0 \in Cycles /\ 0 \in Nat /\ width >= 0
  BY DEF Cycles
<1>2. sched \in [0 .. depth - 1 -> Nat] /\ granted \in [Cycles -> Nat]
  BY DEF Init
<1>3. \A c \in Cycles : InRing(c) => MOD_S(c, depth) \in 0 .. depth - 1
  BY Slots DEF Init
<1>. QED  BY <1>1, <1>2, <1>3 DEF Init, IInv

(* A request that the ring does not grow for finds the cycle in it.         *)
LEMMA NoGrowth ==
  ASSUME Fixed, IInv, NEW c \in Cycles, c >= base_cycle, DepthAt(c) <= MaxDepth
  PROVE  /\ InRing(c) /\ DepthAt(c) = depth /\ RingAt(c) = sched
         /\ SlotAt(c) = MOD_S(c, depth)
         /\ FreeAt(c) <=> granted[c] < width
<1>. DEFINE n == SCHED_DEPTH_INCREMENT
            need == c - base_cycle + 1
            increments == (need + n - 1) \div n
<1>1. n \in Nat \ {0} /\ depth = n /\ MaxDepth = n /\ need \in Nat \ {0}
  BY DEF Fixed, IInv, Cycles
<1>2. DepthAt(c) = IF need > depth THEN increments * n ELSE depth
  BY DEF DepthAt
<1>. HIDE DEF n, need
<1>3. ~(need > depth)
  <2>1. SUFFICES ASSUME need > n PROVE FALSE
    BY <1>1
  <2>2. need + n - 1 \in Nat
    BY <1>1
  <2>3. /\ increments \in Int /\ need + n - 1 = n * increments + ((need + n - 1) % n)
        /\ (need + n - 1) % n \in 0 .. n - 1
    BY <1>1, <2>2, Division
  <2>. HIDE DEF increments
  <2>4. increments * n <= n
    BY <1>1, <1>2, <2>1
  <2>5. n * increments = increments * n /\ increments * n \in Int
    BY <1>1, <2>3
  <2>. QED  BY <1>1, <2>1, <2>3, <2>4, <2>5
<1>4. DepthAt(c) = depth
  BY <1>2, <1>3
<1>5. InRing(c)
  BY <1>1, <1>3 DEF InRing, IInv, Cycles, need
<1>6. RingAt(c) = sched
  BY <1>1, <1>4 DEF RingAt, IInv
<1>7. FreeAt(c) <=> granted[c] < width
  BY <1>4, <1>5, <1>6 DEF FreeAt, SlotAt, IInv
<1>. QED  BY <1>4, <1>5, <1>6, <1>7 DEF SlotAt

(* The cycles that a step books, and what they become.                      *)
LEMMA BookStep ==
  ASSUME Fixed, IInv, NEW c \in Cycles, c >= base_cycle, FreeAt(c), Book(c)
  PROVE  /\ IInv' /\ granted[c] < width
         /\ granted' = [granted EXCEPT ![c] = @ + 1]
         /\ answer' = c /\ UNCHANGED <<base_cycle, depth>>
<1>1. DepthAt(c) <= MaxDepth
  BY DEF Book, Grow
<1>2. /\ InRing(c) /\ DepthAt(c) = depth /\ RingAt(c) = sched
      /\ SlotAt(c) = MOD_S(c, depth)
      /\ granted[c] < width
  BY <1>1, NoGrowth
<1>3. /\ depth' = depth /\ base_cycle' = base_cycle /\ answer' = c
      /\ sched' = [sched EXCEPT ![MOD_S(c, depth)] = @ + 1]
      /\ granted' = [granted EXCEPT ![c] = @ + 1]
  BY <1>2 DEF Book, Grow
<1>4. MOD_S(c, depth) \in 0 .. depth - 1
  BY Slots DEF IInv
<1>5. sched' \in [0 .. depth - 1 -> Nat] /\ granted' \in [Cycles -> Nat]
  BY <1>3, <1>4 DEF IInv
<1>6. ASSUME NEW d \in Cycles
      PROVE  /\ InRing(d) => granted'[d] = sched'[MOD_S(d, depth)]
             /\ ~InRing(d) => granted'[d] = 0
             /\ granted'[d] <= width
  <2>1. CASE d = c
    <3>1. granted[c] = sched[MOD_S(c, depth)] /\ granted[c] \in Nat
      BY <1>2 DEF IInv
    <3>. QED  BY <1>2, <1>3, <1>4, <2>1, <3>1 DEF IInv
  <2>2. CASE d # c
    <3>1. granted'[d] = granted[d]
      BY <1>3, <2>2 DEF IInv
    <3>2. InRing(d) => MOD_S(d, depth) # MOD_S(c, depth)
      <4>1. InRing(d) => (c < d /\ d < c + depth) \/ (d < c /\ c < d + depth)
        BY <1>2, <2>2 DEF InRing, IInv, Cycles
      <4>. QED  BY <4>1, Slots DEF IInv
    <3>3. InRing(d) => MOD_S(d, depth) \in 0 .. depth - 1
      BY Slots DEF IInv
    <3>4. InRing(d) => sched'[MOD_S(d, depth)] = sched[MOD_S(d, depth)]
      BY <1>3, <3>2, <3>3 DEF IInv
    <3>. QED  BY <3>1, <3>4 DEF IInv
  <2>. QED  BY <2>1, <2>2
<1>7. \A d : InRing(d)' <=> InRing(d)
  BY <1>3, Zenon DEF InRing
<1>. QED  BY <1>2, <1>3, <1>5, <1>6, <1>7 DEF IInv

(* The slots that are cleared are those of the cycles left behind, which the*)
(* cycles that enter the ring take over.                                    *)
LEMMA AdvanceStep ==
  ASSUME IInv, AdvanceBaseCycle
  PROVE  /\ IInv'
         /\ base_cycle' \in base_cycle .. MaxCycle
         /\ granted' = [c \in Cycles |-> IF c < base_cycle' THEN 0 ELSE granted[c]]
         /\ UNCHANGED answer
<1>1. PICK b \in base_cycle .. MaxCycle :
        /\ base_cycle' = b
        /\ sched' = [i \in 0 .. depth - 1 |-> IF i \in Cleared(b) THEN 0 ELSE sched[i]]
        /\ granted' = [c \in Cycles |-> IF c < b THEN 0 ELSE granted[c]]
        /\ UNCHANGED <<depth, answer>>
  BY DEF AdvanceBaseCycle
<1>2. /\ base_cycle \in Nat /\ depth \in Nat \ {0} /\ Cycles \subseteq Nat /\ b \in Cycles
      /\ b >= base_cycle
  BY DEF IInv, Cycles
<1>3. sched' \in [0 .. depth - 1 -> Nat] /\ granted' \in [Cycles -> Nat]
  BY <1>1 DEF IInv
<1>4. \A c \in Cycles : InRing(c)' <=> b <= c /\ c < b + depth
  BY <1>1 DEF InRing
<1>5. ASSUME NEW c \in Cycles
      PROVE  /\ b <= c /\ c < b + depth => granted'[c] = sched'[MOD_S(c, depth)]
             /\ ~(b <= c /\ c < b + depth) => granted'[c] = 0
             /\ granted'[c] <= width
  <2>1. MOD_S(c, depth) \in 0 .. depth - 1
    BY Slots DEF IInv
  <2>2. granted'[c] = IF c < b THEN 0 ELSE granted[c]
    BY <1>1
  <2>3. sched'[MOD_S(c, depth)] =
          IF MOD_S(c, depth) \in Cleared(b) THEN 0 ELSE sched[MOD_S(c, depth)]
    BY <1>1, <2>1
  <2>4. /\ InRing(c) => granted[c] = sched[MOD_S(c, depth)]
        /\ ~InRing(c) => granted[c] = 0
        /\ granted[c] <= width /\ 0 <= width
    BY DEF IInv
  <2>5. CASE c < b
    BY <1>2, <2>2, <2>4, <2>5
  <2>6. CASE b <= c /\ c < base_cycle + depth
    <3>1. MOD_S(c, depth) \notin Cleared(b)
      <4>1. SUFFICES ASSUME NEW d \in base_cycle .. b - 1, MOD_S(d, depth) = MOD_S(c, depth)
                     PROVE  FALSE
        BY DEF Cleared
      <4>2. d \in Cycles /\ d < c /\ c < d + depth
        BY <1>2, <2>6 DEF Cycles
      <4>. QED  BY <4>1, <4>2, Slots DEF IInv
    <3>2. InRing(c) /\ c < b + depth
      BY <1>2, <2>6 DEF InRing
    <3>. QED  BY <1>2, <2>2, <2>3, <2>4, <2>6, <3>1, <3>2
  <2>7. CASE b <= c /\ ~(c < base_cycle + depth)
    <3>1. ~InRing(c) /\ granted'[c] = 0
      BY <1>2, <2>2, <2>4, <2>7 DEF InRing
    <3>2. ASSUME c < b + depth PROVE sched'[MOD_S(c, depth)] = 0
      <4>1. c - depth \in base_cycle .. b - 1 /\ c - depth >= 0
        BY <1>2, <2>7, <3>2
      <4>2. MOD_S(c - depth, depth) = MOD_S(c, depth)
        BY <4>1, Slots DEF IInv
      <4>3. MOD_S(c, depth) \in Cleared(b)
        BY <4>1, <4>2 DEF Cleared
      <4>. QED  BY <2>3, <4>3
    <3>. QED  BY <2>4, <2>7, <3>1, <3>2
  <2>. QED  BY <1>2, <2>5, <2>6, <2>7
<1>6. base_cycle' \in Cycles /\ depth' = depth
  BY <1>1, <1>2
<1>7. IInv'
  BY <1>3, <1>4, <1>5, <1>6 DEF IInv
<1>. QED  BY <1>1, <1>7

-----------------------------------------------------------------------------
(* The refinement.                                                          *)

(* The bookings that the ring stands for are those that were granted.       *)
Booked ==
  [c \in Cycles |-> IF base_cycle <= c /\ c < base_cycle + depth
                    THEN sched[MOD_S(c, depth)] ELSE 0]

LEMMA BookedIsGranted == IInv => Booked = granted
<1>. SUFFICES ASSUME IInv PROVE Booked = granted
  OBVIOUS
<1>1. \A c \in Cycles : Booked[c] = granted[c]
  BY DEF Booked, IInv, InRing
<1>. QED  BY <1>1 DEF Booked, IInv

(* A step that changes neither the ring nor what it stands for.             *)
LEMMA SameRing ==
  ASSUME IInv, UNCHANGED <<base_cycle, depth, sched, granted>>
  PROVE  IInv'
BY DEF IInv, InRing

(* Each step of the ring is one of Lanes.                                   *)
LEMMA StepInTimeline ==
  ASSUME Fixed, IInv, Next
  PROVE  IInv' /\ Timeline!Next
<1>0. Cycles \subseteq Nat /\ base_cycle \in Nat /\ MaxCycle \in Nat
  BY DEF Cycles, IInv
<1>1. /\ Timeline!Cycles = Cycles /\ Timeline!MAX_CYCLE = MAX_CYCLE
  BY DEF Timeline!Cycles, Timeline!MAX_CYCLE, Cycles, MAX_CYCLE
<1>2. \A c \in Cycles : Timeline!Free(c) <=> granted[c] < width
  BY BookedIsGranted, Zenon DEF Timeline!Free, Booked
<1>3. ASSUME NEW start \in base_cycle .. MaxCycle, NEW c \in Cycles,
             FirstFree(start, c), DepthAt(c) <= MaxDepth
      PROVE  c >= base_cycle /\ FreeAt(c) /\ Timeline!FirstFree(start, c)
  <2>1. c \in start .. MaxCycle /\ FreeAt(c) /\ \A d \in start .. c - 1 : ~FreeAt(d)
    BY <1>3 DEF FirstFree
  <2>2. c >= base_cycle
    BY <1>0, <2>1
  <2>3. Timeline!Free(c)
    BY <1>2, <1>3, <2>1, <2>2, NoGrowth
  <2>4. ASSUME NEW d \in start .. c - 1 PROVE ~Timeline!Free(d)
    <3>1. d \in Cycles /\ d >= base_cycle
      BY <1>0, <2>1 DEF Cycles
    <3>2. InRing(c) /\ DepthAt(c) = depth
      BY <1>3, <2>2, NoGrowth
    <3>3. DepthAt(d) <= MaxDepth
      <4>1. ~(d - base_cycle + 1 > depth)
        BY <1>0, <3>1, <3>2 DEF InRing, IInv
      <4>2. DepthAt(d) = depth
        BY <4>1 DEF DepthAt
      <4>. QED  BY <4>2 DEF IInv
    <3>4. ~FreeAt(d)
      BY <2>1
    <3>. QED  BY <1>2, <3>1, <3>3, <3>4, NoGrowth
  <2>. QED  BY <2>1, <2>2, <2>3, <2>4, Zenon DEF Timeline!FirstFree
<1>4. ASSUME NEW start \in base_cycle .. MaxCycle, NEW c \in Cycles,
             Timeline!FirstFree(start, c), FreeAt(c), c >= base_cycle, Book(c)
      PROVE  IInv' /\ Timeline!Schedule
  <2>1. /\ IInv' /\ granted' = [granted EXCEPT ![c] = @ + 1]
        /\ answer' = c /\ UNCHANGED base_cycle
    BY <1>4, BookStep
  <2>2. Booked = granted /\ Booked' = granted'
    <3>1. (IInv => Booked = granted)'
      BY BookedIsGranted, PTL
    <3>. QED  BY <2>1, <3>1, BookedIsGranted
  <2>3. Booked' = [Booked EXCEPT ![c] = @ + 1]
    BY <2>1, <2>2
  <2>. QED  BY <1>1, <1>4, <2>1, <2>3, Zenon DEF Timeline!Schedule, Booked
<1>5. CASE Schedule
  <2>1. PICK start \in base_cycle .. MaxCycle, c \in Cycles : FirstFree(start, c) /\ Book(c)
    BY <1>5 DEF Schedule
  <2>2. DepthAt(c) <= MaxDepth
    BY <2>1 DEF Book, Grow
  <2>3. IInv' /\ Timeline!Schedule
    BY <1>3, <1>4, <2>1, <2>2
  <2>. QED  BY <2>3, Zenon DEF Timeline!Next
<1>6. CASE SchedulePrefetch
  <2>1. PICK start \in base_cycle .. MaxCycle :
          \/ FreeAt(start) /\ Book(start)
          \/ /\ ~FreeAt(start)
             /\ Grow(start) /\ sched' = RingAt(start)
             /\ answer' = MAX_CYCLE
             /\ UNCHANGED <<base_cycle, granted>>
    BY <1>6 DEF SchedulePrefetch
  <2>2. start \in Cycles /\ start >= base_cycle
    BY <1>0 DEF Cycles
  <2>3. DepthAt(start) <= MaxDepth
    BY <2>1 DEF Book, Grow
  <2>4. CASE FreeAt(start) /\ Book(start)
    <3>1. start .. start - 1 = {} /\ start \in start .. MaxCycle
      BY <1>0, <2>2 DEF Cycles
    <3>2. FirstFree(start, start)
      BY <2>4, <3>1 DEF FirstFree
    <3>3. IInv' /\ Timeline!Schedule
      BY <1>3, <1>4, <2>2, <2>3, <2>4, <3>2
    <3>. QED  BY <3>3, Zenon DEF Timeline!Next
  <2>5. CASE /\ ~FreeAt(start)
             /\ Grow(start) /\ sched' = RingAt(start)
             /\ answer' = MAX_CYCLE
             /\ UNCHANGED <<base_cycle, granted>>
    <3>1. RingAt(start) = sched /\ DepthAt(start) = depth /\ ~(granted[start] < width)
      BY <2>2, <2>3, <2>5, NoGrowth
    <3>2. UNCHANGED <<base_cycle, depth, sched, granted>>
      BY <2>5, <3>1 DEF Grow
    <3>3. IInv'
      BY <3>2, SameRing
    <3>4. ~Timeline!Free(start)
      BY <1>2, <2>2, <3>1
    <3>5. Booked' = Booked
      BY <3>2 DEF Booked
    <3>6. Timeline!Refuse
      BY <1>1, <2>5, <3>4, <3>5, Zenon DEF Timeline!Refuse, Booked
    <3>. QED  BY <3>3, <3>6, Zenon DEF Timeline!Next
  <2>. QED  BY <2>1, <2>4, <2>5
<1>7. CASE TrySchedule
  <2>1. PICK start \in base_cycle .. MaxCycle, c \in Cycles :
          /\ FirstFree(start, c)
          /\ Grow(c) /\ sched' = RingAt(c)
          /\ answer' = c
          /\ UNCHANGED <<base_cycle, granted>>
    BY <1>7 DEF TrySchedule
  <2>2. DepthAt(c) <= MaxDepth
    BY <2>1 DEF Grow
  <2>3. c >= base_cycle /\ Timeline!FirstFree(start, c)
    BY <1>3, <2>1, <2>2
  <2>4. RingAt(c) = sched /\ DepthAt(c) = depth
    BY <2>2, <2>3, NoGrowth
  <2>5. UNCHANGED <<base_cycle, depth, sched, granted>>
    BY <2>1, <2>4 DEF Grow
  <2>6. IInv' /\ Booked' = Booked
    BY <2>5, SameRing DEF Booked
  <2>7. Timeline!Ask
    BY <1>1, <2>1, <2>3, <2>6, Zenon DEF Timeline!Ask, Booked
  <2>. QED  BY <2>6, <2>7, Zenon DEF Timeline!Next
<1>8. CASE AdvanceBaseCycle
  <2>1. /\ IInv'
        /\ base_cycle' \in base_cycle .. MaxCycle
        /\ granted' = [c \in Cycles |-> IF c < base_cycle' THEN 0 ELSE granted[c]]
        /\ UNCHANGED answer
    BY <1>8, AdvanceStep
  <2>2. Booked = granted /\ Booked' = granted'
    <3>1. (IInv => Booked = granted)'
      BY BookedIsGranted, PTL
    <3>. QED  BY <2>1, <3>1, BookedIsGranted
  <2>3. Booked' = [c \in Cycles |-> IF c < base_cycle' THEN 0 ELSE Booked[c]]
    BY <2>1, <2>2
  <2>4. Timeline!Advance
    BY <1>1, <2>1, <2>3, Zenon DEF Timeline!Advance, Booked
  <2>. QED  BY <2>1, <2>4, Zenon DEF Timeline!Next
<1>. QED  BY <1>5, <1>6, <1>7, <1>8 DEF Next

(* The invariant holds of a ring that does not grow.                        *)
THEOREM Invariance == ASSUME Fixed PROVE Spec => []IInv
<1>1. IInv /\ [Next]_vars => IInv'
  <2>. SUFFICES ASSUME IInv, [Next]_vars PROVE IInv'
    OBVIOUS
  <2>1. CASE UNCHANGED vars
    BY <2>1, SameRing DEF vars
  <2>. QED  BY <2>1, StepInTimeline
<1>. QED  BY <1>1, Initially, PTL DEF Spec

(* No cycle is given to more uops than there are lanes (LanesFinite), as    *)
(* long as the ring need not grow.                                          *)
THEOREM LanesNeverOverbooked == ASSUME Fixed PROVE Spec => []LanesFinite
<1>1. IInv => LanesFinite
  BY DEF IInv, LanesFinite
<1>. QED  BY <1>1, Invariance, PTL

(* The ring of counters implements the timeline, as long as it need not     *)
(* grow.                                                                    *)
THEOREM RingImplementsLanes == ASSUME Fixed PROVE Spec => ImplementsLanes
<1>1. Init => Timeline!Init
  <2>. SUFFICES ASSUME Init PROVE Timeline!Init
    OBVIOUS
  <2>1. IInv /\ Booked = granted
    BY Initially, BookedIsGranted
  <2>2. Booked = [c \in Cycles |-> 0]
    BY <2>1 DEF Init
  <2>3. /\ Timeline!Cycles = Cycles /\ Timeline!MAX_CYCLE = MAX_CYCLE
    BY DEF Timeline!Cycles, Timeline!MAX_CYCLE, Cycles, MAX_CYCLE
  <2>. QED  BY <2>2, <2>3, Zenon DEF Init, Timeline!Init, Booked
<1>2. IInv /\ [Next]_vars => [Timeline!Next]_(Timeline!vars)
  <2>. SUFFICES ASSUME IInv, [Next]_vars, ~(UNCHANGED Timeline!vars)
                PROVE  Timeline!Next
    OBVIOUS
  <2>1. CASE UNCHANGED vars
    BY <2>1 DEF vars, Timeline!vars
  <2>. QED  BY <2>1, StepInTimeline
<1>. QED  BY <1>1, <1>2, Invariance, PTL DEF Spec, ImplementsLanes, Timeline!Spec
=============================================================================
