------------------------- MODULE TxIdGenerator_proofs -------------------------
(***************************************************************************)
(* Proofs about TxIdGenerator, for any number of goroutines and calls and  *)
(* for any clock whose readings lie above the seeded range.                *)
(***************************************************************************)
EXTENDS TxIdGenerator, TLAPS

Inv == TypeOK /\ CounterInv /\ Monotonic /\ AboveSeeds

(* A goroutine about to swap offers an id above its copy of the counter,   *)
(* its floor and the seeds.                                                *)
LEMMA NextIdAbove ==
  ASSUME Inv, NEW g \in Goroutines, pc[g] = "cas"
  PROVE  /\ NextId(g) \in Nat
         /\ NextId(g) > last[g]
         /\ NextId(g) > floor[g]
         /\ NextId(g) > SeedMax
  BY TxIdAssumption DEF Inv, TypeOK, CounterInv, NextId

(* Appending a larger id keeps the ids increasing.                         *)
LEMMA AppendNewest ==
  ASSUME Inv, NEW id \in Nat, id > txCounter, id > SeedMax,
         txCounter' = id, issued' = Append(issued, id)
  PROVE  /\ issued' \in Seq(Nat) /\ issued' # <<>>
         /\ Len(issued') = Len(issued) + 1
         /\ issued'[Len(issued')] = id
         /\ \A i \in 1..Len(issued') : issued'[i] <= id
         /\ Monotonic'
         /\ AboveSeeds'
  <1>1. issued \in Seq(Nat) /\ txCounter \in Nat
    BY DEF Inv, TypeOK
  <1>2. /\ issued' \in Seq(Nat)
        /\ Len(issued') = Len(issued) + 1
        /\ issued'[Len(issued')] = id
        /\ \A i \in 1..Len(issued) : issued'[i] = issued[i]
    BY <1>1
  <1>3. issued' # <<>>
    BY <1>1, <1>2
  <1>4. \A i \in 1..Len(issued) : issued[i] \in Nat /\ issued[i] < id
    BY <1>1 DEF Inv, CounterInv
  <1>5. \A i \in 1..Len(issued') : i \in 1..Len(issued) \/ i = Len(issued')
    BY <1>1, <1>2
  <1>6. \A i \in 1..Len(issued') : issued'[i] <= id
    BY <1>2, <1>4, <1>5
  <1>7. Monotonic'
    <2> SUFFICES ASSUME NEW i \in 1..Len(issued'), NEW k \in 1..Len(issued'), i < k
                 PROVE  issued'[i] < issued'[k]
      BY DEF Monotonic
    <2>1. i \in 1..Len(issued)
      BY <1>1, <1>2
    <2>2. CASE k \in 1..Len(issued)
      BY <1>2, <2>1, <2>2 DEF Inv, Monotonic
    <2>3. CASE k = Len(issued')
      BY <1>2, <1>4, <2>1, <2>3
    <2> QED
      BY <1>5, <2>2, <2>3
  <1>8. AboveSeeds'
    BY <1>2, <1>5 DEF AboveSeeds, Inv
  <1> QED
    BY <1>2, <1>3, <1>6, <1>7, <1>8

LEMMA InitInv == Init => Inv
  BY TxIdAssumption DEF Init, Inv, TypeOK, CounterInv, Monotonic, AboveSeeds, Newest

(* The newest id is a number.                                              *)
LEMMA NewestNat == ASSUME issued \in Seq(Nat) PROVE Newest \in Nat
  BY DEF Newest

(* Only a goroutine whose copy is the newest id issues the next one.       *)
LEMMA CompareAndSwapInv ==
  ASSUME Inv, NEW g \in Goroutines, CompareAndSwap(g)
  PROVE  Inv'
  <1> USE TxIdAssumption
  <1>1. CASE txCounter = last[g]
    <2> DEFINE id == NextId(g)
    <2>1. /\ pc[g] = "cas"
          /\ txCounter' = id
          /\ issued' = Append(issued, id)
          /\ pc' = [pc EXCEPT ![g] = "idle"]
          /\ UNCHANGED <<clock, now, last, floor, calls>>
      BY <1>1 DEF CompareAndSwap
    <2>2. id \in Nat /\ id > txCounter /\ id > SeedMax
      BY <1>1, <2>1, NextIdAbove
    <2> HIDE DEF id
    <2>3. /\ issued' \in Seq(Nat) /\ issued' # <<>>
          /\ issued'[Len(issued')] = id
          /\ \A i \in 1..Len(issued') : issued'[i] <= id
          /\ Monotonic'
          /\ AboveSeeds'
      BY <2>1, <2>2, AppendNewest
    <2>4. TypeOK'
      BY <2>1, <2>2, <2>3 DEF Inv, TypeOK
    <2>5. \A h \in Goroutines : pc'[h] # "idle" => h # g /\ pc'[h] = pc[h]
      BY <2>1 DEF Inv, TypeOK
    <2>6. CounterInv'
      <3>1. (txCounter = Newest)'
        BY <2>1, <2>3 DEF Newest
      <3>2. \A i \in 1..Len(issued') : issued'[i] <= txCounter'
        BY <2>1, <2>3
      <3>3. ASSUME NEW h \in Goroutines
            PROVE  /\ pc'[h] # "idle" => floor'[h] <= txCounter'
                   /\ pc'[h] = "cas" => floor'[h] <= last'[h]
                   /\ pc'[h] \in {"load", "cas"} => now'[h] > SeedMax
        <4>1. CASE pc'[h] # "idle"
          <5>1. /\ floor[h] <= txCounter
                /\ pc[h] = "cas" => floor[h] <= last[h]
                /\ pc[h] \in {"load", "cas"} => now[h] > SeedMax
            BY <2>5, <4>1 DEF Inv, CounterInv
          <5>2. floor[h] \in Nat /\ txCounter \in Nat
            BY DEF Inv, TypeOK
          <5> QED
            BY <2>1, <2>2, <2>5, <4>1, <5>1, <5>2
        <4> QED
          BY <4>1
      <3> QED
        BY <3>1, <3>2, <3>3 DEF CounterInv
    <2> QED
      BY <2>3, <2>4, <2>6 DEF Inv
  <1>2. CASE txCounter # last[g]
    BY <1>2 DEF CompareAndSwap, Inv, TypeOK, CounterInv, Monotonic, AboveSeeds, Newest
  <1> QED
    BY <1>1, <1>2

LEMMA NextInv == Inv /\ [Next]_vars => Inv'
  <1> SUFFICES ASSUME Inv, [Next]_vars PROVE Inv'
    OBVIOUS
  <1> USE TxIdAssumption
  <1>1. ASSUME NEW g \in Goroutines, Call(g) PROVE Inv'
    <2>1. Newest \in Nat /\ txCounter = Newest
      BY NewestNat DEF Inv, TypeOK, CounterInv
    <2>2. TypeOK'
      BY <1>1, <2>1 DEF Call, Inv, TypeOK
    <2>3. CounterInv'
      BY <1>1, <2>1 DEF Call, Inv, TypeOK, CounterInv, Newest
    <2> QED
      BY <1>1, <2>2, <2>3 DEF Call, Inv, Monotonic, AboveSeeds
  <1>2. ASSUME NEW g \in Goroutines, Now(g) PROVE Inv'
    BY <1>2 DEF Now, Inv, TypeOK, CounterInv, Monotonic, AboveSeeds, Newest
  <1>3. ASSUME NEW g \in Goroutines, Load(g) PROVE Inv'
    BY <1>3 DEF Load, Inv, TypeOK, CounterInv, Monotonic, AboveSeeds, Newest
  <1>4. ASSUME NEW g \in Goroutines, CompareAndSwap(g) PROVE Inv'
    BY <1>4, CompareAndSwapInv
  <1>5. ASSUME NEW t \in ClockValues, SetClock(t) PROVE Inv'
    BY <1>5 DEF SetClock, localVars, Inv, TypeOK, CounterInv, Monotonic, AboveSeeds, Newest
  <1>6. ASSUME Restart PROVE Inv'
    BY <1>6 DEF Restart, Inv, TypeOK, CounterInv, Monotonic, AboveSeeds, Newest
  <1>7. CASE UNCHANGED vars
    BY <1>7 DEF vars, localVars, Inv, TypeOK, CounterInv, Monotonic, AboveSeeds, Newest
  <1> QED
    BY <1>1, <1>2, <1>3, <1>4, <1>5, <1>6, <1>7 DEF Next, Step

LEMMA InvHolds == Spec => []Inv
  BY InitInv, NextInv, PTL DEF Spec
-----------------------------------------------------------------------------
(* The counter and the copies of it are related as CounterInv says.        *)
THEOREM CounterCorrect == Spec => [](TypeOK /\ CounterInv)
  <1>1. Inv => TypeOK /\ CounterInv
    BY DEF Inv
  <1> QED
    BY <1>1, InvHolds, PTL

(***************************************************************************)
(* No process gives out an id twice, or a smaller one later: for any       *)
(* number of goroutines and any behaviour of the clock.                    *)
(***************************************************************************)
THEOREM IdsMonotonic == Spec => []Monotonic
  <1>1. Inv => Monotonic
    BY DEF Inv
  <1> QED
    BY <1>1, InvHolds, PTL

(* No generated id is that of a seeded transaction, after a restart too.   *)
THEOREM IdsAboveSeeds == Spec => []AboveSeeds
  <1>1. Inv => AboveSeeds
    BY DEF Inv
  <1> QED
    BY <1>1, InvHolds, PTL

(* Ids respect the real-time order of the calls that drew them.            *)
THEOREM IdsInRealTimeOrder == Spec => RealTimeOrder
  <1> DEFINE A == \A g \in Goroutines :
                    Len(issued') > Len(issued) /\ pc[g] # pc'[g]
                      => issued'[Len(issued')] > floor[g]
  <1>1. Inv /\ [Next]_vars => [A]_vars
    <2> SUFFICES ASSUME Inv, Next, NEW h \in Goroutines,
                        Len(issued') > Len(issued), pc[h] # pc'[h]
                 PROVE  issued'[Len(issued')] > floor[h]
      OBVIOUS
    <2>1. issued \in Seq(Nat) /\ Len(issued) \in Nat
      BY DEF Inv, TypeOK
    <2>2. PICK g \in Goroutines : CompareAndSwap(g)
      <3>1. issued' # issued /\ issued' # <<>>
        BY <2>1
      <3> QED
        BY <3>1 DEF Next, Step, Call, Now, Load, SetClock, Restart
    <2>3. /\ pc[g] = "cas"
          /\ txCounter = last[g] /\ txCounter' = NextId(g)
          /\ issued' = Append(issued, NextId(g))
          /\ pc' = [pc EXCEPT ![g] = "idle"]
      BY <2>1, <2>2 DEF CompareAndSwap
    <2>4. h = g
      BY <2>3 DEF Inv, TypeOK
    <2>5. issued'[Len(issued')] = NextId(g)
      BY <2>1, <2>3, NextIdAbove
    <2> QED
      BY <2>3, <2>4, <2>5, NextIdAbove
  <1> QED
    BY <1>1, InvHolds, PTL DEF Spec, RealTimeOrder
=============================================================================
