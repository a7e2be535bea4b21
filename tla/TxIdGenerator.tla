---------------------------- MODULE TxIdGenerator ----------------------------
(***************************************************************************)
(* nextTransactionID: the handler goroutines of one process draw ids from  *)
(* the wall clock and the atomic counter txCounter, in a loop of           *)
(* time.Now, Load and CompareAndSwap.  The wall clock is external; it may  *)
(* stand still and may be set back.                                        *)
(*                                                                         *)
(* An id is its number.  The code prints it as "txn%022d", which is        *)
(* injective and keeps the order for every int64 that is not negative.     *)
(* The seeded rows have the numbers 0 .. SeedMax in the same format.       *)
(***************************************************************************)
EXTENDS Integers, Sequences

CONSTANTS
  Goroutines,
  ClockValues,       \* what time.Now().UnixNano() may return
  SeedMax,           \* the largest seeded transaction number
  MaxCalls           \* bound on the calls in the life of a process

ASSUME TxIdAssumption ==
  /\ SeedMax \in Nat
  /\ ClockValues \subseteq Nat
  /\ \A t \in ClockValues : t > SeedMax
  /\ MaxCalls \in Nat

VARIABLES
  clock,
  txCounter,
  pc,                \* where a goroutine is in nextTransactionID
  now,               \* its local variables
  last,
  floor,             \* the largest id that had been returned when it called
  issued,            \* the ids returned by this process, in that order
  calls

localVars == <<pc, now, last>>
vars == <<clock, txCounter, localVars, floor, issued, calls>>

Init ==
  /\ clock \in ClockValues
  /\ txCounter = 0
  /\ pc = [g \in Goroutines |-> "idle"]
  /\ now = [g \in Goroutines |-> 0]
  /\ last = [g \in Goroutines |-> 0]
  /\ floor = [g \in Goroutines |-> 0]
  /\ issued = <<>>
  /\ calls = 0

Newest == IF issued = <<>> THEN 0 ELSE issued[Len(issued)]

Call(g) ==
  /\ pc[g] = "idle"
  /\ calls < MaxCalls
  /\ calls' = calls + 1
  /\ floor' = [floor EXCEPT ![g] = Newest]
  /\ pc' = [pc EXCEPT ![g] = "now"]
  /\ UNCHANGED <<clock, txCounter, now, last, issued>>

Now(g) ==
  /\ pc[g] = "now"
  /\ now' = [now EXCEPT ![g] = clock]
  /\ pc' = [pc EXCEPT ![g] = "load"]
  /\ UNCHANGED <<clock, txCounter, last, floor, issued, calls>>

Load(g) ==
  /\ pc[g] = "load"
  /\ last' = [last EXCEPT ![g] = txCounter]
  /\ pc' = [pc EXCEPT ![g] = "cas"]
  /\ UNCHANGED <<clock, txCounter, now, floor, issued, calls>>

(* Mutant: the id of the previous call passes as new.                      *)
NextId_OffByOne(g) == IF now[g] < last[g] THEN last[g] + 1 ELSE now[g]

(* Mutant: a plain counter, which starts again from zero.                  *)
NextId_NoClock(g) == last[g] + 1

NextId(g) == IF now[g] <= last[g] THEN last[g] + 1 ELSE now[g]

(* Mutant: txCounter.Store(next), whatever txCounter holds by now.         *)
CompareAndSwap_Store(g) ==
  /\ pc[g] = "cas"
  /\ txCounter' = NextId(g)
  /\ issued' = Append(issued, NextId(g))
  /\ pc' = [pc EXCEPT ![g] = "idle"]
  /\ UNCHANGED <<clock, now, last, floor, calls>>

(* Mutant: the loop tries the same values again.                           *)
CompareAndSwap_NoReload(g) ==
  /\ pc[g] = "cas"
  /\ IF txCounter = last[g]
       THEN /\ txCounter' = NextId(g)
            /\ issued' = Append(issued, NextId(g))
            /\ pc' = [pc EXCEPT ![g] = "idle"]
       ELSE UNCHANGED <<txCounter, issued, pc>>
  /\ UNCHANGED <<clock, now, last, floor, calls>>

(* CompareAndSwap, then the return or the next round of the loop.          *)
CompareAndSwap(g) ==
  /\ pc[g] = "cas"
  /\ IF txCounter = last[g]
       THEN /\ txCounter' = NextId(g)
            /\ issued' = Append(issued, NextId(g))
            /\ pc' = [pc EXCEPT ![g] = "idle"]
       ELSE /\ pc' = [pc EXCEPT ![g] = "now"]
            /\ UNCHANGED <<txCounter, issued>>
  /\ UNCHANGED <<clock, now, last, floor, calls>>

(* The clock goes on, or is set.                                           *)
SetClock(t) ==
  /\ clock' = t
  /\ UNCHANGED <<txCounter, localVars, floor, issued, calls>>

(* The process ends, with its goroutines, and a new one starts.            *)
Restart ==
  /\ txCounter' = 0
  /\ pc' = [g \in Goroutines |-> "idle"]
  /\ now' = [g \in Goroutines |-> 0]
  /\ last' = [g \in Goroutines |-> 0]
  /\ floor' = [g \in Goroutines |-> 0]
  /\ issued' = <<>>
  /\ calls' = 0
  /\ UNCHANGED clock

Step(g) == Now(g) \/ Load(g) \/ CompareAndSwap(g)

Next ==
  \/ \E g \in Goroutines : Call(g) \/ Step(g)
  \/ \E t \in ClockValues : SetClock(t)
  \/ Restart

Spec == Init /\ [][Next]_vars

(* A goroutine inside the loop is scheduled again and again.               *)
FairSpec == Spec /\ \A g \in Goroutines : WF_vars(Step(g))
-----------------------------------------------------------------------------
(* Type invariant.                                                         *)
TypeOK ==
  /\ clock \in ClockValues
  /\ txCounter \in Nat
  /\ pc \in [Goroutines -> {"idle", "now", "load", "cas"}]
  /\ now \in [Goroutines -> Nat]
  /\ last \in [Goroutines -> Nat]
  /\ floor \in [Goroutines -> Nat]
  /\ issued \in Seq(Nat)
  /\ calls \in Nat

(***************************************************************************)
(* "txCounter makes generated transaction IDs monotonic inside one         *)
(* process": each id is larger than all before it, and so no id is given   *)
(* out twice, however the goroutines interleave and whatever the clock     *)
(* does.                                                                   *)
(***************************************************************************)
Monotonic == \A i, k \in 1..Len(issued) : i < k => issued[i] < issued[k]

(***************************************************************************)
(* "The timestamp base keeps IDs above the seeded transaction range even   *)
(* after an app restart."                                                  *)
(***************************************************************************)
AboveSeeds == \A i \in 1..Len(issued) : issued[i] > SeedMax

(***************************************************************************)
(* A call gets a larger id than every call that had returned before it     *)
(* began, as if ids were drawn one at a time: a slow goroutine never       *)
(* returns an id its stale reading of the clock would have given.          *)
(***************************************************************************)
RealTimeOrder ==
  [][\A g \in Goroutines :
       Len(issued') > Len(issued) /\ pc[g] # pc'[g]
         => issued'[Len(issued')] > floor[g]]_vars

(***************************************************************************)
(* The loop of nextTransactionID is lock-free: as long as some goroutine   *)
(* is inside it, some goroutine returns with an id, or the process ends.   *)
(* It is not wait-free: with calls of others without end one goroutine may *)
(* lose every CompareAndSwap, and nothing is promised to that one.         *)
(***************************************************************************)
SomeCallReturns ==
  \A n \in 0..MaxCalls :
    Len(issued) = n /\ (\E g \in Goroutines : pc[g] # "idle")
      ~> Len(issued) # n \/ (\A g \in Goroutines : pc[g] = "idle")
-----------------------------------------------------------------------------
(***************************************************************************)
(* The inductive invariant: the counter is the newest id and a goroutine's *)
(* copy of it is never ahead of it; what a goroutine that is about to swap *)
(* would return exceeds its copy and the seeds; and the ids a goroutine    *)
(* must exceed had been counted when it loaded the counter.                *)
(***************************************************************************)
CounterInv ==
  /\ txCounter = Newest
  /\ \A i \in 1..Len(issued) : issued[i] <= txCounter
  /\ \A g \in Goroutines :
       /\ pc[g] # "idle" => floor[g] <= txCounter
       /\ pc[g] = "cas" => floor[g] <= last[g]
       /\ pc[g] \in {"load", "cas"} => now[g] > SeedMax

=============================================================================
