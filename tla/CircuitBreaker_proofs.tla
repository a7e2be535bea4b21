------------------------ MODULE CircuitBreaker_proofs ------------------------
(***************************************************************************)
(* Proofs about module CircuitBreaker, for any number of concurrent        *)
(* requests and every CBMaxFailures: the breaker lets one probe through in *)
(* half-open state, only that probe decides, and the breaker opens only    *)
(* after CBMaxFailures failures in a row.                                  *)
(***************************************************************************)
EXTENDS CircuitBreaker, SequenceTheorems, FiniteSetTheorems, TLAPS

(***************************************************************************)
(* In half-open state the running requests of the generation are those     *)
(* that the count of probes knows: none, or a single one.                  *)
(***************************************************************************)
ProbeInv ==
  state = "half-open" => /\ probes = 0 => fresh = {}
                         /\ \A q, r \in fresh : q = r

(***************************************************************************)
(* In closed state ConsecutiveFailures is the length of the run of         *)
(* failures at the end of what the generation has counted.                 *)
(***************************************************************************)
CountInv ==
  state = "closed" =>
    /\ Len(recent) <= CBMaxFailures - 1
    /\ failures <= Len(recent)
    /\ \A i \in 1..Len(recent) :
         i > Len(recent) - failures => Failure(recent[i])

(* TypeOK without expired, which the provers handle by itself, and lastEnd, *)
(* on which no other variable depends.                                      *)
CountsOK ==
  /\ state \in {"closed", "open", "half-open"}
  /\ failures \in 0..CBMaxFailures - 1
  /\ probes \in 0..MaxRequests
  /\ fresh \subseteq running /\ running \subseteq Requests
  /\ recent \in Seq(Ends)

BreakerInv == CountsOK /\ ProbeInv /\ CountInv

(* Last(seq, n) is the sequence of the last n elements of seq.             *)
LEMMA LastElements ==
  ASSUME NEW S, NEW seq \in Seq(S), NEW n \in Nat
  PROVE  /\ Last(seq, n) \in Seq(S)
         /\ Len(Last(seq, n)) = IF Len(seq) > n THEN n ELSE Len(seq)
         /\ \A i \in 1..Len(Last(seq, n)) :
              Last(seq, n)[i] = seq[Len(seq) - Len(Last(seq, n)) + i]
  <1> DEFINE m == IF Len(seq) > n THEN Len(seq) - n + 1 ELSE 1
  <1>1. Len(seq) \in Nat
    BY LenProperties
  <1>2. m \in 1..Len(seq) + 1
    BY <1>1
  <1>3. Last(seq, n) = SubSeq(seq, m, Len(seq))
    BY DEF Last
  <1> HIDE DEF m
  <1>4. /\ Last(seq, n) \in Seq(S)
        /\ Len(Last(seq, n)) = IF m <= Len(seq) THEN Len(seq) - m + 1 ELSE 0
        /\ \A i \in 1..Len(seq) - m + 1 : Last(seq, n)[i] = seq[m + i - 1]
    BY <1>1, <1>2, <1>3, SubSeqProperties
  <1>5. Len(Last(seq, n)) = Len(seq) - m + 1
    BY <1>1, <1>2, <1>4
  <1>6. Len(Last(seq, n)) = IF Len(seq) > n THEN n ELSE Len(seq)
    BY <1>1, <1>5 DEF m
  <1>7. \A i \in 1..Len(Last(seq, n)) :
          Last(seq, n)[i] = seq[Len(seq) - Len(Last(seq, n)) + i]
    <2>1. SUFFICES ASSUME NEW i \in 1..Len(Last(seq, n))
                   PROVE  Last(seq, n)[i] = seq[Len(seq) - Len(Last(seq, n)) + i]
      OBVIOUS
    <2>2. m + i - 1 = Len(seq) - Len(Last(seq, n)) + i
      BY <1>1, <1>2, <1>5
    <2>3. Last(seq, n)[i] = seq[m + i - 1]
      BY <1>4, <1>5
    <2> QED
      BY <2>2, <2>3
  <1> QED
    BY <1>4, <1>6, <1>7

(* Facts of the empty sequence that the solver needs spelt out.            *)
LEMMA NothingCounted == << >> \in Seq(Ends) /\ Len(<< >>) = 0
  BY EmptySeq

(* At first the breaker is closed and has counted nothing.                 *)
LEMMA InitBreaker == Init => BreakerInv
  BY CircuitBreakerAssumption, NothingCounted
     DEF Init, BreakerInv, CountsOK, ProbeInv, CountInv, MaxRequests

(* The passing of the timeout changes no count.                            *)
LEMMA TimeoutBreaker == BreakerInv /\ Timeout => BreakerInv'
  BY DEF Timeout, BreakerInv, CountsOK, ProbeInv, CountInv, counts

(* Admitting a request: to a half-open breaker only as its probe.          *)
LEMMA BeginBreaker ==
  ASSUME BreakerInv, NEW r \in Requests, Begin(r)
  PROVE  BreakerInv'
  <1> USE CircuitBreakerAssumption
      DEF BreakerInv, Begin, Admitted, CurrentState, NewGeneration, MaxRequests
  <1>1. CountsOK'
    <2>1. CASE CurrentState # state
      BY <2>1, NothingCounted DEF CountsOK
    <2>2. CASE CurrentState = state
      BY <2>2 DEF CountsOK
    <2> QED
      BY <2>1, <2>2
  <1>2. ProbeInv'
    BY DEF CountsOK, ProbeInv
  <1>3. CountInv'
    BY DEF CountsOK, CountInv
  <1> QED
    BY <1>1, <1>2, <1>3

(* The result of a request that does not trip the breaker is remembered.   *)
LEMMA CountedBreaker ==
  ASSUME BreakerInv, state = "closed", NEW end \in Ends,
         ~(Failure(end) /\ ReadyToTrip),
         state' = state,
         failures' = IF Failure(end) THEN failures + 1 ELSE 0,
         recent' = Last(Append(recent, end), CBMaxFailures - 1)
  PROVE  /\ failures' \in 0..CBMaxFailures - 1
         /\ recent' \in Seq(Ends)
         /\ CountInv'
  <1> USE CircuitBreakerAssumption
  <1> DEFINE n == CBMaxFailures - 1
             all == Append(recent, end)
  <1>1. n \in Nat /\ failures \in 0..n /\ recent \in Seq(Ends) /\ Len(recent) \in Nat
    BY LenProperties DEF BreakerInv, CountsOK
  <1>2. /\ all \in Seq(Ends)
        /\ Len(all) = Len(recent) + 1
        /\ \A i \in 1..Len(recent) : all[i] = recent[i]
        /\ all[Len(recent) + 1] = end
    BY <1>1, AppendProperties
  <1>3. failures' \in 0..n
    BY <1>1 DEF ReadyToTrip
  <1> HIDE DEF n, all
  <1>4. /\ recent' \in Seq(Ends)
        /\ Len(recent') = IF Len(all) > n THEN n ELSE Len(all)
        /\ \A i \in 1..Len(recent') : recent'[i] = all[Len(all) - Len(recent') + i]
    <2>1. recent' = Last(all, n)
      BY DEF all, n
    <2>2. /\ Last(all, n) \in Seq(Ends)
          /\ Len(Last(all, n)) = IF Len(all) > n THEN n ELSE Len(all)
          /\ \A i \in 1..Len(Last(all, n)) :
               Last(all, n)[i] = all[Len(all) - Len(Last(all, n)) + i]
      BY <1>1, <1>2, LastElements
    <2> QED
      BY <2>1, <2>2
  <1>5. Len(recent') \in Nat /\ Len(recent') <= n /\ Len(recent') <= Len(all)
    BY <1>1, <1>2, <1>4
  <1>6. Len(recent) <= n /\ failures <= Len(recent)
    BY DEF BreakerInv, CountInv, n
  <1>7. failures' <= Len(recent')
    BY <1>1, <1>2, <1>3, <1>4, <1>6
  <1>8. ASSUME NEW i \in 1..Len(recent'), i > Len(recent') - failures'
        PROVE  Failure(recent'[i])
    <2> DEFINE k == Len(all) - Len(recent') + i
    <2>1. k \in 1..Len(recent) + 1 /\ recent'[i] = all[k] /\ k > Len(all) - failures'
      BY <1>1, <1>2, <1>3, <1>4, <1>5, <1>8
    <2>2. Failure(end) /\ failures' = failures + 1
      BY <1>3, <1>5, <1>8
    <2> HIDE DEF k
    <2>3. CASE k = Len(recent) + 1
      BY <1>2, <2>1, <2>2, <2>3
    <2>4. CASE k \in 1..Len(recent)
      <3>1. k > Len(recent) - failures
        BY <1>1, <1>2, <2>1, <2>2, <2>4
      <3>2. Failure(recent[k])
        BY <2>4, <3>1 DEF BreakerInv, CountInv
      <3> QED
        BY <1>2, <2>1, <2>4, <3>2
    <2> QED
      BY <1>1, <2>1, <2>3, <2>4
  <1> QED
    BY <1>3, <1>4, <1>5, <1>7, <1>8 DEF CountInv, n

(* The end of a request, counted when it is of the present generation.     *)
LEMMA EndBreaker ==
  ASSUME BreakerInv, NEW r \in Requests, NEW end \in Ends, End(r, end)
  PROVE  BreakerInv'
  <1> USE CircuitBreakerAssumption DEF MaxRequests, NewGeneration
  <1>1. CASE CurrentState # state
    BY <1>1, NothingCounted
       DEF End, CurrentState, BreakerInv, CountsOK, ProbeInv, CountInv
  <1>2. CASE CurrentState = state /\ r \notin fresh
    BY <1>2 DEF End, BreakerInv, CountsOK, ProbeInv, CountInv, counts
  <1>3. CASE CurrentState = state /\ r \in fresh /\ CountHalfOpen(r, end)
    BY <1>3, NothingCounted
       DEF End, CountHalfOpen, BreakerInv, CountsOK, ProbeInv, CountInv
  <1>4. CASE CurrentState = state /\ r \in fresh /\ CountClosed(r, end)
    <2>1. CASE Failure(end) /\ ReadyToTrip
      <3>1. NewGeneration("open") /\ fresh' = {} /\ probes' = probes
        BY <1>4, <2>1 DEF CountClosed
      <3>2. running' = running \ {r}
        BY DEF End
      <3> QED
        BY <3>1, <3>2, NothingCounted DEF BreakerInv, CountsOK, ProbeInv, CountInv
    <2>2. CASE ~(Failure(end) /\ ReadyToTrip)
      <3>1. /\ failures' \in 0..CBMaxFailures - 1
            /\ recent' \in Seq(Ends)
            /\ CountInv'
        BY <1>4, <2>2, CountedBreaker DEF CountClosed
      <3>2. ProbeInv'
        BY <1>4, <2>2 DEF CountClosed, ProbeInv
      <3>3. CountsOK'
        BY <1>4, <2>2, <3>1 DEF End, CountClosed, BreakerInv, CountsOK
      <3> QED
        BY <3>1, <3>2, <3>3 DEF BreakerInv
    <2> QED
      BY <2>1, <2>2
  <1> QED
    BY <1>1, <1>2, <1>3, <1>4 DEF End

(* The invariant is inductive,                                             *)
LEMMA NextBreaker == BreakerInv /\ [Next]_vars => BreakerInv'
  <1> SUFFICES ASSUME BreakerInv, [Next]_vars PROVE BreakerInv'
    OBVIOUS
  <1>1. CASE UNCHANGED vars
    BY <1>1 DEF vars, counts, BreakerInv, CountsOK, ProbeInv, CountInv
  <1>2. CASE Timeout
    BY <1>2, TimeoutBreaker
  <1>3. ASSUME NEW r \in Requests, Begin(r) PROVE BreakerInv'
    BY <1>3, BeginBreaker
  <1>4. ASSUME NEW r \in Requests, NEW end \in Ends, End(r, end) PROVE BreakerInv'
    BY <1>4, EndBreaker
  <1> QED
    BY <1>1, <1>2, <1>3, <1>4 DEF Next, Reject

(* and therefore always true.                                              *)
LEMMA BreakerInvHolds == Spec => []BreakerInv
  BY InitBreaker, NextBreaker, PTL DEF Spec

(* The breaker's counts keep their types in every generation.              *)
THEOREM BreakerTypeCorrect == Spec => []TypeOK
  <1> DEFINE ExpiredOK == expired \in BOOLEAN /\ lastEnd \in Ends \cup {"none"}
  <1>1. Init => ExpiredOK
    BY DEF Init
  <1>2. ExpiredOK /\ [Next]_vars => ExpiredOK'
    BY DEF Next, Timeout, Begin, Reject, End, CountClosed, CountHalfOpen,
           NewGeneration, vars, counts
  <1>3. BreakerInv /\ ExpiredOK => TypeOK
    BY DEF BreakerInv, CountsOK, TypeOK
  <1> HIDE DEF ExpiredOK
  <1> QED
    BY <1>1, <1>2, <1>3, BreakerInvHolds, PTL DEF Spec

(***************************************************************************)
(* MaxRequests = 1 is kept for any number of concurrent requests: at most  *)
(* one request of the half-open generation runs its handler.               *)
(***************************************************************************)
THEOREM SingleProbe == Spec => []OneProbe
  <1>1. BreakerInv => OneProbe
    <2> SUFFICES ASSUME BreakerInv, state = "half-open"
                 PROVE  Cardinality(fresh) <= 1
      BY DEF OneProbe
    <2>1. \A q, r \in fresh : q = r
      BY DEF BreakerInv, ProbeInv
    <2>2. CASE fresh = {}
      BY <2>2, FS_EmptySet
    <2>3. CASE fresh # {}
      <3>1. PICK r : r \in fresh
        BY <2>3
      <3>2. fresh = {r}
        BY <2>1, <3>1
      <3> QED
        BY <3>2, FS_Singleton
    <2> QED
      BY <2>2, <2>3
  <1> QED
    BY <1>1, BreakerInvHolds, PTL

(***************************************************************************)
(* Only the end of a request of the half-open generation makes gobreaker   *)
(* leave the half-open state, and what the middleware reports of that      *)
(* request decides where it goes.                                          *)
(***************************************************************************)
THEOREM OnlyProbeDecides == Spec => ProbeDecides
  <1>1. [Next]_vars =>
          [state = "half-open" /\ state' # state =>
             /\ fresh \cap (running \ running') # {}
             /\ state' = IF lastEnd' = "json" THEN "closed" ELSE "open"]_vars
    <2> SUFFICES ASSUME Next, state = "half-open", state' # state
                 PROVE  /\ fresh \cap (running \ running') # {}
                        /\ state' = IF lastEnd' = "json" THEN "closed" ELSE "open"
      OBVIOUS
    <2>1. PICK r \in Requests, end \in Ends : End(r, end)
      BY DEF Next, Timeout, Begin, Reject, CurrentState, vars
    <2>2. /\ r \in fresh /\ r \in running /\ running' = running \ {r}
          /\ lastEnd' = end
          /\ CountHalfOpen(r, end)
      BY <2>1 DEF End, CurrentState, CountClosed
    <2>3. state' = IF Failure(end) THEN "open" ELSE "closed"
      BY <2>2 DEF CountHalfOpen, NewGeneration
    <2>4. Failure(end) <=> end # "json"
      BY DEF Failure, Ends
    <2> QED
      BY <2>2, <2>3, <2>4
  <1> QED
    BY <1>1, PTL DEF Spec, ProbeDecides

(***************************************************************************)
(* ReadyToTrip of the middleware counts what the middleware reports: the   *)
(* breaker opens only when the request that trips it and the               *)
(* CBMaxFailures - 1 requests counted before it were all reported as       *)
(* errors.                                                                 *)
(***************************************************************************)
THEOREM TripsOnConsecutiveFailures == Spec => OpensAfterConsecutiveFailures
  <1>1. BreakerInv /\ [Next]_vars =>
          [state = "closed" /\ state' = "open" =>
             /\ Len(recent) = CBMaxFailures - 1
             /\ \A i \in 1..Len(recent) : Failure(recent[i])
             /\ Failure(lastEnd')]_vars
    <2> SUFFICES ASSUME BreakerInv, Next, state = "closed", state' = "open"
                 PROVE  /\ Len(recent) = CBMaxFailures - 1
                        /\ \A i \in 1..Len(recent) : Failure(recent[i])
                        /\ Failure(lastEnd')
      OBVIOUS
    <2>1. PICK r \in Requests, end \in Ends : End(r, end)
      BY DEF Next, Timeout, Begin, Reject, CurrentState, vars
    <2>2. ReadyToTrip /\ Failure(end) /\ lastEnd' = end
      BY <2>1 DEF End, CurrentState, CountClosed, CountHalfOpen, counts
    <2>3. Len(recent) \in Nat /\ failures \in 0..CBMaxFailures - 1
      BY LenProperties DEF BreakerInv, CountsOK
    <2>4. Len(recent) = CBMaxFailures - 1 /\ failures = Len(recent)
      BY <2>2, <2>3, CircuitBreakerAssumption DEF ReadyToTrip, BreakerInv, CountInv
    <2>5. \A i \in 1..Len(recent) : Failure(recent[i])
      BY <2>3, <2>4 DEF BreakerInv, CountInv
    <2> QED
      BY <2>2, <2>4, <2>5
  <1> QED
    BY <1>1, BreakerInvHolds, PTL DEF Spec, OpensAfterConsecutiveFailures
=============================================================================
