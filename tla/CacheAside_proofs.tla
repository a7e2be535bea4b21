--------------------------- MODULE CacheAside_proofs ---------------------------
(***************************************************************************)
(* The bound on what the cache may hand out, for any number of keys,       *)
(* readers and transfers and any times to live.                            *)
(***************************************************************************)
EXTENDS CacheAside, TLAPS

Inv == TypeOK /\ AgeInv

(* The types of a reader's copy and of an entry of the cache.              *)
Copies(k) == [val : Values(k), old : Nat, why : {"ok", "lag"}]
Entries(k) == [val : Values(k), old : Nat, ttl : Nat \ {0}, why : {"ok", "lag", "race"}]

(* What the arithmetic below needs to know of the constants.               *)
LEMMA Times ==
  /\ BalanceTTL \in Nat \ {0} /\ PendingTTL \in Nat \ {0} /\ TxStatusTTL \in Nat \ {0}
  /\ MaxRequest \in Nat /\ MaxLag \in Nat
  BY CacheAssumption

(* The time to live is what the limit allows for the value.                *)
LEMMA TTLWithinLimit ==
  ASSUME NEW k, NEW v
  PROVE  /\ TTL(k, v) \in Nat \ {0}
         /\ Limit(k, v) = MaxLag + MaxRequest + TTL(k, v)
  BY Times DEF TTL, Limit

(* At first every copy is as old as the value itself.                      *)
LEMMA InitInv == Init => Inv
  <1> SUFFICES ASSUME Init PROVE TypeOK /\ AgeInv
    BY DEF Inv
  <1>1. \A k \in Keys : primary[k] \in Values(k) /\ replica[k] \in Values(k)
    BY DEF Init, Values
  <1>2. \A r \in Readers : at[r] = "idle" /\ age[r] \in 0..MaxRequest
    BY Times DEF Init
  <1>3. \A k \in Keys : cache[k] = None
    BY DEF Init
  <1>4. TypeOK
    BY Times, <1>1, <1>2, <1>3 DEF Init, TypeOK
  <1>5. AgeInv
    BY <1>2, <1>3 DEF Init, AgeInv
  <1> QED
    BY <1>4, <1>5

(* Steps that leave replica lag, cache and read requests alone.            *)
LEMMA WriterInv ==
  ASSUME Inv, NEW tx \in Txs, Writer(tx) PROVE Inv'
  <1> USE CacheAssumption DEF Inv, Goto, Write, WithStatus, Settled, readVars, dbVars, Keys
  <1>1. CASE SyncCommit(tx) \/ SavePending(tx) \/ Settle(tx)
    <2>1. TypeOK'
      BY <1>1 DEF SyncCommit, SavePending, Settle, TypeOK, Values
    <2>2. AgeInv'
      BY <1>1 DEF SyncCommit, SavePending, Settle, AgeInv, Limit
    <2> QED BY <2>1, <2>2
  <1>2. CASE SettleUnaware(tx) \/ MarkFailed(tx)
    <2>1. TypeOK'
      BY <1>2 DEF SettleUnaware, MarkFailed, TypeOK, Values
    <2>2. AgeInv'
      BY <1>2 DEF SettleUnaware, MarkFailed, AgeInv, Limit
    <2> QED BY <2>1, <2>2
  <1>3. CASE InvalidateBalance(tx) \/ InvalidateTxStatus(tx)
    <2>1. TypeOK'
      BY <1>3 DEF InvalidateBalance, InvalidateTxStatus, Delete, DeleteFails, TypeOK, Values
    <2>2. AgeInv'
      BY <1>3 DEF InvalidateBalance, InvalidateTxStatus, Delete, DeleteFails, TypeOK,
                  AgeInv, Limit
    <2> QED BY <2>1, <2>2
  <1> QED
    BY <1>1, <1>2, <1>3 DEF Writer

(* A reader's copy is no older than the lag and the life of its request,   *)
(* and so the entry it stores is within the limit.                         *)
LEMMA ReaderInv ==
  ASSUME Inv, NEW r \in Readers, Reader(r) PROVE Inv'
  <1> USE Times DEF Inv, dbVars, Done, NoCopy
  <1>1. CASE \E k \in Keys : Hit(r, k)
    BY <1>1 DEF Hit, vars, readVars, TypeOK, AgeInv, Values, Limit
  <1>2. CASE \E k \in Keys : Miss(r, k)
    <2>1. TypeOK'
      BY <1>2 DEF Miss, TypeOK, Values
    <2>2. AgeInv'
      BY <1>2 DEF Miss, TypeOK, AgeInv, Limit
    <2> QED BY <2>1, <2>2
  <1>3. CASE Query(r)
    <2>1. TypeOK'
      BY <1>3 DEF Query, TypeOK, Values
    <2>2. AgeInv'
      BY <1>3 DEF Query, TypeOK, AgeInv, Limit
    <2> QED BY <2>1, <2>2
  <1>4. CASE Store(r)
    <2> DEFINE k == key[r]
    <2>1. k \in Keys /\ got[r] \in Copies(k)
      BY <1>4 DEF Store, TypeOK, Copies, Entries
    <2>2. TTL(k, got[r].val) \in Nat \ {0}
      BY TTLWithinLimit
    <2>3. got[r].old + TTL(k, got[r].val) <= Limit(k, got[r].val)
      BY <1>4, <2>1, <2>2, TTLWithinLimit DEF Store, TypeOK, AgeInv
    <2>4. TypeOK'
      <3> DEFINE entry == [val |-> got[r].val, old |-> got[r].old,
                           ttl |-> TTL(k, got[r].val), why |-> Reason(r)]
      <3>1. Reason(r) \in {"ok", "lag", "race"}
        BY DEF Reason
      <3>2. entry \in Entries(k)
        BY <2>1, <2>2, <3>1 DEF Entries, Copies
      <3>3. cache' = [cache EXCEPT ![k] = entry] \/ cache' = cache
        BY <1>4 DEF Store
      <3> HIDE DEF entry
      <3>4. DOMAIN cache' = Keys /\ \A x \in Keys : cache'[x] # None => cache'[x] \in Entries(x)
        BY <3>2, <3>3 DEF TypeOK, Copies, Entries
      <3>5. \A q \in Readers : /\ at'[q] # "idle" => key'[q] \in Keys
                               /\ at'[q] = "store" => got'[q] \in Copies(key'[q])
        BY <1>4 DEF Store, TypeOK, Copies, Entries
      <3>6. /\ at' \in [Readers -> {"idle", "query", "store"}]
            /\ DOMAIN key' = Readers /\ DOMAIN got' = Readers
            /\ age' \in [Readers -> 0..MaxRequest]
        BY <1>4 DEF Store, TypeOK
      <3>7. UNCHANGED <<primary, replica, behind, lag, writer, lost>>
        BY <1>4 DEF Store
      <3> QED
        BY <3>4, <3>5, <3>6, <3>7 DEF TypeOK, Values, Copies, Entries
    <2>5. AgeInv'
      <3>1. \A q \in Readers : at'[q] = "store" => got'[q].old <= MaxLag + age'[q]
        BY <1>4 DEF Store, TypeOK, AgeInv
      <3>2. \A x \in Keys : cache'[x] # None =>
              cache'[x].old + cache'[x].ttl <= Limit(x, cache'[x].val)
        BY <1>4, <2>1, <2>2, <2>3 DEF Store, TypeOK, AgeInv
      <3> QED
        BY <1>4, <3>1, <3>2 DEF Store, AgeInv, Limit
    <2> QED BY <2>4, <2>5
  <1> QED
    BY <1>1, <1>2, <1>3, <1>4 DEF Reader

LEMMA ReplicateInv ==
  ASSUME Inv, Replicate PROVE Inv'
  BY Times DEF Inv, Replicate, readVars, TypeOK, AgeInv, Values, Limit

(* With every tick a superseded copy grows older by one and its time to    *)
(* live shorter by one.                                                    *)
LEMMA TickInv ==
  ASSUME Inv, Tick PROVE Inv'
  <1> USE Times DEF Inv
  <1>1. lag' \in 0..MaxLag /\ \A k \in Keys : behind'[k] <= lag'
    BY DEF Tick, TypeOK, AgeInv, Older
  <1>2. ASSUME NEW k \in Keys, cache'[k] # None
        PROVE  /\ cache'[k] \in Entries(k)
               /\ cache'[k].old + cache'[k].ttl <= Limit(k, cache'[k].val)
    <2>1. cache[k] # None /\ cache'[k] = Expire(k)
      BY <1>2 DEF Tick
    <2>2. cache[k] \in Entries(k)
      BY <2>1 DEF TypeOK, Copies, Entries
    <2>3. cache[k].ttl # 1 /\ cache'[k] = [cache[k] EXCEPT !.ttl = @ - 1,
                                                          !.old = Older(@, k, cache[k].val)]
      BY <1>2, <2>1 DEF Expire
    <2>4. Older(cache[k].old, k, cache[k].val) \in {cache[k].old, cache[k].old + 1}
      BY DEF Older
    <2>5. /\ cache'[k].val = cache[k].val /\ cache'[k].why = cache[k].why
          /\ cache'[k].ttl = cache[k].ttl - 1
          /\ cache'[k].old \in {cache[k].old, cache[k].old + 1}
      BY <2>2, <2>3, <2>4
    <2>6. cache[k].old + cache[k].ttl <= Limit(k, cache[k].val)
      BY <2>1 DEF AgeInv
    <2>7. Limit(k, cache[k].val) \in Nat
      BY DEF Limit
    <2>8. cache'[k].old + cache'[k].ttl <= Limit(k, cache'[k].val)
      BY <2>2, <2>3, <2>5, <2>6, <2>7 DEF Copies, Entries
    <2>9. cache[k].ttl - 1 \in Nat \ {0} /\ Older(cache[k].old, k, cache[k].val) \in Nat
      BY <2>2, <2>3, <2>4 DEF Copies, Entries
    <2>10. cache'[k] \in Entries(k)
      BY <2>2, <2>3, <2>9 DEF Copies, Entries
    <2> QED
      BY <2>8, <2>10
  <1>3. ASSUME NEW r \in Readers, at'[r] # "idle"
        PROVE  /\ at'[r] = at[r] /\ key'[r] = key[r] /\ key[r] \in Keys
               /\ age'[r] = age[r] + 1 /\ age'[r] \in 0..MaxRequest
               /\ at[r] = "store" => /\ got'[r] \in Copies(key[r])
                                     /\ got'[r].old <= MaxLag + age'[r]
    <2>1. at[r] # "idle" /\ age[r] # MaxRequest
      BY <1>3 DEF Tick
    <2>2. at'[r] = at[r] /\ key'[r] = key[r] /\ key[r] \in Keys
      BY <2>1 DEF Tick, TypeOK
    <2>3. age'[r] = age[r] + 1 /\ age'[r] \in 0..MaxRequest
      <3>1. age[r] \in 0..MaxRequest
        BY DEF TypeOK
      <3>2. age'[r] = age[r] + 1
        BY <2>1 DEF Tick
      <3> QED
        BY <2>1, <3>1, <3>2
    <2>4. ASSUME at[r] = "store"
          PROVE  /\ got'[r] \in Copies(key[r])
                 /\ got'[r].old <= MaxLag + age'[r]
      <3>1. got[r] \in Copies(key[r]) /\ got[r].old <= MaxLag + age[r]
        BY <2>4 DEF TypeOK, AgeInv, Copies, Entries
      <3>2. got'[r] = [got[r] EXCEPT !.old = Older(@, key[r], got[r].val)]
        BY <2>1, <2>4 DEF Tick
      <3>3. Older(got[r].old, key[r], got[r].val) \in {got[r].old, got[r].old + 1}
        BY DEF Older
      <3>4. age[r] \in Nat
        BY DEF TypeOK
      <3> QED
        BY <2>3, <3>1, <3>2, <3>3, <3>4 DEF Copies, Entries
    <2> QED
      BY <2>2, <2>3, <2>4
  <1>4. TypeOK'
    <2>1. /\ at' \in [Readers -> {"idle", "query", "store"}]
          /\ DOMAIN key' = Readers /\ DOMAIN got' = Readers
      BY DEF Tick, TypeOK
    <2>2. age' \in [Readers -> 0..MaxRequest]
      <3>1. age' = [r \in Readers |-> IF at[r] = "idle" \/ age[r] = MaxRequest
                                       THEN 0 ELSE age[r] + 1]
        BY DEF Tick
      <3>2. \A r \in Readers : age[r] \in 0..MaxRequest
        BY DEF TypeOK
      <3> QED
        BY <3>1, <3>2
    <2>3. behind' \in [Keys -> Nat]
      BY DEF Tick, TypeOK, Older
    <2>4. DOMAIN cache' = Keys
      BY DEF Tick
    <2>5. UNCHANGED <<primary, replica, writer, lost>>
      BY DEF Tick
    <2> QED
      BY <1>1, <1>2, <1>3, <2>1, <2>2, <2>3, <2>4, <2>5 DEF TypeOK, Values, Copies, Entries
  <1>5. AgeInv'
    BY <1>1, <1>2, <1>3 DEF AgeInv, Limit
  <1> QED
    BY <1>4, <1>5

(* The invariant is inductive.                                             *)
LEMMA NextInv == Inv /\ [Next]_vars => Inv'
  <1> SUFFICES ASSUME Inv, [Next]_vars PROVE Inv'
    OBVIOUS
  <1>1. CASE \E r \in Readers : Reader(r)
    BY <1>1, ReaderInv
  <1>2. CASE \E tx \in Txs : Writer(tx)
    BY <1>2, WriterInv
  <1>3. CASE Replicate
    BY <1>3, ReplicateInv
  <1>4. CASE Tick
    BY <1>4, TickInv
  <1>5. CASE UNCHANGED vars
    BY <1>5 DEF Inv, vars, dbVars, readVars, TypeOK, AgeInv, Values, Limit
  <1> QED
    BY <1>1, <1>2, <1>3, <1>4, <1>5 DEF Next

(***************************************************************************)
(* Type correctness, and how old the copies of the replica, of a reader    *)
(* and of the cache may be.                                                *)
(***************************************************************************)
THEOREM CopiesAge == Spec => [](TypeOK /\ AgeInv)
  <1>1. Init => Inv
    BY InitInv
  <1>2. Inv /\ [Next]_vars => Inv'
    BY NextInv
  <1> QED
    BY <1>1, <1>2, PTL DEF Spec, Inv

(***************************************************************************)
(* GetBalance and GetTransactionStatus never answer from an entry that was *)
(* superseded longer ago than its time to live, the replica's lag and the  *)
(* life of a request together, even if no key is ever deleted.             *)
(***************************************************************************)
THEOREM StalenessBounded == Spec => []BoundedStaleness
  <1>1. Inv => BoundedStaleness
    <2> SUFFICES ASSUME Inv, NEW k \in Keys, Stale(k)
                 PROVE  cache[k].old < Limit(k, cache[k].val)
      BY DEF BoundedStaleness
    <2>1. cache[k].old \in Nat /\ cache[k].ttl \in Nat \ {0}
      BY DEF Inv, TypeOK, Stale
    <2>2. cache[k].old + cache[k].ttl <= Limit(k, cache[k].val)
      BY DEF Inv, AgeInv, Stale
    <2>3. Limit(k, cache[k].val) \in Nat
      BY Times DEF Limit
    <2> QED
      BY <2>1, <2>2, <2>3
  <1> QED
    BY <1>1, CopiesAge, PTL DEF Inv

(* Every reachable state is well typed.                                    *)
THEOREM CacheTypeCorrect == Spec => []TypeOK
  BY CopiesAge, PTL
-----------------------------------------------------------------------------
(***************************************************************************)
(* Invalidation.  A transaction that nobody has written yet has left no    *)
(* copy of its status anywhere, so that SyncCommit and SavePending, which  *)
(* delete no key tx_status, supersede none.                                *)
(***************************************************************************)
UnwrittenInv ==
  \A tx \in Txs : writer[tx] = "none" =>
    /\ primary[tx] = None /\ replica[tx] = None /\ cache[tx] = None
    /\ \A r \in Readers : at[r] = "store" => key[r] # tx

(* An entry that turns stale after it was stored right has its deletion    *)
(* before it, or the deletion was lost, or is not in the code.             *)
MarkedInv ==
  \A k \in Keys : Stale(k) =>
    \/ cache[k].why \in {"race", "lag"}
    \/ Outstanding(k)
    \/ k \in lost
    \/ k \in Txs /\ primary[k] = "failed"

(* Without a replica no copy comes from one.                               *)
OriginInv ==
  ~HasReplica =>
    /\ replica = primary
    /\ \A r \in Readers : at[r] = "store" => got[r].why # "lag"
    /\ \A k \in Keys : cache[k] # None => cache[k].why # "lag"

RaceInv == UnwrittenInv /\ MarkedInv /\ OriginInv

(* At first the cache is empty.                                            *)
LEMMA InitRace == Init => RaceInv
  <1> SUFFICES ASSUME Init PROVE RaceInv
    OBVIOUS
  <1>1. \A k \in Txs : k \in Keys /\ k \notin Accounts
    BY CacheAssumption DEF Keys
  <1>2. UnwrittenInv
    BY <1>1 DEF Init, UnwrittenInv
  <1>3. MarkedInv
    BY DEF Init, MarkedInv, Stale
  <1>4. OriginInv
    BY DEF Init, OriginInv
  <1> QED
    BY <1>2, <1>3, <1>4 DEF RaceInv

(* Readers take a copy only of what the replica holds, and mark an entry   *)
(* that is wrong when they store it.                                       *)
LEMMA ReaderRace ==
  ASSUME Inv, RaceInv, NEW r \in Readers, Reader(r) PROVE RaceInv'
  <1> USE DEF RaceInv
  <1>1. UNCHANGED <<primary, replica, writer, lost>>
    BY DEF Reader, Hit, Miss, Query, Store, vars, dbVars
  <1>2. \A k \in Keys : Outstanding(k)' = Outstanding(k)
    BY <1>1 DEF Outstanding
  <1>3. CASE UNCHANGED cache
    <2>1. UnwrittenInv'
      <3>1. \A q \in Readers : at'[q] = "store" =>
              \/ at[q] = "store" /\ key'[q] = key[q]
              \/ key'[q] = key[q] /\ replica[key[q]] # None
        BY DEF Reader, Hit, Miss, Query, Store, Done, vars, readVars, Inv, TypeOK
      <3> QED
        BY <1>1, <1>3, <3>1 DEF UnwrittenInv
    <2>2. MarkedInv'
      BY <1>1, <1>2, <1>3 DEF MarkedInv, Stale
    <2>3. OriginInv'
      <3>1. \A q \in Readers : at'[q] = "store" =>
              \/ at[q] = "store" /\ got'[q] = got[q]
              \/ replica = primary => got'[q].why # "lag"
        BY DEF Reader, Hit, Miss, Query, Store, Done, vars, readVars, Inv, TypeOK
      <3> QED
        BY <1>1, <1>3, <3>1 DEF OriginInv
    <2> QED
      BY <2>1, <2>2, <2>3
  <1>4. CASE Store(r) /\ cache' = [cache EXCEPT ![key[r]] =
                    [val |-> got[r].val, old |-> got[r].old,
                     ttl |-> TTL(key[r], got[r].val),
                     why |-> Reason(r)]]
    <2>1. key[r] \in Keys /\ DOMAIN cache = Keys /\ at[r] = "store"
      BY <1>4 DEF Store, Inv, TypeOK
    <2>2. \A k \in Keys \ {key[r]} : cache'[k] = cache[k]
      BY <1>4, <2>1
    <2>3. /\ cache'[key[r]].val = got[r].val
          /\ cache'[key[r]].why = Reason(r)
      BY <1>4, <2>1
    <2>4. UnwrittenInv'
      <3>1. \A tx \in Txs : tx \in Keys
        BY DEF Keys
      <3>2. \A q \in Readers : at'[q] = "store" => at[q] = "store" /\ key'[q] = key[q]
        BY <1>4 DEF Store, Done, Inv, TypeOK
      <3> QED
        BY <1>1, <2>1, <2>2, <3>1, <3>2 DEF UnwrittenInv
    <2>5. ASSUME NEW k \in Keys, Stale(k)'
          PROVE  \/ cache'[k].why \in {"race", "lag"} \/ Outstanding(k)
                 \/ k \in lost \/ (k \in Txs /\ primary[k] = "failed")
      <3>1. CASE k = key[r]
        BY <1>1, <2>3, <2>5, <3>1 DEF Stale, Reason
      <3>2. CASE k # key[r]
        BY <1>1, <2>2, <2>5, <3>2 DEF Stale, MarkedInv
      <3> QED
        BY <3>1, <3>2
    <2>6. MarkedInv'
      BY <1>1, <1>2, <2>5 DEF MarkedInv
    <2>7. OriginInv'
      <3>1. \A q \in Readers : at'[q] = "store" => at[q] = "store" /\ got'[q] = got[q]
        BY <1>4 DEF Store, Done, Inv, TypeOK
      <3>2. Reason(r) = "lag" => got[r].why = "lag"
        BY DEF Reason
      <3> QED
        BY <1>1, <2>1, <2>2, <2>3, <3>1, <3>2 DEF OriginInv
    <2> QED
      BY <2>4, <2>6, <2>7
  <1> QED
    BY <1>3, <1>4 DEF Reader, Hit, Miss, Query, Store, vars

(***************************************************************************)
(* A writer whose commit supersedes entries has their deletion before it,  *)
(* or has marked the transaction failed, and a deletion takes all that it  *)
(* was to take.                                                            *)
(***************************************************************************)
LEMMA WriterRace ==
  ASSUME Inv, RaceInv, NEW tx \in Txs, Writer(tx) PROVE RaceInv'
  <1> USE CacheAssumption DEF RaceInv
  <1>1. /\ UNCHANGED <<at, key, got>>
        /\ \A u \in Txs \ {tx} : writer'[u] = writer[u]
        /\ writer'[tx] # "none"
        /\ lost \subseteq lost'
    BY DEF Writer, SyncCommit, SavePending, Settle, SettleUnaware, MarkFailed,
           InvalidateBalance, InvalidateTxStatus, Goto, Delete, DeleteFails, readVars,
           Inv, TypeOK
  <1>2. tx \in Keys /\ \A k \in Touches[tx] : k \in Keys /\ k \notin Txs
    BY DEF Keys
  <1>3. CASE \/ SyncCommit(tx) \/ SavePending(tx) \/ Settle(tx)
             \/ SettleUnaware(tx) \/ MarkFailed(tx)
    <2>1. UNCHANGED cache /\ (replica' = replica \/ replica' = primary')
      BY <1>3 DEF SyncCommit, SavePending, Settle, SettleUnaware, MarkFailed, Write
    <2>2. \A k \in Keys : k # tx /\ k \notin Touches[tx] => primary'[k] = primary[k]
      BY <1>3 DEF SyncCommit, SavePending, Settle, SettleUnaware, MarkFailed, Write,
                  Settled, WithStatus, Inv, TypeOK
    <2>3. \A k \in Touches[tx] : \/ primary'[k] = primary[k]
                                 \/ writer'[tx] \in {"syncCommitted", "settled"}
                                 \/ k \in lost'
      BY <1>2, <1>3 DEF SyncCommit, SavePending, Settle, SettleUnaware, MarkFailed, Write,
                  Goto, WithStatus, Inv, TypeOK
    <2>4. \/ cache[tx] = None
          \/ writer'[tx] = "settled"
          \/ tx \in lost'
          \/ primary'[tx] = "failed"
      BY <1>2, <1>3 DEF SyncCommit, SavePending, Settle, SettleUnaware, MarkFailed, Goto,
                  Write, WithStatus, UnwrittenInv, Inv, TypeOK
    <2>5. UnwrittenInv'
      <3>1. \A u \in Txs \ {tx} : primary'[u] = primary[u] /\ u \in Keys
        BY <1>2, <2>2 DEF Keys
      <3> QED
        BY <1>1, <2>1, <3>1 DEF UnwrittenInv
    <2>6. \A k \in Keys : Outstanding(k) => Outstanding(k)'
      <3>1. writer[tx] \in {"none", "pending", "unaware"}
        BY <1>3 DEF SyncCommit, SavePending, Settle, SettleUnaware, MarkFailed, Goto
      <3> QED
        BY <1>1, <3>1 DEF Outstanding
    <2>7. ASSUME NEW k \in Keys, Stale(k)'
          PROVE  \/ cache[k].why \in {"race", "lag"} \/ Outstanding(k)'
                 \/ k \in lost' \/ (k \in Txs /\ primary'[k] = "failed")
      <3>1. CASE k = tx
        BY <2>1, <2>4, <2>7, <3>1 DEF Stale, Outstanding
      <3>2. CASE k \in Touches[tx] /\ primary'[k] # primary[k]
        BY <2>3, <3>2 DEF Outstanding
      <3>3. CASE primary'[k] = primary[k]
        BY <1>1, <2>1, <2>6, <2>7, <3>3 DEF Stale, MarkedInv
      <3> QED
        BY <2>2, <3>1, <3>2, <3>3
    <2>8. MarkedInv'
      BY <2>1, <2>7 DEF MarkedInv
    <2>9. OriginInv'
      <3>1. ~HasReplica => replica' = primary'
        BY <1>3 DEF SyncCommit, SavePending, Settle, SettleUnaware, MarkFailed, Write
      <3> QED
        BY <1>1, <2>1, <3>1 DEF OriginInv
    <2> QED
      BY <2>5, <2>8, <2>9
  <1>4. CASE InvalidateBalance(tx) \/ InvalidateTxStatus(tx)
    <2>1. UNCHANGED <<primary, replica>>
      BY <1>4 DEF InvalidateBalance, InvalidateTxStatus, dbVars
    <2>2. PICK D \in SUBSET Keys :
            /\ \A k \in Keys : cache'[k] = cache[k] \/ cache'[k] = None
            /\ \A k \in D : cache'[k] = None \/ k \in lost'
            /\ \/ D = Touches[tx] /\ writer[tx] = "syncCommitted"
               \/ D = Touches[tx] /\ writer[tx] = "settled" /\ writer'[tx] = "balancesDropped"
               \/ D = {tx} /\ writer[tx] = "balancesDropped"
      <3>1. ASSUME NEW D \in SUBSET Keys, Delete(D) \/ DeleteFails(D)
            PROVE  /\ \A k \in Keys : cache'[k] = cache[k] \/ cache'[k] = None
                   /\ \A k \in D : cache'[k] = None \/ k \in lost'
        BY <3>1 DEF Delete, DeleteFails
      <3>2. CASE InvalidateBalance(tx)
        <4>1. Delete(Touches[tx]) \/ DeleteFails(Touches[tx])
          BY <3>2 DEF InvalidateBalance
        <4>2. \/ writer[tx] = "syncCommitted"
              \/ writer[tx] = "settled" /\ writer'[tx] = "balancesDropped"
          BY <3>2 DEF InvalidateBalance, Goto, Inv, TypeOK
        <4>3. Touches[tx] \in SUBSET Keys
          BY <1>2
        <4> QED
          BY <3>1, <4>1, <4>2, <4>3
      <3>3. CASE InvalidateTxStatus(tx)
        <4>1. Delete({tx}) \/ DeleteFails({tx})
          BY <3>3 DEF InvalidateTxStatus
        <4>2. writer[tx] = "balancesDropped"
          BY <3>3 DEF InvalidateTxStatus, Goto
        <4>3. {tx} \in SUBSET Keys
          BY <1>2
        <4> QED
          BY <3>1, <4>1, <4>2, <4>3
      <3> QED
        BY <1>4, <3>2, <3>3
    <2>3. UnwrittenInv'
      <3>1. \A u \in Txs : u \in Keys
        BY DEF Keys
      <3> QED
        BY <1>1, <2>1, <2>2, <3>1 DEF UnwrittenInv
    <2>4. \A k \in Keys : Outstanding(k) => Outstanding(k)' \/ k \in D
      BY <1>1, <2>2 DEF Outstanding
    <2>5. ASSUME NEW k \in Keys, Stale(k)'
          PROVE  \/ cache'[k].why \in {"race", "lag"} \/ Outstanding(k)'
                 \/ k \in lost' \/ (k \in Txs /\ primary'[k] = "failed")
      <3>1. cache'[k] = cache[k] /\ Stale(k)
        BY <2>1, <2>2, <2>5 DEF Stale
      <3>2. \/ cache[k].why \in {"race", "lag"} \/ Outstanding(k)
            \/ k \in lost \/ (k \in Txs /\ primary[k] = "failed")
        BY <3>1 DEF MarkedInv
      <3>3. k \in D => k \in lost'
        BY <2>2, <2>5 DEF Stale
      <3> QED
        BY <1>1, <2>1, <2>4, <3>1, <3>2, <3>3
    <2>6. OriginInv'
      BY <1>1, <2>1, <2>2 DEF OriginInv
    <2> QED
      BY <2>3, <2>5, <2>6 DEF MarkedInv
  <1> QED
    BY <1>3, <1>4 DEF Writer

(* Neither the replica nor the clock makes an entry stale.                 *)
LEMMA ClockRace ==
  ASSUME Inv, RaceInv, Replicate \/ Tick \/ UNCHANGED vars PROVE RaceInv'
  <1> USE DEF RaceInv
  <1>1. UNCHANGED <<primary, writer, lost>> /\ (replica' = replica \/ replica' = primary)
    BY DEF Replicate, Tick, vars, dbVars
  <1>2. \A k \in Keys : cache'[k] # None =>
          cache[k] # None /\ cache'[k].val = cache[k].val /\ cache'[k].why = cache[k].why
    <2>1. CASE UNCHANGED cache
      BY <2>1
    <2>2. CASE Tick
      <3> SUFFICES ASSUME NEW k \in Keys, cache'[k] # None
                   PROVE  /\ cache[k] # None /\ cache'[k].val = cache[k].val
                          /\ cache'[k].why = cache[k].why
        OBVIOUS
      <3>1. cache[k] # None /\ cache'[k] = Expire(k)
        BY <2>2 DEF Tick
      <3>2. cache[k] \in Entries(k)
        BY <3>1 DEF Inv, TypeOK, Entries
      <3>3. cache'[k] = [cache[k] EXCEPT !.ttl = @ - 1, !.old = Older(@, k, cache[k].val)]
        BY <3>1 DEF Expire
      <3> QED
        BY <3>1, <3>2, <3>3 DEF Entries
    <2> QED
      BY <2>1, <2>2 DEF Replicate, vars
  <1>3. \A r \in Readers : at'[r] = "store" => at[r] = "store" /\ key'[r] = key[r]
    BY DEF Replicate, Tick, vars, readVars
  <1>4. UnwrittenInv'
    <2>1. \A tx \in Txs : tx \in Keys
      BY DEF Keys
    <2> QED
      BY <1>1, <1>2, <1>3, <2>1 DEF UnwrittenInv
  <1>5. MarkedInv'
    BY <1>1, <1>2 DEF MarkedInv, Stale, Outstanding
  <1>6. OriginInv'
    <2>1. \A r \in Readers : at'[r] = "store" => at[r] = "store" /\ got'[r].why = got[r].why
      <3>1. CASE UNCHANGED readVars
        BY <3>1 DEF readVars
      <3>2. CASE Tick
        <4> SUFFICES ASSUME NEW r \in Readers, at'[r] = "store"
                     PROVE  at[r] = "store" /\ got'[r].why = got[r].why
          OBVIOUS
        <4>1. /\ at[r] = "store" /\ age[r] # MaxRequest
              /\ got'[r] = [got[r] EXCEPT !.old = Older(@, key[r], got[r].val)]
          BY <3>2 DEF Tick
        <4>2. got[r] \in Copies(key[r])
          BY <4>1 DEF Inv, TypeOK, Copies
        <4> QED
          BY <4>1, <4>2 DEF Copies
      <3> QED
        BY <3>1, <3>2 DEF Replicate, vars
    <2> QED
      BY <1>1, <1>2, <2>1 DEF OriginInv
  <1> QED
    BY <1>4, <1>5, <1>6

(***************************************************************************)
(* What the explicit invalidation achieves, for any number of readers and  *)
(* transfers: a settlement deletes every key it supersedes, so that a      *)
(* wrong entry is one that a write overtook on its way to the cache, one   *)
(* copied from a lagging replica, one whose deletion is on its way or has  *)
(* failed, or the status of a transaction marked failed.                   *)
(***************************************************************************)
THEOREM StaleEntriesExplained == Spec => []StaleExplained
  <1>1. Inv /\ RaceInv /\ [Next]_vars => RaceInv'
    BY ReaderRace, WriterRace, ClockRace DEF Next
  <1>2. RaceInv => StaleExplained
    BY DEF RaceInv, MarkedInv, OriginInv, StaleExplained, Stale
  <1>3. TypeOK /\ AgeInv => Inv
    BY DEF Inv
  <1> QED
    BY <1>1, <1>2, <1>3, InitRace, CopiesAge, PTL DEF Spec
=============================================================================
