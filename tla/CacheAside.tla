------------------------------ MODULE CacheAside ------------------------------
(***************************************************************************)
(* GetBalance and GetTransactionStatus over the Redis cache: look into the *)
(* cache, on a miss query the (replica) database and store the answer with *)
(* a time to live; against the writers, which change the database and      *)
(* delete the keys concerned afterwards.                                   *)
(*                                                                         *)
(* A balance is the number of transfers that made it; a status is itself.  *)
(* Redis (expiry, errors, which the code ignores) and the replica are      *)
(* external.  Time passes in ticks; every copy of a value carries how many *)
(* ticks ago the primary stopped to hold that value (old, history only).   *)
(***************************************************************************)
EXTENDS Integers

CONSTANTS
  Accounts, Txs,     \* keys balance:<id> and tx_status:<id>
  Touches,           \* the accounts of each transfer
  Readers,           \* concurrent read requests
  None,
  HasReplica,
  BalanceTTL,        \* CACHE_BALANCE_TTL
  PendingTTL,        \* 2 seconds
  TxStatusTTL,       \* CACHE_TX_STATUS_TTL
  MaxRequest,        \* ContextTimeout: life of a request
  MaxLag             \* assumed bound on the replica's lag

ASSUME CacheAssumption ==
  /\ Accounts \cap Txs = {}
  /\ Touches \in [Txs -> SUBSET Accounts]
  /\ None \notin Accounts \cup Txs
  /\ HasReplica \in BOOLEAN
  /\ {BalanceTTL, PendingTTL, TxStatusTTL} \subseteq Nat \ {0}
  /\ {MaxRequest, MaxLag} \subseteq Nat

Keys == Accounts \cup Txs

VARIABLES
  primary,           \* the committed value of each key, None: no row
  replica,           \* what GetByID reads
  behind,            \* ticks since the replica's value was superseded
  lag,               \* ticks since the replica last agreed with the primary
  cache,             \* Redis: an entry for each key, or None
  at,                \* where a read request is
  key,               \* what it is about
  got,               \* the copy it has read
  age,               \* ticks since it began
  writer,            \* how far the writer of each transfer has got
  lost               \* keys whose deletion was due and failed (history)

dbVars == <<primary, replica, behind, lag>>
readVars == <<at, key, got, age>>
vars == <<dbVars, cache, readVars, writer, lost>>

NoCopy == [val |-> None, old |-> 0, why |-> "ok"]

Init ==
  /\ primary = [k \in Keys |-> IF k \in Accounts THEN 0 ELSE None]
  /\ replica = primary
  /\ behind = [k \in Keys |-> 0]
  /\ lag = 0
  /\ cache = [k \in Keys |-> None]
  /\ at = [r \in Readers |-> "idle"]
  /\ key = [r \in Readers |-> None]
  /\ got = [r \in Readers |-> NoCopy]
  /\ age = [r \in Readers |-> 0]
  /\ writer = [tx \in Txs |-> "none"]
  /\ lost = {}

Stale(k) == cache[k] # None /\ cache[k].val # primary[k]

(* A commit is done whose deletion of the key is still to come.            *)
Outstanding(k) ==
  \E tx \in Txs : \/ k \in Touches[tx] /\ writer[tx] \in {"syncCommitted", "settled"}
                  \/ k = tx /\ writer[tx] \in {"settled", "balancesDropped"}
-----------------------------------------------------------------------------
(* Read requests.                                                          *)

(* The entry is there and is the answer.                                   *)
Hit(r, k) ==
  /\ at[r] = "idle"
  /\ cache[k] # None
  /\ UNCHANGED vars

(* There is no entry, or Redis returns an error.                           *)
Miss(r, k) ==
  /\ at[r] = "idle"
  /\ at' = [at EXCEPT ![r] = "query"]
  /\ key' = [key EXCEPT ![r] = k]
  /\ UNCHANGED <<dbVars, cache, got, age, writer, lost>>

Done(r) ==
  /\ at' = [at EXCEPT ![r] = "idle"]
  /\ key' = [key EXCEPT ![r] = None]
  /\ got' = [got EXCEPT ![r] = NoCopy]
  /\ age' = [age EXCEPT ![r] = 0]

(***************************************************************************)
(* GetByID; no row, or an error of the database, ends the request with     *)
(* 404.  For the properties the copy carries whether it was taken from a   *)
(* replica behind the primary though every deletion of the key was over.   *)
(***************************************************************************)
Query(r) ==
  /\ at[r] = "query"
  /\ \/ /\ replica[key[r]] # None
        /\ at' = [at EXCEPT ![r] = "store"]
        /\ got' = [got EXCEPT ![r] =
             [val |-> replica[key[r]], old |-> behind[key[r]],
              why |-> IF replica[key[r]] # primary[key[r]] /\ ~Outstanding(key[r])
                        THEN "lag" ELSE "ok"]]
        /\ UNCHANGED <<key, age>>
     \/ Done(r)
  /\ UNCHANGED <<dbVars, cache, writer, lost>>

(* Mutant: one time to live for every status.                              *)
TTL_OneForAll(k, v) == IF k \in Accounts THEN BalanceTTL ELSE TxStatusTTL

(* Mutant: a pending status gets the zero Duration.                        *)
TTL_ZeroForPending(k, v) ==
  IF k \in Accounts THEN BalanceTTL
  ELSE IF v = "pending" THEN 0 ELSE TxStatusTTL

TTL(k, v) ==
  IF k \in Accounts THEN BalanceTTL
  ELSE IF v = "pending" THEN PendingTTL ELSE TxStatusTTL

(***************************************************************************)
(* Why an entry is wrong from the moment it is stored: its copy came from  *)
(* a lagging replica, or was overtaken by a write on its way to the cache. *)
(***************************************************************************)
Reason(r) ==
  IF got[r].val = primary[key[r]] THEN "ok"
  ELSE IF got[r].why = "lag" THEN "lag" ELSE "race"

(* Set stores the copy, or fails, and the answer is given.                 *)
Store(r) ==
  /\ at[r] = "store"
  /\ \/ cache' = [cache EXCEPT ![key[r]] =
                    [val |-> got[r].val, old |-> got[r].old,
                     ttl |-> TTL(key[r], got[r].val),
                     why |-> Reason(r)]]
     \/ UNCHANGED cache
  /\ Done(r)
  /\ UNCHANGED <<dbVars, writer, lost>>
-----------------------------------------------------------------------------
(* The writer of a transfer, createSync or createAsync and the worker.     *)

Write(p) ==
  /\ primary' = p
  /\ replica' = IF HasReplica THEN replica ELSE p
  /\ UNCHANGED <<behind, lag>>

WithStatus(tx, status) == [primary EXCEPT ![tx] = status]

(* The commit of a transfer: both balances and the status.                 *)
Settled(tx) ==
  [k \in Keys |-> IF k \in Touches[tx] THEN primary[k] + 1
                  ELSE IF k = tx THEN "completed" ELSE primary[k]]

Goto(tx, from, to) == writer[tx] = from /\ writer' = [writer EXCEPT ![tx] = to]

SyncCommit(tx) ==
  /\ Goto(tx, "none", "syncCommitted")
  /\ Write(Settled(tx))
  /\ UNCHANGED <<cache, readVars, lost>>

SavePending(tx) ==
  /\ Goto(tx, "none", "pending")
  /\ Write(WithStatus(tx, "pending"))
  /\ UNCHANGED <<cache, readVars, lost>>

Settle(tx) ==
  /\ Goto(tx, "pending", "settled")
  /\ Write(Settled(tx))
  /\ UNCHANGED <<cache, readVars, lost>>

(***************************************************************************)
(* The commit of which the worker never learns: it goes on to mark the     *)
(* transaction failed and deletes no key.                                  *)
(***************************************************************************)
SettleUnaware(tx) ==
  /\ Goto(tx, "pending", "unaware")
  /\ Write(Settled(tx))
  /\ lost' = lost \cup Touches[tx] \cup {tx}
  /\ UNCHANGED <<cache, readVars>>

(* UpdateStatus(failed) of the worker or of createAsync; no key is deleted. *)
MarkFailed(tx) ==
  /\ Goto(tx, "pending", "done") \/ Goto(tx, "unaware", "done")
  /\ Write(WithStatus(tx, "failed"))
  /\ UNCHANGED <<cache, readVars, lost>>

(* Mutant: the key of one of the accounts is forgotten.                    *)
Delete_One(K) ==
  /\ cache' = [k \in Keys |-> IF K # {} /\ k = CHOOSE x \in K : TRUE THEN None ELSE cache[k]]
  /\ UNCHANGED lost

(* DEL of a set of keys, atomic ...                                        *)
Delete(K) ==
  /\ cache' = [k \in Keys |-> IF k \in K THEN None ELSE cache[k]]
  /\ UNCHANGED lost

(* ... whose error is ignored, or which a dying process never sends.       *)
DeleteFails(K) == lost' = lost \cup K /\ UNCHANGED cache

InvalidateBalance(tx) ==
  /\ Goto(tx, "syncCommitted", "done") \/ Goto(tx, "settled", "balancesDropped")
  /\ Delete(Touches[tx]) \/ DeleteFails(Touches[tx])
  /\ UNCHANGED <<dbVars, readVars>>

InvalidateTxStatus(tx) ==
  /\ Goto(tx, "balancesDropped", "done")
  /\ Delete({tx}) \/ DeleteFails({tx})
  /\ UNCHANGED <<dbVars, readVars>>
-----------------------------------------------------------------------------
Replicate ==
  /\ replica # primary
  /\ replica' = primary
  /\ behind' = [k \in Keys |-> 0]
  /\ lag' = 0
  /\ UNCHANGED <<primary, cache, readVars, writer, lost>>

Older(n, k, v) == IF v # primary[k] THEN n + 1 ELSE n

(* Mutant: an entry that does not expire.                                  *)
Expire_Never(k) == cache[k]

(* An entry after one more tick.                                           *)
Expire(k) ==
  IF cache[k].ttl = 1 THEN None
  ELSE [cache[k] EXCEPT !.ttl = @ - 1, !.old = Older(@, k, cache[k].val)]

(***************************************************************************)
(* One unit of time passes: entries expire, and the calls that remain of a *)
(* request whose context has timed out fail, Set included.                 *)
(***************************************************************************)
Tick ==
  /\ replica # primary => lag < MaxLag
  /\ lag' = IF replica # primary THEN lag + 1 ELSE lag
  /\ behind' = [k \in Keys |-> Older(behind[k], k, replica[k])]
  /\ cache' = [k \in Keys |-> IF cache[k] = None THEN None ELSE Expire(k)]
  /\ LET ended(r) == at[r] = "idle" \/ age[r] = MaxRequest
     IN  /\ at' = [r \in Readers |-> IF ended(r) THEN "idle" ELSE at[r]]
         /\ key' = [r \in Readers |-> IF ended(r) THEN None ELSE key[r]]
         /\ got' = [r \in Readers |->
                      IF ended(r) THEN NoCopy
                      ELSE IF at[r] = "query" THEN got[r]
                      ELSE [got[r] EXCEPT !.old = Older(@, key[r], got[r].val)]]
         /\ age' = [r \in Readers |-> IF ended(r) THEN 0 ELSE age[r] + 1]
  /\ UNCHANGED <<primary, replica, writer, lost>>

Reader(r) == \/ \E k \in Keys : Hit(r, k) \/ Miss(r, k)
             \/ Query(r) \/ Store(r)

Writer(tx) ==
  \/ SyncCommit(tx) \/ SavePending(tx)
  \/ Settle(tx) \/ SettleUnaware(tx) \/ MarkFailed(tx)
  \/ InvalidateBalance(tx) \/ InvalidateTxStatus(tx)

Next ==
  \/ \E r \in Readers : Reader(r)
  \/ \E tx \in Txs : Writer(tx)
  \/ Replicate
  \/ Tick

Spec == Init /\ [][Next]_vars

(* Time passes and the replica catches up.                                 *)
FairSpec == Spec /\ WF_vars(Tick) /\ WF_vars(Replicate)
-----------------------------------------------------------------------------
Values(k) == IF k \in Accounts THEN Nat ELSE {None, "pending", "completed", "failed"}

(* Type invariant.                                                         *)
TypeOK ==
  /\ DOMAIN primary = Keys /\ DOMAIN replica = Keys
  /\ \A k \in Keys : primary[k] \in Values(k) /\ replica[k] \in Values(k)
  /\ behind \in [Keys -> Nat]
  /\ lag \in 0..MaxLag
  /\ DOMAIN cache = Keys
  /\ \A k \in Keys : cache[k] # None =>
       cache[k] \in [val : Values(k), old : Nat, ttl : Nat \ {0},
                     why : {"ok", "lag", "race"}]
  /\ at \in [Readers -> {"idle", "query", "store"}]
  /\ DOMAIN key = Readers /\ DOMAIN got = Readers
  /\ \A r \in Readers :
       /\ at[r] # "idle" => key[r] \in Keys
       /\ at[r] = "store" => got[r] \in [val : Values(key[r]), old : Nat, why : {"ok", "lag"}]
  /\ age \in [Readers -> 0..MaxRequest]
  /\ writer \in [Txs -> {"none", "pending", "syncCommitted", "settled", "unaware",
                         "balancesDropped", "done"}]
  /\ lost \subseteq Keys

(* For how long after it was superseded a value may still be handed out.   *)
Limit(k, v) ==
  MaxLag + MaxRequest
    + (IF k \in Accounts THEN BalanceTTL
       ELSE IF v = "pending" THEN PendingTTL ELSE TxStatusTTL)

(***************************************************************************)
(* Staleness is bounded, and the bound depends on what is stale: a cached  *)
(* balance or status was the true one less than its time to live, the lag  *)
(* of the replica and the life of a request ago, even if every deletion    *)
(* fails.  A pending status, the one that does change, is given up after   *)
(* its short time to live.  The bound is looser than ADR-004's "stale      *)
(* reads within TTL window", which counts neither lag nor request.         *)
(***************************************************************************)
BoundedStaleness ==
  \A k \in Keys : Stale(k) => cache[k].old < Limit(k, cache[k].val)

(***************************************************************************)
(* What makes an entry wrong, as the code is: a write that overtook its    *)
(* copy; a copy from a lagging replica, if there is one; a deletion still  *)
(* to come; a deletion that failed; and, for a status only, a transaction  *)
(* marked failed, for which the code deletes nothing.  So every commit of  *)
(* a settlement deletes all the keys it supersedes.  ADR-004 promises more *)
(* in two places: with "This limits staleness to the write-then-read race  *)
(* window" the lagging replica would not be a cause, nor with "Worker      *)
(* status update -> DELETE tx_status:{tx_id}" the transaction marked       *)
(* failed.                                                                 *)
(***************************************************************************)
StaleExplained ==
  \A k \in Keys : Stale(k) =>
    \/ cache[k].why = "race"
    \/ cache[k].why = "lag" /\ HasReplica
    \/ Outstanding(k)
    \/ k \in lost
    \/ k \in Txs /\ primary[k] = "failed"

(***************************************************************************)
(* When the writes have ended, the cache is right for good in the end, so  *)
(* that a client that goes on polling sees how its transfer ended.         *)
(***************************************************************************)
FreshInTheEnd == <>[](\A k \in Keys : ~Stale(k))

(***************************************************************************)
(* The strengthening that makes BoundedStaleness inductive: how old the    *)
(* replica's value, a reader's copy and an entry may be.                   *)
(***************************************************************************)
AgeInv ==
  /\ \A k \in Keys : behind[k] <= lag
  /\ \A r \in Readers : at[r] = "store" => got[r].old <= MaxLag + age[r]
  /\ \A k \in Keys : cache[k] # None =>
       cache[k].old + cache[k].ttl <= Limit(k, cache[k].val)
=============================================================================
