----------------------------- MODULE QueueClient -----------------------------
(***************************************************************************)
(* queue.Client: one AMQP connection with one channel, shared by all       *)
(* goroutines of a process behind a mutex, and dialled again by the first  *)
(* caller that finds the connection closed.  The channel a caller gets is  *)
(* used after the mutex is released.                                       *)
(*                                                                         *)
(* Connections are numbered by dial.  Each has one channel, which may be   *)
(* closed by the broker while the connection stays open.  The module that  *)
(* uses this one says when calls begin and what they return.               *)
(***************************************************************************)
EXTENDS Integers

CONSTANTS
  Callers,           \* goroutines that use the client
  NoCaller

ASSUME QueueClientAssumption == NoCaller \notin Callers

VARIABLES
  dials,             \* connections made so far
  conn,              \* c.conn and its channel, 0: nil
  open,              \* connections that are open
  chans,             \* connections whose channel is open
  mutex,             \* who holds c.mu while it dials
  qpc,               \* where a caller is
  got                \* the connection it is setting up or whose channel it uses

clientVars == <<dials, conn, open, chans, mutex, qpc, got>>

CallStates == {"idle", "lock", "dial", "declare", "use", "failed"}

ClientInit ==
  /\ dials = 0 /\ conn = 0
  /\ open = {} /\ chans = {}
  /\ mutex = NoCaller
  /\ qpc = [c \in Callers |-> "idle"]
  /\ got = [c \in Callers |-> 0]

At(c, where) == qpc' = [qpc EXCEPT ![c] = where]

(* New dials without the mutex: nobody else has the client yet.            *)
BeginNew(c) ==
  /\ qpc[c] = "idle"
  /\ At(c, "dial")
  /\ UNCHANGED <<dials, conn, open, chans, mutex, got>>

(* Publish, Consume and QueueDepth begin with getChannel.                  *)
BeginCall(c) ==
  /\ qpc[c] = "idle"
  /\ At(c, "lock")
  /\ UNCHANGED <<dials, conn, open, chans, mutex, got>>

(* Mutant: getChannel does not ask whether the connection is closed.       *)
GetChannel_NoIsClosed(c) ==
  /\ qpc[c] = "lock"
  /\ mutex = NoCaller
  /\ At(c, "use")
  /\ got' = [got EXCEPT ![c] = conn]
  /\ UNCHANGED <<dials, conn, open, chans, mutex>>

(* Mutant: the mutex is released before dial.                              *)
GetChannel_UnlockedDial(c) ==
  /\ qpc[c] = "lock"
  /\ IF conn \in open
       THEN At(c, "use") /\ got' = [got EXCEPT ![c] = conn]
       ELSE At(c, "dial") /\ UNCHANGED got
  /\ UNCHANGED <<dials, conn, open, chans, mutex>>

(* getChannel up to dial: it looks at the connection, not at the channel.  *)
GetChannel(c) ==
  /\ qpc[c] = "lock"
  /\ mutex = NoCaller
  /\ IF conn \in open
       THEN /\ At(c, "use")
            /\ got' = [got EXCEPT ![c] = conn]
            /\ UNCHANGED mutex
       ELSE /\ At(c, "dial")
            /\ mutex' = c
            /\ UNCHANGED got
  /\ UNCHANGED <<dials, conn, open, chans>>

(* amqp.Dial.                                                              *)
Dial(c) ==
  /\ qpc[c] = "dial"
  /\ dials' = dials + 1
  /\ open' = open \cup {dials + 1}
  /\ got' = [got EXCEPT ![c] = dials + 1]
  /\ At(c, "declare")
  /\ UNCHANGED <<conn, chans, mutex>>

(* The channel is opened and the queues are declared.                      *)
Declare(c) ==
  /\ qpc[c] = "declare"
  /\ got[c] \in open
  /\ chans' = chans \cup {got[c]}
  /\ conn' = got[c]
  /\ mutex' = NoCaller
  /\ At(c, "use")
  /\ UNCHANGED <<dials, open, got>>

(* Mutant: an error of dial leaves the mutex locked.                       *)
DialFails_KeepsLock(c) ==
  /\ qpc[c] \in {"dial", "declare"}
  /\ open' = open \ {got[c]}
  /\ At(c, "failed")
  /\ UNCHANGED <<dials, conn, chans, mutex, got>>

(* A step of dial fails: what was opened is closed, c.conn stays.          *)
DialFails(c) ==
  /\ qpc[c] \in {"dial", "declare"}
  /\ open' = open \ {got[c]}
  /\ mutex' = NoCaller
  /\ At(c, "failed")
  /\ UNCHANGED <<dials, conn, chans, got>>

(* The AMQP method is called on the channel; it works while that is open.  *)
Works(c) == qpc[c] = "use" /\ got[c] \in chans

Fails(c) == qpc[c] = "failed" \/ (qpc[c] = "use" /\ got[c] \notin chans)

Return(c) ==
  /\ At(c, "idle")
  /\ got' = [got EXCEPT ![c] = 0]
  /\ UNCHANGED <<dials, conn, open, chans, mutex>>

(* Close does not forget the connection, so that a later call dials again. *)
Close ==
  /\ mutex = NoCaller
  /\ open' = open \ {conn}
  /\ chans' = chans \ {conn}
  /\ UNCHANGED <<dials, conn, mutex, qpc, got>>

(* The connection is lost; the broker closes the channel of an open one.   *)
ConnBreaks(k) ==
  /\ k \in open
  /\ open' = open \ {k}
  /\ chans' = chans \ {k}
  /\ UNCHANGED <<dials, conn, mutex, qpc, got>>

ChannelException(k) ==
  /\ k \in chans
  /\ chans' = chans \ {k}
  /\ UNCHANGED <<dials, conn, open, mutex, qpc, got>>

(* The process is gone.                                                    *)
ClientGone ==
  /\ dials' = 0 /\ conn' = 0
  /\ open' = {} /\ chans' = {}
  /\ mutex' = NoCaller
  /\ qpc' = [c \in Callers |-> "idle"]
  /\ got' = [c \in Callers |-> 0]
-----------------------------------------------------------------------------
ClientTypeOK ==
  /\ dials \in Nat
  /\ conn \in 0..dials
  /\ chans \subseteq open /\ open \subseteq 1..dials
  /\ mutex \in Callers \cup {NoCaller}
  /\ qpc \in [Callers -> CallStates]
  /\ got \in [Callers -> 0..dials]

(***************************************************************************)
(* The client never leaves a connection behind that it has no handle on:   *)
(* an open one is the current one or is being set up by the only caller    *)
(* that is dialling, although the goroutines find it broken at the same    *)
(* time.  (One dialled after Close is current, too, and lives as long as   *)
(* the process.)                                                           *)
(***************************************************************************)
OneConnection ==
  \A k \in open :
    \/ k = conn
    \/ \E c \in Callers : /\ qpc[c] = "declare" /\ got[c] = k
                          /\ \A d \in Callers \ {c} : qpc[d] \notin {"dial", "declare"}
=============================================================================
