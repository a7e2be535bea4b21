-------------------------------- MODULE Server --------------------------------
(***************************************************************************)
(* A server process from start to exit: main connects to what the          *)
(* configuration names, chooses by what it got how transfers are made      *)
(* (queue, database or memory), starts the workers and the metrics         *)
(* collector, serves, and shuts down on a signal.  They share the queue    *)
(* client of module QueueClient.                                           *)
(*                                                                         *)
(* What SyncTransfer and Settlement model in detail, the transaction of    *)
(* createSync and the work of the workers, is one step here.  PostgreSQL,  *)
(* RabbitMQ, golang-migrate, Redis and the platform that restarts the      *)
(* process are external.                                                   *)
(***************************************************************************)
EXTENDS QueueClient

CONSTANTS
  Txs,               \* transfers; the handler of each is a caller of the client
  Main, Starter, Collector,    \* the other callers: main, Start, collect
  Configs,           \* configurations: sets of what they name
  MaxFaults

Dependencies == {"db", "replica", "redis", "queue"}

ASSUME ServerAssumption ==
  /\ Callers = Txs \cup {Main, Starter, Collector}
  /\ Main \notin Txs /\ Starter \notin Txs \cup {Main}
  /\ Collector \notin Txs \cup {Main, Starter}
  /\ Configs \subseteq SUBSET Dependencies
  /\ MaxFaults \in Nat

VARIABLES
  conf,              \* what the environment variables name
  phase,             \* how far main has got
  deps,              \* what it is connected to: handles that are not nil
  schema,            \* of the database, as golang-migrate keeps it
  api,               \* where the handler of a transfer is, or its response
  mem,               \* status in the memory repository
  pg,                \* status in table transactions of the primary
  rep,               \* the replica's copy of it
  msg,               \* message of the transfer
  consumer,          \* connection on which the workers consume, 0: none
  hit,               \* the transfers whose handler was running at a fault
  faults             \* faults so far

dataVars == <<mem, pg, rep, msg>>
vars == <<clientVars, conf, phase, deps, schema, api, dataVars, consumer, hit, faults>>

Boot == {"migrate", "db", "replica", "redis", "queue", "dialling"}
Alive == {"serving", "stopping", "closing", "exiting"}
Phases == {"down"} \cup Boot \cup Alive
Running == {"create", "publish"}
ApiStates == {"none"} \cup Running \cup {"201", "202", "422", "500", "dead"}
Statuses == {"absent", "pending", "completed", "failed"}
MsgStates == {"none", "ready", "done", "dead", "lost"}

RunningTxs == {tx \in Txs : api[tx] \in Running}

Event == faults < MaxFaults /\ faults' = faults + 1

Fault == Event /\ hit' = hit \cup RunningTxs

NoFault == UNCHANGED <<faults, hit>>

Set(f, tx, v) == [f EXCEPT ![tx] = v]

Absent == [tx \in Txs |-> "absent"]
-----------------------------------------------------------------------------
Init ==
  /\ ClientInit
  /\ conf \in Configs
  /\ phase = "down"
  /\ deps = {}
  /\ schema = "old"
  /\ api = [tx \in Txs |-> "none"]
  /\ mem = Absent /\ pg = Absent /\ rep = Absent
  /\ msg = [tx \in Txs |-> "none"]
  /\ consumer = 0
  /\ hit = {}
  /\ faults = 0

(* The process is gone, and with it what it kept in memory.                *)
Down ==
  /\ phase' = "down"
  /\ deps' = {}
  /\ ClientGone
  /\ api' = [tx \in Txs |-> IF api[tx] \in Running THEN "dead" ELSE api[tx]]
  /\ mem' = Absent
  /\ consumer' = 0
  /\ UNCHANGED <<conf, pg, rep, msg>>

(* The platform starts the process.                                        *)
Launch ==
  /\ phase = "down"
  /\ phase' = "migrate"
  /\ NoFault
  /\ UNCHANGED <<clientVars, conf, deps, schema, api, dataVars, consumer>>

Goto(where) ==
  /\ phase' = where
  /\ UNCHANGED <<conf, api, dataVars, consumer>>

(* Mutant: an up-to-date schema is an error.                               *)
Migrate_NoChange ==
  /\ phase = "migrate"
  /\ NoFault
  /\ IF "db" \notin conf \/ schema = "old"
       THEN /\ schema' = IF "db" \in conf THEN "current" ELSE schema
            /\ Goto("db")
            /\ UNCHANGED <<clientVars, deps>>
       ELSE Down /\ UNCHANGED schema

(***************************************************************************)
(* RunMigrations.  golang-migrate marks the schema dirty while it changes  *)
(* it and refuses to touch one that was left so; main then gives up.       *)
(***************************************************************************)
Migrate ==
  /\ phase = "migrate"
  /\ NoFault
  /\ IF "db" \notin conf \/ schema # "dirty"
       THEN /\ schema' = IF "db" \in conf THEN "current" ELSE schema
            /\ Goto("db")
            /\ UNCHANGED <<clientVars, deps>>
       ELSE Down /\ UNCHANGED schema

(* Migrations fail or are cut short, by a crash too; main gives up.        *)
MigrateFails ==
  /\ phase = "migrate"
  /\ "db" \in conf
  /\ Fault
  /\ schema' \in {schema} \cup (IF schema = "old" THEN {"dirty"} ELSE {})
  /\ Down

(* The step of main that follows.                                          *)
After(where) == [db |-> "replica", replica |-> "redis", redis |-> "queue"][where]

(* Mutant: a flag that is off is ignored.                                  *)
Connect_FlagIgnored ==
  /\ phase \in {"db", "replica", "redis"}
  /\ NoFault
  /\ deps' = deps \cup {phase}
  /\ Goto(After(phase))
  /\ UNCHANGED <<clientVars, schema>>

(* Database, read replica and Redis are connected in this order if named.  *)
Connect ==
  /\ phase \in {"db", "replica", "redis"}
  /\ NoFault
  /\ deps' = deps \cup ({phase} \cap conf)
  /\ Goto(After(phase))
  /\ UNCHANGED <<clientVars, schema>>

(* Mutant: no failure to connect ends the process.                         *)
ConnectFails_Warning ==
  /\ phase \in {"db", "replica", "redis"} \cap conf
  /\ Fault
  /\ Goto(After(phase))
  /\ UNCHANGED <<clientVars, deps, schema>>

(* Without the database main gives up, without the others it goes on.      *)
ConnectFails ==
  /\ phase \in {"db", "replica", "redis"} \cap conf
  /\ Fault
  /\ UNCHANGED schema
  /\ IF phase = "db" THEN Down
                     ELSE Goto(After(phase)) /\ UNCHANGED <<clientVars, deps>>

(* queue.New, if the configuration names the queue.                        *)
NewQueue ==
  /\ phase = "queue"
  /\ NoFault
  /\ IF "queue" \in conf THEN BeginNew(Main) /\ Goto("dialling")
                         ELSE UNCHANGED clientVars /\ Goto("serving")
  /\ UNCHANGED <<deps, schema>>

(***************************************************************************)
(* New has returned: services, routes and goroutines are set up.  The      *)
(* workers need the database too.                                          *)
(***************************************************************************)
Serve ==
  /\ phase = "dialling"
  /\ qpc[Main] \in {"use", "failed"}
  /\ deps' = IF qpc[Main] = "use" THEN deps \cup {"queue"} ELSE deps
  /\ qpc' = [qpc EXCEPT ![Main] = "idle",
                        ![Starter] = IF {"queue", "db"} \subseteq deps' THEN "lock" ELSE "idle"]
  /\ got' = [got EXCEPT ![Main] = 0]
  /\ NoFault
  /\ Goto("serving")
  /\ UNCHANGED <<dials, conn, open, chans, mutex, schema>>
-----------------------------------------------------------------------------
(* A handler of POST /transactions.                                        *)

Handle(tx, where) ==
  /\ api' = Set(api, tx, where)
  /\ UNCHANGED <<conf, phase, deps, schema, consumer>>

Receive(tx) ==
  /\ phase = "serving"
  /\ api[tx] = "none"
  /\ Handle(tx, "create")
  /\ NoFault
  /\ UNCHANGED <<clientVars, dataVars>>

(* The repository that Save writes to, for a queue or for memory.          *)
SaveAs(tx, status) ==
  IF "db" \in deps THEN pg' = Set(pg, tx, status) /\ UNCHANGED mem
                   ELSE mem' = Set(mem, tx, status) /\ UNCHANGED pg

(* Mutant: a repository without a replica does not fall back to the        *)
(* primary.                                                                *)
GetByID_NoFallback(tx) == IF "db" \in deps THEN rep[tx] ELSE mem[tx]

(* What GetTransactionStatus finds in the repository that main has chosen. *)
GetByID(tx) ==
  IF "db" \in deps THEN IF "replica" \in deps THEN rep[tx] ELSE pg[tx]
                   ELSE mem[tx]

(***************************************************************************)
(* CreateTransaction: the mode follows from the handles that are not nil.  *)
(* The database answers an error without any fault, too: Save when an      *)
(* account does not exist or the id is taken, createSync when it is chosen *)
(* as the victim of a deadlock.                                            *)
(***************************************************************************)
Create(tx) ==
  /\ api[tx] = "create"
  /\ NoFault
  /\ UNCHANGED <<rep, msg>>
  /\ \/ /\ "queue" \in deps
        /\ SaveAs(tx, "pending")
        /\ BeginCall(tx)
        /\ Handle(tx, "publish")
     \/ /\ deps \cap {"queue", "db"} = {"db"}
        /\ \/ pg' = Set(pg, tx, "completed") /\ Handle(tx, "201")
           \/ UNCHANGED pg /\ Handle(tx, "422")
        /\ UNCHANGED <<clientVars, mem>>
     \/ /\ "db" \in deps
        /\ Handle(tx, "500")
        /\ UNCHANGED <<clientVars, mem, pg>>
     \/ /\ deps \cap {"queue", "db"} = {}
        /\ SaveAs(tx, "completed")
        /\ UNCHANGED clientVars
        /\ Handle(tx, "201")

(***************************************************************************)
(* The database fails, or main has closed it already.  What a failing call *)
(* may have done nevertheless is shown by SyncTransfer and Settlement.     *)
(***************************************************************************)
DatabaseFails ==
  /\ "db" \in deps
  /\ IF phase = "exiting" THEN NoFault ELSE Fault

CreateFails(tx) ==
  /\ api[tx] = "create"
  /\ DatabaseFails
  /\ Handle(tx, "500")
  /\ UNCHANGED <<clientVars, dataVars>>

(***************************************************************************)
(* Publish does not wait for the broker to confirm: what was written to a  *)
(* connection that is already dead is lost, which the client finds out     *)
(* later, as BrokerFault.                                                  *)
(***************************************************************************)
Published(tx) ==
  /\ api[tx] = "publish"
  /\ Works(tx) /\ Return(tx)
  /\ \/ msg' = Set(msg, tx, "ready") /\ NoFault
     \/ msg' = Set(msg, tx, "lost") /\ Fault
  /\ Handle(tx, "202")
  /\ UNCHANGED <<mem, pg, rep>>

(* Mutant: the error of Publish is overlooked.                             *)
Unpublished_Overlooked(tx) ==
  /\ api[tx] = "publish"
  /\ Fails(tx) /\ Return(tx)
  /\ Handle(tx, "202")
  /\ NoFault
  /\ UNCHANGED dataVars

(* Publish returns an error; the transfer is marked failed if possible.    *)
Unpublished(tx) ==
  /\ api[tx] = "publish"
  /\ Fails(tx) /\ Return(tx)
  /\ \/ SaveAs(tx, "failed") /\ NoFault
     \/ DatabaseFails /\ UNCHANGED <<mem, pg>>
  /\ Handle(tx, "500")
  /\ UNCHANGED <<rep, msg>>
-----------------------------------------------------------------------------
(* The other goroutines.                                                   *)

(* Start: the workers consume on the channel they got, or there are none.  *)
StartWorkers ==
  /\ \/ Works(Starter) /\ consumer' = got[Starter]
     \/ Fails(Starter) /\ UNCHANGED consumer
  /\ Return(Starter)
  /\ NoFault
  /\ UNCHANGED <<conf, phase, deps, schema, api, dataVars>>

Consuming == consumer \in chans

(***************************************************************************)
(* A worker settles a transfer and acknowledges the message; or marks the  *)
(* transfer failed and dead-letters it; or dead-letters it without a mark, *)
(* because the database fails or, ctx being cancelled, every call does.    *)
(***************************************************************************)
Work(tx) ==
  /\ Consuming
  /\ msg[tx] = "ready"
  /\ \/ /\ pg' = Set(pg, tx, "completed") /\ msg' = Set(msg, tx, "done")
        /\ NoFault
     \/ /\ pg' = Set(pg, tx, "failed") /\ msg' = Set(msg, tx, "dead")
        /\ NoFault
     \/ /\ UNCHANGED pg /\ msg' = Set(msg, tx, "dead")
        /\ IF phase \in {"stopping", "closing"} THEN NoFault ELSE DatabaseFails
  /\ UNCHANGED <<clientVars, conf, phase, deps, schema, api, mem, rep, consumer>>

(* Start returns when ctx is cancelled or the deliveries have ended; it is *)
(* called once.                                                            *)
WorkersReturn ==
  /\ consumer # 0
  /\ ~Consuming \/ phase \in {"stopping", "closing", "exiting"}
  /\ consumer' = 0
  /\ NoFault
  /\ UNCHANGED <<clientVars, conf, phase, deps, schema, api, dataVars>>

(* The replica catches up.                                                 *)
Replicate ==
  /\ "replica" \in conf
  /\ rep # pg
  /\ rep' = pg
  /\ NoFault
  /\ UNCHANGED <<clientVars, conf, phase, deps, schema, api, mem, pg, msg, consumer>>

(* collect asks for the queue's depth, every five seconds until ctx ends.  *)
Collect ==
  /\ phase = "serving"
  /\ "queue" \in deps
  /\ BeginCall(Collector)
  /\ NoFault
  /\ UNCHANGED <<conf, phase, deps, schema, api, dataVars, consumer>>

Collected ==
  /\ Works(Collector) \/ Fails(Collector)
  /\ Return(Collector)
  /\ NoFault
  /\ UNCHANGED <<conf, phase, deps, schema, api, dataVars, consumer>>

(* The steps of a call inside the client.                                  *)
ClientStep(c) ==
  /\ GetChannel(c) \/ Dial(c) \/ Declare(c)
  /\ NoFault
  /\ UNCHANGED <<conf, phase, deps, schema, api, dataVars, consumer>>

ClientFails(c) ==
  /\ DialFails(c)
  /\ IF qpc[c] = "declare" /\ got[c] \notin open THEN NoFault ELSE Fault
  /\ UNCHANGED <<conf, phase, deps, schema, api, dataVars, consumer>>

BrokerFault ==
  /\ \E k \in open : ConnBreaks(k) \/ ChannelException(k)
  /\ Fault
  /\ UNCHANGED <<conf, phase, deps, schema, api, dataVars, consumer>>
-----------------------------------------------------------------------------
(* The end of the process.                                                 *)

(***************************************************************************)
(* A signal cancels ctx, which the requests under way do not depend on; or *)
(* the port cannot be listened on.                                         *)
(***************************************************************************)
Stop ==
  /\ phase = "serving"
  /\ Event
  /\ UNCHANGED hit
  /\ \E where \in {"stopping", "closing"} : Goto(where)
  /\ UNCHANGED <<clientVars, deps, schema>>

(* The handlers have finished, or GracefulTimeout is over.                 *)
Drained ==
  /\ phase = "stopping"
  /\ Goto("closing")
  /\ NoFault
  /\ UNCHANGED <<clientVars, deps, schema>>

(* The deferred calls, queueClient.Close first.                            *)
CloseAll ==
  /\ phase = "closing"
  /\ IF "queue" \in deps THEN Close ELSE UNCHANGED clientVars
  /\ hit' = hit \cup RunningTxs
  /\ Goto("exiting")
  /\ UNCHANGED <<deps, schema, faults>>

Exit ==
  /\ phase = "exiting"
  /\ Down
  /\ NoFault
  /\ UNCHANGED schema

(* A crash in the middle of a migration is MigrateFails.                   *)
Crash ==
  /\ phase # "down"
  /\ Fault
  /\ Down
  /\ UNCHANGED schema
-----------------------------------------------------------------------------
MainStep == \/ Launch \/ Migrate \/ Connect \/ NewQueue \/ Serve
            \/ Drained \/ CloseAll \/ Exit

Handler(tx) == Create(tx) \/ Published(tx) \/ Unpublished(tx)

Next ==
  \/ MainStep \/ MigrateFails \/ ConnectFails \/ Stop \/ Crash
  \/ \E tx \in Txs : Receive(tx) \/ Handler(tx) \/ CreateFails(tx) \/ Work(tx)
  \/ \E c \in Callers : ClientStep(c) \/ ClientFails(c)
  \/ StartWorkers \/ WorkersReturn \/ Collect \/ Collected \/ BrokerFault
  \/ Replicate

Spec == Init /\ [][Next]_vars

(***************************************************************************)
(* The platform restarts the process, which goes on with what it has begun *)
(* and whose calls are not held up for ever by the network; the workers    *)
(* take the messages and the replica follows the primary.  Nothing         *)
(* promises a request, a fault or the ticks of the collector.              *)
(***************************************************************************)
Fairness ==
  /\ WF_vars(MainStep)
  /\ \A tx \in Txs : WF_vars(Handler(tx)) /\ WF_vars(Work(tx))
  /\ \A c \in Callers : WF_vars(ClientStep(c)) /\ WF_vars(ClientFails(c))
  /\ WF_vars(StartWorkers) /\ WF_vars(Collected) /\ WF_vars(Replicate)

FairSpec == Spec /\ Fairness
-----------------------------------------------------------------------------
(* Type invariant.                                                         *)
TypeOK ==
  /\ ClientTypeOK
  /\ conf \in Configs /\ deps \subseteq conf
  /\ phase \in Phases
  /\ schema \in {"old", "dirty", "current"}
  /\ api \in [Txs -> ApiStates]
  /\ {mem, pg, rep} \subseteq [Txs -> Statuses]
  /\ msg \in [Txs -> MsgStates]
  /\ consumer \in 0..dials
  /\ hit \subseteq Txs
  /\ faults \in 0..MaxFaults

(* The transfer is in the primary or, without a database, in the memory.   *)
OnRecord(tx) == IF "db" \in conf THEN pg[tx] # "absent" ELSE mem[tx] # "absent"

(***************************************************************************)
(* A positive answer is on record when it is given, and stays so for good  *)
(* in a server configured with a database, whatever fails while it starts  *)
(* or runs: the row is in the primary.  Without a database the record goes *)
(* with the process.                                                       *)
(***************************************************************************)
AnswersKept ==
  [][\A tx \in Txs :
       api'[tx] \in {"201", "202"} /\ ~OnRecord(tx)' =>
         /\ "db" \notin conf
         /\ phase' = "down" \/ (api[tx] \in {"201", "202"} /\ ~OnRecord(tx))]_vars

(***************************************************************************)
(* With a database, GetTransactionStatus finds an answered transfer in the *)
(* end, and from then on in every life of the process.  Not at once: it    *)
(* reads the replica, which may not have the row yet (404 after a 201).    *)
(***************************************************************************)
AnswersFound ==
  \A tx \in Txs :
    api[tx] \in {"201", "202"} /\ "db" \in conf
      ~> [](phase = "serving" => GetByID(tx) # "absent")

(***************************************************************************)
(* A fault of the broker is over when the next request comes: a transfer   *)
(* cannot be published only if something failed, or main closed the        *)
(* client, while its handler was running, because getChannel replaces a    *)
(* broken connection.  The one exception is a channel that was closed on   *)
(* an open connection, see BrokerFaultSurvived.                            *)
(***************************************************************************)
FaultsForgotten ==
  [][\A tx \in Txs : api[tx] = "publish" /\ api'[tx] = "500"
                       => tx \in hit' \/ got[tx] \in open \ chans]_vars

(* Start was called and has returned in a process that goes on serving.    *)
StartReturned ==
  /\ phase = "serving"
  /\ {"queue", "db"} \subseteq deps
  /\ qpc[Starter] = "idle" /\ consumer = 0

(***************************************************************************)
(* The least that two comments promise: getChannel's "re-dialing if the    *)
(* connection or channel is closed", by which a request that comes after a *)
(* fault of the broker is published, and Start's "It blocks until ctx is   *)
(* cancelled", by which at least the workers are there.  Violated, so that *)
(* one execution refutes both: after the broker has closed the channel on  *)
(* an open connection, Start returns, because Consume fails or because the *)
(* deliveries have ended, and getChannel hands the closed channel to every *)
(* later request.                                                          *)
(***************************************************************************)
BrokerFaultSurvived ==
  [][\A tx \in Txs : api[tx] = "publish" /\ api'[tx] = "500"
                       => tx \in hit' \/ ~StartReturned]_vars

(***************************************************************************)
(* No goroutine waits for ever in the client: the mutex is released on     *)
(* every path through getChannel and dial.                                 *)
(***************************************************************************)
CallsReturn == \A c \in Callers : qpc[c] # "idle" ~> qpc[c] = "idle"

(***************************************************************************)
(* A process that is down serves again, through failures of everything it  *)
(* connects to, unless a migration was cut short: then it needs a hand.    *)
(***************************************************************************)
ServesAgain == phase = "down" ~> phase = "serving" \/ schema = "dirty"

(***************************************************************************)
(* While the workers of some life of the process consume again and again,  *)
(* no accepted transfer is forgotten: it is completed or failed in the     *)
(* end, or its message was dead-lettered without a mark, by a failing      *)
(* database or a shutdown, or was lost by a publish without confirm.  That *)
(* workers consume again takes a restart once they have lost their         *)
(* connection, see BrokerFaultSurvived.                                    *)
(***************************************************************************)
AcceptedResolved ==
  []<>Consuming =>
    \A tx \in Txs :
      api[tx] = "202" ~> \/ pg[tx] \in {"completed", "failed"}
                         \/ msg[tx] \in {"dead", "lost"}
=============================================================================
