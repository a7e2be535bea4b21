---------------------------- MODULE Server_proofs ----------------------------
(***************************************************************************)
(* Proofs about module Server: the client's one connection, the record of  *)
(* an answer, and that a broken connection is replaced for the next        *)
(* request.                                                                *)
(***************************************************************************)
EXTENDS Server, TLAPS

Dialling(c) == qpc[c] \in {"dial", "declare"}

(* Once main has passed the database, and once it has a client.            *)
PastDB == {"replica", "redis", "queue", "dialling"} \cup Alive
HasClient == {"dialling"} \cup Alive

(***************************************************************************)
(* Who dials holds the mutex, or is main in New, alone with the client;    *)
(* and the connection it replaces is closed.                               *)
(***************************************************************************)
DialInv ==
  \A c \in Callers :
    Dialling(c) => conn \notin open /\ (mutex = c \/ (phase = "dialling" /\ c = Main))

(* Until main has returned from New nobody else is in the client.          *)
AloneInv ==
  /\ phase \notin HasClient =>
       conn = 0 /\ mutex = NoCaller /\ \A c \in Callers : qpc[c] = "idle"
  /\ phase = "dialling" =>
       /\ "queue" \in conf
       /\ mutex = NoCaller
       /\ qpc[Main] \in {"dial", "declare", "use", "failed"}
       /\ \A c \in Callers \ {Main} : qpc[c] = "idle"

(* An open connection is the current one or is being set up.               *)
OwnedInv ==
  \A k \in open : k = conn \/ \E c \in Callers : qpc[c] = "declare" /\ got[c] = k

(* A caller has no connection of its own before it dials, and no channel   *)
(* on the one that it sets up.                                             *)
FreshInv ==
  \A c \in Callers :
    /\ qpc[c] \in {"idle", "lock", "dial"} => got[c] = 0
    /\ qpc[c] = "declare" => got[c] \notin chans

ClientInv == DialInv /\ AloneInv /\ OwnedInv /\ FreshInv

(* Handlers run in a serving process, which has its database.              *)
HandlerInv ==
  /\ \A tx \in Txs : qpc[tx] # "idle" => api[tx] = "publish"
  /\ \A tx \in Txs : api[tx] \in Running => phase \in Alive
  /\ "db" \in conf /\ phase \in PastDB => "db" \in deps

(* What has been answered, or will be once it is published, is on record.  *)
RecordInv ==
  \A tx \in Txs :
    /\ api[tx] \in {"publish", "201", "202"} /\ "db" \in conf => pg[tx] # "absent"
    /\ api[tx] = "publish" /\ "db" \notin conf => mem[tx] # "absent"

(* A call that failed, or whose connection is gone, had a fault.           *)
HitInv ==
  /\ phase = "exiting" => RunningTxs \subseteq hit
  /\ \A tx \in Txs :
       \/ tx \in hit
       \/ /\ qpc[tx] # "failed"
          /\ qpc[tx] \in {"declare", "use"} => got[tx] \in open

ServerInv == TypeOK /\ ClientInv /\ HandlerInv /\ RecordInv /\ HitInv
-----------------------------------------------------------------------------
(* Types.                                                                  *)

(* The callers of the client are different goroutines.                     *)
LEMMA Goroutines ==
  /\ Txs \subseteq Callers
  /\ Main \in Callers /\ Starter \in Callers /\ Collector \in Callers
  /\ Starter # Main /\ Collector # Main
  /\ Main \notin Txs /\ Starter \notin Txs /\ Collector \notin Txs
  /\ NoCaller \notin Callers
  BY ServerAssumption, QueueClientAssumption

(* What a step does to the client, if it is not a step of the client.      *)
LEMMA ClientInitType ==
  ASSUME ClientInit PROVE ClientTypeOK
  BY DEF ClientInit, ClientTypeOK, CallStates

(* The client of a process that has ended.                                 *)
LEMMA ClientGoneType ==
  ASSUME ClientGone PROVE ClientTypeOK'
  BY DEF ClientGone, ClientTypeOK, CallStates

(* A step that does not touch the client.                                  *)
LEMMA ClientSameType ==
  ASSUME ClientTypeOK, UNCHANGED clientVars PROVE ClientTypeOK'
  BY DEF ClientTypeOK, clientVars

(* Beginning, making and ending a call keep the client's types.            *)
LEMMA CallTypes ==
  ASSUME ClientTypeOK, NEW c \in Callers,
         \/ BeginNew(c) \/ BeginCall(c) \/ GetChannel(c) \/ Declare(c)
         \/ Return(c)
  PROVE  ClientTypeOK'
  <1>1. CASE BeginNew(c) \/ BeginCall(c)
    BY <1>1 DEF BeginNew, BeginCall, At, ClientTypeOK, CallStates
  <1>2. CASE GetChannel(c)
    BY <1>2 DEF GetChannel, At, ClientTypeOK, CallStates
  <1>3. CASE Declare(c)
    BY <1>3 DEF Declare, At, ClientTypeOK, CallStates
  <1>4. CASE Return(c)
    BY <1>4 DEF Return, At, ClientTypeOK, CallStates
  <1> QED
    BY <1>1, <1>2, <1>3, <1>4

(* Dialling counts a connection more.                                      *)
LEMMA DialType ==
  ASSUME ClientTypeOK, NEW c \in Callers, Dial(c)
  PROVE  ClientTypeOK'
  <1>1. dials' \in Nat /\ 0..dials \subseteq 0..dials' /\ dials' \in 0..dials'
    BY DEF Dial, ClientTypeOK
  <1>2. conn' \in 0..dials'
    BY <1>1 DEF Dial, ClientTypeOK
  <1>3. open' \subseteq 1..dials'
    BY <1>1 DEF Dial, ClientTypeOK
  <1>4. chans' \subseteq open'
    BY DEF Dial, ClientTypeOK
  <1>5. got' \in [Callers -> 0..dials']
    BY <1>1 DEF Dial, ClientTypeOK
  <1>6. qpc' \in [Callers -> CallStates]
    BY DEF Dial, At, ClientTypeOK, CallStates
  <1> QED
    BY <1>1, <1>2, <1>3, <1>4, <1>5, <1>6 DEF Dial, ClientTypeOK

(* A failed dial leaves no connection behind: getChannel closes the one    *)
(* whose channel or queues it could not get.                               *)
LEMMA DialFailsType ==
  ASSUME ClientTypeOK, FreshInv, NEW c \in Callers, DialFails(c)
  PROVE  ClientTypeOK'
  <1>1. got[c] \notin chans
    BY DEF FreshInv, DialFails, ClientTypeOK
  <1>2. chans' \subseteq open' /\ open' \subseteq 1..dials'
    BY <1>1 DEF DialFails, ClientTypeOK
  <1> QED
    BY <1>2 DEF DialFails, At, ClientTypeOK, CallStates

(* Connections and channels that close.                                    *)
LEMMA ClosingType ==
  ASSUME ClientTypeOK, Close \/ \E k \in open : ConnBreaks(k) \/ ChannelException(k)
  PROVE  ClientTypeOK'
  BY DEF Close, ConnBreaks, ChannelException, ClientTypeOK

(* main starts the workers, whose first call is to come.                   *)
LEMMA ServeType ==
  ASSUME ClientTypeOK, Serve
  PROVE  ClientTypeOK'
  BY Goroutines DEF Serve, ClientTypeOK, CallStates
-----------------------------------------------------------------------------
(* The types of everything that is not the client's.                       *)
LEMMA TypeInit ==
  ASSUME Init PROVE TypeOK
  <1>1. ClientTypeOK
    BY ClientInitType DEF Init
  <1>2. consumer \in 0..dials /\ faults \in 0..MaxFaults
    BY ServerAssumption DEF Init, ClientInit
  <1>3. /\ api \in [Txs -> ApiStates]
        /\ {mem, pg, rep} \subseteq [Txs -> Statuses]
        /\ msg \in [Txs -> MsgStates]
    BY DEF Init, ApiStates, Statuses, MsgStates, Absent
  <1> QED
    BY <1>1, <1>2, <1>3 DEF Init, TypeOK, Phases

(* The number of faults stays within its bound.                            *)
LEMMA EventType ==
  ASSUME TypeOK, NoFault \/ Event \/ Fault
  PROVE  faults' \in 0..MaxFaults
  BY ServerAssumption DEF TypeOK, NoFault, Event, Fault

(* A fault hits the requests that run.                                     *)
LEMMA HitType ==
  ASSUME TypeOK, NoFault \/ Fault
  PROVE  hit' \subseteq Txs
  BY DEF TypeOK, NoFault, Event, Fault, RunningTxs

(* The end of the process forgets what was in its memory only.             *)
LEMMA DownType ==
  ASSUME TypeOK, Down, NoFault \/ Fault, schema' \in {"old", "dirty", "current"}
  PROVE  TypeOK'
  <1>1. faults' \in 0..MaxFaults /\ hit' \subseteq Txs
    BY EventType, HitType
  <1>2. ClientTypeOK'
    BY ClientGoneType DEF Down
  <1>3. api' \in [Txs -> ApiStates]
    BY DEF Down, TypeOK, ApiStates
  <1>4. {mem', pg', rep'} \subseteq [Txs -> Statuses] /\ msg' \in [Txs -> MsgStates]
    BY DEF Down, TypeOK, Statuses, Absent
  <1>5. consumer' \in 0..dials'
    BY DEF Down, ClientGone
  <1> QED
    BY <1>1, <1>2, <1>3, <1>4, <1>5 DEF Down, TypeOK, Phases
-----------------------------------------------------------------------------
(* Kinds of steps.                                                         *)

(* The process ends.                                                       *)
Ending ==
  /\ Down
  /\ NoFault \/ Fault
  /\ schema' \in {"old", "dirty", "current"}

(* main goes on, and leaves the client alone.                              *)
Advance ==
  /\ UNCHANGED <<clientVars, conf, api, dataVars, consumer>>
  /\ phase # "dialling"
  /\ phase' \in Phases \ {"down", "dialling"}
  /\ phase \in Alive => phase' \in Alive
  /\ schema' \in {"old", "dirty", "current"}
  /\ deps \subseteq deps' /\ deps' \subseteq conf
  /\ "db" \in conf /\ phase' \in PastDB => "db" \in deps' \/ phase \in PastDB
  /\ hit \subseteq hit' /\ hit' \subseteq Txs
  /\ phase' = "exiting" => RunningTxs \subseteq hit'
  /\ faults' \in 0..MaxFaults

(* main calls New, or Close.                                               *)
OpenClient == NewQueue /\ "queue" \in conf
CloseClient == CloseAll /\ "queue" \in deps

(* main's steps.                                                           *)
LEMMA MainKinds ==
  ASSUME TypeOK, MainStep \/ MigrateFails \/ ConnectFails \/ Stop \/ Crash
  PROVE  Ending \/ Advance \/ OpenClient \/ Serve \/ CloseClient
  <1> USE DEF Phases, Boot, Alive, PastDB
  <1>1. CASE Exit \/ Crash \/ MigrateFails
    BY <1>1 DEF Exit, Crash, MigrateFails, Ending, TypeOK
  <1>2. CASE Launch
    BY <1>2, EventType, HitType DEF Launch, Advance, TypeOK, NoFault
  <1>3. CASE Migrate
    <2>1. CASE "db" \notin conf \/ schema # "dirty"
      BY <1>3, <2>1, EventType, HitType DEF Migrate, Goto, Advance, TypeOK, NoFault
    <2>2. CASE ~("db" \notin conf \/ schema # "dirty")
      BY <1>3, <2>2 DEF Migrate, Ending, TypeOK
    <2> QED
      BY <2>1, <2>2
  <1>4. CASE Connect
    <2>1. After(phase) \in {"replica", "redis", "queue"}
      BY <1>4 DEF Connect, After
    <2> QED
      BY <1>4, <2>1, EventType, HitType DEF Connect, Goto, Advance, TypeOK, NoFault
  <1>5. CASE ConnectFails
    <2>1. CASE phase = "db"
      BY <1>5, <2>1 DEF ConnectFails, Ending, TypeOK
    <2>2. CASE phase # "db"
      <3>1. After(phase) \in {"redis", "queue"} /\ phase \in PastDB
        BY <1>5, <2>2 DEF ConnectFails, After
      <3> QED
        BY <1>5, <2>2, <3>1, EventType, HitType
           DEF ConnectFails, Goto, Advance, TypeOK, Fault
    <2> QED
      BY <2>1, <2>2
  <1>6. CASE NewQueue
    BY <1>6, EventType, HitType DEF NewQueue, OpenClient, Goto, Advance, TypeOK, NoFault
  <1>7. CASE Drained
    BY <1>7, EventType, HitType DEF Drained, Goto, Advance, TypeOK, NoFault
  <1>8. CASE CloseAll
    BY <1>8 DEF CloseAll, CloseClient, Goto, Advance, TypeOK, RunningTxs
  <1>9. CASE Stop
    BY <1>9, EventType DEF Stop, Goto, Advance, TypeOK
  <1> QED
    BY <1>1, <1>2, <1>3, <1>4, <1>5, <1>6, <1>7, <1>8, <1>9 DEF MainStep
-----------------------------------------------------------------------------
(* The client's invariant.                                                 *)

(* A client that nobody is in.                                             *)
LEMMA NobodyInClient ==
  ASSUME \A c \in Callers : qpc[c] = "idle" /\ got[c] = 0,
         conn = 0, mutex = NoCaller, open = {}, phase \notin HasClient
  PROVE  ClientInv
  BY DEF ClientInv, DialInv, AloneInv, OwnedInv, FreshInv, Dialling, HasClient

(* Before the start there is no client.                                    *)
LEMMA ClientInvInit ==
  ASSUME Init PROVE ClientInv
  <1>1. phase \notin HasClient
    BY DEF Init, HasClient, Alive
  <1> QED
    BY <1>1, NobodyInClient DEF Init, ClientInit

(* Only one caller dials, and a caller that finds the mutex free, or that  *)
(* is out of dial, dials alone or not at all.                              *)
LEMMA OneDialler ==
  ASSUME ClientInv, NEW c \in Callers, NEW d \in Callers, Dialling(c), Dialling(d)
  PROVE  c = d
  BY Goroutines DEF ClientInv, DialInv, AloneInv

(* While the mutex is free and main is past New, nobody dials.             *)
LEMMA MutexFree ==
  ASSUME ClientInv, mutex = NoCaller, phase # "dialling", NEW d \in Callers
  PROVE  ~Dialling(d)
  BY Goroutines DEF ClientInv, DialInv

(* The invariant of the client, action by action: the process ends,        *)
LEMMA ClientInvDown ==
  ASSUME Down PROVE ClientInv'
  <1>1. phase' \notin HasClient
    BY DEF Down, HasClient, Alive
  <1>2. \A c \in Callers : qpc'[c] = "idle" /\ got'[c] = 0
    BY DEF Down, ClientGone
  <1> QED
    BY <1>1, <1>2
       DEF Down, ClientGone, ClientInv, DialInv, AloneInv, OwnedInv, FreshInv, Dialling

(* main goes on to a phase without a client,                               *)
LEMMA ClientInvAdvance ==
  ASSUME ClientInv, Advance PROVE ClientInv'
  <1>1. phase \in HasClient => phase' \in HasClient
    BY DEF Advance, HasClient
  <1> QED
    BY <1>1 DEF Advance, HasClient, clientVars, ClientInv, DialInv, AloneInv,
                OwnedInv, FreshInv, Dialling

(* main calls New, alone,                                                  *)
LEMMA ClientInvOpen ==
  ASSUME TypeOK, ClientInv, OpenClient PROVE ClientInv'
  <1>1. /\ conn = 0 /\ mutex = NoCaller /\ \A c \in Callers : qpc[c] = "idle"
    BY DEF OpenClient, NewQueue, ClientInv, AloneInv, HasClient, Alive
  <1>2. open = {}
    BY <1>1 DEF ClientInv, OwnedInv, TypeOK, ClientTypeOK
  <1>3. phase' = "dialling" /\ qpc' = [qpc EXCEPT ![Main] = "dial"]
        /\ UNCHANGED <<conn, open, chans, mutex, got, conf>> /\ "queue" \in conf
    BY DEF OpenClient, NewQueue, BeginNew, At, Goto
  <1>4. qpc'[Main] = "dial" /\ \A c \in Callers \ {Main} : qpc'[c] = "idle"
    BY <1>1, <1>3, Goroutines DEF TypeOK, ClientTypeOK
  <1>5. DialInv'
    BY <1>1, <1>2, <1>3, <1>4 DEF DialInv, Dialling
  <1>6. AloneInv'
    BY <1>1, <1>3, <1>4 DEF AloneInv, HasClient
  <1>7. OwnedInv' /\ FreshInv'
    BY <1>1, <1>2, <1>3, <1>4 DEF ClientInv, OwnedInv, FreshInv
  <1> QED
    BY <1>5, <1>6, <1>7 DEF ClientInv

(* main serves and starts worker and collector,                            *)
LEMMA ClientInvServe ==
  ASSUME TypeOK, ClientInv, Serve PROVE ClientInv'
  <1>1. /\ mutex = NoCaller /\ qpc[Main] \in {"use", "failed"}
        /\ \A c \in Callers \ {Main} : qpc[c] = "idle" /\ got[c] = 0
    BY DEF Serve, ClientInv, AloneInv, FreshInv
  <1>2. /\ \A c \in Callers : qpc'[c] \in {"idle", "lock"} /\ got'[c] = 0
        /\ UNCHANGED <<conn, open, chans, mutex, conf>> /\ phase' = "serving"
    BY <1>1, Goroutines DEF Serve, Goto, TypeOK, ClientTypeOK
  <1>3. \A c \in Callers : qpc[c] # "declare"
    BY <1>1
  <1> QED
    BY <1>1, <1>2, <1>3
       DEF ClientInv, DialInv, AloneInv, OwnedInv, FreshInv, Dialling, HasClient, Alive

(* Close, and the broker's faults, take connections and channels away.     *)
LEMMA ClientInvClosing ==
  ASSUME ClientInv, open' \subseteq open, chans' \subseteq chans,
         UNCHANGED <<conn, mutex, qpc, got, conf>>,
         phase' = phase \/ (phase \in Alive /\ phase' \in Alive)
  PROVE  ClientInv'
  <1>1. /\ phase' \in HasClient <=> phase \in HasClient
        /\ phase' = "dialling" <=> phase = "dialling"
    BY DEF HasClient, Alive
  <1> QED
    BY <1>1 DEF ClientInv, DialInv, AloneInv, OwnedInv, FreshInv, Dialling

(* A call begins, or returns, while nobody is in New.                      *)
LEMMA ClientInvCall ==
  ASSUME ClientTypeOK, ClientInv, NEW c \in Callers, phase \in Alive,
         UNCHANGED <<phase, conf>>,
         BeginCall(c) \/ (Return(c) /\ ~Dialling(c))
  PROVE  ClientInv'
  <1>1. UNCHANGED <<conn, open, chans, mutex>>
    BY DEF BeginCall, Return
  <1>2. \A d \in Callers \ {c} : qpc'[d] = qpc[d] /\ got'[d] = got[d]
    BY DEF BeginCall, Return, At, ClientTypeOK
  <1>3. qpc'[c] \in {"idle", "lock"} /\ got'[c] = 0 /\ qpc[c] # "declare"
    BY DEF BeginCall, Return, At, ClientTypeOK, ClientInv, FreshInv, Dialling
  <1>4. phase' \in HasClient /\ phase' # "dialling"
    BY DEF HasClient, Alive
  <1> QED
    BY <1>1, <1>2, <1>3, <1>4
       DEF ClientInv, DialInv, AloneInv, OwnedInv, FreshInv, Dialling

(* Whoever is in the client is main in New, or New has returned.           *)
LEMMA InClient ==
  ASSUME ClientInv, TypeOK, NEW c \in Callers, qpc[c] # "idle"
  PROVE  phase \in HasClient /\ (phase = "dialling" => c = Main /\ qpc[c] # "lock")
  BY DEF ClientInv, AloneInv

(* a caller finds the connection open, or takes the mutex and will dial,   *)
LEMMA ClientInvGetChannel ==
  ASSUME TypeOK, ClientInv, NEW c \in Callers, UNCHANGED <<phase, conf>>, GetChannel(c)
  PROVE  ClientInv'
  <1>1. qpc[c] = "lock" /\ mutex = NoCaller /\ phase \in HasClient /\ phase # "dialling"
    BY InClient DEF GetChannel
  <1>2. UNCHANGED <<conn, open, chans>>
    BY DEF GetChannel
  <1>3. \A d \in Callers \ {c} : qpc'[d] = qpc[d] /\ got'[d] = got[d] /\ ~Dialling(d)
    BY <1>1, MutexFree DEF GetChannel, At, TypeOK, ClientTypeOK
  <1>4. \/ qpc'[c] = "use"
        \/ qpc'[c] = "dial" /\ got'[c] = got[c] /\ mutex' = c /\ conn \notin open
    BY DEF GetChannel, At, TypeOK, ClientTypeOK
  <1>5. DialInv'
    BY <1>2, <1>3, <1>4 DEF DialInv, Dialling
  <1>6. AloneInv'
    BY <1>1 DEF AloneInv
  <1>7. OwnedInv' /\ FreshInv'
    BY <1>1, <1>2, <1>3, <1>4 DEF ClientInv, OwnedInv, FreshInv, Dialling
  <1> QED
    BY <1>5, <1>6, <1>7 DEF ClientInv

(* the one who may dial does so.                                           *)
LEMMA ClientInvDial ==
  ASSUME TypeOK, ClientInv, NEW c \in Callers, UNCHANGED <<phase, conf>>, Dial(c)
  PROVE  ClientInv'
  <1>1. /\ qpc[c] = "dial" /\ conn \notin open
        /\ phase \in HasClient /\ (phase = "dialling" => c = Main)
    BY InClient DEF Dial, ClientInv, DialInv, Dialling
  <1>2. \A d \in Callers \ {c} : qpc'[d] = qpc[d] /\ got'[d] = got[d] /\ ~Dialling(d)
    BY <1>1, OneDialler DEF Dial, At, Dialling, TypeOK, ClientTypeOK
  <1>3. open = {}
    BY <1>1, <1>2 DEF ClientInv, OwnedInv, Dialling
  <1>4. /\ qpc'[c] = "declare" /\ got'[c] = dials + 1 /\ open' = {dials + 1}
        /\ UNCHANGED <<conn, chans, mutex>>
    BY <1>3 DEF Dial, At, TypeOK, ClientTypeOK
  <1>5. conn \notin open' /\ dials + 1 \notin chans
    BY <1>3, <1>4 DEF TypeOK, ClientTypeOK
  <1>6. DialInv'
    BY <1>1, <1>2, <1>4, <1>5 DEF ClientInv, DialInv, Dialling
  <1>7. AloneInv'
    BY <1>1, <1>2, <1>4 DEF ClientInv, AloneInv
  <1>8. OwnedInv' /\ FreshInv'
    BY <1>2, <1>4, <1>5 DEF ClientInv, OwnedInv, FreshInv
  <1> QED
    BY <1>6, <1>7, <1>8 DEF ClientInv

(* dial ends, with a channel or with an error.                             *)
LEMMA ClientInvDialled ==
  ASSUME TypeOK, ClientInv, NEW c \in Callers, UNCHANGED <<phase, conf>>,
         Declare(c) \/ DialFails(c)
  PROVE  ClientInv'
  <1>1. /\ Dialling(c) /\ conn \notin open
        /\ phase \in HasClient /\ (phase = "dialling" => c = Main)
    BY InClient DEF Declare, DialFails, ClientInv, DialInv, Dialling
  <1>2. /\ got' = got /\ mutex' = NoCaller
        /\ \A d \in Callers \ {c} : qpc'[d] = qpc[d] /\ ~Dialling(d)
    BY <1>1, OneDialler DEF Declare, DialFails, At, TypeOK, ClientTypeOK
  <1>3. qpc'[c] \in {"use", "failed"}
    BY DEF Declare, DialFails, At, TypeOK, ClientTypeOK
  <1>4. open \subseteq {got[c]}
    BY <1>1, <1>2 DEF ClientInv, OwnedInv, Dialling
  <1>5. open' \subseteq {conn'}
    BY <1>4 DEF Declare, DialFails
  <1>6. DialInv'
    BY <1>2, <1>3 DEF DialInv, Dialling
  <1>7. AloneInv'
    BY <1>1, <1>2, <1>3 DEF ClientInv, AloneInv
  <1>8. OwnedInv'
    BY <1>5 DEF OwnedInv
  <1>9. FreshInv'
    BY <1>2, <1>3 DEF ClientInv, FreshInv, Dialling
  <1> QED
    BY <1>6, <1>7, <1>8, <1>9 DEF ClientInv

(* Handlers of transfers and the other goroutines use the client only when *)
(* the process is alive.                                                   *)
LEMMA GoroutineAlive ==
  ASSUME TypeOK, ClientInv, NEW c \in Callers \ {Main}, qpc[c] # "idle"
  PROVE  phase \in Alive
  BY InClient DEF HasClient

(* A call ends and its goroutine goes on.                                  *)
LEMMA ReturnsToCaller ==
  ASSUME TypeOK, ClientInv, NEW c \in Callers \ {Main},
         Works(c) \/ Fails(c), Return(c), UNCHANGED <<phase, conf>>
  PROVE  ClientTypeOK' /\ ClientInv'
  <1>1. qpc[c] # "idle" /\ ~Dialling(c)
    BY DEF Works, Fails, Dialling
  <1>2. phase \in Alive /\ ClientTypeOK
    BY <1>1, GoroutineAlive DEF TypeOK
  <1> QED
    BY <1>1, <1>2, CallTypes, ClientInvCall

(* A goroutine begins a call.                                              *)
LEMMA CallsClient ==
  ASSUME TypeOK, ClientInv, NEW c \in Callers, phase \in Alive,
         BeginCall(c), UNCHANGED <<phase, conf>>
  PROVE  ClientTypeOK' /\ ClientInv'
  BY CallTypes, ClientInvCall DEF TypeOK

(* A step elsewhere.                                                       *)
LEMMA ClientLeftAlone ==
  ASSUME TypeOK, ClientInv, UNCHANGED <<clientVars, phase, conf>>
  PROVE  ClientTypeOK' /\ ClientInv'
  <1>1. ClientTypeOK'
    BY ClientSameType DEF TypeOK
  <1>2. ClientInv'
    BY ClientInvClosing DEF clientVars
  <1> QED
    BY <1>1, <1>2

(* The steps of the goroutines keep the client's invariant.                *)
Goroutine ==
  \/ \E c \in Callers : ClientStep(c) \/ ClientFails(c)
  \/ StartWorkers \/ WorkersReturn \/ Collect \/ Collected \/ BrokerFault

Handling(tx) == Receive(tx) \/ Handler(tx) \/ CreateFails(tx) \/ Work(tx)

(* The steps of broker, workers and collector on the client.               *)
LEMMA GoroutineClient ==
  ASSUME TypeOK, ClientInv, Goroutine
  PROVE  ClientTypeOK' /\ ClientInv'
  <1>1. ASSUME NEW c \in Callers, ClientStep(c)
        PROVE  ClientTypeOK' /\ ClientInv'
    <2>1. UNCHANGED <<phase, conf>> /\ ClientTypeOK
      BY <1>1 DEF ClientStep, TypeOK
    <2>2. CASE GetChannel(c)
      BY <2>1, <2>2, CallTypes, ClientInvGetChannel
    <2>3. CASE Dial(c)
      BY <2>1, <2>3, DialType, ClientInvDial
    <2>4. CASE Declare(c)
      BY <2>1, <2>4, CallTypes, ClientInvDialled
    <2> QED
      BY <1>1, <2>2, <2>3, <2>4 DEF ClientStep
  <1>2. ASSUME NEW c \in Callers, ClientFails(c)
        PROVE  ClientTypeOK' /\ ClientInv'
    <2>1. UNCHANGED <<phase, conf>> /\ ClientTypeOK /\ FreshInv /\ DialFails(c)
      BY <1>2 DEF ClientFails, TypeOK, ClientInv
    <2> QED
      BY <2>1, DialFailsType, ClientInvDialled
  <1>3. CASE StartWorkers
    BY <1>3, Goroutines, ReturnsToCaller DEF StartWorkers
  <1>4. CASE Collected
    BY <1>4, Goroutines, ReturnsToCaller DEF Collected
  <1>5. CASE Collect
    BY <1>5, Goroutines, CallsClient DEF Collect, Alive
  <1>6. CASE BrokerFault
    <2>1. ClientTypeOK'
      BY <1>6, ClosingType DEF BrokerFault, TypeOK
    <2>2. /\ open' \subseteq open /\ chans' \subseteq chans
          /\ UNCHANGED <<conn, mutex, qpc, got, conf, phase>>
      BY <1>6 DEF BrokerFault, ConnBreaks, ChannelException
    <2> QED
      BY <2>1, <2>2, ClientInvClosing
  <1>7. CASE WorkersReturn
    BY <1>7, ClientLeftAlone DEF WorkersReturn
  <1> QED
    BY <1>1, <1>2, <1>3, <1>4, <1>5, <1>6, <1>7 DEF Goroutine

(* The steps of the handlers on the client.                                *)
LEMMA HandlingClient ==
  ASSUME TypeOK, ClientInv, HandlerInv, NEW tx \in Txs, Handling(tx)
  PROVE  ClientTypeOK' /\ ClientInv'
  <1>1. tx \in Callers \ {Main}
    BY Goroutines
  <1>2. CASE Receive(tx) \/ CreateFails(tx) \/ Work(tx)
    BY <1>2, ClientLeftAlone DEF Receive, CreateFails, Work, Handle
  <1>3. CASE Create(tx)
    <2>1. phase \in Alive /\ UNCHANGED <<phase, conf>>
      BY <1>3 DEF Create, HandlerInv, Running, Handle
    <2>2. BeginCall(tx) \/ UNCHANGED clientVars
      BY <1>3 DEF Create
    <2> QED
      BY <1>1, <2>1, <2>2, CallsClient, ClientLeftAlone
  <1>4. CASE Published(tx) \/ Unpublished(tx)
    BY <1>1, <1>4, ReturnsToCaller DEF Published, Unpublished, Handle
  <1> QED
    BY <1>2, <1>3, <1>4 DEF Handling, Handler

(* main's steps do.                                                        *)
LEMMA MainClient ==
  ASSUME TypeOK, ClientInv, Ending \/ Advance \/ OpenClient \/ Serve \/ CloseClient
  PROVE  ClientTypeOK' /\ ClientInv'
  <1>1. CASE Ending
    BY <1>1, ClientGoneType, ClientInvDown DEF Ending, Down
  <1>2. CASE Advance
    BY <1>2, ClientSameType, ClientInvAdvance DEF Advance, TypeOK
  <1>3. CASE OpenClient
    BY <1>3, Goroutines, CallTypes, ClientInvOpen DEF OpenClient, NewQueue, TypeOK
  <1>4. CASE Serve
    BY <1>4, ServeType, ClientInvServe DEF TypeOK
  <1>5. CASE CloseClient
    <2>1. Close /\ phase \in Alive /\ phase' \in Alive /\ conf' = conf
      BY <1>5 DEF CloseClient, CloseAll, Goto, Alive
    <2>2. /\ open' \subseteq open /\ chans' \subseteq chans
          /\ UNCHANGED <<conn, mutex, qpc, got>>
      BY <2>1 DEF Close
    <2> QED
      BY <2>1, <2>2, ClosingType, ClientInvClosing DEF TypeOK
  <1> QED
    BY <1>1, <1>2, <1>3, <1>4, <1>5

(* Every step is one of main, of a goroutine or of a handler.              *)
LEMMA NextKinds ==
  ASSUME TypeOK, Next
  PROVE  \/ Ending \/ Advance \/ OpenClient \/ Serve \/ CloseClient
         \/ Goroutine \/ Replicate
         \/ \E tx \in Txs : Handling(tx)
  BY MainKinds DEF Next, Goroutine, Handling
-----------------------------------------------------------------------------
(* The type invariant.                                                     *)

(* The client forgets no dial before the process ends.                     *)
LEMMA DialsGrow ==
  ASSUME TypeOK,
         \/ UNCHANGED dials
         \/ \E c \in Callers : Dial(c)
  PROVE  consumer \in 0..dials'
  BY DEF TypeOK, ClientTypeOK, Dial

(* Types of the server, by the kind of the step.                           *)
LEMMA TypeMain ==
  ASSUME TypeOK, ClientInv, ClientTypeOK',
         Ending \/ Advance \/ OpenClient \/ Serve \/ CloseClient
  PROVE  TypeOK'
  <1> USE DEF Phases, Boot, Alive
  <1>1. CASE Ending
    BY <1>1, DownType DEF Ending
  <1>2. CASE Advance
    BY <1>2 DEF Advance, TypeOK, dataVars, clientVars
  <1>3. CASE OpenClient
    BY <1>3, EventType, HitType DEF OpenClient, NewQueue, BeginNew, Goto, TypeOK, dataVars
  <1>4. CASE Serve
    <2>1. "queue" \in conf
      BY <1>4 DEF Serve, ClientInv, AloneInv
    <2> QED
      BY <1>4, <2>1, EventType, HitType DEF Serve, Goto, TypeOK, dataVars
  <1>5. CASE CloseClient
    BY <1>5 DEF CloseClient, CloseAll, Close, Goto, TypeOK, dataVars, RunningTxs
  <1> QED
    BY <1>1, <1>2, <1>3, <1>4, <1>5

(* Workers, collector and broker.                                          *)
LEMMA TypeGoroutine ==
  ASSUME TypeOK, ClientTypeOK', Goroutine
  PROVE  TypeOK'
  <1>1. faults' \in 0..MaxFaults /\ hit' \subseteq Txs
    BY EventType, HitType DEF Goroutine, ClientStep, ClientFails, StartWorkers, WorkersReturn,
                              Collect, Collected, BrokerFault
  <1>2. UNCHANGED <<conf, phase, deps, schema, api, dataVars>>
    BY DEF Goroutine, ClientStep, ClientFails, StartWorkers, WorkersReturn, Collect, Collected,
           BrokerFault
  <1>3. consumer' \in 0..dials'
    <2>1. CASE StartWorkers
      BY <2>1, Goroutines DEF StartWorkers, Return, TypeOK, ClientTypeOK
    <2>2. CASE WorkersReturn
      BY <2>2 DEF WorkersReturn, TypeOK, ClientTypeOK, clientVars
    <2>3. CASE ~StartWorkers /\ ~WorkersReturn
      <3>1. consumer' = consumer
        BY <2>3 DEF Goroutine, ClientStep, ClientFails, Collect, Collected, BrokerFault
      <3>2. UNCHANGED dials \/ \E c \in Callers : Dial(c)
        BY <2>3 DEF Goroutine, ClientStep, ClientFails, Collect, Collected, BrokerFault,
                    GetChannel, Declare, DialFails, BeginCall, Return, ConnBreaks,
                    ChannelException
      <3> QED
        BY <3>1, <3>2, DialsGrow
    <2> QED
      BY <2>1, <2>2, <2>3
  <1> QED
    BY <1>1, <1>2, <1>3 DEF TypeOK, dataVars

(* Handlers.                                                               *)
LEMMA TypeHandling ==
  ASSUME TypeOK, ClientTypeOK', NEW tx \in Txs, Handling(tx)
  PROVE  TypeOK'
  <1>1. faults' \in 0..MaxFaults /\ hit' \subseteq Txs
    BY EventType, HitType
       DEF Handling, Handler, Receive, Create, CreateFails, Published, Unpublished, Work,
           DatabaseFails
  <1>2. UNCHANGED <<conf, phase, deps, schema, consumer>>
    BY DEF Handling, Handler, Handle, Receive, Create, CreateFails, Published, Unpublished,
           Work
  <1>3. api' \in [Txs -> ApiStates]
    BY DEF Handling, Handler, Handle, Receive, Create, CreateFails, Published, Unpublished,
           Work, Set, TypeOK, ApiStates, Running
  <1>4. {mem', pg', rep'} \subseteq [Txs -> Statuses]
    <2>1. rep' = rep
      BY DEF Handling, Handler, Receive, Create, CreateFails, Published, Unpublished, Work,
             dataVars
    <2>2. mem' \in [Txs -> Statuses] /\ pg' \in [Txs -> Statuses]
      BY DEF Handling, Handler, Receive, Create, CreateFails, Published, Unpublished, Work,
             SaveAs, Set, TypeOK, Statuses, dataVars
    <2> QED
      BY <2>1, <2>2 DEF TypeOK
  <1>5. msg' \in [Txs -> MsgStates]
    BY DEF Handling, Handler, Receive, Create, CreateFails, Published, Unpublished, Work,
           Set, TypeOK, MsgStates, dataVars
  <1>6. UNCHANGED dials
    BY DEF Handling, Handler, Receive, Create, CreateFails, Published, Unpublished, Work,
           BeginCall, Return, clientVars
  <1> QED
    BY <1>1, <1>2, <1>3, <1>4, <1>5, <1>6, DialsGrow DEF TypeOK

(* The replica.                                                            *)
LEMMA TypeReplicate ==
  ASSUME TypeOK, ClientTypeOK', Replicate
  PROVE  TypeOK'
  BY DEF TypeOK, Replicate, NoFault, clientVars
-----------------------------------------------------------------------------
(* Handlers, records and faults.                                           *)

(* The invariants about handlers, records and faults, at first and by the  *)
(* kind of the step.                                                       *)
LEMMA OthersInit ==
  ASSUME Init PROVE HandlerInv /\ RecordInv /\ HitInv
  BY Goroutines
     DEF Init, ClientInit, HandlerInv, RecordInv, HitInv, Running, PastDB, Alive, RunningTxs

(* A dying process takes its running requests along; rows of the database  *)
(* stay.                                                                   *)
LEMMA OthersMain ==
  ASSUME TypeOK, ClientInv, HandlerInv, RecordInv, HitInv,
         Ending \/ Advance \/ OpenClient \/ Serve \/ CloseClient
  PROVE  HandlerInv' /\ RecordInv' /\ HitInv'
  <1>1. CASE Ending
    <2>1. /\ \A tx \in Txs : qpc'[tx] = "idle" /\ api'[tx] \notin Running
          /\ phase' \notin PastDB
      BY <1>1, Goroutines
         DEF Ending, Down, ClientGone, TypeOK, Running, PastDB, Alive
    <2>2. \A tx \in Txs : api'[tx] \in {"201", "202"} => api'[tx] = api[tx]
      BY <1>1 DEF Ending, Down, TypeOK
    <2> QED
      BY <1>1, <2>1, <2>2
         DEF Ending, Down, HandlerInv, RecordInv, HitInv, Running, PastDB, Alive
  <1>2. CASE Advance
    BY <1>2 DEF Advance, HandlerInv, RecordInv, HitInv, Running, clientVars, dataVars,
                RunningTxs
  <1>3. CASE OpenClient
    <2>1. \A tx \in Txs : qpc'[tx] = qpc[tx]
      BY <1>3, Goroutines DEF OpenClient, NewQueue, BeginNew, At, TypeOK, ClientTypeOK
    <2>2. phase = "queue" /\ phase' = "dialling"
      BY <1>3 DEF OpenClient, NewQueue, Goto
    <2>3. UNCHANGED <<got, open, conf, deps, api, mem, pg, hit>>
      BY <1>3 DEF OpenClient, NewQueue, BeginNew, Goto, NoFault, dataVars
    <2>4. \A tx \in Txs : api[tx] \notin Running
      BY <2>2 DEF HandlerInv, Alive
    <2> QED
      BY <2>1, <2>2, <2>3, <2>4 DEF HandlerInv, RecordInv, HitInv, PastDB, RunningTxs
  <1>4. CASE Serve
    <2>1. \A tx \in Txs : qpc'[tx] = qpc[tx] /\ got'[tx] = got[tx]
      BY <1>4, Goroutines DEF Serve, TypeOK, ClientTypeOK
    <2>2. phase = "dialling" /\ phase' = "serving" /\ deps \subseteq deps'
      BY <1>4 DEF Serve, Goto
    <2>3. UNCHANGED <<open, conf, api, mem, pg, hit>>
      BY <1>4 DEF Serve, Goto, NoFault, dataVars
    <2> QED
      BY <2>1, <2>2, <2>3 DEF HandlerInv, RecordInv, HitInv, PastDB, Alive
  <1>5. CASE CloseClient
    <2>1. phase = "closing" /\ phase' = "exiting" /\ hit' = hit \cup RunningTxs
      BY <1>5 DEF CloseClient, CloseAll, Goto
    <2>2. UNCHANGED <<qpc, got, conf, deps, api, mem, pg>>
      BY <1>5 DEF CloseClient, CloseAll, Close, Goto, dataVars
    <2>3. \A tx \in Txs : qpc[tx] # "idle" => tx \in hit'
      BY <2>1 DEF HandlerInv, RunningTxs, Running
    <2> QED
      BY <2>1, <2>2, <2>3 DEF HandlerInv, RecordInv, HitInv, PastDB, Alive, RunningTxs
  <1> QED
    BY <1>1, <1>2, <1>3, <1>4, <1>5

(* A broken connection hits the requests that run, and the worker changes  *)
(* the status of rows that exist.                                          *)
LEMMA OthersGoroutine ==
  ASSUME TypeOK, HandlerInv, RecordInv, HitInv, Goroutine
  PROVE  HandlerInv' /\ RecordInv' /\ HitInv'
  <1>1. UNCHANGED <<conf, phase, deps, api, mem, pg>> /\ hit \subseteq hit'
    BY DEF Goroutine, ClientStep, ClientFails, StartWorkers, WorkersReturn, Collect, Collected,
           BrokerFault, dataVars, NoFault, Fault
  <1>2. RecordInv'
    BY <1>1 DEF RecordInv
  <1>3. \A tx \in Txs : qpc'[tx] # "idle" => qpc[tx] # "idle"
    BY Goroutines
       DEF Goroutine, ClientStep, ClientFails, StartWorkers, WorkersReturn, Collect, Collected,
           BrokerFault, GetChannel, Dial, Declare, DialFails, BeginCall, Return, At, ConnBreaks,
           ChannelException, clientVars, TypeOK, ClientTypeOK
  <1>4. HandlerInv'
    BY <1>1, <1>3 DEF HandlerInv
  <1>5. ASSUME NEW tx \in Txs, tx \notin hit'
        PROVE  /\ qpc'[tx] # "failed"
               /\ qpc'[tx] \in {"declare", "use"} => got'[tx] \in open'
    <2> USE Goroutines DEF TypeOK, ClientTypeOK, At
    <2>1. /\ tx \notin hit /\ qpc[tx] # "failed"
          /\ qpc[tx] \in {"declare", "use"} => got[tx] \in open
      BY <1>1, <1>5 DEF HitInv
    <2>2. Fault => qpc[tx] = "idle"
      BY <1>5 DEF Fault, RunningTxs, Running, HandlerInv
    <2>3. ASSUME NEW c \in Callers, ClientStep(c)
          PROVE  /\ qpc'[tx] # "failed"
                 /\ qpc'[tx] \in {"declare", "use"} => got'[tx] \in open'
      <3>1. CASE GetChannel(c)
        BY <2>1, <3>1 DEF GetChannel
      <3>2. CASE Dial(c)
        BY <2>1, <3>2 DEF Dial
      <3>3. CASE Declare(c)
        BY <2>1, <3>3 DEF Declare
      <3> QED
        BY <2>3, <3>1, <3>2, <3>3 DEF ClientStep
    <2>4. ASSUME NEW c \in Callers, ClientFails(c)
          PROVE  /\ qpc'[tx] # "failed"
                 /\ qpc'[tx] \in {"declare", "use"} => got'[tx] \in open'
      <3>1. CASE Fault
        <4>1. c # tx /\ qpc'[tx] = "idle"
          BY <2>2, <2>4, <3>1 DEF ClientFails, DialFails
        <4> QED
          BY <4>1
      <3>2. CASE ~Fault
        <4>1. qpc[c] = "declare" /\ got[c] \notin open /\ open' = open /\ got' = got
          BY <2>4, <3>2 DEF ClientFails, DialFails
        <4>2. c # tx
          BY <2>1, <4>1
        <4> QED
          BY <2>1, <2>4, <4>1, <4>2 DEF ClientFails, DialFails
      <3> QED
        BY <3>1, <3>2
    <2>5. CASE StartWorkers \/ WorkersReturn \/ Collect \/ Collected
      BY <2>1, <2>5 DEF StartWorkers, WorkersReturn, Collect, Collected, BeginCall, Return,
                        clientVars
    <2>6. CASE BrokerFault
      BY <2>2, <2>6 DEF BrokerFault, ConnBreaks, ChannelException
    <2> QED
      BY <2>3, <2>4, <2>5, <2>6 DEF Goroutine
  <1>6. HitInv'
    BY <1>1, <1>5 DEF HitInv, RunningTxs
  <1> QED
    BY <1>2, <1>4, <1>6

(* The replica takes over what the primary has.                            *)
LEMMA OthersReplicate ==
  ASSUME HandlerInv, RecordInv, HitInv, Replicate
  PROVE  HandlerInv' /\ RecordInv' /\ HitInv'
  BY DEF Replicate, HandlerInv, RecordInv, HitInv, RunningTxs, NoFault, clientVars

(* A record, once made, stays while the process lives.                     *)
LEMMA RecordsStay ==
  ASSUME TypeOK, NEW tx \in Txs, Handling(tx), NEW u \in Txs
  PROVE  /\ pg[u] # "absent" => pg'[u] # "absent"
         /\ mem[u] # "absent" => mem'[u] # "absent"
  BY DEF Handling, Handler, Receive, Create, CreateFails, Published, Unpublished, Work,
         SaveAs, Set, TypeOK, dataVars

(* What Create does.                                                       *)
LEMMA CreateRecords ==
  ASSUME TypeOK, HandlerInv, NEW tx \in Txs, Create(tx),
         api'[tx] \in {"publish", "201", "202"}
  PROVE  IF "db" \in conf THEN pg'[tx] # "absent" ELSE mem'[tx] # "absent"
  <1>1. phase \in PastDB
    BY DEF Create, HandlerInv, Running, PastDB
  <1>2. "db" \in deps <=> "db" \in conf
    BY <1>1 DEF HandlerInv, TypeOK
  <1> QED
    BY <1>2 DEF Create, SaveAs, Handle, Set, TypeOK

(* What no handler changes.                                                *)
LEMMA HandlingFrame ==
  ASSUME TypeOK, NEW tx \in Txs, Handling(tx)
  PROVE  /\ UNCHANGED <<conf, phase, deps, open>> /\ hit \subseteq hit'
         /\ \A u \in Txs \ {tx} : api'[u] = api[u] /\ qpc'[u] = qpc[u] /\ got'[u] = got[u]
  <1>1. UNCHANGED <<conf, phase, deps, open>>
    BY DEF Handling, Handler, Receive, Create, CreateFails, Published, Unpublished, Work,
           Handle, BeginCall, Return, clientVars
  <1>2. hit \subseteq hit'
    BY DEF Handling, Handler, Receive, Create, CreateFails, Published, Unpublished, Work,
           DatabaseFails, NoFault, Fault
  <1>3. \A u \in Txs \ {tx} : api'[u] = api[u]
    BY DEF Handling, Handler, Receive, Create, CreateFails, Published, Unpublished, Work,
           Handle, Set, TypeOK
  <1>4. \A u \in Txs \ {tx} : qpc'[u] = qpc[u] /\ got'[u] = got[u]
    BY Goroutines
       DEF Handling, Handler, Receive, Create, CreateFails, Published, Unpublished, Work,
           BeginCall, Return, At, clientVars, TypeOK, ClientTypeOK
  <1> QED
    BY <1>1, <1>2, <1>3, <1>4

(* A handler writes its row before it publishes or answers.                *)
LEMMA OthersHandling ==
  ASSUME TypeOK, ClientInv, HandlerInv, RecordInv, HitInv, NEW tx \in Txs, Handling(tx)
  PROVE  HandlerInv' /\ RecordInv' /\ HitInv'
  <1> USE DEF TypeOK, ClientTypeOK, Set
  <1>1. \/ qpc'[tx] = qpc[tx] /\ got'[tx] = got[tx] /\ api'[tx] = api[tx]
        \/ qpc[tx] = "idle" /\ qpc'[tx] = "idle" /\ got'[tx] = got[tx]
        \/ qpc'[tx] = "lock" /\ api'[tx] = "publish"
        \/ qpc'[tx] = "idle"
    BY Goroutines
       DEF Handling, Handler, Receive, Create, CreateFails, Published, Unpublished, Work,
           Handle, BeginCall, Return, At, clientVars, HandlerInv
  <1>2. api'[tx] \in Running => phase \in Alive
    BY DEF Handling, Handler, Receive, Create, CreateFails, Published, Unpublished, Work,
           Handle, HandlerInv, Running, Alive
  <1>3. HandlerInv'
    BY <1>1, <1>2, HandlingFrame DEF HandlerInv
  <1>4. api'[tx] = api[tx] \/ Create(tx) \/ api[tx] = "publish" \/ api'[tx] \in {"create", "500"}
    BY DEF Handling, Handler, Receive, CreateFails, Published, Unpublished, Work, Handle
  <1>5. RecordInv'
    BY <1>4, RecordsStay, CreateRecords, HandlingFrame DEF RecordInv
  <1>6. phase = "exiting" /\ api'[tx] \in Running => api[tx] \in Running
    BY DEF Handling, Handler, Receive, Create, CreateFails, Published, Unpublished, Work,
           Handle, Running
  <1>7. phase' = "exiting" => (RunningTxs \subseteq hit)'
    BY <1>6, HandlingFrame DEF HitInv, RunningTxs
  <1>8. HitInv'
    BY <1>1, <1>7, HandlingFrame DEF HitInv
  <1> QED
    BY <1>3, <1>5, <1>8
-----------------------------------------------------------------------------
(* Together: at first,                                                     *)
LEMMA ServerInvInit ==
  Init => ServerInv
  BY TypeInit, ClientInvInit, OthersInit DEF ServerInv

(* by every step,                                                          *)
LEMMA ServerInvNext ==
  ServerInv /\ [Next]_vars => ServerInv'
  <1> SUFFICES ASSUME ServerInv, [Next]_vars PROVE ServerInv'
    OBVIOUS
  <1> USE DEF ServerInv
  <1>1. CASE Ending \/ Advance \/ OpenClient \/ Serve \/ CloseClient
    BY <1>1, MainClient, TypeMain, OthersMain
  <1>2. CASE Goroutine
    BY <1>2, GoroutineClient, TypeGoroutine, OthersGoroutine
  <1>3. ASSUME NEW tx \in Txs, Handling(tx) PROVE ServerInv'
    BY <1>3, HandlingClient, TypeHandling, OthersHandling
  <1>4. CASE Replicate
    <2>1. ClientTypeOK' /\ ClientInv'
      BY <1>4, ClientLeftAlone DEF Replicate
    <2> QED
      BY <1>4, <2>1, TypeReplicate, OthersReplicate
  <1>5. CASE UNCHANGED vars
    <2>1. ClientTypeOK' /\ ClientInv'
      BY <1>5, ClientLeftAlone DEF vars
    <2> QED
      BY <1>5, <2>1 DEF vars, dataVars, clientVars, TypeOK, HandlerInv, RecordInv, HitInv,
                        RunningTxs
  <1> QED
    BY <1>1, <1>2, <1>3, <1>4, <1>5, NextKinds

(* and therefore always.                                                   *)
LEMMA ServerInvariant ==
  Spec => []ServerInv
  BY ServerInvInit, ServerInvNext, PTL DEF Spec

(***************************************************************************)
(* The variables keep their types in every configuration: main holds only  *)
(* handles that its configuration names, and the workers consume on a      *)
(* connection of this life of the process.                                 *)
(***************************************************************************)
THEOREM ServerTypeCorrect ==
  Spec => []TypeOK
  BY ServerInvariant, PTL DEF ServerInv

(***************************************************************************)
(* getChannel never leaves a second connection open: however many          *)
(* goroutines find the connection broken at the same time, and whatever    *)
(* fails while one of them dials.                                          *)
(***************************************************************************)
THEOREM ClientOneConnection ==
  Spec => []OneConnection
  <1>1. ServerInv => OneConnection
    <2> SUFFICES ASSUME ServerInv, NEW k \in open, k # conn
                 PROVE  \E c \in Callers :
                          /\ qpc[c] = "declare" /\ got[c] = k
                          /\ \A d \in Callers \ {c} : qpc[d] \notin {"dial", "declare"}
      BY DEF OneConnection
    <2>1. PICK c \in Callers : qpc[c] = "declare" /\ got[c] = k
      BY DEF ServerInv, ClientInv, OwnedInv
    <2> QED
      BY <2>1, OneDialler DEF ServerInv, Dialling
  <1> QED
    BY <1>1, ServerInvariant, PTL

(***************************************************************************)
(* A positive answer is on record when it is given, and in a server        *)
(* configured with a database it stays in the primary for good: Save, or   *)
(* the transaction of createSync, comes before every answer, and goes to   *)
(* the database, because main does not serve without a configured one.     *)
(* This is shown for every configuration, every number of transfers and    *)
(* every sequence of failures and restarts.  When the replica has the row  *)
(* is a matter of fairness (AnswersFound) and not of this theorem.         *)
(***************************************************************************)
THEOREM AnswersOnRecord ==
  Spec => AnswersKept
  <1> DEFINE Kept ==
        \A tx \in Txs :
          api'[tx] \in {"201", "202"} /\ ~OnRecord(tx)' =>
            /\ "db" \notin conf
            /\ phase' = "down" \/ (api[tx] \in {"201", "202"} /\ ~OnRecord(tx))
  <1>1. ServerInv /\ [Next]_vars => [Kept]_vars
    <2> SUFFICES ASSUME ServerInv, ServerInv', Next, NEW tx \in Txs,
                        api'[tx] \in {"201", "202"}, ~OnRecord(tx)'
                 PROVE  /\ "db" \notin conf
                        /\ phase' = "down" \/ (api[tx] \in {"201", "202"} /\ ~OnRecord(tx))
      BY ServerInvNext
    <2> USE DEF ServerInv
    <2>1. conf' = conf /\ "db" \notin conf /\ mem'[tx] = "absent"
      <3>1. conf' = conf
        BY NextKinds, HandlingFrame
           DEF Ending, Down, Advance, OpenClient, NewQueue, Serve, CloseClient, CloseAll, Goto,
               Goroutine, ClientStep, ClientFails, StartWorkers, WorkersReturn, Collect,
               Collected, BrokerFault, Replicate
      <3> QED
        BY <3>1 DEF OnRecord, RecordInv
    <2>2. CASE Ending
      BY <2>1, <2>2 DEF Ending, Down
    <2>3. CASE Advance \/ OpenClient \/ Serve \/ CloseClient \/ Goroutine \/ Replicate
      <3>1. api' = api /\ mem' = mem
        BY <2>3 DEF Advance, OpenClient, NewQueue, Serve, CloseClient, CloseAll, Goto,
                    Goroutine, ClientStep, ClientFails, StartWorkers, WorkersReturn, Collect,
                    Collected, BrokerFault, Replicate, dataVars
      <3> QED
        BY <2>1, <3>1 DEF OnRecord
    <2>4. ASSUME NEW u \in Txs, Handling(u)
          PROVE  api[tx] \in {"201", "202"} /\ mem[tx] = "absent"
      <3>1. mem[tx] = "absent"
        BY <2>1, <2>4, RecordsStay
      <3>2. CASE u # tx
        BY <2>4, <3>1, <3>2, HandlingFrame
      <3>3. CASE u = tx
        <4>1. ~Create(tx) /\ api[tx] # "publish"
          BY <2>1, <3>1, CreateRecords DEF RecordInv
        <4>2. api'[tx] = api[tx] \/ api'[tx] \in {"create", "500"}
          BY <2>4, <3>3, <4>1
             DEF Handling, Handler, Receive, CreateFails, Published, Unpublished, Work, Handle,
                 Set, TypeOK
        <4> QED
          BY <3>1, <4>2
      <3> QED
        BY <3>2, <3>3
    <2> QED
      BY <2>1, <2>2, <2>3, <2>4, NextKinds DEF OnRecord
  <1>2. AnswersKept <=> [][Kept]_vars
    BY DEF AnswersKept
  <1> HIDE DEF Kept
  <1> QED
    BY <1>1, <1>2, ServerInvariant, PTL DEF Spec

(***************************************************************************)
(* A transfer fails to be published only if something failed, or main      *)
(* closed the client, while its own handler was running: a connection that *)
(* broke before is replaced by getChannel.  What getChannel does not       *)
(* replace, a closed channel on an open connection, is the only other      *)
(* cause.  (A 500 before the transfer is published is another matter: the  *)
(* database may refuse the row without any fault.)                         *)
(***************************************************************************)
THEOREM BrokenConnectionReplaced ==
  Spec => FaultsForgotten
  <1> DEFINE Forgotten ==
        \A tx \in Txs : api[tx] = "publish" /\ api'[tx] = "500"
                          => tx \in hit' \/ got[tx] \in open \ chans
  <1>1. ServerInv /\ [Next]_vars => [Forgotten]_vars
    <2> SUFFICES ASSUME ServerInv, Next, NEW tx \in Txs, api[tx] = "publish", api'[tx] = "500"
                 PROVE  tx \in hit' \/ got[tx] \in open \ chans
      OBVIOUS
    <2> USE DEF ServerInv
    <2>1. Unpublished(tx)
      <3>1. ~(Ending \/ Advance \/ OpenClient \/ Serve \/ CloseClient \/ Goroutine \/ Replicate)
        BY DEF Ending, Down, Advance, OpenClient, NewQueue, Serve, CloseClient, CloseAll, Goto,
               Goroutine, ClientStep, ClientFails, StartWorkers, WorkersReturn, Collect,
               Collected, BrokerFault, Replicate, TypeOK
      <3>2. PICK u \in Txs : Handling(u)
        BY <3>1, NextKinds
      <3>3. u = tx
        BY <3>2, HandlingFrame
      <3> QED
        BY <3>2, <3>3 DEF Handling, Handler, Receive, Create, CreateFails, Published, Work,
                          Handle, Set, TypeOK
    <2>2. hit \subseteq hit'
      BY <2>1, HandlingFrame DEF Handling, Handler
    <2> QED
      BY <2>1, <2>2 DEF Unpublished, Fails, HitInv
  <1>2. FaultsForgotten <=> [][Forgotten]_vars
    BY DEF FaultsForgotten
  <1> HIDE DEF Forgotten
  <1> QED
    BY <1>1, <1>2, ServerInvariant, PTL DEF Spec
=============================================================================
