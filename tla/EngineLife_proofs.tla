-------------------------- MODULE EngineLife_proofs --------------------------
(****************************************************************************)
(* Proofs about EngineLife: for every number of workers, events and         *)
(* signals, the global logger is alive, and the contexts and the logger     *)
(* outlive the worker threads unless the server could not listen.           *)
(****************************************************************************)
EXTENDS EngineLife, TLAPS

\* The part of the invariant that is about threads and loggers.
Core == TypeOK /\ LoggerOwned /\ LateLogSafe /\ ThreadsAccounted

\* Before ParseArguments there is one thread and one logger.
LEMMA InitCore == Init => Core
<1>. SUFFICES ASSUME Init PROVE Core
  OBVIOUS
<1>. USE LifeAssumption DEF LifeAssumption, Init, Workers
<1>1. TypeOK
  <2>1. stage \in Stages /\ threads \in 0 .. MaxWorkers /\ turn \in 1 .. MaxWorkers + 1
    BY DEF Stages
  <2>2. /\ pc \in [Workers -> Places] /\ queue \in [Workers -> Nat]
        /\ signal \in [Workers -> {"none", "pending", "taken"}]
    BY DEF Places
  <2>3. /\ woken \in [Workers -> BOOLEAN]
        /\ logging \in [Workers -> {"none", "stderr", "file"}]
    OBVIOUS
  <2>4. /\ sending \in 0 .. MaxWorkers /\ events \in 0 .. MaxEvents
        /\ signals \in 0 .. MaxSignals
    OBVIOUS
  <2>5. /\ current \in Nat /\ asked \in BOOLEAN /\ missed \subseteq Workers
        /\ isFork \in BOOLEAN
    OBVIOUS
  <2>. QED
    BY <2>1, <2>2, <2>3, <2>4, <2>5 DEF TypeOK, WorkerTypeOK
<1>2. LoggerOwned /\ LateLogSafe
  BY DEF LoggerOwned, LateLogSafe
<1>3. ThreadsAccounted
  BY DEF ThreadsAccounted, Alive, Leaving
<1>. QED
  BY <1>1, <1>2, <1>3 DEF Core

-----------------------------------------------------------------------------
(* The main thread.                                                         *)

\* The configuration is read while there are no contexts: it may set the
\* number of threads and install the logger.
LEMMA ParseCore == ASSUME Core, Parse PROVE Core'
<1>. USE LifeAssumption DEF LifeAssumption, Workers
<1>1. PICK argc \in 1 .. 4, f \in Files : ParseArguments(argc, f)
  BY DEF Parse
<1>2. stage = "parse" /\ f.threads \in 0 .. MaxWorkers
  BY DEF Parse, Files
<1>3. /\ UNCHANGED <<turn, listenFailed, mainSignal, current, sending, events>>
      /\ UNCHANGED <<pc, signal, queue, woken, logging, signals, asked, missed>>
  BY <1>1 DEF ParseArguments, dispatch, worker, history
<1>4. stage' \in {"leave", "aborted", "init"} /\ threads' \in 0 .. MaxWorkers
  BY <1>1, <1>2 DEF ParseArguments, config, Core, TypeOK
<1>5. isFork' \in BOOLEAN
  <2>1. isFork' = isFork \/ isFork' = TRUE \/ isFork' = FALSE
    BY <1>1 DEF ParseArguments, config
  <2>. QED
    BY <2>1 DEF Core, TypeOK
<1>6. \/ UNCHANGED loggers
      \/ globalLogger' = "file" /\ ownedLogger' = "held" /\ stage' # "finalized"
  BY <1>1, <1>4 DEF ParseArguments, SetLogger
<1>7. TypeOK'
  <2>1. WorkerTypeOK'
    BY <1>3 DEF Core, TypeOK, WorkerTypeOK
  <2>. QED
    BY <1>3, <1>4, <1>5, <1>6, <2>1 DEF Core, TypeOK, Stages, Ended, loggers
<1>8. LoggerOwned'
  BY <1>2, <1>4, <1>6 DEF Core, LoggerOwned, Leaving, loggers
<1>9. \A w \in Workers : pc[w] = "none" /\ logging[w] = "none"
  BY <1>2 DEF Core, ThreadsAccounted, Alive
<1>10. LateLogSafe'
  BY <1>3, <1>9 DEF LateLogSafe
<1>11. ThreadsAccounted'
  BY <1>3, <1>4, <1>9 DEF ThreadsAccounted, Alive, Leaving
<1>. QED
  BY <1>7, <1>8, <1>10, <1>11 DEF Core

\* Initialize makes the contexts of the configured workers, without threads.
LEMMA InitializeCore == ASSUME Core, Initialize PROVE Core'
<1>. USE LifeAssumption DEF LifeAssumption, Workers
<1>1. \A w \in Workers : pc[w] = "none" /\ logging[w] = "none"
  BY DEF Initialize, Core, ThreadsAccounted, Alive
<1>2. /\ pc' = [w \in Workers |-> IF w <= threads THEN "created" ELSE pc[w]]
      /\ stage = "init" /\ stage' \in {"daemon", "leave"}
      /\ UNCHANGED <<threads, isFork, turn, listenFailed, globalLogger, ownedLogger>>
      /\ mainSignal' = "none"
      /\ UNCHANGED <<current, sending, events, signals, asked, missed>>
      /\ UNCHANGED <<signal, queue, woken, logging>>
  BY DEF Initialize, config, loggers, dispatch, history
<1>3. TypeOK'
  <2>1. WorkerTypeOK'
    <3>1. pc' \in [Workers -> Places]
      BY <1>1, <1>2 DEF Places
    <3>. QED
      BY <1>2, <3>1 DEF Core, TypeOK, WorkerTypeOK
  <2>. QED
    BY <1>2, <2>1 DEF Core, TypeOK, Stages, Ended
<1>4. \A w \in Workers :
        ~Alive(w)' /\ logging'[w] = "none" /\ (w > threads => pc'[w] = "none")
  BY <1>1, <1>2 DEF Alive, Core, TypeOK
<1>5. LoggerOwned' /\ LateLogSafe' /\ ThreadsAccounted'
  BY <1>2, <1>4 DEF Core, LoggerOwned, LateLogSafe, ThreadsAccounted, Leaving
<1>. QED
  BY <1>3, <1>5 DEF Core

\* In the other steps of the main thread that change no worker, the threads are
\* as before; where it begins to leave, they have ended or the server did not
\* listen.
LEMMA MainCore ==
    ASSUME Core,
           \/ ActivateDaemon \/ Listen \/ ListenFails \/ OnSignalMain \/ Join
           \/ Finalize \/ FreeLogger \/ FreeContexts \/ Exit
    PROVE  Core'
<1>. USE LifeAssumption DEF LifeAssumption, Workers, Core, config, loggers, dispatch,
         history, worker, MainMoves
<1>1. UNCHANGED <<pc, signal, queue, woken, logging>>
  BY DEF ActivateDaemon, Listen, ListenFails, OnSignalMain, Join, Finalize, FreeLogger,
         FreeContexts, Exit
<1>2. UNCHANGED <<threads, isFork, current, sending, events, signals, asked, missed>>
  BY DEF ActivateDaemon, Listen, ListenFails, OnSignalMain, Join, Finalize, FreeLogger,
         FreeContexts, Exit
<1>3. /\ WorkerTypeOK'
      /\ \A w \in Workers : Alive(w)' <=> Alive(w)
      /\ \A w \in Workers : w > threads' => pc'[w] = "none"
      /\ \A w \in Workers : ~Alive(w)' => logging'[w] = "none"
  BY <1>1, <1>2 DEF TypeOK, WorkerTypeOK, Alive, ThreadsAccounted
<1>4. CASE ActivateDaemon
  BY <1>1, <1>2, <1>3, <1>4 DEF ActivateDaemon, TypeOK, Stages, Ended, LoggerOwned,
     LateLogSafe, ThreadsAccounted, Leaving
<1>5. CASE Listen
  BY <1>1, <1>2, <1>3, <1>5 DEF Listen, TypeOK, Stages, Ended, LoggerOwned,
     LateLogSafe, ThreadsAccounted, Leaving
<1>6. CASE ListenFails
  BY <1>1, <1>2, <1>3, <1>6 DEF ListenFails, TypeOK, Stages, Ended, LoggerOwned,
     LateLogSafe, ThreadsAccounted, Leaving
<1>7. CASE OnSignalMain
  BY <1>1, <1>2, <1>3, <1>7 DEF OnSignalMain, TypeOK, Stages, Ended, LoggerOwned,
     LateLogSafe, ThreadsAccounted, Leaving
<1>8. CASE Join
  <2>. USE <1>8 DEF Join
  <2>1. CASE turn <= threads
    <3>1. \A w \in 1 .. turn : pc[w] = "ended"
      BY <2>1 DEF ThreadsAccounted, TypeOK
    <3>. QED
      BY <1>1, <1>2, <1>3, <2>1, <3>1 DEF TypeOK, LoggerOwned, LateLogSafe,
         ThreadsAccounted, Leaving
  <2>2. CASE ~(turn <= threads)
    <3>1. \A w \in Workers : ~Alive(w)
      BY <2>2 DEF ThreadsAccounted, TypeOK, Alive
    <3>. QED
      BY <1>1, <1>2, <1>3, <2>2, <3>1 DEF TypeOK, Stages, Ended, LoggerOwned,
         LateLogSafe, ThreadsAccounted, Leaving
  <2>. QED
    BY <2>1, <2>2
<1>9. CASE Finalize
  BY <1>1, <1>2, <1>3, <1>9 DEF Finalize, TypeOK, Stages, Ended, LoggerOwned,
     LateLogSafe, ThreadsAccounted, Leaving
<1>10. CASE FreeLogger
  BY <1>1, <1>2, <1>3, <1>10 DEF FreeLogger, TypeOK, Stages, Ended, LoggerOwned,
     LateLogSafe, ThreadsAccounted, Leaving
<1>11. CASE FreeContexts
  BY <1>1, <1>2, <1>3, <1>11 DEF FreeContexts, TypeOK, Stages, Ended, LoggerOwned,
     LateLogSafe, ThreadsAccounted, Leaving
<1>12. CASE Exit
  BY <1>1, <1>2, <1>3, <1>12 DEF Exit, TypeOK, Stages, Ended, LoggerOwned,
     LateLogSafe, ThreadsAccounted, Leaving
<1>. QED
  BY <1>4, <1>5, <1>6, <1>7, <1>8, <1>9, <1>10, <1>11, <1>12

\* Threads start in the order of the contexts, after Initialize.
LEMMA CreateThreadCore == ASSUME Core, CreateThread PROVE Core'
<1>. USE LifeAssumption DEF LifeAssumption, Workers, Core, CreateThread
<1>1. /\ UNCHANGED <<threads, isFork, listenFailed, globalLogger, ownedLogger>>
      /\ UNCHANGED <<mainSignal, current, sending, events, signals, asked, missed>>
      /\ UNCHANGED <<signal, queue, woken, logging>>
  BY DEF config, loggers, dispatch, history
<1>2. CASE turn <= threads
  <2>1. /\ turn \in Workers /\ stage = "create" /\ stage' = stage /\ turn' = turn + 1
        /\ pc' = [pc EXCEPT ![turn] = "starting"]
    BY <1>2 DEF TypeOK
  <2>2. WorkerTypeOK'
    <3>1. pc' \in [Workers -> Places]
      BY <2>1 DEF TypeOK, WorkerTypeOK, Places
    <3>. QED
      BY <1>1, <3>1 DEF TypeOK, WorkerTypeOK
  <2>3. TypeOK'
    BY <1>1, <1>2, <2>1, <2>2 DEF TypeOK
  <2>4. \A w \in Workers : w # turn => (Alive(w)' <=> Alive(w)) /\ pc'[w] = pc[w]
    BY <2>1 DEF TypeOK, WorkerTypeOK, Alive
  <2>5. \A w \in Workers : w = turn => Alive(w)'
    BY <2>1 DEF TypeOK, WorkerTypeOK, Alive
  <2>. QED
    BY <1>1, <1>2, <2>1, <2>3, <2>4, <2>5
       DEF TypeOK, LoggerOwned, LateLogSafe, ThreadsAccounted, Leaving
<1>3. CASE ~(turn <= threads)
  <2>1. stage' = "listen" /\ turn' = 1 /\ UNCHANGED pc
    BY <1>3
  <2>2. WorkerTypeOK'
    BY <1>1, <2>1 DEF TypeOK, WorkerTypeOK
  <2>3. TypeOK'
    BY <1>1, <2>1, <2>2 DEF TypeOK, Stages
  <2>. QED
    BY <1>1, <2>1, <2>3 DEF LoggerOwned, LateLogSafe, ThreadsAccounted, Leaving, Alive
<1>. QED
  BY <1>2, <1>3

\* A step that touches neither threads nor loggers, and may only end the
\* process in an undefined way, keeps the rest of the invariant.
LEMMA SameThreads ==
    ASSUME Core, TypeOK', stage' \in {stage, "killed", "undefined"},
           UNCHANGED <<threads, turn, listenFailed, globalLogger, ownedLogger, pc, logging>>
    PROVE  Core'
BY DEF Core, LoggerOwned, LateLogSafe, ThreadsAccounted, Leaving, Alive

\* Dispatching an event.
LEMMA DispatchCore == ASSUME Core, Enqueue \/ NotifyWorker PROVE Core'
<1>. USE LifeAssumption DEF LifeAssumption, Workers
<1>1. CASE Enqueue
  <2>. USE <1>1 DEF Enqueue
  <2>1. /\ UNCHANGED <<threads, isFork, turn, listenFailed, globalLogger, ownedLogger>>
        /\ UNCHANGED <<mainSignal, pc, signal, woken, logging, signals, asked, missed>>
    BY DEF config, loggers, history
  <2>2. sending' \in 0 .. MaxWorkers /\ queue' \in [Workers -> Nat]
    <3>1. CASE current < threads
      <4>1. current + 1 \in Workers
        BY <3>1 DEF Core, TypeOK
      <4>2. queue' = [queue EXCEPT ![current + 1] = @ + 1] /\ sending' = current + 1
        BY <3>1
      <4>3. queue \in [Workers -> Nat] /\ queue[current + 1] + 1 \in Nat
        BY <4>1 DEF Core, TypeOK, WorkerTypeOK
      <4>. QED
        BY <4>1, <4>2, <4>3
    <3>2. CASE ~(current < threads)
      BY <3>2 DEF Core, TypeOK, WorkerTypeOK
    <3>. QED
      BY <3>1, <3>2
  <2>3. WorkerTypeOK'
    BY <2>1, <2>2 DEF Core, TypeOK, WorkerTypeOK
  <2>4. /\ stage' \in {stage, "undefined"} /\ current' \in Nat /\ events' \in 0 .. MaxEvents
    BY DEF Core, TypeOK
  <2>5. TypeOK'
    BY <2>1, <2>2, <2>3, <2>4 DEF Core, TypeOK, Stages, Ended
  <2>. QED
    BY <2>1, <2>4, <2>5, SameThreads
<1>2. CASE NotifyWorker
  <2>. USE <1>2 DEF NotifyWorker
  <2>1. /\ UNCHANGED <<threads, isFork, turn, listenFailed, globalLogger, ownedLogger>>
        /\ UNCHANGED <<mainSignal, current, events, pc, signal, queue, logging>>
        /\ UNCHANGED <<signals, asked>>
    BY DEF config, loggers
  <2>2. sending \in Workers
    BY DEF Core, TypeOK
  <2>3. woken' \in [Workers -> BOOLEAN]
    <3>1. woken \in [Workers -> BOOLEAN]
      BY DEF Core, TypeOK, WorkerTypeOK
    <3>2. CASE UNCHANGED woken
      BY <3>1, <3>2
    <3>3. CASE woken' = [woken EXCEPT ![sending] = TRUE]
      BY <3>1, <3>3
    <3>. QED
      BY <3>2, <3>3
  <2>4. WorkerTypeOK'
    BY <2>1, <2>3 DEF Core, TypeOK, WorkerTypeOK
  <2>5. stage' \in {stage, "undefined"} /\ sending' = 0 /\ missed' \subseteq Workers
    BY <2>2 DEF Core, TypeOK
  <2>6. TypeOK'
    BY <2>1, <2>4, <2>5 DEF Core, TypeOK, Stages, Ended
  <2>. QED
    BY <2>1, <2>5, <2>6, SameThreads
<1>. QED
  BY <1>1, <1>2

-----------------------------------------------------------------------------
(* Signals and workers.                                                     *)

\* A signal writes to the pipes of the loops.
LEMMA SignalCore == ASSUME Core, NEW sig \in SignalNumbers, Signal(sig) PROVE Core'
<1>. USE LifeAssumption DEF LifeAssumption
<1>1. /\ UNCHANGED <<threads, isFork, turn, listenFailed, globalLogger, ownedLogger>>
      /\ UNCHANGED <<current, sending, events, pc, queue, woken, logging, missed>>
  BY DEF Signal, config, loggers, dispatch
<1>2. stage' \in {stage, "killed", "undefined"} /\ signals' \in 0 .. MaxSignals
  BY DEF Signal, Core, TypeOK
<1>3. /\ mainSignal' \in {"default", "none", "pending", "taken", "late"}
      /\ signal' \in [Workers -> {"none", "pending", "taken"}]
  <2>. USE DEF Deliver, Core, TypeOK, WorkerTypeOK
  <2>1. CASE UNCHANGED signal /\ mainSignal' \in {mainSignal, "late"}
    BY <2>1
  <2>2. CASE /\ mainSignal' = Deliver(mainSignal)
             /\ signal' = [w \in Workers |->
                             IF Hears(w, sig) THEN Deliver(signal[w]) ELSE signal[w]]
    BY <2>2
  <2>. QED
    BY <2>1, <2>2 DEF Signal
<1>4. asked' \in BOOLEAN
  BY Zenon DEF Signal, Core, TypeOK
<1>5. TypeOK'
  <2>1. WorkerTypeOK'
    BY <1>1, <1>3 DEF Core, TypeOK, WorkerTypeOK
  <2>. QED
    BY <1>1, <1>2, <1>3, <1>4, <2>1 DEF Core, TypeOK, Stages, Ended
<1>. QED
  BY <1>1, <1>2, <1>5, SameThreads

\* A worker takes a log line's logger from g_Logger, which is alive, and it is
\* alive itself until it ends.
LEMMA WorkerCore == ASSUME Core, NEW w \in Workers, WorkerStep(w) PROVE Core'
<1>. USE LifeAssumption DEF LifeAssumption
<1>1. /\ UNCHANGED <<threads, isFork, turn, listenFailed, globalLogger, ownedLogger>>
      /\ UNCHANGED <<mainSignal, current, sending, events, signals, asked, missed>>
  BY DEF WorkerStep, InitializeAsync, InitializeSigInt, InitializeSigTerm, WorkerMoves,
     OnItcAsyncSend, OnSignalWorker, WorkerFinalize, CallLogger, UseFreedContext,
     config, loggers, dispatch, history
<1>2. ASSUME NEW from, NEW to, WorkerMoves(w, from, to),
             <<from, to>> \in {<<"starting", "reachable">>, <<"reachable", "int">>,
                              <<"int", "running">>, <<"stopping", "ended">>}
      PROVE  Core'
  <2>1. /\ UNCHANGED <<stage, signal, queue, woken, logging>>
        /\ pc[w] = from /\ pc' = [pc EXCEPT ![w] = to] /\ logging[w] = "none"
    BY <1>2 DEF WorkerMoves, Active
  <2>2. to \in Places /\ Alive(w)
    BY <1>2, <2>1 DEF Places, Alive
  <2>3. WorkerTypeOK'
    <3>1. pc' \in [Workers -> Places]
      BY <2>1, <2>2 DEF Core, TypeOK, WorkerTypeOK
    <3>. QED
      BY <2>1, <3>1 DEF Core, TypeOK, WorkerTypeOK
  <2>4. TypeOK'
    BY <1>1, <2>1, <2>3 DEF Core, TypeOK
  <2>5. /\ \A v \in Workers : Alive(v)' => Alive(v)
        /\ \A v \in Workers : ~Alive(v)' => logging'[v] = "none"
        /\ \A v \in Workers : ~Alive(v) => pc'[v] = pc[v]
        /\ \A v \in Workers : pc[v] = "ended" => pc'[v] = "ended"
    BY <2>1, <2>2 DEF Core, TypeOK, WorkerTypeOK, Alive, ThreadsAccounted
  <2>6. LoggerOwned' /\ LateLogSafe'
    BY <1>1, <2>1 DEF Core, LoggerOwned, LateLogSafe
  <2>7. \A v \in Workers : v > threads => pc'[v] = "none"
    BY <2>5 DEF Core, ThreadsAccounted, Alive
  <2>8. \A v \in Workers : pc[v] = "none" => pc'[v] = "none"
    BY <2>5 DEF Alive
  <2>9. turn .. MaxWorkers \subseteq Workers /\ 1 .. turn - 1 \subseteq Workers
    BY DEF Core, TypeOK, Workers
  <2>10. ThreadsAccounted'
    BY <1>1, <2>1, <2>5, <2>7, <2>8, <2>9 DEF Core, ThreadsAccounted
  <2>. QED
    BY <2>4, <2>6, <2>10 DEF Core
<1>3. ASSUME OnItcAsyncSend(w) PROVE Core'
  <2>1. /\ UNCHANGED <<stage, pc, signal>>
        /\ woken' = [woken EXCEPT ![w] = FALSE] /\ queue' = [queue EXCEPT ![w] = 0]
        /\ logging' = [logging EXCEPT ![w] = globalLogger]
        /\ Alive(w)
    BY <1>3 DEF OnItcAsyncSend, Alive
  <2>2. WorkerTypeOK'
    <3>1. woken' \in [Workers -> BOOLEAN]
      BY <2>1 DEF Core, TypeOK, WorkerTypeOK
    <3>2. /\ queue' \in [Workers -> Nat]
          /\ logging' \in [Workers -> {"none", "stderr", "file"}]
      BY <2>1 DEF Core, TypeOK, WorkerTypeOK
    <3>. QED
      BY <2>1, <3>1, <3>2 DEF Core, TypeOK, WorkerTypeOK
  <2>3. TypeOK'
    BY <1>1, <2>1, <2>2 DEF Core, TypeOK
  <2>4. LateLogSafe'
    BY <1>1, <2>1 DEF Core, TypeOK, WorkerTypeOK, LoggerOwned, LateLogSafe
  <2>5. LoggerOwned' /\ ThreadsAccounted'
    BY <1>1, <2>1 DEF Core, TypeOK, WorkerTypeOK, LoggerOwned, ThreadsAccounted, Alive
  <2>. QED
    BY <2>3, <2>4, <2>5 DEF Core
<1>4. ASSUME OnSignalWorker(w) PROVE Core'
  <2>1. /\ UNCHANGED <<stage, queue, woken>>
        /\ signal' = [signal EXCEPT ![w] = "taken"]
        /\ pc[w] = "running" /\ pc' = [pc EXCEPT ![w] = "stopping"]
        /\ logging' = [logging EXCEPT ![w] = globalLogger]
    BY <1>4 DEF OnSignalWorker
  <2>2. WorkerTypeOK'
    <3>1. /\ signal' \in [Workers -> {"none", "pending", "taken"}]
          /\ pc' \in [Workers -> Places]
          /\ logging' \in [Workers -> {"none", "stderr", "file"}]
      BY <2>1 DEF Core, TypeOK, WorkerTypeOK, Places
    <3>. QED
      BY <2>1, <3>1 DEF Core, TypeOK, WorkerTypeOK
  <2>3. TypeOK'
    BY <1>1, <2>1, <2>2 DEF Core, TypeOK
  <2>4. LateLogSafe'
    BY <1>1, <2>1 DEF Core, TypeOK, WorkerTypeOK, LoggerOwned, LateLogSafe
  <2>5. \A v \in Workers : Alive(v)' <=> Alive(v)
    BY <2>1 DEF Core, TypeOK, WorkerTypeOK, Alive
  <2>6. \A v \in Workers : ~Alive(v) => pc'[v] = pc[v] /\ logging'[v] = logging[v]
    BY <2>1 DEF Core, TypeOK, WorkerTypeOK, Alive
  <2>7. turn .. MaxWorkers \subseteq Workers /\ 1 .. turn - 1 \subseteq Workers
    BY DEF Core, TypeOK, Workers
  <2>8. \A v \in Workers : pc[v] \in {"none", "ended"} => ~Alive(v)
    BY DEF Alive
  <2>9. LoggerOwned'
    BY <1>1, <2>1 DEF Core, LoggerOwned
  <2>10. ThreadsAccounted'
    BY <1>1, <2>1, <2>5, <2>6, <2>7, <2>8 DEF Core, ThreadsAccounted
  <2>. QED
    BY <2>3, <2>4, <2>9, <2>10 DEF Core
<1>5. ASSUME CallLogger(w) PROVE Core'
  <2>1. /\ UNCHANGED <<pc, signal, queue, woken>>
        /\ logging' = [logging EXCEPT ![w] = "none"]
        /\ stage' \in {stage, "undefined"}
    BY <1>5 DEF CallLogger
  <2>2. WorkerTypeOK'
    <3>1. logging' \in [Workers -> {"none", "stderr", "file"}]
      BY <2>1 DEF Core, TypeOK, WorkerTypeOK
    <3>. QED
      BY <2>1, <3>1 DEF Core, TypeOK, WorkerTypeOK
  <2>3. TypeOK'
    BY <1>1, <2>1, <2>2 DEF Core, TypeOK, Stages, Ended
  <2>4. LateLogSafe' /\ LoggerOwned'
    BY <1>1, <2>1 DEF Core, TypeOK, WorkerTypeOK, LoggerOwned, LateLogSafe, Leaving
  <2>5. ThreadsAccounted'
    BY <1>1, <2>1 DEF Core, TypeOK, WorkerTypeOK, ThreadsAccounted, Alive, Leaving
  <2>. QED
    BY <2>3, <2>4, <2>5 DEF Core
<1>6. ASSUME UseFreedContext(w) PROVE Core'
  <2>1. stage' = "undefined" /\ UNCHANGED <<pc, signal, queue, woken, logging>>
    BY <1>6 DEF UseFreedContext, worker
  <2>2. WorkerTypeOK'
    BY <2>1 DEF Core, TypeOK, WorkerTypeOK
  <2>3. TypeOK'
    BY <1>1, <2>1, <2>2 DEF Core, TypeOK, Stages, Ended
  <2>. QED
    BY <1>1, <2>1, <2>3, SameThreads
<1>. QED
  BY <1>2, <1>3, <1>4, <1>5, <1>6
     DEF WorkerStep, InitializeAsync, InitializeSigInt, InitializeSigTerm, WorkerFinalize

-----------------------------------------------------------------------------
(* The theorems.                                                            *)

LEMMA NextCore == ASSUME Core, [Next]_vars PROVE Core'
<1>1. CASE MainStep
  BY <1>1, ParseCore, InitializeCore, MainCore, CreateThreadCore, DispatchCore DEF MainStep
<1>2. CASE Enqueue
  BY <1>2, DispatchCore
<1>3. CASE \E w \in Workers : WorkerStep(w)
  BY <1>3, WorkerCore
<1>4. CASE \E sig \in SignalNumbers : Signal(sig)
  BY <1>4, SignalCore
<1>5. CASE UNCHANGED vars
  <2>1. /\ UNCHANGED <<stage, threads, isFork, turn, listenFailed, globalLogger>>
        /\ UNCHANGED <<ownedLogger, mainSignal, current, sending, events>>
        /\ UNCHANGED <<pc, signal, queue, woken, logging, signals, asked, missed>>
    BY <1>5 DEF vars, config, loggers, dispatch, worker, history
  <2>2. WorkerTypeOK'
    BY <2>1 DEF Core, TypeOK, WorkerTypeOK
  <2>3. TypeOK'
    BY <2>1, <2>2 DEF Core, TypeOK
  <2>. QED
    BY <2>1, <2>3, SameThreads
<1>. QED
  BY <1>1, <1>2, <1>3, <1>4, <1>5 DEF Next


\* The first thread and the rest of the invariant.
LEMMA InitRest == Init => TurnsOfWorkers /\ Defined
BY DEF Init, TurnsOfWorkers, Defined

\* The index wraps around at the number of workers, which does not change once
\* it is read.
LEMMA NextTurns == ASSUME IInv, [Next]_vars PROVE TurnsOfWorkers'
<1>. USE DEF IInv, TurnsOfWorkers
<1>1. CASE Parse
  <2>1. PICK argc \in 1 .. 4, f \in Files : ParseArguments(argc, f)
    BY <1>1 DEF Parse
  <2>2. stage = "parse" /\ stage' \in {"leave", "aborted", "init"} /\ UNCHANGED current
    BY <1>1, <2>1 DEF Parse, ParseArguments, dispatch
  <2>3. threads' \in Nat
    <3>1. f.threads \in 0 .. MaxWorkers /\ threads \in 0 .. MaxWorkers
      BY <2>1 DEF Files, TypeOK
    <3>. QED
      <4>1. threads' = f.threads \/ threads' = threads
        BY <2>1 DEF ParseArguments, config
      <4>. QED
        BY <3>1, <4>1, LifeAssumption DEF LifeAssumption
  <2>. QED
    BY <2>2, <2>3
<1>2. CASE Enqueue
  <2>1. threads \in Nat /\ current \in Nat
    BY LifeAssumption DEF LifeAssumption, TypeOK
  <2>. QED
    BY <1>2, <2>1 DEF Enqueue, config
<1>3. CASE UNCHANGED <<threads, current>> /\ (stage' = "parse" => stage = "parse")
  BY <1>3
<1>4. CASE Initialize \/ ActivateDaemon \/ CreateThread \/ Listen \/ ListenFails
           \/ NotifyWorker \/ OnSignalMain \/ Join
  BY <1>3, <1>4 DEF Initialize, ActivateDaemon, CreateThread, Listen, ListenFails,
     NotifyWorker, OnSignalMain, Join, MainMoves, config, dispatch
<1>5. CASE Finalize \/ FreeLogger \/ FreeContexts \/ Exit
  BY <1>3, <1>5 DEF Finalize, FreeLogger, FreeContexts, Exit, MainMoves, config, dispatch
<1>6. ASSUME NEW w \in Workers, WorkerStep(w) PROVE TurnsOfWorkers'
  BY <1>3, <1>6 DEF WorkerStep, InitializeAsync, InitializeSigInt, InitializeSigTerm,
     WorkerMoves, OnItcAsyncSend, OnSignalWorker, WorkerFinalize, CallLogger,
     UseFreedContext, config, dispatch
<1>7. ASSUME NEW sig \in SignalNumbers, Signal(sig) PROVE TurnsOfWorkers'
  BY <1>3, <1>7 DEF Signal, config, dispatch
<1>8. CASE UNCHANGED vars
  BY <1>3, <1>8 DEF vars, config, dispatch
<1>. QED
  BY <1>1, <1>2, <1>4, <1>5, <1>6, <1>7, <1>8 DEF Next, MainStep

\* Only a dispatch without workers, an early notification, a log line of a freed
\* logger, a thread on a freed context and a signal after the end are undefined;
\* the third and the fourth follow a failed listen.
LEMMA NextDefined == ASSUME IInv, [Next]_vars PROVE Defined'
<1>. USE DEF IInv, Defined
<1>1. CASE Parse
  <2>1. PICK argc \in 1 .. 4, f \in Files : ParseArguments(argc, f)
    BY <1>1 DEF Parse
  <2>. QED
    BY <2>1 DEF ParseArguments
<1>2. CASE Enqueue
  BY <1>2 DEF Enqueue, TurnsOfWorkers, config, history
<1>3. CASE NotifyWorker
  <2>1. pc[sending] = "starting" => missed' # {}
    BY <1>3 DEF NotifyWorker
  <2>. QED
    BY <1>3, <2>1 DEF NotifyWorker, Reachable, config
<1>4. CASE Initialize \/ ActivateDaemon \/ CreateThread \/ Listen \/ ListenFails
           \/ OnSignalMain \/ Join \/ Finalize \/ FreeLogger \/ FreeContexts \/ Exit
  <2>1. stage' # "undefined"
    BY <1>4 DEF Initialize, ActivateDaemon, CreateThread, Listen, ListenFails,
       OnSignalMain, Join, Finalize, FreeLogger, FreeContexts, Exit, MainMoves
  <2>. QED
    BY <2>1
<1>5. ASSUME NEW w \in Workers, WorkerStep(w) PROVE Defined'
  <2>1. UNCHANGED <<threads, listenFailed, missed, mainSignal>>
    BY <1>5 DEF WorkerStep, InitializeAsync, InitializeSigInt, InitializeSigTerm,
       WorkerMoves, OnItcAsyncSend, OnSignalWorker, WorkerFinalize, CallLogger,
       UseFreedContext, config, history
  <2>2. CASE CallLogger(w)
    BY <2>1, <2>2 DEF CallLogger, LateLogSafe
  <2>3. CASE UseFreedContext(w)
    BY <2>1, <2>3 DEF UseFreedContext, ThreadsAccounted, Leaving
  <2>4. CASE UNCHANGED stage
    BY <2>1, <2>4
  <2>. QED
    BY <1>5, <2>2, <2>3, <2>4 DEF WorkerStep, InitializeAsync, InitializeSigInt,
       InitializeSigTerm, WorkerMoves, OnItcAsyncSend, OnSignalWorker, WorkerFinalize
<1>6. ASSUME NEW sig \in SignalNumbers, Signal(sig) PROVE Defined'
  BY <1>6 DEF Signal, Ended, config
<1>7. CASE UNCHANGED vars
  BY <1>7 DEF vars, config, history
<1>. QED
  BY <1>1, <1>2, <1>3, <1>4, <1>5, <1>6, <1>7 DEF Next, MainStep

\* For every number of workers, events and signals: the stages of the main
\* thread say which threads are alive and who owns the logger.
THEOREM LifeInvariant == Spec => []IInv
<1>1. Init => IInv
  BY InitCore, InitRest DEF Core, IInv
<1>2. IInv /\ [Next]_vars => IInv'
  <2>. SUFFICES ASSUME IInv, [Next]_vars PROVE IInv'
    OBVIOUS
  <2>1. Core'
    BY NextCore DEF Core, IInv
  <2>. QED
    BY <2>1, NextTurns, NextDefined DEF Core, IInv
<1>. QED
  BY <1>1, <1>2, PTL DEF Spec

\* g_Logger never dangles, whichever way main returns (EngineImpl::Finalize
\* and the order of EngineImpl's members).
THEOREM LoggerNeverDangles == Spec => []LoggerAlive
<1>1. IInv => LoggerAlive
  BY DEF IInv, LoggerOwned, LoggerAlive
<1>. QED
  BY <1>1, LifeInvariant, PTL

\* Contexts and loggers outlive the threads that use them (the join of
\* EngineImpl::Run), signal handles those who walk through them, and events go to
\* workers that exist, but for the four exceptions that Defined names.
THEOREM LifeIsDefined == Spec => []Defined
<1>1. IInv => Defined
  BY DEF IInv
<1>. QED
  BY <1>1, LifeInvariant, PTL
=============================================================================
