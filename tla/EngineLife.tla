----------------------------- MODULE EngineLife -----------------------------
(****************************************************************************)
(* The life of the process: command line and configuration (Engine.cc,      *)
(* EngineImpl.cc), Initialize, the daemon, the worker threads from their    *)
(* creation to the join, signals, and the static Engine's destructor, which *)
(* frees the logger and the ThreadContexts (sample/main.cc).                *)
(*                                                                          *)
(* A signal goes to every loop that has a handler for its number at that    *)
(* moment, through the loop's pipe, and is seen when the loop polls.  The   *)
(* main loop has its handlers before there are threads; a worker registers  *)
(* its own on its way into uv_run.  main leaves Run without the join if the *)
(* server cannot listen.                                                    *)
(*                                                                          *)
(* What the loops do with connections and jobs is in the other modules: an  *)
(* event is only queued, notified and processed here.  Threads read         *)
(* g_Logger and then call it, so a log line may be under way while the main *)
(* thread goes on; only the lines of workers are modelled.                  *)
(****************************************************************************)
EXTENDS Integers, FiniteSets

CONSTANTS MaxWorkers,   \* bound on WorkerThread of the configuration
          MaxEvents,    \* bound on the events that the main loop dispatches
          MaxSignals    \* bound on the signals sent to the process

ASSUME LifeAssumption ==
    /\ MaxWorkers \in Nat
    /\ MaxEvents \in Nat
    /\ MaxSignals \in Nat

Workers == 1 .. MaxWorkers

VARIABLES
    stage,        \* where the main thread is, or how the process ended
    threads,      \* Config.Framework.WorkerThread, the size of Threads
    isFork,       \* EngineImpl::IsFork
    turn,         \* loop variable of the loops over Threads in Run
    listenFailed, \* Run has returned without the join
    globalLogger, \* g_Logger: "stderr" or "file"
    ownedLogger,  \* OwnedLogger's object: "none", "held" or "freed"
    mainSignal,   \* "default" without a handler, then the main loop's pipe: "none",
                  \* "pending" or "taken"; "late" once one came after the end
    current,      \* RoundRobinThreadDispatcher::Current
    sending,      \* the worker between Enqueue and NotifyWorker, 0 for none
    pc,           \* where each worker's thread is
    signal,       \* each worker loop's pipe, as mainSignal
    queue,        \* the number of events in each MainToWorkerQueue
    woken,        \* the pending flag of each MainToWorkerAsync
    logging,      \* the logger that the worker is about to call, or "none"
    events,       \* history: events dispatched
    signals,      \* history: signals sent
    asked,        \* history: one was sent when every worker was in its loop
    missed        \* history: workers notified before uv_async_init

config == <<threads, isFork>>
loggers == <<globalLogger, ownedLogger>>
dispatch == <<current, sending, events>>
worker == <<pc, signal, queue, woken, logging>>
history == <<signals, asked, missed>>
vars == <<stage, config, turn, listenFailed, loggers, mainSignal, dispatch,
          worker, history>>

Ended == {"exited", "killed", "aborted", "undefined"}
Stages == {"parse", "init", "daemon", "create", "listen", "loop", "join",
           "leave", "finalized", "unlogged", "freed"} \cup Ended

\* Not created; no thread yet; in Initialize before uv_async_init, before the
\* handlers of SIGINT, before those of SIGTERM; in uv_run; after uv_stop; done.
Places == {"none", "created", "starting", "reachable", "int", "running",
           "stopping", "ended"}

Alive(w) == pc[w] \in {"starting", "reachable", "int", "running", "stopping"}
Initialised(w) == pc[w] \in {"running", "stopping", "ended"}

WorkerTypeOK ==
    /\ pc \in [Workers -> Places]
    /\ signal \in [Workers -> {"none", "pending", "taken"}]
    /\ queue \in [Workers -> Nat]
    /\ woken \in [Workers -> BOOLEAN]
    /\ logging \in [Workers -> {"none", "stderr", "file"}]

TypeOK ==
    /\ stage \in Stages
    /\ threads \in 0 .. MaxWorkers
    /\ isFork \in BOOLEAN
    /\ turn \in 1 .. MaxWorkers + 1
    /\ listenFailed \in BOOLEAN
    /\ globalLogger \in {"stderr", "file"}
    /\ ownedLogger \in {"none", "held", "freed"}
    /\ mainSignal \in {"default", "none", "pending", "taken", "late"}
    /\ current \in Nat
    /\ sending \in 0 .. MaxWorkers
    /\ WorkerTypeOK
    /\ events \in 0 .. MaxEvents
    /\ signals \in 0 .. MaxSignals
    /\ asked \in BOOLEAN
    /\ missed \subseteq Workers

Init ==
    /\ stage = "parse"
    /\ threads = 0
    /\ isFork = TRUE
    /\ turn = 1
    /\ listenFailed = FALSE
    /\ globalLogger = "stderr"
    /\ ownedLogger = "none"
    /\ mainSignal = "default"
    /\ current = 0
    /\ sending = 0
    /\ pc = [w \in Workers |-> "none"]
    /\ signal = [w \in Workers |-> "none"]
    /\ queue = [w \in Workers |-> 0]
    /\ woken = [w \in Workers |-> FALSE]
    /\ logging = [w \in Workers |-> "none"]
    /\ events = 0
    /\ signals = 0
    /\ asked = FALSE
    /\ missed = {}

-----------------------------------------------------------------------------
(* The command line and the configuration.                                  *)

Required == {"Bot", "Http", "Network", "Framework"}

\* What a configuration file may hold: the required sections that are complete,
\* the Log section's Type and LogLevel, what open() returns for its FilePath,
\* CustomConfig, and WorkerThread.
Files == [readable : BOOLEAN, sections : SUBSET Required,
          log : {"absent", "other", "sync_file"}, fd : {-1, 0, 3},
          level : {"absent", "known", "unknown"},
          custom : {"absent", "string", "other"}, threads : 0 .. MaxWorkers]

WellFormed(f) == f.readable /\ f.sections = Required

\* SyncFileLogger::SetFile: the result of Open.
SetFile(fd) == IF fd > 0 THEN 0 ELSE fd

\* The logger becomes g_Logger if its file could be opened (or has descriptor
\* 0, and then never writes).  If not, that is no error of the configuration.
Installs(f) == f.log = "sync_file" /\ SetFile(f.fd) = 0

LevelKnown(f) == f.log = "absent" \/ f.level # "unknown"

Parses(f) == WellFormed(f) /\ LevelKnown(f)

\* InternalParseConfig up to Log; what follows may still fail, and then main
\* returns with the logger in place.
SetLogger(f) ==
    IF WellFormed(f) /\ Installs(f)
    THEN globalLogger' = "file" /\ ownedLogger' = "held"
    ELSE UNCHANGED loggers

\* Engine::ParseArguments; GetString of a CustomConfig that is not a string is
\* a failed assertion of rapidjson.
ParseArguments(argc, f) ==
    /\ IF argc \notin 2 .. 3
       THEN stage' = "leave" /\ UNCHANGED <<config, loggers>>
       ELSE /\ SetLogger(f)
            /\ threads' = IF WellFormed(f) THEN f.threads ELSE threads
            /\ isFork' = IF ~Parses(f) THEN isFork
                          ELSE IF argc >= 3 THEN FALSE ELSE TRUE
            /\ stage' = IF ~Parses(f) THEN "leave"
                        ELSE IF f.custom = "other" THEN "aborted" ELSE "init"
    /\ UNCHANGED <<turn, listenFailed, mainSignal, dispatch, worker, history>>

Parse ==
    /\ stage = "parse"
    /\ \E argc \in 1 .. 4, f \in Files : ParseArguments(argc, f)

-----------------------------------------------------------------------------
(* Initialize and Run.                                                      *)

MainMoves(from, to) ==
    /\ stage = from
    /\ stage' = to
    /\ UNCHANGED <<config, turn, listenFailed, loggers, mainSignal, dispatch,
                   worker, history>>

\* Initialize: contexts without threads, the handlers of the main loop, and
\* curl_global_init, which may fail.
Initialize ==
    /\ stage = "init"
    /\ pc' = [w \in Workers |-> IF w <= threads THEN "created" ELSE pc[w]]
    /\ mainSignal' = "none"
    /\ stage' \in {"daemon", "leave"}
    /\ UNCHANGED <<config, turn, listenFailed, loggers, dispatch, signal, queue,
                   woken, logging, history>>

\* ActivateDaemon, in the child of fork(), or exit() if it fails.  There is
\* only this thread to be kept.
ActivateDaemon ==
    /\ stage = "daemon"
    /\ stage' \in IF isFork THEN {"create", "leave"} ELSE {"create"}
    /\ UNCHANGED <<config, turn, listenFailed, loggers, mainSignal, dispatch,
                   worker, history>>

\* uv_thread_create for the context whose turn it is, or the end of the loop.
CreateThread ==
    /\ stage = "create"
    /\ IF turn <= threads
       THEN /\ pc' = [pc EXCEPT ![turn] = "starting"]
            /\ turn' = turn + 1
            /\ UNCHANGED stage
       ELSE /\ stage' = "listen"
            /\ turn' = 1
            /\ UNCHANGED pc
    /\ UNCHANGED <<config, listenFailed, loggers, mainSignal, dispatch, signal,
                   queue, woken, logging, history>>

\* uv_tcp_init, uv_ip4_addr, uv_tcp_bind and uv_listen.
Listen == MainMoves("listen", "loop")

\* ... one of which fails: Run returns at once.
ListenFails ==
    /\ stage = "listen"
    /\ stage' = "leave"
    /\ listenFailed' = TRUE
    /\ UNCHANGED <<config, turn, loggers, mainSignal, dispatch, worker, history>>

-----------------------------------------------------------------------------
(* The main loop.                                                           *)

\* A request is complete or a cron job is due, the latter from the first
\* iteration of the loop on: it is queued for the next worker.  There may be
\* none: then Threads is indexed out of its bounds.
Enqueue ==
    /\ stage = "loop" /\ sending = 0
    /\ events < MaxEvents
    /\ events' = events + 1
    /\ current' = IF current + 1 = threads THEN 0 ELSE current + 1
    /\ IF current < threads
       THEN /\ sending' = current + 1
            /\ queue' = [queue EXCEPT ![current + 1] = @ + 1]
            /\ UNCHANGED stage
       ELSE stage' = "undefined" /\ UNCHANGED <<sending, queue>>
    /\ UNCHANGED <<config, turn, listenFailed, loggers, mainSignal, pc, signal,
                   woken, logging, history>>

AfterInitialize(w) == Initialised(w)                               \* a mutant

\* uv_async_init has been called for the worker's handle.
Reachable(w) == pc[w] # "starting"

\* NotifyWorker.  A handle that is not initialised is all zeros: the call
\* follows its null loop, or meets uv_async_init and is forgotten.
NotifyWorker ==
    /\ stage = "loop" /\ sending # 0
    /\ sending' = 0
    /\ missed' = missed \cup {w \in {sending} : pc[w] = "starting"}
    /\ \/ /\ Reachable(sending)
          /\ woken' = [woken EXCEPT ![sending] = TRUE]
          /\ UNCHANGED stage
       \/ /\ ~Reachable(sending)
          /\ stage' \in {stage, "undefined"}
          /\ UNCHANGED woken
    /\ UNCHANGED <<config, turn, listenFailed, loggers, mainSignal, current,
                   events, pc, signal, queue, logging, signals, asked>>

\* OnSignal_Exit of the main loop; uv_run returns.
OnSignalMain ==
    /\ stage = "loop" /\ sending = 0
    /\ mainSignal = "pending"
    /\ mainSignal' = "taken"
    /\ stage' = "join"
    /\ UNCHANGED <<config, turn, listenFailed, loggers, dispatch, worker, history>>

JoinFirst == pc[1] = "ended" /\ MainMoves("join", "leave")          \* a mutant

\* uv_thread_join of the thread whose turn it is; then Run returns.
Join ==
    /\ stage = "join"
    /\ IF turn <= threads
       THEN pc[turn] = "ended" /\ turn' = turn + 1 /\ UNCHANGED stage
       ELSE stage' = "leave" /\ UNCHANGED turn
    /\ UNCHANGED <<config, listenFailed, loggers, mainSignal, dispatch, worker,
                   history>>

-----------------------------------------------------------------------------
(* The destructor of the static Engine: Finalize, then the members from the *)
(* last to the first, OwnedLogger before Threads.                           *)

FreeAtOnce == MainMoves("leave", "finalized")                       \* a mutant

Finalize ==
    /\ stage = "leave"
    /\ stage' = "finalized"
    /\ globalLogger' = IF ownedLogger = "held" THEN "stderr" ELSE globalLogger
    /\ UNCHANGED <<config, turn, listenFailed, ownedLogger, mainSignal,
                   dispatch, worker, history>>

FreeLogger ==
    /\ stage = "finalized"
    /\ stage' = "unlogged"
    /\ ownedLogger' = IF ownedLogger = "held" THEN "freed" ELSE ownedLogger
    /\ UNCHANGED <<config, turn, listenFailed, globalLogger, mainSignal,
                   dispatch, worker, history>>

FreeContexts == MainMoves("unlogged", "freed")

Exit == MainMoves("freed", "exited")

-----------------------------------------------------------------------------
(* A worker thread: EntryPoint.                                             *)

\* The thread runs, on a context that exists, and is not in a log line.
Active(w) == stage \notin Ended \cup {"freed"} /\ logging[w] = "none"

WorkerMoves(w, from, to) ==
    /\ Active(w)
    /\ pc[w] = from
    /\ pc' = [pc EXCEPT ![w] = to]
    /\ UNCHANGED <<stage, config, turn, listenFailed, loggers, mainSignal,
                   dispatch, signal, queue, woken, logging, history>>

\* Initialize: the loop, the tick timer and the async handle; then a handler
\* for SIGINT; then one for SIGTERM and cURL, and uv_run.
InitializeAsync(w) == WorkerMoves(w, "starting", "reachable")
InitializeSigInt(w) == WorkerMoves(w, "reachable", "int")
InitializeSigTerm(w) == WorkerMoves(w, "int", "running")

\* OnItcAsyncSend: few enough events for one batch (see ItcChannel), and then
\* a log line.
OnItcAsyncSend(w) ==
    /\ Active(w)
    /\ pc[w] = "running"
    /\ woken[w]
    /\ woken' = [woken EXCEPT ![w] = FALSE]
    /\ queue' = [queue EXCEPT ![w] = 0]
    /\ logging' = [logging EXCEPT ![w] = globalLogger]
    /\ UNCHANGED <<stage, config, turn, listenFailed, loggers, mainSignal,
                   dispatch, pc, signal, history>>

\* OnSignal_Exit: uv_stop, and a log line.  libuv calls it after the other
\* handles that are ready in the iteration, which is the last one.
OnSignalWorker(w) ==
    /\ Active(w)
    /\ pc[w] = "running"
    /\ signal[w] = "pending"
    /\ signal' = [signal EXCEPT ![w] = "taken"]
    /\ pc' = [pc EXCEPT ![w] = "stopping"]
    /\ logging' = [logging EXCEPT ![w] = globalLogger]
    /\ UNCHANGED <<stage, config, turn, listenFailed, loggers, mainSignal,
                   dispatch, queue, woken, history>>

\* uv_run returns at the end of the iteration; Finalize.
WorkerFinalize(w) == WorkerMoves(w, "stopping", "ended")

\* Logger::Log through the pointer that was read.
CallLogger(w) ==
    /\ stage \notin Ended \cup {"freed"}
    /\ logging[w] # "none"
    /\ logging' = [logging EXCEPT ![w] = "none"]
    /\ stage' = IF logging[w] = "file" /\ ownedLogger = "freed"
                THEN "undefined" ELSE stage
    /\ UNCHANGED <<config, turn, listenFailed, loggers, mainSignal, dispatch,
                   pc, signal, queue, woken, history>>

\* Whatever a running thread does next, it uses a context that is gone.
UseFreedContext(w) ==
    /\ stage = "freed"
    /\ Alive(w)
    /\ stage' = "undefined"
    /\ UNCHANGED <<config, turn, listenFailed, loggers, mainSignal, dispatch,
                   worker, history>>

-----------------------------------------------------------------------------
(* Signals, from outside, from Engine::Stop or from a raise(SIGINT).        *)

SignalNumbers == {"SIGINT", "SIGTERM"}

OnlySigInt(w, sig) ==                                              \* a mutant
    sig = "SIGINT" /\ (pc[w] = "int" \/ Initialised(w))

\* The worker's loop has a handler for the signal.  uv_loop_close finds open
\* handles and does nothing, so that it stays registered to the end.
Hears(w, sig) == Initialised(w) \/ (pc[w] = "int" /\ sig = "SIGINT")

Deliver(pipe) == IF pipe = "none" THEN "pending" ELSE pipe

\* Before Initialize the signal has its default action.  When the engine is freed,
\* libuv's handler still walks through the signal handles, which lay in EngineImpl
\* and in the contexts.
Signal(sig) ==
    /\ stage \notin Ended
    /\ signals < MaxSignals
    /\ signals' = signals + 1
    /\ asked' = (asked \/ \A w \in 1 .. threads : Initialised(w))
    /\ \/ /\ mainSignal = "default"
          /\ stage' = "killed"
          /\ UNCHANGED <<mainSignal, signal>>
       \/ /\ mainSignal # "default" /\ stage = "freed"
          /\ stage' = "undefined"
          /\ mainSignal' = "late"
          /\ UNCHANGED signal
       \/ /\ mainSignal # "default" /\ stage # "freed"
          /\ mainSignal' = Deliver(mainSignal)
          /\ signal' = [w \in Workers |->
                          IF Hears(w, sig) THEN Deliver(signal[w]) ELSE signal[w]]
          /\ UNCHANGED stage
    /\ UNCHANGED <<config, turn, listenFailed, loggers, dispatch, pc, queue,
                   woken, logging, missed>>

-----------------------------------------------------------------------------

\* What the main thread does by itself.
MainStep ==
    \/ Parse
    \/ Initialize
    \/ ActivateDaemon
    \/ CreateThread
    \/ Listen
    \/ ListenFails
    \/ NotifyWorker
    \/ OnSignalMain
    \/ Join
    \/ Finalize
    \/ FreeLogger
    \/ FreeContexts
    \/ Exit

WorkerStep(w) ==
    \/ InitializeAsync(w)
    \/ InitializeSigInt(w)
    \/ InitializeSigTerm(w)
    \/ OnItcAsyncSend(w)
    \/ OnSignalWorker(w)
    \/ WorkerFinalize(w)
    \/ CallLogger(w)
    \/ UseFreedContext(w)

Next ==
    \/ MainStep
    \/ Enqueue
    \/ \E w \in Workers : WorkerStep(w)
    \/ \E sig \in SignalNumbers : Signal(sig)

Spec == Init /\ [][Next]_vars

\* Every thread is scheduled, and a loop serves each ready handle in every
\* iteration.  Requests, cron jobs and signals need not come.
Fairness == WF_vars(MainStep) /\ \A w \in Workers : WF_vars(WorkerStep(w))

FairSpec == Spec /\ Fairness

-----------------------------------------------------------------------------
(* Properties.                                                              *)

\* g_Logger never points to a logger that has been freed, on whatever path
\* main leaves: a configuration refused after its logger was installed, a
\* failed Initialize, fork or listen, a signal (EngineImpl.h:83-87).
LoggerAlive == globalLogger = "file" => ownedLogger = "held"

\* However start-up, dispatch, signals and the end of main interleave, no thread
\* uses a context, a signal handle or a logger that is freed, or a worker or an
\* async handle that is not there, with four exceptions: no worker is configured;
\* one is notified before its uv_async_init; the server cannot listen, so that
\* nobody waits for the workers (nor for their log lines, which
\* EngineImpl.cc:286-290 takes for safe); a signal comes after the engine is freed.
Defined ==
    stage = "undefined" =>
        threads = 0 \/ missed # {} \/ listenFailed \/ mainSignal = "late"

\* A signal that comes when every worker is in its loop ends the process.  One
\* that comes earlier stops the main loop, and the join then waits for a worker
\* that has not heard it, until the next signal.
StopsOnSignal == asked ~> stage \in Ended

\* An event that the main loop dispatches is processed, unless the process is
\* told to stop, or its only wake-up came before the worker's uv_async_init.
EventsServed ==
    \A w \in Workers :
        queue[w] > 0 ~> \/ queue[w] = 0
                        \/ w \in missed
                        \/ signals > 0
                        \/ stage \in Ended

-----------------------------------------------------------------------------
(* The invariant that proves the safety properties (EngineLife_proofs).     *)

Leaving == {"leave", "finalized", "unlogged", "freed", "exited"}

\* The file logger is the global one from the parsing of the configuration to
\* Finalize at most, and the engine holds it then.
LoggerOwned ==
    globalLogger = "file" => ownedLogger = "held" /\ stage \notin Leaving \ {"leave"}

\* No worker is in a log line of the file logger when the engine frees it, so
\* that late log lines are safe (EngineImpl.cc:286-290), unless the server
\* could not listen: then nobody has waited for the workers.
LateLogSafe ==
    \A w \in Workers :
        logging[w] = "file" /\ ownedLogger # "held" => listenFailed

\* Which threads may be alive, by where the main thread is.
ThreadsAccounted ==
    /\ stage \in {"parse", "init"} => \A w \in Workers : pc[w] = "none"
    /\ stage = "daemon" => \A w \in Workers : ~Alive(w)
    /\ stage = "create" => \A w \in turn .. MaxWorkers : ~Alive(w)
    /\ stage \in {"listen", "loop"} => turn = 1
    /\ stage = "join" => \A w \in 1 .. turn - 1 : pc[w] = "ended"
    /\ stage \in Leaving /\ ~listenFailed => \A w \in Workers : ~Alive(w)
    /\ \A w \in Workers : w > threads => pc[w] = "none"
    /\ \A w \in Workers : ~Alive(w) => logging[w] = "none"

\* The dispatcher's index is that of a worker.
TurnsOfWorkers ==
    /\ stage = "parse" => current = 0
    /\ threads # 0 => current < threads

IInv ==
    /\ TypeOK
    /\ LoggerOwned
    /\ LateLogSafe
    /\ ThreadsAccounted
    /\ TurnsOfWorkers
    /\ Defined
=============================================================================
