----------------------------- MODULE CommandQueue -----------------------------
(***************************************************************************)
(* api::CommandQueue and its FlowControlToken (utilities/apiqueue.cc): one *)
(* worker thread pops commands from a queue and runs them; client threads *)
(* enqueue commands, pause and resume the queue, abort it (optionally      *)
(* restarting the worker) and start the worker.                            *)
(*                                                                         *)
(* Every step under the mutex m_ is one action.  abort() is three steps:  *)
(* the part under m_ that sets the token and shutdown_, the join of the   *)
(* worker, and the flush under m_; restart_thread adds a call of run().   *)
(* A command is a download-like task: TaskLen chunks, each preceded by a  *)
(* blocking canContinue() on the token.  The notify_all calls are left    *)
(* out: every wait is modelled by its predicate, which is what the        *)
(* notifications make it re-evaluate.                                      *)
(***************************************************************************)
EXTENDS Naturals, Sequences, FiniteSets

CONSTANTS
    Clients,     \* threads calling the queue's API
    NoClient,    \* thread_m_ is free
    MaxTasks,    \* commands enqueued in one behaviour
    TaskLen      \* chunks of work in one command

ASSUME QueueAssumption ==
    /\ IsFiniteSet(Clients) /\ Clients # {} /\ NoClient \notin Clients
    /\ MaxTasks \in Nat \ {0}
    /\ TaskLen \in Nat \ {0}

Tasks == 1 .. MaxTasks
TokenStates == {"running", "paused", "aborted"}

VARIABLES
    queue,       \* queue_: the commands waiting, oldest first
    paused,      \* paused_
    shutdown,    \* shutdown_
    token,       \* token_.state_
    worker,      \* the thread_ object: "none" (not joinable), "idle" (in   *)
                 \* cv_.wait), "check" (in canContinue), "chunk", "exited" *)
    cur,         \* the command the worker runs, 0 if none
    done,        \* chunks of `cur` done
    threadLock,  \* holder of thread_m_
    cpc,         \* where each client is in abort(): "free", "joining",  *)
                 \* "flushing", "restarting"                              *)
    restart,     \* each client's restart_thread argument
    nextTask     \* the next command to enqueue

vars == <<queue, paused, shutdown, token, worker, cur, done, threadLock, cpc,
          restart, nextTask>>

InQueue(t) == \E i \in 1 .. Len(queue) : queue[i] = t

-----------------------------------------------------------------------------
(* FlowControlToken.                                                       *)

(* setPause: Running -> Paused and Paused -> Running; otherwise no change. *)
SetPauseUnchecked(b) == IF b THEN "paused" ELSE "running"
SetPause(b) ==
    CASE b /\ token = "running"  -> "paused"
      [] ~b /\ token = "paused"  -> "running"
      [] OTHER                   -> token

(* canContinue(true): the wait predicate, and the value returned after it. *)
CanProceedOnlyRunning == token = "running"
CanProceed == token # "paused"
ContinueResultNotPaused == token # "paused"
ContinueResult == token = "running"

-----------------------------------------------------------------------------
(* The client API.                                                         *)

(* enqueue: push under m_.                                                 *)
Enqueue(c) ==
    /\ cpc[c] = "free"
    /\ nextTask <= MaxTasks
    /\ queue' = Append(queue, nextTask)
    /\ nextTask' = nextTask + 1
    /\ UNCHANGED <<paused, shutdown, token, worker, cur, done, threadLock, cpc,
                   restart>>

(* pause(do_pause): set paused_ and the token under m_.                    *)
Pause(c) ==
    /\ cpc[c] = "free"
    /\ \E b \in BOOLEAN :
         /\ paused' = b
         /\ token' = SetPause(b)
    /\ UNCHANGED <<queue, shutdown, worker, cur, done, threadLock, cpc, restart,
                   nextTask>>

(* abort(restart_thread), first block: take thread_m_, then under m_ set *)
(* the token to Aborted and shutdown_.                                     *)
AbortBegin(c) ==
    /\ cpc[c] = "free"
    /\ threadLock = NoClient
    /\ \E r \in BOOLEAN : restart' = [restart EXCEPT ![c] = r]
    /\ threadLock' = c
    /\ token' = "aborted"
    /\ shutdown' = TRUE
    /\ cpc' = [cpc EXCEPT ![c] = "joining"]
    /\ UNCHANGED <<queue, paused, worker, cur, done, nextTask>>

(* if (thread_.joinable()) thread_.join().                                 *)
AbortJoin(c) ==
    /\ cpc[c] = "joining"
    /\ worker \in {"none", "exited"}
    /\ worker' = "none"
    /\ cpc' = [cpc EXCEPT ![c] = "flushing"]
    /\ UNCHANGED <<queue, paused, shutdown, token, cur, done, threadLock,
                   restart, nextTask>>

(* Under m_: flush the queue, token_.reset(), shutdown_ = false; release  *)
(* thread_m_; then run() if restart_thread.                                *)
AbortFlushKeepShutdown(c) ==
    /\ cpc[c] = "flushing"
    /\ queue' = << >>
    /\ token' = "running"
    /\ threadLock' = NoClient
    /\ cpc' = [cpc EXCEPT ![c] = IF restart[c] THEN "restarting" ELSE "free"]
    /\ UNCHANGED <<paused, shutdown, worker, cur, done, restart, nextTask>>
AbortFlush(c) ==
    /\ cpc[c] = "flushing"
    /\ queue' = << >>
    /\ token' = "running"
    /\ shutdown' = FALSE
    /\ threadLock' = NoClient
    /\ cpc' = [cpc EXCEPT ![c] = IF restart[c] THEN "restarting" ELSE "free"]
    /\ UNCHANGED <<paused, worker, cur, done, restart, nextTask>>

(* run(): under thread_m_, start the worker unless thread_ is joinable.   *)
(* Called directly, or by abort(true) after it released thread_m_.         *)
Run(c) ==
    /\ cpc[c] \in {"free", "restarting"}
    /\ threadLock = NoClient
    /\ worker' = IF worker = "none" THEN "idle" ELSE worker
    /\ cpc' = [cpc EXCEPT ![c] = "free"]
    /\ UNCHANGED <<queue, paused, shutdown, token, cur, done, threadLock,
                   restart, nextTask>>

-----------------------------------------------------------------------------
(* The worker thread.                                                      *)

(* cv_.wait(lock, (!queue_.empty() && !paused_) || shutdown_), then exit  *)
(* on shutdown_ or pop the front command.                                  *)
WorkerWake ==
    /\ worker = "idle"
    /\ (queue # << >> /\ ~paused) \/ shutdown
    /\ IF shutdown
       THEN worker' = "exited" /\ UNCHANGED <<queue, cur, done>>
       ELSE /\ cur' = Head(queue) /\ queue' = Tail(queue)
            /\ done' = 0 /\ worker' = "check"
    /\ UNCHANGED <<paused, shutdown, token, threadLock, cpc, restart, nextTask>>

(* The command asks canContinue(true): it blocks while Paused, then goes  *)
(* on if Running and returns (Aborted) otherwise.                          *)
WorkerCheck ==
    /\ worker = "check"
    /\ CanProceed
    /\ IF ContinueResult
       THEN worker' = "chunk" /\ UNCHANGED cur
       ELSE worker' = "idle" /\ cur' = 0
    /\ UNCHANGED <<queue, paused, shutdown, token, done, threadLock, cpc,
                   restart, nextTask>>

(* The command's loop ends after its TaskLen-th chunk.                     *)
LastChunk == done + 1 = TaskLen

(* One chunk of the command; after the last one PerformTask returns and   *)
(* the worker re-locks m_.                                                 *)
WorkerChunk ==
    /\ worker = "chunk"
    /\ done' = done + 1
    /\ IF LastChunk
       THEN worker' = "idle" /\ cur' = 0
       ELSE worker' = "check" /\ UNCHANGED cur
    /\ UNCHANGED <<queue, paused, shutdown, token, threadLock, cpc, restart,
                   nextTask>>

-----------------------------------------------------------------------------
(* The CommandQueue constructor: nothing queued, not paused, no thread.   *)
Init ==
    /\ queue = << >>
    /\ paused = FALSE
    /\ shutdown = FALSE
    /\ token = "running"
    /\ worker = "none"
    /\ cur = 0
    /\ done = 0
    /\ threadLock = NoClient
    /\ cpc = [c \in Clients |-> "free"]
    /\ restart = [c \in Clients |-> FALSE]
    /\ nextTask = 1

Next ==
    \/ \E c \in Clients :
         \/ Enqueue(c) \/ Pause(c) \/ AbortBegin(c) \/ AbortJoin(c)
         \/ AbortFlush(c) \/ Run(c)
    \/ WorkerWake \/ WorkerCheck \/ WorkerChunk

(* The worker thread is scheduled whenever it can run, and a thread inside *)
(* abort() finishes the call; clients are not obliged to call anything.   *)
Fairness ==
    /\ WF_vars(WorkerWake) /\ WF_vars(WorkerCheck) /\ WF_vars(WorkerChunk)
    /\ \A c \in Clients :
         /\ WF_vars(AbortJoin(c)) /\ WF_vars(AbortFlush(c))
         /\ WF_vars(cpc[c] = "restarting" /\ Run(c))

Spec == Init /\ [][Next]_vars /\ Fairness

-----------------------------------------------------------------------------
(* Properties.                                                             *)

(* The variables' types; CommandQueueProofs builds its invariant on them. *)
TypeOK ==
    /\ queue \in Seq(Tasks) /\ paused \in BOOLEAN /\ shutdown \in BOOLEAN
    /\ token \in TokenStates
    /\ worker \in {"none", "idle", "check", "chunk", "exited"}
    /\ cur \in Tasks \cup {0} /\ done \in 0 .. TaskLen
    /\ threadLock \in Clients \cup {NoClient}
    /\ cpc \in [Clients -> {"free", "joining", "flushing", "restarting"}]
    /\ restart \in [Clients -> BOOLEAN]
    /\ nextTask \in 1 .. MaxTasks + 1

(* Spec 5, cancellation: abort() is sticky.  From the moment a thread's   *)
(* abort() has set the token to Aborted until it has joined the worker and *)
(* flushed the queue, no command starts another chunk of work, whatever    *)
(* pause() calls other threads make meanwhile.                             *)
AbortIsSticky ==
    [][(\E c \in Clients : cpc[c] = "joining")
         => ~(worker' = "chunk" /\ worker # "chunk")]_vars

(* abort() returns: a thread that entered abort() eventually leaves its   *)
(* join and flush, even if the queue was paused with a command blocked in *)
(* canContinue.                                                            *)
AbortCompletes ==
    \A c \in Clients : cpc[c] = "joining" ~> cpc[c] \in {"free", "restarting"}

(* A queued command is eventually taken off the queue (run or flushed by  *)
(* an abort), unless the queue is paused or has no worker thread.          *)
QueuedTaskRuns ==
    \A t \in Tasks :
       InQueue(t) ~> (~InQueue(t) \/ paused \/ worker = "none")

(* The comment in abort(): after the flush the queue is back in its       *)
(* initial state, so paused_ is false again.                               *)
AbortResetsToInitial ==
    [][\A c \in Clients : cpc[c] = "flushing" /\ cpc'[c] # "flushing"
          => paused' = FALSE]_vars

=============================================================================
