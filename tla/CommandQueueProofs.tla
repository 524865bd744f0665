-------------------------- MODULE CommandQueueProofs --------------------------
(***************************************************************************)
(* Proofs about the command queue: an abort() in progress keeps every     *)
(* command from starting a chunk.                                          *)
(***************************************************************************)
EXTENDS CommandQueue, TLAPS

(* The inductive invariant.  thread_m_ is held exactly by the client that *)
(* is between AbortBegin and its flush, so at most one abort() is in its   *)
(* join; while it joins nothing but its own flush can move the token off  *)
(* Aborted; and a command in canContinue or in a chunk has a chunk left.  *)
QInv ==
    /\ TypeOK
    /\ \A c \in Clients :
         cpc[c] \in {"joining", "flushing"} <=> threadLock = c
    /\ \A c \in Clients : cpc[c] = "joining" => token = "aborted"
    /\ worker \in {"check", "chunk"} => done < TaskLen


LEMMA InitQInv == Init => QInv
<1> SUFFICES ASSUME Init PROVE QInv
  OBVIOUS
<1>1. << >> \in Seq(Tasks) /\ 0 \in Tasks \cup {0} /\ 0 \in 0 .. TaskLen
      /\ 1 \in 1 .. MaxTasks + 1
  BY QueueAssumption DEF Tasks
<1>2. TypeOK
  BY <1>1, QueueAssumption DEF Init, TypeOK, TokenStates
<1>3. \A c \in Clients : threadLock # c
  BY QueueAssumption DEF Init
<1> QED
  BY <1>2, <1>3 DEF Init, QInv

(* The steps of a client thread.                                           *)
LEMMA EnqueueQInv ==
    ASSUME QInv, NEW c \in Clients, Enqueue(c) PROVE QInv'
<1>1. Append(queue, nextTask) \in Seq(Tasks)
  BY DEF QInv, TypeOK, Enqueue, Tasks
<1>2. nextTask + 1 \in 1 .. MaxTasks + 1
  BY QueueAssumption DEF QInv, TypeOK, Enqueue
<1> QED
  BY <1>1, <1>2 DEF QInv, TypeOK, Enqueue

LEMMA PauseQInv ==
    ASSUME QInv, NEW c \in Clients, Pause(c) PROVE QInv'
<1>1. PICK b \in BOOLEAN : paused' = b /\ token' = SetPause(b)
  BY DEF Pause
<1>2. token = "aborted" => token' = "aborted"
  BY <1>1 DEF SetPause
<1>3. token' \in TokenStates
  BY <1>1 DEF SetPause, QInv, TypeOK, TokenStates
<1> QED
  BY <1>1, <1>2, <1>3 DEF QInv, TypeOK, Pause

LEMMA AbortBeginQInv ==
    ASSUME QInv, NEW c \in Clients, AbortBegin(c) PROVE QInv'
<1>1. \A d \in Clients : cpc[d] \notin {"joining", "flushing"}
  BY QueueAssumption DEF AbortBegin, QInv
<1>2. PICK r \in BOOLEAN : restart' = [restart EXCEPT ![c] = r]
  BY DEF AbortBegin
<1> QED
  BY <1>1, <1>2, QueueAssumption DEF QInv, TypeOK, AbortBegin, TokenStates

LEMMA AbortJoinQInv ==
    ASSUME QInv, NEW c \in Clients, AbortJoin(c) PROVE QInv'
BY DEF QInv, TypeOK, AbortJoin

LEMMA AbortFlushQInv ==
    ASSUME QInv, NEW c \in Clients, AbortFlush(c) PROVE QInv'
<1>1. threadLock = c /\ \A d \in Clients \ {c} : cpc[d] \notin {"joining", "flushing"}
  BY DEF AbortFlush, QInv
<1>2. << >> \in Seq(Tasks)
  OBVIOUS
<1> QED
  BY <1>1, <1>2, QueueAssumption DEF QInv, TypeOK, AbortFlush, TokenStates

LEMMA RunQInv ==
    ASSUME QInv, NEW c \in Clients, Run(c) PROVE QInv'
BY DEF QInv, TypeOK, Run

(* The steps of the worker thread.                                         *)
LEMMA WorkerWakeQInv == QInv /\ WorkerWake => QInv'
<1> SUFFICES ASSUME QInv, WorkerWake PROVE QInv'
  OBVIOUS
<1>1. CASE shutdown
  BY <1>1 DEF QInv, TypeOK, WorkerWake
<1>2. CASE ~shutdown
  <2>1. queue # << >> /\ queue \in Seq(Tasks)
    BY <1>2 DEF WorkerWake, QInv, TypeOK
  <2>2. Head(queue) \in Tasks /\ Tail(queue) \in Seq(Tasks)
    BY <2>1
  <2>3. cur' = Head(queue) /\ queue' = Tail(queue) /\ done' = 0
        /\ worker' = "check"
    BY <1>2 DEF WorkerWake
  <2> QED
    BY <2>2, <2>3, QueueAssumption DEF QInv, TypeOK, WorkerWake
<1> QED
  BY <1>1, <1>2

LEMMA WorkerCheckQInv == QInv /\ WorkerCheck => QInv'
BY DEF QInv, TypeOK, WorkerCheck, CanProceed, ContinueResult, Tasks

LEMMA WorkerChunkQInv == QInv /\ WorkerChunk => QInv'
<1> SUFFICES ASSUME QInv, WorkerChunk PROVE QInv'
  OBVIOUS
<1>1. done \in 0 .. TaskLen - 1 /\ done' = done + 1
  BY QueueAssumption DEF QInv, TypeOK, WorkerChunk
<1> QED
  BY <1>1, QueueAssumption DEF QInv, TypeOK, WorkerChunk, LastChunk, Tasks

LEMMA NextQInv == QInv /\ [Next]_vars => QInv'
<1> SUFFICES ASSUME QInv, [Next]_vars PROVE QInv'
  OBVIOUS
<1>1. ASSUME NEW c \in Clients,
             \/ Enqueue(c) \/ Pause(c) \/ AbortBegin(c) \/ AbortJoin(c)
             \/ AbortFlush(c) \/ Run(c)
      PROVE  QInv'
  BY <1>1, EnqueueQInv, PauseQInv, AbortBeginQInv, AbortJoinQInv,
     AbortFlushQInv, RunQInv
<1>2. CASE WorkerWake
  BY <1>2, WorkerWakeQInv
<1>3. CASE WorkerCheck
  BY <1>3, WorkerCheckQInv
<1>4. CASE WorkerChunk
  BY <1>4, WorkerChunkQInv
<1>5. CASE UNCHANGED vars
  BY <1>5 DEF QInv, TypeOK, vars
<1> QED
  BY <1>1, <1>2, <1>3, <1>4, <1>5 DEF Next

(* Spec 5, cancellation: while a thread's abort() joins the worker, no    *)
(* command starts a chunk, whatever pause() calls other threads make.      *)
(* The token stays Aborted because setPause leaves Aborted alone and only *)
(* the flush of the abort() holding thread_m_ resets it.                   *)
THEOREM AbortIsStickyThm == Spec => AbortIsSticky
<1>1. QInv /\ [Next]_vars =>
        [(\E c \in Clients : cpc[c] = "joining")
           => ~(worker' = "chunk" /\ worker # "chunk")]_vars
  <2> SUFFICES ASSUME QInv, [Next]_vars,
                      NEW c \in Clients, cpc[c] = "joining",
                      worker' = "chunk", worker # "chunk"
               PROVE  FALSE
    OBVIOUS
  <2>1. token = "aborted"
    BY DEF QInv
  <2>2. WorkerCheck
    BY DEF Next, vars, Enqueue, Pause, AbortBegin, AbortJoin, AbortFlush, Run,
       WorkerWake, WorkerChunk
  <2> QED
    BY <2>1, <2>2 DEF WorkerCheck, ContinueResult
<1> QED
  BY InitQInv, NextQInv, <1>1, PTL DEF Spec, AbortIsSticky

=============================================================================
