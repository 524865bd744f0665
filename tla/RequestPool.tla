------------------------------ MODULE RequestPool ------------------------------
(***************************************************************************)
(* RequestPool (sota_tools/request_pool.cc): garage-push's single-threaded *)
(* loop over a curl multi handle.  Objects wait in query_queue_ (a HEAD    *)
(* request: is the object on the server?) and upload_queue_; LoopLaunch   *)
(* starts requests while running_requests_ is below the rate controller's *)
(* MaxConcurrency, queries first; LoopListen lets curl run the transfers, *)
(* sets running_requests_ to the number of transfers still running, and   *)
(* hands every completed one to its object's CurlDone.  The driver calls  *)
(* Loop() until is_idle().                                                 *)
(*                                                                         *)
(* Not in this repository, and taken from how request_pool.cc uses them: *)
(* Abort() sets stopped_ and empties both queues (the destructor calls it  *)
(* and then only LoopListen until is_idle); is_idle() is "both queues     *)
(* empty and running_requests_ = 0"; CurlDone of a query adds an upload of *)
(* an object the server lacks; the rate controller may lower the          *)
(* concurrency and may declare the server failed after a bad response.   *)
(* The network is the environment: a transfer completes, well or badly,   *)
(* at any time.                                                            *)
(***************************************************************************)
EXTENDS Naturals, Sequences, FiniteSets

CONSTANTS
    Objects,         \* the OSTree objects garage-push hands to the pool
    MaxConcurrency   \* the rate controller's largest MaxConcurrency()

ASSUME PoolAssumption ==
    /\ IsFiniteSet(Objects)
    /\ MaxConcurrency \in Nat \ {0}

Kinds == {"query", "upload"}

VARIABLES
    queryQ,   \* query_queue_
    uploadQ,  \* upload_queue_
    running,  \* running_requests_
    conc,     \* rate_controller_.MaxConcurrency()
    stopped,  \* stopped_
    wire,     \* transfers in the multi handle that curl still runs
    landed,   \* transfers that completed since the last curl_multi_perform
    msgs,     \* completed transfers curl_multi_info_read has still to return
    st,       \* what became of each object
    pc,       \* the driver: "add", "launch", "listen", "drain", "check", "exit"
    fsckOnUpload, \* fsck_on_upload_, fixed by the constructor
    dryRun        \* mode_ is kDryRun or kWalkTree, fixed by the constructor

options == <<fsckOnUpload, dryRun>>
vars == <<queryQ, uploadQ, running, conc, stopped, wire, landed, msgs, st, pc,
          options>>

(* A transfer: the object and the kind of request.                        *)
Transfers == Objects \X Kinds

-----------------------------------------------------------------------------
(* Abort(): stop, and drop what is queued.                                 *)
Abort ==
    /\ stopped' = TRUE
    /\ queryQ' = <<>> /\ uploadQ' = <<>>

(* AddQuery and AddUpload: queue the object unless the pool was stopped. *)
(* LaunchNotify has marked the object launched either way.               *)
AddQuery(o) ==
    /\ queryQ' = IF stopped THEN queryQ ELSE Append(queryQ, o)
    /\ st' = [st EXCEPT ![o] = "launched"]

AddUpload(o) ==
    /\ uploadQ' = IF stopped THEN uploadQ ELSE Append(uploadQ, o)
    /\ st' = [st EXCEPT ![o] = "launched"]

(* garage-push queues each object before the loop.                        *)
DriverAdds ==
    /\ pc = "add"
    /\ \E o \in Objects :
         /\ st[o] = "new"
         /\ AddQuery(o)
    /\ UNCHANGED <<uploadQ, running, conc, stopped, wire, landed, msgs, pc>>
    /\ UNCHANGED options

DriverStarts ==
    /\ pc = "add"
    /\ \A o \in Objects : st[o] # "new"
    /\ pc' = "check"
    /\ UNCHANGED <<queryQ, uploadQ, running, conc, stopped, wire, landed, msgs, st>>
    /\ UNCHANGED options

-----------------------------------------------------------------------------
(* LoopLaunch, one pass of its while loop.                                 *)
LaunchGuardOffByOne == running <= conc /\ (queryQ # <<>> \/ uploadQ # <<>>)
LaunchGuard == running < conc /\ (queryQ # <<>> \/ uploadQ # <<>>)

(* running_requests_++ after a request is started.                       *)
CountLaunchMissing == UNCHANGED running
CountLaunch == running' = running + 1

(* A query, or an upload when no query waits: an upload of a corrupt      *)
(* object aborts the pool; a dry run starts no transfer but counts one    *)
(* and reports the object uploaded at once.                               *)
LaunchOne ==
    /\ pc = "launch"
    /\ LaunchGuard
    /\ IF queryQ # <<>>
         THEN LET o == Head(queryQ) IN
              /\ queryQ' = Tail(queryQ)
              /\ wire' = wire \cup {<<o, "query">>}
              /\ CountLaunch
              /\ UNCHANGED <<uploadQ, stopped, st>>
         ELSE LET o == Head(uploadQ) IN
              \/ /\ fsckOnUpload
                 /\ Abort
                 /\ st' = [st EXCEPT ![o] = "corrupt"]
                 /\ UNCHANGED <<wire, running>>
              \/ /\ CountLaunch
                 /\ uploadQ' = Tail(uploadQ)
                 /\ IF dryRun
                      THEN st' = [st EXCEPT ![o] = "done"] /\ UNCHANGED wire
                      ELSE wire' = wire \cup {<<o, "upload">>} /\ UNCHANGED st
                 /\ UNCHANGED <<queryQ, stopped>>
    /\ UNCHANGED <<conc, landed, msgs, pc>>
    /\ UNCHANGED options

LaunchEnd ==
    /\ pc = "launch"
    /\ ~LaunchGuard
    /\ pc' = "listen"
    /\ UNCHANGED <<queryQ, uploadQ, running, conc, stopped, wire, landed, msgs, st>>
    /\ UNCHANGED options

-----------------------------------------------------------------------------
(* The network: a transfer curl runs completes.                           *)
TransferCompletes ==
    /\ \E t \in wire :
         /\ wire' = wire \ {t}
         /\ landed' = landed \cup {t}
    /\ UNCHANGED <<queryQ, uploadQ, running, conc, stopped, msgs, st, pc>>
    /\ UNCHANGED options

(* LoopListen up to the message loop: curl_multi_perform sets            *)
(* running_requests_ to the transfers still running.                       *)
PerformCountStale == running
PerformCount == Cardinality(wire)

Perform ==
    /\ pc = "listen"
    /\ running' = PerformCount
    /\ msgs' = landed
    /\ landed' = {}
    /\ pc' = "drain"
    /\ UNCHANGED <<queryQ, uploadQ, conc, stopped, wire, st>>
    /\ UNCHANGED options

(* One pass of the message loop: CurlDone, then the rate controller.  A  *)
(* query finds the object on the server, or queues its upload; an upload *)
(* succeeds or fails.  A bad response may make the controller declare    *)
(* the server failed, which aborts the pool.                              *)
DrainOne ==
    /\ pc = "drain"
    /\ \E t \in msgs : \E ok \in BOOLEAN, c \in 1 .. MaxConcurrency :
         LET o == t[1] IN
         /\ msgs' = msgs \ {t}
         /\ conc' = c
         /\ \/ /\ t[2] = "query" /\ ok
               /\ \/ /\ st' = [st EXCEPT ![o] = "done"]
                     /\ UNCHANGED <<queryQ, uploadQ, stopped>>
                  \/ /\ AddUpload(o)
                     /\ UNCHANGED <<queryQ, stopped>>
            \/ /\ t[2] = "upload" /\ ok
               /\ st' = [st EXCEPT ![o] = "done"]
               /\ UNCHANGED <<queryQ, uploadQ, stopped>>
            \/ /\ ~ok
               /\ \/ /\ Abort
                     /\ st' = [st EXCEPT ![o] = "failed"]
                  \/ /\ st' = [st EXCEPT ![o] = "failed"]
                     /\ UNCHANGED <<queryQ, uploadQ, stopped>>
    /\ UNCHANGED <<running, wire, landed, pc>>
    /\ UNCHANGED options

DrainEnd ==
    /\ pc = "drain"
    /\ msgs = {}
    /\ pc' = "check"
    /\ UNCHANGED <<queryQ, uploadQ, running, conc, stopped, wire, landed, msgs, st>>
    /\ UNCHANGED options

(* The driver: while (!is_idle()) Loop();                                  *)
IsIdleQueuesOnly == queryQ = <<>> /\ uploadQ = <<>>
IsIdle == queryQ = <<>> /\ uploadQ = <<>> /\ running = 0

DriverChecks ==
    /\ pc = "check"
    /\ pc' = IF IsIdle THEN "exit" ELSE "launch"
    /\ UNCHANGED <<queryQ, uploadQ, running, conc, stopped, wire, landed, msgs, st>>
    /\ UNCHANGED options

-----------------------------------------------------------------------------
Init ==
    /\ queryQ = <<>> /\ uploadQ = <<>>
    /\ running = 0
    /\ conc = MaxConcurrency
    /\ stopped = FALSE
    /\ wire = {} /\ landed = {} /\ msgs = {}
    /\ st = [o \in Objects |-> "new"]
    /\ pc = "add"
    /\ fsckOnUpload \in BOOLEAN /\ dryRun \in BOOLEAN

Next ==
    \/ DriverAdds \/ DriverStarts
    \/ LaunchOne \/ LaunchEnd
    \/ TransferCompletes \/ Perform \/ DrainOne \/ DrainEnd
    \/ DriverChecks

(* The pool's thread runs whenever it can, and curl completes or times    *)
(* out every transfer.                                                     *)
Fairness ==
    /\ WF_vars(DriverAdds)
    /\ WF_vars(DriverStarts)
    /\ WF_vars(LaunchOne) /\ WF_vars(LaunchEnd)
    /\ WF_vars(Perform) /\ WF_vars(DrainOne) /\ WF_vars(DrainEnd)
    /\ WF_vars(DriverChecks)
    /\ WF_vars(TransferCompletes)

Spec == Init /\ [][Next]_vars /\ Fairness

-----------------------------------------------------------------------------
(* Properties.                                                             *)

States == {"new", "launched", "done", "failed", "corrupt"}

TypeOK ==
    /\ queryQ \in Seq(Objects) /\ uploadQ \in Seq(Objects)
    /\ running \in 0 .. MaxConcurrency /\ conc \in 1 .. MaxConcurrency
    /\ stopped \in BOOLEAN
    /\ wire \subseteq Transfers /\ landed \subseteq Transfers
    /\ msgs \subseteq Transfers
    /\ st \in [Objects -> States]
    /\ pc \in {"add", "launch", "listen", "drain", "check", "exit"}
    /\ fsckOnUpload \in BOOLEAN /\ dryRun \in BOOLEAN

(* LoopLaunch keeps at most MaxConcurrency requests in flight: however    *)
(* curl_multi_perform overwrites running_requests_ and however the rate   *)
(* controller lowers the concurrency, the transfers in the multi handle, *)
(* running or completed and not yet read, never exceed the largest bound. *)
InFlightBounded ==
    Cardinality(wire \cup landed \cup msgs) <= MaxConcurrency

(* When the driver's while (!is_idle()) loop ends, no transfer is left in *)
(* the multi handle, and unless the pool was aborted every object it was *)
(* given was settled: found by its query, uploaded, or its request failed *)
(* (LoopListen hands a failure to the rate controller and retries       *)
(* nothing).  None is left new, queued, or launched and never answered.   *)
ExitAccountsAll ==
    pc = "exit" =>
      /\ wire \cup landed \cup msgs = {}
      /\ ~stopped => \A o \in Objects : st[o] \in {"done", "failed"}

(* garage-push finishes: the driver's loop ends.                           *)
PoolTerminates == <>(pc = "exit")

=============================================================================
