# TLA+ models of aktualizr

This directory holds TLA+ models of the parts of aktualizr (in `../src`)
whose correctness depends on the order of steps rather than on data:

- the Uptane metadata update of the Image repository, with Root rotation;
- the command queue that runs the client's API calls on a worker thread;
- the HTTP client's retrying `perform` and its size-limited body sink;
- the key manager's Uptane key pair and TLS credentials;
- the Primary updating a Virtual Secondary: Root pushes, the metadata
  bundle, firmware and install, with the Secondary's fault points;
- garage-push's request pool, which queries and uploads OSTree objects over
  a curl multi handle with bounded concurrency.

Each model has three companions:

- TLC configurations that check it on small instances;
- mutants that show the checked properties depend on the code;
- TLAPS proofs that hold for every value of the constants (metadata
  update and what it leaves in the Store, command queue, HTTP client, key manager, Secondary update,
  request pool).

The HTTP client also has an abstract specification, `HttpCall`, of what a
call promises its caller. The detailed model is shown to implement it, by TLC
and by TLAPS.

`PROJECT.json` lists the same material in machine-readable form: components,
runs, mutants, the definition-to-source map, findings, hazards and theorems.

## 1. The system and its parts

| Part | Source | Role | Model |
|---|---|---|---|
| RepositoryCommon (Root rotation) | `src/libaktualizr/uptane/uptanerepository.cc`, `include/libaktualizr/uptane/uptanerepository.h` | Loads or fetches Root v1, then walks N+1, N+2, … verifying each new Root against the old one and storing it. | `ImageRepository` |
| ImageRepository | `src/libaktualizr/uptane/imagerepository.cc` | `updateMeta` fetches Timestamp, Snapshot and Targets, reusing the stored copy where it still verifies, with rollback and expiry checks. `checkMetaOffline` re-verifies the Store without a network. | `ImageRepository` |
| CommandQueue / FlowControlToken | `src/libaktualizr/utilities/apiqueue.cc` | The API's worker thread. `enqueue`, `pause`, `abort(restart)` and `run` are called from client threads. Commands poll the token with `canContinue`. | `CommandQueue` |
| HttpClient | `src/libaktualizr/http/httpclient.cc` | libcurl wrapper. `perform` retries failed requests; `writeString` enforces a size limit. | `HttpClient` |
| KeyManager | `src/libaktualizr/crypto/keymanager.cc` | The device's Uptane key pair (in the Store or a PKCS#11 token), `signTuf`, and the TLS credentials copied to temporary files and to the HTTP client. | `KeyManager` |
| SecondaryProvider | `src/libaktualizr/primary/secondary_provider.cc` | `getMetadata` builds the bundle a Secondary gets from the Primary's Store. | `SecondaryUpdate` |
| VirtualSecondary | `src/virtual_secondary/virtualsecondary.cc` | A Secondary in the Primary's process; each call has a fault-injection point. | `SecondaryUpdate` |
| RequestPool (garage-push) | `src/sota_tools/request_pool.cc` | A curl-multi pool that queries and uploads OSTree objects with bounded concurrency. | `RequestPool` (partly: see 7) |

How they interact:

- A command taken from the `CommandQueue` (for example "check for updates")
  runs `updateRoot` and `updateMeta` on the Image repository.
- Those fetch over `HttpClient`, which retries on transport and 5xx errors.
- They persist every verified role in the Store (`INvStorage`).
- An `abort()` on the queue makes the running command stop at its next
  `canContinue`.

- `SotaUptaneClient` signs manifests with `KeyManager::signTuf`, gives the
  HTTP client its TLS credentials with `copyCertsToCurl`, and pushes Roots,
  the `SecondaryProvider` bundle, firmware and install to each Secondary.

The queue and repository models meet only at that boundary. A command of the queue model is an
opaque sequence of chunks, each preceded by a `canContinue` check. A separate
composition would show nothing the two models do not already show.

## 2. Modules

| Module | Contents |
|---|---|
| `ImageRepository.tla` | Metadata update and Root rotation: state, actions and properties. |
| `MC_ImageRepository.tla` | Model values for keys, and the key symmetry. |
| `ImageRepositoryProofs.tla` | TLAPS proofs for `ImageRepository`. |
| `ImageStoreProofs.tla` | TLAPS proofs of what the Store holds after and during an update: `StoredUnderLatestRoot`, `UpdateLeavesVerifiableStore`, `MetaNoRollback`. |
| `CommandQueue.tla` | Command queue and flow-control token. |
| `MC_CommandQueue.tla` | Model values for client threads, and the client symmetry. |
| `CommandQueueProofs.tla` | TLAPS proofs for `CommandQueue`. |
| `HttpClient.tla`, `MC_HttpClient.tla` | `perform`, `writeString` and the server and network around them. |
| `HttpCall.tla` | The abstract specification of one `get`, `post` or `put` call. |
| `HttpClientProofs.tla` | TLAPS proofs for `HttpClient`, including its refinement of `HttpCall`. |
| `KeyManager.tla`, `MC_KeyManager.tla` | Key generation, signing, TLS credentials, restarts; model values and symmetry for keys and credentials. |
| `KeyManagerProofs.tla` | TLAPS proofs for `KeyManager`. |
| `SecondaryUpdate.tla`, `MC_SecondaryUpdate.tla` | The Primary's update of one Virtual Secondary. |
| `SecondaryUpdateProofs.tla` | TLAPS proofs for `SecondaryUpdate`. |
| `RequestPool.tla`, `MC_RequestPool.tla` | garage-push's `RequestPool`: `LoopLaunch`, `LoopListen` and the driver's loop; model values for objects. |
| `RequestPoolProofs.tla` | TLAPS proofs for `RequestPool`. |

### ImageRepository

Data is abstracted to what the checks tell apart:

- A Root is a record holding its version, its signing key and the set of
  keys that signed it. Double signing is `old.key \in signers /\ new.key \in signers`.
- Timestamp, Snapshot and Targets carry a version, the key that signed them,
  and the version and hash each names of the next role.
- Keys are model values.
- A hash is the document it names, or `NoHash`.

State:

| Variable | What it stands for |
|---|---|
| `server` | The repository's current Root chain and its released roles. |
| `published` | Every role the repository has ever signed. An attacker may replay these, and with `ForgeTimestamp` may sign fresh Timestamps. |
| `storedRoots` | The Store's Root table, keyed by version. |
| `storedMeta` | The Store's non-root roles. |
| `mRoot`, `mTs`, `mSnap`, `mTgt` | The repository object's in-memory copies (`root`, `timestamp`, `snapshot`, `targets`). |
| `prevTs`, `loopVer`, `startVer`, `snapUpdated` | Locals of the call in progress. |
| `pc` | Where that call is. |
| `result` | How `updateMeta` ended. |
| `offline` | How `checkMetaOffline` ended. |

Actions, in the order of the code:

| Action | Code it models |
|---|---|
| `StartUpdate` | Lines 54-66 of `updateRoot`: load or fetch Root v1, check it against itself, store it. |
| `RootRotate` | One pass of the loop (70-82): fetch version N+1, `verifyRoot`, `storeRoot`. |
| `RootFetchFails`, `RootBound` | The two ways the loop ends. Both go to `RootLoopEnd` (the `rootExpired` check). |
| `RootClear` | The `clearNonRootMeta` that follows a store. |
| `UpdateTimestamp`, `UpdateSnapshot`, `UpdateTargets` | The three blocks of `updateMeta`, each with its fetch, verification, rollback check, store and expiry check. |
| `CheckMetaOffline` | `checkMetaOffline`. |
| `ServerRotate`, `ServerRelease` | The repository rotating its Root key and releasing new roles. |
| `Crash` | A power loss: the call and the in-memory copies are lost, the Store stays. |

Every `throw` is a transition to `result = "error"`. `RootRotate` assigns
`mRoot` before checking the version, as `verifyRoot` assigns `root` at line 33
before the check at line 38.

### CommandQueue

State:

| Variable | What it stands for |
|---|---|
| `queue`, `paused`, `shutdown`, `token` | `queue_`, `paused_`, `shutdown_` and the token's state. |
| `worker` | The worker thread: not started, waiting on `cv_`, in `canContinue`, doing a chunk, or exited. |
| `threadLock` | Who holds `thread_m_`. |
| `cpc` | Where each client thread is inside `abort()`. |

- `abort()` is split at its two blocking points, since other threads run
  between them:
  - `AbortBegin` takes the locks and sets the token and `shutdown_`;
  - `AbortJoin` is the join;
  - `AbortFlush` flushes, resets and releases `thread_m_`, followed by `run()`
    when `restart_thread` is true.
- Every other API call is one action.
- The worker's `cv_.wait` and the token's `cv_.wait` are modelled by their
  predicates (`WorkerWake`, `WorkerCheck`).

### HttpClient

- `req` is the call in progress (method and size limit: `get` passes the
  caller's `maxsize` or `kNoLimit`, `post` and `put` the response limit).
- `phase` follows one attempt: `wire` (request sent), `body` (the server
  answered and the body arrives), `check` (`curl_easy_perform` returned),
  `done` (`perform` returned `resp`).
- `retries` is `perform`'s `retry_times` argument; `attempts` (a ghost)
  counts the call's transfers.
- A body is a length. `WriteString` takes a chunk of any size and refuses it,
  as `writeString` does, if it would take `out` past a positive limit.
- `ServerAnswers` may declare the length, and curl's `MAXFILESIZE_LARGE` then
  refuses an oversize body before any byte (`filesize_exceeded`).
- `PerformReturns` is the end of `perform`: on a curl error or a 5xx with
  `retry_times # 0` it calls itself with `retry_times - 1` and a fresh
  `WriteStringArg` (`Retry`); otherwise it builds the response.

`HttpCall` is what a call promises, with no curl, server or sink in it. It
has four variables:

- `busy`: a call is in progress;
- `limit`: the call's size limit;
- `tries`: the transfers the call has made;
- `answer`: the response returned last.

It has three actions:

- `Start` begins a call.
- `Again` makes one more transfer while `tries <= RetryTimes`.
- `Return` answers the call. A failed answer comes only after
  `RetryTimes + 1` transfers. A body without a curl error is within a
  positive limit.

`HttpClient` maps onto it with `HC == INSTANCE HttpCall WITH` these mappings:

- `busy <- phase # "done"`;
- `limit <- req.limit`;
- `tries <- attempts`;
- `answer <- resp`.

`Call` is `Start`, `Retry` is `Again` and `PerformReturns` is `Return`. Every
step of the transfer and the server is a stutter. `HttpCallRefined == HC!Spec`
is proved in `HttpClientProofs`. No run checks it: what `HttpCall` promises
is `RetriesExact` and the limit half of `OkResponseIsLastBody`, which the
`http` run checks directly.

### KeyManager

- `config` is any `KeyManagerConfig` (TLS items and the Uptane key from a
  file or PKCS#11); `BuiltWithP11` is `built_with_p11`.
- `stored` is the Store (TLS credentials and the primary key pair), `token`
  the PKCS#11 token's key, `tmp` the three temporary TLS files.
- Key generation produces a fresh model value or fails. `issued` (ghost)
  is the first key `generateUptaneKeyPair` returned.
- `GenerateFile` and `GenerateP11` are the two branches of
  `generateUptaneKeyPair`; `SignTuf` is `signTuf`, whose keyid comes from
  `UptanePublicKey` (`PublicKeyOf`) and whose signing key from the Store or
  the token (`SigningKey`); a throw gives `NoSig`.
- `Restart` destroys and rebuilds the object: temporary files go, the Store
  and the token stay. `StoreTlsCreds` is provisioning.

### SecondaryUpdate

- `pRoot`, `pMeta` are the Primary's stored Roots and roles, `sRoot`, `sMeta`
  the Secondary's. A role is the Root version it is signed under, 0 if absent.
- The Store changes only between cycles, since the command queue runs one
  command at a time. `updateRoot`'s two writes are two actions:
  `PrimaryStoreRoot` (`storeRoot`, line 82) and `PrimaryClearMeta`
  (`clearNonRootMeta`, line 83). `clearing` names the repository between
  them. With `CrashPossible`, `PrimaryCrash` is a power loss in that window:
  the new Root stays and the old roles are kept. `PrimaryStoresMeta` is
  `updateMeta` storing some roles under the latest Root.
- A cycle: `StartCycle`, `PutRoot` per missing version, `RotateDone` from the
  Director to the Image repository to the metadata, `PutMetadata` (with
  `getMetadata`, which fails if any role is absent), `SendFirmware`,
  `Install`. Each call of the Virtual Secondary may take its fault branch.
- The managed Secondary's checks (`ManagedPutRoot`: only the next version;
  `ManagedVerify`: every role signed under its Root) and the Primary's loop
  are modelled from spec 4.7: their code is not in this repository.

### RequestPool

`RequestPool` models garage-push's loop in `request_pool.cc`.

State:

- `queryQ`, `uploadQ` are `query_queue_` and `upload_queue_`;
- `running` is `running_requests_`;
- `conc` is the rate controller's `MaxConcurrency()`, at most the constant
  `MaxConcurrency`;
- `stopped` is `stopped_`;
- `wire` holds the transfers curl still runs, `landed` the ones that
  completed since the last `curl_multi_perform`, and `msgs` the ones
  `curl_multi_info_read` has still to return;
- `st` is what became of each object;
- `pc` is the driver's place: add, launch, listen, drain, check or exit;
- `fsckOnUpload` and `dryRun` are constructor arguments, chosen in `Init`.

Actions:

- `DriverAdds` calls `AddQuery`; `DriverStarts` begins the loop.
- `LaunchOne` is one pass of `LoopLaunch`'s loop: a query first, otherwise
  an upload. The upload aborts the pool on a corrupt object under fsck, and
  in a dry run counts a request without starting a transfer.
- `LaunchEnd` leaves `LoopLaunch`.
- `TransferCompletes` is the network finishing a transfer.
- `Perform` is `curl_multi_perform`, which sets `running_requests_` to the
  transfers still running.
- `DrainOne` is one message of the loop. It runs `CurlDone`: a query may
  queue an upload. It then runs the rate controller, which may lower the
  concurrency or abort the pool after a failure.
- `DrainEnd` leaves the message loop; `DriverChecks` is
  `while (!is_idle()) Loop()`.

Some code is not in this repository: `request_pool.h`, `OSTreeObject`, the
rate controller and the driver. These are modelled from how
`request_pool.cc` uses them and marked `spec_modelled` in `PROJECT.json`.
`Abort()` sets `stopped_` and empties both queues. `is_idle()` means both
queues are empty and no request is running.

## 3. Runs

Bounds used by the Image repository runs:

- two keys;
- Root versions up to `MaxRoot = 3`;
- role versions up to `MaxVersion = 3`;
- `kMaxRotations` set to `MaxRotations = 3`.

These allow:

- one Root rotation on the device (it stores v1 and v2; the loop bound
  stops it before v3, which the server can still publish), so a Store may
  hold roles under a superseded key;
- a replay of every older role;
- the loop reaching its bound.

| Run | Config | Expect | Checks and shows |
|---|---|---|---|
| update | `MC_ImageRepository.cfg` | pass | `TypeOK`, `RootChainValid` (stored Roots form a chain from v1, each under its own version and signed by its predecessor's key), `UpdateLeavesVerifiableStore` (after `updateMeta` succeeds, `checkMetaOffline` succeeds on the Store), and `MetaNoRollback` (a step never replaces a stored role by a lower version). Replays, failed fetches and crashes are all enabled. About 900k states. |
| nocrash | `MC_ImageRepository_nocrash.cfg` | pass | `StoredUnderLatestRoot`: without power loss, the stored roles are signed under the latest stored Root, except inside the store-then-clear step. The first Root is taken on trust whatever version it declares (`HonestFirstRoot = FALSE`). |
| crash | `MC_ImageRepository_crash.cfg` | violation | The same property fails with power loss between `storeRoot` and `clearNonRootMeta`. |
| forge | `MC_ImageRepository_forge.cfg` | violation | `MetaNoRollback` fails when the Timestamp key is compromised. |
| queue | `MC_CommandQueue.cfg` | pass | See below. |
| queue_reset | `MC_CommandQueue_reset.cfg` | violation | `AbortResetsToInitial` fails: `paused_` survives `abort()`. |

The queue run uses two client threads, three commands of two chunks each, and
every interleaving of `enqueue`, `pause`, `abort(true/false)` and `run`
against the worker. It checks:

- `AbortIsSticky`: once the token is Aborted, no command starts a chunk;
- `AbortCompletes`: every `abort()` returns;
- `QueuedTaskRuns`: a queued command leaves the queue unless the queue is
  paused or has no worker.

HttpClient runs use `RetryTimes = 2`, `MaxSize = 2`, `RespLimit = 3`,
`MaxBody = 4`: bodies longer than each limit, two retries, and a chunked body
that reaches the limit in two writes all happen.

| Run | Config | Expect | Checks and shows |
|---|---|---|---|
| http | `MC_HttpClient.cfg` | pass | `TypeOK`; `OkResponseIsLastBody` (a response without a curl error holds the whole body of the last transfer, within a positive limit); `RetriesExact` (at most `RETRY_TIMES + 1` transfers, and a failure is returned only after all). About 140k states. |
| keys | `MC_KeyManager.cfg` | pass | `TypeOK`, `UptaneKeyStable`: once a key is handed out, later `generateUptaneKeyPair` calls, `UptanePublicKey` and every signature use it, across restarts, for both sources. Two keys, two credentials, all configurations. |
| secondary | `MC_SecondaryUpdate.cfg` | pass | `InstallUnderCurrentRoots`: without power loss between `storeRoot` and `clearNonRootMeta`, an install reports ok only with the Secondary holding the Primary's Roots and its whole bundle, whatever faults fire. `MaxRoot = 3`: two rotations per repository. |
| secondary_types | `MC_SecondaryUpdate_types.cfg` | pass | `TypeOK`, with power loss possible: putRoot pushes no version past the Primary's latest. |
| secondary_stale | `MC_SecondaryUpdate_stale.cfg` | violation | `InstallUnderCurrentRoots` fails with power loss: the Primary keeps roles under the old Root, the putRoot fault answers kOk, and the Secondary installs under the old Root. |
| pool | `MC_RequestPool.cfg` | pass | `TypeOK`. `InFlightBounded`: the transfers in the multi handle, running or completed and unread, never exceed the concurrency bound. `ExitAccountsAll`: when the driver's loop ends, no transfer is left, and unless the pool was aborted every object was settled: found, uploaded, or its request failed (`LoopListen` retries nothing). None is left new, queued or launched without an answer. `PoolTerminates`: the loop ends. About 11.5k states. |

The pool run uses three objects and `MaxConcurrency = 2`, with every
combination of `fsckOnUpload` and dry run. Two requests can then be in
flight while a third object waits in a queue. The controller can lower the
bound from 2 to 1 under running transfers. A query can queue an upload
behind another query. The run sets `CHECK_DEADLOCK FALSE` because
garage-push really stops: once the driver exits, nothing is enabled.

Two clients are needed for a `pause` racing an `abort`. Two chunks give a
command a second `canContinue` after it has started.

Fairness (queue run only) is weak fairness on:

- the worker's three steps, because the worker is an OS thread scheduled
  whenever it is runnable;
- the join, the flush and the restarting `run()` of a client already inside
  `abort()`, because a thread in a call finishes the call.

Clients are never obliged to call anything.

The pool run assumes weak fairness on:

- every step of the pool's thread, because `Loop()` runs on one thread that
  is never blocked;
- `TransferCompletes`, because curl finishes or times out every transfer it
  runs.

Every property of a passing run has a mutant in `PROJECT.json`: a plausible
bug in the mapped code under which TLC finds the property violated. Examples:

- `loopVer <= MaxRotations` for `<`;
- a version check that accepts any higher Root;
- dropped rollback check;
- keeping a stored Snapshot that is only signed, not hash-checked;
- omitting `clearNonRootMeta`;
- a `setPause` that overrides Aborted;
- a `canContinue` that blocks while Aborted;
- a flush that does not clear `shutdown_`.

## 4. Findings

1. **Stale rollback bound** (`imagerepository.cc:283`, and 319-321 for Targets).
   - The rollback bound for a new Snapshot is `snapshot.version()` of the
     in-memory object.
   - When the stored Snapshot fails its hash check, that object still holds
     `resetMeta`'s value, version -1, so any version passes.
   - With a compromised Timestamp key an older Snapshot is stored. TLC finds
     this in the `forge` run.
2. **`kMaxRotations` bounds a version** (`uptanerepository.cc:69`).
   - The loop is `version < kMaxRotations`: it caps the version number, not
     the rotations of one call (spec 4.4 step 5). Read from the code; the
     model keeps the code's bound and no run checks the spec's.
3. **Rotation and clearing are not atomic** (`uptanerepository.cc:82-83`).
   - `storeRoot` and `clearNonRootMeta` are two Store writes.
   - A power loss between them leaves roles signed under the superseded key
     (`crash`).
   - The Secondary update inherits it (`secondary_stale`). The Primary's
     bundle then carries roles under the old Root. The putRoot fault
     (finding 8) can leave the Secondary on that old Root too. The Secondary
     then verifies the stale roles, and the install reports ok.
4. **The first Root's version is not checked** (`uptanerepository.cc:60-63`).
   - A `1.root.json` declaring another version is stored as version 1, and
     later Roots are numbered from its declared version. Read from the
     code. The `nocrash` run takes such a first Root and shows every stored
     role still signed under the latest Root. `RootChainValid` assumes an
     honest first Root.
5. **`abort()` keeps `paused_`** (`apiqueue.cc:103-107`).
   - The comment says the flush resets the queue to its initial state, but
     `paused_` stays as it was.
   - After `pause(true); abort(true)` the token is Running while the new
     worker takes no command until `pause(false)`.

6. **`perform` retries POST and PUT** (`httpclient.cc:258`).
   - A transport error or 5xx is retried whatever the method. This is
     intended: `uptane_network_test.cc` expects the registration POST to be
     sent again after the server drops its answer. No property states
     at-most-once delivery, since neither the spec nor the code promises it.
7. **A size-limit excess is retried** (`httpclient.cc:253`).
   - `writeString`'s refusal and `MAXFILESIZE` are curl errors, retried
     `RETRY_TIMES` times; spec 7 lists the excess as its own error. Read
     from the code; the model keeps this behaviour and no run checks it.
8. **The putRoot fault reports success** (`virtualsecondary.cc:86`).
   - The fault returns `ResultCode::kOk` while every sibling fault returns a
     failure code. The Primary sees an ack and goes on.
   - Normally the Secondary's own metadata check stops the install. After a
     power loss in the Primary's rotation it does not (`secondary_stale`).

## 5. Proofs

`ImageRepositoryProofs.tla` proves two theorems for every value of the
constants allowed by `ConstAssumption` and `NoneAssumption`.

**`TypeCorrect`: `Spec => []TypeOK`.**

- `TypeOK` is not inductive on its own.
- `LatestRoot` picks the maximum of the Root table with `CHOOSE`, so its type
  needs a maximum to exist.
- The Timestamp a server releases needs the server's chain to be non-empty,
  and its Snapshot version to match.
- The inductive invariant is
  `TypeInv == TypeOK /\ server.roots # <<>> /\ server.snap.ver = server.ts.ver /\ HasTop`,
  where `HasTop` says that a non-empty Root table has a top index.
- Lemmas cover `StoreRoot` (keeps the table typed and keeps a top),
  `LatestRoot` and the fetch operators.
- `NextTypeInv` has one step per action.

**`RootChain`: `HonestFirstRoot => (Spec => []RootChainValid)`.**

The strengthening `ChainInv` adds to `TypeInv`:

- the server's own chain is numbered 1, 2, …;
- inside the rotation loop (`pc = "root"`), `loopVer - 1` is the top of the
  table and `mRoot` is the Root stored there;
- between store and clear (`pc = "clear"`), `loopVer` is the top.

This is why a Root accepted by `RootRotate` (version `mRoot.ver + 1`, signed
by `mRoot.key`) extends the chain at exactly the next free index.

`ChainInv` was checked with TLC on the `update` instance before it was
proved.

`ImageStoreProofs.tla` proves three more theorems about `ImageRepository`
for every value of the constants. Each rests on an invariant stacked on
the one before; each invariant was first checked with TLC as an invariant
of the `update` instance and again with `HonestFirstRoot` FALSE (and, for
`StoreInv`, with forged Timestamps and crashes).

- `RootInv` adds to `TypeInv`: a row's stored version is at least its
  index; during an update `mRoot` is `LatestRoot`; `loopVer` is
  `mRoot.ver + 1` inside the rotation loop and `mRoot.ver` at `"clear"`.
  It needs no honest first Root: it is what makes every later file checked
  against the Root the reader later takes as the latest.

**`UpdateLeavesVerifiableStoreThm`: `Spec => []UpdateLeavesVerifiableStore`**,
with no assumption beyond the constants' types. `StoreInv` says where
`updateMeta` is in the chain: at `"snapshot"` the stored Timestamp is the
one just verified; at `"targets"` the stored Snapshot also is; and while no
Timestamp is fetched yet, `SameVersionIsStored(prevTs)`. The last fact is
the subtle one: `updateMeta` skips storing a fetched Timestamp whose
version equals `prev_timestamp`'s, so the proof needs that a Timestamp of
the stored version is the stored one. That holds even with forged
Timestamps, since the skip only happens at the stored version and
`prev_timestamp` is read from the Store.

**`StoredUnderLatestRootThm`: `~CrashPossible => (Spec => []StoredUnderLatestRoot)`.**
`ClearInv` adds that an empty Root table comes with an empty Store.
Between `storeRoot` and `clearNonRootMeta` the stored roles are signed by
the previous Root; the invariant excludes only the `"clear"` step. A power
loss there leaves them behind a newer Root, which the `crash` run shows;
hence the assumption.

**`MetaNoRollbackThm`: `~ForgeTimestamp => (Spec => MetaNoRollback)`.**
`fetchSnapshot` and `fetchTargets` only compare a new file's version with
the Timestamp and Snapshot just stored, not with the stored file of the same
role. `OrderInv` adds to `StoreInv` what makes that enough:
- `PublishedOrdered`: every Timestamp the server released declares the
  Snapshot of its own version; a Snapshot of a higher version never
  declares a lower Targets version;
- `StoredOrdered`: the stored files are released ones, and each stored
  Snapshot or Targets is at most the version its stored parent declares.
With a forged Timestamp the first fact fails, and the `forge` run shows the
rollback that follows.

`NoneAssumption` was widened to say that `None` is no metadata file of any
role (it named only Roots before). The proofs need it to tell a stored file
from a missing one; TLC checks it on every run of `ImageRepository`.

**`HttpClientProofs`: `RetriesExactThm`, `OkResponseIsLastBodyThm` and
`HttpTypeOKThm`.**

For every `RetryTimes`, limit and body length (`HttpAssumption`). The
invariant `HInv` adds to `TypeOK`: each attempt uses one retry
(`attempts + retries = RetryTimes + 1`); `out + left = sent` while the body
arrives and `out = sent` after a transfer without error; `out` never passes a
positive limit; a new attempt starts with `out = 0`; a failure is returned
only with `retries = 0`; and `resp` is built from the last attempt. The
`Retry` case needs the fresh sink, the `WriteString` case the refusal check.

**`KeyManagerProofs`: `UptaneKeyStableThm` and `KeyTypeOKThm`.**

For every set of keys (`KeyAssumption`). `KInv` says that before a key is
issued neither the Store nor the token holds one and no signature was made,
and after, the signing key and `UptanePublicKey` are the issued key. The
proof splits `generateUptaneKeyPair` into its reuse, fresh and failing
branches for both sources.

**`HttpClientProofs`: `HttpCallRefinedThm`: `Spec => HttpCallRefined`.**

The proof rests on `HInv`:

- An initial state maps to an initial state of `HttpCall`.
- `Call` maps to `Start`, `Retry` to `Again` and `PerformReturns` to
  `Return`.
- Every other step leaves the mapped variables unchanged.
- `Return`'s conditions come from `HInv`: a failure is returned only with
  no retry left, and the body is within a positive limit.

**`RequestPoolProofs`: `InFlightBoundedThm` and `PoolTypeOKThm`.**

These hold for every finite set of objects and every positive
`MaxConcurrency` (`PoolAssumption`). `InFlightBounded` is not inductive. The
invariant `PInv` adds to `TypeOK` three facts:

- `wire`, `landed` and `msgs` are finite;
- `|wire| + |landed| <= running`: `running_requests_` counts at least every
  transfer curl runs or has completed since the last `curl_multi_perform`;
- outside the message loop `msgs` is empty, and inside it
  `running + |msgs| <= MaxConcurrency`.

`LaunchOne` keeps these facts because it adds a transfer only with
`running < conc <= MaxConcurrency`. `Perform` keeps them because it sets
`running` to `|wire|` and moves `landed` into `msgs`. Lowering `conc` does
not matter, since the bound is the constant. The lemmas on cardinality
(`CardUnionLe`, `CardAddLe`, `CardRemove`) come from `FiniteSetTheorems`.
`PInv` was checked by TLC on the `pool` instance first.

**`RequestPoolProofs`: `ExitAccountsAllThm`.**

`ExitAccountsAll` is not inductive: at the exit it speaks of every object,
but a step in the middle of the loop only sees the queues and transfers.
The invariant `AInv` adds to `PInv`:

- `AddedAll`: once the driver has left its adding phase, no object is still
  `new`;
- `ExitIdle`: at the exit both queues are empty and `running = 0`, which is
  the condition `is_idle()` tests;
- `NoneLost`: unless the pool was aborted, no object is corrupt, and every
  launched object is `Accounted`: it sits in the query queue or the upload
  queue (`Queued`), or one of its transfers is in `wire`, `landed` or `msgs`
  (`InFlight`).

With `PInv` (`|wire| + |landed| <= running`) and `ExitIdle`, no transfer
is left at the exit; with `NoneLost`, no launched object is left either.
An object whose request failed counts as settled: `LoopListen` hands the
failure to the rate controller and never retries it.
The hard step is `DrainOne`: a completed query either queues an upload or
finishes the object, and the proof splits on `AddUpload`. `AInv` was
checked by TLC on the `pool` instance first.

**`CommandQueueProofs`: `AbortIsStickyThm`.**

It holds for every set of client threads and every task bound
(`QueueAssumption`). The invariant `QInv` adds to `TypeOK` three facts:

- a client is joining or flushing exactly when it holds `thread_m_`;
- a joining client has set the token to aborted;
- while the worker checks or runs a chunk, the task has chunks left.

A new chunk can start only from `WorkerCheck`, whose `canContinue()` is
false once the token is aborted. `pause()` from another thread cannot
reset the token: `setPause` leaves an aborted token alone. `QInv` was
checked by TLC on the `queue` instance first.

**`SecondaryUpdateProofs`: `SecondaryTypeOKThm` and
`InstallUnderCurrentRootsThm`.**

For every Root bound (`SecondaryAssumption`). `TypeOK` is inductive by
itself, with or without power loss.

`InstallUnderCurrentRootsThm` is
`~CrashPossible => (Spec => InstallUnderCurrentRoots)`. The invariant
`SInv` adds to `TypeOK`:

- each role the Primary holds is absent or signed under the Primary's
  current Root of its repository; between `storeRoot` and
  `clearNonRootMeta` (`clearing`), under the Root just below it;
- that window lies between cycles;
- from firmware to install, the Secondary's Roots and metadata equal the
  Primary's, and the bundle is complete.

`PutMetadata` keeps the last fact because the Secondary verifies the Targets
role of each repository under its own Root. Under `SInv`, outside the
window, that role is signed only under the Primary's Root, so
`sRoot = pRoot` follows. A power loss is the one step that breaks `SInv`.
It ends the window with the old roles kept, which is why the theorem assumes
`~CrashPossible`. The `secondary_stale` run shows the assumption is
necessary. `SInv` was checked by TLC on the `secondary` instance first.

**What stays with TLC.**

- The liveness properties of `CommandQueue` (`AbortCompletes`,
  `QueuedTaskRuns`) and `PoolTerminates`: TLAPS does not handle fairness or
  ENABLED.
- Every violation run.
- `ImageRepository`'s properties on instances where the theorems'
  assumptions fail: `StoredUnderLatestRoot` with crashes (the `crash` run
  refutes it) and `MetaNoRollback` with forged Timestamps (the `forge` run
  refutes it); likewise `InstallUnderCurrentRoots` with power loss
  (`secondary_stale`).

## 6. What the bounds do not cover

- Versions are capped at 3. Longer histories repeat the same patterns:
  rollback is a comparison of two versions.
- Expiry is a nondeterministic outcome of each check, not a clock.
- Delegated Targets are not modelled.

## 7. Not modelled

- **Director repository.** Its code (`directorrepository.cc`) is not in this
  repository.
- **SotaUptaneClient.** Only its header is here.
- **RequestPool**, in part. These are not in this repository:
  - its header;
  - `OSTreeObject` (its `CurlDone`, `MakeTestRequest`, `Upload` and fsck);
  - the `RateController`;
  - garage-push's driver.

  The model takes from them only what `request_pool.cc` shows. A query
  finds the object or queues its upload. The controller picks a concurrency
  and may abort. The driver adds the objects and loops until `is_idle()`.
  Object dependencies (a commit uploaded after its children) are not
  modelled.
- **HttpClient** beyond `perform` and `writeString`: headers, TLS setup,
  `download` with its callbacks.
- **KeyManager** certificate parsing (`getCN`, `getBC`, `getCertInfo`) and
  the read-only `get*File` paths. The temporary TLS files are modelled, but
  no property says when they must equal the Store (see the hazard at
  `keymanager.cc:46`).
- **The IP Secondary wire protocol and ManagedSecondary.** Not in this
  repository; the managed Secondary's checks are taken from spec 4.7.
- **Crypto, the storage back-end, CLI tools.** File I/O, cryptography and
  formatting, with no protocol state.
