--------------------------- MODULE ImageRepository ---------------------------
(***************************************************************************)
(* The Image repository engine of the Primary: ImageRepository::updateMeta *)
(* with the Root rotation it shares with the Director repository          *)
(* (RepositoryCommon::updateRoot), and ImageRepository::checkMetaOffline.  *)
(*                                                                         *)
(* A metadata file is a record.  Its canonical hash is the record itself  *)
(* (two files have the same hash iff they are equal), its signature is    *)
(* the key that signed it, and a Root names the one key it trusts for     *)
(* every role.  The server publishes honest releases; the network may     *)
(* replay anything the server ever published, serve a published Root      *)
(* under the wrong file name, forge unsigned Roots, fail a fetch, and,    *)
(* when ForgeTimestamp holds, sign Timestamps with the stolen Timestamp   *)
(* key.  The update runs as a sequence of steps, one per block of         *)
(* updateMeta that ends in a fetch, so that a crash (power loss) can fall *)
(* between two writes to the Store.                                       *)
(***************************************************************************)
EXTENDS Naturals, Integers, Sequences, FiniteSets

CONSTANTS
    Keys,            \* signing keys a Root may declare
    MaxVersion,      \* highest version of a non-root role the server publishes
    MaxRoot,         \* highest Root version the server publishes
    MaxRotations,    \* RepositoryCommon::kMaxRotations
    None,            \* a role missing from the Store or from memory
    NoHash,          \* a referencing role that declares no hash
    ForgeTimestamp,  \* the Timestamp key is compromised
    HonestFirstRoot, \* 1.root.json, fetched on first contact, is the real one
    CrashPossible    \* the device may lose power between two steps

ASSUME ConstAssumption ==
    /\ Keys # {} /\ IsFiniteSet(Keys)
    /\ MaxVersion \in Nat \ {0}
    /\ MaxRoot \in Nat \ {0}
    /\ MaxRotations \in Nat \ {0, 1}
    /\ ForgeTimestamp \in BOOLEAN
    /\ HonestFirstRoot \in BOOLEAN
    /\ CrashPossible \in BOOLEAN

Versions == 1 .. MaxVersion

(* Root: its version, the key it declares, the keys that signed it.        *)
RootDoc == [ver : 1 .. MaxRoot, key : Keys, signers : SUBSET Keys]
TargetsDoc == [ver : Versions, key : Keys]
(* Snapshot refers to Targets by version and, optionally, by hash.         *)
SnapshotDoc == [ver : Versions, key : Keys, tver : Versions,
                thash : TargetsDoc \cup {NoHash}]
(* Timestamp refers to Snapshot by version and hash.                       *)
TimestampDoc == [ver : Versions, key : Keys, sver : Versions,
                 shash : SnapshotDoc \cup {NoHash}]
(* A missing row or role of the Store is not a metadata file.            *)
ASSUME NoneAssumption ==
    None \notin RootDoc \cup TargetsDoc \cup SnapshotDoc \cup TimestampDoc

Roles == {"timestamp", "snapshot", "targets"}
(* The versions updateRoot can store a Root under: 1, and every value of  *)
(* its loop variable below kMaxRotations.                                 *)
RootSlots == 1 .. MaxRotations - 1

(* extractVersionUntrusted, and the version of an empty BaseMeta (-1).     *)
Ver(d) == IF d = None THEN -1 ELSE d.ver

VARIABLES
    server,      \* what the server publishes now: roots, ts, snap, tgt
    published,   \* every non-root file the server ever published, per role
    storedRoots, \* Store: the Root table, stored version -> Root
    storedMeta,  \* Store: latest non-root file per role
    mRoot,       \* RepositoryCommon::root
    mTs,         \* ImageRepository::timestamp
    mSnap,       \* ImageRepository::snapshot
    mTgt,        \* ImageRepository::targets
    prevTs,      \* updateMeta's prev_timestamp (and its stored signature)
    loopVer,     \* updateRoot's loop variable `version`
    startVer,    \* rootVersion() when the loop of this call started
    snapUpdated, \* updateMeta's snapshot_updated
    pc,          \* the step of updateMeta about to run, or "idle"
    result,      \* outcome of the last updateMeta: "none", "ok", "error"
    offline      \* outcome of the last checkMetaOffline

serverVars == <<server, published>>
storeVars == <<storedRoots, storedMeta>>
memVars == <<mRoot, mTs, mSnap, mTgt>>
callVars == <<prevTs, loopVer, startVer, snapUpdated, pc, result, offline>>
vars == <<serverVars, storeVars, memVars, callVars>>

-----------------------------------------------------------------------------
(* The Store (INvStorage).                                                 *)

StoredIdx == DOMAIN storedRoots

(* storeRoot(raw, repo, version): insert or replace the row.               *)
StoreRoot(v, d) ==
    [i \in StoredIdx \cup {v} |-> IF i = v THEN d ELSE storedRoots[i]]

(* loadLatestRoot: the Root stored under the highest version.              *)
LatestRoot ==
    IF StoredIdx = {} THEN None
    ELSE storedRoots[CHOOSE i \in StoredIdx : \A j \in StoredIdx : j <= i]

NoMeta == [r \in Roles |-> None]

-----------------------------------------------------------------------------
(* The server and the network.                                             *)

CurKey == server.roots[Len(server.roots)].key

(* Files the network may deliver for <version>.root.json.                  *)
FetchRoot(n) ==
    LET honest == IF n <= Len(server.roots) THEN {server.roots[n]} ELSE {}
        misnamed == {server.roots[i] : i \in DOMAIN server.roots}
        forged == {[ver |-> n, key |-> k, signers |-> {k}] : k \in Keys}
    IN  IF n = 1 /\ HonestFirstRoot THEN honest
        ELSE honest \cup misnamed \cup (forged \cap RootDoc)

FetchTimestamp ==
    published.ts \cup
      (IF ForgeTimestamp
       THEN [ver : Versions, key : {CurKey}, sver : Versions,
             shash : published.snap \cup {NoHash}]
       ELSE {})

-----------------------------------------------------------------------------
(* Signature and hash checks of the metadata model.                        *)

(* Root(type, json, root): threshold of the old Root's keys and of its own. *)
RootSigned(d, old) == old.key \in d.signers /\ d.key \in d.signers
(* verifyRoot: the new Root's version must be the old one's plus one.     *)
RootVersionAnyHigher(d) == d.ver > mRoot.ver
RootVersionOk(d) == d.ver = mRoot.ver + 1
(* A non-root role checked against MetaWithKeys(root).                     *)
SignedBy(d, root) == d.key = root.key

(* verifySnapshot: the hash step and the signature step throw before the   *)
(* Snapshot is assigned, the version step after.                           *)
SnapHashOk(d, ts) == ts.shash # NoHash /\ ts.shash = d
SnapAssigned(d, ts, root, cur) ==
    IF SnapHashOk(d, ts) /\ SignedBy(d, root) THEN d ELSE cur
SnapVerifies(d, ts, root) ==
    SnapHashOk(d, ts) /\ SignedBy(d, root) /\ d.ver = ts.sver

(* verifyTargets: verifyRoleHashes checks only the hashes Snapshot declares.*)
TgtHashOk(d, snap) == snap.thash = NoHash \/ snap.thash = d
TgtAssigned(d, snap, root, cur) ==
    IF TgtHashOk(d, snap) /\ SignedBy(d, root) THEN d ELSE cur
TgtVerifies(d, snap, root) ==
    TgtHashOk(d, snap) /\ SignedBy(d, root) /\ d.ver = snap.tver

(* The "Rollback attempt" check: the stored version exceeds the remote one.*)
RollbackNever(local, remote) == FALSE
Rollback(local, remote) == local > remote

-----------------------------------------------------------------------------
(* The server publishes a new Root signed by the old and the new key.      *)
ServerRotate ==
    /\ Len(server.roots) < MaxRoot
    /\ \E k \in Keys :
         server' = [server EXCEPT !.roots = Append(@,
                      [ver |-> Len(server.roots) + 1, key |-> k,
                       signers |-> {CurKey, k}])]
    /\ UNCHANGED <<published, storeVars, memVars, callVars>>

(* The server publishes a release: new Timestamp and Snapshot, new or      *)
(* re-signed Targets, all under the current key.                           *)
ServerRelease ==
    /\ server.ts.ver < MaxVersion
    /\ \E newTargets \in BOOLEAN, withHash \in BOOLEAN :
         LET tgt == [ver |-> IF newTargets \/ server.tgt.key # CurKey
                             THEN server.tgt.ver + 1 ELSE server.tgt.ver,
                     key |-> CurKey]
             snap == [ver |-> server.snap.ver + 1, key |-> CurKey,
                      tver |-> tgt.ver, thash |-> IF withHash THEN tgt ELSE NoHash]
             ts == [ver |-> server.ts.ver + 1, key |-> CurKey,
                    sver |-> snap.ver, shash |-> snap]
         IN  /\ tgt.ver <= MaxVersion
             /\ server' = [server EXCEPT !.ts = ts, !.snap = snap, !.tgt = tgt]
             /\ published' = [ts |-> published.ts \cup {ts},
                              snap |-> published.snap \cup {snap},
                              tgt |-> published.tgt \cup {tgt}]
    /\ UNCHANGED <<storeVars, memVars, callVars>>

-----------------------------------------------------------------------------
(* updateMeta, up to the end of updateRoot's loading of the latest Root:   *)
(* remember the in-memory Timestamp, resetMeta, then load the latest Root  *)
(* from the Store, or fetch version 1, check it against itself and store   *)
(* it.                                                                     *)
StartUpdate ==
    /\ pc = "idle"
    /\ prevTs' = mTs
    /\ snapUpdated' = FALSE
    /\ mTs' = None /\ mSnap' = None /\ mTgt' = None
    /\ \/ /\ LatestRoot # None
          /\ mRoot' = LatestRoot
          /\ loopVer' = LatestRoot.ver + 1
          /\ startVer' = LatestRoot.ver + 1
          /\ pc' = "root" /\ result' = result
          /\ UNCHANGED storedRoots
       \/ /\ LatestRoot = None
          /\ \E d \in FetchRoot(1) :
               IF d.key \in d.signers
               THEN /\ mRoot' = d
                    /\ storedRoots' = StoreRoot(1, d)
                    /\ loopVer' = d.ver + 1
                    /\ startVer' = d.ver + 1
                    /\ pc' = "root" /\ result' = result
               ELSE /\ mRoot' = None
                    /\ pc' = "idle" /\ result' = "error"
                    /\ UNCHANGED <<storedRoots, loopVer, startVer>>
       \/ /\ LatestRoot = None    \* fetching 1.root.json fails
          /\ mRoot' = None
          /\ pc' = "idle" /\ result' = "error"
          /\ UNCHANGED <<storedRoots, loopVer, startVer>>
    /\ UNCHANGED <<serverVars, storedMeta, offline>>

(* The condition of updateRoot's loop: version < kMaxRotations.          *)
LoopContinuesOffByOne == loopVer <= MaxRotations
LoopContinues == loopVer < MaxRotations

(* The loop ends: the bound is reached or the fetch of version N+1 failed. *)
(* Then the latest Root must not be expired (the clock is not modelled:    *)
(* either outcome is possible).                                            *)
RootLoopEnd ==
    /\ pc = "root"
    /\ \/ pc' = "timestamp" /\ result' = result
       \/ pc' = "idle" /\ result' = "error"
    /\ UNCHANGED <<serverVars, storeVars, memVars, prevTs, loopVer, startVer,
                   snapUpdated, offline>>

RootBound == pc = "root" /\ ~LoopContinues /\ RootLoopEnd
RootFetchFails == pc = "root" /\ LoopContinues /\ RootLoopEnd

(* One turn of the loop: fetch version N+1 and verifyRoot it.  A Root that *)
(* is signed but has the wrong version is already assigned when the check  *)
(* throws.  On success it is stored; clearing the other roles is the next  *)
(* step.                                                                   *)
RootRotate ==
    /\ pc = "root"
    /\ LoopContinues
    /\ \E d \in FetchRoot(loopVer) :
         \/ /\ ~RootSigned(d, mRoot)
            /\ pc' = "idle" /\ result' = "error"
            /\ UNCHANGED <<mRoot, storedRoots>>
         \/ /\ RootSigned(d, mRoot)
            /\ mRoot' = d
            /\ IF ~RootVersionOk(d)
               THEN pc' = "idle" /\ result' = "error" /\ UNCHANGED storedRoots
               ELSE /\ storedRoots' = StoreRoot(loopVer, d)
                    /\ pc' = "clear" /\ result' = result
    /\ UNCHANGED <<serverVars, storedMeta, mTs, mSnap, mTgt, prevTs, loopVer,
                   startVer, snapUpdated, offline>>

RootClearKeep ==
    /\ pc = "clear"
    /\ storedMeta' = storedMeta
    /\ loopVer' = loopVer + 1
    /\ pc' = "root"
    /\ UNCHANGED <<serverVars, storedRoots, memVars, prevTs, startVer,
                   snapUpdated, result, offline>>

(* storage.clearNonRootMeta, then the loop's ++version.                    *)
RootClear ==
    /\ pc = "clear"
    /\ storedMeta' = NoMeta
    /\ loopVer' = loopVer + 1
    /\ pc' = "root"
    /\ UNCHANGED <<serverVars, storedRoots, memVars, prevTs, startVer,
                   snapUpdated, result, offline>>

(* After a check*Expired: the clock is not modelled, so the role may have   *)
(* expired (the update fails) or not (the next step runs; after Targets,  *)
(* updateMeta returns normally).                                          *)
ExpiryCheck(next) ==
    \/ next # "done" /\ pc' = next /\ result' = result
    \/ next = "done" /\ pc' = "idle" /\ result' = "ok"
    \/ pc' = "idle" /\ result' = "error"

(* Timestamp: fetch, read the untrusted versions, verifyTimestamp, refuse  *)
(* a rollback, store when the version grew or the content (signature)     *)
(* differs from the Timestamp held before the update, check expiry.       *)
UpdateTimestamp ==
    /\ pc = "timestamp"
    /\ \/ /\ pc' = "idle" /\ result' = "error"      \* the fetch fails
          /\ UNCHANGED <<mTs, storedMeta>>
       \/ \E d \in FetchTimestamp :
            LET local == Ver(storedMeta.timestamp)
            IN  \/ /\ ~SignedBy(d, mRoot)
                   /\ pc' = "idle" /\ result' = "error"
                   /\ UNCHANGED <<mTs, storedMeta>>
                \/ /\ SignedBy(d, mRoot)
                   /\ mTs' = d
                   /\ IF Rollback(local, d.ver)
                      THEN pc' = "idle" /\ result' = "error" /\ UNCHANGED storedMeta
                      ELSE /\ storedMeta' =
                                IF local < d.ver \/ prevTs # d
                                THEN [storedMeta EXCEPT !.timestamp = d]
                                ELSE storedMeta
                           /\ ExpiryCheck("snapshot")
    /\ UNCHANGED <<serverVars, storedRoots, mRoot, mSnap, mTgt, prevTs, loopVer,
                   startVer, snapUpdated, offline>>

(* The stored Snapshot is still the one Timestamp names.                  *)
KeepStoredSnapshotUnchecked(stored) == stored # None /\ SignedBy(stored, mRoot)
KeepStoredSnapshot(stored) == stored # None /\ SnapVerifies(stored, mTs, mRoot)

(* Snapshot: keep the stored copy if it still verifies against Timestamp;  *)
(* otherwise its version (as far as verifySnapshot got to assign it) is   *)
(* the rollback bound for fetchSnapshot.                                  *)
UpdateSnapshot ==
    /\ pc = "snapshot"
    /\ LET stored == storedMeta.snapshot
           held == IF stored = None THEN mSnap
                   ELSE SnapAssigned(stored, mTs, mRoot, mSnap)
       IN  \/ /\ KeepStoredSnapshot(stored)
              /\ mSnap' = stored
              /\ UNCHANGED <<storedMeta, snapUpdated>>
              /\ ExpiryCheck("targets")
           \/ /\ ~KeepStoredSnapshot(stored)
              /\ \/ /\ mSnap' = held                     \* the fetch fails
                    /\ pc' = "idle" /\ result' = "error"
                    /\ UNCHANGED <<storedMeta, snapUpdated>>
                 \/ \E d \in published.snap :
                      /\ mSnap' = SnapAssigned(d, mTs, mRoot, held)
                      /\ IF ~SnapVerifies(d, mTs, mRoot) \/ Rollback(Ver(held), d.ver)
                         THEN /\ pc' = "idle" /\ result' = "error"
                              /\ UNCHANGED <<storedMeta, snapUpdated>>
                         ELSE /\ storedMeta' = [storedMeta EXCEPT !.snapshot = d]
                              /\ snapUpdated' = TRUE
                              /\ ExpiryCheck("targets")
    /\ UNCHANGED <<serverVars, storedRoots, mRoot, mTs, mTgt, prevTs, loopVer,
                   startVer, offline>>

(* Targets: the same pattern against Snapshot; the update then succeeds.  *)
UpdateTargets ==
    /\ pc = "targets"
    /\ LET stored == storedMeta.targets
           held == IF stored = None THEN mTgt
                   ELSE TgtAssigned(stored, mSnap, mRoot, mTgt)
       IN  \/ /\ stored # None
              /\ TgtVerifies(stored, mSnap, mRoot)
              /\ mTgt' = stored
              /\ UNCHANGED storedMeta
              /\ ExpiryCheck("done")
           \/ /\ ~(stored # None /\ TgtVerifies(stored, mSnap, mRoot))
              /\ \/ /\ mTgt' = held                      \* the fetch fails
                    /\ pc' = "idle" /\ result' = "error"
                    /\ UNCHANGED storedMeta
                 \/ \E d \in published.tgt :
                      /\ mTgt' = TgtAssigned(d, mSnap, mRoot, held)
                      /\ IF ~TgtVerifies(d, mSnap, mRoot) \/ Rollback(Ver(held), d.ver)
                         THEN /\ pc' = "idle" /\ result' = "error"
                              /\ UNCHANGED storedMeta
                         ELSE /\ storedMeta' = [storedMeta EXCEPT !.targets = d]
                              /\ ExpiryCheck("done")
    /\ UNCHANGED <<serverVars, storedRoots, mRoot, mTs, mSnap, prevTs, loopVer,
                   startVer, snapUpdated, offline>>

(* checkMetaOffline: resetMeta, then verify Root, Timestamp, Snapshot and  *)
(* Targets from the Store alone, stopping at the first failure.  The      *)
(* first expiry check that fails, if any, is `expiredAt`.                 *)
CheckMetaOffline ==
    /\ pc = "idle"
    /\ \E expiredAt \in 1 .. 5 :
         LET r == LatestRoot
             t == storedMeta.timestamp
             s == storedMeta.snapshot
             g == storedMeta.targets
             atTs == r # None /\ expiredAt > 1
             tsOk == atTs /\ t # None /\ SignedBy(t, r)
             atSnap == tsOk /\ expiredAt > 2
             snapOk == atSnap /\ s # None /\ SnapVerifies(s, t, r)
             atTgt == snapOk /\ expiredAt > 3
             tgtOk == atTgt /\ g # None /\ TgtVerifies(g, s, r)
         IN  /\ mRoot' = r
             /\ mTs' = IF tsOk THEN t ELSE None
             /\ mSnap' = IF atSnap /\ s # None
                         THEN SnapAssigned(s, t, r, None) ELSE None
             /\ mTgt' = IF atTgt /\ g # None
                        THEN TgtAssigned(g, s, r, None) ELSE None
             /\ offline' = IF tgtOk /\ expiredAt > 4 THEN "ok" ELSE "error"
    /\ UNCHANGED <<serverVars, storeVars, prevTs, loopVer, startVer,
                   snapUpdated, pc, result>>

(* The device loses power: the Store survives, memory does not.           *)
Crash ==
    /\ CrashPossible
    /\ mRoot' = None /\ mTs' = None /\ mSnap' = None /\ mTgt' = None
    /\ pc' = "idle" /\ result' = "none" /\ offline' = "none"
    /\ UNCHANGED <<serverVars, storeVars, prevTs, loopVer, startVer,
                   snapUpdated>>

-----------------------------------------------------------------------------
Init ==
    /\ \E k \in Keys :
         LET tgt == [ver |-> 1, key |-> k]
             snap == [ver |-> 1, key |-> k, tver |-> 1, thash |-> tgt]
             ts == [ver |-> 1, key |-> k, sver |-> 1, shash |-> snap]
         IN  /\ server = [roots |-> <<[ver |-> 1, key |-> k, signers |-> {k}]>>,
                          ts |-> ts, snap |-> snap, tgt |-> tgt]
             /\ published = [ts |-> {ts}, snap |-> {snap}, tgt |-> {tgt}]
    /\ storedRoots = <<>>
    /\ storedMeta = NoMeta
    /\ mRoot = None /\ mTs = None /\ mSnap = None /\ mTgt = None
    /\ prevTs = None
    /\ loopVer = 1 /\ startVer = 1
    /\ snapUpdated = FALSE
    /\ pc = "idle" /\ result = "none" /\ offline = "none"

Next ==
    \/ ServerRotate \/ ServerRelease
    \/ StartUpdate \/ RootBound \/ RootFetchFails \/ RootRotate \/ RootClear
    \/ UpdateTimestamp \/ UpdateSnapshot \/ UpdateTargets
    \/ CheckMetaOffline \/ Crash

Spec == Init /\ [][Next]_vars

-----------------------------------------------------------------------------
(* Properties.                                                             *)

TypeOK ==
    /\ server \in [roots : Seq(RootDoc), ts : TimestampDoc, snap : SnapshotDoc,
                   tgt : TargetsDoc]
    /\ published \in [ts : SUBSET TimestampDoc, snap : SUBSET SnapshotDoc,
                      tgt : SUBSET TargetsDoc]
    /\ DOMAIN storedRoots \subseteq RootSlots
    /\ \A i \in DOMAIN storedRoots : storedRoots[i] \in RootDoc
    /\ storedMeta \in [timestamp : TimestampDoc \cup {None},
                       snapshot : SnapshotDoc \cup {None},
                       targets : TargetsDoc \cup {None}]
    /\ mRoot \in RootDoc \cup {None} /\ mTs \in TimestampDoc \cup {None}
    /\ mSnap \in SnapshotDoc \cup {None} /\ mTgt \in TargetsDoc \cup {None}
    /\ prevTs \in TimestampDoc \cup {None}
    /\ loopVer \in Nat \ {0} /\ startVer \in Nat /\ snapUpdated \in BOOLEAN
    /\ pc \in {"idle", "root", "clear", "timestamp", "snapshot", "targets"}
    /\ result \in {"none", "ok", "error"} /\ offline \in {"none", "ok", "error"}

(* Spec 8.2 and updateRoot: the Roots in the Store are versions 1..K with  *)
(* no gap, each stored under its own version, and each version N+1 is     *)
(* signed by the key of version N and by its own.                          *)
RootChainValid ==
    \A i \in StoredIdx :
       /\ storedRoots[i].ver = i
       /\ i > 1 => /\ i - 1 \in StoredIdx
                   /\ RootSigned(storedRoots[i], storedRoots[i - 1])

(* Spec 8.3, the "Rollback attempt" checks of updateMeta, fetchSnapshot    *)
(* and fetchTargets: a stored Timestamp, Snapshot or Targets is never      *)
(* replaced by one of a lower version.                                     *)
MetaNoRollback ==
    [][\A r \in Roles :
         storedMeta[r] # None /\ storedMeta'[r] # None
           => storedMeta'[r].ver >= storedMeta[r].ver]_vars

(* What checkMetaOffline accepts (expiry aside): the stored Timestamp,     *)
(* Snapshot and Targets verify as a chain under the latest stored Root.    *)
StoreVerifies ==
    LET r == LatestRoot
        t == storedMeta.timestamp
        s == storedMeta.snapshot
        g == storedMeta.targets
    IN  /\ r # None /\ t # None /\ s # None /\ g # None
        /\ SignedBy(t, r)
        /\ SnapVerifies(s, t, r)
        /\ TgtVerifies(g, s, r)

(* After updateMeta returns normally, the Store on its own passes the     *)
(* offline check that uptaneOfflineIteration runs after a reboot: the     *)
(* roles kept from earlier updates and the ones fetched now agree.        *)
UpdateLeavesVerifiableStore ==
    pc = "idle" /\ result = "ok" => StoreVerifies

(* updateRoot clears the other roles with every new Root: outside the     *)
(* step between storeRoot and clearNonRootMeta, no stored Timestamp,       *)
(* Snapshot or Targets is signed under a superseded key.                   *)
StoredUnderLatestRoot ==
    pc # "clear" =>
    \A r \in Roles :
       storedMeta[r] # None => SignedBy(storedMeta[r], LatestRoot)

=============================================================================
