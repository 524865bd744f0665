------------------------- MODULE ImageRepositoryProofs -------------------------
(***************************************************************************)
(* Proofs about the metadata update of ImageRepository.tla for every      *)
(* value of its constants.                                                *)
(***************************************************************************)
EXTENDS ImageRepository, TLAPS

(* The Root table has a highest version whenever it is non-empty: this is *)
(* what loadLatestRoot's "ORDER BY version DESC LIMIT 1" relies on.        *)
IsTop(i) == i \in StoredIdx /\ \A j \in StoredIdx : j <= i
HasTop == StoredIdx # {} => \E i \in StoredIdx : IsTop(i)

(* The type invariant with what its own proof needs: the server always    *)
(* has a Root, publishes Snapshot and Timestamp in step, and the Root     *)
(* table has a top.                                                        *)
TypeInv ==
    /\ TypeOK
    /\ server.roots # << >>
    /\ server.snap.ver = server.ts.ver
    /\ HasTop

-----------------------------------------------------------------------------
(* loadLatestRoot returns a Root of the table, or none when it is empty.   *)
LEMMA LatestRootType ==
    ASSUME TypeInv
    PROVE  /\ LatestRoot \in RootDoc \cup {None}
           /\ StoredIdx # {} => \A i \in StoredIdx : IsTop(i) => LatestRoot = storedRoots[i]
<1>1. CASE StoredIdx = {}
  BY <1>1 DEF LatestRoot
<1>2. CASE StoredIdx # {}
  <2>1. PICK t \in StoredIdx : IsTop(t)
    BY <1>2 DEF TypeInv, HasTop
  <2>2. \A i \in StoredIdx : IsTop(i) => i = t
    BY <2>1, ConstAssumption DEF IsTop, TypeInv, TypeOK, RootSlots, StoredIdx
  <2>3. (CHOOSE i \in StoredIdx : \A j \in StoredIdx : j <= i) = t
    BY <2>1, <2>2 DEF IsTop
  <2>4. LatestRoot = storedRoots[t]
    BY <1>2, <2>3 DEF LatestRoot
  <2>. QED
    BY <2>1, <2>2, <2>4 DEF TypeInv, TypeOK, StoredIdx
<1>. QED
  BY <1>1, <1>2

(* storeRoot keeps the table typed and keeps it having a top.             *)
LEMMA StoreRootType ==
    ASSUME TypeInv, NEW v \in RootSlots, NEW d \in RootDoc
    PROVE  LET g == StoreRoot(v, d)
           IN  /\ DOMAIN g \subseteq RootSlots
               /\ \A i \in DOMAIN g : g[i] \in RootDoc
               /\ \E i \in DOMAIN g : \A j \in DOMAIN g : j <= i
<1>. DEFINE g == StoreRoot(v, d)
<1>1. DOMAIN g = StoredIdx \cup {v} /\ g[v] = d
  BY DEF StoreRoot
<1>2. \A i \in StoredIdx \ {v} : g[i] = storedRoots[i]
  BY DEF StoreRoot
<1>3. DOMAIN g \subseteq RootSlots /\ \A i \in DOMAIN g : g[i] \in RootDoc
  BY <1>1, <1>2 DEF TypeInv, TypeOK, StoredIdx
<1>4. \E i \in DOMAIN g : \A j \in DOMAIN g : j <= i
  <2>1. CASE StoredIdx = {}
    BY <2>1, <1>1, ConstAssumption DEF RootSlots
  <2>2. CASE StoredIdx # {}
    <3>1. PICK t \in StoredIdx : IsTop(t)
      BY <2>2 DEF TypeInv, HasTop
    <3>2. t \in Nat /\ v \in Nat
      BY <3>1, ConstAssumption DEF TypeInv, TypeOK, StoredIdx, RootSlots
    <3>. QED
      BY <3>1, <3>2, <1>1, ConstAssumption DEF IsTop, TypeInv, TypeOK, StoredIdx, RootSlots
  <2>. QED
    BY <2>1, <2>2
<1>. QED
  BY <1>3, <1>4

(* The network delivers typed files: the current key is one of Keys, a   *)
(* fetched Root is a Root, a fetched Timestamp a Timestamp.               *)
LEMMA FetchTypes ==
    ASSUME TypeInv
    PROVE  /\ CurKey \in Keys
           /\ \A n \in Nat \ {0} : FetchRoot(n) \subseteq RootDoc
           /\ FetchTimestamp \subseteq TimestampDoc
<1>1. server.roots \in Seq(RootDoc) /\ Len(server.roots) \in Nat \ {0}
  BY DEF TypeInv, TypeOK
<1>2. \A i \in 1 .. Len(server.roots) : server.roots[i] \in RootDoc
  BY <1>1
<1>3. CurKey \in Keys
  BY <1>1, <1>2 DEF CurKey, RootDoc
<1>4. \A n \in Nat \ {0} : FetchRoot(n) \subseteq RootDoc
  BY <1>1, <1>2 DEF FetchRoot
<1>5. FetchTimestamp \subseteq TimestampDoc
  BY <1>3 DEF TypeInv, TypeOK, FetchTimestamp, TimestampDoc
<1>. QED
  BY <1>3, <1>4, <1>5

LEMMA InitTypeInv == Init => TypeInv
<1>. SUFFICES ASSUME Init PROVE TypeInv
  OBVIOUS
<1>1. PICK k \in Keys :
        LET tgt == [ver |-> 1, key |-> k]
            snap == [ver |-> 1, key |-> k, tver |-> 1, thash |-> tgt]
            ts == [ver |-> 1, key |-> k, sver |-> 1, shash |-> snap]
        IN  /\ server = [roots |-> <<[ver |-> 1, key |-> k, signers |-> {k}]>>,
                         ts |-> ts, snap |-> snap, tgt |-> tgt]
            /\ published = [ts |-> {ts}, snap |-> {snap}, tgt |-> {tgt}]
  BY DEF Init
<1>2. 1 \in Versions /\ 1 \in 1 .. MaxRoot
  BY ConstAssumption DEF Versions
<1>3. /\ [ver |-> 1, key |-> k] \in TargetsDoc
      /\ [ver |-> 1, key |-> k, tver |-> 1, thash |-> [ver |-> 1, key |-> k]] \in SnapshotDoc
      /\ [ver |-> 1, key |-> k, signers |-> {k}] \in RootDoc
  BY <1>2 DEF TargetsDoc, SnapshotDoc, RootDoc
<1>4. [ver |-> 1, key |-> k, sver |-> 1,
       shash |-> [ver |-> 1, key |-> k, tver |-> 1, thash |-> [ver |-> 1, key |-> k]]]
        \in TimestampDoc
  BY <1>2, <1>3 DEF TimestampDoc
<1>5. /\ server \in [roots : Seq(RootDoc), ts : TimestampDoc, snap : SnapshotDoc,
                     tgt : TargetsDoc]
      /\ server.roots # << >> /\ server.snap.ver = server.ts.ver
  BY <1>1, <1>3, <1>4
<1>6. published \in [ts : SUBSET TimestampDoc, snap : SUBSET SnapshotDoc,
                     tgt : SUBSET TargetsDoc]
  BY <1>1, <1>3, <1>4
<1>7. DOMAIN storedRoots = {}
  BY DEF Init
<1>8. storedMeta = [r \in Roles |-> None] /\ loopVer = 1
  BY DEF Init, NoMeta
<1>10. DOMAIN storedRoots \subseteq RootSlots /\ \A i \in DOMAIN storedRoots : storedRoots[i] \in RootDoc
  BY <1>7
<1>11. HasTop
  BY <1>7 DEF HasTop, StoredIdx
<1>12. /\ mRoot = None /\ mTs = None /\ mSnap = None /\ mTgt = None
       /\ prevTs = None /\ loopVer = 1 /\ startVer = 1
       /\ snapUpdated = FALSE /\ pc = "idle" /\ result = "none" /\ offline = "none"
  BY DEF Init
<1>13. loopVer \in Nat \ {0} /\ startVer \in Nat
  BY <1>12
<1>16. snapUpdated \in BOOLEAN
  BY <1>12
<1>14. /\ pc \in {"idle", "root", "clear", "timestamp", "snapshot", "targets"}
       /\ result \in {"none", "ok", "error"} /\ offline \in {"none", "ok", "error"}
  BY <1>12
<1>15. /\ mRoot \in RootDoc \cup {None} /\ mTs \in TimestampDoc \cup {None}
       /\ mSnap \in SnapshotDoc \cup {None} /\ mTgt \in TargetsDoc \cup {None}
       /\ prevTs \in TimestampDoc \cup {None}
  BY <1>12
<1>17. storedMeta \in [timestamp : TimestampDoc \cup {None},
                       snapshot : SnapshotDoc \cup {None},
                       targets : TargetsDoc \cup {None}]
  BY <1>8 DEF Roles
<1>. QED
  BY <1>5, <1>6, <1>10, <1>11, <1>13, <1>14, <1>15, <1>16, <1>17 DEF TypeInv, TypeOK

(* The values a check of verifySnapshot or verifyTargets leaves in memory *)
(* are the file under check or what was there before.                    *)
LEMMA AssignedTypes ==
    /\ \A d, ts, root, cur : SnapAssigned(d, ts, root, cur) \in {d, cur}
    /\ \A d, snap, root, cur : TgtAssigned(d, snap, root, cur) \in {d, cur}
BY DEF SnapAssigned, TgtAssigned

LEMMA NextTypeInv == TypeInv /\ [Next]_vars => TypeInv'
<1>. SUFFICES ASSUME TypeInv, [Next]_vars PROVE TypeInv'
  OBVIOUS
<1>. USE ConstAssumption DEF serverVars, storeVars, memVars, callVars
<1>a. /\ CurKey \in Keys
      /\ \A n \in Nat \ {0} : FetchRoot(n) \subseteq RootDoc
      /\ FetchTimestamp \subseteq TimestampDoc
  BY FetchTypes
<1>b. /\ LatestRoot \in RootDoc \cup {None}
  BY LatestRootType
<1>c. HasTop
  BY DEF TypeInv
<1>d. UNCHANGED storedRoots => HasTop'
  BY <1>c DEF HasTop, IsTop, StoredIdx
<1>1. CASE ServerRotate
  <2>1. PICK k \in Keys :
          server' = [server EXCEPT !.roots = Append(@,
                       [ver |-> Len(server.roots) + 1, key |-> k,
                        signers |-> {CurKey, k}])]
    BY <1>1 DEF ServerRotate
  <2>2. [ver |-> Len(server.roots) + 1, key |-> k, signers |-> {CurKey, k}] \in RootDoc
    BY <1>1, <1>a DEF ServerRotate, RootDoc, TypeInv, TypeOK
  <2>. DEFINE new == [ver |-> Len(server.roots) + 1, key |-> k, signers |-> {CurKey, k}]
  <2>a. server' = [roots |-> Append(server.roots, new), ts |-> server.ts,
                   snap |-> server.snap, tgt |-> server.tgt]
    BY <2>1 DEF TypeInv, TypeOK
  <2>b. Append(server.roots, new) \in Seq(RootDoc)
    BY <2>2 DEF TypeInv, TypeOK
  <2>3. /\ server'.roots = Append(server.roots, new)
        /\ server'.ts = server.ts /\ server'.snap = server.snap
        /\ server' \in [roots : Seq(RootDoc), ts : TimestampDoc, snap : SnapshotDoc,
                        tgt : TargetsDoc]
    BY <2>a, <2>b DEF TypeInv, TypeOK
  <2>4. server'.roots # << >>
    BY <2>3, <2>2
  <2>. QED
    BY <1>1, <1>d, <2>3, <2>4 DEF ServerRotate, TypeInv, TypeOK
<1>2. CASE ServerRelease
  <2>1. PICK newTargets \in BOOLEAN, withHash \in BOOLEAN :
          LET tgt == [ver |-> IF newTargets \/ server.tgt.key # CurKey
                              THEN server.tgt.ver + 1 ELSE server.tgt.ver,
                      key |-> CurKey]
              snap == [ver |-> server.snap.ver + 1, key |-> CurKey,
                       tver |-> tgt.ver, thash |-> IF withHash THEN tgt ELSE NoHash]
              ts == [ver |-> server.ts.ver + 1, key |-> CurKey,
                     sver |-> snap.ver, shash |-> snap]
          IN  /\ tgt.ver <= MaxVersion
              /\ server' = [server EXCEPT !.ts = ts, !.snap = snap, !.tgt = tgt]
              /\ published' = [ts |-> published.ts \cup {ts},
                               snap |-> published.snap \cup {snap},
                               tgt |-> published.tgt \cup {tgt}]
    BY <1>2 DEF ServerRelease
  <2>. DEFINE tgt == [ver |-> IF newTargets \/ server.tgt.key # CurKey
                              THEN server.tgt.ver + 1 ELSE server.tgt.ver,
                      key |-> CurKey]
              snap == [ver |-> server.snap.ver + 1, key |-> CurKey,
                       tver |-> tgt.ver, thash |-> IF withHash THEN tgt ELSE NoHash]
              ts == [ver |-> server.ts.ver + 1, key |-> CurKey,
                     sver |-> snap.ver, shash |-> snap]
  <2>2. tgt \in TargetsDoc
    BY <2>1, <1>a DEF TargetsDoc, Versions, TypeInv, TypeOK
  <2>3. snap \in SnapshotDoc
    BY <1>2, <2>1, <2>2, <1>a DEF ServerRelease, SnapshotDoc, TargetsDoc, Versions,
       TypeInv, TypeOK
  <2>4. ts \in TimestampDoc
    BY <1>2, <2>3, <1>a DEF ServerRelease, TimestampDoc, SnapshotDoc, Versions,
       TypeInv, TypeOK
  <2>5. /\ server' = [server EXCEPT !.ts = ts, !.snap = snap, !.tgt = tgt]
        /\ published' = [ts |-> published.ts \cup {ts},
                         snap |-> published.snap \cup {snap},
                         tgt |-> published.tgt \cup {tgt}]
    BY <2>1
  <2>s. server \in [roots : Seq(RootDoc), ts : TimestampDoc, snap : SnapshotDoc,
                    tgt : TargetsDoc]
    BY DEF TypeInv, TypeOK
  <2>f. /\ server'.roots = server.roots /\ server'.ts = ts
        /\ server'.snap = snap /\ server'.tgt = tgt
    BY <2>s, <2>5
  <2>g. server'.snap.ver = server'.ts.ver
    BY <2>f DEF TypeInv
  <2>h. server' \in [roots : Seq(RootDoc), ts : TimestampDoc, snap : SnapshotDoc,
                    tgt : TargetsDoc]
    BY <2>s, <2>5, <2>2, <2>3, <2>4
  <2>6. /\ server' \in [roots : Seq(RootDoc), ts : TimestampDoc, snap : SnapshotDoc,
                        tgt : TargetsDoc]
        /\ server'.roots = server.roots /\ server'.snap.ver = server'.ts.ver
    BY <2>f, <2>g, <2>h
  <2>7. published' \in [ts : SUBSET TimestampDoc, snap : SUBSET SnapshotDoc,
                        tgt : SUBSET TargetsDoc]
    BY <2>2, <2>3, <2>4, <2>5 DEF TypeInv, TypeOK
  <2>. QED
    BY <1>2, <1>d, <2>6, <2>7 DEF ServerRelease, TypeInv, TypeOK
<1>3. CASE StartUpdate
  <2>0. /\ prevTs' = mTs /\ snapUpdated' = FALSE
        /\ mTs' = None /\ mSnap' = None /\ mTgt' = None
        /\ UNCHANGED <<server, published, storedMeta, offline>>
    BY <1>3 DEF StartUpdate
  <2>1. CASE LatestRoot # None /\ mRoot' = LatestRoot /\ loopVer' = LatestRoot.ver + 1
                /\ startVer' = LatestRoot.ver + 1 /\ pc' = "root" /\ result' = result
                /\ UNCHANGED storedRoots
    <3>1. mRoot' \in RootDoc /\ loopVer' \in Nat \ {0} /\ startVer' \in Nat
      BY <2>1, <1>b DEF RootDoc
    <3>. QED
      BY <2>0, <2>1, <3>1, <1>d DEF TypeInv, TypeOK
  <2>2. CASE LatestRoot = None /\ \E d \in FetchRoot(1) :
               IF d.key \in d.signers
               THEN /\ mRoot' = d
                    /\ storedRoots' = StoreRoot(1, d)
                    /\ loopVer' = d.ver + 1
                    /\ startVer' = d.ver + 1
                    /\ pc' = "root" /\ result' = result
               ELSE /\ mRoot' = None
                    /\ pc' = "idle" /\ result' = "error"
                    /\ UNCHANGED <<storedRoots, loopVer, startVer>>
    <3>1. PICK d \in FetchRoot(1) :
               IF d.key \in d.signers
               THEN /\ mRoot' = d
                    /\ storedRoots' = StoreRoot(1, d)
                    /\ loopVer' = d.ver + 1
                    /\ startVer' = d.ver + 1
                    /\ pc' = "root" /\ result' = result
               ELSE /\ mRoot' = None
                    /\ pc' = "idle" /\ result' = "error"
                    /\ UNCHANGED <<storedRoots, loopVer, startVer>>
      BY <2>2
    <3>2. d \in RootDoc /\ 1 \in RootSlots
      BY <1>a DEF RootSlots
    <3>3. CASE d.key \in d.signers
      <4>1. LET g == StoreRoot(1, d)
            IN  /\ DOMAIN g \subseteq RootSlots
                /\ \A i \in DOMAIN g : g[i] \in RootDoc
                /\ \E i \in DOMAIN g : \A j \in DOMAIN g : j <= i
        BY <3>2, StoreRootType
      <4>2. HasTop'
        BY <3>1, <3>3, <4>1 DEF HasTop, IsTop, StoredIdx
      <4>3. /\ mRoot' = d /\ storedRoots' = StoreRoot(1, d)
            /\ loopVer' = d.ver + 1 /\ startVer' = d.ver + 1
            /\ pc' = "root" /\ result' = result
        BY <3>1, <3>3
      <4>4. d.ver + 1 \in Nat \ {0}
        BY <3>2 DEF RootDoc
      <4>. QED
        BY <2>0, <3>2, <4>1, <4>2, <4>3, <4>4 DEF TypeInv, TypeOK
    <3>4. CASE ~(d.key \in d.signers)
      BY <2>0, <3>1, <3>4, <1>d DEF TypeInv, TypeOK
    <3>. QED
      BY <3>3, <3>4
  <2>3. CASE LatestRoot = None /\ mRoot' = None /\ pc' = "idle" /\ result' = "error"
               /\ UNCHANGED <<storedRoots, loopVer, startVer>>
    BY <2>0, <2>3, <1>d DEF TypeInv, TypeOK
  <2>. QED
    BY <1>3, <2>1, <2>2, <2>3 DEF StartUpdate
<1>4. CASE RootBound \/ RootFetchFails
  BY <1>4, <1>d DEF RootBound, RootFetchFails, RootLoopEnd, TypeInv, TypeOK
<1>5. CASE RootRotate
  <2>1. PICK d \in FetchRoot(loopVer) :
         \/ /\ ~RootSigned(d, mRoot)
            /\ pc' = "idle" /\ result' = "error"
            /\ UNCHANGED <<mRoot, storedRoots>>
         \/ /\ RootSigned(d, mRoot)
            /\ mRoot' = d
            /\ IF ~RootVersionOk(d)
               THEN pc' = "idle" /\ result' = "error" /\ UNCHANGED storedRoots
               ELSE /\ storedRoots' = StoreRoot(loopVer, d)
                    /\ pc' = "clear" /\ result' = result
    BY <1>5 DEF RootRotate
  <2>2. d \in RootDoc /\ loopVer \in RootSlots
    BY <1>5, <1>a DEF RootRotate, LoopContinues, RootSlots, TypeInv, TypeOK
  <2>3. LET g == StoreRoot(loopVer, d)
        IN  /\ DOMAIN g \subseteq RootSlots
            /\ \A i \in DOMAIN g : g[i] \in RootDoc
            /\ \E i \in DOMAIN g : \A j \in DOMAIN g : j <= i
    BY <2>2, StoreRootType
  <2>4. storedRoots' = StoreRoot(loopVer, d) => HasTop'
    BY <2>3 DEF HasTop, IsTop, StoredIdx
  <2>. QED
    BY <1>5, <1>d, <2>1, <2>2, <2>3, <2>4 DEF RootRotate, TypeInv, TypeOK
<1>6. CASE RootClear
  BY <1>6, <1>d DEF RootClear, NoMeta, Roles, TypeInv, TypeOK
<1>7. CASE UpdateTimestamp
  BY <1>7, <1>a, <1>d DEF UpdateTimestamp, ExpiryCheck, TypeInv, TypeOK
<1>8. CASE UpdateSnapshot
  <2>. DEFINE stored == storedMeta.snapshot
              held == IF stored = None THEN mSnap
                      ELSE SnapAssigned(stored, mTs, mRoot, mSnap)
  <2>0. /\ stored \in SnapshotDoc \cup {None} /\ held \in SnapshotDoc \cup {None}
        /\ published.snap \subseteq SnapshotDoc
        /\ UNCHANGED <<server, published, storedRoots, mRoot, mTs, mTgt, prevTs,
                       loopVer, startVer, offline>>
        /\ pc' \in {"idle", "targets"} /\ result' \in {result, "ok", "error"}
    BY <1>8, AssignedTypes DEF UpdateSnapshot, ExpiryCheck, TypeInv, TypeOK
  <2>1. CASE KeepStoredSnapshot(stored)
    BY <1>8, <2>0, <2>1, <1>d DEF UpdateSnapshot, TypeInv, TypeOK
  <2>2. CASE ~KeepStoredSnapshot(stored)
    <3>0. \/ /\ mSnap' = held
             /\ UNCHANGED <<storedMeta, snapUpdated>>
          \/ \E d \in published.snap :
               /\ mSnap' = SnapAssigned(d, mTs, mRoot, held)
               /\ \/ UNCHANGED <<storedMeta, snapUpdated>>
                  \/ storedMeta' = [storedMeta EXCEPT !.snapshot = d] /\ snapUpdated' = TRUE
      BY <1>8, <2>2 DEF UpdateSnapshot
    <3>1. /\ mSnap' \in SnapshotDoc \cup {None}
          /\ storedMeta' \in [timestamp : TimestampDoc \cup {None},
                              snapshot : SnapshotDoc \cup {None},
                              targets : TargetsDoc \cup {None}]
          /\ snapUpdated' \in BOOLEAN
      <4>1. CASE mSnap' = held /\ UNCHANGED <<storedMeta, snapUpdated>>
        BY <2>0, <4>1 DEF TypeInv, TypeOK
      <4>2. CASE \E d \in published.snap :
                   /\ mSnap' = SnapAssigned(d, mTs, mRoot, held)
                   /\ \/ UNCHANGED <<storedMeta, snapUpdated>>
                      \/ storedMeta' = [storedMeta EXCEPT !.snapshot = d]
                         /\ snapUpdated' = TRUE
        <5>1. PICK d \in published.snap :
                   /\ mSnap' = SnapAssigned(d, mTs, mRoot, held)
                   /\ \/ UNCHANGED <<storedMeta, snapUpdated>>
                      \/ storedMeta' = [storedMeta EXCEPT !.snapshot = d]
                         /\ snapUpdated' = TRUE
          BY <4>2
        <5>2. d \in SnapshotDoc /\ mSnap' \in {d, held}
          BY <2>0, <5>1, AssignedTypes
        <5>. QED
          BY <2>0, <5>1, <5>2 DEF TypeInv, TypeOK
      <4>. QED
        BY <3>0, <4>1, <4>2
    <3>. QED
      BY <2>0, <3>1, <1>d DEF TypeInv, TypeOK
  <2>. QED
    BY <2>1, <2>2
<1>9. CASE UpdateTargets
  BY <1>9, <1>d, AssignedTypes DEF UpdateTargets, ExpiryCheck, TypeInv, TypeOK
<1>10. CASE CheckMetaOffline
  BY <1>10, <1>b, <1>d, AssignedTypes DEF CheckMetaOffline, TypeInv, TypeOK
<1>11. CASE Crash
  BY <1>11, <1>d DEF Crash, TypeInv, TypeOK
<1>12. CASE UNCHANGED vars
  BY <1>12, <1>d DEF vars, serverVars, storeVars, memVars, callVars, TypeInv, TypeOK
<1>. QED
  BY <1>1, <1>2, <1>3, <1>4, <1>5, <1>6, <1>7, <1>8, <1>9, <1>10, <1>11, <1>12
  DEF Next

(* Type correctness of the metadata update: every reachable state of      *)
(* updateMeta, updateRoot and checkMetaOffline, with crashes, is typed.   *)
THEOREM TypeCorrect == Spec => []TypeOK
<1>1. Init => TypeInv
  BY InitTypeInv
<1>2. TypeInv /\ [Next]_vars => TypeInv'
  BY NextTypeInv
<1>3. TypeInv => TypeOK
  BY DEF TypeInv
<1>. QED
  BY <1>1, <1>2, <1>3, PTL DEF Spec

-----------------------------------------------------------------------------
(* The Root chain.  updateRoot only ever stores the successor of the Root *)
(* it holds, and holds the top of the table while its loop runs: the     *)
(* strengthening says so, and that the server numbers its Roots by their *)
(* position.                                                              *)
ChainInv ==
    /\ TypeInv
    /\ RootChainValid
    /\ \A i \in DOMAIN server.roots : server.roots[i].ver = i
    /\ pc = "root" => IsTop(loopVer - 1) /\ mRoot = storedRoots[loopVer - 1]
    /\ pc = "clear" => IsTop(loopVer) /\ mRoot = storedRoots[loopVer]

(* loadLatestRoot returns the top row, and returns none only when the     *)
(* table is empty.                                                         *)
LEMMA LatestRootTop ==
    ASSUME TypeInv
    PROVE  /\ LatestRoot = None => StoredIdx = {}
           /\ LatestRoot # None =>
                \E t \in StoredIdx : IsTop(t) /\ LatestRoot = storedRoots[t]
<1>1. CASE StoredIdx = {}
  BY <1>1 DEF LatestRoot
<1>2. CASE StoredIdx # {}
  <2>1. PICK t \in StoredIdx : IsTop(t)
    BY <1>2 DEF TypeInv, HasTop
  <2>2. LatestRoot = storedRoots[t] /\ storedRoots[t] \in RootDoc
    BY <1>2, <2>1, LatestRootType DEF TypeInv, TypeOK, StoredIdx
  <2>. QED
    BY <1>2, <2>1, <2>2, NoneAssumption
<1>. QED
  BY <1>1, <1>2

LEMMA InitChainInv == Init => ChainInv
<1>. SUFFICES ASSUME Init PROVE ChainInv
  OBVIOUS
<1>1. TypeInv
  BY InitTypeInv
<1>2. StoredIdx = {} /\ pc = "idle"
  BY DEF Init, StoredIdx
<1>3. \A i \in DOMAIN server.roots : server.roots[i].ver = i
  BY DEF Init
<1>. QED
  BY <1>1, <1>2, <1>3 DEF ChainInv, RootChainValid

(* A step that leaves the Root table alone keeps it a valid chain.        *)
LEMMA ChainUnchanged ==
    ASSUME RootChainValid, UNCHANGED storedRoots
    PROVE  RootChainValid'
BY DEF RootChainValid, StoredIdx, RootSigned

LEMMA NextChainInv ==
    ASSUME HonestFirstRoot
    PROVE  ChainInv /\ [Next]_vars => ChainInv'
<1>. SUFFICES ASSUME ChainInv, [Next]_vars PROVE ChainInv'
  OBVIOUS
<1>. USE DEF serverVars, storeVars, memVars, callVars
<1>0. TypeInv /\ TypeInv'
  BY NextTypeInv DEF ChainInv
<1>a. RootChainValid /\ \A i \in DOMAIN server.roots : server.roots[i].ver = i
  BY DEF ChainInv
<1>b. UNCHANGED storedRoots => RootChainValid'
  BY <1>a, ChainUnchanged
<1>c. UNCHANGED <<server, storedRoots, mRoot, loopVer, pc>> => ChainInv'
  BY <1>0, <1>b DEF ChainInv, IsTop, StoredIdx
<1>d. /\ UNCHANGED <<server, storedRoots>> /\ pc' \notin {"root", "clear"}
      => ChainInv'
  BY <1>0, <1>a, <1>b DEF ChainInv
<1>1. CASE ServerRotate
  <2>1. PICK k \in Keys :
          server' = [server EXCEPT !.roots = Append(@,
                       [ver |-> Len(server.roots) + 1, key |-> k,
                        signers |-> {CurKey, k}])]
    BY <1>1 DEF ServerRotate
  <2>2. server.roots \in Seq(RootDoc)
    BY <1>0 DEF TypeInv, TypeOK
  <2>3. server'.roots = Append(server.roots, [ver |-> Len(server.roots) + 1, key |-> k,
                                               signers |-> {CurKey, k}])
    BY <2>1, <1>0 DEF TypeInv, TypeOK
  <2>4. \A i \in DOMAIN server'.roots : server'.roots[i].ver = i
    BY <2>2, <2>3, <1>a
  <2>. QED
    BY <1>1, <1>0, <1>b, <2>4 DEF ServerRotate, ChainInv, IsTop, StoredIdx
<1>2. CASE ServerRelease
  <2>1. server'.roots = server.roots
    BY <1>2, <1>0 DEF ServerRelease, TypeInv, TypeOK
  <2>. QED
    BY <1>2, <1>0, <1>a, <1>b, <2>1 DEF ServerRelease, ChainInv, IsTop, StoredIdx
<1>3. CASE StartUpdate
  <2>0. UNCHANGED server /\ pc = "idle"
    BY <1>3 DEF StartUpdate
  <2>1. CASE LatestRoot # None /\ mRoot' = LatestRoot /\ loopVer' = LatestRoot.ver + 1
               /\ pc' = "root" /\ UNCHANGED storedRoots
    <3>1. PICK t \in StoredIdx : IsTop(t) /\ LatestRoot = storedRoots[t]
      BY <2>1, <1>0, LatestRootTop
    <3>2. storedRoots[t].ver = t /\ t \in Nat
      BY <3>1, <1>0, <1>a, ConstAssumption DEF RootChainValid, TypeInv, TypeOK,
         StoredIdx, RootSlots
    <3>3. loopVer' - 1 = t
      BY <2>1, <3>1, <3>2
    <3>. QED
      BY <2>0, <2>1, <3>1, <3>3, <1>0, <1>a, <1>b DEF ChainInv, IsTop, StoredIdx
  <2>2. CASE LatestRoot = None /\ \E d \in FetchRoot(1) :
               IF d.key \in d.signers
               THEN /\ mRoot' = d
                    /\ storedRoots' = StoreRoot(1, d)
                    /\ loopVer' = d.ver + 1
                    /\ pc' = "root"
               ELSE /\ pc' = "idle"
                    /\ UNCHANGED storedRoots
    <3>1. PICK d \in FetchRoot(1) :
               IF d.key \in d.signers
               THEN /\ mRoot' = d
                    /\ storedRoots' = StoreRoot(1, d)
                    /\ loopVer' = d.ver + 1
                    /\ pc' = "root"
               ELSE /\ pc' = "idle"
                    /\ UNCHANGED storedRoots
      BY <2>2
    <3>2. d = server.roots[1] /\ d.ver = 1
      <4>1. server.roots \in Seq(RootDoc) /\ server.roots # << >>
        BY <1>0 DEF TypeInv, TypeOK
      <4>2. 1 \in DOMAIN server.roots
        BY <4>1
      <4>. QED
        BY <3>1, <4>1, <4>2, <1>a DEF FetchRoot
    <3>3. StoredIdx = {}
      BY <2>2, <1>0, LatestRootTop
    <3>4. CASE d.key \in d.signers
      <4>1. storedRoots' = [i \in {1} |-> d] /\ mRoot' = d /\ loopVer' = 2 /\ pc' = "root"
        BY <3>1, <3>2, <3>3, <3>4 DEF StoreRoot, StoredIdx
      <4>2. RootChainValid'
        BY <4>1, <3>2 DEF RootChainValid, StoredIdx
      <4>. QED
        BY <2>0, <1>0, <1>a, <4>1, <4>2 DEF ChainInv, IsTop, StoredIdx
    <3>5. CASE ~(d.key \in d.signers)
      BY <2>0, <3>1, <3>5, <1>d
    <3>. QED
      BY <3>4, <3>5
  <2>3. CASE LatestRoot = None /\ pc' = "idle" /\ UNCHANGED storedRoots
    BY <2>0, <2>3, <1>d
  <2>. QED
    BY <1>3, <2>1, <2>2, <2>3 DEF StartUpdate
<1>4. CASE RootBound \/ RootFetchFails
  BY <1>4, <1>d DEF RootBound, RootFetchFails, RootLoopEnd
<1>5. CASE RootRotate
  <2>0. pc = "root" /\ UNCHANGED <<server, loopVer>>
    BY <1>5 DEF RootRotate
  <2>1. PICK d \in FetchRoot(loopVer) :
         \/ /\ ~RootSigned(d, mRoot)
            /\ pc' = "idle"
            /\ UNCHANGED storedRoots
         \/ /\ RootSigned(d, mRoot)
            /\ mRoot' = d
            /\ IF ~RootVersionOk(d)
               THEN pc' = "idle" /\ UNCHANGED storedRoots
               ELSE /\ storedRoots' = StoreRoot(loopVer, d)
                    /\ pc' = "clear"
    BY <1>5 DEF RootRotate
  <2>2. CASE RootSigned(d, mRoot) /\ RootVersionOk(d)
    <3>. DEFINE top == loopVer - 1
    <3>1. IsTop(top) /\ mRoot = storedRoots[top]
      BY <2>0 DEF ChainInv
    <3>2. loopVer \in Nat \ {0} /\ top \in Nat /\ loopVer \notin StoredIdx
      BY <3>1, <1>0 DEF TypeInv, TypeOK, IsTop
    <3>3. /\ storedRoots' = [i \in StoredIdx \cup {loopVer} |->
                               IF i = loopVer THEN d ELSE storedRoots[i]]
          /\ mRoot' = d /\ pc' = "clear"
      BY <2>1, <2>2 DEF StoreRoot
    <3>7. mRoot.ver = top
      BY <3>1, <1>a DEF IsTop, RootChainValid
    <3>8. d.ver = loopVer
      BY <2>2, <3>2, <3>7 DEF RootVersionOk
    <3>4. RootSigned(d, storedRoots[top])
      BY <2>2, <3>1
    <3>5. RootChainValid'
      BY <3>1, <3>2, <3>3, <3>4, <3>8, <1>a DEF RootChainValid, StoredIdx, IsTop
    <3>6. IsTop(loopVer)'
      BY <2>0, <3>1, <3>2, <3>3, <1>0, ConstAssumption DEF IsTop, StoredIdx, TypeInv,
         TypeOK, RootSlots
    <3>. QED
      BY <2>0, <1>0, <1>a, <3>3, <3>5, <3>6 DEF ChainInv
  <2>3. CASE ~(RootSigned(d, mRoot) /\ RootVersionOk(d))
    BY <2>0, <2>1, <2>3, <1>d
  <2>. QED
    BY <2>2, <2>3
<1>6. CASE RootClear
  <2>1. loopVer \in Nat /\ loopVer' = loopVer + 1 /\ pc' = "root"
        /\ UNCHANGED <<server, storedRoots, mRoot>> /\ pc = "clear"
    BY <1>6, <1>0 DEF RootClear, TypeInv, TypeOK
  <2>. QED
    BY <2>1, <1>0, <1>a, <1>b DEF ChainInv, IsTop, StoredIdx
<1>7. CASE UpdateTimestamp
  BY <1>7, <1>d DEF UpdateTimestamp, ExpiryCheck
<1>8. CASE UpdateSnapshot
  BY <1>8, <1>d DEF UpdateSnapshot, ExpiryCheck
<1>9. CASE UpdateTargets
  BY <1>9, <1>d DEF UpdateTargets, ExpiryCheck
<1>10. CASE CheckMetaOffline
  BY <1>10, <1>d DEF CheckMetaOffline
<1>11. CASE Crash
  BY <1>11, <1>d DEF Crash
<1>12. CASE UNCHANGED vars
  BY <1>12, <1>c DEF vars
<1>. QED
  BY <1>1, <1>2, <1>3, <1>4, <1>5, <1>6, <1>7, <1>8, <1>9, <1>10, <1>11, <1>12
  DEF Next

(* With an honest 1.root.json, the Root table updateRoot and initRoot    *)
(* build is a chain: versions 1..K, each under its own version and each  *)
(* signed by its predecessor's key (spec 8.2).                            *)
THEOREM RootChain ==
    ASSUME HonestFirstRoot
    PROVE  Spec => []RootChainValid
<1>1. Init => ChainInv
  BY InitChainInv
<1>2. ChainInv /\ [Next]_vars => ChainInv'
  BY NextChainInv
<1>3. ChainInv => RootChainValid
  BY DEF ChainInv
<1>. QED
  BY <1>1, <1>2, <1>3, PTL DEF Spec

=============================================================================
