--------------------------- MODULE ImageStoreProofs ---------------------------
(***************************************************************************)
(* Proofs about what updateMeta leaves in the Store: the roles it stores  *)
(* are signed under the latest stored Root, and after a normal return the *)
(* Store verifies on its own.  They rest on the type invariant of         *)
(* ImageRepositoryProofs and hold for every value of the constants.       *)
(***************************************************************************)
EXTENDS ImageRepositoryProofs

(* The steps of updateMeta that run after loadLatestRoot.                  *)
InUpdate == pc \in {"root", "clear", "timestamp", "snapshot", "targets"}

(* updateRoot works on the latest stored Root.  From loadLatestRoot until *)
(* updateMeta returns, the Root in memory is the top row of the table, and *)
(* the loop variable is one above it (at "root") or equal to it (between  *)
(* storeRoot and clearNonRootMeta).  A row is never below its index: a     *)
(* stored Root's version is at least the version it is stored under, so    *)
(* the loop always stores above every row.                                 *)
RootInv ==
    /\ TypeInv
    /\ \A i \in StoredIdx : storedRoots[i].ver >= i
    /\ InUpdate => mRoot # None /\ mRoot = LatestRoot
    /\ pc = "root" => loopVer = mRoot.ver + 1
    /\ pc = "clear" => loopVer = mRoot.ver

(* A Timestamp in memory that has the stored Timestamp's version is the   *)
(* stored one.  This is what lets updateMeta skip storing a fetched       *)
(* Timestamp equal to prev_timestamp: the Store already holds it.         *)
SameVersionIsStored(x) ==
    x # None /\ storedMeta.timestamp # None
      /\ x.ver = storedMeta.timestamp.ver
    => x = storedMeta.timestamp

(* What each step of updateMeta has established in the Store so far.      *)
StoreInv ==
    /\ RootInv
    /\ pc = "idle" => SameVersionIsStored(mTs)
    /\ pc \in {"root", "clear", "timestamp"} =>
         mTs = None /\ SameVersionIsStored(prevTs)
    /\ pc \in {"snapshot", "targets"} =>
         /\ mTs # None /\ storedMeta.timestamp = mTs
         /\ SignedBy(mTs, mRoot)
    /\ pc = "targets" =>
         /\ mSnap # None /\ storedMeta.snapshot = mSnap
         /\ SnapVerifies(mSnap, mTs, mRoot)
    /\ pc = "idle" /\ result = "ok" => StoreVerifies

(* Without power loss, the roles in the Store are those of the latest     *)
(* Root; an empty Root table comes with no stored role.                    *)
ClearInv ==
    /\ RootInv
    /\ StoredIdx = {} => storedMeta = NoMeta
    /\ StoredUnderLatestRoot


-----------------------------------------------------------------------------
(* storeRoot above every row makes the new row the one loadLatestRoot     *)
(* returns.                                                                *)
LEMMA StoreAboveTop ==
    ASSUME TypeInv, NEW v \in Nat, NEW d, \A i \in StoredIdx : i < v
    PROVE  LET g == StoreRoot(v, d)
           IN  g[CHOOSE i \in DOMAIN g : \A j \in DOMAIN g : j <= i] = d
<1>. DEFINE g == StoreRoot(v, d)
<1>1. DOMAIN g = StoredIdx \cup {v} /\ g[v] = d
  BY DEF StoreRoot
<1>2. StoredIdx \subseteq Nat
  BY ConstAssumption DEF TypeInv, TypeOK, StoredIdx, RootSlots
<1>3. \A j \in DOMAIN g : j <= v
  <2>1. \A j \in StoredIdx : j <= v
    BY <1>2
  <2>. QED
    BY <2>1, <1>1
<1>4. \A i \in DOMAIN g : (\A j \in DOMAIN g : j <= i) => i = v
  <2>. SUFFICES ASSUME NEW i \in DOMAIN g, \A j \in DOMAIN g : j <= i
               PROVE  i = v
    OBVIOUS
  <2>1. i \in Nat /\ i <= v /\ v <= i
    BY <1>1, <1>2, <1>3
  <2>. QED
    BY <2>1
<1>5. (CHOOSE i \in DOMAIN g : \A j \in DOMAIN g : j <= i) = v
  BY <1>1, <1>3, <1>4
<1>. QED
  BY <1>1, <1>5

(* A step that leaves the Root table alone leaves loadLatestRoot's answer. *)
LEMMA LatestRootUnchanged ==
    ASSUME UNCHANGED storedRoots PROVE LatestRoot' = LatestRoot
BY DEF LatestRoot, StoredIdx

LEMMA InitRootInv == Init => RootInv
<1>. SUFFICES ASSUME Init PROVE RootInv
  OBVIOUS
<1>1. TypeInv
  BY InitTypeInv
<1>. QED
  BY <1>1 DEF Init, RootInv, InUpdate, StoredIdx

LEMMA NextRootInv == RootInv /\ [Next]_vars => RootInv'
<1>. SUFFICES ASSUME RootInv, [Next]_vars PROVE RootInv'
  OBVIOUS
<1>. USE DEF serverVars, storeVars, memVars, callVars
<1>0. TypeInv /\ TypeInv'
  BY NextTypeInv DEF RootInv
<1>a. \A i \in StoredIdx : storedRoots[i].ver >= i
  BY DEF RootInv
<1>b. UNCHANGED storedRoots => (\A i \in StoredIdx : storedRoots[i].ver >= i)'
  BY <1>a DEF StoredIdx
(* Steps that end updateMeta, or run outside it, keep the table.           *)
<1>i. ASSUME UNCHANGED storedRoots, pc' = "idle" PROVE RootInv'
  BY <1>i, <1>0, <1>b DEF RootInv, InUpdate
(* Steps inside updateMeta that keep the table, the Root and the loop.     *)
<1>g. ASSUME UNCHANGED <<storedRoots, mRoot, loopVer>>,
             pc' \notin {"root", "clear"}, InUpdate' => InUpdate
      PROVE  RootInv'
  <2>1. LatestRoot' = LatestRoot
    BY <1>g, LatestRootUnchanged
  <2>. QED
    BY <1>g, <1>0, <1>b, <2>1 DEF RootInv
<1>1. CASE ServerRotate \/ ServerRelease \/ UNCHANGED vars
  <2>1. UNCHANGED <<storedRoots, mRoot, loopVer, pc>>
    BY <1>1 DEF ServerRotate, ServerRelease, vars
  <2>2. LatestRoot' = LatestRoot
    BY <2>1, LatestRootUnchanged
  <2>. QED
    BY <2>1, <2>2, <1>0, <1>b DEF RootInv, InUpdate
<1>2. CASE StartUpdate
  <2>0. pc = "idle"
    BY <1>2 DEF StartUpdate
  <2>1. CASE LatestRoot # None /\ mRoot' = LatestRoot /\ loopVer' = LatestRoot.ver + 1
               /\ pc' = "root" /\ UNCHANGED storedRoots
    <3>1. LatestRoot' = LatestRoot
      BY <2>1, LatestRootUnchanged
    <3>. QED
      BY <2>1, <3>1, <1>0, <1>b DEF RootInv, InUpdate
  <2>2. CASE LatestRoot = None /\ \E d \in FetchRoot(1) :
               IF d.key \in d.signers
               THEN /\ mRoot' = d
                    /\ storedRoots' = StoreRoot(1, d)
                    /\ loopVer' = d.ver + 1
                    /\ pc' = "root"
               ELSE /\ pc' = "idle"
                    /\ UNCHANGED storedRoots
    <3>1. PICK d \in FetchRoot(1) :
               IF d.key \in d.signers
               THEN /\ mRoot' = d
                    /\ storedRoots' = StoreRoot(1, d)
                    /\ loopVer' = d.ver + 1
                    /\ pc' = "root"
               ELSE /\ pc' = "idle"
                    /\ UNCHANGED storedRoots
      BY <2>2
    <3>2. d \in RootDoc /\ d # None
      BY <1>0, FetchTypes, NoneAssumption
    <3>3. StoredIdx = {}
      BY <2>2, <1>0, LatestRootTop
    <3>4. CASE d.key \in d.signers
      <4>1. mRoot' = d /\ storedRoots' = StoreRoot(1, d) /\ loopVer' = d.ver + 1
            /\ pc' = "root"
        BY <3>1, <3>4
      <4>2. LatestRoot' = d
        <5>1. LET g == StoreRoot(1, d)
              IN  g[CHOOSE i \in DOMAIN g : \A j \in DOMAIN g : j <= i] = d
          BY <1>0, <3>3, StoreAboveTop
        <5>2. StoredIdx' # {}
          BY <4>1 DEF StoreRoot, StoredIdx
        <5>. QED
          BY <4>1, <5>1, <5>2 DEF LatestRoot, StoredIdx
      <4>3. (\A i \in StoredIdx : storedRoots[i].ver >= i)'
        BY <4>1, <3>2, <3>3 DEF StoreRoot, StoredIdx, RootDoc
      <4>. QED
        BY <1>0, <4>1, <4>2, <4>3, <3>2 DEF RootInv, InUpdate
    <3>5. CASE ~(d.key \in d.signers)
      BY <3>1, <3>5, <1>i
    <3>. QED
      BY <3>4, <3>5
  <2>3. CASE LatestRoot = None /\ pc' = "idle" /\ UNCHANGED storedRoots
    BY <2>3, <1>i
  <2>. QED
    BY <1>2, <2>1, <2>2, <2>3 DEF StartUpdate
<1>3. CASE RootBound \/ RootFetchFails
  BY <1>3, <1>g DEF RootBound, RootFetchFails, RootLoopEnd, InUpdate
<1>4. CASE RootRotate
  <2>0. pc = "root" /\ LoopContinues /\ UNCHANGED loopVer
    BY <1>4 DEF RootRotate
  <2>1. PICK d \in FetchRoot(loopVer) :
         \/ /\ ~RootSigned(d, mRoot)
            /\ pc' = "idle"
            /\ UNCHANGED storedRoots
         \/ /\ RootSigned(d, mRoot)
            /\ mRoot' = d
            /\ IF ~RootVersionOk(d)
               THEN pc' = "idle" /\ UNCHANGED storedRoots
               ELSE /\ storedRoots' = StoreRoot(loopVer, d)
                    /\ pc' = "clear"
    BY <1>4 DEF RootRotate
  <2>2. CASE RootSigned(d, mRoot) /\ RootVersionOk(d)
    <3>1. mRoot' = d /\ storedRoots' = StoreRoot(loopVer, d) /\ pc' = "clear"
      BY <2>1, <2>2
    <3>2. mRoot # None /\ mRoot = LatestRoot /\ loopVer = mRoot.ver + 1
      BY <2>0 DEF RootInv, InUpdate
    <3>3. PICK t \in StoredIdx : IsTop(t) /\ LatestRoot = storedRoots[t]
      BY <3>2, <1>0, LatestRootTop
    <3>4. StoredIdx \subseteq Nat /\ loopVer \in Nat
      BY <1>0, ConstAssumption DEF TypeInv, TypeOK, StoredIdx, RootSlots
    <3>9. storedRoots[t].ver \in Nat /\ t <= storedRoots[t].ver
      BY <3>3, <1>0, <1>a DEF TypeInv, TypeOK, StoredIdx, RootDoc
    <3>5. \A i \in StoredIdx : i < loopVer
      BY <3>2, <3>3, <3>4, <3>9 DEF IsTop
    <3>6. LatestRoot' = d
      <4>1. LET g == StoreRoot(loopVer, d)
            IN  g[CHOOSE i \in DOMAIN g : \A j \in DOMAIN g : j <= i] = d
        BY <1>0, <3>4, <3>5, StoreAboveTop
      <4>2. StoredIdx' # {}
        BY <3>1 DEF StoreRoot, StoredIdx
      <4>. QED
        BY <3>1, <4>1, <4>2 DEF LatestRoot, StoredIdx
    <3>a. d \in RootDoc /\ d # None
      <4>1. loopVer \in Nat \ {0}
        BY <1>0 DEF TypeInv, TypeOK
      <4>. QED
        BY <4>1, <1>0, FetchTypes, NoneAssumption
    <3>7. d.ver = loopVer /\ d \in RootDoc /\ d # None
      BY <2>2, <3>2, <3>a DEF RootVersionOk
    <3>b. /\ StoredIdx' = StoredIdx \cup {loopVer}
          /\ storedRoots'[loopVer] = d
          /\ \A i \in StoredIdx : i # loopVer => storedRoots'[i] = storedRoots[i]
      BY <3>1 DEF StoreRoot, StoredIdx
    <3>8. (\A i \in StoredIdx : storedRoots[i].ver >= i)'
      <4>1. \A i \in StoredIdx : i # loopVer
        BY <3>5, <3>4
      <4>2. storedRoots'[loopVer].ver >= loopVer
        BY <3>b, <3>7, <3>4
      <4>3. \A i \in StoredIdx : storedRoots'[i].ver >= i
        BY <3>b, <4>1, <1>a
      <4>. QED
        BY <3>b, <4>2, <4>3 DEF StoredIdx
    <3>. QED
      BY <2>0, <3>1, <3>6, <3>7, <3>8, <1>0 DEF RootInv, InUpdate
  <2>3. CASE ~(RootSigned(d, mRoot) /\ RootVersionOk(d))
    BY <2>1, <2>3, <1>i
  <2>. QED
    BY <2>2, <2>3
<1>5. CASE RootClear
  <2>1. pc = "clear" /\ pc' = "root" /\ loopVer' = loopVer + 1
        /\ UNCHANGED <<storedRoots, mRoot>>
    BY <1>5 DEF RootClear
  <2>2. LatestRoot' = LatestRoot
    BY <2>1, LatestRootUnchanged
  <2>. QED
    BY <2>1, <2>2, <1>0, <1>b DEF RootInv, InUpdate
<1>6. CASE UpdateTimestamp \/ UpdateSnapshot \/ UpdateTargets
  <2>1. /\ UNCHANGED <<storedRoots, mRoot, loopVer>>
        /\ pc' \in {"idle", "snapshot", "targets"} /\ InUpdate
    BY <1>6 DEF UpdateTimestamp, UpdateSnapshot, UpdateTargets, ExpiryCheck, InUpdate
  <2>. QED
    BY <2>1, <1>g DEF InUpdate
<1>7. CASE CheckMetaOffline \/ Crash
  BY <1>7, <1>i DEF CheckMetaOffline, Crash
<1>. QED
  BY <1>1, <1>2, <1>3, <1>4, <1>5, <1>6, <1>7 DEF Next


-----------------------------------------------------------------------------
(* The roles updateMeta may write: after a step, each stored role is the  *)
(* one stored before or a file signed by the Root in memory.               *)
StoresSignedBy(root) ==
    \A r \in Roles :
       storedMeta'[r] = storedMeta[r] \/ SignedBy(storedMeta'[r], root)

LEMMA TimestampStores ==
    ASSUME TypeInv, UpdateTimestamp PROVE StoresSignedBy(mRoot)
<1>1. \/ storedMeta' = storedMeta
      \/ \E d : SignedBy(d, mRoot) /\ storedMeta' = [storedMeta EXCEPT !.timestamp = d]
  BY DEF UpdateTimestamp, ExpiryCheck
<1>. QED
  BY <1>1 DEF StoresSignedBy, Roles, TypeInv, TypeOK

LEMMA SnapshotStores ==
    ASSUME TypeInv, UpdateSnapshot PROVE StoresSignedBy(mRoot)
<1>1. \/ storedMeta' = storedMeta
      \/ \E d : SignedBy(d, mRoot) /\ storedMeta' = [storedMeta EXCEPT !.snapshot = d]
  BY DEF UpdateSnapshot, ExpiryCheck, SnapVerifies
<1>. QED
  BY <1>1 DEF StoresSignedBy, Roles, TypeInv, TypeOK

LEMMA TargetsStores ==
    ASSUME TypeInv, UpdateTargets PROVE StoresSignedBy(mRoot)
<1>1. \/ storedMeta' = storedMeta
      \/ \E d : SignedBy(d, mRoot) /\ storedMeta' = [storedMeta EXCEPT !.targets = d]
  BY DEF UpdateTargets, ExpiryCheck, TgtVerifies
<1>. QED
  BY <1>1 DEF StoresSignedBy, Roles, TypeInv, TypeOK

LEMMA InitClearInv == Init => ClearInv
<1>. SUFFICES ASSUME Init PROVE ClearInv
  OBVIOUS
<1>1. RootInv
  BY InitRootInv
<1>2. storedMeta = NoMeta
  BY DEF Init
<1>. QED
  BY <1>1, <1>2 DEF ClearInv, StoredUnderLatestRoot, NoMeta, Roles

LEMMA NextClearInv ==
    ASSUME ~CrashPossible
    PROVE  ClearInv /\ [Next]_vars => ClearInv'
<1>. SUFFICES ASSUME ClearInv, [Next]_vars PROVE ClearInv'
  OBVIOUS
<1>. USE DEF serverVars, storeVars, memVars, callVars
<1>0. RootInv /\ RootInv' /\ TypeInv /\ TypeInv'
  BY NextRootInv DEF ClearInv, RootInv
<1>a. StoredIdx = {} => storedMeta = NoMeta
  BY DEF ClearInv
<1>b. pc # "clear" => StoredUnderLatestRoot
  BY DEF ClearInv, StoredUnderLatestRoot
(* A step that keeps the Store, outside the window of storeRoot.           *)
<1>k. ASSUME UNCHANGED <<storedRoots, storedMeta>>, pc # "clear"
      PROVE  ClearInv'
  <2>1. LatestRoot' = LatestRoot
    BY <1>k, LatestRootUnchanged
  <2>. QED
    BY <1>k, <1>0, <1>a, <1>b, <2>1 DEF ClearInv, StoredUnderLatestRoot, StoredIdx
(* A step of updateMeta that writes roles signed by the latest Root.      *)
<1>w. ASSUME UNCHANGED storedRoots, pc # "clear", InUpdate,
             StoresSignedBy(mRoot)
      PROVE  ClearInv'
  <2>1. LatestRoot' = LatestRoot /\ mRoot = LatestRoot /\ LatestRoot # None
    BY <1>w, <1>0, LatestRootUnchanged DEF RootInv
  <2>2. StoredIdx # {}
    BY <2>1 DEF LatestRoot
  <2>3. StoredUnderLatestRoot'
    BY <1>w, <1>b, <2>1 DEF StoredUnderLatestRoot, StoresSignedBy
  <2>. QED
    BY <1>w, <1>0, <2>2, <2>3 DEF ClearInv, StoredIdx
<1>1. CASE ServerRotate \/ ServerRelease \/ CheckMetaOffline
  <2>2. UNCHANGED <<storedRoots, storedMeta>>
    BY <1>1 DEF ServerRotate, ServerRelease, CheckMetaOffline
  <2>3. CASE pc = "clear"
    <3>1. UNCHANGED pc
      BY <1>1 DEF ServerRotate, ServerRelease, CheckMetaOffline
    <3>2. LatestRoot' = LatestRoot
      BY <2>2, LatestRootUnchanged
    <3>. QED
      BY <1>0, <1>a, <2>2, <2>3, <3>1, <3>2 DEF ClearInv, StoredUnderLatestRoot, StoredIdx
  <2>. QED
    BY <2>2, <2>3, <1>k
<1>2. CASE UNCHANGED vars
  <2>1. UNCHANGED <<storedRoots, storedMeta, pc>>
    BY <1>2 DEF vars
  <2>2. LatestRoot' = LatestRoot
    BY <2>1, LatestRootUnchanged
  <2>. QED
    BY <1>0, <1>a, <2>1, <2>2 DEF ClearInv, StoredUnderLatestRoot, StoredIdx
<1>3. CASE StartUpdate
  <2>0. pc = "idle" /\ UNCHANGED storedMeta
    BY <1>3 DEF StartUpdate
  <2>1. CASE UNCHANGED storedRoots
    BY <2>0, <2>1, <1>k
  <2>2. CASE ~UNCHANGED storedRoots
    <3>1. StoredIdx = {} /\ pc' = "root" /\ \E d : storedRoots' = StoreRoot(1, d)
      BY <1>3, <2>2, <1>0, LatestRootTop DEF StartUpdate
    <3>2. storedMeta' = NoMeta
      BY <2>0, <3>1, <1>a
    <3>3. StoredIdx' # {}
      BY <3>1 DEF StoreRoot, StoredIdx
    <3>. QED
      BY <1>0, <3>1, <3>2, <3>3 DEF ClearInv, StoredUnderLatestRoot, NoMeta
  <2>. QED
    BY <2>1, <2>2
<1>4. CASE RootBound \/ RootFetchFails
  BY <1>4, <1>k DEF RootBound, RootFetchFails, RootLoopEnd
<1>5. CASE RootRotate
  <2>0. pc = "root" /\ UNCHANGED storedMeta /\ pc' \in {"idle", "clear"}
    BY <1>5 DEF RootRotate
  <2>1. CASE UNCHANGED storedRoots
    BY <2>0, <2>1, <1>k
  <2>2. CASE ~UNCHANGED storedRoots
    <3>1. pc' = "clear" /\ \E d : storedRoots' = StoreRoot(loopVer, d)
      BY <1>5, <2>2 DEF RootRotate
    <3>2. StoredIdx' # {}
      BY <3>1 DEF StoreRoot, StoredIdx
    <3>. QED
      BY <1>0, <3>1, <3>2 DEF ClearInv, StoredUnderLatestRoot
  <2>. QED
    BY <2>1, <2>2
<1>6. CASE RootClear
  <2>1. storedMeta' = NoMeta /\ pc' = "root"
    BY <1>6 DEF RootClear
  <2>. QED
    BY <1>0, <2>1 DEF ClearInv, StoredUnderLatestRoot, NoMeta
<1>7. CASE UpdateTimestamp
  <2>1. UNCHANGED storedRoots /\ pc = "timestamp" /\ InUpdate
    BY <1>7 DEF UpdateTimestamp, InUpdate
  <2>. QED
    BY <1>7, <2>1, <1>0, TimestampStores, <1>w
<1>8. CASE UpdateSnapshot
  <2>1. UNCHANGED storedRoots /\ pc = "snapshot" /\ InUpdate
    BY <1>8 DEF UpdateSnapshot, InUpdate
  <2>. QED
    BY <1>8, <2>1, <1>0, SnapshotStores, <1>w
<1>9. CASE UpdateTargets
  <2>1. UNCHANGED storedRoots /\ pc = "targets" /\ InUpdate
    BY <1>9 DEF UpdateTargets, InUpdate
  <2>. QED
    BY <1>9, <2>1, <1>0, TargetsStores, <1>w
<1>10. CASE Crash
  BY <1>10 DEF Crash
<1>. QED
  BY <1>1, <1>2, <1>3, <1>4, <1>5, <1>6, <1>7, <1>8, <1>9, <1>10 DEF Next

(* Without power loss, every Timestamp, Snapshot and Targets in the Store *)
(* is signed by the key of the latest stored Root, outside the step        *)
(* between storeRoot and clearNonRootMeta in updateRoot.  It holds whether *)
(* or not 1.root.json was genuine and whether or not the Timestamp key is *)
(* stolen: updateMeta stores only roles it verified under the Root it      *)
(* holds, and that Root is the top row of the table.                       *)
THEOREM StoredUnderLatestRootThm ==
    ASSUME ~CrashPossible
    PROVE  Spec => []StoredUnderLatestRoot
<1>1. Init => ClearInv
  BY InitClearInv
<1>2. ClearInv /\ [Next]_vars => ClearInv'
  BY NextClearInv
<1>3. ClearInv => StoredUnderLatestRoot
  BY DEF ClearInv
<1>. QED
  BY <1>1, <1>2, <1>3, PTL DEF Spec


-----------------------------------------------------------------------------
(* A Store that verifies, and the other conjuncts of StoreInv, depend     *)
(* only on the Store and on the variables of updateMeta.                   *)
LEMMA StoreInvUnchanged ==
    ASSUME StoreInv, RootInv',
           UNCHANGED <<storedRoots, storedMeta, mRoot, mTs, mSnap, prevTs, pc, result>>
    PROVE  StoreInv'
<1>1. LatestRoot' = LatestRoot
  BY LatestRootUnchanged
<1>. QED
  BY <1>1 DEF StoreInv, SameVersionIsStored, StoreVerifies

(* updateMeta's Timestamp step.  A Timestamp that passes the signature    *)
(* and rollback checks ends up in the Store: either it is written, or it  *)
(* is prev_timestamp at the stored version, and then it is the stored one.*)
LEMMA TimestampStoreInv ==
    ASSUME StoreInv, RootInv', UpdateTimestamp
    PROVE  StoreInv'
<1>0. /\ pc = "timestamp" /\ mTs = None /\ SameVersionIsStored(prevTs)
      /\ UNCHANGED <<storedRoots, mRoot, mSnap, prevTs>>
      /\ TypeInv
  BY DEF UpdateTimestamp, StoreInv, RootInv
<1>1. \/ /\ pc' = "idle" /\ result' = "error"
         /\ UNCHANGED <<mTs, storedMeta>>
      \/ \E d \in FetchTimestamp :
           /\ SignedBy(d, mRoot)
           /\ mTs' = d
           /\ IF Rollback(Ver(storedMeta.timestamp), d.ver)
              THEN pc' = "idle" /\ result' = "error" /\ UNCHANGED storedMeta
              ELSE /\ storedMeta' =
                        IF Ver(storedMeta.timestamp) < d.ver \/ prevTs # d
                        THEN [storedMeta EXCEPT !.timestamp = d]
                        ELSE storedMeta
                   /\ ExpiryCheck("snapshot")
  BY DEF UpdateTimestamp
<1>2. CASE /\ pc' = "idle" /\ result' = "error"
           /\ UNCHANGED <<mTs, storedMeta>>
  BY <1>0, <1>2 DEF StoreInv, SameVersionIsStored
<1>3. CASE \E d \in FetchTimestamp :
           /\ SignedBy(d, mRoot)
           /\ mTs' = d
           /\ IF Rollback(Ver(storedMeta.timestamp), d.ver)
              THEN pc' = "idle" /\ result' = "error" /\ UNCHANGED storedMeta
              ELSE /\ storedMeta' =
                        IF Ver(storedMeta.timestamp) < d.ver \/ prevTs # d
                        THEN [storedMeta EXCEPT !.timestamp = d]
                        ELSE storedMeta
                   /\ ExpiryCheck("snapshot")
  <2>1. PICK d \in FetchTimestamp :
           /\ SignedBy(d, mRoot)
           /\ mTs' = d
           /\ IF Rollback(Ver(storedMeta.timestamp), d.ver)
              THEN pc' = "idle" /\ result' = "error" /\ UNCHANGED storedMeta
              ELSE /\ storedMeta' =
                        IF Ver(storedMeta.timestamp) < d.ver \/ prevTs # d
                        THEN [storedMeta EXCEPT !.timestamp = d]
                        ELSE storedMeta
                   /\ ExpiryCheck("snapshot")
    BY <1>3
  <2>. DEFINE t == storedMeta.timestamp
  <2>2. d \in TimestampDoc /\ d # None /\ d.ver \in Nat \ {0}
    BY <1>0, FetchTypes, NoneAssumption, ConstAssumption DEF TimestampDoc, Versions
  <2>3. t \in TimestampDoc \cup {None} /\ Ver(t) \in Int
    BY <1>0 DEF TypeInv, TypeOK, Ver, TimestampDoc, Versions
  <2>4. CASE Rollback(Ver(t), d.ver)
    <3>1. t # None /\ t.ver > d.ver
      BY <2>2, <2>3, <2>4 DEF Rollback, Ver
    <3>2. pc' = "idle" /\ result' = "error" /\ UNCHANGED storedMeta
      BY <2>1, <2>4
    <3>. QED
      BY <1>0, <2>1, <2>2, <3>1, <3>2 DEF StoreInv, SameVersionIsStored
  <2>5. CASE ~Rollback(Ver(t), d.ver)
    <3>1. /\ storedMeta' = IF Ver(t) < d.ver \/ prevTs # d
                           THEN [storedMeta EXCEPT !.timestamp = d]
                           ELSE storedMeta
          /\ ExpiryCheck("snapshot")
      BY <2>1, <2>5
    <3>2. storedMeta'.timestamp = d
          /\ storedMeta'.snapshot = storedMeta.snapshot
          /\ storedMeta'.targets = storedMeta.targets
      <4>1. CASE Ver(t) < d.ver \/ prevTs # d
        BY <3>1, <4>1, <1>0 DEF TypeInv, TypeOK
      <4>2. CASE ~(Ver(t) < d.ver \/ prevTs # d)
        <5>1. Ver(t) = d.ver /\ prevTs = d
          BY <2>2, <2>3, <2>5, <4>2 DEF Rollback
        <5>2. t # None /\ t.ver = d.ver
          BY <5>1, <2>2 DEF Ver
        <5>3. t = d
          BY <5>1, <5>2, <2>2, <1>0 DEF SameVersionIsStored
        <5>. QED
          BY <3>1, <4>2, <5>3
      <4>. QED
        BY <4>1, <4>2
    <3>3. /\ pc' \in {"snapshot", "idle"}
          /\ pc' = "idle" => result' = "error"
      BY <3>1 DEF ExpiryCheck
    <3>. QED
      BY <1>0, <2>1, <2>2, <3>2, <3>3 DEF StoreInv, SameVersionIsStored
  <2>. QED
    BY <2>4, <2>5
<1>. QED
  BY <1>1, <1>2, <1>3


(* updateMeta's Snapshot step: when it goes on to Targets, the Snapshot   *)
(* in memory is the stored one, and it verifies against the Timestamp.    *)
LEMMA SnapshotStoreInv ==
    ASSUME StoreInv, RootInv', UpdateSnapshot
    PROVE  StoreInv'
<1>0. /\ pc = "snapshot" /\ mTs # None /\ storedMeta.timestamp = mTs
      /\ SignedBy(mTs, mRoot)
      /\ UNCHANGED <<storedRoots, mRoot, mTs, prevTs>>
      /\ TypeInv
  BY DEF UpdateSnapshot, StoreInv, RootInv
<1>. DEFINE stored == storedMeta.snapshot
            held == IF stored = None THEN mSnap
                    ELSE SnapAssigned(stored, mTs, mRoot, mSnap)
(* What the step establishes, whichever branch it takes.                   *)
<1>1. /\ pc' \in {"idle", "targets"}
      /\ pc' = "idle" => result' = "error"
      /\ storedMeta'.timestamp = storedMeta.timestamp
      /\ pc' = "targets" =>
           /\ mSnap' # None /\ storedMeta'.snapshot = mSnap'
           /\ SnapVerifies(mSnap', mTs, mRoot)
  <2>1. CASE /\ KeepStoredSnapshot(stored)
             /\ mSnap' = stored
             /\ UNCHANGED storedMeta
             /\ ExpiryCheck("targets")
    BY <2>1 DEF KeepStoredSnapshot, ExpiryCheck
  <2>2. CASE /\ ~KeepStoredSnapshot(stored)
             /\ mSnap' = held
             /\ pc' = "idle" /\ result' = "error"
             /\ UNCHANGED storedMeta
    BY <2>2
  <2>3. CASE /\ ~KeepStoredSnapshot(stored)
             /\ \E d \in published.snap :
                  /\ mSnap' = SnapAssigned(d, mTs, mRoot, held)
                  /\ IF ~SnapVerifies(d, mTs, mRoot) \/ Rollback(Ver(held), d.ver)
                     THEN /\ pc' = "idle" /\ result' = "error"
                          /\ UNCHANGED storedMeta
                     ELSE /\ storedMeta' = [storedMeta EXCEPT !.snapshot = d]
                          /\ ExpiryCheck("targets")
    <3>1. PICK d \in published.snap :
                  /\ mSnap' = SnapAssigned(d, mTs, mRoot, held)
                  /\ IF ~SnapVerifies(d, mTs, mRoot) \/ Rollback(Ver(held), d.ver)
                     THEN /\ pc' = "idle" /\ result' = "error"
                          /\ UNCHANGED storedMeta
                     ELSE /\ storedMeta' = [storedMeta EXCEPT !.snapshot = d]
                          /\ ExpiryCheck("targets")
      BY <2>3
    <3>2. d \in SnapshotDoc /\ d # None
      BY <1>0, NoneAssumption DEF TypeInv, TypeOK
    <3>3. CASE ~SnapVerifies(d, mTs, mRoot) \/ Rollback(Ver(held), d.ver)
      BY <3>1, <3>3
    <3>4. CASE ~(~SnapVerifies(d, mTs, mRoot) \/ Rollback(Ver(held), d.ver))
      <4>1. mSnap' = d /\ SnapVerifies(d, mTs, mRoot)
        BY <3>1, <3>4 DEF SnapAssigned, SnapVerifies
      <4>2. storedMeta' = [storedMeta EXCEPT !.snapshot = d] /\ ExpiryCheck("targets")
        BY <3>1, <3>4
      <4>3. storedMeta'.snapshot = d /\ storedMeta'.timestamp = storedMeta.timestamp
        BY <4>2, <1>0 DEF TypeInv, TypeOK
      <4>. QED
        BY <3>2, <4>1, <4>2, <4>3 DEF ExpiryCheck
    <3>. QED
      BY <3>3, <3>4
  <2>. QED
    BY <2>1, <2>2, <2>3 DEF UpdateSnapshot
<1>. QED
  BY <1>0, <1>1 DEF StoreInv, SameVersionIsStored

(* updateMeta's Targets step: when updateMeta returns normally, the       *)
(* Targets in the Store verifies against the Snapshot, and the chain of   *)
(* the three roles verifies under the latest Root.                         *)
LEMMA TargetsStoreInv ==
    ASSUME StoreInv, RootInv', UpdateTargets
    PROVE  StoreInv'
<1>0. /\ pc = "targets" /\ mTs # None /\ storedMeta.timestamp = mTs
      /\ SignedBy(mTs, mRoot)
      /\ mSnap # None /\ storedMeta.snapshot = mSnap
      /\ SnapVerifies(mSnap, mTs, mRoot)
      /\ mRoot # None /\ mRoot = LatestRoot
      /\ UNCHANGED <<storedRoots, mRoot, mTs, mSnap, prevTs>>
      /\ TypeInv
  BY DEF UpdateTargets, StoreInv, RootInv, InUpdate
<1>. DEFINE stored == storedMeta.targets
            held == IF stored = None THEN mTgt
                    ELSE TgtAssigned(stored, mSnap, mRoot, mTgt)
<1>1. /\ pc' = "idle"
      /\ storedMeta'.timestamp = storedMeta.timestamp
      /\ storedMeta'.snapshot = storedMeta.snapshot
      /\ result' = "ok" =>
           storedMeta'.targets # None /\ TgtVerifies(storedMeta'.targets, mSnap, mRoot)
  <2>1. CASE /\ stored # None
             /\ TgtVerifies(stored, mSnap, mRoot)
             /\ UNCHANGED storedMeta
             /\ ExpiryCheck("done")
    BY <2>1 DEF ExpiryCheck
  <2>2. CASE /\ pc' = "idle" /\ result' = "error"
             /\ UNCHANGED storedMeta
    BY <2>2
  <2>3. CASE \E d \in published.tgt :
               /\ mTgt' = TgtAssigned(d, mSnap, mRoot, held)
               /\ IF ~TgtVerifies(d, mSnap, mRoot) \/ Rollback(Ver(held), d.ver)
                  THEN /\ pc' = "idle" /\ result' = "error"
                       /\ UNCHANGED storedMeta
                  ELSE /\ storedMeta' = [storedMeta EXCEPT !.targets = d]
                       /\ ExpiryCheck("done")
    <3>1. PICK d \in published.tgt :
               /\ mTgt' = TgtAssigned(d, mSnap, mRoot, held)
               /\ IF ~TgtVerifies(d, mSnap, mRoot) \/ Rollback(Ver(held), d.ver)
                  THEN /\ pc' = "idle" /\ result' = "error"
                       /\ UNCHANGED storedMeta
                  ELSE /\ storedMeta' = [storedMeta EXCEPT !.targets = d]
                       /\ ExpiryCheck("done")
      BY <2>3
    <3>2. d \in TargetsDoc /\ d # None
      BY <1>0, NoneAssumption DEF TypeInv, TypeOK
    <3>3. CASE ~TgtVerifies(d, mSnap, mRoot) \/ Rollback(Ver(held), d.ver)
      BY <3>1, <3>3
    <3>4. CASE ~(~TgtVerifies(d, mSnap, mRoot) \/ Rollback(Ver(held), d.ver))
      <4>1. storedMeta' = [storedMeta EXCEPT !.targets = d] /\ ExpiryCheck("done")
        BY <3>1, <3>4
      <4>2. /\ storedMeta'.targets = d
            /\ storedMeta'.timestamp = storedMeta.timestamp
            /\ storedMeta'.snapshot = storedMeta.snapshot
        BY <4>1, <1>0 DEF TypeInv, TypeOK
      <4>. QED
        BY <3>2, <3>4, <4>1, <4>2 DEF ExpiryCheck
    <3>. QED
      BY <3>3, <3>4
  <2>. QED
    BY <2>1, <2>2, <2>3 DEF UpdateTargets
<1>2. LatestRoot' = LatestRoot
  BY <1>0, LatestRootUnchanged
<1>3. result' = "ok" => StoreVerifies'
  BY <1>0, <1>1, <1>2 DEF StoreVerifies
<1>. QED
  BY <1>0, <1>1, <1>3 DEF StoreInv, SameVersionIsStored


LEMMA InitStoreInv == Init => StoreInv
<1>. SUFFICES ASSUME Init PROVE StoreInv
  OBVIOUS
<1>1. RootInv
  BY InitRootInv
<1>. QED
  BY <1>1 DEF Init, StoreInv, SameVersionIsStored

LEMMA NextStoreInv == StoreInv /\ [Next]_vars => StoreInv'
<1>. SUFFICES ASSUME StoreInv, [Next]_vars PROVE StoreInv'
  OBVIOUS
<1>. USE DEF serverVars, storeVars, memVars, callVars
<1>0. RootInv /\ RootInv'
  BY NextRootInv DEF StoreInv
<1>1. CASE ServerRotate \/ ServerRelease \/ UNCHANGED vars
  <2>1. UNCHANGED <<storedRoots, storedMeta, mRoot, mTs, mSnap, prevTs, pc, result>>
    BY <1>1 DEF ServerRotate, ServerRelease, vars
  <2>. QED
    BY <1>0, <2>1, StoreInvUnchanged
(* updateMeta starts: resetMeta empties memory, prev_timestamp keeps the  *)
(* Timestamp held before.                                                  *)
<1>2. CASE StartUpdate
  <2>1. /\ pc = "idle" /\ UNCHANGED storedMeta /\ prevTs' = mTs /\ mTs' = None
        /\ pc' \in {"root", "idle"} /\ (pc' = "idle" => result' = "error")
    BY <1>2 DEF StartUpdate
  <2>. QED
    BY <1>0, <2>1 DEF StoreInv, SameVersionIsStored
<1>3. CASE RootBound \/ RootFetchFails \/ RootRotate
  <2>1. /\ pc = "root" /\ UNCHANGED <<storedMeta, mTs, prevTs>>
        /\ pc' \in {"timestamp", "idle", "clear"}
        /\ (pc' = "idle" => result' = "error")
    BY <1>3 DEF RootBound, RootFetchFails, RootLoopEnd, RootRotate
  <2>. QED
    BY <1>0, <2>1 DEF StoreInv, SameVersionIsStored
(* clearNonRootMeta leaves no Timestamp to compare with.                  *)
<1>4. CASE RootClear
  <2>1. /\ pc = "clear" /\ pc' = "root" /\ storedMeta' = NoMeta
        /\ UNCHANGED <<mTs, prevTs>>
    BY <1>4 DEF RootClear
  <2>2. storedMeta'.timestamp = None
    BY <2>1 DEF NoMeta, Roles
  <2>. QED
    BY <1>0, <2>1, <2>2 DEF StoreInv, SameVersionIsStored
<1>5. CASE UpdateTimestamp
  BY <1>0, <1>5, TimestampStoreInv
<1>6. CASE UpdateSnapshot
  BY <1>0, <1>6, SnapshotStoreInv
<1>7. CASE UpdateTargets
  BY <1>0, <1>7, TargetsStoreInv
(* checkMetaOffline loads the stored Timestamp, or nothing.                *)
<1>8. CASE CheckMetaOffline
  <2>1. /\ pc = "idle" /\ UNCHANGED <<storedRoots, storedMeta, pc, result>>
        /\ mTs' \in {storedMeta.timestamp, None}
    BY <1>8 DEF CheckMetaOffline
  <2>2. LatestRoot' = LatestRoot
    BY <2>1, LatestRootUnchanged
  <2>. QED
    BY <1>0, <2>1, <2>2 DEF StoreInv, SameVersionIsStored, StoreVerifies
<1>9. CASE Crash
  <2>1. pc' = "idle" /\ result' = "none" /\ mTs' = None
    BY <1>9 DEF Crash
  <2>. QED
    BY <1>0, <2>1 DEF StoreInv, SameVersionIsStored
<1>. QED
  BY <1>1, <1>2, <1>3, <1>4, <1>5, <1>6, <1>7, <1>8, <1>9 DEF Next

(* After updateMeta returns normally, the Store alone passes the checks   *)
(* of checkMetaOffline (expiry aside), for every value of the constants:  *)
(* with crashes at any step, a forged 1.root.json and a stolen Timestamp  *)
(* key.  The Store's Timestamp is the one verified in this update (when    *)
(* updateMeta skips writing it, it is prev_timestamp at the stored         *)
(* version, hence the stored file), the Snapshot verified against it and  *)
(* the Targets against that Snapshot, all under the latest stored Root.   *)
THEOREM UpdateLeavesVerifiableStoreThm == Spec => []UpdateLeavesVerifiableStore
<1>1. Init => StoreInv
  BY InitStoreInv
<1>2. StoreInv /\ [Next]_vars => StoreInv'
  BY NextStoreInv
<1>3. StoreInv => UpdateLeavesVerifiableStore
  BY DEF StoreInv, UpdateLeavesVerifiableStore
<1>. QED
  BY <1>1, <1>2, <1>3, PTL DEF Spec


-----------------------------------------------------------------------------
(* The server's releases are ordered: a Timestamp names the Snapshot of   *)
(* its own version, and a later Snapshot never names an older Targets.    *)
PublishedOrdered ==
    /\ \A t \in published.ts : t.sver = t.ver
    /\ \A s \in published.snap : s.ver <= server.snap.ver /\ s.tver <= server.tgt.ver
    /\ server.snap.tver = server.tgt.ver
    /\ \A s1, s2 \in published.snap : s1.ver <= s2.ver => s1.tver <= s2.tver

(* The Store holds what the server published, and each stored role is no  *)
(* newer than the one that refers to it: Snapshot at most the version the *)
(* stored Timestamp names, Targets at most the one the stored Snapshot    *)
(* names.                                                                  *)
StoredOrdered ==
    /\ storedMeta.timestamp \in published.ts \cup {None}
    /\ storedMeta.snapshot \in published.snap \cup {None}
    /\ storedMeta.snapshot # None =>
         /\ storedMeta.timestamp # None
         /\ storedMeta.snapshot.ver <= storedMeta.timestamp.sver
    /\ storedMeta.targets # None =>
         /\ storedMeta.snapshot # None
         /\ storedMeta.targets.ver <= storedMeta.snapshot.tver

(* With the Timestamp key safe, the rollback checks of updateMeta hold.   *)
OrderInv ==
    /\ StoreInv
    /\ PublishedOrdered
    /\ StoredOrdered


(* The writes to the Store's Timestamp, Snapshot and Targets, one per     *)
(* step of updateMeta, and clearNonRootMeta.  Every other step leaves the *)
(* three roles alone.                                                      *)
LEMMA MetaWrites ==
    ASSUME TypeInv, [Next]_vars
    PROVE  \/ UNCHANGED storedMeta
           \/ storedMeta' = NoMeta
           \/ /\ UpdateTimestamp
              /\ \E d \in FetchTimestamp :
                   /\ ~Rollback(Ver(storedMeta.timestamp), d.ver)
                   /\ storedMeta' = [storedMeta EXCEPT !.timestamp = d]
           \/ /\ UpdateSnapshot
              /\ \E d \in published.snap :
                   /\ SnapVerifies(d, mTs, mRoot)
                   /\ storedMeta' = [storedMeta EXCEPT !.snapshot = d]
           \/ /\ UpdateTargets
              /\ \E d \in published.tgt :
                   /\ TgtVerifies(d, mSnap, mRoot)
                   /\ storedMeta' = [storedMeta EXCEPT !.targets = d]
<1>. USE DEF serverVars, storeVars, memVars, callVars
<1>1. CASE UpdateTimestamp
  BY <1>1 DEF UpdateTimestamp
<1>2. CASE UpdateSnapshot
  BY <1>2 DEF UpdateSnapshot
<1>3. CASE UpdateTargets
  BY <1>3 DEF UpdateTargets
<1>4. CASE RootClear
  BY <1>4 DEF RootClear
<1>5. CASE ~UpdateTimestamp /\ ~UpdateSnapshot /\ ~UpdateTargets /\ ~RootClear
  BY <1>5 DEF Next, vars, ServerRotate, ServerRelease, StartUpdate, RootBound,
     RootFetchFails, RootLoopEnd, RootRotate, CheckMetaOffline, Crash
<1>. QED
  BY <1>1, <1>2, <1>3, <1>4, <1>5

(* Only a release changes what the server published, and it adds to it.   *)
LEMMA PublishedOrderedStep ==
    ASSUME TypeInv, PublishedOrdered, [Next]_vars
    PROVE  PublishedOrdered' /\ published.ts \subseteq published'.ts
           /\ published.snap \subseteq published'.snap
<1>. USE DEF serverVars, storeVars, memVars, callVars
<1>1. CASE ServerRelease
  <2>1. PICK newTargets \in BOOLEAN, withHash \in BOOLEAN :
          LET tgt == [ver |-> IF newTargets \/ server.tgt.key # CurKey
                              THEN server.tgt.ver + 1 ELSE server.tgt.ver,
                      key |-> CurKey]
              snap == [ver |-> server.snap.ver + 1, key |-> CurKey,
                       tver |-> tgt.ver, thash |-> IF withHash THEN tgt ELSE NoHash]
              ts == [ver |-> server.ts.ver + 1, key |-> CurKey,
                     sver |-> snap.ver, shash |-> snap]
          IN  /\ tgt.ver <= MaxVersion
              /\ server' = [server EXCEPT !.ts = ts, !.snap = snap, !.tgt = tgt]
              /\ published' = [ts |-> published.ts \cup {ts},
                               snap |-> published.snap \cup {snap},
                               tgt |-> published.tgt \cup {tgt}]
    BY <1>1 DEF ServerRelease
  <2>. DEFINE tgt == [ver |-> IF newTargets \/ server.tgt.key # CurKey
                              THEN server.tgt.ver + 1 ELSE server.tgt.ver,
                      key |-> CurKey]
              snap == [ver |-> server.snap.ver + 1, key |-> CurKey,
                       tver |-> tgt.ver, thash |-> IF withHash THEN tgt ELSE NoHash]
              ts == [ver |-> server.ts.ver + 1, key |-> CurKey,
                     sver |-> snap.ver, shash |-> snap]
  <2>2. /\ server'.snap = snap /\ server'.tgt = tgt
        /\ published'.ts = published.ts \cup {ts}
        /\ published'.snap = published.snap \cup {snap}
    BY <2>1 DEF TypeInv, TypeOK
  <2>3. /\ server.snap.ver \in Nat /\ server.tgt.ver \in Nat
        /\ server.snap.ver = server.ts.ver
        /\ published.snap \subseteq SnapshotDoc
    BY ConstAssumption DEF TypeInv, TypeOK, SnapshotDoc, TargetsDoc, Versions
  <2>4. \A x \in published.snap : x.ver \in Nat /\ x.tver \in Nat
    BY <2>3, ConstAssumption DEF SnapshotDoc, Versions
  <2>5. tgt.ver >= server.tgt.ver /\ tgt.ver \in Nat
    BY <2>3
  <2>6. ts.sver = ts.ver
    BY <2>3
  <2>7. \A x \in published.snap : x.ver < snap.ver /\ x.tver <= snap.tver
    <3>1. \A x \in published.snap : x.ver <= server.snap.ver /\ x.tver <= server.tgt.ver
      BY DEF PublishedOrdered
    <3>2. snap.ver = server.snap.ver + 1 /\ snap.tver = tgt.ver
      OBVIOUS
    <3>. QED
      BY <2>3, <2>4, <2>5, <3>1, <3>2
  <2>8. \A s1, s2 \in published'.snap : s1.ver <= s2.ver => s1.tver <= s2.tver
    <3>. SUFFICES ASSUME NEW s1 \in published'.snap, NEW s2 \in published'.snap,
                        s1.ver <= s2.ver
                 PROVE  s1.tver <= s2.tver
      OBVIOUS
    <3>1. CASE s1 \in published.snap /\ s2 \in published.snap
      BY <3>1 DEF PublishedOrdered
    <3>2. CASE s1 \in published.snap /\ s2 = snap
      BY <3>2, <2>7
    <3>3. CASE s1 = snap /\ s2 \in published.snap
      BY <3>3, <2>3, <2>4, <2>7
    <3>4. CASE s1 = snap /\ s2 = snap
      BY <3>4, <2>5
    <3>. QED
      BY <2>2, <3>1, <3>2, <3>3, <3>4
  <2>9. \A t \in published'.ts : t.sver = t.ver
    BY <2>2, <2>6 DEF PublishedOrdered
  <2>10. \A x \in published'.snap : x.ver <= server'.snap.ver /\ x.tver <= server'.tgt.ver
    <3>1. \A x \in published.snap : x.ver <= snap.ver /\ x.tver <= tgt.ver
      BY <2>3, <2>4, <2>7
    <3>2. snap.ver <= snap.ver /\ snap.tver <= tgt.ver
      BY <2>3, <2>5
    <3>. QED
      BY <2>2, <3>1, <3>2
  <2>11. server'.snap.tver = server'.tgt.ver
    BY <2>2
  <2>. QED
    BY <2>2, <2>8, <2>9, <2>10, <2>11 DEF PublishedOrdered
<1>2. CASE ~ServerRelease
  <2>1. UNCHANGED <<server, published>> \/ ServerRotate
    BY <1>2 DEF Next, vars, StartUpdate, RootBound, RootFetchFails, RootLoopEnd,
       RootRotate, RootClear, UpdateTimestamp, UpdateSnapshot, UpdateTargets,
       CheckMetaOffline, Crash
  <2>2. CASE ServerRotate
    <3>1. UNCHANGED published /\ server'.snap = server.snap /\ server'.tgt = server.tgt
      BY <2>2 DEF ServerRotate, TypeInv, TypeOK
    <3>. QED
      BY <3>1 DEF PublishedOrdered
  <2>. QED
    BY <2>1, <2>2 DEF PublishedOrdered
<1>. QED
  BY <1>1, <1>2


(* The stored roles are typed files; their version fields are numbers.     *)
LEMMA StoredVersions ==
    ASSUME TypeInv
    PROVE  /\ storedMeta.timestamp # None =>
                storedMeta.timestamp.ver \in Nat /\ storedMeta.timestamp.sver \in Nat
           /\ storedMeta.snapshot # None =>
                storedMeta.snapshot.ver \in Nat /\ storedMeta.snapshot.tver \in Nat
           /\ storedMeta.targets # None => storedMeta.targets.ver \in Nat
           /\ \A x \in published.ts : x.ver \in Nat /\ x.sver \in Nat
           /\ \A x \in published.snap : x.ver \in Nat /\ x.tver \in Nat
           /\ \A x \in published.tgt : x.ver \in Nat
BY ConstAssumption DEF TypeInv, TypeOK, TimestampDoc, SnapshotDoc, TargetsDoc, Versions

LEMMA InitOrderInv == Init => OrderInv
<1>. SUFFICES ASSUME Init PROVE OrderInv
  OBVIOUS
<1>1. StoreInv
  BY InitStoreInv
<1>2. PICK k \in Keys :
        LET tgt == [ver |-> 1, key |-> k]
            snap == [ver |-> 1, key |-> k, tver |-> 1, thash |-> tgt]
            ts == [ver |-> 1, key |-> k, sver |-> 1, shash |-> snap]
        IN  /\ server = [roots |-> <<[ver |-> 1, key |-> k, signers |-> {k}]>>,
                         ts |-> ts, snap |-> snap, tgt |-> tgt]
            /\ published = [ts |-> {ts}, snap |-> {snap}, tgt |-> {tgt}]
  BY DEF Init
<1>3. PublishedOrdered
  BY <1>2 DEF PublishedOrdered
<1>4. storedMeta = NoMeta
  BY DEF Init
<1>. QED
  BY <1>1, <1>3, <1>4 DEF OrderInv, StoredOrdered, NoMeta, Roles

LEMMA NextOrderInv ==
    ASSUME ~ForgeTimestamp
    PROVE  OrderInv /\ [Next]_vars => OrderInv'
<1>. SUFFICES ASSUME OrderInv, [Next]_vars PROVE OrderInv'
  OBVIOUS
<1>0. /\ StoreInv /\ StoreInv' /\ TypeInv /\ TypeInv'
      /\ PublishedOrdered /\ StoredOrdered
  BY NextStoreInv DEF OrderInv, StoreInv, RootInv
<1>p. /\ PublishedOrdered'
      /\ published.ts \subseteq published'.ts /\ published.snap \subseteq published'.snap
  BY <1>0, PublishedOrderedStep
<1>v. /\ storedMeta.timestamp # None =>
           storedMeta.timestamp.ver \in Nat /\ storedMeta.timestamp.sver \in Nat
      /\ storedMeta.snapshot # None =>
           storedMeta.snapshot.ver \in Nat /\ storedMeta.snapshot.tver \in Nat
      /\ storedMeta.targets # None => storedMeta.targets.ver \in Nat
      /\ \A x \in published.ts : x.ver \in Nat /\ x.sver \in Nat
      /\ \A x \in published.snap : x.ver \in Nat /\ x.tver \in Nat
      /\ \A x \in published.tgt : x.ver \in Nat
  BY <1>0, StoredVersions
<1>. DEFINE t == storedMeta.timestamp
            sn == storedMeta.snapshot
            g == storedMeta.targets
<1>w. storedMeta \in [timestamp : TimestampDoc \cup {None},
                      snapshot : SnapshotDoc \cup {None},
                      targets : TargetsDoc \cup {None}]
  BY <1>0 DEF TypeInv, TypeOK
<1>1. CASE UNCHANGED storedMeta
  BY <1>0, <1>p, <1>1 DEF OrderInv, StoredOrdered
<1>2. CASE storedMeta' = NoMeta
  BY <1>0, <1>p, <1>2 DEF OrderInv, StoredOrdered, NoMeta, Roles
<1>3. CASE /\ UpdateTimestamp
           /\ \E d \in FetchTimestamp :
                /\ ~Rollback(Ver(storedMeta.timestamp), d.ver)
                /\ storedMeta' = [storedMeta EXCEPT !.timestamp = d]
  <2>1. PICK d \in FetchTimestamp :
                /\ ~Rollback(Ver(storedMeta.timestamp), d.ver)
                /\ storedMeta' = [storedMeta EXCEPT !.timestamp = d]
    BY <1>3
  <2>2. d \in published.ts /\ UNCHANGED published
    BY <1>3, <2>1 DEF FetchTimestamp, UpdateTimestamp, serverVars
  <2>n. d # None
    BY <1>0, FetchTypes, NoneAssumption
  <2>3. d.ver \in Nat /\ d.sver = d.ver
    BY <1>0, <2>2, <1>v DEF PublishedOrdered
  <2>4. t # None => t.ver <= d.ver /\ t.sver = t.ver
    BY <1>0, <2>1, <1>v, <2>3 DEF Rollback, Ver, StoredOrdered, PublishedOrdered
  <2>5. storedMeta'.timestamp = d /\ storedMeta'.snapshot = sn /\ storedMeta'.targets = g
    BY <2>1, <1>w
  <2>6. sn # None => sn.ver <= d.sver
    BY <1>0, <2>3, <2>4, <1>v DEF StoredOrdered
  <2>. QED
    BY <1>0, <1>p, <2>n, <2>2, <2>5, <2>6 DEF OrderInv, StoredOrdered
<1>4. CASE /\ UpdateSnapshot
           /\ \E d \in published.snap :
                /\ SnapVerifies(d, mTs, mRoot)
                /\ storedMeta' = [storedMeta EXCEPT !.snapshot = d]
  <2>1. PICK d \in published.snap :
                /\ SnapVerifies(d, mTs, mRoot)
                /\ storedMeta' = [storedMeta EXCEPT !.snapshot = d]
    BY <1>4
  <2>2. UNCHANGED published /\ pc = "snapshot"
    BY <1>4 DEF UpdateSnapshot, serverVars
  <2>n. d # None
    BY <1>0, NoneAssumption DEF TypeInv, TypeOK
  <2>3. t # None /\ mTs = t /\ d.ver = t.sver
    BY <2>1, <2>2, <1>0 DEF StoreInv, SnapVerifies
  <2>4. storedMeta'.snapshot = d /\ storedMeta'.timestamp = t /\ storedMeta'.targets = g
    BY <2>1, <1>w
  <2>5. g # None => sn # None /\ g.ver <= sn.tver
    BY <1>0 DEF StoredOrdered
  <2>6. sn # None => sn \in published.snap /\ sn.ver <= d.ver
    BY <1>0, <2>3 DEF StoredOrdered
  <2>7. sn # None => sn.tver <= d.tver
    BY <1>0, <2>6 DEF PublishedOrdered
  <2>8. g # None => g.ver <= d.tver
    BY <2>5, <2>7, <2>1, <1>v
  <2>9. d.ver <= t.sver
    BY <2>3, <2>1, <1>v
  <2>. QED
    BY <1>0, <1>p, <2>n, <2>1, <2>2, <2>3, <2>4, <2>8, <2>9 DEF OrderInv, StoredOrdered
<1>5. CASE /\ UpdateTargets
           /\ \E d \in published.tgt :
                /\ TgtVerifies(d, mSnap, mRoot)
                /\ storedMeta' = [storedMeta EXCEPT !.targets = d]
  <2>1. PICK d \in published.tgt :
                /\ TgtVerifies(d, mSnap, mRoot)
                /\ storedMeta' = [storedMeta EXCEPT !.targets = d]
    BY <1>5
  <2>2. UNCHANGED published /\ pc = "targets"
    BY <1>5 DEF UpdateTargets, serverVars
  <2>3. sn # None /\ mSnap = sn /\ d.ver = sn.tver
    BY <2>1, <2>2, <1>0 DEF StoreInv, TgtVerifies
  <2>4. storedMeta'.targets = d /\ storedMeta'.timestamp = t /\ storedMeta'.snapshot = sn
    BY <2>1, <1>w
  <2>5. d.ver <= sn.tver
    BY <2>3, <1>v
  <2>. QED
    BY <1>0, <1>p, <2>2, <2>3, <2>4, <2>5 DEF OrderInv, StoredOrdered
<1>. QED
  BY <1>0, <1>1, <1>2, <1>3, <1>4, <1>5, MetaWrites

(* MetaNoRollback for every instance whose server signs no forged         *)
(* Timestamp: the "Rollback attempt" checks of updateMeta (Timestamp),     *)
(* and the version checks of fetchSnapshot and fetchTargets against the    *)
(* Timestamp and Snapshot just stored, never let a stored Timestamp,       *)
(* Snapshot or Targets be replaced by one of a lower version. The Snapshot *)
(* and Targets checks only compare with the freshly verified parent, so    *)
(* the argument rests on OrderInv: a stored file's parent declares a       *)
(* version at least its own, and the server never lowers what it declares. *)
THEOREM MetaNoRollbackThm ==
    ASSUME ~ForgeTimestamp
    PROVE  Spec => MetaNoRollback
<1>. DEFINE Body == \A r \in Roles :
                      storedMeta[r] # None /\ storedMeta'[r] # None
                        => storedMeta'[r].ver >= storedMeta[r].ver
            t == storedMeta.timestamp
            sn == storedMeta.snapshot
            g == storedMeta.targets
<1>1. ASSUME OrderInv, [Next]_vars PROVE Body
  <2>0. /\ StoreInv /\ TypeInv /\ PublishedOrdered /\ StoredOrdered
    BY <1>1 DEF OrderInv, StoreInv, RootInv
  <2>v. /\ t # None => t.ver \in Nat /\ t.sver \in Nat
        /\ sn # None => sn.ver \in Nat /\ sn.tver \in Nat
        /\ g # None => g.ver \in Nat
        /\ \A x \in published.ts : x.ver \in Nat /\ x.sver \in Nat
        /\ \A x \in published.snap : x.ver \in Nat /\ x.tver \in Nat
        /\ \A x \in published.tgt : x.ver \in Nat
    BY <2>0, StoredVersions
  <2>w. storedMeta \in [timestamp : TimestampDoc \cup {None},
                        snapshot : SnapshotDoc \cup {None},
                        targets : TargetsDoc \cup {None}]
    BY <2>0 DEF TypeInv, TypeOK
  <2>. SUFFICES /\ t # None /\ storedMeta'.timestamp # None
                     => storedMeta'.timestamp.ver >= t.ver
                /\ sn # None /\ storedMeta'.snapshot # None
                     => storedMeta'.snapshot.ver >= sn.ver
                /\ g # None /\ storedMeta'.targets # None
                     => storedMeta'.targets.ver >= g.ver
    BY DEF Roles
  <2>1. CASE UNCHANGED storedMeta
    BY <2>1, <2>v
  <2>2. CASE storedMeta' = NoMeta
    BY <2>2 DEF NoMeta, Roles
  <2>3. CASE /\ UpdateTimestamp
             /\ \E d \in FetchTimestamp :
                  /\ ~Rollback(Ver(storedMeta.timestamp), d.ver)
                  /\ storedMeta' = [storedMeta EXCEPT !.timestamp = d]
    <3>1. PICK d \in FetchTimestamp :
                  /\ ~Rollback(Ver(storedMeta.timestamp), d.ver)
                  /\ storedMeta' = [storedMeta EXCEPT !.timestamp = d]
      BY <2>3
    <3>2. d \in published.ts
      BY <2>3, <3>1 DEF FetchTimestamp, UpdateTimestamp
    <3>3. storedMeta'.timestamp = d /\ storedMeta'.snapshot = sn
          /\ storedMeta'.targets = g
      BY <3>1, <2>w
    <3>4. t # None => d.ver >= t.ver
      BY <3>1, <3>2, <2>v DEF Rollback, Ver
    <3>. QED
      BY <3>3, <3>4, <2>v
  <2>4. CASE /\ UpdateSnapshot
             /\ \E d \in published.snap :
                  /\ SnapVerifies(d, mTs, mRoot)
                  /\ storedMeta' = [storedMeta EXCEPT !.snapshot = d]
    <3>1. PICK d \in published.snap :
                  /\ SnapVerifies(d, mTs, mRoot)
                  /\ storedMeta' = [storedMeta EXCEPT !.snapshot = d]
      BY <2>4
    <3>2. pc = "snapshot"
      BY <2>4 DEF UpdateSnapshot
    <3>3. t # None /\ mTs = t /\ d.ver = t.sver
      BY <3>1, <3>2, <2>0 DEF StoreInv, SnapVerifies
    <3>4. sn # None => sn.ver <= t.sver
      BY <2>0 DEF StoredOrdered
    <3>5. storedMeta'.snapshot = d /\ storedMeta'.timestamp = t
          /\ storedMeta'.targets = g
      BY <3>1, <2>w
    <3>. QED
      BY <3>3, <3>4, <3>5, <3>1, <2>v
  <2>5. CASE /\ UpdateTargets
             /\ \E d \in published.tgt :
                  /\ TgtVerifies(d, mSnap, mRoot)
                  /\ storedMeta' = [storedMeta EXCEPT !.targets = d]
    <3>1. PICK d \in published.tgt :
                  /\ TgtVerifies(d, mSnap, mRoot)
                  /\ storedMeta' = [storedMeta EXCEPT !.targets = d]
      BY <2>5
    <3>2. pc = "targets"
      BY <2>5 DEF UpdateTargets
    <3>3. sn # None /\ mSnap = sn /\ d.ver = sn.tver
      BY <3>1, <3>2, <2>0 DEF StoreInv, TgtVerifies
    <3>4. g # None => g.ver <= sn.tver
      BY <2>0 DEF StoredOrdered
    <3>5. storedMeta'.targets = d /\ storedMeta'.timestamp = t
          /\ storedMeta'.snapshot = sn
      BY <3>1, <2>w
    <3>. QED
      BY <3>3, <3>4, <3>5, <3>1, <2>v
  <2>. QED
    BY <2>0, <2>1, <2>2, <2>3, <2>4, <2>5, <1>1, MetaWrites
<1>. QED
  BY InitOrderInv, NextOrderInv, <1>1, PTL DEF Spec, MetaNoRollback

=============================================================================
