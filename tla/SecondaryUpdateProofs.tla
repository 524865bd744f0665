------------------------- MODULE SecondaryUpdateProofs -------------------------
(***************************************************************************)
(* Proofs about the Primary's update of a Virtual Secondary: the model's  *)
(* variables keep their types for every MaxRoot, with or without power    *)
(* loss; and, when updateRoot's two writes are not torn apart by a power  *)
(* loss, an install reports ok only under the Primary's latest Roots with *)
(* the whole bundle.                                                       *)
(***************************************************************************)
EXTENDS SecondaryUpdate, TLAPS

(* Every role key names a repository, and each repository has a Targets   *)
(* role.                                                                    *)
LEMMA MetaKeysFacts ==
    /\ \A k \in MetaKeys : k[1] \in Repos
    /\ \A r \in Repos : <<r, "targets">> \in MetaKeys
BY DEF MetaKeys, Repos, Roles

-----------------------------------------------------------------------------
(* TypeOK is inductive by itself.                                          *)

LEMMA InitTypeOK == Init => TypeOK
<1> SUFFICES ASSUME Init PROVE TypeOK
  OBVIOUS
<1>1. 1 \in Versions /\ 0 \in 0 .. MaxRoot /\ 1 \in 1 .. MaxRoot + 1
  BY SecondaryAssumption DEF Versions
<1> QED
  BY <1>1 DEF Init, TypeOK, Results, Repos

(* The Primary's writes: storeRoot, clearNonRootMeta, a power loss between *)
(* them, and updateMeta.                                                   *)
LEMMA PrimaryTypeOK ==
    ASSUME TypeOK,
           PrimaryStoreRoot \/ PrimaryClearMeta \/ PrimaryCrash \/ PrimaryStoresMeta
    PROVE  TypeOK'
<1>1. CASE PrimaryStoreRoot
  <2>1. PICK r \in Repos :
          /\ pRoot[r] < MaxRoot
          /\ pRoot' = [pRoot EXCEPT ![r] = pRoot[r] + 1]
          /\ clearing' = r
    BY <1>1 DEF PrimaryStoreRoot
  <2>2. pRoot' \in [Repos -> Versions]
    BY <2>1, SecondaryAssumption DEF TypeOK, Versions
  <2> QED
    BY <1>1, <2>1, <2>2 DEF TypeOK, PrimaryStoreRoot, cycleVars
<1>2. CASE PrimaryClearMeta
  <2>1. pMeta' \in [MetaKeys -> 0 .. MaxRoot]
    BY <1>2, SecondaryAssumption DEF TypeOK, PrimaryClearMeta
  <2>2. clearing' \in Repos \cup {"none"} /\ UNCHANGED pRoot /\ UNCHANGED cycleVars
    BY <1>2 DEF PrimaryClearMeta
  <2> QED
    BY <2>1, <2>2 DEF TypeOK, cycleVars
<1>3. CASE PrimaryCrash
  BY <1>3 DEF TypeOK, PrimaryCrash, cycleVars
<1>4. CASE PrimaryStoresMeta
  <2>1. PICK r \in Repos : \E S \in SUBSET (Roles(r) \ {"root"}) :
          pMeta' = [k \in MetaKeys |->
                      IF k[1] = r /\ k[2] \in S THEN pRoot[r] ELSE pMeta[k]]
    BY <1>4 DEF PrimaryStoresMeta
  <2>2. pMeta' \in [MetaKeys -> 0 .. MaxRoot]
    BY <2>1 DEF TypeOK, Versions
  <2> QED
    BY <1>4, <2>2 DEF TypeOK, PrimaryStoresMeta, cycleVars
<1> QED
  BY <1>1, <1>2, <1>3, <1>4

(* The steps of a cycle.                                                   *)
LEMMA CycleTypeOK ==
    ASSUME TypeOK,
           StartCycle \/ RotateDone \/ PutRoot \/ PutMetadata
             \/ SendFirmware \/ Install
    PROVE  TypeOK'
<1>1. CASE StartCycle \/ RotateDone
  BY <1>1, SecondaryAssumption DEF TypeOK, StartCycle, RotateDone, Versions, Repos
<1>2. CASE PutRoot
  <2>1. pushVer <= pRoot[repo] /\ pRoot[repo] \in Versions /\ repo \in Repos
        /\ pushVer \in 1 .. MaxRoot + 1
    BY <1>2 DEF PutRoot, RootsLeft, TypeOK
  <2>2. pushVer + 1 \in 1 .. MaxRoot + 1 /\ pushVer \in Versions
    BY <2>1, SecondaryAssumption DEF Versions
  <2>3. sRoot' \in [Repos -> Versions]
    BY <1>2, <2>2 DEF PutRoot, TypeOK
  <2> QED
    BY <1>2, <2>2, <2>3 DEF PutRoot, TypeOK, Results
<1>3. CASE PutMetadata \/ SendFirmware \/ Install
  BY <1>3 DEF TypeOK, PutMetadata, SendFirmware, Install, Results
<1> QED
  BY <1>1, <1>2, <1>3

LEMMA NextTypeOK == TypeOK /\ [Next]_vars => TypeOK'
<1> SUFFICES ASSUME TypeOK, [Next]_vars PROVE TypeOK'
  OBVIOUS
<1>1. CASE UNCHANGED vars
  BY <1>1 DEF vars, TypeOK
<1> QED
  BY <1>1, PrimaryTypeOK, CycleTypeOK DEF Next

(* The model's variables keep their types for every MaxRoot, with or      *)
(* without power loss between storeRoot and clearNonRootMeta: Root        *)
(* versions stay within 1 .. MaxRoot, putRoot's next version within one   *)
(* above, and at most one repository awaits its clear.                     *)
THEOREM SecondaryTypeOKThm == Spec => []TypeOK
BY InitTypeOK, NextTypeOK, PTL DEF Spec

-----------------------------------------------------------------------------
(* The inductive invariant of InstallUnderCurrentRoots, without power     *)
(* loss.  A role the Primary stores is signed under the Primary's latest   *)
(* Root of its repository, or, between storeRoot and clearNonRootMeta, of *)
(* the Root just below it; that window lies between cycles; and from the  *)
(* accepted putMetadata to the end of the install the Secondary holds the *)
(* Primary's Roots and its whole bundle.                                   *)
StoredUnder(k) ==
    IF k[1] = clearing THEN {0, pRoot[k[1]] - 1} ELSE {0, pRoot[k[1]]}

SInv ==
    /\ TypeOK
    /\ \A k \in MetaKeys : pMeta[k] \in StoredUnder(k)
    /\ clearing # "none" => phase = "idle"
    /\ phase \in {"firmware", "install"} =>
         /\ clearing = "none"
         /\ sRoot = pRoot /\ sMeta = pMeta
         /\ \A k \in MetaKeys : pMeta[k] # 0

LEMMA InitSInv == Init => SInv
<1> SUFFICES ASSUME Init PROVE SInv
  OBVIOUS
<1>1. TypeOK
  BY InitTypeOK
<1> QED
  BY <1>1 DEF Init, SInv, StoredUnder

LEMMA StoreRootSInv == SInv /\ PrimaryStoreRoot => SInv'
<1> SUFFICES ASSUME SInv, PrimaryStoreRoot PROVE SInv'
  OBVIOUS
<1>1. PICK r \in Repos :
        /\ pRoot[r] < MaxRoot
        /\ pRoot' = [pRoot EXCEPT ![r] = pRoot[r] + 1]
        /\ clearing' = r
  BY DEF PrimaryStoreRoot
<1>2. TypeOK'
  BY PrimaryTypeOK DEF SInv
<1>3. \A k \in MetaKeys : pMeta'[k] \in StoredUnder(k)'
  <2> SUFFICES ASSUME NEW k \in MetaKeys PROVE pMeta'[k] \in StoredUnder(k)'
    OBVIOUS
  <2>1. k[1] \in Repos /\ pRoot[k[1]] \in Nat
    BY MetaKeysFacts DEF SInv, TypeOK, Versions
  <2>2. pMeta[k] \in {0, pRoot[k[1]]} /\ pMeta' = pMeta
    BY <2>1 DEF SInv, StoredUnder, PrimaryStoreRoot, Repos
  <2> QED
    BY <1>1, <2>1, <2>2 DEF StoredUnder, SInv, TypeOK
<1> QED
  BY <1>1, <1>2, <1>3 DEF SInv, PrimaryStoreRoot, cycleVars

LEMMA ClearMetaSInv == SInv /\ PrimaryClearMeta => SInv'
<1> SUFFICES ASSUME SInv, PrimaryClearMeta PROVE SInv'
  OBVIOUS
<1>1. TypeOK'
  BY PrimaryTypeOK DEF SInv
<1>2. \A k \in MetaKeys : pMeta'[k] \in StoredUnder(k)'
  BY MetaKeysFacts DEF SInv, StoredUnder, PrimaryClearMeta, Repos
<1> QED
  BY <1>1, <1>2 DEF SInv, PrimaryClearMeta, cycleVars

LEMMA StoresMetaSInv == SInv /\ PrimaryStoresMeta => SInv'
<1> SUFFICES ASSUME SInv, PrimaryStoresMeta PROVE SInv'
  OBVIOUS
<1>0. PICK r \in Repos : \E S \in SUBSET (Roles(r) \ {"root"}) :
        pMeta' = [k \in MetaKeys |->
                    IF k[1] = r /\ k[2] \in S THEN pRoot[r] ELSE pMeta[k]]
  BY DEF PrimaryStoresMeta
<1>1. PICK S \in SUBSET (Roles(r) \ {"root"}) :
        pMeta' = [k \in MetaKeys |->
                    IF k[1] = r /\ k[2] \in S THEN pRoot[r] ELSE pMeta[k]]
  BY <1>0
<1>2. TypeOK'
  BY PrimaryTypeOK DEF SInv
<1>3. \A k \in MetaKeys : pMeta'[k] \in StoredUnder(k)'
  BY <1>1, MetaKeysFacts DEF SInv, StoredUnder, PrimaryStoresMeta, Repos
<1> QED
  BY <1>2, <1>3 DEF SInv, PrimaryStoresMeta, cycleVars

(* The steps of a cycle other than putMetadata leave the Store alone.      *)
LEMMA CycleStepsSInv ==
    ASSUME SInv, StartCycle \/ RotateDone \/ PutRoot \/ SendFirmware \/ Install
    PROVE  SInv'
<1>1. TypeOK'
  BY CycleTypeOK DEF SInv
<1>2. CASE StartCycle \/ RotateDone \/ PutRoot
  BY <1>1, <1>2 DEF SInv, StoredUnder, StartCycle, RotateDone, PutRoot
<1>3. CASE SendFirmware \/ Install
  BY <1>1, <1>3 DEF SInv, StoredUnder, SendFirmware, Install
<1> QED
  BY <1>2, <1>3

LEMMA PutMetadataSInv == SInv /\ PutMetadata => SInv'
<1> SUFFICES ASSUME SInv, PutMetadata PROVE SInv'
  OBVIOUS
<1>0. TypeOK' /\ clearing = "none" /\ UNCHANGED <<pRoot, pMeta, sRoot, clearing>>
  BY CycleTypeOK DEF SInv, PutMetadata
<1>1. CASE phase' = "firmware"
  <2>1. GetMetadataOk /\ ManagedVerify(pMeta) /\ sMeta' = pMeta
    BY <1>1 DEF PutMetadata
  <2>2. \A r \in Repos : sRoot[r] = pRoot[r]
    <3> SUFFICES ASSUME NEW r \in Repos PROVE sRoot[r] = pRoot[r]
      OBVIOUS
    <3>1. <<r, "targets">> \in MetaKeys
      BY MetaKeysFacts
    <3>2. pMeta[<<r, "targets">>] = sRoot[r]
          /\ pMeta[<<r, "targets">>] # 0
      BY <2>1, <3>1 DEF ManagedVerify, GetMetadataOk
    <3>3. pMeta[<<r, "targets">>] \in {0, pRoot[r]}
      BY <1>0, <3>1 DEF SInv, StoredUnder, Repos
    <3> QED
      BY <3>2, <3>3
  <2>3. sRoot = pRoot
    BY <2>2 DEF SInv, TypeOK
  <2> QED
    BY <1>0, <1>1, <2>1, <2>3 DEF PutMetadata, GetMetadataOk, SInv, StoredUnder
<1>2. CASE phase' # "firmware"
  BY <1>0, <1>2 DEF PutMetadata, SInv, StoredUnder
<1> QED
  BY <1>1, <1>2

(* A power loss is the one step that breaks SInv: it leaves the roles of  *)
(* a repository under the Root below its latest.                           *)
LEMMA NextSInv ==
    ASSUME ~CrashPossible
    PROVE  SInv /\ [Next]_vars => SInv'
<1> SUFFICES ASSUME SInv, [Next]_vars PROVE SInv'
  OBVIOUS
<1>1. ~PrimaryCrash
  BY DEF PrimaryCrash
<1>2. CASE UNCHANGED vars
  BY <1>2 DEF vars, SInv, TypeOK, StoredUnder
<1> QED
  BY <1>1, <1>2, StoreRootSInv, ClearMetaSInv, StoresMetaSInv, CycleStepsSInv,
     PutMetadataSInv DEF Next

(* Without power loss between storeRoot and clearNonRootMeta, an install  *)
(* that reports ok happens only with the Secondary holding the Primary's  *)
(* latest Director and Image Roots and the Primary's whole bundle,        *)
(* whichever of VirtualSecondary's fault points fire (the putRoot fault   *)
(* that answers kOk included) and however the Primary's Store changed     *)
(* before the cycle.  The secondary_stale run shows a power loss breaks it.*)
THEOREM InstallUnderCurrentRootsThm ==
    ASSUME ~CrashPossible
    PROVE  Spec => InstallUnderCurrentRoots
<1>1. SInv /\ [Next]_vars =>
        [phase = "install" /\ result' = "ok"
           => /\ sRoot = pRoot
              /\ \A k \in MetaKeys : sMeta[k] = pMeta[k] /\ sMeta[k] # 0]_vars
  BY DEF SInv
<1> QED
  BY InitSInv, NextSInv, <1>1, PTL DEF Spec, InstallUnderCurrentRoots

=============================================================================
