---------------------------- MODULE SecondaryUpdate ----------------------------
(***************************************************************************)
(* The Primary updating one Virtual Secondary (spec 4.7): bring the        *)
(* Secondary's Director and Image Roots up to the Primary's, one version  *)
(* per putRoot; send the metadata bundle SecondaryProvider::getMetadata   *)
(* builds from the Primary's Store; send the firmware; install.           *)
(*                                                                         *)
(* VirtualSecondary (virtual_secondary/virtualsecondary.cc) wraps each    *)
(* call in a fault-injection point that, when it fires, returns a result  *)
(* without calling the managed Secondary.  The managed Secondary accepts  *)
(* a Root of the next version only, and metadata only if every role is    *)
(* signed under the Root it holds for that repository (spec 4.4, 4.7).   *)
(*                                                                         *)
(* A stored role is the Root version it is signed under, 0 if absent.     *)
(* The Store changes only between update cycles: commands run one at a    *)
(* time (spec 5).  updateRoot stores a new Root and clears the non-root   *)
(* roles in two writes; power may be lost between them.                    *)
(***************************************************************************)
EXTENDS Naturals

CONSTANTS MaxRoot,        \* the highest Root version
          CrashPossible   \* power may be lost between storeRoot and the clear

ASSUME SecondaryAssumption ==
    MaxRoot \in Nat \ {0} /\ CrashPossible \in BOOLEAN

Repos == {"director", "image"}
Roles(r) == IF r = "director" THEN {"root", "targets"}
            ELSE {"root", "timestamp", "snapshot", "targets"}
MetaKeys == UNION {{<<r, role>> : role \in Roles(r) \ {"root"}} : r \in Repos}
Versions == 1 .. MaxRoot

Results == {"none", "ok", "putroot_failed", "meta_missing",
            "verification_failed", "download_failed", "install_failed"}

VARIABLES
    pRoot,   \* the Primary's latest stored Root, per repository
    pMeta,   \* the Primary's stored non-root roles
    sRoot,   \* the Secondary's Root, per repository
    sMeta,   \* the non-root roles the Secondary accepted
    phase,   \* "idle", "rotate", "meta", "firmware", "install"
    repo,    \* the repository whose Root is being rotated
    pushVer, \* the Root version putRoot sends next
    result,  \* the outcome of the last cycle
    clearing \* the repository whose roles updateRoot clears next, or "none"

vars == <<pRoot, pMeta, sRoot, sMeta, phase, repo, pushVer, result, clearing>>
cycleVars == <<sRoot, sMeta, phase, repo, pushVer, result>>

-----------------------------------------------------------------------------
(* The Primary's Store, between cycles.                                    *)

(* updateRoot's loop: storeRoot writes the next Root of a repository.      *)
PrimaryStoreRoot ==
    /\ phase = "idle" /\ clearing = "none"
    /\ \E r \in Repos :
         /\ pRoot[r] < MaxRoot
         /\ pRoot' = [pRoot EXCEPT ![r] = pRoot[r] + 1]
         /\ clearing' = r
    /\ UNCHANGED pMeta /\ UNCHANGED cycleVars

(* The next statement, clearNonRootMeta, drops the repository's roles.     *)
PrimaryClearMeta ==
    /\ clearing # "none"
    /\ pMeta' = [k \in MetaKeys |-> IF k[1] = clearing THEN 0 ELSE pMeta[k]]
    /\ clearing' = "none"
    /\ UNCHANGED pRoot /\ UNCHANGED cycleVars

(* Power is lost between the two writes: after the restart the Store holds *)
(* the new Root and the roles signed under the old one.                    *)
PrimaryCrash ==
    /\ CrashPossible /\ clearing # "none"
    /\ clearing' = "none"
    /\ UNCHANGED <<pRoot, pMeta>> /\ UNCHANGED cycleVars

(* updateMeta stores some of the roles, signed under the latest Root.     *)
PrimaryStoresMeta ==
    /\ phase = "idle" /\ clearing = "none"
    /\ \E r \in Repos : \E S \in SUBSET (Roles(r) \ {"root"}) :
         pMeta' = [k \in MetaKeys |->
                     IF k[1] = r /\ k[2] \in S THEN pRoot[r] ELSE pMeta[k]]
    /\ UNCHANGED <<pRoot, clearing>> /\ UNCHANGED cycleVars

-----------------------------------------------------------------------------
(* The managed Secondary (not in this repository; spec 4.4 and 4.7).      *)

ManagedPutRoot(v) == v = sRoot[repo] + 1

(* Metadata verifies if every role of the bundle is signed under the Root *)
(* the Secondary holds for its repository.                                 *)
ManagedVerifyUnchecked(bundle) == TRUE
ManagedVerify(bundle) == \A k \in MetaKeys : bundle[k] = sRoot[k[1]]

-----------------------------------------------------------------------------
(* SecondaryProvider::getMetadata: the latest Root and every non-root role *)
(* of the Director and then the Image repository; false if one is absent. *)
GetMetadataOk == \A k \in MetaKeys : pMeta[k] # 0

-----------------------------------------------------------------------------
(* The Primary's update of the Secondary (spec 4.7).                       *)

(* Versions above the Secondary's are left to push for the repository.   *)
RootsLeftOffByOne == pushVer <= pRoot[repo] + 1
RootsLeft == pushVer <= pRoot[repo]

(* A cycle starts with the Director Root, from the Secondary's version.   *)
StartCycle ==
    /\ phase = "idle" /\ clearing = "none"
    /\ phase' = "rotate"
    /\ repo' = "director"
    /\ pushVer' = sRoot["director"] + 1
    /\ UNCHANGED <<pRoot, pMeta, sRoot, sMeta, result, clearing>>

(* The Root of the current repository is up to date: go on with the Image *)
(* repository, or with the metadata.                                       *)
RotateDone ==
    /\ phase = "rotate"
    /\ ~RootsLeft
    /\ IF repo = "director"
         THEN repo' = "image" /\ pushVer' = sRoot["image"] + 1
              /\ UNCHANGED phase
         ELSE phase' = "meta" /\ UNCHANGED <<repo, pushVer>>
    /\ UNCHANGED <<pRoot, pMeta, sRoot, sMeta, result, clearing>>

(* VirtualSecondary::putRoot: the fault point "secondary_putroot" returns *)
(* a result with ResultCode kOk and "Forced failure"; otherwise the       *)
(* managed Secondary's putRoot.  A failure ends the cycle.                 *)
PutRoot ==
    /\ phase = "rotate"
    /\ RootsLeft
    /\ \/ \* the fault fires: kOk, the Secondary untouched
          /\ pushVer' = pushVer + 1
          /\ UNCHANGED <<sRoot, phase, result>>
       \/ /\ ManagedPutRoot(pushVer)
          /\ sRoot' = [sRoot EXCEPT ![repo] = pushVer]
          /\ pushVer' = pushVer + 1
          /\ UNCHANGED <<phase, result>>
       \/ /\ ~ManagedPutRoot(pushVer)
          /\ phase' = "idle" /\ result' = "putroot_failed"
          /\ UNCHANGED <<sRoot, pushVer>>
    /\ UNCHANGED <<pRoot, pMeta, sMeta, repo, clearing>>

(* getMetadata, then VirtualSecondary::putMetadata: the fault point       *)
(* returns kVerificationFailed; otherwise the managed Secondary verifies. *)
PutMetadata ==
    /\ phase = "meta"
    /\ IF ~GetMetadataOk
         THEN phase' = "idle" /\ result' = "meta_missing" /\ UNCHANGED sMeta
         ELSE \/ \* the fault fires
                 /\ phase' = "idle" /\ result' = "verification_failed"
                 /\ UNCHANGED sMeta
              \/ /\ ManagedVerify(pMeta)
                 /\ sMeta' = pMeta /\ phase' = "firmware"
                 /\ UNCHANGED result
              \/ /\ ~ManagedVerify(pMeta)
                 /\ phase' = "idle" /\ result' = "verification_failed"
                 /\ UNCHANGED sMeta
    /\ UNCHANGED <<pRoot, pMeta, sRoot, repo, pushVer, clearing>>

(* VirtualSecondary::sendFirmware: the fault point returns kDownloadFailed. *)
SendFirmware ==
    /\ phase = "firmware"
    /\ \/ phase' = "idle" /\ result' = "download_failed"
       \/ phase' = "install" /\ UNCHANGED result
    /\ UNCHANGED <<pRoot, pMeta, sRoot, sMeta, repo, pushVer, clearing>>

(* VirtualSecondary::install: the fault point returns kInstallFailed.     *)
Install ==
    /\ phase = "install"
    /\ phase' = "idle"
    /\ result' \in {"install_failed", "ok"}
    /\ UNCHANGED <<pRoot, pMeta, sRoot, sMeta, repo, pushVer, clearing>>

-----------------------------------------------------------------------------
(* Provisioned: both sides hold Root v1 and no other role.                 *)
Init ==
    /\ pRoot = [r \in Repos |-> 1]
    /\ pMeta = [k \in MetaKeys |-> 0]
    /\ sRoot = [r \in Repos |-> 1]
    /\ sMeta = [k \in MetaKeys |-> 0]
    /\ phase = "idle"
    /\ repo = "director"
    /\ pushVer = 1
    /\ result = "none"
    /\ clearing = "none"

Next ==
    \/ PrimaryStoreRoot \/ PrimaryClearMeta \/ PrimaryCrash \/ PrimaryStoresMeta
    \/ StartCycle \/ RotateDone \/ PutRoot
    \/ PutMetadata \/ SendFirmware \/ Install

Spec == Init /\ [][Next]_vars

-----------------------------------------------------------------------------
(* Properties.                                                             *)

TypeOK ==
    /\ pRoot \in [Repos -> Versions] /\ sRoot \in [Repos -> Versions]
    /\ pMeta \in [MetaKeys -> 0 .. MaxRoot] /\ sMeta \in [MetaKeys -> 0 .. MaxRoot]
    /\ phase \in {"idle", "rotate", "meta", "firmware", "install"}
    /\ repo \in Repos /\ pushVer \in 1 .. MaxRoot + 1
    /\ result \in Results
    /\ clearing \in Repos \cup {"none"}

(* A Secondary installs only firmware whose metadata it verified under    *)
(* the Primary's latest Roots: an install that reports ok happens with    *)
(* the Secondary holding the Primary's Roots and its complete bundle.     *)
(* The Secondary checks the roles against its own Root only, so this rests *)
(* on the Primary clearing a repository's roles whenever it stores a new  *)
(* Root of it.                                                             *)
InstallUnderCurrentRoots ==
    [][phase = "install" /\ result' = "ok"
         => /\ sRoot = pRoot
            /\ \A k \in MetaKeys : sMeta[k] = pMeta[k] /\ sMeta[k] # 0]_vars

=============================================================================
