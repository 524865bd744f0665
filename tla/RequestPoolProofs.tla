-------------------------- MODULE RequestPoolProofs --------------------------
(***************************************************************************)
(* Proof that LoopLaunch never has more than MaxConcurrency transfers in  *)
(* the multi handle, for every set of objects and every bound.            *)
(***************************************************************************)
EXTENDS RequestPool, FiniteSetTheorems, TLAPS

(* The inductive invariant.  running_requests_ counts at least every      *)
(* transfer curl runs or has completed since the last curl_multi_perform; *)
(* completed transfers wait to be read only inside the message loop, and *)
(* there they and running_requests_ stay within the bound together.       *)
PInv ==
    /\ TypeOK
    /\ IsFiniteSet(wire) /\ IsFiniteSet(landed) /\ IsFiniteSet(msgs)
    /\ Cardinality(wire) + Cardinality(landed) <= running
    /\ pc # "drain" => msgs = {}
    /\ running + Cardinality(msgs) <= MaxConcurrency


(* The union of two finite sets is finite and no larger than their sizes *)
(* together.                                                               *)
LEMMA CardUnionLe ==
    ASSUME NEW S, NEW T, IsFiniteSet(S), IsFiniteSet(T)
    PROVE  /\ IsFiniteSet(S \cup T)
           /\ Cardinality(S \cup T) <= Cardinality(S) + Cardinality(T)
<1>1. IsFiniteSet(S \cap T)
  BY FS_Subset
<1>2. Cardinality(S \cap T) \in Nat /\ Cardinality(S) \in Nat
      /\ Cardinality(T) \in Nat
  BY <1>1, FS_CardinalityType
<1>3. /\ IsFiniteSet(S \cup T)
      /\ Cardinality(S \cup T) =
           Cardinality(S) + Cardinality(T) - Cardinality(S \cap T)
  BY FS_Union
<1> QED
  BY <1>2, <1>3

(* Adding one element adds at most one to the size; removing a member    *)
(* takes one away.                                                         *)
LEMMA CardAddLe ==
    ASSUME NEW S, NEW x, IsFiniteSet(S)
    PROVE  /\ IsFiniteSet(S \cup {x})
           /\ Cardinality(S \cup {x}) <= Cardinality(S) + 1
           /\ Cardinality(S \cup {x}) \in Nat /\ Cardinality(S) \in Nat
<1>1. Cardinality(S) \in Nat
  BY FS_CardinalityType
<1>2. /\ IsFiniteSet(S \cup {x})
      /\ Cardinality(S \cup {x}) =
           IF x \in S THEN Cardinality(S) ELSE Cardinality(S) + 1
  BY FS_AddElement
<1> QED
  BY <1>1, <1>2

LEMMA CardRemove ==
    ASSUME NEW S, NEW x \in S, IsFiniteSet(S)
    PROVE  /\ IsFiniteSet(S \ {x})
           /\ Cardinality(S \ {x}) = Cardinality(S) - 1
           /\ Cardinality(S \ {x}) \in Nat /\ Cardinality(S) \in Nat
<1>1. /\ IsFiniteSet(S \ {x})
      /\ Cardinality(S \ {x}) =
           IF x \in S THEN Cardinality(S) - 1 ELSE Cardinality(S)
  BY FS_RemoveElement
<1>2. Cardinality(S \ {x}) \in Nat /\ Cardinality(S) \in Nat
  BY <1>1, FS_CardinalityType
<1> QED
  BY <1>1, <1>2

(* The empty set is finite, of size 0.                                     *)
LEMMA EmptyCard == IsFiniteSet({}) /\ Cardinality({}) = 0
BY FS_EmptySet

LEMMA InitPInv == Init => PInv
<1> SUFFICES ASSUME Init PROVE PInv
  OBVIOUS
<1>1. TypeOK
  <2>1. queryQ \in Seq(Objects) /\ uploadQ \in Seq(Objects)
    BY DEF Init
  <2>2. st \in [Objects -> States]
    BY DEF Init, States
  <2>3. running \in 0 .. MaxConcurrency /\ conc \in 1 .. MaxConcurrency
    BY PoolAssumption DEF Init
  <2> QED
    BY <2>1, <2>2, <2>3 DEF Init, TypeOK
<1> QED
  BY <1>1, PoolAssumption, EmptyCard DEF Init, PInv

(* The steps that only move the driver between the parts of Loop().      *)
LEMMA DriverStepsPInv ==
    ASSUME PInv, DriverStarts \/ LaunchEnd \/ DrainEnd \/ DriverChecks
    PROVE  PInv'
BY DEF PInv, TypeOK, options, DriverStarts, LaunchEnd, DrainEnd, DriverChecks

LEMMA DriverAddsPInv == PInv /\ DriverAdds => PInv'
<1> SUFFICES ASSUME PInv, DriverAdds PROVE PInv'
  OBVIOUS
<1>1. PICK o \in Objects : st[o] = "new" /\ AddQuery(o)
  BY DEF DriverAdds
<1>2. queryQ' \in Seq(Objects) /\ st' \in [Objects -> States]
  BY <1>1 DEF AddQuery, PInv, TypeOK, States
<1> QED
  BY <1>2 DEF DriverAdds, PInv, TypeOK, options

(* The sizes the invariant counts are natural numbers.                    *)
LEMMA CardNat ==
    ASSUME PInv
    PROVE  /\ Cardinality(wire) \in Nat /\ Cardinality(landed) \in Nat
           /\ Cardinality(msgs) \in Nat
BY FS_CardinalityType DEF PInv

(* The invariant taken apart, with the bound's type.                       *)
LEMMA PInvParts ==
    ASSUME PInv
    PROVE  /\ queryQ \in Seq(Objects) /\ uploadQ \in Seq(Objects)
           /\ running \in 0 .. MaxConcurrency /\ conc \in 1 .. MaxConcurrency
           /\ stopped \in BOOLEAN /\ wire \subseteq Transfers
           /\ landed \subseteq Transfers /\ msgs \subseteq Transfers
           /\ st \in [Objects -> States]
           /\ pc \in {"add", "launch", "listen", "drain", "check", "exit"}
           /\ fsckOnUpload \in BOOLEAN /\ dryRun \in BOOLEAN
           /\ MaxConcurrency \in Nat
           /\ IsFiniteSet(wire) /\ IsFiniteSet(landed) /\ IsFiniteSet(msgs)
           /\ Cardinality(wire) \in Nat /\ Cardinality(landed) \in Nat
           /\ Cardinality(msgs) \in Nat
           /\ Cardinality(wire) + Cardinality(landed) <= running
           /\ pc # "drain" => msgs = {}
           /\ running + Cardinality(msgs) <= MaxConcurrency
BY CardNat, PoolAssumption DEF PInv, TypeOK

(* The primed type invariant, from its conjuncts.                          *)
LEMMA TypeOKPrime ==
    ASSUME /\ queryQ' \in Seq(Objects) /\ uploadQ' \in Seq(Objects)
           /\ running' \in 0 .. MaxConcurrency /\ conc' \in 1 .. MaxConcurrency
           /\ stopped' \in BOOLEAN /\ wire' \subseteq Transfers
           /\ landed' \subseteq Transfers /\ msgs' \subseteq Transfers
           /\ st' \in [Objects -> States]
           /\ pc' \in {"add", "launch", "listen", "drain", "check", "exit"}
           /\ fsckOnUpload' \in BOOLEAN /\ dryRun' \in BOOLEAN
    PROVE  TypeOK'
BY DEF TypeOK

LEMMA LaunchOnePInv == PInv /\ LaunchOne => PInv'
<1> SUFFICES ASSUME PInv, LaunchOne PROVE PInv'
  OBVIOUS
<1>0. /\ running < conc /\ msgs = {} /\ pc = "launch"
      /\ UNCHANGED <<conc, landed, msgs, pc, options>>
  BY PInvParts DEF LaunchOne, LaunchGuard
<1>1. /\ fsckOnUpload' \in BOOLEAN /\ dryRun' \in BOOLEAN
      /\ conc' \in 1 .. MaxConcurrency /\ pc' = "launch"
      /\ landed' \subseteq Transfers /\ msgs' \subseteq Transfers
  BY <1>0, PInvParts DEF options
<1>2. TypeOK' /\ IsFiniteSet(wire')
      /\ Cardinality(wire') + Cardinality(landed') <= running'
  <2>1. CASE queryQ # <<>>
    <3> DEFINE x == <<Head(queryQ), "query">>
    <3>1. /\ queryQ' = Tail(queryQ) /\ wire' = wire \cup {x}
          /\ running' = running + 1 /\ UNCHANGED <<uploadQ, stopped, st>>
      BY <2>1 DEF LaunchOne, CountLaunch
    <3>2. x \in Transfers /\ Tail(queryQ) \in Seq(Objects)
      BY <2>1, PInvParts DEF Transfers, Kinds
    <3>3. /\ IsFiniteSet(wire') /\ Cardinality(wire') <= Cardinality(wire) + 1
          /\ Cardinality(wire') \in Nat
      BY <3>1, PInvParts, CardAddLe
    <3>4. TypeOK'
      <4>1. /\ queryQ' \in Seq(Objects) /\ uploadQ' \in Seq(Objects)
            /\ st' \in [Objects -> States] /\ stopped' \in BOOLEAN
        BY <3>1, <3>2, PInvParts
      <4>2. running' \in 0 .. MaxConcurrency
        BY <1>0, <3>1, PInvParts
      <4>3. wire' \subseteq Transfers
        BY <3>1, <3>2, PInvParts
      <4> QED
        BY <1>1, <4>1, <4>2, <4>3 DEF TypeOK
    <3> QED
      BY <1>0, <3>1, <3>3, <3>4, PInvParts
  <2>2. CASE queryQ = <<>>
    <3> DEFINE o == Head(uploadQ)
    <3>0. uploadQ # <<>> /\ o \in Objects /\ Tail(uploadQ) \in Seq(Objects)
      BY <2>2, PInvParts DEF LaunchOne, LaunchGuard
    <3>1. CASE fsckOnUpload /\ Abort /\ st' = [st EXCEPT ![o] = "corrupt"]
               /\ UNCHANGED <<wire, running>>
      <4>1. TypeOK'
        BY <1>1, <3>0, <3>1, PInvParts, TypeOKPrime DEF Abort, States
      <4> QED
        BY <1>0, <3>1, <4>1, PInvParts
    <3>2. CASE /\ running' = running + 1
               /\ uploadQ' = Tail(uploadQ)
               /\ IF dryRun
                    THEN st' = [st EXCEPT ![o] = "done"] /\ UNCHANGED wire
                    ELSE wire' = wire \cup {<<o, "upload">>} /\ UNCHANGED st
               /\ UNCHANGED <<queryQ, stopped>>
      <4>1. CASE dryRun
        <5>1. st' = [st EXCEPT ![o] = "done"] /\ wire' = wire
          BY <3>2, <4>1
        <5>2. TypeOK'
          BY <1>0, <1>1, <3>0, <3>2, <5>1, PInvParts, TypeOKPrime DEF States
        <5> QED
          BY <1>0, <3>2, <5>1, <5>2, PInvParts
      <4>2. CASE ~dryRun
        <5>1. wire' = wire \cup {<<o, "upload">>} /\ st' = st
              /\ <<o, "upload">> \in Transfers
          BY <3>0, <3>2, <4>2 DEF Transfers, Kinds
        <5>2. /\ IsFiniteSet(wire')
              /\ Cardinality(wire') <= Cardinality(wire) + 1
              /\ Cardinality(wire') \in Nat
          BY <5>1, PInvParts, CardAddLe
        <5>3. TypeOK'
          <6>1. /\ queryQ' \in Seq(Objects) /\ uploadQ' \in Seq(Objects)
                /\ st' \in [Objects -> States] /\ stopped' \in BOOLEAN
            BY <3>0, <3>2, <5>1, PInvParts
          <6>2. running' \in 0 .. MaxConcurrency
            BY <1>0, <3>2, PInvParts
          <6>3. wire' \subseteq Transfers
            BY <5>1, PInvParts
          <6> QED
            BY <1>1, <6>1, <6>2, <6>3 DEF TypeOK
        <5> QED
          BY <1>0, <3>2, <5>2, <5>3, PInvParts
      <4> QED
        BY <4>1, <4>2
    <3> QED
      BY <2>2, <3>1, <3>2 DEF LaunchOne, CountLaunch
  <2> QED
    BY <2>1, <2>2
<1>3. running' \in 0 .. MaxConcurrency
  BY <1>2 DEF TypeOK
<1> QED
  BY <1>0, <1>1, <1>2, <1>3, PInvParts, EmptyCard DEF PInv

LEMMA TransferCompletesPInv == PInv /\ TransferCompletes => PInv'
<1> SUFFICES ASSUME PInv, TransferCompletes PROVE PInv'
  OBVIOUS
<1>0. UNCHANGED <<queryQ, uploadQ, running, conc, stopped, msgs, st, pc, options>>
  BY DEF TransferCompletes
<1>1. PICK t \in wire : wire' = wire \ {t} /\ landed' = landed \cup {t}
  BY DEF TransferCompletes
<1>2. /\ IsFiniteSet(wire') /\ Cardinality(wire') = Cardinality(wire) - 1
      /\ IsFiniteSet(landed') /\ Cardinality(landed') <= Cardinality(landed) + 1
      /\ Cardinality(wire') \in Nat /\ Cardinality(landed') \in Nat
  BY <1>1, PInvParts, CardRemove, CardAddLe
<1>3. wire' \subseteq Transfers /\ landed' \subseteq Transfers
  BY <1>1, PInvParts
<1>4. TypeOK'
  BY <1>0, <1>3, PInvParts DEF TypeOK, options
<1> QED
  BY <1>0, <1>2, <1>4, PInvParts DEF PInv

LEMMA PerformPInv == PInv /\ Perform => PInv'
<1> SUFFICES ASSUME PInv, Perform PROVE PInv'
  OBVIOUS
<1>0. /\ running' = Cardinality(wire) /\ msgs' = landed /\ landed' = {}
      /\ pc' = "drain"
      /\ UNCHANGED <<queryQ, uploadQ, conc, stopped, wire, st, options>>
  BY DEF Perform, PerformCount
<1>1. running' \in 0 .. MaxConcurrency
  BY <1>0, PInvParts
<1>2. TypeOK'
  BY <1>0, <1>1, PInvParts DEF TypeOK, options
<1> QED
  BY <1>0, <1>2, PInvParts, EmptyCard DEF PInv

LEMMA DrainOnePInv == PInv /\ DrainOne => PInv'
<1> SUFFICES ASSUME PInv, DrainOne PROVE PInv'
  OBVIOUS
<1>0. /\ pc = "drain"
      /\ UNCHANGED <<running, wire, landed, pc, options>>
  BY DEF DrainOne
<1>1. PICK t \in msgs, ok \in BOOLEAN, c \in 1 .. MaxConcurrency :
        /\ msgs' = msgs \ {t}
        /\ conc' = c
        /\ \/ /\ st' = [st EXCEPT ![t[1]] = "done"]
              /\ UNCHANGED <<queryQ, uploadQ, stopped>>
           \/ /\ AddUpload(t[1])
              /\ UNCHANGED <<queryQ, stopped>>
           \/ /\ Abort
              /\ st' = [st EXCEPT ![t[1]] = "failed"]
           \/ /\ st' = [st EXCEPT ![t[1]] = "failed"]
              /\ UNCHANGED <<queryQ, uploadQ, stopped>>
  BY DEF DrainOne
<1>2. t[1] \in Objects
  BY PInvParts DEF Transfers
<1>3. /\ IsFiniteSet(msgs') /\ Cardinality(msgs') = Cardinality(msgs) - 1
      /\ Cardinality(msgs') \in Nat
  BY <1>1, PInvParts, CardRemove
<1>4. /\ queryQ' \in Seq(Objects) /\ uploadQ' \in Seq(Objects)
      /\ st' \in [Objects -> States] /\ stopped' \in BOOLEAN
  <2>1. [st EXCEPT ![t[1]] = "done"] \in [Objects -> States]
        /\ [st EXCEPT ![t[1]] = "failed"] \in [Objects -> States]
        /\ [st EXCEPT ![t[1]] = "launched"] \in [Objects -> States]
    BY <1>2, PInvParts DEF States
  <2>2. Append(uploadQ, t[1]) \in Seq(Objects)
    BY <1>2, PInvParts
  <2>3. <<>> \in Seq(Objects)
    OBVIOUS
  <2> QED
    BY <1>1, <2>1, <2>2, <2>3, PInvParts DEF AddUpload, Abort
<1>5. msgs' \subseteq Transfers
  BY <1>1, PInvParts
<1>6. TypeOK'
  BY <1>0, <1>1, <1>4, <1>5, PInvParts DEF TypeOK, options
<1> QED
  BY <1>0, <1>3, <1>6, PInvParts DEF PInv

LEMMA NextPInv == PInv /\ [Next]_vars => PInv'
<1> SUFFICES ASSUME PInv, [Next]_vars PROVE PInv'
  OBVIOUS
<1>1. CASE DriverAdds
  BY <1>1, DriverAddsPInv
<1>2. CASE DriverStarts \/ LaunchEnd \/ DrainEnd \/ DriverChecks
  BY <1>2, DriverStepsPInv
<1>3. CASE LaunchOne
  BY <1>3, LaunchOnePInv
<1>4. CASE TransferCompletes
  BY <1>4, TransferCompletesPInv
<1>5. CASE Perform
  BY <1>5, PerformPInv
<1>6. CASE DrainOne
  BY <1>6, DrainOnePInv
<1>7. CASE UNCHANGED vars
  BY <1>7 DEF vars, options, PInv, TypeOK
<1> QED
  BY <1>1, <1>2, <1>3, <1>4, <1>5, <1>6, <1>7 DEF Next

(* LoopLaunch keeps at most MaxConcurrency transfers in the multi handle, *)
(* for every set of objects, every bound and every way curl_multi_perform *)
(* and the rate controller change running_requests_ and the concurrency. *)
THEOREM InFlightBoundedThm == Spec => []InFlightBounded
<1>1. PInv => InFlightBounded
  <2> SUFFICES ASSUME PInv PROVE InFlightBounded
    OBVIOUS
  <2>1. IsFiniteSet(wire \cup landed)
        /\ Cardinality(wire \cup landed) <= Cardinality(wire) + Cardinality(landed)
    BY CardUnionLe DEF PInv
  <2>2. /\ IsFiniteSet(wire \cup landed \cup msgs)
        /\ Cardinality(wire \cup landed \cup msgs)
             <= Cardinality(wire \cup landed) + Cardinality(msgs)
    BY <2>1, CardUnionLe DEF PInv
  <2>3. /\ Cardinality(wire \cup landed) \in Nat
        /\ Cardinality(wire) \in Nat /\ Cardinality(landed) \in Nat
        /\ Cardinality(msgs) \in Nat
        /\ Cardinality(wire \cup landed \cup msgs) \in Nat
    BY <2>1, <2>2, FS_CardinalityType DEF PInv
  <2> QED
    BY <2>1, <2>2, <2>3, PInvParts DEF InFlightBounded
<1> QED
  BY InitPInv, NextPInv, <1>1, PTL DEF Spec


(* The pool's variables keep their types: the queues hold objects,        *)
(* running_requests_ stays within 0 .. MaxConcurrency and the rate        *)
(* controller's concurrency within 1 .. MaxConcurrency.                     *)
THEOREM PoolTypeOKThm == Spec => []TypeOK
<1>1. PInv => TypeOK
  BY DEF PInv
<1> QED
  BY InitPInv, NextPInv, <1>1, PTL DEF Spec


-----------------------------------------------------------------------------
(* What the driver's loop ends with.                                       *)

(* Object o waits in queue q.                                              *)
Queued(q, o) == \E i \in 1 .. Len(q) : q[i] = o

(* A transfer of o is in the multi handle.                                 *)
InFlight(o) == \E k \in Kinds : <<o, k>> \in wire \cup landed \cup msgs

(* o waits in a queue or has a transfer in the multi handle.              *)
Accounted(o) == Queued(queryQ, o) \/ Queued(uploadQ, o) \/ InFlight(o)

(* Every object was added before the loop.                                 *)
AddedAll == pc # "add" => \A o \in Objects : st[o] # "new"

(* The driver exits only with both queues empty and no request counted.  *)
ExitIdle == pc = "exit" => queryQ = << >> /\ uploadQ = << >> /\ running = 0

(* Unless the pool was aborted, no object is corrupt and a launched object *)
(* is accounted for.                                                       *)
NoneLost ==
    ~stopped =>
      \A o \in Objects :
        /\ st[o] # "corrupt"
        /\ st[o] = "launched" => Accounted(o)

(* The inductive invariant for ExitAccountsAll.                            *)
AInv == PInv /\ AddedAll /\ ExitIdle /\ NoneLost

(* Appending keeps what waits and adds the new element.                   *)
LEMMA QueuedAppend ==
    ASSUME NEW S, NEW q \in Seq(S), NEW x \in S, NEW o
    PROVE  Queued(Append(q, x), o) <=> Queued(q, o) \/ o = x
<1> DEFINE r == Append(q, x)
<1>1. Len(r) = Len(q) + 1 /\ r[Len(q) + 1] = x
  OBVIOUS
<1>2. \A i \in 1 .. Len(q) : r[i] = q[i]
  OBVIOUS
<1>3. Queued(r, o) => Queued(q, o) \/ o = x
  <2> SUFFICES ASSUME NEW i \in 1 .. Len(r), r[i] = o
               PROVE  Queued(q, o) \/ o = x
    BY DEF Queued
  <2>1. CASE i = Len(q) + 1
    BY <1>1, <2>1
  <2>2. CASE i \in 1 .. Len(q)
    BY <1>2, <2>2 DEF Queued
  <2> QED
    BY <1>1, <2>1, <2>2
<1>4. Queued(q, o) => Queued(r, o)
  BY <1>1, <1>2 DEF Queued
<1>5. o = x => Queued(r, o)
  BY <1>1 DEF Queued
<1> QED
  BY <1>3, <1>4, <1>5

(* Taking the head leaves everything else waiting.                         *)
LEMMA QueuedTail ==
    ASSUME NEW S, NEW q \in Seq(S), q # << >>, NEW o, Queued(q, o)
    PROVE  o = Head(q) \/ Queued(Tail(q), o)
<1>1. PICK i \in 1 .. Len(q) : q[i] = o
  BY DEF Queued
<1>2. CASE i = 1
  BY <1>1, <1>2
<1>3. CASE i > 1
  <2>1. i - 1 \in 1 .. Len(Tail(q)) /\ Tail(q)[i - 1] = o
    BY <1>1, <1>3
  <2> QED
    BY <2>1 DEF Queued
<1> QED
  BY <1>2, <1>3

LEMMA QueuedEmpty == ASSUME NEW o PROVE ~Queued(<< >>, o)
BY DEF Queued


LEMMA InitAInv == Init => AInv
<1> SUFFICES ASSUME Init PROVE AInv
  OBVIOUS
<1>1. PInv
  BY InitPInv
<1> QED
  BY <1>1 DEF Init, AInv, AddedAll, ExitIdle, NoneLost

(* An abort makes NoneLost hold whatever the objects' states.              *)
LEMMA StoppedNoneLost == stopped' = TRUE => NoneLost'
BY DEF NoneLost

(* A step that keeps the queues, the objects and what is in the multi     *)
(* handle keeps NoneLost.                                                  *)
LEMMA SameNoneLost ==
    ASSUME NoneLost,
           UNCHANGED <<queryQ, uploadQ, stopped, st>>,
           wire \cup landed \cup msgs = wire' \cup landed' \cup msgs'
    PROVE  NoneLost'
BY DEF NoneLost, Accounted, Queued, InFlight

LEMMA DriverAddsAInv == AInv /\ DriverAdds => AInv'
<1> SUFFICES ASSUME AInv, DriverAdds PROVE AInv'
  OBVIOUS
<1>1. PInv'
  BY DriverAddsPInv DEF AInv
<1>2. PICK x \in Objects : st[x] = "new" /\ AddQuery(x)
  BY DEF DriverAdds
<1>3. NoneLost'
  <2>1. CASE stopped
    BY <2>1, StoppedNoneLost DEF DriverAdds
  <2>2. CASE ~stopped
    <3>1. queryQ' = Append(queryQ, x) /\ st' = [st EXCEPT ![x] = "launched"]
      BY <1>2, <2>2 DEF AddQuery
    <3>2. queryQ \in Seq(Objects) /\ st \in [Objects -> States]
      BY PInvParts DEF AInv
    <3>3. \A o \in Objects : Queued(queryQ, o) => Queued(queryQ', o)
      BY <3>1, <3>2, QueuedAppend
    <3>4. Queued(queryQ', x)
      BY <3>1, <3>2, QueuedAppend
    <3>5. UNCHANGED <<uploadQ, stopped, wire, landed, msgs>>
      BY DEF DriverAdds
    <3> QED
      BY <2>2, <3>1, <3>2, <3>3, <3>4, <3>5 DEF AInv, NoneLost, Accounted, InFlight
  <2> QED
    BY <2>1, <2>2
<1> QED
  BY <1>1, <1>3 DEF DriverAdds, AInv, AddedAll, ExitIdle

LEMMA DriverStepsAInv ==
    ASSUME AInv, DriverStarts \/ LaunchEnd \/ DrainEnd \/ DriverChecks
    PROVE  AInv'
<1>1. PInv'
  BY DriverStepsPInv DEF AInv
<1>2. NoneLost'
  BY SameNoneLost DEF AInv, DriverStarts, LaunchEnd, DrainEnd, DriverChecks
<1>3. AddedAll' /\ ExitIdle'
  BY DEF AInv, AddedAll, ExitIdle, DriverStarts, LaunchEnd, DrainEnd,
     DriverChecks, IsIdle
<1> QED
  BY <1>1, <1>2, <1>3 DEF AInv

LEMMA TransferCompletesAInv == AInv /\ TransferCompletes => AInv'
<1> SUFFICES ASSUME AInv, TransferCompletes PROVE AInv'
  OBVIOUS
<1>1. PInv'
  BY TransferCompletesPInv DEF AInv
<1>2. wire \cup landed \cup msgs = wire' \cup landed' \cup msgs'
  BY DEF TransferCompletes
<1>3. NoneLost'
  BY <1>2, SameNoneLost DEF AInv, TransferCompletes
<1> QED
  BY <1>1, <1>3 DEF AInv, AddedAll, ExitIdle, TransferCompletes

LEMMA PerformAInv == AInv /\ Perform => AInv'
<1> SUFFICES ASSUME AInv, Perform PROVE AInv'
  OBVIOUS
<1>1. PInv'
  BY PerformPInv DEF AInv
<1>2. msgs = {}
  BY PInvParts DEF AInv, Perform
<1>3. wire \cup landed \cup msgs = wire' \cup landed' \cup msgs'
  BY <1>2 DEF Perform
<1>4. NoneLost'
  BY <1>3, SameNoneLost DEF AInv, Perform
<1> QED
  BY <1>1, <1>4 DEF AInv, AddedAll, ExitIdle, Perform


LEMMA LaunchOneAInv == AInv /\ LaunchOne => AInv'
<1> SUFFICES ASSUME AInv, LaunchOne PROVE AInv'
  OBVIOUS
<1>1. PInv'
  BY LaunchOnePInv DEF AInv
<1>2. /\ pc = "launch" /\ UNCHANGED <<landed, msgs, pc>>
      /\ queryQ \in Seq(Objects) /\ uploadQ \in Seq(Objects)
      /\ st \in [Objects -> States]
  BY PInvParts DEF AInv, LaunchOne
<1>3. \A o \in Objects : st[o] # "new"
  BY <1>2 DEF AInv, AddedAll
<1>4. CASE queryQ # << >>
  <2> DEFINE x == Head(queryQ)
  <2>1. /\ queryQ' = Tail(queryQ) /\ wire' = wire \cup {<<x, "query">>}
        /\ UNCHANGED <<uploadQ, stopped, st>>
    BY <1>4 DEF LaunchOne
  <2>2. \A o \in Objects : Accounted(o) => Accounted(o)'
    <3> SUFFICES ASSUME NEW o \in Objects, Accounted(o) PROVE Accounted(o)'
      OBVIOUS
    <3>1. CASE Queued(queryQ, o)
      <4>1. o = x \/ Queued(Tail(queryQ), o)
        BY <1>2, <1>4, <3>1, QueuedTail
      <4>2. o = x => InFlight(o)'
        BY <2>1 DEF InFlight, Kinds
      <4> QED
        BY <2>1, <4>1, <4>2 DEF Accounted
    <3>2. CASE ~Queued(queryQ, o)
      BY <1>2, <2>1, <3>2 DEF Accounted, Queued, InFlight
    <3> QED
      BY <3>1, <3>2
  <2>3. NoneLost'
    BY <2>1, <2>2 DEF AInv, NoneLost
  <2> QED
    BY <1>1, <1>2, <1>3, <2>1, <2>3 DEF AInv, AddedAll, ExitIdle
<1>5. CASE queryQ = << >>
  <2> DEFINE x == Head(uploadQ)
  <2>0. uploadQ # << >> /\ x \in Objects
    BY <1>2, <1>5 DEF LaunchOne, LaunchGuard
  <2>1. CASE fsckOnUpload /\ Abort /\ st' = [st EXCEPT ![x] = "corrupt"]
             /\ UNCHANGED <<wire, running>>
    <3>1. NoneLost'
      BY <2>1, StoppedNoneLost DEF Abort
    <3>2. AddedAll' /\ ExitIdle'
      BY <1>2, <1>3, <2>1 DEF AddedAll, ExitIdle
    <3> QED
      BY <1>1, <3>1, <3>2 DEF AInv
  <2>2. CASE /\ uploadQ' = Tail(uploadQ)
             /\ IF dryRun
                  THEN st' = [st EXCEPT ![x] = "done"] /\ UNCHANGED wire
                  ELSE wire' = wire \cup {<<x, "upload">>} /\ UNCHANGED st
             /\ UNCHANGED <<queryQ, stopped>>
    <3>1. \A o \in Objects : st'[o] = "launched" /\ Accounted(o) => Accounted(o)'
      <4> SUFFICES ASSUME NEW o \in Objects, st'[o] = "launched", Accounted(o)
                   PROVE  Accounted(o)'
        OBVIOUS
      <4>1. wire \subseteq wire'
        BY <2>2
      <4>2. CASE Queued(uploadQ, o)
        <5>1. o = x \/ Queued(Tail(uploadQ), o)
          BY <1>2, <2>0, <4>2, QueuedTail
        <5>2. o = x => InFlight(o)'
          <6>1. CASE dryRun
            BY <1>2, <2>0, <2>2, <6>1
          <6>2. CASE ~dryRun
            BY <2>2, <6>2 DEF InFlight, Kinds
          <6> QED
            BY <6>1, <6>2
        <5> QED
          BY <2>2, <5>1, <5>2 DEF Accounted
      <4>3. CASE ~Queued(uploadQ, o)
        BY <1>2, <2>2, <4>1, <4>3 DEF Accounted, Queued, InFlight
      <4> QED
        BY <4>2, <4>3
    <3>2. \A o \in Objects : st'[o] = "launched" => st[o] = "launched"
      BY <1>2, <2>2
    <3>3. \A o \in Objects : st'[o] # "corrupt" \/ st[o] = "corrupt"
      BY <1>2, <2>2
    <3>4. NoneLost'
      BY <2>2, <3>1, <3>2, <3>3 DEF AInv, NoneLost
    <3>5. \A o \in Objects : st'[o] # "new"
      BY <1>2, <1>3, <2>2
    <3> QED
      BY <1>1, <1>2, <3>4, <3>5 DEF AInv, AddedAll, ExitIdle
  <2> QED
    BY <1>5, <2>1, <2>2 DEF LaunchOne
<1> QED
  BY <1>4, <1>5


LEMMA DrainOneAInv == AInv /\ DrainOne => AInv'
<1> SUFFICES ASSUME AInv, DrainOne PROVE AInv'
  OBVIOUS
<1>1. PInv'
  BY DrainOnePInv DEF AInv
<1>2. /\ pc = "drain" /\ UNCHANGED <<wire, landed, pc>>
      /\ queryQ \in Seq(Objects) /\ uploadQ \in Seq(Objects)
      /\ st \in [Objects -> States] /\ msgs \subseteq Transfers
  BY PInvParts DEF AInv, DrainOne
<1>3. PICK t \in msgs, ok \in BOOLEAN, c \in 1 .. MaxConcurrency :
        /\ msgs' = msgs \ {t}
        /\ \/ /\ st' = [st EXCEPT ![t[1]] = "done"]
              /\ UNCHANGED <<queryQ, uploadQ, stopped>>
           \/ /\ AddUpload(t[1])
              /\ UNCHANGED <<queryQ, stopped>>
           \/ /\ Abort
              /\ st' = [st EXCEPT ![t[1]] = "failed"]
           \/ /\ st' = [st EXCEPT ![t[1]] = "failed"]
              /\ UNCHANGED <<queryQ, uploadQ, stopped>>
  BY DEF DrainOne
<1> DEFINE x == t[1]
<1>4. x \in Objects /\ t = <<x, t[2]>>
  BY <1>2 DEF Transfers
<1>5. \A o \in Objects \ {x} : InFlight(o) => InFlight(o)'
  <2>1. \A o \in Objects \ {x}, k \in Kinds : <<o, k>> # t
    BY <1>4
  <2> QED
    BY <1>2, <1>3, <2>1 DEF InFlight
<1>6. \A o \in Objects \ {x} : st'[o] = st[o]
  BY <1>2, <1>3 DEF AddUpload, Abort
<1>7. st'[x] \in {"done", "failed", "launched"}
  BY <1>2, <1>3, <1>4 DEF AddUpload
<1>8. AddedAll' /\ ExitIdle'
  BY <1>2, <1>6, <1>7 DEF AInv, AddedAll, ExitIdle
<1>9. NoneLost'
  <2>1. CASE stopped'
    BY <2>1 DEF NoneLost
  <2>2. CASE ~stopped'
    <3>1. ~stopped /\ UNCHANGED queryQ
      BY <1>3, <2>2 DEF Abort
    <3>2. /\ \A o \in Objects : Queued(uploadQ, o) => Queued(uploadQ', o)
          /\ st'[x] = "launched" => Queued(uploadQ', x)
      <4>1. CASE AddUpload(x)
        <5>1. uploadQ' = Append(uploadQ, x)
          BY <3>1, <4>1 DEF AddUpload
        <5> QED
          BY <1>2, <1>4, <5>1, QueuedAppend
      <4>2. CASE ~AddUpload(x)
        <5>1. UNCHANGED uploadQ /\ st'[x] # "launched"
          BY <1>2, <1>3, <1>4, <2>2, <4>2 DEF Abort
        <5> QED
          BY <5>1
      <4> QED
        BY <4>1, <4>2
    <3>3. ASSUME NEW o \in Objects, st'[o] = "launched" PROVE Accounted(o)'
      <4>1. CASE o = x
        BY <3>2, <3>3, <4>1 DEF Accounted
      <4>2. CASE o # x
        <5>1. st[o] = "launched"
          BY <1>6, <3>3, <4>2
        <5>2. Accounted(o)
          BY <3>1, <5>1 DEF AInv, NoneLost
        <5> QED
          BY <1>5, <3>1, <3>2, <4>2, <5>2 DEF Accounted
      <4> QED
        BY <4>1, <4>2
    <3>4. \A o \in Objects : st'[o] # "corrupt"
      BY <1>6, <1>7, <3>1 DEF AInv, NoneLost
    <3> QED
      BY <3>3, <3>4 DEF NoneLost
  <2> QED
    BY <2>1, <2>2
<1> QED
  BY <1>1, <1>8, <1>9 DEF AInv

LEMMA NextAInv == AInv /\ [Next]_vars => AInv'
<1> SUFFICES ASSUME AInv, [Next]_vars PROVE AInv'
  OBVIOUS
<1>1. CASE DriverAdds
  BY <1>1, DriverAddsAInv
<1>2. CASE DriverStarts \/ LaunchEnd \/ DrainEnd \/ DriverChecks
  BY <1>2, DriverStepsAInv
<1>3. CASE LaunchOne
  BY <1>3, LaunchOneAInv
<1>4. CASE TransferCompletes
  BY <1>4, TransferCompletesAInv
<1>5. CASE Perform
  BY <1>5, PerformAInv
<1>6. CASE DrainOne
  BY <1>6, DrainOneAInv
<1>7. CASE UNCHANGED vars
  <2>1. PInv'
    BY <1>7, NextPInv DEF AInv
  <2> QED
    BY <1>7, <2>1 DEF vars, AInv, AddedAll, ExitIdle, NoneLost, Accounted,
       Queued, InFlight
<1> QED
  BY <1>1, <1>2, <1>3, <1>4, <1>5, <1>6, <1>7 DEF Next

(* When garage-push's while (!is_idle()) loop ends, the multi handle is   *)
(* empty, and unless the pool was aborted every object it was given was   *)
(* found on the server or uploaded, or failed: none is left launched and  *)
(* forgotten, however queries queue uploads and transfers complete.        *)
THEOREM ExitAccountsAllThm == Spec => []ExitAccountsAll
<1>1. AInv => ExitAccountsAll
  <2> SUFFICES ASSUME AInv, pc = "exit"
               PROVE  /\ wire \cup landed \cup msgs = {}
                      /\ ~stopped => \A o \in Objects : st[o] \in {"done", "failed"}
    BY DEF ExitAccountsAll
  <2>1. queryQ = << >> /\ uploadQ = << >> /\ running = 0
    BY DEF AInv, ExitIdle
  <2>2. Cardinality(wire) = 0 /\ Cardinality(landed) = 0 /\ msgs = {}
    BY <2>1, PInvParts DEF AInv
  <2>3. wire = {} /\ landed = {}
    BY <2>2, PInvParts, FS_EmptySet DEF AInv
  <2>4. \A o \in Objects : ~Accounted(o)
    BY <2>1, <2>2, <2>3, QueuedEmpty DEF Accounted, InFlight
  <2> QED
    BY <2>2, <2>3, <2>4, PInvParts DEF AInv, AddedAll, NoneLost, States
<1> QED
  BY InitAInv, NextAInv, <1>1, PTL DEF Spec

=============================================================================
