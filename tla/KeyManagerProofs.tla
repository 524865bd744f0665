--------------------------- MODULE KeyManagerProofs ---------------------------
(***************************************************************************)
(* Proof that generateUptaneKeyPair is idempotent and signTuf signs with  *)
(* the key it hands out, for every set of keys and credentials.           *)
(***************************************************************************)
EXTENDS KeyManager, TLAPS

(* The inductive invariant.  Before any key has been handed out, neither   *)
(* the Store nor the token holds one and no call has returned one; after, *)
(* the key source holds the issued key.                                   *)
KInv ==
    /\ TypeOK
    /\ issued = None =>
         /\ stored.primary = None /\ token = None
         /\ gen \notin Keys /\ ~sig.ok
    /\ issued # None =>
         /\ SigningKey = issued /\ PublicKeyOf = issued
         /\ gen \in Keys => gen = issued
         /\ sig.ok => sig.keyid = issued /\ sig.signer = issued

LEMMA InitKInv == Init => KInv
BY KeyAssumption DEF Init, KInv, TypeOK, NoSig, Items, Sources

LEMMA NextKInv == KInv /\ [Next]_vars => KInv'
<1> SUFFICES ASSUME KInv, [Next]_vars PROVE KInv'
  OBVIOUS
<1> USE KeyAssumption DEF KInv, TypeOK, SigningKey, PublicKeyOf, Items, Sources
<1>1. CASE LoadKeys
  <2>1. PICK arg \in [Items -> Creds \cup {Empty, Null}] :
          tmp' = [i \in Items |->
                    IF config.tls[i] = "file" /\ LoadedContent(arg, i) # Empty
                      THEN LoadedContent(arg, i) ELSE tmp[i]]
    BY <1>1 DEF LoadKeys
  <2>2. \A i \in Items : LoadedContent(arg, i) \in Creds \cup {Empty}
    BY DEF LoadedContent
  <2>3. tmp' \in [Items -> Creds \cup {NoFile}]
    BY <2>1, <2>2
  <2> QED
    BY <1>1, <2>3 DEF LoadKeys
<1>2. CASE CopyCertsToCurl
  <2>1. \A i \in Items : TlsValue(i) \in Creds \cup {Empty} \cup {P11Id(j) : j \in Items}
    BY DEF TlsValue
  <2> QED
    BY <1>2, <2>1 DEF CopyCertsToCurl
<1>3. CASE GenerateFile
  <2>1. CASE FileKeyReuse
    BY <1>3, <2>1 DEF GenerateFile, FileKeyReuse, Issue
  <2>2. CASE ~FileKeyReuse /\ \E k \in Fresh :
                      /\ stored' = [stored EXCEPT !.primary = k]
                      /\ used' = used \cup {k}
                      /\ gen' = k /\ Issue(k)
    <3>1. PICK k \in Fresh : /\ stored' = [stored EXCEPT !.primary = k]
                             /\ used' = used \cup {k}
                             /\ gen' = k /\ Issue(k)
      BY <2>2
    <3>2. issued = None /\ k \in Keys
      BY <1>3, <2>2 DEF GenerateFile, FileKeyReuse, Fresh
    <3>3. issued' = k /\ config.uptane = "file"
      BY <1>3, <3>1, <3>2 DEF GenerateFile, Issue
    <3> QED
      BY <1>3, <3>1, <3>2, <3>3 DEF GenerateFile
  <2>3. CASE ~FileKeyReuse /\ gen' = "error" /\ UNCHANGED <<stored, used, issued>>
    BY <1>3, <2>3 DEF GenerateFile, FileKeyReuse
  <2> QED
    BY <1>3, <2>1, <2>2, <2>3 DEF GenerateFile
<1>4. CASE GenerateP11
  <2>0. config.uptane = "pkcs11" /\ UNCHANGED <<config, stored, tmp, sig, curlCreds>>
    BY <1>4 DEF GenerateP11
  <2>1. CASE ~BuiltWithP11
    <3>1. gen' = "error" /\ UNCHANGED <<token, used, issued>>
      BY <1>4, <2>1 DEF GenerateP11
    <3> QED
      BY <2>0, <2>1, <3>1
  <2>2. CASE BuiltWithP11 /\ token # None
    <3>1. gen' = token /\ Issue(token) /\ UNCHANGED <<token, used>>
      BY <1>4, <2>2 DEF GenerateP11
    <3> QED
      BY <2>0, <2>2, <3>1 DEF Issue
  <2>3. CASE BuiltWithP11 /\ token = None
    <3>1. \/ \E k \in Fresh : token' = k /\ used' = used \cup {k} /\ gen' = k /\ Issue(k)
          \/ gen' = "error" /\ UNCHANGED <<token, used, issued>>
      BY <1>4, <2>3 DEF GenerateP11
    <3>2. issued = None
      BY <2>0, <2>3
    <3>3. CASE \E k \in Fresh : token' = k /\ used' = used \cup {k} /\ gen' = k /\ Issue(k)
      <4>1. PICK k \in Fresh : token' = k /\ used' = used \cup {k} /\ gen' = k /\ Issue(k)
        BY <3>3
      <4>2. issued' = k /\ k \in Keys
        BY <4>1, <3>2 DEF Issue, Fresh
      <4> QED
        BY <2>0, <2>3, <4>1, <4>2
    <3>4. CASE gen' = "error" /\ UNCHANGED <<token, used, issued>>
      BY <2>0, <2>3, <3>4
    <3> QED
      BY <3>1, <3>3, <3>4
  <2> QED
    BY <2>1, <2>2, <2>3
<1>5. CASE SignTuf
  BY <1>5 DEF SignTuf, NoSig
<1>6. CASE StoreTlsCreds
  BY <1>6 DEF StoreTlsCreds
<1>7. CASE Restart
  BY <1>7 DEF Restart, NoSig
<1>8. CASE UNCHANGED vars
  BY <1>8 DEF vars
<1> QED
  BY <1>1, <1>2, <1>3, <1>4, <1>5, <1>6, <1>7, <1>8 DEF Next

(* Spec 8.1: for every set of keys, once generateUptaneKeyPair has handed *)
(* out a key, every later call, across restarts, hands out the same one,  *)
(* and every signature signTuf makes is made and labelled with it.        *)
THEOREM UptaneKeyStableThm == Spec => []UptaneKeyStable
<1>1. KInv => UptaneKeyStable
  BY DEF KInv, UptaneKeyStable
<1> QED
  BY InitKInv, NextKInv, <1>1, PTL DEF Spec

(* Every step of the key manager (config loading, key generation and its *)
(* error path, signTuf, storing TLS credentials, a restart) keeps every   *)
(* variable within its type, for every set of keys and items.            *)
THEOREM KeyTypeOKThm == Spec => []TypeOK
<1>1. KInv => TypeOK
  BY DEF KInv
<1> QED
  BY InitKInv, NextKInv, <1>1, PTL DEF Spec

=============================================================================
