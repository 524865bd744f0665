------------------------------ MODULE KeyManager ------------------------------
(***************************************************************************)
(* KeyManager (crypto/keymanager.cc): the device's Uptane key pair, kept   *)
(* in the Store (source "file") or in a PKCS#11 token (source "pkcs11"),   *)
(* and its TLS credentials, copied from the Store into temporary files by  *)
(* loadKeys and handed to the HTTP client by copyCertsToCurl.              *)
(*                                                                         *)
(* A key pair is a model value: Crypto::generateKeyPair and the token's    *)
(* key generation either fail or produce a pair never seen before.  A TLS  *)
(* credential is a model value or Empty.  The KeyManager object can be     *)
(* destroyed and built again (a restart): its temporary files go, the      *)
(* Store and the token stay.                                               *)
(***************************************************************************)
EXTENDS FiniteSets

CONSTANTS
    Keys,         \* key pairs Crypto::generateKeyPair may produce
    Creds,        \* TLS credential contents
    Empty,        \* an empty string
    NoFile,       \* a temporary file not created yet
    Null,         \* a null content pointer passed to loadKeys
    None,         \* no key
    BuiltWithP11  \* built_with_p11

ASSUME KeyAssumption ==
    /\ IsFiniteSet(Keys) /\ Keys # {}
    /\ Empty \notin Creds /\ NoFile \notin Creds \cup {Empty}
    /\ Null \notin Creds \cup {Empty} /\ None \notin Keys /\ "error" \notin Keys
    /\ BuiltWithP11 \in BOOLEAN

Items == {"pkey", "cert", "ca"}
Sources == {"file", "pkcs11"}

(* What getItemFullId returns for a TLS item kept in the token.           *)
P11Id(i) == <<"p11", i>>

VARIABLES
    config,     \* config_: the source of each TLS item and of the Uptane key
    stored,     \* the Store: TLS credentials and the primary key pair
    token,      \* the key pair under config_.p11.uptane_key_id in the token
    tmp,        \* tmp_pkey_file, tmp_cert_file, tmp_ca_file
    used,       \* key pairs generated so far
    issued,     \* the first key generateUptaneKeyPair returned
    gen,        \* what the last generateUptaneKeyPair returned, or "error"
    sig,        \* the last signTuf: whether it returned, its keyid and its key
    curlCreds   \* what copyCertsToCurl last passed to setCerts

vars == <<config, stored, token, tmp, used, issued, gen, sig, curlCreds>>

-----------------------------------------------------------------------------
(* loadKeys(pkey_content, cert_content, ca_content): for each TLS item    *)
(* kept in files, the content given, or the Store's if the pointer is     *)
(* null; a non-empty content is written to the item's temporary file,    *)
(* created if needed; an empty one leaves the file as it was.              *)
LoadedContent(arg, i) == IF arg[i] = Null THEN stored.tls[i] ELSE arg[i]

LoadKeysWriteEmpty ==
    /\ \E arg \in [Items -> Creds \cup {Empty, Null}] :
         tmp' = [i \in Items |->
                   IF config.tls[i] = "file" THEN LoadedContent(arg, i) ELSE tmp[i]]
    /\ UNCHANGED <<config, stored, token, used, issued, gen, sig, curlCreds>>
LoadKeys ==
    /\ \E arg \in [Items -> Creds \cup {Empty, Null}] :
         tmp' = [i \in Items |->
                   IF config.tls[i] = "file" /\ LoadedContent(arg, i) # Empty
                     THEN LoadedContent(arg, i) ELSE tmp[i]]
    /\ UNCHANGED <<config, stored, token, used, issued, gen, sig, curlCreds>>

(* getPkey, getCert, getCa: the token's id, or the Store's content.       *)
TlsValue(i) == IF config.tls[i] = "pkcs11" THEN P11Id(i) ELSE stored.tls[i]

(* copyCertsToCurl: setCerts only if all three are non-empty.             *)
CopyCertsToCurl ==
    /\ \A i \in Items : config.tls[i] = "pkcs11" => BuiltWithP11
    /\ IF \A i \in Items : TlsValue(i) # Empty
         THEN curlCreds' = [i \in Items |-> TlsValue(i)]
         ELSE UNCHANGED curlCreds
    /\ UNCHANGED <<config, stored, token, tmp, used, issued, gen, sig>>

-----------------------------------------------------------------------------
(* The Uptane key pair.                                                    *)

(* A successful generation returns a pair never produced before.          *)
Fresh == Keys \ used

(* Record the first key handed out.                                        *)
Issue(k) == issued' = IF issued = None THEN k ELSE issued

(* generateUptaneKeyPair, file source: return the stored pair, else       *)
(* generate one and store it; throw if there is none.                     *)
FileKeyReuseIgnored == FALSE
FileKeyReuse == stored.primary # None

GenerateFile ==
    /\ config.uptane = "file"
    /\ IF FileKeyReuse
         THEN gen' = stored.primary /\ Issue(stored.primary)
              /\ UNCHANGED <<stored, used>>
         ELSE \/ /\ \E k \in Fresh :
                      /\ stored' = [stored EXCEPT !.primary = k]
                      /\ used' = used \cup {k}
                      /\ gen' = k /\ Issue(k)
              \/ gen' = "error" /\ UNCHANGED <<stored, used, issued>>
    /\ UNCHANGED <<config, token, tmp, sig, curlCreds>>

(* generateUptaneKeyPair, PKCS#11 source: read the public key; if absent, *)
(* ask the token to generate one (its result is ignored) and read again.  *)
GenerateP11 ==
    /\ config.uptane = "pkcs11"
    /\ IF ~BuiltWithP11
         THEN gen' = "error" /\ UNCHANGED <<token, used, issued>>
       ELSE IF token # None
         THEN gen' = token /\ Issue(token) /\ UNCHANGED <<token, used>>
       ELSE \/ /\ \E k \in Fresh :
                    /\ token' = k /\ used' = used \cup {k}
                    /\ gen' = k /\ Issue(k)
            \/ gen' = "error" /\ UNCHANGED <<token, used, issued>>
    /\ UNCHANGED <<config, stored, tmp, sig, curlCreds>>

(* UptanePublicKey: the stored public key, or the token's; it throws if   *)
(* there is none.                                                          *)
PublicKeyOf ==
    IF config.uptane = "file" THEN stored.primary
    ELSE IF BuiltWithP11 THEN token ELSE None

(* signTuf: the private key loaded from the Store, or the token's key by  *)
(* its id; the signature's keyid is UptanePublicKey().KeyId(), which      *)
(* throws if there is no public key.  Signing with an empty private key   *)
(* fails.                                                                  *)
NoSig == [ok |-> FALSE, keyid |-> None, signer |-> None]

SigningKey ==
    IF config.uptane = "file" THEN stored.primary ELSE token

SignTuf ==
    /\ sig' = IF (config.uptane = "pkcs11" /\ ~BuiltWithP11)
                 \/ SigningKey = None \/ PublicKeyOf = None
                THEN NoSig
                ELSE [ok |-> TRUE, keyid |-> PublicKeyOf, signer |-> SigningKey]
    /\ UNCHANGED <<config, stored, token, tmp, used, issued, gen, curlCreds>>

-----------------------------------------------------------------------------
(* Provisioning stores new TLS credentials.                                *)
StoreTlsCreds ==
    /\ \E c \in [Items -> Creds] : stored' = [stored EXCEPT !.tls = c]
    /\ UNCHANGED <<config, token, tmp, used, issued, gen, sig, curlCreds>>

(* The process restarts: a new KeyManager has no temporary files and the  *)
(* HTTP client no certificates; the Store and the token persist.          *)
Restart ==
    /\ tmp' = [i \in Items |-> NoFile]
    /\ curlCreds' = None
    /\ gen' = None /\ sig' = NoSig
    /\ UNCHANGED <<config, stored, token, used, issued>>

(* Any configuration; an empty Store and token.                            *)
Init ==
    /\ config \in [tls : [Items -> Sources], uptane : Sources]
    /\ stored = [tls |-> [i \in Items |-> Empty], primary |-> None]
    /\ token = None
    /\ tmp = [i \in Items |-> NoFile]
    /\ used = {}
    /\ issued = None
    /\ gen = None /\ sig = NoSig /\ curlCreds = None

Next ==
    \/ LoadKeys \/ CopyCertsToCurl
    \/ GenerateFile \/ GenerateP11 \/ SignTuf
    \/ StoreTlsCreds \/ Restart

Spec == Init /\ [][Next]_vars

-----------------------------------------------------------------------------
(* Properties.                                                             *)

TypeOK ==
    /\ config \in [tls : [Items -> Sources], uptane : Sources]
    /\ stored \in [tls : [Items -> Creds \cup {Empty}], primary : Keys \cup {None}]
    /\ token \in Keys \cup {None}
    /\ tmp \in [Items -> Creds \cup {NoFile}]
    /\ used \subseteq Keys /\ issued \in Keys \cup {None}
    /\ gen \in Keys \cup {None, "error"}
    /\ sig \in [ok : BOOLEAN, keyid : Keys \cup {None}, signer : Keys \cup {None}]
    /\ curlCreds \in [Items -> Creds \cup {P11Id(i) : i \in Items}] \cup {None}

(* Spec 8.1 and 4.1: generate_uptane_keypair is idempotent.  Once it has  *)
(* handed out a key, across restarts and later calls it hands out the     *)
(* same one, UptanePublicKey reports it, and every signature signTuf      *)
(* makes is made with it and labelled with it.                             *)
UptaneKeyStable ==
    issued # None =>
      /\ gen \in Keys => gen = issued
      /\ PublicKeyOf = issued
      /\ sig.ok => sig.keyid = issued /\ sig.signer = issued

=============================================================================
