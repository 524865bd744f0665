------------------------------ MODULE HttpClient ------------------------------
(***************************************************************************)
(* HttpClient (http/httpclient.cc): get, post and put hand a prepared curl *)
(* handle to perform(), which runs the transfer with a fresh WriteStringArg *)
(* as the body sink, and calls itself again on a transport error or a 5xx  *)
(* answer while its retry_times argument is not 0.  writeString, curl's    *)
(* write callback, refuses a chunk that would take the body past the size  *)
(* limit, which curl reports as a write error.                             *)
(*                                                                         *)
(* The server and the network are the environment: a request may be lost  *)
(* before the server sees it, the server may apply it and answer 2xx, 4xx  *)
(* or 5xx, declare the length of the body or not, and the connection may   *)
(* drop while the body arrives.  A body is its length in bytes; curl hands *)
(* it to writeString in chunks of any size.  The sleep(1) between attempts *)
(* and the headers and logging are left out.                               *)
(***************************************************************************)
EXTENDS Naturals

CONSTANTS
    RetryTimes,  \* RETRY_TIMES, the retry_times get, post and put pass
    MaxSize,     \* a maxsize a caller of get() passes
    RespLimit,   \* kPostRespLimit = kPutRespLimit
    MaxBody      \* the longest body a server sends

ASSUME HttpAssumption ==
    /\ RetryTimes \in Nat
    /\ MaxSize \in Nat \ {0} /\ RespLimit \in Nat \ {0}
    /\ MaxBody \in Nat

NoLimit == 0                        \* HttpInterface::kNoLimit
Methods == {"GET", "POST", "PUT"}
Statuses == {0, 200, 404, 500}      \* 0: no answer received
CurlCodes == {"ok", "transport", "write_error", "filesize_exceeded"}

VARIABLES
    req,       \* the call in progress: method and size_limit
    phase,     \* "wire", "body", "check" (after curl_easy_perform), "done"
    retries,   \* perform's retry_times
    out,       \* response_arg.out: bytes written by writeString
    left,      \* bytes of the body still to come
    sent,      \* length of the body the server sent in this attempt
    status,    \* CURLINFO_RESPONSE_CODE
    curl,      \* the CURLcode of curl_easy_perform
    attempts,  \* transfers started by this call
    resp       \* the HttpResponse returned to the caller

vars == <<req, phase, retries, out, left, sent, status, curl, attempts, resp>>

-----------------------------------------------------------------------------
(* The callers.  get passes the caller's maxsize, post and put the 64 KiB *)
(* response limit; all pass RETRY_TIMES.  A call starts perform().        *)
LimitsOf(m) == IF m = "GET" THEN {NoLimit, MaxSize} ELSE {RespLimit}

Call ==
    /\ phase = "done"
    /\ \E m \in Methods : \E lim \in LimitsOf(m) :
         req' = [method |-> m, limit |-> lim]
    /\ retries' = RetryTimes
    /\ out' = 0
    /\ attempts' = 1
    /\ phase' = "wire"
    /\ UNCHANGED <<left, sent, status, curl, resp>>

-----------------------------------------------------------------------------
(* curl_easy_perform, as the environment plays it.                         *)

(* The request never reaches the server, or its answer never comes back.  *)
RequestLost ==
    /\ phase = "wire"
    /\ curl' = "transport" /\ status' = 0
    /\ phase' = "check"
    /\ UNCHANGED <<req, retries, out, left, sent, attempts, resp>>

(* The server answers with status st and a body of b bytes.  With         *)
(* CURLOPT_MAXFILESIZE_LARGE set to a size_limit > 0, curl refuses a body  *)
(* whose declared length is larger before any of it is written.           *)
ServerAnswers ==
    /\ phase = "wire"
    /\ \E st \in Statuses \ {0}, b \in 0 .. MaxBody, declared \in BOOLEAN :
         /\ status' = st
         /\ sent' = b
         /\ IF declared /\ req.limit > 0 /\ b > req.limit
              THEN curl' = "filesize_exceeded" /\ phase' = "check"
                   /\ UNCHANGED left
              ELSE left' = b /\ phase' = "body" /\ UNCHANGED curl
    /\ UNCHANGED <<req, retries, out, attempts, resp>>

(* writeString's size check: with a limit > 0, a chunk that would take the *)
(* body past it is refused.                                                *)
WriteRefuses(n) == req.limit > 0 /\ out + n > req.limit

(* curl hands n bytes to writeString: appended, or refused (it returns 0,  *)
(* and curl aborts the transfer with CURLE_WRITE_ERROR).                   *)
WriteString ==
    /\ phase = "body"
    /\ left > 0
    /\ \E n \in 1 .. left :
         IF WriteRefuses(n)
           THEN curl' = "write_error" /\ phase' = "check"
                /\ UNCHANGED <<out, left>>
           ELSE out' = out + n /\ left' = left - n
                /\ UNCHANGED <<curl, phase>>
    /\ UNCHANGED <<req, retries, sent, status, attempts, resp>>

(* The connection drops while the body arrives.                           *)
ConnectionDrops ==
    /\ phase = "body"
    /\ curl' = "transport" /\ phase' = "check"
    /\ UNCHANGED <<req, retries, out, left, sent, status, attempts, resp>>

(* The whole body has been written.                                        *)
TransferDone ==
    /\ phase = "body"
    /\ left = 0
    /\ curl' = "ok" /\ phase' = "check"
    /\ UNCHANGED <<req, retries, out, left, sent, status, attempts, resp>>

-----------------------------------------------------------------------------
(* The rest of perform(): build the response from response_arg.out, and on *)
(* a curl error or a status >= 500, if retry_times != 0, call perform with *)
(* --retry_times, whose fresh WriteStringArg starts an empty body.         *)
Failed(cc, st) == cc # "ok" \/ st >= 500

RetryAllowedOffByOne == retries > 1
RetryAllowed == retries # 0

RetryArgPostDecrement == retries
RetryArg == retries - 1

RetryReuseSink ==
    /\ retries' = RetryArg
    /\ attempts' = attempts + 1
    /\ phase' = "wire"
    /\ UNCHANGED out
Retry ==
    /\ retries' = RetryArg
    /\ out' = 0
    /\ attempts' = attempts + 1
    /\ phase' = "wire"

PerformReturns ==
    /\ phase = "check"
    /\ IF Failed(curl, status) /\ RetryAllowed
         THEN Retry /\ UNCHANGED resp
         ELSE /\ resp' = [body |-> out, status |-> status, curl |-> curl]
              /\ phase' = "done"
              /\ UNCHANGED <<retries, out, attempts>>
    /\ UNCHANGED <<req, left, sent, status, curl>>

-----------------------------------------------------------------------------
(* Before the first call: no request, an empty default HttpResponse.      *)
Init ==
    /\ req = [method |-> "GET", limit |-> NoLimit]
    /\ phase = "done"
    /\ retries = RetryTimes
    /\ out = 0 /\ left = 0 /\ sent = 0
    /\ status = 0 /\ curl = "ok"
    /\ attempts = 0
    /\ resp = [body |-> 0, status |-> 0, curl |-> "ok"]

Next ==
    \/ Call
    \/ RequestLost \/ ServerAnswers \/ WriteString \/ ConnectionDrops
    \/ TransferDone
    \/ PerformReturns

Spec == Init /\ [][Next]_vars

-----------------------------------------------------------------------------
(* Properties.                                                             *)

TypeOK ==
    /\ req \in [method : Methods, limit : NoLimit .. MaxSize + RespLimit]
    /\ phase \in {"wire", "body", "check", "done"}
    /\ retries \in 0 .. RetryTimes
    /\ out \in 0 .. MaxBody /\ left \in 0 .. MaxBody /\ sent \in 0 .. MaxBody
    /\ status \in Statuses /\ curl \in CurlCodes
    /\ attempts \in 0 .. RetryTimes + 1
    /\ resp \in [body : 0 .. MaxBody, status : Statuses, curl : CurlCodes]

(* Spec 4.9: a response is bounded.  A response perform() returns without  *)
(* a curl error holds exactly the body the server sent in the last        *)
(* attempt (nothing of an earlier, failed attempt), and that body is      *)
(* within the call's size limit.                                          *)
OkResponseIsLastBody ==
    phase = "done" /\ attempts > 0 /\ resp.curl = "ok"
      => /\ resp.body = sent
         /\ req.limit > 0 => resp.body <= req.limit

(* Spec 4.6: a failed request is retried RETRY_TIMES times.  A call never *)
(* makes more than RETRY_TIMES + 1 transfers, and an error reaches the     *)
(* caller only after all of them were made.                                *)
RetriesExact ==
    /\ attempts <= RetryTimes + 1
    /\ phase = "done" /\ attempts > 0 /\ Failed(resp.curl, resp.status)
         => attempts = RetryTimes + 1

-----------------------------------------------------------------------------
(* Refinement.  A call is in progress while perform() has not returned;   *)
(* its transfers are the attempts; its answer is the HttpResponse.        *)
HC == INSTANCE HttpCall WITH
        busy <- phase # "done", limit <- req.limit,
        tries <- attempts, answer <- resp,
        Limits <- NoLimit .. MaxSize + RespLimit,
        Answers <- [body : 0 .. MaxBody, status : Statuses, curl : CurlCodes]

(* Spec 4.6 and 4.9: get, post and put behave as HttpCall says a call    *)
(* does: perform() retries a failed transfer at most RETRY_TIMES times,   *)
(* returns an error only once all transfers failed, and never returns a  *)
(* body past a positive limit without a curl error.                      *)
HttpCallRefined == HC!Spec

=============================================================================
