--------------------------- MODULE HttpClientProofs ---------------------------
(***************************************************************************)
(* Proofs that HttpClient's perform() retries exactly RETRY_TIMES times    *)
(* and returns, without a curl error, exactly the last attempt's body     *)
(* within the size limit, for every value of the constants.               *)
(***************************************************************************)
EXTENDS HttpClient, TLAPS

(* The inductive invariant.  Each attempt uses up one retry; the body    *)
(* written so far plus the body still to come is what the server sent; a *)
(* transfer that ended without a curl error wrote all of it; writeString *)
(* never lets the body pass a positive limit; a new attempt starts with  *)
(* an empty sink; a failure is returned only with no retry left; and a   *)
(* returned response is built from the last attempt.                     *)
HInv ==
    /\ TypeOK
    /\ phase # "done" => attempts > 0
    /\ attempts > 0 => attempts + retries = RetryTimes + 1
    /\ phase = "wire" => out = 0
    /\ phase = "body" => out + left = sent
    /\ phase \in {"check", "done"} /\ curl = "ok" => out = sent
    /\ out <= sent \/ phase = "wire"
    /\ req.limit > 0 => out <= req.limit
    /\ phase = "done" /\ attempts > 0 /\ Failed(curl, status) => retries = 0
    /\ phase = "done" /\ attempts > 0
         => resp = [body |-> out, status |-> status, curl |-> curl]

LEMMA InitHInv == Init => HInv
BY HttpAssumption DEF Init, HInv, TypeOK, Statuses, CurlCodes, NoLimit, Methods

LEMMA NextHInv == HInv /\ [Next]_vars => HInv'
<1> SUFFICES ASSUME HInv, [Next]_vars PROVE HInv'
  OBVIOUS
<1> USE HttpAssumption DEF HInv, TypeOK, Statuses, CurlCodes, Methods, NoLimit
<1>1. CASE Call
  <2>1. PICK m \in Methods : \E lim \in LimitsOf(m) :
             req' = [method |-> m, limit |-> lim]
    BY <1>1 DEF Call
  <2>2. PICK lim \in LimitsOf(m) : req' = [method |-> m, limit |-> lim]
    BY <2>1
  <2>3. lim \in NoLimit .. MaxSize + RespLimit
    BY DEF LimitsOf
  <2> QED
    BY <1>1, <2>2, <2>3 DEF Call
<1>2. CASE RequestLost
  BY <1>2 DEF RequestLost
<1>3. CASE ServerAnswers
  <2>1. PICK st \in Statuses \ {0}, b \in 0 .. MaxBody, declared \in BOOLEAN :
             /\ status' = st
             /\ sent' = b
             /\ IF declared /\ req.limit > 0 /\ b > req.limit
                  THEN curl' = "filesize_exceeded" /\ phase' = "check"
                       /\ UNCHANGED left
                  ELSE left' = b /\ phase' = "body" /\ UNCHANGED curl
    BY <1>3 DEF ServerAnswers
  <2> QED
    BY <1>3, <2>1 DEF ServerAnswers
<1>4. CASE WriteString
  <2>1. PICK n \in 1 .. left : IF WriteRefuses(n)
           THEN curl' = "write_error" /\ phase' = "check"
                /\ UNCHANGED <<out, left>>
           ELSE out' = out + n /\ left' = left - n
                /\ UNCHANGED <<curl, phase>>
    BY <1>4 DEF WriteString
  <2>2. CASE WriteRefuses(n)
    BY <1>4, <2>1, <2>2 DEF WriteString
  <2>3. CASE ~WriteRefuses(n)
    BY <1>4, <2>1, <2>3 DEF WriteString, WriteRefuses
  <2> QED
    BY <2>2, <2>3
<1>5. CASE ConnectionDrops
  BY <1>5 DEF ConnectionDrops
<1>6. CASE TransferDone
  BY <1>6 DEF TransferDone
<1>7. CASE PerformReturns
  <2>1. CASE Failed(curl, status) /\ RetryAllowed
    BY <1>7, <2>1 DEF PerformReturns, Retry, RetryArg, RetryAllowed
  <2>2. CASE ~(Failed(curl, status) /\ RetryAllowed)
    BY <1>7, <2>2 DEF PerformReturns, RetryAllowed, Failed
  <2> QED
    BY <2>1, <2>2
<1>8. CASE UNCHANGED vars
  BY <1>8 DEF vars
<1> QED
  BY <1>1, <1>2, <1>3, <1>4, <1>5, <1>6, <1>7, <1>8 DEF Next

(* perform() never makes more than RETRY_TIMES + 1 transfers for one call *)
(* of get, post or put, and an error reaches the caller only after all of *)
(* them failed.                                                            *)
THEOREM RetriesExactThm == Spec => []RetriesExact
<1>1. HInv => RetriesExact
  BY HttpAssumption DEF HInv, TypeOK, RetriesExact, Failed
<1> QED
  BY InitHInv, NextHInv, <1>1, PTL DEF Spec

(* A response perform() returns without a curl error holds exactly the    *)
(* body of the last transfer, and with a positive size limit it is within *)
(* the limit.                                                              *)
THEOREM OkResponseIsLastBodyThm == Spec => []OkResponseIsLastBody
<1>1. HInv => OkResponseIsLastBody
  BY DEF HInv, OkResponseIsLastBody
<1> QED
  BY InitHInv, NextHInv, <1>1, PTL DEF Spec


(* get, post and put implement HttpCall for every value of the constants: *)
(* the first transfer starts a call, a retry of perform() is one more     *)
(* transfer, the transfer steps themselves change nothing a caller sees,  *)
(* and the returned response satisfies Return by HInv.                    *)
THEOREM HttpCallRefinedThm == Spec => HttpCallRefined
<1>1. Init => HC!Init
  BY HttpAssumption DEF Init, HC!Init, NoLimit, Statuses, CurlCodes
<1>2. HInv /\ [Next]_vars => [HC!Next]_HC!vars
  <2> SUFFICES ASSUME HInv, [Next]_vars PROVE [HC!Next]_HC!vars
    OBVIOUS
  <2> USE HttpAssumption DEF HInv, TypeOK, Statuses, CurlCodes, Methods, NoLimit
  <2>1. CASE Call
    <3>1. req'.limit \in NoLimit .. MaxSize + RespLimit
      BY <2>1 DEF Call, LimitsOf
    <3> QED
      BY <2>1, <3>1 DEF Call, HC!Next, HC!Start
  <2>2. CASE RequestLost \/ ServerAnswers \/ WriteString \/ ConnectionDrops
                \/ TransferDone
    <3>1. UNCHANGED <<phase # "done", req, attempts, resp>>
      BY <2>2 DEF RequestLost, ServerAnswers, WriteString, ConnectionDrops,
                  TransferDone
    <3> QED
      BY <3>1 DEF HC!vars
  <2>3. CASE PerformReturns /\ Failed(curl, status) /\ RetryAllowed
    BY <2>3 DEF PerformReturns, Retry, RetryArg, RetryAllowed, HC!Next, HC!Again
  <2>4. CASE PerformReturns /\ ~(Failed(curl, status) /\ RetryAllowed)
    <3>1. resp' = [body |-> out, status |-> status, curl |-> curl]
          /\ phase' = "done" /\ UNCHANGED <<req, attempts>>
      BY <2>4 DEF PerformReturns
    <3>2. HC!Failed(resp') => attempts = RetryTimes + 1
      BY <2>4, <3>1 DEF PerformReturns, HC!Failed, Failed, RetryAllowed
    <3> QED
      BY <2>4, <3>1, <3>2 DEF PerformReturns, HC!Next, HC!Return
  <2>5. CASE UNCHANGED vars
    BY <2>5 DEF vars, HC!vars
  <2> QED
    BY <2>1, <2>2, <2>3, <2>4, <2>5 DEF Next
<1> QED
  BY <1>1, <1>2, InitHInv, NextHInv, PTL DEF Spec, HttpCallRefined, HC!Spec

(* Every step of HttpClient::perform and its retry loop keeps the retry  *)
(* counter within RetryTimes, the body counters within MaxBody and every  *)
(* other variable within its type, for every value of the constants.      *)
THEOREM HttpTypeOKThm == Spec => []TypeOK
<1>1. HInv => TypeOK
  BY DEF HInv
<1> QED
  BY InitHInv, NextHInv, <1>1, PTL DEF Spec

=============================================================================
