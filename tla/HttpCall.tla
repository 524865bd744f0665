------------------------------- MODULE HttpCall -------------------------------
(***************************************************************************)
(* What a call of HttpClient's get, post or put promises its caller       *)
(* (spec 4.6 and 4.9), without curl, the server or the body sink: a call  *)
(* makes one transfer and then, while the last one failed, at most        *)
(* RetryTimes more; it answers with an error only when every transfer     *)
(* failed, and a body it answers without a curl error is within the       *)
(* call's positive size limit.                                             *)
(***************************************************************************)
EXTENDS Naturals

CONSTANTS
    RetryTimes,  \* transfers after the first that a call may make
    Limits,      \* the size limits a caller may pass (0: none)
    Answers      \* the responses a call may return

VARIABLES
    busy,    \* a call is in progress
    limit,   \* its size limit
    tries,   \* transfers it has made
    answer   \* the response the last call returned

vars == <<busy, limit, tries, answer>>

(* A response that reports a curl error or a server error.               *)
Failed(a) == a.curl # "ok" \/ a.status >= 500

Start ==
    /\ ~busy
    /\ busy' = TRUE
    /\ limit' \in Limits
    /\ tries' = 1
    /\ UNCHANGED answer

(* The last transfer failed and a retry is left: one more transfer.       *)
Again ==
    /\ busy
    /\ tries <= RetryTimes
    /\ tries' = tries + 1
    /\ UNCHANGED <<busy, limit, answer>>

Return ==
    /\ busy
    /\ busy' = FALSE
    /\ answer' \in Answers
    /\ Failed(answer') => tries = RetryTimes + 1
    /\ answer'.curl = "ok" /\ limit > 0 => answer'.body <= limit
    /\ UNCHANGED <<limit, tries>>

Init ==
    /\ busy = FALSE
    /\ limit \in Limits
    /\ tries = 0
    /\ answer \in Answers

Next == Start \/ Again \/ Return

Spec == Init /\ [][Next]_vars

=============================================================================
