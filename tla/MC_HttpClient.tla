---------------------------- MODULE MC_HttpClient ----------------------------
(* HttpClient with a get() limit smaller than the post/put limit and       *)
(* bodies longer than both, so that each limit is hit and missed.          *)
EXTENDS HttpClient
====
