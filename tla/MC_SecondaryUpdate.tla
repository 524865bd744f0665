-------------------------- MODULE MC_SecondaryUpdate --------------------------
(* The Primary and one Virtual Secondary with every fault point live.     *)
EXTENDS SecondaryUpdate
====
