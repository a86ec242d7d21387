----------------------------- MODULE MCKfsTrace -----------------------------
(* Two MDS requests with one tid, of two clients, and one OSD request.      *)
EXTENDS KfsTrace

Kind == [r \in Req |-> IF r = 3 THEN "osd" ELSE "mds"]
Client == [r \in Req |-> r]
Tid == [r \in Req |-> 1]
Bounds == [r \in Req |-> IF r = 2 THEN 1 ELSE 2]
=============================================================================
