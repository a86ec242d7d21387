---------------------------- MODULE MCRadosTrace ----------------------------
(* Three requests: two of one client, and one of another with a tid of the  *)
(* first.  The clients use different libraries; one library has no Objecter. *)
EXTENDS RadosTrace

Librados == "librados"
LibcephCommon == "libceph-common"

AllLibraries == << Librados, "librbd", LibcephCommon >>
Carrying == {Librados, LibcephCommon}
OneLibrary == << LibcephCommon >>

Cid == [r \in Req |-> IF r = 3 THEN 2 ELSE 1]
Tid == [r \in Req |-> IF r = 2 THEN 2 ELSE 1]
Lib == [r \in Req |-> IF r = 3 THEN LibcephCommon ELSE Librados]
InCommon == [r \in Req |-> LibcephCommon]

Place == [k \in [cid : {1, 2}, tid : {1, 2}] |-> 2 * k.cid + k.tid]
=============================================================================
