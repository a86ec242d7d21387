---------------------------- MODULE MCOsdProbes ----------------------------
(***************************************************************************)
(* Instances of OsdProbes for TLC.  The messages of an instance stand for  *)
(* the kinds of requests an OSD receives; MaxMsgs bounds how many of them  *)
(* arrive, so that a run covers every combination of that many kinds.      *)
(***************************************************************************)
EXTENDS OsdProbes, TLC

CONSTANTS
  t1, t2, x1, x2, x3, p1, p2, p3,
  write,      \* a client's write of two operations
  resend,     \* the same write, sent again
  write2,     \* another write, of three operations
  read,       \* a client's read
  ecwrite,    \* a write to an erasure-coded pool
  subwrite,   \* a replica's write
  subwrite2,  \* another
  ping,       \* a message of another type
  kw, kw2, kr, ke, ks, ks2, ko

Keys ==
  write :> kw @@ resend :> kw @@ write2 :> kw2 @@ read :> kr @@ ecwrite :> ke
    @@ subwrite :> ks @@ subwrite2 :> ks2 @@ ping :> ko

KeyOfMsg == [m \in Msg |-> Keys[m]]

TypeOfKey ==
  [k \in Key |-> CASE k \in {kw, kw2, kr, ke} -> "OSD_OP"
                   [] k \in {ks, ks2} -> "OSD_REPOP"
                   [] OTHER -> "OTHER"]

Resends == [m \in Msg |-> IF m = resend THEN write ELSE None]
Operations == [m \in Msg |-> CASE m = write2 -> 3 [] m = read -> 1 [] OTHER -> 2]

AllProbes == {AttachList[i] : i \in 1 .. Len(AttachList)}

Symmetric ==
  Permutations(Thread) \cup Permutations(Peer) \cup Permutations(Txc \ PgTxc)
=============================================================================
