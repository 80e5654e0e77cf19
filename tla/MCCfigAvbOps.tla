---------------------------- MODULE MCCfigAvbOps ----------------------------
(***************************************************************************)
(* A small working directory for CfigAvbOps.                               *)
(***************************************************************************)
EXTENDS CfigAvbOps

\* Images of two and three bytes; reads and writes up to and beyond them.
MCImages == {<<"a", "b">>, <<"c", "d", "e">>}
MCOffsets == {-5, -3, -2, 0, 1}
MCCounts == {2, 3}
MCWrites == {<<1, 3>>, <<-2, 2>>}

MCFirstDisks ==
  {[boot |-> b, vbmeta |-> v] : b \in MCImages \union {NoFile}, v \in {<<"c", "d", "e">>}}

\* A new device without a key, devices with a key, and devices in use.
Config(key, lock, i) ==
  [dir |-> key # NoFile, pubkey |-> key, locked |-> lock,
   index |-> [l \in Locations |-> IF l = 0 THEN i ELSE NoFile]]
MCFirstConfigs ==
  {Config(NoFile, NoFile, NoFile)} \union
  {Config("k1", NoFile, NoFile), Config("k1", Junk, 5), Config("k1", "0", Junk)}
MCPreloads == {<<"boot", "boot">>}
MCRequests == {<<"boot", "recovery">>}
=============================================================================
