---------------------------- MODULE MCSlotVerify ----------------------------
(***************************************************************************)
(* Small devices for SlotVerify.  A family of worlds is a product of       *)
(* independent choices: how each vbmeta struct is broken, which descriptor *)
(* list the top-level and the chained image carry, what the partitions     *)
(* contain, and how avb_slot_verify() is called.                           *)
(***************************************************************************)
EXTENDS SlotVerify

MCName == {"vbmeta", "vbmeta_x", "boot", "system"}
MCVBMetaName == {"vbmeta", "vbmeta_x"}
MCLocation == 0 .. 2

Plain == [tag |-> "property", bad |-> "no", part |-> "boot", digest |-> "d1", size |-> 1,
          noab |-> FALSE, key |-> "k2", loc |-> 1, when |-> "always"]

Hash(p, d)        == [Plain EXCEPT !.tag = "hash", !.part = p, !.digest = d]
Chain(p, k, l)    == [Plain EXCEPT !.tag = "chain", !.part = p, !.key = k, !.loc = l]
Hashtree(d)       == [Plain EXCEPT !.tag = "hashtree", !.part = "system", !.digest = d]
Cmdline(when, p)  == [Plain EXCEPT !.tag = "cmdline", !.when = when, !.part = p]
Bad(d, how)       == [d EXCEPT !.bad = how]

Good(key, descs) == [verify |-> "OK", key |-> key, flags |-> {}, rollback |-> 2, descs |-> descs]
Garbage == [Good("k1", <<>>) EXCEPT !.verify = "INVALID_VBMETA_HEADER"]

\* The ways a vbmeta struct can be wrong.
Defect(vb) ==
  {vb, [vb EXCEPT !.verify = "HASH_MISMATCH"], [vb EXCEPT !.verify = "UNSUPPORTED_VERSION"],
   [vb EXCEPT !.verify = "OK_NOT_SIGNED"], [vb EXCEPT !.key = "k3"], [vb EXCEPT !.rollback = 1]}
Flagged(vb) ==
  {[vb EXCEPT !.flags = {"VERIFICATION_DISABLED"}], [vb EXCEPT !.flags = {"HASHTREE_DISABLED"}]}

Missing == [present |-> FALSE, size |-> 0, body |-> "d1", footer |-> "none",
            begin |-> Garbage, tail |-> Garbage]
Raw(vb) == [Missing EXCEPT !.present = TRUE, !.begin = vb]
Data(d, n, foot, vb) == [present |-> TRUE, size |-> n, body |-> d, footer |-> foot,
                         begin |-> Garbage, tail |-> vb]

Device(vbmeta, extra, boot, system, sfx) ==
  [full \in MCName \X Suffix |->
     IF full[2] # sfx THEN Missing
     ELSE CASE full[1] = "vbmeta"   -> vbmeta
            [] full[1] = "vbmeta_x" -> extra
            [] full[1] = "boot"     -> boot
            [] full[1] = "system"   -> system]

Call(disk, allow, unlocked) ==
  [allow |-> allow, noVbmeta |-> FALSE, corruption |-> FALSE, mode |-> "restart",
   suffix |-> "", requested |-> <<"boot">>, unlocked |-> unlocked, trusted |-> {"k1"},
   locOf |-> [p \in MCName |-> 1], stored |-> [l \in MCLocation |-> 2], disk |-> disk]

System == Data("d1", 1, "none", Garbage)
-----------------------------------------------------------------------------
\* Top-level images with a chain to vbmeta_x or to the footer of boot.
TopLists ==
  {<<Hash("boot", "d1"), Chain("vbmeta_x", "k2", 1)>>,
   <<Hash("boot", "d1"), Chain("vbmeta_x", "k2", 1), Hash("boot", "d1")>>,
   <<Chain("boot", "k2", 1), Cmdline("hashtree", "system")>>,
   <<Chain("boot", "k2", 1), Chain("vbmeta_x", "k2", 1), Hash("boot", "d1")>>,
   <<Chain("vbmeta_x", "k2", 0)>>, <<Chain("vbmeta_x", "k2", 2)>>,
   <<Bad(Hash("boot", "d1"), "alg")>>, <<Bad(Chain("boot", "k2", 1), "layout")>>,
   <<Hash("system", "d2"), Hashtree("d1"), Plain, Cmdline("no_hashtree", NoName)>>}

SubLists ==
  {<<Hash("boot", "d1"), Cmdline("no_hashtree", NoName), Cmdline("hashtree", NoName)>>,
   <<Chain("boot", "k2", 1)>>}

ChainWorlds ==
  {Call(Device(v, Raw(x), b, System, ""), a, a) :
     v \in {Missing} \union {Raw(vb) : vb \in UNION {Defect(Good("k1", l)) \union Flagged(Good("k1", l)) : l \in TopLists}},
     x \in UNION {Defect(Good("k2", l)) : l \in SubLists} \union Flagged(Good("k2", <<>>)),
     b \in {Data(d, 1, "ok", Good("k2", <<Hash("boot", "d1")>>)) : d \in {"d1", "d2"}},
     a \in BOOLEAN}

\* No vbmeta partition: the top-level struct is in the footer of boot, if any.
BootWorlds ==
  {Call(Device(Missing, Raw(Good("k2", <<Hash("boot", "d1")>>)), b, s, ""), a, ~a) :
     b \in {Missing} \union
           {Data("d1", n, f, vb) : n \in 0 .. 1, f \in {"none", "ok", "oversize"},
              vb \in UNION {Defect(Good("k1", l)) \union Flagged(Good("k1", l)) :
                             l \in {<<Hash("boot", "d1"), Chain("vbmeta_x", "k2", 1)>>, <<Hash("boot", "d2")>>}}},
     s \in {Missing, System}, a \in BOOLEAN}

\* Booting recovery: each requested partition has its own vbmeta struct.
RecoveryWorlds ==
  {[Call(Device(Missing, Raw(x), b, System, ""), a, u) EXCEPT
      !.noVbmeta = TRUE, !.requested = r, !.locOf["boot"] = 0] :
     x \in Defect(Good("k1", <<Hash("boot", "d1")>>)) \union
           {Good("k1", <<Chain("boot", "k2", 1)>>), Good("k1", <<Cmdline("always", "vbmeta")>>)},
     b \in {Data(d, 1, "ok", vb) : d \in {"d1", "d2"},
              vb \in Defect(Good("k1", <<Hash("boot", "d1")>>)) \union Flagged(Good("k1", <<>>))},
     r \in {<<>>, <<"boot">>, <<"boot", "vbmeta_x">>, <<"vbmeta_x", "boot">>},
     a \in BOOLEAN, u \in BOOLEAN}

VerifyWorlds == ChainWorlds \union RecoveryWorlds \union BootWorlds

\* Persistent digests, the managed dm-verity mode, A/B suffixes and reboots.
RebootWorlds ==
  {[Call(Device(Raw(Good("k1", l)), Missing, Data(d, 1, "none", Garbage), System, s), FALSE, u)
      EXCEPT !.suffix = s, !.mode = m[1], !.corruption = m[2]] :
     l \in {<<Hash("boot", NoDigest)>>, <<Hash("boot", "d1")>>, <<Hash("boot", "d2")>>},
     d \in {"d1", "d2"}, s \in Suffix, u \in BOOLEAN,
     m \in {<<"managed", TRUE>>, <<"managed", FALSE>>, <<"logging", FALSE>>, <<"eio", FALSE>>}}

\* One fault anywhere, in images that exercise every callback.
FaultWorlds ==
  {[Call(Device(v, Raw(Good("k2", <<Hash("boot", "d1"), Cmdline("always", NoName)>>)),
                Data(d, 1, "ok", Good("k1", <<Hash("boot", "d1")>>)), System, ""), a, u)
      EXCEPT !.mode = "managed", !.corruption = u] :
     v \in {Missing, Raw(Good("k1", <<Chain("vbmeta_x", "k2", 1), Hash("boot", NoDigest)>>)),
            Raw(Good("k1", <<Cmdline("hashtree", "system"), Hash("boot", "d1")>>)),
            Raw([Good("k1", <<>>) EXCEPT !.flags = {"VERIFICATION_DISABLED"}])},
     d \in {"d1", "d2"}, a \in BOOLEAN, u \in BOOLEAN}

\* Images that name a persistent root digest after other descriptors.
PersistentRootWorlds ==
  {[Call(Device(Raw(Good("k1", l)), Raw(Good("k2", <<Hash("boot", d), Hashtree(r)>>)),
                Data("d1", 1, "none", Garbage), System, ""), a, FALSE)
      EXCEPT !.requested = <<"boot", "system">>] :
     l \in {<<Hash("system", NoDigest)>>, <<Chain("vbmeta_x", "k2", 1)>>,
            <<Chain("vbmeta_x", "k2", 1), Hashtree(NoDigest)>>,
            <<Chain("vbmeta_x", "k2", 1), Hash("system", NoDigest)>>,
            <<Hash("boot", "d2"), Hashtree(NoDigest)>>, <<Hashtree(NoDigest), Hash("boot", "d1")>>,
            <<Hashtree(NoDigest), Hashtree(NoDigest)>>},
     d \in {"d1", "d2"}, r \in {"d1", NoDigest}, a \in BOOLEAN}

\* What a boot leaves behind for the next one.
HistoryWorlds == RebootWorlds \union FaultWorlds \union PersistentRootWorlds

StrictPersistentRootWorlds == {w \in PersistentRootWorlds : ~w.allow}
=============================================================================
