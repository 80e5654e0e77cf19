----------------------------- MODULE MCPackFlow -----------------------------
(***************************************************************************)
(* Small instances of PackFlow.                                            *)
(***************************************************************************)
EXTENDS PackFlow

D(t, p) == [tag |-> t, partition |-> p, digest |-> None]

MCPartOrder == <<"kernel", "ramdisk", "dtb">>
MCVersions == {"k1", "r1", "t1", "k2", "e"}
MCEdits == {"e"}

Full == [valid |-> TRUE, avb |-> TRUE,
         parts |-> [p \in {"kernel", "ramdisk", "dtb"} |->
                      IF p = "kernel" THEN "k1" ELSE IF p = "ramdisk" THEN "r1" ELSE "t1"],
         descs |-> <<D("property", ""), D("hash", "boot"), D("hash", "extra")>>]
\* Verified boot 1.0, and only a kernel.
Old == [valid |-> TRUE, avb |-> FALSE, parts |-> [p \in {"kernel"} |-> "k2"], descs |-> <<>>]
KernelOnly == [Old EXCEPT !.avb = TRUE, !.descs = <<D("hash", "boot")>>]
NoHash == [Old EXCEPT !.avb = TRUE, !.descs = <<D("property", "")>>]
Broken == [Full EXCEPT !.valid = FALSE]
WithoutKernel == [Full EXCEPT !.parts = [p \in {"ramdisk"} |-> "r1"]]

MCBootImages == {Full, Old, KernelOnly, NoHash, Broken, WithoutKernel}

VBMetaOf(descs) == [valid |-> TRUE, descs |-> descs]
MCVBMetas ==
  {VBMetaOf(<<D("hash", "dtbo"), D("hash", "boot"), D("property", "")>>),
   VBMetaOf(<<D("hash", "dtbo")>>), [VBMetaOf(<<>>) EXCEPT !.valid = FALSE]}
=============================================================================
