-------------------------- MODULE SlotVerifyProofs --------------------------
(***************************************************************************)
(* Proofs about SlotVerify, for any device, any contents of the partitions *)
(* and any number of boots and faults.                                     *)
(*                                                                         *)
(* First the types, the shape of the stack and what is known of a frame    *)
(* without an error; then what a call of avb_slot_verify() leaves behind:  *)
(* the slot data its caller is handed, and the values it stores for later  *)
(* boots; and that it accepts a slot without a flaw.                       *)
(***************************************************************************)
EXTENDS SlotVerify, SequenceTheorems, FiniteSetTheorems, TLAPS

\* A frame is on the stack whenever load_and_verify_vbmeta() is running.
Running == pc \in FrameStep => stack # <<>>

TypeInv == TypeOK /\ Running

\* The partition a name refers to, and the vbmeta struct found in it.
LEMMA VBMetaInType ==
  ASSUME NEW w \in World, NEW p \in Name
  PROVE  Disk(w, p) \in Partition /\ VBMetaIn(w, p) \in VBMeta
<1>1. w.suffix \in Suffix /\ w.disk \in [Name \X Suffix -> Partition]
  BY DEF World
<1>2. Disk(w, p) \in Partition
  BY <1>1 DEF Disk
<1>3. VBMetaIn(w, p) \in VBMeta
  BY <1>2 DEF VBMetaIn, Partition
<1> QED BY <1>2, <1>3

\* The partition a hash descriptor is about.
LEMMA HashTargetType ==
  ASSUME NEW w \in World, NEW d \in Desc, d.tag # "cmdline"
  PROVE  d.part \in Name /\ HashTarget(w, d) \in Partition
<1>1. w.suffix \in Suffix /\ w.disk \in [Name \X Suffix -> Partition]
  BY DEF World
<1>2. d.part \in Name
  BY DEF Desc
<1>3. (IF d.noab THEN "" ELSE w.suffix) \in Suffix
  BY <1>1 DEF Suffix
<1> QED BY <1>1, <1>2, <1>3 DEF HashTarget

LEMMA TopType ==
  ASSUME TypeOK, stack # <<>>
  PROVE  /\ Len(stack) \in Nat \ {0}
         /\ Top \in Frame
         /\ VB \in VBMeta
<1>1. Len(stack) \in Nat \ {0} /\ Top \in Frame
  BY DEF TypeOK, Top
<1>2. VB \in VBMeta
  BY <1>1, VBMetaInType DEF TypeOK, VB, Frame
<1> QED BY <1>1, <1>2

LEMMA SetTopType ==
  ASSUME TypeOK, stack # <<>>, NEW f \in Frame, SetTop(f)
  PROVE  stack' \in Seq(Frame) /\ stack' # <<>>
BY DEF TypeOK, SetTop

LEMMA NewFrameType ==
  ASSUME NEW p \in Name, NEW loc \in Location, NEW e \in Key \union {NoKey},
         NEW fl \in SUBSET Flag
  PROVE  NewFrame(p, loc, e, fl) \in Frame
BY DEF NewFrame, Frame, Result

LEMMA DescType ==
  ASSUME TypeOK, stack # <<>>, NEW t, AtDesc(t)
  PROVE  D \in Desc /\ D.tag = t
<1>1. VB.descs \in Seq(Desc) /\ Top.n \in Nat \ {0}
  BY TopType DEF VBMeta, Frame
<1> QED BY <1>1 DEF AtDesc, D

\* goto out, and the other ways to leave a step of load_and_verify_vbmeta().
LEMMA GotoOutType ==
  ASSUME TypeOK, stack # <<>>, NEW f \in Frame, NEW r \in Result, GotoOut(f, r)
  PROVE  stack' \in Seq(Frame) /\ stack' # <<>> /\ pc' = "return"
<1>1. [f EXCEPT !.ret = r] \in Frame
  BY DEF Frame
<1> QED BY <1>1, SetTopType DEF GotoOut

LEMMA NextDescType ==
  ASSUME TypeOK, stack # <<>>, NEW f \in Frame, NextDesc(f)
  PROVE  stack' \in Seq(Frame) /\ stack' # <<>> /\ pc' = "desc"
<1>1. [f EXCEPT !.n = @ + 1] \in Frame
  BY DEF Frame
<1> QED BY <1>1, SetTopType DEF NextDesc

LEMMA AfterHashType ==
  ASSUME TypeOK, stack # <<>>, NEW r \in Result, AfterHash(r)
  PROVE  stack' \in Seq(Frame) /\ stack' # <<>> /\ pc' \in {"desc", "return"}
<1>1. Top \in Frame /\ [Top EXCEPT !.ret = r] \in Frame
  BY TopType DEF Frame
<1> QED BY <1>1, NextDescType, GotoOutType DEF AfterHash

LEMMA HashVerdictType ==
  ASSUME NEW w, NEW v, NEW d
  PROVE  HashVerdict(w, v, d) \in Result /\ HashtreeVerdict(w, v, d) \in Result
BY DEF HashVerdict, HashtreeVerdict, Result

LEMMA InitialValueType ==
  ASSUME TypeOK, stack # <<>>, AtDesc("hash")
  PROVE  InitialValue \in [Name -> Digest \union {NoDigest}]
<1>1. D \in Desc /\ D.tag = "hash"
  BY DescType
<1>2. D.part \in Name /\ HashTarget(world, D) \in Partition
  BY <1>1, HashTargetType DEF TypeOK
<1> QED BY <1>2 DEF InitialValue, Partition, TypeOK

\* The vbmeta digest covers vbmeta structs and nothing else.
LEMMA VBMetaDigestType ==
  ASSUME TypeOK
  PROVE  VBMetaDigest \in Seq(VBMeta)
<1>1. slot.images \in Seq(Image)
  BY DEF TypeOK, SlotData
<1>2. /\ DOMAIN slot.images = 1 .. Len(slot.images)
      /\ Len(slot.images) \in Nat
      /\ \A i \in DOMAIN slot.images : slot.images[i] \in Image
  BY <1>1
<1>3. \A i \in 1 .. Len(slot.images) : slot.images[i].vb \in VBMeta
  BY <1>2 DEF Image
<1> QED BY <1>2, <1>3 DEF VBMetaDigest

LEMMA EmptySlotType == EmptySlot \in SlotData
BY LimitAssumption DEF EmptySlot, SlotData, ErrorMode

\* Loading, checking and recording one vbmeta struct.
LEMMA ImageStepType ==
  ASSUME TypeInv,
         LocateVBMeta \/ ReadVBMeta \/ VerifyImage \/ CheckKey \/ CheckRollback
         \/ LoadRequested \/ ListDescriptors \/ ListDescriptorsFails
  PROVE  TypeInv'
<1> USE DEF TypeInv
<1>0. pc \in FrameStep /\ stack # <<>> /\ TypeOK
  BY DEF Running, FrameStep, LocateVBMeta, ReadVBMeta, VerifyImage, CheckKey, CheckRollback,
         LoadRequested, ListDescriptors, ListDescriptorsFails
<1>1. Len(stack) \in Nat \ {0} /\ Top \in Frame /\ VB \in VBMeta
  BY <1>0, TopType
<1>2. Top.part \in Name /\ Top.loc \in Location /\ Top.n \in Nat \ {0}
  BY <1>1 DEF Frame
<1>3. CASE LocateVBMeta
  <2>1. [Top EXCEPT !.footer = UsesFooter(world, Top.part)] \in Frame
    BY <1>1 DEF Frame, UsesFooter
  <2>2. stack' \in Seq(Frame) /\ stack' # <<>> /\ pc' \in {"return", "read"}
    BY <1>0, <1>1, <1>3, <2>1, GotoOutType, SetTopType DEF LocateVBMeta, Result
  <2> QED BY <1>0, <1>3, <2>2 DEF LocateVBMeta, TypeOK, Running, PC, FrameStep, call, store
<1>4. CASE ReadVBMeta
  <2>1. NewFrame("boot", 0, NoKey, {}) \in Frame
    BY NewFrameType, NameAssumption, LimitAssumption
  <2>2. stack' \in Seq(Frame) /\ stack' # <<>> /\ pc' \in {"return", "locate", "image"}
    BY <1>0, <1>1, <1>4, <2>1, GotoOutType, SetTopType DEF ReadVBMeta, Result, TypeOK
  <2> QED BY <1>0, <1>4, <2>2 DEF ReadVBMeta, TypeOK, Running, PC, FrameStep, call, store
<1>5. CASE VerifyImage
  <2> DEFINE f == IF VB.verify \in SoftVerify THEN [Top EXCEPT !.ret = "VERIFICATION"] ELSE Top
  <2>1. f \in Frame
    BY <1>1 DEF Frame, Result
  <2>2. [f EXCEPT !.flags = VB.flags] \in Frame
    BY <1>1, <2>1 DEF Frame, VBMeta
  <2>3. stack' \in Seq(Frame) /\ stack' # <<>> /\ pc' \in {"return", "key"}
    <3> HIDE DEF f
    <3>1. \/ \E r \in Result : GotoOut(f, r)
          \/ SetTop([f EXCEPT !.flags = VB.flags]) /\ pc' = "key"
          \/ SetTop(f) /\ pc' = "key"
      BY <1>5 DEF VerifyImage, Result, f
    <3> QED BY <1>0, <2>1, <2>2, <3>1, GotoOutType, SetTopType
  <2> QED BY <1>0, <1>5, <2>3 DEF VerifyImage, TypeOK, Running, PC, FrameStep, call, store
<1>6. CASE CheckKey
  <2> DEFINE f == IF (VB.verify = "OK" /\ Top.expect = NoKey) /\ world.noVbmeta
                  THEN [Top EXCEPT !.locUse = world.locOf[Top.part]] ELSE Top
  <2>1. f \in Frame
    BY <1>0, <1>1, <1>2 DEF Frame, TypeOK, World
  <2>2. [f EXCEPT !.ret = "PUBLIC_KEY_REJECTED"] \in Frame
    BY <2>1 DEF Frame, Result
  <2>3. stack' \in Seq(Frame) /\ stack' # <<>> /\ pc' \in {"return", "rollback"}
    <3> HIDE DEF f
    <3>1. \/ SoftError(f, "PUBLIC_KEY_REJECTED", "rollback")
          \/ SetTop(f) /\ pc' = "rollback"
      BY <1>6 DEF CheckKey, f
    <3> QED BY <1>0, <2>1, <2>2, <3>1, SetTopType DEF SoftError
  <2> QED BY <1>0, <1>6, <2>3 DEF CheckKey, TypeOK, Running, PC, FrameStep, call, store
<1>7. CASE CheckRollback
  <2> DEFINE g == [slot EXCEPT !.images = Append(@, [part |-> Top.part, vb |-> VB])]
  <2>0. Append(slot.images, [part |-> Top.part, vb |-> VB]) \in Seq(Image)
    <3>1. [part |-> Top.part, vb |-> VB] \in Image /\ slot.images \in Seq(Image)
      BY <1>0, <1>1, <1>2 DEF TypeOK, SlotData, Image
    <3> QED BY <3>1
  <2>1. g \in SlotData
    BY <1>0, <2>0 DEF TypeOK, SlotData
  <2>2. [Top EXCEPT !.ret = "ROLLBACK_INDEX"] \in Frame
    BY <1>1 DEF Frame, Result
  <2>3. /\ stack' \in Seq(Frame) /\ stack' # <<>> /\ pc' \in {"return", "load", "list"}
        /\ slot' = slot \/ slot' = g
    <3> HIDE DEF g
    <3>1. \/ GotoOut(Top, "ROLLBACK_INDEX") /\ slot' = slot
          \/ GotoOut(Top, "OOM") /\ slot' = slot
          \/ /\ SetTop(Top) \/ SetTop([Top EXCEPT !.ret = "ROLLBACK_INDEX"])
             /\ pc' \in {"load", "list"} /\ slot' = g
      BY <1>7 DEF CheckRollback, g
    <3> QED BY <1>0, <1>1, <2>2, <3>1, GotoOutType, SetTopType DEF Result
  <2> QED BY <1>0, <1>7, <2>1, <2>3 DEF CheckRollback, TypeOK, Running, PC, FrameStep, call, store
<1>8. CASE LoadRequested
  <2>0. slot.loaded \o world.requested \in Seq(Name)
    <3>1. slot.loaded \in Seq(Name) /\ world.requested \in Seq(Name)
      BY <1>0 DEF TypeOK, SlotData, World
    <3> QED BY <3>1
  <2>1. [slot EXCEPT !.loaded = @ \o world.requested] \in SlotData
    BY <1>0, <2>0 DEF TypeOK, SlotData
  <2>2. stack' \in Seq(Frame) /\ stack' # <<>> /\ pc' = "return" /\ slot' \in SlotData
    BY <1>0, <1>1, <1>8, <2>1, GotoOutType DEF LoadRequested, Result, TypeOK
  <2> QED BY <1>0, <1>8, <2>2 DEF LoadRequested, TypeOK, Running, PC, FrameStep, call, store
<1>9. CASE ListDescriptors
  BY <1>0, <1>9 DEF ListDescriptors, TypeOK, Running, PC, FrameStep, call, store
<1>10. CASE ListDescriptorsFails
  <2>1. [Top EXCEPT !.n = Len(VB.descs) + 1] \in Frame
    BY <1>1 DEF Frame, VBMeta
  <2>2. stack' \in Seq(Frame) /\ stack' # <<>> /\ pc' \in {"abort", "desc"}
    BY <1>0, <1>10, <2>1, SetTopType DEF ListDescriptorsFails, TypeOK
  <2> QED BY <1>0, <1>10, <2>2
          DEF ListDescriptorsFails, TypeOK, Running, PC, FrameStep, call, store, Fault
<1> QED BY <1>3, <1>4, <1>5, <1>6, <1>7, <1>8, <1>9, <1>10

\* The loop over the descriptors.
LEMMA DescStepType ==
  ASSUME TypeInv,
         HashDesc \/ HashDescFails \/ ChainDesc \/ CmdlineDesc \/ CmdlineDescFails
         \/ HashtreeDesc \/ PropertyDesc \/ FinishVBMeta
         \/ \E r \in {"OOM", "IO"} : CallbackFails(r)
  PROVE  TypeInv'
<1> USE DEF TypeInv
<1>0. pc \in FrameStep /\ stack # <<>> /\ TypeOK
  BY DEF Running, FrameStep, HashDesc, HashDescFails, ChainDesc, CmdlineDesc, CmdlineDescFails,
         HashtreeDesc, PropertyDesc, FinishVBMeta, CallbackFails, CallsOut, AtDesc
<1>1. Len(stack) \in Nat \ {0} /\ Top \in Frame /\ VB \in VBMeta
  BY <1>0, TopType
<1>2. slot \in SlotData /\ slot.loaded \in Seq(Name)
  BY <1>0 DEF TypeOK, SlotData
<1>3. CASE HashDesc
  <2>1. D \in Desc /\ D.tag = "hash" /\ D.part \in Name
    BY <1>0, <1>3, DescType, HashTargetType DEF HashDesc, TypeOK
  <2>2. [slot EXCEPT !.loaded = Append(@, D.part)] \in SlotData
    <3>1. Append(slot.loaded, D.part) \in Seq(Name)
      BY <1>2, <2>1
    <3> QED BY <1>2, <3>1 DEF SlotData
  <2>3. values' \in [Name -> Digest \union {NoDigest}]
    BY <1>0, <1>3, InitialValueType DEF HashDesc, TypeOK
  <2>4. /\ slot' \in SlotData
        /\ AfterHash("OOM") \/ AfterHash(HashVerdict(world, values, D))
    BY <1>2, <1>3, <2>2 DEF HashDesc
  <2>5. stack' \in Seq(Frame) /\ stack' # <<>> /\ pc' \in {"desc", "return"}
    BY <1>0, <2>4, AfterHashType, HashVerdictType DEF Result
  <2> QED BY <1>0, <1>3, <2>3, <2>4, <2>5
          DEF HashDesc, TypeOK, Running, PC, FrameStep, call
<1>4. CASE HashDescFails
  <2>1. D \in Desc /\ D.tag = "hash" /\ D.part \in Name
    BY <1>0, <1>4, DescType, HashTargetType DEF HashDescFails, TypeOK
  <2>2. [slot EXCEPT !.loaded = Append(@, D.part)] \in SlotData
    <3>1. Append(slot.loaded, D.part) \in Seq(Name)
      BY <1>2, <2>1
    <3> QED BY <1>2, <3>1 DEF SlotData
  <2>3. /\ values' = values \/ values' = InitialValue
        /\ slot' \in SlotData
        /\ \E r \in {"OOM", "IO", "VERIFICATION"} : AfterHash(r)
    BY <1>2, <1>4, <2>2 DEF HashDescFails
  <2>4. values' \in [Name -> Digest \union {NoDigest}]
    BY <1>0, <1>4, <2>3, InitialValueType DEF HashDescFails, TypeOK
  <2>5. stack' \in Seq(Frame) /\ stack' # <<>> /\ pc' \in {"desc", "return"}
    BY <1>0, <2>3, AfterHashType DEF Result
  <2> QED BY <1>0, <1>4, <2>3, <2>4, <2>5
          DEF HashDescFails, TypeOK, Running, PC, FrameStep, call, Fault
<1>5. CASE ChainDesc
  <2>1. D \in Desc /\ D.part \in Name
    BY <1>0, <1>5, DescType, HashTargetType DEF ChainDesc, TypeOK
  <2>2. NewFrame(D.part, D.loc, D.key, Top.flags) \in Frame
    BY <1>1, <2>1, NewFrameType DEF Frame, Desc
  <2>3. stack' \in Seq(Frame) /\ stack' # <<>> /\ pc' \in {"locate", "return"}
    <3>1. CASE GotoOut(Top, "INVALID_METADATA")
      BY <1>0, <1>1, <3>1, GotoOutType DEF Result
    <3>2. CASE stack' = Append(stack, NewFrame(D.part, D.loc, D.key, Top.flags)) /\ pc' = "locate"
      <4> DEFINE f == NewFrame(D.part, D.loc, D.key, Top.flags)
      <4>1. f \in Frame /\ stack \in Seq(Frame) /\ stack' = Append(stack, f)
        BY <1>0, <2>2, <3>2 DEF TypeOK
      <4> HIDE DEF f
      <4> QED BY <3>2, <4>1
    <3> QED BY <1>5, <3>1, <3>2 DEF ChainDesc
  <2> QED BY <1>0, <1>5, <2>3 DEF ChainDesc, TypeOK, Running, PC, FrameStep, call, store
<1>6. CASE CmdlineDesc
  <2>1. D \in Desc /\ D.tag = "cmdline"
    BY <1>0, <1>6, DescType DEF CmdlineDesc
  <2> DEFINE s == [kind |-> "desc", when |-> D.when, part |-> D.part]
  <2>2. s \in Snippet
    BY <2>1 DEF Snippet, Desc
  <2> HIDE DEF s
  <2>3. [slot EXCEPT !.cmdline = Append(@, s)] \in SlotData
    <3>1. slot.cmdline \in Seq(Snippet)
      BY <1>2 DEF SlotData
    <3>2. Append(slot.cmdline, s) \in Seq(Snippet)
      BY <2>2, <3>1
    <3> QED BY <1>2, <3>2 DEF SlotData
  <2>4. slot' \in SlotData /\ (NextDesc(Top) \/ GotoOut(Top, "INVALID_METADATA"))
    BY <1>2, <1>6, <2>3 DEF CmdlineDesc, s
  <2>5. stack' \in Seq(Frame) /\ stack' # <<>> /\ pc' \in {"desc", "return"}
    BY <1>0, <1>1, <2>4, NextDescType, GotoOutType DEF Result
  <2> QED BY <1>0, <1>6, <2>4, <2>5 DEF CmdlineDesc, TypeOK, Running, PC, FrameStep, call, store
<1>7. CASE CmdlineDescFails
  <2>1. stack' \in Seq(Frame) /\ stack' # <<>> /\ pc' = "return"
    BY <1>0, <1>1, <1>7, GotoOutType DEF CmdlineDescFails, Result
  <2> QED BY <1>0, <1>7, <2>1
          DEF CmdlineDescFails, TypeOK, Running, PC, FrameStep, call, store, Fault
<1>8. CASE HashtreeDesc
  <2>1. [Top EXCEPT !.ret = "OK"] \in Frame
    BY <1>1 DEF Frame, Result
  <2>2. [slot EXCEPT !.subst = @ + 1] \in SlotData
    BY <1>2 DEF SlotData
  <2>3. /\ slot' \in SlotData
        /\ \/ GotoOut(Top, HashtreeVerdict(world, values, D))
           \/ GotoOut(Top, "INVALID_METADATA")
           \/ NextDesc(Top) \/ NextDesc([Top EXCEPT !.ret = "OK"])
    BY <1>2, <1>8, <2>2 DEF HashtreeDesc
  <2>4. stack' \in Seq(Frame) /\ stack' # <<>> /\ pc' \in {"desc", "return"}
    BY <1>0, <1>1, <2>1, <2>3, NextDescType, GotoOutType, HashVerdictType DEF Result
  <2> QED BY <1>0, <1>8, <2>3, <2>4 DEF HashtreeDesc, TypeOK, Running, PC, FrameStep, call, store
<1>9. CASE PropertyDesc
  <2>1. stack' \in Seq(Frame) /\ stack' # <<>> /\ pc' = "desc"
    BY <1>0, <1>1, <1>9, NextDescType DEF PropertyDesc
  <2> QED BY <1>0, <1>9, <2>1 DEF PropertyDesc, TypeOK, Running, PC, FrameStep, call, store
<1>10. CASE FinishVBMeta
  <2>1. [slot EXCEPT !.rollback[Top.loc] = VB.rollback] \in SlotData
    BY <1>1, <1>2 DEF SlotData, VBMeta
  <2>2. stack' \in Seq(Frame) /\ stack' # <<>> /\ pc' = "return" /\ slot' \in SlotData
    BY <1>0, <1>1, <1>2, <1>10, <2>1, GotoOutType DEF FinishVBMeta, Result, TypeOK
  <2> QED BY <1>0, <1>10, <2>2 DEF FinishVBMeta, TypeOK, Running, PC, FrameStep, call, store
<1>11. ASSUME NEW r \in {"OOM", "IO"}, CallbackFails(r)
       PROVE  TypeInv'
  <2>1. stack' \in Seq(Frame) /\ stack' # <<>> /\ pc' = "return"
    BY <1>0, <1>1, <1>11, GotoOutType DEF CallbackFails, Result
  <2> QED BY <1>0, <1>11, <2>1
          DEF CallbackFails, TypeOK, Running, PC, FrameStep, call, store, Fault
<1> QED BY <1>3, <1>4, <1>5, <1>6, <1>7, <1>8, <1>9, <1>10, <1>11

LEMMA FailType ==
  ASSUME TypeOK, NEW r \in Result, Fail(r)
  PROVE  /\ slot' \in SlotData /\ ret' \in Result /\ pc' = "done"
         /\ stack' = stack /\ out' = out
BY EmptySlotType DEF Fail

\* Returning from load_and_verify_vbmeta(), and the rest of avb_slot_verify().
LEMMA SlotStepType ==
  ASSUME TypeInv,
         ReturnToChain \/ ReturnToSlot \/ NextRequested \/ VBMetasDone \/ MangleCmdline
         \/ MangleCmdlineFails \/ AppendOptions \/ SubstCmdline
         \/ \E r \in {"OOM", "IO"} : SlotCallbackFails(r)
  PROVE  TypeInv'
<1> USE DEF TypeInv
<1>0. TypeOK /\ slot \in SlotData /\ stack \in Seq(Frame) /\ ret \in Result
  BY DEF TypeOK
<1>1. CASE ReturnToChain
  <2>1. Len(stack) \in Nat /\ Len(stack) > 1
    BY <1>0, <1>1 DEF ReturnToChain
  <2> DEFINE k == Len(stack) - 1
             caller == stack[k]
             f == IF Top.ret # "OK" THEN [caller EXCEPT !.ret = Top.ret] ELSE caller
             g == IF Top.ret \in Continuable THEN [f EXCEPT !.n = @ + 1] ELSE f
  <2>2. Top \in Frame /\ caller \in Frame
    BY <1>0, <2>1 DEF Top
  <2>3. f \in Frame
    BY <2>2 DEF Frame
  <2>4. g \in Frame
    BY <2>3 DEF Frame
  <2>5. /\ stack' = [SubSeq(stack, 1, k) EXCEPT ![k] = g]
        /\ pc' \in {"desc", "return"}
    BY <1>1 DEF ReturnToChain
  <2> HIDE DEF g, f, caller
  <2>6. SubSeq(stack, 1, k) \in Seq(Frame) /\ Len(SubSeq(stack, 1, k)) = k /\ k \in Nat \ {0}
    <3>1. \A i \in 1 .. k : stack[i] \in Frame
      BY <1>0, <2>1
    <3>2. k \in Nat \ {0}
      <4>1. \A n \in Nat : n > 1 => n - 1 \in Nat \ {0}
        OBVIOUS
      <4> QED BY <2>1, <4>1
    <3> HIDE DEF k
    <3>3. 1 \in Int /\ k \in Int
      BY <3>2
    <3> QED BY <3>1, <3>2, <3>3, SubSeqProperties
  <2> HIDE DEF k
  <2>7. stack' \in Seq(Frame) /\ stack' # <<>>
    BY <2>4, <2>5, <2>6
  <2> QED BY <1>0, <1>1, <2>5, <2>7
          DEF ReturnToChain, TypeOK, Running, PC, FrameStep, call, store
<1>2. CASE ReturnToSlot
  <2>0. Top \in Frame
    BY <1>0, <1>2 DEF ReturnToSlot, Top
  <2>1. Top.ret \in Result
    BY <2>0 DEF Frame
  <2> QED BY <1>0, <1>2, <2>1, EmptySeq
          DEF ReturnToSlot, TypeOK, Running, PC, FrameStep, SlotStep, call, store
<1>3. CASE NextRequested
  <2>1. world.requested[nreq + 1] \in Name
    BY <1>0, <1>3 DEF NextRequested, TypeOK, World
  <2>2. NewFrame(world.requested[nreq + 1], 0, NoKey, {}) \in Frame
    BY <2>1, NewFrameType, LimitAssumption
  <2>3. stack' \in Seq(Frame) /\ stack' # <<>>
    BY <1>3, <2>2 DEF NextRequested
  <2> QED BY <1>0, <1>3, <2>3
          DEF NextRequested, TypeOK, Running, PC, FrameStep, SlotStep, call, store
<1>4. CASE VBMetasDone
  <2>1. /\ slot' \in SlotData /\ ret' \in Result /\ pc' \in {"done", "mangle"}
        /\ stack' = stack /\ out' = out
    BY <1>0, <1>4, FailType DEF VBMetasDone
  <2> QED BY <1>0, <1>4, <2>1
          DEF VBMetasDone, TypeOK, Running, PC, FrameStep, SlotStep, call, store
<1>5. CASE MangleCmdline
  <2>1. [slot EXCEPT !.cmdline = IF Disk(world, "system").present THEN <<RootSnippet>> ELSE <<>>]
           \in SlotData
    <3>1. RootSnippet \in Snippet
      BY DEF RootSnippet, Snippet, GuidName, When
    <3>2. (IF Disk(world, "system").present THEN <<RootSnippet>> ELSE <<>>) \in Seq(Snippet)
      BY <3>1
    <3> QED BY <1>0, <3>2 DEF SlotData
  <2>2. [slot EXCEPT !.mode = ResolvedMode] \in SlotData
    <3>1. ResolvedMode \in ErrorMode
      BY <1>0 DEF ResolvedMode, ErrorMode, TypeOK, World
    <3> QED BY <1>0, <3>1 DEF SlotData
  <2>3. mark' \in Seq(VBMeta)
    BY <1>0, <1>5, VBMetaDigestType, EmptySeq DEF MangleCmdline, Marked, TypeOK
  <2>4. slot' \in SlotData /\ pc' \in {"subst", "options"}
    BY <1>5, <2>1, <2>2 DEF MangleCmdline
  <2> QED BY <1>0, <1>5, <2>3, <2>4
          DEF MangleCmdline, TypeOK, Running, PC, FrameStep, SlotStep, call
<1>6. CASE MangleCmdlineFails
  <2>1. [slot EXCEPT !.cmdline = <<>>] \in SlotData
    BY <1>0, EmptySeq DEF SlotData
  <2>2. /\ slot' \in SlotData /\ ret' \in Result /\ pc' \in {"done", "subst"}
        /\ stack' = stack /\ out' = out
    <3>1. \/ \E r \in {"OOM", "IO"} : Fail(r)
          \/ /\ pc' = "subst" /\ slot' = [slot EXCEPT !.cmdline = <<>>]
             /\ UNCHANGED <<stack, ret, out>>
      BY <1>6 DEF MangleCmdlineFails
    <3> QED BY <1>0, <2>1, <3>1, FailType DEF Result
  <2> QED BY <1>0, <1>6, <2>2
          DEF MangleCmdlineFails, TypeOK, Running, PC, FrameStep, SlotStep, call, store, Fault
<1>7. CASE AppendOptions
  <2> DEFINE s == [kind |-> "option", when |-> "always",
                   part |-> IF world.noVbmeta THEN NoName ELSE "vbmeta"]
  <2>1. s \in Snippet
    BY DEF Snippet, GuidName, When
  <2> HIDE DEF s
  <2>2. [slot EXCEPT !.cmdline = Append(@, s)] \in SlotData
    <3>1. slot.cmdline \in Seq(Snippet)
      BY <1>0 DEF SlotData
    <3>2. Append(slot.cmdline, s) \in Seq(Snippet)
      BY <2>1, <3>1
    <3> QED BY <1>0, <3>2 DEF SlotData
  <2>3. slot' \in SlotData
    BY <1>7, <2>2 DEF AppendOptions, s
  <2> QED BY <1>0, <1>7, <2>3
          DEF AppendOptions, TypeOK, Running, PC, FrameStep, SlotStep, call, store
<1>8. CASE SubstCmdline
  <2>1. slot' \in SlotData /\ ret' \in Result /\ pc' = "done" /\ stack' = stack /\ out' \in BOOLEAN
    <3>1. Fail("OOM") \/ (pc' = "done" /\ out' = TRUE /\ UNCHANGED <<stack, slot, ret>>)
      BY <1>8 DEF SubstCmdline
    <3> QED BY <1>0, <3>1, FailType DEF Result, TypeOK
  <2> QED BY <1>0, <1>8, <2>1
          DEF SubstCmdline, TypeOK, Running, PC, FrameStep, SlotStep, call, store
<1>9. ASSUME NEW r \in {"OOM", "IO"}, SlotCallbackFails(r)
      PROVE  TypeInv'
  <2>1. slot' \in SlotData /\ ret' \in Result /\ pc' = "done" /\ stack' = stack /\ out' = out
    BY <1>0, <1>9, FailType DEF SlotCallbackFails, Result
  <2> QED BY <1>0, <1>9, <2>1
          DEF SlotCallbackFails, TypeOK, Running, PC, FrameStep, SlotStep, call, store, Fault
<1> QED BY <1>1, <1>2, <1>3, <1>4, <1>5, <1>6, <1>7, <1>8, <1>9

\* A new boot.
LEMMA BootType ==
  ASSUME TypeInv, NEW w \in Worlds, Boot(w) \/ BootFails(w)
  PROVE  TypeInv'
<1>0. w \in World /\ TypeOK
  BY BoundAssumption DEF TypeInv
<1>1. w.requested # <<>> => w.requested[1] \in Name
  BY <1>0 DEF World
<1>2. /\ world' = w /\ boots' = boots + 1 /\ slot' = EmptySlot /\ nreq' = 1
      /\ out' = FALSE /\ blind' = FALSE
  BY DEF Boot, BootFails, Ready
<1>3. values' = values /\ mark' = mark /\ faults' \in Nat
  BY <1>0 DEF Boot, BootFails, Ready, store, Fault, TypeOK
<1>4. /\ stack' \in Seq(Frame) /\ ret' \in Result
      /\ pc' \in {"done", "abort"} \/ (pc' = "locate" /\ stack' # <<>>)
  <2>1. CASE stack' = <<>> /\ pc' \in {"done", "abort"} /\ ret' \in Result
    BY <2>1, EmptySeq
  <2>2. CASE /\ ~(w.noVbmeta /\ w.requested = <<>>)
             /\ stack' = <<NewFrame(IF w.noVbmeta THEN w.requested[1] ELSE "vbmeta", 0, NoKey, {})>>
             /\ pc' = "locate" /\ ret' = "OK"
    <3>1. (IF w.noVbmeta THEN w.requested[1] ELSE "vbmeta") \in Name
      BY <1>1, <2>2, NameAssumption
    <3>2. NewFrame(IF w.noVbmeta THEN w.requested[1] ELSE "vbmeta", 0, NoKey, {}) \in Frame
      BY <3>1, NewFrameType, LimitAssumption
    <3> QED BY <2>2, <3>2 DEF Result
  <2> QED BY <2>1, <2>2 DEF Boot, BootFails, Ready, Result
<1>5. TypeOK'
  <2>1. pc' \in PC /\ slot' \in SlotData /\ out' \in BOOLEAN /\ blind' \in BOOLEAN
    BY <1>2, <1>4, EmptySlotType DEF PC, FrameStep
  <2>2. boots' \in Nat /\ nreq' \in Nat
    BY <1>0, <1>2 DEF TypeOK
  <2> QED BY <1>0, <1>2, <1>3, <1>4, <2>1, <2>2 DEF TypeOK
<1>6. Running'
  BY <1>4 DEF Running, FrameStep
<1> QED BY <1>5, <1>6 DEF TypeInv

LEMMA InitTypeInv == Init => TypeInv
<1> SUFFICES ASSUME Init PROVE TypeInv
  OBVIOUS
<1>1. world \in World
  BY BoundAssumption DEF Init
<1>2. values \in [Name -> Digest \union {NoDigest}]
  BY DEF Init
<1> QED BY <1>1, <1>2, EmptySlotType, EmptySeq
        DEF Init, TypeInv, TypeOK, Running, PC, FrameStep, SlotStep, Result

LEMMA NextTypeInv == TypeInv /\ [Next]_vars => TypeInv'
<1> SUFFICES ASSUME TypeInv, [Next]_vars PROVE TypeInv'
  OBVIOUS
<1>1. CASE UNCHANGED vars
  BY <1>1 DEF vars, TypeInv, TypeOK, Running
<1>2. CASE Step
  BY <1>2, ImageStepType, DescStepType, SlotStepType DEF Step
<1>3. CASE Ready /\ \E w \in Worlds : Boot(w) \/ BootFails(w)
  BY <1>3, BootType
<1> QED BY <1>1, <1>2, <1>3 DEF Next

\* Every variable of the verifier keeps its type: in particular a descriptor
\* is only looked at while one is left, a frame is on the stack whenever
\* load_and_verify_vbmeta() runs, and rollback_indexes is never written
\* outside its bounds.
THEOREM TypeCorrect == Spec => []TypeOK
<1>1. Spec => []TypeInv
  BY InitTypeInv, NextTypeInv, PTL DEF Spec
<1>2. TypeInv => TypeOK
  BY DEF TypeInv
<1> QED BY <1>1, <1>2, PTL
-----------------------------------------------------------------------------
(***************************************************************************)
(* The inductive invariant behind OKMeansVerified.                         *)
(*                                                                         *)
(* A frame whose ret is still OK has passed every check that lies behind   *)
(* it; the stages of load_and_verify_vbmeta() at which a check lies behind *)
(* are the following sets.                                                 *)
(***************************************************************************)
Verifying == {"key", "rollback", "load", "list", "desc", "return"}
Keyed     == {"rollback", "load", "list", "desc", "return"}
Recent    == {"load", "list", "desc", "return"}

VBOf(w, f) == VBMetaIn(w, f.part)

Main(w, f) == f.loc = 0 /\ ~w.noVbmeta

\* Descriptor d of the image of frame f has been dealt with.
Dealt(w, v, f, d) ==
  IF Main(w, f) THEN DescVerified(w, v, d) ELSE d.tag # "chain" /\ Holds(w, v, d)

\* The image of frame f is verified as a whole.
Complete(w, v, f) ==
  IF Main(w, f) THEN TopVerified(w, v, f.part)
  ELSE f.loc < MAX_LOCATIONS /\ LeafVerified(w, v, f.part, f.loc, f.expect)

\* What the checks behind a frame have established of its vbmeta struct.
Checked(w, f, stage) ==
  /\ stage \in Verifying \union {"image"} => Disk(w, f.part).present
  /\ stage \in Verifying => VBOf(w, f).verify = "OK" /\ (~Main(w, f) => VBOf(w, f).flags = {})
  /\ stage \notin Keyed => f.locUse = f.loc
  /\ stage \in Keyed => /\ TrustedKey(w, VBOf(w, f), f.expect)
                        /\ f.locUse = IF w.noVbmeta THEN w.locOf[f.part] ELSE f.loc
  /\ stage \in Recent => VBOf(w, f).rollback >= w.stored[f.locUse]
  /\ stage = "load" => "VERIFICATION_DISABLED" \in VBOf(w, f).flags

\* A frame that has not seen an error, at the given stage.
Clean(w, v, f, stage) ==
  /\ Checked(w, f, stage)
  /\ IF stage = "return" THEN Complete(w, v, f)
     ELSE \A i \in DOMAIN VBOf(w, f).descs : i < f.n => Dealt(w, v, f, VBOf(w, f).descs[i])

\* The outermost frame is for the partition avb_slot_verify() asked for, or
\* for 'boot' in its place.
Outermost(w, k, f) ==
  /\ f.loc = 0 /\ f.expect = NoKey
  /\ IF w.noVbmeta
     THEN k \in DOMAIN w.requested /\ f.part = w.requested[k]
     ELSE f.part = "vbmeta" \/ (f.part = "boot" /\ ~Disk(w, "vbmeta").present)

\* Frame g is the call that frame f makes for the chain descriptor it is at.
CalledBy(w, f, g) ==
  /\ ~w.noVbmeta
  /\ f.n \in DOMAIN VBOf(w, f).descs
  /\ LET d == VBOf(w, f).descs[f.n]
     IN /\ d.tag = "chain" /\ d.bad # "layout" /\ d.loc # 0
        /\ g.part = d.part /\ g.loc = d.loc /\ g.expect = d.key

\* The shape of the stack, whatever the images contain.
StackShape ==
  pc \in FrameStep =>
    /\ Len(stack) \in {1, 2}
    /\ Outermost(world, nreq, stack[1])
    /\ Len(stack) = 2 => CalledBy(world, stack[1], stack[2])

\* The partitions avb_slot_verify() has gone through without a vbmeta partition.
EarlierVerified ==
  world.noVbmeta /\ pc \in FrameStep \union {"next"} =>
    /\ nreq \in DOMAIN world.requested
    /\ \A j \in 1 .. nreq - 1 : LeafVerified(world, values, world.requested[j], 0, NoKey)

FramesClean ==
  pc \in FrameStep =>
    /\ Top.ret = "OK" => Clean(world, values, Top, pc)
    /\ Len(stack) = 2 /\ stack[1].ret = "OK" => Clean(world, values, stack[1], "desc")

SlotClean ==
  ret = "OK" =>
    /\ pc = "next" => IF world.noVbmeta
                      THEN LeafVerified(world, values, world.requested[nreq], 0, NoKey)
                      ELSE TopVerified(world, values, TopLevel(world))
    /\ pc \in {"mangle", "options", "subst", "done"} => Verified(world, values)

SafeInv == Dependable => EarlierVerified /\ FramesClean /\ SlotClean

Inv == TypeInv /\ StackShape /\ SafeInv
-----------------------------------------------------------------------------
(***************************************************************************)
(* Storing a digest on first use keeps everything that was verified.       *)
(***************************************************************************)
Values == [Name -> Digest \union {NoDigest}]

Grows(v1, v2) == \A p \in Name : v1[p] # NoDigest => v2[p] = v1[p]

LEMMA HoldsGrows ==
  ASSUME NEW w \in World, NEW d \in Desc, NEW v1 \in Values, NEW v2 \in Values,
         Grows(v1, v2), Holds(w, v1, d)
  PROVE  Holds(w, v2, d)
<1>1. ASSUME d.tag = "hash", Requested(w, d.part), d.digest = NoDigest
      PROVE  v2[d.part] = v1[d.part]
  <2>1. d.part \in Name /\ HashTarget(w, d) \in Partition
    BY <1>1, HashTargetType
  <2>2. HashTarget(w, d).body \in Digest
    BY <2>1 DEF Partition
  <2>3. HashTarget(w, d).body = v1[d.part]
    BY <1>1 DEF Holds
  <2> QED BY <2>1, <2>2, <2>3, SentinelAssumption DEF Grows
<1>2. ASSUME Persistent(d)
      PROVE  v2[d.part] # NoDigest
  <2>1. d.part \in Name
    BY <1>2, HashTargetType DEF Persistent
  <2>2. v1[d.part] # NoDigest
    BY <1>2 DEF Holds
  <2> QED BY <2>1, <2>2 DEF Grows
<1> QED BY <1>1, <1>2 DEF Holds

LEMMA LeafGrows ==
  ASSUME NEW w \in World, NEW p \in Name, NEW l, NEW e, NEW v1 \in Values, NEW v2 \in Values,
         Grows(v1, v2), LeafVerified(w, v1, p, l, e)
  PROVE  LeafVerified(w, v2, p, l, e)
<1>1. VBMetaIn(w, p).descs \in Seq(Desc)
  BY VBMetaInType DEF VBMeta
<1>2. \A i \in DOMAIN VBMetaIn(w, p).descs : VBMetaIn(w, p).descs[i] \in Desc
  BY <1>1
<1>3. ASSUME NEW i \in DOMAIN VBMetaIn(w, p).descs
      PROVE  Holds(w, v2, VBMetaIn(w, p).descs[i])
  BY <1>2, HoldsGrows DEF LeafVerified
<1> QED BY <1>3 DEF LeafVerified

LEMMA DealtGrows ==
  ASSUME NEW w \in World, NEW f \in Frame, NEW d \in Desc, NEW v1 \in Values, NEW v2 \in Values,
         Grows(v1, v2), Dealt(w, v1, f, d)
  PROVE  Dealt(w, v2, f, d)
<1>1. Holds(w, v2, d)
  BY HoldsGrows DEF Dealt, DescVerified
<1>2. ASSUME d.tag = "chain", LeafVerified(w, v1, d.part, d.loc, d.key)
      PROVE  LeafVerified(w, v2, d.part, d.loc, d.key)
  <2>1. d.part \in Name
    BY <1>2, HashTargetType
  <2> QED BY <1>2, <2>1, LeafGrows
<1> QED BY <1>1, <1>2 DEF Dealt, DescVerified

LEMMA FrameDescs ==
  ASSUME NEW w \in World, NEW f \in Frame
  PROVE  /\ VBOf(w, f) \in VBMeta
         /\ VBOf(w, f).descs \in Seq(Desc)
         /\ DOMAIN VBOf(w, f).descs = 1 .. Len(VBOf(w, f).descs)
         /\ Len(VBOf(w, f).descs) \in Nat
         /\ \A i \in DOMAIN VBOf(w, f).descs : VBOf(w, f).descs[i] \in Desc
<1>1. VBOf(w, f) \in VBMeta
  BY VBMetaInType DEF VBOf, Frame
<1>2. VBOf(w, f).descs \in Seq(Desc)
  BY <1>1 DEF VBMeta
<1> QED BY <1>1, <1>2

LEMMA CleanGrows ==
  ASSUME NEW w \in World, NEW f \in Frame, NEW v1 \in Values, NEW v2 \in Values,
         Grows(v1, v2), Clean(w, v1, f, "desc")
  PROVE  Clean(w, v2, f, "desc")
<1>1. ASSUME NEW i \in DOMAIN VBOf(w, f).descs, i < f.n
      PROVE  Dealt(w, v2, f, VBOf(w, f).descs[i])
  BY <1>1, FrameDescs, DealtGrows DEF Clean
<1> QED BY <1>1 DEF Clean
-----------------------------------------------------------------------------
(***************************************************************************)
(* A step of load_and_verify_vbmeta() that replaces the innermost frame by *)
(* f keeps the invariant if f is clean at the stage it reaches.            *)
(***************************************************************************)
Quiet == UNCHANGED <<world, nreq, ret, blind>> /\ values' \in Values /\ Grows(values, values')

SameCall(f, g) == f.part = g.part /\ f.loc = g.loc /\ f.expect = g.expect

LEMMA InnermostStep ==
  ASSUME TypeInv', Inv, pc \in FrameStep, Quiet, NEW f \in Frame, SetTop(f), SameCall(f, Top),
         pc' \in FrameStep,
         Dependable /\ f.ret = "OK" => Clean(world, values', f, pc')
  PROVE  Inv'
<1>0. TypeOK /\ stack # <<>> /\ stack \in Seq(Frame) /\ StackShape /\ Top \in Frame
  BY TopType DEF Inv, TypeInv, Running, TypeOK
<1>1. Len(stack) \in {1, 2}
  BY <1>0 DEF StackShape
<1>2. /\ Len(stack') = Len(stack) /\ Top' = f
      /\ Len(stack) = 1 => stack'[1] = f
      /\ Len(stack) = 2 => stack'[1] = stack[1] /\ stack'[2] = f /\ Top = stack[2]
      /\ Len(stack) = 1 => Top = stack[1]
  BY <1>0, <1>1 DEF SetTop, Top
<1>3. world' = world /\ nreq' = nreq /\ ret' = ret /\ blind' = blind
  BY DEF Quiet
<1>4. StackShape'
  <2>1. Outermost(world, nreq, stack'[1])
    BY <1>0, <1>1, <1>2 DEF StackShape, Outermost, SameCall
  <2>2. Len(stack) = 2 => CalledBy(world, stack[1], f)
    BY <1>0, <1>2 DEF StackShape, CalledBy, SameCall
  <2> QED BY <1>1, <1>2, <1>3, <2>1, <2>2 DEF StackShape
<1>5. ASSUME Dependable
      PROVE  EarlierVerified' /\ FramesClean' /\ SlotClean'
  <2>1. EarlierVerified /\ FramesClean
    BY <1>5 DEF Inv, SafeInv
  <2>2. world \in World /\ values \in Values /\ values' \in Values /\ Grows(values, values')
    BY <1>0 DEF TypeOK, Values, Quiet
  <2>3. EarlierVerified'
    <3> SUFFICES ASSUME world.noVbmeta
                 PROVE  /\ nreq \in DOMAIN world.requested
                        /\ \A j \in 1 .. nreq - 1 :
                             LeafVerified(world, values', world.requested[j], 0, NoKey)
      BY <1>3 DEF EarlierVerified
    <3>1. /\ nreq \in DOMAIN world.requested
          /\ \A j \in 1 .. nreq - 1 : LeafVerified(world, values, world.requested[j], 0, NoKey)
      BY <2>1 DEF EarlierVerified
    <3>2. \A j \in 1 .. nreq - 1 : world.requested[j] \in Name
      BY <2>2, <3>1 DEF World
    <3> QED BY <2>2, <3>1, <3>2, LeafGrows
  <2>4. FramesClean'
    <3>1. ASSUME Len(stack) = 2, stack[1].ret = "OK"
          PROVE  Clean(world, values', stack[1], "desc")
      <4>1. Clean(world, values, stack[1], "desc") /\ stack[1] \in Frame
        BY <1>0, <2>1, <3>1 DEF FramesClean
      <4> QED BY <2>2, <4>1, CleanGrows
    <3>2. f.ret = "OK" => Clean(world, values', f, pc')
      BY <1>5
    <3> QED BY <1>2, <1>3, <3>1, <3>2 DEF FramesClean
  <2>5. SlotClean'
    BY DEF SlotClean, FrameStep
  <2> QED BY <2>3, <2>4, <2>5
<1>6. Dependable' => Dependable
  BY <1>3 DEF Dependable
<1> QED BY <1>4, <1>5, <1>6 DEF Inv, SafeInv

\* In particular if it ends the call with an error.
LEMMA ErrorStep ==
  ASSUME TypeInv', Inv, pc \in FrameStep, Quiet, NEW f \in Frame, SameCall(f, Top),
         NEW r \in Result \ {"OK"}, GotoOut(f, r)
  PROVE  Inv'
<1> DEFINE g == [f EXCEPT !.ret = r]
<1>1. g \in Frame /\ g.ret # "OK" /\ SameCall(g, Top)
  BY DEF Frame, SameCall
<1>2. SetTop(g) /\ pc' \in FrameStep
  BY DEF GotoOut, FrameStep
<1> HIDE DEF g
<1> QED BY <1>1, <1>2, InnermostStep

\* What is known of the innermost frame.
LEMMA TopClean ==
  ASSUME Inv, pc \in FrameStep
  PROVE  /\ TypeOK /\ Top \in Frame /\ SameCall(Top, Top)
         /\ VB = VBOf(world, Top) /\ (IsMain <=> Main(world, Top))
         /\ Dependable /\ Top.ret = "OK" => Clean(world, values, Top, pc)
<1>1. TypeOK /\ stack # <<>>
  BY DEF Inv, TypeInv, Running
<1> QED BY <1>1, TopType DEF Inv, SafeInv, FramesClean, SameCall, VB, VBOf, IsMain, Main

LEMMA SameValues ==
  ASSUME TypeOK, values' = values, UNCHANGED <<world, nreq, ret, blind>>
  PROVE  Quiet
BY DEF Quiet, Grows, TypeOK, Values

LEMMA SetTopSame ==
  ASSUME TypeOK, stack # <<>>, stack' = stack
  PROVE  SetTop(Top)
BY DEF SetTop, Top, TypeOK

LEMMA CleanForward ==
  ASSUME NEW w, NEW v, NEW f, NEW g, NEW s, NEW t,
         SameCall(g, f), g.n = f.n, s # "return", t # "return",
         Clean(w, v, f, s), Checked(w, g, t)
  PROVE  Clean(w, v, g, t)
BY DEF Clean, SameCall, VBOf, Dealt, Main

\* Loading a vbmeta struct, with the fallback to 'boot'.
LEMMA LoadingSafe ==
  ASSUME Inv, TypeInv', LocateVBMeta \/ ReadVBMeta
  PROVE  Inv'
<1>0. pc \in FrameStep /\ stack # <<>> /\ TypeOK
  BY DEF FrameStep, LocateVBMeta, ReadVBMeta, Inv, TypeInv, Running
<1>1. Quiet
  BY <1>0, SameValues DEF LocateVBMeta, ReadVBMeta, call, store
<1>2. /\ Top \in Frame /\ SameCall(Top, Top)
      /\ Dependable /\ Top.ret = "OK" => Clean(world, values, Top, pc)
  BY <1>0, TopClean
<1>3. values' = values
  BY DEF LocateVBMeta, ReadVBMeta, store
<1>4. CASE LocateVBMeta
  <2>1. CASE GotoOut(Top, "IO")
    BY <1>0, <1>1, <1>2, <2>1, ErrorStep DEF Result
  <2>2. CASE SetTop([Top EXCEPT !.footer = UsesFooter(world, Top.part)]) /\ pc' = "read"
    <3> DEFINE f == [Top EXCEPT !.footer = UsesFooter(world, Top.part)]
    <3>1. /\ f \in Frame /\ SameCall(f, Top) /\ f.n = Top.n /\ f.ret = Top.ret
          /\ f.locUse = Top.locUse
      BY <1>2 DEF Frame, UsesFooter, SameCall
    <3>2. SetTop(f)
      BY <2>2
    <3> HIDE DEF f
    <3>3. Clean(world, values, Top, "locate") => Checked(world, f, "read")
      BY <3>1 DEF Clean, Checked, Verifying, Keyed, Recent, SameCall
    <3>4. Dependable /\ f.ret = "OK" => Clean(world, values', f, pc')
      BY <1>2, <1>3, <1>4, <2>2, <3>1, <3>3, CleanForward DEF LocateVBMeta
    <3> QED BY <1>0, <1>1, <2>2, <3>1, <3>2, <3>4, InnermostStep DEF FrameStep
  <2> QED BY <1>4, <2>1, <2>2 DEF LocateVBMeta
<1>5. CASE ReadVBMeta
  <2>1. CASE GotoOut(Top, "IO")
    BY <1>0, <1>1, <1>2, <2>1, ErrorStep DEF Result
  <2>2. CASE Disk(world, Top.part).present /\ pc' = "image" /\ UNCHANGED stack
    <3>1. Clean(world, values, Top, "read") => Checked(world, Top, "image")
      BY <2>2 DEF Clean, Checked, Verifying, Keyed, Recent
    <3>2. Dependable /\ Top.ret = "OK" => Clean(world, values', Top, pc')
      BY <1>2, <1>3, <1>5, <2>2, <3>1, CleanForward DEF ReadVBMeta
    <3>3. SetTop(Top)
      BY <1>0, <2>2, SetTopSame
    <3> QED BY <1>0, <1>1, <1>2, <2>2, <3>2, <3>3, InnermostStep DEF FrameStep
  <2>3. CASE /\ ~Disk(world, Top.part).present /\ IsMain /\ Top.part \in VBMetaName
             /\ SetTop(NewFrame("boot", 0, NoKey, {})) /\ pc' = "locate"
    <3>1. /\ stack \in Seq(Frame) /\ Len(stack) \in {1, 2} /\ Outermost(world, nreq, stack[1])
          /\ Len(stack) = 2 => CalledBy(world, stack[1], stack[2])
      BY <1>0 DEF Inv, StackShape, TypeOK
    <3>2. Len(stack) = 1 /\ Top = stack[1]
      BY <2>3, <3>1 DEF Top, CalledBy, IsMain
    <3>3. Top.part = "vbmeta" /\ ~Disk(world, "vbmeta").present /\ ~world.noVbmeta
      BY <2>3, <3>1, <3>2, NameAssumption DEF Outermost, IsMain
    <3> DEFINE f == NewFrame("boot", 0, NoKey, {})
    <3>4. f.part = "boot" /\ f.loc = 0 /\ f.expect = NoKey /\ f.n = 1 /\ f.locUse = 0
      BY DEF NewFrame
    <3>5. Len(stack') = 1 /\ stack'[1] = f /\ Top' = f
      BY <2>3, <3>1, <3>2 DEF SetTop, Top
    <3> HIDE DEF f
    <3>6. StackShape'
      <4>1. Outermost(world, nreq, f)
        BY <3>3, <3>4 DEF Outermost
      <4> QED BY <1>1, <3>5, <4>1 DEF StackShape, Quiet
    <3>7. Clean(world, values, f, "locate")
      <4>1. \A i \in DOMAIN VBOf(world, f).descs : ~(i < 1)
        <5>1. VBOf(world, f).descs \in Seq(Desc)
          BY <1>0, <3>4, VBMetaInType, NameAssumption DEF VBOf, VBMeta, TypeOK
        <5> QED BY <5>1
      <4> QED BY <3>4, <4>1 DEF Clean, Checked, Verifying, Keyed, Recent
    <3>8. SafeInv'
      <4>1. FramesClean'
        BY <1>1, <1>3, <2>3, <3>5, <3>7 DEF FramesClean, Quiet
      <4>2. EarlierVerified' /\ SlotClean'
        BY <1>1, <2>3, <3>3 DEF EarlierVerified, SlotClean, Quiet
      <4> QED BY <4>1, <4>2 DEF SafeInv
    <3> QED BY <3>6, <3>8 DEF Inv
  <2> QED BY <1>5, <2>1, <2>2, <2>3 DEF ReadVBMeta
<1> QED BY <1>4, <1>5

\* The checks of the vbmeta struct itself.
LEMMA CheckingSafe ==
  ASSUME Inv, TypeInv', VerifyImage \/ CheckKey \/ CheckRollback
  PROVE  Inv'
<1>0. pc \in FrameStep /\ stack # <<>> /\ TypeOK
  BY DEF FrameStep, VerifyImage, CheckKey, CheckRollback, Inv, TypeInv, Running
<1>1. Quiet
  BY <1>0, SameValues DEF VerifyImage, CheckKey, CheckRollback, call, store
<1>2. /\ Top \in Frame /\ SameCall(Top, Top)
      /\ VB = VBOf(world, Top) /\ (IsMain <=> Main(world, Top)) /\ VB \in VBMeta
      /\ Dependable /\ Top.ret = "OK" => Clean(world, values, Top, pc)
  BY <1>0, TopClean, TopType
<1>3. values' = values
  BY DEF VerifyImage, CheckKey, CheckRollback, store
<1>4. CASE VerifyImage
  <2> DEFINE f == IF VB.verify \in SoftVerify THEN [Top EXCEPT !.ret = "VERIFICATION"] ELSE Top
             g == [f EXCEPT !.flags = VB.flags]
  <2>1. f \in Frame /\ SameCall(f, Top)
    BY <1>2 DEF Frame, Result, SameCall
  <2>2. g \in Frame /\ SameCall(g, Top)
    BY <1>2, <2>1 DEF Frame, VBMeta, SameCall
  <2>3. f.ret = "OK" => VB.verify \notin SoftVerify /\ f = Top
    BY <1>2 DEF Frame
  <2>4. g.ret = f.ret /\ g.n = f.n /\ g.locUse = f.locUse
    BY <2>1 DEF Frame
  <2>5. \/ \E r \in Result \ {"OK"} : GotoOut(f, r)
        \/ /\ VB.verify \notin {"INVALID_VBMETA_HEADER", "UNSUPPORTED_VERSION"}
           /\ pc' = "key"
           /\ \/ IsMain /\ SetTop(g)
              \/ ~IsMain /\ VB.flags = {} /\ SetTop(f)
    BY <1>4 DEF VerifyImage, Result
  <2> HIDE DEF f, g
  <2>6. CASE \E r \in Result \ {"OK"} : GotoOut(f, r)
    BY <1>0, <1>1, <2>1, <2>6, ErrorStep
  <2>7. ASSUME VB.verify \notin {"INVALID_VBMETA_HEADER", "UNSUPPORTED_VERSION"},
               IsMain \/ VB.flags = {}, NEW h \in {f, g}, h.ret = "OK", Dependable
        PROVE  Clean(world, values, h, "key")
    <3>1. VB.verify = "OK" /\ f = Top /\ f.ret = "OK"
      BY <1>2, <2>3, <2>4, <2>7 DEF VBMeta, Verify, SoftVerify
    <3>2. Clean(world, values, Top, "image")
      BY <1>2, <1>4, <2>7, <3>1 DEF VerifyImage
    <3>3. SameCall(h, Top) /\ h.n = Top.n /\ h.locUse = Top.locUse
      BY <2>1, <2>2, <2>4, <2>7, <3>1
    <3>4. Checked(world, h, "key")
      BY <1>2, <2>7, <3>1, <3>2, <3>3
      DEF Checked, Clean, Verifying, Keyed, Recent, SameCall, VBOf, Main
    <3> QED BY <3>2, <3>3, <3>4, CleanForward
  <2>8. CASE /\ VB.verify \notin {"INVALID_VBMETA_HEADER", "UNSUPPORTED_VERSION"}
             /\ pc' = "key" /\ IsMain /\ SetTop(g)
    <3>1. Dependable /\ g.ret = "OK" => Clean(world, values', g, pc')
      BY <1>3, <2>7, <2>8
    <3> QED BY <1>0, <1>1, <2>2, <2>8, <3>1, InnermostStep DEF FrameStep
  <2>9. CASE /\ VB.verify \notin {"INVALID_VBMETA_HEADER", "UNSUPPORTED_VERSION"}
             /\ pc' = "key" /\ ~IsMain /\ VB.flags = {} /\ SetTop(f)
    <3>1. Dependable /\ f.ret = "OK" => Clean(world, values', f, pc')
      BY <1>3, <2>7, <2>9
    <3> QED BY <1>0, <1>1, <2>1, <2>9, <3>1, InnermostStep DEF FrameStep
  <2> QED BY <2>5, <2>6, <2>8, <2>9
<1>5. CASE CheckKey
  <2> DEFINE f == IF (VB.verify = "OK" /\ Top.expect = NoKey) /\ world.noVbmeta
                  THEN [Top EXCEPT !.locUse = world.locOf[Top.part]] ELSE Top
             g == [f EXCEPT !.ret = "PUBLIC_KEY_REJECTED"]
  <2>1. f \in Frame /\ SameCall(f, Top) /\ f.ret = Top.ret /\ f.n = Top.n
    BY <1>0, <1>2 DEF Frame, SameCall, TypeOK, World
  <2>2. g \in Frame /\ SameCall(g, Top) /\ g.ret # "OK"
    BY <2>1 DEF Frame, Result, SameCall
  <2>3. /\ world.noVbmeta /\ VB.verify = "OK" /\ Top.expect = NoKey => f.locUse = world.locOf[Top.part]
        /\ ~world.noVbmeta => f.locUse = Top.locUse
    BY <1>2 DEF Frame
  <2>4. \/ SetTop(g) /\ pc' \in {"rollback", "return"}
        \/ /\ VB.verify = "OK" => TrustedKey(world, VB, Top.expect)
           /\ SetTop(f) /\ pc' = "rollback"
    BY <1>5 DEF CheckKey, SoftError
  <2> HIDE DEF f, g
  <2>5. CASE SetTop(g) /\ pc' \in {"rollback", "return"}
    BY <1>0, <1>1, <2>2, <2>5, InnermostStep DEF FrameStep
  <2>6. CASE /\ VB.verify = "OK" => TrustedKey(world, VB, Top.expect)
             /\ SetTop(f) /\ pc' = "rollback"
    <3>1. ASSUME Dependable, f.ret = "OK"
          PROVE  Clean(world, values, f, "rollback")
      <4>1. Clean(world, values, Top, "key")
        BY <1>2, <1>5, <2>1, <3>1 DEF CheckKey
      <4>2. Top.locUse = Top.loc \/ world.noVbmeta
        BY <4>1 DEF Clean, Checked, Keyed
      <4>3. world.noVbmeta => Top.expect = NoKey
        BY <1>0 DEF Inv, StackShape, Outermost, CalledBy, Top
      <4>4. Checked(world, f, "rollback")
        BY <1>2, <2>1, <2>3, <2>6, <4>1, <4>2, <4>3
        DEF Checked, Clean, Verifying, Keyed, Recent, SameCall, VBOf, Main
      <4> QED BY <2>1, <4>1, <4>4, CleanForward
    <3>2. Dependable /\ f.ret = "OK" => Clean(world, values', f, pc')
      BY <1>3, <2>6, <3>1
    <3> QED BY <1>0, <1>1, <2>1, <2>6, <3>2, InnermostStep DEF FrameStep
  <2> QED BY <2>4, <2>5, <2>6
<1>6. CASE CheckRollback
  <2> DEFINE f == [Top EXCEPT !.ret = "ROLLBACK_INDEX"]
             next == IF "VERIFICATION_DISABLED" \in VB.flags THEN "load" ELSE "list"
  <2>1. f \in Frame /\ SameCall(f, Top) /\ f.ret # "OK"
    BY <1>2 DEF Frame, Result, SameCall
  <2>2. \/ GotoOut(Top, "ROLLBACK_INDEX") \/ GotoOut(Top, "OOM")
        \/ SetTop(f) /\ pc' = next
        \/ ~(VB.rollback < world.stored[Top.locUse]) /\ SetTop(Top) /\ pc' = next
    BY <1>6 DEF CheckRollback
  <2> HIDE DEF f
  <2>3. CASE GotoOut(Top, "ROLLBACK_INDEX") \/ GotoOut(Top, "OOM")
    BY <1>0, <1>1, <1>2, <2>3, ErrorStep DEF Result
  <2>4. CASE SetTop(f) /\ pc' = next
    BY <1>0, <1>1, <2>1, <2>4, InnermostStep DEF FrameStep
  <2>5. CASE ~(VB.rollback < world.stored[Top.locUse]) /\ SetTop(Top) /\ pc' = next
    <3>1. VB.rollback >= world.stored[Top.locUse]
      <4>1. VB.rollback \in Nat /\ world.stored[Top.locUse] \in Nat
        BY <1>0, <1>2 DEF VBMeta, Frame, TypeOK, World
      <4> QED BY <2>5, <4>1
    <3>2. ASSUME Dependable, Top.ret = "OK"
          PROVE  Clean(world, values, Top, next)
      <4>1. Clean(world, values, Top, "rollback")
        BY <1>2, <1>6, <3>2 DEF CheckRollback
      <4>2. Checked(world, Top, next)
        BY <1>2, <3>1, <4>1 DEF Checked, Clean, Verifying, Keyed, Recent
      <4> QED BY <1>2, <4>1, <4>2, CleanForward
    <3>3. Dependable /\ Top.ret = "OK" => Clean(world, values', Top, pc')
      BY <1>3, <2>5, <3>2
    <3> QED BY <1>0, <1>1, <1>2, <2>5, <3>3, InnermostStep DEF FrameStep
  <2> QED BY <2>2, <2>3, <2>4, <2>5
<1> QED BY <1>4, <1>5, <1>6

\* The main image is verified by the outermost frame.
LEMMA MainIsOutermost ==
  ASSUME Inv, pc \in FrameStep, IsMain
  PROVE  Len(stack) = 1 /\ Top = stack[1] /\ Top.loc = 0 /\ Top.expect = NoKey
<1>1. /\ Len(stack) \in {1, 2} /\ Outermost(world, nreq, stack[1])
      /\ Len(stack) = 2 => CalledBy(world, stack[1], stack[2])
  BY DEF Inv, StackShape
<1>2. Len(stack) = 1 /\ Top = stack[1]
  BY <1>1 DEF Top, CalledBy, IsMain
<1> QED BY <1>1, <1>2 DEF Outermost

LEMMA RecentIsSound ==
  ASSUME NEW w, NEW f, NEW s \in Recent, Checked(w, f, s)
  PROVE  Sound(w, f.part, f.loc, f.expect)
BY DEF Checked, Sound, Recent, Keyed, Verifying, VBOf

\* Leaving load_and_verify_vbmeta() without an error.
LEMMA LeavingSafe ==
  ASSUME Inv, TypeInv', LoadRequested \/ FinishVBMeta
  PROVE  Inv'
<1>0. pc \in FrameStep /\ stack # <<>> /\ TypeOK
  BY DEF FrameStep, LoadRequested, FinishVBMeta, Inv, TypeInv, Running
<1>1. Quiet /\ values' = values
  BY <1>0, SameValues DEF LoadRequested, FinishVBMeta, call, store
<1>2. /\ Top \in Frame /\ SameCall(Top, Top)
      /\ VB = VBOf(world, Top) /\ (IsMain <=> Main(world, Top))
      /\ Dependable /\ Top.ret = "OK" => Clean(world, values, Top, pc)
  BY <1>0, TopClean
<1>3. CASE \E r \in Result \ {"OK"} : GotoOut(Top, r)
  BY <1>0, <1>1, <1>2, <1>3, ErrorStep
<1>4. ASSUME Complete(world, values, Top) \/ ~Dependable \/ Top.ret # "OK",
             pc \in Recent, pc' = "return", stack' = stack
      PROVE  Inv'
  <2>1. SetTop(Top)
    BY <1>0, <1>4, SetTopSame
  <2>2. Dependable /\ Top.ret = "OK" => Clean(world, values', Top, pc')
    BY <1>1, <1>2, <1>4 DEF Clean, Checked, Recent, Keyed, Verifying
  <2> QED BY <1>0, <1>1, <1>2, <1>4, <2>1, <2>2, InnermostStep DEF FrameStep
<1>5. CASE LoadRequested /\ pc' = "return" /\ stack' = stack
  <2>1. ASSUME Dependable, Top.ret = "OK"
        PROVE  Complete(world, values, Top)
    <3>1. Checked(world, Top, "load")
      BY <1>2, <1>5, <2>1 DEF LoadRequested, Clean
    <3>2. "VERIFICATION_DISABLED" \in VB.flags /\ IsMain
      BY <1>2, <3>1 DEF Checked, Verifying
    <3>3. Sound(world, Top.part, 0, NoKey)
      BY <1>0, <3>1, <3>2, RecentIsSound, MainIsOutermost DEF Recent
    <3> QED BY <1>2, <3>2, <3>3 DEF Complete, TopVerified, VBOf
  <2> QED BY <1>4, <1>5, <2>1 DEF LoadRequested, Recent
<1>6. CASE FinishVBMeta /\ Top.loc < MAX_LOCATIONS /\ pc' = "return" /\ stack' = stack
  <2>1. ASSUME Dependable, Top.ret = "OK"
        PROVE  Complete(world, values, Top)
    <3>1. Clean(world, values, Top, "desc") /\ Checked(world, Top, "desc")
      BY <1>2, <1>6, <2>1 DEF FinishVBMeta, Clean
    <3>2. /\ DOMAIN VB.descs = 1 .. Len(VB.descs) /\ Len(VB.descs) \in Nat
      BY <1>0, <1>2, FrameDescs DEF TypeOK
    <3>3. \A i \in DOMAIN VB.descs : Dealt(world, values, Top, VB.descs[i])
      <4>1. \A i \in DOMAIN VB.descs : i < Top.n
        BY <1>2, <1>6, <3>2 DEF FinishVBMeta, Frame
      <4> QED BY <1>2, <3>1, <4>1 DEF Clean
    <3>4. Sound(world, Top.part, Top.loc, Top.expect)
      BY <3>1, RecentIsSound DEF Recent
    <3>5. CASE IsMain
      <4>1. Sound(world, Top.part, 0, NoKey)
        BY <1>0, <3>4, <3>5, MainIsOutermost
      <4> QED BY <1>2, <3>3, <3>5, <4>1 DEF Complete, TopVerified, Dealt, VBOf
    <3>6. CASE ~IsMain
      <4>1. VB.flags = {}
        BY <1>2, <3>1, <3>6 DEF Checked, Verifying
      <4>2. LeafVerified(world, values, Top.part, Top.loc, Top.expect)
        BY <1>2, <3>3, <3>4, <3>6, <4>1 DEF LeafVerified, Dealt, VBOf
      <4> QED BY <1>2, <1>6, <3>6, <4>2 DEF Complete
    <3> QED BY <3>5, <3>6
  <2> QED BY <1>4, <1>6, <2>1 DEF FinishVBMeta, Recent
<1>7. Top.loc \in Nat /\ MAX_LOCATIONS \in Nat
  BY <1>2, LimitAssumption DEF Frame
<1>8. CASE LoadRequested
  <2>1. \/ GotoOut(Top, "IO") \/ GotoOut(Top, "OOM")
        \/ pc' = "return" /\ stack' = stack
    BY <1>8 DEF LoadRequested
  <2> QED BY <1>3, <1>5, <1>8, <2>1 DEF Result
<1>9. CASE FinishVBMeta
  <2>1. \/ GotoOut(Top, "INVALID_METADATA")
        \/ Top.loc < MAX_LOCATIONS /\ pc' = "return" /\ stack' = stack
    BY <1>7, <1>9 DEF FinishVBMeta
  <2> QED BY <1>3, <1>6, <1>9, <2>1 DEF Result
<1> QED BY <1>8, <1>9

\* Obtaining the list of descriptors.
LEMMA ListingSafe ==
  ASSUME Inv, TypeInv', ListDescriptors \/ ListDescriptorsFails
  PROVE  Inv'
<1>0. pc \in FrameStep /\ stack # <<>> /\ TypeOK
  BY DEF FrameStep, ListDescriptors, ListDescriptorsFails, Inv, TypeInv, Running
<1>2. /\ Top \in Frame /\ SameCall(Top, Top)
      /\ Dependable /\ Top.ret = "OK" => Clean(world, values, Top, pc)
  BY <1>0, TopClean
<1>3. CASE ListDescriptors
  <2>1. Quiet /\ values' = values
    BY <1>0, <1>3, SameValues DEF ListDescriptors, call, store
  <2>2. SetTop(Top)
    BY <1>0, <1>3, SetTopSame DEF ListDescriptors
  <2>3. ASSUME Dependable, Top.ret = "OK"
        PROVE  Clean(world, values, Top, "desc")
    <3>1. Clean(world, values, Top, "list")
      BY <1>2, <1>3, <2>3 DEF ListDescriptors
    <3>2. Checked(world, Top, "desc")
      BY <3>1 DEF Clean, Checked, Recent, Keyed, Verifying
    <3> QED BY <1>2, <3>1, <3>2, CleanForward
  <2> QED BY <1>0, <1>2, <1>3, <2>1, <2>2, <2>3, InnermostStep DEF ListDescriptors, FrameStep
<1>4. CASE ListDescriptorsFails
  <2>1. world' = world /\ nreq' = nreq /\ blind'
    BY <1>4 DEF ListDescriptorsFails, call
  <2>2. SafeInv'
    BY <2>1 DEF SafeInv, Dependable
  <2>3. StackShape'
    <3>1. /\ stack \in Seq(Frame) /\ Len(stack) \in {1, 2} /\ Outermost(world, nreq, stack[1])
          /\ Len(stack) = 2 => CalledBy(world, stack[1], stack[2])
      BY <1>0 DEF Inv, StackShape, TypeOK
    <3>2. CASE pc' = "abort"
      BY <3>2 DEF StackShape, FrameStep
    <3> DEFINE f == [Top EXCEPT !.n = Len(VB.descs) + 1]
    <3>3. CASE SetTop(f)
      <4>1. SameCall(f, Top)
        BY <1>2 DEF SameCall, Frame
      <4> HIDE DEF f
      <4>2. /\ Len(stack') = Len(stack)
            /\ Len(stack) = 1 => stack'[1] = f /\ Top = stack[1]
            /\ Len(stack) = 2 => stack'[1] = stack[1] /\ stack'[2] = f /\ Top = stack[2]
        BY <3>1, <3>3 DEF SetTop, Top
      <4>3. Outermost(world, nreq, stack'[1])
        BY <3>1, <4>1, <4>2 DEF Outermost, SameCall
      <4>4. Len(stack) = 2 => CalledBy(world, stack[1], f)
        BY <3>1, <4>1, <4>2 DEF CalledBy, SameCall
      <4> QED BY <2>1, <3>1, <4>2, <4>3, <4>4 DEF StackShape
    <3> QED BY <1>4, <3>2, <3>3 DEF ListDescriptorsFails
  <2> QED BY <2>2, <2>3 DEF Inv
<1> QED BY <1>3, <1>4

\* A descriptor has been dealt with and the loop goes on.
LEMMA DealtStep ==
  ASSUME Inv, TypeInv', pc = "desc", Quiet, NEW t, AtDesc(t), NextDesc(Top),
         Dependable => Dealt(world, values', Top, D)
  PROVE  Inv'
<1>0. pc \in FrameStep /\ stack # <<>> /\ TypeOK
  BY DEF FrameStep, Inv, TypeInv, Running
<1>1. /\ Top \in Frame
      /\ Dependable /\ Top.ret = "OK" => Clean(world, values, Top, "desc")
  BY <1>0, TopClean
<1> DEFINE f == [Top EXCEPT !.n = @ + 1]
<1>2. /\ f \in Frame /\ SameCall(f, Top) /\ f.ret = Top.ret /\ f.n = Top.n + 1
      /\ f.locUse = Top.locUse /\ f.part = Top.part /\ Top.n \in Nat \ {0}
  BY <1>1 DEF Frame, SameCall
<1>3. SetTop(f) /\ pc' = "desc"
  BY DEF NextDesc
<1> HIDE DEF f
<1>4. ASSUME Dependable, f.ret = "OK"
      PROVE  Clean(world, values', f, "desc")
  <2>1. world \in World /\ values \in Values /\ values' \in Values /\ Grows(values, values')
    BY <1>0 DEF TypeOK, Values, Quiet
  <2>2. Clean(world, values', Top, "desc")
    BY <1>1, <1>2, <1>4, <2>1, CleanGrows
  <2>3. Checked(world, f, "desc")
    BY <1>2, <2>2 DEF Clean, Checked, SameCall, VBOf, Main
  <2>4. ASSUME NEW i \in DOMAIN VBOf(world, f).descs, i < f.n
        PROVE  Dealt(world, values', f, VBOf(world, f).descs[i])
    <3>1. VBOf(world, f) = VBOf(world, Top) /\ VBOf(world, Top) = VB /\ i \in Nat
      BY <1>0, <1>1, <1>2, <2>1, <2>4, FrameDescs DEF VBOf, VB
    <3>2. Dealt(world, values', Top, VB.descs[i])
      <4>1. CASE i = Top.n
        BY <1>4, <4>1 DEF D
      <4>2. CASE i < Top.n
        BY <2>2, <2>4, <3>1, <4>2 DEF Clean
      <4> QED BY <1>2, <2>4, <3>1, <4>1, <4>2
    <3> QED BY <1>2, <3>1, <3>2 DEF Dealt, Main, SameCall
  <2> QED BY <2>3, <2>4 DEF Clean
<1> QED BY <1>0, <1>2, <1>3, <1>4, InnermostStep

\* The digest of a partition was compared with the one demanded of it.
LEMMA HashVerified ==
  ASSUME NEW w \in World, NEW d \in Desc, d.tag = "hash", NEW v1 \in Values, NEW v2,
         HashVerdict(w, v1, d) = "OK",
         v2 = IF Requested(w, d.part) /\ Initializes(w, v1, d)
              THEN [v1 EXCEPT ![d.part] = HashTarget(w, d).body] ELSE v1
  PROVE  Holds(w, v2, d)
<1>1. d.part \in Name
  BY HashTargetType
<1>2. d.bad # "layout"
  BY DEF HashVerdict
<1>3. ~Persistent(d)
  BY DEF Persistent
<1>4. ASSUME Requested(w, d.part)
      PROVE  /\ d.bad = "no" /\ ~NeedsSlotlessName(w, d) /\ ~Unreadable(w, d)
             /\ HashTarget(w, d).body = IF d.digest = NoDigest THEN v2[d.part] ELSE d.digest
  <2>1. /\ d.bad # "alg" /\ ~NeedsSlotlessName(w, d) /\ ~Unreadable(w, d)
        /\ HashTarget(w, d).body = ExpectedDigest(w, v1, d)
    BY <1>4 DEF HashVerdict
  <2>2. d.bad = "no"
    BY <1>2, <2>1 DEF Desc
  <2>3. HashTarget(w, d).body = IF d.digest = NoDigest THEN v2[d.part] ELSE d.digest
    BY <1>1, <1>4, <2>1 DEF ExpectedDigest, Values
  <2> QED BY <2>1, <2>2, <2>3
<1> QED BY <1>2, <1>3, <1>4 DEF Holds

\* A hash descriptor, with and without failing callbacks.
LEMMA HashSafe ==
  ASSUME Inv, TypeInv', HashDesc \/ HashDescFails
  PROVE  Inv'
<1>0. pc = "desc" /\ pc \in FrameStep /\ stack # <<>> /\ TypeOK /\ AtDesc("hash")
  BY DEF FrameStep, HashDesc, HashDescFails, AtDesc, Inv, TypeInv, Running
<1>1. D \in Desc /\ D.tag = "hash" /\ D.part \in Name
  BY <1>0, DescType, HashTargetType DEF TypeOK
<1>2. Top \in Frame /\ SameCall(Top, Top)
  BY <1>0, TopClean
<1>3. Quiet
  <2>1. values' = values \/ (Initializes(world, values, D) /\ values' = InitialValue)
    BY DEF HashDesc, HashDescFails
  <2>2. values \in Values /\ values' \in Values
    BY <1>0, <2>1, InitialValueType DEF TypeOK, Values
  <2>3. Grows(values, values')
    BY <1>1, <2>1, <2>2 DEF Grows, Initializes, InitialValue, Values
  <2> QED BY <2>2, <2>3 DEF Quiet, HashDesc, HashDescFails, call
<1>4. ASSUME NEW r \in Result \ {"OK"}, AfterHash(r)
      PROVE  Inv'
  <2>1. CASE GotoOut(Top, r)
    BY <1>0, <1>2, <1>3, <2>1, ErrorStep
  <2>2. CASE NextDesc([Top EXCEPT !.ret = r])
    <3> DEFINE g == [Top EXCEPT !.ret = r]
               f == [g EXCEPT !.n = @ + 1]
    <3>0. g \in Frame /\ SameCall(g, Top) /\ g.ret # "OK"
      BY <1>2, <1>4 DEF Frame, SameCall
    <3>2. SetTop(f) /\ pc' = "desc"
      BY <2>2 DEF NextDesc
    <3> HIDE DEF g
    <3>1. f \in Frame /\ SameCall(f, Top) /\ f.ret # "OK"
      BY <3>0 DEF Frame, SameCall
    <3> HIDE DEF f
    <3> QED BY <1>0, <1>3, <3>1, <3>2, InnermostStep
  <2> QED BY <1>4, <2>1, <2>2 DEF AfterHash
<1>5. CASE HashDescFails
  <2>1. \E r \in {"OOM", "IO", "VERIFICATION"} : AfterHash(r)
    BY <1>5 DEF HashDescFails
  <2> QED BY <1>4, <2>1 DEF Result
<1>6. CASE HashDesc
  <2> DEFINE h == HashVerdict(world, values, D)
  <2>1. AfterHash("OOM") \/ AfterHash(h)
    BY <1>6 DEF HashDesc
  <2>2. CASE AfterHash("OOM")
    BY <1>4, <2>2 DEF Result
  <2>3. CASE AfterHash(h) /\ h # "OK"
    BY <1>4, <2>3, HashVerdictType
  <2>4. CASE AfterHash(h) /\ h = "OK"
    <3>1. NextDesc(Top)
      BY <2>4 DEF AfterHash
    <3>2. values' = IF Requested(world, D.part) /\ Initializes(world, values, D)
                    THEN [values EXCEPT ![D.part] = HashTarget(world, D).body] ELSE values
      BY <1>6, <2>4 DEF HashDesc, Digested, InitialValue
    <3>3. Holds(world, values', D)
      BY <1>0, <1>1, <2>4, <3>2, HashVerified DEF TypeOK, Values
    <3>4. Dealt(world, values', Top, D)
      BY <1>1, <3>3 DEF Dealt, DescVerified
    <3> QED BY <1>0, <1>3, <3>1, <3>4, DealtStep
  <2> QED BY <2>1, <2>2, <2>3, <2>4
<1> QED BY <1>5, <1>6

\* The descriptors that nothing is loaded for, and failing callbacks.
LEMMA OtherDescSafe ==
  ASSUME Inv, TypeInv',
         CmdlineDesc \/ CmdlineDescFails \/ HashtreeDesc \/ PropertyDesc
         \/ \E r \in {"OOM", "IO"} : CallbackFails(r)
  PROVE  Inv'
<1>0. pc \in FrameStep /\ stack # <<>> /\ TypeOK
  BY DEF FrameStep, CmdlineDesc, CmdlineDescFails, HashtreeDesc, PropertyDesc, CallbackFails,
         CallsOut, AtDesc, Inv, TypeInv, Running
<1>1. Quiet
  BY <1>0, SameValues DEF CmdlineDesc, CmdlineDescFails, HashtreeDesc, PropertyDesc,
                          CallbackFails, call, store
<1>2. values' = values
  BY DEF CmdlineDesc, CmdlineDescFails, HashtreeDesc, PropertyDesc, CallbackFails, store
<1>3. Top \in Frame /\ SameCall(Top, Top)
  BY <1>0, TopClean
<1>4. CASE \E r \in Result \ {"OK"} : GotoOut(Top, r)
  BY <1>0, <1>1, <1>3, <1>4, ErrorStep
<1>5. ASSUME NEW t \in {"cmdline", "hashtree", "property"}, AtDesc(t), NextDesc(Top),
             t # "property" => D.bad # "layout", ~Persistent(D) \/ ~Dependable
      PROVE  Inv'
  <2>1. D \in Desc /\ D.tag = t
    BY <1>0, <1>5, DescType
  <2>2. Dependable => Dealt(world, values', Top, D)
    BY <1>5, <2>1 DEF Dealt, DescVerified, Holds
  <2> QED BY <1>0, <1>1, <1>5, <2>2, DealtStep DEF AtDesc
<1>6. CASE CmdlineDesc
  <2>1. AtDesc("cmdline") /\ ~Persistent(D)
    BY <1>0, <1>6, DescType DEF CmdlineDesc, Persistent
  <2>2. GotoOut(Top, "INVALID_METADATA") \/ (D.bad # "layout" /\ NextDesc(Top))
    BY <1>6 DEF CmdlineDesc
  <2> QED BY <1>4, <1>5, <2>1, <2>2 DEF Result
<1>7. CASE CmdlineDescFails
  BY <1>4, <1>7 DEF CmdlineDescFails, Result
<1>8. CASE PropertyDesc
  <2>1. AtDesc("property") /\ ~Persistent(D) /\ NextDesc(Top)
    BY <1>0, <1>8, DescType DEF PropertyDesc, Persistent
  <2> QED BY <1>5, <2>1
<1>9. CASE HashtreeDesc
  <2>1. AtDesc("hashtree")
    BY <1>9 DEF HashtreeDesc
  <2>2. Persistent(D) => ~Dependable
    <3>1. Top.part \in Name /\ Top.n \in DOMAIN VBMetaIn(world, Top.part).descs
      <4>1. VBOf(world, Top) = VB /\ Top.n \in Nat \ {0} /\ Top.part \in Name
        BY <1>3 DEF VBOf, VB, Frame
      <4> QED BY <1>0, <1>3, <2>1, <4>1, FrameDescs DEF AtDesc, VB, TypeOK
    <3> QED BY <3>1 DEF Dependable, UsesPersistentRoot, D, VB
  <2> DEFINE h == HashtreeVerdict(world, values, D)
             f == [Top EXCEPT !.ret = "OK"]
  <2>3. \/ h # "OK" /\ GotoOut(Top, h)
        \/ GotoOut(Top, "INVALID_METADATA")
        \/ ~Persistent(D) /\ h = "OK" /\ NextDesc(Top)
        \/ Persistent(D) /\ NextDesc(f)
    BY <1>9 DEF HashtreeDesc
  <2>4. h = "OK" => D.bad # "layout"
    BY DEF HashtreeVerdict
  <2>5. CASE Persistent(D) /\ NextDesc(f)
    <3> DEFINE g == [f EXCEPT !.n = @ + 1]
    <3>1. f \in Frame /\ SameCall(f, Top)
      BY <1>3 DEF Frame, Result, SameCall
    <3>2. SetTop(g) /\ pc' = "desc"
      BY <2>5 DEF NextDesc
    <3> HIDE DEF f
    <3>3. g \in Frame /\ SameCall(g, Top)
      BY <3>1 DEF Frame, SameCall
    <3> HIDE DEF g
    <3> QED BY <1>0, <1>1, <2>2, <2>5, <3>2, <3>3, InnermostStep DEF FrameStep
  <2> HIDE DEF f
  <2>6. CASE h # "OK" /\ GotoOut(Top, h)
    BY <1>4, <2>6, HashVerdictType
  <2>7. CASE GotoOut(Top, "INVALID_METADATA")
    BY <1>4, <2>7 DEF Result
  <2>8. CASE ~Persistent(D) /\ h = "OK" /\ NextDesc(Top)
    BY <1>5, <2>1, <2>4, <2>8
  <2> QED BY <2>3, <2>5, <2>6, <2>7, <2>8
<1>10. CASE \E r \in {"OOM", "IO"} : CallbackFails(r)
  BY <1>4, <1>10 DEF CallbackFails, Result
<1> QED BY <1>6, <1>7, <1>8, <1>9, <1>10

\* A chain descriptor: the chained image is verified by a frame of its own.
LEMMA ChainSafe ==
  ASSUME Inv, TypeInv', ChainDesc
  PROVE  Inv'
<1>0. pc = "desc" /\ pc \in FrameStep /\ stack # <<>> /\ TypeOK /\ AtDesc("chain")
  BY DEF FrameStep, ChainDesc, AtDesc, Inv, TypeInv, Running
<1>1. Quiet /\ values' = values
  BY <1>0, SameValues DEF ChainDesc, call, store
<1>2. /\ Top \in Frame /\ SameCall(Top, Top) /\ VB = VBOf(world, Top)
      /\ Dependable /\ Top.ret = "OK" => Clean(world, values, Top, "desc")
  BY <1>0, TopClean
<1>3. CASE GotoOut(Top, "INVALID_METADATA")
  BY <1>0, <1>1, <1>2, <1>3, ErrorStep DEF Result
<1>4. CASE /\ IsMain /\ D.bad # "layout" /\ D.loc # 0
           /\ stack' = Append(stack, NewFrame(D.part, D.loc, D.key, Top.flags))
           /\ pc' = "locate"
  <2> DEFINE f == NewFrame(D.part, D.loc, D.key, Top.flags)
  <2>1. /\ Len(stack) = 1 /\ stack \in Seq(Frame) /\ Top = stack[1]
        /\ Outermost(world, nreq, stack[1])
    BY <1>0, <1>4, MainIsOutermost DEF TypeOK, Inv, StackShape
  <2>2. /\ f.part = D.part /\ f.loc = D.loc /\ f.expect = D.key /\ f.n = 1
        /\ f.locUse = D.loc
    BY DEF NewFrame
  <2>3. D \in Desc /\ D.tag = "chain" /\ D.part \in Name
    BY <1>0, DescType, HashTargetType DEF TypeOK
  <2>4. f \in Frame
    BY <1>2, <2>3, NewFrameType DEF Frame, Desc
  <2>5. stack' = Append(stack, f)
    BY <1>4
  <2> HIDE DEF f
  <2>6. Len(stack') = 2 /\ stack'[1] = Top /\ stack'[2] = f /\ Top' = f
    BY <2>1, <2>4, <2>5 DEF Top
  <2>7. world' = world /\ nreq' = nreq /\ ret' = ret /\ blind' = blind
    BY <1>1 DEF Quiet
  <2>8. StackShape'
    <3>1. CalledBy(world, Top, f)
      <4>1. Top.n \in DOMAIN VBOf(world, Top).descs
        BY <1>0, <1>2, FrameDescs DEF AtDesc, TypeOK, Frame
      <4> QED BY <1>2, <1>4, <2>2, <2>3, <4>1 DEF CalledBy, IsMain, D
    <3> QED BY <2>1, <2>6, <2>7, <3>1 DEF StackShape
  <2>9. Clean(world, values, f, "locate")
    <3>1. \A i \in DOMAIN VBOf(world, f).descs : ~(i < 1)
      <4>1. VBOf(world, f).descs \in Seq(Desc)
        BY <1>0, <2>4, FrameDescs DEF TypeOK
      <4> QED BY <4>1
    <3> QED BY <2>2, <3>1 DEF Clean, Checked, Verifying, Keyed, Recent
  <2>10. ASSUME Dependable
         PROVE  EarlierVerified' /\ FramesClean' /\ SlotClean'
    <3>1. FramesClean'
      BY <1>1, <1>2, <1>4, <2>6, <2>7, <2>9, <2>10 DEF FramesClean
    <3>2. EarlierVerified' /\ SlotClean'
      BY <1>4, <2>7 DEF EarlierVerified, SlotClean, IsMain
    <3> QED BY <3>1, <3>2
  <2>11. Dependable' => Dependable
    BY <2>7 DEF Dependable
  <2> QED BY <2>8, <2>10, <2>11 DEF Inv, SafeInv
<1> QED BY <1>3, <1>4 DEF ChainDesc

\* Returning from a chained image.
LEMMA ReturnToChainSafe ==
  ASSUME Inv, TypeInv', ReturnToChain
  PROVE  Inv'
<1>0. pc = "return" /\ pc \in FrameStep /\ stack # <<>> /\ TypeOK /\ stack \in Seq(Frame)
  BY DEF FrameStep, ReturnToChain, Inv, TypeInv, Running, TypeOK
<1>1. /\ Len(stack) = 2 /\ Outermost(world, nreq, stack[1])
      /\ CalledBy(world, stack[1], stack[2])
  BY <1>0 DEF Inv, StackShape, ReturnToChain
<1>2. Top = stack[2] /\ Top \in Frame /\ stack[1] \in Frame
  BY <1>0, <1>1 DEF Top
<1> DEFINE c == stack[1]
           f == IF Top.ret # "OK" THEN [c EXCEPT !.ret = Top.ret] ELSE c
           g == IF Top.ret \in Continuable THEN [f EXCEPT !.n = @ + 1] ELSE f
<1>3. /\ f \in Frame /\ SameCall(f, c) /\ f.n = c.n /\ f.locUse = c.locUse
      /\ f.ret = IF Top.ret # "OK" THEN Top.ret ELSE c.ret
  BY <1>2 DEF Frame, SameCall
<1>4. /\ g \in Frame /\ SameCall(g, c) /\ g.ret = f.ret /\ g.locUse = c.locUse
      /\ g.n = IF Top.ret \in Continuable THEN c.n + 1 ELSE c.n
  BY <1>3 DEF Frame, SameCall
<1>5. /\ stack' = [SubSeq(stack, 1, 1) EXCEPT ![1] = g]
      /\ pc' = IF Top.ret \in Continuable THEN "desc" ELSE "return"
  <2>1. Len(stack) - 1 = 1
    BY <1>1
  <2> QED BY <2>1 DEF ReturnToChain
<1> HIDE DEF f, g
<1>6. Len(stack') = 1 /\ stack'[1] = g /\ Top' = g
  <2>1. \A i \in 1 .. 1 : stack[i] \in Frame
    BY <1>2
  <2>2. SubSeq(stack, 1, 1) \in Seq(Frame) /\ Len(SubSeq(stack, 1, 1)) = 1
    BY <2>1, SubSeqProperties
  <2> QED BY <1>4, <1>5, <2>2 DEF Top
<1>7. /\ world' = world /\ nreq' = nreq /\ ret' = ret /\ blind' = blind /\ values' = values
  BY DEF ReturnToChain, call, store
<1>8. StackShape'
  <2>1. Outermost(world, nreq, g)
    BY <1>1, <1>4 DEF Outermost, SameCall
  <2> QED BY <1>6, <1>7, <2>1 DEF StackShape
<1>9. ASSUME Dependable, g.ret = "OK"
      PROVE  pc' = "desc" /\ Clean(world, values, g, "desc")
  <2>1. Top.ret = "OK" /\ c.ret = "OK"
    BY <1>3, <1>4, <1>9
  <2>2. pc' = "desc" /\ g.n = c.n + 1
    BY <1>4, <1>5, <2>1 DEF Continuable
  <2>3. Clean(world, values, c, "desc") /\ Clean(world, values, Top, "return")
    BY <1>0, <1>1, <1>9, <2>1 DEF Inv, SafeInv, FramesClean
  <2> DEFINE d == VBOf(world, c).descs[c.n]
  <2>4. d \in Desc /\ c.n \in Nat \ {0}
    BY <1>0, <1>1, <1>2, FrameDescs DEF CalledBy, TypeOK, Frame
  <2>5. DescVerified(world, values, d)
    <3>1. ~Main(world, Top) /\ Complete(world, values, Top)
      BY <1>1, <1>2, <2>3 DEF CalledBy, Main, Clean
    <3>2. /\ d.tag = "chain" /\ d.bad # "layout" /\ d.loc # 0
          /\ d.loc < MAX_LOCATIONS /\ LeafVerified(world, values, d.part, d.loc, d.key)
      BY <1>1, <1>2, <3>1 DEF CalledBy, Complete
    <3>3. d.loc \in 1 .. MAX_LOCATIONS - 1
      <4>1. d.loc \in Nat
        BY <2>4, LimitAssumption DEF Desc
      <4>2. \A n \in Nat : n # 0 /\ n < MAX_LOCATIONS => n \in 1 .. MAX_LOCATIONS - 1
        BY LimitAssumption
      <4> QED BY <3>2, <4>1, <4>2
    <3>4. Holds(world, values, d)
      BY <3>2 DEF Holds, Persistent
    <3> QED BY <3>2, <3>3, <3>4 DEF DescVerified
  <2>6. Main(world, c)
    BY <1>1 DEF Outermost, CalledBy, Main
  <2>7. ASSUME NEW i \in DOMAIN VBOf(world, g).descs, i < g.n
        PROVE  Dealt(world, values, g, VBOf(world, g).descs[i])
    <3>1. VBOf(world, g) = VBOf(world, c) /\ i \in Nat
      BY <1>0, <1>4, <2>7, FrameDescs DEF VBOf, SameCall, TypeOK
    <3>2. Dealt(world, values, c, VBOf(world, c).descs[i])
      <4>1. CASE i = c.n
        BY <2>5, <2>6, <4>1 DEF Dealt
      <4>2. CASE i < c.n
        BY <2>3, <2>7, <3>1, <4>2 DEF Clean
      <4> QED BY <2>2, <2>4, <2>7, <3>1, <4>1, <4>2
    <3> QED BY <1>4, <3>1, <3>2 DEF Dealt, Main, SameCall
  <2>8. Checked(world, g, "desc")
    BY <1>4, <2>3 DEF Clean, Checked, SameCall, VBOf, Main
  <2> QED BY <2>2, <2>7, <2>8 DEF Clean
<1>10. ASSUME Dependable
       PROVE  EarlierVerified' /\ FramesClean' /\ SlotClean'
  <2>1. FramesClean'
    BY <1>6, <1>7, <1>9, <1>10 DEF FramesClean
  <2>2. EarlierVerified' /\ SlotClean'
    BY <1>1, <1>5, <1>7 DEF EarlierVerified, SlotClean, CalledBy
  <2> QED BY <2>1, <2>2
<1>11. Dependable' => Dependable
  BY <1>7 DEF Dependable
<1> QED BY <1>8, <1>10, <1>11 DEF Inv, SafeInv

\* Returning to avb_slot_verify(), and its loop over the requested partitions.
LEMMA ReturnToSlotSafe ==
  ASSUME Inv, TypeInv', ReturnToSlot
  PROVE  Inv'
<1>0. pc = "return" /\ pc \in FrameStep /\ stack # <<>> /\ TypeOK /\ Len(stack) = 1
  BY DEF FrameStep, ReturnToSlot, Inv, TypeInv, Running
<1>1. Top = stack[1] /\ Outermost(world, nreq, Top)
  BY <1>0 DEF Inv, StackShape, Top
<1>2. /\ world' = world /\ nreq' = nreq /\ blind' = blind /\ values' = values
      /\ ret' = Top.ret /\ pc' = "next"
  BY DEF ReturnToSlot, call, store
<1>3. ASSUME Dependable
      PROVE  EarlierVerified' /\ FramesClean' /\ SlotClean'
  <2>1. EarlierVerified'
    BY <1>0, <1>2, <1>3 DEF Inv, SafeInv, EarlierVerified
  <2>2. FramesClean'
    BY <1>2 DEF FramesClean, FrameStep
  <2>3. ASSUME Top.ret = "OK"
        PROVE  IF world.noVbmeta
               THEN LeafVerified(world, values, world.requested[nreq], 0, NoKey)
               ELSE TopVerified(world, values, TopLevel(world))
    <3>1. Complete(world, values, Top) /\ Disk(world, Top.part).present
      BY <1>0, <1>3, <2>3 DEF Inv, SafeInv, FramesClean, Clean, Checked, Verifying
    <3> QED BY <1>1, <3>1 DEF Complete, Main, Outermost, TopLevel
  <2>4. SlotClean'
    BY <1>2, <2>3 DEF SlotClean
  <2> QED BY <2>1, <2>2, <2>4
<1>4. StackShape' /\ (Dependable' => Dependable)
  BY <1>2 DEF StackShape, FrameStep, Dependable
<1> QED BY <1>3, <1>4 DEF Inv, SafeInv

LEMMA NextRequestedSafe ==
  ASSUME Inv, TypeInv', NextRequested
  PROVE  Inv'
<1>0. pc = "next" /\ TypeOK /\ world.noVbmeta /\ nreq < Len(world.requested) /\ ~Bails
  BY DEF NextRequested, Inv, TypeInv
<1> DEFINE f == NewFrame(world.requested[nreq + 1], 0, NoKey, {})
<1>1. /\ world' = world /\ nreq' = nreq + 1 /\ blind' = blind /\ values' = values /\ ret' = ret
      /\ pc' = "locate" /\ stack' = <<f>>
  BY DEF NextRequested, store
<1>2. /\ f.part = world.requested[nreq + 1] /\ f.loc = 0 /\ f.expect = NoKey /\ f.n = 1
      /\ f.locUse = 0
  BY DEF NewFrame
<1>3. world.requested \in Seq(Name) /\ nreq \in Nat /\ nreq + 1 \in DOMAIN world.requested
  BY <1>0 DEF TypeOK, World
<1> HIDE DEF f
<1>4. Len(stack') = 1 /\ stack'[1] = f /\ Top' = f
  BY <1>1 DEF Top
<1>5. StackShape'
  BY <1>0, <1>1, <1>2, <1>3, <1>4 DEF StackShape, Outermost
<1>6. ASSUME Dependable
      PROVE  EarlierVerified' /\ FramesClean' /\ SlotClean'
  <2>1. LeafVerified(world, values, world.requested[nreq], 0, NoKey)
    <3>1. ret = "OK"
      BY <1>0, <1>6 DEF Bails, Dependable
    <3> QED BY <1>0, <1>6, <3>1 DEF Inv, SafeInv, SlotClean
  <2>2. \A j \in 1 .. nreq - 1 : LeafVerified(world, values, world.requested[j], 0, NoKey)
    BY <1>0, <1>6 DEF Inv, SafeInv, EarlierVerified
  <2>3. \A j \in 1 .. nreq : LeafVerified(world, values, world.requested[j], 0, NoKey)
    BY <1>3, <2>1, <2>2
  <2>4. EarlierVerified'
    BY <1>1, <1>3, <2>3 DEF EarlierVerified
  <2>5. Clean(world, values, f, "locate")
    <3>1. \A i \in DOMAIN VBOf(world, f).descs : ~(i < 1)
      <4>1. VBOf(world, f).descs \in Seq(Desc)
        BY <1>0, <1>2, <1>3, VBMetaInType DEF VBOf, VBMeta, TypeOK
      <4> QED BY <4>1
    <3> QED BY <1>2, <3>1 DEF Clean, Checked, Verifying, Keyed, Recent
  <2>6. FramesClean'
    BY <1>1, <1>4, <2>5 DEF FramesClean
  <2>7. SlotClean'
    BY <1>1 DEF SlotClean
  <2> QED BY <2>4, <2>6, <2>7
<1>7. Dependable' => Dependable
  BY <1>1 DEF Dependable
<1> QED BY <1>5, <1>6, <1>7 DEF Inv, SafeInv

\* Everything is verified once the vbmeta structs are done.
LEMMA VBMetasDoneSafe ==
  ASSUME Inv, TypeInv', VBMetasDone
  PROVE  Inv'
<1>0. pc = "next" /\ TypeOK
  BY DEF VBMetasDone, Inv, TypeInv
<1>1. /\ world' = world /\ nreq' = nreq /\ blind' = blind /\ values' = values
      /\ ret' = ret /\ pc' \in {"done", "mangle"}
  BY DEF VBMetasDone, Fail, call, store
<1>2. ASSUME Dependable, ret = "OK"
      PROVE  Verified(world, values)
  <2>1. CASE world.noVbmeta
    <3>1. /\ nreq \in DOMAIN world.requested
          /\ \A j \in 1 .. nreq - 1 : LeafVerified(world, values, world.requested[j], 0, NoKey)
          /\ LeafVerified(world, values, world.requested[nreq], 0, NoKey)
      BY <1>0, <1>2, <2>1 DEF Inv, SafeInv, EarlierVerified, SlotClean
    <3>2. nreq >= Len(world.requested)
      BY <1>2, <2>1 DEF VBMetasDone, Bails
    <3>3. world.requested \in Seq(Name) /\ nreq \in Nat
      BY <1>0 DEF TypeOK, World
    <3>4. \A j \in DOMAIN world.requested : LeafVerified(world, values, world.requested[j], 0, NoKey)
      BY <3>1, <3>2, <3>3
    <3> QED BY <2>1, <3>4 DEF Verified
  <2>2. CASE ~world.noVbmeta
    BY <1>0, <1>2, <2>2 DEF Inv, SafeInv, SlotClean, Verified
  <2> QED BY <2>1, <2>2
<1>3. Dependable => EarlierVerified' /\ FramesClean' /\ SlotClean'
  BY <1>1, <1>2 DEF EarlierVerified, FramesClean, SlotClean, FrameStep
<1>4. StackShape' /\ (Dependable' => Dependable)
  BY <1>1 DEF StackShape, FrameStep, Dependable
<1> QED BY <1>3, <1>4 DEF Inv, SafeInv

\* What avb_slot_verify() does afterwards changes neither the persistent
\* digests nor turns an error into an OK.
LEMMA MangleSafe ==
  ASSUME Inv, TypeInv',
         MangleCmdline \/ MangleCmdlineFails \/ AppendOptions \/ SubstCmdline
         \/ \E r \in {"OOM", "IO"} : SlotCallbackFails(r)
  PROVE  Inv'
<1>0. pc \in {"mangle", "options", "subst"}
  BY DEF MangleCmdline, MangleCmdlineFails, AppendOptions, SubstCmdline, SlotCallbackFails
<1>1. /\ world' = world /\ nreq' = nreq /\ blind' = blind /\ values' = values
      /\ pc' \in {"options", "subst", "done"}
      /\ ret' = "OK" => ret = "OK"
  BY DEF MangleCmdline, MangleCmdlineFails, AppendOptions, SubstCmdline, SlotCallbackFails,
         Fail, call, store
<1>2. Dependable => EarlierVerified' /\ FramesClean' /\ SlotClean'
  BY <1>0, <1>1 DEF Inv, SafeInv, EarlierVerified, FramesClean, SlotClean, FrameStep
<1>3. StackShape' /\ (Dependable' => Dependable)
  BY <1>1 DEF StackShape, FrameStep, Dependable
<1> QED BY <1>2, <1>3 DEF Inv, SafeInv

LEMMA BootSafe ==
  ASSUME Inv, TypeInv', NEW w \in Worlds, Boot(w) \/ BootFails(w)
  PROVE  Inv'
<1>0. w \in World /\ TypeOK
  BY BoundAssumption DEF Inv, TypeInv
<1>1. world' = w /\ nreq' = 1
  BY DEF Boot, BootFails, Ready
<1>2. CASE pc' \in {"done", "abort"} /\ ret' # "OK"
  BY <1>2 DEF Inv, StackShape, SafeInv, EarlierVerified, FramesClean, SlotClean, FrameStep
<1>3. CASE /\ ~(w.noVbmeta /\ w.requested = <<>>)
           /\ stack' = <<NewFrame(IF w.noVbmeta THEN w.requested[1] ELSE "vbmeta", 0, NoKey, {})>>
           /\ pc' = "locate"
  <2> DEFINE f == NewFrame(IF w.noVbmeta THEN w.requested[1] ELSE "vbmeta", 0, NoKey, {})
  <2>1. /\ f.part = (IF w.noVbmeta THEN w.requested[1] ELSE "vbmeta")
        /\ f.loc = 0 /\ f.expect = NoKey /\ f.n = 1 /\ f.locUse = 0
    BY DEF NewFrame
  <2>2. stack' = <<f>>
    BY <1>3
  <2> HIDE DEF f
  <2>3. Len(stack') = 1 /\ stack'[1] = f /\ Top' = f
    BY <2>2 DEF Top
  <2>4. w.noVbmeta => 1 \in DOMAIN w.requested /\ w.requested[1] \in Name
    BY <1>0, <1>3 DEF World
  <2>5. Outermost(w, 1, f) /\ f.part \in Name
    BY <2>1, <2>4, NameAssumption DEF Outermost
  <2>6. Clean(w, values', f, "locate")
    <3>1. \A i \in DOMAIN VBOf(w, f).descs : ~(i < 1)
      <4>1. VBOf(w, f).descs \in Seq(Desc)
        BY <1>0, <2>5, VBMetaInType DEF VBOf, VBMeta
      <4> QED BY <4>1
    <3> QED BY <2>1, <3>1 DEF Clean, Checked, Verifying, Keyed, Recent
  <2>7. StackShape'
    BY <1>1, <2>3, <2>5 DEF StackShape
  <2>8. EarlierVerified' /\ FramesClean' /\ SlotClean'
    BY <1>1, <1>3, <2>3, <2>4, <2>6 DEF EarlierVerified, FramesClean, SlotClean
  <2> QED BY <2>7, <2>8 DEF Inv, SafeInv
<1> QED BY <1>2, <1>3 DEF Boot, BootFails, Ready

LEMMA InitInv == Init => Inv
<1> SUFFICES ASSUME Init PROVE Inv
  OBVIOUS
<1>1. StackShape /\ SafeInv
  BY DEF Init, StackShape, SafeInv, EarlierVerified, FramesClean, SlotClean, FrameStep
<1> QED BY <1>1, InitTypeInv DEF Inv

LEMMA NextInv == Inv /\ [Next]_vars => Inv'
<1> SUFFICES ASSUME Inv, [Next]_vars PROVE Inv'
  OBVIOUS
<1>1. TypeInv'
  BY NextTypeInv DEF Inv
<1>2. CASE UNCHANGED vars
  BY <1>1, <1>2 DEF vars, Inv, StackShape, SafeInv, EarlierVerified, FramesClean, SlotClean,
                    Dependable, Top
<1>3. CASE Step
  BY <1>1, <1>3, LoadingSafe, CheckingSafe, LeavingSafe, ListingSafe, HashSafe, OtherDescSafe,
     ChainSafe, ReturnToChainSafe, ReturnToSlotSafe, NextRequestedSafe, VBMetasDoneSafe, MangleSafe
  DEF Step
<1>4. CASE Ready /\ \E w \in Worlds : Boot(w) \/ BootFails(w)
  BY <1>1, <1>4, BootSafe
<1> QED BY <1>2, <1>3, <1>4 DEF Next

LEMMA InvAlways == Spec => []Inv
BY InitInv, NextInv, PTL DEF Spec

\* avb_slot_verify() never answers OK for a slot that is not verified, for any
\* device, any images and any callback that fails, outside the situations
\* that Dependable excludes.
THEOREM OKIsVerified == Spec => []OKMeansVerified
<1>1. Inv => OKMeansVerified
  BY DEF Inv, SafeInv, SlotClean, OKMeansVerified
<1> QED BY <1>1, InvAlways, PTL

\* Outside load_and_verify_vbmeta() the stack is no longer touched, or cleared.
LEMMA StackOutside ==
  ASSUME TypeOK, [Next]_vars
  PROVE  pc' \in FrameStep \/ stack' = stack \/ stack' = <<>>
<1>1. CASE UNCHANGED vars
  BY <1>1 DEF vars
<1>2. CASE Ready /\ \E w \in Worlds : Boot(w) \/ BootFails(w)
  BY <1>2 DEF Boot, BootFails, Ready, FrameStep
<1>3. CASE \/ LocateVBMeta \/ ReadVBMeta \/ VerifyImage \/ CheckKey \/ CheckRollback
           \/ LoadRequested \/ ListDescriptors \/ ListDescriptorsFails
           \/ \E r \in {"OOM", "IO"} : CallbackFails(r)
  BY <1>3 DEF LocateVBMeta, ReadVBMeta, VerifyImage, CheckKey, CheckRollback, LoadRequested,
              ListDescriptors, ListDescriptorsFails, CallbackFails, GotoOut, SoftError, FrameStep
<1>4. CASE HashDesc \/ HashDescFails
  BY <1>4 DEF HashDesc, HashDescFails, AfterHash, GotoOut, NextDesc, FrameStep
<1>5. CASE \/ ChainDesc \/ CmdlineDesc \/ CmdlineDescFails \/ HashtreeDesc \/ PropertyDesc
           \/ FinishVBMeta
  BY <1>5 DEF ChainDesc, CmdlineDesc, CmdlineDescFails, HashtreeDesc, PropertyDesc, FinishVBMeta,
              GotoOut, NextDesc, FrameStep
<1>6. CASE ReturnToChain
  BY <1>6 DEF ReturnToChain, FrameStep
<1>7. CASE ReturnToSlot \/ NextRequested
  BY <1>7 DEF ReturnToSlot, NextRequested, FrameStep
<1>8. CASE \/ VBMetasDone \/ MangleCmdline \/ MangleCmdlineFails \/ AppendOptions \/ SubstCmdline
           \/ \E r \in {"OOM", "IO"} : SlotCallbackFails(r)
  BY <1>8 DEF VBMetasDone, MangleCmdline, MangleCmdlineFails, AppendOptions, SubstCmdline,
              SlotCallbackFails, Fail
<1> QED BY <1>1, <1>2, <1>3, <1>4, <1>5, <1>6, <1>7, <1>8 DEF Next, Step

\* load_and_verify_vbmeta() calls itself at most once: its recursion, and with
\* it the stack a boot loader needs, is bounded.
THEOREM RecursionBounded == Spec => []ChainsDoNotNest
<1>1. Init => ChainsDoNotNest
  BY DEF Init, ChainsDoNotNest
<1>2. Inv /\ Inv' /\ ChainsDoNotNest /\ [Next]_vars => ChainsDoNotNest'
  <2> SUFFICES ASSUME Inv, Inv', ChainsDoNotNest, [Next]_vars PROVE ChainsDoNotNest'
    OBVIOUS
  <2>1. CASE pc' \in FrameStep
    <3>1. Len(stack') \in {1, 2}
      BY <2>1 DEF Inv, StackShape
    <3>2. \A n \in {1, 2} : n <= 2
      OBVIOUS
    <3> QED BY <3>1, <3>2 DEF ChainsDoNotNest
  <2>2. CASE stack' = stack \/ stack' = <<>>
    BY <2>2 DEF ChainsDoNotNest
  <2> QED BY <2>1, <2>2, StackOutside DEF Inv, TypeInv
<1> QED BY <1>1, <1>2, InvAlways, PTL DEF Spec

-----------------------------------------------------------------------------
(***************************************************************************)
(* The inductive invariant.                                                *)
(*                                                                         *)
(* The stages of a frame before its vbmeta struct is in vbmeta_images, and *)
(* those after the partition was found, the flags were read, the struct    *)
(* was recorded.                                                           *)
(***************************************************************************)
Unrecorded == {"locate", "read", "image", "key", "rollback"}
Found      == {"image", "key", "rollback", "load", "list", "desc"}
FlagsRead    == {"key", "rollback", "load", "list", "desc"}
Recorded   == {"load", "list", "desc"}

DisabledBy(vb) == "VERIFICATION_DISABLED" \in vb.flags

\* What the outermost frame f, at stage s, and the slot data know of each other.
TopData(w, f, s, sl) ==
  /\ s \in {"locate", "read"} => f.ret = "OK"
  /\ s \in Unrecorded => sl.images = <<>> /\ sl.cmdline = <<>>
  /\ s \notin {"desc", "return"} => f.n = 1 /\ sl.subst = 0
  /\ s \in Found => Disk(w, f.part).present
  /\ s \in FlagsRead => f.flags = VBOf(w, f).flags
  /\ s \in Recorded => sl.images # <<>>
  /\ s \in {"list", "desc"} => ~DisabledBy(VBOf(w, f))

\* The outermost frame waits at a chain descriptor while another one is on top.
TopStage == IF Len(stack) = 2 THEN "desc" ELSE pc

FrameData ==
  pc \in FrameStep =>
    /\ ~world.noVbmeta => TopData(world, stack[1], TopStage, slot)
    /\ Len(stack) = 2 => stack[2].flags = stack[1].flags
    /\ pc \in FlagsRead /\ ~IsMain => VB.flags = {}
    /\ pc = "load" => DisabledBy(VB)
    /\ pc \in Recorded => \E j \in DOMAIN slot.images : slot.images[j].vb = VB

\* The first recorded image is the top-level one; without a vbmeta partition
\* no image may have flags.
ImagesKnown ==
  /\ ~world.noVbmeta /\ slot.images # <<>> =>
       /\ slot.images[1].part = TopLevel(world)
       /\ slot.images[1].vb = VBMetaIn(world, TopLevel(world))
  /\ world.noVbmeta => \A j \in DOMAIN slot.images : slot.images[j].vb.flags = {}

\* An error after which avb_slot_verify() gives up, now or when all is done.
Refused(r) == r # "OK" /\ (world.allow => r \notin Continuable)

\* As long as nothing is recorded, the call cannot get past the images.
NothingRecorded ==
  slot.images = <<>> =>
    /\ pc = "return" /\ Len(stack) = 1 => Refused(Top.ret)
    /\ pc = "next" => Refused(ret)
    /\ pc \notin {"mangle", "options", "subst"} /\ ~out

\* Past the images, ret is a result to hand out data with.
Ending ==
  /\ pc \in {"mangle", "options", "subst"} \/ out => ret \in Continuable /\ ~Bails
  /\ pc = "options" => slot.mode # "managed"
  /\ out => pc = "done"
  /\ pc = "done" /\ ret = "OK" => out

\* No descriptor is looked at when verification is disabled.
CmdlineSound ==
  /\ CmdlineFitsTopLevel
  /\ /\ ~world.noVbmeta /\ slot.images # <<>> /\ Disabled
     /\ pc \in FrameStep \union {"next", "mangle"}
     => slot.cmdline = <<>>

\* Nothing went wrong so far.
NoError == IF pc \in FrameStep THEN \A k \in DOMAIN stack : stack[k].ret = "OK" ELSE ret = "OK"

\* A loaded partition was asked for, and a recorded image vouches for it.
Vouched(w, v, imgs, p) ==
  /\ Requested(w, p)
  /\ imgs # <<>>
  /\ ~DisabledBy(imgs[1].vb) =>
       \E j \in DOMAIN imgs : \E k \in DOMAIN imgs[j].vb.descs :
         /\ imgs[j].vb.descs[k].tag = "hash" /\ imgs[j].vb.descs[k].part = p
         /\ Holds(w, v, imgs[j].vb.descs[k])

LoadedVouched ==
  Dependable /\ NoError =>
    \A i \in DOMAIN slot.loaded : Vouched(world, values, slot.images, slot.loaded[i])

RollbackRecent ==
  Dependable /\ NoError /\ ~world.noVbmeta =>
    \A l \in 0 .. MAX_LOCATIONS - 1 :
      l \in Location /\ slot.rollback[l] # 0 => slot.rollback[l] >= world.stored[l]

\* The descriptors before the n-th that rely on a persistent root digest, of
\* which c are counted.
Roots(vb, n) == {i \in DOMAIN vb.descs : i < n /\ Persistent(vb.descs[i])}

Counted(c, v, vb, n) ==
  /\ c = Cardinality(Roots(vb, n))
  /\ \A i \in Roots(vb, n) : v[vb.descs[i].part] # NoDigest

RootsCounted ==
  ~blind /\ ~world.noVbmeta =>
    /\ pc \in FrameStep /\ TopStage = "desc" =>
         Counted(slot.subst, values, VBOf(world, stack[1]), stack[1].n)
    /\ /\ \/ pc = "return" /\ Len(stack) = 1 /\ Top.ret = "OK"
          \/ pc \in {"next", "mangle", "options", "subst"} /\ ret = "OK"
          \/ out /\ ret = "OK"
       /\ ~Disabled
       => Counted(slot.subst, values, TopImage, Len(TopImage.descs) + 1)

DataInv ==
  /\ FrameData /\ ImagesKnown /\ NothingRecorded /\ Ending /\ CmdlineSound
  /\ LoadedVouched /\ RollbackRecent /\ RootsCounted /\ EioIffMarked
-----------------------------------------------------------------------------
(***************************************************************************)
(* Frames and slot data.                                                   *)
(***************************************************************************)
\* What the shape of the stack says of the innermost and the outermost frame.
LEMMA FrameFacts ==
  ASSUME Inv, pc \in FrameStep
  PROVE  /\ TypeOK /\ stack \in Seq(Frame) /\ stack # <<>>
         /\ Len(stack) \in {1, 2} /\ stack[1] \in Frame /\ Top \in Frame
         /\ Len(stack) = 1 => Top = stack[1] /\ Top.expect = NoKey
         /\ Len(stack) = 2 => Top = stack[2] /\ Top.expect # NoKey /\ ~world.noVbmeta
         /\ IsMain <=> Len(stack) = 1 /\ ~world.noVbmeta
         /\ IsMain <=> Main(world, Top)
         /\ VB = VBOf(world, Top)
         /\ Outermost(world, nreq, stack[1])
<1>1. TypeOK /\ stack # <<>> /\ stack \in Seq(Frame) /\ StackShape
  BY DEF Inv, TypeInv, Running, TypeOK
<1>2. /\ Len(stack) \in {1, 2} /\ Outermost(world, nreq, stack[1])
      /\ Len(stack) = 2 => CalledBy(world, stack[1], stack[2])
  BY <1>1 DEF StackShape
<1>3. stack[1] \in Frame /\ Top \in Frame /\ (Len(stack) = 2 => stack[2] \in Frame)
  BY <1>1, <1>2 DEF Top
<1>4. Len(stack) = 2 => stack[2].expect \in Key /\ stack[2].loc # 0 /\ ~world.noVbmeta
  <2> SUFFICES ASSUME Len(stack) = 2 PROVE stack[2].expect \in Key /\ stack[2].loc # 0 /\ ~world.noVbmeta
    OBVIOUS
  <2>1. CalledBy(world, stack[1], stack[2])
    BY <1>2
  <2>2. VBOf(world, stack[1]).descs[stack[1].n] \in Desc
    BY <1>1, <1>3, <2>1, FrameDescs DEF CalledBy, TypeOK
  <2> QED BY <2>1, <2>2 DEF CalledBy, Desc
<1>5. /\ Len(stack) = 1 => Top = stack[1]
      /\ Len(stack) = 2 => Top = stack[2]
  BY DEF Top
<1>6. stack[1].loc = 0 /\ stack[1].expect = NoKey
  BY <1>2 DEF Outermost
<1> QED BY <1>1, <1>2, <1>3, <1>4, <1>5, <1>6, SentinelAssumption DEF IsMain, Main, VB, VBOf

LEMMA SetTopFacts ==
  ASSUME Inv, pc \in FrameStep, NEW f \in Frame, SetTop(f)
  PROVE  /\ Len(stack') = Len(stack) /\ Top' = f /\ DOMAIN stack' = DOMAIN stack
         /\ stack'[1] = IF Len(stack) = 1 THEN f ELSE stack[1]
         /\ Len(stack) = 2 => stack'[2] = f
         /\ \A k \in DOMAIN stack : k # Len(stack) => stack'[k] = stack[k]
         /\ stack'[Len(stack)] = f
BY FrameFacts DEF SetTop, Top

LEMMA SlotFacts ==
  ASSUME TypeOK
  PROVE  /\ slot.images \in Seq(Image) /\ slot.loaded \in Seq(Name) /\ slot.cmdline \in Seq(Snippet)
         /\ slot.subst \in Nat /\ slot.rollback \in [0 .. MAX_LOCATIONS - 1 -> Nat]
         /\ world \in World /\ values \in Values
         /\ slot.images # <<>> => 1 \in DOMAIN slot.images /\ TopImage \in VBMeta
         /\ \A j \in DOMAIN slot.images : slot.images[j] \in Image /\ slot.images[j].vb \in VBMeta
<1>1. /\ slot.images \in Seq(Image) /\ slot.loaded \in Seq(Name) /\ slot.cmdline \in Seq(Snippet)
      /\ slot.subst \in Nat /\ slot.rollback \in [0 .. MAX_LOCATIONS - 1 -> Nat]
  BY DEF TypeOK, SlotData
<1>2. \A j \in DOMAIN slot.images : slot.images[j] \in Image /\ slot.images[j].vb \in VBMeta
  <2> TAKE j \in DOMAIN slot.images
  <2>1. slot.images[j] \in Image
    BY <1>1
  <2> QED BY <2>1 DEF Image
<1>3. slot.images # <<>> => 1 \in DOMAIN slot.images
  BY <1>1
<1> QED BY <1>1, <1>2, <1>3 DEF TypeOK, Values, TopImage

\* The partition found for the outermost frame is that of the top-level image.
LEMMA FoundIsTopLevel ==
  ASSUME NEW w, ~w.noVbmeta, NEW k, NEW f, Outermost(w, k, f), Disk(w, f.part).present
  PROVE  f.part = TopLevel(w) /\ VBOf(w, f) = VBMetaIn(w, TopLevel(w))
BY DEF Outermost, TopLevel, VBOf

\* Vouching survives digests that are stored and images that are recorded.
LEMMA VouchedGrows ==
  ASSUME NEW w \in World, NEW v1 \in Values, NEW v2 \in Values, Grows(v1, v2),
         NEW imgs \in Seq(Image), NEW p, Vouched(w, v1, imgs, p)
  PROVE  /\ Vouched(w, v2, imgs, p)
         /\ \A x \in Image : Vouched(w, v2, Append(imgs, x), p)
<1>1. /\ imgs # <<>> /\ 1 \in DOMAIN imgs /\ Requested(w, p)
      /\ \A x \in Image : \A j \in DOMAIN imgs : j \in DOMAIN Append(imgs, x) /\ Append(imgs, x)[j] = imgs[j]
      /\ \A x \in Image : Append(imgs, x) # <<>>
  BY DEF Vouched
<1>2. CASE DisabledBy(imgs[1].vb)
  BY <1>1, <1>2 DEF Vouched
<1>3. CASE ~DisabledBy(imgs[1].vb)
  <2>1. PICK j \in DOMAIN imgs : \E k \in DOMAIN imgs[j].vb.descs :
           /\ imgs[j].vb.descs[k].tag = "hash" /\ imgs[j].vb.descs[k].part = p
           /\ Holds(w, v1, imgs[j].vb.descs[k])
    BY <1>3 DEF Vouched
  <2>2. PICK k \in DOMAIN imgs[j].vb.descs :
           /\ imgs[j].vb.descs[k].tag = "hash" /\ imgs[j].vb.descs[k].part = p
           /\ Holds(w, v1, imgs[j].vb.descs[k])
    BY <2>1
  <2>3. imgs[j].vb.descs \in Seq(Desc)
    <3>1. imgs[j] \in Image
      OBVIOUS
    <3> QED BY <3>1 DEF Image, VBMeta
  <2>4. Holds(w, v2, imgs[j].vb.descs[k])
    BY <2>2, <2>3, HoldsGrows
  <2> QED BY <1>1, <2>2, <2>4 DEF Vouched
<1> QED BY <1>2, <1>3

\* So does a count.
LEMMA CountedGrows ==
  ASSUME NEW v1 \in Values, NEW v2 \in Values, Grows(v1, v2), NEW vb \in VBMeta, NEW c, NEW n,
         Counted(c, v1, vb, n)
  PROVE  Counted(c, v2, vb, n)
<1>1. ASSUME NEW i \in Roots(vb, n) PROVE v2[vb.descs[i].part] # NoDigest
  <2>1. vb.descs[i] \in Desc /\ vb.descs[i].tag = "hashtree"
    BY DEF VBMeta, Roots, Persistent
  <2>2. vb.descs[i].part \in Name
    BY <2>1 DEF Desc
  <2> QED BY <2>2 DEF Counted, Grows
<1> QED BY <1>1 DEF Counted
-----------------------------------------------------------------------------
(***************************************************************************)
(* A step of load_and_verify_vbmeta() that replaces the innermost frame by *)
(* f.  Arrives and Leaves say what is to be shown of f and of the slot     *)
(* data; the rest of the invariant then follows.                           *)
(***************************************************************************)
Arrives(f) ==
  /\ ~world.noVbmeta /\ Len(stack) = 1 => TopData(world, f, pc', slot')
  /\ Len(stack) = 2 => f.flags = Top.flags /\ slot'.images # <<>> /\ slot'.subst = slot.subst
  /\ pc' \in FlagsRead /\ ~Main(world, f) => VBOf(world, f).flags = {}
  /\ pc' = "load" => DisabledBy(VBOf(world, f))
  /\ pc' \in Recorded => \E j \in DOMAIN slot'.images : slot'.images[j].vb = VBOf(world, f)

Counts(f) ==
  ~blind' /\ ~world.noVbmeta /\ Len(stack) = 1 =>
    /\ pc' = "desc" => Counted(slot'.subst, values', VBOf(world, f), f.n)
    /\ pc' = "return" /\ f.ret = "OK" /\ ~Disabled' =>
         Counted(slot'.subst, values', TopImage', Len(TopImage'.descs) + 1)

Leaves(f) ==
  pc' = "return" /\ Len(stack) = 1 /\ slot'.images = <<>> => Refused(f.ret)

Steady == /\ UNCHANGED <<world, ret, out>> /\ (blind => blind')
          /\ values' \in Values /\ Grows(values, values')

LEMMA InnerData ==
  ASSUME Inv, DataInv, pc \in FrameStep, pc' \in FrameStep, NEW f \in Frame, SetTop(f),
         Steady, Arrives(f), Counts(f), Leaves(f),
         ImagesKnown', CmdlineSound', LoadedVouched', RollbackRecent'
  PROVE  DataInv'
<1>1. /\ TypeOK /\ Len(stack) \in {1, 2} /\ stack[1] \in Frame
      /\ Len(stack) = 1 => Top = stack[1]
      /\ Len(stack) = 2 => Top = stack[2] /\ ~world.noVbmeta
  BY FrameFacts
<1>2. /\ Len(stack') = Len(stack) /\ Top' = f
      /\ stack'[1] = IF Len(stack) = 1 THEN f ELSE stack[1]
      /\ Len(stack) = 2 => stack'[2] = f
  BY SetTopFacts
<1>3. world' = world /\ ret' = ret /\ out' = out /\ (blind => blind')
  BY DEF Steady
<1>4. /\ VB' = VBOf(world, f) /\ IsMain' = Main(world, f)
      /\ TopStage' = IF Len(stack) = 2 THEN "desc" ELSE pc'
  BY <1>2, <1>3 DEF VB, VBOf, IsMain, Main, TopStage
<1>5. pc' \notin {"mangle", "options", "subst", "done", "next"} /\ ~out /\ ~out'
  BY <1>3 DEF FrameStep, DataInv, Ending
<1>6. FrameData'
  <2>1. ~world.noVbmeta => TopData(world, stack'[1], TopStage', slot')
    <3>1. CASE Len(stack) = 1
      BY <1>2, <1>4, <3>1 DEF Arrives
    <3>2. CASE Len(stack) = 2
      <4>1. TopData(world, stack[1], "desc", slot) /\ slot'.images # <<>>
        BY <1>1, <3>2 DEF DataInv, FrameData, TopStage, Arrives
      <4> QED BY <1>2, <1>4, <3>2, <4>1 DEF TopData, Unrecorded
    <3> QED BY <1>1, <3>1, <3>2
  <2>2. Len(stack) = 2 => stack'[2].flags = stack'[1].flags
    BY <1>1, <1>2 DEF DataInv, FrameData, Arrives
  <2> QED BY <1>2, <1>3, <1>4, <2>1, <2>2 DEF FrameData, Arrives
<1>7. NothingRecorded'
  BY <1>2, <1>3, <1>5 DEF NothingRecorded, Leaves, Refused
<1>8. Ending' /\ EioIffMarked'
  BY <1>5 DEF Ending, EioIffMarked
<1>9. RootsCounted'
  <2> SUFFICES ASSUME ~blind', ~world.noVbmeta
               PROVE  /\ TopStage' = "desc" =>
                           Counted(slot'.subst, values', VBOf(world, stack'[1]), stack'[1].n)
                      /\ pc' = "return" /\ Len(stack) = 1 /\ f.ret = "OK" /\ ~Disabled' =>
                           Counted(slot'.subst, values', TopImage', Len(TopImage'.descs) + 1)
    BY <1>2, <1>3, <1>5 DEF RootsCounted
  <2>1. CASE Len(stack) = 1
    BY <1>2, <1>4, <2>1 DEF Counts
  <2>2. CASE Len(stack) = 2
    <3>1. Counted(slot.subst, values, VBOf(world, stack[1]), stack[1].n)
      BY <1>3, <2>2 DEF DataInv, RootsCounted, TopStage
    <3>2. values \in Values /\ values' \in Values /\ Grows(values, values') /\ VBOf(world, stack[1]) \in VBMeta
      BY <1>1, SlotFacts, FrameDescs DEF Steady
    <3>3. Counted(slot.subst, values', VBOf(world, stack[1]), stack[1].n)
      BY <3>1, <3>2, CountedGrows
    <3> QED BY <1>2, <2>2, <3>3 DEF Arrives
  <2> QED BY <1>1, <2>1, <2>2
<1> QED BY <1>6, <1>7, <1>8, <1>9 DEF DataInv

\* The parts that a step does not touch.
LEMMA ImagesKept ==
  ASSUME DataInv, world' = world, slot'.images = slot.images
  PROVE  ImagesKnown'
BY DEF DataInv, ImagesKnown

LEMMA CmdlineKept ==
  ASSUME DataInv, world' = world, slot'.images = slot.images, slot'.cmdline = slot.cmdline,
         pc \in FrameStep \union {"next", "mangle"}
  PROVE  CmdlineSound'
BY DEF DataInv, CmdlineSound, CmdlineFitsTopLevel, TopImage, Disabled

LEMMA LoadedKept ==
  ASSUME TypeOK, DataInv, Steady, slot'.images = slot.images, slot'.loaded = slot.loaded,
         Dependable' /\ NoError' => NoError
  PROVE  LoadedVouched'
<1> SUFFICES ASSUME Dependable', NoError', NEW i \in DOMAIN slot'.loaded
             PROVE  Vouched(world', values', slot'.images, slot'.loaded[i])
  BY DEF LoadedVouched
<1>1. Dependable /\ NoError /\ world' = world
  BY DEF Steady, Dependable
<1>2. Vouched(world, values, slot.images, slot.loaded[i])
  BY <1>1 DEF DataInv, LoadedVouched
<1> QED BY <1>1, <1>2, SlotFacts, VouchedGrows DEF Steady

LEMMA RollbackKept ==
  ASSUME DataInv, Steady, slot'.rollback = slot.rollback, Dependable' /\ NoError' => NoError
  PROVE  RollbackRecent'
<1>1. world' = world /\ (Dependable' => Dependable)
  BY DEF Steady, Dependable
<1> QED BY <1>1 DEF DataInv, RollbackRecent

\* An error in the innermost frame is an error of the call.
LEMMA NoErrorTop ==
  ASSUME Inv, pc \in FrameStep, pc' \in FrameStep, NEW f \in Frame, SetTop(f), NoError'
  PROVE  f.ret = "OK" /\ (Top.ret = "OK" => NoError)
<1>1. Len(stack) \in DOMAIN stack /\ stack[Len(stack)] = Top
  BY FrameFacts DEF Top
<1> QED BY <1>1, SetTopFacts DEF NoError
-----------------------------------------------------------------------------
(***************************************************************************)
(* The steps of load_and_verify_vbmeta(), one by one.                      *)
(***************************************************************************)
\* goto out with an error; as long as nothing is recorded, one that
\* avb_slot_verify() does not put up with.
LEMMA ErrorData ==
  ASSUME Inv, DataInv, pc \in FrameStep, Steady, NEW f \in Frame, f.flags = Top.flags,
         NEW r \in Result, r # "OK", Refused(r) \/ slot.images # <<>>, GotoOut(f, r),
         slot'.images = slot.images, slot'.cmdline = slot.cmdline, slot'.subst = slot.subst
  PROVE  DataInv'
<1> DEFINE g == [f EXCEPT !.ret = r]
<1>1. g \in Frame /\ g.flags = Top.flags /\ g.ret = r /\ r # "OK"
  BY DEF Frame
<1>2. SetTop(g) /\ pc' = "return" /\ pc' \in FrameStep
  BY DEF GotoOut, FrameStep
<1> HIDE DEF g
<1>3. Arrives(g)
  <2>1. Len(stack) = 2 => slot.images # <<>>
    BY FrameFacts DEF DataInv, FrameData, TopData, TopStage, Recorded
  <2> QED BY <1>1, <1>2, <2>1 DEF Arrives, TopData, Unrecorded, Found, FlagsRead, Recorded
<1>4. Counts(g) /\ Leaves(g)
  BY <1>1, <1>2 DEF Counts, Leaves
<1>5. ImagesKnown' /\ CmdlineSound'
  BY ImagesKept, CmdlineKept DEF Steady
<1>6. LoadedVouched' /\ RollbackRecent'
  BY <1>1, <1>2, NoErrorTop DEF LoadedVouched, RollbackRecent
<1> QED BY <1>1, <1>2, <1>3, <1>4, <1>5, <1>6, InnerData

\* A step that leaves the slot data alone.
LEMMA ForwardData ==
  ASSUME Inv, DataInv, pc \in FrameStep, pc' \in FrameStep, Steady, slot' = slot,
         NEW f \in Frame, SetTop(f), Dependable' /\ f.ret = "OK" => Top.ret = "OK",
         Arrives(f), Counts(f), Leaves(f)
  PROVE  DataInv'
<1>1. TypeOK /\ world' = world
  BY DEF Steady, Inv, TypeInv
<1>2. Dependable' /\ NoError' => NoError
  BY NoErrorTop
<1>3. ImagesKnown' /\ CmdlineSound' /\ LoadedVouched' /\ RollbackRecent'
  BY <1>1, <1>2, ImagesKept, CmdlineKept, LoadedKept, RollbackKept
<1> QED BY <1>3, InnerData

LEMMA SteadyCall ==
  ASSUME TypeOK, UNCHANGED <<call, store, ret, out>>, blind' = blind \/ blind'
  PROVE  Steady
BY SlotFacts DEF Steady, Grows, call, store

\* What is known of the frame and the slot data before a step.
LEMMA DataBefore ==
  ASSUME Inv, DataInv, pc \in FrameStep
  PROVE  /\ ~world.noVbmeta /\ Len(stack) = 1 => TopData(world, Top, pc, slot)
         /\ Len(stack) = 2 => TopData(world, stack[1], "desc", slot) /\ slot.images # <<>>
         /\ Len(stack) = 2 => Top.flags = stack[1].flags
<1>1. ~world.noVbmeta /\ Len(stack) = 1 => TopData(world, Top, pc, slot)
  BY FrameFacts DEF DataInv, FrameData, TopStage
<1>2. Len(stack) = 2 => TopData(world, stack[1], "desc", slot) /\ Top.flags = stack[1].flags
  BY FrameFacts DEF DataInv, FrameData, TopStage
<1> QED BY <1>1, <1>2 DEF TopData, Recorded

LEMMA LoadingData ==
  ASSUME Inv, DataInv, LocateVBMeta \/ ReadVBMeta
  PROVE  DataInv'
<1>0. pc \in {"locate", "read"} /\ pc \in FrameStep
  BY DEF LocateVBMeta, ReadVBMeta, FrameStep
<1>1. /\ TypeOK /\ stack # <<>> /\ Len(stack) \in {1, 2} /\ Top \in Frame
      /\ Len(stack) = 1 => Top = stack[1]
      /\ IsMain <=> Len(stack) = 1 /\ ~world.noVbmeta
  BY <1>0, FrameFacts
<1>2. Steady /\ slot' = slot /\ blind' = blind
  BY <1>1, SteadyCall DEF LocateVBMeta, ReadVBMeta
<1>3. Refused("IO") /\ "IO" \in Result
  BY DEF Refused, Continuable, Result
<1>4. /\ ~world.noVbmeta /\ Len(stack) = 1 => TopData(world, Top, pc, slot)
      /\ Len(stack) = 2 => slot.images # <<>>
  BY <1>0, DataBefore
<1>5. CASE GotoOut(Top, "IO")
  BY <1>0, <1>1, <1>2, <1>3, <1>5, ErrorData DEF Refused
<1>6. CASE LocateVBMeta /\ SetTop([Top EXCEPT !.footer = UsesFooter(world, Top.part)]) /\ pc' = "read"
  <2> DEFINE f == [Top EXCEPT !.footer = UsesFooter(world, Top.part)]
  <2>1. f \in Frame /\ f.part = Top.part /\ f.n = Top.n /\ f.flags = Top.flags /\ f.ret = Top.ret
    BY <1>1 DEF Frame, UsesFooter
  <2>2. SetTop(f) /\ pc' = "read" /\ pc = "locate" /\ pc' \in FrameStep
    BY <1>6 DEF FrameStep, LocateVBMeta
  <2> HIDE DEF f
  <2>3. Arrives(f)
    BY <1>2, <1>4, <2>1, <2>2 DEF Arrives, TopData, Unrecorded, Found, FlagsRead, Recorded
  <2>4. Counts(f) /\ Leaves(f)
    BY <2>2 DEF Counts, Leaves
  <2> QED BY <1>0, <1>2, <2>1, <2>2, <2>3, <2>4, ForwardData
<1>7. CASE ReadVBMeta /\ Disk(world, Top.part).present /\ pc' = "image" /\ stack' = stack
  <2>1. SetTop(Top) /\ pc = "read" /\ pc' \in FrameStep
    BY <1>1, <1>7, SetTopSame DEF FrameStep, ReadVBMeta
  <2>3. Arrives(Top)
    BY <1>2, <1>4, <1>7, <2>1 DEF Arrives, TopData, Unrecorded, Found, FlagsRead, Recorded
  <2>4. Counts(Top) /\ Leaves(Top)
    BY <1>7 DEF Counts, Leaves
  <2> QED BY <1>0, <1>1, <1>2, <2>1, <2>3, <2>4, ForwardData
<1>8. CASE ReadVBMeta /\ IsMain /\ SetTop(NewFrame("boot", 0, NoKey, {})) /\ pc' = "locate"
  <2> DEFINE f == NewFrame("boot", 0, NoKey, {})
  <2>1. f \in Frame /\ f.n = 1 /\ f.ret = "OK"
    BY NewFrameType, NameAssumption, LimitAssumption DEF NewFrame
  <2>2. SetTop(f) /\ pc' = "locate" /\ pc = "read" /\ pc' \in FrameStep
    BY <1>8 DEF FrameStep, ReadVBMeta
  <2> HIDE DEF f
  <2>3. Arrives(f)
    BY <1>1, <1>2, <1>4, <1>8, <2>1, <2>2 DEF Arrives, TopData, Unrecorded, Found, FlagsRead, Recorded
  <2>4. Counts(f) /\ Leaves(f)
    BY <2>2 DEF Counts, Leaves
  <2>5. Top.ret = "OK"
    BY <1>1, <1>4, <1>8, <2>2 DEF TopData
  <2> QED BY <1>0, <1>2, <2>1, <2>2, <2>3, <2>4, <2>5, ForwardData
<1> QED BY <1>5, <1>6, <1>7, <1>8 DEF LocateVBMeta, ReadVBMeta

LEMMA CheckingData ==
  ASSUME Inv, DataInv, VerifyImage \/ CheckKey
  PROVE  DataInv'
<1>0. pc \in {"image", "key"} /\ pc \in FrameStep
  BY DEF VerifyImage, CheckKey, FrameStep
<1>1. /\ TypeOK /\ stack # <<>> /\ Len(stack) \in {1, 2} /\ Top \in Frame /\ VB = VBOf(world, Top)
      /\ IsMain <=> Len(stack) = 1 /\ ~world.noVbmeta
      /\ IsMain <=> Main(world, Top)
      /\ VB \in VBMeta
  BY <1>0, FrameFacts, TopType
<1>2. Steady /\ slot' = slot /\ blind' = blind
  BY <1>1, SteadyCall DEF VerifyImage, CheckKey
<1>4. /\ ~world.noVbmeta /\ Len(stack) = 1 => TopData(world, Top, pc, slot)
      /\ Len(stack) = 2 => slot.images # <<>>
      /\ pc = "key" /\ ~IsMain => VB.flags = {}
  BY <1>0, DataBefore DEF DataInv, FrameData, FlagsRead
<1>5. ASSUME NEW f \in Frame, SetTop(f), f.part = Top.part, f.loc = Top.loc, f.n = Top.n,
             f.ret = "OK" => Top.ret = "OK",
             \/ pc = "image" /\ pc' = "key" /\ (IsMain => f.flags = VB.flags)
                             /\ (~IsMain => f.flags = Top.flags /\ VB.flags = {})
             \/ pc = "key" /\ pc' = "rollback" /\ f.flags = Top.flags
      PROVE  DataInv'
  <2>1. VBOf(world, f) = VB /\ (Main(world, f) <=> IsMain) /\ pc' \in FrameStep
    BY <1>1, <1>5 DEF VBOf, VB, Main, FrameStep
  <2>2. ~world.noVbmeta /\ Len(stack) = 1 => TopData(world, f, pc', slot)
    BY <1>1, <1>4, <1>5, <2>1 DEF TopData, Unrecorded, Found, FlagsRead, Recorded
  <2>3. Arrives(f)
    BY <1>1, <1>2, <1>4, <1>5, <2>1, <2>2 DEF Arrives, Recorded
  <2>4. Counts(f) /\ Leaves(f)
    BY <1>5 DEF Counts, Leaves
  <2> QED BY <1>0, <1>2, <1>5, <2>1, <2>3, <2>4, ForwardData
<1>6. ASSUME NEW f \in Frame, f.flags = Top.flags, NEW r \in Result, Refused(r), GotoOut(f, r)
      PROVE  DataInv'
  BY <1>0, <1>2, <1>6, ErrorData DEF Refused
<1>7. CASE VerifyImage
  <2> DEFINE f == IF VB.verify \in SoftVerify THEN [Top EXCEPT !.ret = "VERIFICATION"] ELSE Top
             g == [f EXCEPT !.flags = VB.flags]
  <2>1. /\ f \in Frame /\ f.flags = Top.flags /\ f.part = Top.part /\ f.loc = Top.loc /\ f.n = Top.n
        /\ f.ret = "OK" => Top.ret = "OK"
    BY <1>1 DEF Frame, Result
  <2>2. \/ GotoOut(f, "INVALID_METADATA") \/ GotoOut(f, "UNSUPPORTED_VERSION")
        \/ ~world.allow /\ GotoOut(f, "VERIFICATION")
        \/ pc' = "key" /\ IsMain /\ SetTop(g)
        \/ pc' = "key" /\ ~IsMain /\ VB.flags = {} /\ SetTop(f)
    BY <1>7 DEF VerifyImage
  <2> HIDE DEF f
  <2>3. /\ g \in Frame /\ g.flags = VB.flags /\ g.part = Top.part /\ g.loc = Top.loc /\ g.n = Top.n
        /\ g.ret = "OK" => Top.ret = "OK"
    BY <1>1, <2>1 DEF Frame, VBMeta
  <2> HIDE DEF g
  <2>4. /\ Refused("INVALID_METADATA") /\ Refused("UNSUPPORTED_VERSION")
        /\ ~world.allow => Refused("VERIFICATION")
        /\ {"INVALID_METADATA", "UNSUPPORTED_VERSION", "VERIFICATION"} \subseteq Result
    BY DEF Refused, Continuable, Result
  <2>5. pc = "image"
    BY <1>7 DEF VerifyImage
  <2> QED BY <1>5, <1>6, <2>1, <2>2, <2>3, <2>4, <2>5
<1>8. CASE CheckKey
  <2> DEFINE f == IF (VB.verify = "OK" /\ Top.expect = NoKey) /\ world.noVbmeta
                  THEN [Top EXCEPT !.locUse = world.locOf[Top.part]] ELSE Top
             g == [f EXCEPT !.ret = "PUBLIC_KEY_REJECTED"]
  <2>1. /\ f \in Frame /\ f.flags = Top.flags /\ f.part = Top.part /\ f.loc = Top.loc /\ f.n = Top.n
        /\ f.ret = Top.ret
    BY <1>1 DEF Frame, TypeOK, World
  <2>2. \/ SetTop(g) /\ pc' = IF world.allow THEN "rollback" ELSE "return"
        \/ SetTop(f) /\ pc' = "rollback"
    BY <1>8 DEF CheckKey, SoftError
  <2> HIDE DEF f
  <2>3. /\ g \in Frame /\ g.flags = Top.flags /\ g.part = Top.part /\ g.loc = Top.loc /\ g.n = Top.n
        /\ g.ret # "OK"
    BY <2>1 DEF Frame, Result
  <2>4. ~world.allow /\ SetTop(g) /\ pc' = "return" => GotoOut(f, "PUBLIC_KEY_REJECTED")
    BY DEF GotoOut
  <2> HIDE DEF g
  <2>5. /\ ~world.allow => Refused("PUBLIC_KEY_REJECTED")
        /\ "PUBLIC_KEY_REJECTED" \in Result
    BY DEF Refused, Result
  <2>6. pc = "key"
    BY <1>8 DEF CheckKey
  <2> QED BY <1>5, <1>6, <2>1, <2>2, <2>3, <2>4, <2>5, <2>6
<1> QED BY <1>7, <1>8

\* The top-level image, once recorded, is the one the outermost frame is for.
LEMMA TopImageIs ==
  ASSUME Inv, DataInv, pc \in FrameStep, ~world.noVbmeta, TopStage \in Recorded
  PROVE  slot.images # <<>> /\ TopImage = VBOf(world, stack[1])
<1>1. TopData(world, stack[1], TopStage, slot) /\ Outermost(world, nreq, stack[1])
  BY FrameFacts DEF DataInv, FrameData
<1>2. slot.images # <<>> /\ Disk(world, stack[1].part).present
  BY <1>1 DEF TopData, Recorded, Found
<1> QED BY <1>1, <1>2, FoundIsTopLevel DEF DataInv, ImagesKnown, TopImage

LEMMA CheckRollbackData ==
  ASSUME Inv, DataInv, CheckRollback
  PROVE  DataInv'
<1> DEFINE old == VB.rollback < world.stored[Top.locUse]
           f == IF old THEN [Top EXCEPT !.ret = "ROLLBACK_INDEX"] ELSE Top
           x == [part |-> Top.part, vb |-> VB]
<1>0. pc = "rollback" /\ pc \in FrameStep
  BY DEF CheckRollback, FrameStep
<1>1. /\ TypeOK /\ stack # <<>> /\ Len(stack) \in {1, 2} /\ Top \in Frame /\ VB = VBOf(world, Top)
      /\ IsMain <=> Len(stack) = 1 /\ ~world.noVbmeta
      /\ IsMain <=> Main(world, Top)
      /\ VB \in VBMeta /\ (Len(stack) = 1 => Outermost(world, nreq, Top))
      /\ Len(stack) = 2 => ~world.noVbmeta
  BY <1>0, FrameFacts, TopType
<1>2. Steady /\ blind' = blind /\ world' = world /\ values' = values
  BY <1>1, SteadyCall DEF CheckRollback, call, store
<1>3. /\ ~world.noVbmeta /\ Len(stack) = 1 => TopData(world, Top, "rollback", slot)
      /\ Len(stack) = 2 => slot.images # <<>>
      /\ ~IsMain => VB.flags = {}
  BY <1>0, DataBefore DEF DataInv, FrameData, FlagsRead
<1>4. /\ Refused("OOM") /\ (~world.allow => Refused("ROLLBACK_INDEX"))
      /\ {"OOM", "ROLLBACK_INDEX"} \subseteq Result
  BY DEF Refused, Continuable, Result
<1>5. \/ slot' = slot /\ GotoOut(Top, "OOM")
      \/ slot' = slot /\ ~world.allow /\ GotoOut(Top, "ROLLBACK_INDEX")
      \/ /\ SetTop(f) /\ pc' = IF DisabledBy(VB) THEN "load" ELSE "list"
         /\ slot' = [slot EXCEPT !.images = Append(@, x)]
  BY DEF CheckRollback, DisabledBy
<1>6. CASE slot' = slot /\ GotoOut(Top, "OOM")
  BY <1>0, <1>1, <1>2, <1>4, <1>6, ErrorData DEF Refused
<1>7. CASE slot' = slot /\ ~world.allow /\ GotoOut(Top, "ROLLBACK_INDEX")
  BY <1>0, <1>1, <1>2, <1>4, <1>7, ErrorData DEF Refused
<1>8. CASE /\ SetTop(f) /\ pc' = IF DisabledBy(VB) THEN "load" ELSE "list"
           /\ slot' = [slot EXCEPT !.images = Append(@, x)]
  <2>1. /\ f \in Frame /\ f.part = Top.part /\ f.loc = Top.loc /\ f.n = Top.n /\ f.flags = Top.flags
        /\ f.ret = "OK" => Top.ret = "OK"
    BY <1>1 DEF Frame, Result
  <2>2. SetTop(f) /\ pc' \in FrameStep /\ pc' \in {"load", "list"}
    BY <1>8 DEF FrameStep
  <2> HIDE DEF f
  <2>3. x \in Image /\ x.vb = VB /\ x.part = Top.part
    BY <1>1 DEF Image, Frame
  <2>4. slot \in SlotData /\ slot.images \in Seq(Image)
    BY <1>1, SlotFacts DEF TypeOK
  <2>5. /\ slot'.images = Append(slot.images, x) /\ slot'.cmdline = slot.cmdline
        /\ slot'.subst = slot.subst /\ slot'.loaded = slot.loaded /\ slot'.rollback = slot.rollback
    BY <1>8, <2>4 DEF SlotData
  <2> HIDE DEF x
  <2>6. /\ slot'.images # <<>>
        /\ Len(slot.images) + 1 \in DOMAIN slot'.images /\ slot'.images[Len(slot.images) + 1] = x
        /\ slot.images = <<>> => slot'.images[1] = x
        /\ slot.images # <<>> => slot'.images[1] = slot.images[1]
        /\ \A j \in DOMAIN slot'.images : slot'.images[j] = x \/ (j \in DOMAIN slot.images /\ slot'.images[j] = slot.images[j])
    BY <2>3, <2>4, <2>5
  <2>7. VBOf(world, f) = VB /\ (Main(world, f) <=> IsMain)
    BY <1>1, <2>1 DEF VBOf, VB, Main
  <2>8. Arrives(f)
    <3>1. ~world.noVbmeta /\ Len(stack) = 1 => TopData(world, f, pc', slot')
      BY <1>1, <1>3, <1>8, <2>1, <2>5, <2>6, <2>7 DEF TopData, Unrecorded, Found, FlagsRead, Recorded
    <3> QED BY <1>1, <1>3, <1>8, <2>1, <2>2, <2>3, <2>5, <2>6, <2>7, <3>1 DEF Arrives
  <2>9. Counts(f) /\ Leaves(f)
    BY <2>2 DEF Counts, Leaves
  <2>10. ImagesKnown'
    <3>1. CASE world.noVbmeta
      BY <1>1, <1>2, <1>3, <2>3, <2>6, <3>1 DEF ImagesKnown, DataInv
    <3>2. CASE Len(stack) = 2
      BY <1>1, <1>2, <1>3, <2>6, <3>2 DEF ImagesKnown, DataInv
    <3>3. CASE ~world.noVbmeta /\ Len(stack) = 1
      <4>1. slot.images = <<>> /\ Disk(world, Top.part).present
        BY <1>3, <3>3 DEF TopData, Unrecorded, Found
      <4>2. Top.part = TopLevel(world) /\ VB = VBMetaIn(world, TopLevel(world))
        BY <1>1, <3>3, <4>1, FoundIsTopLevel
      <4> QED BY <1>2, <2>3, <2>6, <3>3, <4>1, <4>2 DEF ImagesKnown
    <3> QED BY <1>1, <3>1, <3>2, <3>3
  <2>11. CmdlineSound'
    <3>1. CASE Len(stack) = 2
      BY <1>0, <1>2, <1>3, <2>5, <2>6, <3>1
      DEF DataInv, CmdlineSound, CmdlineFitsTopLevel, TopImage, Disabled
    <3>2. CASE ~world.noVbmeta /\ Len(stack) = 1
      <4>1. slot'.cmdline = <<>>
        BY <1>3, <2>5, <3>2 DEF TopData, Unrecorded
      <4> QED BY <4>1 DEF CmdlineSound, CmdlineFitsTopLevel
    <3>3. CASE world.noVbmeta
      BY <1>2, <3>3 DEF CmdlineSound, CmdlineFitsTopLevel
    <3> QED BY <1>1, <3>1, <3>2, <3>3
  <2>12. NoError' => NoError
    BY <1>0, <2>1, <2>2, NoErrorTop
  <2>13. LoadedVouched'
    <3> SUFFICES ASSUME Dependable', NoError', NEW i \in DOMAIN slot'.loaded
                 PROVE  Vouched(world', values', slot'.images, slot'.loaded[i])
      BY DEF LoadedVouched
    <3>1. Vouched(world, values, slot.images, slot.loaded[i])
      BY <1>2, <2>5, <2>12 DEF DataInv, LoadedVouched, Dependable
    <3> QED BY <1>1, <1>2, <2>3, <2>4, <2>5, <3>1, SlotFacts, VouchedGrows DEF Grows
  <2>14. RollbackRecent'
    BY <1>2, <2>5, <2>12, RollbackKept
  <2> QED BY <1>0, <1>2, <2>1, <2>2, <2>8, <2>9, <2>10, <2>11, <2>13, <2>14, InnerData
<1> HIDE DEF f, x
<1> QED BY <1>5, <1>6, <1>7, <1>8

LEMMA LoadRequestedData ==
  ASSUME Inv, DataInv, LoadRequested
  PROVE  DataInv'
<1>0. pc = "load" /\ pc \in FrameStep
  BY DEF LoadRequested, FrameStep
<1>1. /\ TypeOK /\ stack # <<>> /\ Len(stack) \in {1, 2} /\ Top \in Frame /\ VB = VBOf(world, Top)
      /\ IsMain <=> Len(stack) = 1 /\ ~world.noVbmeta
      /\ Len(stack) = 1 => Top = stack[1]
  BY <1>0, FrameFacts
<1>2. Steady /\ blind' = blind /\ world' = world /\ values' = values
  BY <1>1, SteadyCall DEF LoadRequested, call, store
<1>3. Refused("OOM") /\ Refused("IO") /\ {"OOM", "IO"} \subseteq Result
  BY DEF Refused, Continuable, Result
<1>4. CASE slot' = slot /\ (GotoOut(Top, "IO") \/ GotoOut(Top, "OOM"))
  BY <1>0, <1>1, <1>2, <1>3, <1>4, ErrorData DEF Refused
<1>5. CASE /\ pc' = "return" /\ stack' = stack
           /\ slot' = [slot EXCEPT !.loaded = @ \o world.requested]
  <2>1. IsMain /\ DisabledBy(VB)
    BY <1>0 DEF DataInv, FrameData, FlagsRead, DisabledBy
  <2>2. slot.images # <<>> /\ TopImage = VB
    BY <1>0, <1>1, <2>1, TopImageIs DEF TopStage, Recorded
  <2>3. /\ slot'.images = slot.images /\ slot'.cmdline = slot.cmdline /\ slot'.rollback = slot.rollback
        /\ slot'.subst = slot.subst /\ slot'.loaded = slot.loaded \o world.requested
    BY <1>1, <1>5 DEF TypeOK, SlotData
  <2>4. SetTop(Top) /\ pc' \in FrameStep
    BY <1>1, <1>5, SetTopSame DEF FrameStep
  <2>5. Arrives(Top) /\ Leaves(Top)
    BY <1>1, <1>5, <2>1, <2>2, <2>3 DEF Arrives, Leaves, TopData, Unrecorded, Found, FlagsRead, Recorded
  <2>6. Disabled' /\ Counts(Top)
    BY <1>5, <2>1, <2>2, <2>3 DEF Counts, DisabledBy, Disabled, TopImage
  <2>7. NoError' = NoError
    BY <1>0, <1>5, <2>4 DEF NoError
  <2>8. LoadedVouched'
    <3> SUFFICES ASSUME Dependable', NoError', NEW i \in DOMAIN slot'.loaded
                 PROVE  Vouched(world, values, slot.images, slot'.loaded[i])
      BY <1>2, <2>3 DEF LoadedVouched
    <3>1. slot.loaded \in Seq(Name) /\ world.requested \in Seq(Name)
      BY <1>1, SlotFacts DEF World
    <3>2. CASE i \in DOMAIN slot.loaded /\ slot'.loaded[i] = slot.loaded[i]
      BY <1>2, <2>7, <3>2 DEF DataInv, LoadedVouched, Dependable
    <3>3. CASE \E k \in DOMAIN world.requested : slot'.loaded[i] = world.requested[k]
      BY <2>1, <2>2, <3>3 DEF Vouched, Requested, TopImage
    <3>4. \/ i \in DOMAIN slot.loaded /\ slot'.loaded[i] = slot.loaded[i]
          \/ /\ i - Len(slot.loaded) \in DOMAIN world.requested
             /\ slot'.loaded[i] = world.requested[i - Len(slot.loaded)]
      <4> DEFINE l == slot.loaded
                 r == world.requested
      <4>1. l \in Seq(Name) /\ r \in Seq(Name) /\ slot'.loaded = l \o r
        BY <2>3, <3>1
      <4> HIDE DEF l, r
      <4>2. i \in 1 .. Len(l) + Len(r)
        BY <4>1
      <4>3. \/ i \in DOMAIN l /\ slot'.loaded[i] = l[i]
            \/ i - Len(l) \in DOMAIN r /\ slot'.loaded[i] = r[i - Len(l)]
        BY <4>1, <4>2
      <4> QED BY <4>3 DEF l, r
    <3> QED BY <3>2, <3>3, <3>4
  <2>9. ImagesKnown' /\ CmdlineSound' /\ RollbackRecent'
    BY <1>0, <1>2, <2>3, <2>7, ImagesKept, CmdlineKept, RollbackKept
  <2> QED BY <1>0, <1>1, <1>2, <2>4, <2>5, <2>6, <2>8, <2>9, InnerData
<1> QED BY <1>4, <1>5 DEF LoadRequested

LEMMA NoRoots ==
  ASSUME NEW v, NEW vb \in VBMeta
  PROVE  Counted(0, v, vb, 1)
<1>1. vb.descs \in Seq(Desc)
  BY DEF VBMeta
<1>2. Roots(vb, 1) = {}
  BY <1>1 DEF Roots
<1> QED BY <1>2, FS_EmptySet DEF Counted

LEMMA ListingData ==
  ASSUME Inv, DataInv, ListDescriptors \/ ListDescriptorsFails
  PROVE  DataInv'
<1>0. pc = "list" /\ pc \in FrameStep
  BY DEF ListDescriptors, ListDescriptorsFails, FrameStep
<1>1. /\ TypeOK /\ stack # <<>> /\ Len(stack) \in {1, 2} /\ Top \in Frame /\ VB = VBOf(world, Top)
      /\ IsMain <=> Len(stack) = 1 /\ ~world.noVbmeta
      /\ IsMain <=> Main(world, Top)
      /\ VB \in VBMeta
  BY <1>0, FrameFacts, TopType
<1>2. Steady /\ slot' = slot /\ world' = world
  BY <1>1, SteadyCall DEF ListDescriptors, ListDescriptorsFails, call
<1>3. /\ ~world.noVbmeta /\ Len(stack) = 1 => TopData(world, Top, "list", slot)
      /\ Len(stack) = 2 => slot.images # <<>>
      /\ ~IsMain => VB.flags = {}
      /\ \E j \in DOMAIN slot.images : slot.images[j].vb = VB
  BY <1>0, DataBefore DEF DataInv, FrameData, FlagsRead, Recorded
<1>4. ASSUME NEW f \in Frame, SetTop(f), pc' = "desc", f.part = Top.part, f.loc = Top.loc,
             f.flags = Top.flags, f.ret = Top.ret, f.n = Top.n \/ blind'
      PROVE  DataInv'
  <2>1. VBOf(world, f) = VB /\ (Main(world, f) <=> IsMain) /\ pc' \in FrameStep
    BY <1>1, <1>4 DEF VBOf, VB, Main, FrameStep
  <2>2. ~world.noVbmeta /\ Len(stack) = 1 => TopData(world, f, pc', slot)
    BY <1>1, <1>3, <1>4, <2>1 DEF TopData, Unrecorded, Found, FlagsRead, Recorded
  <2>3. Arrives(f)
    BY <1>1, <1>2, <1>3, <1>4, <2>1, <2>2 DEF Arrives
  <2>4. Counts(f)
    <3> SUFFICES ASSUME ~blind', ~world.noVbmeta, Len(stack) = 1
                 PROVE  Counted(slot.subst, values', VB, f.n)
      BY <1>2, <1>4, <2>1 DEF Counts
    <3>1. f.n = 1 /\ slot.subst = 0
      BY <1>3, <1>4 DEF TopData
    <3> QED BY <1>1, <3>1, NoRoots
  <2>5. Leaves(f)
    BY <1>4 DEF Leaves
  <2> QED BY <1>0, <1>2, <1>4, <2>1, <2>3, <2>4, <2>5, ForwardData
<1>5. CASE ListDescriptors
  <2>1. SetTop(Top) /\ pc' = "desc"
    BY <1>1, <1>5, SetTopSame DEF ListDescriptors
  <2> QED BY <1>1, <1>4, <2>1
<1>6. CASE ListDescriptorsFails /\ pc' = "desc" /\ SetTop([Top EXCEPT !.n = Len(VB.descs) + 1])
  <2> DEFINE f == [Top EXCEPT !.n = Len(VB.descs) + 1]
  <2>1. /\ f \in Frame /\ f.part = Top.part /\ f.loc = Top.loc /\ f.flags = Top.flags /\ f.ret = Top.ret
        /\ SetTop(f)
    BY <1>1, <1>6 DEF Frame, VBMeta
  <2>2. blind'
    BY <1>6 DEF ListDescriptorsFails
  <2> HIDE DEF f
  <2> QED BY <1>4, <1>6, <2>1, <2>2
<1>7. CASE ListDescriptorsFails /\ pc' = "abort"
  <2>1. blind' /\ ~out /\ out' = out
    BY <1>0, <1>7 DEF ListDescriptorsFails, DataInv, Ending
  <2>2. FrameData' /\ NothingRecorded' /\ Ending' /\ EioIffMarked'
    BY <1>7, <2>1 DEF FrameData, FrameStep, NothingRecorded, Ending, EioIffMarked
  <2>3. ImagesKnown' /\ CmdlineSound'
    BY <1>0, <1>2, ImagesKept, CmdlineKept
  <2>4. LoadedVouched' /\ RollbackRecent' /\ RootsCounted'
    BY <2>1 DEF LoadedVouched, RollbackRecent, RootsCounted, Dependable
  <2> QED BY <2>2, <2>3, <2>4 DEF DataInv
<1> QED BY <1>5, <1>6, <1>7 DEF ListDescriptors, ListDescriptorsFails
-----------------------------------------------------------------------------
(***************************************************************************)
(* The loop over the descriptors.                                          *)
(***************************************************************************)
LEMMA CountedStep ==
  ASSUME NEW vb \in VBMeta, NEW v, NEW n \in 1 .. Len(vb.descs), NEW c \in Nat, NEW e,
         Counted(c, v, vb, n),
         IF Persistent(vb.descs[n]) THEN e = c + 1 /\ v[vb.descs[n].part] # NoDigest ELSE e = c
  PROVE  Counted(e, v, vb, n + 1)
<1>1. vb.descs \in Seq(Desc) /\ DOMAIN vb.descs = 1 .. Len(vb.descs) /\ Len(vb.descs) \in Nat
  BY DEF VBMeta
<1>2. CASE ~Persistent(vb.descs[n])
  <2>1. Roots(vb, n + 1) = Roots(vb, n)
    BY <1>1, <1>2 DEF Roots
  <2> QED BY <1>2, <2>1 DEF Counted
<1>3. CASE Persistent(vb.descs[n])
  <2>1. Roots(vb, n + 1) = Roots(vb, n) \union {n} /\ n \notin Roots(vb, n)
    BY <1>1, <1>3 DEF Roots
  <2>2. IsFiniteSet(Roots(vb, n))
    <3>1. IsFiniteSet(1 .. Len(vb.descs)) /\ Roots(vb, n) \subseteq 1 .. Len(vb.descs)
      BY <1>1, FS_Interval DEF Roots
    <3> QED BY <3>1, FS_Subset
  <2>3. Cardinality(Roots(vb, n + 1)) = Cardinality(Roots(vb, n)) + 1
    BY <2>1, <2>2, FS_AddElement
  <2> QED BY <1>3, <2>1, <2>3 DEF Counted
<1> QED BY <1>2, <1>3

\* What is known at a descriptor, and at the end of the list of descriptors.
LEMMA AtDescFacts ==
  ASSUME Inv, DataInv, pc = "desc"
  PROVE  /\ pc \in FrameStep /\ TypeOK /\ stack # <<>> /\ Len(stack) \in {1, 2}
         /\ Top \in Frame /\ VB = VBOf(world, Top) /\ VB \in VBMeta
         /\ Len(stack) = 1 => Top = stack[1] /\ Top.expect = NoKey
         /\ Len(stack) = 2 => ~world.noVbmeta /\ Top.expect # NoKey
         /\ IsMain <=> Len(stack) = 1 /\ ~world.noVbmeta
         /\ IsMain <=> Main(world, Top)
         /\ ~world.noVbmeta /\ Len(stack) = 1 => TopData(world, Top, "desc", slot)
         /\ ~world.noVbmeta => /\ TopImage = VBOf(world, stack[1]) /\ Top.flags = TopImage.flags
                               /\ ~Disabled
         /\ slot.images # <<>>
         /\ ~IsMain => VB.flags = {}
         /\ \E j \in DOMAIN slot.images : slot.images[j].vb = VB
<1>1. /\ pc \in FrameStep /\ TypeOK /\ stack # <<>> /\ Len(stack) \in {1, 2}
      /\ Top \in Frame /\ VB = VBOf(world, Top) /\ VB \in VBMeta
      /\ Len(stack) = 1 => Top = stack[1] /\ Top.expect = NoKey
      /\ Len(stack) = 2 => ~world.noVbmeta /\ Top.expect # NoKey
      /\ IsMain <=> Len(stack) = 1 /\ ~world.noVbmeta
      /\ IsMain <=> Main(world, Top)
  BY FrameFacts, TopType DEF FrameStep
<1>2. /\ ~IsMain => VB.flags = {}
      /\ \E j \in DOMAIN slot.images : slot.images[j].vb = VB
  BY <1>1 DEF DataInv, FrameData, FlagsRead, Recorded
<1>3. slot.images # <<>>
  BY <1>2
<1>4. ASSUME ~world.noVbmeta
      PROVE  /\ Len(stack) = 1 => TopData(world, Top, "desc", slot)
             /\ TopImage = VBOf(world, stack[1]) /\ Top.flags = TopImage.flags /\ ~Disabled
  <2>1. TopStage = "desc" /\ TopData(world, stack[1], "desc", slot)
    BY <1>1, <1>4 DEF TopStage, DataInv, FrameData
  <2>2. TopImage = VBOf(world, stack[1])
    BY <1>1, <1>4, <2>1, TopImageIs DEF Recorded
  <2>3. Top.flags = stack[1].flags /\ stack[1].flags = VBOf(world, stack[1]).flags /\ ~DisabledBy(VBOf(world, stack[1]))
    BY <1>1, <2>1, DataBefore DEF TopData, FlagsRead
  <2> QED BY <1>1, <2>1, <2>2, <2>3 DEF Disabled, DisabledBy
<1> QED BY <1>1, <1>2, <1>3, <1>4

\* The next descriptor: g is the frame, up to the counter.
LEMMA NextDescData ==
  ASSUME Inv, DataInv, Steady, blind' = blind, NEW t, AtDesc(t), NEW g \in Frame, NextDesc(g),
         g.part = Top.part, g.loc = Top.loc, g.flags = Top.flags, g.n = Top.n,
         slot'.images = slot.images,
         Len(stack) = 2 => slot'.subst = slot.subst,
         Len(stack) = 1 /\ ~world.noVbmeta =>
           IF Persistent(D) THEN slot'.subst = slot.subst + 1 /\ values'[D.part] # NoDigest
           ELSE slot'.subst = slot.subst,
         CmdlineSound',
         NoError' /\ Dependable' /\ g.ret = "OK" => LoadedVouched' /\ RollbackRecent'
  PROVE  DataInv'
<1> DEFINE f == [g EXCEPT !.n = @ + 1]
<1>0. pc = "desc" /\ Top.n <= Len(VB.descs) /\ D = VB.descs[Top.n]
  BY DEF AtDesc, D
<1>1. /\ f \in Frame /\ f.part = Top.part /\ f.loc = Top.loc /\ f.flags = Top.flags /\ f.ret = g.ret
      /\ f.n = Top.n + 1 /\ Top.n \in Nat \ {0}
  BY DEF Frame
<1>2. SetTop(f) /\ pc' = "desc" /\ pc' \in FrameStep
  BY DEF NextDesc, FrameStep
<1> HIDE DEF f
<1>3. VBOf(world, f) = VB /\ (Main(world, f) <=> IsMain)
  BY <1>0, <1>1, AtDescFacts DEF VBOf, VB, Main, IsMain
<1>4. Arrives(f)
  <2>1. ~world.noVbmeta /\ Len(stack) = 1 => TopData(world, f, "desc", slot')
    BY <1>0, <1>1, <1>3, AtDescFacts DEF TopData, Unrecorded, Found, FlagsRead, Recorded
  <2> QED BY <1>0, <1>1, <1>2, <1>3, <2>1, AtDescFacts DEF Arrives
<1>5. Counts(f)
  <2> SUFFICES ASSUME ~blind, ~world.noVbmeta, Len(stack) = 1
               PROVE  Counted(slot'.subst, values', VB, f.n)
    BY <1>2, <1>3 DEF Counts
  <2>1. Counted(slot.subst, values, VB, Top.n)
    BY <1>0, AtDescFacts DEF DataInv, RootsCounted, TopStage
  <2>2. values \in Values /\ values' \in Values /\ Grows(values, values') /\ VB \in VBMeta /\ slot.subst \in Nat
    BY <1>0, AtDescFacts, SlotFacts DEF Steady
  <2>3. Counted(slot.subst, values', VB, Top.n)
    BY <2>1, <2>2, CountedGrows
  <2>4. Top.n \in 1 .. Len(VB.descs)
    BY <1>0, <1>1, <2>2 DEF VBMeta
  <2> QED BY <1>0, <1>1, <2>2, <2>3, <2>4, CountedStep
<1>6. Leaves(f)
  BY <1>2 DEF Leaves
<1>7. ImagesKnown'
  BY ImagesKept DEF Steady
<1>8. LoadedVouched' /\ RollbackRecent'
  <2>1. NoError' => g.ret = "OK"
    BY <1>0, <1>1, <1>2, AtDescFacts, NoErrorTop
  <2> QED BY <2>1 DEF LoadedVouched, RollbackRecent
<1> QED BY <1>0, <1>1, <1>2, <1>4, <1>5, <1>6, <1>7, <1>8, AtDescFacts, InnerData

LEMMA HashData ==
  ASSUME Inv, DataInv, HashDesc \/ HashDescFails
  PROVE  DataInv'
<1>0. pc = "desc" /\ AtDesc("hash")
  BY DEF HashDesc, HashDescFails, AtDesc
<1>1. /\ pc \in FrameStep /\ TypeOK /\ stack # <<>> /\ Top \in Frame /\ VB \in VBMeta
      /\ slot.images # <<>> /\ \E j \in DOMAIN slot.images : slot.images[j].vb = VB
  BY <1>0, AtDescFacts
<1>2. D \in Desc /\ D.tag = "hash" /\ D.part \in Name /\ ~Persistent(D)
  BY <1>0, <1>1, DescType, HashTargetType DEF TypeOK, Persistent
<1>3. Steady /\ world' = world /\ blind' = blind
  <2>1. values' = values \/ (Initializes(world, values, D) /\ values' = InitialValue)
    BY DEF HashDesc, HashDescFails
  <2>2. values \in Values /\ values' \in Values
    BY <1>0, <1>1, <2>1, InitialValueType DEF TypeOK, Values
  <2>3. Grows(values, values')
    BY <1>2, <2>1, <2>2 DEF Grows, Initializes, InitialValue, Values
  <2> QED BY <2>2, <2>3 DEF Steady, HashDesc, HashDescFails, call
<1>4. /\ slot'.images = slot.images /\ slot'.cmdline = slot.cmdline /\ slot'.subst = slot.subst
      /\ slot'.rollback = slot.rollback
      /\ slot'.loaded = slot.loaded \/ (Digested /\ slot'.loaded = Append(slot.loaded, D.part))
  BY <1>1 DEF HashDesc, HashDescFails, Digested, TypeOK, SlotData
<1>5. CmdlineSound'
  BY <1>1, <1>3, <1>4, CmdlineKept
<1>6. ASSUME NEW r \in Result \ {"OK"}, AfterHash(r)
      PROVE  DataInv'
  <2>1. CASE GotoOut(Top, r)
    BY <1>1, <1>3, <1>4, <1>6, <2>1, ErrorData
  <2>2. CASE NextDesc([Top EXCEPT !.ret = r])
    <3> DEFINE g == [Top EXCEPT !.ret = r]
    <3>1. /\ g \in Frame /\ g.ret # "OK" /\ g.part = Top.part /\ g.loc = Top.loc
          /\ g.flags = Top.flags /\ g.n = Top.n /\ NextDesc(g)
      BY <1>1, <1>6, <2>2 DEF Frame
    <3> HIDE DEF g
    <3> QED BY <1>0, <1>2, <1>3, <1>4, <1>5, <3>1, NextDescData
  <2> QED BY <1>6, <2>1, <2>2 DEF AfterHash
<1>7. CASE HashDescFails
  <2>1. \E r \in {"OOM", "IO", "VERIFICATION"} : AfterHash(r)
    BY <1>7 DEF HashDescFails
  <2> QED BY <1>6, <2>1 DEF Result
<1>8. CASE HashDesc
  <2> DEFINE h == HashVerdict(world, values, D)
  <2>1. AfterHash("OOM") \/ AfterHash(h)
    BY <1>8 DEF HashDesc
  <2>2. CASE AfterHash("OOM")
    BY <1>6, <2>2 DEF Result
  <2>3. CASE AfterHash(h) /\ h # "OK"
    BY <1>6, <2>3, HashVerdictType
  <2>4. CASE AfterHash(h) /\ h = "OK"
    <3>1. NextDesc(Top)
      BY <2>4 DEF AfterHash
    <3>2. values' = IF Requested(world, D.part) /\ Initializes(world, values, D)
                    THEN [values EXCEPT ![D.part] = HashTarget(world, D).body] ELSE values
      BY <1>8, <2>4 DEF HashDesc, Digested, InitialValue
    <3>3. Holds(world, values', D)
      BY <1>1, <1>2, <2>4, <3>2, HashVerified DEF TypeOK, Values
    <3>4. ASSUME NoError', Dependable', Top.ret = "OK"
          PROVE  LoadedVouched' /\ RollbackRecent'
      <4>1. Dependable
        BY <1>3, <3>4 DEF Dependable
      <4>2. NoError
        <5>1. [Top EXCEPT !.n = @ + 1] \in Frame /\ SetTop([Top EXCEPT !.n = @ + 1]) /\ pc' \in FrameStep
          BY <1>1, <3>1 DEF NextDesc, Frame, FrameStep
        <5> QED BY <1>1, <3>4, <5>1, NoErrorTop
      <4>3. RollbackRecent'
        BY <1>3, <1>4, <4>2, RollbackKept
      <4>4. ASSUME NEW i \in DOMAIN slot.loaded
            PROVE  Vouched(world, values', slot.images, slot.loaded[i])
        <5>1. Vouched(world, values, slot.images, slot.loaded[i])
          BY <4>1, <4>2 DEF DataInv, LoadedVouched
        <5> QED BY <1>1, <1>3, <5>1, SlotFacts, VouchedGrows DEF Steady
      <4>5. Requested(world, D.part) => Vouched(world, values', slot.images, D.part)
        <5>1. PICK j \in DOMAIN slot.images : slot.images[j].vb = VB
          BY <1>1
        <5>2. Top.n \in DOMAIN VB.descs /\ VB.descs[Top.n] = D
          <6>1. Top.n \in Nat \ {0} /\ VB.descs \in Seq(Desc)
            BY <1>1 DEF Frame, VBMeta
          <6> QED BY <1>0, <6>1 DEF AtDesc, D
        <5> QED BY <1>1, <1>2, <3>3, <5>1, <5>2 DEF Vouched
      <4>6. LoadedVouched'
        <5> SUFFICES ASSUME NEW i \in DOMAIN slot'.loaded
                     PROVE  Vouched(world, values', slot.images, slot'.loaded[i])
          BY <1>3, <1>4 DEF LoadedVouched
        <5>1. slot.loaded \in Seq(Name)
          BY <1>1, SlotFacts
        <5>2. CASE slot'.loaded = slot.loaded
          BY <4>4, <5>2
        <5>3. CASE Digested /\ slot'.loaded = Append(slot.loaded, D.part)
          <6>1. Requested(world, D.part)
            BY <5>3 DEF Digested
          <6>2. (i \in DOMAIN slot.loaded /\ slot'.loaded[i] = slot.loaded[i]) \/ slot'.loaded[i] = D.part
            BY <1>2, <5>1, <5>3
          <6> QED BY <4>4, <4>5, <6>1, <6>2
        <5> QED BY <1>4, <5>2, <5>3
      <4> QED BY <4>3, <4>6
    <3> QED BY <1>0, <1>1, <1>2, <1>3, <1>4, <1>5, <3>1, <3>4, NextDescData
  <2> QED BY <2>1, <2>2, <2>3, <2>4
<1> QED BY <1>7, <1>8

\* The next descriptor, without a change to the frame's ret, the partitions
\* loaded or the rollback indexes.
LEMMA PlainDescData ==
  ASSUME Inv, DataInv, Steady, blind' = blind, NEW t, AtDesc(t), NextDesc(Top), ~Persistent(D),
         slot'.images = slot.images, slot'.subst = slot.subst,
         slot'.loaded = slot.loaded, slot'.rollback = slot.rollback, CmdlineSound'
  PROVE  DataInv'
<1>0. pc = "desc"
  BY DEF AtDesc
<1>1. pc \in FrameStep /\ TypeOK /\ Top \in Frame
  BY <1>0, AtDescFacts
<1>2. NoError' /\ Top.ret = "OK" => NoError
  <2>1. [Top EXCEPT !.n = @ + 1] \in Frame /\ SetTop([Top EXCEPT !.n = @ + 1]) /\ pc' \in FrameStep
    BY <1>1 DEF NextDesc, Frame, FrameStep
  <2> QED BY <1>1, <2>1, NoErrorTop
<1>3. NoError' /\ Dependable' /\ Top.ret = "OK" => LoadedVouched' /\ RollbackRecent'
  BY <1>1, <1>2, LoadedKept, RollbackKept
<1> QED BY <1>1, <1>3, NextDescData

LEMMA CmdlineData ==
  ASSUME Inv, DataInv, CmdlineDesc \/ PropertyDesc
  PROVE  DataInv'
<1>0. pc = "desc" /\ (AtDesc("cmdline") \/ AtDesc("property"))
  BY DEF CmdlineDesc, PropertyDesc, AtDesc
<1>1. /\ pc \in FrameStep /\ TypeOK /\ stack # <<>> /\ Top \in Frame
      /\ slot.images # <<>>
      /\ ~world.noVbmeta => Top.flags = TopImage.flags /\ ~Disabled
  BY <1>0, AtDescFacts
<1>2. Steady /\ world' = world /\ blind' = blind
  BY <1>1, SteadyCall DEF CmdlineDesc, PropertyDesc, call
<1>3. ~Persistent(D)
  BY <1>0, <1>1, DescType DEF Persistent
<1>4. CASE PropertyDesc
  <2>1. slot' = slot /\ CmdlineSound' /\ NextDesc(Top) /\ AtDesc("property")
    BY <1>1, <1>2, <1>4, CmdlineKept DEF PropertyDesc
  <2> QED BY <1>2, <1>3, <2>1, PlainDescData
<1>5. CASE CmdlineDesc /\ GotoOut(Top, "INVALID_METADATA") /\ slot' = slot
  BY <1>1, <1>2, <1>5, ErrorData DEF Result
<1>6. CASE CmdlineDesc /\ NextDesc(Top) /\ slot' = slot
  <2>1. CmdlineSound'
    BY <1>1, <1>2, <1>6, CmdlineKept
  <2> QED BY <1>2, <1>3, <1>6, <2>1, PlainDescData DEF CmdlineDesc
<1>7. CASE /\ CmdlineDesc /\ NextDesc(Top) /\ AppliesTo(Top.flags, D)
           /\ slot' = [slot EXCEPT !.cmdline =
                         Append(@, [kind |-> "desc", when |-> D.when, part |-> D.part])]
  <2> DEFINE s == [kind |-> "desc", when |-> D.when, part |-> D.part]
  <2>1. s \in Snippet /\ AppliesTo(Top.flags, s)
    <3>1. D \in Desc /\ D.tag = "cmdline"
      BY <1>0, <1>1, <1>7, DescType DEF CmdlineDesc
    <3> QED BY <1>7, <3>1 DEF AppliesTo, Snippet, Desc
  <2>2. /\ slot'.images = slot.images /\ slot'.subst = slot.subst /\ slot'.loaded = slot.loaded
        /\ slot'.rollback = slot.rollback /\ slot'.cmdline = Append(slot.cmdline, s)
        /\ slot.cmdline \in Seq(Snippet)
    BY <1>1, <1>7 DEF TypeOK, SlotData
  <2> HIDE DEF s
  <2>3. CmdlineSound'
    <3>1. TopImage' = TopImage /\ (Disabled' <=> Disabled)
      BY <2>2 DEF TopImage, Disabled
    <3> SUFFICES ASSUME ~world.noVbmeta, NEW i \in DOMAIN slot'.cmdline
                 PROVE  AppliesTo(TopImage.flags, slot'.cmdline[i])
      BY <1>1, <1>2, <3>1 DEF CmdlineSound, CmdlineFitsTopLevel
    <3>2. slot'.cmdline[i] = s \/ (i \in DOMAIN slot.cmdline /\ slot'.cmdline[i] = slot.cmdline[i])
      BY <2>1, <2>2
    <3>3. i \in DOMAIN slot.cmdline => AppliesTo(TopImage.flags, slot.cmdline[i])
      BY <1>1 DEF DataInv, CmdlineSound, CmdlineFitsTopLevel
    <3> QED BY <1>1, <2>1, <3>2, <3>3
  <2> QED BY <1>2, <1>3, <1>7, <2>2, <2>3, PlainDescData DEF CmdlineDesc
<1> QED BY <1>4, <1>5, <1>6, <1>7 DEF CmdlineDesc

LEMMA HashtreeData ==
  ASSUME Inv, DataInv, HashtreeDesc
  PROVE  DataInv'
<1> DEFINE v == HashtreeVerdict(world, values, D)
<1>0. pc = "desc" /\ AtDesc("hashtree")
  BY DEF HashtreeDesc, AtDesc
<1>1. /\ pc \in FrameStep /\ TypeOK /\ stack # <<>> /\ Top \in Frame /\ Len(stack) \in {1, 2}
      /\ slot.images # <<>>
      /\ Len(stack) = 1 => Top.expect = NoKey
      /\ Len(stack) = 2 => Top.expect # NoKey
  BY <1>0, AtDescFacts
<1>2. Steady /\ world' = world /\ blind' = blind /\ values' = values
  BY <1>1, SteadyCall DEF HashtreeDesc, call, store
<1>3. v \in Result /\ "INVALID_METADATA" \in Result
  BY HashVerdictType DEF Result
<1>4. CASE v # "OK" /\ GotoOut(Top, v) /\ slot' = slot
  BY <1>1, <1>2, <1>3, <1>4, ErrorData
<1>5. CASE GotoOut(Top, "INVALID_METADATA") /\ slot' = slot
  BY <1>1, <1>2, <1>3, <1>5, ErrorData
<1>6. CASE ~Persistent(D) /\ NextDesc(Top) /\ slot' = slot
  <2>1. CmdlineSound'
    BY <1>1, <1>2, <1>6, CmdlineKept
  <2> QED BY <1>0, <1>2, <1>6, <2>1, PlainDescData
<1>7. CASE /\ v = "OK" /\ Persistent(D) /\ NextDesc([Top EXCEPT !.ret = "OK"])
           /\ slot' = IF Top.expect = NoKey THEN [slot EXCEPT !.subst = @ + 1] ELSE slot
  <2> DEFINE g == [Top EXCEPT !.ret = "OK"]
  <2>1. /\ g \in Frame /\ g.part = Top.part /\ g.loc = Top.loc
        /\ g.flags = Top.flags /\ g.n = Top.n /\ NextDesc(g)
    BY <1>1, <1>7 DEF Frame, Result
  <2> HIDE DEF g
  <2>2. /\ slot'.images = slot.images /\ slot'.cmdline = slot.cmdline
        /\ Len(stack) = 2 => slot'.subst = slot.subst
        /\ Len(stack) = 1 => slot'.subst = slot.subst + 1
    BY <1>1, <1>7 DEF TypeOK, SlotData
  <2>3. values'[D.part] # NoDigest
    BY <1>2, <1>7 DEF HashtreeVerdict, Persistent
  <2>4. ~Dependable'
    <3>1. Top.n \in DOMAIN VBMetaIn(world, Top.part).descs /\ Persistent(VBMetaIn(world, Top.part).descs[Top.n])
      <4>1. Top.n \in Nat \ {0} /\ VB.descs \in Seq(Desc)
        BY <1>1, TopType DEF Frame, VBMeta
      <4> QED BY <1>0, <1>7, <4>1 DEF AtDesc, D, VB
    <3>2. Top.part \in Name
      BY <1>1 DEF Frame
    <3> QED BY <1>2, <3>1, <3>2 DEF Dependable, UsesPersistentRoot
  <2>5. CmdlineSound'
    BY <1>1, <1>2, <2>2, CmdlineKept
  <2> QED BY <1>0, <1>2, <1>7, <2>1, <2>2, <2>3, <2>4, <2>5, NextDescData
<1> HIDE DEF v
<1>8. \/ v # "OK" /\ GotoOut(Top, v) /\ slot' = slot
      \/ GotoOut(Top, "INVALID_METADATA") /\ slot' = slot
      \/ ~Persistent(D) /\ NextDesc(Top) /\ slot' = slot
      \/ /\ v = "OK" /\ Persistent(D) /\ NextDesc([Top EXCEPT !.ret = "OK"])
         /\ slot' = IF Top.expect = NoKey THEN [slot EXCEPT !.subst = @ + 1] ELSE slot
  BY DEF HashtreeDesc, v
<1> QED BY <1>4, <1>5, <1>6, <1>7, <1>8

LEMMA FailingData ==
  ASSUME Inv, DataInv, CmdlineDescFails \/ \E r \in {"OOM", "IO"} : CallbackFails(r)
  PROVE  DataInv'
<1>0. PICK r \in {"OOM", "IO"} : GotoOut(Top, r)
  BY DEF CmdlineDescFails, CallbackFails
<1>1. pc \in FrameStep
  BY DEF CmdlineDescFails, CallbackFails, CallsOut, AtDesc, FrameStep
<1>2. TypeOK /\ Top \in Frame
  BY <1>1, FrameFacts
<1>3. Steady /\ slot' = slot
  BY <1>2, SteadyCall DEF CmdlineDescFails, CallbackFails
<1>4. Refused(r) /\ r \in Result /\ r # "OK"
  BY DEF Refused, Continuable, Result
<1> QED BY <1>0, <1>1, <1>2, <1>3, <1>4, ErrorData

LEMMA FinishData ==
  ASSUME Inv, DataInv, FinishVBMeta
  PROVE  DataInv'
<1>0. pc = "desc" /\ Top.n > Len(VB.descs)
  BY DEF FinishVBMeta
<1>1. /\ pc \in FrameStep /\ TypeOK /\ stack # <<>> /\ Top \in Frame /\ Len(stack) \in {1, 2}
      /\ VB = VBOf(world, Top) /\ VB \in VBMeta /\ slot.images # <<>>
      /\ Len(stack) = 1 => Top = stack[1]
      /\ ~world.noVbmeta => TopImage = VBOf(world, stack[1])
  BY <1>0, AtDescFacts
<1>2. Steady /\ world' = world /\ blind' = blind /\ values' = values
  BY <1>1, SteadyCall DEF FinishVBMeta, call, store
<1>3. CASE GotoOut(Top, "INVALID_METADATA") /\ slot' = slot
  BY <1>1, <1>2, <1>3, ErrorData DEF Result
<1>4. CASE /\ Top.loc < MAX_LOCATIONS /\ pc' = "return" /\ stack' = stack
           /\ slot' = [slot EXCEPT !.rollback[Top.loc] = VB.rollback]
  <2>0. Top.loc \in 0 .. MAX_LOCATIONS - 1 /\ VB.rollback \in Nat
    BY <1>1, <1>4, LimitAssumption DEF Frame, VBMeta
  <2>1. /\ slot'.images = slot.images /\ slot'.cmdline = slot.cmdline /\ slot'.subst = slot.subst
        /\ slot'.loaded = slot.loaded
        /\ slot'.rollback = [slot.rollback EXCEPT ![Top.loc] = VB.rollback]
        /\ slot.rollback \in [0 .. MAX_LOCATIONS - 1 -> Nat]
    BY <1>1, <1>4 DEF TypeOK, SlotData
  <2>2. SetTop(Top) /\ pc' \in FrameStep
    BY <1>1, <1>4, SetTopSame DEF FrameStep
  <2>3. Arrives(Top) /\ Leaves(Top)
    BY <1>1, <1>4, <2>1 DEF Arrives, Leaves, TopData, Unrecorded, Found, FlagsRead, Recorded
  <2>4. Counts(Top)
    <3> SUFFICES ASSUME ~blind, ~world.noVbmeta, Len(stack) = 1
                 PROVE  Counted(slot.subst, values, VB, Len(VB.descs) + 1)
      BY <1>1, <1>2, <1>4, <2>1 DEF Counts, TopImage
    <3>1. Counted(slot.subst, values, VB, Top.n)
      BY <1>0, <1>1 DEF DataInv, RootsCounted, TopStage
    <3>2. Roots(VB, Top.n) = Roots(VB, Len(VB.descs) + 1)
      <4>1. VB.descs \in Seq(Desc) /\ Top.n \in Nat
        BY <1>1 DEF VBMeta, Frame
      <4> QED BY <1>0, <4>1 DEF Roots
    <3> QED BY <3>1, <3>2 DEF Counted
  <2>5. NoError' = NoError
    BY <1>1, <1>4, <2>2 DEF NoError
  <2>6. ImagesKnown' /\ CmdlineSound' /\ LoadedVouched'
    BY <1>1, <1>2, <2>1, <2>5, ImagesKept, CmdlineKept, LoadedKept
  <2>7. RollbackRecent'
    <3> SUFFICES ASSUME Dependable, NoError, ~world.noVbmeta, NEW l \in 0 .. MAX_LOCATIONS - 1,
                        l \in Location, slot'.rollback[l] # 0
                 PROVE  slot'.rollback[l] >= world.stored[l]
      BY <1>2, <2>5 DEF RollbackRecent, Dependable
    <3>1. CASE l = Top.loc
      <4>1. Top.ret = "OK"
        BY <1>1 DEF NoError, Top
      <4>2. Checked(world, Top, "desc")
        BY <1>0, <1>1, <4>1, TopClean DEF Clean
      <4>3. VB.rollback >= world.stored[Top.loc]
        BY <1>1, <4>2 DEF Checked, Keyed, Recent
      <4> QED BY <2>0, <2>1, <3>1, <4>3
    <3>2. CASE l # Top.loc
      <4>1. slot'.rollback[l] = slot.rollback[l]
        BY <2>1, <3>2
      <4> QED BY <4>1 DEF DataInv, RollbackRecent
    <3> QED BY <3>1, <3>2
  <2> QED BY <1>1, <1>2, <2>2, <2>3, <2>4, <2>6, <2>7, InnerData
<1>5. Top.loc \in Nat /\ MAX_LOCATIONS \in Nat
  BY <1>1, LimitAssumption DEF Frame
<1> QED BY <1>3, <1>4, <1>5 DEF FinishVBMeta
-----------------------------------------------------------------------------
(***************************************************************************)
(* Calling and returning.                                                  *)
(***************************************************************************)
LEMMA ChainData ==
  ASSUME Inv, DataInv, ChainDesc
  PROVE  DataInv'
<1>0. pc = "desc" /\ AtDesc("chain")
  BY DEF ChainDesc, AtDesc
<1>1. /\ pc \in FrameStep /\ TypeOK /\ stack \in Seq(Frame) /\ Top \in Frame /\ slot.images # <<>>
      /\ IsMain => Len(stack) = 1 /\ ~world.noVbmeta /\ Top = stack[1] /\ TopData(world, Top, "desc", slot)
  BY <1>0, AtDescFacts, FrameFacts
<1>2. Steady /\ world' = world /\ blind' = blind /\ slot' = slot
  BY <1>1, SteadyCall DEF ChainDesc, call, store
<1>3. CASE GotoOut(Top, "INVALID_METADATA")
  BY <1>1, <1>2, <1>3, ErrorData DEF Result
<1>4. CASE /\ IsMain /\ pc' = "locate"
           /\ stack' = Append(stack, NewFrame(D.part, D.loc, D.key, Top.flags))
  <2> DEFINE g == NewFrame(D.part, D.loc, D.key, Top.flags)
  <2>1. g.flags = Top.flags
    BY DEF NewFrame
  <2>2. stack' = Append(stack, g)
    BY <1>4
  <2> HIDE DEF g
  <2>3. /\ Len(stack') = 2 /\ stack'[1] = Top /\ stack'[2] = g
        /\ 1 \in DOMAIN stack' /\ DOMAIN stack = {1} /\ stack[1] = Top
    <3>1. Len(stack) = 1 /\ stack[1] = Top /\ g \in Frame
      <4>1. D \in Desc /\ D.tag = "chain"
        BY <1>0, <1>1, AtDescFacts, DescType
      <4>2. D.part \in Name /\ D.loc \in Location /\ D.key \in Key /\ Top.flags \in SUBSET Flag
        BY <1>1, <4>1 DEF Desc, Frame
      <4> QED BY <1>1, <1>4, <4>2, NewFrameType DEF g
    <3>2. DOMAIN stack = 1 .. 1
      BY <1>1, <3>1
    <3>3. stack' = Append(stack, g) /\ stack \in Seq(Frame)
      BY <1>1, <2>2
    <3>4. Len(stack') = 2 /\ stack' \in Seq(Frame) /\ stack'[2] = g
      <4>1. /\ stack' \in Seq(Frame) /\ Len(stack') = Len(stack) + 1
            /\ stack'[Len(stack) + 1] = g
        BY <3>1, <3>3, AppendProperties
      <4> QED BY <3>1, <4>1
    <3>5. DOMAIN stack' = 1 .. 2
      BY <3>4
    <3>6. stack'[1] = stack[1]
      BY <3>1, <3>3, AppendProperties
    <3> QED BY <3>1, <3>2, <3>4, <3>5, <3>6
  <2>4. pc' \in FrameStep /\ TopStage' = "desc" /\ TopStage = "desc" /\ ~out /\ out' = out
    BY <1>0, <1>1, <1>2, <1>4, <2>3 DEF FrameStep, TopStage, DataInv, Ending, Steady
  <2>5. FrameData'
    BY <1>1, <1>2, <1>4, <2>1, <2>3, <2>4 DEF FrameData, FlagsRead, Recorded
  <2>6. NothingRecorded' /\ Ending' /\ EioIffMarked'
    BY <1>1, <1>2, <1>4, <2>4 DEF NothingRecorded, Ending, EioIffMarked
  <2>7. NoError' => NoError
    BY <1>1, <2>3, <2>4 DEF NoError
  <2>8. ImagesKnown' /\ CmdlineSound' /\ LoadedVouched' /\ RollbackRecent'
    BY <1>1, <1>2, <2>7, ImagesKept, CmdlineKept, LoadedKept, RollbackKept
  <2>9. RootsCounted'
    <3>1. values' = values
      BY DEF ChainDesc, store
    <3> QED BY <1>1, <1>2, <1>4, <2>3, <2>4, <3>1 DEF RootsCounted, DataInv
  <2> QED BY <2>5, <2>6, <2>8, <2>9 DEF DataInv
<1> QED BY <1>3, <1>4 DEF ChainDesc

LEMMA ReturnToChainData ==
  ASSUME Inv, DataInv, ReturnToChain
  PROVE  DataInv'
<1> DEFINE sub == Top.ret
           caller == stack[1]
           f == IF sub # "OK" THEN [caller EXCEPT !.ret = sub] ELSE caller
           g == IF sub \in Continuable THEN [f EXCEPT !.n = @ + 1] ELSE f
<1>0. pc = "return" /\ Len(stack) > 1 /\ pc \in FrameStep
  BY DEF ReturnToChain, FrameStep
<1>1. /\ TypeOK /\ stack \in Seq(Frame) /\ Len(stack) = 2 /\ caller \in Frame /\ Top \in Frame
      /\ Top = stack[2] /\ ~world.noVbmeta /\ Outermost(world, nreq, caller)
  <2>1. Len(stack) = 2
    <3>1. Len(stack) = 1 \/ Len(stack) = 2
      BY <1>0, FrameFacts
    <3> QED BY <1>0, <3>1
  <2> QED BY <1>0, <2>1, FrameFacts
<1>2. Steady /\ world' = world /\ blind' = blind /\ slot' = slot /\ values' = values
  BY <1>1, SteadyCall DEF ReturnToChain, call, store
<1>3. /\ stack' = [SubSeq(stack, 1, 1) EXCEPT ![1] = g]
      /\ pc' = IF sub \in Continuable THEN "desc" ELSE "return"
  BY <1>1 DEF ReturnToChain
<1>4. f \in Frame /\ f.part = caller.part /\ f.loc = caller.loc /\ f.flags = caller.flags /\ f.n = caller.n
  BY <1>1 DEF Frame
<1>5. f.ret = "OK" => Top.ret = "OK" /\ caller.ret = "OK"
  BY <1>1 DEF Frame
<1>5a. Top.ret # "OK" => f.ret = Top.ret
  BY <1>1 DEF Frame
<1> HIDE DEF f
<1>6. /\ g \in Frame /\ g.part = caller.part /\ g.loc = caller.loc /\ g.flags = caller.flags
      /\ g.ret = f.ret
      /\ sub \in Continuable => g.n = caller.n + 1
  BY <1>4 DEF Frame
<1> HIDE DEF g
<1>7. Len(stack') = 1 /\ stack'[1] = g /\ Top' = g /\ DOMAIN stack' = {1}
  <2>1. SubSeq(stack, 1, 1) \in Seq(Frame) /\ Len(SubSeq(stack, 1, 1)) = 1
    BY <1>1
  <2>2. stack' \in Seq(Frame) /\ Len(stack') = 1 /\ stack'[1] = g
    BY <1>3, <1>6, <2>1
  <2>3. DOMAIN stack' = 1 .. 1
    BY <2>2
  <2> QED BY <2>2, <2>3 DEF Top
<1>8. TopStage = "desc" /\ TopData(world, caller, "desc", slot) /\ slot.images # <<>>
  BY <1>0, <1>1, DataBefore DEF TopStage
<1>9. VBOf(world, g) = VBOf(world, caller) /\ TopImage = VBOf(world, caller)
  BY <1>0, <1>1, <1>6, <1>8, TopImageIs DEF VBOf, Recorded
<1>10. /\ VB' = VBOf(world, caller) /\ IsMain' /\ TopStage' = pc' /\ pc' \in FrameStep
       /\ pc' \in {"desc", "return"} /\ ~out /\ out' = out
  <2>1. g.loc = 0
    BY <1>1, <1>6 DEF Outermost
  <2>2. pc' \in FrameStep /\ pc' \in {"desc", "return"}
    BY <1>3 DEF FrameStep
  <2>3. ~out /\ out' = out
    BY <1>0 DEF DataInv, Ending, ReturnToChain
  <2> QED BY <1>1, <1>2, <1>7, <1>9, <2>1, <2>2, <2>3 DEF VB, VBOf, IsMain, TopStage
<1>11. FrameData'
  <2>1. TopData(world, g, pc', slot)
    BY <1>6, <1>8, <1>9, <1>10 DEF TopData, Unrecorded, Found, FlagsRead, Recorded
  <2>2. \E j \in DOMAIN slot.images : slot.images[j].vb = VBOf(world, caller)
    BY <1>1, <1>8, <1>9, SlotFacts DEF TopImage
  <2> QED BY <1>2, <1>7, <1>10, <2>1, <2>2 DEF FrameData
<1>12. NothingRecorded' /\ Ending' /\ EioIffMarked'
  BY <1>2, <1>8, <1>10 DEF NothingRecorded, Ending, EioIffMarked
<1>13. NoError' => NoError
  <2>1. NoError' => g.ret = "OK"
    BY <1>7, <1>10 DEF NoError
  <2>2. DOMAIN stack = {1, 2}
    BY <1>1
  <2> QED BY <1>0, <1>1, <1>5, <1>6, <2>1, <2>2 DEF NoError
<1>14. ImagesKnown' /\ CmdlineSound' /\ LoadedVouched' /\ RollbackRecent'
  BY <1>0, <1>1, <1>2, <1>13, ImagesKept, CmdlineKept, LoadedKept, RollbackKept
<1>15. RootsCounted'
  <2> SUFFICES ASSUME ~blind
               PROVE  /\ pc' = "desc" => Counted(slot.subst, values, VBOf(world, caller), g.n)
                      /\ pc' = "return" => g.ret # "OK"
    BY <1>2, <1>7, <1>9, <1>10 DEF RootsCounted
  <2>1. pc' = "return" => g.ret # "OK"
    BY <1>3, <1>5a, <1>6 DEF Continuable
  <2>2. Counted(slot.subst, values, VBOf(world, caller), caller.n)
    BY <1>0, <1>1, <1>8 DEF DataInv, RootsCounted
  <2>3. /\ caller.n \in DOMAIN VBOf(world, caller).descs
        /\ VBOf(world, caller).descs[caller.n].tag = "chain"
    BY <1>0, <1>1 DEF Inv, StackShape, CalledBy
  <2>4. VBOf(world, caller) \in VBMeta /\ caller.n \in 1 .. Len(VBOf(world, caller).descs) /\ slot.subst \in Nat
    BY <1>1, <2>3, SlotFacts, FrameDescs
  <2>5. Counted(slot.subst, values, VBOf(world, caller), caller.n + 1)
    BY <2>2, <2>3, <2>4, CountedStep DEF Persistent
  <2> QED BY <1>3, <1>6, <2>1, <2>5
<1> QED BY <1>11, <1>12, <1>14, <1>15 DEF DataInv

LEMMA ReturnToSlotData ==
  ASSUME Inv, DataInv, ReturnToSlot
  PROVE  DataInv'
<1>0. pc = "return" /\ pc \in FrameStep /\ Len(stack) = 1 /\ pc' = "next" /\ ret' = Top.ret
  BY DEF ReturnToSlot, FrameStep
<1>1. TypeOK /\ world' = world /\ blind' = blind /\ slot' = slot /\ values' = values /\ out' = out /\ ~out
  BY <1>0, FrameFacts DEF ReturnToSlot, call, store, DataInv, Ending
<1>2. DOMAIN stack = {1} /\ Top = stack[1]
  BY <1>0, FrameFacts
<1>3. FrameData' /\ Ending' /\ EioIffMarked'
  BY <1>0, <1>1 DEF FrameData, FrameStep, Ending, EioIffMarked
<1>4. NothingRecorded'
  BY <1>0, <1>1 DEF DataInv, NothingRecorded, Refused
<1>5. ImagesKnown' /\ CmdlineSound'
  BY <1>0, <1>1, ImagesKept, CmdlineKept
<1>6. NoError' => NoError
  BY <1>0, <1>2 DEF NoError, FrameStep
<1>7. LoadedVouched' /\ RollbackRecent'
  BY <1>1, <1>6 DEF DataInv, LoadedVouched, RollbackRecent, Dependable
<1>8. RootsCounted'
  BY <1>0, <1>1 DEF DataInv, RootsCounted, FrameStep, TopImage, Disabled
<1> QED BY <1>3, <1>4, <1>5, <1>7, <1>8 DEF DataInv

LEMMA NextRequestedData ==
  ASSUME Inv, DataInv, NextRequested
  PROVE  DataInv'
<1> DEFINE f == NewFrame(world.requested[nreq + 1], 0, NoKey, {})
<1>0. /\ pc = "next" /\ pc' = "locate" /\ ~Bails /\ world.noVbmeta /\ stack' = <<f>>
      /\ pc \notin FrameStep /\ pc' \in FrameStep
  BY DEF NextRequested, FrameStep
<1>1. world' = world /\ blind' = blind /\ slot' = slot /\ values' = values /\ out' = out /\ ~out
  BY <1>0 DEF NextRequested, store, DataInv, Ending
<1> HIDE DEF f
<1>2. Len(stack') = 1
  BY <1>0
<1>3. FrameData' /\ Ending' /\ EioIffMarked' /\ NothingRecorded' /\ RootsCounted'
  BY <1>0, <1>1, <1>2 DEF FrameData, FlagsRead, Recorded, Ending, EioIffMarked, NothingRecorded, RootsCounted
<1>4. ImagesKnown' /\ CmdlineSound'
  BY <1>0, <1>1, ImagesKept, CmdlineKept
<1>5. Dependable' => Dependable /\ NoError
  BY <1>0, <1>1 DEF Dependable, NoError, Bails
<1>6. LoadedVouched' /\ RollbackRecent'
  BY <1>0, <1>1, <1>5 DEF DataInv, LoadedVouched, RollbackRecent
<1> QED BY <1>3, <1>4, <1>6 DEF DataInv
-----------------------------------------------------------------------------
(***************************************************************************)
(* The rest of avb_slot_verify(), and the next boot.                       *)
(***************************************************************************)
LEMMA FailData ==
  ASSUME NEW r, r # "OK", Fail(r), ~out
  PROVE  DataInv'
<1>1. pc' = "done" /\ ret' # "OK" /\ ~out' /\ slot'.images = <<>>
  BY DEF Fail, EmptySlot
<1>2. FrameData' /\ ImagesKnown' /\ NothingRecorded' /\ Ending'
  BY <1>1 DEF FrameData, FrameStep, ImagesKnown, NothingRecorded, Ending
<1>3. CmdlineSound' /\ LoadedVouched' /\ RollbackRecent' /\ RootsCounted' /\ EioIffMarked'
  BY <1>1 DEF CmdlineSound, CmdlineFitsTopLevel, LoadedVouched, RollbackRecent, RootsCounted,
              EioIffMarked, NoError, FrameStep
<1> QED BY <1>2, <1>3 DEF DataInv

LEMMA VBMetasDoneData ==
  ASSUME Inv, DataInv, VBMetasDone
  PROVE  DataInv'
<1>0. pc = "next" /\ ~out
  BY DEF VBMetasDone, DataInv, Ending
<1>1. CASE (Bails \/ ret \notin Continuable) /\ Fail(ret)
  BY <1>0, <1>1, FailData DEF Bails, Continuable
<1>2. CASE /\ ~Bails /\ ret \in Continuable /\ pc' = "mangle"
           /\ UNCHANGED <<stack, slot, ret, out>>
  <2>1. slot' = slot /\ ret' = ret /\ out' = out /\ world' = world /\ blind' = blind /\ values' = values
    BY <1>2 DEF VBMetasDone, call, store
  <2>2. slot.images # <<>>
    BY <1>0, <1>2 DEF DataInv, NothingRecorded, Refused, Bails
  <2>3. FrameData' /\ NothingRecorded' /\ Ending' /\ EioIffMarked'
    BY <1>0, <1>2, <2>1, <2>2 DEF FrameData, FrameStep, NothingRecorded, Ending, EioIffMarked, Bails
  <2>4. ImagesKnown' /\ CmdlineSound'
    BY <1>0, <2>1, ImagesKept, CmdlineKept
  <2>5. NoError' = NoError
    BY <1>0, <1>2, <2>1 DEF NoError, FrameStep
  <2>6. LoadedVouched' /\ RollbackRecent'
    BY <2>1, <2>5 DEF DataInv, LoadedVouched, RollbackRecent, Dependable
  <2>7. RootsCounted'
    BY <1>0, <1>2, <2>1 DEF DataInv, RootsCounted, FrameStep, TopImage, Disabled
  <2> QED BY <2>3, <2>4, <2>6, <2>7 DEF DataInv
<1> QED BY <1>1, <1>2 DEF VBMetasDone

\* Past the images only the command line, the mode and the mark change.
LEMMA TailData ==
  ASSUME DataInv, pc \in {"mangle", "options", "subst"}, pc' \in {"options", "subst", "done"},
         UNCHANGED <<world, values, blind, ret>>,
         slot'.images = slot.images, slot'.loaded = slot.loaded, slot'.rollback = slot.rollback,
         slot'.subst = slot.subst,
         out' <=> pc' = "done", pc' = "options" => slot'.mode # "managed",
         CmdlineFitsTopLevel', EioIffMarked'
  PROVE  DataInv'
<1>1. slot.images # <<>> /\ ret \in Continuable /\ ~Bails
  BY DEF DataInv, NothingRecorded, Ending
<1>2. FrameData' /\ NothingRecorded' /\ Ending'
  BY <1>1 DEF FrameData, FrameStep, NothingRecorded, Ending, Bails
<1>3. ImagesKnown' /\ CmdlineSound'
  BY ImagesKept DEF CmdlineSound, FrameStep
<1>4. NoError' = NoError
  BY DEF NoError, FrameStep
<1>5. LoadedVouched' /\ RollbackRecent'
  BY <1>4 DEF DataInv, LoadedVouched, RollbackRecent, Dependable
<1>6. RootsCounted'
  BY DEF DataInv, RootsCounted, FrameStep, TopImage, Disabled
<1> QED BY <1>2, <1>3, <1>5, <1>6 DEF DataInv

LEMMA AlwaysApplies ==
  ASSUME NEW flags, NEW s, s.when = "always"
  PROVE  AppliesTo(flags, s)
BY DEF AppliesTo

LEMMA MangleData ==
  ASSUME Inv, DataInv, MangleCmdline \/ MangleCmdlineFails
  PROVE  DataInv'
<1>0. pc = "mangle" /\ ~out /\ TypeOK /\ slot.images # <<>>
  BY DEF MangleCmdline, MangleCmdlineFails, DataInv, Ending, NothingRecorded, Inv, TypeInv
<1>1. world' = world /\ values' = values /\ blind' = blind
  BY DEF MangleCmdline, MangleCmdlineFails, call, store
<1>2. CASE Fail("OOM") \/ Fail("IO")
  BY <1>0, <1>2, FailData
<1>3. CASE /\ Disabled /\ pc' = "subst" /\ UNCHANGED <<ret, out>>
           /\ \E c \in {<<>>, <<RootSnippet>>} : slot' = [slot EXCEPT !.cmdline = c]
  <2>1. PICK c \in {<<>>, <<RootSnippet>>} : slot' = [slot EXCEPT !.cmdline = c]
    BY <1>3
  <2>2. /\ slot'.images = slot.images /\ slot'.loaded = slot.loaded /\ slot'.rollback = slot.rollback
        /\ slot'.subst = slot.subst /\ slot'.cmdline = c
    BY <1>0, <2>1 DEF TypeOK, SlotData
  <2>3. \A i \in DOMAIN c : c[i].when = "always"
    BY DEF RootSnippet
  <2>4. CmdlineFitsTopLevel'
    BY <2>2, <2>3, AlwaysApplies DEF CmdlineFitsTopLevel
  <2>5. EioIffMarked'
    BY <1>3, <2>2 DEF EioIffMarked, Disabled, TopImage
  <2> QED BY <1>0, <1>1, <1>3, <2>2, <2>4, <2>5, TailData
<1>4. CASE MangleCmdline /\ ~Disabled
  <2>1. /\ pc' = "options" /\ slot' = [slot EXCEPT !.mode = ResolvedMode]
        /\ mark' = IF world.mode = "managed" THEN Marked ELSE mark
        /\ ret' = ret /\ out' = out
    BY <1>4 DEF MangleCmdline
  <2>2. /\ slot'.images = slot.images /\ slot'.loaded = slot.loaded /\ slot'.rollback = slot.rollback
        /\ slot'.subst = slot.subst /\ slot'.cmdline = slot.cmdline /\ slot'.mode = ResolvedMode
    BY <1>0, <2>1 DEF TypeOK, SlotData
  <2>3. CmdlineFitsTopLevel'
    BY <1>1, <2>2 DEF DataInv, CmdlineSound, CmdlineFitsTopLevel, TopImage
  <2>4. ResolvedMode # "managed"
    BY DEF ResolvedMode
  <2>5. EioIffMarked'
    <3>1. VBMetaDigest' = VBMetaDigest
      BY <2>2 DEF VBMetaDigest
    <3>2. VBMetaDigest # <<>>
      <4>1. DOMAIN VBMetaDigest = DOMAIN slot.images /\ 1 \in DOMAIN slot.images
        BY <1>0, SlotFacts DEF VBMetaDigest
      <4>2. DOMAIN VBMetaDigest # {}
        BY <4>1
      <4> QED BY <4>2
    <3> SUFFICES ASSUME world.mode = "managed"
                 PROVE  ResolvedMode = "eio" <=> Marked = VBMetaDigest
      BY <1>1, <2>1, <2>2, <3>1 DEF EioIffMarked
    <3> HIDE DEF VBMetaDigest
    <3> QED BY <3>2 DEF ResolvedMode, Marked
  <2> QED BY <1>0, <1>1, <2>1, <2>2, <2>3, <2>4, <2>5, TailData
<1> QED BY <1>2, <1>3, <1>4 DEF MangleCmdline, MangleCmdlineFails

LEMMA OptionsData ==
  ASSUME Inv, DataInv, AppendOptions
  PROVE  DataInv'
<1> DEFINE s == [kind |-> "option", when |-> "always",
                 part |-> IF world.noVbmeta THEN NoName ELSE "vbmeta"]
<1>0. pc = "options" /\ pc' = "subst" /\ ~out /\ TypeOK /\ slot' = [slot EXCEPT !.cmdline = Append(@, s)]
  BY DEF AppendOptions, DataInv, Ending, Inv, TypeInv
<1>1. world' = world /\ values' = values /\ blind' = blind /\ ret' = ret /\ out' = out /\ mark' = mark
  BY DEF AppendOptions, call, store
<1>2. s \in Snippet /\ s.when = "always"
  BY DEF Snippet, GuidName, When
<1>3. /\ slot'.images = slot.images /\ slot'.loaded = slot.loaded /\ slot'.rollback = slot.rollback
      /\ slot'.subst = slot.subst /\ slot'.cmdline = Append(slot.cmdline, s) /\ slot'.mode = slot.mode
      /\ slot.cmdline \in Seq(Snippet)
  BY <1>0 DEF TypeOK, SlotData
<1> HIDE DEF s
<1>4. CmdlineFitsTopLevel'
  <2> SUFFICES ASSUME slot.images # <<>>, ~world.noVbmeta, NEW i \in DOMAIN slot'.cmdline
               PROVE  AppliesTo(TopImage.flags, slot'.cmdline[i])
    BY <1>1, <1>3 DEF CmdlineFitsTopLevel, TopImage
  <2>1. slot'.cmdline[i] = s \/ (i \in DOMAIN slot.cmdline /\ slot'.cmdline[i] = slot.cmdline[i])
    BY <1>2, <1>3
  <2>2. i \in DOMAIN slot.cmdline => AppliesTo(TopImage.flags, slot.cmdline[i])
    BY DEF DataInv, CmdlineSound, CmdlineFitsTopLevel
  <2> QED BY <1>2, <2>1, <2>2, AlwaysApplies
<1>5. EioIffMarked'
  BY <1>0, <1>1, <1>3 DEF DataInv, EioIffMarked, Disabled, TopImage, VBMetaDigest
<1> QED BY <1>0, <1>1, <1>3, <1>4, <1>5, TailData

LEMMA SubstData ==
  ASSUME Inv, DataInv, SubstCmdline \/ \E r \in {"OOM", "IO"} : SlotCallbackFails(r)
  PROVE  DataInv'
<1>0. pc \in {"options", "subst"} /\ ~out
  BY DEF SubstCmdline, SlotCallbackFails, DataInv, Ending
<1>1. CASE \E r \in {"OOM", "IO"} : Fail(r)
  BY <1>0, <1>1, FailData
<1>2. CASE SubstCmdline /\ pc' = "done" /\ out' = TRUE /\ UNCHANGED <<stack, slot, ret>>
  <2>1. /\ world' = world /\ values' = values /\ blind' = blind /\ ret' = ret /\ mark' = mark
        /\ slot' = slot
    BY <1>2 DEF SubstCmdline, call, store
  <2>2. CmdlineFitsTopLevel' /\ EioIffMarked'
    BY <1>2, <2>1 DEF DataInv, CmdlineSound, CmdlineFitsTopLevel, TopImage, EioIffMarked
  <2> QED BY <1>0, <1>2, <2>1, <2>2, TailData
<1> QED BY <1>1, <1>2 DEF SubstCmdline, SlotCallbackFails

LEMMA BootData ==
  ASSUME NEW w, Boot(w) \/ BootFails(w)
  PROVE  DataInv'
<1>1. /\ world' = w /\ ~out' /\ slot' = EmptySlot
      /\ \/ pc' \in {"done", "abort"} /\ ret' # "OK"
         \/ /\ pc' = "locate"
            /\ stack' = <<NewFrame(IF w.noVbmeta THEN w.requested[1] ELSE "vbmeta", 0, NoKey, {})>>
  BY DEF Boot, BootFails, Ready
<1>2. /\ slot'.images = <<>> /\ slot'.cmdline = <<>> /\ slot'.loaded = <<>> /\ slot'.subst = 0
      /\ slot'.rollback = [i \in 0 .. MAX_LOCATIONS - 1 |-> 0]
  BY <1>1 DEF EmptySlot
<1>3. ImagesKnown' /\ CmdlineSound'
  BY <1>2 DEF ImagesKnown, CmdlineSound, CmdlineFitsTopLevel
<1>4. NothingRecorded' /\ Ending' /\ EioIffMarked'
  BY <1>1 DEF NothingRecorded, Ending, EioIffMarked
<1>5. LoadedVouched' /\ RollbackRecent'
  BY <1>2 DEF LoadedVouched, RollbackRecent
<1>6. CASE pc' \in {"done", "abort"}
  <2>1. FrameData' /\ RootsCounted'
    BY <1>1, <1>6 DEF FrameData, FrameStep, RootsCounted
  <2> QED BY <1>3, <1>4, <1>5, <2>1 DEF DataInv
<1>7. CASE /\ pc' = "locate"
           /\ stack' = <<NewFrame(IF w.noVbmeta THEN w.requested[1] ELSE "vbmeta", 0, NoKey, {})>>
  <2>1. Len(stack') = 1 /\ stack'[1].n = 1 /\ stack'[1].ret = "OK"
    BY <1>7 DEF NewFrame
  <2>2. TopStage' = "locate"
    BY <1>7, <2>1 DEF TopStage
  <2>3. FrameData'
    BY <1>2, <1>7, <2>1, <2>2 DEF FrameData, TopData, Unrecorded, Found, FlagsRead, Recorded
  <2>4. RootsCounted'
    BY <1>1, <1>7, <2>2 DEF RootsCounted
  <2> QED BY <1>3, <1>4, <1>5, <2>3, <2>4 DEF DataInv
<1> QED BY <1>1, <1>6, <1>7

LEMMA InitData == Init => DataInv
<1> SUFFICES ASSUME Init PROVE DataInv
  OBVIOUS
<1>1. pc = "idle" /\ ~out /\ slot.images = <<>> /\ slot.loaded = <<>>
      /\ slot.rollback = [i \in 0 .. MAX_LOCATIONS - 1 |-> 0]
  BY DEF Init, EmptySlot
<1> QED BY <1>1 DEF DataInv, FrameData, FrameStep, ImagesKnown, NothingRecorded, Ending, CmdlineSound,
                    CmdlineFitsTopLevel, LoadedVouched, RollbackRecent, RootsCounted, EioIffMarked

LEMMA NextData == Inv /\ DataInv /\ [Next]_vars => DataInv'
<1> SUFFICES ASSUME Inv, DataInv, [Next]_vars PROVE DataInv'
  OBVIOUS
<1>1. CASE UNCHANGED vars
  BY <1>1 DEF vars, DataInv, FrameData, IsMain, VB, Top, TopStage, ImagesKnown, NothingRecorded, Refused,
              Ending, Bails, CmdlineSound, CmdlineFitsTopLevel, TopImage, Disabled, LoadedVouched, NoError,
              Dependable, RollbackRecent, RootsCounted, EioIffMarked, VBMetaDigest
<1>2. CASE Step
  BY <1>2, LoadingData, CheckingData, CheckRollbackData, LoadRequestedData, ListingData, HashData,
     CmdlineData, HashtreeData, FailingData, FinishData, ChainData, ReturnToChainData,
     ReturnToSlotData, NextRequestedData, VBMetasDoneData, MangleData, OptionsData, SubstData
  DEF Step
<1>3. CASE Ready /\ \E w \in Worlds : Boot(w) \/ BootFails(w)
  BY <1>3, BootData
<1> QED BY <1>1, <1>2, <1>3 DEF Next

LEMMA DataAlways == Spec => [](Inv /\ DataInv)
<1>1. Init => Inv /\ DataInv
  BY InitInv, InitData
<1>2. (Inv /\ DataInv) /\ [Next]_vars => (Inv /\ DataInv)'
  BY NextInv, NextData
<1> QED BY <1>1, <1>2, PTL DEF Spec
-----------------------------------------------------------------------------
(***************************************************************************)
(* What the caller and later boots can rely on.                            *)
(***************************************************************************)
LEMMA AssertsFollow == Inv /\ DataInv => AssertsHold
<1> SUFFICES ASSUME Inv, DataInv PROVE AssertsHold
  OBVIOUS
<1>1. ASSUME pc = "key"
      PROVE  IF Top.expect # NoKey THEN ~IsMain ELSE world.noVbmeta \/ IsMain
  <2>1. pc \in FrameStep
    BY <1>1 DEF FrameStep
  <2> QED BY <2>1, FrameFacts
<1>2. ASSUME pc = "rollback"
      PROVE  IF IsMain THEN slot.images = <<>> ELSE world.noVbmeta \/ slot.images # <<>>
  <2>1. pc \in FrameStep
    BY <1>2 DEF FrameStep
  <2>2. /\ Len(stack) \in {1, 2} /\ (IsMain <=> Len(stack) = 1 /\ ~world.noVbmeta)
        /\ ~world.noVbmeta /\ Len(stack) = 1 => TopData(world, Top, "rollback", slot)
        /\ Len(stack) = 2 => slot.images # <<>>
    BY <1>2, <2>1, FrameFacts, DataBefore
  <2> QED BY <2>2 DEF TopData, Unrecorded
<1>3. ASSUME pc = "mangle"
      PROVE  /\ slot.images # <<>>
             /\ ~world.noVbmeta => slot.images[1].part \in {"vbmeta", "boot"}
             /\ Disabled => slot.cmdline = <<>>
  <2>1. slot.images # <<>>
    BY <1>3 DEF DataInv, NothingRecorded
  <2>2. ~world.noVbmeta => slot.images[1].part \in {"vbmeta", "boot"}
    BY <2>1 DEF DataInv, ImagesKnown, TopLevel
  <2>3. world.noVbmeta => ~Disabled
    BY <2>1, SlotFacts DEF Inv, TypeInv, DataInv, ImagesKnown, Disabled, TopImage
  <2> QED BY <1>3, <2>1, <2>2, <2>3 DEF DataInv, CmdlineSound
<1>4. pc = "options" => slot.mode # "managed"
  BY DEF DataInv, Ending
<1>5. out /\ ~world.allow => ret = "OK"
  BY DEF DataInv, Ending, Bails
<1> QED BY <1>1, <1>2, <1>3, <1>4, <1>5 DEF AssertsHold

\* Whatever the images contain and whichever callback fails: the assertions that
\* AssertsHold states never fail, the caller gets data for OK and for the errors it may
\* ignore and for nothing else, and every snippet of the command line fits the
\* top-level image. Outside the situations of Dependable, the partitions it gets
\* with an OK are those it asked for, with the digests that recorded images
\* demand, and the recorded rollback indexes are not older than the stored ones.
THEOREM SlotDataIsSound == Spec => []SlotDataSound
<1>1. Inv /\ DataInv => SlotDataSound
  <2> SUFFICES ASSUME Inv, DataInv PROVE SlotDataSound
    OBVIOUS
  <2>1. out => pc = "done" /\ ret \in Continuable /\ ~Bails /\ slot.images # <<>>
    BY DEF DataInv, Ending, NothingRecorded
  <2>2. OutDataUsable
    BY <2>1 DEF OutDataUsable, Continuable, Bails, DataInv, Ending, ImagesKnown
  <2>3. out /\ ret = "OK" => NoError
    BY <2>1 DEF NoError, FrameStep
  <2>4. LoadedAreVerified
    <3> SUFFICES ASSUME out, ret = "OK", Dependable, NEW i \in DOMAIN slot.loaded
                 PROVE  /\ Requested(world, slot.loaded[i])
                        /\ ~Disabled => \E j \in DOMAIN slot.images :
                             \E d \in {slot.images[j].vb.descs[k] : k \in DOMAIN slot.images[j].vb.descs} :
                               /\ d.tag = "hash" /\ d.part = slot.loaded[i]
                               /\ Holds(world, values, d)
      BY DEF LoadedAreVerified
    <3>1. Vouched(world, values, slot.images, slot.loaded[i])
      BY <2>3 DEF DataInv, LoadedVouched
    <3> QED BY <3>1 DEF Vouched, Disabled, DisabledBy, TopImage
  <2>5. RecordedNotOlder
    BY <2>3 DEF RecordedNotOlder, DataInv, RollbackRecent
  <2>6. CmdlineFitsTopLevel
    BY DEF DataInv, CmdlineSound
  <2> QED BY <2>2, <2>4, <2>5, <2>6, AssertsFollow DEF SlotDataSound
<1> QED BY <1>1, DataAlways, PTL

\* In the managed mode dm-verity is set to 'eio' exactly when the mark that
\* will be found by the next boot is that of the OS being booted.
THEOREM EioMatchesMark == Spec => []EioIffMarked
<1>1. Inv /\ DataInv => EioIffMarked
  BY DEF DataInv
<1> QED BY <1>1, DataAlways, PTL

\* A slot that avb_slot_verify() answers OK for has one substitution for each
\* persistent root digest of its top-level image, and a value is stored for each,
\* unless a list of descriptors could not be allocated, which the code takes for an
\* empty one.
THEOREM RootsAreSubstituted == Spec => []RootsSubstituted
<1>1. Inv /\ DataInv => RootsSubstituted
  <2> SUFFICES ASSUME Inv, DataInv, out, ret = "OK", ~blind, ~world.noVbmeta, ~Disabled
               PROVE  LET roots == {i \in DOMAIN TopImage.descs : Persistent(TopImage.descs[i])}
                      IN /\ slot.subst = Cardinality(roots)
                         /\ \A i \in roots : values[TopImage.descs[i].part] # NoDigest
    BY DEF RootsSubstituted
  <2>1. Counted(slot.subst, values, TopImage, Len(TopImage.descs) + 1)
    BY DEF DataInv, RootsCounted
  <2>2. TopImage.descs \in Seq(Desc)
    <3>1. slot.images # <<>>
      BY DEF DataInv, NothingRecorded
    <3> QED BY <3>1, SlotFacts DEF Inv, TypeInv, VBMeta
  <2>3. Roots(TopImage, Len(TopImage.descs) + 1) = {i \in DOMAIN TopImage.descs : Persistent(TopImage.descs[i])}
    BY <2>2 DEF Roots
  <2> QED BY <2>1, <2>3 DEF Counted
<1> QED BY <1>1, DataAlways, PTL

\* The mark that an OS was corrupted is lost only to a boot of another OS.  If
\* the device allows no verification errors, all of that OS was verified, but
\* for the situations of Dependable; if it does, an OS that failed to verify
\* drops the mark as well.
THEOREM MarkIsKept == Spec => MarkSticks
<1>1. Inv /\ DataInv /\ [Next]_vars =>
        [mark # <<>> /\ mark' # mark =>
           /\ pc = "mangle" /\ VBMetaDigest # mark
           /\ ~world.allow => ret = "OK" /\ (Dependable => Verified(world, values))]_vars
  <2> SUFFICES ASSUME Inv, DataInv, [Next]_vars, mark' # mark
               PROVE  /\ pc = "mangle" /\ VBMetaDigest # mark
                      /\ ~world.allow => ret = "OK" /\ (Dependable => Verified(world, values))
    BY DEF vars
  <2>1. CASE MangleCmdline
    <3>1. pc = "mangle" /\ VBMetaDigest # mark
      BY <2>1 DEF MangleCmdline, Marked
    <3>2. ~world.allow => ret = "OK"
      BY <3>1 DEF DataInv, Ending, Bails
    <3>3. ret = "OK" /\ Dependable => Verified(world, values)
      BY <3>1 DEF Inv, SafeInv, SlotClean
    <3> QED BY <3>1, <3>2, <3>3
  <2>2. CASE Ready /\ \E w \in Worlds : Boot(w) \/ BootFails(w)
    BY <2>2 DEF Boot, BootFails, store
  <2>3. CASE UNCHANGED vars
    BY <2>3 DEF vars
  <2>4. CASE Step /\ ~MangleCmdline
    BY <2>4 DEF Step, LocateVBMeta, ReadVBMeta, VerifyImage, CheckKey, CheckRollback, LoadRequested,
                ListDescriptors, ListDescriptorsFails, HashDesc, HashDescFails, ChainDesc, CmdlineDesc,
                CmdlineDescFails, HashtreeDesc, PropertyDesc, FinishVBMeta, CallbackFails, ReturnToChain,
                ReturnToSlot, NextRequested, VBMetasDone, MangleCmdlineFails, AppendOptions,
                SubstCmdline, SlotCallbackFails, store
  <2> QED BY <2>1, <2>2, <2>3, <2>4 DEF Next
<1> QED BY <1>1, DataAlways, PTL DEF Spec, MarkSticks

\* A digest is stored on a locked device only, and for a partition that has
\* none: no boot, whatever it finds or fails at, replaces one.
THEOREM DigestsAreKept == Spec => DigestsWrittenOnce
<1>1. TypeOK /\ [Next]_vars =>
        [values' # values => /\ ~world.unlocked
                             /\ \A p \in Name : values[p] # NoDigest => values'[p] = values[p]]_vars
  <2> SUFFICES ASSUME TypeOK, [Next]_vars, values' # values
               PROVE  /\ ~world.unlocked
                      /\ \A p \in Name : values[p] # NoDigest => values'[p] = values[p]
    BY DEF vars
  <2>1. CASE HashDesc \/ HashDescFails
    <3>1. Initializes(world, values, D) /\ values' = InitialValue
      BY <2>1 DEF HashDesc, HashDescFails
    <3> QED BY <3>1 DEF Initializes, InitialValue, TypeOK
  <2>2. CASE Ready /\ \E w \in Worlds : Boot(w) \/ BootFails(w)
    BY <2>2 DEF Boot, BootFails, store
  <2>3. CASE UNCHANGED vars
    BY <2>3 DEF vars
  <2>4. CASE Step /\ ~(HashDesc \/ HashDescFails)
    BY <2>4 DEF Step, LocateVBMeta, ReadVBMeta, VerifyImage, CheckKey, CheckRollback, LoadRequested,
                ListDescriptors, ListDescriptorsFails, ChainDesc, CmdlineDesc,
                CmdlineDescFails, HashtreeDesc, PropertyDesc, FinishVBMeta, CallbackFails, ReturnToChain,
                ReturnToSlot, NextRequested, VBMetasDone, MangleCmdline, MangleCmdlineFails, AppendOptions,
                SubstCmdline, SlotCallbackFails, store
  <2> QED BY <2>1, <2>2, <2>3, <2>4 DEF Next
<1> QED BY <1>1, TypeCorrect, PTL DEF Spec, DigestsWrittenOnce
-----------------------------------------------------------------------------
(***************************************************************************)
(* A verified slot is accepted.                                            *)
(*                                                                         *)
(* While a call is under way it may still store digests, so that the slot  *)
(* counts as verified at the end although it does not yet.  v stands for   *)
(* the values at the end: as long as the slot is verified with them, no    *)
(* check of the call can fail.                                             *)
(***************************************************************************)
\* A call for w may store a digest under p: a hash descriptor leaves it open.
Storable(w, p) ==
  \E q \in Name : \E i \in DOMAIN VBMetaIn(w, q).descs :
    LET d == VBMetaIn(w, q).descs[i]
    IN d.tag = "hash" /\ d.digest = NoDigest /\ d.part = p

\* A call for w may get from the stored values v1 to v2.
Later(w, v1, v2) ==
  /\ Grows(v1, v2)
  /\ w.unlocked => v2 = v1
  /\ \A p \in Name : v2[p] # v1[p] => Storable(w, p)

\* Nothing but the images can make the call fail, and with v they do not.
Hopeful(v) ==
  /\ faults = 0 /\ Fits(world)
  /\ Later(world, values, v) /\ Verified(world, v)

\* The vbmeta structs with a number below Bound are in vbmeta_images.
Bound ==
  (IF world.noVbmeta THEN nreq ELSE stack[1].n + Len(stack) - 2)
  + (IF pc \in Unrecorded THEN 0 ELSE 1)

Filed == {j \in Structs(world) : j < Bound}

\* The descriptors that have a partition loaded, by struct and position, and
\* those of them that the loop has passed.
LoadPairs(w) == UNION {{j} \X Loads(w, StructPart(w, j)) : j \in Structs(w)}

Passed(j, i) ==
  IF world.noVbmeta THEN j < nreq \/ (j = nreq /\ (pc # "next" => i < Top.n))
  ELSE IF j = 0 THEN i < stack[1].n
  ELSE j < stack[1].n \/ (Len(stack) = 2 /\ j = stack[1].n /\ i < stack[2].n)

PairsPassed == {x \in LoadPairs(world) : Passed(x[1], x[2])}

TablesCounted ==
  \/ pc \in FrameStep /\ ~(IsMain /\ pc = "return")
  \/ pc = "next" /\ world.noVbmeta
  => /\ Len(slot.images) = Cardinality(Filed)
     /\ Len(slot.loaded) = Cardinality(PairsPassed)

\* A frame without an error is where its stage says.
StageOK(w, f, s) ==
  /\ f.ret = "OK"
  /\ s \notin {"desc", "return"} => f.n = 1
  /\ s = "return" /\ ~Main(w, f) => f.n > Len(VBOf(w, f).descs)
  /\ s \notin Keyed => f.locUse = f.loc
  /\ s = "rollback" => f.locUse = IF w.noVbmeta THEN w.locOf[f.part] ELSE f.loc

FramesOK ==
  pc \in FrameStep => /\ StageOK(world, Top, pc)
                      /\ Len(stack) = 2 => stack[1].ret = "OK"

\* Without a vbmeta partition its GUID is not asked for.
GuidsThere ==
  world.noVbmeta /\ ~Disk(world, "vbmeta").present =>
    \A i \in DOMAIN slot.cmdline : slot.cmdline[i].part # "vbmeta"

NoRefusal == ~blind /\ ret = "OK" /\ GuidsThere /\ FramesOK /\ TablesCounted

AcceptInv == \A v \in Values : Hopeful(v) => NoRefusal
-----------------------------------------------------------------------------
(***************************************************************************)
(* The stored values.                                                      *)
(***************************************************************************)
LEMMA LaterSame ==
  ASSUME NEW w, NEW v
  PROVE  Later(w, v, v)
BY DEF Later, Grows

LEMMA LaterTrans ==
  ASSUME NEW w, NEW v1 \in Values, NEW v2 \in Values, NEW v3 \in Values,
         Later(w, v1, v2), Later(w, v2, v3)
  PROVE  Later(w, v1, v3)
<1>1. Grows(v1, v3) /\ (w.unlocked => v3 = v1)
  BY DEF Later, Grows
<1>2. \A p \in Name : v3[p] # v1[p] => v3[p] # v2[p] \/ v2[p] # v1[p]
  OBVIOUS
<1> QED BY <1>1, <1>2 DEF Later

LEMMA StepLater ==
  ASSUME Inv, Step
  PROVE  world' = world /\ Later(world, values, values')
<1>0. TypeOK
  BY DEF Inv, TypeInv
<1>1. CASE HashDesc \/ HashDescFails
  <2>1. world' = world /\ AtDesc("hash") /\ pc \in FrameStep
    BY <1>1 DEF HashDesc, HashDescFails, call, AtDesc, FrameStep
  <2>2. values' = values \/ (Initializes(world, values, D) /\ values' = InitialValue)
    BY <1>1 DEF HashDesc, HashDescFails
  <2>3. ASSUME Initializes(world, values, D), values' = InitialValue
        PROVE  Later(world, values, values')
    <3>1. stack # <<>> /\ VB \in VBMeta /\ Top \in Frame
      BY <2>1, FrameFacts, TopType
    <3>2. D \in Desc /\ D.tag = "hash" /\ D.part \in Name
      BY <1>0, <2>1, <3>1, DescType, HashTargetType DEF TypeOK
    <3>3. Storable(world, D.part)
      <4>1. Top.part \in Name /\ Top.n \in DOMAIN VBMetaIn(world, Top.part).descs
        BY <2>1, <3>1 DEF Frame, VBMeta, VB, AtDesc
      <4> QED BY <2>3, <3>2, <4>1 DEF Storable, D, VB, Initializes
    <3> QED BY <1>0, <2>3, <3>2, <3>3 DEF Later, Grows, Initializes, InitialValue, TypeOK
  <2> QED BY <2>1, <2>2, <2>3, LaterSame
<1>2. CASE Step /\ ~(HashDesc \/ HashDescFails)
  <2>1. world' = world /\ values' = values
    BY <1>2 DEF Step, LocateVBMeta, ReadVBMeta, VerifyImage, CheckKey, CheckRollback, LoadRequested,
                ListDescriptors, ListDescriptorsFails, ChainDesc, CmdlineDesc,
                CmdlineDescFails, HashtreeDesc, PropertyDesc, FinishVBMeta, CallbackFails, ReturnToChain,
                ReturnToSlot, NextRequested, VBMetasDone, MangleCmdline, MangleCmdlineFails, AppendOptions,
                SubstCmdline, SlotCallbackFails, store, call
  <2> QED BY <2>1, LaterSame
<1> QED BY <1>1, <1>2

\* The steps at which nothing outside the images fails.
Undisturbed ==
  \/ LocateVBMeta \/ ReadVBMeta \/ VerifyImage \/ CheckKey \/ CheckRollback
  \/ LoadRequested \/ ListDescriptors
  \/ HashDesc \/ ChainDesc \/ CmdlineDesc \/ HashtreeDesc \/ PropertyDesc \/ FinishVBMeta
  \/ ReturnToChain \/ ReturnToSlot \/ NextRequested \/ VBMetasDone
  \/ MangleCmdline \/ AppendOptions \/ SubstCmdline

LEMMA HopefulBefore ==
  ASSUME Inv, Inv', Step, NEW v \in Values, Hopeful(v)'
  PROVE  Hopeful(v) /\ Undisturbed /\ faults' = faults
<1>1. world' = world /\ Later(world, values, values')
  BY StepLater
<1>2. values \in Values /\ values' \in Values /\ faults \in Nat
  BY DEF Inv, TypeInv, TypeOK, Values
<1>3. Undisturbed /\ faults' = faults
  <2>1. faults' = 0
    BY DEF Hopeful
  <2>2. ~Fault
    BY <1>2, <2>1 DEF Fault
  <2>3. Undisturbed
    BY <2>2 DEF Step, Undisturbed, ListDescriptorsFails, HashDescFails, CmdlineDescFails, CallbackFails,
                MangleCmdlineFails, SlotCallbackFails
  <2>4. faults' = faults
    BY <2>3 DEF Undisturbed, LocateVBMeta, ReadVBMeta, VerifyImage, CheckKey, CheckRollback, LoadRequested,
                ListDescriptors, HashDesc, ChainDesc, CmdlineDesc, HashtreeDesc, PropertyDesc, FinishVBMeta,
                ReturnToChain, ReturnToSlot, NextRequested, VBMetasDone, MangleCmdline, AppendOptions,
                SubstCmdline
  <2> QED BY <2>3, <2>4
<1>4. Hopeful(v)
  BY <1>1, <1>2, <1>3, LaterTrans DEF Hopeful
<1> QED BY <1>3, <1>4
-----------------------------------------------------------------------------
(***************************************************************************)
(* What a verified slot says of the frame and the descriptor being looked  *)
(* at.                                                                     *)
(***************************************************************************)
\* The outermost frame waits, or works, at the top-level image.
LEMMA TopFound ==
  ASSUME Inv, DataInv, pc \in FrameStep, ~world.noVbmeta, TopStage \in Found
  PROVE  /\ stack[1].part = TopLevel(world)
         /\ VBOf(world, stack[1]) = VBMetaIn(world, TopLevel(world))
         /\ TopDescs(world) = VBOf(world, stack[1]).descs
<1>1. TopData(world, stack[1], TopStage, slot) /\ Outermost(world, nreq, stack[1])
  BY FrameFacts DEF DataInv, FrameData
<1>2. Disk(world, stack[1].part).present
  BY <1>1 DEF TopData
<1> QED BY <1>1, <1>2, FoundIsTopLevel DEF TopDescs

LEMMA TopComplete ==
  ASSUME Inv, DataInv, pc \in FrameStep, NEW v \in Values, Verified(world, v),
         ~IsMain \/ Disk(world, Top.part).present
  PROVE  Complete(world, v, Top) /\ Disk(world, Top.part).present
<1>1. /\ TypeOK /\ Len(stack) \in {1, 2} /\ Outermost(world, nreq, stack[1]) /\ Top \in Frame
      /\ Len(stack) = 1 => Top = stack[1]
      /\ Len(stack) = 2 => Top = stack[2] /\ ~world.noVbmeta
      /\ IsMain <=> Len(stack) = 1 /\ ~world.noVbmeta
      /\ IsMain <=> Main(world, Top)
  BY FrameFacts
<1>2. CASE IsMain
  <2>1. Top.part = TopLevel(world)
    BY <1>1, <1>2, FoundIsTopLevel
  <2> QED BY <1>1, <1>2, <2>1 DEF Verified, Complete
<1>3. CASE world.noVbmeta
  <2>1. Top.loc = 0 /\ Top.expect = NoKey /\ nreq \in DOMAIN world.requested /\ Top.part = world.requested[nreq]
    BY <1>1, <1>3 DEF Outermost
  <2>2. LeafVerified(world, v, Top.part, 0, NoKey)
    BY <1>3, <2>1 DEF Verified
  <2> QED BY SMTT(30), <1>1, <1>3, <2>1, <2>2, LimitAssumption DEF Complete, LeafVerified, Sound
<1>4. CASE Len(stack) = 2
  <2>1. ~world.noVbmeta /\ TopStage = "desc" /\ CalledBy(world, stack[1], Top)
    BY <1>1, <1>4 DEF TopStage, Inv, StackShape
  <2>2. /\ VBOf(world, stack[1]) = VBMetaIn(world, TopLevel(world))
        /\ ~DisabledBy(VBOf(world, stack[1]))
    BY <1>4, <2>1, TopFound, DataBefore DEF Found, TopData
  <2> DEFINE d == VBOf(world, stack[1]).descs[stack[1].n]
  <2>3. DescVerified(world, v, d)
    BY <2>1, <2>2 DEF Verified, TopVerified, DisabledBy, CalledBy
  <2>4. /\ d.tag = "chain" /\ Top.part = d.part /\ Top.loc = d.loc /\ Top.expect = d.key
    BY <2>1 DEF CalledBy
  <2> HIDE DEF d
  <2>5. /\ Top.loc \in 1 .. MAX_LOCATIONS - 1
        /\ LeafVerified(world, v, Top.part, Top.loc, Top.expect)
    BY <2>3, <2>4 DEF DescVerified
  <2>6. Top.loc < MAX_LOCATIONS /\ ~Main(world, Top)
    BY <1>1, <1>4, <2>5, LimitAssumption
  <2> QED BY <2>5, <2>6 DEF Complete, LeafVerified, Sound
<1> QED BY <1>1, <1>2, <1>3, <1>4

\* Which checks the image of the frame passes.
LEMMA TopPasses ==
  ASSUME Inv, DataInv, pc \in FrameStep, NEW v \in Values, Verified(world, v),
         ~IsMain \/ Disk(world, Top.part).present
  PROVE  /\ Disk(world, Top.part).present /\ VB.verify = "OK"
         /\ ~IsMain => VB.flags = {}
         /\ TrustedKey(world, VB, Top.expect)
         /\ VB.rollback >= world.stored[IF world.noVbmeta THEN world.locOf[Top.part] ELSE Top.loc]
         /\ Top.loc < MAX_LOCATIONS
<1>1. Complete(world, v, Top) /\ Disk(world, Top.part).present
  BY TopComplete
<1>2. /\ IsMain <=> Main(world, Top)
      /\ IsMain => Top.loc = 0 /\ Top.expect = NoKey
  BY FrameFacts DEF Main
<1>3. Sound(world, Top.part, Top.loc, Top.expect)
  BY <1>1, <1>2 DEF Complete, TopVerified, LeafVerified
<1>4. Top.loc < MAX_LOCATIONS /\ (~IsMain => VB.flags = {})
  BY <1>1, <1>2, LimitAssumption DEF Complete, LeafVerified, VB
<1> QED BY <1>1, <1>3, <1>4 DEF Sound, VB

\* The descriptor of the frame holds.
LEMMA DescPasses ==
  ASSUME Inv, DataInv, NEW t, AtDesc(t), NEW v \in Values, Verified(world, v)
  PROVE  /\ Dealt(world, v, Top, D) /\ Holds(world, v, D)
         /\ D \in Desc /\ D.tag = t /\ Top.n \in DOMAIN VB.descs
<1>1. /\ pc = "desc" /\ pc \in FrameStep /\ TypeOK /\ stack # <<>> /\ Top \in Frame /\ VB = VBOf(world, Top)
      /\ VB \in VBMeta /\ (IsMain <=> Main(world, Top))
      /\ IsMain => TopData(world, Top, "desc", slot)
  BY AtDescFacts DEF AtDesc
<1>2. D \in Desc /\ D.tag = t /\ Top.n \in DOMAIN VB.descs
  BY <1>1, DescType DEF AtDesc, VBMeta, Frame
<1>3. ~IsMain \/ Disk(world, Top.part).present
  BY <1>1 DEF TopData, Found
<1>4. Complete(world, v, Top)
  BY <1>1, <1>3, TopComplete
<1>5. CASE IsMain
  <2>1. TopVerified(world, v, Top.part) /\ ~DisabledBy(VB)
    BY <1>1, <1>4, <1>5 DEF Complete, TopData
  <2>2. DescVerified(world, v, D)
    BY <1>2, <2>1 DEF TopVerified, DisabledBy, VB, D
  <2> QED BY <1>1, <1>2, <1>5, <2>2 DEF Dealt, DescVerified
<1>6. CASE ~IsMain
  <2>1. LeafVerified(world, v, Top.part, Top.loc, Top.expect)
    BY <1>1, <1>4, <1>6 DEF Complete
  <2> QED BY <1>1, <1>2, <1>6, <2>1 DEF LeafVerified, Dealt, VB, D
<1> QED BY <1>5, <1>6
-----------------------------------------------------------------------------
(***************************************************************************)
(* The tables.                                                             *)
(***************************************************************************)
\* One more of the elements of a finite set.
LEMMA OneMore ==
  ASSUME NEW U, IsFiniteSet(U), NEW A, A \subseteq U, NEW x \in U, x \notin A
  PROVE  /\ Cardinality(U) \in Nat /\ Cardinality(A) \in Nat
         /\ Cardinality(A) < Cardinality(U)
         /\ Cardinality(A \union {x}) = Cardinality(A) + 1
<1>1. IsFiniteSet(A) /\ Cardinality(A) <= Cardinality(U) /\ (Cardinality(U) = Cardinality(A) => U = A)
  BY FS_Subset
<1>2. Cardinality(U) \in Nat /\ Cardinality(A) \in Nat
  BY <1>1, FS_CardinalityType
<1>3. Cardinality(A \union {x}) = Cardinality(A) + 1
  BY <1>1, FS_AddElement
<1> QED BY <1>1, <1>2, <1>3

LEMMA StructFacts ==
  ASSUME NEW w \in World
  PROVE  /\ IsFiniteSet(Structs(w)) /\ Structs(w) \subseteq Nat
         /\ \A j \in Structs(w) : StructPart(w, j) \in Name
<1>1. w.requested \in Seq(Name)
  BY DEF World
<1>2. TopLevel(w) \in Name
  BY NameAssumption DEF TopLevel
<1>3. TopDescs(w) \in Seq(Desc)
  BY <1>2, VBMetaInType DEF TopDescs, VBMeta
<1>4. CASE w.noVbmeta
  <2>1. Structs(w) = 1 .. Len(w.requested) /\ Len(w.requested) \in Nat
    BY <1>1, <1>4 DEF Structs
  <2>2. IsFiniteSet(1 .. Len(w.requested))
    BY <2>1, FS_Interval
  <2>3. \A j \in 1 .. Len(w.requested) : w.requested[j] \in Name
    BY <1>1
  <2> QED BY <1>4, <2>1, <2>2, <2>3 DEF StructPart
<1>5. CASE ~w.noVbmeta
  <2>1. Structs(w) \subseteq 0 .. Len(TopDescs(w)) /\ Len(TopDescs(w)) \in Nat
    BY <1>3, <1>5 DEF Structs
  <2>2. IsFiniteSet(0 .. Len(TopDescs(w)))
    BY <2>1, FS_Interval
  <2>3. IsFiniteSet(Structs(w))
    BY <2>1, <2>2, FS_Subset
  <2>4. ASSUME NEW j \in Structs(w), j # 0
        PROVE  TopDescs(w)[j].part \in Name
    <3>1. j \in DOMAIN TopDescs(w) /\ TopDescs(w)[j].tag = "chain"
      BY <1>5, <2>4 DEF Structs
    <3>2. TopDescs(w)[j] \in Desc
      BY <1>3, <3>1
    <3> QED BY <3>1, <3>2, HashTargetType
  <2> QED BY <1>2, <1>5, <2>1, <2>3, <2>4 DEF StructPart
<1> QED BY <1>4, <1>5

LEMMA PairFacts ==
  ASSUME NEW w
  PROVE  /\ \A j, i : <<j, i>> \in LoadPairs(w) <=> j \in Structs(w) /\ i \in Loads(w, StructPart(w, j))
         /\ \A x \in LoadPairs(w) : /\ x = <<x[1], x[2]>> /\ x[1] \in Structs(w)
                                    /\ x[2] \in Loads(w, StructPart(w, x[1]))
BY DEF LoadPairs

LEMMA PairsFinite ==
  ASSUME NEW w \in World
  PROVE  IsFiniteSet(LoadPairs(w))
<1> DEFINE P(j) == {j} \X Loads(w, StructPart(w, j))
           S == {P(j) : j \in Structs(w)}
           f == [j \in Structs(w) |-> P(j)]
<1>1. IsFiniteSet(S)
  <2>1. f \in Surjection(Structs(w), S)
    BY DEF Surjection
  <2> QED BY <2>1, StructFacts, FS_Surjection
<1>2. ASSUME NEW j \in Structs(w)
      PROVE  IsFiniteSet(P(j))
  <2> DEFINE descs == VBMetaIn(w, StructPart(w, j)).descs
  <2>1. descs \in Seq(Desc)
    BY StructFacts, VBMetaInType DEF VBMeta
  <2>2. IsFiniteSet(1 .. Len(descs)) /\ Loads(w, StructPart(w, j)) \subseteq 1 .. Len(descs)
    <3>1. DOMAIN descs = 1 .. Len(descs) /\ Len(descs) \in Nat
      BY <2>1
    <3> HIDE DEF descs
    <3>2. IsFiniteSet(1 .. Len(descs))
      BY <3>1, FS_Interval
    <3> QED BY <3>1, <3>2 DEF Loads, descs
  <2>3. IsFiniteSet(Loads(w, StructPart(w, j)))
    BY <2>2, FS_Subset
  <2>4. IsFiniteSet({j})
    BY FS_Singleton
  <2> QED BY <2>3, <2>4, FS_Product
<1>3. \A T \in S : IsFiniteSet(T)
  BY <1>2
<1>4. IsFiniteSet(UNION S)
  <2> HIDE DEF S
  <2> QED BY <1>1, <1>3, FS_UNION
<1> QED BY <1>4 DEF LoadPairs

\* The number of the struct that the innermost frame is about.
Here == IF world.noVbmeta THEN nreq ELSE IF Len(stack) = 2 THEN stack[1].n ELSE 0

LEMMA HereIs ==
  ASSUME Inv, DataInv, pc \in FrameStep, pc \in Found \/ ~IsMain
  PROVE  Here \in Structs(world) /\ StructPart(world, Here) = Top.part
<1>1. /\ TypeOK /\ Len(stack) \in {1, 2} /\ Outermost(world, nreq, stack[1])
      /\ stack[1] \in Frame
      /\ Len(stack) = 1 => Top = stack[1]
      /\ Len(stack) = 2 => Top = stack[2] /\ ~world.noVbmeta
      /\ IsMain <=> Len(stack) = 1 /\ ~world.noVbmeta
  BY FrameFacts
<1>2. CASE world.noVbmeta
  BY <1>1, <1>2 DEF Here, Structs, StructPart, Outermost
<1>3. CASE IsMain
  <2>1. TopStage \in Found
    BY <1>1, <1>3 DEF TopStage
  <2> QED BY <1>1, <1>3, <2>1, TopFound DEF Here, Structs, StructPart
<1>4. CASE Len(stack) = 2
  <2>1. ~world.noVbmeta /\ TopStage = "desc" /\ CalledBy(world, stack[1], Top)
    BY <1>1, <1>4 DEF TopStage, Inv, StackShape
  <2>2. TopDescs(world) = VBOf(world, stack[1]).descs
    BY <2>1, TopFound DEF Found
  <2>3. stack[1].n # 0
    BY <1>1 DEF Frame
  <2> QED BY <1>4, <2>1, <2>2, <2>3 DEF Here, Structs, StructPart, CalledBy
<1> QED BY <1>1, <1>2, <1>3, <1>4
\* A step that stays at its descriptor, before or after the struct is recorded.
LEMMA SameCounts ==
  ASSUME Inv, pc \in FrameStep, pc' \in FrameStep, NEW f \in Frame, SetTop(f), f.n = Top.n,
         world' = world, nreq' = nreq
  PROVE  /\ (pc \in Unrecorded <=> pc' \in Unrecorded) => Filed' = Filed
         /\ PairsPassed' = PairsPassed
<1>1. /\ Len(stack) \in {1, 2} /\ Len(stack') = Len(stack) /\ Top' = f
      /\ stack'[1] = IF Len(stack) = 1 THEN f ELSE stack[1]
      /\ Len(stack) = 2 => stack'[2] = f
      /\ Len(stack) = 1 => Top = stack[1]
      /\ Len(stack) = 2 => Top = stack[2]
  BY FrameFacts, SetTopFacts
<1>2. stack'[1].n = stack[1].n /\ (Len(stack) = 2 => stack'[2].n = stack[2].n) /\ Top'.n = Top.n
  BY <1>1
<1>3. pc # "next" /\ pc' # "next"
  BY DEF FrameStep
<1>4. \A j, i : Passed(j, i)' <=> Passed(j, i)
  BY <1>1, <1>2, <1>3 DEF Passed
<1>5. (pc \in Unrecorded <=> pc' \in Unrecorded) => Bound' = Bound
  BY <1>1, <1>2 DEF Bound
<1> QED BY <1>4, <1>5 DEF Filed, PairsPassed

\* The struct of the innermost frame is the next one to be recorded.
LEMMA HereUnfiled ==
  ASSUME Inv, DataInv, NoRefusal, pc = "rollback"
  PROVE  Bound = Here /\ Here \in Nat /\ Here \in Structs(world) \ Filed
<1>0. pc \in FrameStep /\ pc \in Found /\ pc \in Unrecorded
  BY DEF FrameStep, Found, Unrecorded
<1>1. /\ TypeOK /\ Len(stack) \in {1, 2} /\ stack[1] \in Frame
      /\ Len(stack) = 1 => Top = stack[1]
      /\ Len(stack) = 2 => ~world.noVbmeta
  BY <1>0, FrameFacts
<1>2. stack[1].n \in Nat \ {0} /\ nreq \in Nat /\ world \in World
  BY <1>1 DEF Frame, TypeOK
<1>3. Len(stack) = 1 => stack[1].n = 1
  BY <1>0, <1>1 DEF NoRefusal, FramesOK, StageOK
<1>4. Bound = Here /\ Here \in Nat
  <2>1. CASE world.noVbmeta
    BY <1>0, <1>2, <2>1 DEF Bound, Here
  <2>2. CASE ~world.noVbmeta /\ Len(stack) = 1
    <3>1. Here = 0 /\ stack[1].n = 1 /\ Len(stack) = 1
      BY <1>3, <2>2 DEF Here
    <3> QED BY <1>0, <2>2, <3>1 DEF Bound
  <2>3. CASE ~world.noVbmeta /\ Len(stack) = 2
    BY <1>0, <1>2, <2>3 DEF Bound, Here
  <2> QED BY <1>1, <2>1, <2>2, <2>3
<1>5. Here \in Structs(world)
  BY <1>0, HereIs
<1> QED BY <1>4, <1>5 DEF Filed

\* It is recorded.
LEMMA RecordCounts ==
  ASSUME Inv, DataInv, NoRefusal, pc = "rollback", NEW f \in Frame, SetTop(f), f.n = Top.n,
         pc' \in {"load", "list"}, world' = world, nreq' = nreq
  PROVE  Filed' = Filed \union {Here}
<1>0. pc \in FrameStep /\ pc \in Unrecorded /\ pc' \notin Unrecorded
  BY DEF FrameStep, Unrecorded
<1>1. Bound = Here /\ Here \in Nat /\ Here \in Structs(world) \ Filed
  BY HereUnfiled
<1>2. /\ TypeOK /\ Len(stack) \in {1, 2} /\ stack[1] \in Frame /\ stack'[1].n = stack[1].n
      /\ Len(stack') = Len(stack)
  BY <1>0, FrameFacts, SetTopFacts
<1>3. Bound' = Bound + 1
  <2>1. stack[1].n \in Nat /\ nreq \in Nat
    BY <1>2 DEF TypeOK, Frame
  <2> QED BY <1>0, <1>2, <2>1 DEF Bound
<1>4. Structs(world) \subseteq Nat
  BY <1>2, StructFacts DEF TypeOK
<1>5. Filed = {j \in Structs(world) : j < Here} /\ Filed' = {j \in Structs(world) : j < Here + 1}
  BY <1>1, <1>3 DEF Filed
<1> QED BY <1>1, <1>4, <1>5

\* The loop passes a descriptor.
LEMMA NextCounts ==
  ASSUME Inv, DataInv, NEW t, AtDesc(t), t # "chain", pc' = "desc", NEW f \in Frame, SetTop(f),
         f.n = Top.n + 1, world' = world, nreq' = nreq
  PROVE  /\ Filed' = Filed
         /\ <<Here, Top.n>> \notin PairsPassed
         /\ PairsPassed' = PairsPassed \union ({<<Here, Top.n>>} \cap LoadPairs(world))
         /\ <<Here, Top.n>> \in LoadPairs(world) <=> t = "hash" /\ Requested(world, D.part)
<1>0. pc = "desc" /\ pc \in FrameStep /\ pc \in Found /\ pc \notin Unrecorded /\ pc' \in FrameStep
  BY DEF FrameStep, Found, Unrecorded, AtDesc
<1>1. /\ TypeOK /\ Len(stack) \in {1, 2} /\ stack[1] \in Frame /\ Top \in Frame
      /\ Len(stack) = 1 => Top = stack[1]
      /\ Len(stack) = 2 => Top = stack[2] /\ ~world.noVbmeta
      /\ IsMain <=> Len(stack) = 1 /\ ~world.noVbmeta
      /\ Top' = f /\ Len(stack') = Len(stack)
      /\ stack'[1] = IF Len(stack) = 1 THEN f ELSE stack[1]
      /\ Len(stack) = 2 => stack'[2] = f
      /\ stack # <<>>
  BY <1>0, FrameFacts, SetTopFacts
<1>2. /\ stack[1].n \in Nat \ {0} /\ Top.n \in Nat \ {0} /\ nreq \in Nat /\ world \in World
      /\ VB \in VBMeta /\ Top.n \in DOMAIN VB.descs /\ D.tag = t
  <2>1. VB \in VBMeta
    BY <1>1, TopType
  <2> QED BY SMTT(30), <1>1, <2>1 DEF Frame, TypeOK, AtDesc, VBMeta, D
<1>3. /\ Here \in Structs(world) /\ StructPart(world, Here) = Top.part
      /\ Structs(world) \subseteq Nat
  BY <1>0, <1>2, HereIs, StructFacts
<1>4. <<Here, Top.n>> \in LoadPairs(world) <=> t = "hash" /\ Requested(world, D.part)
  <2>1. Top.n \in Loads(world, Top.part) <=> D.tag = "hash" /\ Requested(world, D.part)
    BY <1>2 DEF Loads, VB, D
  <2> QED BY <1>2, <1>3, <2>1, PairFacts
<1>5. IsMain => stack[1].n \notin Structs(world)
  <2> SUFFICES ASSUME IsMain PROVE stack[1].n \notin Structs(world)
    OBVIOUS
  <2>1. TopDescs(world) = VB.descs /\ ~world.noVbmeta /\ Top = stack[1]
    <3>1. TopStage \in Found /\ ~world.noVbmeta
      BY <1>0, <1>1 DEF TopStage
    <3> QED BY <1>0, <1>1, <3>1, TopFound DEF VB, VBOf
  <2> QED BY <1>2, <2>1 DEF Structs, D
<1>6. Filed' = Filed
  <2>1. CASE IsMain
    <3>1. Bound = stack[1].n /\ Bound' = stack[1].n + 1
      <4>1. /\ Len(stack) = 1 /\ Len(stack') = 1 /\ ~world.noVbmeta /\ pc' \notin Unrecorded
            /\ stack'[1].n = stack[1].n + 1
        BY <1>1, <2>1 DEF Unrecorded
      <4> QED BY <1>0, <1>2, <4>1 DEF Bound
    <3>2. \A j \in Structs(world) : j < stack[1].n + 1 <=> j < stack[1].n
      BY <1>2, <1>3, <1>5, <2>1
    <3> QED BY <3>1, <3>2 DEF Filed
  <2>2. CASE ~IsMain
    <3>1. Bound' = Bound
      BY <1>0, <1>1, <2>2 DEF Bound, Unrecorded
    <3> QED BY <3>1 DEF Filed
  <2> QED BY <2>1, <2>2
<1>7. ~Passed(Here, Top.n)
  BY SMTT(30), <1>0, <1>1, <1>2 DEF Passed, Here
<1>8. ASSUME NEW x \in LoadPairs(world)
      PROVE  Passed(x[1], x[2])' <=> Passed(x[1], x[2]) \/ (x[1] = Here /\ x[2] = Top.n)
  <2>1. x[1] \in Structs(world) /\ x[1] \in Nat /\ x[2] \in Nat
    <3>1. x[1] \in Structs(world) /\ x[2] \in Loads(world, StructPart(world, x[1]))
      BY PairFacts
    <3>2. VBMetaIn(world, StructPart(world, x[1])).descs \in Seq(Desc)
      BY <1>2, <3>1, StructFacts, VBMetaInType DEF VBMeta
    <3> QED BY <1>3, <3>1, <3>2 DEF Loads
  <2>2. CASE world.noVbmeta
    BY <1>0, <1>1, <1>2, <2>1, <2>2 DEF Passed, Here
  <2>3. CASE IsMain
    <3>1. /\ Len(stack) = 1 /\ Len(stack') = 1 /\ ~world.noVbmeta /\ Here = 0
          /\ stack'[1].n = stack[1].n + 1 /\ Top.n = stack[1].n /\ x[1] # stack[1].n
      BY <1>1, <1>5, <2>1, <2>3 DEF Here
    <3>2. /\ Passed(x[1], x[2])' <=> IF x[1] = 0 THEN x[2] < stack[1].n + 1 ELSE x[1] < stack[1].n + 1
          /\ Passed(x[1], x[2]) <=> IF x[1] = 0 THEN x[2] < stack[1].n ELSE x[1] < stack[1].n
      BY <3>1 DEF Passed
    <3> QED BY <1>2, <2>1, <3>1, <3>2
  <2>4. CASE Len(stack) = 2
    BY <1>0, <1>1, <1>2, <2>1, <2>4 DEF Passed, Here
  <2> QED BY <1>1, <2>2, <2>3, <2>4
<1>9. \A x \in LoadPairs(world) : x[1] = Here /\ x[2] = Top.n <=> x = <<Here, Top.n>>
  BY PairFacts
<1>10. PairsPassed' = PairsPassed \union ({<<Here, Top.n>>} \cap LoadPairs(world))
  <2>1. PairsPassed' = {x \in LoadPairs(world) : Passed(x[1], x[2])'}
    BY DEF PairsPassed
  <2> QED BY <1>8, <1>9, <2>1 DEF PairsPassed
<1>11. <<Here, Top.n>> \notin PairsPassed
  BY <1>7 DEF PairsPassed
<1> QED BY <1>4, <1>6, <1>10, <1>11
-----------------------------------------------------------------------------
(***************************************************************************)
(* The steps of load_and_verify_vbmeta(), none of which finds an error.    *)
(***************************************************************************)
\* The rest of the call stands still.
Calm == UNCHANGED <<world, nreq, ret, blind>>

LEMMA TablesKept ==
  ASSUME Inv, NoRefusal, pc \in FrameStep, pc # "return", pc' \in FrameStep,
         NEW f \in Frame, SetTop(f), f.n = Top.n, Calm,
         pc \in Unrecorded <=> pc' \in Unrecorded,
         slot'.images = slot.images, slot'.loaded = slot.loaded
  PROVE  TablesCounted'
<1>1. Filed' = Filed /\ PairsPassed' = PairsPassed
  BY SameCounts DEF Calm
<1>2. Len(slot.images) = Cardinality(Filed) /\ Len(slot.loaded) = Cardinality(PairsPassed)
  BY DEF NoRefusal, TablesCounted
<1> QED BY <1>1, <1>2 DEF TablesCounted

\* The innermost frame is replaced by f.
LEMMA InnerOK ==
  ASSUME Inv, NoRefusal, pc \in FrameStep, pc' \in FrameStep,
         NEW f \in Frame, SetTop(f), Calm, StageOK(world, f, pc'), GuidsThere', TablesCounted'
  PROVE  NoRefusal'
<1>1. Len(stack) \in {1, 2} /\ Len(stack') = Len(stack) /\ Top' = f /\ (Len(stack) = 2 => stack'[1] = stack[1])
  BY FrameFacts, SetTopFacts
<1>2. FramesOK'
  BY <1>1 DEF NoRefusal, FramesOK, Calm
<1> QED BY <1>2 DEF NoRefusal, Calm

\* It is replaced and the slot data stays.
LEMMA ForwardOK ==
  ASSUME Inv, NoRefusal, pc \in FrameStep, pc # "return", pc' \in FrameStep,
         NEW f \in Frame, SetTop(f), f.n = Top.n, Calm, StageOK(world, f, pc'),
         pc \in Unrecorded <=> pc' \in Unrecorded, slot' = slot
  PROVE  NoRefusal'
<1>1. TablesCounted'
  BY TablesKept
<1>2. GuidsThere'
  BY DEF NoRefusal, GuidsThere, Calm
<1> QED BY <1>1, <1>2, InnerOK

LEMMA LocateOK ==
  ASSUME Inv, DataInv, NoRefusal, NEW v \in Values, Hopeful(v), LocateVBMeta
  PROVE  NoRefusal'
<1>0. pc = "locate" /\ pc \in FrameStep /\ Calm /\ slot' = slot
  BY DEF LocateVBMeta, FrameStep, Calm, call
<1>1. Top \in Frame /\ StageOK(world, Top, "locate") /\ Outermost(world, nreq, stack[1])
      /\ (IsMain => Top = stack[1] /\ ~world.noVbmeta)
  BY <1>0, FrameFacts DEF NoRefusal, FramesOK
<1>2. Top.part \in VBMetaName \/ Disk(world, Top.part).present
  <2>1. CASE IsMain
    BY <1>1, <2>1, NameAssumption DEF Outermost, Hopeful, Fits, Bootable
  <2>2. CASE ~IsMain
    BY <1>0, <2>2, TopPasses DEF Hopeful
  <2> QED BY <2>1, <2>2
<1> DEFINE f == [Top EXCEPT !.footer = UsesFooter(world, Top.part)]
<1>3. SetTop(f) /\ pc' = "read" /\ pc' \in FrameStep
  BY <1>2 DEF LocateVBMeta, FrameStep
<1>4. f \in Frame /\ f.n = Top.n /\ StageOK(world, f, "read")
  BY <1>1 DEF Frame, UsesFooter, StageOK, Keyed
<1> HIDE DEF f
<1> QED BY <1>0, <1>3, <1>4, ForwardOK DEF Unrecorded

LEMMA ReadOK ==
  ASSUME Inv, DataInv, NoRefusal, NEW v \in Values, Hopeful(v), ReadVBMeta
  PROVE  NoRefusal'
<1>0. pc = "read" /\ pc \in FrameStep /\ Calm /\ slot' = slot
  BY DEF ReadVBMeta, FrameStep, Calm, call
<1>1. /\ Top \in Frame /\ StageOK(world, Top, "read") /\ Outermost(world, nreq, stack[1])
      /\ IsMain => Top = stack[1] /\ ~world.noVbmeta
      /\ TypeOK /\ stack # <<>>
  BY <1>0, FrameFacts DEF NoRefusal, FramesOK
<1>2. CASE Disk(world, Top.part).present
  <2>1. pc' = "image" /\ pc' \in FrameStep /\ stack' = stack
    BY <1>2 DEF ReadVBMeta, FrameStep
  <2>2. SetTop(Top) /\ StageOK(world, Top, "image")
    BY <1>1, <2>1, SetTopSame DEF StageOK, Keyed
  <2> QED BY <1>0, <1>1, <2>1, <2>2, ForwardOK DEF Unrecorded
<1>3. CASE ~Disk(world, Top.part).present
  <2>1. IsMain
    BY <1>0, <1>3, TopPasses DEF Hopeful
  <2>2. Top.part = "vbmeta"
    BY <1>1, <1>3, <2>1 DEF Outermost, Hopeful, Fits, Bootable
  <2> DEFINE f == NewFrame("boot", 0, NoKey, {})
  <2>3. SetTop(f) /\ pc' = "locate" /\ pc' \in FrameStep
    BY <1>3, <2>1, <2>2, NameAssumption DEF ReadVBMeta, FrameStep
  <2>4. f \in Frame
    BY NewFrameType, NameAssumption, LimitAssumption
  <2>5. f.n = 1 /\ StageOK(world, f, "locate") /\ Top.n = 1
    BY <1>1 DEF NewFrame, StageOK, Keyed
  <2> HIDE DEF f
  <2> QED BY <1>0, <2>3, <2>4, <2>5, ForwardOK DEF Unrecorded
<1> QED BY <1>2, <1>3

LEMMA ImageOK ==
  ASSUME Inv, DataInv, NoRefusal, NEW v \in Values, Hopeful(v), VerifyImage
  PROVE  NoRefusal'
<1>0. pc = "image" /\ pc \in FrameStep /\ Calm /\ slot' = slot
  BY DEF VerifyImage, FrameStep, Calm, call
<1>1. Top \in Frame /\ StageOK(world, Top, "image") /\ TypeOK /\ stack # <<>> /\ VB \in VBMeta
  BY <1>0, FrameFacts, TopType DEF NoRefusal, FramesOK
<1>2. VB.verify = "OK" /\ (~IsMain => VB.flags = {})
  <2>1. ~IsMain \/ Disk(world, Top.part).present
    BY <1>0, FrameFacts, DataBefore DEF TopData, Found
  <2> QED BY <1>0, <2>1, TopPasses DEF Hopeful
<1> DEFINE f == IF IsMain THEN [Top EXCEPT !.flags = VB.flags] ELSE Top
<1>3. SetTop(f) /\ pc' = "key" /\ pc' \in FrameStep
  BY <1>2 DEF VerifyImage, FrameStep, SoftVerify
<1>4. f \in Frame /\ f.n = Top.n /\ StageOK(world, f, "key")
  BY <1>1 DEF Frame, VBMeta, StageOK, Keyed
<1> HIDE DEF f
<1> QED BY <1>0, <1>3, <1>4, ForwardOK DEF Unrecorded

LEMMA KeyOK ==
  ASSUME Inv, DataInv, NoRefusal, NEW v \in Values, Hopeful(v), CheckKey
  PROVE  NoRefusal'
<1>0. pc = "key" /\ pc \in FrameStep /\ Calm /\ slot' = slot
  BY DEF CheckKey, FrameStep, Calm, call
<1>1. /\ Top \in Frame /\ StageOK(world, Top, "key") /\ TypeOK
      /\ world.noVbmeta => Top.expect = NoKey
  BY <1>0, FrameFacts DEF NoRefusal, FramesOK
<1>2. VB.verify = "OK" /\ TrustedKey(world, VB, Top.expect)
  <2>1. ~IsMain \/ Disk(world, Top.part).present
    BY <1>0, FrameFacts, DataBefore DEF TopData, Found
  <2> QED BY <1>0, <2>1, TopPasses DEF Hopeful
<1> DEFINE f == IF world.noVbmeta THEN [Top EXCEPT !.locUse = world.locOf[Top.part]] ELSE Top
<1>3. SetTop(f) /\ pc' = "rollback" /\ pc' \in FrameStep
  BY <1>1, <1>2 DEF CheckKey, FrameStep
<1>4. f \in Frame /\ f.n = Top.n /\ StageOK(world, f, "rollback")
  <2>1. world.locOf[Top.part] \in Location
    BY <1>1 DEF Frame, TypeOK, World
  <2> QED BY <1>1, <2>1 DEF Frame, StageOK, Keyed
<1> HIDE DEF f
<1> QED BY <1>0, <1>3, <1>4, ForwardOK DEF Unrecorded

LEMMA RollbackOK ==
  ASSUME Inv, DataInv, NoRefusal, NEW v \in Values, Hopeful(v), CheckRollback
  PROVE  NoRefusal'
<1>0. pc = "rollback" /\ pc \in FrameStep /\ Calm
  BY DEF CheckRollback, FrameStep, Calm, call
<1>1. /\ Top \in Frame /\ StageOK(world, Top, "rollback") /\ TypeOK /\ VB \in VBMeta
      /\ Top.part \in Name /\ world \in World
  BY <1>0, FrameFacts, TopType DEF NoRefusal, FramesOK, TypeOK, Frame
<1>2. ~(VB.rollback < world.stored[Top.locUse])
  <2>1. ~IsMain \/ Disk(world, Top.part).present
    BY <1>0, FrameFacts, DataBefore DEF TopData, Found
  <2>2. VB.rollback >= world.stored[Top.locUse]
    BY <1>0, <1>1, <2>1, TopPasses DEF Hopeful, StageOK
  <2>3. VB.rollback \in Nat /\ world.stored[Top.locUse] \in Nat
    BY <1>1 DEF VBMeta, World, Frame
  <2> QED BY <2>2, <2>3
<1>3. Len(slot.images) = Cardinality(Filed) /\ Len(slot.loaded) = Cardinality(PairsPassed)
  BY <1>0 DEF NoRefusal, TablesCounted
<1>4. /\ Filed \subseteq Structs(world) /\ IsFiniteSet(Structs(world))
      /\ Cardinality(Structs(world)) <= MAX_VBMETA
  BY <1>1, StructFacts DEF Filed, Hopeful, Fits, TablesFit
<1>5. Len(slot.images) # MAX_VBMETA
  <2>1. Here \in Structs(world) \ Filed
    BY <1>0, HereUnfiled
  <2>2. /\ Cardinality(Structs(world)) \in Nat /\ Cardinality(Filed) \in Nat
        /\ Cardinality(Filed) < Cardinality(Structs(world))
    BY <1>4, <2>1, OneMore
  <2> QED BY <1>3, <1>4, <2>2, LimitAssumption
<1> DEFINE x == [part |-> Top.part, vb |-> VB]
<1>6. /\ SetTop(Top) /\ pc' \in {"load", "list"} /\ pc' \in FrameStep
      /\ slot' = [slot EXCEPT !.images = Append(@, x)]
  BY <1>2, <1>5 DEF CheckRollback, FrameStep
<1>7. Filed' = Filed \union {Here} /\ Here \in Structs(world) \ Filed
  BY <1>0, <1>1, <1>6, HereUnfiled, RecordCounts DEF Calm
<1>8. TablesCounted'
  <2>1. Cardinality(Filed') = Cardinality(Filed) + 1
    BY <1>4, <1>7, OneMore
  <2>2. Len(slot'.images) = Len(slot.images) + 1 /\ slot'.loaded = slot.loaded
    <3>1. slot \in SlotData /\ slot.images \in Seq(Image)
      BY <1>1 DEF TypeOK, SlotData
    <3> HIDE DEF x
    <3>2. slot'.images = Append(slot.images, x) /\ slot'.loaded = slot.loaded
      BY <1>6, <3>1 DEF SlotData
    <3> QED BY <3>1, <3>2
  <2>3. PairsPassed' = PairsPassed
    BY <1>0, <1>1, <1>6, SameCounts DEF Calm
  <2> QED BY <1>3, <2>1, <2>2, <2>3 DEF TablesCounted
<1>9. GuidsThere'
  <2>1. slot'.cmdline = slot.cmdline
    BY <1>1, <1>6 DEF TypeOK, SlotData
  <2> QED BY <1>0, <2>1 DEF NoRefusal, GuidsThere, Calm
<1>10. StageOK(world, Top, pc')
  BY <1>1, <1>6 DEF StageOK, Keyed
<1> QED BY <1>0, <1>1, <1>6, <1>8, <1>9, <1>10, InnerOK
\* With verification disabled the tables are still empty.
LEMMA LoadRequestedOK ==
  ASSUME Inv, DataInv, NoRefusal, NEW v \in Values, Hopeful(v), LoadRequested
  PROVE  NoRefusal'
<1>0. pc = "load" /\ pc \in FrameStep /\ Calm
  BY DEF LoadRequested, FrameStep, Calm, call
<1>1. /\ Top \in Frame /\ StageOK(world, Top, "load") /\ TypeOK /\ stack # <<>> /\ world \in World
      /\ IsMain <=> Main(world, Top)
      /\ IsMain => Top = stack[1] /\ Len(stack) = 1 /\ ~world.noVbmeta
  BY <1>0, FrameFacts DEF NoRefusal, FramesOK, TypeOK
<1>2. IsMain
  BY <1>0 DEF DataInv, FrameData, FlagsRead, DisabledBy
<1>3. slot.loaded = <<>>
  <2>1. stack[1].n = 1
    BY <1>1, <1>2 DEF StageOK
  <2>2. ASSUME NEW x \in LoadPairs(world)
        PROVE  ~Passed(x[1], x[2])
    <3>1. x[1] \in Structs(world) /\ x[2] \in Loads(world, StructPart(world, x[1]))
      BY PairFacts
    <3>2. VBMetaIn(world, StructPart(world, x[1])).descs \in Seq(Desc) /\ x[1] \in Nat
      BY <1>1, <3>1, StructFacts, VBMetaInType DEF VBMeta
    <3>3. x[2] \in Nat \ {0}
      BY <3>1, <3>2 DEF Loads
    <3> QED BY <1>1, <1>2, <2>1, <3>2, <3>3 DEF Passed
  <2>3. PairsPassed = {}
    BY <2>2 DEF PairsPassed
  <2>4. Len(slot.loaded) = 0
    BY <1>0, <2>3, FS_EmptySet DEF NoRefusal, TablesCounted
  <2> QED BY <1>1, <2>4, SlotFacts
<1>4. /\ \A i \in DOMAIN world.requested : Disk(world, world.requested[i]).present
      /\ ~(Len(slot.loaded) + Len(world.requested) > MAX_LOADED)
  <2>1. Len(world.requested) \in Nat /\ Len(slot.loaded) = 0
    BY <1>1, <1>3 DEF World
  <2> QED BY <2>1, LimitAssumption DEF Hopeful, Fits, Bootable, TablesFit
<1>5. /\ pc' = "return" /\ pc' \in FrameStep /\ stack' = stack
      /\ slot' = [slot EXCEPT !.loaded = @ \o world.requested]
  BY <1>4 DEF LoadRequested, FrameStep
<1>6. SetTop(Top) /\ StageOK(world, Top, "return")
  BY <1>1, <1>2, <1>5, SetTopSame DEF StageOK, Keyed
<1>7. GuidsThere'
  <2>1. slot'.cmdline = slot.cmdline
    BY <1>1, <1>5 DEF TypeOK, SlotData
  <2> QED BY <1>0, <2>1 DEF NoRefusal, GuidsThere, Calm
<1>8. TablesCounted'
  <2>1. IsMain'
    BY <1>0, <1>2, <1>5 DEF IsMain, Top, Calm
  <2> QED BY <1>5, <2>1 DEF TablesCounted
<1> QED BY <1>0, <1>1, <1>5, <1>6, <1>7, <1>8, InnerOK

LEMMA ListOK ==
  ASSUME Inv, NoRefusal, ListDescriptors
  PROVE  NoRefusal'
<1>0. pc = "list" /\ pc \in FrameStep /\ Calm /\ slot' = slot /\ pc' = "desc" /\ pc' \in FrameStep /\ stack' = stack
  BY DEF ListDescriptors, FrameStep, Calm, call
<1>1. /\ Top \in Frame /\ StageOK(world, Top, "list") /\ TypeOK /\ stack # <<>>
  BY <1>0, FrameFacts DEF NoRefusal, FramesOK
<1>2. SetTop(Top) /\ StageOK(world, Top, "desc")
  BY <1>0, <1>1, SetTopSame DEF StageOK, Keyed
<1> QED BY <1>0, <1>1, <1>2, ForwardOK DEF Unrecorded

\* The loop goes on to the next descriptor.
LEMMA NextDescOK ==
  ASSUME Inv, DataInv, NoRefusal, NEW t, AtDesc(t), t # "chain", NEW g \in Frame, NextDesc(g),
         g.n = Top.n, g.ret = "OK", Calm, GuidsThere', slot'.images = slot.images,
         Len(slot'.loaded) = Len(slot.loaded) + IF t = "hash" /\ Requested(world, D.part) THEN 1 ELSE 0
  PROVE  NoRefusal'
<1>0. pc = "desc" /\ pc \in FrameStep /\ pc' = "desc" /\ pc' \in FrameStep
  BY DEF AtDesc, NextDesc, FrameStep
<1>1. Top \in Frame /\ TypeOK
  BY <1>0, FrameFacts
<1> DEFINE f == [g EXCEPT !.n = @ + 1]
<1>2. f \in Frame /\ f.n = Top.n + 1 /\ SetTop(f) /\ StageOK(world, f, "desc")
  BY <1>1 DEF Frame, NextDesc, StageOK, Keyed
<1> HIDE DEF f
<1>3. /\ Filed' = Filed
      /\ <<Here, Top.n>> \notin PairsPassed
      /\ PairsPassed' = PairsPassed \union ({<<Here, Top.n>>} \cap LoadPairs(world))
      /\ <<Here, Top.n>> \in LoadPairs(world) <=> t = "hash" /\ Requested(world, D.part)
  BY <1>0, <1>2, NextCounts DEF Calm
<1>4. Len(slot.images) = Cardinality(Filed) /\ Len(slot.loaded) = Cardinality(PairsPassed)
  BY <1>0 DEF NoRefusal, TablesCounted
<1>5. Len(slot'.loaded) = Cardinality(PairsPassed')
  <2>1. CASE t = "hash" /\ Requested(world, D.part)
    <3>1. PairsPassed' = PairsPassed \union {<<Here, Top.n>>} /\ <<Here, Top.n>> \in LoadPairs(world)
      BY <1>3, <2>1
    <3>2. IsFiniteSet(LoadPairs(world)) /\ PairsPassed \subseteq LoadPairs(world)
      BY <1>1, PairsFinite DEF TypeOK, PairsPassed
    <3>3. Cardinality(PairsPassed \union {<<Here, Top.n>>}) = Cardinality(PairsPassed) + 1
      BY <1>3, <3>1, <3>2, OneMore
    <3> QED BY <1>4, <2>1, <3>1, <3>3
  <2>2. CASE ~(t = "hash" /\ Requested(world, D.part))
    <3>1. PairsPassed' = PairsPassed
      BY <1>3, <2>2
    <3>2. Len(slot.loaded) \in Nat
      BY <1>1, SlotFacts
    <3> QED BY <1>4, <2>2, <3>1, <3>2
  <2> QED BY <2>1, <2>2
<1>6. TablesCounted'
  BY <1>3, <1>4, <1>5 DEF TablesCounted
<1> QED BY <1>0, <1>2, <1>6, InnerOK

\* What a hash descriptor answers.
LEMMA HashAccepted ==
  ASSUME Inv, DataInv, NEW v \in Values, Hopeful(v)', HashDesc, world' = world
  PROVE  /\ HashVerdict(world, values, D) = "OK"
         /\ Digested <=> Requested(world, D.part)
<1>0. AtDesc("hash") /\ Verified(world, v) /\ Later(world, values', v) /\ TypeOK
  BY DEF HashDesc, Hopeful, Inv, TypeInv
<1>1. D \in Desc /\ D.tag = "hash" /\ Holds(world, v, D)
  BY <1>0, DescPasses
<1>2. D.part \in Name /\ HashTarget(world, D) \in Partition
  BY <1>0, <1>1, HashTargetType DEF TypeOK
<1>3. HashTarget(world, D).body \in Digest
  BY <1>2 DEF Partition
<1>4. ASSUME Requested(world, D.part)
      PROVE  HashTarget(world, D).body = ExpectedDigest(world, values, D)
  <2>1. HashTarget(world, D).body = (IF D.digest = NoDigest THEN v[D.part] ELSE D.digest)
    BY <1>1, <1>4 DEF Holds
  <2>2. CASE D.digest # NoDigest
    BY <2>1, <2>2 DEF ExpectedDigest
  <2>3. CASE D.digest = NoDigest /\ Initializes(world, values, D)
    BY <2>3 DEF ExpectedDigest
  <2>4. CASE D.digest = NoDigest /\ ~Initializes(world, values, D)
    <3>1. values' = values /\ v[D.part] # NoDigest
      BY <1>3, <2>1, <2>4, SentinelAssumption DEF HashDesc
    <3>2. v[D.part] = values[D.part]
      BY <1>0, <1>2, <2>4, <3>1 DEF Later, Grows, Initializes
    <3> QED BY <2>1, <2>4, <3>2 DEF ExpectedDigest
  <2> QED BY <2>2, <2>3, <2>4
<1>5. HashVerdict(world, values, D) = "OK"
  BY <1>1, <1>4 DEF HashVerdict, Holds
<1> QED BY <1>5 DEF Digested

LEMMA HashOK ==
  ASSUME Inv, DataInv, NoRefusal, NEW v \in Values, Hopeful(v), Hopeful(v)', HashDesc
  PROVE  NoRefusal'
<1>0. AtDesc("hash") /\ pc = "desc" /\ pc \in FrameStep /\ Calm
  BY DEF HashDesc, AtDesc, FrameStep, Calm, call
<1>1. Top \in Frame /\ StageOK(world, Top, "desc") /\ TypeOK /\ world \in World
  BY <1>0, FrameFacts DEF NoRefusal, FramesOK, TypeOK
<1>2. HashVerdict(world, values, D) = "OK" /\ (Digested <=> Requested(world, D.part))
  BY <1>0, HashAccepted DEF Calm
<1>3. Requested(world, D.part) => Len(slot.loaded) # MAX_LOADED
  <2> SUFFICES ASSUME Requested(world, D.part) PROVE Len(slot.loaded) # MAX_LOADED
    OBVIOUS
  <2>1. <<Here, Top.n>> \in LoadPairs(world)
    <3>1. Here \in Structs(world) /\ StructPart(world, Here) = Top.part
      BY <1>0, HereIs DEF Found
    <3>2. D.tag = "hash" /\ Top.n \in DOMAIN VB.descs
      BY <1>0, DescPasses DEF Hopeful
    <3>3. Top.n \in Loads(world, Top.part)
      BY <3>2 DEF Loads, VB, D
    <3> QED BY <3>1, <3>3, PairFacts
  <2>2. <<Here, Top.n>> \notin PairsPassed
    <3>1. ~Passed(Here, Top.n)
      <4>1. /\ Len(stack) \in {1, 2} /\ stack[1] \in Frame
            /\ Len(stack) = 1 => Top = stack[1]
            /\ Len(stack) = 2 => Top = stack[2] /\ ~world.noVbmeta
        BY <1>0, FrameFacts
      <4>2. stack[1].n \in Nat \ {0} /\ Top.n \in Nat /\ nreq \in Nat
        BY <1>1, <4>1 DEF Frame, TypeOK
      <4> QED BY <1>0, <4>1, <4>2 DEF Passed, Here
    <3> QED BY <3>1 DEF PairsPassed
  <2>3. IsFiniteSet(LoadPairs(world)) /\ PairsPassed \subseteq LoadPairs(world)
    BY <1>1, PairsFinite DEF PairsPassed
  <2>4. /\ Cardinality(LoadPairs(world)) \in Nat /\ Cardinality(PairsPassed) \in Nat
        /\ Cardinality(PairsPassed) < Cardinality(LoadPairs(world))
    BY <2>1, <2>2, <2>3, OneMore
  <2>5. Cardinality(LoadPairs(world)) <= MAX_LOADED
    BY DEF Hopeful, Fits, TablesFit, LoadPairs
  <2>6. Len(slot.loaded) = Cardinality(PairsPassed)
    BY <1>0 DEF NoRefusal, TablesCounted
  <2> QED BY <2>4, <2>5, <2>6, LimitAssumption
<1>4. /\ NextDesc(Top)
      /\ slot' = IF Requested(world, D.part) THEN [slot EXCEPT !.loaded = Append(@, D.part)] ELSE slot
  BY <1>2, <1>3 DEF HashDesc, AfterHash
<1>5. /\ slot'.images = slot.images /\ slot'.cmdline = slot.cmdline
      /\ Len(slot'.loaded) = Len(slot.loaded) + IF Requested(world, D.part) THEN 1 ELSE 0
  <2>1. slot \in SlotData /\ slot.loaded \in Seq(Name) /\ D.part \in Name
    <3>1. D \in Desc /\ D.tag = "hash"
      BY <1>0, DescPasses DEF Hopeful
    <3> QED BY <1>1, <3>1, HashTargetType DEF TypeOK, SlotData
  <2>2. CASE Requested(world, D.part)
    <3>1. slot'.images = slot.images /\ slot'.cmdline = slot.cmdline /\ slot'.loaded = Append(slot.loaded, D.part)
      BY <1>4, <2>1, <2>2 DEF SlotData
    <3> QED BY <2>1, <2>2, <3>1
  <2>3. CASE ~Requested(world, D.part)
    BY <1>4, <2>1, <2>3
  <2> QED BY <2>2, <2>3
<1>6. GuidsThere'
  BY <1>0, <1>5 DEF NoRefusal, GuidsThere, Calm
<1> QED BY <1>0, <1>1, <1>4, <1>5, <1>6, NextDescOK DEF StageOK
LEMMA PropertyOK ==
  ASSUME Inv, DataInv, NoRefusal, PropertyDesc
  PROVE  NoRefusal'
<1>0. AtDesc("property") /\ pc = "desc" /\ pc \in FrameStep /\ Calm /\ NextDesc(Top) /\ slot' = slot
  BY DEF PropertyDesc, AtDesc, FrameStep, Calm, call
<1>1. Top \in Frame /\ Top.ret = "OK" /\ Len(slot.loaded) \in Nat
  BY <1>0, FrameFacts, SlotFacts DEF NoRefusal, FramesOK, StageOK
<1>2. GuidsThere'
  BY <1>0 DEF NoRefusal, GuidsThere, Calm
<1>3. /\ "property" # "chain"
      /\ Len(slot'.loaded) = Len(slot.loaded)
                               + IF "property" = "hash" /\ Requested(world, D.part) THEN 1 ELSE 0
  BY <1>0, <1>1
<1> QED BY <1>0, <1>1, <1>2, <1>3, NextDescOK

LEMMA CmdlineOK ==
  ASSUME Inv, DataInv, NoRefusal, NEW v \in Values, Hopeful(v), CmdlineDesc
  PROVE  NoRefusal'
<1>0. AtDesc("cmdline") /\ pc = "desc" /\ pc \in FrameStep /\ Calm
  BY DEF CmdlineDesc, AtDesc, FrameStep, Calm, call
<1>1. Top \in Frame /\ Top.ret = "OK" /\ TypeOK /\ Len(slot.loaded) \in Nat
  BY <1>0, FrameFacts, SlotFacts DEF NoRefusal, FramesOK, StageOK
<1>2. Holds(world, v, D) /\ D.tag = "cmdline" /\ D \in Desc /\ Top.n \in DOMAIN VB.descs
  BY <1>0, DescPasses DEF Hopeful
<1> DEFINE s == [kind |-> "desc", when |-> D.when, part |-> D.part]
<1>3. NextDesc(Top) /\ (slot' = slot \/ slot' = [slot EXCEPT !.cmdline = Append(@, s)])
  BY <1>2 DEF CmdlineDesc, Holds
<1>4. /\ slot'.images = slot.images /\ slot'.loaded = slot.loaded
      /\ slot'.cmdline = slot.cmdline \/ slot'.cmdline = Append(slot.cmdline, s)
  BY <1>1, <1>3 DEF TypeOK, SlotData
<1>5. s.part = D.part
  OBVIOUS
<1>6. GuidsThere'
  <2> SUFFICES ASSUME world.noVbmeta, ~Disk(world, "vbmeta").present, NEW i \in DOMAIN slot'.cmdline
               PROVE  slot'.cmdline[i].part # "vbmeta"
    BY <1>0 DEF GuidsThere, Calm
  <2>1. slot.cmdline \in Seq(Snippet) /\ (\A k \in DOMAIN slot.cmdline : slot.cmdline[k].part # "vbmeta")
    BY <1>1, SlotFacts DEF NoRefusal, GuidsThere
  <2>2. D.part # "vbmeta"
    <3>1. Top.part \in Name
      BY <1>1 DEF Frame
    <3> QED BY <1>2, <3>1 DEF Hopeful, Fits, Bootable, VB, D
  <2> HIDE DEF s
  <2>3. CASE slot'.cmdline = slot.cmdline
    BY <2>1, <2>3
  <2>4. CASE slot'.cmdline = Append(slot.cmdline, s)
    <3>1. slot'.cmdline[i] = s \/ (i \in DOMAIN slot.cmdline /\ slot'.cmdline[i] = slot.cmdline[i])
      BY <2>1, <2>4
    <3> QED BY <1>5, <2>1, <2>2, <3>1
  <2> QED BY <1>4, <2>3, <2>4
<1>7. /\ "cmdline" # "chain"
      /\ Len(slot'.loaded) = Len(slot.loaded)
                               + IF "cmdline" = "hash" /\ Requested(world, D.part) THEN 1 ELSE 0
  BY <1>1, <1>4
<1> QED BY <1>0, <1>1, <1>3, <1>4, <1>6, <1>7, NextDescOK

\* What a hashtree descriptor answers: no digest it relies on is stored later.
LEMMA HashtreeAccepted ==
  ASSUME Inv, DataInv, NEW v \in Values, Hopeful(v), AtDesc("hashtree")
  PROVE  HashtreeVerdict(world, values, D) = "OK"
<1>1. Holds(world, v, D) /\ D.tag = "hashtree" /\ D \in Desc /\ Top.n \in DOMAIN VB.descs
  BY DescPasses DEF Hopeful
<1>2. D.part \in Name /\ Top.part \in Name
  <2>1. pc \in FrameStep
    BY DEF AtDesc, FrameStep
  <2> QED BY <1>1, <2>1, FrameFacts DEF Desc, Frame
<1>3. ASSUME Persistent(D)
      PROVE  values[D.part] # NoDigest
  <2>1. ~Storable(world, D.part)
    <3> SUFFICES ASSUME Storable(world, D.part) PROVE FALSE
      OBVIOUS
    <3>1. PICK q \in Name : \E i \in DOMAIN VBMetaIn(world, q).descs :
             LET d == VBMetaIn(world, q).descs[i]
             IN d.tag = "hash" /\ d.digest = NoDigest /\ d.part = D.part
      BY DEF Storable
    <3>2. PICK i \in DOMAIN VBMetaIn(world, q).descs :
             LET d == VBMetaIn(world, q).descs[i]
             IN d.tag = "hash" /\ d.digest = NoDigest /\ d.part = D.part
      BY <3>1
    <3>3. UnsharedDigests(world)
      BY DEF Hopeful, Fits
    <3>4. D = VBMetaIn(world, Top.part).descs[Top.n] /\ Top.n \in DOMAIN VBMetaIn(world, Top.part).descs
      BY <1>1 DEF D, VB
    <3> QED BY <1>2, <1>3, <3>2, <3>3, <3>4 DEF UnsharedDigests
  <2>2. v[D.part] = values[D.part]
    BY <1>2, <2>1 DEF Hopeful, Later
  <2> QED BY <1>1, <1>3, <2>2 DEF Holds
<1>4. CASE ~Persistent(D)
  BY <1>1, <1>4 DEF HashtreeVerdict, Holds, Persistent
<1>5. CASE Persistent(D)
  BY <1>1, <1>3, <1>5 DEF HashtreeVerdict, Holds
<1> QED BY <1>4, <1>5

LEMMA HashtreeOK ==
  ASSUME Inv, DataInv, NoRefusal, NEW v \in Values, Hopeful(v), HashtreeDesc
  PROVE  NoRefusal'
<1>0. AtDesc("hashtree") /\ pc = "desc" /\ pc \in FrameStep /\ Calm
  BY DEF HashtreeDesc, AtDesc, FrameStep, Calm, call
<1>1. /\ Top \in Frame /\ Top.ret = "OK" /\ TypeOK /\ Len(slot.loaded) \in Nat /\ slot.subst \in Nat
      /\ VB = VBOf(world, Top) /\ VB \in VBMeta /\ Len(stack) \in {1, 2}
      /\ Len(stack) = 1 => Top = stack[1]
      /\ Len(stack) = 2 => Top.expect # NoKey
      /\ Top.part \in Name /\ ~blind
  BY <1>0, FrameFacts, SlotFacts, AtDescFacts DEF NoRefusal, FramesOK, StageOK, Frame
<1>2. HashtreeVerdict(world, values, D) = "OK" /\ Top.n \in DOMAIN VB.descs
  BY <1>0, HashtreeAccepted, DescPasses DEF Hopeful
<1>3. ASSUME Persistent(D), Top.expect = NoKey
      PROVE  ~(slot.subst >= MAX_SUBST)
  <2> DEFINE all == {i \in DOMAIN VB.descs : Persistent(VB.descs[i])}
  <2>1. Len(stack) = 1 /\ Top = stack[1]
    BY <1>1, <1>3
  <2>2. IsFiniteSet(all) /\ Top.n \in all
    <3>1. DOMAIN VB.descs = 1 .. Len(VB.descs) /\ Len(VB.descs) \in Nat
      BY <1>1 DEF VBMeta
    <3>2. IsFiniteSet(1 .. Len(VB.descs)) /\ all \subseteq 1 .. Len(VB.descs)
      BY <3>1, FS_Interval
    <3> QED BY <1>2, <1>3, <3>2, FS_Subset DEF D
  <2>3. Cardinality(all) <= IF world.noVbmeta THEN 0 ELSE MAX_SUBST
    BY <1>1 DEF Hopeful, Fits, RootsFit, VB
  <2>4. Roots(VB, Top.n) \subseteq all /\ Top.n \notin Roots(VB, Top.n)
    BY <1>1 DEF Roots, Frame
  <2> HIDE DEF all
  <2>5. /\ Cardinality(all) \in Nat /\ Cardinality(Roots(VB, Top.n)) \in Nat
        /\ Cardinality(Roots(VB, Top.n)) < Cardinality(all)
    BY <2>2, <2>4, OneMore
  <2>6. ~world.noVbmeta
    BY <2>3, <2>5
  <2>7. slot.subst = Cardinality(Roots(VB, Top.n))
    BY <1>0, <1>1, <2>1, <2>6 DEF DataInv, RootsCounted, TopStage, Counted
  <2> QED BY <2>3, <2>5, <2>6, <2>7, LimitAssumption
<1>4. /\ \/ NextDesc(Top) /\ slot' = slot
         \/ NextDesc([Top EXCEPT !.ret = "OK"]) /\ slot' = slot
         \/ NextDesc([Top EXCEPT !.ret = "OK"]) /\ slot' = [slot EXCEPT !.subst = @ + 1]
  BY <1>2, <1>3 DEF HashtreeDesc
<1>5. [Top EXCEPT !.ret = "OK"] = Top
  BY <1>1 DEF Frame
<1>6. NextDesc(Top) /\ slot'.images = slot.images /\ slot'.loaded = slot.loaded /\ slot'.cmdline = slot.cmdline
  BY <1>1, <1>4, <1>5 DEF TypeOK, SlotData
<1>7. GuidsThere'
  BY <1>0, <1>6 DEF NoRefusal, GuidsThere, Calm
<1>8. /\ "hashtree" # "chain"
      /\ Len(slot'.loaded) = Len(slot.loaded)
                               + IF "hashtree" = "hash" /\ Requested(world, D.part) THEN 1 ELSE 0
  BY <1>1, <1>6
<1> QED BY <1>0, <1>1, <1>6, <1>7, <1>8, NextDescOK

LEMMA FinishOK ==
  ASSUME Inv, DataInv, NoRefusal, NEW v \in Values, Hopeful(v), FinishVBMeta
  PROVE  NoRefusal'
<1>0. pc = "desc" /\ pc \in FrameStep /\ Calm /\ Top.n > Len(VB.descs)
  BY DEF FinishVBMeta, FrameStep, Calm, call
<1>1. /\ Top \in Frame /\ StageOK(world, Top, "desc") /\ TypeOK /\ stack # <<>> /\ VB = VBOf(world, Top)
      /\ IsMain => TopData(world, Top, "desc", slot)
  BY <1>0, AtDescFacts DEF NoRefusal, FramesOK
<1>2. ~(Top.loc >= MAX_LOCATIONS)
  <2>1. ~IsMain \/ Disk(world, Top.part).present
    BY <1>1 DEF TopData, Found
  <2>2. Top.loc < MAX_LOCATIONS /\ Top.loc \in Nat
    BY <1>0, <1>1, <2>1, TopPasses, LimitAssumption DEF Hopeful, Frame
  <2> QED BY <2>2, LimitAssumption
<1>3. /\ pc' = "return" /\ pc' \in FrameStep /\ stack' = stack
      /\ slot' = [slot EXCEPT !.rollback[Top.loc] = VB.rollback]
  BY <1>2 DEF FinishVBMeta, FrameStep
<1>4. slot'.images = slot.images /\ slot'.loaded = slot.loaded /\ slot'.cmdline = slot.cmdline
  BY <1>1, <1>3 DEF TypeOK, SlotData
<1>5. SetTop(Top) /\ StageOK(world, Top, "return")
  BY <1>0, <1>1, <1>3, SetTopSame DEF StageOK, Keyed
<1>6. TablesCounted'
  BY <1>0, <1>1, <1>3, <1>4, <1>5, TablesKept DEF Unrecorded
<1>7. GuidsThere'
  BY <1>0, <1>4 DEF NoRefusal, GuidsThere, Calm
<1> QED BY <1>0, <1>1, <1>3, <1>5, <1>6, <1>7, InnerOK
\* Positions in a list of descriptors.
LEMMA PairTypes ==
  ASSUME NEW w \in World, NEW x \in LoadPairs(w)
  PROVE  /\ x[1] \in Structs(w) /\ x[1] \in Nat /\ x[2] \in Nat \ {0}
         /\ x[2] \in Loads(w, StructPart(w, x[1]))
         /\ x[2] <= Len(VBMetaIn(w, StructPart(w, x[1])).descs)
<1>1. x[1] \in Structs(w) /\ x[2] \in Loads(w, StructPart(w, x[1]))
  BY PairFacts
<1>2. VBMetaIn(w, StructPart(w, x[1])).descs \in Seq(Desc) /\ x[1] \in Nat
  BY <1>1, StructFacts, VBMetaInType DEF VBMeta
<1> QED BY <1>1, <1>2 DEF Loads

LEMMA ChainOK ==
  ASSUME Inv, DataInv, NoRefusal, NEW v \in Values, Hopeful(v), ChainDesc
  PROVE  NoRefusal'
<1>0. AtDesc("chain") /\ pc = "desc" /\ pc \in FrameStep /\ Calm /\ slot' = slot
  BY DEF ChainDesc, AtDesc, FrameStep, Calm, call
<1>1. /\ Top \in Frame /\ Top.ret = "OK" /\ TypeOK /\ Len(stack) \in {1, 2} /\ stack \in Seq(Frame)
      /\ IsMain <=> Main(world, Top)
      /\ IsMain => Len(stack) = 1 /\ ~world.noVbmeta /\ Top = stack[1]
  BY <1>0, FrameFacts DEF NoRefusal, FramesOK, StageOK
<1>2. IsMain /\ D.bad # "layout" /\ D.loc # 0
  <2>1. Dealt(world, v, Top, D) /\ Holds(world, v, D) /\ D.tag = "chain"
    BY <1>0, DescPasses DEF Hopeful
  <2>2. IsMain /\ D.loc \in 1 .. MAX_LOCATIONS - 1
    BY <1>1, <2>1 DEF Dealt, DescVerified
  <2> QED BY <2>1, <2>2 DEF Holds
<1> DEFINE f == NewFrame(D.part, D.loc, D.key, Top.flags)
<1>3. stack' = Append(stack, f) /\ pc' = "locate" /\ pc' \in FrameStep
  BY <1>2 DEF ChainDesc, FrameStep
<1>4. f.n = 1 /\ StageOK(world, f, "locate") /\ f \in Frame
  <2>1. D \in Desc /\ D.part \in Name
    BY <1>0, <1>1, DescPasses, HashTargetType DEF Hopeful, TypeOK
  <2>2. f \in Frame
    BY <1>1, <2>1, NewFrameType DEF Frame, Desc
  <2> QED BY <2>2 DEF NewFrame, StageOK, Keyed
<1> HIDE DEF f
<1>5. Len(stack) = 1 /\ Len(stack') = 2 /\ stack'[1] = stack[1] /\ stack'[2] = f /\ Top' = f
  <2>1. Len(stack) = 1 /\ stack \in Seq(Frame) /\ f \in Frame
    BY <1>1, <1>2, <1>4
  <2>2. Len(stack') = 2 /\ stack'[1] = stack[1] /\ stack'[2] = f
    <3>1. stack' = Append(stack, f)
      BY <1>3
    <3>2. Len(stack') = Len(stack) + 1 /\ stack'[Len(stack) + 1] = f
      BY <2>1, <3>1, AppendProperties
    <3>3. stack'[1] = stack[1]
      BY <2>1, <3>1, AppendProperties
    <3> QED BY <2>1, <3>2, <3>3
  <2> QED BY <2>1, <2>2 DEF Top
<1>6. FramesOK'
  BY <1>0, <1>1, <1>2, <1>3, <1>4, <1>5 DEF FramesOK, Calm
<1>7. stack[1].n \in Nat \ {0} /\ world' = world /\ nreq' = nreq /\ ~world.noVbmeta
  BY <1>0, <1>1, <1>2 DEF Frame, Calm
<1>8. Filed' = Filed
  <2>1. Bound = stack[1].n /\ Bound' = stack[1].n
    BY <1>0, <1>3, <1>5, <1>7 DEF Bound, Unrecorded
  <2> QED BY <1>7, <2>1 DEF Filed
<1>9. PairsPassed' = PairsPassed
  <2>1. ASSUME NEW x \in LoadPairs(world)
        PROVE  Passed(x[1], x[2])' <=> Passed(x[1], x[2])
    <3>1. x[2] \in Nat \ {0}
      BY <1>1, PairTypes DEF TypeOK
    <3> QED BY <1>4, <1>5, <1>7, <3>1 DEF Passed
  <2>2. PairsPassed' = {x \in LoadPairs(world) : Passed(x[1], x[2])'}
    BY <1>7 DEF PairsPassed
  <2> QED BY <2>1, <2>2 DEF PairsPassed
<1>10. TablesCounted'
  BY <1>0, <1>8, <1>9 DEF NoRefusal, TablesCounted
<1>11. GuidsThere'
  BY <1>0 DEF NoRefusal, GuidsThere, Calm
<1> QED BY <1>0, <1>6, <1>10, <1>11 DEF NoRefusal, Calm

LEMMA ReturnToChainOK ==
  ASSUME Inv, DataInv, NoRefusal, ReturnToChain
  PROVE  NoRefusal'
<1>0. pc = "return" /\ pc \in FrameStep /\ Calm /\ slot' = slot /\ Len(stack) > 1
  BY DEF ReturnToChain, FrameStep, Calm, call
<1>1. /\ TypeOK /\ Top \in Frame /\ stack \in Seq(Frame) /\ stack[1] \in Frame /\ Len(stack) = 2 /\ Top = stack[2]
      /\ ~world.noVbmeta /\ VB = VBOf(world, Top) /\ ~IsMain /\ ~Main(world, Top)
  <2>1. \A k \in {1, 2} : k > 1 => k = 2
    OBVIOUS
  <2>2. Len(stack) = 2
    BY <1>0, <2>1, FrameFacts
  <2> QED BY <1>0, <2>2, FrameFacts
<1>2. /\ Top.ret = "OK" /\ stack[1].ret = "OK" /\ Top.n > Len(VB.descs)
      /\ CalledBy(world, stack[1], Top) /\ world \in World /\ nreq \in Nat
  BY <1>0, <1>1 DEF NoRefusal, FramesOK, StageOK, Inv, StackShape, TypeOK
<1> DEFINE g == [stack[1] EXCEPT !.n = @ + 1]
<1>3. stack' = [SubSeq(stack, 1, 1) EXCEPT ![1] = g] /\ pc' = "desc" /\ pc' \in FrameStep
  <2>1. Len(stack) - 1 = 1
    BY <1>1
  <2> QED BY <1>2, <2>1 DEF ReturnToChain, Continuable, FrameStep
<1>4. g \in Frame /\ g.n = stack[1].n + 1 /\ StageOK(world, g, "desc") /\ stack[1].n \in Nat \ {0} /\ Top.n \in Nat
  <2>1. stack[1].n \in Nat \ {0} /\ Top.n \in Nat
    BY <1>1 DEF Frame
  <2>2. g \in Frame /\ g.n = stack[1].n + 1 /\ g.ret = "OK"
    <3>1. \A c \in Frame : /\ [c EXCEPT !.n = @ + 1] \in Frame /\ [c EXCEPT !.n = @ + 1].n = c.n + 1
                            /\ [c EXCEPT !.n = @ + 1].ret = c.ret
      BY DEF Frame
    <3> QED BY <1>1, <1>2, <3>1
  <2> HIDE DEF g
  <2> QED BY <2>1, <2>2 DEF StageOK, Keyed
<1> HIDE DEF g
<1>5. Len(stack') = 1 /\ stack'[1] = g /\ Top' = g
  <2>1. \A i \in 1 .. 1 : stack[i] \in Frame
    BY <1>1
  <2>2. SubSeq(stack, 1, 1) \in Seq(Frame) /\ Len(SubSeq(stack, 1, 1)) = 1
    BY <2>1, SubSeqProperties
  <2> QED BY <1>3, <1>4, <2>2 DEF Top
<1>6. FramesOK'
  BY <1>0, <1>3, <1>4, <1>5 DEF FramesOK, Calm
<1>7. /\ Here = stack[1].n /\ StructPart(world, stack[1].n) = Top.part
      /\ TopDescs(world)[stack[1].n].tag = "chain"
  <2>1. Here = stack[1].n /\ TopStage = "desc"
    BY <1>1 DEF Here, TopStage
  <2>2. TopDescs(world) = VBOf(world, stack[1]).descs
    BY <1>0, <1>1, <2>1, TopFound DEF Found
  <2> QED BY <1>0, <1>1, <1>2, <2>1, <2>2, HereIs DEF CalledBy
<1>8. Filed' = Filed
  <2>1. Bound = stack[1].n + 1 /\ Bound' = stack[1].n + 1
    <3>1. Bound' = stack'[1].n + Len(stack') - 2 + 1
      BY <1>0, <1>1, <1>3 DEF Bound, Unrecorded, Calm
    <3>2. Bound = stack[1].n + Len(stack) - 2 + 1
      BY <1>0, <1>1 DEF Bound, Unrecorded
    <3> QED BY <1>1, <1>4, <1>5, <3>1, <3>2
  <2> QED BY <1>0, <2>1 DEF Filed, Calm
<1>9. PairsPassed' = PairsPassed
  <2>1. ASSUME NEW x \in LoadPairs(world)
        PROVE  Passed(x[1], x[2])' <=> Passed(x[1], x[2])
    <3>1. /\ x[1] \in Nat /\ x[2] \in Nat \ {0} /\ x[2] \in Loads(world, StructPart(world, x[1]))
          /\ x[2] <= Len(VBMetaIn(world, StructPart(world, x[1])).descs)
      BY <1>2, PairTypes
    <3>2. /\ Passed(x[1], x[2])' <=> IF x[1] = 0 THEN x[2] < stack[1].n + 1 ELSE x[1] < stack[1].n + 1
          /\ Passed(x[1], x[2]) <=> IF x[1] = 0 THEN x[2] < stack[1].n
                                    ELSE x[1] < stack[1].n \/ (x[1] = stack[1].n /\ x[2] < Top.n)
      BY <1>0, <1>1, <1>4, <1>5 DEF Passed, Calm
    <3>3. CASE x[1] = 0
      <4>1. x[2] # stack[1].n
        BY <1>1, <1>7, <3>1, <3>3 DEF Loads, StructPart, TopDescs
      <4> QED BY <1>4, <3>1, <3>2, <3>3, <4>1
    <3>4. CASE x[1] # 0 /\ x[1] = stack[1].n
      <4>1. x[2] <= Len(VB.descs) /\ Len(VB.descs) \in Nat
        BY <1>1, <1>2, <1>7, <3>1, <3>4, FrameDescs DEF VB
      <4> QED BY <1>2, <1>4, <3>1, <3>2, <3>4, <4>1
    <3>5. CASE x[1] # 0 /\ x[1] # stack[1].n
      BY <1>4, <3>1, <3>2, <3>5
    <3> QED BY <3>3, <3>4, <3>5
  <2>2. PairsPassed' = {x \in LoadPairs(world) : Passed(x[1], x[2])'}
    BY <1>0 DEF PairsPassed, Calm
  <2> QED BY <2>1, <2>2 DEF PairsPassed
<1>10. TablesCounted'
  BY <1>0, <1>1, <1>8, <1>9 DEF NoRefusal, TablesCounted
<1>11. GuidsThere'
  BY <1>0 DEF NoRefusal, GuidsThere, Calm
<1> QED BY <1>0, <1>6, <1>10, <1>11 DEF NoRefusal, Calm
-----------------------------------------------------------------------------
(***************************************************************************)
(* The rest of the call.                                                   *)
(***************************************************************************)
LEMMA ReturnToSlotOK ==
  ASSUME Inv, DataInv, NoRefusal, ReturnToSlot
  PROVE  NoRefusal'
<1>0. /\ pc = "return" /\ pc \in FrameStep /\ slot' = slot /\ Len(stack) = 1 /\ pc' = "next"
      /\ UNCHANGED <<world, nreq, blind>> /\ ret' = Top.ret
  BY DEF ReturnToSlot, FrameStep, call
<1>1. /\ TypeOK /\ Top \in Frame /\ Top = stack[1] /\ VB = VBOf(world, Top)
      /\ IsMain <=> ~world.noVbmeta
      /\ IsMain <=> Main(world, Top)
      /\ StageOK(world, Top, "return") /\ world \in World
  BY <1>0, FrameFacts DEF NoRefusal, FramesOK, TypeOK
<1>2. FramesOK' /\ GuidsThere' /\ ret' = "OK"
  BY <1>0, <1>1 DEF FramesOK, FrameStep, NoRefusal, GuidsThere, StageOK
<1>3. TablesCounted'
  <2> SUFFICES ASSUME world.noVbmeta
               PROVE  Len(slot.images) = Cardinality(Filed') /\ Len(slot.loaded) = Cardinality(PairsPassed')
    BY <1>0 DEF TablesCounted, FrameStep
  <2>1. Filed' = Filed
    BY <1>0 DEF Filed, Bound, Unrecorded
  <2>2. PairsPassed' = PairsPassed
    <3>1. ASSUME NEW x \in LoadPairs(world)
          PROVE  Passed(x[1], x[2])' <=> Passed(x[1], x[2])
      <4>1. /\ x[1] \in Nat /\ x[2] \in Nat
            /\ x[2] <= Len(VBMetaIn(world, StructPart(world, x[1])).descs)
        BY <1>1, PairTypes
      <4>2. x[1] = nreq => x[2] < Top.n
        <5> SUFFICES ASSUME x[1] = nreq PROVE x[2] < Top.n
          OBVIOUS
        <5>1. Top.part = StructPart(world, nreq)
          BY <1>0, <1>1, HereIs DEF Here
        <5>2. x[2] <= Len(VB.descs) /\ Len(VB.descs) \in Nat /\ Top.n > Len(VB.descs) /\ Top.n \in Nat
          BY <1>1, <4>1, <5>1, FrameDescs DEF VB, StageOK, Frame
        <5> QED BY <4>1, <5>2
      <4> QED BY <1>0, <4>2 DEF Passed
    <3>2. PairsPassed' = {x \in LoadPairs(world) : Passed(x[1], x[2])'}
      BY <1>0 DEF PairsPassed
    <3> QED BY <3>1, <3>2 DEF PairsPassed
  <2> QED BY <1>0, <1>1, <2>1, <2>2 DEF NoRefusal, TablesCounted
<1> QED BY <1>0, <1>2, <1>3 DEF NoRefusal

LEMMA NextRequestedOK ==
  ASSUME Inv, DataInv, NoRefusal, NextRequested
  PROVE  NoRefusal'
<1> DEFINE f == NewFrame(world.requested[nreq + 1], 0, NoKey, {})
<1>0. /\ pc = "next" /\ world.noVbmeta /\ slot' = slot /\ pc' = "locate" /\ stack' = <<f>>
      /\ UNCHANGED <<world, ret, blind>> /\ nreq' = nreq + 1
  BY DEF NextRequested
<1>1. f.n = 1 /\ StageOK(world, f, "locate")
  BY DEF NewFrame, StageOK, Keyed
<1> HIDE DEF f
<1>2. Len(stack') = 1 /\ Top' = f /\ nreq \in Nat /\ world \in World
  BY <1>0 DEF Top, Inv, TypeInv, TypeOK
<1>3. FramesOK' /\ GuidsThere'
  BY <1>0, <1>1, <1>2 DEF FramesOK, NoRefusal, GuidsThere
<1>4. Filed' = Filed
  <2>1. Bound = nreq + 1 /\ Bound' = nreq + 1
    BY <1>0, <1>2 DEF Bound, Unrecorded
  <2> QED BY <1>0, <2>1 DEF Filed
<1>5. PairsPassed' = PairsPassed
  <2>1. ASSUME NEW x \in LoadPairs(world)
        PROVE  Passed(x[1], x[2])' <=> Passed(x[1], x[2])
    <3>1. x[1] \in Nat /\ x[2] \in Nat \ {0}
      BY <1>2, PairTypes
    <3> QED BY <1>0, <1>1, <1>2, <3>1 DEF Passed
  <2>2. PairsPassed' = {x \in LoadPairs(world) : Passed(x[1], x[2])'}
    BY <1>0 DEF PairsPassed
  <2> QED BY <2>1, <2>2 DEF PairsPassed
<1>6. TablesCounted'
  BY <1>0, <1>4, <1>5 DEF NoRefusal, TablesCounted
<1> QED BY <1>0, <1>3, <1>6 DEF NoRefusal
\* Outside load_and_verify_vbmeta() only ret and the command line matter.
LEMMA OutsideOK ==
  ASSUME NoRefusal, world' = world, ret' = "OK", blind' = blind, GuidsThere',
         pc' \in {"mangle", "options", "subst", "done"}
  PROVE  NoRefusal'
BY DEF NoRefusal, FramesOK, FrameStep, TablesCounted

LEMMA VBMetasDoneOK ==
  ASSUME NoRefusal, VBMetasDone
  PROVE  NoRefusal'
<1>1. world' = world /\ blind' = blind /\ ret = "OK"
  BY DEF VBMetasDone, call, NoRefusal
<1>2. pc' = "mangle" /\ ret' = ret /\ slot' = slot
  BY <1>1 DEF VBMetasDone, Bails, Continuable
<1>3. GuidsThere'
  BY <1>1, <1>2 DEF NoRefusal, GuidsThere
<1> QED BY <1>1, <1>2, <1>3, OutsideOK

\* A command line with one more snippet that does not ask for 'vbmeta'.
LEMMA GuidsAppend ==
  ASSUME NoRefusal, TypeOK, world' = world, NEW s, s.part # "vbmeta" \/ ~world.noVbmeta,
         slot'.cmdline = Append(slot.cmdline, s)
  PROVE  GuidsThere'
<1> SUFFICES ASSUME world.noVbmeta, ~Disk(world, "vbmeta").present, NEW i \in DOMAIN slot'.cmdline
             PROVE  slot'.cmdline[i].part # "vbmeta"
  BY DEF GuidsThere
<1>1. slot.cmdline \in Seq(Snippet) /\ (\A k \in DOMAIN slot.cmdline : slot.cmdline[k].part # "vbmeta")
  BY SlotFacts DEF NoRefusal, GuidsThere
<1>2. slot'.cmdline[i] = s \/ (i \in DOMAIN slot.cmdline /\ slot'.cmdline[i] = slot.cmdline[i])
  BY <1>1
<1> QED BY <1>1, <1>2

LEMMA MangleOK ==
  ASSUME Inv, NoRefusal, MangleCmdline
  PROVE  NoRefusal'
<1>1. /\ world' = world /\ blind' = blind /\ ret' = "OK" /\ pc' \in {"subst", "options"}
      /\ TypeOK /\ slot \in SlotData
  BY DEF MangleCmdline, call, NoRefusal, Inv, TypeInv, TypeOK
<1>2. \/ slot'.cmdline = <<RootSnippet>> \/ slot'.cmdline = <<>> \/ slot'.cmdline = slot.cmdline
  BY <1>1 DEF MangleCmdline, SlotData
<1>3. GuidsThere'
  BY <1>1, <1>2 DEF NoRefusal, GuidsThere, RootSnippet
<1> QED BY <1>1, <1>3, OutsideOK

LEMMA OptionsOK ==
  ASSUME Inv, NoRefusal, AppendOptions
  PROVE  NoRefusal'
<1> DEFINE s == [kind |-> "option", when |-> "always",
                 part |-> IF world.noVbmeta THEN NoName ELSE "vbmeta"]
<1>1. /\ world' = world /\ blind' = blind /\ ret' = "OK" /\ pc' = "subst"
      /\ TypeOK /\ slot \in SlotData /\ slot' = [slot EXCEPT !.cmdline = Append(@, s)]
  BY DEF AppendOptions, call, NoRefusal, Inv, TypeInv, TypeOK
<1>2. s.part # "vbmeta" \/ ~world.noVbmeta
  BY NameAssumption, SentinelAssumption
<1> HIDE DEF s
<1>3. slot'.cmdline = Append(slot.cmdline, s)
  BY <1>1 DEF SlotData
<1>4. GuidsThere'
  BY <1>1, <1>2, <1>3, GuidsAppend
<1> QED BY <1>1, <1>4, OutsideOK

\* Every partition whose GUID is asked for exists.
LEMMA SubstOK ==
  ASSUME Inv, DataInv, NoRefusal, NEW v \in Values, Hopeful(v), SubstCmdline
  PROVE  NoRefusal'
<1>1. world' = world /\ blind' = blind /\ ret = "OK" /\ pc = "subst" /\ TypeOK
  BY DEF SubstCmdline, call, NoRefusal, Inv, TypeInv
<1>2. ASSUME NEW i \in DOMAIN slot.cmdline, slot.cmdline[i].part # NoName
      PROVE  Disk(world, GuidPartition(slot.cmdline[i].part)).present
  <2>1. slot.cmdline[i].part \in GuidName
    <3>1. slot.cmdline[i] \in Snippet
      BY <1>1, SlotFacts
    <3> QED BY <1>2, <3>1 DEF Snippet
  <2>2. Disk(world, "boot").present /\ Disk(world, "system").present
    BY DEF Hopeful, Fits, Bootable
  <2>3. CASE slot.cmdline[i].part # "vbmeta"
    BY <2>1, <2>2, <2>3 DEF GuidName, GuidPartition
  <2>4. CASE slot.cmdline[i].part = "vbmeta" /\ world.noVbmeta
    BY <2>4 DEF NoRefusal, GuidsThere, GuidPartition, UsingBoot
  <2>5. CASE slot.cmdline[i].part = "vbmeta" /\ ~world.noVbmeta
    <3>1. slot.images[1].part = TopLevel(world)
      BY <1>1, <2>5 DEF DataInv, NothingRecorded, ImagesKnown
    <3> QED BY <2>2, <2>5, <3>1 DEF GuidPartition, UsingBoot, TopLevel
  <2> QED BY <2>3, <2>4, <2>5
<1>3. pc' = "done" /\ ret' = "OK" /\ slot' = slot
  BY <1>1, <1>2 DEF SubstCmdline
<1>4. GuidsThere'
  BY <1>1, <1>3 DEF NoRefusal, GuidsThere
<1> QED BY <1>1, <1>3, <1>4, OutsideOK

\* A new call starts with empty tables.
LEMMA BootOK ==
  ASSUME Inv, NEW w \in Worlds, Boot(w) \/ BootFails(w), NEW v \in Values, Hopeful(v)'
  PROVE  NoRefusal'
<1>0. w \in World /\ faults \in Nat
  BY BoundAssumption DEF Inv, TypeInv, TypeOK
<1>1. world' = w /\ nreq' = 1 /\ blind' = FALSE /\ slot' = EmptySlot
  BY DEF Boot, BootFails, Ready
<1>2. Boot(w)
  BY <1>0 DEF BootFails, Fault, Hopeful
<1> DEFINE f == NewFrame(IF w.noVbmeta THEN w.requested[1] ELSE "vbmeta", 0, NoKey, {})
<1>3. pc' = "locate" /\ ret' = "OK" /\ stack' = <<f>>
  BY <1>1, <1>2 DEF Boot, Ready, Hopeful, Fits, Bootable
<1>4. f.n = 1 /\ StageOK(w, f, "locate")
  BY DEF NewFrame, StageOK, Keyed
<1> HIDE DEF f
<1>5. Len(stack') = 1 /\ stack'[1] = f /\ Top' = f
  BY <1>3 DEF Top
<1>6. FramesOK'
  BY <1>1, <1>3, <1>4, <1>5 DEF FramesOK
<1>7. slot'.images = <<>> /\ slot'.loaded = <<>> /\ slot'.cmdline = <<>>
  BY <1>1 DEF EmptySlot
<1>8. Filed' = {}
  <2>1. Bound' = IF w.noVbmeta THEN 1 ELSE 0
    BY <1>1, <1>3, <1>4, <1>5 DEF Bound, Unrecorded
  <2>2. \A j \in Structs(w) : ~(j < IF w.noVbmeta THEN 1 ELSE 0)
    <3>1. CASE w.noVbmeta
      <4>1. w.requested \in Seq(Name)
        BY <1>0 DEF World
      <4> QED BY <3>1, <4>1 DEF Structs
    <3>2. CASE ~w.noVbmeta
      BY <1>0, <3>2, StructFacts
    <3> QED BY <3>1, <3>2
  <2> QED BY <1>1, <2>1, <2>2 DEF Filed
<1>9. PairsPassed' = {}
  <2>1. ASSUME NEW x \in LoadPairs(w)
        PROVE  ~Passed(x[1], x[2])'
    <3>1. x[1] \in Structs(w) /\ x[1] \in Nat /\ x[2] \in Nat \ {0}
      BY <1>0, PairTypes
    <3>2. CASE w.noVbmeta
      <4>1. w.requested \in Seq(Name)
        BY <1>0 DEF World
      <4>2. x[1] # 0
        BY <3>1, <3>2, <4>1 DEF Structs
      <4> QED BY <1>1, <1>3, <1>4, <1>5, <3>1, <3>2, <4>2 DEF Passed
    <3>3. CASE ~w.noVbmeta
      BY <1>1, <1>3, <1>4, <1>5, <3>1, <3>3 DEF Passed
    <3> QED BY <3>2, <3>3
  <2>2. PairsPassed' = {x \in LoadPairs(w) : Passed(x[1], x[2])'}
    BY <1>1 DEF PairsPassed
  <2> QED BY <2>1, <2>2
<1>10. TablesCounted' /\ GuidsThere'
  BY <1>7, <1>8, <1>9, FS_EmptySet DEF TablesCounted, GuidsThere
<1> QED BY <1>1, <1>3, <1>6, <1>10 DEF NoRefusal

LEMMA InitAccept == Init => AcceptInv
BY DEF Init, EmptySlot, AcceptInv, NoRefusal, GuidsThere, FramesOK, TablesCounted, FrameStep

LEMMA NextAccept == Inv /\ DataInv /\ Inv' /\ AcceptInv /\ [Next]_vars => AcceptInv'
<1> SUFFICES ASSUME Inv, DataInv, Inv', AcceptInv, [Next]_vars, NEW v \in Values, Hopeful(v)'
             PROVE  NoRefusal'
  BY DEF AcceptInv
<1>1. CASE UNCHANGED vars
  <2>1. Hopeful(v)
    BY <1>1 DEF vars, Hopeful
  <2>2. NoRefusal
    BY <2>1 DEF AcceptInv
  <2> QED BY <1>1, <2>2 DEF vars, NoRefusal, GuidsThere, FramesOK, TablesCounted, Top, IsMain, Filed, Bound,
                            PairsPassed, Passed
<1>2. CASE Step
  <2>1. Hopeful(v) /\ Undisturbed
    BY <1>2, HopefulBefore
  <2>2. NoRefusal
    BY <2>1 DEF AcceptInv
  <2> QED BY <2>1, <2>2, LocateOK, ReadOK, ImageOK, KeyOK, RollbackOK, LoadRequestedOK, ListOK, HashOK,
             ChainOK, CmdlineOK, HashtreeOK, PropertyOK, FinishOK, ReturnToChainOK, ReturnToSlotOK,
             NextRequestedOK, VBMetasDoneOK, MangleOK, OptionsOK, SubstOK DEF Undisturbed
<1>3. CASE Ready /\ \E w \in Worlds : Boot(w) \/ BootFails(w)
  BY <1>3, BootOK
<1> QED BY <1>1, <1>2, <1>3 DEF Next

\* avb_slot_verify() accepts every slot that is verified with the digests it
\* leaves behind, when no callback fails: no check of it is too strict, and
\* none of its fixed-size tables is too small for a slot that Fits.
THEOREM VerifiedIsOK == Spec => []VerifiedMeansOK
<1>1. Inv /\ AcceptInv => VerifiedMeansOK
  <2> SUFFICES ASSUME Inv, AcceptInv, pc = "done", faults = 0, Fits(world), Verified(world, values)
               PROVE  ret = "OK"
    BY DEF VerifiedMeansOK
  <2>1. values \in Values /\ Hopeful(values)
    BY LaterSame DEF Hopeful, Inv, TypeInv, TypeOK, Values
  <2> QED BY <2>1 DEF AcceptInv, NoRefusal
<1>2. Spec => []AcceptInv
  BY InitAccept, NextAccept, DataAlways, PTL DEF Spec
<1> QED BY <1>1, <1>2, InvAlways, PTL
=============================================================================
