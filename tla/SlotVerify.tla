------------------------------ MODULE SlotVerify ------------------------------
(***************************************************************************)
(* avb_slot_verify() and load_and_verify_vbmeta() as a state machine.      *)
(*                                                                         *)
(* The device boots again and again; every boot is one call, made in any   *)
(* of Worlds (partitions may have been flashed, the device unlocked or the *)
(* flags changed in between).  What survives a boot is the persistent      *)
(* values the AvbOps store: the digests of partitions initialised on first *)
(* use, and the mark of the managed dm-verity mode.                        *)
(*                                                                         *)
(* A call of load_and_verify_vbmeta() is a frame on a stack; pc says where *)
(* the innermost one is.  The call that retries with 'boot' when there is  *)
(* no 'vbmeta' partition is the last thing its caller does, so it takes    *)
(* the caller's place on the stack.  Any callback, and any allocation, may *)
(* fail: the actions named ...Fails.                                       *)
(***************************************************************************)
EXTENDS SlotWorld, FiniteSets

CONSTANTS
  Worlds,     \* the situations a boot may find
  MaxBoots,   \* bound: calls of avb_slot_verify() in a behaviour
  MaxFaults   \* bound: failing callbacks or allocations in a behaviour

ASSUME BoundAssumption ==
  Worlds \subseteq World /\ Worlds # {} /\ MaxBoots \in Nat /\ MaxFaults \in Nat

VARIABLES
  world,    \* arguments, device and disk of the current call
  values,   \* persistent digests ("avb.persistent_digest.<name>")
  mark,     \* persistent "avb.managed_verity_mode": digested structs, or <<>>
  boots,    \* calls made so far
  faults,   \* failures so far
  pc,       \* where the innermost function is
  stack,    \* frames of load_and_verify_vbmeta()
  nreq,     \* loop counter over requested_partitions
  slot,     \* AvbSlotVerifyData being built
  ret,      \* ret of avb_slot_verify()
  out,      \* *out_data has been set
  blind     \* a frame went on although it could not allocate its descriptor list

store == <<values, mark>>
call  == <<world, boots, nreq>>
vars  == <<world, values, mark, boots, faults, pc, stack, nreq, slot, ret, out, blind>>

Frame == [part   : Name,
          loc    : Location,                \* rollback_index_location
          locUse : Location,                \* rollback_index_location_to_use
          expect : Key \union {NoKey},      \* expected_public_key
          flags  : SUBSET Flag,             \* toplevel_vbmeta_flags
          footer : BOOLEAN,                 \* vbmeta_offset/size taken from the footer
          ret    : Result,
          n      : Nat \ {0}]               \* descriptor being looked at

Snippet == [kind : {"desc", "root", "option"}, when : When, part : GuidName \union {NoName}]

\* AvbVBMetaData
Image == [part : Name, vb : VBMeta]

SlotData == [images   : Seq(Image),
             loaded   : Seq(Name),
             rollback : [0 .. MAX_LOCATIONS - 1 -> Nat],
             cmdline  : Seq(Snippet),       \* <<>> stands for NULL and for ""
             subst    : Nat,                \* entries of additional_cmdline_subst
             mode     : ErrorMode]

EmptySlot == [images |-> <<>>, loaded |-> <<>>,
              rollback |-> [i \in 0 .. MAX_LOCATIONS - 1 |-> 0],
              cmdline |-> <<>>, subst |-> 0, mode |-> "restart_and_invalidate"]

FrameStep == {"locate", "read", "image", "key", "rollback", "load", "list", "desc", "return"}
SlotStep  == {"next", "continue", "mangle", "options", "subst"}
PC == FrameStep \union SlotStep \union {"idle", "done", "abort"}

TypeOK ==
  /\ world \in World
  /\ values \in [Name -> Digest \union {NoDigest}]
  /\ mark \in Seq(VBMeta)
  /\ boots \in Nat /\ faults \in Nat
  /\ pc \in PC
  /\ stack \in Seq(Frame)
  /\ nreq \in Nat
  /\ slot \in SlotData
  /\ ret \in Result
  /\ out \in BOOLEAN /\ blind \in BOOLEAN

Init ==
  /\ world = CHOOSE w \in Worlds : TRUE    \* replaced by the first boot
  /\ values = [p \in Name |-> NoDigest]
  /\ mark = <<>>
  /\ boots = 0 /\ faults = 0
  /\ pc = "idle"
  /\ stack = <<>>
  /\ nreq = 0
  /\ slot = EmptySlot
  /\ ret = "OK"
  /\ out = FALSE /\ blind = FALSE
-----------------------------------------------------------------------------
Top == stack[Len(stack)]
SetTop(f) == stack' = [stack EXCEPT ![Len(stack)] = f]
VB == VBMetaIn(world, Top.part)

\* rollback_index_location determines whether this is the main vbmeta struct.
IsMain == Top.loc = 0 /\ ~world.noVbmeta

NewFrame(p, loc, expect, flags) ==
  [part |-> p, loc |-> loc, locUse |-> loc, expect |-> expect, flags |-> flags,
   footer |-> FALSE, ret |-> "OK", n |-> 1]

\* ret = r; goto out
GotoOut(f, r) == SetTop([f EXCEPT !.ret = r]) /\ pc' = "return"

\* An error of the kind that is put up with when errors are allowed.
SoftError(f, r, next) ==
  /\ SetTop([f EXCEPT !.ret = r])
  /\ pc' = IF world.allow THEN next ELSE "return"

Fault == faults < MaxFaults /\ faults' = faults + 1

\* No call is under way.
Ready == pc \in {"idle", "done", "abort"} /\ boots < MaxBoots

\* The device boots and the boot loader calls avb_slot_verify().
Boot(w) ==
  /\ Ready
  /\ world' = w
  /\ boots' = boots + 1
  /\ slot' = EmptySlot
  /\ out' = FALSE /\ blind' = FALSE
  /\ nreq' = 1
  /\ IF w.mode = "logging" /\ ~w.allow
     THEN pc' = "done" /\ ret' = "INVALID_ARGUMENT" /\ stack' = <<>>
     ELSE IF w.noVbmeta /\ w.requested = <<>>
     THEN pc' = "abort" /\ ret' = "INVALID_ARGUMENT" /\ stack' = <<>>
     ELSE /\ pc' = "locate" /\ ret' = "OK"
          /\ stack' = <<NewFrame(IF w.noVbmeta THEN w.requested[1] ELSE "vbmeta", 0, NoKey, {})>>
  /\ UNCHANGED <<store, faults>>

\* slot_data and its arrays cannot be allocated.
BootFails(w) ==
  /\ Ready
  /\ ~(w.mode = "logging" /\ ~w.allow)
  /\ Fault
  /\ world' = w /\ boots' = boots + 1 /\ slot' = EmptySlot
  /\ out' = FALSE /\ blind' = FALSE /\ nreq' = 1 /\ stack' = <<>>
  /\ pc' = "done" /\ ret' = "OOM"
  /\ UNCHANGED store

\* Read and validate the footer, except in a vbmeta partition.
LocateVBMeta ==
  /\ pc = "locate"
  /\ IF Top.part \notin VBMetaName /\ ~Disk(world, Top.part).present
     THEN GotoOut(Top, "IO")
     ELSE SetTop([Top EXCEPT !.footer = UsesFooter(world, Top.part)]) /\ pc' = "read"
  /\ UNCHANGED <<call, store, faults, slot, ret, out, blind>>

\* Defect: the retry asks for the same partition again.
ReadVBMetaRetriesItself ==
  /\ pc = "read"
  /\ IF Disk(world, Top.part).present
     THEN pc' = "image" /\ UNCHANGED stack
     ELSE IF IsMain /\ Top.part \in VBMetaName
     THEN SetTop(NewFrame("vbmeta", 0, NoKey, {})) /\ pc' = "locate"
     ELSE GotoOut(Top, "IO")
  /\ UNCHANGED <<call, store, faults, slot, ret, out, blind>>

\* Load the vbmeta struct; without a vbmeta partition try 'boot' instead.
ReadVBMeta ==
  /\ pc = "read"
  /\ IF Disk(world, Top.part).present
     THEN pc' = "image" /\ UNCHANGED stack
     ELSE IF IsMain /\ Top.part \in VBMetaName
     THEN SetTop(NewFrame("boot", 0, NoKey, {})) /\ pc' = "locate"
     ELSE GotoOut(Top, "IO")
  /\ UNCHANGED <<call, store, faults, slot, ret, out, blind>>

\* The switch over avb_vbmeta_image_verify(), then the flags of the header.
VerifyImage ==
  /\ pc = "image"
  /\ LET f == IF VB.verify \in SoftVerify THEN [Top EXCEPT !.ret = "VERIFICATION"] ELSE Top
     IN IF VB.verify = "INVALID_VBMETA_HEADER" THEN GotoOut(f, "INVALID_METADATA")
        ELSE IF VB.verify = "UNSUPPORTED_VERSION" THEN GotoOut(f, "UNSUPPORTED_VERSION")
        ELSE IF VB.verify \in SoftVerify /\ ~world.allow THEN GotoOut(f, "VERIFICATION")
        ELSE IF IsMain THEN SetTop([f EXCEPT !.flags = VB.flags]) /\ pc' = "key"
        ELSE IF VB.flags # {} THEN GotoOut(f, "INVALID_METADATA")
        ELSE SetTop(f) /\ pc' = "key"
  /\ UNCHANGED <<call, store, faults, slot, ret, out, blind>>

\* Is the image signed with the expected key, or else with a trusted one?
CheckKey ==
  /\ pc = "key"
  /\ LET asksDevice == VB.verify = "OK" /\ Top.expect = NoKey
         f == IF asksDevice /\ world.noVbmeta
              THEN [Top EXCEPT !.locUse = world.locOf[Top.part]] ELSE Top
     IN IF VB.verify = "OK" /\ ~TrustedKey(world, VB, Top.expect)
        THEN SoftError(f, "PUBLIC_KEY_REJECTED", "rollback")
        ELSE SetTop(f) /\ pc' = "rollback"
  /\ UNCHANGED <<call, store, faults, slot, ret, out, blind>>

\* Defect: an index that is too old by one is accepted.
CheckRollbackOffByOne ==
  /\ pc = "rollback"
  /\ LET old  == VB.rollback + 1 < world.stored[Top.locUse]
         f    == IF old THEN [Top EXCEPT !.ret = "ROLLBACK_INDEX"] ELSE Top
         next == IF "VERIFICATION_DISABLED" \in VB.flags THEN "load" ELSE "list"
     IN IF old /\ ~world.allow
        THEN GotoOut(Top, "ROLLBACK_INDEX") /\ UNCHANGED slot
        ELSE IF Len(slot.images) = MAX_VBMETA
        THEN GotoOut(Top, "OOM") /\ UNCHANGED slot
        ELSE /\ SetTop(f) /\ pc' = next
             /\ slot' = [slot EXCEPT !.images = Append(@, [part |-> Top.part, vb |-> VB])]
  /\ UNCHANGED <<call, store, faults, ret, out, blind>>

\* Compare the rollback index, then copy the image into vbmeta_images.
CheckRollback ==
  /\ pc = "rollback"
  /\ LET old  == VB.rollback < world.stored[Top.locUse]
         f    == IF old THEN [Top EXCEPT !.ret = "ROLLBACK_INDEX"] ELSE Top
         next == IF "VERIFICATION_DISABLED" \in VB.flags THEN "load" ELSE "list"
     IN IF old /\ ~world.allow
        THEN GotoOut(Top, "ROLLBACK_INDEX") /\ UNCHANGED slot
        ELSE IF Len(slot.images) = MAX_VBMETA
        THEN GotoOut(Top, "OOM") /\ UNCHANGED slot
        ELSE /\ SetTop(f) /\ pc' = next
             /\ slot' = [slot EXCEPT !.images = Append(@, [part |-> Top.part, vb |-> VB])]
  /\ UNCHANGED <<call, store, faults, ret, out, blind>>

\* VERIFICATION_DISABLED: load_requested_partitions() and nothing else.
LoadRequested ==
  /\ pc = "load"
  /\ IF \E i \in DOMAIN world.requested : /\ ~Disk(world, world.requested[i]).present
                                           /\ Len(slot.loaded) + i <= MAX_LOADED + 1
     THEN GotoOut(Top, "IO") /\ UNCHANGED slot
     ELSE IF Len(slot.loaded) + Len(world.requested) > MAX_LOADED
     THEN GotoOut(Top, "OOM") /\ UNCHANGED slot
     ELSE /\ pc' = "return" /\ UNCHANGED stack
          /\ slot' = [slot EXCEPT !.loaded = @ \o world.requested]
  /\ UNCHANGED <<call, store, faults, ret, out, blind>>

\* avb_descriptor_get_all()
ListDescriptors ==
  /\ pc = "list"
  /\ pc' = "desc"
  /\ UNCHANGED <<call, store, faults, stack, slot, ret, out, blind>>

\* It returns NULL and leaves num_descriptors uninitialised: the loop runs
\* into the null pointer, or does not run at all.
ListDescriptorsFails ==
  /\ pc = "list" /\ Fault
  /\ blind' = TRUE
  /\ \/ pc' = "abort" /\ UNCHANGED stack
     \/ pc' = "desc" /\ SetTop([Top EXCEPT !.n = Len(VB.descs) + 1])
  /\ UNCHANGED <<call, store, slot, ret, out>>
-----------------------------------------------------------------------------
(***************************************************************************)
(* The loop over the descriptors.                                          *)
(***************************************************************************)
AtDesc(tag) == pc = "desc" /\ Top.n <= Len(VB.descs) /\ VB.descs[Top.n].tag = tag
D == VB.descs[Top.n]

NextDesc(f) == SetTop([f EXCEPT !.n = @ + 1]) /\ pc' = "desc"

\* What becomes of ret after a hash descriptor: sub_ret # OK is kept, and
\* the loop goes on only if errors are allowed and this one can be ignored.
AfterHash(sub) ==
  IF sub = "OK" THEN NextDesc(Top)
  ELSE IF world.allow /\ sub \in Continuable THEN NextDesc([Top EXCEPT !.ret = sub])
  ELSE GotoOut(Top, sub)

\* The digest of D's partition was computed.
Digested == Requested(world, D.part) /\ HashVerdict(world, values, D) \in {"OK", "VERIFICATION"}

\* Defect: the wrong buffer is stored.
InitialValueKey == [values EXCEPT ![D.part] = D.key]

InitialValue == [values EXCEPT ![D.part] = HashTarget(world, D).body]

HashDesc ==
  /\ AtDesc("hash")
  /\ values' = IF Digested /\ Initializes(world, values, D) THEN InitialValue ELSE values
  /\ IF Digested /\ Len(slot.loaded) = MAX_LOADED
     THEN AfterHash("OOM") /\ UNCHANGED slot
     ELSE /\ AfterHash(HashVerdict(world, values, D))
          /\ slot' = IF Digested THEN [slot EXCEPT !.loaded = Append(@, D.part)] ELSE slot
  /\ UNCHANGED <<call, mark, faults, ret, out, blind>>

\* Defect: the partition cannot be loaded and ret is left at OK.
HashDescFailsSilently ==
  /\ AtDesc("hash") /\ Requested(world, D.part)
  /\ D.bad # "layout" /\ ~NeedsSlotlessName(world, D)
  /\ Fault
  /\ NextDesc(Top)
  /\ UNCHANGED <<call, store, slot, ret, out, blind>>

\* Loading the partition or storing its first digest fails; the digest may
\* have been written before the failure, or be lost when it is read back.
HashDescFails ==
  /\ AtDesc("hash") /\ Requested(world, D.part)
  /\ D.bad # "layout" /\ ~NeedsSlotlessName(world, D)
  /\ Fault
  /\ \/ \E r \in {"OOM", "IO"} : AfterHash(r) /\ UNCHANGED <<values, slot>>
     \/ /\ Digested /\ Initializes(world, values, D)
        /\ \/ \E r \in {"OOM", "IO"} : AfterHash(r) /\ values' = InitialValue /\ UNCHANGED slot
           \/ /\ Len(slot.loaded) < MAX_LOADED
              /\ AfterHash("VERIFICATION") /\ UNCHANGED values
              /\ slot' = [slot EXCEPT !.loaded = Append(@, D.part)]
  /\ UNCHANGED <<call, mark, ret, out, blind>>

\* Defect: a chained image may chain further.
ChainDescNested ==
  /\ AtDesc("chain")
  /\ IF D.bad = "layout" \/ D.loc = 0
     THEN GotoOut(Top, "INVALID_METADATA")
     ELSE stack' = Append(stack, NewFrame(D.part, D.loc, D.key, Top.flags)) /\ pc' = "locate"
  /\ UNCHANGED <<call, store, faults, slot, ret, out, blind>>

ChainDesc ==
  /\ AtDesc("chain")
  /\ IF ~IsMain \/ D.bad = "layout" \/ D.loc = 0
     THEN GotoOut(Top, "INVALID_METADATA")
     ELSE stack' = Append(stack, NewFrame(D.part, D.loc, D.key, Top.flags)) /\ pc' = "locate"
  /\ UNCHANGED <<call, store, faults, slot, ret, out, blind>>

CmdlineDesc ==
  /\ AtDesc("cmdline")
  /\ IF D.bad = "layout"
     THEN GotoOut(Top, "INVALID_METADATA") /\ UNCHANGED slot
     ELSE /\ NextDesc(Top)
          /\ slot' = IF AppliesTo(Top.flags, D)
                     THEN [slot EXCEPT !.cmdline =
                            Append(@, [kind |-> "desc", when |-> D.when, part |-> D.part])]
                     ELSE slot
  /\ UNCHANGED <<call, store, faults, ret, out, blind>>

\* Defect: a chained image adds to the caller's substitutions.
HashtreeDescEverywhere ==
  /\ AtDesc("hashtree")
  /\ LET v == HashtreeVerdict(world, values, D)
     IN IF v # "OK" THEN GotoOut(Top, v) /\ UNCHANGED slot
        ELSE IF ~Persistent(D) THEN NextDesc(Top) /\ UNCHANGED slot
        ELSE IF slot.subst >= MAX_SUBST
        THEN GotoOut(Top, "INVALID_METADATA") /\ UNCHANGED slot
        ELSE /\ NextDesc([Top EXCEPT !.ret = "OK"])
             /\ slot' = [slot EXCEPT !.subst = @ + 1]
  /\ UNCHANGED <<call, store, faults, ret, out, blind>>

\* Only a descriptor without a root digest is acted upon: ret becomes what
\* read_persistent_digest() and avb_add_root_digest_substitution() answer.
HashtreeDesc ==
  /\ AtDesc("hashtree")
  /\ LET v == HashtreeVerdict(world, values, D)
         substitutes == Top.expect = NoKey
     IN IF v # "OK" THEN GotoOut(Top, v) /\ UNCHANGED slot
        ELSE IF ~Persistent(D) THEN NextDesc(Top) /\ UNCHANGED slot
        ELSE IF substitutes /\ slot.subst >= MAX_SUBST
        THEN GotoOut(Top, "INVALID_METADATA") /\ UNCHANGED slot
        ELSE /\ NextDesc([Top EXCEPT !.ret = "OK"])
             /\ slot' = IF substitutes THEN [slot EXCEPT !.subst = @ + 1] ELSE slot
  /\ UNCHANGED <<call, store, faults, ret, out, blind>>

PropertyDesc ==
  /\ AtDesc("property")
  /\ NextDesc(Top)
  /\ UNCHANGED <<call, store, faults, slot, ret, out, blind>>

\* Defect: the last location is not accepted.
FinishVBMetaOneLess ==
  /\ pc = "desc" /\ Top.n > Len(VB.descs)
  /\ IF Top.loc + 1 >= MAX_LOCATIONS
     THEN GotoOut(Top, "INVALID_METADATA") /\ UNCHANGED slot
     ELSE /\ pc' = "return" /\ UNCHANGED stack
          /\ slot' = [slot EXCEPT !.rollback[Top.loc] = VB.rollback]
  /\ UNCHANGED <<call, store, faults, ret, out, blind>>

\* After the loop: record the rollback index under its location.
FinishVBMeta ==
  /\ pc = "desc" /\ Top.n > Len(VB.descs)
  /\ IF Top.loc >= MAX_LOCATIONS
     THEN GotoOut(Top, "INVALID_METADATA") /\ UNCHANGED slot
     ELSE /\ pc' = "return" /\ UNCHANGED stack
          /\ slot' = [slot EXCEPT !.rollback[Top.loc] = VB.rollback]
  /\ UNCHANGED <<call, store, faults, ret, out, blind>>

\* Does the step at pc call an AvbOps callback or allocate memory?
CallsOut ==
  \/ pc = "locate" /\ Top.part \notin VBMetaName
  \/ pc = "key" /\ VB.verify = "OK" /\ Top.expect = NoKey
  \/ pc \in {"read", "rollback", "load"}
  \/ AtDesc("hashtree") /\ Persistent(D) /\ HashtreeVerdict(world, values, D) \in {"OK", "VERIFICATION"}

\* A callback fails with an I/O error, or memory runs out.
CallbackFails(r) ==
  /\ CallsOut /\ Fault
  /\ GotoOut(Top, r)
  /\ UNCHANGED <<call, store, slot, ret, out, blind>>

CmdlineDescFails ==
  /\ AtDesc("cmdline") /\ D.bad # "layout" /\ AppliesTo(Top.flags, D) /\ Fault
  /\ GotoOut(Top, "OOM")
  /\ UNCHANGED <<call, store, slot, ret, out, blind>>

\* Defect: the error of the chained image is dropped.
ReturnToChainForgets ==
  /\ pc = "return" /\ Len(stack) > 1
  /\ stack' = [SubSeq(stack, 1, Len(stack) - 1) EXCEPT ![Len(stack) - 1].n = @ + 1]
  /\ pc' = "desc"
  /\ UNCHANGED <<call, store, faults, slot, ret, out, blind>>

\* The chained image is done: its error is kept, and the loop of the main
\* image goes on if the error is one that can be ignored.
ReturnToChain ==
  /\ pc = "return" /\ Len(stack) > 1
  /\ LET sub    == Top.ret
         caller == stack[Len(stack) - 1]
         f      == IF sub # "OK" THEN [caller EXCEPT !.ret = sub] ELSE caller
         g      == IF sub \in Continuable THEN [f EXCEPT !.n = @ + 1] ELSE f
     IN /\ stack' = [SubSeq(stack, 1, Len(stack) - 1) EXCEPT ![Len(stack) - 1] = g]
        /\ pc' = IF sub \in Continuable THEN "desc" ELSE "return"
  /\ UNCHANGED <<call, store, faults, slot, ret, out, blind>>

ReturnToSlot ==
  /\ pc = "return" /\ Len(stack) = 1
  /\ ret' = Top.ret
  /\ stack' = <<>>
  /\ pc' = "next"
  /\ UNCHANGED <<call, store, faults, slot, out, blind>>
-----------------------------------------------------------------------------
(***************************************************************************)
(* The rest of avb_slot_verify().                                          *)
(***************************************************************************)
\* Defect: goto fail without setting ret.
FailSilently(r) == pc' = "done" /\ slot' = EmptySlot /\ UNCHANGED <<ret, stack, out>>

\* goto fail: slot_data is freed
Fail(r) == pc' = "done" /\ ret' = r /\ slot' = EmptySlot /\ UNCHANGED <<stack, out>>

Bails == ~world.allow /\ ret # "OK"

\* NO_VBMETA_PARTITION: go through each of the requested partitions.
NextRequested ==
  /\ pc = "next" /\ ~Bails
  /\ world.noVbmeta /\ nreq < Len(world.requested)
  /\ nreq' = nreq + 1
  /\ stack' = <<NewFrame(world.requested[nreq + 1], 0, NoKey, {})>>
  /\ pc' = "locate"
  /\ UNCHANGED <<world, boots, store, faults, slot, ret, out, blind>>

\* All vbmeta structs are processed: can the slot be booted at all?
VBMetasDone ==
  /\ pc = "next"
  /\ Bails \/ ~world.noVbmeta \/ nreq >= Len(world.requested)
  /\ IF Bails \/ ret \notin Continuable
     THEN Fail(ret)
     ELSE pc' = "mangle" /\ UNCHANGED <<stack, slot, ret, out>>
  /\ UNCHANGED <<call, store, faults, blind>>

TopImage == slot.images[1].vb
VBMetaDigest == [i \in DOMAIN slot.images |-> slot.images[i].vb]
Disabled == "VERIFICATION_DISABLED" \in TopImage.flags

\* Defect: the mark is cleared by the next boot without a corruption.
MarkedOnce == IF world.corruption THEN VBMetaDigest ELSE <<>>

\* avb_manage_hashtree_error_mode()
Marked == IF world.corruption THEN VBMetaDigest
          ELSE IF mark = VBMetaDigest THEN mark ELSE <<>>

ResolvedMode == IF world.mode # "managed" THEN world.mode
                ELSE IF world.corruption \/ mark = VBMetaDigest THEN "eio" ELSE "restart"

RootSnippet == [kind |-> "root", when |-> "always", part |-> "system"]

MangleCmdline ==
  /\ pc = "mangle"
  /\ IF Disabled
     THEN /\ pc' = "subst"
          /\ slot' = [slot EXCEPT !.cmdline =
                        IF Disk(world, "system").present THEN <<RootSnippet>> ELSE <<>>]
          /\ UNCHANGED mark
     ELSE /\ pc' = "options"
          /\ slot' = [slot EXCEPT !.mode = ResolvedMode]
          /\ mark' = IF world.mode = "managed" THEN Marked ELSE mark
  /\ UNCHANGED <<call, values, faults, stack, ret, out, blind>>

\* Defect: a mark that could not be written is assumed to be there.
MangleCmdlineFailsSilently ==
  /\ pc = "mangle" /\ Fault
  /\ \/ Fail("OOM")
     \/ /\ ~Disabled /\ world.mode = "managed"
        /\ pc' = "options" /\ slot' = [slot EXCEPT !.mode = ResolvedMode]
        /\ UNCHANGED <<stack, ret, out>>
  /\ UNCHANGED <<call, store, blind>>

MangleCmdlineFails ==
  /\ pc = "mangle" /\ Fault
  /\ \/ Fail("OOM")
     \/ ~Disabled /\ world.mode = "managed" /\ Fail("IO")
     \/ /\ Disabled /\ Disk(world, "system").present   \* has_system_partition() = false
        /\ pc' = "subst" /\ slot' = [slot EXCEPT !.cmdline = <<>>]
        /\ UNCHANGED <<stack, ret, out>>
  /\ UNCHANGED <<call, store, blind>>

\* avb_append_options()
AppendOptions ==
  /\ pc = "options"
  /\ pc' = "subst"
  /\ slot' = [slot EXCEPT !.cmdline =
                Append(@, [kind |-> "option", when |-> "always",
                           part |-> IF world.noVbmeta THEN NoName ELSE "vbmeta"])]
  /\ UNCHANGED <<call, store, faults, stack, ret, out, blind>>

\* avb_sub_cmdline(): every partition whose GUID is mentioned must have one.
UsingBoot == ~world.noVbmeta /\ slot.images[1].part # "vbmeta"

GuidPartition(p) == IF p = "vbmeta" /\ UsingBoot THEN "boot" ELSE p

SubstCmdline ==
  /\ pc = "subst"
  /\ IF \E i \in DOMAIN slot.cmdline :
          /\ slot.cmdline[i].part # NoName
          /\ ~Disk(world, GuidPartition(slot.cmdline[i].part)).present
     THEN Fail("OOM")
     ELSE pc' = "done" /\ out' = TRUE /\ UNCHANGED <<stack, slot, ret>>
  /\ UNCHANGED <<call, store, faults, blind>>

SlotCallbackFails(r) ==
  /\ pc \in {"options", "subst"} /\ Fault
  /\ r = "OOM" \/ pc = "options"
  /\ Fail(r)
  /\ UNCHANGED <<call, store, blind>>
-----------------------------------------------------------------------------
\* avb_slot_verify() runs.
Step ==
  \/ LocateVBMeta \/ ReadVBMeta \/ VerifyImage \/ CheckKey \/ CheckRollback
  \/ LoadRequested \/ ListDescriptors \/ ListDescriptorsFails
  \/ HashDesc \/ HashDescFails \/ ChainDesc \/ CmdlineDesc \/ CmdlineDescFails
  \/ HashtreeDesc \/ PropertyDesc \/ FinishVBMeta
  \/ \E r \in {"OOM", "IO"} : CallbackFails(r)
  \/ ReturnToChain \/ ReturnToSlot
  \/ NextRequested \/ VBMetasDone
  \/ MangleCmdline \/ MangleCmdlineFails \/ AppendOptions \/ SubstCmdline
  \/ \E r \in {"OOM", "IO"} : SlotCallbackFails(r)

\* Ready is tested first to spare TLC the worlds in every other state.
Next ==
  \/ Ready /\ \E w \in Worlds : Boot(w) \/ BootFails(w)
  \/ Step

Spec == Init /\ [][Next]_vars

\* The verifier is sequential code that is never suspended.
FairSpec == Spec /\ WF_vars(Step)
-----------------------------------------------------------------------------
(***************************************************************************)
(* Properties.                                                             *)
(***************************************************************************)
\* The two situations in which an error found earlier can be overwritten by
\* a later success, and the one in which the descriptors are never seen.
Dependable == ~blind /\ ~UsesPersistentRoot(world) /\ ~(world.allow /\ world.noVbmeta)

\* avb_slot_verify() answers OK only for a slot in which every vbmeta struct
\* is genuine and recent and every requested partition has the digest its
\* descriptor demands, whatever callbacks failed on the way.
OKMeansVerified == pc = "done" /\ ret = "OK" /\ Dependable => Verified(world, values)

\* The same without exempting any situation: avb_slot_verify.h says that OK
\* is returned "if, and only if, there are no errors".
OKOnlyIfVerified == pc = "done" /\ ret = "OK" => Verified(world, values)

\* Side conditions of a boot that have nothing to do with verification: the
\* arguments make sense, and the partitions to load or to get the GUID of exist.
Bootable(w) ==
  /\ w.mode = "logging" => w.allow
  /\ w.noVbmeta => w.requested # <<>>
  /\ \A p \in {"boot", "system"} : Disk(w, p).present
  /\ \A i \in DOMAIN w.requested : Disk(w, w.requested[i]).present
  /\ w.noVbmeta /\ ~Disk(w, "vbmeta").present =>
       \A p \in Name : \A i \in DOMAIN VBMetaIn(w, p).descs :
         LET d == VBMetaIn(w, p).descs[i] IN ~(d.tag = "cmdline" /\ d.part = "vbmeta")

\* No stored digest is both created for a hash descriptor and demanded as the
\* root digest of a hashtree: a call that finds it missing may create it later.
UnsharedDigests(w) ==
  \A p, q \in Name : \A i \in DOMAIN VBMetaIn(w, p).descs, j \in DOMAIN VBMetaIn(w, q).descs :
    LET d == VBMetaIn(w, p).descs[i]
        e == VBMetaIn(w, q).descs[j]
    IN ~(d.tag = "hash" /\ d.digest = NoDigest /\ Persistent(e) /\ d.part = e.part)

\* Every root digest to be substituted has its place in the table.
RootsFit(w) ==
  \A p \in Name :
    LET descs == VBMetaIn(w, p).descs
    IN Cardinality({i \in DOMAIN descs : Persistent(descs[i])})
         <= IF w.noVbmeta THEN 0 ELSE MAX_SUBST

\* The vbmeta structs of a slot: one for each requested partition, or that of
\* the top-level image, number 0, and one for each of its chain descriptors.
TopDescs(w) == VBMetaIn(w, TopLevel(w)).descs

Structs(w) ==
  IF w.noVbmeta THEN DOMAIN w.requested
  ELSE {0} \union {j \in DOMAIN TopDescs(w) : TopDescs(w)[j].tag = "chain"}

StructPart(w, j) ==
  IF w.noVbmeta THEN w.requested[j]
  ELSE IF j = 0 THEN TopLevel(w) ELSE TopDescs(w)[j].part

\* The descriptors of the struct in p that have a partition loaded.
Loads(w, p) ==
  {i \in DOMAIN VBMetaIn(w, p).descs :
     LET d == VBMetaIn(w, p).descs[i] IN d.tag = "hash" /\ Requested(w, d.part)}

\* Every vbmeta struct, and every partition to be loaded, has its place.
TablesFit(w) ==
  /\ Cardinality(Structs(w)) <= MAX_VBMETA
  /\ Cardinality(UNION {{j} \X Loads(w, StructPart(w, j)) : j \in Structs(w)}) <= MAX_LOADED
  /\ Len(w.requested) <= MAX_LOADED

\* Nothing but its images can make avb_slot_verify() refuse the slot.
Fits(w) == Bootable(w) /\ UnsharedDigests(w) /\ RootsFit(w) /\ TablesFit(w)

\* Conversely, a verified slot is never refused when no callback fails and
\* it fits in the fixed-size tables.
VerifiedMeansOK ==
  pc = "done" /\ faults = 0 /\ Fits(world) /\ Verified(world, values)
  => ret = "OK"

\* The avb_assert()s about the state of the verifier hold: those on the two
\* ways to check a key, on the images recorded so far, on the command line of
\* a slot whose verification is disabled, on the resolved mode and on the
\* result.  Besides, vbmeta_images[0], which is read without a check after the
\* images are processed, is there.  Left out are the assertions on what other
\* code hands back (the number of bytes read, the public key of a signed
\* struct), on the length of a digest, on buffers that are still empty and on
\* arguments that are never null.
AssertsHold ==
  /\ pc = "key" /\ VB.verify = "OK" =>
       IF Top.expect # NoKey THEN ~IsMain ELSE world.noVbmeta \/ IsMain
  /\ pc = "rollback" =>
       IF IsMain THEN slot.images = <<>> ELSE world.noVbmeta \/ slot.images # <<>>
  /\ pc = "mangle" =>
       /\ slot.images # <<>>
       /\ ~world.noVbmeta => slot.images[1].part \in {"vbmeta", "boot"}
       /\ Disabled => slot.cmdline = <<>>
  /\ pc = "options" => slot.mode # "managed"
  /\ out /\ ~world.allow => ret = "OK"

\* A chained image never chains to another one: load_and_verify_vbmeta()
\* is never nested more than once.
ChainsDoNotNest == Len(stack) <= 2

\* *out_data is set for OK, and besides only for the three errors an
\* unlocked device may ignore; vbmeta_images[0] is then the top-level image.
OutDataUsable ==
  /\ out => /\ pc = "done"
            /\ ret \in {"OK", "VERIFICATION", "ROLLBACK_INDEX", "PUBLIC_KEY_REJECTED"}
            /\ ret = "OK" \/ world.allow
            /\ ~world.noVbmeta => slot.images[1].part = TopLevel(world)
  /\ pc = "done" /\ ret = "OK" => out

\* The partitions handed to the boot loader with an OK are among the requested
\* ones, and a hash descriptor of a recorded vbmeta image vouches for each,
\* unless the top-level image disables verification.
LoadedAreVerified ==
  out /\ ret = "OK" /\ Dependable =>
    \A i \in DOMAIN slot.loaded :
      /\ Requested(world, slot.loaded[i])
      /\ ~Disabled => \E j \in DOMAIN slot.images :
                       \E d \in {slot.images[j].vb.descs[k] : k \in DOMAIN slot.images[j].vb.descs} :
                         /\ d.tag = "hash" /\ d.part = slot.loaded[i]
                         /\ Holds(world, values, d)

\* A rollback index recorded in an accepted slot is not older than the one
\* the device has stored under that location.
RecordedNotOlder ==
  out /\ ret = "OK" /\ Dependable /\ ~world.noVbmeta =>
    \A l \in 0 .. MAX_LOCATIONS - 1 :
      l \in Location /\ slot.rollback[l] # 0 => slot.rollback[l] >= world.stored[l]

\* Every snippet of the kernel command line, also one from a chained image,
\* fits the dm-verity setting of the top-level image.
CmdlineFitsTopLevel ==
  slot.images # <<>> /\ ~world.noVbmeta =>
    \A i \in DOMAIN slot.cmdline : AppliesTo(TopImage.flags, slot.cmdline[i])

\* What the caller is handed can be relied on: the assertions stated above hold,
\* the data is there when it should be, and the partitions, rollback indexes and
\* command line in it are those of images that were verified.
SlotDataSound ==
  /\ AssertsHold
  /\ OutDataUsable
  /\ LoadedAreVerified
  /\ RecordedNotOlder
  /\ CmdlineFitsTopLevel

\* The kernel command line of an accepted slot gets one substitution for each
\* persistent root digest of the top-level image, all of them stored before.
RootsSubstituted ==
  out /\ ret = "OK" /\ ~blind /\ ~world.noVbmeta /\ ~Disabled =>
    LET roots == {i \in DOMAIN TopImage.descs : Persistent(TopImage.descs[i])}
    IN /\ slot.subst = Cardinality(roots)
       /\ \A i \in roots : values[TopImage.descs[i].part] # NoDigest

\* In the managed mode dm-verity runs in 'eio' mode exactly when the mark in
\* persistent storage is the digest of the OS being booted.
EioIffMarked ==
  pc \in {"options", "subst"} /\ world.mode = "managed" /\ ~Disabled =>
    (slot.mode = "eio" <=> mark = VBMetaDigest)

\* The mark of a corrupted OS goes away only when another OS is booted, and on
\* a device that allows no verification errors only when that OS was verified
\* as a whole.  A boot with ALLOW_VERIFICATION_ERROR gets as far as the mark
\* with an image that failed to verify, and drops it all the same.
MarkSticks ==
  [][mark # <<>> /\ mark' # mark =>
       /\ pc = "mangle" /\ VBMetaDigest # mark
       /\ ~world.allow => ret = "OK" /\ (Dependable => Verified(world, values))]_vars

\* A persistent digest is trusted on first use: it is stored on a locked
\* device only, and no later boot replaces it.
DigestsWrittenOnce ==
  [][values' # values =>
       /\ ~world.unlocked
       /\ \A p \in Name : values[p] # NoDigest => values'[p] = values[p]]_vars

\* Every call of avb_slot_verify() comes to an end.
Terminates == pc \in FrameStep \union SlotStep ~> pc \in {"done", "abort"}
=============================================================================
