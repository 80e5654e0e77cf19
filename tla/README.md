# Verification of the Android boot image editor

This directory holds TLA+ models of the boot image editor, the TLC
configurations that check them on small instances, and proofs of the main
results for every instance. `PROJECT.json` lists the runs, maps each definition
to the lines it models and names the hazards the properties are for.

## 1. The system

The editor takes a `boot.img`, `recovery.img`, `dtbo.img`, `vbmeta.img` or a
sparse image apart, lets the user edit the parts, and puts them together again
so that a device with Android Verified Boot (AVB) accepts the result. Its own
code is the Kotlin application `bbootimg` and the C++ library `avbImpl`; the
rest is vendored AOSP code that it links or runs.

| Part | State it keeps | Operations | Talks to |
|---|---|---|---|
| libavb slot verification (`avb_slot_verify.c`, `avb_cmdline.c`) | the call's frames, the slot data under construction, the result; on the device: rollback indexes, persistent values | verify a slot, recursively for chained images | the `AvbOps` callbacks, which may fail |
| libavb image and descriptor parsing | none | validate a vbmeta image and its descriptors | called by slot verification |
| avbImpl (`CfigAvbOps.cpp`), avbVerifier (`main.cpp`) | files standing for partitions, lock state and rollback indexes | the callbacks; one verification and a JSON report | libavb |
| AVB signing (`Avb.kt`, `Footer.kt`, `HashDescriptor.kt`) | the image file and the `AVBInfo` read from it | add a hash footer, trim it, parse and write vbmeta images | files of the working directory |
| Packing workflow (`BootImgParser.kt`, `Packer.kt`, `Parser.kt`, `Signer.kt`, `VBMetaParser.kt`) | the files of the working directory and `build/unzip_boot` | unpack, pack, sign, flash | mkbootimg, avbtool, boot_signer, mkbootfs as programs |
| Dispatch (`PackableLauncher.kt`) | none | choose the handler of a command | the parsers |
| Boot image headers, configuration (`BootImgHeader.kt`, `UnifiedConfig.kt`) | the header and its JSON form | read, encode, convert | the packing workflow |
| Bootloader message (`BootloaderMsg.kt`, `Reboot.kt`) | the misc partition | write, read and clear a reboot request | the device's boot loader |
| libsparse and its tools | an ordered list of backed blocks, the output file's position | add, merge, split, write, read back | files |
| mkbootfs, avbtool, mkbootimg, mkdtboimg, boot_signer | none between runs | external programs | run by the workflow |

### What is hard about it

* **Failure in the middle.** Every callback of the verifier may fail, and some
  errors are to be collected and others not; a forgotten error is an accepted
  image.
* **Several boots.** Digests are trusted on first use, and the dm-verity mode is
  managed through a mark, both in storage that outlives the call and can be
  written by one boot and read by the next, possibly of another slot or lock
  state.
* **Mutual trust of images.** The top-level image decides about keys, rollback
  locations and flags of the chained ones, which are read later.
* **Files left from an earlier run.** The editor's steps communicate through
  files. A step that fails, or is killed, leaves a mixture of old and new ones.
* **Boundaries.** Sizes are rounded to blocks, tables have fixed sizes, numbers
  that an image claims are added up in 64 bits, lengths of merged blocks in 32.
* **Two programs, one format.** The editor writes what libavb reads, one sparse
  tool reads what another one wrote, possibly only in part.
* **Pointers kept across changes.** The list of backed blocks remembers a cell
  that a merge may free.

`PROJECT.json` lists each of these as hazards at the line where it bites.

## 2. Slot verification: `SlotWorld`, `SlotVerify`

`SlotWorld` describes what a call of `avb_slot_verify()` finds: a *world* is a
record with the partitions (present or not, with a vbmeta struct, a body
represented by its digest), the requested partitions, the flags of the call,
the lock state, the keys the device trusts and the stored rollback indexes. A
vbmeta struct is abstracted to what the verifier looks at: the verdict of
`avb_vbmeta_image_verify()`, its key, rollback index, flags and the sequence of
its descriptors, each of which may be malformed. The module also defines what it
means for a world to be *verified* (`Verified`), without reference to the
algorithm.

`SlotVerify` is the algorithm. Its variables are the local variables of the C
functions: `stack` holds one record per active call of
`load_and_verify_vbmeta()`, `pc` the place in it, `slot` the
`AvbSlotVerifyData` being filled, `ret` and `out` what the caller gets. `values`
and `mark` are the persistent values and survive a boot. One action stands for
one phase of the code:

| Action | Code |
|---|---|
| `Boot`, `BootFails` | argument checks and allocations of `avb_slot_verify()` |
| `LocateVBMeta`, `ReadVBMeta` | footer, preloaded or read vbmeta, second attempt with `boot` |
| `VerifyImage`, `CheckKey`, `CheckRollback` | signature, public key, flags, rollback index, entry in `vbmeta_images` |
| `LoadRequested` | verification disabled: load without verifying |
| `ListDescriptors`, `ListDescriptorsFails` | `avb_descriptor_get_all()` |
| `HashDesc`, `HashDescFails` | `load_and_verify_hash_partition()` with the persistent digest |
| `ChainDesc`, `ReturnToChain` | the recursive call and its return |
| `CmdlineDesc`, `HashtreeDesc`, `PropertyDesc`, `FinishVBMeta` | the other descriptors and the end of the loop |
| `NextRequested`, `ReturnToSlot`, `VBMetasDone` | the loop of `avb_slot_verify()` |
| `MangleCmdline`, `AppendOptions`, `SubstCmdline` | managed dm-verity mode, options, substitutions |
| `CallbackFails`, `SlotCallbackFails`, `MangleCmdlineFails`, `CmdlineDescFails` | a callback or an allocation fails there |

A failing callback is bounded by `MaxFaults` per behaviour, the number of boots
by `MaxBoots`. Nothing else is bounded but the set `Worlds` a boot picks from.

The *defect* operators (`...Forgets`, `...OffByOne`, ...) are variants of a
definition with a plausible bug. No specification uses them; replacing the
original by one makes TLC find the property violated that is meant to catch it.

### What is checked

`OKMeansVerified` is the main property (`Verified` of `SlotWorld`): if `avb_slot_verify()` answers OK, then
every vbmeta struct it accepted has a valid signature, a trusted key and a
rollback index that is not too old, and every requested partition has the
digest some accepted struct demands. `Dependable` names three situations it does
not speak of: a persistent root digest (the run `masked_error` shows what goes
wrong there), an unlocked device with `NO_VBMETA_PARTITION`, where the result of
one requested partition replaces that of another, and an allocation that fails
in `avb_descriptor_get_all()`, after which an image seems to have no
descriptors. The converse, `VerifiedMeansOK`, says that a slot without a flaw is
accepted when no callback fails and nothing else stands in the way (`Fits`): the
partitions asked for are there, with the GUID of `vbmeta` among them
(`Bootable`); everything has room in the tables (`RootsFit`, `TablesFit`); and no
digest is shared between a hash descriptor that creates it and a hashtree that
demands it (`UnsharedDigests`, see section 9). `SlotDataSound` is about the slot data a call leaves: the assertions of
the code about the state of the verifier hold (`AssertsHold`; those on arguments,
on empty buffers and on what other code hands back are not stated), the caller gets data only with the answers it
may use it with (`OutDataUsable`), what is loaded as verified is
(`LoadedAreVerified`), the rollback indexes to store later are not older than
the device's (`RecordedNotOlder`), and the command line fits the top-level
image's dm-verity setting (`CmdlineFitsTopLevel`).

| Run | Worlds it starts from | Shows |
|---|---|---|
| `verify` | a top-level image, in `vbmeta` or in the footer of `boot`, with chained ones, good and bad in every combination of keys, indexes, flags and digests; and `NO_VBMETA_PARTITION` with up to two requested partitions, each on its own; room for two vbmeta images and two loaded partitions | the answer, both ways; recursion depth; the assertions of the code; what is loaded and recorded, and what the caller gets with an error, full tables included |
| `history` | three boots of two slots, locked and unlocked, with persistent digests and root digests, the dm-verity mark, and one failing callback or allocation at any place there is one | digests are trusted on first use only, the mark of a corrupted OS sticks (`MarkSticks`, below), every placeholder of the command line is replaced, no failure turns into an OK, the same demands on the slot data; termination |
| `masked_error` | a locked device and images that name a persistent root digest | a violation: the error of a chained image is overwritten |

The worlds are chosen by family, so that within a family every combination is
explored: two keys, two rollback locations and two digests are enough to have a
right and a wrong one of each; two chained images are enough for one to follow
another's failure. Every boot of `history` is any world of the three
families, so that whatever one boot stores is read by every other kind of boot;
`MaxFaults` is 1, because every failing callback ends the verification or is
one of the errors that are collected. `MAX_SUBST` is 1 there, so that the table
of substitutions overflows; `VerifiedMeansOK` leaves the overflow out
(`RootsFit`). Two worlds are there only for the hypotheses of
`VerifiedMeansOK`: a hashtree and a hash descriptor that share their stored
digest, and a command line that asks for the GUID of a vbmeta partition that
does not exist. Without `UnsharedDigests`, or the last part of `Bootable`, TLC
finds the property violated.

`MarkSticks` says what may drop the mark: only a boot of another OS that has come
as far as setting its command line, and on a device that allows no verification
errors only one that is verified as a whole, outside the situations of
`Dependable`. With `ALLOW_VERIFICATION_ERROR` the code goes on to that point with
images that failed to verify, and drops the mark there too.

*Fairness.* `Terminates` is checked under weak fairness of the verifier's own
steps. That is what sequential code that is never suspended does; nothing is
assumed about a next boot.

## 3. Signing: `HashFooter`

`HashFooter` models `Avb.addHashFooter()` write by write. A file is its length,
the recognisable pieces in it by offset (vbmeta blobs and footers, each with the
call that wrote it), and its contents elsewhere. `Call` is the check of the
sizes, `TrimFooter` cuts off an old footer and computes the digest, the four
writes are `PadImage`, `AppendVBMeta`, `AppendChunk` and `AppendFooter`, and
`Interrupt(n)` stops the process when `n` bytes of the next write are done.
Sizes are real; `INT_MAX` is a constant so that the conversion of the chunk's
size to an `Int` overflows with small numbers in the run.

* `FooterSound`: however calls are interrupted and repeated, a file that ends in
  a footer of ours has the blob that belongs to it, and the digest of exactly
  the image that the footer delimits. Because the footer is what is written
  last, a file torn by a crash never passes for signed.
* `FillsPartition`: what `imageSizeCheck()` lets through fits, and fills the
  partition, as long as the partition size is an `Int` and the blob not larger
  than the 64K kept for it; the code checks neither.
* `SignsSameImage`: signing again signs the same image.
* `Idempotent` (run `idempotent`, a violation): the comment in the code says the
  call can be repeated; it is rejected, because the size is checked before the
  footer is cut off.

The run `hash_footer` has images just below, at and above a block and a footer,
partitions at the smallest accepted size, one block and one byte above, and two
that take in an already signed image; three calls are enough to sign, be
interrupted, and sign again.

## 4. The working directory: `AvbDescriptors`, `PackFlow`

`AvbDescriptors` has the lists of descriptors: reading (`AuxBlob`), writing
(`EncodeDescriptors`), and the two ways in which one hash descriptor is
exchanged (`UpdateHash` when signing, `ReplaceHash` in `vbmeta.img`). The editor
keeps one list per type, each descriptor with its number in the image, and sorts
by that number when it writes (`SortBySequence`); `At` is the element of a set of
indexes that has a given place in it. The run
`vbmeta_image` compares them with direct definitions (`Resigned`, `Merged`) on
all images of up to three descriptors, and of four with one digest (`EditsInPlace`, which is `RoundTrip`,
`SignsInPlace` and `MergesInPlace`); that they agree for images of any length is
proved (section 8).

`PackFlow` has the files. `work` is `build/unzip_boot`, `result` the files
`<name>.clear`, `.google`, `.signed` and `.signed2`, `image` and `vbmeta` what
the user put there. One action is one step of `unpack` or `pack` that reads or
writes files, in the order of the code; `Fail` stops a command at any step with
the files that step may leave. Between commands the user may exchange images,
edit parts, or supply a prebuilt ramdisk. mkbootimg, avbtool, boot_signer and
mkbootfs are steps that write their output or fail.

* `PackedIsCurrent`, `NothingStale`: what was signed is what is in the working
  directory now, and that is what the last unpack that returned has put there,
  or the user since.
* `VBMetaMatches`: `vbmeta.img.signed` vouches for the image packed with it. This
  needs boot images with at most one hash descriptor of each partition: of
  several, signing keeps the last and puts the digest there, while pack takes
  the first hash descriptor of the signed image for that of the boot image, and
  with the descriptors boot, extra, boot that is another one. avbtool does not
  make such images.
* `PackRepeatable` (`PackKeepsSources`, `PackCanBeRepeated`): a pack that was killed does not harm
  the next one.

The run `pack` has two names, `boot.img` and `recovery.img`, of which a command
takes whichever it finds first. Five moves suffice for placing an image,
unpacking, editing, and packing twice, for the same with a `vbmeta.img`, or for
unpacking two images one after the other and packing. One killed command is
enough to leave any half-finished state behind; a second would start from a
subset of the same states.

Not a property: after an unpack that was *killed*, a pack may succeed with a
partial `root/`. The code cannot tell, and does not claim to.

## 5. vbmeta images between editor and libavb: `VBMetaWriter`, `VBMetaImage`

`VBMetaWriter` has the layout of what `packVbMeta()` and
`packVbMetaWithPadding()` write: the header with its offsets and sizes, the
rounded blocks, and each descriptor at its offset with its padding. `Written` is
such an image in memory, with the descriptors it was written from (`EditorDesc`).
Three things are assumed of them (`WriterAssumption`): the sizes of structs and blocks are
multiples of the alignment; editor and libavb know the same algorithms, with
hashes of the same size; and a chain descriptor has a location of at least 1,
without which libavb refuses the descriptor, and which the editor writes as it
was read. `WrittenAssumption` says that an image that is called intact is a
`Written` one; all other images have any content.

`VBMetaImage` has what libavb makes of an image in memory. Numbers and addresses
are words that wrap at `WORD`; a sum is `Sum`, and `SafeAdd` the test of
`avb_safe_add()`. `VBMetaVerify` is `avb_vbmeta_image_verify()` with its checks
in order (hash and signature match or not as an attribute of the image), and
the actions are the walk of `avb_descriptor_foreach()`: `Begin` and `BeginFails`
for the region, `Finish`, `Misaligned` (`avb_assert_aligned()` aborts, the debug
assertions are compiled in), `LengthFails`, and `Call` with the callback that
counts (`Count`), fills the array (`Set`) or looks for a property (`Examine`),
after which the pointer moves (`Advance`). `avb_descriptor_get_all()` goes on
whatever its walks return, as in the code; `avb_property_lookup()` takes a walk
that stopped at a malformed descriptor for one that found the key, and its
result is then `Uninitialized`.

* `AcceptedInside`: what the verdict lets pass lies in the buffer, in true
  arithmetic, and a key is handed out only with a matching signature.
* `WalkSound`, `ContentsInside`: the array is a chain without gaps; after a walk
  that returned true it ends where the descriptors end, and all parts of a
  descriptor that its validator accepts are in the buffer.
* `TwoPassesAgree`: the second walk finds as many descriptors as the first.
* `WrittenUsable` (`WrittenAccepted`, `LookupFinds`): libavb accepts what the editor writes, lists
  and validates all of it in order, and finds the properties.
* `EditsInPlace` (section 4) is checked on the descriptors of the same images.
* `Terminates`: no length makes a walk go round for ever. Weak fairness is that
  of sequential code; nothing is assumed about a caller.

The run `vbmeta_image` has the real sizes of header and descriptors with a word
of 16 bits, so that the end of a word is out of reach of an intact image and in
reach of one addition to it. Images are all lists of up to three descriptors the
editor may write, those of four with one digest, every algorithm with and without metadata and padding, and
three of them in which one or two numbers are replaced by others around zero,
the end of a block and the end of a word. Two at a time are needed for sums of
two claimed numbers that only wrap together.

## 6. Sparse images: `SparseImage`, `BackedBlocks`, `SparseFormat`, `SparseTools`

`SparseImage` is what a cookie of libsparse promises: of each byte of the image,
the set of bytes that were added for it. To it regions are added, of which a
beginning is moved to another cookie, and it is destroyed. `BackedBlocks` is
`backed_block.cpp` on heap cells: `AddFirst`, `AddAtHead`, `AddBehind`, `Search`
and `Link` are `queue_bb()`, started from `last_used`; `MergeNext` and `MergePrev`
are the two `merge_bb()` after it, which free cells; `Split`, `ListMove` and
`ListDestroy` the other operations. A free cell is `Poison`.

A list is made for regions that are not used yet (`Unused`), and to get back what
was taken from it only when it is empty. Two callers do otherwise, and the ghost
`misuse` says to which list that has happened:

* append2simg rounds the length of a raw image down to blocks, so that an image
  that ends within a block gets the appended file at a block that is in use
  (`AtPartialBlock`; "added_twice"). merge_bb() asserts that the first of its cells
  starts first, but the library is built with `NDEBUG` (`sparse/build.gradle.kts`:14),
  and with sources that differ nothing is merged. The tool then writes the list
  and ends, so nothing else is done with it.
* When a counting pass cannot map a block, `move_chunks_up_to_len()` reports the end
  of the list (sparse.cpp:283-285), and the cells collected so far go back
  (sparse.cpp:339) to a list that still has those behind them.
  `backed_block_list_move()` links them after the head of that list, which is out of
  order from then on ("moved_back"); later splits and moves work on it as it is,
  and the lists they move to are as little in order.

Under the mapping that reads the contents off the cells in a list, `BackedBlocks`
implements `SparseImage` (`Refines`); what moves from a list out of order are some
bytes and not a beginning, which is why `SparseImage` knows the cookies that got
something back (`shuffled`). Of the parts of `ListInv`, `LastUsedListed`,
`ChainWhole` and `QueueSound` are about every list: walks see every cell, and no
pointer dangles, neither `last_used` nor the locals of `queue_bb()` between its
merges. `BlocksDisjoint` holds unless something was added twice, and `ListSorted`
unless a list was misused at all. What a walk reaches (`Chain`, or `UpTo` as far as
one cell) is the least set that contains the head and is closed under `next`.

The run `backed_blocks` has three cells, two lists and an image of three blocks of
two bytes: a cell can be merged with both neighbours, a last block can be partial
and appended to, the memory of a freed cell is used again, and a list can get
back one cell before, between or behind those it has, which is then split or moved
again. Cells and lists are symmetric. In `merge_wraps` one value fills an image
longer than an unsigned int counts, and the merged block has length zero.

`SparseFormat` has the chunks that are written for a list and the list that is
read from chunks, as sequences; `SparseTools` has `img2simg`, `simg2img`,
`simg2simg` and `append2simg` as processes on the files of a directory, one
action per chunk that is written. `WriteFails` leaves part of a chunk, `Sigbus`
is a mapping past the end of a file, `Kill` stops a process anywhere. The ghost
`want` is the image a tool that exited with 0 has promised in a file, and
`proc.lost` marks a process in which an error was ignored that the tool does not
report; for such a process nothing is promised. An image that is there at the
beginning is promised in `simg` if the whole of it is there (`FirstImage`).

* `FilesSound` (`SimgReadsBack`, `OutRestored`): what is finished reads back as the image it
  stands for, through merges, gaps, partial last blocks, pieces and an
  `append2simg` killed over the remains of another.
* `PiecesSound` (`PiecesFit`, `PiecesInArray`), `ResparseKeepsImage`: pieces are no longer than
  asked for, no more of them than the array has room for (they are counted in
  one pass and made in a second one that finds the blocks already split), and
  no block is lost.
* `Terminates`: under weak fairness of the running process (a scheduler does not
  stop it for good); resparse makes progress with each piece.

The run `sparse` has seven initial directories with every kind of chunk, partial
last blocks and empty inputs, four piece sizes from just enough for one block
and a gap (4164), three tool runs and one fault. Blocks have 4096 bytes, because
the header sizes matter for the pieces; `Wrap` is far away.

## 7. The verifier's callbacks: `CfigAvbOps`

`CfigAvbOps` is the C++ class of that name and the `main()` of avbVerifier that
creates it. `disk` is the `<name>.img` files, `config` the files of `config/`
that stand for the device's lock state, key and rollback indexes. Construction
and preloading are steps of their own, in the order of the code; then callbacks
come in any order, which includes every order `SlotVerify` makes. The user may
replace images and edit `config/` at any moment, a file may fail to open or to be
written, and the verifier may be killed and started again.

* `ReadExact`, `PreloadedPrefix`: libavb gets the bytes it asked for, also from
  the end, and also from a partition that was preloaded. `ReadExact` leaves out the
  read whose range begins before the partition, which `ReadInside` is about, and a
  read from the end of a file that changes its length meanwhile.
* `IndexAsStored`: an index that is read is the one last stored in full; a write
  that was cut short is an error later, never an old index.
* `DeviceSound` (`LockedByDefault`, `LockStateAgrees`): errors are only allowed on a device the
  user has unlocked, whatever files are missing, and `main()` and libavb agree
  about it unless the user edits the file in between.
* `ReadInside` (run `seek_before_start`, a violation): a read that begins one byte
  before the partition succeeds.

The run `avb_ops` has images of two and three bytes, offsets within, at the edge
of and beyond them from both ends, a new device, one in use and one with
unreadable files, two runs with two callbacks, one edit and one fault: enough to
write in one run and read in the next, with an edit or a failure at any place
between. A lock state that was edited after `main()` read it is exempted by
`ghost.relocked`, and an image changed after it was preloaded by
`ghost.touched`; the code does not look again.

## 8. What is proved

For every value of the constants, under the assumptions named in the modules
(`NameAssumption`, `SentinelAssumption`, `LimitAssumption`, `BoundAssumption`,
`FooterAssumption`, `ListAssumption`, `DeviceAssumption` and `PackAssumption`: the
constants have their types, sizes of tables and blocks are positive, the marks for
"none" are no real values; those of `VBMetaImage`, `SizesAssumption` and `ImagesAssumption`: structs fit
into a word, and an image is an aligned buffer that exists, with any numbers in
it; `WriterAssumption` and `WrittenAssumption`, see section 5; those of
`SparseTools` are named with its theorem below), TLAPS checks:

* `SlotVerifyProofs`: `TypeCorrect`, `OKIsVerified` (`OKMeansVerified`) and
  `RecursionBounded` (`ChainsDoNotNest`). `OKMeansVerified` speaks of the end
  of a call only. The inductive invariant says in addition what is known in the
  middle: the shape of the stack (`StackShape`: the frame at the bottom is the
  top-level image, a chained one is on top of it and cannot chain further); that
  the requested partitions gone through so far are verified (`EarlierVerified`);
  that a frame whose `ret` is OK has verified everything up to its current
  descriptor (`FramesClean`); and that the slot is verified once `ret` of
  `avb_slot_verify()` itself is OK (`SlotClean`). The last three hold under
  `Dependable`, which excludes the situations of the findings. Each action is
  shown to preserve each part it can disturb, and storing a digest on first use
  is shown to keep everything that was verified before.
* `SlotVerifyProofs`, second part: `SlotDataIsSound` (`SlotDataSound`), `EioMatchesMark`
  (`EioIffMarked`), `RootsAreSubstituted` (`RootsSubstituted`) and the action
  properties `MarkIsKept` (`MarkSticks`) and `DigestsAreKept` (`DigestsWrittenOnce`),
  on top of the invariant of the first part. `DataInv` adds what the outermost
  frame, at the stage it has reached, and the slot data know of each other
  (`FrameData`, `TopData`); that the first image recorded is the top-level one
  (`ImagesKnown`) and that the call gives up as long as none is recorded
  (`NothingRecorded`), which together make the unchecked `vbmeta_images[0]` safe;
  that every loaded partition has a descriptor in a recorded image and every
  recorded index is recent, as long as no error was seen and under `Dependable`
  (`LoadedVouched`, `RollbackRecent`); and that the substitutions made are as many
  as the persistent root digests before the current descriptor (`RootsCounted`).
  `VerifiedIsOK` (`VerifiedMeansOK`) is the converse of `OKIsVerified`, and its
  argument runs the other way: instead of what has been verified so far, the
  invariant says that nothing can have been refused so far (`AcceptInv`). Whether
  a slot is verified depends on the values stored *at the end* of the call, which
  the call itself may add to. The invariant is therefore about every set of
  values `v` the current ones can still become (`Later`) for which the slot is
  verified (`Hopeful`): under it each frame's `ret` is OK (`FramesOK`, `StageOK`).
  The tables never overflow because what is in them is counted by two injections:
  every recorded struct is one of `Structs` and every loaded partition one of the
  load pairs (`TablesCounted`, `PairsPassed`), which `TablesFit` bounds. The proof
  attempt found both hypotheses named in section 9.
* `HashFooterProofs`: `FooterTypeCorrect`, `FooterIsSound` (`FooterSound`),
  `PartitionFilled` (`FillsPartition`) and `SameImageSigned` (`SignsSameImage`).
  Here the invariant `IInv` adds that *every* footer of ours in the file, not
  only one at its end, is at the end and sound (`OwnSound`), because cutting a
  file could otherwise bring one to the end; what has been written at each of
  the four steps (`Written`); and that the current request has passed the size
  check (`Request`), from which `FillsPartition` follows by arithmetic on
  rounded sizes (`Room`). The lemmas about `Cut`, `Grow` and `Put` say how each
  changes a file.

* `VBMetaImageProofs`: `TypeCorrect`, `AcceptedAreInside` (`AcceptedInside`),
  `WalkIsSound` (`WalkSound`), `ContentsAreInside` (`ContentsInside`) and `PassesAgree`
  (`TwoPassesAgree`), for every word size, every header and every content of the
  image. `SafeAddIsTrue` says
  what the test of `avb_safe_add()` is worth; from it the bounds on blocks
  (`BlocksFitIsTrue`, `InBlockIsTrue`) and on parts of descriptors
  (`ContentsFitIsTrue`) follow. The invariant adds where the walk stands: its
  pointer is in the region (`Pointer`) and at the end of the descriptor that was
  put into the table last (`Progress`), which is what links the next one
  (`AppendIInv`), and a walk that has ended did so at the end of the region
  (`Ended`). That the two walks agree looks like an induction over a walk, and is
  none: `WalksAgree` says that *some* sequence of addresses is what the first walk
  has gone along so far (`Counting`), and all of it at its end (`Counted`); the
  second is compared with that sequence step by step (`Filling`).
  `WrittenIsUsable` (`WrittenUsable`) is about images of the editor with any
  number of descriptors of any length. Its invariant `Reads` says that the
  pointer is at a descriptor of the list the image was written from, or behind
  the last one (`Standing`), and that those before it are in the table, or are
  not the property looked for. For the step, `WalkWritten` shows that a
  descriptor has its alignment, its length and its successor where the editor's
  computation puts them. That computation, `SizeBefore`, is a recursive function,
  which means nothing to the provers until a function with its equations is shown
  to exist: `SumsExist` does it for sums of natural numbers, and `SizesAddUp` and
  `SizesGrow` are what the layout needs of it. The induction they use is on sets
  of numbers: a set that has 0 and with every number up to a bound the next
  has all of them, or there would be a least one missing (`UpTo`).
  `EditsAreInPlace` (`EditsInPlace`) applies the theorems of
  `AvbDescriptorsProofs` to these images.
* `AvbDescriptorsProofs`: `RoundTrips` (writing what was read is the identity),
  `SigningInPlace` and `MergingInPlace` (the two edits are `Resigned` and
  `Merged`), and `SignedReadBack` (what pack finds when it reads the signed image
  again), for images with any number of descriptors. Lists are sequences and
  places in them are numbers of elements, so these facts rest on `Ranking`: in a
  finite set with a total order the numbers of elements up to each one are 1, 2,
  and so on. It follows from the library's theorems on injections between finite
  sets of the same size, and takes the place of an induction.
* `PackFlowProofs`: `PackInvariant`, `PackFilesSound` (`TypeOK`), `PacksWhatIsThere`
  (`PackedIsCurrent`), `PacksNothingStale` (`NothingStale`), `PacksRepeatedly`
  (`PackRepeatable`) and `PacksMatchingVBMeta` (`VBMetaMatches`, under the
  hypothesis `OneHashEach` explained in section 4). The invariant `PackInv` says
  at each stage of a command which files it has written so far and from what
  (`Stages`, `Sources`, `Pipeline`, `MergedIn`), and that the parts an unpack has
  left are those of the image its configuration names, or the user's
  (`FreshSources`), also in the middle of an unpack and after one that was
  killed.
* `BackedBlocksProofs`: `ListsSound` (`ListInv`), `ListsImplementImage` (`Refines`:
  every step of the list is a step of `SparseImage`, or none) and
  `MergesKeepContents`, for any number of cells and lists and any image whose size
  is below `Wrap`, the range of an unsigned int; the run `merge_wraps` shows that
  the hypothesis is needed. `Core` is inductive. It has of each list that its cells
  have *ranks* (`Ranked`): numbers that grow along the links, the head having the
  least and every other cell a predecessor. In a list in order the blocks are such
  ranks; a list out of order has others, because whatever is linked behind one of
  its cells can be given the ranks between that cell and its next one
  (`InsertWalkable`, `ToRanked`). `ChainWhole` follows: of the cells of a list that
  a walk does not reach, the one with the least rank would have a predecessor that
  reaches it. That a move takes the cells from the head to `end` is the same
  argument for a part of the ranks (`UpToRanked`). For the refinement, `Backed`
  adds that a fill has offset 0 and that a new cell comes from a known source.
* `CfigAvbOpsProofs`: `ReadsExact` (`ReadExact`), `BuffersMatch` (`PreloadedPrefix`),
  `IndexesAsStored` (`IndexAsStored`) and `LockStateSound` (`DeviceSound`), for files
  of any length, any number of partitions, callbacks and runs. `DeviceInv` relates
  what the verifier keeps to the files it came from: the preloaded buffers
  (`BuffersCurrent`), the stored indexes (`IndexCurrent`), the lock state
  (`LockCurrent`) and a read that is under way (`ReadPending`).

* `SparseToolsProofs`: `PiecesAreSound` (`PiecesSound`), `ResparseKeeps`
  (`ResparseKeepsImage`) and `SimgIsReadBack` (`SimgReadsBack`), for any blocks, files, sizes
  of a piece, faults and runs, as long as no image is 4 GiB or longer (`Small`,
  and for the last two `SmallImages`, which counts the last block as a whole one;
  in the run, images have six blocks at most). The assumptions are in the
  modules: `FormatAssumption` (a block has at least 1024 bytes, img2simg takes no
  smaller ones), `FilesAssumption` (a file that is there at the start is a raw
  image, of which no block is missing, or chunks, which have the data they say), `NamesAssumption` (the pieces
  have different names, which are not those of other files) and `SizesAssumption`
  (a piece has room for one block and its headers; see section 9 for what
  happens below). `PiecesInv` says of a process that its list has cells that are
  sorted and apart and of known kinds, what its reader and writer have done so
  far (`Streaming`, `Restoring`), and how far it has cut (`Cutting`). That a piece
  fits is arithmetic on what is written of a list: `FileLen` counts a gap and a
  chunk for each cell, and the header, the end skip and the crc are the
  `overhead` of the code. That the pieces fit in the array needs that the second
  pass cuts where the first one did. It is not given the same list: the first
  pass has split cells, and the collected cells are merged again when they are
  put back, unless they are split at a multiple of a block. The invariant
  therefore compares the two passes by what is left in front of the next cut,
  which the second pass finds as the first one left it or as the beginning of
  it. Recursive functions (`FileLen`, `FileSize`, `Import`, `AllBlocks`) mean nothing
  to the provers until a function with their equations is shown to exist:
  `RecursionWithin` does it for a function whose values stay in given sets.

  `SimgInv` adds what the blocks are; both invariants are in
  `SparseToolsInvariants`. Images are compared by what each block of them holds
  (`Has`), because a fill that is merged, a cell that is split and a chunk that is
  read back are other cells for the same blocks. `Kept` says that the pieces that
  were made, the collected cells and the rest of the list together are the image,
  with no two cells over each other: a cut moves cells from the third to the
  second, the end of a piece from the second to the first, and the end of the
  first pass puts back what was collected. `Streamed` says that what img2simg and
  append2simg have written is a beginning of what they planned (`Plan`), and all
  of it when they exit or rename. That such a file reads back (`ReadsBack`) needs
  that the skips fill exactly the gaps, so that each chunk is read at the block it
  was written for, that a fill has one value and that what was written was there
  to be mapped. `SimgKept` is the promise, and says that no file that is read has
  lost a block; append2simg keeps it because it writes elsewhere and renames, and
  img2simg because it withdraws the promise before it opens the file.

Only model-checked: termination (liveness under fairness is out of the prover's
reach), and of `FilesSound` the part `OutRestored`, that simg2img restores the
image of one file or of all its pieces, and the type invariant that `FilesSound`
contains. `SimgReadsBack`, its other part, is proved.

## 9. Findings and observations

Four runs expect a violation, each of something the repository says of its code;
`PROJECT.json` quotes it: `masked_error` (an error overwritten in
`avb_slot_verify.c`), `idempotent` (the comment in `Avb.kt`), `merge_wraps` (the
32-bit length in `backed_block.cpp`) and `seek_before_start` (the test of
`lseek()` in `CfigAvbOps.cpp`).

Observed while modelling, where no document says otherwise or nothing in the
repository depends on it:

* A hashtree descriptor of a chained image that demands a root digest not stored
  yet is an error after which the verification goes on. If a later hash
  descriptor of the same partition has no digest of its own, it stores one under
  that name: the call answers ERROR_VERIFICATION, and the next one, with the same
  images, OK.
* Without a vbmeta partition (`NO_VBMETA_PARTITION`) a command line that asks for
  `$(ANDROID_VBMETA_PARTUUID)` makes `avb_sub_cmdline()` fail: only a top-level
  image in the footer of `boot` has the GUID replaced by that of `boot`.
* `write_rollback_index()` answers the opposite of what happened; libavb's slot
  verification never calls it.
* `get_unique_guid_for_partition()` answers the same text for every partition: the
  buffer has room for the part of it that does not differ.
* avbVerifier writes `verify_result.json` only after an OK and does not remove that
  of an earlier run; its reader has to look at the exit code.
* A preloaded partition is compared with the length its file has at that moment,
  not with the length that was preloaded.
* The tools drop the results of `output_file_close()` and of skip chunks. When a
  block cannot be mapped, `sparse_file_resparse()` takes that for the end of the
  list; a first call that counted too few pieces makes simg2simg allocate an
  array that is too short for the second.
* simg2simg does not check its size argument: with blocks of 4096 bytes and less
  than 4164 bytes per piece it splits off empty blocks for ever.
* append2simg refuses an input that is no multiple of a block, but not an image
  that is none: the input then replaces the image's partial last block.
* `avb_property_lookup()` returns a pointer that was never assigned when a
  descriptor is malformed. Nothing calls it.

## 10. Not modelled

Bytes of fields, JSON, cpio, ASN.1, cryptography and checksums are not modelled;
digests and signatures are symbols. mkbootfs, avbtool, mkbootimg, mkdtboimg and
boot_signer are vendored programs that appear as steps that write their output
or fail. `DtboParser` and `SparseImgParser` start such programs one after the
other. Boot image headers are positions and sizes computed in straight-line
code. The bootloader message is used by tests only. Of libsparse, output to gzip
and to callbacks is left out, which the tools do not use by default.

## 11. Plan

Left, in this order:

1. `SparseTools`: a proof of `OutRestored`, for which `SimgInv` has to say of the
   pieces what it says of `simg`, and of `out` how much of it is restored.
2. An abstract specification of slot verification in one step, implemented by
   `SlotVerify` under a refinement mapping.

## 12. Running

    tlc -workers 2 -config MCSlotVerify.cfg MCSlotVerify
    tlapm SlotVerifyProofs.tla

and likewise for the other configurations, each named after its module.
