------------------------------ MODULE PackFlow ------------------------------
(***************************************************************************)
(* Unpacking, editing and packing boot images (BootImgParser.kt,           *)
(* VBMetaParser.kt, Parser.kt, Packer.kt, Signer.kt).                      *)
(*                                                                         *)
(* The commands share nothing but files: the images in the current         *)
(* directory, the parts and JSON files in build/unzip_boot, and the        *)
(* results.  A command can be killed, or fail, at any step.  The user may  *)
(* do anything to the images and the parts between two commands.           *)
(*                                                                         *)
(* A file is abstracted to a version of its contents and to whether it is  *)
(* whole; a digest is what it was computed from.                           *)
(***************************************************************************)
EXTENDS AvbDescriptors

CONSTANTS Names,       \* names of boot images: "boot.img", "recovery.img"
          PartOrder,   \* the parts of a boot image, in the order they have there
          Versions,    \* contents of parts
          BootImages,  \* what the user may put under one of Names
          VBMetas,     \* what the user may put under vbmeta.img
          Edits,       \* the versions the user may give to a part
          None,
          MaxMoves,    \* bound on the commands and the user's doings
          MaxFaults    \* bound on the commands that fail for an outside reason

Parts == {PartOrder[i] : i \in DOMAIN PartOrder}
VBMetaName == "vbmeta.img"
Files == Names \union {VBMetaName}

\* 'valid': avbtool's check, and the magic number.  'descs' matters with AVB only.
Descriptor(digests) == [tag : Tags, partition : STRING, digest : digests]
BootImage == [valid : BOOLEAN, avb : BOOLEAN,
              parts : UNION {[S -> Versions] : S \in SUBSET Parts},
              descs : Seq(Descriptor({None}))]
VBMeta == [valid : BOOLEAN, descs : Seq(Descriptor({None}))]

\* A file of a part; <name>.clear, with the sizes and hashes of the parts in
\* its header; <name>.signed; bootimg.json; a *.avb.json file.
Content == [v : Versions, whole : BOOLEAN]
Clear == [header : UNION {[S -> Content] : S \in SUBSET Parts}, body : Seq(Content)]
SignedImage == [image : Clear, signed : BOOLEAN, descs : Seq(Descriptor(Clear \union {None}))]
Config == [output : Names, avb : BOOLEAN, has : SUBSET Parts]
Aux == {AuxBlob(i.descs) : i \in BootImages \union VBMetas}

ASSUME PackAssumption ==
  /\ PartOrder \in Seq(STRING) /\ "kernel" \in Parts /\ "ramdisk" \in Parts
  /\ VBMetaName \notin Names
  /\ BootImages \subseteq BootImage /\ VBMetas \subseteq VBMeta /\ Edits \subseteq Versions
  /\ MaxMoves \in Nat /\ MaxFaults \in Nat
  /\ None \notin Content /\ None \notin SignedImage

Whole(v) == [v |-> v, whole |-> TRUE]
Torn(f) == [f EXCEPT !.whole = FALSE]

\* build/unzip_boot: bootimg.json, the *.avb.json files, one file per part
\* (ramdisk.img.gz for the ramdisk), and the directory root.  A JSON file that
\* is not whole is as good as none: reading either is an IOException.
EmptyWork ==
  [cfg |-> None, json |-> [f \in Files |-> None], part |-> [p \in Parts |-> None], root |-> None]

\* <name>.clear, .google, .signed and .signed2
NoResults == [clear |-> None, google |-> None, signed |-> None, signed2 |-> None]

VARIABLES image,     \* the boot images in the current directory
          vbmeta,    \* vbmeta.img
          work,      \* build/unzip_boot
          result,    \* the files <name>.clear and so on, by name
          vbsigned,  \* vbmeta.img.signed
          pc,
          file,      \* the argument fileName of the command
          cfg,       \* the bootimg.json that pack has read
          k,         \* the part that is extracted next
          unpacked,  \* the last unpack: its image, and whether it returned normally
          edited,    \* the versions the user has put into build/unzip_boot since
          before,    \* build/unzip_boot as the command found it
          moves, faults

files == <<work, result, vbsigned>>
vars == <<image, vbmeta, files, pc, file, cfg, k, unpacked, edited, before, moves, faults>>

Idle == pc \in {"idle", "unpacked", "packed", "failed", "killed"}
-----------------------------------------------------------------------------
(* The user, between two commands.                                         *)

Move == Idle /\ moves < MaxMoves /\ moves' = moves + 1 /\ pc' = "idle"

PutImage(n, i) ==
  /\ Move /\ image' = [image EXCEPT ![n] = i]
  /\ UNCHANGED <<vbmeta, files, file, cfg, k, unpacked, edited, before, faults>>

PutVBMeta(v) ==
  /\ Move /\ vbmeta' = v
  /\ UNCHANGED <<image, files, file, cfg, k, unpacked, edited, before, faults>>

EditPart(p, v) ==
  /\ Move /\ work.part[p] # None
  /\ work' = [work EXCEPT !.part[p] = Whole(v)]
  /\ edited' = edited \union {v}
  /\ UNCHANGED <<image, vbmeta, result, vbsigned, file, cfg, k, unpacked, before, faults>>

EditRoot(v) ==
  /\ Move /\ work.root # None
  /\ work' = [work EXCEPT !.root = Whole(v)]
  /\ edited' = edited \union {v}
  /\ UNCHANGED <<image, vbmeta, result, vbsigned, file, cfg, k, unpacked, before, faults>>

\* "place 'ramdisk.img.gz' in directory, delete "root/""
UsePrebuilt(v) ==
  /\ Move /\ work.cfg # None
  /\ work' = [work EXCEPT !.part["ramdisk"] = Whole(v), !.root = None]
  /\ edited' = edited \union {v}
  /\ UNCHANGED <<image, vbmeta, result, vbsigned, file, cfg, k, unpacked, before, faults>>
-----------------------------------------------------------------------------
(* The commands.  The launcher prefers a boot image to vbmeta.img, and     *)
(* takes the first one that listFiles() happens to return.                 *)

Chosen(f) ==
  \/ f \in Names /\ image[f] # None
  \/ f = VBMetaName /\ vbmeta # None /\ \A n \in Names : image[n] = None

Start(f, first) ==
  /\ Idle /\ moves < MaxMoves /\ Chosen(f)
  /\ moves' = moves + 1 /\ file' = f /\ pc' = first
  /\ before' = work /\ cfg' = None /\ k' = 1
  /\ UNCHANGED <<image, vbmeta, files, faults>>

\* What a step leaves alone.
Step(from) == pc = from /\ UNCHANGED <<image, vbmeta, file, before, moves, faults>>

Unpack(f) ==
  /\ Start(f, IF f = VBMetaName THEN "vbmeta json" ELSE "clean up")
  /\ unpacked' = IF f = VBMetaName THEN unpacked ELSE [image |-> image[f], returned |-> FALSE]
  /\ edited' = IF f = VBMetaName THEN edited ELSE {}

\* Defect: the directory is made but not emptied.
CleanUpMakesOnly ==
  /\ Step("clean up") /\ pc' = "header"
  /\ UNCHANGED <<work, result, vbsigned, cfg, k, unpacked, edited>>

\* cleanUp()
CleanUp ==
  /\ Step("clean up") /\ pc' = "header"
  /\ work' = EmptyWork
  /\ UNCHANGED <<result, vbsigned, cfg, k, unpacked, edited>>

\* The command returns to the launcher.
Returns(outcome) ==
  /\ pc' = outcome
  /\ unpacked' = [unpacked EXCEPT !.returned = @ \/ (outcome = "unpacked" /\ file \in Names)]

\* parseBootImgHeader().  unpack() catches the IllegalArgumentException of an
\* image that is not valid, and returns normally.
ParseHeader ==
  /\ Step("header")
  /\ IF image[file].valid
     THEN /\ work' = [work EXCEPT !.cfg = [output |-> file, avb |-> image[file].avb,
                                           has |-> DOMAIN image[file].parts]]
          /\ pc' = "avb json" /\ UNCHANGED unpacked
     ELSE Returns("unpacked") /\ UNCHANGED work
  /\ UNCHANGED <<result, vbsigned, cfg, k, edited>>

\* parseVbMeta() for an image with a hash footer
ParseFooter ==
  /\ Step("avb json") /\ pc' = "extract"
  /\ work' = IF image[file].avb THEN [work EXCEPT !.json[file] = AuxBlob(image[file].descs)] ELSE work
  /\ UNCHANGED <<result, vbsigned, cfg, k, unpacked, edited>>

\* extractBootImg(), part by part; the ramdisk is unzipped into root as well.
ExtractPart ==
  /\ Step("extract") /\ k <= Len(PartOrder)
  /\ LET p == PartOrder[k]
         parts == image[file].parts
     IN /\ p = "kernel" => p \in DOMAIN parts
        /\ work' = IF p \notin DOMAIN parts THEN work
                   ELSE [work EXCEPT !.part[p] = Whole(parts[p]),
                                     !.root = IF p = "ramdisk" THEN Whole(parts[p]) ELSE @]
  /\ k' = k + 1
  /\ pc' = IF k < Len(PartOrder) THEN "extract" ELSE "vbmeta json"
  /\ UNCHANGED <<result, vbsigned, cfg, unpacked, edited>>

NoKernel ==
  /\ Step("extract") /\ k <= Len(PartOrder)
  /\ PartOrder[k] = "kernel" /\ "kernel" \notin DOMAIN image[file].parts
  /\ pc' = "failed"
  /\ UNCHANGED <<work, result, vbsigned, cfg, k, unpacked, edited>>

\* VBMetaParser.unpack(), called for boot images too if there is a vbmeta.img.
\* A vbmeta.img that cannot be read is not an error in that case.
UnpackVBMeta ==
  /\ Step("vbmeta json")
  /\ IF vbmeta = None THEN Returns("unpacked") /\ UNCHANGED work
     ELSE IF ~vbmeta.valid THEN Returns(IF file = VBMetaName THEN "failed" ELSE "unpacked") /\ UNCHANGED work
     ELSE /\ work' = [work EXCEPT !.json[VBMetaName] = AuxBlob(vbmeta.descs)]
          /\ Returns("unpacked")
  /\ UNCHANGED <<result, vbsigned, cfg, k, edited>>
-----------------------------------------------------------------------------
Pack(f) ==
  /\ Start(f, IF f = VBMetaName THEN "pack vbmeta" ELSE "load")
  /\ UNCHANGED <<unpacked, edited>>

\* packVbMetaWithPadding().  vbmeta.img.signed is overwritten but not cut off;
\* nothing looks at what a longer predecessor leaves behind the blob.
PackVbMeta(aux) == EncodeDescriptors(aux)

\* VBMetaParser.pack()
PackVBMeta ==
  /\ Step("pack vbmeta")
  /\ IF work.json[VBMetaName] = None THEN pc' = "failed" /\ UNCHANGED vbsigned
     ELSE pc' = "packed" /\ vbsigned' = PackVbMeta(work.json[VBMetaName])
  /\ UNCHANGED <<work, result, cfg, k, unpacked, edited>>

\* Packer.pack()
LoadConfig ==
  /\ Step("load")
  /\ cfg' = work.cfg
  /\ pc' = IF work.cfg = None THEN "failed" ELSE "delete"
  /\ UNCHANGED <<files, k, unpacked, edited>>

DeleteResults ==
  /\ Step("delete") /\ pc' = "ramdisk"
  /\ result' = [result EXCEPT ![cfg.output] = NoResults]
  /\ UNCHANGED <<work, vbsigned, cfg, k, unpacked, edited>>

\* Defect: an existing ramdisk.img.gz is good enough.
UsesPrebuiltAlways(w) == w.part["ramdisk"] # None

\* "do nothing if we have ramdisk.img.gz but no /root"
UsesPrebuilt(w) == w.part["ramdisk"] # None /\ w.root = None

\* Defect: the old ramdisk.img.gz is deleted before it is looked for.
PackRamdiskDeletesFirst ==
  /\ Step("ramdisk")
  /\ IF "ramdisk" \notin cfg.has THEN pc' = "clear header" /\ UNCHANGED work
     ELSE /\ work' = [work EXCEPT !.part["ramdisk"] = work.root]
          /\ pc' = IF work.root = None THEN "failed" ELSE "clear header"
  /\ UNCHANGED <<result, vbsigned, cfg, k, unpacked, edited>>

\* packRootfs(); mkbootfs fails without a directory.
PackRamdisk ==
  /\ Step("ramdisk")
  /\ IF "ramdisk" \notin cfg.has \/ UsesPrebuilt(work)
     THEN pc' = "clear header" /\ UNCHANGED work
     ELSE /\ work' = [work EXCEPT !.part["ramdisk"] = work.root]
          /\ pc' = IF work.root = None THEN "failed" ELSE "clear header"
  /\ UNCHANGED <<result, vbsigned, cfg, k, unpacked, edited>>

\* BootImgHeader.encode() with refresh(): every part is measured and hashed.
CanEncode(c, w) == "kernel" \in c.has /\ \A p \in c.has : w.part[p] # None

\* The header is written to a new <output>.clear.
WriteHeader ==
  /\ Step("clear header")
  /\ IF CanEncode(cfg, work)
     THEN /\ result' = [result EXCEPT ![cfg.output].clear =
                          [header |-> [p \in cfg.has |-> work.part[p]], body |-> <<>>]]
          /\ pc' = "clear data"
     ELSE pc' = "failed" /\ UNCHANGED result
  /\ UNCHANGED <<work, vbsigned, cfg, k, unpacked, edited>>

\* The parts that c names, in the order of the image.
InOrder(c) == At(PartOrder, {i \in DOMAIN PartOrder : PartOrder[i] \in c.has})
DataOf(c, w) == [i \in DOMAIN InOrder(c) |-> w.part[InOrder(c)[i]]]

\* writeData() appends the parts to <output>.clear.
AppendData ==
  /\ Step("clear data") /\ pc' = "mkbootimg"
  /\ result' = [result EXCEPT ![cfg.output].clear.body =
                  @ \o DataOf(cfg, work)]
  /\ UNCHANGED <<work, vbsigned, cfg, k, unpacked, edited>>

\* mkbootimg makes <output>.google, which must turn out the same.
RunMkbootimg ==
  /\ Step("mkbootimg") /\ pc' = "sign"
  /\ result' = [result EXCEPT ![cfg.output].google = result[cfg.output].clear]
  /\ UNCHANGED <<work, vbsigned, cfg, k, unpacked, edited>>

\* The partition an *.avb.json file with hash descriptors is about.
Partition(aux) == aux["hash"][1].desc.partition
HasHash(aux) == aux # None /\ aux["hash"] # <<>>

Signed(i, descs) == [image |-> i, signed |-> TRUE, descs |-> descs]
Unsigned(i) == [image |-> i, signed |-> FALSE, descs |-> <<>>]

\* Signer.sign(): boot_signer writes the result; copyTo() does not overwrite one.
Sign ==
  /\ Step("sign")
  /\ LET r == result[cfg.output]
     IN IF ~cfg.avb
        THEN /\ result' = [result EXCEPT ![cfg.output].signed = Signed(r.clear, <<>>)]
             /\ pc' = "merge"
        ELSE IF HasHash(work.json[cfg.output]) /\ r.signed = None
        THEN /\ result' = [result EXCEPT ![cfg.output].signed = Unsigned(r.clear)]
             /\ pc' = "footer"
        ELSE pc' = "failed" /\ UNCHANGED result
  /\ UNCHANGED <<work, vbsigned, cfg, k, unpacked, edited>>

\* addHashFooter(), whose writes are the subject of HashFooter: interrupted, it
\* leaves no footer.  An image too large for its partition is an outside reason
\* to fail here.
AddHashFooter ==
  /\ Step("footer") /\ pc' = "avbtool"
  /\ LET i == result[cfg.output].signed.image
         aux == work.json[cfg.output]
     IN result' = [result EXCEPT ![cfg.output].signed =
                     Signed(i, PackVbMeta(UpdateHash(aux, Partition(aux), i)))]
  /\ UNCHANGED <<work, vbsigned, cfg, k, unpacked, edited>>

\* avbtool signs another copy for comparison.
RunAvbtool ==
  /\ Step("avbtool")
  /\ IF result[cfg.output].signed2 = None
     THEN /\ result' = [result EXCEPT ![cfg.output].signed2 = result[cfg.output].clear]
          /\ pc' = "merge"
     ELSE pc' = "failed" /\ UNCHANGED result
  /\ UNCHANGED <<work, vbsigned, cfg, k, unpacked, edited>>

\* Defect: the descriptor is taken from the image that was unpacked.
MergeVBMetaOld ==
  /\ Step("merge")
  /\ IF vbmeta = None THEN pc' = "packed" /\ UNCHANGED vbsigned
     ELSE IF HasHash(work.json[file]) /\ work.json[VBMetaName] # None
     THEN /\ vbsigned' = PackVbMeta(ReplaceHash(work.json[VBMetaName], Partition(work.json[file]),
                                                work.json[file]["hash"][1].desc))
          /\ pc' = "packed"
     ELSE pc' = "failed" /\ UNCHANGED vbsigned
  /\ UNCHANGED <<work, result, cfg, k, unpacked, edited>>

\* The rest of BootImgParser.pack(): the hash descriptor of <file>.signed goes
\* into vbmeta.img.signed.
MergeVBMeta ==
  /\ Step("merge")
  /\ LET s == result[file].signed
         new == AuxBlob(s.descs)["hash"][1].desc
     IN IF vbmeta = None THEN pc' = "packed" /\ UNCHANGED vbsigned
        ELSE IF /\ HasHash(work.json[file]) /\ s # None /\ s.signed
                /\ work.json[VBMetaName] # None
        THEN /\ vbsigned' = PackVbMeta(ReplaceHash(work.json[VBMetaName], Partition(work.json[file]), new))
             /\ pc' = "packed"
        ELSE pc' = "failed" /\ UNCHANGED vbsigned
  /\ UNCHANGED <<work, result, cfg, k, unpacked, edited>>
-----------------------------------------------------------------------------
(* A step that is killed or fails for an outside reason: the files it may  *)
(* leave behind.                                                           *)

\* What deleteRecursively() may not have come to yet.
Leftovers(w) ==
  [cfg : {w.cfg, None},
   json : {j \in [Files -> {w.json[f] : f \in Files} \union {None}] : \A f \in Files : j[f] \in {w.json[f], None}},
   part : {q \in [Parts -> {w.part[p] : p \in Parts} \union {None}] : \A p \in Parts : q[p] \in {w.part[p], None}},
   root : {w.root, None} \union (IF w.root = None THEN {} ELSE {Torn(w.root)})]

HalfWork ==
  CASE pc = "clean up" -> Leftovers(work)
    [] pc = "vbmeta json" -> {work, [work EXCEPT !.json[VBMetaName] = None]}
    [] pc = "extract" /\ k <= Len(PartOrder) ->
         LET p == PartOrder[k]
             f == Whole(image[file].parts[p])
         IN IF p \notin DOMAIN image[file].parts THEN {work}
            ELSE {[work EXCEPT !.part[p] = Torn(f)], [work EXCEPT !.part[p] = f]}
                 \union {[work EXCEPT !.part[p] = f, !.root = Torn(f)] : q \in {p} \intersect {"ramdisk"}}
    [] pc = "ramdisk" /\ "ramdisk" \in cfg.has /\ ~UsesPrebuilt(work) ->
         {[work EXCEPT !.part["ramdisk"] = None]}
           \union {[work EXCEPT !.part["ramdisk"] = Torn(r)] : r \in {work.root} \ {None}}
    [] OTHER -> {work}

HalfResults(r) ==
  CASE pc = "delete" ->
         {r, [r EXCEPT !.google = None], [r EXCEPT !.google = None, !.clear = None],
          [NoResults EXCEPT !.signed2 = r.signed2]}
    [] pc = "clear header" -> {r, [r EXCEPT !.clear = [header |-> [p \in {} |-> None], body |-> <<>>]]}
    [] pc = "clear data" -> {[r EXCEPT !.clear.body = SubSeq(DataOf(cfg, work), 1, n)] : n \in 0 .. Len(InOrder(cfg))}
    [] pc = "mkbootimg" -> {r, [r EXCEPT !.google = r.clear]}
    [] pc = "sign" -> {r, [r EXCEPT !.signed = Unsigned(r.clear)]}
    [] pc = "avbtool" -> {r, [r EXCEPT !.signed2 = r.clear]}
    [] OTHER -> {r}

Fail ==
  /\ ~Idle /\ faults < MaxFaults /\ faults' = faults + 1
  /\ pc' = "killed"
  /\ work' \in HalfWork
  /\ IF cfg = None THEN UNCHANGED result
     ELSE \E r \in HalfResults(result[cfg.output]) : result' = [result EXCEPT ![cfg.output] = r]
  /\ vbsigned' \in {vbsigned} \union (IF pc \in {"merge", "pack vbmeta"} THEN {None} ELSE {})
  /\ UNCHANGED <<image, vbmeta, file, cfg, k, unpacked, edited, before, moves>>
-----------------------------------------------------------------------------
Init ==
  /\ image = [n \in Names |-> None] /\ vbmeta = None
  /\ work = EmptyWork /\ result = [n \in Names |-> NoResults] /\ vbsigned = None
  /\ pc = "idle" /\ file = None /\ cfg = None /\ k = 1
  /\ unpacked = [image |-> None, returned |-> FALSE] /\ edited = {}
  /\ before = EmptyWork /\ moves = 0 /\ faults = 0

Next ==
  \/ \E n \in Names, i \in BootImages \union {None} : PutImage(n, i)
  \/ \E v \in VBMetas \union {None} : PutVBMeta(v)
  \/ \E p \in Parts \ {"ramdisk"}, v \in Edits : EditPart(p, v)
  \/ \E v \in Edits : EditRoot(v) \/ UsePrebuilt(v)
  \/ \E f \in Files : Unpack(f) \/ Pack(f)
  \/ CleanUp \/ ParseHeader \/ ParseFooter \/ ExtractPart \/ NoKernel \/ UnpackVBMeta
  \/ PackVBMeta \/ LoadConfig \/ DeleteResults \/ PackRamdisk \/ WriteHeader \/ AppendData
  \/ RunMkbootimg \/ Sign \/ AddHashFooter \/ RunAvbtool \/ MergeVBMeta
  \/ Fail

Spec == Init /\ [][Next]_vars
-----------------------------------------------------------------------------
Work == [cfg : Config \union {None}, json : [Files -> Aux \union {None}],
         part : [Parts -> Content \union {None}], root : Content \union {None}]
Results == [clear : Clear \union {None}, google : Clear \union {None},
            signed : SignedImage \union {None}, signed2 : Clear \union {None}]

\* The *.avb.json file of a boot image is of an image with a footer, the one
\* that bootimg.json is of.
OfOneImage(w) ==
  \A f \in Names : w.json[f] # None =>
    /\ \E i \in BootImages : w.json[f] = AuxBlob(i.descs)
    /\ w.cfg # None => w.cfg.output = f /\ w.cfg.avb

TypeOK ==
  /\ image \in [Names -> BootImages \union {None}] /\ vbmeta \in VBMetas \union {None}
  /\ work \in Work /\ before \in Work /\ OfOneImage(work) /\ OfOneImage(before)
  /\ result \in [Names -> Results]
  /\ file \in Files \union {None} /\ cfg \in Config \union {None}
  /\ k \in 1 .. Len(PartOrder) + 1 /\ edited \subseteq Versions
  /\ unpacked \in [image : BootImages \union {None}, returned : BOOLEAN]
  /\ moves \in 0 .. MaxMoves /\ faults \in 0 .. MaxFaults

\* The boot image pack() has just made, and what it was to be made of.
Packed == pc = "packed" /\ file \in Names
Output == result[cfg.output].signed
MadeFrom(w, p) == IF p = "ramdisk" /\ w.root # None THEN w.root ELSE w.part[p]
Wanted(p) == MadeFrom(before, p)

\* Whatever earlier commands left behind: a pack that succeeds has made a
\* signed image of exactly the parts that were in build/unzip_boot, each once
\* and in order, with the ramdisk made from root/ unless that was deleted.
PackedIsCurrent ==
  Packed =>
    /\ Output # None /\ Output.signed
    /\ Output.image.header = [p \in cfg.has |-> Wanted(p)]
    /\ Output.image.body = [i \in DOMAIN InOrder(cfg) |-> Wanted(InOrder(cfg)[i])]
    /\ cfg.avb => \E i \in DOMAIN Output.descs : /\ Output.descs[i].tag = "hash"
                                                 /\ Output.descs[i].digest = Output.image

\* If the last unpack returned, also after an error that it only logged, then
\* nothing of another image gets into what is packed after it, and no half
\* extracted file does.
NothingStale ==
  Packed /\ unpacked.returned =>
    \A p \in cfg.has : LET f == Output.image.header[p]
                       IN /\ f.whole
                          /\ \/ f.v \in edited
                             \/ p \in DOMAIN unpacked.image.parts /\ f.v = unpacked.image.parts[p]

\* vbmeta.img.signed vouches for the boot image that was packed with it, and
\* is otherwise the vbmeta.img that was unpacked, in the same order.
VBMetaMatches ==
  Packed /\ vbmeta # None =>
    /\ cfg.output = file
    /\ \E d \in {Output.descs[i] : i \in DOMAIN Output.descs} :
         /\ d.tag = "hash" /\ d.digest = Output.image
         /\ vbsigned = Merged(EncodeDescriptors(before.json[VBMetaName]), d.partition, d)

\* A pack, also one that fails or is killed half way, does not destroy what
\* the next one makes its image from.
PackKeepsSources ==
  cfg # None /\ pc # "idle" => \A p \in cfg.has : MadeFrom(work, p) = Wanted(p)

\* A reason for a pack to fail in what it was given.
Incomplete ==
  \/ before.cfg = None
  \/ "kernel" \notin before.cfg.has
  \/ \E p \in before.cfg.has : Wanted(p) = None
  \/ before.cfg.avb /\ ~HasHash(before.json[before.cfg.output])
  \/ vbmeta # None /\ (~HasHash(before.json[file]) \/ before.json[VBMetaName] = None)

\* A pack fails only for a reason in what it was given, or an outside one:
\* never because of what an earlier or an interrupted pack has left.
PackCanBeRepeated ==
  pc = "failed" /\ cfg # None /\ file \in Names => Incomplete

\* A pack can be repeated, also after one that failed or was killed: what it
\* is made from is still there, and nothing left over makes it fail.
PackRepeatable == PackKeepsSources /\ PackCanBeRepeated
=============================================================================
