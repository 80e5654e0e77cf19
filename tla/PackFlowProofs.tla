--------------------------- MODULE PackFlowProofs ---------------------------
(***************************************************************************)
(* What PackFlow promises holds for all parts, versions, images and        *)
(* numbers of commands and faults: the inductive invariant and its proof.  *)
(***************************************************************************)
EXTENDS PackFlow, AvbDescriptorsProofs, SequenceTheorems

-----------------------------------------------------------------------------
(* The inductive invariant.                                                *)

UnpackStages == {"clean up", "header", "avb json", "extract", "vbmeta json"}
LateStages == {"clear data", "mkbootimg", "sign", "footer", "avbtool", "merge"}
PackStages == {"delete", "ramdisk", "clear header"} \union LateStages

\* Which command is at which stage, and what it holds in its hands.
Stages ==
  /\ pc \in {"idle", "unpacked", "packed", "failed", "killed", "load", "pack vbmeta"}
             \union UnpackStages \union PackStages
  /\ pc \in {"clean up", "header", "avb json", "extract", "load"} \union PackStages => file \in Names
  /\ pc = "vbmeta json" => file \in Files
  /\ pc \in UnpackStages /\ file \in Names =>
       image[file] \in BootImages /\ unpacked = [image |-> image[file], returned |-> FALSE]
  /\ pc = "pack vbmeta" => file = VBMetaName
  /\ pc \in UnpackStages \union {"load", "pack vbmeta"} => cfg = None
  /\ pc \in PackStages \/ Packed => cfg # None
  /\ cfg # None => cfg = before.cfg
  /\ pc = "header" => work = EmptyWork
  /\ pc = "avb json" => work = [EmptyWork EXCEPT !.cfg = work.cfg]
                        /\ work.cfg \in Config /\ work.cfg.output = file /\ work.cfg.avb = image[file].avb

\* pack() does not touch what it makes its image from, apart from the ramdisk
\* that it makes from root/.
Sources ==
  /\ pc = "load" => work = before
  /\ pc = "delete" => work = before
  /\ cfg # None /\ pc # "idle" =>
       /\ work.json = before.json /\ work.root = before.root
       /\ \A p \in Parts : MadeFrom(work, p) = Wanted(p)

\* The image that is to be made, and its descriptors.
NewHeader == [p \in cfg.has |-> Wanted(p)]
NewBody == [i \in DOMAIN InOrder(cfg) |-> Wanted(InOrder(cfg)[i])]
NewClear == [header |-> NewHeader, body |-> NewBody]
NewDescs ==
  LET aux == before.json[cfg.output]
  IN PackVbMeta(UpdateHash(aux, Partition(aux), NewClear))
Made == result[cfg.output]

\* How far the results have come at each stage.
Pipeline ==
  /\ pc \in {"ramdisk", "clear header", "clear data", "mkbootimg", "sign"} => Made.signed = None
  /\ pc \in {"ramdisk", "clear header", "clear data", "mkbootimg", "sign", "footer", "avbtool"} =>
       Made.signed2 = None
  /\ (pc \in {"clear header"} \union LateStages \/ Packed) /\ "ramdisk" \in cfg.has =>
       work.part["ramdisk"] = Wanted("ramdisk") /\ work.part["ramdisk"] # None
  /\ pc \in LateStages \/ Packed => "kernel" \in cfg.has /\ \A p \in cfg.has : Wanted(p) # None
  /\ pc = "clear data" => Made.clear = [header |-> NewHeader, body |-> <<>>]
  /\ pc \in LateStages \ {"clear data"} \/ Packed => Made.clear = NewClear
  /\ pc \in {"footer", "avbtool"} => cfg.avb
  /\ (pc \in {"footer", "avbtool", "merge"} \/ Packed) /\ cfg.avb => HasHash(before.json[cfg.output])
  /\ pc = "footer" => Made.signed = Unsigned(NewClear)
  /\ pc \in {"avbtool", "merge"} \/ Packed =>
       Made.signed = Signed(NewClear, IF cfg.avb THEN NewDescs ELSE <<>>)

\* What pack() has made of vbmeta.img.
MergedIn ==
  Packed /\ vbmeta # None =>
    /\ HasHash(before.json[file]) /\ before.json[VBMetaName] # None
    /\ vbsigned = PackVbMeta(ReplaceHash(before.json[VBMetaName], Partition(before.json[file]),
                                         AuxBlob(result[file].signed.descs)["hash"][1].desc))

\* From the moment that unpack() has emptied build/unzip_boot, and unless it
\* was killed, everything an image can be made from comes from the image it
\* reads or from the user, and is whole.
Fresh(f, p) ==
  f # None => f.whole /\ (\/ f.v \in edited
                          \/ p \in DOMAIN unpacked.image.parts /\ f.v = unpacked.image.parts[p])
Emptied == unpacked.returned \/ (pc \in UnpackStages \ {"clean up"} /\ file \in Names)
FreshSources == Emptied => \A p \in Parts : Fresh(MadeFrom(work, p), p)

PackInv ==
  /\ TypeOK /\ Stages /\ Sources /\ Pipeline /\ MergedIn /\ FreshSources /\ PackCanBeRepeated
-----------------------------------------------------------------------------
(* The constants, and the values the variables take.                       *)

LEMMA Shape ==
  /\ "kernel" \in Parts /\ "ramdisk" \in Parts
  /\ VBMetaName \in Files /\ VBMetaName \notin Names /\ \A n \in Names : n \in Files /\ n # VBMetaName
  /\ \A i \in BootImages : /\ i.valid \in BOOLEAN /\ i.avb \in BOOLEAN
                           /\ DOMAIN i.parts \in SUBSET Parts
                           /\ \A p \in DOMAIN i.parts : i.parts[p] \in Versions
                           /\ i.descs \in Seq(Descriptor({None}))
  /\ \A v \in VBMetas : v.valid \in BOOLEAN /\ v.descs \in Seq(Descriptor({None}))
  /\ Len(PartOrder) \in Nat /\ DOMAIN PartOrder = 1 .. Len(PartOrder)
  /\ \A i \in 1 .. Len(PartOrder) : PartOrder[i] \in Parts
  /\ MaxMoves \in Nat /\ MaxFaults \in Nat /\ Edits \subseteq Versions
  /\ None \notin SignedImage /\ None \notin Content
<1>1. "kernel" \in Parts /\ "ramdisk" \in Parts
  BY PackAssumption
<1>2. VBMetaName \in Files /\ VBMetaName \notin Names /\ \A n \in Names : n \in Files /\ n # VBMetaName
  BY PackAssumption DEF Files
<1>3. ASSUME NEW i \in BootImages
      PROVE  /\ i.valid \in BOOLEAN /\ i.avb \in BOOLEAN
             /\ DOMAIN i.parts \in SUBSET Parts
             /\ \A p \in DOMAIN i.parts : i.parts[p] \in Versions
             /\ i.descs \in Seq(Descriptor({None}))
  <2>1. i \in BootImage
    BY PackAssumption
  <2>2. PICK S \in SUBSET Parts : i.parts \in [S -> Versions]
    BY <2>1 DEF BootImage
  <2> QED
    BY <2>1, <2>2 DEF BootImage
<1>4. \A v \in VBMetas : v.valid \in BOOLEAN /\ v.descs \in Seq(Descriptor({None}))
  BY PackAssumption DEF VBMeta
<1>5. Len(PartOrder) \in Nat /\ DOMAIN PartOrder = 1 .. Len(PartOrder)
  BY PackAssumption
<1>6. \A i \in 1 .. Len(PartOrder) : PartOrder[i] \in Parts
  BY <1>5 DEF Parts
<1> QED
  BY <1>1, <1>2, <1>3, <1>4, <1>5, <1>6, PackAssumption

LEMMA WholeContent ==
  /\ \A v \in Versions : Whole(v) \in Content /\ Whole(v).whole /\ Whole(v).v = v
  /\ \A f \in Content : Torn(f) \in Content
BY DEF Whole, Torn, Content

LEMMA Nothing ==
  /\ EmptyWork \in Work /\ OfOneImage(EmptyWork) /\ NoResults \in Results
  /\ NoResults.signed = None /\ NoResults.signed2 = None
  /\ EmptyWork.json = [f \in Files |-> None] /\ EmptyWork.root = None
  /\ \A p \in Parts : EmptyWork.part[p] = None /\ MadeFrom(EmptyWork, p) = None
<1>1. /\ EmptyWork.cfg = None /\ EmptyWork.json = [f \in Files |-> None]
      /\ EmptyWork.part = [p \in Parts |-> None] /\ EmptyWork.root = None
  BY DEF EmptyWork
<1>2. EmptyWork \in Work
  BY DEF EmptyWork, Work
<1>3. NoResults \in Results /\ NoResults.signed = None /\ NoResults.signed2 = None
  BY DEF NoResults, Results
<1>4. OfOneImage(EmptyWork)
  BY <1>1, Shape DEF OfOneImage
<1> QED
  BY <1>1, <1>2, <1>3, <1>4 DEF MadeFrom

\* The parts in the order of the image.
LEMMA OrderedData ==
  ASSUME NEW c \in Config, NEW w \in Work, \A p \in c.has : w.part[p] \in Content
  PROVE  /\ InOrder(c) \in Seq(c.has)
         /\ DOMAIN InOrder(c) = 1 .. Len(InOrder(c)) /\ Len(InOrder(c)) \in Nat
         /\ \A i \in DOMAIN InOrder(c) : InOrder(c)[i] \in c.has
         /\ DataOf(c, w) \in Seq(Content) /\ DOMAIN DataOf(c, w) = DOMAIN InOrder(c)
         /\ Len(DataOf(c, w)) = Len(InOrder(c))
         /\ <<>> \o DataOf(c, w) = DataOf(c, w)
         /\ \A n \in 0 .. Len(InOrder(c)) : SubSeq(DataOf(c, w), 1, n) \in Seq(Content)
<1> DEFINE I == {i \in DOMAIN PartOrder : PartOrder[i] \in c.has}
           o == InOrder(c)
           d == DataOf(c, w)
<1>1. I \in SUBSET Nat /\ IsFiniteSet(I)
  <2>1. I \in SUBSET (1 .. Len(PartOrder)) /\ I \in SUBSET Nat
    BY Shape
  <2>2. IsFiniteSet(1 .. Len(PartOrder))
    BY Shape, FS_Interval
  <2> QED
    BY <2>1, <2>2, FS_Subset
<1>2. Picks(At(PartOrder, I), PartOrder, I, c.has)
  <2>1. \A i \in I : PartOrder[i] \in c.has
    OBVIOUS
  <2> HIDE DEF I
  <2> QED
    BY <1>1, <2>1, AtProperties
<1>3. o \in Seq(c.has)
  BY <1>2 DEF InOrder, Picks
<1> HIDE DEF o
<1>4. DOMAIN o = 1 .. Len(o) /\ Len(o) \in Nat /\ \A i \in DOMAIN o : o[i] \in c.has
  BY <1>3
<1>5. d \in [1 .. Len(o) -> Content]
  <2>1. d = [i \in DOMAIN o |-> w.part[o[i]]]
    BY DEF DataOf, o
  <2> HIDE DEF d
  <2> QED
    BY <1>4, <2>1
<1> HIDE DEF d
<1>6. d \in Seq(Content) /\ DOMAIN d = DOMAIN o /\ Len(d) = Len(o)
  BY <1>4, <1>5
<1>7. <<>> \o d = d /\ \A n \in 0 .. Len(o) : SubSeq(d, 1, n) \in Seq(Content)
  <2>1. <<>> \o d = d
    BY <1>6
  <2>2. ASSUME NEW n \in 0 .. Len(o)
        PROVE  SubSeq(d, 1, n) \in Seq(Content)
    BY <1>4, <1>6
  <2> QED
    BY <2>1, <2>2
<1> QED
  BY <1>3, <1>4, <1>6, <1>7 DEF o, d

\* The hash descriptors of the image i are of different partitions.
OneHashEach(i) ==
  \A m, n \in DOMAIN i.descs :
    i.descs[m].tag = "hash" /\ i.descs[n].tag = "hash" /\ i.descs[m].partition = i.descs[n].partition => m = n

\* The descriptors that addHashFooter() writes.
LEMMA FooterDescs ==
  ASSUME NEW i \in BootImages, HasHash(AuxBlob(i.descs)), NEW c \in Clear
  PROVE  LET aux == AuxBlob(i.descs)
             new == PackVbMeta(UpdateHash(aux, Partition(aux), c))
         IN /\ new \in Seq(Descriptor(Clear \union {None}))
            /\ \E n \in DOMAIN new : new[n].tag = "hash" /\ new[n].digest = c
            /\ OneHashEach(i) =>
                 \E n \in DOMAIN new : /\ new[n].tag = "hash" /\ new[n].digest = c
                                       /\ new[n].partition = Partition(aux)
                                       /\ AuxBlob(new)["hash"][1].desc = new[n]
<1> DEFINE ds == i.descs
           D == Descriptor({None})
           aux == AuxBlob(ds)
           hashes == aux["hash"]
           p == Partition(aux)
           r == Resigned(ds, p, c)
           new == PackVbMeta(UpdateHash(aux, p, c))
           I == OfTag(ds, "hash")
<1>1. ds \in Seq(D) /\ "hash" \in Tags /\ D = [tag : Tags, partition : STRING, digest : {None}]
  BY Shape DEF Descriptor, Tags
<1>2. Descriptors(D)
  BY DEF Descriptors, Descriptor
<1>3. hashes # <<>> /\ hashes[1].desc.partition = p
  BY DEF HasHash, Partition
<1> HIDE DEF ds, D, p
<1>4. HashesOf(ds, p) # {}
  <2>1. /\ \A n \in DOMAIN hashes : Nth(I, n) \in I /\ hashes[n] = [desc |-> ds[Nth(I, n)], sequence |-> Nth(I, n)]
        /\ DOMAIN hashes = 1 .. Cardinality(I) /\ Cardinality(I) \in Nat
        /\ Numbered(hashes, I, ds, D)
    BY <1>1, AuxBlobList
  <2>2. hashes \in Seq(Entry(D))
    BY <2>1 DEF Numbered
  <2>3. \A x \in I : x \in DOMAIN ds /\ ds[x].tag = "hash"
    BY DEF OfTag
  <2> HIDE DEF hashes, I
  <2>4. 1 \in DOMAIN hashes
    BY <1>3, <2>1, <2>2
  <2>5. Nth(I, 1) \in I /\ ds[Nth(I, 1)].partition = p
    BY <1>3, <2>1, <2>4
  <2>6. Nth(I, 1) \in HashesOf(ds, p)
    BY <2>3, <2>5 DEF HashesOf
  <2> QED
    BY <2>6
<1>5. new = r
  BY <1>1, <1>2, <1>4, SigningInPlace DEF PackVbMeta
<1>6. /\ r \in Seq([tag : Tags, partition : STRING, digest : {None} \union {c}])
      /\ HasSigned(r, p, c) /\ (OnlyFirst(ds, p) => FirstSigned(r, p, c))
  <2>1. ds \in Seq([tag : Tags, partition : STRING, digest : {None}])
    BY <1>1
  <2> QED
    BY <1>4, <2>1, SignedReadBack
<1>7. r \in Seq(Descriptor(Clear \union {None}))
  <2> DEFINE E == [tag : Tags, partition : STRING, digest : {None} \union {c}]
             F == Descriptor(Clear \union {None})
  <2>1. E \subseteq F
    BY DEF Descriptor
  <2>2. r \in Seq(E)
    BY <1>6
  <2> HIDE DEF E, F, r
  <2>3. Len(r) \in Nat /\ r \in [1 .. Len(r) -> E]
    BY <2>2
  <2>4. r \in [1 .. Len(r) -> F]
    BY <2>1, <2>3
  <2>5. r \in Seq(F)
    BY <2>3, <2>4
  <2> QED
    BY <2>5 DEF F
<1>8. OneHashEach(i) => OnlyFirst(ds, p)
  <2>1. OneHashEach(i) => \A x, y \in HashesOf(ds, p) : x = y
    BY DEF OneHashEach, HashesOf, ds
  <2> QED
    BY <1>3, <2>1 DEF OnlyFirst
<1> HIDE DEF new, r, hashes
<1>9. \E n \in DOMAIN new : new[n].tag = "hash" /\ new[n].digest = c
  BY <1>5, <1>6 DEF HasSigned
<1>10. OneHashEach(i) =>
         \E n \in DOMAIN new : /\ new[n].tag = "hash" /\ new[n].digest = c
                               /\ new[n].partition = p
                               /\ AuxBlob(new)["hash"][1].desc = new[n]
  BY <1>5, <1>6, <1>8 DEF FirstSigned
<1> QED
  BY <1>5, <1>7, <1>9, <1>10 DEF new, p, ds
-----------------------------------------------------------------------------
(* The types.                                                              *)

LEMMA InitInv == Init => PackInv
<1> SUFFICES ASSUME Init PROVE PackInv
  OBVIOUS
<1>1. TypeOK
  <2>1. 1 \in 1 .. Len(PartOrder) + 1
    BY Shape
  <2> QED
    BY <2>1, Nothing, Shape DEF Init, TypeOK
<1>2. Stages
  BY Shape DEF Init, Stages, UnpackStages, PackStages, LateStages, Packed
<1>3. Sources /\ Pipeline /\ MergedIn /\ PackCanBeRepeated
  BY DEF Init, Sources, Pipeline, MergedIn, PackCanBeRepeated, LateStages, Packed
<1>4. FreshSources
  BY DEF Init, FreshSources, Emptied, UnpackStages
<1> QED
  BY <1>1, <1>2, <1>3, <1>4 DEF PackInv

\* A step that changes only one of the files in build/unzip_boot.
LEMMA WorkChanges ==
  ASSUME NEW w \in Work
  PROVE  /\ \A p \in Parts, f \in Content \union {None}, r \in Content \union {None} :
              /\ [w EXCEPT !.part[p] = f] \in Work
              /\ [w EXCEPT !.root = r] \in Work
              /\ [w EXCEPT !.part[p] = f, !.root = r] \in Work
         /\ \A f \in Files, a \in Aux \union {None} : [w EXCEPT !.json[f] = a] \in Work
         /\ \A c \in Config \union {None} : [w EXCEPT !.cfg = c] \in Work
BY DEF Work

LEMMA SameJson ==
  ASSUME NEW w, OfOneImage(w), NEW u, u.cfg = w.cfg,
         \A f \in Names : u.json[f] = w.json[f]
  PROVE  OfOneImage(u)
BY DEF OfOneImage

LEMMA UserTypes ==
  ASSUME PackInv,
         \/ \E n \in Names, i \in BootImages \union {None} : PutImage(n, i)
         \/ \E v \in VBMetas \union {None} : PutVBMeta(v)
         \/ \E p \in Parts \ {"ramdisk"}, v \in Edits : EditPart(p, v)
         \/ \E v \in Edits : EditRoot(v) \/ UsePrebuilt(v)
  PROVE  TypeOK'
<1>0. TypeOK
  BY DEF PackInv
<1>1. moves' \in 0 .. MaxMoves
  <2>1. Move
    BY DEF PutImage, PutVBMeta, EditPart, EditRoot, UsePrebuilt
  <2>2. MaxMoves \in Nat /\ moves \in 0 .. MaxMoves /\ moves < MaxMoves /\ moves' = moves + 1
    BY <1>0, <2>1, Shape DEF TypeOK, Move
  <2> QED
    BY <2>2
<1>2. ASSUME NEW n \in Names, NEW i \in BootImages \union {None}, PutImage(n, i)
      PROVE  TypeOK'
  BY <1>0, <1>1, <1>2 DEF TypeOK, PutImage, files
<1>3. ASSUME NEW v \in VBMetas \union {None}, PutVBMeta(v)
      PROVE  TypeOK'
  BY <1>0, <1>1, <1>3 DEF TypeOK, PutVBMeta, files
<1>4. ASSUME NEW w, work' = w, w \in Work, OfOneImage(w),
             NEW v \in Edits, edited' = edited \union {v},
             UNCHANGED <<image, vbmeta, result, vbsigned, file, cfg, k, unpacked, before, faults>>
      PROVE  TypeOK'
  BY <1>0, <1>1, <1>4, Shape DEF TypeOK
<1>5. ASSUME NEW p \in Parts \ {"ramdisk"}, NEW v \in Edits, EditPart(p, v)
      PROVE  TypeOK'
  <2> DEFINE w == [work EXCEPT !.part[p] = Whole(v)]
  <2>1. v \in Versions /\ Whole(v) \in Content
    BY Shape, WholeContent
  <2>2. w \in Work
    BY <1>0, <2>1, WorkChanges DEF TypeOK
  <2>3. w.cfg = work.cfg /\ w.json = work.json
    BY <1>0 DEF TypeOK, Work
  <2>4. OfOneImage(w)
    BY <1>0, <2>3, SameJson DEF TypeOK
  <2> QED
    BY <1>4, <1>5, <2>2, <2>4 DEF EditPart
<1>6. ASSUME NEW v \in Edits, EditRoot(v)
      PROVE  TypeOK'
  <2> DEFINE w == [work EXCEPT !.root = Whole(v)]
  <2>1. v \in Versions /\ Whole(v) \in Content
    BY Shape, WholeContent
  <2>2. w \in Work
    BY <1>0, <2>1, WorkChanges, Shape DEF TypeOK
  <2>3. w.cfg = work.cfg /\ w.json = work.json
    BY <1>0 DEF TypeOK, Work
  <2>4. OfOneImage(w)
    BY <1>0, <2>3, SameJson DEF TypeOK
  <2> QED
    BY <1>4, <1>6, <2>2, <2>4 DEF EditRoot
<1>7. ASSUME NEW v \in Edits, UsePrebuilt(v)
      PROVE  TypeOK'
  <2> DEFINE w == [work EXCEPT !.part["ramdisk"] = Whole(v), !.root = None]
  <2>1. v \in Versions /\ Whole(v) \in Content
    BY Shape, WholeContent
  <2>2. w \in Work
    BY <1>0, <2>1, WorkChanges, Shape DEF TypeOK
  <2>3. w.cfg = work.cfg /\ w.json = work.json
    BY <1>0 DEF TypeOK, Work
  <2>4. OfOneImage(w)
    BY <1>0, <2>3, SameJson DEF TypeOK
  <2> QED
    BY <1>4, <1>7, <2>2, <2>4 DEF UsePrebuilt
<1> QED
  BY <1>2, <1>3, <1>5, <1>6, <1>7

LEMMA StartTypes ==
  ASSUME PackInv, NEW f \in Files, Unpack(f) \/ Pack(f)
  PROVE  TypeOK'
<1>0. TypeOK
  BY DEF PackInv
<1>1. /\ moves' \in 0 .. MaxMoves /\ file' = f /\ before' = work /\ cfg' = None /\ k' = 1
      /\ UNCHANGED <<image, vbmeta, work, result, vbsigned, faults>>
      /\ 1 \in 1 .. Len(PartOrder) + 1
  <2>1. MaxMoves \in Nat /\ moves \in 0 .. MaxMoves /\ Len(PartOrder) \in Nat
    BY <1>0, Shape DEF TypeOK
  <2>2. /\ moves < MaxMoves /\ moves' = moves + 1
        /\ file' = f /\ before' = work /\ cfg' = None /\ k' = 1
        /\ UNCHANGED <<image, vbmeta, work, result, vbsigned, faults>>
    BY DEF Unpack, Pack, Start, files
  <2> QED
    BY <2>1, <2>2
<1>2. unpacked' \in [image : BootImages \union {None}, returned : BOOLEAN] /\ edited' \subseteq Versions
  <2>1. f # VBMetaName => f \in Names
    BY DEF Files
  <2>2. CASE UNCHANGED <<unpacked, edited>>
    BY <1>0, <2>2 DEF TypeOK
  <2>3. CASE f \in Names /\ unpacked' = [image |-> image[f], returned |-> FALSE] /\ edited' = {}
    BY <1>0, <2>3 DEF TypeOK
  <2>4. CASE Pack(f)
    BY <2>2, <2>4 DEF Pack
  <2>5. CASE Unpack(f)
    BY <2>1, <2>2, <2>3, <2>5 DEF Unpack
  <2> QED
    BY <2>4, <2>5
<1> QED
  BY <1>0, <1>1, <1>2 DEF TypeOK

\* What Returns() leaves alone, and that it ends the command.
LEMMA ReturnsType ==
  ASSUME TypeOK, NEW outcome, Returns(outcome)
  PROVE  /\ unpacked' \in [image : BootImages \union {None}, returned : BOOLEAN]
         /\ unpacked'.image = unpacked.image /\ pc' = outcome
         /\ unpacked'.returned <=> unpacked.returned \/ (outcome = "unpacked" /\ file \in Names)
<1>0. unpacked \in [image : BootImages \union {None}, returned : BOOLEAN]
  BY DEF TypeOK
<1>1. unpacked' = [unpacked EXCEPT !.returned = unpacked.returned \/ (outcome = "unpacked" /\ file \in Names)]
  BY DEF Returns
<1> DEFINE b == unpacked.returned \/ (outcome = "unpacked" /\ file \in Names)
<1>2. b \in BOOLEAN
  BY <1>0
<1>3. unpacked' = [unpacked EXCEPT !.returned = b]
  BY <1>1
<1> HIDE DEF b
<1>4. /\ unpacked' \in [image : BootImages \union {None}, returned : BOOLEAN]
      /\ unpacked'.image = unpacked.image /\ unpacked'.returned = b
  BY <1>0, <1>2, <1>3
<1> QED
  BY <1>4 DEF b, Returns

LEMMA UnpackTypes ==
  ASSUME PackInv,
         CleanUp \/ ParseHeader \/ ParseFooter \/ ExtractPart \/ NoKernel \/ UnpackVBMeta
  PROVE  TypeOK'
<1>0. TypeOK /\ Stages
  BY DEF PackInv
<1>1. UNCHANGED <<image, vbmeta, file, before, moves, faults, result, vbsigned, cfg, edited>>
  BY DEF CleanUp, ParseHeader, ParseFooter, ExtractPart, NoKernel, UnpackVBMeta, Step
<1>2. ASSUME work' \in Work, OfOneImage(work'), k' \in 1 .. Len(PartOrder) + 1,
             unpacked' \in [image : BootImages \union {None}, returned : BOOLEAN]
      PROVE  TypeOK'
  BY <1>0, <1>1, <1>2 DEF TypeOK
<1>3. /\ k \in 1 .. Len(PartOrder) + 1
      /\ unpacked \in [image : BootImages \union {None}, returned : BOOLEAN]
      /\ work \in Work /\ OfOneImage(work)
  BY <1>0 DEF TypeOK
<1>4. CASE CleanUp
  BY <1>2, <1>3, <1>4, Nothing DEF CleanUp
<1>5. CASE ParseHeader
  <2>1. k' = k /\ work = EmptyWork /\ file \in Names /\ image[file] \in BootImages
    BY <1>0, <1>5 DEF ParseHeader, Step, Stages, UnpackStages
  <2>2. unpacked' \in [image : BootImages \union {None}, returned : BOOLEAN]
    BY <1>0, <1>3, <1>5, ReturnsType DEF ParseHeader
  <2>3. work' \in Work /\ OfOneImage(work')
    <3> DEFINE c == [output |-> file, avb |-> image[file].avb, has |-> DOMAIN image[file].parts]
               w == [work EXCEPT !.cfg = c]
    <3>1. c \in Config
      BY <2>1, Shape DEF Config
    <3>2. work' = work \/ work' = w
      BY <1>5 DEF ParseHeader
    <3>3. w \in Work
      <4> HIDE DEF c
      <4> QED
        BY <1>3, <3>1, WorkChanges
    <3>4. w.json = [f \in Files |-> None]
      <4> HIDE DEF c
      <4> QED
        BY <2>1, Nothing DEF EmptyWork
    <3>5. OfOneImage(w)
      <4> HIDE DEF w
      <4> QED
        BY <3>4, Shape DEF OfOneImage
    <3> HIDE DEF w
    <3> QED
      BY <1>3, <3>2, <3>3, <3>5
  <2> QED
    BY <1>2, <1>3, <2>1, <2>2, <2>3
<1>6. CASE ParseFooter
  <2>1. /\ k' = k /\ unpacked' = unpacked /\ file \in Names /\ image[file] \in BootImages
        /\ work = [EmptyWork EXCEPT !.cfg = work.cfg] /\ work.cfg \in Config
        /\ work.cfg.output = file /\ work.cfg.avb = image[file].avb
    BY <1>0, <1>6 DEF ParseFooter, Step, Stages, UnpackStages
  <2>2. CASE ~image[file].avb
    BY <1>2, <1>3, <1>6, <2>1, <2>2 DEF ParseFooter
  <2>3. CASE image[file].avb
    <3> DEFINE a == AuxBlob(image[file].descs)
               w == [work EXCEPT !.json[file] = a]
    <3>1. work' = w
      BY <1>6, <2>3 DEF ParseFooter
    <3>2. a \in Aux
      BY <2>1 DEF Aux
    <3>3. w \in Work
      <4> HIDE DEF a
      <4> QED
        BY <1>3, <2>1, <3>2, Shape, WorkChanges
    <3>4. /\ w.cfg = work.cfg /\ w.json[file] = a
          /\ \A f \in Names : f # file => w.json[f] = work.json[f]
      <4> HIDE DEF a
      <4> QED
        BY <1>3, <2>1, Shape DEF Work
    <3>5. \A f \in Names : work.json[f] = None
      BY <2>1, Nothing, Shape DEF EmptyWork
    <3>6. OfOneImage(w)
      <4> HIDE DEF w
      <4> QED
        BY <2>1, <2>3, <3>4, <3>5 DEF OfOneImage
    <3> HIDE DEF w
    <3> QED
      BY <1>2, <1>3, <2>1, <3>1, <3>3, <3>6
  <2> QED
    BY <2>2, <2>3
<1>7. CASE ExtractPart
  <2>1. /\ k' = k + 1 /\ unpacked' = unpacked /\ file \in Names /\ image[file] \in BootImages
        /\ k <= Len(PartOrder)
    BY <1>0, <1>7 DEF ExtractPart, Step, Stages, UnpackStages
  <2>2. k' \in 1 .. Len(PartOrder) + 1
    BY <1>3, <2>1, Shape
  <2> DEFINE p == PartOrder[k]
             f == Whole(image[file].parts[p])
             r == IF p = "ramdisk" THEN f ELSE work.root
             w == [work EXCEPT !.part[p] = f, !.root = r]
  <2>3. CASE p \notin DOMAIN image[file].parts
    <3>1. work' = work
      BY <1>7, <2>3 DEF ExtractPart
    <3> QED
      BY <1>2, <1>3, <2>1, <2>2, <3>1
  <2>4. CASE p \in DOMAIN image[file].parts
    <3>1. p \in Parts /\ image[file].parts[p] \in Versions
      BY <2>1, <2>4, Shape
    <3>2. f \in Content /\ r \in Content \union {None}
      BY <1>3, <3>1, WholeContent DEF Work
    <3>3. work' = w
      BY <1>7, <2>4 DEF ExtractPart
    <3>4. w \in Work /\ w.cfg = work.cfg /\ w.json = work.json
      <4> HIDE DEF f, r
      <4>1. w \in Work
        BY <1>3, <3>1, <3>2, WorkChanges
      <4> QED
        BY <1>3, <4>1 DEF Work
    <3>5. OfOneImage(w)
      <4> HIDE DEF w
      <4> QED
        BY <1>3, <3>4, SameJson
    <3> HIDE DEF w
    <3> QED
      BY <1>2, <1>3, <2>1, <2>2, <3>3, <3>4, <3>5
  <2> QED
    BY <2>3, <2>4
<1>8. CASE NoKernel
  BY <1>2, <1>3, <1>8 DEF NoKernel
<1>9. CASE UnpackVBMeta
  <2>1. k' = k
    BY <1>9 DEF UnpackVBMeta
  <2>2. unpacked' \in [image : BootImages \union {None}, returned : BOOLEAN]
    BY <1>0, <1>9, ReturnsType DEF UnpackVBMeta
  <2>3. work' \in Work /\ OfOneImage(work')
    <3> DEFINE a == AuxBlob(vbmeta.descs)
               w == [work EXCEPT !.json[VBMetaName] = a]
    <3>1. CASE work' = work
      BY <1>3, <3>1
    <3>2. CASE vbmeta # None /\ work' = w
      <4>1. vbmeta \in VBMetas
        BY <1>0, <3>2 DEF TypeOK
      <4>2. a \in Aux
        BY <4>1 DEF Aux
      <4> HIDE DEF a
      <4>3. w \in Work
        BY <1>3, <4>2, Shape, WorkChanges
      <4>4. w.cfg = work.cfg /\ \A f \in Names : w.json[f] = work.json[f]
        BY <1>3, Shape DEF Work
      <4> HIDE DEF w
      <4>5. OfOneImage(w)
        BY <1>3, <4>4, SameJson
      <4> QED
        BY <3>2, <4>3, <4>5
    <3>3. work' = work \/ (vbmeta # None /\ work' = w)
      BY <1>9 DEF UnpackVBMeta
    <3> QED
      BY <3>1, <3>2, <3>3
  <2> QED
    BY <1>2, <1>3, <2>1, <2>2, <2>3
<1> QED
  BY <1>4, <1>5, <1>6, <1>7, <1>8, <1>9
-----------------------------------------------------------------------------
(* What each stage of pack() does to the results.                          *)

LEMMA StageFacts ==
  ASSUME PackInv, pc \in PackStages \/ Packed
  PROVE  /\ cfg \in Config /\ cfg.output \in Names /\ cfg.has \in SUBSET Parts /\ cfg.avb \in BOOLEAN
         /\ cfg = before.cfg /\ work \in Work /\ before \in Work /\ Made \in Results
         /\ file \in Names /\ pc # "idle"
         /\ work.json = before.json /\ work.root = before.root
         /\ \A p \in Parts : MadeFrom(work, p) = Wanted(p)
         /\ \A p \in Parts : before.part[p] \in Content \union {None}
         /\ before.root \in Content \union {None}
<1>0. TypeOK /\ Stages /\ Sources
  BY DEF PackInv
<1>1. cfg # None /\ cfg = before.cfg /\ cfg \in Config
  BY <1>0 DEF TypeOK, Stages
<1>2. cfg.output \in Names /\ cfg.has \in SUBSET Parts /\ cfg.avb \in BOOLEAN
  BY <1>1 DEF Config
<1>3. file \in Names /\ pc # "idle"
  BY <1>0 DEF Stages, Packed, PackStages, LateStages
<1>4. work \in Work /\ before \in Work /\ Made \in Results
  BY <1>0, <1>2 DEF TypeOK, Made
<1>5. /\ work.json = before.json /\ work.root = before.root
      /\ \A p \in Parts : MadeFrom(work, p) = Wanted(p)
  BY <1>0, <1>1, <1>3 DEF Sources
<1> QED
  BY <1>1, <1>2, <1>3, <1>4, <1>5 DEF Work

LEMMA PartsReady ==
  ASSUME PackInv, pc \in {"clear header"} \union LateStages \/ Packed
  PROVE  \A p \in cfg.has : work.part[p] = Wanted(p)
<1>0. Pipeline /\ (pc \in PackStages \/ Packed)
  BY DEF PackInv, PackStages
<1>1. /\ cfg.has \in SUBSET Parts
      /\ \A p \in Parts : MadeFrom(work, p) = Wanted(p)
  BY <1>0, StageFacts
<1>2. "ramdisk" \in cfg.has => work.part["ramdisk"] = Wanted("ramdisk")
  BY <1>0 DEF Pipeline
<1>3. \A p \in Parts : p # "ramdisk" => MadeFrom(work, p) = work.part[p]
  BY DEF MadeFrom
<1> QED
  BY <1>1, <1>2, <1>3

\* The image to be made is of the right type once all of its parts are there.
LEMMA NewClearType ==
  ASSUME PackInv, pc \in {"clear header"} \union LateStages \/ Packed,
         \A p \in cfg.has : Wanted(p) # None
  PROVE  /\ NewClear \in Clear /\ [header |-> NewHeader, body |-> <<>>] \in Clear
         /\ NewHeader = [p \in cfg.has |-> work.part[p]] /\ NewBody = DataOf(cfg, work)
         /\ \A p \in cfg.has : work.part[p] \in Content
<1>0. pc \in PackStages \/ Packed
  BY DEF PackStages
<1>1. /\ cfg \in Config /\ cfg.has \in SUBSET Parts /\ work \in Work
      /\ \A p \in Parts : before.part[p] \in Content \union {None}
      /\ before.root \in Content \union {None}
  BY <1>0, StageFacts
<1>2. \A p \in cfg.has : work.part[p] = Wanted(p)
  BY PartsReady
<1>3. \A p \in cfg.has : Wanted(p) \in Content
  BY <1>1 DEF Wanted, MadeFrom
<1>4. \A p \in cfg.has : work.part[p] \in Content
  BY <1>2, <1>3
<1>5. NewHeader = [p \in cfg.has |-> work.part[p]]
  BY <1>2 DEF NewHeader
<1>6. NewHeader \in [cfg.has -> Content]
  BY <1>3 DEF NewHeader
<1>7. /\ DataOf(cfg, work) \in Seq(Content) /\ \A i \in DOMAIN InOrder(cfg) : InOrder(cfg)[i] \in cfg.has
  BY <1>1, <1>4, OrderedData
<1>8. NewBody = DataOf(cfg, work)
  BY <1>2, <1>7 DEF NewBody, DataOf
<1>9. NewHeader \in UNION {[S -> Content] : S \in SUBSET Parts}
  BY <1>1, <1>6
<1>10. NewClear \in Clear /\ [header |-> NewHeader, body |-> <<>>] \in Clear
  <2> DEFINE U == UNION {[S -> Content] : S \in SUBSET Parts}
             Q == Seq(Content)
  <2>1. Clear = [header : U, body : Q]
    BY DEF Clear
  <2>2. NewHeader \in U
    BY <1>9
  <2>3. NewBody \in Q
    <3>1. DataOf(cfg, work) \in Q
      BY <1>7
    <3> HIDE DEF Q
    <3> QED
      BY <1>8, <3>1
  <2>4. <<>> \in Q
    BY EmptySeq
  <2> HIDE DEF U, Q
  <2> QED
    BY <2>1, <2>2, <2>3, <2>4 DEF NewClear
<1> QED
  BY <1>4, <1>5, <1>8, <1>10

LEMMA ResultWritten ==
  ASSUME TypeOK, cfg \in Config, cfg' = cfg, NEW x, result' = [result EXCEPT ![cfg.output] = x]
  PROVE  Made' = x /\ (x \in Results => result' \in [Names -> Results])
<1>1. cfg.output \in Names /\ result \in [Names -> Results]
  BY DEF TypeOK, Config
<1> QED
  BY <1>1 DEF Made

LEMMA FieldsWritten ==
  ASSUME NEW r \in Results
  PROVE  /\ \A c \in Clear \union {None} :
              /\ [r EXCEPT !.clear = c] \in Results /\ [r EXCEPT !.google = c] \in Results
              /\ [r EXCEPT !.signed2 = c] \in Results
         /\ \A s \in SignedImage \union {None} : [r EXCEPT !.signed = s] \in Results
BY DEF Results

LEMMA DeleteMakes ==
  ASSUME PackInv, DeleteResults
  PROVE  Made' = NoResults /\ result' \in [Names -> Results]
<1>1. TypeOK /\ pc \in PackStages
  BY DEF PackInv, DeleteResults, Step, PackStages
<1>2. cfg \in Config /\ cfg' = cfg /\ result' = [result EXCEPT ![cfg.output] = NoResults]
  BY <1>1, StageFacts DEF DeleteResults
<1> QED
  BY <1>1, <1>2, ResultWritten, Nothing

LEMMA HeaderMakes ==
  ASSUME PackInv, WriteHeader
  PROVE  /\ pc = "clear header" /\ result' \in [Names -> Results]
         /\ CanEncode(cfg, work) =>
              /\ pc' = "clear data"
              /\ Made' = [Made EXCEPT !.clear = [header |-> NewHeader, body |-> <<>>]]
              /\ "kernel" \in cfg.has /\ \A p \in cfg.has : Wanted(p) # None
         /\ ~CanEncode(cfg, work) => pc' = "failed"
<1>1. TypeOK /\ pc = "clear header" /\ pc \in PackStages
  BY DEF PackInv, WriteHeader, Step, PackStages
<1>2. cfg \in Config /\ cfg' = cfg /\ Made \in Results
  BY <1>1, StageFacts DEF WriteHeader
<1>3. CASE ~CanEncode(cfg, work)
  BY <1>1, <1>3 DEF WriteHeader, TypeOK
<1>4. CASE CanEncode(cfg, work)
  <2>1. "kernel" \in cfg.has /\ \A p \in cfg.has : Wanted(p) # None
    BY <1>1, <1>4, PartsReady DEF CanEncode
  <2>2. /\ [header |-> NewHeader, body |-> <<>>] \in Clear
        /\ NewHeader = [p \in cfg.has |-> work.part[p]]
    BY <1>1, <2>1, NewClearType
  <2> DEFINE c == [header |-> NewHeader, body |-> <<>>]
             x == [Made EXCEPT !.clear = c]
  <2>3. result' = [result EXCEPT ![cfg.output] = x]
    BY <1>4, <2>2 DEF WriteHeader, Made
  <2>4. x \in Results
    <3> HIDE DEF c
    <3> QED
      BY <1>2, <2>2, FieldsWritten DEF c
  <2>5. Made' = x /\ result' \in [Names -> Results]
    <3> HIDE DEF x
    <3> QED
      BY <1>1, <1>2, <2>3, <2>4, ResultWritten
  <2> QED
    BY <1>1, <1>4, <2>1, <2>5 DEF WriteHeader
<1> QED
  BY <1>3, <1>4

LEMMA DataMakes ==
  ASSUME PackInv, AppendData
  PROVE  /\ Made' = [Made EXCEPT !.clear = NewClear] /\ NewClear \in Clear
         /\ result' \in [Names -> Results]
<1>1. TypeOK /\ Pipeline /\ pc = "clear data" /\ pc \in PackStages /\ pc \in LateStages
  BY DEF PackInv, AppendData, Step, PackStages, LateStages
<1>2. cfg \in Config /\ cfg' = cfg /\ Made \in Results /\ work \in Work
  BY <1>1, StageFacts DEF AppendData
<1>3. /\ Made.clear = [header |-> NewHeader, body |-> <<>>]
      /\ \A p \in cfg.has : Wanted(p) # None
  BY <1>1 DEF Pipeline
<1>4. NewClear \in Clear /\ NewBody = DataOf(cfg, work) /\ \A p \in cfg.has : work.part[p] \in Content
  BY <1>1, <1>3, NewClearType
<1>5. <<>> \o DataOf(cfg, work) = DataOf(cfg, work)
  BY <1>2, <1>4, OrderedData
<1> DEFINE c == [Made.clear EXCEPT !.body = @ \o DataOf(cfg, work)]
           x == [Made EXCEPT !.clear = c]
<1>6. result' = [result EXCEPT ![cfg.output] = x]
  BY DEF AppendData, Made
<1>7. c = NewClear
  <2>1. c = [header |-> NewHeader, body |-> <<>> \o DataOf(cfg, work)]
    BY <1>3
  <2> QED
    BY <1>4, <1>5, <2>1 DEF NewClear
<1> HIDE DEF c
<1>8. x \in Results
  BY <1>2, <1>4, <1>7, FieldsWritten
<1> HIDE DEF x
<1>9. Made' = x /\ result' \in [Names -> Results]
  BY <1>1, <1>2, <1>6, <1>8, ResultWritten
<1> QED
  BY <1>4, <1>7, <1>9 DEF x

LEMMA MkbootimgMakes ==
  ASSUME PackInv, RunMkbootimg
  PROVE  Made' = [Made EXCEPT !.google = Made.clear] /\ result' \in [Names -> Results]
<1>1. TypeOK /\ pc \in PackStages
  BY DEF PackInv, RunMkbootimg, Step, PackStages, LateStages
<1>2. cfg \in Config /\ cfg' = cfg /\ Made \in Results
  BY <1>1, StageFacts DEF RunMkbootimg
<1>3. Made.clear \in Clear \union {None}
  BY <1>2 DEF Results
<1> DEFINE x == [Made EXCEPT !.google = Made.clear]
<1>4. result' = [result EXCEPT ![cfg.output] = x] /\ x \in Results
  BY <1>2, <1>3, FieldsWritten DEF RunMkbootimg, Made
<1> HIDE DEF x
<1>5. Made' = x /\ result' \in [Names -> Results]
  BY <1>1, <1>2, <1>4, ResultWritten
<1> QED
  BY <1>5 DEF x

LEMMA SignMakes ==
  ASSUME PackInv, Sign
  PROVE  /\ pc = "sign" /\ result' \in [Names -> Results]
         /\ \/ /\ ~cfg.avb /\ pc' = "merge"
               /\ Made' = [Made EXCEPT !.signed = Signed(NewClear, <<>>)]
            \/ /\ cfg.avb /\ HasHash(before.json[cfg.output]) /\ pc' = "footer"
               /\ Made' = [Made EXCEPT !.signed = Unsigned(NewClear)]
            \/ /\ cfg.avb /\ ~HasHash(before.json[cfg.output]) /\ pc' = "failed"
<1>1. TypeOK /\ Pipeline /\ pc = "sign" /\ pc \in PackStages /\ pc \in LateStages \ {"clear data"}
  BY DEF PackInv, Sign, Step, PackStages, LateStages
<1>2. cfg \in Config /\ cfg' = cfg /\ Made \in Results /\ work.json = before.json
  BY <1>1, StageFacts DEF Sign
<1>3. Made.signed = None /\ Made.clear = NewClear /\ \A p \in cfg.has : Wanted(p) # None
  BY <1>1 DEF Pipeline
<1>4. NewClear \in Clear
  BY <1>1, <1>3, NewClearType
<1>5. Signed(NewClear, <<>>) \in SignedImage /\ Unsigned(NewClear) \in SignedImage
  BY <1>4 DEF Signed, Unsigned, SignedImage
<1>6. ASSUME NEW s \in SignedImage, result' = [result EXCEPT ![cfg.output].signed = s]
      PROVE  Made' = [Made EXCEPT !.signed = s] /\ result' \in [Names -> Results]
  <2> DEFINE x == [Made EXCEPT !.signed = s]
  <2>1. result' = [result EXCEPT ![cfg.output] = x] /\ x \in Results
    BY <1>2, <1>6, FieldsWritten DEF Made
  <2> HIDE DEF x
  <2>2. Made' = x /\ result' \in [Names -> Results]
    BY <1>1, <1>2, <2>1, ResultWritten
  <2> QED
    BY <2>2 DEF x
<1>7. CASE ~cfg.avb
  BY <1>1, <1>3, <1>5, <1>6, <1>7 DEF Sign, Made
<1>8. CASE cfg.avb /\ HasHash(before.json[cfg.output])
  BY <1>1, <1>2, <1>3, <1>5, <1>6, <1>8 DEF Sign, Made
<1>9. CASE cfg.avb /\ ~HasHash(before.json[cfg.output])
  <2>1. pc' = "failed" /\ result' = result
    BY <1>2, <1>9 DEF Sign
  <2> QED
    BY <1>1, <1>9, <2>1 DEF TypeOK
<1> QED
  BY <1>7, <1>8, <1>9

LEMMA SignedType ==
  ASSUME PackInv, pc \in LateStages \/ Packed, cfg.avb, HasHash(before.json[cfg.output])
  PROVE  /\ Signed(NewClear, NewDescs) \in SignedImage
         /\ \E i \in BootImages : before.json[cfg.output] = AuxBlob(i.descs)
<1>1. /\ pc \in PackStages \/ Packed
      /\ pc \in {"clear header"} \union LateStages \/ Packed
      /\ TypeOK /\ Pipeline
  BY DEF PackInv, PackStages
<1>2. cfg.output \in Names /\ OfOneImage(before) /\ \A p \in cfg.has : Wanted(p) # None
  BY <1>1, StageFacts DEF TypeOK, Pipeline
<1>3. NewClear \in Clear
  BY <1>1, <1>2, NewClearType
<1>4. PICK i \in BootImages : before.json[cfg.output] = AuxBlob(i.descs)
  BY <1>2 DEF OfOneImage, HasHash
<1>5. NewDescs \in Seq(Descriptor(Clear \union {None}))
  <2> DEFINE aux == AuxBlob(i.descs)
             c == NewClear
  <2>1. HasHash(aux)
    BY <1>4
  <2>2. PackVbMeta(UpdateHash(aux, Partition(aux), c)) \in Seq(Descriptor(Clear \union {None}))
    <3> HIDE DEF c
    <3> QED
      BY <1>3, <2>1, FooterDescs DEF c
  <2> QED
    BY <1>4, <2>2 DEF NewDescs
<1>6. Signed(NewClear, NewDescs) \in SignedImage
  <2> DEFINE Q == Seq(Descriptor(Clear \union {None}))
  <2>1. SignedImage = [image : Clear, signed : BOOLEAN, descs : Q] /\ NewDescs \in Q
    BY <1>5 DEF SignedImage
  <2> HIDE DEF Q
  <2> QED
    BY <1>3, <2>1 DEF Signed
<1> QED
  BY <1>4, <1>6

LEMMA FooterMakes ==
  ASSUME PackInv, AddHashFooter
  PROVE  /\ pc = "footer" /\ cfg.avb /\ HasHash(before.json[cfg.output])
         /\ result' \in [Names -> Results]
         /\ Made' = [Made EXCEPT !.signed = Signed(NewClear, NewDescs)]
<1>1. TypeOK /\ Pipeline /\ pc = "footer" /\ pc \in PackStages /\ pc \in LateStages \ {"clear data"}
  BY DEF PackInv, AddHashFooter, Step, PackStages, LateStages
<1>2. /\ cfg \in Config /\ cfg' = cfg /\ Made \in Results /\ work.json = before.json
      /\ cfg.output \in Names /\ OfOneImage(before)
  BY <1>1, StageFacts DEF AddHashFooter, TypeOK
<1>3. /\ cfg.avb /\ HasHash(before.json[cfg.output]) /\ Made.signed = Unsigned(NewClear)
      /\ \A p \in cfg.has : Wanted(p) # None
  BY <1>1 DEF Pipeline
<1>4. Signed(NewClear, NewDescs) \in SignedImage
  BY <1>1, <1>3, SignedType
<1> DEFINE x == [Made EXCEPT !.signed = Signed(NewClear, NewDescs)]
<1>5. result' = [result EXCEPT ![cfg.output] = x]
  <2>1. result[cfg.output].signed.image = NewClear
    BY <1>3 DEF Made, Unsigned
  <2>2. result' = [result EXCEPT ![cfg.output].signed = Signed(NewClear, NewDescs)]
    BY <1>2, <2>1 DEF AddHashFooter, NewDescs
  <2> QED
    BY <2>2 DEF Made
<1>6. x \in Results
  BY <1>2, <1>4, FieldsWritten
<1> HIDE DEF x
<1>7. Made' = x /\ result' \in [Names -> Results]
  BY <1>1, <1>2, <1>5, <1>6, ResultWritten
<1> QED
  BY <1>1, <1>3, <1>7 DEF x

LEMMA AvbtoolMakes ==
  ASSUME PackInv, RunAvbtool
  PROVE  /\ pc = "avbtool" /\ pc' = "merge" /\ result' \in [Names -> Results]
         /\ Made' = [Made EXCEPT !.signed2 = Made.clear]
<1>1. TypeOK /\ Pipeline /\ pc = "avbtool" /\ pc \in PackStages
  BY DEF PackInv, RunAvbtool, Step, PackStages, LateStages
<1>2. cfg \in Config /\ cfg' = cfg /\ Made \in Results
  BY <1>1, StageFacts DEF RunAvbtool
<1>3. Made.signed2 = None /\ Made.clear \in Clear \union {None}
  BY <1>1, <1>2 DEF Pipeline, Results
<1> DEFINE x == [Made EXCEPT !.signed2 = Made.clear]
<1>4. result' = [result EXCEPT ![cfg.output] = x] /\ pc' = "merge"
  BY <1>3 DEF RunAvbtool, Made
<1>5. x \in Results
  BY <1>2, <1>3, FieldsWritten
<1> HIDE DEF x
<1>6. Made' = x /\ result' \in [Names -> Results]
  BY <1>1, <1>2, <1>4, <1>5, ResultWritten
<1> QED
  BY <1>1, <1>4, <1>6 DEF x

\* packRootfs() makes the ramdisk, or leaves the one that is there; without
\* either it fails, and there was nothing to make one from.
LEMMA RamdiskMakes ==
  ASSUME PackInv, PackRamdisk
  PROVE  /\ pc = "ramdisk" /\ work' \in Work /\ pc' \in {"failed", "clear header"}
         /\ work'.cfg = work.cfg /\ work'.json = work.json /\ work'.root = work.root
         /\ \A p \in Parts : MadeFrom(work', p) = MadeFrom(work, p)
         /\ pc' = "clear header" /\ "ramdisk" \in cfg.has =>
              work'.part["ramdisk"] = Wanted("ramdisk") /\ work'.part["ramdisk"] # None
         /\ pc' = "failed" => "ramdisk" \in cfg.has /\ Wanted("ramdisk") = None
<1>1. TypeOK /\ pc = "ramdisk" /\ pc \in PackStages
  BY DEF PackInv, PackRamdisk, Step, PackStages
<1>2. /\ work \in Work /\ work.root \in Content \union {None} /\ "ramdisk" \in Parts
      /\ MadeFrom(work, "ramdisk") = Wanted("ramdisk")
  BY <1>1, StageFacts, Shape DEF Work
<1>3. CASE "ramdisk" \notin cfg.has \/ UsesPrebuilt(work)
  <2>1. work' = work /\ pc' = "clear header"
    BY <1>3 DEF PackRamdisk
  <2>2. UsesPrebuilt(work) => work.part["ramdisk"] # None /\ MadeFrom(work, "ramdisk") = work.part["ramdisk"]
    BY DEF UsesPrebuilt, MadeFrom
  <2> QED
    BY <1>1, <1>2, <1>3, <2>1, <2>2
<1>4. CASE "ramdisk" \in cfg.has /\ ~UsesPrebuilt(work)
  <2> DEFINE w == [work EXCEPT !.part["ramdisk"] = work.root]
  <2>1. work' = w /\ pc' = IF work.root = None THEN "failed" ELSE "clear header"
    BY <1>4 DEF PackRamdisk
  <2>2. w \in Work
    BY <1>2, WorkChanges
  <2>3. /\ w.cfg = work.cfg /\ w.json = work.json /\ w.root = work.root
        /\ w.part["ramdisk"] = work.root /\ \A p \in Parts : p # "ramdisk" => w.part[p] = work.part[p]
    BY <1>2 DEF Work
  <2>4. work.root = None => MadeFrom(work, "ramdisk") = None
    BY <1>4 DEF MadeFrom, UsesPrebuilt
  <2>5. work.root # None => MadeFrom(work, "ramdisk") = work.root
    BY DEF MadeFrom
  <2> HIDE DEF w
  <2>6. \A p \in Parts : MadeFrom(w, p) = MadeFrom(work, p)
    <3> TAKE p \in Parts
    <3>1. CASE p # "ramdisk"
      BY <2>3, <3>1 DEF MadeFrom
    <3>2. CASE p = "ramdisk" /\ work.root # None
      BY <2>3, <3>2 DEF MadeFrom
    <3>3. CASE p = "ramdisk" /\ work.root = None
      BY <2>3, <2>4, <3>3 DEF MadeFrom
    <3> QED
      BY <3>1, <3>2, <3>3
  <2> QED
    BY <1>1, <1>2, <1>4, <2>1, <2>2, <2>3, <2>4, <2>5, <2>6
<1> QED
  BY <1>3, <1>4

LEMMA PackTypes ==
  ASSUME PackInv,
         \/ PackVBMeta \/ LoadConfig \/ DeleteResults \/ PackRamdisk \/ WriteHeader \/ AppendData
         \/ RunMkbootimg \/ Sign \/ AddHashFooter \/ RunAvbtool \/ MergeVBMeta
  PROVE  TypeOK'
<1>0. TypeOK /\ Stages
  BY DEF PackInv
<1>1. UNCHANGED <<image, vbmeta, file, before, moves, faults, k, unpacked, edited>>
  BY DEF PackVBMeta, LoadConfig, DeleteResults, PackRamdisk, WriteHeader, AppendData,
         RunMkbootimg, Sign, AddHashFooter, RunAvbtool, MergeVBMeta, Step
<1>2. ASSUME work' \in Work, OfOneImage(work'), result' \in [Names -> Results],
             cfg' \in Config \union {None}
      PROVE  TypeOK'
  BY <1>0, <1>1, <1>2 DEF TypeOK
<1>3. /\ work \in Work /\ OfOneImage(work) /\ result \in [Names -> Results]
      /\ cfg \in Config \union {None} /\ work.cfg \in Config \union {None}
  BY <1>0 DEF TypeOK, Work
<1>4. CASE PackVBMeta \/ LoadConfig \/ MergeVBMeta
  BY <1>2, <1>3, <1>4 DEF PackVBMeta, LoadConfig, MergeVBMeta, files
<1>5. CASE PackRamdisk
  <2>1. work' \in Work /\ work'.cfg = work.cfg /\ work'.json = work.json
    BY <1>5, RamdiskMakes
  <2>2. OfOneImage(work')
    BY <1>3, <2>1, SameJson
  <2> QED
    BY <1>2, <1>3, <1>5, <2>1, <2>2 DEF PackRamdisk
<1>6. CASE DeleteResults \/ WriteHeader \/ AppendData \/ RunMkbootimg \/ Sign \/ AddHashFooter \/ RunAvbtool
  <2>1. result' \in [Names -> Results]
    BY <1>6, DeleteMakes, HeaderMakes, DataMakes, MkbootimgMakes, SignMakes, FooterMakes, AvbtoolMakes
  <2>2. work' = work /\ cfg' = cfg
    BY <1>6 DEF DeleteResults, WriteHeader, AppendData, RunMkbootimg, Sign, AddHashFooter, RunAvbtool
  <2> QED
    BY <1>2, <1>3, <2>1, <2>2
<1> QED
  BY <1>4, <1>5, <1>6
-----------------------------------------------------------------------------
(* What a step that is killed leaves behind.                               *)

\* What is left of build/unzip_boot when its deletion is killed.
LEMMA LeftoversType ==
  ASSUME NEW w \in Work, OfOneImage(w), NEW u \in Leftovers(w)
  PROVE  u \in Work /\ OfOneImage(u)
<1>1. /\ w.cfg \in Config \union {None} /\ w.root \in Content \union {None}
      /\ \A f \in Files : w.json[f] \in Aux \union {None}
      /\ \A p \in Parts : w.part[p] \in Content \union {None}
  BY DEF Work
<1>2. /\ u.cfg \in {w.cfg, None} /\ \A f \in Files : u.json[f] \in {w.json[f], None}
      /\ \A p \in Parts : u.part[p] \in {w.part[p], None}
      /\ u.root \in {w.root, None} \union (IF w.root = None THEN {} ELSE {Torn(w.root)})
  BY DEF Leftovers
<1>3. /\ u = [cfg |-> u.cfg, json |-> u.json, part |-> u.part, root |-> u.root]
      /\ u.json = [f \in Files |-> u.json[f]] /\ u.part = [p \in Parts |-> u.part[p]]
  BY DEF Leftovers
<1>4. u.root \in Content \union {None}
  BY <1>1, <1>2, WholeContent
<1>5. \A f \in Files : u.json[f] \in Aux \union {None}
  BY <1>1, <1>2
<1>6. \A p \in Parts : u.part[p] \in Content \union {None}
  BY <1>1, <1>2
<1>7. u.cfg \in Config \union {None}
  BY <1>1, <1>2
<1>8. u.json \in [Files -> Aux \union {None}] /\ u.part \in [Parts -> Content \union {None}]
  BY <1>3, <1>5, <1>6
<1>9. u \in Work
  BY <1>3, <1>4, <1>7, <1>8 DEF Work
<1>10. OfOneImage(u)
  BY <1>2, Shape DEF OfOneImage
<1> QED
  BY <1>9, <1>10

\* What a killed step leaves in build/unzip_boot.  What pack() makes an image
\* from is still there, and unpack of vbmeta.img alone has not touched it.
LEMMA HalfWorkFacts ==
  ASSUME PackInv, ~Idle, NEW w \in HalfWork
  PROVE  /\ w \in Work /\ OfOneImage(w)
         /\ pc \notin UnpackStages \/ file \notin Names =>
              w.root = work.root /\ \A p \in Parts : MadeFrom(w, p) = MadeFrom(work, p)
         /\ pc \notin UnpackStages => w.json = work.json
<1>0. TypeOK /\ Stages
  BY DEF PackInv
<1>1. work \in Work /\ OfOneImage(work)
  BY <1>0 DEF TypeOK
<1>2. CASE w = work
  BY <1>1, <1>2
<1>3. CASE pc = "clean up" /\ w \in Leftovers(work)
  <2>1. pc \in UnpackStages /\ file \in Names
    BY <1>0, <1>3 DEF Stages, UnpackStages
  <2> QED
    BY <1>1, <1>3, <2>1, LeftoversType
<1>4. CASE pc = "vbmeta json" /\ w = [work EXCEPT !.json[VBMetaName] = None]
  <2>1. w \in Work
    BY <1>1, <1>4, Shape, WorkChanges
  <2>2. /\ w.cfg = work.cfg /\ w.part = work.part /\ w.root = work.root
        /\ \A f \in Names : w.json[f] = work.json[f]
    BY <1>1, <1>4, Shape DEF Work
  <2>3. OfOneImage(w)
    BY <1>1, <2>2, SameJson
  <2>4. \A p \in Parts : MadeFrom(w, p) = MadeFrom(work, p)
    BY <2>2 DEF MadeFrom
  <2>5. pc \in UnpackStages
    BY <1>4 DEF UnpackStages
  <2> QED
    BY <2>1, <2>2, <2>3, <2>4, <2>5
<1>5. CASE pc = "extract" /\ k <= Len(PartOrder) /\ PartOrder[k] \in DOMAIN image[file].parts /\ w # work
  <2> DEFINE p == PartOrder[k]
             f == Whole(image[file].parts[p])
  <2>1. /\ pc \in UnpackStages /\ file \in Names /\ image[file] \in BootImages
        /\ p \in Parts /\ image[file].parts[p] \in Versions
    BY <1>0, <1>5, Shape DEF Stages, UnpackStages
  <2>2. f \in Content /\ Torn(f) \in Content
    BY <2>1, WholeContent
  <2>3. \/ w = [work EXCEPT !.part[p] = Torn(f)]
        \/ w = [work EXCEPT !.part[p] = f]
        \/ w = [work EXCEPT !.part[p] = f, !.root = Torn(f)]
    BY <1>5 DEF HalfWork
  <2> HIDE DEF f, p
  <2>4. w \in Work
    <3>1. CASE w = [work EXCEPT !.part[p] = Torn(f)]
      BY <1>1, <2>1, <2>2, <3>1, WorkChanges
    <3>2. CASE w = [work EXCEPT !.part[p] = f]
      BY <1>1, <2>1, <2>2, <3>2, WorkChanges
    <3>3. CASE w = [work EXCEPT !.part[p] = f, !.root = Torn(f)]
      BY <1>1, <2>1, <2>2, <3>3, WorkChanges
    <3> QED
      BY <2>3, <3>1, <3>2, <3>3
  <2>5. w.cfg = work.cfg /\ w.json = work.json
    BY <1>1, <2>3 DEF Work
  <2>6. OfOneImage(w)
    BY <1>1, <2>5, SameJson
  <2> QED
    BY <2>1, <2>4, <2>6
<1>6. CASE /\ pc = "ramdisk" /\ ~UsesPrebuilt(work)
           /\ \/ w = [work EXCEPT !.part["ramdisk"] = None]
              \/ work.root # None /\ w = [work EXCEPT !.part["ramdisk"] = Torn(work.root)]
  <2>1. "ramdisk" \in Parts /\ work.root \in Content \union {None}
    BY <1>1, Shape DEF Work
  <2>2. work.root # None => Torn(work.root) \in Content
    BY <2>1, WholeContent
  <2>3. w \in Work
    <3>1. CASE w = [work EXCEPT !.part["ramdisk"] = None]
      BY <1>1, <2>1, <3>1, WorkChanges
    <3>2. CASE work.root # None /\ w = [work EXCEPT !.part["ramdisk"] = Torn(work.root)]
      BY <1>1, <2>1, <2>2, <3>2, WorkChanges
    <3> QED
      BY <1>6, <3>1, <3>2
  <2>4. /\ w.cfg = work.cfg /\ w.json = work.json /\ w.root = work.root
        /\ \A p \in Parts : p # "ramdisk" => w.part[p] = work.part[p]
    BY <1>1, <1>6 DEF Work
  <2>5. work.root = None => w.part["ramdisk"] = None /\ work.part["ramdisk"] = None
    BY <1>1, <1>6, <2>1 DEF Work, UsesPrebuilt
  <2>6. OfOneImage(w)
    BY <1>1, <2>4, SameJson
  <2>7. \A p \in Parts : MadeFrom(w, p) = MadeFrom(work, p)
    <3> TAKE p \in Parts
    <3>1. CASE p # "ramdisk"
      BY <2>4, <3>1 DEF MadeFrom
    <3>2. CASE p = "ramdisk" /\ work.root # None
      BY <2>4, <3>2 DEF MadeFrom
    <3>3. CASE p = "ramdisk" /\ work.root = None
      BY <2>4, <2>5, <3>3 DEF MadeFrom
    <3> QED
      BY <3>1, <3>2, <3>3
  <2> QED
    BY <2>3, <2>4, <2>6, <2>7
<1>7. CASE pc = "clean up"
  BY <1>3, <1>7 DEF HalfWork
<1>8. CASE pc = "vbmeta json"
  BY <1>2, <1>4, <1>8 DEF HalfWork
<1>9. CASE pc = "extract" /\ k <= Len(PartOrder)
  BY <1>2, <1>5, <1>9 DEF HalfWork
<1>10. CASE pc = "ramdisk" /\ "ramdisk" \in cfg.has /\ ~UsesPrebuilt(work)
  BY <1>6, <1>10 DEF HalfWork
<1>11. CASE /\ pc # "clean up" /\ pc # "vbmeta json" /\ ~(pc = "extract" /\ k <= Len(PartOrder))
            /\ ~(pc = "ramdisk" /\ "ramdisk" \in cfg.has /\ ~UsesPrebuilt(work))
  BY <1>2, <1>11 DEF HalfWork
<1> QED
  BY <1>7, <1>8, <1>9, <1>10, <1>11

LEMMA HalfResultsType ==
  ASSUME PackInv, ~Idle, cfg # None, NEW r \in HalfResults(Made)
  PROVE  r \in Results
<1>1. TypeOK /\ Pipeline /\ pc \in PackStages
  BY DEF PackInv, Stages, Idle, PackStages, UnpackStages
<1>2. cfg \in Config /\ Made \in Results /\ work \in Work
  BY <1>1, StageFacts
<1>3. /\ Made.clear \in Clear \union {None} /\ Made.signed2 \in Clear \union {None}
      /\ \A c \in Clear \union {None} :
           /\ [Made EXCEPT !.clear = c] \in Results /\ [Made EXCEPT !.google = c] \in Results
           /\ [Made EXCEPT !.signed2 = c] \in Results
      /\ \A s \in SignedImage \union {None} : [Made EXCEPT !.signed = s] \in Results
  BY <1>2, FieldsWritten DEF Results
<1>4. CASE r = Made
  BY <1>2, <1>4
<1>5. CASE pc = "delete"
  <2>1. CASE r = [Made EXCEPT !.google = None]
    BY <1>3, <2>1
  <2>2. CASE r = [Made EXCEPT !.google = None, !.clear = None]
    BY <1>2, <2>2 DEF Results
  <2>3. CASE r = [NoResults EXCEPT !.signed2 = Made.signed2]
    BY <1>3, <2>3, Nothing, FieldsWritten
  <2> QED
    BY <1>4, <1>5, <2>1, <2>2, <2>3 DEF HalfResults
<1>6. CASE pc = "clear header"
  <2> DEFINE e == [header |-> [p \in {} |-> None], body |-> <<>>]
  <2>1. e \in Clear
    <3>1. [p \in {} |-> None] \in [{} -> Content]
      OBVIOUS
    <3>2. [p \in {} |-> None] \in UNION {[S -> Content] : S \in SUBSET Parts}
      BY <3>1
    <3>3. <<>> \in Seq(Content)
      BY EmptySeq
    <3> QED
      BY <3>2, <3>3 DEF Clear
  <2>2. r = Made \/ r = [Made EXCEPT !.clear = e]
    BY <1>6 DEF HalfResults
  <2> HIDE DEF e
  <2> QED
    BY <1>3, <1>4, <2>1, <2>2
<1>7. CASE pc = "clear data"
  <2>1. /\ \A p \in cfg.has : Wanted(p) # None
        /\ Made.clear = [header |-> NewHeader, body |-> <<>>]
    BY <1>1, <1>7 DEF Pipeline, LateStages
  <2>2. /\ [header |-> NewHeader, body |-> <<>>] \in Clear
        /\ \A p \in cfg.has : work.part[p] \in Content
    BY <1>7, <2>1, NewClearType DEF LateStages
  <2>3. PICK n \in 0 .. Len(InOrder(cfg)) : r = [Made EXCEPT !.clear.body = SubSeq(DataOf(cfg, work), 1, n)]
    BY <1>7 DEF HalfResults
  <2> DEFINE b == SubSeq(DataOf(cfg, work), 1, n)
             c == [Made.clear EXCEPT !.body = b]
             Q == Seq(Content)
             U == UNION {[S -> Content] : S \in SUBSET Parts}
  <2>4. b \in Q
    BY <1>2, <2>2, OrderedData
  <2>5. Clear = [header : U, body : Q]
    BY DEF Clear
  <2>6. r = [Made EXCEPT !.clear = c]
    BY <2>3
  <2>7. c \in Clear
    <3> HIDE DEF b, Q, U
    <3> QED
      BY <2>1, <2>2, <2>4, <2>5
  <2> HIDE DEF c
  <2> QED
    BY <1>3, <2>6, <2>7
<1>8. CASE pc = "mkbootimg"
  BY <1>3, <1>4, <1>8 DEF HalfResults
<1>9. CASE pc = "sign"
  <2>1. (\A p \in cfg.has : Wanted(p) # None) /\ Made.clear = NewClear
    BY <1>1, <1>9 DEF Pipeline, LateStages
  <2>2. NewClear \in Clear
    BY <1>9, <2>1, NewClearType DEF LateStages
  <2>3. Unsigned(Made.clear) \in SignedImage
    BY <2>1, <2>2 DEF Unsigned, SignedImage
  <2> QED
    BY <1>3, <1>4, <1>9, <2>3 DEF HalfResults
<1>10. CASE pc = "avbtool"
  BY <1>3, <1>4, <1>10 DEF HalfResults
<1>11. CASE pc \notin {"delete", "clear header", "clear data", "mkbootimg", "sign", "avbtool"}
  BY <1>4, <1>11 DEF HalfResults
<1> QED
  BY <1>5, <1>6, <1>7, <1>8, <1>9, <1>10, <1>11

LEMMA FailTypes ==
  ASSUME PackInv, Fail
  PROVE  TypeOK'
<1>0. TypeOK /\ ~Idle
  BY DEF PackInv, Fail
<1>1. faults' \in 0 .. MaxFaults
  <2>1. MaxFaults \in Nat /\ faults \in 0 .. MaxFaults /\ faults < MaxFaults /\ faults' = faults + 1
    BY <1>0, Shape DEF TypeOK, Fail
  <2> QED
    BY <2>1
<1>2. work' \in Work /\ OfOneImage(work')
  BY <1>0, HalfWorkFacts DEF Fail
<1>3. result' \in [Names -> Results]
  <2>1. CASE cfg = None
    BY <1>0, <2>1 DEF Fail, TypeOK
  <2>2. CASE cfg # None
    <3>1. PICK r \in HalfResults(Made) : result' = [result EXCEPT ![cfg.output] = r]
      BY <2>2 DEF Fail, Made
    <3>2. r \in Results
      BY <1>0, <2>2, HalfResultsType
    <3> QED
      BY <1>0, <3>1, <3>2 DEF TypeOK
  <2> QED
    BY <2>1, <2>2
<1> QED
  BY <1>0, <1>1, <1>2, <1>3 DEF Fail, TypeOK

LEMMA NextTypes ==
  ASSUME PackInv, [Next]_vars
  PROVE  TypeOK'
<1>1. CASE vars' = vars
  BY <1>1 DEF PackInv, TypeOK, vars, files
<1> QED
  BY <1>1, UserTypes, StartTypes, UnpackTypes, PackTypes, FailTypes DEF Next
-----------------------------------------------------------------------------
(* The stages.                                                             *)

\* Between two commands nothing is at a stage.
LEMMA UserMoves ==
  ASSUME \/ \E n \in Names, i \in BootImages \union {None} : PutImage(n, i)
         \/ \E v \in VBMetas \union {None} : PutVBMeta(v)
         \/ \E p \in Parts \ {"ramdisk"}, v \in Edits : EditPart(p, v)
         \/ \E v \in Edits : EditRoot(v) \/ UsePrebuilt(v)
  PROVE  pc' = "idle" /\ UNCHANGED <<cfg, before, file, unpacked, result>>
<1>1. CASE \E n \in Names, i \in BootImages \union {None} : PutImage(n, i)
  BY <1>1 DEF PutImage, Move, files
<1>2. CASE \E v \in VBMetas \union {None} : PutVBMeta(v)
  BY <1>2 DEF PutVBMeta, Move, files
<1>3. CASE \E p \in Parts \ {"ramdisk"}, v \in Edits : EditPart(p, v)
  BY <1>3 DEF EditPart, Move
<1>4. CASE \E v \in Edits : EditRoot(v) \/ UsePrebuilt(v)
  BY <1>4 DEF EditRoot, UsePrebuilt, Move
<1> QED
  BY <1>1, <1>2, <1>3, <1>4

LEMMA StartStages ==
  ASSUME PackInv, NEW f \in Files, Unpack(f) \/ Pack(f)
  PROVE  /\ Stages' /\ cfg' = None /\ before' = work /\ work' = work
         /\ pc' \in {"vbmeta json", "clean up", "pack vbmeta", "load"} /\ file' = f
<1>0. TypeOK
  BY DEF PackInv
<1>1. f \in Names \/ f = VBMetaName
  BY DEF Files
<1>2. Chosen(f) /\ cfg' = None /\ before' = work /\ file' = f /\ image' = image /\ work' = work
  BY DEF Unpack, Pack, Start, files
<1>3. f \in Names => image[f] \in BootImages /\ f # VBMetaName
  BY <1>0, <1>2, Shape DEF Chosen, TypeOK
<1>4. CASE Unpack(f) /\ f = VBMetaName
  <2>1. pc' = "vbmeta json"
    BY <1>4 DEF Unpack, Start
  <2> QED
    BY <1>2, <1>4, <2>1, Shape DEF Stages, UnpackStages, PackStages, LateStages, Packed
<1>5. CASE Unpack(f) /\ f # VBMetaName
  <2>1. pc' = "clean up" /\ unpacked' = [image |-> image[f], returned |-> FALSE]
    BY <1>5 DEF Unpack, Start
  <2> QED
    BY <1>1, <1>2, <1>3, <1>5, <2>1, Shape DEF Stages, UnpackStages, PackStages, LateStages, Packed
<1>6. CASE Pack(f)
  <2>1. pc' = IF f = VBMetaName THEN "pack vbmeta" ELSE "load"
    BY <1>6 DEF Pack, Start
  <2> QED
    BY <1>1, <1>2, <1>3, <1>6, <2>1, Shape DEF Stages, UnpackStages, PackStages, LateStages, Packed
<1> QED
  BY <1>4, <1>5, <1>6

LEMMA UnpackStep ==
  ASSUME PackInv,
         CleanUp \/ ParseHeader \/ ParseFooter \/ ExtractPart \/ NoKernel \/ UnpackVBMeta
  PROVE  Stages' /\ pc \in UnpackStages /\ cfg' = None /\ pc' \in UnpackStages \union {"unpacked", "failed"}
<1>0. TypeOK /\ Stages
  BY DEF PackInv
<1>1. UNCHANGED <<image, vbmeta, file, before, cfg>> /\ pc \in UnpackStages
  BY DEF CleanUp, ParseHeader, ParseFooter, ExtractPart, NoKernel, UnpackVBMeta, Step, UnpackStages
<1>2. cfg = None
  BY <1>0, <1>1 DEF Stages
<1>3. ASSUME pc' \in {"unpacked", "failed"}
      PROVE  Stages'
  BY <1>1, <1>2, <1>3 DEF Stages, UnpackStages, PackStages, LateStages, Packed
<1>4. CASE CleanUp
  BY <1>0, <1>1, <1>2, <1>4 DEF CleanUp, Step, Stages, UnpackStages, PackStages, LateStages, Packed
<1>5. CASE ParseHeader
  <2>1. work = EmptyWork /\ file \in Names /\ image[file] \in BootImages /\ pc = "header"
        /\ unpacked = [image |-> image[file], returned |-> FALSE]
    BY <1>0, <1>5 DEF ParseHeader, Step, Stages, UnpackStages
  <2>2. CASE image[file].valid
    <3> DEFINE c == [output |-> file, avb |-> image[file].avb, has |-> DOMAIN image[file].parts]
               w == [work EXCEPT !.cfg = c]
    <3>1. c \in Config /\ c.output = file /\ c.avb = image[file].avb
      BY <2>1, Shape DEF Config
    <3>2. work' = w /\ pc' = "avb json" /\ unpacked' = unpacked
      BY <1>5, <2>2 DEF ParseHeader
    <3> HIDE DEF c
    <3>3. w.cfg = c /\ w = [EmptyWork EXCEPT !.cfg = w.cfg]
      BY <2>1 DEF EmptyWork
    <3> HIDE DEF w
    <3> QED
      BY <1>1, <1>2, <2>1, <3>1, <3>2, <3>3 DEF Stages, UnpackStages, PackStages, LateStages, Packed
  <2>3. CASE ~image[file].valid
    <3>1. pc' = "unpacked"
      BY <1>5, <2>3 DEF ParseHeader, Returns
    <3> QED
      BY <1>1, <1>2, <1>3, <3>1
  <2> QED
    BY <1>1, <1>2, <1>5, <2>2, <2>3 DEF ParseHeader, Returns, UnpackStages
<1>6. CASE ParseFooter
  BY <1>0, <1>1, <1>2, <1>6 DEF ParseFooter, Step, Stages, UnpackStages, PackStages, LateStages, Packed
<1>7. CASE ExtractPart
  <2>1. pc = "extract" /\ pc' \in {"extract", "vbmeta json"} /\ unpacked' = unpacked
    BY <1>7 DEF ExtractPart, Step
  <2>2. file \in Names /\ image[file] \in BootImages /\ unpacked = [image |-> image[file], returned |-> FALSE]
    BY <1>0, <2>1 DEF Stages, UnpackStages
  <2> QED
    BY <1>1, <1>2, <2>1, <2>2, Shape DEF Stages, UnpackStages, PackStages, LateStages, Packed
<1>8. CASE NoKernel
  BY <1>1, <1>2, <1>3, <1>8 DEF NoKernel
<1>9. CASE UnpackVBMeta
  <2>1. pc' \in {"unpacked", "failed"}
    BY <1>9 DEF UnpackVBMeta, Returns
  <2> QED
    BY <1>1, <1>2, <1>3, <2>1
<1> QED
  BY <1>1, <1>2, <1>4, <1>5, <1>6, <1>7, <1>8, <1>9
     DEF CleanUp, ParseHeader, ParseFooter, ExtractPart, NoKernel, UnpackVBMeta, Returns, UnpackStages

LEMMA PackStep ==
  ASSUME PackInv,
         \/ PackVBMeta \/ LoadConfig \/ DeleteResults \/ PackRamdisk \/ WriteHeader \/ AppendData
         \/ RunMkbootimg \/ Sign \/ AddHashFooter \/ RunAvbtool \/ MergeVBMeta
  PROVE  Stages' /\ pc \in PackStages \union {"load", "pack vbmeta"}
<1>0. TypeOK /\ Stages
  BY DEF PackInv
<1>1. UNCHANGED <<image, vbmeta, file, before, unpacked>>
  BY DEF PackVBMeta, LoadConfig, DeleteResults, PackRamdisk, WriteHeader, AppendData,
         RunMkbootimg, Sign, AddHashFooter, RunAvbtool, MergeVBMeta, Step
<1>2. CASE PackVBMeta
  <2>1. pc = "pack vbmeta" /\ pc' \in {"failed", "packed"} /\ cfg' = cfg
    BY <1>2 DEF PackVBMeta, Step
  <2>2. file = VBMetaName /\ cfg = None
    BY <1>0, <2>1 DEF Stages
  <2> QED
    BY <1>1, <2>1, <2>2, Shape DEF Stages, UnpackStages, PackStages, LateStages, Packed
<1>3. CASE LoadConfig
  <2>1. pc = "load" /\ cfg' = work.cfg /\ pc' = IF work.cfg = None THEN "failed" ELSE "delete"
    BY <1>3 DEF LoadConfig, Step
  <2>2. file \in Names /\ work = before
    BY <2>1 DEF PackInv, Stages, Sources
  <2> QED
    BY <1>1, <2>1, <2>2, Shape DEF Stages, UnpackStages, PackStages, LateStages, Packed
<1>4. CASE DeleteResults \/ PackRamdisk \/ WriteHeader \/ AppendData \/ RunMkbootimg \/ Sign
           \/ AddHashFooter \/ RunAvbtool \/ MergeVBMeta
  <2>1. pc \in PackStages /\ cfg' = cfg /\ pc' \in PackStages \union {"failed", "packed"}
    BY <1>4 DEF DeleteResults, PackRamdisk, WriteHeader, AppendData, RunMkbootimg, Sign,
                AddHashFooter, RunAvbtool, MergeVBMeta, Step, PackStages, LateStages
  <2>2. file \in Names /\ cfg # None /\ cfg = before.cfg
    BY <1>0, <2>1 DEF Stages
  <2> QED
    BY <1>1, <2>1, <2>2, Shape DEF Stages, UnpackStages, PackStages, LateStages, Packed
<1> QED
  BY <1>2, <1>3, <1>4 DEF PackVBMeta, LoadConfig, DeleteResults, PackRamdisk, WriteHeader, AppendData,
         RunMkbootimg, Sign, AddHashFooter, RunAvbtool, MergeVBMeta, Step, PackStages, LateStages

LEMMA NextStages ==
  ASSUME PackInv, [Next]_vars
  PROVE  Stages'
<1>0. Stages
  BY DEF PackInv
<1>1. CASE vars' = vars
  BY <1>0, <1>1 DEF Stages, vars, files, Packed
<1>2. CASE Fail
  <2>1. pc' = "killed" /\ UNCHANGED <<cfg, before>>
    BY <1>2 DEF Fail
  <2> QED
    BY <1>0, <2>1 DEF Stages, UnpackStages, PackStages, LateStages, Packed
<1>3. ASSUME pc' = "idle", UNCHANGED <<cfg, before>>
      PROVE  Stages'
  BY <1>0, <1>3 DEF Stages, UnpackStages, PackStages, LateStages, Packed
<1> QED
  BY <1>1, <1>2, <1>3, UserMoves, StartStages, UnpackStep, PackStep DEF Next
-----------------------------------------------------------------------------
(* What the image is made from.                                            *)

LEMMA NextSources ==
  ASSUME PackInv, [Next]_vars
  PROVE  Sources'
<1>0. TypeOK /\ Stages /\ Sources
  BY DEF PackInv
<1>1. CASE vars' = vars
  BY <1>0, <1>1 DEF Sources, vars, files, Wanted, MadeFrom
<1>2. ASSUME pc' = "idle"
      PROVE  Sources'
  BY <1>2 DEF Sources
<1>3. ASSUME NEW f \in Files, Unpack(f) \/ Pack(f)
      PROVE  Sources'
  BY <1>3, StartStages DEF Sources
<1>4. CASE CleanUp \/ ParseHeader \/ ParseFooter \/ ExtractPart \/ NoKernel \/ UnpackVBMeta
  BY <1>4, UnpackStep DEF Sources, UnpackStages
<1>5. CASE PackVBMeta
  <2>1. cfg' = None /\ pc' \in {"failed", "packed"}
    BY <1>0, <1>5 DEF PackVBMeta, Step, Stages
  <2> QED
    BY <2>1 DEF Sources
<1>6. CASE LoadConfig
  <2>1. work = before /\ work' = work /\ before' = before
    BY <1>0, <1>6 DEF LoadConfig, Step, Sources, files
  <2>2. pc' \in {"failed", "delete"}
    BY <1>6 DEF LoadConfig
  <2> QED
    BY <2>1, <2>2 DEF Sources, Wanted
<1>7. CASE PackRamdisk
  <2>1. /\ work'.json = work.json /\ work'.root = work.root /\ pc' \in {"failed", "clear header"}
        /\ \A p \in Parts : MadeFrom(work', p) = MadeFrom(work, p)
    BY <1>7, RamdiskMakes
  <2>2. /\ work.json = before.json /\ work.root = before.root
        /\ \A p \in Parts : MadeFrom(work, p) = Wanted(p)
    BY <1>7, StageFacts DEF PackRamdisk, Step, PackStages
  <2>3. before' = before
    BY <1>7 DEF PackRamdisk, Step
  <2> QED
    BY <2>1, <2>2, <2>3 DEF Sources, Wanted
<1>8. CASE \/ DeleteResults \/ WriteHeader \/ AppendData \/ RunMkbootimg \/ Sign
           \/ AddHashFooter \/ RunAvbtool \/ MergeVBMeta
  <2>1. work' = work /\ before' = before /\ pc \in PackStages /\ pc' \notin {"load", "delete"}
    BY <1>8 DEF DeleteResults, WriteHeader, AppendData, RunMkbootimg, Sign,
                AddHashFooter, RunAvbtool, MergeVBMeta, Step, PackStages, LateStages
  <2>2. /\ work.json = before.json /\ work.root = before.root
        /\ \A p \in Parts : MadeFrom(work, p) = Wanted(p)
    BY <2>1, StageFacts
  <2> QED
    BY <2>1, <2>2 DEF Sources, Wanted
<1>9. CASE Fail
  <2>1. pc' = "killed" /\ cfg' = cfg /\ before' = before /\ work' \in HalfWork /\ ~Idle
    BY <1>9 DEF Fail
  <2>2. CASE cfg = None
    BY <2>1, <2>2 DEF Sources
  <2>3. CASE cfg # None
    <3>1. pc \in PackStages /\ pc \notin UnpackStages
      BY <1>0, <2>1, <2>3 DEF Stages, Idle, UnpackStages, PackStages, LateStages
    <3>2. /\ work'.root = work.root /\ \A p \in Parts : MadeFrom(work', p) = MadeFrom(work, p)
          /\ work'.json = work.json
      BY <2>1, <3>1, HalfWorkFacts
    <3>3. /\ work.json = before.json /\ work.root = before.root
          /\ \A p \in Parts : MadeFrom(work, p) = Wanted(p)
      BY <3>1, StageFacts
    <3> QED
      BY <2>1, <3>2, <3>3 DEF Sources, Wanted
  <2> QED
    BY <2>2, <2>3
<1> QED
  BY <1>1, <1>2, <1>3, <1>4, <1>5, <1>6, <1>7, <1>8, <1>9, UserMoves DEF Next
-----------------------------------------------------------------------------
(* The results.                                                            *)

LEMMA SameImage ==
  ASSUME UNCHANGED <<cfg, before>>
  PROVE  /\ NewHeader' = NewHeader /\ NewBody' = NewBody /\ NewClear' = NewClear /\ NewDescs' = NewDescs
         /\ \A p : Wanted(p)' = Wanted(p)
<1>1. \A p : Wanted(p)' = Wanted(p)
  BY DEF Wanted
<1>2. NewHeader' = NewHeader /\ NewBody' = NewBody
  BY <1>1 DEF NewHeader, NewBody
<1>3. NewClear' = NewClear
  BY <1>2 DEF NewClear
<1>4. NewDescs' = NewDescs
  BY <1>3 DEF NewDescs
<1> QED
  BY <1>1, <1>2, <1>3, <1>4

\* No stage at which there are results to speak of.
LEMMA NoResultsYet ==
  ASSUME pc' \notin PackStages \ {"delete"}, ~Packed'
  PROVE  Pipeline'
BY DEF Pipeline, PackStages, LateStages

LEMMA PipelineStep ==
  ASSUME PackInv, Stages',
         \/ DeleteResults \/ PackRamdisk \/ WriteHeader \/ AppendData
         \/ RunMkbootimg \/ Sign \/ AddHashFooter \/ RunAvbtool \/ MergeVBMeta
  PROVE  Pipeline'
<1>0. Pipeline /\ UNCHANGED <<cfg, before, file>> /\ pc \in PackStages
  BY DEF PackInv, DeleteResults, PackRamdisk, WriteHeader, AppendData, RunMkbootimg, Sign,
         AddHashFooter, RunAvbtool, MergeVBMeta, Step, PackStages, LateStages
<1>1. /\ NewHeader' = NewHeader /\ NewClear' = NewClear /\ NewDescs' = NewDescs
      /\ \A p : Wanted(p)' = Wanted(p)
  BY <1>0, SameImage
<1>2. Made \in Results
  BY <1>0, StageFacts
<1>3. ASSUME pc' = "failed" PROVE Pipeline'
  BY <1>3, NoResultsYet DEF PackStages, LateStages, Packed
<1>4. CASE DeleteResults
  <2>1. pc' = "ramdisk" /\ Made'.signed = None /\ Made'.signed2 = None
    BY <1>4, DeleteMakes, Nothing DEF DeleteResults
  <2> QED
    BY <2>1 DEF Pipeline, LateStages, Packed
<1>5. CASE PackRamdisk
  <2>1. /\ pc = "ramdisk" /\ pc' \in {"failed", "clear header"}
        /\ pc' = "clear header" /\ "ramdisk" \in cfg.has =>
             work'.part["ramdisk"] = Wanted("ramdisk") /\ work'.part["ramdisk"] # None
    BY <1>5, RamdiskMakes
  <2>2. Made' = Made
    BY <1>0, <1>5 DEF PackRamdisk, Made
  <2>3. Made.signed = None /\ Made.signed2 = None
    BY <1>0, <2>1 DEF Pipeline
  <2> QED
    BY <1>0, <1>1, <1>3, <2>1, <2>2, <2>3 DEF Pipeline, LateStages, Packed
<1>6. CASE WriteHeader
  <2>1. pc = "clear header" /\ work' = work
    BY <1>6 DEF WriteHeader, Step
  <2>2. CASE ~CanEncode(cfg, work)
    BY <1>3, <1>6, <2>2, HeaderMakes
  <2>3. CASE CanEncode(cfg, work)
    <3>1. /\ pc' = "clear data" /\ Made' = [Made EXCEPT !.clear = [header |-> NewHeader, body |-> <<>>]]
          /\ "kernel" \in cfg.has /\ \A p \in cfg.has : Wanted(p) # None
      BY <1>6, <2>3, HeaderMakes
    <3>2. /\ Made'.clear = [header |-> NewHeader, body |-> <<>>]
          /\ Made'.signed = Made.signed /\ Made'.signed2 = Made.signed2
      BY <1>2, <3>1 DEF Results
    <3> QED
      BY <1>0, <1>1, <2>1, <3>1, <3>2 DEF Pipeline, LateStages, Packed
  <2> QED
    BY <2>2, <2>3
<1>7. CASE AppendData
  <2>1. pc = "clear data" /\ pc' = "mkbootimg" /\ work' = work /\ Made' = [Made EXCEPT !.clear = NewClear]
    BY <1>7, DataMakes DEF AppendData, Step
  <2>2. Made'.clear = NewClear /\ Made'.signed = Made.signed /\ Made'.signed2 = Made.signed2
    BY <1>2, <2>1 DEF Results
  <2> QED
    BY <1>0, <1>1, <2>1, <2>2 DEF Pipeline, LateStages, Packed
<1>8. CASE RunMkbootimg
  <2>1. pc = "mkbootimg" /\ pc' = "sign" /\ work' = work /\ Made' = [Made EXCEPT !.google = Made.clear]
    BY <1>8, MkbootimgMakes DEF RunMkbootimg, Step
  <2>2. Made'.clear = Made.clear /\ Made'.signed = Made.signed /\ Made'.signed2 = Made.signed2
    BY <1>2, <2>1 DEF Results
  <2> QED
    BY <1>0, <1>1, <2>1, <2>2 DEF Pipeline, LateStages, Packed
<1>9. CASE Sign
  <2>1. pc = "sign" /\ work' = work
    BY <1>9 DEF Sign, Step
  <2>2. CASE ~cfg.avb /\ pc' = "merge" /\ Made' = [Made EXCEPT !.signed = Signed(NewClear, <<>>)]
    <3>1. Made'.clear = Made.clear /\ Made'.signed = Signed(NewClear, <<>>) /\ Made'.signed2 = Made.signed2
      BY <1>2, <2>2 DEF Results
    <3> QED
      BY <1>0, <1>1, <2>1, <2>2, <3>1 DEF Pipeline, LateStages, Packed
  <2>3. CASE /\ cfg.avb /\ HasHash(before.json[cfg.output]) /\ pc' = "footer"
             /\ Made' = [Made EXCEPT !.signed = Unsigned(NewClear)]
    <3>1. Made'.clear = Made.clear /\ Made'.signed = Unsigned(NewClear) /\ Made'.signed2 = Made.signed2
      BY <1>2, <2>3 DEF Results
    <3> QED
      BY <1>0, <1>1, <2>1, <2>3, <3>1 DEF Pipeline, LateStages, Packed
  <2> QED
    BY <1>3, <1>9, <2>2, <2>3, SignMakes
<1>10. CASE AddHashFooter
  <2>1. /\ pc = "footer" /\ pc' = "avbtool" /\ work' = work /\ cfg.avb /\ HasHash(before.json[cfg.output])
        /\ Made' = [Made EXCEPT !.signed = Signed(NewClear, NewDescs)]
    BY <1>10, FooterMakes DEF AddHashFooter
  <2>2. Made'.clear = Made.clear /\ Made'.signed = Signed(NewClear, NewDescs) /\ Made'.signed2 = Made.signed2
    BY <1>2, <2>1 DEF Results
  <2> QED
    BY <1>0, <1>1, <2>1, <2>2 DEF Pipeline, LateStages, Packed
<1>11. CASE RunAvbtool
  <2>1. pc = "avbtool" /\ pc' = "merge" /\ work' = work /\ Made' = [Made EXCEPT !.signed2 = Made.clear]
    BY <1>11, AvbtoolMakes DEF RunAvbtool
  <2>2. Made'.clear = Made.clear /\ Made'.signed = Made.signed
    BY <1>2, <2>1 DEF Results
  <2> QED
    BY <1>0, <1>1, <2>1, <2>2 DEF Pipeline, LateStages, Packed
<1>12. CASE MergeVBMeta
  <2>1. pc = "merge" /\ pc' \in {"packed", "failed"} /\ work' = work /\ Made' = Made
    BY <1>0, <1>12 DEF MergeVBMeta, Step, Made
  <2> QED
    BY <1>0, <1>1, <1>3, <2>1 DEF Pipeline, LateStages, Packed
<1> QED
  BY <1>4, <1>5, <1>6, <1>7, <1>8, <1>9, <1>10, <1>11, <1>12

LEMMA NextPipeline ==
  ASSUME PackInv, [Next]_vars
  PROVE  Pipeline'
<1>0. Stages /\ Pipeline
  BY DEF PackInv
<1>1. CASE vars' = vars
  <2>1. UNCHANGED <<pc, file, cfg, before, work, result>>
    BY <1>1 DEF vars, files
  <2>2. /\ NewHeader' = NewHeader /\ NewClear' = NewClear /\ NewDescs' = NewDescs
        /\ \A p : Wanted(p)' = Wanted(p)
    BY <2>1, SameImage
  <2> QED
    BY <1>0, <2>1, <2>2 DEF Pipeline, Packed, Made
<1>2. ASSUME pc' \in {"idle", "killed", "failed", "unpacked", "delete", "load", "pack vbmeta"} \union UnpackStages
      PROVE  Pipeline'
  <2>1. pc' \notin PackStages \ {"delete"} /\ ~Packed'
    BY <1>2 DEF UnpackStages, PackStages, LateStages, Packed
  <2> QED
    BY <2>1, NoResultsYet
<1>3. ASSUME NEW f \in Files, Unpack(f) \/ Pack(f)
      PROVE  Pipeline'
  BY <1>2, <1>3, StartStages DEF UnpackStages
<1>4. CASE CleanUp \/ ParseHeader \/ ParseFooter \/ ExtractPart \/ NoKernel \/ UnpackVBMeta
  BY <1>2, <1>4, UnpackStep
<1>5. CASE PackVBMeta
  <2>1. file' = VBMetaName /\ pc' \in {"failed", "packed"}
    BY <1>0, <1>5 DEF PackVBMeta, Step, Stages
  <2>2. pc' \notin PackStages \ {"delete"} /\ ~Packed'
    BY <2>1, Shape DEF PackStages, LateStages, Packed
  <2> QED
    BY <2>2, NoResultsYet
<1>6. CASE LoadConfig \/ Fail
  BY <1>2, <1>6 DEF LoadConfig, Fail
<1>7. CASE \/ DeleteResults \/ PackRamdisk \/ WriteHeader \/ AppendData
           \/ RunMkbootimg \/ Sign \/ AddHashFooter \/ RunAvbtool \/ MergeVBMeta
  BY <1>7, NextStages, PipelineStep
<1> QED
  BY <1>1, <1>2, <1>3, <1>4, <1>5, <1>6, <1>7, UserMoves DEF Next
-----------------------------------------------------------------------------
(* What happens to vbmeta.img, and why a pack fails.                       *)

\* Once it is signed, the image is there, under the name of the command if
\* that has an *.avb.json file.
LEMMA SignedThere ==
  ASSUME PackInv, pc = "merge" \/ Packed
  PROVE  /\ Made.signed # None /\ Made.signed.signed
         /\ HasHash(before.json[file]) => cfg.output = file /\ cfg.avb
<1>1. TypeOK /\ Pipeline /\ (pc \in PackStages \/ Packed) /\ (pc \in LateStages \/ Packed)
      /\ (pc \in {"clear header"} \union LateStages \/ Packed)
  BY DEF PackInv, PackStages, LateStages
<1>2. cfg \in Config /\ cfg = before.cfg /\ file \in Names /\ OfOneImage(before) /\ cfg.avb \in BOOLEAN
  BY <1>1, StageFacts DEF TypeOK
<1>3. /\ \A p \in cfg.has : Wanted(p) # None
      /\ Made.signed = Signed(NewClear, IF cfg.avb THEN NewDescs ELSE <<>>)
      /\ cfg.avb => HasHash(before.json[cfg.output])
  BY <1>1 DEF Pipeline
<1>4. NewClear \in Clear
  BY <1>1, <1>3, NewClearType
<1>5. Made.signed \in SignedImage
  <2>1. Signed(NewClear, <<>>) \in SignedImage
    BY <1>4 DEF Signed, SignedImage
  <2>2. cfg.avb => Signed(NewClear, NewDescs) \in SignedImage
    BY <1>1, <1>3, SignedType
  <2> QED
    BY <1>2, <1>3, <2>1, <2>2
<1>6. HasHash(before.json[file]) => cfg.output = file /\ cfg.avb
  <2>1. before.cfg # None
    BY <1>1, <1>2 DEF PackInv, Stages
  <2> QED
    BY <1>2, <2>1 DEF OfOneImage, HasHash
<1> QED
  <2>1. Made.signed # None
    BY <1>5, Shape
  <2>2. Made.signed.signed = TRUE
    <3>1. \A d : Signed(NewClear, d).signed = TRUE
      BY DEF Signed
    <3> QED
      BY <1>3, <3>1
  <2> QED
    BY <1>6, <2>1, <2>2

LEMMA NextMergedIn ==
  ASSUME PackInv, [Next]_vars
  PROVE  MergedIn'
<1>0. Stages /\ MergedIn
  BY DEF PackInv
<1>1. CASE vars' = vars
  <2>1. UNCHANGED <<pc, file, before, vbmeta, vbsigned, result>>
    BY <1>1 DEF vars, files
  <2> QED
    BY <1>0, <2>1 DEF MergedIn, Packed
<1>2. ASSUME pc' # "packed" PROVE MergedIn'
  BY <1>2 DEF MergedIn, Packed
<1>3. ASSUME NEW f \in Files, Unpack(f) \/ Pack(f) PROVE MergedIn'
  BY <1>2, <1>3, StartStages
<1>4. CASE CleanUp \/ ParseHeader \/ ParseFooter \/ ExtractPart \/ NoKernel \/ UnpackVBMeta
  BY <1>2, <1>4, UnpackStep DEF UnpackStages
<1>5. CASE PackVBMeta
  <2>1. file' \notin Names
    BY <1>0, <1>5, Shape DEF PackVBMeta, Step, Stages
  <2> QED
    BY <2>1 DEF MergedIn, Packed
<1>6. CASE \/ LoadConfig \/ DeleteResults \/ PackRamdisk \/ WriteHeader \/ AppendData
           \/ RunMkbootimg \/ Sign \/ AddHashFooter \/ RunAvbtool \/ Fail
  BY <1>2, <1>6 DEF LoadConfig, DeleteResults, PackRamdisk, WriteHeader, AppendData,
                    RunMkbootimg, Sign, AddHashFooter, RunAvbtool, Fail
<1>7. CASE MergeVBMeta
  <2>1. pc = "merge" /\ UNCHANGED <<before, file, vbmeta, result>> /\ pc \in PackStages
    BY <1>7 DEF MergeVBMeta, Step, PackStages, LateStages
  <2>2. work.json = before.json
    BY <2>1, StageFacts
  <2>3. CASE pc' = "packed" /\ vbmeta # None
    <3>1. /\ HasHash(work.json[file]) /\ work.json[VBMetaName] # None
          /\ vbsigned' = PackVbMeta(ReplaceHash(work.json[VBMetaName], Partition(work.json[file]),
                                                AuxBlob(result[file].signed.descs)["hash"][1].desc))
      BY <1>7, <2>3 DEF MergeVBMeta
    <3> QED
      BY <2>1, <2>2, <3>1 DEF MergedIn
  <2> QED
    BY <2>1, <2>3 DEF MergedIn, Packed
<1> QED
  BY <1>1, <1>2, <1>3, <1>4, <1>5, <1>6, <1>7, UserMoves DEF Next

LEMMA NextRepeatable ==
  ASSUME PackInv, [Next]_vars
  PROVE  PackCanBeRepeated'
<1>0. Stages /\ PackCanBeRepeated
  BY DEF PackInv
<1>1. CASE vars' = vars
  <2>1. UNCHANGED <<pc, file, cfg, before, vbmeta>>
    BY <1>1 DEF vars, files
  <2> QED
    BY <1>0, <2>1 DEF PackCanBeRepeated, Incomplete, Wanted
<1>2. ASSUME pc' # "failed" \/ cfg' = None PROVE PackCanBeRepeated'
  BY <1>2 DEF PackCanBeRepeated
<1>3. ASSUME NEW f \in Files, Unpack(f) \/ Pack(f) PROVE PackCanBeRepeated'
  BY <1>2, <1>3, StartStages
<1>4. CASE CleanUp \/ ParseHeader \/ ParseFooter \/ ExtractPart \/ NoKernel \/ UnpackVBMeta
  BY <1>2, <1>4, UnpackStep
<1>5. CASE PackVBMeta \/ LoadConfig
  BY <1>0, <1>2, <1>5 DEF PackVBMeta, LoadConfig, Step, Stages
<1>6. CASE DeleteResults \/ AppendData \/ RunMkbootimg \/ AddHashFooter \/ RunAvbtool \/ Fail
  BY <1>2, <1>6, AvbtoolMakes DEF DeleteResults, AppendData, RunMkbootimg, AddHashFooter, Fail
<1>7. ASSUME pc \in PackStages, UNCHANGED <<before, vbmeta, file>>, Incomplete
      PROVE  PackCanBeRepeated'
  BY <1>7 DEF PackCanBeRepeated, Incomplete, Wanted
<1>8. CASE PackRamdisk
  <2>1. pc \in PackStages /\ UNCHANGED <<before, vbmeta, file>>
    BY <1>8 DEF PackRamdisk, Step, PackStages
  <2>2. pc' = "failed" => "ramdisk" \in cfg.has /\ Wanted("ramdisk") = None
    BY <1>8, RamdiskMakes
  <2>3. cfg = before.cfg
    BY <2>1, StageFacts
  <2> QED
    BY <1>2, <1>7, <2>1, <2>2, <2>3 DEF Incomplete
<1>9. CASE WriteHeader
  <2>1. pc \in PackStages /\ UNCHANGED <<before, vbmeta, file>>
    BY <1>9 DEF WriteHeader, Step, PackStages
  <2>2. CanEncode(cfg, work) => pc' = "clear data"
    BY <1>9, HeaderMakes
  <2>3. cfg = before.cfg /\ \A p \in cfg.has : work.part[p] = Wanted(p)
    BY <1>9, <2>1, StageFacts, PartsReady DEF WriteHeader, Step
  <2>4. ~CanEncode(cfg, work) => Incomplete
    BY <2>3 DEF CanEncode, Incomplete
  <2> QED
    BY <1>2, <1>7, <2>1, <2>2, <2>4
<1>10. CASE Sign
  <2>1. pc \in PackStages /\ UNCHANGED <<before, vbmeta, file>>
    BY <1>10 DEF Sign, Step, PackStages, LateStages
  <2>2. pc' = "failed" => cfg.avb /\ ~HasHash(before.json[cfg.output])
    BY <1>10, SignMakes
  <2>3. cfg = before.cfg
    BY <2>1, StageFacts
  <2> QED
    BY <1>2, <1>7, <2>1, <2>2, <2>3 DEF Incomplete
<1>11. CASE MergeVBMeta
  <2>1. pc = "merge" /\ pc \in PackStages /\ UNCHANGED <<before, vbmeta, file>>
    BY <1>11 DEF MergeVBMeta, Step, PackStages, LateStages
  <2>2. work.json = before.json
    BY <2>1, StageFacts
  <2>3. Made.signed # None /\ Made.signed.signed /\ (HasHash(before.json[file]) => cfg.output = file)
    BY <2>1, SignedThere
  <2>4. CASE pc' = "failed"
    <3>1. vbmeta # None /\ ~(/\ HasHash(work.json[file]) /\ result[file].signed # None
                             /\ result[file].signed.signed /\ work.json[VBMetaName] # None)
      BY <1>11, <2>4 DEF MergeVBMeta
    <3>2. Incomplete
      BY <2>2, <2>3, <3>1 DEF Incomplete, Made
    <3> QED
      BY <1>7, <2>1, <3>2
  <2> QED
    BY <1>2, <2>4
<1> QED
  BY <1>1, <1>2, <1>3, <1>4, <1>5, <1>6, <1>8, <1>9, <1>10, <1>11, UserMoves DEF Next
-----------------------------------------------------------------------------
(* Whose contents get into an image.                                       *)

LEMMA FreshKept ==
  ASSUME FreshSources, Emptied' => Emptied, unpacked'.image = unpacked.image, edited \subseteq edited',
         \A p \in Parts : MadeFrom(work', p) = MadeFrom(work, p) \/ Fresh(MadeFrom(work, p), p)'
  PROVE  FreshSources'
<1>1. SUFFICES ASSUME Emptied', NEW p \in Parts
               PROVE  Fresh(MadeFrom(work, p), p)'
  BY DEF FreshSources
<1>2. Fresh(MadeFrom(work, p), p)
  BY <1>1 DEF FreshSources
<1>3. CASE MadeFrom(work', p) = MadeFrom(work, p)
  BY <1>2, <1>3 DEF Fresh
<1> QED
  BY <1>3

\* What the user puts into build/unzip_boot.
LEMMA FreshEdits ==
  ASSUME PackInv, NEW v \in Edits, edited' = edited \union {v}, unpacked' = unpacked, pc' = "idle",
         \A p \in Parts : MadeFrom(work', p) = MadeFrom(work, p) \/ MadeFrom(work', p) = Whole(v)
  PROVE  FreshSources'
<1>1. FreshSources /\ (Emptied' => Emptied)
  BY DEF PackInv, Emptied, UnpackStages
<1>2. ASSUME NEW p \in Parts, MadeFrom(work', p) = Whole(v)
      PROVE  Fresh(MadeFrom(work, p), p)'
  <2>1. Whole(v).whole /\ Whole(v).v = v
    BY Shape, WholeContent
  <2> QED
    BY <1>2, <2>1 DEF Fresh
<1> QED
  BY <1>1, <1>2, FreshKept

LEMMA UserFresh ==
  ASSUME PackInv,
         \/ \E n \in Names, i \in BootImages \union {None} : PutImage(n, i)
         \/ \E v \in VBMetas \union {None} : PutVBMeta(v)
         \/ \E p \in Parts \ {"ramdisk"}, v \in Edits : EditPart(p, v)
         \/ \E v \in Edits : EditRoot(v) \/ UsePrebuilt(v)
  PROVE  FreshSources'
<1>0. FreshSources /\ work \in Work /\ pc' = "idle" /\ unpacked' = unpacked
  BY UserMoves DEF PackInv, TypeOK
<1>1. ASSUME UNCHANGED <<work, edited>> PROVE FreshSources'
  BY <1>0, <1>1 DEF FreshSources, Emptied, Fresh, UnpackStages
<1>2. CASE \/ \E n \in Names, i \in BootImages \union {None} : PutImage(n, i)
           \/ \E v \in VBMetas \union {None} : PutVBMeta(v)
  BY <1>1, <1>2 DEF PutImage, PutVBMeta, files
<1>3. ASSUME NEW q \in Parts \ {"ramdisk"}, NEW v \in Edits, EditPart(q, v)
      PROVE  FreshSources'
  <2> DEFINE f == Whole(v)
  <2>1. edited' = edited \union {v} /\ work' = [work EXCEPT !.part[q] = f]
    BY <1>3 DEF EditPart
  <2> HIDE DEF f
  <2>2. work'.root = work.root /\ work'.part[q] = f /\ \A p \in Parts : p # q => work'.part[p] = work.part[p]
    BY <1>0, <2>1 DEF Work
  <2>3. \A p \in Parts : MadeFrom(work', p) = MadeFrom(work, p) \/ MadeFrom(work', p) = f
    BY <2>2 DEF MadeFrom
  <2> QED
    BY <1>0, <2>1, <2>3, FreshEdits DEF f
<1>4. ASSUME NEW v \in Edits, EditRoot(v)
      PROVE  FreshSources'
  <2> DEFINE f == Whole(v)
  <2>1. edited' = edited \union {v} /\ work' = [work EXCEPT !.root = f] /\ work.root # None
    BY <1>4 DEF EditRoot
  <2> HIDE DEF f
  <2>2. work'.root = f /\ f # None /\ work'.part = work.part
    <3>1. f \in Content
      BY Shape, WholeContent DEF f
    <3> QED
      BY <1>0, <2>1, <3>1, Shape DEF Work
  <2>3. \A p \in Parts : MadeFrom(work', p) = MadeFrom(work, p) \/ MadeFrom(work', p) = f
    BY <2>1, <2>2 DEF MadeFrom
  <2> QED
    BY <1>0, <2>1, <2>3, FreshEdits DEF f
<1>5. ASSUME NEW v \in Edits, UsePrebuilt(v)
      PROVE  FreshSources'
  <2> DEFINE f == Whole(v)
  <2>1. edited' = edited \union {v} /\ work' = [work EXCEPT !.part["ramdisk"] = f, !.root = None]
    BY <1>5 DEF UsePrebuilt
  <2> HIDE DEF f
  <2>2. /\ work'.root = None /\ work'.part["ramdisk"] = f
        /\ \A p \in Parts : p # "ramdisk" => work'.part[p] = work.part[p]
    BY <1>0, <2>1, Shape DEF Work
  <2>3. \A p \in Parts : MadeFrom(work', p) = MadeFrom(work, p) \/ MadeFrom(work', p) = f
    BY <2>2 DEF MadeFrom
  <2> QED
    BY <1>0, <2>1, <2>3, FreshEdits DEF f
<1> QED
  BY <1>2, <1>3, <1>4, <1>5

LEMMA UnpackFresh ==
  ASSUME PackInv,
         CleanUp \/ ParseHeader \/ ParseFooter \/ ExtractPart \/ NoKernel \/ UnpackVBMeta
  PROVE  FreshSources'
<1>0. TypeOK /\ Stages /\ FreshSources
  BY DEF PackInv
<1>1. work \in Work /\ UNCHANGED <<image, file, edited>> /\ pc \in UnpackStages
  BY <1>0, UnpackStep DEF CleanUp, ParseHeader, ParseFooter, ExtractPart, NoKernel, UnpackVBMeta, Step, TypeOK
<1>2. unpacked'.image = unpacked.image /\ (unpacked'.returned => unpacked.returned \/ file \in Names)
  <2>1. CASE unpacked' = unpacked
    BY <2>1
  <2>2. ASSUME NEW outcome, Returns(outcome)
        PROVE  unpacked'.image = unpacked.image /\ (unpacked'.returned => unpacked.returned \/ file \in Names)
    BY <1>0, <2>2, ReturnsType
  <2> QED
    BY <2>1, <2>2 DEF CleanUp, ParseHeader, ParseFooter, ExtractPart, NoKernel, UnpackVBMeta
<1>3. pc # "clean up" => (Emptied' => Emptied)
  BY <1>1, <1>2 DEF Emptied
<1>4. ASSUME pc # "clean up",
             \A p \in Parts : MadeFrom(work', p) = MadeFrom(work, p) \/ Fresh(MadeFrom(work, p), p)'
      PROVE  FreshSources'
  BY <1>0, <1>1, <1>2, <1>3, <1>4, FreshKept
<1>5. CASE CleanUp
  BY <1>5, Nothing DEF CleanUp, FreshSources, Fresh
<1>6. CASE ParseHeader \/ ParseFooter \/ NoKernel \/ UnpackVBMeta
  <2>1. pc # "clean up"
    BY <1>6 DEF ParseHeader, ParseFooter, NoKernel, UnpackVBMeta, Step
  <2>2. work'.part = work.part /\ work'.root = work.root
    <3>1. CASE work' = work
      BY <3>1
    <3>2. ASSUME NEW c, work' = [work EXCEPT !.cfg = c]
          PROVE  work'.part = work.part /\ work'.root = work.root
      BY <1>1, <3>2 DEF Work
    <3>3. ASSUME NEW f, NEW a, work' = [work EXCEPT !.json[f] = a]
          PROVE  work'.part = work.part /\ work'.root = work.root
      BY <1>1, <3>3 DEF Work
    <3>4. CASE ParseHeader
      BY <3>1, <3>2, <3>4 DEF ParseHeader
    <3>5. CASE ParseFooter
      BY <3>1, <3>3, <3>5 DEF ParseFooter
    <3>6. CASE NoKernel
      BY <3>1, <3>6 DEF NoKernel
    <3>7. CASE UnpackVBMeta
      BY <3>1, <3>3, <3>7 DEF UnpackVBMeta
    <3> QED
      BY <1>6, <3>4, <3>5, <3>6, <3>7
  <2>3. \A p \in Parts : MadeFrom(work', p) = MadeFrom(work, p)
    BY <2>2 DEF MadeFrom
  <2> QED
    BY <1>4, <2>1, <2>3
<1>7. CASE ExtractPart
  <2>1. pc = "extract" /\ k <= Len(PartOrder) /\ k \in 1 .. Len(PartOrder) + 1
    BY <1>0, <1>7 DEF ExtractPart, Step, TypeOK
  <2>2. file \in Names /\ image[file] \in BootImages /\ unpacked = [image |-> image[file], returned |-> FALSE]
    BY <1>0, <2>1 DEF Stages, UnpackStages
  <2>3. unpacked'.image = image[file]
    BY <1>2, <2>2
  <2>4. CASE PartOrder[k] \notin DOMAIN image[file].parts
    <3>1. work' = work
      BY <1>7, <2>4 DEF ExtractPart
    <3> QED
      BY <1>4, <2>1, <3>1
  <2>5. CASE PartOrder[k] \in DOMAIN image[file].parts
    <3>1. PICK q \in Parts : q = PartOrder[k]
      BY <2>1, Shape
    <3>2. PICK v \in Versions : v = image[file].parts[q]
      BY <2>2, <2>5, <3>1, Shape
    <3>3. PICK f : f = Whole(v)
      OBVIOUS
    <3>4. f.whole /\ f.v = v
      BY <3>2, <3>3, WholeContent
    <3>5. Fresh(f, q)'
      BY <2>3, <2>5, <3>1, <3>2, <3>4 DEF Fresh
    <3>6. work' = [work EXCEPT !.part[q] = f, !.root = IF q = "ramdisk" THEN f ELSE @]
      BY <1>7, <2>5, <3>1, <3>2, <3>3 DEF ExtractPart
    <3>7. /\ work'.part[q] = f /\ work'.root = IF q = "ramdisk" THEN f ELSE work.root
          /\ \A p \in Parts : p # q => work'.part[p] = work.part[p]
      BY <1>1, <3>1, <3>6 DEF Work
    <3>8. ASSUME NEW p \in Parts
          PROVE  MadeFrom(work', p) = MadeFrom(work, p) \/ Fresh(MadeFrom(work, p), p)'
      <4>1. CASE p # q
        BY <3>7, <4>1 DEF MadeFrom
      <4>2. CASE p = "ramdisk" /\ q = "ramdisk"
        <5>1. MadeFrom(work', p) = f
          BY <3>7, <4>2 DEF MadeFrom
        <5> QED
          BY <3>5, <4>2, <5>1
      <4>3. CASE p = q /\ q # "ramdisk"
        <5>1. MadeFrom(work', p) = f
          BY <3>7, <4>3 DEF MadeFrom
        <5> QED
          BY <3>5, <4>3, <5>1
      <4> QED
        BY <4>1, <4>2, <4>3
    <3> QED
      BY <1>4, <2>1, <3>8
  <2> QED
    BY <2>4, <2>5
<1> QED
  BY <1>5, <1>6, <1>7

LEMMA NextFresh ==
  ASSUME PackInv, [Next]_vars
  PROVE  FreshSources'
<1>0. TypeOK /\ Stages /\ FreshSources
  BY DEF PackInv
<1>1. CASE vars' = vars
  <2>1. UNCHANGED <<pc, file, work, unpacked, edited>>
    BY <1>1 DEF vars, files
  <2> QED
    BY <1>0, <2>1 DEF FreshSources, Emptied, Fresh
<1>2. ASSUME NEW f \in Files, Unpack(f) \/ Pack(f) PROVE FreshSources'
  <2>1. /\ work' = work /\ pc' \in {"vbmeta json", "clean up", "pack vbmeta", "load"} /\ file' = f
    BY <1>2, StartStages
  <2>2. CASE UNCHANGED <<unpacked, edited>> /\ (pc' = "vbmeta json" => f \notin Names)
    BY <1>0, <2>1, <2>2 DEF FreshSources, Emptied, Fresh, UnpackStages
  <2>3. CASE pc' = "clean up" /\ unpacked'.returned = FALSE
    BY <2>3 DEF FreshSources, Emptied
  <2>4. CASE Unpack(f) /\ f = VBMetaName
    BY <2>2, <2>4, Shape DEF Unpack
  <2>5. CASE Unpack(f) /\ f # VBMetaName
    <3>1. pc' = "clean up" /\ unpacked' = [image |-> image[f], returned |-> FALSE]
      BY <2>5 DEF Unpack, Start
    <3> QED
      BY <2>3, <3>1
  <2>6. CASE Pack(f)
    <3>1. UNCHANGED <<unpacked, edited>> /\ pc' = IF f = VBMetaName THEN "pack vbmeta" ELSE "load"
      BY <2>6 DEF Pack, Start
    <3> QED
      BY <2>2, <3>1
  <2> QED
    BY <1>2, <2>4, <2>5, <2>6
<1>3. ASSUME Emptied' => Emptied, UNCHANGED <<unpacked, edited>>,
             \A p \in Parts : MadeFrom(work', p) = MadeFrom(work, p)
      PROVE  FreshSources'
  BY <1>0, <1>3, FreshKept
<1>4. CASE \/ PackVBMeta \/ LoadConfig \/ DeleteResults \/ PackRamdisk \/ WriteHeader \/ AppendData
           \/ RunMkbootimg \/ Sign \/ AddHashFooter \/ RunAvbtool \/ MergeVBMeta
  <2>1. UNCHANGED <<unpacked, edited>> /\ pc' \notin UnpackStages
    BY <1>4 DEF PackVBMeta, LoadConfig, DeleteResults, PackRamdisk, WriteHeader, AppendData,
                RunMkbootimg, Sign, AddHashFooter, RunAvbtool, MergeVBMeta, UnpackStages
  <2>2. work' = work \/ PackRamdisk
    BY <1>4 DEF PackVBMeta, LoadConfig, DeleteResults, WriteHeader, AppendData,
                RunMkbootimg, Sign, AddHashFooter, RunAvbtool, MergeVBMeta, files
  <2>3. \A p \in Parts : MadeFrom(work', p) = MadeFrom(work, p)
    BY <2>2, RamdiskMakes
  <2>4. Emptied' => Emptied
    BY <2>1 DEF Emptied
  <2> QED
    BY <1>3, <2>1, <2>3, <2>4
<1>5. CASE Fail
  <2>1. pc' = "killed" /\ UNCHANGED <<unpacked, edited>> /\ work' \in HalfWork /\ ~Idle
    BY <1>5 DEF Fail
  <2>2. CASE pc \in UnpackStages /\ file \in Names
    <3>1. unpacked = [image |-> image[file], returned |-> FALSE]
      BY <1>0, <2>2 DEF Stages
    <3>2. ~Emptied'
      BY <2>1, <3>1 DEF Emptied, UnpackStages
    <3> QED
      BY <3>2 DEF FreshSources
  <2>3. CASE pc \notin UnpackStages \/ file \notin Names
    <3>1. \A p \in Parts : MadeFrom(work', p) = MadeFrom(work, p)
      BY <2>1, <2>3, HalfWorkFacts
    <3>2. Emptied' => Emptied
      BY <2>1 DEF Emptied, UnpackStages
    <3> QED
      BY <1>3, <2>1, <3>1, <3>2
  <2> QED
    BY <2>2, <2>3
<1>6. CASE CleanUp \/ ParseHeader \/ ParseFooter \/ ExtractPart \/ NoKernel \/ UnpackVBMeta
  BY <1>6, UnpackFresh
<1> QED
  BY <1>1, <1>2, <1>4, <1>5, <1>6, UserFresh DEF Next
-----------------------------------------------------------------------------
(* The theorems.                                                           *)

LEMMA NextInv == PackInv /\ [Next]_vars => PackInv'
<1> SUFFICES ASSUME PackInv, [Next]_vars PROVE PackInv'
  OBVIOUS
<1>1. TypeOK' /\ Stages'
  BY NextTypes, NextStages
<1>2. Sources' /\ Pipeline'
  BY NextSources, NextPipeline
<1>3. MergedIn' /\ FreshSources' /\ PackCanBeRepeated'
  BY NextMergedIn, NextFresh, NextRepeatable
<1> QED
  BY <1>1, <1>2, <1>3 DEF PackInv

\* At any time the stage of the command, its configuration, build/unzip_boot
\* and the results fit together as PackInv says.
THEOREM PackInvariant == Spec => []PackInv
BY InitInv, NextInv, PTL DEF Spec

\* The files are always of the kinds that the commands write, and the
\* *.avb.json file of a boot image is of the image that bootimg.json is of.
THEOREM PackFilesSound == Spec => []TypeOK
<1>1. PackInv => TypeOK
  BY DEF PackInv
<1> QED
  BY <1>1, PackInvariant, PTL

LEMMA CurrentWhenPacked == PackInv => PackedIsCurrent
<1> SUFFICES ASSUME PackInv, Packed
             PROVE  /\ Output # None /\ Output.signed
                    /\ Output.image.header = [p \in cfg.has |-> Wanted(p)]
                    /\ Output.image.body = [i \in DOMAIN InOrder(cfg) |-> Wanted(InOrder(cfg)[i])]
                    /\ cfg.avb => \E i \in DOMAIN Output.descs : /\ Output.descs[i].tag = "hash"
                                                                 /\ Output.descs[i].digest = Output.image
  BY DEF PackedIsCurrent
<1>1. Output = Made.signed /\ Output # None /\ Output.signed
  BY SignedThere DEF Output, Made
<1>2. /\ Made.signed = Signed(NewClear, IF cfg.avb THEN NewDescs ELSE <<>>)
      /\ cfg.avb => HasHash(before.json[cfg.output])
      /\ \A p \in cfg.has : Wanted(p) # None
  BY DEF PackInv, Pipeline
<1>3. Output.image = NewClear /\ (cfg.avb => Output.descs = NewDescs)
  BY <1>1, <1>2 DEF Signed
<1>4. NewClear.header = NewHeader /\ NewClear.body = NewBody
  BY DEF NewClear
<1>5. ASSUME cfg.avb
      PROVE  \E i \in DOMAIN NewDescs : NewDescs[i].tag = "hash" /\ NewDescs[i].digest = NewClear
  <2>1. NewClear \in Clear
    BY <1>2, NewClearType
  <2>2. PICK i \in BootImages : before.json[cfg.output] = AuxBlob(i.descs)
    BY <1>2, <1>5, SignedType
  <2> DEFINE aux == AuxBlob(i.descs)
             c == NewClear
             new == PackVbMeta(UpdateHash(aux, Partition(aux), c))
  <2>3. HasHash(aux)
    BY <1>2, <1>5, <2>2
  <2>4. \E n \in DOMAIN new : new[n].tag = "hash" /\ new[n].digest = c
    <3> HIDE DEF c
    <3> QED
      BY <2>1, <2>3, FooterDescs DEF c
  <2>5. new = NewDescs
    BY <2>2 DEF NewDescs
  <2> QED
    BY <2>4, <2>5
<1> QED
  BY <1>1, <1>3, <1>4, <1>5 DEF NewHeader, NewBody

\* A pack that succeeds has made a signed image of exactly the parts that were
\* in build/unzip_boot when it was started, in order, whatever earlier,
\* failed and killed commands have left behind.
THEOREM PacksWhatIsThere == Spec => []PackedIsCurrent
BY CurrentWhenPacked, PackInvariant, PTL

LEMMA FreshWhenPacked == PackInv => NothingStale
<1> SUFFICES ASSUME PackInv, Packed, unpacked.returned, NEW p \in cfg.has
             PROVE  LET f == Output.image.header[p]
                    IN /\ f.whole
                       /\ \/ f.v \in edited
                          \/ p \in DOMAIN unpacked.image.parts /\ f.v = unpacked.image.parts[p]
  BY DEF NothingStale
<1>1. /\ cfg.has \in SUBSET Parts /\ MadeFrom(work, p) = Wanted(p)
  BY StageFacts
<1>2. Output.image.header[p] = Wanted(p)
  BY CurrentWhenPacked DEF PackedIsCurrent
<1>3. Wanted(p) # None
  BY DEF PackInv, Pipeline
<1>4. Fresh(MadeFrom(work, p), p)
  BY <1>1 DEF PackInv, FreshSources, Emptied
<1> QED
  BY <1>1, <1>2, <1>3, <1>4 DEF Fresh

\* After an unpack that returned, nothing of another image and no half
\* extracted file gets into what is packed.
THEOREM PacksNothingStale == Spec => []NothingStale
BY FreshWhenPacked, PackInvariant, PTL

\* A pack can be repeated, also after one that failed or was killed.
THEOREM PacksRepeatedly == Spec => []PackRepeatable
<1>1. PackInv => PackRepeatable
  <2> SUFFICES ASSUME PackInv PROVE PackRepeatable
    OBVIOUS
  <2>1. PackKeepsSources
    <3> SUFFICES ASSUME cfg # None, pc # "idle", NEW p \in cfg.has
                 PROVE  MadeFrom(work, p) = Wanted(p)
      BY DEF PackKeepsSources
    <3>1. cfg \in Config
      BY DEF PackInv, TypeOK
    <3>2. p \in Parts
      BY <3>1 DEF Config
    <3> QED
      BY <3>2 DEF PackInv, Sources
  <2> QED
    BY <2>1 DEF PackRepeatable, PackInv
<1> QED
  BY <1>1, PackInvariant, PTL

LEMMA MatchesWhenPacked == (\A i \in BootImages : OneHashEach(i)) /\ PackInv => VBMetaMatches
<1> SUFFICES ASSUME \A i \in BootImages : OneHashEach(i), PackInv, Packed, vbmeta # None
             PROVE  /\ cfg.output = file
                    /\ \E d \in {Output.descs[i] : i \in DOMAIN Output.descs} :
                         /\ d.tag = "hash" /\ d.digest = Output.image
                         /\ vbsigned = Merged(EncodeDescriptors(before.json[VBMetaName]), d.partition, d)
  BY DEF VBMetaMatches
<1>1. /\ HasHash(before.json[file]) /\ before.json[VBMetaName] # None
      /\ vbsigned = PackVbMeta(ReplaceHash(before.json[VBMetaName], Partition(before.json[file]),
                                           AuxBlob(result[file].signed.descs)["hash"][1].desc))
  BY DEF PackInv, MergedIn
<1>2. cfg.output = file /\ cfg.avb
  BY <1>1, SignedThere
<1>3. /\ Made.signed = Signed(NewClear, NewDescs) /\ \A p \in cfg.has : Wanted(p) # None
  BY <1>2 DEF PackInv, Pipeline
<1>4. Output.image = NewClear /\ Output.descs = NewDescs /\ result[file].signed.descs = NewDescs
  BY <1>2, <1>3 DEF Signed, Output, Made
<1>5. NewClear \in Clear
  BY <1>3, NewClearType
<1>6. PICK i \in BootImages : before.json[file] = AuxBlob(i.descs)
  BY <1>1, <1>2, SignedType
<1> DEFINE aux == AuxBlob(i.descs)
           c == NewClear
           new == PackVbMeta(UpdateHash(aux, Partition(aux), c))
<1>7. new = NewDescs
  BY <1>2, <1>6 DEF NewDescs
<1>8. PICK n \in DOMAIN new : /\ new[n].tag = "hash" /\ new[n].digest = c
                              /\ new[n].partition = Partition(aux)
                              /\ AuxBlob(new)["hash"][1].desc = new[n]
  <2>1. HasHash(aux)
    BY <1>1, <1>6
  <2> HIDE DEF c
  <2> QED
    BY <1>5, <2>1, FooterDescs DEF c
<1> DEFINE d == NewDescs[n]
<1>9. /\ d \in {Output.descs[m] : m \in DOMAIN Output.descs}
      /\ d.tag = "hash" /\ d.digest = Output.image /\ d.partition = Partition(before.json[file])
      /\ AuxBlob(result[file].signed.descs)["hash"][1].desc = d
  BY <1>4, <1>6, <1>7, <1>8
<1> HIDE DEF d, new, aux
<1>10. vbsigned = EncodeDescriptors(ReplaceHash(before.json[VBMetaName], d.partition, d))
  BY <1>1, <1>9 DEF PackVbMeta
<1>11. PICK v \in BootImages \union VBMetas : before.json[VBMetaName] = AuxBlob(v.descs)
  <2>1. before.json[VBMetaName] \in Aux
    BY <1>1, Shape DEF PackInv, TypeOK, Work
  <2> QED
    BY <2>1 DEF Aux
<1>12. Descriptors(Descriptor({None})) /\ v.descs \in Seq(Descriptor({None}))
  BY <1>11, Shape DEF Descriptors, Descriptor
<1>13. EncodeDescriptors(AuxBlob(v.descs)) = v.descs
  BY <1>12, RoundTrips
<1>14. vbsigned = Merged(v.descs, d.partition, d)
  BY <1>10, <1>11, <1>12, MergingInPlace
<1> QED
  BY <1>2, <1>9, <1>11, <1>13, <1>14

\* vbmeta.img.signed is the vbmeta.img that was unpacked, with the descriptor
\* of the boot image just packed in its place, for boot images that have at
\* most one hash descriptor of each partition.
THEOREM PacksMatchingVBMeta ==
  (\A i \in BootImages : OneHashEach(i)) => (Spec => []VBMetaMatches)
<1> SUFFICES ASSUME \A i \in BootImages : OneHashEach(i)
             PROVE  Spec => []VBMetaMatches
  OBVIOUS
<1>1. PackInv => VBMetaMatches
  BY MatchesWhenPacked
<1> QED
  BY <1>1, PackInvariant, PTL
=============================================================================
