---------------------------- MODULE VBMetaWriter ----------------------------
(***************************************************************************)
(* The layout of the vbmeta images that the editor writes (Avb.packVbMeta, *)
(* AuxBlob.encode, AuthBlob.createBlob and the encode() of each kind of    *)
(* descriptor), as libavb finds it in memory.                              *)
(*                                                                         *)
(* A descriptor of the editor is a record of AvbDescriptors with the       *)
(* lengths of its parts, the name of a property and the rollback location  *)
(* of a chain.                                                             *)
(***************************************************************************)
EXTENDS VBMetaImage, AvbDescriptors

CONSTANTS
  ALGORITHM,         \* for each algorithm its sizes: hash, signature, key
  PAGE,              \* BLOCK_SIZE of Avb, to which vbmeta.img is padded
  Partitions,        \* names of partitions, "" for none
  Digests,           \* digests, and what stands for none
  NewHashes          \* the hash descriptors that pack() puts into vbmeta.img

RoundToMultiple(size, page) ==
  IF size % page = 0 THEN size ELSE size + page - (size % page)

\* Defect: the bytes that follow are not rounded.
EncodeUnpadded(d) ==
  [tag |-> d.tag,
   num_bytes_following |->
     FIXED[d.tag] - DESCRIPTOR_SIZE + d.len[1] + d.len[2] + d.len[3],
   len |-> d.len, rollback_index_location |-> d.location, key |-> d.key, nul |-> TRUE]

\* encode() of the five kinds of descriptors.  One that is not known is written
\* as it was read, and its bytes are a multiple of 8 in any case.
Encode(d) ==
  [tag |-> d.tag,
   num_bytes_following |->
     RoundToMultiple(FIXED[d.tag] - DESCRIPTOR_SIZE + d.len[1] + d.len[2] + d.len[3], ALIGN),
   len |-> d.len, rollback_index_location |-> d.location, key |-> d.key, nul |-> TRUE]

\* The encoded descriptors before number n take this many bytes.
SizeBefore(ds, n) ==
  LET size[m \in 0 .. Len(ds)] ==
        IF m = 0 THEN 0 ELSE size[m - 1] + DESCRIPTOR_SIZE + Encode(ds[m]).num_bytes_following
  IN size[n - 1]

AuthBlockSize(alg) ==
  RoundToMultiple(ALGORITHM[alg].hash + ALGORITHM[alg].signature, BLOCK)

\* encodedDesc + encodedKey + encodedPkmd + padding
AuxBlockSize(ds, alg, pkmd) ==
  RoundToMultiple(SizeBefore(ds, Len(ds) + 1) + ALGORITHM[alg].key + pkmd, BLOCK)

\* The header that packVbMeta() computes for the descriptors ds.
PackedHeader(ds, alg, pkmd) ==
  [magic |-> TRUE, supported |-> TRUE, release_nul |-> TRUE,
   authentication_data_block_size |-> AuthBlockSize(alg),
   auxiliary_data_block_size |-> AuxBlockSize(ds, alg, pkmd),
   algorithm_type |-> alg,
   hash_offset |-> 0, hash_size |-> ALGORITHM[alg].hash,
   signature_offset |-> ALGORITHM[alg].hash, signature_size |-> ALGORITHM[alg].signature,
   public_key_offset |-> SizeBefore(ds, Len(ds) + 1),
   public_key_size |-> ALGORITHM[alg].key,
   public_key_metadata_offset |-> SizeBefore(ds, Len(ds) + 1) + ALGORITHM[alg].key,
   public_key_metadata_size |-> pkmd,
   descriptors_offset |-> 0,
   descriptors_size |-> SizeBefore(ds, Len(ds) + 1)]

\* The image of packVbMeta() at address data: header, authentication block and
\* auxiliary block, which begins with the descriptors; packVbMetaWithPadding()
\* adds zeros to the end of a page.  Hash and signature are computed from the
\* header and the auxiliary block as they are written.
PackVbMeta(aux, alg, pkmd, padded, data) ==
  LET ds == EncodeDescriptors(aux)
      start == HEADER_SIZE + AuthBlockSize(alg)
      size == start + AuxBlockSize(ds, alg, pkmd)
  IN [data |-> data,
      length |-> IF padded THEN RoundToMultiple(size, PAGE) ELSE size,
      h |-> PackedHeader(ds, alg, pkmd),
      hash_matches |-> TRUE, signature_matches |-> TRUE,
      at |-> [o \in {start + SizeBefore(ds, n) : n \in DOMAIN ds} |->
                Encode(ds[CHOOSE n \in DOMAIN ds : start + SizeBefore(ds, n) = o])]]
-----------------------------------------------------------------------------
(***************************************************************************)
(* The images of the editor in memory                                      *)
(***************************************************************************)
EditorDesc ==
  {d \in [tag : Tags, partition : Partitions, digest : Digests, len : [1 .. 3 -> Words],
          key : Keys, location : Nat] : d.tag = "chain" => d.location >= 1}

\* An image as it was written, with the descriptors ds it was written from;
\* other is what is read between descriptors.
Written(ds, alg, pkmd, padded, data, other) ==
  LET i == PackVbMeta(AuxBlob(ds), alg, pkmd, padded, data)
  IN [data |-> i.data, length |-> i.length, h |-> i.h,
      hash_matches |-> i.hash_matches, signature_matches |-> i.signature_matches,
      at |-> i.at, other |-> other, ds |-> ds, intact |-> TRUE]

\* The structs of libavb and the blocks are multiples of the alignment, and the
\* editor knows the same algorithms, with the same hashes, as libavb.
ASSUME WriterAssumption ==
  /\ DESCRIPTOR_SIZE % ALIGN = 0 /\ HEADER_SIZE % ALIGN = 0 /\ BLOCK % ALIGN = 0
  /\ PAGE \in Nat \ {0}
  /\ FIXED["property"] > DESCRIPTOR_SIZE
  /\ DOMAIN ALGORITHM = {"NONE"} \union DOMAIN HASH_LEN
  /\ \A alg \in DOMAIN ALGORITHM : ALGORITHM[alg] \in [hash : Nat, signature : Nat, key : Nat]
  /\ \A alg \in DOMAIN HASH_LEN : ALGORITHM[alg].hash = HASH_LEN[alg]
  /\ NewHashes \subseteq {d \in EditorDesc : d.tag = "hash"}

\* An image that is intact is as the editor writes it, with any algorithm, any
\* metadata and any padding.
ASSUME WrittenAssumption ==
  \A i \in Images :
    /\ i.ds \in Seq(EditorDesc)
    /\ i.intact \in BOOLEAN
    /\ i.intact =>
         \E alg \in DOMAIN ALGORITHM, padded \in BOOLEAN :
           /\ i.h.public_key_metadata_size \in Nat
           /\ i = Written(i.ds, alg, i.h.public_key_metadata_size, padded, i.data, i.other)
-----------------------------------------------------------------------------
\* libavb accepts every image that packVbMeta() writes, lists all of its
\* descriptors in their order, and validates each of them.
WrittenAccepted ==
  image.intact =>
    /\ verdict \in {"NONE", IF image.h.algorithm_type = "NONE" THEN "OK_NOT_SIGNED" ELSE "OK"}
    /\ pc # "aborted"
    /\ pc = "done" /\ cb = "set" =>
         /\ [n \in DOMAIN table |-> DescAt(image, table[n])]
              = [n \in DOMAIN image.ds |-> Encode(image.ds[n])]
         /\ \A n \in DOMAIN table :
              DescAt(image, table[n]).tag # "unknown" => Validated(DescAt(image, table[n]))

\* avb_property_lookup() finds the first property with the key in what the
\* editor wrote, and NULL if there is none.
LookupFinds ==
  image.intact /\ cb = "lookup" /\ pc = "done" =>
    LET with == {n \in DOMAIN image.ds :
                   image.ds[n].tag = "property" /\ image.ds[n].key = wanted}
        o == HEADER_SIZE + AuthBlockSize(image.h.algorithm_type)
               + SizeBefore(image.ds, Min(with))
    IN value = IF with = {} THEN NotFound ELSE o + FIXED["property"] - 1 + image.ds[Min(with)].len[1]

\* Editor and libavb have the same idea of the layout: what packVbMeta() writes
\* is accepted, listed and validated, and its properties are found.
WrittenUsable == WrittenAccepted /\ LookupFinds

\* Reading and writing an image changes nothing, in particular not the order
\* of descriptors of different types: parseVbMeta() and encodeDescriptors()
\* are inverse to each other.
RoundTrip == pc = "verify" => EncodeDescriptors(AuxBlob(image.ds)) = image.ds

\* addHashFooter() changes the digest in place, and reading the result back
\* the first hash descriptor is still that of the partition, as pack() assumes.
SignsInPlace ==
  pc = "verify" => \A d \in Digests :
    LET aux == AuxBlob(image.ds)
        hashes == aux["hash"]
        part == hashes[1].desc.partition
        new == EncodeDescriptors(UpdateHash(aux, part, d))
    IN hashes # <<>> =>
         /\ new = Resigned(image.ds, part, d)
         /\ Cardinality(HashesOf(image.ds, part)) = 1 =>
              AuxBlob(new)["hash"][1].desc = [hashes[1].desc EXCEPT !.digest = d]

\* pack() replaces one entry of vbmeta.img in place, and keeps the rest.
MergesInPlace ==
  pc = "verify" => \A new \in NewHashes :
    EncodeDescriptors(ReplaceHash(AuxBlob(image.ds), new.partition, new))
      = Merged(image.ds, new.partition, new)

\* The editor's lists of descriptors keep order and place through reading,
\* signing, replacing and writing.
EditsInPlace == RoundTrip /\ SignsInPlace /\ MergesInPlace
=============================================================================
