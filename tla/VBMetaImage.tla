---------------------------- MODULE VBMetaImage ----------------------------
(***************************************************************************)
(* What libavb makes of a vbmeta image in memory: the checks of            *)
(* avb_vbmeta_image_verify() on the sizes and offsets of its header, the   *)
(* walk over its descriptors (avb_descriptor_foreach()) with the three     *)
(* callbacks that use it, and the validation of each type of descriptor.   *)
(*                                                                         *)
(* Numbers and addresses are words: they wrap at WORD, which is 2^64 in    *)
(* the code.  Of the bytes of an image only what the code looks at is      *)
(* kept: the header h, whether hash and signature match, and which         *)
(* descriptor would be read at which offset.                               *)
(***************************************************************************)
EXTENDS Naturals, Sequences

CONSTANTS
  WORD,              \* one more than the largest word
  HEADER_SIZE,       \* sizeof(AvbVBMetaImageHeader)
  DESCRIPTOR_SIZE,   \* sizeof(AvbDescriptor)
  BLOCK,             \* the two blocks of an image are multiples of this
  ALIGN,             \* AVB_ALIGNMENT_SIZE, and the unit of descriptors
  FIXED,             \* for each tag, the size of its struct, final NULs included
  HASH_LEN,          \* for each algorithm but NONE, the size of its hash
  Keys,              \* names of properties
  Images             \* the images a caller may have in memory

Words == 0 .. WORD - 1
DescTags == {"property", "hashtree", "hash", "cmdline", "chain", "unknown"}

ASSUME SizesAssumption ==
  /\ WORD \in Nat /\ HEADER_SIZE \in Words /\ DESCRIPTOR_SIZE \in Words
  /\ BLOCK \in Nat \ {0} /\ ALIGN \in Nat \ {0} /\ DESCRIPTOR_SIZE > 0
  /\ FIXED \in [DescTags -> Words]
  /\ \A t \in DescTags : FIXED[t] >= DESCRIPTOR_SIZE
  /\ DOMAIN HASH_LEN \subseteq STRING /\ "NONE" \notin DOMAIN HASH_LEN

\* A descriptor: len are the lengths of the parts that follow its struct, key
\* and nul belong to a property: its name, and whether a NUL byte ends it.
Desc == [tag : DescTags, num_bytes_following : Words, len : [1 .. 3 -> Words],
         rollback_index_location : Nat, key : Keys, nul : BOOLEAN]

\* The header.  major and minor are reduced to whether libavb supports them,
\* release_string to whether it ends with a NUL byte.
Header ==
  [magic : BOOLEAN, supported : BOOLEAN, release_nul : BOOLEAN,
   authentication_data_block_size : Words, auxiliary_data_block_size : Words,
   algorithm_type : STRING,
   hash_offset : Words, hash_size : Words,
   signature_offset : Words, signature_size : Words,
   public_key_offset : Words, public_key_size : Words,
   public_key_metadata_offset : Words, public_key_metadata_size : Words,
   descriptors_offset : Words, descriptors_size : Words]

\* An image at address data.  It is a buffer that exists, so that it does not
\* wrap around; malloc() aligns it.  at has the descriptors by their offsets;
\* what is read at any other offset is the descriptor other.
IsImage(i) ==
  /\ i.data \in Words /\ i.length \in Words
  /\ i.data + i.length < WORD
  /\ i.data % ALIGN = 0
  /\ i.h \in Header
  /\ i.hash_matches \in BOOLEAN /\ i.signature_matches \in BOOLEAN
  /\ \A o \in DOMAIN i.at : i.at[o] \in Desc
  /\ i.other \in Desc

ASSUME ImagesAssumption == \A i \in Images : IsImage(i)

DescAt(i, o) == IF o \in DOMAIN i.at THEN i.at[o] ELSE i.other
-----------------------------------------------------------------------------
(***************************************************************************)
(* Arithmetic of words                                                     *)
(***************************************************************************)

\* The sum of two words, without its carry.
Sum(a, b) == IF a + b < WORD THEN a + b ELSE a + b - WORD

\* avb_safe_add() and avb_safe_add_to(): whether the sum is the true one.
SafeAdd(a, b) == Sum(a, b) >= a
-----------------------------------------------------------------------------
(***************************************************************************)
(* avb_vbmeta_image_verify()                                               *)
(***************************************************************************)

\* Defect: the sizes are added without looking at the carry.
BlocksFitUnchecked(i) ==
  LET authenticated == Sum(HEADER_SIZE, i.h.authentication_data_block_size)
  IN Sum(authenticated, i.h.auxiliary_data_block_size) <= i.length

\* Header, authentication block and auxiliary block are in the image.
BlocksFit(i) ==
  LET authenticated == Sum(HEADER_SIZE, i.h.authentication_data_block_size)
  IN /\ SafeAdd(HEADER_SIZE, i.h.authentication_data_block_size)
     /\ SafeAdd(authenticated, i.h.auxiliary_data_block_size)
     /\ Sum(authenticated, i.h.auxiliary_data_block_size) <= i.length

\* A part of a block is in it.
InBlock(offset, size, block) ==
  SafeAdd(offset, size) /\ Sum(offset, size) <= block

LayoutValid(i) ==
  LET h == i.h
  IN /\ h.release_nul
     /\ h.authentication_data_block_size % BLOCK = 0
     /\ h.auxiliary_data_block_size % BLOCK = 0
     /\ BlocksFit(i)
     /\ SafeAdd(i.data, i.length)
     /\ InBlock(h.hash_offset, h.hash_size, h.authentication_data_block_size)
     /\ InBlock(h.signature_offset, h.signature_size, h.authentication_data_block_size)
     /\ InBlock(h.public_key_offset, h.public_key_size, h.auxiliary_data_block_size)
     /\ h.public_key_metadata_size > 0 =>
          InBlock(h.public_key_metadata_offset, h.public_key_metadata_size,
                  h.auxiliary_data_block_size)

VBMetaVerify(i) ==
  LET h == i.h
  IN IF i.length < HEADER_SIZE \/ ~h.magic THEN "INVALID_VBMETA_HEADER"
     ELSE IF ~h.supported THEN "UNSUPPORTED_VERSION"
     ELSE IF ~LayoutValid(i) THEN "INVALID_VBMETA_HEADER"
     ELSE IF h.algorithm_type = "NONE" THEN "OK_NOT_SIGNED"
     ELSE IF h.algorithm_type \notin DOMAIN HASH_LEN THEN "INVALID_VBMETA_HEADER"
     ELSE IF h.hash_size # HASH_LEN[h.algorithm_type] THEN "INVALID_VBMETA_HEADER"
     ELSE IF ~i.hash_matches THEN "HASH_MISMATCH"
     ELSE IF ~i.signature_matches THEN "SIGNATURE_MISMATCH"
     ELSE "OK"

\* The verdicts after which load_and_verify_vbmeta() may go on to the
\* descriptors, the last two on a device that allows verification errors.
Parsed == {"OK", "OK_NOT_SIGNED", "HASH_MISMATCH", "SIGNATURE_MISMATCH"}
Verdicts == Parsed \union {"NONE", "INVALID_VBMETA_HEADER", "UNSUPPORTED_VERSION"}
-----------------------------------------------------------------------------
(***************************************************************************)
(* The validation of descriptors                                           *)
(***************************************************************************)

\* Defect: the parts are added up without looking at the carry.
ContentsFitUnchecked(d) ==
  Sum(Sum(Sum(FIXED[d.tag] - DESCRIPTOR_SIZE, d.len[1]), d.len[2]), d.len[3])
    <= d.num_bytes_following

\* The struct and the parts after it are in the descriptor.
ContentsFit(d) ==
  LET fixed == FIXED[d.tag] - DESCRIPTOR_SIZE
      first == Sum(fixed, d.len[1])
      second == Sum(first, d.len[2])
  IN /\ SafeAdd(fixed, d.len[1]) /\ SafeAdd(first, d.len[2]) /\ SafeAdd(second, d.len[3])
     /\ Sum(second, d.len[3]) <= d.num_bytes_following

\* avb_descriptor_validate_and_byteswap()
DescriptorValid(d) == d.num_bytes_following % ALIGN = 0

HashDescriptorValid(d) == DescriptorValid(d) /\ d.tag = "hash" /\ ContentsFit(d)
HashtreeDescriptorValid(d) == DescriptorValid(d) /\ d.tag = "hashtree" /\ ContentsFit(d)
CmdlineDescriptorValid(d) == DescriptorValid(d) /\ d.tag = "cmdline" /\ ContentsFit(d)
PropertyDescriptorValid(d) == DescriptorValid(d) /\ d.tag = "property" /\ ContentsFit(d)
ChainDescriptorValid(d) ==
  /\ DescriptorValid(d) /\ d.tag = "chain"
  /\ d.rollback_index_location >= 1
  /\ ContentsFit(d)
-----------------------------------------------------------------------------
VARIABLES
  image,      \* the image in memory
  pc,         \* where the code is
  verdict,    \* the result of avb_vbmeta_image_verify()
  pubkey,     \* the address and the size of the key it returns; empty for none
  cb,         \* which callback avb_descriptor_foreach() was given
  p,          \* its pointer into the descriptors
  ret,        \* what it returned last
  num,        \* num_descriptors of avb_descriptor_get_all()
  table,      \* the array it fills, as offsets into the image
  wanted,     \* the key avb_property_lookup() looks for
  value       \* the pointer it returns, as an offset; see below

vars == <<image, pc, verdict, pubkey, cb, p, ret, num, table, wanted, value>>

\* Two values of it that are no offsets: NULL, and a variable of
\* avb_property_lookup() that was never assigned.
NotFound == WORD
Uninitialized == WORD + 1

Init ==
  /\ image \in Images /\ pc = "verify" /\ verdict = "NONE" /\ pubkey = <<>> /\ cb = "count"
  /\ p = 0 /\ ret = FALSE /\ num = 0 /\ table = <<>>
  /\ wanted = "" /\ value = NotFound

AuxiliaryBlock ==
  Sum(Sum(image.data, HEADER_SIZE), image.h.authentication_data_block_size)

Verify ==
  /\ pc = "verify"
  /\ verdict' = VBMetaVerify(image)
  /\ pubkey' = IF verdict' = "OK" /\ image.h.public_key_size > 0
               THEN <<Sum(AuxiliaryBlock, image.h.public_key_offset), image.h.public_key_size>>
               ELSE <<>>
  /\ pc' = IF verdict' \in Parsed THEN "ready" ELSE "done"
  /\ UNCHANGED <<image, cb, p, ret, num, table, wanted, value>>

\* A caller of avb_descriptor_get_all(): descriptors are counted first.
GetAll ==
  /\ pc = "ready"
  /\ cb' = "count" /\ num' = 0 /\ pc' = "begin"
  /\ UNCHANGED <<image, verdict, pubkey, p, ret, table, wanted, value>>

\* A caller of avb_property_lookup().
Lookup(key) ==
  /\ pc = "ready"
  /\ cb' = "lookup" /\ pc' = "begin"
  /\ wanted' = key /\ value' = Uninitialized
  /\ UNCHANGED <<image, verdict, pubkey, p, ret, num, table>>
-----------------------------------------------------------------------------
(***************************************************************************)
(* avb_descriptor_foreach()                                                *)
(***************************************************************************)
ImageEnd == Sum(image.data, image.length)
DescStart == Sum(AuxiliaryBlock, image.h.descriptors_offset)
DescEnd == Sum(DescStart, image.h.descriptors_size)

\* Defect: nobody looks for a start that wrapped around.
RegionInsideFromZero ==
  /\ image.length >= HEADER_SIZE /\ image.h.magic
  /\ DescStart <= ImageEnd /\ DescEnd <= ImageEnd
  /\ DescStart <= DescEnd

RegionInside ==
  /\ image.length >= HEADER_SIZE /\ image.h.magic
  /\ image.data <= DescStart /\ DescStart <= ImageEnd
  /\ image.data <= DescEnd /\ DescEnd <= ImageEnd
  /\ DescStart <= DescEnd

\* The return to the caller: avb_descriptor_get_all() does not look at the
\* result and goes on, avb_property_lookup() takes FALSE for "found".
Return(result) ==
  /\ ret' = result
  /\ pc' = IF cb = "count" THEN "allocate" ELSE "done"
  /\ value' = IF cb = "lookup" /\ result THEN NotFound ELSE value

BeginFails ==
  /\ pc = "begin" /\ ~RegionInside
  /\ Return(FALSE)
  /\ UNCHANGED <<image, verdict, pubkey, cb, p, num, table, wanted>>

Begin ==
  /\ pc = "begin" /\ RegionInside
  /\ p' = DescStart /\ pc' = "loop"
  /\ UNCHANGED <<image, verdict, pubkey, cb, ret, num, table, wanted, value>>

\* The descriptor at p, and its size with its header.
Here == DescAt(image, p - image.data)
Total == Sum(DESCRIPTOR_SIZE, Here.num_bytes_following)

\* Defect: the end of a descriptor is not compared with the end of them all.
LengthValidOpen ==
  /\ SafeAdd(DESCRIPTOR_SIZE, Here.num_bytes_following)
  /\ Total % ALIGN = 0
  /\ DescStart <= Sum(Total, p)

LengthValid ==
  /\ SafeAdd(DESCRIPTOR_SIZE, Here.num_bytes_following)
  /\ Total % ALIGN = 0
  /\ DescStart <= Sum(Total, p) /\ Sum(Total, p) <= DescEnd

Finish ==
  /\ pc = "loop" /\ p >= DescEnd
  /\ Return(TRUE)
  /\ UNCHANGED <<image, verdict, pubkey, cb, p, num, table, wanted>>

\* avb_assert_aligned(dh) stops the program.
Misaligned ==
  /\ pc = "loop" /\ p < DescEnd /\ p % ALIGN # 0
  /\ pc' = "aborted"
  /\ UNCHANGED <<image, verdict, pubkey, cb, p, ret, num, table, wanted, value>>

LengthFails ==
  /\ pc = "loop" /\ p < DescEnd /\ p % ALIGN = 0 /\ ~LengthValid
  /\ Return(FALSE)
  /\ UNCHANGED <<image, verdict, pubkey, cb, p, num, table, wanted>>

\* Defect: the pointer may wrap around.
AdvanceUnchecked ==
  /\ p' = Sum(p, Total)
  /\ UNCHANGED <<pc, ret, value>>

\* After the callback the pointer moves on.
Advance ==
  \/ /\ SafeAdd(p, Total)
     /\ p' = Sum(p, Total)
     /\ UNCHANGED <<pc, ret, value>>
  \/ /\ ~SafeAdd(p, Total)
     /\ UNCHANGED p
     /\ Return(FALSE)

\* Defect: descriptors of a type that is not known are not counted.
CountKnown ==
  /\ cb = "count"
  /\ num' = IF Here.tag = "unknown" THEN num ELSE num + 1
  /\ Advance
  /\ UNCHANGED table

Count == cb = "count" /\ num' = num + 1 /\ Advance /\ UNCHANGED table

Set ==
  /\ cb = "set" /\ table' = Append(table, p - image.data)
  /\ Advance
  /\ UNCHANGED num

\* property_lookup_desc_foreach(): the descriptor has the key.
Matches(d) ==
  d.tag = "property" /\ PropertyDescriptorValid(d) /\ d.nul /\ d.key = wanted

Examine ==
  /\ cb = "lookup"
  /\ \/ ~Matches(Here) /\ Advance
     \/ /\ Matches(Here)
        /\ value' = (p - image.data) + FIXED["property"] - 1 + Here.len[1]
        /\ ret' = FALSE /\ pc' = "done" /\ UNCHANGED p
  /\ UNCHANGED <<num, table>>

Call ==
  /\ pc = "loop" /\ p < DescEnd /\ p % ALIGN = 0 /\ LengthValid
  /\ Count \/ Set \/ Examine
  /\ UNCHANGED <<image, verdict, pubkey, cb, wanted>>
-----------------------------------------------------------------------------
(***************************************************************************)
(* avb_descriptor_get_all(), between and after the two walks               *)
(***************************************************************************)
Allocate ==
  /\ pc = "allocate"
  /\ cb' = "set" /\ table' = <<>> /\ pc' = "begin"
  /\ UNCHANGED <<image, verdict, pubkey, p, ret, num, wanted, value>>

AllocateFails ==
  /\ pc = "allocate"
  /\ ret' = FALSE /\ pc' = "done"
  /\ UNCHANGED <<image, verdict, pubkey, cb, p, num, table, wanted, value>>

\* The caller has done with the image.
Terminated == pc \in {"done", "aborted"} /\ UNCHANGED vars

Step ==
  \/ Verify \/ BeginFails \/ Begin \/ Finish \/ Misaligned \/ LengthFails
  \/ Call \/ Allocate \/ AllocateFails

Next == Step \/ GetAll \/ (\E key \in Keys : Lookup(key)) \/ Terminated

Spec == Init /\ [][Next]_vars /\ WF_vars(Step)
-----------------------------------------------------------------------------
\* Every variable has a value the code can give it.
TypeOK ==
  /\ IsImage(image)
  /\ pc \in {"verify", "ready", "begin", "loop", "allocate", "done", "aborted"}
  /\ verdict \in Verdicts
  /\ pubkey \in Seq(Words)
  /\ cb \in {"count", "set", "lookup"}
  /\ p \in Words
  /\ ret \in BOOLEAN
  /\ num \in Nat
  /\ table \in Seq(Nat)
  /\ wanted \in Keys \union {""}
  /\ value \in Nat

\* Whatever numbers the header holds, if avb_vbmeta_image_verify() lets the
\* image pass then its blocks, and the hash, the signature, the key and the
\* metadata in them, are in the buffer, sums taken without wrapping around:
\* "no overflow checks needed from here-on".  A key that is handed out is
\* that of an image whose signature matches, and lies in the buffer.
AcceptedInside ==
  LET h == image.h
  IN /\ pubkey # <<>> =>
          /\ verdict = "OK" /\ image.signature_matches
          /\ image.data <= pubkey[1]
          /\ pubkey[1] + pubkey[2] <= image.data + image.length
     /\ verdict \in Parsed =>
          /\ HEADER_SIZE + h.authentication_data_block_size
               + h.auxiliary_data_block_size <= image.length
          /\ h.hash_offset + h.hash_size <= h.authentication_data_block_size
          /\ h.signature_offset + h.signature_size <= h.authentication_data_block_size
          /\ h.public_key_offset + h.public_key_size <= h.auxiliary_data_block_size
          /\ h.public_key_metadata_size > 0 =>
               h.public_key_metadata_offset + h.public_key_metadata_size
                 <= h.auxiliary_data_block_size

\* The true size of the descriptor at offset o, and where it ends.
EndOf(o) == o + DESCRIPTOR_SIZE + DescAt(image, o).num_bytes_following

Walked == cb = "set" /\ pc = "done" /\ ret

\* The array of avb_descriptor_get_all() holds descriptors that follow each
\* other without gaps, the first at the beginning; if the walk returned true
\* the last one ends where the descriptors end, inside of the image.  (When it
\* returned false only the descriptors before the last one are known to be
\* whole.)
WalkSound ==
  /\ \A i \in 1 .. Len(table) - 1 : table[i + 1] = EndOf(table[i])
  /\ table # <<>> => image.data + table[1] = DescStart
  /\ Walked /\ table # <<>> =>
       /\ image.data + EndOf(table[Len(table)]) = DescEnd
       /\ EndOf(table[Len(table)]) <= image.length
  /\ Walked /\ table = <<>> => DescStart = DescEnd

\* A descriptor that was validated as what it is.
Validated(d) ==
  \/ HashDescriptorValid(d) \/ HashtreeDescriptorValid(d) \/ CmdlineDescriptorValid(d)
  \/ PropertyDescriptorValid(d) \/ ChainDescriptorValid(d)

\* After a walk that returned true, name, salt, digest, key, value and command
\* line of every descriptor that its validator accepts are in the image,
\* whatever lengths it claims.
ContentsInside ==
  Walked => \A i \in 1 .. Len(table) :
    LET d == DescAt(image, table[i])
    IN Validated(d) =>
         table[i] + FIXED[d.tag] + d.len[1] + d.len[2] + d.len[3] <= image.length

\* The second walk finds as many descriptors as were counted, also when both
\* end early: the assertion in avb_descriptor_get_all(), and never more than
\* there is room for in between.
TwoPassesAgree ==
  cb = "set" => /\ Len(table) <= num
                /\ pc = "done" => Len(table) = num

\* A walk ends, whatever the lengths of the descriptors: each step of it moves
\* the pointer on, and it cannot wrap around.
Terminates == pc \in {"verify", "begin", "loop", "allocate"} ~> pc \in {"ready", "done", "aborted"}
=============================================================================
