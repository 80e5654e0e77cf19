----------------------------- MODULE HashFooter -----------------------------
(***************************************************************************)
(* Signing an image file with an AVB hash footer (avb/Avb.kt).             *)
(*                                                                         *)
(* addHashFooter() turns the image into                                    *)
(*                                                                         *)
(*   image | padding | vbmeta blob | padding | DON'T CARE | block: footer  *)
(*                                                                         *)
(* by four appending writes to the file itself, after a footer left by an  *)
(* earlier call has been cut off.  The process can die or run out of disk  *)
(* between and within the writes, and the function can be called again on  *)
(* whatever is then in the file.  Sizes are real byte counts.              *)
(***************************************************************************)
EXTENDS Integers

CONSTANTS Data,            \* the contents of images, wherever no piece below lies
          Images,          \* the image files to start from
          PartitionSizes,  \* the partition_size arguments
          BlobSizes,       \* the sizes packVbMeta() may return
          Cuts,            \* how many bytes an interrupted write gets done
          INT_MAX,         \* the largest Int
          MaxCalls

BLOCK_SIZE == 4096
MAX_VBMETA_SIZE == 65536
MAX_FOOTER_SIZE == 4096
FOOTER_SIZE == 64

\* What a reader can recognise in a file.  A footer has the fields of the
\* class Footer; in a vbmeta blob 'orig' is the image_size of its hash
\* descriptor.  'call' is the call that wrote it, 0 for a foreign tool.
Piece == [kind : {"vbmeta", "footer"}, size : Nat \ {0}, call : Nat,
          orig : Nat, vbmetaOffset : Nat, vbmetaSize : Nat]

\* A file: its length, the pieces in it by their offset, and for the rest
\* its contents.
IsFile(f) ==
  /\ f = [data |-> f.data, len |-> f.len, at |-> f.at]
  /\ f.data \in Data /\ f.len \in Nat
  /\ DOMAIN f.at \subseteq Nat /\ f.at = [o \in DOMAIN f.at |-> f.at[o]]
  /\ \A o \in DOMAIN f.at : f.at[o] \in Piece /\ o + f.at[o].size <= f.len

ASSUME FooterAssumption ==
  /\ \A f \in Images : /\ IsFile(f)
                       /\ \A o \in DOMAIN f.at : f.at[o].call = 0
  /\ PartitionSizes \subseteq Nat /\ BlobSizes \subseteq Nat \ {0} /\ Cuts \subseteq Nat /\ 0 \in Cuts
  /\ INT_MAX \in Nat /\ MaxCalls \in Nat

VARIABLES file,      \* the file image_file
          calls,     \* the number of calls so far
          hashed,    \* hashed[c] is the file the digest of call c was computed from
          given,     \* the file as the current call found it
          psize,     \* its argument partition_size
          blob,      \* vbmetaBlob.size
          pc

vars == <<file, calls, hashed, given, psize, blob, pc>>
-----------------------------------------------------------------------------
\* Helper.round_to_multiple(size, BLOCK_SIZE)
RoundUp(size) ==
  IF size % BLOCK_SIZE = 0 THEN size ELSE size + BLOCK_SIZE - (size % BLOCK_SIZE)

\* Long.toInt()
ToInt(n) == ((n + INT_MAX + 1) % (2 * (INT_MAX + 1))) - (INT_MAX + 1)

\* The footer in the last bytes of a file.
HasFooter(f) ==
  /\ f.len - FOOTER_SIZE \in DOMAIN f.at
  /\ f.at[f.len - FOOTER_SIZE].kind = "footer"
FooterOf(f) == f.at[f.len - FOOTER_SIZE]

\* FileChannel.truncate(): a size beyond the end changes nothing.
Cut(f, n) ==
  IF n >= f.len THEN f
  ELSE LET kept == {o \in DOMAIN f.at : o + f.at[o].size <= n}
       IN [data |-> f.data, len |-> n, at |-> [o \in kept |-> f.at[o]]]

\* Bytes appended to a file: nothing recognisable, or a piece with offset o.
Grow(f, n) == [data |-> f.data, len |-> f.len + n, at |-> f.at]
Put(f, n, o, p) ==
  [data |-> f.data, len |-> f.len + n,
   at |-> [x \in DOMAIN f.at \union {o} |-> IF x = o THEN p ELSE f.at[x]]]

\* Defect: the footer's own block is forgotten.
ImageSizeOKNoFooter(p, size) ==
  LET maxMetadataSize == MAX_VBMETA_SIZE
  IN /\ p >= maxMetadataSize
     /\ p % BLOCK_SIZE = 0
     /\ size <= p - maxMetadataSize

\* imageSizeCheck() throws nothing.
ImageSizeOK(p, size) ==
  LET maxMetadataSize == MAX_VBMETA_SIZE + MAX_FOOTER_SIZE
  IN /\ p >= maxMetadataSize
     /\ p % BLOCK_SIZE = 0
     /\ size <= p - maxMetadataSize

\* newImageSize and what follows from it.
NewImageSize == hashed[calls].len
VBMetaOffset == RoundUp(NewImageSize)
VBMetaEndOffset == VBMetaOffset + RoundUp(blob)
DontCareChunkSize == psize - VBMetaEndOffset - BLOCK_SIZE
-----------------------------------------------------------------------------
Init ==
  /\ file \in Images /\ given = file
  /\ calls = 0 /\ hashed = [c \in {} |-> file]
  /\ psize = 0 /\ blob = 0 /\ pc = "idle"

Idle == pc \in {"idle", "done", "rejected", "failed"}

\* The user, or Signer.sign() with its copyTo(), puts another image in place.
Replace(f) ==
  /\ Idle /\ calls < MaxCalls
  /\ file' = f /\ pc' = "idle"
  /\ UNCHANGED <<calls, hashed, given, psize, blob>>

\* addHashFooter() up to imageSizeCheck().
Call(p, b) ==
  /\ Idle /\ calls < MaxCalls
  /\ psize' = p /\ blob' = b /\ given' = file
  /\ pc' = IF ImageSizeOK(p, file.len) THEN "trim" ELSE "rejected"
  /\ UNCHANGED <<file, calls, hashed>>

\* Defect: the file is cut off where the vbmeta blob starts.
TrimmedAtVBMeta(f) == IF HasFooter(f) THEN Cut(f, FooterOf(f).vbmetaOffset) ELSE f

Trimmed(f) == IF HasFooter(f) THEN Cut(f, FooterOf(f).orig) ELSE f

\* Defect: the digest is computed from the file as it was found.
TrimFooterLate ==
  /\ pc = "trim"
  /\ file' = Trimmed(file)
  /\ calls' = calls + 1
  /\ hashed' = [c \in 1 .. calls + 1 |-> IF c = calls + 1 THEN file ELSE hashed[c]]
  /\ pc' = "pad"
  /\ UNCHANGED <<given, psize, blob>>

\* trimFooter(), and the hash descriptor's update() from what is left.
\* Skipping to 64 bytes before the end of a shorter file is an IOException.
TrimFooter ==
  /\ pc = "trim" /\ file.len >= FOOTER_SIZE
  /\ file' = Trimmed(file)
  /\ calls' = calls + 1
  /\ hashed' = [c \in 1 .. calls + 1 |-> IF c = calls + 1 THEN Trimmed(file) ELSE hashed[c]]
  /\ pc' = "pad"
  /\ UNCHANGED <<given, psize, blob>>

\* 1/4 Padding image
PadImage ==
  /\ pc = "pad"
  /\ file' = Grow(file, VBMetaOffset - NewImageSize)
  /\ pc' = "vbmeta"
  /\ UNCHANGED <<calls, hashed, given, psize, blob>>

\* 2/4 Appending vbmeta
AppendVBMeta ==
  /\ pc = "vbmeta"
  /\ file' = Put(file, RoundUp(blob), file.len,
                 [kind |-> "vbmeta", size |-> RoundUp(blob), call |-> calls,
                  orig |-> NewImageSize, vbmetaOffset |-> 0, vbmetaSize |-> blob])
  /\ pc' = "chunk"
  /\ UNCHANGED <<calls, hashed, given, psize, blob>>

\* Defect: the file is set to its new length, which may be less.
AppendChunkAnySize ==
  /\ pc = "chunk"
  /\ file' = Grow(file, ToInt(DontCareChunkSize))
  /\ pc' = "footer"
  /\ UNCHANGED <<calls, hashed, given, psize, blob>>

\* 3/4 Appending DONT CARE CHUNK; an array of negative size is an exception.
AppendChunk ==
  /\ pc = "chunk" /\ ToInt(DontCareChunkSize) >= 0
  /\ file' = Grow(file, ToInt(DontCareChunkSize))
  /\ pc' = "footer"
  /\ UNCHANGED <<calls, hashed, given, psize, blob>>

NegativeChunk ==
  /\ pc = "chunk" /\ ToInt(DontCareChunkSize) < 0
  /\ pc' = "failed"
  /\ UNCHANGED <<file, calls, hashed, given, psize, blob>>

\* 4/4 Appending AVB footer, at the end of its block
AppendFooter ==
  /\ pc = "footer"
  /\ file' = Put(file, BLOCK_SIZE, file.len + BLOCK_SIZE - FOOTER_SIZE,
                 [kind |-> "footer", size |-> FOOTER_SIZE, call |-> calls,
                  orig |-> NewImageSize, vbmetaOffset |-> VBMetaOffset, vbmetaSize |-> blob])
  /\ pc' = "done"
  /\ UNCHANGED <<calls, hashed, given, psize, blob>>

\* The bytes of the write that comes next.
WriteSize ==
  CASE pc = "pad"    -> VBMetaOffset - NewImageSize
    [] pc = "vbmeta" -> RoundUp(blob)
    [] pc = "chunk"  -> IF ToInt(DontCareChunkSize) < 0 THEN 0 ELSE ToInt(DontCareChunkSize)
    [] pc = "footer" -> BLOCK_SIZE
    [] OTHER -> 0

\* The process dies, the disk is full, or the vbmeta blob cannot be made:
\* the write that was due is done in part or not at all.
Interrupt(n) ==
  /\ pc \in {"trim", "pad", "vbmeta", "chunk", "footer"}
  /\ n = 0 \/ n < WriteSize
  /\ file' = Grow(file, n)
  /\ pc' = "failed"
  /\ UNCHANGED <<calls, hashed, given, psize, blob>>

Next ==
  \/ \E f \in Images : Replace(f)
  \/ \E p \in PartitionSizes, b \in BlobSizes : Call(p, b)
  \/ TrimFooter \/ PadImage \/ AppendVBMeta \/ AppendChunk \/ NegativeChunk \/ AppendFooter
  \/ \E n \in Cuts : Interrupt(n)

Spec == Init /\ [][Next]_vars
-----------------------------------------------------------------------------
TypeOK ==
  /\ IsFile(file) /\ IsFile(given)
  /\ calls \in Nat /\ DOMAIN hashed = 1 .. calls
  /\ \A c \in 1 .. calls : IsFile(hashed[c])
  /\ psize \in Nat /\ blob \in Nat
  /\ pc \in {"idle", "trim", "pad", "vbmeta", "chunk", "footer", "done", "rejected", "failed"}

\* The vbmeta blob a reader of the footer p finds in f belongs to the same
\* call, and is about exactly the bytes that the footer calls the image.
Sound(f, p) ==
  /\ p.vbmetaOffset \in DOMAIN f.at /\ p.vbmetaOffset % BLOCK_SIZE = 0
  /\ p.orig <= p.vbmetaOffset
  /\ LET v == f.at[p.vbmetaOffset]
     IN /\ v.kind = "vbmeta" /\ v.call = p.call /\ v.orig = p.orig
        /\ v.vbmetaSize = p.vbmetaSize /\ p.vbmetaSize <= v.size
        /\ p.vbmetaOffset + v.size + BLOCK_SIZE <= f.len
  /\ hashed[p.call] = Cut(f, p.orig)

\* Whatever calls were interrupted, and wherever: a file that ends in a footer
\* written by addHashFooter() is completely signed.
FooterSound == HasFooter(file) /\ FooterOf(file).call # 0 => Sound(file, FooterOf(file))

\* The size fits an Int, and the vbmeta blob the room that is kept for it.
Moderate == psize <= INT_MAX /\ blob <= MAX_VBMETA_SIZE

\* Once imageSizeCheck() has passed, image, blob and footer fit into the
\* partition, and the result fills it exactly.
FillsPartition ==
  Moderate => /\ pc = "chunk" => DontCareChunkSize >= 0
              /\ pc = "done" => HasFooter(file) /\ file.len = psize

\* Signing a signed image again, for another partition, signs the same image.
SignsSameImage ==
  pc = "done" /\ HasFooter(given) /\ FooterOf(given).call # 0 =>
    hashed[calls] = hashed[FooterOf(given).call]

\* "truncate AVB footer if there is. Then addHashFooter() is idempotent":
\* a call is not rejected because the same call was made before.
Idempotent ==
  pc = "rejected" => ~(HasFooter(given) /\ FooterOf(given).call # 0 /\ given.len = psize)
=============================================================================
