---------------------------- MODULE SparseFormat ----------------------------
(***************************************************************************)
(* Sparse images in memory and on disk (libsparse): what the reader makes  *)
(* of a file, which chunks the writer emits for a list of backed blocks,   *)
(* and how a list is cut into pieces of a given file size.                 *)
(*                                                                         *)
(* Sizes are bytes.  The contents of a block of the image is one value; a  *)
(* block is uniform when all its 32-bit words are equal.  The list of      *)
(* backed blocks is the sequence of its cells, the order BackedBlocks      *)
(* shows the links to have.                                                *)
(***************************************************************************)
EXTENDS Integers, Sequences, FiniteSets, SequencesExt

CONSTANTS BlockSize,
          Contents,    \* what a block can contain
          Uniform,     \* the values of uniform blocks
          Zero,        \* the block of zeros
          Missing,     \* a block cut off the end of a file
          Wrap         \* 2^32

\* img2simg takes no smaller blocks.
ASSUME FormatAssumption ==
  /\ BlockSize \in Nat /\ BlockSize >= 1024 /\ Wrap \in Nat \ {0}
  /\ Uniform \subseteq Contents /\ Zero \in Contents /\ Missing \in Contents

SPARSE_HEADER_LEN == 28
CHUNK_HEADER_LEN == 12

DivRoundUp(n) == (n + BlockSize - 1) \div BlockSize
AlignDown(n) == n - (n % BlockSize)

Opt(cond, x) == IF cond THEN <<x>> ELSE <<>>
-----------------------------------------------------------------------------
(* Lists of backed blocks.  'data' is what the block expands to.           *)

\* merge_bb
CanMerge(a, b) ==
  /\ a.type = b.type
  /\ a.block + a.len \div BlockSize = b.block
  /\ a.src = b.src
  /\ a.type # "fill" => a.off + a.len = b.off

Merged(a, b) == [a EXCEPT !.len = (@ + b.len) % Wrap, !.data = @ \o b.data]

\* Merges cell i with the cell behind it.
MergeAt(l, i) ==
  IF i \in 1 .. Len(l) - 1 /\ CanMerge(l[i], l[i+1])
  THEN SubSeq(l, 1, i - 1) \o <<Merged(l[i], l[i+1])>> \o SubSeq(l, i + 2, Len(l))
  ELSE l

\* queue_bb: never in front of a head that starts at the same block, and not
\* merged when it becomes the head.
Queue(l, x) ==
  LET lower == Cardinality({i \in 1 .. Len(l) : l[i].block < x.block})
      k == IF lower > 0 \/ l = <<>> \/ l[1].block > x.block THEN lower ELSE 1
  IN  IF k = 0 THEN <<x>> \o l
      ELSE MergeAt(MergeAt(InsertAt(l, k + 1, x), k + 1), k)

Fill(block, len, v) ==
  [block |-> block, len |-> len, type |-> "fill", src |-> v, off |-> 0,
   data |-> [i \in 1 .. DivRoundUp(len) |-> v]]

Fd(block, len, fd, off, data) ==
  [block |-> block, len |-> len, type |-> "fd", src |-> fd, off |-> off, data |-> data]

\* backed_block_split: one or two cells in the place of bb.
SplitBb(bb, max) ==
  LET k == AlignDown(max)
      n == k \div BlockSize
  IN  IF bb.len <= k THEN <<bb>>
      ELSE <<[bb EXCEPT !.len = k, !.data = SubSeq(@, 1, n)],
             [bb EXCEPT !.len = @ - k, !.block = @ + n, !.data = SubSeq(@, n + 1, Len(@)),
                        !.off = IF bb.type = "fill" THEN @ ELSE @ + k]>>

\* Defect: always in front of the list.
ListMoveInFront(from, to) == from \o to

\* backed_block_list_move of the whole of 'from'.
ListMove(from, to) ==
  LET after == {i \in 1 .. Len(to) : i = Len(to) \/ to[i+1].block > from[1].block}
      p == CHOOSE i \in after : \A j \in after : i <= j
  IN  IF from = <<>> THEN to
      ELSE IF to = <<>> THEN from
      ELSE SubSeq(to, 1, p) \o from \o SubSeq(to, p + 1, Len(to))

\* The block behind cell i, and whether there is a gap in front of it.
EndBlock(l, i) == IF i = 0 THEN 0 ELSE l[i].block + DivRoundUp(l[i].len)
Gap(l, i) == l[i].block > EndBlock(l, i - 1)
-----------------------------------------------------------------------------
(* Writing.                                                                *)

\* Defect: the skips in front of blocks are not counted.
CountChunksNoGaps(s) ==
  Len(s.bbs) + Len(Opt(EndBlock(s.bbs, Len(s.bbs)) < DivRoundUp(s.len), "skip"))

\* sparse_count_chunks
CountChunks(s) ==
  LET l == s.bbs
  IN  Cardinality({i \in 1 .. Len(l) : Gap(l, i)}) + Len(l)
        + Len(Opt(EndBlock(l, Len(l)) < DivRoundUp(s.len), "skip"))

\* A call of write_skip_chunk: the number of bytes to skip.
Skip(n) == [type |-> "skip", len |-> n]

\* write_all_blocks: the chunks it writes, in order.
AllBlocks(s) ==
  LET l == s.bbs
      pad == s.len - EndBlock(l, Len(l)) * BlockSize
      gap(i) == Skip((l[i].block - EndBlock(l, i - 1)) * BlockSize)
      ops[i \in 0 .. Len(l)] == IF i = 0 THEN <<>> ELSE ops[i-1] \o Opt(Gap(l, i), gap(i)) \o <<l[i]>>
  IN  ops[Len(l)] \o Opt(pad > 0, Skip(pad))

\* output_file_init: the file header of the sparse format.
Header(s) ==
  [type |-> "header", total_blks |-> DivRoundUp(s.len), total_chunks |-> CountChunks(s),
   size |-> SPARSE_HEADER_LEN]

\* write_sparse_skip_chunk, _fill_chunk, _data_chunk: the chunk on disk.
SkipChunk(op) ==
  [type |-> "skip", chunk_sz |-> op.len \div BlockSize, data |-> <<>>, size |-> CHUNK_HEADER_LEN]
FillChunk(op) ==
  [type |-> "fill", chunk_sz |-> DivRoundUp(op.len), data |-> <<op.src>>,
   size |-> CHUNK_HEADER_LEN + 4]
DataChunk(op) ==
  [type |-> "raw", chunk_sz |-> DivRoundUp(op.len), data |-> op.data,
   size |-> CHUNK_HEADER_LEN + DivRoundUp(op.len) * BlockSize]

Chunk(op) ==
  CASE op.type = "skip" -> SkipChunk(op)
    [] op.type = "fill" -> FillChunk(op)
    [] op.type = "fd"   -> DataChunk(op)

\* write_sparse_end_chunk, when a crc was asked for; the tools never do.
CrcChunk == [type |-> "crc32", chunk_sz |-> 0, data |-> <<>>, size |-> CHUNK_HEADER_LEN + 4]

\* A skip that is no multiple of the block size is refused, the others are not.
Writable(op) == op.type = "skip" => op.len % BlockSize = 0

\* What write_fd_chunk reads through the mapping: behind the end of the file
\* the rest of the page is zeros (and the next page a SIGBUS).
Mapped(data) == [i \in DOMAIN data |-> IF data[i] = Missing THEN Zero ELSE data[i]]

\* sparse_file_len, and the size of a file on disk.
FileSize(items) ==
  LET size[i \in 0 .. Len(items)] == IF i = 0 THEN 0 ELSE size[i-1] + items[i].size
  IN  size[Len(items)]
-----------------------------------------------------------------------------
(* Reading.                                                                *)

\* sparse_file_read_normal: a block that is full and uniform becomes a fill.
ReadNormal(raw, fd) ==
  LET to_read(i) == IF i * BlockSize <= raw.len THEN BlockSize ELSE raw.len % BlockSize
      block(i) == IF to_read(i) = BlockSize /\ raw.blocks[i] \in Uniform
                  THEN Fill(i - 1, to_read(i), raw.blocks[i])
                  ELSE Fd(i - 1, to_read(i), fd, (i - 1) * BlockSize, <<raw.blocks[i]>>)
      bbs[i \in 0 .. Len(raw.blocks)] == IF i = 0 THEN <<>> ELSE Queue(bbs[i-1], block(i))
  IN  [len |-> raw.len, bbs |-> bbs[Len(raw.blocks)]]

\* process_chunk: adds chunk c at block cur, its data at offset off of fd.
ProcessRaw(l, c, cur, fd, off) == Queue(l, Fd(cur, c.chunk_sz * BlockSize, fd, off, c.data))
ProcessFill(l, c, cur) == Queue(l, Fill(cur, c.chunk_sz * BlockSize, c.data[1]))

ProcessChunk(l, c, cur, fd, off) ==
  CASE c.type = "raw"  -> ProcessRaw(l, c, cur, fd, off)
    [] c.type = "fill" -> ProcessFill(l, c, cur)
    [] c.type \in {"skip", "crc32"} -> l

\* sparse_file_read_sparse and import_source.  Every one of total_chunks must
\* be there, and they must add up to total_blks; that the data of a raw chunk
\* is there is not looked at.  The crc is not compared: the tools pass false.
\* process_chunk does not refuse a chunk of an unknown type: it prints a
\* message, adds no block and takes the bytes that follow for the next header.
\* No tool writes such a chunk; the bytes a broken write leaves ("torn") are
\* the only ones of the model, and a file that needs them for a chunk counts
\* as refused, as the code refuses it when the blocks of that chunk are
\* missing from the total.
IsSparse(f) == f.kind = "sparse" /\ f.items # <<>> /\ f.items[1].type = "header"

ChunksOf(f) == SubSeq(f.items, 2, f.items[1].total_chunks + 1)

\* The blocks of the image, and the bytes of the file, before and with chunk i.
BlocksUpTo(chunks) ==
  LET cur[i \in 0 .. Len(chunks)] == IF i = 0 THEN 0 ELSE cur[i-1] + chunks[i].chunk_sz IN cur
BytesUpTo(chunks) ==
  LET off[i \in 0 .. Len(chunks)] == IF i = 0 THEN SPARSE_HEADER_LEN ELSE off[i-1] + chunks[i].size
  IN  off

Importable(f) ==
  /\ IsSparse(f)
  /\ f.items[1].total_chunks + 1 <= Len(f.items)
  /\ LET chunks == ChunksOf(f)
     IN  /\ \A i \in DOMAIN chunks : chunks[i].type \in {"raw", "fill", "skip", "crc32"}
         /\ BlocksUpTo(chunks)[Len(chunks)] = f.items[1].total_blks

Import(f, fd) ==
  LET chunks == ChunksOf(f)
      bbs[i \in 0 .. Len(chunks)] ==
        IF i = 0 THEN <<>>
        ELSE ProcessChunk(bbs[i-1], chunks[i], BlocksUpTo(chunks)[i-1], fd,
                          BytesUpTo(chunks)[i-1] + CHUNK_HEADER_LEN)
  IN  [len |-> f.items[1].total_blks * BlockSize, bbs |-> bbs[Len(chunks)]]
-----------------------------------------------------------------------------
(* Cutting into pieces.                                                    *)

\* move_chunks_up_to_len: what goes to the piece, what stays, and whether
\* there is more.  'overhead' is the header, the end skip and a crc chunk.
Cost(l, i) == (IF Gap(l, i) THEN CHUNK_HEADER_LEN ELSE 0) + Chunk(l[i]).size

\* The bytes that the first i cells take.
FileLen(l) ==
  LET file_len[i \in 0 .. Len(l)] == IF i = 0 THEN 0 ELSE file_len[i-1] + Cost(l, i) IN file_len

\* Defect: a block that does not fit is never split.
MoveChunksWhole(l, max_len) ==
  LET len == max_len - SPARSE_HEADER_LEN - 2 * CHUNK_HEADER_LEN - 4
      file_len == FileLen(l)
      fit == Cardinality({i \in 1 .. Len(l) : file_len[i] <= len})
  IN  [piece |-> SubSeq(l, 1, fit), rest |-> SubSeq(l, fit + 1, Len(l)), more |-> fit < Len(l)]

MoveChunks(l, max_len) ==
  LET overhead == SPARSE_HEADER_LEN + 2 * CHUNK_HEADER_LEN + 4
      len == (max_len - overhead) % Wrap
      file_len == FileLen(l)
      over == {i \in 1 .. Len(l) : file_len[i] > len}
      j == CHOOSE i \in over : \A k \in over : i <= k
      room == len - (file_len[j-1] + CHUNK_HEADER_LEN)
      cut == IF j = 1 \/ room > len \div 8 THEN SplitBb(l[j], room % Wrap) ELSE <<>>
  IN  IF over = {} THEN [piece |-> l, rest |-> <<>>, more |-> FALSE]
      ELSE IF cut = <<>> THEN [piece |-> SubSeq(l, 1, j - 1), rest |-> SubSeq(l, j, Len(l)), more |-> TRUE]
      ELSE [piece |-> SubSeq(l, 1, j - 1) \o <<cut[1]>>,
            rest |-> Tail(cut) \o SubSeq(l, j + 1, Len(l)), more |-> TRUE]
=============================================================================
