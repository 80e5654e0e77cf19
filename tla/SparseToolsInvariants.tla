------------------------ MODULE SparseToolsInvariants ------------------------
(***************************************************************************)
(* What holds of SparseTools at every step, as far as its proofs need it.  *)
(*                                                                         *)
(* PiecesInv says of each process where it is in its work, what it has in  *)
(* its lists and what it has written, in cells and in bytes.  SimgInv adds *)
(* what the blocks are: the image that simg holds or will hold, and the    *)
(* image that is being cut.  SparseToolsProofs shows that both hold as long*)
(* as no image is 4 GiB or longer.                                         *)
(***************************************************************************)
EXTENDS SparseTools

-----------------------------------------------------------------------------
(***************************************************************************)
(* Cells, and lists of them: how long each is, that the ones of a list     *)
(* are apart, and which block is where.                                    *)
(***************************************************************************)
\* The files whose bytes the tools put in lists that they cut or stream.
Fds == {"raw", "input", "simg"}

\* A cell has a block of data for each block that it covers.
Cells ==
  {c \in [block : Nat, len : Nat, type : {"fill", "fd"}, src : Contents \union Fds,
          off : Nat, data : Seq(Contents)] :
     /\ Len(c.data) = DivRoundUp(c.len)
     /\ c.type = "fill" => c.src \in Contents}

\* The first block behind a cell; each cell ends before the next one begins.
EndOf(c) == c.block + DivRoundUp(c.len)
Apart(l) == \A i \in 1 .. Len(l) - 1 : EndOf(l[i]) <= l[i + 1].block

\* Cells that are apart, are not empty, end within n bytes and are of file fd.
Tiled(l, n, fd) ==
  /\ l \in Seq(Cells) /\ Apart(l)
  /\ \A i \in 1 .. Len(l) : /\ l[i].len > 0 /\ BlockSize * l[i].block + l[i].len <= n
                            /\ l[i].type = "fd" => l[i].src = fd

\* Cells that are written with data, if they are written.
Usable == {c \in Cells : c.len > 0 \/ ~ Mappable(c)}

\* A fill has one value.
PlainCell(c) == c.type = "fill" => \A i \in 1 .. Len(c.data) : c.data[i] = c.src

\* Every block of it is there.
Known(c) == \A i \in 1 .. Len(c.data) : c.data[i] # Missing

\* Cells that are written and read back.
Sane == {c \in Usable : PlainCell(c) /\ Known(c)}

\* Block i is v in a cell, and in a list.
HasIn(c, i, v) == i - c.block \in 1 .. Len(c.data) /\ c.data[i - c.block] = v

Has(l, i, v) ==
  \E n \in 1 .. Len(l) : i - l[n].block \in 1 .. Len(l[n].data) /\ l[n].data[i - l[n].block] = v

\* Lists that have the same blocks are the same image.
SameBlocks(l, m) == \A i \in Nat : \A v \in Contents : Has(l, i, v) <=> Has(m, i, v)

Plain(l) == \A n \in 1 .. Len(l) : PlainCell(l[n])

\* What don't care reads as.
At(l, i) == {n \in DOMAIN l : i - l[n].block \in DOMAIN l[n].data}

Value(l, i) == IF At(l, i) = {} THEN Zero ELSE l[Max(At(l, i))].data[i - l[Max(At(l, i))].block]
-----------------------------------------------------------------------------
(***************************************************************************)
(* Where move_chunks_up_to_len() cuts a list into a piece and a rest.      *)
(***************************************************************************)
Roomy(max) == max \in Nat /\ max >= BlockSize + 68 /\ max < Wrap

\* The first cell that does not fit.
OverAt(l, len, j) == j \in 1 .. Len(l) /\ FileLen(l)[j] > len /\ FileLen(l)[j - 1] <= len

\* backed_block_split() makes x and y of bb.
IsSplit(bb, room, x, y) ==
  LET n == room \div BlockSize
  IN  /\ x.block = bb.block /\ x.len = AlignDown(room) /\ x.type = bb.type
      /\ x.src = bb.src /\ x.off = bb.off /\ x.data = SubSeq(bb.data, 1, n)
      /\ y.block = bb.block + n /\ y.len = bb.len - AlignDown(room) /\ y.type = bb.type
      /\ y.src = bb.src /\ y.off = (IF bb.type = "fill" THEN bb.off ELSE bb.off + AlignDown(room))
      /\ y.data = SubSeq(bb.data, n + 1, Len(bb.data))
      /\ n = 0 => y = bb

\* What is left of a piece at cell j, and whether a part of the cell is worth it.
Room(l, len, j) == len - (FileLen(l)[j - 1] + 12)
TakesPart(l, len, j) == j = 1 \/ Room(l, len, j) > len \div 8

\* The cut is before cell j, behind it, or in it.
StopsBefore(l, m, len, j) ==
  /\ ~ TakesPart(l, len, j)
  /\ m.piece = SubSeq(l, 1, j - 1) /\ m.rest = SubSeq(l, j, Len(l))

StopsBehind(l, m, len, j) ==
  /\ TakesPart(l, len, j) /\ Room(l, len, j) \in Nat /\ l[j].type = "fd"
  /\ l[j].len <= AlignDown(Room(l, len, j))
  /\ m.piece = SubSeq(l, 1, j - 1) \o <<l[j]>> /\ m.rest = SubSeq(l, j + 1, Len(l))

StopsIn(l, m, len, j, x, y) ==
  /\ TakesPart(l, len, j) /\ Room(l, len, j) \in Nat /\ l[j].type = "fd"
  /\ l[j].len > AlignDown(Room(l, len, j))
  /\ IsSplit(l[j], Room(l, len, j), x, y)
  /\ m.piece = SubSeq(l, 1, j - 1) \o <<x>> /\ m.rest = <<y>> \o SubSeq(l, j + 1, Len(l))

\* A list that is cut like another one, because it begins with the same cell
\* or with one of the same file that is too long for what is left of a piece.
Like(new, old, len) ==
  old = <<>> \/ /\ new # <<>>
                /\ \/ new[1] = old[1]
                   \/ /\ new[1].type = "fd" /\ new[1].block = old[1].block
                      /\ new[1].len > len \div 8

\* Cell p of a list has been replaced by two.
Replaced(old, new, p, x, y) ==
  /\ p \in 1 .. Len(old) /\ new \in Seq(Cells) /\ Len(new) = Len(old) + 1
  /\ \A i \in 1 .. p - 1 : new[i] = old[i]
  /\ new[p] = x /\ new[p + 1] = y
  /\ \A i \in p + 1 .. Len(old) : new[i + 1] = old[i]

\* A piece fits: what its cells take leaves room for its header and what ends it.
Fits(l, max) == l \in Seq(Cells) /\ FileLen(l)[Len(l)] <= max - 44

-----------------------------------------------------------------------------
(***************************************************************************)
(* What the readers make of the blocks of an image and of the chunks of    *)
(* a file, and what the writers make of a list.                            *)
(***************************************************************************)
\* The length of an image up to the end of block i.
UpToBlock(len, i) == IF i * BlockSize <= len THEN i * BlockSize ELSE len

\* What is read for block i of a raw image.
ToRead(len, i) == IF i * BlockSize <= len THEN BlockSize ELSE len % BlockSize

Items == Headers \union Chunks \union {Torn}

\* The lists after each chunk, and what the chunks before have taken.
ImportRun(b, blk, off, f, fd) ==
  LET chunks == ChunksOf(f)
      N == Len(chunks)
  IN  /\ N \in Nat /\ chunks \in Seq(Chunks)
      /\ b[0] = <<>> /\ Import(f, fd).bbs = b[N]
      /\ \A i \in 1 .. N : b[i] = ProcessChunk(b[i - 1], chunks[i], blk[i - 1], fd, off[i - 1] + CHUNK_HEADER_LEN)
      /\ blk \in [0 .. N -> Nat] /\ blk[0] = 0 /\ off \in [0 .. N -> Nat]
      /\ \A i \in 1 .. N : blk[i] = blk[i - 1] + chunks[i].chunk_sz
      /\ \A i \in 0 .. N : Tiled(b[i], BlockSize * blk[i], fd) /\ BlockSize * blk[i] < Wrap

\* What may be in a file that was written, whose data may be missing.
DiskChunks == [type : {"raw", "fill", "skip", "crc32"}, chunk_sz : Nat, data : Seq(Contents), size : Nat]
DiskItems == Headers \union DiskChunks \union {Torn}
DiskFiles == [kind : {"sparse"}, items : Seq(DiskItems)]
Skips == [type : {"skip"}, len : Nat]
Ops == Headers \union Skips \union Cells
OnDisk(op) == IF op.type = "header" THEN op ELSE [Chunk(op) EXCEPT !.data = Mapped(@)]
OnDiskAll(ops) == [i \in 1 .. Len(ops) |-> OnDisk(ops[i])]

\* The bytes that writes take.
Bytes(ops) == FileSize(OnDiskAll(ops))

\* The skip before a cell, the one at the end, and what has been written after each cell.
SkipBefore(l, i) == Opt(Gap(l, i), Skip((l[i].block - EndBlock(l, i - 1)) * BlockSize))

PadOf(s) == s.len - EndBlock(s.bbs, Len(s.bbs)) * BlockSize

WriteRun(o, s) ==
  /\ o[0] = <<>> /\ AllBlocks(s) = o[Len(s.bbs)] \o Opt(PadOf(s) > 0, Skip(PadOf(s)))
  /\ \A i \in 1 .. Len(s.bbs) : o[i] = (o[i - 1] \o SkipBefore(s.bbs, i)) \o <<s.bbs[i]>>
  /\ \A i \in 1 .. Len(s.bbs) : SkipBefore(s.bbs, i) \in Seq(Skips)
  /\ \A i \in 0 .. Len(s.bbs) : o[i] \in Seq(Skips \union Cells)

\* The blocks that a chunk covers; chunks that cover the first e blocks, each
\* cell where it belongs, and what is in them.
Extent(op) == IF op.type = "skip" THEN op.len \div BlockSize ELSE DivRoundUp(op.len)

Lays(ops, e, at) ==
  /\ at \in [0 .. Len(ops) -> Nat] /\ at[0] = 0 /\ at[Len(ops)] = e
  /\ \A k \in 1 .. Len(ops) : /\ at[k] = at[k - 1] + Extent(ops[k])
                              /\ ops[k].type # "skip" => ops[k].block = at[k - 1]

OpsHas(ops, i, v) == \E k \in 1 .. Len(ops) : ops[k].type # "skip" /\ HasIn(ops[k], i, v)

\* The header and the chunks that a cookie is written as.
Plan(s) == <<Header(s)>> \o AllBlocks(s)

\* File f is what sparse_file_write makes of cookie s, its first n items at least.
OnFile(f, s, n) ==
  LET all == <<Header(s)>> \o AllBlocks(s)
  IN  /\ f.kind = "sparse" /\ n <= Len(f.items)
      /\ \A k \in 1 .. n : f.items[k] = OnDisk(all[k]) /\ Writable(all[k]) /\ Mappable(all[k])

\* A cookie that can be written, read back and stands for an image.
Good(s, image) ==
  /\ s = [len |-> s.len, bbs |-> s.bbs] /\ s.len \in Nat /\ s.bbs \in Seq(Sane) /\ Apart(s.bbs)
  /\ \A i \in 1 .. Len(s.bbs) : EndOf(s.bbs[i]) <= DivRoundUp(s.len)
  /\ Image(s) = image /\ Missing \notin Range(image)

-----------------------------------------------------------------------------
(***************************************************************************)
(* The first inductive invariant: what a process has, and how long it is.  *)
(***************************************************************************)
Fields == {"tool", "pc", "s", "target", "mode", "then", "at", "todo", "goal", "lost", "in", "i", "max",
           "slots", "c", "outs", "tmp"}

IsProc(p) == DOMAIN p = Fields /\ p = [f \in Fields |-> p[f]]

\* The files that are read have chunks with data; those of pieces may not.
FilesOK(fs) ==
  /\ DOMAIN fs = Names /\ fs = [n \in Names |-> fs[n]]
  /\ fs["raw"] \in RawImages /\ fs["input"] \in RawImages
  /\ fs["simg"] \in {NoFile} \union RawImages \union SparseFiles
  /\ fs[Tmp] \in {NoFile} \union SparseFiles

\* img2simg and append2simg write one file.
Target(tool) == IF tool = "img2simg" THEN "simg" ELSE Tmp

Streaming(p, fs) ==
  /\ p.tool \in {"img2simg", "append2simg"}
  /\ fs[Target(p.tool)] \in SparseFiles
  /\ \/ /\ p.pc = "write" /\ p.mode = "sparse" /\ p.target = Target(p.tool)
        /\ p.then = IF p.tool = "img2simg" THEN "exit" ELSE "rename"
        /\ p.at \in Nat \ {0} /\ p.todo \in Seq(Headers \union Skips \union Usable)
     \/ p.pc = IF p.tool = "img2simg" THEN "exit" ELSE "rename"

\* simg2img writes a raw image.
Restoring(p) ==
  /\ p.tool = "simg2img"
  /\ \/ p.pc = "import"
     \/ p.pc = "write" /\ p.mode = "normal" /\ p.target = "out" /\ p.then = "import"

\* simg2simg has written n of its pieces, and none is too long.
WrittenUpTo(n, p, fs) ==
  \A k \in 1 .. n : fs[PieceNames[k]] \in DiskFiles /\ FileSize(fs[PieceNames[k]].items) <= p.max

\* The first pass: what is collected will be cut again as it was.
Counting(p) ==
  /\ p.slots = 0 /\ Apart(p.tmp \o p.s.bbs)
  /\ \E T \in [0 .. p.c -> Seq(Cells)] :
       /\ T[0] = p.tmp /\ T[p.c] = <<>>
       /\ \A i \in 1 .. p.c : \A R \in Seq(Cells) :
            Like(R, p.s.bbs, p.max - 56) =>
              LET m == MoveChunks(T[i - 1] \o R, p.max) IN m.more /\ m.rest = T[i] \o R

\* The second pass: the number of cuts that are left leaves a slot for the last piece.
Splitting(p) ==
  /\ p.tmp = <<>>
  /\ \E n \in Nat : /\ p.c + n < p.slots
                    /\ \E r \in [0 .. n -> Seq(Cells)] :
                         /\ r[0] = p.s.bbs /\ ~ MoveChunks(r[n], p.max).more
                         /\ \A i \in 1 .. n : MoveChunks(r[i - 1], p.max).more
                                              /\ MoveChunks(r[i - 1], p.max).rest = r[i]

\* simg2simg counts its pieces, makes them, and opens and writes one after the
\* other: what it has still to write of one fits with what it has written.
CutType(p) ==
  /\ p.s = [len |-> p.s.len, bbs |-> p.s.bbs] /\ p.s.len \in Nat /\ p.s.bbs \in Seq(Cells)
  /\ p.max \in MaxSizes /\ p.lost \in BOOLEAN /\ p.slots \in Nat /\ p.tmp \in Seq(Cells)
  /\ p.c \in Nat /\ p.c <= Len(PieceNames)
  /\ p.outs \in Seq(Seq(Cells)) /\ \A k \in 1 .. Len(p.outs) : Fits(p.outs[k], p.max)

Cutting(p, fs) ==
  /\ p.tool = "simg2simg" /\ CutType(p)
  /\ \/ p.pc = "count" /\ p.i = 1 /\ (p.lost \/ Counting(p))
     \/ p.pc = "split" /\ p.i = 1 /\ (p.lost \/ Splitting(p))
     \/ /\ p.pc = "open" /\ (p.lost \/ p.c <= p.slots)
        /\ p.i \in Nat \ {0} /\ p.i - 1 <= p.c /\ WrittenUpTo(p.i - 1, p, fs)
     \/ /\ p.pc = "write" /\ (p.lost \/ p.c <= p.slots)
        /\ p.i \in Nat /\ p.i > 1 /\ p.i - 1 <= p.c /\ WrittenUpTo(p.i - 2, p, fs)
        /\ p.mode = "sparse" /\ p.then = "open" /\ p.target = PieceNames[p.i - 1]
        /\ fs[p.target] \in DiskFiles
        /\ p.todo \in Seq(Ops) /\ p.at = Len(fs[p.target].items) + 1
        /\ FileSize(fs[p.target].items) + Bytes(p.todo) <= p.max

ProcOK(p, fs) == IsProc(p) /\ (Streaming(p, fs) \/ Restoring(p) \/ Cutting(p, fs))
PiecesInv == FilesOK(files) /\ (Running => ProcOK(proc, files))

\* No image is 4 GiB or longer.
Small == Running => proc.s.len < Wrap

-----------------------------------------------------------------------------
(***************************************************************************)
(* The second inductive invariant: what the files expand to.  What is to   *)
(* be written reads back as the image, what is written is a part of that,  *)
(* and what is cut still makes up the image.                               *)
(***************************************************************************)
\* The pieces that were made, what was collected for the next one, and the rest.
All(p) == FlattenSeq(p.outs) \o p.tmp \o p.s.bbs

\* Together they make up the image, each block where it was.
Kept(p) ==
  (p.pc \in {"count", "split"} /\ ~ p.lost) =>
    /\ p.pc = "count" => p.outs = <<>>
    /\ Apart(All(p))
    /\ p.goal # Unknown => Image([p.s EXCEPT !.bbs = All(p)]) = p.goal

\* The image of what a process has is that of the list.
ImageOf(p, l) == Image([len |-> p.s.len, bbs |-> l])

\* img2simg and append2simg have written a part of their plan, and the whole
\* of it when they are about to exit; unless a write went wrong.
Streamed(p, fs) ==
  (p.tool \in {"img2simg", "append2simg"} /\ ~ p.lost /\ p.goal # Unknown) =>
    LET s == p.s
        n == Len(Plan(s))
        f == fs[Target(p.tool)]
    IN  /\ Good(s, p.goal)
        /\ p.pc = "write" => \E k \in 0 .. n : p.at = k + 1 /\ p.todo = SubSeq(Plan(s), k + 1, n) /\ OnFile(f, s, k)
        /\ p.pc # "write" => OnFile(f, s, n)

\* What is in the files that are read: the image that was promised, and no
\* file has a block that it does not have.
SimgKept(fs, image) ==
  /\ image # Unknown => Holds(fs["simg"], image) /\ Missing \notin Range(image)
  /\ Missing \notin Range(fs["raw"].blocks) /\ Missing \notin Range(fs["input"].blocks)

SimgInv ==
  /\ PiecesInv
  /\ "simg" \in DOMAIN want /\ SimgKept(files, want.simg)
  /\ Running => /\ proc.tool = "img2simg" => want.simg = Unknown
                /\ Streamed(proc, files) /\ Kept(proc)

\* No image is 4 GiB or longer, its last block filled up.
SmallImages == Small /\ (Running => BlockSize * DivRoundUp(proc.s.len) < Wrap)

=============================================================================
