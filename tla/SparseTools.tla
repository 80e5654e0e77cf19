---------------------------- MODULE SparseTools ----------------------------
(***************************************************************************)
(* The sparse image tools: img2simg, simg2simg, simg2img and append2simg,  *)
(* one process at a time, on the files of one directory.                   *)
(*                                                                         *)
(* A process writes its output chunk by chunk.  A write can fail, after    *)
(* some of it was done; the callers of write_skip_chunk() and              *)
(* output_file_close() do not look at what they return.  A process can be  *)
(* killed between any two steps, and the next one finds what it left.      *)
(* The inputs do not change while a process has them open.                 *)
(***************************************************************************)
EXTENDS SparseFormat

CONSTANTS FirstFiles,   \* what "raw", "input" and "simg" are at the beginning
          MaxSizes,     \* the max_size arguments of simg2simg
          PieceNames,   \* the names simg2simg gives its output files, in order
          Other,        \* a block of the bytes of a sparse file
          MaxRuns, MaxFaults   \* bounds

VARIABLES files,    \* files[name]
          want,     \* what the files should expand to (ghost): see below
          proc,     \* the running process
          runs, faults

vars == <<files, want, proc, runs, faults>>

NoFile == [kind |-> "none"]
Idle == [tool |-> "none"]
Tmp == "simg.append2simg"
Names == {"raw", "input", "simg", Tmp, "out"} \union Range(PieceNames)

\* A raw image is a length and its blocks, the last one padded; a sparse file
\* is its header and chunks.  Bytes that are no chunk are "torn".
Truncated(kind) == IF kind = "raw" THEN [kind |-> "raw", len |-> 0, blocks |-> <<>>]
                   ELSE [kind |-> "sparse", items |-> <<>>]
Torn == [type |-> "torn", size |-> 0]

\* What a file can be: chunks with data have some, and as much as they say.
RawImages == {f \in [kind : {"raw"}, len : Nat, blocks : Seq(Contents)] : Len(f.blocks) = DivRoundUp(f.len)}
Headers == [type : {"header"}, total_blks : Nat, total_chunks : Nat, size : {SPARSE_HEADER_LEN}]
Chunks ==
  {c \in [type : {"raw", "fill", "skip", "crc32"}, chunk_sz : Nat, data : Seq(Contents), size : Nat] :
     /\ c.type \in {"raw", "fill"} => c.chunk_sz > 0
     /\ c.type = "raw" => Len(c.data) = c.chunk_sz
     /\ c.type = "fill" => Len(c.data) = 1}
SparseFiles == [kind : {"sparse"}, items : Seq(Headers \union Chunks \union {Torn})]

ASSUME FilesAssumption ==
  /\ Other \in Contents
  /\ \A first \in FirstFiles :
       /\ DOMAIN first = {"raw", "input", "simg"}
       /\ first.raw \in RawImages /\ first.input \in RawImages
       /\ first.simg \in {NoFile} \union RawImages \union SparseFiles
       \* A raw image has the blocks that it has.
       /\ \A f \in {first.raw, first.input, first.simg} : f.kind = "raw" => Missing \notin Range(f.blocks)

\* simg2simg numbers its pieces.  A piece has room for a block and its headers.
ASSUME NamesAssumption ==
  /\ PieceNames \in Seq(STRING) /\ IsInjective(PieceNames)
  /\ Range(PieceNames) \intersect {"raw", "input", "simg", Tmp, "out"} = {}
ASSUME SizesAssumption ==
  \A max \in MaxSizes : max \in Nat /\ max >= BlockSize + 68 /\ max < Wrap

\* The expanded image of a list: don't care reads as zero.
Image(s) ==
  [i \in 1 .. DivRoundUp(s.len) |->
     LET at == {n \in DOMAIN s.bbs : i - s.bbs[n].block \in DOMAIN s.bbs[n].data}
     IN  IF at = {} THEN Zero ELSE s.bbs[Max(at)].data[i - s.bbs[Max(at)].block]]

\* want.simg, want.pieces, want.out: the image a tool that exited with 0 has
\* promised in these files, <<>> where there is no promise.
Unknown == <<>>

\* The image of a file that is there at the beginning: a sparse file of which
\* a part is missing has none.
FirstImage(f) ==
  CASE f.kind = "raw"    -> f.blocks
    [] f.kind = "sparse" -> IF Importable(f) /\ Missing \notin Range(Image(Import(f, "simg")))
                            THEN Image(Import(f, "simg")) ELSE Unknown
    [] f.kind = "none"   -> Unknown

Init ==
  /\ \E first \in FirstFiles :
       /\ files = [n \in Names |-> IF n \in DOMAIN first THEN first[n] ELSE NoFile]
       /\ want = [simg |-> FirstImage(first.simg), pieces |-> Unknown, out |-> Unknown, count |-> 0]
  /\ proc = Idle
  /\ runs = 0 /\ faults = 0
-----------------------------------------------------------------------------
(* The writer: sparse_file_write().                                        *)

\* A process about to write cookie s to 'target'; 'then' is where it goes on.
Writer(p, s, target, mode, then) ==
  [p EXCEPT !.pc = "write", !.s = s, !.target = target, !.mode = mode, !.then = then, !.at = 1,
            !.todo = Opt(mode = "sparse", Header(s)) \o AllBlocks(s)]

NewProc(tool, goal) ==
  [tool |-> tool, pc |-> "start", s |-> [len |-> 0, bbs |-> <<>>], target |-> "", mode |-> "",
   then |-> "", at |-> 1, todo |-> <<>>, goal |-> goal, lost |-> FALSE,
   in |-> <<>>, i |-> 1, max |-> 0, slots |-> 0, c |-> 0, outs |-> <<>>, tmp |-> <<>>]

\* Puts values at position k of a sequence, filling a hole in front with z.
PutAt(seq, k, xs, z) ==
  [i \in 1 .. IF Len(seq) > k - 1 + Len(xs) THEN Len(seq) ELSE k - 1 + Len(xs) |->
     IF i \in k .. k - 1 + Len(xs) THEN xs[i - k + 1] ELSE IF i <= Len(seq) THEN seq[i] ELSE z]

\* The file after a chunk was written at position 'at': the next item of a
\* sparse file, the blocks from there on of a raw one.
Written(f, op, at) ==
  IF f.kind = "sparse"
  THEN [f EXCEPT !.items = PutAt(@, at, <<IF op.type = "header" THEN op ELSE
                                           [Chunk(op) EXCEPT !.data = Mapped(@)]>>, Torn)]
  ELSE IF op.type = "skip" THEN f
  ELSE LET b == PutAt(f.blocks, at, Mapped(op.data), Zero)
       IN  [f EXCEPT !.blocks = b, !.len = Len(b) * BlockSize]

Advance(p, op) ==
  [p EXCEPT !.todo = Tail(@),
            !.at = @ + (IF p.mode = "sparse" THEN 1 ELSE op.len \div BlockSize)]

Running == proc # Idle
Op == Head(proc.todo)

\* A mapping of no bytes at a page boundary is EINVAL.
Mappable(op) == op.type = "fd" => op.len > 0 \/ op.off % 4096 # 0

WriteChunk ==
  /\ Running /\ proc.pc = "write" /\ proc.todo # <<>>
  /\ Mappable(Op)
  /\ \/ /\ proc.mode = "normal" \/ Writable(Op)
        /\ files' = [files EXCEPT ![proc.target] = Written(@, Op, proc.at)]
        /\ proc' = Advance(proc, Op)
     \/ /\ proc.mode = "sparse" /\ ~Writable(Op)
        /\ proc' = [proc EXCEPT !.todo = Tail(@), !.lost = TRUE]
        /\ UNCHANGED files
  /\ UNCHANGED <<want, runs, faults>>

WriteRefused ==
  /\ Running /\ proc.pc = "write" /\ proc.todo # <<>>
  /\ ~Mappable(Op)
  /\ proc' = Idle
  /\ UNCHANGED <<files, want, runs, faults>>

\* A failed write leaves nothing, bytes that are no chunk, or a raw chunk
\* without the end of its data.  Only a failed skip goes unnoticed.
Debris(op) ==
  {Torn} \union IF op.type = "fd" /\ op.len > 0
                THEN {[Chunk(op) EXCEPT !.data = PutAt(@, Len(@), <<Missing>>, Zero)]} ELSE {}

WriteFails ==
  /\ Running /\ proc.pc = "write" /\ proc.todo # <<>>
  /\ faults < MaxFaults /\ faults' = faults + 1
  /\ \/ /\ UNCHANGED files
        /\ proc' = IF Op.type = "skip" THEN [proc EXCEPT !.todo = Tail(@), !.lost = TRUE] ELSE Idle
     \/ /\ proc.mode = "sparse"
        /\ \E d \in Debris(Op) :
             files' = [files EXCEPT ![proc.target].items = PutAt(@, proc.at, <<d>>, Torn)]
        /\ proc' = IF Op.type = "skip" THEN [Advance(proc, Op) EXCEPT !.lost = TRUE] ELSE Idle
  /\ UNCHANGED <<want, runs>>

\* file_pad: ftruncate to the length of the image, which cuts or adds zeros.
Pad(f, len) ==
  LET n == DivRoundUp(len)
  IN  [kind |-> "raw", len |-> len, blocks |-> SubSeq(PutAt(f.blocks, n + 1, <<>>, Zero), 1, n)]

\* output_file_close: nobody looks at what write_normal_end_chunk returns.
CloseOutput ==
  /\ Running /\ proc.pc = "write" /\ proc.todo = <<>>
  /\ \/ /\ files' = IF proc.mode = "sparse" THEN files
                    ELSE [files EXCEPT ![proc.target] = Pad(@, proc.s.len)]
        /\ proc' = [proc EXCEPT !.pc = proc.then]
        /\ UNCHANGED faults
     \/ /\ proc.mode = "normal"
        /\ faults < MaxFaults /\ faults' = faults + 1
        /\ proc' = [proc EXCEPT !.pc = proc.then, !.lost = TRUE]
        /\ UNCHANGED files
  /\ UNCHANGED <<want, runs>>

\* A read through the mapping behind the last page of a cut file.
Sigbus ==
  /\ Running /\ proc.pc = "write" /\ proc.todo # <<>>
  /\ Op.type = "fd" /\ Missing \in Range(Op.data)
  /\ proc' = Idle
  /\ UNCHANGED <<files, want, runs, faults>>

Kill ==
  /\ Running
  /\ faults < MaxFaults /\ faults' = faults + 1
  /\ proc' = Idle
  /\ UNCHANGED <<files, want, runs>>
-----------------------------------------------------------------------------
(* The tools.                                                              *)

Exec == ~Running /\ runs < MaxRuns /\ runs' = runs + 1 /\ UNCHANGED faults

\* What is promised when a process exits with 0.
Promise(p) == IF p.lost THEN Unknown ELSE p.goal

\* img2simg: the output is truncated before the input is read.
Img2simg ==
  /\ Exec
  /\ files' = [files EXCEPT !["simg"] = Truncated("sparse")]
  /\ want' = [want EXCEPT !.simg = Unknown]
  /\ proc' = Writer(NewProc("img2simg", files["raw"].blocks), ReadNormal(files["raw"], "raw"),
                    "simg", "sparse", "exit")

Img2simgExit ==
  /\ Running /\ proc.pc = "exit" /\ proc.tool = "img2simg"
  /\ want' = [want EXCEPT !.simg = Promise(proc)]
  /\ proc' = Idle
  /\ UNCHANGED <<files, runs, faults>>

\* simg2simg: resparse once to count the pieces, once more to get them.
Simg2simg(max) ==
  /\ Exec
  /\ Importable(files["simg"])
  /\ proc' = [NewProc("simg2simg", want.simg) EXCEPT !.pc = "count", !.max = max,
                                                     !.s = Import(files["simg"], "simg")]
  /\ want' = [want EXCEPT !.pieces = Unknown]
  /\ UNCHANGED files

\* Defect: the number of the last piece is returned, not the number of pieces.
TurnCountsFromZero(m, lost) ==
  LET kept == proc.c < proc.slots
      tmp == IF kept THEN proc.tmp ELSE ListMove(m.piece, proc.tmp)
      p == [proc EXCEPT !.c = @ + 1, !.tmp = tmp, !.s.bbs = m.rest, !.lost = @ \/ lost,
                        !.outs = IF kept THEN Append(@, m.piece) ELSE @]
      done == [p EXCEPT !.tmp = <<>>, !.s.bbs = ListMove(tmp, m.rest)]
  IN  /\ proc.c < Len(PieceNames)
      /\ proc' = IF m.more THEN p
                 ELSE IF proc.pc = "count" THEN [done EXCEPT !.pc = "split", !.slots = proc.c, !.c = 0]
                 ELSE [done EXCEPT !.pc = "open", !.i = 1]

\* One turn of the loop of sparse_file_resparse, m being what
\* move_chunks_up_to_len did.  Pieces there is no room for are collected and
\* go back to the input at the end.
Turn(m, lost) ==
  LET kept == proc.c < proc.slots
      tmp == IF kept THEN proc.tmp ELSE ListMove(m.piece, proc.tmp)
      c == proc.c + 1
      p == [proc EXCEPT !.c = c, !.tmp = tmp, !.s.bbs = m.rest, !.lost = @ \/ lost,
                        !.outs = IF kept THEN Append(@, m.piece) ELSE @]
      done == [p EXCEPT !.tmp = <<>>, !.s.bbs = ListMove(tmp, m.rest)]
  IN  /\ c <= Len(PieceNames)     \* the number of pieces is bounded by their names
      /\ proc' = IF m.more THEN p
                 ELSE IF proc.pc = "count" THEN [done EXCEPT !.pc = "split", !.slots = c, !.c = 0]
                 ELSE [done EXCEPT !.pc = "open", !.i = 1]

Resparse ==
  /\ Running /\ proc.pc \in {"count", "split"}
  /\ Turn(MoveChunks(proc.s.bbs, proc.max), FALSE)
  /\ UNCHANGED <<files, want, runs, faults>>

\* A block that cannot be mapped to count its chunk ends the loop: the blocks
\* left are in no piece.
ResparseFails ==
  /\ Running /\ proc.pc \in {"count", "split"}
  /\ faults < MaxFaults /\ faults' = faults + 1
  /\ \E i \in DOMAIN proc.s.bbs : proc.s.bbs[i].type = "fd"
  /\ Turn([piece |-> <<>>, rest |-> proc.s.bbs, more |-> FALSE], TRUE)
  /\ UNCHANGED <<files, want, runs>>

\* The file of piece i is truncated and piece i written to it.
OpenPiece ==
  LET name == PieceNames[proc.i]
      piece == [len |-> proc.s.len, bbs |-> proc.outs[proc.i]]
  IN  /\ Running /\ proc.pc = "open" /\ proc.tool = "simg2simg" /\ proc.i <= proc.c
      /\ files' = [files EXCEPT ![name] = Truncated("sparse")]
      /\ proc.i <= Len(proc.outs)
      /\ proc' = [Writer(proc, piece, name, "sparse", "open") EXCEPT !.i = @ + 1]
      /\ UNCHANGED <<want, runs, faults>>

\* A piece behind the end of the array: whatever is there is no cookie.
BadPiece ==
  /\ Running /\ proc.pc = "open" /\ proc.i <= proc.c /\ proc.i > Len(proc.outs)
  /\ files' = [files EXCEPT ![PieceNames[proc.i]] = Truncated("sparse")]
  /\ proc' = Idle
  /\ UNCHANGED <<want, runs, faults>>

Simg2simgExit ==
  /\ Running /\ proc.pc = "open" /\ proc.tool = "simg2simg" /\ proc.i > proc.c
  /\ want' = [want EXCEPT !.pieces = Promise(proc), !.count = proc.c]
  /\ proc' = Idle
  /\ UNCHANGED <<files, runs, faults>>

\* simg2img: the output is truncated once, and every input written over it
\* from the start.
Simg2img(in, goal) ==
  /\ Exec
  /\ files' = [files EXCEPT !["out"] = Truncated("raw")]
  /\ want' = [want EXCEPT !.out = Unknown]
  /\ proc' = [NewProc("simg2img", goal) EXCEPT !.pc = "import", !.in = in]

Simg2imgOfSimg == files["simg"] # NoFile /\ Simg2img(<<"simg">>, want.simg)
Simg2imgOfPieces == want.count > 0 /\ Simg2img(SubSeq(PieceNames, 1, want.count), want.pieces)

ImportInput ==
  LET name == proc.in[proc.i]
  IN  /\ Running /\ proc.pc = "import" /\ proc.i <= Len(proc.in)
      /\ proc' = IF ~Importable(files[name]) THEN Idle
                 ELSE [Writer(proc, Import(files[name], name), "out", "normal", "import")
                         EXCEPT !.i = @ + 1]
      /\ UNCHANGED <<files, want, runs, faults>>

Simg2imgExit ==
  /\ Running /\ proc.pc = "import" /\ proc.i > Len(proc.in)
  /\ want' = [want EXCEPT !.out = Promise(proc)]
  /\ proc' = Idle
  /\ UNCHANGED <<files, runs, faults>>

\* sparse_file_import_auto: a file that cannot be imported is taken for a raw
\* image, whatever it is.
AsRaw(f) ==
  IF f.kind = "raw" THEN f
  ELSE LET n == FileSize(f.items) IN [len |-> n, blocks |-> [i \in 1 .. DivRoundUp(n) |-> Other]]

ImportAuto(f) == IF Importable(f) THEN Import(f, "simg") ELSE ReadNormal(AsRaw(f), "simg")

\* append2simg: the input is added behind the last whole block, and the result
\* written to a temporary file that is not truncated.
Append2simg ==
  LET s == ImportAuto(files["simg"])
      input == files["input"]
      bb == Fd(s.len \div BlockSize, input.len, "input", 0, input.blocks)
      goal == IF want.simg = Unknown \/ s.len % BlockSize # 0 THEN Unknown
              ELSE want.simg \o input.blocks
      stale == IF files[Tmp] = NoFile THEN <<>> ELSE files[Tmp].items
  IN  /\ files["simg"] # NoFile
      /\ Exec
      /\ input.len % BlockSize = 0
      /\ files' = [files EXCEPT ![Tmp] = [kind |-> "sparse", items |-> [i \in DOMAIN stale |-> Torn]]]
      /\ proc' = Writer(NewProc("append2simg", goal),
                        [len |-> s.len + input.len, bbs |-> Queue(s.bbs, bb)], Tmp, "sparse", "rename")
      /\ UNCHANGED want

Rename ==
  /\ Running /\ proc.pc = "rename"
  /\ files' = [files EXCEPT !["simg"] = files[Tmp], ![Tmp] = NoFile]
  /\ want' = [want EXCEPT !.simg = Promise(proc)]
  /\ proc' = Idle
  /\ UNCHANGED <<runs, faults>>
-----------------------------------------------------------------------------
Step ==
  \/ WriteChunk \/ WriteRefused \/ CloseOutput
  \/ Img2simgExit \/ Resparse \/ OpenPiece \/ BadPiece \/ Simg2simgExit
  \/ ImportInput \/ Simg2imgExit \/ Rename

Next ==
  \/ Step
  \/ WriteFails \/ Sigbus \/ Kill \/ ResparseFails
  \/ Img2simg \/ Simg2imgOfSimg \/ Simg2imgOfPieces \/ Append2simg
  \/ \E max \in MaxSizes : Simg2simg(max)

\* A process that is running goes on until it ends: the scheduler does not
\* stop it for good.  This is WF_vars(Step), where ENABLED is written out: a
\* running process has a step unless resparse runs out of names.
CanStep == Running /\ ~(proc.pc \in {"count", "split"} /\ proc.c = Len(PieceNames))
Fairness == []<>~CanStep \/ []<><<Step>>_vars

Spec == Init /\ [][Next]_vars /\ Fairness
-----------------------------------------------------------------------------
\* Type correctness.
TypeOK ==
  /\ DOMAIN files = Names
  /\ \A n \in Names : files[n].kind \in {"none", "raw", "sparse"}
  /\ \A n \in Names : files[n].kind = "raw" => Len(files[n].blocks) = DivRoundUp(files[n].len)
  /\ runs \in 0 .. MaxRuns /\ faults \in 0 .. MaxFaults

\* Whether a file expands to an image.
Holds(f, image) ==
  IF f.kind = "raw" THEN f.blocks = image
  ELSE Importable(f) /\ Image(Import(f, "simg")) = image

\* The sparse file that img2simg or append2simg has finished reads back as the
\* image it was made from, through merged fills, padded last blocks and gaps;
\* and append2simg, killed anywhere or out of space, leaves the old image
\* readable until the new one is complete, even over the remains of an
\* earlier temporary file.
SimgReadsBack == want.simg # Unknown => Holds(files["simg"], want.simg)

\* simg2img restores exactly the image its sparse input, or the pieces it was
\* cut into, stand for.
OutRestored == want.out # Unknown => Holds(files["out"], want.out)

\* A tool that exits with 0 keeps what it promises: the files expand to the
\* images they stand for, also after failures and kills of other runs.
FilesSound == TypeOK /\ SimgReadsBack /\ OutRestored

\* Every piece simg2simg has written is no longer than max_size, whatever the
\* gaps, the splits and the end skip add to it.
PiecesFit ==
  (Running /\ proc.pc = "open") =>
     \A i \in 1 .. proc.i - 1 : FileSize(files[PieceNames[i]].items) <= proc.max

\* The second resparse, which finds the blocks as the first one split them,
\* returns no more pieces than the array allocated for them holds.
PiecesInArray == (Running /\ proc.pc = "open" /\ ~proc.lost) => proc.c <= proc.slots

\* The pieces simg2simg makes are no longer and no more than allowed for.
PiecesSound == PiecesFit /\ PiecesInArray

\* No block is lost or duplicated while an image is cut into pieces, counted
\* or not: the pieces, the collected ones and the rest still make up the image.
ResparseKeepsImage ==
  (Running /\ proc.pc \in {"count", "split"} /\ ~proc.lost /\ proc.goal # Unknown) =>
     LET all == FlattenSeq(proc.outs) \o proc.tmp \o proc.s.bbs
     IN  /\ Image([proc.s EXCEPT !.bbs = all]) = proc.goal
         /\ \A i \in 1 .. Len(all) - 1 : EndBlock(all, i) <= all[i+1].block

\* Every tool that is started ends: the loop of resparse makes progress with
\* every piece.
Terminates == Running ~> ~Running
=============================================================================
