--------------------------- MODULE MCSparseTools ---------------------------
(***************************************************************************)
(* Small instances of SparseTools with blocks of 4096 bytes.               *)
(***************************************************************************)
EXTENDS SparseTools

CONSTANTS Word, Text, Code

MCUniform == {Zero, Word}
MCContents == {Zero, Word, Text, Code, Missing, Other}
Raw(blocks, cut) == [kind |-> "raw", len |-> Len(blocks) * BlockSize - cut, blocks |-> blocks]

\* Sparse files of other tools, with holes in front, in the middle and at the
\* end, and a crc; a raw image to append to, and one whose length is no multiple.
Sparse(len, bbs, end) ==
  LET s == [len |-> len * BlockSize, bbs |-> bbs]
      ops == AllBlocks(s)
      chunks == [i \in DOMAIN ops |-> Chunk(ops[i])] \o end
  IN  [kind |-> "sparse",
       items |-> <<[Header(s) EXCEPT !.total_chunks = Len(chunks)]>> \o chunks]

Holes ==
  Sparse(6, <<Fd(1, 2 * BlockSize, "f", 0, <<Text, Code>>), Fill(4, BlockSize, Word)>>, <<CrcChunk>>)
Long ==
  Sparse(5, <<Fd(0, BlockSize, "f", 0, <<Code>>), Fd(2, 3 * BlockSize, "f", 0, <<Text, Text, Code>>)>>, <<>>)

\* Fills to merge, raw blocks to merge and to split, a last block that is not
\* full although its words are equal; an input of a block, and an empty one.
First(raw, input, simg) == [raw |-> raw, input |-> input, simg |-> simg]
MCFirstFiles ==
  {First(Raw(<<Zero, Zero, Text>>, 0), Raw(<<Code>>, 0), NoFile),
   First(Raw(<<Text, Code, Text, Code>>, 0), Raw(<<Zero>>, 0), NoFile),
   First(Raw(<<Text, Word, Zero>>, 96), Raw(<<Text>>, 0), Holes),
   First(Raw(<<Zero, Text>>, 0), Raw(<<Code, Code>>, 0), Long),
   First(Raw(<<Zero>>, 0), Raw(<<>>, 0), Raw(<<Text, Zero>>, 0)),
   First(Raw(<<Text>>, 0), Raw(<<Code>>, 0), Raw(<<Text, Word>>, 0)),
   First(Raw(<<Word, Word>>, 0), Raw(<<Code>>, 0), Raw(<<Text, Code>>, 1000))}

\* Room for one block and a gap, for one and a half, two and three blocks.
MCMaxSizes == {4164, 8000, 8276, 12400}
MCPieceNames == <<"simg.0", "simg.1", "simg.2", "simg.3", "simg.4", "simg.5", "simg.6", "simg.7", "simg.8">>
=============================================================================
