---------------------------- MODULE MCHashFooter ----------------------------
(***************************************************************************)
(* Small instances of HashFooter.                                          *)
(***************************************************************************)
EXTENDS HashFooter

CONSTANTS d1, d2

Nothing == [o \in {} |-> 0]
Plain(d, n) == [data |-> d, len |-> n, at |-> Nothing]

\* An image another tool has signed, of n bytes, whose footer claims an
\* original size.
Foreign(d, n, orig) ==
  [data |-> d, len |-> n,
   at |-> [o \in {n - FOOTER_SIZE} |->
             [kind |-> "footer", size |-> FOOTER_SIZE, call |-> 0,
              orig |-> orig, vbmetaOffset |-> 4096, vbmetaSize |-> 1000]]]

MCData == {d1, d2}

\* Around the boundaries of a block and of the largest image that fits the
\* smaller partitions; one image is too short to have a footer, and one has a
\* footer that claims more bytes than there are.
MCImages ==
  {Plain(d1, n) : n \in {63, 4096, 4097}} \union {Plain(d2, 4096)}
  \union {Foreign(d2, 8192, 100), Foreign(d2, 8192, 9000)}

\* 68K is the smallest partition accepted, 4K more leave room for one block of
\* image.  The next two take in an image signed for the one before, and the
\* chunk of the last one does not fit an Int.
MCPartitionSizes == {69632, 69633, 73728, 147456, 225280, 598016}

MCBlobSizes == {4097, 65536, 65537}
MCCuts == {0, 4095}
=============================================================================
