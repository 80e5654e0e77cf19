---------------------------- MODULE BackedBlocks ----------------------------
(***************************************************************************)
(* The list of backed blocks of a sparse file (libsparse backed_block.cpp):*)
(* heap cells linked by 'next' in the order of their first block, merged   *)
(* when they are adjacent and compatible, split and moved when an image is *)
(* cut into pieces.  queue_bb() keeps a pointer to the cell it queued last *)
(* and starts its search there, while merge_bb() frees cells.              *)
(*                                                                         *)
(* Two callers do not keep to what a list is made for: append2simg adds at *)
(* a block that is in use when the raw image it appends to ends within a   *)
(* block, and a resparse whose counting pass fails puts the cells it took  *)
(* back behind others that should follow them.  Such lists are not in      *)
(* order any more, but still whole.                                        *)
(*                                                                         *)
(* The abstract specification is SparseImage.  A failed calloc() returns   *)
(* -ENOMEM before anything is changed: a stuttering step.                  *)
(***************************************************************************)
EXTENDS Integers

CONSTANTS Nodes,       \* heap cells
          nullptr,
          Lists,       \* the backed_block_lists, one per sparse file
          Free, Fresh, \* the owner of a cell not allocated, and not linked yet
          BlockSize,   \* block_size
          Blocks,      \* the number of blocks of the expanded image
          Wrap,        \* unsigned int arithmetic is modulo Wrap (2^32)
          Sources,     \* what the callers add: type, value, buffer or file, offset
          Lens,        \* the lengths they add
          MaxLens,     \* the lengths resparse splits at
          Poison       \* the contents of a cell that is not allocated

Size == Blocks * BlockSize
Owners == Lists \union {Free, Fresh}

ASSUME ListAssumption ==
  /\ BlockSize \in Nat \ {0} /\ Blocks \in Nat \ {0} /\ Wrap \in Nat \ {0}
  /\ Lens \subseteq Nat \ {0} /\ MaxLens \subseteq Nat /\ \A len \in Lens : len < Wrap
  /\ nullptr \notin Nodes \union Lists /\ Free # Fresh /\ Free \notin Lists /\ Fresh \notin Lists
  /\ \A s \in Sources : /\ s = [type |-> s.type, src |-> s.src, off |-> s.off]
                        /\ s.off \in Nat
                        /\ s.type = "fill" => s.off = 0    \* a fill has no displacement

VARIABLES data_blocks,  \* data_blocks[l], the head of list l
          last_used,    \* last_used[l]
          next,         \* next[n], the link of cell n
          bb,           \* bb[n], the rest of cell n
          owner,        \* owner[n]: the list cell n is in (ghost)
          misuse,       \* misuse[l]: what was done to list l that a list is not made for (ghost)
          pc, list, cur, new_bb  \* the running queue_bb(list, new_bb), 'cur' its local bb

vars == <<data_blocks, last_used, next, bb, owner, misuse, pc, list, cur, new_bb>>

\* struct backed_block, but for the link.  The union is src and off: the fill
\* value, the buffer and the displacement in it, or the file and its offset.
BackedBlock == [block : Nat, len : Nat, type : {s.type : s \in Sources},
                src : {s.src : s \in Sources}, off : Nat]

In(l) == {n \in Nodes : owner[n] = l}
Start(n) == bb[n].block * BlockSize
End(n) == Start(n) + bb[n].len
Covers(n, p) == Start(n) <= p /\ p < End(n)

\* What byte p of the image is according to cell n.
Source(n) == [type |-> bb[n].type, src |-> bb[n].src, off |-> bb[n].off]
SourceByte(s, d) == IF s.type = "fill" THEN s ELSE [s EXCEPT !.off = @ + d]

\* The contents of the image that the cells of a list stand for.
Backing(l, p) == {n \in In(l) : Covers(n, p)}

Content(l) ==
  [p \in 0 .. Size - 1 |-> {SourceByte(Source(n), p - Start(n)) : n \in Backing(l, p)}]

Img == INSTANCE SparseImage WITH Cookies <- Lists, content <- [l \in Lists |-> Content(l)],
                                 shuffled <- {l \in Lists : misuse[l] = "moved_back"}

\* The cells on the walk along 'next' from the head of list l as far as cell
\* 'end', or to the end of the list for nullptr: those in every set of cells
\* that the walk does not leave.
Closed(l, end, S) ==
  /\ data_blocks[l] \in S \union {nullptr}
  /\ \A n \in S \ {end} : next[n] \in S \union {nullptr}

UpTo(l, end) == {n \in Nodes : \A S \in SUBSET Nodes : Closed(l, end, S) => n \in S}
Chain(l) == UpTo(l, nullptr)
-----------------------------------------------------------------------------
Init ==
  /\ data_blocks = [l \in Lists |-> nullptr]
  /\ last_used = [l \in Lists |-> nullptr]
  /\ next = [n \in Nodes |-> nullptr]
  /\ owner = [n \in Nodes |-> Free]
  /\ bb = [n \in Nodes |-> Poison]
  /\ misuse = [l \in Lists |-> "none"]
  /\ pc = "idle"
  /\ list = nullptr /\ cur = nullptr /\ new_bb = nullptr

\* backed_block_add_data, _fill, _file and _fd: a cell is allocated and filled
\* in, then queue_bb() takes one of its three branches.  Nothing is added to a
\* list any more once it was resparsed or appended to.
Filled(l, n, block, len, s) ==
  /\ pc = "idle"
  /\ misuse[l] = "none"
  /\ owner[n] = Free
  /\ block * BlockSize + len <= Size
  /\ bb' = [bb EXCEPT ![n] = [block |-> block, len |-> len,
                              type |-> s.type, src |-> s.src, off |-> s.off]]

\* What sparse.h asks for: the region "must not already be used in the sparse
\* file".
Unused(l, block, len) ==
  \A m \in In(l) : End(m) <= block * BlockSize \/ block * BlockSize + len <= Start(m)

\* What append2simg does when it reads a raw image that ends within a block: it
\* adds another file, of whole blocks, at that block.
AtPartialBlock(l, block, len, src) ==
  /\ len % BlockSize = 0
  /\ \E m \in In(l) : block * BlockSize < End(m)
  /\ \A m \in In(l) : End(m) < block * BlockSize + BlockSize /\ bb[m].src # src

AddFirst(l, n, block, len, s) ==
  /\ data_blocks[l] = nullptr
  /\ Filled(l, n, block, len, s)
  /\ next' = [next EXCEPT ![n] = nullptr]
  /\ data_blocks' = [data_blocks EXCEPT ![l] = n]
  /\ owner' = [owner EXCEPT ![n] = l]
  /\ UNCHANGED <<last_used, misuse, pc, list, cur, new_bb>>

AddAtHead(l, n, block, len, s) ==
  /\ data_blocks[l] # nullptr
  /\ bb[data_blocks[l]].block > block
  /\ Filled(l, n, block, len, s) /\ Unused(l, block, len)
  /\ next' = [next EXCEPT ![n] = data_blocks[l]]
  /\ data_blocks' = [data_blocks EXCEPT ![l] = n]
  /\ owner' = [owner EXCEPT ![n] = l]
  /\ UNCHANGED <<last_used, misuse, pc, list, cur, new_bb>>

\* Where the search starts.
FirstBb(l, block) ==
  IF last_used[l] # nullptr /\ block > bb[last_used[l]].block
  THEN last_used[l] ELSE data_blocks[l]

AddBehind(l, n, block, len, s) ==
  /\ data_blocks[l] # nullptr
  /\ bb[data_blocks[l]].block <= block
  /\ Filled(l, n, block, len, s)
  /\ Unused(l, block, len) \/ AtPartialBlock(l, block, len, s.src)
  /\ next' = [next EXCEPT ![n] = nullptr]
  /\ owner' = [owner EXCEPT ![n] = Fresh]
  /\ cur' = FirstBb(l, block)
  /\ last_used' = [last_used EXCEPT ![l] = n]
  /\ list' = l /\ new_bb' = n
  /\ pc' = "search"
  /\ UNCHANGED <<data_blocks, misuse>>

\* The for loop of queue_bb, and the linking after it.
NextIsBefore == next[cur] # nullptr /\ bb[next[cur]].block < bb[new_bb].block

Search ==
  /\ pc = "search"
  /\ NextIsBefore
  /\ cur' = next[cur]
  /\ UNCHANGED <<data_blocks, last_used, next, bb, owner, misuse, pc, list, new_bb>>

Link ==
  /\ pc = "search"
  /\ ~NextIsBefore
  /\ next' = [next EXCEPT ![new_bb] = next[cur], ![cur] = new_bb]
  /\ owner' = [owner EXCEPT ![new_bb] = list]
  /\ misuse' = [misuse EXCEPT ![list] = IF Unused(list, bb[new_bb].block, bb[new_bb].len)
                                          THEN @ ELSE "added_twice"]
  /\ pc' = "merge_next"
  /\ UNCHANGED <<data_blocks, last_used, bb, list, cur, new_bb>>

\* Defect: a block padded at its end counts as adjacent to the next one.
CanMergePadded(a, b) ==
  /\ b # nullptr
  /\ bb[a].type = bb[b].type
  /\ bb[a].block + (bb[a].len + BlockSize - 1) \div BlockSize = bb[b].block
  /\ bb[a].type # "data"
  /\ bb[a].src = bb[b].src
  /\ bb[a].type # "fill" => bb[a].off + bb[a].len = bb[b].off

\* merge_bb(a, b): whether it merges, and what it then does.  The quotient
\* rounds down, so a block padded at its end is never adjacent; data blocks
\* are never merged.  The assert() that a starts first is compiled out: the
\* build defines NDEBUG.
CanMerge(a, b) ==
  /\ b # nullptr
  /\ bb[a].type = bb[b].type
  /\ (bb[a].block + bb[a].len \div BlockSize) % Wrap = bb[b].block
  /\ bb[a].type # "data"
  /\ bb[a].src = bb[b].src
  /\ bb[a].type # "fill" => bb[a].off + bb[a].len = bb[b].off

Merge(a, b) ==
  /\ bb' = [bb EXCEPT ![a].len = (@ + bb[b].len) % Wrap, ![b] = Poison]
  /\ next' = [next EXCEPT ![a] = next[b], ![b] = nullptr]
  /\ owner' = [owner EXCEPT ![b] = Free]

MergeNext ==
  /\ pc = "merge_next"
  /\ pc' = "merge_prev"
  /\ \/ CanMerge(new_bb, next[new_bb]) /\ Merge(new_bb, next[new_bb])
     \/ ~CanMerge(new_bb, next[new_bb]) /\ UNCHANGED <<bb, next, owner>>
  /\ UNCHANGED <<data_blocks, last_used, misuse, list, cur, new_bb>>

\* Defect: last_used still points to the cell that was freed.
MergePrevStale ==
  /\ pc = "merge_prev"
  /\ pc' = "idle"
  /\ \/ CanMerge(cur, new_bb) /\ Merge(cur, new_bb)
     \/ ~CanMerge(cur, new_bb) /\ UNCHANGED <<bb, next, owner>>
  /\ list' = nullptr /\ cur' = nullptr /\ new_bb' = nullptr
  /\ UNCHANGED <<data_blocks, last_used, misuse>>

MergePrev ==
  /\ pc = "merge_prev"
  /\ pc' = "idle"
  /\ \/ /\ CanMerge(cur, new_bb)
        /\ Merge(cur, new_bb)
        /\ last_used' = [last_used EXCEPT ![list] = cur]
     \/ /\ ~CanMerge(cur, new_bb)
        /\ UNCHANGED <<bb, next, owner, last_used>>
  /\ list' = nullptr /\ cur' = nullptr /\ new_bb' = nullptr
  /\ UNCHANGED <<data_blocks, misuse>>

\* backed_block_split(l, n, max): cell n keeps 'max' bytes, rounded down to
\* whole blocks, and a new cell m behind it gets the rest.  Only resparse
\* splits and moves; append2simg writes what it added and ends.
AlignDown(k) == k - (k % BlockSize)

Split(l, n, m, max) ==
  LET k == AlignDown(max)
  IN  /\ pc = "idle"
      /\ misuse[l] # "added_twice"
      /\ owner[n] = l /\ owner[m] = Free
      /\ k > 0                    \* resparse leaves room for a block, see SparseTools
      /\ bb[n].len > k
      /\ bb' = [bb EXCEPT
                  ![n].len = k,
                  ![m] = [bb[n] EXCEPT !.len = @ - k,
                                       !.block = @ + k \div BlockSize,
                                       !.off = IF bb[n].type = "fill" THEN @ ELSE @ + k]]
      /\ next' = [next EXCEPT ![m] = next[n], ![n] = m]
      /\ owner' = [owner EXCEPT ![m] = l]
      /\ UNCHANGED <<data_blocks, last_used, misuse, pc, list, cur, new_bb>>

\* backed_block_list_move(from, to, start, end), where start is always the
\* head of 'from': the cells up to 'end' go behind the first cell of 'to' that
\* is the last one or has a next one that starts later.
Behind(to, block) == {b \in In(to) : next[b] = nullptr \/ bb[next[b]].block > block}
LastBefore(to, block) ==
  CHOOSE b \in Behind(to, block) : \A c \in Behind(to, block) : b \in UpTo(to, c)

\* In sparse_file_resparse() all lists hold parts of one image.  A piece, and
\* the list that collects the pieces nobody takes, get what lies behind all
\* they have; so does in_s, which is empty when the pieces go back to it,
\* unless a counting pass failed: then they go behind its first cell.
ListMove(from, to, end) ==
  LET start == data_blocks[from]
      moved == UpTo(from, end)
  IN  /\ pc = "idle"
      /\ from # to /\ owner[end] = from
      /\ "added_twice" \notin {misuse[from], misuse[to]}
      /\ \A n \in moved, m \in In(to) : End(m) <= Start(n) \/ End(n) <= Start(m)
      /\ last_used' = [last_used EXCEPT ![from] = nullptr, ![to] = nullptr]
      /\ \/ /\ data_blocks[to] = nullptr
            /\ data_blocks' = [data_blocks EXCEPT ![from] = next[end], ![to] = start]
            /\ next' = [next EXCEPT ![end] = nullptr]
         \/ /\ data_blocks[to] # nullptr
            /\ data_blocks' = [data_blocks EXCEPT ![from] = next[end]]
            /\ LET b == LastBefore(to, bb[start].block)
               IN  next' = [next EXCEPT ![end] = next[b], ![b] = start]
      /\ owner' = [n \in Nodes |-> IF n \in moved THEN to ELSE owner[n]]
      /\ misuse' = [misuse EXCEPT
                      ![to] = IF /\ misuse[from] = "none"
                                 /\ \A m \in In(to) : End(m) <= Start(start)
                              THEN @ ELSE "moved_back"]
      /\ UNCHANGED <<bb, pc, list, cur, new_bb>>

\* backed_block_list_destroy, and list_new for the next sparse file.
ListDestroy(l) ==
  /\ pc = "idle"
  /\ data_blocks' = [data_blocks EXCEPT ![l] = nullptr]
  /\ last_used' = [last_used EXCEPT ![l] = nullptr]
  /\ owner' = [n \in Nodes |-> IF owner[n] = l THEN Free ELSE owner[n]]
  /\ bb' = [n \in Nodes |-> IF owner[n] = l THEN Poison ELSE bb[n]]
  /\ next' = [n \in Nodes |-> IF owner[n] = l THEN nullptr ELSE next[n]]
  /\ misuse' = [misuse EXCEPT ![l] = "none"]
  /\ UNCHANGED <<pc, list, cur, new_bb>>

Add(l) ==
  \E n \in Nodes, block \in 0 .. Blocks - 1, len \in Lens, s \in Sources :
    \/ AddFirst(l, n, block, len, s)
    \/ AddAtHead(l, n, block, len, s)
    \/ AddBehind(l, n, block, len, s)

Next ==
  \/ Search \/ Link \/ MergeNext \/ MergePrev
  \/ \E l \in Lists :
       \/ Add(l)
       \/ \E n, m \in Nodes, max \in MaxLens : Split(l, n, m, max)
       \/ \E to \in Lists, end \in Nodes : ListMove(l, to, end)
       \/ ListDestroy(l)

Spec == Init /\ [][Next]_vars
-----------------------------------------------------------------------------
\* Type correctness.
TypeOK ==
  /\ data_blocks \in [Lists -> Nodes \union {nullptr}]
  /\ last_used \in [Lists -> Nodes \union {nullptr}]
  /\ next \in [Nodes -> Nodes \union {nullptr}]
  /\ owner \in [Nodes -> Owners]
  /\ bb \in [Nodes -> BackedBlock \union {Poison}]
  /\ \A n \in Nodes : owner[n] # Free => bb[n] \in BackedBlock
  /\ misuse \in [Lists -> {"none", "added_twice", "moved_back"}]
  /\ pc \in {"idle", "search", "merge_next", "merge_prev"}
  /\ list \in Lists \union {nullptr}
  /\ {cur, new_bb} \subseteq Nodes \union {nullptr}

\* The links of a list follow the order of its blocks: the head starts first,
\* and 'next' leads to the cell of the list that starts next, whatever the
\* order of the calls.  The search of queue_bb, the writer and resparse all
\* walk the list taking this for granted.
Sorted(l) ==
  /\ In(l) = {} => data_blocks[l] = nullptr
  /\ In(l) # {} => data_blocks[l] \in In(l)
  /\ \A n, m \in In(l) :
       /\ bb[data_blocks[l]].block <= bb[m].block
       /\ n # m => bb[n].block # bb[m].block
       /\ bb[n].block < bb[m].block =>
            /\ next[n] \in In(l)
            /\ bb[n].block < bb[next[n]].block
            /\ bb[next[n]].block <= bb[m].block
  /\ \A n \in In(l) : next[n] # nullptr => next[n] \in In(l) /\ bb[n].block < bb[next[n]].block

ListSorted == \A l \in Lists : misuse[l] = "none" => Sorted(l)

\* No byte of the image is backed twice: merges and splits never make two
\* cells of a list overlap, nor run past the end of the image.
Disjoint(l) ==
  \A n \in In(l) :
    /\ bb[n].len > 0 /\ End(n) <= Size
    /\ \A m \in In(l) : /\ n # m => bb[n].block # bb[m].block
                        /\ bb[n].block < bb[m].block => End(n) <= Start(m)

BlocksDisjoint == \A l \in Lists : misuse[l] # "added_twice" => Disjoint(l)

\* last_used, from which the next search starts, never dangles: it is null or
\* a cell of its own list, although merge_bb frees cells and list_move takes
\* them away.
LastUsedListed ==
  \A l \in Lists :
    last_used[l] \in In(l) \union {nullptr} \union (IF pc = "search" /\ list = l THEN {new_bb} ELSE {})

\* Walking a list, in order or not, reaches every cell allocated for it: none
\* leaks, and what was added gets written.
ChainWhole == \A l \in Lists : Chain(l) = In(l)

\* The locals of queue_bb() are valid from step to step.  'bb' is a cell of the
\* list, although merge_bb() frees cells between the two uses, and stays the
\* place of the new cell; no cell is allocated and not linked but the new one.
QueueSound ==
  /\ \A n \in Nodes : owner[n] = Fresh => pc = "search" /\ n = new_bb
  /\ pc # "idle" =>
       /\ list \in Lists /\ cur \in In(list)
       /\ new_bb \in Nodes /\ last_used[list] = new_bb
  /\ pc = "search" =>
       /\ owner[new_bb] = Fresh /\ misuse[list] = "none"
       /\ bb[new_bb].len > 0 /\ End(new_bb) <= Size
       /\ \/ /\ Unused(list, bb[new_bb].block, bb[new_bb].len)
             /\ bb[cur].block < bb[new_bb].block
          \/ /\ AtPartialBlock(list, bb[new_bb].block, bb[new_bb].len, bb[new_bb].src)
             /\ bb[cur].block <= bb[new_bb].block
  /\ pc \in {"merge_next", "merge_prev"} =>
       /\ owner[new_bb] = list /\ next[cur] = new_bb
       /\ misuse[list] = "none" => bb[cur].block < bb[new_bb].block
       /\ misuse[list] # "none" =>
            \A m \in In(list) \ {new_bb} : bb[m].src # bb[new_bb].src

\* What every function of backed_block.cpp finds and leaves: lists in order and
\* regions that do not overlap, but for those that were misused, and no pointer
\* that dangles or cell that leaks.
ListInv ==
  TypeOK /\ ListSorted /\ BlocksDisjoint /\ LastUsedListed /\ ChainWhole /\ QueueSound

\* The list implements the abstract image: queueing, with its merges, adds
\* exactly the region it was given, a split changes nothing, and a move moves
\* exactly the bytes before its end or, from a list that cells were moved back
\* to, some of the bytes and loses none.
Refines == Img!Spec

\* A merge only joins two cells: the image the list stands for, whose maximum
\* size sparse.h gives as 2**32 blocks, is the same before and after.
MergeKeepsContents ==
  [][MergeNext \/ MergePrev => \A l \in Lists : Content(l)' = Content(l)]_vars
=============================================================================
