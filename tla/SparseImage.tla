---------------------------- MODULE SparseImage ----------------------------
(***************************************************************************)
(* What a sparse file cookie promises (public/sparse/sparse.h): it         *)
(* associates every byte of the expanded image with a byte of a source, or *)
(* with nothing ("don't care").  What is in a cookie stays there until it  *)
(* is moved to another one, in resparse, or until the cookie is destroyed. *)
(*                                                                         *)
(* A region should only be added where nothing is yet: of a byte that was  *)
(* added twice there are two, and which one is written is not promised.    *)
(* What is moved is the beginning of the image, except from a cookie that  *)
(* got something back although it had something further on.                *)
(***************************************************************************)
EXTENDS Naturals

CONSTANTS Cookies,    \* the sparse files
          Size,       \* the number of bytes of the expanded image
          Sources     \* what a region can be backed by

VARIABLES content,    \* content[c][p]: what was added for byte p of cookie c
          shuffled    \* the cookies that something was moved back to

vars == <<content, shuffled>>

Bytes == 0 .. Size - 1

\* Byte d of a region backed by s: the fill value, or the byte of the buffer
\* or file that far after the offset.
SourceByte(s, d) == IF s.type = "fill" THEN s ELSE [s EXCEPT !.off = @ + d]

Empty == [p \in Bytes |-> {}]

Init ==
  /\ content = [c \in Cookies |-> Empty]
  /\ shuffled = {}

\* sparse_file_add_data, _fill, _file, _fd.  'old' and 'new' are the contents
\* of the cookie.
Add(old, new, start, len, s) ==
  LET region == start .. start + len - 1
  IN  /\ region \subseteq Bytes
      /\ new = [p \in Bytes |-> IF p \in region THEN old[p] \union {SourceByte(s, p - start)}
                               ELSE old[p]]

\* Some bytes move from one cookie to another that has nothing there.
Used(image) == {p \in Bytes : image[p] # {}}

Move(from, fromNew, to, toNew, moved) ==
  /\ moved \subseteq Used(from)
  /\ moved \intersect Used(to) = {}
  /\ fromNew = [p \in Bytes |-> IF p \in moved THEN {} ELSE from[p]]
  /\ toNew = [p \in Bytes |-> IF p \in moved THEN from[p] ELSE to[p]]

\* Every byte of ps lies before every byte of qs.
Before(ps, qs) == \A p \in ps, q \in qs : p < q

Unchanged(cs) == \A c \in cs : content'[c] = content[c]

Next ==
  \E c \in Cookies :
    LET old == content[c]
        new == content'[c]
    IN  \/ /\ Unchanged(Cookies \ {c})
           /\ \/ new = Empty /\ shuffled' = shuffled \ {c}
              \/ /\ new # old
                 /\ \E start \in Bytes, len \in 1 .. Size, s \in Sources :
                      Add(old, new, start, len, s)
                 /\ shuffled' = shuffled
        \/ \E d \in Cookies \ {c} :
             LET to == content[d]
                 toNew == content'[d]
                 moved == Used(old) \ Used(new)
             IN  /\ Unchanged(Cookies \ {c, d})
                 /\ new # old
                 /\ Move(old, new, to, toNew, moved)
                 /\ c \in shuffled \/ Before(moved, Used(old) \ moved)
                 /\ \/ shuffled' = shuffled
                    \/ /\ c \in shuffled \/ ~Before(Used(to), moved)
                       /\ shuffled' = shuffled \union {d}

Spec == Init /\ [][Next]_vars
=============================================================================
