-------------------------- MODULE HashFooterProofs --------------------------
(***************************************************************************)
(* HashFooter's invariants hold for images, partitions and vbmeta blobs of *)
(* any size, any number of calls and interruptions anywhere.               *)
(***************************************************************************)
EXTENDS HashFooter, TLAPS

\* Rounding to the blocks of an image.
LEMMA RoundUpFacts ==
  ASSUME NEW n \in Nat
  PROVE  /\ RoundUp(n) \in Nat /\ n <= RoundUp(n) /\ RoundUp(n) < n + BLOCK_SIZE
         /\ RoundUp(n) % BLOCK_SIZE = 0
         /\ n # 0 => RoundUp(n) # 0
BY DEF RoundUp, BLOCK_SIZE

\* A multiple of the block size bounds the rounded size as well.
LEMMA RoundUpBelow ==
  ASSUME NEW n \in Nat, NEW m \in Nat, n <= m, m % BLOCK_SIZE = 0
  PROVE  RoundUp(n) <= m
BY DEF RoundUp, BLOCK_SIZE

LEMMA SmallModulo ==
  ASSUME NEW m \in Nat \ {0}, NEW n \in Nat, n < m
  PROVE  n % m = n
OBVIOUS

\* toInt() changes nothing that is not larger than an Int.
LEMMA ToIntSmall ==
  ASSUME NEW n \in Nat, n <= INT_MAX
  PROVE  ToInt(n) = n
<1>1. INT_MAX \in Nat
  BY FooterAssumption
<1>2. n + INT_MAX + 1 \in Nat /\ 2 * (INT_MAX + 1) \in Nat \ {0}
      /\ n + INT_MAX + 1 < 2 * (INT_MAX + 1)
  BY <1>1
<1>3. (n + INT_MAX + 1) % (2 * (INT_MAX + 1)) = n + INT_MAX + 1
  BY <1>2, SmallModulo
<1> QED BY <1>1, <1>3 DEF ToInt

LEMMA ToIntType ==
  ASSUME NEW n \in Int
  PROVE  ToInt(n) \in Int
<1>1. INT_MAX \in Nat
  BY FooterAssumption
<1>2. n + INT_MAX + 1 \in Int /\ 2 * (INT_MAX + 1) \in Nat \ {0}
  BY <1>1
<1>3. (n + INT_MAX + 1) % (2 * (INT_MAX + 1)) \in Int
  BY <1>2
<1> QED BY <1>1, <1>3 DEF ToInt
-----------------------------------------------------------------------------
(***************************************************************************)
(* Files that are cut and grow.                                            *)
(***************************************************************************)
LEMMA CutFile ==
  ASSUME NEW f, IsFile(f), NEW n \in Nat
  PROVE  IsFile(Cut(f, n)) /\ Cut(f, n).len <= f.len
         /\ \A o \in DOMAIN Cut(f, n).at : o \in DOMAIN f.at /\ Cut(f, n).at[o] = f.at[o]
<1>1. CASE n >= f.len
  BY <1>1 DEF Cut, IsFile
<1>2. CASE ~(n >= f.len)
  <2> DEFINE kept == {o \in DOMAIN f.at : o + f.at[o].size <= n}
             g == [o \in kept |-> f.at[o]]
             c == [data |-> f.data, len |-> n, at |-> g]
  <2>1. Cut(f, n) = c
    BY <1>2 DEF Cut
  <2>2. /\ DOMAIN g = kept /\ g = [o \in DOMAIN g |-> g[o]]
        /\ \A o \in kept : o \in DOMAIN f.at /\ g[o] = f.at[o] /\ o + g[o].size <= n
    OBVIOUS
  <2>3. c.data = f.data /\ c.len = n /\ c.at = g
    OBVIOUS
  <2>4. c = [data |-> c.data, len |-> c.len, at |-> c.at]
    OBVIOUS
  <2> HIDE DEF c, g, kept
  <2> QED BY <1>2, <2>1, <2>2, <2>3, <2>4 DEF IsFile
<1> QED BY <1>1, <1>2

LEMMA GrowFile ==
  ASSUME NEW f, IsFile(f), NEW n \in Nat
  PROVE  /\ IsFile(Grow(f, n)) /\ Grow(f, n).len = f.len + n /\ Grow(f, n).at = f.at
         /\ Grow(f, n).data = f.data
<1>1. /\ Grow(f, n).data = f.data /\ Grow(f, n).len = f.len + n /\ Grow(f, n).at = f.at
      /\ Grow(f, n) = [data |-> Grow(f, n).data, len |-> Grow(f, n).len, at |-> Grow(f, n).at]
  BY DEF Grow
<1>2. \A o \in DOMAIN f.at : o \in Nat /\ f.at[o].size \in Nat /\ o + f.at[o].size <= f.len
  BY DEF IsFile, Piece
<1>3. f.len \in Nat
  BY DEF IsFile
<1>4. \A o \in DOMAIN f.at : o + f.at[o].size <= f.len + n
  BY <1>2, <1>3
<1> QED BY <1>1, <1>3, <1>4 DEF IsFile

\* A piece p at offset o, in bytes appended to f.
LEMMA PutFile ==
  ASSUME NEW f, IsFile(f), NEW n \in Nat, NEW o \in Nat, NEW p \in Piece,
         o >= f.len, o + p.size <= f.len + n
  PROVE  LET g == Put(f, n, o, p)
         IN /\ IsFile(g) /\ g.len = f.len + n /\ g.data = f.data
            /\ DOMAIN g.at = DOMAIN f.at \union {o} /\ o \notin DOMAIN f.at
            /\ g.at[o] = p /\ \A x \in DOMAIN f.at : g.at[x] = f.at[x]
<1> DEFINE h == [x \in DOMAIN f.at \union {o} |-> IF x = o THEN p ELSE f.at[x]]
           g == [data |-> f.data, len |-> f.len + n, at |-> h]
<1>1. Put(f, n, o, p) = g
  BY DEF Put
<1>2. /\ g.data = f.data /\ g.len = f.len + n /\ g.at = h
      /\ g = [data |-> g.data, len |-> g.len, at |-> g.at]
  OBVIOUS
<1>3. f.len \in Nat /\ \A x \in DOMAIN f.at : /\ x \in Nat /\ f.at[x] \in Piece
                                              /\ f.at[x].size \in Nat \ {0}
                                              /\ x + f.at[x].size <= f.len
  BY DEF IsFile, Piece
<1>4. o \notin DOMAIN f.at
  <2>1. ASSUME NEW x \in DOMAIN f.at PROVE x < f.len
    <3>1. x \in Nat /\ f.at[x].size \in Nat \ {0} /\ x + f.at[x].size <= f.len
      BY <1>3
    <3>2. \A a, b, c \in Nat : b # 0 /\ a + b <= c => a < c
      OBVIOUS
    <3> QED BY <1>3, <3>1, <3>2
  <2> QED BY <1>3, <2>1
<1>5. /\ DOMAIN h = DOMAIN f.at \union {o} /\ h = [x \in DOMAIN h |-> h[x]]
      /\ h[o] = p /\ \A x \in DOMAIN f.at : h[x] = f.at[x]
  BY <1>4
<1> HIDE DEF h, g
<1>6. \A x \in DOMAIN h : x \in Nat /\ h[x] \in Piece /\ x + h[x].size <= f.len + n
  <2>1. ASSUME NEW x \in DOMAIN f.at
        PROVE  x \in Nat /\ h[x] \in Piece /\ x + h[x].size <= f.len + n
    <3>1. x \in Nat /\ f.at[x] \in Piece /\ f.at[x].size \in Nat /\ x + f.at[x].size <= f.len
      BY <1>3
    <3>2. \A a, b \in Nat : a + b <= f.len => a + b <= f.len + n
      BY <1>3
    <3> QED BY <1>5, <3>1, <3>2
  <2> QED BY <1>5, <2>1
<1>7. IsFile(g)
  <2>1. f.data \in Data
    BY DEF IsFile
  <2>2. f.len + n \in Nat
    BY <1>3
  <2> QED BY <1>2, <1>5, <1>6, <2>1, <2>2 DEF IsFile
<1> QED BY <1>1, <1>2, <1>4, <1>5, <1>7

\* Two cuts of files that agree below the cut.
LEMMA SameCut ==
  ASSUME NEW f, IsFile(f), NEW g, IsFile(g), NEW n \in Nat,
         n <= f.len, f.len < g.len, g.data = f.data,
         DOMAIN f.at \subseteq DOMAIN g.at,
         \A x \in DOMAIN f.at : g.at[x] = f.at[x],
         \A x \in DOMAIN g.at : x \in DOMAIN f.at \/ x >= f.len
  PROVE  Cut(g, n) = Cut(f, n)
<1> DEFINE kf == {x \in DOMAIN f.at : x + f.at[x].size <= n}
           kg == {x \in DOMAIN g.at : x + g.at[x].size <= n}
<1>1. f.len \in Nat /\ g.len \in Nat
  BY DEF IsFile
<1>2. \A x \in DOMAIN g.at : x \in Nat /\ g.at[x].size \in Nat \ {0}
  BY DEF IsFile, Piece
<1>3. \A x \in DOMAIN f.at : x + f.at[x].size <= f.len
  BY DEF IsFile
<1>4. kg = kf
  <2>1. ASSUME NEW x \in kg PROVE x \in kf
    <3>1. x \in Nat /\ g.at[x].size \in Nat \ {0} /\ x + g.at[x].size <= n
      BY <1>2, <2>1
    <3>2. \A a, b \in Nat : b # 0 /\ a + b <= n => a < f.len
      BY <1>1
    <3>3. x < f.len
      BY <3>1, <3>2
    <3> QED BY <1>1, <2>1, <3>1, <3>3
  <2> QED BY <2>1
<1>5. [x \in kg |-> g.at[x]] = [x \in kf |-> f.at[x]]
  BY <1>4
<1>6. Cut(g, n) = [data |-> f.data, len |-> n, at |-> [x \in kf |-> f.at[x]]]
  BY <1>1, <1>5 DEF Cut
<1>7. CASE n < f.len
  BY <1>1, <1>6, <1>7 DEF Cut
<1>8. CASE n = f.len
  <2>1. kf = DOMAIN f.at
    BY <1>3, <1>8
  <2>2. Cut(g, n) = f
    BY <1>6, <1>8, <2>1 DEF IsFile
  <2> QED BY <1>1, <1>8, <2>2 DEF Cut
<1> QED BY <1>1, <1>7, <1>8

LEMMA CutGrow ==
  ASSUME NEW f, IsFile(f), NEW n \in Nat, NEW k \in Nat, k <= f.len
  PROVE  Cut(Grow(f, n), k) = Cut(f, k)
<1>1. f.len \in Nat
  BY DEF IsFile
<1>2. CASE n = 0
  <2>1. Grow(f, n) = f
    <3>1. f.len + n = f.len
      BY <1>1, <1>2
    <3> QED BY <3>1 DEF Grow, IsFile
  <2> QED BY <2>1
<1>3. CASE n # 0
  <2>1. f.len < f.len + n
    BY <1>1, <1>3
  <2> QED BY <2>1, GrowFile, SameCut
<1> QED BY <1>2, <1>3

LEMMA CutPut ==
  ASSUME NEW f, IsFile(f), NEW n \in Nat, NEW o \in Nat, NEW p \in Piece,
         o >= f.len, o + p.size <= f.len + n, NEW k \in Nat, k <= f.len
  PROVE  Cut(Put(f, n, o, p), k) = Cut(f, k)
<1>1. f.len \in Nat /\ p.size \in Nat \ {0}
  BY DEF IsFile, Piece
<1>2. f.len < f.len + n
  BY <1>1
<1> DEFINE g == Put(f, n, o, p)
<1>3. /\ IsFile(g) /\ g.len = f.len + n /\ g.data = f.data
      /\ DOMAIN g.at = DOMAIN f.at \union {o}
      /\ \A x \in DOMAIN f.at : g.at[x] = f.at[x]
  BY PutFile
<1> HIDE DEF g
<1>4. Cut(g, k) = Cut(f, k)
  BY <1>2, <1>3, SameCut
<1> QED BY <1>4 DEF g
-----------------------------------------------------------------------------
(***************************************************************************)
(* The inductive invariant.  A footer of our own is only ever the very end *)
(* of the file, because every call cuts it off before it appends anything. *)
(***************************************************************************)
Own(f, o) == f.at[o].kind = "footer" /\ f.at[o].call # 0
NoOwn(f) == \A o \in DOMAIN f.at : ~Own(f, o)

OwnSound(f) ==
  \A o \in DOMAIN f.at :
    Own(f, o) => o = f.len - FOOTER_SIZE /\ f.at[o].call \in 1 .. calls /\ Sound(f, f.at[o])

Writing == {"pad", "vbmeta", "chunk", "footer"}

VBMetaPiece ==
  [kind |-> "vbmeta", size |-> RoundUp(blob), call |-> calls,
   orig |-> NewImageSize, vbmetaOffset |-> 0, vbmetaSize |-> blob]

\* What has been appended so far.
Written ==
  pc \in Writing =>
    /\ NoOwn(file)
    /\ Cut(file, NewImageSize) = hashed[calls]
    /\ pc = "pad" => file = hashed[calls]
    /\ pc = "vbmeta" => file.len = VBMetaOffset
    /\ pc = "chunk" => file.len = VBMetaEndOffset
    /\ pc = "footer" => /\ ToInt(DontCareChunkSize) >= 0
                        /\ file.len = VBMetaEndOffset + ToInt(DontCareChunkSize)
    /\ pc \in {"chunk", "footer"} =>
         VBMetaOffset \in DOMAIN file.at /\ file.at[VBMetaOffset] = VBMetaPiece

\* What the call was given and has made of it.
Request ==
  /\ OwnSound(given)
  /\ pc \in Writing \union {"trim"} => ImageSizeOK(psize, given.len) /\ blob # 0
  /\ pc = "trim" => file = given
  /\ pc \in Writing \union {"done"} => calls # 0 /\ hashed[calls] = Trimmed(given)

Filled == pc = "done" /\ Moderate => HasFooter(file) /\ file.len = psize

IInv == TypeOK /\ OwnSound(file) /\ Written /\ Request /\ Filled

LEMMA TrimmedFile ==
  ASSUME NEW f, IsFile(f), OwnSound(f)
  PROVE  IsFile(Trimmed(f)) /\ Trimmed(f).len <= f.len /\ NoOwn(Trimmed(f))
<1>1. f.len \in Nat /\ \A o \in DOMAIN f.at : f.at[o] \in Piece
  BY DEF IsFile
<1>2. CASE ~HasFooter(f)
  BY <1>1, <1>2 DEF Trimmed, HasFooter, NoOwn, Own, OwnSound
<1>3. CASE HasFooter(f)
  <2> DEFINE p == FooterOf(f)
             c == Cut(f, p.orig)
  <2>1. p \in Piece /\ p.orig \in Nat /\ p = f.at[f.len - FOOTER_SIZE]
        /\ f.len - FOOTER_SIZE \in DOMAIN f.at
    BY <1>1, <1>3 DEF HasFooter, FooterOf, Piece
  <2>2. /\ IsFile(c) /\ c.len <= f.len
        /\ \A o \in DOMAIN c.at : o \in DOMAIN f.at /\ c.at[o] = f.at[o]
    BY <2>1, CutFile
  <2>3. Trimmed(f) = c
    BY <1>3 DEF Trimmed
  <2>4. ASSUME NEW o \in DOMAIN c.at, Own(c, o) PROVE FALSE
    <3>1. Own(f, o) /\ o \in DOMAIN f.at
      BY <2>2, <2>4 DEF Own
    <3>2. o = f.len - FOOTER_SIZE /\ Sound(f, p)
      BY <2>1, <3>1 DEF OwnSound
    <3>3. p.orig <= p.vbmetaOffset /\ p.vbmetaOffset \in DOMAIN f.at
          /\ p.vbmetaOffset + f.at[p.vbmetaOffset].size + BLOCK_SIZE <= f.len
      BY <3>2 DEF Sound
    <3>4. p.vbmetaOffset \in Nat /\ f.at[p.vbmetaOffset].size \in Nat
      BY <1>1, <2>1, <3>3 DEF Piece
    <3>5. p.orig < f.len - FOOTER_SIZE
      BY <1>1, <2>1, <3>3, <3>4 DEF BLOCK_SIZE, FOOTER_SIZE
    <3>6. c.len = p.orig
      BY <1>1, <2>1, <3>5 DEF Cut, FOOTER_SIZE
    <3>7. o + c.at[o].size <= c.len /\ c.at[o].size \in Nat
      BY <2>2, <2>4 DEF IsFile, Piece
    <3> HIDE DEF p, c
    <3> QED BY <1>1, <2>1, <3>2, <3>5, <3>6, <3>7 DEF FOOTER_SIZE
  <2> QED BY <2>2, <2>3, <2>4 DEF NoOwn
<1> QED BY <1>2, <1>3

\* The numbers the writes of a call are computed from.
LEMMA Numbers ==
  ASSUME TypeOK, calls # 0
  PROVE  /\ NewImageSize \in Nat /\ VBMetaOffset \in Nat /\ NewImageSize <= VBMetaOffset
         /\ VBMetaOffset % BLOCK_SIZE = 0
         /\ RoundUp(blob) \in Nat /\ blob <= RoundUp(blob) /\ (blob # 0 => RoundUp(blob) # 0)
         /\ VBMetaEndOffset = VBMetaOffset + RoundUp(blob)
         /\ DontCareChunkSize \in Int /\ ToInt(DontCareChunkSize) \in Int
         /\ DontCareChunkSize = psize - VBMetaOffset - RoundUp(blob) - BLOCK_SIZE
<1>1. IsFile(hashed[calls])
  BY DEF TypeOK
<1>2. NewImageSize \in Nat /\ blob \in Nat /\ psize \in Nat
  BY <1>1 DEF NewImageSize, IsFile, TypeOK
<1>3. /\ VBMetaOffset \in Nat /\ NewImageSize <= VBMetaOffset /\ VBMetaOffset % BLOCK_SIZE = 0
      /\ RoundUp(blob) \in Nat /\ blob <= RoundUp(blob) /\ (blob # 0 => RoundUp(blob) # 0)
  BY <1>2, RoundUpFacts DEF VBMetaOffset
<1>4. DontCareChunkSize \in Int
      /\ DontCareChunkSize = psize - VBMetaOffset - RoundUp(blob) - BLOCK_SIZE
  BY <1>2, <1>3 DEF DontCareChunkSize, VBMetaEndOffset, BLOCK_SIZE
<1>5. ToInt(DontCareChunkSize) \in Int
  BY <1>4, ToIntType
<1> QED BY <1>2, <1>3, <1>4, <1>5 DEF VBMetaEndOffset

\* imageSizeCheck() leaves room for everything that is appended.
LEMMA Room ==
  ASSUME TypeOK, Request, pc \in Writing, Moderate
  PROVE  DontCareChunkSize \in Nat /\ ToInt(DontCareChunkSize) = DontCareChunkSize
         /\ VBMetaEndOffset + DontCareChunkSize = psize - BLOCK_SIZE
<1>1. calls # 0 /\ hashed[calls] = Trimmed(given) /\ ImageSizeOK(psize, given.len)
      /\ OwnSound(given) /\ IsFile(given)
  BY DEF Request, TypeOK
<1>2. NewImageSize <= given.len /\ given.len \in Nat
  BY <1>1, TrimmedFile DEF NewImageSize, IsFile
<1>3. psize \in Nat /\ blob \in Nat /\ psize <= INT_MAX /\ blob <= MAX_VBMETA_SIZE
      /\ INT_MAX \in Nat
  BY FooterAssumption DEF TypeOK, Moderate
<1>4. psize % BLOCK_SIZE = 0 /\ given.len <= psize - 69632 /\ psize >= 69632
  BY <1>1 DEF ImageSizeOK, MAX_VBMETA_SIZE, MAX_FOOTER_SIZE
<1>5. psize - 69632 \in Nat /\ (psize - 69632) % BLOCK_SIZE = 0
  BY <1>3, <1>4 DEF BLOCK_SIZE
<1>6. NewImageSize \in Nat /\ NewImageSize <= psize - 69632
  BY <1>1, <1>2, <1>3, <1>4, Numbers
<1>7. VBMetaOffset <= psize - 69632
  BY <1>5, <1>6, RoundUpBelow DEF VBMetaOffset
<1>8. RoundUp(blob) <= 65536
  <2>1. 65536 \in Nat /\ 65536 % BLOCK_SIZE = 0
    BY DEF BLOCK_SIZE
  <2> QED BY <1>3, <2>1, RoundUpBelow DEF MAX_VBMETA_SIZE
<1>9. /\ VBMetaOffset \in Nat /\ RoundUp(blob) \in Nat
      /\ DontCareChunkSize = psize - VBMetaOffset - RoundUp(blob) - BLOCK_SIZE
      /\ VBMetaEndOffset = VBMetaOffset + RoundUp(blob)
  BY <1>1, Numbers
<1>10. DontCareChunkSize \in Nat /\ DontCareChunkSize <= INT_MAX
       /\ VBMetaEndOffset + DontCareChunkSize = psize - BLOCK_SIZE
  BY <1>3, <1>7, <1>8, <1>9 DEF BLOCK_SIZE
<1> QED BY <1>10, ToIntSmall

\* A state in which nothing of the current call is on record.
LEMMA Quiet ==
  ASSUME TypeOK, OwnSound(file), OwnSound(given), pc \in {"idle", "rejected", "failed"}
  PROVE  IInv
BY DEF IInv, Written, Request, Filled, Writing

LEMMA InitIInv == Init => IInv
<1> SUFFICES ASSUME Init PROVE IInv
  OBVIOUS
<1>1. IsFile(file) /\ \A o \in DOMAIN file.at : file.at[o].call = 0
  BY FooterAssumption DEF Init
<1>2. TypeOK
  BY <1>1 DEF Init, TypeOK
<1>3. OwnSound(file) /\ OwnSound(given)
  BY <1>1 DEF Init, OwnSound, Own
<1> QED BY <1>2, <1>3, Quiet DEF Init

LEMMA ReplaceIInv ==
  ASSUME IInv, NEW f \in Images, Replace(f)
  PROVE  IInv'
<1>1. IsFile(f) /\ \A o \in DOMAIN f.at : f.at[o].call = 0
  BY FooterAssumption
<1>2. TypeOK'
  BY <1>1 DEF IInv, TypeOK, Replace
<1>3. OwnSound(file)' /\ OwnSound(given)'
  BY <1>1 DEF IInv, Request, Replace, OwnSound, Own, Sound
<1> QED BY <1>2, <1>3 DEF Replace, IInv, Written, Request, Filled, Writing

LEMMA CallIInv ==
  ASSUME IInv, NEW p \in PartitionSizes, NEW b \in BlobSizes, Call(p, b)
  PROVE  IInv'
<1>1. p \in Nat /\ b \in Nat \ {0}
  BY FooterAssumption
<1>2. TypeOK'
  BY <1>1 DEF IInv, TypeOK, Call
<1>3. OwnSound(file)' /\ OwnSound(given)'
  BY DEF IInv, Call, OwnSound, Own, Sound
<1>4. pc' = "trim" => ImageSizeOK(psize', given'.len) /\ blob' # 0 /\ file' = given'
  BY <1>1 DEF Call
<1>5. pc' \in {"trim", "rejected"}
  BY DEF Call
<1>6. Request'
  BY <1>3, <1>4, <1>5 DEF Request, Writing
<1>7. Written' /\ Filled'
  BY <1>5 DEF Written, Filled, Writing
<1> QED BY <1>2, <1>3, <1>6, <1>7 DEF IInv

LEMMA TrimFooterIInv ==
  ASSUME IInv, TrimFooter
  PROVE  IInv'
<1>1. pc = "trim" /\ TypeOK /\ OwnSound(file) /\ file = given /\ ImageSizeOK(psize, given.len)
      /\ blob # 0 /\ OwnSound(given)
  BY DEF IInv, Request, TrimFooter
<1> DEFINE t == Trimmed(file)
<1>2. IsFile(t) /\ NoOwn(t)
  BY <1>1, TrimmedFile DEF TypeOK
<1>3. /\ file' = t /\ calls' = calls + 1 /\ given' = given /\ psize' = psize /\ blob' = blob
      /\ hashed' = [c \in 1 .. calls + 1 |-> IF c = calls + 1 THEN t ELSE hashed[c]]
      /\ pc' = "pad"
  BY DEF TrimFooter
<1> HIDE DEF t
<1>4. calls \in Nat /\ calls + 1 \in 1 .. calls + 1
      /\ \A c \in 1 .. calls : c \in 1 .. calls + 1 /\ c # calls + 1
  BY <1>1 DEF TypeOK
<1>5. /\ DOMAIN hashed' = 1 .. calls' /\ hashed'[calls'] = t /\ calls' # 0 /\ calls' \in Nat
      /\ \A c \in 1 .. calls : hashed'[c] = hashed[c]
  BY <1>3, <1>4
<1>6. TypeOK'
  <2>1. \A c \in 1 .. calls' : IsFile(hashed'[c])
    BY <1>1, <1>2, <1>3, <1>4 DEF TypeOK
  <2> QED BY <1>1, <1>2, <1>3, <1>5, <2>1 DEF TypeOK
<1>7. OwnSound(given)'
  <2>1. ASSUME NEW o \in DOMAIN given.at, Own(given, o)
        PROVE  /\ o = given.len - FOOTER_SIZE /\ given.at[o].call \in 1 .. calls'
               /\ Sound(given, given.at[o])'
    <3>1. /\ o = given.len - FOOTER_SIZE /\ given.at[o].call \in 1 .. calls
          /\ Sound(given, given.at[o])
      BY <1>1, <2>1 DEF OwnSound
    <3>2. hashed'[given.at[o].call] = hashed[given.at[o].call]
      BY <1>5, <3>1
    <3>3. given.at[o].call \in 1 .. calls'
      BY <1>3, <1>4, <3>1
    <3> QED BY <1>3, <3>1, <3>2, <3>3 DEF Sound
  <2> QED BY <1>3, <2>1 DEF OwnSound, Own
<1>8. OwnSound(file)'
  BY <1>2, <1>3 DEF OwnSound, NoOwn, Own
<1>9. Request'
  BY <1>1, <1>3, <1>5, <1>7 DEF Request, Writing, t
<1>10. Cut(t, t.len) = t
  BY <1>2 DEF Cut, IsFile
<1>11. Written'
  BY <1>2, <1>3, <1>5, <1>10 DEF Written, Writing, NewImageSize, NoOwn, Own
<1>12. Filled'
  BY <1>3 DEF Filled
<1> QED BY <1>6, <1>8, <1>9, <1>11, <1>12 DEF IInv

\* What the steps that write have in common.
WriteStep ==
  UNCHANGED <<calls, hashed, given, psize, blob>>

LEMMA WriteFrame ==
  ASSUME WriteStep
  PROVE  /\ NewImageSize' = NewImageSize /\ VBMetaOffset' = VBMetaOffset
         /\ VBMetaEndOffset' = VBMetaEndOffset /\ DontCareChunkSize' = DontCareChunkSize
         /\ VBMetaPiece' = VBMetaPiece /\ Moderate' = Moderate
         /\ (OwnSound(given) => OwnSound(given)')
         /\ hashed'[calls'] = hashed[calls]
BY DEF WriteStep, NewImageSize, VBMetaOffset, VBMetaEndOffset, DontCareChunkSize, VBMetaPiece,
       Moderate, OwnSound, Own, Sound

LEMMA WriteRequest ==
  ASSUME IInv, WriteStep, pc \in Writing, pc' \in Writing \union {"done", "failed"}
  PROVE  Request'
<1>1. OwnSound(given)'
  BY WriteFrame DEF IInv, Request
<1>2. pc \in Writing /\ Request
  BY DEF IInv
<1> QED BY <1>1, <1>2 DEF WriteStep, Request, Writing

LEMMA WriteType ==
  ASSUME TypeOK, WriteStep, IsFile(file'),
         pc' \in {"vbmeta", "chunk", "footer", "done", "failed"}
  PROVE  TypeOK'
BY DEF TypeOK, WriteStep

LEMMA NoOwnSound ==
  ASSUME NEW f, NoOwn(f)
  PROVE  OwnSound(f)
BY DEF NoOwn, OwnSound

LEMMA PadImageIInv ==
  ASSUME IInv, PadImage
  PROVE  IInv'
<1>1. pc = "pad" /\ TypeOK /\ calls # 0 /\ NoOwn(file) /\ file = hashed[calls] /\ pc \in Writing
      /\ Cut(file, NewImageSize) = hashed[calls] /\ IsFile(file) /\ Request
  BY DEF IInv, Request, Written, Writing, PadImage, TypeOK
<1>2. WriteStep /\ pc' = "vbmeta" /\ file' = Grow(file, VBMetaOffset - NewImageSize)
  BY DEF PadImage, WriteStep
<1>3. NewImageSize \in Nat /\ VBMetaOffset \in Nat /\ VBMetaOffset - NewImageSize \in Nat
      /\ file.len = NewImageSize
  BY <1>1, Numbers DEF NewImageSize
<1>4. /\ IsFile(file') /\ file'.at = file.at /\ file'.len = VBMetaOffset
      /\ Cut(file', NewImageSize) = Cut(file, NewImageSize)
  <2>1. file.len + (VBMetaOffset - NewImageSize) = VBMetaOffset
    BY <1>3
  <2> QED BY <1>1, <1>2, <1>3, <2>1, GrowFile, CutGrow
<1>5. TypeOK' /\ Request'
  BY <1>1, <1>2, <1>4, WriteType, WriteRequest DEF Writing
<1>6. NoOwn(file)' /\ OwnSound(file)'
  BY <1>1, <1>4 DEF NoOwn, Own, OwnSound
<1>7. Written' /\ Filled'
  BY <1>1, <1>2, <1>4, <1>6, WriteFrame DEF Written, Filled, Writing
<1> QED BY <1>5, <1>6, <1>7 DEF IInv

LEMMA AppendVBMetaIInv ==
  ASSUME IInv, AppendVBMeta
  PROVE  IInv'
<1>1. pc = "vbmeta" /\ TypeOK /\ calls # 0 /\ NoOwn(file) /\ pc \in Writing /\ blob # 0
      /\ Cut(file, NewImageSize) = hashed[calls] /\ IsFile(file) /\ Request
      /\ file.len = VBMetaOffset
  BY DEF IInv, Request, Written, Writing, AppendVBMeta, TypeOK
<1>2. WriteStep /\ pc' = "chunk" /\ file' = Put(file, RoundUp(blob), file.len, VBMetaPiece)
  BY DEF AppendVBMeta, WriteStep, VBMetaPiece
<1>3. /\ NewImageSize \in Nat /\ VBMetaOffset \in Nat /\ NewImageSize <= VBMetaOffset
      /\ RoundUp(blob) \in Nat \ {0} /\ VBMetaEndOffset = VBMetaOffset + RoundUp(blob)
  BY <1>1, Numbers
<1>4. VBMetaPiece \in Piece /\ VBMetaPiece.size = RoundUp(blob) /\ VBMetaPiece.kind = "vbmeta"
  BY <1>1, <1>3 DEF VBMetaPiece, Piece, TypeOK
<1>5. /\ IsFile(file') /\ file'.len = VBMetaEndOffset
      /\ DOMAIN file'.at = DOMAIN file.at \union {VBMetaOffset}
      /\ file'.at[VBMetaOffset] = VBMetaPiece
      /\ \A x \in DOMAIN file.at : file'.at[x] = file.at[x]
  BY <1>1, <1>2, <1>3, <1>4, PutFile
<1>6. Cut(file', NewImageSize) = Cut(file, NewImageSize)
  BY <1>1, <1>2, <1>3, <1>4, CutPut
<1>7. TypeOK' /\ Request'
  BY <1>1, <1>2, <1>5, WriteType, WriteRequest DEF Writing
<1>8. NoOwn(file)' /\ OwnSound(file)'
  BY <1>1, <1>4, <1>5 DEF NoOwn, Own, OwnSound
<1>9. Written' /\ Filled'
  BY <1>1, <1>2, <1>5, <1>6, <1>8, WriteFrame DEF Written, Filled, Writing
<1> QED BY <1>7, <1>8, <1>9 DEF IInv

LEMMA AppendChunkIInv ==
  ASSUME IInv, AppendChunk
  PROVE  IInv'
<1>1. pc = "chunk" /\ TypeOK /\ calls # 0 /\ NoOwn(file) /\ pc \in Writing
      /\ Cut(file, NewImageSize) = hashed[calls] /\ IsFile(file) /\ Request
      /\ file.len = VBMetaEndOffset /\ ToInt(DontCareChunkSize) >= 0
      /\ VBMetaOffset \in DOMAIN file.at /\ file.at[VBMetaOffset] = VBMetaPiece
  BY DEF IInv, Request, Written, Writing, AppendChunk, TypeOK
<1>2. WriteStep /\ pc' = "footer" /\ file' = Grow(file, ToInt(DontCareChunkSize))
  BY DEF AppendChunk, WriteStep
<1>3. /\ NewImageSize \in Nat /\ VBMetaOffset \in Nat /\ NewImageSize <= VBMetaOffset
      /\ RoundUp(blob) \in Nat /\ VBMetaEndOffset = VBMetaOffset + RoundUp(blob)
      /\ ToInt(DontCareChunkSize) \in Int
  BY <1>1, Numbers
<1>4. ToInt(DontCareChunkSize) \in Nat /\ NewImageSize <= file.len
  BY <1>1, <1>3
<1>5. /\ IsFile(file') /\ file'.at = file.at
      /\ file'.len = VBMetaEndOffset + ToInt(DontCareChunkSize)
      /\ Cut(file', NewImageSize) = Cut(file, NewImageSize)
  BY <1>1, <1>2, <1>3, <1>4, GrowFile, CutGrow
<1>6. TypeOK' /\ Request'
  BY <1>1, <1>2, <1>5, WriteType, WriteRequest DEF Writing
<1>7. NoOwn(file)' /\ OwnSound(file)'
  BY <1>1, <1>5 DEF NoOwn, Own, OwnSound
<1>8. ToInt(DontCareChunkSize)' = ToInt(DontCareChunkSize)
  BY <1>2, WriteFrame DEF ToInt
<1>9. Written' /\ Filled'
  BY <1>1, <1>2, <1>5, <1>7, <1>8, WriteFrame DEF Written, Filled, Writing
<1> QED BY <1>6, <1>7, <1>9 DEF IInv

LEMMA AppendFooterIInv ==
  ASSUME IInv, AppendFooter
  PROVE  IInv'
<1> DEFINE c == ToInt(DontCareChunkSize)
           o == file.len + BLOCK_SIZE - FOOTER_SIZE
           p == [kind |-> "footer", size |-> FOOTER_SIZE, call |-> calls,
                 orig |-> NewImageSize, vbmetaOffset |-> VBMetaOffset, vbmetaSize |-> blob]
<1>1. pc = "footer" /\ TypeOK /\ calls # 0 /\ NoOwn(file) /\ pc \in Writing
      /\ Cut(file, NewImageSize) = hashed[calls] /\ IsFile(file) /\ Request
      /\ file.len = VBMetaEndOffset + c /\ c >= 0
      /\ VBMetaOffset \in DOMAIN file.at /\ file.at[VBMetaOffset] = VBMetaPiece
  BY DEF IInv, Request, Written, Writing, AppendFooter, TypeOK
<1>2. WriteStep /\ pc' = "done" /\ file' = Put(file, BLOCK_SIZE, o, p)
  BY DEF AppendFooter, WriteStep
<1>3. /\ NewImageSize \in Nat /\ VBMetaOffset \in Nat /\ NewImageSize <= VBMetaOffset
      /\ VBMetaOffset % BLOCK_SIZE = 0 /\ blob <= RoundUp(blob)
      /\ RoundUp(blob) \in Nat /\ VBMetaEndOffset = VBMetaOffset + RoundUp(blob)
      /\ c \in Int
  BY <1>1, Numbers
<1>4. c \in Nat /\ NewImageSize <= file.len /\ file.len \in Nat /\ o \in Nat
      /\ VBMetaOffset + RoundUp(blob) <= file.len
      /\ o >= file.len /\ o + FOOTER_SIZE = file.len + BLOCK_SIZE /\ BLOCK_SIZE \in Nat
  BY <1>1, <1>3 DEF BLOCK_SIZE, FOOTER_SIZE
<1>5. /\ p \in Piece /\ p.size = FOOTER_SIZE /\ p.kind = "footer" /\ p.call = calls
      /\ p.orig = NewImageSize /\ p.vbmetaOffset = VBMetaOffset /\ p.vbmetaSize = blob
  BY <1>1, <1>3 DEF Piece, FOOTER_SIZE, TypeOK
<1>6. /\ VBMetaPiece.kind = "vbmeta" /\ VBMetaPiece.call = calls /\ VBMetaPiece.orig = NewImageSize
      /\ VBMetaPiece.vbmetaSize = blob /\ VBMetaPiece.size = RoundUp(blob)
  BY DEF VBMetaPiece
<1> HIDE DEF p, c, o
<1>7. /\ IsFile(file') /\ file'.len = file.len + BLOCK_SIZE
      /\ DOMAIN file'.at = DOMAIN file.at \union {o} /\ o \notin DOMAIN file.at
      /\ file'.at[o] = p /\ \A x \in DOMAIN file.at : file'.at[x] = file.at[x]
      /\ Cut(file', NewImageSize) = Cut(file, NewImageSize)
  <2>1. o + p.size <= file.len + BLOCK_SIZE
    BY <1>4, <1>5
  <2>2. /\ IsFile(file') /\ file'.len = file.len + BLOCK_SIZE
        /\ DOMAIN file'.at = DOMAIN file.at \union {o} /\ o \notin DOMAIN file.at
        /\ file'.at[o] = p /\ \A x \in DOMAIN file.at : file'.at[x] = file.at[x]
    BY <1>1, <1>2, <1>4, <1>5, <2>1, PutFile
  <2>3. Cut(file', NewImageSize) = Cut(file, NewImageSize)
    BY <1>1, <1>2, <1>3, <1>4, <1>5, <2>1, CutPut
  <2> QED BY <2>2, <2>3
<1>8. TypeOK' /\ Request'
  BY <1>1, <1>2, <1>7, WriteType, WriteRequest DEF Writing
<1>9. o = file'.len - FOOTER_SIZE
  BY <1>4, <1>7 DEF BLOCK_SIZE, FOOTER_SIZE
<1>10. Sound(file, p)'
  <2>1. p' = p
    BY <1>2, WriteFrame DEF p, WriteStep
  <2>2. VBMetaOffset \in DOMAIN file'.at /\ file'.at[VBMetaOffset] = VBMetaPiece
    BY <1>1, <1>7
  <2>3. VBMetaOffset + RoundUp(blob) + BLOCK_SIZE <= file'.len
    BY <1>3, <1>4, <1>7
  <2>4. hashed'[calls] = Cut(file', NewImageSize)
    BY <1>1, <1>2, <1>7 DEF WriteStep
  <2> QED BY <1>3, <1>5, <1>6, <2>1, <2>2, <2>3, <2>4 DEF Sound
<1>11. OwnSound(file)'
  <2>1. ASSUME NEW x \in DOMAIN file'.at, Own(file', x)
        PROVE  x = o
    BY <1>1, <1>7, <2>1 DEF NoOwn, Own
  <2>2. p.call \in 1 .. calls'
    BY <1>1, <1>2, <1>5 DEF WriteStep, TypeOK
  <2>3. p' = p
    BY <1>2, WriteFrame DEF p, WriteStep
  <2> QED BY <1>7, <1>9, <1>10, <2>1, <2>2, <2>3 DEF OwnSound, Own
<1>12. Filled'
  <2> SUFFICES ASSUME Moderate PROVE HasFooter(file') /\ file'.len = psize'
    BY <1>2, WriteFrame DEF Filled
  <2>1. file'.len = psize
    <3>1. VBMetaEndOffset + c = psize - BLOCK_SIZE
      BY <1>1, Room DEF c
    <3>2. psize \in Nat
      BY <1>1 DEF TypeOK
    <3> QED BY <1>1, <1>7, <3>1, <3>2 DEF BLOCK_SIZE
  <2> QED BY <1>2, <1>5, <1>7, <1>9, <2>1 DEF HasFooter, WriteStep
<1>13. Written'
  BY <1>2 DEF Written, Writing
<1> QED BY <1>8, <1>11, <1>12, <1>13 DEF IInv

LEMMA NegativeChunkIInv ==
  ASSUME IInv, NegativeChunk
  PROVE  IInv'
<1>1. WriteStep /\ pc' = "failed" /\ file' = file /\ pc \in Writing
  BY DEF NegativeChunk, WriteStep, Writing
<1>2. TypeOK' /\ Request'
  BY <1>1, WriteType, WriteRequest DEF IInv, TypeOK
<1>3. OwnSound(file)'
  BY <1>1 DEF IInv, OwnSound, Own, Sound, WriteStep
<1> QED BY <1>1, <1>2, <1>3 DEF IInv, Written, Filled, Writing

LEMMA InterruptIInv ==
  ASSUME IInv, NEW n \in Cuts, Interrupt(n)
  PROVE  IInv'
<1>1. WriteStep /\ pc' = "failed" /\ file' = Grow(file, n) /\ n \in Nat
      /\ pc \in Writing \union {"trim"} /\ IsFile(file) /\ TypeOK
  BY FooterAssumption DEF Interrupt, WriteStep, Writing, IInv, TypeOK
<1>2. IsFile(file') /\ file'.at = file.at
  BY <1>1, GrowFile
<1>3. TypeOK'
  BY <1>1, <1>2, WriteType
<1>4. OwnSound(given)'
  BY <1>1, WriteFrame DEF IInv, Request
<1>5. OwnSound(file)'
  <2>1. CASE pc = "trim"
    <3>1. n = 0
      BY <1>1, <2>1 DEF Interrupt, WriteSize
    <3>2. file' = file
      <4>1. file.len + 0 = file.len
        BY <1>1 DEF IsFile
      <4> QED BY <1>1, <3>1, <4>1 DEF Grow, IsFile
    <3> QED BY <1>1, <3>2 DEF IInv, OwnSound, Own, Sound, WriteStep
  <2>2. CASE pc \in Writing
    BY <1>2, <2>2 DEF IInv, Written, NoOwn, OwnSound, Own
  <2> QED BY <1>1, <2>1, <2>2
<1> QED BY <1>1, <1>3, <1>4, <1>5 DEF IInv, Written, Request, Filled, Writing

LEMMA NextIInv == IInv /\ [Next]_vars => IInv'
<1> SUFFICES ASSUME IInv, [Next]_vars PROVE IInv'
  OBVIOUS
<1>1. CASE UNCHANGED vars
  <2>1. TypeOK' /\ OwnSound(file)' /\ OwnSound(given)'
    BY <1>1 DEF vars, IInv, TypeOK, Request, OwnSound, Own, Sound
  <2>2. Written'
    BY <1>1 DEF vars, IInv, Written, NewImageSize, VBMetaOffset, VBMetaEndOffset,
                DontCareChunkSize, VBMetaPiece, ToInt
  <2>3. Request' /\ Filled'
    BY <1>1, <2>1 DEF vars, IInv, Request, Filled, Moderate
  <2> QED BY <2>1, <2>2, <2>3 DEF IInv
<1>2. CASE \E f \in Images : Replace(f)
  BY <1>2, ReplaceIInv
<1>3. CASE \E p \in PartitionSizes, b \in BlobSizes : Call(p, b)
  BY <1>3, CallIInv
<1>4. CASE \E n \in Cuts : Interrupt(n)
  BY <1>4, InterruptIInv
<1> QED BY <1>1, <1>2, <1>3, <1>4, TrimFooterIInv, PadImageIInv, AppendVBMetaIInv,
           AppendChunkIInv, NegativeChunkIInv, AppendFooterIInv DEF Next

LEMMA IInvAlways == Spec => []IInv
BY InitIInv, NextIInv, PTL DEF Spec
-----------------------------------------------------------------------------
\* The variables of addHashFooter() and the file are always well formed.
THEOREM FooterTypeCorrect == Spec => []TypeOK
<1>1. IInv => TypeOK
  BY DEF IInv
<1> QED BY <1>1, IInvAlways, PTL

\* A file that ends in a footer of addHashFooter() is completely signed, for
\* images of any size and however often the writes were interrupted.
THEOREM FooterIsSound == Spec => []FooterSound
<1>1. IInv => FooterSound
  BY DEF IInv, OwnSound, Own, FooterSound, HasFooter, FooterOf
<1> QED BY <1>1, IInvAlways, PTL

\* What imageSizeCheck() lets pass fits, to the byte.
THEOREM PartitionFilled == Spec => []FillsPartition
<1>1. IInv => FillsPartition
  <2> SUFFICES ASSUME IInv, Moderate
               PROVE  /\ pc = "chunk" => DontCareChunkSize >= 0
                      /\ pc = "done" => HasFooter(file) /\ file.len = psize
    BY DEF FillsPartition
  <2>1. ASSUME pc = "chunk" PROVE DontCareChunkSize >= 0
    BY <2>1, Room DEF IInv, Writing
  <2> QED BY <2>1 DEF IInv, Filled
<1> QED BY <1>1, IInvAlways, PTL

\* Signing again signs the image that was signed before.
THEOREM SameImageSigned == Spec => []SignsSameImage
<1>1. IInv => SignsSameImage
  <2> SUFFICES ASSUME IInv, pc = "done", HasFooter(given), FooterOf(given).call # 0
               PROVE  hashed[calls] = hashed[FooterOf(given).call]
    BY DEF SignsSameImage
  <2>1. Sound(given, FooterOf(given))
    BY DEF IInv, Request, OwnSound, Own, HasFooter, FooterOf
  <2>2. hashed[calls] = Cut(given, FooterOf(given).orig)
    BY DEF IInv, Request, Writing, Trimmed
  <2> QED BY <2>1, <2>2 DEF Sound
<1> QED BY <1>1, IInvAlways, PTL
=============================================================================
