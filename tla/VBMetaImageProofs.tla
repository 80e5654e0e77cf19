------------------------- MODULE VBMetaImageProofs -------------------------
(***************************************************************************)
(* What libavb accepts lies in the buffer, and the two walks over its      *)
(* descriptors find the same ones, for every size of a word and every      *)
(* image.  What the editor writes libavb accepts, lists in order and finds *)
(* again, and the editor's own lists change in place only.                 *)
(***************************************************************************)
EXTENDS VBMetaWriter, AvbDescriptorsProofs

(***************************************************************************)
(* The inductive invariant adds to the properties where the walk stands:   *)
(* its pointer is in the region of the descriptors, and at the end of the  *)
(* last descriptor it has put into the table.                              *)
(***************************************************************************)
Linked == \A i \in 1 .. Len(table) - 1 : table[i + 1] = EndOf(table[i])
FirstAtStart == table # <<>> => image.data + table[1] = DescStart
TableInside == \A i \in 1 .. Len(table) : table[i] <= image.length

Pointer == pc = "loop" => RegionInside /\ DescStart <= p /\ p <= DescEnd

Progress ==
  /\ cb # "set" \/ pc = "begin" => table = <<>>
  /\ cb = "set" => pc \notin {"verify", "ready", "allocate"}
  /\ pc = "loop" /\ cb = "set" =>
       p = IF table = <<>> THEN DescStart ELSE image.data + EndOf(table[Len(table)])

Ended ==
  Walked => /\ RegionInside
            /\ DescEnd = IF table = <<>> THEN DescStart
                         ELSE image.data + EndOf(table[Len(table)])

IInv == TypeOK /\ AcceptedInside /\ Linked /\ FirstAtStart /\ TableInside
          /\ Pointer /\ Progress /\ Ended
-----------------------------------------------------------------------------
(***************************************************************************)
(* Words                                                                   *)
(***************************************************************************)

LEMMA WordsAreNats == \A w \in Words : w \in Nat
  BY SizesAssumption DEF Words

\* avb_safe_add() tells whether a sum is the true one.
LEMMA SafeAddIsTrue ==
  ASSUME NEW a \in Words, NEW b \in Words
  PROVE  /\ Sum(a, b) \in Words
         /\ SafeAdd(a, b) <=> a + b < WORD
         /\ SafeAdd(a, b) => Sum(a, b) = a + b
  BY SizesAssumption DEF Sum, SafeAdd, Words

\* A part that is found to be in its block is in it.
LEMMA InBlockIsTrue ==
  ASSUME NEW a \in Words, NEW b \in Words, NEW c \in Words, InBlock(a, b, c)
  PROVE  a + b <= c
  BY SafeAddIsTrue DEF InBlock

\* Blocks that are found to fit do.
LEMMA BlocksFitIsTrue ==
  ASSUME NEW i, IsImage(i), BlocksFit(i)
  PROVE  HEADER_SIZE + i.h.authentication_data_block_size
           + i.h.auxiliary_data_block_size <= i.length
  <1> DEFINE a == i.h.authentication_data_block_size
             b == i.h.auxiliary_data_block_size
  <1>1. HEADER_SIZE \in Words /\ a \in Words /\ b \in Words
    BY SizesAssumption DEF IsImage, Header
  <1>2. Sum(HEADER_SIZE, a) = HEADER_SIZE + a /\ Sum(HEADER_SIZE, a) \in Words
    BY <1>1, SafeAddIsTrue DEF BlocksFit
  <1>3. Sum(Sum(HEADER_SIZE, a), b) = Sum(HEADER_SIZE, a) + b
    BY <1>1, <1>2, SafeAddIsTrue DEF BlocksFit
  <1>4. Sum(Sum(HEADER_SIZE, a), b) <= i.length
    BY DEF BlocksFit
  <1> QED
    BY <1>2, <1>3, <1>4

\* The parts of a descriptor that are found to fit do.
LEMMA ContentsFitIsTrue ==
  ASSUME NEW d \in Desc, ContentsFit(d)
  PROVE  FIXED[d.tag] + d.len[1] + d.len[2] + d.len[3]
           <= DESCRIPTOR_SIZE + d.num_bytes_following
  <1> DEFINE f == FIXED[d.tag] - DESCRIPTOR_SIZE
             s1 == Sum(f, d.len[1])
             s2 == Sum(s1, d.len[2])
             s3 == Sum(s2, d.len[3])
  <1>1. /\ f \in Words
        /\ d.len[1] \in Words /\ d.len[2] \in Words /\ d.len[3] \in Words
        /\ d.num_bytes_following \in Words
        /\ FIXED[d.tag] \in Words /\ DESCRIPTOR_SIZE \in Words
    BY SizesAssumption DEF Desc, Words
  <1>2. s1 \in Words /\ s1 = f + d.len[1]
    BY <1>1, SafeAddIsTrue DEF ContentsFit
  <1>3. s2 \in Words /\ s2 = s1 + d.len[2]
    BY <1>1, <1>2, SafeAddIsTrue DEF ContentsFit
  <1>4. s3 \in Words /\ s3 = s2 + d.len[3] /\ s3 <= d.num_bytes_following
    BY <1>1, <1>3, SafeAddIsTrue DEF ContentsFit
  <1> HIDE DEF s1, s2, s3
  <1> QED
    BY <1>1, <1>2, <1>3, <1>4, SizesAssumption DEF Words
-----------------------------------------------------------------------------
(***************************************************************************)
(* Types                                                                   *)
(***************************************************************************)
LEMMA DescAtType ==
  ASSUME NEW i, IsImage(i), NEW o
  PROVE  DescAt(i, o) \in Desc
  BY DEF IsImage, DescAt

LEMMA ImageTypes ==
  ASSUME TypeOK
  PROVE  /\ image.data \in Words /\ image.length \in Words
         /\ ImageEnd = image.data + image.length /\ ImageEnd \in Words
         /\ AuxiliaryBlock \in Words
         /\ DescStart \in Words /\ DescEnd \in Words
         /\ Here \in Desc /\ Total \in Words
  <1>1. /\ image.data \in Words /\ image.length \in Words
        /\ image.data + image.length < WORD
        /\ image.h.authentication_data_block_size \in Words
        /\ image.h.descriptors_offset \in Words
        /\ image.h.descriptors_size \in Words
        /\ HEADER_SIZE \in Words /\ DESCRIPTOR_SIZE \in Words
    BY SizesAssumption DEF TypeOK, IsImage, Header
  <1>2. ImageEnd = image.data + image.length /\ ImageEnd \in Words
    BY <1>1, SizesAssumption DEF ImageEnd, Sum, Words
  <1>3. AuxiliaryBlock \in Words
    BY <1>1, SafeAddIsTrue DEF AuxiliaryBlock
  <1>4. DescStart \in Words
    BY <1>1, <1>3, SafeAddIsTrue DEF DescStart
  <1>5. DescEnd \in Words
    BY <1>1, <1>4, SafeAddIsTrue DEF DescEnd
  <1>6. Here \in Desc
    BY DescAtType DEF TypeOK, Here
  <1>7. Total \in Words
    BY <1>1, <1>6, SafeAddIsTrue DEF Total, Desc
  <1> QED
    BY <1>1, <1>2, <1>3, <1>4, <1>5, <1>6, <1>7

\* Nothing about the image changes while it is looked at.
LEMMA ImageStays ==
  ASSUME image' = image
  PROVE  /\ ImageEnd' = ImageEnd /\ DescStart' = DescStart /\ DescEnd' = DescEnd
         /\ RegionInside' = RegionInside
         /\ \A o : EndOf(o)' = EndOf(o)
  BY DEF ImageEnd, AuxiliaryBlock, DescStart, DescEnd, RegionInside, EndOf

\* A descriptor whose length was found valid, and behind which the pointer does
\* not wrap around, ends in the region, where the pointer goes next.
LEMMA NextPointer ==
  ASSUME TypeOK, RegionInside, DescStart <= p, LengthValid, SafeAdd(p, Total)
  PROVE  /\ Sum(p, Total) \in Words
         /\ DescStart <= Sum(p, Total) /\ Sum(p, Total) <= DescEnd
         /\ Sum(p, Total) = image.data + EndOf(p - image.data)
  <1>1. /\ p \in Words /\ Total \in Words /\ DESCRIPTOR_SIZE \in Words
        /\ Here.num_bytes_following \in Words
        /\ image.data \in Words /\ DescStart \in Words /\ DescEnd \in Words
    BY ImageTypes, SizesAssumption DEF TypeOK, Desc
  <1>2. p + Total < WORD /\ Sum(p, Total) = p + Total /\ Sum(p, Total) \in Words
    BY <1>1, SafeAddIsTrue
  <1>3. Sum(Total, p) = Sum(p, Total)
    BY <1>1, <1>2, SizesAssumption DEF Sum, Words
  <1>4. Total = DESCRIPTOR_SIZE + Here.num_bytes_following
    BY <1>1, SafeAddIsTrue DEF LengthValid, Total
  <1>5. image.data <= p
    BY <1>1, SizesAssumption DEF RegionInside, Words
  <1>6. EndOf(p - image.data) = (p - image.data) + DESCRIPTOR_SIZE + Here.num_bytes_following
    BY DEF EndOf, Here
  <1>7. Sum(p, Total) = image.data + EndOf(p - image.data)
    BY <1>1, <1>2, <1>4, <1>5, <1>6, SizesAssumption DEF Words
  <1> QED
    BY <1>2, <1>3, <1>7 DEF LengthValid

\* The offset of a pointer into the region.
LEMMA OffsetInside ==
  ASSUME TypeOK, RegionInside, DescStart <= p, p <= DescEnd
  PROVE  p - image.data \in Nat /\ p - image.data <= image.length
  <1>1. /\ p \in Words /\ image.data \in Words /\ image.length \in Words
        /\ ImageEnd = image.data + image.length
        /\ DescStart \in Words /\ DescEnd \in Words
    BY ImageTypes DEF TypeOK
  <1>2. image.data <= DescStart /\ DescEnd <= ImageEnd
    BY DEF RegionInside
  <1> QED
    BY <1>1, <1>2, SizesAssumption DEF Words
-----------------------------------------------------------------------------
(***************************************************************************)
(* The initial states and the step of avb_vbmeta_image_verify()            *)
(***************************************************************************)
\* Of an empty table there is nothing to say.
LEMMA EmptyTable ==
  ASSUME table = <<>>
  PROVE  Linked /\ FirstAtStart /\ TableInside
  <1>1. Len(table) = 0
    OBVIOUS
  <1>2. 1 .. Len(table) = {} /\ 1 .. Len(table) - 1 = {}
    BY <1>1
  <1> QED
    BY <1>2 DEF Linked, FirstAtStart, TableInside

LEMMA EmptyIsSeq == \A S : <<>> \in Seq(S)
  OBVIOUS

LEMMA PairIsSeq ==
  ASSUME NEW S, NEW a \in S, NEW b \in S
  PROVE  <<a, b>> \in Seq(S)
  OBVIOUS

LEMMA InitIInv == Init => IInv
  <1> SUFFICES ASSUME Init PROVE IInv
    OBVIOUS
  <1>1. TypeOK
    <2>1. 0 \in Words /\ WORD \in Nat
      BY SizesAssumption DEF Words
    <2>2. IsImage(image)
      BY ImagesAssumption DEF Init
    <2>3. verdict \in Verdicts
      BY DEF Init, Verdicts
    <2>4. pubkey \in Seq(Words) /\ table \in Seq(Nat)
      BY EmptyIsSeq DEF Init
    <2> QED
      BY <2>1, <2>2, <2>3, <2>4 DEF Init, TypeOK, NotFound
  <1>2. AcceptedInside
    BY DEF Init, AcceptedInside, Parsed
  <1>3. Linked /\ FirstAtStart /\ TableInside
    BY EmptyTable DEF Init
  <1>4. Pointer /\ Progress /\ Ended
    BY DEF Init, Pointer, Progress, Ended, Walked
  <1> QED
    BY <1>1, <1>2, <1>3, <1>4 DEF IInv

\* What an image has to be for each verdict that lets it pass.
LEMMA VerdictMeans ==
  ASSUME NEW i, IsImage(i), VBMetaVerify(i) \in Parsed
  PROVE  LayoutValid(i) /\ (VBMetaVerify(i) = "OK" => i.signature_matches)
  BY DEF VBMetaVerify, Parsed

LEMMA VerdictType ==
  ASSUME NEW i
  PROVE  VBMetaVerify(i) \in Verdicts
  BY DEF VBMetaVerify, Verdicts, Parsed

\* A layout that is found valid is, and the key in it is in the buffer.
LEMMA LayoutIsTrue ==
  ASSUME TypeOK, LayoutValid(image)
  PROVE  /\ HEADER_SIZE + image.h.authentication_data_block_size
              + image.h.auxiliary_data_block_size <= image.length
         /\ image.h.hash_offset + image.h.hash_size
              <= image.h.authentication_data_block_size
         /\ image.h.signature_offset + image.h.signature_size
              <= image.h.authentication_data_block_size
         /\ image.h.public_key_offset + image.h.public_key_size
              <= image.h.auxiliary_data_block_size
         /\ image.h.public_key_metadata_size > 0 =>
              image.h.public_key_metadata_offset + image.h.public_key_metadata_size
                <= image.h.auxiliary_data_block_size
         /\ Sum(AuxiliaryBlock, image.h.public_key_offset) \in Words
         /\ Sum(AuxiliaryBlock, image.h.public_key_offset)
              = image.data + HEADER_SIZE + image.h.authentication_data_block_size
                  + image.h.public_key_offset
  <1> DEFINE h == image.h
             auth == h.authentication_data_block_size
             aux == h.auxiliary_data_block_size
  <1>1. /\ IsImage(image)
        /\ auth \in Words /\ aux \in Words /\ HEADER_SIZE \in Words
        /\ h.hash_offset \in Words /\ h.hash_size \in Words
        /\ h.signature_offset \in Words /\ h.signature_size \in Words
        /\ h.public_key_offset \in Words /\ h.public_key_size \in Words
        /\ h.public_key_metadata_offset \in Words /\ h.public_key_metadata_size \in Words
        /\ image.data \in Words /\ image.length \in Words
        /\ image.data + image.length < WORD
    BY SizesAssumption DEF TypeOK, IsImage, Header
  <1>2. HEADER_SIZE + auth + aux <= image.length
    BY <1>1, BlocksFitIsTrue DEF LayoutValid
  <1>3. h.hash_offset + h.hash_size <= auth
    BY <1>1, InBlockIsTrue DEF LayoutValid
  <1>4. h.signature_offset + h.signature_size <= auth
    BY <1>1, InBlockIsTrue DEF LayoutValid
  <1>5. h.public_key_offset + h.public_key_size <= aux
    BY <1>1, InBlockIsTrue DEF LayoutValid
  <1>6. h.public_key_metadata_size > 0 =>
          h.public_key_metadata_offset + h.public_key_metadata_size <= aux
    BY <1>1, InBlockIsTrue DEF LayoutValid
  <1>7. image.data + HEADER_SIZE + auth + h.public_key_offset < WORD
    BY <1>1, <1>2, <1>5, SizesAssumption DEF Words
  <1>8. Sum(image.data, HEADER_SIZE) = image.data + HEADER_SIZE
    BY <1>1, <1>7, SizesAssumption DEF Sum, Words
  <1>9. AuxiliaryBlock = image.data + HEADER_SIZE + auth
    BY <1>1, <1>7, <1>8, SizesAssumption DEF Sum, Words, AuxiliaryBlock
  <1>10. Sum(AuxiliaryBlock, h.public_key_offset)
           = image.data + HEADER_SIZE + auth + h.public_key_offset
    BY <1>1, <1>7, <1>9, SizesAssumption DEF Sum, Words
  <1>11. Sum(AuxiliaryBlock, h.public_key_offset) \in Words
    BY <1>1, <1>7, <1>10, SizesAssumption DEF Words
  <1> QED
    BY <1>2, <1>3, <1>4, <1>5, <1>6, <1>10, <1>11

LEMMA VerifyIInv ==
  ASSUME IInv, Verify
  PROVE  IInv'
  <1> USE DEF IInv
  <1>1. /\ image' = image /\ cb' = cb /\ p' = p /\ ret' = ret /\ num' = num
        /\ table' = table /\ wanted' = wanted /\ value' = value
        /\ pc = "verify" /\ verdict' = VBMetaVerify(image)
        /\ pc' \in {"ready", "done"}
    BY DEF Verify
  <1>2. pubkey' # <<>> =>
          /\ verdict' = "OK"
          /\ pubkey' = <<Sum(AuxiliaryBlock, image.h.public_key_offset),
                         image.h.public_key_size>>
    BY DEF Verify
  <1>3. image.h.public_key_size \in Words
    BY DEF TypeOK, IsImage, Header
  <1>4. verdict' \in Parsed => LayoutValid(image)
    BY <1>1, VerdictMeans DEF TypeOK
  <1>5. verdict' = "OK" => image.signature_matches
    BY <1>1, VerdictMeans DEF TypeOK, Parsed
  <1>6. pubkey' \in Seq(Words)
    <2>1. CASE pubkey' = <<>>
      BY <2>1
    <2>2. CASE pubkey' # <<>>
      <3>1. Sum(AuxiliaryBlock, image.h.public_key_offset) \in Words
        BY <1>2, <1>4, <2>2, LayoutIsTrue DEF Parsed
      <3> QED
        BY <1>2, <1>3, <2>2, <3>1, PairIsSeq
    <2> QED
      BY <2>1, <2>2
  <1>7. TypeOK'
    BY <1>1, <1>6, VerdictType DEF TypeOK
  <1>8. AcceptedInside'
    <2>1. ASSUME pubkey' # <<>>
          PROVE  /\ verdict' = "OK" /\ image.signature_matches
                 /\ image.data <= pubkey'[1]
                 /\ pubkey'[1] + pubkey'[2] <= image.data + image.length
      <3> DEFINE auth == image.h.authentication_data_block_size
                 aux == image.h.auxiliary_data_block_size
                 at == image.h.public_key_offset
                 size == image.h.public_key_size
      <3>1. LayoutValid(image) /\ verdict' = "OK" /\ image.signature_matches
        BY <1>2, <1>4, <1>5, <2>1 DEF Parsed
      <3>2. pubkey'[1] = image.data + HEADER_SIZE + auth + at /\ pubkey'[2] = size
        BY <1>2, <2>1, <3>1, LayoutIsTrue
      <3>3. HEADER_SIZE + auth + aux <= image.length /\ at + size <= aux
        BY <3>1, LayoutIsTrue
      <3>4. /\ auth \in Nat /\ aux \in Nat /\ at \in Nat /\ size \in Nat
            /\ image.data \in Nat /\ image.length \in Nat /\ HEADER_SIZE \in Nat
        <4>1. /\ auth \in Words /\ aux \in Words /\ at \in Words /\ size \in Words
              /\ image.data \in Words /\ image.length \in Words /\ HEADER_SIZE \in Words
          BY SizesAssumption DEF TypeOK, IsImage, Header
        <4> QED
          BY <4>1, WordsAreNats
      <3> HIDE DEF auth, aux, at, size
      <3>5. image.data <= pubkey'[1]
        BY <3>2, <3>4
      <3>6. pubkey'[1] + pubkey'[2] <= image.data + image.length
        BY <3>2, <3>3, <3>4
      <3> QED
        BY <3>1, <3>5, <3>6
    <2>2. verdict' \in Parsed => LayoutValid(image)
      BY <1>4
    <2> QED
      BY <1>1, <2>1, <2>2, LayoutIsTrue DEF AcceptedInside
  <1>9. Linked' /\ FirstAtStart' /\ TableInside'
    BY <1>1, ImageStays DEF Linked, FirstAtStart, TableInside
  <1>10. Pointer' /\ Progress' /\ Ended'
    BY <1>1 DEF Pointer, Progress, Ended, Walked
  <1> QED
    BY <1>7, <1>8, <1>9, <1>10
-----------------------------------------------------------------------------
(***************************************************************************)
(* The steps of the walk                                                   *)
(***************************************************************************)

\* A step that leaves image, verdict and key alone keeps what is known of them.
LEMMA AcceptedStays ==
  ASSUME AcceptedInside, image' = image, verdict' = verdict, pubkey' = pubkey
  PROVE  AcceptedInside'
  BY DEF AcceptedInside

\* A step that leaves the table alone keeps what is known of it.
LEMMA TableStays ==
  ASSUME Linked, FirstAtStart, TableInside, image' = image, table' = table
  PROVE  Linked' /\ FirstAtStart' /\ TableInside'
  BY ImageStays DEF Linked, FirstAtStart, TableInside

\* The steps before and between the walks, and those that only end one.
LEMMA CallerIInv ==
  ASSUME IInv, GetAll \/ (\E key \in Keys : Lookup(key)) \/ Allocate \/ AllocateFails
                 \/ Misaligned \/ Terminated
  PROVE  IInv'
  <1> USE DEF IInv
  <1>1. TypeOK'
    <2>1. Uninitialized \in Nat
      BY SizesAssumption DEF Uninitialized
    <2>2. CASE GetAll
      BY <2>2 DEF TypeOK, GetAll
    <2>3. CASE \E key \in Keys : Lookup(key)
      BY <2>1, <2>3 DEF TypeOK, Lookup
    <2>4. CASE Allocate
      BY <2>4, EmptyIsSeq DEF TypeOK, Allocate
    <2>5. CASE AllocateFails
      BY <2>5 DEF TypeOK, AllocateFails
    <2>6. CASE Misaligned
      BY <2>6 DEF TypeOK, Misaligned
    <2>7. CASE Terminated
      BY <2>7 DEF TypeOK, Terminated, vars
    <2> QED
      BY <2>2, <2>3, <2>4, <2>5, <2>6, <2>7
  <1>2. image' = image /\ verdict' = verdict /\ pubkey' = pubkey
    BY DEF GetAll, Lookup, Allocate, AllocateFails, Misaligned, Terminated, vars
  <1>3. AcceptedInside'
    BY <1>2, AcceptedStays
  <1>4. table' = table
    BY DEF GetAll, Lookup, Allocate, AllocateFails, Misaligned, Terminated, vars, Progress
  <1>5. Linked' /\ FirstAtStart' /\ TableInside'
    BY <1>2, <1>4, TableStays
  <1>6. Pointer'
    BY DEF GetAll, Lookup, Allocate, AllocateFails, Misaligned, Terminated, vars, Pointer
  <1>7. Progress'
    BY <1>4 DEF GetAll, Lookup, Allocate, AllocateFails, Misaligned, Terminated, vars, Progress
  <1>8. Ended'
    <2>1. CASE Terminated
      BY <2>1, <1>2, ImageStays DEF Terminated, vars, Ended, Walked
    <2>2. CASE ~Terminated
      BY <2>2 DEF GetAll, Lookup, Allocate, AllocateFails, Misaligned, Ended, Walked
    <2> QED
      BY <2>1, <2>2
  <1> QED
    BY <1>1, <1>3, <1>5, <1>6, <1>7, <1>8

\* The walk begins at a start that was found to be in the image.
LEMMA BeginIInv ==
  ASSUME IInv, Begin
  PROVE  IInv'
  <1> USE DEF IInv
  <1>1. /\ pc = "begin" /\ pc' = "loop" /\ p' = DescStart /\ RegionInside
        /\ image' = image /\ verdict' = verdict /\ pubkey' = pubkey /\ cb' = cb
        /\ ret' = ret /\ num' = num /\ table' = table /\ wanted' = wanted /\ value' = value
    BY DEF Begin
  <1>2. TypeOK'
    BY <1>1, ImageTypes DEF TypeOK
  <1>3. AcceptedInside'
    BY <1>1, AcceptedStays
  <1>4. Linked' /\ FirstAtStart' /\ TableInside'
    BY <1>1, TableStays
  <1>5. DescStart \in Nat
    BY ImageTypes, SizesAssumption DEF Words
  <1>6. Pointer'
    BY <1>1, <1>5, ImageStays DEF Pointer, RegionInside
  <1>7. table' = <<>> /\ DescStart' = DescStart
    BY <1>1, ImageStays DEF Progress
  <1>8. Progress'
    BY <1>1, <1>7 DEF Progress
  <1>9. Ended'
    BY <1>1 DEF Ended, Walked
  <1> QED
    BY <1>2, <1>3, <1>4, <1>6, <1>8, <1>9

\* The walk returns: with TRUE only at the end of the descriptors.
LEMMA ReturnIInv ==
  ASSUME IInv, NEW result \in BOOLEAN, Return(result),
         image' = image, verdict' = verdict, pubkey' = pubkey, cb' = cb,
         p' = p, num' \in Nat, wanted' = wanted,
         table' \in Seq(Nat), Linked', FirstAtStart', TableInside',
         cb # "set" \/ result => table' = table,
         result => pc = "loop" /\ p >= DescEnd
  PROVE  IInv'
  <1> USE DEF IInv
  <1>1. pc' \in {"allocate", "done"} /\ (pc' = "allocate" => cb = "count") /\ ret' = result
    BY DEF Return
  <1>2. value' \in Nat
    BY SizesAssumption DEF Return, NotFound, TypeOK
  <1>3. TypeOK'
    BY <1>1, <1>2 DEF TypeOK
  <1>4. AcceptedInside'
    BY AcceptedStays
  <1>5. Pointer' /\ Progress'
    BY <1>1 DEF Pointer, Progress
  <1>6. Ended'
    <2>1. SUFFICES ASSUME result, cb = "set"
                   PROVE  /\ RegionInside
                          /\ DescEnd = IF table = <<>> THEN DescStart
                                       ELSE image.data + EndOf(table[Len(table)])
      BY <1>1, ImageStays DEF Ended, Walked
    <2>2. RegionInside /\ p <= DescEnd /\ p >= DescEnd
      BY <2>1 DEF Pointer
    <2>3. p \in Nat /\ DescEnd \in Nat
      BY ImageTypes, WordsAreNats DEF TypeOK
    <2>4. p = DescEnd
      BY <2>2, <2>3
    <2> QED
      BY <2>1, <2>2, <2>4 DEF Progress
  <1> QED
    BY <1>3, <1>4, <1>5, <1>6

LEMMA WalkEndsIInv ==
  ASSUME IInv, BeginFails \/ Finish \/ LengthFails
  PROVE  IInv'
  <1> USE DEF IInv
  <1>1. /\ image' = image /\ verdict' = verdict /\ pubkey' = pubkey /\ cb' = cb
        /\ p' = p /\ num' = num /\ table' = table /\ wanted' = wanted
    BY DEF BeginFails, Finish, LengthFails
  <1>2. Linked' /\ FirstAtStart' /\ TableInside'
    BY <1>1, TableStays
  <1>3. num' \in Nat /\ table' \in Seq(Nat)
    BY <1>1 DEF TypeOK
  <1>4. CASE BeginFails \/ LengthFails
    <2>1. Return(FALSE)
      BY <1>4 DEF BeginFails, LengthFails
    <2> QED
      BY <1>1, <1>2, <1>3, <2>1, ReturnIInv
  <1>5. CASE Finish
    <2>1. Return(TRUE) /\ pc = "loop" /\ p >= DescEnd
      BY <1>5 DEF Finish
    <2> QED
      BY <1>1, <1>2, <1>3, <2>1, ReturnIInv
  <1> QED
    BY <1>4, <1>5

\* A descriptor that is put into the table follows the one before it.
LEMMA AppendIInv ==
  ASSUME IInv, pc = "loop", cb = "set", image' = image,
         table' = Append(table, p - image.data)
  PROVE  /\ table' \in Seq(Nat) /\ table' # <<>>
         /\ table'[Len(table')] = p - image.data
         /\ Linked' /\ FirstAtStart' /\ TableInside'
  <1> USE DEF IInv
  <1> DEFINE o == p - image.data
             n == Len(table)
  <1>1. o \in Nat /\ o <= image.length
    BY OffsetInside DEF Pointer
  <1>2. image.data \in Nat /\ p \in Nat /\ DescStart \in Nat
    BY ImageTypes, WordsAreNats DEF TypeOK
  <1>3. table \in Seq(Nat) /\ n \in Nat
    <2>1. table \in Seq(Nat)
      BY DEF TypeOK
    <2> QED
      BY <2>1
  <1> HIDE DEF o
  <1>4. /\ table' \in Seq(Nat) /\ Len(table') = n + 1 /\ table' # <<>>
        /\ table'[n + 1] = o
        /\ \A i \in 1 .. n : table'[i] = table[i]
    BY <1>1, <1>3 DEF o
  <1>5. image.data + o = p
    BY <1>2 DEF o
  <1>6. TableInside'
    <2>1. ASSUME NEW i \in 1 .. n + 1
          PROVE  table'[i] <= image.length
      <3>1. CASE i \in 1 .. n
        BY <1>3, <1>4, <3>1 DEF TableInside
      <3>2. CASE i = n + 1
        BY <1>1, <1>4, <3>2
      <3> QED
        BY <1>3, <2>1, <3>1, <3>2
    <2> QED
      BY <1>4, <2>1 DEF TableInside
  <1>7. FirstAtStart'
    <2>1. image.data + table'[1] = DescStart
      <3>1. CASE n = 0
        <4>1. table = <<>>
          BY <1>3, <3>1
        <4>2. p = DescStart
          BY <4>1 DEF Progress
        <4> QED
          BY <1>4, <1>5, <3>1, <4>2
      <3>2. CASE n # 0
        <4>1. table # <<>> /\ 1 \in 1 .. n
          BY <1>3, <3>2
        <4> QED
          BY <1>4, <4>1 DEF FirstAtStart
      <3> QED
        BY <3>1, <3>2
    <2> QED
      BY <2>1, ImageStays DEF FirstAtStart
  <1>8. Linked'
    <2>1. ASSUME NEW i \in 1 .. n
          PROVE  table'[i + 1] = EndOf(table'[i])
      <3>1. table'[i] = table[i]
        BY <1>4
      <3>2. CASE i \in 1 .. n - 1
        <4>1. i + 1 \in 1 .. n
          BY <1>3, <3>2
        <4> QED
          BY <1>4, <3>1, <3>2, <4>1 DEF Linked
      <3>3. CASE i = n
        <4>1. table # <<>>
          BY <1>3, <2>1, <3>3
        <4>2. p = image.data + EndOf(table[n])
          BY <4>1 DEF Progress
        <4>3. table[n] \in Nat /\ DescAt(image, table[n]) \in Desc
          <5>1. table[n] \in Nat
            BY <1>3, <2>1, <3>3
          <5> QED
            BY <5>1, DescAtType DEF TypeOK
        <4>4. DescAt(image, table[n]).num_bytes_following \in Nat /\ DESCRIPTOR_SIZE \in Nat
          BY <4>3, SizesAssumption DEF Desc, Words
        <4>5. EndOf(table[n]) \in Nat
          BY <4>3, <4>4 DEF EndOf
        <4>6. o = EndOf(table[n])
          BY <1>1, <1>2, <1>5, <4>2, <4>5
        <4> QED
          BY <1>4, <3>1, <3>3, <4>6
      <3> QED
        BY <1>3, <2>1, <3>2, <3>3
    <2>2. 1 .. Len(table') - 1 = 1 .. n
      BY <1>3, <1>4
    <2> QED
      BY <2>1, <2>2, ImageStays DEF Linked
  <1> QED
    BY <1>4, <1>6, <1>7, <1>8 DEF o

\* The callback was called and the pointer moves on.
LEMMA MoveIInv ==
  ASSUME IInv, pc = "loop", LengthValid, SafeAdd(p, Total), p' = Sum(p, Total),
         UNCHANGED <<image, verdict, pubkey, pc, ret, cb, wanted, value>>, num' \in Nat,
         \/ cb = "set" /\ table' = Append(table, p - image.data)
         \/ cb # "set" /\ table' = table
  PROVE  IInv'
  <1> USE DEF IInv
  <1>1. /\ p' \in Words
        /\ DescStart <= p' /\ p' <= DescEnd
        /\ p' = image.data + EndOf(p - image.data)
    BY NextPointer DEF Pointer
  <1>2. image' = image /\ pc' = pc /\ cb' = cb
    OBVIOUS
  <1>3. /\ table' \in Seq(Nat) /\ Linked' /\ FirstAtStart' /\ TableInside'
        /\ cb # "set" => table' = <<>>
        /\ cb = "set" => table' # <<>> /\ table'[Len(table')] = p - image.data
    <2>1. CASE cb = "set" /\ table' = Append(table, p - image.data)
      BY <1>2, <2>1, AppendIInv
    <2>2. CASE cb # "set" /\ table' = table
      <3>1. table = <<>>
        BY <2>2 DEF Progress
      <3> QED
        BY <1>2, <2>2, <3>1, TableStays, EmptyIsSeq
    <2> QED
      BY <2>1, <2>2
  <1>4. TypeOK'
    BY <1>1, <1>3 DEF TypeOK
  <1>5. AcceptedInside'
    BY AcceptedStays
  <1>6. Pointer'
    BY <1>1, <1>2, ImageStays DEF Pointer
  <1>7. Progress'
    <2>1. cb = "set" => p' = image.data + EndOf(table'[Len(table')])
      BY <1>1, <1>3
    <2> QED
      BY <1>2, <1>3, <2>1, ImageStays DEF Progress
  <1>8. Ended'
    BY <1>2 DEF Ended, Walked
  <1> QED
    BY <1>3, <1>4, <1>5, <1>6, <1>7, <1>8

\* The callback was called and the walk goes on, or stops where the pointer
\* would wrap around.
LEMMA AdvanceIInv ==
  ASSUME IInv, pc = "loop", LengthValid, Advance,
         UNCHANGED <<image, verdict, pubkey, cb, wanted>>, num' \in Nat,
         \/ cb = "set" /\ table' = Append(table, p - image.data)
         \/ cb # "set" /\ table' = table
  PROVE  IInv'
  <1>1. CASE SafeAdd(p, Total) /\ p' = Sum(p, Total) /\ UNCHANGED <<pc, ret, value>>
    BY <1>1, MoveIInv
  <1>2. CASE p' = p /\ Return(FALSE)
    <2>1. /\ table' \in Seq(Nat) /\ Linked' /\ FirstAtStart' /\ TableInside'
      <3>1. CASE cb = "set" /\ table' = Append(table, p - image.data)
        BY <3>1, AppendIInv
      <3>2. CASE cb # "set" /\ table' = table
        BY <3>2, TableStays DEF IInv, TypeOK
      <3> QED
        BY <3>1, <3>2
    <2>2. cb # "set" => table' = table
      OBVIOUS
    <2> QED
      BY <1>2, <2>1, <2>2, ReturnIInv
  <1> QED
    BY <1>1, <1>2 DEF Advance

LEMMA CallIInv ==
  ASSUME IInv, Call
  PROVE  IInv'
  <1>1. pc = "loop" /\ LengthValid /\ UNCHANGED <<image, verdict, pubkey, cb, wanted>>
    BY DEF Call
  <1>2. num \in Nat /\ IsImage(image)
    BY DEF IInv, TypeOK
  <1>3. CASE Count
    BY <1>1, <1>2, <1>3, AdvanceIInv DEF Count
  <1>4. CASE Set
    BY <1>1, <1>2, <1>4, AdvanceIInv DEF Set
  <1>5. CASE Examine
    <2>1. cb = "lookup" /\ num' = num /\ table' = table
      BY <1>5 DEF Examine
    <2>2. CASE Advance
      BY <1>1, <1>2, <2>1, <2>2, AdvanceIInv
    <2>3. CASE /\ value' = (p - image.data) + FIXED["property"] - 1 + Here.len[1]
               /\ ret' = FALSE /\ pc' = "done" /\ p' = p
      <3>1. value' \in Nat
        <4>1. p - image.data \in Nat
          BY <1>1, OffsetInside DEF IInv, Pointer
        <4>2. Here \in Desc
          BY ImageTypes DEF IInv
        <4>3. Here.len[1] \in Nat
          BY <4>2, WordsAreNats DEF Desc
        <4>4. FIXED["property"] \in Nat /\ FIXED["property"] > 0
          <5>1. "property" \in DescTags
            BY DEF DescTags
          <5>2. FIXED["property"] \in Words /\ FIXED["property"] >= DESCRIPTOR_SIZE
            BY <5>1, SizesAssumption
          <5> QED
            BY <5>2, SizesAssumption, WordsAreNats
        <4> QED
          BY <2>3, <4>1, <4>3, <4>4
      <3>2. TypeOK'
        BY <1>1, <2>1, <2>3, <3>1 DEF IInv, TypeOK
      <3>3. AcceptedInside'
        BY <1>1, AcceptedStays DEF IInv
      <3>4. Linked' /\ FirstAtStart' /\ TableInside'
        BY <1>1, <2>1, TableStays DEF IInv
      <3>5. Pointer' /\ Progress' /\ Ended'
        BY <1>1, <2>1, <2>3 DEF IInv, Pointer, Progress, Ended, Walked
      <3> QED
        BY <3>2, <3>3, <3>4, <3>5 DEF IInv
    <2> QED
      BY <1>5, <2>2, <2>3 DEF Examine
  <1> QED
    BY <1>3, <1>4, <1>5 DEF Call
-----------------------------------------------------------------------------
(***************************************************************************)
(* The theorems                                                            *)
(***************************************************************************)
LEMMA NextIInv == IInv /\ [Next]_vars => IInv'
  <1> SUFFICES ASSUME IInv, [Next]_vars PROVE IInv'
    OBVIOUS
  <1>1. CASE Verify
    BY <1>1, VerifyIInv
  <1>2. CASE GetAll \/ (\E key \in Keys : Lookup(key)) \/ Allocate \/ AllocateFails
               \/ Misaligned \/ Terminated
    BY <1>2, CallerIInv
  <1>3. CASE Begin
    BY <1>3, BeginIInv
  <1>4. CASE BeginFails \/ Finish \/ LengthFails
    BY <1>4, WalkEndsIInv
  <1>5. CASE Call
    BY <1>5, CallIInv
  <1>6. CASE UNCHANGED vars
    <2>1. /\ image' = image /\ pc' = pc /\ verdict' = verdict /\ pubkey' = pubkey
          /\ cb' = cb /\ p' = p /\ ret' = ret /\ num' = num /\ table' = table
          /\ wanted' = wanted /\ value' = value
      BY <1>6 DEF vars
    <2>2. TypeOK'
      BY <2>1 DEF IInv, TypeOK
    <2>3. AcceptedInside'
      BY <2>1, AcceptedStays DEF IInv
    <2>4. Linked' /\ FirstAtStart' /\ TableInside'
      BY <2>1, TableStays DEF IInv
    <2>5. Pointer' /\ Progress' /\ Ended'
      BY <2>1, ImageStays DEF IInv, Pointer, Progress, Ended, Walked
    <2> QED
      BY <2>2, <2>3, <2>4, <2>5 DEF IInv
  <1> QED
    BY <1>1, <1>2, <1>3, <1>4, <1>5, <1>6 DEF Next, Step

LEMMA Invariant == Spec => []IInv
  BY InitIInv, NextIInv, PTL DEF Spec

\* The code gives every variable a value of its type: no pointer wraps around.
THEOREM TypeCorrect == Spec => []TypeOK
  <1>1. IInv => TypeOK
    BY DEF IInv
  <1> QED
    BY <1>1, Invariant, PTL

\* For every size of a word and every header: what avb_vbmeta_image_verify()
\* accepts lies in the buffer, and so does the key it hands out, which is that
\* of an image with a matching signature.
THEOREM AcceptedAreInside == Spec => []AcceptedInside
  <1>1. IInv => AcceptedInside
    BY DEF IInv
  <1> QED
    BY <1>1, Invariant, PTL

\* The last descriptor of a table that a walk filled ends in the image.
LEMMA LastEndsInside ==
  ASSUME IInv, Walked, table # <<>>
  PROVE  /\ image.data + EndOf(table[Len(table)]) = DescEnd
         /\ EndOf(table[Len(table)]) <= image.length
  <1> DEFINE e == EndOf(table[Len(table)])
  <1>1. image.data + e = DescEnd /\ RegionInside
    BY DEF IInv, Ended
  <1>2. DescEnd <= ImageEnd /\ ImageEnd = image.data + image.length
    BY <1>1, ImageTypes DEF IInv, RegionInside
  <1>3. image.data \in Nat /\ image.length \in Nat
    BY ImageTypes, WordsAreNats DEF IInv
  <1>4. e \in Nat
    <2>1. table \in Seq(Nat)
      BY DEF IInv, TypeOK
    <2>2. table[Len(table)] \in Nat
      BY <2>1
    <2>3. DescAt(image, table[Len(table)]) \in Desc
      BY DescAtType DEF IInv, TypeOK
    <2>4. DescAt(image, table[Len(table)]).num_bytes_following \in Nat
      BY <2>3, WordsAreNats DEF Desc
    <2>5. DESCRIPTOR_SIZE \in Nat
      BY SizesAssumption, WordsAreNats
    <2> QED
      BY <2>2, <2>4, <2>5 DEF EndOf
  <1> HIDE DEF e
  <1>5. e <= image.length
    BY <1>1, <1>2, <1>3, <1>4
  <1> QED
    BY <1>1, <1>5 DEF e

\* The table of avb_descriptor_get_all() is a chain of descriptors from the
\* first to, after a walk that returned true, the last, none of which ends
\* outside of the image.
THEOREM WalkIsSound == Spec => []WalkSound
  <1>1. IInv => WalkSound
    BY LastEndsInside DEF IInv, WalkSound, Linked, FirstAtStart, Ended
  <1> QED
    BY <1>1, Invariant, PTL

\* Every part of a descriptor that was validated is in the image, whatever
\* lengths the descriptor claims.
THEOREM ContentsAreInside == Spec => []ContentsInside
  <1>1. ASSUME IInv, Walked, NEW i \in 1 .. Len(table), Validated(DescAt(image, table[i]))
        PROVE  LET d == DescAt(image, table[i])
               IN table[i] + FIXED[d.tag] + d.len[1] + d.len[2] + d.len[3] <= image.length
    <2> DEFINE d == DescAt(image, table[i])
               size == FIXED[d.tag] + d.len[1] + d.len[2] + d.len[3]
               n == Len(table)
    <2>1. table \in Seq(Nat) /\ n \in Nat
      <3>1. table \in Seq(Nat)
        BY <1>1 DEF IInv, TypeOK
      <3> QED
        BY <3>1
    <2>2. table[i] \in Nat /\ table # <<>>
      BY <1>1, <2>1
    <2>3. d \in Desc
      BY <1>1, DescAtType DEF IInv, TypeOK
    <2>4. size <= DESCRIPTOR_SIZE + d.num_bytes_following
      BY <1>1, <2>3, ContentsFitIsTrue
         DEF Validated, HashDescriptorValid, HashtreeDescriptorValid, CmdlineDescriptorValid,
             PropertyDescriptorValid, ChainDescriptorValid
    <2>5. d.num_bytes_following \in Nat /\ DESCRIPTOR_SIZE \in Nat
      BY <2>3, SizesAssumption, WordsAreNats DEF Desc
    <2>6. size \in Nat /\ image.length \in Nat
      <3>1. /\ d.len[1] \in Nat /\ d.len[2] \in Nat /\ d.len[3] \in Nat
            /\ FIXED[d.tag] \in Nat
        BY <2>3, SizesAssumption, WordsAreNats DEF Desc
      <3>2. image.length \in Nat
        BY <1>1, ImageTypes, WordsAreNats DEF IInv
      <3>3. \A a, b, c, e \in Nat : a + b + c + e \in Nat
        OBVIOUS
      <3> QED
        BY <3>1, <3>2, <3>3, Zenon
    <2>7. EndOf(table[i]) = table[i] + DESCRIPTOR_SIZE + d.num_bytes_following
      BY DEF EndOf
    <2> HIDE DEF size
    <2>8. EndOf(table[i]) <= image.length
      <3>1. CASE i = n
        BY <1>1, <2>2, <3>1, LastEndsInside
      <3>2. CASE i # n
        <4>1. i \in 1 .. n - 1 /\ i + 1 \in 1 .. n
          BY <1>1, <2>1, <3>2
        <4> QED
          BY <1>1, <4>1 DEF IInv, Linked, TableInside
      <3> QED
        BY <3>1, <3>2
    <2>9. table[i] + size <= image.length
      BY <2>2, <2>4, <2>5, <2>6, <2>7, <2>8
    <2>10. /\ d.len[1] \in Nat /\ d.len[2] \in Nat /\ d.len[3] \in Nat
           /\ FIXED[d.tag] \in Nat
      BY <2>3, SizesAssumption, WordsAreNats DEF Desc
    <2> QED
      BY <2>2, <2>9, <2>10 DEF size
  <1>2. IInv => ContentsInside
    BY <1>1 DEF ContentsInside
  <1> QED
    BY <1>2, Invariant, PTL
-----------------------------------------------------------------------------
(***************************************************************************)
(* The two walks of avb_descriptor_get_all()                               *)
(*                                                                         *)
(* A walk is the sequence of addresses at which the callback is called.    *)
(* The first walk is remembered as a sequence that exists; the second one  *)
(* is compared with it as it goes, so that nothing has to be said of what  *)
(* a walk from the beginning computes.                                     *)
(***************************************************************************)
TotalAt(q) == Sum(DESCRIPTOR_SIZE, DescAt(image, q - image.data).num_bytes_following)

\* At q the callback is called, and after it the pointer moves on.
CallAt(q) ==
  /\ q < DescEnd /\ q % ALIGN = 0
  /\ SafeAdd(DESCRIPTOR_SIZE, DescAt(image, q - image.data).num_bytes_following)
  /\ TotalAt(q) % ALIGN = 0
  /\ DescStart <= Sum(TotalAt(q), q) /\ Sum(TotalAt(q), q) <= DescEnd
MovesAt(q) == SafeAdd(q, TotalAt(q))
After(q) == Sum(q, TotalAt(q))

IsWalk(s) ==
  /\ s \in Seq(Nat)
  /\ s # <<>> => s[1] = DescStart
  /\ \A i \in 1 .. Len(s) : CallAt(s[i])
  /\ \A i \in 1 .. Len(s) - 1 : MovesAt(s[i]) /\ s[i + 1] = After(s[i])

\* After the walk s the loop goes on, and where.
GoesOn(s) == s # <<>> => MovesAt(s[Len(s)])
NextAt(s) == IF s = <<>> THEN DescStart ELSE After(s[Len(s)])

\* No callback is called after s.
Complete(s) ==
  IF RegionInside THEN GoesOn(s) => ~CallAt(NextAt(s)) ELSE s = <<>>

\* The walk that counts has gone along s so far; it has counted s; the walk
\* that fills the table has gone along s so far.
Counting(s) == IsWalk(s) /\ Len(s) = num /\ GoesOn(s) /\ p = NextAt(s)
Counted(s) == IsWalk(s) /\ Len(s) = num /\ Complete(s)
Filling(s) ==
  /\ Counted(s)
  /\ Len(table) <= num
  /\ pc = "loop" => IF Len(table) < num THEN p = s[Len(table) + 1]
                    ELSE GoesOn(s) /\ p = NextAt(s)
  /\ pc = "done" => Len(table) = num

WalksAgree ==
  /\ cb = "count" /\ pc = "begin" => num = 0
  /\ cb = "count" /\ pc = "loop" => \E s : Counting(s)
  /\ pc = "allocate" => cb = "count" /\ \E s : Counted(s)
  /\ cb = "set" => \E s : Filling(s)

\* Nothing that a walk depends on changes while the image stays.
LEMMA WalkStays ==
  ASSUME image' = image
  PROVE  /\ \A q : CallAt(q)' = CallAt(q) /\ MovesAt(q)' = MovesAt(q) /\ After(q)' = After(q)
         /\ \A s : IsWalk(s)' = IsWalk(s) /\ GoesOn(s)' = GoesOn(s) /\ NextAt(s)' = NextAt(s)
         /\ \A s : Complete(s)' = Complete(s)
  <1>1. \A q : CallAt(q)' = CallAt(q) /\ MovesAt(q)' = MovesAt(q) /\ After(q)' = After(q)
    BY ImageStays DEF CallAt, MovesAt, After, TotalAt
  <1>2. \A s : IsWalk(s)' = IsWalk(s) /\ GoesOn(s)' = GoesOn(s) /\ NextAt(s)' = NextAt(s)
    BY <1>1, ImageStays DEF IsWalk, GoesOn, NextAt
  <1>3. \A s : Complete(s)' = Complete(s)
    BY <1>1, <1>2, ImageStays DEF Complete
  <1> QED
    BY <1>1, <1>2, <1>3

LEMMA NoStepsWalk ==
  IsWalk(<<>>) /\ Len(<<>>) = 0 /\ GoesOn(<<>>) /\ NextAt(<<>>) = DescStart
  BY EmptyIsSeq DEF IsWalk, GoesOn, NextAt

\* The guards of the loop, at its pointer.
LEMMA AtPointer ==
  /\ CallAt(p) <=> p < DescEnd /\ p % ALIGN = 0 /\ LengthValid
  /\ MovesAt(p) <=> SafeAdd(p, Total)
  /\ After(p) = Sum(p, Total)
  BY DEF CallAt, MovesAt, After, TotalAt, LengthValid, Total, Here

LEMMA AppendOne ==
  ASSUME NEW s \in Seq(Nat), NEW q \in Nat, NEW t, t = Append(s, q)
  PROVE  /\ t \in Seq(Nat) /\ Len(t) = Len(s) + 1 /\ t # <<>>
         /\ \A i \in 1 .. Len(s) : t[i] = s[i]
         /\ t[Len(t)] = q
  <1>1. t \in Seq(Nat) /\ Len(t) = Len(s) + 1
    OBVIOUS
  <1>2. t # <<>>
    BY <1>1
  <1>3. \A i \in 1 .. Len(s) : t[i] = s[i]
    OBVIOUS
  <1>4. t[Len(t)] = q
    BY <1>1
  <1> QED
    BY <1>1, <1>2, <1>3, <1>4

\* A call makes the walk one longer.
LEMMA LongerWalk ==
  ASSUME NEW s, Counting(s), CallAt(p), p \in Nat
  PROVE  LET t == Append(s, p)
         IN /\ IsWalk(t) /\ Len(t) = num + 1
            /\ GoesOn(t) <=> MovesAt(p)
            /\ NextAt(t) = After(p)
  <1> DEFINE t == Append(s, p)
  <1>1. s \in Seq(Nat) /\ Len(s) \in Nat /\ Len(s) = num
    BY DEF Counting, IsWalk
  <1>2. /\ t \in Seq(Nat) /\ Len(t) = Len(s) + 1 /\ t # <<>>
        /\ \A i \in 1 .. Len(s) : t[i] = s[i]
        /\ t[Len(t)] = p
    BY <1>1, AppendOne
  <1>3. t[1] = DescStart
    <2>1. CASE s = <<>>
      BY <1>2, <2>1 DEF Counting, NextAt
    <2>2. CASE s # <<>>
      BY <1>1, <1>2, <2>2 DEF Counting, IsWalk
    <2> QED
      BY <2>1, <2>2
  <1>4. \A i \in 1 .. Len(t) : CallAt(t[i])
    <2>1. SUFFICES ASSUME NEW i \in 1 .. Len(t) PROVE CallAt(t[i])
      OBVIOUS
    <2>2. CASE i = Len(t)
      BY <1>2, <2>2
    <2>3. CASE i # Len(t)
      <3>1. i \in 1 .. Len(s)
        BY <1>1, <1>2, <2>3
      <3> QED
        BY <1>2, <3>1 DEF Counting, IsWalk
    <2> QED
      BY <2>2, <2>3
  <1>5. \A i \in 1 .. Len(t) - 1 : MovesAt(t[i]) /\ t[i + 1] = After(t[i])
    <2>1. SUFFICES ASSUME NEW i \in 1 .. Len(s)
                   PROVE  MovesAt(t[i]) /\ t[i + 1] = After(t[i])
      BY <1>1, <1>2
    <2>2. CASE i = Len(s)
      <3>1. s # <<>>
        BY <1>1
      <3>2. MovesAt(s[i]) /\ p = After(s[i])
        BY <2>2, <3>1 DEF Counting, GoesOn, NextAt
      <3> QED
        BY <1>2, <2>2, <3>2
    <2>3. CASE i # Len(s)
      <3>1. i \in 1 .. Len(s) - 1 /\ i + 1 \in 1 .. Len(s)
        BY <1>1, <2>3
      <3>2. MovesAt(s[i]) /\ s[i + 1] = After(s[i])
        BY <3>1 DEF Counting, IsWalk
      <3> QED
        BY <1>2, <3>1, <3>2
    <2> QED
      BY <2>2, <2>3
  <1> HIDE DEF t
  <1>6. IsWalk(t)
    BY <1>2, <1>3, <1>4, <1>5 DEF IsWalk
  <1>7. (GoesOn(t) <=> MovesAt(p)) /\ NextAt(t) = After(p)
    BY <1>2 DEF GoesOn, NextAt
  <1> QED
    BY <1>1, <1>2, <1>6, <1>7 DEF t

\* The counting walk: it goes on along a longer walk, or returns with all of it.
LEMMA CountAgrees ==
  ASSUME IInv, WalksAgree, Call, Count
  PROVE  WalksAgree'
  <1>1. /\ pc = "loop" /\ CallAt(p) /\ cb = "count" /\ cb' = "count" /\ image' = image
        /\ num' = num + 1 /\ Advance
    BY AtPointer DEF Call, Count
  <1>2. p \in Nat /\ RegionInside
    BY <1>1, WordsAreNats DEF IInv, TypeOK, Pointer
  <1>3. PICK s : Counting(s)
    BY <1>1 DEF WalksAgree
  <1>4. PICK t : /\ IsWalk(t) /\ Len(t) = num' /\ NextAt(t) = After(p)
                 /\ GoesOn(t) <=> MovesAt(p)
    BY <1>1, <1>2, <1>3, LongerWalk
  <1>5. CASE SafeAdd(p, Total) /\ p' = Sum(p, Total) /\ pc' = pc
    <2>1. Counting(t)'
      BY <1>1, <1>4, <1>5, AtPointer, WalkStays DEF Counting
    <2> QED
      BY <1>1, <1>5, <2>1 DEF WalksAgree
  <1>6. CASE ~SafeAdd(p, Total) /\ Return(FALSE)
    <2>1. ~GoesOn(t)
      BY <1>4, <1>6, AtPointer
    <2>2. Counted(t)'
      BY <1>1, <1>2, <1>4, <2>1, WalkStays DEF Counted, Complete
    <2> QED
      BY <1>1, <1>6, <2>2 DEF WalksAgree, Return
  <1> QED
    BY <1>1, <1>5, <1>6 DEF Advance

\* The filling walk: it is called where the counting walk was, and nowhere else.
LEMMA SetAgrees ==
  ASSUME IInv, WalksAgree, Call, Set
  PROVE  WalksAgree'
  <1>1. /\ pc = "loop" /\ CallAt(p) /\ cb = "set" /\ cb' = "set" /\ image' = image
        /\ num' = num /\ table' = Append(table, p - image.data) /\ Advance
    BY AtPointer DEF Call, Set
  <1>2. RegionInside /\ table \in Seq(Nat) /\ num \in Nat
    BY <1>1 DEF IInv, TypeOK, Pointer
  <1>3. PICK s : Filling(s)
    BY <1>1 DEF WalksAgree
  <1> DEFINE n == Len(table)
  <1>4. n \in Nat /\ Len(table') = n + 1
    BY <1>1, <1>2
  <1>5. IsWalk(s) /\ s \in Seq(Nat) /\ Len(s) = num /\ Complete(s) /\ n <= num
    BY <1>3 DEF Filling, Counted, IsWalk
  <1> HIDE DEF n
  <1>6. n < num /\ p = s[n + 1]
    <2>1. n < num \/ (GoesOn(s) /\ p = NextAt(s))
      BY <1>1, <1>3 DEF Filling, n
    <2>2. ~(GoesOn(s) /\ p = NextAt(s))
      BY <1>1, <1>2, <1>5 DEF Complete
    <2> QED
      BY <1>1, <1>3, <2>1, <2>2 DEF Filling, n
  <1>7. n + 1 < num => MovesAt(p) /\ s[n + 2] = After(p)
    <2>1. SUFFICES ASSUME n + 1 < num PROVE MovesAt(p) /\ s[n + 2] = After(p)
      OBVIOUS
    <2>2. n + 1 \in 1 .. Len(s) - 1 /\ (n + 1) + 1 = n + 2
      BY <1>2, <1>4, <1>5, <2>1
    <2> QED
      BY <1>5, <1>6, <2>2 DEF IsWalk
  <1>8. n + 1 = num => s # <<>> /\ (GoesOn(s) <=> MovesAt(p)) /\ NextAt(s) = After(p)
    <2>1. SUFFICES ASSUME n + 1 = num
                   PROVE  s # <<>> /\ (GoesOn(s) <=> MovesAt(p)) /\ NextAt(s) = After(p)
      OBVIOUS
    <2>2. s # <<>> /\ p = s[Len(s)]
      BY <1>4, <1>5, <1>6, <2>1
    <2> QED
      BY <2>2 DEF GoesOn, NextAt
  <1>9. n + 1 <= num /\ (n + 1 < num \/ n + 1 = num)
    BY <1>2, <1>4, <1>6
  <1>10. Counted(s)'
    BY <1>1, <1>5, WalkStays DEF Counted
  <1>11. CASE SafeAdd(p, Total) /\ p' = Sum(p, Total) /\ pc' = pc
    <2>1. p' = After(p) /\ MovesAt(p)
      BY <1>11, AtPointer
    <2>2. n + 1 < num => p' = s[Len(table') + 1]
      <3>1. Len(table') + 1 = n + 2
        BY <1>4
      <3> QED
        BY <1>7, <2>1, <3>1
    <2>3. n + 1 = num => GoesOn(s)' /\ p' = NextAt(s)'
      BY <1>1, <1>8, <2>1, WalkStays
    <2>4. Filling(s)'
      BY <1>1, <1>4, <1>9, <1>10, <1>11, <2>2, <2>3 DEF Filling
    <2> QED
      BY <1>1, <1>11, <2>4 DEF WalksAgree
  <1>12. CASE ~SafeAdd(p, Total) /\ Return(FALSE)
    <2>1. n + 1 = num /\ pc' = "done"
      BY <1>1, <1>7, <1>9, <1>12, AtPointer DEF Return
    <2>2. Filling(s)'
      BY <1>1, <1>4, <1>9, <1>10, <2>1 DEF Filling
    <2> QED
      BY <1>1, <2>1, <2>2 DEF WalksAgree
  <1> QED
    BY <1>1, <1>11, <1>12 DEF Advance

\* A walk begins, or does not because the region is not in the image.
LEMMA BeginAgrees ==
  ASSUME IInv, WalksAgree, Begin \/ BeginFails
  PROVE  WalksAgree'
  <1>1. /\ pc = "begin" /\ cb' = cb /\ image' = image /\ num' = num /\ table' = table
        /\ cb \in {"count", "set", "lookup"} /\ num \in Nat
    BY DEF Begin, BeginFails, IInv, TypeOK
  <1>2. \/ RegionInside /\ p' = DescStart /\ pc' = "loop"
        \/ ~RegionInside /\ pc' = IF cb = "count" THEN "allocate" ELSE "done"
    BY DEF Begin, BeginFails, Return
  <1>3. CASE cb = "count"
    <2>1. num = 0
      BY <1>1, <1>3 DEF WalksAgree
    <2>2. pc' = "loop" => Counting(<<>>)'
      BY <1>1, <1>2, <2>1, NoStepsWalk, WalkStays DEF Counting
    <2>3. pc' = "allocate" => Counted(<<>>)'
      BY <1>1, <1>2, <2>1, NoStepsWalk, WalkStays DEF Counted, Complete
    <2> QED
      BY <1>1, <1>2, <1>3, <2>2, <2>3 DEF WalksAgree
  <1>4. CASE cb = "set"
    <2>1. PICK s : Filling(s)
      BY <1>4 DEF WalksAgree
    <2>2. table = <<>> /\ Len(table) = 0
      BY <1>1 DEF IInv, Progress
    <2>3. IsWalk(s) /\ s \in Seq(Nat) /\ Len(s) = num /\ Complete(s)
      BY <2>1 DEF Filling, Counted, IsWalk
    <2>4. Counted(s)'
      BY <1>1, <2>3, WalkStays DEF Counted
    <2>5. num > 0 => s # <<>> /\ s[1] = DescStart
      BY <2>3 DEF IsWalk
    <2>6. num = 0 => s = <<>>
      BY <2>3
    <2>7. CASE RegionInside /\ p' = DescStart /\ pc' = "loop"
      <3>1. num > 0 => p' = s[Len(table') + 1]
        BY <1>1, <2>2, <2>5, <2>7
      <3>2. num = 0 => GoesOn(s)' /\ p' = NextAt(s)'
        BY <1>1, <2>6, <2>7, NoStepsWalk, WalkStays
      <3>3. Filling(s)'
        BY <1>1, <2>2, <2>4, <2>7, <3>1, <3>2 DEF Filling
      <3> QED
        BY <1>1, <1>4, <2>7, <3>3 DEF WalksAgree
    <2>8. CASE ~RegionInside /\ pc' = "done"
      <3>1. num = 0
        BY <2>3, <2>8 DEF Complete
      <3>2. Filling(s)'
        BY <1>1, <2>2, <2>4, <2>8, <3>1 DEF Filling
      <3> QED
        BY <1>1, <1>4, <2>8, <3>2 DEF WalksAgree
    <2> QED
      BY <1>2, <1>4, <2>7, <2>8
  <1>5. CASE cb = "lookup"
    BY <1>1, <1>2, <1>5 DEF WalksAgree
  <1> QED
    BY <1>1, <1>3, <1>4, <1>5

\* A walk ends where the callback is not called.
LEMMA EndAgrees ==
  ASSUME IInv, WalksAgree, Finish \/ LengthFails \/ Misaligned
  PROVE  WalksAgree'
  <1>1. /\ pc = "loop" /\ cb' = cb /\ image' = image /\ num' = num /\ table' = table
        /\ cb \in {"count", "set", "lookup"} /\ num \in Nat /\ RegionInside
    BY DEF Finish, LengthFails, Misaligned, IInv, TypeOK, Pointer
  <1>2. ~CallAt(p)
    <2>1. p \in Nat /\ DescEnd \in Nat
      BY ImageTypes, WordsAreNats DEF IInv, TypeOK
    <2>2. p >= DescEnd \/ p % ALIGN # 0 \/ ~LengthValid
      BY DEF Finish, LengthFails, Misaligned
    <2>3. p >= DescEnd => ~(p < DescEnd)
      BY <2>1
    <2> QED
      BY <2>2, <2>3, AtPointer
  <1>3. pc' = "aborted" \/ pc' = IF cb = "count" THEN "allocate" ELSE "done"
    BY DEF Finish, LengthFails, Misaligned, Return
  <1>4. CASE cb = "count"
    <2>1. PICK s : Counting(s)
      BY <1>1, <1>4 DEF WalksAgree
    <2>2. Counted(s)'
      BY <1>1, <1>2, <2>1, WalkStays DEF Counting, Counted, Complete
    <2> QED
      BY <1>1, <1>3, <1>4, <2>2 DEF WalksAgree
  <1>5. CASE cb = "set"
    <2>1. PICK s : Filling(s)
      BY <1>5 DEF WalksAgree
    <2>2. IsWalk(s) /\ Len(s) = num /\ Counted(s) /\ Len(table) <= num
      BY <2>1 DEF Filling, Counted
    <2> Len(table) \in Nat
      <3>1. table \in Seq(Nat)
        BY DEF IInv, TypeOK
      <3> QED
        BY <3>1
    <2>3. Len(table) = num
      <3>1. SUFFICES ASSUME Len(table) < num PROVE FALSE
        BY <1>1, <2>2
      <3>2. p = s[Len(table) + 1] /\ Len(table) + 1 \in 1 .. Len(s)
        BY <1>1, <2>1, <2>2, <3>1 DEF Filling
      <3> QED
        BY <1>2, <2>2, <3>2 DEF IsWalk
    <2>4. Filling(s)'
      BY <1>1, <1>3, <1>5, <2>2, <2>3, WalkStays DEF Filling, Counted
    <2> QED
      BY <1>1, <1>3, <1>5, <2>4 DEF WalksAgree
  <1>6. CASE cb = "lookup"
    BY <1>1, <1>3, <1>6 DEF WalksAgree
  <1> QED
    BY <1>1, <1>4, <1>5, <1>6

LEMMA NextAgrees == IInv /\ WalksAgree /\ [Next]_vars => WalksAgree'
  <1> SUFFICES ASSUME IInv, WalksAgree, [Next]_vars PROVE WalksAgree'
    OBVIOUS
  <1>1. CASE Verify \/ GetAll \/ \E key \in Keys : Lookup(key)
    <2>1. pc' \in {"ready", "done", "begin"} /\ cb' # "set" /\ (cb' = "count" /\ pc' = "begin" => num' = 0)
      BY <1>1 DEF Verify, GetAll, Lookup, IInv, Progress
    <2> QED
      BY <2>1 DEF WalksAgree
  <1>2. CASE Begin \/ BeginFails
    BY <1>2, BeginAgrees
  <1>3. CASE Finish \/ LengthFails \/ Misaligned
    BY <1>3, EndAgrees
  <1>4. CASE Call
    <2>1. CASE Count
      BY <1>4, <2>1, CountAgrees
    <2>2. CASE Set
      BY <1>4, <2>2, SetAgrees
    <2>3. CASE Examine
      <3>1. cb' = "lookup" /\ pc' \in {"loop", "done"}
        BY <1>4, <2>3 DEF Call, Examine, Advance, Return
      <3> QED
        BY <3>1 DEF WalksAgree
    <2> QED
      BY <1>4, <2>1, <2>2, <2>3 DEF Call
  <1>5. CASE Allocate
    <2>1. /\ pc = "allocate" /\ cb' = "set" /\ pc' = "begin" /\ table' = <<>>
          /\ image' = image /\ num' = num
      BY <1>5 DEF Allocate
    <2>2. PICK s : Counted(s)
      BY <2>1 DEF WalksAgree
    <2>3. Len(table') = 0 /\ num \in Nat
      BY <2>1 DEF IInv, TypeOK
    <2>4. Filling(s)'
      BY <2>1, <2>2, <2>3, WalkStays DEF Filling, Counted
    <2> QED
      BY <2>1, <2>4 DEF WalksAgree
  <1>6. CASE AllocateFails
    BY <1>6 DEF AllocateFails, WalksAgree
  <1>7. CASE Terminated \/ UNCHANGED vars
    <2>1. /\ image' = image /\ pc' = pc /\ cb' = cb /\ p' = p /\ num' = num /\ table' = table
      BY <1>7 DEF Terminated, vars
    <2>2. \A s : /\ Counting(s)' = Counting(s) /\ Counted(s)' = Counted(s)
                 /\ Filling(s)' = Filling(s)
      BY <2>1, WalkStays DEF Counting, Counted, Filling
    <2> QED
      BY <2>1, <2>2 DEF WalksAgree
  <1> QED
    BY <1>1, <1>2, <1>3, <1>4, <1>5, <1>6, <1>7 DEF Next, Step

\* The table avb_descriptor_get_all() allocates for the descriptors it has
\* counted is filled to the last place and no further, also when both walks end
\* at a malformed descriptor.
THEOREM PassesAgree == Spec => []TwoPassesAgree
  <1>1. Init => WalksAgree
    BY DEF Init, WalksAgree
  <1>2. WalksAgree => TwoPassesAgree
    <2>1. \A s : Filling(s) => Len(table) <= num /\ (pc = "done" => Len(table) = num)
      BY DEF Filling
    <2> QED
      BY <2>1 DEF WalksAgree, TwoPassesAgree
  <1> QED
    BY <1>1, <1>2, NextAgrees, Invariant, PTL DEF Spec
-----------------------------------------------------------------------------
(***************************************************************************)
(* Multiples, and induction up to a number                                 *)
(***************************************************************************)
\* A number is a multiple if nothing is left of it.
LEMMA Division ==
  ASSUME NEW a \in Nat, NEW n \in Nat \ {0}
  PROVE  a = n * (a \div n) + (a % n) /\ a \div n \in Nat /\ a % n \in 0 .. n - 1
OBVIOUS
LEMMA Multiple ==
  ASSUME NEW a \in Nat, NEW n \in Nat \ {0}
  PROVE  a % n = 0 <=> \E q \in Nat : a = n * q
<1>1. ASSUME NEW q \in Nat, a = n * q PROVE a % n = 0
  BY <1>1
<1>2. ASSUME a % n = 0 PROVE \E q \in Nat : a = n * q
  <2> DEFINE d == a \div n
  <2>1. a = n * d + (a % n) /\ d \in Nat
    BY Division
  <2> HIDE DEF d
  <2>2. a = n * d
    BY <1>2, <2>1
  <2> QED BY <2>1, <2>2
<1> QED BY <1>1, <1>2
\* Sums and multiples of multiples are multiples.
LEMMA ModAdd ==
  ASSUME NEW a \in Nat, NEW b \in Nat, NEW n \in Nat \ {0}, a % n = 0, b % n = 0
  PROVE  (a + b) % n = 0
<1>1. PICK q \in Nat, r \in Nat : a = n * q /\ b = n * r
  BY Multiple
<1>2. a + b = n * (q + r) /\ q + r \in Nat /\ a + b \in Nat
  BY <1>1
<1> QED BY <1>2, Multiple, Zenon
LEMMA ModMod ==
  ASSUME NEW a \in Nat, NEW b \in Nat \ {0}, NEW n \in Nat \ {0}, a % b = 0, b % n = 0
  PROVE  a % n = 0
<1>1. PICK q \in Nat, r \in Nat : a = b * q /\ b = n * r
  BY Multiple
<1>2. a = n * (r * q) /\ r * q \in Nat
  BY <1>1
<1> QED BY <1>2, Multiple, Zenon
\* round_to_multiple() gives a multiple that is no smaller.
LEMMA Rounding ==
  ASSUME NEW a \in Nat, NEW n \in Nat \ {0}
  PROVE  RoundToMultiple(a, n) \in Nat /\ a <= RoundToMultiple(a, n) /\ RoundToMultiple(a, n) % n = 0
<1>1. a = n * (a \div n) + (a % n) /\ a \div n \in Nat /\ a % n \in 0 .. n - 1
  BY Division
<1>2. CASE a % n = 0
  BY <1>2 DEF RoundToMultiple
<1>3. CASE a % n # 0
  <2>1. RoundToMultiple(a, n) = n * (a \div n) + n /\ RoundToMultiple(a, n) \in Nat /\ a <= RoundToMultiple(a, n)
    BY <1>1, <1>3 DEF RoundToMultiple
  <2>2. PICK q \in Nat : RoundToMultiple(a, n) = n * q + n
    BY <1>1, <2>1
  <2>3. RoundToMultiple(a, n) = n * (q + 1) /\ q + 1 \in Nat
    BY <2>2
  <2> QED BY <2>1, <2>3, Multiple, Zenon
<1> QED BY <1>2, <1>3

\* Induction up to N: the least number that is not in T would have a predecessor.
LEMMA UpTo ==
  ASSUME NEW N \in Nat, NEW T, 0 \in T, \A n \in 0 .. N - 1 : n \in T => n + 1 \in T
  PROVE  \A n \in 0 .. N : n \in T
<1> DEFINE S == {n \in 0 .. N : n \notin T}
<1>1. SUFFICES ASSUME S # {} PROVE FALSE
  OBVIOUS
<1>2. IsFiniteSet(S)
  <2>1. IsFiniteSet(0 .. N)
    BY FS_Interval
  <2> QED
    BY <2>1, FS_Subset
<1>3. Min(S) \in S /\ \A x \in S : Min(S) <= x
  BY <1>1, <1>2, MaxMin
<1>4. PICK m \in S : \A x \in S : m <= x
  BY <1>3
<1>5. m # 0 /\ m - 1 \in 0 .. N - 1 /\ m - 1 \notin S
  BY <1>4
<1> QED
  BY <1>4, <1>5

\* f adds up the first n numbers of sz.
AddsUp(f, sz, n) ==
  /\ f \in [0 .. n -> Nat] /\ f[0] = 0
  /\ \A i \in 1 .. n : f[i] = f[i - 1] + sz[i]

\* There are such sums: this is what makes the recursion of SizeBefore() a
\* definition.
LEMMA SumsExist ==
  ASSUME NEW N \in Nat, NEW sz \in [1 .. N -> Nat]
  PROVE  \E f : AddsUp(f, sz, N)
<1> DEFINE T == {n \in 0 .. N : \E f : AddsUp(f, sz, n)}
<1>1. 0 \in T
  <2>1. AddsUp([i \in 0 .. 0 |-> 0], sz, 0)
    BY DEF AddsUp
  <2> QED
    BY <2>1
<1>2. ASSUME NEW n \in 0 .. N - 1, n \in T
      PROVE  n + 1 \in T
  <2>1. PICK f : AddsUp(f, sz, n)
    BY <1>2
  <2> DEFINE g == [i \in 0 .. n + 1 |-> IF i <= n THEN f[i] ELSE f[n] + sz[n + 1]]
  <2>2. g \in [0 .. n + 1 -> Nat] /\ g[0] = 0
    BY <2>1 DEF AddsUp
  <2>3. \A i \in 1 .. n + 1 : g[i] = g[i - 1] + sz[i]
    <3> TAKE i \in 1 .. n + 1
    <3>1. CASE i = n + 1
      BY <3>1
    <3>2. CASE i <= n
      BY <2>1, <3>2 DEF AddsUp
    <3> QED
      BY <3>1, <3>2
  <2>4. AddsUp(g, sz, n + 1)
    BY <2>2, <2>3 DEF AddsUp
  <2> QED
    BY <2>4
<1>3. N \in T
  <2> HIDE DEF T
  <2>1. \A n \in 0 .. N - 1 : n \in T => n + 1 \in T
    BY <1>2
  <2>2. \A n \in 0 .. N : n \in T
    BY <1>1, <2>1, UpTo
  <2> QED
    BY <2>2
<1> QED
  BY <1>3
-----------------------------------------------------------------------------
(***************************************************************************)
(* The layout of what the editor writes                                    *)
(***************************************************************************)
\* An encoded descriptor has room for its struct and its parts, and nothing
\* of it is behind a multiple of the alignment.
LEMMA EncodedSize ==
  ASSUME NEW d \in EditorDesc
  PROVE  /\ Encode(d).num_bytes_following \in Nat
         /\ Encode(d).num_bytes_following % ALIGN = 0
         /\ FIXED[d.tag] - DESCRIPTOR_SIZE + d.len[1] + d.len[2] + d.len[3]
              <= Encode(d).num_bytes_following
<1> DEFINE n == FIXED[d.tag] - DESCRIPTOR_SIZE + d.len[1] + d.len[2] + d.len[3]
<1>1. /\ d.tag \in Tags /\ d.len \in [1 .. 3 -> Words]
      /\ d.len[1] \in Nat /\ d.len[2] \in Nat /\ d.len[3] \in Nat
  BY WordsAreNats DEF EditorDesc
<1>2. FIXED[d.tag] - DESCRIPTOR_SIZE \in Nat
  BY <1>1, SizesAssumption, WordsAreNats DEF Tags, DescTags, Words
<1>3. n \in Nat
  BY <1>1, <1>2
<1>4. Encode(d).num_bytes_following = RoundToMultiple(n, ALIGN)
  BY DEF Encode
<1> HIDE DEF n
<1>5. ALIGN \in Nat \ {0}
  BY SizesAssumption
<1>6. /\ RoundToMultiple(n, ALIGN) \in Nat /\ n <= RoundToMultiple(n, ALIGN)
      /\ RoundToMultiple(n, ALIGN) % ALIGN = 0
  BY <1>3, <1>5, Rounding
<1> QED
  BY <1>4, <1>6 DEF n

\* The sizes of the descriptors add up.
LEMMA SizesAddUp ==
  ASSUME NEW ds \in Seq(EditorDesc)
  PROVE  /\ SizeBefore(ds, 1) = 0
         /\ \A n \in 1 .. Len(ds) :
              SizeBefore(ds, n + 1)
                = SizeBefore(ds, n) + DESCRIPTOR_SIZE + Encode(ds[n]).num_bytes_following
         /\ \A n \in 1 .. Len(ds) + 1 : SizeBefore(ds, n) \in Nat
<1> DEFINE N == Len(ds)
           nbf(m) == Encode(ds[m]).num_bytes_following
           sz == [m \in 1 .. N |-> DESCRIPTOR_SIZE + nbf(m)]
           Is(f) == f = [m \in 0 .. Len(ds) |-> IF m = 0 THEN 0
                                                ELSE f[m - 1] + DESCRIPTOR_SIZE + nbf(m)]
           size == CHOOSE f : Is(f)
<1>1. N \in Nat /\ DESCRIPTOR_SIZE \in Nat /\ \A m \in 1 .. N : nbf(m) \in Nat
  <2>1. \A m \in 1 .. N : ds[m] \in EditorDesc
    OBVIOUS
  <2> QED
    BY <2>1, EncodedSize, SizesAssumption, WordsAreNats
<1> HIDE DEF nbf
<1>2. sz \in [1 .. N -> Nat]
  BY <1>1
<1>3. PICK f : AddsUp(f, sz, N)
  BY <1>1, <1>2, SumsExist
<1>4. Is(f)
  <2>1. f = [m \in 0 .. N |-> f[m]]
    BY <1>3 DEF AddsUp
  <2>2. f[0] = 0 /\ \A m \in 1 .. N : f[m] = f[m - 1] + DESCRIPTOR_SIZE + nbf(m)
    <3>1. f[0] = 0 /\ \A m \in 1 .. N : f[m - 1] \in Nat /\ f[m] = f[m - 1] + sz[m]
      BY <1>3 DEF AddsUp
    <3>2. ASSUME NEW m \in 1 .. N
          PROVE  f[m] = f[m - 1] + DESCRIPTOR_SIZE + nbf(m)
      <4>1. sz[m] = DESCRIPTOR_SIZE + nbf(m) /\ nbf(m) \in Nat
        BY <1>1
      <4> QED
        BY <1>1, <3>1, <4>1
    <3> QED
      BY <3>1, <3>2
  <2> QED
    BY <1>1, <2>1, <2>2
<1>5. Is(size)
  BY <1>4
<1>6. \A n : SizeBefore(ds, n) = size[n - 1]
  BY DEF SizeBefore, nbf
<1> HIDE DEF size
<1>7. size[0] = 0 /\ \A n \in 1 .. N : size[n] = size[n - 1] + DESCRIPTOR_SIZE + nbf(n)
  BY <1>1, <1>5
<1>8. \A n \in 0 .. N : size[n] \in Nat
  <2> DEFINE T == {n \in Nat : size[n] \in Nat}
  <2>1. 0 \in T /\ \A n \in 0 .. N - 1 : n \in T => n + 1 \in T
    BY <1>1, <1>7
  <2> HIDE DEF T
  <2>2. \A n \in 0 .. N : n \in T
    BY <1>1, <2>1, UpTo
  <2> QED
    BY <2>2 DEF T
<1> QED
  BY <1>1, <1>6, <1>7, <1>8 DEF nbf

\* Descriptors are behind each other, and start at multiples of the alignment.
LEMMA SizesGrow ==
  ASSUME NEW ds \in Seq(EditorDesc)
  PROVE  /\ \A m, n \in 1 .. Len(ds) + 1 : m < n => SizeBefore(ds, m) < SizeBefore(ds, n)
         /\ \A n \in 1 .. Len(ds) + 1 : SizeBefore(ds, n) % ALIGN = 0
<1> DEFINE N == Len(ds)
           at(n) == SizeBefore(ds, n)
           sz(n) == DESCRIPTOR_SIZE + Encode(ds[n]).num_bytes_following
<1>1. N \in Nat /\ at(1) = 0 /\ \A n \in 1 .. N + 1 : at(n) \in Nat
  BY SizesAddUp
<1>2. \A n \in 1 .. N : sz(n) \in Nat \ {0} /\ sz(n) % ALIGN = 0
  <2>1. \A n \in 1 .. N : ds[n] \in EditorDesc
    OBVIOUS
  <2>2. DESCRIPTOR_SIZE \in Nat \ {0} /\ ALIGN \in Nat \ {0} /\ DESCRIPTOR_SIZE % ALIGN = 0
    BY SizesAssumption, WriterAssumption, WordsAreNats
  <2>3. ASSUME NEW n \in 1 .. N
        PROVE  sz(n) \in Nat \ {0} /\ sz(n) % ALIGN = 0
    <3>1. /\ Encode(ds[n]).num_bytes_following \in Nat
          /\ Encode(ds[n]).num_bytes_following % ALIGN = 0
      BY <2>1, EncodedSize
    <3>2. sz(n) % ALIGN = 0
      BY <2>2, <3>1, ModAdd
    <3> QED
      BY <2>2, <3>1, <3>2
  <2> QED
    BY <2>3
<1>3. \A n \in 1 .. N : at(n + 1) = at(n) + sz(n)
  <2> SUFFICES ASSUME NEW n \in 1 .. N PROVE at(n + 1) = at(n) + sz(n)
    OBVIOUS
  <2>1. at(n + 1) = at(n) + DESCRIPTOR_SIZE + Encode(ds[n]).num_bytes_following
    BY SizesAddUp
  <2>2. ds[n] \in EditorDesc
    OBVIOUS
  <2>3. /\ DESCRIPTOR_SIZE \in Nat /\ Encode(ds[n]).num_bytes_following \in Nat
        /\ at(n) \in Nat
    BY <1>1, <2>2, EncodedSize, SizesAssumption, WordsAreNats
  <2> QED
    BY <2>1, <2>3
<1> HIDE DEF at, sz
<1>4. \A m, n \in 1 .. N + 1 : m < n => at(m) < at(n)
  <2> SUFFICES ASSUME NEW m \in 1 .. N + 1
               PROVE  \A n \in 1 .. N + 1 : m < n => at(m) < at(n)
    OBVIOUS
  <2> DEFINE T == {k \in Nat : k = 0 \/ (m + k <= N + 1 => at(m) < at(m + k))}
  <2>1. 0 \in T
    BY <1>1
  <2>2. ASSUME NEW k \in 0 .. N, k \in T
        PROVE  k + 1 \in T
    <3>1. ASSUME m + (k + 1) <= N + 1
          PROVE  at(m) < at(m + (k + 1))
      <4>1. m + k \in 1 .. N /\ m + k <= N + 1
        BY <1>1, <2>2, <3>1
      <4>2. at((m + k) + 1) = at(m + k) + sz(m + k) /\ (m + k) + 1 = m + (k + 1)
        BY <1>3, <4>1
      <4>3. at(m + k) \in Nat /\ sz(m + k) \in Nat \ {0} /\ at(m) \in Nat
        BY <1>1, <1>2, <4>1
      <4>4. at(m) <= at(m + k)
        BY <1>1, <2>2, <4>1, <4>3
      <4> QED
        BY <4>2, <4>3, <4>4
    <3> QED
      BY <3>1
  <2>3. \A k \in 0 .. N + 1 : k \in T
    <3> HIDE DEF T
    <3>1. N + 1 \in Nat /\ \A k \in 0 .. (N + 1) - 1 : k \in T => k + 1 \in T
      BY <1>1, <2>2
    <3> QED
      BY <2>1, <3>1, UpTo
  <2>4. ASSUME NEW n \in 1 .. N + 1, m < n
        PROVE  at(m) < at(n)
    <3>1. /\ n - m \in 0 .. N + 1 /\ n - m # 0
          /\ m + (n - m) = n /\ m + (n - m) <= N + 1
      BY <1>1, <2>4
    <3>2. n - m \in T
      BY <2>3, <3>1
    <3> QED
      BY <3>1, <3>2
  <2> QED
    BY <2>4
<1>5. \A n \in 1 .. N + 1 : at(n) % ALIGN = 0
  <2> DEFINE T == {k \in Nat : k <= N => at(k + 1) % ALIGN = 0}
  <2>0. ALIGN \in Nat \ {0}
    BY SizesAssumption
  <2>1. 0 \in T
    BY <1>1, <2>0
  <2>2. ASSUME NEW k \in 0 .. N - 1, k \in T
        PROVE  k + 1 \in T
    <3>1. k + 1 \in 1 .. N /\ at(k + 1) % ALIGN = 0
      BY <1>1, <2>2
    <3>2. at((k + 1) + 1) = at(k + 1) + sz(k + 1)
      BY <1>3, <3>1
    <3>3. at(k + 1) \in Nat /\ sz(k + 1) \in Nat /\ sz(k + 1) % ALIGN = 0
      BY <1>1, <1>2, <3>1
    <3>4. at((k + 1) + 1) % ALIGN = 0
      BY <2>0, <3>1, <3>2, <3>3, ModAdd
    <3> QED
      BY <3>4
  <2>3. \A k \in 0 .. N : k \in T
    <3> HIDE DEF T
    <3>1. \A k \in 0 .. N - 1 : k \in T => k + 1 \in T
      BY <2>2
    <3> QED
      BY <1>1, <2>1, <3>1, UpTo
  <2>4. ASSUME NEW n \in 1 .. N + 1
        PROVE  at(n) % ALIGN = 0
    <3>1. n - 1 \in 0 .. N /\ (n - 1) + 1 = n /\ n - 1 \in Nat
      BY <1>1
    <3>2. n - 1 \in T
      BY <2>3, <3>1
    <3> QED
      BY <3>1, <3>2
  <2> QED
    BY <2>4
<1> QED
  BY <1>4, <1>5 DEF at

\* The editor's descriptors have lists to go to.
LEMMA EditorDescs == Descriptors(EditorDesc)
  BY DEF Descriptors, EditorDesc

\* An image in memory that is as the editor has written it.
Intact(i) == i \in Images /\ i.intact

\* Where its descriptor n starts.
StartOf(i, n) ==
  HEADER_SIZE + AuthBlockSize(i.h.algorithm_type) + SizeBefore(i.ds, n)

\* It has the header that was computed, and each descriptor where it belongs.
LEMMA WrittenLayout ==
  ASSUME NEW i, Intact(i)
  PROVE  /\ i.ds \in Seq(EditorDesc)
         /\ i.h.algorithm_type \in DOMAIN ALGORITHM
         /\ i.h.public_key_metadata_size \in Nat
         /\ i.h = PackedHeader(i.ds, i.h.algorithm_type, i.h.public_key_metadata_size)
         /\ i.hash_matches /\ i.signature_matches
         /\ HEADER_SIZE + AuthBlockSize(i.h.algorithm_type)
              + AuxBlockSize(i.ds, i.h.algorithm_type, i.h.public_key_metadata_size) <= i.length
         /\ \A n \in 1 .. Len(i.ds) : /\ StartOf(i, n) \in DOMAIN i.at
                                      /\ DescAt(i, StartOf(i, n)) = Encode(i.ds[n])
<1> USE DEF Intact
<1>1. i.ds \in Seq(EditorDesc)
  BY WrittenAssumption
<1>2. PICK alg \in DOMAIN ALGORITHM, padded \in BOOLEAN :
        /\ i.h.public_key_metadata_size \in Nat
        /\ i = Written(i.ds, alg, i.h.public_key_metadata_size, padded, i.data, i.other)
  BY WrittenAssumption
<1> DEFINE pkmd == i.h.public_key_metadata_size
           ds == i.ds
           start == HEADER_SIZE + AuthBlockSize(alg)
           size == start + AuxBlockSize(ds, alg, pkmd)
<1>3. EncodeDescriptors(AuxBlob(ds)) = ds
  BY <1>1, EditorDescs, RoundTrips
<1>4. /\ i.h = PackedHeader(ds, alg, pkmd)
      /\ i.hash_matches /\ i.signature_matches
      /\ i.length = IF padded THEN RoundToMultiple(size, PAGE) ELSE size
      /\ i.at = [o \in {start + SizeBefore(ds, n) : n \in DOMAIN ds} |->
                   Encode(ds[CHOOSE n \in DOMAIN ds : start + SizeBefore(ds, n) = o])]
  <2>1. PackVbMeta(AuxBlob(ds), alg, pkmd, padded, i.data)
          = [data |-> i.data,
             length |-> IF padded THEN RoundToMultiple(size, PAGE) ELSE size,
             h |-> PackedHeader(ds, alg, pkmd),
             hash_matches |-> TRUE, signature_matches |-> TRUE,
             at |-> [o \in {start + SizeBefore(ds, n) : n \in DOMAIN ds} |->
                       Encode(ds[CHOOSE n \in DOMAIN ds : start + SizeBefore(ds, n) = o])]]
    BY <1>3 DEF PackVbMeta
  <2> HIDE DEF start, size, pkmd, ds
  <2> DEFINE w == Written(ds, alg, pkmd, padded, i.data, i.other)
  <2>2. /\ w.h = PackedHeader(ds, alg, pkmd)
        /\ w.hash_matches = TRUE /\ w.signature_matches = TRUE
        /\ w.length = IF padded THEN RoundToMultiple(size, PAGE) ELSE size
        /\ w.at = [o \in {start + SizeBefore(ds, n) : n \in DOMAIN ds} |->
                     Encode(ds[CHOOSE n \in DOMAIN ds : start + SizeBefore(ds, n) = o])]
    BY <2>1 DEF Written
  <2>3. i = w
    BY <1>2 DEF ds, pkmd
  <2> QED
    BY <2>2, <2>3
<1>5. i.h.algorithm_type = alg
  BY <1>4 DEF PackedHeader
<1>6. start \in Nat /\ size \in Nat /\ \A n \in 1 .. Len(ds) + 1 : SizeBefore(ds, n) \in Nat
  <2>1. \A n \in 1 .. Len(ds) + 1 : SizeBefore(ds, n) \in Nat
    BY <1>1, SizesAddUp
  <2>2. ALGORITHM[alg].hash \in Nat /\ ALGORITHM[alg].signature \in Nat /\ ALGORITHM[alg].key \in Nat
    BY <1>2, WriterAssumption
  <2>3. AuthBlockSize(alg) \in Nat
    BY <2>2, Rounding, SizesAssumption DEF AuthBlockSize
  <2>4. SizeBefore(ds, Len(ds) + 1) \in Nat
    BY <1>1, <2>1
  <2>5. AuxBlockSize(ds, alg, pkmd) \in Nat
    <3>1. SizeBefore(ds, Len(ds) + 1) + ALGORITHM[alg].key + pkmd \in Nat
      BY <1>2, <2>2, <2>4
    <3> QED
      BY <3>1, Rounding, SizesAssumption DEF AuxBlockSize
  <2> QED
    BY <2>1, <2>3, <2>5, SizesAssumption, WordsAreNats
<1>7. size <= i.length
  BY <1>4, <1>6, Rounding, WriterAssumption
<1>8. ASSUME NEW n \in 1 .. Len(ds)
      PROVE  /\ start + SizeBefore(ds, n) \in DOMAIN i.at
             /\ i.at[start + SizeBefore(ds, n)] = Encode(ds[n])
  <2> DEFINE o == start + SizeBefore(ds, n)
             m == CHOOSE k \in DOMAIN ds : start + SizeBefore(ds, k) = o
  <2>1. DOMAIN ds = 1 .. Len(ds) /\ Len(ds) \in Nat
    BY <1>1
  <2>2. m \in 1 .. Len(ds) /\ start + SizeBefore(ds, m) = o
    BY <2>1
  <2>3. SizeBefore(ds, m) = SizeBefore(ds, n)
    BY <1>6, <2>1, <2>2
  <2>4. m = n
    <3>1. \A j, k \in 1 .. Len(ds) + 1 : j < k => SizeBefore(ds, j) < SizeBefore(ds, k)
      BY <1>1, SizesGrow
    <3> HIDE DEF m, start, o, ds
    <3>2. /\ m \in 1 .. Len(ds) + 1 /\ n \in 1 .. Len(ds) + 1
          /\ SizeBefore(ds, m) \in Nat /\ SizeBefore(ds, n) \in Nat
      BY <1>6, <2>1, <2>2
    <3>3. ~(m < n) /\ ~(n < m)
      BY <2>3, <3>1, <3>2
    <3> QED
      BY <3>2, <3>3
  <2>5. o \in {start + SizeBefore(ds, k) : k \in DOMAIN ds}
    BY <2>1
  <2>6. o \in DOMAIN i.at /\ i.at[o] = Encode(ds[m])
    <3> HIDE DEF start, ds
    <3> QED
      BY <1>4, <2>5
  <2> HIDE DEF m
  <2> QED
    BY <2>4, <2>6
<1> QED
  BY <1>1, <1>2, <1>4, <1>5, <1>7, <1>8 DEF StartOf, DescAt

\* The blocks of a written image, and what is in them.
LEMMA WrittenSizes ==
  ASSUME NEW i, Intact(i)
  PROVE  LET h == i.h
             auth == h.authentication_data_block_size
             aux == h.auxiliary_data_block_size
         IN /\ auth % BLOCK = 0 /\ aux % BLOCK = 0
            /\ HEADER_SIZE + auth + aux <= i.length
            /\ h.hash_offset + h.hash_size <= auth
            /\ h.signature_offset + h.signature_size <= auth
            /\ h.public_key_offset + h.public_key_size <= aux
            /\ h.public_key_metadata_offset + h.public_key_metadata_size <= aux
            /\ h.descriptors_offset = 0
            /\ h.descriptors_size = SizeBefore(i.ds, Len(i.ds) + 1)
            /\ h.descriptors_size <= aux
<1> DEFINE alg == i.h.algorithm_type
           pkmd == i.h.public_key_metadata_size
           all == SizeBefore(i.ds, Len(i.ds) + 1)
           a == ALGORITHM[alg].hash
           b == ALGORITHM[alg].signature
           k == ALGORITHM[alg].key
<1>1. /\ i.ds \in Seq(EditorDesc) /\ alg \in DOMAIN ALGORITHM /\ pkmd \in Nat
      /\ i.h = PackedHeader(i.ds, alg, pkmd)
      /\ HEADER_SIZE + AuthBlockSize(alg) + AuxBlockSize(i.ds, alg, pkmd) <= i.length
  BY WrittenLayout
<1>2. a \in Nat /\ b \in Nat /\ k \in Nat /\ BLOCK \in Nat \ {0}
  BY <1>1, WriterAssumption, SizesAssumption
<1>3. all \in Nat
  BY <1>1, SizesAddUp
<1> HIDE DEF alg, pkmd, all, a, b, k
<1>4. /\ AuthBlockSize(alg) \in Nat /\ a + b <= AuthBlockSize(alg)
      /\ AuthBlockSize(alg) % BLOCK = 0
  <2>1. a + b \in Nat
    BY <1>2
  <2> QED
    BY <1>2, <2>1, Rounding DEF AuthBlockSize, a, b
<1>5. /\ AuxBlockSize(i.ds, alg, pkmd) \in Nat
      /\ all + k + pkmd <= AuxBlockSize(i.ds, alg, pkmd)
      /\ AuxBlockSize(i.ds, alg, pkmd) % BLOCK = 0
  <2>1. all + k + pkmd \in Nat
    BY <1>1, <1>2, <1>3
  <2> QED
    BY <1>2, <2>1, Rounding DEF AuxBlockSize, all, k
<1>6. /\ i.h.authentication_data_block_size = AuthBlockSize(alg)
      /\ i.h.auxiliary_data_block_size = AuxBlockSize(i.ds, alg, pkmd)
      /\ i.h.hash_offset = 0 /\ i.h.hash_size = a
      /\ i.h.signature_offset = a /\ i.h.signature_size = b
      /\ i.h.public_key_offset = all /\ i.h.public_key_size = k
      /\ i.h.public_key_metadata_offset = all + k /\ i.h.public_key_metadata_size = pkmd
      /\ i.h.descriptors_offset = 0 /\ i.h.descriptors_size = all
  BY <1>1 DEF PackedHeader, all, a, b, k
<1> QED
  BY <1>1, <1>2, <1>3, <1>4, <1>5, <1>6 DEF all

\* libavb accepts it.
LEMMA WrittenPasses ==
  ASSUME NEW i, Intact(i)
  PROVE  VBMetaVerify(i) = IF i.h.algorithm_type = "NONE" THEN "OK_NOT_SIGNED" ELSE "OK"
<1> DEFINE h == i.h
           alg == i.h.algorithm_type
           auth == h.authentication_data_block_size
           aux == h.auxiliary_data_block_size
<1>1. /\ IsImage(i) /\ HEADER_SIZE \in Words
      /\ i.data \in Words /\ i.length \in Words /\ i.data + i.length < WORD
      /\ auth \in Words /\ aux \in Words
      /\ h.hash_offset \in Words /\ h.hash_size \in Words
      /\ h.signature_offset \in Words /\ h.signature_size \in Words
      /\ h.public_key_offset \in Words /\ h.public_key_size \in Words
      /\ h.public_key_metadata_offset \in Words /\ h.public_key_metadata_size \in Words
  BY ImagesAssumption, SizesAssumption DEF Intact, IsImage, Header
<1>2. /\ alg \in DOMAIN ALGORITHM /\ h = PackedHeader(i.ds, alg, h.public_key_metadata_size)
      /\ i.hash_matches /\ i.signature_matches
  BY WrittenLayout
<1>3. h.magic /\ h.supported /\ h.release_nul /\ h.hash_size = ALGORITHM[alg].hash
  BY <1>2 DEF PackedHeader
<1>4. \A a, b, c \in Words : a + b <= c => InBlock(a, b, c)
  <2> SUFFICES ASSUME NEW a \in Words, NEW b \in Words, NEW c \in Words, a + b <= c
               PROVE  InBlock(a, b, c)
    OBVIOUS
  <2>1. a + b < WORD
    BY SizesAssumption DEF Words
  <2> QED
    BY <2>1, SafeAddIsTrue DEF InBlock
<1>5. /\ auth % BLOCK = 0 /\ aux % BLOCK = 0
      /\ HEADER_SIZE + auth + aux <= i.length
      /\ h.hash_offset + h.hash_size <= auth
      /\ h.signature_offset + h.signature_size <= auth
      /\ h.public_key_offset + h.public_key_size <= aux
      /\ h.public_key_metadata_offset + h.public_key_metadata_size <= aux
  BY WrittenSizes
<1> HIDE DEF h, auth, aux, alg
<1>6. BlocksFit(i)
  <2>1. /\ HEADER_SIZE \in Nat /\ auth \in Nat /\ aux \in Nat /\ i.length \in Nat
        /\ HEADER_SIZE + auth < WORD /\ HEADER_SIZE + auth + aux < WORD
    BY <1>1, <1>5, SizesAssumption DEF Words
  <2>2. SafeAdd(HEADER_SIZE, auth) /\ Sum(HEADER_SIZE, auth) = HEADER_SIZE + auth
    BY <1>1, <2>1, SafeAddIsTrue
  <2>3. Sum(HEADER_SIZE, auth) \in Words
    BY <1>1, SafeAddIsTrue
  <2>4. SafeAdd(HEADER_SIZE + auth, aux) /\ Sum(HEADER_SIZE + auth, aux) = HEADER_SIZE + auth + aux
    BY <1>1, <2>1, <2>2, <2>3, SafeAddIsTrue
  <2> QED
    BY <1>5, <2>2, <2>4 DEF BlocksFit, auth, aux, h
<1>7. SafeAdd(i.data, i.length)
  BY <1>1, SafeAddIsTrue
<1>8. LayoutValid(i)
  BY <1>1, <1>3, <1>4, <1>5, <1>6, <1>7 DEF LayoutValid, auth, aux, h
<1>9. ~(i.length < HEADER_SIZE)
  BY <1>1, <1>5, WordsAreNats
<1>10. alg # "NONE" => alg \in DOMAIN HASH_LEN /\ h.hash_size = HASH_LEN[alg]
  BY <1>2, <1>3, WriterAssumption
<1> QED
  BY <1>2, <1>3, <1>8, <1>9, <1>10 DEF VBMetaVerify, h, alg

\* Its descriptors are in the region that the walk goes through, which starts
\* at the first of them and ends behind the last.
LEMMA WrittenRegion ==
  ASSUME Intact(image), TypeOK
  PROVE  LET ds == image.ds
             N == Len(ds)
         IN /\ N \in Nat /\ ds \in Seq(EditorDesc)
            /\ \A n \in 1 .. N + 1 : StartOf(image, n) \in Nat
            /\ \A n \in 1 .. N + 1 : (image.data + StartOf(image, n)) % ALIGN = 0
            /\ \A m, n \in 1 .. N + 1 : m < n => StartOf(image, m) < StartOf(image, n)
            /\ \A n \in 1 .. N : StartOf(image, n + 1) = StartOf(image, n) + DESCRIPTOR_SIZE
                                                  + Encode(ds[n]).num_bytes_following
            /\ DescStart = image.data + StartOf(image, 1)
            /\ DescEnd = image.data + StartOf(image, N + 1)
            /\ StartOf(image, N + 1) <= image.length
            /\ RegionInside
<1> DEFINE ds == image.ds
           N == Len(ds)
           h == image.h
           auth == h.authentication_data_block_size
           aux == h.auxiliary_data_block_size
           all == SizeBefore(ds, N + 1)
<1>1. /\ image.data \in Words /\ image.length \in Words
      /\ ImageEnd = image.data + image.length /\ ImageEnd \in Words
      /\ image.data + image.length < WORD
      /\ auth \in Words /\ aux \in Words /\ HEADER_SIZE \in Words
      /\ image.data % ALIGN = 0
  BY ImageTypes, SizesAssumption DEF TypeOK, IsImage, Header
<1>2. /\ ds \in Seq(EditorDesc) /\ N \in Nat
      /\ h = PackedHeader(ds, h.algorithm_type, h.public_key_metadata_size)
  BY WrittenLayout
<1>3. /\ SizeBefore(ds, 1) = 0
      /\ \A n \in 1 .. N : SizeBefore(ds, n + 1)
           = SizeBefore(ds, n) + DESCRIPTOR_SIZE + Encode(ds[n]).num_bytes_following
      /\ \A n \in 1 .. N + 1 : SizeBefore(ds, n) \in Nat
  BY <1>2, SizesAddUp
<1>4. /\ \A m, n \in 1 .. N + 1 : m < n => SizeBefore(ds, m) < SizeBefore(ds, n)
      /\ \A n \in 1 .. N + 1 : SizeBefore(ds, n) % ALIGN = 0
  BY <1>2, SizesGrow
<1>5. /\ auth % BLOCK = 0 /\ HEADER_SIZE + auth + aux <= image.length
      /\ h.descriptors_offset = 0 /\ h.descriptors_size = all /\ all <= aux
  BY WrittenSizes
<1>6. auth = AuthBlockSize(h.algorithm_type)
  <2>1. PackedHeader(ds, h.algorithm_type, h.public_key_metadata_size)
          .authentication_data_block_size = AuthBlockSize(h.algorithm_type)
    BY DEF PackedHeader
  <2> QED
    BY <1>2, <2>1, Zenon
<1>7. \A n : StartOf(image, n) = HEADER_SIZE + auth + SizeBefore(ds, n)
  BY <1>6 DEF StartOf
<1>8. h.magic
  <2>1. PackedHeader(ds, h.algorithm_type, h.public_key_metadata_size).magic = TRUE
    BY DEF PackedHeader
  <2> QED
    BY <1>2, <2>1
<1> HIDE DEF ds, N, auth, aux, all
<1>9. /\ HEADER_SIZE \in Nat /\ auth \in Nat /\ aux \in Nat /\ all \in Nat
      /\ image.data \in Nat /\ image.length \in Nat /\ WORD \in Nat
      /\ DESCRIPTOR_SIZE \in Nat /\ ALIGN \in Nat \ {0} /\ BLOCK \in Nat \ {0}
  <2>1. all \in Nat
    BY <1>2, <1>3 DEF all
  <2>2. DESCRIPTOR_SIZE \in Words
    BY SizesAssumption
  <2> QED
    BY <1>1, <2>1, <2>2, WordsAreNats, SizesAssumption
<1>10. \A n \in 1 .. N + 1 : StartOf(image, n) \in Nat
  BY <1>3, <1>7, <1>9
<1>11. \A n \in 1 .. N + 1 : (image.data + StartOf(image, n)) % ALIGN = 0
  <2>1. HEADER_SIZE % ALIGN = 0 /\ BLOCK % ALIGN = 0
    BY WriterAssumption
  <2>2. auth % ALIGN = 0
    BY <1>5, <1>9, <2>1, ModMod
  <2>3. (HEADER_SIZE + auth) % ALIGN = 0 /\ HEADER_SIZE + auth \in Nat
    <3>1. HEADER_SIZE + auth \in Nat
      BY <1>9
    <3>2. (HEADER_SIZE + auth) % ALIGN = 0
      BY <1>9, <2>1, <2>2, ModAdd
    <3> QED
      BY <3>1, <3>2
  <2>4. \A n \in 1 .. N + 1 : ((HEADER_SIZE + auth) + SizeBefore(ds, n)) % ALIGN = 0
    BY <1>3, <1>4, <1>9, <2>3, ModAdd
  <2>5. \A n \in 1 .. N + 1 : StartOf(image, n) % ALIGN = 0
    BY <1>7, <2>4
  <2> QED
    BY <1>1, <1>9, <1>10, <2>5, ModAdd
<1>12. \A m, n \in 1 .. N + 1 : m < n => StartOf(image, m) < StartOf(image, n)
  <2> SUFFICES ASSUME NEW m \in 1 .. N + 1, NEW n \in 1 .. N + 1, m < n
               PROVE  StartOf(image, m) < StartOf(image, n)
    OBVIOUS
  <2>1. SizeBefore(ds, m) < SizeBefore(ds, n)
    BY <1>4
  <2> QED
    BY <1>3, <1>7, <1>9, <2>1
<1>13. \A n \in 1 .. N : StartOf(image, n + 1) = StartOf(image, n) + DESCRIPTOR_SIZE
                                            + Encode(ds[n]).num_bytes_following
  <2> SUFFICES ASSUME NEW n \in 1 .. N
               PROVE  StartOf(image, n + 1) = StartOf(image, n) + DESCRIPTOR_SIZE
                                         + Encode(ds[n]).num_bytes_following
    OBVIOUS
  <2>1. ds[n] \in EditorDesc /\ n \in 1 .. N + 1
    BY <1>2 DEF N
  <2>2. Encode(ds[n]).num_bytes_following \in Nat /\ SizeBefore(ds, n) \in Nat
    BY <1>3, <2>1, EncodedSize
  <2>3. SizeBefore(ds, n + 1)
          = SizeBefore(ds, n) + DESCRIPTOR_SIZE + Encode(ds[n]).num_bytes_following
    BY <1>3
  <2> QED
    BY <1>7, <1>9, <2>2, <2>3
<1>14. /\ AuxiliaryBlock = image.data + HEADER_SIZE + auth
       /\ AuxiliaryBlock \in Words
  <2>1. image.data + HEADER_SIZE < WORD
    BY <1>1, <1>5, <1>9
  <2>2. Sum(image.data, HEADER_SIZE) = image.data + HEADER_SIZE
    BY <1>1, <2>1, SafeAddIsTrue
  <2>3. image.data + HEADER_SIZE + auth < WORD
    BY <1>1, <1>5, <1>9
  <2>4. Sum(image.data + HEADER_SIZE, auth) = image.data + HEADER_SIZE + auth
    BY <2>3 DEF Sum
  <2> QED
    BY <2>2, <2>4, ImageTypes DEF AuxiliaryBlock, auth
<1>15. /\ DescStart = image.data + HEADER_SIZE + auth
       /\ DescEnd = image.data + HEADER_SIZE + auth + all
       /\ HEADER_SIZE + auth + all <= image.length
  <2>1. image.data + HEADER_SIZE + auth < WORD /\ image.data + HEADER_SIZE + auth + all < WORD
    BY <1>1, <1>5, <1>9
  <2>2. DescStart = image.data + HEADER_SIZE + auth
    BY <1>5, <1>9, <1>14, <2>1 DEF DescStart, Sum
  <2>3. DescEnd = image.data + HEADER_SIZE + auth + all
    BY <1>5, <2>1, <2>2 DEF DescEnd, Sum
  <2> QED
    BY <1>5, <1>9, <2>2, <2>3
<1>16. /\ DescStart = image.data + StartOf(image, 1)
       /\ DescEnd = image.data + StartOf(image, N + 1)
       /\ StartOf(image, N + 1) <= image.length
  <2>1. SizeBefore(ds, N + 1) = all
    BY DEF all
  <2> QED
    BY <1>3, <1>7, <1>9, <1>15, <2>1
<1>17. RegionInside
  <2>1. image.length >= HEADER_SIZE
    BY <1>5, <1>9
  <2>2. /\ image.data <= DescStart /\ DescStart <= ImageEnd
        /\ image.data <= DescEnd /\ DescEnd <= ImageEnd /\ DescStart <= DescEnd
    BY <1>1, <1>9, <1>15
  <2> QED
    BY <1>8, <2>1, <2>2 DEF RegionInside
<1> QED
  BY <1>2, <1>10, <1>11, <1>12, <1>13, <1>16, <1>17 DEF ds, N

\* What encode() writes passes the validator of its type, and is found by the
\* callback of avb_property_lookup() if it is a property with the key.
LEMMA EncodedValid ==
  ASSUME NEW d \in EditorDesc, Encode(d) \in Desc
  PROVE  /\ d.tag # "unknown" => Validated(Encode(d))
         /\ Matches(Encode(d)) <=> d.tag = "property" /\ d.key = wanted
<1> DEFINE e == Encode(d)
           f == FIXED[d.tag] - DESCRIPTOR_SIZE
<1>1. /\ e.tag = d.tag /\ e.len = d.len /\ e.key = d.key /\ e.nul = TRUE
      /\ e.rollback_index_location = d.location
  BY DEF Encode
<1>2. /\ d.tag \in Tags /\ d.len[1] \in Words /\ d.len[2] \in Words /\ d.len[3] \in Words
      /\ d.tag = "chain" => d.location >= 1
  BY DEF EditorDesc
<1>3. f \in Words
  <2>1. d.tag \in DescTags
    BY <1>2 DEF Tags, DescTags
  <2> QED
    BY <2>1, SizesAssumption DEF Words
<1>4. e.num_bytes_following \in Words
  BY DEF Desc
<1>5. e.num_bytes_following % ALIGN = 0
      /\ f + d.len[1] + d.len[2] + d.len[3] <= e.num_bytes_following
  BY EncodedSize
<1> HIDE DEF e, f
<1>6. ContentsFit(e)
  <2>1. /\ d.len[1] \in Nat /\ d.len[2] \in Nat /\ d.len[3] \in Nat /\ f \in Nat
        /\ e.num_bytes_following \in Nat /\ e.num_bytes_following < WORD /\ WORD \in Nat
    BY <1>2, <1>3, <1>4, SizesAssumption DEF Words
  <2>2. /\ f + d.len[1] < WORD /\ f + d.len[1] + d.len[2] < WORD
        /\ f + d.len[1] + d.len[2] + d.len[3] < WORD
    BY <1>5, <2>1
  <2>3. SafeAdd(f, d.len[1]) /\ Sum(f, d.len[1]) = f + d.len[1] /\ f + d.len[1] \in Words
    BY <1>2, <1>3, <2>1, <2>2, SafeAddIsTrue
  <2>4. /\ SafeAdd(f + d.len[1], d.len[2]) /\ Sum(f + d.len[1], d.len[2]) = f + d.len[1] + d.len[2]
        /\ f + d.len[1] + d.len[2] \in Words
    BY <1>2, <2>1, <2>2, <2>3, SafeAddIsTrue
  <2>5. /\ SafeAdd(f + d.len[1] + d.len[2], d.len[3])
        /\ Sum(f + d.len[1] + d.len[2], d.len[3]) = f + d.len[1] + d.len[2] + d.len[3]
    BY <1>2, <2>1, <2>2, <2>4, SafeAddIsTrue
  <2> QED
    BY <1>1, <1>5, <2>3, <2>4, <2>5 DEF ContentsFit, f
<1>7. DescriptorValid(e)
  BY <1>5 DEF DescriptorValid
<1>8. d.tag # "unknown" => Validated(e)
  BY <1>1, <1>2, <1>6, <1>7
     DEF Validated, HashDescriptorValid, HashtreeDescriptorValid, CmdlineDescriptorValid,
         PropertyDescriptorValid, ChainDescriptorValid, Tags
<1>9. Matches(e) <=> d.tag = "property" /\ d.key = wanted
  BY <1>1, <1>6, <1>7 DEF Matches, PropertyDescriptorValid
<1> QED
  BY <1>8, <1>9 DEF e

\* The pointer of the walk is at descriptor n, or behind the last one.
AtDesc(n) == p = image.data + StartOf(image, n)

\* The arithmetic of a step: from s of size ds + z to t, no further than e.
LEMMA StepInside ==
  ASSUME NEW w \in Nat, NEW d \in Nat, NEW l \in Nat, NEW f \in Nat, NEW s \in Nat,
         NEW t \in Nat, NEW e \in Nat, NEW ds \in Nat, NEW z \in Nat,
         d + l < w, t = s + ds + z, f <= t, t <= e, s < e, e <= l
  PROVE  /\ ds + z < w
         /\ (d + s) + (ds + z) = d + t /\ (d + s) + (ds + z) < w
         /\ (ds + z) + (d + s) = d + t /\ (ds + z) + (d + s) < w
         /\ d + f <= d + t /\ d + t <= d + e /\ d + s < d + e
  OBVIOUS

\* There it finds the descriptor, and goes on to the next one; behind the last
\* one the loop ends.
LEMMA WalkWritten ==
  ASSUME Intact(image), TypeOK, NEW n \in 1 .. Len(image.ds) + 1, AtDesc(n)
  PROVE  /\ p % ALIGN = 0
         /\ n = Len(image.ds) + 1 => ~(p < DescEnd)
         /\ n <= Len(image.ds) =>
              /\ n \in 1 .. Len(image.ds)
              /\ p < DescEnd /\ LengthValid /\ SafeAdd(p, Total)
              /\ Sum(p, Total) = image.data + StartOf(image, n + 1)
              /\ p - image.data = StartOf(image, n)
              /\ Here = Encode(image.ds[n]) /\ Here \in Desc
<1> DEFINE ds == image.ds
           N == Len(ds)
           at(k) == StartOf(image, k)
<1>1. /\ N \in Nat /\ ds \in Seq(EditorDesc)
      /\ \A k \in 1 .. N + 1 : at(k) \in Nat
      /\ (image.data + at(n)) % ALIGN = 0
      /\ \A j, k \in 1 .. N + 1 : j < k => at(j) < at(k)
      /\ \A k \in 1 .. N : at(k + 1) = at(k) + DESCRIPTOR_SIZE + Encode(ds[k]).num_bytes_following
      /\ DescStart = image.data + at(1)
      /\ DescEnd = image.data + at(N + 1)
      /\ at(N + 1) <= image.length
  BY WrittenRegion
<1>2. /\ image.data \in Nat /\ image.length \in Nat /\ image.data + image.length < WORD
      /\ DESCRIPTOR_SIZE \in Words /\ DESCRIPTOR_SIZE \in Nat /\ WORD \in Nat
      /\ p \in Words /\ p \in Nat /\ Total \in Words /\ Here \in Desc
  BY ImageTypes, WordsAreNats, SizesAssumption DEF TypeOK, IsImage
<1>a. ALIGN \in Nat \ {0} /\ DESCRIPTOR_SIZE % ALIGN = 0
  BY SizesAssumption, WriterAssumption
<1>3. CASE n = N + 1
  <2>1. ~(p < DescEnd)
    <3>1. p = DescEnd
      BY <1>1, <1>3 DEF AtDesc
    <3> QED
      BY <1>2, <3>1
  <2>2. ~(n <= N)
    BY <1>1, <1>3
  <2> QED
    BY <1>1, <2>1, <2>2 DEF AtDesc
<1>4. CASE n <= N
  <2>1. n \in 1 .. N /\ n + 1 \in 1 .. N + 1 /\ N + 1 \in 1 .. N + 1 /\ 1 \in 1 .. N + 1
    BY <1>1, <1>4
  <2>2. p - image.data = at(n)
    BY <1>1, <1>2 DEF AtDesc
  <2>3. DescAt(image, at(n)) = Encode(ds[n]) /\ Here = Encode(ds[n])
    BY <2>1, <2>2, WrittenLayout DEF Here
  <2>4. ds[n] \in EditorDesc
    BY <1>1, <2>1
  <2>0. /\ p = image.data + at(n) /\ DescStart = image.data + at(1)
        /\ DescEnd = image.data + at(N + 1) /\ at(N + 1) <= image.length
    BY <1>1 DEF AtDesc
  <2> HIDE DEF at, ds, N
  <2> DEFINE z == Encode(ds[n]).num_bytes_following
  <2>b. z % ALIGN = 0
    BY <2>4, EncodedSize
  <2>5. z \in Nat /\ z = Here.num_bytes_following /\ z \in Words
    BY <1>2, <2>3, <2>4, EncodedSize DEF Desc
  <2>6. /\ at(n) \in Nat /\ at(n + 1) \in Nat /\ at(N + 1) \in Nat /\ at(1) \in Nat
        /\ at(n + 1) = at(n) + DESCRIPTOR_SIZE + z
    BY <1>1, <2>1
  <2>7. at(n) < at(N + 1) /\ at(n + 1) <= at(N + 1) /\ at(1) <= at(n + 1)
    <3>1. n < N + 1 /\ (n + 1 = N + 1 \/ n + 1 < N + 1) /\ 1 < n + 1
      BY <1>1, <2>1 DEF N
    <3>2. at(n) < at(N + 1) /\ at(1) < at(n + 1) /\ (n + 1 = N + 1 \/ at(n + 1) < at(N + 1))
      BY <1>1, <2>1, <3>1
    <3> QED
      BY <2>6, <3>2
  <2> HIDE DEF z
  <2> DEFINE d == image.data
             s == at(n)
             t == at(n + 1)
             b == DESCRIPTOR_SIZE + z
  <2>8. /\ b < WORD /\ b \in Nat
        /\ p + b = d + t /\ p + b < WORD
        /\ b + p = d + t /\ b + p < WORD
        /\ DescStart <= d + t /\ d + t <= DescEnd /\ p < DescEnd
    <3> DEFINE l == image.length
               e == at(N + 1)
               f == at(1)
    <3>1. /\ s \in Nat /\ t \in Nat /\ e \in Nat /\ f \in Nat
          /\ d \in Nat /\ l \in Nat /\ d + l < WORD
          /\ t = s + DESCRIPTOR_SIZE + z /\ s < e /\ t <= e /\ f <= t /\ e <= l
          /\ p = d + s /\ DescStart = d + f /\ DescEnd = d + e
      BY <1>2, <2>0, <2>6, <2>7
    <3>2. DESCRIPTOR_SIZE \in Nat /\ z \in Nat /\ WORD \in Nat /\ b = DESCRIPTOR_SIZE + z
      BY <1>2, <2>5
    <3> HIDE DEF d, s, t, b, l, e, f
    <3> QED
      BY <3>1, <3>2, StepInside
  <2>9. /\ SafeAdd(DESCRIPTOR_SIZE, Here.num_bytes_following)
        /\ Total = b
    BY <1>2, <2>5, <2>8, SafeAddIsTrue DEF Total
  <2>10. Total % ALIGN = 0
    BY <1>2, <1>a, <2>b, <2>5, <2>9, ModAdd
  <2> HIDE DEF d, s, t, b
  <2>11. SafeAdd(p, Total) /\ Sum(p, Total) = d + t
    BY <1>2, <2>8, <2>9, SafeAddIsTrue
  <2>12. Sum(Total, p) = d + t
    BY <2>8, <2>9 DEF Sum
  <2>13. DescStart <= Sum(Total, p) /\ Sum(Total, p) <= DescEnd
    BY <2>8, <2>12
  <2>15. LengthValid
    BY <2>9, <2>10, <2>13 DEF LengthValid
  <2>16. n # N + 1 /\ p % ALIGN = 0
    BY <1>1, <1>4 DEF AtDesc, at
  <2> QED
    BY <1>2, <2>1, <2>2, <2>3, <2>8, <2>11, <2>15, <2>16 DEF at, ds, N, d, t
<1> QED
  BY <1>1, <1>3, <1>4
-----------------------------------------------------------------------------
(***************************************************************************)
(* Reading what was written: the inductive invariant.  The pointer is at a *)
(* descriptor or behind the last one, those before it are in the table, or *)
(* are not the property looked for.                                        *)
(***************************************************************************)
Accepted == IF image.h.algorithm_type = "NONE" THEN "OK_NOT_SIGNED" ELSE "OK"

\* Descriptor n is a property with the key that is looked for; the first one.
Wanted(n) == image.ds[n].tag = "property" /\ image.ds[n].key = wanted
FirstWanted(n) == Wanted(n) /\ \A m \in 1 .. n - 1 : ~Wanted(m)
ValueOf(n) == StartOf(image, n) + FIXED["property"] - 1 + image.ds[n].len[1]

Standing(n) ==
  /\ AtDesc(n)
  /\ cb = "set" => n = Len(table) + 1
  /\ cb = "lookup" => \A m \in 1 .. n - 1 : ~Wanted(m)

LookedUp ==
  \/ value = NotFound /\ \A n \in 1 .. Len(image.ds) : ~Wanted(n)
  \/ \E n \in 1 .. Len(image.ds) : FirstWanted(n) /\ value = ValueOf(n)

Reads ==
  /\ verdict = IF pc = "verify" THEN "NONE" ELSE Accepted
  /\ pc # "aborted"
  /\ pc = "allocate" => cb = "count"
  /\ cb = "set" => /\ Len(table) <= Len(image.ds)
                   /\ \A n \in 1 .. Len(table) : table[n] = StartOf(image, n)
  /\ pc = "loop" => \E n \in 1 .. Len(image.ds) + 1 : Standing(n)
  /\ cb = "set" /\ pc = "done" => Len(table) = Len(image.ds)
  /\ cb = "lookup" /\ pc = "done" => LookedUp

ReadsWritten == image \in Images /\ (image.intact => Reads)

LEMMA IntactStays ==
  ASSUME image' = image
  PROVE  /\ Intact(image)' = Intact(image) /\ Accepted' = Accepted
         /\ \A n : StartOf(image, n)' = StartOf(image, n)
  BY DEF Intact, Accepted, StartOf

\* Verification, and the calls before and between the walks.
LEMMA OutsideReads ==
  ASSUME IInv, Intact(image), Reads, Verify \/ GetAll \/ (\E key \in Keys : Lookup(key)) \/ Allocate
                              \/ AllocateFails
  PROVE  Reads'
<1>1. image' = image /\ Accepted' = Accepted
  BY IntactStays DEF Verify, GetAll, Lookup, Allocate, AllocateFails
<1>2. CASE Verify
  <2>1. verdict' = Accepted /\ Accepted \in Parsed /\ pc = "verify"
    BY <1>2, WrittenPasses DEF Verify, Accepted, Parsed
  <2>2. pc' = "ready" /\ cb' = cb /\ cb # "set"
    BY <1>2, <2>1 DEF Verify, IInv, Progress
  <2> QED
    BY <1>1, <2>1, <2>2 DEF Reads
<1>3. CASE GetAll \/ \E key \in Keys : Lookup(key)
  <2>1. pc = "ready" /\ pc' = "begin" /\ cb' # "set" /\ verdict' = verdict
    BY <1>3 DEF GetAll, Lookup
  <2> QED
    BY <1>1, <2>1 DEF Reads
<1>4. CASE Allocate
  <2>1. /\ pc = "allocate" /\ pc' = "begin" /\ cb' = "set" /\ table' = <<>> /\ verdict' = verdict
    BY <1>4 DEF Allocate
  <2>2. Len(image.ds) \in Nat
    BY WrittenLayout
  <2>3. Len(table') = 0 /\ Len(table') <= Len(image'.ds)
    BY <1>1, <2>1, <2>2
  <2> QED
    BY <1>1, <2>1, <2>3 DEF Reads
<1>5. CASE AllocateFails
  <2>1. pc = "allocate" /\ pc' = "done" /\ cb' = cb /\ verdict' = verdict
    BY <1>5 DEF AllocateFails
  <2>2. cb = "count"
    BY <2>1 DEF Reads
  <2> QED
    BY <1>1, <2>1, <2>2 DEF Reads
<1> QED
  BY <1>2, <1>3, <1>4, <1>5

\* A walk that begins stands at the first descriptor.
LEMMA BeginReads ==
  ASSUME IInv, Intact(image), Reads, Begin \/ BeginFails
  PROVE  Reads'
<1> DEFINE N == Len(image.ds)
<1>1. TypeOK /\ pc = "begin"
  BY DEF IInv, Begin, BeginFails
<1>2. N \in Nat /\ RegionInside /\ DescStart = image.data + StartOf(image, 1)
  BY <1>1, WrittenRegion
<1>3. /\ p' = DescStart /\ pc' = "loop" /\ cb' = cb /\ image' = image /\ wanted' = wanted
      /\ table' = table /\ verdict' = verdict
  BY <1>2 DEF Begin, BeginFails
<1>4. Accepted' = Accepted /\ \A n : StartOf(image, n)' = StartOf(image, n)
  BY <1>3, IntactStays
<1>5. cb = "set" => Len(table) = 0
  BY <1>1 DEF IInv, Progress
<1>6. Standing(1)'
  <2>1. AtDesc(1)'
    BY <1>2, <1>3, <1>4 DEF AtDesc
  <2>2. cb' = "set" => 1 = Len(table') + 1
    BY <1>3, <1>5
  <2> QED
    BY <2>1, <2>2 DEF Standing
<1>7. 1 \in 1 .. Len(image'.ds) + 1
  BY <1>2, <1>3
<1> QED
  BY <1>1, <1>3, <1>4, <1>6, <1>7 DEF Reads

\* A walk ends behind the last descriptor, and nowhere else.
LEMMA EndReads ==
  ASSUME IInv, Intact(image), Reads, Finish \/ Misaligned \/ LengthFails
  PROVE  Reads'
<1> DEFINE N == Len(image.ds)
<1>1. TypeOK /\ pc = "loop"
  BY DEF IInv, Finish, Misaligned, LengthFails
<1>2. PICK n \in 1 .. N + 1 : Standing(n)
  BY <1>1 DEF Reads
<1>3. /\ p % ALIGN = 0
      /\ n = N + 1 => ~(p < DescEnd)
      /\ n <= N => p < DescEnd /\ LengthValid
  BY <1>1, <1>2, WalkWritten DEF Standing
<1>4. N \in Nat /\ p \in Nat /\ DescEnd \in Nat
  BY <1>1, WrittenRegion, ImageTypes, WordsAreNats DEF TypeOK
<1>5. Finish /\ n = N + 1
  <2>1. n <= N \/ n = N + 1
    BY <1>2, <1>4
  <2>2. p < DescEnd <=> ~(p >= DescEnd)
    BY <1>4
  <2> QED
    BY <1>3, <2>1, <2>2 DEF Finish, Misaligned, LengthFails
<1>6. /\ image' = image /\ cb' = cb /\ table' = table /\ verdict' = verdict /\ wanted' = wanted
      /\ pc' = IF cb = "count" THEN "allocate" ELSE "done"
      /\ value' = IF cb = "lookup" THEN NotFound ELSE value
  BY <1>5 DEF Finish, Return
<1>7. Accepted' = Accepted /\ \A k : StartOf(image, k)' = StartOf(image, k)
  BY <1>6, IntactStays
<1>8. cb' = "set" => Len(table') = Len(image'.ds)
  <2>1. cb = "set" => N + 1 = Len(table) + 1
    BY <1>2, <1>5 DEF Standing
  <2>2. Len(table) \in Nat
    <3>1. table \in Seq(Nat)
      BY <1>1 DEF TypeOK
    <3> QED
      BY <3>1
  <2> QED
    BY <1>4, <1>6, <2>1, <2>2
<1>9. cb' = "lookup" => LookedUp'
  <2>1. cb = "lookup" => \A m \in 1 .. N : ~Wanted(m)
    <3>1. (N + 1) - 1 = N
      BY <1>4
    <3> QED
      BY <1>2, <1>5, <3>1 DEF Standing
  <2>2. NotFound' = NotFound /\ \A m : Wanted(m)' = Wanted(m)
    BY <1>6 DEF Wanted, NotFound
  <2> QED
    BY <1>6, <2>1, <2>2 DEF LookedUp
<1> QED
  BY <1>1, <1>6, <1>7, <1>8, <1>9 DEF Reads

\* A callback is called at a descriptor, and the pointer moves to the next one.
LEMMA CallReads ==
  ASSUME IInv, Intact(image), Reads, Call
  PROVE  Reads'
<1> DEFINE N == Len(image.ds)
<1>1. /\ TypeOK /\ pc = "loop" /\ p < DescEnd
      /\ image' = image /\ verdict' = verdict /\ cb' = cb /\ wanted' = wanted
  BY DEF IInv, Call
<1>2. PICK n \in 1 .. N + 1 : Standing(n)
  BY <1>1 DEF Reads
<1>3. N \in Nat /\ image.ds \in Seq(EditorDesc)
  BY <1>1, WrittenRegion
<1>4. n \in 1 .. N /\ n + 1 \in 1 .. N + 1
  <2>1. n # N + 1
    BY <1>1, <1>2, WalkWritten DEF Standing
  <2> QED
    BY <1>2, <1>3, <2>1
<1>5. /\ SafeAdd(p, Total)
      /\ Sum(p, Total) = image.data + StartOf(image, n + 1)
      /\ p - image.data = StartOf(image, n)
      /\ Here = Encode(image.ds[n]) /\ Here \in Desc
  <2>1. n <= N
    BY <1>4
  <2> QED
    BY <1>1, <1>2, <2>1, WalkWritten DEF Standing
<1>6. image.ds[n] \in EditorDesc
  BY <1>3, <1>4
<1>7. /\ Accepted' = Accepted /\ \A k : StartOf(image, k)' = StartOf(image, k)
      /\ \A k : Wanted(k)' = Wanted(k)
  BY <1>1, IntactStays DEF Wanted
<1>8. Advance => p' = image.data + StartOf(image, n + 1) /\ pc' = "loop" /\ AtDesc(n + 1)'
  BY <1>1, <1>5, <1>7 DEF Advance, AtDesc
<1>9. Len(image'.ds) = N
  BY <1>1
<1>10. CASE Count
  <2>1. cb = "count" /\ Advance
    BY <1>10 DEF Count
  <2>2. Standing(n + 1)'
    BY <1>1, <1>8, <2>1 DEF Standing
  <2> QED
    BY <1>1, <1>4, <1>7, <1>8, <1>9, <2>1, <2>2 DEF Reads
<1>11. CASE Set
  <2>1. cb = "set" /\ Advance /\ table' = Append(table, StartOf(image, n))
    BY <1>5, <1>11 DEF Set
  <2>2. /\ table \in Seq(Nat) /\ Len(table) \in Nat /\ n = Len(table) + 1
        /\ StartOf(image, n) \in Nat
    <3>1. table \in Seq(Nat)
      BY <1>1 DEF TypeOK
    <3>2. n = Len(table) + 1
      BY <1>2, <2>1 DEF Standing
    <3>3. StartOf(image, n) \in Nat
      BY <1>1, <1>2, WrittenRegion
    <3> QED
      BY <3>1, <3>2, <3>3
  <2>3. /\ Len(table') = n /\ table'[n] = StartOf(image, n)
        /\ \A k \in 1 .. Len(table) : table'[k] = table[k]
    BY <2>1, <2>2
  <2>4. \A k \in 1 .. Len(table') : table'[k] = StartOf(image, k)
    <3> TAKE k \in 1 .. Len(table')
    <3>1. k \in 1 .. Len(table) \/ k = n
      BY <2>2, <2>3
    <3>2. \A j \in 1 .. Len(table) : table[j] = StartOf(image, j)
      BY <2>1 DEF Reads
    <3> QED
      BY <2>3, <3>1, <3>2
  <2>5. Len(table') <= N
    BY <1>4, <2>3
  <2>6. Standing(n + 1)'
    BY <1>1, <1>8, <2>1, <2>3 DEF Standing
  <2> QED
    BY <1>1, <1>4, <1>7, <1>8, <1>9, <2>1, <2>4, <2>5, <2>6 DEF Reads
<1>12. CASE Examine
  <2>1. cb = "lookup" /\ \A m \in 1 .. n - 1 : ~Wanted(m)
    BY <1>2, <1>12 DEF Examine, Standing
  <2>2. Matches(Here) <=> Wanted(n)
    BY <1>5, <1>6, EncodedValid DEF Wanted
  <2>3. CASE ~Matches(Here) /\ Advance
    <3>1. \A m \in 1 .. (n + 1) - 1 : ~Wanted(m)
      <4> TAKE m \in 1 .. (n + 1) - 1
      <4>1. m \in 1 .. n - 1 \/ m = n
        BY <1>4
      <4> QED
        BY <2>1, <2>2, <2>3, <4>1
    <3>2. Standing(n + 1)'
      BY <1>1, <1>7, <1>8, <2>1, <2>3, <3>1 DEF Standing
    <3> QED
      BY <1>1, <1>4, <1>7, <1>8, <1>9, <2>1, <2>3, <3>2 DEF Reads
  <2>4. CASE ~(~Matches(Here) /\ Advance)
    <3>1. /\ Matches(Here) /\ pc' = "done"
          /\ value' = (p - image.data) + FIXED["property"] - 1 + Here.len[1]
      BY <1>12, <2>4 DEF Examine
    <3>2. Here.len = image.ds[n].len
      BY <1>5 DEF Encode
    <3>3. value' = ValueOf(n)
      BY <1>5, <3>1, <3>2 DEF ValueOf
    <3>4. FirstWanted(n)' /\ ValueOf(n)' = ValueOf(n)
      BY <1>1, <1>7, <2>1, <2>2, <3>1 DEF FirstWanted, ValueOf
    <3>5. LookedUp'
      BY <1>4, <1>9, <3>3, <3>4 DEF LookedUp
    <3> QED
      BY <1>1, <1>7, <2>1, <3>1, <3>5 DEF Reads
  <2> QED
    BY <2>3, <2>4
<1> QED
  BY <1>10, <1>11, <1>12 DEF Call

LEMMA NextReads == IInv /\ ReadsWritten /\ [Next]_vars => ReadsWritten'
<1> SUFFICES ASSUME IInv, ReadsWritten, [Next]_vars PROVE ReadsWritten'
  OBVIOUS
<1>1. image' = image
  BY DEF Next, Step, Verify, GetAll, Lookup, BeginFails, Begin, Finish, Misaligned, LengthFails,
         Call, Allocate, AllocateFails, Terminated, vars
<1>2. SUFFICES ASSUME image.intact PROVE Reads'
  BY <1>1 DEF ReadsWritten
<1>3. Intact(image) /\ Reads
  BY <1>2 DEF ReadsWritten, Intact
<1>4. CASE Verify \/ GetAll \/ (\E key \in Keys : Lookup(key)) \/ Allocate \/ AllocateFails
  BY <1>3, <1>4, OutsideReads
<1>5. CASE Begin \/ BeginFails
  BY <1>3, <1>5, BeginReads
<1>6. CASE Finish \/ Misaligned \/ LengthFails
  BY <1>3, <1>6, EndReads
<1>7. CASE Call
  BY <1>3, <1>7, CallReads
<1>8. CASE Terminated \/ UNCHANGED vars
  <2>1. /\ pc' = pc /\ cb' = cb /\ p' = p /\ verdict' = verdict /\ table' = table
        /\ wanted' = wanted /\ value' = value
    BY <1>8 DEF Terminated, vars
  <2>2. /\ Accepted' = Accepted /\ \A n : StartOf(image, n)' = StartOf(image, n)
        /\ \A n : Wanted(n)' = Wanted(n)
    BY <1>1, <2>1, IntactStays DEF Wanted
  <2>3. /\ \A n : Standing(n)' = Standing(n)
        /\ \A n : FirstWanted(n)' = FirstWanted(n) /\ ValueOf(n)' = ValueOf(n)
    BY <1>1, <2>1, <2>2 DEF Standing, AtDesc, FirstWanted, ValueOf
  <2>4. LookedUp' = LookedUp
    BY <1>1, <2>1, <2>2, <2>3 DEF LookedUp, NotFound
  <2> QED
    BY <1>1, <1>3, <2>1, <2>2, <2>3, <2>4 DEF Reads
<1> QED
  BY <1>4, <1>5, <1>6, <1>7, <1>8 DEF Next, Step

\* What the invariant says of the table and of the value found is what the
\* properties say.
LEMMA ReadsListed ==
  ASSUME IInv, Intact(image), Reads
  PROVE  WrittenAccepted
<1> DEFINE ds == image.ds
           N == Len(ds)
<1>1. verdict \in {"NONE", Accepted} /\ pc # "aborted"
  BY DEF Reads
<1>2. ASSUME pc = "done", cb = "set"
      PROVE  /\ [n \in DOMAIN table |-> DescAt(image, table[n])] = [n \in DOMAIN ds |-> Encode(ds[n])]
             /\ \A n \in DOMAIN table :
                  DescAt(image, table[n]).tag # "unknown" => Validated(DescAt(image, table[n]))
  <2>1. TypeOK /\ table \in Seq(Nat)
    BY DEF IInv, TypeOK
  <2>2. N \in Nat /\ ds \in Seq(EditorDesc)
    BY WrittenLayout
  <2>3. DOMAIN table = 1 .. N /\ DOMAIN ds = 1 .. N
    BY <1>2, <2>1, <2>2 DEF Reads
  <2>4. ASSUME NEW n \in 1 .. N
        PROVE  DescAt(image, table[n]) = Encode(ds[n]) /\ Encode(ds[n]) \in Desc
    <3>1. table[n] = StartOf(image, n)
      BY <1>2, <2>3 DEF Reads
    <3>2. DescAt(image, StartOf(image, n)) = Encode(ds[n])
      BY WrittenLayout
    <3> QED
      BY <2>1, <3>1, <3>2, DescAtType DEF TypeOK
  <2>5. \A n \in 1 .. N : Encode(ds[n]).tag = ds[n].tag /\ ds[n] \in EditorDesc
    BY <2>2 DEF Encode
  <2>6. \A n \in 1 .. N : Encode(ds[n]).tag # "unknown" => Validated(Encode(ds[n]))
    BY <2>4, <2>5, EncodedValid
  <2> HIDE DEF ds, N
  <2> QED
    BY <2>3, <2>4, <2>6
<1> QED
  BY <1>1, <1>2 DEF WrittenAccepted, Accepted

LEMMA ReadsFound ==
  ASSUME IInv, Intact(image), Reads
  PROVE  LookupFinds
<1> DEFINE ds == image.ds
           N == Len(ds)
           with == {n \in DOMAIN ds : ds[n].tag = "property" /\ ds[n].key = wanted}
<1>1. SUFFICES ASSUME cb = "lookup", pc = "done"
               PROVE  value = IF with = {} THEN NotFound ELSE ValueOf(Min(with))
  BY DEF LookupFinds, ValueOf, StartOf
<1>2. ds \in Seq(EditorDesc) /\ N \in Nat /\ DOMAIN ds = 1 .. N
  BY WrittenLayout
<1>3. LookedUp
  BY <1>1 DEF Reads
<1>4. \A n : n \in with <=> n \in 1 .. N /\ Wanted(n)
  BY <1>2 DEF Wanted
<1>5. with \in SUBSET Nat /\ IsFiniteSet(with)
  <2>1. IsFiniteSet(1 .. N)
    BY <1>2, FS_Interval
  <2> QED
    BY <1>2, <2>1, FS_Subset
<1> HIDE DEF with
<1>6. CASE value = NotFound /\ \A n \in 1 .. N : ~Wanted(n)
  BY <1>4, <1>6
<1>7. CASE \E n \in 1 .. N : FirstWanted(n) /\ value = ValueOf(n)
  <2>1. PICK n \in 1 .. N : FirstWanted(n) /\ value = ValueOf(n)
    BY <1>7
  <2>2. n \in with /\ with # {}
    BY <1>4, <2>1 DEF FirstWanted
  <2>3. Min(with) \in with /\ Min(with) <= n
    BY <1>5, <2>2, MaxMin
  <2>4. Min(with) \in 1 .. N /\ Wanted(Min(with))
    BY <1>4, <2>3
  <2>5. Min(with) \notin 1 .. n - 1
    BY <2>1, <2>4 DEF FirstWanted
  <2>6. Min(with) = n
    BY <1>2, <2>3, <2>4, <2>5
  <2> QED
    BY <2>1, <2>2, <2>6
<1> QED
  BY <1>3, <1>6, <1>7 DEF LookedUp

\* libavb accepts every image that packVbMeta() writes, with any descriptors,
\* algorithm, metadata and padding, lists all of its descriptors in their order
\* and validates them; and avb_property_lookup() finds the first property with
\* a key. No step of the walk stops the program or ends it early.
THEOREM WrittenIsUsable == Spec => []WrittenUsable
<1>1. Init => ReadsWritten
  BY DEF Init, ReadsWritten, Reads
<1>2. IInv /\ ReadsWritten => WrittenUsable
  <2> SUFFICES ASSUME IInv, ReadsWritten PROVE WrittenUsable
    OBVIOUS
  <2>1. CASE image.intact
    BY <2>1, ReadsListed, ReadsFound DEF ReadsWritten, Intact, WrittenUsable
  <2>2. CASE ~image.intact
    BY <2>2 DEF WrittenUsable, WrittenAccepted, LookupFinds
  <2> QED
    BY <2>1, <2>2
<1> QED
  BY <1>1, <1>2, NextReads, Invariant, PTL DEF Spec
-----------------------------------------------------------------------------
(***************************************************************************)
(* The editor's lists                                                      *)
(***************************************************************************)
\* The first entry of the list of hash descriptors is the first of them in the
\* image, and there is one of its partition.
LEMMA FirstHash ==
  ASSUME NEW ds \in Seq(EditorDesc), AuxBlob(ds)["hash"] # <<>>
  PROVE  LET first == Nth(OfTag(ds, "hash"), 1)
         IN /\ first \in DOMAIN ds /\ AuxBlob(ds)["hash"][1].desc = ds[first]
            /\ first \in HashesOf(ds, ds[first].partition)
<1> DEFINE hashes == AuxBlob(ds)["hash"]
           I == OfTag(ds, "hash")
<1>1. /\ I \in SUBSET (1 .. Len(ds)) /\ DOMAIN ds = 1 .. Len(ds)
      /\ \A n \in DOMAIN hashes : Nth(I, n) \in I /\ hashes[n] = [desc |-> ds[Nth(I, n)], sequence |-> Nth(I, n)]
      /\ Numbered(hashes, I, ds, EditorDesc)
  <2>1. "hash" \in Tags
    BY DEF Tags
  <2> QED
    BY <2>1, AuxBlobList
<1>2. 1 \in DOMAIN hashes
  <2>1. hashes \in Seq(Entry(EditorDesc)) /\ hashes # <<>>
    BY <1>1 DEF Numbered
  <2> HIDE DEF hashes
  <2> QED
    BY <2>1
<1>3. Nth(I, 1) \in I /\ hashes[1].desc = ds[Nth(I, 1)]
  <2>1. Nth(I, 1) \in I /\ hashes[1] = [desc |-> ds[Nth(I, 1)], sequence |-> Nth(I, 1)]
    BY <1>1, <1>2
  <2> QED
    BY <2>1
<1>4. \A i \in I : i \in DOMAIN ds /\ ds[i].tag = "hash"
  BY DEF OfTag
<1> HIDE DEF I, hashes
<1> QED
  BY <1>3, <1>4 DEF HashesOf, I, hashes

\* Signed, the only hash descriptor of the first one's partition stays first.
LEMMA FirstSignedStays ==
  ASSUME NEW ds \in Seq(EditorDesc), NEW digest \in Digests, AuxBlob(ds)["hash"] # <<>>,
         NEW part, part = AuxBlob(ds)["hash"][1].desc.partition,
         Cardinality(HashesOf(ds, part)) = 1
  PROVE  AuxBlob(Resigned(ds, part, digest))["hash"][1].desc
           = [AuxBlob(ds)["hash"][1].desc EXCEPT !.digest = digest]
<1> DEFINE I == OfTag(ds, "hash")
           N == Len(ds)
           H == HashesOf(ds, part)
           keep == Nth(I, 1)
           new == [ds EXCEPT ![keep].digest = digest]
           back == AuxBlob(new)["hash"]
<1>0. /\ DOMAIN ds = 1 .. N /\ N \in Nat /\ \A i \in 1 .. N : ds[i] \in EditorDesc
      /\ "hash" \in Tags
  BY DEF Tags
<1>1. keep \in 1 .. N /\ AuxBlob(ds)["hash"][1].desc = ds[keep] /\ keep \in H
  BY <1>0, FirstHash
<1>2. H = {keep} /\ Max(H) = keep
  <2>1. IsFiniteSet(H) /\ Max(H) \in H
    BY <1>1, HashEntries
  <2>2. PICK x : H = {x}
    BY <2>1, FS_Singleton
  <2> HIDE DEF H, keep
  <2> QED
    BY <1>1, <2>1, <2>2
<1>3. Resigned(ds, part, digest) = At(new, 1 .. N)
  <2>1. {i \in DOMAIN ds : i \notin H \ {keep}} = 1 .. N
    <3> HIDE DEF H, keep, N
    <3> QED
      BY <1>0, <1>2
  <2>2. Max(HashesOf(ds, part)) = keep
    BY <1>2
  <2>3. {i \in DOMAIN ds : i \notin HashesOf(ds, part) \ {keep}} = 1 .. N
    BY <2>1
  <2> HIDE DEF keep, N, H
  <2> QED
    BY <2>2, <2>3 DEF Resigned
<1> HIDE DEF keep, H, N
<1>4. /\ DOMAIN new = 1 .. N /\ new[keep] = [ds[keep] EXCEPT !.digest = digest]
      /\ \A i \in 1 .. N : i # keep => new[i] = ds[i]
  BY <1>0, <1>1
<1>5. [ds[keep] EXCEPT !.digest = digest] \in EditorDesc
      /\ [ds[keep] EXCEPT !.digest = digest].tag = ds[keep].tag
  <2>1. ds[keep] \in EditorDesc
    BY <1>0, <1>1
  <2> QED
    BY <2>1 DEF EditorDesc
<1>6. \A i \in 1 .. N : new[i] \in EditorDesc /\ new[i].tag = ds[i].tag
  BY <1>0, <1>4, <1>5
<1>7. new = [i \in 1 .. N |-> new[i]]
  BY <1>0 DEF new
<1> HIDE DEF new
<1>8. new \in Seq(EditorDesc) /\ Len(new) = N
  <2>1. new \in [1 .. N -> EditorDesc]
    BY <1>6, <1>7
  <2> QED
    BY <1>0, <2>1
<1>9. Resigned(ds, part, digest) = new
  BY <1>3, <1>8, AtAll
<1>10. OfTag(new, "hash") = I
  BY <1>0, <1>4, <1>6 DEF OfTag
<1>11. /\ DOMAIN back = 1 .. Cardinality(I)
       /\ \A n \in DOMAIN back : back[n] = [desc |-> new[Nth(I, n)], sequence |-> Nth(I, n)]
  BY <1>0, <1>8, <1>10, AuxBlobList
<1>12. 1 \in 1 .. Cardinality(I)
  <2>1. DOMAIN AuxBlob(ds)["hash"] = 1 .. Cardinality(I)
        /\ Numbered(AuxBlob(ds)["hash"], I, ds, EditorDesc) /\ Cardinality(I) \in Nat
    BY <1>0, AuxBlobList
  <2> DEFINE hashes == AuxBlob(ds)["hash"]
  <2>2. hashes \in Seq(Entry(EditorDesc)) /\ hashes # <<>>
    BY <2>1 DEF Numbered
  <2> HIDE DEF hashes
  <2>3. Len(hashes) # 0 /\ DOMAIN hashes = 1 .. Len(hashes) /\ Len(hashes) \in Nat
    BY <2>2
  <2>4. 1 \in DOMAIN hashes
    BY <2>3
  <2> QED
    BY <2>1, <2>4 DEF hashes
<1>13. back[1] = [desc |-> new[keep], sequence |-> keep]
  <2> HIDE DEF back, I
  <2> QED
    BY <1>11, <1>12 DEF keep
<1>14. back[1].desc = new[keep]
  BY <1>13
<1> QED
  BY <1>1, <1>4, <1>9, <1>14 DEF back

\* What the editor does to the lists it has read from an image, it does in
\* place: writing them unchanged gives the image back, signing changes one
\* digest and takes away what else there is of the partition, and packing
\* replaces one descriptor or puts the first.
THEOREM EditsAreInPlace == Spec => []EditsInPlace
<1>1. ReadsWritten => EditsInPlace
  <2> SUFFICES ASSUME ReadsWritten PROVE EditsInPlace
    OBVIOUS
  <2> DEFINE ds == image.ds
  <2>1. ds \in Seq(EditorDesc)
    BY WrittenAssumption DEF ReadsWritten
  <2> HIDE DEF ds
  <2>2. EncodeDescriptors(AuxBlob(ds)) = ds
    BY <2>1, EditorDescs, RoundTrips
  <2>3. ASSUME NEW d \in Digests, AuxBlob(ds)["hash"] # <<>>
        PROVE  LET first == AuxBlob(ds)["hash"][1].desc
                   part == first.partition
                   new == EncodeDescriptors(UpdateHash(AuxBlob(ds), part, d))
               IN /\ new = Resigned(ds, part, d)
                  /\ Cardinality(HashesOf(ds, part)) = 1 =>
                       AuxBlob(new)["hash"][1].desc = [first EXCEPT !.digest = d]
    <3> DEFINE first == AuxBlob(ds)["hash"][1].desc
               part == first.partition
               new == EncodeDescriptors(UpdateHash(AuxBlob(ds), part, d))
    <3>1. HashesOf(ds, part) # {}
      BY <2>1, <2>3, FirstHash
    <3>2. new = Resigned(ds, part, d)
      BY <2>1, <3>1, EditorDescs, SigningInPlace
    <3>3. Cardinality(HashesOf(ds, part)) = 1 =>
            AuxBlob(Resigned(ds, part, d))["hash"][1].desc = [first EXCEPT !.digest = d]
      BY <2>1, <2>3, FirstSignedStays
    <3> HIDE DEF new
    <3>4. Cardinality(HashesOf(ds, part)) = 1 =>
            AuxBlob(new)["hash"][1].desc = [first EXCEPT !.digest = d]
      BY <3>2, <3>3
    <3> QED
      BY <3>2, <3>4 DEF new
  <2>4. \A new \in NewHashes : EncodeDescriptors(ReplaceHash(AuxBlob(ds), new.partition, new))
                                 = Merged(ds, new.partition, new)
    BY <2>1, EditorDescs, MergingInPlace
  <2>5. RoundTrip
    BY <2>2 DEF RoundTrip, ds
  <2>6. SignsInPlace
    BY <2>3 DEF SignsInPlace, ds
  <2>7. MergesInPlace
    BY <2>4 DEF MergesInPlace, ds
  <2> QED
    BY <2>5, <2>6, <2>7 DEF EditsInPlace
<1>2. Init => ReadsWritten
  BY DEF Init, ReadsWritten, Reads
<1> QED
  BY <1>1, <1>2, NextReads, Invariant, PTL DEF Spec
=============================================================================
