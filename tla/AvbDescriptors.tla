--------------------------- MODULE AvbDescriptors ---------------------------
(***************************************************************************)
(* The descriptors of a vbmeta image: read into lists by type, edited      *)
(* there, and written again (AuxBlob.kt, UnknownDescriptor.kt, Avb.kt).    *)
(*                                                                         *)
(* A descriptor has a tag and, if it is about one, a partition and the     *)
(* digest of its image.  In memory, and in the .avb.json file, it also has *)
(* a sequence number, its place in the image it was read from.             *)
(***************************************************************************)
EXTENDS Naturals, Sequences, FiniteSets, FiniteSetsExt

Tags == {"property", "hashtree", "hash", "cmdline", "chain", "unknown"}

\* The elements of s at the places in I, in their order; Nth(I, n) is the n-th
\* number in I.
Rank(I, i) == Cardinality({j \in I : j <= i})
Nth(I, n) == CHOOSE i \in I : Rank(I, i) = n
At(s, I) == [n \in 1 .. Cardinality(I) |-> s[Nth(I, n)]]

\* parseDescriptors2(), and the distribution to lists in parseVbMeta()
AuxBlob(ds) ==
  LET numbered == [i \in DOMAIN ds |-> [desc |-> ds[i], sequence |-> i]]
  IN [t \in Tags |-> At(numbered, {i \in DOMAIN ds : ds[i].tag = t})]

\* sortBy { it.sequence }, which is stable: the j-th of the list gets this place.
Place(list, j) ==
  Cardinality({i \in DOMAIN list : \/ list[i].sequence < list[j].sequence
                                   \/ list[i].sequence = list[j].sequence /\ i <= j})

SortBySequence(list) == [n \in DOMAIN list |-> list[CHOOSE j \in DOMAIN list : Place(list, j) = n]]

\* encodeDescriptors(): all lists, in the order of their sequence numbers
EncodeDescriptors(aux) ==
  LET all == aux["property"] \o aux["hashtree"] \o aux["hash"]
               \o aux["cmdline"] \o aux["chain"] \o aux["unknown"]
      sorted == SortBySequence(all)
  IN [n \in DOMAIN all |-> sorted[n].desc]

\* The places in the list of hash descriptors that are about partition p.
Entries(aux, p) == {i \in DOMAIN aux["hash"] : aux["hash"][i].desc.partition = p}

\* addHashFooter(): all entries about p are removed, and the last of them is
\* added again with the digest of the new image.
UpdateHash(aux, p, digest) ==
  LET hashes == aux["hash"]
      others == At(hashes, DOMAIN hashes \ Entries(aux, p))
      hd == hashes[Max(Entries(aux, p))]
  IN [aux EXCEPT !["hash"] =
        Append(others, [hd EXCEPT !.desc.digest = digest])]

\* Defect: the new entry has the number it had in the boot image.
ReplaceHashOwnNumber(aux, p, new) ==
  LET hashes == aux["hash"]
      gone == {i \in Entries(aux, p) : i = Min(Entries(aux, p))}
      rest == At(hashes, DOMAIN hashes \ gone)
  IN [aux EXCEPT !["hash"] = Append(rest, [desc |-> new, sequence |-> 1])]

\* BootImgParser.pack(): the first entry about p gives its place to the new
\* one, which comes first of all when there is none.
ReplaceHash(aux, p, new) ==
  LET hashes == aux["hash"]
      gone == {i \in Entries(aux, p) : i = Min(Entries(aux, p))}
      rest == At(hashes, DOMAIN hashes \ gone)
      seq == IF Entries(aux, p) = {} THEN 0 ELSE hashes[Min(Entries(aux, p))].sequence
  IN [aux EXCEPT !["hash"] = Append(rest, [desc |-> new, sequence |-> seq])]
-----------------------------------------------------------------------------
\* The places in a vbmeta image of the hash descriptors of p.
HashesOf(ds, p) == {i \in DOMAIN ds : ds[i].tag = "hash" /\ ds[i].partition = p}

\* What signing is to do with the descriptors ds of an image of partition p.
Resigned(ds, p, digest) ==
  LET keep == Max(HashesOf(ds, p))
      new == [ds EXCEPT ![keep].digest = digest]
      kept == {i \in DOMAIN ds : i \notin HashesOf(ds, p) \ {keep}}
  IN At(new, kept)

\* What packing is to do with the descriptors ds of vbmeta.img.
Merged(ds, p, new) ==
  IF HashesOf(ds, p) = {} THEN <<new>> \o ds
  ELSE [ds EXCEPT ![Min(HashesOf(ds, p))] = new]
=============================================================================
