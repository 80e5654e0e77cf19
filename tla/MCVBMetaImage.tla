--------------------------- MODULE MCVBMetaImage ---------------------------
(***************************************************************************)
(* libavb on the images the editor writes, and on those images after       *)
(* something happened to one or two of the numbers in them.                *)
(***************************************************************************)
EXTENDS VBMetaWriter

CONSTANTS MaxLen, Pkmds, Boots, NewDigests

MC_FIXED == [property |-> 34, hashtree |-> 180, hash |-> 132, cmdline |-> 24,
             chain |-> 92, unknown |-> 16]
MC_ALGORITHM ==
  [NONE |-> [hash |-> 0, signature |-> 0, key |-> 0],
   SHA256_RSA2048 |-> [hash |-> 32, signature |-> 256, key |-> 520],
   SHA512_RSA4096 |-> [hash |-> 64, signature |-> 512, key |-> 1032]]
MC_HASH_LEN == [SHA256_RSA2048 |-> 32, SHA512_RSA4096 |-> 64]

\* The descriptors of the editor.
D(t, part, dig, l, k, loc) ==
  [tag |-> t, partition |-> part, digest |-> dig, len |-> l, key |-> k, location |-> loc]
HashDesc(part, dig) == D("hash", part, dig, <<4, 20, 32>>, "a", 0)
Chain == D("chain", "", 0, <<5, 520, 0>>, "a", 1)
Others ==
  {D("property", "", 0, <<1, 5, 0>>, k, 0) : k \in Keys}
  \union {Chain, D("unknown", "", 0, <<8, 0, 0>>, "a", 0)}
Rare == {D("hashtree", "", 0, <<6, 32, 32>>, "a", 0), D("cmdline", "", 0, <<11, 0, 0>>, "a", 0)}
AllDescs == Others \union {HashDesc(part, dig) : part \in Boots, dig \in NewDigests}

Lists(S, n) == UNION {[1 .. m -> S] : m \in 0 .. n}

\* What is read between descriptors: zeros, or a length near the end of a word.
Zeros == [tag |-> "property", num_bytes_following |-> 0, len |-> <<0, 0, 0>>,
          rollback_index_location |-> 0, key |-> "a", nul |-> TRUE]
Ones == [Zeros EXCEPT !.num_bytes_following = WORD - 2 * DESCRIPTOR_SIZE]

MC_Partitions == Boots \union {""}
MC_Digests == NewDigests \union {0}
MC_NewHashes == {HashDesc(part, dig) : part \in Boots, dig \in NewDigests}

InMemory(ds, alg, pkmd, padded) == Written(ds, alg, pkmd, padded, PAGE, Zeros)

\* Every list up to MaxLen, the longest ones with one digest only.
ListsOfDescs == Lists(AllDescs, MaxLen - 1) \union Lists({d \in AllDescs : d.digest < 2}, MaxLen)

WrittenImages ==
  {InMemory(ds, "NONE", 0, TRUE) : ds \in ListsOfDescs}
  \union {InMemory(ds, alg, pkmd, padded) : ds \in Lists(Others \union Rare, 1),
            alg \in DOMAIN ALGORITHM, pkmd \in Pkmds, padded \in BOOLEAN}
-----------------------------------------------------------------------------
Numbers ==
  {"authentication_data_block_size", "auxiliary_data_block_size",
   "hash_offset", "hash_size", "signature_offset", "signature_size",
   "public_key_offset", "public_key_size", "public_key_metadata_offset",
   "public_key_metadata_size", "descriptors_offset", "descriptors_size"}
Flags == {"magic", "supported", "release_nul"}
Near == {0, ALIGN, BLOCK, WORD - BLOCK}
Wild == Near \union {4, 2 * DESCRIPTOR_SIZE, HEADER_SIZE, WORD - 2 * BLOCK,
         WORD - 1024, WORD - 2 * DESCRIPTOR_SIZE, WORD - DESCRIPTOR_SIZE - ALIGN, WORD - ALIGN}

\* A number of the header is another one.
Renumbered(i, values) == {[i EXCEPT !.h[f] = v] : f \in Numbers, v \in values}

\* Something else about the image is different.
Damaged(i) ==
  {[i EXCEPT !.h[f] = Sum(i.h[f], ALIGN)] : f \in Numbers}
  \union {[i EXCEPT !.h[f] = FALSE] : f \in Flags}
  \union {[i EXCEPT !.h.algorithm_type = "OTHER"], [i EXCEPT !.hash_matches = FALSE],
          [i EXCEPT !.signature_matches = FALSE], [i EXCEPT !.other = Ones]}
  \union {[i EXCEPT !.length = n] : n \in {HEADER_SIZE - 1, i.length - ALIGN}}
  \union {[i EXCEPT !.at[o].num_bytes_following = v] : o \in DOMAIN i.at, v \in Wild}
  \union {[i EXCEPT !.at[o].len[2] = v] : o \in DOMAIN i.at, v \in Wild}
  \union {[i EXCEPT !.at[o].nul = FALSE] : o \in DOMAIN i.at}
  \union {[i EXCEPT !.at[o].rollback_index_location = 0] : o \in DOMAIN i.at}

Two(alg) == InMemory(<<D("property", "", 0, <<1, 5, 0>>, "a", 0), Chain>>, alg, 10, FALSE)
Victims == {InMemory(<<>>, "SHA256_RSA2048", 0, FALSE), Two("NONE"), Two("SHA256_RSA2048")}
Once == UNION {Renumbered(i, Wild) \union Damaged(i) : i \in Victims}
Twice ==
  UNION {Renumbered(i, Near) : i \in Renumbered(Two("SHA256_RSA2048"), Near)}
  \union UNION {Renumbered(i, {BLOCK, WORD - BLOCK}) : i \in Damaged(Two("NONE"))}

MC_Images == WrittenImages \union {[i EXCEPT !.intact = FALSE] : i \in Once \union Twice}
=============================================================================
