------------------------------ MODULE SlotWorld ------------------------------
(***************************************************************************)
(* What one call of avb_slot_verify() is given: the flags and the list of  *)
(* requested partitions, the device state the AvbOps callbacks report, and *)
(* the contents of the partitions, reduced to what the verifier looks at.  *)
(* A signature, a digest or a public key is a value that can only be       *)
(* compared; "verify" is what avb_vbmeta_image_verify() answers for a      *)
(* vbmeta struct.                                                          *)
(*                                                                         *)
(* The second half states, without any order of execution, when a slot is  *)
(* verified.                                                               *)
(***************************************************************************)
EXTENDS Integers, Sequences

CONSTANTS
  Name,          \* partition names without A/B suffix
  VBMetaName,    \* the names starting with "vbmeta"
  Key,           \* public keys
  NoKey,         \* expected_public_key == NULL
  Digest,        \* digests of partition contents
  NoDigest,      \* a descriptor without a digest, or a value never stored
  NoName,        \* a command line that mentions no partition
  Location,      \* rollback index locations a descriptor can hold
  MAX_LOCATIONS, \* AVB_MAX_NUMBER_OF_ROLLBACK_INDEX_LOCATIONS
  MAX_VBMETA,    \* MAX_NUMBER_OF_VBMETA_IMAGES
  MAX_LOADED,    \* MAX_NUMBER_OF_LOADED_PARTITIONS
  MAX_SUBST      \* AVB_MAX_NUM_CMDLINE_SUBST

ASSUME NameAssumption ==
  /\ {"vbmeta", "boot", "system"} \subseteq Name
  /\ VBMetaName \subseteq Name
  /\ "vbmeta" \in VBMetaName
  /\ "boot" \notin VBMetaName

ASSUME SentinelAssumption ==
  NoKey \notin Key /\ NoDigest \notin Digest /\ NoName \notin Name

ASSUME LimitAssumption ==
  /\ Location \subseteq Nat /\ 0 \in Location
  /\ MAX_LOCATIONS \in Nat \ {0}
  /\ MAX_VBMETA \in Nat \ {0} /\ MAX_LOADED \in Nat /\ MAX_SUBST \in Nat
-----------------------------------------------------------------------------
\* AvbSlotVerifyResult
Result == {"OK", "OOM", "IO", "VERIFICATION", "ROLLBACK_INDEX",
           "PUBLIC_KEY_REJECTED", "INVALID_METADATA", "UNSUPPORTED_VERSION",
           "INVALID_ARGUMENT"}

\* result_should_continue(): the errors an unlocked device may boot with.
Continuable == {"OK", "VERIFICATION", "ROLLBACK_INDEX", "PUBLIC_KEY_REJECTED"}

\* AvbHashtreeErrorMode
ErrorMode == {"restart_and_invalidate", "restart", "eio", "logging", "managed"}

\* AvbVBMetaVerifyResult: signed, and the four ways not to be.
SoftVerify == {"OK_NOT_SIGNED", "HASH_MISMATCH", "SIGNATURE_MISMATCH"}
Verify == SoftVerify \union {"OK", "INVALID_VBMETA_HEADER", "UNSUPPORTED_VERSION"}

Flag == {"HASHTREE_DISABLED", "VERIFICATION_DISABLED"}
Suffix == {"", "_a"}
When == {"always", "hashtree", "no_hashtree"}

\* The partitions whose GUID a command line can ask avb_sub_cmdline() for.
GuidName == {"system", "boot", "vbmeta"}

(***************************************************************************)
(* One descriptor.  "bad" is "layout" when the validator of its type       *)
(* rejects it and "alg" when it passes but names an unsupported hash       *)
(* algorithm or holds a digest of the wrong length.  A hash or hashtree    *)
(* descriptor whose digest is NoDigest relies on a persistent value.       *)
(***************************************************************************)
Desc == {d \in [tag    : {"hash", "chain", "cmdline", "hashtree", "property"},
               bad    : {"no", "layout", "alg"},
               part   : Name \union {NoName},
               digest : Digest \union {NoDigest},
               size   : Nat,
               noab   : BOOLEAN,
               key    : Key,
               loc    : Location,
               when   : When] :
          d.part \in IF d.tag = "cmdline" THEN GuidName \union {NoName} ELSE Name}

VBMeta == [verify   : Verify,
           key      : Key,
           flags    : SUBSET Flag,
           rollback : Nat,
           descs    : Seq(Desc)]

(***************************************************************************)
(* A partition: its content, and the vbmeta structs found at its start and *)
(* through its footer.                                                     *)
(***************************************************************************)
Partition == [present : BOOLEAN,
              size    : Nat,
              body    : Digest,
              footer  : {"none", "ok", "oversize"},
              begin   : VBMeta,
              tail    : VBMeta]

World == [allow      : BOOLEAN,              \* ..._FLAGS_ALLOW_VERIFICATION_ERROR
          noVbmeta   : BOOLEAN,              \* ..._FLAGS_NO_VBMETA_PARTITION
          corruption : BOOLEAN,              \* ..._RESTART_CAUSED_BY_HASHTREE_CORRUPTION
          mode       : ErrorMode,
          suffix     : Suffix,
          requested  : Seq(Name),
          unlocked   : BOOLEAN,
          trusted    : SUBSET Key,           \* validate_*_public_key
          locOf      : [Name -> Location],   \* validate_public_key_for_partition
          stored     : [Location -> Nat],    \* read_rollback_index
          disk       : [Name \X Suffix -> Partition]]
-----------------------------------------------------------------------------
Requested(w, p) == \E i \in DOMAIN w.requested : w.requested[i] = p

Disk(w, p) == w.disk[<<p, w.suffix>>]

\* A footer is looked for except in partitions named vbmeta*; an oversized
\* vbmeta_size in it is ignored and the struct is read from the start.
UsesFooter(w, p) == p \notin VBMetaName /\ Disk(w, p).footer = "ok"

VBMetaIn(w, p) == IF UsesFooter(w, p) THEN Disk(w, p).tail ELSE Disk(w, p).begin

\* The partition a hash descriptor is about: DO_NOT_USE_AB drops the suffix.
HashTarget(w, d) == w.disk[<<d.part, IF d.noab THEN "" ELSE w.suffix>>]

\* A partition without a digest in its descriptor cannot be a slot partition.
NeedsSlotlessName(w, d) == d.digest = NoDigest /\ ~d.noab /\ w.suffix # ""

\* get_size_of_partition/load_full_partition: allowing errors, the whole
\* partition is loaded, otherwise exactly hash_desc.image_size bytes.
Unreadable(w, d) ==
  \/ ~HashTarget(w, d).present
  \/ ~w.allow /\ d.size > HashTarget(w, d).size

\* Defect: a stored value is overwritten.
InitializesAgain(w, values, d) == d.digest = NoDigest /\ ~w.unlocked

\* read_persistent_digest with an initial digest: a value that is missing is
\* created on a locked device and is an error on an unlocked one.
Initializes(w, values, d) ==
  d.digest = NoDigest /\ values[d.part] = NoDigest /\ ~w.unlocked

\* Defect: the stored digest is not copied out.
ExpectedDigestLost(w, values, d) ==
  IF d.digest # NoDigest THEN d.digest
  ELSE IF Initializes(w, values, d) THEN HashTarget(w, d).body
  ELSE NoDigest

ExpectedDigest(w, values, d) ==
  IF d.digest # NoDigest THEN d.digest
  ELSE IF Initializes(w, values, d) THEN HashTarget(w, d).body
  ELSE values[d.part]

\* What load_and_verify_hash_partition() answers when every callback works,
\* before the loaded image is handed over.
HashVerdict(w, values, d) ==
  IF d.bad = "layout" THEN "INVALID_METADATA"
  ELSE IF ~Requested(w, d.part) THEN "OK"
  ELSE IF NeedsSlotlessName(w, d) THEN "INVALID_METADATA"
  ELSE IF Unreadable(w, d) THEN "IO"
  ELSE IF d.bad = "alg" THEN "INVALID_METADATA"
  ELSE IF HashTarget(w, d).body = ExpectedDigest(w, values, d) THEN "OK"
  ELSE "VERIFICATION"

\* A hashtree descriptor without a root digest must find one stored.
Persistent(d) == d.tag = "hashtree" /\ d.digest = NoDigest

HashtreeVerdict(w, values, d) ==
  IF d.bad = "layout" THEN "INVALID_METADATA"
  ELSE IF d.digest # NoDigest THEN "OK"
  ELSE IF NeedsSlotlessName(w, d) \/ d.bad = "alg" THEN "INVALID_METADATA"
  ELSE IF values[d.part] = NoDigest THEN "VERIFICATION"
  ELSE "OK"

\* A command line snippet meant for the other dm-verity setting is skipped.
AppliesTo(flags, d) ==
  IF "HASHTREE_DISABLED" \in flags THEN d.when # "hashtree" ELSE d.when # "no_hashtree"
-----------------------------------------------------------------------------
(***************************************************************************)
(* When a slot is verified.  Nothing below models code: it is the reference *)
(* the verifier is compared with.                                          *)
(***************************************************************************)
TopLevel(w) == IF Disk(w, "vbmeta").present THEN "vbmeta" ELSE "boot"

TrustedKey(w, vb, expect) == IF expect = NoKey THEN vb.key \in w.trusted ELSE vb.key = expect

\* The vbmeta struct of p is genuine, and no older than the device allows.
Sound(w, p, loc, expect) ==
  LET vb == VBMetaIn(w, p) IN
  /\ Disk(w, p).present
  /\ vb.verify = "OK"
  /\ TrustedKey(w, vb, expect)
  /\ vb.rollback >= w.stored[IF w.noVbmeta THEN w.locOf[p] ELSE loc]

\* What a descriptor demands of the partitions, other than through a chain.
Holds(w, values, d) ==
  /\ d.tag # "property" => d.bad # "layout"
  /\ d.tag = "hash" /\ Requested(w, d.part) =>
       /\ d.bad = "no" /\ ~NeedsSlotlessName(w, d) /\ ~Unreadable(w, d)
       /\ HashTarget(w, d).body = (IF d.digest = NoDigest THEN values[d.part] ELSE d.digest)
  /\ Persistent(d) =>
       d.bad = "no" /\ ~NeedsSlotlessName(w, d) /\ values[d.part] # NoDigest

\* An image that may not delegate to others: no flags, no chain descriptor.
LeafVerified(w, values, p, loc, expect) ==
  /\ Sound(w, p, loc, expect)
  /\ VBMetaIn(w, p).flags = {}
  /\ \A i \in DOMAIN VBMetaIn(w, p).descs :
       /\ VBMetaIn(w, p).descs[i].tag # "chain"
       /\ Holds(w, values, VBMetaIn(w, p).descs[i])

\* A descriptor of the top-level image, followed through a chain.
DescVerified(w, values, d) ==
  /\ Holds(w, values, d)
  /\ d.tag = "chain" =>
       /\ d.loc \in 1 .. MAX_LOCATIONS - 1
       /\ LeafVerified(w, values, d.part, d.loc, d.key)

TopVerified(w, values, p) ==
  /\ Sound(w, p, 0, NoKey)
  /\ \/ "VERIFICATION_DISABLED" \in VBMetaIn(w, p).flags
     \/ \A i \in DOMAIN VBMetaIn(w, p).descs :
          DescVerified(w, values, VBMetaIn(w, p).descs[i])

Verified(w, values) ==
  IF w.noVbmeta
  THEN \A i \in DOMAIN w.requested : LeafVerified(w, values, w.requested[i], 0, NoKey)
  ELSE TopVerified(w, values, TopLevel(w))

\* Somewhere a descriptor of type hashtree relies on a persistent root digest.
UsesPersistentRoot(w) ==
  \E p \in Name : \E i \in DOMAIN VBMetaIn(w, p).descs : Persistent(VBMetaIn(w, p).descs[i])
=============================================================================
