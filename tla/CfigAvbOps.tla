----------------------------- MODULE CfigAvbOps -----------------------------
(***************************************************************************)
(* avbVerifier and the AvbOps it hands to libavb: partitions are the files *)
(* <name>.img of the working directory, and the state of the device is     *)
(* kept in files of config/.                                               *)
(*                                                                         *)
(* The verifier constructs CfigAvbOps, preloads partitions, reads the lock *)
(* state and calls avb_slot_verify(), which calls back in an order of its  *)
(* own (SlotVerify); here every order is possible.  Meanwhile the user may *)
(* replace images and edit config/, writes may fail, and the verifier may  *)
(* be killed.                                                              *)
(***************************************************************************)
EXTENDS Integers, Sequences, FiniteSets

CONSTANTS Partitions,   \* names of partitions
          Images,       \* what a partition file may hold: sequences of bytes
          Locations,    \* rollback index locations
          Indexes,      \* rollback indexes
          Offsets, Counts,   \* arguments of reads
          Writes,       \* arguments of writes, <<offset, num_bytes>>
          Keys, NoKey,  \* public keys; an empty one
          NoFile, Empty, Junk,   \* no file, an empty line, some other line
          FirstDisks, FirstConfigs,   \* how a working directory may be at first
          Preloads, Requests,   \* what the environment variables may list
          MaxRuns, MaxCalls, MaxEdits, MaxFaults   \* bounds

\* The bytes a partition can hold: those of the images, the holes that a write
\* beyond the end leaves, and what is written.
Byte == {"zero", "new"} \union UNION {{image[i] : i \in DOMAIN image} : image \in Images}

\* The files of config/: whether it exists, the key, the lock and the indexes.
Configs == [dir : BOOLEAN, pubkey : Keys \union {NoFile}, locked : {NoFile, Empty, Junk, "0"},
            index : [Locations -> Indexes \union {0, NoFile, Empty, Junk}]]

ASSUME DeviceAssumption ==
  /\ Images \subseteq Seq(Byte) /\ FirstDisks \subseteq [Partitions -> Images \union {NoFile}]
  /\ FirstConfigs \subseteq Configs
  /\ \A c \in FirstConfigs : c.locked # NoFile \/ c.pubkey # NoFile => c.dir
  /\ {0, 1} \subseteq Locations /\ Junk \notin Indexes \union {0} /\ "0" \notin {NoFile, Empty}
  /\ Preloads \subseteq Seq(Partitions)
  /\ Offsets \subseteq Int /\ Counts \subseteq Nat /\ Writes \subseteq Int \X Nat
  /\ MaxRuns \in Nat /\ MaxCalls \in Nat /\ MaxEdits \in Nat /\ MaxFaults \in Nat

VARIABLES disk,      \* disk[p]: the file of partition p
          config,    \* the files of config/
          outputs,   \* out.key and verify_result.json
          proc,      \* the verifier
          ret,       \* what the last callback answered
          ghost,     \* what the user and the library have stored: see below
          edits, faults

vars == <<disk, config, outputs, proc, ret, ghost, edits, faults>>

\* The locations the constructor creates.
Created == <<0, 1>>

Idle == [pc |-> "idle", run |-> 0, calls |-> 0]
Quiet == [op |-> "none"]

\* ghost.index[l]: the index last stored at l in full, Junk when a write was
\* cut short; ghost.unlocked: the user has put "0" in config/locked;
\* ghost.touched: the partitions changed since they were to be preloaded;
\* ghost.relocked: the user has edited config/locked since main() read it.
Parsed(line) == IF line = Junk THEN 0 ELSE line

Init ==
  /\ disk \in FirstDisks /\ config \in FirstConfigs
  /\ outputs = [key |-> NoFile, json |-> NoFile]
  /\ proc = Idle /\ ret = Quiet
  /\ ghost = [index |-> [l \in Locations |-> IF config.index[l] = NoFile THEN 0 ELSE Parsed(config.index[l])],
              unlocked |-> config.locked = "0", touched |-> {}, relocked |-> FALSE]
  /\ edits = 0 /\ faults = 0

Fault == faults < MaxFaults /\ faults' = faults + 1
-----------------------------------------------------------------------------
(* The constructor and main().                                             *)

Main(preloads, requests) ==
  /\ proc.pc = "idle" /\ proc.run < MaxRuns
  /\ proc' = [pc |-> "pubkey", run |-> proc.run + 1, noVbmeta |-> \E i \in DOMAIN requests : requests[i] = "recovery", key |-> NoKey,
              valid |-> {}, todo |-> preloads, preloaded |-> [p \in Partitions |-> NoFile], size |-> 0,
              args |-> <<>>, i |-> 1, allow |-> FALSE, calls |-> proc.calls, leaked |-> 0]
  /\ ret' = Quiet
  /\ UNCHANGED <<disk, config, outputs, ghost, edits, faults>>

Exited == [pc |-> "idle", run |-> proc.run, calls |-> proc.calls]

\* loadPubkey: without config/pubkey the program aborts; a key that cannot be
\* read leaves the expected key empty.
LoadPubkey ==
  /\ proc.pc = "pubkey"
  /\ \/ /\ config.pubkey # NoFile
        /\ proc' = [proc EXCEPT !.pc = "populate", !.key = config.pubkey]
        /\ outputs' = [outputs EXCEPT !.key = config.pubkey]
        /\ UNCHANGED faults
     \/ /\ config.pubkey # NoFile /\ Fault
        /\ proc' = [proc EXCEPT !.pc = "populate"]
        /\ UNCHANGED outputs
     \/ /\ config.pubkey = NoFile
        /\ proc' = Exited
        /\ UNCHANGED <<outputs, faults>>
  /\ UNCHANGED <<disk, config, ret, ghost, edits>>

\* populatePartitions: a snapshot of the directory.
PopulatePartitions ==
  /\ proc.pc = "populate"
  /\ proc' = [proc EXCEPT !.pc = "config", !.valid = {p \in Partitions : disk[p] # NoFile}]
  /\ UNCHANGED <<disk, config, outputs, ret, ghost, edits, faults>>

\* write_to_file: the file is truncated first, and nobody looks at what
\* fprintf() and fclose() return.  When fopen() fails nothing is written.
WriteToFile(line, file) ==
  \/ file = line /\ UNCHANGED faults
  \/ file = Empty /\ Fault
NotOpened == Fault /\ UNCHANGED <<config, ghost>>

MakeConfig ==
  /\ proc.pc = "config"
  /\ \/ config' = [config EXCEPT !.dir = TRUE] /\ UNCHANGED faults
     \/ ~config.dir /\ Fault /\ UNCHANGED config
  /\ proc' = [proc EXCEPT !.pc = "locked"]
  /\ UNCHANGED <<disk, outputs, ret, ghost, edits>>

\* Defect: the lock file of a new device says "0".
InitLockedOpen ==
  /\ proc.pc = "locked"
  /\ config' = IF config.locked = NoFile /\ config.dir THEN [config EXCEPT !.locked = "0"] ELSE config
  /\ proc' = [proc EXCEPT !.pc = "index"]
  /\ UNCHANGED <<disk, outputs, ret, ghost, edits, faults>>

InitLocked ==
  /\ proc.pc = "locked"
  /\ IF config.locked = NoFile /\ config.dir
     THEN \/ config' = [config EXCEPT !.locked = Empty] /\ UNCHANGED <<ghost, faults>>
          \/ NotOpened
     ELSE UNCHANGED <<config, ghost, faults>>
  /\ proc' = [proc EXCEPT !.pc = "index"]
  /\ UNCHANGED <<disk, outputs, ret, edits>>

Stored(l, v, file) == [ghost EXCEPT !.index[l] = IF file = Empty THEN Junk ELSE v]

\* Defect: an empty file counts as missing.
InitIndexEmptyToo ==
  LET l == Created[proc.i]
  IN  /\ proc.pc = "index"
      /\ config' = IF config.index[l] \in {NoFile, Empty} /\ config.dir
                   THEN [config EXCEPT !.index[l] = 0] ELSE config
      /\ proc' = IF proc.i = Len(Created) THEN [proc EXCEPT !.pc = "preload"] ELSE [proc EXCEPT !.i = @ + 1]
      /\ UNCHANGED <<disk, outputs, ret, ghost, edits, faults>>

InitIndex ==
  LET l == Created[proc.i]
  IN  /\ proc.pc = "index"
      /\ IF config.index[l] = NoFile /\ config.dir
         THEN \/ \E file \in {0, Empty} :
                   /\ WriteToFile(0, file)
                   /\ config' = [config EXCEPT !.index[l] = file]
                   /\ ghost' = Stored(l, 0, file)
              \/ NotOpened
         ELSE UNCHANGED <<config, ghost, faults>>
      /\ proc' = IF proc.i = Len(Created) THEN [proc EXCEPT !.pc = "preload"] ELSE [proc EXCEPT !.i = @ + 1]
      /\ UNCHANGED <<disk, outputs, ret, edits>>

\* get_size_of_partitionX
SizeOf(p) ==
  IF p \notin proc.valid THEN "NO_SUCH_PARTITION" ELSE IF disk[p] = NoFile THEN "IO" ELSE "OK"

\* preload_partition: the size first, then the contents.
NextPreload == [proc EXCEPT !.todo = Tail(@), !.pc = "preload"]

PreloadSize ==
  LET p == Head(proc.todo)
  IN  /\ proc.pc = "preload" /\ proc.todo # <<>>
      /\ proc' = IF proc.preloaded[p] # NoFile \/ SizeOf(p) # "OK" THEN NextPreload
                 ELSE [proc EXCEPT !.pc = "preload_read", !.size = Len(disk[p])]
      /\ ghost' = IF proc.preloaded[p] = NoFile THEN [ghost EXCEPT !.touched = @ \ {p}] ELSE ghost
      /\ UNCHANGED <<disk, config, outputs, ret, edits, faults>>

PreloadRead ==
  LET p == Head(proc.todo)
      short == disk[p] # NoFile /\ Len(disk[p]) < proc.size
  IN  /\ proc.pc = "preload_read"
      /\ proc' = IF disk[p] = NoFile THEN NextPreload
                 ELSE IF short THEN [NextPreload EXCEPT !.leaked = @ + 1]
                 ELSE [NextPreload EXCEPT !.preloaded[p] = SubSeq(disk[p], 1, proc.size)]
      /\ UNCHANGED <<disk, config, outputs, ret, ghost, edits, faults>>

\* main() reads the lock state and allows errors on an unlocked device.
Unlocked == config.locked = "0"

AllowErrors ==
  /\ proc.pc = "preload" /\ proc.todo = <<>>
  /\ proc' = [proc EXCEPT !.pc = "verify", !.allow = Unlocked]
  /\ ghost' = [ghost EXCEPT !.relocked = FALSE]
  /\ UNCHANGED <<disk, config, outputs, ret, edits, faults>>

\* avb_slot_verify() returns; only a result of OK is reported, over the file
\* an earlier run has left.
Verdict(ok) ==
  /\ proc.pc = "verify"
  /\ \/ ok /\ outputs' = [outputs EXCEPT !.json = proc.run] /\ UNCHANGED faults
     \/ ok /\ outputs' = [outputs EXCEPT !.json = Empty] /\ Fault
     \/ ~ok /\ UNCHANGED <<outputs, faults>>
  /\ proc' = Exited /\ ret' = Quiet
  /\ UNCHANGED <<disk, config, ghost, edits>>
-----------------------------------------------------------------------------
(* The callbacks.  'ret' is the answer just given, with its arguments.      *)

Called == proc.pc = "verify" /\ proc.calls < MaxCalls
Answer(r) ==
  /\ ret' = r
  /\ proc' = [proc EXCEPT !.pc = "verify", !.calls = @ + 1]

GetSizeOfPartition(p) ==
  /\ Called
  /\ Answer([op |-> "get_size", result |-> SizeOf(p), size |-> IF SizeOf(p) = "OK" THEN Len(disk[p]) ELSE 0])
  /\ UNCHANGED <<disk, config, outputs, ghost, edits, faults>>

\* read_from_partitionX: a negative offset counts from the end, whose place
\* is asked for before the file is opened.
\* lseek(fd, where) answers -1 when where is negative, and -1 # where fails
\* to notice it when where is -1: the read then starts at the beginning.
ReadAt(p, where, off, n) ==
  LET from == IF where = -1 THEN 0 ELSE where
      result == IF disk[p] = NoFile THEN "NO_SUCH_PARTITION" ELSE IF where < -1 THEN "IO" ELSE "OK"
  IN  [op |-> "read", p |-> p, off |-> off, n |-> n, where |-> where, result |-> result,
       file |-> disk[p], size |-> proc.size,
       data |-> IF result # "OK" THEN <<>>
                ELSE SubSeq(disk[p], from + 1, IF from + n < Len(disk[p]) THEN from + n ELSE Len(disk[p]))]

ReadFromPartition(p, off, n) ==
  /\ Called
  /\ IF p \notin proc.valid
     THEN Answer([op |-> "read", p |-> p, off |-> off, n |-> n, where |-> 0,
                  result |-> "NO_SUCH_PARTITION", file |-> NoFile, size |-> 0, data |-> <<>>])
     ELSE IF off >= 0 THEN Answer(ReadAt(p, off, off, n))
     ELSE IF disk[p] = NoFile
     THEN Answer([op |-> "read", p |-> p, off |-> off, n |-> n, where |-> 0,
                  result |-> "IO", file |-> NoFile, size |-> 0, data |-> <<>>])
     ELSE /\ proc' = [proc EXCEPT !.pc = "read", !.size = Len(disk[p]), !.args = <<p, off, n>>]
          /\ ret' = Quiet
  /\ UNCHANGED <<disk, config, outputs, ghost, edits, faults>>

\* Defect: one byte too early.
ReadFromEndEarly ==
  LET p == proc.args[1]  off == proc.args[2]
  IN  /\ proc.pc = "read"
      /\ Answer(ReadAt(p, proc.size + off - 1, off, proc.args[3]))
      /\ UNCHANGED <<disk, config, outputs, ghost, edits, faults>>

ReadFromEnd ==
  LET p == proc.args[1]  off == proc.args[2]
  IN  /\ proc.pc = "read"
      /\ Answer(ReadAt(p, proc.size - (-off), off, proc.args[3]))
      /\ UNCHANGED <<disk, config, outputs, ghost, edits, faults>>

\* write_to_partitionX: the snapshot is not asked, and the file grows.
Overwritten(file, off, n) ==
  [i \in 1 .. IF off + n > Len(file) THEN off + n ELSE Len(file) |->
     IF i <= off \/ i > off + n THEN IF i <= Len(file) THEN file[i] ELSE "zero" ELSE "new"]

WriteToPartition(p, off, n) ==
  /\ Called
  /\ IF disk[p] = NoFile \/ off < 0
     THEN Answer([op |-> "write", result |-> "IO"]) /\ UNCHANGED <<disk, ghost>>
     ELSE /\ disk' = IF n = 0 THEN disk ELSE [disk EXCEPT ![p] = Overwritten(@, off, n)]
          /\ ghost' = IF n = 0 THEN ghost ELSE [ghost EXCEPT !.touched = @ \union {p}]
          /\ Answer([op |-> "write", result |-> "OK"])
  /\ UNCHANGED <<config, outputs, edits, faults>>

\* get_preloaded_partitionX: num_bytes is compared with the size of the file
\* as it is now, not with that of the buffer.
Preloaded(p, n, result, length, buffer) ==
  [op |-> "preloaded", p |-> p, n |-> n, result |-> result, length |-> length, buffer |-> buffer]

\* Defect: the buffer of whichever partition was preloaded is returned.
GetPreloadedAny(p, n) ==
  /\ Called
  /\ p \in proc.valid /\ disk[p] # NoFile
  /\ \E q \in Partitions :
       /\ proc.preloaded[q] # NoFile
       /\ Answer(IF n > Len(disk[p]) THEN Preloaded(p, n, "IO", 0, NoFile)
                 ELSE Preloaded(p, n, "OK", n, proc.preloaded[q]))
  /\ UNCHANGED <<disk, config, outputs, ghost, edits, faults>>

GetPreloaded(p, n) ==
  /\ Called
  /\ Answer(IF p \notin proc.valid THEN Preloaded(p, n, "NO_SUCH_PARTITION", 0, NoFile)
            ELSE IF proc.preloaded[p] = NoFile THEN Preloaded(p, n, "OK", 0, NoFile)
            ELSE IF SizeOf(p) # "OK" THEN Preloaded(p, n, SizeOf(p), 0, NoFile)
            ELSE IF n > Len(disk[p]) THEN Preloaded(p, n, "IO", 0, NoFile)
            ELSE Preloaded(p, n, "OK", n, proc.preloaded[p]))
  /\ UNCHANGED <<disk, config, outputs, ghost, edits, faults>>

\* validate_vbmeta_public_keyX and validate_public_key_for_partitionX: the
\* expected metadata are empty.  The second never sets the location.
ValidatePublicKey(op, key, metadata) ==
  /\ Called
  /\ Answer([op |-> op, result |-> "OK", key |-> key, trusted |-> key = proc.key /\ ~metadata])
  /\ UNCHANGED <<disk, config, outputs, ghost, edits, faults>>

ReadIsDeviceUnlocked ==
  /\ Called
  /\ Answer([op |-> "unlocked", result |-> "OK", value |-> Unlocked])
  /\ UNCHANGED <<disk, config, outputs, ghost, edits, faults>>

ReadRollbackIndex(l) ==
  /\ Called
  /\ Answer(IF config.index[l] \in {NoFile, Empty} THEN [op |-> "read_index", result |-> "IO"]
            ELSE [op |-> "read_index", result |-> "OK", loc |-> l, value |-> Parsed(config.index[l])])
  /\ UNCHANGED <<disk, config, outputs, ghost, edits, faults>>

\* write_rollback_indexX: write_to_file() returns true for a failure.
WriteRollbackIndex(l, v) ==
  /\ Called
  /\ \/ /\ config.dir
        /\ \E file \in {v, Empty} :
             /\ WriteToFile(v, file)
             /\ config' = [config EXCEPT !.index[l] = file]
             /\ ghost' = Stored(l, v, file)
        /\ Answer([op |-> "write_index", result |-> "IO"])
     \/ /\ config.dir /\ NotOpened
        /\ Answer([op |-> "write_index", result |-> "OK"])
     \/ /\ ~config.dir
        /\ Answer([op |-> "write_index", result |-> "OK"])
        /\ UNCHANGED <<config, ghost, faults>>
  /\ UNCHANGED <<disk, outputs, edits>>

\* Persistent values are not supported; every partition has the same GUID.
PersistentValue(op) ==
  /\ Called
  /\ Answer([op |-> op, result |-> "NO_SUCH_VALUE"])
  /\ UNCHANGED <<disk, config, outputs, ghost, edits, faults>>

GetUniqueGuid(p) ==
  /\ Called
  /\ Answer([op |-> "guid", result |-> "OK", p |-> p])
  /\ UNCHANGED <<disk, config, outputs, ghost, edits, faults>>
-----------------------------------------------------------------------------
(* The user, and the operating system.                                     *)

Edit == edits < MaxEdits /\ edits' = edits + 1 /\ ret' = Quiet

ReplaceImage(p, file) ==
  /\ Edit
  /\ disk' = [disk EXCEPT ![p] = file]
  /\ ghost' = [ghost EXCEPT !.touched = @ \union {p}]
  /\ UNCHANGED <<config, outputs, proc, faults>>

SetLocked(line) ==
  /\ Edit /\ config.dir
  /\ config' = [config EXCEPT !.locked = line]
  /\ ghost' = [ghost EXCEPT !.unlocked = line = "0", !.relocked = TRUE]
  /\ UNCHANGED <<disk, outputs, proc, faults>>

RemoveConfig ==
  /\ Edit
  /\ config' = [dir |-> FALSE, pubkey |-> NoFile, locked |-> NoFile, index |-> [l \in Locations |-> NoFile]]
  /\ ghost' = [index |-> [l \in Locations |-> 0], unlocked |-> FALSE, touched |-> ghost.touched, relocked |-> TRUE]
  /\ UNCHANGED <<disk, outputs, proc, faults>>

Kill ==
  /\ proc.pc # "idle" /\ Fault
  /\ proc' = Exited /\ ret' = Quiet
  /\ UNCHANGED <<disk, config, outputs, ghost, edits>>
-----------------------------------------------------------------------------
Callback ==
  \/ \E p \in Partitions : GetSizeOfPartition(p) \/ GetUniqueGuid(p)
  \/ \E p \in Partitions, off \in Offsets, n \in Counts :
       ReadFromPartition(p, off, n)
  \/ \E p \in Partitions, w \in Writes : WriteToPartition(p, w[1], w[2])
  \/ ReadFromEnd
  \/ \E p \in Partitions, n \in Counts : GetPreloaded(p, n)
  \/ \E op \in {"vbmeta_key", "partition_key"}, k \in Keys, metadata \in BOOLEAN : ValidatePublicKey(op, k, metadata)
  \/ ReadIsDeviceUnlocked
  \/ \E l \in Locations : ReadRollbackIndex(l) \/ \E v \in Indexes : WriteRollbackIndex(l, v)
  \/ \E op \in {"read_value", "write_value"} : PersistentValue(op)

User ==
  \/ \E p \in Partitions, file \in Images \union {NoFile} : ReplaceImage(p, file)
  \/ \E line \in {Empty, "0"} : SetLocked(line)
  \/ RemoveConfig

Next ==
  \/ \E preloads \in Preloads, requests \in Requests : Main(preloads, requests)
  \/ LoadPubkey \/ PopulatePartitions \/ MakeConfig \/ InitLocked \/ InitIndex
  \/ PreloadSize \/ PreloadRead \/ AllowErrors
  \/ \E ok \in BOOLEAN : Verdict(ok)
  \/ Callback \/ User \/ Kill

Spec == Init /\ [][Next]_vars
-----------------------------------------------------------------------------
Files == {NoFile} \union Seq(Byte)

Exits == [pc : {"idle"}, run : 0 .. MaxRuns, calls : 0 .. MaxCalls]

Running ==
  [pc : {"pubkey", "populate", "config", "locked", "index", "preload", "preload_read", "verify", "read"},
   run : 0 .. MaxRuns, noVbmeta : BOOLEAN, key : Keys \union {NoKey}, valid : SUBSET Partitions,
   todo : Seq(Partitions), preloaded : [Partitions -> Files], size : Nat,
   args : {<<>>} \union (Partitions \X Int \X Nat), i : 1 .. Len(Created), allow : BOOLEAN,
   calls : 0 .. MaxCalls, leaked : Nat]

Ghosts == [index : [Locations -> Indexes \union {0, NoFile, Empty, Junk}], unlocked : BOOLEAN,
           touched : SUBSET Partitions, relocked : BOOLEAN]

\* Type correctness: the files, the verifier while it runs and when it has exited.
TypeOK ==
  /\ disk \in [Partitions -> Files]
  /\ config \in Configs
  /\ config.locked # NoFile \/ config.pubkey # NoFile => config.dir
  /\ proc \in Exits \union Running
  /\ ghost \in Ghosts
  /\ edits \in 0 .. MaxEdits /\ faults \in 0 .. MaxFaults

\* Where the requested range begins.
RangeOf(r) == IF r.off >= 0 THEN r.off ELSE Len(r.file) + r.off

\* A read that answers OK with as many bytes as were asked for delivers the
\* bytes of the requested range, for offsets from either end and any number of
\* bytes, unless the file has changed its length between the two looks a read
\* from the end takes at it.  Left out are only the reads that ReadInside is
\* about: their range begins before the partition, and read_from_partitionX
\* (CfigAvbOps.cpp:207) does not refuse the one that begins a byte before it.
ReadExact ==
  (ret.op = "read" /\ ret.result = "OK" /\ Len(ret.data) = ret.n /\ RangeOf(ret) >= 0) =>
     \/ ret.off < 0 /\ ret.size # Len(ret.file)
     \/ \A i \in 1 .. ret.n : RangeOf(ret) + i \in DOMAIN ret.file /\ ret.data[i] = ret.file[RangeOf(ret) + i]

\* A read whose offset is outside the partition is refused.  avb_ops.h:
\* "AVB_IO_RESULT_ERROR_RANGE_OUTSIDE_PARTITION if the requested |offset|
\* is outside the partition".
ReadInside == (ret.op = "read" /\ ret.result = "OK") => RangeOf(ret) >= 0

\* What get_preloaded_partition() hands out is the beginning of the image as
\* it was preloaded, and lies within the buffer, unless the image has been
\* changed on disk since.
PreloadedPrefix ==
  (ret.op = "preloaded" /\ ret.result = "OK" /\ ret.buffer # NoFile /\ ret.p \notin ghost.touched) =>
     /\ ret.length = ret.n /\ ret.n <= Len(ret.buffer)
     /\ ret.buffer = disk[ret.p]

\* An index that is read is the one last stored in full: a device whose index
\* was being written when it lost power or space answers an error, also after
\* a restart, and never an older index.
IndexAsStored ==
  (ret.op = "read_index" /\ ret.result = "OK") => ret.value = ghost.index[ret.loc]

\* Verification errors are only allowed on a device that the user has
\* unlocked, whatever files are missing and whatever the constructor failed
\* to write.
LockedByDefault ==
  (proc.pc = "verify" /\ proc.allow) => ghost.unlocked \/ ghost.relocked

\* main() and libavb, which asks again, work with the same lock state unless
\* the user changes it in between.
LockStateAgrees ==
  (proc.pc = "verify" /\ ret.op = "unlocked" /\ ~ghost.relocked) => ret.value = proc.allow

\* The lock state of the device decides, for main() and for libavb alike, and
\* it is "locked" unless the user has said otherwise.
DeviceSound == TypeOK /\ LockedByDefault /\ LockStateAgrees
=============================================================================
