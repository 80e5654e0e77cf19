-------------------------- MODULE CfigAvbOpsProofs --------------------------
(***************************************************************************)
(* The callbacks of avbVerifier answer from the files as they are, or were *)
(* when they were preloaded, for any partitions, images and indexes, any   *)
(* number of runs, edits, failed writes and kills.                         *)
(***************************************************************************)
EXTENDS CfigAvbOps, TLAPS

\* An answer is only there between a callback and the next step of the verifier.
AnswerFresh == ret.op # "none" => proc.pc = "verify"

\* A buffer is the image, unless the image has been changed since; the size
\* that was asked for belongs to the image that is about to be read.
BuffersCurrent ==
  /\ proc.pc # "idle" => \A p \in Partitions : proc.preloaded[p] # NoFile /\ p \notin ghost.touched
                                                 => proc.preloaded[p] = disk[p]
  /\ proc.pc = "preload_read" =>
       /\ proc.todo # <<>>
       /\ Head(proc.todo) \notin ghost.touched =>
            disk[Head(proc.todo)] # NoFile /\ proc.size = Len(disk[Head(proc.todo)])

\* The index in a file that can be read is the one stored last.
IndexCurrent ==
  \A l \in Locations : config.index[l] \notin {NoFile, Empty} => ghost.index[l] = Parsed(config.index[l])

\* The device is unlocked when the user has said so, and main() knows it.
LockCurrent ==
  /\ ghost.unlocked = Unlocked
  /\ proc.pc \in {"verify", "read"} /\ ~ghost.relocked => proc.allow = Unlocked

\* A read from the end that has asked for the size.
ReadPending ==
  proc.pc = "read" => /\ proc.args \in Partitions \X Int \X Nat /\ proc.args[2] < 0
                      /\ proc.calls < MaxCalls

DeviceInv == TypeOK /\ AnswerFresh /\ BuffersCurrent /\ IndexCurrent /\ LockCurrent /\ ReadPending
-----------------------------------------------------------------------------
(***************************************************************************)
(* Records.                                                                *)
(***************************************************************************)
LEMMA ProcFacts ==
  ASSUME TypeOK
  PROVE  /\ proc.run \in 0 .. MaxRuns /\ proc.calls \in 0 .. MaxCalls
         /\ proc.pc # "idle" => proc \in Running
         /\ Exited \in Exits /\ Exited.pc = "idle"
<1>1. CASE proc \in Exits
  BY <1>1 DEF Exits, Exited
<1>2. CASE proc \in Running
  BY <1>2 DEF Running, Exits, Exited
<1> QED BY <1>1, <1>2 DEF TypeOK

LEMMA ConfigFacts ==
  ASSUME NEW c \in Configs, NEW l \in Locations, NEW v \in Indexes \union {0, NoFile, Empty, Junk},
         NEW line \in {NoFile, Empty, Junk, "0"}
  PROVE  /\ [c EXCEPT !.dir = TRUE] \in Configs
         /\ [c EXCEPT !.locked = line] \in Configs
         /\ [c EXCEPT !.index[l] = v] \in Configs
BY DEF Configs

\* An answer changes the verifier only in its count of calls.
LEMMA Answered ==
  ASSUME TypeOK, proc.pc # "idle", proc.calls < MaxCalls, NEW r, Answer(r)
  PROVE  /\ ret' = r
         /\ proc' \in Running /\ proc'.pc = "verify"
         /\ proc'.preloaded = proc.preloaded /\ proc'.allow = proc.allow
<1>1. proc \in Running /\ proc.calls \in 0 .. MaxCalls
  BY ProcFacts
<1>2. proc.calls + 1 \in 0 .. MaxCalls
  BY <1>1, DeviceAssumption
<1> QED BY <1>1, <1>2 DEF Answer, Running

LEMMA InitInv == Init => DeviceInv
<1> SUFFICES ASSUME Init PROVE DeviceInv
  OBVIOUS
<1>1. disk \in [Partitions -> Files]
  BY DeviceAssumption DEF Init, Files
<1>2. config \in Configs /\ (config.locked # NoFile \/ config.pubkey # NoFile => config.dir)
  BY DeviceAssumption DEF Init
<1>3. proc \in Exits /\ proc.pc = "idle"
  BY DeviceAssumption DEF Init, Idle, Exits
<1>4. \A l \in Locations : config.index[l] \in Indexes \union {0, NoFile, Empty, Junk}
  BY <1>2 DEF Configs
<1>5. ghost \in Ghosts
  BY <1>4 DEF Init, Ghosts, Parsed
<1>6. TypeOK
  BY <1>1, <1>2, <1>3, <1>5, DeviceAssumption DEF Init, TypeOK
<1>7. AnswerFresh /\ BuffersCurrent /\ ReadPending
  BY <1>3 DEF Init, Quiet, AnswerFresh, BuffersCurrent, ReadPending
<1>8. IndexCurrent /\ LockCurrent
  BY <1>3 DEF Init, IndexCurrent, LockCurrent, Unlocked
<1> QED BY <1>6, <1>7, <1>8 DEF DeviceInv
-----------------------------------------------------------------------------
(***************************************************************************)
(* The constructor and main().                                             *)
(***************************************************************************)
LEMMA MainInv ==
  ASSUME DeviceInv, NEW preloads \in Preloads, NEW requests \in Requests, Main(preloads, requests)
  PROVE  DeviceInv'
<1>1. proc.run + 1 \in 0 .. MaxRuns /\ proc.calls \in 0 .. MaxCalls
  BY ProcFacts, DeviceAssumption DEF DeviceInv, Main
<1>2. proc' \in Running /\ proc'.pc = "pubkey" /\ \A p \in Partitions : proc'.preloaded[p] = NoFile
  BY <1>1, DeviceAssumption DEF Main, Running, Files, Created
<1>3. TypeOK'
  BY <1>2 DEF Main, DeviceInv, TypeOK
<1>4. AnswerFresh' /\ BuffersCurrent' /\ IndexCurrent' /\ LockCurrent' /\ ReadPending'
  BY <1>2 DEF Main, DeviceInv, AnswerFresh, BuffersCurrent, IndexCurrent, LockCurrent, ReadPending, Quiet, Unlocked
<1> QED BY <1>3, <1>4 DEF DeviceInv

LEMMA FaultType == ASSUME TypeOK, Fault PROVE faults' \in 0 .. MaxFaults
BY DeviceAssumption DEF TypeOK, Fault

LEMMA LoadPubkeyInv == ASSUME DeviceInv, LoadPubkey PROVE DeviceInv'
<1>1. proc \in Running /\ proc.pc = "pubkey" /\ ret' = ret /\ ret.op = "none"
      /\ UNCHANGED <<disk, config, ghost, edits>>
  BY ProcFacts DEF DeviceInv, AnswerFresh, LoadPubkey
<1>2. \/ proc' \in Running /\ proc'.pc = "populate" /\ proc'.preloaded = proc.preloaded
      \/ proc' \in Exits /\ proc'.pc = "idle"
  <2>1. config.pubkey # NoFile => config.pubkey \in Keys
    BY DEF DeviceInv, TypeOK, Configs
  <2>2. CASE config.pubkey # NoFile /\ proc' = [proc EXCEPT !.pc = "populate", !.key = config.pubkey]
    BY <1>1, <2>1, <2>2 DEF Running
  <2>3. CASE proc' = [proc EXCEPT !.pc = "populate"]
    BY <1>1, <2>3 DEF Running
  <2>4. CASE proc' = Exited
    BY <2>4, ProcFacts DEF DeviceInv
  <2> QED BY <2>2, <2>3, <2>4 DEF LoadPubkey
<1>3. faults' \in 0 .. MaxFaults
  BY FaultType DEF LoadPubkey, DeviceInv, TypeOK
<1>4. TypeOK'
  BY <1>1, <1>2, <1>3 DEF DeviceInv, TypeOK
<1>5. AnswerFresh' /\ BuffersCurrent' /\ IndexCurrent' /\ LockCurrent' /\ ReadPending'
  BY <1>1, <1>2 DEF DeviceInv, AnswerFresh, BuffersCurrent, IndexCurrent, LockCurrent, ReadPending, Unlocked
<1> QED BY <1>4, <1>5 DEF DeviceInv

LEMMA PopulateInv == ASSUME DeviceInv, PopulatePartitions PROVE DeviceInv'
<1>1. proc \in Running /\ proc.pc = "populate" /\ ret' = ret /\ ret.op = "none"
      /\ UNCHANGED <<disk, config, ghost, edits, faults>>
  BY ProcFacts DEF DeviceInv, AnswerFresh, PopulatePartitions
<1>2. proc' \in Running /\ proc'.pc = "config" /\ proc'.preloaded = proc.preloaded
  BY <1>1 DEF PopulatePartitions, Running
<1>3. TypeOK'
  BY <1>1, <1>2 DEF DeviceInv, TypeOK
<1>4. AnswerFresh' /\ BuffersCurrent' /\ IndexCurrent' /\ LockCurrent' /\ ReadPending'
  BY <1>1, <1>2 DEF DeviceInv, AnswerFresh, BuffersCurrent, IndexCurrent, LockCurrent, ReadPending, Unlocked
<1> QED BY <1>3, <1>4 DEF DeviceInv

LEMMA MakeConfigInv == ASSUME DeviceInv, MakeConfig PROVE DeviceInv'
<1>1. proc \in Running /\ proc.pc = "config" /\ ret' = ret /\ ret.op = "none"
      /\ UNCHANGED <<disk, ghost, edits>>
  BY ProcFacts DEF DeviceInv, AnswerFresh, MakeConfig
<1>2. proc' \in Running /\ proc'.pc = "locked" /\ proc'.preloaded = proc.preloaded
  BY <1>1 DEF MakeConfig, Running
<1>3. faults' \in 0 .. MaxFaults
  BY FaultType DEF MakeConfig, DeviceInv, TypeOK
<1>4. /\ config' \in Configs /\ config'.locked = config.locked /\ config'.index = config.index
      /\ (config'.locked # NoFile \/ config'.pubkey # NoFile => config'.dir)
  BY DEF MakeConfig, DeviceInv, TypeOK, Configs
<1>5. TypeOK'
  BY <1>1, <1>2, <1>3, <1>4 DEF DeviceInv, TypeOK
<1>6. AnswerFresh' /\ BuffersCurrent' /\ IndexCurrent' /\ LockCurrent' /\ ReadPending'
  BY <1>1, <1>2, <1>4 DEF DeviceInv, AnswerFresh, BuffersCurrent, IndexCurrent, LockCurrent, ReadPending, Unlocked
<1> QED BY <1>5, <1>6 DEF DeviceInv

LEMMA InitLockedInv == ASSUME DeviceInv, InitLocked PROVE DeviceInv'
<1>1. proc \in Running /\ proc.pc = "locked" /\ ret' = ret /\ ret.op = "none"
      /\ UNCHANGED <<disk, ghost, edits>> /\ faults' \in 0 .. MaxFaults
  BY ProcFacts, FaultType DEF DeviceInv, TypeOK, AnswerFresh, InitLocked, NotOpened
<1>2. proc' \in Running /\ proc'.pc = "index" /\ proc'.preloaded = proc.preloaded
  BY <1>1 DEF InitLocked, Running
<1>3. /\ config' \in Configs /\ (config'.locked = "0") = (config.locked = "0")
      /\ config'.index = config.index
      /\ (config'.locked # NoFile \/ config'.pubkey # NoFile => config'.dir)
  BY DeviceAssumption DEF InitLocked, NotOpened, DeviceInv, TypeOK, Configs
<1>4. TypeOK'
  BY <1>1, <1>2, <1>3 DEF DeviceInv, TypeOK
<1>5. AnswerFresh' /\ BuffersCurrent' /\ IndexCurrent' /\ LockCurrent' /\ ReadPending'
  BY <1>1, <1>2, <1>3 DEF DeviceInv, AnswerFresh, BuffersCurrent, IndexCurrent, LockCurrent, ReadPending, Unlocked
<1> QED BY <1>4, <1>5 DEF DeviceInv

\* The index a file gets and the one that counts as stored.
LEMMA StoredCurrent ==
  ASSUME TypeOK, IndexCurrent, NEW l \in Locations, NEW v \in Indexes \union {0}, NEW file \in {v, Empty},
         config' = [config EXCEPT !.index[l] = file], ghost' = Stored(l, v, file)
  PROVE  /\ config' \in Configs /\ config'.locked = config.locked /\ config'.dir = config.dir
         /\ config'.pubkey = config.pubkey
         /\ ghost' \in Ghosts /\ ghost'.unlocked = ghost.unlocked /\ ghost'.touched = ghost.touched
         /\ ghost'.relocked = ghost.relocked
         /\ IndexCurrent'
<1>1. /\ config' \in Configs /\ config'.locked = config.locked /\ config'.dir = config.dir
      /\ config'.pubkey = config.pubkey
  BY DEF TypeOK, Configs
<1>2. /\ ghost' \in Ghosts /\ ghost'.unlocked = ghost.unlocked /\ ghost'.touched = ghost.touched
      /\ ghost'.relocked = ghost.relocked
  BY DEF TypeOK, Ghosts, Stored
<1>3. config'.index = [config.index EXCEPT ![l] = file] /\ config.index \in [Locations -> Indexes \union {0, NoFile, Empty, Junk}]
  BY DEF TypeOK, Configs
<1>4. ghost'.index = [ghost.index EXCEPT ![l] = IF file = Empty THEN Junk ELSE v]
      /\ ghost.index \in [Locations -> Indexes \union {0, NoFile, Empty, Junk}]
  BY DEF TypeOK, Ghosts, Stored
<1>5. IndexCurrent'
  <2> SUFFICES ASSUME NEW k \in Locations, config'.index[k] \notin {NoFile, Empty}
               PROVE  ghost'.index[k] = Parsed(config'.index[k])
    BY DEF IndexCurrent, Parsed
  <2>1. CASE k = l
    BY <1>3, <1>4, <2>1, DeviceAssumption DEF Parsed
  <2>2. CASE k # l
    BY <1>3, <1>4, <2>2 DEF IndexCurrent, Parsed
  <2> QED BY <2>1, <2>2
<1> QED BY <1>1, <1>2, <1>5

LEMMA WriteFault ==
  ASSUME TypeOK, NEW line, NEW file, WriteToFile(line, file)
  PROVE  faults' \in 0 .. MaxFaults
BY FaultType DEF WriteToFile, TypeOK

LEMMA InitIndexInv == ASSUME DeviceInv, InitIndex PROVE DeviceInv'
<1>1. proc \in Running /\ proc.pc = "index" /\ ret' = ret /\ ret.op = "none"
      /\ UNCHANGED <<disk, edits>>
  BY ProcFacts DEF DeviceInv, AnswerFresh, InitIndex
<1>2. proc' \in Running /\ proc'.pc \in {"index", "preload"} /\ proc'.preloaded = proc.preloaded
  <2>1. proc.i \in 1 .. 2 /\ Len(Created) = 2
    BY <1>1 DEF Running, Created
  <2>2. CASE proc.i = 2
    BY <1>1, <2>1, <2>2 DEF InitIndex, Running
  <2>3. CASE proc.i = 1
    <3>1. proc' = [proc EXCEPT !.i = 2]
      BY <2>1, <2>3 DEF InitIndex
    <3>2. 2 \in 1 .. Len(Created)
      BY <2>1
    <3> QED BY <1>1, <3>1, <3>2 DEF Running
  <2> QED BY <2>1, <2>2, <2>3
<1>3. PICK l \in Locations : l = Created[proc.i]
  BY <1>1, DeviceAssumption DEF Running, Created
<1>4. CASE config' = config /\ ghost' = ghost /\ (faults' = faults \/ Fault)
  <2>1. TypeOK'
    BY <1>1, <1>2, <1>4, FaultType DEF DeviceInv, TypeOK
  <2>2. AnswerFresh' /\ BuffersCurrent' /\ IndexCurrent' /\ LockCurrent' /\ ReadPending'
    BY <1>1, <1>2, <1>4 DEF DeviceInv, AnswerFresh, BuffersCurrent, IndexCurrent, LockCurrent, ReadPending, Unlocked
  <2> QED BY <2>1, <2>2 DEF DeviceInv
<1>5. ASSUME NEW file \in {0, Empty}, WriteToFile(0, file), config' = [config EXCEPT !.index[l] = file],
             ghost' = Stored(l, 0, file)
      PROVE  DeviceInv'
  <2>1. /\ config' \in Configs /\ config'.locked = config.locked /\ config'.dir = config.dir
        /\ config'.pubkey = config.pubkey
        /\ ghost' \in Ghosts /\ ghost'.unlocked = ghost.unlocked /\ ghost'.touched = ghost.touched
        /\ IndexCurrent'
    BY <1>5, StoredCurrent DEF DeviceInv
  <2>2. TypeOK'
    BY <1>1, <1>2, <1>5, <2>1, WriteFault DEF DeviceInv, TypeOK
  <2>3. AnswerFresh' /\ BuffersCurrent' /\ LockCurrent' /\ ReadPending'
    BY <1>1, <1>2, <2>1 DEF DeviceInv, AnswerFresh, BuffersCurrent, LockCurrent, ReadPending, Unlocked
  <2> QED BY <2>1, <2>2, <2>3 DEF DeviceInv
<1> QED BY <1>3, <1>4, <1>5 DEF InitIndex, NotOpened

LEMMA PreloadSizeInv == ASSUME DeviceInv, PreloadSize PROVE DeviceInv'
<1>1. proc \in Running /\ proc.pc = "preload" /\ ret' = ret /\ ret.op = "none" /\ proc.todo # <<>>
      /\ UNCHANGED <<disk, config, edits, faults>>
  BY ProcFacts DEF DeviceInv, AnswerFresh, PreloadSize
<1>2. PICK p \in Partitions : p = Head(proc.todo) /\ Tail(proc.todo) \in Seq(Partitions)
  BY <1>1 DEF Running
<1>3. ghost' \in Ghosts /\ ghost'.index = ghost.index /\ ghost'.unlocked = ghost.unlocked
      /\ ghost'.touched = IF proc.preloaded[p] = NoFile THEN ghost.touched \ {p} ELSE ghost.touched
  BY <1>2 DEF PreloadSize, DeviceInv, TypeOK, Ghosts
<1>4. \/ proc' \in Running /\ proc'.pc = "preload" /\ proc'.preloaded = proc.preloaded
      \/ /\ proc' \in Running /\ proc'.pc = "preload_read" /\ proc'.preloaded = proc.preloaded
         /\ proc'.todo = proc.todo /\ disk[p] # NoFile /\ proc'.size = Len(disk[p])
  <2>1. CASE proc' = NextPreload
    BY <1>1, <1>2, <2>1 DEF NextPreload, Running
  <2>2. CASE SizeOf(p) = "OK" /\ proc' = [proc EXCEPT !.pc = "preload_read", !.size = Len(disk[p])]
    <3>1. disk[p] # NoFile
      BY <2>2 DEF SizeOf
    <3>2. Len(disk[p]) \in Nat
      BY <3>1 DEF DeviceInv, TypeOK, Files
    <3> QED BY <1>1, <2>2, <3>1, <3>2 DEF Running
  <2> QED BY <1>2, <2>1, <2>2 DEF PreloadSize
<1>5. TypeOK'
  BY <1>1, <1>3, <1>4 DEF DeviceInv, TypeOK
<1>6. BuffersCurrent'
  BY <1>1, <1>2, <1>3, <1>4 DEF DeviceInv, BuffersCurrent
<1>7. AnswerFresh' /\ IndexCurrent' /\ LockCurrent' /\ ReadPending'
  BY <1>1, <1>3, <1>4 DEF DeviceInv, AnswerFresh, IndexCurrent, LockCurrent, ReadPending, Unlocked
<1> QED BY <1>5, <1>6, <1>7 DEF DeviceInv

LEMMA WholeSequence ==
  ASSUME NEW S, NEW s \in Seq(S)
  PROVE  SubSeq(s, 1, Len(s)) = s
OBVIOUS

LEMMA PreloadReadInv == ASSUME DeviceInv, PreloadRead PROVE DeviceInv'
<1>1. proc \in Running /\ proc.pc = "preload_read" /\ ret' = ret /\ ret.op = "none" /\ proc.todo # <<>>
      /\ UNCHANGED <<disk, config, ghost, edits, faults>>
  BY ProcFacts DEF DeviceInv, AnswerFresh, PreloadRead, BuffersCurrent
<1>2. PICK p \in Partitions : p = Head(proc.todo) /\ Tail(proc.todo) \in Seq(Partitions)
  BY <1>1 DEF Running
<1>3. /\ proc' \in Running /\ proc'.pc = "preload"
      /\ \/ proc'.preloaded = proc.preloaded
         \/ /\ disk[p] # NoFile /\ ~(Len(disk[p]) < proc.size)
            /\ proc'.preloaded = [proc.preloaded EXCEPT ![p] = SubSeq(disk[p], 1, proc.size)]
  <2>1. CASE proc' = NextPreload
    BY <1>1, <1>2, <2>1 DEF NextPreload, Running
  <2>2. CASE proc' = [NextPreload EXCEPT !.leaked = @ + 1]
    <3>1. NextPreload \in Running /\ NextPreload.pc = "preload" /\ NextPreload.preloaded = proc.preloaded
      BY <1>1, <1>2 DEF NextPreload, Running
    <3>2. NextPreload.leaked + 1 \in Nat
      BY <3>1 DEF Running
    <3> QED BY <2>2, <3>1, <3>2 DEF Running
  <2>3. CASE /\ disk[p] # NoFile /\ ~(Len(disk[p]) < proc.size)
             /\ proc' = [NextPreload EXCEPT !.preloaded[p] = SubSeq(disk[p], 1, proc.size)]
    <3>1. disk[p] \in Seq(Byte) /\ proc.size \in Nat /\ Len(disk[p]) \in Nat
      BY <1>1, <2>3 DEF DeviceInv, TypeOK, Files, Running
    <3>2. SubSeq(disk[p], 1, proc.size) \in Files
      BY <2>3, <3>1 DEF Files
    <3> QED BY <1>1, <1>2, <2>3, <3>2 DEF NextPreload, Running
  <2> QED BY <1>2, <2>1, <2>2, <2>3 DEF PreloadRead
<1>4. TypeOK'
  BY <1>1, <1>3 DEF DeviceInv, TypeOK
<1>5. BuffersCurrent'
  <2> SUFFICES ASSUME NEW q \in Partitions, proc'.preloaded[q] # NoFile, q \notin ghost.touched
               PROVE  proc'.preloaded[q] = disk[q]
    BY <1>1, <1>3 DEF BuffersCurrent
  <2>1. CASE proc'.preloaded[q] = proc.preloaded[q]
    BY <1>1, <2>1 DEF DeviceInv, BuffersCurrent
  <2>2. CASE q = p /\ disk[p] # NoFile /\ proc'.preloaded[p] = SubSeq(disk[p], 1, proc.size)
    <3>1. disk[p] \in Seq(Byte) /\ proc.size = Len(disk[p])
      BY <1>1, <1>2, <2>2 DEF DeviceInv, BuffersCurrent, TypeOK, Files
    <3> QED BY <2>2, <3>1, WholeSequence
  <2> QED BY <1>1, <1>3, <2>1, <2>2 DEF Running
<1>6. AnswerFresh' /\ IndexCurrent' /\ LockCurrent' /\ ReadPending'
  BY <1>1, <1>3 DEF DeviceInv, AnswerFresh, IndexCurrent, LockCurrent, ReadPending, Unlocked
<1> QED BY <1>4, <1>5, <1>6 DEF DeviceInv

LEMMA AllowErrorsInv == ASSUME DeviceInv, AllowErrors PROVE DeviceInv'
<1>1. proc \in Running /\ proc.pc = "preload" /\ ret' = ret /\ ret.op = "none"
      /\ UNCHANGED <<disk, config, edits, faults>>
  BY ProcFacts DEF DeviceInv, AnswerFresh, AllowErrors
<1>2. proc' \in Running /\ proc'.pc = "verify" /\ proc'.preloaded = proc.preloaded /\ proc'.allow = Unlocked
  BY <1>1 DEF AllowErrors, Running, Unlocked
<1>3. ghost' \in Ghosts /\ ghost'.index = ghost.index /\ ghost'.unlocked = ghost.unlocked
      /\ ghost'.touched = ghost.touched
  BY DEF AllowErrors, DeviceInv, TypeOK, Ghosts
<1>4. TypeOK'
  BY <1>1, <1>2, <1>3 DEF DeviceInv, TypeOK
<1>5. AnswerFresh' /\ BuffersCurrent' /\ IndexCurrent' /\ LockCurrent' /\ ReadPending'
  BY <1>1, <1>2, <1>3 DEF DeviceInv, AnswerFresh, BuffersCurrent, IndexCurrent, LockCurrent, ReadPending, Unlocked
<1> QED BY <1>4, <1>5 DEF DeviceInv

\* The verifier has exited or was killed.
LEMMA ExitInv ==
  ASSUME DeviceInv, proc' = Exited, ret' = Quiet, UNCHANGED <<disk, config, ghost, edits>>,
         faults' \in 0 .. MaxFaults
  PROVE  DeviceInv'
<1>1. proc' \in Exits /\ proc'.pc = "idle"
  BY ProcFacts DEF DeviceInv
<1>2. TypeOK'
  BY <1>1 DEF DeviceInv, TypeOK
<1>3. AnswerFresh' /\ BuffersCurrent' /\ IndexCurrent' /\ LockCurrent' /\ ReadPending'
  BY <1>1 DEF DeviceInv, AnswerFresh, BuffersCurrent, IndexCurrent, LockCurrent, ReadPending, Unlocked, Quiet
<1> QED BY <1>2, <1>3 DEF DeviceInv

LEMMA VerdictInv == ASSUME DeviceInv, NEW ok \in BOOLEAN, Verdict(ok) PROVE DeviceInv'
BY ExitInv, FaultType DEF Verdict, DeviceInv, TypeOK

LEMMA KillInv == ASSUME DeviceInv, Kill PROVE DeviceInv'
BY ExitInv, FaultType DEF Kill, DeviceInv
-----------------------------------------------------------------------------
(***************************************************************************)
(* The callbacks.                                                          *)
(***************************************************************************)
LEMMA ReadOnlyInv ==
  ASSUME DeviceInv, proc.pc \in {"verify", "read"}, proc.calls < MaxCalls, NEW r, Answer(r),
         UNCHANGED <<disk, config, ghost, edits, faults>>
  PROVE  DeviceInv'
<1>1. /\ proc' \in Running /\ proc'.pc = "verify"
      /\ proc'.preloaded = proc.preloaded /\ proc'.allow = proc.allow
  BY Answered DEF DeviceInv
<1>2. TypeOK'
  BY <1>1 DEF DeviceInv, TypeOK
<1>3. AnswerFresh' /\ BuffersCurrent' /\ IndexCurrent' /\ LockCurrent' /\ ReadPending'
  BY <1>1 DEF DeviceInv, AnswerFresh, BuffersCurrent, IndexCurrent, LockCurrent, ReadPending, Unlocked
<1> QED BY <1>2, <1>3 DEF DeviceInv

LEMMA ReadFromPartitionInv ==
  ASSUME DeviceInv, NEW p \in Partitions, NEW off \in Offsets, NEW n \in Counts,
         ReadFromPartition(p, off, n)
  PROVE  DeviceInv'
<1>1. proc.pc = "verify" /\ proc.calls < MaxCalls /\ UNCHANGED <<disk, config, ghost, edits, faults>>
  BY DEF ReadFromPartition, Called
<1>2. CASE \E r : Answer(r)
  BY <1>1, <1>2, ReadOnlyInv
<1>3. CASE /\ disk[p] # NoFile /\ ~(off >= 0) /\ ret' = Quiet
           /\ proc' = [proc EXCEPT !.pc = "read", !.size = Len(disk[p]), !.args = <<p, off, n>>]
  <2>1. proc \in Running
    BY <1>1, ProcFacts DEF DeviceInv
  <2>2. Len(disk[p]) \in Nat
    BY <1>3 DEF DeviceInv, TypeOK, Files
  <2>3. off \in Int /\ n \in Nat /\ <<p, off, n>> \in Partitions \X Int \X Nat
    BY DeviceAssumption
  <2>4. /\ proc' \in Running /\ proc'.pc = "read" /\ proc'.preloaded = proc.preloaded
        /\ proc'.allow = proc.allow /\ proc'.args = <<p, off, n>> /\ proc'.calls = proc.calls
    BY <1>3, <2>1, <2>2, <2>3 DEF Running
  <2>5. TypeOK'
    BY <1>1, <2>4 DEF DeviceInv, TypeOK
  <2>6. ReadPending'
    BY <1>1, <1>3, <2>3, <2>4 DEF ReadPending
  <2>7. AnswerFresh' /\ BuffersCurrent' /\ IndexCurrent' /\ LockCurrent'
    BY <1>1, <1>3, <2>4 DEF DeviceInv, AnswerFresh, BuffersCurrent, IndexCurrent, LockCurrent, Unlocked, Quiet
  <2> QED BY <2>5, <2>6, <2>7 DEF DeviceInv
<1> QED BY <1>2, <1>3 DEF ReadFromPartition

LEMMA OverwrittenType ==
  ASSUME NEW file \in Seq(Byte), NEW off \in Nat, NEW n \in Nat
  PROVE  Overwritten(file, off, n) \in Seq(Byte)
<1> DEFINE size == IF off + n > Len(file) THEN off + n ELSE Len(file)
<1>1. size \in Nat
  OBVIOUS
<1>2. "zero" \in Byte /\ "new" \in Byte
  BY DEF Byte
<1>3. \A i \in 1 .. size : (IF i <= off \/ i > off + n THEN IF i <= Len(file) THEN file[i] ELSE "zero" ELSE "new") \in Byte
  BY <1>1, <1>2
<1> HIDE DEF size
<1>4. [i \in 1 .. size |-> IF i <= off \/ i > off + n THEN IF i <= Len(file) THEN file[i] ELSE "zero" ELSE "new"]
        \in [1 .. size -> Byte]
  BY <1>3
<1>5. \A f \in [1 .. size -> Byte] : f \in Seq(Byte)
  BY <1>1
<1> QED BY <1>4, <1>5 DEF Overwritten, size

LEMMA WriteToPartitionInv ==
  ASSUME DeviceInv, NEW p \in Partitions, NEW off \in Int, NEW n \in Nat, WriteToPartition(p, off, n)
  PROVE  DeviceInv'
<1>1. proc.pc = "verify" /\ proc.calls < MaxCalls /\ UNCHANGED <<config, edits, faults>>
  BY DEF WriteToPartition, Called
<1>2. CASE disk' = disk /\ ghost' = ghost
  <2>1. \E r : Answer(r)
    BY DEF WriteToPartition
  <2> QED BY <1>1, <1>2, <2>1, ReadOnlyInv
<1>3. CASE /\ disk[p] # NoFile /\ ~(off < 0)
           /\ disk' = [disk EXCEPT ![p] = Overwritten(@, off, n)]
           /\ ghost' = [ghost EXCEPT !.touched = @ \union {p}]
  <2>1. PICK r : Answer(r)
    BY <1>3 DEF WriteToPartition
  <2>2. /\ proc' \in Running /\ proc'.pc = "verify"
        /\ proc'.preloaded = proc.preloaded /\ proc'.allow = proc.allow
    BY <1>1, <2>1, Answered DEF DeviceInv
  <2>3. disk[p] \in Seq(Byte) /\ off \in Nat
    BY <1>3 DEF DeviceInv, TypeOK, Files
  <2>4. Overwritten(disk[p], off, n) \in Files
    BY <2>3, OverwrittenType DEF Files
  <2>5. disk' \in [Partitions -> Files] /\ \A q \in Partitions \ {p} : disk'[q] = disk[q]
    BY <1>3, <2>4 DEF DeviceInv, TypeOK
  <2>6. /\ ghost' \in Ghosts /\ ghost'.index = ghost.index /\ ghost'.unlocked = ghost.unlocked
        /\ ghost'.touched = ghost.touched \union {p} /\ ghost'.relocked = ghost.relocked
    BY <1>3 DEF DeviceInv, TypeOK, Ghosts
  <2>7. TypeOK'
    BY <1>1, <2>2, <2>5, <2>6 DEF DeviceInv, TypeOK
  <2>8. BuffersCurrent'
    BY <1>1, <2>2, <2>5, <2>6 DEF DeviceInv, BuffersCurrent
  <2>9. AnswerFresh' /\ IndexCurrent' /\ LockCurrent' /\ ReadPending'
    BY <1>1, <2>2, <2>6 DEF DeviceInv, AnswerFresh, IndexCurrent, LockCurrent, ReadPending, Unlocked
  <2> QED BY <2>7, <2>8, <2>9 DEF DeviceInv
<1> QED BY <1>2, <1>3 DEF WriteToPartition

LEMMA WriteRollbackIndexInv ==
  ASSUME DeviceInv, NEW l \in Locations, NEW v \in Indexes, WriteRollbackIndex(l, v)
  PROVE  DeviceInv'
<1>1. proc.pc = "verify" /\ proc.calls < MaxCalls /\ UNCHANGED <<disk, edits>>
  BY DEF WriteRollbackIndex, Called
<1>2. PICK r : Answer(r)
  BY DEF WriteRollbackIndex
<1>3. /\ proc' \in Running /\ proc'.pc = "verify"
      /\ proc'.preloaded = proc.preloaded /\ proc'.allow = proc.allow
  BY <1>1, <1>2, Answered DEF DeviceInv
<1>4. ASSUME NEW file \in {v, Empty}, WriteToFile(v, file), config' = [config EXCEPT !.index[l] = file],
             ghost' = Stored(l, v, file)
      PROVE  DeviceInv'
  <2>1. /\ config' \in Configs /\ config'.locked = config.locked /\ config'.dir = config.dir
        /\ config'.pubkey = config.pubkey
        /\ ghost' \in Ghosts /\ ghost'.unlocked = ghost.unlocked /\ ghost'.touched = ghost.touched
        /\ ghost'.relocked = ghost.relocked
        /\ IndexCurrent'
    BY <1>4, StoredCurrent DEF DeviceInv
  <2>2. TypeOK'
    BY <1>1, <1>3, <1>4, <2>1, WriteFault DEF DeviceInv, TypeOK
  <2>3. AnswerFresh' /\ BuffersCurrent' /\ LockCurrent' /\ ReadPending'
    BY <1>1, <1>3, <2>1 DEF DeviceInv, AnswerFresh, BuffersCurrent, LockCurrent, ReadPending, Unlocked
  <2> QED BY <2>1, <2>2, <2>3 DEF DeviceInv
<1>5. CASE UNCHANGED <<config, ghost>> /\ faults' \in 0 .. MaxFaults
  <2>1. TypeOK'
    BY <1>1, <1>3, <1>5 DEF DeviceInv, TypeOK
  <2>2. AnswerFresh' /\ BuffersCurrent' /\ IndexCurrent' /\ LockCurrent' /\ ReadPending'
    BY <1>1, <1>3, <1>5 DEF DeviceInv, AnswerFresh, BuffersCurrent, IndexCurrent, LockCurrent, ReadPending, Unlocked
  <2> QED BY <2>1, <2>2 DEF DeviceInv
<1>6. CASE UNCHANGED <<config, ghost, faults>>
  BY <1>5, <1>6 DEF DeviceInv, TypeOK
<1>7. CASE UNCHANGED <<config, ghost>> /\ Fault
  BY <1>5, <1>7, FaultType DEF DeviceInv
<1> QED BY <1>4, <1>6, <1>7 DEF WriteRollbackIndex, NotOpened

LEMMA CallbackInv == ASSUME DeviceInv, Callback PROVE DeviceInv'
<1>1. ASSUME NEW p \in Partitions, GetSizeOfPartition(p) \/ GetUniqueGuid(p) PROVE DeviceInv'
  BY <1>1, ReadOnlyInv DEF GetSizeOfPartition, GetUniqueGuid, Called
<1>2. ASSUME NEW p \in Partitions, NEW off \in Offsets, NEW n \in Counts, ReadFromPartition(p, off, n)
      PROVE  DeviceInv'
  BY <1>2, ReadFromPartitionInv
<1>3. ASSUME NEW p \in Partitions, NEW w \in Writes, WriteToPartition(p, w[1], w[2]) PROVE DeviceInv'
  BY <1>3, WriteToPartitionInv, DeviceAssumption
<1>4. CASE ReadFromEnd
  <2>1. proc.pc = "read" /\ proc.calls < MaxCalls
    BY <1>4 DEF ReadFromEnd, DeviceInv, ReadPending
  <2> QED BY <1>4, <2>1, ReadOnlyInv DEF ReadFromEnd
<1>5. ASSUME NEW p \in Partitions, NEW n \in Counts, GetPreloaded(p, n) PROVE DeviceInv'
  BY <1>5, ReadOnlyInv DEF GetPreloaded, Called
<1>6. ASSUME NEW op, NEW k \in Keys, NEW metadata \in BOOLEAN, ValidatePublicKey(op, k, metadata)
      PROVE  DeviceInv'
  BY <1>6, ReadOnlyInv DEF ValidatePublicKey, Called
<1>7. CASE ReadIsDeviceUnlocked
  BY <1>7, ReadOnlyInv DEF ReadIsDeviceUnlocked, Called
<1>8. ASSUME NEW l \in Locations, ReadRollbackIndex(l) PROVE DeviceInv'
  BY <1>8, ReadOnlyInv DEF ReadRollbackIndex, Called
<1>9. ASSUME NEW l \in Locations, NEW v \in Indexes, WriteRollbackIndex(l, v) PROVE DeviceInv'
  BY <1>9, WriteRollbackIndexInv
<1>10. ASSUME NEW op, PersistentValue(op) PROVE DeviceInv'
  BY <1>10, ReadOnlyInv DEF PersistentValue, Called
<1> QED BY <1>1, <1>2, <1>3, <1>4, <1>5, <1>6, <1>7, <1>8, <1>9, <1>10 DEF Callback
-----------------------------------------------------------------------------
(***************************************************************************)
(* The user.                                                               *)
(***************************************************************************)
LEMMA EditType == ASSUME TypeOK, Edit PROVE edits' \in 0 .. MaxEdits
BY DeviceAssumption DEF TypeOK, Edit

LEMMA UserInv == ASSUME DeviceInv, User PROVE DeviceInv'
<1>1. proc' = proc /\ faults' = faults /\ ret' = Quiet /\ Edit
  BY DEF User, ReplaceImage, SetLocked, RemoveConfig, Edit
<1>2. edits' \in 0 .. MaxEdits
  BY <1>1, EditType DEF DeviceInv
<1>3. AnswerFresh' /\ ReadPending'
  BY <1>1 DEF DeviceInv, AnswerFresh, ReadPending, Quiet
<1>4. ASSUME NEW p \in Partitions, NEW file \in Images \union {NoFile}, ReplaceImage(p, file) PROVE DeviceInv'
  <2>1. disk' \in [Partitions -> Files] /\ \A q \in Partitions \ {p} : disk'[q] = disk[q]
    BY <1>4, DeviceAssumption DEF ReplaceImage, DeviceInv, TypeOK, Files
  <2>2. /\ ghost' \in Ghosts /\ ghost'.index = ghost.index /\ ghost'.unlocked = ghost.unlocked
        /\ ghost'.touched = ghost.touched \union {p} /\ ghost'.relocked = ghost.relocked /\ config' = config
    BY <1>4 DEF ReplaceImage, DeviceInv, TypeOK, Ghosts
  <2>3. TypeOK'
    BY <1>1, <1>2, <2>1, <2>2 DEF DeviceInv, TypeOK
  <2>4. BuffersCurrent'
    <3>1. proc.pc = "preload_read" => Head(proc.todo) \in Partitions
      BY ProcFacts DEF DeviceInv, BuffersCurrent, Running
    <3> QED BY <1>1, <2>1, <2>2, <3>1 DEF DeviceInv, BuffersCurrent
  <2>5. IndexCurrent' /\ LockCurrent'
    BY <1>1, <2>2 DEF DeviceInv, IndexCurrent, LockCurrent, Unlocked
  <2> QED BY <1>3, <2>3, <2>4, <2>5 DEF DeviceInv
<1>5. ASSUME NEW line \in {Empty, "0"}, SetLocked(line) PROVE DeviceInv'
  <2>1. /\ config' \in Configs /\ config'.locked = line /\ config'.index = config.index
        /\ config'.dir = config.dir /\ config.dir /\ disk' = disk
    BY <1>5 DEF SetLocked, DeviceInv, TypeOK, Configs
  <2>2. /\ ghost' \in Ghosts /\ ghost'.index = ghost.index /\ ghost'.unlocked = (line = "0")
        /\ ghost'.touched = ghost.touched /\ ghost'.relocked = TRUE
    BY <1>5 DEF SetLocked, DeviceInv, TypeOK, Ghosts
  <2>3. TypeOK'
    BY <1>1, <1>2, <2>1, <2>2 DEF DeviceInv, TypeOK
  <2>4. BuffersCurrent' /\ IndexCurrent' /\ LockCurrent'
    BY <1>1, <2>1, <2>2 DEF DeviceInv, BuffersCurrent, IndexCurrent, LockCurrent, Unlocked
  <2> QED BY <1>3, <2>3, <2>4 DEF DeviceInv
<1>6. CASE RemoveConfig
  <2>1. /\ config' \in Configs /\ config'.locked = NoFile /\ config'.pubkey = NoFile /\ disk' = disk
        /\ \A l \in Locations : config'.index[l] = NoFile
    BY <1>6 DEF RemoveConfig, Configs
  <2>2. /\ ghost' \in Ghosts /\ ghost'.unlocked = FALSE
        /\ ghost'.touched = ghost.touched /\ ghost'.relocked = TRUE
    BY <1>6 DEF RemoveConfig, DeviceInv, TypeOK, Ghosts
  <2>3. TypeOK'
    BY <1>1, <1>2, <2>1, <2>2 DEF DeviceInv, TypeOK
  <2>4. BuffersCurrent' /\ IndexCurrent' /\ LockCurrent'
    BY <1>1, <2>1, <2>2, DeviceAssumption DEF DeviceInv, BuffersCurrent, IndexCurrent, LockCurrent, Unlocked
  <2> QED BY <1>3, <2>3, <2>4 DEF DeviceInv
<1> QED BY <1>4, <1>5, <1>6 DEF User

LEMMA NextInv == DeviceInv /\ [Next]_vars => DeviceInv'
<1> SUFFICES ASSUME DeviceInv, [Next]_vars PROVE DeviceInv'
  OBVIOUS
<1>1. CASE UNCHANGED vars
  BY <1>1 DEF vars, DeviceInv, TypeOK, AnswerFresh, BuffersCurrent, IndexCurrent, LockCurrent, ReadPending, Unlocked
<1>2. ASSUME NEW preloads \in Preloads, NEW requests \in Requests, Main(preloads, requests) PROVE DeviceInv'
  BY <1>2, MainInv
<1>3. ASSUME NEW ok \in BOOLEAN, Verdict(ok) PROVE DeviceInv'
  BY <1>3, VerdictInv
<1>4. CASE LoadPubkey
  BY <1>4, LoadPubkeyInv
<1>5. CASE PopulatePartitions
  BY <1>5, PopulateInv
<1>6. CASE MakeConfig
  BY <1>6, MakeConfigInv
<1>7. CASE InitLocked
  BY <1>7, InitLockedInv
<1>8. CASE InitIndex
  BY <1>8, InitIndexInv
<1>9. CASE PreloadSize
  BY <1>9, PreloadSizeInv
<1>10. CASE PreloadRead
  BY <1>10, PreloadReadInv
<1>11. CASE AllowErrors
  BY <1>11, AllowErrorsInv
<1>12. CASE Callback
  BY <1>12, CallbackInv
<1>13. CASE User
  BY <1>13, UserInv
<1>14. CASE Kill
  BY <1>14, KillInv
<1> QED BY <1>1, <1>2, <1>3, <1>4, <1>5, <1>6, <1>7, <1>8, <1>9, <1>10, <1>11, <1>12, <1>13, <1>14 DEF Next
-----------------------------------------------------------------------------
(***************************************************************************)
(* The answers.                                                            *)
(***************************************************************************)
\* What is true of every answer, and trivially when there is none.
Answers == ReadExact /\ PreloadedPrefix /\ IndexAsStored /\ LockStateAgrees

LEMMA NoAnswer == ASSUME ret'.op = "none" PROVE Answers'
BY DEF Answers, ReadExact, PreloadedPrefix, IndexAsStored, LockStateAgrees

LEMMA OtherAnswer ==
  ASSUME ret'.op \notin {"read", "preloaded", "read_index", "unlocked"} PROVE Answers'
BY DEF Answers, ReadExact, PreloadedPrefix, IndexAsStored, LockStateAgrees

LEMMA SubSeqFacts ==
  ASSUME NEW S, NEW s \in Seq(S), NEW from \in Nat, NEW to \in Nat, to <= Len(s)
  PROVE  LET d == SubSeq(s, from + 1, to)
         IN  /\ Len(d) = IF from < to THEN to - from ELSE 0
             /\ \A i \in 1 .. Len(d) : d[i] = s[from + i]
OBVIOUS

\* The bytes that were read: 'from' is where the read started.
LEMMA ReadBytes ==
  ASSUME NEW S, NEW file \in Seq(S), NEW from \in Nat, NEW n \in Nat, NEW data,
         data = SubSeq(file, from + 1, IF from + n < Len(file) THEN from + n ELSE Len(file)),
         Len(data) = n
  PROVE  \A i \in 1 .. n : from + i \in DOMAIN file /\ data[i] = file[from + i]
<1> DEFINE to == IF from + n < Len(file) THEN from + n ELSE Len(file)
<1>1. to \in Nat /\ to <= Len(file) /\ Len(file) \in Nat
  OBVIOUS
<1>2. /\ Len(data) = IF from < to THEN to - from ELSE 0
      /\ \A i \in 1 .. Len(data) : data[i] = file[from + i]
  BY <1>1, SubSeqFacts
<1>3. \A i \in 1 .. n : from + i \in 1 .. Len(file)
  BY <1>1, <1>2
<1> QED BY <1>2, <1>3

LEMMA ReadAtExact ==
  ASSUME TypeOK, NEW p \in Partitions, NEW where \in Int, NEW off \in Int, NEW n \in Nat,
         \/ off >= 0 /\ where = off
         \/ off < 0 /\ proc.size \in Nat /\ where = proc.size - (-off),
         ret' = ReadAt(p, where, off, n)
  PROVE  ReadExact'
<1> DEFINE from == IF where = -1 THEN 0 ELSE where
           file == disk[p]
           size == proc.size
           data == SubSeq(file, from + 1, IF from + n < Len(file) THEN from + n ELSE Len(file))
<1>1. /\ ret'.op = "read" /\ ret'.off = off /\ ret'.n = n /\ ret'.file = file /\ ret'.size = size
      /\ ret'.result = IF file = NoFile THEN "NO_SUCH_PARTITION" ELSE IF where < -1 THEN "IO" ELSE "OK"
      /\ ret'.result = "OK" => ret'.data = data
  BY DEF ReadAt
<1>2. CASE ret'.result # "OK"
  BY <1>2 DEF ReadExact
<1>3. CASE ret'.result = "OK" /\ Len(ret'.data) # n
  BY <1>1, <1>3 DEF ReadExact
<1>4. CASE ret'.result = "OK" /\ Len(ret'.data) = n /\ off < 0 /\ Len(file) + off < 0
  BY <1>1, <1>4 DEF ReadExact, RangeOf
<1>5. CASE ret'.result = "OK" /\ Len(ret'.data) = n /\ off < 0 /\ size # Len(file)
  BY <1>1, <1>5 DEF ReadExact
<1>6. CASE ret'.result = "OK" /\ Len(ret'.data) = n /\ ~(off < 0 /\ Len(file) + off < 0) /\ ~(off < 0 /\ size # Len(file))
  <2>1. file \in Seq(Byte) /\ from \in Nat /\ ~(where < -1) /\ ret'.data = data
    <3>1. file # NoFile /\ ~(where < -1)
      BY <1>1, <1>6
    <3>2. file \in Files
      BY DEF TypeOK
    <3>3. file \in Seq(Byte)
      BY <3>1, <3>2 DEF Files
    <3>4. from \in Nat
      BY <3>1
    <3> QED BY <1>1, <1>6, <3>1, <3>3, <3>4
  <2>2. \A i \in 1 .. n : from + i \in DOMAIN file /\ data[i] = file[from + i]
    <3>1. Len(data) = n
      BY <1>6, <2>1
    <3>2. data = SubSeq(file, from + 1, IF from + n < Len(file) THEN from + n ELSE Len(file))
      OBVIOUS
    <3> HIDE DEF data, from, file
    <3> QED BY <2>1, <3>1, <3>2, ReadBytes
  <2>3. from = IF off >= 0 THEN off ELSE Len(file) + off
    <3>1. Len(file) \in Nat
      BY <2>1
    <3>2. CASE off >= 0
      BY <3>2
    <3>3. CASE off < 0
      <4>1. where = Len(file) + off /\ Len(file) + off >= 0
        BY <1>6, <3>1, <3>3
      <4> QED BY <3>3, <4>1
    <3> QED BY <3>2, <3>3
  <2> HIDE DEF from, data
  <2>4. RangeOf(ret)' = from
    BY <1>1, <2>3 DEF RangeOf
  <2> QED BY <1>1, <2>1, <2>2, <2>4 DEF ReadExact
<1> QED BY <1>2, <1>3, <1>4, <1>5, <1>6

\* An answer to another question has nothing to do with reading.
LEMMA ReadAnswers ==
  ASSUME ret'.op = "read", ReadExact' PROVE Answers'
BY DEF Answers, PreloadedPrefix, IndexAsStored, LockStateAgrees

LEMMA ReadFromPartitionAnswers ==
  ASSUME DeviceInv, NEW p \in Partitions, NEW off \in Offsets, NEW n \in Counts,
         ReadFromPartition(p, off, n)
  PROVE  Answers'
<1>1. off \in Int /\ n \in Nat
  BY DeviceAssumption
<1>2. CASE off >= 0 /\ Answer(ReadAt(p, off, off, n))
  <2>1. ret' = ReadAt(p, off, off, n)
    BY <1>2 DEF Answer
  <2>2. ReadExact'
    BY <1>1, <1>2, <2>1, ReadAtExact DEF DeviceInv
  <2> QED BY <2>1, <2>2, ReadAnswers DEF ReadAt
<1>3. CASE ret' = Quiet
  BY <1>3, NoAnswer DEF Quiet
<1>4. CASE ret'.op = "read" /\ ret'.result # "OK"
  <2>1. ReadExact'
    BY <1>4 DEF ReadExact
  <2> QED BY <1>4, <2>1, ReadAnswers
<1> QED BY <1>2, <1>3, <1>4 DEF ReadFromPartition, Answer

LEMMA ReadFromEndAnswers == ASSUME DeviceInv, ReadFromEnd PROVE Answers'
<1>1. PICK p \in Partitions, off \in Int, n \in Nat : proc.args = <<p, off, n>> /\ off < 0
  BY DEF ReadFromEnd, DeviceInv, ReadPending
<1>2. proc.size \in Nat
  BY ProcFacts DEF ReadFromEnd, DeviceInv, Running
<1>3. PICK where \in Int : where = proc.size - (-off)
  BY <1>2
<1>4. ret' = ReadAt(p, where, off, n)
  BY <1>1, <1>3 DEF ReadFromEnd, Answer
<1>5. ReadExact'
  BY <1>1, <1>2, <1>3, <1>4, ReadAtExact DEF DeviceInv
<1> QED BY <1>4, <1>5, ReadAnswers DEF ReadAt

LEMMA GetPreloadedAnswers ==
  ASSUME DeviceInv, NEW p \in Partitions, NEW n \in Counts, GetPreloaded(p, n)
  PROVE  Answers'
<1>1. UNCHANGED <<disk, ghost>> /\ proc.pc = "verify"
  BY DEF GetPreloaded, Called
<1>2. ret'.op = "preloaded"
  BY DEF GetPreloaded, Answer, Preloaded
<1>3. CASE ret'.result # "OK" \/ ret'.buffer = NoFile
  BY <1>2, <1>3 DEF Answers, ReadExact, PreloadedPrefix, IndexAsStored, LockStateAgrees
<1>4. CASE /\ SizeOf(p) = "OK" /\ ~(n > Len(disk[p])) /\ proc.preloaded[p] # NoFile
           /\ ret' = Preloaded(p, n, "OK", n, proc.preloaded[p])
  <2>1. disk[p] # NoFile
    BY <1>4 DEF SizeOf
  <2>2. Len(disk[p]) \in Nat /\ n \in Nat
    BY <2>1, DeviceAssumption DEF DeviceInv, TypeOK, Files
  <2>3. p \notin ghost.touched => proc.preloaded[p] = disk[p]
    BY <1>1, <1>4 DEF DeviceInv, BuffersCurrent
  <2>4. /\ ret'.p = p /\ ret'.length = n /\ ret'.n = n /\ ret'.buffer = proc.preloaded[p]
    BY <1>4 DEF Preloaded
  <2>5. PreloadedPrefix'
    BY <1>1, <1>4, <2>2, <2>3, <2>4 DEF PreloadedPrefix
  <2> QED BY <1>2, <2>5 DEF Answers, ReadExact, IndexAsStored, LockStateAgrees
<1>5. \/ ret' = Preloaded(p, n, "NO_SUCH_PARTITION", 0, NoFile)
      \/ ret' = Preloaded(p, n, "OK", 0, NoFile)
      \/ ret' = Preloaded(p, n, SizeOf(p), 0, NoFile)
      \/ ret' = Preloaded(p, n, "IO", 0, NoFile)
      \/ /\ SizeOf(p) = "OK" /\ ~(n > Len(disk[p])) /\ proc.preloaded[p] # NoFile
         /\ ret' = Preloaded(p, n, "OK", n, proc.preloaded[p])
  BY DEF GetPreloaded, Answer
<1>6. \A result : Preloaded(p, n, result, 0, NoFile).buffer = NoFile
  BY DEF Preloaded
<1> QED BY <1>3, <1>4, <1>5, <1>6

LEMMA ReadRollbackIndexAnswers ==
  ASSUME DeviceInv, NEW l \in Locations, ReadRollbackIndex(l)
  PROVE  Answers'
<1>1. ret'.op = "read_index" /\ ghost' = ghost
  BY DEF ReadRollbackIndex, Answer
<1>2. ret'.result = "OK" => /\ config.index[l] \notin {NoFile, Empty}
                            /\ ret'.loc = l /\ ret'.value = Parsed(config.index[l])
  BY DEF ReadRollbackIndex, Answer
<1>3. IndexAsStored'
  BY <1>1, <1>2 DEF IndexAsStored, DeviceInv, IndexCurrent
<1> QED BY <1>1, <1>3 DEF Answers, ReadExact, PreloadedPrefix, LockStateAgrees

LEMMA ReadIsDeviceUnlockedAnswers == ASSUME DeviceInv, ReadIsDeviceUnlocked PROVE Answers'
<1>1. proc.pc = "verify" /\ proc.calls < MaxCalls /\ ghost' = ghost
  BY DEF ReadIsDeviceUnlocked, Called
<1>2. proc'.allow = proc.allow /\ ret' = [op |-> "unlocked", result |-> "OK", value |-> Unlocked]
  BY <1>1, Answered DEF ReadIsDeviceUnlocked, DeviceInv
<1>3. ret'.op = "unlocked" /\ ret'.value = Unlocked
  BY <1>2
<1>4. LockStateAgrees'
  BY <1>1, <1>2, <1>3 DEF LockStateAgrees, DeviceInv, LockCurrent
<1> QED BY <1>3, <1>4 DEF Answers, ReadExact, PreloadedPrefix, IndexAsStored

LEMMA CallbackAnswers == ASSUME DeviceInv, Callback PROVE Answers'
<1>1. ASSUME NEW p \in Partitions, GetSizeOfPartition(p) \/ GetUniqueGuid(p) PROVE Answers'
  BY <1>1, OtherAnswer DEF GetSizeOfPartition, GetUniqueGuid, Answer
<1>2. ASSUME NEW p \in Partitions, NEW off \in Offsets, NEW n \in Counts, ReadFromPartition(p, off, n)
      PROVE  Answers'
  BY <1>2, ReadFromPartitionAnswers
<1>3. ASSUME NEW p \in Partitions, NEW w \in Writes, WriteToPartition(p, w[1], w[2]) PROVE Answers'
  BY <1>3, OtherAnswer DEF WriteToPartition, Answer
<1>4. CASE ReadFromEnd
  BY <1>4, ReadFromEndAnswers
<1>5. ASSUME NEW p \in Partitions, NEW n \in Counts, GetPreloaded(p, n) PROVE Answers'
  BY <1>5, GetPreloadedAnswers
<1>6. ASSUME NEW op \in {"vbmeta_key", "partition_key"}, NEW k \in Keys, NEW metadata \in BOOLEAN,
             ValidatePublicKey(op, k, metadata)
      PROVE  Answers'
  BY <1>6, OtherAnswer DEF ValidatePublicKey, Answer
<1>7. CASE ReadIsDeviceUnlocked
  BY <1>7, ReadIsDeviceUnlockedAnswers
<1>8. ASSUME NEW l \in Locations, ReadRollbackIndex(l) PROVE Answers'
  BY <1>8, ReadRollbackIndexAnswers
<1>9. ASSUME NEW l \in Locations, NEW v \in Indexes, WriteRollbackIndex(l, v) PROVE Answers'
  BY <1>9, OtherAnswer DEF WriteRollbackIndex, Answer
<1>10. ASSUME NEW op \in {"read_value", "write_value"}, PersistentValue(op) PROVE Answers'
  BY <1>10, OtherAnswer DEF PersistentValue, Answer
<1> QED BY <1>1, <1>2, <1>3, <1>4, <1>5, <1>6, <1>7, <1>8, <1>9, <1>10 DEF Callback

LEMMA NextAnswers == DeviceInv /\ Answers /\ [Next]_vars => Answers'
<1> SUFFICES ASSUME DeviceInv, Answers, [Next]_vars PROVE Answers'
  OBVIOUS
<1>1. CASE Callback
  BY <1>1, CallbackAnswers
<1>2. CASE UNCHANGED vars
  BY <1>2 DEF vars, Answers, ReadExact, PreloadedPrefix, IndexAsStored, LockStateAgrees, RangeOf
<1>3. CASE ret' = Quiet
  BY <1>3, NoAnswer DEF Quiet
<1>4. CASE ret' = ret /\ proc.pc # "verify"
  BY <1>4, NoAnswer DEF DeviceInv, AnswerFresh
<1>5. CASE Next /\ ~Callback
  <2>1. \/ ret' = Quiet
        \/ ret' = ret /\ proc.pc # "verify"
    BY <1>5 DEF Next, Main, LoadPubkey, PopulatePartitions, MakeConfig, InitLocked, InitIndex,
                PreloadSize, PreloadRead, AllowErrors, Verdict, User, ReplaceImage, SetLocked,
                RemoveConfig, Edit, Kill
  <2> QED BY <1>3, <1>4, <2>1
<1> QED BY <1>1, <1>2, <1>5

LEMMA InitAnswers == Init => Answers
BY DEF Init, Quiet, Answers, ReadExact, PreloadedPrefix, IndexAsStored, LockStateAgrees

\* A complete read delivers the bytes of the range it was asked for, from
\* whichever end the offset counts, unless that range begins before the
\* partition or the file changed its length during the read.
THEOREM ReadsExact == Spec => []ReadExact
<1>1. DeviceInv /\ Answers => ReadExact
  BY DEF Answers
<1> QED BY InitInv, NextInv, InitAnswers, NextAnswers, <1>1, PTL DEF Spec

\* get_preloaded_partition() hands out the beginning of the image that was
\* preloaded, within its buffer, unless the image has been changed since.
THEOREM BuffersMatch == Spec => []PreloadedPrefix
<1>1. DeviceInv /\ Answers => PreloadedPrefix
  BY DEF Answers
<1> QED BY InitInv, NextInv, InitAnswers, NextAnswers, <1>1, PTL DEF Spec

\* read_rollback_index() answers the index stored last or an error, whatever
\* writes were cut short and wherever the verifier was killed.
THEOREM IndexesAsStored == Spec => []IndexAsStored
<1>1. DeviceInv /\ Answers => IndexAsStored
  BY DEF Answers
<1> QED BY InitInv, NextInv, InitAnswers, NextAnswers, <1>1, PTL DEF Spec

\* Errors are allowed only on a device that the user has unlocked, and main()
\* and libavb work with the same lock state.
THEOREM LockStateSound == Spec => []DeviceSound
<1>1. DeviceInv /\ Answers => DeviceSound
  BY DEF DeviceInv, LockCurrent, Answers, DeviceSound, LockedByDefault
<1> QED BY InitInv, NextInv, InitAnswers, NextAnswers, <1>1, PTL DEF Spec
=============================================================================
