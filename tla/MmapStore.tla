----------------------------- MODULE MmapStore -----------------------------
(***************************************************************************)
(* The memory-mapped file of LoadedService                                 *)
(* (LoadedService/internal/mmapstore/store.go): EnsureFile, Map, Unmap,    *)
(* Remap and the reads, called from any goroutine.  The mutex guards the   *)
(* fields only: a read copies the slice under it and touches the pages     *)
(* after it is released, and EnsureFile does not take it at all.           *)
(*                                                                         *)
(* No program imports the package yet; its callers here may do whatever    *)
(* its API allows.  The file and mmap are the operating system's: a page   *)
(* of a mapping is there as long as the mapping and the file reach to it.  *)
(***************************************************************************)
EXTENDS Integers, Sequences

CONSTANTS
  Callers,   \* goroutines
  Page,      \* pageSizeBytes
  Size,      \* sizeBytes
  OldSizes,  \* sizes of the file as found, Missing if there is none
  Missing,
  MaxMaps    \* bound on the calls of Map that open the file

ASSUME SizesAssumption ==
  /\ Page \in Nat \ {0} /\ Size \in Nat /\ MaxMaps \in Nat
  /\ OldSizes \subseteq Nat \cup {Missing} /\ Missing \notin Int

VARIABLES
  file,     \* size of the backing file
  maps,     \* what each call of Map opened: its length, the mapping, the handle
  data,     \* s.data and s.file: the number of the mapping, 0 for nil
  pc,       \* idle, truncate or write (EnsureFile), map (Remap), read
  pos,      \* EnsureFile: the offset written next
  on, left, \* a read: the mapping it copied, the offsets still to touch
  index,    \* a page index the caller keeps, -1 without
  fault     \* none, or what killed the process: an unmapped or a cut page

store == <<maps, data>>
reads == <<on, left, index>>
vars == <<file, store, pc, pos, reads, fault>>

Init ==
  /\ file \in OldSizes
  /\ maps = <<>> /\ data = 0
  /\ pc = [c \in Callers |-> "idle"]
  /\ pos = [c \in Callers |-> 0]
  /\ on = [c \in Callers |-> 0]
  /\ left = [c \in Callers |-> {}]
  /\ index = [c \in Callers |-> -1]
  /\ fault = "none"

Goto(c, from, to) == pc[c] = from /\ pc' = [pc EXCEPT ![c] = to]

-----------------------------------------------------------------------------
OpenFileTruncated(c) ==    \* faulty: the file is emptied when it is opened
  /\ Size > 0
  /\ Goto(c, "idle", "truncate")
  /\ file' = 0
  /\ UNCHANGED <<store, pos, reads, fault>>

(* EnsureFile.  Any of its calls may fail.                                 *)
OpenFile(c) ==
  /\ Size > 0
  /\ Goto(c, "idle", "truncate")
  /\ file' = IF file = Missing THEN 0 ELSE file
  /\ UNCHANGED <<store, pos, reads, fault>>

Truncate(c) ==
  /\ Goto(c, "truncate", "write")
  /\ file' = Size
  /\ pos' = [pos EXCEPT ![c] = 0]
  /\ UNCHANGED <<store, reads, fault>>

(* A whole page is written at each offset, past Size at the last one.      *)
WriteAt(c) ==
  /\ pc[c] = "write" /\ pos[c] < Size
  /\ file' = IF file < pos[c] + Page THEN pos[c] + Page ELSE file
  /\ pos' = [pos EXCEPT ![c] = @ + Page]
  /\ UNCHANGED <<store, pc, reads, fault>>

Ensured(c) ==
  /\ Goto(c, "write", "idle")
  /\ pos[c] >= Size
  /\ UNCHANGED <<file, store, pos, reads, fault>>

EnsureFails(c) ==
  /\ pc[c] \in {"truncate", "write"}
  /\ pc' = [pc EXCEPT ![c] = "idle"]
  /\ UNCHANGED <<file, store, pos, reads, fault>>

EnsureFile(c) == OpenFile(c) \/ Truncate(c) \/ WriteAt(c) \/ Ensured(c) \/ EnsureFails(c)

-----------------------------------------------------------------------------
(* Map, called for itself or by Remap, all of it under the lock.           *)
MapNothing(c) ==    \* mapped already, or no file to open
  /\ pc[c] \in {"idle", "map"} /\ pc' = [pc EXCEPT ![c] = "idle"]
  /\ data # 0 \/ file = Missing
  /\ UNCHANGED <<file, store, pos, reads, fault>>

MapFailsOpen(c) ==    \* faulty: an error path that leaves the file open
  /\ pc[c] \in {"idle", "map"} /\ pc' = [pc EXCEPT ![c] = "idle"]
  /\ data = 0 /\ file # Missing /\ Len(maps) < MaxMaps
  /\ maps' = Append(maps, [len |-> 0, mapping |-> "gone", open |-> TRUE])
  /\ UNCHANGED <<file, data, pos, reads, fault>>

(* The file is empty, or Stat or mmap failed: it is closed again.          *)
MapFails(c) ==
  /\ pc[c] \in {"idle", "map"} /\ pc' = [pc EXCEPT ![c] = "idle"]
  /\ data = 0 /\ file # Missing /\ Len(maps) < MaxMaps
  /\ maps' = Append(maps, [len |-> 0, mapping |-> "gone", open |-> FALSE])
  /\ UNCHANGED <<file, data, pos, reads, fault>>

MapFile(c) ==
  /\ pc[c] \in {"idle", "map"} /\ pc' = [pc EXCEPT ![c] = "idle"]
  /\ data = 0 /\ file \notin {Missing, 0} /\ Len(maps) < MaxMaps
  /\ maps' = Append(maps, [len |-> file, mapping |-> "live", open |-> TRUE])
  /\ data' = Len(maps) + 1
  /\ UNCHANGED <<file, pos, reads, fault>>

Map(c) == MapNothing(c) \/ MapFails(c) \/ MapFile(c)

Closed(map, mapping) == [len |-> map.len, mapping |-> mapping, open |-> FALSE]

(* Unmap.  Its fields are cleared even if munmap fails; then the mapping   *)
(* stays.  Remap goes on to Map if nothing failed.                         *)
Unmap(c) ==
  /\ \/ Goto(c, "idle", "idle")
     \/ Goto(c, "idle", "map")
  /\ IF data = 0 THEN UNCHANGED maps
     ELSE maps' = [maps EXCEPT ![data] = Closed(@, "gone")]
  /\ data' = 0
  /\ UNCHANGED <<file, pos, reads, fault>>

UnmapFails(c) ==
  /\ pc[c] = "idle"
  /\ data # 0
  /\ maps' = [maps EXCEPT ![data] = Closed(@, "stuck")]
  /\ data' = 0
  /\ UNCHANGED <<file, pc, pos, reads, fault>>

-----------------------------------------------------------------------------
(* The reads, and the page indices for them.                               *)
Length == IF data = 0 THEN 0 ELSE maps[data].len
Offsets(length) == {Page * k : k \in 0 .. length} \cap 0 .. length - 1
Pages(length) == 0 .. (length \div Page) - 1

RandomPageIndices(c) ==
  /\ pc[c] = "idle"
  /\ \E page \in Pages(Length) : index' = [index EXCEPT ![c] = page]
  /\ UNCHANGED <<file, store, pc, pos, on, left, fault>>

(* The slice is copied; the offsets follow from its length.                *)
Read(c, offsets) ==
  /\ data # 0
  /\ Goto(c, "idle", "read")
  /\ on' = [on EXCEPT ![c] = data]
  /\ left' = [left EXCEPT ![c] = offsets]
  /\ UNCHANGED <<file, store, pos, index, fault>>

TouchSequential(c) == Read(c, Offsets(Length))

MeasureReadsUnclamped(c) ==    \* faulty: no check of an index below 0
  Read(c, {off \in {Page * index[c]} : off < Length})

MeasureReadsUnchecked(c) == Read(c, {Page * index[c]} \cap Nat)    \* faulty: no check of the length

(* MeasureReadDurationAt, MeasureReadLatenciesAt: an index below 0 counts  *)
(* as 0, one past the end is skipped.                                      *)
MeasureReads(c) ==
  LET off == IF index[c] < 0 THEN 0 ELSE Page * index[c]
  IN  Read(c, {off} \cap 0 .. Length - 1)

(* MeasureRandomReadLatencies, MeasureRandomReads: one sample.             *)
MeasureRandomReads(c) == \E page \in Pages(Length) : Read(c, {Page * page})

Touch(c, off) ==
  /\ pc[c] = "read"
  /\ off \in left[c]
  /\ left' = [left EXCEPT ![c] = @ \ {off}]
  /\ fault' = IF maps[on[c]].mapping = "gone" THEN "unmapped"
              ELSE IF off >= file THEN "cut" ELSE fault
  /\ UNCHANGED <<file, store, pc, pos, on, index>>

ReadEnds(c) ==
  /\ Goto(c, "read", "idle")
  /\ left[c] = {}
  /\ UNCHANGED <<file, store, pos, reads, fault>>

Next ==
  /\ fault = "none"
  /\ \E c \in Callers :
       \/ EnsureFile(c) \/ Map(c) \/ Unmap(c) \/ UnmapFails(c)
       \/ RandomPageIndices(c) \/ TouchSequential(c) \/ MeasureReads(c) \/ MeasureRandomReads(c)
       \/ \E off \in left[c] : Touch(c, off)
       \/ ReadEnds(c)

Spec == Init /\ [][Next]_vars

-----------------------------------------------------------------------------
TypeOK ==
  /\ file \in Nat \cup {Missing}
  /\ maps \in Seq([len : Nat, mapping : {"live", "gone", "stuck"}, open : BOOLEAN])
  /\ data \in 0 .. Len(maps)
  /\ pc \in [Callers -> {"idle", "truncate", "write", "map", "read"}]
  /\ pos \in [Callers -> Nat] /\ on \in [Callers -> 0 .. Len(maps)]
  /\ left \in [Callers -> SUBSET Nat] /\ index \in [Callers -> Nat \cup {-1}]
  /\ fault \in {"none", "unmapped", "cut"}

(* However Map, Unmap and Remap interleave and fail, what was opened is    *)
(* closed again, but for the current file: no error path of Map and no     *)
(* Remap that loses to another Map leaks a handle or a mapping.            *)
NothingLeaks ==
  \A m \in 1 .. Len(maps) :
    IF m = data THEN maps[m].open /\ maps[m].mapping = "live"
                ELSE ~maps[m].open /\ maps[m].mapping # "live"

(* No read runs off the slice it copied, whatever the mapping its page     *)
(* indices were drawn for: the file may have been mapped anew and shorter. *)
WithinSlice == \A c \in Callers : \A off \in left[c] : off < maps[on[c]].len

(* EnsureFile may run again, and fail halfway, under a mapping of a file   *)
(* it made: what it cuts off are pages that begin past Size, which only an *)
(* older, larger file has.                                                 *)
CutOnlyIfLarger ==
  fault = "cut" =>
    \E c \in Callers : pc[c] = "read" /\ \E off \in Offsets(maps[on[c]].len) : off >= Size
=============================================================================
