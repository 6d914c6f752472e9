-------------------------- MODULE MmapStoreProofs --------------------------
(***************************************************************************)
(* Theorems about MmapStore, for any number of goroutines and of mappings, *)
(* any page size and any sizes of the file.                                *)
(***************************************************************************)
EXTENDS MmapStore, SequenceTheorems, TLAPS

USE SizesAssumption

Opened == [len : Nat, mapping : {"live", "gone", "stuck"}, open : BOOLEAN]

(* A read touches pages of the mapping it copied, and of no other.         *)
Touching ==
  \A c \in Callers :
    left[c] # {} => on[c] # 0 /\ left[c] \subseteq Offsets(maps[on[c]].len)

(* No step makes the file shorter than a mapping of it, but for cutting    *)
(* it to Size; once it exists it is not removed.                           *)
MadeWhole ==
  /\ \A c \in Callers : pc[c] \in {"truncate", "write"} => file # Missing
  /\ \A m \in 1 .. Len(maps) : file # Missing /\ (maps[m].len <= file \/ file >= Size)

(* With the properties themselves they are inductive.                      *)
IInv == TypeOK /\ NothingLeaks /\ Touching /\ MadeWhole /\ CutOnlyIfLarger

-----------------------------------------------------------------------------
(* Appending what a call of Map opened leaves the other mappings alone.    *)
LEMMA Opening ==
  ASSUME NEW s \in Seq(Opened), NEW e \in Opened
  PROVE  /\ Append(s, e) \in Seq(Opened)
         /\ Len(Append(s, e)) = Len(s) + 1 /\ Len(s) \in Nat
         /\ \A m \in 1 .. Len(s) : Append(s, e)[m] = s[m]
         /\ Append(s, e)[Len(s) + 1] = e
BY AppendProperties, LenProperties

(* Unmap closes one mapping, keeps its length and leaves the others alone. *)
LEMMA Closing ==
  ASSUME NEW s \in Seq(Opened), NEW i \in 1 .. Len(s), NEW how \in {"gone", "stuck"},
         NEW t, t = [s EXCEPT ![i] = Closed(s[i], how)]
  PROVE  /\ t \in Seq(Opened) /\ Len(t) = Len(s)
         /\ \A m \in 1 .. Len(s) : t[m] = IF m = i THEN Closed(s[i], how) ELSE s[m]
<1>1. s[i] \in Opened
  BY LenProperties
<1>2. Closed(s[i], how) \in Opened
  BY <1>1 DEF Opened, Closed
<1> QED
  BY <1>2, ExceptSeq

(* The page of an index drawn for a mapping lies within that mapping.      *)
LEMMA PageWithin ==
  ASSUME NEW length \in Nat, NEW page \in Pages(length)
  PROVE  page \in Nat /\ Page * page \in Offsets(length)
<1>1. /\ length \div Page \in Int /\ length % Page \in 0 .. Page - 1
      /\ length = Page * (length \div Page) + (length % Page)
  OBVIOUS
<1>2. page \in Nat /\ page + 1 <= length \div Page
  BY <1>1 DEF Pages
<1>3. Page * (page + 1) <= Page * (length \div Page)
  BY <1>1, <1>2
<1>4. Page * (page + 1) = Page * page + Page /\ Page * page \in Nat /\ page <= Page * page
  BY <1>2
<1>5. Page * page < length /\ page <= length
  <2> DEFINE end == Page * (length \div Page)
             off == Page * page
  <2>1. end \in Int /\ end <= length
    BY <1>1
  <2>2. off \in Nat /\ off + Page <= end /\ page <= off
    BY <1>3, <1>4
  <2> HIDE DEF end, off
  <2>3. off < length /\ page <= length
    BY <2>1, <2>2, <1>2
  <2> QED
    BY <2>3 DEF off
<1> QED
  BY <1>2, <1>4, <1>5 DEF Offsets

(* An index measured is a page's, if it is not past the end.               *)
LEMMA IndexWithin ==
  ASSUME NEW length \in Nat, NEW i \in Nat, Page * i < length
  PROVE  Page * i \in Offsets(length)
<1>1. Page * i \in Nat /\ i <= Page * i
  OBVIOUS
<1> QED
  BY <1>1 DEF Offsets

(* The initial state satisfies the inductive invariant.                    *)
LEMMA InitInv == Init => IInv
<1> SUFFICES ASSUME Init PROVE IInv
  OBVIOUS
<1> USE DEF Init
<1>1. maps \in Seq([len : Nat, mapping : {"live", "gone", "stuck"}, open : BOOLEAN])
      /\ Len(maps) = 0
  BY EmptySeq
<1>2. TypeOK
  BY <1>1 DEF TypeOK
<1>3. NothingLeaks /\ Touching /\ MadeWhole /\ CutOnlyIfLarger
  BY <1>1 DEF NothingLeaks, Touching, MadeWhole, CutOnlyIfLarger
<1> QED
  BY <1>2, <1>3 DEF IInv

(* What TypeOK says of each mapping.                                       *)
LEMMA MapsOpened ==
  ASSUME TypeOK
  PROVE  /\ maps \in Seq(Opened) /\ Len(maps) \in Nat
         /\ \A m \in 1 .. Len(maps) : maps[m] \in Opened /\ maps[m].len \in Nat
<1>1. maps \in Seq(Opened)
  BY DEF TypeOK, Opened
<1>2. Len(maps) \in Nat /\ \A m \in 1 .. Len(maps) : maps[m] \in Opened
  BY <1>1, LenProperties
<1> QED
  BY <1>1, <1>2 DEF Opened

PcOK == pc \in [Callers -> {"idle", "truncate", "write", "map", "read"}]

(* A step of EnsureFile preserves the invariant if it makes the file not   *)
(* shorter than Size or than it was.                                       *)
LEMMA FileStep ==
  ASSUME IInv, fault = "none", UNCHANGED <<store, reads, fault>>,
         PcOK', pos' \in [Callers -> Nat], file' \in Nat \cup {Missing},
         file # Missing => file' # Missing /\ (file' >= file \/ file' >= Size),
         \A c \in Callers : pc'[c] \in {"truncate", "write"} => file' # Missing
  PROVE  IInv'
<1> USE DEF IInv, store, reads, PcOK
<1>1. TypeOK'
  BY DEF TypeOK
<1>2. NothingLeaks' /\ Touching'
  BY DEF NothingLeaks, Touching
<1>3. MadeWhole'
  <2>1. ASSUME NEW m \in 1 .. Len(maps)
        PROVE  file' # Missing /\ (maps[m].len <= file' \/ file' >= Size)
    <3>1. file \in Nat /\ file' \in Nat /\ maps[m].len \in Nat
      BY MapsOpened DEF MadeWhole, TypeOK
    <3> QED
      BY <3>1 DEF MadeWhole
  <2> QED
    BY <2>1 DEF MadeWhole
<1>4. CutOnlyIfLarger'
  BY DEF CutOnlyIfLarger
<1> QED
  BY <1>1, <1>2, <1>3, <1>4

(* A step of Map or Unmap preserves the invariant if the mappings keep     *)
(* their lengths, a new one has the file's, and nothing leaks.             *)
LEMMA StoreStep ==
  ASSUME IInv, fault = "none", UNCHANGED <<file, pos, reads, fault>>, PcOK',
         \A c \in Callers : pc'[c] \in {"truncate", "write"} => pc[c] = pc'[c],
         maps' \in Seq(Opened), data' \in 0 .. Len(maps'), Len(maps) <= Len(maps'),
         \A m \in 1 .. Len(maps) : maps'[m].len = maps[m].len,
         \A m \in 1 .. Len(maps') : m > Len(maps) => file # Missing /\ maps'[m].len <= file,
         NothingLeaks'
  PROVE  IInv'
<1> USE DEF IInv, reads, PcOK
<1>1. Len(maps) \in Nat /\ Len(maps') \in Nat
  BY MapsOpened, LenProperties
<1>2. TypeOK'
  <2>1. on \in [Callers -> 0 .. Len(maps')]
    BY <1>1 DEF TypeOK
  <2> QED
    BY <2>1 DEF TypeOK, Opened
<1>3. Touching'
  <2>1. \A c \in Callers : on[c] # 0 => on[c] \in 1 .. Len(maps)
    BY <1>1 DEF TypeOK
  <2> QED
    BY <2>1 DEF Touching
<1>4. MadeWhole'
  BY <1>1 DEF MadeWhole
<1>5. CutOnlyIfLarger'
  BY DEF CutOnlyIfLarger
<1> QED
  BY <1>2, <1>3, <1>4, <1>5

(* A read begins with offsets of the mapping it copies.                    *)
LEMMA ReadStep ==
  ASSUME IInv, fault = "none", NEW c \in Callers, NEW offsets \in SUBSET Offsets(Length),
         Read(c, offsets)
  PROVE  IInv'
<1> USE DEF IInv, Read, Goto, store
<1>1. data # 0 /\ data \in 1 .. Len(maps) /\ offsets \subseteq Nat /\ Length = maps[data].len
  BY MapsOpened DEF TypeOK, Offsets, Length
<1>2. TypeOK'
  BY <1>1 DEF TypeOK
<1>3. NothingLeaks'
  BY DEF NothingLeaks
<1>4. Touching'
  BY <1>1 DEF Touching, TypeOK
<1>5. MadeWhole' /\ CutOnlyIfLarger'
  BY DEF MadeWhole, CutOnlyIfLarger, TypeOK
<1> QED
  BY <1>2, <1>3, <1>4, <1>5

(* Every step of every goroutine preserves the inductive invariant.        *)
LEMMA StepInv == IInv /\ [Next]_vars => IInv'
<1> SUFFICES ASSUME IInv, Next PROVE IInv'
  <2> SUFFICES ASSUME IInv, UNCHANGED vars PROVE IInv'
    OBVIOUS
  <2> QED
    BY DEF vars, store, reads, IInv, TypeOK, NothingLeaks, Touching, MadeWhole, CutOnlyIfLarger
<1> PICK c \in Callers :
       \/ EnsureFile(c) \/ Map(c) \/ Unmap(c) \/ UnmapFails(c)
       \/ RandomPageIndices(c) \/ TouchSequential(c) \/ MeasureReads(c) \/ MeasureRandomReads(c)
       \/ \E off \in left[c] : Touch(c, off)
       \/ ReadEnds(c)
  BY DEF Next
<1>0. fault = "none" /\ TypeOK /\ NothingLeaks /\ Touching /\ MadeWhole /\ CutOnlyIfLarger
  BY DEF Next, IInv
<1>len. Len(maps) \in Nat /\ Length \in Nat
  BY <1>0, MapsOpened DEF Length, TypeOK
<1>1. CASE EnsureFile(c)
  <2> USE <1>0 DEF TypeOK, Goto, PcOK, MadeWhole
  <2>1. CASE OpenFile(c)
    BY <2>1, FileStep DEF OpenFile
  <2>2. CASE Truncate(c)
    BY <2>2, FileStep DEF Truncate
  <2>3. CASE WriteAt(c)
    BY <2>3, FileStep DEF WriteAt
  <2>4. CASE Ensured(c)
    BY <2>4, FileStep DEF Ensured
  <2>5. CASE EnsureFails(c)
    BY <2>5, FileStep DEF EnsureFails
  <2> QED
    BY <1>1, <2>1, <2>2, <2>3, <2>4, <2>5 DEF EnsureFile
<1>2. CASE Map(c)
  <2>1. CASE MapNothing(c)
    BY <2>1, <1>0, <1>len, StoreStep, MapsOpened
    DEF MapNothing, store, TypeOK, NothingLeaks, PcOK
  <2> SUFFICES ASSUME MapFails(c) \/ MapFile(c) PROVE IInv'
    BY <1>2, <2>1 DEF Map
  <2> DEFINE e == IF MapFails(c) THEN [len |-> 0, mapping |-> "gone", open |-> FALSE]
                  ELSE [len |-> file, mapping |-> "live", open |-> TRUE]
  <2>2. file \in Nat /\ e \in Opened /\ data = 0 /\ e.len <= file
    BY <1>0 DEF MapFails, MapFile, TypeOK, Opened
  <2>3. maps' = Append(maps, e)
    BY DEF MapFails, MapFile
  <2>4. data' = IF e.open THEN Len(maps) + 1 ELSE 0
    BY <2>2 DEF MapFails, MapFile
  <2>5. e.open = (e.mapping = "live")
    OBVIOUS
  <2> HIDE DEF e
  <2>6. /\ maps' \in Seq(Opened) /\ Len(maps') = Len(maps) + 1
        /\ \A m \in 1 .. Len(maps) : maps'[m] = maps[m]
        /\ maps'[Len(maps) + 1] = e
    BY <2>2, <2>3, <1>0, MapsOpened, Opening
  <2>7. e.open \in BOOLEAN /\ e.mapping \in {"live", "gone", "stuck"}
    BY <2>2 DEF Opened
  <2>8. NothingLeaks'
    <3> SUFFICES ASSUME NEW m \in 1 .. Len(maps')
                 PROVE  IF m = data' THEN maps'[m].open /\ maps'[m].mapping = "live"
                                     ELSE ~maps'[m].open /\ maps'[m].mapping # "live"
      BY DEF NothingLeaks
    <3>1. CASE m = Len(maps) + 1
      <4>1. maps'[m] = e /\ (m = data' <=> e.open)
        BY <2>4, <2>6, <2>7, <3>1, <1>len
      <4> QED
        BY <4>1, <2>5, <2>7
    <3>2. CASE m # Len(maps) + 1
      <4>1. m \in 1 .. Len(maps) /\ maps'[m] = maps[m] /\ m # data /\ m # data'
        BY <2>2, <2>4, <2>6, <2>7, <3>2, <1>len
      <4> QED
        BY <4>1, <1>0, Zenon DEF NothingLeaks
    <3> QED
      BY <3>1, <3>2
  <2>9. data' \in 0 .. Len(maps')
    BY <2>4, <2>6, <1>len
  <2>10. \A m \in 1 .. Len(maps') : m > Len(maps) => file # Missing /\ maps'[m].len <= file
    BY <2>2, <2>6, <1>len
  <2>11. UNCHANGED <<file, pos, reads, fault>> /\ PcOK'
         /\ \A p \in Callers : pc'[p] \in {"truncate", "write"} => pc[p] = pc'[p]
    BY <1>0 DEF MapFails, MapFile, PcOK, TypeOK
  <2> QED
    BY <1>0, <1>len, <2>6, <2>8, <2>9, <2>10, <2>11, StoreStep
<1>3. CASE Unmap(c) \/ UnmapFails(c)
  <2>1. UNCHANGED <<file, pos, reads, fault>> /\ PcOK' /\ data' = 0
         /\ \A p \in Callers : pc'[p] \in {"truncate", "write"} => pc[p] = pc'[p]
    BY <1>3, <1>0 DEF Unmap, UnmapFails, Goto, PcOK, TypeOK
  <2>2. CASE data = 0
    <3>1. maps' = maps
      BY <1>3, <2>2 DEF Unmap, UnmapFails
    <3>2. NothingLeaks'
      BY <1>0, <2>1, <2>2, <3>1 DEF NothingLeaks
    <3> QED
      BY <1>0, <1>len, <2>1, <3>1, <3>2, MapsOpened, StoreStep
  <2>3. CASE data # 0
    <3>1. PICK how \in {"gone", "stuck"} : maps' = [maps EXCEPT ![data] = Closed(maps[data], how)]
      BY <1>3, <2>3 DEF Unmap, UnmapFails
    <3>2. data \in 1 .. Len(maps)
      BY <1>0, <1>len, <2>3 DEF TypeOK
    <3>3. /\ maps' \in Seq(Opened) /\ Len(maps') = Len(maps)
          /\ \A m \in 1 .. Len(maps) :
                maps'[m] = IF m = data THEN Closed(maps[data], how) ELSE maps[m]
      BY <1>0, <3>1, <3>2, MapsOpened, Closing
    <3>4. NothingLeaks'
      BY <1>0, <1>len, <2>1, <3>2, <3>3 DEF NothingLeaks, Closed
    <3>5. \A m \in 1 .. Len(maps) : maps'[m].len = maps[m].len
      BY <3>3 DEF Closed
    <3> QED
      BY <1>0, <1>len, <2>1, <3>3, <3>4, <3>5, StoreStep
  <2> QED
    BY <2>2, <2>3
<1>4. CASE RandomPageIndices(c)
  <2>1. index' \in [Callers -> Nat \cup {-1}]
    BY <1>0, <1>4, <1>len, PageWithin DEF RandomPageIndices, TypeOK
  <2> QED
    BY <2>1, <1>0, <1>4
    DEF RandomPageIndices, IInv, TypeOK, NothingLeaks, Touching, MadeWhole, CutOnlyIfLarger, store
<1>5. CASE TouchSequential(c)
  BY <1>0, <1>5, ReadStep DEF TouchSequential
<1>6. CASE MeasureReads(c)
  <2> DEFINE off == IF index[c] < 0 THEN 0 ELSE Page * index[c]
  <2>1. index[c] \in Nat \cup {-1}
    BY <1>0 DEF TypeOK
  <2>2. {off} \cap 0 .. Length - 1 \subseteq Offsets(Length)
    <3>1. CASE index[c] < 0
      <4>1. off = Page * 0
        BY <3>1
      <4> QED
        BY <4>1, <1>len, IndexWithin
    <3>2. CASE ~(index[c] < 0)
      <4>1. index[c] \in Nat /\ off = Page * index[c]
        BY <3>2, <2>1
      <4>2. ASSUME off \in 0 .. Length - 1 PROVE off \in Offsets(Length)
        <5>1. Page * index[c] < Length
          BY <4>1, <4>2, <1>len
        <5> QED
          BY <4>1, <5>1, <1>len, IndexWithin
      <4> HIDE DEF off
      <4> QED
        BY <4>2
    <3> QED
      BY <3>1, <3>2
  <2> QED
    BY <1>0, <1>6, <2>2, ReadStep DEF MeasureReads
<1>7. CASE MeasureRandomReads(c)
  BY <1>0, <1>7, <1>len, ReadStep, PageWithin DEF MeasureRandomReads
<1>8. ASSUME NEW off \in left[c], Touch(c, off) PROVE IInv'
  <2>0. left[c] # {} /\ on[c] \in 0 .. Len(maps)
    BY <1>0, <1>8 DEF TypeOK
  <2>1. on[c] # 0 /\ on[c] \in 1 .. Len(maps) /\ off \in Offsets(maps[on[c]].len)
    BY <1>0, <1>len, <1>8, <2>0 DEF Touching
  <2>2. TypeOK' /\ NothingLeaks' /\ MadeWhole'
    BY <1>0, <1>8 DEF Touch, TypeOK, NothingLeaks, MadeWhole, store
  <2>3. Touching'
    BY <1>0, <1>8 DEF Touch, Touching, TypeOK, store
  <2>4. ASSUME fault' = "cut" PROVE off >= Size
    <3>1. off >= file /\ off < maps[on[c]].len /\ off \in Nat
      BY <1>0, <1>8, <2>1, <2>4, MapsOpened DEF Touch, Offsets
    <3>2. file \in Nat /\ maps[on[c]].len \in Nat /\ (maps[on[c]].len <= file \/ file >= Size)
      BY <1>0, <2>1, MapsOpened DEF MadeWhole, TypeOK
    <3> QED
      BY <3>1, <3>2
  <2>5. CutOnlyIfLarger'
    BY <1>8, <2>1, <2>4 DEF Touch, CutOnlyIfLarger, store
  <2> QED
    BY <2>2, <2>3, <2>5 DEF IInv
<1>9. CASE ReadEnds(c)
  BY <1>9, <1>0 DEF ReadEnds, Goto, IInv, TypeOK, NothingLeaks, Touching, MadeWhole,
    CutOnlyIfLarger, store, reads
<1> QED
  BY <1>1, <1>2, <1>3, <1>4, <1>5, <1>6, <1>7, <1>8, <1>9

(* The inductive invariant holds of every reachable state.                 *)
LEMMA Invariance == Spec => []IInv
  BY InitInv, StepInv, PTL DEF Spec

-----------------------------------------------------------------------------
(* Offsets, indices and mappings keep their types.                         *)
THEOREM TypeCorrect == Spec => []TypeOK
  BY Invariance, PTL DEF IInv

(* No error path of Map, no Unmap and no Remap that loses to another Map   *)
(* leaves a handle or a mapping behind (store.go:74-134).                  *)
THEOREM Closes == Spec => []NothingLeaks
  BY Invariance, PTL DEF IInv

(* Whatever mapping a page index was drawn for, what a read touches lies   *)
(* in the slice it copied, for every page size (store.go:137-265).         *)
THEOREM ReadsWithinSlice == Spec => []WithinSlice
<1>1. IInv => WithinSlice
  <2> SUFFICES ASSUME IInv, NEW c \in Callers, NEW off \in left[c]
               PROVE  off < maps[on[c]].len
    BY DEF WithinSlice
  <2>0. left[c] # {} /\ on[c] \in 0 .. Len(maps) /\ Len(maps) \in Nat
    BY MapsOpened DEF IInv, TypeOK
  <2>1. on[c] \in 1 .. Len(maps) /\ off \in Offsets(maps[on[c]].len)
    BY <2>0 DEF IInv, Touching
  <2>2. maps[on[c]].len \in Nat
    BY <2>1, MapsOpened DEF IInv
  <2> QED
    BY <2>1, <2>2 DEF Offsets
<1> QED
  BY Invariance, <1>1, PTL

(* EnsureFile cuts nothing off but pages that begin past Size, whatever    *)
(* the sizes and however often it fails halfway (store.go:37-71).          *)
THEOREM CutsOnlyLarger == Spec => []CutOnlyIfLarger
  BY Invariance, PTL DEF IInv
=============================================================================
