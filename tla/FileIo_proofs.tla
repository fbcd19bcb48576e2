--------------------------- MODULE FileIo_proofs ---------------------------
(***************************************************************************)
(* Proofs about FileIo: the index and the relative store are on disk after *)
(* every statement, an indexed file implements KeyedFile, a sequential     *)
(* file gives back what was written, and a scan misses no record, for any  *)
(* records, key widths and number of statements and run units.             *)
(***************************************************************************)
EXTENDS FileIo, FiniteSetTheorems, WellFoundedInduction, TLAPS

(* What the steps below need of the state: the side files hold what the    *)
(* maps hold, and an indexed file has neither a reader nor a store by      *)
(* record number.                                                          *)
FileInv ==
  /\ IndexIsDurable
  /\ RelativeImageIsStore
  /\ org = "INDEXED" => reader = None /\ rel = None

-----------------------------------------------------------------------------
(* The pieces of CobolFileIo                                               *)

(* A change written through leaves the map and its side file equal. *)
LEMMA StoreIndexDurable ==
  ASSUME NEW m, NEW n, StoreIndex(m, n), RelativeImageIsStore
  PROVE  IndexIsDurable' /\ RelativeImageIsStore' /\ rel' = rel
BY DEF StoreIndex, PersistIndex, IndexIsDurable, RelativeImageIsStore

(* Loading the side file is not a change. *)
LEMMA EnsureIndexDurable ==
  ASSUME NEW n, EnsureIndex(n), IndexIsDurable, RelativeImageIsStore
  PROVE  IndexIsDurable' /\ RelativeImageIsStore' /\ rel' = rel
BY DEF EnsureIndex, Loaded, IndexIsDurable, RelativeImageIsStore, disk

LEMMA StoreRelativeDurable ==
  ASSUME NEW m, StoreRelative(m), IndexIsDurable
  PROVE  IndexIsDurable' /\ RelativeImageIsStore'
BY DEF StoreRelative, IndexIsDurable, RelativeImageIsStore

LEMMA SameMapsDurable ==
  ASSUME UNCHANGED <<idx, rel, disk>>, IndexIsDurable, RelativeImageIsStore
  PROVE  IndexIsDurable' /\ RelativeImageIsStore' /\ rel' = rel
BY DEF IndexIsDurable, RelativeImageIsStore, disk

(* The reader and the relative store of an indexed file stay unused. *)
LEMMA FileInvInit == Init => FileInv
BY DEF Init, FileInv, IndexIsDurable, RelativeImageIsStore

LEMMA OpenInv ==
  ASSUME FileInv, NEW mode \in Modes, Open(mode) PROVE FileInv'
<1>1. CASE org = "RELATIVE"
  <2>1. OpenRelative(mode) /\ org' = org  BY <1>1 DEF Open, RtOpen
  <2>2. CASE mode = "OUTPUT"
    <3>1. StoreRelative(NoRecords)  BY <2>1, <2>2 DEF OpenRelative
    <3> QED BY <1>1, <2>1, <3>1, StoreRelativeDurable DEF FileInv
  <2>3. CASE mode # "OUTPUT"
    <3>1. UNCHANGED <<idx, rel, disk>>
      BY <2>1, <2>3 DEF OpenRelative, OpenMissing, maps
    <3> QED BY <1>1, <2>1, <3>1, SameMapsDurable DEF FileInv
  <2> QED BY <2>2, <2>3
<1>2. CASE org = "INDEXED"
  <2>1. OpenIndexed(mode) /\ org' = org  BY <1>2 DEF Open, RtOpen
  <2>2. reader' = reader  BY <2>1 DEF OpenIndexed, OpenMissing, handles
  <2>3. CASE UNCHANGED <<idx, rel, disk>>
    BY <1>2, <2>1, <2>2, <2>3, SameMapsDurable DEF FileInv
  <2>4. CASE EnsureIndex(KeyLen)
    BY <1>2, <2>1, <2>2, <2>4, EnsureIndexDurable DEF FileInv
  <2>5. CASE idx' = NoRecords /\ idxFile' = NoFile /\ UNCHANGED <<rel, relFile>>
    BY <1>2, <2>1, <2>2, <2>5
    DEF FileInv, IndexIsDurable, RelativeImageIsStore, NoFile
  <2> QED BY <2>1, <2>3, <2>4, <2>5 DEF OpenIndexed, OpenMissing, maps
<1>3. CASE org \notin {"RELATIVE", "INDEXED"}
  <2>1. OpenSequential(mode) /\ org' = org  BY <1>3 DEF Open, RtOpen
  <2>2. UNCHANGED <<idx, rel, idxFile, relFile>>
    BY <2>1 DEF OpenSequential, OpenMissing, maps, disk
  <2> QED BY <1>3, <2>1, <2>2 DEF FileInv, IndexIsDurable, RelativeImageIsStore
<1> QED BY <1>1, <1>2, <1>3

LEMMA CloseInv == ASSUME FileInv, Close PROVE FileInv'
<1>1. RtClose /\ org' = org  BY DEF Close
<1>2. IndexIsDurable'
  BY <1>1 DEF RtClose, PersistIndex, IndexIsDurable, FileInv
<1> QED BY <1>1, <1>2 DEF RtClose, FileInv, RelativeImageIsStore

LEMMA WriteInv ==
  ASSUME FileInv, NEW rec, NEW n, Write(rec, n) PROVE FileInv'
<1> DEFINE image == Image(rec)
           arg == KeyArgument(n)
<1>1. RtWrite(image, arg) /\ org' = org  BY DEF Write
<1>2. reader' = reader  BY <1>1 DEF RtWrite, handles
<1> HIDE DEF image, arg
<1>3. CASE UNCHANGED <<idx, rel, idxFile, relFile>>
  BY <1>1, <1>2, <1>3 DEF FileInv, IndexIsDurable, RelativeImageIsStore
<1>4. CASE RelativeStore /\ StoreRelative(Put(rel, arg, image))
  BY <1>1, <1>2, <1>4, StoreRelativeDurable DEF FileInv, RelativeStore
<1>5. CASE EnsureIndex(arg)
  BY <1>1, <1>2, <1>5, EnsureIndexDurable DEF FileInv
<1>6. CASE StoreIndex(Put(Loaded, KeyOf(image, arg), DataOf(image, arg)), arg)
  BY <1>1, <1>2, <1>6, StoreIndexDurable DEF FileInv
<1> QED BY <1>1, <1>3, <1>4, <1>5, <1>6 DEF RtWrite, maps, disk

LEMMA RewriteInv ==
  ASSUME FileInv, NEW rec, NEW n, Rewrite(rec, n) PROVE FileInv'
<1> DEFINE arg == KeyArgument(n)
<1>1. RtRewrite(rec, arg) /\ org' = org  BY DEF Rewrite
<1>2. reader' = reader  BY <1>1 DEF RtRewrite, handles
<1> HIDE DEF arg
<1>3. CASE UNCHANGED <<maps, disk>>
  BY <1>1, <1>2, <1>3 DEF FileInv, IndexIsDurable, RelativeImageIsStore, maps, disk
<1>4. CASE RelativeStore /\ StoreRelative(Put(rel, arg, rec))
  BY <1>1, <1>2, <1>4, StoreRelativeDurable DEF FileInv, RelativeStore
<1>5. CASE EnsureIndex(arg)
  BY <1>1, <1>2, <1>5, EnsureIndexDurable DEF FileInv
<1>6. CASE StoreIndex(Put(Loaded, KeyOf(rec, arg), DataOf(rec, arg)), arg)
  BY <1>1, <1>2, <1>6, StoreIndexDurable DEF FileInv
<1> QED BY <1>1, <1>3, <1>4, <1>5, <1>6 DEF RtRewrite

LEMMA DeleteInv ==
  ASSUME FileInv, NEW k, NEW n, Delete(k, n) PROVE FileInv'
<1>0. org' = org  BY DEF Delete
<1>1. CASE org = "INDEXED" /\ RtDelete(k, KeyLen)
  <2>1. reader' = reader  BY <1>1 DEF RtDelete, handles
  <2>2. StoreIndex(Without(Loaded, k), KeyLen) \/ EnsureIndex(KeyLen)
    BY <1>1 DEF RtDelete
  <2> QED BY <1>0, <2>1, <2>2, StoreIndexDurable, EnsureIndexDurable DEF FileInv
<1>2. CASE org = "RELATIVE" /\ RtDeleteRelative(n)
  <2>1. CASE StoreRelative(Without(rel, n))
    BY <1>0, <1>2, <2>1, StoreRelativeDurable DEF FileInv
  <2>2. CASE UNCHANGED <<maps, disk>>
    BY <1>0, <1>2, <2>2, SameMapsDurable DEF FileInv, maps
  <2> QED BY <1>2, <2>1, <2>2 DEF RtDeleteRelative
<1> QED BY <1>1, <1>2 DEF Delete

(* START and the reads move cursors and readers only. *)
LEMMA ReadsInv ==
  ASSUME FileInv,
         \/ \E op \in Relations, k \in Keys : Start(op, k)
         \/ ReadNext
         \/ \E k \in Keys : ReadKey(k)
         \/ \E n \in Rrns : ReadRelative(n)
  PROVE  FileInv'
<1>1. org' = org /\ UNCHANGED <<idx, rel, disk>>
  BY DEF Start, RtStart, ReadNext, ReadKey, ReadRelative, maps
<1>2. reader = None => reader' = None
  BY DEF Start, RtStart, ReadNext, ReadKey, ReadRelative, handles
<1> QED BY <1>1, <1>2, SameMapsDurable DEF FileInv

LEMMA NextRunUnitInv == ASSUME FileInv, NextRunUnit PROVE FileInv'
BY DEF NextRunUnit, FileInv, IndexIsDurable, RelativeImageIsStore

LEMMA FileInvStep == FileInv /\ [Next]_vars => FileInv'
<1> SUFFICES ASSUME FileInv, [Next]_vars PROVE FileInv'
  OBVIOUS
<1>1. CASE UNCHANGED vars
  BY <1>1 DEF vars, handles, maps, disk, FileInv, IndexIsDurable, RelativeImageIsStore
<1>2. CASE Next
  BY <1>2, OpenInv, CloseInv, WriteInv, RewriteInv, DeleteInv, ReadsInv,
     NextRunUnitInv DEF Next
<1> QED BY <1>1, <1>2

LEMMA FileInvariance == Spec => []FileInv
BY FileInvInit, FileInvStep, PTL DEF Spec

(* persistIndex and persistRelative are called on every path that changes  *)
(* a map: no record a program was told it wrote is lost with the run unit, *)
(* and the files the comparison reads are the ones the program saw.        *)
THEOREM FilesAreDurable == Spec => [](IndexIsDurable /\ RelativeImageIsStore)
<1>1. FileInv => IndexIsDurable /\ RelativeImageIsStore  BY DEF FileInv
<1> QED BY <1>1, FileInvariance, PTL

(* The half of it about persistRelative: the .rel image is the store by    *)
(* record number after every statement.                                    *)
THEOREM RelativeFileIsDurable == Spec => []RelativeImageIsStore
<1>1. FileInv => RelativeImageIsStore  BY DEF FileInv
<1> QED BY <1>1, FileInvariance, PTL

-----------------------------------------------------------------------------
(* An indexed file implements KeyedFile                                    *)

(* The maps of an indexed file are functions from keys to data.            *)
Mapped ==
  org = "INDEXED" => /\ idx # None => idx \in IndexMaps
                     /\ idxFile.there => idxFile.entries \in IndexMaps

LEMMA EmptyMap == NoRecords \in IndexMaps /\ NoRecords = KF!Empty
<1>1. NoRecords \in [{} -> DataPart]  BY DEF NoRecords
<1>2. {} \in SUBSET Keys  OBVIOUS
<1>3. NoRecords = KF!Empty  BY DEF NoRecords, KF!Empty
<1> QED BY <1>1, <1>2, <1>3 DEF IndexMaps

LEMMA PutMap ==
  ASSUME NEW m \in IndexMaps, NEW k \in Keys, NEW d \in DataPart
  PROVE  Put(m, k, d) \in IndexMaps
<1>1. PICK S \in SUBSET Keys : m \in [S -> DataPart]  BY DEF IndexMaps
<1>2. Put(m, k, d) \in [S \cup {k} -> DataPart]  BY <1>1 DEF Put
<1> QED BY <1>2 DEF IndexMaps

LEMMA WithoutMap ==
  ASSUME NEW m \in IndexMaps, NEW k PROVE Without(m, k) \in IndexMaps
<1>1. PICK S \in SUBSET Keys : m \in [S -> DataPart]  BY DEF IndexMaps
<1>2. Without(m, k) \in [S \ {k} -> DataPart]  BY <1>1 DEF Without
<1> QED BY <1>2 DEF IndexMaps

(* keyOf and dataOf split a record area into a key and its data. *)
LEMMA SplitRecord ==
  ASSUME NEW rec \in Records
  PROVE  KeyOf(rec, KeyLen) \in Keys /\ DataOf(rec, KeyLen) \in DataPart
<1>1. rec \in [1..RecLen -> Chars]  BY FileIoAssumption
<1>2. /\ RecLen \in Nat /\ KeyLen \in Nat /\ KeyLen < RecLen /\ 0 \in Chars
  BY FileIoAssumption
<1>3. rec \in Seq(Chars) /\ Len(rec) = RecLen  BY <1>1, <1>2
<1>4. KeyOf(rec, KeyLen) \in Keys
  BY <1>2, <1>3 DEF KeyOf, Pad, Keys
<1>5. DataOf(rec, KeyLen) = SubSeq(rec, KeyLen + 1, RecLen)
  BY <1>2, <1>3 DEF DataOf
<1>6. DataOf(rec, KeyLen) = [i \in 1..RecLen - KeyLen |-> rec[i + KeyLen]]
  BY <1>2, <1>3, <1>5
<1>7. \A i \in 1..RecLen - KeyLen : rec[i + KeyLen] \in Chars
  BY <1>1, <1>2
<1> QED BY <1>4, <1>6, <1>7 DEF DataPart

(* The records a statement finds are the abstract file's. *)
LEMMA LoadedRecords ==
  ASSUME org = "INDEXED", Mapped
  PROVE  Loaded \in IndexMaps /\ Loaded = KF!InFile /\ Loaded = StoredOrEmpty
<1>1. None \notin IndexMaps  BY FileIoAssumption
<1> QED BY <1>1, EmptyMap DEF Mapped, Loaded, KF!InFile, Stored, StoredOrEmpty

LEMMA StoreIndexContent ==
  ASSUME org = "INDEXED", org' = org, NEW m \in IndexMaps, NEW n, StoreIndex(m, n)
  PROVE  Mapped' /\ Stored' = m
BY DEF StoreIndex, PersistIndex, Mapped, Stored

(* Loading the index shows the same records, or makes an empty file. *)
LEMMA EnsureIndexContent ==
  ASSUME org = "INDEXED", org' = org, Mapped, NEW n, EnsureIndex(n)
  PROVE  Mapped' /\ (Stored' = Stored \/ (Stored = None /\ Stored' = NoRecords))
BY EmptyMap DEF EnsureIndex, Loaded, Mapped, Stored, disk

LEMMA SameContent ==
  ASSUME org' = org, Mapped, UNCHANGED <<idx, disk>>
  PROVE  Mapped' /\ Stored' = Stored
BY DEF Mapped, Stored, disk

(* A step of an indexed file, seen as a step of the abstract one. *)
LEMMA QuietStep ==
  ASSUME org = "INDEXED", org' = org, NEW v, NEW s,
         Stored' = Stored \/ (Stored = None /\ Stored' = NoRecords),
         verb' = v, status' = s
  PROVE  KF!Quiet(v, s)
BY EmptyMap DEF KF!Quiet

LEMMA ChangeStep ==
  ASSUME org = "INDEXED", org' = org, NEW v, NEW m,
         Stored' = m, verb' = v, status' = "00"
  PROVE  KF!Change(v, m)
BY DEF KF!Change

Implements == Mapped' /\ KF!Next

LEMMA OpenImplements ==
  ASSUME FileInv, Mapped, org = "INDEXED", NEW mode \in Modes, Open(mode)
  PROVE  Implements
<1>1. OpenIndexed(mode) /\ org' = org /\ verb' = "OPEN"  BY DEF Open, RtOpen
<1>2. CASE mode # "OUTPUT" /\ idx = None /\ ~idxFile.there /\ OpenMissing
  <2>1. Mapped' /\ Stored' = Stored
    BY <1>1, <1>2, SameContent DEF OpenMissing, maps
  <2>2. Stored = None  BY <1>2 DEF Stored
  <2>3. KF!Quiet("OPEN", "35")  BY <1>1, <1>2, <2>1, QuietStep DEF OpenMissing
  <2> QED BY <2>1, <2>2, <2>3 DEF Implements, KF!Next, KF!Open
<1>3. CASE idx' = NoRecords /\ idxFile' = NoFile /\ status' = "00"
  <2>1. Mapped' /\ Stored' = NoRecords
    BY <1>1, <1>3, EmptyMap DEF Mapped, Stored, NoFile
  <2>2. KF!Change("OPEN", NoRecords)  BY <1>1, <1>3, <2>1, ChangeStep
  <2> QED BY <2>1, <2>2, EmptyMap DEF Implements, KF!Next, KF!Open
<1>4. CASE /\ idx # None \/ idxFile.there
           /\ EnsureIndex(KeyLen) /\ status' = "00"
  <2>1. Mapped' /\ (Stored' = Stored \/ (Stored = None /\ Stored' = NoRecords))
    BY <1>1, <1>4, EnsureIndexContent
  <2>2. KF!Quiet("OPEN", "00")  BY <1>1, <1>4, <2>1, QuietStep
  <2>3. None \notin IndexMaps  BY FileIoAssumption
  <2>4. Stored # None  BY <1>4, <2>3 DEF Stored, Mapped
  <2> QED BY <2>1, <2>2, <2>4 DEF Implements, KF!Next, KF!Open
<1> QED BY <1>1, <1>2, <1>3, <1>4 DEF OpenIndexed

LEMMA CloseImplements ==
  ASSUME FileInv, Mapped, org = "INDEXED", Close PROVE Implements
<1>1. /\ RtClose /\ org' = org /\ verb' = "CLOSE"
      /\ idx' = idx /\ status' = "00"
  BY DEF Close, RtClose
<1>2. Mapped' /\ Stored' = Stored
  BY <1>1 DEF RtClose, PersistIndex, Mapped, Stored
<1>3. KF!Quiet("CLOSE", "00")  BY <1>1, <1>2, QuietStep
<1> QED BY <1>2, <1>3 DEF Implements, KF!Next, KF!Close

LEMMA WriteImplements ==
  ASSUME FileInv, Mapped, org = "INDEXED", NEW rec \in Records, NEW n, Write(rec, n)
  PROVE  Implements
<1> DEFINE k == KeyOf(rec, KeyLen)
           d == DataOf(rec, KeyLen)
<1>1. RtWrite(rec, KeyLen) /\ org' = org /\ verb' = "WRITE"
  BY DEF Write, Image, KeyArgument
<1>2. ~RelativeStore /\ KeyLen > 0
  BY FileIoAssumption DEF FileInv, RelativeStore
<1>3. k \in Keys /\ d \in DataPart  BY SplitRecord
<1>4. Loaded \in IndexMaps /\ Loaded = KF!InFile  BY LoadedRecords
<1>5. \/ k \in DOMAIN Loaded /\ EnsureIndex(KeyLen) /\ status' = "22"
      \/ k \notin DOMAIN Loaded /\ StoreIndex(Put(Loaded, k, d), KeyLen) /\ status' = "00"
  BY <1>1, <1>2 DEF RtWrite
<1> HIDE DEF k, d
<1>6. CASE k \in DOMAIN Loaded /\ EnsureIndex(KeyLen) /\ status' = "22"
  <2>1. Mapped' /\ (Stored' = Stored \/ (Stored = None /\ Stored' = NoRecords))
    BY <1>1, <1>6, EnsureIndexContent
  <2>2. KF!Quiet("WRITE", "22")  BY <1>1, <1>6, <2>1, QuietStep
  <2>3. KF!Write(k, d)  BY <1>4, <1>6, <2>2 DEF KF!Write
  <2> QED BY <1>3, <2>1, <2>3 DEF Implements, KF!Next
<1>7. CASE /\ k \notin DOMAIN Loaded /\ StoreIndex(Put(Loaded, k, d), KeyLen)
           /\ status' = "00"
  <2>1. Put(Loaded, k, d) \in IndexMaps  BY <1>3, <1>4, PutMap
  <2>2. Mapped' /\ Stored' = Put(Loaded, k, d)
    BY <1>1, <1>7, <2>1, StoreIndexContent
  <2>3. KF!Change("WRITE", Put(Loaded, k, d))  BY <1>1, <1>7, <2>2, ChangeStep
  <2>4. Put(Loaded, k, d) = KF!Put(KF!InFile, k, d)  BY <1>4 DEF Put, KF!Put
  <2>5. KF!Write(k, d)  BY <1>4, <1>7, <2>3, <2>4 DEF KF!Write
  <2> QED BY <1>3, <2>2, <2>5 DEF Implements, KF!Next
<1> QED BY <1>5, <1>6, <1>7

LEMMA RewriteImplements ==
  ASSUME FileInv, Mapped, org = "INDEXED", NEW rec \in Records, NEW n, Rewrite(rec, n)
  PROVE  Implements
<1> DEFINE k == KeyOf(rec, KeyLen)
           d == DataOf(rec, KeyLen)
<1>1. RtRewrite(rec, KeyLen) /\ org' = org /\ verb' = "REWRITE"
  BY DEF Rewrite, KeyArgument
<1>2. ~RelativeStore  BY DEF FileInv, RelativeStore
<1>3. k \in Keys /\ d \in DataPart  BY SplitRecord
<1>4. Loaded \in IndexMaps /\ Loaded = KF!InFile  BY LoadedRecords
<1>5. \/ k \notin DOMAIN Loaded /\ EnsureIndex(KeyLen) /\ status' = "23"
      \/ k \in DOMAIN Loaded /\ StoreIndex(Put(Loaded, k, d), KeyLen) /\ status' = "00"
  BY <1>1, <1>2 DEF RtRewrite
<1> HIDE DEF k, d
<1>6. CASE k \notin DOMAIN Loaded /\ EnsureIndex(KeyLen) /\ status' = "23"
  <2>1. Mapped' /\ (Stored' = Stored \/ (Stored = None /\ Stored' = NoRecords))
    BY <1>1, <1>6, EnsureIndexContent
  <2>2. KF!Quiet("REWRITE", "23")  BY <1>1, <1>6, <2>1, QuietStep
  <2>3. KF!Rewrite(k, d)  BY <1>4, <1>6, <2>2 DEF KF!Rewrite
  <2> QED BY <1>3, <2>1, <2>3 DEF Implements, KF!Next
<1>7. CASE /\ k \in DOMAIN Loaded /\ StoreIndex(Put(Loaded, k, d), KeyLen)
           /\ status' = "00"
  <2>1. Put(Loaded, k, d) \in IndexMaps  BY <1>3, <1>4, PutMap
  <2>2. Mapped' /\ Stored' = Put(Loaded, k, d)
    BY <1>1, <1>7, <2>1, StoreIndexContent
  <2>3. KF!Change("REWRITE", Put(Loaded, k, d))  BY <1>1, <1>7, <2>2, ChangeStep
  <2>4. Put(Loaded, k, d) = KF!Put(KF!InFile, k, d)  BY <1>4 DEF Put, KF!Put
  <2>5. KF!Rewrite(k, d)  BY <1>4, <1>7, <2>3, <2>4 DEF KF!Rewrite
  <2> QED BY <1>3, <2>2, <2>5 DEF Implements, KF!Next
<1> QED BY <1>5, <1>6, <1>7

LEMMA DeleteImplements ==
  ASSUME FileInv, Mapped, org = "INDEXED", NEW k \in Keys, NEW n, Delete(k, n)
  PROVE  Implements
<1>1. RtDelete(k, KeyLen) /\ org' = org /\ verb' = "DELETE"  BY DEF Delete
<1>4. Loaded \in IndexMaps /\ Loaded = KF!InFile  BY LoadedRecords
<1>6. CASE k \notin DOMAIN Loaded
  <2>0. EnsureIndex(KeyLen) /\ status' = "23"  BY <1>1, <1>6 DEF RtDelete
  <2>1. Mapped' /\ (Stored' = Stored \/ (Stored = None /\ Stored' = NoRecords))
    BY <1>1, <2>0, EnsureIndexContent
  <2>2. KF!Quiet("DELETE", "23")  BY <1>1, <2>0, <2>1, QuietStep
  <2>3. KF!Delete(k)  BY <1>4, <1>6, <2>2 DEF KF!Delete
  <2> QED BY <2>1, <2>3 DEF Implements, KF!Next
<1>7. CASE k \in DOMAIN Loaded
  <2>0. StoreIndex(Without(Loaded, k), KeyLen) /\ status' = "00"
    BY <1>1, <1>7 DEF RtDelete
  <2>1. Without(Loaded, k) \in IndexMaps  BY <1>4, WithoutMap
  <2>2. Mapped' /\ Stored' = Without(Loaded, k)
    BY <1>1, <2>0, <2>1, StoreIndexContent
  <2>3. KF!Change("DELETE", Without(Loaded, k))  BY <1>1, <2>0, <2>2, ChangeStep
  <2>4. Without(Loaded, k) = KF!Without(KF!InFile, k)
    BY <1>4 DEF Without, KF!Without
  <2>5. KF!Delete(k)  BY <1>4, <1>7, <2>3, <2>4 DEF KF!Delete
  <2> QED BY <2>2, <2>5 DEF Implements, KF!Next
<1> QED BY <1>6, <1>7

(* A positioning or a read finds something only when there is something. *)
LEMMA FindImplements ==
  ASSUME FileInv, Mapped, org = "INDEXED", org' = org, UNCHANGED <<idx, disk>>,
         NEW v \in {"START", "READ"}, NEW s \in {"10", "23"}, verb' = v,
         \/ status' = s
         \/ status' = "00" /\ idx # None /\ DOMAIN idx # {}
  PROVE  Implements
<1>1. Mapped' /\ Stored' = Stored  BY SameContent
<1>2. CASE status' = s
  <2>1. KF!Quiet(v, s)  BY <1>1, <1>2, QuietStep
  <2> QED BY <1>1, <2>1 DEF Implements, KF!Next, KF!Find
<1>3. CASE status' = "00" /\ idx # None /\ DOMAIN idx # {}
  <2>1. KF!Quiet(v, "00")  BY <1>1, <1>3, QuietStep
  <2>2. Loaded = KF!InFile /\ Loaded = idx
    BY <1>3, LoadedRecords DEF Loaded
  <2> QED BY <1>1, <1>3, <2>1, <2>2 DEF Implements, KF!Next, KF!Find
<1> QED BY <1>2, <1>3

LEMMA ReadsImplement ==
  ASSUME FileInv, Mapped, org = "INDEXED",
         \/ \E op \in Relations, k \in Keys : Start(op, k)
         \/ ReadNext
         \/ \E k \in Keys : ReadKey(k)
  PROVE  Implements
<1>1. CASE \E op \in Relations, k \in Keys : Start(op, k)
  <2>1. PICK op \in Relations, k \in Keys : Start(op, k)  BY <1>1
  <2>2. UNCHANGED <<org, idx, disk>> /\ verb' = "START"
    BY <2>1 DEF Start, RtStart
  <2>3. status' = "23" \/ (status' = "00" /\ idx # None /\ Selected(op, k) # {})
    BY <2>1 DEF Start, RtStart
  <2>4. Selected(op, k) \subseteq DOMAIN idx  BY DEF Selected
  <2> QED BY <2>2, <2>3, <2>4, FindImplements
<1>2. CASE ReadNext
  <2>1. UNCHANGED <<org, idx, disk>>  BY <1>2 DEF ReadNext
  <2>2. ReadOutcome(CursorRecord, "10")  BY <1>2 DEF ReadNext, FileInv
  <2>3. verb' = "READ" /\ (status' = "10" \/ (status' = "00" /\ CursorRecord # None))
    BY <2>2 DEF ReadOutcome
  <2>4. CursorRecord # None => idx # None /\ DOMAIN idx # {}
    BY DEF CursorRecord, Ahead
  <2> QED BY <2>1, <2>3, <2>4, FindImplements
<1>3. CASE \E k \in Keys : ReadKey(k)
  <2>1. PICK k \in Keys : ReadKey(k)  BY <1>3
  <2>2. UNCHANGED <<org, idx, disk>>  BY <2>1 DEF ReadKey
  <2>3. verb' = "READ" /\ (status' = "23" \/ (status' = "00" /\ KeyRecord(k) # None))
    BY <2>1 DEF ReadKey, ReadOutcome
  <2>4. KeyRecord(k) # None => idx # None /\ DOMAIN idx # {}  BY DEF KeyRecord
  <2> QED BY <2>2, <2>3, <2>4, FindImplements
<1> QED BY <1>1, <1>2, <1>3

(* The run unit ends: durability makes the loss of every map invisible. *)
LEMMA NextRunUnitImplements ==
  ASSUME FileInv, Mapped, org = "INDEXED", NextRunUnit PROVE Implements
<1>1. /\ org' = org /\ idx' = None /\ idxFile' = idxFile
      /\ verb' = "none" /\ status' = "00"
  BY DEF NextRunUnit, disk
<1>2. Mapped'  BY <1>1 DEF Mapped
<1>3. Stored' = Stored \/ (Stored = NoRecords /\ Stored' = None)
  BY <1>1 DEF Stored, FileInv, IndexIsDurable
<1>4. KF!Quiet("none", "00")  BY <1>1, <1>3, EmptyMap DEF KF!Quiet
<1> QED BY <1>2, <1>4 DEF Implements, KF!Next, KF!NextRunUnit

LEMMA MappedStep ==
  FileInv /\ Mapped /\ [Next]_vars => Mapped' /\ [KF!Next]_(KF!kvars)
<1> SUFFICES ASSUME FileInv, Mapped, [Next]_vars
             PROVE  Mapped' /\ [KF!Next]_(KF!kvars)
  OBVIOUS
<1>0. org' = org
  BY DEF Next, vars, Open, Close, Write, Rewrite, Delete, Start, ReadNext,
         ReadKey, ReadRelative, NextRunUnit
<1>1. CASE org # "INDEXED"
  BY <1>0, <1>1 DEF Mapped, KF!kvars
<1>2. CASE org = "INDEXED" /\ UNCHANGED vars
  BY <1>2 DEF vars, maps, disk, Mapped, KF!kvars, Stored
<1>3. CASE org = "INDEXED" /\ Next
  <2>1. ASSUME NEW n \in Rrns PROVE ~ReadRelative(n)  BY <1>3 DEF ReadRelative
  <2>2. Implements
    BY <1>3, <2>1, OpenImplements, CloseImplements, WriteImplements,
       RewriteImplements, DeleteImplements, ReadsImplement,
       NextRunUnitImplements DEF Next
  <2> QED BY <2>2 DEF Implements
<1> QED BY <1>1, <1>2, <1>3

(* CobolFileIo keeps what an indexed file promises: whatever statements a  *)
(* program runs, whether or not it closes its files, over any number of    *)
(* run units.                                                              *)
THEOREM IndexedFileIsKeyedFile == Spec => KeyedFileSpec
<1>1. Init => Mapped /\ KF!Init
  BY DEF Init, Mapped, KF!Init, Stored, NoFile
<1> QED BY <1>1, MappedStep, FileInvariance, PTL DEF Spec, KeyedFileSpec, KF!Spec

-----------------------------------------------------------------------------
(* A sequential file gives back what was written                           *)

(* A set of natural numbers that is not empty has a least element. *)
LEMMA LeastNumber ==
  ASSUME NEW S \in SUBSET Nat, S # {}
  PROVE  \E n \in S : \A m \in S : n <= m
<1>1. PICK n \in S : \A m \in S : <<m, n>> \notin OpToRel(<, Nat)
  BY NatLessThanWellFounded, WFMin
<1>2. \A m \in S : ~(m < n)  BY <1>1 DEF OpToRel
<1> QED BY <1>2

(* Trailing spaces dropped on the way out are filled in on the way back. *)
LEMMA TrimmedComesBack ==
  ASSUME NEW rec \in [1..RecLen -> Chars]
  PROVE  Trimmed(rec) \in Seq(Chars) /\ Area(Trimmed(rec)) = rec
<1>0. RecLen \in Nat /\ 0 \in Chars  BY FileIoAssumption
<1>1. rec \in Seq(Chars) /\ Len(rec) = RecLen  BY <1>0
<1> DEFINE ends == {n \in 0..Len(rec) : \A i \in n+1..Len(rec) : rec[i] = 0}
<1>2. Len(rec) \in ends  BY <1>0, <1>1
<1>3. \E n \in ends : \A m \in ends : n <= m
  <2>1. ends \in SUBSET Nat  OBVIOUS
  <2> HIDE DEF ends
  <2> QED BY <1>2, <2>1, LeastNumber
<1>4. PICK last : last = CHOOSE n \in ends : \A m \in ends : n <= m  OBVIOUS
<1>5. last \in ends  BY <1>3, <1>4
<1>6. Trimmed(rec) = SubSeq(rec, 1, last)  BY <1>4 DEF Trimmed
<1>7. last \in 0..RecLen /\ \A i \in last+1..RecLen : rec[i] = 0  BY <1>1, <1>5
<1>8. Trimmed(rec) = [i \in 1..last |-> rec[i]]  BY <1>1, <1>6, <1>7
<1>9. Trimmed(rec) \in Seq(Chars) /\ Len(Trimmed(rec)) = last
  BY <1>0, <1>7, <1>8
<1>10. ASSUME NEW i \in 1..RecLen
       PROVE  (IF i <= last THEN Trimmed(rec)[i] ELSE 0) = rec[i]
  BY <1>0, <1>7, <1>8
<1>11. Area(Trimmed(rec)) = [i \in 1..RecLen |-> rec[i]]
  BY <1>9, <1>10 DEF Area, Pad
<1> QED BY <1>9, <1>11

LEMMA ImageComesBack ==
  ASSUME NEW rec \in Records
  PROVE  Image(rec) \in Seq(Chars) /\ Area(Image(rec)) = rec
<1>0. RecLen \in Nat /\ rec \in [1..RecLen -> Chars]  BY FileIoAssumption
<1>1. rec \in Seq(Chars) /\ Len(rec) = RecLen  BY <1>0
<1>2. Area(rec) = rec  BY <1>0, <1>1 DEF Area, Pad
<1> QED BY <1>0, <1>1, <1>2, TrimmedComesBack DEF Image

(* The records of a file are those record areas. *)
Holds(ls, recs) ==
  /\ ls \in Seq(Seq(Chars)) /\ recs \in Seq(Records)
  /\ Len(ls) = Len(recs)
  /\ \A i \in 1..Len(recs) : Area(ls[i]) = recs[i]

(* What a reader has returned and what it buffers are the file's first     *)
(* records, in order.                                                      *)
ReadSoFar(g, r, ls) ==
  /\ r \in [read : Nat, buffer : Seq(Seq(Chars))]
  /\ r.read <= Len(ls)
  /\ g \in Seq([1..RecLen -> Chars])
  /\ Len(g) + Len(r.buffer) = r.read
  /\ \A i \in 1..Len(g) : g[i] = Area(ls[i])
  /\ \A j \in 1..Len(r.buffer) : r.buffer[j] = ls[Len(g) + j]

(* What is true of a sequential file between statements: whoever may read  *)
(* or add to it finds the records written since OPEN OUTPUT.               *)
SequentialInv ==
  Sequential =>
    /\ idx = None /\ rel = None /\ missed = None /\ started = None
    /\ written \in Seq(Records)
    /\ (lines # None \/ writer \/ got # None) => Holds(lines, written)
    /\ got # None => ReadSoFar(got, reader, lines)

LEMMA HoldsNothing == Holds(<<>>, <<>>)
BY DEF Holds

LEMMA HoldsMore ==
  ASSUME NEW ls, NEW recs, Holds(ls, recs), NEW rec \in Records
  PROVE  Holds(Append(ls, Image(rec)), Append(recs, rec))
<1>1. Image(rec) \in Seq(Chars) /\ Area(Image(rec)) = rec  BY ImageComesBack
<1> DEFINE image == Image(rec)
           more == Append(ls, image)
           all == Append(recs, rec)
<1> HIDE DEF image
<1>2. image \in Seq(Chars) /\ Area(image) = rec  BY <1>1 DEF image
<1>3. /\ more \in Seq(Seq(Chars)) /\ all \in Seq(Records)
      /\ Len(more) = Len(ls) + 1 /\ Len(all) = Len(recs) + 1
  BY <1>2 DEF Holds
<1>4. ASSUME NEW i \in 1..Len(all) PROVE Area(more[i]) = all[i]
  <2>1. CASE i \in 1..Len(recs)
    <3>1. more[i] = ls[i] /\ all[i] = recs[i]  BY <2>1 DEF Holds
    <3> QED BY <2>1, <3>1 DEF Holds
  <2>2. CASE i = Len(recs) + 1
    <3>1. more[i] = image /\ all[i] = rec  BY <2>2 DEF Holds
    <3> QED BY <1>2, <3>1
  <2> QED BY <1>3, <2>1, <2>2 DEF Holds
<1> QED BY <1>3, <1>4 DEF Holds, image

(* A record added at the end changes nothing that was read. *)
LEMMA ReadSoFarOfMore ==
  ASSUME NEW g, NEW r, NEW ls \in Seq(Seq(Chars)), NEW image \in Seq(Chars),
         ReadSoFar(g, r, ls)
  PROVE  ReadSoFar(g, r, Append(ls, image))
<1>1. Len(Append(ls, image)) = Len(ls) + 1  OBVIOUS
<1>2. \A i \in 1..Len(ls) : Append(ls, image)[i] = ls[i]  OBVIOUS
<1>3. Len(g) \in Nat /\ Len(r.buffer) \in Nat  BY DEF ReadSoFar
<1>4. \A i \in 1..Len(g) : i \in 1..Len(ls)  BY <1>3 DEF ReadSoFar
<1>5. \A j \in 1..Len(r.buffer) : Len(g) + j \in 1..Len(ls)
  BY <1>3 DEF ReadSoFar
<1>6. ASSUME NEW i \in 1..Len(g) PROVE g[i] = Area(Append(ls, image)[i])
  BY <1>2, <1>4 DEF ReadSoFar
<1>7. ASSUME NEW j \in 1..Len(r.buffer)
      PROVE  r.buffer[j] = Append(ls, image)[Len(g) + j]
  BY <1>2, <1>5 DEF ReadSoFar
<1>8. r.read <= Len(Append(ls, image))  BY <1>1 DEF ReadSoFar
<1> QED BY <1>6, <1>7, <1>8 DEF ReadSoFar

(* The records after the first n. *)
LEMMA RestOf ==
  ASSUME NEW S, NEW s \in Seq(S), NEW n \in Nat, n <= Len(s)
  PROVE  LET rest == SubSeq(s, n + 1, Len(s)) IN
         /\ rest \in Seq(S) /\ Len(rest) = Len(s) - n
         /\ \A j \in 1..Len(s) - n : rest[j] = s[n + j]
<1> DEFINE rest == SubSeq(s, n + 1, Len(s))
<1>1. rest = [j \in 1..Len(s) - n |-> s[n + j]]  OBVIOUS
<1>2. \A j \in 1..Len(s) - n : s[n + j] \in S  OBVIOUS
<1>3. rest \in Seq(S) /\ Len(rest) = Len(s) - n  BY <1>1, <1>2
<1> QED BY <1>1, <1>3

(* One READ: the next record is the next of the file, and one less is left *)
(* in the buffer, refilled with all that was added when it was empty.      *)
LEMMA ReaderAdvances ==
  ASSUME NEW recs, Holds(lines, recs), got # None, ReadSoFar(got, reader, lines),
         LineRecord # None, reader # None, AdvanceReader
  PROVE  ReadSoFar(Append(got, Area(LineRecord)), reader', lines)
<1>1. /\ lines \in Seq(Seq(Chars)) /\ Len(lines) \in Nat
      /\ reader.read \in Nat /\ reader.buffer \in Seq(Seq(Chars))
      /\ got \in Seq([1..RecLen -> Chars])
  BY DEF Holds, ReadSoFar
<1> DEFINE base == IF reader.buffer # <<>> THEN reader.read ELSE Len(lines)
<1>2. /\ Refill \in Seq(Seq(Chars)) /\ base \in Nat /\ base <= Len(lines)
      /\ Len(got) + Len(Refill) = base
      /\ \A j \in 1..Len(Refill) : Refill[j] = lines[Len(got) + j]
  <2>1. CASE reader.buffer # <<>>  BY <1>1, <2>1 DEF Refill, ReadSoFar
  <2>2. CASE reader.buffer = <<>>
    <3>1. Len(got) = reader.read  BY <1>1, <2>2 DEF ReadSoFar
    <3>2. Refill = SubSeq(lines, reader.read + 1, Len(lines))
      BY <2>2 DEF Refill
    <3>3. reader.read <= Len(lines)  BY DEF ReadSoFar
    <3>4. /\ Refill \in Seq(Seq(Chars)) /\ Len(Refill) = Len(lines) - reader.read
          /\ \A j \in 1..Len(lines) - reader.read :
               Refill[j] = lines[reader.read + j]
      BY <1>1, <3>2, <3>3, RestOf
    <3>5. base = Len(lines)  BY <2>2
    <3> HIDE DEF base
    <3> QED BY <1>1, <3>1, <3>4, <3>5
  <2> QED BY <2>1, <2>2
<1>3. Refill # <<>> /\ LineRecord = Head(Refill)  BY DEF LineRecord
<1>4. LineRecord = lines[Len(got) + 1] /\ Len(got) + 1 <= Len(lines)
  <2> HIDE DEF base
  <2>1. Len(Refill) \in Nat /\ Len(Refill) # 0 /\ Head(Refill) = Refill[1]
    BY <1>2, <1>3
  <2>2. Len(got) \in Nat  BY <1>1
  <2>3. Refill[1] = lines[Len(got) + 1]  BY <1>2, <2>1
  <2> QED BY <1>1, <1>2, <1>3, <2>1, <2>2, <2>3
<1>5. reader' = [read |-> base, buffer |-> Tail(Refill)]  BY DEF AdvanceReader
<1> HIDE DEF base
<1>6. Tail(Refill) \in Seq(Seq(Chars)) /\ Len(Tail(Refill)) = Len(Refill) - 1
  BY <1>2, <1>3
<1>7. \A j \in 1..Len(Tail(Refill)) : Tail(Refill)[j] = Refill[j + 1]
  BY <1>2, <1>3
<1> DEFINE rec == Area(LineRecord)
           more == Append(got, rec)
<1>8. rec \in [1..RecLen -> Chars]
  <2>1. LineRecord \in Seq(Chars)  BY <1>1, <1>4
  <2> QED BY <2>1, FileIoAssumption DEF Area, Pad
<1>9. more \in Seq([1..RecLen -> Chars]) /\ Len(more) = Len(got) + 1
  BY <1>1, <1>8
<1>10. ASSUME NEW i \in 1..Len(more) PROVE more[i] = Area(lines[i])
  BY <1>1, <1>4, <1>9 DEF ReadSoFar
<1>11. ASSUME NEW j \in 1..Len(Tail(Refill))
       PROVE  Tail(Refill)[j] = lines[Len(more) + j]
  <2>1. j + 1 \in 1..Len(Refill)  BY <1>2, <1>6
  <2>2. Refill[j + 1] = lines[Len(got) + (j + 1)]  BY <1>2, <2>1
  <2>3. Len(got) + (j + 1) = Len(more) + j  BY <1>1, <1>9
  <2> QED BY <1>7, <2>2, <2>3
<1> HIDE DEF more, rec
<1>12. ReadSoFar(more, [read |-> base, buffer |-> Tail(Refill)], lines)
  <2>1. PICK r : r = [read |-> base, buffer |-> Tail(Refill)]  OBVIOUS
  <2>2. /\ r.read = base /\ r.buffer = Tail(Refill)
        /\ r \in [read : Nat, buffer : Seq(Seq(Chars))]
    BY <1>2, <1>6, <2>1
  <2>3. Len(more) + Len(r.buffer) = r.read
    <3>1. Len(got) \in Nat /\ Len(Refill) \in Nat  BY <1>1, <1>2
    <3>2. Len(r.buffer) = Len(Refill) - 1  BY <1>6, <2>2
    <3>3. Len(got) + Len(Refill) = base  BY <1>2
    <3>4. Len(more) = Len(got) + 1 /\ r.read = base  BY <1>9, <2>2
    <3>5. ASSUME NEW a \in Nat, NEW b \in Nat PROVE (a + 1) + (b - 1) = a + b
      OBVIOUS
    <3> QED BY <3>1, <3>2, <3>3, <3>4, <3>5
  <2>4. ReadSoFar(more, r, lines)
    BY <1>2, <1>9, <1>10, <1>11, <2>2, <2>3 DEF ReadSoFar
  <2> QED BY <2>1, <2>4
<1> QED BY <1>5, <1>12 DEF more, rec

LEMMA SequentialInit == Init => SequentialInv
BY DEF Init, SequentialInv

LEMMA SequentialOpen ==
  ASSUME SequentialInv, Sequential, NEW mode \in Modes, Open(mode)
  PROVE  SequentialInv'
<1>1. /\ mode # "I-O" /\ OpenSequential(mode) /\ org' = org
  BY DEF Open, RtOpen, Sequential
<1>2. /\ Sequential' /\ idx' = None /\ rel' = None
      /\ missed' = None /\ started' = None
  BY <1>1 DEF Open, OpenSequential, OpenMissing, Sequential, maps, SequentialInv
<1>3. CASE mode # "OUTPUT" /\ lines = None /\ OpenMissing
  <2>1. UNCHANGED <<lines, writer, reader, written>> /\ got' = got
    BY <1>3 DEF Open, OpenMissing, handles, disk
  <2> QED BY <1>2, <2>1 DEF SequentialInv
<1>4. CASE mode = "OUTPUT"
  <2>1. lines' = <<>> /\ written' = <<>> /\ got' = None
    BY <1>1, <1>4 DEF Open, OpenSequential
  <2> QED BY <1>2, <2>1, HoldsNothing DEF SequentialInv
<1>5. CASE mode = "EXTEND" /\ lines # None
  <2>1. UNCHANGED <<lines, reader, written, got>>
    BY <1>1, <1>5 DEF Open, OpenSequential, OpenMissing
  <2> QED BY <1>2, <1>5, <2>1 DEF SequentialInv
<1>6. CASE mode = "INPUT" /\ lines # None
  <2>1. /\ UNCHANGED <<lines, written>> /\ got' = <<>>
        /\ reader' = [read |-> 0, buffer |-> <<>>]
    BY <1>1, <1>6 DEF Open, OpenSequential, OpenMissing, disk
  <2>2. Holds(lines, written)  BY <1>6 DEF SequentialInv
  <2>3. ReadSoFar(<<>>, [read |-> 0, buffer |-> <<>>], lines)
    BY <2>2 DEF Holds, ReadSoFar
  <2> QED BY <1>2, <2>1, <2>2, <2>3 DEF SequentialInv
<1> QED BY <1>1, <1>3, <1>4, <1>5, <1>6 DEF OpenSequential, Modes

LEMMA SequentialWrite ==
  ASSUME SequentialInv, Sequential, NEW rec \in Records, NEW n, Write(rec, n)
  PROVE  SequentialInv'
<1>1. RtWrite(Image(rec), 0) /\ org' = org /\ got' = got
  BY DEF Write, KeyArgument, Sequential
<1>2. ~RelativeStore  BY DEF RelativeStore, SequentialInv
<1>3. /\ Sequential' /\ UNCHANGED <<idx, rel, missed, started, handles>>
  BY <1>1, <1>2 DEF RtWrite, Sequential, maps, Write, SequentialInv
<1>4. CASE writer
  <2>1. /\ lines' = Append(lines, Image(rec)) /\ written' = Append(written, rec)
    BY <1>1, <1>2, <1>4 DEF RtWrite, Write
  <2>2. Holds(lines, written)  BY <1>4 DEF SequentialInv
  <2>3. Holds(lines', written')  BY <2>1, <2>2, HoldsMore
  <2>4. got # None => ReadSoFar(got, reader, lines')
    <3>1. lines \in Seq(Seq(Chars)) /\ Image(rec) \in Seq(Chars)
      BY <2>2, ImageComesBack DEF Holds
    <3> QED BY <2>1, <3>1, ReadSoFarOfMore DEF SequentialInv
  <2>5. written' \in Seq(Records)  BY <2>3 DEF Holds
  <2> QED BY <1>1, <1>3, <2>3, <2>4, <2>5 DEF SequentialInv, handles
<1>5. CASE ~writer
  <2>1. status' = "23" /\ UNCHANGED <<maps, disk>>
    BY <1>1, <1>2, <1>5 DEF RtWrite
  <2>2. UNCHANGED <<lines, written>>  BY <2>1 DEF Write, disk
  <2> QED BY <1>1, <1>3, <2>2 DEF SequentialInv, handles
<1> QED BY <1>4, <1>5

LEMMA SequentialRead ==
  ASSUME SequentialInv, Sequential, ReadNext PROVE SequentialInv'
<1>1. /\ Sequential' /\ UNCHANGED <<writer, idx, rel, lines, written>>
      /\ missed' = None /\ started' = None
  BY DEF ReadNext, Sequential, disk, SequentialInv
<1>2. CASE got = None  BY <1>1, <1>2 DEF SequentialInv, ReadNext
<1>3. CASE got # None /\ (reader = None \/ LineRecord = None)
  <2>1. got' = got /\ reader' = reader
    BY <1>3 DEF ReadNext, ReadOutcome, AdvanceReader, SequentialInv, CursorRecord
  <2> QED BY <1>1, <2>1 DEF SequentialInv
<1>4. CASE got # None /\ reader # None /\ LineRecord # None
  <2>1. got' = Append(got, Area(LineRecord)) /\ AdvanceReader
    BY <1>4 DEF ReadNext, ReadOutcome
  <2>2. Holds(lines, written) /\ ReadSoFar(got, reader, lines)
    BY <1>4 DEF SequentialInv
  <2>3. ReadSoFar(got', reader', lines)  BY <1>4, <2>1, <2>2, ReaderAdvances
  <2> QED BY <1>1, <2>2, <2>3 DEF SequentialInv
<1> QED BY <1>2, <1>3, <1>4

LEMMA SequentialStep == SequentialInv /\ [Next]_vars => SequentialInv'
<1> SUFFICES ASSUME SequentialInv, [Next]_vars PROVE SequentialInv'
  OBVIOUS
<1>0. org' = org
  BY DEF Next, vars, Open, Close, Write, Rewrite, Delete, Start, ReadNext,
         ReadKey, ReadRelative, NextRunUnit
<1>1. CASE ~Sequential  BY <1>0, <1>1 DEF SequentialInv, Sequential
<1>2. CASE Sequential /\ UNCHANGED vars
  BY <1>2 DEF vars, handles, maps, disk, history, SequentialInv, Sequential
<1>3. CASE Sequential /\ Next
  <2>1. CASE \E mode \in Modes : Open(mode)  BY <1>3, <2>1, SequentialOpen
  <2>2. CASE Close
    BY <1>3, <2>2 DEF Close, RtClose, SequentialInv, Sequential
  <2>3. CASE \E rec \in Records, n \in Rrns : Write(rec, n)
    BY <1>3, <2>3, SequentialWrite
  <2>4. CASE ReadNext  BY <1>3, <2>4, SequentialRead
  <2>5. CASE NextRunUnit
    BY <1>3, <2>5 DEF NextRunUnit, SequentialInv, Sequential, disk
  <2>6. /\ \A rec \in Records, n \in Rrns : ~Rewrite(rec, n)
        /\ \A k \in Keys, n \in Rrns : ~Delete(k, n)
        /\ \A op \in Relations, k \in Keys : ~Start(op, k)
        /\ \A k \in Keys : ~ReadKey(k)
        /\ \A n \in Rrns : ~ReadRelative(n)
    BY <1>3 DEF Sequential, Rewrite, Delete, Start, ReadKey, ReadRelative
  <2> QED BY <1>3, <2>1, <2>2, <2>3, <2>4, <2>5, <2>6 DEF Next
<1> QED BY <1>1, <1>2, <1>3

(* CobolFileIo's readers and writers: a program that opens a sequential    *)
(* file INPUT gets the record areas it wrote since OPEN OUTPUT, in order,  *)
(* across EXTENDs and run units, and whatever LINE SEQUENTIAL trimmed.     *)
THEOREM SequentialFilesReadBack == Spec => []ReadsBackWhatWasWritten
<1>1. SequentialInv => ReadsBackWhatWasWritten
  <2> SUFFICES ASSUME SequentialInv, Sequential, got # None
               PROVE  /\ Len(got) <= Len(written)
                      /\ \A i \in 1..Len(got) : got[i] = written[i]
    BY DEF ReadsBackWhatWasWritten
  <2>1. Holds(lines, written) /\ ReadSoFar(got, reader, lines)
    BY DEF SequentialInv
  <2>2. Len(got) \in Nat /\ Len(written) \in Nat /\ Len(got) <= Len(written)
    BY <2>1 DEF Holds, ReadSoFar
  <2> QED BY <2>1, <2>2 DEF Holds, ReadSoFar
<1> QED BY <1>1, SequentialInit, SequentialStep, PTL DEF Spec

-----------------------------------------------------------------------------
(* The order of keys                                                       *)

LEMMA KeyCharacters ==
  ASSUME NEW s \in Seq(Chars)
  PROVE  Len(s) \in Nat /\ \A i \in 1..Len(s) : s[i] \in Nat
<1>1. Chars \subseteq Nat  BY FileIoAssumption
<1>2. \A i \in 1..Len(s) : s[i] \in Chars  OBVIOUS
<1>3. Len(s) \in Nat  OBVIOUS
<1>4. \A i \in 1..Len(s) : s[i] \in Nat  BY <1>1, <1>2
<1> QED BY <1>3, <1>4

LEMMA LessIrreflexive == ASSUME NEW s \in Seq(Chars) PROVE ~Less(s, s)
BY KeyCharacters DEF Less

LEMMA LessTransitive ==
  ASSUME NEW s \in Seq(Chars), NEW t \in Seq(Chars), NEW u \in Seq(Chars),
         Less(s, t), Less(t, u)
  PROVE  Less(s, u)
<1>0. /\ Len(s) \in Nat /\ Len(t) \in Nat /\ Len(u) \in Nat
      /\ \A i \in 1..Len(s) : s[i] \in Nat
      /\ \A i \in 1..Len(t) : t[i] \in Nat
      /\ \A i \in 1..Len(u) : u[i] \in Nat
  BY KeyCharacters
<1> DEFINE Differs(a, b, i) == /\ i \in 1..Len(a) /\ i <= Len(b) /\ a[i] < b[i]
                               /\ \A j \in 1..i-1 : a[j] = b[j]
           Begins(a, b) == Len(a) < Len(b) /\ \A j \in 1..Len(a) : a[j] = b[j]
<1>1. \A a, b : Less(a, b) <=> (\E i \in 1..Len(a) : Differs(a, b, i)) \/ Begins(a, b)
  BY DEF Less
<1>2. ASSUME NEW i, NEW k, Differs(s, t, i), Differs(t, u, k) PROVE Less(s, u)
  <2>1. CASE i < k  BY <1>0, <1>1, <1>2, <2>1
  <2>2. CASE i = k  BY <1>0, <1>1, <1>2, <2>2
  <2>3. CASE k < i  BY <1>0, <1>1, <1>2, <2>3
  <2> QED BY <1>0, <1>2, <2>1, <2>2, <2>3
<1>3. ASSUME NEW i, Differs(s, t, i), Begins(t, u) PROVE Less(s, u)
  <2>1. Differs(s, u, i)  BY <1>0, <1>3
  <2> QED BY <1>1, <2>1
<1>4. ASSUME NEW k, Begins(s, t), Differs(t, u, k) PROVE Less(s, u)
  <2>1. CASE k <= Len(s)
    <3>1. Differs(s, u, k)  BY <1>0, <1>4, <2>1
    <3> QED BY <1>1, <3>1
  <2>2. CASE ~(k <= Len(s))
    <3>1. Begins(s, u)  BY <1>0, <1>4, <2>2
    <3> QED BY <1>1, <3>1
  <2> QED BY <2>1, <2>2
<1>5. ASSUME Begins(s, t), Begins(t, u) PROVE Less(s, u)
  <2>1. Begins(s, u)  BY <1>0, <1>5
  <2> QED BY <1>1, <2>1
<1> HIDE DEF Differs, Begins
<1> QED BY <1>1, <1>2, <1>3, <1>4, <1>5

LEMMA LessTotal ==
  ASSUME NEW s \in Seq(Chars), NEW t \in Seq(Chars), s # t
  PROVE  Less(s, t) \/ Less(t, s)
<1>0. /\ Len(s) \in Nat /\ Len(t) \in Nat
      /\ \A i \in 1..Len(s) : s[i] \in Nat
      /\ \A i \in 1..Len(t) : t[i] \in Nat
  BY KeyCharacters
<1> DEFINE apart == {i \in 1..Len(s) : i <= Len(t) /\ s[i] # t[i]}
<1>1. CASE apart = {}
  <2>1. CASE Len(s) < Len(t)  BY <1>0, <1>1, <2>1 DEF Less
  <2>2. CASE Len(t) < Len(s)
    <3>1. ASSUME NEW j \in 1..Len(t) PROVE t[j] = s[j]
      <4>1. j \in 1..Len(s) /\ j <= Len(t)  BY <1>0, <2>2
      <4> QED BY <1>1, <4>1
    <3> QED BY <2>2, <3>1 DEF Less
  <2>3. Len(s) # Len(t)  BY <1>0, <1>1
  <2> QED BY <1>0, <2>1, <2>2, <2>3
<1>2. CASE apart # {}
  <2>1. apart \in SUBSET Nat  BY <1>0
  <2>2. PICK i \in apart : \A j \in apart : i <= j
    <3> HIDE DEF apart
    <3> QED BY <1>2, <2>1, LeastNumber
  <2>3. /\ i \in 1..Len(s) /\ i <= Len(t) /\ s[i] # t[i]
        /\ \A j \in 1..i-1 : s[j] = t[j]
    BY <1>0, <2>2
  <2>4. CASE s[i] < t[i]  BY <2>3, <2>4 DEF Less
  <2>5. CASE t[i] < s[i]
    <3>1. i \in 1..Len(t) /\ i <= Len(s) /\ \A j \in 1..i-1 : t[j] = s[j]
      BY <1>0, <2>3
    <3> QED BY <2>5, <3>1 DEF Less
  <2>6. s[i] \in Nat /\ t[i] \in Nat  BY <1>0, <2>3
  <2> QED BY <2>3, <2>4, <2>5, <2>6
<1> QED BY <1>1, <1>2

(* An order that compares any two keys. *)
Orders(R) ==
  /\ \A x, y, z \in Seq(Chars) :
        <<x, y>> \in R /\ <<y, z>> \in R => <<x, z>> \in R
  /\ \A x, y \in Seq(Chars) : x # y => <<x, y>> \in R \/ <<y, x>> \in R

(* It has a first among finitely many. *)
LEMMA FirstExists ==
  ASSUME NEW R, Orders(R),
         NEW S \in SUBSET Seq(Chars), IsFiniteSet(S), S # {}
  PROVE  \E k \in S : \A x \in S : x = k \/ <<k, x>> \in R
<1> DEFINE HasFirst(U) == \E k \in U : \A x \in U : x = k \/ <<k, x>> \in R
           Bad == {U \in SUBSET Seq(Chars) : IsFiniteSet(U) /\ U # {} /\ ~HasFirst(U)}
           sizes == {n \in Nat : \E U \in Bad : Cardinality(U) = n}
<1>1. SUFFICES ASSUME Bad # {} PROVE FALSE  OBVIOUS
<1>2. sizes \in SUBSET Nat /\ sizes # {}  BY <1>1, FS_CardinalityType
<1>3. PICK n \in sizes : \A m \in sizes : n <= m
  <2> HIDE DEF sizes
  <2> QED BY <1>2, LeastNumber
<1>4. PICK U \in Bad : Cardinality(U) = n  BY <1>3
<1>5. PICK u \in U : TRUE  BY <1>4
<1> DEFINE V == U \ {u}
<1>6. /\ IsFiniteSet(V) /\ Cardinality(V) = n - 1 /\ Cardinality(V) \in Nat
  BY <1>4, <1>5, FS_RemoveElement, FS_CardinalityType
<1>7. Cardinality(V) \notin sizes
  <2>1. n \in Nat /\ ~(n <= n - 1)  BY <1>3
  <2> HIDE DEF sizes
  <2> QED BY <1>3, <1>6, <2>1
<1>8. V \notin Bad  BY <1>6, <1>7
<1>9. V = {} \/ HasFirst(V)  BY <1>4, <1>6, <1>8
<1>10. CASE V = {}  BY <1>4, <1>5, <1>10
<1>11. CASE HasFirst(V)
  <2>1. PICK k \in V : \A x \in V : x = k \/ <<k, x>> \in R  BY <1>11
  <2>2. k # u /\ k \in Seq(Chars) /\ u \in Seq(Chars) /\ V \subseteq Seq(Chars)  BY <1>4, <1>5, <2>1
  <2>3. CASE <<k, u>> \in R
    <3>1. \A x \in U : x = k \/ <<k, x>> \in R  BY <2>1, <2>3
    <3> QED BY <1>4, <2>1, <3>1
  <2>4. CASE <<u, k>> \in R
    <3>1. \A x \in U : x = u \/ <<u, x>> \in R  BY <2>1, <2>2, <2>4 DEF Orders
    <3> QED BY <1>4, <1>5, <3>1
  <2> QED BY <2>2, <2>3, <2>4 DEF Orders
<1> QED BY <1>9, <1>10, <1>11

LEMMA LeastIs ==
  ASSUME NEW S \in SUBSET Seq(Chars), IsFiniteSet(S), S # {}
  PROVE  Least(S) \in S /\ \A x \in S : x = Least(S) \/ Less(Least(S), x)
<1> DEFINE R == {p \in Seq(Chars) \X Seq(Chars) : Less(p[1], p[2])}
<1>1. \A x, y \in Seq(Chars) : <<x, y>> \in R <=> Less(x, y)  OBVIOUS
<1> HIDE DEF R
<1>2. \A x, y, z \in Seq(Chars) : <<x, y>> \in R /\ <<y, z>> \in R => <<x, z>> \in R
  BY <1>1, LessTransitive
<1>3. \A x, y \in Seq(Chars) : x # y => <<x, y>> \in R \/ <<y, x>> \in R
  BY <1>1, LessTotal
<1>4. Orders(R)  BY <1>2, <1>3 DEF Orders
<1>5. \E k \in S : \A x \in S : x = k \/ <<k, x>> \in R
  BY <1>4, FirstExists
<1>6. \E k \in S : \A x \in S : x = k \/ Less(k, x)  BY <1>1, <1>5
<1> QED BY <1>6 DEF Least

LEMMA GreatestIs ==
  ASSUME NEW S \in SUBSET Seq(Chars), IsFiniteSet(S), S # {}
  PROVE  Greatest(S) \in S /\ \A x \in S : x = Greatest(S) \/ Less(x, Greatest(S))
<1> DEFINE R == {p \in Seq(Chars) \X Seq(Chars) : Less(p[2], p[1])}
<1>1. \A x, y \in Seq(Chars) : <<x, y>> \in R <=> Less(y, x)  OBVIOUS
<1> HIDE DEF R
<1>2. \A x, y, z \in Seq(Chars) : <<x, y>> \in R /\ <<y, z>> \in R => <<x, z>> \in R
  BY <1>1, LessTransitive
<1>3. \A x, y \in Seq(Chars) : x # y => <<x, y>> \in R \/ <<y, x>> \in R
  BY <1>1, LessTotal
<1>4. Orders(R)  BY <1>2, <1>3 DEF Orders
<1>5. \E k \in S : \A x \in S : x = k \/ <<k, x>> \in R
  BY <1>4, FirstExists
<1>6. \E k \in S : \A x \in S : x = k \/ Less(x, k)  BY <1>1, <1>5
<1> QED BY <1>6 DEF Greatest

-----------------------------------------------------------------------------
(* A scan misses no record                                                 *)

KeyedMap(m) ==
  \E S \in SUBSET AnyKeys : IsFiniteSet(S) /\ m \in [S -> Seq(Chars)]

(* The maps of a file that is not sequential are finite maps of keys, and  *)
(* the width that goes with them is a number.                              *)
MapsInv ==
  /\ idx # None => KeyedMap(idx) /\ keylen \in Nat
  /\ keylen # None => keylen \in Nat
  /\ idxFile.there => KeyedMap(idxFile.entries) /\ idxFile.width \in Nat

(* Before the key START selected, a scan at the cursor finds only keys     *)
(* written since.                                                          *)
Pending(s, m, c) ==
  /\ s \in [key : Seq(Chars), added : SUBSET Seq(Chars)]
  /\ c = None \/ Less(c, s.key)
  /\ \A x \in DOMAIN m :
        (c = None \/ Less(c, x)) /\ Less(x, s.key) => x \in s.added

(* Where a scan stands: after CLOSE at the beginning, and always before    *)
(* every record it still has to return.                                    *)
PositionInv ==
  /\ closed => cursor = None
  /\ missed # None => idx # None /\ missed \subseteq Ahead
  /\ started # None => idx # None /\ Pending(started, idx, cursor)
  /\ ScanIsComplete

ScanInv ==
  ~Sequential => /\ org \in {"INDEXED", "RELATIVE"} /\ reader = None
                 /\ started # None => org = "INDEXED"
                 /\ MapsInv /\ PositionInv

LEMMA KeysAreText == AnyKeys \subseteq Seq(Chars) /\ Keys \subseteq AnyKeys
<1>0. KeyLen \in Nat /\ MaxRrn \in Nat  BY FileIoAssumption
<1>1. ASSUME NEW n \in Nat PROVE [1..n -> Chars] \subseteq Seq(Chars)
  OBVIOUS
<1>2. \A n \in 0..MaxRrn \cup {KeyLen} : [1..n -> Chars] \subseteq Seq(Chars)
  BY <1>0, <1>1
<1> QED BY <1>2 DEF AnyKeys, Keys

LEMMA KeyedMapIs ==
  ASSUME NEW m, KeyedMap(m)
  PROVE  /\ m # None /\ IsFiniteSet(DOMAIN m)
         /\ DOMAIN m \subseteq AnyKeys /\ DOMAIN m \subseteq Seq(Chars)
         /\ \A k \in DOMAIN m : m[k] \in Seq(Chars)
<1>1. PICK S \in SUBSET AnyKeys : IsFiniteSet(S) /\ m \in [S -> Seq(Chars)]
  BY DEF KeyedMap
<1>2. m # None  BY <1>1, FileIoAssumption
<1> QED BY <1>1, <1>2, KeysAreText

LEMMA KeyedEmpty == KeyedMap(NoRecords)
<1>1. NoRecords \in [{} -> Seq(Chars)]  BY DEF NoRecords
<1>2. {} \in SUBSET AnyKeys /\ IsFiniteSet({})  BY FS_EmptySet
<1> QED BY <1>1, <1>2 DEF KeyedMap

LEMMA KeyedPut ==
  ASSUME NEW m, KeyedMap(m), NEW k \in AnyKeys, NEW d \in Seq(Chars)
  PROVE  KeyedMap(Put(m, k, d)) /\ DOMAIN Put(m, k, d) = DOMAIN m \cup {k}
<1>1. PICK S \in SUBSET AnyKeys : IsFiniteSet(S) /\ m \in [S -> Seq(Chars)]
  BY DEF KeyedMap
<1>2. Put(m, k, d) \in [S \cup {k} -> Seq(Chars)]  BY <1>1 DEF Put
<1>3. IsFiniteSet(S \cup {k})  BY <1>1, FS_AddElement
<1> QED BY <1>1, <1>2, <1>3 DEF KeyedMap

LEMMA KeyedWithout ==
  ASSUME NEW m, KeyedMap(m), NEW k
  PROVE  KeyedMap(Without(m, k)) /\ DOMAIN Without(m, k) = DOMAIN m \ {k}
<1>1. PICK S \in SUBSET AnyKeys : IsFiniteSet(S) /\ m \in [S -> Seq(Chars)]
  BY DEF KeyedMap
<1>2. Without(m, k) \in [S \ {k} -> Seq(Chars)]  BY <1>1 DEF Without
<1>3. IsFiniteSet(S \ {k})  BY <1>1, FS_RemoveElement
<1> QED BY <1>1, <1>2, <1>3 DEF KeyedMap

(* keyOf and dataOf, whatever the width. *)
LEMMA SplitAnyRecord ==
  ASSUME NEW rec \in Records, NEW n \in 0..MaxRrn \cup {KeyLen}
  PROVE  /\ n \in Nat /\ KeyOf(rec, n) \in AnyKeys
         /\ DataOf(rec, n) \in Seq(Chars)
<1>0. RecLen \in Nat /\ n \in Nat /\ 0 \in Chars /\ rec \in [1..RecLen -> Chars]
  BY FileIoAssumption
<1>1. rec \in Seq(Chars) /\ Len(rec) = RecLen  BY <1>0
<1>2. KeyOf(rec, n) \in [1..n -> Chars]  BY <1>0, <1>1 DEF KeyOf, Pad
<1>3. DataOf(rec, n) \in Seq(Chars)
  <2>1. CASE Len(rec) > n  BY <1>0, <1>1, <2>1, RestOf DEF DataOf
  <2>2. CASE ~(Len(rec) > n)  BY <2>2 DEF DataOf
  <2> QED BY <2>1, <2>2
<1> QED BY <1>0, <1>2, <1>3 DEF AnyKeys

LEMMA LoadedIsKeyed ==
  ASSUME MapsInv PROVE KeyedMap(Loaded) /\ (idx # None => Loaded = idx)
BY KeyedEmpty DEF MapsInv, Loaded

LEMMA LoadedLenIsWidth ==
  ASSUME MapsInv, NEW n \in Nat PROVE LoadedLen(n) \in Nat
BY DEF MapsInv, LoadedLen

LEMMA StoreIndexMaps ==
  ASSUME MapsInv, NEW m, KeyedMap(m), NEW n \in Nat, StoreIndex(m, n)
  PROVE  MapsInv' /\ idx' = m /\ idx' # None /\ cursor' = cursor
<1>1. LoadedLen(n) \in Nat  BY LoadedLenIsWidth
<1>2. idx' = m /\ keylen' = LoadedLen(n) /\ cursor' = cursor
  BY DEF StoreIndex
<1>3. /\ idxFile'.entries = m
      /\ idxFile'.width = IF keylen' = None THEN 0 ELSE keylen'
  BY <1>2 DEF StoreIndex, PersistIndex
<1> QED BY <1>1, <1>2, <1>3, KeyedMapIs DEF MapsInv

LEMMA EnsureIndexMaps ==
  ASSUME MapsInv, NEW n \in Nat, EnsureIndex(n)
  PROVE  /\ MapsInv' /\ idx' = Loaded /\ idx' # None /\ cursor' = cursor
         /\ idx # None => idx' = idx
BY LoadedIsKeyed, LoadedLenIsWidth, KeyedMapIs DEF EnsureIndex, MapsInv, disk

LEMMA SameMaps ==
  ASSUME MapsInv, UNCHANGED <<idx, keylen, idxFile>> PROVE MapsInv'
BY DEF MapsInv

(* A change that takes no record from the index leaves a scan where it is: *)
(* what START selected is still next, but for the key that was added.      *)
LEMMA PositionKept ==
  ASSUME PositionInv, UNCHANGED <<cursor, closed, missed>>, status' # "10",
         idx # None => idx' # None /\ DOMAIN idx \subseteq DOMAIN idx',
         \/ started' = None
         \/ started # None /\ Pending(started', idx', cursor)
  PROVE  PositionInv'
<1>1. missed' # None => idx' # None /\ missed' \subseteq Ahead'
  BY DEF PositionInv, Ahead
<1>2. started' # None => idx' # None /\ Pending(started', idx', cursor')
  BY DEF PositionInv
<1> QED BY <1>1, <1>2 DEF PositionInv, ScanIsComplete

LEMMA SamePlace ==
  ASSUME PositionInv, UNCHANGED <<cursor, missed, started, idx>>,
         closed' => closed, status' # "10"
  PROVE  PositionInv'
BY DEF PositionInv, ScanIsComplete, Ahead

LEMMA ScanInit == Init => ScanInv
BY DEF Init, ScanInv, MapsInv, PositionInv, ScanIsComplete, NoFile, Sequential

LEMMA ScanOpen ==
  ASSUME ScanInv, ~Sequential, NEW mode \in Modes, Open(mode)
  PROVE  /\ reader' = None /\ MapsInv' /\ PositionInv'
         /\ started' = None \/ started' = started
<1>0. /\ reader = None /\ MapsInv /\ PositionInv /\ org' = org
      /\ mode = "OUTPUT" => missed' = None /\ started' = None
      /\ mode # "OUTPUT" => started' = started
      /\ closed' = (closed /\ status' # "00")
      /\ mode # "OUTPUT" =>
           missed' = IF status' = "00" /\ idx' # None /\ closed
                     THEN DOMAIN idx' ELSE missed
  BY DEF ScanInv, Open
<1>1. /\ OpenRelative(mode) \/ OpenIndexed(mode)
      /\ reader' = reader /\ cursor' = cursor /\ status' \in {"00", "35"}
  <2>1. OpenRelative(mode) \/ OpenIndexed(mode)
    BY DEF Open, RtOpen, ScanInv
  <2>2. reader' = reader /\ cursor' = cursor /\ status' \in {"00", "35"}
    BY <2>1 DEF OpenRelative, OpenIndexed, OpenMissing, StoreRelative,
                EnsureIndex, handles, maps
  <2> QED BY <2>1, <2>2
<1>2. CASE mode = "OUTPUT"
  <2>1. \/ UNCHANGED <<idx, keylen, idxFile>>
        \/ idx' = NoRecords /\ keylen' = KeyLen /\ idxFile' = NoFile
    BY <1>1, <1>2 DEF OpenRelative, OpenIndexed, StoreRelative
  <2>2. MapsInv'
    BY <1>0, <2>1, SameMaps, KeyedEmpty, FileIoAssumption DEF MapsInv, NoFile
  <2>3. PositionInv'
    BY <1>0, <1>1, <1>2 DEF PositionInv, ScanIsComplete
  <2> QED BY <1>0, <1>1, <1>2, <2>2, <2>3
<1>3. CASE mode # "OUTPUT"
  <2>1. \/ UNCHANGED <<idx, keylen, idxFile>>
        \/ EnsureIndex(KeyLen)
    BY <1>1, <1>3 DEF OpenRelative, OpenIndexed, OpenMissing, maps, disk
  <2>2. MapsInv' /\ (idx # None => idx' = idx)
    BY <1>0, <2>1, SameMaps, EnsureIndexMaps, FileIoAssumption
  <2>3. CASE status' = "00" /\ idx' # None /\ closed
    <3>1. cursor' = None /\ missed' = DOMAIN idx'
      BY <1>0, <1>1, <1>3, <2>3 DEF PositionInv
    <3>2. missed' \subseteq Ahead'  BY <3>1 DEF Ahead
    <3>3. started' # None => idx' # None /\ Pending(started', idx', cursor')
      BY <1>0, <1>1, <1>3, <2>2 DEF PositionInv
    <3>4. closed' = FALSE  BY <1>0, <2>3
    <3> QED BY <1>0, <1>1, <1>3, <2>2, <2>3, <3>2, <3>3, <3>4
            DEF PositionInv, ScanIsComplete
  <2>4. CASE ~(status' = "00" /\ idx' # None /\ closed)
    <3>1. missed' = missed  BY <1>0, <1>3, <2>4
    <3>2. missed' # None => idx' # None /\ missed' \subseteq Ahead'
      BY <1>0, <1>1, <2>2, <3>1 DEF PositionInv, Ahead
    <3>3. started' # None => idx' # None /\ Pending(started', idx', cursor')
      BY <1>0, <1>1, <1>3, <2>2 DEF PositionInv
    <3>4. closed' => cursor' = None  BY <1>0, <1>1 DEF PositionInv
    <3> QED BY <1>0, <1>1, <1>3, <2>2, <3>2, <3>3, <3>4
            DEF PositionInv, ScanIsComplete
  <2> QED BY <2>3, <2>4
<1> QED BY <1>2, <1>3

LEMMA ScanClose ==
  ASSUME ScanInv, ~Sequential, Close
  PROVE  reader' = None /\ MapsInv' /\ PositionInv' /\ started' = None
<1>0. /\ MapsInv /\ RtClose /\ missed' = None /\ started' = None
      /\ cursor' = None /\ reader' = None /\ status' = "00"
      /\ UNCHANGED <<idx, keylen>>
  BY DEF ScanInv, Close, RtClose
<1>1. MapsInv'
  <2>1. CASE idx = None  BY <1>0, <2>1, SameMaps DEF RtClose
  <2>2. CASE idx # None
    <3>1. /\ idxFile'.entries = idx /\ idxFile'.width = IF keylen = None THEN 0 ELSE keylen
      BY <1>0, <2>2 DEF RtClose, PersistIndex
    <3> QED BY <1>0, <2>2, <3>1 DEF MapsInv
  <2> QED BY <2>1, <2>2
<1> QED BY <1>0, <1>1 DEF PositionInv, ScanIsComplete

(* WRITE adds one record: the one START selected may get a new record      *)
(* before it, which is then among the added.                               *)
LEMMA ScanWrite ==
  ASSUME ScanInv, ~Sequential, NEW rec \in Records, NEW n \in Rrns, Write(rec, n)
  PROVE  reader' = None /\ MapsInv' /\ PositionInv' /\ (started = None => started' = None)
<1> DEFINE arg == KeyArgument(n)
           k == KeyOf(rec, arg)
           d == DataOf(rec, arg)
<1>1. /\ RtWrite(rec, arg) /\ reader = None /\ MapsInv /\ PositionInv
      /\ UNCHANGED <<org, closed, missed>>
      /\ started # None => org = "INDEXED"
      /\ started' = IF started = None \/ status' # "00" THEN started
                    ELSE [started EXCEPT !.added = @ \cup {KeyOf(rec, KeyLen)}]
  BY DEF Write, Image, ScanInv, Sequential
<1>2. arg \in 0..MaxRrn \cup {KeyLen}  BY DEF KeyArgument, Rrns, ScanInv
<1>3. arg \in Nat /\ k \in AnyKeys /\ d \in Seq(Chars)  BY <1>2, SplitAnyRecord
<1>4. org = "INDEXED" => arg = KeyLen  BY DEF KeyArgument
<1> HIDE DEF arg, k, d
<1>5. /\ reader' = None
      /\ \/ UNCHANGED <<idx, cursor, keylen, idxFile>> /\ status' \in {"00", "22", "23"}
         \/ EnsureIndex(arg) /\ status' = "22"
         \/ StoreIndex(Put(Loaded, k, d), arg) /\ status' = "00"
  BY <1>1 DEF RtWrite, StoreRelative, handles, maps, disk, k, d
<1>6. CASE EnsureIndex(arg) /\ status' = "22"
  <2>1. started' = started  BY <1>1, <1>6
  <2>2. MapsInv' /\ cursor' = cursor /\ (idx # None => idx' = idx) /\ idx' # None
    BY <1>1, <1>3, <1>6, EnsureIndexMaps
  <2>3. started # None => Pending(started', idx', cursor)
    BY <1>1, <2>1, <2>2 DEF PositionInv
  <2>4. PositionInv'  BY <1>1, <1>6, <2>1, <2>2, <2>3, PositionKept
  <2> QED BY <1>5, <2>1, <2>2, <2>4
<1>7. CASE StoreIndex(Put(Loaded, k, d), arg) /\ status' = "00"
  <2>1. KeyedMap(Loaded) /\ (idx # None => Loaded = idx)
    BY <1>1, LoadedIsKeyed
  <2>2. /\ KeyedMap(Put(Loaded, k, d))
        /\ DOMAIN Put(Loaded, k, d) = DOMAIN Loaded \cup {k}
    BY <1>3, <2>1, KeyedPut
  <2>3. MapsInv' /\ idx' = Put(Loaded, k, d) /\ idx' # None /\ cursor' = cursor
    BY <1>1, <1>3, <1>7, <2>2, StoreIndexMaps
  <2>4. idx # None => DOMAIN idx' = DOMAIN idx \cup {k}  BY <2>1, <2>2, <2>3
  <2>5. CASE started = None
    <3>1. started' = None  BY <1>1, <2>5
    <3>2. PositionInv'  BY <1>1, <1>7, <2>3, <2>4, <3>1, PositionKept
    <3> QED BY <1>5, <2>3, <3>1, <3>2
  <2>6. CASE started # None
    <3>1. /\ idx # None /\ Pending(started, idx, cursor)
          /\ k = KeyOf(rec, KeyLen)
      BY <1>1, <1>4, <2>6 DEF PositionInv, k
    <3>2. started' = [started EXCEPT !.added = @ \cup {k}]
      BY <1>1, <1>7, <2>6, <3>1
    <3>3. started \in [key : Seq(Chars), added : SUBSET Seq(Chars)]
      BY <3>1 DEF Pending
    <3>4. /\ started'.key = started.key
          /\ started'.added = started.added \cup {k}
          /\ started' \in [key : Seq(Chars), added : SUBSET Seq(Chars)]
      BY <1>3, <3>2, <3>3, KeysAreText
    <3>5. Pending(started', idx', cursor)
      BY <2>4, <3>1, <3>4 DEF Pending
    <3>6. PositionInv'
      BY <1>1, <1>7, <2>3, <2>4, <2>6, <3>5, PositionKept
    <3> QED BY <1>5, <2>3, <2>6, <3>6
  <2> QED BY <2>5, <2>6
<1>8. CASE /\ UNCHANGED <<idx, cursor, keylen, idxFile>>
           /\ status' \in {"00", "22", "23"}
  <2>1. MapsInv'  BY <1>1, <1>8, SameMaps
  <2>2. CASE started' = started
    <3>1. PositionInv'  BY <1>1, <1>8, <2>2, SamePlace
    <3> QED BY <1>5, <2>1, <2>2, <3>1
  <2>3. CASE started' # started
    <3>1. started # None /\ org = "INDEXED" /\ idx # None /\ KeyLen > 0
      BY <1>1, <2>3, FileIoAssumption DEF PositionInv
    <3>2. PositionInv'
      <4>1. Pending(started, idx, cursor)  BY <1>1, <3>1 DEF PositionInv
      <4>2. started' = [started EXCEPT !.added = @ \cup {KeyOf(rec, KeyLen)}]
        BY <1>1, <2>3
      <4>3. started \in [key : Seq(Chars), added : SUBSET Seq(Chars)]
        BY <4>1 DEF Pending
      <4>4. KeyOf(rec, KeyLen) \in Seq(Chars)  BY SplitAnyRecord, KeysAreText
      <4>5. /\ started'.key = started.key
            /\ started.added \subseteq started'.added
            /\ started' \in [key : Seq(Chars), added : SUBSET Seq(Chars)]
        BY <4>2, <4>3, <4>4
      <4>6. Pending(started', idx', cursor)  BY <1>8, <4>1, <4>5 DEF Pending
      <4> QED BY <1>1, <1>8, <3>1, <4>6, PositionKept
    <3> QED BY <1>5, <2>1, <3>1, <3>2
  <2> QED BY <2>2, <2>3
<1> QED BY <1>5, <1>6, <1>7, <1>8

(* REWRITE replaces a record and moves none. *)
LEMMA ScanRewrite ==
  ASSUME ScanInv, ~Sequential, NEW rec \in Records, NEW n \in Rrns, Rewrite(rec, n)
  PROVE  reader' = None /\ MapsInv' /\ PositionInv' /\ started' = started
<1> DEFINE arg == KeyArgument(n)
           k == KeyOf(rec, arg)
           d == DataOf(rec, arg)
<1>1. /\ RtRewrite(rec, arg) /\ reader = None /\ MapsInv /\ PositionInv
      /\ UNCHANGED <<org, closed, missed, started>>
  BY DEF Rewrite, ScanInv, history
<1>2. arg \in 0..MaxRrn \cup {KeyLen}  BY DEF KeyArgument, Rrns, ScanInv
<1>3. arg \in Nat /\ k \in AnyKeys /\ d \in Seq(Chars)  BY <1>2, SplitAnyRecord
<1> HIDE DEF arg, k, d
<1>5. /\ reader' = None /\ status' # "10"
      /\ \/ UNCHANGED <<idx, cursor, keylen, idxFile>>
         \/ EnsureIndex(arg)
         \/ k \in DOMAIN Loaded /\ StoreIndex(Put(Loaded, k, d), arg)
  BY <1>1 DEF RtRewrite, StoreRelative, handles, maps, disk, k, d
<1>6. CASE EnsureIndex(arg)
  <2>1. MapsInv' /\ cursor' = cursor /\ (idx # None => idx' = idx) /\ idx' # None
    BY <1>1, <1>3, <1>6, EnsureIndexMaps
  <2>2. started # None => Pending(started', idx', cursor)
    BY <1>1, <2>1 DEF PositionInv
  <2>3. PositionInv'  BY <1>1, <1>5, <2>1, <2>2, PositionKept
  <2> QED BY <1>1, <1>5, <2>1, <2>3
<1>7. CASE k \in DOMAIN Loaded /\ StoreIndex(Put(Loaded, k, d), arg)
  <2>1. KeyedMap(Loaded) /\ (idx # None => Loaded = idx)
    BY <1>1, LoadedIsKeyed
  <2>2. KeyedMap(Put(Loaded, k, d)) /\ DOMAIN Put(Loaded, k, d) = DOMAIN Loaded
    <3>1. /\ KeyedMap(Put(Loaded, k, d))
          /\ DOMAIN Put(Loaded, k, d) = DOMAIN Loaded \cup {k}
      BY <1>3, <2>1, KeyedPut
    <3>2. DOMAIN Loaded \cup {k} = DOMAIN Loaded  BY <1>7
    <3> QED BY <3>1, <3>2
  <2>3. MapsInv' /\ idx' = Put(Loaded, k, d) /\ idx' # None /\ cursor' = cursor
    BY <1>1, <1>3, <1>7, <2>2, StoreIndexMaps
  <2>4. idx # None => DOMAIN idx' = DOMAIN idx  BY <2>1, <2>2, <2>3
  <2>5. started # None => Pending(started', idx', cursor)
    BY <1>1, <2>4 DEF PositionInv, Pending
  <2>6. PositionInv'  BY <1>1, <1>5, <2>3, <2>4, <2>5, PositionKept
  <2> QED BY <1>1, <1>5, <2>3, <2>6
<1>8. CASE UNCHANGED <<idx, cursor, keylen, idxFile>>
  BY <1>1, <1>5, <1>8, SameMaps, SamePlace
<1> QED BY <1>5, <1>6, <1>7, <1>8

(* DELETE takes one record away, and forgets a START that selected it. *)
LEMMA ScanDelete ==
  ASSUME ScanInv, ~Sequential, NEW k \in Keys, NEW n \in Rrns, Delete(k, n)
  PROVE  /\ reader' = None /\ MapsInv' /\ PositionInv'
         /\ started' = None \/ started' = started
<1>1. /\ reader = None /\ MapsInv /\ PositionInv /\ closed' = closed
      /\ started' = IF started # None /\ started.key = k THEN None ELSE started
      /\ missed' = IF missed = None THEN None ELSE missed \ {k}
      /\ started # None => org = "INDEXED"
  BY DEF Delete, ScanInv
<1>2. /\ reader' = None /\ status' # "10"
      /\ \/ UNCHANGED <<idx, cursor, keylen, idxFile>>
         \/ EnsureIndex(KeyLen)
         \/ k \in DOMAIN Loaded /\ StoreIndex(Without(Loaded, k), KeyLen)
  BY <1>1 DEF Delete, RtDelete, RtDeleteRelative, StoreRelative, handles, maps, disk
<1>3. /\ KeyedMap(Loaded) /\ (idx # None => Loaded = idx) /\ KeyLen \in Nat
  BY <1>1, LoadedIsKeyed, FileIoAssumption
<1>4. /\ MapsInv' /\ cursor' = cursor
      /\ idx # None => /\ idx' # None
                       /\ DOMAIN idx \ {k} \subseteq DOMAIN idx'
                       /\ DOMAIN idx' \subseteq DOMAIN idx
  <2>1. CASE UNCHANGED <<idx, cursor, keylen, idxFile>>
    BY <1>1, <2>1, SameMaps
  <2>2. CASE EnsureIndex(KeyLen)  BY <1>1, <1>3, <2>2, EnsureIndexMaps
  <2>3. CASE k \in DOMAIN Loaded /\ StoreIndex(Without(Loaded, k), KeyLen)
    <3>1. /\ KeyedMap(Without(Loaded, k))
          /\ DOMAIN Without(Loaded, k) = DOMAIN Loaded \ {k}
      BY <1>3, KeyedWithout
    <3>2. /\ MapsInv' /\ idx' = Without(Loaded, k) /\ idx' # None
          /\ cursor' = cursor
      BY <1>1, <1>3, <2>3, <3>1, StoreIndexMaps
    <3> QED BY <1>3, <3>1, <3>2
  <2> QED BY <1>2, <2>1, <2>2, <2>3
<1>5. missed' # None => idx' # None /\ missed' \subseteq Ahead'
  BY <1>1, <1>4 DEF PositionInv, Ahead
<1>6. started' # None => idx' # None /\ Pending(started', idx', cursor')
  BY <1>1, <1>4 DEF PositionInv, Pending
<1>7. PositionInv'
  BY <1>1, <1>2, <1>4, <1>5, <1>6 DEF PositionInv, ScanIsComplete
<1> QED BY <1>1, <1>2, <1>4, <1>7

(* The records in the index, and the ones a scan has before it. *)
LEMMA KeysOfIndex ==
  ASSUME MapsInv, idx # None, NEW S \in SUBSET DOMAIN idx
  PROVE  S \in SUBSET Seq(Chars) /\ IsFiniteSet(S)
<1>1. IsFiniteSet(DOMAIN idx) /\ DOMAIN idx \subseteq Seq(Chars)
  BY KeyedMapIs DEF MapsInv
<1> QED BY <1>1, FS_Subset

(* START: the cursor is left just before the key it selected. *)
LEMMA ScanStart ==
  ASSUME ScanInv, ~Sequential, NEW op \in Relations, NEW k \in Keys, Start(op, k)
  PROVE  reader' = None /\ MapsInv' /\ PositionInv'
<1>1. /\ RtStart(op, k) /\ reader = None /\ MapsInv /\ PositionInv
      /\ started' = IF status' # "00" THEN started
                    ELSE [key |-> StartKey(op, k), added |-> {}]
      /\ missed' = IF status' = "00" THEN None ELSE missed
      /\ closed' = (closed /\ status' # "00")
  BY DEF Start, ScanInv
<1>2. /\ reader' = None /\ UNCHANGED <<idx, keylen, idxFile>>
  BY <1>1 DEF RtStart, handles, disk
<1>3. MapsInv'  BY <1>1, <1>2, SameMaps
<1>4. CASE idx = None \/ (idx # None /\ Selected(op, k) = {})
  <2>1. status' = "23" /\ cursor' = cursor  BY <1>1, <1>4 DEF RtStart
  <2>2. PositionInv'  BY <1>1, <1>2, <2>1, SamePlace
  <2> QED BY <1>2, <1>3, <2>2
<1>5. CASE ~(idx = None \/ (idx # None /\ Selected(op, k) = {}))
  <2> DEFINE key == StartKey(op, k)
             before == {x \in DOMAIN idx : Less(x, key)}
  <2>1. idx # None /\ Selected(op, k) # {}  BY <1>5
  <2>2. Selected(op, k) \in SUBSET DOMAIN idx  BY DEF Selected
  <2>3. key \in DOMAIN idx
    <3>1. Selected(op, k) \in SUBSET Seq(Chars) /\ IsFiniteSet(Selected(op, k))
      BY <1>1, <2>1, <2>2, KeysOfIndex
    <3>2. key \in Selected(op, k)  BY <2>1, <3>1, LeastIs, GreatestIs DEF StartKey
    <3> QED BY <2>2, <3>2
  <2>4. DOMAIN idx \subseteq Seq(Chars)  BY <1>1, <2>1, KeysOfIndex
  <2>5. /\ cursor' = IF before = {} THEN None ELSE Greatest(before)
        /\ status' = "00"
    BY <1>1, <1>5 DEF RtStart
  <2> HIDE DEF key
  <2>6. before \in SUBSET Seq(Chars) /\ IsFiniteSet(before)
    <3>1. before \in SUBSET DOMAIN idx  OBVIOUS
    <3> QED BY <1>1, <2>1, <3>1, KeysOfIndex
  <2>7. /\ cursor' = None \/ Less(cursor', key)
        /\ \A x \in DOMAIN idx :
              (cursor' = None \/ Less(cursor', x)) => ~Less(x, key)
    <3>1. CASE before = {}  BY <2>5, <3>1
    <3>2. CASE before # {}
      <4> DEFINE last == Greatest(before)
      <4>1. last \in before /\ \A x \in before : x = last \/ Less(x, last)
        BY <2>6, <3>2, GreatestIs
      <4>2. cursor' = last /\ last \in Seq(Chars) /\ Less(last, key)
        BY <2>4, <2>5, <3>2, <4>1
      <4>3. last # None  BY <4>2, FileIoAssumption
      <4> HIDE DEF last
      <4>4. ASSUME NEW x \in DOMAIN idx, Less(last, x), Less(x, key) PROVE FALSE
        <5>1. x \in before /\ x \in Seq(Chars)  BY <2>4, <4>4
        <5>2. x = last \/ Less(x, last)  BY <4>1, <5>1
        <5>3. Less(last, last)  BY <4>2, <4>4, <5>1, <5>2, LessTransitive
        <5> QED BY <4>2, <5>3, LessIrreflexive
      <4> QED BY <4>2, <4>3, <4>4
    <3> QED BY <3>1, <3>2
  <2>8. started' = [key |-> key, added |-> {}]  BY <1>1, <2>5 DEF key
  <2>9. Pending(started', idx', cursor')
    <3>1. /\ started'.key = key /\ started'.added = {}
          /\ started' \in [key : Seq(Chars), added : SUBSET Seq(Chars)]
      BY <2>3, <2>4, <2>8
    <3> QED BY <1>2, <2>7, <3>1 DEF Pending
  <2>10. PositionInv'
    BY <1>1, <1>2, <2>1, <2>5, <2>9 DEF PositionInv, ScanIsComplete
  <2> QED BY <1>2, <1>3, <2>10
<1> QED BY <1>4, <1>5

(* A record the cursor returns is no None, so AT END means none is left. *)
LEMMA CursorRecordIs ==
  ASSUME MapsInv, idx # None, Ahead # {}
  PROVE  /\ CursorRecord # None
         /\ Least(Ahead) \in Ahead
         /\ \A x \in Ahead : x = Least(Ahead) \/ Less(Least(Ahead), x)
<1>1. Ahead \in SUBSET DOMAIN idx  BY DEF Ahead
<1>2. Ahead \in SUBSET Seq(Chars) /\ IsFiniteSet(Ahead)  BY <1>1, KeysOfIndex
<1>3. /\ Least(Ahead) \in Ahead
      /\ \A x \in Ahead : x = Least(Ahead) \/ Less(Least(Ahead), x)
  BY <1>2, LeastIs
<1>4. Least(Ahead) \in Seq(Chars) /\ idx[Least(Ahead)] \in Seq(Chars)
  BY <1>1, <1>3, KeyedMapIs DEF MapsInv
<1>5. Pad(Least(Ahead), keylen) \in Seq(Chars)
  BY <1>4, FileIoAssumption DEF Pad, MapsInv
<1>6. Pad(Least(Ahead), keylen) \o idx[Least(Ahead)] \in Seq(Chars)
  BY <1>4, <1>5
<1>7. Pad(Least(Ahead), keylen) \o idx[Least(Ahead)] # None
  BY <1>6, FileIoAssumption
<1> QED BY <1>3, <1>7 DEF CursorRecord

(* READ NEXT passes the least record ahead and no other. *)
LEMMA ScanReadNext ==
  ASSUME ScanInv, ~Sequential, ReadNext
  PROVE  /\ reader' = None /\ MapsInv' /\ PositionInv'
         /\ started' = None \/ started' = started
<1>1. /\ reader = None /\ MapsInv /\ PositionInv
      /\ ReadOutcome(CursorRecord, "10") /\ AdvanceCursor
      /\ UNCHANGED <<reader, idx, keylen, idxFile>>
      /\ started' = IF status' = "00" THEN None ELSE started
      /\ missed' = IF missed = None \/ status' # "00" THEN missed
                   ELSE missed \ {cursor'}
  BY DEF ReadNext, ScanInv, disk
<1>2. MapsInv'  BY <1>1, SameMaps
<1>3. CASE CursorRecord = None
  <2>1. /\ status' = "10" /\ (closed' => closed) /\ cursor' = cursor
        /\ missed' = missed /\ started' = started
    BY <1>1, <1>3 DEF ReadOutcome, AdvanceCursor
  <2>2. missed # None => missed = {}
    BY <1>1, <1>3, CursorRecordIs DEF PositionInv
  <2>3. PositionInv'
    BY <1>1, <2>1, <2>2 DEF PositionInv, ScanIsComplete, Ahead
  <2> QED BY <1>1, <1>2, <2>1, <2>3
<1>4. CASE CursorRecord # None
  <2>1. /\ status' = "00" /\ closed' = FALSE /\ cursor' = Least(Ahead)
        /\ started' = None
    BY <1>1, <1>4 DEF ReadOutcome, AdvanceCursor
  <2>2. idx # None /\ Ahead # {}  BY <1>4 DEF CursorRecord
  <2>3. \A x \in Ahead : x = Least(Ahead) \/ Less(Least(Ahead), x)
    BY <1>1, <2>2, CursorRecordIs
  <2>4. missed' # None => idx' # None /\ missed' \subseteq Ahead'
    <3>1. CASE missed = None  BY <1>1, <3>1
    <3>2. CASE missed # None
      <4>1. missed' = missed \ {Least(Ahead)} /\ missed \subseteq Ahead
        BY <1>1, <2>1, <3>2 DEF PositionInv
      <4> QED BY <1>1, <2>1, <2>2, <2>3, <4>1 DEF Ahead
    <3> QED BY <3>1, <3>2
  <2>5. PositionInv'  BY <2>1, <2>4 DEF PositionInv, ScanIsComplete
  <2> QED BY <1>1, <1>2, <2>1, <2>5
<1> QED BY <1>3, <1>4

(* READ by key moves the cursor, and ends the scan and the START. *)
LEMMA ScanReadKey ==
  ASSUME ScanInv, ~Sequential, NEW k \in Keys, ReadKey(k)
  PROVE  /\ reader' = None /\ MapsInv' /\ PositionInv'
         /\ started' = None \/ started' = started
<1>1. /\ reader' = None /\ MapsInv /\ PositionInv
      /\ UNCHANGED <<idx, keylen, idxFile>>
      /\ status' \in {"00", "23"}
      /\ closed' = (closed /\ status' # "00")
      /\ cursor' = IF status' = "00" THEN k ELSE cursor
      /\ started' = IF status' = "00" THEN None ELSE started
      /\ missed' = IF status' = "00" THEN None ELSE missed
  BY DEF ReadKey, ReadOutcome, ScanInv, handles, disk
<1>2. MapsInv'  BY <1>1, SameMaps
<1>3. CASE status' = "00"
  BY <1>1, <1>2, <1>3 DEF PositionInv, ScanIsComplete
<1>4. CASE status' # "00"
  BY <1>1, <1>2, <1>4, SamePlace
<1> QED BY <1>3, <1>4

LEMMA ScanReadRelative ==
  ASSUME ScanInv, ~Sequential, NEW n \in Rrns, ReadRelative(n)
  PROVE  reader' = None /\ MapsInv' /\ PositionInv' /\ started' = started
<1>1. /\ reader' = None /\ MapsInv /\ PositionInv
      /\ UNCHANGED <<idx, keylen, idxFile, cursor, missed, started>>
      /\ status' # "10" /\ (closed' => closed)
  BY DEF ReadRelative, ReadOutcome, ScanInv, handles, maps, disk
<1> QED BY <1>1, SameMaps, SamePlace

LEMMA ScanStep == ScanInv /\ [Next]_vars => ScanInv'
<1> SUFFICES ASSUME ScanInv, [Next]_vars PROVE ScanInv'
  OBVIOUS
<1>0. org' = org
  BY DEF Next, vars, Open, Close, Write, Rewrite, Delete, Start, ReadNext,
         ReadKey, ReadRelative, NextRunUnit
<1>1. CASE Sequential  BY <1>0, <1>1 DEF ScanInv, Sequential
<1>2. CASE ~Sequential /\ UNCHANGED vars
  BY <1>2 DEF vars, handles, maps, disk, history, ScanInv, Sequential,
              MapsInv, PositionInv, ScanIsComplete, Ahead
<1>3. CASE ~Sequential /\ Next
  <2>0. /\ org \in {"INDEXED", "RELATIVE"}
        /\ started # None => org = "INDEXED"
    BY <1>3 DEF ScanInv
  <2> DEFINE Kept == /\ reader' = None /\ MapsInv' /\ PositionInv'
                     /\ started' # None => org = "INDEXED"
  <2>1. CASE \E mode \in Modes : Open(mode)
    <3>1. Kept  BY <1>3, <2>0, <2>1, ScanOpen
    <3> QED BY <1>0, <2>0, <3>1 DEF ScanInv
  <2>2. CASE Close
    <3>1. Kept  BY <1>3, <2>0, <2>2, ScanClose
    <3> QED BY <1>0, <2>0, <3>1 DEF ScanInv
  <2>3. CASE \E rec \in Records, n \in Rrns : Write(rec, n)
    <3>1. Kept  BY <1>3, <2>0, <2>3, ScanWrite
    <3> QED BY <1>0, <2>0, <3>1 DEF ScanInv
  <2>4. CASE \E rec \in Records, n \in Rrns : Rewrite(rec, n)
    <3>1. Kept  BY <1>3, <2>0, <2>4, ScanRewrite
    <3> QED BY <1>0, <2>0, <3>1 DEF ScanInv
  <2>5. CASE \E k \in Keys, n \in Rrns : Delete(k, n)
    <3>1. Kept  BY <1>3, <2>0, <2>5, ScanDelete
    <3> QED BY <1>0, <2>0, <3>1 DEF ScanInv
  <2>6. CASE \E op \in Relations, k \in Keys : Start(op, k)
    <3>1. Kept  BY <1>3, <2>0, <2>6, ScanStart DEF Start
    <3> QED BY <1>0, <2>0, <3>1 DEF ScanInv
  <2>7. CASE ReadNext
    <3>1. Kept  BY <1>3, <2>0, <2>7, ScanReadNext
    <3> QED BY <1>0, <2>0, <3>1 DEF ScanInv
  <2>8. CASE \E k \in Keys : ReadKey(k)
    <3>1. Kept  BY <1>3, <2>0, <2>8, ScanReadKey
    <3> QED BY <1>0, <2>0, <3>1 DEF ScanInv
  <2>9. CASE \E n \in Rrns : ReadRelative(n)
    <3>1. Kept  BY <1>3, <2>0, <2>9, ScanReadRelative
    <3> QED BY <1>0, <2>0, <3>1 DEF ScanInv
  <2>10. CASE NextRunUnit
    BY <1>0, <1>3, <2>0, <2>10
    DEF NextRunUnit, ScanInv, MapsInv, PositionInv, ScanIsComplete, disk
  <2> QED BY <1>3, <2>1, <2>2, <2>3, <2>4, <2>5, <2>6, <2>7, <2>8, <2>9, <2>10
          DEF Next
<1> QED BY <1>1, <1>2, <1>3

(* readNextCursor and start: whatever a program writes, rewrites or        *)
(* deletes between its reads, a scan from the first record returns every   *)
(* record that stays, and the READ NEXT after a START the one it selected  *)
(* or one written since.                                                   *)
THEOREM ScansAreComplete == Spec => []ScansMissNothing
<1>1. ScanInv /\ SequentialInv => ScansMissNothing
  <2> SUFFICES ASSUME ScanInv, SequentialInv PROVE ScansMissNothing
    OBVIOUS
  <2>1. CASE Sequential
    BY <2>1 DEF SequentialInv, ScansMissNothing, ScanIsComplete,
                StartedIsNextUnlessWritten
  <2>2. CASE ~Sequential
    <3>1. MapsInv /\ PositionInv  BY <2>2 DEF ScanInv
    <3>2. StartedIsNextUnlessWritten
      <4> SUFFICES ASSUME started # None, started.key \in DOMAIN StoredOrEmpty
                   PROVE  /\ Ahead # {}
                          /\ Least(Ahead) \in {started.key} \cup started.added
        BY DEF StartedIsNextUnlessWritten
      <4>1. idx # None /\ Pending(started, idx, cursor)
        BY <3>1 DEF PositionInv
      <4>2. started.key \in DOMAIN idx  BY <4>1 DEF StoredOrEmpty, Stored
      <4>3. started.key \in Ahead  BY <4>1, <4>2 DEF Pending, Ahead
      <4>4. /\ Least(Ahead) \in Ahead
            /\ started.key = Least(Ahead) \/ Less(Least(Ahead), started.key)
        BY <3>1, <4>1, <4>3, CursorRecordIs
      <4>5. Least(Ahead) \in DOMAIN idx /\ (cursor = None \/ Less(cursor, Least(Ahead)))
        BY <4>4 DEF Ahead
      <4> QED BY <4>1, <4>3, <4>4, <4>5 DEF Pending
    <3> QED BY <3>1, <3>2 DEF PositionInv, ScansMissNothing
  <2> QED BY <2>1, <2>2
<1> QED BY <1>1, ScanInit, ScanStep, SequentialInit, SequentialStep, PTL DEF Spec
=============================================================================
