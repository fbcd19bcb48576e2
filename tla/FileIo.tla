------------------------------- MODULE FileIo -------------------------------
(***************************************************************************)
(* The file statements of a translated program: what the mapper emits for  *)
(* OPEN, CLOSE, READ, WRITE, START, REWRITE and DELETE, and the generated  *)
(* support class CobolFileIo those calls reach, with its static maps and   *)
(* the files on disk.  One file of one organization; the program is any    *)
(* sequence of statements, and the run unit may end between any two.       *)
(*                                                                         *)
(* A record is a sequence of RecLen characters, 0 standing for the space;  *)
(* the record key is its first KeyLen characters.                          *)
(***************************************************************************)
EXTENDS Integers, Sequences

CONSTANTS Records,    \* the record areas the program writes
          Chars,      \* the characters, with 0 the space
          RecLen, KeyLen,
          MaxRrn,     \* bound: relative record numbers the program uses
          MaxLines,   \* bound: records of a sequential file
          None        \* no handle, map, file, key or record

Keys == [1..KeyLen -> Chars]
DataPart == [1..RecLen - KeyLen -> Chars]
IndexMaps == UNION {[S -> DataPart] : S \in SUBSET Keys}
(* The keys write can build: a WRITE to a relative file that has no store  *)
(* yet takes the record number for the width of a key.                     *)
AnyKeys == UNION {[1..n -> Chars] : n \in 0..MaxRrn \cup {KeyLen}}

ASSUME FileIoAssumption ==
  /\ KeyLen \in Nat \ {0} /\ RecLen \in Nat /\ KeyLen < RecLen
  /\ MaxRrn \in Nat /\ MaxLines \in Nat
  /\ Chars \subseteq Nat /\ 0 \in Chars
  /\ Records \subseteq [1..RecLen -> Chars]
  /\ None \notin IndexMaps /\ None \notin Seq(Chars)
  /\ \A S \in SUBSET AnyKeys : None \notin [S -> Seq(Chars)]

VARIABLES
  org,       \* ORGANIZATION: INDEXED, RELATIVE, LINE or RECORD (sequential)
  reader,    \* CobolFileIo.IN: None, or how far it read and what it buffers
  writer,    \* CobolFileIo.OUT holds a writer
  idx,       \* CobolFileIo.IDX: None, or key -> data
  rel,       \* CobolFileIo.REL: None, or record number -> record
  cursor,    \* CobolFileIo.CURSOR: None or a key
  keylen,    \* CobolFileIo.KEYLEN: None or a width
  lines,     \* the file at the path: None or its records
  idxFile,   \* the .idx side file: whether it is there, width and entries
  relFile,   \* the .rel side file: None or its entries
  status,    \* the FILE STATUS field
  verb,      \* the last statement
  branch,    \* which body the last statement ran: ok, fail or none
  written,   \* history: record areas written since OPEN OUTPUT
  got,       \* history: record areas READ since OPEN INPUT; None when stale
  started,   \* history: the key START selected and no READ has taken yet,
             \* with the keys written since; or None
  closed,    \* history: no OPEN, READ or START succeeded since CLOSE or the
             \* start of the run unit
  missed     \* history: keys a scan from the first record has still to return

handles == <<reader, writer>>
maps    == <<idx, rel, cursor, keylen>>
disk    == <<lines, idxFile, relFile>>
history == <<written, got, started, closed, missed>>
vars == <<org, handles, maps, disk, status, verb, branch, history>>

-----------------------------------------------------------------------------
(* Records and keys                                                        *)

(* CobolFileIo.pad of alphanumeric text: cut or filled with spaces. *)
Pad(s, n) == [i \in 1..n |-> IF i <= Len(s) THEN s[i] ELSE 0]

KeyOf(rec, n)  == Pad(rec, n)
DataOf(rec, n) == IF Len(rec) > n THEN SubSeq(rec, n + 1, Len(rec)) ELSE <<>>

(* replaceFirst(" +$", "") on a LINE SEQUENTIAL record. *)
Trimmed(rec) ==
  LET ends == {n \in 0..Len(rec) : \A i \in n+1..Len(rec) : rec[i] = 0}
  IN  SubSeq(rec, 1, CHOOSE n \in ends : \A m \in ends : n <= m)

(* TreeMap order of keys. *)
Less(s, t) ==
  \/ \E i \in 1..Len(s) :
       /\ i <= Len(t) /\ s[i] < t[i]
       /\ \A j \in 1..i-1 : s[j] = t[j]
  \/ Len(s) < Len(t) /\ \A j \in 1..Len(s) : s[j] = t[j]

Least(S)    == CHOOSE k \in S : \A x \in S : x = k \/ Less(k, x)
Greatest(S) == CHOOSE k \in S : \A x \in S : x = k \/ Less(x, k)

NoRecords == [k \in {} |-> <<>>]
NoFile == [there |-> FALSE, width |-> 0, entries |-> NoRecords]
Put(m, k, d) == [x \in DOMAIN m \cup {k} |-> IF x = k THEN d ELSE m[x]]
Without(m, k) == [x \in DOMAIN m \ {k} |-> m[x]]

-----------------------------------------------------------------------------
(* CobolFileIo                                                             *)

(* ensureIndex: the map as it will be, loaded from the side file when the  *)
(* path has none; the side file's width wins over the caller's.            *)
Loaded == IF idx # None THEN idx
          ELSE IF idxFile.there THEN idxFile.entries ELSE NoRecords
LoadedLen(n) == IF idx # None \/ ~idxFile.there
                THEN (IF idx = None /\ keylen = None THEN n ELSE keylen)
                ELSE idxFile.width

PersistIndex == idxFile' = [there |-> TRUE,
                            width |-> IF keylen' = None THEN 0 ELSE keylen',
                            entries |-> idx']

EnsureIndex(n) == /\ idx' = Loaded
                  /\ keylen' = LoadedLen(n)
                  /\ UNCHANGED <<rel, cursor, disk>>

StoreIndex_at_close(m, n) == /\ idx' = m
                             /\ keylen' = LoadedLen(n)
                             /\ UNCHANGED <<rel, cursor, disk>>

(* A change of the index, written through to the side file. *)
StoreIndex(m, n) == /\ idx' = m
                    /\ keylen' = LoadedLen(n)
                    /\ PersistIndex
                    /\ UNCHANGED <<rel, cursor, lines, relFile>>

StoreRelative_at_close(m) == /\ rel' = m
                             /\ UNCHANGED <<idx, cursor, keylen, disk>>

StoreRelative(m) == /\ rel' = m
                    /\ relFile' = m
                    /\ UNCHANGED <<idx, cursor, keylen, lines, idxFile>>

(* The relative store answers only while the path has no index. *)
RelativeStore == rel # None /\ idx = None

OpenMissing == /\ status' = "35"
               /\ UNCHANGED <<handles, maps, disk>>

OpenRelative(mode) ==
  \/ /\ mode = "OUTPUT"
     /\ StoreRelative(NoRecords)
     /\ UNCHANGED handles
     /\ status' = "00"
  \/ mode # "OUTPUT" /\ rel = None /\ OpenMissing
  \/ /\ mode # "OUTPUT" /\ rel # None
     /\ UNCHANGED <<handles, maps, disk>>
     /\ status' = "00"

OpenIndexed(mode) ==
  \/ mode # "OUTPUT" /\ idx = None /\ ~idxFile.there /\ OpenMissing
  \/ /\ mode = "OUTPUT"
     /\ idx' = NoRecords /\ keylen' = KeyLen
     /\ idxFile' = NoFile /\ lines' = None
     /\ UNCHANGED <<handles, rel, cursor, relFile>>
     /\ status' = "00"
  \/ /\ mode # "OUTPUT" /\ (idx # None \/ idxFile.there)
     /\ EnsureIndex(KeyLen)
     /\ UNCHANGED handles
     /\ status' = "00"

OpenSequential_truncates(mode) ==
  \/ mode # "OUTPUT" /\ lines = None /\ OpenMissing
  \/ /\ mode = "OUTPUT" \/ (lines # None /\ mode \in {"I-O", "EXTEND"})
     /\ writer' = TRUE /\ lines' = <<>>
     /\ UNCHANGED <<reader, maps, idxFile, relFile>>
     /\ status' = "00"
  \/ /\ mode = "INPUT" /\ lines # None
     /\ reader' = [read |-> 0, buffer |-> <<>>]
     /\ UNCHANGED <<writer, maps, disk>>
     /\ status' = "00"

OpenSequential(mode) ==
  \/ mode # "OUTPUT" /\ lines = None /\ OpenMissing
  \/ /\ mode = "OUTPUT" \/ (lines # None /\ mode \in {"I-O", "EXTEND"})
     /\ writer' = TRUE
     /\ lines' = IF mode = "EXTEND" THEN lines ELSE <<>>
     /\ UNCHANGED <<reader, maps, idxFile, relFile>>
     /\ status' = "00"
  \/ /\ mode = "INPUT" /\ lines # None
     /\ reader' = [read |-> 0, buffer |-> <<>>]
     /\ UNCHANGED <<writer, maps, disk>>
     /\ status' = "00"

RtOpen(mode) ==
  IF org = "RELATIVE" THEN OpenRelative(mode)
  ELSE IF org = "INDEXED" THEN OpenIndexed(mode)
  ELSE OpenSequential(mode)

RtClose ==
  /\ reader' = None /\ writer' = FALSE
  /\ cursor' = None
  /\ UNCHANGED <<idx, rel, keylen, lines, relFile>>
  /\ IF idx = None THEN UNCHANGED idxFile ELSE PersistIndex
  /\ status' = "00"

RtWrite_overwrites(rec, n) ==
  /\ UNCHANGED handles
  /\ IF RelativeStore
     THEN StoreRelative(Put(rel, n, rec)) /\ status' = "00"
     ELSE IF n > 0
     THEN /\ StoreIndex(Put(Loaded, KeyOf(rec, n), DataOf(rec, n)), n)
          /\ status' = "00"
     ELSE IF writer
     THEN /\ lines' = Append(lines, rec)
          /\ UNCHANGED <<maps, idxFile, relFile>>
          /\ status' = "00"
     ELSE UNCHANGED <<maps, disk>> /\ status' = "23"

(* write: a relative insert by record number, an indexed insert by key, or *)
(* an appended line, told apart by what the maps hold and the argument.    *)
RtWrite(rec, n) ==
  /\ UNCHANGED handles
  /\ IF RelativeStore
     THEN IF n \in DOMAIN rel
          THEN UNCHANGED <<maps, disk>> /\ status' = "22"
          ELSE StoreRelative(Put(rel, n, rec)) /\ status' = "00"
     ELSE IF n > 0
     THEN IF KeyOf(rec, n) \in DOMAIN Loaded
          THEN EnsureIndex(n) /\ status' = "22"
          ELSE /\ StoreIndex(Put(Loaded, KeyOf(rec, n), DataOf(rec, n)), n)
               /\ status' = "00"
     ELSE IF writer
     THEN /\ lines' = Append(lines, rec)
          /\ UNCHANGED <<maps, idxFile, relFile>>
          /\ status' = "00"
     ELSE UNCHANGED <<maps, disk>> /\ status' = "23"

RtRewrite(rec, n) ==
  /\ UNCHANGED handles
  /\ IF RelativeStore
     THEN IF n \in DOMAIN rel
          THEN StoreRelative(Put(rel, n, rec)) /\ status' = "00"
          ELSE UNCHANGED <<maps, disk>> /\ status' = "23"
     ELSE IF KeyOf(rec, n) \in DOMAIN Loaded
          THEN /\ StoreIndex(Put(Loaded, KeyOf(rec, n), DataOf(rec, n)), n)
               /\ status' = "00"
          ELSE EnsureIndex(n) /\ status' = "23"

RtDelete(k, n) ==
  /\ UNCHANGED handles
  /\ IF k \in DOMAIN Loaded
     THEN StoreIndex(Without(Loaded, k), n) /\ status' = "00"
     ELSE EnsureIndex(n) /\ status' = "23"

RtDeleteRelative(n) ==
  /\ UNCHANGED handles
  /\ IF rel # None /\ n \in DOMAIN rel
     THEN StoreRelative(Without(rel, n)) /\ status' = "00"
     ELSE UNCHANGED <<maps, disk>> /\ status' = "23"

(* The keys a relation selects, and the one START positions on. *)
Selected(op, k) ==
  LET m == DOMAIN idx IN
  IF op = "=" THEN m \cap {k}
  ELSE IF op = ">=" THEN {x \in m : x = k \/ Less(k, x)}
  ELSE IF op = ">"  THEN {x \in m : Less(k, x)}
  ELSE IF op = "<=" THEN {x \in m : x = k \/ Less(x, k)}
  ELSE IF op = "<"  THEN {x \in m : Less(x, k)} ELSE {}
StartKey(op, k) == IF op \in {"<", "<="} THEN Greatest(Selected(op, k))
                   ELSE Least(Selected(op, k))

RtStart_on_key(op, k) ==
  /\ UNCHANGED <<handles, idx, rel, keylen, disk>>
  /\ IF idx = None \/ (idx # None /\ Selected(op, k) = {})
     THEN UNCHANGED cursor /\ status' = "23"
     ELSE cursor' = StartKey(op, k) /\ status' = "00"

(* start: the cursor goes to the predecessor of the selected key. *)
RtStart(op, k) ==
  /\ UNCHANGED <<handles, idx, rel, keylen, disk>>
  /\ IF idx = None \/ (idx # None /\ Selected(op, k) = {})
     THEN UNCHANGED cursor /\ status' = "23"
     ELSE LET before == {x \in DOMAIN idx : Less(x, StartKey(op, k))}
          IN  /\ cursor' = IF before = {} THEN None ELSE Greatest(before)
              /\ status' = "00"

(* What each read call returns: a record, or None. *)
Ahead == {k \in DOMAIN idx : cursor = None \/ Less(cursor, k)}
CursorRecord == IF idx = None \/ (idx # None /\ Ahead = {}) THEN None
                ELSE Pad(Least(Ahead), keylen) \o idx[Least(Ahead)]
KeyRecord(k) == IF idx = None \/ (idx # None /\ k \notin DOMAIN idx) THEN None
                ELSE Pad(k, keylen) \o idx[k]
RelativeRecord(n) == IF rel = None \/ (rel # None /\ n \notin DOMAIN rel)
                     THEN None ELSE rel[n]

(* The reader's next line: its buffer, refilled from the file when empty. *)
Refill == IF reader.buffer # <<>> THEN reader.buffer
          ELSE SubSeq(lines, reader.read + 1, Len(lines))
LineRecord == IF reader = None THEN None
              ELSE IF Refill = <<>> THEN None ELSE Head(Refill)
AdvanceReader ==
  reader' = IF LineRecord = None THEN reader
            ELSE [read |-> IF reader.buffer # <<>> THEN reader.read ELSE Len(lines),
                  buffer |-> Tail(Refill)]
AdvanceCursor == cursor' = IF CursorRecord = None THEN cursor ELSE Least(Ahead)

-----------------------------------------------------------------------------
(* The statements the mapper emits                                         *)

Sequential == org \in {"LINE", "RECORD"}

(* _status_branch: INVALID KEY on the failure code, NOT INVALID KEY on any *)
(* other status.                                                           *)
StatusBranch(code) == branch' = IF status' = code THEN "fail" ELSE "ok"

(* The branches of READ: the record arrived, or it did not. *)
ReadOutcome(rec, code) ==
  /\ verb' = "READ"
  /\ closed' = (closed /\ rec = None)
  /\ status' = IF rec = None THEN code ELSE "00"
  /\ branch' = IF rec = None THEN "fail" ELSE "ok"

(* The third argument of write and rewrite: the relative key's value, the  *)
(* declared key width, or 0.                                               *)
KeyArgument(rrn) == IF org = "RELATIVE" THEN rrn
                    ELSE IF org = "INDEXED" THEN KeyLen ELSE 0

(* The characters the file gets for a record area. *)
Image(rec) == IF org = "LINE" THEN Trimmed(rec) ELSE rec
(* The record area a record image is split back into. *)
Area(image) == Pad(image, RecLen)

Open(mode) ==
  /\ mode = "I-O" => ~Sequential   \* refused: not lowered
  /\ RtOpen(mode)
  /\ verb' = "OPEN" /\ branch' = "none"
  /\ UNCHANGED org
  /\ written' = IF mode = "OUTPUT" /\ status' = "00" THEN <<>> ELSE written
  /\ got' = IF mode = "OUTPUT" THEN None
            ELSE IF mode = "INPUT" /\ status' = "00" THEN <<>> ELSE got
  /\ started' = IF mode = "OUTPUT" THEN None ELSE started
  /\ missed' = IF mode = "OUTPUT" THEN None
               ELSE IF status' = "00" /\ idx' # None /\ closed
               THEN DOMAIN idx' ELSE missed
  /\ closed' = (closed /\ status' # "00")

Close ==
  /\ RtClose
  /\ verb' = "CLOSE" /\ branch' = "none"
  /\ started' = None /\ missed' = None /\ got' = None
  /\ closed' = TRUE
  /\ UNCHANGED <<org, written>>

Write(rec, rrn) ==
  /\ (Sequential /\ writer) => Len(lines) < MaxLines
  /\ RtWrite(Image(rec), KeyArgument(rrn))
  /\ verb' = "WRITE" /\ StatusBranch("22")
  /\ written' = IF Sequential /\ status' = "00" THEN Append(written, rec)
                ELSE written
  /\ started' = IF started = None \/ status' # "00" THEN started
                ELSE [started EXCEPT !.added = @ \cup {KeyOf(rec, KeyLen)}]
  /\ UNCHANGED <<org, got, closed, missed>>

Rewrite(rec, rrn) ==
  /\ org \in {"INDEXED", "RELATIVE"}     \* else UNSUPPORTED_FILE symbol
  /\ RtRewrite(rec, KeyArgument(rrn))
  /\ verb' = "REWRITE" /\ StatusBranch("23")
  /\ UNCHANGED <<org, history>>

Delete(k, rrn) ==
  /\ \/ org = "INDEXED" /\ RtDelete(k, KeyLen)
     \/ org = "RELATIVE" /\ RtDeleteRelative(rrn)
  /\ verb' = "DELETE" /\ StatusBranch("23")
  /\ started' = IF started # None /\ started.key = k THEN None ELSE started
  /\ missed' = IF missed = None THEN None ELSE missed \ {k}
  /\ UNCHANGED <<org, written, got, closed>>

Start(op, k) ==
  /\ org = "INDEXED"      \* a relative key does not compile; others refused
  /\ RtStart(op, k)
  /\ verb' = "START" /\ StatusBranch("23")
  /\ started' = IF status' # "00" THEN started
                ELSE [key |-> StartKey(op, k), added |-> {}]
  /\ missed' = IF status' = "00" THEN None ELSE missed
  /\ closed' = (closed /\ status' # "00")
  /\ UNCHANGED <<org, written, got>>

(* READ NEXT, and every READ of a sequential file. *)
ReadNext ==
  /\ IF reader # None
     THEN /\ ReadOutcome(LineRecord, "10")
          /\ AdvanceReader
          /\ UNCHANGED cursor
     ELSE /\ ReadOutcome(CursorRecord, "10")
          /\ AdvanceCursor
          /\ UNCHANGED reader
  /\ got' = IF status' = "00" /\ got # None /\ reader # None
            THEN Append(got, Area(LineRecord)) ELSE got
  /\ started' = IF status' = "00" THEN None ELSE started
  /\ missed' = IF missed = None \/ status' # "00" THEN missed
               ELSE missed \ {cursor'}
  /\ UNCHANGED <<org, writer, idx, rel, keylen, disk, written>>

(* READ of an indexed file by its record key. *)
ReadKey(k) ==
  /\ org = "INDEXED"
  /\ ReadOutcome(KeyRecord(k), "23")
  /\ cursor' = IF status' = "00" THEN k ELSE cursor
  /\ started' = IF status' = "00" THEN None ELSE started
  /\ missed' = IF status' = "00" THEN None ELSE missed
  /\ UNCHANGED <<org, handles, idx, rel, keylen, disk, written, got>>

(* READ of a relative file by its relative key. *)
ReadRelative(n) ==
  /\ org = "RELATIVE"
  /\ ReadOutcome(RelativeRecord(n), "23")
  /\ UNCHANGED <<org, handles, maps, disk, written, got, started, missed>>

(* The run unit ends, with or without CLOSE, and another begins: only the  *)
(* disk remains, every writer having flushed after each record.            *)
NextRunUnit ==
  /\ reader' = None /\ writer' = FALSE
  /\ idx' = None /\ rel' = None /\ cursor' = None /\ keylen' = None
  /\ status' = "00" /\ verb' = "none" /\ branch' = "none"
  /\ got' = None /\ started' = None /\ missed' = None /\ closed' = TRUE
  /\ UNCHANGED <<org, disk, written>>

-----------------------------------------------------------------------------
Modes == {"INPUT", "OUTPUT", "I-O", "EXTEND"}
Relations == {"=", ">", ">=", "<", "<=", "UNSUPPORTED"}
Rrns == 0..MaxRrn

Init ==
  /\ org \in {"INDEXED", "RELATIVE", "LINE", "RECORD"}
  /\ reader = None /\ writer = FALSE
  /\ idx = None /\ rel = None /\ cursor = None /\ keylen = None
  /\ lines = None /\ idxFile = NoFile /\ relFile = None
  /\ status = "00" /\ verb = "none" /\ branch = "none"
  /\ written = <<>> /\ got = None /\ started = None /\ missed = None
  /\ closed = TRUE

Next ==
  \/ \E mode \in Modes : Open(mode)
  \/ Close
  \/ \E rec \in Records, n \in Rrns : Write(rec, n) \/ Rewrite(rec, n)
  \/ \E k \in Keys, n \in Rrns : Delete(k, n)
  \/ \E op \in Relations, k \in Keys : Start(op, k)
  \/ ReadNext
  \/ \E k \in Keys : ReadKey(k)
  \/ \E n \in Rrns : ReadRelative(n)
  \/ NextRunUnit

Spec == Init /\ [][Next]_vars

-----------------------------------------------------------------------------
(* Properties                                                              *)

(* The records of the keyed side of the file, whoever holds them now: the  *)
(* map of this run unit, else the .idx file.                               *)
Stored == IF idx # None THEN idx
          ELSE IF idxFile.there THEN idxFile.entries ELSE None
StoredOrEmpty == IF Stored = None THEN NoRecords ELSE Stored

TypeOK ==
  /\ org \in {"INDEXED", "RELATIVE", "LINE", "RECORD"}
  /\ writer \in BOOLEAN
  /\ status \in {"00", "10", "22", "23", "35"}
  /\ verb \in {"none", "OPEN", "CLOSE", "WRITE", "REWRITE", "DELETE",
               "START", "READ"}
  /\ branch \in {"ok", "fail", "none"}
  /\ closed \in BOOLEAN
  /\ reader # None => /\ reader.read \in Nat
                      /\ reader.buffer \in Seq(Seq(Chars))
  /\ lines # None => lines \in Seq(Seq(Chars))
  /\ cursor # None => idx # None

(* CobolFileIo.close and persistIndex: whenever the run unit ends, the     *)
(* side file holds the index, so a record a WRITE or REWRITE accepted is   *)
(* there for the next run unit and a deleted one is not.                   *)
IndexIsDurable ==
  idx # None => idx = IF idxFile.there THEN idxFile.entries ELSE NoRecords

(* persistRelative: the .rel image the comparison reads is the store the   *)
(* program saw.                                                            *)
RelativeImageIsStore == rel # None => relFile = rel

(* READ NEXT until AT END: a scan that began at the first record has       *)
(* returned every record that was in the file when it began and was not    *)
(* deleted, whatever was written, rewritten or started in between.         *)
ScanIsComplete ==
  (status = "10" /\ missed # None /\ reader = None) => missed = {}

(* START ... READ NEXT: the next record is the one START selected, unless  *)
(* a record written since comes before it.                                 *)
StartedIsNextUnlessWritten ==
  (started # None /\ started.key \in DOMAIN StoredOrEmpty) =>
     /\ Ahead # {}
     /\ Least(Ahead) \in {started.key} \cup started.added

(* CobolFileIo.readNext: a scan misses no record, wherever it began and    *)
(* whatever the program wrote, deleted or closed before it went on.        *)
ScansMissNothing == ScanIsComplete /\ StartedIsNextUnlessWritten

(* OPEN INPUT after WRITE: a sequential file gives back the record areas   *)
(* written to it, in order, although LINE SEQUENTIAL drops their trailing  *)
(* spaces and OPEN EXTEND writes across run units.                         *)
ReadsBackWhatWasWritten ==
  (Sequential /\ got # None) =>
     /\ Len(got) <= Len(written)
     /\ \A i \in 1..Len(got) : got[i] = written[i]

(* What an indexed file promises, and the file that keeps it: a failed     *)
(* REWRITE or a lost handle may only bring an empty file into being or     *)
(* forget one.                                                             *)
KF == INSTANCE KeyedFile WITH
        Key <- Keys, Data <- DataPart, Absent <- None,
        content <- IF org = "INDEXED" THEN Stored ELSE None,
        verb <- IF org = "INDEXED" THEN verb ELSE "none",
        status <- IF org = "INDEXED" THEN status ELSE "00"
KeyedFileSpec == KF!Spec
=============================================================================
