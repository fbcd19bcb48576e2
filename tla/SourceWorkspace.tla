--------------------------- MODULE SourceWorkspace ---------------------------
(***************************************************************************)
(* Applications, the source directories their rows point at, and the runs  *)
(* that read those directories (api/service.py, api/store.py).             *)
(*                                                                         *)
(* Uploads, ingests, modernisations and revalidations are request threads  *)
(* that check, read, write and clean up in separate steps; each store call *)
(* is atomic, nothing holds across two of them.  What the background       *)
(* worker of a run does is ControlPlane's subject: here a run only starts, *)
(* is active and ends.                                                     *)
(***************************************************************************)
EXTENDS Integers, Sequences, FiniteSets

CONSTANTS
  Apps,                \* applications
  Clients,             \* request threads
  Runs,                \* runs
  MaxDirs,             \* bound on source directories made per application
  Names,               \* names users give and archives suggest
  Generic,             \* the placeholder name "application"
  None,                \* no source, no application, no name
  FailedCommitApplies  \* may a write whose commit failed stay in the open
                       \* transaction, visible to every later read?

\* mkdtemp under a prefix that names the application: a path is never reused.
Dirs == Apps \X (1..MaxDirs)

ASSUME WorkspaceAssumption ==
  /\ MaxDirs \in Nat
  /\ IsFiniteSet(Apps)
  /\ Generic \in Names
  /\ None \notin Dirs \cup Apps
  /\ FailedCommitApplies \in BOOLEAN

VARIABLES
  app,   \* rows of applications: name and source
  disk,  \* source directories on disk
  used,  \* paths handed out so far
  run,   \* rows of runs: application, source, still in progress?
  req,   \* what each request thread is doing
  overlapped  \* history: have two requests been at work at once?

vars == <<app, disk, used, run, req>>

NoApp == [exists |-> FALSE, name |-> None, source |-> None]
NoRun == [app |-> None, source |-> None, active |-> FALSE]
Idle == [pc |-> "idle", op |-> "none", app |-> None, run |-> None,
         previous |-> None, dir |-> None, name |-> None]

\* A request starts, holding no directory of its own.
Begin(c, pc, op, a, r, previous, name) ==
  req' = [req EXCEPT ![c] = [pc |-> pc, op |-> op, app |-> a, run |-> r,
            previous |-> previous, dir |-> None, name |-> name]]

\* A request goes on: its application and kind stay.
Proceed(c, pc, previous, dir, name) ==
  req' = [req EXCEPT ![c] = [pc |-> pc, op |-> req[c].op, app |-> req[c].app,
            run |-> None, previous |-> previous, dir |-> dir, name |-> name]]

Init ==
  /\ app = [a \in Apps |-> NoApp]
  /\ disk = {}
  /\ used = {}
  /\ run = [r \in Runs |-> NoRun]
  /\ req = [c \in Clients |-> Idle]

-----------------------------------------------------------------------------
(* Names.  A name is a given name followed by the suffixes it was given.   *)

Taken(name) == \E a \in Apps : app[a].exists /\ app[a].name = name

\* Store.find_application_by_name: one of the rows with that name.
find_application_by_name(name) ==
  CHOOSE a \in Apps : app[a].exists /\ app[a].name = name

\* Store.unique_name: the name itself or the first free suffix from 2 on.
unique_name(name) ==
  IF ~Taken(name) THEN name
  ELSE LET free == {n \in 2..(Cardinality(Apps) + 1) : ~Taken(Append(name, n))}
       IN Append(name, CHOOSE n \in free : \A m \in free : n <= m)

\* Service.create_application: the name is chosen, then the row is added.
CreateName(c) ==
  /\ req[c].pc = "idle"
  /\ \E a \in Apps, given \in Names :
       /\ ~app[a].exists
       /\ \A d \in Clients : req[d].op = "create" => req[d].app # a
       /\ Begin(c, "create", "create", a, None, None, unique_name(<<given>>))
  /\ UNCHANGED <<app, disk, used, run>>

AddApplication(c) ==
  /\ req[c].pc = "create"
  /\ app' = [app EXCEPT ![req[c].app] =
               [exists |-> TRUE, name |-> req[c].name, source |-> None]]
  /\ req' = [req EXCEPT ![c] = Idle]
  /\ UNCHANGED <<disk, used, run>>

-----------------------------------------------------------------------------
(* upload_cobol_source and ingest_application.                             *)

ActiveRun(a) == \E r \in Runs : run[r].active /\ run[r].app = a

\* Mutant of CheckNoActiveRun: nothing is refused.
CheckNoActiveRun_unguarded(c) ==
  /\ req[c].pc = "idle"
  /\ \E a \in Apps, op \in {"upload", "ingest"} :
       /\ app[a].exists
       /\ Begin(c, "checked", op, a, None, None, None)
  /\ UNCHANGED <<app, disk, used, run>>

\* _refuse_while_run_active: 409 while a run of the application is active.
CheckNoActiveRun(c) ==
  /\ req[c].pc = "idle"
  /\ \E a \in Apps, op \in {"upload", "ingest"} :
       /\ app[a].exists
       /\ ~ActiveRun(a)
       /\ Begin(c, "checked", op, a, None, None, None)
  /\ UNCHANGED <<app, disk, used, run>>

LoadApplication(c) ==
  /\ req[c].pc = "checked"
  /\ Proceed(c, "loaded", app[req[c].app].source, None, app[req[c].app].name)
  /\ UNCHANGED <<app, disk, used, run>>

\* Mutant of WriteSource: the previous directory is cleaned up first.
WriteSource_cleans_first(c) ==
  /\ req[c].pc = "loaded"
  /\ \E d \in Dirs \ used :
       /\ d[1] = req[c].app
       /\ used' = used \cup {d}
       /\ disk' = (disk \ {req[c].previous}) \cup {d}
       /\ IF req[c].op = "ingest"
          THEN Proceed(c, "discover", req[c].previous, d, req[c].name)
          ELSE Proceed(c, "update", req[c].previous, d, None)
  /\ UNCHANGED <<app, run>>

\* _write_upload, ingest_zip: everything goes to a fresh directory.
WriteSource(c) ==
  /\ req[c].pc = "loaded"
  /\ \E d \in Dirs \ used :
       /\ d[1] = req[c].app
       /\ used' = used \cup {d}
       /\ disk' = disk \cup {d}
       /\ IF req[c].op = "ingest"
          THEN Proceed(c, "discover", req[c].previous, d, req[c].name)
          ELSE Proceed(c, "update", req[c].previous, d, None)
  /\ UNCHANGED <<app, run>>

\* A directory is made and abandoned: an upload leaves what it wrote behind, a
\* rejected archive is discarded as far as possible.
WriteFails(c) ==
  /\ req[c].pc = "loaded"
  /\ \E d \in Dirs \ used :
       /\ d[1] = req[c].app
       /\ used' = used \cup {d}
       /\ disk' \in {disk, disk \cup {d}}
  /\ req' = [req EXCEPT ![c] = Idle]
  /\ UNCHANGED <<app, run>>

\* Mutant of decided_name: the detected name is taken as it is.
decided_name_as_detected(a, name, detected) ==
  IF detected = Generic THEN None
  ELSE IF name = <<Generic>> THEN <<detected>>
  ELSE None

\* _ingest_application, name decision: detected is the archive's suggestion,
\* name the one in the row when it was loaded.  None: the name is not written.
decided_name(a, name, detected) ==
  IF detected = Generic THEN None
  ELSE IF name = <<Generic>> THEN unique_name(<<detected>>)
  ELSE IF Taken(name) /\ find_application_by_name(name) # a
  THEN unique_name(name)
  ELSE None

\* Discovery of the new tree, then the name.
Discover(c) ==
  /\ req[c].pc = "discover"
  /\ \E detected \in Names :
       Proceed(c, "update", req[c].previous, req[c].dir,
               decided_name(req[c].app, req[c].name, detected))
  /\ UNCHANGED <<app, disk, used, run>>

DiscoverFails(c) ==
  /\ req[c].pc = "discover"
  /\ Proceed(c, "discard", req[c].previous, req[c].dir, None)
  /\ UNCHANGED <<app, disk, used, run>>

\* Store.update_application_fields: only the named columns.
update_application_fields(c) ==
  LET a == req[c].app
  IN app' = [app EXCEPT ![a] =
               [exists |-> TRUE, source |-> req[c].dir,
                name |-> IF req[c].name = None THEN app[a].name
                         ELSE req[c].name]]

UpdateApplication(c) ==
  /\ req[c].pc = "update"
  /\ update_application_fields(c)
  /\ Proceed(c, "cleanup", req[c].previous, req[c].dir, None)
  /\ UNCHANGED <<disk, used, run>>

\* The write raises.  An upload ends there; an ingest discards its workspace.
UpdateFails(c) ==
  /\ req[c].pc = "update"
  /\ \/ UNCHANGED app
     \/ FailedCommitApplies /\ update_application_fields(c)
  /\ IF req[c].op = "ingest"
     THEN Proceed(c, "discard", req[c].previous, req[c].dir, None)
     ELSE req' = [req EXCEPT ![c] = Idle]
  /\ UNCHANGED <<disk, used, run>>

\* _cleanup_temp_dir, best effort: the directory may stay.
cleanup_temp_dir(d) == disk' \in {disk, disk \ {d}}

\* Mutant of CleanupPrevious: every directory of the application but the
\* recorded one is swept.
CleanupPrevious_sweeps(c) ==
  /\ req[c].pc = "cleanup"
  /\ disk' = {d \in disk : d[1] = req[c].app => d = app[req[c].app].source}
  /\ req' = [req EXCEPT ![c] = Idle]
  /\ UNCHANGED <<app, used, run>>

CleanupPrevious(c) ==
  /\ req[c].pc = "cleanup"
  /\ cleanup_temp_dir(req[c].previous)
  /\ req' = [req EXCEPT ![c] = Idle]
  /\ UNCHANGED <<app, used, run>>

DiscardWorkspace(c) ==
  /\ req[c].pc = "discard"
  /\ cleanup_temp_dir(req[c].dir)
  /\ req' = [req EXCEPT ![c] = Idle]
  /\ UNCHANGED <<app, used, run>>

-----------------------------------------------------------------------------
(* Runs.                                                                   *)

\* Service.modernize: the row is read, the contract resolved, the slot taken.
LoadForRun(c) ==
  /\ req[c].pc = "idle"
  /\ \E a \in Apps :
       /\ app[a].exists /\ app[a].source # None
       /\ Begin(c, "start", "modernize", a, None, app[a].source, None)
  /\ UNCHANGED <<app, disk, used, run>>

\* Store.add_run: the run keeps the source it was given.
AddRun(c) ==
  /\ req[c].pc = "start"
  /\ \E r \in Runs :
       /\ run[r] = NoRun
       /\ run' = [run EXCEPT ![r] = [app |-> req[c].app,
                    source |-> req[c].previous, active |-> TRUE]]
  /\ req' = [req EXCEPT ![c] = Idle]
  /\ UNCHANGED <<app, disk, used>>

\* _revalidation_target: a source replaced by a later upload is refused.
CheckRunSource(c) ==
  /\ req[c].pc = "idle"
  /\ \E r \in Runs :
       /\ run[r] # NoRun /\ run[r].source \in disk
       /\ Begin(c, "reset", "revalidate", None, r, None, None)
  /\ UNCHANGED <<app, disk, used, run>>

\* Store.begin_revalidation: a run in progress is a conflict.
BeginRevalidation(c) ==
  /\ req[c].pc = "reset"
  /\ ~run[req[c].run].active
  /\ run' = [run EXCEPT ![req[c].run].active = TRUE]
  /\ req' = [req EXCEPT ![c] = Idle]
  /\ UNCHANGED <<app, disk, used>>

\* The request fails before it made a directory: no free slot, rejected
\* entries, a failed write, a conflict.
RequestFails(c) ==
  /\ req[c].pc \in {"create", "checked", "loaded", "start", "reset"}
  /\ req' = [req EXCEPT ![c] = Idle]
  /\ UNCHANGED <<app, disk, used, run>>

\* The background worker of the run ends (ControlPlane).
RunEnds(r) ==
  /\ run[r].active
  /\ run' = [run EXCEPT ![r].active = FALSE]
  /\ UNCHANGED <<app, disk, used, req>>

Next ==
  \/ \E c \in Clients :
       \/ CreateName(c) \/ AddApplication(c)
       \/ CheckNoActiveRun(c) \/ LoadApplication(c)
       \/ WriteSource(c) \/ WriteFails(c)
       \/ Discover(c) \/ DiscoverFails(c)
       \/ UpdateApplication(c) \/ UpdateFails(c)
       \/ CleanupPrevious(c) \/ DiscardWorkspace(c)
       \/ LoadForRun(c) \/ AddRun(c)
       \/ CheckRunSource(c) \/ BeginRevalidation(c) \/ RequestFails(c)
  \/ \E r \in Runs : RunEnds(r)

Spec == Init /\ [][Next]_vars

\* Requests that do not overlap: one is answered before the next begins.
OneRequest ==
  \A c, d \in Clients : req[c].pc # "idle" /\ req[d].pc # "idle" => c = d

\* The same behaviours, with the history variable that tells overlapping
\* requests from requests that took turns.
Observe == overlapped' = (overlapped \/ ~OneRequest')

ObservedSpec ==
  /\ Init /\ overlapped = FALSE
  /\ [][Next /\ Observe]_<<vars, overlapped>>

-----------------------------------------------------------------------------
(* Properties.                                                             *)

\* Types of the rows, the disk and the requests.
TypeOK ==
  /\ \A a \in Apps :
       /\ app[a].exists \in BOOLEAN
       /\ app[a].source \in {None} \cup {d \in used : d[1] = a}
  /\ used \subseteq Dirs
  /\ disk \subseteq used
  /\ \A r \in Runs :
       /\ run[r].active \in BOOLEAN
       /\ run[r].source \in used \cup {None}
  /\ \A c \in Clients :
       /\ req[c].app \in Apps \cup {None}
       /\ req[c].previous \in {None} \cup {d \in used : d[1] = req[c].app}
       /\ req[c].dir \in {None} \cup {d \in used : d[1] = req[c].app}

\* The source an application's row points at is on disk: a failed, rejected or
\* overlapping upload never destroys the good source (the write-then-cleanup
\* order of upload_cobol_source and _ingest_application).
RecordedSourceExists ==
  \A a \in Apps : app[a].source # None => app[a].source \in disk

\* A directory an upload is about to record is still there: no other request
\* cleans it up in between (LoadApplication reads previous long before
\* CleanupPrevious deletes it).
PendingSourceExists ==
  \A c \in Clients : req[c].pc \in {"discover", "update"} => req[c].dir \in disk

\* No two applications have the same name (what unique_name is for).  The name
\* is chosen in a step of its own: this holds as long as no requests overlap.
NamesAreUnique ==
  ~overlapped => \A a, b \in Apps :
    app[a].exists /\ app[b].exists /\ app[a].name = app[b].name => a = b

\* A run in progress has its source: uploads that would delete it are refused
\* (_refuse_while_run_active), as long as no requests overlap.
ActiveRunHasSource ==
  ~overlapped => \A r \in Runs : run[r].active => run[r].source \in disk
=============================================================================
