------------------------------ MODULE ModFiles ------------------------------
(***************************************************************************)
(* The file versions of self-hosted mods: rows of mod_files, the files on  *)
(* disk (services/mod_files.py), and the counters of views and downloads   *)
(* (routes/public.py), which the cache's mark_seen guards per process.     *)
(*                                                                         *)
(* A version and its stored path are named by the number of the upload.    *)
(* The ORM writes the columns whose value differs from the one the request *)
(* loaded, and notices that a row is gone only when it updates one row.    *)
(***************************************************************************)
EXTENDS ModTable

CONSTANTS
  MaxFiles,     \* bound on the uploads begun
  Replicas,     \* processes that serve the site
  MaxRestarts   \* bound on their restarts

ASSUME FilesAssumption == MaxFiles \in Nat /\ MaxRestarts \in Nat
ASSUME ReplicasAssumption == IsFiniteSet(Replicas)

VARIABLES
  files,      \* rows of mod_files
  disk,       \* what is at each stored path: none, partial or whole
  uploads,    \* uploads begun
  views,      \* view_count of each mod
  downloads,  \* download_count of each mod
  marks,      \* marks[p]: what mark_seen remembers in process p
  restarts,   \* restarts so far
  left,       \* history: paths whose request or mod ended in between
  removed     \* history: mods of which a version was deleted

fileVars == <<files, disk, uploads, left, removed>>
countVars == <<views, downloads, marks, restarts>>

FileIds == 1..MaxFiles
Version == [mod : ModIds, current : BOOLEAN, count : Nat]
NoFile == [mod |-> 0, current |-> FALSE, count |-> 0]
Stored(f) == files[f] # NoFile
FilesOf(m) == {f \in FileIds : files[f].mod = m}
CurrentOf(m) == {f \in FilesOf(m) : files[f].current}

\* What requests on files and counters remember: the rows and values they
\* read, the versions that were current among them.
FileRequest ==
  [op : {"upload"}, mod : ModIds, file : FileIds, stage : {"stream"}] \cup
  [op : {"upload"}, mod : ModIds, file : FileIds, stage : {"saved"}, seen : SUBSET FileIds] \cup
  [op : {"choose"}, mod : ModIds, file : FileIds, stage : {"loaded"}, was : BOOLEAN] \cup
  [op : {"choose"}, mod : ModIds, file : FileIds, stage : {"read"}, was : BOOLEAN,
   seen : SUBSET FileIds] \cup
  [op : {"remove"}, mod : ModIds, file : FileIds]

CountRequest ==
  [op : {"view"}, mod : ModIds, home : Replicas, count : Nat] \cup
  [op : {"download"}, mod : ModIds, home : Replicas, stage : {"mod"}, total : Nat] \cup
  [op : {"download"}, mod : ModIds, home : Replicas, stage : {"file"}, total : Nat,
   file : FileIds, count : Nat]

FilesInit ==
  /\ files = [f \in FileIds |-> NoFile]
  /\ disk = [f \in FileIds |-> "none"]
  /\ uploads = 0
  /\ left = {}
  /\ removed = {}
  /\ views = [m \in ModIds |-> 0]
  /\ downloads = [m \in ModIds |-> 0]
  /\ marks = [p \in Replicas |-> {}]
  /\ restarts = 0

-----------------------------------------------------------------------------
(* Uploads, by the admin's form and by API key.                            *)

UploadBegin(r, m) ==
  /\ Present(m) /\ uploads < MaxFiles
  /\ uploads' = uploads + 1
  /\ disk' = [disk EXCEPT ![uploads + 1] = "partial"]
  /\ Begin(r, [op |-> "upload", mod |-> m, file |-> uploads + 1, stage |-> "stream"])
  /\ UNCHANGED <<files, left, removed, tableVars, countVars>>

\* Variant: the partial file stays.
UploadStopsUnclean(r) ==
  /\ req[r].op = "upload" /\ req[r].stage = "stream"
  /\ End(r)
  /\ UNCHANGED <<disk, files, uploads, removed, left, tableVars, countVars>>

\* stream_save raises: the upload is too large, or its sender goes away.
UploadStops(r) ==
  /\ req[r].op = "upload" /\ req[r].stage = "stream"
  /\ disk' = [disk EXCEPT ![req[r].file] = "none"]
  /\ End(r)
  /\ UNCHANGED <<files, uploads, removed, left, tableVars, countVars>>

\* The file is whole; the request reads which versions are current.
UploadSaved(r) ==
  /\ req[r].op = "upload" /\ req[r].stage = "stream"
  /\ disk' = [disk EXCEPT ![req[r].file] = "whole"]
  /\ Continue(r, [op |-> "upload", mod |-> req[r].mod, file |-> req[r].file,
                  stage |-> "saved", seen |-> CurrentOf(req[r].mod)])
  /\ UNCHANGED <<files, uploads, removed, left, tableVars, countVars>>

\* One UPDATE that meets no row is an error, several in one call are not.
Refused(updated) == \E f \in FileIds : updated = {f} /\ ~Stored(f)

Demoted(fs) ==
  [f \in FileIds |-> IF f \in fs /\ Stored(f) THEN [files[f] EXCEPT !.current = FALSE]
                     ELSE files[f]]

NewVersion(m) == [mod |-> m, current |-> TRUE, count |-> 0]

\* Variant: the versions that were current stay so.
UploadCommitKeepsOld(r) ==
  /\ req[r].op = "upload" /\ req[r].stage = "saved"
  /\ files' = [files EXCEPT ![req[r].file] = NewVersion(req[r].mod)]
  /\ End(r)
  /\ UNCHANGED <<left, disk, uploads, removed, tableVars, countVars>>

\* The new version becomes current.  The foreign key refuses it when the mod
\* is gone; then, or when a demoted row is gone, the file stays on disk.
UploadCommit(r) ==
  /\ req[r].op = "upload" /\ req[r].stage = "saved"
  /\ IF Present(req[r].mod) /\ ~Refused(req[r].seen)
     THEN /\ files' = [Demoted(req[r].seen) EXCEPT ![req[r].file] = NewVersion(req[r].mod)]
          /\ UNCHANGED left
     ELSE left' = left \cup {req[r].file} /\ UNCHANGED files
  /\ End(r)
  /\ UNCHANGED <<disk, uploads, removed, tableVars, countVars>>

-----------------------------------------------------------------------------
(* Choosing another version, by form and by API key.                       *)

SetCurrentBegin(r, f) ==
  /\ Stored(f)
  /\ Begin(r, [op |-> "choose", mod |-> files[f].mod, file |-> f, stage |-> "loaded",
               was |-> files[f].current])
  /\ UNCHANGED <<tableVars, fileVars, countVars>>

SetCurrentRead(r) ==
  /\ req[r].op = "choose" /\ req[r].stage = "loaded"
  /\ Continue(r, [op |-> "choose", mod |-> req[r].mod, file |-> req[r].file,
                  stage |-> "read", was |-> req[r].was, seen |-> CurrentOf(req[r].mod)])
  /\ UNCHANGED <<tableVars, fileVars, countVars>>

\* The version is written only if it was not current when it was loaded.
SetCurrentCommit(r) ==
  /\ req[r].op = "choose" /\ req[r].stage = "read"
  /\ LET f == req[r].file
         others == req[r].seen \ {f}
         risen == IF req[r].was THEN {} ELSE {f}
     IN files' =
          IF Refused(others \cup risen) THEN files
          ELSE [g \in FileIds |-> IF g \in risen /\ Stored(g)
                                  THEN [files[g] EXCEPT !.current = TRUE]
                                  ELSE Demoted(others)[g]]
  /\ End(r)
  /\ UNCHANGED <<disk, uploads, removed, left, tableVars, countVars>>

-----------------------------------------------------------------------------
(* Deleting a version: the file goes before the row.                       *)

DeleteFileBegin(r, f) ==
  /\ Stored(f)
  /\ disk' = [disk EXCEPT ![f] = "none"]
  /\ Begin(r, [op |-> "remove", mod |-> files[f].mod, file |-> f])
  /\ UNCHANGED <<files, uploads, removed, left, tableVars, countVars>>

DeleteFileCommit(r) ==
  /\ req[r].op = "remove"
  /\ files' = [files EXCEPT ![req[r].file] = NoFile]
  /\ removed' = removed \cup {req[r].mod}
  /\ End(r)
  /\ UNCHANGED <<disk, uploads, left, tableVars, countVars>>

\* The rows of a deleted mod go with it, their files stay.
DropFiles(m) ==
  /\ files' = [f \in FileIds |-> IF files[f].mod = m THEN NoFile ELSE files[f]]
  /\ left' = left \cup FilesOf(m)
  /\ views' = [views EXCEPT ![m] = 0]
  /\ downloads' = [downloads EXCEPT ![m] = 0]
  /\ removed' = removed \ {m}
  /\ UNCHANGED <<disk, uploads, marks, restarts>>

-----------------------------------------------------------------------------
(* Views and downloads, of one visitor.                                    *)

\* mark_seen, well within its day: true once in the life of a process.
FirstSeen(p, what) ==
  /\ what \notin marks[p]
  /\ marks' = [marks EXCEPT ![p] = @ \cup {what}]

\* mod_detail: a first view is counted when the request commits.
View(r, p, m) ==
  /\ mods[m] = "public" /\ m \in ManualIds
  /\ FirstSeen(p, <<"view", m>>)
  /\ Begin(r, [op |-> "view", mod |-> m, home |-> p, count |-> views[m]])
  /\ UNCHANGED <<views, downloads, restarts, tableVars, fileVars>>

ViewCommit(r) ==
  /\ req[r].op = "view"
  /\ views' = [views EXCEPT ![req[r].mod] =
       IF Present(req[r].mod) THEN req[r].count + 1 ELSE @]
  /\ End(r)
  /\ UNCHANGED <<downloads, marks, restarts, tableVars, fileVars>>

\* mod_download_current, mod_download_version: the mod is read first.
Download(r, p, m) ==
  /\ mods[m] = "public"
  /\ Begin(r, [op |-> "download", mod |-> m, home |-> p, stage |-> "mod",
               total |-> downloads[m]])
  /\ UNCHANGED <<tableVars, fileVars, countVars>>

\* Variant: whoever asks again is counted again.
ServeUnmarked(r, f) ==
  /\ req[r].op = "download" /\ req[r].stage = "mod"
  /\ f \in FilesOf(req[r].mod)
  /\ disk[f] # "none"
  /\ Continue(r, [op |-> "download", mod |-> req[r].mod, home |-> req[r].home, stage |-> "file",
                  total |-> req[r].total, file |-> f, count |-> files[f].count])
  /\ UNCHANGED <<marks, views, downloads, restarts, tableVars, fileVars>>

\* _serve_file: nothing to serve, or not counted again, or counted at the
\* commit.
Serve(r, f) ==
  /\ req[r].op = "download" /\ req[r].stage = "mod"
  /\ f \in FilesOf(req[r].mod)
  /\ LET p == req[r].home IN
     \/ /\ disk[f] = "none" \/ <<"file", f>> \in marks[p]
        /\ End(r) /\ UNCHANGED marks
     \/ /\ disk[f] # "none" /\ FirstSeen(p, <<"file", f>>)
        /\ Continue(r, [op |-> "download", mod |-> req[r].mod, home |-> p, stage |-> "file",
                        total |-> req[r].total, file |-> f, count |-> files[f].count])
  /\ UNCHANGED <<views, downloads, restarts, tableVars, fileVars>>

\* The current version is asked for and there is none.
ServeNothing(r) ==
  /\ req[r].op = "download" /\ req[r].stage = "mod"
  /\ CurrentOf(req[r].mod) = {}
  /\ End(r)
  /\ UNCHANGED <<tableVars, fileVars, countVars>>

\* Two rows of two tables: either one missing fails the request.
DownloadCommit(r) ==
  /\ req[r].op = "download" /\ req[r].stage = "file"
  /\ LET f == req[r].file IN
     IF Stored(f) /\ Present(req[r].mod)
     THEN /\ files' = [files EXCEPT ![f].count = req[r].count + 1]
          /\ downloads' = [downloads EXCEPT ![req[r].mod] = req[r].total + 1]
     ELSE UNCHANGED <<files, downloads>>
  /\ End(r)
  /\ UNCHANGED <<disk, uploads, removed, left, views, marks, restarts, tableVars>>

\* A process ends, and with it its marks and its requests.
Restart(p) ==
  /\ restarts < MaxRestarts
  /\ restarts' = restarts + 1
  /\ marks' = [marks EXCEPT ![p] = {}]
  /\ req' = [r \in Requests |->
       IF req[r].op \in {"view", "download"} /\ req[r].home = p THEN Idle ELSE req[r]]
  /\ UNCHANGED <<work, crossed, views, downloads, tableVars, fileVars>>

\* A request fails before its commit.  What it did to the disk stays done.
Fail(r) ==
  /\ Busy(r)
  /\ left' = left \cup (IF req[r].op \in {"upload", "remove"} THEN {req[r].file} ELSE {})
  /\ End(r)
  /\ UNCHANGED <<files, disk, uploads, removed, tableVars, countVars>>
=============================================================================
