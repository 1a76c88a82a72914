----------------------------- MODULE Manifest ------------------------------
(***************************************************************************)
(* The manifest of one daemon (manifest.ts) and the watcher's reports that *)
(* feed it: which files are listed as existing, with which content hash,   *)
(* and the rename detection that holds a deletion back for 500 ms, keyed   *)
(* by the hash of what was deleted.                                        *)
(***************************************************************************)
EXTENDS Naturals, Sequences

CONSTANTS Name, Hash, NoFile,
          MaxSteps \* bound on the changes made to the worktree

Entry == [exists : BOOLEAN, hash : Hash]

ASSUME ManifestAssumption == NoFile \notin Hash \cup Entry

VARIABLES
  file,      \* content hash of each file on disk, or NoFile
  reports,   \* events of each path that chokidar has yet to emit, in order
  reads,     \* contents read by handleFileEvent and not handled yet
  content,   \* content of the Y.Doc behind each path, NoFile if there is none
  map,       \* the manifest: [exists, hash], or NoFile
  pending,   \* pendingDeletes: per hash the number of its last deletion, or 0
  deleteTimers, \* deletions whose timer runs
  steps, deletions,
  late,      \* history: paths listed from a content read before a deletion
  recreated  \* history: paths listed while the timer of their deletion ran on, or
             \* found there, with the text the Y.Doc has, while listed as deleted
manifestVars == <<file, reports, reads, content, map, pending, deleteTimers, steps,
                  deletions, late, recreated>>

ManifestInit ==
  /\ file \in [Name -> Hash \cup {NoFile}]
  /\ reports = [p \in Name |-> <<>>]
  /\ reads = {}
  /\ content = file
  /\ map = [p \in Name |-> IF file[p] = NoFile THEN NoFile
                           ELSE [exists |-> TRUE, hash |-> file[p]]]
  /\ pending = [h \in Hash |-> 0]
  /\ deleteTimers = {}
  /\ steps = 0 /\ deletions = 0
  /\ late = {} /\ recreated = {}

----------------------------------------------------------------------------
(* The worktree *)

\* What chokidar reports of a change; it turns a deletion that is undone
\* before it was reported into a change.
Report(p, from, to) ==
  LET queue == reports[p]
      kind == CASE from = NoFile -> "add" [] to = NoFile -> "unlink" [] OTHER -> "change"
  IN  IF kind = "add" /\ queue # <<>> /\ queue[Len(queue)] = "unlink"
        THEN [queue EXCEPT ![Len(queue)] = "change"]
        ELSE Append(queue, kind)

\* A user writes, deletes or renames files.
Work(after) ==
  /\ steps < MaxSteps
  /\ steps' = steps + 1
  /\ file' = after
  /\ reports' = [p \in Name |-> IF after[p] = file[p] THEN reports[p]
                                ELSE Report(p, file[p], after[p])]
  /\ UNCHANGED <<reads, content, map, pending, deleteTimers, deletions, late, recreated>>

Write(p, h) == file[p] # h /\ Work([file EXCEPT ![p] = h])
Unlink(p) == file[p] # NoFile /\ Work([file EXCEPT ![p] = NoFile])
Move(p, q) ==
  /\ p # q /\ file[p] # NoFile
  /\ Work([file EXCEPT ![p] = NoFile, ![q] = file[p]])

----------------------------------------------------------------------------
(* The manifest *)

RunningFor(p) == {t \in deleteTimers : t.path = p}
Named(n) == {t \in deleteTimers : t.number = n}
Listed(m, p) == m[p] # NoFile /\ m[p].exists
\* (UnlistedForgotten is a fault that no specification uses.)
UnlistedForgotten(m, p) == m
Unlisted(m, p) == IF m[p] = NoFile THEN m ELSE [m EXCEPT ![p].exists = FALSE]

\* checkRename: the deletion with this hash that the new file takes up.
CheckRename(h) == Named(pending[h])

Recreated(p, taken) ==
  recreated' = IF RunningFor(p) \ taken = {} THEN recreated ELSE recreated \cup {p}

\* setFile of a file that exists.
SetFile(p, h) ==
  LET taken == CheckRename(h)
      m == IF taken = {} THEN map ELSE Unlisted(map, (CHOOSE t \in taken : TRUE).path)
  IN  /\ map' = [m EXCEPT ![p] = [exists |-> TRUE, hash |-> h]]
      /\ deleteTimers' = deleteTimers \ taken
      /\ pending' = [pending EXCEPT ![h] = 0]
      /\ Recreated(p, taken)

\* deleteFile: the entry is kept for the timer.
DeleteFile(p) ==
  IF map[p] = NoFile THEN UNCHANGED <<deleteTimers, pending, deletions>>
  ELSE /\ deletions' = deletions + 1
       /\ deleteTimers' = deleteTimers \cup {[path |-> p, hash |-> map[p].hash, number |-> deletions + 1]}
       /\ pending' = [pending EXCEPT ![map[p].hash] = deletions + 1]

\* No rename within the window: the deletion is committed.
TimerFires(t) ==
  /\ deleteTimers' = deleteTimers \ {t}
  /\ pending' = [pending EXCEPT ![t.hash] = 0]
  /\ map' = [map EXCEPT ![t.path] = [exists |-> FALSE, hash |-> t.hash]]
  /\ UNCHANGED <<file, reports, reads, content, steps, deletions, late, recreated>>

----------------------------------------------------------------------------
(* Reports and remote writes *)

\* An unlink is handled at once; an add or a change reads the file first.
Emit(p) ==
  /\ reports[p] # <<>>
  /\ reports' = [reports EXCEPT ![p] = Tail(@)]
  /\ IF Head(reports[p]) = "unlink"
       THEN /\ DeleteFile(p)
            /\ late' = late \ {p}
            /\ UNCHANGED reads
       ELSE /\ reads' = IF file[p] = NoFile THEN reads
                        ELSE reads \cup {[path |-> p, hash |-> file[p],
                                          kind |-> Head(reports[p])]}
            /\ UNCHANGED <<deleteTimers, pending, deletions, late>>
  /\ UNCHANGED <<file, content, map, steps, recreated>>

\* handleLocalCreate, and handleLocalChange, which lists what the Y.Doc lacks.
HandleReport(r) ==
  /\ reads' = reads \ {r}
  /\ content' = [content EXCEPT ![r.path] = r.hash]
  /\ IF r.kind = "change" /\ content[r.path] = r.hash
       THEN /\ recreated' = IF Listed(map, r.path) /\ RunningFor(r.path) = {} THEN recreated
                            ELSE recreated \cup {r.path}
            /\ UNCHANGED <<map, deleteTimers, pending, late>>
       ELSE /\ SetFile(r.path, r.hash)
            /\ late' = IF file[r.path] = r.hash THEN late ELSE late \cup {r.path}
  /\ UNCHANGED <<file, reports, steps, deletions>>

\* handleRemoteUpdate wrote the file; its event is suppressed.  A write while
\* the watcher has something to report of the path is in Documents.
WriteRemote(p, h) ==
  /\ steps < MaxSteps /\ steps' = steps + 1
  /\ reports[p] = <<>>
  /\ file' = [file EXCEPT ![p] = h]
  /\ content' = [content EXCEPT ![p] = h]
  /\ SetFile(p, h)
  /\ UNCHANGED <<reports, reads, deletions, late>>

ManifestNext ==
  \/ \E p \in Name, h \in Hash : Write(p, h) \/ WriteRemote(p, h)
  \/ \E p \in Name : Unlink(p) \/ Emit(p)
  \/ \E p, q \in Name : Move(p, q)
  \/ \E r \in reads : HandleReport(r)
  \/ \E t \in deleteTimers : TimerFires(t)

ManifestSpec == ManifestInit /\ [][ManifestNext]_manifestVars

----------------------------------------------------------------------------
(* Properties *)

\* Once the events are handled and the timers have fired, the manifest lists
\* the files there are: a listed file is missing only if it was listed late,
\* from a content read before its deletion, and a file is unlisted only if it
\* was made again while its deletion was held back or came back with the text
\* that its document had kept.
ManifestExact ==
  reads = {} /\ deleteTimers = {} /\ (\A p \in Name : reports[p] = <<>>) =>
    \A p \in Name :
      /\ Listed(map, p) /\ p \notin late =>
           file[p] # NoFile /\ map[p].hash = file[p]
      /\ file[p] # NoFile /\ p \notin late \cup recreated => Listed(map, p)
=============================================================================
