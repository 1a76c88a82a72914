----------------------------- MODULE Documents -----------------------------
(***************************************************************************)
(* One file in the worktrees of several daemons: the text on disk, the     *)
(* watcher that reads it, the Y.Doc behind it and the state saved for it.  *)
(* Nobody deletes it (Manifest has deletes); other files fill the manifest *)
(* up, or not; and a write that fails leaves the file as it was.           *)
(* A text is a bag of pieces (their order is Yjs's business), its hash the *)
(* text itself.  An update inserts pieces and deletes pieces of the        *)
(* document it was made in, and is pending in a document that lacks what   *)
(* its author had; a document is the set of updates it received.  Updates  *)
(* reach every other daemon once and in any order; the gate, pauses and    *)
(* lost frames are in GateQueue, PauseBuffer and PeerTransport.            *)
(***************************************************************************)
EXTENDS Naturals, FiniteSets, Functions

CONSTANTS Daemon, Text, Absent, None,
          MaxSaves,   \* bound on the saves of users, together
          MaxUnloads, \* bound on idle unloads and stops, together
          MaxUpdates, \* bound on those and the updates made, together
          AtStart,    \* the texts the file may have at the start, Absent if it is not there
          Refused     \* the texts shouldSync refuses: those over MAX_FILE_SIZE, or all
                      \* of them if the rules ignore the path or it is of a binary type

\* Updates are numbered by daemon, pieces by the update that inserts them.
UpdateId == Daemon \X (Nat \ {0})
Piece == [id : UpdateId, text : Text, copy : Nat]
Update == [id : UpdateId, deps : SUBSET UpdateId, del : SUBSET Piece, ins : SUBSET Piece]
FileText == [Text -> Nat]

ASSUME TextAssumption ==
  /\ IsFiniteSet(Text)
  /\ Absent \notin FileText /\ AtStart \subseteq FileText \cup {Absent}
  /\ None \notin FileText
VARIABLES
  mode,     \* "on" (syncing and not paused), "stopping" or "off"
  disk,     \* the text of the file, or Absent
  event,    \* what chokidar has yet to report: subset of {"created", "changed"}
  reading,  \* calls of handleFileEvent and the text each has read, None before that
            \* (two of one kind that have got equally far are one)
  tokens,   \* WriteRegistry: the writes announced
  writing,  \* handleRemoteUpdate between its merge and its writeFile
  listed,   \* content hash in the manifest, or None
  loaded,   \* daemons that have a Y.Doc for the file
  doc,      \* the updates in it
  saving,   \* states encoded and not yet written by CRDTPersistence
  saved,    \* the updates in the .ystate file
  flight,   \* updates on their way to a daemon
  saves, unloads, \* saves of users, and idle unloads and stops, so far
  made,     \* the updates made by each daemon
  due,      \* history: the updates that each daemon had reason to make
  raced,    \* history: something began at the daemon while the file was busy
  apart,    \* history: the file or the document was last given a text the other was not
  intact    \* history: no document was ever unloaded or daemon stopped
docVars == <<mode, disk, event, reading, tokens, writing, listed, loaded, doc,
             saving, saved, flight, saves, unloads, made, due, raced, apart, intact>>

----------------------------------------------------------------------------
(* Y.Doc and Y.Text.  (Definitions named ...WithoutDeletions, ...Before    *)
(* and ...Unawaited, each just before the one it distorts, are faults that *)
(* no specification uses: they confirm that the properties would notice.)  *)

Ids(us) == {u.id : u \in us}
Integrated(us) == {u \in us : u.deps \subseteq Ids(us)}
Live(us) == LET in == Integrated(us)
            IN  (UNION {u.ins : u \in in}) \ (UNION {u.del : u \in in})
TextOf(us) == [t \in Text |-> Cardinality({x \in Live(us) : x.text = t})]
Empty == [t \in Text |-> 0]

WithinBound == SumFunction(made) + unloads < MaxUpdates
Less(m, n) == IF m > n THEN m - n ELSE 0
Settled(d) == event[d] = {} /\ reading[d] = {} /\ writing[d] = {}

\* The watcher's first scan reports the file; a daemon sees it if it is syncing
\* by the time that the report is handled.
Scanned(d) == IF disk[d] = Absent THEN {} ELSE {"created"}

DocInit ==
  /\ mode = [d \in Daemon |-> "on"]
  /\ \E text \in AtStart : disk = [d \in Daemon |-> text]
  /\ \E seen \in SUBSET Daemon :
       event = [d \in Daemon |-> IF d \in seen THEN Scanned(d) ELSE {}]
  /\ reading = [d \in Daemon |-> {}]
  /\ tokens = [d \in Daemon |-> {}]
  /\ writing = [d \in Daemon |-> {}]
  /\ listed = [d \in Daemon |-> None]
  /\ loaded = {}
  /\ doc = [d \in Daemon |-> {}]
  /\ saving = [d \in Daemon |-> {}]
  /\ saved = [d \in Daemon |-> {}]
  /\ flight = {}
  /\ saves = 0 /\ unloads = 0
  /\ made = [d \in Daemon |-> 0]
  /\ due = [d \in Daemon |-> Cardinality(event[d])]
  /\ raced = [d \in Daemon |-> FALSE]
  /\ apart = [d \in Daemon |-> FALSE]
  /\ intact = TRUE

fileVars == <<disk, event, reading>>
historyVars == <<saves, unloads, intact>>
traceVars == <<due, raced, apart>>
diskVars == <<saving, saved>>
ydoc == <<loaded, doc>>

----------------------------------------------------------------------------
(* The file, chokidar and the watcher *)

\* The text of the file changes; chokidar folds events of a kind together.
Changes(d, text) ==
  /\ disk' = [disk EXCEPT ![d] = text]
  /\ event' = [event EXCEPT ![d] =
                  @ \cup {IF disk[d] = Absent THEN "created" ELSE "changed"}]

\* A user, an editor or an agent saves the file.
UserSave(d, text) ==
  /\ saves < MaxSaves /\ text # disk[d]
  /\ Changes(d, text)
  /\ saves' = saves + 1
  /\ due' = [due EXCEPT ![d] = @ + 1]
  /\ raced' = [raced EXCEPT ![d] = @ \/ ~Settled(d)]
  /\ UNCHANGED <<mode, reading, tokens, writing, listed, ydoc, diskVars, flight,
                 made, unloads, apart, intact>>

\* handleFileEvent up to its await of readFile: what is not to be synced is left.
StatFile(d, kind) ==
  /\ mode[d] # "off" /\ kind \in event[d]
  /\ event' = [event EXCEPT ![d] = @ \ {kind}]
  /\ IF disk[d] \in Refused
        THEN apart' = [apart EXCEPT ![d] = TRUE] /\ UNCHANGED reading
        ELSE /\ reading' = [reading EXCEPT ![d] = @ \cup {[kind |-> kind, text |-> None]}]
             /\ UNCHANGED apart
  /\ UNCHANGED <<mode, disk, tokens, writing, listed, ydoc, diskVars, flight, made,
                 historyVars, due, raced>>

\* The text is read; it is handled when the call goes on.
ReadFile(d, r) ==
  /\ r \in reading[d] /\ r.text = None /\ mode[d] # "off"
  /\ reading' = [reading EXCEPT ![d] = (@ \ {r}) \cup {[r EXCEPT !.text = disk[d]]}]
  /\ UNCHANGED <<mode, disk, event, tokens, writing, listed, ydoc, diskVars, flight, made,
                 historyVars, traceVars>>

\* WriteRegistry.checkAndConsume.
Announced(d, text) == {t \in tokens[d] : t.hash = text}

Suppress(d, r) ==
  \E t \in Announced(d, r.text) :
    /\ tokens' = [tokens EXCEPT ![d] = @ \ {t}]
    /\ apart' = [apart EXCEPT ![d] = @ \/ listed[d] # r.text]
    /\ UNCHANGED <<listed, ydoc, flight, made>>

\* What is sent of a "local" transaction: all of it.
SentWithoutDeletions(u) == [u EXCEPT !.del = {}]
Sent(u) == u

\* A "local" transaction: the document and the other daemons get its update.
Transact(d, del, want) ==
  LET id == <<d, made[d] + 1>>
      u == [id |-> id, deps |-> Ids(Integrated(doc[d])), del |-> del,
            ins |-> UNION {{[id |-> id, text |-> t, copy |-> n] : n \in 1..want[t]}
                           : t \in Text}]
  IN  /\ loaded' = loaded \cup {d}
      /\ IF del = {} /\ want = Empty
        THEN UNCHANGED <<doc, flight, made>>
        ELSE /\ WithinBound
             /\ made' = [made EXCEPT ![d] = @ + 1]
             /\ doc' = [doc EXCEPT ![d] = @ \cup {u}]
             /\ flight' = flight \cup {<<e, Sent(u)>> : e \in Daemon \ {d}}

\* crdt.initializeContent: delete all there is, insert all of the text.
InitializeContent(d, text) == Transact(d, Live(doc[d]), text)

\* crdt.applyLocalChange: what computeDiff finds.
ApplyLocalChange(d, text) ==
  LET old == TextOf(doc[d]) IN
  \E del \in SUBSET Live(doc[d]) :
    /\ \A t \in Text : Cardinality({x \in del : x.text = t}) = Less(old[t], text[t])
    /\ Transact(d, del, [t \in Text |-> Less(text[t], old[t])])

\* handleLocalCreate and handleLocalChange, with manifest.setFile.
HandleLocal(d, r) ==
  /\ IF r.kind = "created" \/ d \notin loaded
        THEN InitializeContent(d, r.text)
        ELSE ApplyLocalChange(d, r.text)
  /\ listed' = [listed EXCEPT ![d] =
                   IF r.kind = "created" \/ made' # made THEN r.text ELSE @]
  /\ apart' = [apart EXCEPT ![d] = @ /\ listed'[d] # r.text]
  /\ UNCHANGED tokens

HandleEvent(d, r) ==
  /\ r \in reading[d] /\ r.text # None /\ mode[d] # "off"
  /\ reading' = [reading EXCEPT ![d] = @ \ {r}]
  /\ \/ Suppress(d, r)
     \/ Announced(d, r.text) = {} /\ mode[d] = "on" /\ HandleLocal(d, r)
     \/ /\ Announced(d, r.text) = {} /\ mode[d] # "on"
        /\ UNCHANGED <<tokens, listed, ydoc, flight, made, apart>>
  /\ UNCHANGED <<mode, disk, event, writing, diskVars, historyVars, due, raced>>

\* A token is dropped five seconds or more after it was registered, whatever
\* became of the write that it announced.  (The oldest go first; here, any.)
ForgetToken(d, t) ==
  /\ t \in tokens[d]
  /\ tokens' = [tokens EXCEPT ![d] = @ \ {t}]
  /\ due' = [due EXCEPT ![d] = IF Settled(d) THEN @ ELSE @ + 1]
  /\ UNCHANGED <<mode, fileVars, writing, listed, ydoc, diskVars, flight, made,
                 historyVars, raced, apart>>

----------------------------------------------------------------------------
(* Updates of other daemons *)

\* The text of the document once the update is in it, and the hash announced.
MergedBefore(d, u) == TextOf(doc[d])
Merged(d, u) == TextOf(doc[d] \cup {u})
AnnouncedBefore(d, u) == TextOf(doc[d])
AnnouncedHash(d, u) == TextOf(doc[d] \cup {u})

\* A text that shouldSync refuses is not written, nor a file that is new to a
\* manifest of MAX_TRACKED_FILES files.
Unwritten(d, u) ==
  /\ Merged(d, u) \in Refused \/ listed[d] = None
  /\ apart' = [apart EXCEPT ![d] = TRUE]
  /\ UNCHANGED <<tokens, writing>>

Announce(d, u) ==
  /\ Merged(d, u) \notin Refused
  /\ tokens' = [tokens EXCEPT ![d] = @ \cup {[id |-> u.id, hash |-> AnnouncedHash(d, u)]}]
  /\ writing' = [writing EXCEPT ![d] = @ \cup {[id |-> u.id, text |-> Merged(d, u)]}]
  /\ UNCHANGED apart

\* handleRemoteUpdate up to its awaits of mkdir and writeFile.
Receive(d, u) ==
  /\ <<d, u>> \in flight
  /\ flight' = flight \ {<<d, u>>}
  /\ IF mode[d] # "on"
        THEN UNCHANGED <<tokens, writing, ydoc, raced, apart>>
        ELSE /\ loaded' = loaded \cup {d}
             /\ doc' = [doc EXCEPT ![d] = @ \cup {u}]
             /\ Unwritten(d, u) \/ Announce(d, u)
             /\ raced' = [raced EXCEPT ![d] = @ \/ ~Settled(d)]
  /\ UNCHANGED <<mode, fileVars, listed, diskVars, made, historyVars, due>>

\* The rest of it: the file is written and the manifest says so.
WriteFile(d, w) ==
  /\ w \in writing[d] /\ mode[d] # "off"
  /\ writing' = [writing EXCEPT ![d] = @ \ {w}]
  /\ Changes(d, w.text)
  /\ listed' = [listed EXCEPT ![d] = w.text]
  /\ apart' = [apart EXCEPT ![d] = FALSE]
  /\ UNCHANGED <<mode, reading, tokens, ydoc, diskVars, flight, made, historyVars, due,
                 raced>>

\* Or it ends at a symlink out of the project, or mkdir or writeFile fails; the
\* token stays.
WriteFails(d, w) ==
  /\ w \in writing[d] /\ mode[d] # "off"
  /\ writing' = [writing EXCEPT ![d] = @ \ {w}]
  /\ apart' = [apart EXCEPT ![d] = TRUE]
  /\ UNCHANGED <<mode, fileVars, tokens, listed, ydoc, diskVars, flight, made, historyVars,
                 due, raced>>

----------------------------------------------------------------------------
(* Unloading, stopping and starting *)

\* crdt.unloadDoc, or persistAll for this file, up to the await of saveDoc.
Encode(d, why) ==
  /\ d \in loaded
  /\ saving' = [saving EXCEPT ![d] = @ \cup {[why |-> why, state |-> doc[d]]}]

UnloadIdle(d) ==
  /\ mode[d] = "on" /\ saving[d] = {} /\ unloads < MaxUnloads /\ WithinBound
  /\ Encode(d, "unload")
  /\ unloads' = unloads + 1
  /\ UNCHANGED <<mode, fileVars, tokens, writing, listed, ydoc, saved, flight, saves,
                 made, traceVars, intact>>

Saves(d, s) ==
  /\ s \in saving[d] /\ mode[d] # "off"
  /\ saving' = [saving EXCEPT ![d] = @ \ {s}]
  /\ saved' = [saved EXCEPT ![d] = s.state]

Unloaded(d) ==
  /\ \E s \in saving[d] : s.why = "unload" /\ Saves(d, s)
  /\ loaded' = loaded \ {d} /\ doc' = [doc EXCEPT ![d] = {}]
  /\ intact' = FALSE
  /\ UNCHANGED <<mode, fileVars, tokens, writing, listed, flight, made, saves, unloads,
                 traceVars>>

\* SyncOrchestrator.stop: nothing is merged from here on.
Stop(d) ==
  /\ mode[d] = "on" /\ unloads < MaxUnloads /\ WithinBound
  /\ mode' = [mode EXCEPT ![d] = "stopping"]
  /\ IF d \in loaded THEN Encode(d, "stop") ELSE UNCHANGED saving
  /\ unloads' = unloads + 1
  /\ intact' = FALSE
  /\ UNCHANGED <<fileVars, tokens, writing, listed, ydoc, saved, flight, saves, made,
                 traceVars>>

Persisted(d) ==
  /\ \E s \in saving[d] : s.why = "stop" /\ Saves(d, s)
  /\ UNCHANGED <<mode, fileVars, tokens, writing, listed, ydoc, flight, made, historyVars,
                 traceVars>>

\* stop() waits for persistAll, which writes every loaded document.
PersistedUnawaited(d) == TRUE
PersistedAll(d) == \A s \in saving[d] : s.why # "stop"

\* The components are disposed of and the process ends.
Exit(d) ==
  /\ mode[d] = "stopping" /\ PersistedAll(d)
  /\ mode' = [mode EXCEPT ![d] = "off"]
  /\ loaded' = loaded \ {d} /\ doc' = [doc EXCEPT ![d] = {}]
  /\ event' = [event EXCEPT ![d] = {}]
  /\ reading' = [reading EXCEPT ![d] = {}]
  /\ tokens' = [tokens EXCEPT ![d] = {}]
  /\ writing' = [writing EXCEPT ![d] = {}]
  /\ saving' = [saving EXCEPT ![d] = {}]
  /\ UNCHANGED <<disk, listed, saved, flight, made, historyVars, traceVars>>

\* The next daemon: it may be syncing before the scan reports the file.
Start(d) ==
  /\ mode[d] = "off"
  /\ mode' = [mode EXCEPT ![d] = "on"]
  /\ \E seen \in SUBSET Scanned(d) :
       /\ event' = [event EXCEPT ![d] = seen]
       /\ due' = [due EXCEPT ![d] = @ + Cardinality(seen)]
  /\ UNCHANGED <<disk, reading, tokens, writing, listed, ydoc, diskVars, flight, made,
                 historyVars, raced, apart>>

DocNext ==
  \/ \E d \in Daemon :
       \/ \E text \in [Text -> 0..1] : UserSave(d, text)
       \/ \E kind \in {"created", "changed"} : StatFile(d, kind)
       \/ \E r \in reading[d] : ReadFile(d, r) \/ HandleEvent(d, r)
       \/ \E w \in writing[d] : WriteFile(d, w) \/ WriteFails(d, w)
       \/ \E t \in tokens[d] : ForgetToken(d, t)
       \/ UnloadIdle(d) \/ Unloaded(d)
       \/ Stop(d) \/ Persisted(d) \/ Exit(d) \/ Start(d)
  \/ \E m \in flight : Receive(m[1], m[2])

DocSpec == DocInit /\ [][DocNext]_docVars

----------------------------------------------------------------------------
(* Properties *)

\* Daemons that got all the updates, and dropped no document, have the same
\* text: the updates of the documents commute.
Converged ==
  flight = {} /\ intact => \A d, e \in Daemon : TextOf(doc[d]) = TextOf(doc[e])

\* When nothing began while the file was busy, its text is that of the
\* document and the manifest lists it: a write and its event leave no trace.
\* A text that reached only one of the two keeps them apart, until the next that
\* reaches both: a merge that was refused or whose write failed, a save that was
\* too large, a save taken for a write because the token of one that failed was
\* left (sync.ts 437-485, watcher.ts 45-60, 223-224).
SettledFilesAgree ==
  \A d \in Daemon :
    mode[d] = "on" /\ Settled(d) /\ ~raced[d] /\ ~apart[d] /\ doc[d] # {}
    => disk[d] = TextOf(doc[d]) /\ listed[d] = disk[d]

\* The watcher does not send back what the daemon wrote: without a race, every
\* update stems from a save of a user, from the first scan, or from a token
\* that was dropped before the event it was for (watcher.ts 45-81, 212-238).
NoEcho == \A d \in Daemon : ~raced[d] => made[d] <= due[d]

\* A daemon that ends leaves the newest state of a loaded document behind.
StopKeepsDocument ==
  [][\A d \in Daemon : mode[d] = "stopping" /\ mode'[d] = "off" /\ d \in loaded
                        => saved[d] = doc[d]]_docVars

\* A document that was saved and unloaded is loaded again when it is needed.
ReloadedOnAccess ==
  [][\A d \in Daemon : d \notin loaded /\ d \in loaded'
                        => saved[d] \subseteq doc'[d]]_docVars
=============================================================================
