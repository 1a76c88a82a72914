----------------------------- MODULE MCWorktree -----------------------------
(***************************************************************************)
(* A worktree: the documents of two daemons, the manifest and the ignore   *)
(* filter of one, the processes that a worktree has had, and what commands *)
(* write to it.  They meet in what is nondeterministic in each of them (an *)
(* update arrives, a daemon stops), share no variable, and every property  *)
(* speaks of one; so each is checked with the others at rest, all of them  *)
(* in one run.                                                             *)
(***************************************************************************)
EXTENDS MCDocuments, Manifest, Lifecycle, Setup, MCIgnoreFilter

VARIABLE part
worktreeVars == <<docVars, manifestVars, lifeVars, setupVars, patterns, part>>

\* A secret with both characters that are escaped, and one that ends in one;
\* r is in the name of the room.
MCChar == {Quote, Backslash, "x", "r"}
MCSecret == { <<Backslash, Quote>>, <<"x", Backslash>> }
MCGiven == { NoText, <<"g">> }
MCAsked == { <<"claude">>, <<"claude", "opencode", "codex", "mendcode">> }
MCTouched == { "mflow-lock.mjs", "mcp.mflow.example.json" }

\* Daemons are interchangeable, and so are commands.
MCSymmetry == Permutations(Daemon) \cup Permutations(Command)

MCInit ==
  /\ part \in {"documents", "manifest", "processes", "commands", "filter"}
  /\ DocInit /\ ManifestInit /\ LifeInit /\ SetupInit /\ FilterInit
  \* The parts at rest start in one way only.
  /\ part # "documents" => disk = [x \in Daemon |-> Absent]
  /\ part # "manifest" => file = [x \in Name |-> NoFile]
  /\ part # "processes" => pidFile = NoPid /\ socketFile = NoPid
  /\ part # "commands" => gitignore = Nothing

MCNext ==
  /\ UNCHANGED part
  /\ \/ part = "documents" /\ DocNext /\ UNCHANGED <<manifestVars, lifeVars, setupVars, patterns>>
     \/ part = "manifest" /\ ManifestNext /\ UNCHANGED <<docVars, lifeVars, setupVars, patterns>>
     \/ part = "processes" /\ LifeNext /\ UNCHANGED <<docVars, manifestVars, setupVars, patterns>>
     \/ part = "commands" /\ SetupNext /\ UNCHANGED <<docVars, manifestVars, lifeVars, patterns>>
     \/ part = "filter" /\ FilterNext /\ UNCHANGED <<docVars, manifestVars, lifeVars, setupVars>>

MCSpec == MCInit /\ [][MCNext]_worktreeVars
=============================================================================
