---------------------------- MODULE IgnoreFilter ----------------------------
(***************************************************************************)
(* The ignore patterns of a daemon: each is turned into a regular          *)
(* expression, and the last one that finds a path decides.  A path is a    *)
(* sequence of characters, a pattern one of characters and of the          *)
(* wildcards "*", "?", "**" and "**" with its slash.  Left out are         *)
(* comments and blank lines, and the slash at the end of a pattern: the    *)
(* code takes it off, notes the pattern as directoryOnly and never looks   *)
(* at that note, so "dist/" is found in what is named dist and in nothing  *)
(* below it.                                                               *)
(***************************************************************************)
EXTENDS Naturals, SequencesExt

CONSTANTS File,       \* the paths that are asked about
          Line,       \* the patterns that may be added: [segs, anchored, negated]
          MaxPatterns \* bound on the patterns of a filter

VARIABLE patterns     \* in the order they were added

Slash == "/"
AnyDirs == "**/"
Wildcard == {"**", AnyDirs}

\* No name in a path is empty (or has a line break, which "." would not match),
\* and none in a pattern, where it has no slash and is "**" or has none.
ASSUME FilterAssumption ==
  /\ \A path \in File :
       /\ path \in Seq(Range(path))
       /\ \A i \in DOMAIN path : path[i] = Slash => i > 1 /\ path[i - 1] # Slash
  /\ \A line \in Line :
       /\ line.segs \in Seq(Range(line.segs)) /\ line.segs # <<>>
       /\ line.anchored \in BOOLEAN /\ line.negated \in BOOLEAN
       /\ \A seg \in Range(line.segs) :
            \/ seg = <<"**">>
            \/ /\ seg \in Seq(Range(seg)) /\ seg # <<>>
               /\ Range(seg) \cap ({Slash} \cup Wildcard) = {}
               /\ \A i \in 2..Len(seg) : ~(seg[i - 1] = "*" /\ seg[i] = "*")

\* A pattern as it is written: the names and wildcards between its slashes.
Written(line) ==
  LET Segment(i) == IF line.segs[i] # <<"**">> THEN line.segs[i] \o <<Slash>>
                    ELSE IF i = Len(line.segs) THEN <<"**", Slash>> ELSE <<AnyDirs>>
      body == FlattenSeq([i \in DOMAIN line.segs |-> Segment(i)])
  IN  IF line.anchored THEN <<Slash>> \o Front(body) ELSE Front(body)

\* globToRegex: a leading slash is taken off and ties the pattern to the root.
Anchored(glob) == Head(glob) = Slash
Body(glob) == IF Anchored(glob) THEN Tail(glob) ELSE glob
MatchFullPath(glob) == \E ch \in Range(glob) : ch \in {Slash, AnyDirs}

\* buildGlobRegex: what each character of a pattern accepts.  (AcceptsSome is
\* a fault that no specification uses.)
AcceptsSome(ch, t) ==
  CASE ch = AnyDirs -> Len(t) > 1 /\ Last(t) = Slash
    [] ch = "**"    -> TRUE
    [] ch = "*"     -> Slash \notin Range(t)
    [] ch = "?"     -> Len(t) = 1 /\ t[1] # Slash
    [] OTHER        -> t = <<ch>>
Accepts(ch, t) ==
  CASE ch = AnyDirs -> t = <<>> \/ (Len(t) > 1 /\ Last(t) = Slash)
    [] ch = "**"    -> TRUE
    [] ch = "*"     -> Slash \notin Range(t)
    [] ch = "?"     -> Len(t) = 1 /\ t[1] # Slash
    [] OTHER        -> t = <<ch>>

\* Where in s a match that stands at one of these places may stand after ch.
After(ch, s, places) ==
  {j \in 0..Len(s) : \E i \in places : i <= j /\ Accepts(ch, SubSeq(s, i + 1, j))}

\* The expression is found in s: from the root, from the start of any name, or
\* (a pattern for file names) anywhere, then up to anywhere.
Found(glob, s) ==
  LET starts == IF Anchored(glob) THEN {0}
                ELSE IF MatchFullPath(glob) THEN {0} \cup {i \in DOMAIN s : s[i] = Slash}
                ELSE 0..Len(s)
      body == Body(glob)
      places[n \in 0..Len(body)] == IF n = 0 THEN starts ELSE After(body[n], s, places[n - 1])
  IN  \E j \in places[Len(body)] : MatchFullPath(glob) => j = Len(s)

Basename(path) == SubSeq(path, SelectLastInSeq(path, LAMBDA ch : ch = Slash) + 1, Len(path))
Finds(glob, path) == Found(glob, IF MatchFullPath(glob) THEN path ELSE Basename(path))

\* The last of the patterns that find a path decides.
Decided(found) == found # {} /\ ~patterns[Max(found)].negated
IsIgnored(path) == Decided({i \in DOMAIN patterns : Finds(Written(patterns[i]), path)})

FilterInit == patterns = <<>>

AddPattern(line) ==
  /\ Len(patterns) < MaxPatterns
  /\ patterns' = Append(patterns, line)

FilterNext == \E line \in Line : AddPattern(line)
FilterSpec == FilterInit /\ [][FilterNext]_patterns

----------------------------------------------------------------------------
(* What a pattern names *)

\* The characters of a pattern stand one after the other in a name.
NameFits(p, name) ==
  \E at \in [0..Len(p) -> 0..Len(name)] :
    /\ at[0] = 0 /\ at[Len(p)] = Len(name)
    /\ \A k \in DOMAIN p :
         /\ at[k - 1] <= at[k]
         /\ p[k] # "*" => at[k] = at[k - 1] + 1 /\ p[k] \in {"?", name[at[k]]}

\* A pattern names a path when its segments, each a name, stand one after the
\* other in the path and reach its end, from the root if the pattern is
\* anchored; "**" is any number of names, at the end one at least.  Names begin
\* after a cut and end before the next.  What lies below a directory that a
\* pattern names is not named by it.
Cuts(path) == {0, Len(path) + 1} \cup {i \in DOMAIN path : path[i] = Slash}
Fits(line, path) ==
  \E at \in [0..Len(line.segs) -> Cuts(path)] :
    /\ line.anchored => at[0] = 0
    /\ at[Len(line.segs)] = Len(path) + 1
    /\ \A k \in DOMAIN line.segs :
         IF line.segs[k] = <<"**">>
         THEN at[k - 1] <= at[k] /\ (k = Len(line.segs) => at[k - 1] < at[k])
         ELSE /\ at[k - 1] < at[k] /\ \A i \in Cuts(path) : i <= at[k - 1] \/ i >= at[k]
              /\ NameFits(line.segs[k], SubSeq(path, at[k - 1] + 1, at[k] - 1))
Expected(path) == Decided({i \in DOMAIN patterns : Fits(patterns[i], path)})

\* The last pattern with a slash that names a path decides; patterns for file
\* names ignore the paths they name, and others (they are found inside a name
\* as well: "build/" keeps rebuild.ts from being synced).  This is about what is
\* named, as globToRegex and isIgnored read a pattern (ignore.ts 37-109,
\* 180-202), and says nothing of what is below an ignored directory.
IgnoresWhatIsWritten ==
  patterns # <<>> => \A path \in File :
    /\ (\A line \in Range(patterns) : MatchFullPath(Written(line))) =>
         IsIgnored(path) = Expected(path)
    /\ (\A line \in Range(patterns) : ~line.negated) /\ Expected(path) => IsIgnored(path)

\* docs/troubleshooting.md:54-61 ("Use .mflowignore for generated output: ...
\* dist/") and docs/security-model.md:51-58 (build output directories are
\* skipped) take a pattern that names a directory to cover the files in it.
\* isIgnored asks about the whole path or its last name only (ignore.ts
\* 180-202), and nothing else keeps a remote write out of dist/ (sync.ts 441).
Above(path) == {SubSeq(path, 1, i - 1) : i \in {j \in DOMAIN path : path[j] = Slash}}
CoversDirectories ==
  (\A line \in Range(patterns) : ~line.negated) =>
    \A path \in File :
      (\E line \in Range(patterns), dir \in Above(path) : Fits(line, dir)) => IsIgnored(path)
=============================================================================
