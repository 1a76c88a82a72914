------------------------------- MODULE Setup -------------------------------
(***************************************************************************)
(* What the commands leave in a worktree and read back from it: init,      *)
(* setup, ignore, install-hooks, hook-status, secret and start, with the   *)
(* options of the daemon that start spawns.  A command is a sequence of    *)
(* file operations; other commands, the user and a kill come in between.   *)
(* A value is a sequence of characters where quotes and backslashes        *)
(* matter; of .mflow/config.toml only room and secret are kept, and       *)
(* .mflowignore, which init and ignore write, is read by no daemon.        *)
(***************************************************************************)
EXTENDS Naturals, SequencesExt

CONSTANTS Command,         \* commands that may be under way at once
          Char,            \* characters that a secret may have
          Secret,          \* secrets that a user pastes into setup
          Given,           \* secrets that may be in --secret or MFLOW_SECRET, "" for none
          Pattern, Defaults, \* the patterns of `mflow ignore`; DEFAULT_IGNORE_PATTERNS
          Asked,           \* the harnesses that --harness may stand for, in their order
          Touched,         \* the files of harnesses that the user may touch
          Nothing,         \* a file that is not there
          MaxRuns, MaxMeddling \* bounds on commands, and on edits by the user and kills

VARIABLES
  todo,      \* file operations each command has left: [do, ...]
  copy,      \* what each command last read of the settings
  dir,       \* .mflow/ is there
  config,    \* config.toml: room and secret as they stand between their quotes
  ignoreFile, gitignore, \* .mflowignore; whether .gitignore lists .mflow/
  hook,      \* the files of the harnesses: Nothing, "cut", "mflow's" or "user's"
  settings,  \* settings.local.json: the user's edits in it, mflow's entries, and
             \* whether it was cut short
  daemon,    \* Nothing or what it was started with
  runs, meddling, \* so far
  edits,     \* history: edits of the settings by the user
  answers,   \* history: room and secret that the last setup stored
  installed, \* history: <<harness, force>> of finished installations
  overlap,   \* history: a command began while another was under way
  spoiled    \* history: the settings were cut, or edited while a command had a copy
setupVars == <<todo, copy, dir, config, ignoreFile, gitignore, hook, settings, daemon,
               runs, meddling, edits, answers, installed, overlap, spoiled>>

Quote == "\""
Backslash == "\\"
Room == <<"r">>
Derived == <<"git">>  \* deriveRoomId: from the remote and the branch
Fresh == <<"new">>    \* randomBytes
NoText == <<>>

Harness == {"claude", "opencode", "codex", "mendcode"}
FilesOf(h) ==
  CASE h = "claude"   -> <<"mflow-lock.mjs">>
    [] h = "opencode" -> <<"opencode/mflow-lock.js">>
    [] h = "codex"    -> <<"mflow-pre-edit.sh", "mflow-agent-prompt.md", "mflow-hook.example.toml">>
    [] h = "mendcode" -> <<"mendcode/mflow-lock.js", "mflow-control.md", "mcp.mflow.example.json">>
HookFile == UNION {Range(FilesOf(h)) : h \in Harness}

Settings == [own : SUBSET Nat, entries : Nat, cut : BOOLEAN]
NoSettings == [own |-> {}, entries |-> 0, cut |-> FALSE]

\* Secrets are texts, --harness names harnesses, users touch their files,
\* and a missing file has no content.
ASSUME SetupAssumption ==
  /\ {Quote, Backslash} \cup Range(Room) \subseteq Char /\ Secret \subseteq Seq(Char)
  /\ Asked \subseteq Seq(Harness) /\ Touched \subseteq HookFile
  /\ Nothing \notin {"cut", "mflow's", "user's"} \cup Settings \cup [room : Seq(Char), secret : Seq(Char)]

SetupInit ==
  /\ todo = [c \in Command |-> <<>>]
  /\ copy = [c \in Command |-> Nothing]
  /\ dir = FALSE
  /\ config = Nothing /\ ignoreFile = Nothing /\ gitignore \in {Nothing, FALSE}
  /\ hook = [f \in HookFile |-> Nothing]
  /\ settings = NoSettings
  /\ daemon = Nothing
  /\ runs = 0 /\ meddling = 0 /\ edits = 0
  /\ answers = Nothing
  /\ installed = {}
  /\ overlap = FALSE /\ spoiled = FALSE

----------------------------------------------------------------------------
(* Values between quotes *)

\* escapeToml.  (EscapeSwapped and other definitions just before the one that
\* they distort are faults that no specification uses.)
Prefixed(v, ch) == FlattenSeq([i \in DOMAIN v |-> IF v[i] = ch THEN <<Backslash, ch>> ELSE <<v[i]>>])
EscapeSwapped(v) == Prefixed(Prefixed(v, Quote), Backslash)
Escape(v) == Prefixed(Prefixed(v, Backslash), Quote)

\* readTomlString: the value ends at the first quote that is not escaped, then
\* first quotes are unescaped, after them backslashes.
UpToQuote(s) ==
  LET end[n \in 1..(Len(s) + 1)] ==
        IF n > Len(s) THEN n
        ELSE IF s[n] = Quote THEN n
        ELSE end[IF s[n] = Backslash /\ n < Len(s) THEN n + 2 ELSE n + 1]
  IN  SubSeq(s, 1, end[1] - 1)
Unprefixed(s, ch) ==
  LET from[n \in 1..(Len(s) + 1)] ==
        IF n > Len(s) THEN <<>>
        ELSE IF n < Len(s) /\ SubSeq(s, n, n + 1) = <<Backslash, ch>> THEN <<ch>> \o from[n + 2]
        ELSE <<s[n]>> \o from[n + 1]
  IN  from[1]
ReadTomlString(text) == Unprefixed(Unprefixed(UpToQuote(text), Quote), Backslash)

FirstNonEmpty(values) ==
  LET n == SelectInSeq(values, LAMBDA v : v # NoText) IN IF n = 0 THEN NoText ELSE values[n]

----------------------------------------------------------------------------
(* Commands, as the operations they consist of *)

Do(name) == [do |-> name]
WriteConfig(stored, text) == [do |-> "config", stored |-> stored, text |-> text]

\* initCommand: the directory, which says that all is done, is made first.
Initialise == <<Do("mkdir"), WriteConfig(Nothing, [room |-> NoText, secret |-> NoText]), Do("mflowignore"), Do("gitignore")>>

\* writeSetupFiles with the answers; the secret is left out unless asked for.
SetUp(secret) ==
  <<Do("mkdir"), WriteConfig([room |-> Room, secret |-> secret],
                             [room |-> Escape(Room), secret |-> Escape(secret)])>>

\* writeIfAllowed for each file of a harness.
WriteIfAllowed(f, force) == [do |-> "hook", file |-> f, force |-> force]
Finish(h, force) == [do |-> "installed", harness |-> h, force |-> force, counts |-> TRUE]
InstallWithoutLast(h, force) ==
  [i \in 1..(Len(FilesOf(h)) - 1) |-> WriteIfAllowed(FilesOf(h)[i], force)]
  \o <<Finish(h, force)>>
Install(h, force) ==
  [i \in DOMAIN FilesOf(h) |-> WriteIfAllowed(FilesOf(h)[i], force)]
  \o (IF h = "claude" THEN <<Do("read-settings"), Do("write-settings")>> ELSE <<>>)
  \o <<Finish(h, force)>>

Begin(c, steps) ==
  /\ todo[c] = <<>> /\ runs < MaxRuns
  /\ runs' = runs + 1
  /\ todo' = [todo EXCEPT ![c] = steps]
  /\ overlap' = (overlap \/ \E o \in Command : todo[o] # <<>>)
  /\ UNCHANGED <<copy, dir, config, ignoreFile, gitignore, hook, settings, daemon,
                 meddling, edits, answers, installed, spoiled>>

Ensure == IF dir THEN <<>> ELSE Initialise

InitCommand(c) == Begin(c, Ensure)
SetupCommand(c, secret) == Begin(c, SetUp(secret))
IgnoreCommand(c, p) ==
  Begin(c, IF ignoreFile # Nothing /\ p \in ignoreFile THEN <<>> ELSE <<[do |-> "ignore", pattern |-> p]>>)
InstallHooksCommand(c, hs, force) ==
  Begin(c, FlattenSeq([i \in DOMAIN hs |-> Install(hs[i], force)]))
StartWith(c, given) ==
  /\ daemon = Nothing
  /\ Begin(c, Ensure \o <<[do |-> "start", given |-> given]>>)
StopDaemon ==
  /\ daemon # Nothing
  /\ daemon' = Nothing
  /\ UNCHANGED <<todo, copy, dir, config, ignoreFile, gitignore, hook, settings, runs,
                 meddling, edits, answers, installed, overlap, spoiled>>

----------------------------------------------------------------------------
(* The daemon's configuration *)

\* buildConfig: the schema fills in every field that the options leave open.
BuildConfig == [room |-> NoText, secret |-> NoText]

\* parseSimpleToml: quotes are taken off and nothing is unescaped.
ParseSimpleToml(text) == [room |-> text.room, secret |-> text.secret]

DeepMerge(target, source) ==
  [key \in (DOMAIN target) \cup (DOMAIN source) |-> IF key \in DOMAIN source THEN source[key] ELSE target[key]]
LoadConfigFile(built) == IF config = Nothing THEN built ELSE DeepMerge(ParseSimpleToml(config), built)

\* readStartConfig, and what start makes of it and of the options.
Read(key) == IF config = Nothing THEN NoText ELSE ReadTomlString(config[key])
DaemonOptions(given) ==
  LET loaded == LoadConfigFile(BuildConfig)
      room == FirstNonEmpty(<<Read("room"), Derived>>)
      secret == FirstNonEmpty(<<given, Read("secret"), Fresh>>)
  IN  [room |-> FirstNonEmpty(<<room, loaded.room>>),
       secret |-> FirstNonEmpty(<<secret, loaded.secret>>),
       given |-> given, answers |-> answers]

----------------------------------------------------------------------------
(* The operations *)

At(c, name) == todo[c] # <<>> /\ Head(todo[c]).do = name
Done(c) == todo' = [todo EXCEPT ![c] = Tail(@)]
setupFiles == <<dir, config, ignoreFile, gitignore, hook, settings, daemon, copy>>
pastVars == <<runs, meddling, edits, overlap, spoiled>>

Mkdir(c) ==
  /\ At(c, "mkdir") /\ Done(c)
  /\ dir' = TRUE
  /\ UNCHANGED <<config, ignoreFile, gitignore, hook, settings, daemon, copy, pastVars,
                 answers, installed>>

ConfigWritten(c) ==
  /\ At(c, "config") /\ Done(c)
  /\ config' = Head(todo[c]).text
  /\ answers' = Head(todo[c]).stored
  /\ UNCHANGED <<dir, ignoreFile, gitignore, hook, settings, daemon, copy, pastVars, installed>>

IgnoreFileWritten(c) ==
  /\ \/ At(c, "mflowignore") /\ ignoreFile' = Defaults
     \/ At(c, "ignore") /\ ignoreFile' = {Head(todo[c]).pattern}
                             \cup (IF ignoreFile = Nothing THEN {} ELSE ignoreFile)
  /\ Done(c)
  /\ UNCHANGED <<dir, config, gitignore, hook, settings, daemon, copy, pastVars, answers, installed>>

GitignoreWritten(c) ==
  /\ At(c, "gitignore") /\ Done(c)
  /\ gitignore' = TRUE
  /\ UNCHANGED <<dir, config, ignoreFile, hook, settings, daemon, copy, pastVars, answers, installed>>

HookWritten(c) ==
  /\ At(c, "hook") /\ Done(c)
  /\ hook' = IF hook[Head(todo[c]).file] # Nothing /\ ~Head(todo[c]).force THEN hook
             ELSE [hook EXCEPT ![Head(todo[c]).file] = "mflow's"]
  /\ UNCHANGED <<dir, config, ignoreFile, gitignore, settings, daemon, copy, pastVars,
                 answers, installed>>

\* readJsonObject; of a file that was cut either nothing is left, or it throws.
SettingsRead(c) ==
  /\ At(c, "read-settings")
  /\ \/ /\ Done(c)
        /\ copy' = [copy EXCEPT ![c] = IF settings.cut THEN NoSettings ELSE settings]
     \/ settings.cut /\ todo' = [todo EXCEPT ![c] = <<>>] /\ UNCHANGED copy
  /\ UNCHANGED <<dir, config, ignoreFile, gitignore, hook, settings, daemon, pastVars,
                 answers, installed>>

\* One entry more, unless one is there.
EntryAlwaysAdded(found) == [found EXCEPT !.entries = @ + 1]
EntryAdded(found) == IF found.entries > 0 THEN found ELSE [found EXCEPT !.entries = 1]
SettingsWritten(c) ==
  /\ At(c, "write-settings") /\ Done(c)
  /\ settings' = EntryAdded(copy[c])
  /\ copy' = [copy EXCEPT ![c] = Nothing]
  /\ UNCHANGED <<dir, config, ignoreFile, gitignore, hook, daemon, pastVars, answers, installed>>

Installed(c) ==
  /\ At(c, "installed") /\ Done(c)
  /\ installed' = installed \cup (IF Head(todo[c]).counts
                                  THEN {<<Head(todo[c]).harness, Head(todo[c]).force>>} ELSE {})
  /\ UNCHANGED <<setupFiles, pastVars, answers>>

DaemonStarted(c) ==
  /\ At(c, "start") /\ Done(c)
  /\ daemon' = IF daemon = Nothing THEN DaemonOptions(Head(todo[c]).given) ELSE daemon
  /\ UNCHANGED <<dir, config, ignoreFile, gitignore, hook, settings, copy, pastVars,
                 answers, installed>>

----------------------------------------------------------------------------
(* The user, and a command that is killed *)

Meddle == meddling < MaxMeddling /\ meddling' = meddling + 1
HarnessOf(f) == CHOOSE h \in Harness : f \in Range(FilesOf(h))

\* What was, or is about to be, noted as installed no longer counts.
Disturb(h, left) ==
  /\ installed' = {x \in installed : x[1] # h}
  /\ todo' = [c \in Command |-> [i \in DOMAIN left[c] |->
       IF left[c][i].do = "installed" /\ left[c][i].harness = h
       THEN [left[c][i] EXCEPT !.counts = FALSE] ELSE left[c][i]]]

UserTouchesHook(f) ==
  /\ Meddle
  /\ hook' \in {[hook EXCEPT ![f] = new] : new \in {Nothing, "user's"} \ {hook[f]}}
  /\ Disturb(HarnessOf(f), todo)
  /\ UNCHANGED <<copy, dir, config, ignoreFile, gitignore, settings, daemon, runs,
                 edits, answers, overlap, spoiled>>

UserEditsSettings ==
  /\ Meddle /\ ~settings.cut
  /\ edits' = edits + 1
  /\ settings' = [settings EXCEPT !.own = @ \cup {edits'}]
  /\ spoiled' = (spoiled \/ \E c \in Command : copy[c] # Nothing)
  /\ UNCHANGED <<todo, copy, dir, config, ignoreFile, gitignore, hook, daemon, runs,
                 answers, installed, overlap>>

\* A file that was being written is cut short.
Kill(c) ==
  /\ todo[c] # <<>> /\ Meddle
  /\ copy' = [copy EXCEPT ![c] = Nothing]
  /\ config' = IF At(c, "config") THEN Nothing ELSE config
  /\ answers' = IF At(c, "config") THEN Nothing ELSE answers
  /\ ignoreFile' = IF At(c, "mflowignore") THEN {} ELSE ignoreFile
  /\ gitignore' = IF At(c, "gitignore") THEN FALSE ELSE gitignore
  /\ LET left == [todo EXCEPT ![c] = <<>>]
         writes == At(c, "hook") /\ (hook[Head(todo[c]).file] = Nothing \/ Head(todo[c]).force)
     IN  /\ hook' = IF writes THEN [hook EXCEPT ![Head(todo[c]).file] = "cut"] ELSE hook
         /\ IF writes THEN Disturb(HarnessOf(Head(todo[c]).file), left)
            ELSE IF At(c, "write-settings") THEN Disturb("claude", left)
            ELSE todo' = left /\ UNCHANGED installed
  /\ settings' = IF At(c, "write-settings") THEN [NoSettings EXCEPT !.cut = TRUE] ELSE settings
  /\ spoiled' = (spoiled \/ At(c, "write-settings"))
  /\ UNCHANGED <<dir, daemon, runs, edits, overlap>>

SetupNext ==
  \/ \E c \in Command :
       \/ InitCommand(c)
       \/ \E secret \in Secret : SetupCommand(c, secret)
       \/ \E p \in Pattern : IgnoreCommand(c, p)
       \/ \E hs \in Asked, force \in BOOLEAN : InstallHooksCommand(c, hs, force)
       \/ \E given \in Given : StartWith(c, given)
       \/ Mkdir(c) \/ ConfigWritten(c) \/ IgnoreFileWritten(c) \/ GitignoreWritten(c)
       \/ HookWritten(c) \/ SettingsRead(c) \/ SettingsWritten(c) \/ Installed(c)
       \/ DaemonStarted(c) \/ Kill(c)
  \/ StopDaemon \/ UserEditsSettings
  \/ \E f \in Touched : UserTouchesHook(f)

SetupSpec == SetupInit /\ [][SetupNext]_setupVars

----------------------------------------------------------------------------
(* What hook-status and secret tell, and properties *)

\* The four get...Status; the reads of one report are taken as simultaneous.
There(h) == \A f \in Range(FilesOf(h)) : hook[f] # Nothing
HookStatus(h) ==
  /\ There(h)
  /\ h = "claude" => settings.entries > 0
  /\ h = "mendcode" => hook["mcp.mflow.example.json"] = "mflow's"

SecretPrinted == Read("secret")

\* After any installations, interrupted ones included, the settings have one
\* entry of mflow at most, and still all that the user put there unless they
\* were being written or held at the time; hook-status calls what was
\* installed and left alone installed, and --force leaves mflow's own files.
HooksInstalled ==
  /\ settings.entries <= 1
  /\ ~spoiled => settings.own = 1..edits
  /\ \A x \in installed :
       /\ HookStatus(x[1]) \/ (x = <<"mendcode", FALSE>> /\ There("mendcode"))
       /\ x[2] => \A f \in Range(FilesOf(x[1])) : hook[f] = "mflow's"

\* A daemon has the room and the secret that setup was given and stored, quotes
\* and backslashes included, where the command line gives none; `mflow secret`
\* prints that secret too.  (Commands that do not overlap.)
StartsAsSetUp ==
  ~overlap =>
    /\ answers # Nothing => SecretPrinted = answers.secret
    /\ daemon # Nothing =>
         IF daemon.answers = Nothing
         THEN daemon.room = Derived /\ daemon.secret = FirstNonEmpty(<<daemon.given, Fresh>>)
         ELSE /\ daemon.room = Room
              /\ daemon.secret = FirstNonEmpty(<<daemon.given, daemon.answers.secret, Fresh>>)
=============================================================================
