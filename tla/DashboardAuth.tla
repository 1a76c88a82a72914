--------------------------- MODULE DashboardAuth ---------------------------
(***************************************************************************)
(* Sign-in and API keys of the relay's dashboard.  A request is a handler  *)
(* that stops at its awaits: what it read before an await is in req.       *)
(* dashboard-auth.ts keeps everything in maps of the process, whose key    *)
(* objects all requests share; the hosted copy may keep the keys in Deno   *)
(* KV, where every request works on its own copy and writes it back.       *)
(* GitHub is external: it answers a code or a device code with a token at  *)
(* most once.                                                              *)
(***************************************************************************)
EXTENDS FiniteSets, Naturals

CONSTANTS Request, State, Flow, Key

\* A state is the relay's random UUID, a flow is GitHub's device code.
ASSUME SignInAssumption == State \cap Flow = {}

VARIABLES
  kv,           \* the keys are in Deno KV
  oauthStates,  \* State -> "unissued", "valid", "expired" or "gone"
  cookie,       \* the states the browser's cookie may name: at most one
  flows,        \* Flow -> the same, of the device flows
  spent,        \* GitHub's: the codes it has given a token for
  sessions,     \* State or Flow -> how many sessions it has led to
  keys,         \* Key -> [saved, listed, revoked, told]
  req           \* Request -> what it is doing
authVars == <<kv, oauthStates, cookie, flows, spent, sessions, keys, req>>

Idle == [op |-> "idle"]
NoKey == [saved |-> FALSE, listed |-> FALSE, revoked |-> FALSE, told |-> FALSE]

AuthInit ==
  /\ kv \in BOOLEAN
  /\ oauthStates = [t \in State |-> "unissued"]
  /\ cookie = {}
  /\ flows = [f \in Flow |-> "unissued"]
  /\ spent = {}
  /\ sessions = [x \in State \cup Flow |-> 0]
  /\ keys = [k \in Key |-> NoKey]
  /\ req = [r \in Request |-> Idle]

Begins(r, work) == req[r] = Idle /\ req' = [req EXCEPT ![r] = work]
Ends(r) == req' = [req EXCEPT ![r] = Idle]
keyVars == <<kv, keys>>
signInVars == <<kv, oauthStates, cookie, flows, spent, sessions>>
-----------------------------------------------------------------------------
\* GET /auth/github/start: the browser keeps the state as a cookie.
OAuthStart(t) ==
  /\ oauthStates[t] = "unissued"
  /\ oauthStates' = [oauthStates EXCEPT ![t] = "valid"]
  /\ cookie' = {t}
  /\ UNCHANGED <<flows, spent, sessions, req, keyVars>>

Expire ==
  /\ \/ \E t \in State : /\ oauthStates[t] = "valid"
                         /\ oauthStates' = [oauthStates EXCEPT ![t] = "expired"]
                         /\ UNCHANGED flows
     \/ \E f \in Flow : /\ flows[f] = "valid"
                        /\ flows' = [flows EXCEPT ![f] = "expired"]
                        /\ UNCHANGED oauthStates
  /\ UNCHANGED <<cookie, spent, sessions, req, keyVars>>

\* Mutant: the state stays in the map until GitHub has answered.
CallbackKeepsState(r, t) ==
  /\ oauthStates[t] # "unissued"
  /\ IF t \in cookie /\ oauthStates[t] = "valid"
     THEN Begins(r, [op |-> "exchange", code |-> t]) /\ UNCHANGED <<cookie, oauthStates>>
     ELSE req[r] = Idle /\ cookie' = {} /\ UNCHANGED <<req, oauthStates>>
  /\ UNCHANGED <<flows, spent, sessions, keyVars>>

\* GET /auth/github/callback up to the exchange of the code: the state is taken
\* out of the map before the handler waits for GitHub.
OAuthCallback(r, t) ==
  /\ oauthStates[t] # "unissued"
  /\ oauthStates' = [oauthStates EXCEPT ![t] = "gone"]
  /\ IF t \in cookie /\ oauthStates[t] = "valid"
     THEN Begins(r, [op |-> "exchange", code |-> t]) /\ UNCHANGED cookie
     ELSE req[r] = Idle /\ cookie' = {} /\ UNCHANGED req
  /\ UNCHANGED <<flows, spent, sessions, keyVars>>

\* GitHub answers; a token leads to a session.
Exchanged(r, granted) ==
  /\ req[r].op = "exchange"
  /\ Ends(r)
  /\ cookie' = {}
  /\ sessions' = [sessions EXCEPT ![req[r].code] = IF granted THEN @ + 1 ELSE @]
  /\ UNCHANGED <<oauthStates, flows, spent, keyVars>>

\* POST /api/auth/github/device/start.
DeviceStart(f) ==
  /\ flows[f] = "unissued"
  /\ flows' = [flows EXCEPT ![f] = "valid"]
  /\ UNCHANGED <<oauthStates, cookie, spent, sessions, req, keyVars>>

\* POST /api/auth/github/device/poll: the flow stays in the map meanwhile.
DevicePoll(r, f) ==
  /\ flows[f] # "unissued"
  /\ IF flows[f] = "valid"
     THEN Begins(r, [op |-> "poll", code |-> f]) /\ UNCHANGED flows
     ELSE req[r] = Idle /\ UNCHANGED req /\ flows' = [flows EXCEPT ![f] = "gone"]
  /\ UNCHANGED <<oauthStates, cookie, spent, sessions, keyVars>>

DevicePolled(r, granted) ==
  LET f == req[r].code
  IN  /\ req[r].op = "poll"
      /\ Ends(r)
      /\ granted => f \notin spent
      /\ spent' = IF granted THEN spent \cup {f} ELSE spent
      /\ flows' = IF granted THEN [flows EXCEPT ![f] = "gone"] ELSE flows
      /\ sessions' = [sessions EXCEPT ![f] = IF granted THEN @ + 1 ELSE @]
      /\ UNCHANGED <<oauthStates, cookie, keyVars>>
-----------------------------------------------------------------------------
\* POST /api/api-keys in the process: one step, then the plaintext is told.
CreateKey(k) ==
  /\ ~kv /\ keys[k] = NoKey
  /\ keys' = [keys EXCEPT ![k] = [saved |-> TRUE, listed |-> TRUE, revoked |-> FALSE, told |-> TRUE]]
  /\ UNCHANGED <<req, signInVars>>

\* POST /api/api-keys/:id/revoke in the process: the shared object changes.
RevokeKey(k) ==
  /\ ~kv /\ keys[k].listed
  /\ keys' = [keys EXCEPT ![k].revoked = TRUE]
  /\ UNCHANGED <<req, signInVars>>

\* validateApiKey: read, await, test.
ReadKey(r, k) ==
  /\ keys[k].told
  /\ Begins(r, [op |-> "validate", key |-> k, read |-> keys[k]])
  /\ UNCHANGED <<keys, signInVars>>
\* Mutant: writes back a copy made before the await.
NoteUseOfCopy(r) ==
  /\ ~kv /\ req[r].op = "validate"
  /\ Ends(r)
  /\ keys' = [keys EXCEPT ![req[r].key] = req[r].read]
  /\ UNCHANGED signInVars

\* The record read is the one in the map, so noting its use changes nothing else.
NoteUse(r) ==
  /\ ~kv /\ req[r].op = "validate"
  /\ Ends(r)
  /\ UNCHANGED <<keys, signInVars>>

\* saveDashboardApiKey: the key, then its place in the user's index.
KvCreateKey(r, k) ==
  /\ kv /\ keys[k] = NoKey
  /\ Begins(r, [op |-> "index", key |-> k])
  /\ keys' = [keys EXCEPT ![k].saved = TRUE]
  /\ UNCHANGED signInVars
KvIndexKey(r) ==
  /\ req[r].op = "index"
  /\ Ends(r)
  /\ keys' = [keys EXCEPT ![req[r].key].listed = TRUE, ![req[r].key].told = TRUE]
  /\ UNCHANGED signInVars

\* Revoking reads the listed keys, then writes its copy back.
KvReadToRevoke(r, k) ==
  /\ kv /\ keys[k].listed
  /\ Begins(r, [op |-> "revoke", key |-> k, read |-> keys[k]])
  /\ UNCHANGED <<keys, signInVars>>
KvRevoke(r) ==
  /\ req[r].op = "revoke"
  /\ Ends(r)
  /\ keys' = [keys EXCEPT ![req[r].key] = [req[r].read EXCEPT !.revoked = TRUE]]
  /\ UNCHANGED signInVars

\* A key that was read as valid is written back with the time of its use.
KvNoteUse(r) ==
  /\ kv /\ req[r].op = "validate"
  /\ Ends(r)
  /\ keys' = IF req[r].read.revoked THEN keys
             ELSE [keys EXCEPT ![req[r].key] = req[r].read]
  /\ UNCHANGED signInVars

\* The hosted process ends: its maps and its requests are gone, KV stays.
Restart ==
  /\ kv
  /\ req' = [r \in Request |-> Idle]
  /\ oauthStates' = [t \in State |-> IF oauthStates[t] = "unissued" THEN "unissued" ELSE "gone"]
  /\ flows' = [f \in Flow |-> IF flows[f] = "unissued" THEN "unissued" ELSE "gone"]
  /\ UNCHANGED <<cookie, spent, sessions, keyVars>>

AuthNext ==
  \/ \E t \in State : OAuthStart(t)
  \/ \E f \in Flow : DeviceStart(f)
  \/ Expire \/ Restart
  \/ \E k \in Key : CreateKey(k) \/ RevokeKey(k)
  \/ \E r \in Request :
       \/ \E t \in State : OAuthCallback(r, t)
       \/ \E f \in Flow : DevicePoll(r, f)
       \/ \E granted \in BOOLEAN : Exchanged(r, granted) \/ DevicePolled(r, granted)
       \/ \E k \in Key : ReadKey(r, k) \/ KvCreateKey(r, k) \/ KvReadToRevoke(r, k)
       \/ NoteUse(r) \/ KvNoteUse(r) \/ KvIndexKey(r) \/ KvRevoke(r)

AuthSpec == AuthInit /\ [][AuthNext]_authVars
-----------------------------------------------------------------------------
\* However requests overlap, a state or a device flow signs in at most once.
SignInOnce == \A x \in State \cup Flow : sessions[x] <= 1

\* A revocation is undone only in KV, and only by a validation that had read the
\* key before it was revoked and writes its copy back.
RevocationHolds ==
  [][\A k \in Key : keys[k].revoked /\ ~keys'[k].revoked =>
       kv /\ \E r \in Request : /\ req[r].op = "validate" /\ req[r].key = k
                                /\ ~req[r].read.revoked /\ req'[r] = Idle]_authVars
=============================================================================
