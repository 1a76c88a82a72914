---------------------------- MODULE Relay_proofs ----------------------------
(***************************************************************************)
(* Proofs about the services of a relay: the rooms of its two copies, its  *)
(* rate limiters and its sign-in, for any sockets, rooms, peers, limits,   *)
(* addresses, requests and keys.                                           *)
(***************************************************************************)
EXTENDS RelayCopies, RateLimit, DashboardAuth, FoldFacts

----------------------------------------------------------------------------
(* Sign-in *)

KeyRecord == [saved : BOOLEAN, listed : BOOLEAN, revoked : BOOLEAN, told : BOOLEAN]
Work ==
  {Idle} \cup [op : {"exchange"}, code : State] \cup [op : {"poll"}, code : Flow]
         \cup [op : {"index"}, key : Key]
         \cup [op : {"validate", "revoke"}, key : Key, read : KeyRecord]

AuthTypeOK ==
  /\ kv \in BOOLEAN
  /\ oauthStates \in [State -> {"unissued", "valid", "expired", "gone"}]
  /\ sessions \in [State \cup Flow -> Nat]
  /\ keys \in [Key -> KeyRecord]
  /\ req \in [Request -> Work]

\* Who waits for GitHub's answer to the code of state t.
Waits(r, t) == req[r].op = "exchange" /\ req[r].code = t

\* A state leads to one exchange, which is over before there is a session; a
\* flow leads to a session when GitHub spends its code.
OneExchange ==
  \A t \in State :
    /\ oauthStates[t] # "gone" => sessions[t] = 0 /\ \A r \in Request : ~Waits(r, t)
    /\ \A r, s \in Request : Waits(r, t) /\ Waits(s, t) => r = s
    /\ (\E r \in Request : Waits(r, t)) => sessions[t] = 0
    /\ sessions[t] <= 1
SpentOnce == \A f \in Flow : sessions[f] = IF f \in spent THEN 1 ELSE 0

AuthInv == AuthTypeOK /\ OneExchange /\ SpentOnce

LEMMA AuthInitHolds == AuthInit => AuthInv
BY SignInAssumption
   DEF AuthInit, AuthInv, AuthTypeOK, OneExchange, SpentOnce, Waits, Work, Idle, NoKey, KeyRecord

\* What a step does to the sign-ins when it ends no exchange and no poll.
StatesGo ==
  \A t \in State : \/ oauthStates'[t] \in {oauthStates[t], "gone"}
                   \/ oauthStates[t] # "gone" /\ (\A r \in Request : ~Waits(r, t)')
WaitsBegin ==
  \A r \in Request, t \in State : Waits(r, t)' =>
     \/ Waits(r, t)
     \/ /\ oauthStates[t] # "gone" /\ oauthStates'[t] = "gone"
        /\ \A s \in Request : Waits(s, t)' => s = r

LEMMA NoSignIn ==
  ASSUME AuthInv, AuthTypeOK', UNCHANGED <<spent, sessions>>, StatesGo, WaitsBegin
  PROVE  AuthInv'
<1>1. OneExchange'
  BY DEF AuthInv, OneExchange, StatesGo, WaitsBegin
<1>2. SpentOnce'
  BY DEF AuthInv, SpentOnce
<1> QED BY <1>1, <1>2 DEF AuthInv

\* A request that begins something else than an exchange, or ends.
LEMMA OtherWork ==
  ASSUME AuthTypeOK, NEW q \in Request, NEW work \in Work, work.op # "exchange",
         req' = [req EXCEPT ![q] = work]
  PROVE  /\ req' \in [Request -> Work]
         /\ \A r \in Request, t \in State : Waits(r, t)' => Waits(r, t)
BY DEF AuthTypeOK, Waits

LEMMA SignInStep ==
  ASSUME AuthInv,
         \/ \E t \in State : OAuthStart(t)
         \/ \E f \in Flow : DeviceStart(f)
         \/ Expire \/ Restart
         \/ \E r \in Request :
              \/ \E t \in State : OAuthCallback(r, t)
              \/ \E f \in Flow : DevicePoll(r, f)
              \/ \E granted \in BOOLEAN : Exchanged(r, granted) \/ DevicePolled(r, granted)
  PROVE  AuthInv'
<1> USE DEF AuthInv
<1>0. Idle \in Work /\ Idle.op # "exchange"
  BY DEF Work, Idle
<1>1. ASSUME NEW t \in State, OAuthStart(t) PROVE AuthInv'
  <2>1. AuthTypeOK'
    BY <1>1 DEF OAuthStart, keyVars, AuthTypeOK
  <2>2. \A s \in Request, x \in State : Waits(s, x)' <=> Waits(s, x)
    BY <1>1 DEF OAuthStart, Waits
  <2>3. oauthStates[t] # "gone" /\ \A x \in State \ {t} : oauthStates'[x] = oauthStates[x]
    BY <1>1 DEF OAuthStart, AuthTypeOK
  <2>4. \A s \in Request : ~Waits(s, t)
    BY <2>3 DEF OneExchange
  <2>5. StatesGo /\ WaitsBegin
    BY <2>2, <2>3, <2>4 DEF StatesGo, WaitsBegin, Waits
  <2> QED BY <1>1, <2>1, <2>5, NoSignIn DEF OAuthStart
<1>2. ASSUME NEW r \in Request, NEW t \in State, OAuthCallback(r, t) PROVE AuthInv'
  <2> DEFINE work == [op |-> "exchange", code |-> t]
  <2>1. work \in Work /\ work.op = "exchange" /\ work.code = t
    BY DEF Work
  <2> HIDE DEF work
  <2>2. /\ oauthStates' = [oauthStates EXCEPT ![t] = "gone"]
        /\ \/ oauthStates[t] = "valid" /\ req' = [req EXCEPT ![r] = work]
           \/ UNCHANGED req
        /\ UNCHANGED <<kv, spent, sessions, keys>>
    BY <1>2 DEF OAuthCallback, Begins, keyVars, work
  <2>3. AuthTypeOK'
    BY <2>1, <2>2 DEF AuthTypeOK
  <2>4. \A x \in State : oauthStates'[x] = oauthStates[x] \/ oauthStates'[x] = "gone"
    BY <2>2 DEF AuthTypeOK
  <2>5. ASSUME NEW s \in Request, NEW x \in State, Waits(s, x)', ~Waits(s, x)
        PROVE  /\ oauthStates[x] # "gone" /\ oauthStates'[x] = "gone"
               /\ \A z \in Request : Waits(z, x)' => z = s
    <3>1. s = r /\ x = t /\ oauthStates[t] = "valid" /\ req' = [req EXCEPT ![r] = work]
      BY <2>1, <2>2, <2>5 DEF Waits, AuthTypeOK
    <3>2. \A z \in Request : ~Waits(z, t)
      BY <3>1 DEF OneExchange
    <3>3. \A z \in Request : z # r => ~Waits(z, t)'
      BY <3>1, <3>2 DEF Waits, AuthTypeOK
    <3> QED BY <2>2, <3>1, <3>3 DEF AuthTypeOK
  <2>6. StatesGo /\ WaitsBegin
    BY <2>4, <2>5 DEF StatesGo, WaitsBegin, Waits
  <2> QED BY <2>2, <2>3, <2>6, NoSignIn
<1>3. ASSUME NEW f \in Flow, DeviceStart(f) PROVE AuthInv'
  <2>1. UNCHANGED <<kv, oauthStates, spent, sessions, keys, req>>
    BY <1>3 DEF DeviceStart, keyVars
  <2> QED BY <2>1 DEF AuthTypeOK, OneExchange, SpentOnce, Waits
<1>4. ASSUME NEW r \in Request, NEW f \in Flow, DevicePoll(r, f) PROVE AuthInv'
  <2>1. UNCHANGED <<kv, oauthStates, spent, sessions, keys>>
        /\ (UNCHANGED req \/ req' = [req EXCEPT ![r] = [op |-> "poll", code |-> f]])
    BY <1>4 DEF DevicePoll, Begins, keyVars
  <2>2. [op |-> "poll", code |-> f] \in Work /\ [op |-> "poll", code |-> f].op # "exchange"
    BY DEF Work
  <2>3. CASE UNCHANGED req
    BY <2>1, <2>3 DEF AuthTypeOK, OneExchange, SpentOnce, Waits
  <2>4. CASE req' = [req EXCEPT ![r] = [op |-> "poll", code |-> f]]
    <3>1. /\ req' \in [Request -> Work]
          /\ \A s \in Request, t \in State : Waits(s, t)' => Waits(s, t)
      BY <2>2, <2>4, OtherWork
    <3>2. AuthTypeOK'
      BY <2>1, <3>1 DEF AuthTypeOK
    <3>3. StatesGo /\ WaitsBegin
      BY <2>1, <3>1 DEF StatesGo, WaitsBegin, Waits
    <3> QED BY <2>1, <3>2, <3>3, NoSignIn
  <2> QED BY <2>1, <2>3, <2>4
<1>5. ASSUME NEW r \in Request, NEW granted \in BOOLEAN, Exchanged(r, granted) PROVE AuthInv'
  <2>1. PICK t \in State : t = req[r].code /\ Waits(r, t)
    BY <1>5 DEF Exchanged, AuthTypeOK, Work, Idle, Waits
  <2>2. /\ req' = [req EXCEPT ![r] = Idle]
        /\ UNCHANGED <<kv, oauthStates, spent, keys>>
        /\ sessions' = [sessions EXCEPT ![t] = IF granted THEN @ + 1 ELSE @]
    BY <1>5, <2>1 DEF Exchanged, Ends, keyVars
  <2>3. AuthTypeOK'
    BY <1>0, <2>1, <2>2 DEF AuthTypeOK
  <2>4. /\ \A s \in Request, x \in State : Waits(s, x)' => Waits(s, x)
        /\ ~Waits(r, t)'
    BY <1>0, <2>2 DEF AuthTypeOK, Waits
  <2>5. \A s \in Request : ~Waits(s, t)'
    BY <2>1, <2>4 DEF OneExchange
  <2>6. sessions[t] = 0 /\ oauthStates[t] = "gone"
    BY <2>1 DEF OneExchange
  <2>7. sessions'[t] \in {0, 1} /\ \A x \in (State \cup Flow) \ {t} : sessions'[x] = sessions[x]
    BY <2>1, <2>2, <2>6 DEF AuthTypeOK
  <2>8. OneExchange'
    <3> SUFFICES ASSUME NEW x \in State
                 PROVE /\ oauthStates'[x] # "gone" => sessions'[x] = 0 /\ \A s \in Request : ~Waits(s, x)'
                       /\ \A s, z \in Request : Waits(s, x)' /\ Waits(z, x)' => s = z
                       /\ (\E s \in Request : Waits(s, x)') => sessions'[x] = 0
                       /\ sessions'[x] <= 1
      BY DEF OneExchange
    <3>1. CASE x = t
      BY <2>2, <2>5, <2>6, <2>7, <3>1
    <3>2. CASE x # t
      BY <2>2, <2>4, <2>7, <3>2 DEF OneExchange
    <3> QED BY <3>1, <3>2
  <2>9. SpentOnce'
    BY <2>1, <2>2, <2>7, SignInAssumption DEF SpentOnce
  <2> QED BY <2>3, <2>8, <2>9
<1>6. ASSUME NEW r \in Request, NEW granted \in BOOLEAN, DevicePolled(r, granted) PROVE AuthInv'
  <2>1. PICK f \in Flow : f = req[r].code /\ f \notin State
    BY <1>6, SignInAssumption DEF DevicePolled, AuthTypeOK, Work, Idle
  <2>2. /\ req' = [req EXCEPT ![r] = Idle]
        /\ UNCHANGED <<kv, oauthStates, keys>>
        /\ granted => f \notin spent
        /\ spent' = IF granted THEN spent \cup {f} ELSE spent
        /\ sessions' = [sessions EXCEPT ![f] = IF granted THEN @ + 1 ELSE @]
    BY <1>6, <2>1 DEF DevicePolled, Ends, keyVars
  <2>3. AuthTypeOK'
    BY <1>0, <2>1, <2>2 DEF AuthTypeOK
  <2>4. \A s \in Request, x \in State : Waits(s, x)' => Waits(s, x)
    BY <1>0, <2>2 DEF AuthTypeOK, Waits
  <2>5. \A x \in (State \cup Flow) \ {f} : sessions'[x] = sessions[x]
    BY <2>2 DEF AuthTypeOK
  <2>6. OneExchange'
    BY <2>1, <2>2, <2>4, <2>5 DEF OneExchange
  <2>7. SpentOnce'
    BY <2>1, <2>2, <2>5 DEF SpentOnce, AuthTypeOK
  <2> QED BY <2>3, <2>6, <2>7
<1>7. ASSUME Expire PROVE AuthInv'
  <2>1. UNCHANGED <<kv, spent, sessions, keys, req>>
    BY <1>7 DEF Expire, keyVars
  <2>2. \A x \in State : \/ oauthStates'[x] = oauthStates[x]
                         \/ oauthStates[x] = "valid" /\ oauthStates'[x] = "expired"
    <3>1. CASE UNCHANGED oauthStates
      BY <3>1
    <3>2. ASSUME NEW t \in State, oauthStates[t] = "valid",
                 oauthStates' = [oauthStates EXCEPT ![t] = "expired"]
          PROVE  \A x \in State : \/ oauthStates'[x] = oauthStates[x]
                                  \/ oauthStates[x] = "valid" /\ oauthStates'[x] = "expired"
      BY <3>2 DEF AuthTypeOK
    <3> QED BY <1>7, <3>1, <3>2 DEF Expire
  <2>3. oauthStates' \in [State -> {"unissued", "valid", "expired", "gone"}]
    BY <1>7 DEF Expire, AuthTypeOK
  <2>4. AuthTypeOK'
    BY <2>1, <2>3 DEF AuthTypeOK
  <2>5. OneExchange' /\ SpentOnce'
    BY <2>1, <2>2 DEF OneExchange, SpentOnce, Waits
  <2> QED BY <2>4, <2>5
<1>8. ASSUME Restart PROVE AuthInv'
  <2>1. /\ req' = [s \in Request |-> Idle] /\ UNCHANGED <<kv, spent, sessions, keys>>
        /\ oauthStates' = [t \in State |-> IF oauthStates[t] = "unissued" THEN "unissued" ELSE "gone"]
    BY <1>8 DEF Restart, keyVars
  <2>2. AuthTypeOK'
    BY <1>0, <2>1 DEF AuthTypeOK
  <2>3. \A s \in Request, x \in State : ~Waits(s, x)'
    BY <1>0, <2>1 DEF Waits
  <2> QED BY <2>1, <2>2, <2>3 DEF OneExchange, SpentOnce
<1> QED BY <1>1, <1>2, <1>3, <1>4, <1>5, <1>6, <1>7, <1>8

\* The step RevocationHolds allows.
UndoneByAValidation ==
  \A k \in Key : keys[k].revoked /\ ~keys'[k].revoked =>
    kv /\ \E r \in Request : /\ req[r].op = "validate" /\ req[r].key = k
                             /\ ~req[r].read.revoked /\ req'[r] = Idle

\* Only sign-in steps touch what AuthInv says of states, flows and sessions.
LEMMA KeyWork ==
  ASSUME AuthInv, UNCHANGED signInVars, keys' \in [Key -> KeyRecord],
         \/ UNCHANGED req
         \/ \E r \in Request, work \in Work :
              work.op # "exchange" /\ req' = [req EXCEPT ![r] = work]
  PROVE  AuthInv'
<1> USE DEF AuthInv
<1>1. /\ req' \in [Request -> Work]
      /\ \A s \in Request, t \in State : Waits(s, t)' => Waits(s, t)
  BY OtherWork DEF AuthTypeOK, Waits
<1>2. UNCHANGED <<kv, oauthStates, spent, sessions>>
  BY DEF signInVars
<1>3. AuthTypeOK'
  BY <1>1, <1>2 DEF AuthTypeOK
<1>4. StatesGo /\ WaitsBegin
  BY <1>1, <1>2 DEF StatesGo, WaitsBegin, Waits
<1> QED BY <1>2, <1>3, <1>4, NoSignIn

LEMMA KeyStep ==
  ASSUME AuthInv,
         \/ \E k \in Key : CreateKey(k) \/ RevokeKey(k)
         \/ \E r \in Request :
              \/ \E k \in Key : ReadKey(r, k) \/ KvCreateKey(r, k) \/ KvReadToRevoke(r, k)
              \/ NoteUse(r) \/ KvNoteUse(r) \/ KvIndexKey(r) \/ KvRevoke(r)
  PROVE  AuthInv' /\ UndoneByAValidation
<1> USE DEF AuthInv, AuthTypeOK
<1>0. /\ Idle \in Work /\ Idle.op # "exchange"
      /\ \A k \in Key : [op |-> "index", key |-> k] \in Work
      /\ \A k \in Key : \A op \in {"validate", "revoke"} :
           [op |-> op, key |-> k, read |-> keys[k]] \in Work
  BY DEF Work, Idle
<1>1. \A r \in Request :
        /\ req[r].op \in {"validate", "revoke"} => req[r].key \in Key /\ req[r].read \in KeyRecord
        /\ req[r].op = "index" => req[r].key \in Key
  BY DEF Work, Idle
<1> DEFINE Quiet == UNCHANGED signInVars
           Works == \/ UNCHANGED req
                    \/ \E r \in Request, work \in Work :
                         work.op # "exchange" /\ req' = [req EXCEPT ![r] = work]
           Kept == keys' \in [Key -> KeyRecord]
<1>2. ASSUME NEW k \in Key, CreateKey(k) PROVE Quiet /\ Works /\ Kept /\ UndoneByAValidation
  BY <1>2 DEF CreateKey, NoKey, KeyRecord, UndoneByAValidation
<1>3. ASSUME NEW k \in Key, RevokeKey(k) PROVE Quiet /\ Works /\ Kept /\ UndoneByAValidation
  BY <1>3 DEF RevokeKey, KeyRecord, UndoneByAValidation
<1>4. ASSUME NEW r \in Request, NEW k \in Key, ReadKey(r, k) \/ KvReadToRevoke(r, k)
      PROVE  Quiet /\ Works /\ Kept /\ UndoneByAValidation
  BY <1>0, <1>4 DEF ReadKey, KvReadToRevoke, Begins, UndoneByAValidation
<1>5. ASSUME NEW r \in Request, NEW k \in Key, KvCreateKey(r, k)
      PROVE  Quiet /\ Works /\ Kept /\ UndoneByAValidation
  BY <1>0, <1>5 DEF KvCreateKey, Begins, NoKey, KeyRecord, UndoneByAValidation
<1>6. ASSUME NEW r \in Request, NoteUse(r) PROVE Quiet /\ Works /\ Kept /\ UndoneByAValidation
  BY <1>0, <1>6 DEF NoteUse, Ends, UndoneByAValidation
<1>7. ASSUME NEW r \in Request, KvNoteUse(r) PROVE Quiet /\ Works /\ Kept /\ UndoneByAValidation
  <2>1. Quiet /\ Works
    BY <1>0, <1>7 DEF KvNoteUse, Ends
  <2>2. Kept
    BY <1>1, <1>7 DEF KvNoteUse
  <2>3. UndoneByAValidation
    BY <1>1, <1>7 DEF KvNoteUse, Ends, UndoneByAValidation, KeyRecord
  <2> QED BY <2>1, <2>2, <2>3
<1>8. ASSUME NEW r \in Request, KvIndexKey(r) PROVE Quiet /\ Works /\ Kept /\ UndoneByAValidation
  <2>1. PICK k \in Key : k = req[r].key
    BY <1>1, <1>8 DEF KvIndexKey
  <2>2. keys' = [keys EXCEPT ![k].listed = TRUE, ![k].told = TRUE]
    BY <1>8, <2>1 DEF KvIndexKey
  <2>3. Kept /\ UndoneByAValidation
    BY <2>2 DEF KeyRecord, UndoneByAValidation
  <2> QED BY <1>0, <1>8, <2>3 DEF KvIndexKey, Ends
<1>9. ASSUME NEW r \in Request, KvRevoke(r) PROVE Quiet /\ Works /\ Kept /\ UndoneByAValidation
  <2>2. PICK k \in Key : k = req[r].key
    BY <1>1, <1>9 DEF KvRevoke
  <2>3. PICK read \in KeyRecord : read = req[r].read
    BY <1>1, <1>9 DEF KvRevoke
  <2>4. keys' = [keys EXCEPT ![k] = [read EXCEPT !.revoked = TRUE]]
    BY <1>9, <2>2, <2>3 DEF KvRevoke
  <2>1. Kept /\ UndoneByAValidation
    BY <2>4 DEF KeyRecord, UndoneByAValidation
  <2> QED BY <1>0, <1>9, <2>1 DEF KvRevoke, Ends
<1>10. Quiet /\ Works /\ Kept /\ UndoneByAValidation
  BY <1>2, <1>3, <1>4, <1>5, <1>6, <1>7, <1>8, <1>9
<1>11. AuthInv'
  BY <1>10, KeyWork
<1> QED BY <1>10, <1>11

LEMMA AuthStepHolds ==
  ASSUME AuthInv, [AuthNext]_authVars
  PROVE  AuthInv' /\ UndoneByAValidation
<1>1. CASE UNCHANGED authVars
  BY <1>1 DEF authVars, AuthInv, AuthTypeOK, OneExchange, SpentOnce, Waits, UndoneByAValidation
<1>2. ASSUME \/ \E t \in State : OAuthStart(t)
             \/ \E f \in Flow : DeviceStart(f)
             \/ Expire \/ Restart
             \/ \E r \in Request :
                  \/ \E t \in State : OAuthCallback(r, t)
                  \/ \E f \in Flow : DevicePoll(r, f)
                  \/ \E granted \in BOOLEAN : Exchanged(r, granted) \/ DevicePolled(r, granted)
      PROVE  AuthInv' /\ UndoneByAValidation
  <2>1. UNCHANGED keys
    BY <1>2 DEF OAuthStart, DeviceStart, Expire, Restart, OAuthCallback, DevicePoll,
                Exchanged, DevicePolled, keyVars
  <2> QED BY <1>2, <2>1, SignInStep DEF UndoneByAValidation
<1> QED BY <1>1, <1>2, KeyStep DEF AuthNext

\* However the requests of a sign-in overlap, in the process or on the hosted
\* relay, a state of handleAuthGithubCallback and a device flow of the poll
\* handler lead to at most one session each.
THEOREM SignsInOnce == AuthSpec => []SignInOnce
<1>1. AuthInv => SignInOnce
  BY DEF AuthInv, AuthTypeOK, OneExchange, SpentOnce, SignInOnce
<1> QED BY <1>1, AuthInitHolds, AuthStepHolds, PTL DEF AuthSpec

\* A revoked key is valid again only in KV, and only when a validation that had
\* read it earlier writes its copy back.
THEOREM RevocationsHold == AuthSpec => RevocationHolds
<1>1. UndoneByAValidation =>
        (\A k \in Key : keys[k].revoked /\ ~keys'[k].revoked =>
           kv /\ \E r \in Request : /\ req[r].op = "validate" /\ req[r].key = k
                                    /\ ~req[r].read.revoked /\ req'[r] = Idle)
  BY DEF UndoneByAValidation
<1> QED BY <1>1, AuthInitHolds, AuthStepHolds, PTL DEF AuthSpec, RevocationHolds

----------------------------------------------------------------------------
(* The rate limiters *)

RatesTyped ==
  /\ sliding \in BOOLEAN /\ now \in Nat
  /\ bucket = NoBucket \/ (IF sliding THEN bucket \in Bucket ELSE bucket \in HostedBucket)
  /\ allowed \subseteq Attempt /\ IsFiniteSet(allowed)
  /\ \A x \in allowed : x.at <= now /\ x.number <= Cardinality(allowed)

Lately == { x \in allowed : now < x.at + Minute }

\* The sliding window has kept whatever is still to be counted.
Slides ==
  IF bucket = NoBucket THEN Lately = {}
  ELSE /\ Lately \subseteq bucket.stamps
       /\ IsFiniteSet(bucket.stamps) /\ Cardinality(bucket.stamps) <= RateLimit

\* The fixed window counts what was allowed since it began; no more than another
\* RateLimit of what came before it is less than a minute old, and what came
\* before it came from one window.
Since(A, t) == { x \in A : t <= x.at }
Before(A, n, t) == { x \in A : n < x.at + Minute /\ x.at < t }
Stays ==
  IF bucket = NoBucket
  THEN Cardinality(Lately) <= RateLimit /\ \A x \in allowed : x.at < now
  ELSE LET start == bucket.resetAt - Minute IN
       /\ Cardinality(Since(allowed, start)) <= bucket.count
       /\ Cardinality(Before(allowed, now, start)) <= RateLimit
       /\ \A x \in allowed : x.at <= bucket.resetAt
       /\ start <= now

RatesInv == RatesTyped /\ IF sliding THEN Slides ELSE Stays

LEMMA RatesBegin == RateInit => RatesInv
<1> SUFFICES ASSUME RateInit PROVE RatesInv
  OBVIOUS
<1>1. RatesTyped
  BY RateAssumption, FS_EmptySet DEF RateInit, RatesTyped
<1>2. Lately = {}
  BY DEF RateInit, Lately
<1>3. Slides /\ Stays
  BY <1>2, RateAssumption, FS_EmptySet DEF RateInit, Slides, Stays
<1> QED BY <1>1, <1>3 DEF RatesInv

\* One more attempt is allowed, or none.
LEMMA AttemptIsNew ==
  ASSUME RatesTyped, UNCHANGED now, allowed' \in {allowed, allowed \cup {This}}
  PROVE  /\ Cardinality(allowed) \in Nat
         /\ allowed' \subseteq Attempt /\ IsFiniteSet(allowed')
         /\ \A x \in allowed' : x.at <= now /\ x.number <= Cardinality(allowed')
         /\ This \in Attempt \ allowed
         /\ This.at = now
<1>1. Cardinality(allowed) \in Nat
  BY FS_CardinalityType DEF RatesTyped
<1>2. This \in Attempt /\ This.at = now /\ This.number = Cardinality(allowed) + 1
  BY <1>1 DEF This, Attempt, RatesTyped
<1>3. This \notin allowed
  <2> SUFFICES ASSUME This \in allowed PROVE FALSE
    OBVIOUS
  <2>1. This.number <= Cardinality(allowed)
    BY DEF RatesTyped
  <2> QED BY <1>1, <1>2, <2>1
<1>4. IsFiniteSet(allowed \cup {This}) /\ Cardinality(allowed \cup {This}) = Cardinality(allowed) + 1
  BY <1>3, FS_AddElement DEF RatesTyped
<1>6. \A x \in allowed : x \in Attempt /\ x.at <= now /\ x.number <= Cardinality(allowed)
  BY DEF RatesTyped
<1>7. \A x \in allowed' : x.at <= now /\ x.number <= Cardinality(allowed')
  <2> SUFFICES ASSUME NEW x \in allowed' PROVE x.at <= now /\ x.number <= Cardinality(allowed')
    OBVIOUS
  <2>1. CASE x \in allowed
    <3>1. x.at \in Nat /\ x.number \in Nat
      BY <1>6, <2>1 DEF Attempt
    <3>2. x.at <= now /\ x.number <= Cardinality(allowed)
      BY <1>6, <2>1
    <3>3. Cardinality(allowed') \in {Cardinality(allowed), Cardinality(allowed) + 1}
      BY <1>4
    <3> QED BY <1>1, <3>1, <3>2, <3>3
  <2>2. CASE x \notin allowed
    <3>1. x = This /\ allowed' = allowed \cup {This}
      BY <2>2
    <3> QED BY <1>1, <1>2, <1>4, <3>1 DEF RatesTyped
  <2> QED BY <2>1, <2>2
<1> QED BY <1>1, <1>2, <1>3, <1>4, <1>7 DEF RatesTyped

\* Parts of what was allowed are finite, and count no more than the whole.
LEMMA Parts ==
  ASSUME RatesTyped, NEW S \in SUBSET allowed
  PROVE  /\ IsFiniteSet(S) /\ Cardinality(S) \in Nat
         /\ \A T \in SUBSET S : IsFiniteSet(T) /\ Cardinality(T) \in Nat /\ Cardinality(T) <= Cardinality(S)
<1>1. IsFiniteSet(S)
  BY FS_Subset DEF RatesTyped
<1> QED BY <1>1, FS_Subset, FS_CardinalityType

LEMMA OneMoreKeeps ==
  ASSUME NEW v \in 0..MaxViolations
  PROVE  OneMore(v) \in 0..MaxViolations
BY RateAssumption DEF OneMore

LEMMA RatesChecked ==
  ASSUME RatesInv, Check
  PROVE  RatesInv'
<1> DEFINE old == IF bucket = NoBucket THEN [stamps |-> {}, violations |-> 0] ELSE bucket
           stamps == Recent(old.stamps)
           ok == Cardinality(stamps) < RateLimit
           new == IF ok THEN stamps \cup {This} ELSE stamps
           violations == IF ok THEN old.violations ELSE OneMore(old.violations)
<1>1. /\ sliding /\ bucket' = [stamps |-> new, violations |-> violations]
      /\ allowed' = IF ok THEN allowed \cup {This} ELSE allowed
      /\ UNCHANGED <<sliding, now>>
  BY DEF Check, Counted
<1>2. RatesTyped /\ Slides
  BY <1>1 DEF RatesInv
<1>3. old \in Bucket /\ Lately \subseteq old.stamps /\ IsFiniteSet(old.stamps)
      /\ Cardinality(old.stamps) <= RateLimit
  <2>1. CASE bucket = NoBucket
    BY <1>2, <2>1, FS_EmptySet, RateAssumption DEF Slides, Bucket
  <2>2. CASE bucket # NoBucket
    BY <1>1, <1>2, <2>2 DEF Slides, RatesTyped
  <2> QED BY <2>1, <2>2
<1>4. old.stamps \subseteq Attempt /\ old.violations \in 0..MaxViolations
  BY <1>3 DEF Bucket
<1> HIDE DEF old
<1>5. IsFiniteSet(stamps) /\ Cardinality(stamps) \in Nat /\ Cardinality(stamps) <= Cardinality(old.stamps)
      /\ Cardinality(old.stamps) \in Nat
  <2>1. stamps \subseteq old.stamps
    BY DEF Recent
  <2> HIDE DEF stamps
  <2> QED BY <1>3, <2>1, FS_Subset, FS_CardinalityType
<1>6. Lately \subseteq stamps /\ stamps \subseteq Attempt
  <2>1. \A x \in Lately : x.at + Minute > now
    BY <1>2, RateAssumption DEF Lately, RatesTyped, Attempt
  <2> QED BY <1>3, <1>4, <2>1 DEF Recent
<1>7. /\ Cardinality(allowed) \in Nat
      /\ allowed' \subseteq Attempt /\ IsFiniteSet(allowed')
      /\ \A x \in allowed' : x.at <= now /\ x.number <= Cardinality(allowed')
      /\ This \in Attempt \ allowed
  <2>1. UNCHANGED now /\ allowed' \in {allowed, allowed \cup {This}}
    BY <1>1
  <2> QED BY <1>2, <2>1, AttemptIsNew
<1>8. violations \in 0..MaxViolations
  BY <1>4, OneMoreKeeps
<1>9. new \subseteq Attempt /\ IsFiniteSet(new) /\ Cardinality(new) <= RateLimit
  <2>1. CASE ok
    <3>1. IsFiniteSet(stamps \cup {This}) /\ Cardinality(stamps \cup {This}) <= Cardinality(stamps) + 1
      <4> HIDE DEF stamps, new, ok, violations
      <4>1. IsFiniteSet(stamps) /\ Cardinality(stamps) \in Nat
        BY <1>5
      <4>2. /\ IsFiniteSet(stamps \cup {This})
            /\ Cardinality(stamps \cup {This})
                 = IF This \in stamps THEN Cardinality(stamps) ELSE Cardinality(stamps) + 1
        BY ONLY <4>1, FS_AddElement
      <4> QED BY ONLY <4>1, <4>2
    <3>2. Cardinality(stamps) < RateLimit /\ RateLimit \in Nat
      BY <2>1, RateAssumption
    <3>3. Cardinality(stamps \cup {This}) \in Nat
      <4> HIDE DEF stamps
      <4> QED BY <3>1, FS_CardinalityType
    <3>4. Cardinality(stamps \cup {This}) <= RateLimit
      <4> HIDE DEF stamps
      <4> QED BY <1>5, <3>1, <3>2, <3>3
    <3> QED BY <1>6, <1>7, <2>1, <3>1, <3>4
  <2>2. CASE ~ok
    <3>1. new = stamps
      BY <2>2
    <3> HIDE DEF stamps, new
    <3> QED BY <1>3, <1>5, <1>6, <3>1, RateAssumption
  <2> QED BY <2>1, <2>2
<1>10. Lately' \subseteq new
  <2> SUFFICES ASSUME NEW x \in Lately' PROVE x \in new
    OBVIOUS
  <2>1. x \in allowed' /\ now < x.at + Minute
    BY <1>1 DEF Lately
  <2>2. CASE x \in allowed
    BY <1>6, <2>1, <2>2 DEF Lately
  <2>3. CASE x \notin allowed
    BY <1>1, <2>1, <2>3
  <2> QED BY <2>2, <2>3
<1> HIDE DEF stamps, ok, new, violations
<1>11. bucket' \in Bucket /\ bucket'.stamps = new
  BY <1>1, <1>8, <1>9 DEF Bucket
<1>12. RatesTyped'
  BY <1>1, <1>2, <1>7, <1>11 DEF RatesTyped
<1>13. Slides'
  BY <1>9, <1>10, <1>11, RateAssumption DEF Slides
<1> QED BY <1>1, <1>12, <1>13 DEF RatesInv

LEMMA RatesCleaned ==
  ASSUME RatesInv, Cleanup
  PROVE  RatesInv'
<1>1. sliding /\ RatesTyped /\ Slides /\ UNCHANGED <<sliding, now, allowed>>
  BY DEF Cleanup, RatesInv
<1>2. Lately' = Lately
  BY <1>1 DEF Lately
<1>3. CASE bucket = NoBucket
  <2>1. bucket' = NoBucket
    BY <1>3 DEF Cleanup
  <2> QED BY <1>1, <1>2, <1>3, <2>1 DEF RatesInv, RatesTyped, Slides
<1>4. CASE bucket # NoBucket
  <2> DEFINE stamps == Recent(bucket.stamps)
  <2>1. /\ bucket \in Bucket
        /\ Lately \subseteq bucket.stamps
        /\ IsFiniteSet(bucket.stamps) /\ Cardinality(bucket.stamps) <= RateLimit
    BY <1>1, <1>4 DEF RatesTyped, Slides
  <2>2. bucket.stamps \subseteq Attempt /\ bucket.violations \in 0..MaxViolations
        /\ bucket = [stamps |-> bucket.stamps, violations |-> bucket.violations]
    BY <2>1 DEF Bucket
  <2>3. stamps \subseteq bucket.stamps /\ Lately \subseteq stamps
    <3>1. \A x \in Lately : x.at + Minute > now
      BY <1>1, RateAssumption DEF Lately, RatesTyped, Attempt
    <3> QED BY <2>1, <3>1 DEF Recent
  <2>4. bucket' = IF stamps = {} THEN NoBucket ELSE [stamps |-> stamps, violations |-> bucket.violations]
    BY <1>4, <2>2 DEF Cleanup
  <2> HIDE DEF stamps
  <2>5. IsFiniteSet(stamps) /\ Cardinality(stamps) <= RateLimit
    BY <2>1, <2>3, FS_Subset, FS_CardinalityType, RateAssumption
  <2>6. CASE stamps = {}
    BY <1>1, <1>2, <2>3, <2>4, <2>6 DEF RatesInv, RatesTyped, Slides
  <2>7. CASE stamps # {}
    <3>1. bucket' \in Bucket /\ bucket'.stamps = stamps
      BY <2>2, <2>3, <2>4, <2>7 DEF Bucket
    <3>2. RatesTyped'
      BY <1>1, <3>1 DEF RatesTyped
    <3>3. Slides'
      BY <1>2, <2>3, <2>5, <3>1, RateAssumption DEF Slides
    <3> QED BY <1>1, <3>2, <3>3 DEF RatesInv
  <2> QED BY <2>6, <2>7
<1> QED BY <1>3, <1>4

\* What a bucket of the hosted copy says of the minute.
LEMMA HostedShape ==
  ASSUME NEW b \in HostedBucket
  PROVE  /\ b.count \in 0..RateLimit /\ b.resetAt \in Nat /\ b.violations \in 0..MaxViolations
         /\ b = [count |-> b.count, resetAt |-> b.resetAt, violations |-> b.violations]
BY DEF HostedBucket

LEMMA HostedRatesChecked ==
  ASSUME RatesInv, HostedCheck
  PROVE  RatesInv'
<1> DEFINE fresh == bucket = NoBucket \/ (bucket # NoBucket /\ now > bucket.resetAt)
           old == IF fresh THEN [count |-> 0, resetAt |-> now + Minute, violations |-> 0]
                  ELSE bucket
           ok == old.count < RateLimit
           count == IF ok THEN old.count + 1 ELSE old.count
           violations == IF ok THEN old.violations ELSE OneMore(old.violations)
           start == old.resetAt - Minute
<1>1. /\ ~sliding /\ bucket' = [old EXCEPT !.count = count, !.violations = violations]
      /\ allowed' = IF ok THEN allowed \cup {This} ELSE allowed
      /\ UNCHANGED <<sliding, now>>
  BY DEF HostedCheck, Counted
<1>2. RatesTyped /\ Stays
  BY <1>1 DEF RatesInv
<1>3. now \in Nat /\ Minute \in Nat \ {0} /\ RateLimit \in Nat \ {0} /\ MaxViolations \in Nat
      /\ \A x \in allowed : x.at \in Nat /\ x.at <= now
  BY <1>2, RateAssumption DEF RatesTyped, Attempt
<1>4. /\ old \in HostedBucket
      /\ Cardinality(Since(allowed, start)) <= old.count
      /\ Cardinality(Before(allowed, now, start)) <= RateLimit
      /\ now <= old.resetAt /\ start <= now
  <2>1. CASE fresh
    <3>1. old = [count |-> 0, resetAt |-> now + Minute, violations |-> 0]
      BY <2>1
    <3>2. old \in HostedBucket /\ old.count = 0 /\ start = now /\ now <= old.resetAt
      BY <1>3, <3>1 DEF HostedBucket
    <3>3. \A x \in allowed : x.at < now
      <4>1. CASE bucket = NoBucket
        BY <1>2, <4>1 DEF Stays
      <4>2. CASE bucket # NoBucket
        <5>1. bucket \in HostedBucket /\ now > bucket.resetAt /\ \A x \in allowed : x.at <= bucket.resetAt
          BY <1>1, <1>2, <2>1, <4>2 DEF Stays, RatesTyped
        <5> QED BY <1>3, <5>1, HostedShape
      <4> QED BY <4>1, <4>2
    <3>4. Since(allowed, start) = {}
      BY <1>3, <3>2, <3>3 DEF Since
    <3>5. Cardinality(Before(allowed, now, start)) <= RateLimit
      <4>1. Before(allowed, now, start) \subseteq Lately /\ Lately \subseteq allowed
        BY DEF Before, Lately
      <4>2. CASE bucket = NoBucket
        <5>1. Cardinality(Lately) <= RateLimit
          BY <1>2, <4>2 DEF Stays
        <5> QED BY <1>2, <1>3, <4>1, <5>1, Parts
      <4>3. CASE bucket # NoBucket
        <5>1. bucket \in HostedBucket /\ now > bucket.resetAt
              /\ Cardinality(Since(allowed, bucket.resetAt - Minute)) <= bucket.count
          BY <1>1, <1>2, <2>1, <4>3 DEF Stays, RatesTyped
        <5>2. Before(allowed, now, start) \subseteq Since(allowed, bucket.resetAt - Minute)
          BY <1>3, <5>1, HostedShape DEF Before, Lately, Since
        <5>3. Since(allowed, bucket.resetAt - Minute) \subseteq allowed
          BY DEF Since
        <5>4. bucket.count \in 0..RateLimit
          BY <5>1, HostedShape
        <5> QED BY <1>2, <1>3, <5>1, <5>2, <5>3, <5>4, Parts
      <4> QED BY <4>2, <4>3
    <3>6. Cardinality(Since(allowed, start)) <= old.count
      <4> HIDE DEF start, old
      <4> QED BY <3>2, <3>4, FS_EmptySet
    <3> HIDE DEF start, old
    <3> QED BY <1>3, <3>2, <3>5, <3>6
  <2>2. CASE ~fresh
    <3>1. old = bucket /\ bucket # NoBucket /\ ~(now > bucket.resetAt)
      BY <2>2
    <3>2. bucket \in HostedBucket
      BY <1>1, <1>2, <3>1 DEF RatesTyped
    <3> QED BY <1>2, <1>3, <3>1, <3>2, HostedShape DEF Stays
  <2> QED BY <2>1, <2>2
<1> HIDE DEF fresh, old
<1>5. old.count \in 0..RateLimit /\ old.resetAt \in Nat /\ old.violations \in 0..MaxViolations
      /\ old = [count |-> old.count, resetAt |-> old.resetAt, violations |-> old.violations]
  BY <1>4, HostedShape
<1>6. violations \in 0..MaxViolations /\ count \in 0..RateLimit
  BY <1>3, <1>5, OneMoreKeeps
<1>7. bucket' = [count |-> count, resetAt |-> old.resetAt, violations |-> violations]
  BY <1>1, <1>5
<1>8. /\ allowed' \subseteq Attempt /\ IsFiniteSet(allowed')
      /\ \A x \in allowed' : x.at <= now /\ x.number <= Cardinality(allowed')
      /\ This \in Attempt \ allowed /\ This.at = now
  <2>1. UNCHANGED now /\ allowed' \in {allowed, allowed \cup {This}}
    BY <1>1
  <2> QED BY <1>2, <2>1, AttemptIsNew
<1>9. Cardinality(Since(allowed', start)) <= count
  <2>1. IsFiniteSet(Since(allowed, start)) /\ Cardinality(Since(allowed, start)) \in Nat
    <3>1. Since(allowed, start) \subseteq allowed
      BY DEF Since
    <3> QED BY <1>2, <3>1, Parts
  <2>2. CASE ok
    <3>1. Since(allowed', start) \subseteq Since(allowed, start) \cup {This}
      BY <1>1, <2>2 DEF Since
    <3>2. IsFiniteSet(Since(allowed, start) \cup {This}) /\ Cardinality(Since(allowed, start) \cup {This}) <= Cardinality(Since(allowed, start)) + 1
      <4> HIDE DEF start
      <4> QED BY <2>1, FS_AddElement
    <3> DEFINE T == Since(allowed', start)
    <3>3. Cardinality(T) <= Cardinality(Since(allowed, start) \cup {This}) /\ Cardinality(T) \in Nat
          /\ Cardinality(Since(allowed, start) \cup {This}) \in Nat
      <4> HIDE DEF start, T
      <4> QED BY <3>1, <3>2, FS_Subset, FS_CardinalityType DEF T
    <3>4. Cardinality(T) <= old.count + 1
      <4> HIDE DEF T, start
      <4> QED BY <1>4, <1>5, <2>1, <3>2, <3>3
    <3> QED BY <2>2, <3>4
  <2>3. CASE ~ok
    BY <1>1, <1>4, <2>3
  <2> QED BY <2>2, <2>3
<1>10. Cardinality(Before(allowed', now, start)) <= RateLimit
  <2>1. Before(allowed', now, start) \subseteq Before(allowed, now, start)
    BY <1>1, <1>3, <1>4, <1>5, <1>8 DEF Before
  <2>2. Before(allowed, now, start) \subseteq allowed
    BY DEF Before
  <2> HIDE DEF start
  <2> QED BY <1>2, <1>3, <1>4, <2>1, <2>2, Parts
<1>11. \A x \in allowed' : x.at <= old.resetAt
  <2> SUFFICES ASSUME NEW x \in allowed' PROVE x.at <= old.resetAt
    OBVIOUS
  <2>1. x.at \in Nat /\ x.at <= now
    BY <1>8 DEF Attempt
  <2> QED BY <1>3, <1>4, <1>5, <2>1
<1> HIDE DEF ok, count, violations
<1>12. bucket' \in HostedBucket /\ bucket'.resetAt = old.resetAt /\ bucket'.count = count
       /\ bucket' # NoBucket
  BY <1>5, <1>6, <1>7, RateAssumption DEF HostedBucket
<1>13. RatesTyped'
  BY <1>1, <1>2, <1>8, <1>12 DEF RatesTyped
<1>14. Stays'
  <2>1. bucket'.resetAt - Minute = start
    BY <1>12
  <2> HIDE DEF start
  <2> QED BY <1>1, <1>4, <1>9, <1>10, <1>11, <1>12, <2>1 DEF Stays
<1> QED BY <1>1, <1>13, <1>14 DEF RatesInv

LEMMA HostedRatesCleaned ==
  ASSUME RatesInv, HostedCleanupRates
  PROVE  RatesInv'
<1>1. ~sliding /\ RatesTyped /\ Stays /\ UNCHANGED <<sliding, now, allowed>>
  BY DEF HostedCleanupRates, RatesInv
<1>2. CASE bucket' = bucket
  BY <1>1, <1>2 DEF RatesInv, RatesTyped, Stays, Lately
<1>3. CASE bucket' # bucket
  <2>1. bucket # NoBucket /\ now > bucket.resetAt /\ bucket' = NoBucket
    BY <1>3 DEF HostedCleanupRates
  <2>2. /\ Cardinality(Since(allowed, bucket.resetAt - Minute)) <= bucket.count
        /\ \A x \in allowed : x.at <= bucket.resetAt
        /\ bucket \in HostedBucket
    BY <1>1, <2>1 DEF Stays, RatesTyped
  <2>3. bucket.resetAt \in Nat /\ bucket.count \in 0..RateLimit
    BY <2>2, HostedShape
  <2>4. \A x \in allowed : x.at \in Nat
    BY <1>1 DEF RatesTyped, Attempt
  <2>5. Lately \subseteq Since(allowed, bucket.resetAt - Minute)
    BY <1>1, <2>1, <2>3, <2>4, RateAssumption DEF Lately, Since, RatesTyped
  <2>6. Since(allowed, bucket.resetAt - Minute) \subseteq allowed
    BY DEF Since
  <2>7. Cardinality(Lately) <= RateLimit
    BY <1>1, <2>2, <2>3, <2>5, <2>6, Parts, RateAssumption
  <2>8. \A x \in allowed : x.at < now
    BY <1>1, <2>1, <2>2, <2>3, <2>4 DEF RatesTyped
  <2>9. Lately' = Lately
    BY <1>1 DEF Lately
  <2> QED BY <1>1, <2>1, <2>7, <2>8, <2>9 DEF RatesInv, RatesTyped, Stays
<1> QED BY <1>2, <1>3

LEMMA RatesTick ==
  ASSUME RatesInv, Tick
  PROVE  RatesInv'
<1>1. RatesTyped /\ now' = now + 1 /\ UNCHANGED <<sliding, bucket, allowed>>
  BY DEF Tick, RatesInv
<1>2. \A x \in allowed : x.at \in Nat /\ x.at <= now
  BY <1>1 DEF RatesTyped, Attempt
<1>3. Lately' \subseteq Lately /\ Lately \subseteq allowed
  BY <1>1, <1>2, RateAssumption DEF Lately, RatesTyped
<1>4. RatesTyped'
  BY <1>1, <1>2 DEF RatesTyped
<1>5. ASSUME sliding PROVE Slides'
  BY <1>1, <1>3, <1>5 DEF RatesInv, Slides
<1>6. ASSUME ~sliding PROVE Stays'
  <2>1. Stays
    BY <1>6 DEF RatesInv
  <2>2. CASE bucket = NoBucket
    <3>1. Cardinality(Lately') <= RateLimit
      BY <1>1, <1>3, <2>1, <2>2, Parts, RateAssumption DEF Stays
    <3> QED BY <1>1, <1>2, <2>1, <2>2, <3>1 DEF Stays, RatesTyped
  <2>3. CASE bucket # NoBucket
    <3> DEFINE start == bucket.resetAt - Minute
    <3>1. /\ Cardinality(Since(allowed, start)) <= bucket.count
          /\ Cardinality(Before(allowed, now, start)) <= RateLimit
          /\ \A x \in allowed : x.at <= bucket.resetAt
          /\ start <= now
      BY <2>1, <2>3 DEF Stays
    <3>2. bucket.resetAt \in Nat /\ start \in Int
      BY <1>1, <1>6, <2>3, HostedShape, RateAssumption DEF RatesTyped
    <3>3. Before(allowed, now + 1, start) \subseteq Before(allowed, now, start)
          /\ Before(allowed, now, start) \subseteq allowed
      BY <1>1, <1>2, RateAssumption DEF Before, RatesTyped
    <3>4. Cardinality(Before(allowed, now + 1, start)) <= RateLimit
      <4> HIDE DEF start
      <4> QED BY <1>1, <3>1, <3>3, Parts, RateAssumption
    <3>5. start <= now + 1
      BY <1>1, <3>1, <3>2 DEF RatesTyped
    <3>6. /\ bucket'.resetAt - Minute = start
          /\ Since(allowed', start) = Since(allowed, start)
          /\ Before(allowed', now', start) = Before(allowed, now + 1, start)
      BY <1>1
    <3> HIDE DEF start
    <3> QED BY <1>1, <2>3, <3>1, <3>4, <3>5, <3>6 DEF Stays
  <2> QED BY <2>2, <2>3
<1> QED BY <1>1, <1>4, <1>5, <1>6 DEF RatesInv

\* Whatever the times of the attempts and of the cleanups, no minute has more
\* than RateLimit attempts allowed by the sliding window of ratelimit.ts, and
\* none more than twice as many by the fixed one of the hosted copy, whose
\* minute begins with an attempt and can end in the middle of another minute.
THEOREM MinutesAreLimited == RateSpec => []WindowLimit
<1>1. RatesInv => WindowLimit
  <2> SUFFICES ASSUME RatesInv PROVE WindowLimit
    OBVIOUS
  <2>1. RatesTyped /\ RateLimit \in Nat \ {0} /\ AllowedLately = Cardinality(Lately)
        /\ Lately \subseteq allowed
    BY RateAssumption DEF RatesInv, AllowedLately, Lately
  <2>2. CASE sliding
    <3>1. CASE bucket = NoBucket
      BY <2>1, <2>2, <3>1, FS_EmptySet DEF RatesInv, Slides, WindowLimit
    <3>2. CASE bucket # NoBucket
      <4>1. /\ Lately \subseteq bucket.stamps
            /\ IsFiniteSet(bucket.stamps) /\ Cardinality(bucket.stamps) <= RateLimit
        BY <2>2, <3>2 DEF RatesInv, Slides
      <4>2. Cardinality(Lately) <= RateLimit
        BY <2>1, <4>1, FS_Subset, FS_CardinalityType
      <4> QED BY <2>1, <2>2, <4>2 DEF WindowLimit
    <3> QED BY <3>1, <3>2
  <2>3. CASE ~sliding
    <3>1. CASE bucket = NoBucket
      BY <2>1, <2>3, <3>1, Parts DEF RatesInv, Stays, WindowLimit
    <3>2. CASE bucket # NoBucket
      <4> DEFINE start == bucket.resetAt - Minute
                 early == Before(allowed, now, start)
                 since == Since(allowed, start)
      <4>1. Cardinality(since) <= bucket.count /\ Cardinality(early) <= RateLimit
        BY <2>3, <3>2 DEF RatesInv, Stays
      <4>2. bucket.count \in 0..RateLimit /\ bucket.resetAt \in Nat
        BY <2>1, <2>3, <3>2, HostedShape DEF RatesTyped
      <4>3. early \subseteq allowed /\ since \subseteq allowed /\ Lately \subseteq early \cup since
        BY <2>1, <4>2, RateAssumption DEF Before, Since, Lately, RatesTyped, Attempt
      <4> HIDE DEF early, since
      <4>4. IsFiniteSet(early) /\ IsFiniteSet(since) /\ Cardinality(early) \in Nat /\ Cardinality(since) \in Nat
        BY <2>1, <4>3, Parts
      <4>5. IsFiniteSet(early \cup since)
            /\ Cardinality(early \cup since) <= Cardinality(early) + Cardinality(since)
        <5>1. Cardinality(early \cap since) \in Nat
          BY <4>4, FS_Intersection, FS_CardinalityType
        <5>2. /\ IsFiniteSet(early \cup since)
              /\ Cardinality(early \cup since)
                   = Cardinality(early) + Cardinality(since) - Cardinality(early \cap since)
          BY <4>4, FS_Union
        <5> QED BY <4>4, <5>1, <5>2
      <4>6. Cardinality(Lately) <= Cardinality(early \cup since) /\ Cardinality(Lately) \in Nat
            /\ Cardinality(early \cup since) \in Nat
        BY <4>3, <4>5, FS_Subset, FS_CardinalityType
      <4>7. Cardinality(Lately) <= 2 * RateLimit
        BY <2>1, <4>1, <4>2, <4>4, <4>5, <4>6
      <4> QED BY <2>1, <2>3, <4>7 DEF WindowLimit
    <3> QED BY <3>1, <3>2
  <2> QED BY <2>2, <2>3
<1>2. ASSUME RatesInv, [RateNext]_rateVars PROVE RatesInv'
  <2>1. CASE UNCHANGED rateVars
    BY <1>2, <2>1 DEF rateVars, RatesInv, RatesTyped, Slides, Stays, Lately
  <2>2. CASE RateNext
    BY <1>2, <2>2, RatesChecked, RatesCleaned, HostedRatesChecked, HostedRatesCleaned, RatesTick
       DEF RateNext
  <2> QED BY <1>2, <2>1, <2>2
<1> QED BY <1>1, <1>2, RatesBegin, PTL DEF RateSpec

-----------------------------------------------------------------------------
(* The rooms *)

Held(rs, r, p, s) ==
  r \in DOMAIN rs /\ p \in DOMAIN rs[r].peers /\ rs[r].peers[p] = s

\* A table of rooms with its limit of peers: rooms that have peers, none of them twice.
RoomsOK(rs, n) ==
  /\ DOMAIN rs \subseteq RoomId /\ IsFiniteSet(DOMAIN rs)
  /\ \A r \in DOMAIN rs :
       /\ rs[r] \in RoomType
       /\ DOMAIN rs[r].peers # {} /\ IsFiniteSet(DOMAIN rs[r].peers)
       /\ Cardinality(DOMAIN rs[r].peers) <= n
  /\ \A r, x \in DOMAIN rs : \A p \in DOMAIN rs[r].peers, q \in DOMAIN rs[x].peers :
       rs[r].peers[p] = rs[x].peers[q] => r = x /\ p = q

LEMMA RoomShape ==
  ASSUME NEW room \in RoomType
  PROVE  /\ DOMAIN room.peers \subseteq PeerId
         /\ room.peers \in [DOMAIN room.peers -> Socket]
         /\ \A p \in DOMAIN room.peers : room.peers[p] \in Socket
         /\ room.hash \in Hash /\ room.idle \in BOOLEAN
<1>1. PICK P \in SUBSET PeerId : room.peers \in [P -> Socket]
  BY DEF RoomType
<1> QED BY <1>1 DEF RoomType

LEMMA RoomMade ==
  ASSUME NEW P \in SUBSET PeerId, NEW f \in [P -> Socket], NEW h \in Hash, NEW i \in BOOLEAN
  PROVE  [hash |-> h, peers |-> f, idle |-> i] \in RoomType
<1>1. f \in UNION { [Q -> Socket] : Q \in SUBSET PeerId }
  OBVIOUS
<1> QED BY <1>1 DEF RoomType

LEMMA RoomAltered ==
  ASSUME NEW room \in RoomType, NEW f, DOMAIN f \subseteq PeerId, f \in [DOMAIN f -> Socket]
  PROVE  /\ [room EXCEPT !.peers = f] \in RoomType
         /\ [room EXCEPT !.peers = f].peers = f /\ [room EXCEPT !.peers = f].hash = room.hash
         /\ [room EXCEPT !.peers = f, !.idle = FALSE] \in RoomType
         /\ [room EXCEPT !.peers = f, !.idle = FALSE].peers = f
         /\ [room EXCEPT !.peers = f, !.idle = FALSE].hash = room.hash
<1>1. f \in UNION { [Q -> Socket] : Q \in SUBSET PeerId }
  OBVIOUS
<1> QED BY <1>1 DEF RoomType

LEMMA RoomMarked ==
  ASSUME NEW room \in RoomType, NEW i \in BOOLEAN
  PROVE  /\ [room EXCEPT !.idle = i] \in RoomType
         /\ [room EXCEPT !.idle = i].peers = room.peers
         /\ [room EXCEPT !.idle = i].hash = room.hash
BY DEF RoomType

LEMMA WithoutIs ==
  ASSUME NEW f, NEW x
  PROVE  /\ DOMAIN Without(f, x) = DOMAIN f \ {x}
         /\ \A y \in DOMAIN f \ {x} : Without(f, x)[y] = f[y]
         /\ Without(f, x) = [y \in DOMAIN f \ {x} |-> f[y]]
BY DEF Without, Restrict

LEMMA WithIs ==
  ASSUME NEW f, NEW x, NEW v
  PROVE  /\ DOMAIN With(f, x, v) = DOMAIN f \cup {x}
         /\ With(f, x, v)[x] = v
         /\ \A y \in DOMAIN f \ {x} : With(f, x, v)[y] = f[y]
         /\ With(f, x, v) = [y \in DOMAIN f \cup {x} |-> IF y = x THEN v ELSE f[y]]
BY DEF With

LEMMA VacatedRooms ==
  ASSUME NEW rs, NEW n \in Nat, RoomsOK(rs, n), NEW r, NEW p, NEW s, Held(rs, r, p, s)
  PROVE  LET v == Vacate(rs, r, p) IN
         /\ RoomsOK(v, n)
         /\ \A x, q, t : Held(v, x, q, t) <=> Held(rs, x, q, t) /\ t # s
         /\ \A x \in DOMAIN v : x \in DOMAIN rs /\ v[x].hash = rs[x].hash
<1> DEFINE left == Without(rs[r].peers, p)
           v == Vacate(rs, r, p)
<1>1. /\ r \in DOMAIN rs /\ p \in DOMAIN rs[r].peers /\ rs[r].peers[p] = s
      /\ rs[r] \in RoomType /\ DOMAIN rs[r].peers \subseteq PeerId
      /\ rs[r].peers \in [DOMAIN rs[r].peers -> Socket]
  BY RoomShape DEF Held, RoomsOK
<1>2. /\ DOMAIN left = DOMAIN rs[r].peers \ {p}
      /\ \A y \in DOMAIN rs[r].peers \ {p} : left[y] = rs[r].peers[y]
      /\ left \in [DOMAIN left -> Socket] /\ DOMAIN left \in SUBSET PeerId
  <2>1. left = [y \in DOMAIN rs[r].peers \ {p} |-> rs[r].peers[y]]
    BY WithoutIs
  <2> HIDE DEF left
  <2> QED BY <1>1, <2>1
<1>3. /\ IsFiniteSet(DOMAIN left) /\ Cardinality(DOMAIN left) <= n
  <2> HIDE DEF left
  <2>1. IsFiniteSet(DOMAIN rs[r].peers) /\ Cardinality(DOMAIN rs[r].peers) <= n
    BY <1>1 DEF RoomsOK
  <2>2. PICK m \in Nat : m = Cardinality(DOMAIN rs[r].peers)
    BY <2>1, FS_CardinalityType
  <2>3. IsFiniteSet(DOMAIN left) /\ Cardinality(DOMAIN left) = m - 1
    BY <1>1, <1>2, <2>1, <2>2, FS_RemoveElement
  <2> QED BY <2>1, <2>2, <2>3
<1>4. v = IF DOMAIN left = {} THEN Without(rs, r) ELSE [rs EXCEPT ![r].peers = left]
  BY DEF Vacate
<1>5. \A x, q, t : Held(rs, x, q, t) => (t = s <=> x = r /\ q = p)
  BY <1>1 DEF Held, RoomsOK
<1> HIDE DEF left, v
<1>6. CASE DOMAIN left = {}
  <2>1. v = Without(rs, r)
    BY <1>4, <1>6
  <2>2. DOMAIN v = DOMAIN rs \ {r} /\ \A y \in DOMAIN rs \ {r} : v[y] = rs[y]
    BY <2>1, WithoutIs
  <2>3. \A x, q, t : Held(v, x, q, t) <=> Held(rs, x, q, t) /\ t # s
    <3>1. \A x, q, t : Held(v, x, q, t) <=> Held(rs, x, q, t) /\ x # r
      BY <2>2 DEF Held
    <3>2. \A q, t : Held(rs, r, q, t) => q = p
      BY <1>2, <1>6 DEF Held
    <3> QED BY <3>1, <3>2, <1>5
  <2>4. RoomsOK(v, n)
    <3>1. IsFiniteSet(DOMAIN v)
      BY <2>2, FS_Subset DEF RoomsOK
    <3> QED BY <3>1, <2>2 DEF RoomsOK
  <2> QED BY <2>2, <2>3, <2>4 DEF v
<1>7. CASE DOMAIN left # {}
  <2>1. v = [rs EXCEPT ![r].peers = left]
    BY <1>4, <1>7
  <2>2. /\ DOMAIN v = DOMAIN rs /\ \A y \in DOMAIN rs \ {r} : v[y] = rs[y]
        /\ v[r] = [rs[r] EXCEPT !.peers = left]
    BY <1>1, <2>1
  <2>3. v[r].peers = left /\ v[r].hash = rs[r].hash /\ v[r] \in RoomType
    <3>1. DOMAIN left \subseteq PeerId /\ left \in [DOMAIN left -> Socket]
      BY <1>2
    <3> DEFINE room == [rs[r] EXCEPT !.peers = left]
    <3>2. room \in RoomType /\ room.peers = left /\ room.hash = rs[r].hash
      BY <1>1, <3>1, RoomAltered, ZenonT(30)
    <3> HIDE DEF room
    <3>3. v[r] = room
      BY <2>2 DEF room
    <3> QED BY <3>2, <3>3
  <2>4. \A x, q, t : Held(v, x, q, t) <=> Held(rs, x, q, t) /\ ~(x = r /\ q = p)
    <3> SUFFICES ASSUME NEW x, NEW q, NEW t
                 PROVE Held(v, x, q, t) <=> Held(rs, x, q, t) /\ ~(x = r /\ q = p)
      OBVIOUS
    <3>1. CASE x = r
      BY <1>1, <1>2, <2>2, <2>3, <3>1 DEF Held
    <3>2. CASE x # r
      BY <2>2, <3>2 DEF Held
    <3> QED BY <3>1, <3>2
  <2>5. \A x, q, t : Held(v, x, q, t) <=> Held(rs, x, q, t) /\ t # s
    BY <1>5, <2>4
  <2>6. RoomsOK(v, n)
    <3>1. \A y \in DOMAIN v :
            /\ v[y] \in RoomType
            /\ DOMAIN v[y].peers # {} /\ IsFiniteSet(DOMAIN v[y].peers)
            /\ Cardinality(DOMAIN v[y].peers) <= n
      BY <1>3, <1>7, <2>2, <2>3 DEF RoomsOK
    <3>2. \A y, x \in DOMAIN v : \A q \in DOMAIN v[y].peers, z \in DOMAIN v[x].peers :
            v[y].peers[q] = v[x].peers[z] => y = x /\ q = z
      <4> SUFFICES ASSUME NEW y \in DOMAIN v, NEW x \in DOMAIN v, NEW q \in DOMAIN v[y].peers,
                          NEW z \in DOMAIN v[x].peers, v[y].peers[q] = v[x].peers[z]
                   PROVE  y = x /\ q = z
        OBVIOUS
      <4>1. Held(v, y, q, v[y].peers[q]) /\ Held(v, x, z, v[y].peers[q])
        BY DEF Held
      <4>2. Held(rs, y, q, v[y].peers[q]) /\ Held(rs, x, z, v[y].peers[q])
        BY <4>1, <2>4
      <4> QED BY <4>2 DEF Held, RoomsOK
    <3> QED BY <2>2, <3>1, <3>2 DEF RoomsOK
  <2> QED BY <2>2, <2>3, <2>5, <2>6 DEF v
<1> QED BY <1>6, <1>7

LEMMA SweptRooms ==
  ASSUME NEW rs, NEW n \in Nat, RoomsOK(rs, n)
  PROVE  LET v == Swept(rs) IN
         /\ RoomsOK(v, n) /\ v = HostedSwept(rs)
         /\ \A x, q, t : Held(v, x, q, t) <=> Held(rs, x, q, t) /\ t \notin SweptSockets(rs)
         /\ \A x \in DOMAIN v : x \in DOMAIN rs /\ v[x] = rs[x]
         /\ \A t \in SweptSockets(rs) : \E x, q : Held(rs, x, q, t)
         /\ DOMAIN v = DOMAIN rs \ IdleRooms(rs)
<1> DEFINE v == Swept(rs)
<1>1. /\ v = HostedSwept(rs)
      /\ DOMAIN v = DOMAIN rs \ IdleRooms(rs) /\ \A x \in DOMAIN v : v[x] = rs[x]
  BY DEF Swept, HostedSwept, Restrict
<1>2. \A t : t \in SweptSockets(rs) <=> \E x \in IdleRooms(rs) : \E q : Held(rs, x, q, t)
  BY DEF SweptSockets, Members, Held, IdleRooms
<1>3. \A x, q, t, y, z : Held(rs, x, q, t) /\ Held(rs, y, z, t) => x = y
  BY DEF Held, RoomsOK
<1> HIDE DEF v
<1>4. \A x, q, t : Held(v, x, q, t) <=> Held(rs, x, q, t) /\ x \notin IdleRooms(rs)
  BY <1>1 DEF Held
<1>5. \A x, q, t : Held(v, x, q, t) <=> Held(rs, x, q, t) /\ t \notin SweptSockets(rs)
  BY <1>2, <1>3, <1>4
<1>6. RoomsOK(v, n)
  <2>1. IsFiniteSet(DOMAIN v)
    BY <1>1, FS_Subset DEF RoomsOK
  <2> QED BY <1>1, <2>1 DEF RoomsOK
<1> QED BY <1>1, <1>2, <1>5, <1>6 DEF v

\* The peer p of socket s takes a place in room r of b, which is or will be old.
Takes(b, n, r, p, s, h, old, v) ==
  /\ n \in Nat /\ RoomsOK(b, n)
  /\ r \in RoomId /\ p \in PeerId /\ s \in Socket /\ h \in Hash
  /\ \A x, q : ~Held(b, x, q, s)
  /\ old = IF r \in DOMAIN b THEN b[r] ELSE NewRoom(h)
  /\ Cardinality(DOMAIN old.peers) < n
  /\ v = With(b, r, Seat(old, p, s))

Taken(b, n, r, p, s, old, v) ==
  /\ RoomsOK(v, n)
  /\ \A t : Held(v, r, p, t) <=> t = s
  /\ \A x, q, t : x # r \/ q # p => (Held(v, x, q, t) <=> Held(b, x, q, t))
  /\ DOMAIN v = DOMAIN b \cup {r}
  /\ \A x \in DOMAIN b : v[x].hash = b[x].hash
  /\ v[r].peers = With(old.peers, p, s)

LEMMA SeatedRooms ==
  ASSUME NEW b, NEW n, NEW r, NEW p, NEW s, NEW h, NEW old, NEW v,
         Takes(b, n, r, p, s, h, old, v)
  PROVE  Taken(b, n, r, p, s, old, v)
<1> DEFINE seats == With(old.peers, p, s)
<1>0. /\ n \in Nat /\ RoomsOK(b, n)
      /\ r \in RoomId /\ p \in PeerId /\ s \in Socket /\ h \in Hash
      /\ \A x, q : ~Held(b, x, q, s)
      /\ old = IF r \in DOMAIN b THEN b[r] ELSE NewRoom(h)
      /\ Cardinality(DOMAIN old.peers) < n
      /\ v = With(b, r, Seat(old, p, s))
  BY DEF Takes
<1>1. /\ old \in RoomType /\ IsFiniteSet(DOMAIN old.peers)
      /\ r \notin DOMAIN b => DOMAIN old.peers = {}
  <2>1. CASE r \in DOMAIN b
    BY <1>0, <2>1 DEF RoomsOK
  <2>2. CASE r \notin DOMAIN b
    <3> DEFINE f == [z \in {} |-> None]
    <3>1. f \in [{} -> Socket]
      OBVIOUS
    <3>2. old = [hash |-> h, peers |-> f, idle |-> FALSE]
      BY <1>0, <2>2 DEF NewRoom
    <3>3. old \in RoomType
      <4> HIDE DEF f
      <4> QED BY <1>0, <3>1, <3>2, RoomMade
    <3>4. DOMAIN old.peers = {}
      BY <3>2
    <3> QED BY <3>3, <3>4, FS_EmptySet
  <2> QED BY <2>1, <2>2
<1>2. /\ DOMAIN old.peers \subseteq PeerId
      /\ old.peers \in [DOMAIN old.peers -> Socket]
      /\ old.hash \in Hash
  BY <1>1, RoomShape
<1>3. /\ DOMAIN seats = DOMAIN old.peers \cup {p} /\ seats[p] = s
      /\ \A q \in DOMAIN old.peers \ {p} : seats[q] = old.peers[q]
      /\ seats \in [DOMAIN old.peers \cup {p} -> Socket]
  <2>1. seats = [y \in DOMAIN old.peers \cup {p} |-> IF y = p THEN s ELSE old.peers[y]]
    BY DEF With
  <2> HIDE DEF seats
  <2> QED BY <1>0, <1>2, <2>1
<1>4. /\ DOMAIN seats \subseteq PeerId /\ IsFiniteSet(DOMAIN seats)
      /\ Cardinality(DOMAIN seats) <= n
  <2>1. Cardinality(DOMAIN seats) <= Cardinality(DOMAIN old.peers) + 1 /\ IsFiniteSet(DOMAIN seats)
    <3> HIDE DEF seats
    <3>1. PICK m \in Nat : m = Cardinality(DOMAIN old.peers)
      BY <1>1, FS_CardinalityType
    <3>2. IsFiniteSet(DOMAIN seats) /\ Cardinality(DOMAIN seats) \in {m, m + 1}
      BY <1>1, <1>3, <3>1, FS_AddElement
    <3> QED BY <3>1, <3>2
  <2> QED BY <1>0, <1>1, <1>2, <1>3, <2>1, FS_CardinalityType
<1>5. Seat(old, p, s) = [old EXCEPT !.peers = seats, !.idle = FALSE]
  BY DEF Seat
<1> HIDE DEF seats
<1>6. /\ Seat(old, p, s) \in RoomType
      /\ Seat(old, p, s).peers = seats /\ Seat(old, p, s).hash = old.hash
  <2>1. DOMAIN seats \subseteq PeerId /\ seats \in [DOMAIN seats -> Socket]
    BY <1>3, <1>4
  <2> DEFINE room == [old EXCEPT !.peers = seats, !.idle = FALSE]
  <2>2. room \in RoomType /\ room.peers = seats /\ room.hash = old.hash
    BY <1>1, <2>1, RoomAltered, ZenonT(30)
  <2> HIDE DEF room
  <2>3. Seat(old, p, s) = room
    BY <1>5 DEF room
  <2> QED BY <2>2, <2>3
<1>7. /\ DOMAIN v = DOMAIN b \cup {r} /\ v[r] = Seat(old, p, s)
      /\ \A y \in DOMAIN b \ {r} : v[y] = b[y]
  BY <1>0 DEF With
<1>8. /\ \A t : Held(v, r, p, t) <=> t = s
      /\ \A x, q, t : x # r \/ q # p => (Held(v, x, q, t) <=> Held(b, x, q, t))
  <2>1. \A q, t : Held(v, r, q, t) <=> q \in DOMAIN seats /\ seats[q] = t
    BY <1>6, <1>7 DEF Held
  <2>2. \A q, t : Held(b, r, q, t) <=> q \in DOMAIN old.peers /\ old.peers[q] = t
    BY <1>0, <1>1 DEF Held
  <2>3. \A x, q, t : x # r => (Held(v, x, q, t) <=> Held(b, x, q, t))
    BY <1>7 DEF Held
  <2> QED BY <1>3, <2>1, <2>2, <2>3
<1>9. RoomsOK(v, n)
  <2>1. IsFiniteSet(DOMAIN v) /\ DOMAIN v \subseteq RoomId
    BY <1>0, <1>7, FS_AddElement DEF RoomsOK
  <2>2. \A y \in DOMAIN v :
          /\ v[y] \in RoomType
          /\ DOMAIN v[y].peers # {} /\ IsFiniteSet(DOMAIN v[y].peers)
          /\ Cardinality(DOMAIN v[y].peers) <= n
    BY <1>0, <1>3, <1>4, <1>6, <1>7 DEF RoomsOK
  <2>3. \A y, x \in DOMAIN v : \A q \in DOMAIN v[y].peers, z \in DOMAIN v[x].peers :
          v[y].peers[q] = v[x].peers[z] => y = x /\ q = z
    <3> SUFFICES ASSUME NEW y \in DOMAIN v, NEW x \in DOMAIN v, NEW q \in DOMAIN v[y].peers,
                        NEW z \in DOMAIN v[x].peers, v[y].peers[q] = v[x].peers[z]
                 PROVE  y = x /\ q = z
      OBVIOUS
    <3> DEFINE t == v[y].peers[q]
    <3>1. Held(v, y, q, t) /\ Held(v, x, z, t)
      BY DEF Held
    <3> HIDE DEF t
    <3>2. CASE t = s
      BY <1>0, <3>1, <3>2, <1>8
    <3>3. CASE t # s
      <4>1. Held(b, y, q, t) /\ Held(b, x, z, t)
        BY <3>1, <3>3, <1>8
      <4> QED BY <1>0, <4>1 DEF Held, RoomsOK
    <3> QED BY <3>2, <3>3
  <2> QED BY <1>0, <2>1, <2>2, <2>3 DEF RoomsOK
<1>10. \A x \in DOMAIN b : v[x].hash = b[x].hash
  BY <1>0, <1>6, <1>7
<1> QED BY <1>6, <1>7, <1>8, <1>9, <1>10 DEF seats, Taken

-----------------------------------------------------------------------------
(* What the places, the sockets and their clients' knowledge have to do     *)
(* with each other.                                                         *)

Typed ==
  /\ limits \in Limits /\ copy \in {"bun", "deno"}
  /\ sock \in [Socket -> SockType]
  /\ roster \in [Socket -> SUBSET PeerId]
  /\ unauth \subseteq Socket
  /\ perIp \in [Ip -> Nat]

\* The socket that holds a place bears its id, and in index.ts its room.
Noted ==
  /\ \A r, p, s : Held(rooms, r, p, s) =>
       /\ sock[s].phase # "closed" /\ sock[s].id = p
       /\ copy = "bun" => sock[s].room = r
  /\ \A s \in Socket : sock[s].room # None =>
       copy = "bun" /\ Held(rooms, sock[s].room, sock[s].id, s)

\* Who the clients with a place in the table rs believe to be with them.
Tells(known, rs) ==
  \A r, p, s : Held(rs, r, p, s) /\ Open(s) => known[s] = DOMAIN rs[r].peers \ {p}

UnauthCounted ==
  /\ UnauthTracked /\ IsFiniteSet(unauth)
  /\ \A s \in unauth : sock[s].phase # "closed"

PlacesOK == Typed /\ RoomsOK(rooms, limits.peers) /\ Noted /\ Tells(roster, rooms)
RelayInv == PlacesOK /\ UnauthCounted /\ FramesFollowRoster

LEMMA LimitsAre ==
  ASSUME Typed
  PROVE  limits.peers \in Nat \ {0} /\ limits.rooms \in Nat \ {0}
BY RelayAssumption DEF Typed

LEMMA HeldAre ==
  ASSUME NEW rs, NEW n, RoomsOK(rs, n)
  PROVE  /\ \A r, p, s : Held(rs, r, p, s) =>
              r \in RoomId /\ p \in PeerId /\ s \in Socket /\ r # None /\ p # None
         /\ \A r, p, s, x, q : Held(rs, r, p, s) /\ Held(rs, x, q, s) => r = x /\ p = q
         /\ \A r, p, s, t : Held(rs, r, p, s) /\ Held(rs, r, p, t) => s = t
<1>1. ASSUME NEW r, NEW p, NEW s, Held(rs, r, p, s)
      PROVE r \in RoomId /\ p \in PeerId /\ s \in Socket /\ r # None /\ p # None
  BY <1>1, RoomShape, RelayAssumption DEF Held, RoomsOK
<1>2. ASSUME NEW r, NEW p, NEW s, NEW x, NEW q, Held(rs, r, p, s), Held(rs, x, q, s)
      PROVE r = x /\ p = q
  BY <1>2 DEF Held, RoomsOK
<1> QED BY <1>1, <1>2 DEF Held

LEMMA MembersAre ==
  ASSUME NEW rs, NEW r \in DOMAIN rs, NEW s
  PROVE  s \in Members(rs[r]) <=> \E p : Held(rs, r, p, s)
BY DEF Members, Held

LEMMA PeersAre ==
  ASSUME NEW rs, NEW r \in DOMAIN rs, NEW p
  PROVE  p \in DOMAIN rs[r].peers <=> \E s : Held(rs, r, p, s)
BY DEF Held

\* The counts of sockets that have not joined: what may happen to them.
UnauthSame ==
  /\ UNCHANGED <<unauth, perIp>>
  /\ \A s \in Socket : sock'[s].phase # "closed" \/ sock'[s] = sock[s]
  /\ \A s \in Socket : Open(s)' /\ sock'[s].id = None => Open(s) /\ sock[s].id = None

LEMMA CountSame ==
  ASSUME Typed, Typed', UnauthCounted, UnauthSame
  PROVE  UnauthCounted'
<1>1. \A i \in Ip : { s \in unauth' : IpOf[s] = i } = { s \in unauth : IpOf[s] = i }
  BY DEF UnauthSame
<1>2. UnauthTracked'
  BY <1>1 DEF UnauthCounted, UnauthTracked, UnauthSame
<1> QED BY <1>2 DEF UnauthCounted, UnauthSame, Typed

LEMMA CountMore ==
  ASSUME Typed, Typed', UnauthCounted, NEW s \in Socket, sock[s].phase = "closed",
         TrackUnauthSocket(s)
  PROVE  UnauthCounted'
<1> DEFINE full == \/ Cardinality(unauth) >= MaxUnauth
                   \/ perIp[IpOf[s]] >= MaxUnauthPerIp
           Of(i) == { t \in unauth : IpOf[t] = i }
<1>1. /\ sock' = [sock EXCEPT ![s] = [Fresh EXCEPT !.phase = IF full THEN "closing" ELSE "open"]]
      /\ unauth' = IF full THEN unauth ELSE unauth \cup {s}
      /\ perIp' = IF full THEN perIp ELSE [perIp EXCEPT ![IpOf[s]] = @ + 1]
  BY DEF TrackUnauthSocket
<1> HIDE DEF full
<1>2. s \notin unauth /\ IpOf[s] \in Ip
  BY RelayAssumption DEF UnauthCounted
<1>3. /\ sock'[s].phase = IF full THEN "closing" ELSE "open"
      /\ \A t \in Socket \ {s} : sock'[t] = sock[t]
  BY <1>1 DEF Typed, Fresh
<1>4. CASE full
  <2>1. UNCHANGED <<unauth, perIp>>
    BY <1>1, <1>4
  <2> QED BY <1>3, <1>4, <2>1, CountSame DEF UnauthSame, Open
<1>5. CASE ~full
  <2>1. unauth' = unauth \cup {s} /\ perIp' = [perIp EXCEPT ![IpOf[s]] = @ + 1]
    BY <1>1, <1>5
  <2>2. IsFiniteSet(unauth')
    BY <2>1, FS_AddElement DEF UnauthCounted
  <2>3. ASSUME NEW i \in Ip
        PROVE  perIp'[i] = Cardinality({ t \in unauth' : IpOf[t] = i })
    <3>1. IsFiniteSet(Of(i)) /\ perIp[i] = Cardinality(Of(i)) /\ s \notin Of(i)
      BY <1>2, FS_Subset DEF UnauthCounted, UnauthTracked
    <3>2. CASE IpOf[s] = i
      <4>1. { t \in unauth' : IpOf[t] = i } = Of(i) \cup {s}
        BY <2>1, <3>2
      <4> HIDE DEF Of
      <4>2. Cardinality(Of(i) \cup {s}) = Cardinality(Of(i)) + 1
        BY <3>1, FS_AddElement
      <4> QED BY <2>1, <3>1, <3>2, <4>1, <4>2 DEF Typed
    <3>3. CASE IpOf[s] # i
      <4>1. { t \in unauth' : IpOf[t] = i } = Of(i)
        BY <2>1, <3>3
      <4> QED BY <1>2, <2>1, <3>1, <3>3, <4>1 DEF Typed
    <3> QED BY <3>2, <3>3
  <2>4. \A t \in unauth' : sock'[t].phase # "closed"
    BY <1>3, <1>5, <2>1 DEF UnauthCounted, Typed
  <2>5. \A t \in Socket : Open(t)' /\ sock'[t].id = None => t \in unauth'
    BY <1>3, <2>1 DEF UnauthCounted, UnauthTracked, Open
  <2>6. UnauthTracked'
    BY <2>3, <2>5 DEF UnauthTracked
  <2> QED BY <2>2, <2>4, <2>6 DEF UnauthCounted
<1> QED BY <1>4, <1>5

LEMMA CountLess ==
  ASSUME Typed, Typed', UnauthCounted, NEW s \in Socket, PromoteFromUnauth(s),
         sock'[s].phase = "closed" \/ sock'[s].id # None,
         \A t \in Socket \ {s} :
           /\ sock'[t].phase # "closed" \/ sock'[t] = sock[t]
           /\ sock'[t].phase = "open" /\ sock'[t].id = None =>
                sock[t].phase = "open" /\ sock[t].id = None
  PROVE  UnauthCounted'
<1> DEFINE Of(i) == { t \in unauth : IpOf[t] = i }
<1>1. /\ unauth' = unauth \ {s}
      /\ perIp' = IF s \in unauth THEN [perIp EXCEPT ![IpOf[s]] = @ - 1] ELSE perIp
  BY DEF PromoteFromUnauth
<1>2. IsFiniteSet(unauth')
  BY <1>1, FS_Subset DEF UnauthCounted
<1>3. ASSUME NEW i \in Ip
      PROVE  perIp'[i] = Cardinality({ t \in unauth' : IpOf[t] = i })
  <2>1. IsFiniteSet(Of(i)) /\ perIp[i] = Cardinality(Of(i)) /\ perIp[i] \in Nat
    BY FS_Subset DEF UnauthCounted, UnauthTracked, Typed
  <2>2. CASE IpOf[s] = i /\ s \in unauth
    <3>1. { t \in unauth' : IpOf[t] = i } = Of(i) \ {s} /\ s \in Of(i)
      BY <1>1, <2>2
    <3> HIDE DEF Of
    <3>2. Cardinality(Of(i) \ {s}) = Cardinality(Of(i)) - 1
      BY <2>1, <3>1, FS_RemoveElement
    <3> QED BY <1>1, <2>1, <2>2, <3>1, <3>2 DEF Typed
  <2>3. CASE ~(IpOf[s] = i /\ s \in unauth)
    <3>1. { t \in unauth' : IpOf[t] = i } = Of(i)
      BY <1>1, <2>3
    <3> QED BY <1>1, <2>1, <2>3, <3>1 DEF Typed
  <2> QED BY <2>2, <2>3
<1>4. \A t \in unauth' : sock'[t].phase # "closed"
  BY <1>1 DEF UnauthCounted, Typed
<1>5. \A t \in Socket : Open(t)' /\ sock'[t].id = None => t \in unauth'
  BY <1>1 DEF UnauthCounted, UnauthTracked, Open
<1>6. UnauthTracked'
  BY <1>3, <1>5 DEF UnauthTracked
<1> QED BY <1>2, <1>4, <1>6 DEF UnauthCounted

-----------------------------------------------------------------------------
(* Leaving                                                                 *)

\* The table and the knowledge after the socket s has left its room, if any.
LeftBehind(s, left, known) ==
  /\ RoomsOK(left, limits.peers)
  /\ \A x, q, t : Held(left, x, q, t) <=> Held(rooms, x, q, t) /\ t # s
  /\ \A x \in DOMAIN left : x \in DOMAIN rooms /\ left[x].hash = rooms[x].hash
  /\ known \in [Socket -> SUBSET PeerId]
  /\ Tells(known, left)

LEMMA NobodyLeaves ==
  ASSUME PlacesOK, NEW s \in Socket, \A r, p : ~Held(rooms, r, p, s)
  PROVE  LeftBehind(s, rooms, roster)
BY DEF LeftBehind, PlacesOK, Typed

\* peer-left goes to K, in which all others of the room are who are open.
LEMMA Leaving ==
  ASSUME PlacesOK, NEW s \in Socket, NEW r, NEW p, Held(rooms, r, p, s), NEW K,
         \A t : Open(t) /\ t # s => (t \in K <=> \E q : Held(rooms, r, q, t))
  PROVE  LeftBehind(s, Vacate(rooms, r, p), ToldLeft(roster, p, K))
<1> DEFINE v == Vacate(rooms, r, p)
           known == ToldLeft(roster, p, K)
<1>0. limits.peers \in Nat /\ RoomsOK(rooms, limits.peers)
  BY LimitsAre DEF PlacesOK
<1>1. /\ RoomsOK(v, limits.peers)
      /\ \A x, q, t : Held(v, x, q, t) <=> Held(rooms, x, q, t) /\ t # s
      /\ \A x \in DOMAIN v : x \in DOMAIN rooms /\ v[x].hash = rooms[x].hash
  BY <1>0, VacatedRooms
<1>2. /\ known \in [Socket -> SUBSET PeerId]
      /\ \A t \in Socket : known[t] = IF t \in K THEN roster[t] \ {p} ELSE roster[t]
  BY DEF ToldLeft, PlacesOK, Typed
<1>3. /\ \A x, q, t : Held(rooms, x, q, t) =>
           x \in RoomId /\ q \in PeerId /\ t \in Socket
      /\ \A x, q, y, z, t : Held(rooms, x, q, t) /\ Held(rooms, y, z, t) => x = y /\ q = z
  BY <1>0, HeldAre
<1> HIDE DEF v, known
<1>4. ASSUME NEW x, NEW q, NEW t, Held(v, x, q, t), Open(t)
      PROVE  known[t] = DOMAIN v[x].peers \ {q}
  <2>1. Held(rooms, x, q, t) /\ t # s /\ t \in Socket /\ x \in DOMAIN v
    <3>1. Held(rooms, x, q, t) /\ t # s
      BY <1>1, <1>4
    <3> QED BY <1>3, <1>4, <3>1 DEF Held
  <2>2. roster[t] = DOMAIN rooms[x].peers \ {q}
    BY <1>4, <2>1 DEF PlacesOK, Tells
  <2>3. t \in K <=> x = r
    BY <1>3, <1>4, <2>1
  <2>4. DOMAIN v[x].peers = { z \in DOMAIN rooms[x].peers : rooms[x].peers[z] # s }
    <3>1. x \in DOMAIN rooms
      BY <2>1 DEF Held
    <3>2. ASSUME NEW z PROVE z \in DOMAIN v[x].peers <=>
                             z \in DOMAIN rooms[x].peers /\ rooms[x].peers[z] # s
      <4>1. z \in DOMAIN v[x].peers <=> \E u : Held(v, x, z, u)
        BY <2>1, PeersAre
      <4>2. \A u : Held(v, x, z, u) <=> Held(rooms, x, z, u) /\ u # s
        BY <1>1
      <4> QED BY <3>1, <4>1, <4>2 DEF Held
    <3> QED BY <3>2
  <2>5. DOMAIN v[x].peers = IF x = r THEN DOMAIN rooms[x].peers \ {p} ELSE DOMAIN rooms[x].peers
    <3>1. CASE x = r
      <4>1. \A z \in DOMAIN rooms[x].peers : rooms[x].peers[z] = s <=> z = p
        BY <1>3, <3>1 DEF Held
      <4> QED BY <2>4, <3>1, <4>1
    <3>2. CASE x # r
      <4>1. \A z \in DOMAIN rooms[x].peers : rooms[x].peers[z] # s
        BY <1>3, <3>2, <2>1 DEF Held
      <4> QED BY <2>4, <3>2, <4>1
    <3> QED BY <3>1, <3>2
  <2> QED BY <1>2, <2>1, <2>2, <2>3, <2>5
<1> QED BY <1>1, <1>2, <1>4 DEF LeftBehind, Tells, v, known

\* rooms.leave: the socket knows its place.
LEMMA BunLeaves ==
  ASSUME PlacesOK, copy = "bun", NEW s \in Socket
  PROVE  LeftBehind(s, LeaveRooms(s), LeaveRoster(s))
<1>1. CASE Leaves(s)
  <2>1. sock[s].room # None
    BY <1>1, RelayAssumption DEF Leaves, PlacesOK, RoomsOK
  <2>2. Held(rooms, sock[s].room, sock[s].id, s)
    BY <2>1 DEF PlacesOK, Noted
  <2> DEFINE K == Members(rooms[sock[s].room]) \ {s}
  <2>3. \A t : Open(t) /\ t # s => (t \in K <=> \E q : Held(rooms, sock[s].room, q, t))
    BY <1>1, MembersAre DEF Leaves
  <2>4. LeftBehind(s, Vacate(rooms, sock[s].room, sock[s].id), ToldLeft(roster, sock[s].id, K))
    <3> HIDE DEF K
    <3> QED BY <2>2, <2>3, Leaving
  <2> QED BY <1>1, <2>4 DEF LeaveRooms, LeaveRoster
<1>2. CASE ~Leaves(s)
  <2>1. \A r, p : ~Held(rooms, r, p, s)
    BY <1>2 DEF Leaves, PlacesOK, Noted, Held
  <2> QED BY <1>2, <2>1, NobodyLeaves DEF LeaveRooms, LeaveRoster
<1> QED BY <1>1, <1>2

\* The table is searched for the place of a socket, and finds it.
LEMMA PlaceFound ==
  ASSUME NEW rs, NEW n, RoomsOK(rs, n), NEW r, NEW p, NEW s, Held(rs, r, p, s)
  PROVE  RoomOf(rs, s) = r /\ IdIn(rs[r], s) = p
<1>1. \A x \in DOMAIN rs : s \in Members(rs[x]) <=> x = r
  BY MembersAre, HeldAre
<1>2. RoomOf(rs, s) = r
  <2>1. r \in DOMAIN rs /\ s \in Members(rs[r])
    BY <1>1 DEF Held
  <2> QED BY <1>1, <2>1 DEF RoomOf
<1>3. p \in DOMAIN rs[r].peers /\ \A q \in DOMAIN rs[r].peers : rs[r].peers[q] = s <=> q = p
  <2>1. p \in DOMAIN rs[r].peers /\ r \in DOMAIN rs /\ rs[r].peers[p] = s
    BY DEF Held
  <2>2. \A q : Held(rs, r, q, s) => q = p
    BY HeldAre
  <2> QED BY <2>1, <2>2 DEF Held
<1> QED BY <1>2, <1>3 DEF IdIn

LEMMA SeatedAre ==
  ASSUME NEW s
  PROVE  /\ Seated(s) <=> \E r, p : Held(rooms, r, p, s)
         /\ \A r : r \in InRoom(s) <=> \E p : Held(rooms, r, p, s)
<1>1. \A r : r \in InRoom(s) <=> r \in DOMAIN rooms /\ \E p : Held(rooms, r, p, s)
  BY MembersAre DEF InRoom
<1>2. \A r, p : Held(rooms, r, p, s) => r \in DOMAIN rooms
  BY DEF Held
<1> QED BY <1>1, <1>2 DEF Seated

\* leaveRoom of the hosted copy; it tells open sockets only.
LEMMA HostedLeaves ==
  ASSUME PlacesOK, NEW s \in Socket
  PROVE  LeftBehind(s, HostedLeaveRooms(s), HostedLeaveRoster(s))
<1>1. CASE Seated(s)
  <2>1. PICK r, p : Held(rooms, r, p, s)
    BY <1>1, SeatedAre
  <2>2. RoomOf(rooms, s) = r /\ IdIn(rooms[r], s) = p /\ r \in DOMAIN rooms
    BY <2>1, PlaceFound DEF PlacesOK, Held
  <2> DEFINE K == { t \in Members(rooms[r]) \ {s} : Open(t) }
  <2>3. \A t : Open(t) /\ t # s => (t \in K <=> \E q : Held(rooms, r, q, t))
    BY <2>2, MembersAre
  <2>4. LeftBehind(s, Vacate(rooms, r, p), ToldLeft(roster, p, K))
    <3> HIDE DEF K
    <3> QED BY <2>1, <2>3, Leaving
  <2> QED BY <1>1, <2>2, <2>4 DEF HostedLeaveRooms, HostedLeaveRoster
<1>2. CASE ~Seated(s)
  <2>1. \A r, p : ~Held(rooms, r, p, s)
    BY <1>2, SeatedAre
  <2> QED BY <1>2, <2>1, NobodyLeaves DEF HostedLeaveRooms, HostedLeaveRoster
<1> QED BY <1>1, <1>2

-----------------------------------------------------------------------------
(* What a step does to the places: at most the socket s, whose request is   *)
(* served, gets another one or loses it with an open connection.            *)

Effect(s) ==
  /\ UNCHANGED limits
  /\ \A t \in Socket \ {s} : Open(t)' =>
       \A x, q : Held(rooms', x, q, t) <=> Held(rooms, x, q, t)
  /\ \A t \in Socket : ~Open(t)' => \A x, q : Held(rooms', x, q, t) => Held(rooms, x, q, t)
  /\ \A x, p, q, t : t # s /\ Held(rooms, x, p, t) /\ Held(rooms', x, q, t) =>
       rooms'[x].hash = rooms[x].hash

\* A step after which a place is held by whom it was, or by nobody.
LEMMA Shrinking ==
  ASSUME PlacesOK, Typed', UNCHANGED <<limits, copy>>, RoomsOK(rooms', limits.peers),
         NEW s, NEW known, roster' = known, Tells(known, rooms'),
         \A x, q, t : Held(rooms', x, q, t) =>
            /\ Held(rooms, x, q, t) /\ rooms'[x].hash = rooms[x].hash
            /\ sock'[t].id = sock[t].id /\ sock'[t].room = sock[t].room
            /\ sock'[t].phase = sock[t].phase \/ sock'[t].phase = "closing",
         \A t \in Socket :
            \/ sock'[t].room = None
            \/ sock'[t].room = sock[t].room /\ sock'[t].id = sock[t].id
               /\ \A x, q : Held(rooms, x, q, t) => Held(rooms', x, q, t),
         \A t \in Socket \ {s} : Open(t)' =>
            \A x, q : Held(rooms, x, q, t) => Held(rooms', x, q, t)
  PROVE  PlacesOK' /\ Effect(s)
<1>1. Noted'
  <2>1. ASSUME NEW x, NEW q, NEW t, Held(rooms', x, q, t)
        PROVE  /\ sock'[t].phase # "closed" /\ sock'[t].id = q
               /\ copy' = "bun" => sock'[t].room = x
    BY <2>1 DEF PlacesOK, Noted
  <2>2. ASSUME NEW t \in Socket, sock'[t].room # None
        PROVE  copy' = "bun" /\ Held(rooms', sock'[t].room, sock'[t].id, t)
    BY <2>2 DEF PlacesOK, Noted
  <2> QED BY <2>1, <2>2 DEF Noted, Held
<1>2. Tells(roster, rooms)'
  <2>1. ASSUME NEW x, NEW q, NEW t, Held(rooms', x, q, t), Open(t)'
        PROVE  roster'[t] = DOMAIN rooms'[x].peers \ {q}
    <3>1. Open(t)
      BY <2>1 DEF Open
    <3> QED BY <2>1, <3>1 DEF Tells
  <2> QED BY <2>1 DEF Tells, Held
<1>3. Effect(s)
  BY DEF Effect
<1>4. RoomsOK(rooms, limits.peers)'
  BY DEF RoomsOK
<1> QED BY <1>1, <1>2, <1>3, <1>4 DEF PlacesOK

-----------------------------------------------------------------------------
(* Joining: the room table is cleared of idle rooms when a new one is        *)
(* needed; the place is given, or refused.                                   *)

Cleared(left, r, base, gone) ==
  \/ r \in DOMAIN left /\ base = left /\ gone = {}
  \/ r \notin DOMAIN left /\ base = Swept(left) /\ gone = SweptSockets(left)

LEMMA Clearing ==
  ASSUME PlacesOK, NEW s, NEW left, NEW known, LeftBehind(s, left, known),
         NEW r, NEW base, NEW gone, Cleared(left, r, base, gone)
  PROVE  /\ RoomsOK(base, limits.peers)
         /\ \A x, q, t : Held(base, x, q, t) <=> Held(rooms, x, q, t) /\ t # s /\ t \notin gone
         /\ \A x \in DOMAIN base : x \in DOMAIN rooms /\ base[x].hash = rooms[x].hash
         /\ Tells(known, base)
         /\ \A t \in gone : t # s /\ \E x, q : Held(rooms, x, q, t)
         /\ r \in DOMAIN base <=> r \in DOMAIN left
<1>0. limits.peers \in Nat /\ RoomsOK(left, limits.peers)
  BY LimitsAre DEF PlacesOK, LeftBehind
<1>1. CASE r \in DOMAIN left /\ base = left /\ gone = {}
  BY <1>1 DEF LeftBehind
<1>2. CASE r \notin DOMAIN left /\ base = Swept(left) /\ gone = SweptSockets(left)
  <2>1. /\ RoomsOK(base, limits.peers)
        /\ \A x, q, t : Held(base, x, q, t) <=> Held(left, x, q, t) /\ t \notin gone
        /\ \A x \in DOMAIN base : x \in DOMAIN left /\ base[x] = left[x]
        /\ \A t \in gone : \E x, q : Held(left, x, q, t)
    BY <1>0, <1>2, SweptRooms
  <2>2. \A x, q, t : Held(left, x, q, t) <=> Held(rooms, x, q, t) /\ t # s
    BY DEF LeftBehind
  <2>3. \A x \in DOMAIN base : x \in DOMAIN rooms /\ base[x].hash = rooms[x].hash
    BY <2>1 DEF LeftBehind
  <2>4. Tells(known, base)
    <3>1. ASSUME NEW x, NEW q, NEW t, Held(base, x, q, t), Open(t)
          PROVE  known[t] = DOMAIN base[x].peers \ {q}
      <4>1. Held(left, x, q, t) /\ x \in DOMAIN base
        BY <2>1, <3>1 DEF Held
      <4> QED BY <2>1, <3>1, <4>1 DEF LeftBehind, Tells
    <3> QED BY <3>1 DEF Tells
  <2>5. \A t \in gone : t # s /\ \E x, q : Held(rooms, x, q, t)
    BY <2>1, <2>2
  <2> QED BY <1>2, <2>1, <2>2, <2>3, <2>4, <2>5
<1> QED BY <1>1, <1>2 DEF Cleared

LEMMA Refusal ==
  ASSUME PlacesOK, Typed', UNCHANGED <<limits, copy>>,
         NEW s \in Socket, NEW left, NEW known, LeftBehind(s, left, known),
         NEW r, NEW base, NEW gone, Cleared(left, r, base, gone),
         rooms' = base, roster' = known,
         sock'[s].room = None,
         \A t \in gone : sock'[t].phase = "closing" /\ sock'[t].room = None,
         \A t \in Socket : t # s /\ t \notin gone => sock'[t] = sock[t]
  PROVE  PlacesOK' /\ Effect(s)
<1>1. /\ RoomsOK(rooms', limits.peers)
      /\ \A x, q, t : Held(rooms', x, q, t) <=> Held(rooms, x, q, t) /\ t # s /\ t \notin gone
      /\ \A x \in DOMAIN rooms' : rooms'[x].hash = rooms[x].hash
      /\ Tells(known, rooms')
  BY Clearing
<1>2. ASSUME NEW x, NEW q, NEW t, Held(rooms', x, q, t)
      PROVE  /\ Held(rooms, x, q, t) /\ rooms'[x].hash = rooms[x].hash
             /\ sock'[t] = sock[t]
  <2>1. Held(rooms, x, q, t) /\ t # s /\ t \notin gone
    BY <1>1, <1>2
  <2>2. t \in Socket
    BY <2>1, HeldAre DEF PlacesOK
  <2>3. x \in DOMAIN rooms'
    BY <1>2 DEF Held
  <2> QED BY <1>1, <2>1, <2>2, <2>3
<1>3. ASSUME NEW t \in Socket
      PROVE  \/ sock'[t].room = None
             \/ sock'[t].room = sock[t].room /\ sock'[t].id = sock[t].id
                /\ \A x, q : Held(rooms, x, q, t) => Held(rooms', x, q, t)
  BY <1>1
<1>4. ASSUME NEW t \in Socket \ {s}, Open(t)'
      PROVE  \A x, q : Held(rooms, x, q, t) => Held(rooms', x, q, t)
  BY <1>1, <1>4 DEF Open
<1> QED BY <1>1, <1>2, <1>3, <1>4, Shrinking

Admitted(s, left, known, r, base, gone, h, p, old, K) ==
  /\ LeftBehind(s, left, known)
  /\ Cleared(left, r, base, gone)
  /\ s \in Socket /\ r \in RoomId /\ h \in Hash /\ p \in PeerId
  /\ old = IF r \in DOMAIN base THEN base[r] ELSE NewRoom(h)
  /\ Cardinality(DOMAIN old.peers) < limits.peers
  /\ \A t : Held(base, r, p, t) => copy # "bun" /\ ~Open(t)
  /\ \A t : t # s /\ Open(t) => (t \in K <=> \E q : q # p /\ Held(base, r, q, t))
  /\ rooms' = With(base, r, Seat(old, p, s))
  /\ roster' = [ToldJoined(known, p, K) EXCEPT ![s] = DOMAIN old.peers \ {p}]
  /\ sock'[s].phase = "open" /\ sock'[s].id = p
  /\ sock'[s].room = IF copy = "bun" THEN r ELSE None
  /\ \A t \in gone : sock'[t].phase = "closing" /\ sock'[t].room = None
  /\ \A t \in Socket : t # s /\ t \notin gone => sock'[t] = sock[t]

LEMMA Admission ==
  ASSUME PlacesOK, Typed', UNCHANGED <<limits, copy>>,
         NEW s, NEW left, NEW known, NEW r, NEW base, NEW gone, NEW h, NEW p, NEW old, NEW K,
         Admitted(s, left, known, r, base, gone, h, p, old, K)
  PROVE  PlacesOK' /\ Effect(s)
<1>0. /\ limits.peers \in Nat /\ LeftBehind(s, left, known)
      /\ Cleared(left, r, base, gone)
      /\ s \in Socket /\ r \in RoomId /\ h \in Hash /\ p \in PeerId
  BY LimitsAre DEF PlacesOK, Admitted
<1>a. /\ sock'[s].phase = "open" /\ sock'[s].id = p
      /\ sock'[s].room = IF copy = "bun" THEN r ELSE None
      /\ \A t \in gone : sock'[t].phase = "closing" /\ sock'[t].room = None
      /\ \A t \in Socket : t # s /\ t \notin gone => sock'[t] = sock[t]
  BY DEF Admitted
<1>b. \A t : Held(base, r, p, t) => copy # "bun" /\ ~Open(t)
  BY DEF Admitted
<1>c. old = IF r \in DOMAIN base THEN base[r] ELSE NewRoom(h)
  BY DEF Admitted
<1>1. /\ RoomsOK(base, limits.peers)
      /\ \A x, q, t : Held(base, x, q, t) <=> Held(rooms, x, q, t) /\ t # s /\ t \notin gone
      /\ \A x \in DOMAIN base : x \in DOMAIN rooms /\ base[x].hash = rooms[x].hash
      /\ Tells(known, base)
      /\ \A t \in gone : t # s
  BY <1>0, Clearing
<1>2. /\ RoomsOK(rooms', limits.peers)
      /\ \A t : Held(rooms', r, p, t) <=> t = s
      /\ \A x, q, t : x # r \/ q # p => (Held(rooms', x, q, t) <=> Held(base, x, q, t))
      /\ DOMAIN rooms' = DOMAIN base \cup {r}
      /\ \A x \in DOMAIN base : rooms'[x].hash = base[x].hash
      /\ rooms'[r].peers = With(old.peers, p, s)
  <2>1. \A x, q : ~Held(base, x, q, s)
    BY <1>1
  <2>2. Takes(base, limits.peers, r, p, s, h, old, rooms')
    BY <1>0, <1>1, <2>1 DEF Takes, Admitted
  <2>3. Taken(base, limits.peers, r, p, s, old, rooms')
    BY <2>2, SeatedRooms
  <2> QED BY <2>3 DEF Taken
<1>3. \A x, q, t : Held(base, x, q, t) =>
        /\ x \in DOMAIN base /\ t \in Socket /\ t # s /\ t \notin gone
        /\ Held(rooms, x, q, t) /\ sock'[t] = sock[t]
  <2>1. \A x, q, t : Held(base, x, q, t) => t \in Socket
    BY <1>1, HeldAre
  <2> QED BY <1>0, <1>1, <1>a, <2>1 DEF Held
<1>4. Noted'
  <2>1. ASSUME NEW x, NEW q, NEW t, Held(rooms', x, q, t)
        PROVE  /\ sock'[t].phase # "closed" /\ sock'[t].id = q
               /\ copy' = "bun" => sock'[t].room = x
    <3>1. CASE x = r /\ q = p
      BY <1>2, <1>a, <2>1, <3>1
    <3>2. CASE ~(x = r /\ q = p)
      <4>1. Held(base, x, q, t)
        BY <1>2, <2>1, <3>2
      <4> QED BY <1>3, <4>1 DEF PlacesOK, Noted
    <3> QED BY <3>1, <3>2
  <2>2. ASSUME NEW t \in Socket, sock'[t].room # None
        PROVE  copy' = "bun" /\ Held(rooms', sock'[t].room, sock'[t].id, t)
    <3>1. CASE t = s
      BY <1>2, <1>a, <2>2, <3>1
    <3>2. CASE t # s
      <4>1. t \notin gone /\ sock'[t] = sock[t]
        BY <1>a, <2>2, <3>2
      <4>2. copy = "bun" /\ Held(rooms, sock[t].room, sock[t].id, t)
        BY <2>2, <4>1 DEF PlacesOK, Noted
      <4>3. Held(base, sock[t].room, sock[t].id, t)
        BY <1>1, <3>2, <4>1, <4>2
      <4> QED BY <1>2, <1>b, <4>1, <4>2, <4>3
    <3> QED BY <3>1, <3>2
  <2> QED BY <2>1, <2>2 DEF Noted, Held
<1>5. DOMAIN rooms'[r].peers = DOMAIN old.peers \cup {p}
  BY <1>2 DEF With
<1>6. /\ \A t \in Socket : known[t] \subseteq PeerId
      /\ \A t \in Socket \ {s} : roster'[t] = IF t \in K THEN known[t] \cup {p} ELSE known[t]
      /\ roster'[s] = DOMAIN old.peers \ {p}
      /\ \A t : t # s /\ Open(t) => (t \in K <=> \E q : q # p /\ Held(base, r, q, t))
  BY <1>0 DEF LeftBehind, ToldJoined, Admitted
<1>7. ASSUME NEW x, NEW q, NEW t, Held(rooms', x, q, t), Open(t)'
      PROVE  roster'[t] = DOMAIN rooms'[x].peers \ {q}
  <2>1. CASE x = r /\ q = p
    BY <1>2, <1>5, <1>6, <1>7, <2>1
  <2>2. CASE ~(x = r /\ q = p)
    <3>1. Held(base, x, q, t)
      BY <1>2, <1>7, <2>2
    <3>2. t \in Socket \ {s} /\ Open(t) /\ x \in DOMAIN base
      BY <1>0, <1>3, <1>7, <3>1 DEF Open
    <3>3. known[t] = DOMAIN base[x].peers \ {q}
      BY <1>1, <3>1, <3>2 DEF Tells
    <3>4. t \in K <=> x = r
      BY <1>1, <1>6, <2>2, <3>1, <3>2, HeldAre
    <3>5. CASE x = r
      <4>1. roster'[t] = (DOMAIN old.peers \ {q}) \cup {p}
        <5>1. old = base[r]
          BY <1>c, <3>2, <3>5
        <5> QED BY <1>6, <3>2, <3>3, <3>4, <3>5, <5>1
      <4>2. q # p
        BY <2>2, <3>5
      <4> QED BY <1>5, <3>5, <4>1, <4>2
    <3>6. CASE x # r
      <4>1. rooms'[x] = base[x]
        BY <3>2, <3>6 DEF With, Admitted
      <4> QED BY <1>6, <3>2, <3>3, <3>4, <3>6, <4>1
    <3> QED BY <3>5, <3>6
  <2> QED BY <2>1, <2>2
<1>8. Tells(roster, rooms)'
  BY <1>7 DEF Tells, Held, Open
<1>9. Effect(s)
  <2>1. ASSUME NEW t \in Socket \ {s}, Open(t)', NEW x, NEW q
        PROVE  Held(rooms', x, q, t) <=> Held(rooms, x, q, t)
    <3>1. t \notin gone /\ Open(t)
      BY <1>a, <2>1 DEF Open
    <3>2. Held(rooms, x, q, t) <=> Held(base, x, q, t)
      BY <1>1, <3>1
    <3>3. x = r /\ q = p => ~Held(base, x, q, t)
      BY <1>b, <3>1
    <3> QED BY <1>2, <3>2, <3>3
  <2>2. ASSUME NEW t \in Socket, ~Open(t)', NEW x, NEW q, Held(rooms', x, q, t)
        PROVE  Held(rooms, x, q, t)
    <3>1. t # s
      BY <1>a, <2>2 DEF Open
    <3> QED BY <1>1, <1>2, <2>2, <3>1
  <2>3. ASSUME NEW x, NEW z, NEW q, NEW t, t # s, Held(rooms, x, z, t), Held(rooms', x, q, t)
        PROVE  rooms'[x].hash = rooms[x].hash
    <3>1. Held(base, x, q, t)
      BY <1>2, <2>3
    <3> QED BY <1>1, <1>2, <1>3, <3>1
  <2> QED BY <2>1, <2>2, <2>3 DEF Effect
<1>10. RoomsOK(rooms, limits.peers)'
  BY <1>2 DEF RoomsOK
<1> QED BY <1>4, <1>8, <1>9, <1>10 DEF PlacesOK

-----------------------------------------------------------------------------
(* Steps that change no place                                               *)

SameTable ==
  /\ DOMAIN rooms' = DOMAIN rooms
  /\ \A x \in DOMAIN rooms : /\ rooms'[x] \in RoomType
                             /\ rooms'[x].peers = rooms[x].peers
                             /\ rooms'[x].hash = rooms[x].hash

LEMMA SameHeld ==
  ASSUME SameTable, NEW x, NEW q, NEW t
  PROVE  Held(rooms', x, q, t) <=> Held(rooms, x, q, t)
BY DEF SameTable, Held

LEMMA MarkedTable ==
  ASSUME PlacesOK, NEW r, NEW i \in BOOLEAN, rooms' = [rooms EXCEPT ![r].idle = i]
  PROVE  SameTable
<1>1. DOMAIN rooms' = DOMAIN rooms
  OBVIOUS
<1>2. ASSUME NEW x \in DOMAIN rooms
      PROVE  /\ rooms'[x] \in RoomType
             /\ rooms'[x].peers = rooms[x].peers
             /\ rooms'[x].hash = rooms[x].hash
  <2>1. rooms[x] \in RoomType
    BY DEF PlacesOK, RoomsOK
  <2> DEFINE room == [rooms[x] EXCEPT !.idle = i]
  <2>2. room \in RoomType /\ room.peers = rooms[x].peers /\ room.hash = rooms[x].hash
    BY <2>1, RoomMarked
  <2>3. rooms'[x] = IF x = r THEN room ELSE rooms[x]
    OBVIOUS
  <2> HIDE DEF room
  <2> QED BY <2>1, <2>2, <2>3
<1> QED BY <1>1, <1>2 DEF SameTable

LEMMA UnchangedTable ==
  ASSUME PlacesOK, UNCHANGED rooms
  PROVE  SameTable
BY DEF PlacesOK, RoomsOK, SameTable

LEMMA QuietStep ==
  ASSUME PlacesOK, Typed', UNCHANGED <<limits, copy>>, SameTable,
         NEW s,
         \A t \in Socket : t # s => sock'[t] = sock[t] /\ roster'[t] = roster[t],
         s \in Socket =>
           \/ /\ sock'[s].id = sock[s].id /\ sock'[s].room = sock[s].room
              /\ sock'[s].phase = sock[s].phase \/ sock'[s].phase = "closing"
              /\ roster'[s] = roster[s]
           \/ sock[s].phase = "closed" /\ sock'[s].room = None
  PROVE  PlacesOK' /\ Effect(s)
<1>1. \A x, q, t : Held(rooms', x, q, t) <=> Held(rooms, x, q, t)
  BY SameHeld
<1>2. RoomsOK(rooms', limits.peers)
  BY DEF PlacesOK, RoomsOK, SameTable
<1>3. ASSUME NEW x, NEW q, NEW t, Held(rooms', x, q, t)
      PROVE  /\ Held(rooms, x, q, t) /\ rooms'[x].hash = rooms[x].hash /\ t \in Socket
             /\ rooms'[x].peers = rooms[x].peers
             /\ sock'[t].id = sock[t].id /\ sock'[t].room = sock[t].room
             /\ sock'[t].phase = sock[t].phase \/ sock'[t].phase = "closing"
             /\ roster'[t] = roster[t]
  <2>1. Held(rooms, x, q, t) /\ x \in DOMAIN rooms
    BY <1>1, <1>3 DEF Held, SameTable
  <2>2. t \in Socket
    BY <2>1, HeldAre DEF PlacesOK
  <2>3. sock[t].phase # "closed"
    BY <2>1 DEF PlacesOK, Noted
  <2> QED BY <2>1, <2>2, <2>3 DEF SameTable
<1>4. ASSUME NEW t \in Socket
      PROVE  \/ sock'[t].room = None
             \/ sock'[t].room = sock[t].room /\ sock'[t].id = sock[t].id
                /\ \A x, q : Held(rooms, x, q, t) => Held(rooms', x, q, t)
  BY <1>1
<1>5. Tells(roster', rooms')
  <2>1. ASSUME NEW x, NEW q, NEW t, Held(rooms', x, q, t), Open(t)
        PROVE  roster'[t] = DOMAIN rooms'[x].peers \ {q}
    BY <1>3, <2>1 DEF PlacesOK, Tells
  <2> QED BY <2>1 DEF Tells
<1>6. \A t \in Socket \ {s} : Open(t)' =>
        \A x, q : Held(rooms, x, q, t) => Held(rooms', x, q, t)
  BY <1>1
<1> QED BY <1>2, <1>3, <1>4, <1>5, <1>6, Shrinking

\* A frame goes to others in the sender's room.
LEMMA FrameGoes ==
  ASSUME PlacesOK, UNCHANGED <<limits, copy, sock, roster, unauth, perIp>>, SameTable,
         NEW s \in Socket, NEW r, NEW all, NEW to, Held(rooms, r, sock[s].id, s),
         frame' = [sender |-> s, from |-> sock[s].id, all |-> all, to |-> to],
         \A t \in to \ {s} : Open(t) => \E q : Held(rooms, r, q, t),
         all => \A t : Open(t) => (t \in to <=> t # s /\ \E q : Held(rooms, r, q, t))
  PROVE  FramesFollowRoster'
<1> DEFINE p == sock[s].id
<1>0. /\ frame'.sender = s /\ frame'.from = p /\ frame'.all = all /\ frame'.to = to
  OBVIOUS
<1>1. \A x, q, t : Held(rooms', x, q, t) <=> Held(rooms, x, q, t)
  BY SameHeld
<1>2. \A t : Open(t)' <=> Open(t)
  BY DEF Open
<1>3. ASSUME NEW t \in to \ {s}, Open(t) PROVE p \in roster'[t]
  <2>1. PICK q : Held(rooms, r, q, t)
    BY <1>3
  <2>2. roster[t] = DOMAIN rooms[r].peers \ {q}
    BY <1>3, <2>1 DEF PlacesOK, Tells
  <2>3. p # q /\ p \in DOMAIN rooms[r].peers
    BY <1>3, <2>1 DEF Held
  <2> QED BY <2>2, <2>3
<1>4. ASSUME all, NEW x \in InRoom(s)'
      PROVE  { t \in Members(rooms'[x]) \ {s} : Open(t) } = { t \in to : Open(t) }
  <2>1. x \in DOMAIN rooms' /\ s \in Members(rooms'[x])
    BY <1>4 DEF InRoom
  <2>2. \A t : t \in Members(rooms'[x]) <=> \E q : Held(rooms', x, q, t)
    BY <2>1, MembersAre
  <2>3. x = r
    <3>1. PICK q : Held(rooms, x, q, s)
      BY <1>1, <2>1, <2>2
    <3> QED BY <3>1, HeldAre DEF PlacesOK
  <2>4. \A t : t \in Members(rooms'[x]) <=> \E q : Held(rooms, r, q, t)
    BY <1>1, <2>2, <2>3
  <2> QED BY <1>4, <2>4
<1> HIDE DEF p
<1> DEFINE f == frame'
           in == { x \in DOMAIN rooms' : s \in Members(rooms'[x]) }
<1>5. /\ \A t \in to \ {s} : sock'[t].phase = "open" => p \in roster'[t]
      /\ all => \A x \in in :
           { t \in Members(rooms'[x]) \ {s} : sock'[t].phase = "open" }
             = { t \in to : sock'[t].phase = "open" }
  BY <1>3, <1>4 DEF InRoom, Open
<1>6. /\ \A t \in f.to \ {f.sender} : sock'[t].phase = "open" => f.from \in roster'[t]
      /\ f.all => \A x \in { y \in DOMAIN rooms' : f.sender \in Members(rooms'[y]) } :
           { t \in Members(rooms'[x]) \ {f.sender} : sock'[t].phase = "open" }
             = { t \in f.to : sock'[t].phase = "open" }
  <2>1. f.sender = s /\ f.from = p /\ f.all = all /\ f.to = to
    BY <1>0
  <2> HIDE DEF f
  <2> QED BY <1>5, <2>1
<1> HIDE DEF f, in
<1> QED BY <1>6 DEF FramesFollowRoster, InRoom, Open, f

LEMMA Promoted ==
  ASSUME Typed, UnauthCounted, NEW s \in Socket, PromoteFromUnauth(s)
  PROVE  unauth' \subseteq Socket /\ perIp' \in [Ip -> Nat]
<1>1. s \in unauth => perIp[IpOf[s]] \in Nat \ {0} /\ IpOf[s] \in Ip
  <2> SUFFICES ASSUME s \in unauth PROVE perIp[IpOf[s]] \in Nat \ {0} /\ IpOf[s] \in Ip
    OBVIOUS
  <2>1. IpOf[s] \in Ip
    BY RelayAssumption
  <2> DEFINE S == { t \in unauth : IpOf[t] = IpOf[s] }
  <2>2. IsFiniteSet(S) /\ s \in S /\ perIp[IpOf[s]] = Cardinality(S)
    BY <2>1, FS_Subset DEF UnauthCounted, UnauthTracked
  <2> HIDE DEF S
  <2>3. Cardinality(S) \in Nat /\ Cardinality(S) # 0
    BY <2>2, FS_CardinalityType, FS_EmptySet
  <2> QED BY <2>1, <2>2, <2>3
<1>2. perIp' = IF s \in unauth THEN [perIp EXCEPT ![IpOf[s]] = @ - 1] ELSE perIp
  BY DEF PromoteFromUnauth
<1>3. perIp' \in [Ip -> Nat]
  BY <1>1, <1>2 DEF Typed
<1> QED BY <1>3 DEF PromoteFromUnauth, Typed

-----------------------------------------------------------------------------
(* The steps of the server of index.ts                                      *)

Kept == RelayInv' /\ \E s : Effect(s)

\* What sends no frame keeps FramesFollowRoster.
LEMMA NoFrame ==
  ASSUME PlacesOK', UnauthCounted', frame' = None, NEW s, Effect(s)
  PROVE  Kept
<1>1. FramesFollowRoster'
  BY DEF FramesFollowRoster
<1> QED BY <1>1 DEF Kept, RelayInv

LEMMA OpenKeeps ==
  ASSUME RelayInv, UNCHANGED copy, NEW s \in Socket, OpenSocket(s)
  PROVE  Kept
<1> DEFINE full == \/ Cardinality(unauth) >= MaxUnauth
                   \/ perIp[IpOf[s]] >= MaxUnauthPerIp
           fresh == [Fresh EXCEPT !.phase = IF full THEN "closing" ELSE "open"]
<1>1. /\ sock' = [sock EXCEPT ![s] = fresh]
      /\ unauth' = IF full THEN unauth ELSE unauth \cup {s}
      /\ perIp' = IF full THEN perIp ELSE [perIp EXCEPT ![IpOf[s]] = @ + 1]
      /\ roster' = [roster EXCEPT ![s] = {}]
      /\ sock[s].phase = "closed" /\ TrackUnauthSocket(s)
      /\ frame' = None /\ UNCHANGED <<limits, rooms, copy>>
  BY DEF OpenSocket, TrackUnauthSocket
<1>2. /\ fresh \in SockType /\ fresh.room = None
  BY DEF Fresh, SockType
<1> HIDE DEF full, fresh
<1>3. Typed'
  <2>1. IpOf[s] \in Ip
    BY RelayAssumption
  <2>2. sock' \in [Socket -> SockType] /\ roster' \in [Socket -> SUBSET PeerId]
    BY <1>1, <1>2 DEF RelayInv, PlacesOK, Typed
  <2>3. unauth' \subseteq Socket /\ perIp' \in [Ip -> Nat]
    BY <1>1, <2>1 DEF RelayInv, PlacesOK, Typed
  <2> QED BY <1>1, <2>2, <2>3 DEF RelayInv, PlacesOK, Typed
<1>4. UnauthCounted'
  BY <1>1, <1>3, CountMore DEF RelayInv, PlacesOK
<1>5. SameTable
  BY <1>1, UnchangedTable DEF RelayInv
<1>6. /\ \A t \in Socket : t # s => sock'[t] = sock[t] /\ roster'[t] = roster[t]
      /\ sock'[s].room = None
  BY <1>1, <1>2 DEF RelayInv, PlacesOK, Typed
<1>7. PlacesOK' /\ Effect(s)
  BY <1>1, <1>3, <1>5, <1>6, QuietStep DEF RelayInv
<1> QED BY <1>1, <1>4, <1>7, NoFrame

\* The connection of s begins to close.
LEMMA ClosingKeeps ==
  ASSUME RelayInv, UNCHANGED copy, NEW s \in Socket, Disconnect(s) \/ AuthTimeout(s)
  PROVE  Kept
<1>1. /\ sock' = [sock EXCEPT ![s].phase = "closing"] /\ frame' = None
      /\ UNCHANGED <<limits, rooms, roster, unauth, perIp, copy>>
  BY DEF Disconnect, AuthTimeout
<1>2. /\ sock' \in [Socket -> SockType]
      /\ \A t \in Socket : t # s => sock'[t] = sock[t]
      /\ sock'[s].id = sock[s].id /\ sock'[s].room = sock[s].room /\ sock'[s].phase = "closing"
  BY <1>1 DEF RelayInv, PlacesOK, Typed, SockType
<1>3. Typed'
  BY <1>1, <1>2 DEF RelayInv, PlacesOK, Typed
<1>4. UnauthSame
  BY <1>1, <1>2 DEF UnauthSame, Open
<1>5. UnauthCounted'
  BY <1>3, <1>4, CountSame DEF RelayInv, PlacesOK
<1>6. SameTable
  BY <1>1, UnchangedTable DEF RelayInv
<1>7. PlacesOK' /\ Effect(s)
  BY <1>1, <1>2, <1>3, <1>6, QuietStep DEF RelayInv
<1> QED BY <1>1, <1>5, <1>7, NoFrame

\* A room is marked idle or active, and perhaps a frame sent.
LEMMA MarkingKeeps ==
  ASSUME RelayInv, UNCHANGED <<copy, limits, sock, roster, unauth, perIp>>,
         NEW r, NEW i \in BOOLEAN, rooms' = [rooms EXCEPT ![r].idle = i]
  PROVE  /\ PlacesOK' /\ UnauthCounted' /\ SameTable /\ \E s : Effect(s)
         /\ frame' = None => Kept
         /\ FramesFollowRoster' => Kept
<1>1. SameTable
  BY MarkedTable DEF RelayInv
<1>2. Typed'
  BY DEF RelayInv, PlacesOK, Typed
<1>3. PlacesOK' /\ Effect(None)
  BY <1>1, <1>2, QuietStep DEF RelayInv
<1>4. UnauthSame
  <2>1. \A s \in Socket : Open(s)' <=> Open(s)
    BY DEF Open
  <2> QED BY <2>1 DEF UnauthSame
<1>5. UnauthCounted'
  BY <1>2, <1>4, CountSame DEF RelayInv, PlacesOK
<1>6. frame' = None => FramesFollowRoster'
  BY DEF FramesFollowRoster
<1> QED BY <1>1, <1>3, <1>5, <1>6 DEF Kept, RelayInv

LEMMA IdleKeeps ==
  ASSUME RelayInv, UNCHANGED copy, NEW r \in RoomId, GoIdle(r)
  PROVE  Kept
<1>1. /\ rooms' = [rooms EXCEPT ![r].idle = TRUE] /\ frame' = None
      /\ UNCHANGED <<copy, limits, sock, roster, unauth, perIp>>
  BY DEF GoIdle
<1> QED BY <1>1, MarkingKeeps

LEMMA BunFramesKeep ==
  ASSUME RelayInv, UNCHANGED copy, copy = "bun", NEW s \in Socket,
         \/ HandleRelay(s) \/ HandleActivity(s)
         \/ \E p \in PeerId : HandleSignal(s, p)
  PROVE  Kept
<1> DEFINE r == sock[s].room
<1>1. /\ r # None /\ rooms' = [rooms EXCEPT ![r].idle = FALSE]
      /\ UNCHANGED <<copy, limits, sock, roster, unauth, perIp>>
  BY DEF HandleRelay, HandleActivity, HandleSignal, Touch
<1>2. Held(rooms, r, sock[s].id, s) /\ r \in DOMAIN rooms
  BY <1>1 DEF RelayInv, PlacesOK, Noted, Held
<1>3. /\ PlacesOK' /\ UnauthCounted' /\ SameTable /\ \E t : Effect(t)
      /\ frame' = None => Kept
      /\ FramesFollowRoster' => Kept
  <2> HIDE DEF r
  <2> QED BY <1>1, MarkingKeeps
<1>4. CASE HandleActivity(s)
  BY <1>3, <1>4 DEF HandleActivity
<1>5. CASE HandleRelay(s)
  <2> DEFINE to == { t \in Members(rooms[r]) : sock[t].id # sock[s].id }
  <2>1. frame' = [sender |-> s, from |-> sock[s].id, all |-> TRUE, to |-> to]
    BY <1>5 DEF HandleRelay
  <2>2. \A t : t \in Members(rooms[r]) <=> \E q : Held(rooms, r, q, t)
    BY <1>2, MembersAre
  <2>3. \A q, t : Held(rooms, r, q, t) => sock[t].id = q
    BY DEF RelayInv, PlacesOK, Noted
  <2>4. \A t : t \in to <=> t # s /\ \E q : Held(rooms, r, q, t)
    <3>1. \A t : Held(rooms, r, sock[s].id, t) => t = s
      BY <1>2, HeldAre DEF RelayInv, PlacesOK
    <3> QED BY <1>2, <2>2, <2>3, <3>1
  <2> HIDE DEF to, r
  <2>5. FramesFollowRoster'
    BY <1>1, <1>2, <1>3, <2>1, <2>4, FrameGoes DEF RelayInv
  <2> QED BY <1>3, <2>5
<1>6. ASSUME NEW p \in PeerId, HandleSignal(s, p) PROVE Kept
  <2> DEFINE to == {rooms[r].peers[p]}
  <2>1. CASE p \notin DOMAIN rooms[r].peers
    BY <1>3, <1>6, <2>1 DEF HandleSignal
  <2>2. CASE p \in DOMAIN rooms[r].peers
    <3>1. frame' = [sender |-> s, from |-> sock[s].id, all |-> FALSE, to |-> to]
      BY <1>6, <2>2 DEF HandleSignal
    <3>2. \A t \in to : Held(rooms, r, p, t)
      BY <1>2, <2>2 DEF Held
    <3> HIDE DEF to, r
    <3>3. FramesFollowRoster'
      BY <1>1, <1>2, <1>3, <3>1, <3>2, FrameGoes DEF RelayInv
    <3> QED BY <1>3, <3>3
  <2> QED BY <2>1, <2>2
<1> QED BY <1>4, <1>5, <1>6

\* The close event: the socket leaves its room and forgets everything.
LEMMA Closing ==
  ASSUME RelayInv, UNCHANGED <<copy, limits>>, NEW s \in Socket, sock[s].phase = "closing",
         LeftBehind(s, rooms', roster'), PromoteFromUnauth(s),
         sock' = [sock EXCEPT ![s] = Fresh], frame' = None
  PROVE  Kept
<1>1. /\ \A t \in Socket : t # s => sock'[t] = sock[t]
      /\ sock'[s].room = None /\ sock'[s].phase = "closed"
      /\ sock' \in [Socket -> SockType]
  <2>1. Fresh \in SockType /\ Fresh.room = None /\ Fresh.phase = "closed"
    BY DEF Fresh, SockType
  <2> QED BY <2>1 DEF RelayInv, PlacesOK, Typed
<1>2. Typed'
  BY <1>1, Promoted DEF RelayInv, PlacesOK, Typed, LeftBehind
<1>3. UnauthCounted'
  BY <1>1, <1>2, CountLess DEF RelayInv, PlacesOK
<1>4. /\ RoomsOK(rooms', limits.peers)
      /\ \A x, q, t : Held(rooms', x, q, t) <=> Held(rooms, x, q, t) /\ t # s
      /\ \A x \in DOMAIN rooms' : rooms'[x].hash = rooms[x].hash
      /\ Tells(roster', rooms')
  BY DEF LeftBehind
<1>5. ASSUME NEW x, NEW q, NEW t, Held(rooms', x, q, t)
      PROVE  /\ Held(rooms, x, q, t) /\ rooms'[x].hash = rooms[x].hash
             /\ sock'[t] = sock[t]
  <2>1. Held(rooms, x, q, t) /\ t # s /\ x \in DOMAIN rooms'
    <3>1. x \in DOMAIN rooms'
      BY <1>5 DEF Held
    <3> QED BY <1>4, <1>5, <3>1
  <2>2. t \in Socket
    BY <2>1, HeldAre DEF RelayInv, PlacesOK
  <2> QED BY <1>1, <1>4, <2>1, <2>2
<1>6. ASSUME NEW t \in Socket
      PROVE  \/ sock'[t].room = None
             \/ sock'[t].room = sock[t].room /\ sock'[t].id = sock[t].id
                /\ \A x, q : Held(rooms, x, q, t) => Held(rooms', x, q, t)
  BY <1>1, <1>4
<1>7. \A t \in Socket \ {s} : Open(t)' =>
        \A x, q : Held(rooms, x, q, t) => Held(rooms', x, q, t)
  BY <1>4
<1>8. PlacesOK' /\ Effect(s)
  BY <1>2, <1>4, <1>5, <1>6, <1>7, Shrinking DEF RelayInv
<1> QED BY <1>3, <1>8, NoFrame

LEMMA CloseKeeps ==
  ASSUME RelayInv, UNCHANGED copy, copy = "bun", NEW s \in Socket, CloseSocket(s)
  PROVE  Kept
<1>1. LeftBehind(s, LeaveRooms(s), LeaveRoster(s))
  BY BunLeaves DEF RelayInv
<1> QED BY <1>1, Closing DEF CloseSocket

\* The sweep of the idle rooms; the sockets closed name no room afterwards.
LEMMA Sweeping ==
  ASSUME RelayInv, UNCHANGED <<copy, limits, roster, unauth, perIp>>, frame' = None,
         rooms' = Swept(rooms), sock' \in [Socket -> SockType],
         \A t \in Socket :
           IF t \in SweptSockets(rooms)
           THEN /\ sock'[t].phase = "closing" /\ sock'[t].room = None
                /\ sock'[t].id = sock[t].id
           ELSE sock'[t] = sock[t]
  PROVE  Kept
<1>0. limits.peers \in Nat /\ RoomsOK(rooms, limits.peers)
  BY LimitsAre DEF RelayInv, PlacesOK
<1>1. /\ RoomsOK(rooms', limits.peers)
      /\ \A x, q, t : Held(rooms', x, q, t) <=> Held(rooms, x, q, t) /\ t \notin SweptSockets(rooms)
      /\ \A x \in DOMAIN rooms' : x \in DOMAIN rooms /\ rooms'[x] = rooms[x]
  BY <1>0, SweptRooms
<1>2. Typed'
  BY DEF RelayInv, PlacesOK, Typed
<1>3. UnauthSame
  <2>1. ASSUME NEW t \in Socket
        PROVE  /\ sock'[t].phase # "closed" \/ sock'[t] = sock[t]
               /\ sock'[t].phase = "open" => sock'[t] = sock[t]
    BY <2>1
  <2> QED BY <2>1 DEF UnauthSame, Open
<1>4. UnauthCounted'
  BY <1>2, <1>3, CountSame DEF RelayInv, PlacesOK
<1>5. ASSUME NEW x, NEW q, NEW t, Held(rooms', x, q, t)
      PROVE  /\ Held(rooms, x, q, t) /\ rooms'[x] = rooms[x]
             /\ sock'[t] = sock[t]
  <2>1. Held(rooms, x, q, t) /\ t \notin SweptSockets(rooms) /\ x \in DOMAIN rooms'
    BY <1>1, <1>5 DEF Held
  <2>2. t \in Socket
    BY <2>1, <1>0, HeldAre
  <2> QED BY <1>1, <2>1, <2>2
<1>6. ASSUME NEW t \in Socket
      PROVE  \/ sock'[t].room = None
             \/ sock'[t].room = sock[t].room /\ sock'[t].id = sock[t].id
                /\ \A x, q : Held(rooms, x, q, t) => Held(rooms', x, q, t)
  BY <1>1
<1>7. ASSUME NEW t \in Socket, Open(t)'
      PROVE  \A x, q : Held(rooms, x, q, t) => Held(rooms', x, q, t)
  BY <1>1, <1>7 DEF Open
<1>8. Tells(roster', rooms')
  <2>1. ASSUME NEW x, NEW q, NEW t, Held(rooms', x, q, t), Open(t)
        PROVE  roster'[t] = DOMAIN rooms'[x].peers \ {q}
    BY <1>5, <2>1 DEF RelayInv, PlacesOK, Tells
  <2> QED BY <2>1 DEF Tells
<1>9. PlacesOK' /\ Effect(None)
  BY <1>1, <1>2, <1>5, <1>6, <1>7, <1>8, Shrinking DEF RelayInv
<1> QED BY <1>4, <1>9, NoFrame

LEMMA CleanupKeeps ==
  ASSUME RelayInv, UNCHANGED copy, CleanupIdleRooms
  PROVE  Kept
<1> DEFINE S == SweptSockets(rooms)
<1>1. /\ sock' = CloseAll(S) /\ rooms' = Swept(rooms) /\ frame' = None
      /\ UNCHANGED <<copy, limits, roster, unauth, perIp>>
  BY DEF CleanupIdleRooms
<1> HIDE DEF S
<1>2. \A t \in Socket : [sock[t] EXCEPT !.phase = "closing", !.room = None] \in SockType
  BY DEF SockType, RelayInv, PlacesOK, Typed
<1>3. sock' \in [Socket -> SockType]
  BY <1>1, <1>2 DEF CloseAll, RelayInv, PlacesOK, Typed
<1>4. \A t \in Socket :
        IF t \in S
        THEN /\ sock'[t].phase = "closing" /\ sock'[t].room = None
             /\ sock'[t].id = sock[t].id
        ELSE sock'[t] = sock[t]
  <2>1. \A t \in Socket : sock[t] \in SockType
    BY DEF RelayInv, PlacesOK, Typed
  <2> QED BY <1>1, <2>1 DEF CloseAll, SockType
<1> QED BY <1>1, <1>3, <1>4, Sweeping DEF S

LEMMA NobodyIn ==
  ASSUME NEW h
  PROVE  /\ DOMAIN NewRoom(h).peers = {} /\ Cardinality(DOMAIN NewRoom(h).peers) = 0
         /\ Members(NewRoom(h)) = {} /\ NewRoom(h).hash = h
BY FS_EmptySet DEF NewRoom, Members

\* A socket that asks for a place has an open connection and is in none meanwhile.
LEMMA JoinKeeps ==
  ASSUME RelayInv, UNCHANGED copy, copy = "bun", NEW s \in Socket, NEW r \in RoomId,
         NEW h \in Hash, NEW p \in PeerId, HandleJoin(s, r, h, p)
  PROVE  Kept
<1> DEFINE left == LeaveRooms(s)
           gone == IF r \in DOMAIN left THEN {} ELSE SweptSockets(left)
           base == IF r \in DOMAIN left THEN left ELSE Swept(left)
           old == IF r \in DOMAIN base THEN base[r] ELSE NewRoom(h)
           ok == Admits(base, s, r, h, p)
           known == LeaveRoster(s)
           K == Members(old) \ {s}
<1>0. PlacesOK /\ UnauthCounted
  BY DEF RelayInv
<1>1. LeftBehind(s, left, known)
  BY <1>0, BunLeaves
<1>2. Cleared(left, r, base, gone)
  BY DEF Cleared
<1>3. /\ Open(s) /\ frame' = None /\ UNCHANGED <<limits, copy>>
      /\ rooms' = IF ok THEN With(base, r, Seat(old, p, s)) ELSE base
      /\ sock' = [CloseAll(gone) EXCEPT
                    ![s].room = IF ok THEN r ELSE IF Leaves(s) THEN None ELSE @,
                    ![s].id = IF ok THEN p ELSE @]
      /\ ok => PromoteFromUnauth(s)
      /\ ~ok => UNCHANGED <<unauth, perIp>>
      /\ roster' = IF ok
                   THEN [ToldJoined(known, p, K) EXCEPT ![s] = DOMAIN old.peers]
                   ELSE known
  BY DEF HandleJoin
<1>4. ~Leaves(s) => sock[s].room = None
  BY <1>0 DEF Leaves, PlacesOK, Noted, Held
<1>5. ok => /\ Cardinality(DOMAIN old.peers) < limits.peers
            /\ r \in DOMAIN base /\ p \in DOMAIN base[r].peers => base[r].peers[p] = s
  <2>1. CASE r \in DOMAIN base
    BY <2>1 DEF Admits
  <2>2. CASE r \notin DOMAIN base
    <3>1. old = NewRoom(h)
      BY <2>2
    <3> HIDE DEF old
    <3> QED BY <1>0, <2>2, <3>1, NobodyIn, LimitsAre DEF PlacesOK
  <2> QED BY <2>1, <2>2
<1>6. \A t : t \in Members(old) <=> \E q : Held(base, r, q, t)
  <2>1. CASE r \in DOMAIN base
    BY <2>1, MembersAre
  <2>2. CASE r \notin DOMAIN base
    BY <2>2, NobodyIn DEF Held
  <2> QED BY <2>1, <2>2
<1>7. old = IF r \in DOMAIN base THEN base[r] ELSE NewRoom(h)
  OBVIOUS
<1>8. K = Members(old) \ {s}
  OBVIOUS
<1> HIDE DEF left, gone, base, old, ok, known, K
<1>9. /\ \A t \in gone : t # s
      /\ \A x, q : ~Held(base, x, q, s)
      /\ RoomsOK(base, limits.peers)
  <2>1. /\ RoomsOK(base, limits.peers)
        /\ \A x, q, t : Held(base, x, q, t) <=> Held(rooms, x, q, t) /\ t # s /\ t \notin gone
        /\ \A t \in gone : t # s /\ \E x, q : Held(rooms, x, q, t)
    BY <1>0, <1>1, <1>2, Clearing
  <2> QED BY <2>1
<1>10. /\ sock' \in [Socket -> SockType]
       /\ sock'[s].phase = "open"
       /\ sock'[s].room = IF ok THEN r ELSE None
       /\ sock'[s].id = IF ok THEN p ELSE sock[s].id
       /\ \A t \in gone \cap Socket : sock'[t].phase = "closing" /\ sock'[t].room = None
       /\ \A t \in Socket : t # s /\ t \notin gone => sock'[t] = sock[t]
  <2> DEFINE closed == CloseAll(gone)
  <2>1. /\ closed \in [Socket -> SockType]
        /\ \A t \in gone \cap Socket : closed[t].phase = "closing" /\ closed[t].room = None
        /\ \A t \in Socket : t \notin gone => closed[t] = sock[t]
    BY <1>0 DEF CloseAll, PlacesOK, Typed, SockType
  <2>2. closed[s] = sock[s] /\ sock[s].phase = "open"
    BY <1>3, <1>9, <2>1 DEF Open
  <2> HIDE DEF closed
  <2>3. sock' = [closed EXCEPT ![s].room = IF ok THEN r ELSE IF Leaves(s) THEN None ELSE @,
                               ![s].id = IF ok THEN p ELSE @]
    BY <1>3 DEF closed
  <2>4. \A t \in Socket : t # s => sock'[t] = closed[t]
    BY <2>1, <2>3
  <2>5. /\ sock'[s] \in SockType /\ sock'[s].phase = closed[s].phase
        /\ sock'[s].room = IF ok THEN r ELSE IF Leaves(s) THEN None ELSE closed[s].room
        /\ sock'[s].id = IF ok THEN p ELSE closed[s].id
    <3> DEFINE c == closed[s]
               x == IF ok THEN r ELSE IF Leaves(s) THEN None ELSE c.room
               y == IF ok THEN p ELSE c.id
    <3>1. sock'[s] = [c EXCEPT !.room = x, !.id = y]
      BY <2>1, <2>3
    <3>2. c \in SockType
      BY <2>1
    <3>3. x \in RoomId \cup {None} /\ y \in PeerId \cup {None}
      BY <3>2 DEF SockType
    <3> HIDE DEF x, y, c
    <3>4. PICK u \in RoomId \cup {None}, v \in PeerId \cup {None} : u = x /\ v = y
      BY <3>3
    <3>5. sock'[s] \in SockType /\ sock'[s].phase = c.phase /\ sock'[s].room = u /\ sock'[s].id = v
      BY <3>1, <3>2, <3>4 DEF SockType
    <3> QED BY <3>4, <3>5 DEF x, y, c
  <2>6. sock' \in [Socket -> SockType]
    BY <2>1, <2>3, <2>4, <2>5
  <2> QED BY <1>4, <1>9, <2>1, <2>2, <2>4, <2>5, <2>6
<1>11. /\ \A t \in gone : sock'[t].phase = "closing" /\ sock'[t].room = None
       /\ gone \subseteq Socket
  <2>1. \A t \in gone : \E x, q : Held(rooms, x, q, t)
    BY <1>0, <1>1, <1>2, Clearing
  <2>2. gone \subseteq Socket
    BY <2>1, <1>0, HeldAre DEF PlacesOK
  <2> QED BY <1>10, <2>2
<1>12. /\ \A t \in Socket \ {s} :
            /\ sock'[t].phase # "closed" \/ sock'[t] = sock[t]
            /\ sock'[t].phase = "open" => sock'[t] = sock[t]
  BY <1>10, <1>11
<1>13. CASE ok
  <2>1. \A q : Held(base, r, p, q) => FALSE
    <3>1. ASSUME NEW q, Held(base, r, p, q) PROVE FALSE
      <4>1. q = s
        BY <1>5, <1>13, <3>1 DEF Held
      <4> QED BY <1>9, <3>1, <4>1
    <3> QED BY <3>1
  <2>2. DOMAIN old.peers = DOMAIN old.peers \ {p}
    <3>1. p \notin DOMAIN old.peers
      <4>1. CASE r \in DOMAIN base
        BY <1>7, <2>1, <4>1 DEF Held
      <4>2. CASE r \notin DOMAIN base
        BY <1>7, <4>2, NobodyIn
      <4> QED BY <4>1, <4>2
    <3> QED BY <3>1
  <2>3. \A t : t # s /\ Open(t) => (t \in K <=> \E q : q # p /\ Held(base, r, q, t))
    BY <1>6, <1>8, <2>1
  <2>4. Admitted(s, left, known, r, base, gone, h, p, old, K)
    BY <1>1, <1>2, <1>3, <1>5, <1>7, <1>10, <1>11, <1>13, <2>1, <2>2, <2>3 DEF Admitted
  <2>5. Typed'
    <3>1. roster' \in [Socket -> SUBSET PeerId]
      <4>1. DOMAIN old.peers \subseteq PeerId
        <5>1. CASE r \in DOMAIN base
          BY <1>7, <1>9, <5>1, RoomShape DEF RoomsOK
        <5>2. CASE r \notin DOMAIN base
          BY <1>7, <5>2, NobodyIn
        <5> QED BY <5>1, <5>2
      <4>2. roster' = [ToldJoined(known, p, K) EXCEPT ![s] = DOMAIN old.peers]
        BY <1>3, <1>13
      <4> QED BY <1>1, <4>1, <4>2 DEF LeftBehind, ToldJoined
    <3> QED BY <1>0, <1>3, <1>10, <1>13, <3>1, Promoted DEF PlacesOK, Typed
  <2>6. UnauthCounted'
    <3>1. sock'[s].id # None
      BY <1>10, <1>13, RelayAssumption
    <3>2. \A t \in Socket \ {s} :
            /\ sock'[t].phase # "closed" \/ sock'[t] = sock[t]
            /\ sock'[t].phase = "open" /\ sock'[t].id = None =>
                 sock[t].phase = "open" /\ sock[t].id = None
      BY <1>12
    <3>3. PromoteFromUnauth(s) /\ Typed
      BY <1>0, <1>3, <1>13 DEF PlacesOK
    <3> QED BY <1>0, <2>5, <3>1, <3>2, <3>3, CountLess
  <2>7. PlacesOK' /\ Effect(s)
    BY <1>0, <1>3, <2>4, <2>5, Admission
  <2> QED BY <1>3, <2>6, <2>7, NoFrame
<1>14. CASE ~ok
  <2>1. rooms' = base /\ roster' = known /\ sock'[s].room = None
        /\ UNCHANGED <<unauth, perIp>>
    BY <1>3, <1>10, <1>14
  <2>2. Typed'
    BY <1>0, <1>1, <1>3, <1>10, <2>1 DEF LeftBehind, PlacesOK, Typed
  <2>3. UnauthSame
    <3>1. sock'[s].phase = "open" /\ sock'[s].id = sock[s].id /\ sock[s].phase = "open"
      BY <1>3, <1>10, <1>14 DEF Open
    <3> QED BY <1>12, <2>1, <3>1 DEF UnauthSame, Open
  <2>4. UnauthCounted'
    BY <1>0, <2>2, <2>3, CountSame DEF PlacesOK
  <2>5. PlacesOK' /\ Effect(s)
    <3>1. /\ \A t \in gone : sock'[t].phase = "closing" /\ sock'[t].room = None
          /\ \A t \in Socket : t # s /\ t \notin gone => sock'[t] = sock[t]
      BY <1>10, <1>11
    <3>2. PlacesOK /\ UNCHANGED <<limits, copy>> /\ rooms' = base /\ roster' = known
          /\ sock'[s].room = None
      BY <1>0, <1>3, <2>1
    <3> QED BY <1>1, <1>2, <2>2, <3>1, <3>2, Refusal
  <2> QED BY <1>3, <2>4, <2>5, NoFrame
<1> QED BY <1>13, <1>14

LEMMA BunStep ==
  ASSUME RelayInv, UNCHANGED copy, copy = "bun", RelayNext
  PROVE  Kept
BY OpenKeeps, ClosingKeeps, CloseKeeps, BunFramesKeep, JoinKeeps, IdleKeeps, CleanupKeeps
   DEF RelayNext

-----------------------------------------------------------------------------
(* The steps of the hosted copy                                             *)

LEMMA HostedOpenKeeps ==
  ASSUME RelayInv, UNCHANGED copy, NEW s \in Socket, HostedOpen(s)
  PROVE  Kept
<1>1. OpenSocket(s)
  BY DEF HostedOpen, OpenSocket, HostedTrackUnauth, TrackUnauthSocket
<1> QED BY <1>1, OpenKeeps

LEMMA HostedTimeoutKeeps ==
  ASSUME RelayInv, UNCHANGED copy, NEW s \in Socket, HostedTimeout(s)
  PROVE  Kept
<1>1. AuthTimeout(s)
  BY DEF HostedTimeout, AuthTimeout
<1> QED BY <1>1, ClosingKeeps

LEMMA HostedCloseKeeps ==
  ASSUME RelayInv, UNCHANGED copy, NEW s \in Socket, HostedClose(s)
  PROVE  Kept
<1>1. LeftBehind(s, rooms', roster')
  BY HostedLeaves DEF RelayInv, HostedClose
<1>2. PromoteFromUnauth(s)
  BY DEF HostedClose, HostedRemoveFromUnauth, PromoteFromUnauth
<1> QED BY <1>1, <1>2, Closing DEF HostedClose

\* Which sockets are closed, with what they are when no socket notes a room.
LEMMA HostedClosed ==
  ASSUME PlacesOK, copy # "bun", NEW S
  PROVE  LET closed == HostedCloseAll(S) IN
         /\ closed \in [Socket -> SockType]
         /\ \A t \in Socket : /\ closed[t].room = None /\ closed[t].id = sock[t].id
                              /\ t \in S => closed[t].phase = "closing"
                              /\ t \notin S => closed[t] = sock[t]
<1>1. \A t \in Socket : sock[t] \in SockType /\ sock[t].room = None
  BY DEF PlacesOK, Typed, Noted
<1>2. \A t \in Socket : /\ [sock[t] EXCEPT !.phase = "closing"] \in SockType
                        /\ [sock[t] EXCEPT !.phase = "closing"].room = None
                        /\ [sock[t] EXCEPT !.phase = "closing"].id = sock[t].id
                        /\ [sock[t] EXCEPT !.phase = "closing"].phase = "closing"
  BY <1>1 DEF SockType
<1> QED BY <1>1, <1>2 DEF HostedCloseAll

LEMMA HostedCleanupKeeps ==
  ASSUME RelayInv, UNCHANGED copy, copy # "bun", HostedCleanup
  PROVE  Kept
<1> DEFINE S == SweptSockets(rooms)
<1>1. /\ sock' = HostedCloseAll(S) /\ rooms' = HostedSwept(rooms) /\ frame' = None
      /\ UNCHANGED <<copy, limits, roster, unauth, perIp>>
  BY DEF HostedCleanup
<1>2. rooms' = Swept(rooms)
  BY <1>1 DEF Swept, HostedSwept
<1> HIDE DEF S
<1>3. /\ sock' \in [Socket -> SockType]
      /\ \A t \in Socket :
           IF t \in S
           THEN /\ sock'[t].phase = "closing" /\ sock'[t].room = None
                /\ sock'[t].id = sock[t].id
           ELSE sock'[t] = sock[t]
  BY <1>1, HostedClosed DEF RelayInv
<1> QED BY <1>1, <1>2, <1>3, Sweeping DEF S

LEMMA HostedFramesKeep ==
  ASSUME RelayInv, UNCHANGED copy, NEW s \in Socket,
         \/ HostedBroadcast(s) \/ HostedActivity(s)
         \/ \E p \in PeerId : HostedSignal(s, p)
  PROVE  Kept
<1> DEFINE r == RoomOf(rooms, s)
<1>1. /\ Seated(s) /\ rooms' = [rooms EXCEPT ![r].idle = FALSE]
      /\ UNCHANGED <<copy, limits, sock, roster, unauth, perIp>>
  BY DEF HostedBroadcast, HostedActivity, HostedSignal, Touch
<1>2. Held(rooms, r, sock[s].id, s) /\ r \in DOMAIN rooms
  <2>1. PICK x, q : Held(rooms, x, q, s)
    BY <1>1, SeatedAre
  <2>2. r = x
    BY <2>1, PlaceFound DEF RelayInv, PlacesOK
  <2>3. sock[s].id = q /\ x \in DOMAIN rooms
    BY <2>1 DEF RelayInv, PlacesOK, Noted, Held
  <2> QED BY <2>1, <2>2, <2>3
<1> HIDE DEF r
<1>3. /\ PlacesOK' /\ UnauthCounted' /\ SameTable /\ \E t : Effect(t)
      /\ frame' = None => Kept
      /\ FramesFollowRoster' => Kept
  BY <1>1, MarkingKeeps
<1>4. CASE HostedActivity(s)
  BY <1>3, <1>4 DEF HostedActivity
<1>5. CASE HostedBroadcast(s)
  <2> DEFINE to == { t \in { rooms[r].peers[q] : q \in DOMAIN rooms[r].peers \ {sock[s].id} } : Open(t) }
  <2>1. frame' = [sender |-> s, from |-> sock[s].id, all |-> TRUE, to |-> to]
    BY <1>5 DEF HostedBroadcast, r
  <2>2. \A t : t \in to <=> Open(t) /\ \E q : q # sock[s].id /\ Held(rooms, r, q, t)
    BY <1>2 DEF Held
  <2>3. \A q, t : Held(rooms, r, q, t) => (t # s <=> q # sock[s].id)
    BY <1>2, HeldAre DEF RelayInv, PlacesOK
  <2> HIDE DEF to
  <2>4. \A t \in to \ {s} : Open(t) => \E q : Held(rooms, r, q, t)
    BY <2>2
  <2>5. \A t : Open(t) => (t \in to <=> t # s /\ \E q : Held(rooms, r, q, t))
    BY <2>2, <2>3
  <2>6. PlacesOK /\ SameTable /\ UNCHANGED <<limits, copy, sock, roster, unauth, perIp>>
    BY <1>1, <1>3 DEF RelayInv
  <2>7. FramesFollowRoster'
    BY <1>2, <2>1, <2>4, <2>5, <2>6, FrameGoes
  <2> QED BY <1>3, <2>7
<1>6. ASSUME NEW p \in PeerId, HostedSignal(s, p) PROVE Kept
  <2> DEFINE to == {rooms[r].peers[p]}
             sends == p \in DOMAIN rooms[r].peers /\ Open(rooms[r].peers[p])
  <2>1. CASE ~sends
    BY <1>3, <1>6, <2>1 DEF HostedSignal, r
  <2>2. CASE sends
    <3>1. frame' = [sender |-> s, from |-> sock[s].id, all |-> FALSE, to |-> to]
      BY <1>6, <2>2 DEF HostedSignal, r
    <3>2. \A t \in to : Held(rooms, r, p, t)
      BY <1>2, <2>2 DEF Held
    <3> HIDE DEF to
    <3>3. FramesFollowRoster'
      <4>1. PlacesOK /\ UNCHANGED <<limits, copy, sock, roster, unauth, perIp>> /\ SameTable
        BY <1>1, <1>3 DEF RelayInv
      <4>2. Held(rooms, r, sock[s].id, s) /\ \A t \in to \ {s} : Open(t) => \E q : Held(rooms, r, q, t)
        BY <1>2, <3>2
      <4> QED BY <3>1, <4>1, <4>2, FrameGoes
    <3> QED BY <1>3, <3>3
  <2> QED BY <2>1, <2>2
<1> QED BY <1>4, <1>5, <1>6

\* joinRoom: a new room is in the table before its peer is; the outcome is the
\* same, because a limit of peers leaves room for one.
LEMMA Entering ==
  ASSUME PlacesOK, NEW left, NEW r, NEW h, NEW s, NEW p, NEW base, NEW entered, NEW old,
         base = (IF r \in DOMAIN left THEN left ELSE Swept(left)),
         entered = HostedEntered(left, r, h),
         old = (IF r \in DOMAIN base THEN base[r] ELSE NewRoom(h)),
         \A q : ~Held(base, r, q, s)
  PROVE  /\ HostedAdmits(entered, s, r, h, p) =>
              /\ entered[r] = old
              /\ [entered EXCEPT ![r] = Seat(@, p, s)] = With(base, r, Seat(old, p, s))
              /\ Cardinality(DOMAIN old.peers) < limits.peers
              /\ \A t : Held(base, r, p, t) => ~Open(t)
         /\ ~HostedAdmits(entered, s, r, h, p) => entered = base
<1> DEFINE ok == HostedAdmits(entered, s, r, h, p)
<1>1. Swept(left) = HostedSwept(left) /\ (r \notin DOMAIN left => r \notin DOMAIN base)
  BY DEF Swept, HostedSwept, Restrict
<1>2. CASE r \in DOMAIN left
  <2>1. entered = left /\ base = left /\ old = left[r] /\ r \in DOMAIN entered
    BY <1>2 DEF HostedEntered
  <2>2. [left EXCEPT ![r] = Seat(@, p, s)] = With(left, r, Seat(left[r], p, s))
    <3> DEFINE room == Seat(left[r], p, s)
    <3>1. [left EXCEPT ![r] = Seat(@, p, s)] = [left EXCEPT ![r] = room]
      OBVIOUS
    <3> HIDE DEF room
    <3>2. DOMAIN left \cup {r} = DOMAIN left
      BY <1>2
    <3>3. With(left, r, room) = [y \in DOMAIN left |-> IF y = r THEN room ELSE left[y]]
      BY <3>2 DEF With
    <3>4. [left EXCEPT ![r] = room] = [y \in DOMAIN left |-> IF y = r THEN room ELSE left[y]]
      OBVIOUS
    <3> QED BY <3>1, <3>3, <3>4 DEF room
  <2>3. ok => \A t : Held(base, r, p, t) => ~Open(t)
    BY <2>1 DEF HostedAdmits, Held
  <2>4. ok => Cardinality(DOMAIN old.peers) < limits.peers
    BY <2>1 DEF HostedAdmits
  <2> QED BY <2>1, <2>2, <2>3, <2>4
<1>3. CASE r \notin DOMAIN left
  <2>1. base = HostedSwept(left) /\ r \notin DOMAIN base /\ old = NewRoom(h)
    BY <1>1, <1>3
  <2>2. CASE Cardinality(DOMAIN base) >= limits.rooms
    <3>1. entered = base
      BY <1>3, <2>1, <2>2 DEF HostedEntered
    <3> QED BY <2>1, <3>1 DEF HostedAdmits
  <2>3. CASE ~(Cardinality(DOMAIN base) >= limits.rooms)
    <3>1. entered = With(base, r, old)
      BY <1>3, <2>1, <2>3 DEF HostedEntered
    <3>2. r \in DOMAIN entered /\ entered[r] = old
      BY <3>1 DEF With
    <3>3. DOMAIN old.peers = {} /\ Cardinality(DOMAIN old.peers) < limits.peers /\ old.hash = h
      <4>1. Cardinality(DOMAIN old.peers) = 0 /\ DOMAIN old.peers = {} /\ old.hash = h
        BY <2>1, NobodyIn
      <4> QED BY <4>1, LimitsAre DEF PlacesOK
    <3>4. ok
      BY <3>2, <3>3 DEF HostedAdmits
    <3>5. [entered EXCEPT ![r] = Seat(@, p, s)] = With(base, r, Seat(old, p, s))
      <4> DEFINE room == Seat(old, p, s)
      <4>1. [entered EXCEPT ![r] = Seat(@, p, s)] = [entered EXCEPT ![r] = room]
        BY <3>2
      <4> HIDE DEF room
      <4>2. [entered EXCEPT ![r] = room] = [y \in DOMAIN entered |-> IF y = r THEN room ELSE entered[y]]
        OBVIOUS
      <4>3. DOMAIN entered = DOMAIN base \cup {r} /\ \A y \in DOMAIN base \ {r} : entered[y] = base[y]
        BY <3>1 DEF With
      <4>4. [y \in DOMAIN entered |-> IF y = r THEN room ELSE entered[y]]
              = [y \in DOMAIN base \cup {r} |-> IF y = r THEN room ELSE base[y]]
        BY <4>3
      <4> QED BY <4>1, <4>2, <4>4 DEF room, With
    <3>6. \A t : ~Held(base, r, p, t)
      BY <2>1 DEF Held
    <3> QED BY <3>2, <3>3, <3>4, <3>5, <3>6
  <2> QED BY <2>2, <2>3
<1> QED BY <1>2, <1>3

LEMMA HostedJoinKeeps ==
  ASSUME RelayInv, UNCHANGED copy, copy # "bun", NEW s \in Socket, NEW r \in RoomId,
         NEW h \in Hash, NEW p \in PeerId, HostedJoin(s, r, h, p)
  PROVE  Kept
<1> DEFINE left == HostedLeaveRooms(s)
           gone == IF r \in DOMAIN left THEN {} ELSE SweptSockets(left)
           base == IF r \in DOMAIN left THEN left ELSE Swept(left)
           entered == HostedEntered(left, r, h)
           old == IF r \in DOMAIN base THEN base[r] ELSE NewRoom(h)
           ok == HostedAdmits(entered, s, r, h, p)
           known == HostedLeaveRoster(s)
           others == DOMAIN entered[r].peers \ {p}
           K == { t \in { entered[r].peers[q] : q \in others } : Open(t) }
           closed == HostedCloseAll(gone)
<1>0. PlacesOK /\ UnauthCounted
  BY DEF RelayInv
<1>1. LeftBehind(s, left, known)
  BY <1>0, HostedLeaves
<1>2. Cleared(left, r, base, gone)
  BY DEF Cleared
<1>3. /\ Open(s) /\ frame' = None /\ UNCHANGED <<limits, copy>>
      /\ rooms' = IF ok THEN [entered EXCEPT ![r] = Seat(@, p, s)] ELSE entered
      /\ sock' = [closed EXCEPT ![s].id = IF ok THEN p ELSE @]
      /\ ok => PromoteFromUnauth(s)
      /\ ~ok => UNCHANGED <<unauth, perIp>>
      /\ roster' = IF ok THEN [ToldJoined(known, p, K) EXCEPT ![s] = others] ELSE known
  BY DEF HostedJoin, HostedRemoveFromUnauth, PromoteFromUnauth
<1>4. /\ old = IF r \in DOMAIN base THEN base[r] ELSE NewRoom(h)
      /\ base = IF r \in DOMAIN left THEN left ELSE Swept(left)
      /\ entered = HostedEntered(left, r, h)
  OBVIOUS
<1>5. /\ others = DOMAIN entered[r].peers \ {p}
      /\ K = { t \in { entered[r].peers[q] : q \in others } : Open(t) }
      /\ ok = HostedAdmits(entered, s, r, h, p)
  OBVIOUS
<1>6. /\ closed \in [Socket -> SockType]
      /\ \A t \in Socket : /\ closed[t].room = None /\ closed[t].id = sock[t].id
                           /\ t \in gone => closed[t].phase = "closing"
                           /\ t \notin gone => closed[t] = sock[t]
  <2> HIDE DEF gone
  <2> QED BY <1>0, HostedClosed
<1> HIDE DEF left, gone, base, entered, old, ok, known, others, K, closed
<1>7. /\ RoomsOK(base, limits.peers)
      /\ \A x, q : ~Held(base, x, q, s)
      /\ \A t \in gone : t # s /\ t \in Socket
  <2>1. /\ RoomsOK(base, limits.peers)
        /\ \A x, q, t : Held(base, x, q, t) <=> Held(rooms, x, q, t) /\ t # s /\ t \notin gone
        /\ \A t \in gone : t # s /\ \E x, q : Held(rooms, x, q, t)
    BY <1>0, <1>1, <1>2, Clearing
  <2>2. \A x, q, t : Held(rooms, x, q, t) => t \in Socket
    BY <1>0, HeldAre DEF PlacesOK
  <2> QED BY <2>1, <2>2
<1>8. /\ ok => /\ entered[r] = old
               /\ rooms' = With(base, r, Seat(old, p, s))
               /\ Cardinality(DOMAIN old.peers) < limits.peers
               /\ \A t : Held(base, r, p, t) => ~Open(t)
      /\ ~ok => rooms' = base
  <2>1. /\ ok => /\ entered[r] = old
                 /\ [entered EXCEPT ![r] = Seat(@, p, s)] = With(base, r, Seat(old, p, s))
                 /\ Cardinality(DOMAIN old.peers) < limits.peers
                 /\ \A t : Held(base, r, p, t) => ~Open(t)
        /\ ~ok => entered = base
    BY <1>0, <1>4, <1>5, <1>7, Entering
  <2> QED BY <1>3, <2>1
<1>9. /\ sock' \in [Socket -> SockType]
      /\ sock'[s].phase = "open" /\ sock'[s].room = None
      /\ sock'[s].id = IF ok THEN p ELSE sock[s].id
      /\ \A t \in gone : sock'[t].phase = "closing" /\ sock'[t].room = None
      /\ \A t \in Socket : t # s /\ t \notin gone => sock'[t] = sock[t]
  <2>1. closed[s] = sock[s] /\ sock[s].phase = "open"
    BY <1>3, <1>6, <1>7 DEF Open
  <2>2. \A t \in Socket : t # s => sock'[t] = closed[t]
    BY <1>3, <1>6
  <2>3. /\ sock'[s] \in SockType /\ sock'[s].phase = closed[s].phase
        /\ sock'[s].room = closed[s].room
        /\ sock'[s].id = IF ok THEN p ELSE closed[s].id
    <3>1. PICK y \in PeerId \cup {None} : y = IF ok THEN p ELSE closed[s].id
      BY <1>6 DEF SockType
    <3>2. sock'[s] = [closed[s] EXCEPT !.id = y]
      BY <1>3, <1>6, <3>1
    <3>3. closed[s] \in SockType
      BY <1>6
    <3> QED BY <3>1, <3>2, <3>3 DEF SockType
  <2>4. sock' \in [Socket -> SockType]
    BY <1>3, <1>6, <2>2, <2>3
  <2> QED BY <1>6, <1>7, <2>1, <2>2, <2>3, <2>4
<1>10. \A t \in Socket \ {s} :
         /\ sock'[t].phase # "closed" \/ sock'[t] = sock[t]
         /\ sock'[t].phase = "open" => sock'[t] = sock[t]
  BY <1>9
<1>11. CASE ok
  <2>1. others = DOMAIN old.peers \ {p}
    BY <1>5, <1>8, <1>11
  <2>2. \A t : t # s /\ Open(t) => (t \in K <=> \E q : q # p /\ Held(base, r, q, t))
    <3>1. \A q, t : Held(base, r, q, t) <=> q \in DOMAIN old.peers /\ old.peers[q] = t
      <4>1. CASE r \in DOMAIN base
        BY <1>4, <4>1 DEF Held
      <4>2. CASE r \notin DOMAIN base
        BY <1>4, <4>2, NobodyIn DEF Held
      <4> QED BY <4>1, <4>2
    <3> QED BY <1>5, <1>8, <1>11, <2>1, <3>1
  <2>3. Admitted(s, left, known, r, base, gone, h, p, old, K)
    <3>1. /\ LeftBehind(s, left, known) /\ Cleared(left, r, base, gone)
          /\ old = IF r \in DOMAIN base THEN base[r] ELSE NewRoom(h)
      BY <1>1, <1>2, <1>4
    <3>2. /\ Cardinality(DOMAIN old.peers) < limits.peers
          /\ \A t : Held(base, r, p, t) => copy # "bun" /\ ~Open(t)
          /\ rooms' = With(base, r, Seat(old, p, s))
      BY <1>8, <1>11
    <3>3. roster' = [ToldJoined(known, p, K) EXCEPT ![s] = DOMAIN old.peers \ {p}]
      BY <1>3, <1>11, <2>1
    <3>4. /\ sock'[s].phase = "open" /\ sock'[s].id = p
          /\ sock'[s].room = IF copy = "bun" THEN r ELSE None
          /\ \A t \in gone : sock'[t].phase = "closing" /\ sock'[t].room = None
          /\ \A t \in Socket : t # s /\ t \notin gone => sock'[t] = sock[t]
      BY <1>9, <1>11
    <3> QED BY <2>2, <3>1, <3>2, <3>3, <3>4 DEF Admitted
  <2>4. Typed'
    <3>1. roster' \in [Socket -> SUBSET PeerId]
      <4>1. DOMAIN old.peers \subseteq PeerId
        <5>1. CASE r \in DOMAIN base
          BY <1>4, <1>7, <5>1, RoomShape DEF RoomsOK
        <5>2. CASE r \notin DOMAIN base
          BY <1>4, <5>2, NobodyIn
        <5> QED BY <5>1, <5>2
      <4>2. roster' = [ToldJoined(known, p, K) EXCEPT ![s] = others]
        BY <1>3, <1>11
      <4> QED BY <1>1, <2>1, <4>1, <4>2 DEF LeftBehind, ToldJoined
    <3> QED BY <1>0, <1>3, <1>9, <1>11, <3>1, Promoted DEF PlacesOK, Typed
  <2>5. UnauthCounted'
    <3>1. sock'[s].id # None
      BY <1>9, <1>11, RelayAssumption
    <3>2. \A t \in Socket \ {s} :
            /\ sock'[t].phase # "closed" \/ sock'[t] = sock[t]
            /\ sock'[t].phase = "open" /\ sock'[t].id = None =>
                 sock[t].phase = "open" /\ sock[t].id = None
      BY <1>10
    <3>3. PromoteFromUnauth(s) /\ Typed
      BY <1>0, <1>3, <1>11 DEF PlacesOK
    <3> QED BY <1>0, <2>4, <3>1, <3>2, <3>3, CountLess
  <2>6. PlacesOK' /\ Effect(s)
    BY <1>0, <1>3, <2>3, <2>4, Admission
  <2> QED BY <1>3, <2>5, <2>6, NoFrame
<1>12. CASE ~ok
  <2>1. rooms' = base /\ roster' = known /\ UNCHANGED <<unauth, perIp>>
    BY <1>3, <1>8, <1>12
  <2>2. Typed'
    BY <1>0, <1>1, <1>3, <1>9, <2>1 DEF LeftBehind, PlacesOK, Typed
  <2>3. UnauthSame
    <3>1. sock'[s].phase = "open" /\ sock'[s].id = sock[s].id /\ sock[s].phase = "open"
      BY <1>3, <1>9, <1>12 DEF Open
    <3> QED BY <1>10, <2>1, <3>1 DEF UnauthSame, Open
  <2>4. UnauthCounted'
    BY <1>0, <2>2, <2>3, CountSame DEF PlacesOK
  <2>5. PlacesOK' /\ Effect(s)
    BY <1>0, <1>1, <1>2, <1>3, <1>9, <2>1, <2>2, Refusal
  <2> QED BY <1>3, <2>4, <2>5, NoFrame
<1> QED BY <1>11, <1>12

LEMMA HostedStep ==
  ASSUME RelayInv, UNCHANGED copy, copy # "bun", HostedNext
  PROVE  Kept
<1>1. ASSUME NEW s \in Socket, Disconnect(s) PROVE Kept
  BY <1>1, ClosingKeeps
<1> QED BY <1>1, HostedOpenKeeps, HostedTimeoutKeeps, HostedCloseKeeps, HostedFramesKeep,
           HostedJoinKeeps, IdleKeeps, HostedCleanupKeeps
        DEF HostedNext

-----------------------------------------------------------------------------
(* The peers that the health endpoint counts                                *)

PeersIn(rs) == [r \in DOMAIN rs |-> Cardinality(DOMAIN rs[r].peers)]
AnyRoom(rs) == [R \in SUBSET DOMAIN rs |-> CHOOSE r \in R : TRUE]
\* The sockets with a place in one of the rooms R.
SocketsIn(rs, R) == UNION { Members(rs[r]) : r \in R }

LEMMA MembersCount ==
  ASSUME NEW rs, NEW n, RoomsOK(rs, n), NEW r \in DOMAIN rs
  PROVE  /\ IsFiniteSet(Members(rs[r]))
         /\ Cardinality(Members(rs[r])) = Cardinality(DOMAIN rs[r].peers)
<1> DEFINE D == DOMAIN rs[r].peers
           M == Members(rs[r])
           f == [p \in D |-> rs[r].peers[p]]
<1>1. /\ f \in [D -> M] /\ \A p, q \in D : f[p] = f[q] => p = q
      /\ \A s \in M : \E p \in D : f[p] = s
  BY DEF Members, RoomsOK
<1>2. IsFiniteSet(D)
  BY DEF RoomsOK
<1> HIDE DEF D, M, f
<1>3. f \in Bijection(D, M)
  BY <1>1 DEF Bijection, Injection, Surjection, IsInjective
<1>4. ExistsBijection(D, M)
  BY <1>3 DEF ExistsBijection
<1> QED BY <1>2, <1>4, FS_Bijection DEF D, M

LEMMA PeersSummable ==
  ASSUME NEW rs, NEW n, RoomsOK(rs, n)
  PROVE  /\ Summable(PeersIn(rs), AnyRoom(rs), DOMAIN rs)
         /\ \A r \in DOMAIN rs : PeersIn(rs)[r] = Cardinality(DOMAIN rs[r].peers)
<1>1. \A r \in DOMAIN rs : PeersIn(rs)[r] = Cardinality(DOMAIN rs[r].peers)
  BY DEF PeersIn
<1>2. \A r \in DOMAIN rs : Cardinality(DOMAIN rs[r].peers) \in Nat
  BY FS_CardinalityType DEF RoomsOK
<1>3. \A R \in SUBSET DOMAIN rs : R # {} => AnyRoom(rs)[R] \in R
  BY DEF AnyRoom
<1>4. IsFiniteSet(DOMAIN rs)
  BY DEF RoomsOK
<1> HIDE DEF RoomsOK
<1> QED BY <1>1, <1>2, <1>3, <1>4 DEF Summable, Picks

LEMMA PeersTotal ==
  ASSUME NEW rs, NEW n, RoomsOK(rs, n), NEW R \in SUBSET DOMAIN rs
  PROVE  Total(PeersIn(rs), AnyRoom(rs), R) = Cardinality(SocketsIn(rs, R))
         /\ IsFiniteSet(SocketsIn(rs, R))
<1> DEFINE D == DOMAIN rs
           T(U) == Total(PeersIn(rs), AnyRoom(rs), U)
           S(U) == SocketsIn(rs, U)
           Bad == { U \in SUBSET D : ~(T(U) = Cardinality(S(U)) /\ IsFiniteSet(S(U))) }
<1>0. /\ IsFiniteSet(D) /\ Summable(PeersIn(rs), AnyRoom(rs), D)
      /\ \A U \in SUBSET D : Summable(PeersIn(rs), AnyRoom(rs), U)
  BY PeersSummable, SummableSubset DEF Summable
<1>1. ASSUME Bad # {} PROVE FALSE
  <2>1. PICK U \in Bad : \A V \in Bad : V \subseteq U => V = U
    <3> HIDE DEF Bad
    <3>1. Bad \in SUBSET (SUBSET D)
      BY DEF Bad
    <3> QED BY <1>0, <1>1, <3>1, Smallest
  <2>2. U # {}
    <3>1. S({}) = {}
      BY DEF SocketsIn
    <3>2. T({}) = 0
      BY TotalEmpty
    <3> QED BY <2>1, <3>1, <3>2, FS_EmptySet
  <2>3. PICK r \in U : TRUE
    BY <2>2
  <2> DEFINE V == U \ {r}
             M == Members(rs[r])
  <2>4. V \in SUBSET D /\ V \subseteq U /\ V # U /\ U \in SUBSET D /\ r \in D
    BY <2>1, <2>3
  <2>5. T(V) = Cardinality(S(V)) /\ IsFiniteSet(S(V))
    BY <2>1, <2>4
  <2>6. S(U) = S(V) \cup M /\ S(V) \cap M = {}
    <3>1. \A x, y \in D : \A s : s \in Members(rs[x]) /\ s \in Members(rs[y]) => x = y
      BY DEF RoomsOK, Members
    <3>2. \A x \in V : x \in D /\ x # r
      BY <2>4
    <3> QED BY <2>3, <2>4, <3>1, <3>2 DEF SocketsIn
  <2>7. IsFiniteSet(M) /\ Cardinality(M) = PeersIn(rs)[r]
    BY <2>4, MembersCount, PeersSummable
  <2>8. T(U) = T(V) + PeersIn(rs)[r]
    <3> HIDE DEF V
    <3>1. Summable(PeersIn(rs), AnyRoom(rs), U) /\ r \in U
      BY <1>0, <2>4
    <3> QED BY <3>1, TotalRemove DEF V
  <2> HIDE DEF T, S, V, M
  <2>9. IsFiniteSet(S(U)) /\ Cardinality(S(U)) = Cardinality(S(V)) + Cardinality(M)
    <3>1. IsFiniteSet(S(V) \cup M) /\ Cardinality(S(V) \cup M) = Cardinality(S(V)) + Cardinality(M) - 0
      BY <2>5, <2>6, <2>7, FS_Union, FS_EmptySet
    <3> QED BY <2>5, <2>6, <2>7, <3>1, FS_CardinalityType
  <2> QED BY <2>1, <2>5, <2>7, <2>8, <2>9
<1> QED BY <1>1

LEMMA HealthCounts ==
  ASSUME NEW n, RoomsOK(rooms, n)
  PROVE  PeerCount = Cardinality({ s \in Socket : InRoom(s) # {} })
<1> DEFINE D == DOMAIN rooms
           any(R) == CHOOSE r \in R : TRUE
           Folds(it) == it = [R \in SUBSET D |->
             IF R = {} THEN 0 ELSE Cardinality(DOMAIN rooms[any(R)].peers) + it[R \ {any(R)}]]
<1>1. PeerCount = (CHOOSE it : Folds(it))[D]
  BY DEF PeerCount
<1>2. ASSUME NEW R \in SUBSET D, R # {}
      PROVE  /\ AnyRoom(rooms)[R] = any(R)
             /\ PeersIn(rooms)[any(R)] = Cardinality(DOMAIN rooms[any(R)].peers)
  <2>1. any(R) \in D
    BY <1>2
  <2> QED BY <2>1 DEF AnyRoom, PeersIn
<1>3. ASSUME NEW it PROVE Folds(it) <=> IteratesFront(it, PeersIn(rooms), AnyRoom(rooms), D)
  <2> HIDE DEF any
  <2>1. [R \in SUBSET D |-> IF R = {} THEN 0
                            ELSE Cardinality(DOMAIN rooms[any(R)].peers) + it[R \ {any(R)}]]
        = [R \in SUBSET D |-> IF R = {} THEN 0
                              ELSE PeersIn(rooms)[AnyRoom(rooms)[R]] + it[R \ {AnyRoom(rooms)[R]}]]
    BY <1>2
  <2> QED BY <2>1 DEF IteratesFront
<1> HIDE DEF Folds
<1>4. (CHOOSE it : Folds(it)) = (CHOOSE it : IteratesFront(it, PeersIn(rooms), AnyRoom(rooms), D))
  BY <1>3
<1>5. PeerCount = Total(PeersIn(rooms), AnyRoom(rooms), D)
  BY <1>1, <1>4, FrontTotal, PeersSummable
<1>6. Total(PeersIn(rooms), AnyRoom(rooms), D) = Cardinality(SocketsIn(rooms, D))
  <2>1. D \in SUBSET DOMAIN rooms
    OBVIOUS
  <2> QED BY <2>1, PeersTotal
<1>7. SocketsIn(rooms, D) = { s \in Socket : InRoom(s) # {} }
  <2>1. \A s : s \in SocketsIn(rooms, D) <=> \E r \in D : s \in Members(rooms[r])
    BY DEF SocketsIn
  <2>2. \A s : s \in SocketsIn(rooms, D) <=> InRoom(s) # {}
    BY <2>1 DEF InRoom
  <2>3. \A r \in D : Members(rooms[r]) \subseteq Socket
    BY RoomShape DEF Members, RoomsOK
  <2> QED BY <2>1, <2>2, <2>3
<1> QED BY <1>5, <1>6, <1>7

-----------------------------------------------------------------------------
LEMMA CopiesInitHolds == CopiesInit => RelayInv
<1> SUFFICES ASSUME CopiesInit PROVE RelayInv
  OBVIOUS
<1>1. /\ limits \in Limits /\ rooms = [r \in {} |-> None] /\ copy \in {"bun", "deno"}
      /\ sock = [s \in Socket |-> Fresh] /\ roster = [s \in Socket |-> {}]
      /\ unauth = {} /\ perIp = [i \in Ip |-> 0] /\ frame = None
  BY DEF CopiesInit, RelayInit
<1>2. Typed
  BY <1>1 DEF Typed, Fresh, SockType
<1>3. RoomsOK(rooms, limits.peers) /\ \A r, p, s : ~Held(rooms, r, p, s)
  BY <1>1, FS_EmptySet DEF RoomsOK, Held
<1>4. Noted /\ Tells(roster, rooms)
  BY <1>1, <1>3 DEF Noted, Tells, Fresh
<1>5. UnauthCounted
  <2>1. \A i \in Ip : { s \in unauth : IpOf[s] = i } = {}
    BY <1>1
  <2>2. \A i \in Ip : perIp[i] = Cardinality({ s \in unauth : IpOf[s] = i })
    BY <1>1, <2>1, FS_EmptySet
  <2>3. \A s \in Socket : ~Open(s)
    BY <1>1 DEF Open, Fresh
  <2> QED BY <1>1, <2>2, <2>3, FS_EmptySet DEF UnauthCounted, UnauthTracked
<1> QED BY <1>1, <1>2, <1>3, <1>4, <1>5 DEF RelayInv, PlacesOK, FramesFollowRoster

LEMMA CopiesStep ==
  ASSUME RelayInv, [CopiesNext]_copiesVars
  PROVE  RelayInv' /\ (UNCHANGED copiesVars \/ \E s : Effect(s))
<1>1. CASE UNCHANGED copiesVars
  <2> USE <1>1 DEF copiesVars, relayVars
  <2>1. Typed' /\ RoomsOK(rooms', limits'.peers)
    BY DEF RelayInv, PlacesOK, Typed
  <2>2. Noted' /\ Tells(roster, rooms)'
    BY DEF RelayInv, PlacesOK, Noted, Tells, Held, Open
  <2>3. UnauthCounted'
    BY DEF RelayInv, UnauthCounted, UnauthTracked, Open
  <2>4. FramesFollowRoster'
    BY DEF RelayInv, FramesFollowRoster, Open, InRoom
  <2>5. RoomsOK(rooms, limits.peers)'
    BY <2>1 DEF RoomsOK
  <2> QED BY <1>1, <2>1, <2>2, <2>3, <2>4, <2>5 DEF RelayInv, PlacesOK
<1>2. CASE CopiesNext
  <2>1. UNCHANGED copy
    BY <1>2 DEF CopiesNext
  <2>2. CASE copy = "bun" /\ RelayNext
    BY <2>1, <2>2, BunStep DEF Kept
  <2>3. CASE copy = "deno" /\ HostedNext
    BY <2>1, <2>3, HostedStep DEF Kept
  <2> QED BY <1>2, <2>2, <2>3 DEF CopiesNext
<1> QED BY <1>1, <1>2

\* Whichever copy runs and however joins, leaves, broken connections and sweeps
\* follow each other, the messages peer-joined and peer-left of rooms.ts and of
\* leaveRoom and joinRoom add up for every client that is in a room.
THEOREM RostersExact == CopiesSpec => []RosterExact
<1>1. RelayInv => RosterExact
  <2> SUFFICES ASSUME RelayInv PROVE RosterExact
    OBVIOUS
  <2>1. ASSUME NEW r \in DOMAIN rooms, NEW p \in DOMAIN rooms[r].peers, Open(rooms[r].peers[p])
        PROVE  roster[rooms[r].peers[p]] = DOMAIN rooms[r].peers \ {p}
    <3>1. Held(rooms, r, p, rooms[r].peers[p])
      BY DEF Held
    <3> QED BY <2>1, <3>1 DEF RelayInv, PlacesOK, Tells
  <2> QED BY <2>1 DEF RosterExact, RelayInv
<1> QED BY <1>1, CopiesInitHolds, CopiesStep, PTL DEF CopiesSpec

\* The records of a socket in the room table, in its own fields and among the
\* sockets that have not joined agree, and the health endpoint counts right.
THEOREM SocketsAreAccounted == CopiesSpec => []SocketsAccounted
<1>1. RelayInv => SocketsAccounted
  <2> SUFFICES ASSUME RelayInv PROVE SocketsAccounted
    OBVIOUS
  <2>1. RelayTypeOK
    BY DEF RelayTypeOK, RelayInv, PlacesOK, Typed, RoomsOK
  <2>2. ASSUME NEW r \in DOMAIN rooms, NEW p \in DOMAIN rooms[r].peers
        PROVE  LET s == rooms[r].peers[p]
               IN  /\ sock[s].phase # "closed" /\ sock[s].id = p
                   /\ copy = "bun" => sock[s].room = r
    <3>1. Held(rooms, r, p, rooms[r].peers[p])
      BY DEF Held
    <3> QED BY <3>1 DEF RelayInv, PlacesOK, Noted
  <2>3. ASSUME NEW s \in Socket, sock[s].room # None
        PROVE  InRoom(s) = {sock[s].room}
    <3>1. Held(rooms, sock[s].room, sock[s].id, s)
      BY <2>3 DEF RelayInv, PlacesOK, Noted
    <3>2. \A r : r \in InRoom(s) <=> \E p : Held(rooms, r, p, s)
      BY SeatedAre
    <3>3. \A r, p : Held(rooms, r, p, s) => r = sock[s].room
      BY <3>1, HeldAre DEF RelayInv, PlacesOK
    <3> QED BY <3>1, <3>2, <3>3
  <2>4. Health.peers = Cardinality({ s \in Socket : InRoom(s) # {} })
    BY HealthCounts DEF Health, RelayInv, PlacesOK
  <2>5. \A r \in DOMAIN rooms : DOMAIN rooms[r].peers # {}
    BY DEF RelayInv, PlacesOK, RoomsOK
  <2>6. Membership
    BY <2>2, <2>3, <2>4, <2>5 DEF Membership
  <2> QED BY <2>1, <2>6 DEF SocketsAccounted, RelayInv, UnauthCounted
<1> QED BY <1>1, CopiesInitHolds, CopiesStep, PTL DEF CopiesSpec

-----------------------------------------------------------------------------
(* The rooms of either copy implement Rooms                                 *)

\* The place the table rs gives a socket.
PlaceIn(rs, s) ==
  IF { r \in DOMAIN rs : s \in Members(rs[r]) } = {} THEN None
  ELSE LET r == RoomOf(rs, s) IN <<r, IdIn(rs[r], s)>>
SecretIn(rs, r) == IF r \in DOMAIN rs THEN rs[r].hash ELSE None
\* Who is in a room.
Inside(rs, r) == { s \in Socket : PlaceIn(rs, s) # None /\ PlaceIn(rs, s)[1] = r }

LEMMA PlaceIs ==
  ASSUME NEW rs, NEW n, RoomsOK(rs, n), NEW s
  PROVE  /\ \A r, p : Held(rs, r, p, s) <=> r \in RoomId /\ p \in PeerId /\ PlaceIn(rs, s) = <<r, p>>
         /\ PlaceIn(rs, s) = None <=> \A r, p : ~Held(rs, r, p, s)
<1>1. \A r : (r \in DOMAIN rs /\ s \in Members(rs[r])) <=> \E p : Held(rs, r, p, s)
  BY MembersAre DEF Held
<1>2. \A r, p : Held(rs, r, p, s) => PlaceIn(rs, s) = <<r, p>> /\ r \in RoomId /\ p \in PeerId
  <2> SUFFICES ASSUME NEW r, NEW p, Held(rs, r, p, s)
               PROVE PlaceIn(rs, s) = <<r, p>> /\ r \in RoomId /\ p \in PeerId
    OBVIOUS
  <2>1. { x \in DOMAIN rs : s \in Members(rs[x]) } # {}
    BY <1>1
  <2>2. RoomOf(rs, s) = r /\ IdIn(rs[r], s) = p
    BY PlaceFound
  <2> QED BY <2>1, <2>2, HeldAre DEF PlaceIn
<1>3. (\A r, p : ~Held(rs, r, p, s)) => PlaceIn(rs, s) = None
  BY <1>1 DEF PlaceIn
<1>4. \A r \in RoomId, p \in PeerId : <<r, p>> # None
  BY RelayAssumption
<1>5. ASSUME NEW r \in RoomId, NEW p \in PeerId, PlaceIn(rs, s) = <<r, p>>
      PROVE  Held(rs, r, p, s)
  <2>1. PICK x, q : Held(rs, x, q, s)
    BY <1>3, <1>4, <1>5
  <2>2. <<x, q>> = <<r, p>>
    BY <1>2, <1>5, <2>1
  <2>3. x = r /\ q = p
    BY <2>2
  <2> QED BY <2>1, <2>3
<1>6. ASSUME PlaceIn(rs, s) = None PROVE \A r, p : ~Held(rs, r, p, s)
  BY <1>2, <1>4, <1>6
<1> QED BY <1>2, <1>3, <1>5, <1>6

LEMMA InsideIs ==
  ASSUME NEW rs, NEW n, RoomsOK(rs, n), NEW r \in RoomId
  PROVE  /\ \A s : s \in Inside(rs, r) <=> \E p : Held(rs, r, p, s)
         /\ IsFiniteSet(Inside(rs, r))
         /\ r \in DOMAIN rs => /\ Inside(rs, r) # {} /\ SecretIn(rs, r) # None
                               /\ Cardinality(Inside(rs, r)) <= n
         /\ r \notin DOMAIN rs => Inside(rs, r) = {} /\ SecretIn(rs, r) = None
<1>1. ASSUME NEW s PROVE s \in Inside(rs, r) <=> \E p : Held(rs, r, p, s)
  <2>1. ASSUME s \in Inside(rs, r) PROVE \E p : Held(rs, r, p, s)
    <3>1. PlaceIn(rs, s) # None /\ PlaceIn(rs, s)[1] = r
      BY <2>1 DEF Inside
    <3>2. PICK x, q : Held(rs, x, q, s)
      BY <3>1, PlaceIs
    <3>3. PlaceIn(rs, s) = <<x, q>>
      BY <3>2, PlaceIs
    <3> QED BY <3>1, <3>2, <3>3
  <2>2. ASSUME NEW p, Held(rs, r, p, s) PROVE s \in Inside(rs, r)
    <3>1. PlaceIn(rs, s) = <<r, p>> /\ PlaceIn(rs, s) # None /\ s \in Socket
      BY <2>2, PlaceIs, HeldAre
    <3> QED BY <3>1 DEF Inside
  <2> QED BY <2>1, <2>2
<1>2. CASE r \in DOMAIN rs
  <2>1. Inside(rs, r) = Members(rs[r])
    BY <1>1, <1>2, MembersAre
  <2>2. /\ IsFiniteSet(Members(rs[r]))
        /\ Cardinality(Members(rs[r])) = Cardinality(DOMAIN rs[r].peers)
        /\ Cardinality(DOMAIN rs[r].peers) <= n
    BY <1>2, MembersCount DEF RoomsOK
  <2>3. Members(rs[r]) # {}
    <3>1. PICK p \in DOMAIN rs[r].peers : TRUE
      BY <1>2 DEF RoomsOK
    <3>2. rs[r].peers[p] \in Members(rs[r])
      BY <3>1 DEF Members
    <3> QED BY <3>2
  <2>4. rs[r].hash # None
    BY <1>2, RoomShape, RelayAssumption DEF RoomsOK
  <2> QED BY <1>1, <1>2, <2>1, <2>2, <2>3, <2>4 DEF SecretIn
<1>3. CASE r \notin DOMAIN rs
  <2>1. \A s : s \notin Inside(rs, r)
    BY <1>1, <1>3 DEF Held
  <2>2. Inside(rs, r) = {}
    BY <2>1
  <2> QED BY <1>1, <1>3, <2>2, FS_EmptySet DEF SecretIn
<1> QED BY <1>2, <1>3

LEMMA AtMostOne ==
  ASSUME NEW S, NEW s, S \subseteq {s}
  PROVE  IsFiniteSet(S) /\ Cardinality(S) \in {0, 1}
<1>1. CASE S = {}
  BY <1>1, FS_EmptySet
<1>2. CASE S = {s}
  BY <1>2, FS_Singleton
<1> QED BY <1>1, <1>2

LEMMA EffectImplements ==
  ASSUME RelayInv, RelayInv', NEW s, Effect(s)
  PROVE  LET open == { t \in Socket : Open(t)' } IN
         /\ Cardinality({ t \in open : PlaceIn(rooms', t) # PlaceIn(rooms, t) }) <= 1
         /\ \A t \in Socket \ open : PlaceIn(rooms', t) \in {PlaceIn(rooms, t), None}
         /\ \A t, u \in Socket : t # u /\ PlaceIn(rooms', t) # None
              => PlaceIn(rooms', t) # PlaceIn(rooms', u)
         /\ \A r \in RoomId :
              /\ SecretIn(rooms', r) # None <=> Inside(rooms', r) # {}
              /\ Cardinality(Inside(rooms, r) \cap Inside(rooms', r)) > 1
                   => SecretIn(rooms', r) = SecretIn(rooms, r)
              /\ Cardinality(Inside(rooms', r)) <= limits.peers
<1> DEFINE open == { t \in Socket : Open(t)' }
<1>1. /\ RoomsOK(rooms, limits.peers) /\ RoomsOK(rooms', limits.peers)
      /\ limits.peers \in Nat
  <2>1. RoomsOK(rooms', limits'.peers)
    BY DEF RelayInv, PlacesOK
  <2> QED BY <2>1, LimitsAre DEF RelayInv, PlacesOK, Effect
<1>2. ASSUME NEW t, \A x, q : Held(rooms', x, q, t) <=> Held(rooms, x, q, t)
      PROVE  PlaceIn(rooms', t) = PlaceIn(rooms, t)
  <2>1. CASE \A x, q : ~Held(rooms, x, q, t)
    <3>1. \A x, q : ~Held(rooms', x, q, t)
      BY <1>2, <2>1
    <3> QED BY <1>1, <2>1, <3>1, PlaceIs
  <2>2. ASSUME NEW x, NEW q, Held(rooms, x, q, t) PROVE PlaceIn(rooms', t) = PlaceIn(rooms, t)
    <3>1. Held(rooms', x, q, t)
      BY <1>2, <2>2
    <3>2. PlaceIn(rooms', t) = <<x, q>>
      BY <1>1, <3>1, PlaceIs
    <3>3. PlaceIn(rooms, t) = <<x, q>>
      BY <1>1, <2>2, PlaceIs
    <3> QED BY <3>2, <3>3
  <2> QED BY <2>1, <2>2
<1>3. Cardinality({ t \in open : PlaceIn(rooms', t) # PlaceIn(rooms, t) }) <= 1
  <2>1. \A t \in open : t # s => PlaceIn(rooms', t) = PlaceIn(rooms, t)
    BY <1>2 DEF Effect
  <2>2. { t \in open : PlaceIn(rooms', t) # PlaceIn(rooms, t) } \subseteq {s}
    BY <2>1
  <2> HIDE DEF open
  <2> QED BY <2>2, AtMostOne
<1>4. ASSUME NEW t \in Socket \ open
      PROVE  PlaceIn(rooms', t) \in {PlaceIn(rooms, t), None}
  <2>1. \A x, q : Held(rooms', x, q, t) => Held(rooms, x, q, t)
    BY <1>4 DEF Effect
  <2>2. CASE \A x, q : ~Held(rooms', x, q, t)
    BY <1>1, <2>2, PlaceIs
  <2>3. ASSUME NEW x, NEW q, Held(rooms', x, q, t) PROVE PlaceIn(rooms', t) = PlaceIn(rooms, t)
    <3>1. PlaceIn(rooms', t) = <<x, q>>
      BY <1>1, <2>3, PlaceIs
    <3>2. PlaceIn(rooms, t) = <<x, q>>
      BY <1>1, <2>1, <2>3, PlaceIs
    <3> QED BY <3>1, <3>2
  <2> QED BY <2>2, <2>3
<1>5. ASSUME NEW t \in Socket, NEW u \in Socket, t # u, PlaceIn(rooms', t) # None,
             PlaceIn(rooms', t) = PlaceIn(rooms', u)
      PROVE  FALSE
  <2>1. PICK x, q : Held(rooms', x, q, t)
    BY <1>1, <1>5, PlaceIs
  <2>2. x \in RoomId /\ q \in PeerId /\ PlaceIn(rooms', u) = <<x, q>>
    BY <1>1, <1>5, <2>1, PlaceIs
  <2>3. Held(rooms', x, q, u)
    BY <1>1, <2>2, PlaceIs
  <2> QED BY <1>1, <1>5, <2>1, <2>3, HeldAre
<1>6. ASSUME NEW r \in RoomId
      PROVE  /\ SecretIn(rooms', r) # None <=> Inside(rooms', r) # {}
             /\ Cardinality(Inside(rooms', r)) <= limits.peers
  <2>1. CASE r \in DOMAIN rooms'
    BY <1>1, <2>1, InsideIs
  <2>2. CASE r \notin DOMAIN rooms'
    BY <1>1, <2>2, InsideIs, FS_EmptySet
  <2> QED BY <2>1, <2>2
<1>7. ASSUME NEW r \in RoomId, Cardinality(Inside(rooms, r) \cap Inside(rooms', r)) > 1
      PROVE  SecretIn(rooms', r) = SecretIn(rooms, r)
  <2>1. PICK t \in Inside(rooms, r) \cap Inside(rooms', r) : t # s
    <3> DEFINE both == Inside(rooms, r) \cap Inside(rooms', r)
    <3>1. ~(both \subseteq {s})
      <4> HIDE DEF both
      <4>1. ASSUME both \subseteq {s} PROVE FALSE
        <5>1. Cardinality(both) \in {0, 1}
          BY <4>1, AtMostOne
        <5> QED BY <1>7, <5>1 DEF both
      <4> QED BY <4>1
    <3> QED BY <3>1
  <2>2. PICK p : Held(rooms, r, p, t)
    BY <1>1, <2>1, InsideIs
  <2>3. PICK q : Held(rooms', r, q, t)
    BY <1>1, <2>1, InsideIs
  <2>4. rooms'[r].hash = rooms[r].hash
    BY <2>1, <2>2, <2>3 DEF Effect
  <2> QED BY <2>2, <2>3, <2>4 DEF Held, SecretIn
<1> QED BY <1>3, <1>4, <1>5, <1>6, <1>7

\* What Rooms sees of a step of the relay.
LEMMA RoomsSee ==
  /\ \A s \in Socket : Place(s) = PlaceIn(rooms, s)
  /\ \A r \in RoomId : AbstractRooms!In(r) = Inside(rooms, r)
  /\ \A S : AbstractRooms!Cardinality(S) = Cardinality(S)
<1>1. \A s : Place(s) = PlaceIn(rooms, s)
  BY DEF Place, PlaceIn, InRoom
<1>2. ASSUME NEW r \in RoomId PROVE AbstractRooms!In(r) = Inside(rooms, r)
  BY <1>1 DEF AbstractRooms!In, Inside
<1>3. \A S : AbstractRooms!Cardinality(S) = Cardinality(S)
  BY DEF AbstractRooms!Cardinality, Cardinality
<1> QED BY <1>1, <1>2, <1>3

LEMMA RoomsBegin == CopiesInit => AbstractRooms!Init
<1> SUFFICES ASSUME CopiesInit PROVE AbstractRooms!Init
  OBVIOUS
<1>1. DOMAIN rooms = {}
  BY DEF CopiesInit, RelayInit
<1>2. \A s \in Socket : Place(s) = None
  BY <1>1 DEF Place, InRoom
<1>3. { s \in Socket : Open(s) } = {}
  BY DEF CopiesInit, RelayInit, Open, Fresh
<1> QED BY <1>1, <1>2, <1>3 DEF AbstractRooms!Init

LEMMA RoomsGoOn ==
  ASSUME RelayInv, RelayInv', NEW s, Effect(s)
  PROVE  AbstractRooms!Next
<1> DEFINE open == { t \in Socket : Open(t)' }
<1>1. /\ Cardinality({ t \in open : PlaceIn(rooms', t) # PlaceIn(rooms, t) }) <= 1
      /\ \A t \in Socket \ open : PlaceIn(rooms', t) \in {PlaceIn(rooms, t), None}
      /\ \A t, u \in Socket : t # u /\ PlaceIn(rooms', t) # None
           => PlaceIn(rooms', t) # PlaceIn(rooms', u)
      /\ \A r \in RoomId :
           /\ SecretIn(rooms', r) # None <=> Inside(rooms', r) # {}
           /\ Cardinality(Inside(rooms, r) \cap Inside(rooms', r)) > 1
                => SecretIn(rooms', r) = SecretIn(rooms, r)
           /\ Cardinality(Inside(rooms', r)) <= limits.peers
  BY EffectImplements
<1>2. /\ \A t \in Socket : Place(t) = PlaceIn(rooms, t) /\ Place(t)' = PlaceIn(rooms', t)
      /\ \A r \in RoomId : /\ AbstractRooms!In(r) = Inside(rooms, r)
                            /\ AbstractRooms!In(r)' = Inside(rooms', r)
  <2>1. \A t \in Socket : Place(t)' = PlaceIn(rooms', t)
    BY DEF Place, PlaceIn, InRoom
  <2>2. \A r \in RoomId : AbstractRooms!In(r)' = Inside(rooms', r)
    BY <2>1 DEF AbstractRooms!In, Inside
  <2> QED BY <2>1, <2>2, RoomsSee
<1>3. limits'.peers = limits.peers
  BY DEF Effect
<1>4. { t \in open : Place(t)' # Place(t) } = { t \in open : PlaceIn(rooms', t) # PlaceIn(rooms, t) }
  BY <1>2
<1>5. \A S : AbstractRooms!Cardinality(S) = Cardinality(S)
  BY RoomsSee
<1>6. AbstractRooms!Cardinality(
        { t \in open : [u \in Socket |-> Place(u)]'[t] # [u \in Socket |-> Place(u)][t] }) <= 1
  BY <1>1, <1>4, <1>5
<1>7. ASSUME NEW r \in RoomId
      PROVE  /\ SecretIn(rooms', r) # None <=> AbstractRooms!In(r)' # {}
             /\ AbstractRooms!Cardinality(AbstractRooms!In(r) \cap AbstractRooms!In(r)') > 1
                  => SecretIn(rooms', r) = SecretIn(rooms, r)
             /\ AbstractRooms!Cardinality(AbstractRooms!In(r)') <= limits.peers
  BY <1>1, <1>2, <1>5
<1>8. /\ \A t \in Socket \ open : Place(t)' \in {Place(t), None}
      /\ \A t, u \in Socket : t # u /\ Place(t)' # None => Place(t)' # Place(u)'
  BY <1>1, <1>2
<1> QED BY <1>3, <1>6, <1>7, <1>8 DEF AbstractRooms!Next, SecretIn

\* Both copies keep the promises of Rooms for any sockets, rooms and limits: at
\* most the open socket that asked for it changes its place, the others lose one
\* only with their connection, a place has one holder, a room keeps its secret
\* while two stay in it, and no room holds more peers than the limit.
THEOREM RoomsRefined == CopiesSpec => ImplementsRooms
<1>1. RelayInv /\ [CopiesNext]_copiesVars => [AbstractRooms!Next]_(AbstractRooms!vars)
  <2> SUFFICES ASSUME RelayInv, [CopiesNext]_copiesVars
               PROVE  [AbstractRooms!Next]_(AbstractRooms!vars)
    OBVIOUS
  <2>1. CASE UNCHANGED copiesVars
    <3>1. UNCHANGED <<rooms, sock, limits>>
      BY <2>1 DEF copiesVars, relayVars
    <3>2. \A t \in Socket : Place(t)' = Place(t) /\ Open(t)' = Open(t)
      BY <3>1 DEF Place, InRoom, Open
    <3> QED BY <3>1, <3>2 DEF AbstractRooms!vars
  <2>2. ASSUME NEW s, Effect(s) PROVE [AbstractRooms!Next]_(AbstractRooms!vars)
    BY <2>2, RoomsGoOn, CopiesStep
  <2> QED BY <2>1, <2>2, CopiesStep
<1> QED BY <1>1, RoomsBegin, CopiesInitHolds, CopiesStep, PTL
        DEF CopiesSpec, ImplementsRooms, AbstractRooms!Spec
=============================================================================
