----------------------------- MODULE RateLimit -----------------------------
(***************************************************************************)
(* The rate limiters of the two copies of the relay, for one address and   *)
(* one kind of message.  ratelimit.ts keeps the times of what it allowed   *)
(* in the last minute (a sliding window); deno-deploy.ts counts since a    *)
(* minute began (a fixed window).  Both count the refusals and are cleaned *)
(* up once a minute.  Time is counted in ticks, Minute of them to 60 s.    *)
(***************************************************************************)
EXTENDS FiniteSets, Naturals

CONSTANTS Minute,        \* ticks of the window and of the cleanup timer
          RateLimit,     \* joinAttemptsPerMinute or messagesPerMinute
          MaxViolations, \* rateLimitViolationsBeforeDisconnect (caps the count here)
          MaxNow,        \* bound on the clock
          NoBucket

\* What was allowed: when, and how many it is since the start (two attempts
\* within a tick are two).
Attempt == [at : Nat, number : Nat]
Bucket == [stamps : SUBSET Attempt, violations : 0..MaxViolations]
HostedBucket == [count : 0..RateLimit, resetAt : Nat, violations : 0..MaxViolations]

ASSUME RateAssumption ==
  /\ {Minute, RateLimit, MaxViolations, MaxNow} \subseteq Nat \ {0}
  /\ NoBucket \notin Bucket \cup HostedBucket

VARIABLES
  sliding,   \* TRUE in the server of ratelimit.ts, FALSE in the hosted copy
  now, due,  \* the clock, and when the cleanup timer fires next
  bucket,    \* the bucket of the address, or NoBucket
  allowed    \* history: the attempts that were allowed
rateVars == <<sliding, now, due, bucket, allowed>>

RateInit ==
  /\ sliding \in BOOLEAN
  /\ now = Minute /\ due \in (Minute + 1)..(2 * Minute)
  /\ bucket = NoBucket
  /\ allowed = {}

This == [at |-> now, number |-> Cardinality(allowed) + 1]
Counted(ok) ==
  /\ allowed' = IF ok THEN allowed \cup {This} ELSE allowed
  /\ UNCHANGED <<sliding, now, due>>

OneMore(violations) == IF violations = MaxViolations THEN violations ELSE violations + 1

\* (A fault that no specification uses: forgets a time one tick early.)
RecentTooShort(stamps) == { x \in stamps : x.at + Minute > now + 1 }

\* RateLimiter.check: prune, then refuse without noting the time, or note it.
Recent(stamps) == { x \in stamps : x.at + Minute > now }
Check ==
  LET old == IF bucket = NoBucket THEN [stamps |-> {}, violations |-> 0] ELSE bucket
      stamps == Recent(old.stamps)
      ok == Cardinality(stamps) < RateLimit
      violations == IF ok THEN old.violations ELSE OneMore(old.violations)
  IN  /\ sliding
      /\ bucket' = [stamps |-> IF ok THEN stamps \cup {This} ELSE stamps,
                    violations |-> violations]
      /\ Counted(ok)

\* RateLimiter.cleanup: only a bucket without recent times is forgotten.
Cleanup ==
  /\ sliding /\ now = due
  /\ due' = due + Minute
  /\ bucket' = IF bucket = NoBucket THEN NoBucket
               ELSE IF Recent(bucket.stamps) = {} THEN NoBucket
               ELSE [bucket EXCEPT !.stamps = Recent(@)]
  /\ UNCHANGED <<sliding, now, allowed>>

\* checkRate of the hosted copy (its count stops here once it is at the limit).
HostedCheck ==
  LET fresh == bucket = NoBucket \/ (bucket # NoBucket /\ now > bucket.resetAt)
      old == IF fresh THEN [count |-> 0, resetAt |-> now + Minute, violations |-> 0]
             ELSE bucket
      ok == old.count < RateLimit
      violations == IF ok THEN old.violations ELSE OneMore(old.violations)
  IN  /\ ~sliding
      /\ bucket' = [old EXCEPT !.count = IF ok THEN @ + 1 ELSE @,
                               !.violations = violations]
      /\ Counted(ok)

HostedCleanupRates ==
  /\ ~sliding /\ now = due
  /\ due' = due + Minute
  /\ bucket' = IF bucket # NoBucket /\ now > bucket.resetAt THEN NoBucket ELSE bucket
  /\ UNCHANGED <<sliding, now, allowed>>

Tick ==
  /\ now < MaxNow /\ now < due
  /\ now' = now + 1
  /\ UNCHANGED <<sliding, due, bucket, allowed>>

RateNext == Check \/ Cleanup \/ HostedCheck \/ HostedCleanupRates \/ Tick

RateSpec == RateInit /\ [][RateNext]_rateVars
-----------------------------------------------------------------------------
AllowedLately == Cardinality({ x \in allowed : now < x.at + Minute })

\* However the attempts are spread, no minute has more than RateLimit of them
\* allowed by the sliding window, nor twice as many by the fixed one.
WindowLimit ==
  AllowedLately <= (IF sliding THEN RateLimit ELSE 2 * RateLimit)
=============================================================================
