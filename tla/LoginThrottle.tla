----------------------------- MODULE LoginThrottle -----------------------------
(***************************************************************************)
(* web/rate_limit.py, LoginThrottle, and the way the login route of        *)
(* web/server.py uses it: every attempt reserves a place in the bucket of  *)
(* its source address and in that of its user name before its password is  *)
(* verified, and gives both back with the outcome.                         *)
(*                                                                         *)
(* Each request runs in a thread of its own.  What a method does under     *)
(* self._lock is one action; the clock is read before the lock is taken,   *)
(* so that a thread may act on a reading that others have overtaken.       *)
(*                                                                         *)
(* A definition named X_... is a seeded mistake in X.                      *)
(***************************************************************************)
EXTENDS Naturals, Sequences, SequencesExt, FiniteSets, FiniteSetsExt, Functions

CONSTANTS
  Attempts,         \* threads that serve POST /api/auth/login
  Addresses, Names, \* source addresses and normalized user names
  IpMax, UserMax,   \* failures that lock a bucket
  Window,           \* how long a failure counts
  MaxKeys,          \* buckets kept at most
  SweepEvery,       \* mutating calls between two sweeps
  Delay,            \* bound: time between reading the clock and the lock
  MaxTime, MaxLogins \* bounds: the clock, attempts made

ASSUME ThrottleAssumption ==
  /\ {IpMax, UserMax, SweepEvery, MaxKeys} \subseteq Nat \ {0}
  /\ {Window, Delay, MaxTime, MaxLogins} \subseteq Nat

VARIABLES
  clock,      \* self._clock()
  failures,   \* self._fail: bucket -> times of its failures, oldest append first
  reserved,   \* self._pending: bucket -> attempts in flight
  sinceSweep, \* self._calls_since_sweep
  attempt,    \* thread -> what it is doing
  logins      \* attempts made so far

throttleVars == <<clock, failures, reserved, sinceSweep, attempt, logins>>

Buckets == ({"ip"} \X Addresses) \cup ({"user"} \X Names)
Limit(k) == IF k[1] = "ip" THEN IpMax ELSE UserMax
BucketsOf(a) == {<<"ip", attempt[a].ip>>, <<"user", attempt[a].name>>}

FailuresOf(k) == IF k \in DOMAIN failures THEN failures[k] ELSE <<>>
ReservedOf(k) == IF k \in DOMAIN reserved THEN reserved[k] ELSE 0
Load(k) == Len(FailuresOf(k)) + ReservedOf(k)

\* _trim: from the front only.
Trimmed(s, t) ==
  LET kept == {i \in DOMAIN s : s[i] + Window >= t}
  IN  IF kept = {} THEN <<>> ELSE SubSeq(s, Min(kept), Len(s))
TrimmedIn(f, keys, t) == [k \in DOMAIN f |-> IF k \in keys THEN Trimmed(f[k], t) ELSE f[k]]

\* _sweep_locked: judged by the last failure appended.
Dead(f, r, k, t) == (f[k] = <<>> \/ Last(f[k]) + Window < t) /\ k \notin DOMAIN r
Swept(f, r, t) == Restrict(f, {k \in DOMAIN f : ~Dead(f, r, k, t)})

\* _maybe_sweep_locked, since is the count before it.
MaybeSweep(f, r, t, since) ==
  /\ sinceSweep' = IF since + 1 >= SweepEvery THEN 0 ELSE since + 1
  /\ failures' = IF since + 1 >= SweepEvery THEN Swept(f, r, t) ELSE f

\* _would_exceed_cap_locked
ExceedsCap(f, keys) ==
  LET new == keys \ (DOMAIN f \cup DOMAIN reserved)
  IN  new # {} /\ Cardinality(DOMAIN f) + Cardinality(DOMAIN reserved)
                  + Cardinality(new) > MaxKeys

Reserving(keys) == [k \in DOMAIN reserved \cup keys |->
  ReservedOf(k) + IF k \in keys THEN 1 ELSE 0]
\* _release_pending_locked
Releasing(keys) == [k \in {k \in DOMAIN reserved : k \in keys => reserved[k] > 1} |->
  IF k \in keys THEN reserved[k] - 1 ELSE reserved[k]]

-----------------------------------------------------------------------------

Nobody == [stage |-> "none", ip |-> "none", name |-> "none", at |-> 0]

ThrottleInit ==
  /\ clock = 0
  /\ failures = [k \in {} |-> <<>>] /\ reserved = [k \in {} |-> 0]
  /\ sinceSweep = 0 /\ logins = 0
  /\ attempt = [a \in Attempts |-> Nobody]

Locking == {"begin", "failure"}
Tick ==
  /\ clock < MaxTime
  /\ \A a \in Attempts : attempt[a].stage \in Locking => clock < attempt[a].at + Delay
  /\ clock' = clock + 1
  /\ UNCHANGED <<failures, reserved, sinceSweep, attempt, logins>>

Stage(a, stage) == attempt' = [attempt EXCEPT ![a] = [@ EXCEPT !.stage = stage]]
Done(a) == attempt' = [attempt EXCEPT ![a] = Nobody]

Arrive(a, ip, name) ==
  /\ attempt[a].stage = "none" /\ logins < MaxLogins
  /\ attempt' = [attempt EXCEPT ![a] =
       [stage |-> "begin", ip |-> ip, name |-> name, at |-> clock]]
  /\ logins' = logins + 1
  /\ UNCHANGED <<clock, failures, reserved, sinceSweep>>

\* The wait of one bucket, t the reading of begin, f trimmed.
Full(f, k) == k \in DOMAIN f /\ Len(f[k]) >= Limit(k)
Refuses(f, k, t) ==
  \/ Full(f, k) /\ Head(f[k]) + Window > t
  \/ ~Full(f, k) /\ (IF k \in DOMAIN f THEN Len(f[k]) ELSE 0) + ReservedOf(k) >= Limit(k)

Begin(a) ==
  LET t == attempt[a].at
      keys == BucketsOf(a)
      trimmed == TrimmedIn(failures, keys, t)
      locked == \E k \in keys : Refuses(trimmed, k, t)
      crowded == ExceedsCap(trimmed, keys)
      swept == IF crowded THEN Swept(trimmed, reserved, t) ELSE trimmed
      refused == locked \/ (crowded /\ ExceedsCap(swept, keys))
  IN
  /\ attempt[a].stage = "begin"
  /\ IF refused
     THEN /\ failures' = IF locked THEN trimmed ELSE swept
          /\ sinceSweep' = IF locked \/ ~crowded THEN sinceSweep ELSE 0
          /\ Done(a) /\ UNCHANGED reserved
     ELSE /\ reserved' = Reserving(keys)
          /\ MaybeSweep(swept, Reserving(keys), t, IF crowded THEN 0 ELSE sinceSweep)
          /\ Stage(a, "verify")
  /\ UNCHANGED <<clock, logins>>

\* verify_login found a bad credential: record_failure reads the clock ...
Failed(a) ==
  /\ attempt[a].stage = "verify"
  /\ attempt' = [attempt EXCEPT ![a] = [@ EXCEPT !.stage = "failure", !.at = clock]]
  /\ UNCHANGED <<clock, failures, reserved, sinceSweep, logins>>
\* ... and takes the lock.
RecordFailure(a) ==
  LET t == attempt[a].at
      keys == BucketsOf(a)
  IN
  /\ attempt[a].stage = "failure"
  /\ reserved' = Releasing(keys)
  /\ MaybeSweep([k \in DOMAIN failures \cup keys |->
                   IF k \in keys THEN Append(Trimmed(FailuresOf(k), t), t) ELSE failures[k]],
                reserved', t, sinceSweep)
  /\ Done(a) /\ UNCHANGED <<clock, logins>>

\* Buckets a success forgets.
Cleared_Both(a) == BucketsOf(a)
Cleared(a) == {<<"user", attempt[a].name>>}
RecordSuccess(a) ==
  /\ attempt[a].stage = "verify"
  /\ reserved' = Releasing(BucketsOf(a))
  /\ failures' = Restrict(failures, DOMAIN failures \ Cleared(a))
  /\ Done(a) /\ UNCHANGED <<clock, sinceSweep, logins>>

\* verify_login raised.
Cancel(a) ==
  /\ attempt[a].stage = "verify"
  /\ reserved' = Releasing(BucketsOf(a))
  /\ Done(a) /\ UNCHANGED <<clock, failures, sinceSweep, logins>>

ThrottleNext ==
  \/ Tick
  \/ \E a \in Attempts :
       \/ \E ip \in Addresses, name \in Names : Arrive(a, ip, name)
       \/ Begin(a) \/ Failed(a) \/ RecordFailure(a) \/ RecordSuccess(a) \/ Cancel(a)

ThrottleSpec == ThrottleInit /\ [][ThrottleNext]_throttleVars

-----------------------------------------------------------------------------
(* Properties.                                                             *)

\* A bucket counts exactly the attempts that are being verified or that wait
\* to record their failure: none is given back twice, and none is leaked to
\* count against its ceiling for ever.
InFlight(k) == {a \in Attempts : attempt[a].stage \in {"verify", "failure"} /\ k \in BucketsOf(a)}
ReservationsExact ==
  /\ DOMAIN reserved = {k \in Buckets : InFlight(k) # {}}
  /\ \A k \in DOMAIN reserved : reserved[k] = Cardinality(InFlight(k))

\* The table of buckets never outgrows its cap: a failure recorded late, after
\* sweeps and other arrivals, finds its bucket's place still kept.
BucketsBounded == Cardinality(DOMAIN failures \cup DOMAIN reserved) <= MaxKeys

\* However many attempts are verified at once, a bucket's failures and
\* reservations grow past its ceiling only by attempts whose reading of the
\* clock is the very instant at which a full bucket's oldest failure expires
\* (begin then computes a wait of zero, whatever is in flight).
AtExpiry(a, k) ==
  LET s == Trimmed(FailuresOf(k), attempt[a].at)
  IN  Len(s) >= Limit(k) /\ Head(s) + Window = attempt[a].at
Grows(k) == Load(k)' > Limit(k) /\ Load(k)' > Load(k)
CeilingStep == \A k \in Buckets : Grows(k) =>
  \E a \in Attempts : attempt[a].stage = "begin" /\ AtExpiry(a, k) /\ ReservedOf(k)' > ReservedOf(k)
CeilingKept == [][CeilingStep]_throttleVars

\* The failures of an address are forgotten by age alone: not by a login that
\* succeeds, and not by a sweep that judges the bucket by a failure appended
\* out of order, except for what a thread may have waited for the lock.
Survives(k, t) == \E i \in DOMAIN FailuresOf(k)' : FailuresOf(k)'[i] = t
AddressStep == \A ip \in Addresses :
  LET k == <<"ip", ip>> IN
  \A i \in DOMAIN FailuresOf(k) :
    FailuresOf(k)[i] + Window >= clock + Delay => Survives(k, FailuresOf(k)[i])
AddressRemembered == [][AddressStep]_throttleVars

\* The throttle counts exactly what it admitted, within its ceiling and its
\* memory, and forgets an address by age alone.
ThrottleSound ==
  /\ [](ReservationsExact /\ BucketsBounded)
  /\ CeilingKept
  /\ AddressRemembered
================================================================================
