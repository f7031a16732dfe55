---------------------------- MODULE DestructionProofs ----------------------------
(***************************************************************************)
(* Proofs about what administrators do: the factory reset, the removal of  *)
(* subtrees, the working context and the changes made in it, for any       *)
(* number of administrators, processes and records, any references the     *)
(* inventory allows, and any number of calls.                              *)
(***************************************************************************)
EXTENDS MCDestruction, TLAPS, FiniteSetTheorems, WellFoundedInduction

-----------------------------------------------------------------------------
(* The factory reset.                                                      *)

Unleashed == {"check", "read", "clear", "wipe", "release"}

Fields == {"at", "who", "token", "account", "seen", "until"}
RunShape ==
  /\ run = [x \in Processes |-> run[x]]
  /\ \A x \in Processes :
       /\ Fields \subseteq DOMAIN run[x]
       /\ run[x].token \in Nat /\ run[x].until \in Nat
  /\ now \in Nat

\* Challenges are numbered in the order they are issued.
ChallengesNumbered ==
  /\ IsFiniteSet(previewed)
  /\ \A o \in previewed : /\ o.token \in 1..Cardinality(previewed)
                          /\ o.expires \in Nat /\ o.expires <= now + Ttl
  /\ \A o1, o2 \in previewed : o1.token = o2.token => o1 = o2
  /\ offer \in previewed \cup {None}

\* A call's token was issued before its lock was taken, so the lock outlasts it.
TokensOutlasted ==
  \A x \in Processes :
    /\ run[x].token <= Cardinality(previewed)
    /\ run[x].at \in Unleashed => \A o \in previewed : o.token = run[x].token => o.expires <= run[x].until
    /\ run[x].at = "clear" => run[x].seen \in previewed \cup {None}
    /\ run[x].at = "wipe" =>
         run[x].seen \in previewed /\ run[x].seen.actor = run[x].who /\ run[x].seen.token = run[x].token

\* A challenge about to be used for a wipe is used by nobody else and never again.
Unspent(k) == /\ \A w \in wipes : w.token # k
              /\ \A x \in Processes : run[x].at = "wipe" => run[x].token # k
ChallengesSpent ==
  /\ offer # None => Unspent(offer.token)
  /\ \A x \in Processes :
       /\ run[x].at = "wipe" =>
            /\ \A w \in wipes : w.token # run[x].token
            /\ \A y \in Processes \ {x} : run[y].at = "wipe" => run[y].token # run[x].token
       /\ run[x].at = "clear" /\ Usable(x) => Unspent(run[x].token)

ResetInv == RunShape /\ ChallengesNumbered /\ TokensOutlasted /\ ChallengesSpent /\ ResetGuarded

LEMMA RestIsRest ==
  Fields \subseteq DOMAIN AtRest /\ AtRest.at = "idle" /\ AtRest.token = 0 /\ AtRest.until = 0
BY DEF Fields, AtRest

LEMMA ResetStarts == ResetInit => ResetInv
<1> SUFFICES ASSUME ResetInit PROVE ResetInv
  OBVIOUS
<1>1. RunShape
  BY RestIsRest DEF ResetInit, RunShape
<1>2. ChallengesNumbered
  BY FS_EmptySet DEF ResetInit, ChallengesNumbered
<1>3. TokensOutlasted /\ ChallengesSpent
  BY FS_EmptySet DEF ResetInit, TokensOutlasted, ChallengesSpent, AtRest, Unleashed
<1>4. ResetGuarded
  BY DEF ResetInit, ResetGuarded, WipedAsPreviewed, LeaseHolds, AtRest
<1> QED
  BY <1>1, <1>2, <1>3, <1>4 DEF ResetInv

\* A process moves: the others keep their calls.
LEMMA Moves ==
  ASSUME NEW me \in Processes, NEW row, RunShape, run' = [run EXCEPT ![me] = row]
  PROVE  /\ run' = [x \in Processes |-> run'[x]]
         /\ run'[me] = row /\ \A x \in Processes \ {me} : run'[x] = run[x]
BY DEF RunShape

\* A new preview has a number nobody has used yet.
LEMMA PreviewIsNumbered ==
  ASSUME ResetInv, NEW a, ResetPreview(a) PROVE ResetInv'
<1> DEFINE new == [token |-> Cardinality(previewed) + 1, actor |-> a, counts |-> Counts, expires |-> now + Ttl]
<1>1. /\ new.token = Cardinality(previewed) + 1 /\ new.expires = now + Ttl
      /\ offer' = new /\ previewed' = previewed \cup {new}
      /\ UNCHANGED <<now, lock, run, wipes>>
  BY DEF ResetPreview
<1> HIDE DEF new
<1>2. /\ IsFiniteSet(previewed) /\ Cardinality(previewed) \in Nat
      /\ \A o \in previewed : o.token \in 1..Cardinality(previewed)
  BY FS_CardinalityType DEF ResetInv, ChallengesNumbered
<1>3. new \notin previewed
  BY <1>1, <1>2
<1>4. IsFiniteSet(previewed') /\ Cardinality(previewed') = Cardinality(previewed) + 1
  BY <1>1, <1>2, <1>3, FS_AddElement
<1>5. RunShape'
  BY <1>1 DEF ResetInv, RunShape
<1>6. ChallengesNumbered'
  <2>1. new.expires \in Nat /\ new.expires = now + Ttl
    BY <1>1, ResetAssumption DEF ResetInv, RunShape
  <2>2. ASSUME NEW o \in previewed'
        PROVE  /\ o.token \in 1..Cardinality(previewed)' /\ o.expires \in Nat /\ o.expires <= now' + Ttl
    BY <2>1, <1>1, <1>2, <1>4 DEF ResetInv, ChallengesNumbered
  <2>3. \A o1, o2 \in previewed' : o1.token = o2.token => o1 = o2
    BY <1>1, <1>2 DEF ResetInv, ChallengesNumbered
  <2> QED
    BY <1>1, <1>4, <2>2, <2>3 DEF ChallengesNumbered
<1>7. TokensOutlasted'
  <2> SUFFICES ASSUME NEW x \in Processes PROVE TokensOutlasted!(x)'
    BY DEF TokensOutlasted
  <2>1. run[x].token \in Nat /\ run[x].token <= Cardinality(previewed)
    BY DEF ResetInv, TokensOutlasted, RunShape
  <2> QED
    BY <2>1, <1>1, <1>2, <1>4 DEF ResetInv, TokensOutlasted
<1>8. \A w \in wipes : w.token # new.token
  BY <1>1, <1>2 DEF ResetInv, ResetGuarded, WipedAsPreviewed
<1>9. \A x \in Processes : run[x].token # new.token
  BY <1>1, <1>2 DEF ResetInv, TokensOutlasted, RunShape
<1>10. ChallengesSpent'
  BY <1>1, <1>8, <1>9 DEF ResetInv, ChallengesSpent, Unspent, Usable
<1>11. ResetGuarded'
  BY <1>1 DEF ResetInv, ResetGuarded, WipedAsPreviewed, LeaseHolds
<1> QED
  BY <1>5, <1>6, <1>7, <1>10, <1>11 DEF ResetInv

\* What a step of one call keeps when the challenges stand: the clock, the
\* challenges and the wipes are as before, and the call goes from one place to
\* another without taking up a challenge or a lock.
LEMMA QuietMove ==
  ASSUME ResetInv, NEW me \in Processes, NEW row, run' = [run EXCEPT ![me] = row],
         UNCHANGED <<now, offer, previewed, wipes>>,
         Fields \subseteq DOMAIN row,
         row.token \in Nat, row.token <= Cardinality(previewed), row.until \in Nat,
         row.at \in Unleashed => \A o \in previewed : o.token = row.token => o.expires <= row.until,
         row.at # "clear", row.at # "wipe"
  PROVE  RunShape' /\ ChallengesNumbered' /\ TokensOutlasted' /\ ChallengesSpent' /\ WipedAsPreviewed'
<1>1. run' = [x \in Processes |-> run'[x]] /\ run'[me] = row /\ \A x \in Processes \ {me} : run'[x] = run[x]
  BY Moves DEF ResetInv
<1>2. RunShape'
  BY <1>1 DEF ResetInv, RunShape
<1>3. ChallengesNumbered' /\ WipedAsPreviewed'
  BY DEF ResetInv, ChallengesNumbered, ResetGuarded, WipedAsPreviewed
<1>4. TokensOutlasted'
  BY <1>1 DEF ResetInv, TokensOutlasted
<1>5. \A k : Unspent(k) => Unspent(k)'
  BY <1>1 DEF Unspent
<1>6. \A x \in Processes : x # me => (Usable(x) <=> Usable(x)')
  BY <1>1 DEF Usable
<1>7. ChallengesSpent'
  BY <1>1, <1>5, <1>6 DEF ResetInv, ChallengesSpent
<1> QED
  BY <1>2, <1>3, <1>4, <1>7

\* The lock stays with whoever holds it while its lease runs.
LEMMA BeginKeeps ==
  ASSUME ResetInv, NEW me \in Processes, NEW a, NEW token \in {o.token : o \in previewed} \cup {0}, Begin(me, a, token)
  PROVE  ResetInv'
<1> DEFINE row == [AtRest EXCEPT !.at = "lock", !.who = a, !.token = token]
<1>1. Fields \subseteq DOMAIN row /\ row.at = "lock" /\ row.token = token /\ row.until = 0
  BY RestIsRest
<1>2. run' = [run EXCEPT ![me] = row] /\ UNCHANGED <<now, offer, lock, previewed, wipes>>
  BY DEF Begin
<1> HIDE DEF row
<1>3. /\ row.token \in Nat /\ row.token <= Cardinality(previewed) /\ row.until \in Nat
      /\ row.at \notin Unleashed /\ row.at # "clear" /\ row.at # "wipe"
  BY <1>1, FS_CardinalityType DEF ResetInv, ChallengesNumbered, Unleashed
<1>4. RunShape' /\ ChallengesNumbered' /\ TokensOutlasted' /\ ChallengesSpent' /\ WipedAsPreviewed'
  BY <1>1, <1>2, <1>3, QuietMove
<1>5. run'[me] = row /\ \A x \in Processes \ {me} : run'[x] = run[x]
  BY <1>2, Moves DEF ResetInv
<1>6. LeaseHolds'
  BY <1>1, <1>2, <1>5 DEF ResetInv, ResetGuarded, LeaseHolds
<1> QED
  BY <1>4, <1>6 DEF ResetInv, ResetGuarded

LEMMA ReclaimKeeps ==
  ASSUME ResetInv, NEW me \in Processes, Reclaim(me) PROVE ResetInv'
<1>1. UNCHANGED <<now, offer, run, previewed, wipes>> /\ lock.expires < now /\ lock' = None
  BY DEF Reclaim, Reclaimable
<1>2. RunShape' /\ ChallengesNumbered' /\ TokensOutlasted' /\ WipedAsPreviewed'
  BY <1>1 DEF ResetInv, RunShape, ChallengesNumbered, TokensOutlasted, ResetGuarded, WipedAsPreviewed
<1>3. ChallengesSpent'
  BY <1>1 DEF ResetInv, ChallengesSpent, Unspent, Usable
<1>4. \A x \in Processes : run[x].at \in Unleashed => ~(run[x].until >= now)
  BY <1>1 DEF ResetInv, ResetGuarded, LeaseHolds, Unleashed, RunShape
<1>5. LeaseHolds'
  BY <1>1, <1>4 DEF LeaseHolds, Unleashed
<1> QED
  BY <1>2, <1>3, <1>5 DEF ResetInv, ResetGuarded

LEMMA AcquireKeeps ==
  ASSUME ResetInv, NEW me \in Processes, Acquire(me) PROVE ResetInv'
<1>1. /\ Fields \subseteq DOMAIN run[me]
      /\ run[me].token \in Nat /\ run[me].token <= Cardinality(previewed) /\ now \in Nat
      /\ LeaseEnd \in Nat /\ Cardinality(previewed) \in Nat
  BY ResetAssumption, FS_CardinalityType DEF ResetInv, RunShape, TokensOutlasted, LeaseEnd, ChallengesNumbered
<1>2. UNCHANGED <<now, offer, previewed, wipes>>
  BY DEF Acquire
<1>3. CASE lock = None
  <2> DEFINE row == [run[me] EXCEPT !.at = "check", !.until = LeaseEnd]
  <2>1. Fields \subseteq DOMAIN row /\ row.at = "check" /\ row.token = run[me].token /\ row.until = LeaseEnd
    BY <1>1 DEF Fields
  <2>2. run' = [run EXCEPT ![me] = row] /\ lock' = [holder |-> me, expires |-> LeaseEnd]
    BY <1>3 DEF Acquire, ResetInv, RunShape
  <2> HIDE DEF row
  <2>3. \A o \in previewed : o.expires <= LeaseEnd
    BY <1>1, ResetAssumption DEF ResetInv, ChallengesNumbered, LeaseEnd
  <2>4. RunShape' /\ ChallengesNumbered' /\ TokensOutlasted' /\ ChallengesSpent' /\ WipedAsPreviewed'
    BY <1>1, <1>2, <2>1, <2>2, <2>3, QuietMove
  <2>5. run'[me] = row /\ \A x \in Processes \ {me} : run'[x] = run[x]
    BY <2>2, Moves DEF ResetInv
  <2>6. \A x \in Processes : run[x].at \in Unleashed => ~(run[x].until >= now)
    BY <1>3 DEF ResetInv, ResetGuarded, LeaseHolds, Unleashed
  <2>7. lock' # None
    BY <1>1, <2>2, ResetAssumption
  <2>8. LeaseHolds'
    BY <1>2, <2>1, <2>2, <2>5, <2>6, <2>7 DEF LeaseHolds, Unleashed
  <2> QED
    BY <2>4, <2>8 DEF ResetInv, ResetGuarded
<1>4. CASE lock # None
  <2>1. run' = [run EXCEPT ![me] = AtRest] /\ lock' = lock
    BY <1>4 DEF Acquire
  <2>2. RunShape' /\ ChallengesNumbered' /\ TokensOutlasted' /\ ChallengesSpent' /\ WipedAsPreviewed'
    <3>1. /\ Fields \subseteq DOMAIN AtRest /\ AtRest.token \in Nat /\ AtRest.token <= Cardinality(previewed)
          /\ AtRest.until \in Nat /\ AtRest.at \notin Unleashed /\ AtRest.at # "clear" /\ AtRest.at # "wipe"
      BY <1>1, RestIsRest DEF Unleashed
    <3> QED
      BY <1>2, <2>1, <3>1, QuietMove
  <2>3. run'[me] = AtRest /\ \A x \in Processes \ {me} : run'[x] = run[x]
    BY <2>1, Moves DEF ResetInv
  <2>4. LeaseHolds'
    BY <1>2, <2>1, <2>3 DEF ResetInv, ResetGuarded, LeaseHolds, AtRest
  <2> QED
    BY <2>2, <2>4 DEF ResetInv, ResetGuarded
<1> QED
  BY <1>3, <1>4

LEMMA LeaseKept ==
  ASSUME ResetInv, UNCHANGED <<now, lock>>,
         \A x \in Processes : run'[x].at \in Unleashed => run[x].at \in Unleashed /\ run'[x].until = run[x].until
  PROVE  LeaseHolds'
BY DEF ResetInv, ResetGuarded, LeaseHolds, Unleashed

\* A call moves on with the token and the lease it has.
LEMMA MoveOn ==
  ASSUME ResetInv, NEW me \in Processes, NEW row, run' = [run EXCEPT ![me] = row],
         UNCHANGED <<now, offer, lock, previewed, wipes>>, run[me].at \in Unleashed,
         Fields \subseteq DOMAIN row, row.token = run[me].token, row.until = run[me].until,
         row.at \in {"read", "release"}
  PROVE  ResetInv'
<1>1. row.token \in Nat /\ row.token <= Cardinality(previewed) /\ row.until \in Nat
  BY DEF ResetInv, RunShape, TokensOutlasted
<1>2. row.at \in Unleashed /\ row.at # "clear" /\ row.at # "wipe"
  BY DEF Unleashed
<1>3. \A o \in previewed : o.token = row.token => o.expires <= row.until
  BY DEF ResetInv, TokensOutlasted
<1>4. RunShape' /\ ChallengesNumbered' /\ TokensOutlasted' /\ ChallengesSpent' /\ WipedAsPreviewed'
  BY <1>1, <1>2, <1>3, QuietMove
<1>5. run'[me] = row /\ \A x \in Processes \ {me} : run'[x] = run[x]
  BY Moves DEF ResetInv
<1>6. LeaseHolds'
  BY <1>2, <1>5, LeaseKept
<1> QED
  BY <1>4, <1>6 DEF ResetInv, ResetGuarded

LEMMA CheckKeeps ==
  ASSUME ResetInv, NEW me \in Processes, Check(me) PROVE ResetInv'
<1>1. run[me].at \in Unleashed /\ UNCHANGED <<now, offer, lock, previewed, wipes>> /\ Fields \subseteq DOMAIN run[me]
  BY DEF Check, Unleashed, ResetInv, RunShape
<1>2. CASE Authorized(run[me].who)
  <2> DEFINE row == [run[me] EXCEPT !.at = "read", !.account = accounts[run[me].who]]
  <2>1. run' = [run EXCEPT ![me] = row]
    BY <1>2 DEF Check, ResetInv, RunShape
  <2>2. Fields \subseteq DOMAIN row /\ row.token = run[me].token /\ row.until = run[me].until /\ row.at = "read"
    BY <1>1 DEF Fields
  <2> QED
    BY <1>1, <2>1, <2>2, MoveOn
<1>3. CASE ~Authorized(run[me].who)
  <2> DEFINE row == [run[me] EXCEPT !.at = "release"]
  <2>1. run' = [run EXCEPT ![me] = row]
    BY <1>3 DEF Check, ResetInv, RunShape
  <2>2. Fields \subseteq DOMAIN row /\ row.token = run[me].token /\ row.until = run[me].until /\ row.at = "release"
    BY <1>1 DEF Fields
  <2> QED
    BY <1>1, <2>1, <2>2, MoveOn
<1> QED
  BY <1>2, <1>3

LEMMA GiveUpKeeps ==
  ASSUME ResetInv, NEW me \in Processes, GiveUp(me) PROVE ResetInv'
<1> DEFINE row == [run[me] EXCEPT !.at = "release"]
<1>1. run[me].at \in Unleashed /\ UNCHANGED <<now, offer, lock, previewed, wipes>> /\ Fields \subseteq DOMAIN run[me]
  BY DEF GiveUp, Step, Unleashed, ResetInv, RunShape
<1>2. run' = [run EXCEPT ![me] = row]
  BY DEF GiveUp, Step, ResetInv, RunShape
<1>3. Fields \subseteq DOMAIN row /\ row.token = run[me].token /\ row.until = run[me].until /\ row.at = "release"
  BY <1>1 DEF Fields
<1> QED
  BY <1>1, <1>2, <1>3, MoveOn

\* The call is over: its lock is its own or somebody else's.
LEMMA EndKeeps ==
  ASSUME ResetInv, NEW me \in Processes, Release(me) \/ Die(me) PROVE ResetInv'
<1>1. /\ run' = [run EXCEPT ![me] = AtRest] /\ UNCHANGED <<now, offer, previewed, wipes>>
      /\ lock' = lock \/ (OwnLock(me) /\ lock' = None)
  BY DEF Release, Die
<1>2. /\ Fields \subseteq DOMAIN AtRest /\ AtRest.token \in Nat /\ AtRest.token <= Cardinality(previewed)
      /\ AtRest.until \in Nat /\ AtRest.at \notin Unleashed /\ AtRest.at # "clear" /\ AtRest.at # "wipe"
  BY RestIsRest, FS_CardinalityType DEF Unleashed, ResetInv, ChallengesNumbered
<1>3. RunShape' /\ ChallengesNumbered' /\ TokensOutlasted' /\ ChallengesSpent' /\ WipedAsPreviewed'
  BY <1>1, <1>2, QuietMove
<1>4. run'[me] = AtRest /\ \A x \in Processes \ {me} : run'[x] = run[x]
  BY <1>1, Moves DEF ResetInv
<1>5. LeaseHolds'
  <2> SUFFICES ASSUME NEW x \in Processes, run'[x].at \in Unleashed, run'[x].until >= now'
               PROVE  lock' # None /\ lock'.holder = x /\ lock'.expires = run'[x].until
    BY DEF LeaseHolds, Unleashed
  <2>1. x # me /\ run'[x] = run[x]
    BY <1>2, <1>4
  <2>2. lock # None /\ lock.holder = x /\ lock.expires = run[x].until
    BY <1>1, <2>1 DEF ResetInv, ResetGuarded, LeaseHolds, Unleashed
  <2> QED
    BY <1>1, <2>1, <2>2 DEF OwnLock
<1> QED
  BY <1>3, <1>5 DEF ResetInv, ResetGuarded

LEMMA ReadKeeps ==
  ASSUME ResetInv, NEW me \in Processes, Read(me) PROVE ResetInv'
<1> DEFINE row == [run[me] EXCEPT !.at = "clear", !.seen = offer]
<1>1. /\ run[me].at = "read" /\ Fields \subseteq DOMAIN run[me]
      /\ UNCHANGED <<now, offer, lock, previewed, wipes>>
  BY DEF Read, ResetInv, RunShape
<1>2. /\ row.at = "clear" /\ row.seen = offer /\ row.token = run[me].token /\ row.until = run[me].until
      /\ row.who = run[me].who /\ Fields \subseteq DOMAIN row
  BY <1>1 DEF Fields
<1>3. run' = [run EXCEPT ![me] = row]
  BY DEF Read, ResetInv, RunShape
<1> HIDE DEF row
<1>4. run' = [x \in Processes |-> run'[x]] /\ run'[me] = row /\ \A x \in Processes \ {me} : run'[x] = run[x]
  BY <1>3, Moves DEF ResetInv
<1>5. RunShape' /\ ChallengesNumbered' /\ WipedAsPreviewed'
  BY <1>1, <1>2, <1>4 DEF ResetInv, RunShape, ChallengesNumbered, ResetGuarded, WipedAsPreviewed
<1>6. TokensOutlasted'
  <2> SUFFICES ASSUME NEW x \in Processes PROVE TokensOutlasted!(x)'
    BY DEF TokensOutlasted
  <2>1. CASE x = me
    BY <1>1, <1>2, <1>4, <2>1 DEF ResetInv, TokensOutlasted, Unleashed, ChallengesNumbered
  <2>2. CASE x # me
    BY <1>1, <1>4, <2>2 DEF ResetInv, TokensOutlasted
  <2> QED
    BY <2>1, <2>2
<1>7. \A k : Unspent(k) => Unspent(k)'
  BY <1>1, <1>2, <1>4 DEF Unspent
<1>8. Usable(me)' => offer # None /\ offer.token = run[me].token
  BY <1>1, <1>2, <1>4 DEF Usable
<1>9. \A x \in Processes : x # me => (Usable(x) <=> Usable(x)')
  BY <1>1, <1>4 DEF Usable
<1>10. ChallengesSpent'
  BY <1>1, <1>2, <1>4, <1>7, <1>8, <1>9 DEF ResetInv, ChallengesSpent
<1>11. LeaseHolds'
  BY <1>1, <1>2, <1>4, LeaseKept DEF Unleashed
<1> QED
  BY <1>5, <1>6, <1>10, <1>11 DEF ResetInv, ResetGuarded

\* Two calls that hold the same usable challenge hold the lock both: they are one.
LEMMA OneHolds ==
  ASSUME ResetInv, NEW x \in Processes, NEW y \in Processes, run[x].at \in Unleashed, run[y].at \in Unleashed,
         NEW o \in previewed, o.token = run[x].token, o.token = run[y].token, o.expires >= now
  PROVE  x = y
<1>1. run[x].until >= now /\ run[y].until >= now
  BY DEF ResetInv, TokensOutlasted, RunShape, ChallengesNumbered
<1>2. lock.holder = x /\ lock.holder = y
  BY <1>1 DEF ResetInv, ResetGuarded, LeaseHolds, Unleashed
<1> QED
  BY <1>2

LEMMA ClearKeeps ==
  ASSUME ResetInv, NEW me \in Processes, Clear(me) PROVE ResetInv'
<1> DEFINE row == [run[me] EXCEPT !.at = IF Usable(me) THEN "wipe" ELSE "release"]
<1>1. /\ run[me].at = "clear" /\ Fields \subseteq DOMAIN run[me] /\ offer' = None
      /\ UNCHANGED <<now, lock, previewed, wipes>>
  BY DEF Clear, ResetInv, RunShape
<1>2. /\ row.at = (IF Usable(me) THEN "wipe" ELSE "release") /\ row.seen = run[me].seen
      /\ row.token = run[me].token /\ row.until = run[me].until /\ row.who = run[me].who /\ Fields \subseteq DOMAIN row
  BY <1>1 DEF Fields
<1>3. run' = [run EXCEPT ![me] = row]
  BY DEF Clear, ResetInv, RunShape
<1> HIDE DEF row
<1>4. run' = [x \in Processes |-> run'[x]] /\ run'[me] = row /\ \A x \in Processes \ {me} : run'[x] = run[x]
  BY <1>3, Moves DEF ResetInv
<1>5. RunShape' /\ ChallengesNumbered' /\ WipedAsPreviewed'
  BY <1>1, <1>2, <1>4 DEF ResetInv, RunShape, ChallengesNumbered, ResetGuarded, WipedAsPreviewed
<1>6. Usable(me) => /\ run[me].seen \in previewed /\ run[me].seen.actor = run[me].who
                    /\ run[me].seen.token = run[me].token /\ run[me].seen.expires >= now
  BY <1>1 DEF Usable, ResetInv, TokensOutlasted
<1>7. TokensOutlasted'
  <2> SUFFICES ASSUME NEW x \in Processes PROVE TokensOutlasted!(x)'
    BY DEF TokensOutlasted
  <2>1. CASE x = me
    BY <1>1, <1>2, <1>4, <1>6, <2>1 DEF ResetInv, TokensOutlasted, Unleashed
  <2>2. CASE x # me
    BY <1>1, <1>4, <2>2 DEF ResetInv, TokensOutlasted
  <2> QED
    BY <2>1, <2>2
<1>8. LeaseHolds'
  BY <1>1, <1>2, <1>4, LeaseKept DEF Unleashed
<1>9. \A x \in Processes : x # me => (Usable(x) <=> Usable(x)')
  BY <1>1, <1>4 DEF Usable
<1>10. CASE ~Usable(me)
  <2>1. \A k : Unspent(k) => Unspent(k)'
    BY <1>1, <1>2, <1>4, <1>10 DEF Unspent
  <2>2. ChallengesSpent'
    BY <1>1, <1>2, <1>4, <1>9, <1>10, <2>1 DEF ResetInv, ChallengesSpent
  <2> QED
    BY <1>5, <1>7, <1>8, <2>2 DEF ResetInv, ResetGuarded
<1>11. CASE Usable(me)
  <2> DEFINE k == run[me].token
  <2>1. Unspent(k)
    BY <1>1, <1>11 DEF ResetInv, ChallengesSpent
  <2>2. ASSUME NEW x \in Processes, x # me, run[x].at = "clear", Usable(x) PROVE run[x].token # k
    <3>1. run[x].seen \in previewed /\ run[x].seen.token = run[x].token /\ run[x].seen.expires >= now
      BY <2>2 DEF Usable, ResetInv, TokensOutlasted
    <3>2. run[me].at \in Unleashed /\ run[x].at \in Unleashed
      BY <1>1, <2>2 DEF Unleashed
    <3> QED
      BY <2>2, <3>1, <3>2, OneHolds
  <2>3. \A x \in Processes \ {me} : run[x].at = "wipe" => run[x].token # k
    BY <2>1 DEF Unspent
  <2>4. \A w \in wipes : w.token # k
    BY <2>1 DEF Unspent
  <2>5. ASSUME NEW x \in Processes, run'[x].at = "wipe"
        PROVE  /\ \A w \in wipes' : w.token # run'[x].token
               /\ \A y \in Processes \ {x} : run'[y].at = "wipe" => run'[y].token # run'[x].token
    <3>1. CASE x = me
      BY <1>1, <1>2, <1>4, <2>3, <2>4, <3>1
    <3>2. CASE x # me
      <4>1. run'[x] = run[x] /\ run[x].at = "wipe" /\ run[x].token # k
        BY <1>4, <2>3, <2>5, <3>2
      <4> QED
        BY <1>1, <1>2, <1>4, <4>1 DEF ResetInv, ChallengesSpent
    <3> QED
      BY <3>1, <3>2
  <2>6. ASSUME NEW x \in Processes, run'[x].at = "clear", Usable(x)' PROVE Unspent(run[x].token)'
    <3>1. x # me /\ run'[x] = run[x] /\ Usable(x)
      BY <1>2, <1>4, <1>9, <1>11, <2>6
    <3>2. run[x].token # k /\ Unspent(run[x].token)
      BY <2>2, <2>6, <3>1 DEF ResetInv, ChallengesSpent
    <3> QED
      BY <1>1, <1>2, <1>4, <3>1, <3>2 DEF Unspent
  <2>7. ChallengesSpent'
    BY <1>1, <2>5, <2>6 DEF ChallengesSpent
  <2> QED
    BY <1>5, <1>7, <1>8, <2>7 DEF ResetInv, ResetGuarded
<1> QED
  BY <1>10, <1>11

LEMMA WipeKeeps ==
  ASSUME ResetInv, NEW me \in Processes, Wipe(me) PROVE ResetInv'
<1> DEFINE row == [run[me] EXCEPT !.at = "release"]
           new == [token |-> run[me].seen.token, by |-> run[me].who, counts |-> Counts, at |-> now]
<1>1. /\ run[me].at = "wipe" /\ Fields \subseteq DOMAIN run[me] /\ Counts = run[me].seen.counts
      /\ UNCHANGED <<now, offer, lock, previewed>> /\ wipes' = wipes \cup {new}
  BY DEF Wipe, Step, AsCounted, ResetInv, RunShape
<1>2. /\ row.at = "release" /\ row.seen = run[me].seen
      /\ row.token = run[me].token /\ row.until = run[me].until /\ row.who = run[me].who /\ Fields \subseteq DOMAIN row
  BY <1>1 DEF Fields
<1>3. run' = [run EXCEPT ![me] = row]
  BY DEF Wipe, Step, ResetInv, RunShape
<1>4. /\ run[me].seen \in previewed /\ run[me].seen.actor = run[me].who /\ run[me].seen.token = run[me].token
      /\ \A w \in wipes : w.token # run[me].token
      /\ \A x \in Processes \ {me} : run[x].at = "wipe" => run[x].token # run[me].token
  BY <1>1 DEF ResetInv, TokensOutlasted, ChallengesSpent
<1>5. new.token = run[me].token /\ new.by = run[me].seen.actor /\ new.counts = run[me].seen.counts
  BY <1>1, <1>4
<1> HIDE DEF row, new
<1>6. run' = [x \in Processes |-> run'[x]] /\ run'[me] = row /\ \A x \in Processes \ {me} : run'[x] = run[x]
  BY <1>3, Moves DEF ResetInv
<1>7. RunShape' /\ ChallengesNumbered'
  BY <1>1, <1>2, <1>6 DEF ResetInv, RunShape, ChallengesNumbered
<1>8. TokensOutlasted'
  BY <1>1, <1>2, <1>6 DEF ResetInv, TokensOutlasted, Unleashed
<1>9. WipedAsPreviewed'
  BY <1>1, <1>4, <1>5 DEF ResetInv, ResetGuarded, WipedAsPreviewed
<1>10. LeaseHolds'
  BY <1>1, <1>2, <1>6, LeaseKept DEF Unleashed
<1>11. \A j : Unspent(j) => Unspent(j)'
  BY <1>1, <1>2, <1>5, <1>6 DEF Unspent
<1>12. \A x \in Processes : x # me => (Usable(x) <=> Usable(x)')
  BY <1>1, <1>6 DEF Usable
<1>13. ASSUME NEW x \in Processes, run'[x].at = "wipe"
       PROVE  /\ \A w \in wipes' : w.token # run'[x].token
              /\ \A y \in Processes \ {x} : run'[y].at = "wipe" => run'[y].token # run'[x].token
  <2>1. x # me /\ run'[x] = run[x] /\ run[x].at = "wipe" /\ run[x].token # run[me].token
    BY <1>2, <1>4, <1>6, <1>13
  <2> QED
    BY <1>1, <1>2, <1>5, <1>6, <2>1 DEF ResetInv, ChallengesSpent
<1>14. ChallengesSpent'
  BY <1>1, <1>2, <1>6, <1>11, <1>12, <1>13 DEF ResetInv, ChallengesSpent
<1> QED
  BY <1>7, <1>8, <1>9, <1>10, <1>14 DEF ResetInv, ResetGuarded

LEMMA TickKeeps == ASSUME ResetInv, Tick PROVE ResetInv'
<1>1. now \in Nat /\ now' = now + 1 /\ UNCHANGED <<offer, lock, run, previewed, wipes>>
  BY DEF Tick, ResetInv, RunShape
<1>2. RunShape' /\ TokensOutlasted' /\ WipedAsPreviewed'
  BY <1>1 DEF ResetInv, RunShape, TokensOutlasted, ResetGuarded, WipedAsPreviewed
<1>3. ChallengesNumbered'
  BY <1>1, ResetAssumption DEF ResetInv, ChallengesNumbered
<1>4. ASSUME NEW x \in Processes, run[x].at = "clear", Usable(x)' PROVE Usable(x)
  BY <1>1, <1>4 DEF Usable, ResetInv, TokensOutlasted, ChallengesNumbered
<1>5. ChallengesSpent'
  BY <1>1, <1>4 DEF ResetInv, ChallengesSpent, Unspent
<1>6. LeaseHolds'
  BY <1>1 DEF ResetInv, ResetGuarded, LeaseHolds, RunShape
<1> QED
  BY <1>2, <1>3, <1>5, <1>6 DEF ResetInv, ResetGuarded

LEMMA QuietKeeps ==
  ASSUME ResetInv, UNCHANGED <<now, offer, lock, run, previewed, wipes>> PROVE ResetInv'
<1>1. RunShape' /\ ChallengesNumbered' /\ TokensOutlasted' /\ ResetGuarded'
  BY DEF ResetInv, RunShape, ChallengesNumbered, TokensOutlasted, ResetGuarded, WipedAsPreviewed, LeaseHolds
<1>2. ChallengesSpent'
  BY DEF ResetInv, ChallengesSpent, Unspent, Usable
<1> QED
  BY <1>1, <1>2 DEF ResetInv

LEMMA ResetKeeps ==
  ASSUME ResetInv, (\E x \in Processes : ResetStep(x)) \/ (\E a : ResetPreview(a)) \/ Tick \/ Work
  PROVE  ResetInv'
<1>1. ASSUME NEW x \in Processes, ResetStep(x) PROVE ResetInv'
  <2>1. ASSUME NEW a \in Owners, NEW token \in {o.token : o \in previewed} \cup {0}, Begin(x, a, token) PROVE ResetInv'
    BY <2>1, BeginKeeps
  <2> QED
    BY <1>1, <2>1, ReclaimKeeps, AcquireKeeps, CheckKeeps, ReadKeeps, ClearKeeps, WipeKeeps, GiveUpKeeps, EndKeeps
       DEF ResetStep
<1>2. ASSUME NEW a, ResetPreview(a) PROVE ResetInv'
  BY <1>2, PreviewIsNumbered
<1>3. CASE Tick
  BY <1>3, TickKeeps
<1>4. CASE Work
  BY <1>4, QuietKeeps DEF Work
<1> QED
  BY <1>1, <1>2, <1>3, <1>4
-----------------------------------------------------------------------------
(* What the owners' references reach.                                      *)

LEMMA LeastNumber ==
  ASSUME NEW F, F \in SUBSET Nat, F # {} PROVE \E n \in F : \A m \in F : n <= m
<1>1. PICK n \in F : \A m \in F : <<m, n>> \notin OpToRel(<, Nat)
  BY NatLessThanWellFounded, WFMin, Zenon
<1>2. \A m \in F : ~(m < n)
  BY <1>1, Zenon DEF OpToRel
<1> QED
  BY <1>2

Nearer(W, arrows, n) == W[n - 1] \cup {x[2] : x \in {y \in arrows : y[1] \in W[n - 1]}}
Widens(W, start, arrows, m) == W = [n \in 0..m |-> IF n = 0 THEN start ELSE Nearer(W, arrows, n)]

\* The sets Reached is computed from exist, one for each number of references.
LEMMA ReachedExists ==
  ASSUME NEW start, NEW arrows, NEW m \in Nat PROVE \E W : Widens(W, start, arrows, m)
<1> DEFINE F == {n \in Nat : ~\E W : Widens(W, start, arrows, n)}
<1>1. ASSUME F # {} PROVE FALSE
  <2>1. PICK n \in F : \A k \in F : n <= k
    <3>1. F \in SUBSET Nat
      OBVIOUS
    <3> HIDE DEF F
    <3> QED
      BY <1>1, <3>1, LeastNumber
  <2>2. n # 0
    <3> DEFINE W == [k \in 0..0 |-> start]
    <3>1. W = [k \in 0..0 |-> IF k = 0 THEN start ELSE Nearer(W, arrows, k)]
      <4>1. \A k \in 0..0 : k = 0
        OBVIOUS
      <4> HIDE DEF W
      <4>2. W = [k \in 0..0 |-> start]
        BY DEF W
      <4> QED
        BY <4>1, <4>2
    <3> HIDE DEF W
    <3> QED
      BY <2>1, <3>1 DEF Widens
  <2>3. n \in Nat /\ n - 1 \in Nat /\ n - 1 \notin F
    BY <2>1, <2>2
  <2>4. PICK W : Widens(W, start, arrows, n - 1)
    BY <2>3
  <2> DEFINE V1 == [k \in 0..n |-> IF k = 0 THEN start ELSE Nearer(W, arrows, k)]
  <2>5. \A k \in 0..(n - 1) : V1[k] = W[k]
    BY <2>3, <2>4 DEF Widens
  <2>6. \A k \in 0..n : k # 0 => Nearer(V1, arrows, k) = Nearer(W, arrows, k)
    <3> HIDE DEF V1
    <3> TAKE k \in 0..n
    <3> HAVE k # 0
    <3>1. V1[k - 1] = W[k - 1]
      BY <2>3, <2>5
    <3> QED
      BY <3>1 DEF Nearer
  <2>7. Widens(V1, start, arrows, n)
    BY <2>6 DEF Widens
  <2> QED
    BY <2>1, <2>7
<1> QED
  BY <1>1

LEMMA ReachedSteps ==
  ASSUME IsFiniteSet(present), NEW start, NEW arrows
  PROVE  \E W : /\ W[0] = start /\ Reached(start, arrows) = W[Cardinality(present)]
                /\ \A n \in 1..Cardinality(present) : W[n] = Nearer(W, arrows, n)
<1> DEFINE m == Cardinality(present)
           W == CHOOSE W : Widens(W, start, arrows, m)
<1>1. m \in Nat
  BY FS_CardinalityType
<1>2. Widens(W, start, arrows, m)
  BY <1>1, ReachedExists
<1>3. Reached(start, arrows) = W[m]
  BY DEF Reached, Widens, Nearer
<1>4. W[0] = start /\ \A n \in 1..m : W[n] = Nearer(W, arrows, n)
  <2> HIDE DEF W, m
  <2> QED
    BY <1>1, <1>2 DEF Widens
<1> QED
  BY <1>3, <1>4

Closed(some, arrows) == \A x \in arrows : x[1] \in some => x[2] \in some

\* What is reached contains where it starts, and is within every set that
\* contains that and every reference's end with its beginning.
LEMMA ReachedIsLeast ==
  ASSUME IsFiniteSet(present), NEW start, NEW arrows
  PROVE  /\ start \subseteq Reached(start, arrows)
         /\ \A some : start \subseteq some /\ Closed(some, arrows) => Reached(start, arrows) \subseteq some
<1> DEFINE m == Cardinality(present)
<1>1. m \in Nat
  BY FS_CardinalityType
<1>2. PICK W : /\ W[0] = start /\ Reached(start, arrows) = W[m]
               /\ \A n \in 1..m : W[n] = Nearer(W, arrows, n)
  BY ReachedSteps
<1> HIDE DEF m
<1>3. ASSUME NEW some, start \subseteq some, Closed(some, arrows) PROVE \A n \in 0..m : W[n] \subseteq some
  <2> DEFINE F == {n \in 0..m : ~(W[n] \subseteq some)}
  <2>1. ASSUME F # {} PROVE FALSE
    <3>1. F \in SUBSET Nat
      BY <1>1
    <3>2. PICK n \in F : \A k \in F : n <= k
      <4> HIDE DEF F
      <4> QED
        BY <2>1, <3>1, LeastNumber
    <3>3. n \in 1..m /\ n - 1 \in 0..m
      BY <1>1, <1>2, <1>3, <3>2
    <3>4. W[n - 1] \subseteq some
      <4>1. ~(n <= n - 1)
        BY <3>3, <1>1
      <4>2. n - 1 \notin F
        <5> HIDE DEF F
        <5> QED
          BY <4>1, <3>2
      <4> QED
        BY <4>2, <3>3
    <3>5. W[n] \subseteq some
      BY <1>2, <1>3, <3>3, <3>4 DEF Nearer, Closed
    <3> QED
      BY <3>2, <3>5
  <2> QED
    BY <2>1
<1>4. start \subseteq W[m]
  <2> DEFINE F == {n \in 0..m : ~(start \subseteq W[n])}
  <2>1. ASSUME F # {} PROVE FALSE
    <3>1. F \in SUBSET Nat
      BY <1>1
    <3>2. PICK n \in F : \A k \in F : n <= k
      <4> HIDE DEF F
      <4> QED
        BY <2>1, <3>1, LeastNumber
    <3>3. n \in 1..m /\ n - 1 \in 0..m
      BY <1>1, <1>2, <3>2
    <3>4. start \subseteq W[n - 1]
      <4>1. ~(n <= n - 1)
        BY <3>3, <1>1
      <4>2. n - 1 \notin F
        <5> HIDE DEF F
        <5> QED
          BY <4>1, <3>2
      <4> QED
        BY <4>2, <3>3
    <3>5. start \subseteq W[n]
      BY <1>2, <3>3, <3>4 DEF Nearer
    <3> QED
      BY <3>2, <3>5
  <2> QED
    BY <1>1, <2>1
<1> QED
  BY <1>1, <1>2, <1>3, <1>4

\* There are no more steps to take than records: the set reached is closed.
LEMMA ReachedCloses ==
  ASSUME IsFiniteSet(present), NEW start \in SUBSET present, NEW arrows, \A x \in arrows : x[2] \in present
  PROVE  Reached(start, arrows) \subseteq present /\ Closed(Reached(start, arrows), arrows)
<1> DEFINE m == Cardinality(present)
<1>1. m \in Nat
  BY FS_CardinalityType
<1>2. PICK W : /\ W[0] = start /\ Reached(start, arrows) = W[m]
               /\ \A n \in 1..m : W[n] = Nearer(W, arrows, n)
  BY ReachedSteps
<1> HIDE DEF m
<1> DEFINE Good(n) == /\ W[n] \in SUBSET present
                      /\ Closed(W[n], arrows) \/ n <= Cardinality(W[n])
           F == {n \in 0..m : ~Good(n)}
<1>3. ASSUME F # {} PROVE FALSE
  <2>1. F \in SUBSET Nat
    BY <1>1
  <2>2. PICK n \in F : \A k \in F : n <= k
    <3> HIDE DEF F
    <3> QED
      BY <1>3, <2>1, LeastNumber
  <2>3. Good(0)
    <3>1. IsFiniteSet(start) /\ Cardinality(start) \in Nat
      BY FS_Subset, FS_CardinalityType
    <3> QED
      BY <1>2, <3>1
  <2>4. n \in 1..m /\ n - 1 \in 0..m
    <3>1. n # 0
      BY <2>2, <2>3
    <3> QED
      BY <1>1, <2>2, <3>1
  <2>5. Good(n - 1)
    <3>1. ~(n <= n - 1)
      BY <2>4, <1>1
    <3>2. n - 1 \notin F
      <4> HIDE DEF F
      <4> QED
        BY <3>1, <2>2
    <3> QED
      BY <3>2, <2>4
  <2>6. W[n] = Nearer(W, arrows, n) /\ W[n - 1] \subseteq W[n] /\ W[n] \subseteq present
    BY <1>2, <2>4, <2>5 DEF Nearer
  <2>7. CASE W[n] = W[n - 1]
    <3>1. Closed(W[n - 1], arrows)
      BY <2>6, <2>7 DEF Closed, Nearer
    <3> QED
      BY <2>2, <2>6, <2>7, <3>1
  <2>8. CASE W[n] # W[n - 1]
    <3>1. ~Closed(W[n - 1], arrows)
      BY <2>6, <2>8 DEF Closed, Nearer
    <3>2. IsFiniteSet(W[n]) /\ W[n - 1] \in SUBSET W[n]
      BY <2>6, FS_Subset
    <3>3. /\ Cardinality(W[n - 1]) <= Cardinality(W[n])
          /\ Cardinality(W[n]) = Cardinality(W[n - 1]) => W[n] = W[n - 1]
      BY <3>2, FS_Subset
    <3>4. Cardinality(W[n]) \in Nat /\ Cardinality(W[n - 1]) \in Nat
      BY <3>2, FS_Subset, FS_CardinalityType
    <3>5. n - 1 <= Cardinality(W[n - 1])
      BY <2>5, <3>1
    <3>6. n <= Cardinality(W[n])
      BY <2>4, <2>8, <3>3, <3>4, <3>5
    <3> QED
      BY <2>2, <2>6, <3>6
  <2> QED
    BY <2>7, <2>8
<1>4. Good(m)
  BY <1>1, <1>3
<1>5. ASSUME m <= Cardinality(W[m]) PROVE W[m] = present
  <2>1. W[m] \in SUBSET present /\ Cardinality(W[m]) <= Cardinality(present)
    BY <1>4, FS_Subset
  <2>2. IsFiniteSet(W[m]) /\ Cardinality(W[m]) \in Nat
    BY <2>1, FS_Subset, FS_CardinalityType
  <2>3. Cardinality(W[m]) = Cardinality(present)
    BY <1>1, <1>5, <2>1, <2>2 DEF m
  <2> QED
    BY <2>1, <2>3, FS_Subset
<1> QED
  BY <1>2, <1>4, <1>5 DEF Closed

-----------------------------------------------------------------------------
(* The references of the inventory.                                        *)

Owned == {"slot", "rink", "venue", "organization"}
InventoryFacts(e) ==
  /\ e[3] \in {"delete", "detach", "retain"}
  /\ e[3] = "delete" /\ e[1] \in Owned => e[2] \in Owned
  /\ e[3] = "delete" => e[1] # "account"
  /\ e[3] = "delete" /\ e[2] \in Messages => e[1] \in Messages
  /\ e[1] = "game" /\ e[2] = "slot" => e[3] = "detach"
  /\ e[3] = "delete" /\ e[1] = "context" => e[2] = "account"

LEMMA SetupFacts == \A e \in SetupReferences : InventoryFacts(e)
BY DEF SetupReferences, Goes, Clears, Keeps, InventoryFacts, Owned, Messages

LEMMA GameFacts == \A e \in GameReferences : InventoryFacts(e)
BY DEF GameReferences, Goes, Clears, Keeps, InventoryFacts, Owned, Messages

LEMMA PeopleFacts == \A e \in PeopleReferences : InventoryFacts(e)
BY DEF PeopleReferences, Goes, Clears, Keeps, InventoryFacts, Owned, Messages

LEMMA LinkFacts ==
  ASSUME NEW l \in Links
  PROVE  /\ l = [from |-> l.from, to |-> l.to, rule |-> l.rule] /\ l.from \in Records /\ l.to \in Records
         /\ l.rule \in {"delete", "detach", "retain"}
         /\ l.rule = "delete" /\ EntityOf[l.from] \in Owned => EntityOf[l.to] \in Owned
         /\ l.rule = "delete" => EntityOf[l.from] # "account"
         /\ l.rule = "delete" /\ EntityOf[l.to] \in Messages => EntityOf[l.from] \in Messages
         /\ EntityOf[l.from] = "game" /\ EntityOf[l.to] = "slot" => l.rule = "detach"
         /\ l.rule = "delete" /\ EntityOf[l.from] = "context" => EntityOf[l.to] = "account"
<1>1. l = [from |-> l.from, to |-> l.to, rule |-> l.rule] /\ l.from \in Records /\ l.to \in Records
  BY LinksAreInventoried
<1>2. <<EntityOf[l.from], EntityOf[l.to], l.rule>> \in SetupReferences \cup GameReferences \cup PeopleReferences
  BY LinksAreInventoried
<1>3. InventoryFacts(<<EntityOf[l.from], EntityOf[l.to], l.rule>>)
  BY <1>2, SetupFacts, GameFacts, PeopleFacts
<1> QED
  BY <1>1, <1>3 DEF InventoryFacts

-----------------------------------------------------------------------------
(* The removal of subtrees.                                                *)

\* Ice is given to one game at a time.
OnePlacement ==
  \A l, k \in links :
    EntityOf[l.from] = "game" /\ EntityOf[k.from] = "game" /\ EntityOf[l.to] = "slot" /\ l.to = k.to => l.from = k.from
GraphShape ==
  /\ present \subseteq Records /\ links \subseteq Links /\ flags \subseteq present
  /\ GraphSound /\ OnePlacement

\* An unspent preview: numbered, of a kind that is previewed, and with a
\* fingerprint that says what was shown.
Outstanding(row) ==
  /\ row.token \in DOMAIN shown /\ row.print.changes = shown[row.token]
  /\ EntityOf[row.root] \in RootKinds
PreviewsKept ==
  /\ Cardinality(DOMAIN shown) \in Nat /\ DOMAIN shown = 1..Cardinality(DOMAIN shown)
  /\ DOMAIN challenge = Admins /\ DOMAIN call = Admins
  /\ \A x \in Admins : /\ challenge[x] # Nil => Outstanding(challenge[x])
                       /\ call[x] # Nil => Outstanding(call[x])
  /\ \A x, y \in Admins : challenge[x] # Nil /\ challenge[y] # Nil /\ challenge[x].token = challenge[y].token => x = y
SubtreeInv == GraphShape /\ PreviewsKept /\ ExecutedAsShown

LEMMA SubtreeStarts ==
  ASSUME part \in {"team", "ice"}, DestructionInit PROVE SubtreeInv
<1>1. /\ present = World[part] /\ links = LinksWithin(World[part]) /\ flags = Flagged[part]
      /\ challenge = [x \in Admins |-> Nil] /\ call = [x \in Admins |-> Nil] /\ shown = <<>> /\ done = {}
  BY DEF DestructionInit, SubtreeInit
<1>2. /\ World[part] \subseteq Records /\ Flagged[part] \subseteq World[part]
      /\ \A s \in World[part] : EntityOf[s] = "slot" =>
           LET games == {l.from : l \in {k \in LinksWithin(World[part]) : k.to = s /\ EntityOf[k.from] = "game"}} IN
           /\ s \in Flagged[part] <=> games # {}
           /\ \A x, y \in games : x = y
  BY WorldAssumption
<1>3. present \subseteq Records /\ links \subseteq Links /\ flags \subseteq present /\ NoDangling
  BY <1>1, <1>2 DEF NoDangling, LinksWithin
<1>6. IceHeld
  BY <1>1, <1>2 DEF IceHeld, GamesIn, Of
<1>7. OnePlacement
  <2> SUFFICES ASSUME NEW l \in links, NEW k \in links, EntityOf[l.from] = "game", EntityOf[k.from] = "game",
                      EntityOf[l.to] = "slot", l.to = k.to
               PROVE  l.from = k.from
    BY DEF OnePlacement
  <2>1. l.to \in World[part] /\ {l, k} \subseteq LinksWithin(World[part])
    BY <1>1 DEF LinksWithin
  <2> QED
    BY <1>2, <2>1
<1>4. PreviewsKept
  <2>1. DOMAIN shown = {}
    BY <1>1
  <2>2. Cardinality(DOMAIN shown) = 0
    BY <2>1, FS_EmptySet
  <2> QED
    BY <1>1, <2>1, <2>2 DEF PreviewsKept
<1>5. ExecutedAsShown
  BY <1>1 DEF ExecutedAsShown
<1> QED
  BY <1>3, <1>4, <1>5, <1>6, <1>7 DEF SubtreeInv, GraphShape, GraphSound

LEMMA PreviewKeeps ==
  ASSUME SubtreeInv, NEW a1 \in Admins, NEW root, Preview(a1, root) PROVE SubtreeInv'
<1>0. PICK n, row : n = Cardinality(DOMAIN shown) /\ row = [token |-> n + 1, root |-> root, print |-> Fingerprint(root)]
  OBVIOUS
<1>1. /\ challenge' = [challenge EXCEPT ![a1] = row] /\ EntityOf[root] \in RootKinds
      /\ shown' = [t \in DOMAIN shown \cup {n + 1} |-> IF t = n + 1 THEN Effects(root) ELSE shown[t]]
      /\ UNCHANGED <<graph, call, done>>
  BY <1>0 DEF Preview
<1>2. row.token = n + 1 /\ row.root = root /\ row.print.changes = Effects(root)
  BY <1>0 DEF Fingerprint
<1>3. n \in Nat /\ DOMAIN shown = 1..n
  BY <1>0 DEF SubtreeInv, PreviewsKept
<1>4. GraphShape'
  BY <1>1 DEF graph, SubtreeInv, GraphShape, GraphSound, NoDangling, IceHeld, OnePlacement, GamesIn, Of
<1>5. DOMAIN shown' = 1..(n + 1) /\ shown'[n + 1] = Effects(root) /\ \A t \in 1..n : shown'[t] = shown[t]
  BY <1>1, <1>3
<1>6. Cardinality(DOMAIN shown') = n + 1
  BY <1>3, <1>5, FS_Interval
<1>7. /\ DOMAIN challenge' = Admins /\ challenge'[a1] = row
      /\ \A x \in Admins \ {a1} : challenge'[x] = challenge[x]
  BY <1>1 DEF SubtreeInv, PreviewsKept
<1>8. ASSUME NEW r, Outstanding(r) PROVE Outstanding(r)' /\ r.token # n + 1
  BY <1>3, <1>5, <1>8 DEF Outstanding
<1>9. Outstanding(row)'
  BY <1>1, <1>2, <1>3, <1>5 DEF Outstanding
<1>10. PreviewsKept'
  <2>1. n + 1 \in Nat /\ DOMAIN shown' = 1..Cardinality(DOMAIN shown') /\ DOMAIN call' = Admins
    BY <1>1, <1>3, <1>5, <1>6 DEF SubtreeInv, PreviewsKept
  <2>2. ASSUME NEW x \in Admins
        PROVE  /\ challenge'[x] # Nil => Outstanding(challenge[x])'
               /\ call'[x] # Nil => Outstanding(call[x])'
    <3>1. /\ challenge[x] # Nil => Outstanding(challenge[x])
          /\ call[x] # Nil => Outstanding(call[x])
          /\ call'[x] = call[x]
      BY <1>1 DEF SubtreeInv, PreviewsKept
    <3>2. \A t \in DOMAIN shown : t \in DOMAIN shown' /\ shown'[t] = shown[t]
      BY <1>3, <1>5
    <3>3. call[x] # Nil => Outstanding(call[x])'
      BY <3>1, <3>2 DEF Outstanding
    <3>4. CASE x = a1
      BY <3>1, <3>3, <3>4, <1>7, <1>9 DEF Outstanding
    <3>5. CASE x # a1
      BY <3>1, <3>2, <3>3, <3>5, <1>7 DEF Outstanding
    <3> QED
      BY <3>4, <3>5
  <2>3. ASSUME NEW x \in Admins, NEW y \in Admins, challenge'[x] # Nil, challenge'[y] # Nil,
               challenge'[x].token = challenge'[y].token
        PROVE  x = y
    <3>1. \A z \in Admins \ {a1} : challenge[z] # Nil => challenge[z].token # n + 1
      BY <1>8 DEF SubtreeInv, PreviewsKept
    <3> QED
      BY <2>3, <3>1, <1>2, <1>7 DEF SubtreeInv, PreviewsKept
  <2> QED
    BY <1>6, <1>7, <2>1, <2>2, <2>3 DEF PreviewsKept
<1>11. ExecutedAsShown'
  BY <1>1, <1>2, <1>3, <1>5, <1>7 DEF SubtreeInv, ExecutedAsShown
<1> QED
  BY <1>4, <1>10, <1>11 DEF SubtreeInv

LEMMA GraphStands ==
  ASSUME SubtreeInv, UNCHANGED <<present, links, flags>> PROVE GraphShape'
BY DEF SubtreeInv, GraphShape, GraphSound, NoDangling, IceHeld, OnePlacement, GamesIn, Of

LEMMA PreviewsStand ==
  ASSUME SubtreeInv, UNCHANGED <<challenge, call, shown, done>> PROVE PreviewsKept' /\ ExecutedAsShown'
BY DEF SubtreeInv, PreviewsKept, Outstanding, ExecutedAsShown

LEMMA InspectKeeps ==
  ASSUME SubtreeInv, NEW a1 \in Admins, NEW token, Inspect(a1, token) PROVE SubtreeInv'
<1>1. call' = [call EXCEPT ![a1] = challenge[a1]] /\ challenge[a1] # Nil /\ UNCHANGED <<present, links, flags, challenge, shown, done>>
  BY DEF Inspect, graph
<1>2. PreviewsKept'
  BY <1>1 DEF SubtreeInv, PreviewsKept, Outstanding
<1>3. ExecutedAsShown'
  BY <1>1 DEF SubtreeInv, ExecutedAsShown
<1> QED
  BY <1>1, <1>2, <1>3, GraphStands DEF SubtreeInv

LEMMA RefuseKeeps ==
  ASSUME SubtreeInv, NEW a1 \in Admins, Refuse(a1) PROVE SubtreeInv'
<1>1. call' = [call EXCEPT ![a1] = Nil] /\ UNCHANGED <<present, links, flags, challenge, shown, done>>
  BY DEF Refuse, graph
<1>2. PreviewsKept'
  BY <1>1 DEF SubtreeInv, PreviewsKept, Outstanding
<1>3. ExecutedAsShown'
  BY <1>1 DEF SubtreeInv, ExecutedAsShown
<1> QED
  BY <1>1, <1>2, <1>3, GraphStands DEF SubtreeInv

LEMMA ExpireKeeps ==
  ASSUME SubtreeInv, NEW a1 \in Admins, Expire(a1) PROVE SubtreeInv'
<1>1. challenge' = [challenge EXCEPT ![a1] = Nil] /\ UNCHANGED <<present, links, flags, call, shown, done>>
  BY DEF Expire, graph
<1>2. PreviewsKept'
  BY <1>1 DEF SubtreeInv, PreviewsKept, Outstanding
<1>3. ExecutedAsShown'
  BY <1>1 DEF SubtreeInv, PreviewsKept, ExecutedAsShown
<1> QED
  BY <1>1, <1>2, <1>3, GraphStands DEF SubtreeInv

\* A closure takes everything that cannot stay without it.
LEMMA ClosureFacts ==
  ASSUME GraphShape, NEW root \in present, NEW gone, gone = DeletionClosure({root})
  PROVE  /\ root \in gone /\ gone \subseteq present
         /\ \A l \in links : l.rule = "delete" /\ l.to \in gone => l.from \in gone
         /\ \A some : root \in some /\ (\A l \in links : l.rule = "delete" /\ l.to \in some => l.from \in some)
                        => gone \subseteq some
<1> DEFINE arrows == {<<l.to, l.from>> : l \in Ruled("delete")}
<1>1. gone = Reached({root}, arrows)
  BY DEF DeletionClosure
<1>2. IsFiniteSet(present) /\ {root} \in SUBSET present
  BY LinksAreInventoried, FS_Subset DEF GraphShape
<1>3. \A x \in arrows : x[2] \in present
  BY DEF GraphShape, GraphSound, NoDangling, Ruled
<1>4. ASSUME NEW some PROVE Closed(some, arrows) <=> \A l \in links : l.rule = "delete" /\ l.to \in some => l.from \in some
  <2>1. ASSUME Closed(some, arrows), NEW l \in links, l.rule = "delete", l.to \in some PROVE l.from \in some
    <3>1. <<l.to, l.from>> \in arrows
      BY <2>1 DEF Ruled
    <3> QED
      BY <2>1, <3>1 DEF Closed
  <2>2. ASSUME \A l \in links : l.rule = "delete" /\ l.to \in some => l.from \in some PROVE Closed(some, arrows)
    BY <2>2 DEF Closed, Ruled
  <2> QED
    BY <2>1, <2>2
<1> HIDE DEF arrows
<1>5. gone \subseteq present /\ Closed(gone, arrows)
  BY <1>1, <1>2, <1>3, ReachedCloses
<1>6. {root} \subseteq gone /\ \A some : {root} \subseteq some /\ Closed(some, arrows) => gone \subseteq some
  BY <1>1, <1>2, ReachedIsLeast
<1> QED
  BY <1>4, <1>5, <1>6

\* The graph after an execution: what is gone, what it frees, what it cuts.
Carried(gone) ==
  /\ present' = present \ gone
  /\ links' = {l \in links \ Detached(gone) : l.from \notin gone}
  /\ flags' = flags \ (gone \cup Released(gone) \cup Deactivated(gone))

LEMMA ExecuteCarries ==
  ASSUME NEW a1, Execute(a1)
  PROVE  /\ call[a1].root \in present /\ Projectable(call[a1].root)
         /\ Carried(DeletionClosure({call[a1].root}))
<1> DEFINE gone == DeletionClosure({call[a1].root})
<1>1. Projectable(call[a1].root) /\ call[a1].root \in present /\ Perform(Effects(call[a1].root))
  BY DEF Execute, Projectable
<1>2. LET e == Effects(call[a1].root) IN
      e.deleted = gone /\ e.detached = Detached(gone) /\ e.released = Released(gone) /\ e.deactivated = Deactivated(gone)
  BY DEF Effects
<1>3. Carried(gone)
  BY <1>1, <1>2 DEF Perform, Carried
<1> QED
  BY <1>1, <1>3

LEMMA CarriedGraph ==
  ASSUME GraphShape, NEW gone, gone \subseteq present, Carried(gone),
         \A l \in links : l.rule = "delete" /\ l.to \in gone => l.from \in gone
  PROVE  GraphShape'
<1>1. present' \subseteq Records /\ links' \subseteq links /\ links' \subseteq Links /\ flags' \subseteq present'
  BY DEF GraphShape, Carried
<1>2. ASSUME NEW l \in links' PROVE l.from \notin gone /\ l.from \in Records /\ (l.rule # "retain" => {l.from, l.to} \subseteq present')
  <2>1. l \in links /\ l \in Links /\ l \notin Detached(gone) /\ l.from \notin gone
    BY <1>1 DEF Carried
  <2>2. l.rule \in {"delete", "detach", "retain"} /\ l.from \in Records
    BY <2>1, LinkFacts
  <2> QED
    BY <2>1, <2>2 DEF GraphShape, GraphSound, NoDangling, Detached, Ruled, Carried
<1>3. NoDangling'
  BY <1>2 DEF NoDangling
<1>4. ASSUME NEW s \in present', EntityOf[s] = "slot" PROVE s \in flags' <=> GamesIn({s})' # {}
  <2>1. s \in present /\ s \notin gone
    BY <1>4 DEF Carried
  <2>2. s \in flags <=> \E l \in links : l.to = s /\ EntityOf[l.from] = "game"
    BY <1>4, <2>1 DEF GraphShape, GraphSound, IceHeld, GamesIn, Of
  <2>3. s \in flags' <=> s \in flags /\ s \notin Released(gone)
    BY <1>4, <2>1 DEF Carried, Deactivated, Of
  <2>4. GamesIn({s})' # {} <=> \E l \in links' : l.to = s /\ EntityOf[l.from] = "game"
    BY DEF GamesIn
  <2>5. ASSUME NEW l \in links, l.to = s, l.from \notin gone PROVE l \in links'
    BY <2>1, <2>5 DEF Carried, Detached
  <2>6. s \in Released(gone) <=>
          /\ s \in flags
          /\ \E l \in links : l.from \in gone /\ EntityOf[l.from] = "game" /\ l.to = s
          /\ \A l \in links : EntityOf[l.from] = "game" /\ l.to = s => l.from \in gone
    BY <1>4, <2>1 DEF Released, Of
  <2>7. ASSUME s \in flags' PROVE \E l \in links' : l.to = s /\ EntityOf[l.from] = "game"
    BY <2>2, <2>3, <2>5, <2>6, <2>7
  <2>8. ASSUME NEW l \in links', l.to = s, EntityOf[l.from] = "game" PROVE s \in flags'
    BY <1>1, <1>2, <2>2, <2>3, <2>6, <2>8
  <2> QED
    BY <2>4, <2>7, <2>8
<1>5. IceHeld'
  BY <1>4 DEF IceHeld, Of
<1>6. OnePlacement'
  BY <1>1 DEF GraphShape, OnePlacement
<1> QED
  BY <1>1, <1>3, <1>5, <1>6 DEF GraphShape, GraphSound

LEMMA ExecuteKeeps ==
  ASSUME SubtreeInv, NEW a1 \in Admins, Execute(a1) PROVE SubtreeInv'
<1> DEFINE seen == call[a1]
<1>1. /\ seen # Nil /\ challenge[a1] = seen /\ Fingerprint(seen.root) = seen.print
      /\ call' = [call EXCEPT ![a1] = Nil] /\ challenge' = [challenge EXCEPT ![a1] = Nil]
      /\ done' = done \cup {[token |-> seen.token, changes |-> Effects(seen.root)]}
      /\ UNCHANGED shown
  BY DEF Execute, Spent
<1>2. GraphShape'
  <2>1. PICK gone : gone = DeletionClosure({call[a1].root})
    OBVIOUS
  <2>2. call[a1].root \in present /\ Carried(gone)
    BY <2>1, ExecuteCarries
  <2>3. GraphShape
    BY DEF SubtreeInv
  <2>4. gone \subseteq present /\ \A l \in links : l.rule = "delete" /\ l.to \in gone => l.from \in gone
    BY <2>1, <2>2, <2>3, ClosureFacts
  <2> QED
    BY <2>2, <2>3, <2>4, CarriedGraph
<1>3. PreviewsKept'
  BY <1>1 DEF SubtreeInv, PreviewsKept, Outstanding
<1>4. seen.token \in DOMAIN shown /\ seen.print.changes = shown[seen.token]
  BY <1>1 DEF SubtreeInv, PreviewsKept, Outstanding
<1>5. Effects(seen.root) = shown[seen.token]
  BY <1>1, <1>4 DEF Fingerprint
<1>6. \A old \in done : old.token # seen.token
  BY <1>1 DEF SubtreeInv, ExecutedAsShown
<1>7. DOMAIN challenge = Admins
      /\ \A x \in Admins : x # a1 /\ challenge[x] # Nil => challenge[x].token # seen.token
  BY <1>1 DEF SubtreeInv, PreviewsKept
<1>8. ExecutedAsShown'
  BY <1>1, <1>4, <1>5, <1>6, <1>7 DEF SubtreeInv, ExecutedAsShown
<1> QED
  BY <1>2, <1>3, <1>8 DEF SubtreeInv

LEMMA EditKeeps ==
  ASSUME SubtreeInv, UNCHANGED <<present, links, flags, challenge, call, shown, done>> PROVE SubtreeInv'
BY GraphStands, PreviewsStand DEF SubtreeInv

LEMMA FlagKeeps ==
  ASSUME SubtreeInv, NEW r \in Records, Flag(r) PROVE SubtreeInv'
<1>1. GraphShape'
  BY DEF Flag, SubtreeInv, GraphShape, GraphSound, NoDangling, IceHeld, OnePlacement, GamesIn, Of
<1> QED
  BY <1>1, PreviewsStand DEF SubtreeInv, Flag

LEMMA CancelKeeps ==
  ASSUME SubtreeInv, NEW r \in Records, Cancel(r) PROVE SubtreeInv'
<1> DEFINE ice == {l \in links : l.from = r /\ EntityOf[l.to] = "slot"}
<1>1. /\ EntityOf[r] = "game" /\ links' = links \ ice /\ flags' = flags \ {l.to : l \in ice}
      /\ UNCHANGED <<present, challenge, call, shown, done>>
  BY DEF Cancel
<1>2. /\ present' \subseteq Records /\ links' \subseteq Links /\ flags' \subseteq present' /\ NoDangling' /\ OnePlacement'
  BY <1>1 DEF SubtreeInv, GraphShape, GraphSound, NoDangling, OnePlacement
<1>3. ASSUME NEW s \in present, EntityOf[s] = "slot" PROVE s \in flags' <=> GamesIn({s})' # {}
  <2>1. s \in flags <=> \E l \in links : l.to = s /\ EntityOf[l.from] = "game"
    BY <1>3 DEF SubtreeInv, GraphShape, GraphSound, IceHeld, GamesIn, Of
  <2>2. GamesIn({s})' # {} <=> \E l \in links' : l.to = s /\ EntityOf[l.from] = "game"
    BY DEF GamesIn
  <2>3. CASE \E l \in ice : l.to = s
    BY <1>1, <1>3, <2>2, <2>3 DEF SubtreeInv, GraphShape, OnePlacement
  <2>4. CASE ~\E l \in ice : l.to = s
    BY <1>1, <1>3, <2>1, <2>2, <2>4
  <2> QED
    BY <2>3, <2>4
<1>4. IceHeld'
  BY <1>1, <1>3 DEF IceHeld, Of
<1> QED
  BY <1>1, <1>2, <1>4, PreviewsStand DEF SubtreeInv, GraphShape, GraphSound

LEMMA CreateKeeps ==
  ASSUME SubtreeInv, NEW r \in Records, Create(r) PROVE SubtreeInv'
<1>1. PICK held \in SUBSET {l \in Links : l.from = r /\ l.rule # "delete" /\ l.to \in present} :
        LET ice == {l.to : l \in {k \in held : EntityOf[k.from] = "game"}} IN
        /\ ice \cap flags = {}
        /\ links' = links \cup {l \in Links : l.from = r /\ l.rule = "delete"} \cup held
        /\ flags' = flags \cup (IF EntityOf[r] = "account" THEN {r} ELSE {}) \cup ice
  BY DEF Create
<1> DEFINE ice == {l.to : l \in {k \in held : EntityOf[k.from] = "game"}}
           new == {l \in Links : l.from = r /\ l.rule = "delete"} \cup held
<1>2. /\ r \notin present /\ Owner(r) /\ present' = present \cup {r}
      /\ UNCHANGED <<challenge, call, shown, done>>
  BY DEF Create
<1>3. /\ ice \subseteq present /\ ice \cap flags = {} /\ links' = links \cup new
      /\ flags' = flags \cup (IF EntityOf[r] = "account" THEN {r} ELSE {}) \cup ice
      /\ new \subseteq Links /\ \A l \in new : l.from = r /\ l.to \in present
  BY <1>1, <1>2 DEF Owner
<1>4. present' \subseteq Records /\ links' \subseteq Links /\ flags' \subseteq present' /\ NoDangling'
  BY <1>2, <1>3 DEF SubtreeInv, GraphShape, GraphSound, NoDangling
<1>5. ASSUME NEW s \in present', EntityOf[s] = "slot", NEW l \in links', l.to = s, EntityOf[l.from] = "game"
      PROVE  s \in present /\ (l \in new => s \in ice /\ l.from = r)
  <2>1. l.rule = "detach" /\ l \in Links
    BY <1>4, <1>5, LinkFacts
  <2>2. CASE l \in new
    <3>1. l \in held
      BY <2>1, <2>2
    <3> QED
      BY <1>3, <1>5, <2>2, <3>1
  <2>3. CASE l \in links /\ l \notin new
    BY <1>5, <2>1, <2>3 DEF SubtreeInv, GraphShape, GraphSound, NoDangling
  <2> QED
    BY <1>3, <1>5, <2>2, <2>3
<1>6. ASSUME NEW s \in present', EntityOf[s] = "slot" PROVE s \in flags' <=> GamesIn({s})' # {}
  <2>1. GamesIn({s})' # {} <=> \E l \in links' : l.to = s /\ EntityOf[l.from] = "game"
    BY DEF GamesIn
  <2>2. s \in present => (s \in flags <=> \E l \in links : l.to = s /\ EntityOf[l.from] = "game")
    BY <1>6 DEF SubtreeInv, GraphShape, GraphSound, IceHeld, GamesIn, Of
  <2>3. s \in flags' <=> s \in flags \/ s \in ice
    BY <1>3, <1>6
  <2>4. s \in flags => s \in present
    BY DEF SubtreeInv, GraphShape
  <2>5. s \in ice => \E l \in new : l.to = s /\ EntityOf[l.from] = "game"
    OBVIOUS
  <2> HIDE DEF ice, new
  <2> QED
    BY <1>3, <1>5, <1>6, <2>1, <2>2, <2>3, <2>4, <2>5
<1>7. IceHeld'
  BY <1>6 DEF IceHeld, Of
<1>8. OnePlacement'
  <2> SUFFICES ASSUME NEW l \in links', NEW k \in links', EntityOf[l.from] = "game", EntityOf[k.from] = "game",
                      EntityOf[l.to] = "slot", l.to = k.to
               PROVE  l.from = k.from
    BY DEF OnePlacement
  <2>1. l.to \in present' /\ (l \in new => l.to \in ice /\ l.from = r) /\ (k \in new => l.to \in ice /\ k.from = r)
    <3>1. l.rule = "detach"
      BY <1>4, LinkFacts
    <3>2. l.to \in present'
      BY <1>4, <3>1 DEF NoDangling
    <3> QED
      BY <3>2, <1>5
  <2>2. l.to \in present
    BY <1>5, <2>1
  <2>3. l.to \in flags <=> \E x \in links : x.to = l.to /\ EntityOf[x.from] = "game"
    BY <2>2 DEF SubtreeInv, GraphShape, GraphSound, IceHeld, GamesIn, Of
  <2> HIDE DEF ice, new
  <2> QED
    BY <1>3, <2>1, <2>3 DEF SubtreeInv, GraphShape, OnePlacement
<1> QED
  BY <1>2, <1>4, <1>7, <1>8, PreviewsStand DEF SubtreeInv, GraphShape, GraphSound

LEMMA SubtreeKeeps ==
  ASSUME SubtreeInv, (\E x \in Admins : SubtreeCall(x)) \/ OtherCall \/ UNCHANGED subtreeVars PROVE SubtreeInv'
<1>1. ASSUME NEW x \in Admins, SubtreeCall(x) PROVE SubtreeInv'
  BY <1>1, PreviewKeeps, InspectKeeps, ExecuteKeeps, RefuseKeeps, ExpireKeeps DEF SubtreeCall
<1>2. ASSUME NEW r \in Records, Create(r) \/ Edit(r) \/ Flag(r) \/ Cancel(r) PROVE SubtreeInv'
  BY <1>2, CreateKeeps, EditKeeps, FlagKeeps, CancelKeeps DEF Edit
<1>3. ASSUME UNCHANGED subtreeVars PROVE SubtreeInv'
  BY <1>3, EditKeeps DEF subtreeVars, graph
<1> QED
  BY <1>1, <1>2, <1>3 DEF OtherCall

\* Everything above a record that stays whole is above it still.
LEMMA GoverningFacts ==
  ASSUME GraphShape, NEW some \in SUBSET present, NEW above, above = Governing(some)
  PROVE  /\ some \subseteq above
         /\ \A l \in links : l.rule = "delete" /\ l.from \in above => l.to \in above
         /\ \A more : some \subseteq more /\ (\A l \in links : l.rule = "delete" /\ l.from \in more => l.to \in more)
                        => above \subseteq more
<1> DEFINE arrows == {<<l.from, l.to>> : l \in Ruled("delete")}
<1>1. above = Reached(some, arrows)
  BY DEF Governing
<1>2. IsFiniteSet(present)
  BY LinksAreInventoried, FS_Subset DEF GraphShape
<1>3. \A x \in arrows : x[2] \in present
  BY DEF GraphShape, GraphSound, NoDangling, Ruled
<1>4. ASSUME NEW more PROVE Closed(more, arrows) <=> \A l \in links : l.rule = "delete" /\ l.from \in more => l.to \in more
  <2>1. ASSUME Closed(more, arrows), NEW l \in links, l.rule = "delete", l.from \in more PROVE l.to \in more
    <3>1. <<l.from, l.to>> \in arrows
      BY <2>1 DEF Ruled
    <3> QED
      BY <2>1, <3>1 DEF Closed
  <2>2. ASSUME \A l \in links : l.rule = "delete" /\ l.from \in more => l.to \in more PROVE Closed(more, arrows)
    BY <2>2 DEF Closed, Ruled
  <2> QED
    BY <2>1, <2>2
<1> HIDE DEF arrows
<1>5. Closed(above, arrows)
  BY <1>1, <1>2, <1>3, ReachedCloses
<1>6. some \subseteq above /\ \A more : some \subseteq more /\ Closed(more, arrows) => above \subseteq more
  BY <1>1, <1>2, ReachedIsLeast
<1> QED
  BY <1>4, <1>5, <1>6

\* The ice an execution gives back is the only record it changes that is
\* neither removed nor detached, and what is above ice is never a season.
LEMMA NothingArchived ==
  ASSUME GraphShape, NEW some \in SUBSET present, NEW more \in SUBSET present, Archived(some) = {},
         \A r \in more : r \in some \/ EntityOf[r] = "slot"
  PROVE  Archived(more) = {}
<1>1. PICK above : above = Governing(some)
  OBVIOUS
<1>2. PICK beyond : beyond = Governing(more)
  OBVIOUS
<1> DEFINE wide == above \cup {r \in Records : EntityOf[r] \in Owned}
<1>3. some \subseteq above /\ \A l \in links : l.rule = "delete" /\ l.from \in above => l.to \in above
  BY <1>1, GoverningFacts
<1>4. more \subseteq wide
  BY <1>3 DEF GraphShape, Owned
<1>5. ASSUME NEW l \in links, l.rule = "delete", l.from \in wide PROVE l.to \in wide
  <2>1. l \in Links
    BY DEF GraphShape
  <2>2. l.to \in Records /\ (EntityOf[l.from] \in Owned => EntityOf[l.to] \in Owned)
    BY <1>5, <2>1, LinkFacts
  <2> QED
    BY <1>3, <1>5, <2>2
<1>6. beyond \subseteq wide
  <2> HIDE DEF wide
  <2> QED
    BY <1>2, <1>4, <1>5, GoverningFacts
<1>7. "season" \notin Owned
  BY DEF Owned
<1> QED
  BY <1>1, <1>2, <1>6, <1>7 DEF Archived, Of

\* What is removed with a record of the selected program is that program's.
LEMMA NothingForeign ==
  ASSUME GraphShape, NEW root \in present, EntityOf[root] \in RootKinds, NEW gone, gone = DeletionClosure({root}),
         ~Foreign(root), InProgram(gone)
  PROVE  \A r \in gone : EntityOf[r] \in Messages \/ ~Foreign(r)
<1> DEFINE spared == {r \in gone : EntityOf[r] # "account" /\ (EntityOf[r] \in Messages \/ ~Foreign(r))}
<1>1. /\ root \in gone /\ gone \subseteq present
      /\ \A l \in links : l.rule = "delete" /\ l.to \in gone => l.from \in gone
      /\ \A some : root \in some /\ (\A l \in links : l.rule = "delete" /\ l.to \in some => l.from \in some)
                    => gone \subseteq some
  BY ClosureFacts
<1>2. root \in spared
  BY <1>1 DEF RootKinds
<1>3. ASSUME NEW l \in links, l.rule = "delete", l.to \in spared PROVE l.from \in spared
  <2>1. l.from \in gone /\ l \in Links /\ l.from \in present
    BY <1>1, <1>3 DEF GraphShape
  <2>2. EntityOf[l.from] # "account" /\ (EntityOf[l.to] \in Messages => EntityOf[l.from] \in Messages)
    BY <1>3, <2>1, LinkFacts
  <2>3. ASSUME EntityOf[l.from] \notin Messages PROVE ~Foreign(l.from)
    <3>1. \/ ProgramAbove[l.from] = ProgramAbove[l.to]
          \/ <<EntityOf[l.from], EntityOf[l.to]>> \in
               {<<"access", "venue">>, <<"assignment", "official">>, <<"guardian", "account">>}
      BY <1>3, <2>1, <2>3, OwnersAgree
    <3>2. CASE ProgramAbove[l.from] = ProgramAbove[l.to]
      BY <1>3, <2>2, <2>3, <3>2 DEF Foreign
    <3>3. CASE EntityOf[l.from] = "access" /\ EntityOf[l.to] = "venue"
      <4>1. l.from \in Ties(l.to) /\ l.to \in gone /\ l.to \in Of("venue")
        BY <1>1, <1>3, <3>3 DEF Ties, Of
      <4> QED
        BY <4>1 DEF InProgram
    <3>4. CASE EntityOf[l.from] = "assignment" /\ EntityOf[l.to] = "official"
      BY <1>1, <1>3, <3>4 DEF InProgram, Ties, Of
    <3> QED
      BY <1>3, <3>1, <3>2, <3>3, <3>4
  <2> QED
    BY <2>1, <2>2, <2>3
<1>4. gone \subseteq spared
  <2> HIDE DEF spared
  <2> QED
    BY <1>1, <1>2, <1>3
<1> QED
  BY <1>4

LEMMA ExecuteSpares ==
  ASSUME SubtreeInv, NEW a1 \in Admins, Execute(a1) PROVE Spared
<1>1. PICK root, gone : root = call[a1].root /\ gone = DeletionClosure({root})
  OBVIOUS
<1>2. root \in present /\ Projectable(root) /\ Carried(gone) /\ GraphShape
  BY <1>1, ExecuteCarries DEF SubtreeInv
<1>3. EntityOf[root] \in RootKinds
  BY <1>1 DEF Execute, SubtreeInv, PreviewsKept, Outstanding
<1>4. ~Foreign(root) /\ InProgram(gone) /\ Frozen(gone) = {} /\ PlacedStays(gone)
  BY <1>1, <1>2 DEF Projectable
<1>5. gone \subseteq present
  BY <1>1, <1>2, ClosureFacts
<1> DEFINE changed == (present \ present') \cup {l.from : l \in links \ links'} \cup (flags \ flags')
           cut == {l.from : l \in Detached(gone)}
<1>6. ASSUME NEW r \in changed
      PROVE  r \in gone \/ r \in cut \/ (r \in Released(gone) /\ EntityOf[r] = "slot" /\ r \in present)
  <2>1. CASE r \in present \ present'
    BY <1>2, <2>1 DEF Carried
  <2>2. CASE r \in {l.from : l \in links \ links'}
    BY <1>2, <2>2 DEF Carried
  <2>3. CASE r \in flags \ flags'
    BY <1>2, <2>3 DEF Carried, Released, Deactivated, Of
  <2> QED
    BY <2>1, <2>2, <2>3
<1>7. cut \subseteq present
  <2> SUFFICES ASSUME NEW l \in Detached(gone) PROVE l.from \in present
    OBVIOUS
  <2>1. l \in links /\ l.rule = "detach"
    BY DEF Detached, Ruled
  <2> QED
    BY <1>2, <2>1 DEF GraphShape, GraphSound, NoDangling
<1>8. Archived(changed) = {}
  <2>1. PICK some, more : some = gone \cup cut /\ more = changed
    OBVIOUS
  <2>2. Archived(some) = {}
    BY <1>4, <2>1 DEF Frozen
  <2>3. some \in SUBSET present /\ more \in SUBSET present
    BY <1>5, <1>6, <1>7, <2>1
  <2>4. \A r \in more : r \in some \/ EntityOf[r] = "slot"
    BY <1>6, <2>1
  <2>5. Archived(more) = {}
    BY <1>2, <2>2, <2>3, <2>4, NothingArchived
  <2> QED
    BY <2>1, <2>5
<1>9. ASSUME NEW r \in changed, EntityOf[r] \notin Messages PROVE ~Foreign(r)
  <2>1. CASE r \in gone
    BY <1>1, <1>2, <1>3, <1>4, <1>9, <2>1, NothingForeign
  <2>2. CASE r \in cut
    <3>1. EntityOf[r] \in {"account", "context"} => ProgramAbove[r] = Nil
      BY <1>2, <1>7, <2>2, OwnersAgree DEF GraphShape
    <3> QED
      BY <1>4, <2>2, <3>1 DEF InProgram, Foreign
  <2>3. CASE EntityOf[r] = "slot" /\ r \in present
    BY <1>2, <2>3, OwnersAgree DEF Foreign, GraphShape
  <2> QED
    BY <1>6, <2>1, <2>2, <2>3
<1>10. ASSUME NEW g0 \in present' \cap flags, EntityOf[g0] = "game", NEW l \in links, l.from = g0, EntityOf[l.to] = "slot"
       PROVE  l \in links'
  BY <1>2, <1>4, <1>10 DEF PlacedStays, Carried
<1> QED
  BY <1>8, <1>9, <1>10 DEF Spared

LEMMA StepsSpare ==
  ASSUME SubtreeInv, (\E x \in Admins : SubtreeCall(x)) \/ OtherCall \/ UNCHANGED subtreeVars PROVE Spared
<1>1. ASSUME done' = done PROVE Spared
  BY <1>1 DEF Spared
<1>2. ASSUME NEW x \in Admins, SubtreeCall(x) PROVE Spared
  BY <1>1, <1>2, ExecuteSpares DEF SubtreeCall, Preview, Inspect, Refuse, Expire
<1>3. ASSUME NEW r \in Records, Create(r) \/ Edit(r) \/ Flag(r) \/ Cancel(r) PROVE Spared
  BY <1>1, <1>3 DEF Create, Edit, Flag, Cancel
<1> QED
  BY <1>1, <1>2, <1>3 DEF OtherCall, subtreeVars

-----------------------------------------------------------------------------
(* Both kinds of removal, in the steps of the whole.                       *)

RemovalInv == (part = "reset" => ResetInv) /\ (part \in {"team", "ice"} => SubtreeInv)
RemovalNext == (ContextNext /\ UNCHANGED removalVars) \/ RemovesSubtree \/ ResetsAll
AllVars == <<contextVars, removalVars>>

LEMMA RemovalStarts == DestructionInit => RemovalInv
BY SubtreeStarts, ResetStarts DEF DestructionInit, RemovalInv

LEMMA PartStays == RemovalNext \/ UNCHANGED AllVars => part' = part
BY DEF RemovalNext, AllVars, ContextNext, Switches, Changing, Elsewhere, RemovesSubtree, ResetsAll, contextVars

LEMMA ResetPart ==
  ASSUME RemovalInv, RemovalNext \/ UNCHANGED AllVars, part = "reset" PROVE ResetInv'
<1>1. ResetInv
  BY DEF RemovalInv
<1>2. CASE ResetsAll
  BY <1>1, <1>2, ResetKeeps DEF ResetsAll
<1>3. CASE UNCHANGED resetVars
  BY <1>1, <1>3, QuietKeeps DEF resetVars
<1> QED
  BY <1>2, <1>3 DEF RemovalNext, AllVars, removalVars, RemovesSubtree

LEMMA SubtreePart ==
  ASSUME RemovalInv, RemovalNext \/ UNCHANGED AllVars
  PROVE  /\ part \in {"team", "ice"} => SubtreeInv'
         /\ Spared
<1>1. ASSUME UNCHANGED subtreeVars PROVE Spared /\ (part \in {"team", "ice"} => SubtreeInv')
  BY <1>1, SubtreeKeeps DEF RemovalInv, Spared, subtreeVars
<1>2. CASE RemovesSubtree
  <2>1. part \in {"team", "ice"} /\ SubtreeInv
    BY <1>2 DEF RemovesSubtree, RemovalInv
  <2>2. Touched[part] \subseteq Records
    BY <2>1, WorldAssumption
  <2>3. (\E x \in Admins : SubtreeCall(x)) \/ OtherCall
    BY <1>2, <2>2 DEF RemovesSubtree, OtherCall
  <2> QED
    BY <2>1, <2>3, SubtreeKeeps, StepsSpare
<1> QED
  BY <1>1, <1>2 DEF RemovalNext, AllVars, removalVars, ResetsAll

LEMMA RemovalKeeps ==
  ASSUME RemovalInv, RemovalNext \/ UNCHANGED AllVars PROVE RemovalInv'
BY PartStays, ResetPart, SubtreePart DEF RemovalInv

(* What is deleted is what was previewed and confirmed, once, no reference *)
(* is left leading nowhere and no ice taken by a game that is gone; and    *)
(* the installation is emptied only as its owner's last preview counted    *)
(* it, by one process at a time: for any records and references of the     *)
(* inventory, any administrators, server processes and other writes.       *)
THEOREM RemovalIsSound == DestructionSpec => []RemovalSound
<1>1. RemovalInv => RemovalSound
  BY DEF RemovalInv, RemovalSound, ResetInv, SubtreeInv, GraphShape
<1>2. RemovalInv /\ [RemovalNext]_AllVars => RemovalInv'
  BY RemovalKeeps
<1> QED
  BY <1>1, <1>2, RemovalStarts, PTL DEF DestructionSpec, RemovalNext, AllVars

(* No execution changes anything under an archived season, anything of     *)
(* another program (but messages to those deleted), or the ice of a        *)
(* published game it keeps.                                                *)
THEOREM RemovalSpares == DestructionSpec => SubtreeSpares
<1>1. RemovalInv /\ [RemovalNext]_AllVars => RemovalInv'
  BY RemovalKeeps
<1>2. RemovalInv /\ [RemovalNext]_AllVars => [Spared]_subtreeVars
  BY SubtreePart
<1> QED
  BY <1>1, <1>2, RemovalStarts, PTL DEF DestructionSpec, RemovalNext, AllVars, SubtreeSpares

-----------------------------------------------------------------------------
(* The working context: what stands in every state of it.                  *)

CatalogueTyped ==
  /\ NoRecord \notin live /\ archived \subseteq Seasons
  /\ teamLeague \in [Teams -> Leagues] /\ \A x \in grants : x[2] \in Seasons
\* What plays in a season is a live league of the season's program.
BindingsStand ==
  \A b \in bindings :
    /\ b \in Leagues \X Seasons /\ b[1] \in live /\ b[2] \in live
    /\ ProgramOf[b[1]] = ProgramOf[b[2]]
OperatorsTyped ==
  /\ DOMAIN saved = Users /\ DOMAIN asked = Operators
  /\ \A u \in Users : saved[u].program \in Programs \cup {NoRecord}
  /\ \A u \in Operators : asked[u] \in Changes \cup {Idle}
ContextInv == CatalogueTyped /\ BindingsStand /\ OperatorsTyped

LEMMA ContextStarts == ASSUME ContextInit PROVE ContextInv
<1>1. CatalogueTyped
  BY StartAssumption, CatalogueAssumption DEF ContextInit, CatalogueTyped
<1>2. BindingsStand
  <2> SUFFICES ASSUME NEW b \in bindings
               PROVE  b \in Leagues \X Seasons /\ b[1] \in live /\ b[2] \in live /\ ProgramOf[b[1]] = ProgramOf[b[2]]
    BY DEF BindingsStand
  <2>1. /\ b = <<l1, s1>> \/ b = <<l2, s1>> \/ b = <<m1, t1>> \/ b = <<l2, s2>>
        /\ {s1, s2, t1, l1, l2, m1} \subseteq live
    BY DEF ContextInit
  <2> QED
    BY <2>1, StartAssumption
<1>3. OperatorsTyped
  BY DEF ContextInit, OperatorsTyped, NoRow
<1> QED
  BY <1>1, <1>2, <1>3 DEF ContextInv

LEMMA ProgramsReached ==
  ASSUME ContextInv, NEW u \in Users PROVE AuthorizedPrograms(u) \subseteq Programs
<1>1. LivePrograms \subseteq Programs
  BY DEF LivePrograms
<1>2. \A s \in OfficialSeasons(u) : ProgramOf[s] \in Programs
  <2>1. \A g \in Games : GameOf[g].season \in Seasons
    BY CatalogueAssumption
  <2>2. \A s \in Seasons : ProgramOf[s] \in Programs
    BY CatalogueAssumption
  <2> QED
    BY <2>1, <2>2 DEF OfficialSeasons, OfficialGames
<1>3. \A t \in OwnTeams(u) : ProgramOf[teamLeague[t]] \in Programs
  BY CatalogueAssumption DEF OwnTeams, ContextInv, CatalogueTyped
<1> QED
  BY <1>1, <1>2, <1>3 DEF AuthorizedPrograms

\* A change names its records by their kinds.
LEMMA NamedIs ==
  ASSUME NEW c, NEW kind, NEW t \in c.targets, t.kind = kind, \A o \in c.targets : o.kind = kind => o = t
  PROVE  Named(c, kind) = t.id
<1>1. (CHOOSE o \in c.targets : o.kind = kind) = t
  OBVIOUS
<1> QED
  BY <1>1 DEF Named

LEMMA TargetIs == \A kind, r, rule : Target(kind, r, rule).kind = kind /\ Target(kind, r, rule).id = r /\ Target(kind, r, rule).rule = rule
BY DEF Target

\* The changes, one by one, and what each names.
IsOne(c, op, targets) == c.op = op /\ c.targets = targets /\ c.axes = {}
LEMMA EachChange ==
  ASSUME NEW c \in Changes
  PROVE  \/ \E r \in DOMAIN KindOf : IsOne(c, "edit", {Scoped(KindOf[r], r)})
         \/ \E g \in Games : IsOne(c, "edit", {Scoped("game", g)})
         \/ \E r \in Programs : IsOne(c, "delete", {Scoped("program", r)})
         \/ \E s \in Seasons : IsOne(c, "delete", {Scoped("season", s)})
         \/ \E l \in Leagues : IsOne(c, "delete", {Scoped("league", l)})
         \/ \E b \in Leagues \X Seasons : IsOne(c, "unbind", {Scoped("league_season", b)})
         \/ \E t \in Teams, l \in Leagues : IsOne(c, "transfer", {Scoped("team", t), Scoped("league", l)})
         \/ \E s \in Seasons, v \in OfKind("venue") :
              IsOne(c, "grant", {Scoped("season", s), Target("venue", v, "grantable")})
         \/ \E l \in Leagues : IsOne(c, "team", {Target("league", l, "active_program_league")})
         \/ \E s \in Seasons : IsOne(c, "build", {Target("season", s, "active_season")})
         \/ \E l \in Leagues, s \in Seasons :
              c.op = "bind" /\ c.targets = {Scoped("league", l), Scoped("season", s)} /\ c.axes = {"program", "season"}
         \/ \E r \in Programs : c.op = "found" /\ c.targets = {Scoped("program", r)} /\ c.axes = {"program"}
<1>1. \A op, targets : IsOne(Change(op, targets), op, targets)
  BY DEF Change, Creation, IsOne
<1> DEFINE edits1 == {Change("edit", {Scoped(KindOf[r], r)}) : r \in DOMAIN KindOf}
           edits2 == {Change("edit", {Scoped("game", g)}) : g \in Games}
           dels1 == {Change("delete", {Scoped("program", r)}) : r \in Programs}
           dels2 == {Change("delete", {Scoped("season", s)}) : s \in Seasons}
           dels3 == {Change("delete", {Scoped("league", l)}) : l \in Leagues}
           unbinds == {Change("unbind", {Scoped("league_season", b)}) : b \in Leagues \X Seasons}
           moves == {Change("transfer", {Scoped("team", t), Scoped("league", l)}) : t \in Teams, l \in Leagues}
           gives == {Change("grant", {Scoped("season", s), Target("venue", v, "grantable")}) :
                       s \in Seasons, v \in OfKind("venue")}
           teams == {Change("team", {Target("league", l, "active_program_league")}) : l \in Leagues}
           builds == {Change("build", {Target("season", s, "active_season")}) : s \in Seasons}
           bindOf(l, s) == Creation("bind", {Scoped("league", l), Scoped("season", s)}, {"program", "season"})
           binds == {bindOf(l, s) : l \in Leagues, s \in Seasons}
           founds == {Creation("found", {Scoped("program", r)}, {"program"}) : r \in Programs}
<1>3. \/ c \in edits1 \/ c \in edits2 \/ c \in dels1 \/ c \in dels2 \/ c \in dels3 \/ c \in unbinds \/ c \in moves
      \/ c \in gives \/ c \in teams \/ c \in builds \/ c \in binds \/ c \in founds
  <2>1. Changes = edits1 \cup edits2 \cup dels1 \cup dels2 \cup dels3 \cup unbinds \cup moves \cup gives \cup teams
                  \cup builds \cup binds \cup founds
    BY DEF Changes
  <2> HIDE DEF edits1, edits2, dels1, dels2, dels3, unbinds, moves, gives, teams, builds, binds, founds
  <2> QED
    BY <2>1
<1>4. ASSUME c \in edits1
      PROVE  \E r \in DOMAIN KindOf : IsOne(c, "edit", {Scoped(KindOf[r], r)})
  BY <1>4, <1>1
<1>5. ASSUME c \in edits2
      PROVE  \E g \in Games : IsOne(c, "edit", {Scoped("game", g)})
  BY <1>5, <1>1
<1>6. ASSUME c \in dels1
      PROVE  \E r \in Programs : IsOne(c, "delete", {Scoped("program", r)})
  BY <1>6, <1>1
<1>7. ASSUME c \in dels2
      PROVE  \E s \in Seasons : IsOne(c, "delete", {Scoped("season", s)})
  BY <1>7, <1>1
<1>8. ASSUME c \in dels3
      PROVE  \E l \in Leagues : IsOne(c, "delete", {Scoped("league", l)})
  BY <1>8, <1>1
<1>9. ASSUME c \in unbinds
      PROVE  \E b \in Leagues \X Seasons : IsOne(c, "unbind", {Scoped("league_season", b)})
  BY <1>9, <1>1
<1>10. ASSUME c \in moves
      PROVE  \E t \in Teams, l \in Leagues : IsOne(c, "transfer", {Scoped("team", t), Scoped("league", l)})
  <2>1. PICK t \in Teams, l \in Leagues : c = Change("transfer", {Scoped("team", t), Scoped("league", l)})
    BY <1>10
  <2> QED
    BY <2>1, <1>1
<1>11. ASSUME c \in gives
      PROVE  \E s \in Seasons, v \in OfKind("venue") :
           IsOne(c, "grant", {Scoped("season", s), Target("venue", v, "grantable")})
  <2>1. PICK s \in Seasons, v \in OfKind("venue") :
               c = Change("grant", {Scoped("season", s), Target("venue", v, "grantable")})
    BY <1>11
  <2> QED
    BY <2>1, <1>1
<1>12. ASSUME c \in teams
      PROVE  \E l \in Leagues : IsOne(c, "team", {Target("league", l, "active_program_league")})
  BY <1>12, <1>1
<1>13. ASSUME c \in builds
      PROVE  \E s \in Seasons : IsOne(c, "build", {Target("season", s, "active_season")})
  BY <1>13, <1>1
<1>14. ASSUME c \in binds
      PROVE  \E l \in Leagues, s \in Seasons :
           c.op = "bind" /\ c.targets = {Scoped("league", l), Scoped("season", s)} /\ c.axes = {"program", "season"}
  <2>3. \E l \in Leagues, s \in Seasons : c = bindOf(l, s)
    <3> HIDE DEF bindOf
    <3> QED
      BY <1>14
  <2>1. PICK l \in Leagues, s \in Seasons :
               c = Creation("bind", {Scoped("league", l), Scoped("season", s)}, {"program", "season"})
    BY <2>3
  <2> QED
    BY <2>1 DEF Creation
<1>15. ASSUME c \in founds
      PROVE  \E r \in Programs : c.op = "found" /\ c.targets = {Scoped("program", r)} /\ c.axes = {"program"}
  <2>1. PICK r \in Programs : c = Creation("found", {Scoped("program", r)}, {"program"})
    BY <1>15
  <2> QED
    BY <2>1 DEF Creation
<1> HIDE DEF edits1, edits2, dels1, dels2, dels3, unbinds, moves, gives, teams, builds, binds, founds, IsOne
<1> QED
  BY <1>3, <1>4, <1>5, <1>6, <1>7, <1>8, <1>9, <1>10, <1>11, <1>12, <1>13, <1>14, <1>15, Zenon

LEMMA ChangeKinds ==
  ASSUME NEW c \in Changes
  PROVE  /\ c.op \in {"edit", "delete", "unbind", "transfer", "grant", "team", "build", "bind", "found"}
         /\ c.op = "bind" => Named(c, "league") \in Leagues /\ Named(c, "season") \in Seasons
         /\ c.op = "transfer" => Named(c, "league") \in Leagues /\ Named(c, "team") \in Teams
         /\ c.op = "grant" => Named(c, "season") \in Seasons
<1>1. CASE c.op \notin {"bind", "transfer", "grant"}
  BY <1>1, EachChange DEF IsOne
<1>2. CASE c.op = "bind"
  <2>1. PICK l \in Leagues, s \in Seasons : c.targets = {Scoped("league", l), Scoped("season", s)}
    BY <1>2, EachChange DEF IsOne
  <2>2. Named(c, "league") = l /\ Named(c, "season") = s
    <3>1. Scoped("league", l) \in c.targets /\ Scoped("season", s) \in c.targets
      BY <2>1
    <3>2. \A o \in c.targets : /\ o.kind = "league" => o = Scoped("league", l)
                               /\ o.kind = "season" => o = Scoped("season", s)
      BY <2>1, TargetIs DEF Scoped
    <3> QED
      BY <3>1, <3>2, TargetIs, NamedIs DEF Scoped
  <2> QED
    BY <1>2, <2>2
<1>3. CASE c.op = "transfer"
  <2>1. PICK t \in Teams, l \in Leagues : c.targets = {Scoped("team", t), Scoped("league", l)}
    BY <1>3, EachChange DEF IsOne
  <2>2. Named(c, "league") = l /\ Named(c, "team") = t
    <3>1. Scoped("league", l) \in c.targets /\ Scoped("team", t) \in c.targets
      BY <2>1
    <3>2. \A o \in c.targets : /\ o.kind = "league" => o = Scoped("league", l)
                               /\ o.kind = "team" => o = Scoped("team", t)
      BY <2>1, TargetIs DEF Scoped
    <3> QED
      BY <3>1, <3>2, TargetIs, NamedIs DEF Scoped
  <2> QED
    BY <1>3, <2>2
<1>4. CASE c.op = "grant"
  <2>1. PICK s \in Seasons, v \in OfKind("venue") : c.targets = {Scoped("season", s), Target("venue", v, "grantable")}
    BY <1>4, EachChange DEF IsOne
  <2>2. Named(c, "season") = s
    <3>1. Scoped("season", s) \in c.targets
      BY <2>1
    <3>2. \A o \in c.targets : o.kind = "season" => o = Scoped("season", s)
      BY <2>1, TargetIs DEF Scoped
    <3> QED
      BY <3>1, <3>2, TargetIs, NamedIs DEF Scoped
  <2> QED
    BY <1>4, <2>2
<1> QED
  BY <1>1, <1>2, <1>3, <1>4

WorldStands == CatalogueTyped /\ BindingsStand
LEMMA ApplyKeeps ==
  ASSUME WorldStands, NEW c \in Changes, Apply(c) PROVE WorldStands'
<1>1. CASE c.op \in {"edit", "team", "build", "found"}
  BY <1>1 DEF Apply, WorldStands, CatalogueTyped, BindingsStand, worldVars
<1>2. CASE c.op = "delete"
  <2>1. PICK r : ~Referenced(r) /\ live' = live \ {r} /\ archived' = archived \ {r}
                 /\ UNCHANGED <<bindings, teamLeague, registered, assigned, grants>>
    BY <1>2 DEF Apply
  <2>2. \A b \in bindings : r # b[1] /\ r # b[2]
    BY <2>1 DEF Referenced
  <2> QED
    BY <2>1, <2>2 DEF WorldStands, CatalogueTyped, BindingsStand
<1>3. CASE c.op = "unbind"
  BY <1>3 DEF Apply, WorldStands, CatalogueTyped, BindingsStand
<1>4. CASE c.op = "bind"
  <2>1. /\ {Named(c, "league"), Named(c, "season")} \subseteq live
        /\ ProgramOf[Named(c, "league")] = ProgramOf[Named(c, "season")]
        /\ bindings' = bindings \cup {<<Named(c, "league"), Named(c, "season")>>}
        /\ UNCHANGED <<live, archived, teamLeague, registered, assigned, grants>>
    BY <1>4 DEF Apply
  <2>2. Named(c, "league") \in Leagues /\ Named(c, "season") \in Seasons
    BY <1>4, ChangeKinds
  <2> QED
    BY <2>1, <2>2 DEF WorldStands, CatalogueTyped, BindingsStand
<1>5. CASE c.op = "transfer"
  <2>1. /\ teamLeague' = [teamLeague EXCEPT ![Named(c, "team")] = Named(c, "league")]
        /\ UNCHANGED <<live, archived, bindings, registered, assigned, grants>>
    BY <1>5 DEF Apply
  <2>2. Named(c, "league") \in Leagues
    BY <1>5, ChangeKinds
  <2> QED
    BY <2>1, <2>2 DEF WorldStands, CatalogueTyped, BindingsStand
<1>6. CASE c.op = "grant"
  <2>1. grants' = grants \cup {<<Named(c, "venue"), Named(c, "season")>>} /\ UNCHANGED worldVars
    BY <1>6 DEF Apply
  <2>2. Named(c, "season") \in Seasons
    BY <1>6, ChangeKinds
  <2> QED
    BY <2>1, <2>2 DEF WorldStands, CatalogueTyped, BindingsStand, worldVars
<1> QED
  BY <1>1, <1>2, <1>3, <1>4, <1>5, <1>6, ChangeKinds

LEMMA SwitchSaves ==
  ASSUME NEW u, Switch(u)
  PROVE  /\ UNCHANGED worldVars
         /\ \E where, s, l, more :
               where \in AuthorizedPrograms(u) /\ saved' = [saved EXCEPT ![u] = Row(where, s, l, more)]
BY DEF Switch, SetContext, SetWithLeague, Save

LEMMA SwitchKeeps ==
  ASSUME ContextInv, NEW u \in Users, Switch(u), UNCHANGED <<grants, asked>> PROVE ContextInv'
<1>1. UNCHANGED worldVars
  BY SwitchSaves
<1>2. PICK where, s, l, more : where \in AuthorizedPrograms(u) /\ saved' = [saved EXCEPT ![u] = Row(where, s, l, more)]
  BY SwitchSaves
<1>3. Row(where, s, l, more).program \in Programs
  BY <1>2, ProgramsReached DEF Row
<1> QED
  BY <1>1, <1>2, <1>3 DEF ContextInv, CatalogueTyped, BindingsStand, OperatorsTyped, worldVars

LEMMA ContextQuiet == ASSUME ContextInv, UNCHANGED contextVars PROVE ContextInv'
BY DEF ContextInv, CatalogueTyped, BindingsStand, OperatorsTyped, contextVars, gateVars, worldVars

LEMMA ContextKeeps == ASSUME ContextInv, ContextNext PROVE ContextInv'
<1>1. ASSUME Switches PROVE ContextInv'
  BY <1>1, SwitchKeeps DEF Switches, Operators
<1>2. ASSUME NEW u \in Operators, NEW c \in Changes, Ask(u, c) PROVE ContextInv'
  BY <1>2 DEF Ask, ContextInv, CatalogueTyped, BindingsStand, OperatorsTyped, worldVars
<1>3. ASSUME NEW u \in Operators, Commit(u) PROVE ContextInv'
  <2>1. asked[u] \in Changes /\ Apply(asked[u]) /\ UNCHANGED saved /\ asked' = [asked EXCEPT ![u] = Idle]
    BY <1>3 DEF Commit, Done, ContextInv, OperatorsTyped
  <2>2. WorldStands'
    BY <2>1, ApplyKeeps DEF ContextInv, WorldStands
  <2> QED
    BY <2>1, <2>2 DEF ContextInv, WorldStands, OperatorsTyped
<1>4. ASSUME NEW u \in Operators, Refused(u) PROVE ContextInv'
  BY <1>4 DEF Refused, Done, ContextInv, CatalogueTyped, BindingsStand, OperatorsTyped, worldVars
<1>5. ASSUME Meanwhile PROVE ContextInv'
  BY <1>5 DEF Meanwhile, ArchiveOrReopen, RegisterOrNot, AssignOrNot,
              ContextInv, CatalogueTyped, BindingsStand, OperatorsTyped
<1>6. ASSUME NEW c \in Changes, Apply(c), UNCHANGED <<saved, asked>> PROVE ContextInv'
  BY <1>6, ApplyKeeps DEF ContextInv, WorldStands, OperatorsTyped
<1> QED
  BY <1>1, <1>2, <1>3, <1>4, <1>5, <1>6 DEF ContextNext, Changing, Elsewhere

LEMMA ContextAlways == DestructionSpec => []ContextInv
<1>1. DestructionInit => ContextInv
  BY ContextStarts DEF DestructionInit
<1>2. ContextInv /\ [RemovalNext]_AllVars => ContextInv'
  BY ContextKeeps, ContextQuiet DEF RemovalNext, AllVars, RemovesSubtree, ResetsAll
<1> QED
  BY <1>1, <1>2, PTL DEF DestructionSpec, RemovalNext, AllVars

-----------------------------------------------------------------------------
(* Switching.                                                              *)

LEMMA SwitchTogether ==
  ASSUME ContextInv, NEW u \in Users, Switch(u), NEW x \in Users, saved'[x] # saved[x], saved'[x].league # NoRecord
  PROVE  /\ <<saved'[x].league, saved'[x].season>> \in bindings
         /\ ProgramOf[saved'[x].league] = saved'[x].program /\ ProgramOf[saved'[x].season] = saved'[x].program
<1>1. PICK c \in Choices(u) :
        \/ c.league = NoRecord /\ SetContext(u, c.program, c.season)
        \/ c.league # NoRecord /\ SetWithLeague(u, c.program, c.season, c.league)
  BY DEF Switch
<1>2. \A where, s, l, more : /\ Row(where, s, l, more).program = where /\ Row(where, s, l, more).season = s
                             /\ Row(where, s, l, more).league = l
  BY DEF Row
<1>3. DOMAIN saved = Users
  BY DEF ContextInv, OperatorsTyped
<1>4. ~SetContext(u, c.program, c.season)
  BY <1>2, <1>3 DEF SetContext, Save
<1>5. /\ c.season = NoRecord \/ c.season \in AuthorizedSeasons(u, c.program)
      /\ c.league \in AuthorizedLeagues(u, c.program)
  BY <1>1, <1>4 DEF SetWithLeague
<1>6. PICK s, more :
        /\ s \in CanonicalSeasons(u, c.program, c.season, c.league)
        /\ saved' = [saved EXCEPT ![u] = Row(c.program, s, c.league, more)]
  BY <1>1, <1>4 DEF SetWithLeague, Save
<1>7. saved'[x] = Row(c.program, s, c.league, more)
  BY <1>3, <1>6
<1>8. <<c.league, s>> \in bindings /\ s \in AuthorizedSeasons(u, c.program)
  BY <1>5, <1>6 DEF CanonicalSeasons, EnterableSeasons
<1>9. ProgramOf[c.league] = c.program /\ ProgramOf[s] = c.program
  BY <1>5, <1>8 DEF AuthorizedLeagues, ProgramLeagues, AuthorizedSeasons, ProgramSeasons
<1> QED
  BY <1>2, <1>7, <1>8, <1>9

LEMMA SavedBySwitch ==
  ASSUME RemovalNext \/ UNCHANGED AllVars, saved' # saved PROVE \E u \in Users : Switch(u)
<1>1. CASE ContextNext
  <2>1. CASE Switches
    BY <2>1 DEF Switches, Operators
  <2>2. CASE Changing \/ Elsewhere
    BY <2>2 DEF Changing, Elsewhere, Ask, Commit, Refused, Meanwhile
  <2> QED
    BY <1>1, <2>1, <2>2 DEF ContextNext
<1> QED
  BY <1>1 DEF RemovalNext, AllVars, contextVars, gateVars, RemovesSubtree, ResetsAll

(* Whatever list it was chosen from, a saved league plays in the season    *)
(* saved with it and both are the saved program's.                         *)
THEOREM SwitchesLand == DestructionSpec => SwitchLandsTogether
<1>1. ContextInv /\ [RemovalNext]_AllVars =>
        [\A u \in Users :
           (saved'[u] # saved[u] /\ saved'[u].league # NoRecord) =>
             LET row == saved'[u] IN
             /\ <<row.league, row.season>> \in bindings
             /\ ProgramOf[row.league] = row.program /\ ProgramOf[row.season] = row.program]_<<worldVars, saved>>
  BY SwitchTogether, SavedBySwitch
<1> QED
  BY <1>1, ContextAlways, PTL DEF DestructionSpec, RemovalNext, AllVars, SwitchLandsTogether

-----------------------------------------------------------------------------
(* Writing in a chosen context.                                            *)

\* What a saved row stands for: each part as saved, or nothing.
LEMMA SelectionFacts ==
  ASSUME ContextInv, NEW u \in Users
  PROVE  LET chosen == SavedSelection(u) IN
         /\ chosen = Tuple(chosen.program, chosen.season, chosen.league)
         /\ chosen.program # NoRecord =>
              /\ chosen.program = saved[u].program /\ SavedProgramStands(u)
              /\ chosen.season = IF SavedSeasonStands(u) THEN saved[u].season ELSE NoRecord
              /\ chosen.season # NoRecord => SavedSeasonStands(u)
              /\ (chosen.season = saved[u].season /\ saved[u].league \in LeaguesIn(u, saved[u].program, saved[u].season))
                   => chosen.league = saved[u].league
<1> DEFINE t == Tuple(saved[u].program, IF SavedSeasonStands(u) THEN saved[u].season ELSE NoRecord, NoRecord)
<1>1. CASE ~SavedProgramStands(u)
  BY <1>1 DEF SavedSelection, Nothing, Tuple
<1>2. CASE SavedProgramStands(u)
  <2>1. SavedSelection(u) = WithLeague(u, t)
    BY <1>2 DEF SavedSelection
  <2>2. /\ t.program = saved[u].program /\ t.league = NoRecord
        /\ t.season = IF SavedSeasonStands(u) THEN saved[u].season ELSE NoRecord
        /\ t = [program |-> t.program, season |-> t.season, league |-> NoRecord]
    BY DEF Tuple
  <2> HIDE DEF t
  <2> QED
    BY <1>2, <2>1, <2>2 DEF WithLeague, Tuple
<1> QED
  BY <1>1, <1>2

\* An operator works in the whole installation.
LEMMA OperatorReach ==
  ASSUME NEW u \in Operators
  PROVE  /\ u \in Users /\ AuthorizedPrograms(u) = LivePrograms
         /\ \A where : AuthorizedSeasons(u, where) = ProgramSeasons(where)
         /\ \A where : AuthorizedLeagues(u, where) = ProgramLeagues(where)
BY DEF Operators, AuthorizedPrograms, AuthorizedSeasons, AuthorizedLeagues, ProgramSeasons, ProgramLeagues

LEMMA TupleParts ==
  \A where, s, l : /\ Tuple(where, s, l).program = where /\ Tuple(where, s, l).season = s /\ Tuple(where, s, l).league = l
BY DEF Tuple

\* The records the server's changes name, and what their edges lead to.
LEMMA SeasonEdges ==
  ASSUME NEW s \in Seasons
  PROVE  Edges("season", s) = {Tuple(ProgramOf[s], s, NoRecord)} /\ s # NoRecord
BY CatalogueAssumption DEF Edges
LEMMA LeagueEdges ==
  ASSUME NEW l \in Leagues
  PROVE  Edges("league", l) = {Tuple(ProgramOf[l], NoRecord, l)} /\ l # NoRecord
BY CatalogueAssumption DEF Edges
LEMMA ProgramEdges ==
  ASSUME NEW r \in Programs
  PROVE  Edges("program", r) = {Tuple(r, NoRecord, NoRecord)} /\ r # NoRecord
BY CatalogueAssumption DEF Edges
LEMMA TeamLinks ==
  ASSUME ContextInv, NEW t \in Teams
  PROVE  /\ TeamEdges(t) = {Tuple(ProgramOf[teamLeague[t]], NoRecord, teamLeague[t])}
         /\ teamLeague[t] \in Leagues /\ teamLeague[t] # NoRecord
BY CatalogueAssumption DEF TeamEdges, ContextInv, CatalogueTyped
LEMMA BindingLinks ==
  ASSUME NEW b \in Leagues \X Seasons
  PROVE  /\ BindingEdges(b) = {Tuple(ProgramOf[b[2]], b[2], b[1])}
         /\ b[1] # NoRecord /\ b[2] # NoRecord /\ b[1] \in Leagues /\ b[2] \in Seasons
BY CatalogueAssumption DEF BindingEdges

LEMMA GameLinks ==
  ASSUME NEW g \in Games
  PROVE  /\ GameEdges(g) = {Tuple(ProgramOf[GameOf[g].season], GameOf[g].season, GameOf[g].league)}
         /\ GameOf[g].season \in Seasons /\ GameOf[g].season # NoRecord
<1>1. /\ GameOf[g].season \in Seasons /\ GameOf[g].season # NoRecord
      /\ GameOf[g].league # NoRecord => ProgramOf[GameOf[g].league] = ProgramOf[GameOf[g].season]
  BY CatalogueAssumption
<1>2. {e.program : e \in GameConstraints(g)} = {ProgramOf[GameOf[g].season]}
  <2>1. Tuple(ProgramOf[GameOf[g].season], GameOf[g].season, NoRecord) \in GameConstraints(g)
    BY <1>1 DEF GameConstraints
  <2>2. \A e \in GameConstraints(g) : e.program = ProgramOf[GameOf[g].season]
    BY <1>1, TupleParts DEF GameConstraints
  <2> QED
    BY <2>1, <2>2, TupleParts
<1>3. Cardinality({e.program : e \in GameConstraints(g)}) = 1
  BY <1>2, FS_Singleton
<1> QED
  BY <1>1, <1>3 DEF GameEdges

LeagueOwned == {"team", "player", "league_season", "division"}

\* A record of a season leads to seasons only, one of a league to a league.
LEMMA EdgesHave ==
  ASSUME ContextInv, NEW c \in Changes, NEW t \in c.targets
  PROVE  /\ t.kind \in SeasonOwned => \A e \in Edges(t.kind, t.id) : e.season # NoRecord
         /\ t.kind \in LeagueOwned => Edges(t.kind, t.id) # {} /\ \A e \in Edges(t.kind, t.id) : e.league # NoRecord
<1> DEFINE Has(kind, r) ==
             /\ kind \in SeasonOwned => \A e \in Edges(kind, r) : e.season # NoRecord
             /\ kind \in LeagueOwned => Edges(kind, r) # {} /\ \A e \in Edges(kind, r) : e.league # NoRecord
<1>1. ASSUME NEW r \in DOMAIN KindOf PROVE Has(KindOf[r], r)
  <2>1. /\ KindOf[r] = "player" => Up[r] \in Teams
        /\ KindOf[r] = "division" => Up[r] \in Leagues \X Seasons
        /\ KindOf[r] \in {"club", "player", "official", "venue", "rink", "ice_slot", "organization", "division"}
    BY SetupAssumption
  <2>2. CASE KindOf[r] = "player"
    <3>1. Edges(KindOf[r], r) = TeamEdges(Up[r]) /\ Up[r] \in Teams
      BY <2>1, <2>2 DEF Edges
    <3> QED
      BY <2>2, <3>1, TeamLinks, TupleParts DEF SeasonOwned
  <2>3. CASE KindOf[r] = "division"
    <3>1. Edges(KindOf[r], r) = BindingEdges(Up[r]) /\ Up[r] \in Leagues \X Seasons
      BY <2>1, <2>3 DEF Edges
    <3> QED
      BY <3>1, BindingLinks, TupleParts
  <2>4. CASE KindOf[r] \notin {"player", "division"}
    BY <2>1, <2>4 DEF SeasonOwned, LeagueOwned
  <2> QED
    BY <2>2, <2>3, <2>4
<1>2. ASSUME NEW g \in Games PROVE Has("game", g)
  <2>1. Edges("game", g) = GameEdges(g)
    BY DEF Edges
  <2> QED
    BY <2>1, GameLinks, TupleParts DEF LeagueOwned
<1>3. \A r : Has("program", r) /\ Has("league", r) /\ Has("venue", r)
  BY DEF SeasonOwned, LeagueOwned
<1>4. ASSUME NEW s \in Seasons PROVE Has("season", s)
  BY SeasonEdges, TupleParts DEF LeagueOwned
<1>5. ASSUME NEW b \in Leagues \X Seasons PROVE Has("league_season", b)
  <2>1. Edges("league_season", b) = BindingEdges(b)
    BY DEF Edges
  <2> QED
    BY <2>1, BindingLinks, TupleParts
<1>6. ASSUME NEW x \in Teams PROVE Has("team", x)
  <2>1. Edges("team", x) = TeamEdges(x)
    BY DEF Edges
  <2> QED
    BY <2>1, TeamLinks, TupleParts DEF SeasonOwned
<1>7. Has(t.kind, t.id)
  <2> HIDE DEF Has
  <2> QED
    BY EachChange, TargetIs, <1>1, <1>2, <1>3, <1>4, <1>5, <1>6 DEF IsOne, Scoped
<1> QED
  BY <1>7

\* What the gate lets through is the selection's own.
LEMMA AllowedIsOwn ==
  ASSUME ContextInv, NEW u \in Operators, NEW t, SavedSelection(u).program # NoRecord,
         t.kind \in SeasonOwned => SavedSelection(u).season # NoRecord,
         t.kind \in SeasonOwned => \A e \in Edges(t.kind, t.id) : e.season # NoRecord,
         t.rule \in {"scope", "grantable", "active_program_league", "active_season"},
         t.rule = "active_program_league" => t.kind = "league" /\ t.id \in Leagues,
         t.rule = "active_season" => t.kind = "season" /\ t.id \in Seasons,
         Allowed(u, t)
  PROVE  /\ Own(u, t)
         /\ (t.kind \in LeagueOwned /\ Edges(t.kind, t.id) # {} /\ (\A e \in Edges(t.kind, t.id) : e.league # NoRecord)
               /\ t.rule = "scope" /\ saved[u].league \in LeaguesIn(u, saved[u].program, saved[u].season))
              => saved[u].league \in {e.league : e \in Edges(t.kind, t.id)}
<1> DEFINE chosen == SavedSelection(u)
<1>1. GateTuple(u) = chosen
  BY DEF GateTuple
<1>2. /\ chosen.program = saved[u].program /\ SavedProgramStands(u)
      /\ chosen.season # NoRecord => SavedSeasonStands(u) /\ chosen.season = saved[u].season
      /\ chosen.season = (IF SavedSeasonStands(u) THEN saved[u].season ELSE NoRecord)
      /\ (chosen.season = saved[u].season /\ saved[u].league \in LeaguesIn(u, saved[u].program, saved[u].season))
           => chosen.league = saved[u].league
  BY SelectionFacts, OperatorReach
<1> HIDE DEF chosen
<1>3. CASE t.rule = "grantable"
  BY <1>3 DEF Own
<1>4. CASE t.rule = "active_program_league"
  <2>1. ProgramOf[t.id] = chosen.program /\ Edges("league", t.id) = {Tuple(ProgramOf[t.id], NoRecord, t.id)}
    BY <1>1, <1>4, LeagueEdges DEF Allowed
  <2> QED
    BY <1>2, <1>4, <2>1, TupleParts DEF Own, SeasonOwned
<1>5. CASE t.rule = "active_season"
  <2>1. chosen.season = t.id /\ Edges("season", t.id) = {Tuple(ProgramOf[t.id], t.id, NoRecord)}
    BY <1>1, <1>5, SeasonEdges DEF Allowed
  <2>2. ProgramOf[t.id] = saved[u].program /\ saved[u].season = t.id
    <3>1. t.id # NoRecord
      BY <1>5, SeasonEdges
    <3> QED
      BY <1>2, <2>1, <3>1, OperatorReach DEF SavedSeasonStands, ProgramSeasons
  <2> QED
    BY <1>5, <2>1, <2>2, TupleParts DEF Own
<1>6. CASE t.rule = "scope"
  <2>1. Accessible(u, t.kind, t.id)
    BY <1>6 DEF Allowed
  <2>2. CASE Edges(t.kind, t.id) = {}
    BY <1>6, <2>1, <2>2 DEF Own, Accessible
  <2>3. CASE Edges(t.kind, t.id) # {}
    <3>1. PICK e \in Edges(t.kind, t.id) : EdgeAllows(e, chosen)
      BY <1>1, <2>1, <2>3 DEF Accessible
    <3>2. e.program = saved[u].program /\ (t.kind \in SeasonOwned => e.season = saved[u].season)
      BY <1>2, <3>1 DEF EdgeAllows, chosen
    <3>3. Own(u, t)
      BY <3>2 DEF Own
    <3>4. ASSUME saved[u].league \in LeaguesIn(u, saved[u].program, saved[u].season), e.league # NoRecord
          PROVE  e.league = saved[u].league
      <4>1. saved[u].league # NoRecord /\ saved[u].league \in Leagues /\ saved[u].league \in ProgramLeagues(saved[u].program)
        <5>1. saved[u].league \in AuthorizedLeagues(u, saved[u].program)
          BY <3>4 DEF LeaguesIn
        <5>2. saved[u].league \in ProgramLeagues(saved[u].program)
          BY <5>1, OperatorReach
        <5>3. NoRecord \notin Leagues
          BY CatalogueAssumption
        <5> QED
          BY <5>2, <5>3 DEF ProgramLeagues
      <4>2. saved[u].season = NoRecord \/ SavedSeasonStands(u)
        <5>1. ASSUME saved[u].season # NoRecord PROVE saved[u].season \in ProgramSeasons(saved[u].program)
          <6>1. <<saved[u].league, saved[u].season>> \in bindings
            BY <3>4, <5>1 DEF LeaguesIn
          <6>2. \A l, s : <<l, s>> \in bindings => s \in Seasons /\ s \in live /\ ProgramOf[l] = ProgramOf[s]
            <7> SUFFICES ASSUME NEW l, NEW s, <<l, s>> \in bindings
                         PROVE  s \in Seasons /\ s \in live /\ ProgramOf[l] = ProgramOf[s]
              OBVIOUS
            <7>1. PICK b \in bindings : b = <<l, s>>
              OBVIOUS
            <7> QED
              BY <7>1 DEF ContextInv, BindingsStand
          <6> QED
            BY <4>1, <6>1, <6>2 DEF ProgramSeasons, ProgramLeagues
        <5> QED
          BY <5>1, OperatorReach DEF SavedSeasonStands
      <4>3. chosen.season = saved[u].season
        BY <1>2, <4>2
      <4>4. chosen.league = saved[u].league
        BY <1>2, <3>4, <4>3
      <4> QED
        BY <3>1, <3>4, <4>1, <4>4 DEF EdgeAllows
    <3> QED
      BY <3>3, <3>4
  <2> QED
    BY <2>2, <2>3
<1> QED
  BY <1>3, <1>4, <1>5, <1>6 DEF LeagueOwned

\* A decision to create is one about the parents.
LEMMA CreateIsOwn ==
  ASSUME ContextInv, NEW u \in Operators, NEW c \in Changes, c.op \in {"bind", "found"}, CreateAllowed(u, c.axes, c.targets)
  PROVE  \A t \in c.targets : Own(u, t) /\ t.kind \notin LeagueOwned
<1> DEFINE chosen == SavedSelection(u)
<1>1. chosen.program # NoRecord =>
        /\ chosen.program = saved[u].program
        /\ chosen.season # NoRecord => chosen.season = saved[u].season
  BY SelectionFacts, OperatorReach
<1> HIDE DEF chosen
<1>2. CASE c.op = "bind"
  <2>1. PICK l \in Leagues, s \in Seasons :
          c.targets = {Scoped("league", l), Scoped("season", s)} /\ c.axes = {"program", "season"}
    BY <1>2, EachChange DEF IsOne
  <2>2. PICK lt, st : lt = Scoped("league", l) /\ st = Scoped("season", s)
    OBVIOUS
  <2>3. lt.kind = "league" /\ lt.id = l /\ st.kind = "season" /\ st.id = s
    BY <2>2, TargetIs DEF Scoped
  <2>4. Edges(lt.kind, lt.id) = {Tuple(ProgramOf[l], NoRecord, l)} /\ Edges(st.kind, st.id) = {Tuple(ProgramOf[s], s, NoRecord)}
    BY <2>3, LeagueEdges, SeasonEdges
  <2>5. ~AxisFree(u, lt)
    BY <2>4 DEF AxisFree
  <2>6. lt \in c.targets /\ st \in c.targets /\ "season" \in c.axes
    BY <2>1, <2>2
  <2>7. chosen.program # NoRecord /\ chosen.season # NoRecord
    BY <2>5, <2>6 DEF CreateAllowed, chosen
  <2>8. /\ chosen.program \in {e.program : e \in Edges(lt.kind, lt.id)}
        /\ chosen.program \in {e.program : e \in Edges(st.kind, st.id)}
        /\ {e.season : e \in Edges(st.kind, st.id)} \ {NoRecord} # {} =>
             chosen.season \in {e.season : e \in Edges(st.kind, st.id)} \ {NoRecord}
    BY <2>4, <2>6, <2>7 DEF CreateAllowed, chosen
  <2>9. s # NoRecord
    BY SeasonEdges
  <2>10. chosen.season = s
    BY <2>4, <2>8, <2>9, TupleParts
  <2>11. Own(u, lt)
    BY <1>1, <2>3, <2>7, <2>8 DEF Own, SeasonOwned
  <2>12. Own(u, st)
    BY <1>1, <2>4, <2>7, <2>8, <2>10, TupleParts DEF Own
  <2> QED
    BY <2>1, <2>2, <2>3, <2>11, <2>12 DEF LeagueOwned
<1>3. CASE c.op = "found"
  <2>1. PICK r \in Programs : c.targets = {Scoped("program", r)} /\ c.axes = {"program"}
    BY <1>3, EachChange DEF IsOne
  <2>2. PICK t : t = Scoped("program", r)
    OBVIOUS
  <2>3. t.kind = "program" /\ t.id = r /\ t \in c.targets
    BY <2>1, <2>2, TargetIs DEF Scoped
  <2>4. Edges(t.kind, t.id) = {Tuple(r, NoRecord, NoRecord)}
    BY <2>3, ProgramEdges
  <2>5. ~AxisFree(u, t) /\ "season" \notin c.axes
    BY <2>1, <2>4 DEF AxisFree
  <2>6. chosen.program # NoRecord
    BY <2>3, <2>5 DEF CreateAllowed, chosen
  <2>7. chosen.program \in {e.program : e \in Edges(t.kind, t.id)}
    BY <2>3, <2>4, <2>5, <2>6 DEF CreateAllowed, chosen
  <2>8. Own(u, t)
    BY <1>1, <2>3, <2>6, <2>7 DEF Own, SeasonOwned
  <2> QED
    BY <2>1, <2>2, <2>3, <2>8 DEF LeagueOwned
<1> QED
  BY <1>2, <1>3

LEMMA RulesOf ==
  ASSUME NEW c \in Changes, NEW t \in c.targets
  PROVE  /\ t.rule \in {"scope", "grantable", "active_program_league", "active_season"}
         /\ t.rule = "active_program_league" => t.kind = "league" /\ t.id \in Leagues
         /\ t.rule = "active_season" => t.kind = "season" /\ t.id \in Seasons
BY EachChange, TargetIs DEF IsOne, Scoped

\* A change that is made was decided for in the state it is made in.
LEMMA CommitIsChosen ==
  ASSUME ContextInv, NEW u \in Operators, NEW c \in Changes, Decide(u, c)
  PROVE  /\ c.op \in {"bind", "found"} \/ saved[u].program \in LivePrograms
         /\ \A t \in c.targets : Own(u, t)
         /\ \A t \in c.targets :
              (t.kind \in LeagueOwned /\ t.rule = "scope"
                /\ saved[u].league \in LeaguesIn(u, saved[u].program, saved[u].season))
                  => saved[u].league \in {e.league : e \in Edges(t.kind, t.id)}
<1>1. CASE c.op \in {"bind", "found"}
  <2>1. CreateAllowed(u, c.axes, c.targets)
    BY <1>1 DEF Decide
  <2> QED
    BY <1>1, <2>1, CreateIsOwn
<1>2. CASE c.op \notin {"bind", "found"}
  <2>1. Chosen(u, {t.kind : t \in c.targets}) /\ \A t \in c.targets : Allowed(u, t)
    BY <1>2 DEF Decide
  <2>2. SavedSelection(u).program # NoRecord
    BY <2>1 DEF Chosen
  <2>3. \A t \in c.targets : t.kind \in SeasonOwned => SavedSelection(u).season # NoRecord
    BY <2>1 DEF Chosen
  <2>4. saved[u].program \in LivePrograms
    BY <2>2, SelectionFacts, OperatorReach DEF SavedProgramStands
  <2>5. ASSUME NEW t \in c.targets
        PROVE  /\ Own(u, t)
               /\ (t.kind \in LeagueOwned /\ t.rule = "scope"
                    /\ saved[u].league \in LeaguesIn(u, saved[u].program, saved[u].season))
                      => saved[u].league \in {e.league : e \in Edges(t.kind, t.id)}
    <3>1. /\ t.kind \in SeasonOwned => \A e \in Edges(t.kind, t.id) : e.season # NoRecord
          /\ t.kind \in LeagueOwned => Edges(t.kind, t.id) # {} /\ \A e \in Edges(t.kind, t.id) : e.league # NoRecord
      BY EdgesHave
    <3>2. /\ t.rule \in {"scope", "grantable", "active_program_league", "active_season"}
          /\ t.rule = "active_program_league" => t.kind = "league" /\ t.id \in Leagues
          /\ t.rule = "active_season" => t.kind = "season" /\ t.id \in Seasons
      BY RulesOf
    <3>3. Allowed(u, t) /\ (t.kind \in SeasonOwned => SavedSelection(u).season # NoRecord)
      BY <2>1, <2>3
    <3> QED
      BY <2>2, <3>1, <3>2, <3>3, AllowedIsOwn
  <2> QED
    BY <2>4, <2>5
<1> QED
  BY <1>1, <1>2

ChosenWrite ==
  made' # Idle =>
    LET u == made'.by  c == made'.change IN
    /\ c.op \in {"bind", "found"} \/ saved[u].program \in LivePrograms
    /\ \A t \in c.targets : Own(u, t) \/ (c.op = "found" /\ t.id \notin live)
    /\ \A t \in c.targets :
         (t.kind \in {"team", "player", "league_season", "division"} /\ t.rule = "scope"
           /\ saved[u].league \in LeaguesIn(u, saved[u].program, saved[u].season))
             => saved[u].league \in {e.league : e \in Edges(t.kind, t.id)}

LEMMA StepsAreChosen ==
  ASSUME ContextInv, RemovalNext \/ UNCHANGED AllVars PROVE ChosenWrite \/ UNCHANGED gateVars
<1>1. ASSUME made' = Idle PROVE ChosenWrite
  BY <1>1 DEF ChosenWrite
<1>2. ASSUME NEW u \in Operators, Commit(u) PROVE ChosenWrite
  <2>1. PICK c \in Changes : c = asked[u]
    BY <1>2 DEF Commit, ContextInv, OperatorsTyped
  <2>2. Decide(u, c) /\ made'.by = u /\ made'.change = c
    BY <1>2, <2>1 DEF Commit, Made
  <2> QED
    BY <2>2, CommitIsChosen DEF ChosenWrite, LeagueOwned
<1>3. CASE ContextNext
  <2>1. CASE Switches \/ Elsewhere
    BY <1>1, <2>1 DEF Switches, Elsewhere, Meanwhile
  <2>2. CASE Changing
    BY <1>1, <1>2, <2>2 DEF Changing, Ask, Refused
  <2> QED
    BY <1>3, <2>1, <2>2 DEF ContextNext
<1> QED
  BY <1>3 DEF RemovalNext, AllVars, contextVars, RemovesSubtree, ResetsAll

(* Whatever was linked, removed, switched or closed since its page was     *)
(* served, a change is made only of records that its operator's own saved  *)
(* selection reaches when it is made.                                      *)
THEOREM WritesAreChosen == DestructionSpec => ChosenWrites
<1>1. ContextInv /\ [RemovalNext]_AllVars => [ChosenWrite]_gateVars
  BY StepsAreChosen
<1> QED
  BY <1>1, ContextAlways, PTL DEF DestructionSpec, RemovalNext, AllVars, ChosenWrites, ChosenWrite

-----------------------------------------------------------------------------
(* What a read shows.                                                      *)

LEMMA FirstAndLatest ==
  ASSUME NEW F \in (SUBSET Programs) \cup (SUBSET Seasons), F # {}
  PROVE  First(F) \in F /\ Latest(F) \in F
<1>1. IsFiniteSet(F) /\ \A x \in F : Rank[x] \in Nat
  BY CatalogueAssumption, FS_Subset
<1> DEFINE ranks == {Rank[x] : x \in F}
<1>2. ranks \in SUBSET Nat /\ ranks # {}
  BY <1>1
<1>3. PICK n \in ranks : \A m \in ranks : n <= m
  <2> HIDE DEF ranks
  <2> QED
    BY <1>2, LeastNumber
<1> DEFINE later(x) == {y \in F : Rank[x] < Rank[y]}
           sizes == {Cardinality(later(x)) : x \in F}
<1>4. ASSUME NEW x \in F PROVE IsFiniteSet(later(x)) /\ Cardinality(later(x)) \in Nat
  <2>1. later(x) \in SUBSET F
    OBVIOUS
  <2> HIDE DEF later
  <2> QED
    BY <1>1, <2>1, FS_Subset, FS_CardinalityType
<1>7. sizes \in SUBSET Nat /\ sizes # {}
  <2> HIDE DEF later
  <2> QED
    BY <1>4
<1>8. PICK k \in sizes : \A j \in sizes : k <= j
  <2> HIDE DEF sizes
  <2> QED
    BY <1>7, LeastNumber
<1>9. PICK last \in F : k = Cardinality(later(last))
  <2> HIDE DEF later
  <2> QED
    BY <1>8
<1>10. ASSUME NEW y \in later(last) PROVE FALSE
  <2>1. y \in F /\ later(y) \in SUBSET later(last) /\ y \notin later(y)
    BY <1>1
  <2>2. Cardinality(later(y)) \in sizes
    BY <2>1
  <2> HIDE DEF later
  <2>3. Cardinality(later(y)) <= Cardinality(later(last)) /\ Cardinality(later(y)) # Cardinality(later(last))
    BY <1>4, <1>9, <1>10, <2>1, FS_Subset
  <2> HIDE DEF sizes
  <2>4. Cardinality(later(last)) <= Cardinality(later(y))
    BY <1>8, <1>9, <2>2
  <2> QED
    BY <1>4, <2>1, <2>3, <2>4
<1>5. \E x \in F : \A y \in F : Rank[x] <= Rank[y]
  BY <1>3
<1>6. \E x \in F : \A y \in F : Rank[y] <= Rank[x]
  BY <1>1, <1>9, <1>10
<1> QED
  BY <1>5, <1>6 DEF First, Latest

\* The fallback is something open, or nothing where nothing may be seen.
LEMMA FallbackStands ==
  ASSUME ContextInv, NEW u \in Users
  PROVE  LET t == Fallback(u) IN
         /\ t = Tuple(t.program, t.season, NoRecord)
         /\ t.program = NoRecord => AuthorizedPrograms(u) = {}
         /\ t.program # NoRecord => t.program \in AuthorizedPrograms(u)
         /\ t.season # NoRecord => /\ t.program # NoRecord
                                   /\ t.season \in AuthorizedSeasons(u, t.program) /\ t.season \notin archived
<1> DEFINE open == {where \in AuthorizedPrograms(u) : AuthorizedSeasons(u, where) \ archived # {}}
<1>1. AuthorizedPrograms(u) \in SUBSET Programs /\ NoRecord \notin Programs
  BY ProgramsReached, CatalogueAssumption
<1>2. CASE open # {}
  <2>1. First(open) \in open
    BY <1>1, <1>2, FirstAndLatest
  <2>2. PICK first : first = First(open)
    OBVIOUS
  <2>3. AuthorizedSeasons(u, first) \ archived \in SUBSET Seasons /\ AuthorizedSeasons(u, first) \ archived # {}
    BY <2>1, <2>2 DEF AuthorizedSeasons, ProgramSeasons
  <2>4. Latest(AuthorizedSeasons(u, first) \ archived) \in AuthorizedSeasons(u, first) \ archived
    BY <2>3, FirstAndLatest
  <2>5. Fallback(u) = Tuple(first, Latest(AuthorizedSeasons(u, first) \ archived), NoRecord)
    BY <1>2, <2>2 DEF Fallback
  <2> QED
    BY <1>1, <2>1, <2>2, <2>4, <2>5, TupleParts
<1>3. CASE open = {} /\ AuthorizedPrograms(u) # {}
  <2>1. Fallback(u) = Tuple(First(AuthorizedPrograms(u)), NoRecord, NoRecord)
    BY <1>3 DEF Fallback
  <2>2. First(AuthorizedPrograms(u)) \in AuthorizedPrograms(u)
    BY <1>1, <1>3, FirstAndLatest
  <2> QED
    BY <1>1, <2>1, <2>2, TupleParts
<1>4. CASE open = {} /\ AuthorizedPrograms(u) = {}
  BY <1>4, TupleParts DEF Fallback, Nothing
<1> QED
  BY <1>2, <1>3, <1>4

LEMMA ResolvedStands ==
  ASSUME ContextInv, NEW u \in Users
  PROVE  LET t == ResolvedSeason(u) IN
         /\ t = Tuple(t.program, t.season, NoRecord)
         /\ t.program = NoRecord => AuthorizedPrograms(u) = {}
         /\ t.program # NoRecord => t.program \in AuthorizedPrograms(u)
         /\ t.season # NoRecord => t.program # NoRecord /\ t.season \in AuthorizedSeasons(u, t.program)
         /\ t.season \in archived => t.season = saved[u].season
         /\ SavedProgramStands(u) /\ (saved[u].season = NoRecord \/ SavedSeasonStands(u)) =>
              t.program = saved[u].program /\ t.season = saved[u].season
<1>1. AuthorizedPrograms(u) \subseteq Programs /\ NoRecord \notin Programs /\ NoRecord \notin archived
  BY ProgramsReached, CatalogueAssumption DEF ContextInv, CatalogueTyped
<1>2. CASE SavedProgramStands(u) /\ (saved[u].season = NoRecord \/ SavedSeasonStands(u))
  <2>1. ResolvedSeason(u) = Tuple(saved[u].program, saved[u].season, NoRecord)
    BY <1>2 DEF ResolvedSeason
  <2> QED
    BY <1>1, <1>2, <2>1, TupleParts DEF SavedProgramStands, SavedSeasonStands
<1>3. CASE ~(SavedProgramStands(u) /\ (saved[u].season = NoRecord \/ SavedSeasonStands(u)))
  <2>1. ResolvedSeason(u) = Fallback(u)
    BY <1>3 DEF ResolvedSeason
  <2> QED
    BY <1>1, <1>3, <2>1, FallbackStands
<1> QED
  BY <1>2, <1>3

LEMMA LeagueAdded ==
  ASSUME NEW u, NEW t, t = Tuple(t.program, t.season, NoRecord)
  PROVE  LET shown1 == WithLeague(u, t) IN
         /\ shown1 = Tuple(t.program, t.season, shown1.league)
         /\ shown1.program = t.program /\ shown1.season = t.season
         /\ shown1.league # NoRecord => shown1.league \in LeaguesIn(u, t.program, t.season)
         /\ (/\ t.program # NoRecord /\ saved[u].program = t.program /\ saved[u].season = t.season
             /\ saved[u].league \in LeaguesIn(u, t.program, t.season)) => shown1.league = saved[u].league
<1>1. t = [program |-> t.program, season |-> t.season, league |-> NoRecord] /\ t.league = NoRecord
  BY DEF Tuple
<1>2. [t EXCEPT !.league = saved[u].league] = Tuple(t.program, t.season, saved[u].league)
  BY <1>1 DEF Tuple
<1> QED
  BY <1>1, <1>2, TupleParts DEF WithLeague

LEMMA SelectionHolds == ASSUME ContextInv PROVE SelectionStands
<1> SUFFICES ASSUME NEW u \in Users
             PROVE  LET shown1 == Resolve(u) IN
                    /\ shown1.program = NoRecord => AuthorizedPrograms(u) = {}
                    /\ shown1.program # NoRecord =>
                         /\ shown1.program \in AuthorizedPrograms(u)
                         /\ shown1.season # NoRecord => shown1.season \in AuthorizedSeasons(u, shown1.program)
                         /\ shown1.league # NoRecord => shown1.league \in LeaguesIn(u, shown1.program, shown1.season)
                    /\ shown1.season \in archived => shown1.season = saved[u].season
                    /\ (saved[u].program \in AuthorizedPrograms(u)
                          /\ saved[u].season \in AuthorizedSeasons(u, saved[u].program) \cup {NoRecord})
                         => /\ [shown1 EXCEPT !.league = saved[u].league] = TupleOf(saved[u])
                            /\ saved[u].league \in LeaguesIn(u, saved[u].program, saved[u].season)
                                 => shown1.league = saved[u].league
  BY DEF SelectionStands
<1>1. PICK t : t = ResolvedSeason(u)
  OBVIOUS
<1>2. PICK seen : seen = Resolve(u) /\ seen = WithLeague(u, t)
  BY <1>1 DEF Resolve
<1>3. /\ t = Tuple(t.program, t.season, NoRecord)
      /\ t.program = NoRecord => AuthorizedPrograms(u) = {}
      /\ t.program # NoRecord => t.program \in AuthorizedPrograms(u)
      /\ t.season # NoRecord => t.program # NoRecord /\ t.season \in AuthorizedSeasons(u, t.program)
      /\ t.season \in archived => t.season = saved[u].season
      /\ SavedProgramStands(u) /\ (saved[u].season = NoRecord \/ SavedSeasonStands(u)) =>
           t.program = saved[u].program /\ t.season = saved[u].season
  BY <1>1, ResolvedStands
<1>4. /\ seen = Tuple(t.program, t.season, seen.league)
      /\ seen.program = t.program /\ seen.season = t.season
      /\ seen.league # NoRecord => seen.league \in LeaguesIn(u, t.program, t.season)
      /\ (/\ t.program # NoRecord /\ saved[u].program = t.program /\ saved[u].season = t.season
          /\ saved[u].league \in LeaguesIn(u, t.program, t.season)) => seen.league = saved[u].league
  BY <1>2, <1>3, LeagueAdded
<1>5. ASSUME saved[u].program \in AuthorizedPrograms(u),
             saved[u].season \in AuthorizedSeasons(u, saved[u].program) \cup {NoRecord}
      PROVE  /\ [seen EXCEPT !.league = saved[u].league] = TupleOf(saved[u])
             /\ saved[u].league \in LeaguesIn(u, saved[u].program, saved[u].season) => seen.league = saved[u].league
  <2>1. t.program = saved[u].program /\ t.season = saved[u].season
    BY <1>3, <1>5 DEF SavedProgramStands, SavedSeasonStands
  <2>2. t.program # NoRecord
    BY <1>5, <2>1, ProgramsReached, CatalogueAssumption
  <2>3. [seen EXCEPT !.league = saved[u].league] = Tuple(t.program, t.season, saved[u].league)
    BY <1>4 DEF Tuple
  <2> QED
    BY <1>4, <2>1, <2>2, <2>3 DEF TupleOf
<1> QED
  BY <1>2, <1>3, <1>4, <1>5

LEMMA ReachHolds == ASSUME ContextInv PROVE ChosenStaysInReach
<1> SUFFICES ASSUME NEW u \in Operators, saved[u].program \in live
             PROVE  Decide(u, Change("delete", {Target("program", saved[u].program, "scope")}))
  BY DEF ChosenStaysInReach
<1>1. PICK r : r = saved[u].program
  OBVIOUS
<1>2. u \in Users /\ AuthorizedPrograms(u) = LivePrograms
  BY OperatorReach
<1>3. r \in Programs /\ r \in LivePrograms /\ SavedProgramStands(u)
  BY <1>1, <1>2 DEF ContextInv, OperatorsTyped, CatalogueTyped, LivePrograms, SavedProgramStands
<1>4. SavedSelection(u).program = r
  <2>1. PICK t : t = Tuple(saved[u].program, IF SavedSeasonStands(u) THEN saved[u].season ELSE NoRecord, NoRecord)
    OBVIOUS
  <2>2. t = Tuple(t.program, t.season, NoRecord) /\ t.program = r
    BY <1>1, <2>1, TupleParts
  <2>3. SavedSelection(u) = WithLeague(u, t)
    BY <1>3, <2>1 DEF SavedSelection
  <2> QED
    BY <2>2, <2>3, LeagueAdded
<1>5. Edges("program", r) = {Tuple(r, NoRecord, NoRecord)} /\ r # NoRecord
  BY <1>3, ProgramEdges
<1>6. GateTuple(u) = SavedSelection(u) /\ GateTuple(u).program = r
  BY <1>4, <1>5 DEF GateTuple
<1>7. EdgeAllows(Tuple(r, NoRecord, NoRecord), GateTuple(u))
  BY <1>6, TupleParts DEF EdgeAllows
<1>8. Accessible(u, "program", r)
  BY <1>1, <1>5, <1>7 DEF Accessible, Exists
<1>9. PICK t : t = Target("program", r, "scope")
  OBVIOUS
<1>10. t.kind = "program" /\ t.id = r /\ t.rule = "scope"
  BY <1>9, TargetIs
<1>11. Allowed(u, t)
  BY <1>5, <1>6, <1>8, <1>10 DEF Allowed
<1>12. PICK c : c = Change("delete", {t})
  OBVIOUS
<1>13. c.op = "delete" /\ c.targets = {t}
  BY <1>12 DEF Change, Creation
<1>14. Chosen(u, {x.kind : x \in c.targets})
  BY <1>4, <1>5, <1>10, <1>13 DEF Chosen, SeasonOwned
<1> QED
  BY <1>1, <1>9, <1>11, <1>12, <1>13, <1>14 DEF Decide

-----------------------------------------------------------------------------
(* The page and the gate.                                                  *)

Listable == {"club", "official", "venue", "rink", "ice_slot", "organization", "division"}
ByEdges(u, kind, r, t) ==
  IF Edges(kind, r) # {} THEN \E e \in Edges(kind, r) : EdgeAllows(e, t) ELSE Creator[r] = u

\* What a page is served from: the selection still stands.
Served(u, t) ==
  /\ t.program \in LivePrograms /\ t.program # NoRecord /\ Resolve(u) = t /\ SavedSelection(u) = t
  /\ t.season # NoRecord => t.season \in Seasons /\ ProgramOf[t.season] = t.program
  /\ NoRecord \notin Seasons \cup Leagues \cup Teams

LEMMA PageServed ==
  ASSUME ContextInv, NEW u \in Operators, NEW t, t = Resolve(u), t.program # NoRecord, SavedSelection(u) = t
  PROVE  Served(u, t)
<1>1. u \in Users /\ AuthorizedPrograms(u) = LivePrograms /\ AuthorizedSeasons(u, t.program) = ProgramSeasons(t.program)
  BY OperatorReach
<1>2. SelectionStands
  BY SelectionHolds
<1>3. t.program \in LivePrograms /\ (t.season # NoRecord => t.season \in ProgramSeasons(t.program))
  BY <1>1, <1>2 DEF SelectionStands
<1> QED
  BY <1>3, CatalogueAssumption DEF Served, ProgramSeasons

LEMMA EditDecided ==
  ASSUME NEW u, NEW t, Served(u, t), NEW r, NEW kind \in Listable
  PROVE  Decide(u, Change("edit", {Target(kind, r, "scope")})) <=>
           (kind = "division" => t.season # NoRecord) /\ ByEdges(u, kind, r, t)
<1>1. PICK x, c : x = Target(kind, r, "scope") /\ c = Change("edit", {x})
  OBVIOUS
<1>2. x.kind = kind /\ x.id = r /\ x.rule = "scope" /\ c.op = "edit" /\ c.targets = {x}
  BY <1>1, TargetIs DEF Change, Creation
<1>3. GateTuple(u) = t /\ t.program # NoRecord
  BY DEF GateTuple, Served
<1>4. Allowed(u, x) <=> Accessible(u, kind, r)
  BY <1>2, <1>3 DEF Allowed
<1>5. Exists(kind, r)
  BY DEF Exists, Listable
<1>6. Accessible(u, kind, r) <=> ByEdges(u, kind, r, t)
  BY <1>3, <1>5 DEF Accessible, ByEdges
<1>7. {y.kind : y \in c.targets} = {kind}
  BY <1>2
<1>8. Chosen(u, {y.kind : y \in c.targets}) <=> (kind = "division" => t.season # NoRecord)
  BY <1>3, <1>7 DEF Chosen, SeasonOwned, Listable, Served
<1> QED
  BY <1>1, <1>2, <1>4, <1>6, <1>8 DEF Decide

LEMMA ClubAgrees ==
  ASSUME ContextInv, NEW u, NEW t, Served(u, t), NEW r
  PROVE  /\ (\E e \in ClubEdges(r) : EdgeAllows(e, t)) <=> r \in ShownClubs(t)
         /\ ClubEdges(r) = {} <=> ClubTeams(r) = {}
<1>1. ASSUME NEW x \in Teams
      PROVE  /\ TeamEdges(x) = {Tuple(ProgramOf[teamLeague[x]], NoRecord, teamLeague[x])}
             /\ EdgeAllows(Tuple(ProgramOf[teamLeague[x]], NoRecord, teamLeague[x]), t) <=> x \in ShownTeams(t)
  BY TeamLinks, TupleParts DEF EdgeAllows, ShownTeams
<1>2. ClubTeams(r) \subseteq Teams
  BY DEF ClubTeams
<1>3. (\E e \in ClubEdges(r) : EdgeAllows(e, t)) <=> \E x \in ClubTeams(r) : x \in ShownTeams(t)
  BY <1>1, <1>2 DEF ClubEdges
<1>4. r \in ShownClubs(t) <=> \E x \in ClubTeams(r) : x \in ShownTeams(t)
  BY DEF ShownClubs, ClubTeams, ShownTeams
<1>5. ClubEdges(r) = {} <=> ClubTeams(r) = {}
  BY <1>1, <1>2 DEF ClubEdges
<1> QED
  BY <1>3, <1>4, <1>5

LEMMA VenueAgrees ==
  ASSUME ContextInv, NEW u, NEW t, Served(u, t), NEW v
  PROVE  /\ (\E e \in VenueEdges(v) : EdgeAllows(e, t)) <=> <<v, t.season>> \in grants
         /\ VenueEdges(v) = {} <=> ~LinkedVenue(v)
<1>1. ASSUME NEW s \in Seasons
      PROVE  EdgeAllows(Tuple(ProgramOf[s], s, NoRecord), t) <=> s = t.season
  BY TupleParts DEF EdgeAllows, Served
<1>2. \A s : <<v, s>> \in grants => s \in Seasons
  <2> SUFFICES ASSUME NEW s, <<v, s>> \in grants PROVE s \in Seasons
    OBVIOUS
  <2>1. PICK x \in grants : x = <<v, s>>
    OBVIOUS
  <2> QED
    BY <2>1 DEF ContextInv, CatalogueTyped
<1>3. VenueEdges(v) = {} <=> ~LinkedVenue(v)
  BY DEF VenueEdges, LinkedVenue
<1>4. (\E e \in VenueEdges(v) : EdgeAllows(e, t)) <=> \E s \in Seasons : <<v, s>> \in grants /\ s = t.season
  BY <1>1 DEF VenueEdges
<1> QED
  BY <1>2, <1>3, <1>4

LEMMA GameAgrees ==
  ASSUME NEW u, NEW t, Served(u, t), NEW g \in Games
  PROVE  GameEdges(g) # {} /\ ((\E e \in GameEdges(g) : EdgeAllows(e, t)) <=> g \in ShownGames(t))
BY GameLinks, TupleParts DEF EdgeAllows, ShownGames, Served

LEMMA WhereKindsHang ==
  /\ NoRecord \notin DOMAIN KindOf
  /\ \A r \in DOMAIN KindOf :
       /\ KindOf[r] = "venue" => Up[r] = NoRecord \/ (Up[r] \in DOMAIN KindOf /\ KindOf[Up[r]] = "organization")
       /\ KindOf[r] = "rink" => Up[r] \in DOMAIN KindOf /\ KindOf[Up[r]] = "venue"
       /\ KindOf[r] = "ice_slot" => Up[r] \in DOMAIN KindOf /\ KindOf[Up[r]] = "rink"
       /\ KindOf[r] = "division" => Up[r] \in Leagues \X Seasons /\ ProgramOf[Up[r][1]] = ProgramOf[Up[r][2]]
       /\ KindOf[r] \in Listable \cup {"player"}
  /\ \A x \in Teams : Up[x] = NoRecord \/ (Up[x] \in DOMAIN KindOf /\ KindOf[Up[x]] = "club")
  /\ \A x \in Programs : Up[x] = NoRecord \/ (Up[x] \in DOMAIN KindOf /\ KindOf[Up[x]] = "organization")
BY SetupAssumption DEF Listable

LEMMA ShownByKind ==
  ASSUME NEW u, NEW t, Served(u, t), NEW r \in DOMAIN KindOf
  PROVE  /\ KindOf[r] = "division" => (r \in Shown(u) <=> Up[r][2] = t.season /\ t.league \in {NoRecord, Up[r][1]})
         /\ KindOf[r] = "club" => (r \in Shown(u) <=> r \in ShownClubs(t))
         /\ KindOf[r] = "venue" => (r \in Shown(u) <=> r \in ShownVenues(t))
         /\ KindOf[r] = "rink" => (r \in Shown(u) <=> Up[r] \in ShownVenues(t))
         /\ KindOf[r] = "ice_slot" => (r \in Shown(u) <=> Up[r] \in ShownRinks(t))
         /\ KindOf[r] = "organization" => (r \in Shown(u) <=> (\E v \in ShownVenues(t) : Up[v] = r) \/ Up[t.program] = r)
         /\ KindOf[r] = "official" =>
              (r \in Shown(u) <=> Up[r] \in ShownClubs(t) \/ OfficialGames(r) \cap ShownGames(t) # {})
<1>1. Shown(u) =
        {x \in OfKind("division") : Up[x][2] = t.season /\ t.league \in {NoRecord, Up[x][1]}}
        \cup ShownClubs(t) \cup ShownVenues(t) \cup ShownRinks(t)
        \cup {x \in OfKind("ice_slot") : Up[x] \in ShownRinks(t)}
        \cup ({Up[v] : v \in ShownVenues(t)} \ {NoRecord}) \cup ({Up[t.program]} \ {NoRecord})
        \cup {o \in OfKind("official") : Up[o] \in ShownClubs(t) \/ OfficialGames(o) \cap ShownGames(t) # {}}
  BY DEF Shown, Served
<1>2. \A x \in ShownClubs(t) : KindOf[x] = "club"
  BY WhereKindsHang DEF ShownClubs, ShownTeams
<1>3. \A x \in ShownVenues(t) : x \in DOMAIN KindOf /\ KindOf[x] = "venue"
  BY DEF ShownVenues, OfKind
<1>4. \A x : x \in ShownRinks(t) <=> x \in DOMAIN KindOf /\ KindOf[x] = "rink" /\ Up[x] \in ShownVenues(t)
  BY DEF ShownRinks, OfKind
<1>5. \A x \in {Up[v] : v \in ShownVenues(t)} \ {NoRecord} : KindOf[x] = "organization"
  BY <1>3, WhereKindsHang
<1>6. \A x \in {Up[t.program]} \ {NoRecord} : KindOf[x] = "organization"
  BY WhereKindsHang DEF Served, LivePrograms
<1>7. r # NoRecord
  BY WhereKindsHang
<1> QED
  BY <1>1, <1>2, <1>3, <1>4, <1>5, <1>6, <1>7 DEF OfKind

LEMMA PendingByKind ==
  ASSUME NEW u, NEW r \in DOMAIN KindOf
  PROVE  r \in PendingLink(u) <=>
           /\ Creator[r] = u
           /\ \/ KindOf[r] = "club" /\ ClubTeams(r) = {}
              \/ KindOf[r] = "venue" /\ ~LinkedVenue(r)
              \/ KindOf[r] = "rink" /\ ~LinkedVenue(Up[r])
              \/ KindOf[r] = "ice_slot" /\ ~LinkedVenue(Up[Up[r]])
              \/ /\ KindOf[r] = "organization" /\ \A v \in OfKind("venue") : Up[v] = r => ~LinkedVenue(v)
                 /\ \A x \in LivePrograms : Up[x] # r
              \/ KindOf[r] = "official" /\ OfficialGames(r) = {} /\ ClubTeams(Up[r]) = {}
BY DEF PendingLink

LEMMA OrganizationAgrees ==
  ASSUME ContextInv, NEW u, NEW t, Served(u, t), NEW r
  PROVE  /\ (\E e \in OrganizationEdges(r) : EdgeAllows(e, t)) <=> (\E v \in ShownVenues(t) : Up[v] = r) \/ Up[t.program] = r
         /\ OrganizationEdges(r) = {} <=> /\ \A v \in OfKind("venue") : Up[v] = r => ~LinkedVenue(v)
                                          /\ \A x \in LivePrograms : Up[x] # r
<1> DEFINE owned == {x \in LivePrograms : Up[x] = r}
           venues == {x \in OfKind("venue") : Up[x] = r}
           first == {Tuple(x, NoRecord, NoRecord) : x \in owned}
           second == UNION {VenueEdges(v) : v \in venues}
<1>1. OrganizationEdges(r) = first \cup second
  BY DEF OrganizationEdges
<1>2. \A x : EdgeAllows(Tuple(x, NoRecord, NoRecord), t) <=> x = t.program
  BY TupleParts DEF EdgeAllows
<1>3. (\E e \in first : EdgeAllows(e, t)) <=> Up[t.program] = r
  BY <1>2 DEF Served
<1>4. ASSUME NEW v
      PROVE  /\ (\E e \in VenueEdges(v) : EdgeAllows(e, t)) <=> <<v, t.season>> \in grants
             /\ VenueEdges(v) = {} <=> ~LinkedVenue(v)
  BY VenueAgrees
<1>5. (\E e \in second : EdgeAllows(e, t)) <=> \E v \in ShownVenues(t) : Up[v] = r
  <2>1. (\E e \in second : EdgeAllows(e, t)) <=> \E v \in venues : \E e \in VenueEdges(v) : EdgeAllows(e, t)
    OBVIOUS
  <2>2. (\E v \in ShownVenues(t) : Up[v] = r) <=> \E v \in venues : <<v, t.season>> \in grants
    BY DEF ShownVenues
  <2> HIDE DEF second, venues
  <2> QED
    BY <1>4, <2>1, <2>2
<1>6. first = {} <=> \A x \in LivePrograms : Up[x] # r
  OBVIOUS
<1>7. second = {} <=> \A v \in OfKind("venue") : Up[v] = r => ~LinkedVenue(v)
  <2>1. second = {} <=> \A v \in venues : VenueEdges(v) = {}
    OBVIOUS
  <2> HIDE DEF second
  <2> QED
    BY <1>4, <2>1
<1> HIDE DEF first, second
<1> QED
  BY <1>1, <1>3, <1>5, <1>6, <1>7

LEMMA OfficialAgrees ==
  ASSUME ContextInv, NEW u, NEW t, Served(u, t), NEW r
  PROVE  /\ (\E e \in OfficialEdges(r) : EdgeAllows(e, t)) <=>
              Up[r] \in ShownClubs(t) \/ OfficialGames(r) \cap ShownGames(t) # {}
         /\ OfficialEdges(r) = {} <=> OfficialGames(r) = {} /\ ClubTeams(Up[r]) = {}
<1> DEFINE played == UNION {GameEdges(g) : g \in OfficialGames(r)}
<1>1. OfficialEdges(r) = ClubEdges(Up[r]) \cup played
  BY DEF OfficialEdges
<1>2. ASSUME NEW g \in OfficialGames(r)
      PROVE  GameEdges(g) # {} /\ ((\E e \in GameEdges(g) : EdgeAllows(e, t)) <=> g \in ShownGames(t))
  <2>1. g \in Games
    BY DEF OfficialGames
  <2> QED
    BY <2>1, GameAgrees
<1>3. (\E e \in played : EdgeAllows(e, t)) <=> OfficialGames(r) \cap ShownGames(t) # {}
  <2>1. (\E e \in played : EdgeAllows(e, t)) <=> \E g \in OfficialGames(r) : \E e \in GameEdges(g) : EdgeAllows(e, t)
    OBVIOUS
  <2> HIDE DEF played
  <2> QED
    BY <1>2, <2>1
<1>4. played = {} <=> OfficialGames(r) = {}
  BY <1>2
<1>5. /\ (\E e \in ClubEdges(Up[r]) : EdgeAllows(e, t)) <=> Up[r] \in ShownClubs(t)
      /\ ClubEdges(Up[r]) = {} <=> ClubTeams(Up[r]) = {}
  BY ClubAgrees
<1> HIDE DEF played
<1> QED
  BY <1>1, <1>3, <1>4, <1>5

\* For each kind of record, what the page lists is what its edges allow.
LEMMA ListedIsAllowed ==
  ASSUME ContextInv, NEW u, NEW t, Served(u, t), NEW r \in DOMAIN KindOf, KindOf[r] \in Listable
  PROVE  r \in Shown(u) \cup PendingLink(u) <=>
           (KindOf[r] = "division" => t.season # NoRecord) /\ ByEdges(u, KindOf[r], r, t)
<1> DEFINE edges == Edges(KindOf[r], r)
           some == \E e \in edges : EdgeAllows(e, t)
<1>1. ByEdges(u, KindOf[r], r, t) <=> some \/ (edges = {} /\ Creator[r] = u)
  BY DEF ByEdges
<1>2. CASE KindOf[r] = "division"
  <2>1. edges = {Tuple(ProgramOf[Up[r][2]], Up[r][2], Up[r][1])} /\ Up[r][1] # NoRecord /\ Up[r][2] # NoRecord
        /\ Up[r][2] \in Seasons
    BY <1>2, WhereKindsHang, BindingLinks DEF Edges
  <2>2. some <=> Up[r][2] = t.season /\ t.league \in {NoRecord, Up[r][1]}
    BY <2>1, TupleParts DEF EdgeAllows, Served
  <2>3. r \in Shown(u) <=> Up[r][2] = t.season /\ t.league \in {NoRecord, Up[r][1]}
    BY <1>2, ShownByKind
  <2>4. r \notin PendingLink(u)
    BY <1>2, PendingByKind
  <2> HIDE DEF edges, some
  <2> QED
    BY <1>1, <1>2, <2>1, <2>2, <2>3, <2>4
<1>3. CASE KindOf[r] = "club"
  <2>1. edges = ClubEdges(r)
    BY <1>3 DEF Edges
  <2>2. (some <=> r \in ShownClubs(t)) /\ (edges = {} <=> ClubTeams(r) = {})
    BY <2>1, ClubAgrees
  <2>3. r \in Shown(u) <=> r \in ShownClubs(t)
    BY <1>3, ShownByKind
  <2>4. r \in PendingLink(u) <=> Creator[r] = u /\ ClubTeams(r) = {}
    BY <1>3, PendingByKind
  <2> HIDE DEF edges, some
  <2> QED
    BY <1>1, <1>3, <2>2, <2>3, <2>4
<1>4. CASE KindOf[r] = "venue"
  <2>1. edges = VenueEdges(r)
    BY <1>4 DEF Edges
  <2>2. (some <=> <<r, t.season>> \in grants) /\ (edges = {} <=> ~LinkedVenue(r))
    BY <2>1, VenueAgrees
  <2>3. r \in Shown(u) <=> <<r, t.season>> \in grants
    BY <1>4, ShownByKind DEF ShownVenues, OfKind
  <2>4. r \in PendingLink(u) <=> Creator[r] = u /\ ~LinkedVenue(r)
    BY <1>4, PendingByKind
  <2> HIDE DEF edges, some
  <2> QED
    BY <1>1, <1>4, <2>2, <2>3, <2>4
<1>5. CASE KindOf[r] = "rink"
  <2>1. edges = VenueEdges(Up[r]) /\ Up[r] \in OfKind("venue")
    BY <1>5, WhereKindsHang DEF Edges, OfKind
  <2>2. (some <=> <<Up[r], t.season>> \in grants) /\ (edges = {} <=> ~LinkedVenue(Up[r]))
    BY <2>1, VenueAgrees
  <2>3. r \in Shown(u) <=> <<Up[r], t.season>> \in grants
    BY <1>5, <2>1, ShownByKind DEF ShownVenues
  <2>4. r \in PendingLink(u) <=> Creator[r] = u /\ ~LinkedVenue(Up[r])
    BY <1>5, PendingByKind
  <2> HIDE DEF edges, some
  <2> QED
    BY <1>1, <1>5, <2>2, <2>3, <2>4
<1>6. CASE KindOf[r] = "ice_slot"
  <2>1. edges = VenueEdges(Up[Up[r]]) /\ Up[r] \in OfKind("rink") /\ Up[Up[r]] \in OfKind("venue")
    BY <1>6, WhereKindsHang DEF Edges, OfKind
  <2>2. (some <=> <<Up[Up[r]], t.season>> \in grants) /\ (edges = {} <=> ~LinkedVenue(Up[Up[r]]))
    BY <2>1, VenueAgrees
  <2>3. r \in Shown(u) <=> <<Up[Up[r]], t.season>> \in grants
    BY <1>6, <2>1, ShownByKind DEF ShownVenues, ShownRinks
  <2>4. r \in PendingLink(u) <=> Creator[r] = u /\ ~LinkedVenue(Up[Up[r]])
    BY <1>6, PendingByKind
  <2> HIDE DEF edges, some
  <2> QED
    BY <1>1, <1>6, <2>2, <2>3, <2>4
<1>7. CASE KindOf[r] = "organization"
  <2>1. edges = OrganizationEdges(r)
    BY <1>7 DEF Edges
  <2>2. /\ some <=> (\E v \in ShownVenues(t) : Up[v] = r) \/ Up[t.program] = r
        /\ edges = {} <=> /\ \A v \in OfKind("venue") : Up[v] = r => ~LinkedVenue(v)
                          /\ \A x \in LivePrograms : Up[x] # r
    BY <2>1, OrganizationAgrees
  <2>3. r \in Shown(u) <=> (\E v \in ShownVenues(t) : Up[v] = r) \/ Up[t.program] = r
    BY <1>7, ShownByKind
  <2>4. r \in PendingLink(u) <=> /\ Creator[r] = u /\ \A v \in OfKind("venue") : Up[v] = r => ~LinkedVenue(v)
                                 /\ \A x \in LivePrograms : Up[x] # r
    BY <1>7, PendingByKind
  <2> HIDE DEF edges, some
  <2> QED
    BY <1>1, <1>7, <2>2, <2>3, <2>4
<1>8. CASE KindOf[r] = "official"
  <2>1. edges = OfficialEdges(r)
    BY <1>8 DEF Edges
  <2>2. /\ some <=> Up[r] \in ShownClubs(t) \/ OfficialGames(r) \cap ShownGames(t) # {}
        /\ edges = {} <=> OfficialGames(r) = {} /\ ClubTeams(Up[r]) = {}
    BY <2>1, OfficialAgrees
  <2>3. r \in Shown(u) <=> Up[r] \in ShownClubs(t) \/ OfficialGames(r) \cap ShownGames(t) # {}
    BY <1>8, ShownByKind
  <2>4. r \in PendingLink(u) <=> Creator[r] = u /\ OfficialGames(r) = {} /\ ClubTeams(Up[r]) = {}
    BY <1>8, PendingByKind
  <2> HIDE DEF edges, some
  <2> QED
    BY <1>1, <1>8, <2>2, <2>3, <2>4
<1> QED
  BY <1>2, <1>3, <1>4, <1>5, <1>6, <1>7, <1>8 DEF Listable

LEMMA PageHolds == ASSUME ContextInv PROVE PageAndGateAgree
<1> SUFFICES ASSUME NEW u \in Operators, Resolve(u).program # NoRecord, SavedSelection(u) = Resolve(u),
                    NEW r \in DOMAIN KindOf \ OfKind("player")
             PROVE  (r \in Shown(u) \cup PendingLink(u)) <=> Decide(u, Change("edit", {Target(KindOf[r], r, "scope")}))
  BY DEF PageAndGateAgree
<1>1. PICK t : t = Resolve(u)
  OBVIOUS
<1>2. Served(u, t)
  BY <1>1, PageServed
<1>3. KindOf[r] \in Listable
  BY WhereKindsHang DEF OfKind
<1> QED
  BY <1>2, <1>3, EditDecided, ListedIsAllowed

(* The selection a page shows is one its account may see and the one it    *)
(* chose while that stands; a program an operator chose can always be      *)
(* removed; and the setup page lists exactly what the write gate lets      *)
(* through: for any programs, seasons, leagues, accounts and records.      *)
THEOREM ContextIsSound == DestructionSpec => []ContextSound
<1>1. ContextInv => ContextSound
  BY SelectionHolds, ReachHolds, PageHolds DEF ContextSound
<1> QED
  BY <1>1, ContextAlways, PTL
=============================================================================
