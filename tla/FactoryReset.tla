------------------------------- MODULE FactoryReset --------------------------------
(***************************************************************************)
(* The production factory reset: an administrator previews the number of   *)
(* rows, and an execution with that preview's token empties every table    *)
(* but the reset's own and puts the administrator's account back.  Every   *)
(* store call before the wipe is its own transaction, and so an action.    *)
(* Server processes may stop for longer than a lease, or die.  The counts  *)
(* of the tables are two: rows of data, and accounts.                      *)
(***************************************************************************)
EXTENDS FiniteSets, Integers

CONSTANTS
  Rows,       \* records that may exist
  Owners,     \* League Admin accounts
  Processes,  \* reset calls that may run at once
  Ttl,        \* life of a challenge
  Lease,      \* life of the lock
  MaxTime,    \* bound: how far the clock goes
  MaxPreviews, \* bound: challenges issued
  None

\* The code gives both five minutes; a challenge must not outlive the lock of a
\* reset begun with it.
ASSUME ResetAssumption ==
  /\ Ttl \in Nat /\ Lease \in Nat /\ Ttl <= Lease
  /\ None \notin [holder : Processes, expires : Nat]

VARIABLES
  now,
  rows,       \* the records that exist
  accounts,   \* admin -> [active, password], for the accounts that exist
  offer,      \* the one outstanding challenge, or None
  lock,       \* the one lock row, or None
  run,        \* process -> its call
  previewed,  \* the challenges issued (history)
  wipes       \* [offer, at] of the wipes (history)

resetVars == <<now, rows, accounts, offer, lock, run, previewed, wipes>>

AtRest == [at |-> "idle", who |-> None, token |-> 0, account |-> None, seen |-> None, until |-> 0]
Counts == <<Cardinality(rows), Cardinality(DOMAIN accounts)>>
Authorized(a) == a \in DOMAIN accounts /\ accounts[a].active

ResetInit ==
  /\ now = 0 /\ rows \in SUBSET Rows /\ rows # {}
  /\ \E some \in SUBSET Owners \ {{}} : accounts = [a \in some |-> [active |-> TRUE, password |-> 1]]
  /\ offer = None /\ lock = None /\ run = [p \in Processes |-> AtRest]
  /\ previewed = {} /\ wipes = {}

Step(p, from, to) == run[p].at = from /\ run' = [run EXCEPT ![p].at = to]

\* Only the latest preview can be executed: there is one challenge row.
ResetPreview(a) ==
  LET new == [token |-> Cardinality(previewed) + 1, actor |-> a, counts |-> Counts, expires |-> now + Ttl] IN
  /\ Authorized(a) /\ new.token <= MaxPreviews
  /\ offer' = new /\ previewed' = previewed \cup {new}
  /\ UNCHANGED <<now, rows, accounts, lock, run, wipes>>

Begin(p, a, token) ==
  /\ run[p].at = "idle" /\ run' = [run EXCEPT ![p] = [AtRest EXCEPT !.at = "lock", !.who = a, !.token = token]]
  /\ UNCHANGED <<now, rows, accounts, offer, lock, previewed, wipes>>

\* A lock left by a process that died is reclaimed once its lease has run out.
Reclaimable == lock # None /\ lock.expires < now
Reclaim(p) ==
  /\ Reclaimable /\ run[p].at = "lock" /\ lock' = None
  /\ UNCHANGED <<now, rows, accounts, offer, run, previewed, wipes>>

\* The lock's row: its process stands for the token it was taken with.
LeaseEnd == now + Lease
Acquire(p) ==
  /\ run[p].at = "lock"
  /\ IF lock = None
     THEN /\ lock' = [holder |-> p, expires |-> LeaseEnd]
          /\ run' = [run EXCEPT ![p].at = "check", ![p].until = LeaseEnd]
     ELSE run' = [run EXCEPT ![p] = AtRest] /\ UNCHANGED lock
  /\ UNCHANGED <<now, rows, accounts, offer, previewed, wipes>>

\* The caller's account and password; the account read here is the one put back.
Check(p) ==
  /\ run[p].at = "check"
  /\ IF Authorized(run[p].who)
     THEN run' = [run EXCEPT ![p].at = "read", ![p].account = accounts[run[p].who]]
     ELSE run' = [run EXCEPT ![p].at = "release"]
  /\ UNCHANGED <<now, rows, accounts, offer, lock, previewed, wipes>>

\* The challenge is read, then deleted whatever it says, then judged: any
\* attempt, a wrong token's too, uses it up.
Read(p) ==
  /\ run[p].at = "read" /\ run' = [run EXCEPT ![p].at = "clear", ![p].seen = offer]
  /\ UNCHANGED <<now, rows, accounts, offer, lock, previewed, wipes>>
Usable(p) ==
  LET seen == run[p].seen IN
  seen # None /\ seen.expires >= now /\ seen.actor = run[p].who /\ seen.token = run[p].token
Clear(p) ==
  /\ run[p].at = "clear" /\ offer' = None
  /\ run' = [run EXCEPT ![p].at = IF Usable(p) THEN "wipe" ELSE "release"]
  /\ UNCHANGED <<now, rows, accounts, lock, previewed, wipes>>

\* One transaction behind the locks of every table: recount, empty, put the
\* account back.  Changed counts, or a failure, roll it back.
AsCounted(p) == Counts = run[p].seen.counts
Wipe(p) ==
  LET a == run[p].who IN
  /\ Step(p, "wipe", "release") /\ AsCounted(p)
  /\ rows' = {} /\ accounts' = [x \in {a} |-> [active |-> TRUE, password |-> run[p].account.password]]
  /\ wipes' = wipes \cup {[token |-> run[p].seen.token, by |-> a, counts |-> Counts, at |-> now]}
  /\ UNCHANGED <<now, offer, lock, previewed>>
GiveUp(p) == Step(p, "wipe", "release") /\ UNCHANGED <<now, rows, accounts, offer, lock, previewed, wipes>>

\* Only its own lock: after a reclaim the row is another process's.
OwnLock(p) == lock # None /\ lock.holder = p /\ lock.expires = run[p].until
Release(p) ==
  /\ run[p].at = "release" /\ run' = [run EXCEPT ![p] = AtRest]
  /\ lock' = IF OwnLock(p) THEN None ELSE lock
  /\ UNCHANGED <<now, rows, accounts, offer, previewed, wipes>>

Die(p) ==
  /\ run[p] # AtRest /\ run' = [run EXCEPT ![p] = AtRest]
  /\ UNCHANGED <<now, rows, accounts, offer, lock, previewed, wipes>>
Tick == now < MaxTime /\ now' = now + 1 /\ UNCHANGED <<rows, accounts, offer, lock, run, previewed, wipes>>

\* The installation at work: records come and go, an account is switched off
\* or on, a password is changed.
Work ==
  /\ \/ \E r \in Rows : rows' = (IF r \in rows THEN rows \ {r} ELSE rows \cup {r}) /\ UNCHANGED accounts
     \/ \E a \in DOMAIN accounts :
          /\ \/ accounts' = [accounts EXCEPT ![a].active = ~@]
             \/ accounts[a].password = 1 /\ accounts' = [accounts EXCEPT ![a].password = 2]
          /\ UNCHANGED rows
  /\ UNCHANGED <<now, offer, lock, run, previewed, wipes>>

\* The token is one a preview gave out, or a wrong one.
ResetStep(p) ==
  \/ \E a \in Owners, token \in {o.token : o \in previewed} \cup {0} : Begin(p, a, token)
  \/ Reclaim(p) \/ Acquire(p) \/ Check(p) \/ Read(p) \/ Clear(p)
  \/ Wipe(p) \/ GiveUp(p) \/ Release(p) \/ Die(p)
ResetNext == (\E p \in Processes : ResetStep(p)) \/ (\E a \in Owners : ResetPreview(a)) \/ Work \/ Tick

(* ---- what must hold ---- *)

\* A wipe empties what its administrator's preview counted, and a preview is
\* good for one wipe: although reading and deleting the challenge are separate
\* transactions, and a stopped process may lose its lock to another.
WipedAsPreviewed ==
  /\ \A w \in wipes : \E o \in previewed : o.token = w.token /\ o.actor = w.by /\ o.counts = w.counts
  /\ \A w, v \in wipes : w.token = v.token => w = v

\* While its lease runs, a reset in progress is the only one.
LeaseHolds ==
  \A p \in Processes : run[p].at \in {"check", "read", "clear", "wipe", "release"} /\ run[p].until >= now =>
     lock # None /\ lock.holder = p /\ lock.expires = run[p].until

\* Both: a reset destroys only what was reviewed, and never while another runs.
ResetGuarded == WipedAsPreviewed /\ LeaseHolds

\* The account a reset leaves is the administrator's as it stood when the data
\* went: still active, with the password last set.
AccountAsItStood == wipes' # wipes => \A a \in DOMAIN accounts' : a \in DOMAIN accounts /\ accounts'[a] = accounts[a]
ResetKeepsAccount == [][AccountAsItStood]_resetVars
================================================================================
