----------------------------- MODULE AccountLocks ------------------------------
(***************************************************************************)
(* The calls of Accounts as READ COMMITTED transactions of several server  *)
(* processes on one PostgreSQL, and the sessions of web/auth.py beside     *)
(* them.  Each plans from reads without a lock, takes row locks in the     *)
(* order epoch fence, subject, account, and decides again under them; the  *)
(* audit entry every call ends with draws its id from one row of counters. *)
(* A call that comes over HTTP takes the same steps in the route's         *)
(* SERIALIZABLE unit, where it may be refused more often (Abort): one that *)
(* read before another committed fails at the row of counters.             *)
(*                                                                         *)
(* Within a process store._lock admits one transaction at a time.  SQLite  *)
(* and the in-memory store are then just Accounts.                         *)
(***************************************************************************)
EXTENDS Accounts, Naturals

CONSTANTS
  Servers,   \* processes
  Sessions,  \* sessions that may be issued
  NoUser,
  MaxCalls   \* bound: calls made

\* An account's number stands for its id, the order in which rows are read.
ASSUME UserIdsAssumption == Users \subseteq Nat
ASSUME ServersAssumption == IsFiniteSet(Servers)

VARIABLES
  txn,       \* server -> the call it runs
  session,   \* session -> [user, revoked, ended]
  calls

accountVars == <<books, txn, session, calls>>

NoRow == <<"no row">>
Fence(u) == <<"fence", u>>
SubjectRow(x) == IF x = NoSubject THEN NoRow ELSE <<"subject", x>>
AccountRow(u) == <<"account", u>>
Marker == <<"installation">>
AuditCounter == <<"setupaudit">>

Idle == [op |-> "idle", user |-> NoUser, subject |-> NoSubject,
         step |-> "start",
         row |-> NoRow,         \* the row it waits to lock
         held |-> {},
         found |-> NoAccount,   \* the account's row as last read
         scan |-> {},           \* accounts still to retire
         retired |-> {}, ended |-> {}]  \* accounts and sessions it retired
NoSession == [user |-> NoUser, revoked |-> FALSE, ended |-> FALSE]

T(s) == txn[s]
At(s, ops, step) == T(s).op \in ops /\ T(s).step = step /\ T(s).row \in T(s).held \cup {NoRow}
Set(s, record) == txn' = [txn EXCEPT ![s] = record]
Then(s, step, row) == Set(s, [T(s) EXCEPT !.step = step, !.row = row])
Quiet == UNCHANGED <<books, session, calls>>

Lock(s) ==
  /\ T(s).row \notin T(s).held \cup {NoRow}
  /\ \A r \in Servers : T(s).row \notin T(r).held
  /\ Set(s, [T(s) EXCEPT !.held = @ \cup {T(s).row}])
  /\ Quiet

\* A refusal, a conflict, a lost race on a unique index, a deadlock's victim.
Abort(s) == T(s).op # "idle" /\ T(s).step # "revoke" /\ Set(s, Idle) /\ Quiet

Call(s, record) ==
  /\ T(s) = Idle /\ calls < MaxCalls /\ calls' = calls + 1
  /\ Set(s, record)
  /\ UNCHANGED <<books, session>>
Request(op, u, x) == [Idle EXCEPT !.op = op, !.user = u, !.subject = x]

-----------------------------------------------------------------------------
(* set_active and rebind_account_scope                                     *)

OnAccount == {"activate", "deactivate", "rebind"}
BeginOnAccount(s, op, u, x) ==
  Call(s, [Request(op, u, x) EXCEPT !.step = "peek", !.row = Fence(u)])

\* The unlocked peek says which subject to lock before the account.
Peek(s) ==
  LET row == account[T(s).user]
      x == IF T(s).op = "activate" THEN row.subject ELSE T(s).subject
  IN
  /\ At(s, OnAccount, "peek") /\ Exists(T(s).user)
  /\ Set(s, [T(s) EXCEPT !.found = row, !.subject = x,
               !.step = IF T(s).op = "deactivate" THEN "validated" ELSE "validate",
               !.row = IF T(s).op = "deactivate" THEN NoRow ELSE SubjectRow(x)])
  /\ Quiet
Validate(s) ==
  /\ At(s, {"activate", "rebind"}, "validate")
  /\ Bindable(T(s).found.role, T(s).subject)
  /\ Then(s, "validated", NoRow) /\ Quiet
ReadLocked_KeepsPeek(s) ==
  /\ At(s, OnAccount, "locked")
  /\ Then(s, "audit", AuditCounter) /\ Quiet
LockAccount(s) ==
  /\ At(s, OnAccount, "validated")
  /\ Then(s, "locked", AccountRow(T(s).user)) /\ Quiet
\* Under the row's lock: a moved scope is a conflict for a reactivation.
ReadLocked(s) ==
  LET row == account[T(s).user] IN
  /\ At(s, OnAccount, "locked")
  /\ T(s).op = "activate" => row.subject = T(s).found.subject
  /\ Set(s, [T(s) EXCEPT !.found = row, !.step = "audit", !.row = AuditCounter])
  /\ Quiet

Saved(s) ==
  LET row == T(s).found IN
  CASE T(s).op = "activate" -> Account("active", row.role, row.subject)
    [] T(s).op = "deactivate" -> Account("inactive", row.role, row.subject)
    [] T(s).op = "rebind" -> Account(row.life, row.role, T(s).subject)
EndSessions(users) == [t \in Sessions |->
  IF session[t].user \in users THEN [session[t] EXCEPT !.ended = TRUE] ELSE session[t]]
\* The route revokes a deactivated account's sessions after the commit.
CommitOnAccount(s) ==
  LET u == T(s).user IN
  /\ At(s, OnAccount, "audit")
  /\ SetAccount(u, Saved(s)) /\ UNCHANGED <<standing, claimed, calls>>
  /\ IF T(s).op = "deactivate"
     THEN Set(s, [Request("deactivate", u, NoSubject) EXCEPT !.step = "revoke"])
          /\ session' = EndSessions({u})
     ELSE Set(s, Idle) /\ UNCHANGED session

Revoked(users) == [t \in Sessions |->
  IF session[t].user \in users THEN [session[t] EXCEPT !.revoked = TRUE] ELSE session[t]]
RevokeForUser(s) ==
  /\ T(s).step = "revoke"
  /\ session' = Revoked({T(s).user})
  /\ Set(s, Idle) /\ UNCHANGED <<books, calls>>
\* The process stops, or a save fails, before the sessions are revoked.
Stop(s) == T(s).step = "revoke" /\ Set(s, Idle) /\ Quiet

-----------------------------------------------------------------------------
(* create_account and create_first_admin_if_unclaimed                      *)

BeginCreate(s, u, x) ==
  /\ claimed /\ ~Exists(u)
  /\ Call(s, [Request("create", u, x) EXCEPT !.step = "validate", !.row = SubjectRow(x)])
ValidateNew(s) ==
  /\ At(s, {"create"}, "validate") /\ Bindable(RoleOf(T(s).subject), T(s).subject)
  /\ Then(s, "audit", AuditCounter) /\ Quiet

BeginClaim(s, u) ==
  /\ ~claimed /\ \A v \in Users : ~Exists(v)
  /\ Call(s, [Request("claim", u, NoSubject) EXCEPT !.step = "marker", !.row = Marker])
\* The marker's primary key: a claim that waited finds the row there.
InsertMarker(s) ==
  /\ At(s, {"claim"}, "marker") /\ ~claimed
  /\ Then(s, "audit", AuditCounter) /\ Quiet

\* The user name is unique.
CommitNew(s) ==
  /\ At(s, {"create", "claim"}, "audit") /\ ~Exists(T(s).user)
  /\ SetAccount(T(s).user, Account("active", RoleOf(T(s).subject), T(s).subject))
  /\ claimed' = (claimed \/ T(s).op = "claim")
  /\ Set(s, Idle) /\ UNCHANGED <<standing, session, calls>>

-----------------------------------------------------------------------------
(* set_player_active and the guarded deletes of setup_service              *)

BeginOnSubject(s, op, x) ==
  Call(s, [Request(op, NoUser, x) EXCEPT !.step = "scan", !.row = SubjectRow(x)])
\* Candidates, read without a lock in the order of their ids.
Scan(s) ==
  LET p == T(s).subject
      retires == T(s).op = "deactivate player" \/ standing[p] = "inactive"
  IN
  /\ At(s, {"activate player", "deactivate player"}, "scan") /\ standing[p] # "gone"
  /\ Set(s, [T(s) EXCEPT !.step = "retire", !.row = NoRow,
               !.scan = IF retires THEN Bound(p) ELSE {}])
  /\ Quiet
LockCandidate(s, u) ==
  /\ T(s).step = "retire" /\ T(s).row = NoRow
  /\ u \in T(s).scan /\ \A v \in T(s).scan : u <= v
  /\ Set(s, [T(s) EXCEPT !.user = u, !.row = AccountRow(u)]) /\ Quiet
\* Re-checked under the lock; each account retired writes an audit entry.
Skips(s, u) == ~(Active(u) /\ account[u].subject = T(s).subject)
RetireOne(s) ==
  LET u == T(s).user IN
  /\ T(s).step = "retire" /\ T(s).row = AccountRow(u) /\ T(s).row \in T(s).held
  /\ Set(s, IF Skips(s, u)
            THEN [T(s) EXCEPT !.row = NoRow, !.scan = @ \ {u}]
            ELSE [T(s) EXCEPT !.row = AuditCounter, !.scan = @ \ {u},
                    !.retired = @ \cup {u},
                    !.ended = @ \cup {t \in Sessions : session[t].user = u}])
  /\ Quiet
NextCandidate(s) ==
  /\ At(s, {"activate player", "deactivate player"}, "retire") /\ T(s).row = AuditCounter
  /\ Then(s, "retire", NoRow) /\ Quiet
AllRetired(s) ==
  /\ At(s, {"activate player", "deactivate player"}, "retire") /\ T(s).row = NoRow
  /\ T(s).scan = {}
  /\ Then(s, "audit", AuditCounter) /\ Quiet
CommitSetPlayerActive(s) ==
  /\ At(s, {"activate player", "deactivate player"}, "audit")
  /\ Retire(T(s).retired)
  /\ standing' = [standing EXCEPT ![T(s).subject] =
       IF T(s).op = "activate player" THEN "active" ELSE "inactive"]
  /\ session' = [t \in Sessions |->
       IF t \in T(s).ended THEN [session[t] EXCEPT !.revoked = TRUE, !.ended = TRUE] ELSE session[t]]
  /\ Set(s, Idle) /\ UNCHANGED <<claimed, calls>>

ScanDelete(s) ==
  LET x == T(s).subject IN
  /\ At(s, {"delete"}, "scan") /\ standing[x] # "gone"
  /\ \A u \in Users : ~Blocks(u, x)
  /\ Then(s, "audit", AuditCounter) /\ Quiet
CommitDelete(s) ==
  /\ At(s, {"delete"}, "audit")
  /\ standing' = [standing EXCEPT ![T(s).subject] = "gone"]
  /\ Set(s, Idle) /\ UNCHANGED <<account, claimed, session, calls>>

-----------------------------------------------------------------------------
(* Sessions: verify_login, then SessionManager.login, with no lock.        *)

VerifyLogin(s, u) ==
  /\ Active(u)
  /\ Call(s, [Request("login", u, NoSubject) EXCEPT !.step = "issue"])
IssueSession(s, t) ==
  /\ At(s, {"login"}, "issue") /\ session[t] = NoSession
  /\ session' = [session EXCEPT ![t] = [NoSession EXCEPT !.user = T(s).user]]
  /\ Set(s, Idle) /\ UNCHANGED <<books, calls>>
Logout(t) ==
  /\ session[t].user # NoUser /\ ~session[t].revoked
  /\ session' = [session EXCEPT ![t].revoked = TRUE]
  /\ UNCHANGED <<books, txn, calls>>

AccountLocksInit ==
  /\ AccountsInit
  /\ txn = [s \in Servers |-> Idle] /\ calls = 0
  /\ session = [t \in Sessions |-> NoSession]

AccountLocksNext ==
  \/ \E s \in Servers :
       \/ Lock(s) \/ Abort(s) \/ Peek(s) \/ Validate(s) \/ LockAccount(s) \/ ReadLocked(s)
       \/ CommitOnAccount(s) \/ RevokeForUser(s) \/ Stop(s) \/ ValidateNew(s)
       \/ InsertMarker(s) \/ CommitNew(s) \/ Scan(s) \/ RetireOne(s) \/ NextCandidate(s)
       \/ AllRetired(s) \/ CommitSetPlayerActive(s) \/ ScanDelete(s) \/ CommitDelete(s)
       \/ \E u \in Users :
            \/ BeginOnAccount(s, "activate", u, NoSubject)
            \/ BeginOnAccount(s, "deactivate", u, NoSubject)
            \/ \E x \in Subjects : BeginOnAccount(s, "rebind", u, x) \/ BeginCreate(s, u, x)
            \/ BeginClaim(s, u) \/ LockCandidate(s, u) \/ VerifyLogin(s, u)
       \/ \E p \in Players, op \in {"activate player", "deactivate player"} : BeginOnSubject(s, op, p)
       \/ \E x \in Subjects : BeginOnSubject(s, "delete", x)
       \/ \E t \in Sessions : IssueSession(s, t)
  \/ \E t \in Sessions : Logout(t)

AccountLocksSpec == AccountLocksInit /\ [][AccountLocksNext]_accountVars

-----------------------------------------------------------------------------
(* Properties.                                                             *)

\* Whatever the interleaving of statements, each commit does what its call
\* alone would have done at that moment: no scope, activation or retirement
\* is decided on, or overwrites, what another call changed meanwhile.
CallsOneByOne == [][AccountsNext]_books

\* However many processes claim the installation at once, one administrator
\* is created, and the losers leave no account behind.
OneClaim == Cardinality({u \in Users : Exists(u) /\ account[u].role = "admin"}) <= 1

\* Locks: a set of calls of which each waits for a row another of them holds.
Waits(s, r) == T(s).row \in T(r).held /\ s # r
WaitCycle(ring) == ring # {} /\ \A s \in ring : \E r \in ring : Waits(s, r)
NoWaitCycle == \A ring \in SUBSET Servers : ~WaitCycle(ring)
\* Only a Player who carries two active accounts can make calls deadlock: the
\* audit entry of the first is written before the second is locked.
OnlyRetirementDeadlocks == \A ring \in SUBSET Servers :
  WaitCycle(ring) => \E s \in ring : T(s).step = "retire" /\ T(s).retired # {}

\* A claim succeeds once, no login outlives what it was granted for, and only
\* a call that retires a player can be in a cycle of waits.
AccountsSound == OneClaim /\ LoginsBacked /\ OnlyRetirementDeadlocks

\* SessionManager.resolve
Resolves(t) == session[t].user # NoUser /\ ~session[t].revoked /\ Active(session[t].user)
\* web/server.py: deactivating an account ends any session it already has.
SessionsEnd == \A t \in Sessions : session[t].ended => ~Resolves(t)
================================================================================
