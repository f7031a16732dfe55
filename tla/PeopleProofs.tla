------------------------------ MODULE PeopleProofs ------------------------------
(***************************************************************************)
(* Proofs about who may sign in: Accounts and AccountLocks, for every set  *)
(* of users, players, teams and server processes and any number of calls;  *)
(* and LoginThrottle, for every number of threads, addresses and user      *)
(* names, every limit, window and cap, and however late a thread gets the  *)
(* lock (up to Delay).                                                     *)
(*                                                                         *)
(* What each call of the accounts does alone keeps the logins sound        *)
(* (AccountsInv).  What the interleaved transactions do is then that: the  *)
(* row locks a transaction has gathered keep what it decided true until it *)
(* commits (Planned), so each commit is one of those calls, and everything *)
(* proved of the calls holds of the transactions too.                      *)
(***************************************************************************)
EXTENDS AccountLocks, LoginThrottle, FiniteSetTheorems, SequenceTheorems, WellFoundedInduction, TLAPS

AccountRecord == [life : {"none", "active", "inactive"},
                  role : {"player", "coach", "admin"},
                  subject : Subjects \cup {NoSubject}]

\* The first account is the first claim's.
NobodyUnclaimed == ~claimed => \A u \in Users : ~Exists(u)
\* At most one account is an administrator's.
OneAdministrator == \A u, v \in Users :
  Exists(u) /\ account[u].role = "admin" /\ Exists(v) /\ account[v].role = "admin" => u = v

AccountsInv == AccountsTypeOK /\ NobodyUnclaimed /\ OneAdministrator /\ LoginsBacked

\* A role is a player's, a coach's or an administrator's by the kind of subject.
LEMMA RoleKinds ==
  ASSUME NEW x \in Subjects \cup {NoSubject}
  PROVE  /\ RoleOf(x) \in {"player", "coach", "admin"}
         /\ RoleOf(x) = "admin" <=> x = NoSubject
  BY AccountsAssumption DEF RoleOf, Subjects

\* The books start sound: unclaimed and empty, or claimed with backed logins.
LEMMA AccountsStart == AccountsInit => AccountsInv
<1> SUFFICES ASSUME AccountsInit PROVE AccountsInv OBVIOUS
<1>1. CASE ~claimed
  <2>1. account = [u \in Users |-> NoAccount] /\ claimed = FALSE
        /\ standing = [x \in Subjects |-> "active"]
    BY <1>1 DEF AccountsInit
  <2>. QED BY <2>1 DEF AccountsInv, AccountsTypeOK, NobodyUnclaimed, OneAdministrator,
              LoginsBacked, NoAccount, Exists, Active
<1>2. CASE claimed
  <2>1. /\ claimed = TRUE
        /\ standing \in [Subjects -> {"active", "inactive", "gone"}]
        /\ account \in [Users -> {NoAccount} \cup
             {Account(l, RoleOf(x), x) : l \in {"active", "inactive"}, x \in Subjects}]
        /\ \A u \in Users : Active(u) => standing[account[u].subject] = "active"
    BY <1>2 DEF AccountsInit
  <2>2. \A u \in Users : /\ account[u] \in AccountRecord
                         /\ Exists(u) => account[u].role # "admin" /\ account[u].subject \in Subjects
    BY <2>1, RoleKinds, AccountsAssumption DEF AccountRecord, NoAccount, Account, Exists, Subjects
  <2>3. AccountsTypeOK BY <2>1, <2>2 DEF AccountsTypeOK, AccountRecord
  <2>. QED BY <2>1, <2>2, <2>3 DEF AccountsInv, NobodyUnclaimed, OneAdministrator, LoginsBacked,
                                   Exists, Active
<1>. QED BY <1>1, <1>2

\* One call keeps them so.
LEMMA AccountsStep == AccountsInv /\ [AccountsNext]_books => AccountsInv'
<1> SUFFICES ASSUME AccountsInv, [AccountsNext]_books PROVE AccountsInv' OBVIOUS
<1> USE AccountsAssumption DEF AccountsInv, AccountsTypeOK, NobodyUnclaimed, OneAdministrator,
        LoginsBacked, SetAccount, Account, Exists, Active
<1>1. CASE UNCHANGED books
  BY <1>1 DEF books
<1>2. ASSUME NEW u \in Users, Claim(u) PROVE AccountsInv'
  BY <1>2 DEF Claim
<1>3. ASSUME NEW u \in Users, Activate(u) PROVE AccountsInv'
  BY <1>3, RoleKinds DEF Activate, Bindable
<1>4. ASSUME NEW u \in Users, Deactivate(u) PROVE AccountsInv'
  BY <1>4 DEF Deactivate
<1>5. ASSUME NEW u \in Users, NEW x \in Subjects, Create(u, x) PROVE AccountsInv'
  <2>1. RoleOf(x) \in {"player", "coach", "admin"} /\ RoleOf(x) # "admin"
    BY RoleKinds DEF Subjects
  <2>. QED BY <1>5, <2>1 DEF Create, Bindable
<1>6. ASSUME NEW u \in Users, NEW x \in Subjects, Rebind(u, x) PROVE AccountsInv'
  BY <1>6 DEF Rebind, Bindable
<1>7. ASSUME NEW p \in Players, NEW active \in BOOLEAN, SetPlayerActive(p, active) PROVE AccountsInv'
  BY <1>7 DEF SetPlayerActive, Retire, Bound, Subjects
<1>8. ASSUME NEW x \in Subjects, Delete(x) PROVE AccountsInv'
  BY <1>8 DEF Delete, Blocks, Subjects
<1>. QED BY <1>1, <1>2, <1>3, <1>4, <1>5, <1>6, <1>7, <1>8 DEF AccountsNext

\* One call at a time, a login is always backed by its subject and there is one
\* administrator at most.
THEOREM CallsKeepLoginsBacked == AccountsSpec => []AccountsInv
<1>1. AccountsInit => AccountsInv BY AccountsStart
<1>2. AccountsInv /\ [AccountsNext]_books => AccountsInv' BY AccountsStep
<1>. QED BY <1>1, <1>2, PTL DEF AccountsSpec

-----------------------------------------------------------------------------
(* What a transaction has decided, and the locks that keep it true.        *)

Rows == {NoRow, Marker, AuditCounter} \cup {Fence(u) : u \in Users}
  \cup {AccountRow(u) : u \in Users} \cup {SubjectRow(x) : x \in Subjects \cup {NoSubject}}
OnPlayer == {"activate player", "deactivate player"}

Transaction ==
  [op : {"idle", "login", "claim", "create", "delete"} \cup OnAccount \cup OnPlayer,
   user : Users \cup {NoUser}, subject : Subjects \cup {NoSubject},
   step : {"start", "issue", "marker", "scan", "retire", "peek", "validate", "validated",
           "locked", "audit", "revoke"},
   row : Rows, held : SUBSET Rows, found : AccountRecord,
   scan : SUBSET Users, retired : SUBSET Users, ended : SUBSET Sessions]

LocksTypeOK == AccountsTypeOK /\ txn \in [Servers -> Transaction]

\* A row is locked by one transaction at most.
Exclusive == \A r, s \in Servers : r # s => T(r).held \cap T(s).held = {}

Covers(t, x) == x = NoSubject \/ SubjectRow(x) \in t.held

\* set_active and rebind_account_scope: an account once found stays, in its
\* role; the subject validated stays bindable; the row read under its lock is
\* the row there is.
AccountPlanned(t) ==
  t.op \in OnAccount /\ t.step # "revoke" =>
    /\ t.user \in Users
    /\ t.step \in {"peek", "validate", "validated", "locked", "audit"}
    /\ t.op = "rebind" => t.subject \in Subjects
    /\ t.step = "peek" => t.row = Fence(t.user)
    /\ t.step # "peek" => /\ Exists(t.user) /\ t.found.role = account[t.user].role
                          /\ t.op = "activate" => t.subject = t.found.subject
    /\ t.step = "validate" => t.op # "deactivate" /\ t.row = SubjectRow(t.subject)
    /\ t.step = "validated" => t.row = NoRow
    /\ t.step = "locked" => t.row = AccountRow(t.user)
    /\ t.step = "audit" => /\ t.row = AuditCounter /\ AccountRow(t.user) \in t.held
                           /\ t.found = account[t.user]
    /\ t.step \in {"validated", "locked", "audit"} /\ t.op # "deactivate" =>
         Covers(t, t.subject) /\ Bindable(t.found.role, t.subject)

\* create_account: the subject stays bindable.
CreatePlanned(t) ==
  t.op = "create" =>
    /\ t.user \in Users /\ t.subject \in Subjects /\ claimed
    /\ t.step \in {"validate", "audit"}
    /\ t.step = "validate" => t.row = SubjectRow(t.subject)
    /\ t.step = "audit" => /\ t.row = AuditCounter /\ SubjectRow(t.subject) \in t.held
                           /\ Bindable(RoleOf(t.subject), t.subject)

\* create_first_admin_if_unclaimed: nobody claims behind the marker.
ClaimPlanned(t) ==
  t.op = "claim" =>
    /\ t.user \in Users /\ t.subject = NoSubject
    /\ t.step \in {"marker", "audit"}
    /\ t.step = "marker" => t.row = Marker
    /\ t.step = "audit" => t.row = AuditCounter /\ Marker \in t.held /\ ~claimed

\* set_player_active: whoever is bound to the player is a candidate or retired,
\* nobody is bound meanwhile, and those retired stay as they were found.
Retires(t) == t.op = "deactivate player" \/ standing[t.subject] = "inactive"
PlayerPlanned(t) ==
  t.op \in OnPlayer =>
    /\ t.subject \in Players
    /\ t.step \in {"scan", "retire", "audit"}
    /\ t.step = "scan" => t.row = SubjectRow(t.subject) /\ t.retired = {}
    /\ t.step = "retire" => \/ t.row = NoRow
                            \/ t.row = AuditCounter /\ t.retired # {}
                            \/ t.user \in t.scan /\ t.row = AccountRow(t.user)
    /\ t.step = "audit" => t.row = AuditCounter /\ t.scan = {}
    /\ t.step # "scan" =>
         /\ SubjectRow(t.subject) \in t.held /\ standing[t.subject] # "gone"
         /\ t.retired \subseteq Bound(t.subject)
         /\ \A u \in t.retired : AccountRow(u) \in t.held
         /\ IF Retires(t) THEN Bound(t.subject) \subseteq t.scan \cup t.retired
            ELSE t.scan = {} /\ t.retired = {}

\* The guarded deletes: nothing that blocks them appears.
DeletePlanned(t) ==
  t.op = "delete" =>
    /\ t.subject \in Subjects
    /\ t.step \in {"scan", "audit"}
    /\ t.step = "scan" => t.row = SubjectRow(t.subject)
    /\ t.step = "audit" => /\ t.row = AuditCounter /\ SubjectRow(t.subject) \in t.held
                           /\ standing[t.subject] # "gone"
                           /\ \A u \in Users : ~Blocks(u, t.subject)

StepFits(t) ==
  /\ t.step = "retire" => t.op \in OnPlayer
  /\ t.step = "revoke" => t.op = "deactivate" /\ t.held = {} /\ t.row = NoRow
  /\ t.op = "idle" => t = Idle
  /\ t.op = "login" => t.step = "issue" /\ t.held = {} /\ t.row = NoRow

Planned(t) ==
  /\ AccountPlanned(t) /\ CreatePlanned(t) /\ ClaimPlanned(t)
  /\ PlayerPlanned(t) /\ DeletePlanned(t) /\ StepFits(t)

LocksInv == LocksTypeOK /\ AccountsInv /\ Exclusive /\ \A s \in Servers : Planned(T(s))

\* Rows of different kinds differ.
LEMMA RowKinds ==
  /\ NoRow \notin {Marker, AuditCounter} /\ Marker # AuditCounter
  /\ \A u : /\ Fence(u) \notin {NoRow, Marker, AuditCounter}
            /\ AccountRow(u) \notin {NoRow, Marker, AuditCounter}
  /\ \A u, v : /\ Fence(u) # AccountRow(v)
               /\ Fence(u) = Fence(v) => u = v
               /\ AccountRow(u) = AccountRow(v) => u = v
  /\ \A x \in Subjects :
       /\ SubjectRow(x) \notin {NoRow, Marker, AuditCounter}
       /\ \A u : SubjectRow(x) # Fence(u) /\ SubjectRow(x) # AccountRow(u)
       /\ \A y \in Subjects : SubjectRow(x) = SubjectRow(y) => x = y
  /\ SubjectRow(NoSubject) = NoRow
<1>1. \A x \in Subjects : SubjectRow(x) = <<"subject", x>>
  BY AccountsAssumption DEF Subjects, SubjectRow
<1>2. SubjectRow(NoSubject) = NoRow BY DEF SubjectRow
<1>3. NoRow \notin {Marker, AuditCounter} /\ Marker # AuditCounter
  BY DEF NoRow, Marker, AuditCounter
<1>4. ASSUME NEW u
      PROVE  /\ Fence(u) \notin {NoRow, Marker, AuditCounter}
             /\ AccountRow(u) \notin {NoRow, Marker, AuditCounter}
  BY DEF NoRow, Fence, AccountRow, Marker, AuditCounter
<1>5. ASSUME NEW u, NEW v
      PROVE  /\ Fence(u) # AccountRow(v)
             /\ Fence(u) = Fence(v) => u = v
             /\ AccountRow(u) = AccountRow(v) => u = v
  BY DEF Fence, AccountRow
<1>6. ASSUME NEW x \in Subjects, NEW u, NEW y \in Subjects
      PROVE  /\ SubjectRow(x) \notin {NoRow, Marker, AuditCounter}
             /\ SubjectRow(x) # Fence(u) /\ SubjectRow(x) # AccountRow(u)
             /\ SubjectRow(x) = SubjectRow(y) => x = y
  <2>1. SubjectRow(x) = <<"subject", x>> /\ SubjectRow(y) = <<"subject", y>> BY <1>1
  <2>2. <<"subject", x>> \notin {NoRow, Marker, AuditCounter, Fence(u), AccountRow(u)}
    BY DEF NoRow, Fence, AccountRow, Marker, AuditCounter
  <2>. QED BY <2>1, <2>2
<1>. QED BY <1>2, <1>3, <1>4, <1>5, <1>6

\* A commit writes under the locks that its transaction holds.
WritesUnderLocks(t) ==
  /\ \A v \in Users : account'[v] # account[v] =>
       /\ Exists(v) => AccountRow(v) \in t.held /\ account'[v].role = account[v].role
       /\ account'[v].life # "none"
       /\ \/ Covers(t, account'[v].subject)
          \/ account'[v].subject = account[v].subject /\ account'[v].life = "inactive" /\ Exists(v)
  /\ \A x \in Subjects : standing'[x] # standing[x] => SubjectRow(x) \in t.held
  /\ claimed' # claimed => claimed' /\ Marker \in t.held

\* The four commits.
CommitsOn(s) == CommitOnAccount(s) \/ CommitNew(s) \/ CommitSetPlayerActive(s) \/ CommitDelete(s)

\* Each commit does what its call alone would do now.
LEMMA CommitIsCall ==
  ASSUME LocksInv, NEW s \in Servers, CommitsOn(s)
  PROVE  AccountsNext
<1> USE DEF LocksInv, LocksTypeOK, AccountsTypeOK, At, T, Planned
<1>0. txn[s] \in Transaction OBVIOUS
<1>1. CASE CommitOnAccount(s)
  <2> DEFINE u == txn[s].user
  <2>1. /\ txn[s].op \in OnAccount /\ txn[s].step = "audit" /\ u \in Users
        /\ Exists(u) /\ txn[s].found = account[u]
        /\ SetAccount(u, Saved(s)) /\ UNCHANGED <<standing, claimed>>
    BY <1>1 DEF CommitOnAccount, AccountPlanned
  <2>2. CASE txn[s].op = "activate"
    <3>1. Bindable(account[u].role, account[u].subject)
      BY <2>1, <2>2 DEF AccountPlanned
    <3>2. Activate(u) BY <2>1, <2>2, <3>1 DEF Saved, Activate
    <3>. QED BY <2>1, <3>2 DEF AccountsNext
  <2>3. CASE txn[s].op = "deactivate"
    <3>1. Deactivate(u) BY <2>1, <2>3 DEF Saved, Deactivate
    <3>. QED BY <2>1, <3>1 DEF AccountsNext
  <2>4. CASE txn[s].op = "rebind"
    <3>1. txn[s].subject \in Subjects /\ Bindable(account[u].role, txn[s].subject)
      BY <2>1, <2>4 DEF AccountPlanned
    <3>2. Rebind(u, txn[s].subject) BY <2>1, <2>4, <3>1 DEF Saved, Rebind
    <3>. QED BY <2>1, <3>1, <3>2 DEF AccountsNext
  <2>. QED BY <2>1, <2>2, <2>3, <2>4 DEF OnAccount
<1>2. CASE CommitNew(s)
  <2>1. CASE txn[s].op = "create"
    <3>1. txn[s].user \in Users /\ txn[s].subject \in Subjects
      BY <2>1 DEF CreatePlanned
    <3>2. Create(txn[s].user, txn[s].subject)
      BY <1>2, <2>1 DEF CommitNew, CreatePlanned, Create
    <3>. QED BY <3>1, <3>2 DEF AccountsNext
  <2>2. CASE txn[s].op = "claim"
    <3>1. txn[s].user \in Users /\ txn[s].subject = NoSubject /\ ~claimed
      BY <1>2, <2>2 DEF CommitNew, ClaimPlanned
    <3>2. RoleOf(NoSubject) = "admin" BY RoleKinds
    <3>3. Claim(txn[s].user)
      BY <1>2, <2>2, <3>1, <3>2 DEF CommitNew, Claim, AccountsInv, NobodyUnclaimed
    <3>. QED BY <3>1, <3>3 DEF AccountsNext
  <2>. QED BY <1>2, <2>1, <2>2 DEF CommitNew
<1>3. CASE CommitSetPlayerActive(s)
  <2> DEFINE p == txn[s].subject
             on == txn[s].op = "activate player"
  <2>1. p \in Players /\ on \in BOOLEAN /\ standing[p] # "gone" /\ txn[s].scan = {}
    BY <1>3 DEF CommitSetPlayerActive, PlayerPlanned, OnPlayer
  <2>2. txn[s].retired = IF ~on \/ standing[p] = "inactive" THEN Bound(p) ELSE {}
    BY <1>3 DEF CommitSetPlayerActive, PlayerPlanned, Retires, OnPlayer
  <2>3. SetPlayerActive(p, on)
    BY <1>3, <2>1, <2>2 DEF CommitSetPlayerActive, SetPlayerActive
  <2>. QED BY <2>1, <2>3 DEF AccountsNext
<1>4. CASE CommitDelete(s)
  <2>1. txn[s].subject \in Subjects /\ Delete(txn[s].subject)
    BY <1>4 DEF CommitDelete, DeletePlanned, Delete
  <2>. QED BY <2>1 DEF AccountsNext
<1>. QED BY <1>1, <1>2, <1>3, <1>4 DEF CommitsOn

\* ... and writes only what it has locked.
LEMMA CommitIsCovered ==
  ASSUME LocksInv, NEW s \in Servers, CommitsOn(s)
  PROVE  WritesUnderLocks(T(s))
<1> USE DEF LocksInv, LocksTypeOK, AccountsTypeOK, At, T, Planned, Exists, Covers, SetAccount, Account
<1>0. txn[s] \in Transaction OBVIOUS
<1>1. CASE CommitOnAccount(s)
  <2>1. /\ txn[s].op \in OnAccount /\ txn[s].step = "audit" /\ txn[s].user \in Users
        /\ Exists(txn[s].user) /\ txn[s].found = account[txn[s].user]
        /\ AccountRow(txn[s].user) \in txn[s].held
        /\ account' = [account EXCEPT ![txn[s].user] = Saved(s)] /\ UNCHANGED <<standing, claimed>>
    BY <1>1 DEF CommitOnAccount, AccountPlanned
  <2>2. txn[s].op \in {"activate", "rebind"} => Covers(txn[s], txn[s].subject)
    BY <2>1 DEF AccountPlanned
  <2>3. txn[s].op = "activate" => Saved(s).subject = txn[s].subject /\ Saved(s).life # "none"
                                   /\ Saved(s).role = account[txn[s].user].role
    BY <2>1 DEF AccountPlanned, Saved
  <2>4. txn[s].op = "rebind" => Saved(s).subject = txn[s].subject /\ Saved(s).life # "none"
                                   /\ Saved(s).role = account[txn[s].user].role
    BY <2>1 DEF AccountPlanned, Saved
  <2>5. txn[s].op = "deactivate" =>
          Saved(s).subject = account[txn[s].user].subject /\ Saved(s).life = "inactive"
                                   /\ Saved(s).role = account[txn[s].user].role
    BY <2>1 DEF AccountPlanned, Saved
  <2>. QED BY <2>1, <2>2, <2>3, <2>4, <2>5 DEF WritesUnderLocks, OnAccount
<1>2. CASE CommitNew(s)
  BY <1>2 DEF CommitNew, CreatePlanned, ClaimPlanned, WritesUnderLocks
<1>3. CASE CommitSetPlayerActive(s)
  <2>1. /\ txn[s].subject \in Subjects /\ SubjectRow(txn[s].subject) \in txn[s].held
        /\ \A v \in txn[s].retired : Exists(v) /\ AccountRow(v) \in txn[s].held
    BY <1>3 DEF CommitSetPlayerActive, PlayerPlanned, Subjects, OnPlayer, Bound, Active
  <2>2. \A v \in Users : account'[v] # account[v] =>
          /\ v \in txn[s].retired /\ account'[v].life = "inactive"
          /\ account'[v].role = account[v].role /\ account'[v].subject = account[v].subject
    BY <1>3 DEF CommitSetPlayerActive, Retire
  <2>3. \A x \in Subjects : standing'[x] # standing[x] => x = txn[s].subject
    BY <1>3 DEF CommitSetPlayerActive
  <2>4. claimed' = claimed BY <1>3 DEF CommitSetPlayerActive
  <2>. HIDE DEF LocksInv, Planned
  <2>5. \A v \in Users : account'[v] # account[v] =>
          /\ Exists(v) /\ AccountRow(v) \in txn[s].held /\ account'[v].role = account[v].role
          /\ account'[v].subject = account[v].subject /\ account'[v].life = "inactive"
    BY <2>1, <2>2
  <2>. QED BY <2>1, <2>3, <2>4, <2>5 DEF WritesUnderLocks
<1>4. CASE CommitDelete(s)
  BY <1>4 DEF CommitDelete, DeletePlanned, WritesUnderLocks
<1>. QED BY <1>1, <1>2, <1>3, <1>4 DEF CommitsOn

\* What another transaction has decided under its own locks stays decided.
LEMMA OthersStayPlanned ==
  ASSUME LocksInv, LocksTypeOK', NEW r \in Servers, NEW s \in Servers, r # s,
         WritesUnderLocks(T(s)), txn'[r] = txn[r]
  PROVE  Planned(T(r))'
<1> USE DEF LocksInv, LocksTypeOK, AccountsTypeOK, T, Planned
<1>0. /\ txn[r] \in Transaction /\ txn[s] \in Transaction /\ T(r)' = T(r)
      /\ \A row : row \in txn[r].held => row \notin txn[s].held
  BY DEF Exclusive
<1> DEFINE t == txn[r]
<1>1. \A v \in Users : AccountRow(v) \in t.held /\ Exists(v) => account'[v] = account[v]
  BY <1>0 DEF WritesUnderLocks
<1>2. \A v \in Users : Exists(v) => Exists(v)' /\ account'[v].role = account[v].role
  BY DEF WritesUnderLocks, Exists
<1>3. \A x \in Subjects : SubjectRow(x) \in t.held => standing'[x] = standing[x]
  BY <1>0 DEF WritesUnderLocks
<1>4. \A x \in Subjects, v \in Users :
        SubjectRow(x) \in t.held /\ account'[v].subject = x /\ account'[v] # account[v] =>
          account[v].subject = x /\ account'[v].life = "inactive" /\ Exists(v)
  BY <1>0, AccountsAssumption DEF WritesUnderLocks, Covers, Subjects
<1>5. AccountPlanned(t)'
  <2>1. AccountPlanned(t) OBVIOUS
  <2>2. \A x \in Subjects \cup {NoSubject}, role \in {"player", "coach", "admin"} :
          Covers(t, x) /\ Bindable(role, x) => Bindable(role, x)'
    BY <1>3, AccountsAssumption DEF Bindable, Covers, Subjects
  <2>3. t.user \in Users /\ Exists(t.user) => Exists(t.user)' /\ account'[t.user].role = account[t.user].role
    BY <1>2
  <2>4. AccountRow(t.user) \in t.held /\ t.user \in Users /\ Exists(t.user) => account'[t.user] = account[t.user]
    BY <1>1
  <2>5. t.subject \in Subjects \cup {NoSubject} /\ t.found.role \in {"player", "coach", "admin"}
    BY <1>0 DEF Transaction, AccountRecord
  <2>. HIDE DEF LocksInv, Planned
  <2>. QED BY <1>0, <2>1, <2>2, <2>3, <2>4, <2>5 DEF AccountPlanned, Covers
<1>6. CreatePlanned(t)'
  BY <1>0, <1>3 DEF CreatePlanned, Bindable, WritesUnderLocks
<1>7. ClaimPlanned(t)'
  <2>1. Marker \in t.held => claimed' = claimed BY <1>0 DEF WritesUnderLocks
  <2>. QED BY <1>0, <2>1 DEF ClaimPlanned
<1>8. PlayerPlanned(t)'
  <2> SUFFICES ASSUME t.op \in OnPlayer, t.step # "scan"
               PROVE  PlayerPlanned(t)'
    BY <1>0 DEF PlayerPlanned
  <2>1. t.subject \in Subjects /\ SubjectRow(t.subject) \in t.held
    BY DEF PlayerPlanned, Subjects
  <2>2. standing'[t.subject] = standing[t.subject]
    BY <2>1, <1>3
  <2>3. Bound(t.subject)' \subseteq Bound(t.subject)
    BY <2>1, <1>4 DEF Bound, Active
  <2>4. \A u \in t.retired : u \in Bound(t.subject)'
    BY <1>1 DEF PlayerPlanned, Bound, Active, Exists
  <2>5. Retires(t)' <=> Retires(t) BY <2>2 DEF Retires
  <2>6. PlayerPlanned(t) OBVIOUS
  <2>. HIDE DEF LocksInv, Planned
  <2>. QED BY <1>0, <2>2, <2>3, <2>4, <2>5, <2>6 DEF PlayerPlanned
<1>9. DeletePlanned(t)'
  <2> SUFFICES ASSUME t.op = "delete", t.step = "audit"
               PROVE  DeletePlanned(t)'
    BY <1>0 DEF DeletePlanned
  <2>1. t.subject \in Subjects /\ SubjectRow(t.subject) \in t.held
    BY DEF DeletePlanned
  <2>2. \A u \in Users : ~Blocks(u, t.subject)'
    BY <2>1, <1>4 DEF DeletePlanned, Blocks, Active, Exists
  <2>. QED BY <1>0, <1>3, <2>1, <2>2 DEF DeletePlanned
<1>. QED BY <1>0, <1>5, <1>6, <1>7, <1>8, <1>9 DEF StepFits

\* A transaction's step changes its own record, keeps it decided, and locks
\* nothing but a row that nobody holds.
Moves(s) ==
  /\ txn'[s] \in Transaction /\ txn' = [txn EXCEPT ![s] = txn'[s]]
  /\ Planned(T(s))'
  /\ \A row \in T(s)'.held : row \in T(s).held \/ \A r \in Servers : row \notin T(r).held

\* A transaction that is over, or that waits for its sessions to be revoked,
\* holds nothing.
LEMMA EndsPlanned ==
  ASSUME LocksInv, NEW s \in Servers,
         \/ Set(s, Idle)
         \/ \E u \in Users : Set(s, [Request("deactivate", u, NoSubject) EXCEPT !.step = "revoke"])
  PROVE  Moves(s) /\ T(s)'.held = {} /\ T(s)'.step # "retire"
<1>1. CASE Set(s, Idle)
  <2>1. Idle \in Transaction
    BY DEF Idle, Transaction, NoAccount, AccountRecord, Rows
  <2>2. txn'[s] = Idle /\ txn' = [txn EXCEPT ![s] = txn'[s]]
    BY <1>1 DEF Set, LocksInv, LocksTypeOK
  <2>. QED BY <2>1, <2>2 DEF Moves, T, Idle, Planned, AccountPlanned, CreatePlanned, ClaimPlanned,
                             PlayerPlanned, DeletePlanned, StepFits, OnAccount, OnPlayer
<1>2. ASSUME NEW u \in Users, Set(s, [Request("deactivate", u, NoSubject) EXCEPT !.step = "revoke"])
      PROVE  Moves(s) /\ T(s)'.held = {} /\ T(s)'.step # "retire"
  <2> DEFINE t == [Request("deactivate", u, NoSubject) EXCEPT !.step = "revoke"]
  <2>1. /\ t \in Transaction /\ t.op = "deactivate" /\ t.step = "revoke" /\ t.held = {}
        /\ t.row = NoRow
    BY DEF Request, Idle, Transaction, NoAccount, AccountRecord, Rows, OnAccount
  <2>2. txn'[s] = t /\ txn' = [txn EXCEPT ![s] = txn'[s]]
    BY <1>2 DEF Set, LocksInv, LocksTypeOK
  <2> HIDE DEF t
  <2>. QED BY <2>1, <2>2 DEF Moves, T, Planned, AccountPlanned, CreatePlanned, ClaimPlanned,
                             PlayerPlanned, DeletePlanned, StepFits, OnAccount, OnPlayer
<1>. QED BY <1>1, <1>2

\* Calls begin with nothing decided.
LEMMA BeginsPlanned ==
  ASSUME LocksInv, NEW s \in Servers,
         \/ \E u \in Users :
              \/ BeginOnAccount(s, "activate", u, NoSubject)
              \/ BeginOnAccount(s, "deactivate", u, NoSubject)
              \/ \E x \in Subjects : BeginOnAccount(s, "rebind", u, x) \/ BeginCreate(s, u, x)
              \/ BeginClaim(s, u) \/ VerifyLogin(s, u)
         \/ \E x \in Subjects : BeginOnSubject(s, "delete", x)
         \/ \E p \in Players, op \in OnPlayer : BeginOnSubject(s, op, p)
  PROVE  Moves(s) /\ T(s)'.held = {} /\ T(s)'.step # "retire"
<1> USE DEF LocksInv, LocksTypeOK, T, Planned, AccountPlanned, CreatePlanned, ClaimPlanned,
            PlayerPlanned, DeletePlanned, StepFits, OnAccount, OnPlayer
<1>1. PICK t \in Transaction : Set(s, t) /\ t.held = {} /\ t.step # "retire" /\ Planned(t)'
  <2>1. ASSUME NEW u \in Users, NEW op \in OnAccount, NEW x \in Subjects \cup {NoSubject},
               op = "rebind" => x \in Subjects, BeginOnAccount(s, op, u, x)
        PROVE  \E t \in Transaction : Set(s, t) /\ t.held = {} /\ t.step # "retire" /\ Planned(t)'
    <3> DEFINE t == [Request(op, u, x) EXCEPT !.step = "peek", !.row = Fence(u)]
    <3>1. /\ t \in Transaction /\ t.op = op /\ t.user = u /\ t.subject = x /\ t.step = "peek"
          /\ t.row = Fence(u) /\ t.held = {}
      BY DEF Request, Idle, Transaction, NoAccount, AccountRecord, Rows
    <3>2. Set(s, t) BY <2>1 DEF BeginOnAccount, Call
    <3> HIDE DEF t
    <3>. QED BY <2>1, <3>1, <3>2
  <2>2. ASSUME NEW u \in Users, NEW x \in Subjects, BeginCreate(s, u, x)
        PROVE  \E t \in Transaction : Set(s, t) /\ t.held = {} /\ t.step # "retire" /\ Planned(t)'
    <3> DEFINE t == [Request("create", u, x) EXCEPT !.step = "validate", !.row = SubjectRow(x)]
    <3>1. /\ t \in Transaction /\ t.op = "create" /\ t.user = u /\ t.subject = x
          /\ t.step = "validate" /\ t.row = SubjectRow(x) /\ t.held = {}
      BY DEF Request, Idle, Transaction, NoAccount, AccountRecord, Rows
    <3>2. Set(s, t) /\ claimed' BY <2>2 DEF BeginCreate, Call, books
    <3> HIDE DEF t
    <3>. QED BY <3>1, <3>2
  <2>3. ASSUME NEW u \in Users, BeginClaim(s, u)
        PROVE  \E t \in Transaction : Set(s, t) /\ t.held = {} /\ t.step # "retire" /\ Planned(t)'
    <3> DEFINE t == [Request("claim", u, NoSubject) EXCEPT !.step = "marker", !.row = Marker]
    <3>1. /\ t \in Transaction /\ t.op = "claim" /\ t.user = u /\ t.subject = NoSubject
          /\ t.step = "marker" /\ t.row = Marker /\ t.held = {}
      BY DEF Request, Idle, Transaction, NoAccount, AccountRecord, Rows
    <3>2. Set(s, t) BY <2>3 DEF BeginClaim, Call
    <3> HIDE DEF t
    <3>. QED BY <3>1, <3>2
  <2>4. ASSUME NEW u \in Users, VerifyLogin(s, u)
        PROVE  \E t \in Transaction : Set(s, t) /\ t.held = {} /\ t.step # "retire" /\ Planned(t)'
    <3> DEFINE t == [Request("login", u, NoSubject) EXCEPT !.step = "issue"]
    <3>1. /\ t \in Transaction /\ t.op = "login" /\ t.step = "issue" /\ t.row = NoRow /\ t.held = {}
      BY DEF Request, Idle, Transaction, NoAccount, AccountRecord, Rows
    <3>2. Set(s, t) BY <2>4 DEF VerifyLogin, Call
    <3> HIDE DEF t
    <3>. QED BY <3>1, <3>2
  <2>5. ASSUME NEW x \in Subjects, NEW op \in {"delete"} \cup OnPlayer, op \in OnPlayer => x \in Players,
               BeginOnSubject(s, op, x)
        PROVE  \E t \in Transaction : Set(s, t) /\ t.held = {} /\ t.step # "retire" /\ Planned(t)'
    <3> DEFINE t == [Request(op, NoUser, x) EXCEPT !.step = "scan", !.row = SubjectRow(x)]
    <3>1. /\ t \in Transaction /\ t.op = op /\ t.subject = x /\ t.step = "scan"
          /\ t.row = SubjectRow(x) /\ t.held = {} /\ t.retired = {}
      BY DEF Request, Idle, Transaction, NoAccount, AccountRecord, Rows
    <3>2. Set(s, t) BY <2>5 DEF BeginOnSubject, Call
    <3> HIDE DEF t
    <3>. QED BY <2>5, <3>1, <3>2
  <2>. QED BY <2>1, <2>2, <2>3, <2>4, <2>5 DEF Subjects
<1>2. txn'[s] = t /\ txn' = [txn EXCEPT ![s] = txn'[s]]
  BY <1>1 DEF Set
<1>. QED BY <1>1, <1>2 DEF Moves

\* A step that leaves the books alone and locks nothing but a free row.
LEMMA QuietlyMoves ==
  ASSUME LocksInv, NEW s \in Servers, NEW t \in Transaction, Set(s, t), UNCHANGED books,
         Planned(t),
         \A row \in t.held : row \in T(s).held \/ \A r \in Servers : row \notin T(r).held
  PROVE  Moves(s)
<1>1. txn'[s] = t /\ txn' = [txn EXCEPT ![s] = t]
  BY DEF LocksInv, LocksTypeOK, Set
<1>2. account' = account /\ standing' = standing /\ claimed' = claimed
  BY DEF books
<1>3. AccountPlanned(t)' <=> AccountPlanned(t)
  BY <1>2 DEF AccountPlanned, Exists, Bindable, Covers
<1>4. CreatePlanned(t)' <=> CreatePlanned(t)
  BY <1>2 DEF CreatePlanned, Bindable
<1>5. ClaimPlanned(t)' <=> ClaimPlanned(t)
  BY <1>2 DEF ClaimPlanned
<1>6. PlayerPlanned(t)' <=> PlayerPlanned(t)
  BY <1>2 DEF PlayerPlanned, Retires, Bound, Active
<1>7. DeletePlanned(t)' <=> DeletePlanned(t)
  BY <1>2 DEF DeletePlanned, Blocks, Active, Exists
<1>8. StepFits(t)' <=> StepFits(t) BY DEF StepFits
<1>9. Planned(T(s))'
  BY <1>1, <1>3, <1>4, <1>5, <1>6, <1>7, <1>8 DEF Planned, T
<1>. QED BY <1>1, <1>9 DEF Moves, T

\* Steps of set_active and rebind_account_scope before their commit.
LEMMA AccountStepPlanned ==
  ASSUME LocksInv, NEW s \in Servers,
         Peek(s) \/ Validate(s) \/ LockAccount(s) \/ ReadLocked(s)
  PROVE  Moves(s) /\ UNCHANGED books
<1> USE DEF LocksInv, LocksTypeOK, AccountsTypeOK, T, At, Set, Then, Quiet
<1>0. txn[s] \in Transaction /\ AccountPlanned(txn[s]) BY DEF Planned
<1>1. UNCHANGED books BY DEF Peek, Validate, LockAccount, ReadLocked
<1>2. ASSUME NEW t \in Transaction, Set(s, t), t.op \in OnAccount, t.step \notin {"retire", "revoke"},
             AccountPlanned(t), t.held = txn[s].held
      PROVE  Moves(s)
  <2>1. Planned(t)
    BY <1>2 DEF Planned, CreatePlanned, ClaimPlanned, PlayerPlanned, DeletePlanned, StepFits,
                OnAccount, OnPlayer
  <2>. HIDE DEF LocksInv, Moves, Planned
  <2>. QED BY <1>1, <1>2, <2>1, QuietlyMoves
<1>3. CASE Peek(s)
  <2> DEFINE row == account[txn[s].user]
             x == IF txn[s].op = "activate" THEN row.subject ELSE txn[s].subject
             t == [txn[s] EXCEPT !.found = row, !.subject = x,
                     !.step = IF txn[s].op = "deactivate" THEN "validated" ELSE "validate",
                     !.row = IF txn[s].op = "deactivate" THEN NoRow ELSE SubjectRow(x)]
  <2>1. txn[s].op \in OnAccount /\ txn[s].step = "peek" /\ txn[s].user \in Users /\ Exists(txn[s].user)
    BY <1>0, <1>3 DEF Peek, AccountPlanned
  <2>2. row \in AccountRecord /\ x \in Subjects \cup {NoSubject}
    <3>1. row \in AccountRecord BY <2>1 DEF AccountRecord
    <3>2. txn[s].subject \in Subjects \cup {NoSubject} BY <1>0 DEF Transaction
    <3>. HIDE DEF row
    <3>3. row.subject \in Subjects \cup {NoSubject} BY <3>1 DEF AccountRecord
    <3>. QED BY <3>1, <3>2, <3>3
  <2>3. t \in Transaction
    <3>. HIDE DEF row, x
    <3>1. SubjectRow(x) \in Rows /\ NoRow \in Rows BY <2>2 DEF Rows
    <3>. QED BY <1>0, <2>2, <3>1 DEF Transaction
  <2>4. t.op = txn[s].op /\ t.user = txn[s].user /\ t.found = row /\ t.subject = x /\ t.held = txn[s].held
        /\ t.step = (IF txn[s].op = "deactivate" THEN "validated" ELSE "validate")
        /\ t.row = (IF txn[s].op = "deactivate" THEN NoRow ELSE SubjectRow(x))
    BY <1>0 DEF Transaction
  <2>5. Set(s, t) BY <1>3 DEF Peek
  <2> HIDE DEF t
  <2>6. AccountPlanned(t) BY <1>0, <2>1, <2>2, <2>4 DEF AccountPlanned
  <2>. QED BY <1>1, <1>2, <2>1, <2>3, <2>4, <2>5, <2>6
<1>4. CASE Validate(s)
  <2> DEFINE t == [txn[s] EXCEPT !.step = "validated", !.row = NoRow]
  <2>1. /\ txn[s].op \in {"activate", "rebind"} /\ txn[s].step = "validate"
        /\ txn[s].row \in txn[s].held \cup {NoRow} /\ Bindable(txn[s].found.role, txn[s].subject)
    BY <1>4 DEF Validate
  <2>2. t \in Transaction BY <1>0 DEF Transaction, Rows
  <2>3. /\ t.op = txn[s].op /\ t.user = txn[s].user /\ t.found = txn[s].found
        /\ t.subject = txn[s].subject /\ t.held = txn[s].held /\ t.step = "validated" /\ t.row = NoRow
    BY <1>0 DEF Transaction
  <2>4. Set(s, t) BY <1>4 DEF Validate
  <2> HIDE DEF t
  <2>5. Covers(txn[s], txn[s].subject)
    BY <1>0, <2>1, RowKinds DEF AccountPlanned, Covers, Transaction, OnAccount
  <2>6. AccountPlanned(t) BY <1>0, <2>1, <2>3, <2>5 DEF AccountPlanned, OnAccount, Covers
  <2>. QED BY <1>1, <1>2, <2>1, <2>2, <2>3, <2>4, <2>6 DEF OnAccount
<1>5. CASE LockAccount(s)
  <2> DEFINE t == [txn[s] EXCEPT !.step = "locked", !.row = AccountRow(txn[s].user)]
  <2>1. txn[s].op \in OnAccount /\ txn[s].step = "validated" BY <1>5 DEF LockAccount
  <2>2. t \in Transaction BY <1>0, <2>1 DEF Transaction, Rows, AccountPlanned
  <2>3. /\ t.op = txn[s].op /\ t.user = txn[s].user /\ t.found = txn[s].found
        /\ t.subject = txn[s].subject /\ t.held = txn[s].held /\ t.step = "locked"
        /\ t.row = AccountRow(t.user)
    BY <1>0 DEF Transaction
  <2>4. Set(s, t) BY <1>5 DEF LockAccount
  <2> HIDE DEF t
  <2>5. AccountPlanned(t) BY <1>0, <2>1, <2>3 DEF AccountPlanned, Covers
  <2>. QED BY <1>1, <1>2, <2>1, <2>2, <2>3, <2>4, <2>5
<1>6. CASE ReadLocked(s)
  <2> DEFINE row == account[txn[s].user]
             t == [txn[s] EXCEPT !.found = row, !.step = "audit", !.row = AuditCounter]
  <2>1. /\ txn[s].op \in OnAccount /\ txn[s].step = "locked"
        /\ txn[s].row \in txn[s].held \cup {NoRow}
        /\ txn[s].op = "activate" => row.subject = txn[s].found.subject
    BY <1>6 DEF ReadLocked
  <2>2. txn[s].user \in Users /\ row \in AccountRecord
    BY <1>0, <2>1 DEF AccountPlanned, AccountRecord
  <2>3. t \in Transaction BY <1>0, <2>2 DEF Transaction, Rows
  <2>4. /\ t.op = txn[s].op /\ t.user = txn[s].user /\ t.found = row
        /\ t.subject = txn[s].subject /\ t.held = txn[s].held /\ t.step = "audit"
        /\ t.row = AuditCounter
    BY <1>0 DEF Transaction
  <2>5. Set(s, t) BY <1>6 DEF ReadLocked
  <2> HIDE DEF t
  <2>6. AccountRow(t.user) \in t.held
    <3>1. AccountRow(txn[s].user) # NoRow BY DEF AccountRow, NoRow
    <3>. QED BY <1>0, <2>1, <2>4, <3>1 DEF AccountPlanned
  <2>7. AccountPlanned(t) BY <1>0, <2>1, <2>4, <2>6 DEF AccountPlanned, Covers
  <2>. QED BY <1>1, <1>2, <2>1, <2>3, <2>4, <2>5, <2>7
<1>. QED BY <1>1, <1>3, <1>4, <1>5, <1>6

\* Steps of the creations and the claim before their commit.
LEMMA NewAccountPlanned ==
  ASSUME LocksInv, NEW s \in Servers, ValidateNew(s) \/ InsertMarker(s)
  PROVE  Moves(s) /\ UNCHANGED books
<1> USE DEF T, At, Set, Then, Quiet
<1> DEFINE t == [txn[s] EXCEPT !.step = "audit", !.row = AuditCounter]
<1>0. /\ txn[s] \in Transaction /\ AccountsTypeOK
      /\ CreatePlanned(txn[s]) /\ ClaimPlanned(txn[s])
  BY DEF Planned, LocksInv, LocksTypeOK
<1>1. UNCHANGED books /\ Set(s, t) BY DEF ValidateNew, InsertMarker
<1>2. t \in Transaction BY <1>0 DEF Transaction, Rows
<1>3. /\ t.op = txn[s].op /\ t.user = txn[s].user /\ t.subject = txn[s].subject
      /\ t.held = txn[s].held /\ t.step = "audit" /\ t.row = AuditCounter
  BY <1>0 DEF Transaction
<1>4. SubjectRow(txn[s].subject) # NoRow \/ txn[s].subject = NoSubject
  BY DEF SubjectRow, NoRow
<1>5. Marker # NoRow BY DEF Marker, NoRow
<1> HIDE DEF t
<1>6. Planned(t)
  <2>1. CASE ValidateNew(s)
    BY <1>0, <1>3, <1>4, <2>1, AccountsAssumption
    DEF ValidateNew, Planned, AccountPlanned, CreatePlanned, ClaimPlanned, PlayerPlanned,
        DeletePlanned, StepFits, OnAccount, OnPlayer, Subjects
  <2>2. CASE InsertMarker(s)
    BY <1>0, <1>3, <1>5, <2>2
    DEF InsertMarker, Planned, AccountPlanned, CreatePlanned, ClaimPlanned, PlayerPlanned,
        DeletePlanned, StepFits, OnAccount, OnPlayer
  <2>. QED BY <2>1, <2>2
<1>. QED BY <1>1, <1>2, <1>3, <1>6, QuietlyMoves

\* The scan of a guarded delete.
LEMMA DeletePlannedStep ==
  ASSUME LocksInv, NEW s \in Servers, ScanDelete(s)
  PROVE  Moves(s) /\ UNCHANGED books
<1> USE DEF T, At, Set, Then, Quiet
<1> DEFINE t == [txn[s] EXCEPT !.step = "audit", !.row = AuditCounter]
<1>0. txn[s] \in Transaction /\ DeletePlanned(txn[s])
  BY DEF Planned, LocksInv, LocksTypeOK
<1>1. UNCHANGED books /\ Set(s, t) BY DEF ScanDelete
<1>2. t \in Transaction BY <1>0 DEF Transaction, Rows
<1>3. /\ t.op = txn[s].op /\ t.user = txn[s].user /\ t.subject = txn[s].subject
      /\ t.held = txn[s].held /\ t.step = "audit" /\ t.row = AuditCounter
  BY <1>0 DEF Transaction
<1>4. SubjectRow(txn[s].subject) # NoRow \/ txn[s].subject = NoSubject
  BY DEF SubjectRow, NoRow
<1> HIDE DEF t
<1>6. Planned(t)
  BY <1>0, <1>3, <1>4, AccountsAssumption
  DEF ScanDelete, Planned, AccountPlanned, CreatePlanned, ClaimPlanned, PlayerPlanned,
      DeletePlanned, StepFits, OnAccount, OnPlayer, Subjects
<1>. QED BY <1>1, <1>2, <1>3, <1>6, QuietlyMoves

\* A row is locked once nobody holds it.
LEMMA LockPlanned ==
  ASSUME LocksInv, NEW s \in Servers, Lock(s)
  PROVE  Moves(s) /\ UNCHANGED books
<1> USE DEF T, Set, Quiet
<1> DEFINE t == [txn[s] EXCEPT !.held = @ \cup {txn[s].row}]
<1>0. txn[s] \in Transaction /\ Planned(txn[s])
  BY DEF LocksInv, LocksTypeOK
<1>1. UNCHANGED books /\ Set(s, t) /\ txn[s].row # NoRow /\ \A r \in Servers : txn[s].row \notin txn[r].held
  BY DEF Lock
<1>2. t \in Transaction BY <1>0 DEF Transaction
<1>3. /\ t.op = txn[s].op /\ t.user = txn[s].user /\ t.subject = txn[s].subject
      /\ t.step = txn[s].step /\ t.row = txn[s].row /\ t.found = txn[s].found
      /\ t.scan = txn[s].scan /\ t.retired = txn[s].retired
      /\ t.held = txn[s].held \cup {txn[s].row}
  BY <1>0 DEF Transaction
<1> HIDE DEF t
<1>4. Planned(t)
  <2>1. AccountPlanned(t) BY <1>0, <1>3 DEF Planned, AccountPlanned, Covers
  <2>2. CreatePlanned(t) /\ ClaimPlanned(t) /\ DeletePlanned(t)
    BY <1>0, <1>3 DEF Planned, CreatePlanned, ClaimPlanned, DeletePlanned
  <2>3. PlayerPlanned(t) BY <1>0, <1>3 DEF Planned, PlayerPlanned, Retires
  <2>4. StepFits(t) BY <1>0, <1>1, <1>3 DEF Planned, StepFits, Idle
  <2>. QED BY <2>1, <2>2, <2>3, <2>4 DEF Planned
<1>. QED BY <1>1, <1>2, <1>3, <1>4, QuietlyMoves

\* Steps of set_player_active before its commit.
LEMMA PlayerStepPlanned ==
  ASSUME LocksInv, NEW s \in Servers,
         \/ Scan(s) \/ RetireOne(s) \/ NextCandidate(s) \/ AllRetired(s)
         \/ \E u \in Users : LockCandidate(s, u)
  PROVE  Moves(s) /\ UNCHANGED books
<1> USE DEF T, At, Set, Then, Quiet
<1>0. /\ txn[s] \in Transaction /\ PlayerPlanned(txn[s]) /\ AccountsTypeOK
      /\ txn[s].step = "retire" => txn[s].op \in OnPlayer
  BY DEF Planned, StepFits, LocksInv, LocksTypeOK
<1>1. UNCHANGED books BY DEF Scan, RetireOne, NextCandidate, AllRetired, LockCandidate
<1>2. ASSUME NEW t \in Transaction, Set(s, t), t.op \in OnPlayer, PlayerPlanned(t), t.held = txn[s].held
      PROVE  Moves(s)
  <2>1. Planned(t)
    BY <1>2 DEF Planned, AccountPlanned, CreatePlanned, ClaimPlanned, DeletePlanned, StepFits,
                PlayerPlanned, OnAccount, OnPlayer
  <2>. QED BY <1>1, <1>2, <2>1, QuietlyMoves
<1>3. CASE Scan(s)
  <2> DEFINE p == txn[s].subject
             c == IF Retires(txn[s]) THEN Bound(p) ELSE {}
             t == [txn[s] EXCEPT !.step = "retire", !.row = NoRow, !.scan = c]
  <2>1. /\ txn[s].op \in OnPlayer /\ txn[s].step = "scan" /\ txn[s].row \in txn[s].held \cup {NoRow}
        /\ standing[p] # "gone"
    BY <1>3 DEF Scan, OnPlayer
  <2>2. c \in SUBSET Users BY DEF Bound
  <2>3. t \in Transaction BY <1>0, <2>2 DEF Transaction, Rows
  <2>4. /\ t.op = txn[s].op /\ t.user = txn[s].user /\ t.subject = p /\ t.held = txn[s].held
        /\ t.step = "retire" /\ t.row = NoRow /\ t.scan = c /\ t.retired = txn[s].retired
    BY <1>0 DEF Transaction
  <2>5. Set(s, t) BY <1>3 DEF Scan, Retires
  <2>6. SubjectRow(p) \in txn[s].held
    <3>1. p \in Players /\ txn[s].row = SubjectRow(p) BY <1>0, <2>1 DEF PlayerPlanned
    <3>2. SubjectRow(p) # NoRow BY <3>1, AccountsAssumption DEF SubjectRow, NoRow
    <3>. QED BY <2>1, <3>1, <3>2
  <2>7. Retires(t) <=> Retires(txn[s]) BY <2>4 DEF Retires
  <2> HIDE DEF t
  <2>8. PlayerPlanned(t) BY <1>0, <2>1, <2>4, <2>6, <2>7 DEF PlayerPlanned
  <2>. QED BY <1>1, <1>2, <2>1, <2>3, <2>4, <2>5, <2>8
<1>4. ASSUME NEW u \in Users, LockCandidate(s, u) PROVE Moves(s)
  <2> DEFINE t == [txn[s] EXCEPT !.user = u, !.row = AccountRow(u)]
  <2>1. txn[s].step = "retire" /\ txn[s].op \in OnPlayer /\ u \in txn[s].scan
    BY <1>0, <1>4 DEF LockCandidate
  <2>2. t \in Transaction BY <1>0 DEF Transaction, Rows
  <2>3. /\ t.op = txn[s].op /\ t.user = u /\ t.subject = txn[s].subject /\ t.held = txn[s].held
        /\ t.step = txn[s].step /\ t.row = AccountRow(u) /\ t.scan = txn[s].scan
        /\ t.retired = txn[s].retired
    BY <1>0 DEF Transaction
  <2>4. Set(s, t) BY <1>4 DEF LockCandidate
  <2> HIDE DEF t
  <2>5. PlayerPlanned(t) BY <1>0, <2>1, <2>3 DEF PlayerPlanned, Retires
  <2>. QED BY <1>1, <1>2, <2>1, <2>2, <2>3, <2>4, <2>5
<1>5. CASE RetireOne(s)
  <2> DEFINE u == txn[s].user
  <2>1. /\ txn[s].step = "retire" /\ txn[s].op \in OnPlayer
        /\ txn[s].row = AccountRow(u) /\ txn[s].row \in txn[s].held
    BY <1>0, <1>5 DEF RetireOne
  <2>2. AccountRow(u) # NoRow /\ AccountRow(u) # AuditCounter
    BY DEF AccountRow, NoRow, AuditCounter
  <2>3. u \in txn[s].scan /\ u \in Users
    BY <1>0, <2>1, <2>2 DEF PlayerPlanned, Transaction
  <2>4. CASE Skips(s, u)
    <3> DEFINE t == [txn[s] EXCEPT !.row = NoRow, !.scan = @ \ {u}]
    <3>1. t \in Transaction BY <1>0 DEF Transaction, Rows
    <3>2. /\ t.op = txn[s].op /\ t.user = u /\ t.subject = txn[s].subject /\ t.held = txn[s].held
          /\ t.step = txn[s].step /\ t.row = NoRow /\ t.scan = txn[s].scan \ {u}
          /\ t.retired = txn[s].retired
      BY <1>0 DEF Transaction
    <3>3. Set(s, t) BY <1>5, <2>4 DEF RetireOne
    <3>4. u \notin Bound(txn[s].subject) BY <2>4 DEF Skips, Bound, Active
    <3> HIDE DEF t
    <3>5. PlayerPlanned(t) BY <1>0, <2>1, <3>2, <3>4 DEF PlayerPlanned, Retires
    <3>. QED BY <1>1, <1>2, <2>1, <3>1, <3>2, <3>3, <3>5
  <2>5. CASE ~Skips(s, u)
    <3> DEFINE e == txn[s].ended \cup {t \in Sessions : session[t].user = u}
               t == [txn[s] EXCEPT !.row = AuditCounter, !.scan = @ \ {u},
                       !.retired = @ \cup {u}, !.ended = e]
    <3>1. e \subseteq Sessions BY <1>0 DEF Transaction
    <3>2. t \in Transaction
      <4> HIDE DEF e
      <4>. QED BY <1>0, <2>3, <3>1 DEF Transaction, Rows
    <3>3. /\ t.op = txn[s].op /\ t.user = u /\ t.subject = txn[s].subject /\ t.held = txn[s].held
          /\ t.step = txn[s].step /\ t.row = AuditCounter /\ t.scan = txn[s].scan \ {u}
          /\ t.retired = txn[s].retired \cup {u}
      BY <1>0 DEF Transaction
    <3>4. Set(s, t) BY <1>5, <2>5 DEF RetireOne
    <3>5. u \in Bound(txn[s].subject) BY <2>3, <2>5 DEF Skips, Bound, Active
    <3> HIDE DEF t
    <3>6. Retires(txn[s]) BY <1>0, <2>1, <2>3 DEF PlayerPlanned
    <3>7. PlayerPlanned(t) BY <1>0, <2>1, <3>3, <3>5, <3>6 DEF PlayerPlanned, Retires
    <3>. QED BY <1>1, <1>2, <2>1, <3>2, <3>3, <3>4, <3>7
  <2>. QED BY <2>4, <2>5
<1>6. CASE NextCandidate(s)
  <2> DEFINE t == [txn[s] EXCEPT !.step = "retire", !.row = NoRow]
  <2>1. txn[s].step = "retire" /\ txn[s].op \in OnPlayer BY <1>0, <1>6 DEF NextCandidate
  <2>2. t \in Transaction BY <1>0 DEF Transaction, Rows
  <2>3. /\ t.op = txn[s].op /\ t.subject = txn[s].subject /\ t.held = txn[s].held
        /\ t.step = "retire" /\ t.row = NoRow /\ t.scan = txn[s].scan
        /\ t.retired = txn[s].retired
    BY <1>0 DEF Transaction
  <2>4. Set(s, t) BY <1>6 DEF NextCandidate
  <2> HIDE DEF t
  <2>5. PlayerPlanned(t) BY <1>0, <2>1, <2>3 DEF PlayerPlanned, Retires
  <2>. QED BY <1>1, <1>2, <2>1, <2>2, <2>3, <2>4, <2>5
<1>7. CASE AllRetired(s)
  <2> DEFINE t == [txn[s] EXCEPT !.step = "audit", !.row = AuditCounter]
  <2>1. txn[s].step = "retire" /\ txn[s].op \in OnPlayer /\ txn[s].scan = {}
    BY <1>0, <1>7 DEF AllRetired
  <2>2. t \in Transaction BY <1>0 DEF Transaction, Rows
  <2>3. /\ t.op = txn[s].op /\ t.subject = txn[s].subject /\ t.held = txn[s].held
        /\ t.step = "audit" /\ t.row = AuditCounter /\ t.scan = txn[s].scan
        /\ t.retired = txn[s].retired
    BY <1>0 DEF Transaction
  <2>4. Set(s, t) BY <1>7 DEF AllRetired
  <2> HIDE DEF t
  <2>5. PlayerPlanned(t) BY <1>0, <2>1, <2>3 DEF PlayerPlanned, Retires
  <2>. QED BY <1>1, <1>2, <2>1, <2>2, <2>3, <2>4, <2>5
<1>. QED BY <1>1, <1>3, <1>4, <1>5, <1>6, <1>7

\* Whatever a server does, its own transaction stays decided, and the books are
\* written by commits only.
LEMMA ServerMoves ==
  ASSUME LocksInv, NEW s \in Servers,
         \/ Lock(s) \/ Abort(s) \/ Peek(s) \/ Validate(s) \/ LockAccount(s) \/ ReadLocked(s)
         \/ CommitOnAccount(s) \/ RevokeForUser(s) \/ Stop(s) \/ ValidateNew(s)
         \/ InsertMarker(s) \/ CommitNew(s) \/ Scan(s) \/ RetireOne(s) \/ NextCandidate(s)
         \/ AllRetired(s) \/ CommitSetPlayerActive(s) \/ ScanDelete(s) \/ CommitDelete(s)
         \/ \E u \in Users :
              \/ BeginOnAccount(s, "activate", u, NoSubject)
              \/ BeginOnAccount(s, "deactivate", u, NoSubject)
              \/ \E x \in Subjects : BeginOnAccount(s, "rebind", u, x) \/ BeginCreate(s, u, x)
              \/ BeginClaim(s, u) \/ LockCandidate(s, u) \/ VerifyLogin(s, u)
         \/ \E p \in Players, op \in OnPlayer : BeginOnSubject(s, op, p)
         \/ \E x \in Subjects : BeginOnSubject(s, "delete", x)
         \/ \E t \in Sessions : IssueSession(s, t)
  PROVE  Moves(s) /\ (CommitsOn(s) \/ UNCHANGED books)
<1>1. CASE Lock(s) BY <1>1, LockPlanned
<1>2. CASE Abort(s) \/ RevokeForUser(s) \/ Stop(s) \/ \E t \in Sessions : IssueSession(s, t)
  <2>1. Set(s, Idle) /\ UNCHANGED books
    BY <1>2 DEF Abort, RevokeForUser, Stop, IssueSession, Quiet
  <2>. QED BY <2>1, EndsPlanned
<1>3. CASE Peek(s) \/ Validate(s) \/ LockAccount(s) \/ ReadLocked(s)
  BY <1>3, AccountStepPlanned
<1>4. CASE ValidateNew(s) \/ InsertMarker(s) BY <1>4, NewAccountPlanned
<1>5. CASE \/ Scan(s) \/ RetireOne(s) \/ NextCandidate(s) \/ AllRetired(s)
           \/ \E u \in Users : LockCandidate(s, u)
  BY <1>5, PlayerStepPlanned
<1>6. CASE ScanDelete(s) BY <1>6, DeletePlannedStep
<1>7. CASE CommitsOn(s)
  <2>1. CASE CommitOnAccount(s)
    <3>1. T(s).op \in OnAccount /\ T(s).step = "audit" BY <2>1 DEF CommitOnAccount, At
    <3>2. T(s).user \in Users
      BY <3>1 DEF LocksInv, Planned, AccountPlanned
    <3>. QED BY <1>7, <2>1, <3>2, EndsPlanned DEF CommitOnAccount
  <2>2. CASE CommitNew(s) \/ CommitSetPlayerActive(s) \/ CommitDelete(s)
    <3>1. Set(s, Idle) BY <2>2 DEF CommitNew, CommitSetPlayerActive, CommitDelete
    <3>. QED BY <1>7, <3>1, EndsPlanned
  <2>. QED BY <1>7, <2>1, <2>2 DEF CommitsOn
<1>8. CASE \/ \E u \in Users :
                \/ BeginOnAccount(s, "activate", u, NoSubject)
                \/ BeginOnAccount(s, "deactivate", u, NoSubject)
                \/ \E x \in Subjects : BeginOnAccount(s, "rebind", u, x) \/ BeginCreate(s, u, x)
                \/ BeginClaim(s, u) \/ VerifyLogin(s, u)
           \/ \E x \in Subjects : BeginOnSubject(s, "delete", x)
           \/ \E p \in Players, op \in OnPlayer : BeginOnSubject(s, op, p)
  <2>1. UNCHANGED books
    BY <1>8 DEF BeginOnAccount, BeginCreate, BeginClaim, VerifyLogin, BeginOnSubject, Call
  <2>. QED BY <1>8, <2>1, BeginsPlanned
<1>. QED BY <1>1, <1>2, <1>3, <1>4, <1>5, <1>6, <1>7, <1>8 DEF CommitsOn

\* One step keeps the invariant, and does to the books what one call would.
LEMMA LocksStep ==
  LocksInv /\ [AccountLocksNext]_accountVars => LocksInv' /\ [AccountsNext]_books
<1> SUFFICES ASSUME LocksInv, [AccountLocksNext]_accountVars
             PROVE  LocksInv' /\ [AccountsNext]_books
  OBVIOUS
<1>1. ASSUME NEW s \in Servers, Moves(s), CommitsOn(s) \/ UNCHANGED books
      PROVE  LocksInv' /\ [AccountsNext]_books
  <2>1. [AccountsNext]_books BY <1>1, CommitIsCall
  <2>2. AccountsInv' BY <2>1, AccountsStep DEF LocksInv
  <2>3. WritesUnderLocks(T(s))
    <3>1. CASE CommitsOn(s) BY <3>1, CommitIsCovered
    <3>2. CASE UNCHANGED books BY <3>2 DEF books, WritesUnderLocks
    <3>. QED BY <1>1, <3>1, <3>2
  <2>4. /\ txn \in [Servers -> Transaction] /\ txn' = [txn EXCEPT ![s] = txn'[s]]
        /\ txn'[s] \in Transaction
    BY <1>1 DEF LocksInv, LocksTypeOK, Moves
  <2>5. LocksTypeOK' BY <2>2, <2>4 DEF AccountsInv, LocksTypeOK
  <2>6. \A r \in Servers : r # s => txn'[r] = txn[r] BY <2>4
  <2>7. Exclusive'
    BY <1>1, <2>6 DEF Moves, LocksInv, Exclusive, T
  <2>8. ASSUME NEW r \in Servers PROVE Planned(T(r))'
    <3>1. CASE r = s BY <1>1, <3>1 DEF Moves
    <3>2. CASE r # s BY <2>3, <2>5, <2>6, <3>2, OthersStayPlanned
    <3>. QED BY <3>1, <3>2
  <2>. QED BY <2>1, <2>2, <2>5, <2>7, <2>8 DEF LocksInv
<1>2. ASSUME UNCHANGED <<books, txn>> PROVE LocksInv' /\ [AccountsNext]_books
  <2>1. AccountsInv' BY <1>2, AccountsStep DEF LocksInv
  <2>2. LocksTypeOK' /\ Exclusive' BY <1>2, <2>1 DEF LocksInv, AccountsInv, LocksTypeOK, Exclusive, T
  <2>3. ASSUME NEW r \in Servers PROVE Planned(T(r))'
    <3>1. txn[r] \in Transaction /\ txn' = [txn EXCEPT ![r] = txn[r]]
      BY <1>2 DEF LocksInv, LocksTypeOK
    <3>2. Planned(T(r)) BY DEF LocksInv
    <3>3. Moves(r) BY <1>2, <3>1, <3>2, QuietlyMoves DEF T, Set
    <3>. QED BY <3>3 DEF Moves
  <2>. QED BY <1>2, <2>1, <2>2, <2>3 DEF LocksInv
<1>3. CASE UNCHANGED accountVars BY <1>2, <1>3 DEF accountVars
<1>4. ASSUME NEW t \in Sessions, Logout(t) PROVE LocksInv' /\ [AccountsNext]_books
  BY <1>2, <1>4 DEF Logout
<1>. QED BY <1>1, <1>3, <1>4, ServerMoves DEF AccountLocksNext, OnPlayer

LEMMA LocksStart == AccountLocksInit => LocksInv
<1> SUFFICES ASSUME AccountLocksInit PROVE LocksInv OBVIOUS
<1>1. AccountsInv BY AccountsStart DEF AccountLocksInit
<1>2. Idle \in Transaction
  BY DEF Idle, Transaction, NoAccount, AccountRecord, Rows
<1>3. \A s \in Servers : txn[s] = Idle BY DEF AccountLocksInit
<1>4. LocksTypeOK BY <1>1, <1>2 DEF AccountLocksInit, AccountsInv, LocksTypeOK
<1>5. Exclusive BY <1>3 DEF Exclusive, T, Idle
<1>6. Planned(Idle)
  BY DEF Idle, Planned, AccountPlanned, CreatePlanned, ClaimPlanned, PlayerPlanned,
              DeletePlanned, StepFits, OnAccount, OnPlayer
<1>. QED BY <1>1, <1>3, <1>4, <1>5, <1>6 DEF LocksInv, T

-----------------------------------------------------------------------------
(* Theorems.                                                               *)

\* What each transaction has decided stays true until it commits.
THEOREM DecisionsHold == AccountLocksSpec => []LocksInv
<1>1. LocksInv /\ [AccountLocksNext]_accountVars => LocksInv' BY LocksStep
<1>. QED BY LocksStart, <1>1, PTL DEF AccountLocksSpec

\* However the statements of the server processes interleave, each commit does
\* what its call alone would have done at that moment.
THEOREM CommitsOneByOne == AccountLocksSpec => CallsOneByOne
<1>1. LocksInv /\ [AccountLocksNext]_accountVars => LocksInv' /\ [AccountsNext]_books
  BY LocksStep
<1>. QED BY LocksStart, <1>1, PTL DEF AccountLocksSpec, CallsOneByOne

\* The transactions of several processes implement the calls made one at a time.
THEOREM TransactionsImplementCalls == AccountLocksSpec => AccountsSpec
<1>1. AccountLocksInit => AccountsInit BY DEF AccountLocksInit
<1>2. LocksInv /\ [AccountLocksNext]_accountVars => LocksInv' /\ [AccountsNext]_books
  BY LocksStep
<1>. QED BY LocksStart, <1>1, <1>2, PTL DEF AccountLocksSpec, AccountsSpec

\* However many processes claim the installation at once, one administrator is
\* created; and no login outlives what it is bound to.
THEOREM OneAdministratorForAll == AccountLocksSpec => [](OneClaim /\ LoginsBacked)
<1>1. LocksInv => OneClaim /\ LoginsBacked
  <2> SUFFICES ASSUME LocksInv PROVE OneClaim /\ LoginsBacked OBVIOUS
  <2>1. LoginsBacked /\ OneAdministrator BY DEF LocksInv, AccountsInv
  <2> DEFINE admins == {u \in Users : Exists(u) /\ account[u].role = "admin"}
  <2>2. CASE admins = {} BY <2>1, <2>2, FS_EmptySet DEF OneClaim
  <2>3. CASE admins # {}
    <3>1. PICK u \in admins : TRUE BY <2>3
    <3>2. admins = {u} BY <2>1, <3>1 DEF OneAdministrator
    <3>3. Cardinality(admins) = 1 BY <3>2, FS_Singleton
    <3>. QED BY <2>1, <3>3 DEF OneClaim
  <2>. QED BY <2>2, <2>3
<1>. QED BY DecisionsHold, <1>1, PTL

-----------------------------------------------------------------------------
(* Deadlock.  A transaction takes its rows in one order, fence, subject,   *)
(* accounts by id, counter; only one that has written the audit entry of a *)
(* retirement and goes on to the next account departs from it.             *)

\* What a transaction holds comes before what it waits for.
Ordered(t) ==
  /\ NoRow \notin t.held
  /\ AuditCounter \in t.held => t.step = "audit" \/ (t.step = "retire" /\ t.retired # {})
  /\ \A u \in Users : Fence(u) \in t.held => t.op \in OnAccount /\ t.user = u
  /\ Marker \in t.held => t.op = "claim"
  /\ \A x \in Subjects : SubjectRow(x) \in t.held => t.subject = x /\ t.step # "peek"
  /\ \A u \in Users : AccountRow(u) \in t.held =>
       \/ t.op \in OnAccount /\ t.user = u /\ t.step \in {"locked", "audit"}
       \/ t.op \in OnPlayer /\ t.step = "audit"
       \/ t.step = "retire" /\ \A v \in t.scan : u <= v
  /\ t.step = "retire" /\ t.row = AccountRow(t.user) => \A v \in t.scan : t.user <= v

OrderInv == LocksInv /\ \A s \in Servers : Ordered(T(s))

\* A transaction that takes a step without locking stays ordered.
LEMMA QuietlyOrdered ==
  ASSUME NEW t, NEW n, Ordered(t), n.held = t.held, n.op = t.op, n.user = t.user,
         n.step \notin {"peek", "retire"}, t.step # "retire", t.step # "audit",
         n.subject = t.subject \/ t.step = "peek",
         t.step = "locked" => n.step = "audit"
  PROVE  Ordered(n)
  BY DEF Ordered

\* The row a transaction waits for, or has just locked, at each of its steps.
LEMMA RowWaited ==
  ASSUME NEW t \in Transaction, Planned(t)
  PROVE  \/ t.row = NoRow
         \/ t.row = AuditCounter /\ (t.step = "audit" \/ (t.step = "retire" /\ t.retired # {}))
         \/ t.row = Fence(t.user) /\ t.op \in OnAccount /\ t.step = "peek" /\ t.user \in Users
         \/ t.row = Marker /\ t.op = "claim" /\ t.step = "marker"
         \/ t.row = SubjectRow(t.subject) /\ t.step \in {"validate", "scan"}
         \/ /\ t.row = AccountRow(t.user) /\ t.user \in Users
            /\ \/ t.op \in OnAccount /\ t.step = "locked"
               \/ t.op \in OnPlayer /\ t.step = "retire" /\ t.user \in t.scan
<1> USE DEF Planned
<1>1. CASE t.op \in OnAccount
  <2>1. CASE t.step = "revoke" BY <2>1 DEF StepFits
  <2>. QED BY <1>1, <2>1 DEF AccountPlanned
<1>2. CASE t.op = "create" BY <1>2 DEF CreatePlanned
<1>3. CASE t.op = "claim" BY <1>3 DEF ClaimPlanned
<1>4. CASE t.op \in OnPlayer
  <2>1. t.scan \subseteq Users BY DEF Transaction
  <2>. QED BY <1>4, <2>1 DEF PlayerPlanned
<1>5. CASE t.op = "delete" BY <1>5 DEF DeletePlanned
<1>6. CASE t.op \in {"idle", "login"} BY <1>6 DEF StepFits, Idle
<1>. QED BY <1>1, <1>2, <1>3, <1>4, <1>5, <1>6 DEF Transaction

\* The row a transaction waits for comes after those it holds.
LEMMA LockOrdered ==
  ASSUME NEW t \in Transaction, NEW n, Planned(t), Ordered(t), t.row # NoRow,
         n.op = t.op, n.user = t.user, n.subject = t.subject, n.step = t.step, n.row = t.row,
         n.scan = t.scan, n.retired = t.retired, n.held = t.held \cup {t.row}
  PROVE  Ordered(n)
<1>1. CASE t.row = AuditCounter /\ (t.step = "audit" \/ (t.step = "retire" /\ t.retired # {}))
  <2>1. /\ \A u : AuditCounter # Fence(u) /\ AuditCounter # AccountRow(u)
        /\ AuditCounter # Marker /\ AuditCounter # NoRow /\ \A x \in Subjects : AuditCounter # SubjectRow(x)
    BY RowKinds
  <2>. QED BY <1>1, <2>1 DEF Ordered
<1>2. CASE t.row = Fence(t.user) /\ t.op \in OnAccount
  <2>1. /\ \A u : AccountRow(u) # t.row /\ (Fence(u) = t.row => u = t.user)
        /\ AuditCounter # t.row /\ Marker # t.row /\ NoRow # t.row
        /\ \A x \in Subjects : SubjectRow(x) # t.row
    BY <1>2, RowKinds
  <2>. QED BY <1>2, <2>1 DEF Ordered
<1>3. CASE t.row = Marker /\ t.op = "claim"
  <2>1. /\ \A u : AccountRow(u) # t.row /\ Fence(u) # t.row
        /\ AuditCounter # t.row /\ NoRow # t.row /\ \A x \in Subjects : SubjectRow(x) # t.row
    BY <1>3, RowKinds
  <2>. QED BY <1>3, <2>1 DEF Ordered
<1>4. CASE t.row = SubjectRow(t.subject) /\ t.step \in {"validate", "scan"}
  <2>1. t.subject \in Subjects BY <1>4, RowKinds DEF Transaction
  <2>2. /\ \A u : AccountRow(u) # t.row /\ Fence(u) # t.row
        /\ AuditCounter # t.row /\ Marker # t.row /\ NoRow # t.row
        /\ \A x \in Subjects : SubjectRow(x) = t.row => x = t.subject
    BY <1>4, <2>1, RowKinds
  <2>. QED BY <1>4, <2>2 DEF Ordered
<1>5. CASE /\ t.row = AccountRow(t.user)
           /\ \/ t.op \in OnAccount /\ t.step = "locked"
              \/ t.op \in OnPlayer /\ t.step = "retire"
  <2>1. /\ \A u : Fence(u) # t.row /\ (AccountRow(u) = t.row => u = t.user)
        /\ AuditCounter # t.row /\ Marker # t.row /\ NoRow # t.row
        /\ \A x \in Subjects : SubjectRow(x) # t.row
    BY <1>5, RowKinds
  <2>. QED BY <1>5, <2>1 DEF Ordered
<1>. QED BY <1>1, <1>2, <1>3, <1>4, <1>5, RowWaited

\* Every step of a server keeps its transaction ordered.
LEMMA OrderedStep ==
  ASSUME OrderInv, NEW s \in Servers,
         \/ Lock(s) \/ Abort(s) \/ Peek(s) \/ Validate(s) \/ LockAccount(s) \/ ReadLocked(s)
         \/ CommitOnAccount(s) \/ RevokeForUser(s) \/ Stop(s) \/ ValidateNew(s)
         \/ InsertMarker(s) \/ CommitNew(s) \/ Scan(s) \/ RetireOne(s) \/ NextCandidate(s)
         \/ AllRetired(s) \/ CommitSetPlayerActive(s) \/ ScanDelete(s) \/ CommitDelete(s)
         \/ \E u \in Users :
              \/ BeginOnAccount(s, "activate", u, NoSubject)
              \/ BeginOnAccount(s, "deactivate", u, NoSubject)
              \/ \E x \in Subjects : BeginOnAccount(s, "rebind", u, x) \/ BeginCreate(s, u, x)
              \/ BeginClaim(s, u) \/ LockCandidate(s, u) \/ VerifyLogin(s, u)
         \/ \E p \in Players, op \in OnPlayer : BeginOnSubject(s, op, p)
         \/ \E x \in Subjects : BeginOnSubject(s, "delete", x)
         \/ \E t \in Sessions : IssueSession(s, t)
  PROVE  Ordered(T(s))'
<1> DEFINE t == txn[s]
           n == txn'[s]
<1> USE DEF T, At, Set, Then
<1>0. /\ txn \in [Servers -> Transaction] /\ t \in Transaction /\ Ordered(t) /\ Planned(t)
  BY DEF OrderInv, LocksInv, LocksTypeOK
<1>1. ASSUME n.held = {}, n.step # "retire" PROVE Ordered(n)
  BY <1>1 DEF Ordered
<1>2. CASE Abort(s) \/ RevokeForUser(s) \/ Stop(s) \/ \E x \in Sessions : IssueSession(s, x)
  <2>1. Set(s, Idle) BY <1>2 DEF Abort, RevokeForUser, Stop, IssueSession
  <2>. HIDE DEF Set
  <2>. QED BY <1>1, <2>1, EndsPlanned DEF OrderInv
<1>3. CASE CommitsOn(s)
  <2>1. \/ Set(s, Idle)
        \/ Set(s, [Request("deactivate", txn[s].user, NoSubject) EXCEPT !.step = "revoke"])
    BY <1>3 DEF CommitsOn, CommitOnAccount, CommitNew, CommitSetPlayerActive, CommitDelete
  <2>2. CommitOnAccount(s) => txn[s].user \in Users
    BY <1>0 DEF CommitOnAccount, Planned, AccountPlanned
  <2>3. ~CommitOnAccount(s) => Set(s, Idle)
    BY <1>3 DEF CommitsOn, CommitNew, CommitSetPlayerActive, CommitDelete
  <2>. HIDE DEF Set
  <2>. QED BY <1>1, <2>1, <2>2, <2>3, EndsPlanned DEF OrderInv
<1>4. CASE \/ \E u \in Users :
                \/ BeginOnAccount(s, "activate", u, NoSubject)
                \/ BeginOnAccount(s, "deactivate", u, NoSubject)
                \/ \E x \in Subjects : BeginOnAccount(s, "rebind", u, x) \/ BeginCreate(s, u, x)
                \/ BeginClaim(s, u) \/ VerifyLogin(s, u)
           \/ \E x \in Subjects : BeginOnSubject(s, "delete", x)
           \/ \E p \in Players, op \in OnPlayer : BeginOnSubject(s, op, p)
  BY <1>1, <1>4, BeginsPlanned DEF OrderInv
<1>5. CASE Lock(s)
  <2>1. n = [t EXCEPT !.held = @ \cup {t.row}] /\ t.row # NoRow
    BY <1>0, <1>5 DEF Lock
  <2>2. /\ n.op = t.op /\ n.user = t.user /\ n.subject = t.subject /\ n.step = t.step
        /\ n.row = t.row /\ n.scan = t.scan /\ n.retired = t.retired
        /\ n.held = t.held \cup {t.row}
    BY <1>0, <2>1 DEF Transaction
  <2>3. Ordered(n) BY <1>0, <2>1, <2>2, LockOrdered
  <2>. QED BY <2>3
<1>6. CASE \/ Peek(s) \/ Validate(s) \/ LockAccount(s) \/ ReadLocked(s)
           \/ ValidateNew(s) \/ InsertMarker(s) \/ ScanDelete(s)
  <2>1. CASE Peek(s)
    <3>1. /\ n.held = t.held /\ n.op = t.op /\ n.user = t.user /\ n.step \notin {"peek", "retire"} /\ t.step = "peek"
      <4> DEFINE f == account[t.user]
                 x == IF t.op = "activate" THEN f.subject ELSE t.subject
                 step == IF t.op = "deactivate" THEN "validated" ELSE "validate"
                 row == IF t.op = "deactivate" THEN NoRow ELSE SubjectRow(x)
      <4>1. n = [t EXCEPT !.found = f, !.subject = x, !.step = step, !.row = row]
        BY <1>0, <2>1 DEF Peek
      <4>2. t.step = "peek" BY <2>1 DEF Peek
      <4>3. step \notin {"peek", "retire"} OBVIOUS
      <4>. HIDE DEF f, x, step, row
      <4>. QED BY <1>0, <4>1, <4>2, <4>3 DEF Transaction
    <3>. QED BY <1>0, <3>1, QuietlyOrdered
  <2>2. CASE Validate(s) \/ LockAccount(s)
    <3>1. /\ n.held = t.held /\ n.op = t.op /\ n.user = t.user /\ n.step \notin {"peek", "retire"}
          /\ n.subject = t.subject /\ t.step \in {"validate", "validated"}
      <4>1. CASE Validate(s) BY <1>0, <4>1 DEF Validate, Transaction
      <4>2. CASE LockAccount(s) BY <1>0, <4>2 DEF LockAccount, Transaction
      <4>. QED BY <2>2, <4>1, <4>2
    <3>. QED BY <1>0, <3>1, QuietlyOrdered
  <2>3. CASE ReadLocked(s)
    <3>1. /\ n.held = t.held /\ n.op = t.op /\ n.user = t.user /\ n.step = "audit"
          /\ n.subject = t.subject /\ t.step = "locked"
      BY <1>0, <2>3 DEF ReadLocked, Transaction
    <3>. QED BY <1>0, <3>1, QuietlyOrdered
  <2>4. CASE ValidateNew(s) \/ InsertMarker(s) \/ ScanDelete(s)
    <3>1. /\ n.held = t.held /\ n.op = t.op /\ n.user = t.user /\ n.step = "audit"
          /\ n.subject = t.subject /\ t.step \in {"validate", "marker", "scan"}
      <4>1. n = [t EXCEPT !.step = "audit", !.row = AuditCounter]
        BY <1>0, <2>4 DEF ValidateNew, InsertMarker, ScanDelete
      <4>2. t.step \in {"validate", "marker", "scan"}
        BY <2>4 DEF ValidateNew, InsertMarker, ScanDelete
      <4>. QED BY <1>0, <4>1, <4>2 DEF Transaction
    <3>. QED BY <1>0, <3>1, QuietlyOrdered
  <2>. QED BY <1>6, <2>1, <2>2, <2>3, <2>4
<1>7. CASE Scan(s)
  <2>1. /\ n.held = t.held /\ n.op = t.op /\ n.subject = t.subject /\ t.step = "scan"
        /\ n.step = "retire" /\ n.row = NoRow /\ t.op \in OnPlayer
    BY <1>0, <1>7 DEF Scan, Transaction, OnPlayer
  <2>2. Ordered(n) BY <1>0, <2>1, RowKinds DEF Ordered, OnPlayer, OnAccount
  <2>. QED BY <2>2
<1>8. ASSUME NEW u \in Users, LockCandidate(s, u) PROVE Ordered(n)
  <2>1. /\ n.held = t.held /\ n.op = t.op /\ n.subject = t.subject /\ t.step = "retire"
        /\ n.step = t.step /\ n.scan = t.scan /\ n.retired = t.retired /\ n.user = u
        /\ \A v \in t.scan : u <= v
    BY <1>0, <1>8 DEF LockCandidate, Transaction
  <2>2. t.op \in OnPlayer BY <1>0, <2>1 DEF Planned, StepFits
  <2>. QED BY <1>0, <2>1, <2>2 DEF Ordered, OnAccount, OnPlayer
<1>9. CASE RetireOne(s)
  <2>1. /\ n.held = t.held /\ n.op = t.op /\ n.subject = t.subject /\ t.step = "retire"
        /\ n.step = t.step /\ n.scan \subseteq t.scan /\ t.retired \subseteq n.retired
        /\ n.row \in {NoRow, AuditCounter} /\ n.user = t.user
    <3>1. CASE Skips(s, t.user)
      <4>1. n = [t EXCEPT !.row = NoRow, !.scan = @ \ {t.user}] /\ t.step = "retire"
        BY <1>0, <1>9, <3>1 DEF RetireOne
      <4>. QED BY <1>0, <4>1 DEF Transaction
    <3>2. CASE ~Skips(s, t.user)
      <4> DEFINE e == t.ended \cup {x \in Sessions : session[x].user = t.user}
      <4>1. /\ n = [t EXCEPT !.row = AuditCounter, !.scan = @ \ {t.user},
                       !.retired = @ \cup {t.user}, !.ended = e]
            /\ t.step = "retire"
        BY <1>0, <1>9, <3>2 DEF RetireOne
      <4>. HIDE DEF e
      <4>. QED BY <1>0, <4>1 DEF Transaction
    <3>. QED BY <3>1, <3>2
  <2>2. AccountRow(n.user) \notin {NoRow, AuditCounter} BY RowKinds
  <2>3. Ordered(n) BY <1>0, <2>1, <2>2 DEF Ordered
  <2>. QED BY <2>3
<1>10. CASE NextCandidate(s) \/ AllRetired(s)
  <2>1. /\ n.held = t.held /\ n.op = t.op /\ n.subject = t.subject /\ t.step = "retire"
        /\ n.scan = t.scan /\ t.retired = n.retired /\ t.op \in OnPlayer
        /\ \/ n.step = "retire" /\ n.row = NoRow
           \/ n.step = "audit"
    <3>1. t.step = "retire" /\ t.op \in OnPlayer
      BY <1>10 DEF NextCandidate, AllRetired, OnPlayer
    <3>2. \/ n = [t EXCEPT !.step = "retire", !.row = NoRow]
          \/ n = [t EXCEPT !.step = "audit", !.row = AuditCounter]
      BY <1>0, <1>10 DEF NextCandidate, AllRetired
    <3>. QED BY <1>0, <3>1, <3>2 DEF Transaction
  <2>2. AccountRow(n.user) # NoRow BY RowKinds
  <2>3. Ordered(n) BY <1>0, <2>1, <2>2 DEF Ordered, OnAccount, OnPlayer
  <2>. QED BY <2>3
<1>. QED BY <1>2, <1>3, <1>4, <1>5, <1>6, <1>7, <1>8, <1>9, <1>10 DEF CommitsOn

\* Of a family of subsets of a finite set, one contains no other.
LEMMA SmallestSubset ==
  ASSUME NEW S, IsFiniteSet(S), NEW F \in SUBSET (SUBSET S), F # {}
  PROVE  \E A \in F : \A B \in F : B \subseteq A => B = A
<1>1. IsWellFoundedOn(StrictSubsetOrdering(S), SUBSET S)
  BY FS_StrictSubsetOrderingWellFounded, FS_FiniteSubsetsOfFinite
<1>2. PICK A \in F : \A B \in F : <<B, A>> \notin StrictSubsetOrdering(S)
  <2>1. F \subseteq SUBSET S OBVIOUS
  <2>. QED BY <1>1, <2>1, WFMin
<1>3. ASSUME NEW B \in F, B \subseteq A PROVE B = A
  BY <1>2, <1>3 DEF StrictSubsetOrdering
<1>. QED BY <1>2, <1>3

\* A ring of waits among ordered transactions has one in it that has retired an
\* account and waits for another.
LEMMA OrderedWaits ==
  ASSUME OrderInv, NEW ring \in SUBSET Servers, WaitCycle(ring)
  PROVE  \E s \in ring : T(s).step = "retire" /\ T(s).retired # {}
<1> SUFFICES ASSUME \A s \in ring : ~(txn[s].step = "retire" /\ txn[s].retired # {})
             PROVE  FALSE
  BY DEF T
<1>0. \A s \in Servers : txn[s] \in Transaction /\ Planned(txn[s]) /\ Ordered(txn[s])
  BY DEF OrderInv, LocksInv, LocksTypeOK, T
<1>1. \A s \in ring : \E r \in ring : txn[s].row \in txn[r].held /\ txn[s].row \notin txn[s].held
  BY DEF WaitCycle, Waits, OrderInv, LocksInv, Exclusive, T
\* Nobody in the ring waits for the counter, or for nothing.
<1>2. \A s \in ring : txn[s].row # NoRow
  BY <1>0, <1>1 DEF Ordered
<1>3. \A s \in ring : txn[s].row # AuditCounter
  <2> SUFFICES ASSUME NEW s \in ring, txn[s].row = AuditCounter PROVE FALSE OBVIOUS
  <2>1. PICK r \in ring : AuditCounter \in txn[r].held BY <1>1
  <2>2. txn[r].step = "audit" BY <1>0, <2>1 DEF Ordered
  <2>3. txn[r].row = AuditCounter \/ txn[r].row = NoRow
    BY <1>0, <2>2, RowWaited
  <2>. QED BY <1>1, <1>2, <2>1, <2>3
<1>4. ASSUME NEW s \in ring, txn[s].row = AccountRow(txn[s].user)
      PROVE  txn[s].user \in Users
  <2>1. /\ AccountRow(txn[s].user) \notin {NoRow, AuditCounter, Marker, Fence(txn[s].user)}
        /\ AccountRow(txn[s].user) # SubjectRow(txn[s].subject)
    BY <1>0, RowKinds DEF Transaction
  <2>. QED BY <1>0, <1>4, <2>1, RowWaited
\* Nobody waits for an account: of the accounts waited for, the greatest is
\* held by a transaction that waits for a greater one.
<1>5. \A s \in ring : txn[s].row # AccountRow(txn[s].user)
  <2> DEFINE W == {s \in ring : txn[s].row = AccountRow(txn[s].user)}
             above(s) == {r \in W : txn[s].user < txn[r].user}
             F == {above(s) : s \in W}
  <2> SUFFICES ASSUME W # {} PROVE FALSE OBVIOUS
  <2>1. IsFiniteSet(W) BY ServersAssumption, FS_Subset
  <2>2. PICK A \in F : \A B \in F : B \subseteq A => B = A
    <3>1. F \subseteq SUBSET W OBVIOUS
    <3>2. PICK w \in W : TRUE OBVIOUS
    <3>3. above(w) \in F BY <3>2
    <3>. HIDE DEF F, W
    <3>. QED BY <2>1, <3>1, <3>3, SmallestSubset
  <2>3. PICK s \in W : A = above(s) BY <2>2
  <2>4. \A r \in W : txn[r].user \in Nat
    BY <1>4, UserIdsAssumption
  <2>5. PICK r \in ring : AccountRow(txn[s].user) \in txn[r].held /\ txn[r].row \notin txn[r].held
    BY <1>1
  <2>6. r \in W /\ txn[s].user < txn[r].user
    <3>1. txn[s].user \in Users BY <1>4
    <3>2. \/ txn[r].step \in {"locked", "audit"}
          \/ txn[r].step = "retire" /\ \A v \in txn[r].scan : txn[s].user <= v
      BY <1>0, <2>5, <3>1 DEF Ordered
    <3>3. CASE txn[r].step = "retire"
      <4>1. txn[r].row = AccountRow(txn[r].user) /\ txn[r].user \in txn[r].scan
        BY <1>0, <1>2, <1>3, <3>3, RowWaited DEF OnAccount, OnPlayer
      <4>2. txn[s].user # txn[r].user BY <2>5, <4>1
      <4>. QED BY <2>4, <3>2, <3>3, <4>1, <4>2
    <3>4. CASE txn[r].step \in {"locked", "audit"}
      <4>1. txn[r].row = AccountRow(txn[r].user) /\ txn[r].op \in OnAccount
        BY <1>0, <1>2, <1>3, <3>4, RowWaited DEF OnAccount, OnPlayer
      <4>2. txn[r].user = txn[s].user
        BY <1>0, <2>5, <3>1, <3>4, <4>1 DEF Ordered, OnAccount, OnPlayer
      <4>. QED BY <2>5, <4>1, <4>2
    <3>. QED BY <3>2, <3>3, <3>4
  <2>7. above(r) \in F /\ above(r) \subseteq A /\ r \in A /\ r \notin above(r)
    <3>1. \A q \in W : txn[r].user < txn[q].user => txn[s].user < txn[q].user
      BY <2>4, <2>6
    <3>2. ~(txn[r].user < txn[r].user) BY <2>4, <2>6
    <3>. QED BY <2>3, <2>6, <3>1, <3>2
  <2>. HIDE DEF F, above
  <2>. QED BY <2>2, <2>7
\* So each waits for its fence, subject or marker; but who holds one of these
\* waits for no other.
<1>6. ASSUME NEW s \in ring
      PROVE  \/ /\ txn[s].row = Fence(txn[s].user) /\ txn[s].user \in Users
                /\ txn[s].op \in OnAccount /\ txn[s].step = "peek"
             \/ txn[s].row = Marker /\ txn[s].op = "claim"
             \/ txn[s].row = SubjectRow(txn[s].subject) /\ txn[s].step \in {"validate", "scan"}
  BY <1>0, <1>2, <1>3, <1>5, RowWaited
<1>7. \A s \in ring : txn[s].row # SubjectRow(txn[s].subject)
  <2> SUFFICES ASSUME NEW s \in ring, txn[s].row = SubjectRow(txn[s].subject) PROVE FALSE OBVIOUS
  <2>1. txn[s].subject \in Subjects BY <1>0, <1>2, RowKinds DEF Transaction
  <2>2. PICK r \in ring : SubjectRow(txn[s].subject) \in txn[r].held /\ txn[r].row \notin txn[r].held
    BY <1>1
  <2>3. txn[r].subject = txn[s].subject /\ txn[r].step # "peek"
    BY <1>0, <2>1, <2>2 DEF Ordered
  <2>4. txn[r].op # "claim"
    <3>1. txn[r].op = "claim" => txn[r].subject = NoSubject BY <1>0 DEF Planned, ClaimPlanned
    <3>. QED BY <2>1, <2>3, <3>1, AccountsAssumption DEF Subjects
  <2>. QED BY <1>6, <2>2, <2>3, <2>4
<1>8. \A s \in ring : txn[s].row # Fence(txn[s].user) \/ txn[s].op \notin OnAccount
  <2> SUFFICES ASSUME NEW s \in ring, txn[s].row = Fence(txn[s].user), txn[s].op \in OnAccount
               PROVE  FALSE
    OBVIOUS
  <2>1. txn[s].user \in Users BY <1>6, <1>7 DEF OnAccount
  <2>2. PICK r \in ring : Fence(txn[s].user) \in txn[r].held /\ txn[r].row \notin txn[r].held
    BY <1>1
  <2>3. txn[r].op \in OnAccount /\ txn[r].user = txn[s].user BY <1>0, <2>1, <2>2 DEF Ordered
  <2>. QED BY <1>6, <1>7, <2>2, <2>3 DEF OnAccount
<1>9. \A s \in ring : txn[s].row = Marker /\ txn[s].op = "claim"
  BY <1>6, <1>7, <1>8
<1>10. PICK s \in ring : TRUE BY DEF WaitCycle
<1>11. PICK r \in ring : Marker \in txn[r].held /\ txn[r].row \notin txn[r].held
  BY <1>1, <1>9, <1>10
<1>. QED BY <1>9, <1>11

\* Only a call that retires an account after another can be part of a deadlock.
THEOREM NoOtherDeadlock == AccountLocksSpec => []OnlyRetirementDeadlocks
<1>1. AccountLocksInit => OrderInv
  <2> SUFFICES ASSUME AccountLocksInit PROVE OrderInv OBVIOUS
  <2>1. \A s \in Servers : T(s) = Idle BY DEF AccountLocksInit, T
  <2>2. Ordered(Idle) BY DEF Ordered, Idle
  <2>. QED BY <2>1, <2>2, LocksStart DEF OrderInv
<1>2. OrderInv /\ [AccountLocksNext]_accountVars => OrderInv'
  <2> SUFFICES ASSUME OrderInv, [AccountLocksNext]_accountVars PROVE OrderInv' OBVIOUS
  <2>1. LocksInv' BY LocksStep DEF OrderInv
  <2>2. \A s \in Servers : Ordered(T(s)) /\ txn[s] \in Transaction
    BY DEF OrderInv, LocksInv, LocksTypeOK
  <2>3. ASSUME NEW s \in Servers, Moves(s), Ordered(T(s))' PROVE OrderInv'
    <3>1. \A r \in Servers : r # s => txn'[r] = txn[r]
      BY <2>3 DEF Moves, OrderInv, LocksInv, LocksTypeOK
    <3>. QED BY <2>1, <2>2, <2>3, <3>1 DEF OrderInv, T
  <2>4. CASE txn' = txn
    BY <2>1, <2>2, <2>4 DEF OrderInv, T
  <2>5. CASE UNCHANGED accountVars BY <2>4, <2>5 DEF accountVars
  <2>6. ASSUME NEW t \in Sessions, Logout(t) PROVE OrderInv'
    BY <2>4, <2>6 DEF Logout
  <2>. QED BY <2>3, <2>5, <2>6, OrderedStep, ServerMoves DEF OrderInv, AccountLocksNext, OnPlayer
<1>3. OrderInv => OnlyRetirementDeadlocks
  BY OrderedWaits DEF OnlyRetirementDeadlocks
<1>. QED BY <1>1, <1>2, <1>3, PTL DEF AccountLocksSpec

\* One administrator, logins that are backed, and no other deadlock.
THEOREM AccountsStaySound == AccountLocksSpec => []AccountsSound
BY OneAdministratorForAll, NoOtherDeadlock, PTL DEF AccountsSound

-----------------------------------------------------------------------------
(* The throttle: its operators.                                            *)

\* A set of natural numbers has a least one.
LEMMA LeastOf ==
  ASSUME NEW S \in SUBSET Nat, S # {}
  PROVE  Min(S) \in S /\ \A y \in S : Min(S) <= y
<1> DEFINE below(x) == {y \in S : y < x}
<1>1. PICK n \in S : TRUE OBVIOUS
<1> DEFINE F == {below(x) : x \in {x \in S : x <= n}}
<1>2. IsFiniteSet(0 .. n) BY FS_Interval
<1>3. F \subseteq SUBSET (0 .. n) /\ below(n) \in F
  <2>1. S \subseteq Nat /\ n \in Nat OBVIOUS
  <2>2. ASSUME NEW x \in S, x <= n PROVE below(x) \subseteq 0 .. n
    <3> SUFFICES ASSUME NEW y \in S, y < x PROVE y \in 0 .. n OBVIOUS
    <3>. QED BY <2>1, <2>2
  <2>. QED BY <2>1, <2>2
<1>4. PICK x \in S : /\ x <= n
                     /\ \A B \in F : <<B, below(x)>> \notin StrictSubsetOrdering(0 .. n)
  <2>1. IsWellFoundedOn(StrictSubsetOrdering(0 .. n), SUBSET (0 .. n))
    BY <1>2, FS_StrictSubsetOrderingWellFounded, FS_FiniteSubsetsOfFinite
  <2>2. PICK A \in F : \A B \in F : <<B, A>> \notin StrictSubsetOrdering(0 .. n)
    <3>. HIDE DEF F, below
    <3>. QED BY <1>3, <2>1, WFMin
  <2>3. \E x \in S : x <= n /\ A = below(x) BY <2>2
  <2>. HIDE DEF F, below
  <2>. QED BY <2>2, <2>3
<1>5. ASSUME NEW y \in S, y < x PROVE FALSE
  <2>1. \A z \in S : z \in Nat OBVIOUS
  <2>2. y <= n BY <1>4, <1>5, <2>1
  <2>3. \A z \in S : z < y => z < x BY <1>5, <2>1
  <2>4. ~(y < y) BY <2>1
  <2>5. below(y) \subseteq below(x) /\ y \in below(x) /\ y \notin below(y)
    BY <1>5, <2>3, <2>4
  <2>6. below(y) \in F /\ below(x) \in F BY <1>4, <2>2
  <2>. HIDE DEF F, below
  <2>7. below(y) \in SUBSET (0 .. n) /\ below(x) \in SUBSET (0 .. n) BY <1>3, <2>6
  <2>8. <<below(y), below(x)>> \in StrictSubsetOrdering(0 .. n)
    BY <2>5, <2>7 DEF StrictSubsetOrdering
  <2>. QED BY <1>4, <2>6, <2>8
<1>6. \A y \in S : x <= y BY <1>4, <1>5
<1>. QED BY <1>4, <1>6 DEF Min

\* u is what a prefix dropped leaves of s.
Suffix(u, s) == u \in Seq(Nat) /\ \E m \in 0 .. Len(s) :
  Len(u) = Len(s) - m /\ \A i \in 1 .. Len(u) : u[i] = s[m + i]
\* What s tells of the time from c - Window on is still told by u.
Recalls(u, s, c) == \A i \in 1 .. Len(s) :
  s[i] + Window >= c => \E j \in 1 .. Len(u) : u[j] = s[i]
\* Appended by time c, and no failure before one by more than Delay later.
InOrder(s, c) == \A i \in 1 .. Len(s) :
  s[i] <= c /\ \A j \in i .. Len(s) : s[i] <= s[j] + Delay

\* _trim drops a prefix of expired failures; the first it keeps is not expired.
LEMMA TrimmedFacts ==
  ASSUME NEW s \in Seq(Nat), NEW t \in Nat
  PROVE  /\ Suffix(Trimmed(s, t), s)
         /\ Recalls(Trimmed(s, t), s, t)
         /\ Trimmed(s, t) # <<>> => Head(Trimmed(s, t)) + Window >= t
<1> DEFINE kept == {i \in DOMAIN s : s[i] + Window >= t}
<1>0. Window \in Nat /\ DOMAIN s = 1 .. Len(s) /\ Len(s) \in Nat /\ \A i \in 1 .. Len(s) : s[i] \in Nat
  BY ThrottleAssumption
<1>3. Trimmed(s, t) = IF kept = {} THEN <<>> ELSE SubSeq(s, Min(kept), Len(s))
  BY DEF Trimmed
<1>4. kept \subseteq Nat /\ \A i \in kept : i \in 1 .. Len(s) /\ s[i] + Window >= t
  BY <1>0
<1>5. \A i \in 1 .. Len(s) : i \notin kept => s[i] + Window < t
  BY <1>0
<1> HIDE DEF kept
<1>1. CASE kept = {}
  <2>1. Trimmed(s, t) = <<>> BY <1>1, <1>3
  <2>2. \A i \in 1 .. Len(s) : s[i] + Window < t BY <1>1, <1>5
  <2>3. Len(s) \in 0 .. Len(s) /\ Len(s) - Len(s) = 0 BY <1>0
  <2>4. <<>> \in Seq(Nat) /\ Len(<<>>) = 0 BY EmptySeq
  <2>5. Suffix(<<>>, s) BY <2>3, <2>4 DEF Suffix
  <2>6. Recalls(<<>>, s, t) BY <1>0, <2>2 DEF Recalls
  <2>. QED BY <2>1, <2>5, <2>6
<1>2. CASE kept # {}
  <2> DEFINE n == Min(kept)
             u == SubSeq(s, n, Len(s))
  <2>1. n \in kept /\ \A j \in kept : n <= j
    BY <1>2, <1>4, LeastOf
  <2>2. Trimmed(s, t) = u BY <1>2, <1>3
  <2>3. n \in 1 .. Len(s) /\ s[n] + Window >= t /\ \A i \in 1 .. n - 1 : s[i] + Window < t
    <3>. HIDE DEF n
    <3>. QED BY <1>0, <1>4, <1>5, <2>1
  <2>. HIDE DEF n
  <2>4. u \in Seq(Nat) /\ Len(u) = Len(s) - (n - 1) /\ \A i \in 1 .. Len(s) - (n - 1) : u[i] = s[n - 1 + i]
    BY <1>0, <2>3, SubSeqProperties
  <2>5. Head(u) = s[n] BY <1>0, <2>3, HeadTailOfSubSeq
  <2>. HIDE DEF u
  <2>6. n - 1 \in 0 .. Len(s) BY <1>0, <2>3
  <2>7. Suffix(u, s) BY <2>4, <2>6 DEF Suffix
  <2>8. Recalls(u, s, t)
    <3> SUFFICES ASSUME NEW i \in 1 .. Len(s), s[i] + Window >= t
                 PROVE  \E j \in 1 .. Len(u) : u[j] = s[i]
      BY DEF Recalls
    <3>1. ~(i < n) BY <1>0, <2>3
    <3>2. i - (n - 1) \in 1 .. Len(u) /\ n - 1 + (i - (n - 1)) = i
      BY <1>0, <2>3, <2>4, <3>1
    <3>. QED BY <2>4, <3>2
  <2>. QED BY <2>2, <2>3, <2>5, <2>7, <2>8
<1>. QED BY <1>1, <1>2

LEMMA SuffixOfSuffix ==
  ASSUME NEW s \in Seq(Nat), NEW u, NEW v, Suffix(u, s), Suffix(v, u)
  PROVE  Suffix(v, s)
<1>1. PICK m \in 0 .. Len(s) : Len(u) = Len(s) - m /\ \A i \in 1 .. Len(u) : u[i] = s[m + i]
  BY DEF Suffix
<1>2. PICK n \in 0 .. Len(u) : Len(v) = Len(u) - n /\ \A i \in 1 .. Len(v) : v[i] = u[n + i]
  BY DEF Suffix
<1>3. Len(s) \in Nat /\ Len(u) \in Nat /\ Len(v) \in Nat BY DEF Suffix
<1>4. m + n \in 0 .. Len(s) /\ Len(v) = Len(s) - (m + n) BY <1>1, <1>2, <1>3
<1>5. ASSUME NEW i \in 1 .. Len(v) PROVE v[i] = s[(m + n) + i]
  <2>1. n + i \in 1 .. Len(u) /\ m + (n + i) = (m + n) + i BY <1>2, <1>3
  <2>. QED BY <1>1, <1>2, <2>1
<1>. QED BY <1>4, <1>5 DEF Suffix

LEMMA SuffixInOrder ==
  ASSUME NEW s \in Seq(Nat), NEW u, NEW c \in Nat, Suffix(u, s), InOrder(s, c)
  PROVE  InOrder(u, c)
<1>1. PICK m \in 0 .. Len(s) : Len(u) = Len(s) - m /\ \A i \in 1 .. Len(u) : u[i] = s[m + i]
  BY DEF Suffix
<1>2. Len(s) \in Nat /\ Len(u) \in Nat BY DEF Suffix
<1>3. ASSUME NEW i \in 1 .. Len(u), NEW j \in i .. Len(u)
      PROVE  u[i] <= c /\ u[i] <= u[j] + Delay
  <2>1. m + i \in 1 .. Len(s) /\ m + j \in (m + i) .. Len(s) /\ j \in 1 .. Len(u) BY <1>1, <1>2
  <2>2. s[m + i] <= c /\ s[m + i] <= s[m + j] + Delay BY <2>1 DEF InOrder
  <2>. QED BY <1>1, <2>1, <2>2
<1>4. \A i \in 1 .. Len(u) : i \in i .. Len(u) BY <1>2
<1>. QED BY <1>3, <1>4 DEF InOrder

\* A failure recorded by a thread that waited no longer than Delay.
LEMMA AppendInOrder ==
  ASSUME NEW s \in Seq(Nat), NEW c \in Nat, NEW t \in Nat, t <= c, c <= t + Delay, InOrder(s, c)
  PROVE  InOrder(Append(s, t), c)
<1> DEFINE u == Append(s, t)
<1>1. Len(s) \in Nat /\ Delay \in Nat /\ \A i \in 1 .. Len(s) : s[i] \in Nat
  BY ThrottleAssumption
<1>2. Len(u) = Len(s) + 1 /\ u[Len(s) + 1] = t /\ \A i \in 1 .. Len(s) : u[i] = s[i]
  BY AppendProperties
<1> HIDE DEF u
<1>3. ASSUME NEW i \in 1 .. Len(u) PROVE u[i] <= c /\ \A j \in i .. Len(u) : u[i] <= u[j] + Delay
  <2>1. CASE i = Len(s) + 1
    <3>1. u[i] = t BY <1>2, <2>1
    <3>2. \A j \in i .. Len(u) : j = i BY <1>1, <1>2, <2>1
    <3>3. t <= t + Delay BY <1>1
    <3>. QED BY <2>1, <3>1, <3>2, <3>3
  <2>2. CASE i # Len(s) + 1
    <3>1. i \in 1 .. Len(s) BY <1>1, <1>2, <2>2
    <3>2. u[i] = s[i] /\ s[i] \in Nat /\ s[i] <= c BY <1>1, <1>2, <3>1 DEF InOrder
    <3>3. ASSUME NEW j \in i .. Len(u) PROVE u[i] <= u[j] + Delay
      <4>1. CASE j = Len(s) + 1 BY <1>1, <1>2, <3>2, <4>1
      <4>2. CASE j # Len(s) + 1
        <5>1. j \in i .. Len(s) /\ j \in 1 .. Len(s) BY <1>1, <1>2, <4>2
        <5>. QED BY <1>2, <3>1, <3>2, <5>1 DEF InOrder
      <4>. QED BY <4>1, <4>2
    <3>. QED BY <3>2, <3>3
  <2>. QED BY <2>1, <2>2
<1>. QED BY <1>3 DEF InOrder, u

-----------------------------------------------------------------------------
(* Tables of failures.                                                     *)

Table(f) == DOMAIN f \subseteq Buckets /\ f \in [DOMAIN f -> Seq(Nat)]
\* g has forgotten some of f, nothing that still counts when the thread that
\* forgets it may have waited Delay for the lock.
Lesser(g, f) == Table(g) /\ DOMAIN g \subseteq DOMAIN f /\ \A k \in DOMAIN g : Suffix(g[k], f[k])
Remembers(g, f, c) == \A k \in DOMAIN f : \A i \in 1 .. Len(f[k]) :
  f[k][i] + Window >= c => k \in DOMAIN g /\ \E j \in 1 .. Len(g[k]) : g[k][j] = f[k][i]
TableInOrder(f, c) == \A k \in DOMAIN f : InOrder(f[k], c)

LEMMA LesserOfLesser ==
  ASSUME NEW f, NEW g, NEW h, NEW c, Table(f), Lesser(g, f), Lesser(h, g)
  PROVE  /\ Lesser(h, f)
         /\ Remembers(g, f, c) /\ Remembers(h, g, c) => Remembers(h, f, c)
<1>1. Lesser(h, f)
  <2>1. ASSUME NEW k \in DOMAIN h PROVE Suffix(h[k], f[k])
    <3>1. f[k] \in Seq(Nat) /\ Suffix(g[k], f[k]) /\ Suffix(h[k], g[k]) BY DEF Table, Lesser
    <3>. QED BY <3>1, SuffixOfSuffix
  <2>. QED BY <2>1 DEF Lesser
<1>2. ASSUME Remembers(g, f, c), Remembers(h, g, c),
             NEW k \in DOMAIN f, NEW i \in 1 .. Len(f[k]), f[k][i] + Window >= c
      PROVE  k \in DOMAIN h /\ \E j \in 1 .. Len(h[k]) : h[k][j] = f[k][i]
  <2>1. k \in DOMAIN g /\ \E j \in 1 .. Len(g[k]) : g[k][j] = f[k][i] BY <1>2 DEF Remembers
  <2>2. PICK j \in 1 .. Len(g[k]) : g[k][j] = f[k][i] BY <2>1
  <2>. QED BY <1>2, <2>1, <2>2 DEF Remembers
<1>. QED BY <1>1, <1>2 DEF Remembers

LEMMA LesserInOrder ==
  ASSUME NEW f, NEW g, NEW c \in Nat, Table(f), Lesser(g, f), TableInOrder(f, c)
  PROVE  TableInOrder(g, c)
  BY SuffixInOrder DEF Table, Lesser, TableInOrder

LEMMA LesserSelf ==
  ASSUME NEW f, Table(f)
  PROVE  Lesser(f, f) /\ \A c : Remembers(f, f, c)
<1>1. ASSUME NEW k \in DOMAIN f PROVE Suffix(f[k], f[k])
  <2>1. f[k] \in Seq(Nat) BY DEF Table
  <2>2. Len(f[k]) \in Nat BY <2>1
  <2>3. 0 \in 0 .. Len(f[k]) /\ Len(f[k]) = Len(f[k]) - 0 /\ \A i \in 1 .. Len(f[k]) : 0 + i = i
    BY <2>2
  <2>. QED BY <2>1, <2>3 DEF Suffix
<1>. QED BY <1>1 DEF Lesser, Remembers

LEMMA TrimmingForgets ==
  ASSUME NEW f, NEW keys, NEW t \in Nat, NEW c \in Nat, Table(f), t <= c
  PROVE  /\ Lesser(TrimmedIn(f, keys, t), f) /\ Remembers(TrimmedIn(f, keys, t), f, c + Delay)
         /\ DOMAIN TrimmedIn(f, keys, t) = DOMAIN f
<1> DEFINE g == TrimmedIn(f, keys, t)
<1>1. DOMAIN g = DOMAIN f /\ \A k \in DOMAIN f : g[k] = IF k \in keys THEN Trimmed(f[k], t) ELSE f[k]
  BY DEF TrimmedIn
<1>2. ASSUME NEW k \in DOMAIN f
      PROVE  /\ Suffix(g[k], f[k]) /\ g[k] \in Seq(Nat)
             /\ \A i \in 1 .. Len(f[k]) : f[k][i] + Window >= c + Delay =>
                  \E j \in 1 .. Len(g[k]) : g[k][j] = f[k][i]
  <2>1. f[k] \in Seq(Nat) /\ Suffix(f[k], f[k]) BY LesserSelf DEF Lesser, Table
  <2>2. CASE k \notin keys BY <1>1, <2>1, <2>2
  <2>3. CASE k \in keys
    <3>1. g[k] = Trimmed(f[k], t) BY <1>1, <2>3
    <3>2. Suffix(g[k], f[k]) /\ Recalls(g[k], f[k], t) BY <2>1, <3>1, TrimmedFacts
    <3>3. \A i \in 1 .. Len(f[k]) : f[k][i] + Window >= c + Delay => f[k][i] + Window >= t
      BY <2>1, ThrottleAssumption
    <3>. QED BY <3>2, <3>3 DEF Suffix, Recalls
  <2>. QED BY <2>2, <2>3
<1>3. Table(g)
  <2>1. g = [k \in DOMAIN f |-> g[k]] BY DEF TrimmedIn
  <2>. HIDE DEF g
  <2>. QED BY <1>1, <1>2, <2>1 DEF Table
<1> HIDE DEF g
<1>4. Lesser(g, f) /\ Remembers(g, f, c + Delay) BY <1>1, <1>2, <1>3 DEF Lesser, Remembers
<1>. QED BY <1>1, <1>4 DEF g

LEMMA SweepForgets ==
  ASSUME NEW f, NEW r, NEW t \in Nat, NEW c \in Nat, Table(f), t <= c, TableInOrder(f, c)
  PROVE  /\ Lesser(Swept(f, r, t), f) /\ Remembers(Swept(f, r, t), f, c + Delay)
         /\ DOMAIN f \cap DOMAIN r \subseteq DOMAIN Swept(f, r, t)
<1> DEFINE g == Swept(f, r, t)
<1>1. /\ DOMAIN g = {k \in DOMAIN f : ~Dead(f, r, k, t)} /\ \A k \in DOMAIN g : g[k] = f[k]
      /\ g = [k \in DOMAIN g |-> g[k]]
  BY DEF Swept, Restrict
<1> HIDE DEF g
<1>2. Table(g) BY <1>1 DEF Table
<1>3. Lesser(g, f) BY <1>1, <1>2, LesserSelf DEF Lesser
<1>4. Remembers(g, f, c + Delay)
  <2> SUFFICES ASSUME NEW k \in DOMAIN f, NEW i \in 1 .. Len(f[k]), f[k][i] + Window >= c + Delay
               PROVE  k \in DOMAIN g
    BY <1>1 DEF Remembers
  <2>1. f[k] \in Seq(Nat) /\ Len(f[k]) \in Nat /\ f[k] # <<>> BY DEF Table
  <2>2. Len(f[k]) \in i .. Len(f[k]) /\ Len(f[k]) \in 1 .. Len(f[k]) BY <2>1
  <2>3. f[k][i] <= Last(f[k]) + Delay BY <2>2 DEF TableInOrder, InOrder, Last
  <2>4. Last(f[k]) \in Nat /\ f[k][i] \in Nat BY <2>1, <2>2 DEF Last
  <2>5. ~(Last(f[k]) + Window < t) BY <2>3, <2>4, ThrottleAssumption
  <2>. QED BY <1>1, <2>1, <2>5 DEF Dead
<1>5. DOMAIN f \cap DOMAIN r \subseteq DOMAIN g BY <1>1 DEF Dead
<1>. QED BY <1>3, <1>4, <1>5 DEF g

-----------------------------------------------------------------------------
(* The invariant.                                                          *)

AttemptRecord == [stage : {"none", "begin", "verify", "failure"},
                  ip : Addresses \cup {"none"}, name : Names \cup {"none"}, at : Nat]

ThrottleTypeOK ==
  /\ clock \in Nat /\ sinceSweep \in Nat /\ logins \in Nat
  /\ Table(failures)
  /\ DOMAIN reserved \subseteq Buckets /\ reserved \in [DOMAIN reserved -> Nat]
  /\ attempt \in [Attempts -> AttemptRecord]
  /\ \A a \in Attempts : attempt[a].stage # "none" => attempt[a].ip \in Addresses /\ attempt[a].name \in Names

\* A reading of the clock is not in the future, and the thread that waits for
\* the lock with it has waited no longer than Delay.
Punctual == \A a \in Attempts :
  attempt[a].at <= clock /\ (attempt[a].stage \in Locking => clock <= attempt[a].at + Delay)

Finite ==
  /\ IsFiniteSet(DOMAIN failures) /\ IsFiniteSet(DOMAIN reserved)
  /\ \A k \in Buckets : IsFiniteSet(InFlight(k))

ThrottleInv ==
  /\ ThrottleTypeOK /\ Punctual /\ Finite /\ TableInOrder(failures, clock)
  /\ ReservationsExact /\ BucketsBounded

LEMMA BucketsOfAttempt ==
  ASSUME ThrottleTypeOK, NEW a \in Attempts, attempt[a].stage # "none"
  PROVE  BucketsOf(a) \subseteq Buckets /\ IsFiniteSet(BucketsOf(a))
<1>1. BucketsOf(a) \subseteq Buckets BY DEF ThrottleTypeOK, BucketsOf, Buckets
<1>2. IsFiniteSet({<<"ip", attempt[a].ip>>}) BY FS_Singleton
<1>3. BucketsOf(a) = {<<"ip", attempt[a].ip>>} \cup {<<"user", attempt[a].name>>}
  BY DEF BucketsOf
<1>. QED BY <1>1, <1>2, <1>3, FS_AddElement

\* The reservation of a bucket is the number of attempts in flight on it.
LEMMA ReservedIs ==
  ASSUME Finite, ReservationsExact, NEW k \in Buckets
  PROVE  ReservedOf(k) = Cardinality(InFlight(k)) /\ ReservedOf(k) \in Nat
  BY FS_EmptySet, FS_CardinalityType DEF Finite, ReservationsExact, ReservedOf

\* Whose flight is not touched keeps its count.
LEMMA SameFlight ==
  ASSUME ThrottleTypeOK, Finite, ReservationsExact, reserved' = reserved,
         NEW a \in Attempts, NEW r, attempt' = [attempt EXCEPT ![a] = r],
         \/ attempt[a].stage \notin {"verify", "failure"} /\ r.stage \notin {"verify", "failure"}
         \/ /\ attempt[a].stage \in {"verify", "failure"} /\ r.stage \in {"verify", "failure"}
            /\ r.ip = attempt[a].ip /\ r.name = attempt[a].name
  PROVE  ReservationsExact' /\ \A k \in Buckets : InFlight(k)' = InFlight(k)
<1>1. attempt'[a] = r /\ \A b \in Attempts : b # a => attempt'[b] = attempt[b]
  BY DEF ThrottleTypeOK
<1>2. ASSUME NEW k \in Buckets PROVE InFlight(k)' = InFlight(k)
  BY <1>1 DEF InFlight, BucketsOf
<1>. QED BY <1>2 DEF ReservationsExact

\* begin reserves a place for the attempt it admits.
LEMMA ReservingCounts ==
  ASSUME ThrottleTypeOK, Finite, ReservationsExact, NEW a \in Attempts, attempt[a].stage = "begin",
         Stage(a, "verify"), reserved' = Reserving(BucketsOf(a))
  PROVE  /\ ReservationsExact' /\ \A k \in Buckets : IsFiniteSet(InFlight(k))'
         /\ DOMAIN reserved' = DOMAIN reserved \cup BucketsOf(a)
         /\ \A k \in Buckets : ReservedOf(k)' = ReservedOf(k) + IF k \in BucketsOf(a) THEN 1 ELSE 0
<1> DEFINE keys == BucketsOf(a)
<1>0. keys \subseteq Buckets BY BucketsOfAttempt
<1>1. /\ attempt'[a].stage = "verify" /\ attempt'[a].ip = attempt[a].ip
      /\ attempt'[a].name = attempt[a].name
      /\ \A b \in Attempts : b # a => attempt'[b] = attempt[b]
  BY DEF ThrottleTypeOK, AttemptRecord, Stage
<1>2. ASSUME NEW k \in Buckets
      PROVE  InFlight(k)' = IF k \in keys THEN InFlight(k) \cup {a} ELSE InFlight(k)
  BY <1>1 DEF InFlight, BucketsOf
<1>3. ASSUME NEW k \in Buckets
      PROVE  /\ IsFiniteSet(InFlight(k))' /\ a \notin InFlight(k)
             /\ Cardinality(InFlight(k))' = ReservedOf(k) + IF k \in keys THEN 1 ELSE 0
  <2>1. a \notin InFlight(k) BY DEF InFlight
  <2>2. IsFiniteSet(InFlight(k)) BY DEF Finite
  <2>3. ReservedOf(k) = Cardinality(InFlight(k)) /\ ReservedOf(k) \in Nat BY ReservedIs
  <2>. QED BY <1>2, <2>1, <2>2, <2>3, FS_AddElement
<1>4. /\ DOMAIN reserved' = DOMAIN reserved \cup keys
      /\ \A k \in DOMAIN reserved' : reserved'[k] = ReservedOf(k) + IF k \in keys THEN 1 ELSE 0
  BY DEF Reserving
<1>5. DOMAIN reserved' = {k \in Buckets : InFlight(k)' # {}}
  BY <1>0, <1>2, <1>4 DEF ReservationsExact
<1>6. \A k \in Buckets : ReservedOf(k)' = ReservedOf(k) + IF k \in keys THEN 1 ELSE 0
  <2> SUFFICES ASSUME NEW k \in Buckets PROVE ReservedOf(k)' = ReservedOf(k) + IF k \in keys THEN 1 ELSE 0
    OBVIOUS
  <2>1. CASE k \in DOMAIN reserved' BY <1>4, <2>1 DEF ReservedOf
  <2>2. CASE k \notin DOMAIN reserved' BY <1>4, <2>2 DEF ReservedOf
  <2>. QED BY <2>1, <2>2
<1>7. ReservationsExact' BY <1>0, <1>3, <1>4, <1>5 DEF ReservationsExact
<1>. QED BY <1>3, <1>4, <1>6, <1>7

\* The outcome gives it back.
LEMMA ReleasingCounts ==
  ASSUME ThrottleTypeOK, Finite, ReservationsExact, NEW a \in Attempts,
         attempt[a].stage \in {"verify", "failure"}, Done(a), reserved' = Releasing(BucketsOf(a))
  PROVE  /\ ReservationsExact' /\ \A k \in Buckets : IsFiniteSet(InFlight(k))'
         /\ DOMAIN reserved' \subseteq DOMAIN reserved /\ BucketsOf(a) \subseteq DOMAIN reserved
         /\ \A k \in Buckets : ReservedOf(k)' + (IF k \in BucketsOf(a) THEN 1 ELSE 0) = ReservedOf(k)
<1> DEFINE keys == BucketsOf(a)
<1>0. keys \subseteq Buckets BY BucketsOfAttempt
<1>1. /\ attempt'[a].stage = "none"
      /\ \A b \in Attempts : b # a => attempt'[b] = attempt[b]
  BY DEF ThrottleTypeOK, Done, Nobody
<1>2. ASSUME NEW k \in Buckets
      PROVE  InFlight(k)' = IF k \in keys THEN InFlight(k) \ {a} ELSE InFlight(k)
  BY <1>1 DEF InFlight, BucketsOf
<1>3. ASSUME NEW k \in Buckets
      PROVE  /\ IsFiniteSet(InFlight(k))' /\ (k \in keys => a \in InFlight(k))
             /\ Cardinality(InFlight(k))' + (IF k \in keys THEN 1 ELSE 0) = ReservedOf(k)
             /\ Cardinality(InFlight(k))' \in Nat
  <2>1. k \in keys => a \in InFlight(k) BY DEF InFlight
  <2>2. IsFiniteSet(InFlight(k)) BY DEF Finite
  <2>3. ReservedOf(k) = Cardinality(InFlight(k)) /\ ReservedOf(k) \in Nat BY ReservedIs
  <2>4. IsFiniteSet(InFlight(k) \ {a}) /\ Cardinality(InFlight(k) \ {a}) \in Nat
    BY <2>2, FS_RemoveElement, FS_CardinalityType
  <2>. QED BY <1>2, <2>1, <2>2, <2>3, <2>4, FS_RemoveElement
<1>4. keys \subseteq DOMAIN reserved BY <1>0, <1>3 DEF ReservationsExact
<1>5. /\ DOMAIN reserved' = {k \in DOMAIN reserved : k \in keys => reserved[k] > 1}
      /\ \A k \in DOMAIN reserved' : reserved'[k] = IF k \in keys THEN reserved[k] - 1 ELSE reserved[k]
  BY DEF Releasing
<1>6. ASSUME NEW k \in DOMAIN reserved
      PROVE  /\ k \in Buckets /\ reserved[k] = ReservedOf(k) /\ reserved[k] = Cardinality(InFlight(k))
             /\ k \in DOMAIN reserved' <=> Cardinality(InFlight(k))' # 0
             /\ k \in DOMAIN reserved' => reserved'[k] = Cardinality(InFlight(k))'
  <2>1. k \in Buckets /\ reserved[k] = ReservedOf(k) /\ reserved[k] = Cardinality(InFlight(k))
        /\ InFlight(k) # {}
    BY DEF ReservationsExact, ReservedOf
  <2>2. reserved[k] \in Nat /\ reserved[k] # 0
    <3>1. IsFiniteSet(InFlight(k)) BY <2>1 DEF Finite
    <3>. QED BY <2>1, <3>1, FS_EmptySet, FS_CardinalityType
  <2>3. /\ Cardinality(InFlight(k))' \in Nat
        /\ Cardinality(InFlight(k))' + (IF k \in keys THEN 1 ELSE 0) = reserved[k]
    BY <1>3, <2>1
  <2>4. k \in DOMAIN reserved' <=> (k \in keys => reserved[k] > 1) BY <1>5
  <2>5. k \in DOMAIN reserved' => reserved'[k] = IF k \in keys THEN reserved[k] - 1 ELSE reserved[k]
    BY <1>5
  <2>. HIDE DEF keys
  <2>6. CASE k \in keys BY <2>1, <2>2, <2>3, <2>4, <2>5, <2>6
  <2>7. CASE k \notin keys BY <2>1, <2>2, <2>3, <2>4, <2>5, <2>7
  <2>. QED BY <2>6, <2>7
<1>7. \A k \in Buckets : Cardinality(InFlight(k))' # 0 <=> InFlight(k)' # {}
  BY <1>3, FS_EmptySet
<1>8. DOMAIN reserved' = {k \in Buckets : InFlight(k)' # {}}
  <2>1. ASSUME NEW k \in Buckets, InFlight(k)' # {} PROVE k \in DOMAIN reserved'
    <3>1. k \in DOMAIN reserved BY <1>2, <2>1 DEF ReservationsExact
    <3>. QED BY <1>6, <1>7, <2>1, <3>1
  <2>. QED BY <1>5, <1>6, <1>7, <2>1
<1>9. ReservationsExact' BY <1>5, <1>6, <1>8 DEF ReservationsExact
<1>10. ASSUME NEW k \in Buckets
       PROVE  ReservedOf(k)' + (IF k \in keys THEN 1 ELSE 0) = ReservedOf(k)
  <2>1. CASE k \in DOMAIN reserved'
    BY <1>3, <1>5, <1>6, <2>1 DEF ReservedOf
  <2>2. CASE k \notin DOMAIN reserved'
    <3>1. ReservedOf(k)' = 0 BY <2>2 DEF ReservedOf
    <3>2. Cardinality(InFlight(k))' = 0 BY <1>7, <1>8, <2>2
    <3>. QED BY <1>3, <3>1, <3>2
  <2>. QED BY <2>1, <2>2
<1>. QED BY <1>3, <1>4, <1>5, <1>9, <1>10

-----------------------------------------------------------------------------
(* The steps.                                                              *)

LEMMA RememberedAddresses ==
  ASSUME Table(failures), Table(failures)', Remembers(failures', failures, clock + Delay)
  PROVE  AddressStep
<1> SUFFICES ASSUME NEW ip \in Addresses, NEW i \in DOMAIN FailuresOf(<<"ip", ip>>),
                    FailuresOf(<<"ip", ip>>)[i] + Window >= clock + Delay
             PROVE  Survives(<<"ip", ip>>, FailuresOf(<<"ip", ip>>)[i])
  BY DEF AddressStep
<1> DEFINE k == <<"ip", ip>>
<1>1. k \in DOMAIN failures /\ FailuresOf(k) = failures[k]
  BY EmptySeq DEF FailuresOf
<1>2. failures[k] \in Seq(Nat) /\ i \in 1 .. Len(failures[k])
  BY <1>1, LenProperties DEF Table
<1> HIDE DEF k
<1>3. PICK j \in 1 .. Len(failures'[k]) : failures'[k][j] = failures[k][i]
  BY <1>1, <1>2 DEF Remembers, k
<1>4. k \in DOMAIN failures' BY <1>1, <1>2 DEF Remembers, k
<1>5. failures'[k] \in Seq(Nat) /\ j \in DOMAIN failures'[k]
  BY <1>3, <1>4, LenProperties DEF Table
<1>6. FailuresOf(k)' = failures'[k] BY <1>4 DEF FailuresOf, k
<1>. QED BY <1>1, <1>3, <1>5, <1>6 DEF Survives, k

\* Forgetting keeps what the invariant says of the failures.
LEMMA ForgettingKeeps ==
  ASSUME ThrottleInv, Lesser(failures', failures), clock' = clock
  PROVE  /\ Table(failures)' /\ TableInOrder(failures, clock)' /\ IsFiniteSet(DOMAIN failures)'
         /\ \A k : Len(FailuresOf(k)) \in Nat /\ Len(FailuresOf(k))' \in Nat
                   /\ Len(FailuresOf(k))' <= Len(FailuresOf(k))
<1>1. Table(failures) /\ clock \in Nat BY DEF ThrottleInv, ThrottleTypeOK
<1>2. Table(failures)' BY DEF Lesser
<1>3. TableInOrder(failures, clock)' BY <1>1, LesserInOrder DEF ThrottleInv, TableInOrder
<1>4. IsFiniteSet(DOMAIN failures)' BY FS_Subset DEF Lesser, ThrottleInv, Finite
<1>5. ASSUME NEW k
      PROVE  Len(FailuresOf(k)) \in Nat /\ Len(FailuresOf(k))' \in Nat
             /\ Len(FailuresOf(k))' <= Len(FailuresOf(k))
  <2>1. Len(<<>>) = 0 BY EmptySeq
  <2>2. FailuresOf(k) \in Seq(Nat) /\ FailuresOf(k)' \in Seq(Nat)
    BY <1>1, <1>2, EmptySeq DEF FailuresOf, Table
  <2>3. CASE k \in DOMAIN failures'
    <3>1. k \in DOMAIN failures /\ Suffix(failures'[k], failures[k]) BY <2>3 DEF Lesser
    <3>2. PICK m \in 0 .. Len(failures[k]) : Len(failures'[k]) = Len(failures[k]) - m
      BY <3>1 DEF Suffix
    <3>. QED BY <2>2, <2>3, <3>1, <3>2 DEF FailuresOf
  <2>4. CASE k \notin DOMAIN failures' BY <2>1, <2>2, <2>4 DEF FailuresOf
  <2>. QED BY <2>2, <2>3, <2>4
<1>. QED BY <1>2, <1>3, <1>4, <1>5

\* A smaller table stays within the cap.
LEMMA StaysBounded ==
  ASSUME ThrottleInv, DOMAIN failures' \cup DOMAIN reserved' \subseteq DOMAIN failures \cup DOMAIN reserved
  PROVE  BucketsBounded' /\ IsFiniteSet(DOMAIN reserved)' /\ IsFiniteSet(DOMAIN failures)'
<1> DEFINE old == DOMAIN failures \cup DOMAIN reserved
           new == DOMAIN failures' \cup DOMAIN reserved'
<1>1. IsFiniteSet(old) /\ Cardinality(old) <= MaxKeys
  BY FS_Union DEF ThrottleInv, Finite, BucketsBounded
<1>2. IsFiniteSet(new) /\ Cardinality(new) <= Cardinality(old)
  BY <1>1, FS_Subset
<1>3. IsFiniteSet(DOMAIN reserved') /\ IsFiniteSet(DOMAIN failures')
  BY <1>2, FS_Subset
<1>4. Cardinality(new) \in Nat /\ Cardinality(old) \in Nat /\ MaxKeys \in Nat
  BY <1>1, <1>2, FS_CardinalityType, ThrottleAssumption
<1>. QED BY <1>1, <1>2, <1>3, <1>4 DEF BucketsBounded

\* What begin keeps of the failures, and who it admits.
LEMMA BeginForgets ==
  ASSUME ThrottleInv, NEW a \in Attempts, Begin(a)
  PROVE  Lesser(failures', failures) /\ Remembers(failures', failures, clock + Delay)
<1> DEFINE t == attempt[a].at
           keys == BucketsOf(a)
           trimmed == TrimmedIn(failures, keys, t)
           crowded == ExceedsCap(trimmed, keys)
           swept == IF crowded THEN Swept(trimmed, reserved, t) ELSE trimmed
           c == clock + Delay
<1>1. t \in Nat /\ t <= clock /\ clock \in Nat /\ Table(failures) /\ TableInOrder(failures, clock)
  BY DEF ThrottleInv, ThrottleTypeOK, AttemptRecord, Punctual
<1>2. /\ failures' \in {trimmed, swept, Swept(swept, Reserving(keys), t)}
  BY DEF Begin, MaybeSweep
<1> HIDE DEF t, keys
<1>3. Lesser(trimmed, failures) /\ Remembers(trimmed, failures, c) /\ Table(trimmed)
  BY <1>1, TrimmingForgets DEF Lesser
<1>4. TableInOrder(trimmed, clock) BY <1>1, <1>3, LesserInOrder
<1> HIDE DEF trimmed
<1>5. ASSUME NEW f, NEW r, Table(f), TableInOrder(f, clock), Lesser(f, failures), Remembers(f, failures, c)
      PROVE  /\ Lesser(Swept(f, r, t), failures) /\ Remembers(Swept(f, r, t), failures, c)
             /\ Table(Swept(f, r, t)) /\ TableInOrder(Swept(f, r, t), clock)
  <2>1. Lesser(Swept(f, r, t), f) /\ Remembers(Swept(f, r, t), f, c)
    BY <1>1, <1>5, SweepForgets
  <2>2. Lesser(Swept(f, r, t), failures) /\ Remembers(Swept(f, r, t), failures, c)
    BY <1>1, <1>5, <2>1, LesserOfLesser
  <2>. QED BY <1>1, <2>2, LesserInOrder DEF Lesser
<1>6. /\ Lesser(swept, failures) /\ Remembers(swept, failures, c)
      /\ Table(swept) /\ TableInOrder(swept, clock)
  BY <1>3, <1>4, <1>5
<1>. QED BY <1>2, <1>3, <1>5, <1>6

\* begin keeps the table within its cap.
LEMMA BeginBounded ==
  ASSUME ThrottleInv, NEW a \in Attempts, Begin(a), attempt'[a].stage = "verify"
  PROVE  BucketsBounded' /\ IsFiniteSet(DOMAIN reserved)'
<1> DEFINE t == attempt[a].at
           keys == BucketsOf(a)
           trimmed == TrimmedIn(failures, keys, t)
           crowded == ExceedsCap(trimmed, keys)
           swept == IF crowded THEN Swept(trimmed, reserved, t) ELSE trimmed
           new == keys \ (DOMAIN swept \cup DOMAIN reserved)
<1>1. /\ ~ExceedsCap(swept, keys)
      /\ failures' \in {swept, Swept(swept, Reserving(keys), t)}
      /\ reserved' = Reserving(keys)
  <2>1. attempt[a].stage = "begin" /\ attempt \in [Attempts -> AttemptRecord]
    BY DEF Begin, ThrottleInv, ThrottleTypeOK
  <2>2. ~Done(a) BY <2>1 DEF Done, Nobody
  <2>. QED BY <2>2 DEF Begin, MaybeSweep
<1>2. DOMAIN failures' \subseteq DOMAIN swept /\ DOMAIN swept \subseteq DOMAIN failures
  BY <1>1 DEF Swept, Restrict, TrimmedIn
<1>3. DOMAIN reserved' = DOMAIN reserved \cup keys BY <1>1 DEF Reserving
<1>4. IsFiniteSet(keys)
  BY BucketsOfAttempt DEF Begin, ThrottleInv
<1>5. IsFiniteSet(DOMAIN failures) /\ IsFiniteSet(DOMAIN reserved)
  BY DEF ThrottleInv, Finite
<1>6. IsFiniteSet(DOMAIN swept) /\ IsFiniteSet(new)
  BY <1>2, <1>4, <1>5, FS_Subset
<1>7. CASE new = {}
  <2>1. DOMAIN failures' \cup DOMAIN reserved' \subseteq DOMAIN failures \cup DOMAIN reserved
    BY <1>2, <1>3, <1>7
  <2>. QED BY <2>1, StaysBounded
<1>8. CASE new # {}
  <2> DEFINE n == Cardinality(DOMAIN swept) + Cardinality(DOMAIN reserved) + Cardinality(new)
  <2>1. ~(n > MaxKeys) BY <1>1, <1>8 DEF ExceedsCap
  <2> HIDE DEF swept, new
  <2> DEFINE U == (DOMAIN swept \cup DOMAIN reserved) \cup new
  <2>2. IsFiniteSet(U) /\ Cardinality(U) <= n
    <3> DEFINE V == DOMAIN swept \cup DOMAIN reserved
    <3>1. /\ IsFiniteSet(V)
          /\ Cardinality(V) = Cardinality(DOMAIN swept) + Cardinality(DOMAIN reserved)
                              - Cardinality(DOMAIN swept \cap DOMAIN reserved)
      BY <1>5, <1>6, FS_Union
    <3>2. /\ IsFiniteSet(V \cup new)
          /\ Cardinality(V \cup new) = Cardinality(V) + Cardinality(new) - Cardinality(V \cap new)
      BY <1>6, <3>1, FS_Union
    <3>3. /\ Cardinality(DOMAIN swept \cap DOMAIN reserved) \in Nat /\ Cardinality(V \cap new) \in Nat
          /\ Cardinality(DOMAIN swept) \in Nat /\ Cardinality(DOMAIN reserved) \in Nat
          /\ Cardinality(new) \in Nat /\ Cardinality(V) \in Nat
      <4>1. IsFiniteSet(DOMAIN swept \cap DOMAIN reserved) /\ IsFiniteSet(V \cap new)
        BY <1>5, <1>6, FS_Intersection
      <4>. QED BY <1>5, <1>6, <3>1, <4>1, FS_CardinalityType
    <3> HIDE DEF V
    <3>. QED BY <3>1, <3>2, <3>3 DEF V
  <2>3. DOMAIN failures' \cup DOMAIN reserved' \subseteq U BY <1>2, <1>3 DEF new
  <2>4. /\ IsFiniteSet(DOMAIN failures' \cup DOMAIN reserved')
        /\ Cardinality(DOMAIN failures' \cup DOMAIN reserved') <= Cardinality(U)
    BY <2>2, <2>3, FS_Subset
  <2>5. /\ Cardinality(U) \in Nat /\ Cardinality(DOMAIN failures' \cup DOMAIN reserved') \in Nat
        /\ n \in Nat /\ MaxKeys \in Nat
    BY <1>5, <1>6, <2>2, <2>4, FS_CardinalityType, ThrottleAssumption
  <2>6. IsFiniteSet(DOMAIN reserved') BY <2>4, FS_Subset
  <2> HIDE DEF n, U
  <2>7. Cardinality(DOMAIN failures' \cup DOMAIN reserved') <= MaxKeys
    BY <2>1, <2>2, <2>4, <2>5
  <2>. QED BY <2>6, <2>7 DEF BucketsBounded
<1>. QED BY <1>7, <1>8

\* begin admits past a ceiling only at the instant its oldest failure expires.
LEMMA BeginCeiling ==
  ASSUME ThrottleInv, NEW a \in Attempts, Begin(a), attempt'[a].stage = "verify",
         NEW k \in BucketsOf(a), Grows(k)
  PROVE  AtExpiry(a, k)
<1> DEFINE t == attempt[a].at
           keys == BucketsOf(a)
           trimmed == TrimmedIn(failures, keys, t)
           s == Trimmed(FailuresOf(k), t)
<1>1. attempt[a].stage = "begin" /\ attempt \in [Attempts -> AttemptRecord] /\ ThrottleTypeOK
  BY DEF Begin, ThrottleInv, ThrottleTypeOK
<1>2. k \in Buckets BY <1>1, BucketsOfAttempt
<1>3. Stage(a, "verify") /\ reserved' = Reserving(keys) /\ ~Refuses(trimmed, k, t)
  <2>1. ~Done(a) BY <1>1 DEF Done, Nobody
  <2>. QED BY <2>1 DEF Begin
<1>4. ReservedOf(k)' = ReservedOf(k) + 1 /\ ReservedOf(k) \in Nat
  BY <1>1, <1>2, <1>3, ReservingCounts, ReservedIs DEF ThrottleInv
<1>5. FailuresOf(k) \in Seq(Nat) /\ t \in Nat
  BY <1>1, EmptySeq DEF FailuresOf, ThrottleTypeOK, Table, AttemptRecord
<1>6. s \in Seq(Nat) /\ Len(s) \in Nat /\ Len(s) <= Len(FailuresOf(k)) /\ (s # <<>> => Head(s) + Window >= t)
  BY <1>5, TrimmedFacts DEF Suffix
<1>7. /\ k \in DOMAIN trimmed => trimmed[k] = s
      /\ k \notin DOMAIN trimmed => k \notin DOMAIN failures
  BY DEF TrimmedIn, FailuresOf
<1>8. k \notin DOMAIN failures => s = <<>>
  <2>1. k \notin DOMAIN failures => FailuresOf(k) = <<>> BY DEF FailuresOf
  <2>2. k \notin DOMAIN failures => Len(s) = 0 BY <1>6, <2>1, EmptySeq
  <2>. QED BY <1>6, <2>2, EmptySeq
<1>9. FailuresOf(k)' = s \/ FailuresOf(k)' = <<>>
  <2> DEFINE swept == IF ExceedsCap(trimmed, keys) THEN Swept(trimmed, reserved, t) ELSE trimmed
  <2>1. failures' \in {swept, Swept(swept, Reserving(keys), t)}
    BY <1>1 DEF Begin, MaybeSweep, Done, Nobody
  <2>2. \A f, r : /\ DOMAIN Swept(f, r, t) \subseteq DOMAIN f
                  /\ \A b \in DOMAIN Swept(f, r, t) : Swept(f, r, t)[b] = f[b]
    BY DEF Swept, Restrict
  <2> HIDE DEF trimmed, s, keys, t
  <2>3. k \in DOMAIN failures' => k \in DOMAIN trimmed /\ failures'[k] = trimmed[k]
    BY <2>1, <2>2
  <2>. QED BY <1>7, <2>3 DEF FailuresOf
<1>10. Load(k)' <= Len(s) + ReservedOf(k) + 1
  <2>1. Len(<<>>) = 0 /\ Len(FailuresOf(k)') \in Nat BY <1>6, <1>9, EmptySeq
  <2>2. Load(k)' = Len(FailuresOf(k)') + ReservedOf(k)' BY DEF Load
  <2> HIDE DEF s
  <2>. QED BY <1>4, <1>6, <1>9, <2>1, <2>2
<1>11. Limit(k) \in Nat /\ Limit(k) > 0 BY ThrottleAssumption DEF Limit
<1>12. Load(k)' > Limit(k) /\ Load(k)' \in Nat
  <2>1. Len(<<>>) = 0 /\ Len(FailuresOf(k)') \in Nat BY <1>6, <1>9, EmptySeq
  <2>. QED BY <1>4, <2>1 DEF Grows, Load, Limit
<1> HIDE DEF s, trimmed, t
<1>13. CASE Full(trimmed, k)
  <2>1. Len(s) >= Limit(k) /\ s # <<>>
    <3>1. Len(s) >= Limit(k) BY <1>7, <1>13 DEF Full
    <3>. QED BY <1>6, <1>11, <3>1, EmptySeq
  <2>2. Head(s) \in Nat BY <1>6, <2>1, HeadTailProperties
  <2>3. ~(Head(s) + Window > t) BY <1>3, <1>7, <1>13 DEF Refuses, Full
  <2>4. Window \in Nat /\ Head(s) + Window >= t BY <1>6, <2>1, ThrottleAssumption
  <2>5. t \in Nat BY <1>5
  <2>6. Head(s) + Window = t BY <2>2, <2>3, <2>4, <2>5
  <2>. QED BY <2>1, <2>6 DEF AtExpiry, s, t
<1>14. CASE ~Full(trimmed, k)
  <2>1. Len(s) + ReservedOf(k) < Limit(k)
    <3>1. CASE k \in DOMAIN trimmed
      BY <1>3, <1>4, <1>6, <1>7, <1>11, <1>14, <3>1 DEF Refuses
    <3>2. CASE k \notin DOMAIN trimmed
      <4>1. Len(s) = 0 BY <1>7, <1>8, <3>2, EmptySeq
      <4>. QED BY <1>3, <1>4, <1>11, <1>14, <3>2, <4>1 DEF Refuses
    <3>. QED BY <3>1, <3>2
  <2>. QED BY <1>4, <1>6, <1>10, <1>11, <1>12, <2>1
<1>. QED BY <1>13, <1>14

\* No bucket grows, or one does by an attempt admitted at the instant of expiry.
LEMMA NothingGrows ==
  ASSUME ThrottleInv,
         \A k \in Buckets : /\ Len(FailuresOf(k))' \in Nat /\ ReservedOf(k)' \in Nat
                            /\ Load(k)' <= Load(k)
  PROVE  CeilingStep
<1>1. ASSUME NEW k \in Buckets PROVE ~Grows(k)
  <2>1. Load(k)' \in Nat /\ Load(k) \in Nat
    <3>1. FailuresOf(k) \in Seq(Nat) BY EmptySeq DEF FailuresOf, ThrottleInv, ThrottleTypeOK, Table
    <3>. QED BY <3>1, ReservedIs, LenProperties DEF Load, ThrottleInv
  <2>. QED BY <2>1 DEF Grows
<1>. QED BY <1>1 DEF CeilingStep

LEMMA BeginStep ==
  ASSUME ThrottleInv, NEW a \in Attempts, Begin(a)
  PROVE  ThrottleInv' /\ CeilingStep /\ AddressStep
<1>0. /\ attempt[a].stage = "begin" /\ clock' = clock /\ logins' = logins
      /\ attempt \in [Attempts -> AttemptRecord] /\ ThrottleTypeOK /\ Finite /\ ReservationsExact
  BY DEF Begin, ThrottleInv, ThrottleTypeOK
<1>1. Lesser(failures', failures) /\ Remembers(failures', failures, clock + Delay)
  BY BeginForgets
<1>2. /\ Table(failures)' /\ TableInOrder(failures, clock)' /\ IsFiniteSet(DOMAIN failures)'
      /\ \A k : Len(FailuresOf(k)) \in Nat /\ Len(FailuresOf(k))' \in Nat
                /\ Len(FailuresOf(k))' <= Len(FailuresOf(k))
  BY <1>0, <1>1, ForgettingKeeps
<1>3. AddressStep BY <1>0, <1>1, <1>2, RememberedAddresses DEF ThrottleTypeOK
<1>4. sinceSweep' \in Nat
  BY <1>0 DEF Begin, MaybeSweep, ThrottleTypeOK
<1>5. CASE Done(a) /\ UNCHANGED reserved
  <2>1. ReservationsExact' /\ \A k \in Buckets : InFlight(k)' = InFlight(k)
    BY <1>0, <1>5, SameFlight DEF Done, Nobody
  <2>2. /\ attempt' \in [Attempts -> AttemptRecord]
        /\ attempt'[a] = Nobody /\ \A b \in Attempts : b # a => attempt'[b] = attempt[b]
    BY <1>0, <1>5 DEF Done, Nobody, AttemptRecord
  <2>3. ThrottleTypeOK'
    BY <1>0, <1>2, <1>4, <1>5, <2>2 DEF ThrottleTypeOK, Nobody
  <2>4. Punctual' BY <1>0, <2>2 DEF ThrottleInv, ThrottleTypeOK, Punctual, Nobody, Locking
  <2>5. Finite' BY <1>0, <1>2, <1>5, <2>1 DEF Finite
  <2>6. BucketsBounded' BY <1>1, <1>5, StaysBounded DEF Lesser
  <2>7. CeilingStep
    <3>1. \A k \in Buckets : ReservedOf(k)' = ReservedOf(k) /\ ReservedOf(k) \in Nat
      BY <1>0, <1>5, ReservedIs DEF ReservedOf
    <3>2. \A k \in Buckets : Load(k)' <= Load(k) BY <1>2, <3>1 DEF Load
    <3>. QED BY <1>2, <3>1, <3>2, NothingGrows
  <2>. QED BY <1>2, <1>3, <2>1, <2>3, <2>4, <2>5, <2>6, <2>7 DEF ThrottleInv
<1>6. CASE Stage(a, "verify") /\ reserved' = Reserving(BucketsOf(a))
  <2>1. /\ ReservationsExact' /\ \A k \in Buckets : IsFiniteSet(InFlight(k))'
        /\ DOMAIN reserved' = DOMAIN reserved \cup BucketsOf(a)
        /\ \A k \in Buckets : ReservedOf(k)' = ReservedOf(k) + IF k \in BucketsOf(a) THEN 1 ELSE 0
    BY <1>0, <1>6, ReservingCounts
  <2>2. /\ attempt' \in [Attempts -> AttemptRecord]
        /\ attempt'[a] = [attempt[a] EXCEPT !.stage = "verify"]
        /\ \A b \in Attempts : b # a => attempt'[b] = attempt[b]
    BY <1>0, <1>6 DEF Stage, AttemptRecord
  <2>3. /\ attempt'[a].stage = "verify" /\ attempt'[a].ip = attempt[a].ip
        /\ attempt'[a].name = attempt[a].name /\ attempt'[a].at = attempt[a].at
    BY <1>0, <2>2 DEF AttemptRecord
  <2>4. BucketsBounded' /\ IsFiniteSet(DOMAIN reserved)'
    BY <2>3, BeginBounded
  <2>5. BucketsOf(a) \subseteq Buckets BY <1>0, BucketsOfAttempt
  <2>6. \A k \in Buckets : ReservedOf(k) \in Nat BY <1>0, ReservedIs
  <2>7. DOMAIN reserved' \subseteq Buckets /\ reserved' \in [DOMAIN reserved' -> Nat]
    <3>1. DOMAIN reserved' \subseteq Buckets BY <1>0, <2>1, <2>5 DEF ThrottleTypeOK
    <3>2. \A k \in DOMAIN reserved' : reserved'[k] \in Nat
      BY <2>6, <3>1, <1>6 DEF Reserving
    <3>3. reserved' = [k \in DOMAIN reserved' |-> reserved'[k]] BY <1>6 DEF Reserving
    <3>. QED BY <3>1, <3>2, <3>3
  <2>8. ThrottleTypeOK'
    BY <1>0, <1>2, <1>4, <2>2, <2>3, <2>7 DEF ThrottleTypeOK
  <2>9. Punctual' BY <1>0, <2>2, <2>3 DEF ThrottleInv, Punctual, Locking
  <2>10. Finite' BY <1>2, <2>1, <2>4 DEF Finite
  <2>11. CeilingStep
    <3> SUFFICES ASSUME NEW k \in Buckets, Grows(k)
                 PROVE  attempt[a].stage = "begin" /\ AtExpiry(a, k) /\ ReservedOf(k)' > ReservedOf(k)
      BY DEF CeilingStep
    <3>1. CASE k \in BucketsOf(a)
      <4>1. AtExpiry(a, k) BY <2>3, <3>1, BeginCeiling
      <4>2. ReservedOf(k)' > ReservedOf(k) BY <2>1, <2>6, <3>1
      <4>. QED BY <1>0, <4>1, <4>2
    <3>2. CASE k \notin BucketsOf(a)
      <4>1. ReservedOf(k)' = ReservedOf(k) BY <2>1, <2>6, <3>2
      <4>2. ~(Load(k)' > Load(k)) BY <1>2, <2>6, <4>1 DEF Load
      <4>. QED BY <4>2 DEF Grows
    <3>. QED BY <3>1, <3>2
  <2>. QED BY <1>2, <1>3, <2>1, <2>4, <2>8, <2>9, <2>10, <2>11 DEF ThrottleInv
<1>. QED BY <1>5, <1>6 DEF Begin

\* A failure recorded: what the table tells before the sweep.
LEMMA RecordedTable ==
  ASSUME ThrottleInv, NEW keys \in SUBSET Buckets, NEW t \in Nat, t <= clock, clock <= t + Delay,
         NEW g, g = [k \in DOMAIN failures \cup keys |->
                      IF k \in keys THEN Append(Trimmed(FailuresOf(k), t), t) ELSE failures[k]]
  PROVE  /\ Table(g) /\ TableInOrder(g, clock) /\ Remembers(g, failures, clock + Delay)
         /\ \A k \in DOMAIN g : Len(g[k]) <= Len(FailuresOf(k)) + IF k \in keys THEN 1 ELSE 0
<1>1. /\ Table(failures) /\ clock \in Nat /\ TableInOrder(failures, clock)
      /\ Window \in Nat /\ Delay \in Nat
  BY ThrottleAssumption DEF ThrottleInv, ThrottleTypeOK
<1>2. ASSUME NEW k \in DOMAIN g
      PROVE  /\ k \in Buckets /\ g[k] \in Seq(Nat) /\ InOrder(g[k], clock)
             /\ Len(g[k]) <= Len(FailuresOf(k)) + IF k \in keys THEN 1 ELSE 0
             /\ \A i \in 1 .. Len(FailuresOf(k)) : FailuresOf(k)[i] + Window >= clock + Delay =>
                  \E j \in 1 .. Len(g[k]) : g[k][j] = FailuresOf(k)[i]
  <2> DEFINE s == FailuresOf(k)
             u == Trimmed(s, t)
  <2>1. k \in Buckets BY <1>1 DEF Table
  <2>2. s \in Seq(Nat) /\ InOrder(s, clock)
    <3>1. CASE k \in DOMAIN failures BY <1>1, <3>1 DEF FailuresOf, Table, TableInOrder
    <3>2. CASE k \notin DOMAIN failures
      <4>1. s = <<>> BY <3>2 DEF FailuresOf
      <4>. QED BY <4>1, EmptySeq DEF InOrder
    <3>. QED BY <3>1, <3>2
  <2> HIDE DEF s
  <2>3. Len(s) \in Nat /\ \A i \in 1 .. Len(s) : s[i] \in Nat BY <2>2
  <2>4. CASE k \in keys
    <3>1. g[k] = Append(u, t) BY <2>4 DEF s
    <3>2. Suffix(u, s) /\ Recalls(u, s, t) BY <2>2, TrimmedFacts
    <3>3. InOrder(u, clock) BY <1>1, <2>2, <3>2, SuffixInOrder
    <3> HIDE DEF u
    <3>4. u \in Seq(Nat) /\ Len(u) \in Nat /\ Len(u) <= Len(s) BY <2>3, <3>2 DEF Suffix
    <3>5. InOrder(g[k], clock) BY <1>1, <3>1, <3>3, <3>4, AppendInOrder
    <3>6. /\ g[k] \in Seq(Nat) /\ Len(g[k]) = Len(u) + 1
          /\ \A j \in 1 .. Len(u) : g[k][j] = u[j]
      <4>1. /\ Append(u, t) \in Seq(Nat) /\ Len(Append(u, t)) = Len(u) + 1
            /\ \A j \in 1 .. Len(u) : Append(u, t)[j] = u[j]
        BY <3>4, AppendProperties
      <4>. QED BY <3>1, <4>1, Zenon
    <3>7. ASSUME NEW i \in 1 .. Len(s), s[i] + Window >= clock + Delay
          PROVE  \E j \in 1 .. Len(g[k]) : g[k][j] = s[i]
      <4>1. s[i] + Window >= t BY <1>1, <2>3, <3>7
      <4>2. PICK j \in 1 .. Len(u) : u[j] = s[i] BY <3>2, <4>1 DEF Recalls
      <4>3. j \in 1 .. Len(g[k]) BY <3>4, <3>6
      <4>. QED BY <3>6, <4>2, <4>3
    <3>8. Len(g[k]) <= Len(s) + 1 BY <2>3, <3>4, <3>6
    <3>. QED BY <2>1, <2>4, <3>5, <3>6, <3>7, <3>8 DEF s
  <2>5. CASE k \notin keys
    <3>1. g[k] = s BY <2>5 DEF s, FailuresOf
    <3>. QED BY <2>1, <2>2, <2>3, <2>5, <3>1 DEF s
  <2>. QED BY <2>4, <2>5
<1>3. g = [k \in DOMAIN g |-> g[k]] /\ DOMAIN g = DOMAIN failures \cup keys OBVIOUS
<1>4. \A k \in DOMAIN failures : FailuresOf(k) = failures[k] BY DEF FailuresOf
<1>5. Remembers(g, failures, clock + Delay)
  <2> SUFFICES ASSUME NEW k \in DOMAIN failures, NEW i \in 1 .. Len(failures[k]),
                      failures[k][i] + Window >= clock + Delay
               PROVE  k \in DOMAIN g /\ \E j \in 1 .. Len(g[k]) : g[k][j] = failures[k][i]
    BY DEF Remembers
  <2>1. k \in DOMAIN g BY <1>3
  <2>2. FailuresOf(k) = failures[k] BY <1>4
  <2>3. \A n \in 1 .. Len(FailuresOf(k)) : FailuresOf(k)[n] + Window >= clock + Delay =>
          \E j \in 1 .. Len(g[k]) : g[k][j] = FailuresOf(k)[n]
    BY <1>2, <2>1, Zenon
  <2>4. \A n \in 1 .. Len(failures[k]) : failures[k][n] + Window >= clock + Delay =>
          \E j \in 1 .. Len(g[k]) : g[k][j] = failures[k][n]
    BY <2>2, <2>3, Zenon
  <2>. QED BY <2>1, <2>4, Zenon
<1>6. DOMAIN g \subseteq Buckets /\ g \in [DOMAIN g -> Seq(Nat)] BY <1>2, <1>3
<1>. QED BY <1>2, <1>5, <1>6 DEF Table, TableInOrder

\* What an outcome leaves of the invariant when it gives a reservation back.
LEMMA OutcomeKeeps ==
  ASSUME ThrottleInv, NEW a \in Attempts, attempt[a].stage \in {"verify", "failure"}, Done(a),
         reserved' = Releasing(BucketsOf(a)), clock' = clock, logins' = logins, sinceSweep' \in Nat,
         Table(failures)', TableInOrder(failures, clock)',
         DOMAIN failures' \subseteq DOMAIN failures \cup BucketsOf(a),
         \A k \in Buckets : /\ Len(FailuresOf(k))' \in Nat
                            /\ Len(FailuresOf(k))' <= Len(FailuresOf(k)) + IF k \in BucketsOf(a) THEN 1 ELSE 0
  PROVE  ThrottleInv' /\ CeilingStep
<1>1. ThrottleTypeOK /\ Finite /\ ReservationsExact /\ attempt \in [Attempts -> AttemptRecord]
  BY DEF ThrottleInv, ThrottleTypeOK
<1>2. /\ ReservationsExact' /\ \A k \in Buckets : IsFiniteSet(InFlight(k))'
      /\ DOMAIN reserved' \subseteq DOMAIN reserved /\ BucketsOf(a) \subseteq DOMAIN reserved
      /\ \A k \in Buckets : ReservedOf(k)' + (IF k \in BucketsOf(a) THEN 1 ELSE 0) = ReservedOf(k)
  BY <1>1, ReleasingCounts
<1>3. BucketsBounded' /\ IsFiniteSet(DOMAIN reserved)' /\ IsFiniteSet(DOMAIN failures)'
  BY <1>2, StaysBounded
<1>4. \A k \in Buckets : ReservedOf(k) \in Nat BY <1>1, ReservedIs
<1>5. ASSUME NEW k \in Buckets
      PROVE  ReservedOf(k)' \in Nat
  <2>1. CASE k \in DOMAIN reserved'
    <3>1. ReservedOf(k)' = Cardinality(InFlight(k))' BY <1>2, <2>1 DEF ReservedOf, ReservationsExact
    <3>. QED BY <1>2, <3>1, FS_CardinalityType
  <2>2. CASE k \notin DOMAIN reserved' BY <2>2 DEF ReservedOf
  <2>. QED BY <2>1, <2>2
<1>6. DOMAIN reserved' \subseteq Buckets /\ reserved' \in [DOMAIN reserved' -> Nat]
  <2>1. DOMAIN reserved' \subseteq Buckets BY <1>1, <1>2 DEF ThrottleTypeOK
  <2>2. \A k \in DOMAIN reserved' : reserved'[k] \in Nat
    BY <1>5, <2>1 DEF ReservedOf
  <2>3. reserved' = [k \in DOMAIN reserved' |-> reserved'[k]] BY DEF Releasing
  <2>. QED BY <2>1, <2>2, <2>3
<1>7. /\ attempt' \in [Attempts -> AttemptRecord]
      /\ attempt'[a] = Nobody /\ \A b \in Attempts : b # a => attempt'[b] = attempt[b]
  BY <1>1 DEF Done, Nobody, AttemptRecord
<1>8. ThrottleTypeOK'
  <2>1. \A b \in Attempts : attempt'[b].stage # "none" => attempt'[b].ip \in Addresses /\ attempt'[b].name \in Names
    BY <1>1, <1>7 DEF ThrottleTypeOK, Nobody
  <2>2. clock' \in Nat /\ logins' \in Nat BY <1>1 DEF ThrottleTypeOK
  <2>. QED BY <1>6, <1>7, <2>1, <2>2, Zenon DEF ThrottleTypeOK
<1>9. Punctual' BY <1>1, <1>7 DEF ThrottleInv, ThrottleTypeOK, Punctual, Nobody, Locking
<1>10. Finite' BY <1>2, <1>3 DEF Finite
<1>11. CeilingStep
  <2>1. \A k \in Buckets : Load(k)' <= Load(k)
    <3> SUFFICES ASSUME NEW k \in Buckets PROVE Load(k)' <= Load(k) OBVIOUS
    <3>1. FailuresOf(k) \in Seq(Nat) BY <1>1, EmptySeq DEF FailuresOf, ThrottleTypeOK, Table
    <3>2. Len(FailuresOf(k)) \in Nat BY <3>1
    <3>3. Load(k)' = Len(FailuresOf(k))' + ReservedOf(k)' /\ Load(k) = Len(FailuresOf(k)) + ReservedOf(k)
      BY DEF Load
    <3>. QED BY <1>2, <1>4, <1>5, <3>2, <3>3
  <2>. QED BY <1>5, <2>1, NothingGrows
<1>. QED BY <1>2, <1>3, <1>8, <1>9, <1>10, <1>11 DEF ThrottleInv

LEMMA RecordFailureStep ==
  ASSUME ThrottleInv, NEW a \in Attempts, RecordFailure(a)
  PROVE  ThrottleInv' /\ CeilingStep /\ AddressStep
<1> DEFINE t == attempt[a].at
           keys == BucketsOf(a)
           g == [k \in DOMAIN failures \cup keys |->
                  IF k \in keys THEN Append(Trimmed(FailuresOf(k), t), t) ELSE failures[k]]
<1>1. /\ attempt[a].stage = "failure" /\ clock' = clock /\ logins' = logins /\ Done(a)
      /\ reserved' = Releasing(keys) /\ failures' \in {g, Swept(g, reserved', t)}
  BY DEF RecordFailure, MaybeSweep
<1>2. ThrottleTypeOK /\ attempt \in [Attempts -> AttemptRecord] /\ sinceSweep \in Nat /\ clock \in Nat
  BY DEF ThrottleInv, ThrottleTypeOK
<1>3. t \in Nat /\ t <= clock /\ clock <= t + Delay
  BY <1>1, <1>2 DEF ThrottleInv, Punctual, AttemptRecord, Locking
<1>4. keys \subseteq Buckets BY <1>1, <1>2, BucketsOfAttempt
<1>5. sinceSweep' \in Nat BY <1>2 DEF RecordFailure, MaybeSweep
<1>6. DOMAIN g = DOMAIN failures \cup keys OBVIOUS
<1>7. /\ Table(g) /\ TableInOrder(g, clock) /\ Remembers(g, failures, clock + Delay)
      /\ \A k \in DOMAIN g : Len(g[k]) <= Len(FailuresOf(k)) + IF k \in keys THEN 1 ELSE 0
  <2>1. g = [k \in DOMAIN failures \cup keys |->
              IF k \in keys THEN Append(Trimmed(FailuresOf(k), t), t) ELSE failures[k]]
    OBVIOUS
  <2> HIDE DEF g, t, keys
  <2>. QED BY <1>3, <1>4, <2>1, RecordedTable
<1> HIDE DEF g, t, keys
<1>8. /\ Table(failures) /\ DOMAIN failures \subseteq DOMAIN g
  BY <1>2, <1>6 DEF ThrottleTypeOK
<1>9. Lesser(failures', g) /\ Remembers(failures', g, clock + Delay)
  <2>1. Lesser(g, g) /\ Remembers(g, g, clock + Delay) BY <1>7, LesserSelf
  <2>2. Lesser(Swept(g, reserved', t), g) /\ Remembers(Swept(g, reserved', t), g, clock + Delay)
    BY <1>2, <1>3, <1>7, SweepForgets
  <2>. QED BY <1>1, <2>1, <2>2
<1>10. Table(failures)' /\ TableInOrder(failures, clock)' /\ DOMAIN failures' \subseteq DOMAIN g
  <2>1. TableInOrder(failures', clock) BY <1>2, <1>7, <1>9, LesserInOrder
  <2>. QED BY <1>1, <1>9, <2>1 DEF Lesser, TableInOrder
<1>11. Remembers(failures', failures, clock + Delay)
  BY <1>7, <1>8, <1>9, <1>10 DEF Remembers
<1>12. AddressStep BY <1>8, <1>10, <1>11, RememberedAddresses
<1>13. ASSUME NEW k \in Buckets
       PROVE  /\ Len(FailuresOf(k))' \in Nat
              /\ Len(FailuresOf(k))' <= Len(FailuresOf(k)) + IF k \in keys THEN 1 ELSE 0
  <2>1. FailuresOf(k) \in Seq(Nat) /\ FailuresOf(k)' \in Seq(Nat)
    BY <1>8, <1>10, EmptySeq DEF FailuresOf, Table
  <2>2. Len(FailuresOf(k)) \in Nat /\ Len(FailuresOf(k)') \in Nat BY <2>1
  <2>3. CASE k \in DOMAIN failures'
    <3>1. k \in DOMAIN g /\ Suffix(failures'[k], g[k]) /\ g[k] \in Seq(Nat)
      BY <1>7, <1>9, <2>3 DEF Lesser, Table
    <3>2. PICK m \in 0 .. Len(g[k]) : Len(failures'[k]) = Len(g[k]) - m BY <3>1 DEF Suffix
    <3>3. Len(failures'[k]) <= Len(g[k]) /\ Len(g[k]) \in Nat BY <3>1, <3>2
    <3>4. Len(g[k]) <= Len(FailuresOf(k)) + IF k \in keys THEN 1 ELSE 0 BY <1>7, <3>1
    <3>5. FailuresOf(k)' = failures'[k] BY <2>3 DEF FailuresOf
    <3>. QED BY <2>2, <3>3, <3>4, <3>5
  <2>4. CASE k \notin DOMAIN failures'
    <3>1. Len(FailuresOf(k))' = 0 BY <2>4, EmptySeq DEF FailuresOf
    <3>. QED BY <2>2, <3>1
  <2>. QED BY <2>3, <2>4
<1>14. ThrottleInv' /\ CeilingStep
  BY <1>1, <1>5, <1>6, <1>10, <1>13, OutcomeKeeps DEF keys
<1>. QED BY <1>12, <1>14

LEMMA RecordSuccessStep ==
  ASSUME ThrottleInv, NEW a \in Attempts, RecordSuccess(a)
  PROVE  ThrottleInv' /\ CeilingStep /\ AddressStep
<1>1. /\ attempt[a].stage = "verify" /\ clock' = clock /\ logins' = logins /\ sinceSweep' = sinceSweep
      /\ Done(a) /\ reserved' = Releasing(BucketsOf(a))
      /\ DOMAIN failures' = DOMAIN failures \ Cleared(a)
      /\ \A k \in DOMAIN failures' : failures'[k] = failures[k]
      /\ failures' = [k \in DOMAIN failures' |-> failures'[k]]
  BY DEF RecordSuccess, Restrict
<1>2. Table(failures) /\ sinceSweep \in Nat BY DEF ThrottleInv, ThrottleTypeOK
<1>3. Lesser(failures', failures)
  <2>1. Lesser(failures, failures) BY <1>2, LesserSelf
  <2>2. DOMAIN failures' \subseteq Buckets /\ failures' \in [DOMAIN failures' -> Seq(Nat)]
    BY <1>1, <1>2 DEF Table
  <2>. QED BY <1>1, <2>1, <2>2 DEF Lesser, Table
<1>4. /\ Table(failures)' /\ TableInOrder(failures, clock)'
      /\ \A k : Len(FailuresOf(k)) \in Nat /\ Len(FailuresOf(k))' \in Nat
                /\ Len(FailuresOf(k))' <= Len(FailuresOf(k))
  BY <1>1, <1>3, ForgettingKeeps
<1>5. AddressStep
  <2>1. \A ip : FailuresOf(<<"ip", ip>>)' = FailuresOf(<<"ip", ip>>)
    BY <1>1 DEF FailuresOf, Cleared
  <2>. QED BY <2>1 DEF AddressStep, Survives
<1>6. \A k : Len(FailuresOf(k))' <= Len(FailuresOf(k)) + IF k \in BucketsOf(a) THEN 1 ELSE 0
  BY <1>4
<1>. QED BY <1>1, <1>2, <1>4, <1>5, <1>6, OutcomeKeeps

LEMMA CancelStep ==
  ASSUME ThrottleInv, NEW a \in Attempts, Cancel(a)
  PROVE  ThrottleInv' /\ CeilingStep /\ AddressStep
<1>1. /\ attempt[a].stage = "verify" /\ clock' = clock /\ logins' = logins /\ sinceSweep' = sinceSweep
      /\ Done(a) /\ reserved' = Releasing(BucketsOf(a)) /\ failures' = failures
  BY DEF Cancel
<1>2. Table(failures) /\ sinceSweep \in Nat BY DEF ThrottleInv, ThrottleTypeOK
<1>3. Lesser(failures', failures) BY <1>1, <1>2, LesserSelf
<1>4. /\ Table(failures)' /\ TableInOrder(failures, clock)'
      /\ \A k : Len(FailuresOf(k)) \in Nat /\ Len(FailuresOf(k))' \in Nat
                /\ Len(FailuresOf(k))' <= Len(FailuresOf(k))
  BY <1>1, <1>3, ForgettingKeeps
<1>5. AddressStep BY <1>1 DEF AddressStep, Survives, FailuresOf
<1>6. \A k : Len(FailuresOf(k))' <= Len(FailuresOf(k)) + IF k \in BucketsOf(a) THEN 1 ELSE 0
  BY <1>4
<1>. QED BY <1>1, <1>2, <1>3, <1>4, <1>5, <1>6, OutcomeKeeps DEF Lesser

\* Steps that leave the tables alone.
LEMMA TablesAlone ==
  ASSUME ThrottleInv, UNCHANGED <<failures, reserved>>,
         \A k \in Buckets : InFlight(k)' = InFlight(k), clock' \in Nat, clock' >= clock
  PROVE  /\ ReservationsExact' /\ BucketsBounded' /\ Finite' /\ TableInOrder(failures, clock)'
         /\ CeilingStep /\ AddressStep
<1>1. ReservationsExact' /\ BucketsBounded' /\ Finite'
  BY DEF ThrottleInv, ReservationsExact, BucketsBounded, Finite
<1>2. TableInOrder(failures, clock)'
  <2> SUFFICES ASSUME NEW k \in DOMAIN failures PROVE InOrder(failures[k], clock')
    BY DEF TableInOrder
  <2>1. InOrder(failures[k], clock) /\ clock \in Nat /\ \A i \in 1 .. Len(failures[k]) : failures[k][i] \in Nat
    BY DEF ThrottleInv, ThrottleTypeOK, Table, TableInOrder
  <2>. QED BY <2>1 DEF InOrder
<1>3. CeilingStep
  <2>1. \A k \in Buckets : Load(k)' = Load(k) /\ ReservedOf(k)' = ReservedOf(k) /\ FailuresOf(k)' = FailuresOf(k)
    BY DEF Load, ReservedOf, FailuresOf
  <2>2. ASSUME NEW k \in Buckets
        PROVE  /\ Len(FailuresOf(k))' \in Nat /\ ReservedOf(k)' \in Nat /\ Load(k)' <= Load(k)
    <3>1. FailuresOf(k) \in Seq(Nat) BY EmptySeq DEF FailuresOf, ThrottleInv, ThrottleTypeOK, Table
    <3>2. Len(FailuresOf(k)) \in Nat /\ ReservedOf(k) \in Nat BY <3>1, ReservedIs DEF ThrottleInv
    <3>3. Load(k) \in Nat BY <3>2 DEF Load
    <3>. QED BY <2>1, <3>2, <3>3
  <2>. QED BY <2>2, NothingGrows
<1>4. AddressStep BY DEF AddressStep, Survives, FailuresOf
<1>. QED BY <1>1, <1>2, <1>3, <1>4

LEMMA TickStep ==
  ASSUME ThrottleInv, Tick
  PROVE  ThrottleInv' /\ CeilingStep /\ AddressStep
<1>1. /\ clock \in Nat /\ clock' = clock + 1 /\ UNCHANGED <<failures, reserved, sinceSweep, attempt, logins>>
      /\ \A a \in Attempts : attempt[a].stage \in Locking => clock < attempt[a].at + Delay
      /\ ThrottleTypeOK /\ Delay \in Nat
  BY ThrottleAssumption DEF Tick, ThrottleInv, ThrottleTypeOK
<1>2. \A k \in Buckets : InFlight(k)' = InFlight(k) BY <1>1 DEF InFlight, BucketsOf
<1>3. ThrottleTypeOK'
  <2>1. clock' \in Nat BY <1>1
  <2>2. Table(failures)' BY <1>1 DEF ThrottleTypeOK, Table
  <2>. QED BY <1>1, <2>1, <2>2 DEF ThrottleTypeOK
<1>4. Punctual'
  <2> SUFFICES ASSUME NEW a \in Attempts
               PROVE  /\ attempt[a].at <= clock + 1
                      /\ attempt[a].stage \in Locking => clock + 1 <= attempt[a].at + Delay
    BY <1>1 DEF Punctual
  <2>1. attempt[a].at \in Nat BY <1>1 DEF ThrottleTypeOK, AttemptRecord
  <2>2. attempt[a].at <= clock BY DEF ThrottleInv, Punctual
  <2>. QED BY <1>1, <2>1, <2>2
<1>5. clock' \in Nat /\ clock' >= clock BY <1>1
<1>. QED BY <1>1, <1>2, <1>3, <1>4, <1>5, TablesAlone DEF ThrottleInv

LEMMA ArriveStep ==
  ASSUME ThrottleInv, NEW a \in Attempts, NEW ip \in Addresses, NEW name \in Names, Arrive(a, ip, name)
  PROVE  ThrottleInv' /\ CeilingStep /\ AddressStep
<1> DEFINE r == [stage |-> "begin", ip |-> ip, name |-> name, at |-> clock]
<1>1. /\ attempt[a].stage = "none" /\ attempt' = [attempt EXCEPT ![a] = r]
      /\ logins' = logins + 1 /\ UNCHANGED <<clock, failures, reserved, sinceSweep>>
  BY DEF Arrive
<1>2. /\ ThrottleTypeOK /\ Finite /\ ReservationsExact /\ clock \in Nat /\ Delay \in Nat
      /\ attempt \in [Attempts -> AttemptRecord]
  BY ThrottleAssumption DEF ThrottleInv, ThrottleTypeOK
<1>3. \A k \in Buckets : InFlight(k)' = InFlight(k)
  BY <1>1, <1>2, SameFlight
<1>4. /\ attempt' \in [Attempts -> AttemptRecord]
      /\ attempt'[a] = r /\ \A b \in Attempts : b # a => attempt'[b] = attempt[b]
  BY <1>1, <1>2 DEF AttemptRecord
<1>5. ThrottleTypeOK'
  <2>1. Table(failures)' BY <1>1, <1>2 DEF ThrottleTypeOK, Table
  <2>2. logins' \in Nat BY <1>1, <1>2 DEF ThrottleTypeOK
  <2>3. \A b \in Attempts : attempt'[b].stage # "none" => attempt'[b].ip \in Addresses /\ attempt'[b].name \in Names
    BY <1>2, <1>4 DEF ThrottleTypeOK
  <2>. QED BY <1>1, <1>2, <1>4, <2>1, <2>2, <2>3 DEF ThrottleTypeOK
<1>6. Punctual'
  <2> SUFFICES ASSUME NEW b \in Attempts
               PROVE  /\ attempt'[b].at <= clock
                      /\ attempt'[b].stage \in Locking => clock <= attempt'[b].at + Delay
    BY <1>1 DEF Punctual
  <2>1. CASE b = a BY <1>2, <1>4, <2>1
  <2>2. CASE b # a BY <1>4, <2>2 DEF ThrottleInv, Punctual
  <2>. QED BY <2>1, <2>2
<1>7. clock' \in Nat /\ clock' >= clock BY <1>1, <1>2
<1>. QED BY <1>1, <1>3, <1>5, <1>6, <1>7, TablesAlone DEF ThrottleInv

LEMMA FailedStep ==
  ASSUME ThrottleInv, NEW a \in Attempts, Failed(a)
  PROVE  ThrottleInv' /\ CeilingStep /\ AddressStep
<1> DEFINE r == [attempt[a] EXCEPT !.stage = "failure", !.at = clock]
<1>1. /\ attempt[a].stage = "verify" /\ attempt' = [attempt EXCEPT ![a] = r]
      /\ UNCHANGED <<clock, failures, reserved, sinceSweep, logins>>
  BY DEF Failed
<1>2. /\ ThrottleTypeOK /\ Finite /\ ReservationsExact /\ clock \in Nat /\ Delay \in Nat
      /\ attempt \in [Attempts -> AttemptRecord]
  BY ThrottleAssumption DEF ThrottleInv, ThrottleTypeOK
<1>3. r.stage = "failure" /\ r.ip = attempt[a].ip /\ r.name = attempt[a].name /\ r.at = clock
      /\ r \in AttemptRecord
  BY <1>2 DEF AttemptRecord
<1> HIDE DEF r
<1>4. \A k \in Buckets : InFlight(k)' = InFlight(k)
  BY <1>1, <1>2, <1>3, SameFlight
<1>5. /\ attempt' \in [Attempts -> AttemptRecord]
      /\ attempt'[a] = r /\ \A b \in Attempts : b # a => attempt'[b] = attempt[b]
  BY <1>1, <1>2, <1>3
<1>6. ThrottleTypeOK'
  <2>1. Table(failures)' BY <1>1, <1>2 DEF ThrottleTypeOK, Table
  <2>2. \A b \in Attempts : attempt'[b].stage # "none" => attempt'[b].ip \in Addresses /\ attempt'[b].name \in Names
    BY <1>1, <1>2, <1>3, <1>5 DEF ThrottleTypeOK
  <2>. QED BY <1>1, <1>2, <1>5, <2>1, <2>2 DEF ThrottleTypeOK
<1>7. Punctual'
  <2> SUFFICES ASSUME NEW b \in Attempts
               PROVE  /\ attempt'[b].at <= clock
                      /\ attempt'[b].stage \in Locking => clock <= attempt'[b].at + Delay
    BY <1>1 DEF Punctual
  <2>1. CASE b = a BY <1>2, <1>3, <1>5, <2>1
  <2>2. CASE b # a BY <1>5, <2>2 DEF ThrottleInv, Punctual
  <2>. QED BY <2>1, <2>2
<1>8. clock' \in Nat /\ clock' >= clock BY <1>1, <1>2
<1>. QED BY <1>1, <1>4, <1>6, <1>7, <1>8, TablesAlone DEF ThrottleInv

LEMMA ThrottleStep ==
  ASSUME ThrottleInv, [ThrottleNext]_throttleVars
  PROVE  ThrottleInv' /\ CeilingStep /\ AddressStep
<1>1. CASE Tick BY <1>1, TickStep
<1>2. ASSUME NEW a \in Attempts, NEW ip \in Addresses, NEW name \in Names, Arrive(a, ip, name)
      PROVE  ThrottleInv' /\ CeilingStep /\ AddressStep
  BY <1>2, ArriveStep
<1>3. ASSUME NEW a \in Attempts,
             Begin(a) \/ Failed(a) \/ RecordFailure(a) \/ RecordSuccess(a) \/ Cancel(a)
      PROVE  ThrottleInv' /\ CeilingStep /\ AddressStep
  BY <1>3, BeginStep, FailedStep, RecordFailureStep, RecordSuccessStep, CancelStep
<1>4. CASE UNCHANGED throttleVars
  <2>1. /\ UNCHANGED <<clock, failures, reserved, sinceSweep, attempt, logins>>
        /\ ThrottleTypeOK /\ clock \in Nat
    BY <1>4 DEF throttleVars, ThrottleInv, ThrottleTypeOK
  <2>2. \A k \in Buckets : InFlight(k)' = InFlight(k) BY <2>1 DEF InFlight, BucketsOf
  <2>3. ThrottleTypeOK' BY <2>1 DEF ThrottleTypeOK, Table
  <2>4. Punctual' BY <2>1 DEF ThrottleInv, Punctual
  <2>5. clock' \in Nat /\ clock' >= clock BY <2>1
  <2>. QED BY <2>1, <2>2, <2>3, <2>4, <2>5, TablesAlone DEF ThrottleInv
<1>. QED BY <1>1, <1>2, <1>3, <1>4 DEF ThrottleNext

LEMMA ThrottleStarts == ThrottleInit => ThrottleInv
<1> SUFFICES ASSUME ThrottleInit PROVE ThrottleInv OBVIOUS
<1>1. DOMAIN failures = {} /\ DOMAIN reserved = {} /\ failures \in [{} -> Seq(Nat)] /\ reserved \in [{} -> Nat]
  BY DEF ThrottleInit
<1>2. attempt \in [Attempts -> AttemptRecord] /\ \A a \in Attempts : attempt[a] = Nobody
  BY DEF ThrottleInit, Nobody, AttemptRecord
<1>3. ThrottleTypeOK BY <1>1, <1>2 DEF ThrottleInit, ThrottleTypeOK, Table, Nobody
<1>4. \A k \in Buckets : InFlight(k) = {} BY <1>2 DEF InFlight, Nobody
<1>5. Punctual BY <1>2 DEF Punctual, ThrottleInit, Nobody, Locking
<1>6. Finite BY <1>1, <1>4, FS_EmptySet DEF Finite
<1>7. ReservationsExact BY <1>1, <1>4 DEF ReservationsExact
<1>8. BucketsBounded
  <2>1. DOMAIN failures \cup DOMAIN reserved = {} BY <1>1
  <2>. QED BY <2>1, FS_EmptySet, ThrottleAssumption DEF BucketsBounded
<1>9. TableInOrder(failures, clock) BY <1>1 DEF TableInOrder
<1>. QED BY <1>3, <1>5, <1>6, <1>7, <1>8, <1>9 DEF ThrottleInv

-----------------------------------------------------------------------------
(* The theorems.                                                           *)

\* The inductive invariant: the failures of a bucket are in order up to what a
\* thread may wait for the lock, which is why a sweep may judge a bucket by its
\* last failure, and every reservation is an attempt in flight.
THEOREM ThrottleKeepsItsBooks == ThrottleSpec => []ThrottleInv
<1>1. ThrottleInv /\ [ThrottleNext]_throttleVars => ThrottleInv' BY ThrottleStep
<1>. QED BY <1>1, ThrottleStarts, PTL DEF ThrottleSpec

\* LoginThrottle (web/rate_limit.py) counts what it admitted exactly, within
\* its cap and its ceilings, and forgets an address by age alone.
THEOREM ThrottleHolds == ThrottleSpec => ThrottleSound
<1>1. ThrottleInv /\ [ThrottleNext]_throttleVars => [CeilingStep]_throttleVars /\ [AddressStep]_throttleVars
  BY ThrottleStep
<1>2. ThrottleInv => ReservationsExact /\ BucketsBounded BY DEF ThrottleInv
<1>. QED BY <1>1, <1>2, ThrottleKeepsItsBooks, PTL
     DEF ThrottleSpec, ThrottleSound, CeilingKept, AddressRemembered
================================================================================
