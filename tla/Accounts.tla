------------------------------- MODULE Accounts --------------------------------
(***************************************************************************)
(* Logins and the people and teams they act for, every call atomic:        *)
(* services/account_service.py, and of services/setup_service.py the calls *)
(* that activate, deactivate or delete what an account is bound to.        *)
(*                                                                         *)
(* A subject is a Player or a Team; an Official is bound, locked and       *)
(* deleted like a Player but is never deactivated.  A refused call writes  *)
(* nothing and is left out.  A definition named X_... is a seeded mistake. *)
(***************************************************************************)
EXTENDS FiniteSets

CONSTANTS Users, Players, Teams, NoSubject

ASSUME AccountsAssumption ==
  /\ Players \cap Teams = {}
  /\ NoSubject \notin Players \cup Teams

VARIABLES
  account,   \* user -> [life, role, subject], life is none, active or inactive
  standing,  \* subject -> active, inactive or gone
  claimed    \* the InstallationState row exists

books == <<account, standing, claimed>>

Subjects == Players \cup Teams
RoleOf(x) == IF x \in Players THEN "player" ELSE IF x \in Teams THEN "coach" ELSE "admin"
NoAccount == [life |-> "none", role |-> "admin", subject |-> NoSubject]
Account(life, role, x) == [life |-> life, role |-> role, subject |-> x]
Exists(u) == account[u].life # "none"
Active(u) == account[u].life = "active"

\* _validate_scope_subjects, _lock_and_validate_reactivation_subject: the role
\* takes exactly this kind of subject, it exists, a Player is active.
Bindable_WhileListed(role, x) == RoleOf(x) = role /\ (x \in Subjects => standing[x] # "gone")
Bindable(role, x) == RoleOf(x) = role /\ (x \in Subjects => standing[x] = "active")

SetAccount(u, row) == account' = [account EXCEPT ![u] = row]

-----------------------------------------------------------------------------

Create(u, x) ==
  /\ claimed /\ ~Exists(u) /\ Bindable(RoleOf(x), x)
  /\ SetAccount(u, Account("active", RoleOf(x), x))
  /\ UNCHANGED <<standing, claimed>>

\* create_first_admin_if_unclaimed
Claim(u) ==
  /\ ~claimed /\ \A v \in Users : ~Exists(v)
  /\ SetAccount(u, Account("active", "admin", NoSubject))
  /\ claimed' = TRUE
  /\ UNCHANGED standing

Activate(u) ==
  /\ Exists(u) /\ Bindable(account[u].role, account[u].subject)
  /\ SetAccount(u, Account("active", account[u].role, account[u].subject))
  /\ UNCHANGED <<standing, claimed>>

Deactivate(u) ==
  /\ Exists(u)
  /\ SetAccount(u, Account("inactive", account[u].role, account[u].subject))
  /\ UNCHANGED <<standing, claimed>>

Rebind(u, x) ==
  /\ Exists(u) /\ Bindable(account[u].role, x)
  /\ SetAccount(u, Account(account[u].life, account[u].role, x))
  /\ UNCHANGED <<standing, claimed>>

\* _retire_player_account_authority
Bound(p) == {u \in Users : Active(u) /\ account[u].subject = p}
Retire(users) == account' = [u \in Users |->
  IF u \in users THEN Account("inactive", account[u].role, account[u].subject) ELSE account[u]]

SetPlayerActive(p, active) ==
  /\ standing[p] # "gone"
  /\ Retire(IF ~active \/ standing[p] = "inactive" THEN Bound(p) ELSE {})
  /\ standing' = [standing EXCEPT ![p] = IF active THEN "active" ELSE "inactive"]
  /\ UNCHANGED claimed

\* An account that is not active still blocks the deletion of its Team, but
\* not that of its Player.
Blocks(u, x) == account[u].subject = x /\ IF x \in Teams THEN Exists(u) ELSE Active(u)
Delete(x) ==
  /\ standing[x] # "gone" /\ \A u \in Users : ~Blocks(u, x)
  /\ standing' = [standing EXCEPT ![x] = "gone"]
  /\ UNCHANGED <<account, claimed>>

AccountsInit ==
  \/ /\ account = [u \in Users |-> NoAccount] /\ claimed = FALSE
     /\ standing = [x \in Subjects |-> "active"]
  \/ /\ claimed = TRUE
     /\ standing \in [Subjects -> {"active", "inactive", "gone"}]
     /\ \A x \in Teams : standing[x] # "inactive"
     /\ account \in [Users -> {NoAccount} \cup
          {Account(l, RoleOf(x), x) : l \in {"active", "inactive"}, x \in Subjects}]
     /\ \A u \in Users : Active(u) => standing[account[u].subject] = "active"

AccountsNext ==
  \/ \E u \in Users :
       \/ Claim(u) \/ Activate(u) \/ Deactivate(u)
       \/ \E x \in Subjects : Create(u, x) \/ Rebind(u, x)
  \/ \E p \in Players, active \in BOOLEAN : SetPlayerActive(p, active)
  \/ \E x \in Subjects : Delete(x)

AccountsSpec == AccountsInit /\ [][AccountsNext]_books

-----------------------------------------------------------------------------

AccountsTypeOK ==
  /\ account \in [Users -> [life : {"none", "active", "inactive"},
                            role : {"player", "coach", "admin"},
                            subject : Subjects \cup {NoSubject}]]
  /\ standing \in [Subjects -> {"active", "inactive", "gone"}]
  /\ claimed \in BOOLEAN

\* A login never outlives whom it acts for: the subject of an active account
\* exists and, if it is a Player, is active, whatever calls met.
LoginsBacked == \A u \in Users :
  Active(u) /\ account[u].role # "admin" =>
    account[u].subject \in Subjects /\ standing[account[u].subject] = "active"
================================================================================
