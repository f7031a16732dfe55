-------------------------------- MODULE CopyForward --------------------------------
(***************************************************************************)
(* A new season made from an old one: an operator reviews which teams come *)
(* along, then commits the review by its fingerprint.  The commit creates  *)
(* the season, registers the teams and writes one ledger row, in a single  *)
(* transaction behind the teams' row locks, so it is one action.  What it  *)
(* guards against is the answer that gets lost: the same operator sends    *)
(* the same commit again, at once or after the old season, the teams or    *)
(* the new season have changed.                                            *)
(*                                                                         *)
(* A plan is what the fingerprint covers: the old season and the league of *)
(* each selected team.  Names and dates are left out.                      *)
(***************************************************************************)
EXTENDS Participation

CONSTANTS Operators

VARIABLES
  reviewed,  \* <<operator, plan>>: previews on record
  ledger,    \* committed copies: [plan, actor, season]
  made,      \* <<plan, season>>: seasons the commits created (history)
  answers    \* [plan, actor, season] of the successful answers (history)

copyVars == <<reviewed, ledger, made, answers>>

Plans == UNION {[from : Seasons, leagues : [chosen -> Leagues]] : chosen \in SUBSET Teams \ {{}}}

CopyForwardInit ==
  reviewed = {} /\ ledger = {} /\ made = {} /\ answers = {}

\* The plan as the records stand: the teams still play the old season, and each
\* still belongs to the league it was selected for.
Holds(plan) ==
  /\ plan.from \in seasons
  /\ DOMAIN plan.leagues \subseteq RegisteredTeams(plan.from)
  /\ \A t \in DOMAIN plan.leagues : leagueOf[t] = plan.leagues[t]

Preview(o, plan) ==
  /\ Holds(plan) /\ reviewed' = reviewed \cup {<<o, plan>>}
  /\ UNCHANGED <<tables, ledger, made, answers>>

Entries(o, plan) == {e \in ledger : e.plan = plan /\ e.actor = o}

\* The same request again: the recorded answer, whatever has changed since.
Replay(o, plan) ==
  /\ \E e \in Entries(o, plan) : answers' = answers \cup {e}
  /\ UNCHANGED <<tables, reviewed, ledger, made>>

\* Another operator's commit of the same plan has no answer of its own.
Unspent(o, plan) == \A e \in ledger : e.plan # plan

Commit(o, plan, s) ==
  LET chosen == DOMAIN plan.leagues IN
  /\ Entries(o, plan) = {} /\ Unspent(o, plan)
  /\ Holds(plan) /\ <<o, plan>> \in reviewed
  /\ s \notin seasons /\ seasons' = seasons \cup {s}
  /\ bound' = bound \cup {<<plan.leagues[t], s>> : t \in chosen}
  /\ reg' = [k \in Keys |-> IF k[3] = s /\ k[1] \in chosen /\ k[2] = plan.leagues[k[1]]
                            THEN Row("active", Nowhere) ELSE reg[k]]
  /\ ledger' = ledger \cup {[plan |-> plan, actor |-> o, season |-> s]}
  /\ made' = made \cup {<<plan, s>>}
  /\ answers' = answers \cup {[plan |-> plan, actor |-> o, season |-> s]}
  /\ UNCHANGED <<archived, leagueOf, divisionOf, playerVars, playing, rebound, reviewed>>

\* A season with a ledger row is not deleted.
LedgerKept_Unasked == TRUE
LedgerKept == \A e \in ledger : e.season \in seasons'

CopyForwardCall ==
  \E o \in Operators, plan \in Plans :
    Preview(o, plan) \/ Replay(o, plan) \/ \E s \in Seasons : Commit(o, plan, s)

CopyForwardNext ==
  \/ CopyForwardCall
  \/ ParticipationNext /\ LedgerKept /\ UNCHANGED copyVars

CopyForwardSpec ==
  ParticipationInit /\ CopyForwardInit /\ [][CopyForwardNext]_<<tables, copyVars>>

-----------------------------------------------------------------------------
\* However often a reviewed copy is committed, one season comes of it: every
\* answer its operator gets names that season, which still exists.
OneSeasonPerReview ==
  /\ \A m, n \in made : m[1] = n[1] => m = n
  /\ \A a, b \in answers : a.plan = b.plan => a = b
  /\ \A a \in answers : a.season \in seasons
================================================================================
