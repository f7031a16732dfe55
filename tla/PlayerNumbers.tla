------------------------------ MODULE PlayerNumbers ------------------------------
(***************************************************************************)
(* The numbers of a team's players: the jersey its active players wear, and *)
(* the registration number all of them keep.  Single calls ask whether the  *)
(* number is free on the team; the two spreadsheet imports plan the numbers *)
(* every player will have, refuse a plan with a clash, and then write row   *)
(* after row under the same question, so that a swap needs its numbers      *)
(* released first (services/setup_service.py, hierarchy_import.py and       *)
(* import_validator.py).  One kind of number is followed at a time.         *)
(*                                                                         *)
(* The hierarchy import plans inside the transaction that applies the rows; *)
(* the teams import plans before it opens one, so single calls may come in  *)
(* between, and a row refused then takes the whole import back.             *)
(***************************************************************************)
EXTENDS Naturals, Sequences

CONSTANTS
  Players, Teams, Numbers,
  None,      \* no team: not a player yet; no number; a blank cell
  Uploads    \* sequences of rows [player, team, number], a player in at most one

VARIABLES
  kind,      \* "jersey" or "registration"
  team, active, number,
  import,    \* the import being checked or applied, or the last one
  before     \* what its transaction began from: [team, active, number]

playerTable == <<team, active, number>>
numberVars == <<kind, playerTable, import, before>>

NoImport == [stage |-> "none", path |-> "none", rows |-> <<>>, at |-> 1, released |-> <<>>]

\* Who must not share a number with a teammate: an active player, or anyone.
Enforced(p) == kind = "registration" \/ active[p]
Holds(p) == team[p] # None /\ number[p] # None /\ Enforced(p)
Available(p, t, n) == \A q \in Players \ {p} : ~(Holds(q) /\ team[q] = t /\ number[q] = n)

NumbersInit ==
  /\ kind \in {"jersey", "registration"}
  /\ team = [p \in Players |-> None]
  /\ active = [p \in Players |-> TRUE]
  /\ number = [p \in Players |-> None]
  /\ import = NoImport
  /\ before = [team |-> team, active |-> active, number |-> number]

-----------------------------------------------------------------------------
(* Single calls, each one transaction *)

AddPlayer(p, t, n, a) ==
  /\ team[p] = None
  /\ kind = "registration" \/ a => Available(p, t, n)
  /\ team' = [team EXCEPT ![p] = t]
  /\ active' = [active EXCEPT ![p] = a]
  /\ number' = [number EXCEPT ![p] = n]

UpdatePlayer(p, n) ==
  /\ team[p] # None /\ number[p] # n
  /\ Enforced(p) => Available(p, team[p], n)
  /\ number' = [number EXCEPT ![p] = n]
  /\ UNCHANGED <<team, active>>

\* Coming back asks for the jersey again; the registration number never left.
Returns(p) == kind = "jersey" => Available(p, team[p], number[p])
SetPlayerActive(p) ==
  /\ team[p] # None
  /\ ~active[p] => Returns(p)
  /\ active' = [active EXCEPT ![p] = ~active[p]]
  /\ UNCHANGED <<team, number>>

AssignPlayerTeam(p, t) ==
  /\ team[p] # None
  /\ Enforced(p) => Available(p, t, number[p])
  /\ team' = [team EXCEPT ![p] = t]
  /\ UNCHANGED <<active, number>>

SingleCall ==
  /\ import.stage # "applying"
  /\ \E p \in Players :
       \/ \E t \in Teams, n \in Numbers \cup {None}, a \in BOOLEAN : AddPlayer(p, t, n, a)
       \/ \E n \in Numbers \cup {None} : UpdatePlayer(p, n)
       \/ SetPlayerActive(p)
       \/ \E t \in Teams : AssignPlayerTeam(p, t)
  /\ UNCHANGED <<kind, import, before>>

-----------------------------------------------------------------------------
(* Planning an import *)

InSheet(rows) == {rows[i].player : i \in DOMAIN rows}

\* The number a row leaves its player with: a blank cell keeps the one they have.
Effective(row) == IF row.number # None THEN row.number ELSE number[row.player]

\* A row for an inactive player claims no jersey: an import never reactivates.
Claims(row) == Effective(row) # None /\ (team[row.player] = None \/ Enforced(row.player))

PlanHolds(rows) == \A i \in DOMAIN rows : Claims(rows[i]) =>
  /\ \A j \in DOMAIN rows \ {i} : Claims(rows[j]) =>
       <<rows[i].team, Effective(rows[i])>> # <<rows[j].team, Effective(rows[j])>>
  /\ \A q \in Players \ InSheet(rows) : Holds(q) =>
       <<rows[i].team, Effective(rows[i])>> # <<team[q], number[q]>>

-----------------------------------------------------------------------------
(* Applying it, row after row *)

\* Every number that is about to move is set aside first; one that stays put is
\* left where it is.
Moving(rows) == {p \in InSheet(rows) : \E i \in DOMAIN rows :
  rows[i].player = p /\ Holds(p) /\ <<team[p], number[p]>> # <<rows[i].team, Effective(rows[i])>>}

Begin(path, rows) ==
  /\ before' = [team |-> team, active |-> active, number |-> number]
  /\ number' = [p \in Players |-> IF p \in Moving(rows) THEN None ELSE number[p]]
  /\ import' = [stage |-> "applying", path |-> path, rows |-> rows, at |-> 1,
                released |-> [p \in Moving(rows) |-> number[p]]]
  /\ UNCHANGED <<kind, team, active>>

CommitHierarchyImport(rows) ==
  import.stage \notin {"checked", "applying"} /\ PlanHolds(rows) /\ Begin("hierarchy", rows)

CheckTeamsImport(rows) ==
  /\ import.stage \notin {"checked", "applying"} /\ PlanHolds(rows)
  /\ import' = [NoImport EXCEPT !.stage = "checked", !.path = "teams", !.rows = rows]
  /\ UNCHANGED <<kind, playerTable, before>>

CommitTeamsImport == import.stage = "checked" /\ Begin("teams", import.rows)

\* What the row leaves the player with: its own cell, or the number set aside.
Target(row) == IF row.number = None /\ row.player \in DOMAIN import.released
               THEN import.released[row.player] ELSE Effective(row)
RowFits(row) ==
  team[row.player] = None \/ Enforced(row.player)
    => Available(row.player, row.team, Target(row))

ApplyRow ==
  LET row == import.rows[import.at] IN
  /\ import.stage = "applying" /\ import.at <= Len(import.rows) /\ RowFits(row)
  /\ team' = [team EXCEPT ![row.player] = row.team]
  /\ number' = [number EXCEPT ![row.player] = Target(row)]
  /\ import' = [import EXCEPT !.at = @ + 1]
  /\ UNCHANGED <<kind, active, before>>

\* A row refused undoes the transaction.
RefuseRow ==
  /\ import.stage = "applying" /\ import.at <= Len(import.rows)
  /\ ~RowFits(import.rows[import.at])
  /\ team' = before.team /\ active' = before.active /\ number' = before.number
  /\ import' = [import EXCEPT !.stage = "refused"]
  /\ UNCHANGED <<kind, before>>

Land ==
  /\ import.stage = "applying" /\ import.at > Len(import.rows)
  /\ import' = [import EXCEPT !.stage = "landed"]
  /\ UNCHANGED <<kind, playerTable, before>>

NumbersNext ==
  \/ SingleCall
  \/ \E rows \in Uploads : CommitHierarchyImport(rows) \/ CheckTeamsImport(rows)
  \/ CommitTeamsImport \/ ApplyRow \/ RefuseRow \/ Land

-----------------------------------------------------------------------------
(* Properties *)

\* Two players of a team never hold the same number, not even between two rows
\* of an import: the unique indexes ask after every statement.
NumbersUnique == \A p, q \in Players :
  p # q /\ Holds(p) /\ Holds(q) /\ team[p] = team[q] => number[p] # number[q]

\* A plan without a clash is applied without one, whatever the order of the
\* rows: only calls made since the plan can make a row be refused.
PlansLand == import.stage = "refused" => import.path = "teams"

\* An import about to land leaves every player of the sheet on the row's team,
\* with the row's number or, where the cell is blank, the one they had.
BlanksKept == import.stage = "applying" /\ import.at > Len(import.rows) =>
  \A i \in DOMAIN import.rows :
    LET row == import.rows[i]
    IN /\ team[row.player] = row.team
       /\ number[row.player] = IF row.number = None THEN before.number[row.player] ELSE row.number

NumbersSound == NumbersUnique /\ PlansLand /\ BlanksKept
================================================================================
