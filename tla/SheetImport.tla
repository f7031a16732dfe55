-------------------------------- MODULE SheetImport --------------------------------
(***************************************************************************)
(* Setup by spreadsheet: the two imports that write what Participation     *)
(* keeps (services/hierarchy_import.py and                                 *)
(* SetupService.commit_teams_players_import).  Each validates its rows,    *)
(* looks for moves that would leave something behind, and then applies     *)
(* every row or none, in one transaction whose refusal rolls it back; so a *)
(* commit is one action.  What is hard is that the checks read the tables  *)
(* before the first row is applied, while the rows move teams, divisions   *)
(* and registrations by rules that the single calls enforce one by one.    *)
(*                                                                         *)
(* Records are known by their codes; names, organizations, venues, rinks   *)
(* and clubs are left out, as are rows with cells that do not parse.       *)
(***************************************************************************)
EXTENDS Participation

CONSTANTS
  Sheets,       \* the uploads: [links, divisions, teams, players, entries]
  TeamSheets    \* the uploads to one season: [teams, players]

\* Rows say each thing once and name what the program's records may be.
ASSUME SheetsAssumption ==
  /\ \A sheet \in Sheets :
       /\ sheet.links \subseteq Leagues \X Seasons
       /\ DOMAIN sheet.divisions \subseteq Divisions
       /\ \A d \in DOMAIN sheet.divisions : sheet.divisions[d] \in Leagues \X Seasons
       /\ DOMAIN sheet.teams \subseteq Teams
       /\ \A t \in DOMAIN sheet.teams : sheet.teams[t] \in Leagues
       /\ DOMAIN sheet.players \subseteq Players
       /\ \A p \in DOMAIN sheet.players : sheet.players[p] \in Teams
       /\ DOMAIN sheet.entries \subseteq Teams \X Seasons
       /\ \A e \in DOMAIN sheet.entries :
            sheet.entries[e] \in [league : Leagues, division : Divisions \cup {Nowhere}]
  /\ \A sheet \in TeamSheets :
       /\ DOMAIN sheet.teams \subseteq Teams
       /\ \A t \in DOMAIN sheet.teams : sheet.teams[t] \in Divisions \cup {Nowhere}
       /\ DOMAIN sheet.players \subseteq Players
       /\ \A p \in DOMAIN sheet.players : sheet.players[p] \in Teams

VARIABLES
  lastImport    \* the upload just committed, NoSheet after any other call (history)

NoSheet == [links |-> {}, divisions |-> <<>>, teams |-> <<>>, players |-> <<>>, entries |-> <<>>]

ImportInit == lastImport = NoSheet

\* The competition rows: leagues with a season, and divisions with theirs.
Competition(sheet) == sheet.links \cup {sheet.divisions[d] : d \in DOMAIN sheet.divisions}

\* What a code stands for once the sheet is applied.
LeagueOnceIn(sheet, t) == IF t \in DOMAIN sheet.teams THEN sheet.teams[t] ELSE leagueOf[t]
DivisionOnceIn(sheet, d) ==
  IF d \in DOMAIN sheet.divisions THEN sheet.divisions[d] ELSE divisionOf[d]

\* A registration row names a league of its season, the team's own, and a
\* division of that league: in which season, nobody asks.
Valid(sheet) ==
  \A t \in Teams, s \in Seasons : <<t, s>> \in DOMAIN sheet.entries =>
    LET l == sheet.entries[<<t, s>>].league
        d == sheet.entries[<<t, s>>].division
    IN /\ <<l, s>> \in bound \cup Competition(sheet)
       /\ l = LeagueOnceIn(sheet, t)
       /\ d # Nowhere => DivisionOnceIn(sheet, d) \in {l} \X Seasons

\* The rows of a registration table that an entry at league l meets: the row at
\* its own key, and the team's active rows elsewhere.  More than one is refused.
Met(table, t, l, s) ==
  {m \in Leagues : table[<<t, m, s>>].state = "active" \/ (m = l /\ table[<<t, m, s>>].state # "none")}

\* Blank cells read as "" and no division as None: a row without a division
\* counts as moved even when the registration has none.
DivisionMoves(t, m, s, d) == d = Nowhere \/ reg[<<t, m, s>>].division # d

SafeTransfers(sheet) ==
  \A t \in DOMAIN sheet.teams, l \in Leagues, s \in Seasons \ Ended :
    leagueOf[t] # sheet.teams[t] /\ l # sheet.teams[t] /\ Registered(t, l, s) => ~PlaysIn(t, s)


SafeEntries(sheet) ==
  \A t \in Teams, s \in seasons : <<t, s>> \in DOMAIN sheet.entries =>
    LET l == sheet.entries[<<t, s>>].league
    IN /\ Cardinality(Met(reg, t, l, s)) <= 1
       /\ \A m \in Met(reg, t, l, s) :
            m # l \/ DivisionMoves(t, m, s, sheet.entries[<<t, s>>].division) => ~PlaysIn(t, s)

\* A division may change its season only while nothing was ever placed in it;
\* its league, always.
SafeDivisions(sheet) ==
  \A d \in DOMAIN sheet.divisions :
    divisionOf[d] # Nowhere /\ divisionOf[d][2] # sheet.divisions[d][2] =>
      \A k \in Keys : reg[k].division # d /\ \A g \in playing[k] : g[2] # d

\* What the calls that apply the rows refuse themselves.
Applicable(sheet) ==
  /\ \A b \in Competition(sheet) : b[2] \notin archived
  /\ \A t \in DOMAIN sheet.teams : leagueOf[t] = sheet.teams[t] \/ MayTransfer(t, sheet.teams[t])
  /\ \A e \in DOMAIN sheet.entries : e[2] \notin archived

Accepted(sheet) ==
  /\ Valid(sheet)
  /\ SafeTransfers(sheet) /\ SafeEntries(sheet) /\ SafeDivisions(sheet)
  /\ Applicable(sheet)

-----------------------------------------------------------------------------
(* Applying the rows: teams first, then registrations *)

\* The registration at key k after a row for its team and season, at league l
\* with division d: the row it meets is taken along, or a new one made.
Entered(table, k, l, d) ==
  IF k[2] = l THEN Row("active", d)
  ELSE IF table[<<k[1], l, k[3]>>].state = "none" /\ k[2] \in Met(table, k[1], l, k[3]) THEN NoRow
  ELSE table[k]

Transferred(sheet) ==
  [k \in Keys |-> IF k[1] \in DOMAIN sheet.teams /\ sheet.teams[k[1]] # leagueOf[k[1]]
                  THEN TransferredRow(k, sheet.teams[k[1]]) ELSE reg[k]]

\* Registrations a row takes along from under open memberships.
Uprooted(table, t, l, s) ==
  table[<<t, l, s>>].state = "none" /\ \E m \in Met(table, t, l, s) : Open(t, m, s) # {}

Enter(table, entries) ==
  /\ reg' = [k \in Keys |->
       IF <<k[1], k[3]>> \in DOMAIN entries
       THEN Entered(table, k, entries[<<k[1], k[3]>>].league, entries[<<k[1], k[3]>>].division)
       ELSE table[k]]
  /\ rebound' = rebound \cup {e \in DOMAIN entries : Uprooted(table, e[1], entries[e].league, e[2])}

\* A player of the sheet joins the team, with no membership.
Join(rows) ==
  /\ teamOf' = [p \in Players |-> IF p \in DOMAIN rows THEN rows[p] ELSE teamOf[p]]
  /\ UNCHANGED <<membership, parked>>

ImportHierarchy(sheet) ==
  /\ Accepted(sheet)
  /\ \A e \in DOMAIN sheet.entries :
       Cardinality(Met(Transferred(sheet), e[1], sheet.entries[e].league, e[2])) <= 1
  /\ seasons' = seasons \cup {b[2] : b \in Competition(sheet)}
  /\ leagueOf' = [t \in Teams |-> LeagueOnceIn(sheet, t)]
  /\ divisionOf' = [d \in Divisions |-> DivisionOnceIn(sheet, d)]
  /\ bound' = bound \cup Competition(sheet)
       \cup {<<sheet.entries[e].league, e[2]>> : e \in DOMAIN sheet.entries}
       \cup UNION {{<<sheet.teams[t], k[3]>> : k \in Transferable(t, sheet.teams[t])} :
                     t \in {u \in DOMAIN sheet.teams : leagueOf[u] # sheet.teams[u]}}
  /\ Enter(Transferred(sheet), sheet.entries)
  /\ Join(sheet.players)
  /\ lastImport' = sheet
  /\ UNCHANGED <<archived, playing>>

-----------------------------------------------------------------------------
(* Teams and players of one season *)

\* A division the upload makes is wanted in one league, whichever row comes first.
NewDivisionsAgree(rows) ==
  \A t, u \in DOMAIN rows :
    rows[t] # Nowhere /\ divisionOf[rows[t]] = Nowhere /\ rows[u] = rows[t] => leagueOf[u] = leagueOf[t]
\* A row's division, by its name in the season, is in the team's own league, or
\* is made there.
DivisionsResolve(s, rows) ==
  /\ NewDivisionsAgree(rows)
  /\ \A t \in DOMAIN rows : rows[t] # Nowhere /\ divisionOf[rows[t]] # Nowhere =>
       divisionOf[rows[t]] = <<leagueOf[t], s>>

\* A registration that is moved is asked for games of the league it leaves, one
\* that stays for any game, and only if its division changes.
TeamRowsSafe(s, rows) ==
  \A t \in DOMAIN rows :
    LET l == leagueOf[t] IN
    /\ Cardinality(Met(reg, t, l, s)) <= 1
    /\ \A m \in Met(reg, t, l, s) :
         IF m = l THEN reg[<<t, l, s>>].division # rows[t] => ~PlaysIn(t, s) ELSE ~Live(t, m, s)

ImportTeams(s, sheet) ==
  LET rows == sheet.teams IN
  /\ Writable(s) /\ DivisionsResolve(s, rows) /\ TeamRowsSafe(s, rows)
  /\ divisionOf' = [d \in Divisions |->
       IF divisionOf[d] = Nowhere /\ \E t \in DOMAIN rows : rows[t] = d
       THEN <<leagueOf[CHOOSE t \in DOMAIN rows : rows[t] = d], s>> ELSE divisionOf[d]]
  /\ bound' = bound \cup {<<leagueOf[t], s>> : t \in DOMAIN rows}
  /\ Enter(reg, [e \in {<<t, s>> : t \in DOMAIN rows} |->
                   [league |-> leagueOf[e[1]], division |-> rows[e[1]]]])
  /\ Join(sheet.players)
  /\ lastImport' = NoSheet
  /\ UNCHANGED <<seasons, archived, leagueOf, playing>>

-----------------------------------------------------------------------------
ImportCall ==
  \/ \E sheet \in Sheets : ImportHierarchy(sheet)
  \/ \E s \in Seasons, sheet \in TeamSheets : ImportTeams(s, sheet)

ImportNext ==
  \/ ImportCall
  \/ ParticipationNext /\ lastImport' = NoSheet

ImportSpec == ParticipationInit /\ ImportInit /\ [][ImportNext]_<<tables, lastImport>>

-----------------------------------------------------------------------------
(* Properties *)

\* What the rows of a sheet say is what the tables say.
AsStored(sheet) ==
  /\ Competition(sheet) \subseteq bound
  /\ \A d \in DOMAIN sheet.divisions : divisionOf[d] = sheet.divisions[d]
  /\ \A t \in DOMAIN sheet.teams : leagueOf[t] = sheet.teams[t]
  /\ \A p \in DOMAIN sheet.players : teamOf[p] = sheet.players[p]
  /\ \A e \in DOMAIN sheet.entries :
       reg[<<e[1], sheet.entries[e].league, e[2]>>] = Row("active", sheet.entries[e].division)

\* An import that is accepted lands whole: no row is undone by the rows, and the
\* transfers, applied after it.
ImportsLand == lastImport # NoSheet => AsStored(lastImport)

\* Importing what is already there is not an error while its seasons may be
\* written (setup_service.py, upsert_imported_registration: "re-importing the
\* same or corrected registration data must never error").
RepeatAccepted ==
  \A sheet \in Sheets : AsStored(sheet) /\ Valid(sheet) /\ Applicable(sheet) => Accepted(sheet)
================================================================================
