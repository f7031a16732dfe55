-------------------------------- MODULE MCGameDay -------------------------------
(***************************************************************************)
(* Reschedules, officials and results are exercised in behaviours of their *)
(* own; the calendar's calls go with each.  In "tables" the standings are  *)
(* computed from what was registered and played.                           *)
(***************************************************************************)
EXTENDS GameDay, TLC

CONSTANTS MCDivisions, NoDivision, Questions, NoQuestion

VARIABLES part, asked
gameDayVars == <<part, asked, tables, dayVars>>

Standings == INSTANCE Standings WITH Divisions <- MCDivisions

ASSUME QuestionsAssumption ==
  /\ NoDivision \notin MCDivisions
  /\ \A q \in Questions : Standings!WellKept(q)

\* Two games of one league on one rink's two slots and another rink's slot.
MCRinkOf == [s \in Slots |-> IF s = 3 THEN 2 ELSE 1]
MCWhen == [s \in Slots |-> IF s = 2 THEN 2 ELSE 1]
MCSeasonOf == [g \in Games |-> 1]
MCTeamsOf == [g \in Games |-> {g}]
MCProgramOf == [z \in Seasons |-> 1]
MCAgreed == [r \in Requests |-> 2]
MCConflictOf == [o \in Officials |-> IF o = "ref" THEN {} ELSE {1}]
MCCalendars ==
  {<<[life |-> "live", slot |-> 1, published |-> TRUE, draft |-> FALSE],
     [life |-> "live", slot |-> s, published |-> FALSE, draft |-> TRUE]>> : s \in {2, 3}}

\* Three registered teams, of which some have changed division or league
\* since; a game that may count, and a second one that may be odd.
MCRegistration(team, division, active, league, here) ==
  [team |-> team, division |-> division, active |-> active, league |-> league, here |-> here]
MCRosters ==
  {{MCRegistration(1, "d", TRUE, "this", TRUE), MCRegistration(2, division, TRUE, league, TRUE), third} :
     division \in {"d", "e"}, league \in {"this", "other"},
     third \in {MCRegistration(3, "d", TRUE, "this", TRUE), MCRegistration(3, NoDivision, TRUE, "this", TRUE),
               MCRegistration(3, "d", FALSE, "this", TRUE), MCRegistration(3, "e", TRUE, "other", FALSE)}}
MCFixture == [home |-> 1, away |-> 2, division |-> "d", leagueSeason |-> "here", pair |-> "here",
              live |-> TRUE, regular |-> TRUE, published |-> TRUE, final |-> TRUE, score |-> <<2, 1>>]
MCPlain ==
  {[MCFixture EXCEPT !.home = teams[1], !.away = teams[2], !.published = published, !.final = final, !.score = score] :
     teams \in {<<1, 2>>, <<3, 1>>}, published \in BOOLEAN, final \in BOOLEAN, score \in {<<2, 1>>, <<1, 1>>}}
MCOdd ==
  {[MCFixture EXCEPT !.division = division, !.leagueSeason = row, !.pair = pair, !.published = published] :
     division \in {"d", NoDivision}, row \in {"here", "other", "none"}, pair \in {"here", "other"},
     published \in BOOLEAN}
  \cup {[MCFixture EXCEPT !.live = FALSE, !.home = 3], [MCFixture EXCEPT !.regular = FALSE, !.home = 3]}
MCTables ==
  {[archived |-> over[1], ended |-> over[2], rows |-> rows, games |-> {one, another}] :
     over \in BOOLEAN \X BOOLEAN, rows \in MCRosters,
     one \in MCPlain, another \in MCPlain \cup MCOdd}

DayCall ==
  \/ part = "requests" /\ RequestsNext
  \/ part = "officials" /\ OfficialsNext
  \/ part = "results" /\ ResultsNext
  \/ (part = "officials" => operated = 0) /\ OperatorCall
AskTable ==
  /\ asked = NoQuestion /\ asked' \in Questions
  /\ UNCHANGED <<tables, dayVars>>

GameDayRunInit ==
  /\ part \in {"requests", "officials", "results", "tables"} /\ GameDayInit
  /\ asked = NoQuestion
GameDayRunNext ==
  /\ UNCHANGED part
  /\ \/ part # "tables" /\ UNCHANGED asked /\ DayCall
     \/ part = "tables" /\ AskTable
GameDayRunSpec == GameDayRunInit /\ [][GameDayRunNext]_gameDayVars /\ GameDayFairness

\* A game has one open reschedule request; an official holds two games at one
\* time only if one was moved since, and no assignment outlives its official;
\* and the standings tell one history, to the public only what it may see.
DaySound ==
  /\ OneOpenRequest /\ OfficialsApart
  /\ asked # NoQuestion => Standings!TablesSound(asked)
================================================================================
