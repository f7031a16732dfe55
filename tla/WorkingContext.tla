---------------------------- MODULE WorkingContext ----------------------------
(***************************************************************************)
(* services/context_service.py and context_scope.py: the program, season   *)
(* and league an operator works in.  The choice is saved (one row per      *)
(* account); what it stands for is worked out again at every read, because *)
(* seasons end, bindings go and scopes change under it.  Reads have a      *)
(* fallback; the saved selection, which writes are judged by, has none.    *)
(*                                                                         *)
(* A season, a league and a program belong together for good; which league *)
(* plays in which season is a binding (LeagueSeason).                      *)
(***************************************************************************)
EXTENDS Naturals, FiniteSets

CONSTANTS
  Programs, Seasons, Leagues, Teams, Games,
  Rank,         \* program -> its place by id; season -> its place by start date
  ProgramOf,    \* season or league -> its program
  GameOf,       \* game -> [season, league]: the binding it was scheduled in
  ScopeOf,      \* user -> its account's role and scope
  NoRecord      \* None

Users == DOMAIN ScopeOf

\* Whatever has a program has one that may exist; a game's league and season
\* are one program's.
ASSUME CatalogueAssumption ==
  /\ IsFiniteSet(Programs) /\ IsFiniteSet(Seasons)
  /\ \A r \in Programs \cup Seasons : Rank[r] \in Nat
  /\ \A r \in Seasons \cup Leagues : ProgramOf[r] \in Programs
  /\ \A g \in Games : /\ GameOf[g].season \in Seasons /\ GameOf[g].league \in Leagues \cup {NoRecord}
                      /\ GameOf[g].league # NoRecord => ProgramOf[GameOf[g].league] = ProgramOf[GameOf[g].season]
  /\ \A u \in Users : ScopeOf[u].teams \subseteq Teams
  /\ NoRecord \notin Programs \cup Seasons \cup Leagues \cup Teams \cup Games

VARIABLES
  live,         \* the programs, seasons and leagues that exist
  archived,     \* the seasons with status ARCHIVED
  bindings,     \* LeagueSeason rows: <<league, season>>
  teamLeague,   \* team -> its permanent league
  registered,   \* active registrations: <<team, league, season>>
  assigned,     \* <<official, game>>: assignments that grant scope
  saved         \* user -> its ActiveContext row

worldVars == <<live, archived, bindings, teamLeague, registered, assigned>>

NoRow == [program |-> NoRecord, season |-> NoRecord, league |-> NoRecord, generation |-> 0]
Row(p, s, l, g) == [program |-> p, season |-> s, league |-> l, generation |-> g]
Tuple(p, s, l) == [program |-> p, season |-> s, league |-> l]
Nothing == Tuple(NoRecord, NoRecord, NoRecord)
TupleOf(row) == Tuple(row.program, row.season, row.league)

LivePrograms == Programs \cap live
ProgramSeasons(p) == {s \in Seasons \cap live : ProgramOf[s] = p}
ProgramLeagues(p) == {l \in Leagues \cap live : ProgramOf[l] = p}

-----------------------------------------------------------------------------
(* context_scope: what an account's scope reaches.                         *)

Global(u) == ScopeOf[u].role = "admin"

\* The teams a coach or player has, and those of a guardian's verified players.
OwnTeams(u) == ScopeOf[u].teams
TeamSeasons(t) == {b[2] : b \in {x \in bindings : x[1] = teamLeague[t] /\ <<t, x[1], x[2]>> \in registered}}
OfficialGames(u) == {g \in Games : <<u, g>> \in assigned}
OfficialSeasons(u) == {GameOf[g].season : g \in OfficialGames(u)} \cap live

OwnSeasons(u) ==
  IF ScopeOf[u].role = "official" THEN OfficialSeasons(u) ELSE UNION {TeamSeasons(t) : t \in OwnTeams(u)}

AuthorizedPrograms(u) ==
  IF Global(u) THEN LivePrograms
  ELSE IF ScopeOf[u].role = "official" THEN {ProgramOf[s] : s \in OfficialSeasons(u)}
  ELSE {ProgramOf[teamLeague[t]] : t \in OwnTeams(u)}

AuthorizedSeasons(u, p) == ProgramSeasons(p) \cap (IF Global(u) THEN Seasons ELSE OwnSeasons(u))

\* An assignment reaches the league of a regular game whose binding still
\* exists and is of the game's own league and season.
OwnLeagues(u) ==
  IF ScopeOf[u].role = "official"
  THEN {GameOf[g].league : g \in {x \in OfficialGames(u) : <<GameOf[x].league, GameOf[x].season>> \in bindings}}
  ELSE {teamLeague[t] : t \in OwnTeams(u)}

AuthorizedLeagues(u, p) == ProgramLeagues(p) \cap (IF Global(u) THEN Leagues ELSE OwnLeagues(u))
LeaguesIn(u, p, s) ==
  IF s = NoRecord THEN AuthorizedLeagues(u, p) ELSE {l \in AuthorizedLeagues(u, p) : <<l, s>> \in bindings}

-----------------------------------------------------------------------------
(* ContextService: the saved row, and what a read resolves.                *)

First(S) == CHOOSE x \in S : \A y \in S : Rank[x] <= Rank[y]
Latest(S) == CHOOSE x \in S : \A y \in S : Rank[y] <= Rank[x]


\* The first program with a season that is not archived, and its latest one;
\* without any, the first program alone.
Fallback(u) ==
  LET open == {p \in AuthorizedPrograms(u) : AuthorizedSeasons(u, p) \ archived # {}}
  IN  IF open # {} THEN LET first == First(open) IN Tuple(first, Latest(AuthorizedSeasons(u, first) \ archived), NoRecord)
      ELSE IF AuthorizedPrograms(u) # {} THEN Tuple(First(AuthorizedPrograms(u)), NoRecord, NoRecord)
      ELSE Nothing

SavedProgramStands(u) == saved[u].program \in AuthorizedPrograms(u)
SavedSeasonStands(u) == saved[u].season \in AuthorizedSeasons(u, saved[u].program)

ResolvedSeason(u) ==
  IF SavedProgramStands(u) /\ (saved[u].season = NoRecord \/ SavedSeasonStands(u))
  THEN Tuple(saved[u].program, saved[u].season, NoRecord)
  ELSE Fallback(u)

\* The saved league goes with the saved program and season only, and only
\* while it still plays in that season.
WithLeague(u, t) ==
  IF /\ t.program # NoRecord
     /\ saved[u].program = t.program /\ saved[u].season = t.season
     /\ saved[u].league \in LeaguesIn(u, t.program, t.season)
  THEN [t EXCEPT !.league = saved[u].league] ELSE t

Resolve(u) == WithLeague(u, ResolvedSeason(u))

\* The saved row alone: a stale program leaves nothing, a stale season leaves
\* the program; never the fallback.
SavedSelection(u) ==
  IF ~SavedProgramStands(u) THEN Nothing
  ELSE WithLeague(u, Tuple(saved[u].program, IF SavedSeasonStands(u) THEN saved[u].season ELSE NoRecord, NoRecord))

-----------------------------------------------------------------------------
(* Switching.                                                              *)

\* The seasons a chosen league may take the user to when it does not play in
\* the chosen one.
EnterableSeasons(u, p, l) == {s \in AuthorizedSeasons(u, p) \ archived : <<l, s>> \in bindings}

CanonicalSeasons_AsAsked(u, p, s, l) == {s}

\* The season a (season, league) choice stands for: the one chosen if the
\* league plays there, else the only one it may take the user to.
CanonicalSeasons(u, p, s, l) ==
  IF s # NoRecord /\ <<l, s>> \in bindings THEN {s}
  ELSE IF Cardinality(EnterableSeasons(u, p, l)) = 1 THEN EnterableSeasons(u, p, l) ELSE {}

Save(u, p, s, l) ==
  /\ saved' = [saved EXCEPT ![u] = Row(p, s, l, @.generation + 1)]
  /\ UNCHANGED worldVars

SetContext(u, p, s) ==
  /\ p \in AuthorizedPrograms(u)
  /\ s = NoRecord \/ s \in AuthorizedSeasons(u, p)
  /\ Save(u, p, s, NoRecord)

SetWithLeague(u, p, s, l) ==
  /\ p \in AuthorizedPrograms(u)
  /\ s = NoRecord \/ s \in AuthorizedSeasons(u, p)
  /\ l \in AuthorizedLeagues(u, p)
  /\ \E x \in CanonicalSeasons(u, p, s, l) : Save(u, p, x, l)

Choices(u) ==
  [program : AuthorizedPrograms(u), season : (Seasons \cap live) \cup {NoRecord}, league : (Leagues \cap live) \cup {NoRecord}]

Switch(u) ==
  \E c \in Choices(u) :
    \/ c.league = NoRecord /\ SetContext(u, c.program, c.season)
    \/ c.league # NoRecord /\ SetWithLeague(u, c.program, c.season, c.league)

-----------------------------------------------------------------------------
(* Properties.                                                             *)

\* A read shows what was chosen for as long as that can be: the saved program
\* and season while they exist and are in the account's scope, with the saved
\* league while it plays there.  Otherwise it shows something the account may
\* see, never a season that is closed: an archive is entered by choice only.
SelectionStands ==
  \A u \in Users :
    LET shown == Resolve(u) IN
    /\ shown.program = NoRecord => AuthorizedPrograms(u) = {}
    /\ shown.program # NoRecord =>
         /\ shown.program \in AuthorizedPrograms(u)
         /\ shown.season # NoRecord => shown.season \in AuthorizedSeasons(u, shown.program)
         /\ shown.league # NoRecord => shown.league \in LeaguesIn(u, shown.program, shown.season)
    /\ shown.season \in archived => shown.season = saved[u].season
    /\ (saved[u].program \in AuthorizedPrograms(u) /\ saved[u].season \in AuthorizedSeasons(u, saved[u].program) \cup {NoRecord})
         => /\ [shown EXCEPT !.league = saved[u].league] = TupleOf(saved[u])
            /\ saved[u].league \in LeaguesIn(u, saved[u].program, saved[u].season) => shown.league = saved[u].league

\* A switch lands on a pair that goes together: the saved league plays in the
\* season saved with it, and both are the saved program's, however stale the
\* list was that the user chose from.
SwitchLandsTogether ==
  [][\A u \in Users :
       (saved'[u] # saved[u] /\ saved'[u].league # NoRecord) =>
         LET row == saved'[u] IN
         /\ <<row.league, row.season>> \in bindings
         /\ ProgramOf[row.league] = row.program /\ ProgramOf[row.season] = row.program]_<<worldVars, saved>>
================================================================================
