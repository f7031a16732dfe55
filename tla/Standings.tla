------------------------------- MODULE Standings -------------------------------
(***************************************************************************)
(* The tables of a season of one league (api/service.py, "results &        *)
(* standings"): one for each division, one for all of them, each as the    *)
(* league's operators read it and as the public does.  They are computed   *)
(* at every read, from the registrations and the final results of then.    *)
(*                                                                         *)
(* A question is what a read finds: whether the season is archived and     *)
(* whether its end date has passed; registrations, at most one for a team  *)
(* and division; and the games.  A game names its league-season twice, by  *)
(* that row's id and by the older pair of league and season, and rows that *)
(* a migration left behind may disagree.  Teams are numbers in the order   *)
(* of their names.                                                         *)
(***************************************************************************)
EXTENDS Integers, FiniteSets, Functions, SequencesExt

CONSTANTS Divisions, NoDivision   \* of this league-season, and of none

\* The division of a read of the whole league-season.
All == NoDivision
Reads == {All} \cup Divisions

Registration ==
  [team : Int, division : Reads, active : BOOLEAN, league : {"this", "other"}, here : BOOLEAN]
Game ==
  [home : Int, away : Int, division : Reads, leagueSeason : {"here", "other", "none"},
   pair : {"here", "other"}, live : BOOLEAN, regular : BOOLEAN, published : BOOLEAN,
   final : BOOLEAN, score : Int \X Int]

\* A team of a game of this league-season is registered in it, and active in
\* no other of the season (Participation).
WellKept(q) ==
  /\ q \in [archived : BOOLEAN, ended : BOOLEAN, rows : SUBSET Registration, games : SUBSET Game]
  /\ IsFiniteSet(q.rows) /\ IsFiniteSet(q.games)
  /\ \A g \in q.games :
       /\ g.home # g.away
       /\ g.leagueSeason = "here" /\ g.pair = "here" =>
            \A row \in q.rows :
              row.active /\ row.team \in {g.home, g.away} /\ row.division = g.division => row.here

\* An archived season may have no end date, and one that has ended need not be
\* archived.
Historical(q) == q.archived \/ q.ended

-----------------------------------------------------------------------------
(* Who is in a table.                                                      *)

\* row.league: the team's permanent league is by now this one or another one of
\* the program, which no team leaves.
InLeague(q, row) == row.league = "this" \/ (Historical(q) /\ row.league = "other")
\* registered_team_ids_in_division: rows of the season with this division.
DivisionRoster(q, d) ==
  {row.team : row \in {r \in q.rows : r.active /\ r.division = d /\ InLeague(q, r)}}
\* Here the row itself names the league-season, and in a historical one not
\* even the program is looked at again.
LeagueRoster(q) ==
  {row.team : row \in {r \in q.rows : r.active /\ r.here /\ (Historical(q) \/ r.league = "this")}}
Roster(q, d) == IF d = All THEN LeagueRoster(q) ELSE DivisionRoster(q, d)

-----------------------------------------------------------------------------
(* Which games count.                                                      *)

ByRow(g) == g.leagueSeason = "here"
ByPair(g) == g.pair = "here"
Concerns(g, d) == IF d = All THEN ByRow(g) \/ ByPair(g) ELSE g.division = d

\* The games a read looks at; hidden ones are passed over before anything else.
Considered(q, d, public) ==
  {g \in q.games : g.live /\ g.regular /\ Concerns(g, d) /\ (public => g.published)}

\* A game that is in the wrong place refuses the whole table: for a division
\* one that does not name this league-season twice, for all one that names it
\* once.
Refuses(g, d) == IF d = All THEN ByRow(g) # ByPair(g) ELSE ~(ByRow(g) /\ ByPair(g))
Refused(q, d, public) == \E g \in Considered(q, d, public) : Refuses(g, d)

Counted(q, d, public) ==
  {g \in Considered(q, d, public) : g.final /\ {g.home, g.away} \subseteq Roster(q, d)}

-----------------------------------------------------------------------------
(* The table.                                                              *)

For(t, g) == IF g.home = t THEN g.score[1] ELSE g.score[2]
Against(t, g) == IF g.home = t THEN g.score[2] ELSE g.score[1]

Row(t, games) ==
  LET mine == {g \in games : t \in {g.home, g.away}}
      won == Cardinality({g \in mine : For(t, g) > Against(t, g)})
      tied == Cardinality({g \in mine : For(t, g) = Against(t, g)})
      scored == SumFunctionOnSet([g \in mine |-> For(t, g)], mine)
      conceded == SumFunctionOnSet([g \in mine |-> Against(t, g)], mine)
  IN [team |-> t, gp |-> Cardinality(mine), w |-> won, t |-> tied,
      l |-> Cardinality(mine) - won - tied, gf |-> scored, ga |-> conceded,
      gd |-> scored - conceded, pts |-> 2 * won + tied]

\* Points, goal difference, goals scored, name.
Ahead(a, b) ==
  LET key(r) == <<-r.pts, -r.gd, -r.gf, r.team>>
  IN \E i \in 1 .. 4 : key(a)[i] < key(b)[i] /\ \A j \in 1 .. i - 1 : key(a)[j] = key(b)[j]

Ranked(rows) == SetToSortSeq(rows, Ahead)

\* What a read answers.
Refusal == [refused |-> TRUE, ranked |-> <<>>]
Table(q, d, public) ==
  IF Refused(q, d, public) THEN Refusal
  ELSE [refused |-> FALSE,
        ranked |-> Ranked({Row(t, Counted(q, d, public)) : t \in Roster(q, d)})]

-----------------------------------------------------------------------------
(* Properties                                                              *)

\* The public's tables tell nothing of games that are not published: neither
\* their results nor that one of them is broken.
PublicBlind(q) ==
  LET shown == [q EXCEPT !.games = {g \in q.games : g.published}]
  IN \A d \in Reads : Table(q, d, TRUE) = Table(shown, d, TRUE)

\* The tables of the divisions and of the league-season never tell
\* contradictory histories of one game: one that names this league-season in
\* either way refuses both or neither, and what counts in a division counts in
\* the league-season.
OneHistory(q, public) ==
  \A d \in Divisions :
    LET alone(g) == [q EXCEPT !.games = {g}] IN
    /\ \A g \in q.games :
         g.division = d /\ "here" \in {g.leagueSeason, g.pair}
           => (Refused(alone(g), d, public) <=> Refused(alone(g), All, public))
    /\ ~Refused(q, d, public) => Counted(q, d, public) \subseteq Counted(q, All, public)

\* Once a season is over, by either road, its tables stay as they are whatever
\* leagues its teams move to.
PastStays(q) ==
  LET unmoved == [q EXCEPT !.rows = {[r EXCEPT !.league = "this"] : r \in q.rows}]
  IN q.archived \/ q.ended =>
       \A d \in Reads, public \in BOOLEAN : Table(q, d, public) = Table(unmoved, d, public)

\* In a table every goal is scored and conceded once, and every game is worth
\* two points.
Balanced(q, d, public) ==
  LET teams == Roster(q, d)
      row(t) == Row(t, Counted(q, d, public))
      sum(column) == SumFunctionOnSet([t \in teams |-> row(t)[column]], teams)
  IN ~Refused(q, d, public) =>
       /\ sum("gf") = sum("ga") /\ sum("w") = sum("l")
       /\ sum("pts") = sum("gp")

TablesSound(q) ==
  /\ PublicBlind(q)
  /\ PastStays(q)
  /\ \A public \in BOOLEAN : OneHistory(q, public)
  /\ \A d \in Reads, public \in BOOLEAN : Balanced(q, d, public)
================================================================================
