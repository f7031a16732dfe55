------------------------------ MODULE MCParticipation ------------------------------
(***************************************************************************)
(* Behaviours begin with two seasons that both leagues are bound to, or    *)
(* with one season the teams are registered in, to be copied: states a     *)
(* short sequence of calls reaches.  From the first, long behaviours keep  *)
(* the second team out of every season, shorter ones do not.               *)
(***************************************************************************)
EXTENDS CopyForward, SheetImport, SetupProgress, Integers, TLC

CONSTANTS
  Parts,     \* the parts of the run to check
  MaxCalls,  \* part -> bound: calls of a behaviour
  Skaters, Squads, Jerseys, PlayerSheets,  \* of PlayerNumbers
  Rinks, Venues, IceOperators, Clock, Templates, SlotSheets, HomeVenue, MaxShown  \* of RinkIce
VARIABLES part, calls, kind, team, active, number, import, before,
          ice, played, venueOf, open, shown, warned
numberVars == <<kind, team, active, number, import, before>>
iceVars == <<ice, played, venueOf, open, shown, warned>>
participationVars == <<part, calls, tables, copyVars, lastImport, numberVars, iceVars>>

MCSkaters == {"x", "y", "z"}
MCSquads == {"a", "b"}
MCHome == [t \in Teams |-> IF t = "t" THEN "A" ELSE "B"]
MCMaxCalls == [one |-> 7, two |-> 5, copies |-> 6, imports |-> 4, numbers |-> 5, ice |-> 4]

\* Uploads of up to one row a sheet, for one team.
MCUpTo(keys, values) == {<<>>} \cup UNION {[{k} -> values] : k \in keys}
MCSheets ==
  {[NoSheet EXCEPT !.divisions = divisions, !.teams = teams, !.entries = entries] :
     divisions \in MCUpTo(Divisions, Leagues \X {1, 2}), teams \in MCUpTo({"t"}, Leagues),
     entries \in MCUpTo({"t"} \X {1, 2}, [league : Leagues, division : Divisions \cup {Nowhere}])}
  \cup {[NoSheet EXCEPT !.links = {<<"B", 3>>}, !.players = ("p" :> "t")]}
MCTeamSheets ==
  {[teams |-> teams, players |-> <<>>] : teams \in [{"t"} -> Divisions \cup {Nowhere}]}
  \cup {[teams |-> ("t" :> "d"), players |-> ("p" :> "t")]}
\* Player sheets of one to three rows, in one order of the players.
MCRows(p) == [player : {p}, team : MCSquads, number : 1..2 \cup {Nowhere}]
MCPlayerSheets ==
  {<<row>> : row \in MCRows("x")} \cup MCRows("x") \X MCRows("y")
  \cup {rows \in MCRows("x") \X MCRows("y") \X MCRows("z") :
           rows[1].number = 1 /\ rows[2].number = 2 /\ rows[3].number = Nowhere}

PlayerNumbers == INSTANCE PlayerNumbers
  WITH Players <- Skaters, Teams <- Squads, Numbers <- Jerseys, None <- Nowhere, Uploads <- PlayerSheets

\* A player is in one row of a sheet at most (hierarchy_import.py:242).
ASSUME UploadsAssumption == \A rows \in PlayerSheets :
  /\ rows \in Seq([player : Skaters, team : Squads, number : Jerseys \cup {Nowhere}])
  /\ \A i, j \in DOMAIN rows : rows[i].player = rows[j].player => i = j

\* A clock that skips an hour, and later repeats one.
MCClock == [i \in 0..5 |-> IF i < 2 THEN i ELSE IF i < 4 THEN i + 1 ELSE i]
MCVenueOf == [r \in {"n", "m"} |-> IF r = "n" THEN "v" ELSE "w"]
MCTemplates ==
  {[rinks |-> {"n", "m"}, days |-> {[opens |-> 1, closes |-> 5]}, playable |-> 2, turnover |-> 0],
   [rinks |-> {"n"}, days |-> {[opens |-> 0, closes |-> 2], [opens |-> 3, closes |-> 5]},
    playable |-> 1, turnover |-> 1]}
MCIce(from, to) == [rink |-> "n", from |-> from, to |-> to]
MCSlotSheets ==
  {[venues |-> ("n" :> v), rows |-> rows] : v \in {"v", "w"},
     rows \in UNION {[slots -> {"game", "other"}] :
       slots \in {{MCIce(0, 2)}, {MCIce(1, 2)}, {MCIce(0, 2), MCIce(1, 3)}}}}

RinkIce == INSTANCE RinkIce WITH Operators <- IceOperators, playing <- played

\* Of the readings the clock shows, a later one is first shown later; and the
\* days of a template are dates, whose windows are apart (plan_ice_windows).
ASSUME ClockAssumption ==
  /\ DOMAIN Clock \subseteq Int
  /\ \A i, j \in DOMAIN Clock :
       i \in RinkIce!Resolved(Clock[i]) /\ j \in RinkIce!Resolved(Clock[j]) /\ Clock[i] <= Clock[j] => i <= j
ASSUME TemplatesAssumption ==
  \A t \in Templates :
    /\ t.playable \in Nat /\ t.turnover \in Nat
    /\ \A d, e \in t.days : d = e \/ d.closes <= e.opens \/ e.closes <= d.opens

\* Any numbers the single calls can have given; "numbers" is then one import,
\* with at most one call before it or, between its check and its commit, after.
MCNumbered ==
  /\ kind \in {"jersey", "registration"}
  /\ team \in [Skaters -> Squads \cup {Nowhere}] /\ team["x"] # "b" /\ team["z"] # Nowhere
  /\ active \in [Skaters -> BOOLEAN] /\ active["z"]
  /\ number \in [Skaters -> Jerseys \cup {Nowhere}]
  /\ \A p \in Skaters :
       /\ team[p] = Nowhere => active[p] /\ number[p] = Nowhere
       /\ kind = "registration" => active[p]
  /\ import = PlayerNumbers!NoImport
  /\ before = [team |-> team, active |-> active, number |-> number]
  /\ PlayerNumbers!NumbersUnique

MCBegun(some, registered) ==
  /\ seasons = some /\ archived = {} /\ bound = Leagues \X some
  /\ leagueOf = HomeOf
  /\ reg = [k \in Keys |-> IF k[1] \in registered /\ k[2] = HomeOf[k[1]] /\ k[3] \in some
                           THEN Row("active", Nowhere) ELSE NoRow]
  /\ divisionOf = [d \in Divisions |-> Nowhere]
  /\ membership = [k \in Stints |-> NoStint]
  /\ teamOf = [p \in Players |-> Nowhere] /\ parked = {}
  /\ playing = [k \in Keys |-> {}]
  /\ rebound = {}

\* The seasons the behaviours begin with.
ASSUME SeasonsAssumption == {1, 2} \subseteq Seasons

ParticipationRunInit ==
  /\ calls = 0 /\ CopyForwardInit /\ ImportInit /\ part \in Parts
  /\ \/ part \in {"one", "two"} /\ MCBegun({1, 2}, {})
     \/ part = "copies" /\ MCBegun({1}, {"t"})
     \/ part \in {"imports", "numbers", "ice"} /\ MCBegun({1, 2}, {"t"})
  /\ RinkIce!IceInit
  /\ IF part = "numbers" THEN MCNumbered ELSE PlayerNumbers!NumbersInit /\ kind = "jersey"

ParticipationRunNext ==
  /\ calls < MaxCalls[part] /\ calls' = calls + 1 /\ UNCHANGED part
  /\ part # "imports" => UNCHANGED lastImport
  /\ part # "copies" => UNCHANGED copyVars
  /\ part # "numbers" => UNCHANGED numberVars
  /\ part # "ice" => UNCHANGED iceVars
  /\ \/ /\ part \in {"one", "two"} /\ ParticipationNext /\ 3 \notin seasons'
        /\ part = "one" => leagueOf'["u"] = "B" /\ \A k \in Keys : k[1] = "u" => reg'[k] = NoRow
     \/ part = "copies" /\ CopyForwardNext /\ UNCHANGED <<playerVars, playing, divisionOf>>
     \/ part = "imports" /\ ImportNext /\ \A k \in Keys : k[1] = "u" => reg'[k] = NoRow
     \/ /\ part = "numbers" /\ UNCHANGED tables /\ PlayerNumbers!NumbersNext
        /\ import'.path = "teams" => Len(import'.rows) = 1
        /\ calls = 0 \/ import.stage \in {"checked", "applying"}
        /\ import' = import => calls <= 1
     \/ /\ part = "ice" /\ UNCHANGED tables /\ RinkIce!IceNext
        /\ \A s \in DOMAIN ice' : s \in DOMAIN ice \/ s.rink = "n" \/ s.to - s.from = 2

-----------------------------------------------------------------------------
\* Registrations, memberships, divisions and games agree with each other, and
\* an import that was accepted has landed whole.
RegistrationsSound == OneRegistration /\ Fielded /\ OneMembership /\ Anchored /\ Backed /\ ImportsLand

\* What the operator is told to do next can be done.
NextStepSound == part = "two" => GuidanceSound

\* Whatever is imported or changed one by one between an import's check and its
\* commit, numbers stay unique and ice stays bookable once.
SheetsSound == PlayerNumbers!NumbersSound /\ RinkIce!IceSound
BuiltAsShown ==
  [][\A o \in IceOperators, t \in Templates : RinkIce!BuiltAsShown(o, t)]_participationVars

ParticipationRunSpec == ParticipationRunInit /\ [][ParticipationRunNext]_participationVars
================================================================================
