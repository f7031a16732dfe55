------------------------------- MODULE MCPeople --------------------------------
(***************************************************************************)
(* Accounts, the throttle of their sign-in, the side a player plays for    *)
(* and the ranking of substitutes share no state; a behaviour exercises    *)
(* one and leaves the others at rest.                                      *)
(***************************************************************************)
EXTENDS AccountLocks, LoginThrottle, TLC

CONSTANTS Bench, Candidates, SeatsAsked, Policies, NoPlayer, NoAnswer

VARIABLES part, ask, answer, asked
rankVars == <<ask, answer>>

Ranking == INSTANCE SubstituteRanking WITH Players <- Bench

Candidate(primary, also, skill, games, notice, draw) ==
  [primary |-> primary, also |-> also, skill |-> skill, games |-> games, notice |-> notice, draw |-> draw]
MCCandidates ==
  {Candidate("forward", {}, 4, 0, 60, 2), Candidate("forward", {"defense"}, 0, 0, 0, 1),
   Candidate("defense", {}, 1, 1, 0, 1), Candidate("defense", {"forward"}, 6, 1, 0, 2),
   Candidate("forward", {"goalie"}, 3, 0, 0, 1), Candidate("goalie", {}, 5, 2, 30, 1),
   Candidate("forward", {}, 0, 1, 0, 1)}
Rule(kind, on) == [kind |-> kind, on |-> on]
On(kinds) == [i \in DOMAIN kinds |-> Rule(kinds[i], TRUE)]
MCRules ==
  {On(<<"fairness", "skill", "position">>), On(<<"position", "fairness", "skill">>), On(<<"skill">>),
   On(<<"skill", "random">>), On(<<"random", "position", "skill", "fairness">>),
   <<Rule("skill", FALSE), Rule("position", TRUE), Rule("fairness", TRUE)>>}
MCPolicy(rules, seeded, notice) == [rules |-> rules, seeded |-> seeded, notice |-> notice]
MCPolicies ==
  {MCPolicy(rules, TRUE, FALSE) : rules \in MCRules}
    \cup {MCPolicy(On(rules), TRUE, TRUE) : rules \in {<<"fairness", "skill", "position">>, <<"skill", "random">>}}
    \cup {MCPolicy(rules, FALSE, FALSE) :
            rules \in {On(<<"skill", "skill">>), <<Rule("skill", FALSE)>>, On(<<"random">>)}}
MCSeatsAsked ==
  {[needed |-> seat[1], absent |-> seat[2], remaining |-> 45] :
     seat \in {<<"forward", 5>>, <<"defense", 0>>, <<"skater", 0>>, <<"skater", 5>>, <<"goalie", 5>>}}

\* One player with up to three memberships under a whole or broken spine, and
\* three players with few before a bench of rows and two earlier games.
MCQuestion(game, broken, people, bench) ==
  [game |-> game, broken |-> broken, people |-> people, bench |-> bench,
   prior |-> <<[p \in Bench |-> IF p = 2 THEN "absent" ELSE "away"],
               [p \in Bench |-> IF p = 1 THEN "none" ELSE IF p = 2 THEN "home" ELSE "absent"]>>,
   target |-> [goalie |-> 1, skater |-> IF bench[1].occupies THEN 2 ELSE 1]]
MCStint(status, team, here, season) == [status |-> status, team |-> team, here |-> here, season |-> season]
MCStints ==
  {MCStint(status, team, here, season) : status \in {"active", "affiliate", "released"},
     team \in {"home", "away"}, here \in BOOLEAN, season \in BOOLEAN}
  \cup {MCStint(status, "third", TRUE, TRUE) : status \in {"active", "injured"}}
MCLiveStints ==
  {MCStint(status, team, TRUE, season) : status \in {"active", "affiliate"},
     team \in {"home", "away"}, season \in BOOLEAN}
MCBroken ==
  {[s \in {"home", "away"} |-> IF s = "home" THEN home ELSE away] :
     home \in {{}, {"team_missing", "not_registered"}, {"not_registered"}}, away \in {{}, {"league_mismatch"}}}
MCPerson(rows) == [exists |-> TRUE, active |-> TRUE, team |-> "home", slot |-> "skater", rows |-> rows]
MCUnknown == [MCPerson(<<>>) EXCEPT !.exists = FALSE]
MCGood(team) == MCPerson(<<MCStint("active", team, TRUE, TRUE)>>)
MCPersons ==
  {MCGood("home"), MCGood("away"), [MCGood("home") EXCEPT !.slot = "goalie"], [MCGood("home") EXCEPT !.active = FALSE],
   [MCGood("home") EXCEPT !.exists = FALSE], MCPerson(<<>>),
   MCPerson(<<MCStint("affiliate", "home", TRUE, TRUE), MCStint("active", "away", TRUE, TRUE)>>)}
MCSeat(occupies, side) == [occupies |-> occupies, side |-> side, slot |-> "skater"]
MCEmpty == [p \in Bench |-> MCSeat(FALSE, "none")]
MCBenches ==
  {MCEmpty, [MCEmpty EXCEPT ![1] = MCSeat(TRUE, "none")], [MCEmpty EXCEPT ![2] = MCSeat(TRUE, "away")],
   [MCEmpty EXCEPT ![3] = MCSeat(TRUE, "home"), ![1] = MCSeat(TRUE, "home")]}
MCOnly(rows) == [p \in Bench |-> IF p = 1 THEN MCPerson(rows) ELSE MCUnknown]
MCQuestions ==
  {MCQuestion("bound", broken, MCOnly(rows), MCEmpty) :
     broken \in MCBroken, rows \in UNION {[1..n -> MCStints] : n \in 0..2} \cup [1..3 -> MCLiveStints]}
  \cup {MCQuestion(game, [s \in {"home", "away"} |-> {}], people, bench) :
     game \in {"bound", "unbound"}, people \in [Bench -> MCPersons], bench \in MCBenches}
  \cup {MCQuestion("league_season_missing", [s \in {"home", "away"} |-> {}], MCOnly(<<>>), MCEmpty)}

Contexts == INSTANCE GameContexts
  WITH People <- Bench, Home <- "home", Away <- "away", NoTeam <- "none",
       Questions <- MCQuestions, Unasked <- NoAnswer

-----------------------------------------------------------------------------
\* Nobody is deleted yet, and of the accounts only the last may be inactive.
MCKnown ==
  /\ \A x \in Subjects : standing[x] # "gone"
  /\ \A u \in Users : (\E v \in Users : u < v) => account[u].life # "inactive"

PeopleInit ==
  /\ part \in {"accounts", "throttle", "ranking", "contexts"}
  /\ AccountLocksInit /\ ThrottleInit /\ Ranking!RankingInit /\ Contexts!ContextsInit
  /\ IF part = "accounts" THEN MCKnown ELSE ~claimed

PeopleNext ==
  /\ UNCHANGED part /\ (part # "contexts" => UNCHANGED asked)
  /\ \/ part = "accounts" /\ AccountLocksNext /\ UNCHANGED <<throttleVars, rankVars>>
     \/ part = "throttle" /\ ThrottleNext /\ UNCHANGED <<accountVars, rankVars>>
     \/ part = "ranking" /\ ask = NoAnswer /\ Ranking!RankingNext /\ UNCHANGED <<accountVars, throttleVars>>
     \/ part = "contexts" /\ Contexts!ContextsNext /\ UNCHANGED <<accountVars, throttleVars, rankVars>>

PeopleSpec == PeopleInit /\ [][PeopleNext]_<<part, accountVars, throttleVars, rankVars, asked>>

MCSymmetry == Permutations(Servers) \cup Permutations(Players)
  \cup Permutations(Attempts) \cup Permutations(Addresses) \cup Permutations(Names)

-----------------------------------------------------------------------------
\* Whoever is asked for a seat: the side a player is found to play for does not
\* depend on how it is looked up, and the proposal of substitutes, its order,
\* its stated reasons and the selection agree.
ChoiceSound ==
  /\ part = "ranking" => Ranking!RankingSound
  /\ part = "contexts" => Contexts!ContextsSound
================================================================================
