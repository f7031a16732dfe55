------------------------------ MODULE DraftPlan ------------------------------
(***************************************************************************)
(* What the scheduler proposes for one division: draft_schedule of         *)
(* services/scheduler.py behind league_scoped_scheduler.py, which only     *)
(* hands it ice of venues the season may use.  The facts it reads are one  *)
(* record: the registered teams, every game, the rinks the season has      *)
(* access to, the policy in force.  Slots and teams are numbers in the     *)
(* order of their ids; time is counted in units of which DayLength make a  *)
(* day; the policy's warm-up and resurfacing are one buffer.               *)
(***************************************************************************)
EXTENDS Pairings

CONSTANTS
  Ice,        \* slot -> [rink, start, end], the game slots of the calendar
  DayLength,
  Ceiling     \* MAX_GAMES_PER_TEAM

ASSUME DraftPlanAssumption ==
  /\ DayLength \in Nat \ {0} /\ Ceiling \in Nat \ {0}
  /\ IsFiniteSet(DOMAIN Ice)
  /\ \A slot \in DOMAIN Ice :
       /\ slot \in Nat \ {0} /\ Ice[slot].start \in Nat /\ Ice[slot].end \in Nat
       /\ Ice[slot].start < Ice[slot].end

Day(slot) == Ice[slot].start \div DayLength
Plays(game) == {game.home, game.away}
Live(games) == {game \in games : game.live}
Off == 0      \* the slot of a game played on no slot of this calendar

\* The games that count against the format: regular ones of this division
\* between two teams registered in it.
Counted(now) ==
  {game \in Live(now.games) : game.regular /\ Plays(game) \subseteq now.teams}

Between(now, home, away) ==
  {game \in Counted(now) : Plays(game) = {home, away}}

InOrder(teams) == SetToSortSeq(teams, <)

Hosted(now) ==
  LET team == InOrder(now.teams)
      m == Cardinality(now.teams)
  IN [pair \in (1 .. m) \X (1 .. m) |->
        Cardinality({game \in Counted(now) :
                       game.home = team[pair[1]] /\ game.away = team[pair[2]]})]

-----------------------------------------------------------------------------
\* Ice on offer: free game slots of a rink the season may use, of those asked
\* for; they are tried by start, then by id.
Offered(now, asked) ==
  LET taken == {game.slot : game \in Live(now.games)}
  IN {slot \in DOMAIN Ice :
        /\ slot \notin taken /\ Ice[slot].rink \in now.access
        /\ asked.slots = {} \/ slot \in asked.slots}

Earliest(slots) ==
  CHOOSE s \in slots : \A t \in slots :
    \/ Ice[s].start < Ice[t].start
    \/ Ice[s].start = Ice[t].start /\ s <= t

Overlap(s, t) == Ice[s].start < Ice[t].end /\ Ice[t].start < Ice[s].end
GapOf(s, t) ==
  IF Ice[s].start >= Ice[t].end THEN Ice[s].start - Ice[t].end
  ELSE Ice[t].start - Ice[s].end
StartGap(s, t) ==
  IF Ice[s].start >= Ice[t].start THEN Ice[s].start - Ice[t].start
  ELSE Ice[t].start - Ice[s].start

TooSoon_FromStarts(s, t, turnaround) == ~Overlap(s, t) /\ StartGap(s, t) < turnaround

TooSoon(s, t, turnaround) == ~Overlap(s, t) /\ GapOf(s, t) < turnaround

\* The slots of the games that teams in pair have, and of those on a rink.
BusyWith(games, pair) ==
  {game.slot : game \in {g \in Live(games) : Plays(g) \cap pair # {}}} \ {Off}
BusyRink(games, rink) ==
  {slot \in {game.slot : game \in Live(games)} \ {Off} : Ice[slot].rink = rink}

\* The game or pick of this run too near a slot on its rink: the booked one
\* that starts first, else the first picked, else none.
FirstNear(slot, policy, booked, picks) ==
  LET near(t) == t # slot /\ (Overlap(slot, t) \/ GapOf(slot, t) < policy.buffer)
      games == {t \in booked : near(t)}
      others == {i \in DOMAIN picks : near(picks[i])}
  IN CASE games # {} -> CHOOSE t \in games : \A u \in games : Ice[t].start <= Ice[u].start
       [] games = {} /\ others # {} -> picks[Min(others)]
       [] OTHER -> Off

\* _slot_policy_violation, for one policy: the code, and what its text shows.
PolicyRefusal(slot, policy, booked, picks) ==
  LET near == FirstNear(slot, policy, booked, picks)
  IN CASE Ice[slot].end - Ice[slot].start < policy.playable ->
            <<"insufficient_playable_time", slot, policy.playable>>
       [] near # Off /\ Overlap(slot, near) -> <<"slot_overlap_conflict", slot, near>>
       [] near # Off -> <<"turnover_buffer_conflict", slot, policy.buffer, near>>
       [] Ice[slot].end - Day(slot) * DayLength > policy.curfew ->
            <<"curfew_violation", slot, policy.curfew>>
       [] OTHER -> <<"none">>

PicksOn(placed, team, day) ==
  {placed[i].slot : i \in {j \in DOMAIN placed : team \in Plays(placed[j]) /\ Day(placed[j].slot) = day}}

\* _slot_reason, the policy, then the teams' own games.  placed: this run's
\* own picks, the only games the rest and the daily limit look at.
SlotRefusal(slot, pair, rules, now, placed) ==
  LET run == {placed[i].slot : i \in {j \in DOMAIN placed : Plays(placed[j]) \cap pair # {}}}
      busy == run \cup BusyWith(now.games, pair)
      rink == Ice[slot].rink
      policy == PolicyRefusal(slot, now.policy, BusyRink(now.games, rink),
                  [i \in {j \in DOMAIN placed : Ice[placed[j].slot].rink = rink} |-> placed[i].slot])
      hits(near) == {game.id : game \in {g \in Live(now.games) :
                                           Plays(g) \cap pair # {} /\ g.slot \in near \ {Off}}}
  IN CASE Day(slot) \in rules.closed -> <<"season_blackout">>
       [] \E team \in pair : <<team, Day(slot)>> \in rules.away -> <<"team_blackout">>
       [] rules.perDay > 0 /\ \E team \in pair :
            Cardinality(PicksOn(placed, team, Day(slot))) >= rules.perDay ->
              <<"max_per_day">>
       [] \E t \in run : StartGap(slot, t) < rules.rest -> <<"min_rest">>
       [] \E t \in busy : TooSoon(slot, t, rules.turnaround) ->
            <<"min_turnaround", hits({t \in busy : TooSoon(slot, t, rules.turnaround)})>>
       [] policy # <<"none">> -> policy
       [] \E t \in busy : Overlap(slot, t) ->
            <<"team_overlap", hits({t \in busy : Overlap(slot, t)})>>
       [] OTHER -> <<"none">>

\* Each pairing takes the first slot nothing refuses; none is moved again.
PlaceOn(done, pair, refusal, fits) ==
  IF fits # {}
  THEN [done EXCEPT !.placed =
          Append(@, [home |-> pair[1], away |-> pair[2], slot |-> Earliest(fits)])]
  ELSE [done EXCEPT !.left =
          Append(@, [home |-> pair[1], away |-> pair[2],
                     codes |-> IF DOMAIN refusal = {} THEN {<<"no_ice_available">>}
                               ELSE Range(refusal)])]

PlaceWhere(done, pair, refusal) ==
  PlaceOn(done, pair, refusal, {slot \in DOMAIN refusal : refusal[slot] = <<"none">>})

SlotsOf(placed) == {placed[i].slot : i \in DOMAIN placed}

PlaceNext(slots, rules, now, done, pair) ==
  PlaceWhere(done, pair,
             [slot \in slots \ SlotsOf(done.placed) |->
                SlotRefusal(slot, {pair[1], pair[2]}, rules, now, done.placed)])

AssignIce(pairings, slots, rules, now) ==
  FoldLeft(LAMBDA done, pair : PlaceNext(slots, rules, now, done, pair),
           [placed |-> <<>>, left |-> <<>>], pairings)

-----------------------------------------------------------------------------
AsTeams(team, pairs) ==
  [i \in DOMAIN pairs |-> <<team[pairs[i][1]], team[pairs[i][2]]>>]

Missing(now, asked) ==
  LET m == Cardinality(now.teams)
  IN AsTeams(InOrder(now.teams),
             IF asked.format = "games" THEN ResidualPairings(m, asked.count, Hosted(now))
             ELSE MissingMeetings(m, asked.count, Hosted(now)))

\* The games the proposal names as already there: every counted one of a
\* guarantee; of the meetings format, by id, as many of a pair as were asked.
Named(now, asked) ==
  IF asked.format = "games" THEN {game.id : game \in Counted(now)}
  ELSE {game.id : game \in
          {g \in Counted(now) :
             Cardinality({h \in Between(now, g.home, g.away) : h.id < g.id}) < asked.count}}

RefusalOf(now, asked) ==
  IF asked.format = "games"
  THEN FormatRefusal(Cardinality(now.teams), asked.count, Hosted(now)) ELSE "none"

Proposal(now, asked, ice, named) ==
  LET unplaced(team) == {i \in DOMAIN ice.left : team \in Plays(ice.left[i])}
      idle == {team \in now.teams :
                 /\ unplaced(team) # {}
                 /\ \A i \in DOMAIN ice.placed : team \notin Plays(ice.placed[i])}
      pairs == {Plays(game) : game \in {g \in Counted(now) : g.id \in named}}
  IN [teams |-> now.teams, placed |-> ice.placed, left |-> ice.left,
      named |-> named, idle |-> idle, asked |-> asked,
      seen |-> [pair \in pairs |->
                  Cardinality({game \in Counted(now) : Plays(game) = pair})]]

Draft(now, asked) ==
  Proposal(now, asked,
           AssignIce(Missing(now, asked), Offered(now, asked), asked.rules, now),
           Named(now, asked))

\* draft_fingerprint: what the operator saw.  How many games a pair has is
\* not in it, only which of them the proposal names.
Fingerprint(draft) ==
  [teams |-> draft.teams, named |-> draft.named, idle |-> draft.idle,
   placed |-> {draft.placed[i] : i \in DOMAIN draft.placed},
   left |-> {<<draft.left[i].home, draft.left[i].away, draft.left[i].codes,
              Cardinality({j \in 1 .. i : draft.left[j] = draft.left[i]})>> :
               i \in DOMAIN draft.left},
   format |-> draft.asked.format, count |-> draft.asked.count,
   turnaround |-> draft.asked.rules.turnaround]
=============================================================================
