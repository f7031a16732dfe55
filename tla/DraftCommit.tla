----------------------------- MODULE DraftCommit -----------------------------
(***************************************************************************)
(* From a proposal to draft games: api/service.py (previews, scenarios,    *)
(* commits) as the league-scoped facade overrides it.  An operator reviews *)
(* a preview or saves a named scenario, and commits it later; meanwhile    *)
(* games are booked and called off, teams come and go, ice is granted and  *)
(* revoked, the policy is edited and operators choose other contexts.  A   *)
(* preview is drafted again before any lock, and again under the locks;    *)
(* what happens under the locks (programs, venues, teams, rinks, seasons,  *)
(* in that order, in a SERIALIZABLE transaction) is one step here.  One    *)
(* division of one season is modelled.  Names of teams and rinks, and the  *)
(* checks of a scenario's stored hashes, are left out.                     *)
(***************************************************************************)
EXTENDS DraftPlan

CONSTANTS
  Operators,
  Teams,
  Policies,
  Requests,       \* the formats, slots and rules an operator asks for
  MaxGames,       \* bound on the games ever made
  MaxMeanwhile,   \* bound on what happens besides previews and commits
  MaxReviews,     \* bound on previews and scenarios
  MaxAttempts     \* commit_draft_schedule tries three times

IsRequest(asked) ==
  /\ asked.format \in {"games", "meetings"} /\ asked.count \in Nat
  /\ asked.slots \subseteq DOMAIN Ice
  /\ asked.rules.perDay \in Nat /\ asked.rules.rest \in Nat /\ asked.rules.turnaround \in Nat

ASSUME DraftCommitAssumption ==
  /\ IsFiniteSet(Teams)
  /\ \A p \in Policies : p.playable \in Nat /\ p.buffer \in Nat /\ p.curfew \in Nat
  /\ \A asked \in Requests : IsRequest(asked)

VARIABLES
  games,      \* [id, home, away, slot, regular, live, draft]
  teams,      \* the registered ones
  access,     \* rinks whose venue the season may use
  policy,
  open,       \* the season is not archived
  chosen,     \* operator -> the explicit selection: "here", "elsewhere", "none"
  reviewed,   \* operator -> the preview on the screen
  scenario,   \* the saved scenario: its proposal and the snapshot
  call,       \* operator -> the commit being served, or its answer
  meanwhile, reviews

facts == <<games, teams, access, policy, open>>
commitVars == <<facts, chosen, reviewed, scenario, call, meanwhile, reviews>>

Nothing == [none |-> TRUE]
Now == [teams |-> teams, games |-> games, access |-> access, policy |-> policy]
Rinks == {Ice[slot].rink : slot \in DOMAIN Ice}
Idle == [stage |-> "idle"]
Refusing(why) == [stage |-> "refused", why |-> why]

CommitInit ==
  /\ games = {} /\ teams = Teams /\ access = Rinks /\ policy \in Policies /\ open = TRUE
  /\ chosen = [o \in Operators |-> "here"]
  /\ reviewed = [o \in Operators |-> Nothing]
  /\ scenario = Nothing
  /\ call = [o \in Operators |-> Idle]
  /\ meanwhile = 0 /\ reviews = 0

Game(home, away, slot, regular, draft, id) ==
  [id |-> id, home |-> home, away |-> away, slot |-> slot, regular |-> regular,
   live |-> TRUE, draft |-> draft]

-----------------------------------------------------------------------------
(* Reviewing                                                               *)

\* What a snapshot of the material inputs holds of the games: those of the
\* teams registered, and those on the rinks the draft may use.
Material(asked) ==
  LET rinks == IF asked.slots = {} THEN access ELSE {Ice[slot].rink : slot \in asked.slots}
      rows == {game \in games :
                 Plays(game) \cap teams # {} \/ (game.slot # Off /\ Ice[game.slot].rink \in rinks)}
  IN [teams |-> teams, access |-> access, policy |-> policy, open |-> open, games |-> rows]

\* Slots asked for by name must all be ice the season may use.
Draftable(asked) ==
  /\ \A slot \in asked.slots : Ice[slot].rink \in access
  /\ RefusalOf(Now, asked) = "none"

\* With nothing chosen the preview resolves to the fallback, this season.
Preview(o, asked) ==
  /\ reviews < MaxReviews /\ chosen[o] # "elsewhere" /\ Draftable(asked)
  /\ reviewed' = [reviewed EXCEPT ![o] = Draft(Now, asked)]
  /\ reviews' = reviews + 1
  /\ UNCHANGED <<facts, chosen, scenario, call, meanwhile>>

SaveScenario(o, asked) ==
  /\ reviews < MaxReviews /\ chosen[o] = "here" /\ Draftable(asked)
  /\ scenario' = [draft |-> Draft(Now, asked), snapshot |-> Material(asked)]
  /\ reviews' = reviews + 1
  /\ UNCHANGED <<facts, chosen, reviewed, call, meanwhile>>

-----------------------------------------------------------------------------
(* Committing                                                              *)

Answer(o, answer) == call' = [call EXCEPT ![o] = answer]

\* has_active_program_season, before anything of the target is looked at.
AskPreview(o) ==
  /\ reviewed[o] # Nothing /\ call[o].stage \in {"idle", "refused", "committed"}
  /\ Answer(o, IF chosen[o] = "none" THEN Refusing("active_context_required")
               ELSE [stage |-> "asked", of |-> "preview", print |-> Fingerprint(reviewed[o]),
                     asked |-> reviewed[o].asked, seen |-> reviewed[o].seen, attempt |-> 1])
  /\ UNCHANGED <<facts, chosen, reviewed, scenario, meanwhile, reviews>>

AskScenario(o) ==
  /\ scenario # Nothing /\ call[o].stage \in {"idle", "refused", "committed"}
  /\ Answer(o, [stage |-> "checked", of |-> "scenario", print |-> Fingerprint(scenario.draft),
                asked |-> scenario.draft.asked, seen |-> scenario.draft.seen,
                draft |-> scenario.draft, attempt |-> 1])
  /\ UNCHANGED <<facts, chosen, reviewed, scenario, meanwhile, reviews>>

\* The draft made again outside the transaction must be the one reviewed.
PreflightFinds(o, c, draft) ==
  CASE chosen[o] = "elsewhere" -> Refusing("scope")
    [] chosen[o] # "elsewhere" /\ ~Draftable(c.asked) -> Refusing("not_draftable")
    [] chosen[o] # "elsewhere" /\ Draftable(c.asked) /\ Fingerprint(draft) # c.print ->
         Refusing("preview_stale")
    [] OTHER -> [stage |-> "checked", of |-> "preview", print |-> c.print, asked |-> c.asked,
                 seen |-> c.seen, draft |-> draft, attempt |-> c.attempt]

PreflightAnswer(o) == PreflightFinds(o, call[o], Draft(Now, call[o].asked))

Preflight(o) ==
  /\ call[o].stage = "asked"
  /\ Answer(o, PreflightAnswer(o))
  /\ UNCHANGED <<facts, chosen, reviewed, scenario, meanwhile, reviews>>

\* Under the locks.  Games a pair has now, against the rows reviewed for it.
PairGames(pair) == {game \in Counted(Now) : Plays(game) = pair}
RowsNamed(draft, pair) ==
  {game \in games : game.id \in draft.named /\ Plays(game) = pair}
PairRaced(draft, pair) == Cardinality(PairGames(pair)) > Cardinality(RowsNamed(draft, pair))

\* A named game is still there, and its pair has gained none.
NamedHolds(draft) ==
  /\ \A id \in draft.named : \E game \in Counted(Now) : game.id = id
  /\ \A pair \in DOMAIN draft.seen : Cardinality(PairGames(pair)) <= draft.seen[pair]

SlotFree(row, rules, done) ==
  LET all == games \cup done
      ice == Ice[row.slot]
  IN /\ \A game \in Live(all) : game.slot # row.slot
     /\ PolicyRefusal(row.slot, policy, BusyRink(all, ice.rink), <<>>) = <<"none">>
     /\ \A t \in BusyWith(all, Plays(row)) :
          ~Overlap(row.slot, t) /\ ~TooSoon(row.slot, t, rules.turnaround)

\* The rows are written one after the other; one refused takes all back.
WriteNext(draft, done, row) ==
  IF done.ok /\ SlotFree(row, draft.asked.rules, done.made)
  THEN [done EXCEPT !.made = @ \cup
          {Game(row.home, row.away, row.slot, TRUE, TRUE,
                Cardinality(games) + Cardinality(@) + 1)}]
  ELSE [done EXCEPT !.ok = FALSE]

Written(draft) ==
  FoldLeft(LAMBDA done, row : WriteNext(draft, done, row),
           [ok |-> TRUE, made |-> {}], draft.placed)

\* The draft made once more under the locks.
StaleUnderLock_Unasked(o) == FALSE

StaleUnderLock(o) ==
  ~Draftable(call[o].asked) \/ Fingerprint(Draft(Now, call[o].asked)) # call[o].print


StillChosen(o) == chosen[o] = "here"

SnapshotHolds(c) == c.of = "scenario" => Material(c.asked) = scenario.snapshot

LockedRefusal(o) ==
  LET c == call[o]
      rows == {c.draft.placed[i] : i \in DOMAIN c.draft.placed}
  IN CASE ~StillChosen(o) -> "scope"
       [] StillChosen(o) /\ ~open -> "season_archived"
       [] StillChosen(o) /\ open /\ ~SnapshotHolds(c) -> "schedule_scenario_stale"
       [] OTHER ->
            IF StaleUnderLock(o)
            THEN IF \E row \in rows : PairRaced(c.draft, Plays(row))
                 THEN "pairing_already_scheduled" ELSE "preview_stale"
            ELSE IF \E row \in rows : ~(Plays(row) \subseteq teams) THEN "team_not_registered"
            ELSE IF \E row \in rows : Ice[row.slot].rink \notin access
            THEN "venue_access_missing"
            ELSE IF ~NamedHolds(c.draft) THEN "preview_stale"
            ELSE IF \E row \in rows : PairRaced(c.draft, Plays(row))
            THEN "pairing_already_scheduled"
            ELSE IF ~Written(c.draft).ok THEN "slot_unavailable" ELSE "none"

LandAs(o, why, made) ==
  IF why = "none"
  THEN /\ games' = games \cup made
       /\ Answer(o, [stage |-> "committed", of |-> call[o].of, draft |-> call[o].draft,
                     seen |-> call[o].seen, made |-> made])
  ELSE games' = games /\ Answer(o, Refusing(why))

Land(o) ==
  /\ call[o].stage = "checked"
  /\ Cardinality(games) + Len(call[o].draft.placed) <= MaxGames
  /\ LandAs(o, LockedRefusal(o), Written(call[o].draft).made)
  /\ UNCHANGED <<teams, access, policy, open, chosen, reviewed, scenario, meanwhile, reviews>>

\* placement_raced: the ice or the policy scopes moved before the locks; the
\* whole attempt is repeated with the same fingerprint, three times at most.
Raced(o) ==
  /\ call[o].stage = "checked"
  /\ Answer(o, CASE call[o].attempt = MaxAttempts -> Refusing("placement_raced")
                 [] call[o].attempt < MaxAttempts /\ call[o].of = "preview" ->
                      [stage |-> "asked", of |-> "preview", print |-> call[o].print,
                       asked |-> call[o].asked, seen |-> call[o].seen,
                       attempt |-> call[o].attempt + 1]
                 [] OTHER -> [call[o] EXCEPT !.attempt = @ + 1])
  /\ UNCHANGED <<facts, chosen, reviewed, scenario, meanwhile, reviews>>

-----------------------------------------------------------------------------
(* Meanwhile                                                               *)

Elsewhere == meanwhile < MaxMeanwhile /\ meanwhile' = meanwhile + 1
Kept == UNCHANGED <<reviewed, scenario, call, reviews>>

\* create_game; a game on no slot of this calendar is one of earlier ice.
Book(home, away, slot, regular) ==
  /\ Elsewhere /\ open /\ Cardinality(games) < MaxGames
  /\ regular => {home, away} \subseteq teams
  /\ slot # Off =>
       /\ Ice[slot].rink \in access
       /\ SlotFree([home |-> home, away |-> away, slot |-> slot], [turnaround |-> 0], {})
  /\ games' = games \cup {Game(home, away, slot, regular, FALSE, Cardinality(games) + 1)}
  /\ UNCHANGED <<teams, access, policy, open, chosen>> /\ Kept

CallOff(game) ==
  /\ Elsewhere /\ open /\ game.live
  /\ games' = (games \ {game}) \cup {[game EXCEPT !.live = FALSE, !.slot = Off]}
  /\ UNCHANGED <<teams, access, policy, open, chosen>> /\ Kept

Register(t) ==
  /\ Elsewhere /\ open /\ t \notin teams
  /\ teams' = teams \cup {t}
  /\ UNCHANGED <<games, access, policy, open, chosen>> /\ Kept

\* A team with games in the season is not taken out of it.
Unregister(t) ==
  /\ Elsewhere /\ open /\ t \in teams
  /\ \A game \in Live(games) : t \notin Plays(game)
  /\ teams' = teams \ {t}
  /\ UNCHANGED <<games, access, policy, open, chosen>> /\ Kept

\* Revoking leaves the games already on that ice where they are.
SetAccess(rink) ==
  /\ Elsewhere /\ open
  /\ access' = IF rink \in access THEN access \ {rink} ELSE access \cup {rink}
  /\ UNCHANGED <<games, teams, policy, open, chosen>> /\ Kept

SetPolicy(p) ==
  /\ Elsewhere /\ p # policy
  /\ policy' = p
  /\ UNCHANGED <<games, teams, access, open, chosen>> /\ Kept

Archive ==
  /\ Elsewhere
  /\ open' = ~open
  /\ UNCHANGED <<games, teams, access, policy, chosen>> /\ Kept

Choose(o, where) ==
  /\ Elsewhere /\ chosen[o] # where
  /\ chosen' = [chosen EXCEPT ![o] = where]
  /\ UNCHANGED facts /\ Kept

CommitNext ==
  \/ \E o \in Operators :
       \/ AskPreview(o) \/ AskScenario(o) \/ Preflight(o) \/ Land(o) \/ Raced(o)
       \/ \E asked \in Requests : Preview(o, asked) \/ SaveScenario(o, asked)
       \/ \E where \in {"here", "elsewhere", "none"} : Choose(o, where)
  \/ \E home, away \in Teams, slot \in DOMAIN Ice \cup {Off}, regular \in BOOLEAN :
       home # away /\ Book(home, away, slot, regular)
  \/ \E game \in games : CallOff(game)
  \/ \E t \in Teams : Register(t) \/ Unregister(t)
  \/ \E rink \in Rinks : SetAccess(rink)
  \/ \E p \in Policies : SetPolicy(p)
  \/ Archive

-----------------------------------------------------------------------------
(* Properties.                                                             *)

Count(draft, home, away) ==
  Cardinality({i \in DOMAIN draft.placed :
                 draft.placed[i].home = home /\ draft.placed[i].away = away})
    + Cardinality({i \in DOMAIN draft.left :
                     draft.left[i].home = home /\ draft.left[i].away = away})
Hosts(home, away) ==
  Cardinality({game \in Counted(Now) : game.home = home /\ game.away = away})
Total(draft, home, away) == Hosts(home, away) + Count(draft, home, away)
Difference(n, k) == IF n >= k THEN n - k ELSE k - n

\* Uneven by d with k games to come, a pair ends as level as k games allow.
Levels(draft, a, b) ==
  LET d == Difference(Hosts(a, b), Hosts(b, a))
      k == Count(draft, a, b) + Count(draft, b, a)
  IN Difference(Total(draft, a, b), Total(draft, b, a)) = IF k >= d THEN (k - d) % 2 ELSE d - k

Asked(draft) == draft.asked.count

\* What is there and what is proposed give every team its games, or every pair
\* the meetings it misses.
KeepsFormat(draft) ==
  IF draft.asked.format = "games"
  THEN /\ Cardinality(teams) > 1 =>
            \A t \in teams :
              MapThenSumSet(LAMBDA u : Total(draft, t, u) + Total(draft, u, t), teams) = Asked(draft)
       /\ \A a, b \in teams : Levels(draft, a, b)
  ELSE \A a, b \in teams :
         LET met == Hosts(a, b) + Hosts(b, a)
             more == Count(draft, a, b) + Count(draft, b, a)
         IN a # b => /\ more = (IF met < Asked(draft) THEN Asked(draft) - met ELSE 0)
                     /\ met = 0 => Levels(draft, a, b)

\* A game at slot s beside one of the same team at t.
Rested(s, t, rules) == ~Overlap(s, t) /\ GapOf(s, t) >= rules.turnaround
Resurfaced(s, t) == Ice[s].rink = Ice[t].rink => ~Overlap(s, t) /\ GapOf(s, t) >= policy.buffer

PlacedWell(draft) ==
  LET rules == draft.asked.rules
      row == draft.placed
  IN /\ \A i, j \in DOMAIN row : i # j =>
          /\ row[i].slot # row[j].slot /\ Resurfaced(row[i].slot, row[j].slot)
          /\ Plays(row[i]) \cap Plays(row[j]) # {} =>
               /\ Rested(row[i].slot, row[j].slot, rules)
               /\ StartGap(row[i].slot, row[j].slot) >= rules.rest
     /\ \A t \in teams, day \in {Day(slot) : slot \in SlotsOf(row)} : rules.perDay > 0 =>
          Cardinality(PicksOn(row, t, day)) <= rules.perDay
     /\ \A i \in DOMAIN row, game \in Live(games) : game.slot # Off =>
          /\ Resurfaced(row[i].slot, game.slot)
          /\ Plays(game) \cap Plays(row[i]) # {} => Rested(row[i].slot, game.slot, rules)

\* Nor was ice left that a pairing without a slot could have had.
NothingLeftOver(draft) ==
  \A i \in DOMAIN draft.left :
    \A slot \in Offered(Now, draft.asked) \ SlotsOf(draft.placed) :
      SlotRefusal(slot, Plays(draft.left[i]), draft.asked.rules, Now, draft.placed) # <<"none">>

\* Every proposal shown completes what is on the calendar to exactly the
\* format asked for, home games as level as can be (games_per_team_residual_
\* pairings, _split_already_scheduled).
ProposalsKeepTheFormat ==
  [][\A o \in Operators : reviewed'[o] # reviewed[o] => KeepsFormat(reviewed'[o])]_commitVars

\* Its games clash with none there is and with none of each other, and a
\* pairing is left without ice only when no free slot would do (_assign_ice
\* never goes back on a pick).
ProposalsPlaceWell ==
  [][\A o \in Operators : reviewed'[o] # reviewed[o] =>
       PlacedWell(reviewed'[o]) /\ NothingLeftOver(reviewed'[o])]_commitVars

Lands(o) == call[o].stage = "checked" /\ call'[o].stage = "committed"

HostsAfter(home, away) ==
  Cardinality({game \in Live(games') : game.regular /\ game.home = home /\ game.away = away})
After(a, b) == HostsAfter(a, b) + HostsAfter(b, a)

\* Whatever was booked, called off or committed since the review, a commit
\* takes no team past its guarantee and no pair past its meetings, and one
\* that placed everything ends with exactly what was asked
\* (_commit_draft_schedule_attempt; a lost race must not make a game twice).
CommitsOnlyWhatIsMissing ==
  [][\A o \in Operators : Lands(o) =>
       LET draft == call'[o].draft
           plays(t) == MapThenSumSet(LAMBDA u : After(t, u), teams \ {t})
       IN IF draft.asked.format = "games"
          THEN \A t \in teams :
                 /\ plays(t) <= Asked(draft)
                 /\ draft.left = <<>> /\ Cardinality(teams) > 1 => plays(t) = Asked(draft)
          ELSE \A game \in call'[o].made : After(game.home, game.away) <= Asked(draft)]_commitVars

\* A commit writes into the season its operator has chosen at that moment, on
\* ice that season may use then, between teams registered then, and nothing
\* it writes clashes with any game of the calendar.
CommitsWhereItMay ==
  [][\A o \in Operators : Lands(o) =>
       /\ chosen[o] = "here" /\ open
       /\ \A game \in call'[o].made :
            /\ Plays(game) \subseteq teams /\ Ice[game.slot].rink \in access
            /\ \A other \in Live(games') : other # game /\ other.slot # Off =>
                 /\ Resurfaced(game.slot, other.slot)
                 /\ Plays(game) \cap Plays(other) # {} =>
                      Rested(game.slot, other.slot, call'[o].draft.asked.rules)]_commitVars

FormatKept == ProposalsKeepTheFormat /\ CommitsOnlyWhatIsMissing
IceKept == ProposalsPlaceWell /\ CommitsWhereItMay
=============================================================================
