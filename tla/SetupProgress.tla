------------------------------ MODULE SetupProgress ------------------------------
(***************************************************************************)
(* What the operator is told to do next, from the records Participation    *)
(* keeps: the workflows of one working context (api/service.py,            *)
(* get_setup_progress) and the readiness of the installation               *)
(* (get_onboarding_status_v2).  Both only read; what they promise is that  *)
(* the step they name can be taken.                                        *)
(*                                                                         *)
(* A context is a season and a league, either may be Nowhere.  reach are   *)
(* the seasons with active access to a venue that has a rink, free those   *)
(* of them with an available game slot on such a rink; installed says      *)
(* whether there is an administrator, durable storage, a current schema    *)
(* and an organization.  There is one program, and its teams exist.        *)
(***************************************************************************)
EXTENDS Participation, Sequences

Workflows == <<"league_season", "teams", "participation", "roster", "facilities">>
Roles == {"league_admin", "arena_manager"}
MayManage(role, w) == role = "league_admin" \/ w = "facilities"

\* A selected league is one its season runs.
Contexts == {c \in (seasons \cup {Nowhere}) \X (Leagues \cup {Nowhere}) :
               c[2] # Nowhere /\ c[1] # Nowhere => <<c[2], c[1]>> \in bound}

LeagueTeams(l) == {t \in Teams : l \in {Nowhere, leagueOf[t]}}
SeasonLeagues(s, l) == {m \in Leagues : <<m, s>> \in bound /\ l \in {Nowhere, m}}

-----------------------------------------------------------------------------
(* One context's workflows *)

\* team_registration_valid: the one active row of the team in the season, and
\* it is in the team's own league.
Trusted(k) ==
  Registered(k[1], k[2], k[3]) /\ k[2] = leagueOf[k[1]] /\ ~ElsewhereActive(k[1], k[2], k[3])

InScope(s, l) == {k \in Keys : Registered(k[1], k[2], k[3]) /\ k[3] = s /\ k[2] \in SeasonLeagues(s, l)}
Schedulable(s, l) == {k \in InScope(s, l) : Trusted(k) /\ Fits(reg[k].division, k[2], s)}
Attention(s, l) == InScope(s, l) \ Schedulable(s, l)

LeaguesEverywhere == \A s \in seasons : \E l \in Leagues : <<l, s>> \in bound

DoneIn(s, l, free) ==
  {w \in {"league_season", "teams", "participation", "roster", "facilities"} :
     CASE w = "league_season" -> seasons # {} /\ LeaguesEverywhere
       [] w = "teams" -> LeagueTeams(l) # {}
       [] w = "participation" -> Schedulable(s, l) # {}
       [] w = "roster" -> \E p \in Players : teamOf[p] \in LeagueTeams(l)
       [] w = "facilities" -> s \in free}

Eligible(s, l) == \E t \in Teams : leagueOf[t] \in SeasonLeagues(s, l)

\* The first hard prerequisite a workflow's own write would fail on.
Gap_AnySeason(w, s, l, reach) ==
  CASE w \notin {"participation", "facilities"} -> "none"
    [] s = Nowhere -> "season_missing"
    [] w = "facilities" /\ s \notin reach -> "venue_access_missing"
    [] w = "participation" /\ ~Eligible(s, l) -> "team_league_mismatch"
    [] OTHER -> "none"
Gap(w, s, l, reach) ==
  CASE w \notin {"participation", "facilities"} -> "none"
    [] s = Nowhere -> "season_missing"
    [] s \in archived -> "season_archived"
    [] w = "facilities" /\ s \notin reach -> "venue_access_missing"
    [] w = "participation" /\ ~Eligible(s, l) -> "team_league_mismatch"
    [] OTHER -> "none"

\* The first workflow left to do that this role manages is next, or is blocked
\* in place; whether all is complete is told only to a role that sees it all.
Progress(role, s, l, done, reach) ==
  LET managed == SelectSeq(Workflows, LAMBDA w : MayManage(role, w))
      todo == SelectSeq(managed, LAMBDA w : w \notin done)
      first == IF todo = <<>> THEN "none" ELSE Head(todo)
      gap == Gap(first, s, l, reach)
  IN [workflows |-> {<<managed[i], managed[i] \in done>> : i \in DOMAIN managed},
      next |-> IF gap = "none" THEN first ELSE "none",
      blocked |-> gap,
      complete |-> IF Len(managed) = Len(Workflows) THEN {todo = <<>>} ELSE {}]

-----------------------------------------------------------------------------
(* The whole installation *)

Playable == {k \in Keys : /\ Registered(k[1], k[2], k[3]) /\ k[2] = leagueOf[k[1]]
                          /\ Fits(reg[k].division, k[2], k[3])}
Invalid == {k \in Keys : Registered(k[1], k[2], k[3])} \ Playable

Step(done, code) == [done |-> done, code |-> code]
Steps(installed, reach, free) ==
  {Step(installed, "installation"), Step(reach # {}, "no_venue_access_granted"),
   Step(reach # {}, "no_rink"), Step(free # {}, "no_available_ice"),
   Step(seasons # {}, "no_season"), Step(seasons # {} /\ LeaguesEverywhere, "no_league"),
   Step(Playable # {}, "no_participation")}

\* What blocks: a later step is only called missing once those before it are there.
Blocking(installed, reach, free) ==
  {code \in {step.code : step \in {st \in Steps(installed, reach, free) : ~st.done}} :
     CASE code \in {"no_rink", "no_available_ice"} -> reach # {}
       [] code = "no_league" -> seasons # {}
       [] code = "no_participation" -> seasons # {} /\ LeaguesEverywhere
       [] OTHER -> TRUE}
  \cup (IF Invalid # {} THEN {"invalid_registrations"} ELSE {})
Ready(installed, reach, free) == Blocking(installed, reach, free) = {}
Warned == \A p \in Players : teamOf[p] = Nowhere
CompleteSetup(installed, reach, free) == Ready(installed, reach, free) /\ ~Warned

-----------------------------------------------------------------------------
(* "what's actually safe to execute right now, not merely permitted": the  *)
(* registration it sends the operator to can be made, for some team, or a  *)
(* registration of that season stands in the way and is listed for mending *)
(* to whoever looks at the whole season.                                   *)
NextIsDoable ==
  \A c \in Contexts : LET s == c[1]  l == c[2] IN
    Progress("league_admin", s, l, DoneIn(s, l, {}), {}).next = "participation" =>
      \/ \E t \in Teams : ENABLED RegisterTeam(t, s, Nowhere)
      \/ Attention(s, Nowhere) # {}

(* An arena manager's answer tells nothing of the workflows it hides.      *)
HiddenStaysHidden ==
  \A c \in Contexts : LET s == c[1]  l == c[2] IN
    \A free \in {{}, {s}} :
      Progress("arena_manager", s, l, DoneIn(s, l, free), {s}) =
        Progress("arena_manager", s, l, IF s \in free THEN {"facilities"} ELSE {}, {s})

(* "Each workflow's own done boundary mirrors the matching                 *)
(* get_onboarding_status_v2 step", although one asks team_registration_    *)
(* valid and the other looks at each row for itself: what a season's       *)
(* context calls schedulable, and what it calls amiss, the installation    *)
(* does too, and the leagues' contexts add up to the season's.             *)
MirrorsOnboarding ==
  \A s \in seasons :
    /\ Schedulable(s, Nowhere) = {k \in Playable : k[3] = s}
    /\ Attention(s, Nowhere) = {k \in Invalid : k[3] = s}
    /\ Schedulable(s, Nowhere) = UNION {Schedulable(s, l) : l \in Leagues}

(* An installation that is ready has a team a game can be made for, unless *)
(* all that is registered is in archived seasons; and it is not ready only *)
(* for a reason it names.                                                  *)
ReadyMeansReady ==
  \A reach \in SUBSET seasons : \A free \in {{}, reach} :
    LET ready == Ready(TRUE, reach, free) IN
    /\ ready = ((\A step \in Steps(TRUE, reach, free) : step.done) /\ Invalid = {})
    /\ ready /\ (\E k \in Playable : k[3] \notin archived) =>
         \E k \in Playable : ENABLED Schedule(k[1], k[2], k[3], Nowhere)

GuidanceSound == NextIsDoable /\ HiddenStaysHidden /\ MirrorsOnboarding /\ ReadyMeansReady
================================================================================
