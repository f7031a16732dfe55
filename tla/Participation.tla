------------------------------- MODULE Participation -------------------------------
(***************************************************************************)
(* Who plays where: the seasons of one program, the leagues bound to them, *)
(* each team's permanent league, its registrations, the divisions, and the *)
(* players' memberships of a team in a season (services/setup_service.py). *)
(*                                                                         *)
(* Every operation is one transaction that locks the team, the league and  *)
(* the season it writes and reads its rows again under those locks, so it  *)
(* is one action here.  What is hard is not a race but the calls: each of  *)
(* them keeps the others' records consistent by its own checks, and a      *)
(* season that was archived or over while its team changed leagues can be  *)
(* written again afterwards.                                               *)
(*                                                                         *)
(* A registration is the row of a team at a league's season; the row that  *)
(* a call moves is the same row at another key.  Membership states are     *)
(* grouped as the code's checks group them; jerseys are left out.  A       *)
(* team's games at a key are represented by the liveliest of them, against *)
(* teams the model leaves out.                                             *)
(***************************************************************************)
EXTENDS FiniteSets, Naturals

CONSTANTS
  Seasons, Leagues, Teams, Divisions, Players,
  Ended,     \* seasons whose end date has passed
  Nowhere,   \* no division, no league's season, no team
  HomeOf     \* team -> the permanent league it was created in

ASSUME ParticipationAssumption ==
  /\ Ended \subseteq Seasons
  /\ HomeOf \in [Teams -> Leagues]
  /\ Nowhere \notin Divisions \cup Teams \cup (Leagues \X Seasons)
  /\ IsFiniteSet(Leagues)

VARIABLES
  seasons,     \* seasons that exist
  archived,    \* of them, the archived ones
  bound,       \* league-seasons: <<league, season>>
  leagueOf,    \* team -> permanent league
  reg,         \* <<team, league, season>> -> [state, division]
  divisionOf,  \* division -> its league-season
  membership,  \* <<player, league, season>> -> [state, team] of the open row
  teamOf,      \* player -> permanent team
  parked,      \* players that are not active
  playing,     \* <<team, league, season>> -> <<state, division>> of its games
  rebound      \* <<team, season>> whose live registration a call moved although
               \* memberships stood on it (history)

spineVars == <<seasons, archived, bound>>
playerVars == <<membership, teamOf, parked>>
tables == <<spineVars, leagueOf, reg, divisionOf, playerVars, playing, rebound>>

Keys == Teams \X Leagues \X Seasons
Stints == Players \X Leagues \X Seasons
NoRow == [state |-> "none", division |-> Nowhere]
NoStint == [state |-> "none", team |-> Nowhere]
Row(state, division) == [state |-> state, division |-> division]

ParticipationTypeOK ==
  /\ archived \subseteq seasons /\ seasons \subseteq Seasons
  /\ bound \subseteq Leagues \X seasons
  /\ leagueOf \in [Teams -> Leagues]
  /\ reg \in [Keys -> [state : {"none", "active", "inactive"},
                       division : Divisions \cup {Nowhere}]]
  /\ divisionOf \in [Divisions -> (Leagues \X Seasons) \cup {Nowhere}]
  /\ membership \in [Stints -> [state : {"none", "active", "affiliate", "parked"},
                                team : Teams \cup {Nowhere}]]
  /\ teamOf \in [Players -> Teams \cup {Nowhere}] /\ parked \subseteq Players
  /\ playing \in [Keys -> SUBSET ({"live", "cancelled"} \X (Divisions \cup {Nowhere}))]
  /\ rebound \subseteq Teams \X Seasons

ParticipationInit ==
  /\ seasons = {} /\ archived = {} /\ bound = {}
  /\ leagueOf = HomeOf
  /\ reg = [k \in Keys |-> NoRow]
  /\ divisionOf = [d \in Divisions |-> Nowhere]
  /\ membership = [k \in Stints |-> NoStint]
  /\ teamOf = [p \in Players |-> Nowhere] /\ parked = {}
  /\ playing = [k \in Keys |-> {}]
  /\ rebound = {}

-----------------------------------------------------------------------------
(* What the checks ask *)

Historical(s) == s \in archived \cup Ended
Writable(s) == s \in seasons \ archived
Registered(t, l, s) == reg[<<t, l, s>>].state = "active"
Live(t, l, s) == \E g \in playing[<<t, l, s>>] : g[1] = "live"
PlaysIn(t, s) == \E l \in Leagues : Live(t, l, s)
Open(t, l, s) == {p \in Players : membership[<<p, l, s>>].team = t}
ElsewhereActive(t, l, s) == \E m \in Leagues \ {l} : Registered(t, m, s)
ActiveIn(p, s) == {l \in Leagues : membership[<<p, l, s>>].state = "active"}

\* A division may go with a registration at the key of its own league's season.
Fits(d, l, s) == d \in {Nowhere} \cup {e \in Divisions : divisionOf[e] = <<l, s>>}

\* A membership may be opened, or revived: its team sits in that league and is
\* registered there.
SpineHolds(t, l, s) == leagueOf[t] = l /\ Registered(t, l, s)

Link(l, s) == bound' = bound \cup {<<l, s>>}

-----------------------------------------------------------------------------
(* Seasons and their leagues *)

CreateSeason(s) ==
  /\ s \notin seasons /\ seasons' = seasons \cup {s}
  /\ UNCHANGED <<archived, bound, leagueOf, reg, divisionOf, playerVars, playing, rebound>>

ArchiveSeason(s) ==
  /\ Writable(s) /\ archived' = archived \cup {s}
  /\ UNCHANGED <<seasons, bound, leagueOf, reg, divisionOf, playerVars, playing, rebound>>

ReopenSeason(s) ==
  /\ s \in archived /\ archived' = archived \ {s}
  /\ UNCHANGED <<seasons, bound, leagueOf, reg, divisionOf, playerVars, playing, rebound>>

\* Nothing of the league may be left in the season, whatever its state.
UnusedBinding(l, s) ==
  /\ \A d \in Divisions : divisionOf[d] # <<l, s>>
  /\ \A t \in Teams : reg[<<t, l, s>>].state = "none" /\ playing[<<t, l, s>>] = {}
  /\ \A p \in Players : membership[<<p, l, s>>].state = "none"

DeleteSeason(s) ==
  /\ Writable(s)
  /\ \A l \in Leagues : <<l, s>> \notin bound /\ UnusedBinding(l, s)
  /\ seasons' = seasons \ {s}
  /\ UNCHANGED <<archived, bound, leagueOf, reg, divisionOf, playerVars, playing, rebound>>

CreateLeagueSeason(l, s) ==
  /\ Writable(s) /\ Link(l, s)
  /\ UNCHANGED <<seasons, archived, leagueOf, reg, divisionOf, playerVars, playing, rebound>>

DeleteLeagueSeason(l, s) ==
  /\ Writable(s) /\ <<l, s>> \in bound /\ UnusedBinding(l, s)
  /\ bound' = bound \ {<<l, s>>}
  /\ UNCHANGED <<seasons, archived, leagueOf, reg, divisionOf, playerVars, playing, rebound>>

-----------------------------------------------------------------------------
(* Divisions *)

CreateDivision(d, l, s) ==
  /\ divisionOf[d] = Nowhere /\ Writable(s)
  /\ Link(l, s) /\ divisionOf' = [divisionOf EXCEPT ![d] = <<l, s>>]
  /\ UNCHANGED <<seasons, archived, leagueOf, reg, playerVars, playing, rebound>>

\* Created under a league, it takes the binding the league already has.
CreateDivisionUnderLeague(d, l, s) ==
  /\ divisionOf[d] = Nowhere /\ Writable(s) /\ <<l, s>> \in bound
  /\ divisionOf' = [divisionOf EXCEPT ![d] = <<l, s>>]
  /\ UNCHANGED <<spineVars, leagueOf, reg, playerVars, playing, rebound>>

\* The second version of the call looks for what the move would leave behind;
\* the first does not.
LeavesBehind(d, l) ==
  \E k \in Keys : k[2] # l /\ (reg[k] = Row("active", d) \/ <<"live", d>> \in playing[k])

AssignDivisionLeague(d, l, v2) ==
  /\ divisionOf[d] # Nowhere /\ Writable(divisionOf[d][2])
  /\ v2 => ~LeavesBehind(d, l)
  /\ Link(l, divisionOf[d][2])
  /\ divisionOf' = [divisionOf EXCEPT ![d] = <<l, @[2]>>]
  /\ UNCHANGED <<seasons, archived, leagueOf, reg, playerVars, playing, rebound>>


Retired(d) ==
  [k \in Keys |-> IF reg[k] = Row("inactive", d) THEN Row("inactive", Nowhere) ELSE reg[k]]

\* Retired registrations let go of the division; active ones, and any game, keep it.
DeleteDivision(d) ==
  /\ divisionOf[d] # Nowhere /\ Writable(divisionOf[d][2])
  /\ \A k \in Keys : reg[k] # Row("active", d) /\ \A g \in playing[k] : g[2] # d
  /\ divisionOf' = [divisionOf EXCEPT ![d] = Nowhere] /\ reg' = Retired(d)
  /\ UNCHANGED <<spineVars, leagueOf, playerVars, playing, rebound>>

-----------------------------------------------------------------------------
(* Registrations *)

\* A team's active players each get the stint a new registration implies,
\* unless the season's records already say something of them.

Mirrored(t, l, s) ==
  [k \in Stints |->
     IF /\ k[2] = l /\ k[3] = s /\ teamOf[k[1]] = t /\ k[1] \notin parked
        /\ membership[k].state = "none" /\ ActiveIn(k[1], s) = {}
     THEN [state |-> "active", team |-> t] ELSE membership[k]]

RegisterTeam(t, s, d) ==
  LET l == leagueOf[t] IN
  /\ Writable(s) /\ Fits(d, l, s)
  /\ ~ElsewhereActive(t, l, s) /\ ~Registered(t, l, s)
  /\ Link(l, s)
  /\ reg' = [reg EXCEPT ![<<t, l, s>>] = Row("active", d)]
  /\ membership' = Mirrored(t, l, s)
  /\ UNCHANGED <<seasons, archived, leagueOf, divisionOf, teamOf, parked, playing, rebound>>

\* The row at l goes to the team's own league m: a live one takes the place of
\* a retired row there, and with no row there it moves and keeps its state, and
\* its division if that has moved to m before it.
Moved(t, l, m, s) ==
  LET row == reg[<<t, l, s>>] IN
  IF reg[<<t, m, s>>].state = "none"
  THEN [reg EXCEPT ![<<t, l, s>>] = NoRow,
                   ![<<t, m, s>>] = Row(row.state, IF Fits(row.division, m, s) THEN row.division
                                               ELSE Nowhere)]
  ELSE [reg EXCEPT ![<<t, l, s>>] = Row("inactive", @.division),
                   ![<<t, m, s>>] = Row("active", Nowhere)]

\* Rebinding asks for games of the old league and for nothing else.
Rebinding(t, l, s) ==
  rebound' = IF Open(t, l, s) # {} THEN rebound \cup {<<t, s>>} ELSE rebound

AssignSeasonTeamLeague(t, l, s) ==
  LET m == leagueOf[t] IN
  /\ reg[<<t, l, s>>].state # "none" /\ m # l /\ Writable(s)
  /\ ~Live(t, l, s)
  /\ \/ reg[<<t, m, s>>].state = "none"
     \/ Registered(t, l, s) /\ reg[<<t, m, s>>].state = "inactive"
  /\ Link(m, s) /\ reg' = Moved(t, l, m, s) /\ Rebinding(t, l, s)
  /\ UNCHANGED <<seasons, archived, leagueOf, divisionOf, playerVars, playing>>

AssignSeasonTeamDivision(t, l, s, d) ==
  /\ reg[<<t, l, s>>].state # "none" /\ Writable(s)
  /\ reg[<<t, l, s>>].division # d /\ Fits(d, l, s) /\ ~PlaysIn(t, s)
  /\ reg' = [reg EXCEPT ![<<t, l, s>>].division = d]
  /\ UNCHANGED <<spineVars, leagueOf, divisionOf, playerVars, playing, rebound>>

\* The seasons whose registration a transfer takes along: not those that are
\* history, whose registrations stay where they are, active.
Transferable_Memberless(t, m) ==
  {k \in Keys : /\ k[1] = t /\ k[2] # m /\ reg[k].state = "active"
                /\ ~Historical(k[3]) /\ Open(t, k[2], k[3]) = {}}

Transferable(t, m) ==
  {k \in Keys : k[1] = t /\ k[2] # m /\ reg[k].state = "active" /\ ~Historical(k[3])}

\* What moving a registration, or retiring it, would leave behind.
Strands_Memberships(t, l, s) == Open(t, l, s) # {}
Strands(t, l, s) == PlaysIn(t, s) \/ Open(t, l, s) # {}

MayTransfer(t, m) ==
  /\ leagueOf[t] # m
  /\ \A k \in Transferable(t, m) : ~Strands(t, k[2], k[3]) /\ ~Registered(t, m, k[3])

\* The row of team k[1] at key k, once the team is in league m.
TransferredRow(k, m) ==
  LET going == Transferable(k[1], m) IN
  IF \E j \in going : k = <<k[1], m, j[3]>> THEN Row("active", Nowhere)
  ELSE IF k \notin going THEN reg[k]
  ELSE IF reg[<<k[1], m, k[3]>>].state = "none" THEN NoRow
  ELSE Row("inactive", reg[k].division)

TransferTeam(t, m) ==
  /\ MayTransfer(t, m)
  /\ leagueOf' = [leagueOf EXCEPT ![t] = m]
  /\ bound' = bound \cup {<<m, k[3]>> : k \in Transferable(t, m)}
  /\ reg' = [k \in Keys |-> IF k[1] = t THEN TransferredRow(k, m) ELSE reg[k]]
  /\ UNCHANGED <<seasons, archived, divisionOf, playerVars, playing, rebound>>

UnregisterTeam(t, l, s) ==
  /\ Registered(t, l, s) /\ Writable(s)
  /\ ~Strands(t, l, s)
  /\ reg' = [reg EXCEPT ![<<t, l, s>>].state = "inactive"]
  /\ UNCHANGED <<spineVars, leagueOf, divisionOf, playerVars, playing, rebound>>

DeleteRegistration(t, l, s) ==
  /\ reg[<<t, l, s>>].state = "inactive" /\ Writable(s)
  /\ \A m \in Leagues : playing[<<t, m, s>>] = {}
  /\ Open(t, l, s) = {}
  /\ reg' = [reg EXCEPT ![<<t, l, s>>] = NoRow]
  /\ UNCHANGED <<spineVars, leagueOf, divisionOf, playerVars, playing, rebound>>

-----------------------------------------------------------------------------
(* Rolling a season's teams into another: all of the selected teams or none *)

RegisteredTeams(s) == {t \in Teams : \E l \in Leagues : Registered(t, l, s)}

\* The row the roll-forward writes, and where it comes from: the row of the
\* team's own league, or else the one active row elsewhere, which moves.
MovesFrom(t, s) ==
  {l \in Leagues \ {leagueOf[t]} : Registered(t, l, s) /\ reg[<<t, leagueOf[t], s>>].state = "none"}

Rollable(from, to, chosen, division) ==
  /\ from \in seasons /\ Writable(to) /\ from # to
  /\ chosen # {} /\ chosen \subseteq RegisteredTeams(from)
  /\ \A t \in chosen : Fits(division[t], leagueOf[t], to)

RollForward(from, to, chosen, division) ==
  LET new == {t \in chosen : ~Registered(t, leagueOf[t], to)} IN
  /\ Rollable(from, to, chosen, division)
  /\ \A t \in chosen :
       /\ reg[<<t, leagueOf[t], to>>].state # "none" => ~ElsewhereActive(t, leagueOf[t], to)
       /\ Cardinality(MovesFrom(t, to)) <= 1
       /\ \A l \in MovesFrom(t, to) : ~Live(t, l, to)
  /\ bound' = bound \cup {<<leagueOf[t], to>> : t \in chosen}
  /\ reg' = [k \in Keys |->
       IF k[3] = to /\ k[1] \in new /\ k[2] = leagueOf[k[1]] THEN Row("active", division[k[1]])
       ELSE IF k[3] = to /\ k[1] \in new /\ k[2] \in MovesFrom(k[1], to) THEN NoRow
       ELSE reg[k]]
  /\ rebound' = rebound \cup
       {<<t, to>> : t \in {u \in new : \E l \in MovesFrom(u, to) : Open(u, l, to) # {}}}
  /\ UNCHANGED <<seasons, archived, leagueOf, divisionOf, playerVars, playing>>

\* The second version refuses a team that is active elsewhere in the season, or
\* there already in another division.
RollForwardV2(from, to, chosen, division) ==
  LET new == {t \in chosen : ~Registered(t, leagueOf[t], to)} IN
  /\ Rollable(from, to, chosen, division)
  /\ \A t \in chosen :
       /\ ~ElsewhereActive(t, leagueOf[t], to)
       /\ t \notin new => reg[<<t, leagueOf[t], to>>].division = division[t]
  /\ bound' = bound \cup {<<leagueOf[t], to>> : t \in chosen}
  /\ reg' = [k \in Keys |->
       IF k[3] = to /\ k[1] \in new /\ k[2] = leagueOf[k[1]] THEN Row("active", division[k[1]])
       ELSE reg[k]]
  /\ UNCHANGED <<seasons, archived, leagueOf, divisionOf, playerVars, playing, rebound>>

-----------------------------------------------------------------------------
(* Players and their memberships *)

\* Every active registration of the team in a season that is not archived gets
\* the new player's membership, or the player is not added at all.
AddPlayer(p, t, active) ==
  /\ teamOf[p] = Nowhere
  /\ active => \A l \in Leagues, s \in seasons \ archived :
                 Registered(t, l, s) => leagueOf[t] = l
  /\ teamOf' = [teamOf EXCEPT ![p] = t]
  /\ parked' = IF active THEN parked \ {p} ELSE parked \cup {p}
  /\ membership' = IF ~active THEN membership ELSE
       [k \in Stints |-> IF k[1] = p /\ k[3] \in seasons \ archived /\ Registered(t, k[2], k[3])
                         THEN [state |-> "active", team |-> t] ELSE membership[k]]
  /\ UNCHANGED <<spineVars, leagueOf, reg, divisionOf, playing, rebound>>

AssignPlayerTeam(p, t) ==
  /\ teamOf[p] # Nowhere /\ teamOf' = [teamOf EXCEPT ![p] = t]
  /\ UNCHANGED <<spineVars, leagueOf, reg, divisionOf, membership, parked, playing, rebound>>

SetPlayerActive(p, active) ==
  /\ teamOf[p] # Nowhere
  /\ parked' = IF active THEN parked \ {p} ELSE parked \cup {p}
  /\ UNCHANGED <<spineVars, leagueOf, reg, divisionOf, membership, teamOf, playing, rebound>>

CreateMembership(p, t, l, s, state) ==
  /\ teamOf[p] # Nowhere /\ Writable(s) /\ SpineHolds(t, l, s)
  /\ membership[<<p, l, s>>].state = "none"
  /\ state = "active" => ActiveIn(p, s) = {}
  /\ membership' = [membership EXCEPT ![<<p, l, s>>] = [state |-> state, team |-> t]]
  /\ UNCHANGED <<spineVars, leagueOf, reg, divisionOf, teamOf, parked, playing, rebound>>

\* An ending state is refused; leaving a parked state, or becoming active,
\* asks for the registration again.
Revives(old, state) == state = "active" \/ (old = "parked" /\ state = "affiliate")

SetMembership(p, l, s, state) ==
  LET old == membership[<<p, l, s>>] IN
  /\ old.state \notin {"none", state} /\ Writable(s)
  /\ Revives(old.state, state) => SpineHolds(old.team, l, s)
  /\ state = "active" => ActiveIn(p, s) = {}
  /\ membership' = [membership EXCEPT ![<<p, l, s>>].state = state]
  /\ UNCHANGED <<spineVars, leagueOf, reg, divisionOf, teamOf, parked, playing, rebound>>

-----------------------------------------------------------------------------
(* Games, as far as the calls above ask about them *)

Schedule(t, l, s, d) ==
  /\ Writable(s) /\ SpineHolds(t, l, s) /\ ~ElsewhereActive(t, l, s)
  /\ d \in {Nowhere, reg[<<t, l, s>>].division} /\ Fits(d, l, s)
  /\ playing' = [playing EXCEPT ![<<t, l, s>>] = @ \cup {<<"live", d>>}]
  /\ UNCHANGED <<spineVars, leagueOf, reg, divisionOf, playerVars, rebound>>

CancelGame(t, l, s, d) ==
  /\ <<"live", d>> \in playing[<<t, l, s>>] /\ Writable(s)
  /\ playing' = [playing EXCEPT ![<<t, l, s>>] = (@ \ {<<"live", d>>}) \cup {<<"cancelled", d>>}]
  /\ UNCHANGED <<spineVars, leagueOf, reg, divisionOf, playerVars, rebound>>

\* Drafts are deleted; a cancelled game stays.
DeleteDraft(t, l, s, d) ==
  /\ <<"live", d>> \in playing[<<t, l, s>>] /\ Writable(s)
  /\ playing' = [playing EXCEPT ![<<t, l, s>>] = @ \ {<<"live", d>>}]
  /\ UNCHANGED <<spineVars, leagueOf, reg, divisionOf, playerVars, rebound>>

-----------------------------------------------------------------------------
SpineCall ==
  \/ \E s \in Seasons : CreateSeason(s) \/ DeleteSeason(s) \/ ArchiveSeason(s) \/ ReopenSeason(s)
  \/ \E l \in Leagues, s \in Seasons : CreateLeagueSeason(l, s) \/ DeleteLeagueSeason(l, s)
  \/ \E d \in Divisions :
       \/ DeleteDivision(d)
       \/ \E l \in Leagues, v2 \in BOOLEAN : AssignDivisionLeague(d, l, v2)
       \/ \E l \in Leagues, s \in Seasons : CreateDivision(d, l, s) \/ CreateDivisionUnderLeague(d, l, s)

RegistrationCall ==
  \/ \E t \in Teams, s \in Seasons, d \in Divisions \cup {Nowhere} :
       RegisterTeam(t, s, d) \/ \E l \in Leagues : AssignSeasonTeamDivision(t, l, s, d)
  \/ \E t \in Teams, l \in Leagues, s \in Seasons :
       AssignSeasonTeamLeague(t, l, s) \/ UnregisterTeam(t, l, s) \/ DeleteRegistration(t, l, s)
  \/ \E t \in Teams, l \in Leagues : TransferTeam(t, l)
  \/ \E from, to \in Seasons, chosen \in SUBSET Teams :
       \E division \in [chosen -> Divisions \cup {Nowhere}] :
         RollForward(from, to, chosen, division) \/ RollForwardV2(from, to, chosen, division)

PlayerCall ==
  \/ \E p \in Players, active \in BOOLEAN :
       SetPlayerActive(p, active) \/ \E t \in Teams : AddPlayer(p, t, active)
  \/ \E p \in Players, t \in Teams : AssignPlayerTeam(p, t)
  \/ \E p \in Players, l \in Leagues, s \in Seasons, state \in {"active", "affiliate", "parked"} :
       SetMembership(p, l, s, state) \/ \E t \in Teams : CreateMembership(p, t, l, s, state)

GameCall ==
  \E t \in Teams, l \in Leagues, s \in Seasons, d \in Divisions \cup {Nowhere} :
    Schedule(t, l, s, d) \/ CancelGame(t, l, s, d) \/ DeleteDraft(t, l, s, d)

ParticipationNext == SpineCall \/ RegistrationCall \/ PlayerCall \/ GameCall
ParticipationSpec == ParticipationInit /\ [][ParticipationNext]_tables

-----------------------------------------------------------------------------
(* Properties *)

\* A team takes part in a season once: register, rebind, transfer and roll
\* forward never leave it two active registrations there.
OneRegistration ==
  \A t \in Teams, s \in Seasons :
    Cardinality({l \in Leagues : Registered(t, l, s)}) <= 1

\* A live game's team is actively registered at the key the game counts in,
\* whatever became of the team, its league or its division since.
Fielded ==
  \A t \in Teams, l \in Leagues, s \in Seasons : Live(t, l, s) => Registered(t, l, s)

\* A player is active for one team in a season.
OneMembership == \A p \in Players, s \in Seasons : Cardinality(ActiveIn(p, s)) <= 1

\* Nothing refers to what is gone: rows stand in a bound league-season of an
\* existing season, and a registration's division exists.
Anchored ==
  /\ \A k \in Keys :
       reg[k].state # "none" \/ playing[k] # {} => <<k[2], k[3]>> \in bound
  /\ \A k \in Stints : membership[k].state # "none" => <<k[2], k[3]>> \in bound
  /\ \A d \in Divisions : divisionOf[d] # Nowhere => divisionOf[d] \in bound
  /\ \A k \in Keys : reg[k].division # Nowhere => divisionOf[reg[k].division] # Nowhere
  /\ \A b \in bound : b[2] \in seasons

\* A registration's division is one of the season the registration is in (what
\* docs/architecture/decisions/0001-competition-model-reset.md:79 asks).
DivisionsInSeason ==
  \A k \in Keys : reg[k].division # Nowhere =>
    divisionOf[reg[k].division] \in Leagues \X {k[3]}

\* Membership without participation: an open membership's team is actively
\* registered where the membership is, unless a call moved the registration
\* from under it.
Backed ==
  \A k \in Stints : membership[k].state # "none" =>
    Registered(membership[k].team, k[2], k[3]) \/ <<membership[k].team, k[3]>> \in rebound

\* No call ever moves a live registration from under the memberships on it
\* (what transfer_team_to_league and unregister_team_from_season refuse).
NeverStranded == rebound = {}

\* Every team may be given a new active player: the membership its
\* registrations imply can be opened in each season that is not archived.
PlayersCanJoin ==
  \A t \in Teams, l \in Leagues, s \in seasons \ archived :
    Registered(t, l, s) => SpineHolds(t, l, s)

\* In a season that is not history a team's registration stays in the team's
\* own league: only a season that was archived or over while its team moved
\* shows another league's, and a call may only mend that.
Aligned(t, s) == \A l \in Leagues : Registered(t, l, s) => leagueOf[t] = l
StaysAligned ==
  [][\A t \in Teams, s \in Seasons : Aligned(t, s) /\ ~Historical(s) => Aligned(t, s)']_tables
================================================================================
