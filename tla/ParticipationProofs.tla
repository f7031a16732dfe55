-------------------------- MODULE ParticipationProofs --------------------------
(***************************************************************************)
(* Proofs about the setup of seasons (Participation, CopyForward and       *)
(* SheetImport), for every set of seasons, leagues, teams, divisions,      *)
(* players and operators and every sheet.                                  *)
(***************************************************************************)
EXTENDS MCParticipation, FiniteSetTheorems, TLAPS

-----------------------------------------------------------------------------
(* What the tables satisfy between any two calls.                          *)

\* A row that is not there has no division, and an open stint has a team.
Tidy ==
  /\ \A k \in Keys : reg[k].state = "none" => reg[k] = NoRow
  /\ \A k \in Stints : membership[k].state = "none" <=> membership[k].team = Nowhere
  /\ \A k \in Stints : teamOf[k[1]] = Nowhere => membership[k].state = "none"
\* OneRegistration and OneMembership without counting.
Once ==
  \A t \in Teams, l, m \in Leagues, s \in Seasons : Registered(t, l, s) /\ Registered(t, m, s) => l = m
ActiveOnce ==
  \A p \in Players, l, m \in Leagues, s \in Seasons :
    membership[<<p, l, s>>].state = "active" /\ membership[<<p, m, s>>].state = "active" => l = m

RegInv == Tidy /\ Once /\ ActiveOnce /\ Fielded /\ Anchored /\ Backed
SetupInv == ParticipationTypeOK /\ RegInv

\* At most one, counted or not.
LEMMA AtMostOne ==
  ASSUME NEW S, \A x, y \in S : x = y
  PROVE  Cardinality(S) <= 1
<1>1. CASE S = {} BY <1>1, FS_EmptySet
<1>2. CASE \E x \in S : TRUE
  <2>1. PICK x \in S : TRUE BY <1>2
  <2>2. S = {x} BY <2>1
  <2>3. QED BY <2>2, FS_Singleton
<1>3. QED BY <1>1, <1>2

LEMMA NoTwo ==
  ASSUME NEW S, IsFiniteSet(S), Cardinality(S) <= 1, NEW x \in S, NEW y \in S
  PROVE  x = y
<1> SUFFICES ASSUME x # y PROVE FALSE OBVIOUS
<1>1. IsFiniteSet({x, y}) /\ Cardinality({x, y}) <= Cardinality(S)
  BY FS_Subset
<1>2. Cardinality({x}) = 1 /\ IsFiniteSet({x}) BY FS_Singleton
<1>3. Cardinality({x} \cup {y}) = 2
  BY <1>2, FS_AddElement
<1>4. {x, y} = {x} \cup {y} OBVIOUS
<1>5. Cardinality(S) \in Nat BY FS_CardinalityType
<1>6. QED BY <1>1, <1>3, <1>4, <1>5

LEMMA CountedOnce == Once => OneRegistration
<1> SUFFICES ASSUME Once, NEW t \in Teams, NEW s \in Seasons
             PROVE  Cardinality({l \in Leagues : Registered(t, l, s)}) <= 1
  BY DEF OneRegistration
<1>1. \A x, y \in {l \in Leagues : Registered(t, l, s)} : x = y BY DEF Once
<1>2. QED BY <1>1, AtMostOne

LEMMA CountedActive == ActiveOnce => OneMembership
<1> SUFFICES ASSUME ActiveOnce, NEW p \in Players, NEW s \in Seasons
             PROVE  Cardinality(ActiveIn(p, s)) <= 1
  BY DEF OneMembership
<1>1. \A x, y \in ActiveIn(p, s) : x = y BY DEF ActiveOnce, ActiveIn
<1>2. QED BY <1>1, AtMostOne

-----------------------------------------------------------------------------
(* The calls on seasons, leagues and divisions.                            *)

LEMMA SeasonCalls ==
  ASSUME SetupInv, NEW s \in Seasons,
         CreateSeason(s) \/ ArchiveSeason(s) \/ ReopenSeason(s) \/ DeleteSeason(s)
  PROVE  SetupInv'
<1> USE ParticipationAssumption DEF SetupInv, RegInv
<1>0. UNCHANGED <<bound, leagueOf, reg, divisionOf, membership, teamOf, parked, playing, rebound>>
  BY DEF CreateSeason, ArchiveSeason, ReopenSeason, DeleteSeason, playerVars
<1>1. ParticipationTypeOK'
  <2>1. CASE CreateSeason(s) BY <2>1, <1>0 DEF CreateSeason, ParticipationTypeOK
  <2>2. CASE ArchiveSeason(s) BY <2>2, <1>0 DEF ArchiveSeason, ParticipationTypeOK, Writable
  <2>3. CASE ReopenSeason(s) BY <2>3, <1>0 DEF ReopenSeason, ParticipationTypeOK
  <2>4. CASE DeleteSeason(s) BY <2>4, <1>0 DEF DeleteSeason, ParticipationTypeOK, Writable
  <2>5. QED BY <2>1, <2>2, <2>3, <2>4
<1>2. Anchored'
  <2>1. \A b \in bound : b[2] \in seasons'
    BY DEF CreateSeason, ArchiveSeason, ReopenSeason, DeleteSeason, ParticipationTypeOK, Anchored
  <2>2. QED BY <1>0, <2>1 DEF Anchored
<1>3. (Tidy /\ Once /\ ActiveOnce /\ Fielded /\ Backed)'
  BY <1>0 DEF Tidy, Once, ActiveOnce, Fielded, Backed, Registered, Live
<1>4. QED BY <1>1, <1>2, <1>3

LEMMA LeagueSeasonCalls ==
  ASSUME SetupInv, NEW l \in Leagues, NEW s \in Seasons,
         CreateLeagueSeason(l, s) \/ DeleteLeagueSeason(l, s)
  PROVE  SetupInv'
<1> USE ParticipationAssumption DEF SetupInv, RegInv
<1>0. UNCHANGED <<seasons, archived, leagueOf, reg, divisionOf, membership, teamOf, parked, playing, rebound>>
  BY DEF CreateLeagueSeason, DeleteLeagueSeason, playerVars
<1>1. ParticipationTypeOK'
  BY <1>0 DEF CreateLeagueSeason, DeleteLeagueSeason, Link, Writable, ParticipationTypeOK
<1>2. Anchored'
  <2>1. CASE CreateLeagueSeason(l, s)
    BY <1>0, <2>1 DEF Anchored, CreateLeagueSeason, Link, Writable
  <2>2. CASE DeleteLeagueSeason(l, s)
    <3>1. \A k \in Keys : <<k[2], k[3]>> = <<l, s>> => reg[k].state = "none" /\ playing[k] = {}
      BY <2>2 DEF DeleteLeagueSeason, UnusedBinding, Keys
    <3>2. \A k \in Stints : <<k[2], k[3]>> = <<l, s>> => membership[k].state = "none"
      BY <2>2 DEF DeleteLeagueSeason, UnusedBinding, Stints
    <3>3. QED BY <1>0, <2>2, <3>1, <3>2 DEF Anchored, DeleteLeagueSeason, UnusedBinding
  <2>3. QED BY <2>1, <2>2
<1>3. (Tidy /\ Once /\ ActiveOnce /\ Fielded /\ Backed)'
  BY <1>0 DEF Tidy, Once, ActiveOnce, Fielded, Backed, Registered, Live
<1>4. QED BY <1>1, <1>2, <1>3

LEMMA DivisionCalls ==
  ASSUME SetupInv, NEW d \in Divisions, NEW l \in Leagues, NEW s \in Seasons, NEW v2 \in BOOLEAN,
         \/ CreateDivision(d, l, s) \/ CreateDivisionUnderLeague(d, l, s)
         \/ AssignDivisionLeague(d, l, v2)
  PROVE  SetupInv'
<1> USE ParticipationAssumption DEF SetupInv, RegInv
<1>0. UNCHANGED <<seasons, archived, leagueOf, reg, membership, teamOf, parked, playing, rebound>>
  BY DEF CreateDivision, CreateDivisionUnderLeague, AssignDivisionLeague, playerVars, spineVars
<1>1. PICK z \in seasons :
        /\ divisionOf' = [divisionOf EXCEPT ![d] = <<l, z>>]
        /\ bound' \in {bound, bound \cup {<<l, z>>}} /\ <<l, z>> \in bound'
  <2>1. CASE CreateDivision(d, l, s)
    BY <2>1 DEF CreateDivision, Link, Writable
  <2>2. CASE CreateDivisionUnderLeague(d, l, s)
    BY <2>2 DEF CreateDivisionUnderLeague, spineVars, Writable
  <2>3. CASE AssignDivisionLeague(d, l, v2)
    BY <2>3 DEF AssignDivisionLeague, Link, Writable, ParticipationTypeOK
  <2>4. QED BY <2>1, <2>2, <2>3
<1>2. z \in Seasons /\ <<l, z>> # Nowhere BY DEF ParticipationTypeOK
<1>3. ParticipationTypeOK'
  BY <1>0, <1>1, <1>2 DEF ParticipationTypeOK
<1>4. Anchored'
  BY <1>0, <1>1, <1>2 DEF Anchored, ParticipationTypeOK
<1>5. (Tidy /\ Once /\ ActiveOnce /\ Fielded /\ Backed)'
  BY <1>0 DEF Tidy, Once, ActiveOnce, Fielded, Backed, Registered, Live
<1>6. QED BY <1>3, <1>4, <1>5

-----------------------------------------------------------------------------
(* The calls on registrations.  They leave memberships and games alone, so *)
(* what each has to show is what becomes of the rows under them.           *)

\* Games and open memberships keep their registration, or are marked.
Carries ==
  /\ \A t \in Teams, l \in Leagues, s \in Seasons :
       Live(t, l, s) /\ Registered(t, l, s) => Registered(t, l, s)'
  /\ \A t \in Teams, l \in Leagues, s \in Seasons :
       Open(t, l, s) # {} /\ Registered(t, l, s) => Registered(t, l, s)' \/ <<t, s>> \in rebound'
\* Each row stands in a bound league's season with a division that exists.
RowsAnchored ==
  /\ \A k \in Keys : reg[k].state = "none" => reg[k] = NoRow
  /\ \A k \in Keys : reg[k].state # "none" => <<k[2], k[3]>> \in bound
  /\ \A k \in Keys : reg[k].division # Nowhere => divisionOf[reg[k].division] # Nowhere
BooksGrow ==
  /\ bound \subseteq bound' /\ rebound \subseteq rebound'
  /\ \A d \in Divisions : divisionOf'[d] # Nowhere => divisionOf'[d] \in bound'

\* What StaysAligned says of a step.
AlignedKept ==
  \A t \in Teams, s \in Seasons : Aligned(t, s) /\ ~Historical(s) => Aligned(t, s)'

LEMMA NoneAstray ==
  ASSUME leagueOf' = leagueOf,
         \A t \in Teams, l \in Leagues, s \in Seasons :
           Registered(t, l, s)' => Registered(t, l, s) \/ leagueOf[t] = l
  PROVE  AlignedKept
BY DEF AlignedKept, Aligned

LEMMA RegistrationsMoved ==
  ASSUME SetupInv, UNCHANGED <<membership, playing>>,
         ParticipationTypeOK', RowsAnchored', Once', Carries, BooksGrow,
         \A p \in Players : teamOf'[p] = Nowhere => teamOf[p] = Nowhere
  PROVE  SetupInv'
<1> USE ParticipationAssumption DEF SetupInv, RegInv
<1>1. Tidy' BY DEF Tidy, RowsAnchored, Stints
<1>2. ActiveOnce' BY DEF ActiveOnce
<1>3. Fielded' BY DEF Fielded, Carries, Live
<1>4. Anchored'
  <2>1. \A b \in bound' : b[2] \in seasons' BY DEF ParticipationTypeOK
  <2>2. \A k \in Keys : playing[k] # {} => <<k[2], k[3]>> \in bound' BY DEF Anchored, BooksGrow
  <2>3. \A k \in Stints : membership[k].state # "none" => <<k[2], k[3]>> \in bound'
    BY DEF Anchored, BooksGrow
  <2>4. QED BY <2>1, <2>2, <2>3 DEF Anchored, BooksGrow, RowsAnchored
<1>5. Backed'
  <2> SUFFICES ASSUME NEW k \in Stints, membership[k].state # "none"
               PROVE  Registered(membership[k].team, k[2], k[3])' \/ <<membership[k].team, k[3]>> \in rebound'
    BY DEF Backed, Registered
  <2> DEFINE t == membership[k].team
  <2>1. k[1] \in Players /\ k[2] \in Leagues /\ k[3] \in Seasons /\ k = <<k[1], k[2], k[3]>>
    BY DEF Stints
  <2>2. t \in Teams BY DEF Tidy, ParticipationTypeOK
  <2>3. k[1] \in Open(t, k[2], k[3]) BY <2>1 DEF Open
  <2>4. CASE Registered(t, k[2], k[3]) BY <2>1, <2>2, <2>3, <2>4 DEF Carries
  <2>5. CASE <<t, k[3]>> \in rebound BY <2>5 DEF BooksGrow
  <2>6. QED BY <2>4, <2>5 DEF Backed
<1>6. QED BY <1>1, <1>2, <1>3, <1>4, <1>5

RowSet == [state : {"none", "active", "inactive"}, division : Divisions \cup {Nowhere}]

LEMMA RowType ==
  ASSUME ParticipationTypeOK, NEW k \in Keys
  PROVE  /\ reg[k] \in RowSet
         /\ reg[k] = Row(reg[k].state, reg[k].division)
         /\ k[1] \in Teams /\ k[2] \in Leagues /\ k[3] \in Seasons /\ k = <<k[1], k[2], k[3]>>
BY DEF ParticipationTypeOK, Keys, Row, RowSet

LEMMA RowIn ==
  ASSUME NEW state \in {"none", "active", "inactive"}, NEW division \in Divisions \cup {Nowhere}
  PROVE  /\ Row(state, division) \in RowSet
         /\ Row(state, division).state = state /\ Row(state, division).division = division
BY DEF Row, RowSet

LEMMA FitsThere ==
  ASSUME NEW l \in Leagues, NEW s \in Seasons, NEW d, Fits(d, l, s), d # Nowhere
  PROVE  d \in Divisions /\ divisionOf[d] # Nowhere
BY ParticipationAssumption DEF Fits

\* The types of a call that writes registrations.
LEMMA RowsTyped ==
  ASSUME ParticipationTypeOK, UNCHANGED <<membership, playing>>,
         reg' = [k \in Keys |-> reg'[k]], \A k \in Keys : reg'[k] \in RowSet,
         seasons' \subseteq Seasons, archived' \subseteq seasons',
         bound' \subseteq Leagues \X seasons', leagueOf' \in [Teams -> Leagues],
         divisionOf' \in [Divisions -> (Leagues \X Seasons) \cup {Nowhere}],
         teamOf' \in [Players -> Teams \cup {Nowhere}], parked' \subseteq Players,
         rebound' \subseteq Teams \X Seasons
  PROVE  ParticipationTypeOK'
<1>1. reg' \in [Keys -> RowSet] OBVIOUS
<1>2. QED BY <1>1 DEF ParticipationTypeOK, RowSet

LEMMA Anchors ==
  ASSUME SetupInv
  PROVE  RowsAnchored /\ \A d \in Divisions : divisionOf[d] # Nowhere => divisionOf[d] \in bound
BY DEF SetupInv, RegInv, RowsAnchored, Tidy, Anchored

LEMMA DeleteDivisionCall ==
  ASSUME SetupInv, NEW d \in Divisions, DeleteDivision(d)
  PROVE  SetupInv' /\ AlignedKept
<1> USE ParticipationAssumption DEF SetupInv, RegInv
<1>0. /\ UNCHANGED <<seasons, archived, bound, leagueOf, membership, teamOf, parked, playing, rebound>>
      /\ divisionOf' = [divisionOf EXCEPT ![d] = Nowhere] /\ reg' = Retired(d)
      /\ \A k \in Keys : reg[k] # Row("active", d)
  BY DEF DeleteDivision, playerVars, spineVars
<1>1. \A k \in Keys :
        /\ reg'[k].state = reg[k].state /\ reg'[k].division \in {reg[k].division, Nowhere} \ {d}
        /\ reg'[k] \in RowSet /\ (reg[k] = NoRow => reg'[k] = NoRow)
  <2> TAKE k \in Keys
  <2>1. CASE reg[k].division # d
    <3>1. reg[k] # Row("inactive", d) BY <2>1, RowIn
    <3>2. reg'[k] = reg[k] BY <3>1, <1>0 DEF Retired
    <3>3. reg[k] \in RowSet BY RowType
    <3>4. QED BY <3>2, <3>3, <2>1
  <2>2. CASE reg[k].division = d
    <3>1. reg[k].state # "none" BY <2>2 DEF Tidy, NoRow
    <3>2. reg[k] = Row("inactive", d) BY <2>2, <3>1, <1>0, RowType DEF RowSet
    <3>3. QED BY <3>2, <1>0, RowIn DEF Retired, NoRow, Row
  <2>3. QED BY <2>1, <2>2
<1>2. reg' = [k \in Keys |-> reg'[k]] BY <1>0 DEF Retired
<1>3. ParticipationTypeOK'
  <2>1. divisionOf' \in [Divisions -> (Leagues \X Seasons) \cup {Nowhere}]
    BY <1>0 DEF ParticipationTypeOK
  <2>2. QED BY <2>1, <1>0, <1>1, <1>2, RowsTyped DEF ParticipationTypeOK
<1>4. \A t \in Teams, l \in Leagues, s \in Seasons : Registered(t, l, s)' <=> Registered(t, l, s)
  BY <1>1 DEF Registered, Keys
<1>5. Once' /\ Carries BY <1>4 DEF Once, Carries
<1>6. RowsAnchored'
  <2> SUFFICES ASSUME NEW k \in Keys
               PROVE  /\ reg'[k].state = "none" => reg'[k] = NoRow
                      /\ reg'[k].state # "none" => <<k[2], k[3]>> \in bound'
                      /\ reg'[k].division # Nowhere => divisionOf'[reg'[k].division] # Nowhere
    BY DEF RowsAnchored, NoRow
  <2>1. reg[k].division \in Divisions \cup {Nowhere} BY RowType DEF RowSet
  <2>2. QED BY <2>1, <1>0, <1>1, Anchors DEF RowsAnchored, ParticipationTypeOK
<1>7. BooksGrow BY <1>0, Anchors DEF BooksGrow, ParticipationTypeOK
<1>8. AlignedKept BY <1>0, <1>4, NoneAstray
<1>9. QED BY <1>0, <1>3, <1>5, <1>6, <1>7, <1>8, RegistrationsMoved

\* Registering at the team's own league, at the end of which the team plays there.
LEMMA RegisterTeamCall ==
  ASSUME SetupInv, NEW t \in Teams, NEW s \in Seasons, NEW d \in Divisions \cup {Nowhere},
         RegisterTeam(t, s, d)
  PROVE  SetupInv' /\ AlignedKept
<1> USE ParticipationAssumption DEF SetupInv, RegInv
<1> DEFINE l == leagueOf[t]
<1>a. l \in Leagues /\ <<t, l, s>> \in Keys BY DEF ParticipationTypeOK, Keys
<1>0. /\ UNCHANGED <<seasons, archived, leagueOf, divisionOf, teamOf, parked, playing, rebound>>
      /\ s \in seasons /\ bound' = bound \cup {<<l, s>>} /\ Fits(d, l, s)
      /\ ~ElsewhereActive(t, l, s)
      /\ reg' = [reg EXCEPT ![<<t, l, s>>] = Row("active", d)]
      /\ membership' = Mirrored(t, l, s)
  BY DEF RegisterTeam, Writable, Link
<1>1. \A k \in Keys :
        /\ reg'[k] = IF k = <<t, l, s>> THEN Row("active", d) ELSE reg[k]
        /\ reg'[k] \in RowSet
  BY <1>0, <1>a, RowType, RowIn DEF ParticipationTypeOK
<1>2. \A k \in Stints :
        \/ membership'[k] = membership[k]
        \/ /\ membership'[k] = [state |-> "active", team |-> t] /\ membership[k].state = "none"
           /\ k[2] = l /\ k[3] = s /\ teamOf[k[1]] = t /\ ActiveIn(k[1], s) = {}
  BY <1>0 DEF Mirrored
<1>3. \A u \in Teams, m \in Leagues, z \in Seasons :
        Registered(u, m, z)' <=> Registered(u, m, z) \/ <<u, m, z>> = <<t, l, s>>
  BY <1>1, RowIn DEF Registered, Keys
<1>4. ParticipationTypeOK'
  <2>1. reg' = [k \in Keys |-> reg'[k]] BY <1>0, <1>a DEF ParticipationTypeOK
  <2>2. reg' \in [Keys -> RowSet] BY <2>1, <1>1
  <2>3. membership' \in [Stints -> [state : {"none", "active", "affiliate", "parked"},
                                    team : Teams \cup {Nowhere}]]
    BY <1>0 DEF Mirrored, ParticipationTypeOK
  <2>4. QED BY <2>2, <2>3, <1>0, <1>a DEF ParticipationTypeOK, RowSet
<1>5. Tidy'
  <2>1. \A k \in Keys : reg'[k].state = "none" => reg'[k] = NoRow
    BY <1>1, RowIn DEF Tidy
  <2>2. \A k \in Stints : /\ membership'[k].state = "none" <=> membership'[k].team = Nowhere
                          /\ teamOf'[k[1]] = Nowhere => membership'[k].state = "none"
    BY <1>0, <1>2 DEF Tidy
  <2>3. QED BY <2>1, <2>2 DEF Tidy, NoRow
<1>6. Once' BY <1>0, <1>3, <1>a DEF Once, ElsewhereActive
<1>7. ActiveOnce' BY <1>2 DEF ActiveOnce, ActiveIn, Stints
<1>8. Fielded' BY <1>0, <1>3 DEF Fielded, Live
<1>9. Anchored'
  <2>1. ASSUME NEW k \in Keys
        PROVE  /\ reg'[k].state # "none" => <<k[2], k[3]>> \in bound'
               /\ reg'[k].division # Nowhere => divisionOf'[reg'[k].division] # Nowhere
    <3>1. d # Nowhere => divisionOf[d] # Nowhere BY <1>0, <1>a, FitsThere
    <3>2. Row("active", d).division = d BY RowIn
    <3>3. CASE k = <<t, l, s>> BY <1>0, <1>1, <3>1, <3>2, <3>3
    <3>4. CASE k # <<t, l, s>>
      <4>1. reg'[k] = reg[k] BY <1>1, <3>4
      <4>2. QED BY <4>1, <1>0 DEF Anchored
    <3>5. QED BY <3>3, <3>4
  <2>2. \A k \in Stints : membership'[k].state # "none" => <<k[2], k[3]>> \in bound'
    BY <1>0, <1>2 DEF Anchored
  <2>3. QED BY <1>0, <2>1, <2>2, <1>4 DEF Anchored, ParticipationTypeOK
<1>10. Backed'
  <2> SUFFICES ASSUME NEW k \in Stints, membership'[k].state # "none"
               PROVE  \/ reg'[<<membership'[k].team, k[2], k[3]>>].state = "active"
                      \/ <<membership'[k].team, k[3]>> \in rebound'
    BY DEF Backed, Registered
  <2>1. k[2] \in Leagues /\ k[3] \in Seasons BY DEF Stints
  <2>2. CASE membership'[k] = membership[k]
    <3>1. membership[k].team \in Teams BY <2>2 DEF Tidy, ParticipationTypeOK
    <3>2. \/ Registered(membership[k].team, k[2], k[3])
          \/ <<membership[k].team, k[3]>> \in rebound
      BY <2>2 DEF Backed
    <3>3. Registered(membership[k].team, k[2], k[3]) => reg'[<<membership[k].team, k[2], k[3]>>].state = "active"
      BY <2>1, <3>1, <1>3 DEF Registered
    <3>4. QED BY <2>2, <3>2, <3>3, <1>0 DEF Registered
  <2>3. CASE membership'[k] # membership[k]
    BY <2>1, <2>3, <1>2, <1>3, <1>a DEF Registered
  <2>4. QED BY <2>2, <2>3
<1>11. AlignedKept BY <1>0, <1>3, NoneAstray
<1>12. QED BY <1>4, <1>5, <1>6, <1>7, <1>8, <1>9, <1>10, <1>11

LEMMA AssignDivisionCall ==
  ASSUME SetupInv, NEW t \in Teams, NEW l \in Leagues, NEW s \in Seasons,
         NEW d \in Divisions \cup {Nowhere}, AssignSeasonTeamDivision(t, l, s, d)
  PROVE  SetupInv' /\ AlignedKept
<1> USE ParticipationAssumption DEF SetupInv, RegInv
<1>a. <<t, l, s>> \in Keys BY DEF Keys
<1>0. /\ UNCHANGED <<seasons, archived, bound, leagueOf, divisionOf, membership, teamOf, parked, playing, rebound>>
      /\ Fits(d, l, s) /\ reg[<<t, l, s>>].state # "none"
      /\ reg' = [reg EXCEPT ![<<t, l, s>>].division = d]
  BY DEF AssignSeasonTeamDivision, spineVars, playerVars
<1>1. \A k \in Keys :
        /\ reg'[k] = IF k = <<t, l, s>> THEN Row(reg[k].state, d) ELSE reg[k]
        /\ reg'[k] \in RowSet /\ reg'[k].state = reg[k].state
  <2> TAKE k \in Keys
  <2>1. reg[k] \in RowSet /\ reg[k] = Row(reg[k].state, reg[k].division) BY RowType
  <2>2. CASE k = <<t, l, s>>
    BY <1>0, <1>a, <2>1, <2>2 DEF ParticipationTypeOK, Row, RowSet
  <2>3. CASE k # <<t, l, s>> BY <1>0, <2>1, <2>3 DEF ParticipationTypeOK
  <2>4. QED BY <2>2, <2>3
<1>2. reg' = [k \in Keys |-> reg'[k]] BY <1>0, <1>a DEF ParticipationTypeOK
<1>3. ParticipationTypeOK' BY <1>0, <1>1, <1>2, RowsTyped DEF ParticipationTypeOK
<1>4. \A u \in Teams, m \in Leagues, z \in Seasons : Registered(u, m, z)' <=> Registered(u, m, z)
  BY <1>1 DEF Registered, Keys
<1>5. Once' /\ Carries BY <1>4 DEF Once, Carries
<1>6. RowsAnchored'
  <2>1. d # Nowhere => divisionOf[d] # Nowhere BY <1>0, <1>a, FitsThere
  <2>2. Row(reg[<<t, l, s>>].state, d).division = d BY <1>a, RowType, RowIn DEF RowSet
  <2>3. QED BY <1>0, <1>1, <1>a, <2>1, <2>2, Anchors DEF RowsAnchored
<1>7. BooksGrow BY <1>0, Anchors DEF BooksGrow, ParticipationTypeOK
<1>8. AlignedKept BY <1>0, <1>4, NoneAstray
<1>9. QED BY <1>0, <1>3, <1>5, <1>6, <1>7, <1>8, RegistrationsMoved

\* One row written, its league unchanged.
LEMMA RowWritten ==
  ASSUME SetupInv, NEW key \in Keys, NEW row \in RowSet, reg' = [reg EXCEPT ![key] = row]
  PROVE  /\ reg' = [k \in Keys |-> reg'[k]]
         /\ reg'[key] = row
         /\ \A k \in Keys : reg'[k] \in RowSet /\ (k # key => reg'[k] = reg[k])
<1>1. DOMAIN reg = Keys BY DEF SetupInv, ParticipationTypeOK
<1>2. \A k \in Keys : reg[k] \in RowSet BY RowType DEF SetupInv
<1>3. QED BY <1>1, <1>2

LEMMA RowLeavesCalls ==
  ASSUME SetupInv, NEW t \in Teams, NEW l \in Leagues, NEW s \in Seasons,
         UnregisterTeam(t, l, s) \/ DeleteRegistration(t, l, s)
  PROVE  SetupInv' /\ AlignedKept
<1> USE DEF SetupInv, RegInv
<1> DEFINE key == <<t, l, s>>
<1>a. key \in Keys BY DEF Keys
<1>b. reg[key] \in RowSet /\ reg[key] = Row(reg[key].state, reg[key].division) BY <1>a, RowType
<1>0. /\ UNCHANGED <<seasons, archived, bound, leagueOf, divisionOf, membership, teamOf, parked, playing, rebound>>
      /\ reg[key].state # "none"
  BY DEF UnregisterTeam, DeleteRegistration, spineVars, playerVars, Registered
<1>1. PICK row \in RowSet :
        /\ reg' = [reg EXCEPT ![key] = row] /\ row.state # "active"
        /\ row.state = "none" => row = NoRow
        /\ row.state # "none" => row.division = reg[key].division
        /\ row.state = "none" => row.division = Nowhere
        /\ Registered(t, l, s) => ~Live(t, l, s) /\ Open(t, l, s) = {}
  <2>1. CASE UnregisterTeam(t, l, s)
    <3> DEFINE row == Row("inactive", reg[key].division)
    <3>1. row \in RowSet /\ row.state = "inactive" /\ row.division = reg[key].division
      BY <1>b, RowIn DEF RowSet
    <3>2. reg' = [reg EXCEPT ![key] = row]
      <4>1. [reg[key] EXCEPT !.state = "inactive"] = row BY <1>b DEF Row, RowSet
      <4>2. reg' = [reg EXCEPT ![key] = [reg[key] EXCEPT !.state = "inactive"]]
        BY <2>1 DEF UnregisterTeam
      <4> HIDE DEF row
      <4>3. QED BY <4>1, <4>2
    <3>3. ~Live(t, l, s) /\ Open(t, l, s) = {}
      BY <2>1 DEF UnregisterTeam, Strands, PlaysIn
    <3>4. QED BY <3>1, <3>2, <3>3
  <2>2. CASE DeleteRegistration(t, l, s)
    <3>1. NoRow \in RowSet /\ NoRow.state = "none" /\ NoRow.division = Nowhere BY DEF NoRow, RowSet
    <3>2. reg' = [reg EXCEPT ![key] = NoRow] /\ ~Registered(t, l, s)
      BY <2>2 DEF DeleteRegistration, Registered
    <3>3. QED BY <3>1, <3>2
  <2>3. QED BY <2>1, <2>2
<1>2. /\ reg' = [k \in Keys |-> reg'[k]] /\ reg'[key] = row
      /\ \A k \in Keys : reg'[k] \in RowSet /\ (k # key => reg'[k] = reg[k])
  BY <1>a, <1>1, RowWritten
<1>3. ParticipationTypeOK' BY <1>0, <1>2, RowsTyped DEF ParticipationTypeOK
<1>4. \A u \in Teams, m \in Leagues, z \in Seasons :
        Registered(u, m, z)' <=> Registered(u, m, z) /\ <<u, m, z>> # key
  BY <1>1, <1>2 DEF Registered, Keys
<1>5. Once' BY <1>4 DEF Once
<1>6. Carries BY <1>1, <1>4 DEF Carries
<1>7. RowsAnchored' BY <1>0, <1>1, <1>2, <1>a, Anchors DEF RowsAnchored, NoRow
<1>8. BooksGrow BY <1>0, Anchors DEF BooksGrow, ParticipationTypeOK
<1>9. AlignedKept BY <1>0, <1>4, NoneAstray
<1>10. QED BY <1>0, <1>3, <1>5, <1>6, <1>7, <1>8, <1>9, RegistrationsMoved

\* Rebinding: the row goes to the team's own league and leaves the other one.
LEMMA AssignLeagueCall ==
  ASSUME SetupInv, NEW t \in Teams, NEW l \in Leagues, NEW s \in Seasons,
         AssignSeasonTeamLeague(t, l, s)
  PROVE  SetupInv' /\ AlignedKept
<1> USE DEF SetupInv, RegInv
<1> DEFINE m == leagueOf[t]
           here == <<t, l, s>>
           there == <<t, m, s>>
<1>a. m \in Leagues /\ here \in Keys /\ there \in Keys BY DEF Keys, ParticipationTypeOK
<1>b. reg[here] \in RowSet /\ reg[there] \in RowSet BY <1>a, RowType
<1>0. /\ UNCHANGED <<seasons, archived, leagueOf, divisionOf, membership, teamOf, parked, playing>>
      /\ s \in seasons /\ bound' = bound \cup {<<m, s>>}
      /\ reg[here].state # "none" /\ m # l /\ ~Live(t, l, s)
      /\ Rebinding(t, l, s)
  BY DEF AssignSeasonTeamLeague, playerVars, Writable, Link
<1>1. PICK old \in RowSet, new \in RowSet :
        /\ reg' = [reg EXCEPT ![here] = old, ![there] = new]
        /\ old.state # "active" /\ new.state # "none"
        /\ old.state = "none" => old = NoRow
        /\ old.division # Nowhere => old.division = reg[here].division
        /\ new.division # Nowhere => new.division = reg[here].division
        /\ Registered(t, m, s) => new.state = "active"
        /\ new.state = "active" => reg[here].state = "active"
  <2>1. CASE reg[there].state = "none"
    <3> DEFINE D == IF Fits(reg[here].division, m, s) THEN reg[here].division ELSE Nowhere
               new == Row(reg[here].state, D)
    <3>1. new \in RowSet /\ new.state = reg[here].state /\ new.division = D
      <4>1. D \in Divisions \cup {Nowhere} BY <1>b DEF RowSet
      <4> HIDE DEF D
      <4>2. QED BY <1>b, <4>1, RowIn DEF RowSet
    <3>2. NoRow \in RowSet /\ NoRow.state = "none" /\ NoRow.division = Nowhere BY DEF NoRow, RowSet
    <3>3. reg' = [reg EXCEPT ![here] = NoRow, ![there] = new]
      BY <2>1 DEF AssignSeasonTeamLeague, Moved
    <3>4. ~Registered(t, m, s) BY <2>1 DEF Registered
    <3>5. D # Nowhere => D = reg[here].division OBVIOUS
    <3> HIDE DEF D, new
    <3>6. QED BY <3>1, <3>2, <3>3, <3>4, <3>5, <1>0
  <2>2. CASE reg[there].state # "none"
    <3> DEFINE old == Row("inactive", reg[here].division)
               new == Row("active", Nowhere)
    <3>1. /\ old \in RowSet /\ old.state = "inactive" /\ old.division = reg[here].division
          /\ new \in RowSet /\ new.state = "active" /\ new.division = Nowhere
      BY <1>b, RowIn DEF RowSet
    <3>2. reg' = [reg EXCEPT ![here] = old, ![there] = new]
      BY <2>2, <1>a DEF AssignSeasonTeamLeague, Moved, ParticipationTypeOK
    <3>3. reg[here].state = "active" BY <2>2 DEF AssignSeasonTeamLeague, Registered
    <3> HIDE DEF old, new
    <3>4. QED BY <3>1, <3>2, <3>3
  <2>3. QED BY <2>1, <2>2
<1>2. /\ reg' = [k \in Keys |-> reg'[k]] /\ reg'[here] = old /\ reg'[there] = new
      /\ \A k \in Keys : reg'[k] \in RowSet /\ (k \notin {here, there} => reg'[k] = reg[k])
  <2>1. here # there BY <1>0
  <2>2. DOMAIN reg = Keys BY DEF ParticipationTypeOK
  <2>3. \A k \in Keys : reg[k] \in RowSet BY RowType
  <2>4. QED BY <1>a, <1>1, <2>1, <2>2, <2>3
<1>3. rebound' \subseteq Teams \X Seasons /\ rebound \subseteq rebound'
      /\ (Open(t, l, s) # {} => <<t, s>> \in rebound')
  BY <1>0 DEF Rebinding, ParticipationTypeOK
<1>4. ParticipationTypeOK' BY <1>0, <1>a, <1>2, <1>3, RowsTyped DEF ParticipationTypeOK
<1>5. \A u \in Teams, n \in Leagues, z \in Seasons :
        /\ Registered(u, n, z)' =>
             \/ Registered(u, n, z) /\ <<u, n, z>> # here
             \/ <<u, n, z>> = there /\ Registered(t, l, s)
        /\ Registered(u, n, z) /\ <<u, n, z>> # here => Registered(u, n, z)'
  <2> TAKE u \in Teams, n \in Leagues, z \in Seasons
  <2>1. <<u, n, z>> \in Keys BY DEF Keys
  <2>2. CASE <<u, n, z>> = here BY <2>2, <1>1, <1>2 DEF Registered
  <2>3. CASE <<u, n, z>> = there
    <3>1. n = m /\ u = t /\ z = s BY <2>3
    <3>2. QED BY <2>3, <3>1, <1>0, <1>1, <1>2 DEF Registered
  <2>4. CASE <<u, n, z>> \notin {here, there} BY <2>1, <2>4, <1>2 DEF Registered
  <2>5. QED BY <2>2, <2>3, <2>4
<1>6. Once'
  <2> SUFFICES ASSUME NEW u \in Teams, NEW n \in Leagues, NEW o \in Leagues, NEW z \in Seasons,
                      Registered(u, n, z)', Registered(u, o, z)'
               PROVE  n = o
    BY DEF Once
  <2>1. CASE <<u, n, z>> = there \/ <<u, o, z>> = there
    BY <2>1, <1>5 DEF Once
  <2>2. CASE <<u, n, z>> # there /\ <<u, o, z>> # there
    BY <2>2, <1>5 DEF Once
  <2>3. QED BY <2>1, <2>2
<1>7. Carries BY <1>0, <1>3, <1>5 DEF Carries
<1>8. RowsAnchored'
  <2> SUFFICES ASSUME NEW k \in Keys
               PROVE  /\ reg'[k].state = "none" => reg'[k] = NoRow
                      /\ reg'[k].state # "none" => <<k[2], k[3]>> \in bound'
                      /\ reg'[k].division # Nowhere => divisionOf'[reg'[k].division] # Nowhere
    BY DEF RowsAnchored, NoRow
  <2>1. CASE k = here
    <3>1. /\ reg[here].state # "none" => <<here[2], here[3]>> \in bound
          /\ reg[here].division # Nowhere => divisionOf[reg[here].division] # Nowhere
      BY <1>a, Anchors DEF RowsAnchored
    <3>2. QED BY <2>1, <3>1, <1>0, <1>1, <1>2
  <2>2. CASE k = there
    <3>1. reg[here].division # Nowhere => divisionOf[reg[here].division] # Nowhere
      BY <1>a, Anchors DEF RowsAnchored
    <3>2. QED BY <2>2, <3>1, <1>0, <1>1, <1>2
  <2>3. CASE k \notin {here, there}
    BY <2>3, <1>0, <1>2, Anchors DEF RowsAnchored
  <2>4. QED BY <2>1, <2>2, <2>3
<1>9. BooksGrow BY <1>0, <1>3, Anchors DEF BooksGrow, ParticipationTypeOK
<1>10. SetupInv' BY <1>0, <1>4, <1>6, <1>7, <1>8, <1>9, RegistrationsMoved
<1>11. AlignedKept
  <2>1. \A u \in Teams, n \in Leagues, z \in Seasons :
          Registered(u, n, z)' => Registered(u, n, z) \/ leagueOf[u] = n
    BY <1>5
  <2>2. QED BY <2>1, <1>0, NoneAstray
<1>12. QED BY <1>0, <1>10, <1>11

\* What a transfer makes of a team's rows: those that are not history go to
\* the new league, where nothing is active yet.
LEMMA TransferRows ==
  ASSUME SetupInv, NEW t \in Teams, NEW m \in Leagues, MayTransfer(t, m)
  PROVE  /\ \A j \in Transferable(t, m) :
              /\ j \in Keys /\ j[1] = t /\ j[2] # m /\ Registered(t, j[2], j[3]) /\ ~Historical(j[3])
              /\ ~PlaysIn(t, j[3]) /\ Open(t, j[2], j[3]) = {} /\ ~Registered(t, m, j[3])
         /\ \A k \in Keys : k[1] = t =>
              /\ TransferredRow(k, m) \in RowSet
              /\ TransferredRow(k, m).state = "none" => TransferredRow(k, m) = NoRow
              /\ TransferredRow(k, m).state # "none" =>
                   reg[k].state # "none" \/ \E j \in Transferable(t, m) : k = <<t, m, j[3]>>
              /\ TransferredRow(k, m).division # Nowhere => TransferredRow(k, m).division = reg[k].division
              /\ TransferredRow(k, m).state = "active" =>
                   \/ reg[k].state = "active" /\ k \notin Transferable(t, m)
                   \/ \E j \in Transferable(t, m) : k = <<t, m, j[3]>>
              /\ reg[k].state = "active" /\ k \notin Transferable(t, m) => TransferredRow(k, m).state = "active"
         /\ \A l, n \in Leagues, s \in Seasons :
              TransferredRow(<<t, l, s>>, m).state = "active" /\ TransferredRow(<<t, n, s>>, m).state = "active" => l = n
<1> USE DEF SetupInv, RegInv
<1> DEFINE going == Transferable(t, m)
<1>1. ASSUME NEW j \in going
      PROVE  /\ j \in Keys /\ j[1] = t /\ j[2] # m /\ Registered(t, j[2], j[3]) /\ ~Historical(j[3])
             /\ ~PlaysIn(t, j[3]) /\ Open(t, j[2], j[3]) = {} /\ ~Registered(t, m, j[3])
             /\ j[2] \in Leagues /\ j[3] \in Seasons /\ j = <<t, j[2], j[3]>>
  <2>1. j \in Keys /\ j[1] = t /\ j[2] # m /\ reg[j].state = "active" /\ ~Historical(j[3])
    BY DEF Transferable
  <2>2. j = <<t, j[2], j[3]>> /\ j[2] \in Leagues /\ j[3] \in Seasons BY <2>1 DEF Keys
  <2>3. ~Strands(t, j[2], j[3]) /\ ~Registered(t, m, j[3]) BY DEF MayTransfer
  <2>4. QED BY <2>1, <2>2, <2>3 DEF Strands, Registered
<1>2. ASSUME NEW k \in Keys, k[1] = t
      PROVE  /\ TransferredRow(k, m) \in RowSet
             /\ TransferredRow(k, m).state = "none" => TransferredRow(k, m) = NoRow
             /\ TransferredRow(k, m).state # "none" =>
                  reg[k].state # "none" \/ \E j \in going : k = <<t, m, j[3]>>
             /\ TransferredRow(k, m).division # Nowhere => TransferredRow(k, m).division = reg[k].division
             /\ TransferredRow(k, m).state = "active" =>
                  \/ reg[k].state = "active" /\ k \notin going
                  \/ \E j \in going : k = <<t, m, j[3]>>
             /\ reg[k].state = "active" /\ k \notin going => TransferredRow(k, m).state = "active"
  <2>0. reg[k] \in RowSet BY RowType
  <2>1. CASE \E j \in going : k = <<t, m, j[3]>>
    <3>1. TransferredRow(k, m) = Row("active", Nowhere) BY <1>2, <2>1 DEF TransferredRow
    <3>2. /\ Row("active", Nowhere) \in RowSet /\ Row("active", Nowhere).state = "active"
          /\ Row("active", Nowhere).division = Nowhere
      BY RowIn
    <3>3. QED BY <2>1, <3>1, <3>2
  <2>2. CASE k \notin going /\ ~\E j \in going : k = <<t, m, j[3]>>
    <3>1. TransferredRow(k, m) = reg[k] BY <1>2, <2>2 DEF TransferredRow
    <3>2. QED BY <2>0, <2>2, <3>1 DEF Tidy
  <2>3. CASE k \in going /\ ~\E j \in going : k = <<t, m, j[3]>>
    <3>1. TransferredRow(k, m) \in {NoRow, Row("inactive", reg[k].division)}
      BY <1>2, <2>3 DEF TransferredRow
    <3>2. reg[k].state = "active" BY <2>3 DEF Transferable
    <3>3. /\ NoRow \in RowSet /\ NoRow.state = "none" /\ NoRow.division = Nowhere
      BY DEF NoRow, RowSet
    <3>4. /\ Row("inactive", reg[k].division) \in RowSet
          /\ Row("inactive", reg[k].division).state = "inactive"
          /\ Row("inactive", reg[k].division).division = reg[k].division
      BY <2>0, RowIn DEF RowSet
    <3>5. QED BY <2>3, <3>1, <3>2, <3>3, <3>4
  <2>4. QED BY <2>1, <2>2, <2>3
<1>3. ASSUME NEW l \in Leagues, NEW n \in Leagues, NEW s \in Seasons,
             TransferredRow(<<t, l, s>>, m).state = "active", TransferredRow(<<t, n, s>>, m).state = "active"
      PROVE  l = n
  <2>1. <<t, l, s>> \in Keys /\ <<t, n, s>> \in Keys BY DEF Keys
  <2>2. \/ Registered(t, l, s) /\ <<t, l, s>> \notin going
        \/ l = m /\ \E j \in going : j[3] = s
    BY <1>2, <1>3, <2>1 DEF Registered
  <2>3. \/ Registered(t, n, s) /\ <<t, n, s>> \notin going
        \/ n = m /\ \E j \in going : j[3] = s
    BY <1>2, <1>3, <2>1 DEF Registered
  <2>4. ASSUME NEW o \in Leagues, Registered(t, o, s), <<t, o, s>> \notin going, NEW j \in going, j[3] = s
        PROVE  FALSE
    <3>1. Registered(t, j[2], s) /\ j[2] \in Leagues /\ j = <<t, j[2], s>> BY <1>1, <2>4
    <3>2. j[2] = o BY <2>4, <3>1 DEF Once
    <3>3. QED BY <2>4, <3>1, <3>2
  <2>5. QED BY <2>2, <2>3, <2>4 DEF Once
<1>4. \A j \in going :
        /\ j \in Keys /\ j[1] = t /\ j[2] # m /\ Registered(t, j[2], j[3]) /\ ~Historical(j[3])
        /\ ~PlaysIn(t, j[3]) /\ Open(t, j[2], j[3]) = {} /\ ~Registered(t, m, j[3])
  BY <1>1
<1>5. \A k \in Keys : k[1] = t =>
        /\ TransferredRow(k, m) \in RowSet
        /\ TransferredRow(k, m).state = "none" => TransferredRow(k, m) = NoRow
        /\ TransferredRow(k, m).state # "none" =>
             reg[k].state # "none" \/ \E j \in going : k = <<t, m, j[3]>>
        /\ TransferredRow(k, m).division # Nowhere => TransferredRow(k, m).division = reg[k].division
        /\ TransferredRow(k, m).state = "active" =>
             \/ reg[k].state = "active" /\ k \notin going
             \/ \E j \in going : k = <<t, m, j[3]>>
        /\ reg[k].state = "active" /\ k \notin going => TransferredRow(k, m).state = "active"
  BY <1>2
<1>6. \A l, n \in Leagues, s \in Seasons :
        TransferredRow(<<t, l, s>>, m).state = "active" /\ TransferredRow(<<t, n, s>>, m).state = "active" => l = n
  BY <1>3
<1>7. QED BY <1>4, <1>5, <1>6

LEMMA TransferCall ==
  ASSUME SetupInv, NEW t \in Teams, NEW m \in Leagues, TransferTeam(t, m)
  PROVE  SetupInv' /\ AlignedKept
<1> USE DEF SetupInv, RegInv
<1> DEFINE going == Transferable(t, m)
<1>0. /\ UNCHANGED <<seasons, archived, divisionOf, membership, teamOf, parked, playing, rebound>>
      /\ MayTransfer(t, m) /\ leagueOf' = [leagueOf EXCEPT ![t] = m]
      /\ bound' = bound \cup {<<m, k[3]>> : k \in going}
      /\ reg' = [k \in Keys |-> IF k[1] = t THEN TransferredRow(k, m) ELSE reg[k]]
  BY DEF TransferTeam, playerVars
<1>1. \A j \in going :
        /\ j \in Keys /\ j[1] = t /\ j[2] # m /\ Registered(t, j[2], j[3]) /\ ~Historical(j[3])
        /\ ~PlaysIn(t, j[3]) /\ Open(t, j[2], j[3]) = {} /\ ~Registered(t, m, j[3])
  BY <1>0, TransferRows
<1>2. \A k \in Keys :
        /\ reg'[k] \in RowSet
        /\ reg'[k].state = "none" => reg'[k] = NoRow
        /\ reg'[k].state # "none" => reg[k].state # "none" \/ \E j \in going : k = <<t, m, j[3]>>
        /\ reg'[k].division # Nowhere => reg'[k].division = reg[k].division
        /\ reg'[k].state = "active" =>
             \/ reg[k].state = "active" /\ k \notin going
             \/ k[1] = t /\ k[2] = m /\ \E j \in going : j[3] = k[3]
        /\ reg[k].state = "active" /\ k \notin going => reg'[k].state = "active"
  <2> SUFFICES ASSUME NEW k \in Keys
               PROVE  /\ reg'[k] \in RowSet
                      /\ reg'[k].state = "none" => reg'[k] = NoRow
                      /\ reg'[k].state # "none" => reg[k].state # "none" \/ \E j \in going : k = <<t, m, j[3]>>
                      /\ reg'[k].division # Nowhere => reg'[k].division = reg[k].division
                      /\ reg'[k].state = "active" =>
                           \/ reg[k].state = "active" /\ k \notin going
                           \/ k[1] = t /\ k[2] = m /\ \E j \in going : j[3] = k[3]
                      /\ reg[k].state = "active" /\ k \notin going => reg'[k].state = "active"
    OBVIOUS
  <2>1. CASE k[1] = t
    <3>1. reg'[k] = TransferredRow(k, m) BY <1>0, <2>1
    <3>2. QED BY <1>0, <2>1, <3>1, TransferRows
  <2>2. CASE k[1] # t
    <3>1. reg'[k] = reg[k] BY <1>0, <2>2
    <3>2. k \notin going BY <1>1, <2>2
    <3>3. QED BY <3>1, <3>2, RowType DEF Tidy
  <2>3. QED BY <2>1, <2>2
<1>3. bound' \subseteq Leagues \X seasons'
  <2>1. ASSUME NEW j \in going PROVE j[3] \in seasons
    <3>1. j \in Keys /\ reg[j].state = "active" BY DEF Transferable
    <3>2. <<j[2], j[3]>> \in bound BY <3>1, Anchors DEF RowsAnchored
    <3>3. bound \subseteq Leagues \X seasons BY DEF ParticipationTypeOK
    <3>4. QED BY <3>2, <3>3
  <2>2. {<<m, k[3]>> : k \in going} \subseteq Leagues \X seasons BY <2>1
  <2>3. QED BY <2>2, <1>0 DEF ParticipationTypeOK
<1>4. ParticipationTypeOK'
  <2>1. reg' = [k \in Keys |-> reg'[k]] BY <1>0
  <2>2. leagueOf' \in [Teams -> Leagues] BY <1>0 DEF ParticipationTypeOK
  <2>3. QED BY <2>1, <2>2, <1>0, <1>2, <1>3, RowsTyped DEF ParticipationTypeOK
<1>5. Once'
  <2> SUFFICES ASSUME NEW u \in Teams, NEW l \in Leagues, NEW n \in Leagues, NEW s \in Seasons,
                      Registered(u, l, s)', Registered(u, n, s)'
               PROVE  l = n
    BY DEF Once
  <2>0. <<u, l, s>> \in Keys /\ <<u, n, s>> \in Keys BY DEF Keys
  <2>1. CASE u = t
    <3>1. reg'[<<t, l, s>>] = TransferredRow(<<t, l, s>>, m) /\ reg'[<<t, n, s>>] = TransferredRow(<<t, n, s>>, m)
      BY <1>0, <2>0, <2>1
    <3>2. QED BY <1>0, <2>1, <3>1, TransferRows DEF Registered
  <2>2. CASE u # t
    <3>1. Registered(u, l, s) /\ Registered(u, n, s) BY <1>0, <2>0, <2>2 DEF Registered
    <3>2. QED BY <3>1 DEF Once
  <2>3. QED BY <2>1, <2>2
<1>6. \A u \in Teams, l \in Leagues, s \in Seasons :
        Registered(u, l, s) /\ (Live(u, l, s) \/ Open(u, l, s) # {}) => Registered(u, l, s)'
  <2> SUFFICES ASSUME NEW u \in Teams, NEW l \in Leagues, NEW s \in Seasons,
                      Registered(u, l, s), Live(u, l, s) \/ Open(u, l, s) # {}
               PROVE  Registered(u, l, s)'
    OBVIOUS
  <2>1. <<u, l, s>> \in Keys BY DEF Keys
  <2>2. <<u, l, s>> \notin going BY <1>1 DEF PlaysIn
  <2>3. QED BY <1>2, <2>1, <2>2 DEF Registered
<1>7. Carries BY <1>6 DEF Carries
<1>8. RowsAnchored'
  <2>1. \A k \in Keys : reg'[k].state # "none" => <<k[2], k[3]>> \in bound'
    BY <1>0, <1>2, Anchors DEF RowsAnchored
  <2>2. QED BY <1>0, <1>2, <2>1, Anchors DEF RowsAnchored, NoRow
<1>9. BooksGrow BY <1>0, Anchors DEF BooksGrow, ParticipationTypeOK
<1>10. AlignedKept
  <2> SUFFICES ASSUME NEW u \in Teams, NEW s \in Seasons, Aligned(u, s), ~Historical(s),
                      NEW l \in Leagues, Registered(u, l, s)'
               PROVE  leagueOf'[u] = l
    BY DEF AlignedKept, Aligned
  <2>0. <<u, l, s>> \in Keys BY DEF Keys
  <2>1. \/ Registered(u, l, s) /\ <<u, l, s>> \notin going
        \/ u = t /\ l = m
    BY <1>2, <2>0 DEF Registered
  <2>2. CASE u = t
    <3>1. leagueOf'[u] = m BY <2>2, <1>0 DEF ParticipationTypeOK
    <3>2. Registered(u, l, s) /\ l # m => <<u, l, s>> \in going
      BY <2>0, <2>2 DEF Transferable, Registered
    <3>3. QED BY <2>1, <3>1, <3>2
  <2>3. CASE u # t
    <3>1. leagueOf'[u] = leagueOf[u] BY <2>3, <1>0 DEF ParticipationTypeOK
    <3>2. QED BY <2>1, <2>3, <3>1 DEF Aligned
  <2>4. QED BY <2>2, <2>3
<1>11. QED BY <1>0, <1>4, <1>5, <1>7, <1>8, <1>9, <1>10, RegistrationsMoved

\* Rolling forward, in both versions: a selected team ends up at its own
\* league, and what it had elsewhere in the season is gone.
LEMMA RollForwardCalls ==
  ASSUME SetupInv, NEW from \in Seasons, NEW to \in Seasons, NEW chosen \in SUBSET Teams,
         NEW division \in [chosen -> Divisions \cup {Nowhere}],
         RollForward(from, to, chosen, division) \/ RollForwardV2(from, to, chosen, division)
  PROVE  SetupInv' /\ AlignedKept
<1> USE DEF SetupInv, RegInv
<1> DEFINE new == {t \in chosen : ~Registered(t, leagueOf[t], to)}
           Here(k) == k[3] = to /\ k[1] \in new /\ k[2] = leagueOf[k[1]]
           Gone(k) == k[3] = to /\ k[1] \in new /\ k[2] \in MovesFrom(k[1], to)
<1>0. /\ UNCHANGED <<seasons, archived, leagueOf, divisionOf, membership, teamOf, parked, playing>>
      /\ to \in seasons /\ \A t \in chosen : Fits(division[t], leagueOf[t], to)
      /\ bound' = bound \cup {<<leagueOf[t], to>> : t \in chosen}
  BY DEF RollForward, RollForwardV2, Rollable, playerVars, Writable
<1>1. /\ reg' = [k \in Keys |-> reg'[k]]
      /\ \A k \in Keys :
           \/ Here(k) /\ reg'[k] = Row("active", division[k[1]])
           \/ /\ Gone(k) /\ ~Here(k) /\ reg'[k] = NoRow /\ ~Live(k[1], k[2], to)
              /\ Open(k[1], k[2], to) # {} => <<k[1], to>> \in rebound'
           \/ ~Here(k) /\ reg'[k] = reg[k]
      /\ \A t \in new : \A l \in Leagues \ {leagueOf[t]} : ~Registered(t, l, to)'
      /\ rebound \subseteq rebound' /\ rebound' \subseteq Teams \X Seasons
  <2>1. CASE RollForward(from, to, chosen, division)
    <3>1. /\ reg' = [k \in Keys |-> IF Here(k) THEN Row("active", division[k[1]])
                                    ELSE IF Gone(k) THEN NoRow ELSE reg[k]]
          /\ \A t \in chosen : /\ reg[<<t, leagueOf[t], to>>].state # "none" => ~ElsewhereActive(t, leagueOf[t], to)
                               /\ \A l \in MovesFrom(t, to) : ~Live(t, l, to)
          /\ rebound' = rebound \cup
               {<<t, to>> : t \in {u \in new : \E l \in MovesFrom(u, to) : Open(u, l, to) # {}}}
      BY <2>1 DEF RollForward
    <3>2. ASSUME NEW t \in new, NEW l \in Leagues \ {leagueOf[t]} PROVE reg'[<<t, l, to>>].state # "active"
      <4>1. <<t, l, to>> \in Keys /\ ~Here(<<t, l, to>>) BY DEF Keys
      <4>2. CASE l \in MovesFrom(t, to)
        <5>1. reg'[<<t, l, to>>] = NoRow BY <3>1, <4>1, <4>2
        <5>2. QED BY <5>1 DEF NoRow
      <4>3. CASE l \notin MovesFrom(t, to)
        <5>1. reg'[<<t, l, to>>] = reg[<<t, l, to>>] BY <3>1, <4>1, <4>3
        <5>2. ~Registered(t, l, to) BY <3>1, <4>3 DEF MovesFrom, ElsewhereActive
        <5>3. QED BY <5>1, <5>2 DEF Registered
      <4>4. QED BY <4>2, <4>3
    <3>3. rebound' \subseteq Teams \X Seasons BY <3>1 DEF ParticipationTypeOK
    <3>4. \A k \in Keys : Gone(k) =>
            ~Live(k[1], k[2], to) /\ (Open(k[1], k[2], to) # {} => <<k[1], to>> \in rebound')
      BY <3>1
    <3> HIDE DEF Here, Gone
    <3>5. \A k \in Keys :
            \/ Here(k) /\ reg'[k] = Row("active", division[k[1]])
            \/ Gone(k) /\ ~Here(k) /\ reg'[k] = NoRow
            \/ ~Here(k) /\ reg'[k] = reg[k]
      BY <3>1
    <3>6. reg' = [k \in Keys |-> reg'[k]] BY <3>1
    <3>7. QED BY <3>1, <3>2, <3>3, <3>4, <3>5, <3>6 DEF Registered
  <2>2. CASE RollForwardV2(from, to, chosen, division)
    <3>1. /\ reg' = [k \in Keys |-> IF Here(k) THEN Row("active", division[k[1]]) ELSE reg[k]]
          /\ \A t \in chosen : ~ElsewhereActive(t, leagueOf[t], to)
          /\ rebound' = rebound
      BY <2>2 DEF RollForwardV2
    <3>2. ASSUME NEW t \in new, NEW l \in Leagues \ {leagueOf[t]} PROVE reg'[<<t, l, to>>].state # "active"
      <4>1. <<t, l, to>> \in Keys /\ ~Here(<<t, l, to>>) BY DEF Keys
      <4>2. reg'[<<t, l, to>>] = reg[<<t, l, to>>] BY <3>1, <4>1
      <4>3. QED BY <3>1, <4>2 DEF Registered, ElsewhereActive
    <3>3. rebound' \subseteq Teams \X Seasons BY <3>1 DEF ParticipationTypeOK
    <3> HIDE DEF Here, Gone
    <3>4. reg' = [k \in Keys |-> reg'[k]] BY <3>1
    <3>5. QED BY <3>1, <3>2, <3>3, <3>4 DEF Registered
  <2>3. QED BY <2>1, <2>2
<1>2. \A k \in Keys : Here(k) =>
        /\ Row("active", division[k[1]]) \in RowSet /\ Row("active", division[k[1]]).state = "active"
        /\ Row("active", division[k[1]]).division = division[k[1]]
        /\ division[k[1]] # Nowhere => divisionOf[division[k[1]]] # Nowhere
        /\ <<k[2], k[3]>> \in bound'
  <2> SUFFICES ASSUME NEW k \in Keys, Here(k)
               PROVE  /\ Row("active", division[k[1]]) \in RowSet /\ Row("active", division[k[1]]).state = "active"
                      /\ Row("active", division[k[1]]).division = division[k[1]]
                      /\ division[k[1]] # Nowhere => divisionOf[division[k[1]]] # Nowhere
                      /\ <<k[2], k[3]>> \in bound'
    OBVIOUS
  <2>1. division[k[1]] \in Divisions \cup {Nowhere} /\ k[1] \in chosen /\ leagueOf[k[1]] \in Leagues
    BY DEF ParticipationTypeOK
  <2>2. division[k[1]] # Nowhere => divisionOf[division[k[1]]] # Nowhere
    BY <1>0, <2>1, FitsThere
  <2>3. QED BY <2>1, <2>2, <1>0, RowIn
<1>3. ASSUME NEW k \in Keys
      PROVE  /\ reg'[k] \in RowSet
             /\ reg'[k].state = "none" => reg'[k] = NoRow
             /\ reg'[k].state # "none" => <<k[2], k[3]>> \in bound'
             /\ reg'[k].division # Nowhere => divisionOf'[reg'[k].division] # Nowhere
             /\ reg'[k].state = "active" => reg[k].state = "active" \/ k[2] = leagueOf[k[1]]
  <2>1. CASE Here(k) /\ reg'[k] = Row("active", division[k[1]]) BY <2>1, <1>0, <1>2
  <2>2. CASE reg'[k] = NoRow BY <2>2 DEF NoRow, RowSet
  <2>3. CASE reg'[k] = reg[k] BY <2>3, <1>0, RowType, Anchors DEF RowsAnchored
  <2>4. QED BY <2>1, <2>2, <2>3, <1>1
<1> HIDE DEF Here, Gone
<1>4. ParticipationTypeOK'
  <2>1. {<<leagueOf[t], to>> : t \in chosen} \subseteq Leagues \X seasons
    BY <1>0 DEF ParticipationTypeOK
  <2>2. QED BY <2>1, <1>0, <1>1, <1>3, RowsTyped DEF ParticipationTypeOK
<1>5. ASSUME NEW t \in Teams, NEW l \in Leagues, NEW s \in Seasons
      PROVE  /\ Registered(t, l, s)' => Registered(t, l, s) \/ leagueOf[t] = l
             /\ Registered(t, l, s)' /\ ~Registered(t, l, s) => t \in new /\ s = to
             /\ Live(t, l, s) /\ Registered(t, l, s) => Registered(t, l, s)'
             /\ Open(t, l, s) # {} /\ Registered(t, l, s) => Registered(t, l, s)' \/ <<t, s>> \in rebound'
  <2> DEFINE k == <<t, l, s>>
  <2>1. k \in Keys /\ k[1] = t /\ k[2] = l /\ k[3] = s BY DEF Keys
  <2>2. CASE Here(k) /\ reg'[k] = Row("active", division[k[1]])
    <3>1. reg'[k].state = "active" BY <2>1, <2>2, <1>2
    <3>2. t \in new /\ s = to /\ leagueOf[t] = l BY <2>1, <2>2 DEF Here
    <3>3. QED BY <3>1, <3>2 DEF Registered
  <2>3. CASE /\ Gone(k) /\ reg'[k] = NoRow /\ ~Live(k[1], k[2], to)
             /\ Open(k[1], k[2], to) # {} => <<k[1], to>> \in rebound'
    <3>1. s = to BY <2>1, <2>3 DEF Gone
    <3>2. ~Registered(t, l, s)' BY <2>3 DEF Registered, NoRow
    <3>3. QED BY <2>1, <2>3, <3>1, <3>2
  <2>4. CASE reg'[k] = reg[k] BY <2>4 DEF Registered
  <2>5. QED BY <2>1, <2>2, <2>3, <2>4, <1>1
<1>6. Once'
  <2> SUFFICES ASSUME NEW t \in Teams, NEW l \in Leagues, NEW n \in Leagues, NEW s \in Seasons,
                      Registered(t, l, s)', Registered(t, n, s)'
               PROVE  l = n
    BY DEF Once
  <2>1. CASE t \in new /\ s = to BY <2>1, <1>1
  <2>2. CASE ~(t \in new /\ s = to) BY <2>2, <1>5 DEF Once
  <2>3. QED BY <2>1, <2>2
<1>7. Carries BY <1>5 DEF Carries
<1>8. RowsAnchored' BY <1>3 DEF RowsAnchored, NoRow
<1>9. BooksGrow BY <1>0, <1>1, Anchors DEF BooksGrow, ParticipationTypeOK
<1>10. AlignedKept BY <1>0, <1>5, NoneAstray
<1>11. QED BY <1>0, <1>4, <1>6, <1>7, <1>8, <1>9, <1>10, RegistrationsMoved

-----------------------------------------------------------------------------
(* The calls on players and on games                                       *)

StintSet == [state : {"none", "active", "affiliate", "parked"}, team : Teams \cup {Nowhere}]

\* A call on memberships opens them on a registration, or changes the state of
\* one that is open.
LEMMA MembershipsMoved ==
  ASSUME SetupInv, UNCHANGED <<seasons, archived, bound, leagueOf, reg, divisionOf, playing, rebound>>,
         membership' \in [Stints -> StintSet],
         teamOf' \in [Players -> Teams \cup {Nowhere}], parked' \subseteq Players,
         \A k \in Stints :
           /\ membership'[k] # membership[k] =>
                /\ membership'[k].state # "none" /\ membership'[k].team # Nowhere
                /\ \/ Registered(membership'[k].team, k[2], k[3])
                   \/ membership[k].state # "none" /\ membership'[k].team = membership[k].team
           /\ membership'[k].state # "none" => teamOf'[k[1]] # Nowhere,
         ActiveOnce'
  PROVE  SetupInv' /\ AlignedKept
<1> USE ParticipationAssumption DEF SetupInv, RegInv
<1>1. ParticipationTypeOK' BY DEF ParticipationTypeOK, StintSet
<1>2. Tidy'
  <2> SUFFICES ASSUME NEW k \in Stints
               PROVE  /\ membership'[k].state = "none" <=> membership'[k].team = Nowhere
                      /\ teamOf'[k[1]] = Nowhere => membership'[k].state = "none"
    BY DEF Tidy, NoRow
  <2>1. QED BY DEF Tidy
<1>3. (Once /\ Fielded)' BY DEF Once, Fielded, Registered, Live
<1>4. \A k \in Stints : membership'[k].state # "none" => <<k[2], k[3]>> \in bound
  <2> SUFFICES ASSUME NEW k \in Stints, membership'[k].state # "none" PROVE <<k[2], k[3]>> \in bound
    OBVIOUS
  <2>1. CASE membership[k].state # "none" BY <2>1 DEF Anchored
  <2>2. CASE Registered(membership'[k].team, k[2], k[3]) /\ membership'[k].team # Nowhere
    <3> DEFINE j == <<membership'[k].team, k[2], k[3]>>
    <3>1. j \in Keys BY <2>2 DEF Stints, StintSet, Keys
    <3>2. reg[j].state # "none" /\ j[2] = k[2] /\ j[3] = k[3] BY <2>2 DEF Registered
    <3> HIDE DEF j
    <3>3. QED BY <3>1, <3>2, Anchors DEF RowsAnchored
  <2>3. QED BY <2>1, <2>2
<1>5. Anchored' BY <1>4 DEF Anchored
<1>6. Backed'
  <2> SUFFICES ASSUME NEW k \in Stints, membership'[k].state # "none"
               PROVE  \/ Registered(membership'[k].team, k[2], k[3])
                      \/ <<membership'[k].team, k[3]>> \in rebound
    BY DEF Backed, Registered
  <2>1. QED BY DEF Backed
<1>7. AlignedKept BY NoneAstray DEF Registered
<1>8. QED BY <1>1, <1>2, <1>3, <1>5, <1>6, <1>7

LEMMA AddPlayerCall ==
  ASSUME SetupInv, NEW p \in Players, NEW t \in Teams, NEW on \in BOOLEAN, AddPlayer(p, t, on)
  PROVE  SetupInv' /\ AlignedKept
<1> USE ParticipationAssumption DEF SetupInv, RegInv
<1>0. /\ UNCHANGED <<seasons, archived, bound, leagueOf, reg, divisionOf, playing, rebound>>
      /\ teamOf[p] = Nowhere /\ teamOf' = [teamOf EXCEPT ![p] = t] /\ parked' \subseteq Players
  BY DEF AddPlayer, spineVars, ParticipationTypeOK
<1>1. /\ membership' \in [Stints -> StintSet]
      /\ \A k \in Stints :
           \/ membership'[k] = membership[k]
           \/ membership'[k] = [state |-> "active", team |-> t] /\ k[1] = p /\ Registered(t, k[2], k[3])
  <2>1. membership \in [Stints -> StintSet] BY DEF ParticipationTypeOK, StintSet
  <2>2. [state |-> "active", team |-> t] \in StintSet BY DEF StintSet
  <2>3. CASE on BY <2>1, <2>2, <2>3 DEF AddPlayer
  <2>4. CASE ~on BY <2>1, <2>4 DEF AddPlayer
  <2>5. QED BY <2>3, <2>4
<1>2. \A k \in Stints :
        /\ membership'[k] # membership[k] =>
             /\ membership'[k].state # "none" /\ membership'[k].team # Nowhere
             /\ Registered(membership'[k].team, k[2], k[3])
        /\ membership'[k].state # "none" => teamOf'[k[1]] # Nowhere
  BY <1>0, <1>1 DEF Tidy, ParticipationTypeOK, Stints
<1>3. ActiveOnce'
  <2> SUFFICES ASSUME NEW q \in Players, NEW l \in Leagues, NEW m \in Leagues, NEW s \in Seasons,
                      membership'[<<q, l, s>>].state = "active", membership'[<<q, m, s>>].state = "active"
               PROVE  l = m
    BY DEF ActiveOnce
  <2>0. <<q, l, s>> \in Stints /\ <<q, m, s>> \in Stints BY DEF Stints
  <2>1. CASE q # p
    <3>1. membership'[<<q, l, s>>] = membership[<<q, l, s>>] /\ membership'[<<q, m, s>>] = membership[<<q, m, s>>]
      BY <2>0, <2>1, <1>1
    <3>2. QED BY <3>1 DEF ActiveOnce
  <2>2. CASE q = p
    <3>1. membership[<<p, l, s>>].state = "none" /\ membership[<<p, m, s>>].state = "none"
      BY <2>0, <2>2, <1>0 DEF Tidy
    <3>2. Registered(t, l, s) /\ Registered(t, m, s) BY <2>0, <2>2, <3>1, <1>1
    <3>3. QED BY <3>2 DEF Once
  <2>3. QED BY <2>1, <2>2
<1>4. teamOf' \in [Players -> Teams \cup {Nowhere}] BY <1>0 DEF ParticipationTypeOK
<1>5. QED BY <1>0, <1>1, <1>2, <1>3, <1>4, MembershipsMoved

LEMMA PlayerCalls ==
  ASSUME SetupInv, NEW p \in Players, NEW t \in Teams, NEW on \in BOOLEAN,
         AssignPlayerTeam(p, t) \/ SetPlayerActive(p, on)
  PROVE  SetupInv' /\ AlignedKept
<1> USE ParticipationAssumption DEF SetupInv, RegInv
<1>0. /\ UNCHANGED <<seasons, archived, bound, leagueOf, reg, divisionOf, membership, playing, rebound>>
      /\ teamOf' \in [Players -> Teams \cup {Nowhere}] /\ parked' \subseteq Players
      /\ \A q \in Players : teamOf'[q] = Nowhere => teamOf[q] = Nowhere
  BY DEF AssignPlayerTeam, SetPlayerActive, spineVars, ParticipationTypeOK
<1>1. membership \in [Stints -> StintSet] BY DEF ParticipationTypeOK, StintSet
<1>2. \A k \in Stints : membership[k].state # "none" => teamOf'[k[1]] # Nowhere
  BY <1>0 DEF Tidy, Stints
<1>3. ActiveOnce' BY <1>0 DEF ActiveOnce
<1>4. QED BY <1>0, <1>1, <1>2, <1>3, MembershipsMoved

LEMMA MembershipCalls ==
  ASSUME SetupInv, NEW p \in Players, NEW t \in Teams, NEW l \in Leagues, NEW s \in Seasons,
         NEW state \in {"active", "affiliate", "parked"},
         CreateMembership(p, t, l, s, state) \/ SetMembership(p, l, s, state)
  PROVE  SetupInv' /\ AlignedKept
<1> USE ParticipationAssumption DEF SetupInv, RegInv
<1> DEFINE here == <<p, l, s>>
<1>a. here \in Stints /\ here[1] = p /\ here[2] = l /\ here[3] = s BY DEF Stints
<1>0. /\ UNCHANGED <<seasons, archived, bound, leagueOf, reg, divisionOf, teamOf, parked, playing, rebound>>
      /\ state = "active" => ActiveIn(p, s) = {}
  BY DEF CreateMembership, SetMembership, spineVars
<1>1. PICK u \in Teams :
        /\ membership' = [membership EXCEPT ![here] = [state |-> state, team |-> u]]
        /\ teamOf[p] # Nowhere
        /\ Registered(u, l, s) \/ (membership[here].state # "none" /\ u = membership[here].team)
  <2>1. CASE CreateMembership(p, t, l, s, state)
    <3>1. /\ membership' = [membership EXCEPT ![here] = [state |-> state, team |-> t]]
          /\ teamOf[p] # Nowhere /\ Registered(t, l, s)
      BY <2>1 DEF CreateMembership, SpineHolds
    <3> HIDE DEF here
    <3>2. QED BY <3>1
  <2>2. CASE SetMembership(p, l, s, state)
    <3>1. membership[here].state # "none" BY <2>2 DEF SetMembership
    <3>2. membership[here].team \in Teams /\ teamOf[p] # Nowhere BY <1>a, <3>1 DEF Tidy, ParticipationTypeOK
    <3>3. membership' = [membership EXCEPT ![here].state = state] BY <2>2 DEF SetMembership
    <3>4. membership[here] \in StintSet /\ DOMAIN membership = Stints
      BY <1>a DEF ParticipationTypeOK, StintSet
    <3> HIDE DEF here
    <3>5. [membership[here] EXCEPT !.state = state] = [state |-> state, team |-> membership[here].team]
      BY <3>4 DEF StintSet
    <3>6. membership' = [membership EXCEPT ![here] = [state |-> state, team |-> membership[here].team]]
      BY <3>3, <3>4, <3>5
    <3>7. QED BY <3>1, <3>2, <3>6
  <2>3. QED BY <2>1, <2>2
<1>2. /\ membership' \in [Stints -> StintSet] /\ membership'[here] = [state |-> state, team |-> u]
      /\ \A k \in Stints \ {here} : membership'[k] = membership[k]
  <2>1. membership \in [Stints -> StintSet] BY DEF ParticipationTypeOK, StintSet
  <2>2. [state |-> state, team |-> u] \in StintSet BY DEF StintSet
  <2>3. QED BY <1>1, <1>a, <2>1, <2>2
<1>3. \A k \in Stints :
        /\ membership'[k] # membership[k] =>
             /\ membership'[k].state # "none" /\ membership'[k].team # Nowhere
             /\ \/ Registered(membership'[k].team, k[2], k[3])
                \/ membership[k].state # "none" /\ membership'[k].team = membership[k].team
        /\ membership'[k].state # "none" => teamOf'[k[1]] # Nowhere
  <2> SUFFICES ASSUME NEW k \in Stints
               PROVE  /\ membership'[k] # membership[k] =>
                           /\ membership'[k].state # "none" /\ membership'[k].team # Nowhere
                           /\ \/ Registered(membership'[k].team, k[2], k[3])
                              \/ membership[k].state # "none" /\ membership'[k].team = membership[k].team
                      /\ membership'[k].state # "none" => teamOf'[k[1]] # Nowhere
    OBVIOUS
  <2>1. CASE k = here BY <2>1, <1>a, <1>0, <1>1, <1>2
  <2>2. CASE k # here BY <2>2, <1>0, <1>2 DEF Tidy
  <2>3. QED BY <2>1, <2>2
<1>4. ActiveOnce'
  <2> SUFFICES ASSUME NEW q \in Players, NEW n \in Leagues, NEW m \in Leagues, NEW z \in Seasons,
                      membership'[<<q, n, z>>].state = "active", membership'[<<q, m, z>>].state = "active"
               PROVE  n = m
    BY DEF ActiveOnce
  <2>0. <<q, n, z>> \in Stints /\ <<q, m, z>> \in Stints BY DEF Stints
  <2>1. ASSUME NEW o \in Leagues, NEW x \in Leagues, <<q, o, z>> = here, x # o,
               membership'[<<q, o, z>>].state = "active", membership'[<<q, x, z>>].state = "active"
        PROVE  FALSE
    <3>1. q = p /\ z = s /\ o = l /\ <<q, x, z>> \in Stints \ {here} BY <2>1 DEF Stints
    <3>2. state = "active" BY <2>1, <1>2
    <3>3. membership[<<p, x, s>>].state = "active" BY <2>1, <3>1, <1>2
    <3>4. QED BY <3>2, <3>3, <1>0 DEF ActiveIn
  <2>2. CASE <<q, n, z>> # here /\ <<q, m, z>> # here BY <2>0, <2>2, <1>2 DEF ActiveOnce
  <2>3. QED BY <2>1, <2>2
<1>5. QED BY <1>0, <1>2, <1>3, <1>4, MembershipsMoved DEF ParticipationTypeOK

LEMMA GameCalls ==
  ASSUME SetupInv, NEW t \in Teams, NEW l \in Leagues, NEW s \in Seasons, NEW d \in Divisions \cup {Nowhere},
         Schedule(t, l, s, d) \/ CancelGame(t, l, s, d) \/ DeleteDraft(t, l, s, d)
  PROVE  SetupInv' /\ AlignedKept
<1> USE ParticipationAssumption DEF SetupInv, RegInv
<1> DEFINE here == <<t, l, s>>
<1>0. UNCHANGED <<seasons, archived, bound, leagueOf, reg, divisionOf, membership, teamOf, parked, rebound>>
  BY DEF Schedule, CancelGame, DeleteDraft, spineVars, playerVars
<1>a. here \in Keys /\ here[1] = t /\ here[2] = l /\ here[3] = s BY DEF Keys
<1>1. PICK games \in SUBSET ({"live", "cancelled"} \X (Divisions \cup {Nowhere})) :
        /\ playing' = [playing EXCEPT ![here] = games]
        /\ Registered(t, l, s) \/ \E g \in playing[here] : g[1] = "live"
  <2>1. CASE Schedule(t, l, s, d)
    <3>1. playing[here] \cup {<<"live", d>>} \in SUBSET ({"live", "cancelled"} \X (Divisions \cup {Nowhere}))
      BY <1>a DEF ParticipationTypeOK
    <3>2. QED BY <2>1, <3>1 DEF Schedule, SpineHolds
  <2>2. CASE CancelGame(t, l, s, d)
    <3>1. (playing[here] \ {<<"live", d>>}) \cup {<<"cancelled", d>>}
             \in SUBSET ({"live", "cancelled"} \X (Divisions \cup {Nowhere}))
      BY <1>a DEF ParticipationTypeOK
    <3>2. QED BY <2>2, <3>1 DEF CancelGame
  <2>3. CASE DeleteDraft(t, l, s, d)
    <3>1. playing[here] \ {<<"live", d>>} \in SUBSET ({"live", "cancelled"} \X (Divisions \cup {Nowhere}))
      BY <1>a DEF ParticipationTypeOK
    <3>2. QED BY <2>3, <3>1 DEF DeleteDraft
  <2>4. QED BY <2>1, <2>2, <2>3
<1>2. Registered(t, l, s) /\ <<l, s>> \in bound
  <2>1. Registered(t, l, s) BY <1>1 DEF Fielded, Live
  <2>2. reg[here].state # "none" BY <2>1 DEF Registered
  <2> HIDE DEF here
  <2>3. <<here[2], here[3]>> \in bound BY <2>2, <1>a, Anchors DEF RowsAnchored
  <2>4. QED BY <2>1, <2>3, <1>a
<1>3. ParticipationTypeOK' BY <1>0, <1>1, <1>a DEF ParticipationTypeOK
<1>4. Fielded'
  <2> SUFFICES ASSUME NEW u \in Teams, NEW m \in Leagues, NEW z \in Seasons, Live(u, m, z)'
               PROVE  Registered(u, m, z)
    BY <1>0 DEF Fielded, Registered
  <2>1. CASE <<u, m, z>> = here BY <2>1, <1>2
  <2>2. CASE <<u, m, z>> # here
    <3>1. playing'[<<u, m, z>>] = playing[<<u, m, z>>] BY <2>2, <1>1 DEF ParticipationTypeOK, Keys
    <3>2. QED BY <3>1 DEF Fielded, Live
  <2>3. QED BY <2>1, <2>2
<1>5. Anchored'
  <2>1. \A k \in Keys : playing'[k] # {} => <<k[2], k[3]>> \in bound
    <3> SUFFICES ASSUME NEW k \in Keys, playing'[k] # {} PROVE <<k[2], k[3]>> \in bound
      OBVIOUS
    <3>1. CASE k = here BY <3>1, <1>a, <1>2
    <3>2. CASE k # here
      <4>1. playing'[k] = playing[k] BY <3>2, <1>1 DEF ParticipationTypeOK
      <4>2. QED BY <4>1 DEF Anchored
    <3>3. QED BY <3>1, <3>2
  <2>2. QED BY <1>0, <2>1 DEF Anchored
<1>6. (Tidy /\ Once /\ ActiveOnce /\ Backed)'
  BY <1>0 DEF Tidy, Once, ActiveOnce, Backed, Registered
<1>7. AlignedKept BY <1>0, NoneAstray DEF Registered
<1>8. QED BY <1>3, <1>4, <1>5, <1>6, <1>7

-----------------------------------------------------------------------------
(* Every call of Participation                                             *)

LEMMA SetupStep ==
  ASSUME SetupInv, ParticipationNext
  PROVE  SetupInv' /\ AlignedKept
<1>1. CASE SpineCall
  <2>1. CASE \E s \in Seasons : CreateSeason(s) \/ DeleteSeason(s) \/ ArchiveSeason(s) \/ ReopenSeason(s)
    <3>1. SetupInv' BY <2>1, SeasonCalls
    <3>2. UNCHANGED <<leagueOf, reg>>
      BY <2>1 DEF CreateSeason, DeleteSeason, ArchiveSeason, ReopenSeason
    <3>3. QED BY <3>1, <3>2, NoneAstray DEF Registered
  <2>2. CASE \E l \in Leagues, s \in Seasons : CreateLeagueSeason(l, s) \/ DeleteLeagueSeason(l, s)
    <3>1. SetupInv' BY <2>2, LeagueSeasonCalls
    <3>2. UNCHANGED <<leagueOf, reg>> BY <2>2 DEF CreateLeagueSeason, DeleteLeagueSeason
    <3>3. QED BY <3>1, <3>2, NoneAstray DEF Registered
  <2>3. CASE \E d \in Divisions : DeleteDivision(d) BY <2>3, DeleteDivisionCall
  <2>4. CASE \E d \in Divisions, l \in Leagues, v2 \in BOOLEAN : AssignDivisionLeague(d, l, v2)
    <3>1. PICK d \in Divisions, l \in Leagues, v2 \in BOOLEAN : AssignDivisionLeague(d, l, v2) BY <2>4
    <3>2. PICK s \in Seasons : TRUE
      BY <3>1 DEF AssignDivisionLeague, Writable, SetupInv, ParticipationTypeOK
    <3>3. SetupInv' BY <3>1, <3>2, DivisionCalls
    <3>4. UNCHANGED <<leagueOf, reg>> BY <3>1 DEF AssignDivisionLeague
    <3>5. QED BY <3>3, <3>4, NoneAstray DEF Registered
  <2>5. CASE \E d \in Divisions, l \in Leagues, s \in Seasons :
               CreateDivision(d, l, s) \/ CreateDivisionUnderLeague(d, l, s)
    <3>1. SetupInv' BY <2>5, DivisionCalls
    <3>2. UNCHANGED <<leagueOf, reg>> BY <2>5 DEF CreateDivision, CreateDivisionUnderLeague
    <3>3. QED BY <3>1, <3>2, NoneAstray DEF Registered
  <2>6. QED BY <1>1, <2>1, <2>2, <2>3, <2>4, <2>5 DEF SpineCall
<1>2. CASE RegistrationCall
  <2>1. CASE \E t \in Teams, s \in Seasons, d \in Divisions \cup {Nowhere} :
               RegisterTeam(t, s, d) \/ \E l \in Leagues : AssignSeasonTeamDivision(t, l, s, d)
    BY <2>1, RegisterTeamCall, AssignDivisionCall
  <2>2. CASE \E t \in Teams, l \in Leagues, s \in Seasons :
               AssignSeasonTeamLeague(t, l, s) \/ UnregisterTeam(t, l, s) \/ DeleteRegistration(t, l, s)
    BY <2>2, AssignLeagueCall, RowLeavesCalls
  <2>3. CASE \E t \in Teams, l \in Leagues : TransferTeam(t, l) BY <2>3, TransferCall
  <2>4. CASE \E from, to \in Seasons, chosen \in SUBSET Teams :
               \E division \in [chosen -> Divisions \cup {Nowhere}] :
                 RollForward(from, to, chosen, division) \/ RollForwardV2(from, to, chosen, division)
    BY <2>4, RollForwardCalls
  <2>5. QED BY <1>2, <2>1, <2>2, <2>3, <2>4 DEF RegistrationCall
<1>3. CASE PlayerCall
  <2>1. CASE \E p \in Players, on \in BOOLEAN : SetPlayerActive(p, on)
    <3>1. PICK p \in Players, on \in BOOLEAN : SetPlayerActive(p, on) BY <2>1
    <3>2. PICK t \in Teams : TRUE
      BY <3>1, ParticipationAssumption DEF SetPlayerActive, SetupInv, ParticipationTypeOK
    <3>3. QED BY <3>1, <3>2, PlayerCalls
  <2>2. CASE \E p \in Players, on \in BOOLEAN, t \in Teams : AddPlayer(p, t, on) BY <2>2, AddPlayerCall
  <2>3. CASE \E p \in Players, t \in Teams : AssignPlayerTeam(p, t) BY <2>3, PlayerCalls
  <2>4. CASE \E p \in Players, l \in Leagues, s \in Seasons, state \in {"active", "affiliate", "parked"} :
               SetMembership(p, l, s, state)
    <3>1. PICK p \in Players, l \in Leagues, s \in Seasons, state \in {"active", "affiliate", "parked"} :
            SetMembership(p, l, s, state)
      BY <2>4
    <3>2. PICK t \in Teams : TRUE
      <4>1. <<p, l, s>> \in Stints /\ membership[<<p, l, s>>].state # "none"
        BY <3>1 DEF SetMembership, Stints
      <4>2. QED BY <4>1 DEF SetupInv, RegInv, Tidy, ParticipationTypeOK
    <3>3. QED BY <3>1, <3>2, MembershipCalls
  <2>5. CASE \E p \in Players, t \in Teams, l \in Leagues, s \in Seasons,
                state \in {"active", "affiliate", "parked"} : CreateMembership(p, t, l, s, state)
    BY <2>5, MembershipCalls
  <2>6. QED BY <1>3, <2>1, <2>2, <2>3, <2>4, <2>5 DEF PlayerCall
<1>4. CASE GameCall BY <1>4, GameCalls DEF GameCall
<1>5. QED BY <1>1, <1>2, <1>3, <1>4 DEF ParticipationNext

LEMMA SetupStutter ==
  ASSUME SetupInv, UNCHANGED tables
  PROVE  SetupInv' /\ AlignedKept
<1> USE DEF tables, spineVars, playerVars
<1>1. ParticipationTypeOK' BY DEF SetupInv, ParticipationTypeOK
<1>2. (Tidy /\ Once /\ ActiveOnce)' BY DEF SetupInv, RegInv, Tidy, Once, ActiveOnce, Registered
<1>3. (Fielded /\ Anchored /\ Backed)'
  BY DEF SetupInv, RegInv, Fielded, Anchored, Backed, Live, Registered
<1>4. AlignedKept BY NoneAstray DEF Registered
<1>5. QED BY <1>1, <1>2, <1>3, <1>4 DEF SetupInv, RegInv

-----------------------------------------------------------------------------
(* A new season from an old one                                            *)

\* The ledger has one row a plan, of a season that exists, and every answer is
\* one of its rows.
LedgerInv ==
  /\ answers \subseteq ledger
  /\ made = {<<e.plan, e.season>> : e \in ledger}
  /\ \A e, f \in ledger : e.plan = f.plan => e = f
  /\ \A e \in ledger : e.season \in seasons

LEMMA LedgerSound == LedgerInv => OneSeasonPerReview
BY DEF LedgerInv, OneSeasonPerReview

LEMMA CommitCall ==
  ASSUME SetupInv, NEW o \in Operators, NEW plan \in Plans, NEW s \in Seasons, Commit(o, plan, s)
  PROVE  SetupInv' /\ AlignedKept
<1> USE DEF SetupInv, RegInv
<1> DEFINE chosen == DOMAIN plan.leagues
           Here(k) == k[3] = s /\ k[1] \in chosen /\ k[2] = plan.leagues[k[1]]
<1>0. /\ UNCHANGED <<archived, leagueOf, divisionOf, membership, teamOf, parked, playing, rebound>>
      /\ s \notin seasons /\ seasons' = seasons \cup {s}
      /\ \A t \in chosen : leagueOf[t] = plan.leagues[t]
      /\ bound' = bound \cup {<<plan.leagues[t], s>> : t \in chosen}
      /\ reg' = [k \in Keys |-> IF Here(k) THEN Row("active", Nowhere) ELSE reg[k]]
  BY DEF Commit, Holds, playerVars
<1>1. chosen \subseteq Teams /\ \A t \in chosen : plan.leagues[t] \in Leagues
  <2>1. PICK c \in SUBSET Teams : plan \in [from : Seasons, leagues : [c -> Leagues]] BY DEF Plans
  <2>2. plan.leagues \in [c -> Leagues] BY <2>1
  <2>3. QED BY <2>2
<1>2. /\ \A k \in Keys : k[3] = s => reg[k].state = "none" /\ playing[k] = {}
      /\ \A k \in Stints : k[3] = s => membership[k].state = "none"
  <2>1. \A l \in Leagues : <<l, s>> \notin bound BY <1>0 DEF Anchored
  <2>2. QED BY <2>1 DEF Anchored, Keys, Stints
<1>3. Row("active", Nowhere) \in RowSet /\ Row("active", Nowhere).state = "active"
      /\ Row("active", Nowhere).division = Nowhere
  BY RowIn
<1>4. ASSUME NEW k \in Keys
      PROVE  /\ reg'[k] \in RowSet
             /\ reg'[k].state = "none" => reg'[k] = NoRow
             /\ reg'[k].state # "none" => <<k[2], k[3]>> \in bound'
             /\ reg'[k].division # Nowhere => divisionOf'[reg'[k].division] # Nowhere
             /\ reg'[k].state = "active" => reg[k].state = "active" \/ Here(k)
             /\ reg[k].state = "active" => reg'[k].state = "active"
  <2>1. CASE Here(k)
    <3>1. reg'[k] = Row("active", Nowhere) BY <1>0, <2>1
    <3>2. <<k[2], k[3]>> \in bound' BY <1>0, <2>1
    <3>3. QED BY <1>3, <2>1, <3>1, <3>2
  <2>2. CASE ~Here(k)
    <3>1. reg'[k] = reg[k] BY <1>0, <2>2
    <3>2. QED BY <1>0, <3>1, RowType, Anchors DEF RowsAnchored
  <2>3. QED BY <2>1, <2>2
<1>5. ParticipationTypeOK'
  <2>1. {<<plan.leagues[t], s>> : t \in chosen} \subseteq Leagues \X seasons' BY <1>0, <1>1
  <2>2. bound' \subseteq Leagues \X seasons' BY <2>1, <1>0 DEF ParticipationTypeOK
  <2>3. QED BY <2>2, <1>0, <1>4, RowsTyped DEF ParticipationTypeOK
<1>6. ASSUME NEW t \in Teams, NEW l \in Leagues, NEW z \in Seasons
      PROVE  /\ Registered(t, l, z)' => Registered(t, l, z) \/ (z = s /\ leagueOf[t] = l)
             /\ Registered(t, l, z) => Registered(t, l, z)' /\ z # s
  <2>1. <<t, l, z>> \in Keys BY DEF Keys
  <2>2. QED BY <2>1, <1>0, <1>2, <1>4 DEF Registered
<1>7. Once' BY <1>6 DEF Once
<1>8. Carries BY <1>6 DEF Carries
<1>9. RowsAnchored' BY <1>4 DEF RowsAnchored, NoRow
<1>10. BooksGrow BY <1>0, Anchors DEF BooksGrow, ParticipationTypeOK
<1>11. AlignedKept BY <1>0, <1>6, NoneAstray
<1>12. QED BY <1>0, <1>5, <1>7, <1>8, <1>9, <1>10, <1>11, RegistrationsMoved

LEMMA CopyForwardStep ==
  ASSUME SetupInv, LedgerInv, CopyForwardNext
  PROVE  SetupInv' /\ LedgerInv' /\ AlignedKept
<1>1. CASE \E o \in Operators, plan \in Plans : Preview(o, plan) \/ Replay(o, plan)
  <2>1. PICK o \in Operators, plan \in Plans : Preview(o, plan) \/ Replay(o, plan) BY <1>1
  <2>2. UNCHANGED tables /\ UNCHANGED <<ledger, made>> /\ answers' \subseteq ledger
    BY <2>1 DEF Preview, Replay, Entries, LedgerInv
  <2>3. LedgerInv' BY <2>2 DEF LedgerInv, tables, spineVars
  <2>4. QED BY <2>2, <2>3, SetupStutter
<1>2. CASE \E o \in Operators, plan \in Plans, s \in Seasons : Commit(o, plan, s)
  <2>1. PICK o \in Operators, plan \in Plans, s \in Seasons : Commit(o, plan, s) BY <1>2
  <2>2. SetupInv' /\ AlignedKept BY <2>1, CommitCall
  <2> DEFINE e == [plan |-> plan, actor |-> o, season |-> s]
  <2>3. /\ ledger' = ledger \cup {e} /\ made' = made \cup {<<plan, s>>} /\ answers' = answers \cup {e}
        /\ seasons' = seasons \cup {s} /\ \A f \in ledger : f.plan # plan
    BY <2>1 DEF Commit, Unspent
  <2>4. e.plan = plan /\ e.season = s OBVIOUS
  <2> HIDE DEF e
  <2>5. LedgerInv' BY <2>3, <2>4 DEF LedgerInv
  <2>6. QED BY <2>2, <2>5
<1>3. CASE ParticipationNext /\ LedgerKept /\ UNCHANGED copyVars
  <2>1. LedgerInv' BY <1>3 DEF LedgerInv, LedgerKept, copyVars
  <2>2. QED BY <1>3, <2>1, SetupStep
<1>4. QED BY <1>1, <1>2, <1>3 DEF CopyForwardNext, CopyForwardCall

-----------------------------------------------------------------------------
(* The two spreadsheet imports                                             *)

\* What the rows of registrations make of a table in which a team has one
\* active row a season and games and open memberships keep theirs: each team
\* and season of a row ends up there alone.
EntryAt(entries, k) == <<k[1], k[3]>> \in DOMAIN entries /\ k[2] = entries[<<k[1], k[3]>>].league

LEMMA RowsEntered ==
  ASSUME SetupInv, NEW table \in [Keys -> RowSet], NEW entries,
         DOMAIN entries \subseteq Teams \X Seasons,
         \A e \in DOMAIN entries :
           entries[e].league \in Leagues /\ entries[e].division \in Divisions \cup {Nowhere},
         \A k \in Keys : table[k].state = "none" => table[k] = NoRow,
         \A t \in Teams, l, m \in Leagues, s \in Seasons :
           table[<<t, l, s>>].state = "active" /\ table[<<t, m, s>>].state = "active" => l = m,
         \A t \in Teams, l \in Leagues, s \in Seasons :
           Registered(t, l, s) /\ (Live(t, l, s) \/ Open(t, l, s) # {}) => table[<<t, l, s>>].state = "active",
         \A e \in DOMAIN entries : Cardinality(Met(table, e[1], entries[e].league, e[2])) <= 1,
         \A e \in DOMAIN entries, l \in Leagues :
           l # entries[e].league /\ Registered(e[1], l, e[2]) => ~Live(e[1], l, e[2]),
         Enter(table, entries)
  PROVE  /\ reg' = [k \in Keys |-> reg'[k]]
         /\ \A k \in Keys :
              /\ reg'[k] \in RowSet
              /\ reg'[k].state = "none" => reg'[k] = NoRow
              /\ reg'[k].state # "none" => table[k].state # "none" \/ EntryAt(entries, k)
              /\ reg'[k].division # Nowhere =>
                   \/ reg'[k].division = table[k].division
                   \/ EntryAt(entries, k) /\ reg'[k].division = entries[<<k[1], k[3]>>].division
         /\ \A t \in Teams, l \in Leagues, s \in Seasons : Registered(t, l, s)' =>
              \/ EntryAt(entries, <<t, l, s>>)
              \/ <<t, s>> \notin DOMAIN entries /\ table[<<t, l, s>>].state = "active"
         /\ \A e \in DOMAIN entries :
              reg'[<<e[1], entries[e].league, e[2]>>] = Row("active", entries[e].division)
         /\ rebound \subseteq rebound' /\ rebound' \subseteq Teams \X Seasons
         /\ Once' /\ Carries
<1> USE DEF SetupInv, RegInv
<1>1. ASSUME NEW k \in Keys
      PROVE  /\ EntryAt(entries, k) => reg'[k] = Row("active", entries[<<k[1], k[3]>>].division)
             /\ <<k[1], k[3]>> \notin DOMAIN entries => reg'[k] = table[k]
             /\ <<k[1], k[3]>> \in DOMAIN entries /\ ~EntryAt(entries, k) =>
                  LET l == entries[<<k[1], k[3]>>].league
                  IN  \/ /\ reg'[k] = NoRow /\ table[<<k[1], l, k[3]>>].state = "none"
                         /\ k[2] \in Met(table, k[1], l, k[3])
                      \/ /\ reg'[k] = table[k]
                         /\ ~(table[<<k[1], l, k[3]>>].state = "none" /\ k[2] \in Met(table, k[1], l, k[3]))
  <2> DEFINE e == <<k[1], k[3]>>
             l == entries[e].league
  <2>1. reg'[k] = IF e \in DOMAIN entries THEN Entered(table, k, l, entries[e].division) ELSE table[k]
    BY DEF Enter
  <2>2. Entered(table, k, l, entries[e].division) =
          IF k[2] = l THEN Row("active", entries[e].division)
          ELSE IF table[<<k[1], l, k[3]>>].state = "none" /\ k[2] \in Met(table, k[1], l, k[3]) THEN NoRow
          ELSE table[k]
    BY DEF Entered
  <2>3. EntryAt(entries, k) <=> e \in DOMAIN entries /\ k[2] = l BY DEF EntryAt
  <2>4. QED BY <2>1, <2>2, <2>3
<1>2. \A e \in DOMAIN entries :
        /\ e[1] \in Teams /\ e[2] \in Seasons /\ e = <<e[1], e[2]>>
        /\ Row("active", entries[e].division) \in RowSet
        /\ Row("active", entries[e].division).state = "active"
        /\ Row("active", entries[e].division).division = entries[e].division
  BY RowIn
<1>3. NoRow \in RowSet /\ NoRow.state = "none" /\ NoRow.division = Nowhere BY DEF NoRow, RowSet
<1>4. ASSUME NEW k \in Keys
      PROVE  /\ reg'[k] \in RowSet
             /\ reg'[k].state = "none" => reg'[k] = NoRow
             /\ reg'[k].state # "none" => table[k].state # "none" \/ EntryAt(entries, k)
             /\ reg'[k].division # Nowhere =>
                  \/ reg'[k].division = table[k].division
                  \/ EntryAt(entries, k) /\ reg'[k].division = entries[<<k[1], k[3]>>].division
  <2>1. CASE EntryAt(entries, k) BY <2>1, <1>1, <1>2 DEF EntryAt
  <2>2. CASE reg'[k] = NoRow BY <2>2, <1>3
  <2>3. CASE reg'[k] = table[k] BY <2>3
  <2>4. QED BY <2>1, <2>2, <2>3, <1>1
\* At the team and season of a row, nothing else is active.
<1>5. ASSUME NEW t \in Teams, NEW l \in Leagues, NEW s \in Seasons, Registered(t, l, s)'
      PROVE  \/ EntryAt(entries, <<t, l, s>>)
             \/ <<t, s>> \notin DOMAIN entries /\ table[<<t, l, s>>].state = "active"
  <2> DEFINE k == <<t, l, s>>
  <2>1. k \in Keys /\ k[1] = t /\ k[2] = l /\ k[3] = s BY DEF Keys
  <2>2. reg'[k].state = "active" BY <1>5 DEF Registered
  <2> HIDE DEF k
  <2>3. ASSUME <<t, s>> \in DOMAIN entries, ~EntryAt(entries, k) PROVE FALSE
    <3> DEFINE n == entries[<<t, s>>].league
    <3>1. /\ reg'[k] = table[k]
          /\ ~(table[<<t, n, s>>].state = "none" /\ l \in Met(table, t, n, s))
      BY <1>1, <1>3, <2>1, <2>2, <2>3
    <3>2. table[<<t, l, s>>].state = "active" BY <2>2, <3>1 DEF k
    <3>3. l \in Met(table, t, n, s) /\ n \in Met(table, t, n, s)
      BY <3>1, <3>2, <2>3 DEF Met
    <3>4. Cardinality(Met(table, t, n, s)) <= 1 BY <2>3
    <3>5. IsFiniteSet(Met(table, t, n, s))
      BY ParticipationAssumption, FS_Subset DEF Met
    <3>6. l = n BY <3>3, <3>4, <3>5, NoTwo
    <3>7. QED BY <3>6, <2>1, <2>3 DEF EntryAt
  <2>4. CASE <<t, s>> \notin DOMAIN entries BY <2>1, <2>2, <2>4, <1>1 DEF k
  <2>5. QED BY <2>3, <2>4 DEF k
<1>6. \A e \in DOMAIN entries : reg'[<<e[1], entries[e].league, e[2]>>] = Row("active", entries[e].division)
  <2> SUFFICES ASSUME NEW e \in DOMAIN entries
               PROVE  reg'[<<e[1], entries[e].league, e[2]>>] = Row("active", entries[e].division)
    OBVIOUS
  <2> DEFINE k == <<e[1], entries[e].league, e[2]>>
  <2>1. k \in Keys /\ <<k[1], k[3]>> = e /\ k[2] = entries[e].league BY <1>2 DEF Keys
  <2> HIDE DEF k
  <2>2. reg'[k] = Row("active", entries[e].division) BY <2>1, <1>1 DEF EntryAt
  <2>3. QED BY <2>2 DEF k
<1>7. Once'
  <2> SUFFICES ASSUME NEW t \in Teams, NEW l \in Leagues, NEW m \in Leagues, NEW s \in Seasons,
                      Registered(t, l, s)', Registered(t, m, s)'
               PROVE  l = m
    BY DEF Once
  <2>1. CASE <<t, s>> \in DOMAIN entries
    <3>1. EntryAt(entries, <<t, l, s>>) /\ EntryAt(entries, <<t, m, s>>) BY <1>5, <2>1
    <3>2. QED BY <3>1 DEF EntryAt
  <2>2. CASE <<t, s>> \notin DOMAIN entries
    <3>1. table[<<t, l, s>>].state = "active" /\ table[<<t, m, s>>].state = "active"
      BY <1>5, <2>2 DEF EntryAt
    <3>2. QED BY <3>1
  <2>3. QED BY <2>1, <2>2
<1>8. ASSUME NEW t \in Teams, NEW l \in Leagues, NEW s \in Seasons, Registered(t, l, s)
      PROVE  /\ Live(t, l, s) => Registered(t, l, s)'
             /\ Open(t, l, s) # {} => Registered(t, l, s)' \/ <<t, s>> \in rebound'
  <2> SUFFICES ASSUME Live(t, l, s) \/ Open(t, l, s) # {}
               PROVE  /\ Live(t, l, s) => Registered(t, l, s)'
                      /\ Registered(t, l, s)' \/ (Open(t, l, s) # {} => <<t, s>> \in rebound')
    OBVIOUS
  <2> DEFINE k == <<t, l, s>>
  <2>1. k \in Keys /\ k[1] = t /\ k[2] = l /\ k[3] = s BY DEF Keys
  <2>2. table[k].state = "active" BY <1>8
  <2> HIDE DEF k
  <2>3. CASE EntryAt(entries, k) \/ reg'[k] = table[k]
    <3>1. reg'[k].state = "active" BY <2>1, <2>2, <2>3, <1>1, <1>2 DEF EntryAt
    <3>2. QED BY <3>1 DEF Registered, k
  <2>4. CASE ~EntryAt(entries, k) /\ reg'[k] # table[k]
    <3> DEFINE n == entries[<<t, s>>].league
    <3>1. /\ <<t, s>> \in DOMAIN entries /\ n # l /\ n \in Leagues
          /\ table[<<t, n, s>>].state = "none" /\ l \in Met(table, t, n, s)
      BY <2>1, <2>4, <1>1 DEF EntryAt
    <3>2. ~Live(t, l, s) BY <3>1, <1>8
    <3>3. Uprooted(table, t, n, s) BY <3>1, <3>2 DEF Uprooted
    <3>4. rebound' = rebound \cup {e \in DOMAIN entries : Uprooted(table, e[1], entries[e].league, e[2])}
      BY DEF Enter
    <3>5. <<t, s>> \in rebound' BY <3>1, <3>3, <3>4
    <3>6. QED BY <3>2, <3>5
  <2>5. QED BY <2>3, <2>4
<1>9. Carries BY <1>8 DEF Carries
<1>10. reg' = [k \in Keys |-> reg'[k]] BY DEF Enter
<1>11. rebound \subseteq rebound' /\ rebound' \subseteq Teams \X Seasons BY DEF Enter, ParticipationTypeOK
<1>12. QED BY <1>4, <1>5, <1>6, <1>7, <1>9, <1>10, <1>11

LEMMA ImportTeamsCall ==
  ASSUME SetupInv, NEW s \in Seasons, NEW sheet \in TeamSheets, ImportTeams(s, sheet)
  PROVE  SetupInv' /\ AlignedKept
<1> USE DEF SetupInv, RegInv
<1> DEFINE rows == sheet.teams
           entries == [e \in {<<t, s>> : t \in DOMAIN rows} |->
                         [league |-> leagueOf[e[1]], division |-> rows[e[1]]]]
           made_in(d) == leagueOf[CHOOSE t \in DOMAIN rows : rows[t] = d]
<1>a. /\ DOMAIN rows \subseteq Teams /\ \A t \in DOMAIN rows : rows[t] \in Divisions \cup {Nowhere}
      /\ DOMAIN sheet.players \subseteq Players
      /\ \A p \in DOMAIN sheet.players : sheet.players[p] \in Teams
  BY SheetsAssumption
<1>0. /\ UNCHANGED <<seasons, archived, leagueOf, playing, membership, parked>>
      /\ s \in seasons /\ DivisionsResolve(s, rows) /\ TeamRowsSafe(s, rows)
      /\ bound' = bound \cup {<<leagueOf[t], s>> : t \in DOMAIN rows}
      /\ Enter(reg, entries)
      /\ divisionOf' = [d \in Divisions |->
           IF divisionOf[d] = Nowhere /\ \E t \in DOMAIN rows : rows[t] = d
           THEN <<made_in(d), s>> ELSE divisionOf[d]]
      /\ teamOf' = [p \in Players |-> IF p \in DOMAIN sheet.players THEN sheet.players[p] ELSE teamOf[p]]
  BY DEF ImportTeams, Join, Writable
<1>b. \A t \in DOMAIN rows : leagueOf[t] \in Leagues BY <1>a DEF ParticipationTypeOK
<1>1. \A e \in DOMAIN entries :
        /\ e[1] \in DOMAIN rows /\ e[2] = s /\ e = <<e[1], s>>
        /\ entries[e].league = leagueOf[e[1]] /\ entries[e].division = rows[e[1]]
  OBVIOUS
<1>2. /\ DOMAIN entries \subseteq Teams \X Seasons
      /\ \A e \in DOMAIN entries :
           /\ entries[e].league \in Leagues /\ entries[e].division \in Divisions \cup {Nowhere}
           /\ Cardinality(Met(reg, e[1], entries[e].league, e[2])) <= 1
           /\ \A l \in Leagues :
                l # entries[e].league /\ Registered(e[1], l, e[2]) => ~Live(e[1], l, e[2])
  <2>1. DOMAIN entries \subseteq Teams \X Seasons BY <1>a
  <2> SUFFICES ASSUME NEW e \in DOMAIN entries
               PROVE  /\ entries[e].league \in Leagues /\ entries[e].division \in Divisions \cup {Nowhere}
                      /\ Cardinality(Met(reg, e[1], entries[e].league, e[2])) <= 1
                      /\ \A l \in Leagues :
                           l # entries[e].league /\ Registered(e[1], l, e[2]) => ~Live(e[1], l, e[2])
    BY <2>1
  <2> DEFINE t == e[1]
  <2>2. /\ t \in DOMAIN rows /\ e[2] = s /\ entries[e].league = leagueOf[t] /\ entries[e].division = rows[t]
    BY <1>1
  <2> HIDE DEF entries
  <2>3. Cardinality(Met(reg, t, leagueOf[t], s)) <= 1 BY <1>0, <2>2 DEF TeamRowsSafe
  <2>4. \A m \in Met(reg, t, leagueOf[t], s) : m # leagueOf[t] => ~Live(t, m, s)
    BY <1>0, <2>2 DEF TeamRowsSafe
  <2>5. \A m \in Leagues : Registered(t, m, s) => m \in Met(reg, t, leagueOf[t], s)
    BY DEF Met, Registered
  <2>6. QED BY <1>a, <1>b, <2>2, <2>3, <2>4, <2>5
<1> HIDE DEF entries
<1>3. reg \in [Keys -> RowSet] BY DEF ParticipationTypeOK, RowSet
<1>4. /\ \A k \in Keys : reg[k].state = "none" => reg[k] = NoRow
      /\ \A t \in Teams, l, m \in Leagues, z \in Seasons :
           reg[<<t, l, z>>].state = "active" /\ reg[<<t, m, z>>].state = "active" => l = m
      /\ \A t \in Teams, l \in Leagues, z \in Seasons :
           Registered(t, l, z) /\ (Live(t, l, z) \/ Open(t, l, z) # {}) => reg[<<t, l, z>>].state = "active"
  BY DEF Tidy, Once, Registered
<1>5. /\ reg' = [k \in Keys |-> reg'[k]]
      /\ \A k \in Keys :
           /\ reg'[k] \in RowSet
           /\ reg'[k].state = "none" => reg'[k] = NoRow
           /\ reg'[k].state # "none" => reg[k].state # "none" \/ EntryAt(entries, k)
           /\ reg'[k].division # Nowhere =>
                \/ reg'[k].division = reg[k].division
                \/ EntryAt(entries, k) /\ reg'[k].division = entries[<<k[1], k[3]>>].division
      /\ \A t \in Teams, l \in Leagues, z \in Seasons : Registered(t, l, z)' =>
           \/ EntryAt(entries, <<t, l, z>>)
           \/ <<t, z>> \notin DOMAIN entries /\ reg[<<t, l, z>>].state = "active"
      /\ rebound \subseteq rebound' /\ rebound' \subseteq Teams \X Seasons
      /\ Once' /\ Carries
  <2>1. SetupInv OBVIOUS
  <2>2. QED BY <2>1, <1>0, <1>2, <1>3, <1>4, RowsEntered
<1>6. ASSUME NEW k \in Keys, EntryAt(entries, k)
      PROVE  /\ k[1] \in DOMAIN rows /\ k[2] = leagueOf[k[1]] /\ k[3] = s
             /\ entries[<<k[1], k[3]>>].division = rows[k[1]]
  <2>1. <<k[1], k[3]>> \in DOMAIN entries /\ k[2] = entries[<<k[1], k[3]>>].league
    BY <1>6 DEF EntryAt
  <2>2. QED BY <1>1, <2>1
<1>7. \A d \in Divisions :
        \/ divisionOf'[d] = divisionOf[d] /\ ~(divisionOf[d] = Nowhere /\ \E t \in DOMAIN rows : rows[t] = d)
        \/ \E t \in DOMAIN rows : divisionOf'[d] = <<leagueOf[t], s>>
  <2> SUFFICES ASSUME NEW d \in Divisions, divisionOf[d] = Nowhere, \E t \in DOMAIN rows : rows[t] = d
               PROVE  \E t \in DOMAIN rows : divisionOf'[d] = <<leagueOf[t], s>>
    BY <1>0
  <2> DEFINE u == CHOOSE t \in DOMAIN rows : rows[t] = d
  <2>1. u \in DOMAIN rows OBVIOUS
  <2>2. divisionOf'[d] = <<leagueOf[u], s>> BY <1>0
  <2> HIDE DEF u
  <2>3. QED BY <2>1, <2>2
<1>8. \A t \in DOMAIN rows : <<leagueOf[t], s>> \in (Leagues \X Seasons) \cap bound' /\ <<leagueOf[t], s>> # Nowhere
  BY <1>0, <1>b, ParticipationAssumption
<1>9. ParticipationTypeOK'
  <2>1. bound' \subseteq Leagues \X seasons
    <3>1. {<<leagueOf[t], s>> : t \in DOMAIN rows} \subseteq Leagues \X seasons BY <1>0, <1>b
    <3>2. QED BY <3>1, <1>0 DEF ParticipationTypeOK
  <2>2. divisionOf' \in [Divisions -> (Leagues \X Seasons) \cup {Nowhere}]
    <3>1. ASSUME NEW d \in Divisions PROVE divisionOf'[d] \in (Leagues \X Seasons) \cup {Nowhere}
      <4>1. divisionOf[d] \in (Leagues \X Seasons) \cup {Nowhere} BY DEF ParticipationTypeOK
      <4>2. CASE \E t \in DOMAIN rows : divisionOf'[d] = <<leagueOf[t], s>>
        <5>1. PICK t \in DOMAIN rows : divisionOf'[d] = <<leagueOf[t], s>> BY <4>2
        <5>2. leagueOf[t] \in Leagues BY <1>b
        <5>3. QED BY <5>1, <5>2
      <4>3. QED BY <1>7, <4>1, <4>2
    <3>2. divisionOf' = [d \in Divisions |-> divisionOf'[d]] BY <1>0
    <3>3. QED BY <3>1, <3>2
  <2>3. teamOf' \in [Players -> Teams \cup {Nowhere}] BY <1>0, <1>a DEF ParticipationTypeOK
  <2>4. QED BY <2>1, <2>2, <2>3, <1>0, <1>5, RowsTyped DEF ParticipationTypeOK
<1>10. RowsAnchored'
  <2>1. ASSUME NEW k \in Keys
        PROVE  /\ reg'[k].state # "none" => <<k[2], k[3]>> \in bound'
               /\ reg'[k].division # Nowhere => divisionOf'[reg'[k].division] # Nowhere
    <3>1. reg[k].state # "none" => <<k[2], k[3]>> \in bound' BY <1>0, Anchors DEF RowsAnchored
    <3>2. reg[k].division # Nowhere => divisionOf[reg[k].division] # Nowhere /\ reg[k].division \in Divisions
      BY RowType, Anchors DEF RowsAnchored, RowSet
    <3>3. \A d \in Divisions : divisionOf[d] # Nowhere \/ (\E t \in DOMAIN rows : rows[t] = d)
                                 => divisionOf'[d] # Nowhere
      BY <1>7, <1>8
    <3>4. EntryAt(entries, k) => <<k[2], k[3]>> \in bound' BY <1>6, <1>8
    <3>5. EntryAt(entries, k) /\ rows[k[1]] # Nowhere => divisionOf'[rows[k[1]]] # Nowhere
      BY <1>6, <1>a, <3>3
    <3>6. reg'[k].state # "none" => reg[k].state # "none" \/ EntryAt(entries, k) BY <1>5
    <3>7. reg'[k].division # Nowhere =>
            \/ reg'[k].division = reg[k].division
            \/ EntryAt(entries, k) /\ reg'[k].division = rows[k[1]]
      BY <1>5, <1>6
    <3>8. QED BY <3>1, <3>2, <3>3, <3>4, <3>5, <3>6, <3>7
  <2>2. QED BY <2>1, <1>5 DEF RowsAnchored, NoRow
<1>11. BooksGrow
  <2>1. \A d \in Divisions : divisionOf'[d] # Nowhere => divisionOf'[d] \in bound'
    BY <1>0, <1>7, <1>8, Anchors
  <2>2. QED BY <2>1, <1>0, <1>5 DEF BooksGrow
<1>12. \A t \in Teams, l \in Leagues, z \in Seasons :
         Registered(t, l, z)' => Registered(t, l, z) \/ leagueOf[t] = l
  <2> SUFFICES ASSUME NEW t \in Teams, NEW l \in Leagues, NEW z \in Seasons, Registered(t, l, z)'
               PROVE  Registered(t, l, z) \/ leagueOf[t] = l
    OBVIOUS
  <2>1. <<t, l, z>> \in Keys BY DEF Keys
  <2>2. CASE EntryAt(entries, <<t, l, z>>) BY <2>1, <2>2, <1>6
  <2>3. CASE reg[<<t, l, z>>].state = "active" BY <2>3 DEF Registered
  <2>4. QED BY <2>2, <2>3, <1>5
<1>13. \A p \in Players : teamOf'[p] = Nowhere => teamOf[p] = Nowhere
  BY <1>0, <1>a, ParticipationAssumption
<1>14. AlignedKept BY <1>0, <1>12, NoneAstray
<1>15. SetupInv OBVIOUS
<1>16. QED BY <1>0, <1>5, <1>9, <1>10, <1>11, <1>13, <1>14, <1>15, RegistrationsMoved

\* The teams a sheet moves to another league, and the registrations after it.
Movers(sheet) == {t \in DOMAIN sheet.teams : leagueOf[t] # sheet.teams[t]}

LEMMA TransferredTable ==
  ASSUME SetupInv, NEW sheet \in Sheets, Applicable(sheet)
  PROVE  /\ Transferred(sheet) \in [Keys -> RowSet]
         /\ \A k \in Keys :
              LET row == Transferred(sheet)[k]
                  m == sheet.teams[k[1]]
              IN  /\ row.state = "none" => row = NoRow
                  /\ row.state # "none" =>
                       \/ reg[k].state # "none"
                       \/ k[1] \in Movers(sheet) /\ \E j \in Transferable(k[1], m) : k = <<k[1], m, j[3]>>
                  /\ row.division # Nowhere => row.division = reg[k].division
                  /\ row.state = "active" =>
                       \/ reg[k].state = "active" /\ ~(k[1] \in Movers(sheet) /\ k \in Transferable(k[1], m))
                       \/ k[1] \in Movers(sheet) /\ k[2] = m
         /\ \A t \in Teams, l, m \in Leagues, s \in Seasons :
              Transferred(sheet)[<<t, l, s>>].state = "active" /\ Transferred(sheet)[<<t, m, s>>].state = "active"
                => l = m
         /\ \A t \in Teams, l \in Leagues, s \in Seasons :
              Registered(t, l, s) /\ (Live(t, l, s) \/ Open(t, l, s) # {})
                => Transferred(sheet)[<<t, l, s>>].state = "active"
         /\ \A t \in Movers(sheet) : \A j \in Transferable(t, sheet.teams[t]) : j[3] \in seasons
<1> USE DEF SetupInv, RegInv
<1> DEFINE T == Transferred(sheet)
<1>0. T = [k \in Keys |-> IF k[1] \in Movers(sheet) THEN TransferredRow(k, sheet.teams[k[1]]) ELSE reg[k]]
  BY DEF Transferred, Movers
<1>a. \A t \in Movers(sheet) :
        /\ t \in Teams /\ sheet.teams[t] \in Leagues /\ MayTransfer(t, sheet.teams[t])
  BY SheetsAssumption DEF Movers, Applicable
<1>b. SetupInv OBVIOUS
<1> HIDE DEF T
<1>1. ASSUME NEW k \in Keys
      PROVE  LET row == T[k]
                 m == sheet.teams[k[1]]
             IN  /\ row \in RowSet
                 /\ row.state = "none" => row = NoRow
                 /\ row.state # "none" =>
                      \/ reg[k].state # "none"
                      \/ k[1] \in Movers(sheet) /\ \E j \in Transferable(k[1], m) : k = <<k[1], m, j[3]>>
                 /\ row.division # Nowhere => row.division = reg[k].division
                 /\ row.state = "active" =>
                      \/ reg[k].state = "active" /\ ~(k[1] \in Movers(sheet) /\ k \in Transferable(k[1], m))
                      \/ k[1] \in Movers(sheet) /\ k[2] = m
                 /\ reg[k].state = "active" /\ ~(k[1] \in Movers(sheet) /\ k \in Transferable(k[1], m))
                      => row.state = "active"
  <2> DEFINE t == k[1]
             m == sheet.teams[t]
  <2>1. CASE t \in Movers(sheet)
    <3>1. T[k] = TransferredRow(k, m) BY <1>0, <2>1
    <3>2. t \in Teams /\ m \in Leagues /\ MayTransfer(t, m) BY <1>a, <2>1
    <3>3. /\ TransferredRow(k, m) \in RowSet
          /\ TransferredRow(k, m).state = "none" => TransferredRow(k, m) = NoRow
          /\ TransferredRow(k, m).state # "none" =>
               reg[k].state # "none" \/ \E j \in Transferable(t, m) : k = <<t, m, j[3]>>
          /\ TransferredRow(k, m).division # Nowhere => TransferredRow(k, m).division = reg[k].division
          /\ TransferredRow(k, m).state = "active" =>
               \/ reg[k].state = "active" /\ k \notin Transferable(t, m)
               \/ \E j \in Transferable(t, m) : k = <<t, m, j[3]>>
          /\ reg[k].state = "active" /\ k \notin Transferable(t, m) => TransferredRow(k, m).state = "active"
      <4> HIDE DEF t, m
      <4>1. k[1] = t BY DEF t
      <4>2. QED BY <1>b, <3>2, <4>1, TransferRows
    <3>4. (\E j \in Transferable(t, m) : k = <<t, m, j[3]>>) => k[2] = m OBVIOUS
    <3> HIDE DEF t, m
    <3>5. QED BY <2>1, <3>1, <3>3, <3>4 DEF t, m
  <2>2. CASE t \notin Movers(sheet)
    <3>1. T[k] = reg[k] BY <1>0, <2>2
    <3>2. QED BY <2>2, <3>1, RowType DEF Tidy
  <2>3. QED BY <2>1, <2>2
<1>2. T \in [Keys -> RowSet] BY <1>0, <1>1
<1>3. ASSUME NEW t \in Teams, NEW l \in Leagues, NEW n \in Leagues, NEW s \in Seasons,
             T[<<t, l, s>>].state = "active", T[<<t, n, s>>].state = "active"
      PROVE  l = n
  <2>0. <<t, l, s>> \in Keys /\ <<t, n, s>> \in Keys BY DEF Keys
  <2>1. CASE t \in Movers(sheet)
    <3> DEFINE m == sheet.teams[t]
    <3>1. T[<<t, l, s>>] = TransferredRow(<<t, l, s>>, m) /\ T[<<t, n, s>>] = TransferredRow(<<t, n, s>>, m)
      BY <1>0, <2>0, <2>1
    <3>2. m \in Leagues /\ MayTransfer(t, m) BY <1>a, <2>1
    <3> HIDE DEF m
    <3>3. QED BY <1>3, <1>b, <3>1, <3>2, TransferRows
  <2>2. CASE t \notin Movers(sheet)
    <3>1. T[<<t, l, s>>] = reg[<<t, l, s>>] /\ T[<<t, n, s>>] = reg[<<t, n, s>>] BY <1>0, <2>0, <2>2
    <3>2. QED BY <1>3, <3>1 DEF Once, Registered
  <2>3. QED BY <2>1, <2>2
<1>4. ASSUME NEW t \in Movers(sheet), NEW j \in Transferable(t, sheet.teams[t])
      PROVE  /\ j \in Keys /\ j[1] = t /\ Registered(t, j[2], j[3])
             /\ ~PlaysIn(t, j[3]) /\ Open(t, j[2], j[3]) = {} /\ j[3] \in seasons
  <2> DEFINE m == sheet.teams[t]
  <2>1. t \in Teams /\ m \in Leagues /\ MayTransfer(t, m) /\ j \in Transferable(t, m) BY <1>a
  <2> HIDE DEF m
  <2>2. /\ j \in Keys /\ j[1] = t /\ Registered(t, j[2], j[3])
        /\ ~PlaysIn(t, j[3]) /\ Open(t, j[2], j[3]) = {}
    BY <1>b, <2>1, TransferRows
  <2>3. reg[j].state # "none" BY <2>1 DEF Transferable
  <2>4. <<j[2], j[3]>> \in bound BY <2>2, <2>3, Anchors DEF RowsAnchored
  <2>5. bound \subseteq Leagues \X seasons BY DEF ParticipationTypeOK
  <2>6. QED BY <2>2, <2>4, <2>5
<1>5. ASSUME NEW t \in Teams, NEW l \in Leagues, NEW s \in Seasons,
             Registered(t, l, s), Live(t, l, s) \/ Open(t, l, s) # {}
      PROVE  T[<<t, l, s>>].state = "active"
  <2> DEFINE k == <<t, l, s>>
  <2>1. k \in Keys /\ k[1] = t /\ k[2] = l /\ k[3] = s BY DEF Keys
  <2>2. reg[k].state = "active" BY <1>5 DEF Registered
  <2> HIDE DEF k
  <2>3. ~(t \in Movers(sheet) /\ k \in Transferable(t, sheet.teams[t]))
    BY <1>4, <1>5, <2>1 DEF PlaysIn
  <2>4. T[k].state = "active" BY <1>1, <2>1, <2>2, <2>3
  <2>5. QED BY <2>4 DEF k
<1>6. \A k \in Keys :
        LET row == T[k]
            m == sheet.teams[k[1]]
        IN  /\ row.state = "none" => row = NoRow
            /\ row.state # "none" =>
                 \/ reg[k].state # "none"
                 \/ k[1] \in Movers(sheet) /\ \E j \in Transferable(k[1], m) : k = <<k[1], m, j[3]>>
            /\ row.division # Nowhere => row.division = reg[k].division
            /\ row.state = "active" =>
                 \/ reg[k].state = "active" /\ ~(k[1] \in Movers(sheet) /\ k \in Transferable(k[1], m))
                 \/ k[1] \in Movers(sheet) /\ k[2] = m
  BY <1>1
<1>7. \A t \in Teams, l, m \in Leagues, s \in Seasons :
        T[<<t, l, s>>].state = "active" /\ T[<<t, m, s>>].state = "active" => l = m
  BY <1>3
<1>8. \A t \in Teams, l \in Leagues, s \in Seasons :
        Registered(t, l, s) /\ (Live(t, l, s) \/ Open(t, l, s) # {}) => T[<<t, l, s>>].state = "active"
  BY <1>5
<1>9. \A t \in Movers(sheet) : \A j \in Transferable(t, sheet.teams[t]) : j[3] \in seasons BY <1>4
<1>10. QED BY <1>2, <1>6, <1>7, <1>8, <1>9 DEF T

LEMMA ImportHierarchyCall ==
  ASSUME SetupInv, NEW sheet \in Sheets, ImportHierarchy(sheet)
  PROVE  SetupInv' /\ AlignedKept /\ ImportsLand'
<1> USE DEF SetupInv, RegInv
<1> DEFINE entries == sheet.entries
           T == Transferred(sheet)
           written == {<<entries[e].league, e[2]>> : e \in DOMAIN entries}
           taken == UNION {{<<sheet.teams[t], k[3]>> : k \in Transferable(t, sheet.teams[t])} :
                             t \in {u \in DOMAIN sheet.teams : leagueOf[u] # sheet.teams[u]}}
<1>a. /\ sheet.links \subseteq Leagues \X Seasons
      /\ DOMAIN sheet.divisions \subseteq Divisions
      /\ \A d \in DOMAIN sheet.divisions : sheet.divisions[d] \in Leagues \X Seasons
      /\ DOMAIN sheet.teams \subseteq Teams
      /\ \A t \in DOMAIN sheet.teams : sheet.teams[t] \in Leagues
      /\ DOMAIN sheet.players \subseteq Players
      /\ \A p \in DOMAIN sheet.players : sheet.players[p] \in Teams
      /\ DOMAIN entries \subseteq Teams \X Seasons
      /\ \A e \in DOMAIN entries : entries[e] \in [league : Leagues, division : Divisions \cup {Nowhere}]
  BY SheetsAssumption
<1>0. /\ UNCHANGED <<archived, playing, membership, parked>>
      /\ Valid(sheet) /\ SafeEntries(sheet) /\ Applicable(sheet)
      /\ \A e \in DOMAIN entries : Cardinality(Met(T, e[1], entries[e].league, e[2])) <= 1
      /\ seasons' = seasons \cup {b[2] : b \in Competition(sheet)}
      /\ leagueOf' = [t \in Teams |-> LeagueOnceIn(sheet, t)]
      /\ divisionOf' = [d \in Divisions |-> DivisionOnceIn(sheet, d)]
      /\ bound' = bound \cup Competition(sheet) \cup written \cup taken
      /\ Enter(T, entries) /\ lastImport' = sheet
      /\ teamOf' = [p \in Players |-> IF p \in DOMAIN sheet.players THEN sheet.players[p] ELSE teamOf[p]]
  BY DEF ImportHierarchy, Accepted, Join
<1>b. SetupInv OBVIOUS
<1>1. \A e \in DOMAIN entries :
        /\ entries[e].league \in Leagues /\ entries[e].division \in Divisions \cup {Nowhere}
        /\ e[1] \in Teams /\ e[2] \in Seasons /\ e = <<e[1], e[2]>>
        /\ <<entries[e].league, e[2]>> \in bound \cup Competition(sheet)
        /\ entries[e].league = LeagueOnceIn(sheet, e[1])
        /\ entries[e].division # Nowhere => DivisionOnceIn(sheet, entries[e].division) \in Leagues \X Seasons
  <2> SUFFICES ASSUME NEW e \in DOMAIN entries
               PROVE  /\ entries[e].league \in Leagues /\ entries[e].division \in Divisions \cup {Nowhere}
                      /\ e[1] \in Teams /\ e[2] \in Seasons /\ e = <<e[1], e[2]>>
                      /\ <<entries[e].league, e[2]>> \in bound \cup Competition(sheet)
                      /\ entries[e].league = LeagueOnceIn(sheet, e[1])
                      /\ entries[e].division # Nowhere =>
                           DivisionOnceIn(sheet, entries[e].division) \in Leagues \X Seasons
    OBVIOUS
  <2>1. e[1] \in Teams /\ e[2] \in Seasons /\ e = <<e[1], e[2]>> BY <1>a
  <2>2. entries[e].league \in Leagues /\ entries[e].division \in Divisions \cup {Nowhere} BY <1>a
  <2>3. LET l == entries[e].league
            d == entries[e].division
        IN /\ <<l, e[2]>> \in bound \cup Competition(sheet)
           /\ l = LeagueOnceIn(sheet, e[1])
           /\ d # Nowhere => DivisionOnceIn(sheet, d) \in {l} \X Seasons
    BY <1>0, <2>1 DEF Valid
  <2>4. QED BY <2>1, <2>2, <2>3
<1>2. Competition(sheet) \subseteq (Leagues \X seasons') \cap bound'
  BY <1>a, <1>0 DEF Competition
<1>3. bound' \subseteq Leagues \X seasons'
  <2>1. bound \subseteq Leagues \X seasons' BY <1>0 DEF ParticipationTypeOK
  <2>2. written \subseteq Leagues \X seasons' BY <1>1, <1>2, <2>1
  <2>3. taken \subseteq Leagues \X seasons'
    <3> SUFFICES ASSUME NEW t \in Movers(sheet), NEW k \in Transferable(t, sheet.teams[t])
                 PROVE  <<sheet.teams[t], k[3]>> \in Leagues \X seasons'
      BY DEF Movers
    <3>1. sheet.teams[t] \in Leagues BY <1>a DEF Movers
    <3>2. k[3] \in seasons BY <1>0, <1>b, TransferredTable
    <3>3. QED BY <3>1, <3>2, <1>0
  <2>4. QED BY <2>1, <2>2, <2>3, <1>0, <1>2
\* What the rows' own checks leave to the moves: a game's key is its row's.
<1>4. \A e \in DOMAIN entries, l \in Leagues :
        l # entries[e].league /\ Registered(e[1], l, e[2]) => ~Live(e[1], l, e[2])
  <2> SUFFICES ASSUME NEW e \in DOMAIN entries, NEW l \in Leagues,
                      l # entries[e].league, Registered(e[1], l, e[2])
               PROVE  ~Live(e[1], l, e[2])
    OBVIOUS
  <2> DEFINE k == <<e[1], l, e[2]>>
  <2>1. k \in Keys /\ k[2] = l /\ k[3] = e[2] BY <1>1 DEF Keys
  <2>2. reg[k].state # "none" BY DEF Registered
  <2> HIDE DEF k
  <2>3. <<l, e[2]>> \in bound BY <2>1, <2>2, Anchors DEF RowsAnchored
  <2>4. e[2] \in seasons BY <2>3 DEF ParticipationTypeOK
  <2>5. l \in Met(reg, e[1], entries[e].league, e[2]) BY DEF Met, Registered
  <2>6. ~PlaysIn(e[1], e[2]) BY <1>0, <1>1, <2>4, <2>5 DEF SafeEntries
  <2>7. QED BY <2>6 DEF PlaysIn
<1>5. /\ T \in [Keys -> RowSet]
      /\ \A k \in Keys :
           /\ T[k].state = "none" => T[k] = NoRow
           /\ T[k].state # "none" =>
                \/ reg[k].state # "none"
                \/ /\ k[1] \in Movers(sheet)
                   /\ \E j \in Transferable(k[1], sheet.teams[k[1]]) : k = <<k[1], sheet.teams[k[1]], j[3]>>
           /\ T[k].division # Nowhere => T[k].division = reg[k].division
           /\ T[k].state = "active" =>
                \/ /\ reg[k].state = "active"
                   /\ ~(k[1] \in Movers(sheet) /\ k \in Transferable(k[1], sheet.teams[k[1]]))
                \/ k[1] \in Movers(sheet) /\ k[2] = sheet.teams[k[1]]
      /\ \A t \in Teams, l, m \in Leagues, s \in Seasons :
           T[<<t, l, s>>].state = "active" /\ T[<<t, m, s>>].state = "active" => l = m
      /\ \A t \in Teams, l \in Leagues, s \in Seasons :
           Registered(t, l, s) /\ (Live(t, l, s) \/ Open(t, l, s) # {}) => T[<<t, l, s>>].state = "active"
  BY <1>0, <1>b, TransferredTable
<1> HIDE DEF T, entries
<1>6. /\ reg' = [k \in Keys |-> reg'[k]]
      /\ \A k \in Keys :
           /\ reg'[k] \in RowSet
           /\ reg'[k].state = "none" => reg'[k] = NoRow
           /\ reg'[k].state # "none" => T[k].state # "none" \/ EntryAt(entries, k)
           /\ reg'[k].division # Nowhere =>
                \/ reg'[k].division = T[k].division
                \/ EntryAt(entries, k) /\ reg'[k].division = entries[<<k[1], k[3]>>].division
      /\ \A t \in Teams, l \in Leagues, s \in Seasons : Registered(t, l, s)' =>
           \/ EntryAt(entries, <<t, l, s>>)
           \/ <<t, s>> \notin DOMAIN entries /\ T[<<t, l, s>>].state = "active"
      /\ \A e \in DOMAIN entries :
           reg'[<<e[1], entries[e].league, e[2]>>] = Row("active", entries[e].division)
      /\ rebound \subseteq rebound' /\ rebound' \subseteq Teams \X Seasons
      /\ Once' /\ Carries
  <2>1. DOMAIN entries \subseteq Teams \X Seasons BY <1>a DEF entries
  <2>2. QED BY <2>1, <1>0, <1>b, <1>1, <1>4, <1>5, RowsEntered
<1>7. \A d \in Divisions :
        /\ divisionOf'[d] \in (Leagues \X Seasons) \cup {Nowhere}
        /\ divisionOf[d] # Nowhere => divisionOf'[d] # Nowhere
        /\ divisionOf'[d] # Nowhere => divisionOf'[d] \in bound'
        /\ divisionOf'[d] = DivisionOnceIn(sheet, d)
  <2> SUFFICES ASSUME NEW d \in Divisions
               PROVE  /\ divisionOf'[d] \in (Leagues \X Seasons) \cup {Nowhere}
                      /\ divisionOf[d] # Nowhere => divisionOf'[d] # Nowhere
                      /\ divisionOf'[d] # Nowhere => divisionOf'[d] \in bound'
                      /\ divisionOf'[d] = DivisionOnceIn(sheet, d)
    OBVIOUS
  <2>1. divisionOf'[d] = DivisionOnceIn(sheet, d) BY <1>0
  <2>2. CASE d \in DOMAIN sheet.divisions
    <3>1. divisionOf'[d] = sheet.divisions[d] BY <2>1, <2>2 DEF DivisionOnceIn
    <3>2. sheet.divisions[d] \in Leagues \X Seasons /\ sheet.divisions[d] \in Competition(sheet)
      BY <1>a, <2>2 DEF Competition
    <3>3. QED BY <2>1, <3>1, <3>2, <1>2, ParticipationAssumption
  <2>3. CASE d \notin DOMAIN sheet.divisions
    <3>1. divisionOf'[d] = divisionOf[d] BY <2>1, <2>3 DEF DivisionOnceIn
    <3>2. divisionOf[d] \in (Leagues \X Seasons) \cup {Nowhere} BY DEF ParticipationTypeOK
    <3>3. divisionOf[d] # Nowhere => divisionOf[d] \in bound' BY <1>0, Anchors
    <3>4. QED BY <2>1, <3>1, <3>2, <3>3
  <2>4. QED BY <2>2, <2>3
<1>8. ParticipationTypeOK'
  <2>1. divisionOf' \in [Divisions -> (Leagues \X Seasons) \cup {Nowhere}]
    <3>1. divisionOf' = [d \in Divisions |-> divisionOf'[d]] BY <1>0
    <3>2. QED BY <3>1, <1>7
  <2>2. teamOf' \in [Players -> Teams \cup {Nowhere}] BY <1>0, <1>a DEF ParticipationTypeOK
  <2>3. leagueOf' \in [Teams -> Leagues] BY <1>0, <1>a DEF ParticipationTypeOK, LeagueOnceIn
  <2>4. seasons' \subseteq Seasons /\ archived' \subseteq seasons'
    BY <1>0, <1>a DEF ParticipationTypeOK, Competition
  <2>5. UNCHANGED <<membership, playing>> /\ parked' \subseteq Players
    BY <1>0 DEF ParticipationTypeOK
  <2>6. QED BY <2>1, <2>2, <2>3, <2>4, <2>5, <1>3, <1>6, RowsTyped
<1>9. RowsAnchored'
  <2>1. ASSUME NEW k \in Keys
        PROVE  /\ reg'[k].state # "none" => <<k[2], k[3]>> \in bound'
               /\ reg'[k].division # Nowhere => divisionOf'[reg'[k].division] # Nowhere
    <3>1. reg[k].state # "none" => <<k[2], k[3]>> \in bound' BY <1>0, Anchors DEF RowsAnchored
    <3>2. ASSUME k[1] \in Movers(sheet),
                 \E j \in Transferable(k[1], sheet.teams[k[1]]) : k = <<k[1], sheet.teams[k[1]], j[3]>>
          PROVE  <<k[2], k[3]>> \in bound'
      <4>1. PICK j \in Transferable(k[1], sheet.teams[k[1]]) : k[2] = sheet.teams[k[1]] /\ k[3] = j[3]
        BY <3>2
      <4>2. <<sheet.teams[k[1]], j[3]>> \in taken BY <3>2 DEF Movers
      <4>3. QED BY <4>1, <4>2, <1>0
    <3>3. ASSUME EntryAt(entries, k)
          PROVE  /\ <<k[2], k[3]>> \in bound'
                 /\ LET d == entries[<<k[1], k[3]>>].division
                    IN  d # Nowhere => divisionOf'[d] # Nowhere
      <4> DEFINE e == <<k[1], k[3]>>
      <4>1. e \in DOMAIN entries /\ k[2] = entries[e].league /\ e[2] = k[3] BY <3>3 DEF EntryAt
      <4> HIDE DEF e
      <4>2. <<entries[e].league, e[2]>> \in bound' BY <4>1, <1>0, <1>1, <1>2
      <4>3. ASSUME entries[e].division # Nowhere PROVE divisionOf'[entries[e].division] # Nowhere
        <5>1. entries[e].division \in Divisions /\ DivisionOnceIn(sheet, entries[e].division) \in Leagues \X Seasons
          BY <4>1, <4>3, <1>1
        <5>2. QED BY <5>1, <1>7, ParticipationAssumption
      <4>4. QED BY <4>1, <4>2, <4>3 DEF e
    <3>4. reg[k].division # Nowhere => divisionOf'[reg[k].division] # Nowhere
      BY <1>7, RowType, Anchors DEF RowsAnchored, RowSet
    <3>5. reg'[k].state # "none" => T[k].state # "none" \/ EntryAt(entries, k) BY <1>6
    <3>6. reg'[k].division # Nowhere =>
            \/ reg'[k].division = T[k].division
            \/ EntryAt(entries, k) /\ reg'[k].division = entries[<<k[1], k[3]>>].division
      BY <1>6
    <3>7. <<k[2], k[3]>> \in bound' \/ reg'[k].state = "none" BY <1>5, <3>1, <3>2, <3>3, <3>5
    <3>8. reg'[k].division # Nowhere => divisionOf'[reg'[k].division] # Nowhere
      BY <1>5, <3>3, <3>4, <3>6
    <3>9. QED BY <3>7, <3>8
  <2>2. QED BY <2>1, <1>6 DEF RowsAnchored, NoRow
<1>10. BooksGrow BY <1>0, <1>6, <1>7 DEF BooksGrow
<1>11. \A p \in Players : teamOf'[p] = Nowhere => teamOf[p] = Nowhere
  BY <1>0, <1>a, ParticipationAssumption
<1>12. SetupInv' BY <1>0, <1>b, <1>6, <1>8, <1>9, <1>10, <1>11, RegistrationsMoved
<1>13. AlignedKept
  <2> SUFFICES ASSUME NEW t \in Teams, NEW s \in Seasons, Aligned(t, s), ~Historical(s),
                      NEW l \in Leagues, Registered(t, l, s)'
               PROVE  leagueOf'[t] = l
    BY DEF AlignedKept, Aligned
  <2> DEFINE k == <<t, l, s>>
  <2>0. k \in Keys /\ k[1] = t /\ k[2] = l /\ k[3] = s /\ leagueOf'[t] = LeagueOnceIn(sheet, t)
    BY <1>0 DEF Keys
  <2>1. CASE EntryAt(entries, k)
    <3>1. <<t, s>> \in DOMAIN entries /\ l = entries[<<t, s>>].league BY <2>0, <2>1 DEF EntryAt
    <3>2. entries[<<t, s>>].league = LeagueOnceIn(sheet, t) BY <3>1, <1>1
    <3>3. QED BY <2>0, <3>1, <3>2
  <2>2. CASE T[k].state = "active"
    <3> HIDE DEF k
    <3>1. CASE t \in Movers(sheet) /\ l = sheet.teams[t]
      BY <2>0, <3>1 DEF LeagueOnceIn, Movers
    <3>2. CASE reg[k].state = "active" /\ ~(t \in Movers(sheet) /\ k \in Transferable(t, sheet.teams[t]))
      <4>1. leagueOf[t] = l BY <3>2 DEF Aligned, Registered, k
      <4>2. CASE t \in Movers(sheet)
        <5>1. k \in Transferable(t, sheet.teams[t]) BY <2>0, <3>2, <4>1, <4>2 DEF Transferable, Movers
        <5>2. QED BY <5>1, <3>2, <4>2
      <4>3. CASE t \notin Movers(sheet) BY <2>0, <4>1, <4>3 DEF LeagueOnceIn, Movers
      <4>4. QED BY <4>2, <4>3
    <3>3. QED BY <2>0, <2>2, <3>1, <3>2, <1>5
  <2>3. QED BY <2>1, <2>2, <1>6
<1>14. ImportsLand'
  <2>1. Competition(sheet) \subseteq bound' BY <1>2
  <2>2. \A d \in DOMAIN sheet.divisions : divisionOf'[d] = sheet.divisions[d]
    BY <1>a, <1>0 DEF DivisionOnceIn
  <2>3. \A t \in DOMAIN sheet.teams : leagueOf'[t] = sheet.teams[t]
    BY <1>a, <1>0 DEF LeagueOnceIn
  <2>4. \A p \in DOMAIN sheet.players : teamOf'[p] = sheet.players[p]
    BY <1>a, <1>0
  <2>5. \A e \in DOMAIN sheet.entries :
          reg'[<<e[1], sheet.entries[e].league, e[2]>>] = Row("active", sheet.entries[e].division)
    BY <1>6 DEF entries
  <2>6. lastImport' = sheet BY <1>0
  <2>7. QED BY <2>1, <2>2, <2>3, <2>4, <2>5, <2>6 DEF ImportsLand, AsStored, Row, Competition
<1>15. QED BY <1>12, <1>13, <1>14

-----------------------------------------------------------------------------
(* From every start, for any number of calls                               *)

LEMMA ImportStep ==
  ASSUME SetupInv, ImportNext
  PROVE  SetupInv' /\ AlignedKept /\ ImportsLand'
<1>1. CASE \E sheet \in Sheets : ImportHierarchy(sheet) BY <1>1, ImportHierarchyCall
<1>2. CASE \E s \in Seasons, sheet \in TeamSheets : ImportTeams(s, sheet)
  <2>1. ImportsLand' BY <1>2 DEF ImportTeams, ImportsLand, NoSheet
  <2>2. QED BY <1>2, <2>1, ImportTeamsCall
<1>3. CASE ParticipationNext /\ lastImport' = NoSheet
  <2>1. ImportsLand' BY <1>3 DEF ImportsLand, NoSheet
  <2>2. QED BY <1>3, <2>1, SetupStep
<1>4. QED BY <1>1, <1>2, <1>3 DEF ImportNext, ImportCall

LEMMA SetupStarts == ParticipationInit => SetupInv
<1> SUFFICES ASSUME ParticipationInit PROVE SetupInv OBVIOUS
<1> USE ParticipationAssumption DEF ParticipationInit
<1>1. ParticipationTypeOK BY DEF ParticipationTypeOK, NoRow, NoStint
<1>2. Tidy /\ Once /\ ActiveOnce BY DEF Tidy, Once, ActiveOnce, Registered, NoRow, NoStint, Keys, Stints
<1>3. Fielded /\ Anchored /\ Backed
  BY DEF Fielded, Anchored, Backed, Live, NoRow, NoStint, Keys, Stints
<1>4. QED BY <1>1, <1>2, <1>3 DEF SetupInv, RegInv

\* The parts of RegistrationsSound that the setup of seasons keeps.
SetupSound ==
  ParticipationTypeOK /\ OneRegistration /\ Fielded /\ OneMembership /\ Anchored /\ Backed

LEMMA SetupImplies == SetupInv => SetupSound
BY CountedOnce, CountedActive DEF SetupInv, RegInv, SetupSound

\* The operators' calls one by one (setup_service.py): a team is registered
\* once a season, every live game's team is registered where it counts, a
\* player is active for one team, nothing refers to what is gone, and an open
\* membership stands on a registration or one that a call moved.
THEOREM SetupCorrect == ParticipationSpec => []SetupSound
<1>1. SetupInv /\ [ParticipationNext]_tables => SetupInv' BY SetupStep, SetupStutter
<1>2. QED BY <1>1, SetupStarts, SetupImplies, PTL DEF ParticipationSpec

\* In a season that is not history no call leaves a team registered outside its
\* own league that was not before.
THEOREM RegistrationsStayAligned == ParticipationSpec => StaysAligned
<1> DEFINE Kept == \A t \in Teams, s \in Seasons : Aligned(t, s) /\ ~Historical(s) => Aligned(t, s)'
<1>1. SetupInv /\ [ParticipationNext]_tables => SetupInv' /\ Kept
  BY SetupStep, SetupStutter DEF AlignedKept
<1>2. SetupInv /\ [ParticipationNext]_tables => [Kept]_tables BY <1>1
<1> HIDE DEF Kept
<1>3. ParticipationSpec => [][Kept]_tables BY <1>1, <1>2, SetupStarts, PTL DEF ParticipationSpec
<1>4. QED BY <1>3 DEF Kept, StaysAligned

\* However often a reviewed copy of a season is committed, whatever the other
\* calls did in between, one season comes of it, and it is not deleted
\* (copy_forward_season); the setup stays sound.
THEOREM CopiesCorrect == CopyForwardSpec => [](SetupSound /\ OneSeasonPerReview)
<1>1. ParticipationInit /\ CopyForwardInit => SetupInv /\ LedgerInv
  BY SetupStarts DEF CopyForwardInit, LedgerInv
<1>2. SetupInv /\ LedgerInv /\ [CopyForwardNext]_<<tables, copyVars>> => SetupInv' /\ LedgerInv'
  <2>1. SetupInv /\ LedgerInv /\ UNCHANGED <<tables, copyVars>> => SetupInv' /\ LedgerInv'
    BY SetupStutter DEF LedgerInv, copyVars, tables, spineVars
  <2>2. QED BY <2>1, CopyForwardStep
<1>3. QED BY <1>1, <1>2, SetupImplies, LedgerSound, PTL DEF CopyForwardSpec

\* The two spreadsheet imports among the other calls, for every sheet: what
\* was accepted by checks that ran before its first row has landed whole, and
\* the setup stays sound (hierarchy_import.py, commit_teams_players_import).
THEOREM ImportsCorrect == ImportSpec => [](SetupSound /\ ImportsLand)
<1>1. ParticipationInit /\ ImportInit => SetupInv /\ ImportsLand
  BY SetupStarts DEF ImportInit, ImportsLand
<1>2. SetupInv /\ ImportsLand /\ [ImportNext]_<<tables, lastImport>> => SetupInv' /\ ImportsLand'
  <2>1. SetupInv /\ ImportsLand /\ UNCHANGED <<tables, lastImport>> => SetupInv' /\ ImportsLand'
    BY SetupStutter DEF ImportsLand, AsStored, tables, spineVars, playerVars
  <2>2. QED BY <2>1, ImportStep
<1>3. QED BY <1>1, <1>2, SetupImplies, PTL DEF ImportSpec

-----------------------------------------------------------------------------
(* From the starts of the run, whose later calls meet full tables at once  *)

RunInv ==
  /\ SetupInv /\ LedgerInv /\ ImportsLand
  /\ part # "copies" => ledger = {}
  /\ part # "imports" => lastImport = NoSheet

LEMMA RunStarts == ParticipationRunInit => RunInv
<1> SUFFICES ASSUME ParticipationRunInit PROVE RunInv OBVIOUS
<1>1. LedgerInv /\ ImportsLand /\ ledger = {} /\ lastImport = NoSheet
  BY DEF ParticipationRunInit, CopyForwardInit, ImportInit, LedgerInv, ImportsLand
<1>2. PICK some \in SUBSET Seasons, registered \in {{}, {"t"}} : MCBegun(some, registered)
  BY SeasonsAssumption DEF ParticipationRunInit
<1> USE ParticipationAssumption
<1>3. \A k \in Keys : HomeOf[k[1]] \in Leagues /\ k[2] \in Leagues BY DEF Keys
<1>4. /\ NoRow \in RowSet /\ NoRow.state = "none" /\ NoRow.division = Nowhere
      /\ Row("active", Nowhere) \in RowSet /\ Row("active", Nowhere).state = "active"
      /\ Row("active", Nowhere).division = Nowhere
  BY RowIn DEF NoRow, RowSet
<1>5. \A k \in Keys :
        /\ reg[k] \in RowSet /\ reg[k].division = Nowhere
        /\ reg[k].state = "none" => reg[k] = NoRow
        /\ reg[k].state # "none" => k[2] = HomeOf[k[1]] /\ k[3] \in some
  BY <1>2, <1>4 DEF MCBegun
<1>6. reg \in [Keys -> RowSet] BY <1>2, <1>5 DEF MCBegun
<1>7. ParticipationTypeOK BY <1>2, <1>6 DEF MCBegun, ParticipationTypeOK, NoStint, RowSet
<1>8. Once
  <2> SUFFICES ASSUME NEW t \in Teams, NEW l \in Leagues, NEW s \in Seasons, Registered(t, l, s)
               PROVE  l = HomeOf[t]
    BY DEF Once
  <2> DEFINE k == <<t, l, s>>
  <2>1. k \in Keys /\ k[1] = t /\ k[2] = l BY DEF Keys
  <2>2. reg[k].state # "none" BY DEF Registered
  <2> HIDE DEF k
  <2>3. QED BY <2>1, <2>2, <1>5
<1>9. Tidy /\ ActiveOnce
  BY <1>2, <1>5 DEF MCBegun, Tidy, ActiveOnce, NoStint, Stints
<1>10. Fielded /\ Backed BY <1>2 DEF MCBegun, Fielded, Backed, Live, NoStint, Keys, Stints
<1>11. Anchored
  <2>1. \A k \in Keys : reg[k].state # "none" => <<k[2], k[3]>> \in bound
    BY <1>2, <1>3, <1>5 DEF MCBegun
  <2>2. QED BY <2>1, <1>2, <1>5 DEF MCBegun, Anchored, NoStint, Stints
<1>12. QED BY <1>1, <1>7, <1>8, <1>9, <1>10, <1>11 DEF RunInv, SetupInv, RegInv

LEMMA RunStep ==
  ASSUME RunInv, [ParticipationRunNext]_participationVars
  PROVE  RunInv' /\ AlignedKept
<1>1. CASE UNCHANGED tables /\ UNCHANGED <<part, copyVars, lastImport>>
  <2>1. SetupInv' /\ AlignedKept BY <1>1, SetupStutter DEF RunInv
  <2>2. LedgerInv' BY <1>1 DEF RunInv, LedgerInv, copyVars, tables, spineVars
  <2>3. ImportsLand'
    BY <1>1 DEF RunInv, ImportsLand, AsStored, tables, spineVars, playerVars
  <2>4. QED BY <1>1, <2>1, <2>2, <2>3 DEF RunInv, copyVars
<1>2. CASE part \in {"one", "two"} /\ ParticipationNext /\ UNCHANGED <<part, copyVars, lastImport>>
  <2>1. SetupInv' /\ AlignedKept BY <1>2, SetupStep DEF RunInv
  <2>2. LedgerInv' BY <1>2 DEF RunInv, LedgerInv, copyVars
  <2>3. ImportsLand' BY <1>2 DEF RunInv, ImportsLand
  <2>4. QED BY <1>2, <2>1, <2>2, <2>3 DEF RunInv, copyVars
<1>3. CASE part = "copies" /\ CopyForwardNext /\ UNCHANGED <<part, lastImport>>
  <2>1. SetupInv' /\ LedgerInv' /\ AlignedKept BY <1>3, CopyForwardStep DEF RunInv
  <2>2. ImportsLand' BY <1>3 DEF RunInv, ImportsLand
  <2>3. QED BY <1>3, <2>1, <2>2 DEF RunInv
<1>4. CASE part = "imports" /\ ImportNext /\ UNCHANGED <<part, copyVars>>
  <2>1. SetupInv' /\ AlignedKept /\ ImportsLand' BY <1>4, ImportStep DEF RunInv
  <2>2. LedgerInv' BY <1>4 DEF RunInv, LedgerInv, copyVars
  <2>3. QED BY <1>4, <2>1, <2>2 DEF RunInv, copyVars
<1>5. QED BY <1>1, <1>2, <1>3, <1>4 DEF ParticipationRunNext, participationVars

\* What the run season_setup checks of registrations, memberships, games and
\* divisions, and of an import, for any number of calls and every constant.
THEOREM RunRegistrationsSound == ParticipationRunSpec => []RegistrationsSound
<1>1. RunInv => RegistrationsSound
  BY SetupImplies DEF RunInv, SetupSound, RegistrationsSound
<1>2. RunInv /\ [ParticipationRunNext]_participationVars => RunInv' BY RunStep
<1>3. QED BY <1>1, <1>2, RunStarts, PTL DEF ParticipationRunSpec

\* The season a reviewed copy gets, in the run.
THEOREM RunOneSeason == ParticipationRunSpec => []OneSeasonPerReview
<1>1. RunInv => OneSeasonPerReview BY LedgerSound DEF RunInv
<1>2. RunInv /\ [ParticipationRunNext]_participationVars => RunInv' BY RunStep
<1>3. QED BY <1>1, <1>2, RunStarts, PTL DEF ParticipationRunSpec

\* Alignment in the run, through copies and imports too.
THEOREM RunStaysAligned == ParticipationRunSpec => StaysAligned
<1> DEFINE Kept == \A t \in Teams, s \in Seasons : Aligned(t, s) /\ ~Historical(s) => Aligned(t, s)'
<1>1. RunInv /\ [ParticipationRunNext]_participationVars => RunInv' /\ [Kept]_tables
  BY RunStep DEF AlignedKept
<1> HIDE DEF Kept
<1>2. ParticipationRunSpec => [][Kept]_tables BY <1>1, RunStarts, PTL DEF ParticipationRunSpec
<1>3. QED BY <1>2 DEF Kept, StaysAligned

-----------------------------------------------------------------------------
(* The ice that templates, sheets and single calls make                    *)

LEMMA Multiples ==
  ASSUME NEW P \in Nat \ {0}, NEW x \in Int, NEW y \in Int, x % P = 0, y % P = 0, x < y
  PROVE  x + P <= y
<1>1. PICK a \in Int : x = P * a
  <2> DEFINE q == x \div P
  <2>1. x = P * q + (x % P) /\ q \in Int OBVIOUS
  <2> HIDE DEF q
  <2>2. P * q \in Int BY <2>1
  <2>3. x = P * q BY <2>1, <2>2
  <2>4. QED BY <2>1, <2>3
<1>2. PICK b \in Int : y = P * b
  <2> DEFINE q == y \div P
  <2>1. y = P * q + (y % P) /\ q \in Int OBVIOUS
  <2> HIDE DEF q
  <2>2. P * q \in Int BY <2>1
  <2>3. y = P * q BY <2>1, <2>2
  <2>4. QED BY <2>1, <2>3
<1>3. a < b
  <2>1. a >= b => P * a >= P * b OBVIOUS
  <2>2. QED BY <1>1, <1>2, <2>1
<1>4. P * (a + 1) <= P * b BY <1>3
<1>5. P * (a + 1) = P * a + P OBVIOUS
<1>6. QED BY <1>1, <1>2, <1>4, <1>5

\* Where a window of a plan comes from.
LEMMA PlannedWindow ==
  ASSUME NEW t \in Templates, RinkIce!WellFormed(t), NEW a \in RinkIce!Planned(t)
  PROVE  \E d \in t.days : \E first \in RinkIce!Resolved(d.opens), last \in RinkIce!Resolved(d.closes) :
           /\ a.from \in Int /\ a.to = a.from + t.playable /\ a.from >= first /\ a.to <= last
           /\ (a.from - first) % (t.playable + t.turnover) = 0
           /\ first \in Int /\ last \in Int
<1>0. PICK d \in t.days : \E w \in RinkIce!DayWindows(t, d) : a.from = w.from /\ a.to = w.to
  BY DEF RinkIce!Planned
<1>1. PICK w \in RinkIce!DayWindows(t, d) : a.from = w.from /\ a.to = w.to BY <1>0
<1>2. PICK first \in RinkIce!Resolved(d.opens), last \in RinkIce!Resolved(d.closes) :
        \E i \in first..last :
          /\ w = [from |-> i, to |-> i + t.playable]
          /\ (i - first) % (t.playable + t.turnover) = 0 /\ i + t.playable <= last
  BY DEF RinkIce!DayWindows
<1>3. first \in Int /\ last \in Int BY ClockAssumption DEF RinkIce!Resolved, RinkIce!Instants
<1>4. QED BY <1>1, <1>2, <1>3

\* The windows of a plan are apart.
LEMMA WindowsApart ==
  ASSUME NEW t \in Templates, RinkIce!WellFormed(t),
         NEW a \in RinkIce!Planned(t), NEW b \in RinkIce!Planned(t), a # b
  PROVE  ~RinkIce!Overlap(a, b)
<1> SUFFICES ASSUME RinkIce!Overlap(a, b) PROVE FALSE OBVIOUS
<1>1. a.rink = b.rink /\ a.from < b.to /\ b.from < a.to BY DEF RinkIce!Overlap
<1>2a. PICK d \in t.days : \E f \in RinkIce!Resolved(d.opens), g \in RinkIce!Resolved(d.closes) :
          /\ a.from \in Int /\ a.to = a.from + t.playable /\ a.from >= f /\ a.to <= g
          /\ (a.from - f) % (t.playable + t.turnover) = 0
          /\ f \in Int /\ g \in Int
  BY PlannedWindow
<1>2. PICK f \in RinkIce!Resolved(d.opens), g \in RinkIce!Resolved(d.closes) :
        /\ a.from \in Int /\ a.to = a.from + t.playable /\ a.from >= f /\ a.to <= g
        /\ (a.from - f) % (t.playable + t.turnover) = 0
        /\ f \in Int /\ g \in Int
  BY <1>2a
<1>3a. PICK e \in t.days : \E h \in RinkIce!Resolved(e.opens), k \in RinkIce!Resolved(e.closes) :
          /\ b.from \in Int /\ b.to = b.from + t.playable /\ b.from >= h /\ b.to <= k
          /\ (b.from - h) % (t.playable + t.turnover) = 0
          /\ h \in Int /\ k \in Int
  BY PlannedWindow
<1>3. PICK h \in RinkIce!Resolved(e.opens), k \in RinkIce!Resolved(e.closes) :
        /\ b.from \in Int /\ b.to = b.from + t.playable /\ b.from >= h /\ b.to <= k
        /\ (b.from - h) % (t.playable + t.turnover) = 0
        /\ h \in Int /\ k \in Int
  BY <1>3a
<1>4. t.playable \in Nat \ {0} /\ t.turnover \in Nat
  BY TemplatesAssumption DEF RinkIce!WellFormed
<1>5. CASE d.closes <= e.opens
  <2>1. g <= h BY <1>5, ClockAssumption DEF RinkIce!Resolved, RinkIce!Instants
  <2>2. QED BY <2>1, <1>1, <1>2, <1>3, <1>4
<1>6. CASE e.closes <= d.opens
  <2>1. k <= f BY <1>6, ClockAssumption DEF RinkIce!Resolved, RinkIce!Instants
  <2>2. QED BY <2>1, <1>1, <1>2, <1>3, <1>4
<1>7. CASE d = e
  <2>1. f = h
    BY <1>2, <1>3, <1>7 DEF RinkIce!Resolved, RinkIce!Instants
  <2> DEFINE P == t.playable + t.turnover
             x == a.from - f
             y == b.from - f
  <2>2. P \in Nat \ {0} /\ x \in Int /\ y \in Int /\ x % P = 0 /\ y % P = 0
    BY <1>2, <1>3, <1>4, <2>1
  <2>3. a.from # b.from
    <3>1. /\ a = [rink |-> a.rink, from |-> a.from, to |-> a.to]
          /\ b = [rink |-> b.rink, from |-> b.from, to |-> b.to]
      BY DEF RinkIce!Planned
    <3>2. QED BY <3>1, <1>1, <1>2, <1>3
  <2> HIDE DEF P, x, y
  <2>4. (x < y => x + P <= y) /\ (y < x => y + P <= x) BY <2>2, Multiples
  <2> DEFINE u == a.from
             v == b.from
  <2>5. u \in Int /\ v \in Int /\ f \in Int /\ t.playable \in Nat /\ t.turnover \in Nat
        /\ u # v /\ u < v + t.playable /\ v < u + t.playable
    BY <2>3, <1>1, <1>2, <1>3, <1>4
  <2>6. x = u - f /\ y = v - f /\ P = t.playable + t.turnover BY DEF P, x, y
  <2> HIDE DEF u, v
  <2>7. QED BY <2>4, <2>5, <2>6
<1>8. QED BY <1>5, <1>6, <1>7, TemplatesAssumption

\* What a preview's fingerprint covers tells which of its windows were new; no
\* window is previewed of a template that would be refused.
Told(preview) ==
  /\ RinkIce!WellFormed(preview.review.template)
  /\ preview.new = {s \in DOMAIN preview.review.windows : preview.review.windows[s].status = "new"}
IceInv ==
  /\ ice = [s \in DOMAIN ice |-> [type |-> ice[s].type, status |-> ice[s].status]]
  /\ shown = [o \in IceOperators |-> shown[o]]
  /\ \A o \in IceOperators : \A preview \in shown[o] : Told(preview)
  /\ RinkIce!IceSound

LEMMA BuiltIce ==
  ASSUME NEW type
  PROVE  /\ RinkIce!Built(type) = [type |-> RinkIce!Built(type).type, status |-> RinkIce!Built(type).status]
         /\ RinkIce!Built(type).type = type /\ RinkIce!Built(type).status # "allocated"
         /\ RinkIce!Built(type).status = "blocked" <=> type # "game"
BY DEF RinkIce!Built

\* A call that leaves the previews alone.
LEMMA IceMoved ==
  ASSUME IceInv, shown' = shown,
         \A s \in DOMAIN ice' : ice'[s] = [type |-> ice'[s].type, status |-> ice'[s].status],
         ice' = [s \in DOMAIN ice' |-> ice'[s]],
         RinkIce!IceSound'
  PROVE  IceInv'
<1>1. ice' = [s \in DOMAIN ice' |-> [type |-> ice'[s].type, status |-> ice'[s].status]] OBVIOUS
<1>2. QED BY <1>1 DEF IceInv, Told

\* Slots added where nothing is, apart from each other.
LEMMA SlotsAdded ==
  ASSUME IceInv, NEW added, NEW type,
         \A s \in added : RinkIce!Clashing(s) = {} /\ s \notin DOMAIN ice,
         \A a, b \in added : a # b => ~RinkIce!Overlap(a, b),
         ice' = [s \in DOMAIN ice \cup added |-> IF s \in DOMAIN ice THEN ice[s] ELSE RinkIce!Built(type)],
         UNCHANGED <<played, shown, warned>>
  PROVE  IceInv'
<1> USE DEF IceInv, RinkIce!IceSound
<1>1. /\ DOMAIN ice' = DOMAIN ice \cup added
      /\ \A s \in DOMAIN ice : ice'[s] = ice[s]
      /\ \A s \in added : ice'[s] = RinkIce!Built(type)
  OBVIOUS
<1>2. \A s \in DOMAIN ice : ice[s] = [type |-> ice[s].type, status |-> ice[s].status] OBVIOUS
<1>3. played' \subseteq DOMAIN ice' BY <1>1
<1>4. RinkIce!GamesApart' BY DEF RinkIce!GamesApart, RinkIce!Overlap
<1>5. RinkIce!OverlapsWarned'
  <2> SUFFICES ASSUME NEW a \in DOMAIN ice \cup added, NEW b \in DOMAIN ice \cup added,
                      a # b, RinkIce!Overlap(a, b)
               PROVE  {a, b} \in warned
    BY <1>1 DEF RinkIce!OverlapsWarned, RinkIce!Overlap
  <2>1. RinkIce!Overlap(b, a) BY DEF RinkIce!Overlap
  <2>2. a \in DOMAIN ice /\ b \in DOMAIN ice BY <2>1 DEF RinkIce!Clashing
  <2>3. QED BY <2>2 DEF RinkIce!OverlapsWarned
<1>6. RinkIce!StatusTells' BY <1>1, BuiltIce DEF RinkIce!StatusTells
<1>7. QED BY <1>1, <1>2, <1>3, <1>4, <1>5, <1>6, BuiltIce, IceMoved

LEMMA CommitIce ==
  ASSUME IceInv, NEW o \in IceOperators, NEW t \in Templates, RinkIce!CommitIceAvailability(o, t)
  PROVE  /\ IceInv'
         /\ \E preview \in shown[o] :
              preview.review.template = t /\ preview.new = DOMAIN ice' \ DOMAIN ice
         /\ \A s \in DOMAIN ice' \ DOMAIN ice : s.to = s.from + t.playable
<1> DEFINE opened == RinkIce!Opened(t)
<1>0. /\ ice' = [s \in DOMAIN ice \cup opened |-> IF s \in DOMAIN ice THEN ice[s] ELSE RinkIce!Built("game")]
      /\ UNCHANGED <<played, shown, warned>>
  BY DEF RinkIce!CommitIceAvailability
<1>1. PICK preview \in shown[o] : preview.review = RinkIce!Review(t)
  BY DEF RinkIce!CommitIceAvailability, RinkIce!Reviewed
<1>2. Told(preview) BY DEF IceInv
<1>3. preview.review.template = t /\ preview.review.windows = [s \in RinkIce!Planned(t) |-> RinkIce!Classified(s)]
  BY <1>1 DEF RinkIce!Review
<1>4. RinkIce!WellFormed(t) BY <1>2, <1>3 DEF Told
<1>5. \A s \in RinkIce!Planned(t) : s.from \in Int /\ s.to = s.from + t.playable /\ RinkIce!Overlap(s, s)
  <2>1. t.playable \in Nat \ {0} BY <1>4, TemplatesAssumption DEF RinkIce!WellFormed
  <2>2. QED BY <1>4, <2>1, PlannedWindow DEF RinkIce!Overlap
<1>6. \A s \in opened : s \in RinkIce!Planned(t) /\ RinkIce!Clashing(s) = {} /\ s \notin DOMAIN ice
  BY <1>5 DEF RinkIce!Opened, RinkIce!Clashing
<1>7. \A a, b \in opened : a # b => ~RinkIce!Overlap(a, b) BY <1>4, <1>6, WindowsApart
<1>8. preview.new = opened
  <2>1. \A s \in RinkIce!Planned(t) : RinkIce!Classified(s).status = "new" <=> RinkIce!Clashing(s) = {}
    <3> SUFFICES ASSUME NEW s \in RinkIce!Planned(t)
                 PROVE  RinkIce!Classified(s).status = "new" <=> RinkIce!Clashing(s) = {}
      OBVIOUS
    <3>1. RinkIce!Duplicate(s) => s \in RinkIce!Clashing(s)
      BY <1>5 DEF RinkIce!Duplicate, RinkIce!Clashing
    <3>2. CASE RinkIce!Duplicate(s) BY <3>1, <3>2 DEF RinkIce!Classified
    <3>3. CASE ~RinkIce!Duplicate(s) BY <3>3 DEF RinkIce!Classified
    <3>4. QED BY <3>2, <3>3
  <2>2. QED BY <1>2, <1>3, <2>1 DEF Told, RinkIce!Opened
<1> HIDE DEF opened
<1>9. DOMAIN ice' \ DOMAIN ice = opened BY <1>0, <1>6
<1>10. IceInv' BY <1>0, <1>6, <1>7, SlotsAdded
<1>11. QED BY <1>3, <1>5, <1>6, <1>8, <1>9, <1>10

LEMMA PreviewIce ==
  ASSUME IceInv, NEW o \in IceOperators, NEW t \in Templates, RinkIce!PreviewIceAvailability(o, t)
  PROVE  IceInv'
<1> DEFINE preview == [review |-> RinkIce!Review(t),
                       new |-> {s \in RinkIce!Planned(t) : RinkIce!Classified(s).status = "new"}]
<1>1. /\ UNCHANGED <<ice, played, warned>> /\ RinkIce!WellFormed(t)
      /\ shown' = [shown EXCEPT ![o] = @ \cup {preview}]
  BY DEF RinkIce!PreviewIceAvailability
<1>2. Told(preview) BY <1>1 DEF Told, RinkIce!Review
<1> HIDE DEF preview
<1>3. \A q \in IceOperators : \A p \in shown'[q] : Told(p) BY <1>1, <1>2 DEF IceInv
<1>4. RinkIce!IceSound'
  BY <1>1 DEF IceInv, RinkIce!IceSound, RinkIce!GamesApart, RinkIce!OverlapsWarned, RinkIce!StatusTells,
              RinkIce!Overlap
<1>5. shown' = [q \in IceOperators |-> shown'[q]] BY <1>1 DEF IceInv
<1>6. QED BY <1>1, <1>3, <1>4, <1>5 DEF IceInv, Told

LEMMA CreateSlot ==
  ASSUME IceInv, NEW s \in RinkIce!Slot, NEW type, RinkIce!CreateIceSlot(s, type)
  PROVE  IceInv'
<1>1. RinkIce!Overlap(s, s) BY DEF RinkIce!Slot, RinkIce!Overlap
<1>2. RinkIce!Clashing(s) = {} /\ s \notin DOMAIN ice
  BY <1>1 DEF RinkIce!CreateIceSlot, RinkIce!Clashing
<1> DEFINE added == {s}
<1>3. ice' = [x \in DOMAIN ice \cup added |-> IF x \in DOMAIN ice THEN ice[x] ELSE RinkIce!Built(type)]
  BY <1>2 DEF RinkIce!CreateIceSlot
<1>4. UNCHANGED <<played, shown, warned>> BY DEF RinkIce!CreateIceSlot
<1>5. /\ \A x \in added : RinkIce!Clashing(x) = {} /\ x \notin DOMAIN ice
      /\ \A a, b \in added : a # b => ~RinkIce!Overlap(a, b)
  BY <1>2
<1> HIDE DEF added
<1>6. QED BY <1>3, <1>4, <1>5, SlotsAdded

LEMMA DeleteSlot ==
  ASSUME IceInv, NEW s, RinkIce!DeleteIceSlot(s)
  PROVE  IceInv'
<1> USE DEF IceInv, RinkIce!IceSound
<1>1. /\ ice' = [x \in DOMAIN ice \ {s} |-> ice[x]] /\ s \notin played
      /\ UNCHANGED <<played, shown, warned>>
  BY DEF RinkIce!DeleteIceSlot, RinkIce!Restrict
<1>2. DOMAIN ice' = DOMAIN ice \ {s} /\ \A x \in DOMAIN ice' : ice'[x] = ice[x] BY <1>1
<1>3. \A x \in DOMAIN ice : ice[x] = [type |-> ice[x].type, status |-> ice[x].status] OBVIOUS
<1>4. played' \subseteq DOMAIN ice' BY <1>1, <1>2
<1>5. RinkIce!GamesApart' BY <1>1 DEF RinkIce!GamesApart, RinkIce!Overlap
<1>6. RinkIce!OverlapsWarned' BY <1>1, <1>2 DEF RinkIce!OverlapsWarned, RinkIce!Overlap
<1>7. RinkIce!StatusTells' BY <1>1, <1>2 DEF RinkIce!StatusTells
<1>8. QED BY <1>1, <1>2, <1>3, <1>4, <1>5, <1>6, <1>7, IceMoved

\* A game comes to a slot or leaves it: the slot's status says so.
LEMMA GameMoves ==
  ASSUME IceInv, NEW s \in DOMAIN ice, RinkIce!TakeIce(s) \/ RinkIce!LeaveIce(s)
  PROVE  IceInv'
<1> USE DEF IceInv, RinkIce!IceSound
<1>1. UNCHANGED <<shown, warned>> BY DEF RinkIce!TakeIce, RinkIce!LeaveIce
<1>2. PICK status : /\ ice' = [ice EXCEPT ![s].status = status]
                    /\ \/ status = "allocated" /\ played' = played \cup {s} /\ RinkIce!TakeIce(s)
                       \/ status = "available" /\ played' = played \ {s} /\ s \in played
  BY DEF RinkIce!TakeIce, RinkIce!LeaveIce
<1>3. \A x \in DOMAIN ice : ice[x] = [type |-> ice[x].type, status |-> ice[x].status] OBVIOUS
<1>4. /\ DOMAIN ice' = DOMAIN ice /\ ice' = [x \in DOMAIN ice |-> ice'[x]]
      /\ \A x \in DOMAIN ice \ {s} : ice'[x] = ice[x]
      /\ ice'[s] = [type |-> ice[s].type, status |-> status]
  <2> DEFINE slot == ice[s]
  <2>1. slot = [type |-> slot.type, status |-> slot.status] BY <1>3
  <2>2. ice' = [ice EXCEPT ![s] = [slot EXCEPT !.status = status]] BY <1>2
  <2> HIDE DEF slot
  <2>3. [slot EXCEPT !.status = status] = [type |-> slot.type, status |-> status] BY <2>1
  <2> DEFINE taken == [type |-> slot.type, status |-> status]
  <2>4. ice' = [ice EXCEPT ![s] = taken] BY <2>2, <2>3
  <2> HIDE DEF taken
  <2>5. DOMAIN ice' = DOMAIN ice /\ ice' = [x \in DOMAIN ice |-> ice'[x]] BY <2>4
  <2>6. \A x \in DOMAIN ice \ {s} : ice'[x] = ice[x] BY <2>4
  <2>7. ice'[s] = taken BY <2>4, <2>5
  <2>8. QED BY <2>5, <2>6, <2>7 DEF taken, slot
<1>5. ice[s].type = "game"
  <2>1. CASE RinkIce!TakeIce(s) BY <2>1 DEF RinkIce!TakeIce, RinkIce!Playable, RinkIce!Built
  <2>2. CASE s \in played BY <2>2 DEF RinkIce!StatusTells
  <2>3. QED BY <2>1, <2>2, <1>2
<1>6. \A x \in DOMAIN ice' : ice'[x] = [type |-> ice'[x].type, status |-> ice'[x].status]
  <2> SUFFICES ASSUME NEW x \in DOMAIN ice
               PROVE  ice'[x] = [type |-> ice'[x].type, status |-> ice'[x].status]
    BY <1>4
  <2>1. CASE x = s BY <2>1, <1>4
  <2>2. CASE x # s
    <3>1. ice'[x] = ice[x] BY <2>2, <1>4
    <3>2. ice[x] = [type |-> ice[x].type, status |-> ice[x].status] BY <1>3
    <3>3. QED BY <3>1, <3>2
  <2>3. QED BY <2>1, <2>2
<1>7. played' \subseteq DOMAIN ice' BY <1>2, <1>4
<1>8. RinkIce!GamesApart'
  <2>1. CASE played' = played \ {s} BY <2>1 DEF RinkIce!GamesApart, RinkIce!Overlap
  <2>2. CASE RinkIce!TakeIce(s) /\ played' = played \cup {s}
    <3>1. \A x \in played : ~RinkIce!Overlap(x, s) /\ ~RinkIce!Overlap(s, x)
      BY <2>2 DEF RinkIce!TakeIce, RinkIce!Playable, RinkIce!Clashing, RinkIce!Overlap
    <3>2. QED BY <2>2, <3>1 DEF RinkIce!GamesApart, RinkIce!Overlap
  <2>3. QED BY <2>1, <2>2, <1>2
<1>9. RinkIce!OverlapsWarned' BY <1>1, <1>4 DEF RinkIce!OverlapsWarned, RinkIce!Overlap
<1>10. RinkIce!StatusTells'
  <2> SUFFICES ASSUME NEW x \in DOMAIN ice
               PROVE  /\ ice'[x].status = "allocated" <=> x \in played'
                      /\ ice'[x].status = "blocked" <=> ice'[x].type # "game"
    BY <1>4 DEF RinkIce!StatusTells
  <2>1. CASE x = s BY <2>1, <1>2, <1>4, <1>5
  <2>2. CASE x # s
    <3>1. ice'[x] = ice[x] /\ (x \in played' <=> x \in played) BY <2>2, <1>2, <1>4
    <3>2. QED BY <3>1 DEF RinkIce!StatusTells
  <2>3. QED BY <2>1, <2>2
<1>11. QED BY <1>1, <1>4, <1>6, <1>7, <1>8, <1>9, <1>10, IceMoved

LEMMA ImportIce ==
  ASSUME IceInv, NEW sheet \in SlotSheets, RinkIce!ImportRinksIceSlots(sheet)
  PROVE  IceInv'
<1> USE DEF IceInv, RinkIce!IceSound
<1> DEFINE rows == sheet.rows
<1>1. /\ RinkIce!Importable(rows) /\ UNCHANGED <<played, shown>>
      /\ ice' = [s \in DOMAIN ice \cup DOMAIN rows |->
                   IF s \in DOMAIN rows THEN RinkIce!Imported(s, rows[s]) ELSE ice[s]]
      /\ warned' = warned \cup {{a, b} : a, b \in DOMAIN rows}
  BY DEF RinkIce!ImportRinksIceSlots
<1> HIDE DEF rows
<1>2. /\ DOMAIN ice' = DOMAIN ice \cup DOMAIN rows /\ ice' = [s \in DOMAIN ice' |-> ice'[s]]
      /\ \A s \in DOMAIN ice \ DOMAIN rows : ice'[s] = ice[s]
      /\ \A s \in DOMAIN rows : ice'[s] = RinkIce!Imported(s, rows[s])
  BY <1>1
<1>3. \A s \in DOMAIN ice : ice[s] = [type |-> ice[s].type, status |-> ice[s].status] OBVIOUS
<1>4. ASSUME NEW s \in DOMAIN rows
      PROVE  IF s \in played THEN ice'[s] = ice[s] ELSE ice'[s] = RinkIce!Built(rows[s])
  <2>1. CASE s \notin played BY <2>1, <1>2 DEF RinkIce!Imported
  <2>2. CASE s \in played
    <3>1. s \in DOMAIN ice /\ ice[s].type = rows[s] BY <2>2, <1>1 DEF RinkIce!Importable
    <3>2. ice'[s] = [ice[s] EXCEPT !.type = rows[s]] BY <2>2, <1>2 DEF RinkIce!Imported
    <3> DEFINE row == ice[s]
    <3>3. row = [type |-> row.type, status |-> row.status] BY <3>1, <1>3
    <3> HIDE DEF row
    <3>4. [row EXCEPT !.type = row.type] = row BY <3>3
    <3>5. QED BY <2>2, <3>1, <3>2, <3>4 DEF row
  <2>3. QED BY <2>1, <2>2
<1>5. \A s \in DOMAIN ice' :
        \/ s \in DOMAIN ice /\ ice'[s] = ice[s]
        \/ s \notin played /\ \E type : ice'[s] = RinkIce!Built(type)
  BY <1>2, <1>4
<1>6. \A s \in DOMAIN ice' : ice'[s] = [type |-> ice'[s].type, status |-> ice'[s].status]
  <2> SUFFICES ASSUME NEW s \in DOMAIN ice'
               PROVE  ice'[s] = [type |-> ice'[s].type, status |-> ice'[s].status]
    OBVIOUS
  <2>1. CASE s \in DOMAIN ice /\ ice'[s] = ice[s]
    <3>1. ice[s] = [type |-> ice[s].type, status |-> ice[s].status] BY <2>1, <1>3
    <3>2. QED BY <2>1, <3>1
  <2>2. CASE \E type : ice'[s] = RinkIce!Built(type) BY <2>2 DEF RinkIce!Built
  <2>3. QED BY <2>1, <2>2, <1>5
<1>7. played' \subseteq DOMAIN ice' BY <1>1, <1>2
<1>8. RinkIce!GamesApart' BY <1>1 DEF RinkIce!GamesApart, RinkIce!Overlap
<1>9. RinkIce!OverlapsWarned'
  <2> SUFFICES ASSUME NEW a \in DOMAIN ice', NEW b \in DOMAIN ice', a # b, RinkIce!Overlap(a, b)
               PROVE  {a, b} \in warned'
    BY DEF RinkIce!OverlapsWarned, RinkIce!Overlap
  <2>1. RinkIce!Overlap(b, a) BY DEF RinkIce!Overlap
  <2>2. CASE a \in DOMAIN ice /\ b \in DOMAIN ice BY <1>1, <2>2 DEF RinkIce!OverlapsWarned
  <2>3. CASE a \in DOMAIN rows /\ b \in DOMAIN rows BY <1>1, <2>3
  <2>4. CASE a \in DOMAIN ice /\ b \in DOMAIN rows \ DOMAIN ice
    <3>1. RinkIce!Clashing(b) = {} BY <1>1, <2>4 DEF RinkIce!Importable
    <3>2. QED BY <2>4, <3>1 DEF RinkIce!Clashing
  <2>5. CASE b \in DOMAIN ice /\ a \in DOMAIN rows \ DOMAIN ice
    <3>1. RinkIce!Clashing(a) = {} BY <1>1, <2>5 DEF RinkIce!Importable
    <3>2. QED BY <2>1, <2>5, <3>1 DEF RinkIce!Clashing
  <2>6. QED BY <1>2, <2>2, <2>3, <2>4, <2>5
<1>10. RinkIce!StatusTells'
  <2> SUFFICES ASSUME NEW s \in DOMAIN ice'
               PROVE  /\ ice'[s].status = "allocated" <=> s \in played
                      /\ ice'[s].status = "blocked" <=> ice'[s].type # "game"
    BY <1>1 DEF RinkIce!StatusTells
  <2>1. CASE s \in DOMAIN ice /\ ice'[s] = ice[s] BY <2>1 DEF RinkIce!StatusTells
  <2>2. CASE s \notin played /\ \E type : ice'[s] = RinkIce!Built(type) BY <2>2, BuiltIce
  <2>3. QED BY <2>1, <2>2, <1>5
<1>11. QED BY <1>1, <1>2, <1>6, <1>7, <1>8, <1>9, <1>10, IceMoved

LEMMA IceStep ==
  ASSUME IceInv, RinkIce!IceNext
  PROVE  IceInv'
<1>1. CASE \E o \in IceOperators, t \in Templates :
             RinkIce!PreviewIceAvailability(o, t) \/ RinkIce!CommitIceAvailability(o, t)
  BY <1>1, PreviewIce, CommitIce
<1>2. CASE \E s \in RinkIce!Slot, type \in {"game", "other"} : RinkIce!CreateIceSlot(s, type)
  BY <1>2, CreateSlot
<1>3. CASE \E s \in DOMAIN ice : RinkIce!DeleteIceSlot(s) \/ RinkIce!TakeIce(s) \/ RinkIce!LeaveIce(s)
  BY <1>3, DeleteSlot, GameMoves
<1>4. CASE \E v \in Venues : RinkIce!GrantVenueAccess(v) \/ RinkIce!RevokeVenueAccess(v)
  <2>1. UNCHANGED <<ice, played, shown, warned>>
    BY <1>4 DEF RinkIce!GrantVenueAccess, RinkIce!RevokeVenueAccess
  <2>2. QED BY <2>1 DEF IceInv, Told, RinkIce!IceSound, RinkIce!GamesApart, RinkIce!OverlapsWarned,
                        RinkIce!StatusTells, RinkIce!Overlap
<1>5. CASE \E sheet \in SlotSheets : RinkIce!ImportRinksIceSlots(sheet) BY <1>5, ImportIce
<1>6. QED BY <1>1, <1>2, <1>3, <1>4, <1>5 DEF RinkIce!IceNext


LEMMA IceStarts == ParticipationRunInit => IceInv
<1> SUFFICES ASSUME ParticipationRunInit PROVE IceInv OBVIOUS
<1>1. ice = <<>> /\ played = {} /\ shown = [o \in IceOperators |-> {}]
  BY DEF ParticipationRunInit, RinkIce!IceInit
<1>2. DOMAIN ice = {} BY <1>1
<1>3. ice = [s \in DOMAIN ice |-> [type |-> ice[s].type, status |-> ice[s].status]] BY <1>1, <1>2
<1>4. shown = [o \in IceOperators |-> shown[o]] /\ \A o \in IceOperators : shown[o] = {} BY <1>1
<1>5. QED
  BY <1>1, <1>2, <1>3, <1>4
  DEF IceInv, RinkIce!IceSound, RinkIce!GamesApart, RinkIce!OverlapsWarned, RinkIce!StatusTells

LEMMA RunIceStep ==
  ASSUME IceInv, [ParticipationRunNext]_participationVars
  PROVE  IceInv'
<1>1. CASE UNCHANGED iceVars
  BY <1>1 DEF iceVars, IceInv, Told, RinkIce!IceSound, RinkIce!GamesApart, RinkIce!OverlapsWarned,
              RinkIce!StatusTells, RinkIce!Overlap
<1>2. CASE RinkIce!IceNext BY <1>2, IceStep
<1>3. QED BY <1>1, <1>2 DEF ParticipationRunNext, participationVars

\* Games never share ice, overlapping slots were warned of, and a slot's status
\* tells whether a game plays on it, in the run and for every clock, template
\* and sheet (services/setup_service.py, import_validator.py).
THEOREM RunIceSound == ParticipationRunSpec => []RinkIce!IceSound
<1>1. IceInv => RinkIce!IceSound BY DEF IceInv
<1>2. IceInv /\ [ParticipationRunNext]_participationVars => IceInv' BY RunIceStep
<1>3. QED BY <1>1, <1>2, IceStarts, PTL DEF ParticipationRunSpec

\* A commit makes what a preview of that template showed that operator as new,
\* and each slot lasts a game in real time (commit_ice_availability).
THEOREM RunBuiltAsShown == ParticipationRunSpec => BuiltAsShown
<1> DEFINE Made == \A o \in IceOperators, t \in Templates : RinkIce!BuiltAsShown(o, t)
<1>1. IceInv => Made
  <2> SUFFICES ASSUME IceInv, NEW o \in IceOperators, NEW t \in Templates,
                      RinkIce!CommitIceAvailability(o, t)
               PROVE  LET new == DOMAIN ice' \ DOMAIN ice IN
                      /\ \E preview \in shown[o] : preview.review.template = t /\ preview.new = new
                      /\ \A s \in new : s.to = s.from + t.playable
    BY DEF RinkIce!BuiltAsShown
  <2>1. QED BY CommitIce
<1>2. IceInv /\ [ParticipationRunNext]_participationVars => IceInv' /\ [Made]_participationVars
  BY <1>1, RunIceStep
<1> HIDE DEF Made
<1>3. ParticipationRunSpec => [][Made]_participationVars BY <1>2, IceStarts, PTL DEF ParticipationRunSpec
<1>4. QED BY <1>3 DEF Made, BuiltAsShown


-----------------------------------------------------------------------------
(* The numbers that sheets and single calls give                           *)

\* The tables an import began from, and the number a row then leaves its player with.
Bound(p) == kind = "registration" \/ before.active[p]
HeldBefore(p) == before.team[p] # Nowhere /\ before.number[p] # Nowhere /\ Bound(p)
Wanted(row) == IF row.number # Nowhere THEN row.number ELSE before.number[row.player]
Claimed(row) == Wanted(row) # Nowhere /\ (before.team[row.player] = Nowhere \/ Bound(row.player))

\* The plan, as it was when the rows began to be applied.
PlanHeld(rows) == \A i \in DOMAIN rows : Claimed(rows[i]) =>
  /\ \A j \in DOMAIN rows \ {i} : Claimed(rows[j]) =>
       ~(rows[i].team = rows[j].team /\ Wanted(rows[i]) = Wanted(rows[j]))
  /\ \A q \in Skaters \ PlayerNumbers!InSheet(rows) : HeldBefore(q) =>
       ~(rows[i].team = before.team[q] /\ Wanted(rows[i]) = before.number[q])

\* A row that has been applied, and one still to come: its player is where the
\* transaction found them, with their number or without one that must move.
Applied(row) == team[row.player] = row.team /\ number[row.player] = Wanted(row)
Waiting(row) ==
  LET p == row.player IN
  /\ team[p] = before.team[p]
  /\ p \in DOMAIN import.released => number[p] = Nowhere /\ import.released[p] = before.number[p]
  /\ p \notin DOMAIN import.released =>
       /\ number[p] = before.number[p]
       /\ HeldBefore(p) => before.team[p] = row.team /\ before.number[p] = Wanted(row)

\* Between two rows of an import.
Applying(rows) ==
  /\ rows \in PlayerSheets
  /\ active = before.active
  /\ \A q \in Skaters \ PlayerNumbers!InSheet(rows) : team[q] = before.team[q] /\ number[q] = before.number[q]
  /\ \A i \in DOMAIN rows : IF i < import.at THEN Applied(rows[i]) ELSE Waiting(rows[i])
  /\ import.path # "teams" => PlanHeld(rows)

NumbersInv ==
  /\ kind \in {"jersey", "registration"}
  /\ team = [p \in Skaters |-> team[p]] /\ active = [p \in Skaters |-> active[p]]
  /\ number = [p \in Skaters |-> number[p]]
  /\ before.team = [p \in Skaters |-> before.team[p]]
  /\ before.active = [p \in Skaters |-> before.active[p]]
  /\ before.number = [p \in Skaters |-> before.number[p]]
  /\ import = [stage |-> import.stage, path |-> import.path, rows |-> import.rows,
               at |-> import.at, released |-> import.released]
  /\ import.at \in Nat \ {0}
  /\ import.stage = "checked" => import.rows \in PlayerSheets /\ import.path = "teams"
  /\ import.stage = "applying" => Applying(import.rows)
  /\ PlayerNumbers!NumbersUnique /\ PlayerNumbers!PlansLand
  /\ \A p, q \in Skaters : p # q /\ HeldBefore(p) /\ HeldBefore(q) /\ before.team[p] = before.team[q]
                           => before.number[p] # before.number[q]


LEMMA NumbersStarts == ParticipationRunInit => NumbersInv
<1> SUFFICES ASSUME ParticipationRunInit PROVE NumbersInv OBVIOUS
<1>1. /\ team = [p \in Skaters |-> team[p]] /\ active = [p \in Skaters |-> active[p]]
      /\ number = [p \in Skaters |-> number[p]]
      /\ import = PlayerNumbers!NoImport /\ before = [team |-> team, active |-> active, number |-> number]
      /\ PlayerNumbers!NumbersUnique
  <2>1. CASE part = "numbers" BY <2>1 DEF ParticipationRunInit, MCNumbered
  <2>2. CASE PlayerNumbers!NumbersInit
    BY <2>2 DEF PlayerNumbers!NumbersInit, PlayerNumbers!NumbersUnique, PlayerNumbers!Holds
  <2>3. QED BY <2>1, <2>2 DEF ParticipationRunInit
<1>2. /\ import.stage = "none" /\ import.at = 1
      /\ import = [stage |-> import.stage, path |-> import.path, rows |-> import.rows,
                   at |-> import.at, released |-> import.released]
  BY <1>1 DEF PlayerNumbers!NoImport
<1>3. before.team = team /\ before.active = active /\ before.number = number BY <1>1
<1>4. \A p \in Skaters : HeldBefore(p) <=> PlayerNumbers!Holds(p)
  BY <1>3 DEF HeldBefore, Bound, PlayerNumbers!Holds, PlayerNumbers!Enforced
<1>5. kind \in {"jersey", "registration"} BY DEF ParticipationRunInit, MCNumbered
<1>6. QED
  BY <1>1, <1>2, <1>3, <1>4, <1>5 DEF NumbersInv, PlayerNumbers!NumbersUnique, PlayerNumbers!PlansLand

\* What a call must show that is not one of the rows being applied.
LEMMA NumbersKept ==
  ASSUME NumbersInv,
         import'.stage # "applying", before' = before, kind' = kind,
         team' = [p \in Skaters |-> team'[p]], active' = [p \in Skaters |-> active'[p]],
         number' = [p \in Skaters |-> number'[p]],
         import' = [stage |-> import'.stage, path |-> import'.path, rows |-> import'.rows,
                    at |-> import'.at, released |-> import'.released],
         import'.at \in Nat \ {0},
         import'.stage = "checked" => import'.rows \in PlayerSheets /\ import'.path = "teams",
         PlayerNumbers!NumbersUnique', PlayerNumbers!PlansLand'
  PROVE  NumbersInv'
BY DEF NumbersInv, HeldBefore, Bound

\* A player gets a team and a number, or comes back: nobody else is concerned.
LEMMA OneMoved ==
  ASSUME PlayerNumbers!NumbersUnique, NEW p \in Skaters, kind' = kind,
         \A q \in Skaters \ {p} : team'[q] = team[q] /\ number'[q] = number[q] /\ active'[q] = active[q],
         PlayerNumbers!Holds(p)' => PlayerNumbers!Available(p, team'[p], number'[p])
  PROVE  PlayerNumbers!NumbersUnique'
<1>1. \A q \in Skaters \ {p} : PlayerNumbers!Holds(q)' <=> PlayerNumbers!Holds(q)
  BY DEF PlayerNumbers!Holds, PlayerNumbers!Enforced
<1>2. QED BY <1>1 DEF PlayerNumbers!NumbersUnique, PlayerNumbers!Available

LEMMA NumbersSingle ==
  ASSUME NumbersInv, PlayerNumbers!SingleCall
  PROVE  NumbersInv'
<1>1. /\ import.stage # "applying" /\ UNCHANGED <<kind, import, before>>
  BY DEF PlayerNumbers!SingleCall
<1>2. PICK p \in Skaters :
        \/ \E t \in Squads, n \in Jerseys \cup {Nowhere}, a \in BOOLEAN : PlayerNumbers!AddPlayer(p, t, n, a)
        \/ \E n \in Jerseys \cup {Nowhere} : PlayerNumbers!UpdatePlayer(p, n)
        \/ PlayerNumbers!SetPlayerActive(p)
        \/ \E t \in Squads : PlayerNumbers!AssignPlayerTeam(p, t)
  BY DEF PlayerNumbers!SingleCall
<1> DEFINE Shape == /\ team' = [q \in Skaters |-> team'[q]] /\ active' = [q \in Skaters |-> active'[q]]
                    /\ number' = [q \in Skaters |-> number'[q]]
                    /\ \A q \in Skaters \ {p} :
                         team'[q] = team[q] /\ number'[q] = number[q] /\ active'[q] = active[q]
                    /\ PlayerNumbers!Holds(p)' => PlayerNumbers!Available(p, team'[p], number'[p])
<1> USE DEF NumbersInv
<1>3. ASSUME NEW t, NEW n, NEW a \in BOOLEAN, PlayerNumbers!AddPlayer(p, t, n, a) PROVE Shape
  <2>1. team'[p] = t /\ number'[p] = n /\ active'[p] = a
    BY <1>3 DEF PlayerNumbers!AddPlayer
  <2>2. PlayerNumbers!Holds(p)' => PlayerNumbers!Available(p, t, n)
    BY <1>1, <1>3, <2>1 DEF PlayerNumbers!AddPlayer, PlayerNumbers!Holds, PlayerNumbers!Enforced
  <2>3. QED BY <1>3, <2>1, <2>2 DEF PlayerNumbers!AddPlayer
<1>4. ASSUME NEW n, PlayerNumbers!UpdatePlayer(p, n) PROVE Shape
  <2>1. team' = team /\ active' = active /\ number'[p] = n
    BY <1>4 DEF PlayerNumbers!UpdatePlayer
  <2>2. PlayerNumbers!Holds(p)' => PlayerNumbers!Available(p, team[p], n)
    BY <1>1, <1>4, <2>1 DEF PlayerNumbers!UpdatePlayer, PlayerNumbers!Holds, PlayerNumbers!Enforced
  <2>3. QED BY <1>4, <2>1, <2>2 DEF PlayerNumbers!UpdatePlayer
<1>5. ASSUME PlayerNumbers!SetPlayerActive(p) PROVE Shape
  <2>1. /\ team' = team /\ number' = number /\ (active'[p] <=> ~active[p])
        /\ \A q \in Skaters \ {p} : active'[q] = active[q]
        /\ active' = [q \in Skaters |-> active'[q]]
    BY <1>5 DEF PlayerNumbers!SetPlayerActive
  <2>2. PlayerNumbers!Holds(p)' => PlayerNumbers!Available(p, team[p], number[p])
    <3>1. CASE kind = "registration"
      <4>1. PlayerNumbers!Holds(p)' => PlayerNumbers!Holds(p)
        BY <2>1, <3>1 DEF PlayerNumbers!Holds, PlayerNumbers!Enforced
      <4>2. PlayerNumbers!Holds(p) => PlayerNumbers!Available(p, team[p], number[p])
        BY DEF PlayerNumbers!NumbersUnique, PlayerNumbers!Available
      <4>3. QED BY <4>1, <4>2
    <3>2. CASE kind # "registration" /\ active[p]
      BY <1>1, <2>1, <3>2 DEF PlayerNumbers!Holds, PlayerNumbers!Enforced
    <3>3. CASE kind # "registration" /\ ~active[p]
      <4>1. kind = "jersey" => PlayerNumbers!Available(p, team[p], number[p])
        BY <1>5, <3>3 DEF PlayerNumbers!SetPlayerActive, PlayerNumbers!Returns
      <4>2. kind \in {"jersey", "registration"} OBVIOUS
      <4>3. QED BY <4>1, <4>2, <3>3
    <3>4. QED BY <3>1, <3>2, <3>3
  <2>3. QED BY <2>1, <2>2
<1>6. ASSUME NEW t, PlayerNumbers!AssignPlayerTeam(p, t) PROVE Shape
  <2>1. number' = number /\ active' = active /\ team'[p] = t
    BY <1>6 DEF PlayerNumbers!AssignPlayerTeam
  <2>2. PlayerNumbers!Holds(p)' => PlayerNumbers!Available(p, t, number[p])
    BY <1>1, <1>6, <2>1 DEF PlayerNumbers!AssignPlayerTeam, PlayerNumbers!Holds, PlayerNumbers!Enforced
  <2>3. QED BY <1>6, <2>1, <2>2 DEF PlayerNumbers!AssignPlayerTeam
<1>7. Shape BY <1>2, <1>3, <1>4, <1>5, <1>6
<1>8. PlayerNumbers!NumbersUnique' BY <1>1, <1>7, OneMoved
<1>9. PlayerNumbers!PlansLand' BY <1>1 DEF PlayerNumbers!PlansLand
<1> HIDE DEF NumbersInv
<1>10. /\ import'.stage # "applying" /\ import'.at \in Nat \ {0}
       /\ import'.stage = "checked" => import'.rows \in PlayerSheets /\ import'.path = "teams"
       /\ import' = [stage |-> import'.stage, path |-> import'.path, rows |-> import'.rows,
                     at |-> import'.at, released |-> import'.released]
  BY <1>1 DEF NumbersInv
<1>11. QED BY <1>1, <1>7, <1>8, <1>9, <1>10, NumbersKept


LEMMA SheetRows ==
  ASSUME NEW rows \in PlayerSheets
  PROVE  /\ Len(rows) \in Nat /\ DOMAIN rows = 1..Len(rows)
         /\ \A i \in DOMAIN rows : rows[i].player \in Skaters
         /\ \A i \in DOMAIN rows : rows[i].player \in PlayerNumbers!InSheet(rows)
         /\ \A p \in PlayerNumbers!InSheet(rows) : \E i \in DOMAIN rows : rows[i].player = p
         /\ \A i, j \in DOMAIN rows : rows[i].player = rows[j].player => i = j
<1> DEFINE Cells == [player : Skaters, team : Squads, number : Jerseys \cup {Nowhere}]
<1>1. rows \in Seq(Cells) BY UploadsAssumption
<1> HIDE DEF Cells
<1>2. Len(rows) \in Nat /\ DOMAIN rows = 1..Len(rows) /\ \A i \in 1..Len(rows) : rows[i] \in Cells
  BY <1>1
<1>3. \A i \in DOMAIN rows : rows[i].player \in Skaters BY <1>2 DEF Cells
<1>4. QED BY <1>2, <1>3, UploadsAssumption DEF PlayerNumbers!InSheet

\* An import opens its transaction: the numbers that move are set aside.
LEMMA NumbersBegin ==
  ASSUME NumbersInv, NEW rows \in PlayerSheets, NEW path, PlayerNumbers!Begin(path, rows),
         path # "teams" => PlayerNumbers!PlanHolds(rows)
  PROVE  NumbersInv'
<1> DEFINE moving == PlayerNumbers!Moving(rows)
<1>1. /\ before' = [team |-> team, active |-> active, number |-> number]
      /\ number' = [p \in Skaters |-> IF p \in moving THEN Nowhere ELSE number[p]]
      /\ import' = [stage |-> "applying", path |-> path, rows |-> rows, at |-> 1,
                    released |-> [p \in moving |-> number[p]]]
      /\ UNCHANGED <<kind, team, active>>
  BY DEF PlayerNumbers!Begin
<1>2. moving \subseteq Skaters \cap PlayerNumbers!InSheet(rows)
  BY SheetRows DEF PlayerNumbers!Moving
<1>3. \A p \in Skaters : HeldBefore(p)' <=> PlayerNumbers!Holds(p)
  BY <1>1 DEF HeldBefore, Bound, PlayerNumbers!Holds, PlayerNumbers!Enforced
<1>4. \A i \in DOMAIN rows : Wanted(rows[i])' = PlayerNumbers!Effective(rows[i])
  BY <1>1 DEF Wanted, PlayerNumbers!Effective
<1>5. \A i \in DOMAIN rows : rows[i].player \notin moving /\ PlayerNumbers!Holds(rows[i].player) =>
        team[rows[i].player] = rows[i].team /\ number[rows[i].player] = PlayerNumbers!Effective(rows[i])
  <2> SUFFICES ASSUME NEW i \in DOMAIN rows, rows[i].player \notin moving,
                      PlayerNumbers!Holds(rows[i].player)
               PROVE  /\ team[rows[i].player] = rows[i].team
                      /\ number[rows[i].player] = PlayerNumbers!Effective(rows[i])
    OBVIOUS
  <2>1. rows[i].player \in PlayerNumbers!InSheet(rows) BY SheetRows
  <2>2. ~(<<team[rows[i].player], number[rows[i].player]>> # <<rows[i].team, PlayerNumbers!Effective(rows[i])>>)
    BY <2>1 DEF PlayerNumbers!Moving
  <2>3. QED BY <2>2
<1>6. \A i \in DOMAIN rows : Waiting(rows[i])'
  <2> SUFFICES ASSUME NEW i \in DOMAIN rows PROVE Waiting(rows[i])' OBVIOUS
  <2> DEFINE p == rows[i].player
  <2>1. p \in Skaters BY SheetRows
  <2>2. /\ team'[p] = before'.team[p] /\ before'.number[p] = number[p] /\ before'.team[p] = team[p]
        /\ DOMAIN import'.released = moving
        /\ p \in moving => number'[p] = Nowhere /\ import'.released[p] = number[p]
        /\ p \notin moving => number'[p] = number[p]
    BY <1>1, <2>1
  <2>3. p \notin moving /\ HeldBefore(p)' => team[p] = rows[i].team /\ number[p] = Wanted(rows[i])'
    BY <1>3, <1>4, <1>5, <2>1
  <2> HIDE DEF moving
  <2>4. QED BY <2>2, <2>3 DEF Waiting
<1>7. path # "teams" => PlanHeld(rows)'
  <2> SUFFICES ASSUME PlayerNumbers!PlanHolds(rows) PROVE PlanHeld(rows)' OBVIOUS
  <2>1. \A i \in DOMAIN rows : Claimed(rows[i])' <=> PlayerNumbers!Claims(rows[i])
    BY <1>1, <1>4 DEF Claimed, Bound, PlayerNumbers!Claims, PlayerNumbers!Enforced
  <2>2. \A q \in Skaters : before'.team[q] = team[q] /\ before'.number[q] = number[q] BY <1>1
  <2> SUFFICES ASSUME NEW i \in DOMAIN rows, Claimed(rows[i])'
               PROVE  /\ \A j \in DOMAIN rows \ {i} : Claimed(rows[j])' =>
                           ~(rows[i].team = rows[j].team /\ Wanted(rows[i])' = Wanted(rows[j])')
                      /\ \A q \in Skaters \ PlayerNumbers!InSheet(rows) : HeldBefore(q)' =>
                           ~(rows[i].team = before'.team[q] /\ Wanted(rows[i])' = before'.number[q])
    BY DEF PlanHeld, PlayerNumbers!InSheet
  <2>3. /\ \A j \in DOMAIN rows \ {i} : PlayerNumbers!Claims(rows[j]) =>
             <<rows[i].team, PlayerNumbers!Effective(rows[i])>> # <<rows[j].team, PlayerNumbers!Effective(rows[j])>>
        /\ \A q \in Skaters \ PlayerNumbers!InSheet(rows) : PlayerNumbers!Holds(q) =>
             <<rows[i].team, PlayerNumbers!Effective(rows[i])>> # <<team[q], number[q]>>
    BY <2>1 DEF PlayerNumbers!PlanHolds
  <2>4. QED BY <1>3, <1>4, <2>1, <2>2, <2>3
<1>8. Applying(rows)'
  <2>1. \A q \in Skaters \ PlayerNumbers!InSheet(rows) :
          team'[q] = before'.team[q] /\ number'[q] = before'.number[q]
    BY <1>1, <1>2
  <2>2. active' = before'.active /\ import'.at = 1 /\ import'.path = path BY <1>1
  <2>3. \A i \in DOMAIN rows : ~(i < import'.at) BY <2>2, SheetRows
  <2> HIDE DEF moving
  <2>4. QED BY <1>6, <1>7, <2>1, <2>2, <2>3 DEF Applying, PlayerNumbers!InSheet
<1>9. PlayerNumbers!NumbersUnique'
  <2>1. \A p \in Skaters : PlayerNumbers!Holds(p)' => PlayerNumbers!Holds(p) /\ number'[p] = number[p]
    BY <1>1 DEF PlayerNumbers!Holds, PlayerNumbers!Enforced
  <2>2. QED BY <1>1, <2>1 DEF NumbersInv, PlayerNumbers!NumbersUnique
<1>10. \A p, q \in Skaters : p # q /\ HeldBefore(p)' /\ HeldBefore(q)' /\ before'.team[p] = before'.team[q]
                             => before'.number[p] # before'.number[q]
  BY <1>1, <1>3 DEF NumbersInv, PlayerNumbers!NumbersUnique
<1>11. /\ import' = [stage |-> import'.stage, path |-> import'.path, rows |-> import'.rows,
                     at |-> import'.at, released |-> import'.released]
       /\ import'.stage = "applying" /\ import'.rows = rows /\ import'.at = 1
  BY <1>1
<1>12. /\ before'.team = [p \in Skaters |-> before'.team[p]]
       /\ before'.active = [p \in Skaters |-> before'.active[p]]
       /\ before'.number = [p \in Skaters |-> before'.number[p]]
       /\ team' = [p \in Skaters |-> team'[p]] /\ active' = [p \in Skaters |-> active'[p]]
       /\ number' = [p \in Skaters |-> number'[p]] /\ kind' \in {"jersey", "registration"}
  BY <1>1 DEF NumbersInv
<1> HIDE DEF moving
<1>13. Applying(import.rows)' BY <1>8, <1>11
<1>14. PlayerNumbers!PlansLand' BY <1>11 DEF PlayerNumbers!PlansLand
<1>15. QED BY <1>9, <1>10, <1>11, <1>12, <1>13, <1>14 DEF NumbersInv


LEMMA NumbersCheck ==
  ASSUME NumbersInv, NEW rows \in PlayerSheets, PlayerNumbers!CheckTeamsImport(rows)
  PROVE  NumbersInv'
<1>1. /\ UNCHANGED <<kind, team, active, number, before>>
      /\ import' = [stage |-> "checked", path |-> "teams", rows |-> rows, at |-> 1, released |-> <<>>]
  BY DEF PlayerNumbers!CheckTeamsImport, PlayerNumbers!NoImport, PlayerNumbers!playerTable
<1>2. PlayerNumbers!PlansLand' BY <1>1 DEF PlayerNumbers!PlansLand
<1>3. PlayerNumbers!NumbersUnique'
  BY <1>1 DEF NumbersInv, PlayerNumbers!NumbersUnique, PlayerNumbers!Holds, PlayerNumbers!Enforced
<1>4. /\ team' = [p \in Skaters |-> team'[p]] /\ active' = [p \in Skaters |-> active'[p]]
      /\ number' = [p \in Skaters |-> number'[p]]
  BY <1>1 DEF NumbersInv
<1>5. QED BY <1>1, <1>2, <1>3, <1>4, NumbersKept

\* What a row being applied will be written with.
LEMMA RowTarget ==
  ASSUME NumbersInv, import.stage = "applying", NEW i \in DOMAIN import.rows, ~(i < import.at)
  PROVE  /\ Waiting(import.rows[i])
         /\ PlayerNumbers!Target(import.rows[i]) = Wanted(import.rows[i])
<1> DEFINE row == import.rows[i]
<1>1. Waiting(row) BY DEF NumbersInv, Applying
<1> HIDE DEF row
<1>2. PlayerNumbers!Target(row) = Wanted(row)
  BY <1>1 DEF PlayerNumbers!Target, PlayerNumbers!Effective, Wanted, Waiting
<1>3. QED BY <1>1, <1>2 DEF row

LEMMA NumbersApply ==
  ASSUME NumbersInv, PlayerNumbers!ApplyRow
  PROVE  NumbersInv'
<1> SUFFICES ASSUME NEW rows, rows = import.rows, NEW at, at = import.at,
                    NEW row, row = rows[at], NEW p, p = row.player
             PROVE  NumbersInv'
  OBVIOUS
<1>1. /\ import.stage = "applying" /\ at <= Len(rows) /\ PlayerNumbers!RowFits(row)
      /\ team' = [team EXCEPT ![p] = row.team]
      /\ number' = [number EXCEPT ![p] = PlayerNumbers!Target(row)]
      /\ import' = [import EXCEPT !.at = at + 1]
      /\ UNCHANGED <<kind, active, before>>
  BY DEF PlayerNumbers!ApplyRow
<1>2. rows \in PlayerSheets /\ Applying(rows) /\ at \in Nat \ {0} BY <1>1 DEF NumbersInv, Applying
<1>3. at \in DOMAIN rows /\ p \in Skaters /\ p \in PlayerNumbers!InSheet(rows) BY <1>1, <1>2, SheetRows
<1>4. /\ Waiting(row) /\ PlayerNumbers!Target(row) = Wanted(row)
  BY <1>1, <1>2, <1>3, RowTarget
<1>5. /\ team' = [q \in Skaters |-> team'[q]] /\ number' = [q \in Skaters |-> number'[q]]
      /\ team'[p] = row.team /\ number'[p] = Wanted(row)
      /\ \A q \in Skaters \ {p} : team'[q] = team[q] /\ number'[q] = number[q]
  BY <1>1, <1>3, <1>4 DEF NumbersInv
<1>6. /\ import'.stage = "applying" /\ import'.path = import.path /\ import'.rows = rows
      /\ import'.at = at + 1 /\ import'.released = import.released
      /\ import' = [stage |-> import'.stage, path |-> import'.path, rows |-> import'.rows,
                    at |-> import'.at, released |-> import'.released]
  BY <1>1 DEF NumbersInv
<1>7. PlayerNumbers!NumbersUnique'
  <2>1. PlayerNumbers!Holds(p)' => PlayerNumbers!Available(p, team'[p], number'[p])
    BY <1>1, <1>4, <1>5
    DEF PlayerNumbers!Holds, PlayerNumbers!RowFits, PlayerNumbers!Enforced
  <2>2. QED BY <1>1, <1>3, <1>5, <2>1, OneMoved DEF NumbersInv
<1>8. \A x : Wanted(x)' = Wanted(x) BY <1>1 DEF Wanted
<1>9. \A j \in DOMAIN rows : IF j < at + 1 THEN Applied(rows[j])' ELSE Waiting(rows[j])'
  <2> SUFFICES ASSUME NEW j \in DOMAIN rows
               PROVE  IF j < at + 1 THEN Applied(rows[j])' ELSE Waiting(rows[j])'
    OBVIOUS
  <2>1. j \in Nat /\ rows[j].player \in Skaters BY <1>2, SheetRows
  <2>2. CASE j = at
    <3>1. Applied(row)' BY <1>5, <1>8 DEF Applied
    <3>2. QED BY <1>2, <2>2, <3>1
  <2>3. CASE j # at
    <3>1. rows[j].player # p BY <1>2, <1>3, <2>3, SheetRows
    <3>2. team'[rows[j].player] = team[rows[j].player] /\ number'[rows[j].player] = number[rows[j].player]
      BY <1>5, <2>1, <3>1
    <3>3. Applied(rows[j]) => Applied(rows[j])' BY <1>8, <3>2 DEF Applied
    <3>4. Waiting(rows[j]) => Waiting(rows[j])'
      BY <1>1, <1>6, <1>8, <3>2 DEF Waiting, HeldBefore, Bound
    <3>5. IF j < at THEN Applied(rows[j]) ELSE Waiting(rows[j]) BY <1>2 DEF Applying
    <3>6. QED BY <1>2, <2>1, <2>3, <3>3, <3>4, <3>5
  <2>4. QED BY <2>2, <2>3
<1>10. Applying(rows)'
  <2>1. \A q \in Skaters \ PlayerNumbers!InSheet(rows) :
          team'[q] = before'.team[q] /\ number'[q] = before'.number[q]
    BY <1>1, <1>2, <1>3, <1>5 DEF Applying
  <2>2. active' = before'.active BY <1>1, <1>2 DEF Applying
  <2>3. PlanHeld(rows) => PlanHeld(rows)'
    BY <1>1, <1>8 DEF PlanHeld, Claimed, HeldBefore, Bound, PlayerNumbers!InSheet
  <2>4. import'.path # "teams" => PlanHeld(rows)' BY <1>2, <1>6, <2>3 DEF Applying
  <2>5. QED BY <1>2, <1>6, <1>9, <2>1, <2>2, <2>4 DEF Applying, PlayerNumbers!InSheet
<1>11. Applying(import.rows)' BY <1>6, <1>10
<1>12. PlayerNumbers!PlansLand' BY <1>6 DEF PlayerNumbers!PlansLand
<1>13. import'.at \in Nat \ {0} BY <1>2, <1>6
<1>14. QED
  BY <1>1, <1>5, <1>6, <1>7, <1>11, <1>12, <1>13 DEF NumbersInv, HeldBefore, Bound

\* A plan that held leaves every row its number: nobody who already stands where
\* the sheet puts them, was applied before, or is not in it, has it.
LEMMA PlannedFits ==
  ASSUME NumbersInv, import.stage = "applying", import.path # "teams", import.at <= Len(import.rows)
  PROVE  PlayerNumbers!RowFits(import.rows[import.at])
<1> DEFINE rows == import.rows
           at == import.at
           row == rows[at]
           p == row.player
<1>1. rows \in PlayerSheets /\ Applying(rows) /\ at \in Nat \ {0} BY DEF NumbersInv, Applying
<1>2. at \in DOMAIN rows /\ p \in Skaters BY <1>1, SheetRows
<1>3. Waiting(row) /\ PlayerNumbers!Target(row) = Wanted(row) BY <1>1, <1>2, RowTarget
<1>4. PlanHeld(rows) BY <1>1 DEF Applying
<1>5. \A q \in Skaters : PlayerNumbers!Enforced(q) <=> Bound(q)
  BY <1>1 DEF Applying, PlayerNumbers!Enforced, Bound
<1>6. /\ \A q \in Skaters \ PlayerNumbers!InSheet(rows) : team[q] = before.team[q] /\ number[q] = before.number[q]
      /\ \A j \in DOMAIN rows : IF j < at THEN Applied(rows[j]) ELSE Waiting(rows[j])
  BY <1>1 DEF Applying
<1> HIDE DEF rows, at, row, p
<1> SUFFICES ASSUME team[p] = Nowhere \/ PlayerNumbers!Enforced(p),
                    NEW q \in Skaters \ {p}, PlayerNumbers!Holds(q),
                    team[q] = row.team, number[q] = Wanted(row)
             PROVE  FALSE
  BY <1>3 DEF PlayerNumbers!RowFits, PlayerNumbers!Available, rows, at, row, p
<1>7. /\ team[q] # Nowhere /\ number[q] # Nowhere /\ Bound(q) BY <1>5 DEF PlayerNumbers!Holds
<1>8. Claimed(row) BY <1>2, <1>3, <1>5, <1>7 DEF Claimed, Waiting, p
<1>9. /\ \A j \in DOMAIN rows \ {at} : Claimed(rows[j]) =>
           ~(row.team = rows[j].team /\ Wanted(row) = Wanted(rows[j]))
      /\ \A x \in Skaters \ PlayerNumbers!InSheet(rows) : HeldBefore(x) =>
           ~(row.team = before.team[x] /\ Wanted(row) = before.number[x])
  BY <1>2, <1>4, <1>8 DEF PlanHeld, row
<1>10. CASE q \notin PlayerNumbers!InSheet(rows) BY <1>6, <1>7, <1>9, <1>10 DEF HeldBefore
<1>11. CASE q \in PlayerNumbers!InSheet(rows)
  <2>1. PICK j \in DOMAIN rows : rows[j].player = q BY <1>1, <1>11, SheetRows
  <2>2. j # at BY <2>1 DEF row, p
  <2>3. CASE Applied(rows[j])
    <3>1. team[q] = rows[j].team /\ number[q] = Wanted(rows[j]) BY <2>1, <2>3 DEF Applied
    <3>2. Claimed(rows[j]) BY <1>7, <2>1, <3>1 DEF Claimed
    <3>3. QED BY <1>9, <2>2, <3>1, <3>2
  <2>4. CASE Waiting(rows[j])
    <3>1. team[q] = before.team[q] /\ number[q] = before.number[q] /\ q \notin DOMAIN import.released
      BY <1>7, <2>1, <2>4 DEF Waiting
    <3>2. HeldBefore(q) BY <1>7, <3>1 DEF HeldBefore
    <3>3. before.team[q] = rows[j].team /\ before.number[q] = Wanted(rows[j])
      BY <2>1, <2>4, <3>1, <3>2 DEF Waiting
    <3>4. Claimed(rows[j]) BY <1>7, <2>1, <3>1, <3>3 DEF Claimed
    <3>5. QED BY <1>9, <2>2, <3>1, <3>3, <3>4
  <2>5. QED BY <1>6, <2>3, <2>4
<1>12. QED BY <1>10, <1>11

LEMMA NumbersEnd ==
  ASSUME NumbersInv, PlayerNumbers!RefuseRow \/ PlayerNumbers!Land
  PROVE  NumbersInv'
<1>1. CASE PlayerNumbers!RefuseRow
  <2>1. /\ import.stage = "applying" /\ import.at <= Len(import.rows)
        /\ ~PlayerNumbers!RowFits(import.rows[import.at])
        /\ team' = before.team /\ active' = before.active /\ number' = before.number
        /\ import' = [import EXCEPT !.stage = "refused"] /\ UNCHANGED <<kind, before>>
    BY <1>1 DEF PlayerNumbers!RefuseRow
  <2>2. import.path = "teams" BY <2>1, PlannedFits
  <2>3. /\ import'.stage = "refused" /\ import'.path = import.path /\ import'.at = import.at
        /\ import' = [stage |-> import'.stage, path |-> import'.path, rows |-> import'.rows,
                      at |-> import'.at, released |-> import'.released]
    BY <2>1 DEF NumbersInv
  <2>4. \A q \in Skaters : PlayerNumbers!Holds(q)' <=> HeldBefore(q)
    BY <2>1 DEF PlayerNumbers!Holds, PlayerNumbers!Enforced, HeldBefore, Bound
  <2>5. PlayerNumbers!NumbersUnique' BY <2>1, <2>4 DEF NumbersInv, PlayerNumbers!NumbersUnique
  <2>6. PlayerNumbers!PlansLand' BY <2>2, <2>3 DEF PlayerNumbers!PlansLand
  <2>7. /\ team' = [p \in Skaters |-> team'[p]] /\ active' = [p \in Skaters |-> active'[p]]
        /\ number' = [p \in Skaters |-> number'[p]] /\ import'.at \in Nat \ {0}
    BY <2>1, <2>3 DEF NumbersInv
  <2>8. QED BY <2>1, <2>3, <2>5, <2>6, <2>7, NumbersKept
<1>2. CASE PlayerNumbers!Land
  <2>1. /\ import' = [import EXCEPT !.stage = "landed"]
        /\ UNCHANGED <<kind, team, active, number, before>>
    BY <1>2 DEF PlayerNumbers!Land, PlayerNumbers!playerTable
  <2>2. /\ import'.stage = "landed" /\ import'.at = import.at
        /\ import' = [stage |-> import'.stage, path |-> import'.path, rows |-> import'.rows,
                      at |-> import'.at, released |-> import'.released]
    BY <2>1 DEF NumbersInv
  <2>3. PlayerNumbers!NumbersUnique'
    BY <2>1 DEF NumbersInv, PlayerNumbers!NumbersUnique, PlayerNumbers!Holds, PlayerNumbers!Enforced
  <2>4. PlayerNumbers!PlansLand' BY <2>2 DEF PlayerNumbers!PlansLand
  <2>5. /\ team' = [p \in Skaters |-> team'[p]] /\ active' = [p \in Skaters |-> active'[p]]
        /\ number' = [p \in Skaters |-> number'[p]] /\ import'.at \in Nat \ {0}
    BY <2>1, <2>2 DEF NumbersInv
  <2>6. QED BY <2>1, <2>2, <2>3, <2>4, <2>5, NumbersKept
<1>3. QED BY <1>1, <1>2


LEMMA NumbersImply == NumbersInv => PlayerNumbers!NumbersSound
<1> SUFFICES ASSUME NumbersInv, import.stage = "applying", import.at > Len(import.rows),
                    NEW i \in DOMAIN import.rows
             PROVE  /\ team[import.rows[i].player] = import.rows[i].team
                    /\ number[import.rows[i].player] =
                         IF import.rows[i].number = Nowhere THEN before.number[import.rows[i].player]
                                                            ELSE import.rows[i].number
  BY DEF NumbersInv, PlayerNumbers!NumbersSound, PlayerNumbers!BlanksKept
<1>1. import.rows \in PlayerSheets /\ import.at \in Nat /\ Applying(import.rows) BY DEF NumbersInv, Applying
<1>2. i < import.at BY <1>1, SheetRows
<1>3. Applied(import.rows[i]) BY <1>1, <1>2 DEF Applying
<1>4. QED BY <1>3 DEF Applied, Wanted

LEMMA NumbersStep ==
  ASSUME NumbersInv, PlayerNumbers!NumbersNext
  PROVE  NumbersInv'
<1>1. CASE PlayerNumbers!SingleCall BY <1>1, NumbersSingle
<1>2. ASSUME NEW rows \in PlayerSheets, PlayerNumbers!CommitHierarchyImport(rows) PROVE NumbersInv'
  <2>1. PlayerNumbers!PlanHolds(rows) /\ PlayerNumbers!Begin("hierarchy", rows)
    BY <1>2 DEF PlayerNumbers!CommitHierarchyImport
  <2>2. QED BY <2>1, NumbersBegin
<1>3. ASSUME NEW rows \in PlayerSheets, PlayerNumbers!CheckTeamsImport(rows) PROVE NumbersInv'
  BY <1>3, NumbersCheck
<1>4. CASE PlayerNumbers!CommitTeamsImport
  <2>1. import.rows \in PlayerSheets /\ PlayerNumbers!Begin("teams", import.rows)
    BY <1>4 DEF PlayerNumbers!CommitTeamsImport, NumbersInv
  <2> SUFFICES ASSUME NEW rows \in PlayerSheets, PlayerNumbers!Begin("teams", rows)
               PROVE  NumbersInv'
    BY <2>1
  <2>2. QED BY NumbersBegin
<1>5. CASE PlayerNumbers!ApplyRow BY <1>5, NumbersApply
<1>6. CASE PlayerNumbers!RefuseRow \/ PlayerNumbers!Land BY <1>6, NumbersEnd
<1>7. QED BY <1>1, <1>2, <1>3, <1>4, <1>5, <1>6 DEF PlayerNumbers!NumbersNext

LEMMA RunNumbersStep ==
  ASSUME NumbersInv, [ParticipationRunNext]_participationVars
  PROVE  NumbersInv'
<1>1. CASE UNCHANGED numberVars
  <2>1. UNCHANGED <<kind, team, active, number, import, before>> BY <1>1 DEF numberVars
  <2>2. \A p : (HeldBefore(p)' <=> HeldBefore(p)) /\ (Bound(p)' <=> Bound(p)) BY <2>1 DEF HeldBefore, Bound
  <2>3. \A row : Wanted(row)' = Wanted(row) BY <2>1 DEF Wanted
  <2>4. \A row : (Claimed(row)' <=> Claimed(row)) /\ (Applied(row)' <=> Applied(row))
    BY <2>1, <2>2, <2>3 DEF Claimed, Applied
  <2>5. \A row : Waiting(row)' <=> Waiting(row) BY <2>1, <2>2, <2>3 DEF Waiting
  <2>6. \A rows : PlanHeld(rows) => PlanHeld(rows)'
    BY <2>1, <2>2, <2>3, <2>4 DEF PlanHeld, PlayerNumbers!InSheet
  <2>7. Applying(import.rows) => Applying(import.rows)'
    <3>1. ASSUME NEW rows, Applying(rows) PROVE Applying(rows)'
      BY <2>1, <2>4, <2>5, <2>6, <3>1 DEF Applying, PlayerNumbers!InSheet
    <3>2. QED BY <2>1, <3>1
  <2>8. (PlayerNumbers!NumbersUnique /\ PlayerNumbers!PlansLand)'
    BY <2>1 DEF NumbersInv, PlayerNumbers!NumbersUnique, PlayerNumbers!Holds, PlayerNumbers!Enforced,
                PlayerNumbers!PlansLand
  <2>9. QED BY <2>1, <2>2, <2>7, <2>8 DEF NumbersInv
<1>2. CASE PlayerNumbers!NumbersNext BY <1>2, NumbersStep
<1>3. QED BY <1>1, <1>2 DEF ParticipationRunNext, participationVars

\* Numbers stay unique between any two rows of an import; a plan that the
\* hierarchy import found without a clash is applied without one, in any order of
\* its rows; a blank cell keeps the number its player had; and ice is as above:
\* for any players, teams, numbers and sheets, clocks and templates
\* (hierarchy_import.py, import_validator.py, services/setup_service.py).
THEOREM RunSheetsSound == ParticipationRunSpec => []SheetsSound
<1>1. NumbersInv /\ IceInv => SheetsSound BY NumbersImply DEF SheetsSound, IceInv
<1>2. NumbersInv /\ [ParticipationRunNext]_participationVars => NumbersInv' BY RunNumbersStep
<1>3. IceInv /\ [ParticipationRunNext]_participationVars => IceInv' BY RunIceStep
<1>4. QED BY <1>1, <1>2, <1>3, NumbersStarts, IceStarts, PTL DEF ParticipationRunSpec
================================================================================
