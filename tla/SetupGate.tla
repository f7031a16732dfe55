------------------------------ MODULE SetupGate ------------------------------
(***************************************************************************)
(* api/service.py: which setup records an operator may change.  A change   *)
(* is asked for from a page; the server refuses it early if the records it *)
(* names are not in the operator's selection, and decides again, with the  *)
(* records locked, in the transaction that makes the change.  Between the  *)
(* two the operator may switch in another tab and other operators may link *)
(* or remove the records.                                                  *)
(*                                                                         *)
(* A record reaches a program through its links, and every link is one     *)
(* (program, season, league) triple, an edge.                              *)
(***************************************************************************)
EXTENDS WorkingContext

CONSTANTS
  KindOf,       \* the other setup records: record -> kind
  Up,           \* record -> the record its foreign key names, or NoRecord
  Creator       \* record -> the account its creation is audited to

\* Where each kind of record hangs.
ASSUME SetupAssumption ==
  LET kind(r) == IF r \in DOMAIN KindOf THEN KindOf[r] ELSE "none" IN
  /\ NoRecord \notin DOMAIN KindOf /\ DOMAIN KindOf \cap (Programs \cup Seasons \cup Leagues \cup Teams \cup Games) = {}
  /\ \A r \in DOMAIN KindOf :
       /\ KindOf[r] = "player" => Up[r] \in Teams
       /\ KindOf[r] = "official" => Up[r] = NoRecord \/ kind(Up[r]) = "club"
       /\ KindOf[r] = "venue" => Up[r] = NoRecord \/ kind(Up[r]) = "organization"
       /\ KindOf[r] = "rink" => kind(Up[r]) = "venue"
       /\ KindOf[r] = "ice_slot" => kind(Up[r]) = "rink"
       /\ KindOf[r] = "division" => Up[r] \in Leagues \X Seasons /\ ProgramOf[Up[r][1]] = ProgramOf[Up[r][2]]
       /\ KindOf[r] \in {"club", "player", "official", "venue", "rink", "ice_slot", "organization", "division"}
  /\ \A t \in Teams : Up[t] = NoRecord \/ kind(Up[t]) = "club"
  /\ \A p \in Programs : Up[p] = NoRecord \/ kind(Up[p]) = "organization"

VARIABLES
  grants,       \* SeasonVenueAccess rows, active or revoked: <<venue, season>>
  asked,        \* operator -> the change past the early check, or Idle
  made          \* the change the last step made: [by, change], or Idle

gateVars == <<worldVars, saved, grants, asked, made>>

Idle == [op |-> "none"]
Operators == {u \in Users : Global(u)}
OfKind(kind) == {r \in DOMAIN KindOf : KindOf[r] = kind}

-----------------------------------------------------------------------------
(* The edges of a record.                                                  *)

TeamEdges(t) == {Tuple(ProgramOf[teamLeague[t]], NoRecord, teamLeague[t])}

BindingEdges(b) == {Tuple(ProgramOf[b[2]], b[2], b[1])}

\* Every parent a game names constrains it; parents that disagree leave it
\* linked to nothing anyone can select.
GameConstraints(g) ==
  {Tuple(ProgramOf[s], s, NoRecord) : s \in {GameOf[g].season} \ {NoRecord}}
  \cup {Tuple(ProgramOf[l], NoRecord, l) : l \in {GameOf[g].league} \ {NoRecord}}
GameEdges(g) ==
  IF Cardinality({c.program : c \in GameConstraints(g)}) = 1
  THEN {Tuple(ProgramOf[GameOf[g].season], GameOf[g].season, GameOf[g].league)} ELSE {}

ClubTeams(c) == {t \in Teams : c # NoRecord /\ Up[t] = c}
ClubEdges(c) == UNION {TeamEdges(t) : t \in ClubTeams(c)}
OfficialEdges(o) == ClubEdges(Up[o]) \cup UNION {GameEdges(g) : g \in OfficialGames(o)}
VenueEdges(v) == {Tuple(ProgramOf[s], s, NoRecord) : s \in {x \in Seasons : <<v, x>> \in grants}}
OrganizationEdges(o) ==
  {Tuple(p, NoRecord, NoRecord) : p \in {x \in LivePrograms : Up[x] = o}}
  \cup UNION {VenueEdges(v) : v \in {x \in OfKind("venue") : Up[x] = o}}

Edges(kind, r) ==
  CASE kind = "program"      -> {Tuple(r, NoRecord, NoRecord)}
    [] kind = "season"       -> {Tuple(ProgramOf[r], r, NoRecord)}
    [] kind = "league"       -> {Tuple(ProgramOf[r], NoRecord, r)}
    [] kind = "league_season" -> BindingEdges(r)
    [] kind = "division"     -> BindingEdges(Up[r])
    [] kind = "team"         -> TeamEdges(r)
    [] kind = "player"       -> TeamEdges(Up[r])
    [] kind = "game"         -> GameEdges(r)
    [] kind = "club"         -> ClubEdges(r)
    [] kind = "official"     -> OfficialEdges(r)
    [] kind = "venue"        -> VenueEdges(r)
    [] kind = "rink"         -> VenueEdges(Up[r])
    [] kind = "ice_slot"     -> VenueEdges(Up[Up[r]])
    [] kind = "organization" -> OrganizationEdges(r)

Exists(kind, r) ==
  CASE kind \in {"program", "season", "league"} -> r \in live
    [] kind = "league_season" -> r \in bindings
    [] OTHER -> TRUE


\* An edge of a season asks for that season; one of a league for that league,
\* if any is selected.
EdgeAllows(edge, t) ==
  /\ edge.program = t.program
  /\ edge.season # NoRecord => edge.season = t.season
  /\ (edge.league # NoRecord /\ t.league # NoRecord) => edge.league = t.league

-----------------------------------------------------------------------------
(* The decision.                                                           *)

GateTuple_Resolved(u) == Resolve(u)

\* The saved selection; what a read would fall back to only without one.
GateTuple(u) ==
  LET chosen == SavedSelection(u) IN IF chosen.program # NoRecord THEN chosen ELSE Resolve(u)

Target(kind, id, rule) == [kind |-> kind, id |-> id, rule |-> rule]

\* An unlinked record is its creator's.
Accessible(u, kind, r) ==
  LET edges == Edges(kind, r)  chosen == GateTuple(u) IN
  /\ Exists(kind, r)
  /\ IF edges # {} THEN \E e \in edges : EdgeAllows(e, chosen) ELSE Creator[r] = u

\* A venue that any program plays in may be granted to one more.
Grantable(u, v) == VenueEdges(v) # {} \/ Creator[v] = u

Allowed(u, t) ==
  /\ GateTuple(u).program # NoRecord
  /\ CASE t.rule = "grantable" -> Grantable(u, t.id)
       [] t.rule = "active_program_league" -> t.id \in live /\ ProgramOf[t.id] = GateTuple(u).program
       [] t.rule = "active_season" -> GateTuple(u).season = t.id
       [] OTHER -> Accessible(u, t.kind, t.id)

\* The setup page's own account of the same records, top down from what a read
\* resolves: the selected program's teams, the selected season's divisions and
\* venues, and what hangs on those.
ShownTeams(t) == {x \in Teams : ProgramOf[teamLeague[x]] = t.program /\ t.league \in {NoRecord, teamLeague[x]}}
ShownClubs(t) == {Up[x] : x \in ShownTeams(t)} \ {NoRecord}
ShownVenues(t) == {v \in OfKind("venue") : <<v, t.season>> \in grants}
ShownRinks(t) == {r \in OfKind("rink") : Up[r] \in ShownVenues(t)}
ShownGames(t) == {g \in Games : GameOf[g].season = t.season /\ (t.league = NoRecord \/ GameOf[g].league \in {NoRecord, t.league})}

Shown(u) ==
  LET t == Resolve(u) IN
  IF t.program = NoRecord THEN {} ELSE
  {d \in OfKind("division") : Up[d][2] = t.season /\ t.league \in {NoRecord, Up[d][1]}}
  \cup ShownClubs(t) \cup ShownVenues(t) \cup ShownRinks(t)
  \cup {i \in OfKind("ice_slot") : Up[i] \in ShownRinks(t)}
  \cup ({Up[v] : v \in ShownVenues(t)} \ {NoRecord}) \cup ({Up[t.program]} \ {NoRecord})
  \cup {o \in OfKind("official") : Up[o] \in ShownClubs(t) \/ OfficialGames(o) \cap ShownGames(t) # {}}

\* Besides, the records linked to nothing yet that the account created.
LinkedVenue(v) == \E s \in Seasons : <<v, s>> \in grants
PendingLink(u) ==
  {r \in DOMAIN KindOf :
     /\ Creator[r] = u
     /\ CASE KindOf[r] = "club"         -> ClubTeams(r) = {}
          [] KindOf[r] = "venue"        -> ~LinkedVenue(r)
          [] KindOf[r] = "rink"         -> ~LinkedVenue(Up[r])
          [] KindOf[r] = "ice_slot"     -> ~LinkedVenue(Up[Up[r]])
          [] KindOf[r] = "organization" -> /\ \A v \in OfKind("venue") : Up[v] = r => ~LinkedVenue(v)
                                           /\ \A p \in LivePrograms : Up[p] # r
          [] KindOf[r] = "official"     -> OfficialGames(r) = {} /\ ClubTeams(Up[r]) = {}
          [] OTHER -> FALSE}

SeasonOwned == {"season", "league_season", "division", "game"}

\* A record of a season asks for a program and a season chosen, any other for
\* a program: a fallback authorizes no change.
Chosen(u, kinds) ==
  LET chosen == SavedSelection(u) IN
  /\ chosen.program # NoRecord
  /\ kinds \cap SeasonOwned # {} => chosen.season # NoRecord

\* A create is judged by the axes its parents have; a parent without any asks
\* for no choice.
AxisFree(u, parent) == Edges(parent.kind, parent.id) = {} /\ Accessible(u, parent.kind, parent.id)
CreateAllowed(u, axes, parents) ==
  LET chosen == SavedSelection(u) IN
  IF chosen.program = NoRecord \/ ("season" \in axes /\ chosen.season = NoRecord)
  THEN \A t \in parents : AxisFree(u, t)
  ELSE \A t \in parents :
         LET edges == Edges(t.kind, t.id)
             programs == {e.program : e \in edges}
             seasons  == {e.season : e \in edges} \ {NoRecord} IN
         /\ programs # {} => chosen.program \in programs
         /\ ("season" \in axes /\ seasons # {}) => chosen.season \in seasons

Decide(u, c) ==
  IF c.op \in {"bind", "found"} THEN CreateAllowed(u, c.axes, c.targets)
  ELSE Chosen(u, {t.kind : t \in c.targets}) /\ \A t \in c.targets : Allowed(u, t)

-----------------------------------------------------------------------------
(* The changes.                                                            *)

Creation(op, targets, axes) == [op |-> op, targets |-> targets, axes |-> axes]
Change(op, targets) == Creation(op, targets, {})
Scoped(kind, r) == Target(kind, r, "scope")

Changes ==
  {Change("edit", {Scoped(KindOf[r], r)}) : r \in DOMAIN KindOf}
  \cup {Change("edit", {Scoped("game", g)}) : g \in Games}
  \cup {Change("delete", {Scoped("program", p)}) : p \in Programs}
  \cup {Change("delete", {Scoped("season", s)}) : s \in Seasons}
  \cup {Change("delete", {Scoped("league", l)}) : l \in Leagues}
  \cup {Change("unbind", {Scoped("league_season", b)}) : b \in Leagues \X Seasons}
  \cup {Change("transfer", {Scoped("team", t), Scoped("league", l)}) : t \in Teams, l \in Leagues}
  \cup {Change("grant", {Scoped("season", s), Target("venue", v, "grantable")}) : s \in Seasons, v \in OfKind("venue")}
  \cup {Change("team", {Target("league", l, "active_program_league")}) : l \in Leagues}
  \cup {Change("build", {Target("season", s, "active_season")}) : s \in Seasons}
  \cup {Creation("bind", {Scoped("league", l), Scoped("season", s)}, {"program", "season"}) : l \in Leagues, s \in Seasons}
  \cup {Creation("found", {Scoped("program", p)}, {"program"}) : p \in Programs}

Named(c, kind) == (CHOOSE t \in c.targets : t.kind = kind).id

\* What still refers to a record keeps it.
Referenced(r) ==
  \/ \E s \in (Seasons \cup Leagues) \cap live : ProgramOf[s] = r
  \/ \E b \in bindings : r \in {b[1], b[2]}
  \/ \E t \in Teams : teamLeague[t] = r
  \/ \E g \in Games : r \in {GameOf[g].season, GameOf[g].league}
  \/ \E x \in grants : x[2] = r
BindingUsed(b) ==
  \/ \E t \in Teams : <<t, b[1], b[2]>> \in registered
  \/ \E g \in Games : b = <<GameOf[g].league, GameOf[g].season>>
  \/ \E d \in OfKind("division") : Up[d] = b

\* The change itself, or FALSE where the domain refuses it.
Apply(c) ==
  \/ c.op \in {"edit", "team", "build", "found"} /\ UNCHANGED <<worldVars, grants>>
  \/ /\ c.op = "delete"
     /\ LET r == (CHOOSE t \in c.targets : TRUE).id IN
        ~Referenced(r) /\ live' = live \ {r} /\ archived' = archived \ {r}
     /\ UNCHANGED <<bindings, teamLeague, registered, assigned, grants>>
  \/ /\ c.op = "unbind" /\ ~BindingUsed(Named(c, "league_season"))
     /\ bindings' = bindings \ {Named(c, "league_season")}
     /\ UNCHANGED <<live, archived, teamLeague, registered, assigned, grants>>
  \/ /\ c.op = "bind"
     /\ {Named(c, "league"), Named(c, "season")} \subseteq live
     /\ ProgramOf[Named(c, "league")] = ProgramOf[Named(c, "season")]
     /\ Named(c, "season") \notin archived
     /\ bindings' = bindings \cup {<<Named(c, "league"), Named(c, "season")>>}
     /\ UNCHANGED <<live, archived, teamLeague, registered, assigned, grants>>
  \/ /\ c.op = "transfer"
     /\ ProgramOf[Named(c, "league")] = ProgramOf[teamLeague[Named(c, "team")]]
     /\ teamLeague' = [teamLeague EXCEPT ![Named(c, "team")] = Named(c, "league")]
     /\ UNCHANGED <<live, archived, bindings, registered, assigned, grants>>
  \/ /\ c.op = "grant" /\ Named(c, "season") \notin archived
     /\ grants' = grants \cup {<<Named(c, "venue"), Named(c, "season")>>}
     /\ UNCHANGED worldVars

-----------------------------------------------------------------------------

\* The early check of the request, without locks.
Ask(u, c) ==
  /\ asked[u] = Idle
  /\ Decide(u, c)
  /\ asked' = [asked EXCEPT ![u] = c] /\ made' = Idle
  /\ UNCHANGED <<worldVars, saved, grants>>

Done(u) == asked' = [asked EXCEPT ![u] = Idle]
Made(u) == made' = [by |-> u, change |-> asked[u]]

Commit_Undecided(u) == asked[u] # Idle /\ Apply(asked[u]) /\ Made(u) /\ Done(u) /\ UNCHANGED saved

\* The guarded attempt: the selection, the targets and the change in one
\* serializable transaction, the selection's row and the named rows locked.
Commit(u) ==
  /\ asked[u] # Idle /\ Decide(u, asked[u])
  /\ Apply(asked[u]) /\ Made(u)
  /\ Done(u) /\ UNCHANGED saved

\* Refused by the second decision or by the domain: rolled back.
Refused(u) ==
  /\ asked[u] # Idle
  /\ Done(u) /\ made' = Idle /\ UNCHANGED <<worldVars, saved, grants>>

\* What the rest of the program changes meanwhile.
ArchiveOrReopen(s) ==
  /\ s \in live
  /\ archived' = (IF s \in archived THEN archived \ {s} ELSE archived \cup {s})
  /\ UNCHANGED <<live, bindings, teamLeague, registered, assigned>>
RegisterOrNot(t, s) ==
  /\ <<teamLeague[t], s>> \in bindings /\ s \notin archived
  /\ LET r == <<t, teamLeague[t], s>> IN
     registered' = (IF r \in registered THEN registered \ {r} ELSE registered \cup {r})
  /\ UNCHANGED <<live, archived, bindings, teamLeague, assigned>>
AssignOrNot(o, g) ==
  /\ assigned' = (IF <<o, g>> \in assigned THEN assigned \ {<<o, g>>} ELSE assigned \cup {<<o, g>>})
  /\ UNCHANGED <<live, archived, bindings, teamLeague, registered>>

Meanwhile ==
  /\ \/ \E s \in Seasons : ArchiveOrReopen(s)
     \/ \E t \in Teams, s \in Seasons : RegisterOrNot(t, s)
     \/ \E o \in OfKind("official"), g \in Games : AssignOrNot(o, g)
  /\ made' = Idle /\ UNCHANGED <<saved, grants, asked>>

-----------------------------------------------------------------------------
(* Properties.                                                             *)

\* The change was its operator's to make: the operator's own row names a live
\* program, and the season for a record of a season; and every record the
\* change names is of that program and season, or shared with it, or tied to
\* none and created by the operator.
Own(u, t) ==
  LET row == saved[u]  edges == Edges(t.kind, t.id) IN
  \/ row.program \in {e.program : e \in edges} /\ (t.kind \in SeasonOwned => row.season \in {e.season : e \in edges})
  \/ edges = {} /\ Creator[t.id] = u
  \/ t.rule = "grantable"

\* What is changed was chosen, at the moment of the change, by the operator who
\* changes it, whatever was linked, removed, switched or closed since the page
\* was served: nothing of another program's, nothing a fallback picked, no
\* record of a season or a league that is not the selected one.
ChosenWrites ==
  [][made' # Idle =>
       LET u == made'.by  c == made'.change IN
       /\ c.op \in {"bind", "found"} \/ saved[u].program \in LivePrograms
       /\ \A t \in c.targets : Own(u, t) \/ (c.op = "found" /\ t.id \notin live)
       /\ \A t \in c.targets :
            (t.kind \in {"team", "player", "league_season", "division"} /\ t.rule = "scope"
              /\ saved[u].league \in LeaguesIn(u, saved[u].program, saved[u].season))
                => saved[u].league \in {e.league : e \in Edges(t.kind, t.id)}]_gateVars

\* The page and the gate agree: under a selection that still stands, an
\* operator may change exactly the records the setup page lists, those under
\* the selection and those the operator created and has not linked.
PageAndGateAgree ==
  \A u \in Operators :
    (Resolve(u).program # NoRecord /\ SavedSelection(u) = Resolve(u)) =>
      LET listed == Shown(u) \cup PendingLink(u) IN
      \A r \in DOMAIN KindOf \ OfKind("player") :
        (r \in listed) <=> Decide(u, Change("edit", {Target(KindOf[r], r, "scope")}))

\* A program an operator chose stays in reach: with its last season gone the
\* operator may still change it, and so can remove it.
ChosenStaysInReach ==
  \A u \in Operators :
    saved[u].program \in live => Decide(u, Change("delete", {Target("program", saved[u].program, "scope")}))
================================================================================
