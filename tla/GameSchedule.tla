----------------------------- MODULE GameSchedule ------------------------------
(***************************************************************************)
(* The writers of the schedule as transactions on PostgreSQL:              *)
(* services/setup_service.py, services/league_scoped_setup_service.py,     *)
(* RosterService.cancel_game and the draft batches of api/service.py.      *)
(*                                                                         *)
(* Two kinds of transaction meet.  move, cancel, publish and the           *)
(* identity-less create run READ COMMITTED and lean on row locks taken in  *)
(* the order Program, Team, Rink, Season: they plan from an unlocked read, *)
(* lock, and decide again.  The signed-in create, the draft commit, the    *)
(* draft batches and the guarded delete run SERIALIZABLE: every read is of *)
(* the snapshot taken at their first statement, so what they decide is     *)
(* fixed there (a refusal, which writes nothing, is left out), and they    *)
(* are aborted when a row they lock or write was changed since.  Every     *)
(* setup audit entry draws its id from one row of the table counters.      *)
(*                                                                         *)
(* SQLite and the in-memory store run these one at a time: Calendar.       *)
(*                                                                         *)
(* A definition named X_... is a seeded mistake in X (see ContextGate).    *)
(***************************************************************************)
EXTENDS Calendar, FiniteSets

CONSTANTS
  Servers,  \* processes: within one, store._lock admits one transaction
  MaxCalls  \* bound: calls made, of any kind

\* Ids are numbers, in the order the rows of one kind are locked in.
ASSUME IdsAssumption ==
  /\ IsFiniteSet(Servers)
  /\ Games \cup Seasons \subseteq Nat
  /\ RinkOf \in [Slots -> Nat] /\ ProgramOf \in [Seasons -> Nat]
  /\ TeamsOf \in [Games -> SUBSET Nat]

VARIABLES
  txn,      \* server -> the transaction it runs
  calls     \* calls made so far

vars == <<tables, txn, calls>>

\* A row is <<kind, id>>; kinds continue those of Calendar, in lock order.
Game == 5
IceSlot == 6
AuditCounter == <<7, 0>>

Identified == {"create", "commit", "publishDrafts", "discard", "delete"}
Creating == {"create", "commit", "seed"}

Idle == [op |-> "idle", games |-> {}, slot |-> NoSlot,
         step |-> "begun",   \* begun, ordered (every lock planned), writing
         todo |-> {},        \* rows still to lock
         held |-> {},        \* rows locked
         rinks |-> {},       \* rinks the placement locked
         plan |-> {},        \* seasons of _policy_scope_lock_plan
         found |-> Absent("none"),  \* the game's row as last read
         changed |-> {}]     \* rows others committed since the snapshot

The(s) == CHOOSE g \in txn[s].games : TRUE
At(s, step) == txn[s].step = step /\ txn[s].todo = {}

-----------------------------------------------------------------------------
(* Locks.                                                                  *)

Rows(kind, ids) == {<<kind, i>> : i \in ids}
Precedes(q, r) == q[1] < r[1] \/ (q[1] = r[1] /\ q[2] <= r[2])
NextRow(rows) == CHOOSE r \in rows : \A q \in rows : Precedes(r, q)
Free(r) == \A s \in Servers : r \notin txn[s].held
Stale(s, rows) == txn[s].op \in Identified /\ rows \cap txn[s].changed # {}

\* _policy_scope_lock_plan
Plan(rinks, season) ==
  {season} \cup {SeasonOf[h] : h \in {h \in Slotted : RinkOf[game[h].slot] \in rinks}}
Programs(plan) == Rows(Program, {ProgramOf[z] : z \in plan})
RinksOf(slots) == {RinkOf[s] : s \in slots \cap Slots}
\* _verify_policy_scope_plan
PlanHolds_Unchecked(s, g) == TRUE
PlanHolds(s, g) ==
  \A h \in Slotted \ {g} :
    LET t == game[h].slot
    IN  t # txn[s].slot /\ RinkOf[t] \in txn[s].rinks => SeasonOf[h] \in txn[s].plan

Called == calls < MaxCalls /\ calls' = calls + 1

Begin(s, request) ==
  /\ Called
  /\ txn' = [txn EXCEPT ![s] = request]
  /\ UNCHANGED tables

Lock(s) ==
  LET r == NextRow(txn[s].todo) IN
  /\ txn[s].todo # {}
  /\ Free(r) /\ ~Stale(s, {r})
  /\ txn' = [txn EXCEPT ![s] = [txn[s] EXCEPT !.todo = @ \ {r}, !.held = @ \cup {r}]]
  /\ UNCHANGED <<tables, calls>>

\* A refusal, a raced plan, a serialization failure, a deadlock's victim, a
\* lost connection: everything is rolled back.
Abort(s) ==
  /\ txn[s] # Idle
  /\ txn' = [txn EXCEPT ![s] = Idle]
  /\ UNCHANGED <<tables, calls>>

\* Commit: the rows written become changes to everybody else's snapshot.
Changes(rows) == [t \in Servers |->
  IF txn[t].op \in Identified THEN [txn[t] EXCEPT !.changed = @ \cup rows] ELSE txn[t]]
End(s, rows) ==
  /\ ~Stale(s, rows)
  /\ txn' = [Changes(rows) EXCEPT ![s] = Idle]
  /\ UNCHANGED calls
Audited(rows) == rows \cup {AuditCounter}

-----------------------------------------------------------------------------
(* Placing a game.                                                         *)

\* next_id names a game that no other request has.
Unclaimed(g) == game[g].life = "none" /\ \A s \in Servers : g \notin txn[s].games

PlacementLocks(g, rinks, plan) ==
  Programs(plan) \cup Rows(Team, TeamsOf[g]) \cup Rows(Rink, rinks) \cup Rows(Season, plan)
Placement(op, g, t, rinks) ==
  LET plan == Plan(rinks, SeasonOf[g])
  IN  [Idle EXCEPT !.op = op, !.games = {g}, !.slot = t, !.step = "ordered",
         !.rinks = rinks, !.plan = plan, !.todo = PlacementLocks(g, rinks, plan)]

\* The guarded create locks the Season it names, then what create_game locks.
BeginCreate(s, g, t) ==
  /\ Unclaimed(g) /\ Writable(g) /\ Fits(g, t)
  /\ Begin(s, [Placement("create", g, t, {RinkOf[t]}) EXCEPT
                 !.step = "begun", !.todo = {<<Season, SeasonOf[g]>>}])
LockPlacement(s) ==
  LET T == txn[s] IN
  /\ T.op = "create" /\ At(s, "begun")
  /\ txn' = [txn EXCEPT ![s] = [@ EXCEPT !.step = "ordered",
               !.todo = PlacementLocks(The(s), T.rinks, T.plan) \ T.held]]
  /\ UNCHANGED <<tables, calls>>

\* A proposal of one row; its slot_ids name every slot.
BeginDraftCommit(s, g, t) ==
  /\ Unclaimed(g) /\ Writable(g) /\ Fits(g, t)
  /\ Begin(s, Placement("commit", g, t, RinksOf(Slots)))

BeginSeed(s, g, t) == Unclaimed(g) /\ Begin(s, Placement("seed", g, t, {RinkOf[t]}))
DecideSeed(s) ==
  LET g == The(s) IN
  /\ txn[s].op = "seed" /\ At(s, "ordered")
  /\ Writable(g) /\ PlanHolds(s, g) /\ Fits(g, txn[s].slot)
  /\ txn' = [txn EXCEPT ![s].step = "writing"]
  /\ UNCHANGED <<tables, calls>>

\* ux_games_active_ice_slot refuses a second active game on a slot.
CommitPlacement(s) ==
  LET g == The(s)
      t == txn[s].slot
  IN
  /\ txn[s].op \in Creating /\ At(s, IF txn[s].op = "seed" THEN "writing" ELSE "ordered")
  /\ \A h \in Slotted : game[h].slot # t
  /\ PlaceRow(g, t, txn[s].op = "commit")
  /\ End(s, Audited({<<IceSlot, t>>}))

-----------------------------------------------------------------------------
(* Moving, cancelling and publishing one game, READ COMMITTED.             *)

\* move_game: Programs and Teams from the locator, the rest from a re-read.
BeginMove(s, g, t) ==
  LET plan == Plan(RinksOf({t, game[g].slot}), SeasonOf[g]) IN
  /\ Exists(g)
  /\ Begin(s, [Idle EXCEPT !.op = "move", !.games = {g}, !.slot = t, !.plan = plan,
                 !.found = game[g], !.todo = Programs(plan) \cup Rows(Team, TeamsOf[g])])
RelocateMove(s) ==
  LET g == The(s)
      rinks == RinksOf({txn[s].slot, game[g].slot})
  IN
  /\ txn[s].op = "move" /\ At(s, "begun")
  /\ Exists(g)
  /\ txn' = [txn EXCEPT ![s] = [@ EXCEPT !.step = "ordered", !.found = game[g],
               !.rinks = rinks, !.todo = Rows(Rink, rinks) \cup Rows(Season, txn[s].plan)]]
  /\ UNCHANGED <<tables, calls>>

BeginCancel(s, g) ==
  /\ Exists(g)
  /\ Begin(s, [Idle EXCEPT !.op = "cancel", !.games = {g}, !.found = game[g],
                 !.todo = Programs({SeasonOf[g]}) \cup Rows(Team, TeamsOf[g])])
RelocateCancel(s) ==
  LET g == The(s) IN
  /\ txn[s].op = "cancel" /\ At(s, "begun")
  /\ Exists(g) /\ game[g].slot = txn[s].found.slot
  /\ txn' = [txn EXCEPT ![s] = [@ EXCEPT !.step = "ordered",
               !.todo = Rows(Rink, RinksOf({game[g].slot})) \cup {<<Season, SeasonOf[g]>>}]]
  /\ UNCHANGED <<tables, calls>>

BeginPublish(s, g, op) ==
  /\ Exists(g)
  /\ Begin(s, [Idle EXCEPT !.op = op, !.games = {g}, !.found = game[g],
                 !.step = "ordered", !.todo = {<<Season, SeasonOf[g]>>}])

\* Under the Season lock the row is read again and saved whole.
Reread(s) ==
  /\ At(s, "ordered") /\ Exists(The(s)) /\ Writable(The(s))
  /\ txn' = [txn EXCEPT ![s] = [@ EXCEPT !.step = "writing", !.found = game[The(s)],
                                         !.todo = {<<Game, The(s)>>}]]
  /\ UNCHANGED <<tables, calls>>
DecideMove(s) ==
  LET g == The(s) IN
  /\ txn[s].op = "move"
  /\ RinksOf({txn[s].slot, game[g].slot}) = txn[s].rinks
  /\ PlanHolds(s, g)
  /\ game[g].life = "live" /\ Fits(g, txn[s].slot)
  /\ Reread(s)
DecideCancel(s) ==
  /\ txn[s].op = "cancel"
  /\ game[The(s)].life = "live" /\ game[The(s)].slot = txn[s].found.slot
  /\ Reread(s)
\* A cancelled game has no slot its Season could use; pulling it back is free.
DecidePublish(s) ==
  /\ txn[s].op \in {"publish", "unpublish"}
  /\ txn[s].op = "publish" => game[The(s)].life = "live"
  /\ Reread(s)

CommitMove(s) ==
  LET g == The(s)
      row == txn[s].found
      t == txn[s].slot
  IN
  /\ txn[s].op = "move" /\ At(s, "writing")
  /\ \A h \in Slotted \ {g} : game[h].slot # t
  /\ MoveRow(g, row, t)
  /\ End(s, Audited({<<Game, g>>, <<IceSlot, row.slot>>, <<IceSlot, t>>}))
\* cancel_game is audited by the roster, whose ids have a counter of their own.
CommitCancel(s) ==
  LET row == txn[s].found IN
  /\ txn[s].op = "cancel" /\ At(s, "writing")
  /\ CancelRow(The(s), row)
  /\ End(s, {<<Game, The(s)>>, <<IceSlot, row.slot>>})
CommitPublish(s) ==
  /\ txn[s].op \in {"publish", "unpublish"} /\ At(s, "writing")
  /\ PublishRow(The(s), txn[s].found, txn[s].op = "publish")
  /\ End(s, Audited({<<Game, The(s)>>}))

-----------------------------------------------------------------------------
(* Draft batches and the guarded delete.                                   *)

\* _locked_draft_targets: drafts of the caller's Season, its row before theirs.
BeginBatch_GamesFirst(s, z, P, op) ==
  /\ z \notin archived /\ P # {}
  /\ op = "publishDrafts" => \A g \in P : game[g].life = "live"
  /\ Begin(s, [Idle EXCEPT !.op = op, !.games = P, !.todo = Rows(Game, P)])
BeginBatch(s, z, P, op) ==
  /\ z \notin archived /\ P # {}
  /\ op = "publishDrafts" => \A g \in P : game[g].life = "live"
  /\ Begin(s, [Idle EXCEPT !.op = op, !.games = P, !.step = "ordered",
                 !.todo = {<<Season, z>>} \cup Rows(Game, P)])

\* The route locks the game it names; delete_game then locks its Season.
BeginDelete(s, g) ==
  /\ game[g].life = "live" /\ game[g].draft /\ ~game[g].published /\ Writable(g)
  /\ Begin(s, [Idle EXCEPT !.op = "delete", !.games = {g}, !.todo = {<<Game, g>>}])
LockSeason(s) ==
  /\ txn[s].op \in {"delete", "discard", "publishDrafts"} /\ At(s, "begun")
  /\ txn' = [txn EXCEPT ![s] = [@ EXCEPT !.step = "ordered",
               !.todo = Rows(Season, {SeasonOf[g] : g \in txn[s].games})]]
  /\ UNCHANGED <<tables, calls>>

Written(P) == Audited(Rows(Game, P) \cup Rows(IceSlot, Ice(P)))
CommitPublishDrafts(s) ==
  LET P == txn[s].games IN
  /\ txn[s].op = "publishDrafts" /\ At(s, "ordered")
  /\ End(s, Written(P))
  /\ PublishRows(P)
CommitRemoval(s) ==
  LET P == txn[s].games IN
  /\ txn[s].op \in {"discard", "delete"} /\ At(s, "ordered")
  /\ End(s, Written(P))
  /\ RemoveRows(P)

-----------------------------------------------------------------------------
(* Policies and the Season's lifecycle: one lock, held from the first      *)
(* statement to the commit, so one step.                                   *)

SetPolicy(scope, value) ==
  /\ Free(scope)
  /\ Called /\ SetPolicyRow(scope, value)
  /\ txn' = Changes({AuditCounter})
Archive(z) ==
  /\ Free(<<Season, z>>)
  /\ Called /\ ArchiveRow(z)
  /\ txn' = Changes(Audited({<<Season, z>>}))
Reopen(z) ==
  /\ Free(<<Season, z>>)
  /\ Called /\ ReopenRow(z)
  /\ txn' = Changes(Audited({<<Season, z>>}))

ScheduleInit == Init /\ txn = [s \in Servers |-> Idle] /\ calls = 0

\* store._lock: one transaction of a process at a time.
Start(s) ==
  /\ txn[s] = Idle /\ calls < MaxCalls
  /\ \/ \E g \in Games, t \in Slots :
          BeginCreate(s, g, t) \/ BeginDraftCommit(s, g, t) \/ BeginSeed(s, g, t) \/ BeginMove(s, g, t)
     \/ \E g \in Games : BeginCancel(s, g) \/ BeginDelete(s, g)
     \/ \E g \in Games, op \in {"publish", "unpublish"} : BeginPublish(s, g, op)
     \/ \E z \in Seasons, op \in {"publishDrafts", "discard"} :
          \E P \in SUBSET {g \in Drafts : SeasonOf[g] = z} : BeginBatch(s, z, P, op)
Continue(s) ==
  \/ Lock(s) \/ LockPlacement(s) \/ LockSeason(s) \/ RelocateMove(s) \/ RelocateCancel(s)
  \/ DecideSeed(s) \/ DecideMove(s) \/ DecideCancel(s) \/ DecidePublish(s)
Finish(s) ==
  \/ CommitPlacement(s) \/ CommitMove(s) \/ CommitCancel(s) \/ CommitPublish(s)
  \/ CommitPublishDrafts(s) \/ CommitRemoval(s) \/ Abort(s)
ScheduleNext ==
  \/ \E s \in Servers : Start(s) \/ Continue(s) \/ Finish(s)
  \/ \E r \in PolicyScopes, v \in {"inherit", "none", "buffer"} : SetPolicy(r, v)
  \/ \E z \in Seasons : Archive(z) \/ Reopen(z)

ScheduleSpec == ScheduleInit /\ [][ScheduleNext]_vars

-----------------------------------------------------------------------------
(* A transaction between calls is Idle; one that holds locks has a request.*)
ScheduleTypeOK ==
  /\ TypeOK
  /\ \A s \in Servers :
       /\ txn[s].op \in Identified \cup {"idle", "seed", "move", "cancel", "publish", "unpublish"}
       /\ txn[s].games \subseteq Games /\ txn[s].slot \in Slots \cup {NoSlot}
       /\ txn[s].found \in Row /\ txn[s].plan \subseteq Seasons
       /\ txn[s].todo \cap txn[s].held = {}
       /\ txn[s].op = "idle" <=> txn[s] = Idle

(* Whatever the interleaving, each commit changes the tables as one call   *)
(* alone could have at that moment: no decision of an unlocked read, an    *)
(* earlier snapshot or an older row survives to the write.                 *)
OneAtATime == Spec

(* s waits for a row o holds. *)
AwaitsRowOf(s, o) ==
  txn[s].todo # {} /\ ~Stale(s, {NextRow(txn[s].todo)}) /\ NextRow(txn[s].todo) \in txn[o].held
WaitCycle(C) == C # {} /\ \A s \in C : \E o \in C : s # o /\ AwaitsRowOf(s, o)

(* _lock_programs ... _lock_seasons, cancel_game and the draft batches     *)
(* take their rows in one global order: a cycle of waits always has a call *)
(* in it that went through the guarded create or delete.                   *)
OnlyGuardedCallsDeadlock ==
  \A C \in SUBSET Servers :
    WaitCycle(C) => \E s \in C : txn[s].op \in {"create", "delete"}

(* Ice is allocated exactly where a game stands, no two games clash, and   *)
(* two processes block each other only through the guarded calls.          *)
ScheduleSound ==
  /\ ScheduleTypeOK
  /\ IceMatchesGames
  /\ NoClash
  /\ OnlyGuardedCallsDeadlock

(* api/service.py, discard_draft_games: never touches published games.     *)
PublishedNotDiscarded ==
  [][\A g \in Games, s \in Servers :
       game[g].published /\ txn[s].op = "discard" => game'[g].life # "deleted"]_vars
================================================================================
