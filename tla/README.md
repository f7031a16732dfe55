# A TLA+ verification of the hockey scheduler

The repository holds two programs.  The main one is the hockey scheduler
(`hockey-scheduler/backend/hockey_scheduler`): a threaded HTTP server, a facade, a dozen
domain services and a store with three backends (in-memory, SQLite, PostgreSQL), with a
single-page client.  The smaller one is a batch that transfers assets into an Oracle ledger
(`src/main/python/ofam_asset_xfer`).  This directory models the parts of both whose
correctness depends on the order in which several things happen.

Paths below are relative to `src/hockey-scheduler/backend/hockey_scheduler/` unless they
start with `src/`.

## 1. Inventory

For each part: the state it keeps, its operations, who it interacts with, what is hard, and
what makes it correct.

### Request ordering and scoped reads
* **Context gate** (`services/context_gate.py`).  State: an arrival counter, the registered
  reader and writer tickets, one condition variable.  Operations: `arrive`, `bind`, `exclusive`,
  `release`, a bounded wait.  Called by every scoped GET (`web/server.py` `do_GET`) and by every
  switch.  Hard: the order of notification and wait, expiry, a notice whose write raises.
  Correct when admission follows arrival, no wake-up is lost and no ticket outlives its request.
* **Scoped reads and the epoch fence** (`web/server.py` `_read_under_context_gate`,
  `services/epoch_fence.py`, `services/context_epoch.py`, the `epoch_fence_*` methods of the two
  stores, `ContextService._set_with_league_locked`).  State: the ActiveContext row with its
  generation, the effective Season's lifecycle, a version counter per fence key, advisory locks.
  Hard: replicas, lock timeouts, retries, three backends with three mechanisms.  Correct when a
  served read saw exactly the state its page was rendered from, and a discarded one never
  reached its service call.
* **Context selection** (`services/context_service.py`, `services/context_scope.py`).  Which
  Program, Season and League a user sees: saved row, role scope, fallback.  Pure reads of one
  snapshot, plus the write ScopedRead models.

### Rosters
* **Roster and substitutes** (`services/roster_service.py`).  State: per game and team side the
  roster entries with their status, the substitute requests, the offer records, the lineup lock.
  Operations: select, availability, back-out, enroll, withdraw, offer, accept, decline, add,
  lock, unlock, cancel.  Hard: two substitutes for one slot, an offer accepted after a lock or a
  cancellation, a player on two sides.  Correct when a slot is filled at most once, a locked
  roster does not change, and a status is derived from the entries it describes.
* **Substitute ranking** (`services/substitute_ranking.py`).  A pure ordering of candidates.

### Setup
* **Seasons, teams, memberships, games, ice** (`services/setup_service.py`,
  `services/season_guard.py`, `services/membership_spine.py`, `services/ice_availability.py`,
  `services/league_scope.py`, `services/game_side_scope.py`).  State: the setup hierarchy, ice
  slots, games with venue slot and publication state, official assignments, results.
  Operations: archive and reopen, copy forward (preview and commit), move and reschedule a game,
  publish, assign and respond and unassign officials, record and approve results, deletes with
  dependents.  Hard: check and commit around a row another transaction moves; previews that are
  stale when committed.  Correct when no archived Season is written, no slot holds two games, an
  official is not in two places, a delete leaves no orphan.
* **Imports** (`services/hierarchy_import.py`, `services/import_validator.py`).  Validation of
  spreadsheets, then one transaction.

### Scheduling
* **Draft scheduler** (`services/scheduler.py`).  Pure: round robin, home balance, residual
  completion, slot choice.  Correct when every pair meets as often as asked and no team plays
  itself or twice at once.
* **Scenarios** (`services/schedule_scenarios.py`, `services/schedule_explanations.py`).  Saved
  drafts, applied later to a Season that may have changed.

### People
* **Accounts, sessions, throttling** (`services/account_service.py`, `web/auth.py`,
  `web/rate_limit.py`, `services/guardian_service.py`).  State: accounts, sessions, per-key
  failure counters and in-flight reservations.  Hard: concurrent attempts against one counter;
  two bootstraps of the first administrator; a deactivated account with a live session.
* **Privacy and visibility** (`domain/privacy.py`, `services/lineup_visibility.py`,
  `services/visibility_policy.py`, `web/authz.py`, `web/scope.py`).  Pure decisions on one state.

### Messages
* **Delivery** (`services/delivery.py`, `services/email_transport.py`).  State: a queue of
  notification deliveries with attempts and next-attempt time.  Hard: a worker that stops between
  the send and the save, two workers, back-off and giving up.

### Destructive operations
* **Factory reset and subtree deletion** (`services/factory_reset_service.py`,
  `services/subtree_deletion_service.py`, `services/subtree_preview.py`).  State: one-time
  challenges, the previewed set.  Hard: a challenge used twice, data that changed between
  preview and execution, a step that fails half-way.

### Foundations
* **Stores** (`store/sql_store.py`, `store/memory_store.py`, `store/db_errors.py`,
  `store/integrity_checks.py`, `store/migrations`).  Transactions, row locks, migrations.
* **Facade, server, routes** (`api/service.py`, `web/server.py`, `web/route_registry.py`,
  `web/route_extract.py`).  Dispatch, authorization, error mapping.
* **Client** (`web/static/app.js`).  Rendering, and the cancellation of context-scoped reads.

### Asset transfer
* **Oracle transfer batch** (`src/src/main/python/ofam_asset_xfer`,
  `src/src/main/python/batch_entrypoint.py`).  State: a cached token, the event store, output
  files.  Hard: a token that expires in use, retries of a post already done, a merge that is
  interrupted.
* **Mass additions** (`src/src/main/python/ofam_mass_additions`), **tools**, **deployment**: I/O
  scripts and descriptors.

## 2. The modules

| module | models | checked by run |
| --- | --- | --- |
| `ContextGate` | `services/context_gate.py` | `gate`; `ContextGateProofs` |
| `ScopedRead` | a scoped GET, a switch and a lifecycle change, on three backends | `read`, `endings`; `EndingsProofs` |
| `GameRoster`, `GameViews` | `services/roster_service.py`, one game, and what its reads show | `roster_one`, `roster_two`; `GameRosterProofs` |
| `SubstituteRequests` | what a game promises about its substitute requests (abstract) | `roster_one` |
| `GameContexts` | which side of a game a player plays for, and the batches that fill a side | `people` |
| `SubstituteRanking` | `services/substitute_ranking.py` | `people` |
| `Calendar` | games, ice, policies and Seasons, every call atomic (abstract for `GameSchedule`) | `schedule`, `gameday`; `GameScheduleProofs` |
| `GameSchedule` | the same calls as transactions with row locks and snapshots | `schedule`, `schedule_discard`; `GameScheduleProofs` |
| `GameDay` | reschedule requests, officials and results, on `Calendar` | `gameday`; `GameScheduleProofs` |
| `Standings` | the tables of a league's season | `gameday`; `GameScheduleProofs` |
| `Accounts`, `AccountLocks` | logins and their subjects, atomic (abstract), and as transactions with sessions | `people`; `PeopleProofs` |
| `LoginThrottle` | `web/rate_limit.py` | `people`; `PeopleProofs` |
| `Delivery` | the queue of notifications and its workers | `endings`; `EndingsProofs` |
| `AssetTransfer` | the Oracle transfer batch | `endings`; `EndingsProofs` |
| `Migrations` | `migrate` of `store/sql_store.py` | `endings`; `EndingsProofs` |
| `Participation` | seasons, leagues, registrations, divisions, memberships | `season_setup`; `ParticipationProofs` |
| `CopyForward`, `SheetImport` | copying a season, the spreadsheet imports, on `Participation` | `season_setup`; `ParticipationProofs` |
| `SetupProgress` | the guidance of the setup page, on `Participation` | `season_setup` |
| `PlayerNumbers`, `RinkIce` | jerseys and registration numbers; the slots of the rinks | `season_setup`; `ParticipationProofs` |
| `WorkingContext`, `SetupGate` | the working context, and the gate of setup writes | `administration`; `DestructionProofs` |
| `SubtreeDeletion`, `FactoryReset` | the two destructive operations | `administration`; `DestructionProofs` |
| `Pairings`, `DraftPlan`, `DraftCommit` | who plays whom, what is proposed, what is committed | `drafts`; `DraftProofs` |
| `MC...` | small instances for TLC; `MCContext` is the part of `MCDestruction` that is about contexts | |

The runs `gate`, `read`, `roster_one` and `roster_two` check `ContextGate`, `ScopedRead` and
`GameViews` themselves, with no module in between; the symmetry they use is defined at the end
of the module.

A definition named `X_Something` is a seeded mistake in `X`.  No definition uses it; putting
it in the place of `X` makes a property fail, which is how each property is known to be able
to fail.

A property named `...Sound` is a conjunction of named parts; each part carries its own comment.
Where a run joins modules that share no state (`people`, `endings`, `gameday`, `season_setup`,
`administration`, `drafts`), a constant `part` is chosen in the first state and the behaviour
exercises that module only; the union of the parts is what is explored.

### 2.1 ContextGate

`seq`, `registered`, `ticketSeq`, `user_id`, `timed_out` are the gate's own fields; `pc` is
where a thread is and `notified` is the condition variable's wait queue: the threads a
`notify_all` has made runnable.  Every critical section under `self._cv` is one action, and
what runs between two critical sections separates them:

| action | code |
| --- | --- |
| `Arrive` | `arrive()`: a ticket for a request whose user is not known yet |
| `Bind`, `BindNoUser`, `Refuse` | `bind()`, with a user, with none, or never reached |
| `Register`, `RegisterNoUser` | `exclusive()` |
| `Recheck`, `Expire` | one turn of `wait_for`, and its last turn at the deadline |
| `Say`, `SayRaises` | the notice of an expired wait, which may itself fail |
| `Release`, `LeaveUngated` | the end of the `with` block |

Run `gate` has two readers and two writers over two operators.  Two of each are needed for
a reader between two writers and for a writer between two readers; the wait predicates only
compare a ticket with one other ticket, so a third of a kind adds no new relation, and the
theorems hold for any number.  The system stops when every request has finished, so deadlock
is not checked; a stuck request would be caught by `NoLostWakeup` (a part of `GateSound`) and `FocusUserAdmitted`.

*Fairness* (`OwnTrafficFairness`): a runnable thread runs, an arrived request resolves its
identity (a session lookup) and a notice is written or fails.  Of the service calls only the
focus operator's own are assumed to end, and no deadline is assumed to pass: so
`FocusUserAdmitted` says that an operator is never held up by another operator's slow call,
which is what the module comment of the gate promises, and not that a timeout saves him.

### 2.2 ScopedRead

A tab renders `GET /api/context` (`DeriveEpoch`, `ReadTuple`: two transactions), then issues
reads that echo the epoch.  A read passes the two gates (`Issue`, `EnterLifecycleGate`,
`EnterFences`), the two fences on PostgreSQL (`FenceUser`, `FenceGlobal`, `FenceRefused`) or
the file lock on SQLite (`OpenFile`, `FileBusy`), samples the version counters (`Sample`),
compares epochs (`Match`, `Mismatch`), runs its service call (`Resolve`, `ReadRows`) and
compares the counters again (`Resample`).  A switch or a lifecycle change registers in its
gate (`Register`, `WriterPasses`), opens a transaction under `store._lock` (`Begin`,
`OpenFileForWrite`), takes the exclusive fence (`FenceRow`, `FenceExclusive`), writes
(`Mutate`, `Commit`, `CommitInPlace`, `Abort`), retries (`Conflict`, `RegisterAgain`) and
answers (`AnswerSwitch`).  `backend`, chosen once from `Backends`, selects the mechanism, as
`store.backend` does.

Abstractions:
* A gate is the set of requests it makes one wait for, fixed at registration, and an expiry;
  that is `AdmittedInArrivalOrder` and `BlockersOnlyShrink` of ContextGate.  A read arrives
  with its identity, so it is never unbound here.
* An epoch is the pair of the row's generation and the Season's lifecycle.  Its hash is taken
  to be injective.  Each archive is a different lifecycle (it has its own `archived_at`).
* Archive and reopen stand for all the writers of the global key.
* The two counters are sampled in one step: each is compared only with itself.
* Which bounds expired is remembered for the in-memory store only, where properties ask for it.
* No replica stops in the middle of a request.
* A read is dirty (`dirtyReads`) when it read beside an uncommitted write of its own user or of
  the global key; other users' switches do not count.
* There are finitely many requests (`RequestsAssumption`): the counters count them.

| run | instance | question |
| --- | --- | --- |
| `read` | 1 read, 2 switches, 1 lifecycle change; one process on the in-memory store, two on a SQLite file, two replicas on PostgreSQL | can a read be torn, or answered for a selection the client has left: when the store writes in place and a bound has expired, when `BEGIN IMMEDIATE` is all there is across processes, when the fences are |
| `endings`, part `server` | PostgreSQL; 1 read, 1 switch, 1 lifecycle change | does every request end |

One read suffices: reads change nothing another read looks at except the shared fence, which
is a set of holders.  Two switches are needed for two generations from one snapshot, a switch
and a lifecycle change for the two keys.  `MaxAttempts` is 2 where the code has 10: the first attempt, one that is
retried, and a last one that fails are all there.  A tab is rendered again only while a read
may still be issued from it (`TabInUse`).  Runs stop when every request has ended, so deadlock
is not checked; `EveryRequestEnds` is the property that matters.

*Fairness*: every thread takes its next step if it stays possible.  That includes the timeout
steps, which the code guarantees with `wait_timeout`, `lock_timeout` and `busy_timeout`.

### 2.3 GameRoster

One published game of two teams, the rows of its players, their substitute requests, the
players' memberships and activity, the game's flags and the clock.  A handler takes the
Season row first and reads the game again under it, so a handler is one action, and what is
checked is the order of handlers.

| action | code |
| --- | --- |
| `Select`, `CopyPrevious`, `AutoBuild` | `select_roster`, `copy_previous_roster`, `auto_build_roster` |
| `Confirm`, `Reconfirm`, `BackOut`, `Remove` | `set_availability` from a row that holds its slot, from one that gave it up, `_back_out_entry`, `remove_player` |
| `Enroll`, `Withdraw`, `Offer` | `enroll_substitute`, `withdraw_substitute`, `offer_substitute` |
| `Accept`, `AcceptLate`, `Decline` | `accept_substitute` in time and late, `decline_substitute` |
| `Override`, `OverrideLate` | `add_substitute_to_roster` |
| `Look` | the page renders the choice it will send with the player's answer |
| `Lock`, `Unlock`, `CancelGame`, `Archive`, `Reopen` | the game's and the Season's own handlers |
| `Move`, `Deactivate`, `Reactivate`, `Tick` | membership status, `set_player_active`, the clock |

A caller is a coach (one of the two teams), league staff, or the player.

Abstractions:
* One slot bucket per side stands for goalies and skaters, which never compete.
* Auto-build's order is left open: any candidates that fill the room.
* `Upsets` bounds which of the game's own events occur in a run.
* A caller asks for an expiry of his own or for none (`asked`); the server's own for a
  cross-team offer is computed.
* A terminal membership status is refused and never replaced, so a stint is its team.
* The game is published, in a league season, and keeps its start.
* The names of the teams and of the kinds of caller are distinct, and players are finitely many
  (`NamesAssumption`, `BoundsAssumption`, `ViewersAssumption`).
* `set_roster_entry_status` is left out: no route reaches it.

`GameViews` computes what every audience is answered from those rows: the two lineups, the
roster, the substitutes, the status, the pickers and the player's page.  `ListedIsDoable` says
that what a page offers, the handler does, in every state.  `OtherSideHidesOnly` compares what
one side is answered with the answer had the other side's seats and requests not existed: the two
differ at most in one badge.  `_lineup_substitutes` keeps one row per player before the side is
looked at (`Standing`, then `OwnedSub`), so the badge of a settled request disappears from a
lineup when its player turns to the other side afterwards; a coach can tell that much.  The
property says exactly when, that no live request disappears, and that nothing is ever added, and
that no answer to an official depends on any request.  (The list of players a coach may add
depends on the other side by its purpose, and is excepted.)  Not modelled: the availability
summary, unbound games, `find_next_game`.

| run | instance | question |
| --- | --- | --- |
| `roster_one` | 1 player with a row that may be older than team attribution, 2 requests, clock to 3, start at 3, every upset but the lock | the whole life of one player's requests, what its pages offer, what a side is told of the other, and the refinement of SubstituteRequests |
| `roster_two` | 2 players, 1 request each, 1 slot per side, clock past the start, lock, cancel and archive | competition for one slot, coaches against the other side's rows, and what a closed game keeps |

The invariants of `roster_one` are about one player's rows, and no handler but cancelling
looks at another player's requests, so one player with two requests reaches every case; two
requests are needed for one settled and one live.  A badge is hidden from a side when its player,
having asked it, moves to a third team, asks the other side and moves back (or asks the first
side from the third team and then joins it), which takes both requests and the moves.  Nothing in
these rows or answers tells Home from Away, so both runs take the sides as symmetric, and the
players (`Symmetry`).  What two players' rows do to an answer is left to the theorem.  `Window` is
shorter than the time to the start, so an offer's end is once the window and once the start.  In `roster_one` clock values
before, at and after a deadline and at the start occur; in `roster_two` also after it.  A
cancelled game takes no change, so `roster_two` may stop; it has every flag a game can be
closed by, for `ClosedRosterFrozen`.

`SubstituteRequests` is the promise, without teams, coaches, slots or clocks: a player has one
open request, makes none once on the roster, a request ends once, a closed game ends none
except by cancelling, and accepting seats in the same step.  `PromiseKept` maps
`rostered` to the players with a row and `closed` to any flag being set.

### 2.4 Calendar and GameSchedule

A caller who creates, moves or cancels a game expects the call to have happened at one moment.
`Calendar` is that expectation: the tables (`game`, `allocated` for the slots that read
ALLOCATED, `policy`, `archived`), and for every call what it demands (`Writable`, `Fits`) and
what it leaves (`PlaceRow`, `MoveRow`, ...).  `GameSchedule` extends it with `txn`, the
transaction of each process, and splits each call at its statements: the unlocked read that
plans the locks, every row lock, the second look, the write and the commit.

| call | code | isolation | actions |
| --- | --- | --- | --- |
| create, signed in | `setup_guarded_create`, then `create_game` | SERIALIZABLE | `BeginCreate`, `LockPlacement`, `CommitPlacement` |
| create, without identity | `create_game` | READ COMMITTED | `BeginSeed`, `DecideSeed`, `CommitPlacement` |
| draft commit | `_commit_draft_schedule_attempt` | SERIALIZABLE | `BeginDraftCommit`, `CommitPlacement` |
| move | `move_game` | READ COMMITTED | `BeginMove`, `RelocateMove`, `DecideMove`, `CommitMove` |
| cancel | `cancel_game` | READ COMMITTED | `BeginCancel`, `RelocateCancel`, `DecideCancel`, `CommitCancel` |
| publish, unpublish | `publish_game` | READ COMMITTED | `BeginPublish`, `DecidePublish`, `CommitPublish` |
| publish or discard drafts | `publish_draft_games`, `discard_draft_games` | SERIALIZABLE | `BeginBatch`, `CommitPublishDrafts`, `CommitRemoval` |
| delete | `setup_guarded_mutation`, then `delete_game` | SERIALIZABLE | `BeginDelete`, `LockSeason`, `CommitRemoval` |
| policy, archive, reopen | `set_scheduling_policy`, `archive_season`, `reopen_season` | | `SetPolicy`, `Archive`, `Reopen` |
| every transaction | `SqlStore.transaction` | | `Lock`, `Abort` |

`OneAtATime` is the refinement, with the tables mapped to themselves: every commit is a step of
`Calendar`, taken then.  It is what the re-checks and locks are for, and it fails as soon as
one is missing (`PlanHolds_Unchecked`).  A SERIALIZABLE transaction decides on its snapshot;
what makes its decision still true when it commits is that all those that place a game
write one row, the counter that numbers audit entries, and the row locks keep out the others
(`Audited_OwnCounter` gives each writer a counter of its own, and two games share a rink).
Rows of one kind are locked in the order of their ids (`_lock_programs` and its like sort them,
`services/setup_service.py:675`, 688, 760, 790), so ids are numbers (`IdsAssumption`).

Abstractions:
* A time is a number: slots of equal time overlap, and one at `t` ends when one at `t + 1`
  starts.  Of the policy, resurfacing is kept, as none or some.  Minimum playable time and
  curfew look at one slot and one row, and are left out.
* `Abort` is every rollback: a refusal after the locks, a raced plan, a serialization failure,
  a deadlock's victim, a lost connection.  So no property here needs one of them to happen,
  and a wait is never the last step.  A SERIALIZABLE call that is refused by its snapshot writes
  nothing and is left out.
* `store._lock` lets a process run one transaction, so a process is a transaction at most.
* A draft commit's proposal has one row.  Registrations, venue access, officials and results
  never refuse.

Run `schedule` has two processes, three calls, and three games, three slots and two seasons
that start from six standing schedules, chosen so that every call is possible in one of them.
Games 1 and 3 share a season and a team, so slots 1 and 3 (two rinks, one time) collide by
team; game 2 is another program's, so slots 1 and 2 (one rink, one after the other) ask for a
policy from either side.  Three calls are needed for two that race and a third that changes
what the plan of either named (the Season a lock missed, or the policy); each row lock is
held by one of two.  A third process would add a cycle of three waits, which an order on the
rows excludes as it does one of two.  Processes are interchangeable (`SYMMETRY`).  Nothing is
left when the calls are used up, so deadlock is not checked; waits are the subject of
`OnlyGuardedCallsDeadlock`, a part of `ScheduleSound`.  No fairness is assumed, and no liveness is claimed.
`schedule_discard` is a finding (section 3), with two calls.

### 2.5 GameDay and Standings

`GameDay` extends `Calendar`: its calls go on while requests, assignments and results hang on
the games.

| action | code |
| --- | --- |
| `RequestReschedule`, `Respond` | `request_reschedule`, `respond_to_reschedule` |
| `Decide`, `SkipMove`, `ApprovedMove`, `ApprovedPublish`, `SaveDecision` | `decide_reschedule`, statement by statement: it is no transaction |
| `DecisionFails`, `DecisionStops` | a refusal, or the process ends, between two of them |
| the officials' and results' actions | assign, respond, unassign, `set_official_availability` (two statements), record and approve a result |
| `OperatorMove`, `DeleteGame`, ... | the calendar's calls with their checks of dependents |

`BothSigned`: only a request the opponent has accepted is ever decided, whatever two operators
do with it at once. `ApprovalRecovers`: an approval that stopped in the middle is completed when
it is sent again. *Fairness*: a call being served takes its next step (WF), and an operator
repeats an approval that stays possible (SF); the comment at `services/setup_service.py:7190`
asks for exactly that repetition. `DaySound` says where an official may be in two places: only
where a game was moved after the assignment, which `move_game` does not look at.

Run `gameday` has two games on three slots, two requests, two deciders, two officials (one of
them with a conflict with one team), and up to two calls of the operator's in between. Two
requests on one game are needed for the second to open while the first is being decided.

`Standings` is a function of the rows a read finds: registrations (some moved to another
division or league since), and games that name their league-season twice, by row and by the
older pair. `PublicBlind`, `OneHistory`, `PastStays` and `Balanced` are checked for every
combination of two games and three registrations (`MCTables`): two games are one that counts
beside one that is odd, three registrations two of the game's teams and a third; and proved for
every question that is `WellKept`: finitely many rows and games, no team plays itself, and a
team of a game that names this league-season twice is active in it and in no other of the season
(`QuestionsAssumption`; the last is what `Participation` shows of registrations). Left out: teams
of one name (ties are then broken by set order); the operators' context match in front of the
read. A difference that the properties allow: a division's table omits a game one of whose
teams has changed division and the league-season's counts it. A row whose team has gone to
another program would count in a historical league-season's table but not in a division's; it is
not among the questions, for `transfer_team_league` (`services/setup_service.py:2153`) refuses
to make one.

### 2.6 Accounts, sessions, the throttle

`Accounts` is what each call does, atomically; `AccountLocks` splits every call into its
unlocked read, its row locks (fence, subject, account, audit counter), its second decision and
its commit, for two processes on PostgreSQL, with sessions issued and revoked beside it.
`CallsOneByOne` is the refinement. `OneClaim`: of two first administrators one is made and the
loser leaves no account. `LoginsBacked`: an active account always has the active subject it was
bound to. `OnlyRetirementDeadlocks`: a cycle of waits needs a retired player with two active
accounts; the three are `AccountsSound`. Users are numbers, their ids: the accounts of a retired
player are locked in that order (`store/sql_store.py:2802`), without which two calls that have
retired nobody yet could wait for each other. Server processes are finitely many. Two users, two
players, one team, two calls: a pair of calls is what races. At the start nobody is deleted, and
of the accounts only the last may be inactive; the calls reach the rest.

In `LoginThrottle` a thread reads the clock, then takes the lock; what a method does under the
lock is one action (`Begin`, `RecordFailure`, `RecordSuccess`, `Cancel`). `ThrottleSound`:
reservations are exact, buckets never outgrow their cap, a ceiling is exceeded only by attempts
whose clock reading is the instant at which the oldest failure expires, and an address is
forgotten by age alone. Three attempts, two addresses and names, limits 2 and 1, at most three
buckets, a sweep every second call: each limit is reached and each is one short of another.

### 2.7 GameContexts and SubstituteRanking

Both are functions of what they are asked; the instance enumerates questions. `GameContexts`: a
player's memberships come in any order; the resolver of one player and the one of a whole game
must give the same side and the same reason, the reason must be the one the documented ladder
ranks first, and the two batches (auto-build, copy of the previous roster) must seat whom single
selections would seat, fill no more than what is open, and touch their own side only. Questions:
one player with up to three memberships under every broken spine, and three players with few
before a bench of rows without a side. `SubstituteRanking`: the proposal, its order, its stated
deciding rules and the named override agree (`DecidersExact` removes a rule and compares). The
draw of the seeded rule is an input; eleven policies, valid and not, and five seats are asked of
every set of candidates.

### 2.8 Delivery, AssetTransfer, Migrations

`Delivery`: a drain takes its process's lock, reads a batch, and row by row resolves, sends and
saves the row *it read* (`Drain`, `Resolve`, `Send`, `SendFails`, `AnswerLost`, `Save`), with
operators, contacts, opt-outs and stops (`Stop`) in between. `NoResend`: a row that reads SENT
is never sent again. `Settles`: every row ends. *Fairness*: a drain under way continues and the
loop runs again after its interval. Two rows to a player and a guardian, one server with a
manual drain and the loop, two tries, two troubles (stops, lost answers, operators' calls). A
batch is a set of rows worked through in the order of their ids; recipients are numbers in the
order their rows get them. What keeps drains apart is the lock of one process (`OneProcess`): two
processes that share a database can send a row twice, and the code does not claim otherwise.

`AssetTransfer`: wishes, reports that lag and repeat rows, decisions from what was read, posts
whose answer is lost. `MovedOnce`: one wish moves its asset at most once over any runs. Fusion
is external and modelled by what the batch relies on: a transfer names its source and is refused
when it is no longer there.

`Migrations`: processes of old, new and ill-shaped builds start on one database. A migration is
`NextVersion`, `Precheck` (checked kinds, before the transaction), `Begin` with its lock (locked
kinds) or `Busy`, `CheckInside`, `Alter`, `Record`; `Stop` and `Restart` at any point, `Write`
and `Repair` of offending rows by others. `UpgradeSound`: the ledger is in order and says what
ran, a process serves only on the schema it was built for, no row breaks a constraint that is
there, and the engine never quotes a row of a locked migration. `StartServes`: every properly
built start comes to serve. *Fairness*: a starting process goes on and a failed one is started
again (its supervisor), and offending rows a refusal names are repaired (SF). The ledger is read
once per start: a process that lost a race fails on the other's work and is started again, which
is what the code does. Three versions, one of each kind, two processes, two mishaps. Left out:
the race to create the ledger's table, transactions nested in a demo reset, the SQL of each
file; SQLite's foreign-key check at the end is the same refusal as an offending row. A row that
lands between a checked migration's check and its transaction meets the engine's own error, as
the source's comments accept.

### 2.9 Participation and what is built on it

`Participation` holds the seasons of a program, leagues bound to them, each team's league,
registrations, divisions, memberships and games, and one action per call of
`services/setup_service.py` on them. Each call is one transaction under the locks of what it
writes; what is hard is sequences of calls, above all around a season that was archived or over
while its team moved.

| module | actions | property |
| --- | --- | --- |
| `Participation` | create, archive, reopen, delete a season; bind and unbind a league; divisions; register, reassign, remove; transfer a team; memberships; games | `RegistrationsSound`: one registration of a team per season, every game and membership of a live season backed by one; `StaysAligned`: what a step writes agrees with what is there |
| `CopyForward` | preview, commit, replayed commit | `OneSeasonPerReview`: one review makes one season, and every answer names it |
| `SheetImport` | the hierarchy import, the teams-and-players import | `ImportsLand`: an accepted upload is there whole |
| `PlayerNumbers` | single calls, and an import's plan and rows | `NumbersSound`: numbers stay unique, and a planned import that nothing raced ends as planned |
| `RinkIce` | one slot, a template's preview and commit, a sheet of ice, games taking slots | `IceSound`: slots of a rink stay apart; `BuiltAsShown`: a commit makes what its preview showed |
| `SetupProgress` | none: what the page answers | `NextStepSound`: the step it names can be taken |

Run `season_setup` bounds the calls per part (`MCMaxCalls`): seven with one team moving, five
with two, six around a copy, four around imports, five for numbers, four for ice. Behaviours
start from two seasons with both leagues bound, or from one with a team registered: states a few
calls reach; "numbers" from any numbers single calls can have given, and runs one import, with at most
one call before it or between its check and its commit. The clock of `RinkIce` skips an hour and repeats one (`MCClock`), so templates are
asked to open in an hour that is not there. Season 1 has ended (`Ended`), the others have not.
The instance's constants come with five assumptions: what a sheet can hold (`SheetsAssumption`:
teams, leagues and divisions there are; `UploadsAssumption`: a player in one row of a sheet at
most, as `services/hierarchy_import.py:242` demands), that seasons are numbered
(`SeasonsAssumption`), and what a clock and a template are (`ClockAssumption`,
`TemplatesAssumption`).
Abstractions: one program; teams always have a league; the plan and application of the hierarchy
import are one transaction, the teams import validates before its own; an inactive player's
jersey is not claimed; one kind of number at a time; venue access and policy warnings left out.

### 2.10 WorkingContext and SetupGate

`WorkingContext` is `ContextService` without its locks (ScopedRead has those): `Switch` saves a
tuple, `Resolve` is what a read makes of it for each role, `SavedSelection` what a write is
judged by. `SetupGate` is the early check of a setup write (`Ask`), the second decision under
locks with the change itself (`Commit`), or its refusal. `SelectionStands`: a resolved selection
is one the account may see and never a closed season it did not choose; `SwitchLandsTogether`;
`ChosenWrites`: at the moment of the change every record it names is of the operator's own
selection, shared with it, or unlinked and the operator's own; `PageAndGateAgree`: the page
lists exactly what the gate lets through (players excepted, who have a page of their own);
`ChosenStaysInReach`: a program whose last season has gone can still be removed. Two programs,
four seasons (one of them exists in "read" only), three leagues, a team, one record of every other kind, four accounts, two
switches, two attempts, two changes elsewhere. The guarded attempt is atomic; `writable_parent`
and reassignment are abstracted to the records they name; the overview's list of leagues and the
imports' own gate (`api/service.py:3207`) are not modelled. The catalogue is what the schema's
keys make it: a league, a season and a game's pair belong to one program each
(`CatalogueAssumption`), every kind of record hangs on the kind its key names
(`SetupAssumption`), and bindings join a league and a season of one program from the start
(`StartAssumption`).

### 2.11 SubtreeDeletion and FactoryReset

`SubtreeDeletion`: the rules of every reference are the inventory's
(`services/subtree_preview.py`); `Preview` shows an effect, other operators create, edit, flag
and cancel, and an execution looks at its challenge, locks every table and decides again.
`ExecutedAsShown`, `GraphSound`, `SubtreeSpares`. The table locks are NOWAIT: a contended call
is refused and keeps its token, which is the refusal already there. `FactoryReset`: every store
call before the wipe is an action of its own; processes stop for longer than a lease, or die.
`WipedAsPreviewed`, `LeaseHolds`. That a challenge is good for one wipe rests on its life being
no longer than the lease (`ResetAssumption`), as the code's values have it: both are five
minutes. A challenge is used up
by any attempt, and a preview is compared by row counts, not by rows: `WipedAsPreviewed` says
counts, as the code does. Graphs: a season with teams, a player, an official and a game; a venue
used by seasons of two programs (`World`, with `Flagged` the records that are published,
archived, active or allocated). Two administrators, two tokens, two processes, a clock to 2. Other
operators make one call between a preview of the season or a team and its execution, two around
the venue, on the records in `Touched`. Three assumptions say what the graph of records is in
any installation: references are those of the inventory (`LinksAreInventoried`), an owner and
what it owns are of one program except where a row exists to tie two (`OwnersAgree`), and ice is
allocated exactly while one game is on it (`WorldAssumption`).

### 2.12 Pairings, DraftPlan, DraftCommit

`Pairings` translates the round robin, the guarantee of games per team, the closed condition and
the completion; `DraftPlan` the proposal with its ice; `DraftCommit` previews, scenarios,
commits and everything that happens between. `RefusedOnlyWhenImpossible` compares the closed
condition with a reference that adds games exhaustively (`Fulfilled`), for 1, 4 and 5 teams (an
even number, an odd one and the boundary), up to three games there (two among five teams) and
guarantees up to 5; the reference tells needs apart by how many teams need each number of games.
`FormatKept`: a proposal completes to exactly the format and hosts level, and a commit takes
nobody past the format, wherever the calendar moved meanwhile. `IceKept`: a proposal clashes with
nothing and leaves no pairing without ice a free slot would have served, and a commit writes only
into the season chosen then, on ice that may be used then, between teams registered then. One
division of one season; the step under the locks is atomic; the commit is the league-scoped facade's, which
overrides the base one (`api/service.py:9763`-10344, not mapped). `Off` is the ice of other
venues.

## 3. What was found

A run that ends in a counterexample:

* `schedule_discard`: a draft published by itself keeps `is_draft`, so discarding the drafts
  deletes a published game. "never touches published/real games" (`api/service.py:10880`).

Other places where a sentence of the repository says more than its code does, each seen as a
violated property while its module was written (the property is in the module where it is named
below; no run repeats them):

* *Rosters.* An offer whose player is selected and then removed stays open, and accepting it
  puts the row back: "a coach removal is not self-reversible" (`services/roster_service.py:128`,
  acceptance at 2349). A deactivated player whose row is unavailable is confirmed again, since
  the re-confirmation looks at membership and slot, not at `is_active` (1364; the comment at
  1095).
* *Locks.* A switch whose gate bound has expired waits for a fence inside the transaction that
  holds `store._lock`, which the fence's reader needs: "a reader can never deadlock against a
  writer" (`store/sql_store.py:3050`); `lock_timeout` ends it, and `EveryRequestEnds` holds. A
  guarded delete locks its game before the game's Season and a draft batch the other way round
  (`api/service.py:2630`, 10588); `OnlyGuardedCallsDeadlock` says how far "one canonical order"
  is right. `AccountLocks!NoWaitCycle`: the audit entry of one retired account is written before
  the next is locked, so "the lock order is Player→Account everywhere"
  (`services/setup_service.py:8976`) leaves a cycle through the counter's row.
* *Sessions.* `AccountLocks!SessionsEnd`: a session of an account that is deactivated resolves
  again when the process stops between the commit and the revocation and the account is
  activated later ("Deactivating an account must end any session it already has",
  `web/server.py:4577`).
* *Delivery.* `Delivery!IgnoredUnsent`: a worker already past its read sends, and saves its own
  copy over, a delivery an operator has ignored "so the worker never retries it"
  (`api/service.py:5731`); the same for a retry of a delivery in flight.
* *Reschedules.* A denial saved from a row read earlier is overwritten by an approval in flight,
  though "OPPONENT_REJECTED and DENIED are terminal rejections" (`domain/enums.py:266`); and the
  game may have been moved again between the approval's move and its publication
  (`services/setup_service.py:7186`). `discard_draft_games` deletes without the check of
  dependents `delete_game` has.
* *Drafts.* The fingerprint of a proposal omits `existing_game_count`, which its docstring
  includes (`services/scheduler.py:2101`, 2266): a game gained between review and commit that
  changes nothing named goes through. `FormatKept` shows that nothing is made twice.
* *Imports.* `Participation!DivisionsInSeason`: an import may leave a registration with a
  division of another season (`services/hierarchy_import.py:1105`), which ADR
  `docs/architecture/decisions/0001-competition-model-reset.md:79` excludes.
  `upsert_imported_division` (`services/setup_service.py:7427`) moves a division without asking
  for dependents. An unchanged sheet with a blank division is refused once the team has games
  (`services/hierarchy_import.py:1315`). Overlapping rows of ice within one sheet are only
  warned of (`services/import_validator.py:807`).
* *Registration.* `Participation!NeverStranded` and `PlayersCanJoin`: after a transfer around an
  archived season a registration may be left in the old league, and its players cannot be added
  (comments at `services/setup_service.py:1679`, 2232, 2403). Copying a season does not mirror
  memberships, though the comment at 1608 expects it; the older `assign_division_league` has no
  check of dependents.
* *Guidance.* "with no eligible Team every registration attempt is a guaranteed
  `team_league_mismatch` rejection" (`api/service.py:4225`) is not so: registering binds the
  team's own league to the season (`services/setup_service.py:1716`). A stale row in another
  league can make the next step one that the selected league does not list, and
  `ready_to_schedule` counts registrations of archived seasons. `NextStepSound` states what does
  hold.
* *Contexts.* A row parked on another team of the same LeagueSeason also gives the reason said
  to mean "current participation" (`services/membership_spine.py:143`).
* *Reset.* `FactoryReset!ResetKeepsAccount`: the account put back is the one read before the
  wipe's locks, so a password changed or a deactivation made in between is lost; and a preview
  is stale only if the row counts have changed, where
  `src/hockey-scheduler/docs/architecture/production-runbook.md` says "if the data changed since
  preview".
* *Views.* `_lineup_substitutes` keeps one row per player, so a newer settled request to the
  other side hides an older one to this side: the answer to one side's coach depends on the other side's
  requests by that much, where `services/lineup_visibility.py:112` takes "the caller's obtainable
  private game state" as the boundary (`OtherSideHidesOnly` says it is no more); rows without a side are counted for both sides and
  listed in neither lineup.
* *Asset batch.* `--execute` "Overrides --dry-run" (`batch_entrypoint.py:41`), but `execute =
  args.execute and not args.dry_run`.

## 4. What is proved

Eight modules of proofs, one for each part of the system whose runs they belong to; PROJECT.json
lists their theorems.  Each holds for every value of the constants that satisfies the named
assumptions of the modules it is about, and TLC evaluates those assumptions on the runs.  A
theorem that names a property of a run says for every instance what the run shows on one.

| module | properties of the runs it proves | also |
| --- | --- | --- |
| `ContextGateProofs` | `GateSound`, `BlockersOnlyShrink` | its parts |
| `GameRosterProofs` | `RosterSound`, `ClosedRosterFrozen`, `PromiseKept`, `SeatingSound`, `FirstAcceptedWins`, `CoachLeavesOtherSideAlone`, `OtherSideHidesOnly` | its parts |
| `GameScheduleProofs` | `ScheduleSound`, `OneAtATime`, `BothSigned`, `DaySound` | the same of Calendar alone; that GameDay implements Calendar; that a sum does not depend on its order |
| `PeopleProofs` | `AccountsSound`, `CallsOneByOne`, `ThrottleSound` | that AccountLocks implements Accounts |
| `ParticipationProofs` | `RegistrationsSound`, `OneSeasonPerReview`, `StaysAligned`, `SheetsSound`, `BuiltAsShown` | the same of calls, copies and imports each alone; `IceSound` of the rinks |
| `EndingsProofs` | `ReadSound`, `WindowFrozen`, `DoneOnce`, `NoResend` within one process | |
| `DraftProofs` | `IceKept` | that the pairings of every format are finite sequences |
| `DestructionProofs` | `RemovalSound`, `SubtreeSpares`, `ContextSound`, `SwitchLandsTogether`, `ChosenWrites` | |

**ContextGate**, from `DisjointRequests` and `NoUserAssumption` only.  `GateInv` adds two facts to
what the run checks: `SeqOrder` (a registered ticket's number is at most `seq`, and no two are
equal) and `TicketState` (which tickets are bound and numbered where the thread is).  Without the
first a newcomer might be numbered before a sleeper and block him; with it, a newcomer is behind
everybody, a leaver only unblocks, and narrowing is announced, which is the whole argument.

**ScopedRead.**  `ReadInv` has seven parts: where a request may be on each store, who keeps whom
out (`LocksInv`: the store's lock, SQLite's file, PostgreSQL's fences; `GatesInv`: the in-memory
gates, as long as no bound has expired), that a key's counter is the number of its writers that
have written and a user's generation is his counter (`CountsInv`), what a writer has in hand, how
old a page may be, and what a read has sampled and seen.  The counters are the heart of it: they
make a generation name one state, so a read whose epoch equals its counter has seen that state
and none later; on the in-memory store, where a read may meet a write that is not committed, the
second sample is compared with the number of committed writers.

**GameRoster.**  `RosterInv` adds `OpenNotAccepted` (a player with an open request has never had
one accepted: without it a second could be accepted on top of the first) and `RowsWritten`
(a request that was made names a side, a deadline comes with an offer).  `StepKinds` reduces the
twenty-six handlers to the nine ways they write rows, and each conjunct, each action property and
the refinement of SubstituteRequests is proved per way.  `OtherSideHidesOnly` is no invariant of
steps: it holds of any rows, by showing for each read which rows it selects, and of the one row
behind a badge (`OwnedRows`) that it is this side's own newest unless the player turned away.

**Calendar and GameSchedule.**  One call at a time, `SchedInv` is inductive as it stands: `Fits`
looks at the games and at the status, and only because the two agree does a free slot mean a free
rink.  For the transactions `TxnInv` says of every one of them what it holds (`Planned`), in what
order (`LockOrder`), and what therefore still stands (`Decided`), or, for a call that decided on
a snapshot, that everybody who could contradict it must write the counter's row it will write
(`Seen`).  So each commit is a step of Calendar, which is `OneAtATime`.  A cycle of waits has
a guarded call in it: in a cycle of other calls, the one that waits for the last row in the order
waits for a call that waits for a later row still; that there is a last one is the
well-foundedness of finite sets.

**GameDay.**  `DayInv` says what a call that decides a request may rely on: the request it read was
accepted by the opponent, and from there only the save at the end of a decision touches it, so
`BothSigned` holds whatever the other decider does in between (the second save writes a request
the first has settled, which is the code's last-writer-wins and no unsigned decision).  Two
assignments of one official are apart unless one of the two is in `shifted`.  That every
step is a step of Calendar, or none, gives the ice and the games for nothing: `SchedInv` is kept
by Calendar's calls, and `DayKeepsTheCalendar` says there are no others.

**Standings.**  The tables are no behaviour: `TablesAreSound` is about every question that is
`WellKept`.  What a read answers is decided by the games it considers and the roster it lists
(`SameRead`), so blindness and history are equalities of sets.  `Balanced` is not: what the rows of
a table won and lost, scored and conceded, add up to each other, and a fold over the rows has
no order of its own.  The lemmas on sums first show that it does not matter (`SumTakesOut`, by a
smallest set on which it would), then that one game more moves two rows by what it is worth to
each (`OneGameMore`, `ColumnShifts`), and so for any finite set of games (`LevelTables`).

**Accounts.**  `AccountsInv` (logins backed, one administrator) is inductive for calls made
alone.  `LocksInv` says what each transaction has decided under the locks it holds, and that no
two hold one row; hence a commit is the call made alone at that moment.  `OrderInv` adds the order
of the locks, by kind and within a kind by id, and the cycle of waits is excluded as above, except
through a call that has retired an account already and comes for the next.

**LoginThrottle.**  A bucket's times are in order up to `Delay`, since a clock is read before the
lock is taken (`TableInOrder`); trimming from the front then forgets only what is too old, or so
little more that a ceiling is passed only by the attempts `ThrottleSound` names.  A reservation
is the number of attempts in flight (`ReservationsExact`), by counting.

**Participation and what is built on it.**  `RegInv` adds to the run's properties `Tidy`: a row
that is not there has no division, and a stint is open exactly while it names a team.  `Once`, one
live registration of a team in a season, then follows call by call from what each reads under
its locks; the two that write many rows at once (`TransferCall`, `RollForwardCalls`) and the
imports (`ImportTeamsCall`, `ImportHierarchyCall`) are the bulk of the proof: they must be shown
to write no row of a season that is history and every row of the others.  `LedgerInv`: the
ledger has one row a review, whose season exists, and answers come from it; so a repeated commit
answers with the first.  `NumbersInv` follows an import row by row: the rows before `at` are as
the sheet says, those after are as they were, and what the plan released is claimed by nobody
else.  `IceInv` keeps with a preview what its fingerprint told (`Told`): which of its windows were
new, of a template that was well formed; `WindowsApart` shows those windows to be apart, and a
commit that finds the fingerprint unchanged finds them still free.

**AssetTransfer, Migrations, Delivery.**  `TransferInv`: what is pending still wants what its wish
says, and a wish that was moved is granted, so the next ask is refused at the source.
`UpgradeInv`: what a starting process has read of the ledger is still there, and covers all that
comes before the version in its hand; the key of the ledger admits one of two.  `DeliveryInv`:
one drain works at a time, on rows not yet sent.  `NoResend` is proved under `OneProcess`, the
hypothesis that the drains share the process whose lock they take; the run's instance satisfies
it, and without it the property is false, as is the code's.

**Factory reset.**  `ResetInv`: challenges are numbered in the order they are issued, a call's
lock outlasts the challenge it was confirmed with (`TokensOutlasted`, from `Ttl <= Lease` and
because the token was issued before the lock was taken), and a challenge about to be used is used
by nobody else (`ChallengesSpent`).  Without the second, a process that sleeps through its lease
could wake with a challenge that is still good beside the process that has reclaimed the lock.

**Subtree deletion.**  `SubtreeInv`: the graph is whole and no slot holds two games, previews are
numbered and each fingerprint says what was shown, an execution did what its preview showed.  The
removed set is what the owners' references reach, computed by a recursive function on the number
of steps; the lemmas on `Reached` show, through a least counterexample, that it is the least
closed set that holds the records it starts from.  With the inventory's rules that is all the
proofs need: `NoDangling` holds since the removed set is closed, and what a removal spares follows
since it is least: what is above a record that stays is no season but those the call looked at
(`GoverningFacts`, `NothingArchived`), and along every owning reference the program stays the same
or the call was refused (`NothingForeign`).

**Working context and setup gate.**  `ContextInv`: bindings join a live league and a live season
of one program (`BindingsStand`), and what is saved or asked has its type.  Nothing more is
carried over steps, for a resolved selection, a page and a decision are all computed from the
state they meet: the rest is a proof for each kind of record that its edges, as the gate walks
them, are those the page's filter follows (`ListedIsAllowed`), and for each kind of change that
what the gate accepts is the operator's own (`AllowedIsOwn`, `CreateIsOwn`).

**Drafts.**  A proposal is a fold over the pairings, and the pairings are folds over a round robin,
so the lemmas come in three layers.  A fold over a finite set is a recursive function, of which
one must know that it exists (`FoldExists`, by the least size of a subset it would fail on) and
that it stays where its steps stay (`FoldStays`, by a smallest subset); then `MissingSeq`: the pairings
of any format are a finite sequence, whatever the calendar holds.  `SlotClear` says what a slot
that nothing refuses is clear of, reading every branch of the refusal at once.  So each pick is apart
from every pick before it and from every game (`ClearIsApart`), no limit of a day is passed
(`OnePickMore`), and, since what is clear beside more picks is clear beside fewer
(`ClearBefore`), a pairing that found no slot when its turn came finds none at the end
(`RefusedForGood`): these two are the invariant of the fold (`AssignIceWell`).  A commit is another fold,
row by row against the games there are under the locks (`WrittenWell`), so what it
writes is apart from the calendar of that moment however old its proposal is.  `IceInv` says of
the state only what these folds need: games on the calendar, and rows on ice in whatever is
reviewed, saved or being committed.

Only model-checked, and why:
* `FocusUserAdmitted`, `EveryRequestEnds`, `Settles`, `ApprovalRecovers`: liveness under fairness
  is out of the prover's reach.
* `ListedIsDoable`, `NextStepSound`: they ask whether a handler is ENABLED, which the prover cannot
  expand.
* `ChoiceSound`, `RefusedOnlyWhenImpossible`, `FormatKept`: they compare folds over sequences, a
  round robin and exhaustive references with each other, which is induction over data; the
  library's induction theorems take an operator, which the installed provers cannot instantiate.
  (Where a least element or a smallest set is enough, as for `Reached`, the sums of the tables and
  the ice of drafts, well-founded sets do instead.)

`PublishedNotDiscarded` is false of the code (section 3).  No module here uses a RECURSIVE
operator.

## 5. Not modelled

PROJECT.json lists every part with its state.  Left out for good:
* the static audit of side provenance and `web/route_extract.py`, analyses of the program's own
  text; `web/route_registry.py`, a table; scripts, deployment, parsing and rendering;
* masking of names field by field and route permissions, which are decision tables over one
  record that a test enumerates;
* the SQL of the stores and of each migration, password hashing, e-mail and push transports;
* explanations of schedules, advisories of policies and warnings of imports: wording.

Left out and worth having: games without a league season in `GameRoster`; several divisions in
one draft; guardian links; the token cache of the asset batch; `get_readiness` and the first
onboarding status (`api/service.py:5842`-6142); the availability summary and `find_next_game`;
the gate of the imports (`api/service.py:3207`); a crash inside a request of `ScopedRead`.

## 6. What is open

The modules are written to be proved about (constants with assumptions, one action per
operation, no RECURSIVE operator).  What could still be proved, in this order:

1. Of `ChoiceSound` what needs no ranking: that nobody is offered who may not play.
2. The combinatorics of `Pairings`: that the closed condition is exact for any number of teams.
