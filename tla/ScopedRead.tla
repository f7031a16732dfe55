----------------------------- MODULE ScopedRead -----------------------------
(***************************************************************************)
(* The scoped read: web/server.py Handler._read_under_context_gate and     *)
(* everything that keeps it from being torn or answered for a selection    *)
(* the client has left.                                                    *)
(*                                                                         *)
(*   - a page is rendered from GET /api/context (or the answer of a switch)*)
(*     and carries an epoch; its scoped reads echo that epoch;             *)
(*   - a read holds two in-process gates, two database fences and, on a    *)
(*     SQLite file, the file lock, compares the echoed epoch with the      *)
(*     current one and only then runs the service call;                    *)
(*   - switches (the user's own key) and lifecycle changes (the global     *)
(*     key: archive and reopen stand for every global writer) take the     *)
(*     exclusive side of the same things.                                  *)
(*                                                                         *)
(* The gates appear by what ContextGate shows of them: a request waits for *)
(* the conflicting requests registered before it in its process, and goes  *)
(* on regardless when its bound expires.  Replicas are server processes on *)
(* one database; store._lock is one lock per replica, held by a write      *)
(* transaction from its first to its last statement.                       *)
(*                                                                         *)
(* A definition named X_... is a seeded mistake in X, used by no other     *)
(* definition (see ContextGate).                                           *)
(***************************************************************************)
EXTENDS Naturals, FiniteSets, TLC

CONSTANTS
  Replicas,     \* server processes
  Reads,        \* scoped GET requests
  Switches,     \* POST /api/context requests
  Lifecycles,   \* archive / reopen requests
  Users,
  Global,       \* EPOCH_FENCE_GLOBAL_KEY
  Backends,     \* the stores deployed: of "memory", "sqlite" (a file), "postgres"
  MaxAttempts,  \* _MAX_SNAPSHOT_RETRIES and _GUARDED_MUTATION_RETRIES
  Active,       \* the lifecycle of a Season that is not archived
  Absent        \* no epoch echoed; no derivation under way

Writers == Switches \cup Lifecycles
Requests == Reads \cup Writers
Keys == Users \cup {Global}

ASSUME BackendAssumption == Backends \subseteq {"memory", "sqlite", "postgres"}
ASSUME DistinctNames ==
  /\ Reads \cap Writers = {} /\ Switches \cap Lifecycles = {}
  /\ Global \notin Users /\ Active \notin Lifecycles /\ Absent \notin Replicas
ASSUME RequestsAssumption == IsFiniteSet(Requests)
ASSUME MaxAttemptsAssumption == MaxAttempts \in Nat \ {0}

VARIABLES
  backend,      \* the store of this deployment
  generation,   \* user -> the generation of the stored ActiveContext row
  lifecycle,    \* the effective Season's status and archived_at
  version,      \* fence key -> the persisted version counter
  page,         \* user -> what the tab shows and the epoch it will echo
  deriving,     \* user -> the epoch derived first, while the tuple is still to be read
  pc, at, who,  \* request -> its location, its replica, its user
  waitsFor,     \* request -> the requests its gate makes it wait for
  expired,      \* in-memory store: requests whose gate bound ran out (history)
  fences,       \* read -> the fence keys it holds shared (PostgreSQL)
  echo,         \* read -> the epoch it echoes
  rendered,     \* read -> the tuple of the page it was issued from (history)
  sampled,      \* read -> the version counters before the epoch is derived
  saw,          \* read -> the states its service call has read (history)
  dirtyReads,   \* reads that saw an uncommitted write (history)
  attempts,     \* writer -> transactions tried
  snap          \* writer -> the state its transaction started from

data == <<generation, lifecycle, version>>
client == <<page, deriving>>
placed == <<at, who, backend>>
gates == <<waitsFor, expired>>
readVars == <<fences, echo, rendered, sampled, saw, dirtyReads>>
writeVars == <<attempts, snap>>
vars == <<data, client, pc, placed, gates, readVars, writeVars>>

\* What an epoch names: the row's generation and the Season's lifecycle.  Its
\* hash is taken to be injective; the user's id in it never varies here.
Token(u) == [gen |-> generation[u], life |-> lifecycle]
Tokens == [gen : 0..Cardinality(Switches), life : Lifecycles \cup {Active}]

Key(w) == IF w \in Switches THEN who[w] ELSE Global

\* Registered in CONTEXT_GATE / LIFECYCLE_GATE.
ReadWindow == {"fenceUser", "fenceGlobal", "opening", "sampling", "comparing",
               "resolving", "reading", "resampling"}
InContextGate == {r \in Reads : pc[r] \in {"binding", "entering"} \cup ReadWindow}
InLifecycleGate == {r \in Reads : pc[r] \in {"entering"} \cup ReadWindow}
WriterInGate == {"queued", "ready", "opening", "fencing", "stale", "locking",
                 "fenced", "dirty"}
InGate(ws) == {w \in ws : pc[w] \in WriterInGate}
AtReplica(ts, p) == {t \in ts : at[t] = p}

\* Holders of store._lock at p; of SQLite's RESERVED lock; of key k's counter row.
InTransaction(p) ==
  {w \in AtReplica(Writers, p) :
     pc[w] \in {"opening", "fencing", "stale", "locking", "fenced", "dirty"}}
StoreFree(p) == InTransaction(p) = {}
\* An in-memory store belongs to one process.
SharesStore(p) == backend = "memory" => \A t \in Requests : at[t] \in {Absent, p}
FileHolders ==
  {r \in Reads : pc[r] \in {"comparing", "resolving", "reading"}}
  \cup {w \in Writers : pc[w] = "fenced"}
RowHolders(k) == {w \in Writers : pc[w] \in {"locking", "fenced"} /\ Key(w) = k}
SharedHolders(k) == {r \in Reads : k \in fences[r]}

\* A store call of a read that has no store of its own.
ReadLock(r) == backend # "sqlite" => StoreFree(at[r])
-----------------------------------------------------------------------------
Init ==
  /\ backend \in Backends
  /\ generation = [u \in Users |-> 0]
  /\ lifecycle = Active
  /\ version = [k \in Keys |-> 0]
  /\ page = [u \in Users |-> [epoch |-> [gen |-> 0, life |-> Active],
                              tuple |-> [gen |-> 0, life |-> Active]]]
  /\ deriving = [u \in Users |-> Absent]
  /\ pc = [t \in Requests |-> "idle"]
  /\ at = [t \in Requests |-> Absent]
  /\ who = [t \in Requests |-> Absent]
  /\ waitsFor = [t \in Requests |-> {}]
  /\ expired = {}
  /\ fences = [r \in Reads |-> {}]
  /\ echo = [r \in Reads |-> Absent]
  /\ rendered = [r \in Reads |-> Absent]
  /\ sampled = [r \in Reads |-> Absent]
  /\ saw = [r \in Reads |-> {}]
  /\ dirtyReads = {}
  /\ attempts = [w \in Writers |-> 0]
  /\ snap = [w \in Writers |-> Absent]

-----------------------------------------------------------------------------
(* The tab. *)

\* Bound: a tab from which no more reads will come is not rendered again.
TabInUse == \E r \in Reads : pc[r] = "idle"

\* GET /api/context: the epoch is derived first ...
DeriveEpoch(u) ==
  /\ deriving[u] = Absent /\ TabInUse
  /\ \E p \in Replicas : SharesStore(p) /\ StoreFree(p)
  /\ deriving' = [deriving EXCEPT ![u] = Token(u)]
  /\ UNCHANGED <<data, page, pc, placed, gates, readVars, writeVars>>

\* ... and the tuple is read after it, in another transaction.
ReadTuple(u) ==
  /\ deriving[u] # Absent
  /\ \E p \in Replicas : SharesStore(p) /\ StoreFree(p)
  /\ page' = [page EXCEPT ![u] = [epoch |-> deriving[u], tuple |-> Token(u)]]
  /\ deriving' = [deriving EXCEPT ![u] = Absent]
  /\ UNCHANGED <<data, pc, placed, gates, readVars, writeVars>>

-----------------------------------------------------------------------------
(* A scoped read. *)

\* Leaving: both fences, then both gates are released before the response is
\* written; whoever waited for t waits for it no longer.
LeaveGates(t) == waitsFor' = [o \in Requests |-> waitsFor[o] \ {t}]
LeaveFences(r) == fences' = [fences EXCEPT ![r] = {}]
Forget(r) == sampled' = [sampled EXCEPT ![r] = Absent]

Answer(r, outcome) ==
  /\ pc' = [pc EXCEPT ![r] = outcome]
  /\ LeaveGates(r)
  /\ LeaveFences(r)
  /\ Forget(r)

\* The page's script sends the request with the page's epoch, or, as an older
\* client does, with none; do_GET registers it.
Issue(r, u, p) ==
  /\ r \in Reads /\ pc[r] = "idle" /\ SharesStore(p)
  /\ at' = [at EXCEPT ![r] = p]
  /\ who' = [who EXCEPT ![r] = u]
  /\ \E e \in {page[u].epoch, Absent} : echo' = [echo EXCEPT ![r] = e]
  /\ rendered' = [rendered EXCEPT ![r] = page[u].tuple]
  /\ waitsFor' = [waitsFor EXCEPT ![r] =
       {w \in InGate(AtReplica(Switches, p)) : who[w] = u}]
  /\ pc' = [pc EXCEPT ![r] = "binding"]
  /\ UNCHANGED <<data, backend, client, expired, fences, sampled, saw, dirtyReads, writeVars>>

\* A gate lets t through when nobody is left before it, or when its bound expires.
PassGate(t) ==
  expired' = IF waitsFor[t] # {} /\ backend = "memory" THEN expired \cup {t} ELSE expired

EnterLifecycleGate(r) ==
  /\ pc[r] = "binding"
  /\ PassGate(r)
  /\ waitsFor' = [waitsFor EXCEPT ![r] = InGate(AtReplica(Lifecycles, at[r]))]
  /\ pc' = [pc EXCEPT ![r] = "entering"]
  /\ UNCHANGED <<data, client, placed, readVars, writeVars>>

\* The shared fences are real on PostgreSQL and yield True elsewhere.
EnterFences(r) ==
  /\ pc[r] = "entering"
  /\ PassGate(r)
  /\ waitsFor' = [waitsFor EXCEPT ![r] = {}]
  /\ pc' = [pc EXCEPT ![r] = CASE backend = "postgres" -> "fenceUser"
                               [] backend = "sqlite" -> "opening"
                               [] backend = "memory" -> "sampling"]
  /\ UNCHANGED <<data, client, placed, readVars, writeVars>>

\* epoch_fence_acquire_shared: held (True), or given up at lock_timeout (False).
FenceUser(r) ==
  /\ pc[r] = "fenceUser"
  /\ fences' = [fences EXCEPT ![r] = IF RowHolders(who[r]) = {} THEN {who[r]} ELSE {}]
  /\ pc' = [pc EXCEPT ![r] = "fenceGlobal"]
  /\ UNCHANGED <<data, client, placed, gates, echo, rendered, sampled, saw, dirtyReads, writeVars>>

FenceGlobal(r) ==
  /\ pc[r] = "fenceGlobal"
  /\ RowHolders(Global) = {} /\ fences[r] # {}
  /\ fences' = [fences EXCEPT ![r] = @ \cup {Global}]
  /\ pc' = [pc EXCEPT ![r] = "sampling"]
  /\ UNCHANGED <<data, client, placed, gates, echo, rendered, sampled, saw, dirtyReads, writeVars>>

\* Either fence came back False: fail closed, without touching the store.
FenceRefused(r) ==
  /\ pc[r] = "fenceGlobal"
  /\ RowHolders(Global) # {} \/ fences[r] = {}
  /\ Answer(r, "discarded")
  /\ UNCHANGED <<data, client, placed, expired, echo, rendered, saw, dirtyReads, writeVars>>

OpenFile_Deferred(r) ==
  /\ pc[r] = "opening"
  /\ pc' = [pc EXCEPT ![r] = "comparing"]
  /\ UNCHANGED <<data, client, placed, gates, readVars, writeVars>>

\* The SQLite file: BEGIN IMMEDIATE on a store opened for this read alone.
OpenFile(r) ==
  /\ pc[r] = "opening" /\ FileHolders = {}
  /\ pc' = [pc EXCEPT ![r] = "comparing"]
  /\ UNCHANGED <<data, client, placed, gates, readVars, writeVars>>

FileBusy(r) ==
  /\ pc[r] = "opening" /\ FileHolders # {}
  /\ Answer(r, "discarded")
  /\ UNCHANGED <<data, client, placed, expired, echo, rendered, saw, dirtyReads, writeVars>>

\* The two counters are sampled one after the other; each is only ever compared
\* with itself.
Sample(r) ==
  /\ pc[r] = "sampling" /\ ReadLock(r)
  /\ sampled' = [sampled EXCEPT ![r] = <<version[who[r]], version[Global]>>]
  /\ pc' = [pc EXCEPT ![r] = "comparing"]
  /\ UNCHANGED <<data, client, placed, gates, fences, echo, rendered, saw, dirtyReads, writeVars>>

EpochMatches_SelectionOnly(r) ==
  echo[r] \in {Absent} \cup {[Token(who[r]) EXCEPT !.life = l] : l \in Lifecycles \cup {Active}}

EpochMatches(r) == echo[r] \in {Absent, Token(who[r])}

Match(r) ==
  /\ pc[r] = "comparing" /\ ReadLock(r)
  /\ EpochMatches(r)
  /\ pc' = [pc EXCEPT ![r] = "resolving"]
  /\ UNCHANGED <<data, client, placed, gates, readVars, writeVars>>

Mismatch(r) ==
  /\ pc[r] = "comparing" /\ ReadLock(r)
  /\ ~EpochMatches(r)
  /\ Answer(r, "discarded")
  /\ UNCHANGED <<data, client, placed, expired, echo, rendered, saw, dirtyReads, writeVars>>

\* produce(): the service resolves the selection in a transaction ...
Resolve(r) ==
  /\ pc[r] = "resolving" /\ ReadLock(r)
  /\ saw' = [saw EXCEPT ![r] = {Token(who[r])}]
  /\ pc' = [pc EXCEPT ![r] = "reading"]
  /\ UNCHANGED <<data, client, placed, gates, fences, echo, rendered, sampled, dirtyReads, writeVars>>

\* ... and reads the rows it answers with; the in-memory store's getters take no
\* lock, so there they may see a transaction that has not committed.
ReadRows(r) ==
  /\ pc[r] = "reading"
  /\ backend # "memory" => ReadLock(r)
  /\ saw' = [saw EXCEPT ![r] = @ \cup {Token(who[r])}]
  /\ dirtyReads' = IF \E w \in Writers : pc[w] = "dirty" /\ Key(w) \in {who[r], Global}
                     THEN dirtyReads \cup {r} ELSE dirtyReads
  /\ IF backend = "sqlite"
       THEN Answer(r, "served")
       ELSE pc' = [pc EXCEPT ![r] = "resampling"] /\ UNCHANGED <<waitsFor, fences, sampled>>
  /\ UNCHANGED <<data, client, placed, expired, echo, rendered, writeVars>>

Resample(r) ==
  /\ pc[r] = "resampling" /\ ReadLock(r)
  /\ Answer(r, IF sampled[r] = <<version[who[r]], version[Global]>> THEN "served"
                                                                     ELSE "discarded")
  /\ UNCHANGED <<data, client, placed, expired, echo, rendered, saw, dirtyReads, writeVars>>

-----------------------------------------------------------------------------
(* A switch, or a lifecycle change. *)

\* exclusive(): CONTEXT_GATE for a switch, LIFECYCLE_GATE for the global writers.
Enqueue(w, u, p) ==
  /\ waitsFor' = [waitsFor EXCEPT ![w] =
       IF w \in Switches
         THEN {t \in AtReplica(InContextGate \cup InGate(Switches), p) : who[t] = u}
         ELSE AtReplica(InLifecycleGate \cup InGate(Lifecycles), p)]
  /\ pc' = [pc EXCEPT ![w] = "queued"]
  /\ UNCHANGED <<data, client, expired, readVars, writeVars>>

Register(w, u, p) ==
  /\ w \in Writers /\ pc[w] = "idle" /\ SharesStore(p)
  /\ at' = [at EXCEPT ![w] = p]
  /\ who' = [who EXCEPT ![w] = u]
  /\ UNCHANGED backend
  /\ Enqueue(w, u, p)

\* A guarded mutation holds its gate for one attempt: the next one queues again.
RegisterAgain(w) ==
  /\ pc[w] = "retrying"
  /\ UNCHANGED placed
  /\ Enqueue(w, who[w], at[w])

WriterPasses(w) ==
  /\ pc[w] = "queued"
  /\ PassGate(w)
  /\ waitsFor' = [waitsFor EXCEPT ![w] = {}]
  /\ pc' = [pc EXCEPT ![w] = "ready"]
  /\ UNCHANGED <<data, client, placed, readVars, writeVars>>

\* transaction(): store._lock, then the database's BEGIN.  On PostgreSQL the
\* snapshot is that of the counter UPSERT, issued before any lock is waited for.
Begin(w) ==
  /\ pc[w] = "ready" /\ StoreFree(at[w])
  /\ attempts' = [attempts EXCEPT ![w] = @ + 1]
  /\ snap' = [snap EXCEPT ![w] = Token(who[w])]
  /\ pc' = [pc EXCEPT ![w] = CASE backend = "postgres" -> "fencing"
                               [] backend = "sqlite" -> "opening"
                               [] backend = "memory" -> "fenced"]
  /\ UNCHANGED <<data, client, placed, gates, readVars>>

\* BEGIN IMMEDIATE gets the file; the state it starts from is read after it.
OpenFileForWrite(w) ==
  /\ pc[w] = "opening" /\ FileHolders = {}
  /\ snap' = [snap EXCEPT ![w] = Token(who[w])]
  /\ pc' = [pc EXCEPT ![w] = "fenced"]
  /\ UNCHANGED <<data, client, placed, gates, readVars, attempts>>

\* The counter's row lock ...
FenceRow(w) ==
  /\ pc[w] = "fencing" /\ RowHolders(Key(w)) = {}
  /\ pc' = [pc EXCEPT ![w] = "locking"]
  /\ UNCHANGED <<data, client, placed, gates, readVars, writeVars>>

\* ... then the advisory lock.
FenceExclusive(w) ==
  /\ pc[w] = "locking" /\ SharedHolders(Key(w)) = {}
  /\ pc' = [pc EXCEPT ![w] = "fenced"]
  /\ UNCHANGED <<data, client, placed, gates, readVars, writeVars>>

\* The writer's locals go with it.
Close(w) ==
  /\ attempts' = [attempts EXCEPT ![w] = 0]
  /\ snap' = [snap EXCEPT ![w] = Absent]

\* lock_timeout, SQLITE_BUSY, or the counter's row updated since the snapshot:
\* the transaction rolls back and is tried again, a bounded number of times.
MustWait_NoLockTimeout(w) ==
  \/ pc[w] = "opening" /\ FileHolders # {}
  \/ pc[w] = "fencing" /\ RowHolders(Key(w)) # {}

MustWait(w) ==
  \/ pc[w] = "opening" /\ FileHolders # {}
  \/ pc[w] = "fencing" /\ RowHolders(Key(w)) # {}
  \/ pc[w] = "locking" /\ SharedHolders(Key(w)) # {}

Conflict(w) ==
  /\ w \in Writers
  /\ MustWait(w) \/ pc[w] = "stale"
  /\ IF attempts[w] < MaxAttempts
       THEN /\ pc' = [pc EXCEPT ![w] = IF w \in Switches THEN "ready" ELSE "retrying"]
            /\ IF w \in Switches THEN UNCHANGED waitsFor ELSE LeaveGates(w)
            /\ UNCHANGED writeVars
       ELSE /\ pc' = [pc EXCEPT ![w] = "failed"]
            /\ LeaveGates(w)
            /\ Close(w)
  /\ UNCHANGED <<data, client, placed, expired, readVars>>

\* The row written, and the counter bumped with it.  The generation is one more
\* than the one this transaction read.
Apply(w) ==
  /\ version' = [version EXCEPT ![Key(w)] = @ + 1]
  /\ IF w \in Switches
       THEN /\ generation' = [generation EXCEPT ![who[w]] = snap[w].gen + 1]
            /\ UNCHANGED lifecycle
       ELSE /\ lifecycle' = IF lifecycle = Active THEN w ELSE Active
            /\ UNCHANGED generation

\* The in-memory store writes in place.
Mutate(w) ==
  /\ pc[w] = "fenced" /\ backend = "memory"
  /\ Apply(w)
  /\ pc' = [pc EXCEPT ![w] = "dirty"]
  /\ UNCHANGED <<client, placed, gates, readVars, writeVars>>

\* A switch answers with the state of its own transaction.
Finish(w, others) ==
  /\ LeaveGates(w)
  /\ pc' = [t \in Requests |->
              IF t = w THEN (IF w \in Switches THEN "answering" ELSE "finished")
              ELSE IF t \in others THEN "stale" ELSE pc[t]]
  /\ IF w \in Switches THEN UNCHANGED writeVars ELSE Close(w)

CommitInPlace(w) ==
  /\ pc[w] = "dirty"
  /\ Finish(w, {})
  /\ UNCHANGED <<data, client, placed, expired, readVars>>

\* A database commit; PostgreSQL fails the UPSERTs that queued behind this one.
Commit(w) ==
  /\ pc[w] = "fenced" /\ backend # "memory"
  /\ Apply(w)
  /\ Finish(w, {o \in Writers : pc[o] = "fencing" /\ Key(o) = Key(w)})
  /\ UNCHANGED <<client, placed, expired, readVars>>

\* The body refuses or raises: everything it wrote is undone.
Abort(w) ==
  /\ pc[w] \in {"fenced", "dirty"}
  /\ IF pc[w] = "dirty"
       THEN /\ version' = [version EXCEPT ![Key(w)] = @ - 1]
            /\ generation' = [generation EXCEPT ![who[w]] = snap[w].gen]
            /\ lifecycle' = snap[w].life
       ELSE UNCHANGED data
  /\ LeaveGates(w)
  /\ Close(w)
  /\ pc' = [pc EXCEPT ![w] = "failed"]
  /\ UNCHANGED <<client, placed, expired, readVars>>

\* The switch's answer, written after the gate is left, re-renders the tab that
\* sent it, or belongs to another device of the same user.
AnswerSwitch(w) ==
  /\ pc[w] = "answering"
  /\ LET own == [gen |-> snap[w].gen + 1, life |-> snap[w].life]
     IN \/ TabInUse /\ page' = [page EXCEPT ![who[w]] = [epoch |-> own, tuple |-> own]]
        \/ UNCHANGED page
  /\ Close(w)
  /\ pc' = [pc EXCEPT ![w] = "finished"]
  /\ UNCHANGED <<data, deriving, placed, gates, readVars>>

ReadStep(r) ==
  \/ EnterLifecycleGate(r) \/ EnterFences(r)
  \/ FenceUser(r) \/ FenceGlobal(r) \/ FenceRefused(r)
  \/ OpenFile(r) \/ FileBusy(r)
  \/ Sample(r) \/ Match(r) \/ Mismatch(r)
  \/ Resolve(r) \/ ReadRows(r) \/ Resample(r)

WriteStep(w) ==
  \/ RegisterAgain(w) \/ WriterPasses(w) \/ Begin(w) \/ OpenFileForWrite(w)
  \/ FenceRow(w) \/ FenceExclusive(w) \/ Conflict(w)
  \/ Mutate(w) \/ CommitInPlace(w) \/ Commit(w) \/ Abort(w) \/ AnswerSwitch(w)

Next ==
  \/ \E u \in Users : DeriveEpoch(u) \/ ReadTuple(u)
  \/ \E t \in Requests, u \in Users, p \in Replicas : Issue(t, u, p) \/ Register(t, u, p)
  \/ \E r \in Reads : ReadStep(r)
  \/ \E w \in Writers : WriteStep(w)

Spec == Init /\ [][Next]_vars

\* Every thread runs; service calls and transactions end; bounds expire.
Fairness ==
  /\ \A r \in Reads : WF_vars(ReadStep(r))
  /\ \A w \in Writers : WF_vars(WriteStep(w))

-----------------------------------------------------------------------------
(***************************************************************************)
(* Properties.                                                             *)
(***************************************************************************)

MaybeToken == Tokens \cup {Absent}
Location == {"idle", "binding", "entering", "served", "discarded", "answering",
             "finished", "failed", "retrying"} \cup ReadWindow \cup WriterInGate

TypeOK ==
  /\ \A u \in Users : Token(u) \in Tokens
  /\ version \in [Keys -> 0..Cardinality(Writers)]
  /\ page \in [Users -> [epoch : Tokens, tuple : Tokens]]
  /\ deriving \in [Users -> MaybeToken]
  /\ pc \in [Requests -> Location]
  /\ backend \in Backends
  /\ at \in [Requests -> Replicas \cup {Absent}] /\ who \in [Requests -> Users \cup {Absent}]
  /\ waitsFor \in [Requests -> SUBSET Requests]
  /\ expired \subseteq Requests /\ dirtyReads \subseteq Reads
  /\ fences \in [Reads -> SUBSET Keys]
  /\ echo \in [Reads -> MaybeToken] /\ rendered \in [Reads -> MaybeToken]
  /\ \A r \in Reads : sampled[r] = Absent \/ sampled[r] \in Nat \X Nat
  /\ saw \in [Reads -> SUBSET Tokens]
  /\ attempts \in [Writers -> 0..MaxAttempts]
  /\ snap \in [Writers -> MaybeToken]

Echoing(r) == echo[r] # Absent

\* No torn read: a served read that echoed an epoch ran its service call against
\* exactly the state that epoch names, from its first store read to its last,
\* whatever switches, archives, expired bounds and timeouts fell in between.  The
\* one way out is the in-memory store's: a row seen before its writer raised.
ServedAsEchoed ==
  \A r \in Reads :
    pc[r] = "served" /\ Echoing(r) /\ r \notin dirtyReads => saw[r] = {echo[r]}

\* Only a gate bound that expired lets a service call see uncommitted rows.
DirtyReadsNeedExpiry == dirtyReads # {} => expired # {}

\* The zero-call contract: a discarded read never reached its service call,
\* except on the in-memory store after a gate bound has expired.
DiscardedUnserved ==
  \A r \in Reads :
    pc[r] = "discarded" /\ ~(backend = "memory" /\ expired # {}) => saw[r] = {}

\* End to end: no answer is given to a page for a selection the page was not
\* rendered from, in whatever order its epoch and its tuple were read.
ServedForRenderedSelection ==
  \A r \in Reads :
    pc[r] = "served" /\ Echoing(r) /\ r \notin dirtyReads =>
      \A state \in saw[r] : state.gen = rendered[r].gen

\* A -> B -> A is told from A: no two switches of a user write the same
\* generation, even when both were started from one snapshot.
Written(u) == {w \in Switches : who[w] = u /\ pc[w] \in {"dirty", "answering", "finished"}}
GenerationsDistinct ==
  \A u \in Users : generation[u] = Cardinality(Written(u))

\* Whatever races it, a read is served whole, for the selection its page was
\* rendered from, or not at all.
ReadSound ==
  /\ TypeOK
  /\ ServedAsEchoed
  /\ DirtyReadsNeedExpiry
  /\ DiscardedUnserved
  /\ ServedForRenderedSelection
  /\ GenerationsDistinct

\* Between its epoch check and the end of its service call nothing a read's
\* epoch names changes under it: the order of the two is decided, not detected.
Window == {"comparing", "resolving", "reading", "resampling"}
WindowFrozen ==
  [][\A r \in Reads :
       pc[r] \in Window /\ pc'[r] \in Window /\ ~(backend = "memory" /\ expired # {})
         => Token(who[r])' = Token(who[r])]_vars

\* Every request ends: bounds, retries and timeouts resolve every wait.
EveryRequestEnds ==
  \A t \in Requests : pc[t] # "idle" ~> pc[t] \in {"served", "discarded", "finished", "failed"}
-----------------------------------------------------------------------------
\* For TLC: requests of a kind, and replicas, are alike.
Symmetry == Permutations(Reads) \cup Permutations(Switches)
            \cup Permutations(Lifecycles) \cup Permutations(Replicas)
=============================================================================
