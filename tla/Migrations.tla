------------------------------ MODULE Migrations -------------------------------
(***************************************************************************)
(* Upgrading the schema (store/sql_store.py, migrate): every process that  *)
(* starts brings the database to the version it was built for, one         *)
(* migration after the other, while other processes start as well and      *)
(* those of the old version still write.  A migration that adds a          *)
(* constraint looks first for rows that break it: most look before their   *)
(* transaction opens, two inside it, behind a lock that keeps writers out, *)
(* because what the database says of such a row must not be shown.         *)
(*                                                                         *)
(* What a transaction writes is seen when it commits; a refused one leaves *)
(* nothing.  Each migration has a table of its own.  Of its rows only      *)
(* whether some break the constraint is kept.  The ledger's table exists.  *)
(***************************************************************************)
EXTENDS Naturals, Sequences

CONSTANTS
  Processes,
  Versions,   \* numbered in the order of their files' names
  Kind,       \* version -> "plain", "checked" or "locked"
  Files,      \* version -> the dialects it ships: "portable", or an engine's
  Builds,     \* sets of versions a process may have been built with
  Engines,
  MaxMishaps  \* bound: offending writes and stops

\* Assumed by the modules that give the constants their values.
MigrationsAssumption ==
  /\ Versions \subseteq Nat \ {0}
  /\ \A b \in Builds : b \subseteq Versions /\ \A v \in b : \A u \in Versions : u < v => u \in b

VARIABLES
  engine,    \* chosen once
  ledger,    \* rows of schema_migrations
  ran,       \* version -> variants that were run and committed (history)
  offending, \* versions whose constraint some row breaks
  process,   \* process -> [at, build, known, version]
  named,     \* versions whose statements met an offending row (history)
  mishaps

migrationVars == <<engine, ledger, ran, offending, process, named, mishaps>>
database == <<ledger, ran, offending, named>>

Stopped == [at |-> "off", build |-> {}, known |-> {}, version |-> 0]
Put(p, at) == process' = [process EXCEPT ![p].at = at]
At(p, at) == process[p].at = at
Version(p) == process[p].version
Build(p) == process[p].build

-----------------------------------------------------------------------------
(* The files.                                                              *)

\* One portable file, or one for each engine, and nothing in between.
WellShaped(v) == Files[v] \in {{"portable"}, {"sqlite", "postgres"}}
Variant(v) == IF Files[v] = {"portable"} THEN "portable" ELSE engine

-----------------------------------------------------------------------------
(* Who keeps whom out.  An open transaction holds the whole SQLite file    *)
(* (BEGIN IMMEDIATE); on PostgreSQL its migration's table, from the LOCK   *)
(* TABLE of a locked migration or from the first statement of another.     *)

Holds(p, v) ==
  IF engine = "sqlite" THEN process[p].at \in {"open", "checked", "altered"}
  ELSE Version(p) = v /\ (\/ process[p].at = "altered"
                          \/ process[p].at \in {"open", "checked"} /\ Kind[v] = "locked")
Free(p, v) == \A q \in Processes \ {p} : ~Holds(q, v)

-----------------------------------------------------------------------------
(* One process's upgrade.                                                  *)

Launch(p, build) ==
  /\ At(p, "off")
  /\ process' = [process EXCEPT ![p] = [Stopped EXCEPT !.at = "starting", !.build = build]]
  /\ UNCHANGED <<engine, database, mishaps>>

\* The ledger is read once; the files' shapes are looked at before any is run.
Start(p) ==
  /\ At(p, "starting")
  /\ process' = [process EXCEPT ![p] =
       [@ EXCEPT !.at = IF \A v \in Build(p) : WellShaped(v) THEN "next" ELSE "failed",
                 !.known = ledger]]
  /\ UNCHANGED <<engine, database, mishaps>>

Pending(p) == {v \in Build(p) \ process[p].known : v > Version(p)}
NextVersion(p) ==
  /\ At(p, "next")
  /\ \/ /\ Pending(p) = {} /\ Put(p, "up")
     \/ \E v \in Pending(p) :
          /\ \A u \in Pending(p) : v <= u
          /\ process' = [process EXCEPT ![p].version = v,
                           ![p].at = IF Kind[v] = "checked" THEN "precheck" ELSE "begin"]
  /\ UNCHANGED <<engine, database, mishaps>>

Precheck(p) ==
  /\ At(p, "precheck")
  /\ Put(p, IF Version(p) \in offending THEN "failed" ELSE "begin")
  /\ UNCHANGED <<engine, database, mishaps>>

NeedsLock(p) == engine = "sqlite" \/ Kind[Version(p)] = "locked"
Begin(p) ==
  /\ At(p, "begin") /\ (NeedsLock(p) => Free(p, Version(p)))
  /\ Put(p, "open")
  /\ UNCHANGED <<engine, database, mishaps>>
\* SQLite waits five seconds for its file.
Busy(p) ==
  /\ At(p, "begin") /\ engine = "sqlite" /\ ~Free(p, Version(p))
  /\ Put(p, "failed")
  /\ UNCHANGED <<engine, database, mishaps>>

CheckInside(p) ==
  /\ At(p, "open") /\ Kind[Version(p)] = "locked"
  /\ Put(p, IF Version(p) \in offending THEN "failed" ELSE "checked")
  /\ UNCHANGED <<engine, database, mishaps>>

\* The statements.  An offending row refuses the constraint; a migration that
\* another process has made meanwhile meets its own traces, unless it can be
\* run twice.
Alter(p) ==
  LET v == Version(p) IN
  /\ At(p, "checked") \/ (At(p, "open") /\ Kind[v] # "locked")
  /\ Free(p, v)
  /\ \/ /\ v \in offending /\ v \notin ledger
        /\ Put(p, "failed") /\ named' = named \cup {v}
     \/ /\ v \in ledger /\ Put(p, "failed") /\ UNCHANGED named
     \/ /\ v \notin offending /\ Put(p, "altered") /\ UNCHANGED named
  /\ UNCHANGED <<engine, ledger, ran, offending, mishaps>>

\* The ledger's row and the commit; its key refuses a version twice.
Record(p) ==
  LET v == Version(p) IN
  /\ At(p, "altered")
  /\ \/ /\ v \notin ledger /\ Put(p, "next")
        /\ ledger' = ledger \cup {v}
        /\ ran' = [ran EXCEPT ![v] = Append(@, Variant(v))]
     \/ v \in ledger /\ Put(p, "failed") /\ UNCHANGED <<ledger, ran>>
  /\ UNCHANGED <<engine, offending, named, mishaps>>

\* The store closes its connection and the process is started again.
Restart(p) ==
  /\ At(p, "failed")
  /\ process' = [process EXCEPT ![p] = [Stopped EXCEPT !.at = "starting", !.build = Build(p)]]
  /\ UNCHANGED <<engine, database, mishaps>>

-----------------------------------------------------------------------------
(* Around it.                                                              *)

Mishap == mishaps < MaxMishaps /\ mishaps' = mishaps + 1

\* The database takes back what an open transaction wrote.
Stop(p) ==
  /\ ~At(p, "off") /\ Mishap
  /\ process' = [process EXCEPT ![p] = Stopped]
  /\ UNCHANGED <<engine, database>>

Nobody(v) == \A q \in Processes : ~Holds(q, v)
Write(v) ==
  /\ v \notin ledger \cup offending /\ Kind[v] # "plain" /\ Nobody(v) /\ Mishap
  /\ offending' = offending \cup {v}
  /\ UNCHANGED <<engine, ledger, ran, process, named>>
\* An operator deletes the rows that the refusal names.
Repair(v) ==
  /\ v \in offending /\ Nobody(v)
  /\ offending' = offending \ {v}
  /\ UNCHANGED <<engine, ledger, ran, process, named, mishaps>>

-----------------------------------------------------------------------------
MigrationsInit ==
  /\ engine \in Engines
  /\ ledger = {} /\ ran = [v \in Versions |-> <<>>]
  /\ offending = {} /\ named = {}
  /\ process = [p \in Processes |-> Stopped] /\ mishaps = 0

UpgradeStep(p) ==
  \/ Start(p) \/ NextVersion(p) \/ Precheck(p) \/ Begin(p) \/ Busy(p)
  \/ CheckInside(p) \/ Alter(p) \/ Record(p) \/ Restart(p)
MigrationsNext ==
  \/ \E p \in Processes : UpgradeStep(p) \/ Stop(p) \/ \E b \in Builds : Launch(p, b)
  \/ \E v \in Versions : Write(v) \/ Repair(v)

\* A process that is starting goes on, a failed one is started again, and rows
\* that stop an upgrade are repaired.
MigrationsFairness ==
  /\ \A p \in Processes : WF_migrationVars(UpgradeStep(p))
  /\ \A v \in Versions : SF_migrationVars(Repair(v))
MigrationsSpec == MigrationsInit /\ [][MigrationsNext]_migrationVars /\ MigrationsFairness

-----------------------------------------------------------------------------
(* Properties                                                              *)

\* The ledger tells what was done: each version once, in order, in the text
\* made for this engine.
LedgerTells == \A v \in Versions :
  /\ ran[v] = IF v \in ledger THEN <<Variant(v)>> ELSE <<>>
  /\ v \in ledger => WellShaped(v) /\ \A u \in Versions : u < v => u \in ledger

\* A process serves only on a schema that has all it was built for, and no row
\* breaks a constraint that is there.
ServesCurrent == \A p \in Processes : At(p, "up") => Build(p) \subseteq ledger
ConstraintsHold == offending \cap ledger = {}

\* A row that breaks a locked migration's constraint is found by its own check
\* and never by the engine, whose message quotes the row: the translation of
\* such a message is never needed.
NeverQuoted == \A v \in named : Kind[v] # "locked"

UpgradeSound == LedgerTells /\ ServesCurrent /\ ConstraintsHold /\ NeverQuoted

\* However many start at once, fail on each other or on a row, or stop: each
\* properly built process that is launched gets to serve.
StartServes(p) ==
  At(p, "starting") /\ (\A v \in Build(p) : WellShaped(v))
    ~> At(p, "up") \/ At(p, "off")
================================================================================
