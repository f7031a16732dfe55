------------------------------ MODULE MCEndings --------------------------------
(***************************************************************************)
(* Four things that must end: the start of a server on a database it has   *)
(* to upgrade, a request to it, a message to a player or guardian, and a   *)
(* program of its own, an asset's transfer.  A behaviour exercises one and *)
(* leaves the others at rest.                                              *)
(***************************************************************************)
EXTENDS ScopedRead

CONSTANTS
  Notifications, Recipients, Player, Drains, Loops, ProcessOf, Addresses, Placeholder,
  MaxTries, Batch, MaxTrouble,
  Starting, Versions, Kind, Files, Builds, MaxMishaps,
  Assets, Books, Locations, None, Scanned, Blocked, MaxPending, MaxRows, MaxRuns, MaxWishes

VARIABLES
  part,
  stored, contact, optedOut, verified, drain, reached, trouble,
  shelf, before, wish, moves, job, runs, wishes,
  engine, ledger, ran, offending, process, named, mishaps
queueVars == <<stored, contact, optedOut, verified, drain, reached, trouble>>
assetVars == <<shelf, before, wish, moves, job, runs, wishes>>
upgradeVars == <<engine, ledger, ran, offending, process, named, mishaps>>

Queue == INSTANCE Delivery WITH MaxAttempts <- MaxTries
Transfer == INSTANCE AssetTransfer WITH placed <- shelf
Upgrade == INSTANCE Migrations WITH Processes <- Starting, Engines <- {"sqlite", "postgres"}

ASSUME EndingsAssumption ==
  Queue!DeliveryAssumption /\ Transfer!TransferAssumption /\ Upgrade!MigrationsAssumption

MCProcessOf == [w \in Drains |-> "server"]

\* A migration of each kind that looks for rows, and one whose files are for
\* one engine only; a process may be as old as the first.
MCKind == <<"checked", "locked", "plain">>
MCFiles == <<{"portable"}, {"sqlite", "postgres"}, {"sqlite"}>>
MCBuilds == {1..1, 1..2, 1..3}

EndingsInit ==
  /\ part \in {"server", "delivery", "transfer", "upgrade"}
  /\ Init /\ Queue!DeliveryInit /\ Transfer!TransferInit /\ Upgrade!MigrationsInit
  /\ part # "transfer" =>
       shelf = [a \in Assets |-> CHOOSE p \in [book : Scanned, location : Locations] : TRUE]
  /\ part # "upgrade" => engine = "sqlite"
EndingsNext ==
  /\ UNCHANGED part
  /\ \/ part = "server" /\ Next /\ UNCHANGED <<queueVars, assetVars, upgradeVars>>
     \/ part = "delivery" /\ Queue!DeliveryNext /\ UNCHANGED <<vars, assetVars, upgradeVars>>
     \/ part = "transfer" /\ Transfer!TransferNext /\ UNCHANGED <<vars, queueVars, upgradeVars>>
     \/ part = "upgrade" /\ Upgrade!MigrationsNext /\ UNCHANGED <<vars, queueVars, assetVars>>
EndingsSpec ==
  EndingsInit /\ [][EndingsNext]_<<part, vars, queueVars, assetVars, upgradeVars>>
    /\ Fairness /\ Queue!DeliveryFairness /\ Upgrade!MigrationsFairness

\* A message shown as sent is not sent again; every message comes to an end,
\* and every start of a properly built server: of "a", which is like any other.
NoResend == Queue!NoResend
Settles == Queue!Settles /\ Upgrade!StartServes("a")
\* A wish is fulfilled by at most one accepted transfer, and a schema upgraded
\* once a version, whoever starts beside whom.
DoneOnce == Transfer!MovedOnce /\ Upgrade!UpgradeSound
================================================================================
