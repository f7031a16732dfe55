----------------------------- MODULE AssetTransfer -----------------------------
(***************************************************************************)
(* The batch that moves fixed assets between books and locations in Oracle *)
(* Fusion: src/main/python/batch_entrypoint.py and ofam_asset_xfer.        *)
(*                                                                         *)
(* A run writes the requested descriptive fields (the wishes), reads a     *)
(* report per book, checks its rows one by one against Fusion, keeping the *)
(* state it was told, and then posts the transfers one by one from what it *)
(* kept.  Posts are never repeated within a run; the next run starts over. *)
(*                                                                         *)
(* Fusion is external: a report may lag behind it and list a row twice, an *)
(* answer may get lost, and a transfer names what it moves, so that one    *)
(* whose source is no longer there is refused.  X_... is a seeded mistake. *)
(***************************************************************************)
EXTENDS Naturals, Sequences

CONSTANTS
  Assets, Books, Locations, None,
  Scanned, Blocked,   \* books the configuration lists and blocks
  MaxPending,         \* max_transfers
  MaxRows, MaxRuns, MaxWishes   \* bounds

\* Assumed by the modules that give the constants their values.
TransferAssumption ==
  /\ Scanned \cup Blocked \subseteq Books
  /\ None \notin Locations \cup Books

VARIABLES
  placed,  \* asset -> [book, location], in Fusion
  before,  \* asset -> where it was: what a lagging report shows
  wish,    \* asset -> [book, location] its descriptive fields ask for
  moves,   \* asset -> transfers Fusion accepted for its wish
  job,     \* [stage, dry, rows, pending, results]
  runs, wishes

transferVars == <<placed, before, wish, moves, job, runs, wishes>>

Place(b, l) == [book |-> b, location |-> l]
NoWish == Place(None, None)
NoJob == [stage |-> "none", dry |-> TRUE, rows |-> <<>>, pending |-> <<>>, results |-> <<>>]
Fusion == <<placed, before, moves>>

-----------------------------------------------------------------------------

\* main: both flags given is a dry run.
StartRun(execute, dryRun) ==
  /\ job.stage \in {"none", "done"} /\ runs < MaxRuns /\ runs' = runs + 1
  /\ job' = [NoJob EXCEPT !.stage = "wishes", !.dry = ~(execute /\ ~dryRun)]
  /\ UNCHANGED <<Fusion, wish, wishes>>

Ask(a, w) ==
  /\ wishes < MaxWishes /\ wishes' = wishes + 1
  /\ w # wish[a]
  /\ wish' = [wish EXCEPT ![a] = w] /\ moves' = [moves EXCEPT ![a] = 0]
  /\ UNCHANGED <<placed, before, job, runs>>
\* PreBipDffUpdater.apply_update; one that fails changes nothing.
Plans == job.dry
UpdateWish(a, w) == job.stage = "wishes" /\ ~Plans /\ Ask(a, w)
\* Someone else may write the fields at any time.
OtherWish(a, w) == job.stage \in {"none", "done"} /\ Ask(a, w)
WishesDone ==
  /\ job.stage = "wishes" /\ job' = [job EXCEPT !.stage = "report"]
  /\ UNCHANGED <<Fusion, wish, runs, wishes>>

\* run_report, for each scanned book: rows of assets whose wish is set, as
\* they are or were, in any order and perhaps more than once; a book whose
\* report fails is left out.
ReportRow(a, seen) ==
  /\ job.stage = "report" /\ Len(job.rows) < MaxRows
  /\ wish[a].book # None /\ seen \in {placed[a], before[a]} /\ seen.book \in Scanned
  /\ job' = [job EXCEPT !.rows = Append(@, [asset |-> a, seen |-> seen, to |-> wish[a]])]
  /\ UNCHANGED <<Fusion, wish, runs, wishes>>
Reported ==
  /\ job.stage = "report" /\ job' = [job EXCEPT !.stage = "check"]
  /\ UNCHANGED <<Fusion, wish, runs, wishes>>

\* _check_bip_row; get_asset_information answers for the book the row names.
Skips(row) ==
  \/ row.seen.location = row.to.location /\ row.to.location # None
  \/ {row.seen.book, row.to.book} \cap Blocked # {}
  \/ row.seen.book = row.to.book /\ row.to.location = None
  \/ placed[row.asset].book # row.seen.book
Check ==
  LET row == Head(job.rows) IN
  /\ job.stage = "check" /\ job.rows # <<>> /\ Len(job.pending) < MaxPending
  /\ job' = [job EXCEPT !.rows = Tail(@), !.pending =
       IF Skips(row) THEN @
       ELSE Append(@, [asset |-> row.asset, to |-> row.to, state |-> placed[row.asset]])]
  /\ UNCHANGED <<Fusion, wish, runs, wishes>>
\* get_asset_information failed.
CheckFails ==
  /\ job.stage = "check" /\ job.rows # <<>> /\ Len(job.pending) < MaxPending
  /\ job' = [job EXCEPT !.rows = Tail(@)]
  /\ UNCHANGED <<Fusion, wish, runs, wishes>>
Checked ==
  /\ job.stage = "check" /\ (job.rows = <<>> \/ Len(job.pending) = MaxPending)
  /\ job' = [job EXCEPT !.stage = "execute"]
  /\ UNCHANGED <<Fusion, wish, runs, wishes>>

-----------------------------------------------------------------------------
(* execute_transfer                                                        *)

Destination(p) == [p.to EXCEPT !.location = IF @ = None THEN p.state.location ELSE @]
\* build_same_book_transfer_params: only within one book is there nothing to do.
Noop_Never(p) == FALSE
Noop(p) == p.to.book = p.state.book /\ Destination(p) = p.state
Executed(status) ==
  job' = [job EXCEPT !.pending = Tail(@),
            !.results = Append(@, [asset |-> Head(job.pending).asset, status |-> status])]
Pending == job.stage = "execute" /\ job.pending # <<>>

ExecuteNoop ==
  /\ Pending /\ Noop(Head(job.pending)) /\ Executed("NOOP")
  /\ UNCHANGED <<Fusion, wish, runs, wishes>>
ExecuteDry ==
  /\ Pending /\ ~Noop(Head(job.pending)) /\ Plans /\ Executed("DRY_RUN")
  /\ UNCHANGED <<Fusion, wish, runs, wishes>>
\* Fusion: a transfer within a book names the distribution it ends, one
\* between books names its book.
Accepts(p) == IF p.to.book = p.state.book THEN placed[p.asset] = p.state
              ELSE placed[p.asset].book = p.state.book
Post(status) ==
  LET p == Head(job.pending) IN
  /\ Pending /\ ~Noop(p) /\ ~Plans /\ Accepts(p)
  /\ placed' = [placed EXCEPT ![p.asset] = Destination(p)]
  /\ before' = [before EXCEPT ![p.asset] = placed[p.asset]]
  /\ moves' = [moves EXCEPT ![p.asset] = @ + 1]
  /\ Executed(status) /\ UNCHANGED <<wish, runs, wishes>>
\* No status S, an error, a timeout before Fusion acted.
Refused ==
  /\ Pending /\ ~Noop(Head(job.pending)) /\ ~Plans /\ Executed("FAILED")
  /\ UNCHANGED <<Fusion, wish, runs, wishes>>

\* The results are written, or an exception or a stop loses them.
Finish ==
  /\ job.stage = "execute" /\ job.pending = <<>> /\ job' = [job EXCEPT !.stage = "done"]
  /\ UNCHANGED <<Fusion, wish, runs, wishes>>
Fatal ==
  /\ job.stage \notin {"none", "done"} /\ job' = NoJob
  /\ UNCHANGED <<Fusion, wish, runs, wishes>>

-----------------------------------------------------------------------------

TransferInit ==
  /\ placed \in [Assets -> [book : Books, location : Locations]]
  /\ before = placed
  /\ wish = [a \in Assets |-> NoWish] /\ moves = [a \in Assets |-> 0]
  /\ job = NoJob /\ runs = 0 /\ wishes = 0

TransferNext ==
  \/ \E execute, dryRun \in BOOLEAN : StartRun(execute, dryRun)
  \/ \E a \in Assets, b \in Books, l \in Locations \cup {None} :
       UpdateWish(a, Place(b, l)) \/ OtherWish(a, Place(b, l))
  \/ \E a \in Assets : ReportRow(a, placed[a]) \/ ReportRow(a, before[a])
  \/ WishesDone \/ Reported \/ Check \/ CheckFails \/ Checked
  \/ ExecuteNoop \/ ExecuteDry \/ Post("TRANSFERRED") \/ Post("FAILED") \/ Refused
  \/ Finish \/ Fatal

TransferSpec == TransferInit /\ [][TransferNext]_transferVars

-----------------------------------------------------------------------------
(* Properties.                                                             *)

\* One wish moves an asset once: not again for a second row of the report, a
\* report that lags, an answer that was lost or a run that starts over.
MovedOnce == \A a \in Assets : moves[a] <= 1

\* A dry run leaves Fusion as it is, fields and assets both.
DryRunReads == [][job.dry /\ job.stage \notin {"none", "done"} => UNCHANGED <<placed, wish>>]_transferVars
================================================================================
