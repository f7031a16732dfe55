----------------------------- MODULE EndingsProofs -----------------------------
(***************************************************************************)
(* Proofs about AssetTransfer, Migrations, Delivery and ScopedRead as      *)
(* MCEndings puts them together: for any sets of assets, books, places,    *)
(* versions, files, builds, processes, notifications, recipients, reads,   *)
(* switches, lifecycle changes, users and stores, and any bounds.          *)
(***************************************************************************)
EXTENDS MCEndings, FiniteSetTheorems, SequenceTheorems, WellFoundedInduction, TLAPS

-----------------------------------------------------------------------------
(* Asset transfers.                                                        *)

Spots == [book : Books \cup {None}, location : Locations \cup {None}]
ReportRow == [asset : Assets, seen : Spots, to : Spots]
Kept == [asset : Assets, to : Spots, state : Spots]
Result == [asset : Assets, status : {"NOOP", "DRY_RUN", "TRANSFERRED", "FAILED"}]

\* The asset is where its wish asks for it to be.
Granted(a) == shelf[a].book = wish[a].book /\ wish[a].location \in {None, shelf[a].location}
\* What a run has read is what is wished for.
Wished(rows) == \A i \in 1 .. Len(rows) : rows[i].to = wish[rows[i].asset]

TransferTypeOK ==
  /\ wish \in [Assets -> Spots] /\ moves \in [Assets -> Nat]
  /\ shelf \in [Assets -> Spots] /\ before \in [Assets -> Spots]
  /\ job \in [stage : {"none", "wishes", "report", "check", "execute", "done"}, dry : BOOLEAN,
              rows : Seq(ReportRow), pending : Seq(Kept), results : Seq(Result)]

TransferInv ==
  /\ TransferTypeOK
  /\ job.stage \in {"wishes", "report"} => job.pending = <<>>
  /\ job.stage = "wishes" => job.rows = <<>>
  /\ job.stage \in {"report", "check"} => Wished(job.rows)
  /\ job.stage \in {"check", "execute"} => Wished(job.pending)
  /\ \A a \in Assets : moves[a] <= 1 /\ (moves[a] = 1 => Granted(a))

LEMMA RestWished ==
  ASSUME NEW R, NEW rows \in Seq(R), rows # <<>>, Wished(rows)
  PROVE  /\ Tail(rows) \in Seq(R) /\ Wished(Tail(rows))
         /\ Head(rows) \in R /\ Head(rows).to = wish[Head(rows).asset]
<1>1. /\ Len(rows) \in Nat \ {0} /\ Head(rows) = rows[1] /\ Head(rows) \in R
      /\ Tail(rows) \in Seq(R) /\ Len(Tail(rows)) = Len(rows) - 1
      /\ \A i \in 1 .. Len(Tail(rows)) : Tail(rows)[i] = rows[i + 1]
  BY HeadTailProperties, EmptySeq
<1>2. \A i \in 1 .. Len(Tail(rows)) : i + 1 \in 1 .. Len(rows) BY <1>1
<1>3. 1 \in 1 .. Len(rows) BY <1>1
<1>. QED BY <1>1, <1>2, <1>3 DEF Wished

LEMMA OneMoreWished ==
  ASSUME NEW R, NEW rows \in Seq(R), NEW row \in R, Wished(rows), row.to = wish[row.asset]
  PROVE  Append(rows, row) \in Seq(R) /\ Wished(Append(rows, row))
<1>1. /\ Append(rows, row) \in Seq(R) /\ Len(Append(rows, row)) = Len(rows) + 1 /\ Len(rows) \in Nat
      /\ \A i \in 1 .. Len(rows) : Append(rows, row)[i] = rows[i]
      /\ Append(rows, row)[Len(rows) + 1] = row
  BY AppendProperties
<1>2. \A i \in 1 .. Len(rows) + 1 : i \in 1 .. Len(rows) \/ i = Len(rows) + 1 BY <1>1
<1>. QED BY <1>1, <1>2 DEF Wished

\* Fusion accepts no second transfer of what is where it is wished to be.
LEMMA PostMoves ==
  ASSUME TransferInv, NEW status \in {"TRANSFERRED", "FAILED"}, Transfer!Post(status)
  PROVE  /\ shelf' \in [Assets -> Spots] /\ before' \in [Assets -> Spots] /\ moves' \in [Assets -> Nat]
         /\ \A a \in Assets : moves'[a] <= 1 /\ (moves'[a] = 1 => Granted(a)')
<1> DEFINE p == Head(job.pending)
           to == Transfer!Destination(p)
<1>1. /\ job.stage = "execute" /\ job.pending # <<>>
      /\ ~Transfer!Noop(p) /\ Transfer!Accepts(p) /\ wish' = wish
      /\ moves' = [moves EXCEPT ![p.asset] = @ + 1]
      /\ shelf' = [shelf EXCEPT ![p.asset] = to]
      /\ before' = [before EXCEPT ![p.asset] = shelf[p.asset]]
  BY DEF Transfer!Post, Transfer!Pending
<1>2. p \in Kept /\ p.to = wish[p.asset]
  BY <1>1, RestWished DEF TransferInv, TransferTypeOK
<1> HIDE DEF p
<1>3. /\ to \in Spots /\ to.book = p.to.book
      /\ to.location = IF p.to.location = None THEN p.state.location ELSE p.to.location
  BY <1>2 DEF Transfer!Destination, Kept, Spots
<1>4. moves[p.asset] # 1
  <2> SUFFICES ASSUME moves[p.asset] = 1 PROVE FALSE OBVIOUS
  <2>1. Granted(p.asset) BY <1>2 DEF TransferInv, Kept
  <2>2. CASE p.to.book = p.state.book
    <3>1. shelf[p.asset] = p.state BY <1>1, <2>2 DEF Transfer!Accepts
    <3>2. to.book = p.state.book /\ to.location = p.state.location
      BY <1>2, <1>3, <2>1, <2>2, <3>1 DEF Granted
    <3>3. to = p.state BY <1>2, <1>3, <3>2 DEF Kept, Spots
    <3>. QED BY <1>1, <2>2, <3>3 DEF Transfer!Noop
  <2>3. CASE p.to.book # p.state.book
    BY <1>1, <1>2, <2>1, <2>3 DEF Transfer!Accepts, Granted
  <2>. QED BY <2>2, <2>3
<1>5. moves \in [Assets -> Nat] /\ shelf \in [Assets -> Spots] /\ before \in [Assets -> Spots]
      /\ p.asset \in Assets /\ \A a \in Assets : moves[a] <= 1
  BY <1>2 DEF TransferInv, TransferTypeOK, Kept
<1> HIDE DEF to
<1>6. ASSUME NEW a \in Assets PROVE moves'[a] <= 1 /\ (moves'[a] = 1 => Granted(a)')
  <2>1. CASE a = p.asset
    <3>1. moves'[a] = 1 BY <1>1, <1>4, <1>5, <2>1
    <3>2. Granted(a)' BY <1>1, <1>2, <1>3, <1>5, <2>1 DEF Granted
    <3>. QED BY <3>1, <3>2
  <2>2. CASE a # p.asset
    <3>1. moves'[a] = moves[a] /\ shelf'[a] = shelf[a] BY <1>1, <1>5, <2>2
    <3>. QED BY <1>1, <1>5, <3>1 DEF TransferInv, Granted
  <2>. QED BY <2>1, <2>2
<1>7. shelf' \in [Assets -> Spots] /\ before' \in [Assets -> Spots] /\ moves' \in [Assets -> Nat]
  BY <1>1, <1>3, <1>5
<1>. QED BY <1>6, <1>7

\* A step of the run alone.
JobKept ==
  /\ job' \in [stage : {"none", "wishes", "report", "check", "execute", "done"}, dry : BOOLEAN,
               rows : Seq(ReportRow), pending : Seq(Kept), results : Seq(Result)]
  /\ job'.stage \in {"wishes", "report"} => job'.pending = <<>>
  /\ job'.stage = "wishes" => job'.rows = <<>>
  /\ job'.stage \in {"report", "check"} => Wished(job'.rows)
  /\ job'.stage \in {"check", "execute"} => Wished(job'.pending)

LEMMA RunStep ==
  ASSUME TransferInv, UNCHANGED <<wish, shelf, before, moves>>, JobKept
  PROVE  TransferInv'
<1>1. TransferTypeOK' BY DEF TransferInv, TransferTypeOK, JobKept
<1>2. \A a \in Assets : moves'[a] <= 1 /\ (moves'[a] = 1 => Granted(a)')
  BY DEF TransferInv, Granted
<1>. QED BY <1>1, <1>2 DEF TransferInv, JobKept, Wished

\* The run puts what is next in the pending transfers behind it.
LEMMA ExecutedStep ==
  ASSUME TransferInv, job.stage = "execute", job.pending # <<>>, NEW status \in {"NOOP", "DRY_RUN", "TRANSFERRED", "FAILED"},
         Transfer!Executed(status), wish' = wish
  PROVE  JobKept /\ job'.stage = "execute"
<1> DEFINE result == [asset |-> Head(job.pending).asset, status |-> status]
<1>1. /\ Tail(job.pending) \in Seq(Kept) /\ Wished(Tail(job.pending)) /\ Head(job.pending) \in Kept
  BY RestWished DEF TransferInv, TransferTypeOK
<1>2. Append(job.results, result) \in Seq(Result)
  <2>1. result \in Result BY <1>1 DEF Result, Kept
  <2> HIDE DEF result
  <2>2. job.results \in Seq(Result) BY DEF TransferInv, TransferTypeOK
  <2>. QED BY <2>1, <2>2, AppendProperties
<1>3. job' = [job EXCEPT !.pending = Tail(job.pending), !.results = Append(job.results, result)]
  BY DEF Transfer!Executed
<1> HIDE DEF result
<1>. QED BY <1>1, <1>2, <1>3 DEF TransferInv, TransferTypeOK, JobKept

LEMMA CheckStep ==
  ASSUME TransferInv, Transfer!Check \/ Transfer!CheckFails
  PROVE  TransferInv'
<1> DEFINE row == Head(job.rows)
           kept == [asset |-> row.asset, to |-> row.to, state |-> shelf[row.asset]]
<1>1. /\ job.stage = "check" /\ job.rows # <<>> /\ UNCHANGED <<wish, shelf, before, moves>>
      /\ \E pending \in {job.pending, Append(job.pending, kept)} :
           job' = [job EXCEPT !.rows = Tail(job.rows), !.pending = pending]
  BY DEF Transfer!Check, Transfer!CheckFails, Transfer!Fusion
<1>2. /\ Tail(job.rows) \in Seq(ReportRow) /\ Wished(Tail(job.rows))
      /\ row \in ReportRow /\ row.to = wish[row.asset]
  BY <1>1, RestWished DEF TransferInv, TransferTypeOK
<1> HIDE DEF row
<1>3. kept \in Kept /\ kept.to = wish[kept.asset]
  BY <1>2 DEF Kept, ReportRow, TransferInv, TransferTypeOK
<1>4. job.pending \in Seq(Kept) /\ Wished(job.pending) BY <1>1 DEF TransferInv, TransferTypeOK
<1> HIDE DEF kept
<1>5. Append(job.pending, kept) \in Seq(Kept) /\ Wished(Append(job.pending, kept))
  BY <1>3, <1>4, OneMoreWished
<1>6. JobKept
  <2>1. PICK pending \in {job.pending, Append(job.pending, kept)} :
          job' = [job EXCEPT !.rows = Tail(job.rows), !.pending = pending]
    BY <1>1
  <2>2. pending \in Seq(Kept) /\ Wished(pending) BY <1>4, <1>5
  <2>. QED BY <1>1, <1>2, <2>1, <2>2 DEF JobKept, TransferInv, TransferTypeOK
<1>. QED BY <1>1, <1>6, RunStep

\* A wish is written while no run works for it, or before the run has read it.
LEMMA AskStep ==
  ASSUME TransferInv, NEW a \in Assets, NEW w \in Spots, Transfer!Ask(a, w),
         job.stage \in {"none", "wishes", "done"}
  PROVE  TransferInv'
<1>1. /\ wish' = [wish EXCEPT ![a] = w] /\ moves' = [moves EXCEPT ![a] = 0]
      /\ UNCHANGED <<shelf, before, job>>
  BY DEF Transfer!Ask
<1>2. TransferTypeOK' BY <1>1 DEF TransferInv, TransferTypeOK
<1>3. \A b \in Assets : moves'[b] <= 1 /\ (moves'[b] = 1 => Granted(b)')
  BY <1>1 DEF TransferInv, TransferTypeOK, Granted
<1>. QED BY <1>1, <1>2, <1>3 DEF TransferInv

LEMMA TransferStep ==
  ASSUME TransferInv, Transfer!TransferNext
  PROVE  TransferInv'
<1>0. TransferTypeOK BY DEF TransferInv
<1>e. /\ <<>> \in Seq(ReportRow) /\ <<>> \in Seq(Kept) /\ <<>> \in Seq(Result) /\ Len(<<>>) = 0
      /\ Wished(<<>>)
  BY EmptySeq DEF Wished
<1>1. ASSUME NEW execute \in BOOLEAN, NEW dryRun \in BOOLEAN, Transfer!StartRun(execute, dryRun)
      PROVE  TransferInv'
  <2>1. JobKept BY <1>1, <1>e DEF Transfer!StartRun, Transfer!NoJob, JobKept
  <2>. QED BY <1>1, <2>1, RunStep DEF Transfer!StartRun, Transfer!Fusion
<1>2. ASSUME NEW a \in Assets, NEW b \in Books, NEW l \in Locations \cup {None},
             \/ Transfer!UpdateWish(a, Transfer!Place(b, l)) \/ Transfer!OtherWish(a, Transfer!Place(b, l))
      PROVE  TransferInv'
  <2>1. Transfer!Place(b, l) \in Spots BY DEF Transfer!Place, Spots
  <2>. QED BY <1>2, <2>1, AskStep DEF Transfer!UpdateWish, Transfer!OtherWish
<1>3. ASSUME NEW a \in Assets, Transfer!ReportRow(a, shelf[a]) \/ Transfer!ReportRow(a, before[a])
      PROVE  TransferInv'
  <2>1. PICK seen \in Spots : Transfer!ReportRow(a, seen)
    BY <1>0, <1>3 DEF TransferTypeOK
  <2> DEFINE row == [asset |-> a, seen |-> seen, to |-> wish[a]]
  <2>2. /\ job.stage = "report" /\ job' = [job EXCEPT !.rows = Append(job.rows, row)]
        /\ UNCHANGED <<wish, shelf, before, moves>>
    BY <2>1 DEF Transfer!ReportRow, Transfer!Fusion
  <2>3. row \in ReportRow /\ row.to = wish[row.asset] BY <1>0 DEF ReportRow, TransferTypeOK
  <2> HIDE DEF row
  <2>4. Append(job.rows, row) \in Seq(ReportRow) /\ Wished(Append(job.rows, row))
    BY <2>2, <2>3, OneMoreWished DEF TransferInv, TransferTypeOK
  <2>5. JobKept BY <2>2, <2>4 DEF JobKept, TransferInv, TransferTypeOK
  <2>. QED BY <2>2, <2>5, RunStep
<1>4. CASE Transfer!WishesDone \/ Transfer!Reported \/ Transfer!Checked \/ Transfer!Finish \/ Transfer!Fatal
  <2>1. UNCHANGED <<wish, shelf, before, moves>>
    BY <1>4 DEF Transfer!WishesDone, Transfer!Reported, Transfer!Checked, Transfer!Finish, Transfer!Fatal,
                Transfer!Fusion
  <2>2. CASE Transfer!Fatal
    <3>1. JobKept BY <1>e, <2>2 DEF JobKept, Transfer!Fatal, Transfer!NoJob
    <3>. QED BY <2>1, <3>1, RunStep
  <2>3. CASE ~Transfer!Fatal
    <3>1. PICK stage \in {"report", "check", "execute", "done"} : job' = [job EXCEPT !.stage = stage]
      BY <1>4, <2>3 DEF Transfer!WishesDone, Transfer!Reported, Transfer!Checked, Transfer!Finish
    <3>2. /\ stage = "report" => job.stage = "wishes"
          /\ stage = "check" => job.stage = "report"
          /\ stage = "execute" => job.stage = "check"
      BY <1>0, <1>4, <2>3, <3>1
      DEF TransferTypeOK, Transfer!WishesDone, Transfer!Reported, Transfer!Checked, Transfer!Finish
    <3>3. job' = [stage |-> stage, dry |-> job.dry, rows |-> job.rows, pending |-> job.pending,
                  results |-> job.results]
      BY <1>0, <3>1 DEF TransferTypeOK
    <3>4. JobKept BY <1>0, <1>e, <3>2, <3>3 DEF JobKept, TransferInv, TransferTypeOK
    <3>. QED BY <2>1, <3>4, RunStep
  <2>. QED BY <2>2, <2>3
<1>5. CASE Transfer!Check \/ Transfer!CheckFails BY <1>5, CheckStep
<1>6. CASE Transfer!ExecuteNoop \/ Transfer!ExecuteDry \/ Transfer!Refused
  <2>1. /\ job.stage = "execute" /\ job.pending # <<>> /\ UNCHANGED <<wish, shelf, before, moves>>
        /\ Transfer!Executed("NOOP") \/ Transfer!Executed("DRY_RUN") \/ Transfer!Executed("FAILED")
    BY <1>6 DEF Transfer!ExecuteNoop, Transfer!ExecuteDry, Transfer!Refused, Transfer!Pending, Transfer!Fusion
  <2>2. JobKept BY <2>1, ExecutedStep
  <2>. QED BY <2>1, <2>2, RunStep
<1>7. ASSUME NEW status \in {"TRANSFERRED", "FAILED"}, Transfer!Post(status)
      PROVE  TransferInv'
  <2>1. /\ job.stage = "execute" /\ job.pending # <<>> /\ wish' = wish /\ Transfer!Executed(status)
    BY <1>7 DEF Transfer!Post, Transfer!Pending
  <2>2. JobKept /\ job'.stage = "execute" BY <2>1, ExecutedStep
  <2>3. /\ shelf' \in [Assets -> Spots] /\ before' \in [Assets -> Spots] /\ moves' \in [Assets -> Nat]
        /\ \A a \in Assets : moves'[a] <= 1 /\ (moves'[a] = 1 => Granted(a)')
    BY <1>7, PostMoves
  <2>4. TransferTypeOK' BY <1>0, <2>1, <2>2, <2>3 DEF TransferTypeOK, JobKept
  <2>. QED BY <2>1, <2>2, <2>3, <2>4 DEF TransferInv, JobKept, Wished
<1>. QED BY <1>1, <1>2, <1>3, <1>4, <1>5, <1>6, <1>7 DEF Transfer!TransferNext

LEMMA TransferStarts == Transfer!TransferInit => TransferInv
<1> SUFFICES ASSUME Transfer!TransferInit PROVE TransferInv OBVIOUS
<1>1. <<>> \in Seq(ReportRow) /\ <<>> \in Seq(Kept) /\ <<>> \in Seq(Result) BY EmptySeq
<1>2. TransferTypeOK
  BY <1>1 DEF Transfer!TransferInit, TransferTypeOK, Transfer!NoJob, Transfer!NoWish, Transfer!Place, Spots
<1>3. job.stage = "none" /\ \A a \in Assets : moves[a] = 0
  BY DEF Transfer!TransferInit, Transfer!NoJob
<1>. QED BY <1>2, <1>3 DEF TransferInv

-----------------------------------------------------------------------------
(* Upgrades of the schema.                                                 *)

Stages == {"off", "starting", "next", "precheck", "begin", "open", "checked", "altered", "failed", "up"}
InHand == {"precheck", "begin", "open", "checked", "altered"}
Underway == InHand \cup {"next", "up"}

UpgradeTypeOK ==
  /\ ledger \subseteq Versions /\ offending \subseteq Versions /\ named \subseteq Versions
  /\ DOMAIN ran = Versions
  /\ process \in [Starting -> [at : Stages, build : SUBSET Versions, known : SUBSET Versions, version : Nat]]
  /\ \A p \in Starting : process[p].build \in Builds \cup {{}}

\* What a process that upgrades may rely on: the versions below the one in hand
\* are in the ledger, and no row breaks what it has checked behind its lock.
Covered(p, v) == \A u \in process[p].build : u < v => u \in ledger
UpgradeOf(p) ==
  LET v == process[p].version IN
  /\ process[p].at \in Underway =>
       /\ process[p].known \subseteq ledger
       /\ \A u \in process[p].build : Upgrade!WellShaped(u)
       /\ Covered(p, v)
  /\ process[p].at \in InHand => v \in process[p].build
  /\ process[p].at = "starting" => v = 0
  /\ process[p].at = "next" => Covered(p, v + 1)
  /\ process[p].at = "up" => process[p].build \subseteq ledger
  /\ process[p].at = "checked" => Kind[v] = "locked"
  /\ process[p].at \in {"checked", "altered"} => v \notin offending

UpgradeInv == UpgradeTypeOK /\ Upgrade!UpgradeSound /\ \A p \in Starting : UpgradeOf(p)

LEMMA VersionsNumbered ==
  /\ Versions \subseteq Nat /\ 0 \notin Versions
  /\ \A b \in Builds : b \subseteq Versions /\ \A v \in b : \A u \in Versions : u < v => u \in b
  BY EndingsAssumption DEF EndingsAssumption, Upgrade!MigrationsAssumption

\* The steps of a process that leave the database alone.
LEMMA OwnUpgradeStep ==
  ASSUME UpgradeInv, NEW p \in Starting, UNCHANGED <<engine, ledger, ran, offending, named>>,
         NEW r \in [at : Stages, build : SUBSET Versions, known : SUBSET Versions, version : Nat],
         process' = [process EXCEPT ![p] = r], r.build \in Builds \cup {{}},
         UpgradeOf(p)'
  PROVE  UpgradeInv'
<1>1. process'[p] = r /\ \A q \in Starting \ {p} : process'[q] = process[q]
  BY DEF UpgradeInv, UpgradeTypeOK
<1>2. UpgradeTypeOK' BY <1>1 DEF UpgradeInv, UpgradeTypeOK
<1>3. \A q \in Starting \ {p} : UpgradeOf(q)'
  BY <1>1 DEF UpgradeInv, UpgradeOf, Covered, Upgrade!WellShaped
<1>4. Upgrade!LedgerTells' /\ Upgrade!ConstraintsHold' /\ Upgrade!NeverQuoted'
  BY DEF UpgradeInv, Upgrade!UpgradeSound, Upgrade!LedgerTells, Upgrade!ConstraintsHold, Upgrade!NeverQuoted,
         Upgrade!Variant, Upgrade!WellShaped
<1>5. Upgrade!ServesCurrent'
  BY <1>3 DEF UpgradeOf, Upgrade!ServesCurrent, Upgrade!At, Upgrade!Build
<1>. QED BY <1>2, <1>3, <1>4, <1>5 DEF UpgradeInv, Upgrade!UpgradeSound

LEMMA UpgradeStepAlone ==
  ASSUME UpgradeInv, NEW p \in Starting,
         \/ \E b \in Builds : Upgrade!Launch(p, b)
         \/ Upgrade!Start(p) \/ Upgrade!NextVersion(p) \/ Upgrade!Precheck(p) \/ Upgrade!Begin(p)
         \/ Upgrade!Busy(p) \/ Upgrade!CheckInside(p) \/ Upgrade!Restart(p) \/ Upgrade!Stop(p)
  PROVE  UpgradeInv'
<1>0. UNCHANGED <<engine, ledger, ran, offending, named>>
  BY DEF Upgrade!Launch, Upgrade!Start, Upgrade!NextVersion, Upgrade!Precheck, Upgrade!Begin, Upgrade!Busy,
         Upgrade!CheckInside, Upgrade!Restart, Upgrade!Stop, Upgrade!database
<1> DEFINE old == process[p]
           Record == [at : Stages, build : SUBSET Versions, known : SUBSET Versions, version : Nat]
<1>1. old \in Record /\ old.build \in Builds \cup {{}} /\ UpgradeOf(p) /\ ledger \subseteq Versions
      /\ process \in [Starting -> Record]
  BY DEF UpgradeInv, UpgradeTypeOK
<1>2. ASSUME NEW r \in Record, process' = [process EXCEPT ![p] = r], r.build \in Builds \cup {{}}, UpgradeOf(p)'
      PROVE  UpgradeInv'
  BY <1>0, <1>2, OwnUpgradeStep
<1>3. ASSUME NEW r \in Record, process' = [process EXCEPT ![p] = r] PROVE process'[p] = r
  BY <1>1, <1>3
<1> HIDE DEF Record
<1>4. ASSUME NEW b \in Builds \cup {{}}, process' = [process EXCEPT ![p] = [Upgrade!Stopped EXCEPT !.at = "starting", !.build = b]]
      PROVE  UpgradeInv'
  <2> DEFINE r == [Upgrade!Stopped EXCEPT !.at = "starting", !.build = b]
  <2>1. r \in Record /\ r.at = "starting" /\ r.build = b /\ r.version = 0
    BY VersionsNumbered DEF Record, Stages, Upgrade!Stopped
  <2>2. process' = [process EXCEPT ![p] = r] BY <1>4
  <2> HIDE DEF r
  <2>3. UpgradeOf(p)' BY <1>3, <2>1, <2>2 DEF UpgradeOf, Underway, InHand
  <2>. QED BY <1>2, <2>1, <2>2, <2>3
<1>5. CASE Upgrade!Start(p)
  <2> DEFINE r == [old EXCEPT !.at = IF \A v \in old.build : Upgrade!WellShaped(v) THEN "next" ELSE "failed",
                              !.known = ledger]
  <2>1. r \in Record /\ r.build = old.build /\ r.known = ledger /\ r.version = old.version
        /\ r.at = IF \A v \in old.build : Upgrade!WellShaped(v) THEN "next" ELSE "failed"
    BY <1>1 DEF Record, Stages
  <2>2. process' = [process EXCEPT ![p] = r] BY <1>5 DEF Upgrade!Start, Upgrade!Build
  <2> HIDE DEF r
  <2>3. old.version = 0 BY <1>1, <1>5 DEF Upgrade!Start, Upgrade!At, UpgradeOf
  <2>4. \A u \in old.build : ~(u < 0) /\ ~(u < 0 + 1)
    BY <1>1, VersionsNumbered DEF Record
  <2>5. UpgradeOf(p)'
    BY <1>0, <1>3, <2>1, <2>2, <2>3, <2>4 DEF UpgradeOf, Underway, InHand, Covered, Upgrade!WellShaped
  <2>. QED BY <1>1, <1>2, <2>1, <2>2, <2>5
<1>6. CASE Upgrade!NextVersion(p)
  <2>1. old.at = "next" BY <1>6 DEF Upgrade!NextVersion, Upgrade!At
  <2>2. \A u \in old.build : u \in Nat /\ (u <= old.version => u \in ledger)
    BY <1>1, <2>1, VersionsNumbered DEF UpgradeOf, Covered, Record
  <2>3. \A u \in old.build : u \notin Upgrade!Pending(p) => u \in ledger
    BY <1>1, <2>1, <2>2 DEF Upgrade!Pending, Upgrade!Build, Upgrade!Version, UpgradeOf, Underway, Record
  <2>4. CASE Upgrade!Pending(p) = {} /\ Upgrade!Put(p, "up")
    <3> DEFINE r == [old EXCEPT !.at = "up"]
    <3>1. r \in Record /\ r.at = "up" /\ r.build = old.build /\ r.known = old.known /\ r.version = old.version
      BY <1>1 DEF Record, Stages
    <3>2. process' = [process EXCEPT ![p] = r] BY <2>4 DEF Upgrade!Put
    <3> HIDE DEF r
    <3>3. UpgradeOf(p)'
      BY <1>0, <1>1, <1>3, <2>1, <2>3, <2>4, <3>1, <3>2 DEF UpgradeOf, Underway, InHand, Covered, Upgrade!WellShaped
    <3>. QED BY <1>1, <1>2, <3>1, <3>2, <3>3
  <2>5. CASE \E v \in Upgrade!Pending(p) :
               /\ \A u \in Upgrade!Pending(p) : v <= u
               /\ process' = [process EXCEPT ![p].version = v,
                                ![p].at = IF Kind[v] = "checked" THEN "precheck" ELSE "begin"]
    <3>1. PICK v \in Upgrade!Pending(p) :
            /\ \A u \in Upgrade!Pending(p) : v <= u
            /\ process' = [process EXCEPT ![p].version = v,
                             ![p].at = IF Kind[v] = "checked" THEN "precheck" ELSE "begin"]
      BY <2>5
    <3> DEFINE r == [old EXCEPT !.version = v, !.at = IF Kind[v] = "checked" THEN "precheck" ELSE "begin"]
    <3>2. v \in old.build /\ v \in Nat BY <2>2 DEF Upgrade!Pending, Upgrade!Build
    <3>3. r \in Record /\ r.at \in {"precheck", "begin"} /\ r.build = old.build /\ r.known = old.known
          /\ r.version = v
      BY <1>1, <3>2 DEF Record, Stages
    <3>4. process' = [process EXCEPT ![p] = r] BY <1>1, <3>1 DEF Record
    <3> HIDE DEF r
    <3>5. \A u \in old.build : u < v => u \in ledger BY <2>2, <2>3, <3>1, <3>2
    <3>6. UpgradeOf(p)'
      BY <1>0, <1>1, <1>3, <2>1, <3>2, <3>3, <3>4, <3>5
      DEF UpgradeOf, Underway, InHand, Covered, Upgrade!WellShaped
    <3>. QED BY <1>1, <1>2, <3>3, <3>4, <3>6
  <2>. QED BY <1>6, <2>4, <2>5 DEF Upgrade!NextVersion
<1>7. ASSUME NEW at2 \in Stages \ {"starting", "next", "altered", "up"}, Upgrade!Put(p, at2),
             at2 \in InHand => old.at \in InHand,
             at2 = "checked" => Kind[old.version] = "locked" /\ old.version \notin offending
      PROVE  UpgradeInv'
  <2> DEFINE r == [old EXCEPT !.at = at2]
  <2>1. r \in Record /\ r.at = at2 /\ r.build = old.build /\ r.known = old.known /\ r.version = old.version
    BY <1>1 DEF Record
  <2>2. process' = [process EXCEPT ![p] = r] BY <1>7 DEF Upgrade!Put
  <2> HIDE DEF r
  <2>3. UpgradeOf(p)'
    BY <1>0, <1>1, <1>3, <1>7, <2>1, <2>2 DEF UpgradeOf, Underway, InHand, Covered, Upgrade!WellShaped
  <2>. QED BY <1>1, <1>2, <2>1, <2>2, <2>3
<1>8. CASE Upgrade!Precheck(p) \/ Upgrade!Begin(p) \/ Upgrade!Busy(p) \/ Upgrade!CheckInside(p)
  <2>1. old.at \in InHand
    BY <1>8 DEF Upgrade!Precheck, Upgrade!Begin, Upgrade!Busy, Upgrade!CheckInside, Upgrade!At, InHand
  <2>2. \/ Upgrade!Put(p, "failed") \/ Upgrade!Put(p, "begin") \/ Upgrade!Put(p, "open")
        \/ /\ Upgrade!Put(p, "checked") /\ Kind[old.version] = "locked" /\ old.version \notin offending
    BY <1>8 DEF Upgrade!Precheck, Upgrade!Begin, Upgrade!Busy, Upgrade!CheckInside, Upgrade!Version
  <2>. QED BY <1>7, <2>1, <2>2 DEF Stages, InHand
<1>9. CASE Upgrade!Restart(p)
  <2>1. process' = [process EXCEPT ![p] = [Upgrade!Stopped EXCEPT !.at = "starting", !.build = old.build]]
    BY <1>9 DEF Upgrade!Restart, Upgrade!Build
  <2>. QED BY <1>1, <1>4, <2>1
<1>10. CASE Upgrade!Stop(p)
  <2> DEFINE r == Upgrade!Stopped
  <2>1. r \in Record /\ r.at = "off" /\ r.build = {} BY DEF Record, Stages, Upgrade!Stopped
  <2>2. process' = [process EXCEPT ![p] = r] BY <1>10 DEF Upgrade!Stop
  <2> HIDE DEF r
  <2>3. UpgradeOf(p)' BY <1>3, <2>1, <2>2 DEF UpgradeOf, Underway, InHand
  <2>. QED BY <1>2, <2>1, <2>2, <2>3
<1>. QED BY <1>4, <1>5, <1>6, <1>8, <1>9, <1>10 DEF Upgrade!Launch

\* Alter and Record change the database under the lock that Holds describes.
LEMMA UpgradeCommits ==
  ASSUME UpgradeInv, NEW p \in Starting, Upgrade!Alter(p) \/ Upgrade!Record(p)
  PROVE  UpgradeInv'
<1> DEFINE old == process[p]
           v == old.version
           Record == [at : Stages, build : SUBSET Versions, known : SUBSET Versions, version : Nat]
<1>1. /\ old \in Record /\ UpgradeOf(p) /\ process \in [Starting -> Record] /\ old.at \in InHand
      /\ v \in old.build /\ v \in Versions /\ v \in Nat /\ UpgradeTypeOK
  <2>1. old \in Record /\ UpgradeOf(p) /\ process \in [Starting -> Record] /\ UpgradeTypeOK
    BY DEF UpgradeInv, UpgradeTypeOK
  <2>2. old.at \in InHand BY DEF Upgrade!Alter, Upgrade!Record, Upgrade!At, InHand
  <2>. QED BY <2>1, <2>2 DEF UpgradeOf
<1>2. engine' = engine /\ offending' = offending /\ ledger \subseteq ledger'
  BY DEF Upgrade!Alter, Upgrade!Record
<1>3. PICK at2 \in {"failed", "altered", "next"} : Upgrade!Put(p, at2)
  BY DEF Upgrade!Alter, Upgrade!Record
<1>4. /\ process'[p].at = at2 /\ process'[p].build = old.build /\ process'[p].known = old.known
      /\ process'[p].version = v /\ process' \in [Starting -> Record]
      /\ \A q \in Starting \ {p} : process'[q] = process[q]
  BY <1>1, <1>3 DEF Upgrade!Put, Stages
<1>5. \A q \in Starting \ {p} : UpgradeOf(q)'
  BY <1>2, <1>4 DEF UpgradeInv, UpgradeOf, Covered, Upgrade!WellShaped
<1>6. \A q \in Starting : process'[q].build \in Builds \cup {{}}
  BY <1>1, <1>4 DEF UpgradeTypeOK
<1>7. /\ \A u \in old.build : Upgrade!WellShaped(u) /\ (u < v => u \in ledger)
      /\ old.at \in {"checked", "altered"} => v \notin offending
      /\ old.known \subseteq ledger
  BY <1>1 DEF UpgradeOf, Underway, Covered
<1> HIDE DEF v, Record
<1>8. ASSUME UpgradeOf(p)', ledger' \subseteq Versions, named' \subseteq Versions, DOMAIN ran' = Versions,
             Upgrade!LedgerTells', Upgrade!ConstraintsHold', Upgrade!NeverQuoted'
      PROVE  UpgradeInv'
  <2>1. UpgradeTypeOK' BY <1>1, <1>2, <1>4, <1>6, <1>8 DEF UpgradeTypeOK, Record
  <2>2. \A q \in Starting : UpgradeOf(q)' BY <1>5, <1>8
  <2>3. Upgrade!ServesCurrent' BY <2>2 DEF UpgradeOf, Upgrade!ServesCurrent, Upgrade!At, Upgrade!Build
  <2>. QED BY <1>8, <2>1, <2>2, <2>3 DEF UpgradeInv, Upgrade!UpgradeSound
<1>9. CASE Upgrade!Alter(p)
  <2>1. /\ ledger' = ledger /\ ran' = ran
        /\ \/ at2 = "failed" /\ named' = named
           \/ at2 = "failed" /\ named' = named \cup {v} /\ v \in offending
           \/ at2 = "altered" /\ named' = named /\ v \notin offending
    <3>1. \A at3 : Upgrade!Put(p, at3) => process'[p].at = at3
      BY <1>1 DEF Upgrade!Put
    <3>. QED BY <1>4, <1>9, <3>1 DEF Upgrade!Alter, Upgrade!Version, v
  <2>2. UpgradeOf(p)'
    BY <1>1, <1>2, <1>4, <1>7, <2>1 DEF UpgradeOf, Underway, InHand, Covered, Upgrade!WellShaped
  <2>3. named' # named => Kind[v] # "locked"
    <3> SUFFICES ASSUME v \in offending, Kind[v] = "locked" PROVE FALSE BY <2>1
    <3>1. old.at = "checked" BY <1>9 DEF Upgrade!Alter, Upgrade!At, Upgrade!Version, v
    <3>. QED BY <1>7, <3>1
  <2>4. Upgrade!NeverQuoted' BY <2>1, <2>3 DEF UpgradeInv, Upgrade!UpgradeSound, Upgrade!NeverQuoted
  <2>5. Upgrade!LedgerTells' /\ Upgrade!ConstraintsHold'
    BY <1>2, <2>1 DEF UpgradeInv, Upgrade!UpgradeSound, Upgrade!LedgerTells, Upgrade!ConstraintsHold,
                      Upgrade!Variant, Upgrade!WellShaped
  <2>6. ledger' \subseteq Versions /\ named' \subseteq Versions /\ DOMAIN ran' = Versions
    BY <1>1, <2>1 DEF UpgradeTypeOK
  <2>. QED BY <1>8, <2>2, <2>4, <2>5, <2>6
<1>10. CASE Upgrade!Record(p)
  <2>1. /\ named' = named /\ old.at = "altered"
        /\ \/ at2 = "failed" /\ ledger' = ledger /\ ran' = ran
           \/ /\ at2 = "next" /\ v \notin ledger /\ ledger' = ledger \cup {v}
              /\ ran' = [ran EXCEPT ![v] = Append(@, Upgrade!Variant(v))]
    <3>1. \A at3 : Upgrade!Put(p, at3) => process'[p].at = at3
      BY <1>1 DEF Upgrade!Put
    <3>. QED BY <1>4, <1>10, <3>1 DEF Upgrade!Record, Upgrade!Version, Upgrade!At, v
  <2>2. v \notin offending BY <1>7, <2>1
  <2>3. \A u \in old.build : u < v + 1 => u \in ledger \cup {v}
    BY <1>1, <1>7, VersionsNumbered DEF Record
  <2>4. UpgradeOf(p)'
    BY <1>1, <1>2, <1>4, <1>7, <2>1, <2>2, <2>3 DEF UpgradeOf, Underway, InHand, Covered, Upgrade!WellShaped
  <2>5. Upgrade!NeverQuoted' /\ Upgrade!ConstraintsHold'
    BY <1>2, <2>1, <2>2 DEF UpgradeInv, Upgrade!UpgradeSound, Upgrade!NeverQuoted, Upgrade!ConstraintsHold
  <2>6. Upgrade!LedgerTells
    BY DEF UpgradeInv, Upgrade!UpgradeSound
  <2>7. Upgrade!LedgerTells'
    <3>1. CASE ledger' = ledger /\ ran' = ran
      BY <1>2, <2>6, <3>1 DEF Upgrade!LedgerTells, Upgrade!Variant, Upgrade!WellShaped
    <3>2. CASE /\ v \notin ledger /\ ledger' = ledger \cup {v}
               /\ ran' = [ran EXCEPT ![v] = Append(@, Upgrade!Variant(v))]
      <4>1. ran[v] = <<>> BY <1>1, <2>6, <3>2 DEF Upgrade!LedgerTells
      <4>2. Append(<<>>, Upgrade!Variant(v)) = <<Upgrade!Variant(v)>> OBVIOUS
      <4>3. ran'[v] = <<Upgrade!Variant(v)>> /\ \A w \in Versions \ {v} : ran'[w] = ran[w]
        BY <1>1, <3>2, <4>1, <4>2 DEF UpgradeTypeOK
      <4>4. \A w : Upgrade!Variant(w)' = Upgrade!Variant(w) BY <1>2 DEF Upgrade!Variant
      <4>5. Upgrade!WellShaped(v) BY <1>1, <1>7
      <4>6. \A u \in Versions : u < v => u \in ledger
        <5>1. old.build \in Builds BY <1>1 DEF UpgradeTypeOK
        <5>. QED BY <1>1, <1>7, <5>1, VersionsNumbered
      <4> HIDE DEF old
      <4>7. \A w \in Versions : ran'[w] = IF w \in ledger' THEN <<Upgrade!Variant(w)'>> ELSE <<>>
        BY <2>6, <3>2, <4>3, <4>4 DEF Upgrade!LedgerTells
      <4>8. \A w \in ledger' : Upgrade!WellShaped(w) /\ \A u \in Versions : u < w => u \in ledger'
        BY <1>1, <2>6, <3>2, <4>5, <4>6 DEF Upgrade!LedgerTells, UpgradeTypeOK
      <4>. QED BY <4>7, <4>8 DEF Upgrade!LedgerTells, Upgrade!WellShaped
    <3>. QED BY <2>1, <3>1, <3>2
  <2>8. ledger' \subseteq Versions /\ named' \subseteq Versions /\ DOMAIN ran' = Versions
    BY <1>1, <2>1 DEF UpgradeTypeOK
  <2>. QED BY <1>8, <2>4, <2>5, <2>7, <2>8
<1>. QED BY <1>9, <1>10

\* A write waits for the lock, and what is repaired breaks nothing.
LEMMA UpgradeWrites ==
  ASSUME UpgradeInv, NEW v \in Versions, Upgrade!Write(v) \/ Upgrade!Repair(v)
  PROVE  UpgradeInv'
<1>1. /\ UNCHANGED <<engine, ledger, ran, process, named>>
      /\ offending' \subseteq offending \cup {v}
      /\ v \in offending' => v \notin ledger /\ Upgrade!Nobody(v)
  BY DEF Upgrade!Write, Upgrade!Repair
<1>2. UpgradeTypeOK' BY <1>1 DEF UpgradeInv, UpgradeTypeOK
<1>3. ASSUME NEW p \in Starting PROVE UpgradeOf(p)'
  <2>1. UpgradeOf(p) BY DEF UpgradeInv
  <2>2. process[p].at \in {"checked", "altered"} /\ process[p].version = v => Upgrade!Holds(p, v)
    BY <2>1 DEF Upgrade!Holds, Upgrade!Version, UpgradeOf
  <2>3. process[p].at \in {"checked", "altered"} => process[p].version \notin offending'
    BY <1>1, <2>1, <2>2 DEF Upgrade!Nobody, UpgradeOf
  <2>. QED BY <1>1, <2>1, <2>3 DEF UpgradeOf, Covered, Upgrade!WellShaped
<1>4. Upgrade!UpgradeSound'
  BY <1>1 DEF UpgradeInv, Upgrade!UpgradeSound, Upgrade!LedgerTells, Upgrade!ConstraintsHold,
    Upgrade!NeverQuoted, Upgrade!ServesCurrent, Upgrade!At, Upgrade!Build, Upgrade!Variant, Upgrade!WellShaped
<1>. QED BY <1>2, <1>3, <1>4 DEF UpgradeInv

LEMMA UpgradeStep ==
  ASSUME UpgradeInv, Upgrade!MigrationsNext
  PROVE  UpgradeInv'
  BY UpgradeStepAlone, UpgradeCommits, UpgradeWrites DEF Upgrade!MigrationsNext, Upgrade!UpgradeStep

LEMMA UpgradeStarts == Upgrade!MigrationsInit => UpgradeInv
<1> SUFFICES ASSUME Upgrade!MigrationsInit PROVE UpgradeInv OBVIOUS
<1>1. /\ ledger = {} /\ offending = {} /\ named = {} /\ ran = [v \in Versions |-> <<>>]
      /\ process = [p \in Starting |-> [at |-> "off", build |-> {}, known |-> {}, version |-> 0]]
  BY DEF Upgrade!MigrationsInit, Upgrade!Stopped
<1>2. UpgradeTypeOK BY <1>1 DEF UpgradeTypeOK, Stages
<1>3. \A p \in Starting : UpgradeOf(p) BY <1>1 DEF UpgradeOf, Underway, InHand
<1>4. Upgrade!UpgradeSound
  BY <1>1 DEF Upgrade!UpgradeSound, Upgrade!LedgerTells, Upgrade!ConstraintsHold,
    Upgrade!NeverQuoted, Upgrade!ServesCurrent, Upgrade!At, Upgrade!Build
<1>. QED BY <1>2, <1>3, <1>4 DEF UpgradeInv

-----------------------------------------------------------------------------
(* The queue of notifications.                                             *)

\* _process_lock keeps the drains of one process apart, and no others.
OneProcess == \A v, w \in Drains : ProcessOf[v] = ProcessOf[w]

Copy == [status : {"none", "pending", "sent", "failed", "dead_lettered", "ignored"}, attempts : Nat]
Destinations == Addresses \cup {Placeholder}
Batches == [stage : {"rest", "resolve", "send", "save"}, rows : SUBSET Queue!Rows, read : Copy,
            copies : UNION {[batch -> Copy] : batch \in SUBSET Queue!Rows}, to : Destinations]

DeliveryTypeOK ==
  /\ stored \in [Queue!Rows -> Copy] /\ reached \in [Queue!Rows -> Nat]
  /\ contact \in [Recipients -> [destination : Destinations, active : BOOLEAN]]
  /\ drain \in [Drains -> Batches]

\* One drain is at work at a time, on rows that are not sent yet; only its own
\* save will say so of the row in hand, which then leaves the batch.
DeliveryInv ==
  /\ DeliveryTypeOK
  /\ \A v, w \in Drains : Queue!Working(v) /\ Queue!Working(w) => v = w
  /\ \A w \in Drains : Queue!Working(w) =>
       /\ drain[w].rows # {} /\ drain[w].rows \subseteq DOMAIN drain[w].copies
       /\ \A d \in drain[w].rows : stored[d].status # "sent"

LEMMA RowsNumbered ==
  /\ Notifications \subseteq Nat /\ Recipients \subseteq Nat /\ Batch \in Nat \ {0}
  BY EndingsAssumption DEF EndingsAssumption, Queue!DeliveryAssumption

\* A set of numbers has a least one.
LEMMA Least ==
  ASSUME NEW S \in SUBSET Nat, S # {}
  PROVE  \E x \in S : \A y \in S : x <= y
<1> DEFINE below(x) == {y \in S : y < x}
<1>1. PICK n \in S : TRUE OBVIOUS
<1> DEFINE F == {below(x) : x \in {x \in S : x <= n}}
<1>2. n \in Nat /\ IsFiniteSet(0 .. n) BY FS_Interval
<1>3. F \subseteq SUBSET (0 .. n) /\ below(n) \in F
  <2>1. ASSUME NEW x \in S, x <= n PROVE below(x) \subseteq 0 .. n
    <3> SUFFICES ASSUME NEW y \in S, y < x PROVE y \in 0 .. n OBVIOUS
    <3>. QED BY <1>2, <2>1
  <2>. QED BY <1>2, <2>1
<1>4. IsWellFoundedOn(StrictSubsetOrdering(0 .. n), SUBSET (0 .. n))
  BY <1>2, FS_StrictSubsetOrderingWellFounded, FS_FiniteSubsetsOfFinite
<1>5. PICK A \in F : \A B \in F : <<B, A>> \notin StrictSubsetOrdering(0 .. n)
  <2> HIDE DEF F, below
  <2>. QED BY <1>3, <1>4, WFMin
<1>6. PICK x \in S : x <= n /\ A = below(x) BY <1>5
<1>7. ASSUME NEW y \in S, y < x PROVE FALSE
  <2>1. \A z \in S : z \in Nat OBVIOUS
  <2>2. y <= n /\ (\A z \in S : z < y => z < x) /\ ~(y < y)
    <3> HIDE DEF F, below
    <3>1. x \in Nat /\ y \in Nat /\ y < x /\ x <= n BY <1>6, <1>7, <2>1
    <3>. QED BY <1>2, <2>1, <3>1
  <2>3. below(y) \subseteq A /\ y \in A /\ y \notin below(y) BY <1>6, <1>7, <2>2
  <2>4. below(y) \in F BY <2>2
  <2> HIDE DEF F, below
  <2>5. <<below(y), A>> \in StrictSubsetOrdering(0 .. n)
    BY <1>3, <1>5, <2>3, <2>4 DEF StrictSubsetOrdering
  <2>. QED BY <1>5, <2>4, <2>5
<1>8. \A y \in S : x <= y
  <2>1. \A z \in S : z \in Nat OBVIOUS
  <2>. QED BY <1>7, <2>1
<1>. QED BY <1>8

LEMMA RowNumbers ==
  ASSUME NEW d \in Queue!Rows
  PROVE  d[1] \in Nat /\ d[2] \in Nat /\ d = <<d[1], d[2]>>
<1>1. PICK n \in Notifications, r \in Recipients : d = <<n, r>> BY DEF Queue!Rows
<1>2. n \in Nat /\ r \in Nat BY RowsNumbered
<1>. QED BY <1>1, <1>2

\* The rows of the queue have a first one.
LEMMA FirstRow ==
  ASSUME NEW rows \in SUBSET Queue!Rows, rows # {}
  PROVE  \E d \in rows : \A e \in rows \ {d} : Queue!Precedes(d, e) /\ ~Queue!Precedes(e, d)
<1> DEFINE numbers == {d[1] : d \in rows}
<1>1. \A d \in rows : d[1] \in Nat /\ d[2] \in Nat /\ d = <<d[1], d[2]>>
  BY RowNumbers
<1>2. PICK n \in numbers : \A m \in numbers : n <= m
  <2>1. numbers \in SUBSET Nat /\ numbers # {} BY <1>1
  <2> HIDE DEF numbers
  <2>. QED BY <2>1, Least
<1> DEFINE recipients == {d[2] : d \in {d \in rows : d[1] = n}}
<1>3. PICK r \in recipients : \A q \in recipients : r <= q
  <2>1. recipients \in SUBSET Nat /\ recipients # {} BY <1>1, <1>2
  <2> HIDE DEF recipients
  <2>. QED BY <2>1, Least
<1>4. PICK d \in rows : d[1] = n /\ d[2] = r BY <1>3
<1>5. ASSUME NEW e \in rows \ {d} PROVE Queue!Precedes(d, e) /\ ~Queue!Precedes(e, d)
  <2>1. n <= e[1] BY <1>2
  <2>2. e[1] = n => r <= e[2] BY <1>3
  <2>3. e[1] # n \/ e[2] # r BY <1>1, <1>4
  <2>4. n \in Nat /\ r \in Nat /\ e[1] \in Nat /\ e[2] \in Nat BY <1>1, <1>4
  <2>. QED BY <1>4, <2>1, <2>2, <2>3, <2>4 DEF Queue!Precedes
<1>. QED BY <1>5

LEMMA RowInHand ==
  ASSUME DeliveryInv, NEW w \in Drains, Queue!Working(w)
  PROVE  /\ Queue!Row(w) \in drain[w].rows /\ Queue!Row(w) \in Queue!Rows
         /\ drain[w].copies[Queue!Row(w)] \in Copy /\ stored[Queue!Row(w)].status # "sent"
<1>1. drain[w].rows \in SUBSET Queue!Rows /\ drain[w].rows # {} /\ drain[w] \in Batches
  BY DEF DeliveryInv, DeliveryTypeOK, Batches
<1>2. Queue!Row(w) \in drain[w].rows BY <1>1, FirstRow DEF Queue!Row
<1>3. \A d \in DOMAIN drain[w].copies : drain[w].copies[d] \in Copy BY <1>1 DEF Batches
<1>. QED BY <1>1, <1>2, <1>3 DEF DeliveryInv

LEMMA FirstBatch ==
  ASSUME NEW rows \in SUBSET Queue!Rows, rows # {}
  PROVE  Queue!FirstOf(rows) # {} /\ Queue!FirstOf(rows) \subseteq rows
<1>1. PICK d \in rows : \A e \in rows \ {d} : Queue!Precedes(d, e) /\ ~Queue!Precedes(e, d)
  BY FirstRow
<1>2. ~Queue!Precedes(d, d) BY RowNumbers DEF Queue!Precedes
<1>3. {e \in rows : Queue!Precedes(e, d)} = {} BY <1>1, <1>2
<1>4. Queue!Cardinality({}) = 0
  <2>1. Queue!Cardinality({}) = Cardinality({}) BY DEF Queue!Cardinality, Cardinality
  <2>. QED BY <2>1, FS_EmptySet
<1>5. Queue!Cardinality({e \in rows : Queue!Precedes(e, d)}) < Batch
  BY <1>3, <1>4, RowsNumbered
<1>. QED BY <1>5 DEF Queue!FirstOf

\* Steps that no drain takes.
LEMMA QueueStep ==
  ASSUME DeliveryInv, drain' = drain, reached' = reached, stored' \in [Queue!Rows -> Copy],
         contact' \in [Recipients -> [destination : Destinations, active : BOOLEAN]],
         \A d \in Queue!Rows : stored'[d] # stored[d] =>
           stored[d].status # "sent" /\ stored'[d].status # "sent"
  PROVE  DeliveryInv' /\ Queue!NoResendStep
<1>1. DeliveryTypeOK' BY DEF DeliveryInv, DeliveryTypeOK
<1>2. \A w \in Drains : drain[w].rows \subseteq Queue!Rows
  BY DEF DeliveryInv, DeliveryTypeOK, Batches
<1>3. \A d \in Queue!Rows : stored[d].status # "sent" => stored'[d].status # "sent" OBVIOUS
<1>4. \A w \in Drains : Queue!Working(w)' <=> Queue!Working(w) BY DEF Queue!Working
<1>5. DeliveryInv' BY <1>1, <1>2, <1>3, <1>4 DEF DeliveryInv
<1>6. Queue!NoResendStep BY DEF Queue!NoResendStep
<1>. QED BY <1>5, <1>6

\* Steps of a drain that leave the rows alone.
LEMMA DrainStep ==
  ASSUME DeliveryInv, NEW w \in Drains, NEW r \in Batches, drain' = [drain EXCEPT ![w] = r],
         stored' = stored, contact' = contact, reached' \in [Queue!Rows -> Nat],
         \A d \in Queue!Rows : reached'[d] # reached[d] => stored[d].status # "sent",
         r.stage # "rest" =>
           /\ \A v \in Drains \ {w} : ~Queue!Working(v)
           /\ r.rows # {} /\ r.rows \subseteq DOMAIN r.copies
           /\ \A d \in r.rows : stored[d].status # "sent"
  PROVE  DeliveryInv' /\ Queue!NoResendStep
<1>1. drain \in [Drains -> Batches] BY DEF DeliveryInv, DeliveryTypeOK
<1>2. drain'[w] = r /\ \A v \in Drains \ {w} : drain'[v] = drain[v] BY <1>1
<1>3. DeliveryTypeOK' BY <1>1 DEF DeliveryInv, DeliveryTypeOK
<1>4. /\ Queue!Working(w)' <=> r.stage # "rest"
      /\ \A v \in Drains \ {w} : Queue!Working(v)' <=> Queue!Working(v)
  BY <1>2 DEF Queue!Working
<1>5. \A u, v \in Drains : Queue!Working(u)' /\ Queue!Working(v)' => u = v
  BY <1>4 DEF DeliveryInv
<1>6. ASSUME NEW v \in Drains, Queue!Working(v)'
      PROVE  /\ drain'[v].rows # {} /\ drain'[v].rows \subseteq DOMAIN drain'[v].copies
             /\ \A d \in drain'[v].rows : stored'[d].status # "sent"
  <2>1. CASE v = w BY <1>2, <1>4, <1>6, <2>1
  <2>2. CASE v # w BY <1>2, <1>4, <1>6, <2>2 DEF DeliveryInv
  <2>. QED BY <2>1, <2>2
<1>7. DeliveryInv' BY <1>3, <1>5, <1>6 DEF DeliveryInv
<1>8. Queue!NoResendStep BY DEF Queue!NoResendStep
<1>. QED BY <1>7, <1>8

\* The save: the row in hand may be sent from now on, and is no longer in hand.
LEMMA SaveStep ==
  ASSUME DeliveryInv, NEW w \in Drains, Queue!Save(w)
  PROVE  DeliveryInv' /\ Queue!NoResendStep
<1> DEFINE b == drain[w]
           row == Queue!Row(w)
           r == IF b.rows = {row} THEN Queue!Resting
                ELSE [b EXCEPT !.stage = "resolve", !.rows = b.rows \ {row}, !.read = Queue!NoRow, !.to = Placeholder]
<1>1. /\ b.stage = "save" /\ stored' = [stored EXCEPT ![row] = b.read] /\ drain' = [drain EXCEPT ![w] = r]
      /\ reached' = reached /\ contact' = contact
  BY DEF Queue!Save, Queue!Put, Queue!QueueUnchanged
<1>2. /\ DeliveryTypeOK /\ drain \in [Drains -> Batches] /\ b \in Batches /\ b.read \in Copy /\ Queue!Working(w)
      /\ stored \in [Queue!Rows -> Copy]
  BY <1>1 DEF DeliveryInv, DeliveryTypeOK, Batches, Queue!Working
<1>3. row \in b.rows /\ row \in Queue!Rows /\ stored[row].status # "sent" BY <1>2, RowInHand
<1>4. b.rows \subseteq DOMAIN b.copies /\ \A d \in b.rows : stored[d].status # "sent" BY <1>2 DEF DeliveryInv
<1>5. Queue!NoRow \in Copy /\ Placeholder \in Destinations /\ Queue!Resting \in Batches
      /\ Queue!Resting.stage = "rest"
  <2>1. [d \in {} |-> Queue!NoRow] \in [{} -> Copy] /\ {} \in SUBSET Queue!Rows
    BY DEF Queue!NoRow, Copy
  <2>2. Queue!NoRow \in Copy BY DEF Queue!NoRow, Copy
  <2>. QED BY <2>1, <2>2 DEF Queue!Resting, Batches, Destinations
<1> HIDE DEF row
<1>6. r \in Batches /\ (r.stage # "rest" => r.rows = b.rows \ {row} /\ r.rows # {} /\ r.copies = b.copies)
  <2>1. CASE b.rows = {row} BY <1>5, <2>1
  <2>2. CASE b.rows # {row}
    <3>1. r = [stage |-> "resolve", rows |-> b.rows \ {row}, read |-> Queue!NoRow, copies |-> b.copies,
               to |-> Placeholder]
      BY <1>2, <2>2 DEF Batches
    <3>. QED BY <1>2, <1>3, <1>5, <2>2, <3>1 DEF Batches
  <2>. QED BY <2>1, <2>2
<1> HIDE DEF r, b
<1>7. drain'[w] = r /\ \A v \in Drains \ {w} : drain'[v] = drain[v] BY <1>1, <1>2
<1>8. stored'[row] = b.read /\ \A d \in Queue!Rows \ {row} : stored'[d] = stored[d] BY <1>1, <1>2, <1>3
<1>9. DeliveryTypeOK' BY <1>1, <1>2, <1>6 DEF DeliveryTypeOK
<1>10. \A v \in Drains \ {w} : ~Queue!Working(v)' BY <1>2, <1>7 DEF DeliveryInv, Queue!Working
<1>11. \A d \in b.rows \ {row} : stored'[d].status # "sent"
  BY <1>2, <1>4, <1>8 DEF Batches
<1>12. Queue!Working(w)' => r.stage # "rest" BY <1>7 DEF Queue!Working
<1>13. DeliveryInv' BY <1>4, <1>6, <1>7, <1>9, <1>10, <1>11, <1>12 DEF DeliveryInv
<1>14. Queue!NoResendStep BY <1>1, <1>3, <1>8 DEF Queue!NoResendStep
<1>. QED BY <1>13, <1>14

LEMMA WorkerKeeps ==
  ASSUME OneProcess, DeliveryInv, NEW w \in Drains,
         Queue!Drain(w) \/ Queue!WorkerStep(w) \/ Queue!AnswerLost(w) \/ Queue!Stop(w)
  PROVE  DeliveryInv' /\ Queue!NoResendStep
<1> DEFINE b == drain[w]
           row == Queue!Row(w)
<1>1. /\ DeliveryTypeOK /\ b \in Batches /\ stored \in [Queue!Rows -> Copy] /\ reached \in [Queue!Rows -> Nat]
  BY DEF DeliveryInv, DeliveryTypeOK
<1>2. Queue!NoRow \in Copy /\ Placeholder \in Destinations /\ Queue!Resting \in Batches
      /\ Queue!Resting.stage = "rest"
  <2>1. [d \in {} |-> Queue!NoRow] \in [{} -> Copy] /\ {} \in SUBSET Queue!Rows
    BY DEF Queue!NoRow, Copy
  <2>2. Queue!NoRow \in Copy BY DEF Queue!NoRow, Copy
  <2>. QED BY <2>1, <2>2 DEF Queue!Resting, Batches, Destinations
<1>3. CASE Queue!Drain(w)
  <2> DEFINE batch == Queue!FirstOf(Queue!Queue)
             copies == [d \in batch |-> stored[d]]
             r == [Queue!Resting EXCEPT !.stage = "resolve", !.rows = batch, !.copies = copies]
  <2>1. /\ drain' = [drain EXCEPT ![w] = r] /\ stored' = stored /\ reached' = reached /\ contact' = contact
        /\ Queue!LockFree(w) /\ Queue!Queue # {}
    BY <1>3 DEF Queue!Drain, Queue!Put, Queue!QueueUnchanged
  <2>2. batch # {} /\ batch \subseteq Queue!Rows /\ \A d \in batch : stored[d].status # "sent"
    <3>1. Queue!Queue \subseteq Queue!Rows /\ \A d \in Queue!Queue : stored[d].status # "sent"
      BY DEF Queue!Queue, Queue!Deliverable
    <3>. QED BY <2>1, <3>1, FirstBatch
  <2> HIDE DEF batch
  <2>3. r \in Batches /\ r.rows = batch /\ DOMAIN r.copies = batch
    <3>1. copies \in [batch -> Copy] BY <1>1, <2>2
    <3>2. Queue!Resting \in Batches /\ batch \in SUBSET Queue!Rows BY <1>2, <2>2
    <3> HIDE DEF copies
    <3>3. r = [Queue!Resting EXCEPT !.stage = "resolve", !.rows = batch, !.copies = copies] OBVIOUS
    <3> HIDE DEF r
    <3>4. PICK rest \in Batches : rest = Queue!Resting BY <3>2
    <3>5. r = [rest EXCEPT !.stage = "resolve", !.rows = batch, !.copies = copies] BY <3>3, <3>4, Zenon
    <3>. QED BY <3>1, <3>2, <3>5 DEF Batches
  <2> HIDE DEF r
  <2>4. \A v \in Drains : ~Queue!Working(v) BY <2>1 DEF OneProcess, Queue!LockFree
  <2>. QED BY <1>1, <2>1, <2>2, <2>3, <2>4, DrainStep
<1>4. CASE Queue!Stop(w)
  BY <1>1, <1>2, <1>4, DrainStep DEF Queue!Stop, Queue!Put, Queue!QueueUnchanged
<1>5. CASE Queue!Save(w) BY <1>5, SaveStep
<1>6. CASE Queue!Resolve(w) \/ \E arrives, answered \in BOOLEAN : Queue!Try(w, arrives, answered)
  <2>1. Queue!Working(w) /\ b.stage \in {"resolve", "send"} /\ stored' = stored /\ contact' = contact
    BY <1>6 DEF Queue!Working, Queue!Resolve, Queue!Try, Queue!QueueUnchanged
  <2>2. /\ row \in b.rows /\ row \in Queue!Rows /\ stored[row].status # "sent" /\ b.copies[row] \in Copy
        /\ b.rows # {} /\ b.rows \subseteq DOMAIN b.copies /\ \A d \in b.rows : stored[d].status # "sent"
        /\ \A v \in Drains \ {w} : ~Queue!Working(v)
    BY <2>1, RowInHand DEF DeliveryInv
  <2> HIDE DEF row
  <2>3. PICK r \in Batches : /\ drain' = [drain EXCEPT ![w] = r] /\ r.rows = b.rows /\ r.copies = b.copies
    <3>1. CASE Queue!Resolve(w)
      <4> DEFINE to == Queue!Resolved(row[2])
                 read == Queue!Counted(b.copies[row])
                 r == [b EXCEPT !.stage = "send", !.to = to, !.read = read]
      <4>1. row[2] \in Recipients
        <5>1. PICK n \in Notifications, q \in Recipients : row = <<n, q>> BY <2>2 DEF Queue!Rows
        <5>. QED BY <5>1
      <4>2. to \in Destinations BY <1>1, <1>2, <4>1 DEF Queue!Resolved, DeliveryTypeOK
      <4>3. read \in Copy BY <2>2 DEF Queue!Counted, Copy
      <4>4. drain' = [drain EXCEPT ![w] = r] BY <3>1 DEF Queue!Resolve, Queue!Put, row
      <4> HIDE DEF to, read
      <4>5. r \in Batches /\ r.rows = b.rows /\ r.copies = b.copies BY <1>1, <4>2, <4>3 DEF Batches
      <4>. QED BY <4>4, <4>5
    <3>2. ASSUME NEW arrives \in BOOLEAN, NEW answered \in BOOLEAN, Queue!Try(w, arrives, answered)
          PROVE  \E r \in Batches : /\ drain' = [drain EXCEPT ![w] = r] /\ r.rows = b.rows /\ r.copies = b.copies
      <4> DEFINE read == IF arrives /\ answered THEN Queue!Sent(w) ELSE Queue!Failed(w)
                 r == [b EXCEPT !.stage = "save", !.read = read]
      <4>1. read \in Copy
        <5>1. b.read.attempts \in Nat BY <1>1 DEF Batches, Copy
        <5>. QED BY <5>1 DEF Queue!Sent, Queue!Failed, Queue!RowOf, Copy
      <4>2. drain' = [drain EXCEPT ![w] = r] BY <3>2 DEF Queue!Try, Queue!Put
      <4> HIDE DEF read
      <4>3. r \in Batches /\ r.rows = b.rows /\ r.copies = b.copies BY <1>1, <4>1 DEF Batches
      <4>. QED BY <4>2, <4>3
    <3>. QED BY <1>6, <3>1, <3>2
  <2>4. /\ reached' \in [Queue!Rows -> Nat]
        /\ \A d \in Queue!Rows : reached'[d] # reached[d] => d = row
    <3>1. reached' = reached \/ \E n \in {0, 1} : reached' = [reached EXCEPT ![row] = @ + n]
      BY <1>6 DEF Queue!Resolve, Queue!Try, row
    <3>. QED BY <1>1, <3>1
  <2>. QED BY <2>1, <2>2, <2>3, <2>4, DrainStep
<1>. QED BY <1>3, <1>4, <1>5, <1>6
     DEF Queue!WorkerStep, Queue!Send, Queue!SendFails, Queue!AnswerLost

LEMMA DeliveryStep ==
  ASSUME OneProcess, DeliveryInv, Queue!DeliveryNext
  PROVE  DeliveryInv' /\ Queue!NoResendStep
<1>1. /\ stored \in [Queue!Rows -> Copy] /\ drain \in [Drains -> Batches]
      /\ contact \in [Recipients -> [destination : Destinations, active : BOOLEAN]]
  BY DEF DeliveryInv, DeliveryTypeOK
<1>2. ASSUME NEW n \in Notifications, Queue!Notify(n)
      PROVE  DeliveryInv' /\ Queue!NoResendStep
  <2>1. /\ drain' = drain /\ reached' = reached /\ contact' = contact
        /\ \A r \in Recipients : stored[<<n, r>>] = Queue!NoRow
        /\ stored' = [d \in Queue!Rows |->
             IF d[1] = n /\ d[2] \in Queue!Notified THEN Queue!RowOf("pending", 0) ELSE stored[d]]
    BY <1>2 DEF Queue!Notify, Queue!QueueUnchanged
  <2>2. Queue!RowOf("pending", 0) \in Copy /\ Queue!RowOf("pending", 0).status = "pending"
    BY DEF Queue!RowOf, Copy
  <2>3. \A d \in Queue!Rows : d[1] = n => stored[d].status = "none"
    <3> SUFFICES ASSUME NEW d \in Queue!Rows, d[1] = n PROVE stored[d].status = "none" OBVIOUS
    <3>1. PICK m \in Notifications, r \in Recipients : d = <<m, r>> BY DEF Queue!Rows
    <3>2. stored[d] = Queue!NoRow BY <2>1, <3>1
    <3>. QED BY <3>2 DEF Queue!NoRow
  <2>4. stored' \in [Queue!Rows -> Copy] BY <1>1, <2>1, <2>2
  <2>5. \A d \in Queue!Rows : stored'[d] # stored[d] => d[1] = n /\ stored'[d].status = "pending"
    BY <2>1, <2>2
  <2>. QED BY <1>1, <2>1, <2>3, <2>4, <2>5, QueueStep
<1>3. ASSUME NEW r \in Recipients,
             \/ \E a \in Addresses : Queue!SetContact(r, a)
             \/ \E on \in BOOLEAN : Queue!SetContactActive(r, on) \/ Queue!SetPreference(r, on)
             \/ Queue!VerifyLink(r)
      PROVE  DeliveryInv' /\ Queue!NoResendStep
  <2>1. stored' = stored /\ drain' = drain /\ reached' = reached
    BY <1>3 DEF Queue!SetContact, Queue!SetContactActive, Queue!SetPreference, Queue!VerifyLink, Queue!ChangeContact
  <2>2. contact' \in [Recipients -> [destination : Destinations, active : BOOLEAN]]
    <3>1. \/ contact' = contact
          \/ \E c \in [destination : Destinations, active : BOOLEAN] : contact' = [contact EXCEPT ![r] = c]
      <4>1. ASSUME NEW a \in Addresses, Queue!SetContact(r, a)
            PROVE  \E c \in [destination : Destinations, active : BOOLEAN] : contact' = [contact EXCEPT ![r] = c]
        <5> DEFINE c == [destination |-> a, active |-> contact[r].active \/ contact[r].destination = Placeholder]
        <5>1. contact[r].active \in BOOLEAN BY <1>1
        <5>2. c \in [destination : Destinations, active : BOOLEAN] BY <5>1 DEF Destinations
        <5>3. contact' = [contact EXCEPT ![r] = c] BY <4>1 DEF Queue!SetContact, Queue!ChangeContact
        <5>. QED BY <5>2, <5>3
      <4>2. ASSUME NEW on \in BOOLEAN, Queue!SetContactActive(r, on)
            PROVE  \E c \in [destination : Destinations, active : BOOLEAN] : contact' = [contact EXCEPT ![r] = c]
        <5> DEFINE c == [contact[r] EXCEPT !.active = on]
        <5>1. c \in [destination : Destinations, active : BOOLEAN] BY <1>1
        <5>2. contact' = [contact EXCEPT ![r] = c] BY <4>2 DEF Queue!SetContactActive, Queue!ChangeContact
        <5>. QED BY <5>1, <5>2
      <4>. QED BY <1>3, <4>1, <4>2 DEF Queue!SetPreference, Queue!VerifyLink
    <3>. QED BY <1>1, <3>1
  <2>. QED BY <1>1, <2>1, <2>2, QueueStep
<1>4. ASSUME NEW d \in Queue!Rows, Queue!RetryDelivery(d) \/ Queue!Ignore(d)
      PROVE  DeliveryInv' /\ Queue!NoResendStep
  <2>1. PICK row \in Copy : Queue!Decide(d, row) /\ row.status # "sent"
    <3>1. stored[d].attempts \in Nat BY <1>1 DEF Copy
    <3>2. \A n \in Nat : /\ Queue!RowOf("pending", n) \in Copy /\ Queue!RowOf("ignored", n) \in Copy
                         /\ Queue!RowOf("pending", n).status # "sent"
                         /\ Queue!RowOf("ignored", n).status # "sent"
      BY DEF Queue!RowOf, Copy
    <3>. QED BY <1>4, <3>1, <3>2 DEF Queue!RetryDelivery, Queue!Ignore
  <2>2. /\ stored' = [stored EXCEPT ![d] = row] /\ stored[d].status # "sent"
        /\ drain' = drain /\ reached' = reached /\ contact' = contact
    BY <2>1 DEF Queue!Decide, Queue!QueueUnchanged
  <2>3. stored' \in [Queue!Rows -> Copy] BY <1>1, <2>2
  <2>4. \A e \in Queue!Rows : stored'[e] # stored[e] => e = d /\ stored'[e] = row BY <1>1, <2>2
  <2>. QED BY <1>1, <2>1, <2>2, <2>3, <2>4, QueueStep
<1>. QED BY <1>2, <1>3, <1>4, WorkerKeeps DEF Queue!DeliveryNext

LEMMA DeliveryStarts == Queue!DeliveryInit => DeliveryInv
<1> SUFFICES ASSUME Queue!DeliveryInit PROVE DeliveryInv OBVIOUS
<1>1. /\ stored = [d \in Queue!Rows |-> Queue!NoRow] /\ reached = [d \in Queue!Rows |-> 0]
      /\ contact = [r \in Recipients |-> [destination |-> Placeholder, active |-> FALSE]]
      /\ drain = [w \in Drains |-> Queue!Resting]
  BY DEF Queue!DeliveryInit
<1>2. Queue!NoRow \in Copy /\ Queue!Resting \in Batches /\ Queue!Resting.stage = "rest"
  <2>1. [d \in {} |-> Queue!NoRow] \in [{} -> Copy] /\ {} \in SUBSET Queue!Rows
    BY DEF Queue!NoRow, Copy
  <2>2. Queue!NoRow \in Copy BY DEF Queue!NoRow, Copy
  <2>. QED BY <2>1, <2>2 DEF Queue!Resting, Batches, Destinations
<1>3. DeliveryTypeOK BY <1>1, <1>2 DEF DeliveryTypeOK, Destinations
<1>4. \A w \in Drains : ~Queue!Working(w) BY <1>1, <1>2 DEF Queue!Working
<1>. QED BY <1>3, <1>4 DEF DeliveryInv

-----------------------------------------------------------------------------
(* The three together with the server: a behaviour exercises one of them.  *)

EndingsInv == TransferInv /\ UpgradeInv

LEMMA TransferStays == TransferInv /\ UNCHANGED assetVars => TransferInv'
<1> SUFFICES ASSUME TransferInv, UNCHANGED assetVars PROVE TransferInv' OBVIOUS
<1>1. /\ wish' = wish /\ moves' = moves /\ shelf' = shelf /\ before' = before /\ job' = job
  BY DEF assetVars
<1>. QED BY <1>1 DEF TransferInv, TransferTypeOK, Wished, Granted

LEMMA UpgradeStays == UpgradeInv /\ UNCHANGED upgradeVars => UpgradeInv'
<1> SUFFICES ASSUME UpgradeInv, UNCHANGED upgradeVars PROVE UpgradeInv' OBVIOUS
<1>1. /\ engine' = engine /\ ledger' = ledger /\ ran' = ran /\ offending' = offending
      /\ process' = process /\ named' = named
  BY DEF upgradeVars
<1>2. UpgradeTypeOK' BY <1>1 DEF UpgradeInv, UpgradeTypeOK
<1>3. \A p \in Starting : UpgradeOf(p)' BY <1>1 DEF UpgradeInv, UpgradeOf, Covered
<1>4. Upgrade!UpgradeSound'
  BY <1>1 DEF UpgradeInv, Upgrade!UpgradeSound, Upgrade!LedgerTells, Upgrade!ConstraintsHold, Upgrade!Variant,
    Upgrade!NeverQuoted, Upgrade!ServesCurrent, Upgrade!At, Upgrade!Build
<1>. QED BY <1>2, <1>3, <1>4 DEF UpgradeInv

\* A wish is fulfilled by at most one transfer that Fusion accepts, however
\* often a run asks and however its reports lag; and the schema is upgraded
\* once a version, in order, in the text made for its engine, a process serves
\* only on a schema it knows, and no row breaks a constraint that is there,
\* whoever starts beside whom and wherever they stop.
THEOREM EndingsDoneOnce == EndingsSpec => []DoneOnce
<1>1. EndingsInit => EndingsInv
  BY TransferStarts, UpgradeStarts DEF EndingsInit, EndingsInv
<1>2. EndingsInv /\ [EndingsNext]_<<part, vars, queueVars, assetVars, upgradeVars>> => EndingsInv'
  <2> SUFFICES ASSUME EndingsInv, [EndingsNext]_<<part, vars, queueVars, assetVars, upgradeVars>>
               PROVE  EndingsInv'
    OBVIOUS
  <2>1. \/ UNCHANGED <<assetVars, upgradeVars>>
        \/ Transfer!TransferNext /\ UNCHANGED upgradeVars
        \/ Upgrade!MigrationsNext /\ UNCHANGED assetVars
    BY DEF EndingsNext
  <2>2. TransferInv'
    BY <2>1, TransferStep, TransferStays DEF EndingsInv
  <2>3. UpgradeInv'
    BY <2>1, UpgradeStep, UpgradeStays DEF EndingsInv
  <2>. QED BY <2>2, <2>3 DEF EndingsInv
<1>3. EndingsInv => DoneOnce
  BY DEF EndingsInv, TransferInv, UpgradeInv, DoneOnce, Transfer!MovedOnce
<1>. QED BY <1>1, <1>2, <1>3, PTL DEF EndingsSpec

\* Within one process, whose lock the drains take: a message that the queue
\* already shows as sent does not reach its recipient again, and its row stays
\* as it is, whatever the operators decide and wherever a drain stops.
THEOREM SentStaysSent ==
  ASSUME OneProcess
  PROVE  EndingsSpec => NoResend
<1>1. EndingsInit => DeliveryInv BY DeliveryStarts DEF EndingsInit
<1>2. DeliveryInv /\ [EndingsNext]_<<part, vars, queueVars, assetVars, upgradeVars>>
      => DeliveryInv' /\ [Queue!NoResendStep]_(Queue!deliveryVars)
  <2> SUFFICES ASSUME DeliveryInv, [EndingsNext]_<<part, vars, queueVars, assetVars, upgradeVars>>
               PROVE  DeliveryInv' /\ [Queue!NoResendStep]_(Queue!deliveryVars)
    OBVIOUS
  <2>1. Queue!DeliveryNext \/ UNCHANGED queueVars BY DEF EndingsNext
  <2>2. CASE Queue!DeliveryNext BY <2>2, DeliveryStep
  <2>3. CASE UNCHANGED queueVars
    <3>1. /\ stored' = stored /\ contact' = contact /\ drain' = drain /\ reached' = reached
      BY <2>3 DEF queueVars
    <3>2. DeliveryInv' BY <3>1 DEF DeliveryInv, DeliveryTypeOK, Queue!Working
    <3>3. UNCHANGED Queue!deliveryVars BY <2>3 DEF queueVars, Queue!deliveryVars
    <3>. QED BY <3>2, <3>3
  <2>. QED BY <2>1, <2>2, <2>3
<1>. QED BY <1>1, <1>2, PTL DEF EndingsSpec, NoResend, Queue!NoResend

-----------------------------------------------------------------------------
(* Scoped reads, switches and lifecycle changes (ScopedRead).              *)

Lives == Lifecycles \cup {Active}

-----------------------------------------------------------------------------
(* Where everybody is, and on which store that is possible.                *)

ReadAt == {"idle", "binding", "entering", "served", "discarded"} \cup ReadWindow
InStore == {"opening", "fencing", "stale", "locking", "fenced", "dirty"}
WriterAt == {"idle", "queued", "ready", "retrying", "answering", "finished", "failed"} \cup InStore

PlacesInv ==
  /\ backend \in Backends
  /\ pc \in [Requests -> Location]
  /\ at \in [Requests -> Replicas \cup {Absent}] /\ who \in [Requests -> Users \cup {Absent}]
  /\ \A t \in Requests : pc[t] # "idle" => at[t] \in Replicas /\ who[t] \in Users
  /\ \A r \in Reads :
       /\ pc[r] \in ReadAt
       /\ pc[r] \in {"fenceUser", "fenceGlobal"} => backend = "postgres"
       /\ pc[r] = "opening" => backend = "sqlite"
       /\ pc[r] \in {"sampling", "resampling"} => backend # "sqlite"
  /\ \A w \in Writers :
       /\ pc[w] \in WriterAt
       /\ pc[w] \in {"fencing", "stale", "locking"} => backend = "postgres"
       /\ pc[w] = "opening" => backend = "sqlite"
       /\ pc[w] = "dirty" => backend = "memory"
       /\ pc[w] = "answering" => w \in Switches
  /\ backend = "memory" => \A s, t \in Requests : pc[s] # "idle" /\ pc[t] # "idle" => at[s] = at[t]

-----------------------------------------------------------------------------
(* Who keeps whom out: the store's lock, SQLite's file, PostgreSQL's rows   *)
(* and fences.                                                             *)

Owning == {"locking", "fenced"}
Sampled == {"comparing", "resolving", "reading", "resampling"}
FencesOf(r) ==
  IF backend = "postgres" /\ pc[r] = "fenceGlobal" THEN {{}, {who[r]}}
  ELSE IF backend = "postgres" /\ pc[r] \in {"sampling"} \cup Sampled THEN {{who[r], Global}}
  ELSE {{}}

LocksInv ==
  /\ \A v, w \in Writers : pc[v] \in InStore /\ pc[w] \in InStore /\ at[v] = at[w] => v = w
  /\ backend = "sqlite" => \A x, y \in FileHolders : x = y
  /\ backend = "postgres" =>
       /\ \A v, w \in Writers : pc[v] \in Owning /\ pc[w] \in Owning /\ Key(v) = Key(w) => v = w
       /\ \A w \in Writers, r \in Reads : pc[w] = "fenced" => Key(w) \notin fences[r]
  /\ fences \in [Reads -> SUBSET Keys]
  /\ \A r \in Reads : fences[r] \in FencesOf(r)

-----------------------------------------------------------------------------
(* The gates of an in-memory store, as long as no bound has run out: of a   *)
(* read and a writer that concern each other one waits for the other.       *)

Calm == ~(backend = "memory" /\ expired # {})

GatesInv ==
  /\ waitsFor \in [Requests -> SUBSET Requests] /\ expired \subseteq Requests
  /\ backend = "memory" /\ expired = {} =>
       \A r \in Reads, w \in Writers : pc[w] \in WriterInGate =>
         /\ w \in Switches /\ who[w] = who[r] /\ pc[r] \in {"binding", "entering"} \cup ReadWindow =>
              \/ pc[r] = "binding" /\ w \in waitsFor[r]
              \/ pc[w] = "queued" /\ r \in waitsFor[w]
         /\ w \in Lifecycles /\ pc[r] \in {"entering"} \cup ReadWindow =>
              \/ pc[r] = "entering" /\ w \in waitsFor[r]
              \/ pc[w] = "queued" /\ r \in waitsFor[w]

-----------------------------------------------------------------------------
(* The counters: each counts the writers of its key that have written, and  *)
(* a user's generation is the user's counter.                              *)

Done(k) == {w \in Writers : Key(w) = k /\ pc[w] \in {"dirty", "answering", "finished"}}
Settled(k) == {w \in Writers : Key(w) = k /\ pc[w] \in {"answering", "finished"}}
Committed(k) == Cardinality(Settled(k))

CountsInv ==
  /\ version \in [Keys -> Nat] /\ generation \in [Users -> Nat] /\ lifecycle \in Lives
  /\ \A k \in Keys : version[k] = Cardinality(Done(k))
  /\ \A u \in Users : generation[u] = version[u]

SnapOf(w) ==
  /\ pc[w] \in {"idle", "queued", "ready", "retrying"} => attempts[w] < MaxAttempts
  /\ pc[w] \in InStore \cup {"answering"} => snap[w] \in Tokens
  /\ w \in Switches /\ pc[w] \in {"fencing", "locking", "fenced"} => snap[w].gen = generation[who[w]]
  /\ w \in Switches /\ pc[w] = "answering" => snap[w].gen < Committed(who[w])
  /\ backend = "memory" /\ pc[w] = "fenced" => snap[w] = Token(who[w])
  /\ w \in Switches /\ pc[w] = "dirty" =>
       generation[who[w]] = snap[w].gen + 1 /\ lifecycle = snap[w].life
  /\ w \in Lifecycles /\ pc[w] = "dirty" => generation[who[w]] = snap[w].gen

SnapsInv ==
  /\ attempts \in [Writers -> 0 .. MaxAttempts] /\ snap \in [Writers -> MaybeToken]
  /\ \A w \in Writers : SnapOf(w)

-----------------------------------------------------------------------------
(* The tab: its epoch is no younger than its tuple, and neither is younger  *)
(* than what has been committed.                                           *)

TabOf(u) ==
  /\ page[u].epoch.gen <= page[u].tuple.gen /\ page[u].tuple.gen <= Committed(u)
  /\ deriving[u] # Absent => deriving[u] \in Tokens /\ deriving[u].gen <= Committed(u)
PageOf(r) == pc[r] # "idle" /\ Echoing(r) =>
  /\ echo[r] \in Tokens /\ rendered[r] \in Tokens
  /\ echo[r].gen <= rendered[r].gen /\ rendered[r].gen <= Committed(who[r])

TabInv ==
  /\ page \in [Users -> [epoch : Tokens, tuple : Tokens]] /\ deriving \in [Users -> MaybeToken]
  /\ echo \in [Reads -> MaybeToken] /\ rendered \in [Reads -> MaybeToken]
  /\ \A u \in Users : TabOf(u)
  /\ \A r \in Reads : PageOf(r)

-----------------------------------------------------------------------------
(* A read: what it has sampled and seen.                                   *)

\* The lifecycle as it was before a change that is not committed yet.
CommittedLife(life) ==
  /\ \A w \in Lifecycles : pc[w] = "dirty" => snap[w].life = life
  /\ (\A w \in Lifecycles : pc[w] # "dirty") => lifecycle = life

\* Nothing that concerns r has been committed since it sampled.
Fresh(r) == backend = "memory" => sampled[r] = <<Committed(who[r]), Committed(Global)>>

ReadOf(r) ==
  /\ sampled[r] = Absent \/ sampled[r] \in Nat \X Nat
  /\ pc[r] \in ReadAt \ {"reading", "resampling", "served", "discarded"} => saw[r] = {}
  /\ pc[r] \in Sampled /\ backend # "sqlite" =>
       /\ sampled[r] \in Nat \X Nat
       /\ Calm => sampled[r] = <<version[who[r]], version[Global]>>
       /\ backend = "memory" => sampled[r][1] <= Committed(who[r]) /\ sampled[r][2] <= Committed(Global)
  /\ pc[r] \in {"resolving", "reading", "resampling"} /\ Echoing(r) /\ Fresh(r) =>
       /\ echo[r].gen = Committed(who[r]) /\ CommittedLife(echo[r].life)
       /\ r \notin dirtyReads /\ pc[r] # "resolving" => saw[r] = {echo[r]}
  /\ pc[r] \in {"resolving", "reading", "resampling", "served"} /\ Echoing(r) =>
       echo[r].gen = rendered[r].gen
  /\ pc[r] = "served" /\ Echoing(r) /\ r \notin dirtyReads => saw[r] = {echo[r]}
  /\ pc[r] = "discarded" /\ Calm => saw[r] = {}

ReadsInv ==
  /\ dirtyReads \subseteq Reads /\ DirtyReadsNeedExpiry
  /\ saw \in [Reads -> SUBSET Tokens] /\ DOMAIN sampled = Reads
  /\ \A r \in Reads : ReadOf(r)

ReadInv == PlacesInv /\ LocksInv /\ GatesInv /\ CountsInv /\ SnapsInv /\ TabInv /\ ReadsInv

-----------------------------------------------------------------------------
(* What a step leaves alone.                                               *)

LEMMA Kinds ==
  /\ Reads \subseteq Requests /\ Writers \subseteq Requests /\ Reads \cap Writers = {}
  /\ Requests = Reads \cup Writers /\ Writers = Switches \cup Lifecycles /\ Switches \cap Lifecycles = {}
  /\ Absent \notin Replicas /\ Global \notin Users /\ Users \subseteq Keys /\ Global \in Keys
BY DistinctNames DEF Requests, Writers, Keys

LEMMA ReadFrame ==
  ASSUME PlacesInv, NEW r \in Reads, ReadStep(r)
  PROVE  /\ pc' = [pc EXCEPT ![r] = pc'[r]]
         /\ UNCHANGED <<data, client, placed, writeVars, echo, rendered>>
BY DEF PlacesInv, ReadStep, EnterLifecycleGate, EnterFences, FenceUser, FenceGlobal, FenceRefused,
       OpenFile, FileBusy, Sample, Match, Mismatch, Resolve, ReadRows, Resample, Answer, readVars

LEMMA WriteFrame ==
  ASSUME PlacesInv, NEW w \in Writers, WriteStep(w)
  PROVE  /\ \A r \in Reads : pc'[r] = pc[r]
         /\ UNCHANGED <<deriving, placed, readVars>>
<1>1. \A r \in Reads : r # w /\ r \in Requests BY Kinds
<1>2. CASE Commit(w)
  BY <1>1, <1>2, Kinds DEF PlacesInv, Commit, Finish, client
<1>3. CASE CommitInPlace(w)
  BY <1>1, <1>3, Kinds DEF PlacesInv, CommitInPlace, Finish, client
<1>4. CASE ~Commit(w) /\ ~CommitInPlace(w)
  BY <1>1, <1>4, Kinds
  DEF PlacesInv, WriteStep, RegisterAgain, Enqueue, WriterPasses, Begin, OpenFileForWrite, FenceRow,
      FenceExclusive, Conflict, Mutate, Abort, AnswerSwitch, client, placed
<1>. QED BY <1>2, <1>3, <1>4

-----------------------------------------------------------------------------
(* Places.                                                                 *)

LEMMA Words ==
  /\ ReadAt \cup WriterAt \subseteq Location
  /\ WriterInGate = {"queued", "ready"} \cup InStore
BY DEF ReadAt, WriterAt, Location, InStore, WriterInGate, ReadWindow

LEMMA ReadPlaces ==
  ASSUME PlacesInv, NEW r \in Reads, ReadStep(r)
  PROVE  PlacesInv'
<1>1. /\ pc' = [pc EXCEPT ![r] = pc'[r]]
      /\ at' = at /\ who' = who /\ backend' = backend
  BY ReadFrame DEF placed
<1>2. pc[r] # "idle" /\ pc'[r] \in ReadAt \ {"idle"}
      /\ (pc'[r] \in {"fenceUser", "fenceGlobal"} => backend = "postgres")
      /\ (pc'[r] = "opening" => backend = "sqlite")
      /\ (pc'[r] \in {"sampling", "resampling"} => backend # "sqlite")
  BY Kinds, BackendAssumption
  DEF PlacesInv, ReadStep, EnterLifecycleGate, EnterFences, FenceUser, FenceGlobal, FenceRefused,
      OpenFile, FileBusy, Sample, Match, Mismatch, Resolve, ReadRows, Resample, Answer, ReadAt, ReadWindow
<1>. QED BY <1>1, <1>2, Kinds, Words DEF PlacesInv
LEMMA WritePlaces ==
  ASSUME PlacesInv, NEW w \in Writers, WriteStep(w)
  PROVE  PlacesInv'
<1> DEFINE Fits(v, l) ==
             /\ l \in WriterAt \ {"idle"}
             /\ l \in {"fencing", "stale", "locking"} => backend = "postgres"
             /\ l = "opening" => backend = "sqlite"
             /\ l = "dirty" => backend = "memory"
             /\ l = "answering" => v \in Switches
<1>1. /\ \A r \in Reads : pc'[r] = pc[r]
      /\ at' = at /\ who' = who /\ backend' = backend
  BY WriteFrame DEF placed
<1>2. pc[w] # "idle" /\ pc'[w] \in Location /\ Fits(w, pc'[w])
      /\ (Commit(w) \/ pc' = [pc EXCEPT ![w] = pc'[w]])
  <2>1. CASE Commit(w) \/ CommitInPlace(w)
    BY <2>1, Kinds DEF PlacesInv, Commit, CommitInPlace, Finish, WriterAt, InStore, Location
  <2>2. CASE Conflict(w) \/ Abort(w) \/ AnswerSwitch(w) \/ Mutate(w)
    BY <2>2, Kinds
    DEF PlacesInv, Conflict, MustWait, Abort, AnswerSwitch, Mutate, WriterAt, InStore, Location, WriterInGate
  <2>3. CASE RegisterAgain(w) \/ WriterPasses(w) \/ Begin(w) \/ OpenFileForWrite(w) \/ FenceRow(w)
             \/ FenceExclusive(w)
    BY <2>3, Kinds, BackendAssumption
    DEF PlacesInv, RegisterAgain, Enqueue, WriterPasses, Begin, OpenFileForWrite, FenceRow,
        FenceExclusive, WriterAt, InStore, Location, WriterInGate
  <2>. QED BY <2>1, <2>2, <2>3 DEF WriteStep
<1>3. /\ pc' \in [Requests -> Location]
      /\ \A v \in Writers : pc'[v] = pc[v] \/ (pc[v] # "idle" /\ Fits(v, pc'[v]))
  <2>1. CASE pc' = [pc EXCEPT ![w] = pc'[w]]
    BY <1>2, <2>1, Kinds DEF PlacesInv
  <2>2. CASE Commit(w)
    <3> DEFINE next(t) == IF t = w THEN (IF w \in Switches THEN "answering" ELSE "finished")
                     ELSE IF t \in {o \in Writers : pc[o] = "fencing" /\ Key(o) = Key(w)} THEN "stale" ELSE pc[t]
    <3>1. pc' = [t \in Requests |-> next(t)] BY <2>2 DEF Commit, Finish
    <3>2. \A t \in Requests : next(t) \in Location
      BY DEF PlacesInv, Location, WriterInGate
    <3>3. ASSUME NEW v \in Writers
          PROVE  pc'[v] = pc[v] \/ (pc[v] # "idle" /\ Fits(v, pc'[v]))
      <4>1. pc'[v] = next(v) BY <3>1, Kinds
      <4>2. CASE v = w BY <1>2, <4>2
      <4>3. CASE v # w
        BY <4>1, <4>3, Kinds DEF PlacesInv, WriterAt, InStore
      <4>. QED BY <4>2, <4>3
    <3>. QED BY <3>1, <3>2, <3>3
  <2>. QED BY <1>2, <2>1, <2>2
<1>. QED BY <1>1, <1>3, Kinds DEF PlacesInv

LEMMA ArrivalPlaces ==
  ASSUME PlacesInv, NEW t \in Requests, NEW u \in Users, NEW p \in Replicas, Issue(t, u, p) \/ Register(t, u, p)
  PROVE  PlacesInv'
<1>1. /\ pc[t] = "idle" /\ SharesStore(p) /\ at' = [at EXCEPT ![t] = p] /\ who' = [who EXCEPT ![t] = u]
      /\ backend' = backend /\ pc' = [pc EXCEPT ![t] = pc'[t]]
      /\ \/ t \in Reads /\ pc'[t] = "binding"
         \/ t \in Writers /\ pc'[t] = "queued"
  BY Kinds DEF PlacesInv, Issue, Register, Enqueue
<1>2. backend = "memory" => \A s \in Requests : pc[s] # "idle" => at[s] = p
  BY <1>1, Kinds DEF PlacesInv, SharesStore
<1>3. pc'[t] \in Location /\ (t \in Reads => pc'[t] \in ReadAt) /\ (t \in Writers => pc'[t] \in WriterAt)
  BY <1>1, Kinds DEF Location, ReadAt, WriterAt, WriterInGate
<1>4. pc' \in [Requests -> Location] /\ at' \in [Requests -> Replicas \cup {Absent}]
      /\ who' \in [Requests -> Users \cup {Absent}]
  BY <1>1, <1>3 DEF PlacesInv
<1>6. /\ at'[t] = p /\ who'[t] = u
      /\ \A s \in Requests \ {t} : pc'[s] = pc[s] /\ at'[s] = at[s] /\ who'[s] = who[s]
  BY <1>1 DEF PlacesInv
<1>5. \A s \in Requests : pc'[s] # "idle" => /\ at'[s] \in Replicas /\ who'[s] \in Users
                                              /\ (backend = "memory" => at'[s] = p)
  BY <1>2, <1>6 DEF PlacesInv
<1>. QED BY <1>1, <1>3, <1>4, <1>5, <1>6, Kinds DEF PlacesInv

LEMMA PlacesStart == Init => PlacesInv
  BY Kinds DEF Init, PlacesInv, ReadAt, WriterAt, Location

LEMMA TabPlaces ==
  ASSUME PlacesInv, UNCHANGED <<pc, placed>>
  PROVE  PlacesInv'
  BY DEF PlacesInv, placed
-----------------------------------------------------------------------------
(* Locks.                                                                  *)

LEMMA LocksStart == Init => LocksInv
  BY Kinds DEF Init, LocksInv, InStore, FileHolders, Owning, FencesOf, Sampled

\* Steps that leave the locations and the fences alone.
LEMMA LocksStay ==
  ASSUME LocksInv, UNCHANGED <<pc, placed, fences>>
  PROVE  LocksInv'
  BY DEF LocksInv, FencesOf, FileHolders, Key, placed

LEMMA ReadLocks ==
  ASSUME PlacesInv, LocksInv, NEW r \in Reads, ReadStep(r)
  PROVE  LocksInv'
<1>1. /\ pc' = [pc EXCEPT ![r] = pc'[r]] /\ at' = at /\ who' = who /\ backend' = backend
      /\ \A w \in Writers : pc'[w] = pc[w]
  BY ReadFrame, Kinds DEF placed, PlacesInv
<1>2. /\ \A t \in Reads \ {r} : pc'[t] = pc[t]
      /\ \A w \in Writers : Key(w)' = Key(w)
  BY <1>1, Kinds DEF PlacesInv, Key
<1>3. backend = "sqlite" => \A x, y \in FileHolders' : x = y
  <2> SUFFICES ASSUME backend = "sqlite" PROVE \A x, y \in FileHolders' : x = y OBVIOUS
  <2>1. CASE OpenFile(r)
    <3>1. FileHolders = {} BY <2>1 DEF OpenFile
    <3>. QED BY <1>1, <1>2, <3>1 DEF FileHolders
  <2>2. CASE ~OpenFile(r)
    <3>1. pc'[r] \in {"comparing", "resolving", "reading"} => pc[r] \in {"comparing", "resolving", "reading"}
      BY <2>2, Kinds
      DEF PlacesInv, ReadStep, EnterLifecycleGate, EnterFences, FenceUser, FenceGlobal, FenceRefused,
          OpenFile, FileBusy, Sample, Match, Mismatch, Resolve, ReadRows, Resample, Answer
    <3>2. FileHolders' \subseteq FileHolders BY <1>1, <1>2, <3>1 DEF FileHolders
    <3>. QED BY <3>2 DEF LocksInv
  <2>. QED BY <2>1, <2>2
<1>4. /\ fences' \in [Reads -> SUBSET Keys]
      /\ \A q \in Reads \ {r} : fences'[q] = fences[q]
      /\ \A k \in fences'[r] : k \in fences[r] \/ RowHolders(k) = {}
      /\ fences'[r] \in FencesOf(r)'
  <2>1. CASE FenceUser(r)
    <3>1. who[r] \in Keys /\ backend = "postgres" BY <2>1, Kinds DEF PlacesInv, FenceUser
    <3>2. pc'[r] = "fenceGlobal" /\ fences' = [fences EXCEPT ![r] = IF RowHolders(who[r]) = {} THEN {who[r]} ELSE {}]
      BY <2>1, <1>1, Kinds DEF PlacesInv, FenceUser
    <3>3. fences' \in [Reads -> SUBSET Keys] /\ (\A q \in Reads \ {r} : fences'[q] = fences[q])
          /\ fences'[r] = IF RowHolders(who[r]) = {} THEN {who[r]} ELSE {}
      BY <3>1, <3>2 DEF LocksInv
    <3>4. fences'[r] \in FencesOf(r)' BY <1>1, <3>1, <3>2, <3>3 DEF FencesOf
    <3>. QED BY <3>3, <3>4
  <2>2. CASE FenceGlobal(r)
    <3>1. backend = "postgres" /\ fences[r] = {who[r]} /\ RowHolders(Global) = {}
      BY <2>2 DEF LocksInv, FenceGlobal, FencesOf, PlacesInv
    <3>2. pc'[r] = "sampling" /\ fences' = [fences EXCEPT ![r] = @ \cup {Global}]
      BY <2>2, <1>1, Kinds DEF PlacesInv, FenceGlobal
    <3>3. fences[r] \in SUBSET Keys /\ fences'[r] = {who[r], Global} BY <3>1, <3>2 DEF LocksInv
    <3>. QED BY <1>1, <3>1, <3>2, <3>3, Kinds DEF LocksInv, FencesOf
  <2>3. CASE LeaveFences(r) /\ pc'[r] \in {"served", "discarded"}
    BY <1>1, <2>3 DEF LocksInv, FencesOf, LeaveFences, Sampled
  <2>4. CASE /\ fences' = fences
             /\ \/ pc[r] \notin {"fenceGlobal", "sampling"} \cup Sampled
                   /\ pc'[r] \notin {"fenceGlobal", "sampling"} \cup Sampled
                \/ pc[r] \in {"sampling"} \cup Sampled /\ pc'[r] \in {"sampling"} \cup Sampled
                \/ backend # "postgres"
    BY <1>1, <2>4 DEF LocksInv, FencesOf, Sampled
  <2>. QED
    BY <1>1, <2>1, <2>2, <2>3, <2>4, Kinds
    DEF PlacesInv, ReadStep, EnterLifecycleGate, EnterFences, FenceRefused, Sampled, readVars,
        OpenFile, FileBusy, Sample, Match, Mismatch, Resolve, ReadRows, Resample, Answer
<1>5. backend = "postgres" =>
        \A w \in Writers, q \in Reads : pc'[w] = "fenced" => Key(w)' \notin fences'[q]
  <2> SUFFICES ASSUME backend = "postgres", NEW w \in Writers, NEW q \in Reads, pc[w] = "fenced"
               PROVE  Key(w) \notin fences'[q]
    BY <1>1, <1>2
  <2>1. Key(w) \notin fences[q] BY DEF LocksInv
  <2>2. w \in RowHolders(Key(w)) BY DEF RowHolders
  <2>. QED BY <1>4, <2>1, <2>2
<1>6. \A q \in Reads : fences'[q] \in FencesOf(q)'
  <2>1. \A q \in Reads \ {r} : FencesOf(q)' = FencesOf(q) BY <1>1, <1>2 DEF FencesOf
  <2>. QED BY <1>4, <2>1 DEF LocksInv
<1>. QED BY <1>1, <1>2, <1>3, <1>4, <1>5, <1>6 DEF LocksInv
LEMMA ArrivalLocks ==
  ASSUME PlacesInv, LocksInv, NEW t \in Requests, NEW u \in Users, NEW p \in Replicas,
         Issue(t, u, p) \/ Register(t, u, p)
  PROVE  LocksInv'
<1>1. /\ pc[t] = "idle" /\ pc'[t] \in {"binding", "queued"} /\ fences' = fences /\ backend' = backend
      /\ \A s \in Requests \ {t} : pc'[s] = pc[s] /\ at'[s] = at[s] /\ who'[s] = who[s]
  BY Kinds DEF PlacesInv, Issue, Register, Enqueue, readVars
<1>2. /\ \A w \in Writers : pc'[w] \in InStore => w # t /\ pc[w] \in InStore
      /\ \A w \in Writers \ {t} : Key(w)' = Key(w)
      /\ FileHolders' = FileHolders
  BY <1>1, Kinds DEF InStore, Key, FileHolders
<1>3. \A v, w \in Writers : pc'[v] \in InStore /\ pc'[w] \in InStore /\ at'[v] = at'[w] => v = w
  BY <1>1, <1>2, Kinds DEF LocksInv
<1>4. backend = "postgres" =>
       /\ \A v, w \in Writers : pc'[v] \in Owning /\ pc'[w] \in Owning /\ Key(v)' = Key(w)' => v = w
       /\ \A w \in Writers, r \in Reads : pc'[w] = "fenced" => Key(w)' \notin fences'[r]
  BY <1>1, <1>2, Kinds DEF LocksInv, Owning, InStore
<1>5. \A r \in Reads : FencesOf(r)' = FencesOf(r)
  BY <1>1, Kinds DEF FencesOf, Sampled
<1>. QED BY <1>1, <1>2, <1>3, <1>4, <1>5 DEF LocksInv

\* Only w moves; beside it, only transactions that wait for the row it commits
\* become stale.
LEMMA WriteMoves ==
  ASSUME PlacesInv, NEW w \in Writers, WriteStep(w)
  PROVE  /\ \A v \in Writers \ {w} : pc'[v] = pc[v] \/ (pc[v] = "fencing" /\ pc'[v] = "stale")
         /\ ~Commit(w) => pc' = [pc EXCEPT ![w] = pc'[w]]
<1>1. CASE Commit(w) BY <1>1, Kinds DEF Commit, Finish
<1>2. CASE CommitInPlace(w)
  <2>1. pc' = [t \in Requests |-> IF t = w THEN (IF w \in Switches THEN "answering" ELSE "finished")
                                  ELSE IF t \in {} THEN "stale" ELSE pc[t]]
    BY <1>2 DEF CommitInPlace, Finish
  <2>. QED BY <2>1, Kinds DEF PlacesInv
<1>3. CASE ~Commit(w) /\ ~CommitInPlace(w)
  <2>1. pc' = [pc EXCEPT ![w] = pc'[w]]
    BY <1>3, Kinds
    DEF PlacesInv, WriteStep, RegisterAgain, Enqueue, WriterPasses, Begin, OpenFileForWrite, FenceRow,
        FenceExclusive, Conflict, Mutate, Abort, AnswerSwitch
  <2>. QED BY <2>1, Kinds DEF PlacesInv
<1>. QED BY <1>1, <1>2, <1>3

LEMMA WriteLocks ==
  ASSUME PlacesInv, LocksInv, NEW w \in Writers, WriteStep(w)
  PROVE  LocksInv'
<1>1. /\ \A r \in Reads : pc'[r] = pc[r]
      /\ at' = at /\ who' = who /\ backend' = backend /\ fences' = fences
      /\ \A v \in Writers : Key(v)' = Key(v)
  BY WriteFrame DEF placed, readVars, Key
<1>2. \A v \in Writers \ {w} : pc'[v] = pc[v] \/ (pc[v] = "fencing" /\ pc'[v] = "stale")
  BY WriteMoves
<1>3. pc'[w] \in InStore /\ pc[w] \notin InStore => StoreFree(at[w])
  BY Kinds
  DEF PlacesInv, WriteStep, RegisterAgain, Enqueue, WriterPasses, Begin, OpenFileForWrite, FenceRow,
      FenceExclusive, Conflict, MustWait, Mutate, Abort, AnswerSwitch, CommitInPlace, Commit, Finish, InStore
<1>4. pc'[w] \in Owning /\ backend = "postgres" => pc[w] \in Owning \/ RowHolders(Key(w)) = {}
  BY Kinds
  DEF PlacesInv, WriteStep, RegisterAgain, Enqueue, WriterPasses, Begin, OpenFileForWrite, FenceRow,
      FenceExclusive, Conflict, MustWait, Mutate, Abort, AnswerSwitch, CommitInPlace, Commit, Finish, Owning
<1>5. pc'[w] = "fenced" => \/ backend = "postgres" /\ SharedHolders(Key(w)) = {}
                           \/ backend = "sqlite" /\ FileHolders = {}
                           \/ backend = "memory"
  BY Kinds, BackendAssumption
  DEF PlacesInv, WriteStep, RegisterAgain, Enqueue, WriterPasses, Begin, OpenFileForWrite, FenceRow,
      FenceExclusive, Conflict, MustWait, Mutate, Abort, AnswerSwitch, CommitInPlace, Commit, Finish
<1>6. \A u, v \in Writers : pc'[u] \in InStore /\ pc'[v] \in InStore /\ at[u] = at[v] => u = v
  <2>1. \A v \in Writers \ {w} : pc'[v] \in InStore => pc[v] \in InStore BY <1>2 DEF InStore
  <2>2. StoreFree(at[w]) => \A v \in Writers : at[v] = at[w] => pc[v] \notin InStore
    BY DEF StoreFree, InTransaction, AtReplica, InStore
  <2>. QED BY <1>3, <2>1, <2>2 DEF LocksInv
<1>7. backend = "sqlite" => \A x, y \in FileHolders' : x = y
  <2>1. FileHolders' \ {w} = FileHolders \ {w} BY <1>1, <1>2, Kinds DEF FileHolders
  <2>2. backend = "sqlite" /\ w \in FileHolders' => FileHolders = {}
    BY <1>5, Kinds DEF FileHolders, PlacesInv
  <2>. QED BY <2>1, <2>2 DEF LocksInv
<1>8. backend = "postgres" =>
        \A u, v \in Writers : pc'[u] \in Owning /\ pc'[v] \in Owning /\ Key(u) = Key(v) => u = v
  <2>1. \A v \in Writers \ {w} : pc'[v] \in Owning => pc[v] \in Owning BY <1>2 DEF Owning
  <2>2. RowHolders(Key(w)) = {} => \A v \in Writers : Key(v) = Key(w) => pc[v] \notin Owning
    BY DEF RowHolders, Owning
  <2>. QED BY <1>4, <2>1, <2>2 DEF LocksInv
<1>9. backend = "postgres" =>
        \A v \in Writers, r \in Reads : pc'[v] = "fenced" => Key(v) \notin fences[r]
  BY <1>2, <1>5 DEF LocksInv, SharedHolders
<1>10. \A r \in Reads : FencesOf(r)' = FencesOf(r) BY <1>1 DEF FencesOf
<1>. QED BY <1>1, <1>6, <1>7, <1>8, <1>9, <1>10 DEF LocksInv
-----------------------------------------------------------------------------
(* Gates.                                                                  *)

ContextGated(r) == pc[r] \in {"binding", "entering"} \cup ReadWindow
LifecycleGated(r) == pc[r] \in {"entering"} \cup ReadWindow
Concerned(r, w) ==
  \/ w \in Switches /\ who[w] = who[r] /\ ContextGated(r)
  \/ w \in Lifecycles /\ LifecycleGated(r)
Waits(r, w) ==
  \/ (w \in Switches => pc[r] = "binding") /\ (w \in Lifecycles => pc[r] = "entering") /\ w \in waitsFor[r]
  \/ pc[w] = "queued" /\ r \in waitsFor[w]
Settle == backend = "memory" /\ expired = {}

LEMMA GatesPairwise ==
  GatesInv <=>
    /\ waitsFor \in [Requests -> SUBSET Requests] /\ expired \subseteq Requests
    /\ Settle => \A r \in Reads, w \in Writers : pc[w] \in WriterInGate /\ Concerned(r, w) => Waits(r, w)
BY Kinds DEF GatesInv, Settle, Concerned, Waits, ContextGated, LifecycleGated

\* A step of t that keeps every pair without t as it is.
LEMMA GatesStep ==
  ASSUME PlacesInv, GatesInv, NEW t \in Requests, who' = who \/ pc[t] = "idle",
         backend' = backend, expired \subseteq expired', expired' \subseteq expired \cup {t},
         waitsFor' \in [Requests -> SUBSET Requests],
         \A s \in Requests \ {t} : /\ pc'[s] = pc[s] /\ who'[s] = who[s]
                                   /\ waitsFor[s] \ {t} \subseteq waitsFor'[s],
         Settle' => /\ t \in Reads => \A w \in Writers : pc[w] \in WriterInGate /\ Concerned(t, w)' => Waits(t, w)'
                    /\ t \in Writers /\ pc'[t] \in WriterInGate =>
                         \A r \in Reads : Concerned(r, t)' => Waits(r, t)'
  PROVE  GatesInv'
<1>1. Settle' => Settle BY DEF Settle
<1>2. ASSUME Settle', NEW r \in Reads, NEW w \in Writers, pc'[w] \in WriterInGate, Concerned(r, w)'
      PROVE  Waits(r, w)'
  <2>1. CASE r = t BY <1>2, <2>1, Kinds
  <2>2. CASE w = t BY <1>2, <2>2, Kinds
  <2>3. CASE r # t /\ w # t
    <3>1. /\ pc'[r] = pc[r] /\ pc'[w] = pc[w] /\ who'[r] = who[r] /\ who'[w] = who[w]
          /\ waitsFor[r] \ {t} \subseteq waitsFor'[r] /\ waitsFor[w] \ {t} \subseteq waitsFor'[w]
      BY <2>3, Kinds
    <3>2. Concerned(r, w) BY <1>2, <3>1 DEF Concerned, ContextGated, LifecycleGated
    <3>3. Waits(r, w) BY <1>1, <1>2, <3>1, <3>2, GatesPairwise
    <3>. QED BY <2>3, <3>1, <3>3 DEF Waits
  <2>. QED BY <2>1, <2>2, <2>3
<1>3. expired' \subseteq Requests BY DEF GatesInv
<1>4. (GatesInv <=>
    /\ waitsFor \in [Requests -> SUBSET Requests] /\ expired \subseteq Requests
    /\ Settle => \A r \in Reads, w \in Writers : pc[w] \in WriterInGate /\ Concerned(r, w) => Waits(r, w))'
  BY Kinds DEF GatesInv, Settle, Concerned, Waits, ContextGated, LifecycleGated
<1>. QED BY <1>2, <1>3, <1>4

LEMMA GatesStart == Init => GatesInv
  BY Kinds DEF Init, GatesInv, WriterInGate

LEMMA GatesStay ==
  ASSUME GatesInv, UNCHANGED <<pc, placed, gates>>
  PROVE  GatesInv'
  BY DEF GatesInv, gates, placed
LEMMA ReadGates ==
  ASSUME PlacesInv, GatesInv, NEW r \in Reads, ReadStep(r)
  PROVE  GatesInv'
<1>1. /\ pc' = [pc EXCEPT ![r] = pc'[r]] /\ at' = at /\ who' = who /\ backend' = backend
      /\ r \in Requests /\ r \notin Writers /\ \A s \in Requests \ {r} : pc'[s] = pc[s]
  BY ReadFrame, Kinds DEF placed, PlacesInv
<1>2. /\ waitsFor \in [Requests -> SUBSET Requests] /\ pc[r] # "idle" /\ at[r] \in Replicas
      /\ DOMAIN pc = Requests
  BY <1>1, Kinds
  DEF GatesInv, PlacesInv, ReadStep, EnterLifecycleGate, EnterFences, FenceUser, FenceGlobal, FenceRefused,
      OpenFile, FileBusy, Sample, Match, Mismatch, Resolve, ReadRows, Resample
<1>3. Settle => \A w \in Writers : pc[w] \in WriterInGate /\ Concerned(r, w) => Waits(r, w)
  BY GatesPairwise
<1>4. CASE EnterLifecycleGate(r)
  <2> DEFINE ahead == InGate(AtReplica(Lifecycles, at[r]))
  <2>1. /\ pc[r] = "binding" /\ pc'[r] = "entering" /\ waitsFor' = [waitsFor EXCEPT ![r] = ahead]
        /\ expired \subseteq expired' /\ expired' \subseteq expired \cup {r}
        /\ Settle' => Settle /\ waitsFor[r] = {}
    BY <1>1, <1>2, <1>4 DEF EnterLifecycleGate, PassGate, Settle
  <2>2. ahead \in SUBSET Requests BY <1>2, Kinds DEF InGate, AtReplica
  <2>3. ASSUME Settle', NEW w \in Writers, pc[w] \in WriterInGate, Concerned(r, w)'
        PROVE  Waits(r, w)'
    <3>1. pc'[w] = pc[w] /\ w # r /\ w \in Requests /\ waitsFor'[w] = waitsFor[w] /\ waitsFor'[r] = ahead
      BY <1>1, <1>2, <2>1, Kinds
    <3>2. CASE w \in Switches
      <4>1. Concerned(r, w) BY <1>1, <2>1, <2>3, <3>2, Kinds DEF Concerned, ContextGated
      <4>2. Waits(r, w) /\ w \notin waitsFor[r] BY <1>3, <2>1, <2>3, <4>1
      <4>. QED BY <3>1, <4>2 DEF Waits
    <3>3. CASE w \in Lifecycles
      <4>1. at[w] = at[r]
        <5>1. pc[w] # "idle" BY <2>3 DEF WriterInGate
        <5>. QED BY <1>1, <1>2, <2>3, <3>1, <5>1 DEF PlacesInv, Settle
      <4>2. w \in ahead BY <2>3, <3>3, <4>1 DEF InGate, AtReplica
      <4>. QED BY <2>1, <3>1, <3>3, <4>2, Kinds DEF Waits
    <3>. QED BY <3>2, <3>3, Kinds
  <2> HIDE DEF ahead
  <2>4. /\ waitsFor' \in [Requests -> SUBSET Requests]
        /\ \A s \in Requests \ {r} : waitsFor[s] \ {r} \subseteq waitsFor'[s]
    BY <1>1, <1>2, <2>1, <2>2
  <2>. QED BY <1>1, <2>1, <2>3, <2>4, GatesStep
<1>5. CASE EnterFences(r)
  <2>1. /\ pc[r] = "entering" /\ pc'[r] \in ReadWindow /\ waitsFor' = [waitsFor EXCEPT ![r] = {}]
        /\ expired \subseteq expired' /\ expired' \subseteq expired \cup {r}
        /\ Settle' => Settle /\ waitsFor[r] = {}
    BY <1>1, <1>2, <1>5, BackendAssumption DEF EnterFences, PassGate, Settle, ReadWindow, PlacesInv
  <2>2. ASSUME Settle', NEW w \in Writers, pc[w] \in WriterInGate, Concerned(r, w)'
        PROVE  Waits(r, w)'
    <3>1. pc'[w] = pc[w] /\ w # r /\ w \in Requests /\ waitsFor'[w] = waitsFor[w]
      BY <1>1, <1>2, <2>1, Kinds
    <3>2. Concerned(r, w)
      BY <1>1, <2>1, <2>2, Kinds DEF Concerned, ContextGated, LifecycleGated
    <3>3. Waits(r, w) /\ w \notin waitsFor[r] BY <1>3, <2>1, <2>2, <3>2
    <3>. QED BY <3>1, <3>3 DEF Waits
  <2>3. /\ waitsFor' \in [Requests -> SUBSET Requests]
        /\ \A s \in Requests \ {r} : waitsFor[s] \ {r} \subseteq waitsFor'[s]
    BY <1>1, <1>2, <2>1
  <2>. QED BY <1>1, <2>1, <2>2, <2>3, GatesStep
<1>6. CASE /\ expired' = expired /\ pc[r] \in ReadWindow
           /\ \/ waitsFor' = waitsFor /\ pc'[r] \in ReadWindow
              \/ LeaveGates(r) /\ pc'[r] \in {"served", "discarded"}
  <2>1. /\ waitsFor' \in [Requests -> SUBSET Requests]
        /\ \A s \in Requests \ {r} : waitsFor[s] \ {r} \subseteq waitsFor'[s]
    BY <1>1, <1>2, <1>6 DEF LeaveGates
  <2>2. ASSUME Settle', NEW w \in Writers, pc[w] \in WriterInGate, Concerned(r, w)'
        PROVE  Waits(r, w)'
    <3>1. waitsFor' = waitsFor /\ pc'[r] \in ReadWindow
      BY <1>6, <2>2 DEF Concerned, ContextGated, LifecycleGated, ReadWindow
    <3>2. Concerned(r, w) /\ Settle
      BY <1>1, <1>6, <2>2 DEF Concerned, ContextGated, LifecycleGated, Settle
    <3>3. Waits(r, w) BY <1>3, <2>2, <3>2
    <3>4. pc[r] \notin {"binding", "entering"} BY <1>6 DEF ReadWindow
    <3>5. pc'[w] = pc[w] BY <1>1, Kinds
    <3>. QED BY <3>1, <3>3, <3>4, <3>5, Kinds DEF Waits
  <2>. QED BY <1>1, <1>6, <2>1, <2>2, GatesStep
<1>. QED
  BY <1>2, <1>4, <1>5, <1>6, <1>1
  DEF PlacesInv, ReadStep, FenceUser, FenceGlobal, FenceRefused, OpenFile, FileBusy, Sample, Match,
      Mismatch, Resolve, ReadRows, Resample, Answer, ReadWindow, gates
\* A writer that queues, waits for whoever it finds before it.
LEMMA Queues ==
  ASSUME PlacesInv, GatesInv, NEW w \in Writers, NEW u \in Users, NEW p \in Replicas, Enqueue(w, u, p),
         who'[w] = u, at'[w] = p, backend' = backend, \A s \in Requests \ {w} : who'[s] = who[s],
         backend = "memory" => \A s \in Requests : pc[s] # "idle" => at[s] = p,
         who' = who \/ pc[w] = "idle"
  PROVE  GatesInv'
<1> DEFINE ahead == IF w \in Switches
                    THEN {t \in AtReplica(InContextGate \cup InGate(Switches), p) : who[t] = u}
                    ELSE AtReplica(InLifecycleGate \cup InGate(Lifecycles), p)
<1>1. /\ waitsFor' = [waitsFor EXCEPT ![w] = ahead] /\ pc' = [pc EXCEPT ![w] = "queued"] /\ expired' = expired
      /\ w \in Requests /\ w \notin Reads
  BY Kinds DEF Enqueue
<1>2. ahead \in SUBSET Requests
  BY Kinds DEF AtReplica, InContextGate, InLifecycleGate, InGate
<1>3. ASSUME Settle', NEW r \in Reads, Concerned(r, w)' PROVE r \in ahead
  <2>1. pc'[r] = pc[r] /\ who'[r] = who[r] /\ r \in Requests BY <1>1, Kinds DEF PlacesInv
  <2>2. pc[r] # "idle" /\ at[r] = p
    BY <1>3, <2>1 DEF Concerned, ContextGated, LifecycleGated, ReadWindow, Settle
  <2>3. CASE w \in Switches
    BY <1>3, <2>1, <2>2, <2>3, Kinds DEF Concerned, ContextGated, AtReplica, InContextGate
  <2>4. CASE w \notin Switches
    BY <1>3, <2>1, <2>2, <2>4, Kinds DEF Concerned, LifecycleGated, AtReplica, InLifecycleGate
  <2>. QED BY <2>3, <2>4
<1> HIDE DEF ahead
<1>4. /\ waitsFor' \in [Requests -> SUBSET Requests] /\ waitsFor'[w] = ahead /\ pc'[w] = "queued"
      /\ \A s \in Requests \ {w} : waitsFor'[s] = waitsFor[s] /\ pc'[s] = pc[s]
  BY <1>1, <1>2 DEF GatesInv, PlacesInv
<1>5. \A r \in Reads : Settle' /\ Concerned(r, w)' => Waits(r, w)' BY <1>3, <1>4 DEF Waits
<1>. QED BY <1>1, <1>4, <1>5, GatesStep

LEMMA ArrivalGates ==
  ASSUME PlacesInv, GatesInv, NEW t \in Requests, NEW u \in Users, NEW p \in Replicas,
         Issue(t, u, p) \/ Register(t, u, p)
  PROVE  GatesInv'
<1>1. /\ pc[t] = "idle" /\ SharesStore(p) /\ at' = [at EXCEPT ![t] = p] /\ who' = [who EXCEPT ![t] = u]
      /\ backend' = backend /\ expired' = expired
  BY DEF Issue, Register, Enqueue
<1>2. backend = "memory" => \A s \in Requests : pc[s] # "idle" => at[s] = p
  BY <1>1, Kinds DEF PlacesInv, SharesStore
<1>3. /\ at'[t] = p /\ who'[t] = u /\ \A s \in Requests \ {t} : who'[s] = who[s] BY <1>1 DEF PlacesInv
<1>4. CASE Register(t, u, p) BY <1>1, <1>2, <1>3, <1>4, Queues DEF Register
<1>5. CASE Issue(t, u, p)
  <2> DEFINE ahead == {w \in InGate(AtReplica(Switches, p)) : who[w] = u}
  <2>1. t \in Reads /\ pc' = [pc EXCEPT ![t] = "binding"] /\ waitsFor' = [waitsFor EXCEPT ![t] = ahead]
    BY <1>5 DEF Issue
  <2>2. ahead \in SUBSET Requests BY Kinds DEF InGate, AtReplica
  <2>3. ASSUME Settle', NEW w \in Writers, pc[w] \in WriterInGate, Concerned(t, w)' PROVE w \in ahead
    <3>1. pc[w] # "idle" /\ at[w] = p /\ w # t BY <1>1, <1>2, <2>1, <2>3, Kinds DEF WriterInGate, Settle
    <3>2. w \in Switches /\ who[w] = u
      BY <1>3, <2>1, <2>3, <3>1, Kinds DEF Concerned, LifecycleGated, ReadWindow, PlacesInv
    <3>. QED BY <2>3, <3>1, <3>2 DEF InGate, AtReplica
  <2> HIDE DEF ahead
  <2>4. /\ waitsFor' \in [Requests -> SUBSET Requests] /\ waitsFor'[t] = ahead /\ pc'[t] = "binding"
        /\ \A s \in Requests \ {t} : waitsFor'[s] = waitsFor[s] /\ pc'[s] = pc[s]
    BY <2>1, <2>2 DEF GatesInv, PlacesInv
  <2>5. \A w \in Writers : Settle' /\ pc[w] \in WriterInGate /\ Concerned(t, w)' => Waits(t, w)'
    <3>1. \A w \in Lifecycles : ~Concerned(t, w)'
      BY <2>4, Kinds DEF Concerned, LifecycleGated, ReadWindow
    <3>. QED BY <2>3, <2>4, <3>1, Kinds DEF Waits
  <2>. QED BY <1>1, <1>3, <2>1, <2>4, <2>5, Kinds, GatesStep
<1>. QED BY <1>4, <1>5

LEMMA WriteGates ==
  ASSUME PlacesInv, GatesInv, NEW w \in Writers, WriteStep(w)
  PROVE  GatesInv'
<1>1. /\ at' = at /\ who' = who /\ backend' = backend /\ \A r \in Reads : pc'[r] = pc[r]
      /\ w \in Requests /\ w \notin Reads
  BY WriteFrame, Kinds DEF placed
<1>2. /\ waitsFor \in [Requests -> SUBSET Requests] /\ pc[w] # "idle" /\ at[w] \in Replicas /\ who[w] \in Users
      /\ expired \subseteq Requests
  BY <1>1, Kinds
  DEF GatesInv, PlacesInv, WriteStep, RegisterAgain, WriterPasses, Begin, OpenFileForWrite, FenceRow,
      FenceExclusive, Conflict, MustWait, Mutate, Abort, AnswerSwitch, CommitInPlace, Commit
<1>3. CASE RegisterAgain(w)
  BY <1>1, <1>2, <1>3, Queues, Kinds DEF RegisterAgain, PlacesInv, placed
<1>4. CASE WriterPasses(w)
  <2>1. /\ pc[w] = "queued" /\ pc' = [pc EXCEPT ![w] = "ready"] /\ waitsFor' = [waitsFor EXCEPT ![w] = {}]
        /\ expired \subseteq expired' /\ expired' \subseteq expired \cup {w}
        /\ Settle' => Settle /\ waitsFor[w] = {}
    BY <1>1, <1>2, <1>4 DEF WriterPasses, PassGate, Settle
  <2>2. /\ waitsFor' \in [Requests -> SUBSET Requests]
        /\ \A s \in Requests \ {w} : waitsFor'[s] = waitsFor[s] /\ pc'[s] = pc[s]
    BY <1>2, <2>1 DEF PlacesInv
  <2>3. ASSUME Settle', NEW r \in Reads, Concerned(r, w)' PROVE Waits(r, w)'
    <3>1. pc'[r] = pc[r] /\ waitsFor'[r] = waitsFor[r] BY <1>1, <2>2, Kinds
    <3>2. Concerned(r, w) BY <1>1, <2>3, <3>1 DEF Concerned, ContextGated, LifecycleGated
    <3>3. Waits(r, w) /\ r \notin waitsFor[w] BY <2>1, <2>3, <3>2, GatesPairwise DEF WriterInGate
    <3>. QED BY <3>1, <3>3 DEF Waits
  <2>. QED BY <1>1, <2>1, <2>2, <2>3, GatesStep
<1>5. CASE ~RegisterAgain(w) /\ ~WriterPasses(w) /\ backend # "memory"
  <2>1. /\ waitsFor' = waitsFor \/ LeaveGates(w)
        /\ expired' = expired
    BY <1>5
    DEF WriteStep, Begin, OpenFileForWrite, FenceRow, FenceExclusive, Conflict, Mutate, Abort, AnswerSwitch,
        CommitInPlace, Commit, Finish, gates
  <2>2. waitsFor' \in [Requests -> SUBSET Requests] BY <1>2, <2>1 DEF LeaveGates
  <2>. QED BY <1>1, <1>2, <1>5, <2>1, <2>2 DEF GatesInv
<1>6. CASE ~RegisterAgain(w) /\ ~WriterPasses(w) /\ backend = "memory"
  <2>1. /\ ~Commit(w) /\ ~Conflict(w)
    BY <1>1, <1>6, Kinds DEF Commit, Conflict, MustWait, PlacesInv
  <2>2. /\ \A s \in Requests \ {w} : pc'[s] = pc[s]
        /\ expired' = expired
        /\ \/ pc[w] \in WriterInGate \ {"queued"} /\ pc'[w] \in WriterInGate \ {"queued"} /\ waitsFor' = waitsFor
           \/ pc'[w] \notin WriterInGate /\ (waitsFor' = waitsFor \/ LeaveGates(w))
    <3>1. pc' = [pc EXCEPT ![w] = pc'[w]] BY <2>1, WriteMoves
    <3>2. \A s \in Requests \ {w} : pc'[s] = pc[s] BY <3>1 DEF PlacesInv
    <3>3. CASE Begin(w) \/ OpenFileForWrite(w) \/ FenceRow(w) \/ FenceExclusive(w) \/ Mutate(w)
      BY <1>1, <1>6, <3>2, <3>3
      DEF PlacesInv, Begin, OpenFileForWrite, FenceRow, FenceExclusive, Mutate, WriterInGate, gates
    <3>4. CASE Abort(w) \/ AnswerSwitch(w) \/ CommitInPlace(w)
      BY <1>1, <3>2, <3>4 DEF PlacesInv, Abort, AnswerSwitch, CommitInPlace, Finish, WriterInGate, gates
    <3>. QED BY <1>6, <2>1, <3>3, <3>4 DEF WriteStep
  <2>3. /\ waitsFor' \in [Requests -> SUBSET Requests]
        /\ \A s \in Requests \ {w} : waitsFor[s] \ {w} \subseteq waitsFor'[s]
    BY <1>1, <1>2, <2>2 DEF LeaveGates
  <2>4. ASSUME Settle', pc'[w] \in WriterInGate, NEW r \in Reads, Concerned(r, w)' PROVE Waits(r, w)'
    <3>1. /\ pc[w] \in WriterInGate \ {"queued"} /\ waitsFor' = waitsFor /\ pc'[r] = pc[r] /\ Settle
      BY <1>1, <2>2, <2>4 DEF Settle
    <3>2. Concerned(r, w) BY <1>1, <2>4, <3>1 DEF Concerned, ContextGated, LifecycleGated
    <3>3. Waits(r, w) BY <3>1, <3>2, GatesPairwise
    <3>. QED BY <3>1, <3>3 DEF Waits
  <2>. QED BY <1>1, <2>2, <2>3, <2>4, GatesStep
<1>. QED BY <1>3, <1>4, <1>5, <1>6
-----------------------------------------------------------------------------
(* Counters and snapshots.                                                 *)

Wrote == {"dirty", "answering", "finished"}
Committing == {"answering", "finished"}

LEMMA Counted ==
  ASSUME NEW k
  PROVE  /\ Done(k) \in SUBSET Writers /\ Settled(k) \in SUBSET Done(k)
         /\ IsFiniteSet(Writers) /\ IsFiniteSet(Switches) /\ IsFiniteSet(Done(k)) /\ IsFiniteSet(Settled(k))
         /\ Cardinality(Done(k)) \in Nat /\ Committed(k) \in Nat
         /\ k \in Users => /\ Done(k) \subseteq Switches
                           /\ Cardinality(Done(k)) <= Cardinality(Switches)
                           /\ Committed(k) <= Cardinality(Switches)
<1>1. Done(k) \in SUBSET Writers /\ Settled(k) \in SUBSET Done(k) BY DEF Done, Settled
<1>2. IsFiniteSet(Writers) /\ IsFiniteSet(Switches) BY RequestsAssumption, Kinds, FS_Subset
<1>3. IsFiniteSet(Done(k)) /\ IsFiniteSet(Settled(k)) BY <1>1, <1>2, FS_Subset
<1>4. k \in Users => Done(k) \subseteq Switches BY Kinds DEF Done, Key
<1>. QED BY <1>1, <1>2, <1>3, <1>4, FS_Subset, FS_CardinalityType DEF Committed

LEMMA TokensTyped ==
  ASSUME CountsInv, NEW u \in Users
  PROVE  Token(u) \in Tokens /\ generation[u] = Cardinality(Done(u))
<1>1. generation[u] = Cardinality(Done(u)) /\ generation[u] \in Nat /\ lifecycle \in Lives
  BY Kinds DEF CountsInv
<1>2. generation[u] <= Cardinality(Switches) /\ Cardinality(Switches) \in Nat
  BY <1>1, Counted, FS_CardinalityType
<1>3. generation[u] \in 0 .. Cardinality(Switches) BY <1>1, <1>2
<1>. QED BY <1>1, <1>3 DEF Token, Tokens, Lives

\* Outside a write in place, what has been written has been committed.
LEMMA NothingDirty ==
  ASSUME PlacesInv, CountsInv,
         backend # "memory" \/ \A w \in Writers : pc[w] # "dirty"
  PROVE  /\ \A k \in Keys : Done(k) = Settled(k) /\ version[k] = Committed(k)
         /\ \A u \in Users : generation[u] = Committed(u)
<1>1. \A w \in Writers : pc[w] # "dirty" BY DEF PlacesInv
<1>2. \A k : Done(k) = Settled(k) BY <1>1 DEF Done, Settled
<1>. QED BY <1>2, Kinds DEF CountsInv, Committed

\* What a writer's step does to the counters, and to what they count.
LEMMA WriteEffect ==
  ASSUME PlacesInv, NEW w \in Writers, WriteStep(w)
  PROVE  /\ Mutate(w) =>
              /\ pc'[w] = "dirty"
              /\ \A k : Done(k)' = (IF k = Key(w) THEN Done(k) \cup {w} ELSE Done(k)) /\ Settled(k)' = Settled(k)
         /\ CommitInPlace(w) =>
              /\ pc'[w] \in Committing
              /\ \A k : Done(k)' = Done(k) /\ Settled(k)' = (IF k = Key(w) THEN Settled(k) \cup {w} ELSE Settled(k))
         /\ Commit(w) =>
              /\ pc'[w] \in Committing
              /\ \A k : /\ Done(k)' = (IF k = Key(w) THEN Done(k) \cup {w} ELSE Done(k))
                        /\ Settled(k)' = (IF k = Key(w) THEN Settled(k) \cup {w} ELSE Settled(k))
         /\ Abort(w) /\ pc[w] = "dirty" =>
              /\ pc'[w] = "failed"
              /\ \A k : Done(k)' = (IF k = Key(w) THEN Done(k) \ {w} ELSE Done(k)) /\ Settled(k)' = Settled(k)
         /\ ~Mutate(w) /\ ~CommitInPlace(w) /\ ~Commit(w) /\ ~(Abort(w) /\ pc[w] = "dirty") =>
              /\ UNCHANGED data
              /\ \A k : Done(k)' = Done(k) /\ Settled(k)' = Settled(k)
              /\ pc[w] # "dirty" /\ pc'[w] # "dirty"
<1>1. /\ who' = who /\ w \in Requests
      /\ \A v \in Writers : Key(v)' = Key(v)
      /\ \A v \in Writers \ {w} : pc'[v] = pc[v] \/ (pc[v] = "fencing" /\ pc'[v] = "stale")
  BY WriteFrame, WriteMoves, Kinds DEF placed, Key
<1>2. \A v \in Writers \ {w} : (pc'[v] \in Wrote <=> pc[v] \in Wrote) /\ (pc'[v] \in Committing <=> pc[v] \in Committing)
  BY <1>1 DEF Wrote, Committing
<1>3. ASSUME NEW k
      PROVE  /\ Done(k)' = {v \in Writers : Key(v) = k /\ pc'[v] \in Wrote}
             /\ Settled(k)' = {v \in Writers : Key(v) = k /\ pc'[v] \in Committing}
             /\ Done(k) = {v \in Writers : Key(v) = k /\ pc[v] \in Wrote}
             /\ Settled(k) = {v \in Writers : Key(v) = k /\ pc[v] \in Committing}
  BY <1>1 DEF Done, Settled, Wrote, Committing
<1>4. ASSUME pc'[w] \in Wrote <=> pc[w] \in Wrote PROVE \A k : Done(k)' = Done(k)
  BY <1>2, <1>3, <1>4
<1>5. ASSUME pc'[w] \in Committing <=> pc[w] \in Committing PROVE \A k : Settled(k)' = Settled(k)
  BY <1>2, <1>3, <1>5
<1>6. ASSUME pc'[w] \in Wrote, NEW k PROVE Done(k)' = IF k = Key(w) THEN Done(k) \cup {w} ELSE Done(k)
  <2>1. CASE k = Key(w) BY <1>2, <1>3, <1>6, <2>1
  <2>2. CASE k # Key(w) BY <1>2, <1>3, <2>2
  <2>. QED BY <2>1, <2>2
<1>7. ASSUME pc'[w] \in Committing, NEW k
      PROVE  Settled(k)' = IF k = Key(w) THEN Settled(k) \cup {w} ELSE Settled(k)
  <2>1. CASE k = Key(w) BY <1>2, <1>3, <1>7, <2>1
  <2>2. CASE k # Key(w) BY <1>2, <1>3, <2>2
  <2>. QED BY <2>1, <2>2
<1>8. ASSUME pc'[w] \notin Wrote, NEW k PROVE Done(k)' = IF k = Key(w) THEN Done(k) \ {w} ELSE Done(k)
  <2>1. CASE k = Key(w) BY <1>2, <1>3, <1>8, <2>1
  <2>2. CASE k # Key(w) BY <1>2, <1>3, <2>2
  <2>. QED BY <2>1, <2>2
<1>9. ASSUME Mutate(w)
      PROVE  /\ pc'[w] = "dirty"
             /\ \A k : Done(k)' = (IF k = Key(w) THEN Done(k) \cup {w} ELSE Done(k)) /\ Settled(k)' = Settled(k)
  <2>1. pc[w] = "fenced" /\ pc'[w] = "dirty" BY <1>1, <1>9 DEF Mutate, PlacesInv
  <2>. QED BY <1>5, <1>6, <1>9, <2>1 DEF Wrote, Committing
<1>10. ASSUME CommitInPlace(w)
       PROVE  /\ pc'[w] \in Committing
              /\ \A k : Done(k)' = Done(k) /\ Settled(k)' = (IF k = Key(w) THEN Settled(k) \cup {w} ELSE Settled(k))
  <2>1. pc[w] = "dirty" /\ pc'[w] \in Committing
    BY <1>1, <1>10 DEF CommitInPlace, Finish, PlacesInv, Committing
  <2>. QED BY <1>4, <1>7, <1>10, <2>1 DEF Wrote, Committing
<1>11. ASSUME Commit(w)
       PROVE  /\ pc'[w] \in Committing
              /\ \A k : /\ Done(k)' = (IF k = Key(w) THEN Done(k) \cup {w} ELSE Done(k))
                        /\ Settled(k)' = (IF k = Key(w) THEN Settled(k) \cup {w} ELSE Settled(k))
  <2>1. pc[w] = "fenced" /\ pc'[w] \in Committing
    BY <1>1, <1>11 DEF Commit, Finish, PlacesInv, Committing
  <2>. QED BY <1>6, <1>7, <1>11, <2>1 DEF Wrote, Committing
<1>12. ASSUME Abort(w), pc[w] = "dirty"
       PROVE  /\ pc'[w] = "failed"
              /\ \A k : Done(k)' = (IF k = Key(w) THEN Done(k) \ {w} ELSE Done(k)) /\ Settled(k)' = Settled(k)
  <2>1. pc'[w] = "failed" BY <1>1, <1>12 DEF Abort, PlacesInv
  <2>. QED BY <1>5, <1>8, <1>12, <2>1 DEF Wrote, Committing
<1>13. ASSUME ~Mutate(w), ~CommitInPlace(w), ~Commit(w), ~(Abort(w) /\ pc[w] = "dirty")
       PROVE  /\ UNCHANGED data
              /\ \A k : Done(k)' = Done(k) /\ Settled(k)' = Settled(k)
              /\ pc[w] # "dirty" /\ pc'[w] # "dirty"
  <2>1. /\ UNCHANGED data /\ pc[w] # "dirty" /\ pc'[w] # "dirty"
        /\ pc'[w] \in Committing <=> pc[w] \in Committing
    <3>1. DOMAIN pc = Requests /\ backend \in Backends BY DEF PlacesInv
    <3>2. CASE RegisterAgain(w) \/ WriterPasses(w) \/ Begin(w) \/ OpenFileForWrite(w) \/ FenceRow(w)
               \/ FenceExclusive(w)
      BY <1>1, <3>1, <3>2, BackendAssumption
      DEF RegisterAgain, Enqueue, WriterPasses, Begin, OpenFileForWrite, FenceRow, FenceExclusive, Committing
    <3>3. CASE Conflict(w)
      BY <1>1, <3>1, <3>3 DEF Conflict, MustWait, Committing
    <3>4. CASE Abort(w) /\ pc[w] # "dirty"
      BY <1>1, <3>1, <3>4 DEF Abort, Committing
    <3>5. CASE AnswerSwitch(w)
      BY <1>1, <3>1, <3>5 DEF AnswerSwitch, Committing
    <3>. QED BY <1>13, <3>2, <3>3, <3>4, <3>5 DEF WriteStep
  <2>. QED BY <1>4, <1>5, <2>1 DEF Wrote, Committing
<1>. QED BY <1>9, <1>10, <1>11, <1>12, <1>13
\* Whoever applies a change has what it started from to itself.
LEMMA Sole ==
  ASSUME PlacesInv, LocksInv, NEW w \in Writers, pc[w] \in {"fenced", "dirty"},
         NEW v \in Writers, pc[v] \in {"fenced", "dirty"}
  PROVE  v = w \/ (backend = "postgres" /\ Key(v) # Key(w))
<1>1. CASE backend = "memory"
  <2>1. at[v] = at[w] BY <1>1, Kinds DEF PlacesInv
  <2>. QED BY <2>1 DEF LocksInv, InStore
<1>2. CASE backend = "sqlite"
  <2>1. v \in FileHolders /\ w \in FileHolders BY <1>2, Kinds DEF PlacesInv, FileHolders
  <2>. QED BY <1>2, <2>1 DEF LocksInv
<1>3. CASE backend = "postgres"
  BY <1>3 DEF LocksInv, PlacesInv, Owning
<1>. QED BY <1>1, <1>2, <1>3, BackendAssumption DEF PlacesInv

LEMMA CountsStart == Init => CountsInv /\ SnapsInv
<1> SUFFICES ASSUME Init PROVE CountsInv /\ SnapsInv OBVIOUS
<1>1. \A w \in Writers : pc[w] = "idle" BY Kinds DEF Init
<1>2. \A k : Done(k) = {} BY <1>1 DEF Done
<1>3. CountsInv BY <1>2, Kinds, FS_EmptySet DEF Init, CountsInv, Lives
<1>4. SnapsInv BY <1>1, MaxAttemptsAssumption DEF Init, SnapsInv, SnapOf, InStore, MaybeToken
<1>. QED BY <1>3, <1>4

\* Steps that leave the writers and the data alone.
LEMMA CountsStay ==
  ASSUME CountsInv, UNCHANGED data, \A k \in Keys : Done(k)' = Done(k)
  PROVE  CountsInv'
  BY DEF CountsInv, data

LEMMA WritersStay ==
  ASSUME \A w \in Writers : \/ pc'[w] = pc[w] /\ who'[w] = who[w]
                            \/ pc[w] = "idle" /\ pc'[w] = "queued"
  PROVE  \A k : Done(k)' = Done(k) /\ Settled(k)' = Settled(k) /\ Committed(k)' = Committed(k)
<1>1. ASSUME NEW k, NEW w \in Writers
      PROVE  /\ Key(w)' = k /\ pc'[w] \in Wrote <=> Key(w) = k /\ pc[w] \in Wrote
             /\ Key(w)' = k /\ pc'[w] \in Committing <=> Key(w) = k /\ pc[w] \in Committing
  BY DEF Key, Wrote, Committing
<1>2. ASSUME NEW k PROVE Done(k)' = Done(k) /\ Settled(k)' = Settled(k)
  BY <1>1 DEF Done, Settled, Wrote, Committing
<1>. QED BY <1>2 DEF Committed

LEMMA WriteCounts ==
  ASSUME PlacesInv, LocksInv, CountsInv, SnapsInv, NEW w \in Writers, WriteStep(w)
  PROVE  CountsInv'
<1>1. /\ version \in [Keys -> Nat] /\ generation \in [Users -> Nat] /\ lifecycle \in Lives
      /\ \A k \in Keys : version[k] = Cardinality(Done(k))
      /\ \A u \in Users : generation[u] = version[u]
  BY DEF CountsInv
<1>2. /\ pc[w] # "idle" => who[w] \in Users /\ Key(w) \in Keys
      /\ w \in Switches <=> w \notin Lifecycles
  BY Kinds DEF PlacesInv, Key
<1>3. CASE UNCHANGED data /\ \A k : Done(k)' = Done(k) BY <1>3, CountsStay
<1>4. CASE /\ Apply(w) /\ pc[w] = "fenced"
           /\ \A k : Done(k)' = IF k = Key(w) THEN Done(k) \cup {w} ELSE Done(k)
  <2>1. \A k \in Keys : Cardinality(Done(k))' = IF k = Key(w) THEN Cardinality(Done(k)) + 1 ELSE Cardinality(Done(k))
    <3>1. w \notin Done(Key(w)) BY <1>4 DEF Done
    <3>. QED BY <1>4, <3>1, Counted, FS_AddElement
  <2>2. version' = [version EXCEPT ![Key(w)] = @ + 1] BY <1>4 DEF Apply
  <2>3. version' \in [Keys -> Nat] /\ \A k \in Keys : version'[k] = Cardinality(Done(k))'
    BY <1>1, <1>2, <1>4, <2>1, <2>2
  <2>4. CASE w \in Switches
    <3>1. generation' = [generation EXCEPT ![who[w]] = generation[who[w]] + 1] /\ lifecycle' = lifecycle
      BY <1>4, <2>4 DEF Apply, SnapsInv, SnapOf
    <3>. QED BY <1>1, <1>2, <1>4, <2>2, <2>3, <2>4, <3>1, Kinds DEF CountsInv, Key
  <2>5. CASE w \in Lifecycles
    <3>1. generation' = generation /\ lifecycle' \in Lives BY <1>2, <1>4, <2>5 DEF Apply, Lives
    <3>. QED BY <1>1, <1>2, <1>4, <2>2, <2>3, <2>5, <3>1, Kinds DEF CountsInv, Key
  <2>. QED BY <2>4, <2>5, Kinds
<1>5. CASE /\ Abort(w) /\ pc[w] = "dirty"
           /\ \A k : Done(k)' = IF k = Key(w) THEN Done(k) \ {w} ELSE Done(k)
  <2>1. \A k \in Keys : Cardinality(Done(k))' = IF k = Key(w) THEN Cardinality(Done(k)) - 1 ELSE Cardinality(Done(k))
    <3>1. w \in Done(Key(w)) BY <1>5 DEF Done
    <3>. QED BY <1>5, <3>1, Counted, FS_RemoveElement
  <2>2. /\ version' = [version EXCEPT ![Key(w)] = @ - 1]
        /\ generation' = [generation EXCEPT ![who[w]] = snap[w].gen] /\ lifecycle' = snap[w].life
    BY <1>5 DEF Abort
  <2>3. snap[w].gen \in Nat /\ snap[w].life \in Lives BY <1>5 DEF SnapsInv, SnapOf, InStore, Tokens, Lives
  <2>4. \A k \in Keys : Cardinality(Done(k))' \in Nat
    <3>1. \A k : IsFiniteSet(Done(k)') BY <1>5, Counted, FS_Subset
    <3>. QED BY <3>1, FS_CardinalityType
  <2>5. version' \in [Keys -> Nat] /\ \A k \in Keys : version'[k] = Cardinality(Done(k))'
    BY <1>1, <1>2, <1>5, <2>1, <2>2, <2>4
  <2>6. CASE w \in Switches
    <3>1. generation[who[w]] = snap[w].gen + 1 BY <1>5, <2>6 DEF SnapsInv, SnapOf
    <3>. QED BY <1>1, <1>2, <1>5, <2>2, <2>3, <2>5, <2>6, <3>1, Kinds DEF CountsInv, Key
  <2>7. CASE w \in Lifecycles
    <3>1. generation[who[w]] = snap[w].gen BY <1>5, <2>7 DEF SnapsInv, SnapOf
    <3>. QED BY <1>1, <1>2, <1>5, <2>2, <2>3, <2>5, <2>7, <3>1, Kinds DEF CountsInv, Key
  <2>. QED BY <2>6, <2>7, Kinds
<1>. QED
  BY <1>3, <1>4, <1>5, WriteEffect DEF Mutate, Commit, CommitInPlace
\* The count of what has been committed never falls.
LEMMA CommittedGrows ==
  ASSUME PlacesInv, NEW w \in Writers, WriteStep(w), NEW k
  PROVE  /\ Committed(k)' \in Nat /\ Committed(k) <= Committed(k)'
         /\ (CommitInPlace(w) \/ Commit(w)) /\ k = Key(w) => Committed(k)' = Committed(k) + 1
         /\ ~((CommitInPlace(w) \/ Commit(w)) /\ k = Key(w)) => Committed(k)' = Committed(k)
<1>1. Committed(k) \in Nat BY Counted
<1>2. CASE (CommitInPlace(w) \/ Commit(w)) /\ k = Key(w)
  <2>1. w \notin Settled(k) BY <1>2 DEF CommitInPlace, Commit, Settled
  <2>2. Settled(k)' = Settled(k) \cup {w} BY <1>2, WriteEffect
  <2>3. Committed(k)' = Committed(k) + 1 BY <2>1, <2>2, Counted, FS_AddElement DEF Committed
  <2>. QED BY <1>1, <1>2, <2>3
<1>3. CASE ~((CommitInPlace(w) \/ Commit(w)) /\ k = Key(w))
  <2>1. Settled(k)' = Settled(k) BY <1>3, WriteEffect
  <2>. QED BY <1>1, <1>3, <2>1 DEF Committed
<1>. QED BY <1>2, <1>3
\* Who may change what a token names.
LEMMA DataMoves ==
  ASSUME PlacesInv, LocksInv, CountsInv, SnapsInv, NEW w \in Writers, WriteStep(w)
  PROVE  /\ ~UNCHANGED data => pc[w] \in {"fenced", "dirty"} /\ (Mutate(w) \/ Commit(w) \/ Abort(w))
         /\ \A u \in Users : generation'[u] # generation[u] => w \in Switches /\ u = who[w]
         /\ lifecycle' # lifecycle => w \in Lifecycles
<1>1. ~UNCHANGED data => pc[w] \in {"fenced", "dirty"} /\ (Mutate(w) \/ Commit(w) \/ Abort(w))
  BY WriteEffect DEF Mutate, Commit, Abort, CommitInPlace
<1>2. generation \in [Users -> Nat] BY DEF CountsInv
<1>3. CASE UNCHANGED data BY <1>3 DEF data
<1>4. CASE Mutate(w) \/ Commit(w) BY <1>2, <1>4, Kinds DEF Mutate, Commit, Apply
<1>5. CASE Abort(w) /\ pc[w] = "dirty"
  <2>1. generation' = [generation EXCEPT ![who[w]] = snap[w].gen] /\ lifecycle' = snap[w].life
    BY <1>5 DEF Abort
  <2>2. CASE w \in Switches
    <3>1. lifecycle' = lifecycle BY <1>5, <2>1, <2>2 DEF SnapsInv, SnapOf
    <3>. QED BY <1>1, <1>2, <2>1, <2>2, <3>1
  <2>3. CASE w \in Lifecycles
    <3>1. generation[who[w]] = snap[w].gen BY <1>5, <2>3 DEF SnapsInv, SnapOf
    <3>. QED BY <1>1, <1>2, <2>1, <2>3, <3>1
  <2>. QED BY <2>2, <2>3, Kinds
<1>6. Abort(w) => UNCHANGED data \/ pc[w] = "dirty" BY DEF Abort
<1>. QED BY <1>1, <1>3, <1>4, <1>5, <1>6

LEMMA OtherSnaps ==
  ASSUME PlacesInv, LocksInv, CountsInv, SnapsInv, NEW w \in Writers, WriteStep(w), NEW v \in Writers \ {w},
         attempts'[v] = attempts[v], snap'[v] = snap[v]
  PROVE  SnapOf(v)'
<1>1. /\ pc'[v] = pc[v] \/ (pc[v] = "fencing" /\ pc'[v] = "stale")
      /\ who' = who /\ backend' = backend /\ SnapOf(v) /\ Key(v)' = Key(v)
  BY WriteMoves, WriteFrame DEF SnapsInv, placed, Key
<1>2. /\ ~UNCHANGED data => pc[w] \in {"fenced", "dirty"} /\ (Mutate(w) \/ Commit(w) \/ Abort(w))
      /\ generation'[who[v]] # generation[who[v]] /\ v \in Switches /\ who[v] \in Users => Key(v) = Key(w)
      /\ pc[v] # "idle" => who[v] \in Users
  BY DataMoves, Kinds DEF Key, PlacesInv
<1>3. pc[v] \in {"fenced", "dirty"} /\ backend # "postgres" => UNCHANGED data BY <1>2, Sole
<1>4. pc'[v] \in {"fencing", "locking", "fenced"} /\ v \in Switches => generation'[who[v]] = generation[who[v]]
  <2> SUFFICES ASSUME pc'[v] \in {"fencing", "locking", "fenced"}, v \in Switches, generation'[who[v]] # generation[who[v]]
               PROVE  FALSE
    OBVIOUS
  <2>1. pc'[v] = pc[v] /\ Key(v) = Key(w) /\ ~UNCHANGED data BY <1>1, <1>2 DEF data
  <2>2. pc[w] \in {"fenced", "dirty"} BY <1>2, <2>1
  <2>3. CASE pc[v] = "fenced" BY <2>1, <2>2, <2>3, Sole
  <2>4. CASE pc[v] = "locking"
    <3>1. backend = "postgres" /\ pc[w] = "fenced" BY <2>2, <2>4 DEF PlacesInv
    <3>. QED BY <2>1, <2>4, <3>1 DEF LocksInv, Owning
  <2>5. CASE pc[v] = "fencing"
    <3>1. backend = "postgres" /\ pc[w] = "fenced" BY <2>2, <2>5 DEF PlacesInv
    <3>2. Commit(w) BY <1>2, <2>1, <3>1 DEF Mutate, Abort
    <3>3. pc'[v] = "stale" BY <2>1, <2>5, <3>2, Kinds DEF Commit, Finish
    <3>. QED BY <2>1, <2>5, <3>3
  <2>. QED BY <1>1, <2>1, <2>3, <2>4, <2>5
<1>5. PICK u : u = who[v] /\ u = who'[v] BY <1>1
<1>6. Committed(u)' \in Nat /\ Committed(u) <= Committed(u)' /\ Committed(u) \in Nat
  BY CommittedGrows, Counted
<1>7. pc'[v] = "answering" /\ v \in Switches => snap[v].gen < Committed(u)'
  <2> SUFFICES ASSUME pc'[v] = "answering", v \in Switches PROVE snap[v].gen < Committed(u)' OBVIOUS
  <2>1. pc[v] = "answering" BY <1>1
  <2>2. snap[v].gen < Committed(u) /\ snap[v] \in Tokens BY <1>1, <1>5, <2>1 DEF SnapOf
  <2>3. snap[v].gen \in Nat BY <2>2 DEF Tokens
  <2>. QED BY <1>6, <2>2, <2>3
<1>8. /\ pc'[v] \in {"idle", "queued", "ready", "retrying"} => attempts'[v] < MaxAttempts
      /\ pc'[v] \in InStore \cup {"answering"} => snap'[v] \in Tokens
      /\ v \in Switches /\ pc'[v] \in {"fencing", "locking", "fenced"} => snap'[v].gen = generation'[who'[v]]
  BY <1>1, <1>4 DEF SnapOf, InStore
<1>9. v \in Switches /\ pc'[v] = "answering" => snap'[v].gen < Committed(u)' BY <1>7
<1>10. /\ backend' = "memory" /\ pc'[v] = "fenced" => snap'[v] = Token(who[v])'
       /\ v \in Switches /\ pc'[v] = "dirty" =>
            generation'[who'[v]] = snap'[v].gen + 1 /\ lifecycle' = snap'[v].life
       /\ v \in Lifecycles /\ pc'[v] = "dirty" => generation'[who'[v]] = snap'[v].gen
  <2>1. CASE pc[v] \in {"fenced", "dirty"} /\ backend # "postgres"
    <3>1. generation' = generation /\ lifecycle' = lifecycle BY <1>3, <2>1 DEF data
    <3>. QED BY <1>1, <2>1, <3>1 DEF SnapOf, Token
  <2>2. CASE ~(pc[v] \in {"fenced", "dirty"} /\ backend # "postgres")
    BY <1>1, <2>2 DEF PlacesInv
  <2>. QED BY <2>1, <2>2
<1>11. v \in Switches /\ pc'[v] = "answering" => snap'[v].gen < Committed(who[v])' BY <1>5, <1>9
<1>. QED BY <1>8, <1>10, <1>11 DEF SnapOf
LEMMA OwnSnap ==
  ASSUME PlacesInv, LocksInv, CountsInv, SnapsInv, NEW w \in Writers, WriteStep(w)
  PROVE  /\ attempts' \in [Writers -> 0 .. MaxAttempts] /\ snap' \in [Writers -> MaybeToken]
         /\ \A v \in Writers \ {w} : attempts'[v] = attempts[v] /\ snap'[v] = snap[v]
         /\ SnapOf(w)'
<1>1. /\ who' = who /\ backend' = backend /\ SnapOf(w) /\ w \in Requests /\ pc \in [Requests -> Location]
      /\ attempts \in [Writers -> 0 .. MaxAttempts] /\ snap \in [Writers -> MaybeToken]
      /\ w \in Switches <=> w \notin Lifecycles
  BY WriteFrame, Kinds DEF SnapsInv, placed, PlacesInv
<1>2. pc[w] # "idle" /\ who[w] \in Users
  BY <1>1, Kinds
  DEF PlacesInv, WriteStep, RegisterAgain, WriterPasses, Begin, OpenFileForWrite, FenceRow,
      FenceExclusive, Conflict, MustWait, Mutate, Abort, AnswerSwitch, CommitInPlace, Commit
<1>3. Token(who[w]) \in Tokens /\ Token(who[w]) \in MaybeToken /\ Absent \in MaybeToken
      /\ Token(who[w]).gen = generation[who[w]]
  BY <1>2, TokensTyped DEF MaybeToken, Token
<1>4. MaxAttempts \in Nat \ {0} /\ attempts[w] \in 0 .. MaxAttempts /\ 0 \in 0 .. MaxAttempts
  BY <1>1, MaxAttemptsAssumption
<1>5. CASE Begin(w) \/ OpenFileForWrite(w)
  <2>1. /\ pc[w] \in {"ready", "opening"} /\ snap' = [snap EXCEPT ![w] = Token(who[w])]
        /\ generation' = generation /\ lifecycle' = lifecycle
        /\ attempts' = attempts \/ (attempts[w] < MaxAttempts /\ attempts' = [attempts EXCEPT ![w] = @ + 1])
        /\ pc'[w] \in {"fencing", "opening", "fenced"} /\ (pc'[w] = "opening" => backend = "sqlite")
    BY <1>1, <1>5, BackendAssumption DEF Begin, OpenFileForWrite, SnapOf, data, writeVars, PlacesInv
  <2>2. Token(who[w])' = Token(who[w]) BY <1>1, <2>1 DEF Token
  <2>3. attempts[w] < MaxAttempts => attempts[w] + 1 \in 0 .. MaxAttempts BY <1>4
  <2>4. /\ snap' \in [Writers -> MaybeToken] /\ snap'[w] = Token(who[w])
        /\ attempts' \in [Writers -> 0 .. MaxAttempts]
        /\ \A v \in Writers \ {w} : attempts'[v] = attempts[v] /\ snap'[v] = snap[v]
    BY <1>1, <1>3, <2>1, <2>3
  <2>5. SnapOf(w)' BY <1>1, <1>3, <2>1, <2>2, <2>4 DEF SnapOf
  <2>. QED BY <2>4, <2>5
<1>6. CASE RegisterAgain(w) \/ WriterPasses(w) \/ FenceRow(w) \/ FenceExclusive(w)
           \/ (Conflict(w) /\ attempts[w] < MaxAttempts)
  <2>1. /\ attempts' = attempts /\ snap' = snap /\ generation' = generation /\ lifecycle' = lifecycle
    BY <1>6
    DEF RegisterAgain, Enqueue, WriterPasses, FenceRow, FenceExclusive, Conflict, readVars, writeVars, data
  <2>2. /\ pc'[w] \in {"queued", "ready", "retrying", "locking", "fenced"}
        /\ pc'[w] \in {"locking", "fenced"} => backend = "postgres" /\ pc[w] \in {"fencing", "locking"}
        /\ pc'[w] \in {"queued", "ready", "retrying"} => attempts[w] < MaxAttempts
    BY <1>1, <1>6
    DEF RegisterAgain, Enqueue, WriterPasses, FenceRow, FenceExclusive, Conflict, PlacesInv, SnapOf
  <2>. QED BY <1>1, <2>1, <2>2 DEF SnapOf, InStore
<1>7. CASE Abort(w) \/ AnswerSwitch(w) \/ (Conflict(w) /\ ~(attempts[w] < MaxAttempts))
  <2>1. /\ Close(w) /\ pc'[w] \in {"failed", "finished"}
    BY <1>1, <1>7 DEF Abort, AnswerSwitch, Conflict
  <2>. QED BY <1>1, <1>3, <1>4, <2>1 DEF Close, SnapOf, InStore
<1>8. CASE Mutate(w)
  <2>1. /\ pc[w] = "fenced" /\ backend = "memory" /\ attempts' = attempts /\ snap' = snap /\ pc'[w] = "dirty"
        /\ Apply(w) /\ generation \in [Users -> Nat]
    BY <1>1, <1>8 DEF Mutate, writeVars, CountsInv
  <2>2. snap[w] = Token(who[w]) BY <1>1, <2>1 DEF SnapOf
  <2>3. w \in Switches => generation'[who[w]] = snap[w].gen + 1 /\ lifecycle' = snap[w].life
    BY <1>2, <2>1, <2>2 DEF Apply, Token
  <2>4. w \in Lifecycles => generation'[who[w]] = snap[w].gen
    BY <1>1, <1>2, <2>1, <2>2 DEF Apply, Token
  <2>. QED BY <1>1, <1>3, <2>1, <2>2, <2>3, <2>4 DEF SnapOf, InStore
<1>9. CASE CommitInPlace(w) \/ Commit(w)
  <2>1. pc[w] \in {"fenced", "dirty"} /\ pc'[w] = IF w \in Switches THEN "answering" ELSE "finished"
    BY <1>1, <1>9 DEF CommitInPlace, Commit, Finish
  <2>2. CASE w \in Lifecycles
    BY <1>1, <1>4, <1>3, <1>9, <2>1, <2>2 DEF CommitInPlace, Commit, Finish, Close, SnapOf, InStore
  <2>3. CASE w \in Switches
    <3>1. attempts' = attempts /\ snap' = snap /\ pc'[w] = "answering" /\ Key(w) = who[w]
      BY <1>9, <2>1, <2>3 DEF CommitInPlace, Commit, Finish, writeVars, Key
    <3>2. PICK u \in Users : u = who[w] /\ u = who'[w] BY <1>1, <1>2
    <3>3. Committed(u)' = Committed(u) + 1 /\ Committed(u) \in Nat
      BY <1>9, <3>1, <3>2, CommittedGrows, Counted
    <3>4. snap[w] \in Tokens /\ snap[w].gen \in Nat /\ generation[u] \in Nat
      BY <1>1, <2>1, <3>2 DEF SnapOf, InStore, Tokens, CountsInv
    <3>5. snap[w].gen <= Committed(u)
      <4>1. generation[u] = Cardinality(Done(u)) BY TokensTyped
      <4>2. CASE Commit(w)
        <5>1. snap[w].gen = generation[u] BY <1>1, <2>3, <3>2, <4>2 DEF SnapOf, Commit
        <5>2. generation[u] = Committed(u) BY <4>2, NothingDirty DEF Commit
        <5>. QED BY <3>3, <5>1, <5>2
      <4>3. CASE CommitInPlace(w)
        <5>1. pc[w] = "dirty" /\ backend = "memory" BY <4>3 DEF CommitInPlace, PlacesInv
        <5>2. snap[w].gen + 1 = generation[u] BY <1>1, <2>3, <3>2, <5>1 DEF SnapOf
        <5>3. Done(u) \subseteq Settled(u) \cup {w} BY <5>1, Sole DEF Done, Settled
        <5>4. w \notin Settled(u) BY <5>1 DEF Settled
        <5>5. Cardinality(Settled(u) \cup {w}) = Committed(u) + 1 /\ IsFiniteSet(Settled(u) \cup {w})
          BY <5>4, Counted, FS_AddElement DEF Committed
        <5>6. generation[u] <= Committed(u) + 1 BY <4>1, <5>3, <5>5, FS_Subset
        <5>. QED BY <3>3, <3>4, <5>2, <5>6
      <4>. QED BY <1>9, <4>2, <4>3
    <3>6. snap'[w].gen < Committed(u)' BY <3>1, <3>3, <3>4, <3>5
    <3>7. snap'[w].gen < Committed(who[w])' BY <3>2, <3>6
    <3>8. w \notin Lifecycles BY <1>1, <2>3
    <3>. QED BY <1>1, <3>1, <3>4, <3>7, <3>8 DEF SnapOf, InStore
  <2>. QED BY <2>2, <2>3, <1>1
<1>. QED BY <1>5, <1>6, <1>7, <1>8, <1>9 DEF WriteStep

LEMMA WriteSnaps ==
  ASSUME PlacesInv, LocksInv, CountsInv, SnapsInv, NEW w \in Writers, WriteStep(w)
  PROVE  SnapsInv'
<1>1. \A v \in Writers \ {w} : SnapOf(v)' BY OwnSnap, OtherSnaps
<1>. QED BY <1>1, OwnSnap DEF SnapsInv

\* Steps of reads, of tabs and of those that arrive.
LEMMA SnapsStay ==
  ASSUME PlacesInv, SnapsInv, UNCHANGED <<data, backend, writeVars>>,
         \A w \in Writers : \/ pc'[w] = pc[w] /\ who'[w] = who[w]
                            \/ pc[w] = "idle" /\ pc'[w] = "queued"
  PROVE  SnapsInv'
<1> SUFFICES ASSUME NEW w \in Writers PROVE SnapOf(w)' BY DEF SnapsInv, writeVars
<1>1. SnapOf(w) /\ attempts' = attempts /\ snap' = snap /\ generation' = generation /\ lifecycle' = lifecycle
  BY DEF SnapsInv, writeVars, data
<1>2. CASE pc[w] = "idle" /\ pc'[w] = "queued" BY <1>1, <1>2 DEF SnapOf, InStore
<1>3. CASE pc'[w] = pc[w] /\ who'[w] = who[w]
  <2>1. PICK u : u = who[w] /\ u = who'[w] BY <1>3
  <2>2. Committed(u)' = Committed(u) BY WritersStay
  <2>3. Committed(who[w])' = Committed(who[w]) BY <2>1, <2>2
  <2>4. Token(who[w])' = Token(who[w]) BY <1>1, <1>3 DEF Token
  <2>. QED BY <1>1, <1>3, <2>3, <2>4 DEF SnapOf
<1>. QED BY <1>2, <1>3
-----------------------------------------------------------------------------
(* The tab.                                                                *)

LEMMA TabStart == Init => TabInv
<1> SUFFICES ASSUME Init PROVE TabInv OBVIOUS
<1> DEFINE first == [gen |-> 0, life |-> Active]
<1>1. 0 \in 0 .. Cardinality(Switches) BY Counted, FS_CardinalityType
<1>2. first \in Tokens BY <1>1 DEF Tokens
<1>3. \A u \in Users : Committed(u) \in Nat BY Counted
<1>4. /\ page = [u \in Users |-> [epoch |-> first, tuple |-> first]] /\ deriving = [u \in Users |-> Absent]
      /\ echo = [r \in Reads |-> Absent] /\ rendered = [r \in Reads |-> Absent]
      /\ \A r \in Reads : pc[r] = "idle"
  BY Kinds DEF Init
<1>5. first.gen = 0 OBVIOUS
<1> HIDE DEF first
<1>6. \A u \in Users : TabOf(u) BY <1>3, <1>4, <1>5 DEF TabOf
<1>. QED BY <1>2, <1>4, <1>6 DEF TabInv, PageOf, MaybeToken

\* What a tab and a page may rely on, grows.
LEMMA TabKeeps ==
  ASSUME TabInv, UNCHANGED <<echo, rendered>>, \A k : Committed(k)' \in Nat /\ Committed(k) <= Committed(k)',
         \A r \in Reads : pc'[r] # "idle" => pc[r] # "idle" /\ who'[r] = who[r]
  PROVE  /\ \A r \in Reads : PageOf(r)'
         /\ \A u \in Users : page'[u] = page[u] /\ deriving'[u] = deriving[u] => TabOf(u)'
<1>1. ASSUME NEW k PROVE Committed(k) \in Nat BY Counted
<1>2. \A x \in Tokens : x.gen \in Nat BY DEF Tokens
<1>3. ASSUME NEW r \in Reads PROVE PageOf(r)'
  <2> SUFFICES ASSUME pc'[r] # "idle", Echoing(r)'
               PROVE  /\ echo'[r] \in Tokens /\ rendered'[r] \in Tokens
                      /\ echo'[r].gen <= rendered'[r].gen /\ rendered'[r].gen <= Committed(who[r])'
    BY DEF PageOf
  <2>1. PICK u : u = who[r] /\ u = who'[r] OBVIOUS
  <2>2. /\ echo[r] \in Tokens /\ rendered[r] \in Tokens
        /\ echo[r].gen <= rendered[r].gen /\ rendered[r].gen <= Committed(u)
    BY <2>1 DEF TabInv, PageOf, Echoing
  <2>3. rendered[r].gen \in Nat /\ Committed(u) \in Nat /\ Committed(u)' \in Nat /\ Committed(u) <= Committed(u)'
    BY <1>1, <1>2, <2>2
  <2>4. rendered[r].gen <= Committed(u)' BY <2>2, <2>3
  <2>. QED BY <2>1, <2>2, <2>4
<1>4. ASSUME NEW u \in Users, page'[u] = page[u], deriving'[u] = deriving[u] PROVE TabOf(u)'
  <2>1. TabOf(u) /\ page[u] \in [epoch : Tokens, tuple : Tokens] BY DEF TabInv
  <2>2. page[u].tuple.gen \in Nat /\ (deriving[u] \in Tokens => deriving[u].gen \in Nat) BY <1>2, <2>1
  <2>3. Committed(u) \in Nat /\ Committed(u)' \in Nat /\ Committed(u) <= Committed(u)' BY <1>1
  <2>. QED BY <1>4, <2>1, <2>2, <2>3 DEF TabOf
<1>. QED BY <1>3, <1>4

LEMMA CommittedStays ==
  ASSUME \A w \in Writers : \/ pc'[w] = pc[w] /\ who'[w] = who[w]
                            \/ pc[w] = "idle" /\ pc'[w] = "queued"
  PROVE  \A k : Committed(k)' \in Nat /\ Committed(k) <= Committed(k)'
BY WritersStay, Counted

\* A tab reads in a transaction of its own: it never sees one that is open.
LEMMA TabReads ==
  ASSUME PlacesInv, CountsInv, NEW p \in Replicas, SharesStore(p), StoreFree(p), NEW u \in Users
  PROVE  Token(u) \in Tokens /\ Token(u).gen = Committed(u)
<1>1. backend = "memory" => \A w \in Writers : pc[w] # "dirty"
  BY Kinds DEF PlacesInv, SharesStore, StoreFree, InTransaction, AtReplica
<1>. QED BY <1>1, NothingDirty, TokensTyped DEF Token

LEMMA TabSteps ==
  ASSUME PlacesInv, CountsInv, TabInv, NEW u \in Users, DeriveEpoch(u) \/ ReadTuple(u)
  PROVE  TabInv'
<1>1. PICK p \in Replicas : SharesStore(p) /\ StoreFree(p) BY DEF DeriveEpoch, ReadTuple
<1>2. Token(u) \in Tokens /\ Token(u).gen = Committed(u) BY <1>1, TabReads
<1>3. UNCHANGED <<pc, who, echo, rendered>> BY DEF DeriveEpoch, ReadTuple, placed, readVars
<1>4. \A k : Committed(k)' = Committed(k) /\ Committed(k) \in Nat BY <1>3, WritersStay, Counted
<1>5. /\ \A r \in Reads : PageOf(r)'
      /\ \A v \in Users : page'[v] = page[v] /\ deriving'[v] = deriving[v] => TabOf(v)'
  BY <1>3, <1>4, TabKeeps, CommittedStays
<1>6. /\ page \in [Users -> [epoch : Tokens, tuple : Tokens]] /\ deriving \in [Users -> MaybeToken]
      /\ echo' \in [Reads -> MaybeToken] /\ rendered' \in [Reads -> MaybeToken] /\ TabOf(u)
  BY <1>3 DEF TabInv
<1>7. Committed(u)' = Committed(u) /\ Committed(u) \in Nat /\ Absent \in MaybeToken /\ Token(u) \in MaybeToken
  BY <1>2, <1>4 DEF MaybeToken
<1>8. CASE DeriveEpoch(u)
  <2>1. page' = page /\ deriving' = [deriving EXCEPT ![u] = Token(u)] BY <1>8 DEF DeriveEpoch
  <2>2. TabOf(u)' BY <1>2, <1>6, <1>7, <2>1 DEF TabOf
  <2>. QED BY <1>5, <1>6, <1>7, <2>1, <2>2 DEF TabInv
<1>9. CASE ReadTuple(u)
  <2>1. /\ page' = [page EXCEPT ![u] = [epoch |-> deriving[u], tuple |-> Token(u)]]
        /\ deriving' = [deriving EXCEPT ![u] = Absent] /\ deriving[u] # Absent
    BY <1>9 DEF ReadTuple
  <2>2. deriving[u] \in Tokens /\ deriving[u].gen <= Committed(u) BY <1>6, <2>1 DEF TabOf
  <2>3. TabOf(u)' BY <1>2, <1>6, <1>7, <2>1, <2>2 DEF TabOf
  <2>. QED BY <1>2, <1>5, <1>6, <1>7, <2>1, <2>2, <2>3 DEF TabInv
<1>. QED BY <1>8, <1>9

LEMMA ReadTab ==
  ASSUME PlacesInv, TabInv, NEW r \in Reads, ReadStep(r)
  PROVE  TabInv'
<1>1. /\ pc' = [pc EXCEPT ![r] = pc'[r]] /\ UNCHANGED <<client, echo, rendered, who>>
      /\ \A w \in Writers : pc'[w] = pc[w] /\ who'[w] = who[w]
  BY ReadFrame, Kinds DEF placed, PlacesInv
<1>2. pc[r] # "idle"
  BY DEF ReadStep, EnterLifecycleGate, EnterFences, FenceUser, FenceGlobal, FenceRefused,
         OpenFile, FileBusy, Sample, Match, Mismatch, Resolve, ReadRows, Resample
<1>3. \A q \in Reads : pc'[q] # "idle" => pc[q] # "idle" /\ who'[q] = who[q] BY <1>1, <1>2, Kinds DEF PlacesInv
<1>. QED BY <1>1, <1>3, TabKeeps, CommittedStays DEF TabInv, client

LEMMA ArrivalTab ==
  ASSUME PlacesInv, TabInv, NEW t \in Requests, NEW u \in Users, NEW p \in Replicas,
         Issue(t, u, p) \/ Register(t, u, p)
  PROVE  TabInv'
<1>1. /\ pc[t] = "idle" /\ pc'[t] \in {"binding", "queued"} /\ UNCHANGED client
      /\ t \in Writers => pc'[t] = "queued" /\ UNCHANGED <<echo, rendered>>
      /\ \A s \in Requests \ {t} : pc'[s] = pc[s] /\ who'[s] = who[s]
      /\ who'[t] = u
  BY Kinds DEF PlacesInv, Issue, Register, Enqueue, readVars
<1>2. \A w \in Writers : \/ pc'[w] = pc[w] /\ who'[w] = who[w]
                         \/ pc[w] = "idle" /\ pc'[w] = "queued"
  <2>1. CASE t \in Writers BY <1>1, <2>1, Kinds
  <2>2. CASE t \notin Writers BY <1>1, <2>2, Kinds
  <2>. QED BY <2>1, <2>2
<1>3. CASE t \in Writers
  BY <1>1, <1>2, <1>3, Kinds, TabKeeps, CommittedStays DEF TabInv, client
<1>4. CASE t \in Reads
  <2>1. /\ \E e \in {page[u].epoch, Absent} : echo' = [echo EXCEPT ![t] = e]
        /\ rendered' = [rendered EXCEPT ![t] = page[u].tuple]
    BY <1>4, Kinds DEF Issue, Register
  <2>2. /\ page[u] \in [epoch : Tokens, tuple : Tokens] /\ TabOf(u)
        /\ echo \in [Reads -> MaybeToken] /\ rendered \in [Reads -> MaybeToken]
    BY DEF TabInv
  <2>3. page[u].epoch \in Tokens /\ page[u].tuple \in Tokens BY <2>2
  <2>4. /\ echo' \in [Reads -> MaybeToken] /\ rendered' \in [Reads -> MaybeToken]
        /\ echo'[t] \in {page[u].epoch, Absent} /\ rendered'[t] = page[u].tuple
        /\ \A r \in Reads \ {t} : echo'[r] = echo[r] /\ rendered'[r] = rendered[r]
    BY <1>4, <2>1, <2>2, <2>3 DEF MaybeToken
  <2>5. ASSUME NEW k PROVE Committed(k)' = Committed(k) BY <1>2, WritersStay
  <2>6. PageOf(t)'
    <3> SUFFICES ASSUME Echoing(t)'
                 PROVE  /\ echo'[t] \in Tokens /\ rendered'[t] \in Tokens
                        /\ echo'[t].gen <= rendered'[t].gen /\ rendered'[t].gen <= Committed(who[t])'
      BY DEF PageOf
    <3>1. Committed(u)' = Committed(u) BY <2>5
    <3>2. Committed(who[t])' = Committed(u)' BY <1>1
    <3>3. echo'[t] = page[u].epoch BY <2>4 DEF Echoing
    <3>. QED BY <2>2, <2>3, <2>4, <3>1, <3>2, <3>3 DEF TabOf
  <2>7. ASSUME NEW r \in Reads \ {t} PROVE PageOf(r)'
    <3>1. pc'[r] = pc[r] /\ who'[r] = who[r] BY <1>1, Kinds
    <3>2. PICK v : v = who[r] /\ v = who'[r] BY <3>1
    <3>3. Committed(v)' = Committed(v) BY <2>5
    <3>4. Committed(who[r])' = Committed(who[r]) BY <3>2, <3>3
    <3>5. PageOf(r) BY DEF TabInv
    <3>. QED BY <2>4, <3>1, <3>4, <3>5 DEF PageOf, Echoing
  <2>8. \A v \in Users : TabOf(v)'
    <3> SUFFICES ASSUME NEW v \in Users PROVE TabOf(v)' OBVIOUS
    <3>1. Committed(v)' = Committed(v) /\ TabOf(v) BY <2>5 DEF TabInv
    <3>. QED BY <1>1, <3>1 DEF TabOf, client
  <2>. QED BY <1>1, <2>4, <2>6, <2>7, <2>8 DEF TabInv, client
<1>. QED BY <1>3, <1>4, Kinds

LEMMA WriteTab ==
  ASSUME PlacesInv, LocksInv, CountsInv, SnapsInv, TabInv, NEW w \in Writers, WriteStep(w)
  PROVE  TabInv'
<1>1. /\ \A r \in Reads : pc'[r] = pc[r] /\ who'[r] = who[r]
      /\ UNCHANGED <<deriving, echo, rendered>>
  BY WriteFrame DEF placed, readVars
<1>2. \A k : Committed(k)' \in Nat /\ Committed(k) <= Committed(k)' BY CommittedGrows
<1>3. /\ \A r \in Reads : PageOf(r)'
      /\ \A u \in Users : page'[u] = page[u] => TabOf(u)'
  BY <1>1, <1>2, TabKeeps
<1>4. CASE page' = page BY <1>1, <1>3, <1>4 DEF TabInv
<1>5. CASE page' # page
  <2> DEFINE own == [gen |-> snap[w].gen + 1, life |-> snap[w].life]
  <2>1. /\ AnswerSwitch(w) /\ pc[w] = "answering" /\ page' = [page EXCEPT ![who[w]] = [epoch |-> own, tuple |-> own]]
    BY <1>5
    DEF WriteStep, RegisterAgain, Enqueue, WriterPasses, Begin, OpenFileForWrite, FenceRow,
        FenceExclusive, Conflict, Mutate, Abort, AnswerSwitch, CommitInPlace, Commit, client
  <2>2. PICK u \in Users : u = who[w] BY <2>1, Kinds DEF PlacesInv
  <2>3. snap[w] \in Tokens /\ snap[w].gen < Committed(u) /\ w \in Switches
    BY <2>1, <2>2 DEF PlacesInv, SnapsInv, SnapOf
  <2>4. /\ Committed(u) <= Cardinality(Switches) /\ Committed(u) \in Nat /\ Cardinality(Switches) \in Nat
        /\ Committed(u)' \in Nat /\ Committed(u) <= Committed(u)'
    BY <1>2, Counted, FS_CardinalityType
  <2>5. snap[w].gen \in Nat /\ snap[w].life \in Lives BY <2>3 DEF Tokens, Lives
  <2>6. own.gen \in 0 .. Cardinality(Switches) /\ own.gen <= Committed(u)' BY <2>3, <2>4, <2>5
  <2>7. own \in Tokens BY <2>5, <2>6 DEF Tokens, Lives
  <2> HIDE DEF own
  <2>8. /\ page' \in [Users -> [epoch : Tokens, tuple : Tokens]]
        /\ page'[u] = [epoch |-> own, tuple |-> own] /\ \A v \in Users \ {u} : page'[v] = page[v]
    BY <2>1, <2>2, <2>7 DEF TabInv
  <2>9. TabOf(u)'
    <3>1. TabOf(u) BY DEF TabInv
    <3>2. own.gen \in Nat /\ (deriving[u] \in Tokens => deriving[u].gen \in Nat) BY <2>6, <2>4 DEF Tokens
    <3>. QED BY <1>1, <2>4, <2>6, <2>8, <3>1, <3>2 DEF TabOf
  <2>. QED BY <1>1, <1>3, <2>8, <2>9 DEF TabInv
<1>. QED BY <1>4, <1>5

-----------------------------------------------------------------------------
(* The reads.                                                              *)

\* From its epoch check to the end of its call a read is alone with what it
\* reads: no writer of its user's key or of the global one holds what it takes
\* to write, unless a gate's bound has run out.
LEMMA Alone ==
  ASSUME PlacesInv, LocksInv, GatesInv, Calm,
         NEW r \in Reads, pc[r] \in Sampled,
         NEW w \in Writers, pc[w] \in {"fenced", "dirty"}, Key(w) \in {who[r], Global}
  PROVE  FALSE
<1>1. who[r] \in Users /\ who[w] \in Users BY Kinds DEF PlacesInv, Sampled
<1>2. CASE backend = "postgres"
  <2>1. pc[w] = "fenced" /\ fences[r] = {who[r], Global}
    BY <1>2 DEF PlacesInv, LocksInv, FencesOf, Sampled
  <2>. QED BY <1>2, <2>1 DEF LocksInv
<1>3. CASE backend = "sqlite"
  <2>1. pc[w] = "fenced" /\ pc[r] # "resampling" BY <1>3 DEF PlacesInv
  <2>2. r \in FileHolders /\ w \in FileHolders BY <2>1 DEF FileHolders, Sampled
  <2>. QED BY <1>3, <2>2, Kinds DEF LocksInv
<1>4. CASE backend = "memory"
  <2>1. backend = "memory" /\ expired = {} BY <1>4 DEF Calm
  <2>2. pc[w] \in WriterInGate /\ pc[w] # "queued" /\ pc[r] \in ReadWindow
        /\ pc[r] \notin {"binding", "entering"}
    BY DEF WriterInGate, ReadWindow, Sampled
  <2>3. CASE w \in Switches
    <3>1. who[w] = who[r] BY <1>1, <2>3, Kinds DEF Key
    <3>. QED BY <2>1, <2>2, <2>3, <3>1 DEF GatesInv
  <2>4. CASE w \in Lifecycles BY <2>1, <2>2, <2>4 DEF GatesInv
  <2>. QED BY <2>3, <2>4, Kinds
<1>. QED BY <1>2, <1>3, <1>4, BackendAssumption DEF PlacesInv

\* A store call of a read sees nothing that is not committed.
LEMMA StoreCall ==
  ASSUME PlacesInv, CountsInv, NEW r \in Reads, pc[r] # "idle", ReadLock(r)
  PROVE  /\ \A w \in Writers : pc[w] # "dirty"
         /\ \A k \in Keys : version[k] = Committed(k)
         /\ generation[who[r]] = Committed(who[r]) /\ CommittedLife(lifecycle)
<1>1. \A w \in Writers : pc[w] # "dirty"
  <2> SUFFICES ASSUME NEW w \in Writers, pc[w] = "dirty" PROVE FALSE OBVIOUS
  <2>1. backend = "memory" /\ at[w] = at[r] BY Kinds DEF PlacesInv
  <2>2. w \in InTransaction(at[r]) BY <2>1 DEF InTransaction, AtReplica
  <2>. QED BY <2>1, <2>2 DEF ReadLock, StoreFree
<1>2. who[r] \in Users BY Kinds DEF PlacesInv
<1>. QED BY <1>1, <1>2, NothingDirty, Kinds DEF CommittedLife

\* What has been sampled, checked and seen stays good as long as what it was
\* sampled, checked and seen against does.
LEMMA ReadKeeps ==
  ASSUME NEW r \in Reads, NEW u, who[r] = u, who'[r] = u, ReadOf(r),
         backend' = backend, pc'[r] = pc[r], echo'[r] = echo[r], rendered'[r] = rendered[r],
         sampled'[r] = sampled[r], saw'[r] = saw[r], r \in dirtyReads' <=> r \in dirtyReads,
         expired \subseteq expired',
         Committed(u) <= Committed(u)', Committed(u) \in Nat, Committed(u)' \in Nat,
         Committed(Global) <= Committed(Global)', Committed(Global) \in Nat, Committed(Global)' \in Nat,
         pc[r] \in Sampled /\ Calm => version'[u] = version[u] /\ version'[Global] = version[Global],
         pc[r] \in Sampled /\ Fresh(r) /\ (backend = "memory" => /\ Committed(u)' = Committed(u)
                                                       /\ Committed(Global)' = Committed(Global)) =>
           Committed(u)' = Committed(u) /\ \A life : CommittedLife(life) => CommittedLife(life)'
  PROVE  ReadOf(r)'
<1>1. Calm' => Calm BY DEF Calm
<1>2. {"resolving", "reading", "resampling"} \subseteq Sampled BY DEF Sampled
<1>3. Fresh(r) = (backend = "memory" => sampled[r] = <<Committed(u), Committed(Global)>>)
      /\ Fresh(r)' = (backend = "memory" => sampled[r] = <<Committed(u)', Committed(Global)'>>)
  BY DEF Fresh
<1>4. ASSUME pc[r] \in Sampled, backend = "memory", Fresh(r)'
      PROVE  Committed(u)' = Committed(u) /\ Committed(Global)' = Committed(Global) /\ Fresh(r)
  <2>1. /\ sampled[r][1] <= Committed(u) /\ sampled[r][2] <= Committed(Global)
        /\ sampled[r] = <<Committed(u)', Committed(Global)'>>
    BY <1>3, <1>4 DEF ReadOf
  <2>2. Committed(u)' <= Committed(u) /\ Committed(Global)' <= Committed(Global) BY <2>1
  <2>3. Committed(u)' = Committed(u) /\ Committed(Global)' = Committed(Global) BY <2>2
  <2>. QED BY <1>3, <2>1, <2>3
<1>5. ASSUME pc[r] \in Sampled, Fresh(r)'
      PROVE  Fresh(r) /\ Committed(u)' = Committed(u) /\ \A life : CommittedLife(life) => CommittedLife(life)'
  BY <1>3, <1>4, <1>5
<1>6. pc[r] \in Sampled /\ backend # "sqlite" =>
        /\ sampled'[r] \in Nat \X Nat
        /\ Calm' => sampled'[r] = <<version'[u], version'[Global]>>
        /\ backend = "memory" => sampled'[r][1] <= Committed(u)' /\ sampled'[r][2] <= Committed(Global)'
  <2> SUFFICES ASSUME pc[r] \in Sampled, backend # "sqlite"
               PROVE  /\ sampled'[r] \in Nat \X Nat
                      /\ Calm' => sampled'[r] = <<version'[u], version'[Global]>>
                      /\ backend = "memory" => sampled'[r][1] <= Committed(u)' /\ sampled'[r][2] <= Committed(Global)'
    OBVIOUS
  <2>1. /\ sampled[r] \in Nat \X Nat
        /\ Calm => sampled[r] = <<version[u], version[Global]>>
        /\ backend = "memory" => sampled[r][1] <= Committed(u) /\ sampled[r][2] <= Committed(Global)
    BY DEF ReadOf
  <2>2. PICK a \in Nat, b \in Nat : sampled[r] = <<a, b>> BY <2>1
  <2>. QED BY <1>1, <2>1, <2>2
<1>7. pc[r] \in {"resolving", "reading", "resampling"} /\ echo[r] # Absent /\ Fresh(r)' =>
        /\ echo[r].gen = Committed(u)' /\ CommittedLife(echo[r].life)'
        /\ r \notin dirtyReads' /\ pc[r] # "resolving" => saw[r] = {echo[r]}
  BY <1>2, <1>5 DEF ReadOf, Echoing
<1>. QED BY <1>1, <1>6, <1>7 DEF ReadOf, Echoing

LEMMA ReadsStart == Init => ReadsInv
BY Kinds DEF Init, ReadsInv, ReadOf, ReadAt, Sampled, DirtyReadsNeedExpiry

\* A read that a step of somebody else, who writes nothing, leaves alone.
LEMMA ReadStays ==
  ASSUME ReadsInv, NEW r \in Reads, UNCHANGED data, backend' = backend,
         \A w \in Writers : \/ pc'[w] = pc[w] /\ who'[w] = who[w]
                            \/ pc[w] = "idle" /\ pc'[w] = "queued",
         snap' = snap, expired \subseteq expired',
         pc'[r] = pc[r], who'[r] = who[r], echo'[r] = echo[r], rendered'[r] = rendered[r],
         sampled'[r] = sampled[r], saw'[r] = saw[r], r \in dirtyReads' <=> r \in dirtyReads
  PROVE  ReadOf(r)'
<1>1. PICK u : u = who[r] /\ u = who'[r] OBVIOUS
<1>2. \A k : Committed(k)' = Committed(k) /\ Committed(k) \in Nat BY WritersStay, Counted
<1>3. Committed(u)' = Committed(u) /\ Committed(u) \in Nat
      /\ Committed(Global)' = Committed(Global) /\ Committed(Global) \in Nat
  BY <1>2
<1>4. \A w \in Lifecycles : pc'[w] = "dirty" <=> pc[w] = "dirty" BY Kinds
<1>5. \A life : CommittedLife(life) => CommittedLife(life)' BY <1>4 DEF CommittedLife, data
<1>6. version' = version BY DEF data
<1>7. ReadOf(r) BY DEF ReadsInv
<1>. QED BY <1>1, <1>3, <1>5, <1>6, <1>7, ReadKeeps

LEMMA TabReadsStay ==
  ASSUME ReadsInv, NEW u \in Users, DeriveEpoch(u) \/ ReadTuple(u)
  PROVE  ReadsInv'
<1>1. UNCHANGED <<data, pc, placed, gates, readVars, writeVars>> BY DEF DeriveEpoch, ReadTuple
<1>2. \A r \in Reads : ReadOf(r)' BY <1>1, ReadStays DEF placed, gates, readVars, writeVars
<1>. QED BY <1>1, <1>2 DEF ReadsInv, DirtyReadsNeedExpiry, gates, readVars

LEMMA ArrivalReads ==
  ASSUME PlacesInv, TabInv, ReadsInv, NEW t \in Requests, NEW u \in Users, NEW p \in Replicas,
         Issue(t, u, p) \/ Register(t, u, p)
  PROVE  ReadsInv'
<1>1. /\ pc[t] = "idle" /\ pc'[t] \in {"binding", "queued"} /\ (t \in Writers => pc'[t] = "queued")
      /\ (t \in Reads => pc'[t] = "binding")
      /\ UNCHANGED <<data, backend, expired, sampled, saw, dirtyReads, writeVars>>
      /\ \A s \in Requests \ {t} : pc'[s] = pc[s] /\ who'[s] = who[s]
  BY Kinds DEF PlacesInv, Issue, Register, Enqueue, readVars
<1>2. \A r \in Reads \ {t} : echo'[r] = echo[r] /\ rendered'[r] = rendered[r]
  BY Kinds DEF TabInv, Issue, Register, Enqueue, readVars
<1>3. \A w \in Writers : \/ pc'[w] = pc[w] /\ who'[w] = who[w]
                         \/ pc[w] = "idle" /\ pc'[w] = "queued"
  <2>1. CASE t \in Writers BY <1>1, <2>1, Kinds
  <2>2. CASE t \notin Writers BY <1>1, <2>2, Kinds
  <2>. QED BY <2>1, <2>2
<1>4. ASSUME NEW r \in Reads \ {t} PROVE ReadOf(r)'
  <2>1. pc'[r] = pc[r] /\ who'[r] = who[r] BY <1>1, Kinds
  <2>. QED BY <1>1, <1>2, <1>3, <2>1, ReadStays DEF writeVars
<1>5. t \in Reads => ReadOf(t)'
  <2> SUFFICES ASSUME t \in Reads PROVE ReadOf(t)' OBVIOUS
  <2>1. pc'[t] = "binding" /\ saw'[t] = saw[t] /\ sampled'[t] = sampled[t] BY <1>1
  <2>2. saw[t] = {} /\ (sampled[t] = Absent \/ sampled[t] \in Nat \X Nat)
    BY <1>1 DEF ReadsInv, ReadOf, ReadAt
  <2>. QED BY <2>1, <2>2 DEF ReadOf, Sampled
<1>. QED BY <1>1, <1>4, <1>5 DEF ReadsInv, DirtyReadsNeedExpiry

\* Only the commit of a lifecycle change changes the lifecycle for good.
LEMMA LifeKeeps ==
  ASSUME PlacesInv, LocksInv, CountsInv, SnapsInv, NEW w \in Writers, WriteStep(w),
         w \in Lifecycles => ~CommitInPlace(w) /\ ~Commit(w),
         NEW life, CommittedLife(life)
  PROVE  CommittedLife(life)'
<1>1. /\ \A v \in Lifecycles \ {w} : pc'[v] = "dirty" <=> pc[v] = "dirty"
      /\ \A v \in Writers \ {w} : snap'[v] = snap[v]
      /\ Lifecycles \subseteq Writers /\ (w \in Switches <=> w \notin Lifecycles)
  BY WriteMoves, OwnSnap, Kinds
<1>2. CASE UNCHANGED data /\ pc[w] # "dirty" /\ pc'[w] # "dirty"
  BY <1>1, <1>2 DEF CommittedLife, data
<1>3. CASE Mutate(w) \/ CommitInPlace(w) \/ Commit(w) \/ (Abort(w) /\ pc[w] = "dirty")
  <2>1. pc[w] \in {"fenced", "dirty"} BY <1>3 DEF Mutate, CommitInPlace, Commit
  <2>2. \A v \in Lifecycles \ {w} : pc[v] # "dirty" /\ pc'[v] # "dirty"
    BY <1>1, <2>1, Sole DEF PlacesInv
  <2>3. CASE w \in Switches
    <3>1. lifecycle' = lifecycle BY <1>1, <2>3, DataMoves
    <3>. QED BY <1>1, <2>2, <2>3, <3>1 DEF CommittedLife
  <2>4. CASE w \in Lifecycles /\ Mutate(w)
    <3>1. /\ pc[w] = "fenced" /\ pc'[w] = "dirty" /\ snap'[w] = snap[w] /\ snap[w] = Token(who[w])
      BY <2>4, WriteEffect DEF Mutate, writeVars, SnapsInv, SnapOf
    <3>2. snap[w].life = lifecycle BY <3>1 DEF Token
    <3>3. lifecycle = life BY <1>1, <2>2, <3>1 DEF CommittedLife
    <3>. QED BY <1>1, <2>2, <2>4, <3>1, <3>2, <3>3 DEF CommittedLife
  <2>5. CASE w \in Lifecycles /\ Abort(w) /\ pc[w] = "dirty"
    <3>1. lifecycle' = snap[w].life /\ snap[w].life = life /\ pc'[w] = "failed"
      BY <2>5, WriteEffect DEF Abort, CommittedLife
    <3>. QED BY <2>2, <3>1 DEF CommittedLife
  <2>. QED BY <1>1, <1>3, <2>3, <2>4, <2>5
<1>. QED BY <1>2, <1>3, WriteEffect

LEMMA VersionMoves ==
  ASSUME PlacesInv, CountsInv, NEW w \in Writers, WriteStep(w), NEW k \in Keys, version'[k] # version[k]
  PROVE  k = Key(w) /\ pc[w] \in {"fenced", "dirty"}
<1>1. Mutate(w) \/ Commit(w) \/ (Abort(w) /\ pc[w] = "dirty") BY WriteEffect DEF data, CommitInPlace
<1>2. version \in [Keys -> Nat] BY DEF CountsInv
<1>. QED BY <1>1, <1>2 DEF Mutate, Commit, Apply, Abort

LEMMA WriteReads ==
  ASSUME PlacesInv, LocksInv, GatesInv, CountsInv, SnapsInv, ReadsInv, NEW w \in Writers, WriteStep(w)
  PROVE  ReadsInv'
<1>1. /\ UNCHANGED <<backend, who, echo, rendered, sampled, saw, dirtyReads>>
      /\ \A r \in Reads : pc'[r] = pc[r]
  BY WriteFrame DEF placed, readVars
<1>2. expired \subseteq expired'
  BY DEF WriteStep, RegisterAgain, Enqueue, WriterPasses, PassGate, Begin, OpenFileForWrite, FenceRow,
         FenceExclusive, Conflict, Mutate, Abort, AnswerSwitch, CommitInPlace, Commit, gates
<1>3. ASSUME NEW r \in Reads PROVE ReadOf(r)'
  <2>1. PICK u : u = who[r] /\ u = who'[r] BY <1>1
  <2>2. /\ Committed(u) <= Committed(u)' /\ Committed(u) \in Nat /\ Committed(u)' \in Nat
        /\ Committed(Global) <= Committed(Global)' /\ Committed(Global) \in Nat /\ Committed(Global)' \in Nat
    BY CommittedGrows, Counted
  <2>3. pc[r] \in Sampled => u \in Keys /\ Global \in Keys BY <2>1, Kinds DEF PlacesInv, Sampled
  <2>4. ASSUME pc[r] \in Sampled, Calm PROVE version'[u] = version[u] /\ version'[Global] = version[Global]
    BY <2>1, <2>3, <2>4, VersionMoves, Alone
  <2>5. ASSUME pc[r] \in Sampled,
               backend = "memory" => Committed(u)' = Committed(u) /\ Committed(Global)' = Committed(Global)
        PROVE  Committed(u)' = Committed(u) /\ \A life : CommittedLife(life) => CommittedLife(life)'
    <3>1. ASSUME CommitInPlace(w) \/ Commit(w), Key(w) \in {u, Global} PROVE FALSE
      <4>1. pc[w] \in {"fenced", "dirty"} BY <3>1 DEF CommitInPlace, Commit
      <4>2. CASE backend = "memory"
        <5>1. /\ Key(w) = u => Committed(u)' = Committed(u) + 1
              /\ Key(w) = Global => Committed(Global)' = Committed(Global) + 1
          BY <3>1, CommittedGrows
        <5>. QED BY <2>2, <2>5, <3>1, <4>2, <5>1
      <4>3. CASE backend # "memory"
        <5>1. Calm BY <4>3 DEF Calm
        <5>. QED BY <2>1, <2>5, <3>1, <4>1, <5>1, Alone
      <4>. QED BY <4>2, <4>3
    <3>2. Committed(u)' = Committed(u) BY <3>1, CommittedGrows
    <3>3. w \in Lifecycles => ~CommitInPlace(w) /\ ~Commit(w) BY <3>1, Kinds DEF Key
    <3>. QED BY <3>2, <3>3, LifeKeeps
  <2>6. ReadOf(r) BY DEF ReadsInv
  <2>. QED BY <1>1, <1>2, <2>1, <2>2, <2>4, <2>5, <2>6, ReadKeeps
<1>. QED BY <1>1, <1>2, <1>3 DEF ReadsInv, DirtyReadsNeedExpiry

\* What a read's own step does to what it has sampled and seen.
LEMMA OwnRead ==
  ASSUME PlacesInv, LocksInv, GatesInv, CountsInv, TabInv, ReadsInv, NEW r \in Reads, ReadStep(r)
  PROVE  /\ saw' \in [Reads -> SUBSET Tokens] /\ DOMAIN sampled' = Reads
         /\ \A q \in Reads \ {r} : saw'[q] = saw[q] /\ sampled'[q] = sampled[q]
         /\ dirtyReads' \in {dirtyReads, dirtyReads \cup {r}}
         /\ expired \subseteq expired'
         /\ dirtyReads' # dirtyReads => ~Calm
<1>1. who[r] \in Users BY Kinds
  DEF PlacesInv, ReadStep, EnterLifecycleGate, EnterFences, FenceUser, FenceGlobal, FenceRefused,
      OpenFile, FileBusy, Sample, Match, Mismatch, Resolve, ReadRows, Resample
<1>2. Token(who[r]) \in Tokens BY <1>1, TokensTyped
<1>3. saw \in [Reads -> SUBSET Tokens] /\ DOMAIN sampled = Reads BY DEF ReadsInv
<1>4. expired \subseteq expired'
  BY DEF ReadStep, EnterLifecycleGate, EnterFences, PassGate, FenceUser, FenceGlobal, FenceRefused,
         OpenFile, FileBusy, Sample, Match, Mismatch, Resolve, ReadRows, Resample, gates
<1>5. \/ saw' = saw \/ saw' = [saw EXCEPT ![r] = {Token(who[r])}]
      \/ saw' = [saw EXCEPT ![r] = saw[r] \cup {Token(who[r])}]
  BY DEF ReadStep, EnterLifecycleGate, EnterFences, FenceUser, FenceGlobal, FenceRefused,
         OpenFile, FileBusy, Sample, Match, Mismatch, Resolve, ReadRows, Resample, readVars
<1>6. DOMAIN sampled' = Reads /\ \A q \in Reads \ {r} : sampled'[q] = sampled[q]
  <2>1. \/ sampled' = sampled \/ sampled' = [sampled EXCEPT ![r] = Absent]
        \/ sampled' = [sampled EXCEPT ![r] = <<version[who[r]], version[Global]>>]
    BY DEF ReadStep, EnterLifecycleGate, EnterFences, FenceUser, FenceGlobal, FenceRefused, Answer, Forget,
           OpenFile, FileBusy, Sample, Match, Mismatch, Resolve, ReadRows, Resample, readVars
  <2>. QED BY <1>3, <2>1
<1>7. /\ dirtyReads' \in {dirtyReads, dirtyReads \cup {r}}
      /\ dirtyReads' # dirtyReads => \E w \in Writers : pc[w] = "dirty" /\ Key(w) \in {who[r], Global} /\ pc[r] = "reading"
  BY DEF ReadStep, EnterLifecycleGate, EnterFences, FenceUser, FenceGlobal, FenceRefused,
         OpenFile, FileBusy, Sample, Match, Mismatch, Resolve, ReadRows, Resample, readVars
<1>8. dirtyReads' # dirtyReads => ~Calm BY <1>7, Alone DEF Sampled
<1>9. saw' \in [Reads -> SUBSET Tokens] /\ \A q \in Reads \ {r} : saw'[q] = saw[q] BY <1>2, <1>3, <1>5
<1>. QED BY <1>3, <1>4, <1>6, <1>7, <1>8, <1>9

\* The steps before a read samples, and those that end it without an answer.
LEMMA ReadBefore ==
  ASSUME PlacesInv, ReadsInv, NEW r \in Reads,
         \/ EnterLifecycleGate(r) \/ EnterFences(r)
         \/ FenceUser(r) \/ FenceGlobal(r) \/ FenceRefused(r)
         \/ OpenFile(r) \/ FileBusy(r) \/ Mismatch(r)
  PROVE  ReadOf(r)'
<1>1. ReadOf(r) /\ r \in Requests /\ pc \in [Requests -> Location] /\ DOMAIN sampled = Reads
  BY Kinds DEF ReadsInv, PlacesInv
<1>2. saw[r] = {} /\ saw' = saw /\ backend' = backend
  BY <1>1
  DEF ReadOf, ReadAt, ReadWindow, EnterLifecycleGate, EnterFences, FenceUser, FenceGlobal, FenceRefused,
      OpenFile, FileBusy, Mismatch, readVars, placed
<1>3. CASE EnterLifecycleGate(r) \/ EnterFences(r) \/ FenceUser(r) \/ FenceGlobal(r) \/ OpenFile(r)
  <2>1. /\ sampled' = sampled
        /\ pc'[r] \in {"entering", "fenceUser", "fenceGlobal", "opening", "sampling", "comparing"}
        /\ pc'[r] = "comparing" => backend = "sqlite"
    BY <1>1, <1>3, BackendAssumption
    DEF EnterLifecycleGate, EnterFences, FenceUser, FenceGlobal, OpenFile, readVars, PlacesInv
  <2>2. sampled'[r] = Absent \/ sampled'[r] \in Nat \X Nat BY <1>1, <2>1 DEF ReadOf
  <2>3. saw'[r] = {} BY <1>2
  <2>. QED BY <1>2, <2>1, <2>2, <2>3 DEF ReadOf, Sampled
<1>4. CASE FenceRefused(r) \/ FileBusy(r) \/ Mismatch(r)
  <2>1. pc'[r] = "discarded" /\ sampled'[r] = Absent
    BY <1>1, <1>4 DEF FenceRefused, FileBusy, Mismatch, Answer, Forget
  <2>. QED BY <1>2, <2>1 DEF ReadOf, Sampled
<1>. QED BY <1>3, <1>4

LEMMA ReadSamples ==
  ASSUME PlacesInv, CountsInv, TabInv, ReadsInv, NEW r \in Reads, Sample(r) \/ Match(r)
  PROVE  ReadOf(r)'
<1>1. /\ ReadOf(r) /\ r \in Requests /\ DOMAIN sampled = Reads /\ saw[r] = {} /\ PageOf(r)
      /\ who[r] \in Users /\ who[r] \in Keys /\ Global \in Keys /\ ReadLock(r) /\ pc[r] # "idle"
  BY Kinds DEF ReadsInv, PlacesInv, TabInv, Sample, Match, ReadOf, ReadAt, ReadWindow
<1>2. PICK u : u = who[r] /\ u = who'[r] BY DEF Sample, Match, placed
<1>3. /\ \A k \in Keys : version[k] = Committed(k)
      /\ generation[u] = Committed(u) /\ CommittedLife(lifecycle)
  BY <1>1, <1>2, StoreCall
<1>4. /\ \A w \in Writers : pc'[w] = pc[w] /\ who'[w] = who[w]
      /\ UNCHANGED <<backend, version, expired, echo, rendered, saw, generation, lifecycle, snap>>
  BY Kinds DEF PlacesInv, Sample, Match, data, placed, gates, readVars, writeVars
<1>5. Committed(u)' = Committed(u) /\ Committed(Global)' = Committed(Global)
      /\ Committed(u) \in Nat /\ Committed(Global) \in Nat
  BY <1>4, WritersStay, Counted
<1>6. CASE Sample(r)
  <2>1. /\ pc'[r] = "comparing" /\ sampled'[r] = <<version[u], version[Global]>> /\ saw'[r] = {}
    BY <1>1, <1>2, <1>6 DEF PlacesInv, Sample
  <2>2. sampled'[r] \in Nat \X Nat /\ sampled'[r][1] <= Committed(u)' /\ sampled'[r][2] <= Committed(Global)'
    BY <1>1, <1>2, <1>3, <1>5, <2>1
  <2>. QED BY <1>2, <1>4, <2>1, <2>2 DEF ReadOf, Sampled
<1>7. CASE Match(r)
  <2>1. pc[r] = "comparing" /\ pc'[r] = "resolving" /\ sampled'[r] = sampled[r] /\ saw'[r] = {} /\ echo[r] \in {Absent, Token(u)}
    BY <1>1, <1>2, <1>7 DEF PlacesInv, Match, EpochMatches, readVars
  <2>2. \A life : CommittedLife(life)' <=> CommittedLife(life)
    BY <1>4, Kinds DEF CommittedLife
  <2>3. Echoing(r) => echo[r].gen = Committed(u) /\ CommittedLife(echo[r].life) /\ echo[r].gen = rendered[r].gen
    <3> SUFFICES ASSUME Echoing(r)
                 PROVE  echo[r].gen = Committed(u) /\ CommittedLife(echo[r].life) /\ echo[r].gen = rendered[r].gen
      OBVIOUS
    <3>1. echo[r].gen = Committed(u) /\ CommittedLife(echo[r].life) BY <1>3, <2>1 DEF Echoing, Token
    <3>2. rendered[r] \in Tokens /\ echo[r].gen <= rendered[r].gen /\ rendered[r].gen <= Committed(u)
      BY <1>1, <1>2 DEF PageOf
    <3>3. rendered[r].gen \in Nat BY <3>2 DEF Tokens
    <3>. QED BY <1>5, <3>1, <3>2, <3>3
  <2>4. Echoing(r)' => echo'[r].gen = Committed(u)' /\ CommittedLife(echo[r].life)' /\ echo'[r].gen = rendered'[r].gen
    BY <1>4, <1>5, <2>2, <2>3 DEF Echoing
  <2>5. backend # "sqlite" =>
          /\ sampled'[r] \in Nat \X Nat
          /\ Calm' => sampled'[r] = <<version'[u], version'[Global]>>
          /\ backend = "memory" => sampled'[r][1] <= Committed(u)' /\ sampled'[r][2] <= Committed(Global)'
    BY <1>1, <1>2, <1>4, <1>5, <2>1 DEF ReadOf, Sampled, Calm
  <2>. QED BY <1>1, <1>2, <1>4, <2>1, <2>4, <2>5 DEF ReadOf, Sampled
<1>. QED BY <1>6, <1>7

LEMMA ReadCalls ==
  ASSUME PlacesInv, CountsInv, TabInv, ReadsInv, NEW r \in Reads, Resolve(r) \/ ReadRows(r)
  PROVE  ReadOf(r)'
<1>1. /\ ReadOf(r) /\ r \in Requests /\ DOMAIN sampled = Reads /\ saw \in [Reads -> SUBSET Tokens] /\ PageOf(r)
      /\ who[r] \in Users /\ who[r] \in Keys /\ Global \in Keys /\ pc[r] \in {"resolving", "reading"}
      /\ echo \in [Reads -> MaybeToken]
  BY Kinds DEF ReadsInv, PlacesInv, TabInv, Resolve, ReadRows
<1>2. PICK u \in Users : u = who[r] /\ u = who'[r] BY <1>1 DEF Resolve, ReadRows, placed
<1>3. /\ \A w \in Writers : pc'[w] = pc[w] /\ who'[w] = who[w]
      /\ UNCHANGED <<backend, version, expired, echo, rendered, generation, lifecycle, snap>>
  BY Kinds DEF PlacesInv, Resolve, ReadRows, Answer, data, placed, gates, writeVars
<1>4. Committed(u)' = Committed(u) /\ Committed(Global)' = Committed(Global)
      /\ Committed(u) \in Nat /\ Committed(Global) \in Nat
  BY <1>3, WritersStay, Counted
<1>5. \A life : CommittedLife(life)' <=> CommittedLife(life)
  BY <1>3, Kinds DEF CommittedLife
<1>6. /\ Echoing(r) /\ Fresh(r) => echo[r].gen = Committed(u) /\ CommittedLife(echo[r].life)
      /\ Echoing(r) => echo[r].gen = rendered[r].gen
  BY <1>1, <1>2 DEF ReadOf
\* What the call sees, unless it is of a writer that concerns it.
<1>7. ASSUME Echoing(r), Fresh(r), ~\E w \in Writers : pc[w] = "dirty" /\ Key(w) \in {u, Global}
      PROVE  Token(u) = echo[r]
  <2>1. \A w \in Lifecycles : pc[w] # "dirty" /\ w \in Writers
    <3>1. \A w \in Lifecycles : w \in Writers /\ Key(w) = Global BY Kinds DEF Key
    <3>. QED BY <1>7, <3>1
  <2>2. lifecycle = echo[r].life BY <1>6, <1>7, <2>1 DEF CommittedLife
  <2>3. Done(u) = Settled(u)
    <3>1. \A w \in Writers : Key(w) = u => pc[w] # "dirty" BY <1>7
    <3>. QED BY <3>1 DEF Done, Settled
  <2>4. generation[u] = echo[r].gen BY <1>6, <1>7, <2>3, TokensTyped DEF Committed
  <2>5. echo[r] \in Tokens BY <1>1, <1>7 DEF Echoing, MaybeToken
  <2>. QED BY <2>2, <2>4, <2>5 DEF Token, Tokens
<1>8. sampled'[r] = sampled[r] => (Fresh(r)' <=> Fresh(r))
  BY <1>2, <1>3, <1>4 DEF Fresh
<1>9. Echoing(r)' => echo'[r].gen = rendered'[r].gen BY <1>3, <1>6 DEF Echoing
<1>10. ASSUME sampled'[r] = sampled[r]
       PROVE  /\ Echoing(r)' /\ Fresh(r)' => echo'[r].gen = Committed(u)' /\ CommittedLife(echo[r].life)'
              /\ backend # "sqlite" =>
                   /\ sampled'[r] \in Nat \X Nat
                   /\ Calm' => sampled'[r] = <<version'[u], version'[Global]>>
                   /\ backend = "memory" => sampled'[r][1] <= Committed(u)' /\ sampled'[r][2] <= Committed(Global)'
  BY <1>1, <1>2, <1>3, <1>4, <1>5, <1>6, <1>8, <1>10 DEF ReadOf, Sampled, Calm, Echoing
<1>11. CASE Resolve(r)
  <2>1. /\ pc'[r] = "reading" /\ sampled'[r] = sampled[r] /\ saw'[r] = {Token(u)} /\ ReadLock(r)
    BY <1>1, <1>2, <1>11 DEF PlacesInv, Resolve
  <2>2. \A w \in Writers : pc[w] # "dirty" BY <1>1, <2>1, StoreCall
  <2>3. Echoing(r)' /\ Fresh(r)' => saw'[r] = {echo'[r]} BY <1>3, <1>7, <1>8, <2>1, <2>2 DEF Echoing
  <2>. QED BY <1>1, <1>2, <1>3, <1>9, <1>10, <2>1, <2>3 DEF ReadOf, Sampled
<1>12. CASE ReadRows(r)
  <2>1. /\ pc[r] = "reading" /\ saw'[r] = saw[r] \cup {Token(u)}
        /\ r \notin dirtyReads' => r \notin dirtyReads /\ ~\E w \in Writers : pc[w] = "dirty" /\ Key(w) \in {u, Global}
    BY <1>1, <1>2, <1>12 DEF ReadRows
  <2>2. Echoing(r)' /\ Fresh(r) /\ r \notin dirtyReads' => saw'[r] = {echo'[r]}
    <3> SUFFICES ASSUME Echoing(r)', Fresh(r), r \notin dirtyReads' PROVE saw'[r] = {echo'[r]} OBVIOUS
    <3>1. Echoing(r) /\ echo'[r] = echo[r] BY <1>3 DEF Echoing
    <3>2. saw[r] = {echo[r]} BY <1>1, <2>1, <3>1 DEF ReadOf
    <3>3. Token(u) = echo[r] BY <1>7, <2>1, <3>1
    <3>. QED BY <2>1, <3>1, <3>2, <3>3
  <2>3. CASE backend = "sqlite"
    <3>1. pc'[r] = "served" /\ sampled'[r] = Absent
      BY <1>1, <1>12, <2>3 DEF PlacesInv, ReadRows, Answer, Forget
    <3>2. Fresh(r) BY <2>3 DEF Fresh
    <3>. QED BY <1>3, <1>9, <2>2, <2>3, <3>1, <3>2 DEF ReadOf, Sampled
  <2>4. CASE backend # "sqlite"
    <3>1. pc'[r] = "resampling" /\ sampled'[r] = sampled[r]
      BY <1>1, <1>12, <2>4 DEF PlacesInv, ReadRows
    <3>. QED BY <1>1, <1>2, <1>3, <1>8, <1>9, <1>10, <2>2, <3>1 DEF ReadOf, Sampled
  <2>. QED BY <2>3, <2>4
<1>. QED BY <1>11, <1>12

LEMMA ReadEnds ==
  ASSUME PlacesInv, CountsInv, TabInv, ReadsInv, NEW r \in Reads, Resample(r)
  PROVE  ReadOf(r)'
<1>1. /\ ReadOf(r) /\ r \in Requests /\ DOMAIN sampled = Reads /\ who[r] \in Keys /\ Global \in Keys
      /\ pc[r] = "resampling" /\ ReadLock(r) /\ backend # "sqlite"
  BY Kinds DEF ReadsInv, PlacesInv, Resample
<1>2. /\ sampled'[r] = Absent /\ UNCHANGED <<backend, expired, saw, echo, rendered, dirtyReads>>
      /\ pc'[r] = IF sampled[r] = <<version[who[r]], version[Global]>> THEN "served" ELSE "discarded"
  BY <1>1 DEF PlacesInv, Resample, Answer, Forget, placed
<1>3. \A k \in Keys : version[k] = Committed(k) BY <1>1, StoreCall
<1>4. CASE sampled[r] = <<version[who[r]], version[Global]>>
  <2>1. Fresh(r) BY <1>1, <1>3, <1>4 DEF Fresh
  <2>2. Echoing(r) => /\ echo[r].gen = rendered[r].gen
                      /\ r \notin dirtyReads => saw[r] = {echo[r]}
    BY <1>1, <2>1 DEF ReadOf
  <2>. QED BY <1>2, <1>4, <2>2 DEF ReadOf, Echoing, Sampled
<1>5. CASE sampled[r] # <<version[who[r]], version[Global]>>
  <2>1. ~Calm BY <1>1, <1>5 DEF ReadOf, Sampled
  <2>. QED BY <1>2, <1>5, <2>1 DEF ReadOf, Sampled, Calm
<1>. QED BY <1>4, <1>5

LEMMA ReadReads ==
  ASSUME PlacesInv, LocksInv, GatesInv, CountsInv, TabInv, ReadsInv, NEW r \in Reads, ReadStep(r)
  PROVE  ReadsInv'
<1>1. /\ pc' = [pc EXCEPT ![r] = pc'[r]]
      /\ UNCHANGED <<data, placed, writeVars, echo, rendered>>
      /\ \A w \in Writers : pc'[w] = pc[w] /\ who'[w] = who[w]
  BY ReadFrame, Kinds DEF placed, PlacesInv
<1>2. /\ saw' \in [Reads -> SUBSET Tokens] /\ DOMAIN sampled' = Reads
      /\ \A q \in Reads \ {r} : saw'[q] = saw[q] /\ sampled'[q] = sampled[q]
      /\ dirtyReads' \in {dirtyReads, dirtyReads \cup {r}}
      /\ expired \subseteq expired'
      /\ dirtyReads' # dirtyReads => ~Calm
  BY OwnRead
<1>3. ASSUME NEW q \in Reads \ {r} PROVE ReadOf(q)'
  <2>1. pc'[q] = pc[q] /\ (q \in dirtyReads' <=> q \in dirtyReads) BY <1>1, <1>2, Kinds DEF PlacesInv
  <2>. QED BY <1>1, <1>2, <2>1, ReadStays DEF placed, writeVars
<1>4. ReadOf(r)' BY ReadBefore, ReadSamples, ReadCalls, ReadEnds DEF ReadStep
<1>5. DirtyReadsNeedExpiry' BY <1>2 DEF ReadsInv, DirtyReadsNeedExpiry, Calm
<1>. QED BY <1>2, <1>3, <1>4, <1>5 DEF ReadsInv

-----------------------------------------------------------------------------
(* What the runs check, for every value of the constants.                  *)

LEMMA ReadInvStart == Init => ReadInv
BY PlacesStart, LocksStart, GatesStart, CountsStart, TabStart, ReadsStart DEF ReadInv

LEMMA ReadInvStep == ReadInv /\ [Next]_vars => ReadInv'
<1> SUFFICES ASSUME ReadInv, [Next]_vars PROVE ReadInv' OBVIOUS
<1>1. PlacesInv /\ LocksInv /\ GatesInv /\ CountsInv /\ SnapsInv /\ TabInv /\ ReadsInv BY DEF ReadInv
<1>2. CASE UNCHANGED vars
  <2>1. UNCHANGED <<data, client, pc, placed, gates, readVars, writeVars>> BY <1>2 DEF vars
  <2>2. UNCHANGED <<fences, echo, rendered, sampled, saw, dirtyReads, expired, snap, backend, at, who>>
    BY <2>1 DEF readVars, gates, writeVars, placed
  <2>3. \A k : Done(k)' = Done(k) /\ Committed(k)' = Committed(k) BY <2>1, <2>2, WritersStay
  <2>4. PlacesInv' /\ LocksInv' /\ GatesInv' /\ CountsInv' /\ SnapsInv'
    BY <1>1, <2>1, <2>2, <2>3, TabPlaces, LocksStay, GatesStay, CountsStay, SnapsStay
  <2>5. TabInv'
    <3>1. \A r \in Reads : PageOf(r)' BY <1>1, <2>1, <2>2, <2>3, TabKeeps, CommittedStays
    <3>2. \A u \in Users : TabOf(u)' BY <1>1, <2>1, <2>2, <2>3, TabKeeps, CommittedStays DEF client
    <3>. QED BY <1>1, <2>1, <2>2, <3>1, <3>2 DEF TabInv, client
  <2>6. ReadsInv'
    <3>1. \A r \in Reads : ReadOf(r)' BY <1>1, <2>1, <2>2, ReadStays
    <3>. QED BY <1>1, <2>2, <3>1 DEF ReadsInv, DirtyReadsNeedExpiry
  <2>. QED BY <2>4, <2>5, <2>6 DEF ReadInv
<1>3. ASSUME NEW u \in Users, DeriveEpoch(u) \/ ReadTuple(u) PROVE ReadInv'
  <2>1. UNCHANGED <<data, pc, placed, gates, readVars, writeVars>> BY <1>3 DEF DeriveEpoch, ReadTuple
  <2>2. UNCHANGED <<fences, backend, who>> BY <2>1 DEF readVars, placed
  <2>3. \A k : Done(k)' = Done(k) BY <2>1, <2>2, WritersStay
  <2>. QED BY <1>1, <1>3, <2>1, <2>2, <2>3, TabPlaces, LocksStay, GatesStay, CountsStay, SnapsStay,
              TabSteps, TabReadsStay DEF ReadInv
<1>4. ASSUME NEW t \in Requests, NEW u \in Users, NEW p \in Replicas, Issue(t, u, p) \/ Register(t, u, p)
      PROVE  ReadInv'
  <2>1. \A w \in Writers : \/ pc'[w] = pc[w] /\ who'[w] = who[w]
                           \/ pc[w] = "idle" /\ pc'[w] = "queued"
    BY <1>1, <1>4, Kinds DEF PlacesInv, Issue, Register, Enqueue
  <2>2. UNCHANGED <<data, backend, writeVars>> BY <1>4 DEF Issue, Register, Enqueue
  <2>3. \A k : Done(k)' = Done(k) BY <2>1, WritersStay
  <2>. QED BY <1>1, <1>4, <2>1, <2>2, <2>3, ArrivalPlaces, ArrivalLocks, ArrivalGates, CountsStay, SnapsStay,
              ArrivalTab, ArrivalReads DEF ReadInv
<1>5. ASSUME NEW r \in Reads, ReadStep(r) PROVE ReadInv'
  <2>1. /\ \A w \in Writers : pc'[w] = pc[w] /\ who'[w] = who[w]
        /\ UNCHANGED <<data, backend, writeVars>>
    BY <1>1, <1>5, ReadFrame, Kinds DEF PlacesInv, placed
  <2>2. \A k : Done(k)' = Done(k) BY <2>1, WritersStay
  <2>. QED BY <1>1, <1>5, <2>1, <2>2, ReadPlaces, ReadLocks, ReadGates, CountsStay, SnapsStay,
              ReadTab, ReadReads DEF ReadInv
<1>6. ASSUME NEW w \in Writers, WriteStep(w) PROVE ReadInv'
  BY <1>1, <1>6, WritePlaces, WriteLocks, WriteGates, WriteCounts, WriteSnaps, WriteTab, WriteReads DEF ReadInv
<1>. QED BY <1>2, <1>3, <1>4, <1>5, <1>6 DEF Next

\* The inductive invariant: the gates, the store's lock, SQLite's file and
\* PostgreSQL's fences keep a read alone with what it reads; the counters count
\* what has been written; a page is never younger than what is committed.
THEOREM ReadsKeepTheirBooks == Spec => []ReadInv
BY ReadInvStart, ReadInvStep, PTL DEF Spec

\* Whatever switches, archives, expired bounds, lock timeouts and retries fall
\* between its issue and its answer, a read is served whole and for the selection
\* its page was rendered from, or refused before its service call has run; the
\* exceptions are those of an in-memory store one of whose gate bounds has expired.
THEOREM ReadsAreSound == Spec => []ReadSound
<1>1. ReadInv => ReadSound
  <2> SUFFICES ASSUME ReadInv PROVE ReadSound OBVIOUS
  <2>1. PlacesInv /\ LocksInv /\ GatesInv /\ CountsInv /\ SnapsInv /\ TabInv /\ ReadsInv BY DEF ReadInv
  <2>2. version \in [Keys -> 0 .. Cardinality(Writers)]
    <3>1. ASSUME NEW k \in Keys PROVE version[k] \in 0 .. Cardinality(Writers)
      <4>1. version[k] = Cardinality(Done(k)) BY <2>1 DEF CountsInv
      <4>2. /\ Cardinality(Done(k)) <= Cardinality(Writers)
            /\ Cardinality(Done(k)) \in Nat /\ Cardinality(Writers) \in Nat
        BY Counted, FS_Subset, FS_CardinalityType
      <4>. QED BY <4>1, <4>2
    <3>. QED BY <2>1, <3>1 DEF CountsInv
  <2>3. \A u \in Users : Token(u) \in Tokens BY <2>1, TokensTyped
  <2>4. TypeOK
    BY <2>1, <2>2, <2>3 DEF TypeOK, PlacesInv, LocksInv, GatesInv, SnapsInv, TabInv, ReadsInv, ReadOf
  <2>5. ServedAsEchoed /\ DirtyReadsNeedExpiry /\ DiscardedUnserved
    BY <2>1 DEF ReadsInv, ReadOf, ServedAsEchoed, DiscardedUnserved, Calm
  <2>6. ServedForRenderedSelection
    BY <2>1 DEF ReadsInv, ReadOf, ServedForRenderedSelection
  <2>7. GenerationsDistinct
    <3>1. ASSUME NEW u \in Users PROVE Written(u) = Done(u)
      <4>1. \A w \in Writers : Key(w) = u <=> w \in Switches /\ who[w] = u BY Kinds DEF Key
      <4>. QED BY <4>1, Kinds DEF Written, Done
    <3>. QED BY <2>1, <3>1, TokensTyped DEF GenerationsDistinct
  <2>. QED BY <2>4, <2>5, <2>6, <2>7 DEF ReadSound
<1>. QED BY <1>1, ReadsKeepTheirBooks, PTL

\* From its epoch check to the end of its service call nothing that a read's
\* epoch names changes under it, unless an in-memory gate's bound has expired.
THEOREM WindowsAreFrozen == Spec => WindowFrozen
<1> DEFINE Frozen == \A r \in Reads :
             pc[r] \in Window /\ pc'[r] \in Window /\ ~(backend = "memory" /\ expired # {})
               => Token(who[r])' = Token(who[r])
<1>1. ReadInv /\ [Next]_vars => Frozen
  <2> SUFFICES ASSUME ReadInv, [Next]_vars,
                      NEW r \in Reads, pc[r] \in Sampled, Calm
               PROVE  Token(who[r])' = Token(who[r])
    BY DEF Window, Sampled, Calm
  <2>1. PlacesInv /\ LocksInv /\ GatesInv /\ CountsInv /\ SnapsInv BY DEF ReadInv
  <2>2. SUFFICES who'[r] = who[r] /\ generation'[who[r]] = generation[who[r]] /\ lifecycle' = lifecycle
    BY DEF Token
  <2>3. CASE UNCHANGED vars BY <2>3 DEF vars, data, placed
  <2>4. ASSUME NEW u \in Users, DeriveEpoch(u) \/ ReadTuple(u)
        PROVE  who'[r] = who[r] /\ generation'[who[r]] = generation[who[r]] /\ lifecycle' = lifecycle
    BY <2>4 DEF DeriveEpoch, ReadTuple, data, placed
  <2>5. ASSUME NEW t \in Requests, NEW u \in Users, NEW p \in Replicas, Issue(t, u, p) \/ Register(t, u, p)
        PROVE  who'[r] = who[r] /\ generation'[who[r]] = generation[who[r]] /\ lifecycle' = lifecycle
    <3>1. r # t BY <2>5 DEF Issue, Register, Sampled
    <3>2. who' = [who EXCEPT ![t] = u] /\ UNCHANGED data BY <2>5 DEF Issue, Register, Enqueue
    <3>. QED BY <2>1, <3>1, <3>2, Kinds DEF PlacesInv, data
  <2>6. ASSUME NEW q \in Reads, ReadStep(q)
        PROVE  who'[r] = who[r] /\ generation'[who[r]] = generation[who[r]] /\ lifecycle' = lifecycle
    BY <2>1, <2>6, ReadFrame DEF placed, data
  <2>7. ASSUME NEW w \in Writers, WriteStep(w)
        PROVE  who'[r] = who[r] /\ generation'[who[r]] = generation[who[r]] /\ lifecycle' = lifecycle
    <3>1. who' = who /\ who[r] \in Users BY <2>1, <2>7, WriteFrame, Kinds DEF placed, PlacesInv, Sampled
    <3>2. pc[w] \in {"fenced", "dirty"} => Key(w) \notin {who[r], Global} BY <2>1, Alone
    <3>3. ~UNCHANGED data => pc[w] \in {"fenced", "dirty"} BY <2>1, <2>7, DataMoves
    <3>4. /\ generation'[who[r]] # generation[who[r]] => w \in Switches /\ who[r] = who[w]
          /\ lifecycle' # lifecycle => w \in Lifecycles
      BY <2>1, <2>7, <3>1, DataMoves
    <3>5. /\ w \in Switches => Key(w) = who[w]
          /\ w \in Lifecycles => Key(w) = Global
      BY Kinds DEF Key
    <3>. QED BY <3>1, <3>2, <3>3, <3>4, <3>5 DEF data
  <2>. QED BY <2>3, <2>4, <2>5, <2>6, <2>7 DEF Next
<1>. QED BY <1>1, ReadsKeepTheirBooks, PTL DEF Spec, WindowFrozen
=============================================================================
