------------------------------- MODULE Delivery --------------------------------
(***************************************************************************)
(* The queue of outgoing notifications: services/notifier.py and           *)
(* delivery.py, and the operators' calls of api/service.py on it.          *)
(*                                                                         *)
(* A row is one notification to one recipient on one channel.  A drain     *)
(* (the manual endpoint or the background loop) takes its process's lock,  *)
(* reads a batch, and row by row resolves the destination, sends, and      *)
(* saves the whole row as it read it.  Its statements run in no common     *)
(* transaction; an operator's call is one, and excludes them while it      *)
(* runs, within a process.                                                 *)
(*                                                                         *)
(* A definition named X_... is a seeded mistake in X.                      *)
(***************************************************************************)
EXTENDS Naturals, FiniteSets

CONSTANTS
  Notifications,   \* a set of numbers, the order of the ids
  Recipients,      \* a player and the guardians linked to the player: numbers,
                   \* in the order a notification's rows get their ids
  Player,
  Drains, Loops,   \* threads that may drain the queue, background loops
  ProcessOf,       \* drain -> its process
  Addresses,       \* destinations that may be registered
  Placeholder,
  MaxAttempts, Batch,
  MaxTrouble       \* bound: stops, lost answers and operators' calls

\* Assumed by the modules that give the constants their values.
DeliveryAssumption ==
  /\ Notifications \cup Recipients \subseteq Nat
  /\ Player \in Recipients /\ \A r \in Recipients : Player <= r
  /\ Loops \subseteq Drains
  /\ Placeholder \notin Addresses
  /\ {MaxAttempts, Batch} \subseteq Nat \ {0}

VARIABLES
  stored,      \* row -> [status, attempts] or NoRow
  contact,     \* recipient -> [destination, active]
  optedOut,    \* recipients that disabled the channel
  verified,    \* guardians whose link is verified
  drain,       \* drain -> the batch it works through
  reached,     \* row -> times its message reached the recipient
  trouble

deliveryVars == <<stored, contact, optedOut, verified, drain, reached, trouble>>

Rows == Notifications \X Recipients
NoRow == [status |-> "none", attempts |-> 0]
RowOf(status, attempts) == [status |-> status, attempts |-> attempts]

\* resolve_destination: an active contact, else the placeholder.
Resolved(r) == IF contact[r].active THEN contact[r].destination ELSE Placeholder

\* pending_deliveries, in the order of the ids.
Deliverable(d) ==
  \/ stored[d].status = "pending"
  \/ stored[d].status = "failed" /\ stored[d].attempts < MaxAttempts
Precedes(d, e) == d[1] < e[1] \/ (d[1] = e[1] /\ d[2] < e[2])
FirstOf(rows) == {d \in rows : Cardinality({e \in rows : Precedes(e, d)}) < Batch}

Resting == [stage |-> "rest",
            rows |-> {},           \* what is left of the batch
            read |-> NoRow,        \* the row in hand as the batch read it
            copies |-> [d \in {} |-> NoRow],
            to |-> Placeholder]
Put(w, record) == drain' = [drain EXCEPT ![w] = record]
QueueUnchanged == UNCHANGED <<contact, optedOut, verified>>

-----------------------------------------------------------------------------
(* Notifications, contacts and preferences.                                *)

\* push and enqueue, in the transaction of the change that is reported: the
\* player's verified guardians too, and no row on a channel opted out of.
Notified == {r \in Recipients : (r = Player \/ r \in verified) /\ r \notin optedOut}
Notify(n) ==
  /\ \A r \in Recipients : stored[<<n, r>>] = NoRow /\ \A m \in Notifications :
       m < n => \E q \in Recipients : stored[<<m, q>>] # NoRow
  /\ Notified # {}
  /\ stored' = [d \in Rows |->
       IF d[1] = n /\ d[2] \in Notified THEN RowOf("pending", 0) ELSE stored[d]]
  /\ UNCHANGED <<drain, reached, trouble>> /\ QueueUnchanged

ChangeContact(r, c) ==
  /\ trouble < MaxTrouble /\ trouble' = trouble + 1 /\ c # contact[r]
  /\ contact' = [contact EXCEPT ![r] = c]
  /\ UNCHANGED <<stored, optedOut, verified, drain, reached>>
\* set_contact_destination leaves a retired contact retired.
SetContact(r, a) == ChangeContact(r,
  [destination |-> a, active |-> contact[r].active \/ contact[r].destination = Placeholder])
\* set_contact_destination_active
SetContactActive(r, on) ==
  /\ r = Player /\ contact[r].destination # Placeholder
  /\ ChangeContact(r, [contact[r] EXCEPT !.active = on])
\* set_notification_preference; verify_link
SetPreference(r, on) ==
  /\ r \in optedOut <=> on
  /\ optedOut' = IF on THEN optedOut \ {r} ELSE optedOut \cup {r}
  /\ trouble < MaxTrouble /\ trouble' = trouble + 1
  /\ UNCHANGED <<stored, contact, verified, drain, reached>>
VerifyLink(r) ==
  /\ r \notin verified \cup {Player} /\ verified' = verified \cup {r}
  /\ UNCHANGED <<stored, contact, optedOut, drain, reached, trouble>>

-----------------------------------------------------------------------------
(* DeliveryWorker.process_pending                                          *)

Working(w) == drain[w].stage # "rest"
\* _process_lock
LockFree_Thread(w) == TRUE
LockFree(w) == \A v \in Drains : ProcessOf[v] = ProcessOf[w] => ~Working(v)
Queue == {d \in Rows : Deliverable(d)}
Drain(w) ==
  LET batch == FirstOf(Queue) IN
  /\ ~Working(w) /\ LockFree(w) /\ Queue # {}
  /\ Put(w, [Resting EXCEPT !.stage = "resolve", !.rows = batch,
               !.copies = [d \in batch |-> stored[d]]])
  /\ UNCHANGED <<stored, reached, trouble>> /\ QueueUnchanged

Row(w) == CHOOSE d \in drain[w].rows : \A e \in drain[w].rows \ {d} : Precedes(d, e)
\* _resolve_and_audit_destination: one read, and the attempt is counted.
Counted_Never(copy) == copy
Counted(copy) == [copy EXCEPT !.attempts = @ + 1]
Resolve(w) ==
  /\ drain[w].stage = "resolve"
  /\ Put(w, [drain[w] EXCEPT !.stage = "send", !.to = Resolved(Row(w)[2]),
               !.read = Counted(drain[w].copies[Row(w)])])
  /\ UNCHANGED <<stored, reached, trouble>> /\ QueueUnchanged

\* sender: the live transports refuse a placeholder; any exception is a
\* failure, one raised after the message got through as well.
Sent(w) == RowOf("sent", drain[w].read.attempts)
Failed(w) == RowOf(IF drain[w].read.attempts >= MaxAttempts THEN "dead_lettered" ELSE "failed",
                   drain[w].read.attempts)
Try(w, arrives, answered) ==
  /\ drain[w].stage = "send"
  /\ arrives => drain[w].to # Placeholder
  /\ reached' = [reached EXCEPT ![Row(w)] = @ + IF arrives THEN 1 ELSE 0]
  /\ Put(w, [drain[w] EXCEPT !.stage = "save",
               !.read = IF arrives /\ answered THEN Sent(w) ELSE Failed(w)])
  /\ UNCHANGED stored /\ QueueUnchanged
Send(w) == Try(w, TRUE, TRUE) /\ UNCHANGED trouble
SendFails(w) == Try(w, FALSE, TRUE) /\ UNCHANGED trouble
AnswerLost(w) == trouble < MaxTrouble /\ trouble' = trouble + 1 /\ Try(w, TRUE, FALSE)

\* save_notification_delivery, the whole row; then the next one.
Save(w) ==
  /\ drain[w].stage = "save"
  /\ stored' = [stored EXCEPT ![Row(w)] = drain[w].read]
  /\ Put(w, IF drain[w].rows = {Row(w)} THEN Resting
            ELSE [drain[w] EXCEPT !.stage = "resolve", !.rows = @ \ {Row(w)}, !.read = NoRow, !.to = Placeholder])
  /\ UNCHANGED <<reached, trouble>> /\ QueueUnchanged

\* The process stops, or a statement (a read, the audit, the save) raises and
\* the loop swallows it: what was sent is not recorded.
Stop(w) ==
  /\ Working(w) /\ trouble < MaxTrouble /\ trouble' = trouble + 1
  /\ Put(w, Resting)
  /\ UNCHANGED <<stored, reached>> /\ QueueUnchanged

-----------------------------------------------------------------------------
(* The operators' calls, each one transaction of the drains' own process.  *)

Decide(d, row) ==
  /\ stored[d].status \notin {"none", "sent"}
  /\ trouble < MaxTrouble /\ trouble' = trouble + 1
  /\ stored' = [stored EXCEPT ![d] = row]
  /\ UNCHANGED <<drain, reached>> /\ QueueUnchanged
RetryDelivery(d) == Decide(d, RowOf("pending", 0))
Ignore(d) == Decide(d, RowOf("ignored", stored[d].attempts))

-----------------------------------------------------------------------------

DeliveryInit ==
  /\ stored = [d \in Rows |-> NoRow]
  /\ contact = [r \in Recipients |-> [destination |-> Placeholder, active |-> FALSE]]
  /\ optedOut = {} /\ verified = {}
  /\ drain = [w \in Drains |-> Resting]
  /\ reached = [d \in Rows |-> 0] /\ trouble = 0

WorkerStep(w) == Resolve(w) \/ Send(w) \/ SendFails(w) \/ Save(w)
DeliveryNext ==
  \/ \E n \in Notifications : Notify(n)
  \/ \E r \in Recipients :
       \/ \E a \in Addresses : SetContact(r, a)
       \/ \E on \in BOOLEAN : SetContactActive(r, on) \/ SetPreference(r, on)
       \/ VerifyLink(r)
  \/ \E w \in Drains : Drain(w) \/ WorkerStep(w) \/ AnswerLost(w) \/ Stop(w)
  \/ \E d \in Rows : RetryDelivery(d) \/ Ignore(d)

\* A drain under way goes on; the background loop runs again after its
\* interval, whatever happened to the last batch.
DeliveryFairness ==
  /\ \A w \in Drains : WF_deliveryVars(WorkerStep(w))
  /\ \A w \in Loops : WF_deliveryVars(Drain(w))
DeliverySpec == DeliveryInit /\ [][DeliveryNext]_deliveryVars /\ DeliveryFairness

-----------------------------------------------------------------------------
(* Properties.                                                             *)

\* A message the queue already shows as sent does not reach its recipient
\* again, whoever drains the queue, and that row stays as it is.  (One that
\* reached the recipient unrecorded is sent again.)
NoResendStep == \A d \in Rows : stored[d].status = "sent" =>
  reached'[d] = reached[d] /\ stored'[d] = stored[d]
NoResend == [][NoResendStep]_deliveryVars

\* Every message comes to an end, in a bounded number of attempts and however
\* many rows queue before it: sent, dead-lettered or ignored.
Settles == \A d \in Rows : stored[d].status # "none" ~>
  stored[d].status \in {"sent", "dead_lettered", "ignored"}

\* api/service.py: an ignored delivery is never retried by the worker.
IgnoredUnsentStep == \A d \in Rows : stored[d].status = "ignored" => reached'[d] = reached[d]
IgnoredUnsent == [][IgnoredUnsentStep]_deliveryVars
================================================================================
