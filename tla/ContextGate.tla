---------------------------- MODULE ContextGate ----------------------------
(***************************************************************************)
(* services/context_gate.py: ContextSwitchGate, the per-user               *)
(* shared/exclusive gate that orders scoped reads (readers) against        *)
(* context switches (writers) by arrival at the server.                    *)
(*                                                                         *)
(* One element of Readers is one scoped GET request, from do_GET to the    *)
(* end of its handler; one element of Writers is one `with exclusive(u)`   *)
(* block.  Every critical section under the condition variable self._cv is *)
(* one action; what the code does between two critical sections (resolve   *)
(* the identity, print the expiry notice, run the service call) separates  *)
(* the actions.                                                            *)
(***************************************************************************)
EXTENDS Naturals

CONSTANTS
  Readers,      \* scoped-read requests
  Writers,      \* switches
  Users,        \* the real, truthy user ids
  NoUser,       \* the unbound ticket's None, and the falsy id of a demo caller
  FocusUser     \* the operator FocusUserAdmitted is about

ASSUME DisjointRequests == Readers \cap Writers = {}
ASSUME NoUserAssumption == NoUser \notin Users

Requests == Readers \cup Writers

VARIABLES
  seq,          \* self._seq
  registered,   \* the requests whose ticket is in self._readers / self._writers
  ticketSeq,    \* request -> its _Ticket's seq (0: it has none yet)
  user_id,      \* request -> its _Ticket's user_id
  timed_out,    \* the requests whose _Ticket has timed_out set
  pc,           \* where the request's thread is
  notified      \* sleeping threads a notify_all has woken and that have not run yet

ticketVars == <<ticketSeq, user_id, timed_out>>

vars == <<seq, registered, ticketVars, pc, notified>>

(***************************************************************************)
(* Where a thread is:                                                      *)
(*   outside   not yet in do_GET / exclusive                               *)
(*   arrived   a reader holding an unbound ticket, identity not resolved   *)
(*   waiting   inside wait_for                                             *)
(*   saying    the wait expired; the notice is not printed yet             *)
(*   holding   admitted: the service call, or the commit, is running       *)
(*   ungated   a falsy user id: runs without any registration              *)
(*   finished  the with block / handler has been left                      *)
(***************************************************************************)
Location == {"outside", "arrived", "waiting", "saying", "holding", "ungated",
             "finished"}

RegisteredReaders == registered \cap Readers
RegisteredWriters == registered \cap Writers
Asleep(t) == pc[t] = "waiting" /\ t \notin notified

(***************************************************************************)
(* A definition named X_... is a seeded mistake in X.  No definition uses  *)
(* it; putting it in X's place is how a property is shown to be able to    *)
(* fail.                                                                   *)
(***************************************************************************)
ReaderBlockers_AnyOrder(t, u) == {w \in RegisteredWriters : user_id[w] = u}

\* The tickets `blocked()` of reader t, bound to user u, counts.
ReaderBlockers(t, u) ==
  {w \in RegisteredWriters : /\ user_id[w] = u
                             /\ ticketSeq[w] < ticketSeq[t]}

\* The tickets `blocked()` of writer t, with sequence number s, counts: the
\* unbound arrivals and u's own readers before it, and u's earlier writers.
WriterBlockers(t, u, s) ==
  {r \in RegisteredReaders : /\ ticketSeq[r] < s
                             /\ user_id[r] \in {NoUser, u}}
  \cup
  {w \in RegisteredWriters : /\ w # t
                             /\ user_id[w] = u
                             /\ ticketSeq[w] < s}

Blockers(t) ==
  IF t \in Readers THEN ReaderBlockers(t, user_id[t])
                   ELSE WriterBlockers(t, user_id[t], ticketSeq[t])

Blocked(t) == Blockers(t) # {}

\* self._cv.notify_all(): every thread inside wait() is made runnable.
NotifyAll(sleepers) == notified' = notified \cup sleepers

Sleeping == {t \in Requests : pc[t] = "waiting"}

-----------------------------------------------------------------------------

Init ==
  /\ seq = 0
  /\ registered = {}
  /\ ticketSeq = [t \in Requests |-> 0]
  /\ user_id = [t \in Requests |-> NoUser]
  /\ timed_out = {}
  /\ pc = [t \in Requests |-> "outside"]
  /\ notified = {}

\* arrive(): an unbound ticket, never a wait.
Arrive(r) ==
  /\ pc[r] = "outside"
  /\ seq' = seq + 1
  /\ ticketSeq' = [ticketSeq EXCEPT ![r] = seq + 1]
  /\ registered' = registered \cup {r}
  /\ pc' = [pc EXCEPT ![r] = "arrived"]
  /\ UNCHANGED <<user_id, timed_out, notified>>

Bind_Unannounced(r, u) ==
  /\ pc[r] = "arrived"
  /\ user_id' = [user_id EXCEPT ![r] = u]
  /\ pc' = [pc EXCEPT ![r] = IF ReaderBlockers(r, u) = {} THEN "holding"
                                                          ELSE "waiting"]
  /\ UNCHANGED <<seq, registered, ticketSeq, timed_out, notified>>

\* _bind(): the narrowing is announced before the ticket's own predicate is
\* tried, so a writer of another user is woken whether or not r must wait.
Bind(r, u) ==
  /\ pc[r] = "arrived"
  /\ user_id' = [user_id EXCEPT ![r] = u]
  /\ NotifyAll(Sleeping)
  /\ pc' = [pc EXCEPT ![r] = IF ReaderBlockers(r, u) = {} THEN "holding"
                                                          ELSE "waiting"]
  /\ UNCHANGED <<seq, registered, ticketSeq, timed_out>>

\* Removing a registration: pop and notify_all.
Deregister(t) ==
  /\ registered' = registered \ {t}
  /\ NotifyAll(Sleeping)

\* bind() with a falsy user id: the ticket is released, the body runs ungated.
BindNoUser(r) ==
  /\ pc[r] = "arrived"
  /\ Deregister(r)
  /\ pc' = [pc EXCEPT ![r] = "ungated"]
  /\ UNCHANGED <<seq, ticketVars>>

\* The request is refused before any branch binds: do_GET's finally releases.
Refuse(r) ==
  /\ pc[r] = "arrived"
  /\ Deregister(r)
  /\ pc' = [pc EXCEPT ![r] = "finished"]
  /\ UNCHANGED <<seq, ticketVars>>

\* exclusive(): the writer's ticket enters with its user already known.
Register(w, u) ==
  /\ pc[w] = "outside"
  /\ seq' = seq + 1
  /\ ticketSeq' = [ticketSeq EXCEPT ![w] = seq + 1]
  /\ user_id' = [user_id EXCEPT ![w] = u]
  /\ registered' = registered \cup {w}
  /\ pc' = [pc EXCEPT ![w] = IF WriterBlockers(w, u, seq + 1) = {} THEN "holding"
                                                                ELSE "waiting"]
  /\ UNCHANGED <<timed_out, notified>>

\* exclusive() with a falsy user id takes nothing.
RegisterNoUser(w) ==
  /\ pc[w] = "outside"
  /\ pc' = [pc EXCEPT ![w] = "ungated"]
  /\ UNCHANGED <<seq, registered, ticketVars, notified>>

\* A woken thread re-evaluates its predicate inside wait_for.
Recheck(t) ==
  /\ pc[t] = "waiting"
  /\ t \in notified
  /\ notified' = notified \ {t}
  /\ pc' = [pc EXCEPT ![t] = IF Blocked(t) THEN "waiting" ELSE "holding"]
  /\ UNCHANGED <<seq, registered, ticketVars>>

\* The deadline passes: wait_for evaluates the predicate one last time and the
\* thread proceeds whatever it answers.
Expire(t) ==
  /\ pc[t] = "waiting"
  /\ notified' = notified \ {t}
  /\ timed_out' = IF Blocked(t) THEN timed_out \cup {t} ELSE timed_out
  /\ pc' = [pc EXCEPT ![t] = IF Blocked(t) THEN "saying" ELSE "holding"]
  /\ UNCHANGED <<seq, registered, ticketSeq, user_id>>

\* _say(): the notice is written outside the mutex ...
Say(t) ==
  /\ pc[t] = "saying"
  /\ pc' = [pc EXCEPT ![t] = "holding"]
  /\ UNCHANGED <<seq, registered, ticketVars, notified>>

\* ... and when that write raises, the except / finally removes the ticket.
SayRaises(t) ==
  /\ pc[t] = "saying"
  /\ Deregister(t)
  /\ pc' = [pc EXCEPT ![t] = "finished"]
  /\ UNCHANGED <<seq, ticketVars>>

\* Leaving the with block, whether the body returned or raised.
Release(t) ==
  /\ pc[t] = "holding"
  /\ Deregister(t)
  /\ pc' = [pc EXCEPT ![t] = "finished"]
  /\ UNCHANGED <<seq, ticketVars>>

\* The body of a request with no identity ends; a reader's outer release finds
\* nothing to pop and wakes nobody.
LeaveUngated(t) ==
  /\ pc[t] = "ungated"
  /\ pc' = [pc EXCEPT ![t] = "finished"]
  /\ UNCHANGED <<seq, registered, ticketVars, notified>>

ReaderStep(r) ==
  \/ Arrive(r)
  \/ \E u \in Users : Bind(r, u)
  \/ BindNoUser(r)
  \/ Refuse(r)

WriterStep(w) ==
  \/ \E u \in Users : Register(w, u)
  \/ RegisterNoUser(w)

HolderStep(t) ==
  \/ Recheck(t)
  \/ Expire(t)
  \/ Say(t)
  \/ SayRaises(t)
  \/ Release(t)
  \/ LeaveUngated(t)

Next ==
  \/ \E r \in Readers : ReaderStep(r)
  \/ \E w \in Writers : WriterStep(w)
  \/ \E t \in Requests : HolderStep(t)

Spec == Init /\ [][Next]_vars

-----------------------------------------------------------------------------
(***************************************************************************)
(* Properties.                                                             *)
(***************************************************************************)

TypeOK ==
  /\ seq \in Nat
  /\ registered \subseteq Requests
  /\ ticketSeq \in [Requests -> Nat]
  /\ user_id \in [Requests -> Users \cup {NoUser}]
  /\ timed_out \subseteq Requests
  /\ pc \in [Requests -> Location]
  /\ notified \subseteq Sleeping

\* A registration never outlives its request: exactly the requests between
\* their arrival and the end of their hold are counted by the wait predicates,
\* on every exit path (release, refusal, a notice that cannot be written).
\* A ghost in _readers or _writers would make every later participant of that
\* user wait out the whole bound.
NoGhostRegistration ==
  registered = {t \in Requests : pc[t] \in {"arrived", "waiting", "saying", "holding"}}

\* No wake-up is lost: a thread asleep in wait_for that nobody has notified is
\* still blocked.  Without it a request sits out its timeout behind nobody and
\* stats() stays healthy, because wait_for finds the predicate true at its
\* deadline.
NoLostWakeup ==
  \A t \in Requests : Asleep(t) => Blocked(t)

\* The order of admission is the order of arrival: a request that was admitted
\* without its bound expiring has nobody before it that it had to wait for, and
\* nobody can slip in there later (not even a reader whose identity is resolved
\* only now).
AdmittedInArrivalOrder ==
  \A t \in Requests : pc[t] = "holding" /\ t \notin timed_out => Blockers(t) = {}

\* Shared/exclusive: a switch's commit never overlaps a scoped read, or another
\* switch, of the same user, unless the later of the two ran out its bound.
SharedExclusive ==
  \A w \in Writers, t \in Requests :
    /\ w # t
    /\ pc[w] = "holding" /\ pc[t] = "holding"
    /\ user_id[w] = user_id[t]
    => IF ticketSeq[w] < ticketSeq[t] THEN t \in timed_out
                                        ELSE w \in timed_out

\* The gate keeps its promises to every request in every order: it forgets
\* those that left, wakes those it may admit, admits in order of arrival, and
\* keeps a switch apart from the reads of the same operator.
GateSound ==
  /\ TypeOK
  /\ NoGhostRegistration
  /\ NoLostWakeup
  /\ AdmittedInArrivalOrder
  /\ SharedExclusive

\* Starvation is bounded: the set a sleeping request waits for was fixed when it
\* registered and can only shrink; no stream of later arrivals extends a wait.
BlockersOnlyShrink ==
  [][\A t \in Requests :
       pc[t] = "waiting" /\ pc'[t] = "waiting" => Blockers(t)' \subseteq Blockers(t)]_vars

(***************************************************************************)
(* Liveness for one operator u.  Threads run: every woken thread re-tries  *)
(* its predicate, every arrived request resolves its identity (one session *)
(* lookup) and every notice is written.  Of the service calls and commits, *)
(* only u's own are assumed to end: another operator's read or switch may  *)
(* take forever.  No deadline is assumed to pass.                          *)
(***************************************************************************)
Resolve(r) == (\E u \in Users : Bind(r, u)) \/ BindNoUser(r) \/ Refuse(r)

OwnTrafficFairness(u) ==
  /\ \A r \in Readers : WF_vars(Resolve(r))
  /\ \A t \in Requests : /\ WF_vars(Recheck(t))
                         /\ WF_vars(Say(t) \/ SayRaises(t))
                         /\ WF_vars(Release(t) /\ user_id[t] = u)

\* One operator's switch or read is not stalled by another operator's: it is
\* admitted without its own bound having to expire first.
OwnTrafficAdmits(u) ==
  \A t \in Requests :
    pc[t] = "waiting" /\ user_id[t] = u ~> pc[t] # "waiting"

LiveSpec == Spec /\ OwnTrafficFairness(FocusUser)
FocusUserAdmitted == OwnTrafficAdmits(FocusUser)
=============================================================================
