------------------------- MODULE ContextGateProofs -------------------------
(***************************************************************************)
(* Proofs about ContextGate, for every set of readers, writers and users.  *)
(*                                                                         *)
(* The inductive invariant adds to the properties what the code relies on  *)
(* without saying it: arrival numbers of registered tickets are distinct   *)
(* and at most self._seq, a ticket's user is unknown exactly while the     *)
(* request has arrived and not bound, and a request that has not started   *)
(* has an untouched ticket.                                                *)
(***************************************************************************)
EXTENDS ContextGate, TLAPS

\* Arrival numbers order the registered tickets strictly.
SeqOrder ==
  /\ \A t \in registered : ticketSeq[t] > 0 /\ ticketSeq[t] <= seq
  /\ \A s, t \in registered : s # t => ticketSeq[s] # ticketSeq[t]

\* What a ticket holds at each point of its request.
TicketState ==
  \A t \in Requests :
    /\ pc[t] = "outside" => ticketSeq[t] = 0 /\ user_id[t] = NoUser /\ t \notin timed_out
    /\ pc[t] = "arrived" => /\ t \in Readers
                            /\ user_id[t] = NoUser
    /\ pc[t] \in {"waiting", "saying", "holding"} => user_id[t] \in Users
    /\ pc[t] = "saying" => t \in timed_out

GateInv ==
  /\ TypeOK
  /\ NoGhostRegistration
  /\ SeqOrder
  /\ TicketState
  /\ NoLostWakeup
  /\ AdmittedInArrivalOrder


USE DisjointRequests, NoUserAssumption

\* The gate starts with no ticket out and nobody asleep.
LEMMA GateInit == Init => GateInv
  BY DEF Init, GateInv, TypeOK, NoGhostRegistration, SeqOrder, TicketState,
         NoLostWakeup, AdmittedInArrivalOrder, Requests, Location,
         Sleeping, Asleep

(***************************************************************************)
(* Half of the actions differ only in where the thread goes: those that    *)
(* take a ticket out and wake everybody, and those that touch no ticket.   *)
(* The first two lemmas treat each group once.                             *)
(***************************************************************************)
Leaves(t) ==
  /\ pc[t] \in {"arrived", "saying", "holding"}
  /\ Deregister(t)
  /\ \E l \in {"ungated", "finished"} : pc' = [pc EXCEPT ![t] = l]
  /\ UNCHANGED <<seq, ticketVars>>

Walks(t) ==
  /\ \E l \in Location :
       /\ <<pc[t], l>> \in {<<"saying", "holding">>, <<"outside", "ungated">>,
                            <<"ungated", "finished">>}
       /\ pc' = [pc EXCEPT ![t] = l]
  /\ UNCHANGED <<seq, registered, ticketVars, notified>>

\* Taking a ticket out can only unblock, and whoever sleeps is woken.
LEMMA GateLeaves == ASSUME GateInv, NEW t \in Requests, Leaves(t) PROVE GateInv'
<1> USE DEF GateInv, Requests, TypeOK, ticketVars, Asleep, Sleeping, Blocked, Blockers,
            ReaderBlockers, WriterBlockers, RegisteredReaders, RegisteredWriters,
            Leaves, Deregister, NotifyAll
<1>1. TypeOK'
  BY DEF Location, Sleeping
<1>2. NoGhostRegistration'
  BY DEF NoGhostRegistration
<1>3. SeqOrder'
  BY DEF NoGhostRegistration, SeqOrder
<1>4. TicketState'
  BY DEF TicketState
<1>5. NoLostWakeup'
  BY DEF NoLostWakeup, NoGhostRegistration, TicketState, SeqOrder
<1>6. AdmittedInArrivalOrder'
  BY DEF AdmittedInArrivalOrder, NoGhostRegistration, TicketState, SeqOrder
<1> QED
  BY <1>1, <1>2, <1>3, <1>4, <1>5, <1>6 DEF GateInv

\* A step that touches no ticket changes nobody's blockers.
LEMMA GateWalks == ASSUME GateInv, NEW t \in Requests, Walks(t) PROVE GateInv'
<1> USE DEF GateInv, Requests, TypeOK, ticketVars, Asleep, Sleeping, Blocked, Blockers,
            ReaderBlockers, WriterBlockers, RegisteredReaders, RegisteredWriters, Walks
<1>1. TypeOK'
  BY DEF Location, Sleeping
<1>2. NoGhostRegistration'
  BY DEF NoGhostRegistration
<1>3. SeqOrder'
  BY DEF NoGhostRegistration, SeqOrder
<1>4. TicketState'
  BY DEF TicketState
<1>5. NoLostWakeup'
  BY DEF NoLostWakeup, NoGhostRegistration, TicketState, SeqOrder
<1>6. AdmittedInArrivalOrder'
  BY DEF AdmittedInArrivalOrder, NoGhostRegistration, TicketState, SeqOrder
<1> QED
  BY <1>1, <1>2, <1>3, <1>4, <1>5, <1>6 DEF GateInv

\* A new reader is behind everybody, and blocks only later writers.
LEMMA GateArrives == ASSUME GateInv, NEW t \in Readers, Arrive(t) PROVE GateInv'
<1> USE DEF GateInv, Requests, TypeOK, ticketVars, Asleep, Sleeping, Blocked, Blockers,
            ReaderBlockers, WriterBlockers, RegisteredReaders, RegisteredWriters, Arrive
<1>1. TypeOK'
  BY DEF Location, Sleeping
<1>2. NoGhostRegistration'
  BY DEF NoGhostRegistration
<1>3. SeqOrder'
  BY DEF NoGhostRegistration, SeqOrder
<1>4. TicketState'
  BY DEF TicketState
<1>5. NoLostWakeup'
  BY DEF NoLostWakeup, NoGhostRegistration, TicketState, SeqOrder
<1>6. AdmittedInArrivalOrder'
  BY DEF AdmittedInArrivalOrder, NoGhostRegistration, TicketState, SeqOrder
<1> QED
  BY <1>1, <1>2, <1>3, <1>4, <1>5, <1>6 DEF GateInv

\* Binding narrows whom a reader blocks, and is announced.
LEMMA GateBinds == ASSUME GateInv, NEW t \in Readers, NEW u \in Users, Bind(t, u) PROVE GateInv'
<1> USE DEF GateInv, Requests, TypeOK, ticketVars, Asleep, Sleeping, Blocked, Blockers,
            ReaderBlockers, WriterBlockers, RegisteredReaders, RegisteredWriters,
            Bind, NotifyAll
<1>1. TypeOK'
  BY DEF Location, Sleeping
<1>2. NoGhostRegistration'
  BY DEF NoGhostRegistration
<1>3. SeqOrder'
  BY DEF NoGhostRegistration, SeqOrder
<1>4. TicketState'
  BY DEF TicketState
<1>5. NoLostWakeup'
  BY DEF NoLostWakeup, NoGhostRegistration, TicketState, SeqOrder
<1>6. AdmittedInArrivalOrder'
  BY DEF AdmittedInArrivalOrder, NoGhostRegistration, TicketState, SeqOrder
<1> QED
  BY <1>1, <1>2, <1>3, <1>4, <1>5, <1>6 DEF GateInv

\* A new writer is behind everybody.
LEMMA GateRegisters == ASSUME GateInv, NEW t \in Writers, NEW u \in Users, Register(t, u) PROVE GateInv'
<1> USE DEF GateInv, Requests, TypeOK, ticketVars, Asleep, Sleeping, Blocked, Blockers,
            ReaderBlockers, WriterBlockers, RegisteredReaders, RegisteredWriters, Register
<1>1. TypeOK'
  BY DEF Location, Sleeping
<1>2. NoGhostRegistration'
  BY DEF NoGhostRegistration
<1>3. SeqOrder'
  BY DEF NoGhostRegistration, SeqOrder
<1>4. TicketState'
  BY DEF TicketState
<1>5. NoLostWakeup'
  BY DEF NoLostWakeup, NoGhostRegistration, TicketState, SeqOrder
<1>6. AdmittedInArrivalOrder'
  BY DEF AdmittedInArrivalOrder, NoGhostRegistration, TicketState, SeqOrder
<1> QED
  BY <1>1, <1>2, <1>3, <1>4, <1>5, <1>6 DEF GateInv

\* A thread that stops waiting was unblocked or is marked as timed out.
LEMMA GateAwaits == ASSUME GateInv, NEW t \in Requests, Recheck(t) \/ Expire(t) PROVE GateInv'
<1> USE DEF GateInv, Requests, TypeOK, ticketVars, Asleep, Sleeping, Blocked, Blockers,
            ReaderBlockers, WriterBlockers, RegisteredReaders, RegisteredWriters,
            Recheck, Expire
<1>1. TypeOK'
  BY DEF Location, Sleeping
<1>2. NoGhostRegistration'
  BY DEF NoGhostRegistration
<1>3. SeqOrder'
  BY DEF NoGhostRegistration, SeqOrder
<1>4. TicketState'
  BY DEF TicketState
<1>5. NoLostWakeup'
  BY DEF NoLostWakeup, NoGhostRegistration, TicketState, SeqOrder
<1>6. AdmittedInArrivalOrder'
  BY DEF AdmittedInArrivalOrder, NoGhostRegistration, TicketState, SeqOrder
<1> QED
  BY <1>1, <1>2, <1>3, <1>4, <1>5, <1>6 DEF GateInv

\* Every step of the gate preserves its invariant.
LEMMA GateStep == GateInv /\ [Next]_vars => GateInv'
<1> SUFFICES ASSUME GateInv, [Next]_vars PROVE GateInv'
  OBVIOUS
<1>1. ASSUME NEW r \in Readers, ReaderStep(r) PROVE GateInv'
  <2>1. CASE Arrive(r)
    BY <2>1, GateArrives
  <2>2. CASE \E u \in Users : Bind(r, u)
    BY <2>2, GateBinds
  <2>3. CASE BindNoUser(r) \/ Refuse(r)
    <3>1. Leaves(r)
      BY <2>3 DEF BindNoUser, Refuse, Leaves
    <3> QED BY <3>1, GateLeaves DEF Requests
  <2> QED BY <1>1, <2>1, <2>2, <2>3 DEF ReaderStep
<1>2. ASSUME NEW w \in Writers, WriterStep(w) PROVE GateInv'
  <2>1. CASE \E u \in Users : Register(w, u)
    BY <2>1, GateRegisters
  <2>2. CASE RegisterNoUser(w)
    <3>1. Walks(w)
      BY <2>2 DEF RegisterNoUser, Walks, Location
    <3> QED BY <3>1, GateWalks DEF Requests
  <2> QED BY <1>2, <2>1, <2>2 DEF WriterStep
<1>3. ASSUME NEW t \in Requests, HolderStep(t) PROVE GateInv'
  <2>1. CASE Recheck(t) \/ Expire(t)
    BY <2>1, GateAwaits
  <2>2. CASE Say(t) \/ LeaveUngated(t)
    <3>1. Walks(t)
      BY <2>2 DEF Say, LeaveUngated, Walks, Location
    <3> QED BY <3>1, GateWalks
  <2>3. CASE SayRaises(t) \/ Release(t)
    <3>1. Leaves(t)
      BY <2>3 DEF SayRaises, Release, Leaves
    <3> QED BY <3>1, GateLeaves
  <2> QED BY <1>3, <2>1, <2>2, <2>3 DEF HolderStep
<1>4. CASE UNCHANGED vars
  BY <1>4 DEF vars, ticketVars, GateInv, TypeOK, NoGhostRegistration, SeqOrder,
         TicketState, NoLostWakeup, AdmittedInArrivalOrder, Asleep, Sleeping, Blocked,
         Blockers, ReaderBlockers, WriterBlockers, RegisteredReaders, RegisteredWriters
<1> QED
  BY <1>1, <1>2, <1>3, <1>4 DEF Next

\* GateInv holds in every reachable state.
THEOREM GateInvariant == Spec => []GateInv
<1>1. Init => GateInv
  BY GateInit
<1>2. GateInv /\ [Next]_vars => GateInv'
  BY GateStep
<1> QED
  BY <1>1, <1>2, PTL DEF Spec

\* Type correctness of the gate.
THEOREM GateTypeOK == Spec => []TypeOK
<1>1. GateInv => TypeOK
  BY DEF GateInv
<1> QED
  BY <1>1, GateInvariant, PTL

\* No thread sleeps in wait_for unless something it must wait for is still
\* registered: every narrowing and every removal is announced.
THEOREM GateNoLostWakeup == Spec => []NoLostWakeup
<1>1. GateInv => NoLostWakeup
  BY DEF GateInv
<1> QED
  BY <1>1, GateInvariant, PTL

\* No registration outlives its request.
THEOREM GateNoGhost == Spec => []NoGhostRegistration
<1>1. GateInv => NoGhostRegistration
  BY DEF GateInv
<1> QED
  BY <1>1, GateInvariant, PTL

\* Admission follows arrival.
THEOREM GateArrivalOrder == Spec => []AdmittedInArrivalOrder
<1>1. GateInv => AdmittedInArrivalOrder
  BY DEF GateInv
<1> QED
  BY <1>1, GateInvariant, PTL

\* A commit and a scoped read of one user overlap only when the later of the
\* two has run out its bound.
THEOREM GateSharedExclusive == Spec => []SharedExclusive
<1>1. GateInv => SharedExclusive
  <2> SUFFICES ASSUME GateInv,
                      NEW w \in Writers, NEW t \in Requests,
                      w # t, pc[w] = "holding", pc[t] = "holding",
                      user_id[w] = user_id[t]
               PROVE  IF ticketSeq[w] < ticketSeq[t] THEN t \in timed_out
                                                     ELSE w \in timed_out
    BY DEF SharedExclusive
  <2>1. w \in registered /\ t \in registered
    BY DEF GateInv, NoGhostRegistration, Requests
  <2>2. ticketSeq[w] \in Nat /\ ticketSeq[t] \in Nat /\ ticketSeq[w] # ticketSeq[t]
    BY <2>1 DEF GateInv, TypeOK, SeqOrder, Requests
  <2>3. CASE ticketSeq[w] < ticketSeq[t]
    <3>1. w \in Blockers(t)
      BY <2>1, <2>3 DEF Blockers, ReaderBlockers, WriterBlockers, RegisteredWriters, Requests
    <3> QED
      BY <2>3, <3>1 DEF GateInv, AdmittedInArrivalOrder
  <2>4. CASE ticketSeq[t] < ticketSeq[w]
    <3>1. t \in Blockers(w)
      BY <2>1, <2>4 DEF Blockers, WriterBlockers, RegisteredWriters, RegisteredReaders, Requests
    <3> QED
      BY <2>2, <2>4, <3>1 DEF GateInv, AdmittedInArrivalOrder, Requests
  <2> QED
    BY <2>2, <2>3, <2>4
<1> QED
  BY <1>1, GateInvariant, PTL

\* The gate's promises together.
THEOREM GateIsSound == Spec => []GateSound
<1>1. TypeOK /\ NoGhostRegistration /\ NoLostWakeup /\ AdmittedInArrivalOrder
        /\ SharedExclusive => GateSound
  BY DEF GateSound
<1> QED
  BY <1>1, GateTypeOK, GateNoGhost, GateNoLostWakeup, GateArrivalOrder,
     GateSharedExclusive, PTL

\* What a waiting request waits for was there when it registered: later
\* arrivals, whoever's they are, never extend its wait.
THEOREM GateBlockersShrink == Spec => BlockersOnlyShrink
<1> DEFINE Shrink == \A t \in Requests :
      pc[t] = "waiting" /\ pc'[t] = "waiting" => Blockers(t)' \subseteq Blockers(t)
<1>1. ASSUME GateInv, [Next]_vars PROVE Shrink
  <2> SUFFICES ASSUME NEW t \in Requests, pc[t] = "waiting", pc'[t] = "waiting",
                      NEW o \in Blockers(t)'
               PROVE  o \in Blockers(t)
    OBVIOUS
  <2>1. /\ t \in registered /\ ticketSeq[t] \in Nat /\ ticketSeq[t] <= seq
        /\ registered \subseteq Requests /\ seq \in Nat
        /\ pc \in [Requests -> Location] /\ ticketSeq \in [Requests -> Nat]
        /\ user_id \in [Requests -> Users \cup {NoUser}]
    BY <1>1 DEF GateInv, TypeOK, NoGhostRegistration, SeqOrder
  <2>2. user_id'[t] = user_id[t] /\ ticketSeq'[t] = ticketSeq[t]
    BY <1>1, <2>1 DEF Next, ReaderStep, WriterStep, HolderStep, Arrive, Bind, BindNoUser,
         Refuse, Register, RegisterNoUser, Recheck, Expire, Say, SayRaises, Release,
         LeaveUngated, Deregister, ticketVars, vars, Requests
  <2>3. /\ o \in registered' => o \in registered \/ ticketSeq'[o] > ticketSeq[t]
        /\ o \in registered => ticketSeq'[o] = ticketSeq[o]
        /\ o \in registered => user_id'[o] = user_id[o] \/ (o \in Readers /\ user_id[o] = NoUser)
    BY <1>1, <2>1 DEF Next, ReaderStep, WriterStep, HolderStep, Arrive, Bind, BindNoUser,
         Refuse, Register, RegisterNoUser, Recheck, Expire, Say, SayRaises, Release,
         LeaveUngated, Deregister, ticketVars, vars, Requests, GateInv,
         NoGhostRegistration, TicketState
  <2>4. o \in registered' /\ ticketSeq'[o] < ticketSeq[t]
    BY <2>2 DEF Blockers, ReaderBlockers, WriterBlockers, RegisteredReaders, RegisteredWriters
  <2>5. o \in registered /\ ticketSeq[o] < ticketSeq[t]
    <3>1. ticketSeq'[o] \in Nat
      BY <1>1, <2>4, GateStep DEF GateInv, TypeOK
    <3>2. o \in registered
      BY <2>1, <2>3, <2>4, <3>1
    <3> QED BY <2>3, <2>4, <3>2
  <2> QED
    BY <2>2, <2>3, <2>5
       DEF Blockers, ReaderBlockers, WriterBlockers, RegisteredReaders, RegisteredWriters
<1>2. Spec => [][Shrink]_vars
  BY <1>1, GateInvariant, PTL DEF Spec
<1> QED
  BY <1>2 DEF BlockersOnlyShrink
=============================================================================
