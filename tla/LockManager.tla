---------------------------- MODULE LockManager ----------------------------
(***************************************************************************)
(* The table locks of txn/lock_manager.py: shared and exclusive locks, a   *)
(* queue in order of arrival, deadlock detection on the wait-for graph and *)
(* a fixed deadline per wait.                                              *)
(*                                                                         *)
(* All of the manager's state is guarded by one threading.Condition, so an *)
(* action is the code a thread runs between taking that lock and giving it *)
(* up, either by leaving the method or inside Condition.wait().            *)
(***************************************************************************)

CONSTANTS Transaction,  \* the transactions alive at once (one thread each)
          Resource      \* the lockable names: the tables

Mode == {"shared", "exclusive"}
None == "none"

Request == [resource : Resource, mode : Mode]
NoRequest == [resource |-> None, mode |-> None]

ASSUME NoneIsNotAResource == None \notin Resource

VARIABLES
  holders,   \* _holders: what each transaction holds of each resource
  waiting,   \* _waiting: the request each transaction waits for
  earlier,   \* the order of the turns: who was already waiting when one arrived
  asleep,    \* the threads inside Condition.wait() that nobody has notified
  expired,   \* the waiting threads whose deadline has passed
  outcome    \* how the transaction's last acquire ended

vars == <<holders, waiting, earlier, asleep, expired, outcome>>

Outcome == {"granted", "deadlock", "timeout"}

\* Only a thread that waits sleeps or has a deadline, and none waits after a
\* LockError.
TypeOK ==
  /\ holders \in [Resource -> [Transaction -> Mode \cup {None}]]
  /\ waiting \in [Transaction -> Request \cup {NoRequest}]
  /\ earlier \in [Transaction -> SUBSET Transaction]
  /\ asleep \in SUBSET Transaction
  /\ expired \in SUBSET Transaction
  /\ outcome \in [Transaction -> Outcome]
  /\ \A t \in asleep \cup expired : waiting[t] # NoRequest
  /\ \A t \in Transaction : outcome[t] # "granted" => waiting[t] = NoRequest

Init ==
  /\ holders = [r \in Resource |-> [t \in Transaction |-> None]]
  /\ waiting = [t \in Transaction |-> NoRequest]
  /\ earlier = [t \in Transaction |-> {}]
  /\ asleep = {}
  /\ expired = {}
  /\ outcome = [t \in Transaction |-> "granted"]

-----------------------------------------------------------------------------
(* The wait-for graph. It is read both as it stands and, inside acquire,   *)
(* with the caller's request already queued, so its two parts are          *)
(* parameters: w, who waits for what, and e, who arrived before whom.      *)

\* Mutant: an exclusive holder does not stop a reader.
ConflictIfWriting(requested, other) == requested = "exclusive"

Conflict(requested, other) == requested = "exclusive" \/ other = "exclusive"

Waiters == {t \in Transaction : waiting[t] # NoRequest}

ConflictingHolders(w, t) ==
  {h \in Transaction \ {t} :
     /\ holders[w[t].resource][h] # None
     /\ Conflict(w[t].mode, holders[w[t].resource][h])}

\* Mutant: the turns are not compared, so two waiters wait for each other.
QueueOfAnyTurn(w, e, t) ==
  {o \in Transaction \ {t} :
     /\ w[o] # NoRequest
     /\ w[o].resource = w[t].resource
     /\ Conflict(w[t].mode, w[o].mode)}

\* Mutant: only a reader queues, behind the writers; a writer queues behind nobody.
QueueForReadersOnly(w, e, t) ==
  {o \in e[t] \ {t} :
     /\ w[o] # NoRequest
     /\ w[o].resource = w[t].resource
     /\ w[t].mode = "shared"
     /\ w[o].mode = "exclusive"}

QueueBefore(w, e, t) ==
  {o \in e[t] \ {t} :
     /\ w[o] # NoRequest
     /\ w[o].resource = w[t].resource
     /\ Conflict(w[t].mode, w[o].mode)}

\* Whoever already holds something of the resource does not queue.
Blockers(w, e, t) ==
  IF w[t] = NoRequest THEN {}
  ELSE ConflictingHolders(w, t) \cup
       (IF holders[w[t].resource][t] # None THEN {} ELSE QueueBefore(w, e, t))

\* Mutant: only cycles of two are looked for.
ClosesATwoCycle(w, e, t) == \E u \in Blockers(w, e, t) : t \in Blockers(w, e, u)

\* t is in every set that holds its blockers and the blockers of its members.
ClosesACycle(w, e, t) ==
  \A S \in SUBSET Transaction :
     (Blockers(w, e, t) \subseteq S /\ \A u \in S : Blockers(w, e, u) \subseteq S)
     => t \in S

AlreadyGranted(t, r, m) == holders[r][t] \in {"exclusive", m}

MergedMode(t, r, m) ==
  IF holders[r][t] = "exclusive" \/ m = "exclusive" THEN "exclusive" ELSE "shared"

-----------------------------------------------------------------------------
(* Steps shared by the two ways of getting to an answer: at once, or after *)
(* having waited.                                                          *)

\* Mutant: the deadline outlives the wait it was computed for.
DequeueKeepingDeadline(t) ==
  /\ waiting' = [waiting EXCEPT ![t] = NoRequest]
  /\ earlier' = [u \in Transaction |-> IF u = t THEN {} ELSE earlier[u] \ {t}]
  /\ UNCHANGED expired

Dequeue(t) ==
  /\ waiting' = [waiting EXCEPT ![t] = NoRequest]
  /\ earlier' = [u \in Transaction |-> IF u = t THEN {} ELSE earlier[u] \ {t}]
  /\ expired' = expired \ {t}

NotifyAll == asleep' = {}

\* A grant wakes nobody.
Grant(t, r, m) ==
  /\ holders' = [holders EXCEPT ![r][t] = MergedMode(t, r, m)]
  /\ Dequeue(t)
  /\ outcome' = [outcome EXCEPT ![t] = "granted"]
  /\ asleep' = asleep \ {t}

\* Mutant: whoever gives up tells nobody.
LeaveQueueSilently(t, error) ==
  /\ Dequeue(t)
  /\ asleep' = asleep \ {t}
  /\ outcome' = [outcome EXCEPT ![t] = error]
  /\ UNCHANGED holders

\* acquire's except branch: leave the queue, wake everybody and raise.
LeaveQueue(t, error) ==
  /\ Dequeue(t)
  /\ NotifyAll
  /\ outcome' = [outcome EXCEPT ![t] = error]
  /\ UNCHANGED holders

-----------------------------------------------------------------------------
(* acquire, up to its first answer or its first sleep. A transaction asks  *)
(* only while its thread is outside the manager; after a LockError the     *)
(* session aborts it, so it asks for nothing more.                         *)

Queued(t, r, m) == [waiting EXCEPT ![t] = [resource |-> r, mode |-> m]]

\* Mutant: every request gets the same turn.
TurnsAllEqual(t) == earlier

Turns(t) == [earlier EXCEPT ![t] = Waiters \ {t}]

MayAsk(t, r, m) ==
  /\ waiting[t] = NoRequest
  /\ outcome[t] = "granted"
  /\ ~AlreadyGranted(t, r, m)

AcquireAtOnce(t, r, m) ==
  /\ MayAsk(t, r, m)
  /\ Blockers(Queued(t, r, m), Turns(t), t) = {}
  /\ Grant(t, r, m)

AcquireRefused(t, r, m) ==
  /\ MayAsk(t, r, m)
  /\ Blockers(Queued(t, r, m), Turns(t), t) # {}
  /\ ClosesACycle(Queued(t, r, m), Turns(t), t)
  /\ LeaveQueue(t, "deadlock")

AcquireWaits(t, r, m) ==
  /\ MayAsk(t, r, m)
  /\ Blockers(Queued(t, r, m), Turns(t), t) # {}
  /\ ~ClosesACycle(Queued(t, r, m), Turns(t), t)
  /\ waiting' = Queued(t, r, m)
  /\ earlier' = Turns(t)
  /\ asleep' = asleep \cup {t}
  /\ UNCHANGED <<holders, expired, outcome>>

AcquireOf(t, r, m) ==
  AcquireAtOnce(t, r, m) \/ AcquireRefused(t, r, m) \/ AcquireWaits(t, r, m)

Acquire(t) == \E r \in Resource, m \in Mode : AcquireOf(t, r, m)

-----------------------------------------------------------------------------
(* _wait_until_free, from one return of Condition.wait() to the next: the  *)
(* thread was notified or its deadline passed.                             *)

MayWake(t) == waiting[t] # NoRequest /\ (t \notin asleep \/ t \in expired)

WakeGranted(t) ==
  /\ MayWake(t)
  /\ Blockers(waiting, earlier, t) = {}
  /\ Grant(t, waiting[t].resource, waiting[t].mode)

\* Mutant: the deadline is not looked at again after a wake-up.
WakeFailsInACycle(t) ==
  /\ MayWake(t)
  /\ Blockers(waiting, earlier, t) # {}
  /\ ClosesACycle(waiting, earlier, t)
  /\ LeaveQueue(t, "deadlock")

\* The loop looks for a cycle before it looks at the clock.
WakeFails(t) ==
  /\ MayWake(t)
  /\ Blockers(waiting, earlier, t) # {}
  /\ ClosesACycle(waiting, earlier, t) \/ t \in expired
  /\ LeaveQueue(t, IF ClosesACycle(waiting, earlier, t) THEN "deadlock" ELSE "timeout")

WakeWaits(t) ==
  /\ MayWake(t)
  /\ Blockers(waiting, earlier, t) # {}
  /\ ~ClosesACycle(waiting, earlier, t)
  /\ t \notin expired
  /\ asleep' = asleep \cup {t}
  /\ UNCHANGED <<holders, waiting, earlier, expired, outcome>>

Wake(t) == WakeGranted(t) \/ WakeFails(t) \/ WakeWaits(t)

\* The deadline, computed once on entry, goes by.
Expire(t) ==
  /\ waiting[t] # NoRequest
  /\ t \notin expired
  /\ expired' = expired \cup {t}
  /\ UNCHANGED <<holders, waiting, earlier, asleep, outcome>>

\* The end of a transaction, which wakes everybody even if it held nothing. The
\* name t is then free for a new one.
ReleaseAll(t) ==
  /\ waiting[t] = NoRequest
  /\ holders' = [r \in Resource |-> [holders[r] EXCEPT ![t] = None]]
  /\ NotifyAll
  /\ outcome' = [outcome EXCEPT ![t] = "granted"]
  /\ UNCHANGED <<waiting, earlier, expired>>

Next == \E t \in Transaction : Acquire(t) \/ Wake(t) \/ Expire(t) \/ ReleaseAll(t)

Spec == Init /\ [][Next]_vars

\* No deadline ever passes and nobody turns a shared lock into an exclusive
\* one (an autocommit statement never does), but every transaction that is not
\* waiting ends: its client finishes, or session_idle_seconds closes it.
PatientNext ==
  \E t \in Transaction :
    \/ \E r \in Resource, m \in Mode : holders[r][t] = None /\ AcquireOf(t, r, m)
    \/ Wake(t)
    \/ ReleaseAll(t)

-----------------------------------------------------------------------------
\* The lock is a lock: two transactions hold one table at once only if both
\* hold it shared, upgrades and grants after a wait included.
CompatibleHolders ==
  \A r \in Resource : \A t, u \in Transaction :
    (t # u /\ holders[r][t] # None /\ holders[r][u] # None)
    => (holders[r][t] = "shared" /\ holders[r][u] = "shared")

\* The turns order the queue: whoever is ahead of a request is still waiting,
\* and of two that wait exactly one is ahead of the other.
TurnsOrderTheQueue ==
  \A t \in Transaction :
    /\ earlier[t] \subseteq Waiters \ {t}
    /\ waiting[t] = NoRequest => earlier[t] = {}
    /\ \A u \in Waiters \ {t} : t \in Waiters => (u \in earlier[t] <=> t \notin earlier[u])

\* No lost wake-up: a thread that sleeps without a pending notification still
\* has somebody to wait for, although a grant notifies nobody and whoever
\* gives up may be the turn the others were waiting for (_leave_queue).
NoLostWakeup == \A t \in asleep : Blockers(waiting, earlier, t) # {}

\* No deadlock goes undetected: no set of waiting transactions is such that each
\* of them waits for another one of the set. Cycles are only looked for by the
\* thread that enters or wakes, and a grant changes the graph without any check.
NoUndetectedDeadlock ==
  \A D \in (SUBSET Waiters) \ {{}} :
    \E t \in D : Blockers(waiting, earlier, t) \cap D = {}

\* "Una de mas abortaria a una transaccion que no estaba en ningun ciclo": the
\* victim of a deadlock holds something that another waiting transaction needs.
\* A transaction that holds nothing is in no cycle, whatever queue it joins.
VictimHoldsSomething ==
  \A t \in Transaction :
    outcome[t] = "deadlock" => \E r \in Resource : holders[r][t] # None

\* Nobody overtakes a waiting request it conflicts with, unless it already had
\* a share of that table: new readers do not pass a waiting writer.
NoOvertaking ==
  [][\A t \in Transaction, r \in Resource :
       (holders[r][t] = None /\ holders'[r][t] # None) =>
         \A o \in Waiters \ {t} :
           ( /\ waiting[o].resource = r
             /\ (t \in Waiters => o \in earlier[t])
             /\ Conflict(holders'[r][t], waiting[o].mode) )
           => waiting'[o] = NoRequest]_vars

\* Every wait ends, with the lock or with an error: by its deadline, which is fixed
\* and which waking for nothing does not extend, even if no holder releases anything;
\* and without any deadline, as long as every transaction that is not waiting ends,
\* because the queue lets nobody pass for ever.
EveryWaitEnds == \A t \in Transaction : (t \in Waiters) ~> (t \notin Waiters)

\* The manager is a lock table: it grants only what is compatible, and a
\* transaction it refused does nothing but let go.
Table == INSTANCE LockTable
  WITH held <- holders, refused <- {t \in Transaction : outcome[t] # "granted"}

ImplementsLockTable == Table!TableSpec

=============================================================================
