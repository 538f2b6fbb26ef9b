------------------------- MODULE LockManagerProofs -------------------------
(* Proofs about LockManager, for any set of transactions and of tables, and about
   StatementLocks, the same manager when only autocommit statements call it. *)
EXTENDS StatementLocks, TLAPS

\* The state has its shape in every reachable state; in particular only threads
\* that wait for a lock sleep or have a deadline (Dequeue clears both).
THEOREM TypeCorrect == Spec => []TypeOK
<1>1. Init => TypeOK
  BY NoneIsNotAResource DEF Init, TypeOK, Outcome
<1>2. TypeOK /\ [Next]_vars => TypeOK'
  <2> SUFFICES ASSUME TypeOK, [Next]_vars PROVE TypeOK'
    OBVIOUS
  <2> USE NoneIsNotAResource DEF TypeOK, Outcome, Mode, Request, NoRequest, None
  <2>1. ASSUME NEW t \in Transaction, NEW r \in Resource, NEW m \in Mode, Grant(t, r, m)
        PROVE  TypeOK'
    BY <2>1 DEF Grant, Dequeue, MergedMode
  <2>2. ASSUME NEW t \in Transaction, NEW e \in {"deadlock", "timeout"}, LeaveQueue(t, e)
        PROVE  TypeOK'
    BY <2>2 DEF LeaveQueue, Dequeue, NotifyAll
  <2>3. ASSUME NEW t \in Transaction, NEW r \in Resource, NEW m \in Mode,
               AcquireOf(t, r, m)
        PROVE  TypeOK'
    <3>1. CASE AcquireAtOnce(t, r, m)
      BY <3>1, <2>1 DEF AcquireAtOnce
    <3>2. CASE AcquireRefused(t, r, m)
      BY <3>2, <2>2 DEF AcquireRefused
    <3>3. CASE AcquireWaits(t, r, m)
      BY <3>3 DEF AcquireWaits, MayAsk, Queued, Turns, Waiters
    <3>4. QED
      BY <2>3, <3>1, <3>2, <3>3 DEF AcquireOf
  <2>4. ASSUME NEW t \in Transaction, Wake(t)
        PROVE  TypeOK'
    <3>1. CASE WakeGranted(t)
      BY <3>1, <2>1 DEF WakeGranted, MayWake
    <3>2. CASE WakeFails(t)
      BY <3>2, <2>2 DEF WakeFails
    <3>3. CASE WakeWaits(t)
      BY <3>3 DEF WakeWaits, MayWake
    <3>4. QED
      BY <2>4, <3>1, <3>2, <3>3 DEF Wake
  <2>5. ASSUME NEW t \in Transaction, Expire(t)
        PROVE  TypeOK'
    BY <2>5 DEF Expire
  <2>6. ASSUME NEW t \in Transaction, ReleaseAll(t)
        PROVE  TypeOK'
    BY <2>6 DEF ReleaseAll, NotifyAll
  <2>7. CASE UNCHANGED vars
    BY <2>7 DEF vars
  <2>8. QED
    BY <2>3, <2>4, <2>5, <2>6, <2>7 DEF Next, Acquire
<1>3. QED
  BY <1>1, <1>2, PTL DEF Spec

-----------------------------------------------------------------------------
\* A request without blockers is compatible with every other holder of its table.
LEMMA UnblockedIsCompatible ==
  ASSUME NEW t \in Transaction, NEW w, NEW e, w[t] # NoRequest,
         Blockers(w, e, t) = {}
  PROVE  \A u \in Transaction \ {t} :
           holders[w[t].resource][u] # None
           => ~Conflict(w[t].mode, holders[w[t].resource][u])
BY DEF Blockers, ConflictingHolders

\* Both ways of granting a lock grant it to a transaction that conflicts with
\* nobody: the check and the grant are one critical section.
LEMMA GrantsAreCompatible ==
  ASSUME TypeOK, NEW t \in Transaction,
         \/ \E r \in Resource, m \in Mode : AcquireAtOnce(t, r, m)
         \/ WakeGranted(t)
  PROVE  \E r \in Resource, m \in Mode :
           /\ Grant(t, r, m)
           /\ \A u \in Transaction \ {t} :
                holders[r][u] # None => ~Conflict(m, holders[r][u])
<1>1. ASSUME NEW r \in Resource, NEW m \in Mode, AcquireAtOnce(t, r, m)
      PROVE  /\ Grant(t, r, m)
             /\ \A u \in Transaction \ {t} :
                  holders[r][u] # None => ~Conflict(m, holders[r][u])
  <2> DEFINE w == Queued(t, r, m)
  <2>1. w[t] = [resource |-> r, mode |-> m]
    BY DEF TypeOK, Queued
  <2>2. w[t] # NoRequest /\ w[t].resource = r /\ w[t].mode = m
    BY <2>1, NoneIsNotAResource DEF NoRequest
  <2>3. Blockers(w, Turns(t), t) = {} /\ Grant(t, r, m)
    BY <1>1 DEF AcquireAtOnce
  <2> HIDE DEF w
  <2>4. QED
    BY <2>2, <2>3, UnblockedIsCompatible
<1>2. CASE WakeGranted(t)
  <2>1. waiting[t] # NoRequest /\ Blockers(waiting, earlier, t) = {}
    BY <1>2 DEF WakeGranted, MayWake
  <2>2. waiting[t].resource \in Resource /\ waiting[t].mode \in Mode
    BY <2>1 DEF TypeOK, Request
  <2>3. Grant(t, waiting[t].resource, waiting[t].mode)
    BY <1>2 DEF WakeGranted
  <2>4. QED
    BY <2>1, <2>2, <2>3, UnblockedIsCompatible
<1>3. QED
  BY <1>1, <1>2

\* Mutual exclusion: an exclusive lock is never shared with anybody.
THEOREM LocksExclude == Spec => []CompatibleHolders
<1>1. Init => CompatibleHolders
  BY DEF Init, CompatibleHolders
<1>2. TypeOK /\ CompatibleHolders /\ [Next]_vars => CompatibleHolders'
  <2> SUFFICES ASSUME TypeOK, CompatibleHolders, [Next]_vars
               PROVE  CompatibleHolders'
    OBVIOUS
  <2>1. ASSUME NEW t \in Transaction,
               \/ \E r \in Resource, m \in Mode : AcquireAtOnce(t, r, m)
               \/ WakeGranted(t)
        PROVE  CompatibleHolders'
    <3>1. PICK r \in Resource, m \in Mode :
            /\ Grant(t, r, m)
            /\ \A u \in Transaction \ {t} :
                 holders[r][u] # None => ~Conflict(m, holders[r][u])
      BY <2>1, GrantsAreCompatible
    <3>2. holders' = [holders EXCEPT ![r][t] = MergedMode(t, r, m)]
      BY <3>1 DEF Grant
    <3>3. ASSUME NEW u \in Transaction \ {t}, holders[r][u] # None
          PROVE  holders[r][u] = "shared" /\ MergedMode(t, r, m) = "shared"
      <4>1. ~Conflict(m, holders[r][u])
        BY <3>1, <3>3
      <4>2. holders[r][t] # "exclusive"
        BY <3>3 DEF CompatibleHolders, TypeOK, Mode, None
      <4>3. QED
        BY <3>3, <4>1, <4>2 DEF Conflict, MergedMode, TypeOK, Mode, None
    <3>4. QED
      BY <3>2, <3>3 DEF CompatibleHolders, TypeOK, None
  <2>2. ASSUME NEW t \in Transaction, ReleaseAll(t)
        PROVE  CompatibleHolders'
    BY <2>2 DEF ReleaseAll, CompatibleHolders, TypeOK
  <2>3. CASE UNCHANGED holders
    BY <2>3 DEF CompatibleHolders
  <2>4. QED
    BY <2>1, <2>2, <2>3 DEF Next, Acquire, AcquireOf, AcquireRefused, AcquireWaits,
       Wake, WakeFails, WakeWaits, Expire, LeaveQueue, vars
<1>3. QED
  BY <1>1, <1>2, TypeCorrect, PTL DEF Spec

-----------------------------------------------------------------------------
\* The turns are a total order of the requests that wait.
THEOREM TurnsAreAnOrder == Spec => []TurnsOrderTheQueue
<1>1. Init => TurnsOrderTheQueue
  BY DEF Init, TurnsOrderTheQueue, Waiters
<1>2. TypeOK /\ TurnsOrderTheQueue /\ [Next]_vars => TurnsOrderTheQueue'
  <2> SUFFICES ASSUME TypeOK, TurnsOrderTheQueue, [Next]_vars
               PROVE  TurnsOrderTheQueue'
    OBVIOUS
  <2>1. ASSUME NEW t \in Transaction, Dequeue(t)
        PROVE  TurnsOrderTheQueue'
    BY <2>1 DEF Dequeue, TurnsOrderTheQueue, Waiters, TypeOK
  <2>2. ASSUME NEW t \in Transaction, NEW r \in Resource, NEW m \in Mode,
               AcquireWaits(t, r, m)
        PROVE  TurnsOrderTheQueue'
    <3>1. waiting[t] = NoRequest /\ t \notin Waiters
      BY <2>2 DEF AcquireWaits, MayAsk, Waiters
    <3>2. waiting' = [waiting EXCEPT ![t] = [resource |-> r, mode |-> m]]
      BY <2>2 DEF AcquireWaits, Queued
    <3>3. earlier' = [earlier EXCEPT ![t] = Waiters \ {t}]
      BY <2>2 DEF AcquireWaits, Turns
    <3>4. [resource |-> r, mode |-> m] # NoRequest
      BY NoneIsNotAResource DEF NoRequest
    <3>5. waiting'[t] # NoRequest
      BY <3>2, <3>4 DEF TypeOK
    <3>6. Waiters' = Waiters \cup {t}
      BY <3>2, <3>5 DEF Waiters, TypeOK
    <3>7. QED
      BY <3>1, <3>2, <3>3, <3>5, <3>6 DEF TurnsOrderTheQueue, TypeOK, Waiters
  <2>3. CASE UNCHANGED <<waiting, earlier>>
    BY <2>3 DEF TurnsOrderTheQueue, Waiters
  <2>4. ASSUME NEW t \in Transaction, Acquire(t) PROVE TurnsOrderTheQueue'
    <3>1. PICK r \in Resource, m \in Mode : AcquireOf(t, r, m)
      BY <2>4 DEF Acquire
    <3>2. AcquireWaits(t, r, m) \/ Dequeue(t)
      BY <3>1 DEF AcquireOf, AcquireAtOnce, AcquireRefused, LeaveQueue, Grant
    <3>3. QED
      BY <2>1, <2>2, <3>2
  <2>5. ASSUME NEW t \in Transaction, Wake(t) \/ Expire(t) \/ ReleaseAll(t)
        PROVE  TurnsOrderTheQueue'
    <3>1. Dequeue(t) \/ UNCHANGED <<waiting, earlier>>
      BY <2>5 DEF Wake, WakeGranted, WakeFails, WakeWaits, Expire, ReleaseAll, LeaveQueue, Grant
    <3>2. QED
      BY <2>1, <2>3, <3>1
  <2>6. QED
    BY <2>3, <2>4, <2>5 DEF Next, vars
<1>3. QED
  BY <1>1, <1>2, TypeCorrect, PTL DEF Spec

-----------------------------------------------------------------------------
\* How the steps change who waits for whom. Only a request that is queued gives
\* somebody who waits, the newcomer, anybody else who waits to wait for.
LEMMA NewcomerAddsItsEdges ==
  ASSUME TypeOK, TurnsOrderTheQueue, NEW t \in Transaction,
         NEW r \in Resource, NEW m \in Mode, AcquireWaits(t, r, m)
  PROVE  /\ t \notin Waiters
         /\ Waiters' = Waiters \cup {t}
         /\ \A u \in Transaction \ {t} :
              Blockers(waiting', earlier', u) = Blockers(waiting, earlier, u)
<1>1. waiting[t] = NoRequest /\ t \notin Waiters
  BY DEF AcquireWaits, MayAsk, Waiters
<1>2. waiting' = [waiting EXCEPT ![t] = [resource |-> r, mode |-> m]]
  BY DEF AcquireWaits, Queued
<1>3. earlier' = [earlier EXCEPT ![t] = Waiters \ {t}]
  BY DEF AcquireWaits, Turns
<1>4. waiting'[t] # NoRequest
  BY <1>2, NoneIsNotAResource DEF NoRequest, TypeOK
<1>5. Waiters' = Waiters \cup {t}
  BY <1>2, <1>4 DEF Waiters, TypeOK
<1>6. ASSUME NEW u \in Transaction \ {t}
      PROVE  Blockers(waiting', earlier', u) = Blockers(waiting, earlier, u)
  <2>1. waiting'[u] = waiting[u] /\ earlier'[u] = earlier[u]
    BY <1>2, <1>3 DEF TypeOK
  <2>2. t \notin earlier[u]
    BY <1>1 DEF TurnsOrderTheQueue
  <2>3. \A o \in Transaction \ {t} : waiting'[o] = waiting[o]
    BY <1>2 DEF TypeOK
  <2>4. QueueBefore(waiting', earlier', u) = QueueBefore(waiting, earlier, u)
    BY <2>1, <2>2, <2>3 DEF QueueBefore, TypeOK
  <2>5. ConflictingHolders(waiting', u) = ConflictingHolders(waiting, u)
    BY <2>1 DEF ConflictingHolders
  <2>6. QED
    BY <2>1, <2>4, <2>5 DEF Blockers
<1>7. QED
  BY <1>1, <1>5, <1>6

LEMMA GrantedStopsWaiting ==
  ASSUME TypeOK, NEW t \in Transaction, NEW r \in Resource, NEW m \in Mode, Grant(t, r, m)
  PROVE  /\ Waiters' = Waiters \ {t}
         /\ \A u \in Transaction \ {t} :
              Blockers(waiting, earlier, u)' \subseteq Blockers(waiting, earlier, u) \cup {t}
<1>1. /\ waiting' = [waiting EXCEPT ![t] = NoRequest]
      /\ earlier' = [u \in Transaction |-> IF u = t THEN {} ELSE earlier[u] \ {t}]
      /\ holders' = [holders EXCEPT ![r][t] = MergedMode(t, r, m)]
  BY DEF Grant, Dequeue
<1>2. Waiters' = Waiters \ {t}
  BY <1>1 DEF Waiters, TypeOK
<1>3. ASSUME NEW u \in Transaction \ {t}
      PROVE  Blockers(waiting, earlier, u)' \subseteq Blockers(waiting, earlier, u) \cup {t}
  <2>1. waiting'[u] = waiting[u] /\ earlier'[u] = earlier[u] \ {t}
    BY <1>1 DEF TypeOK
  <2>2. \A o \in Transaction \ {t} : waiting'[o] = waiting[o]
    BY <1>1 DEF TypeOK
  <2>3. \A q \in Resource : \A o \in Transaction \ {t} : holders'[q][o] = holders[q][o]
    BY <1>1 DEF TypeOK
  <2>4. CASE waiting[u] = NoRequest
    BY <2>1, <2>4 DEF Blockers
  <2>5. CASE waiting[u] # NoRequest
    <3>1. waiting[u].resource \in Resource
      BY <2>5 DEF TypeOK, Request
    <3>2. ConflictingHolders(waiting, u)' \subseteq ConflictingHolders(waiting, u) \cup {t}
      BY <2>1, <2>3, <3>1 DEF ConflictingHolders
    <3>3. QueueBefore(waiting, earlier, u)' \subseteq QueueBefore(waiting, earlier, u)
      BY <2>1, <2>2 DEF QueueBefore, TypeOK
    <3>4. holders'[waiting[u].resource][u] = holders[waiting[u].resource][u]
      BY <2>3, <3>1
    <3>5. QED
      BY <2>1, <3>2, <3>3, <3>4 DEF Blockers
  <2>6. QED
    BY <2>4, <2>5
<1>4. QED
  BY <1>2, <1>3

LEMMA LeavingOnlyUnblocks ==
  ASSUME TypeOK, NEW t \in Transaction,
         (\E e \in {"deadlock", "timeout"} : LeaveQueue(t, e)) \/ ReleaseAll(t)
  PROVE  /\ Waiters' \subseteq Waiters
         /\ \A u \in Waiters' :
              Blockers(waiting, earlier, u)' \subseteq Blockers(waiting, earlier, u)
<1>1. CASE \E e \in {"deadlock", "timeout"} : LeaveQueue(t, e)
  <2>1. /\ waiting' = [waiting EXCEPT ![t] = NoRequest]
        /\ earlier' = [u \in Transaction |-> IF u = t THEN {} ELSE earlier[u] \ {t}]
        /\ holders' = holders
    BY <1>1 DEF LeaveQueue, Dequeue
  <2>2. Waiters' = Waiters \ {t}
    BY <2>1 DEF Waiters, TypeOK
  <2>3. ASSUME NEW u \in Waiters'
        PROVE  Blockers(waiting, earlier, u)' \subseteq Blockers(waiting, earlier, u)
    <3>1. u # t /\ waiting'[u] = waiting[u] /\ earlier'[u] = earlier[u] \ {t}
      BY <2>1, <2>2 DEF TypeOK, Waiters
    <3>2. \A o \in Transaction \ {t} : waiting'[o] = waiting[o]
      BY <2>1 DEF TypeOK
    <3>3. QED
      BY <2>1, <2>2, <3>1, <3>2 DEF Blockers, ConflictingHolders, QueueBefore, TypeOK, Waiters
  <2>4. QED
    BY <2>2, <2>3
<1>2. CASE ReleaseAll(t)
  <2>1. /\ waiting' = waiting /\ earlier' = earlier
        /\ holders' = [r \in Resource |-> [holders[r] EXCEPT ![t] = None]]
        /\ waiting[t] = NoRequest
    BY <1>2 DEF ReleaseAll
  <2>2. Waiters' = Waiters /\ t \notin Waiters
    BY <2>1 DEF Waiters
  <2>3. ASSUME NEW u \in Waiters
        PROVE  Blockers(waiting, earlier, u)' \subseteq Blockers(waiting, earlier, u)
    <3>1. waiting[u].resource \in Resource
      BY DEF TypeOK, Waiters, Request
    <3>2. /\ \A o \in Transaction \ {t} :
               holders'[waiting[u].resource][o] = holders[waiting[u].resource][o]
          /\ holders'[waiting[u].resource][t] = None
      BY <2>1, <3>1 DEF TypeOK
    <3>3. u # t /\ u \in Transaction
      BY <2>2 DEF Waiters
    <3>4. ConflictingHolders(waiting, u)' \subseteq ConflictingHolders(waiting, u)
      BY <2>1, <3>2 DEF ConflictingHolders
    <3>5. QueueBefore(waiting, earlier, u)' = QueueBefore(waiting, earlier, u)
      BY <2>1 DEF QueueBefore
    <3>6. QED
      BY <2>1, <3>2, <3>3, <3>4, <3>5 DEF Blockers
  <2>4. QED
    BY <2>2, <2>3
<1>3. QED
  BY <1>1, <1>2

-----------------------------------------------------------------------------
\* No deadlock stays undetected, although only the thread that is about to sleep
\* looks for a cycle. Any set of waiters that wait for each other is older than
\* the last request: the newcomer's own search would have met the set.
THEOREM DeadlocksAreDetected == Spec => []NoUndetectedDeadlock
<1>1. Init => NoUndetectedDeadlock
  BY DEF Init, NoUndetectedDeadlock, Waiters
<1>2. TypeOK /\ TurnsOrderTheQueue /\ NoUndetectedDeadlock /\ [Next]_vars
      => NoUndetectedDeadlock'
  <2> SUFFICES ASSUME TypeOK, TurnsOrderTheQueue, NoUndetectedDeadlock, [Next]_vars,
                      NEW D \in SUBSET Waiters', D # {}
               PROVE  \E u \in D : Blockers(waiting, earlier, u)' \cap D = {}
    BY DEF NoUndetectedDeadlock
  <2>1. ASSUME NEW t \in Transaction, NEW r \in Resource, NEW m \in Mode,
               AcquireWaits(t, r, m)
        PROVE  \E u \in D : Blockers(waiting, earlier, u)' \cap D = {}
    <3>1. /\ Waiters' = Waiters \cup {t}
          /\ \A u \in Transaction \ {t} :
               Blockers(waiting', earlier', u) = Blockers(waiting, earlier, u)
      BY <2>1, NewcomerAddsItsEdges
    <3>2. holders' = holders /\ waiting' = Queued(t, r, m) /\ earlier' = Turns(t)
      BY <2>1 DEF AcquireWaits
    <3>3. \A u \in Transaction :
            Blockers(waiting, earlier, u)' = Blockers(waiting', earlier', u)
      BY <3>2 DEF Blockers, ConflictingHolders, QueueBefore
    <3>4. PICK S \in SUBSET Transaction :
            /\ Blockers(waiting', earlier', t) \subseteq S
            /\ \A u \in S : Blockers(waiting', earlier', u) \subseteq S
            /\ t \notin S
      BY <2>1, <3>2 DEF AcquireWaits, ClosesACycle
    <3>5. CASE D \cap S = {}
      <4>1. CASE t \in D
        BY <3>3, <3>4, <3>5, <4>1
      <4>2. CASE t \notin D
        <5>1. D \in SUBSET Waiters
          BY <3>1, <4>2
        <5>2. PICK u \in D : Blockers(waiting, earlier, u) \cap D = {}
          BY <5>1 DEF NoUndetectedDeadlock
        <5>3. u \in Transaction \ {t}
          BY <4>2, <5>1 DEF Waiters
        <5>4. QED
          BY <3>1, <3>3, <5>2, <5>3
      <4>3. QED
        BY <4>1, <4>2
    <3>6. CASE D \cap S # {}
      <4>1. D \cap S \in SUBSET Waiters
        BY <3>1, <3>4
      <4>2. PICK u \in D \cap S : Blockers(waiting, earlier, u) \cap (D \cap S) = {}
        BY <3>6, <4>1 DEF NoUndetectedDeadlock
      <4>3. u \in Transaction \ {t}
        BY <3>4, <4>1 DEF Waiters
      <4>4. Blockers(waiting', earlier', u) \subseteq S
        BY <3>4, <4>2
      <4>5. QED
        BY <3>1, <3>3, <4>2, <4>3, <4>4
    <3>7. QED
      BY <3>5, <3>6
  <2>2. ASSUME NEW t \in Transaction,
               \/ \E r \in Resource, m \in Mode : AcquireAtOnce(t, r, m)
               \/ WakeGranted(t)
        PROVE  \E u \in D : Blockers(waiting, earlier, u)' \cap D = {}
    <3>1. PICK r \in Resource, m \in Mode : Grant(t, r, m)
      BY <2>2, GrantsAreCompatible
    <3>2. /\ Waiters' = Waiters \ {t}
          /\ \A u \in Transaction \ {t} :
               Blockers(waiting, earlier, u)' \subseteq Blockers(waiting, earlier, u) \cup {t}
      BY <3>1, GrantedStopsWaiting
    <3>3. D \in SUBSET Waiters /\ t \notin D
      BY <3>2
    <3>4. PICK u \in D : Blockers(waiting, earlier, u) \cap D = {}
      BY <3>3 DEF NoUndetectedDeadlock
    <3>5. u \in Transaction \ {t}
      BY <3>3 DEF Waiters
    <3>6. QED
      BY <3>2, <3>3, <3>4, <3>5
  <2>3. ASSUME NEW t \in Transaction,
               (\E e \in {"deadlock", "timeout"} : LeaveQueue(t, e)) \/ ReleaseAll(t)
        PROVE  \E u \in D : Blockers(waiting, earlier, u)' \cap D = {}
    <3>1. /\ Waiters' \subseteq Waiters
          /\ \A u \in Waiters' :
               Blockers(waiting, earlier, u)' \subseteq Blockers(waiting, earlier, u)
      BY <2>3, LeavingOnlyUnblocks
    <3>2. PICK u \in D : Blockers(waiting, earlier, u) \cap D = {}
      BY <3>1 DEF NoUndetectedDeadlock
    <3>3. QED
      BY <3>1, <3>2
  <2>4. CASE UNCHANGED <<holders, waiting, earlier>>
    <3>1. Waiters' = Waiters
      BY <2>4 DEF Waiters
    <3>2. \A u \in D : Blockers(waiting, earlier, u)' = Blockers(waiting, earlier, u)
      BY <2>4 DEF Blockers, ConflictingHolders, QueueBefore
    <3>3. QED
      BY <3>1, <3>2 DEF NoUndetectedDeadlock
  <2>5. QED
    BY <2>1, <2>2, <2>3, <2>4 DEF Next, Acquire, AcquireOf, AcquireRefused,
       Wake, WakeFails, WakeWaits, Expire, vars
<1>3. QED
  BY <1>1, <1>2, TypeCorrect, TurnsAreAnOrder, PTL DEF Spec

-----------------------------------------------------------------------------
\* With the turns and the detection in place, the search made on waking up never
\* finds a cycle: only an acquire's first search ever does.
LEMMA NoCycleOnWaking ==
  ASSUME TypeOK, NoUndetectedDeadlock, NEW t \in Transaction
  PROVE  ~ClosesACycle(waiting, earlier, t)
<1> SUFFICES ASSUME ClosesACycle(waiting, earlier, t) PROVE FALSE
  OBVIOUS
<1> DEFINE Bl(u) == Blockers(waiting, earlier, u)
           Closed(S) == \A v \in S : Bl(v) \subseteq S
           Away == UNION {S \in SUBSET Transaction : Closed(S) /\ t \notin S}
           D == {u \in Transaction : ~(Bl(u) \subseteq Away)}
<1>1. Away \in SUBSET Transaction /\ t \notin Away /\ Closed(Away)
  OBVIOUS
<1>2. \A u \in Transaction : Bl(u) \subseteq Transaction
  BY DEF Blockers, ConflictingHolders, QueueBefore, TypeOK
<1>3. t \in D
  BY <1>1 DEF ClosesACycle
<1>4. D \in SUBSET Waiters
  BY DEF Blockers, Waiters
<1>5. ASSUME NEW u \in D
      PROVE  Bl(u) \cap D # {}
  <2>1. PICK b \in Bl(u) : b \notin Away
    OBVIOUS
  <2>2. b \in Transaction
    BY <1>2, <2>1
  <2>3. CASE b = t
    BY <1>3, <2>1, <2>3
  <2>4. CASE b # t /\ Bl(b) \subseteq Away
    <3>1. Closed(Away \cup {b}) /\ t \notin Away \cup {b}
      BY <1>1, <2>4
    <3>2. Away \cup {b} \in SUBSET Transaction
      BY <1>1, <2>2
    <3>3. QED
      BY <2>1, <3>1, <3>2
  <2>5. QED
    BY <2>1, <2>2, <2>3, <2>4
<1>6. QED
  BY <1>3, <1>4, <1>5 DEF NoUndetectedDeadlock

\* A newcomer without any lock blocks nobody, so its search finds no cycle.
LEMMA EmptyHandedClosesNoCycle ==
  ASSUME TypeOK, TurnsOrderTheQueue, NEW t \in Transaction,
         NEW r \in Resource, NEW m \in Mode, MayAsk(t, r, m),
         \A q \in Resource : holders[q][t] = None
  PROVE  ~ClosesACycle(Queued(t, r, m), Turns(t), t)
<1> DEFINE w == Queued(t, r, m)
           e == Turns(t)
           S == Transaction \ {t}
<1>1. t \notin Waiters
  BY DEF MayAsk, Waiters
<1>2. /\ w[t] = [resource |-> r, mode |-> m]
      /\ \A u \in S : w[u] = waiting[u] /\ e[u] = earlier[u]
  BY DEF Queued, Turns, TypeOK
<1>3. e[t] \subseteq Transaction
  BY DEF Turns, Waiters, TypeOK
<1>4. Blockers(w, e, t) \subseteq S
  BY <1>3 DEF Blockers, ConflictingHolders, QueueBefore
<1>5. ASSUME NEW u \in S PROVE Blockers(w, e, u) \subseteq S
  <2>1. CASE waiting[u] = NoRequest
    BY <1>2, <2>1 DEF Blockers
  <2>2. CASE waiting[u] # NoRequest
    <3>1. w[u].resource \in Resource
      BY <1>2, <2>2 DEF TypeOK, Request
    <3>2. ConflictingHolders(w, u) \subseteq S
      BY <3>1 DEF ConflictingHolders
    <3>3. QueueBefore(w, e, u) \subseteq S
      BY <1>1, <1>2 DEF QueueBefore, TurnsOrderTheQueue, Waiters
    <3>4. QED
      BY <3>2, <3>3 DEF Blockers
  <2>3. QED
    BY <2>1, <2>2
<1>6. S \in SUBSET Transaction /\ t \notin S
  OBVIOUS
<1> HIDE DEF w, e, S
<1>7. ~ClosesACycle(w, e, t)
  BY <1>4, <1>5, <1>6 DEF ClosesACycle
<1>8. QED
  BY <1>7 DEF w, e

\* The wait-for graph has no edge too many: only a transaction that holds what
\* others need is ever aborted as the victim of a deadlock.
THEOREM OnlyHoldersAreVictims == Spec => []VictimHoldsSomething
<1>1. Init => VictimHoldsSomething
  BY DEF Init, VictimHoldsSomething
<1>2. /\ TypeOK /\ TurnsOrderTheQueue /\ NoUndetectedDeadlock
      /\ VictimHoldsSomething /\ [Next]_vars
      => VictimHoldsSomething'
  <2> SUFFICES ASSUME TypeOK, TurnsOrderTheQueue, NoUndetectedDeadlock,
                      VictimHoldsSomething, [Next]_vars
               PROVE  VictimHoldsSomething'
    OBVIOUS
  <2>1. ASSUME NEW t \in Transaction,
               \/ \E r \in Resource, m \in Mode : AcquireAtOnce(t, r, m)
               \/ WakeGranted(t)
        PROVE  VictimHoldsSomething'
    <3>1. PICK r \in Resource, m \in Mode : Grant(t, r, m)
      BY <2>1, GrantsAreCompatible
    <3>2. /\ holders' = [holders EXCEPT ![r][t] = MergedMode(t, r, m)]
          /\ outcome' = [outcome EXCEPT ![t] = "granted"]
      BY <3>1 DEF Grant
    <3>3. QED
      BY <3>2 DEF VictimHoldsSomething, TypeOK
  <2>2. ASSUME NEW t \in Transaction, NEW r \in Resource, NEW m \in Mode,
               AcquireRefused(t, r, m)
        PROVE  VictimHoldsSomething'
    <3>1. \E q \in Resource : holders[q][t] # None
      BY <2>2, EmptyHandedClosesNoCycle DEF AcquireRefused
    <3>2. holders' = holders /\ outcome' = [outcome EXCEPT ![t] = "deadlock"]
      BY <2>2 DEF AcquireRefused, LeaveQueue
    <3>3. QED
      BY <3>1, <3>2 DEF VictimHoldsSomething, TypeOK
  <2>3. ASSUME NEW t \in Transaction, WakeFails(t)
        PROVE  VictimHoldsSomething'
    <3>1. ~ClosesACycle(waiting, earlier, t)
      BY NoCycleOnWaking
    <3>2. holders' = holders /\ outcome' = [outcome EXCEPT ![t] = "timeout"]
      BY <2>3, <3>1 DEF WakeFails, LeaveQueue
    <3>3. QED
      BY <3>2 DEF VictimHoldsSomething, TypeOK
  <2>4. ASSUME NEW t \in Transaction, ReleaseAll(t)
        PROVE  VictimHoldsSomething'
    BY <2>4 DEF ReleaseAll, VictimHoldsSomething, TypeOK
  <2>5. CASE UNCHANGED <<holders, outcome>>
    BY <2>5 DEF VictimHoldsSomething
  <2>6. QED
    BY <2>1, <2>2, <2>3, <2>4, <2>5 DEF Next, Acquire, AcquireOf, AcquireWaits,
       Wake, WakeWaits, Expire, vars
<1>3. QED
  BY <1>1, <1>2, TypeCorrect, TurnsAreAnOrder, DeadlocksAreDetected, PTL DEF Spec

-----------------------------------------------------------------------------
\* The manager implements the lock table that sessions rely on.
THEOREM ImplementsTheLockTable == Spec => ImplementsLockTable
<1> DEFINE failed == {t \in Transaction : outcome[t] # "granted"}
<1>1. Init => Table!TableInit
  BY DEF Init, Table!TableInit, Table!NothingHeld, None, Table!None
<1>2. TypeOK /\ [Next]_vars => [Table!TableNext]_(Table!tableVars)
  <2> SUFFICES ASSUME TypeOK, [Next]_vars
               PROVE  [Table!TableNext]_(Table!tableVars)
    OBVIOUS
  <2> USE DEF Mode, Table!Mode, None, Table!None
  <2>1. ASSUME NEW t \in Transaction,
               \/ \E r \in Resource, m \in Mode : AcquireAtOnce(t, r, m)
               \/ WakeGranted(t)
        PROVE  Table!TableNext \/ UNCHANGED Table!tableVars
    <3>1. PICK r \in Resource, m \in Mode :
            /\ Grant(t, r, m)
            /\ \A u \in Transaction \ {t} :
                 holders[r][u] # None => ~Conflict(m, holders[r][u])
      BY <2>1, GrantsAreCompatible
    <3>2. Table!Compatible(t, r, m)
      BY <3>1 DEF Table!Compatible, Conflict, TypeOK
    <3>3. MergedMode(t, r, m) = Table!Stronger(holders[r][t], m)
      BY DEF MergedMode, Table!Stronger
    <3>4. /\ holders' = [holders EXCEPT ![r][t] = Table!Stronger(@, m)]
          /\ outcome' = [outcome EXCEPT ![t] = "granted"]
      BY <3>1, <3>3 DEF Grant
    <3>5. outcome[t] = "granted"
      BY <2>1 DEF AcquireAtOnce, MayAsk, WakeGranted, MayWake, TypeOK
    <3>6. outcome' = outcome
      BY <3>4, <3>5 DEF TypeOK
    <3>7. Table!Take(t, r, m)
      BY <3>2, <3>4, <3>5, <3>6 DEF Table!Take
    <3>8. QED
      BY <3>7 DEF Table!TableNext
  <2>2. ASSUME NEW t \in Transaction, NEW e \in {"deadlock", "timeout"},
               LeaveQueue(t, e), outcome[t] = "granted"
        PROVE  Table!TableNext
    <3>1. holders' = holders /\ outcome' = [outcome EXCEPT ![t] = e]
      BY <2>2 DEF LeaveQueue
    <3>2. failed' = failed \cup {t} /\ t \notin failed
      BY <2>2, <3>1 DEF TypeOK
    <3>3. Table!Refuse(t)
      BY <3>1, <3>2 DEF Table!Refuse
    <3>4. QED
      BY <3>3 DEF Table!TableNext
  <2>3. ASSUME NEW t \in Transaction, WakeFails(t)
        PROVE  Table!TableNext
    <3>1. outcome[t] = "granted"
      BY <2>3 DEF WakeFails, MayWake, TypeOK
    <3>2. \E e \in {"deadlock", "timeout"} : LeaveQueue(t, e)
      BY <2>3 DEF WakeFails
    <3>3. QED
      BY <2>2, <3>1, <3>2
  <2>4. ASSUME NEW t \in Transaction, ReleaseAll(t)
        PROVE  Table!TableNext
    <3>1. /\ holders' = [r \in Resource |-> [holders[r] EXCEPT ![t] = None]]
          /\ outcome' = [outcome EXCEPT ![t] = "granted"]
      BY <2>4 DEF ReleaseAll
    <3>2. failed' = failed \ {t}
      BY <3>1 DEF TypeOK
    <3>3. Table!LetGo(t)
      BY <3>1, <3>2 DEF Table!LetGo
    <3>4. QED
      BY <3>3 DEF Table!TableNext
  <2>5. CASE UNCHANGED <<holders, outcome>>
    BY <2>5 DEF Table!tableVars
  <2>6. QED
    BY <2>1, <2>2, <2>3, <2>4, <2>5 DEF Next, Acquire, AcquireOf, AcquireRefused,
       AcquireWaits, MayAsk, Wake, WakeWaits, Expire, vars
<1>3. QED
  BY <1>1, <1>2, TypeCorrect, PTL DEF Spec, ImplementsLockTable, Table!TableSpec

-----------------------------------------------------------------------------
\* No wake-up is lost: whoever sleeps unnotified still waits for somebody. A grant
\* notifies nobody, and needs not: the request that was in the way in the queue
\* is in the way again as a lock.
THEOREM NoWakeupIsLost == Spec => []NoLostWakeup
<1>1. Init => NoLostWakeup
  BY DEF Init, NoLostWakeup
<1>2. TypeOK /\ TurnsOrderTheQueue /\ NoLostWakeup /\ [Next]_vars => NoLostWakeup'
  <2> SUFFICES ASSUME TypeOK, TurnsOrderTheQueue, NoLostWakeup, [Next]_vars
               PROVE  NoLostWakeup'
    OBVIOUS
  <2>1. ASSUME NEW t \in Transaction, NEW r \in Resource, NEW m \in Mode,
               AcquireWaits(t, r, m)
        PROVE  NoLostWakeup'
    <3>1. \A u \in Transaction \ {t} :
            Blockers(waiting', earlier', u) = Blockers(waiting, earlier, u)
      BY <2>1, NewcomerAddsItsEdges
    <3>2. /\ holders' = holders /\ waiting' = Queued(t, r, m) /\ earlier' = Turns(t)
          /\ asleep' = asleep \cup {t}
          /\ Blockers(Queued(t, r, m), Turns(t), t) # {}
      BY <2>1 DEF AcquireWaits
    <3>3. \A u \in Transaction :
            Blockers(waiting, earlier, u)' = Blockers(waiting', earlier', u)
      BY <3>2 DEF Blockers, ConflictingHolders, QueueBefore
    <3>4. QED
      BY <3>1, <3>2, <3>3 DEF NoLostWakeup, TypeOK
  <2>2. ASSUME NEW t \in Transaction, NEW r \in Resource, NEW m \in Mode,
               Grant(t, r, m), MayAsk(t, r, m) \/ waiting[t] = [resource |-> r, mode |-> m],
               NEW u \in asleep \ {t}
        PROVE  Blockers(waiting, earlier, u)' # {}
    <3>1. /\ waiting' = [waiting EXCEPT ![t] = NoRequest]
          /\ earlier' = [v \in Transaction |-> IF v = t THEN {} ELSE earlier[v] \ {t}]
          /\ holders' = [holders EXCEPT ![r][t] = MergedMode(t, r, m)]
      BY <2>2 DEF Grant, Dequeue
    <3>2. /\ u \in Transaction /\ waiting[u] # NoRequest
          /\ waiting[u].resource \in Resource /\ waiting[u].mode \in Mode
      BY DEF TypeOK, Request
    <3>3. /\ waiting'[u] = waiting[u] /\ earlier'[u] = earlier[u] \ {t}
          /\ \A o \in Transaction \ {t} : waiting'[o] = waiting[o]
          /\ \A q \in Resource : \A o \in Transaction \ {t} : holders'[q][o] = holders[q][o]
      BY <3>1, <3>2 DEF TypeOK
    <3>4. PICK b : b \in Blockers(waiting, earlier, u)
      BY DEF NoLostWakeup
    <3>5. b \in Transaction
      BY <3>4 DEF Blockers, ConflictingHolders, QueueBefore, TypeOK
    <3>6. CASE b # t
      <4>1. CASE b \in ConflictingHolders(waiting, u)
        <5>1. b \in ConflictingHolders(waiting, u)'
          BY <3>2, <3>3, <3>5, <3>6, <4>1 DEF ConflictingHolders
        <5>2. QED
          BY <3>2, <3>3, <5>1 DEF Blockers
      <4>2. CASE b \in QueueBefore(waiting, earlier, u) /\ holders[waiting[u].resource][u] = None
        <5>1. b \in QueueBefore(waiting, earlier, u)'
          BY <3>3, <3>5, <3>6, <4>2 DEF QueueBefore
        <5>2. holders'[waiting[u].resource][u] = None
          BY <3>2, <3>3, <4>2
        <5>3. QED
          BY <3>2, <3>3, <5>1, <5>2 DEF Blockers
      <4>3. QED
        BY <3>2, <3>4, <4>1, <4>2 DEF Blockers
    <3>7. CASE b = t
      <4>1. holders'[waiting[u].resource][t] # None
            /\ Conflict(waiting[u].mode, holders'[waiting[u].resource][t])
        <5>1. CASE t \in ConflictingHolders(waiting, u)
          <6>1. /\ holders[waiting[u].resource][t] # None
                /\ Conflict(waiting[u].mode, holders[waiting[u].resource][t])
            BY <5>1 DEF ConflictingHolders
          <6>2. QED
            BY <3>1, <3>2, <6>1 DEF MergedMode, Conflict, TypeOK, Mode, None
        <5>2. CASE t \in QueueBefore(waiting, earlier, u)
          <6>1. waiting[t] # NoRequest
                /\ waiting[t].resource = waiting[u].resource
                /\ Conflict(waiting[u].mode, waiting[t].mode)
            BY <5>2 DEF QueueBefore
          <6>2. waiting[t] = [resource |-> r, mode |-> m]
            BY <2>2, <6>1 DEF MayAsk
          <6>3. holders'[r][t] = MergedMode(t, r, m) /\ waiting[u].resource = r
                /\ Conflict(waiting[u].mode, m)
            BY <3>1, <6>1, <6>2 DEF TypeOK
          <6>4. QED
            BY <6>3 DEF MergedMode, Conflict, Mode, None
        <5>3. QED
          BY <3>2, <3>4, <3>7, <5>1, <5>2 DEF Blockers
      <4>2. t \in ConflictingHolders(waiting, u)'
        BY <3>3, <4>1 DEF ConflictingHolders
      <4>3. QED
        BY <3>2, <3>3, <4>2 DEF Blockers
    <3>8. QED
      BY <3>6, <3>7
  <2>3. ASSUME NEW t \in Transaction, NEW r \in Resource, NEW m \in Mode,
               AcquireAtOnce(t, r, m)
        PROVE  NoLostWakeup'
    <3>1. Grant(t, r, m) /\ MayAsk(t, r, m) /\ asleep' = asleep \ {t}
      BY <2>3 DEF AcquireAtOnce, Grant
    <3>2. QED
      BY <2>2, <3>1 DEF NoLostWakeup
  <2>4. ASSUME NEW t \in Transaction, WakeGranted(t)
        PROVE  NoLostWakeup'
    <3> DEFINE r == waiting[t].resource
               m == waiting[t].mode
    <3>1. /\ Grant(t, r, m) /\ asleep' = asleep \ {t}
          /\ waiting[t] = [resource |-> r, mode |-> m] /\ r \in Resource /\ m \in Mode
      BY <2>4 DEF WakeGranted, MayWake, Grant, TypeOK, Request
    <3> HIDE DEF r, m
    <3>2. QED
      BY <2>2, <3>1 DEF NoLostWakeup
  <2>5. CASE asleep' = {}
    BY <2>5 DEF NoLostWakeup
  <2>6. ASSUME NEW t \in Transaction, WakeWaits(t)
        PROVE  NoLostWakeup'
    BY <2>6 DEF WakeWaits, NoLostWakeup, Blockers, ConflictingHolders, QueueBefore
  <2>7. CASE UNCHANGED <<holders, waiting, earlier, asleep>>
    BY <2>7 DEF NoLostWakeup, Blockers, ConflictingHolders, QueueBefore
  <2>8. QED
    BY <2>1, <2>3, <2>4, <2>5, <2>6, <2>7 DEF Next, Acquire, AcquireOf, AcquireRefused,
       Wake, WakeFails, LeaveQueue, NotifyAll, ReleaseAll, Expire, vars
<1>3. QED
  BY <1>1, <1>2, TypeCorrect, TurnsAreAnOrder, PTL DEF Spec

-----------------------------------------------------------------------------
\* A grant finds nobody in the queue before it whom it conflicts with.
LEMMA GrantsWaitTheirTurn ==
  ASSUME TypeOK, NEW t \in Transaction, NEW r \in Resource, holders[r][t] = None,
         \/ \E m \in Mode : AcquireAtOnce(t, r, m)
         \/ waiting[t].resource = r /\ WakeGranted(t),
         NEW o \in Waiters \ {t}, waiting[o].resource = r,
         t \in Waiters => o \in earlier[t]
  PROVE  ~Conflict(holders'[r][t], waiting[o].mode)
<1>1. ASSUME NEW w, NEW e, w[t] # NoRequest, w[t].resource = r, w[o] = waiting[o], o \in e[t],
             Blockers(w, e, t) = {}
      PROVE  ~Conflict(w[t].mode, waiting[o].mode)
  BY <1>1 DEF Blockers, QueueBefore, Waiters
<1>2. CASE \E m \in Mode : AcquireAtOnce(t, r, m)
  <2>1. PICK m \in Mode : AcquireAtOnce(t, r, m)
    BY <1>2
  <2>2. t \notin Waiters /\ holders'[r][t] = m
    BY <2>1 DEF AcquireAtOnce, MayAsk, Waiters, Grant, MergedMode, TypeOK, Mode, None
  <2>3. /\ Queued(t, r, m)[t] = [resource |-> r, mode |-> m]
        /\ Queued(t, r, m)[o] = waiting[o] /\ o \in Turns(t)[t]
    BY DEF Queued, Turns, TypeOK, Waiters
  <2>4. Queued(t, r, m)[t] # NoRequest
    BY <2>3, NoneIsNotAResource DEF NoRequest
  <2>5. QED
    BY <1>1, <2>1, <2>2, <2>3, <2>4 DEF AcquireAtOnce
<1>3. CASE waiting[t].resource = r /\ WakeGranted(t)
  <2>1. t \in Waiters /\ waiting[t].mode \in Mode /\ Blockers(waiting, earlier, t) = {}
    BY <1>3 DEF WakeGranted, MayWake, Waiters, TypeOK, Request
  <2>2. holders'[r][t] = waiting[t].mode
    BY <1>3, <2>1 DEF WakeGranted, Grant, MergedMode, TypeOK, Mode, None
  <2>3. QED
    BY <1>1, <1>3, <2>1, <2>2 DEF Waiters
<1>4. QED
  BY <1>2, <1>3

\* New readers do not pass a waiting writer, nor anybody a request that came before and that it
\* conflicts with: only an upgrade overtakes (Blockers skips the queue for a holder).
THEOREM NobodyOvertakes == Spec => NoOvertaking
<1>1. ASSUME TypeOK, [Next]_vars,
             NEW t \in Transaction, NEW r \in Resource, holders[r][t] = None, holders'[r][t] # None
      PROVE  \/ \E m \in Mode : AcquireAtOnce(t, r, m)
             \/ waiting[t].resource = r /\ WakeGranted(t)
  <2>1. ASSUME NEW u \in Transaction, NEW q \in Resource, NEW m \in Mode, Grant(u, q, m)
        PROVE  u = t /\ q = r
    BY <1>1, <2>1 DEF Grant, TypeOK
  <2>2. holders' # holders
    BY <1>1
  <2>3. ASSUME NEW u \in Transaction, ReleaseAll(u) PROVE FALSE
    BY <1>1, <2>3 DEF ReleaseAll, TypeOK, Mode, None
  <2>4. ASSUME NEW u \in Transaction, WakeGranted(u)
        PROVE  u = t /\ waiting[t].resource = r
    <3>1. /\ Grant(u, waiting[u].resource, waiting[u].mode)
          /\ waiting[u].resource \in Resource /\ waiting[u].mode \in Mode
      BY <1>1, <2>4 DEF WakeGranted, MayWake, TypeOK, Request
    <3>2. QED
      BY <2>1, <3>1
  <2>5. ASSUME NEW u \in Transaction, NEW q \in Resource, NEW m \in Mode, AcquireAtOnce(u, q, m)
        PROVE  u = t /\ q = r
    BY <2>1, <2>5 DEF AcquireAtOnce
  <2>6. QED
    BY <1>1, <2>2, <2>3, <2>4, <2>5 DEF Next, Acquire, AcquireOf, AcquireRefused, AcquireWaits,
       Wake, WakeFails, WakeWaits, LeaveQueue, Expire, vars
<1>2. ASSUME TypeOK, [Next]_vars,
             NEW t \in Transaction, NEW r \in Resource, holders[r][t] = None, holders'[r][t] # None,
             NEW o \in Waiters \ {t}, waiting[o].resource = r, t \in Waiters => o \in earlier[t]
      PROVE  ~Conflict(holders'[r][t], waiting[o].mode)
  BY <1>1, <1>2, GrantsWaitTheirTurn
<1> DEFINE Passes(t, r, o) ==
      /\ waiting[o].resource = r
      /\ t \in Waiters => o \in earlier[t]
      /\ Conflict(holders'[r][t], waiting[o].mode)
<1>3. TypeOK /\ [Next]_vars =>
        \A t \in Transaction, r \in Resource :
          holders[r][t] = None /\ holders'[r][t] # None =>
            \A o \in Waiters \ {t} : Passes(t, r, o) => waiting'[o] = NoRequest
  BY <1>2
<1>4. QED
  BY <1>3, TypeCorrect, PTL DEF Spec, NoOvertaking

-----------------------------------------------------------------------------
(* StatementLocks. *)

\* What a statement holds while it waits comes before what it waits for.
WaitsUpwards ==
  \A t \in Waiters, q \in Resource :
    holders[q][t] # None => Place[q] < Place[waiting[t].resource]

\* A statement that asks in order finds no cycle through itself. Every request that could lead
\* to it waits for a table at or after the one it asks for, and whoever blocks such a request
\* waits, if at all, there or further on.
LEMMA NewcomerInOrderClosesNoCycle ==
  ASSUME TypeOK, TurnsOrderTheQueue, WaitsUpwards, NEW t \in Transaction,
         NEW r \in Resource, NEW m \in Mode, MayAsk(t, r, m), AsksInOrder(t, r, m)
  PROVE  ~ClosesACycle(Queued(t, r, m), Turns(t), t)
<1> DEFINE w == Queued(t, r, m)
           e == Turns(t)
           Beyond(u) == w[u] # NoRequest => Place[r] <= Place[w[u].resource]
           S == {u \in Transaction \ {t} : Beyond(u)}
<1>1. t \notin Waiters
  BY DEF MayAsk, Waiters
<1>2. /\ w[t] = [resource |-> r, mode |-> m]
      /\ \A u \in Transaction \ {t} : w[u] = waiting[u] /\ e[u] = earlier[u]
  BY DEF Queued, Turns, TypeOK
<1>3. w[t] # NoRequest /\ w[t].resource = r
  BY <1>2, NoneIsNotAResource DEF NoRequest
<1>4. \A q \in Resource : Place[q] \in Nat
  BY PlaceAssumption
<1>5. \A q \in Resource : holders[q][t] # None => Place[q] < Place[r]
  BY DEF AsksInOrder, Holding
<1>6. \A u \in Transaction \ {t} : w[u] # NoRequest => u \in Waiters /\ w[u].resource \in Resource
  BY <1>2 DEF Waiters, TypeOK, Request
\* The next request on a way that starts at a request for r or further on.
<1>7. ASSUME NEW u \in Transaction, w[u] # NoRequest, Beyond(u),
             NEW b \in Blockers(w, e, u)
      PROVE  b \in S
  <2>1. w[u].resource \in Resource /\ Place[r] <= Place[w[u].resource]
    BY <1>3, <1>4, <1>6, <1>7
  <2>2. CASE b \in ConflictingHolders(w, u)
    <3>1. b \in Transaction \ {u} /\ holders[w[u].resource][b] # None
      BY <2>2 DEF ConflictingHolders
    <3>2. b # t
      BY <1>4, <1>5, <2>1, <3>1
    <3>3. ASSUME w[b] # NoRequest PROVE Place[w[u].resource] < Place[w[b].resource]
      <4>1. b \in Waiters /\ w[b] = waiting[b]
        BY <1>2, <1>6, <3>1, <3>2, <3>3
      <4>2. QED
        BY <2>1, <3>1, <4>1 DEF WaitsUpwards
    <3>4. Beyond(b)
      BY <1>4, <1>6, <2>1, <3>1, <3>2, <3>3
    <3>5. QED
      BY <3>1, <3>2, <3>4
  <2>3. CASE b \in QueueBefore(w, e, u)
    <3>1. b \in e[u] \ {u} /\ w[b] # NoRequest /\ w[b].resource = w[u].resource
      BY <2>3 DEF QueueBefore
    <3>2. b \in Waiters
      <4>1. CASE u = t
        BY <3>1, <4>1 DEF Turns, TypeOK
      <4>2. CASE u # t
        BY <1>2, <3>1, <4>2 DEF TurnsOrderTheQueue
      <4>3. QED
        BY <4>1, <4>2
    <3>3. b \in Transaction /\ b # t
      BY <1>1, <3>2 DEF Waiters
    <3>4. QED
      BY <2>1, <3>1, <3>3
  <2>4. QED
    BY <1>7, <2>2, <2>3 DEF Blockers
<1>8. Blockers(w, e, t) \subseteq S
  BY <1>3, <1>4, <1>7
<1>9. ASSUME NEW u \in S PROVE Blockers(w, e, u) \subseteq S
  <2>1. CASE w[u] = NoRequest
    BY <2>1 DEF Blockers
  <2>2. CASE w[u] # NoRequest
    BY <1>7, <2>2
  <2>3. QED
    BY <2>1, <2>2
<1>10. S \in SUBSET Transaction /\ t \notin S
  OBVIOUS
<1> HIDE DEF w, e, S
<1>11. ~ClosesACycle(w, e, t)
  BY <1>8, <1>9, <1>10 DEF ClosesACycle
<1>12. QED
  BY <1>11 DEF w, e

\* Nobody takes a lock while it waits, and a request is for a table after all that its
\* transaction holds.
LEMMA StepsWaitUpwards ==
  ASSUME TypeOK, WaitsUpwards, [StatementNext]_vars
  PROVE  WaitsUpwards'
<1> USE DEF TypeOK
<1>1. ASSUME NEW t \in Transaction, NEW r \in Resource, NEW m \in Mode, Grant(t, r, m)
      PROVE  WaitsUpwards'
  BY <1>1 DEF Grant, Dequeue, WaitsUpwards, Waiters
<1>2. ASSUME NEW t \in Transaction, NEW x \in {"deadlock", "timeout"}, LeaveQueue(t, x)
      PROVE  WaitsUpwards'
  BY <1>2 DEF LeaveQueue, Dequeue, WaitsUpwards, Waiters
<1>3. ASSUME NEW t \in Transaction, NEW r \in Resource, NEW m \in Mode,
             AsksInOrder(t, r, m), AcquireWaits(t, r, m)
      PROVE  WaitsUpwards'
  <2>1. waiting' = [waiting EXCEPT ![t] = [resource |-> r, mode |-> m]] /\ holders' = holders
    BY <1>3 DEF AcquireWaits, Queued
  <2>2. \A q \in Resource : holders[q][t] # None => Place[q] < Place[r]
    BY <1>3 DEF AsksInOrder, Holding
  <2>3. QED
    BY <2>1, <2>2 DEF WaitsUpwards, Waiters
<1>4. ASSUME NEW t \in Transaction, ReleaseAll(t)
      PROVE  WaitsUpwards'
  BY <1>4 DEF ReleaseAll, WaitsUpwards, Waiters
<1>5. CASE UNCHANGED <<holders, waiting>>
  BY <1>5 DEF WaitsUpwards, Waiters
<1>6. ASSUME NEW t \in Transaction, LockFor(t) PROVE WaitsUpwards'
  <2>1. PICK r \in Resource, m \in Mode : AsksInOrder(t, r, m) /\ AcquireOf(t, r, m)
    BY <1>6 DEF LockFor
  <2>2. QED
    BY <1>1, <1>2, <1>3, <2>1 DEF AcquireOf, AcquireAtOnce, AcquireRefused
<1>7. ASSUME NEW t \in Transaction, Wake(t) PROVE WaitsUpwards'
  <2>1. CASE WakeGranted(t)
    <3>1. waiting[t].resource \in Resource /\ waiting[t].mode \in Mode
      BY <2>1 DEF WakeGranted, MayWake, Request
    <3>2. QED
      BY <1>1, <2>1, <3>1 DEF WakeGranted
  <2>2. CASE WakeFails(t)
    BY <1>2, <2>2 DEF WakeFails
  <2>3. CASE WakeWaits(t)
    BY <1>5, <2>3 DEF WakeWaits
  <2>4. QED
    BY <1>7, <2>1, <2>2, <2>3 DEF Wake
<1>8. QED
  BY <1>4, <1>5, <1>6, <1>7 DEF StatementNext, Expire, vars

\* Statements that ask in the order of the names are never victims: an arrival closes no
\* cycle, and a thread that wakes never finds one.
LEMMA StatementStepsRefuseNobody ==
  ASSUME TypeOK, TurnsOrderTheQueue, NoUndetectedDeadlock, WaitsUpwards,
         AutocommitNeverDeadlocks, [StatementNext]_vars
  PROVE  AutocommitNeverDeadlocks'
<1> USE DEF TypeOK, Outcome, AutocommitNeverDeadlocks
<1>1. ASSUME NEW t \in Transaction, LockFor(t) PROVE AutocommitNeverDeadlocks'
  <2>1. PICK r \in Resource, m \in Mode : AsksInOrder(t, r, m) /\ AcquireOf(t, r, m)
    BY <1>1 DEF LockFor
  <2>2. ~AcquireRefused(t, r, m)
    BY <2>1, NewcomerInOrderClosesNoCycle DEF AcquireRefused
  <2>3. QED
    BY <2>1, <2>2 DEF AcquireOf, AcquireAtOnce, AcquireWaits, Grant
<1>2. ASSUME NEW t \in Transaction, Wake(t) PROVE AutocommitNeverDeadlocks'
  <2>1. ~ClosesACycle(waiting, earlier, t)
    BY NoCycleOnWaking
  <2>2. QED
    BY <1>2, <2>1 DEF Wake, WakeGranted, WakeFails, WakeWaits, Grant, LeaveQueue
<1>3. ASSUME NEW t \in Transaction, Expire(t) \/ ReleaseAll(t) PROVE AutocommitNeverDeadlocks'
  BY <1>3 DEF Expire, ReleaseAll
<1>4. QED
  BY <1>1, <1>2, <1>3 DEF StatementNext, vars

LEMMA StatementsAreCallers == [StatementNext]_vars => [Next]_vars
BY DEF StatementNext, Next, LockFor, Acquire

\* The search for cycles of the lock manager never finds one among autocommit statements
\* (Session._lock_for), however many there are, whatever they wait for and whenever their
\* deadlines pass.
THEOREM StatementsAreNeverVictims == StatementSpec => []AutocommitNeverDeadlocks
<1>1. StatementSpec => Spec
  BY StatementsAreCallers, PTL DEF StatementSpec, Spec
<1>2. Init => WaitsUpwards /\ AutocommitNeverDeadlocks
  BY DEF Init, WaitsUpwards, Waiters, AutocommitNeverDeadlocks
<1>3. StatementSpec => []WaitsUpwards
  BY <1>1, <1>2, TypeCorrect, StepsWaitUpwards, PTL DEF StatementSpec
<1>4. QED
  BY <1>1, <1>2, <1>3, TypeCorrect, TurnsAreAnOrder, DeadlocksAreDetected,
     StatementStepsRefuseNobody, PTL DEF StatementSpec

\* The same where the callers keep the discipline or do not.
THEOREM DisciplineAvoidsDeadlocks == DisciplineSpec => []StatementsNeverDeadlock
<1> DEFINE Ordered == discipline = "statements" => WaitsUpwards
<1>1. DisciplineSpec => Spec
  <2>1. [DisciplineNext]_<<vars, discipline>> => [Next]_vars
    BY StatementsAreCallers DEF DisciplineNext
  <2>2. QED
    BY <2>1, PTL DEF DisciplineSpec, DisciplineInit, Spec
<1>2. DisciplineInit => Ordered /\ StatementsNeverDeadlock
  BY DEF DisciplineInit, Init, WaitsUpwards, Waiters, StatementsNeverDeadlock,
         AutocommitNeverDeadlocks
<1>3. TypeOK /\ Ordered /\ [DisciplineNext]_<<vars, discipline>> => Ordered'
  BY StepsWaitUpwards DEF DisciplineNext
<1>4. /\ TypeOK /\ TurnsOrderTheQueue /\ NoUndetectedDeadlock /\ Ordered
      /\ StatementsNeverDeadlock /\ [DisciplineNext]_<<vars, discipline>>
      => StatementsNeverDeadlock'
  BY StatementStepsRefuseNobody DEF DisciplineNext, StatementsNeverDeadlock
<1>5. QED
  BY <1>1, <1>2, <1>3, <1>4, TypeCorrect, TurnsAreAnOrder, DeadlocksAreDetected, PTL
     DEF DisciplineSpec

=============================================================================
