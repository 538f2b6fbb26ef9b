------------------------ MODULE SessionServiceProofs ------------------------
(* Proofs about SessionService, for any names, slots and finite pool of threads. *)
EXTENDS SessionService, FiniteSetTheorems, TLAPS

Closes(th, s) == s \in task[th].toClose \/ (task[th].at = "closing" /\ task[th].slot = s)

\* What a thread has in its hands where it is.
Placed(th) ==
  /\ task[th].at \in Claimed \cup {"closing"} <=> task[th].slot # NoSlot
  /\ task[th].at \notin {"expiring", "stopping"} => task[th].toClose = {}

\* A slot that a request uses and nobody finds by name was asked to close, and one that was
\* asked to close is found by nobody.
Remembers(s) ==
  /\ s \in closing => ~Registered(s)
  /\ Claimants(s) # {} /\ ~Registered(s) => s \in closing

\* From Service.close on there is one thread at work, on slots that have no name.
Stopped ==
  /\ \A th \in Thread : task[th].at = "stopping" => server = "stopping"
  /\ server # "up" =>
       /\ \A s \in Slot : ~Registered(s)
       /\ \A th \in Thread : task[th].at \in {"idle", "stopping"}
       /\ \A th, u \in Thread : task[th].at = "stopping" /\ u # th => task[u].at = "idle"

ServiceInv ==
  /\ TypeOK
  /\ \A th \in Thread : Placed(th)
  /\ \A s \in Slot : Remembers(s)
  /\ Stopped
  /\ ClosedAlone
  /\ NoOrphanTransaction

-----------------------------------------------------------------------------
(* Counting requests. *)

LEMMA ClaimantsAreFinite == ASSUME NEW s PROVE IsFiniteSet(Claimants(s))
BY ThreadsAreFinite, FS_Subset DEF Claimants

\* The count of a slot says whether it has a request, and whether that is the only one.
LEMMA CountsTell ==
  ASSUME TypeOK, NEW s \in Slot
  PROVE  /\ requests[s] = 0 <=> Claimants(s) = {}
         /\ \A th \in Claimants(s) : requests[s] = 1 => Claimants(s) = {th}
<1>1. requests[s] = Cardinality(Claimants(s)) /\ IsFiniteSet(Claimants(s))
  BY ClaimantsAreFinite DEF TypeOK
<1>2. requests[s] = 0 <=> Claimants(s) = {}
  BY <1>1, FS_EmptySet
<1>3. ASSUME NEW th \in Claimants(s), requests[s] = 1 PROVE Claimants(s) = {th}
  <2>1. PICK u : Claimants(s) = {u}
    BY <1>1, <1>3, FS_Singleton
  <2>2. QED
    BY <1>3, <2>1
<1>4. QED
  BY <1>2, <1>3

\* A thread that neither claims nor lets go of a slot leaves every count right.
LEMMA ClaimsStay ==
  ASSUME TypeOK, NEW th \in Thread, task' \in [Thread -> Task], requests' = requests,
         \A u \in Thread \ {th} : task'[u] = task[u],
         \/ task'[th].slot = task[th].slot /\ (task'[th].at \in Claimed <=> task[th].at \in Claimed)
         \/ task'[th].at \notin Claimed /\ task[th].at \notin Claimed
  PROVE  /\ \A s \in Slot : Claimants(s)' = Claimants(s)
         /\ \A s \in Slot : requests'[s] = Cardinality(Claimants(s)')
BY DEF TypeOK, Claimants

LEMMA ClaimCounts ==
  ASSUME TypeOK, NEW th \in Thread, NEW id \in Id, Claim(th, id)
  PROVE  /\ requests' \in [Slot -> Nat]
         /\ \A s \in Slot : requests'[s] = Cardinality(Claimants(s)')
<1>1. PICK x \in Slot :
        /\ requests' = [requests EXCEPT ![x] = @ + 1]
        /\ task' = [task EXCEPT ![th] = [at |-> "expiring", slot |-> x,
                                         toClose |-> Expired(id), failed |-> FALSE]]
  BY DEF Claim, Fresh, TypeOK
<1>2. task[th].at = "idle"
  BY DEF Claim, MayStart
<1>3. th \notin Claimants(x)
  BY <1>2 DEF Claimants, Claimed
<1>4. Claimants(x)' = Claimants(x) \cup {th}
  BY <1>1, <1>2 DEF Claimants, Claimed, TypeOK
<1>5. \A s \in Slot \ {x} : Claimants(s)' = Claimants(s)
  BY <1>1, <1>2 DEF Claimants, Claimed, TypeOK
<1>6. Cardinality(Claimants(x)') = requests[x] + 1
  <2>1. IsFiniteSet(Claimants(x)) /\ requests[x] = Cardinality(Claimants(x))
    BY ClaimantsAreFinite DEF TypeOK
  <2>2. Cardinality(Claimants(x) \cup {th}) = Cardinality(Claimants(x)) + 1
    BY <1>3, <2>1, FS_AddElement
  <2>3. QED
    BY <1>4, <2>1, <2>2
<1>7. QED
  BY <1>1, <1>5, <1>6 DEF TypeOK

LEMMA ReleaseCounts ==
  ASSUME TypeOK, NEW th \in Thread, Placed(th), Release(th)
  PROVE  /\ requests' \in [Slot -> Nat]
         /\ \A s \in Slot : requests'[s] = Cardinality(Claimants(s)')
         /\ \A s \in Slot : Claimants(s)' = Claimants(s) \ {th}
<1>1. PICK x \in Slot :
        /\ task[th].slot = x /\ task[th].at = "releasing"
        /\ requests' = [requests EXCEPT ![x] = @ - 1]
        /\ task' = [task EXCEPT ![th] = IF PendingClose(x)
                                        THEN [NoTask EXCEPT !.at = "closing", !.slot = x] ELSE NoTask]
  BY DEF Release, Discount, Placed, Claimed, TypeOK, Task
<1>2. th \in Claimants(x)
  BY <1>1 DEF Claimants, Claimed
<1>3. task'[th].at \notin Claimed /\ \A u \in Thread \ {th} : task'[u] = task[u]
  BY <1>1 DEF NoTask, Claimed, TypeOK
<1>4. \A s \in Slot : Claimants(s)' = Claimants(s) \ {th}
  BY <1>3 DEF Claimants
<1>5. \A s \in Slot \ {x} : Claimants(s)' = Claimants(s)
  BY <1>1, <1>4 DEF Claimants
<1>6. Cardinality(Claimants(x)') = requests[x] - 1 /\ requests[x] # 0
  <2>1. IsFiniteSet(Claimants(x)) /\ requests[x] = Cardinality(Claimants(x))
    BY ClaimantsAreFinite DEF TypeOK
  <2>2. Cardinality(Claimants(x) \ {th}) = Cardinality(Claimants(x)) - 1
    BY <1>2, <2>1, FS_RemoveElement
  <2>3. requests[x] # 0
    BY <1>2, CountsTell
  <2>4. QED
    BY <1>2, <1>4, <2>1, <2>2, <2>3
<1>7. QED
  BY <1>1, <1>4, <1>5, <1>6 DEF TypeOK

-----------------------------------------------------------------------------
(* The steps that change neither the registry nor a count. *)

\* From place to place with the same slot in hand, claimed or not.
Strolls(th) == Anonymous(th) \/ AnonymousEnds(th) \/ OthersClosed(th) \/ Enter(th) \/ Leave(th)

LEMMA StrollsKeep ==
  ASSUME ServiceInv, NEW th \in Thread, Strolls(th)
  PROVE  ServiceInv'
<1> USE DEF ServiceInv
<1>1. PICK at \in Location :
        /\ task' = [task EXCEPT ![th].at = at]
        /\ at \in Claimed <=> task[th].at \in Claimed
        /\ at \notin {"expiring", "stopping", "closing"}
        /\ task[th].at \notin {"stopping", "closing"}
        /\ task[th].toClose = {}
        /\ UNCHANGED <<registry, requests, closing, stale, open, server>>
        /\ server # "up" => at = "idle" /\ task[th].at = "idle"
  BY DEF Strolls, Anonymous, AnonymousEnds, OthersClosed, Enter, Leave, MayStart, Go,
         Placed, Claimed, Location, Stopped
<1>2. /\ task' \in [Thread -> Task]
      /\ task'[th] = [task[th] EXCEPT !.at = at]
      /\ \A u \in Thread \ {th} : task'[u] = task[u]
  BY <1>1 DEF TypeOK, Task
<1>3. /\ task'[th].slot = task[th].slot /\ task'[th].at = at
      /\ task'[th].toClose = {}
  BY <1>1, <1>2 DEF TypeOK, Task
<1>4. /\ \A s \in Slot : Claimants(s)' = Claimants(s)
      /\ \A s \in Slot : requests'[s] = Cardinality(Claimants(s)')
  BY <1>1, <1>2, <1>3, ClaimsStay
<1>5. TypeOK'
  BY <1>1, <1>2, <1>4 DEF TypeOK
<1>6. \A u \in Thread : Placed(u)'
  BY <1>1, <1>2, <1>3 DEF Placed
<1>7. \A s \in Slot : Registered(s)' <=> Registered(s)
  BY <1>1 DEF Registered
<1>8. \A s \in Slot : Remembers(s)'
  BY <1>1, <1>4, <1>7 DEF Remembers
<1>9. Stopped'
  BY <1>1, <1>2, <1>3, <1>7 DEF Stopped
<1>10. \A u \in Thread, s \in Slot : Closes(u, s)' <=> Closes(u, s)
  BY <1>1, <1>2, <1>3 DEF Closes
<1>11. ClosedAlone'
  BY <1>1, <1>2, <1>3, <1>7, <1>10 DEF ClosedAlone, Closes
<1>12. NoOrphanTransaction'
  BY <1>1, <1>7, <1>10 DEF NoOrphanTransaction, Closes, TypeOK
<1>13. QED
  BY <1>5, <1>6, <1>8, <1>9, <1>11, <1>12

\* A session opens or ends a transaction while a request uses it.
LEMMA WorkKeeps ==
  ASSUME ServiceInv, NEW th \in Thread, Work(th)
  PROVE  ServiceInv'
<1> USE DEF ServiceInv
<1>1. /\ task[th].at = "working" /\ task[th].slot \in Slot
      /\ open' \subseteq open \cup {task[th].slot}
      /\ UNCHANGED <<registry, requests, closing, stale, task, server>>
  BY DEF Work, Placed, Claimed, TypeOK, Task
<1>2. \A s : Registered(s)' <=> Registered(s)
  BY <1>1 DEF Registered
<1>3. TypeOK' /\ Stopped' /\ ClosedAlone' /\ \A u \in Thread : Placed(u)'
  BY <1>1, <1>2 DEF TypeOK, Claimants, Stopped, ClosedAlone, Placed
<1>4. \A s \in Slot : Remembers(s)'
  BY <1>1, <1>2 DEF Remembers, Claimants
<1>5. th \in Claimants(task[th].slot)
  BY <1>1 DEF Claimants, Claimed
<1>6. Registered(task[th].slot) \/ (task[th].slot \in closing /\ requests[task[th].slot] > 0)
  BY <1>1, <1>5, CountsTell DEF Remembers, TypeOK
<1>7. NoOrphanTransaction'
  BY <1>1, <1>2, <1>6 DEF NoOrphanTransaction, TypeOK
<1>8. QED
  BY <1>3, <1>4, <1>7

\* A session that was closed has no transaction, and nobody had it but who closed it.
LEMMA ClosingKeeps ==
  ASSUME ServiceInv, NEW th \in Thread, CloseOther(th) \/ CloseOwn(th)
  PROVE  ServiceInv'
<1> USE DEF ServiceInv
<1>1. PICK x \in Slot :
        /\ Closes(th, x)
        /\ open' = open \ {x}
        /\ \A u \in Thread \ {th} : task'[u] = task[u]
        /\ task' \in [Thread -> Task]
        /\ \/ /\ task'[th].at = task[th].at /\ task'[th].slot = task[th].slot
              /\ task[th].at \in {"expiring", "stopping"} /\ task'[th].toClose = task[th].toClose \ {x}
           \/ /\ task'[th] = NoTask /\ task[th].at = "closing" /\ task[th].slot = x
              /\ task[th].toClose = {}
        /\ UNCHANGED <<registry, requests, closing, stale, server>>
  <2>1. CASE CloseOther(th)
    <3>1. PICK x \in task[th].toClose, raises \in BOOLEAN :
            /\ open' = open \ {x}
            /\ task' = [task EXCEPT ![th].toClose = @ \ {x}, ![th].failed = @ \/ raises]
      BY <2>1 DEF CloseOther
    <3>2. task[th] \in Task /\ x \in Slot
      BY DEF TypeOK, Task
    <3>3. task'[th] = [task[th] EXCEPT !.toClose = @ \ {x}, !.failed = @ \/ raises]
      BY <3>1, <3>2 DEF TypeOK
    <3>4. task'[th] \in Task
      BY <3>2, <3>3 DEF Task
    <3>5. QED
      BY <2>1, <3>1, <3>2, <3>3, <3>4 DEF CloseOther, Closes, TypeOK, Task
  <2>2. CASE CloseOwn(th)
    BY <2>2 DEF CloseOwn, Closes, Placed, TypeOK, Task, NoTask, Location
  <2>3. QED
    BY <2>1, <2>2
<1>2. /\ NoTask.at = "idle" /\ NoTask.slot = NoSlot /\ NoTask.toClose = {}
  BY DEF NoTask
<1>3. /\ \A s \in Slot : Claimants(s)' = Claimants(s)
      /\ \A s \in Slot : requests'[s] = Cardinality(Claimants(s)')
  BY <1>1, <1>2, ClaimsStay DEF Claimed
<1>4. TypeOK'
  BY <1>1, <1>3 DEF TypeOK
<1>5. \A u \in Thread : Placed(u)'
  BY <1>1, <1>2 DEF Placed, Claimed
<1>6. \A s : Registered(s)' <=> Registered(s)
  BY <1>1 DEF Registered
<1>7. \A s \in Slot : Remembers(s)'
  BY <1>1, <1>3, <1>6 DEF Remembers
<1>8. Stopped'
  BY <1>1, <1>2, <1>6 DEF Stopped
<1>9. \A u \in Thread, s \in Slot \ {x} : Closes(u, s)' <=> Closes(u, s)
  BY <1>1, <1>2 DEF Closes
<1>10. \A u \in Thread : Closes(u, x)' => Closes(u, x)
  BY <1>1, <1>2 DEF Closes
<1>11. ClosedAlone'
  BY <1>1, <1>2, <1>6, <1>9, <1>10, NoSlotAssumption DEF ClosedAlone, Closes
<1>12. NoOrphanTransaction'
  BY <1>1, <1>6, <1>9 DEF NoOrphanTransaction, Closes, TypeOK
<1>13. QED
  BY <1>4, <1>5, <1>7, <1>8, <1>11, <1>12

-----------------------------------------------------------------------------
(* The steps that move slots in and out of the registry, and counts. *)

\* A slot of the registry is used by its requests and by nobody else.
LEMMA RegisteredIsNotClosed ==
  ASSUME ServiceInv, NEW s \in Slot, Registered(s)
  PROVE  /\ s \notin closing
         /\ \A u \in Thread : ~Closes(u, s)
         /\ requests[s] = 0 => \A u \in Thread : task[u].slot # s
<1> USE DEF ServiceInv
<1>1. s \notin closing
  BY DEF Remembers
<1>2. \A u \in Thread : ~Closes(u, s)
  BY DEF ClosedAlone, Closes
<1>3. ASSUME requests[s] = 0, NEW u \in Thread, task[u].slot = s PROVE FALSE
  <2>1. task[u].at \notin Claimed
    BY <1>3, CountsTell DEF Claimants
  <2>2. task[u].at = "closing"
    BY <1>3, <2>1, NoSlotAssumption DEF Placed
  <2>3. QED
    BY <1>2, <1>3, <2>2 DEF Closes
<1>4. QED
  BY <1>1, <1>2, <1>3

\* A claim takes its slot from the registry or adds a fresh one, and takes the expired out.
LEMMA ClaimKeeps ==
  ASSUME ServiceInv, NEW th \in Thread, NEW id \in Id, Claim(th, id)
  PROVE  ServiceInv'
<1> USE DEF ServiceInv
<1> DEFINE E == Expired(id)
<1>1. PICK x \in Slot :
        /\ registry[id] = x \/ (registry[id] = NoSlot /\ x \in Fresh)
        /\ registry' = [Without(E) EXCEPT ![id] = x]
        /\ requests' = [requests EXCEPT ![x] = @ + 1]
        /\ closing' = IF registry[id] = NoSlot THEN closing \ {x} ELSE closing
        /\ stale' \subseteq stale
        /\ task' = [task EXCEPT ![th] = [at |-> "expiring", slot |-> x, toClose |-> E, failed |-> FALSE]]
        /\ UNCHANGED <<open, server>>
        /\ server = "up" /\ task[th].at = "idle"
  BY DEF Claim, MayStart, Fresh, TypeOK
<1>2. \A y \in E : y \in Slot /\ Registered(y) /\ requests[y] = 0 /\ y # x
  BY <1>1, NoSlotAssumption DEF Expired, Registered, Fresh, TypeOK
<1>3. task[th].slot = NoSlot /\ task[th].toClose = {}
  BY <1>1 DEF Placed, Claimed
<1>4. /\ \A u \in Thread \ {th} : task'[u] = task[u]
      /\ task'[th] = [at |-> "expiring", slot |-> x, toClose |-> E, failed |-> FALSE]
  BY <1>1 DEF TypeOK
<1>5. task' \in [Thread -> Task]
  BY <1>1, <1>2 DEF TypeOK, Task, Location
<1>6. \A i \in Id : registry'[i] = IF i = id THEN x ELSE IF registry[i] \in E THEN NoSlot ELSE registry[i]
  BY <1>1 DEF Without
<1> HIDE DEF E
<1>7. \A s \in Slot : Registered(s)' <=> s = x \/ (Registered(s) /\ s \notin E)
  BY <1>1, <1>2, <1>6, NoSlotAssumption DEF Registered, TypeOK
<1>8. TypeOK'
  <2>1. registry' \in [Id -> Slot \cup {NoSlot}]
    BY <1>1 DEF Without, TypeOK
  <2>2. \A i, j \in Id : registry'[i] = registry'[j] /\ registry'[i] # NoSlot => i = j
    BY <1>1, <1>6, NoSlotAssumption DEF Fresh, Registered, TypeOK
  <2>3. QED
    BY <1>1, <1>5, <2>1, <2>2, ClaimCounts DEF TypeOK
<1>9. \A u \in Thread : Placed(u)'
  BY <1>4, NoSlotAssumption DEF Placed, Claimed
<1>10. /\ \A s \in Slot \ {x} : Claimants(s)' = Claimants(s) /\ requests'[s] = requests[s]
       /\ requests[x] \in Nat /\ requests'[x] = requests[x] + 1
  BY <1>1, <1>3, <1>4, NoSlotAssumption DEF Claimants, TypeOK
<1>11. x \notin closing'
  BY <1>1, RegisteredIsNotClosed DEF Registered
<1>12. \A s \in Slot : Remembers(s)'
  <2>1. Remembers(x)'
    BY <1>7, <1>11 DEF Remembers
  <2>2. ASSUME NEW s \in Slot \ {x} PROVE Remembers(s)'
    <3>1. s \in closing' <=> s \in closing
      BY <1>1
    <3>2. s \in E => Claimants(s) = {}
      BY <1>2, CountsTell
    <3>3. QED
      BY <1>7, <1>10, <3>1, <3>2 DEF Remembers
  <2>3. QED
    BY <2>1, <2>2
<1>13. Stopped'
  BY <1>1, <1>4 DEF Stopped
<1>14. /\ \A u \in Thread \ {th}, s \in Slot : Closes(u, s)' <=> Closes(u, s)
       /\ \A s \in Slot : Closes(th, s)' <=> s \in E
       /\ \A s \in Slot : ~Closes(th, s)
  BY <1>1, <1>3, <1>4 DEF Closes
<1>15. \A u \in Thread : ~Closes(u, x) /\ (u # th => x \notin task[u].toClose)
  BY <1>1, RegisteredIsNotClosed DEF Registered, Fresh, Closes
<1>16. ASSUME NEW u \in Thread, NEW s \in Slot, Closes(u, s)'
       PROVE  /\ ~Registered(s)' /\ requests'[s] = 0
              /\ \A v \in Thread \ {u} : s \notin task'[v].toClose /\ task'[v].slot # s
  <2>1. CASE u = th
    <3>1. s \in E /\ s # x /\ Registered(s) /\ requests[s] = 0
      BY <1>2, <1>14, <1>16, <2>1
    <3>2. \A v \in Thread : s \notin task[v].toClose /\ task[v].slot # s
      BY <3>1, RegisteredIsNotClosed DEF Closes
    <3>3. QED
      BY <1>4, <1>7, <1>10, <2>1, <3>1, <3>2
  <2>2. CASE u # th
    <3>1. Closes(u, s) /\ s # x
      BY <1>14, <1>15, <1>16, <2>2
    <3>2. ~Registered(s) /\ s \notin E /\ requests[s] = 0
      BY <1>2, <3>1 DEF ClosedAlone, Closes
    <3>3. \A v \in Thread \ {u} : s \notin task[v].toClose /\ task[v].slot # s
      BY <3>1 DEF ClosedAlone, Closes
    <3>4. QED
      BY <1>4, <1>7, <1>10, <2>2, <3>1, <3>2, <3>3
  <2>3. QED
    BY <2>1, <2>2
<1>17. ClosedAlone'
  BY <1>16 DEF ClosedAlone, Closes
<1>18. NoOrphanTransaction'
  <2>1. ASSUME NEW s \in open
        PROVE  Registered(s)' \/ (s \in closing' /\ requests'[s] > 0) \/ \E u \in Thread : Closes(u, s)'
    <3>1. s \in Slot
      BY DEF TypeOK
    <3>2. CASE s = x \/ s \in E
      BY <1>7, <1>14, <3>1, <3>2
    <3>3. CASE s # x /\ s \notin E
      <4>1. Registered(s) \/ (s \in closing /\ requests[s] > 0) \/ \E u \in Thread : Closes(u, s)
        BY DEF NoOrphanTransaction, Closes
      <4>2. QED
        BY <1>1, <1>7, <1>10, <1>14, <3>1, <3>3, <4>1
    <3>4. QED
      BY <3>2, <3>3
  <2>2. QED
    BY <1>1, <2>1 DEF NoOrphanTransaction, Closes
<1>19. QED
  BY <1>8, <1>9, <1>12, <1>13, <1>17, <1>18

\* The last request of a session that somebody asked to close finds it alone.
LEMMA ReleaseKeeps ==
  ASSUME ServiceInv, NEW th \in Thread, Release(th)
  PROVE  ServiceInv'
<1> USE DEF ServiceInv
<1>1. PICK x \in Slot :
        /\ task[th].slot = x /\ task[th].at = "releasing"
        /\ requests' = [requests EXCEPT ![x] = @ - 1]
        /\ stale' \subseteq stale
        /\ task' = [task EXCEPT ![th] = IF PendingClose(x)
                                        THEN [NoTask EXCEPT !.at = "closing", !.slot = x] ELSE NoTask]
        /\ UNCHANGED <<registry, closing, open, server>>
  BY DEF Release, Discount, Placed, Claimed, TypeOK, Task
<1>2. /\ \A u \in Thread \ {th} : task'[u] = task[u]
      /\ task'[th].toClose = {}
      /\ PendingClose(x) => task'[th].at = "closing" /\ task'[th].slot = x
      /\ ~PendingClose(x) => task'[th].at = "idle" /\ task'[th].slot = NoSlot
      /\ task' \in [Thread -> Task]
  BY <1>1 DEF TypeOK, NoTask, Task, Location
<1>3. /\ \A s : Registered(s)' <=> Registered(s)
      /\ \A s \in Slot : Claimants(s)' = Claimants(s) \ {th}
      /\ \A s \in Slot \ {x} : requests'[s] = requests[s]
  BY <1>1, ReleaseCounts DEF Registered, TypeOK
<1>4. th \in Claimants(x) /\ requests[x] \in Nat \ {0} /\ requests'[x] = requests[x] - 1
  BY <1>1, CountsTell DEF Claimants, Claimed, TypeOK
<1>5. TypeOK'
  BY <1>1, <1>2, ReleaseCounts DEF TypeOK
<1>6. \A u \in Thread : Placed(u)'
  BY <1>2, NoSlotAssumption DEF Placed, Claimed
<1>7. \A s \in Slot : Remembers(s)'
  BY <1>1, <1>3 DEF Remembers
<1>8. Stopped'
  BY <1>1, <1>2, <1>3 DEF Stopped
<1>9. /\ \A u \in Thread \ {th}, s \in Slot : Closes(u, s)' <=> Closes(u, s)
      /\ \A s \in Slot : Closes(th, s)' <=> s = x /\ PendingClose(x)
      /\ \A s \in Slot : ~Closes(th, s)
  BY <1>1, <1>2 DEF Closes, Placed
<1>10. \A u \in Thread : ~Closes(u, x)
  BY <1>4 DEF ClosedAlone, Closes
<1>11. ASSUME NEW u \in Thread, NEW s \in Slot, Closes(u, s)'
       PROVE  /\ ~Registered(s)' /\ requests'[s] = 0
              /\ \A v \in Thread \ {u} : s \notin task'[v].toClose /\ task'[v].slot # s
  <2>1. CASE u = th
    <3>1. s = x /\ x \in closing /\ requests[x] = 1
      BY <1>9, <1>11, <2>1 DEF PendingClose
    <3>2. Claimants(x) = {th}
      BY <1>4, <3>1, CountsTell
    <3>3. ASSUME NEW v \in Thread \ {th} PROVE x \notin task[v].toClose /\ task[v].slot # x
      BY <1>10, <3>2, NoSlotAssumption DEF Closes, Placed, Claimants
    <3>4. QED
      BY <1>2, <1>3, <1>4, <2>1, <3>1, <3>3 DEF Remembers
  <2>2. CASE u # th
    <3>1. Closes(u, s) /\ s # x
      BY <1>9, <1>10, <1>11, <2>2
    <3>2. /\ ~Registered(s) /\ requests[s] = 0
          /\ \A v \in Thread \ {u} : s \notin task[v].toClose /\ task[v].slot # s
      BY <3>1 DEF ClosedAlone, Closes
    <3>3. QED
      BY <1>2, <1>3, <3>1, <3>2, NoSlotAssumption
  <2>3. QED
    BY <2>1, <2>2
<1>12. ClosedAlone'
  BY <1>11 DEF ClosedAlone, Closes
<1>13. NoOrphanTransaction'
  <2>1. ASSUME NEW s \in open
        PROVE  Registered(s)' \/ (s \in closing' /\ requests'[s] > 0) \/ \E u \in Thread : Closes(u, s)'
    <3>1. s \in Slot
      BY DEF TypeOK
    <3>2. CASE s = x
      <4>1. Registered(x) \/ x \in closing
        BY <1>4 DEF Remembers
      <4>2. x \in closing => PendingClose(x) \/ requests'[x] > 0
        BY <1>4 DEF PendingClose
      <4>3. QED
        BY <1>1, <1>3, <1>9, <3>2, <4>1, <4>2
    <3>3. CASE s # x
      <4>1. Registered(s) \/ (s \in closing /\ requests[s] > 0) \/ \E u \in Thread : Closes(u, s)
        BY DEF NoOrphanTransaction, Closes
      <4>2. QED
        BY <1>1, <1>3, <1>9, <3>1, <3>3, <4>1
    <3>4. QED
      BY <3>2, <3>3
  <2>2. QED
    BY <1>1, <2>1 DEF NoOrphanTransaction, Closes
<1>14. QED
  BY <1>5, <1>6, <1>7, <1>8, <1>12, <1>13

\* A session that is closed by its name is closed here only if nobody uses it.
LEMMA CloseSessionKeeps ==
  ASSUME ServiceInv, NEW th \in Thread, NEW id \in Id, CloseSession(th, id)
  PROVE  ServiceInv'
<1> USE DEF ServiceInv
<1>1. PICK x \in Slot :
        /\ registry[id] = x
        /\ registry' = Without({x})
        /\ closing' = closing \cup {x}
        /\ task' = IF requests[x] = 0
                   THEN [task EXCEPT ![th] = [NoTask EXCEPT !.at = "closing", !.slot = x]] ELSE task
        /\ UNCHANGED <<requests, stale, open, server>>
        /\ server = "up" /\ task[th].at = "idle"
  BY DEF CloseSession, MayStart, TypeOK
<1>2. task[th].slot = NoSlot /\ task[th].toClose = {}
  BY <1>1 DEF Placed, Claimed
<1>3. /\ \A u \in Thread \ {th} : task'[u] = task[u]
      /\ task'[th].toClose = {}
      /\ requests[x] = 0 => task'[th].at = "closing" /\ task'[th].slot = x
      /\ requests[x] # 0 => task'[th] = task[th]
      /\ task' \in [Thread -> Task]
  BY <1>1, <1>2 DEF TypeOK, NoTask, Task, Location
<1>4. \A i \in Id : registry'[i] = IF registry[i] = x THEN NoSlot ELSE registry[i]
  BY <1>1 DEF Without
<1>5. \A s \in Slot : Registered(s)' <=> Registered(s) /\ s # x
  BY <1>1, <1>4, NoSlotAssumption DEF Registered
<1>6. /\ \A s \in Slot : Claimants(s)' = Claimants(s)
      /\ \A s \in Slot : requests'[s] = Cardinality(Claimants(s)')
  <2>1. CASE requests[x] = 0
    BY <1>1, <1>3, <2>1, ClaimsStay DEF Claimed
  <2>2. CASE requests[x] # 0
    BY <1>1, <1>3, <2>2, ClaimsStay
  <2>3. QED
    BY <2>1, <2>2
<1>7. TypeOK'
  <2>1. registry' \in [Id -> Slot \cup {NoSlot}]
    BY <1>1 DEF Without, TypeOK
  <2>2. \A i, j \in Id : registry'[i] = registry'[j] /\ registry'[i] # NoSlot => i = j
    BY <1>4 DEF TypeOK
  <2>3. QED
    BY <1>1, <1>3, <1>6, <2>1, <2>2 DEF TypeOK
<1>8. \A u \in Thread : Placed(u)'
  BY <1>2, <1>3, NoSlotAssumption DEF Placed, Claimed
<1>9. \A s \in Slot : Remembers(s)'
  BY <1>1, <1>5, <1>6 DEF Remembers
<1>10. Stopped'
  BY <1>1, <1>3 DEF Stopped
<1>11. /\ ~Closes(th, x) /\ Registered(x)
       /\ requests[x] = 0 => \A u \in Thread : task[u].slot # x /\ x \notin task[u].toClose
       /\ \A u \in Thread : ~Closes(u, x)
  BY <1>1, RegisteredIsNotClosed DEF Registered, Closes
<1>12. /\ \A u \in Thread, s \in Slot \ {x} : Closes(u, s)' <=> Closes(u, s)
       /\ \A u \in Thread : Closes(u, x)' <=> u = th /\ requests[x] = 0
  BY <1>1, <1>2, <1>3, <1>11 DEF Closes
<1>13. ASSUME NEW u \in Thread, NEW s \in Slot, Closes(u, s)'
       PROVE  /\ ~Registered(s)' /\ requests'[s] = 0
              /\ \A v \in Thread \ {u} : s \notin task'[v].toClose /\ task'[v].slot # s
  <2>1. CASE s = x
    BY <1>1, <1>3, <1>5, <1>11, <1>12, <1>13, <2>1
  <2>2. CASE s # x
    <3>1. Closes(u, s)
      BY <1>12, <1>13, <2>2
    <3>2. /\ ~Registered(s) /\ requests[s] = 0
          /\ \A v \in Thread \ {u} : s \notin task[v].toClose /\ task[v].slot # s
      BY <3>1 DEF ClosedAlone, Closes
    <3>3. QED
      BY <1>1, <1>3, <1>5, <2>2, <3>2
  <2>3. QED
    BY <2>1, <2>2
<1>14. ClosedAlone'
  BY <1>13 DEF ClosedAlone, Closes
<1>15. NoOrphanTransaction'
  <2>1. ASSUME NEW s \in open
        PROVE  Registered(s)' \/ (s \in closing' /\ requests'[s] > 0) \/ \E u \in Thread : Closes(u, s)'
    <3>1. s \in Slot
      BY DEF TypeOK
    <3>2. CASE s = x
      BY <1>1, <1>12, <3>2 DEF TypeOK
    <3>3. CASE s # x
      <4>1. Registered(s) \/ (s \in closing /\ requests[s] > 0) \/ \E u \in Thread : Closes(u, s)
        BY DEF NoOrphanTransaction, Closes
      <4>2. QED
        BY <1>1, <1>5, <1>12, <3>1, <3>3, <4>1
    <3>4. QED
      BY <3>2, <3>3
  <2>2. QED
    BY <1>1, <2>1 DEF NoOrphanTransaction, Closes
<1>16. QED
  BY <1>7, <1>8, <1>9, <1>10, <1>14, <1>15

\* The server stops when no request is in course: every slot with a name is handed to one thread.
LEMMA StopKeeps ==
  ASSUME ServiceInv, NEW th \in Thread, Stop(th)
  PROVE  ServiceInv'
<1> USE DEF ServiceInv
<1>1. /\ server = "up" /\ server' = "stopping"
      /\ \A u \in Thread : task[u].at = "idle" /\ task[u].slot = NoSlot /\ task[u].toClose = {}
      /\ \A i \in Id : registry'[i] = NoSlot
      /\ registry' \in [Id -> Slot \cup {NoSlot}]
      /\ UNCHANGED <<requests, closing, stale, open>>
  BY DEF Stop, Placed, Claimed
<1>2. /\ \A u \in Thread \ {th} : task'[u] = task[u]
      /\ task'[th].at = "stopping" /\ task'[th].slot = NoSlot
      /\ task'[th].toClose = {s \in Slot : Registered(s)}
      /\ task' \in [Thread -> Task]
  BY DEF Stop, TypeOK, NoTask, Task, Location
<1>3. /\ \A s \in Slot : Claimants(s)' = Claimants(s)
      /\ \A s \in Slot : requests'[s] = Cardinality(Claimants(s)')
  BY <1>1, <1>2, ClaimsStay DEF Claimed
<1>4. \A s \in Slot : ~Registered(s)'
  BY <1>1, NoSlotAssumption DEF Registered
<1>5. \A s \in Slot : requests[s] = 0
  BY <1>1, CountsTell DEF Claimants, Claimed
<1>6. TypeOK'
  BY <1>1, <1>2, <1>3 DEF TypeOK
<1>7. \A u \in Thread : Placed(u)'
  BY <1>1, <1>2 DEF Placed, Claimed
<1>8. \A s \in Slot : Remembers(s)'
  BY <1>1, <1>3, <1>4, <1>5, CountsTell DEF Remembers
<1>9. Stopped'
  BY <1>1, <1>2, <1>4 DEF Stopped
<1>10. \A u \in Thread, s \in Slot : Closes(u, s)' <=> u = th /\ Registered(s)
  BY <1>1, <1>2 DEF Closes
<1>11. ClosedAlone'
  BY <1>1, <1>2, <1>4, <1>5, <1>10, NoSlotAssumption DEF ClosedAlone, Closes
<1>12. NoOrphanTransaction'
  <2>1. ASSUME NEW s \in open PROVE \E u \in Thread : Closes(u, s)'
    <3>1. s \in Slot /\ \A u \in Thread : ~Closes(u, s)
      BY <1>1 DEF TypeOK, Closes
    <3>2. Registered(s)
      BY <1>5, <3>1 DEF NoOrphanTransaction, Closes
    <3>3. QED
      BY <1>10, <3>1, <3>2
  <2>2. QED
    BY <1>1, <2>1 DEF NoOrphanTransaction, Closes
<1>13. QED
  BY <1>6, <1>7, <1>8, <1>9, <1>11, <1>12

\* The engine is closed when the sessions are: the thread lets go of nothing.
LEMMA CloseEngineKeeps ==
  ASSUME ServiceInv, NEW th \in Thread, CloseEngine(th)
  PROVE  ServiceInv'
<1> USE DEF ServiceInv
<1>1. /\ task[th].at = "stopping" /\ task[th].slot = NoSlot /\ task[th].toClose = {}
      /\ server = "stopping" /\ server' = "down"
      /\ UNCHANGED <<registry, requests, closing, stale, open>>
  BY DEF CloseEngine, AllClosed, Placed, Claimed, Stopped
<1>2. /\ \A u \in Thread \ {th} : task'[u] = task[u]
      /\ task'[th].at = "idle" /\ task'[th].slot = NoSlot /\ task'[th].toClose = {}
      /\ task' \in [Thread -> Task]
  BY DEF CloseEngine, TypeOK, NoTask, Task, Location
<1>3. /\ \A s \in Slot : Claimants(s)' = Claimants(s)
      /\ \A s \in Slot : requests'[s] = Cardinality(Claimants(s)')
  BY <1>1, <1>2, ClaimsStay DEF Claimed
<1>4. \A s : Registered(s)' <=> Registered(s)
  BY <1>1 DEF Registered
<1>5. TypeOK' /\ \A u \in Thread : Placed(u)'
  BY <1>1, <1>2, <1>3 DEF TypeOK, Placed, Claimed
<1>6. \A s \in Slot : Remembers(s)'
  BY <1>1, <1>3, <1>4 DEF Remembers
<1>7. Stopped'
  BY <1>1, <1>2, <1>4 DEF Stopped
<1>8. \A u \in Thread, s \in Slot : Closes(u, s)' <=> Closes(u, s)
  BY <1>1, <1>2 DEF Closes
<1>9. ClosedAlone' /\ NoOrphanTransaction'
  BY <1>1, <1>2, <1>4, <1>8 DEF ClosedAlone, NoOrphanTransaction, Closes, TypeOK
<1>10. QED
  BY <1>5, <1>6, <1>7, <1>9

\* The clock changes only the age of a session.
LEMMA TimeKeeps ==
  ASSUME ServiceInv, UNCHANGED vars \/ \E s \in Slot : Age(s)
  PROVE  ServiceInv'
<1> USE DEF ServiceInv
<1>1. /\ stale' \in SUBSET Slot
      /\ UNCHANGED <<registry, requests, closing, open, task, server>>
  BY DEF Age, vars, TypeOK
<1>2. \A s : Registered(s)' <=> Registered(s)
  BY <1>1 DEF Registered
<1>3. \A s : Claimants(s)' = Claimants(s)
  BY <1>1 DEF Claimants
<1>4. TypeOK' /\ Stopped' /\ \A u \in Thread : Placed(u)'
  BY <1>1, <1>2, <1>3 DEF TypeOK, Stopped, Placed
<1>5. \A s \in Slot : Remembers(s)'
  BY <1>1, <1>2, <1>3 DEF Remembers
<1>6. ClosedAlone' /\ NoOrphanTransaction'
  BY <1>1, <1>2 DEF ClosedAlone, NoOrphanTransaction
<1>7. QED
  BY <1>4, <1>5, <1>6

-----------------------------------------------------------------------------
(* The invariant, and what it says of the sessions. *)

LEMMA ServiceInvHolds == Spec => []ServiceInv
<1>1. Init => ServiceInv
  <2> SUFFICES ASSUME Init PROVE ServiceInv
    OBVIOUS
  <2>1. /\ \A th \in Thread : task[th].at = "idle" /\ task[th].slot = NoSlot /\ task[th].toClose = {}
        /\ NoTask \in Task
    BY DEF Init, NoTask, Task, Location
  <2>2. \A s \in Slot : Claimants(s) = {} /\ ~Registered(s) /\ requests[s] = 0
    BY <2>1, NoSlotAssumption DEF Init, Claimants, Claimed, Registered
  <2>3. TypeOK
    BY <2>1, <2>2, FS_EmptySet DEF TypeOK, Init
  <2>4. /\ \A th \in Thread : Placed(th)
        /\ \A s \in Slot : Remembers(s)
        /\ Stopped /\ ClosedAlone /\ NoOrphanTransaction
    BY <2>1, <2>2 DEF Init, Placed, Claimed, Remembers, Stopped, ClosedAlone, NoOrphanTransaction
  <2>5. QED
    BY <2>3, <2>4 DEF ServiceInv
<1>2. ServiceInv /\ [Next]_vars => ServiceInv'
  <2> SUFFICES ASSUME ServiceInv, [Next]_vars PROVE ServiceInv'
    OBVIOUS
  <2>1. ASSUME NEW th \in Thread, Ask(th) \/ Step(th) \/ Work(th) PROVE ServiceInv'
    <3>1. CASE Strolls(th)
      BY <3>1, StrollsKeep
    <3>2. CASE Work(th)
      BY <3>2, WorkKeeps
    <3>3. CASE CloseOther(th) \/ CloseOwn(th)
      BY <3>3, ClosingKeeps
    <3>4. CASE \E id \in Id : Claim(th, id)
      BY <3>4, ClaimKeeps
    <3>5. CASE Release(th)
      BY <3>5, ReleaseKeeps
    <3>6. CASE \E id \in Id : CloseSession(th, id)
      BY <3>6, CloseSessionKeeps
    <3>7. CASE Stop(th)
      BY <3>7, StopKeeps
    <3>8. CASE CloseEngine(th)
      BY <3>8, CloseEngineKeeps
    <3>9. QED
      BY <2>1, <3>1, <3>2, <3>3, <3>4, <3>5, <3>6, <3>7, <3>8 DEF Ask, Step, Strolls
  <2>2. QED
    BY <2>1, TimeKeeps DEF Next
<1>3. QED
  BY <1>1, <1>2, PTL DEF Spec

\* The registry gives a slot to one id only, and the count of every slot (slot.requests) is the
\* number of requests between _claim and _release: what close_session and _take_expired go by.
THEOREM CountsAreRight == Spec => []TypeOK
BY ServiceInvHolds, PTL DEF ServiceInv

\* No transaction is left with nobody to end it: its session has a name, a request that uses it
\* will close it, or a thread has it in hand to close it (_release, close_session, _close_all).
THEOREM TransactionsHaveSomebody == Spec => []NoOrphanTransaction
BY ServiceInvHolds, PTL DEF ServiceInv

\* A session is closed by one thread, when it has no name and no request: closing by name, by
\* expiry and at the end of the server never meet in the same session.
THEOREM SessionsCloseAlone == Spec => []ClosedAlone
BY ServiceInvHolds, PTL DEF ServiceInv

\* Service.close closes the engine when no session has a transaction left in it.
THEOREM EngineIsClosedLast == Spec => []EngineClosesLast
<1>1. ServiceInv => EngineClosesLast
  <2> SUFFICES ASSUME ServiceInv, server = "down", NEW s \in open PROVE FALSE
    BY DEF EngineClosesLast
  <2>1. s \in Slot /\ ~Registered(s)
    BY DEF ServiceInv, TypeOK, Stopped
  <2>2. \A th \in Thread : task[th].at = "idle" /\ task[th].toClose = {}
    BY DEF ServiceInv, Stopped, Placed
  <2>3. requests[s] = 0
    BY <2>1, <2>2, CountsTell DEF ServiceInv, Claimants, Claimed
  <2>4. QED
    BY <2>1, <2>2, <2>3 DEF ServiceInv, NoOrphanTransaction
<1>2. QED
  BY <1>1, ServiceInvHolds, PTL

=============================================================================
