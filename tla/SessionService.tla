--------------------------- MODULE SessionService ---------------------------
(***************************************************************************)
(* The named sessions of api/service.py: the registry, the slots with      *)
(* their request counts, closing on demand, by expiry and at the end of    *)
(* the server. A session is reduced to whether it has an open transaction. *)
(* Everything under _sessions_guard is one action; opening, using and      *)
(* closing a session happen outside it.                                    *)
(***************************************************************************)
EXTENDS Naturals, FiniteSets

CONSTANTS
  Id,      \* the session_id of the clients
  Thread,  \* the threads of the server, one request each at a time
  Slot,    \* the _SessionSlot objects alive at once
  NoSlot

ASSUME NoSlotAssumption == NoSlot \notin Slot
ASSUME ThreadsAreFinite == IsFiniteSet(Thread)   \* the pool of the server

VARIABLES
  registry,  \* _sessions: the slot of each id
  requests,  \* how many requests have claimed each slot
  closing,   \* the slots somebody asked to close
  stale,     \* the slots whose last_used is older than session_idle_seconds
  open,      \* the slots whose session has an open transaction
  task,      \* where each thread is, and with which slots
  server     \* up, stopping (inside Service.close) or down

vars == <<registry, requests, closing, stale, open, task, server>>

Location == {"idle", "anonymous", "expiring", "queued", "working",
             "releasing", "closing", "stopping"}
Claimed == {"expiring", "queued", "working", "releasing"}

\* toClose: sessions taken out of the registry that this thread has still to
\* close. failed: whether closing one of them raised.
Task == [at : Location, slot : Slot \cup {NoSlot}, toClose : SUBSET Slot, failed : BOOLEAN]
NoTask == [at |-> "idle", slot |-> NoSlot, toClose |-> {}, failed |-> FALSE]

Claimants(s) == {th \in Thread : task[th].slot = s /\ task[th].at \in Claimed}

TypeOK ==
  /\ registry \in [Id -> Slot \cup {NoSlot}]
  /\ requests \in [Slot -> Nat]
  /\ closing \in SUBSET Slot
  /\ stale \in SUBSET Slot
  /\ open \in SUBSET Slot
  /\ task \in [Thread -> Task]
  /\ server \in {"up", "stopping", "down"}
  /\ \A s \in Slot : requests[s] = Cardinality(Claimants(s))
  /\ \A i, j \in Id : (registry[i] = registry[j] /\ registry[i] # NoSlot) => i = j

Init ==
  /\ registry = [i \in Id |-> NoSlot]
  /\ requests = [s \in Slot |-> 0]
  /\ closing = {}
  /\ stale = {}
  /\ open = {}
  /\ task = [th \in Thread |-> NoTask]
  /\ server = "up"

-----------------------------------------------------------------------------
Registered(s) == \E i \in Id : registry[i] = s

Fresh == {s \in Slot : ~Registered(s) /\ \A th \in Thread :
                         task[th].slot # s /\ s \notin task[th].toClose}

MayStart(th) == server = "up" /\ task[th].at = "idle"

Go(th, location) == task' = [task EXCEPT ![th].at = location]

\* Mutant: a session expires by its age alone, used or not.
ExpiredByAge(keep) == {registry[i] : i \in {j \in Id \ {keep} : registry[j] \in stale}}

\* _take_expired: nobody uses them and nobody has for a long time.
Expired(keep) ==
  {registry[i] : i \in {j \in Id \ {keep} :
                          /\ registry[j] \in stale
                          /\ requests[registry[j]] = 0}}

\* Mutant: a slot stays in the registry until it is closed.
Remembered(slots) == registry

Without(slots) == [i \in Id |-> IF registry[i] \in slots THEN NoSlot ELSE registry[i]]

-----------------------------------------------------------------------------
(* A request. *)

\* session(None): a session of its own, in autocommit, that no other thread sees.
Anonymous(th) ==
  /\ MayStart(th)
  /\ Go(th, "anonymous")
  /\ UNCHANGED <<registry, requests, closing, stale, open, server>>

AnonymousEnds(th) ==
  /\ task[th].at = "anonymous"
  /\ Go(th, "idle")
  /\ UNCHANGED <<registry, requests, closing, stale, open, server>>

\* The claimed slot is counted before anybody else can see it.
Claim(th, id) ==
  /\ MayStart(th)
  /\ \E s \in IF registry[id] = NoSlot THEN Fresh ELSE {registry[id]} :
       /\ registry' = [Without(Expired(id)) EXCEPT ![id] = s]
       /\ requests' = [requests EXCEPT ![s] = @ + 1]
       /\ closing' = IF registry[id] = NoSlot THEN closing \ {s} ELSE closing
       /\ stale' = IF registry[id] = NoSlot THEN stale \ {s} ELSE stale
       /\ task' = [task EXCEPT ![th] = [at |-> "expiring", slot |-> s,
                                        toClose |-> Expired(id), failed |-> FALSE]]
  /\ UNCHANGED <<open, server>>

\* _close_all: one session after another, going on if one of them raises; its
\* transaction ends and lets go of its locks either way.
CloseOther(th) ==
  /\ task[th].at \in {"expiring", "stopping"}
  /\ \E s \in task[th].toClose, raises \in BOOLEAN :
       /\ open' = open \ {s}
       /\ task' = [task EXCEPT ![th].toClose = @ \ {s}, ![th].failed = @ \/ raises]
  /\ UNCHANGED <<registry, requests, closing, stale, server>>

\* If one raised, the request ends there.
OthersClosed(th) ==
  /\ task[th].at = "expiring" /\ task[th].toClose = {}
  /\ Go(th, IF task[th].failed THEN "releasing" ELSE "queued")
  /\ UNCHANGED <<registry, requests, closing, stale, open, server>>

\* slot.guard: the requests of a session take turns.
Enter(th) ==
  /\ task[th].at = "queued"
  /\ \A u \in Thread : task[u].slot = task[th].slot => task[u].at # "working"
  /\ Go(th, "working")
  /\ UNCHANGED <<registry, requests, closing, stale, open, server>>

\* A statement of the script opens a transaction or ends the one there is.
Work(th) ==
  /\ task[th].at = "working"
  /\ open' = IF task[th].slot \in open THEN open \ {task[th].slot}
             ELSE open \cup {task[th].slot}
  /\ UNCHANGED <<registry, requests, closing, stale, task, server>>

Leave(th) ==
  /\ task[th].at = "working"
  /\ Go(th, "releasing")
  /\ UNCHANGED <<registry, requests, closing, stale, open, server>>

\* Mutant: a request that closes its session is not discounted.
DiscountUnlessClosing(s) == requests' = [requests EXCEPT ![s] = IF s \in closing THEN @ ELSE @ - 1]

Discount(s) == requests' = [requests EXCEPT ![s] = @ - 1]

\* Mutant: the request does not look whether somebody asked to close.
NeverPending(s) == FALSE

PendingClose(s) == s \in closing /\ requests[s] = 1

\* _release: the last request of a session being closed has to close it.
Release(th) ==
  LET s == task[th].slot IN
  /\ task[th].at = "releasing"
  /\ Discount(s)
  /\ stale' = stale \ {s}
  /\ task' = [task EXCEPT ![th] = IF PendingClose(s)
                                  THEN [NoTask EXCEPT !.at = "closing", !.slot = s]
                                  ELSE NoTask]
  /\ UNCHANGED <<registry, closing, open, server>>

-----------------------------------------------------------------------------
(* Closing. *)

\* close_session: forget the slot and close it here only if nobody uses it.
CloseSession(th, id) ==
  LET s == registry[id] IN
  /\ MayStart(th) /\ s # NoSlot
  /\ registry' = Without({s})
  /\ closing' = closing \cup {s}
  /\ task' = IF requests[s] = 0
             THEN [task EXCEPT ![th] = [NoTask EXCEPT !.at = "closing", !.slot = s]]
             ELSE task
  /\ UNCHANGED <<requests, stale, open, server>>

CloseOwn(th) ==
  /\ task[th].at = "closing"
  /\ open' = open \ {task[th].slot}
  /\ task' = [task EXCEPT ![th] = NoTask]
  /\ UNCHANGED <<registry, requests, closing, stale, server>>

\* The server drains its requests before it calls Service.close.
Stop(th) ==
  /\ server = "up" /\ \A u \in Thread : task[u].at = "idle"
  /\ server' = "stopping"
  /\ task' = [task EXCEPT ![th] = [NoTask EXCEPT !.at = "stopping",
                !.toClose = {s \in Slot : Registered(s)}]]
  /\ registry' = [i \in Id |-> NoSlot]
  /\ UNCHANGED <<requests, closing, stale, open>>

\* Mutant: the engine is closed without waiting for the sessions.
AnyClosed(th) == TRUE

AllClosed(th) == task[th].toClose = {}

\* The engine is closed after the sessions, even if one of them raised.
CloseEngine(th) ==
  /\ task[th].at = "stopping" /\ AllClosed(th)
  /\ server' = "down"
  /\ task' = [task EXCEPT ![th] = NoTask]
  /\ UNCHANGED <<registry, requests, closing, stale, open>>

\* The clock passes session_idle_seconds.
Age(s) ==
  /\ Registered(s) /\ s \notin stale
  /\ stale' = stale \cup {s}
  /\ UNCHANGED <<registry, requests, closing, open, task, server>>

Ask(th) == Anonymous(th) \/ Stop(th)
           \/ \E id \in Id : Claim(th, id) \/ CloseSession(th, id)

Step(th) ==
  \/ AnonymousEnds(th) \/ CloseOther(th) \/ OthersClosed(th) \/ Enter(th)
  \/ Leave(th) \/ Release(th) \/ CloseOwn(th) \/ CloseEngine(th)

Next == (\E th \in Thread : Ask(th) \/ Step(th) \/ Work(th)) \/ \E s \in Slot : Age(s)

Spec == Init /\ [][Next]_vars

\* The server stays up and requests without session_id never stop coming.
BusySpec ==
  /\ Init /\ [][Next /\ server' = "up"]_vars
  /\ \A th \in Thread : WF_vars(Step(th)) /\ WF_vars(Anonymous(th))

-----------------------------------------------------------------------------
\* "Una sesion que ya nadie recuerda, con sus bloqueos retenidos para siempre"
\* does not exist: a session with an open transaction is in the registry, or a
\* request that still uses it will close it, or a thread is about to.
NoOrphanTransaction ==
  \A s \in open :
    \/ Registered(s)
    \/ s \in closing /\ requests[s] > 0
    \/ \E th \in Thread : s \in task[th].toClose \/ (task[th].at = "closing" /\ task[th].slot = s)

\* A session is closed by one thread, when no request uses it and none can come
\* to use it: closing takes locks away from whoever waits inside the session.
ClosedAlone ==
  \A th \in Thread, s \in Slot :
    (s \in task[th].toClose \/ (task[th].at = "closing" /\ task[th].slot = s)) =>
      /\ ~Registered(s)
      /\ requests[s] = 0
      /\ \A u \in Thread \ {th} : s \notin task[u].toClose /\ task[u].slot # s

\* The engine is closed when no session has anything left to undo in it.
EngineClosesLast == server = "down" => open = {}

\* Whatever was asked to close or was forgotten is closed, although clients go
\* on sending requests with that session_id and slot.guard is not fair.
ForgottenSessionsEnd ==
  \A s \in Slot :
    (s \in open /\ (s \in closing \/ ~Registered(s))) ~> (s \notin open)

\* "Una sesion que pasa session_idle_seconds sin usarse se cierra y aborta su
\* transaccion": sooner or later, on a server that keeps receiving requests.
IdleSessionsAreClosed ==
  \A s \in Slot : (s \in open /\ s \in stale) ~> (s \notin open \/ s \notin stale)

=============================================================================
