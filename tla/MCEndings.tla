----------------------------- MODULE MCEndings -----------------------------
(* What must end, as small instances for TLC: waiting for a lock, for either of its two
   reasons, and the transaction of a session that nobody remembers. *)
EXTENDS LockManager

CONSTANTS
  Narrow,                  \* bound: the tables asked for in the behaviours with deadlines
  Id, Thread, Slot, NoSlot \* of SessionService

VARIABLES
  registry, requests, closing, stale, open, task, server,  \* of SessionService
  kind  \* what works in this behaviour: the locks, with deadlines that pass and holders
        \* that need not release anything or the other way round, or the service

Service == INSTANCE SessionService

serviceVars == <<registry, requests, closing, stale, open, task, server>>
allVars == <<vars, serviceVars, kind>>

EndingsInit == Init /\ Service!Init /\ kind \in {"deadlines", "patience", "service"}

EndingsNext ==
  /\ UNCHANGED kind
  /\ \/ kind = "patience" /\ PatientNext /\ UNCHANGED serviceVars
     \/ /\ kind = "deadlines" /\ Next /\ UNCHANGED serviceVars
        /\ \A t \in Transaction :
             /\ waiting'[t] # NoRequest => waiting'[t].resource \in Narrow
             /\ \A r \in Resource \ Narrow : holders'[r][t] = None
     \/ kind = "service" /\ Service!Next /\ UNCHANGED vars

\* A notified thread gets the processor. Then transactions end, or clocks advance. A
\* request that came in to the service goes on.
EndingsFairness ==
  /\ \A t \in Transaction :
       /\ WF_allVars(kind # "service" /\ Wake(t) /\ UNCHANGED <<serviceVars, kind>>)
       /\ WF_allVars(kind = "patience" /\ ReleaseAll(t) /\ UNCHANGED <<serviceVars, kind>>)
       /\ WF_allVars(kind = "deadlines" /\ Expire(t) /\ UNCHANGED <<serviceVars, kind>>)
  /\ \A th \in Thread : WF_allVars(kind = "service" /\ Service!Step(th) /\ UNCHANGED <<vars, kind>>)

EndingsSpec == EndingsInit /\ [][EndingsNext]_allVars /\ EndingsFairness

\* SessionService: a session that was asked to close, or that nobody can claim any more,
\* ends its transaction.
ForgottenSessionsEnd == Service!ForgottenSessionsEnd

=============================================================================
