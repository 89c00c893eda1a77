---------------------------- MODULE PushDelivery ----------------------------
(***************************************************************************)
(* internal/config/subscriptions.go, the handlers over it, and             *)
(* internal/integration/webpush/module.go: clients enrol and unsubscribe   *)
(* while dispatches send to everybody enrolled and prune the endpoints     *)
(* their push service calls gone.                                          *)
(*                                                                         *)
(* The store is a map in memory and, rewritten as a whole by every change, *)
(* in a file; the store's mutex makes each of its operations one step.  A  *)
(* dispatch is a loop over a snapshot of the map, with a request and an    *)
(* answer per subscription.  Encryption, headers and the payload are left  *)
(* out: they fail for keys that do not decode, and for nothing else here.  *)
(***************************************************************************)
EXTENDS Integers, FiniteSets

CONSTANTS Endpoints,   \* push endpoints
          Keys,        \* what a subscription's keys may be
          BadKeys,     \* keys that do not decode
          Dispatchers, \* goroutines that dispatch
          None,        \* no subscription, no dispatch, no request
          Removed, Unknown, \* see `answered`
          MaxCalls,    \* bound: requests of clients
          MaxTurns,    \* bound: endpoints that expire or come back
          MaxFaults    \* bound: failed persists, lost requests and restarts

ASSUME DeliveryAssumption ==
  /\ BadKeys \subseteq Keys
  /\ {None, Removed, Unknown} \intersect Keys = {} /\ None \notin Endpoints
  /\ Removed # Unknown
  /\ {MaxCalls, MaxTurns, MaxFaults} \subseteq Nat

VARIABLES subs,      \* Store.subs
          disk,      \* subscriptions.json
          live,      \* endpoints the push services know
          job,       \* the dispatch each goroutine is in
          answered,  \* history: what the store owes to the last client it answered
          calls, turns, faults

vars == <<subs, disk, live, job, answered, calls, turns, faults>>

Stores == [Endpoints -> Keys \union {None}]

\* listed: the snapshot.  to, reply: the request under way and its answer.
Jobs == [listed : Stores, todo : SUBSET Endpoints, to : Endpoints \union {None},
         reply : {"none", "accepted", "gone", "failed"},
         accepted : SUBSET Endpoints, failed : SUBSET Endpoints]

TypeOK ==
  /\ subs \in Stores /\ disk \in Stores
  /\ live \subseteq Endpoints
  /\ job \in [Dispatchers -> Jobs \union {None}]
  /\ answered \in [Endpoints -> Keys \union {Removed, Unknown}]
  /\ calls \in 0 .. MaxCalls /\ turns \in 0 .. MaxTurns /\ faults \in 0 .. MaxFaults

\* NewStore reads what there is.
Init ==
  /\ disk \in Stores /\ subs = disk
  /\ live \in SUBSET Endpoints
  /\ job = [d \in Dispatchers |-> None]
  /\ answered = [e \in Endpoints |-> Unknown]
  /\ calls = 0 /\ turns = 0 /\ faults = 0

Enrolled(m) == {e \in Endpoints : m[e] # None}

-----------------------------------------------------------------------------
(* The store *)

\* persistLocked, which may fail at any step before the rename.
PersistOk == disk' = subs' /\ UNCHANGED faults

PersistFails == faults < MaxFaults /\ faults' = faults + 1 /\ UNCHANGED disk

\* A service's answer that e is gone is on its way to the pruner.
GoneUnderWay(e) == \E d \in Dispatchers : job[d] # None /\ job[d].to = e /\ job[d].reply = "gone"

\* CreateSubscriptionHandler: Add, and 201 if it could be persisted.
Add(e, k) ==
  /\ calls < MaxCalls /\ calls' = calls + 1
  /\ subs' = [subs EXCEPT ![e] = k]
  /\ \/ /\ PersistOk
        /\ answered' = [answered EXCEPT
             ![e] = IF e \in live /\ ~GoneUnderWay(e) THEN k ELSE Unknown]
     \/ /\ PersistFails
        /\ answered' = [answered EXCEPT ![e] = Unknown]
  /\ UNCHANGED <<live, job, turns>>

\* Store.Remove of an endpoint that is there.
RemoveFrom(e) == subs[e] # None /\ subs' = [subs EXCEPT ![e] = None]

\* DeleteSubscriptionHandler.
Unsubscribe(e) ==
  /\ calls < MaxCalls /\ calls' = calls + 1
  /\ RemoveFrom(e)
  /\ \/ PersistOk /\ answered' = [answered EXCEPT ![e] = Removed]
     \/ PersistFails /\ answered' = [answered EXCEPT ![e] = Unknown]
  /\ UNCHANGED <<live, job, turns>>

\* The same for an endpoint that is not there: 204, and nothing is written, though
\* the file may still have it after a removal that could not be persisted.
UnsubscribeAbsent(e) ==
  /\ calls < MaxCalls /\ calls' = calls + 1
  /\ subs[e] = None
  /\ answered' = [answered EXCEPT ![e] = IF disk[e] = None THEN Removed ELSE Unknown]
  /\ UNCHANGED <<subs, disk, live, job, turns, faults>>

-----------------------------------------------------------------------------
(* Module.Dispatch *)

\* The snapshot; with nobody enrolled the dispatch is over at once.
Begin(d) ==
  /\ job[d] = None
  /\ Enrolled(subs) # {}
  /\ job' = [job EXCEPT ![d] = [listed |-> subs, todo |-> Enrolled(subs), to |-> None,
                                reply |-> "none", accepted |-> {}, failed |-> {}]]
  /\ UNCHANGED <<subs, disk, live, answered, calls, turns, faults>>

\* sendOne starts for the next subscription; keys that do not decode end it at once.
SendOne(d) ==
  /\ job[d] # None /\ job[d].to = None
  /\ \E e \in job[d].todo :
       job' = [job EXCEPT ![d].todo = @ \ {e}, ![d].to = e,
                          ![d].reply = IF job[d].listed[e] \in BadKeys THEN "failed" ELSE "none"]
  /\ UNCHANGED <<subs, disk, live, answered, calls, turns, faults>>

Waiting(d) == job[d] # None /\ job[d].to # None /\ job[d].reply = "none"

\* The push service answers 201, or 404 or 410.
Reply(d) ==
  /\ Waiting(d)
  /\ job' = [job EXCEPT ![d].reply = IF job[d].to \in live THEN "accepted" ELSE "gone"]
  /\ UNCHANGED <<subs, disk, live, answered, calls, turns, faults>>

\* Another status, a timeout, or the end of the request's context.
Fail(d) ==
  /\ Waiting(d)
  /\ faults < MaxFaults /\ faults' = faults + 1
  /\ job' = [job EXCEPT ![d].reply = "failed"]
  /\ UNCHANGED <<subs, disk, live, answered, calls, turns>>

\* Mutant: the loop ends with the first failure.
CountedOrDone(j) ==
  IF j.reply = "accepted"
  THEN [j EXCEPT !.to = None, !.reply = "none", !.accepted = @ \union {j.to}]
  ELSE [j EXCEPT !.to = None, !.reply = "none", !.failed = @ \union {j.to}, !.todo = {}]

\* Mutant: the request is closed before its failure is noted.
CountedLate(j) ==
  IF j.reply = "accepted"
  THEN [j EXCEPT !.to = None, !.reply = "none", !.accepted = @ \union {j.to}]
  ELSE [j EXCEPT !.to = None, !.reply = "none", !.failed = @ \union {None}]

\* What the rest of sendOne and the loop do with the answer.
Counted(j) ==
  IF j.reply = "accepted"
  THEN [j EXCEPT !.to = None, !.reply = "none", !.accepted = @ \union {j.to}]
  ELSE [j EXCEPT !.to = None, !.reply = "none", !.failed = @ \union {j.to}]

\* Mutants: every failure prunes, none does.
PrunesFailed(reply) == reply \in {"gone", "failed"}
PrunesNobody(reply) == FALSE

Prunes(reply) == reply = "gone"

\* sendOne returns; a gone endpoint is removed on the way, if it is still there.
Count(d) ==
  LET j == job[d] IN
  /\ j # None /\ j.reply # "none"
  /\ job' = [job EXCEPT ![d] = Counted(j)]
  /\ IF Prunes(j.reply) /\ subs[j.to] # None
     THEN RemoveFrom(j.to) /\ (PersistOk \/ PersistFails)
     ELSE UNCHANGED <<subs, disk, faults>>
  /\ UNCHANGED <<live, answered, calls, turns>>

\* The Outcome is returned: accepted by somebody, or by nobody.
Return(d) ==
  /\ job[d] # None /\ job[d].to = None /\ job[d].todo = {}
  /\ job' = [job EXCEPT ![d] = None]
  /\ UNCHANGED <<subs, disk, live, answered, calls, turns, faults>>

-----------------------------------------------------------------------------
(* Around it *)

\* A browser drops its subscription, or the push service does.
Expire(e) ==
  /\ turns < MaxTurns /\ turns' = turns + 1
  /\ e \in live /\ live' = live \ {e}
  /\ answered' = [answered EXCEPT ![e] = IF @ = Removed THEN Removed ELSE Unknown]
  /\ UNCHANGED <<subs, disk, job, calls, faults>>

\* A browser subscribes; it tells the daemon later.
Appear(e) ==
  /\ turns < MaxTurns /\ turns' = turns + 1
  /\ e \notin live /\ live' = live \union {e}
  /\ UNCHANGED <<subs, disk, job, answered, calls, faults>>

Restart ==
  /\ faults < MaxFaults /\ faults' = faults + 1
  /\ subs' = disk
  /\ job' = [d \in Dispatchers |-> None]
  /\ UNCHANGED <<disk, live, answered, calls, turns>>

Next ==
  \/ \E e \in Endpoints :
       (\E k \in Keys : Add(e, k)) \/ Unsubscribe(e) \/ UnsubscribeAbsent(e)
       \/ Expire(e) \/ Appear(e)
  \/ \E d \in Dispatchers :
       Begin(d) \/ SendOne(d) \/ Reply(d) \/ Fail(d) \/ Count(d) \/ Return(d)
  \/ Restart

Spec == Init /\ [][Next]_vars

\* A running dispatch goes on, and a request ends (the client has a timeout).  That
\* somebody dispatches again is an assumption on the clients of the trigger endpoint:
\* a subscription is only ever pruned by a dispatch.
Fairness ==
  \A d \in Dispatchers :
    /\ WF_vars(Begin(d)) /\ WF_vars(SendOne(d)) /\ WF_vars(Reply(d))
    /\ WF_vars(Count(d)) /\ WF_vars(Return(d))

FairSpec == Spec /\ Fairness

-----------------------------------------------------------------------------
(* Properties *)

\* What a client was told holds, in memory and after a restart: a device that was
\* enrolled (201) stays enrolled as long as its endpoint lives and it does not
\* unsubscribe, and one that was removed (204) stays away, whatever fails for
\* others, and whatever dispatches are under way.  Left out are endpoints that a
\* service had called gone before they were enrolled again, and those whose
\* own last request failed.
AnswersSurvive ==
  \A e \in Endpoints :
    /\ answered[e] \in Keys => subs[e] = answered[e] /\ disk[e] = answered[e]
    /\ answered[e] = Removed => subs[e] = None /\ disk[e] = None

\* A dispatch does not return before everybody who was enrolled when it began has
\* been tried, whoever fails or is pruned (SDD G14), and its Outcome counts each of
\* them once, as accepted or as failed.
EverybodyIsTried ==
  [][\A d \in Dispatchers : Return(d) =>
       /\ job[d].accepted \union job[d].failed = Enrolled(job[d].listed)
       /\ job[d].accepted \intersect job[d].failed = {}]_vars

\* Again and again, no endpoint that is gone is in the store (SDD G14), unless its
\* keys do not decode, in which case nothing is ever sent to it.
GoneIsPruned ==
  \A e \in Endpoints : []<>(e \in live \/ subs[e] \in BadKeys \union {None})

=============================================================================
