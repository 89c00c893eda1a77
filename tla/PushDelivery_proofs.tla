------------------------ MODULE PushDelivery_proofs ------------------------
(***************************************************************************)
(* What clients were told about their subscriptions holds, and every       *)
(* dispatch tries everybody, for any number of endpoints and of dispatches *)
(* at a time.                                                              *)
(***************************************************************************)
EXTENDS PushDelivery, TLAPS

\* A client that was told 201 has an endpoint that lives, and no answer that calls
\* it gone is on its way to the pruner.
AnsweredAlive ==
  \A e \in Endpoints : answered[e] \in Keys =>
    /\ e \in live
    /\ \A d \in Dispatchers :
         ~(job[d] # None /\ job[d].to = e /\ job[d].reply = "gone")

\* A service calls an endpoint gone in answer to a request.
ReplyHasRequest ==
  \A d \in Dispatchers : job[d] # None /\ job[d].reply # "none" => job[d].to \in Endpoints

DeliveryInv == TypeOK /\ AnswersSurvive /\ AnsweredAlive /\ ReplyHasRequest

\* Everybody in the snapshot is still to do, under way, or counted, and one of these.
Places(j) ==
  /\ Enrolled(j.listed) = j.todo \union j.accepted \union j.failed
                            \union {e \in Endpoints : e = j.to}
  /\ j.accepted \intersect j.failed = {}
  /\ j.todo \intersect (j.accepted \union j.failed) = {}
  /\ j.to \notin j.todo \union j.accepted \union j.failed

JobInv == \A d \in Dispatchers : job[d] # None => Places(job[d])

LEMMA DeliveryInit == Init => DeliveryInv
BY DeliveryAssumption DEF Init, DeliveryInv, TypeOK, Stores, AnswersSurvive,
   AnsweredAlive, ReplyHasRequest

\* What a loop turn makes of a job is a job.
LEMMA CountedIsJob ==
  ASSUME NEW j \in Jobs, j.to \in Endpoints
  PROVE  Counted(j) \in Jobs
BY DEF Jobs, Counted

\* Every step keeps the invariant.
LEMMA DeliveryStep == DeliveryInv /\ [Next]_vars => DeliveryInv'
<1> SUFFICES ASSUME DeliveryInv, [Next]_vars PROVE DeliveryInv'
  OBVIOUS
<1> USE DeliveryAssumption
<1>1. ASSUME NEW e \in Endpoints, NEW k \in Keys, Add(e, k) PROVE DeliveryInv'
  BY <1>1 DEF DeliveryInv, TypeOK, Stores, AnswersSurvive, AnsweredAlive, ReplyHasRequest, Add,
     PersistOk, PersistFails, GoneUnderWay
<1>2. ASSUME NEW e \in Endpoints, Unsubscribe(e) PROVE DeliveryInv'
  BY <1>2 DEF DeliveryInv, TypeOK, Stores, AnswersSurvive, AnsweredAlive, ReplyHasRequest,
     Unsubscribe, RemoveFrom, PersistOk, PersistFails
<1>3. ASSUME NEW e \in Endpoints, UnsubscribeAbsent(e) PROVE DeliveryInv'
  BY <1>3 DEF DeliveryInv, TypeOK, Stores, AnswersSurvive, AnsweredAlive, ReplyHasRequest,
     UnsubscribeAbsent
<1>4. ASSUME NEW e \in Endpoints, Expire(e) PROVE DeliveryInv'
  BY <1>4 DEF DeliveryInv, TypeOK, AnswersSurvive, AnsweredAlive, ReplyHasRequest, Expire
<1>5. ASSUME NEW e \in Endpoints, Appear(e) PROVE DeliveryInv'
  BY <1>5 DEF DeliveryInv, TypeOK, AnswersSurvive, AnsweredAlive, ReplyHasRequest, Appear
<1>6. ASSUME NEW d \in Dispatchers, Begin(d) PROVE DeliveryInv'
  BY <1>6 DEF DeliveryInv, TypeOK, Jobs, Enrolled, AnswersSurvive, AnsweredAlive,
     ReplyHasRequest, Begin
<1>7. ASSUME NEW d \in Dispatchers, SendOne(d) PROVE DeliveryInv'
  BY <1>7 DEF DeliveryInv, TypeOK, Jobs, AnswersSurvive, AnsweredAlive, ReplyHasRequest, SendOne
<1>8. ASSUME NEW d \in Dispatchers, Reply(d) PROVE DeliveryInv'
  BY <1>8 DEF DeliveryInv, TypeOK, Jobs, AnswersSurvive, AnsweredAlive, ReplyHasRequest, Reply,
     Waiting
<1>9. ASSUME NEW d \in Dispatchers, Fail(d) PROVE DeliveryInv'
  BY <1>9 DEF DeliveryInv, TypeOK, Jobs, AnswersSurvive, AnsweredAlive, ReplyHasRequest, Fail,
     Waiting
<1>10. ASSUME NEW d \in Dispatchers, Count(d) PROVE DeliveryInv'
  <2> DEFINE j == job[d]
  <2>1. j \in Jobs /\ j.to \in Endpoints /\ j.reply # "none" /\ j # None
    BY <1>10 DEF DeliveryInv, TypeOK, ReplyHasRequest, Count
  <2>2. /\ job' = [job EXCEPT ![d] = Counted(j)]
        /\ Counted(j) \in Jobs /\ Counted(j).reply = "none"
    BY <1>10, <2>1, CountedIsJob DEF Count, Counted, Jobs
  <2>3. answered' = answered /\ live' = live
    BY <1>10 DEF Count
  <2>4. CASE Prunes(j.reply) /\ subs[j.to] # None
    <3>1. /\ subs' = [subs EXCEPT ![j.to] = None]
          /\ (PersistOk \/ PersistFails)
      BY <1>10, <2>4 DEF Count, RemoveFrom
    <3>2. answered[j.to] \notin Keys /\ answered[j.to] # Removed
      BY <2>1, <2>4 DEF DeliveryInv, AnsweredAlive, AnswersSurvive, Prunes
    <3>3. TypeOK'
      BY <1>10, <2>1, <2>2, <3>1 DEF DeliveryInv, TypeOK, Stores, Count, PersistOk, PersistFails
    <3>4. AnswersSurvive'
      BY <2>1, <2>3, <3>1, <3>2 DEF DeliveryInv, TypeOK, Stores, AnswersSurvive, PersistOk,
         PersistFails
    <3>5. AnsweredAlive' /\ ReplyHasRequest'
      BY <2>2, <2>3 DEF DeliveryInv, TypeOK, AnsweredAlive, ReplyHasRequest
    <3> QED BY <3>3, <3>4, <3>5 DEF DeliveryInv
  <2>5. CASE ~(Prunes(j.reply) /\ subs[j.to] # None)
    <3>1. UNCHANGED <<subs, disk, faults>>
      BY <1>10, <2>5 DEF Count
    <3> QED
      BY <1>10, <2>2, <2>3, <3>1 DEF DeliveryInv, TypeOK, Count, AnswersSurvive, AnsweredAlive,
         ReplyHasRequest
  <2> QED BY <2>4, <2>5
<1>11. ASSUME NEW d \in Dispatchers, Return(d) PROVE DeliveryInv'
  BY <1>11 DEF DeliveryInv, TypeOK, AnswersSurvive, AnsweredAlive, ReplyHasRequest, Return
<1>12. CASE Restart
  BY <1>12 DEF DeliveryInv, TypeOK, AnswersSurvive, AnsweredAlive, ReplyHasRequest, Restart
<1>13. CASE UNCHANGED vars
  BY <1>13 DEF DeliveryInv, TypeOK, AnswersSurvive, AnsweredAlive, ReplyHasRequest, vars
<1> QED
  BY <1>1, <1>2, <1>3, <1>4, <1>5, <1>6, <1>7, <1>8, <1>9, <1>10, <1>11, <1>12, <1>13 DEF Next

\* The inductive invariant: types, answers that hold, and no prune on its way for
\* an endpoint that lives.
THEOREM DeliveryInvariant == Spec => []DeliveryInv
BY DeliveryInit, DeliveryStep, PTL DEF Spec

\* The store and the dispatches keep their types.
THEOREM DeliveryTypes == Spec => []TypeOK
<1>1. DeliveryInv => TypeOK
  BY DEF DeliveryInv
<1> QED BY <1>1, DeliveryInvariant, PTL

\* What clients were told holds in memory and on disk, however many dispatches and
\* other clients there are.
THEOREM AnswersAlwaysSurvive == Spec => []AnswersSurvive
<1>1. DeliveryInv => AnswersSurvive
  BY DEF DeliveryInv
<1> QED BY <1>1, DeliveryInvariant, PTL

-----------------------------------------------------------------------------
(* Everybody is tried, once *)

\* A loop turn moves the request's endpoint to one of the counts.
LEMMA CountedKeepsPlaces ==
  ASSUME NEW j \in Jobs, j.to \in Endpoints, Places(j)
  PROVE  Places(Counted(j))
<1>1. /\ Counted(j).listed = j.listed /\ Counted(j).todo = j.todo /\ Counted(j).to = None
      /\ \/ Counted(j).accepted = j.accepted \union {j.to} /\ Counted(j).failed = j.failed
         \/ Counted(j).accepted = j.accepted /\ Counted(j).failed = j.failed \union {j.to}
  BY DEF Jobs, Counted
<1>2. /\ j.todo \subseteq Endpoints /\ j.accepted \subseteq Endpoints /\ j.failed \subseteq Endpoints
  BY DEF Jobs
<1> QED BY <1>1, <1>2, DeliveryAssumption DEF Places

LEMMA JobStep == DeliveryInv /\ JobInv /\ [Next]_vars => JobInv'
<1> SUFFICES ASSUME DeliveryInv, JobInv, [Next]_vars, NEW d \in Dispatchers, job'[d] # None
             PROVE  Places(job'[d])
  BY DEF JobInv
<1> USE DeliveryAssumption
<1>t. job \in [Dispatchers -> Jobs \union {None}]
  BY DEF DeliveryInv, TypeOK
<1>0. CASE job'[d] = job[d]
  BY <1>0 DEF JobInv
<1>1. CASE Begin(d)
  <2>1. /\ job'[d].listed = subs /\ job'[d].todo = Enrolled(subs) /\ job'[d].to = None
        /\ job'[d].accepted = {} /\ job'[d].failed = {}
    BY <1>1, <1>t DEF Begin
  <2> QED BY <2>1 DEF Places, Enrolled
<1>2. CASE SendOne(d)
  <2>1. job[d] \in Jobs /\ Places(job[d]) /\ job[d].to = None
    BY <1>2, <1>t DEF SendOne, JobInv
  <2>2. PICK e \in job[d].todo :
          job' = [job EXCEPT ![d].todo = @ \ {e}, ![d].to = e,
                             ![d].reply = IF job[d].listed[e] \in BadKeys THEN "failed" ELSE "none"]
    BY <1>2 DEF SendOne
  <2>3. /\ job'[d].listed = job[d].listed /\ job'[d].todo = job[d].todo \ {e} /\ job'[d].to = e
        /\ job'[d].accepted = job[d].accepted /\ job'[d].failed = job[d].failed
    BY <2>1, <2>2, <1>t DEF Jobs
  <2>4. e \in Endpoints
    BY <2>1 DEF Jobs
  <2> QED BY <2>1, <2>3, <2>4 DEF Places
<1>3. CASE Reply(d) \/ Fail(d)
  <2>1. job[d] \in Jobs /\ Places(job[d])
    BY <1>3, <1>t DEF Reply, Fail, Waiting, JobInv
  <2>2. /\ job'[d].listed = job[d].listed /\ job'[d].todo = job[d].todo /\ job'[d].to = job[d].to
        /\ job'[d].accepted = job[d].accepted /\ job'[d].failed = job[d].failed
    BY <1>3, <2>1, <1>t DEF Reply, Fail, Jobs
  <2> QED BY <2>1, <2>2 DEF Places
<1>4. CASE Count(d)
  <2>1. job[d] \in Jobs /\ job[d].to \in Endpoints /\ Places(job[d])
    BY <1>4, <1>t DEF Count, JobInv, DeliveryInv, ReplyHasRequest
  <2>2. job'[d] = Counted(job[d])
    BY <1>4, <1>t DEF Count
  <2> QED BY <2>1, <2>2, CountedKeepsPlaces
<1>5. CASE Return(d) \/ Restart
  BY <1>5, <1>t DEF Return, Restart
<1>6. CASE \E c \in Dispatchers \ {d} :
             Begin(c) \/ SendOne(c) \/ Reply(c) \/ Fail(c) \/ Count(c) \/ Return(c)
  <2>1. job'[d] = job[d]
    BY <1>6, <1>t DEF Begin, SendOne, Reply, Fail, Count, Return
  <2> QED BY <2>1, <1>0
<1>7. CASE UNCHANGED job
  BY <1>7, <1>0
<1>8. ASSUME NEW e \in Endpoints,
             (\E k \in Keys : Add(e, k)) \/ Unsubscribe(e) \/ UnsubscribeAbsent(e) \/ Expire(e)
             \/ Appear(e)
      PROVE  UNCHANGED job
  BY <1>8 DEF Add, Unsubscribe, UnsubscribeAbsent, Expire, Appear
<1> QED
  BY <1>1, <1>2, <1>3, <1>4, <1>5, <1>6, <1>7, <1>8 DEF Next, vars

\* A dispatch returns when everybody of its snapshot was tried and is counted once.
THEOREM EverybodyAlwaysTried == Spec => EverybodyIsTried
<1>1. Init => JobInv
  BY DEF Init, JobInv
<1>2. DeliveryInv /\ JobInv /\ [Next]_vars =>
        [\A d \in Dispatchers : Return(d) =>
           /\ job[d].accepted \union job[d].failed = Enrolled(job[d].listed)
           /\ job[d].accepted \intersect job[d].failed = {}]_vars
  BY DeliveryAssumption DEF DeliveryInv, TypeOK, Jobs, JobInv, Places, Return
<1> QED
  BY <1>1, <1>2, DeliveryInvariant, JobStep, PTL DEF Spec, EverybodyIsTried

=============================================================================
