---------------------------- MODULE ServiceProofs ----------------------------
(***************************************************************************)
(* Theorems about Service, for any requests, plans and pool limits.  The   *)
(* service drives the pool only through the pool's own operations, so what *)
(* SdkPoolProofs proves of the pool holds of the service's pool; on top of *)
(* that, where a request is tells where its calls of withSdk are.          *)
(***************************************************************************)
EXTENDS Service, FiniteSetTheorems, TLAPS

Proofs == INSTANCE SdkPoolProofs WITH Request <- Withs

-----------------------------------------------------------------------------
(* The service's pool is the pool.                                         *)

\* A step of a call of withSdk is one in either instance.
LEMMA SameStep ==
  ASSUME NEW w \in Withs, Pool!Step(w)
  PROVE  Proofs!Step(w)
BY DEF Pool!Step, Proofs!Step, Pool!Reuse, Proofs!Reuse, Pool!Create, Proofs!Create,
   Pool!EvictAndCreate, Proofs!EvictAndCreate, Pool!Refuse, Proofs!Refuse,
   Pool!Insert, Proofs!Insert, Pool!FactoryRejects, Proofs!FactoryRejects,
   Pool!Release, Proofs!Release, Pool!Pooled, Proofs!Pooled, Pool!Full, Proofs!Full,
   Pool!Cardinality, Proofs!Cardinality, Pool!CallFactory, Proofs!CallFactory,
   Pool!Creating, Proofs!Creating, Pool!Oldest, Proofs!Oldest, Pool!Evictable, Proofs!Evictable,
   Pool!Idle, Proofs!Idle, Pool!ShutDown, Proofs!ShutDown, Pool!Without, Proofs!Without,
   Pool!FreshItem, Proofs!FreshItem, Pool!Acquired, Proofs!Acquired,
   Pool!Released, Proofs!Released

LEMMA SameOther ==
  ASSUME Pool!CleanupIdleSdks \/ Pool!BeginShutdown \/ Pool!FinishShutdown \/ Pool!Tick
  PROVE  Proofs!CleanupIdleSdks \/ Proofs!BeginShutdown \/ Proofs!FinishShutdown \/ Proofs!Tick
BY DEF Pool!CleanupIdleSdks, Proofs!CleanupIdleSdks, Pool!BeginShutdown, Proofs!BeginShutdown,
   Pool!FinishShutdown, Proofs!FinishShutdown, Pool!Tick, Proofs!Tick, Pool!Pooled, Proofs!Pooled,
   Pool!Expired, Proofs!Expired, Pool!Idle, Proofs!Idle, Pool!ShutDown, Proofs!ShutDown,
   Pool!Without, Proofs!Without, Pool!Older, Proofs!Older, Pool!AgeCap, Proofs!AgeCap

LEMMA SameSpec == Pool!Spec => Proofs!Spec
<1>1. Pool!Init => Proofs!Init
  BY DEF Pool!Init, Proofs!Init
<1>2. [Pool!Next]_(Pool!vars) => [Proofs!Next]_(Proofs!vars)
  BY SameStep, SameOther DEF Pool!Next, Proofs!Next, Pool!vars, Proofs!vars
<1> QED
  BY <1>1, <1>2, PTL DEF Pool!Spec, Proofs!Spec

\* Each step of the service is one of the pool's, or leaves the pool alone.
LEMMA PoolSteps == [Next]_vars => [Pool!Next]_(Pool!vars)
<1> SUFFICES ASSUME [Next]_vars PROVE [Pool!Next]_(Pool!vars)
  OBVIOUS
<1>1. ASSUME NEW h \in Http, NEW k \in {1, 2}
      PROVE  /\ <<h, k>> \in Withs
             /\ Pool!Step(<<h, k>>) => Pool!Next
  BY DEF Withs, Pool!Next
<1>2. ASSUME NEW h \in Http, Serve(h) PROVE [Pool!Next]_(Pool!vars)
  <2>1. CASE TurnAway(h) \/ Post(h)
    BY <2>1 DEF TurnAway, Post, poolVars, Pool!vars
  <2>2. ASSUME NEW k \in {1, 2}, AskPool(h, k) \/ FactoryDone(h, k) PROVE Pool!Next
    BY <1>1, <2>2 DEF AskPool, FactoryDone, Pool!Step
  <2>3. CASE Verify(h)
    BY <1>1, <2>3 DEF Verify, GiveBack, Pool!Step
  <2>4. CASE Settle(h)
    BY <1>1, <2>4 DEF Settle, OperationOf, Pool!Step
  <2> QED
    BY <1>2, <2>1, <2>2, <2>3, <2>4 DEF Serve, Handle, Enrich
<1>3. CASE \E h \in Http : Arrive(h)
  BY <1>3 DEF Arrive, poolVars, Pool!vars
<1>4. CASE Signal \/ Exit \/ Timer
  BY <1>4 DEF Signal, Exit, Timer, Pool!Next
<1>5. CASE UNCHANGED vars
  BY <1>5 DEF vars, poolVars, Pool!vars
<1> QED
  BY <1>2, <1>3, <1>4, <1>5 DEF Next

\* The service uses the pool as the SdkPool module has it used: whatever the
\* requests, the shutdown and the timers do together, they do to the pool only
\* what withSdk, the cleanup and SdkManager.shutdown may.
THEOREM ImplementsSdkPool == Spec => Pool!Spec
<1>1. Init => Pool!Init
  BY DEF Init
<1> QED
  BY <1>1, PoolSteps, PTL DEF Spec, Pool!Spec

\* What SdkPoolProofs needs of the constants.
LEMMA PoolConstants ==
  /\ Proofs!IsFiniteSet(Withs) /\ Proofs!IsFiniteSet(Vault)
  /\ MaxPoolSize \in Nat \ {0} /\ IdleTimeout \in Nat
  /\ NoSdk \notin Withs /\ NoItem \notin Proofs!PoolItem
BY PoolAssumption
DEF IsFiniteSet, Proofs!IsFiniteSet, Pool!PoolItem, Proofs!PoolItem, Pool!AgeCap, Proofs!AgeCap

\* No request pins an SDK of the service's pool after it is gone, and while the
\* process is not ending the pool accounts for every use and every instance of a
\* vault that was never created twice at a time, and is bounded.
PoolKeepsItsPromises ==
  Pool!NoPhantomUse /\ Pool!AccountingExact /\ Pool!NoOrphanInstance /\ Pool!PoolBound

LEMMA SamePromises ==
  Proofs!NoPhantomUse /\ Proofs!AccountingExact /\ Proofs!NoOrphanInstance /\ Proofs!PoolBound
    => PoolKeepsItsPromises
BY DEF PoolKeepsItsPromises, Pool!NoPhantomUse, Proofs!NoPhantomUse,
   Pool!AccountingExact, Proofs!AccountingExact, Pool!NoOrphanInstance, Proofs!NoOrphanInstance,
   Pool!PoolBound, Proofs!PoolBound, Pool!Pooled, Proofs!Pooled, Pool!Using, Proofs!Using,
   Pool!Cardinality, Proofs!Cardinality

THEOREM PoolKeepsItsPromisesInvariant == Spec => []PoolKeepsItsPromises
<1>1. Proofs!Spec => []Proofs!NoPhantomUse
  BY PoolConstants, Proofs!NoPhantomUseInvariant
<1>2. Proofs!Spec => []Proofs!AccountingExact /\ []Proofs!NoOrphanInstance
  BY PoolConstants, Proofs!AccountingInvariant, PTL
<1>3. Proofs!Spec => []Proofs!PoolBound
  BY PoolConstants, Proofs!PoolBoundInvariant
<1> QED
  BY <1>1, <1>2, <1>3, SamePromises, SameSpec, ImplementsSdkPool, PTL

-----------------------------------------------------------------------------
(* The inductive invariant.                                                *)

Ats == {"outside", "accepted", "first", "verified", "second", "answered"}
Answers == {"none", "unauthorized", "invalid", "error", "full", "unsupported", "ok"}
ReqType == [at : Ats, ran : SUBSET {"verify", "operation"}, paid : BOOLEAN, answer : Answers]

TypeOK == req \in [Http -> ReqType]

Idle(h, k) == pc[<<h, k>>] = "idle"
Busy(h, k) == pc[<<h, k>>] \in {"creating", "using"}
Done(h, k) == pc[<<h, k>>] = "done"
Ended(h, k) == pc[<<h, k>>] \in {"idle", "done", "failed"}
Signed(h) == plan[h].route.auth = "signature"

Untouched(h) == req[h].ran = {} /\ ~req[h].paid /\ Idle(h, 1) /\ Idle(h, 2)

\* Where a request is, where its two calls of withSdk are.
AtOutside(h) == req[h].at \in {"outside", "accepted"} => Untouched(h)
AtFirst(h) ==
  req[h].at = "first" => /\ Busy(h, 1) /\ Idle(h, 2)
                         /\ Authorized(h)
                         /\ Signed(h) => req[h].ran = {} /\ ~req[h].paid
AtVerified(h) ==
  req[h].at = "verified" => /\ Done(h, 1) /\ Idle(h, 2) /\ Signed(h) /\ plan[h].credentials
                            /\ "operation" \notin req[h].ran
AtSecond(h) ==
  req[h].at = "second" => Done(h, 1) /\ Busy(h, 2) /\ Signed(h) /\ plan[h].credentials

\* Before the answer a transaction was posted iff the operation is known to have run.
Unanswered(h) ==
  req[h].at # "answered" =>
    /\ req[h].answer = "none"
    /\ "operation" \in req[h].ran <=> req[h].paid
    /\ req[h].paid => Supported(h)

\* What an answer says of the request and of its calls.
Told(h) ==
  req[h].at = "answered" =>
    /\ req[h].answer = "ok" =>
         plan[h].credentials /\ "operation" \in req[h].ran /\ (plan[h].route.pays => req[h].paid)
    /\ req[h].answer \in {"unauthorized", "invalid", "full", "unsupported"} =>
         "operation" \notin req[h].ran /\ ~req[h].paid
    /\ req[h].answer \in {"unauthorized", "invalid"} =>
         Idle(h, 2) /\ (Idle(h, 1) \/ (Done(h, 1) /\ req[h].ran = {"verify"}))
    /\ Ended(h, 1) /\ Ended(h, 2)

RequestOK(h) ==
  AtOutside(h) /\ AtFirst(h) /\ AtVerified(h) /\ AtSecond(h) /\ Unanswered(h) /\ Told(h)

\* Each call asks for the vault its plan names.
Targets == \A h \in Http, k \in {1, 2} : target[<<h, k>>] = VaultOf(h, k)

IInv == TypeOK /\ Targets /\ \A h \in Http : RequestOK(h)

\* The pool's part that the steps below use.
PoolOK ==
  /\ pc \in [Withs -> {"idle", "creating", "using", "done", "failed"}]
  /\ \A v \in Vault : sdkPool[v] # NoItem =>
       sdkPool[v].age \in Nat /\ sdkPool[v].useCount \in Nat
  /\ Proofs!NoPhantomUse /\ Proofs!NotYetCreated

LEMMA PoolOKInvariant == Spec => []PoolOK
<1>1. Proofs!Spec => []Proofs!TypeOK /\ []Proofs!NoPhantomUse /\ []Proofs!Bookkeeping
  <2>1. Proofs!Spec => []Proofs!TypeOK
    BY PoolConstants, Proofs!TypeCorrect
  <2>2. Proofs!Spec => []Proofs!NoPhantomUse
    BY PoolConstants, Proofs!NoPhantomUseInvariant
  <2>3. Proofs!Spec => []Proofs!Bookkeeping
    BY PoolConstants, Proofs!BookkeepingInvariant
  <2> QED
    BY <2>1, <2>2, <2>3, PTL
<1>2. Proofs!TypeOK /\ Proofs!NoPhantomUse /\ Proofs!Bookkeeping => PoolOK
  <2> SUFFICES ASSUME Proofs!TypeOK, Proofs!NoPhantomUse, Proofs!Bookkeeping PROVE PoolOK
    OBVIOUS
  <2>1. Proofs!NotYetCreated /\ pc \in [Withs -> {"idle", "creating", "using", "done", "failed"}]
    BY DEF Proofs!TypeOK, Proofs!Bookkeeping
  <2>2. ASSUME NEW v \in Vault, sdkPool[v] # NoItem
        PROVE  sdkPool[v].age \in Nat /\ sdkPool[v].useCount \in Nat
    <3>1. sdkPool[v] \in Proofs!PoolItem
      BY <2>2 DEF Proofs!TypeOK
    <3> QED
      BY <3>1, PoolAssumption DEF Proofs!PoolItem, Proofs!AgeCap
  <2> QED
    BY <2>1, <2>2 DEF PoolOK
<1> QED
  BY <1>1, <1>2, SameSpec, ImplementsSdkPool, PTL

\* A step of one call of withSdk moves that call and no other.
LEMMA PoolEffect ==
  ASSUME PoolOK, NEW w \in Withs
  PROVE  /\ Pool!Reuse(w) => pc[w] = "idle" /\ pc' = [pc EXCEPT ![w] = "using"] /\ target' = target
         /\ Pool!Create(w) \/ Pool!EvictAndCreate(w) =>
              pc[w] = "idle" /\ pc' = [pc EXCEPT ![w] = "creating"] /\ target' = target
         /\ Pool!Refuse(w) => pc[w] = "idle" /\ pc' = [pc EXCEPT ![w] = "failed"] /\ target' = target
         /\ Pool!Insert(w) => pc[w] = "creating" /\ pc' = [pc EXCEPT ![w] = "using"] /\ target' = target
         /\ Pool!FactoryRejects(w) =>
              pc[w] = "creating" /\ pc' = [pc EXCEPT ![w] = "failed"] /\ target' = target
         /\ Pool!Release(w) => pc[w] = "using" /\ pc' = [pc EXCEPT ![w] = "done"] /\ target' = target
BY DEF Pool!Reuse, Pool!Create, Pool!EvictAndCreate, Pool!CallFactory, Pool!Refuse, Pool!Insert,
   Pool!FactoryRejects, Pool!Release

\* A request that a step leaves alone is as it was.
LEMMA OthersKept ==
  ASSUME NEW g \in Http, RequestOK(g), UNCHANGED <<provider, plan>>,
         req'[g] = req[g], pc'[<<g, 1>>] = pc[<<g, 1>>], pc'[<<g, 2>>] = pc[<<g, 2>>]
  PROVE  RequestOK(g)'
BY DEF RequestOK, AtOutside, AtFirst, AtVerified, AtSecond, Unanswered, Told, Untouched,
   Idle, Busy, Done, Ended, Signed, Authorized, Supported

\* What is left to show of a step of one request.
LEMMA OneRequestSteps ==
  ASSUME IInv, PoolOK, NEW h \in Http, UNCHANGED <<provider, plan, target>>,
         req'[h] \in ReqType, req' = [req EXCEPT ![h] = req'[h]],
         pc' = pc \/ \E k \in {1, 2} : \E s : pc' = [pc EXCEPT ![<<h, k>>] = s],
         RequestOK(h)'
  PROVE  IInv'
<1>1. TypeOK'
  BY DEF IInv, TypeOK
<1>2. Targets'
  BY DEF IInv, Targets, VaultOf
<1>3. ASSUME NEW g \in Http, g # h PROVE RequestOK(g)'
  <2>1. req'[g] = req[g]
    BY <1>3 DEF IInv, TypeOK
  <2>2. \A k \in {1, 2} : <<g, k>> \in Withs /\ \A l \in {1, 2} : <<g, k>> # <<h, l>>
    BY <1>3 DEF Withs
  <2>3. pc'[<<g, 1>>] = pc[<<g, 1>>] /\ pc'[<<g, 2>>] = pc[<<g, 2>>]
    BY <2>2 DEF PoolOK
  <2> QED
    BY <2>1, <2>3, OthersKept DEF IInv
<1> QED
  BY <1>1, <1>2, <1>3 DEF IInv

\* Each answer and each move of a request keeps its type.
LEMMA AnswerEffect ==
  ASSUME TypeOK, NEW h \in Http, NEW a \in Answers, Answer(h, a)
  PROVE  /\ req'[h] \in ReqType /\ req' = [req EXCEPT ![h] = req'[h]]
         /\ req'[h].at = "answered" /\ req'[h].answer = a
         /\ req'[h].ran = req[h].ran /\ req'[h].paid = req[h].paid
<1>1. [req[h] EXCEPT !.at = "answered", !.answer = a] \in ReqType
  <2>1. req[h] \in ReqType
    BY DEF TypeOK
  <2> QED
    BY <2>1 DEF ReqType, Ats
<1>2. req'[h] = [req[h] EXCEPT !.at = "answered", !.answer = a]
  BY DEF Answer, TypeOK
<1>3. req[h] \in ReqType /\ req' = [req EXCEPT ![h] = req'[h]]
  BY DEF Answer, TypeOK
<1> QED
  BY <1>1, <1>2, <1>3 DEF ReqType

LEMMA GotoEffect ==
  ASSUME TypeOK, NEW h \in Http, NEW at \in Ats, Goto(h, at)
  PROVE  /\ req'[h] \in ReqType /\ req' = [req EXCEPT ![h] = req'[h]]
         /\ req'[h].at = at /\ req'[h].answer = req[h].answer
         /\ req'[h].ran = req[h].ran /\ req'[h].paid = req[h].paid
<1>1. req[h] \in ReqType
  BY DEF TypeOK
<1>2. req'[h] = [req[h] EXCEPT !.at = at] /\ req' = [req EXCEPT ![h] = req'[h]]
  BY DEF Goto, TypeOK
<1> QED
  BY <1>1, <1>2 DEF ReqType

LEMMA CallMoves ==
  ASSUME PoolOK, NEW h \in Http, NEW k \in {1, 2}, NEW s, pc' = [pc EXCEPT ![<<h, k>>] = s]
  PROVE  /\ pc'[<<h, k>>] = s
         /\ k = 1 => pc'[<<h, 2>>] = pc[<<h, 2>>]
         /\ k = 2 => pc'[<<h, 1>>] = pc[<<h, 1>>]
<1>1. <<h, 1>> \in Withs /\ <<h, 2>> \in Withs /\ <<h, 1>> # <<h, 2>>
  BY DEF Withs
<1> QED
  BY <1>1 DEF PoolOK

-----------------------------------------------------------------------------
(* One lemma per action.                                                   *)

LEMMA ArriveStep ==
  ASSUME IInv, PoolOK, NEW h \in Http, Arrive(h)
  PROVE  IInv'
<1>1. /\ req[h].at = "outside" /\ UNCHANGED <<poolVars, provider, plan>>
      /\ req'[h] \in ReqType /\ req' = [req EXCEPT ![h] = req'[h]]
      /\ req'[h].at = "accepted" /\ req'[h].answer = req[h].answer
      /\ req'[h].ran = req[h].ran /\ req'[h].paid = req[h].paid
  BY GotoEffect DEF IInv, Arrive, Ats
<1>2. pc' = pc /\ target' = target /\ RequestOK(h)
  BY <1>1 DEF IInv, poolVars
<1>3. RequestOK(h)'
  BY <1>1, <1>2 DEF RequestOK, AtOutside, AtFirst, AtVerified, AtSecond, Unanswered, Told,
     Untouched, Idle, Supported
<1> QED
  BY <1>1, <1>2, <1>3, OneRequestSteps

LEMMA TurnAwayStep ==
  ASSUME IInv, PoolOK, NEW h \in Http, TurnAway(h)
  PROVE  IInv'
<1>1. req[h].at = "accepted" /\ UNCHANGED <<poolVars, provider, plan>>
  BY DEF TurnAway
<1>2. PICK a \in {"unauthorized", "invalid", "error"} : Answer(h, a)
  BY DEF TurnAway, Refusal
<1>3. /\ req'[h] \in ReqType /\ req' = [req EXCEPT ![h] = req'[h]]
      /\ req'[h].at = "answered" /\ req'[h].answer = a
      /\ req'[h].ran = req[h].ran /\ req'[h].paid = req[h].paid
  BY <1>2, AnswerEffect DEF IInv, Answers
<1>4. pc' = pc /\ target' = target /\ RequestOK(h)
  BY <1>1 DEF IInv, poolVars
<1>5. Untouched(h) /\ Untouched(h)'
  BY <1>1, <1>3, <1>4 DEF RequestOK, AtOutside, Untouched, Idle
<1>6. RequestOK(h)'
  BY <1>2, <1>3, <1>5 DEF RequestOK, AtOutside, AtFirst, AtVerified, AtSecond, Unanswered, Told,
     Untouched, Idle, Ended
<1> QED
  BY <1>1, <1>3, <1>4, <1>6, OneRequestSteps

\* Either call of withSdk asks the pool: the first of an accepted request, the
\* second of a verified webhook.
LEMMA AskPoolStep ==
  ASSUME IInv, PoolOK, NEW h \in Http, NEW k \in {1, 2}, AskPool(h, k),
         k = 1 => req[h].at = "accepted" /\ Authorized(h),
         k = 2 => req[h].at = "verified"
  PROVE  IInv'
<1>1. <<h, k>> \in Withs /\ RequestOK(h) /\ UNCHANGED <<provider, plan>>
  BY DEF Withs, IInv, AskPool
<1>2. CASE (Pool!Reuse(<<h, k>>) \/ Pool!Create(<<h, k>>) \/ Pool!EvictAndCreate(<<h, k>>))
           /\ Goto(h, IF k = 1 THEN "first" ELSE "second")
  <2>1. PICK s \in {"creating", "using"} : pc' = [pc EXCEPT ![<<h, k>>] = s]
    BY <1>1, <1>2, PoolEffect
  <2>2. target' = target
    BY <1>1, <1>2, PoolEffect
  <2>3. /\ req'[h] \in ReqType /\ req' = [req EXCEPT ![h] = req'[h]]
        /\ req'[h].at = (IF k = 1 THEN "first" ELSE "second") /\ req'[h].answer = req[h].answer
        /\ req'[h].ran = req[h].ran /\ req'[h].paid = req[h].paid
    <3>1. (IF k = 1 THEN "first" ELSE "second") \in Ats
      BY DEF Ats
    <3> QED
      BY <1>2, <3>1, GotoEffect DEF IInv
  <2>4. CASE k = 1
    <3>1. pc'[<<h, 1>>] = s /\ pc'[<<h, 2>>] = pc[<<h, 2>>]
      BY <2>1, <2>4, CallMoves
    <3>2. Untouched(h) /\ Unanswered(h) /\ Authorized(h) /\ req[h].at # "answered"
      BY <1>1, <2>4 DEF RequestOK, AtOutside
    <3>3. RequestOK(h)'
      BY <1>1, <2>3, <2>4, <3>1, <3>2 DEF RequestOK, AtOutside, AtFirst, AtVerified, AtSecond,
             Unanswered, Told, Untouched, Idle, Busy, Authorized, Signed, Supported
    <3> QED
      BY <1>1, <2>1, <2>2, <2>3, <3>3, OneRequestSteps
  <2>5. CASE k = 2
    <3>1. pc'[<<h, 2>>] = s /\ pc'[<<h, 1>>] = pc[<<h, 1>>]
      BY <2>1, <2>5, CallMoves
    <3>2. RequestOK(h)'
      BY <1>1, <2>3, <2>5, <3>1 DEF RequestOK, AtOutside, AtFirst, AtVerified, AtSecond,
         Unanswered, Told, Busy, Done, Signed, Supported
    <3> QED
      BY <1>1, <2>1, <2>2, <2>3, <3>2, OneRequestSteps
  <2> QED
    BY <2>4, <2>5
<1>3. CASE Pool!Refuse(<<h, k>>) /\ Answer(h, "full")
  <2>1. pc' = [pc EXCEPT ![<<h, k>>] = "failed"] /\ target' = target
    BY <1>1, <1>3, PoolEffect
  <2>2. /\ req'[h] \in ReqType /\ req' = [req EXCEPT ![h] = req'[h]]
        /\ req'[h].at = "answered" /\ req'[h].answer = "full"
        /\ req'[h].ran = req[h].ran /\ req'[h].paid = req[h].paid
    BY <1>3, AnswerEffect DEF IInv, Answers
  <2>3. Ended(h, 1)' /\ Ended(h, 2)'
    <3>1. CASE k = 1
      BY <1>1, <2>1, <3>1, CallMoves DEF RequestOK, AtOutside, Untouched, Idle, Ended
    <3>2. CASE k = 2
      BY <1>1, <2>1, <3>2, CallMoves DEF RequestOK, AtVerified, Done, Ended
    <3> QED
      BY <3>1, <3>2
  <2>4. "operation" \notin req[h].ran /\ ~req[h].paid
    BY <1>1 DEF RequestOK, AtOutside, AtVerified, Unanswered, Untouched
  <2>5. RequestOK(h)'
    BY <2>2, <2>3, <2>4 DEF RequestOK, AtOutside, AtFirst, AtVerified, AtSecond, Unanswered, Told
  <2> QED
    BY <1>1, <2>1, <2>2, <2>5, OneRequestSteps
<1> QED
  BY <1>2, <1>3 DEF AskPool

LEMMA FactoryDoneStep ==
  ASSUME IInv, PoolOK, NEW h \in Http, NEW k \in {1, 2}, FactoryDone(h, k)
  PROVE  IInv'
<1>1. <<h, k>> \in Withs /\ RequestOK(h) /\ UNCHANGED <<provider, plan>> /\ req[h] \in ReqType
  BY DEF Withs, IInv, TypeOK, FactoryDone
<1>2. pc[<<h, k>>] = "creating"
  BY <1>1, PoolEffect DEF FactoryDone
<1>3. req[h].at = IF k = 1 THEN "first" ELSE "second"
  BY <1>1, <1>2 DEF RequestOK, AtOutside, AtFirst, AtVerified, AtSecond, Told, Untouched,
     Idle, Busy, Done, Ended, ReqType, Ats
<1>4. CASE Pool!Insert(<<h, k>>) /\ UNCHANGED req
  <2>1. pc' = [pc EXCEPT ![<<h, k>>] = "using"] /\ target' = target
    BY <1>1, <1>4, PoolEffect
  <2>2. req'[h] \in ReqType /\ req' = [req EXCEPT ![h] = req'[h]] /\ req'[h] = req[h]
    BY <1>1, <1>4 DEF IInv, TypeOK
  <2>3. RequestOK(h)'
    BY <1>1, <1>3, <2>1, <2>2, CallMoves DEF RequestOK, AtOutside, AtFirst, AtVerified, AtSecond,
       Unanswered, Told, Idle, Busy, Done, Signed, Authorized, Supported
  <2> QED
    BY <1>1, <2>1, <2>2, <2>3, OneRequestSteps
<1>5. CASE Pool!FactoryRejects(<<h, k>>) /\ Answer(h, "error")
  <2>1. pc' = [pc EXCEPT ![<<h, k>>] = "failed"] /\ target' = target
    BY <1>1, <1>5, PoolEffect
  <2>2. /\ req'[h] \in ReqType /\ req' = [req EXCEPT ![h] = req'[h]]
        /\ req'[h].at = "answered" /\ req'[h].answer = "error"
    BY <1>5, AnswerEffect DEF IInv, Answers
  <2>3. Ended(h, 1)' /\ Ended(h, 2)'
    BY <1>1, <1>3, <2>1, CallMoves DEF RequestOK, AtFirst, AtSecond, Idle, Done, Ended
  <2>4. RequestOK(h)'
    BY <2>2, <2>3 DEF RequestOK, AtOutside, AtFirst, AtVerified, AtSecond, Unanswered, Told
  <2> QED
    BY <1>1, <2>1, <2>2, <2>4, OneRequestSteps
<1> QED
  BY <1>4, <1>5 DEF FactoryDone

LEMMA VerifyStep ==
  ASSUME IInv, PoolOK, NEW h \in Http, Verify(h)
  PROVE  IInv'
<1>1. /\ <<h, 1>> \in Withs /\ RequestOK(h) /\ UNCHANGED <<provider, plan>> /\ req[h] \in ReqType
      /\ req[h].at = "first" /\ Signed(h)
  BY DEF Withs, IInv, TypeOK, Verify, Signed
<1>2. pc' = [pc EXCEPT ![<<h, 1>>] = "done"] /\ target' = target
  BY <1>1, PoolEffect DEF Verify, GiveBack
<1>3. pc'[<<h, 1>>] = "done" /\ pc'[<<h, 2>>] = pc[<<h, 2>>]
  BY <1>2, CallMoves
<1>4. req[h].ran = {} /\ ~req[h].paid /\ req[h].answer = "none" /\ Idle(h, 2)
  BY <1>1 DEF RequestOK, AtFirst, Unanswered
<1>5. /\ req' = [req EXCEPT ![h] = req'[h]]
      /\ req'[h] = [req[h] EXCEPT !.at = IF Verified(h) THEN "verified" ELSE "answered",
                                  !.ran = @ \cup {"verify"},
                                  !.answer = IF Verified(h) THEN @ ELSE "unauthorized"]
  BY DEF Verify, IInv, TypeOK
<1>6. /\ req'[h].at = (IF Verified(h) THEN "verified" ELSE "answered")
      /\ req'[h].ran = {"verify"} /\ req'[h].paid = req[h].paid
      /\ req'[h].answer = IF Verified(h) THEN "none" ELSE "unauthorized"
  BY <1>1, <1>4, <1>5 DEF ReqType
<1>7. req'[h] \in ReqType
  <2>1. (IF Verified(h) THEN "verified" ELSE "answered") \in Ats
    BY DEF Ats
  <2>2. (IF Verified(h) THEN req[h].answer ELSE "unauthorized") \in Answers
    BY <1>1 DEF Answers, ReqType
  <2>3. req[h].ran \cup {"verify"} \in SUBSET {"verify", "operation"}
    BY <1>4
  <2> QED
    BY <1>1, <1>5, <2>1, <2>2, <2>3 DEF ReqType
<1>8. RequestOK(h)'
  <2>1. CASE Verified(h)
    BY <1>1, <1>3, <1>4, <1>6, <2>1 DEF RequestOK, AtOutside, AtFirst, AtVerified, AtSecond,
       Unanswered, Told, Idle, Done, Signed, Verified
  <2>2. CASE ~Verified(h)
    BY <1>1, <1>3, <1>4, <1>6, <2>2 DEF RequestOK, AtOutside, AtFirst, AtVerified, AtSecond,
       Unanswered, Told, Idle, Done, Ended
  <2> QED
    BY <2>1, <2>2
<1> QED
  BY <1>1, <1>2, <1>5, <1>7, <1>8, OneRequestSteps

\* The call that runs the operation is using its SDK: where the request is then.
LEMMA InOperation ==
  ASSUME IInv, NEW h \in Http, Using(h, OperationOf(h)), req[h].at # "answered"
  PROVE  /\ Signed(h) => req[h].at = "second" /\ Done(h, 1) /\ plan[h].credentials
         /\ ~Signed(h) => req[h].at = "first" /\ Idle(h, 2) /\ plan[h].credentials
         /\ req[h].answer = "none" /\ ("operation" \in req[h].ran <=> req[h].paid)
         /\ req[h].paid => Supported(h)
         /\ req[h] \in ReqType
<1>1. RequestOK(h) /\ req[h] \in ReqType /\ req[h].at \in Ats
  BY DEF IInv, TypeOK, ReqType
<1>2. req[h].answer = "none" /\ ("operation" \in req[h].ran <=> req[h].paid)
      /\ (req[h].paid => Supported(h))
  BY <1>1 DEF RequestOK, Unanswered
<1>3. CASE Signed(h)
  <2>1. pc[<<h, 2>>] = "using"
    BY <1>3 DEF Using, OperationOf, Signed
  <2> QED
    BY <1>1, <1>2, <1>3, <2>1 DEF RequestOK, AtOutside, AtFirst, AtVerified, AtSecond, Untouched,
       Idle, Ats
<1>4. CASE ~Signed(h)
  <2>1. pc[<<h, 1>>] = "using"
    BY <1>4 DEF Using, OperationOf, Signed
  <2> QED
    BY <1>1, <1>2, <1>4, <2>1 DEF RequestOK, AtOutside, AtFirst, AtVerified, AtSecond, Untouched,
       Idle, Done, Authorized, Signed, Ats
<1> QED
  BY <1>3, <1>4

LEMMA PostStep ==
  ASSUME IInv, PoolOK, NEW h \in Http, Post(h)
  PROVE  IInv'
<1>1. RequestOK(h) /\ UNCHANGED <<poolVars, provider, plan>> /\ Supported(h)
      /\ Using(h, OperationOf(h))
  BY DEF IInv, Post
<1>2. pc' = pc /\ target' = target
  BY <1>1 DEF poolVars
<1>3. req[h].at # "answered"
  BY <1>1 DEF RequestOK, Told, Using, OperationOf, Ended
<1>4. req[h] \in ReqType /\ req[h].answer = "none" /\ (Signed(h) => req[h].at = "second")
      /\ (~Signed(h) => req[h].at = "first")
  BY <1>1, <1>3, InOperation
<1>5. /\ req' = [req EXCEPT ![h] = req'[h]]
      /\ req'[h] = [req[h] EXCEPT !.paid = TRUE, !.ran = @ \cup {"operation"}]
  BY DEF Post, IInv, TypeOK
<1>6. /\ req'[h].at = req[h].at /\ req'[h].answer = "none" /\ req'[h].paid = TRUE
      /\ req'[h].ran = req[h].ran \cup {"operation"}
  BY <1>4, <1>5 DEF ReqType
<1>7. req'[h] \in ReqType
  <2>1. req[h].ran \cup {"operation"} \in SUBSET {"verify", "operation"}
    BY <1>4 DEF ReqType
  <2> QED
    BY <1>4, <1>5, <2>1 DEF ReqType
<1>8. RequestOK(h)'
  BY <1>1, <1>2, <1>3, <1>4, <1>6 DEF RequestOK, AtOutside, AtFirst, AtVerified, AtSecond,
     Unanswered, Told, Untouched, Idle, Busy, Done, Signed, Authorized, Supported
<1> QED
  BY <1>1, <1>2, <1>5, <1>7, <1>8, OneRequestSteps

LEMMA SettleStep ==
  ASSUME IInv, PoolOK, NEW h \in Http, Settle(h)
  PROVE  IInv'
<1> DEFINE k == OperationOf(h)
<1>1. /\ RequestOK(h) /\ UNCHANGED <<provider, plan>> /\ k \in {1, 2} /\ <<h, k>> \in Withs
      /\ req[h].at # "answered" /\ Using(h, k) /\ Pool!Release(<<h, k>>)
  BY DEF IInv, Settle, OperationOf, Withs
<1>2. /\ Signed(h) => req[h].at = "second" /\ Done(h, 1) /\ plan[h].credentials
      /\ ~Signed(h) => req[h].at = "first" /\ Idle(h, 2) /\ plan[h].credentials
      /\ req[h].answer = "none" /\ ("operation" \in req[h].ran <=> req[h].paid)
      /\ req[h].paid => Supported(h)
      /\ req[h] \in ReqType
  BY <1>1, InOperation
<1>3. pc' = [pc EXCEPT ![<<h, k>>] = "done"] /\ target' = target
  BY <1>1, PoolEffect
<1>4. Ended(h, 1)' /\ Ended(h, 2)'
  <2>1. CASE Signed(h)
    <3>1. k = 2
      BY <2>1 DEF OperationOf, Signed
    <3> QED
      BY <1>2, <1>3, <2>1, <3>1, CallMoves DEF Ended, Done
  <2>2. CASE ~Signed(h)
    <3>1. k = 1
      BY <2>2 DEF OperationOf, Signed
    <3> QED
      BY <1>2, <1>3, <2>2, <3>1, CallMoves DEF Ended, Idle
  <2> QED
    BY <2>1, <2>2
<1>5. ASSUME req'[h] \in ReqType, req' = [req EXCEPT ![h] = req'[h]], req'[h].at = "answered",
             \/ /\ req'[h].answer = "unsupported" /\ ~req'[h].paid
                /\ "operation" \notin req'[h].ran
             \/ /\ req'[h].answer = "ok" /\ "operation" \in req'[h].ran
                /\ plan[h].route.pays => req'[h].paid
             \/ req'[h].answer = "error"
      PROVE  IInv'
  <2>1. RequestOK(h)'
    BY <1>1, <1>2, <1>4, <1>5 DEF RequestOK, AtOutside, AtFirst, AtVerified, AtSecond, Unanswered, Told
  <2> QED
    BY <1>1, <1>3, <1>5, <2>1, OneRequestSteps
<1>6. CASE ~Supported(h) /\ Answer(h, "unsupported")
  <2>1. /\ req'[h] \in ReqType /\ req' = [req EXCEPT ![h] = req'[h]]
        /\ req'[h].at = "answered" /\ req'[h].answer = "unsupported"
        /\ req'[h].ran = req[h].ran /\ req'[h].paid = req[h].paid
    BY <1>6, AnswerEffect DEF IInv, Answers
  <2> QED
    BY <1>2, <1>5, <1>6, <2>1
<1>7. ASSUME NEW a \in {"ok", "error"}, a = "ok" => (plan[h].route.pays => req[h].paid),
             req' = [req EXCEPT ![h].at = "answered", ![h].answer = a, ![h].ran = @ \cup {"operation"}]
      PROVE  IInv'
  <2>1. /\ req' = [req EXCEPT ![h] = req'[h]]
        /\ req'[h] = [req[h] EXCEPT !.at = "answered", !.answer = a, !.ran = @ \cup {"operation"}]
    BY <1>7 DEF IInv, TypeOK
  <2>2. /\ req'[h].at = "answered" /\ req'[h].answer = a /\ req'[h].paid = req[h].paid
        /\ "operation" \in req'[h].ran
    BY <1>2, <2>1 DEF ReqType
  <2>3. req'[h] \in ReqType
    <3>1. req[h].ran \cup {"operation"} \in SUBSET {"verify", "operation"} /\ a \in Answers
      BY <1>2 DEF ReqType, Answers
    <3>2. "answered" \in Ats
      BY DEF Ats
    <3> QED
      BY <1>2, <2>1, <3>1, <3>2 DEF ReqType
  <2> QED
    BY <1>5, <1>7, <2>1, <2>2, <2>3
<1> QED
  BY <1>6, <1>7 DEF Settle

\* The timers, the signal and the exit leave every request where it is.
LEMMA ProcessStep ==
  ASSUME IInv, PoolOK, Signal \/ Exit \/ Timer
  PROVE  IInv'
<1>1. UNCHANGED <<provider, plan, req, pc, target>>
  BY DEF Signal, Exit, Timer, Pool!BeginShutdown, Pool!FinishShutdown, Pool!CleanupIdleSdks, Pool!Tick
<1>2. TypeOK' /\ Targets'
  BY <1>1 DEF IInv, TypeOK, Targets, VaultOf
<1>3. \A h \in Http : RequestOK(h)'
  BY <1>1, OthersKept DEF IInv
<1> QED
  BY <1>2, <1>3 DEF IInv

LEMMA Inductive ==
  /\ Init => IInv
  /\ IInv /\ PoolOK /\ [Next]_vars => IInv'
<1>1. Init => IInv
  <2> SUFFICES ASSUME Init PROVE IInv
    OBVIOUS
  <2>1. TypeOK
    BY DEF Init, TypeOK, ReqType, Ats, Answers
  <2>2. Targets
    BY DEF Init, Targets, Withs
  <2>3. ASSUME NEW h \in Http PROVE RequestOK(h)
    <3>1. Idle(h, 1) /\ Idle(h, 2)
      BY DEF Init, Pool!Init, Idle, Withs
    <3>2. req[h].at = "outside" /\ req[h].ran = {} /\ ~req[h].paid /\ req[h].answer = "none"
      BY DEF Init
    <3> QED
      BY <3>1, <3>2 DEF RequestOK, AtOutside, AtFirst, AtVerified, AtSecond, Unanswered, Told, Untouched
  <2> QED
    BY <2>1, <2>2, <2>3 DEF IInv
<1>2. IInv /\ UNCHANGED vars => IInv'
  <2> SUFFICES ASSUME IInv, UNCHANGED vars PROVE IInv'
    OBVIOUS
  <2>1. TypeOK' /\ Targets'
    BY DEF IInv, TypeOK, Targets, VaultOf, vars, poolVars
  <2>2. \A h \in Http : RequestOK(h)'
    BY OthersKept DEF IInv, vars, poolVars
  <2> QED
    BY <2>1, <2>2 DEF IInv
<1>3. ASSUME IInv, PoolOK, NEW h \in Http, Serve(h) PROVE IInv'
  <2>1. CASE Handle(h)
    BY <1>3, <2>1, AskPoolStep DEF Handle
  <2>2. CASE Enrich(h)
    BY <1>3, <2>2, AskPoolStep DEF Enrich
  <2> QED
    BY <1>3, <2>1, <2>2, TurnAwayStep, VerifyStep, PostStep, SettleStep, FactoryDoneStep DEF Serve
<1> QED
  BY <1>1, <1>2, <1>3, ArriveStep, ProcessStep DEF Next

LEMMA IInvInvariant == Spec => []IInv
BY Inductive, PoolOKInvariant, PTL DEF Spec

-----------------------------------------------------------------------------
(* Theorems.                                                               *)

\* The answer tells what was done: an operation that ran and paid if it was to, or
\* one that was refused and has not begun, for a caller who was let in or was not.
THEOREM AnswersTellWhatWasDoneInvariant == Spec => []AnswersTellWhatWasDone
<1>1. ASSUME IInv, PoolOK, NEW h \in Http, req[h].at = "answered"
      PROVE  /\ req[h].answer = "ok" =>
                  plan[h].credentials /\ "operation" \in req[h].ran
                  /\ (plan[h].route.pays => req[h].paid)
             /\ req[h].answer \in {"unauthorized", "invalid", "full", "unsupported"} =>
                  "operation" \notin req[h].ran /\ ~req[h].paid
             /\ req[h].answer \in {"unauthorized", "invalid"} =>
                  \A k \in {1, 2} : sdkStatus[<<h, k>>] = "none" \/ (k = 1 /\ req[h].ran = {"verify"})
             /\ \A k \in {1, 2} : ~Using(h, k)
  <2>1. Told(h)
    BY <1>1 DEF IInv, RequestOK
  <2>2. ASSUME NEW k \in {1, 2}, Idle(h, k) PROVE sdkStatus[<<h, k>>] = "none"
    BY <1>1, <2>2 DEF PoolOK, Proofs!NotYetCreated, Idle, Withs
  <2>3. \A k \in {1, 2} : ~Using(h, k)
    BY <1>1, <2>1 DEF Told, Ended, Using
  <2>4. ASSUME req[h].answer \in {"unauthorized", "invalid"}, NEW k \in {1, 2}
        PROVE  sdkStatus[<<h, k>>] = "none" \/ (k = 1 /\ req[h].ran = {"verify"})
    BY <1>1, <2>1, <2>2, <2>4 DEF Told
  <2> QED
    BY <1>1, <2>1, <2>3, <2>4 DEF Told
<1>2. IInv /\ PoolOK => AnswersTellWhatWasDone
  BY <1>1 DEF AnswersTellWhatWasDone
<1> QED
  BY <1>2, IInvInvariant, PoolOKInvariant, PTL

\* Only the pool's refusal gives the answer "full".
LEMMA FullIsRefused ==
  ASSUME IInv, PoolOK, [Next]_vars, NEW h \in Http,
         req[h].answer = "none", req'[h].answer = "full"
  PROVE  \E k \in {1, 2} : /\ Pool!Refuse(<<h, k>>)
                           /\ ~Using(h, 1) /\ ~Using(h, 2)
<1>1. TypeOK /\ req[h] \in ReqType
  BY DEF IInv, TypeOK
<1>2. req' # req
  OBVIOUS
<1>3. PICK g \in Http : Arrive(g) \/ Serve(g)
  BY <1>2 DEF Next, Signal, Exit, Timer, vars
<1>4. g = h
  <2>1. SUFFICES ASSUME g # h PROVE FALSE
    OBVIOUS
  <2>2. req'[h] = req[h]
    BY <1>1, <1>3, <2>1 DEF Arrive, Serve, TurnAway, Handle, Verify, Enrich, Post, Settle, FactoryDone,
       AskPool, Answer, Goto, TypeOK
  <2> QED
    BY <2>2
<1>5. ~Arrive(h)
  BY <1>1, GotoEffect DEF Arrive, Ats
<1>6. ~TurnAway(h)
  <2>1. SUFFICES ASSUME TurnAway(h) PROVE FALSE
    OBVIOUS
  <2>2. PICK a \in {"unauthorized", "invalid", "error"} : Answer(h, a)
    BY <2>1 DEF TurnAway, Refusal
  <2> QED
    BY <1>1, <2>2, AnswerEffect DEF Answers
<1>7. ~Verify(h)
  <2>1. SUFFICES ASSUME Verify(h) PROVE FALSE
    OBVIOUS
  <2>2. req'[h].answer = IF Verified(h) THEN req[h].answer ELSE "unauthorized"
    BY <1>1, <2>1 DEF Verify, TypeOK, ReqType
  <2> QED
    BY <2>2
<1>8. ~Post(h)
  BY <1>1 DEF Post, TypeOK, ReqType
<1>9. ~Settle(h)
  <2>1. SUFFICES ASSUME Settle(h) PROVE FALSE
    OBVIOUS
  <2>2. PICK a \in {"unsupported", "ok", "error"} : req'[h].answer = a
    BY <1>1, <2>1 DEF Settle, Answer, TypeOK, ReqType
  <2> QED
    BY <2>2
<1>10. \A k \in {1, 2} : ~FactoryDone(h, k)
  BY <1>1, AnswerEffect DEF FactoryDone, Answers
<1>11. PICK k \in {1, 2} : AskPool(h, k) /\ req[h].at = IF k = 1 THEN "accepted" ELSE "verified"
  BY <1>3, <1>4, <1>5, <1>6, <1>7, <1>8, <1>9, <1>10 DEF Serve, Handle, Enrich
<1>12. Pool!Refuse(<<h, k>>)
  <2>1. (IF k = 1 THEN "first" ELSE "second") \in Ats
    BY DEF Ats
  <2>2. ~Goto(h, IF k = 1 THEN "first" ELSE "second")
    BY <1>1, <2>1, GotoEffect
  <2> QED
    BY <1>11, <2>2 DEF AskPool
<1>13. ~Using(h, 1) /\ ~Using(h, 2)
  <2>1. RequestOK(h)
    BY DEF IInv
  <2> QED
    BY <1>11, <2>1 DEF RequestOK, AtOutside, AtVerified, Untouched, Idle, Done, Using
<1> QED
  BY <1>12, <1>13

\* A request is refused for a full pool only while each pooled SDK is used by another
\* request, or is idle and was last used in this very tick.
THEOREM RefusedWhileInUseHolds == Spec => RefusedWhileInUse
<1>1. ASSUME IInv, PoolOK, [Next]_vars, NEW h \in Http,
             req[h].answer = "none", req'[h].answer = "full", NEW v \in Pool!Pooled
      PROVE  \/ sdkPool[v].useCount = 0 /\ sdkPool[v].age = 0
             \/ \E g \in Http \ {h}, k \in {1, 2} : Using(g, k) /\ VaultOf(g, k) = v
  <2> SUFFICES ASSUME ~(sdkPool[v].useCount = 0 /\ sdkPool[v].age = 0)
               PROVE  \E g \in Http \ {h}, k \in {1, 2} : Using(g, k) /\ VaultOf(g, k) = v
    OBVIOUS
  <2>1. PICK l \in {1, 2} : Pool!Refuse(<<h, l>>) /\ ~Using(h, 1) /\ ~Using(h, 2)
    BY <1>1, FullIsRefused
  <2>2. v \in Vault /\ sdkPool[v] # NoItem
    BY DEF Pool!Pooled
  <2>3. sdkPool[v].age \in Nat /\ sdkPool[v].useCount \in Nat
    BY <1>1, <2>2 DEF PoolOK
  <2>4. sdkPool[v].useCount # 0
    <3>1. ~(sdkPool[v].useCount = 0 /\ sdkPool[v].age > 0)
      BY <2>1, <2>2 DEF Pool!Refuse, Pool!Evictable, Pool!Idle, Pool!Pooled
    <3> QED
      BY <2>3, <3>1
  <2>5. sdkPool[v].useCount <= Cardinality(Proofs!Using(v))
    BY <1>1, <2>2 DEF PoolOK, Proofs!NoPhantomUse, Proofs!Pooled, Cardinality, Proofs!Cardinality
  <2>6. PICK w \in Withs : pc[w] = "using" /\ target[w] = v
    <3>1. Proofs!Using(v) # {}
      BY <2>3, <2>4, <2>5, FS_EmptySet
    <3> QED
      BY <3>1 DEF Proofs!Using
  <2>7. PICK g \in Http, k \in {1, 2} : w = <<g, k>>
    BY DEF Withs
  <2>8. Using(g, k) /\ VaultOf(g, k) = v
    BY <1>1, <2>6, <2>7 DEF Using, IInv, Targets
  <2>9. g # h
    BY <2>1, <2>8
  <2> QED
    BY <2>8, <2>9
<1>2. IInv /\ PoolOK /\ [Next]_vars =>
        [\A h \in Http : (req[h].answer = "none" /\ req'[h].answer = "full") =>
           \A v \in Pool!Pooled :
             \/ sdkPool[v].useCount = 0 /\ sdkPool[v].age = 0
             \/ \E g \in Http \ {h}, k \in {1, 2} : Using(g, k) /\ VaultOf(g, k) = v]_vars
  BY <1>1
<1> QED
  BY <1>2, IInvInvariant, PoolOKInvariant, PTL DEF Spec, RefusedWhileInUse
=============================================================================
