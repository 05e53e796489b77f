-------------------------- MODULE ProvidersProofs ---------------------------
(***************************************************************************)
(* Theorems about what the providers are relied on for: that a transaction *)
(* is submitted once (Submission), that a cached asset's answer is recent  *)
(* (AssetCache), and that a list read page by page is the whole list       *)
(* (PagedScan).  The three share no state.  Submission's rest on the POST  *)
(* and the ledger moving together; AssetCache's on no entry being older    *)
(* than one request more than its age; PagedScan's on counting: what was   *)
(* read and is not on the list any more has left it meanwhile, so that a   *)
(* page that makes up the list's length leaves out no more than that.      *)
(***************************************************************************)
EXTENDS Submission, AssetCache, PagedScan, SequenceTheorems, FiniteSetTheorems, TLAPS

-----------------------------------------------------------------------------
(* Submission: at most one POST.                                           *)

\* The one POST and the ledger.
OnePost ==
  /\ posts <= 1
  /\ pc = "signed" => posts = 0 /\ wire = "unsent"
  /\ wire = "processed" <=> ledger # "absent"

\* Where the call is and what it has been told.
Progress ==
  /\ outcome # "none" => pc = "returned"
  /\ pc = "lookup" => answer # 200
  /\ pc \in {"signed", "posting", "lookup"} => outcome = "none"

IInv == TypeOK /\ OnePost /\ Progress /\ SuccessIsReal /\ ErrorIsFinal

\* The retry loop never repeats a POST.
LEMMA NoSecondPost == \A s : ~MayRetry(FALSE, s)
BY DEF MayRetry

\* A step of the call itself.
LEMMA CallStep ==
  ASSUME IInv, Post \/ AnswerPost \/ AnswerLookup
  PROVE  IInv'
<1> USE MaxRetriesAssumption DEF IInv, TypeOK, OnePost, Progress
<1>1. CASE Post
  <2>1. TypeOK'
    BY <1>1 DEF Post
  <2>2. OnePost' /\ Progress'
    BY <1>1 DEF Post
  <2> QED
    BY <1>1, <2>1, <2>2 DEF Post, SuccessIsReal, ErrorIsFinal
<1>2. CASE AnswerSuccess
  BY <1>2 DEF AnswerSuccess, Return, netVars, SuccessIsReal, ErrorIsFinal
<1>3. CASE AnswerOtherHash
  BY <1>3 DEF AnswerOtherHash, Return, netVars, SuccessIsReal, ErrorIsFinal
<1>4. ASSUME NEW s \in Status, AnswerError(s) PROVE IInv'
  <2>1. /\ pc = "posting" /\ answer' = s /\ OnPostError(s)
        /\ s \notin Inconclusive => wire = "dropped" \/ ledger = "refused"
        /\ UNCHANGED <<kind, posts, wire, ledger, lookupFailed>>
    BY <1>4, NoSecondPost DEF AnswerError
  <2>2. answer' # 200 /\ answer' \in Status
    BY <2>1 DEF Status
  <2>3. CASE kind = "demeter" /\ s \in Ambiguous
    BY <2>1, <2>2, <2>3 DEF OnPostError, SuccessIsReal, ErrorIsFinal
  <2>4. CASE ~(kind = "demeter" /\ s \in Ambiguous)
    BY <2>1, <2>2, <2>4
    DEF OnPostError, Return, Ambiguous, Inconclusive, SuccessIsReal, ErrorIsFinal
  <2> QED
    BY <2>3, <2>4
<1>5. CASE LookupFound \/ LookupMissing
  BY <1>5
  DEF LookupFound, LookupMissing, Visible, Return, netVars, SuccessIsReal,
      ErrorIsFinal
<1>6. ASSUME NEW s \in Status, LookupError(s) PROVE IInv'
  <2>1. CASE MayRetry(TRUE, s)
    BY <1>6, <2>1
    DEF LookupError, MayRetry, netVars, SuccessIsReal, ErrorIsFinal
  <2>2. CASE ~MayRetry(TRUE, s)
    BY <1>6, <2>2
    DEF LookupError, Return, netVars, SuccessIsReal, ErrorIsFinal
  <2> QED
    BY <2>1, <2>2
<1> QED
  BY <1>1, <1>2, <1>3, <1>4, <1>5, <1>6 DEF AnswerPost, AnswerLookup

\* A step of the network.
LEMMA NetworkStep ==
  ASSUME IInv, Process \/ Drop \/ Settle
  PROVE  IInv'
<1> USE DEF IInv, TypeOK, OnePost, Progress, callVars
<1>1. CASE Process
  BY <1>1 DEF Process, SuccessIsReal, ErrorIsFinal
<1>2. CASE Drop
  BY <1>2 DEF Drop, SuccessIsReal, ErrorIsFinal
<1>3. CASE Settle
  BY <1>3 DEF Settle, SuccessIsReal, ErrorIsFinal
<1> QED
  BY <1>1, <1>2, <1>3

\* The invariant is inductive.
LEMMA Inductive ==
  /\ Init => IInv
  /\ IInv /\ [Next]_vars => IInv'
<1>1. Init => IInv
  <2>1. Init => TypeOK
    <3>1. Init => attempt \in 0..MaxRetries /\ posts \in Nat
      BY MaxRetriesAssumption DEF Init
    <3>2. Init => lookupFailed \in BOOLEAN
      BY DEF Init
    <3> QED
      BY <3>1, <3>2 DEF Init, TypeOK
  <2>2. Init => OnePost /\ Progress
    BY DEF Init, OnePost, Progress
  <2> QED
    BY <2>1, <2>2 DEF Init, IInv, SuccessIsReal, ErrorIsFinal
<1>2. IInv /\ UNCHANGED vars => IInv'
  BY DEF vars, IInv, TypeOK, OnePost, Progress, SuccessIsReal, ErrorIsFinal
<1> QED
  BY <1>1, <1>2, CallStep, NetworkStep DEF Next

\* The types are invariant.
THEOREM TypeCorrect == Spec => []TypeOK
<1>1. IInv => TypeOK
  BY DEF IInv
<1> QED
  BY <1>1, Inductive, PTL DEF Spec

\* A transaction is posted at most once per call.
THEOREM PostedOnceInvariant == Spec => []PostedOnce
<1>1. IInv => PostedOnce
  BY DEF IInv, OnePost, PostedOnce
<1> QED
  BY <1>1, Inductive, PTL DEF Spec

\* What is reported as a success was taken by the node.
THEOREM SuccessIsRealInvariant == Spec => []SuccessIsReal
<1>1. IInv => SuccessIsReal
  BY DEF IInv
<1> QED
  BY <1>1, Inductive, PTL DEF Spec

\* What Demeter's answer to the POST made a plain error never gets on the
\* ledger.
THEOREM ErrorIsFinalInvariant == Spec => []ErrorIsFinal
<1>1. IInv => ErrorIsFinal
  BY DEF IInv
<1> QED
  BY <1>1, Inductive, PTL DEF Spec

-----------------------------------------------------------------------------
(* AssetCache: how old an answer can be.                                   *)

IsReader(q) ==
  /\ q = [pc |-> q.pc, asset |-> q.asset, skip |-> q.skip, version |-> q.version,
          waited |-> q.waited, from |-> q.from]
  /\ q.pc \in {"idle", "asked", "answered", "done"} /\ q.skip \in BOOLEAN
  /\ q.pc # "idle" => q.asset \in Assets
  /\ q.version \in 0..MaxVersion /\ q.waited \in 0..Latency
  /\ q.from \in {"none", "cache", "iagon", "error"}

IsEntry(e) == /\ e = [version |-> e.version, age |-> e.age]
              /\ e.version \in 0..MaxVersion /\ e.age \in 0..Horizon

CacheTypeOK ==
  /\ published \in [Assets -> Versions]
  /\ outdated \in [Assets -> [Versions -> 0..Horizon]]
  /\ cache = [a \in Assets |-> cache[a]]
  /\ \A a \in Assets : IsEntry(cache[a])
  /\ reader = [r \in Readers |-> reader[r]] /\ \A r \in Readers : IsReader(reader[r])

\* A version is outdated only when a newer one is out.
AgesTell == \A a \in Assets, v \in Versions : v >= published[a] => outdated[a][v] = 0

\* An entry's version was current less than its age and one request ago.
EntriesAreRecent ==
  \A a \in Assets : Cached(a) => outdated[a][cache[a].version] <= cache[a].age + Latency

\* An answer under way carries a version that was current since it was asked for,
\* one that was given is as recent as AnswersAreRecent says.
IsRecent(q) ==
  /\ q.pc = "answered" => q.version # 0 /\ outdated[q.asset][q.version] <= q.waited
  /\ q.pc = "done" /\ q.version # 0 =>
       outdated[q.asset][q.version] <= IF q.from = "cache" THEN TTL + Latency - 1 ELSE q.waited

CacheInv == /\ CacheTypeOK /\ AgesTell /\ EntriesAreRecent
            /\ \A r \in Readers : IsRecent(reader[r])

\* A step of one reader.
LEMMA ReaderMoves ==
  ASSUME CacheInv, NEW r \in Readers, NEW q, IsReader(q), IsRecent(q),
         reader' = [reader EXCEPT ![r] = q], UNCHANGED <<published, outdated, cache>>
  PROVE  CacheInv'
<1>1. /\ reader' = [x \in Readers |-> reader'[x]] /\ reader'[r] = q
      /\ \A x \in Readers \ {r} : reader'[x] = reader[x]
  BY DEF CacheInv, CacheTypeOK
<1>2. \A x \in Readers : IsReader(reader'[x]) /\ IsRecent(reader'[x])
  BY <1>1 DEF CacheInv, CacheTypeOK
<1> QED
  BY <1>1, <1>2 DEF CacheInv, CacheTypeOK, AgesTell, EntriesAreRecent, Cached, IsReader, IsRecent

\* What an entry says.
LEMMA EntryFacts ==
  ASSUME CacheInv, NEW a \in Assets, Cached(a)
  PROVE  /\ cache[a].version \in Versions /\ cache[a].age \in 0..Horizon
         /\ outdated[a][cache[a].version] \in 0..Horizon
         /\ outdated[a][cache[a].version] <= cache[a].age + Latency
<1>1. cache[a].version \in Versions /\ cache[a].age \in 0..Horizon
  BY Times DEF CacheInv, CacheTypeOK, IsEntry, Cached, Versions
<1>2. outdated[a][cache[a].version] \in 0..Horizon
  BY <1>1 DEF CacheInv, CacheTypeOK
<1> QED
  BY <1>1, <1>2 DEF CacheInv, EntriesAreRecent

\* A call is answered from the cache, asks Iagon, or drops an expired entry first.
LEMMA LookStep ==
  ASSUME CacheInv, NEW r \in Readers, NEW a \in Assets, NEW skip \in BOOLEAN, Look(r, a, skip)
  PROVE  CacheInv'
<1> USE Times DEF Versions, Horizon
<1>1. PICK n : Idle = [pc |-> "idle", asset |-> n, skip |-> FALSE, version |-> 0,
                       waited |-> 0, from |-> "none"]
  BY DEF Idle
<1>2. CASE Hit(r, a, skip)
  <2>1. PICK q : q = [pc |-> "done", asset |-> a, skip |-> FALSE, version |-> cache[a].version,
                      waited |-> 0, from |-> "cache"]
    OBVIOUS
  <2>2. reader' = [reader EXCEPT ![r] = q] /\ UNCHANGED <<published, outdated, cache>>
    BY <1>1, <1>2, <2>1 DEF Look
  <2>3. IsReader(q)
    BY <2>1 DEF IsReader, CacheInv, CacheTypeOK, IsEntry
  <2>4. outdated[a][cache[a].version] <= TTL + Latency - 1
    BY <1>2, EntryFacts DEF Hit
  <2>5. IsRecent(q)
    BY <2>1, <2>4 DEF IsRecent
  <2> QED
    BY <2>2, <2>3, <2>5, ReaderMoves
<1>3. CASE ~Hit(r, a, skip)
  <2>1. PICK q : q = [pc |-> "asked", asset |-> a, skip |-> skip, version |-> 0,
                      waited |-> 0, from |-> "none"]
    OBVIOUS
  <2>2. reader' = [reader EXCEPT ![r] = q] /\ UNCHANGED <<published, outdated>>
    BY <1>1, <1>3, <2>1 DEF Look
  <2>3. IsReader(q) /\ IsRecent(q)
    BY <2>1 DEF IsReader, IsRecent
  <2>4. CASE cache' = cache
    BY <2>2, <2>3, <2>4, ReaderMoves
  <2>5. CASE cache' = [cache EXCEPT ![a] = NoEntry]
    <3>1. /\ reader' = [x \in Readers |-> reader'[x]] /\ reader'[r] = q
          /\ \A x \in Readers \ {r} : reader'[x] = reader[x]
      BY <2>2 DEF CacheInv, CacheTypeOK
    <3>2. \A x \in Readers : IsReader(reader'[x]) /\ IsRecent(reader'[x])
      BY <2>3, <3>1 DEF CacheInv, CacheTypeOK
    <3>3. /\ cache' = [b \in Assets |-> cache'[b]] /\ cache'[a] = [version |-> 0, age |-> 0]
          /\ \A b \in Assets \ {a} : cache'[b] = cache[b]
      BY <2>5 DEF CacheInv, CacheTypeOK, NoEntry
    <3>4. CacheTypeOK'
      <4>1. ASSUME NEW b \in Assets PROVE IsEntry(cache'[b])
        <5>1. CASE b = a
          BY <3>3, <5>1 DEF IsEntry
        <5>2. CASE b # a
          BY <3>3, <5>2 DEF CacheInv, CacheTypeOK
        <5> QED
          BY <5>1, <5>2
      <4> QED
        BY <2>2, <3>1, <3>2, <3>3, <4>1 DEF CacheInv, CacheTypeOK, IsReader
    <3> QED
      BY <2>2, <3>1, <3>2, <3>3, <3>4 DEF CacheInv, AgesTell, EntriesAreRecent, Cached, IsRecent
  <2> QED
    BY <1>3, <2>4, <2>5 DEF Look
<1> QED
  BY <1>2, <1>3

\* Iagon answers with what is current.
LEMMA ServeStep == ASSUME CacheInv, NEW r \in Readers, Serve(r) PROVE CacheInv'
<1> USE Times DEF Versions, Horizon
<1>1. PICK o : o = reader[r]
  OBVIOUS
<1>2. IsReader(o) /\ o.pc = "asked" /\ o.asset \in Assets
  BY <1>1 DEF Serve, CacheInv, CacheTypeOK, IsReader
<1>3. PICK q : q = [o EXCEPT !.pc = "answered", !.version = published[o.asset]]
  OBVIOUS
<1>4. reader' = [reader EXCEPT ![r] = q] /\ UNCHANGED <<published, outdated, cache>>
  BY <1>1, <1>3 DEF Serve, CacheInv, CacheTypeOK
<1>5. q = [pc |-> "answered", asset |-> o.asset, skip |-> o.skip,
           version |-> published[o.asset], waited |-> o.waited, from |-> o.from]
  BY <1>2, <1>3 DEF IsReader
<1>6. published[o.asset] \in Versions /\ outdated[o.asset][published[o.asset]] = 0
  BY <1>2 DEF CacheInv, CacheTypeOK, AgesTell
<1>7. IsReader(q) /\ IsRecent(q)
  BY <1>2, <1>5, <1>6 DEF IsReader, IsRecent
<1> QED
  BY <1>4, <1>7, ReaderMoves

\* The answer is stored with an age that starts anew.
LEMMA ReceiveStep == ASSUME CacheInv, NEW r \in Readers, Receive(r) PROVE CacheInv'
<1> USE Times DEF Versions, Horizon
<1>1. PICK o : o = reader[r]
  OBVIOUS
<1>2. IsReader(o) /\ IsRecent(o) /\ o.pc = "answered" /\ o.asset \in Assets
  BY <1>1 DEF Receive, CacheInv, CacheTypeOK, IsReader
<1>3. PICK q : q = [o EXCEPT !.pc = "done", !.from = "iagon"]
  OBVIOUS
<1>4. /\ reader' = [reader EXCEPT ![r] = q] /\ UNCHANGED <<published, outdated>>
      /\ cache' = [cache EXCEPT ![o.asset] = [version |-> o.version, age |-> 0]]
  BY <1>1, <1>3 DEF Receive, Stored, CacheInv, CacheTypeOK
<1>5. q = [pc |-> "done", asset |-> o.asset, skip |-> o.skip,
           version |-> o.version, waited |-> o.waited, from |-> "iagon"]
  BY <1>2, <1>3 DEF IsReader
<1>6. /\ o.version \in Versions /\ outdated[o.asset][o.version] <= o.waited
      /\ o.waited \in 0..Latency
  BY <1>2 DEF IsReader, IsRecent
<1>7. IsReader(q) /\ IsRecent(q)
  BY <1>2, <1>5, <1>6 DEF IsReader, IsRecent
<1>8. /\ reader' = [x \in Readers |-> reader'[x]] /\ reader'[r] = q
      /\ \A x \in Readers \ {r} : reader'[x] = reader[x]
  BY <1>4 DEF CacheInv, CacheTypeOK
<1>9. \A x \in Readers : IsReader(reader'[x]) /\ IsRecent(reader'[x])
  BY <1>7, <1>8 DEF CacheInv, CacheTypeOK
<1>10. /\ cache' = [b \in Assets |-> cache'[b]]
       /\ cache'[o.asset] = [version |-> o.version, age |-> 0]
       /\ \A b \in Assets \ {o.asset} : cache'[b] = cache[b]
  BY <1>2, <1>4 DEF CacheInv, CacheTypeOK
<1>11. CacheTypeOK'
  <2>1. ASSUME NEW b \in Assets PROVE IsEntry(cache'[b])
    <3>1. CASE b = o.asset
      BY <1>6, <1>10, <3>1 DEF IsEntry
    <3>2. CASE b # o.asset
      BY <1>10, <3>2 DEF CacheInv, CacheTypeOK
    <3> QED
      BY <3>1, <3>2
  <2> QED
    BY <1>4, <1>8, <1>9, <1>10, <2>1 DEF CacheInv, CacheTypeOK, IsReader
<1>12. EntriesAreRecent'
  <2> SUFFICES ASSUME NEW b \in Assets, Cached(b)'
               PROVE  outdated[b][cache'[b].version] <= cache'[b].age + Latency
    BY <1>4 DEF EntriesAreRecent
  <2>1. CASE b = o.asset
    <3>1. outdated[b][o.version] \in 0..Horizon
      BY <1>2, <1>6, <2>1 DEF CacheInv, CacheTypeOK
    <3> QED
      BY <1>6, <1>10, <2>1, <3>1
  <2>2. CASE b # o.asset
    BY <1>10, <2>2 DEF CacheInv, EntriesAreRecent, Cached
  <2> QED
    BY <2>1, <2>2
<1> QED
  BY <1>4, <1>9, <1>11, <1>12 DEF CacheInv, AgesTell, IsRecent

\* A request fails, or the caller takes its answer.
LEMMA FailOrForgetStep ==
  ASSUME CacheInv, NEW r \in Readers, Fail(r) \/ Forget(r)
  PROVE  CacheInv'
<1> USE Times
<1>1. PICK o : o = reader[r]
  OBVIOUS
<1>2. IsReader(o)
  BY <1>1 DEF CacheInv, CacheTypeOK
<1>3. CASE Fail(r)
  <2>1. PICK q : q = [o EXCEPT !.pc = "done", !.version = 0, !.from = "error"]
    OBVIOUS
  <2>2. reader' = [reader EXCEPT ![r] = q] /\ UNCHANGED <<published, outdated, cache>>
    BY <1>1, <1>3, <2>1 DEF Fail, CacheInv, CacheTypeOK
  <2>3. q = [pc |-> "done", asset |-> o.asset, skip |-> o.skip,
             version |-> 0, waited |-> o.waited, from |-> "error"]
    BY <1>2, <2>1 DEF IsReader
  <2>4. IsReader(q) /\ IsRecent(q)
    BY <1>1, <1>2, <1>3, <2>3 DEF Fail, IsReader, IsRecent
  <2> QED
    BY <2>2, <2>4, ReaderMoves
<1>4. CASE Forget(r)
  <2>1. PICK n : Idle = [pc |-> "idle", asset |-> n, skip |-> FALSE, version |-> 0,
                         waited |-> 0, from |-> "none"]
    BY DEF Idle
  <2>2. IsReader(Idle) /\ IsRecent(Idle)
    BY <2>1 DEF IsReader, IsRecent
  <2> QED
    BY <1>4, <2>2, ReaderMoves DEF Forget
<1> QED
  BY <1>3, <1>4

\* Entries are cleared, a version is published.
LEMMA ClearOrPublishStep ==
  ASSUME CacheInv, (\E scope \in Scopes : Clear(scope)) \/ \E a \in Assets : Publish(a)
  PROVE  CacheInv'
<1> USE Times DEF Versions, Horizon
<1>1. ASSUME NEW scope \in Scopes, Clear(scope) PROVE CacheInv'
  <2>1. /\ UNCHANGED <<published, outdated, reader>>
        /\ cache' = [a \in Assets |-> cache'[a]]
        /\ \A a \in Assets : cache'[a] = NoEntry \/ cache'[a] = cache[a]
    BY <1>1 DEF Clear
  <2>2. NoEntry = [version |-> 0, age |-> 0]
    BY DEF NoEntry
  <2>3. CacheTypeOK'
    BY <2>1, <2>2 DEF CacheInv, CacheTypeOK, IsEntry, IsReader
  <2> QED
    BY <2>1, <2>2, <2>3 DEF CacheInv, AgesTell, EntriesAreRecent, Cached, IsRecent
<1>2. ASSUME NEW a \in Assets, Publish(a) PROVE CacheInv'
  <2>1. /\ UNCHANGED <<outdated, cache, reader>> /\ published[a] < MaxVersion
        /\ published' = [published EXCEPT ![a] = @ + 1]
    BY <1>2 DEF Publish
  <2>2. /\ published' \in [Assets -> Versions]
        /\ \A b \in Assets : published'[b] >= published[b]
    BY <2>1 DEF CacheInv, CacheTypeOK
  <2>3. CacheTypeOK'
    BY <2>1, <2>2 DEF CacheInv, CacheTypeOK, IsReader
  <2>4. AgesTell'
    <3> SUFFICES ASSUME NEW b \in Assets, NEW v \in Versions, v >= published'[b]
                 PROVE  outdated[b][v] = 0
      BY <2>1 DEF AgesTell
    <3>1. published[b] \in Int /\ published'[b] \in Int /\ published'[b] >= published[b]
      BY <2>2 DEF CacheInv, CacheTypeOK
    <3> QED
      BY <3>1 DEF CacheInv, AgesTell
  <2> QED
    BY <2>1, <2>3, <2>4 DEF CacheInv, EntriesAreRecent, Cached, IsRecent
<1> QED
  BY <1>1, <1>2

\* A tick makes every age one more, what is outdated, cached or asked for alike.
LEMMA TickStep == ASSUME CacheInv, Tick PROVE CacheInv'
<1> USE Times DEF Versions, Horizon
<1>1. /\ \A r \in Readers : /\ reader[r].pc # "done"
                            /\ Asking(r) => reader[r].waited < Latency
      /\ outdated' = [a \in Assets |-> [v \in Versions |->
           IF v < published[a] THEN Capped(outdated[a][v]) ELSE 0]]
      /\ cache' = [a \in Assets |->
           IF Cached(a) THEN [cache[a] EXCEPT !.age = Capped(@)] ELSE cache[a]]
      /\ reader' = [r \in Readers |->
           IF Asking(r) THEN [reader[r] EXCEPT !.waited = @ + 1] ELSE reader[r]]
      /\ UNCHANGED published
  BY DEF Tick
<1>2. \A n \in 0..Horizon : /\ Capped(n) \in 0..Horizon /\ Capped(n) <= n + 1
                            /\ Capped(n) = n + 1 \/ Capped(n) = Horizon
  BY DEF Capped
<1>3. /\ outdated' \in [Assets -> [Versions -> 0..Horizon]]
      /\ \A a \in Assets, v \in Versions : outdated'[a][v] <= outdated[a][v] + 1
  <2>1. \A a \in Assets, v \in Versions : outdated[a][v] \in 0..Horizon
    BY DEF CacheInv, CacheTypeOK
  <2> QED
    BY <1>1, <1>2, <2>1
<1>4. AgesTell'
  BY <1>1 DEF AgesTell, CacheInv, CacheTypeOK
<1>5. ASSUME NEW a \in Assets
      PROVE  /\ cache'[a] = [version |-> cache'[a].version, age |-> cache'[a].age]
             /\ cache'[a].version = cache[a].version
             /\ cache'[a].age = IF Cached(a) THEN Capped(cache[a].age) ELSE cache[a].age
  <2>1. PICK e : e = cache[a]
    OBVIOUS
  <2>2. e = [version |-> e.version, age |-> e.age]
    BY <2>1 DEF CacheInv, CacheTypeOK, IsEntry
  <2>3. cache'[a] = IF Cached(a) THEN [e EXCEPT !.age = Capped(e.age)] ELSE e
    BY <1>1, <2>1
  <2>4. [e EXCEPT !.age = Capped(e.age)] = [version |-> e.version, age |-> Capped(e.age)]
    BY <2>2
  <2> QED
    BY <2>1, <2>2, <2>3, <2>4
<1>6. /\ cache' = [a \in Assets |-> cache'[a]]
      /\ \A a \in Assets : cache'[a].version \in 0..MaxVersion /\ cache'[a].age \in 0..Horizon
  BY <1>1, <1>2, <1>5 DEF CacheInv, CacheTypeOK, IsEntry
<1>7. EntriesAreRecent'
  <2> SUFFICES ASSUME NEW a \in Assets, Cached(a)'
               PROVE  outdated'[a][cache'[a].version] <= cache'[a].age + Latency
    BY DEF EntriesAreRecent
  <2>1. PICK v, n, o : v = cache[a].version /\ n = cache[a].age /\ o = outdated[a][v]
    OBVIOUS
  <2>2. Cached(a)
    BY <1>5 DEF Cached
  <2>3. /\ v \in Versions /\ n \in 0..Horizon /\ o \in 0..Horizon /\ o <= n + Latency
        /\ cache'[a].version = v /\ cache'[a].age = Capped(n)
    BY <1>5, <2>1, <2>2, EntryFacts
  <2>4. outdated'[a][v] \in 0..Horizon /\ outdated'[a][v] <= o + 1
    BY <1>3, <2>1, <2>3
  <2> QED
    BY <1>2, <2>3, <2>4
<1>8. ASSUME NEW r \in Readers PROVE IsReader(reader'[r]) /\ IsRecent(reader[r])'
  <2>1. PICK o : o = reader[r]
    OBVIOUS
  <2>2. IsReader(o) /\ IsRecent(o) /\ o.pc # "done"
    BY <1>1, <2>1 DEF CacheInv, CacheTypeOK
  <2>3. CASE ~Asking(r)
    <3>1. reader'[r] = o /\ o.pc = "idle"
      BY <1>1, <2>1, <2>2, <2>3 DEF Asking, IsReader
    <3> QED
      BY <2>2, <3>1 DEF IsRecent
  <2>4. CASE Asking(r)
    <3>1. PICK q : q = [o EXCEPT !.waited = o.waited + 1]
      OBVIOUS
    <3>2. reader'[r] = q /\ o.waited < Latency /\ o.pc # "idle"
      BY <1>1, <2>1, <2>4, <3>1 DEF Asking
    <3>3. q = [pc |-> o.pc, asset |-> o.asset, skip |-> o.skip,
               version |-> o.version, waited |-> o.waited + 1, from |-> o.from]
      BY <2>2, <3>1 DEF IsReader
    <3>4. IsReader(q)
      BY <2>2, <3>2, <3>3 DEF IsReader
    <3>5. o.pc = "answered" => /\ o.version \in Versions /\ o.asset \in Assets
                               /\ outdated[o.asset][o.version] <= o.waited
      BY <2>2 DEF IsReader, IsRecent
    <3>6. o.pc = "answered" => outdated'[o.asset][o.version] <= o.waited + 1
      <4> SUFFICES ASSUME o.pc = "answered" PROVE outdated'[o.asset][o.version] <= o.waited + 1
        OBVIOUS
      <4>1. /\ outdated[o.asset][o.version] \in 0..Horizon
            /\ outdated'[o.asset][o.version] \in 0..Horizon
            /\ outdated'[o.asset][o.version] <= outdated[o.asset][o.version] + 1
        BY <1>3, <3>5 DEF CacheInv, CacheTypeOK
      <4>2. o.waited \in 0..Latency
        BY <2>2 DEF IsReader
      <4> QED
        BY <3>5, <4>1, <4>2
    <3>7. q.pc = o.pc /\ q.asset = o.asset /\ q.version = o.version /\ q.waited = o.waited + 1
      BY <3>3
    <3> QED
      BY <2>2, <3>2, <3>4, <3>5, <3>6, <3>7 DEF IsRecent
  <2> QED
    BY <2>3, <2>4
<1>9. CacheTypeOK'
  <2>1. reader' = [r \in Readers |-> reader'[r]]
    BY <1>1
  <2> QED
    BY <1>1, <1>3, <1>5, <1>6, <1>8, <2>1 DEF CacheInv, CacheTypeOK, IsEntry, IsReader
<1> QED
  BY <1>4, <1>7, <1>8, <1>9 DEF CacheInv

\* The cache's invariant is inductive.
LEMMA CacheInductive ==
  /\ CacheInit => CacheInv
  /\ CacheInv /\ [CacheNext]_cacheVars => CacheInv'
<1>1. CacheInit => CacheInv
  <2> SUFFICES ASSUME CacheInit PROVE CacheInv
    OBVIOUS
  <2> USE Times DEF Versions, Horizon
  <2>1. PICK n : Idle = [pc |-> "idle", asset |-> n, skip |-> FALSE, version |-> 0,
                         waited |-> 0, from |-> "none"]
    BY DEF Idle
  <2>2. IsReader(Idle) /\ IsRecent(Idle)
    BY <2>1 DEF IsReader, IsRecent
  <2>3. CacheTypeOK
    BY <2>2 DEF CacheInit, CacheTypeOK, IsEntry, NoEntry
  <2> QED
    BY <2>2, <2>3 DEF CacheInit, CacheInv, AgesTell, EntriesAreRecent, Cached, NoEntry
<1>2. CacheInv /\ UNCHANGED cacheVars => CacheInv'
  BY DEF cacheVars, CacheInv, CacheTypeOK, AgesTell, EntriesAreRecent, Cached, IsReader, IsRecent
<1> QED
  BY <1>1, <1>2, LookStep, ServeStep, ReceiveStep, FailOrForgetStep, ClearOrPublishStep,
     TickStep DEF CacheNext

\* However requests overlap, overtake each other or outlive a clear, an answer is
\* as recent as the time to live and one request allow.
THEOREM AnswersAreRecentInvariant == CacheSpec => []AnswersAreRecent
<1>1. CacheInv => AnswersAreRecent
  BY DEF CacheInv, IsRecent, AnswersAreRecent
<1> QED
  BY <1>1, CacheInductive, PTL DEF CacheSpec

-----------------------------------------------------------------------------
(* Lists without repetition.                                               *)

\* A list that has each item at one place.
Distinct(list) == list \in Seq(Nat) /\ IsInjective(list)

\* Its places and its size.
LEMMA DistinctIs ==
  ASSUME NEW list, Distinct(list)
  PROVE  /\ Len(list) \in Nat /\ DOMAIN list = 1..Len(list)
         /\ Range(list) = {list[i] : i \in 1..Len(list)}
         /\ IsFiniteSet(Range(list)) /\ Cardinality(Range(list)) = Len(list)
         /\ Range(list) \subseteq Nat
<1>1. Len(list) \in Nat /\ DOMAIN list = 1..Len(list)
  BY DEF Distinct
<1>2. list \in Bijection(1..Len(list), Range(list))
  BY <1>1 DEF Distinct, IsInjective, Bijection, Injection, Surjection, Range
<1>3. IsFiniteSet(1..Len(list)) /\ Cardinality(1..Len(list)) = Len(list)
  <2>1. 1 \in Int /\ Len(list) \in Int
    BY <1>1
  <2>2. /\ IsFiniteSet(1..Len(list))
        /\ Cardinality(1..Len(list)) = IF 1 > Len(list) THEN 0 ELSE Len(list) - 1 + 1
    BY <2>1, FS_Interval
  <2> QED
    BY <1>1, <2>2
<1>4. ExistsBijection(1..Len(list), Range(list))
  BY <1>2 DEF ExistsBijection
<1>5. Range(list) \subseteq Nat
  BY RangeOfSeq DEF Distinct
<1> QED
  BY <1>1, <1>3, <1>4, <1>5, FS_Bijection DEF Range

\* A part of a list.
LEMMA PartIs ==
  ASSUME NEW list, Distinct(list), NEW m \in Nat, NEW n \in Nat, n <= Len(list)
  PROVE  LET part == SubSeq(list, m + 1, n) IN
         /\ Distinct(part) /\ Range(part) = {list[i] : i \in (m + 1)..n}
         /\ Len(part) = IF m < n THEN n - m ELSE 0
         /\ \A i \in 1..Len(part) : part[i] = list[m + i]
<1> DEFINE part == SubSeq(list, m + 1, n)
           size == IF m < n THEN n - m ELSE 0
<1>1. Len(list) \in Nat /\ DOMAIN list = 1..Len(list)
  BY DistinctIs
<1>2. \A i \in (m + 1)..n : i \in 1..Len(list) /\ list[i] \in Nat
  BY <1>1 DEF Distinct
<1>3. /\ part \in Seq(Nat) /\ Len(part) = (IF m + 1 <= n THEN n - (m + 1) + 1 ELSE 0)
      /\ \A i \in 1..(n - (m + 1) + 1) : part[i] = list[(m + 1) + i - 1]
  BY <1>2, SubSeqProperties
<1> HIDE DEF part
<1>4. Len(part) = size /\ DOMAIN part = 1..size /\ size \in Nat
  BY <1>3
<1>5. \A i \in 1..size : part[i] = list[m + i] /\ m + i \in (m + 1)..n
  <2> SUFFICES ASSUME NEW i \in 1..size PROVE part[i] = list[m + i] /\ m + i \in (m + 1)..n
    OBVIOUS
  <2>1. i \in 1..(n - (m + 1) + 1) /\ (m + 1) + i - 1 = m + i
    OBVIOUS
  <2> QED
    BY <1>3, <2>1
<1>6. IsInjective(part)
  <2> SUFFICES ASSUME NEW a \in 1..size, NEW b \in 1..size, part[a] = part[b] PROVE a = b
    BY <1>4 DEF IsInjective
  <2>1. m + a \in DOMAIN list /\ m + b \in DOMAIN list /\ list[m + a] = list[m + b]
    BY <1>1, <1>2, <1>5
  <2>2. m + a = m + b
    BY <2>1 DEF Distinct, IsInjective
  <2> QED
    BY <2>2
<1>7. Range(part) = {list[i] : i \in (m + 1)..n}
  <2>1. \A i \in (m + 1)..n : i - m \in 1..size /\ m + (i - m) = i
    OBVIOUS
  <2>2. Range(part) = {part[i] : i \in 1..size}
    BY <1>4 DEF Range
  <2> HIDE DEF size
  <2> QED
    BY <1>5, <2>1, <2>2
<1> QED
  BY <1>3, <1>4, <1>5, <1>6, <1>7 DEF Distinct, part

\* Two lists after each other that share nothing.
LEMMA JoinIs ==
  ASSUME NEW s, Distinct(s), NEW t, Distinct(t), Range(s) \cap Range(t) = {}
  PROVE  /\ Distinct(s \o t) /\ Range(s \o t) = Range(s) \cup Range(t)
         /\ Len(s \o t) = Len(s) + Len(t)
<1> DEFINE j == s \o t
<1>1. /\ j \in Seq(Nat) /\ Len(j) = Len(s) + Len(t)
      /\ \A i \in 1..(Len(s) + Len(t)) :
           j[i] = IF i <= Len(s) THEN s[i] ELSE t[i - Len(s)]
  BY ConcatProperties DEF Distinct
<1>2. Range(j) = Range(s) \cup Range(t)
  BY RangeConcatenation DEF Distinct
<1> HIDE DEF j
<1>3. /\ Len(s) \in Nat /\ DOMAIN s = 1..Len(s) /\ Len(t) \in Nat /\ DOMAIN t = 1..Len(t)
      /\ DOMAIN j = 1..(Len(s) + Len(t))
  BY <1>1, DistinctIs
<1>4. ASSUME NEW a \in DOMAIN j, NEW b \in DOMAIN j, j[a] = j[b] PROVE a = b
  <2>1. CASE a <= Len(s) /\ b <= Len(s)
    <3>1. a \in DOMAIN s /\ b \in DOMAIN s /\ s[a] = s[b]
      BY <1>1, <1>3, <1>4, <2>1
    <3> QED
      BY <3>1 DEF Distinct, IsInjective
  <2>2. CASE ~(a <= Len(s)) /\ ~(b <= Len(s))
    <3>1. a \in 1..(Len(s) + Len(t)) /\ b \in 1..(Len(s) + Len(t))
      BY <1>3
    <3>2. j[a] = t[a - Len(s)] /\ j[b] = t[b - Len(s)]
      BY <1>1, <2>2, <3>1
    <3>3. a - Len(s) \in DOMAIN t /\ b - Len(s) \in DOMAIN t
      BY <1>3, <2>2, <3>1
    <3>4. a - Len(s) = b - Len(s)
      BY <1>4, <3>2, <3>3 DEF Distinct, IsInjective
    <3> QED
      BY <1>3, <3>1, <3>4
  <2>3. ASSUME NEW i \in DOMAIN j, NEW k \in DOMAIN j, i <= Len(s), ~(k <= Len(s)) PROVE j[i] # j[k]
    <3>1. i \in 1..(Len(s) + Len(t)) /\ k \in 1..(Len(s) + Len(t))
      BY <1>3
    <3>2. j[i] = s[i] /\ j[k] = t[k - Len(s)]
      BY <1>1, <2>3, <3>1
    <3>3. i \in DOMAIN s /\ k - Len(s) \in DOMAIN t
      BY <1>3, <2>3, <3>1
    <3> QED
      BY <3>2, <3>3 DEF Range
  <2> QED
    BY <1>4, <2>1, <2>2, <2>3
<1> QED
  BY <1>1, <1>2, <1>4 DEF Distinct, IsInjective, j

\* A list read from its end.
LEMMA ReverseIs ==
  ASSUME NEW list, Distinct(list)
  PROVE  /\ Distinct(Reverse(list)) /\ Len(Reverse(list)) = Len(list)
         /\ Range(Reverse(list)) = Range(list)
         /\ \A i \in 1..Len(list) : Reverse(list)[i] = list[Len(list) - i + 1]
<1> DEFINE r == Reverse(list)
           n == Len(list)
<1>1. n \in Nat /\ DOMAIN list = 1..n /\ \A i \in 1..n : list[i] \in Nat
  BY DistinctIs DEF Distinct
<1>2. r = [i \in 1..n |-> list[(n - i) + 1]]
  BY DEF Reverse
<1>3. \A i \in 1..n : (n - i) + 1 \in 1..n /\ (n - ((n - i) + 1)) + 1 = i
  BY <1>1
<1>4. r \in [1..n -> Nat]
  BY <1>1, <1>2, <1>3
<1>5. r \in Seq(Nat) /\ Len(r) = n /\ DOMAIN r = 1..n
  BY <1>1, <1>4
<1> HIDE DEF r, n
<1>6. \A i \in 1..n : r[i] = list[(n - i) + 1]
  BY <1>2
<1>7. IsInjective(r)
  <2> SUFFICES ASSUME NEW a \in 1..n, NEW b \in 1..n, r[a] = r[b] PROVE a = b
    BY <1>5 DEF IsInjective
  <2>1. (n - a) + 1 = (n - b) + 1
    BY <1>1, <1>3, <1>6 DEF Distinct, IsInjective
  <2> QED
    BY <1>1, <2>1
<1>8. Range(r) = Range(list)
  <2>1. Range(r) = {r[i] : i \in 1..n} /\ Range(list) = {list[i] : i \in 1..n}
    BY <1>1, <1>5 DEF Range
  <2>2. \A i \in 1..n : list[i] = r[(n - i) + 1]
    BY <1>3, <1>6
  <2> QED
    BY <1>3, <1>6, <2>1, <2>2
<1> QED
  BY <1>5, <1>6, <1>7, <1>8 DEF Distinct, r, n

\* A list without one item.
LEMMA RemovedIs ==
  ASSUME NEW list, Distinct(list), NEW i \in DOMAIN list
  PROVE  /\ Distinct(RemoveAt(list, i))
         /\ Range(RemoveAt(list, i)) = Range(list) \ {list[i]}
<1> DEFINE n == Len(list)
           s == SubSeq(list, 1, i - 1)
           t == SubSeq(list, i + 1, n)
<1>1. n \in Nat /\ DOMAIN list = 1..n /\ i \in 1..n /\ Range(list) = {list[k] : k \in 1..n}
  BY DistinctIs
<1>2. Distinct(s) /\ Range(s) = {list[k] : k \in 1..(i - 1)}
  <2>1. PICK m, e : m = 0 /\ e = i - 1
    OBVIOUS
  <2>2. m \in Nat /\ e \in Nat /\ e <= Len(list)
    BY <1>1, <2>1
  <2>3. /\ Distinct(SubSeq(list, m + 1, e))
        /\ Range(SubSeq(list, m + 1, e)) = {list[k] : k \in (m + 1)..e}
    BY <2>2, PartIs
  <2>4. m + 1 = 1
    BY <2>1
  <2> QED
    BY <2>1, <2>3, <2>4
<1>3. Distinct(t) /\ Range(t) = {list[k] : k \in (i + 1)..n}
  <2>1. i \in Nat /\ n \in Nat /\ n <= Len(list)
    BY <1>1
  <2> QED
    BY <2>1, PartIs
<1> HIDE DEF s, t
<1>4. \A j \in 1..n, k \in 1..n : list[j] = list[k] => j = k
  BY <1>1 DEF Distinct, IsInjective
<1>5. /\ \A k \in 1..(i - 1) : k \in 1..n /\ k # i /\ k \notin (i + 1)..n
      /\ \A k \in (i + 1)..n : k \in 1..n /\ k # i
      /\ \A k \in 1..n : k = i \/ k \in 1..(i - 1) \/ k \in (i + 1)..n
  BY <1>1
<1>6. Range(s) \cap Range(t) = {}
  BY <1>2, <1>3, <1>4, <1>5
<1>7. Range(s) \cup Range(t) = Range(list) \ {list[i]}
  BY <1>1, <1>2, <1>3, <1>4, <1>5
<1>8. RemoveAt(list, i) = s \o t
  BY DEF RemoveAt, s, t
<1> QED
  BY <1>2, <1>3, <1>6, <1>7, <1>8, JoinIs

\* A list with one more item.
LEMMA AppendedIs ==
  ASSUME NEW list, Distinct(list), NEW x \in Nat, x \notin Range(list)
  PROVE  /\ Distinct(Append(list, x))
         /\ Range(Append(list, x)) = Range(list) \cup {x}
<1> DEFINE t == <<x>>
<1>1. t \in Seq(Nat) /\ DOMAIN t = 1..1 /\ t[1] = x
  OBVIOUS
<1> HIDE DEF t
<1>2. Distinct(t) /\ Range(t) = {x}
  BY <1>1 DEF Distinct, IsInjective, Range
<1>3. Append(list, x) = list \o t
  BY AppendIsConcat DEF Distinct, t
<1> QED
  BY <1>2, <1>3, JoinIs

\* What was read before and one more page make up a list that the page is of, if
\* they are as many together: all of it but as many as were read and are not in it.
LEMMA AsManyIsAll ==
  ASSUME NEW list, Distinct(list), NEW items, Distinct(items), NEW page, Distinct(page),
         Range(page) \subseteq Range(list), Range(page) \cap Range(items) = {},
         NEW g \in Nat, Cardinality(Range(items) \ Range(list)) <= g,
         Len(items) + Len(page) >= Len(list)
  PROVE  LET all == Range(items) \cup Range(page) IN
         /\ Cardinality(Range(list) \ all) <= g
         /\ g = 0 => all = Range(list) /\ Len(items) + Len(page) = Len(list)
<1> DEFINE A == Range(items)
           P == Range(page)
           R == Range(list)
           C == A \cap R
<1>1. /\ IsFiniteSet(A) /\ Cardinality(A) = Len(items) /\ Len(items) \in Nat
      /\ IsFiniteSet(P) /\ Cardinality(P) = Len(page) /\ Len(page) \in Nat
      /\ IsFiniteSet(R) /\ Cardinality(R) = Len(list) /\ Len(list) \in Nat
  BY DistinctIs
<1> HIDE DEF A, P, R
<1>2. P \subseteq R /\ P \cap A = {} /\ Cardinality(A \ R) <= g
  BY DEF A, P, R
<1>3. IsFiniteSet(A \ R) /\ Cardinality(A \ R) = Cardinality(A) - Cardinality(C)
  BY <1>1, FS_Difference
<1>4. IsFiniteSet(C)
  BY <1>1, FS_Intersection
<1>5. Cardinality(C) \in Nat /\ Cardinality(A \ R) \in Nat
  BY <1>3, <1>4, FS_CardinalityType
<1>6. C \cap P = {} /\ Cardinality({}) = 0
  BY <1>2, FS_EmptySet
<1>7. /\ IsFiniteSet(C \cup P)
      /\ Cardinality(C \cup P) = Cardinality(C) + Cardinality(P) - Cardinality(C \cap P)
  BY <1>1, <1>4, FS_Union
<1>8. Cardinality(C \cup P) = Cardinality(C) + Cardinality(P)
  <2>1. Cardinality(C \cap P) = 0
    BY <1>6
  <2>2. Cardinality(C) \in Nat /\ Cardinality(P) \in Nat
    BY <1>1, <1>5
  <2> QED
    BY <1>7, <2>1, <2>2
<1>9. R \cap (C \cup P) = C \cup P /\ R \ (C \cup P) = R \ (A \cup P)
  BY <1>2
<1>10. /\ IsFiniteSet(R \ (A \cup P))
       /\ Cardinality(R \ (A \cup P)) = Cardinality(R) - Cardinality(C \cup P)
  <2>1. /\ IsFiniteSet(R \ (C \cup P))
        /\ Cardinality(R \ (C \cup P)) = Cardinality(R) - Cardinality(R \cap (C \cup P))
    BY <1>1, FS_Difference
  <2> QED
    BY <1>9, <2>1
<1>11. Cardinality(R \ (A \cup P)) \in Nat
  BY <1>10, FS_CardinalityType
<1> DEFINE rest == Cardinality(R \ (A \cup P))
           gap == Cardinality(A \ R)
           common == Cardinality(C)
<1>12. /\ rest = Len(list) - (common + Len(page)) /\ gap = Len(items) - common
       /\ rest \in Nat /\ gap \in Nat /\ common \in Nat /\ gap <= g
       /\ Len(items) + Len(page) >= Len(list)
  BY <1>1, <1>2, <1>3, <1>5, <1>8, <1>10, <1>11
<1> HIDE DEF rest, gap, common
<1>13. rest <= g
  BY <1>1, <1>12
<1>14. ASSUME g = 0 PROVE A \cup P = R /\ Len(items) + Len(page) = Len(list)
  <2>1. rest = 0 /\ gap = 0 /\ Len(items) + Len(page) = Len(list)
    BY <1>1, <1>12, <1>14
  <2>2. R \ (A \cup P) = {}
    BY <1>10, <2>1, FS_EmptySet DEF rest
  <2>3. A \ R = {}
    BY <1>3, <2>1, FS_EmptySet DEF gap
  <2> QED
    BY <1>2, <2>1, <2>2, <2>3
<1> QED
  BY <1>13, <1>14 DEF rest, A, P, R

-----------------------------------------------------------------------------
(* The paged scan.                                                         *)

IsScan(s) ==
  s = [pc |-> s.pc, query |-> s.query, budget |-> s.budget, server |-> s.server,
       page |-> s.page, tries |-> s.tries, items |-> s.items, held |-> s.held,
       read |-> s.read, answer |-> s.answer, cause |-> s.cause]

\* The lists since the scan began; what was on one and is not any more, left.
Seen == UNION {Range(list) : list \in past}
ListsOK ==
  /\ live \in past /\ \A list \in past : Distinct(list)
  /\ \E list \in past : list \in Starts
  /\ IsFiniteSet(past) /\ IsFiniteSet(Seen) /\ gone \in Nat
  /\ Cardinality(Seen \ Range(live)) <= gone

\* A page of a list: a short one comes after as many items as there are others.
PageOf(page, list) ==
  /\ Distinct(page) /\ Range(page) \subseteq Range(list) /\ Len(page) <= Count
  /\ Len(page) < Count => Len(scan.items) + Len(page) >= Len(list)

\* What was read so far was on the list that a page is of, but for what left.
PageRead(page, list) ==
  PageOf(page, list) /\ Cardinality(Range(scan.items) \ Range(list)) <= gone

ScanOK ==
  /\ IsScan(scan) /\ scan.pc \in {"idle", "fetch", "details", "done"}
  /\ Distinct(scan.items) /\ Range(scan.items) \subseteq Seen
  /\ scan.pc \in {"idle", "fetch", "details"} => scan.answer = "none"
  /\ scan.pc = "idle" => scan.items = <<>> /\ scan.page = 1
  /\ scan.pc \in {"idle", "fetch"} => scan.read = 0
  /\ Scanning =>
       /\ ValidBudget(scan.budget) /\ scan.query \in DOMAIN Queries /\ scan.page \in Nat \ {0}
       /\ Len(scan.items) = (scan.page - 1) * Count
  /\ scan.pc = "details" =>
       /\ Query.full /\ scan.read \in 0..(Len(scan.held) - 1)
       /\ \E list \in past : PageRead(scan.held, list)

\* While nothing moves and the provider is good, what was read is where the pages
\* read so far are, and the page that is looked at is the next.
Still == past = {live} /\ scan.server = "good"
StillOK ==
  /\ Still /\ Scanning =>
       /\ Len(scan.items) <= Len(live)
       /\ scan.items = SubSeq(InOrder(scan.query, live), 1, Len(scan.items))
       /\ scan.pc = "details" => scan.held = Served(scan.page)
  /\ Still /\ scan.answer = "error" =>
       \/ scan.cause \in {"invalid", "unavailable"}
       \/ scan.cause = "budget" /\ Len(live) >= Count * scan.budget.maxPages
       \/ scan.cause = "missing" /\ live = <<>>

ScanInv == ListsOK /\ ScanOK /\ StillOK /\ AnswerIsTheList

-----------------------------------------------------------------------------
(* What a provider hands out.                                              *)

\* What the paged reads have in common.
LEMMA QueryFacts ==
  ASSUME NEW q \in DOMAIN Queries
  PROVE  /\ Queries[q].full => ~Queries[q].total
         /\ Queries[q].checked => Queries[q].order = "desc"
         /\ Queries[q].total \in BOOLEAN
<1>1. DOMAIN Queries = {"utxos", "blockfrostHistory", "blockfrostDetails", "blockfrostLists",
                        "iagonHistory", "iagonLists"}
  BY DEF Queries
<1>2. /\ Queries["utxos"] = UtxoScan /\ Queries["blockfrostHistory"] = BlockfrostHistory
      /\ Queries["blockfrostDetails"] = BlockfrostDetails
      /\ Queries["blockfrostLists"] = BlockfrostLists
      /\ Queries["iagonHistory"] = IagonHistory /\ Queries["iagonLists"] = IagonLists
  BY DEF Queries
<1> DEFINE Holds(query) == /\ query.full => ~query.total
                           /\ query.checked => query.order = "desc"
                           /\ query.total \in BOOLEAN
<1>3. Holds(UtxoScan) /\ Holds(BlockfrostLists) /\ Holds(IagonLists)
  BY DEF Paged, UtxoScan, BlockfrostLists, IagonLists
<1>4. Holds(BlockfrostHistory) /\ Holds(BlockfrostDetails) /\ Holds(IagonHistory)
  BY DEF Paged, BlockfrostHistory, BlockfrostDetails, IagonHistory
<1> HIDE DEF Holds
<1>5. Holds(Queries[q])
  BY <1>1, <1>2, <1>3, <1>4
<1> QED
  BY <1>5 DEF Holds

\* Either order has each item once.
LEMMA OrderIs ==
  ASSUME NEW list, Distinct(list), NEW q
  PROVE  LET o == InOrder(q, list) IN
         Distinct(o) /\ Len(o) = Len(list) /\ Range(o) = Range(list)
  BY ReverseIs DEF InOrder

\* While a scan goes on: its numbers.
LEMMA ScanNumbers ==
  ASSUME ScanInv, Scanning
  PROVE  /\ Count \in 1..100 /\ Count \in Nat /\ scan.page \in Nat \ {0}
         /\ Len(scan.items) \in Nat /\ Len(scan.items) = (scan.page - 1) * Count
         /\ Len(scan.items) + Count = scan.page * Count
         /\ scan.budget.maxPages \in Nat
         /\ Distinct(live) /\ Len(live) \in Nat /\ scan.query \in DOMAIN Queries
         /\ scan.answer = "none"
<1>1. /\ Count \in 1..100 /\ scan.page \in Nat \ {0} /\ scan.query \in DOMAIN Queries
      /\ Len(scan.items) = (scan.page - 1) * Count /\ scan.budget.maxPages \in Nat
      /\ scan.answer = "none"
  <2>1. /\ ValidBudget(scan.budget) /\ scan.query \in DOMAIN Queries
        /\ scan.page \in Nat \ {0} /\ Len(scan.items) = (scan.page - 1) * Count
    BY DEF ScanInv, ScanOK
  <2>2. scan.answer = "none"
    BY DEF ScanInv, ScanOK, Scanning
  <2>3. Count \in 1..100 /\ scan.budget.maxPages \in Nat
    <3>1. Count \in 1..100 /\ scan.budget.maxPages \in 1..1000
      BY <2>1, Zenon DEF ValidBudget, Count
    <3>2. PICK n : n = scan.budget.maxPages
      OBVIOUS
    <3>3. n \in 1..1000
      BY <3>1, <3>2, Zenon
    <3>4. n \in Nat
      BY <3>3
    <3> QED
      BY <3>1, <3>2, <3>4, Zenon
  <2> QED
    BY <2>1, <2>2, <2>3
<1>2. Distinct(live) /\ Len(live) \in Nat /\ Len(scan.items) \in Nat
  BY DistinctIs DEF ScanInv, ScanOK, ListsOK
<1>3. (scan.page - 1) * Count + Count = scan.page * Count
  <2>1. PICK n, k : n = Count /\ k = scan.page
    OBVIOUS
  <2>2. n \in Int /\ k \in Int
    BY <1>1, <2>1
  <2>3. (k - 1) * n + n = k * n
    BY <2>2
  <2> QED
    BY <2>1, <2>3
<1> QED
  BY <1>1, <1>2, <1>3

\* The page that any provider hands out is one of the list as it is; a good one
\* hands out the items after those read so far.
LEMMA ServedIs ==
  ASSUME ScanInv, Scanning
  PROVE  LET page == Served(scan.page)
             list == InOrder(scan.query, live)
             from == Len(scan.items)
             to == IF from + Count > Len(live) THEN Len(live) ELSE from + Count
         IN  /\ Distinct(page) /\ Range(page) \subseteq Range(live)
             /\ Len(page) < Count => from + Len(page) >= Len(live)
             /\ scan.server = "good" =>
                  /\ page = SubSeq(list, from + 1, to)
                  /\ Len(page) = (IF from < to THEN to - from ELSE 0)
                  /\ \A i \in 1..Len(page) : page[i] = list[from + i]
<1> DEFINE page == Served(scan.page)
           list == IF scan.server = "unordered" THEN live ELSE InOrder(scan.query, live)
           from == IF scan.server = "unpaged" THEN 0 ELSE Len(scan.items)
           to == IF from + Count > Len(live) THEN Len(live) ELSE from + Count
<1>1. /\ Count \in Nat /\ Len(scan.items) \in Nat /\ Distinct(live) /\ Len(live) \in Nat
      /\ Len(scan.items) = (scan.page - 1) * Count
  BY ScanNumbers
<1>2. Distinct(list) /\ Len(list) = Len(live) /\ Range(list) = Range(live)
  BY <1>1, OrderIs
<1>3. from \in Nat /\ to \in Nat /\ to <= Len(live) /\ from <= Len(scan.items)
  BY <1>1
<1>4. page = IF scan.server = "unbounded" THEN list ELSE SubSeq(list, from + 1, to)
  <2>1. page = IF scan.server = "unbounded" THEN list
               ELSE SubSeq(list, from + 1,
                           IF from + Count > Len(list) THEN Len(list) ELSE from + Count)
    BY <1>1 DEF Served
  <2> QED
    BY <1>2, <2>1
<1>5. /\ Distinct(SubSeq(list, from + 1, to))
      /\ Range(SubSeq(list, from + 1, to)) = {list[i] : i \in (from + 1)..to}
      /\ Len(SubSeq(list, from + 1, to)) = (IF from < to THEN to - from ELSE 0)
      /\ \A i \in 1..Len(SubSeq(list, from + 1, to)) :
           SubSeq(list, from + 1, to)[i] = list[from + i]
  <2> HIDE DEF list, from, to
  <2> QED
    BY <1>2, <1>3, PartIs
<1>6. {list[i] : i \in (from + 1)..to} \subseteq Range(list)
  <2>1. \A i \in (from + 1)..to : i \in 1..Len(list)
    BY <1>2, <1>3
  <2> QED
    BY <1>2, <2>1, DistinctIs
<1> HIDE DEF page, list
<1>7. Distinct(page) /\ Range(page) \subseteq Range(live)
  BY <1>2, <1>4, <1>5, <1>6
<1>8. Len(page) < Count => Len(scan.items) + Len(page) >= Len(live)
  <2>1. CASE scan.server = "unbounded"
    BY <1>1, <1>2, <1>4, <2>1
  <2>2. CASE scan.server # "unbounded"
    BY <1>1, <1>3, <1>4, <1>5, <2>2
  <2> QED
    BY <2>1, <2>2
<1>9. ASSUME scan.server = "good"
      PROVE  list = InOrder(scan.query, live) /\ from = Len(scan.items)
             /\ page = SubSeq(list, from + 1, to)
  BY <1>4, <1>9 DEF list
<1> QED
  BY <1>5, <1>7, <1>8, <1>9 DEF page

\* Nothing moves and the provider is good: the page is short or full as it should
\* be, it repeats nothing, and it has the order that was asked for.
LEMMA GoodPage ==
  ASSUME ScanInv, Scanning, Still
  PROVE  LET page == Served(scan.page) IN
         /\ Len(page) <= Count
         /\ Len(scan.items) + Len(page) <= Len(live)
         /\ Len(page) < Count => Len(scan.items) + Len(page) = Len(live)
         /\ scan.items \o page = SubSeq(InOrder(scan.query, live), 1, Len(scan.items) + Len(page))
         /\ ~Repeats(page)
         /\ Query.checked => Descending(page)
<1> DEFINE page == Served(scan.page)
           list == InOrder(scan.query, live)
           from == Len(scan.items)
           to == IF from + Count > Len(live) THEN Len(live) ELSE from + Count
<1>1. /\ Count \in Nat /\ from \in Nat /\ Distinct(live) /\ Len(live) \in Nat
      /\ scan.query \in DOMAIN Queries /\ Count \in 1..100
  BY ScanNumbers
<1>2. from <= Len(live) /\ scan.items = SubSeq(list, 1, from)
  BY DEF ScanInv, StillOK
<1>3. Distinct(list) /\ Len(list) = Len(live) /\ Range(list) = Range(live)
  BY <1>1, OrderIs
<1>4. /\ page = SubSeq(list, from + 1, to)
      /\ Len(page) = (IF from < to THEN to - from ELSE 0)
      /\ \A i \in 1..Len(page) : page[i] = list[from + i]
  BY ServedIs DEF Still
<1> HIDE DEF page, list
<1>5. to \in Nat /\ from <= to /\ to <= Len(list) /\ Len(page) = to - from
  BY <1>1, <1>2, <1>3, <1>4
<1>6. Len(page) <= Count /\ from + Len(page) <= Len(live) /\ from + Len(page) = to
      /\ (Len(page) < Count => from + Len(page) = Len(live))
  BY <1>1, <1>5
<1> HIDE DEF from, to
<1>7. scan.items \o page = SubSeq(list, 1, to)
  <2>1. /\ list \in Seq(Nat) /\ from \in 0..Len(list) /\ to \in from..Len(list)
    BY <1>1, <1>2, <1>3, <1>5 DEF Distinct
  <2>2. SubSeq(list, 1, from) \o SubSeq(list, from + 1, to) = SubSeq(list, 1, to)
    <3>1. CASE from = 0
      <4>1. SubSeq(list, 1, from) = <<>>
        BY <3>1, SubSeqEmpty
      <4>2. SubSeq(list, 1, to) \in Seq(Nat)
        BY <2>1
      <4>3. SubSeq(list, from + 1, to) = SubSeq(list, 1, to)
        BY <3>1
      <4> QED
        BY <4>1, <4>2, <4>3, ConcatEmptySeq
    <3>2. CASE from # 0
      <4>1. 1 \in 1..(Len(list) + 1) /\ from \in 0..Len(list) /\ to \in from..Len(list)
        BY <2>1
      <4> QED
        BY <2>1, <3>2, <4>1, ConcatAdjacentSubSeq
    <3> QED
      BY <3>1, <3>2
  <2> QED
    BY <1>2, <1>4, <2>2
<1>8. ~Repeats(page)
  <2>1. Range(page) = {list[i] : i \in (from + 1)..to}
    <3>1. Distinct(list) /\ from \in Nat /\ to \in Nat /\ to <= Len(list)
      BY <1>1, <1>3, <1>5
    <3>2. Range(SubSeq(list, from + 1, to)) = {list[i] : i \in (from + 1)..to}
      BY ONLY <3>1, PartIs
    <3> QED
      BY <1>4, <3>2
  <2>2. Range(scan.items) = {list[i] : i \in 1..from}
    <3>1. PICK m : m = 0
      OBVIOUS
    <3>2. Distinct(list) /\ m \in Nat /\ from \in Nat /\ from <= Len(list)
      BY <1>1, <1>2, <1>3, <3>1
    <3>3. Range(SubSeq(list, m + 1, from)) = {list[i] : i \in (m + 1)..from}
      BY ONLY <3>2, PartIs
    <3>4. m + 1 = 1
      BY <3>1
    <3> QED
      BY <1>2, <3>3, <3>4
  <2>3. \A i \in 1..from, k \in (from + 1)..to : list[i] # list[k]
    <3>1. DOMAIN list = 1..Len(list)
      BY <1>3, DistinctIs
    <3>2. \A i \in 1..from, k \in (from + 1)..to : i \in DOMAIN list /\ k \in DOMAIN list /\ i # k
      BY <1>1, <1>5, <3>1
    <3> QED
      BY <1>3, <3>2 DEF Distinct, IsInjective
  <2> QED
    BY <2>1, <2>2, <2>3 DEF Repeats
<1>9. Query.checked => Descending(page)
  <2> SUFFICES ASSUME Query.checked PROVE Descending(page)
    OBVIOUS
  <2>1. list = Reverse(live)
    BY <1>1, QueryFacts DEF InOrder, Query, list
  <2>2. live \in Starts
    BY DEF ScanInv, ListsOK, Still
  <2>3. \A i, j \in 1..Len(live) : i < j => live[i] < live[j]
    BY <2>2, Oldest
  <2>4. \A i \in 1..Len(live) : list[i] = live[Len(live) - i + 1]
    BY <1>1, <2>1, ReverseIs
  <2>5. ASSUME NEW i \in 1..(Len(page) - 1) PROVE page[i] > page[i + 1]
    <3>1. i \in 1..Len(page) /\ i + 1 \in 1..Len(page) /\ from + i \in 1..Len(live)
          /\ from + (i + 1) \in 1..Len(live)
      BY <1>1, <1>3, <1>5
    <3>2. PICK a, b : a = Len(live) - (from + i) + 1 /\ b = Len(live) - (from + (i + 1)) + 1
      OBVIOUS
    <3>3. a \in 1..Len(live) /\ b \in 1..Len(live) /\ b < a
      BY <1>1, <3>1, <3>2
    <3>4. page[i] = live[a] /\ page[i + 1] = live[b]
      BY <1>4, <2>4, <3>1, <3>2
    <3>5. live[b] < live[a] /\ live[a] \in Nat /\ live[b] \in Nat
      BY <1>1, <2>3, <3>3 DEF Distinct
    <3> QED
      BY <3>4, <3>5
  <2> QED
    BY <2>5 DEF Descending
<1> QED
  BY <1>6, <1>7, <1>8, <1>9 DEF page, list, from

-----------------------------------------------------------------------------
(* How a scan ends or goes on.                                             *)

\* The lists are as they were.
LEMMA ListsKept ==
  ASSUME ListsOK, UNCHANGED <<live, past, gone>>
  PROVE  ListsOK' /\ Seen' = Seen
  BY DEF ListsOK, Seen

\* What Stop writes.
Stopped(o, a, c) ==
  [o EXCEPT !.pc = "done", !.answer = a, !.cause = c,
     !.items = <<>>, !.held = <<>>, !.read = 0, !.tries = 0]
LEMMA StopIs ==
  ASSUME NEW o, IsScan(o), NEW a, NEW c, NEW q, q = Stopped(o, a, c)
  PROVE  /\ IsScan(q) /\ q.pc = "done" /\ q.answer = a /\ q.cause = c /\ q.items = <<>>
         /\ q.query = o.query /\ q.budget = o.budget /\ q.server = o.server
<1>1. q = [pc |-> "done", query |-> o.query, budget |-> o.budget, server |-> o.server,
           page |-> o.page, tries |-> 0, items |-> <<>>, held |-> <<>>,
           read |-> 0, answer |-> a, cause |-> c]
  BY DEF IsScan, Stopped
<1> QED
  BY <1>1 DEF IsScan

\* No items.
LEMMA NothingIs == Distinct(<<>>) /\ Range(<<>>) = {} /\ Len(<<>>) = 0
  BY DEF Distinct, IsInjective, Range

\* A scan is refused; while nothing moves at a good provider, for a reason that
\* NoFalseRefusal allows.
LEMMA Refused ==
  ASSUME ScanInv, UNCHANGED <<live, past, gone>>, IsScan(scan'), scan'.pc = "done",
         scan'.items = <<>>, scan'.answer = "error",
         Still' => \/ scan'.cause \in {"invalid", "unavailable"}
                   \/ scan'.cause = "budget" /\ Len(live) >= Count' * scan'.budget.maxPages
                   \/ scan'.cause = "missing" /\ live = <<>>
  PROVE  ScanInv'
<1>1. ListsOK' /\ Seen' = Seen
  BY ListsKept DEF ScanInv
<1>2. ScanOK'
  BY <1>1, NothingIs DEF ScanOK, Scanning
<1>3. StillOK'
  BY DEF StillOK, Scanning
<1>4. AnswerIsTheList'
  BY DEF AnswerIsTheList
<1> QED
  BY <1>1, <1>2, <1>3, <1>4 DEF ScanInv

\* Stop with an error.
LEMMA StopStep ==
  ASSUME ScanInv, UNCHANGED <<live, past, gone>>, NEW c, Stop("error", c),
         Still => c = "unavailable" \/ (c = "missing" /\ live = <<>>)
  PROVE  ScanInv'
<1>1. /\ IsScan(scan') /\ scan'.pc = "done" /\ scan'.answer = "error" /\ scan'.cause = c
      /\ scan'.items = <<>> /\ scan'.server = scan.server
  <2>1. PICK o, q, a, k : o = scan /\ q = scan' /\ a = "error" /\ k = c
    OBVIOUS
  <2>2. IsScan(o)
    BY <2>1 DEF ScanInv, ScanOK
  <2>3. q = Stopped(o, a, k)
    BY <2>1 DEF Stop, Stopped
  <2>4. /\ IsScan(q) /\ q.pc = "done" /\ q.answer = a /\ q.cause = k
        /\ q.items = <<>> /\ q.server = o.server
    BY <2>2, <2>3, StopIs
  <2> QED
    BY <2>1, <2>4
<1>2. Still' => Still
  BY <1>1 DEF Still
<1> QED
  BY <1>1, <1>2, Refused

\* What Take writes.
LEMMA TakeIs ==
  ASSUME IsScan(scan), NEW page, NEW total, Take(page, total)
  PROVE  LET last == LastPage(page, total)
             over == scan.page = scan.budget.maxPages
         IN  /\ IsScan(scan') /\ scan'.items = scan.items \o page /\ scan'.read = 0
             /\ scan'.query = scan.query /\ scan'.budget = scan.budget
             /\ scan'.server = scan.server
             /\ last => scan'.pc = "done" /\ scan'.answer = "ok"
             /\ ~last /\ over => scan'.pc = "done" /\ scan'.answer = "error" /\ scan'.cause = "budget"
             /\ ~last /\ ~over =>
                  scan'.pc = "fetch" /\ scan'.page = scan.page + 1 /\ scan'.answer = scan.answer
<1> DEFINE last == LastPage(page, total)
           over == scan.page = scan.budget.maxPages
<1>1. PICK o : o = scan
  OBVIOUS
<1>2. PICK n, p, a, c :
        /\ n = (IF last THEN o.page ELSE o.page + 1)
        /\ p = (IF last \/ over THEN "done" ELSE "fetch")
        /\ a = (IF last THEN "ok" ELSE IF over THEN "error" ELSE o.answer)
        /\ c = (IF ~last /\ over THEN "budget" ELSE o.cause)
  OBVIOUS
<1>3. scan' = [o EXCEPT !.items = o.items \o page, !.tries = 0, !.held = <<>>, !.read = 0,
                 !.page = n, !.pc = p, !.answer = a, !.cause = c]
  BY <1>1, <1>2 DEF Take
<1>4. scan' = [pc |-> p, query |-> o.query, budget |-> o.budget, server |-> o.server,
               page |-> n, tries |-> 0, items |-> o.items \o page, held |-> <<>>,
               read |-> 0, answer |-> a, cause |-> c]
  <2>1. IsScan(o)
    BY <1>1
  <2> QED
    BY <1>3, <2>1 DEF IsScan
<1> HIDE DEF last, over
<1>5. /\ IsScan(scan') /\ scan'.items = scan.items \o page /\ scan'.read = 0
      /\ scan'.query = scan.query /\ scan'.budget = scan.budget /\ scan'.server = scan.server
      /\ scan'.pc = p /\ scan'.page = n /\ scan'.answer = a /\ scan'.cause = c
  BY <1>1, <1>4 DEF IsScan
<1> QED
  BY <1>1, <1>2, <1>5 DEF last, over

\* What is asked of an answer, of any list that was read.
LEMMA WholeList ==
  ASSUME ListsOK, NEW list \in past, NEW items, NEW all, all = Range(items),
         Cardinality(Range(list) \ all) <= gone,
         gone = 0 => all = Range(list) /\ Len(items) = Len(list)
  PROVE  /\ gone = 0 => \E l \in past : Range(items) = Range(l) /\ Len(items) = Len(l)
         /\ Cardinality({i \in Range(live) : \A l \in past : i \in Range(l)} \ Range(items)) <= gone
<1> DEFINE stay == {i \in Range(live) : \A l \in past : i \in Range(l)} \ all
           rest == Range(list) \ all
<1>1. IsFiniteSet(Range(list))
  BY DistinctIs DEF ListsOK
<1>2. IsFiniteSet(rest)
  BY <1>1, FS_Difference
<1>3. stay \in SUBSET rest
  OBVIOUS
<1>4. /\ Cardinality(stay) <= Cardinality(rest) /\ Cardinality(rest) \in Nat
      /\ Cardinality(stay) \in Nat
  <2> HIDE DEF stay, rest
  <2>1. IsFiniteSet(stay) /\ Cardinality(stay) <= Cardinality(rest)
    BY <1>2, <1>3, FS_Subset
  <2> QED
    BY <1>2, <2>1, FS_CardinalityType
<1>5. Cardinality(stay) <= gone
  <2>1. gone \in Nat /\ Cardinality(rest) <= gone
    BY DEF ListsOK
  <2> HIDE DEF stay, rest
  <2> QED
    BY <1>4, <2>1
<1> QED
  BY <1>5

\* A page that passed the checks: the answer is the list, or the scan goes on.
LEMMA TakeStep ==
  ASSUME ScanInv, Scanning, UNCHANGED <<live, past, gone>>, NEW page, NEW total,
         NEW list \in past, PageRead(page, list), ~Repeats(page), Take(page, total),
         Query.total => total = Len(live) /\ list = live,
         Still => page = Served(scan.page)
  PROVE  ScanInv'
<1> DEFINE last == LastPage(page, total)
           over == scan.page = scan.budget.maxPages
           items == scan.items \o page
<1>1. /\ IsScan(scan') /\ scan'.items = items /\ scan'.read = 0
      /\ scan'.query = scan.query /\ scan'.budget = scan.budget /\ scan'.server = scan.server
      /\ last => scan'.pc = "done" /\ scan'.answer = "ok"
      /\ ~last /\ over => scan'.pc = "done" /\ scan'.answer = "error" /\ scan'.cause = "budget"
      /\ ~last /\ ~over =>
           scan'.pc = "fetch" /\ scan'.page = scan.page + 1 /\ scan'.answer = scan.answer
  BY TakeIs DEF ScanInv, ScanOK
<1>2. /\ Count \in 1..100 /\ Count \in Nat /\ scan.page \in Nat \ {0}
      /\ Len(scan.items) \in Nat /\ Len(scan.items) + Count = scan.page * Count
      /\ scan.budget.maxPages \in Nat /\ scan.query \in DOMAIN Queries
      /\ scan.answer = "none"
  BY ScanNumbers
<1>3. /\ Distinct(page) /\ Len(page) \in Nat /\ Len(page) <= Count /\ Range(page) \subseteq Range(list)
      /\ Len(page) < Count => Len(scan.items) + Len(page) >= Len(list)
      /\ Cardinality(Range(scan.items) \ Range(list)) <= gone
      /\ Range(page) \cap Range(scan.items) = {}
      /\ Distinct(scan.items) /\ Distinct(list) /\ Len(list) \in Nat /\ gone \in Nat
  BY DistinctIs DEF PageRead, PageOf, Repeats, ScanInv, ScanOK, ListsOK
<1>4. /\ Distinct(items) /\ Range(items) = Range(scan.items) \cup Range(page)
      /\ Len(items) = Len(scan.items) + Len(page)
  BY <1>3, JoinIs
<1> HIDE DEF items, last, over
<1>5. ListsOK' /\ Seen' = Seen
  BY ListsKept DEF ScanInv
<1>6. Range(items) \subseteq Seen
  BY <1>3, <1>4 DEF Seen, ScanInv, ScanOK
<1>7. ~last => Len(page) = Count
  BY DEF last, LastPage
<1>8. last => Len(scan.items) + Len(page) >= Len(list)
  <2> SUFFICES ASSUME last, ~(Len(page) < Count) PROVE Len(scan.items) + Len(page) >= Len(list)
    BY <1>3
  <2>1. Len(page) = Count
    BY <1>2, <1>3
  <2>2. Query.total /\ ~(scan.page * Count < total)
    BY <2>1 DEF last, LastPage
  <2>3. total = Len(list)
    BY <2>2
  <2>4. scan.page * Count \in Nat
    BY <1>2
  <2> QED
    BY <1>2, <1>3, <2>1, <2>2, <2>3, <2>4
<1>9. CASE last
  <2>1. ScanOK'
    BY <1>1, <1>4, <1>5, <1>6, <1>9 DEF ScanOK, Scanning
  <2>2. StillOK'
    BY <1>1, <1>9 DEF StillOK, Scanning
  <2>3. /\ Cardinality(Range(list) \ Range(items)) <= gone
        /\ gone = 0 => Range(items) = Range(list) /\ Len(items) = Len(list)
    <3>1. LET all == Range(scan.items) \cup Range(page) IN
          /\ Cardinality(Range(list) \ all) <= gone
          /\ gone = 0 => all = Range(list) /\ Len(scan.items) + Len(page) = Len(list)
      BY <1>3, <1>8, <1>9, AsManyIsAll
    <3> QED
      BY <1>4, <3>1
  <2>4. /\ gone = 0 => \E l \in past : Range(items) = Range(l) /\ Len(items) = Len(l)
        /\ Cardinality({i \in Range(live) : \A l \in past : i \in Range(l)} \ Range(items)) <= gone
    BY <2>3, WholeList DEF ScanInv
  <2>5. AnswerIsTheList'
    BY <1>1, <2>4 DEF AnswerIsTheList
  <2> QED
    BY <1>5, <2>1, <2>2, <2>5 DEF ScanInv
<1>10. ASSUME ~last, Still
       PROVE  /\ Len(items) <= Len(live)
              /\ items = SubSeq(InOrder(scan.query, live), 1, Len(items))
  <2>1. page = Served(scan.page)
    BY <1>10
  <2>2. /\ Len(scan.items) + Len(page) <= Len(live)
        /\ scan.items \o page = SubSeq(InOrder(scan.query, live), 1, Len(scan.items) + Len(page))
    BY <1>10, <2>1, GoodPage
  <2> QED
    BY <1>4, <2>2 DEF items
<1>11. CASE ~last /\ over
  <2>1. AnswerIsTheList'
    BY <1>1, <1>11 DEF AnswerIsTheList
  <2>2. ScanOK'
    BY <1>1, <1>4, <1>5, <1>6, <1>11 DEF ScanOK, Scanning
  <2>3. Count' = Count
    BY <1>1 DEF Count
  <2>4. Still => Len(live) >= Count * scan.budget.maxPages
    <3> SUFFICES ASSUME Still PROVE Len(live) >= Count * scan.budget.maxPages
      OBVIOUS
    <3>1. Len(items) = scan.page * Count /\ Len(items) <= Len(live)
      BY <1>2, <1>4, <1>7, <1>10, <1>11
    <3>2. scan.page = scan.budget.maxPages
      BY <1>11 DEF over
    <3>3. scan.page * Count = Count * scan.page
      BY <1>2
    <3> QED
      BY <3>1, <3>2, <3>3
  <2>5. StillOK'
    <3>1. Still' => Still
      BY <1>1 DEF Still
    <3> QED
      BY <1>1, <1>11, <2>3, <2>4, <3>1 DEF StillOK, Scanning
  <2> QED
    BY <1>5, <2>1, <2>2, <2>5 DEF ScanInv
<1>12. CASE ~last /\ ~over
  <2>1. AnswerIsTheList'
    BY <1>1, <1>2, <1>12 DEF AnswerIsTheList
  <2>2. Count' = Count /\ Query' = Query
    BY <1>1 DEF Count, Query
  <2>3. /\ scan'.page \in Nat \ {0} /\ Len(items) = (scan'.page - 1) * Count
    <3>1. PICK n, k : n = Count /\ k = scan.page
      OBVIOUS
    <3>2. n \in Int /\ k \in Nat \ {0}
      BY <1>2, <3>1
    <3>3. k + 1 \in Nat \ {0} /\ (k + 1) - 1 = k
      BY <3>2
    <3>4. scan'.page = k + 1
      BY <1>1, <1>12, <3>1
    <3>5. Len(items) = k * n
      BY <1>2, <1>4, <1>7, <1>12, <3>1
    <3>6. Len(items) = (scan'.page - 1) * n
      BY <3>3, <3>4, <3>5
    <3> QED
      BY <3>1, <3>3, <3>4, <3>6
  <2>4. ScanOK'
    <3>1. ValidBudget(scan.budget)
      BY DEF ScanInv, ScanOK
    <3> QED
      BY <1>1, <1>2, <1>4, <1>5, <1>6, <1>12, <2>2, <2>3, <3>1 DEF ScanOK, Scanning
  <2>5. StillOK'
    <3>1. Still' => Still
      BY <1>1 DEF Still
    <3>2. InOrder(scan.query, live)' = InOrder(scan.query, live)
      BY <1>1 DEF InOrder
    <3> QED
      BY <1>1, <1>2, <1>10, <1>12, <3>1, <3>2 DEF StillOK
  <2> QED
    BY <1>5, <2>1, <2>4, <2>5 DEF ScanInv
<1> QED
  BY <1>9, <1>11, <1>12

-----------------------------------------------------------------------------
(* The steps of the scan.                                                  *)

\* A page of the list as it is, no longer than was asked for.
LEMMA LivePage ==
  ASSUME ScanInv, Scanning, Len(Served(scan.page)) <= Count
  PROVE  PageRead(Served(scan.page), live)
<1>1. PageOf(Served(scan.page), live)
  BY ServedIs DEF PageOf
<1>2. /\ Range(scan.items) \subseteq Seen /\ IsFiniteSet(Seen) /\ gone \in Nat
      /\ Cardinality(Seen \ Range(live)) <= gone
  BY DEF ScanInv, ScanOK, ListsOK
<1> DEFINE lost == Range(scan.items) \ Range(live)
           left == Seen \ Range(live)
<1>3. lost \in SUBSET left /\ IsFiniteSet(left)
  BY <1>2, FS_Difference
<1>4. Cardinality(lost) <= Cardinality(left) /\ Cardinality(lost) \in Nat
      /\ Cardinality(left) \in Nat
  <2> HIDE DEF lost, left
  <2>1. IsFiniteSet(lost) /\ Cardinality(lost) <= Cardinality(left)
    BY <1>3, FS_Subset
  <2> QED
    BY <1>3, <2>1, FS_CardinalityType
<1>5. Cardinality(lost) <= gone
  <2>1. Cardinality(left) <= gone
    BY <1>2
  <2> HIDE DEF lost, left
  <2> QED
    BY <1>2, <1>4, <2>1
<1> QED
  BY <1>1, <1>5 DEF PageRead

\* The scan's budget is refused, or its first page is next.
LEMMA BeginStep ==
  ASSUME ScanInv, Begin
  PROVE  ScanInv'
<1>1. /\ IsScan(scan) /\ scan.items = <<>> /\ scan.page = 1 /\ scan.read = 0
      /\ scan.answer = "none" /\ UNCHANGED <<live, past, gone>>
  BY DEF ScanInv, ScanOK, Begin
<1>2. PICK q \in DOMAIN Queries, b \in Budgets, s \in Servers :
        scan' = [scan EXCEPT !.query = q, !.budget = b, !.server = s,
                   !.pc = IF ValidBudget(b) THEN "fetch" ELSE "done",
                   !.answer = IF ValidBudget(b) THEN @ ELSE "error",
                   !.cause = IF ValidBudget(b) THEN @ ELSE "invalid"]
  BY DEF Begin
<1>3. PICK p, a, c :
        /\ p = (IF ValidBudget(b) THEN "fetch" ELSE "done")
        /\ a = (IF ValidBudget(b) THEN scan.answer ELSE "error")
        /\ c = (IF ValidBudget(b) THEN scan.cause ELSE "invalid")
  OBVIOUS
<1>4. PICK o : o = scan
  OBVIOUS
<1>5. scan' = [o EXCEPT !.query = q, !.budget = b, !.server = s,
                 !.pc = p, !.answer = a, !.cause = c]
  BY <1>2, <1>3, <1>4
<1>6. scan' = [pc |-> p, query |-> q, budget |-> b, server |-> s, page |-> o.page,
               tries |-> o.tries, items |-> o.items, held |-> o.held, read |-> o.read,
               answer |-> a, cause |-> c]
  <2>1. IsScan(o)
    BY <1>1, <1>4
  <2> QED
    BY <1>5, <2>1 DEF IsScan
<1>7. /\ IsScan(scan') /\ scan'.pc = p /\ scan'.query = q /\ scan'.budget = b
      /\ scan'.items = <<>> /\ scan'.page = 1 /\ scan'.read = 0
      /\ scan'.answer = a /\ scan'.cause = c
  BY <1>1, <1>4, <1>6 DEF IsScan
<1>8. CASE ~ValidBudget(b)
  BY <1>1, <1>3, <1>7, <1>8, Refused
<1>9. CASE ValidBudget(b)
  <2>1. ListsOK' /\ Seen' = Seen
    BY <1>1, ListsKept DEF ScanInv
  <2>2. p = "fetch" /\ a = "none"
    BY <1>1, <1>3, <1>9
  <2>3. b.count \in Nat
    <3>1. b.count \in 1..100
      BY <1>9 DEF ValidBudget
    <3>2. PICK n : n = b.count
      OBVIOUS
    <3>3. n \in 1..100
      BY <3>1, <3>2, Zenon
    <3>4. n \in Nat
      BY <3>3
    <3> QED
      BY <3>2, <3>4, Zenon
  <2>4. Len(<<>>) = (1 - 1) * Count'
    <3>1. PICK n : n = b.count
      OBVIOUS
    <3>2. (1 - 1) * n = 0
      BY <2>3, <3>1
    <3>3. Count' = n
      BY <1>7, <3>1 DEF Count
    <3> QED
      BY <3>2, <3>3
  <2>5. ScanOK'
    BY <1>7, <1>9, <2>1, <2>2, <2>4, NothingIs DEF ScanOK, Scanning
  <2>6. StillOK'
    <3>1. Len(<<>>) <= Len(live)
      BY DistinctIs DEF ScanInv, ListsOK
    <3>2. SubSeq(InOrder(q, live), 1, 0) = <<>>
      BY SubSeqEmpty
    <3>3. InOrder(scan.query, live)' = InOrder(q, live)
      BY <1>1, <1>7 DEF InOrder
    <3>4. scan'.items = SubSeq(InOrder(scan.query, live), 1, Len(scan.items))'
      BY <1>7, <3>2, <3>3
    <3> QED
      BY <1>1, <1>7, <2>2, <3>1, <3>4 DEF StillOK, Scanning
  <2>7. AnswerIsTheList'
    BY <1>7, <2>2 DEF AnswerIsTheList
  <2> QED
    BY <2>1, <2>5, <2>6, <2>7 DEF ScanInv
<1> QED
  BY <1>8, <1>9

\* The scan has the same query, budget, provider, page, items and outcome as before.
SameScan ==
  /\ IsScan(scan') /\ scan'.query = scan.query /\ scan'.budget = scan.budget
  /\ scan'.server = scan.server /\ scan'.page = scan.page /\ scan'.items = scan.items
  /\ scan'.answer = scan.answer /\ scan'.cause = scan.cause

\* Such a scan goes on, with a page in its hands that was read.
LEMMA SameStep ==
  ASSUME ScanInv, Scanning, UNCHANGED <<live, past, gone>>, SameScan,
         \/ scan'.pc = "fetch" /\ scan'.read = 0
         \/ /\ scan'.pc = "details" /\ Query.full /\ scan'.read \in 0..(Len(scan'.held) - 1)
            /\ \E list \in past : PageRead(scan'.held, list)
            /\ Still => scan'.held = Served(scan.page)
  PROVE  ScanInv'
<1>1. ListsOK' /\ Seen' = Seen
  BY ListsKept DEF ScanInv
<1>2. /\ Count' = Count /\ Query' = Query /\ Still' = Still
      /\ InOrder(scan.query, live)' = InOrder(scan.query, live)
  BY DEF SameScan, Count, Query, Still, InOrder
<1>3. Served(scan.page)' = Served(scan.page)
  BY <1>2 DEF Served, SameScan
<1>4. ASSUME NEW page, NEW list, PageRead(page, list) PROVE PageRead(page, list)'
  BY <1>2, <1>4 DEF PageRead, PageOf, SameScan
<1>5. scan.answer = "none"
  BY ScanNumbers
<1>6. ScanOK'
  <2>1. /\ Distinct(scan.items) /\ Range(scan.items) \subseteq Seen
        /\ ValidBudget(scan.budget) /\ scan.query \in DOMAIN Queries /\ scan.page \in Nat \ {0}
        /\ Len(scan.items) = (scan.page - 1) * Count
    BY DEF ScanInv, ScanOK
  <2>2. /\ IsScan(scan') /\ scan'.pc \in {"fetch", "details"} /\ scan'.answer = "none"
        /\ scan'.pc = "fetch" => scan'.read = 0
        /\ Len(scan'.items) = (scan'.page - 1) * Count'
    BY <1>2, <1>5, <2>1 DEF SameScan
  <2>3. scan'.pc = "details" =>
          /\ Query.full' /\ scan'.read \in 0..(Len(scan'.held) - 1)
          /\ \E list \in past' : PageRead(scan.held, list)'
    BY <1>2, <1>4
  <2> QED
    BY <1>1, <2>1, <2>2, <2>3 DEF ScanOK, Scanning, SameScan
<1>7. StillOK'
  <2>1. Still => /\ Len(scan.items) <= Len(live)
                 /\ scan.items = SubSeq(InOrder(scan.query, live), 1, Len(scan.items))
    BY DEF ScanInv, StillOK
  <2> QED
    BY <1>2, <1>3, <1>5, <2>1 DEF StillOK, SameScan
<1>8. AnswerIsTheList'
  BY <1>5 DEF AnswerIsTheList, SameScan
<1> QED
  BY <1>1, <1>6, <1>7, <1>8 DEF ScanInv

\* One page is read.
LEMMA FetchStep ==
  ASSUME ScanInv, Fetch
  PROVE  ScanInv'
<1> DEFINE page == Served(scan.page)
           total == Len(live)
<1>1. Scanning /\ UNCHANGED <<live, past, gone>> /\ scan.pc = "fetch"
  BY DEF Fetch, Scanning
<1>2. IF Query.checked /\ ~Descending(page) THEN Stop("error", "order")
      ELSE IF Len(page) > Count THEN Stop("error", "oversized")
      ELSE IF Contradicted(page, total) THEN Stop("error", "total")
      ELSE IF Query.full /\ page # <<>>
           THEN scan' = [scan EXCEPT !.pc = "details", !.held = page, !.tries = 0]
      ELSE IF Repeats(page) THEN Stop("error", "duplicate")
      ELSE Take(page, total)
  BY DEF Fetch
<1>3. /\ Count \in Nat /\ Distinct(page) /\ Len(page) \in Nat
      /\ Len(scan.items) \in Nat /\ Len(scan.items) = (scan.page - 1) * Count
      /\ Len(live) \in Nat
  BY <1>1, ScanNumbers, ServedIs, DistinctIs
<1>4. Still => /\ Len(page) <= Count
               /\ Len(scan.items) + Len(page) <= Len(live)
               /\ Len(page) < Count => Len(scan.items) + Len(page) = Len(live)
               /\ ~Repeats(page)
               /\ Query.checked => Descending(page)
  BY <1>1, GoodPage
<1>5. Len(page) <= Count => PageRead(page, live)
  BY <1>1, LivePage
<1>6. live \in past /\ IsScan(scan) /\ scan.read = 0
  BY <1>1 DEF ScanInv, ListsOK, ScanOK
<1> HIDE DEF page
<1>7. ASSUME NEW c, Stop("error", c), ~Still PROVE ScanInv'
  BY <1>1, <1>7, StopStep
<1>8. CASE Query.checked /\ ~Descending(page)
  BY <1>2, <1>4, <1>7, <1>8
<1>9. CASE ~(Query.checked /\ ~Descending(page)) /\ Len(page) > Count
  <2>1. ~Still
    BY <1>3, <1>4, <1>9
  <2> QED
    BY <1>2, <1>7, <1>9, <2>1
<1>10. CASE ~(Query.checked /\ ~Descending(page)) /\ ~(Len(page) > Count)
            /\ Contradicted(page, total)
  <2>1. ~Still
    <3>1. \/ Len(live) < Len(scan.items) + Len(page)
          \/ Len(page) < Count /\ Len(live) > Len(scan.items) + Len(page)
      BY <1>3, <1>10 DEF Contradicted
    <3> QED
      BY <1>3, <1>4, <3>1
  <2> QED
    BY <1>2, <1>7, <1>10, <2>1
<1> DEFINE Passed == /\ ~(Query.checked /\ ~Descending(page)) /\ ~(Len(page) > Count)
                     /\ ~Contradicted(page, total)
<1>11. CASE Passed /\ Query.full /\ page # <<>>
  <2>1. scan' = [scan EXCEPT !.pc = "details", !.held = page, !.tries = 0]
    BY <1>2, <1>11
  <2>2. PICK o : o = scan
    OBVIOUS
  <2>3. scan' = [pc |-> "details", query |-> o.query, budget |-> o.budget, server |-> o.server,
                 page |-> o.page, tries |-> 0, items |-> o.items, held |-> page,
                 read |-> o.read, answer |-> o.answer, cause |-> o.cause]
    <3>1. IsScan(o)
      BY <1>6, <2>2
    <3> QED
      BY <2>1, <2>2, <3>1 DEF IsScan
  <2>4. SameScan /\ scan'.pc = "details" /\ scan'.held = page /\ scan'.read = 0
    BY <1>6, <2>2, <2>3 DEF SameScan, IsScan
  <2>5. PageRead(page, live)
    BY <1>3, <1>5, <1>11
  <2>6. scan'.read \in 0..(Len(scan'.held) - 1)
    <3>1. page \in Seq(Nat) /\ page # <<>>
      BY <1>3, <1>11 DEF Distinct
    <3>2. Len(page) # 0
      BY <3>1, EmptySeq
    <3> QED
      BY <1>3, <2>4, <3>2
  <2> QED
    BY <1>1, <1>6, <1>11, <2>4, <2>5, <2>6, SameStep DEF page
<1>12. CASE Passed /\ ~(Query.full /\ page # <<>>) /\ Repeats(page)
  BY <1>2, <1>4, <1>7, <1>12
<1>13. CASE Passed /\ ~(Query.full /\ page # <<>>) /\ ~Repeats(page)
  <2>1. Take(page, total)
    BY <1>2, <1>13
  <2>2. PageRead(page, live)
    BY <1>3, <1>5, <1>13
  <2> QED
    BY <1>1, <1>6, <1>13, <2>1, <2>2, TakeStep DEF page
<1> QED
  BY <1>8, <1>9, <1>10, <1>11, <1>12, <1>13

\* One more item's details are read.
LEMMA DetailStep ==
  ASSUME ScanInv, Detail
  PROVE  ScanInv'
<1> DEFINE held == scan.held
<1>1. Scanning /\ UNCHANGED <<live, past, gone>> /\ scan.pc = "details" /\ IsScan(scan)
  BY DEF Detail, Scanning, ScanInv, ScanOK
<1>2. PICK list \in past : PageRead(held, list)
  BY <1>1 DEF ScanInv, ScanOK
<1>3. Query.full /\ ~Query.total /\ scan.read \in 0..(Len(held) - 1)
  <2>1. scan.query \in DOMAIN Queries
    BY <1>1, ScanNumbers
  <2>2. Query.full /\ scan.read \in 0..(Len(held) - 1)
    BY <1>1 DEF ScanInv, ScanOK
  <2> QED
    BY <2>1, <2>2, QueryFacts DEF Query
<1>4. Distinct(held) /\ Len(held) \in Nat /\ Range(held) = {held[i] : i \in 1..Len(held)}
  BY <1>2, DistinctIs DEF PageRead, PageOf
<1>5. scan.read + 1 \in 1..Len(held) /\ scan.read \in Nat
  BY <1>3, <1>4
<1>6. Still => held = Served(scan.page)
  BY <1>1 DEF ScanInv, StillOK
<1>7. Still => Range(held) \subseteq Range(live) /\ ~Repeats(held)
  BY <1>1, <1>6, ServedIs, GoodPage
<1>8. ASSUME NEW c, Stop("error", c), ~Still PROVE ScanInv'
  BY <1>1, <1>8, StopStep
<1>9. CASE held[scan.read + 1] \notin Range(live)
  <2>1. held[scan.read + 1] \in Range(held)
    BY <1>4, <1>5
  <2>2. Stop("error", "details")
    BY <1>9 DEF Detail
  <2> QED
    BY <1>7, <1>8, <1>9, <2>1, <2>2
<1>10. CASE held[scan.read + 1] \in Range(live) /\ scan.read + 1 < Len(held)
  <2>1. scan' = [scan EXCEPT !.read = @ + 1, !.tries = 0]
    BY <1>10 DEF Detail
  <2>2. PICK o, r : o = scan /\ r = scan.read + 1
    OBVIOUS
  <2>3. scan' = [pc |-> o.pc, query |-> o.query, budget |-> o.budget, server |-> o.server,
                 page |-> o.page, tries |-> 0, items |-> o.items, held |-> o.held,
                 read |-> r, answer |-> o.answer, cause |-> o.cause]
    <3>1. IsScan(o)
      BY <1>1, <2>2
    <3>2. scan' = [o EXCEPT !.read = r, !.tries = 0]
      BY <2>1, <2>2
    <3> QED
      BY <3>1, <3>2 DEF IsScan
  <2>4. SameScan /\ scan'.pc = "details" /\ scan'.held = held /\ scan'.read = scan.read + 1
    BY <1>1, <2>2, <2>3 DEF SameScan, IsScan
  <2>5. scan'.read \in 0..(Len(scan'.held) - 1)
    BY <1>4, <1>5, <1>10, <2>4
  <2> QED
    BY <1>1, <1>2, <1>3, <1>6, <2>4, <2>5, SameStep
<1>11. CASE held[scan.read + 1] \in Range(live) /\ ~(scan.read + 1 < Len(held))
  <2>1. IF Repeats(held) THEN Stop("error", "duplicate") ELSE Take(held, 0)
    BY <1>11 DEF Detail
  <2>2. CASE Repeats(held)
    BY <1>7, <1>8, <2>1, <2>2
  <2>3. CASE ~Repeats(held)
    <3>1. PICK zero : zero = 0
      OBVIOUS
    <3>2. Take(held, zero)
      BY <2>1, <2>3, <3>1
    <3> HIDE DEF held
    <3> QED
      BY <1>1, <1>2, <1>3, <1>6, <2>3, <3>2, TakeStep
  <2> QED
    BY <2>2, <2>3
<1> QED
  BY <1>9, <1>10, <1>11

\* A request failed.
LEMMA RetryStep ==
  ASSUME ScanInv, Retry
  PROVE  ScanInv'
<1>1. Scanning /\ UNCHANGED <<live, past, gone>> /\ IsScan(scan)
  BY DEF Retry, ScanInv, ScanOK
<1>2. CASE scan.tries = Retries
  BY <1>1, <1>2, StopStep DEF Retry
<1>3. CASE scan.tries # Retries
  <2>1. scan' = [scan EXCEPT !.tries = @ + 1]
    BY <1>3 DEF Retry
  <2>2. PICK o, t : o = scan /\ t = scan.tries + 1
    OBVIOUS
  <2>3. scan' = [pc |-> o.pc, query |-> o.query, budget |-> o.budget, server |-> o.server,
                 page |-> o.page, tries |-> t, items |-> o.items, held |-> o.held,
                 read |-> o.read, answer |-> o.answer, cause |-> o.cause]
    <3>1. IsScan(o)
      BY <1>1, <2>2
    <3>2. scan' = [o EXCEPT !.tries = t]
      BY <2>1, <2>2
    <3> QED
      BY <3>1, <3>2 DEF IsScan
  <2>4. SameScan /\ scan'.pc = scan.pc /\ scan'.held = scan.held /\ scan'.read = scan.read
    BY <1>1, <2>2, <2>3 DEF SameScan, IsScan
  <2>5. CASE scan.pc = "fetch"
    <3>1. scan.read = 0
      BY <2>5 DEF ScanInv, ScanOK
    <3> QED
      BY <1>1, <2>4, <2>5, <3>1, SameStep
  <2>6. CASE scan.pc = "details"
    <3>1. /\ Query.full /\ scan.read \in 0..(Len(scan.held) - 1)
          /\ \E list \in past : PageRead(scan.held, list)
          /\ Still => scan.held = Served(scan.page)
      BY <1>1, <2>6 DEF ScanInv, ScanOK, StillOK
    <3> QED
      BY <1>1, <2>4, <2>6, <3>1, SameStep
  <2> QED
    BY <1>1, <2>5, <2>6 DEF Scanning
<1> QED
  BY <1>2, <1>3

\* The provider knows no such address.
LEMMA NotFoundStep ==
  ASSUME ScanInv, NotFound
  PROVE  ScanInv'
<1>1. UNCHANGED <<live, past, gone>> /\ IsScan(scan) /\ live = <<>> /\ live \in past
  BY DEF NotFound, ScanInv, ScanOK, ListsOK
<1>2. CASE Stop("error", "missing")
  BY <1>1, <1>2, StopStep
<1>3. CASE Stop("ok", "none")
  <2>1. PICK o, q, a, k : o = scan /\ q = scan' /\ a = "ok" /\ k = "none"
    OBVIOUS
  <2>2. IsScan(o)
    BY <1>1, <2>1
  <2>3. q = Stopped(o, a, k)
    BY <1>3, <2>1 DEF Stop, Stopped
  <2>4. IsScan(q) /\ q.pc = "done" /\ q.answer = a /\ q.items = <<>>
    BY <2>2, <2>3, StopIs
  <2>5. IsScan(scan') /\ scan'.pc = "done" /\ scan'.answer = "ok" /\ scan'.items = <<>>
    BY <2>1, <2>4
  <2>6. ListsOK' /\ Seen' = Seen
    BY <1>1, ListsKept DEF ScanInv
  <2>7. ScanOK'
    BY <2>5, <2>6, NothingIs DEF ScanOK, Scanning
  <2>8. StillOK'
    BY <2>5 DEF StillOK, Scanning
  <2>9. AnswerIsTheList'
    <3>1. PICK items, all : items = <<>> /\ all = Range(items)
      OBVIOUS
    <3>2. /\ all = {} /\ all = Range(live) /\ Len(items) = Len(live)
      BY <1>1, <3>1, NothingIs
    <3>3. Range(live) \ all = {} /\ Cardinality({}) = 0 /\ gone \in Nat
      BY <3>2, FS_EmptySet DEF ScanInv, ListsOK
    <3>4. Cardinality(Range(live) \ all) <= gone
      BY <3>3
    <3>5. /\ gone = 0 => \E l \in past : Range(items) = Range(l) /\ Len(items) = Len(l)
          /\ Cardinality({i \in Range(live) : \A l \in past : i \in Range(l)} \ Range(items)) <= gone
      BY <1>1, <3>1, <3>2, <3>4, WholeList DEF ScanInv
    <3> QED
      BY <1>1, <2>5, <3>1, <3>5 DEF AnswerIsTheList
  <2> QED
    BY <2>6, <2>7, <2>8, <2>9 DEF ScanInv
<1> QED
  BY <1>2, <1>3 DEF NotFound

\* The chain moves on while a scan goes on: nothing that was read is lost but what
\* left the list.
LEMMA MovesStep ==
  ASSUME ScanInv, Scanning, NEW list, Moves(list), Range(list) # Range(live),
         ListsOK', Seen \subseteq Seen', gone' \in Nat, gone <= gone'
  PROVE  ScanInv'
<1>1. UNCHANGED scan /\ live' = list /\ past \subseteq past' /\ live \in past' /\ list \in past'
  BY DEF Moves, ScanInv, ListsOK
<1>2. ~Still'
  BY <1>1 DEF Still
<1>3. Count' = Count /\ Query' = Query
  BY <1>1 DEF Count, Query
<1>4. ASSUME NEW page, NEW l, l \in past, PageRead(page, l) PROVE PageRead(page, l)'
  <2>1. Cardinality(Range(scan.items) \ Range(l)) \in Nat
    <3>1. IsFiniteSet(Range(scan.items))
      BY DistinctIs DEF ScanInv, ScanOK
    <3>2. IsFiniteSet(Range(scan.items) \ Range(l))
      BY <3>1, FS_Difference
    <3> QED
      BY <3>2, FS_CardinalityType
  <2>2. Cardinality(Range(scan.items) \ Range(l)) <= gone' /\ PageOf(page, l)
    <3>1. gone \in Nat /\ Cardinality(Range(scan.items) \ Range(l)) <= gone
      BY <1>4 DEF PageRead, ScanInv, ListsOK
    <3> QED
      BY <1>4, <2>1, <3>1 DEF PageRead
  <2> QED
    BY <1>1, <1>3, <2>2 DEF PageRead, PageOf
<1>5. ScanOK'
  <2>1. /\ IsScan(scan) /\ scan.pc \in {"fetch", "details"} /\ Distinct(scan.items)
        /\ Range(scan.items) \subseteq Seen' /\ scan.answer = "none"
        /\ scan.pc = "fetch" => scan.read = 0
        /\ ValidBudget(scan.budget) /\ scan.query \in DOMAIN Queries /\ scan.page \in Nat \ {0}
        /\ Len(scan.items) = (scan.page - 1) * Count
    BY DEF ScanInv, ScanOK, Scanning
  <2>2. scan.pc = "details" =>
          /\ Query.full /\ scan.read \in 0..(Len(scan.held) - 1)
          /\ \E l \in past' : PageRead(scan.held, l)'
    BY <1>1, <1>4 DEF ScanInv, ScanOK
  <2> QED
    BY <1>1, <1>3, <2>1, <2>2 DEF ScanOK, Scanning
<1>6. StillOK'
  BY <1>2 DEF StillOK
<1>7. AnswerIsTheList'
  <2>1. scan'.answer = "none"
    BY <1>1, ScanNumbers
  <2> QED
    BY <2>1 DEF AnswerIsTheList
<1> QED
  BY <1>5, <1>6, <1>7 DEF ScanInv

\* An item that the chain took after all others.
LEMMA ArriveStep ==
  ASSUME ScanInv, Arrive
  PROVE  ScanInv'
<1>1. PICK i \in New \ Seen : Moves(Append(live, i)) /\ UNCHANGED gone /\ Scanning
  BY DEF Arrive, Seen
<1> DEFINE list == Append(live, i)
<1>2. /\ ListsOK /\ live \in past /\ Distinct(live) /\ Range(live) \subseteq Seen
      /\ i \notin Range(live) /\ i \in Nat
  BY <1>1, Bounds DEF ScanInv, ListsOK, Seen
<1>3. Distinct(list) /\ Range(list) = Range(live) \cup {i}
  BY <1>2, AppendedIs
<1> HIDE DEF list
<1>4. live' = list /\ past' = past \cup {list} /\ gone' = gone
  BY <1>1 DEF Moves, list
<1>5. Seen' = Seen \cup {i}
  <2>1. Seen' = Seen \cup Range(list)
    BY <1>4 DEF Seen
  <2> QED
    BY <1>2, <1>3, <2>1
<1>6. Seen' \ Range(live') = Seen \ Range(live)
  BY <1>1, <1>3, <1>4, <1>5
<1>7. IsFiniteSet(Seen') /\ IsFiniteSet(past')
  BY <1>2, <1>4, <1>5, FS_AddElement DEF ListsOK
<1>8. ListsOK'
  BY <1>2, <1>3, <1>4, <1>6, <1>7 DEF ListsOK
<1>9. Range(list) # Range(live) /\ Seen \subseteq Seen' /\ gone' \in Nat /\ gone <= gone'
  BY <1>2, <1>3, <1>4, <1>5 DEF ListsOK
<1> QED
  BY <1>1, <1>8, <1>9, MovesStep DEF list

\* An item leaves the list.
LEMMA DepartStep ==
  ASSUME ScanInv, Depart
  PROVE  ScanInv'
<1>1. PICK i \in DOMAIN live : Moves(RemoveAt(live, i)) /\ gone' = gone + 1 /\ Scanning
  BY DEF Depart
<1> DEFINE list == RemoveAt(live, i)
           x == live[i]
           left == Seen \ Range(live)
<1>2. /\ ListsOK /\ live \in past /\ Distinct(live) /\ Range(live) \subseteq Seen
      /\ gone \in Nat /\ Cardinality(left) <= gone
  BY DEF ScanInv, ListsOK, Seen
<1>3. x \in Range(live)
  BY DEF Range
<1>4. Distinct(list) /\ Range(list) = Range(live) \ {x}
  BY <1>2, RemovedIs
<1> HIDE DEF list, x
<1>5. live' = list /\ past' = past \cup {list}
  BY <1>1 DEF Moves, list
<1>6. Seen' = Seen
  <2>1. Seen' = Seen \cup Range(list)
    BY <1>5 DEF Seen
  <2> QED
    BY <1>2, <1>4, <2>1
<1>7. Seen' \ Range(live') = left \cup {x}
  BY <1>2, <1>3, <1>4, <1>5, <1>6
<1>8. IsFiniteSet(Seen) /\ IsFiniteSet(past') /\ IsFiniteSet(left)
  BY <1>2, <1>5, FS_AddElement, FS_Difference DEF ListsOK
<1>9. Cardinality(left \cup {x}) <= gone'
  <2>1. Cardinality(left) \in Nat
    BY <1>8, FS_CardinalityType
  <2>2. Cardinality(left \cup {x}) = IF x \in left THEN Cardinality(left) ELSE Cardinality(left) + 1
    <3> HIDE DEF left
    <3> QED
      BY <1>8, FS_AddElement
  <2> HIDE DEF left
  <2> QED
    BY <1>1, <1>2, <2>1, <2>2
<1>10. Cardinality(Seen' \ Range(live')) <= gone'
  BY <1>7, <1>9
<1>11. ListsOK'
  BY <1>1, <1>2, <1>4, <1>5, <1>6, <1>8, <1>10 DEF ListsOK
<1>12. Range(list) # Range(live) /\ Seen \subseteq Seen' /\ gone' \in Nat /\ gone <= gone'
  BY <1>1, <1>2, <1>3, <1>4, <1>6
<1> QED
  BY <1>1, <1>11, <1>12, MovesStep DEF list

\* The inductive invariant holds of every list at the beginning ...
LEMMA ScanBegins ==
  ASSUME ScanInit
  PROVE  ScanInv
<1>1. /\ live \in Starts /\ past = {live} /\ gone = 0
      /\ scan = [pc |-> "idle", query |-> "utxos", budget |-> [count |-> 1, maxPages |-> 1],
                 server |-> "good", page |-> 1, tries |-> 0, items |-> <<>>, held |-> <<>>,
                 read |-> 0, answer |-> "none", cause |-> "none"]
  BY DEF ScanInit
<1>2. Distinct(live)
  <2>1. live \in Seq(Nat) /\ \A i, j \in 1..Len(live) : i < j => live[i] < live[j]
    BY <1>1, Oldest
  <2>2. DOMAIN live = 1..Len(live) /\ Len(live) \in Nat /\ \A i \in 1..Len(live) : live[i] \in Nat
    BY <2>1
  <2>3. ASSUME NEW i \in 1..Len(live), NEW j \in 1..Len(live), live[i] = live[j] PROVE i = j
    <3>1. ~(i < j)
      BY <2>1, <2>2, <2>3
    <3>2. ~(j < i)
      BY <2>1, <2>2, <2>3
    <3> QED
      BY <2>2, <3>1, <3>2
  <2> QED
    BY <2>1, <2>2, <2>3 DEF Distinct, IsInjective
<1>3. ListsOK
  <2>1. Seen = Range(live) /\ Seen \ Range(live) = {}
    BY <1>1 DEF Seen
  <2>2. IsFiniteSet(Seen) /\ IsFiniteSet(past) /\ Cardinality({}) = 0
    BY <1>1, <1>2, <2>1, DistinctIs, FS_Singleton, FS_EmptySet
  <2>3. Cardinality(Seen \ Range(live)) = 0 /\ 0 <= 0
    BY <2>1, <2>2
  <2>4. live \in past /\ \A list \in past : Distinct(list)
    BY <1>1, <1>2
  <2>5. \E list \in past : list \in Starts
    BY <1>1
  <2>6. gone \in Nat /\ Cardinality(Seen \ Range(live)) <= gone
    BY <1>1, <2>3
  <2> QED
    BY <2>2, <2>4, <2>5, <2>6 DEF ListsOK
<1>4. /\ IsScan(scan) /\ scan.pc = "idle" /\ scan.page = 1 /\ scan.items = <<>>
      /\ scan.read = 0 /\ scan.answer = "none"
  BY <1>1 DEF IsScan
<1>5. ScanOK
  BY <1>4, NothingIs DEF ScanOK, Scanning
<1>6. StillOK
  BY <1>4 DEF StillOK, Scanning
<1>7. AnswerIsTheList
  BY <1>4 DEF AnswerIsTheList
<1> QED
  BY <1>3, <1>5, <1>6, <1>7 DEF ScanInv

\* ... and every step keeps it.
LEMMA ScanInductive == ScanInv /\ [ScanNext]_scanVars => ScanInv'
<1> SUFFICES ASSUME ScanInv, [ScanNext]_scanVars PROVE ScanInv'
  OBVIOUS
<1>1. CASE Begin
  BY <1>1, BeginStep
<1>2. CASE Fetch
  BY <1>2, FetchStep
<1>3. CASE Detail
  BY <1>3, DetailStep
<1>4. CASE Retry
  BY <1>4, RetryStep
<1>5. CASE NotFound
  BY <1>5, NotFoundStep
<1>6. CASE Arrive
  BY <1>6, ArriveStep
<1>7. CASE Depart
  BY <1>7, DepartStep
<1>8. CASE UNCHANGED scanVars
  <2>1. UNCHANGED <<live, past, gone, scan>>
    BY <1>8 DEF scanVars
  <2>2. ListsOK' /\ Seen' = Seen
    BY <2>1, ListsKept DEF ScanInv
  <2>3. Count' = Count /\ Query' = Query
    BY <2>1 DEF Count, Query
  <2>4. ASSUME NEW page, NEW list, PageRead(page, list) PROVE PageRead(page, list)'
    BY <2>1, <2>3, <2>4 DEF PageRead, PageOf
  <2>5. ScanOK'
    BY <2>1, <2>2, <2>3, <2>4 DEF ScanInv, ScanOK, Scanning
  <2>6. StillOK'
    <3>1. InOrder(scan.query, live)' = InOrder(scan.query, live)
      BY <2>1 DEF InOrder
    <3>2. Served(scan.page)' = Served(scan.page)
      BY <2>1, <2>3, <3>1 DEF Served
    <3> QED
      BY <2>1, <2>3, <3>1, <3>2 DEF ScanInv, StillOK, Still, Scanning
  <2>7. AnswerIsTheList'
    BY <2>1 DEF ScanInv, AnswerIsTheList
  <2> QED
    BY <2>2, <2>5, <2>6, <2>7 DEF ScanInv
<1> QED
  BY <1>1, <1>2, <1>3, <1>4, <1>5, <1>6, <1>7, <1>8 DEF ScanNext, ScanStep

\* An answered scan is the whole list as it stood at one moment of the scan, unless
\* something left it meanwhile; and then it misses no more of the items that were
\* there all the time than have left, whatever arrived between its pages and also where
\* the provider ignores page, order or count (getUtxosByAddress, collectChainPages).
THEOREM AnswerIsTheListInvariant == ScanSpec => []AnswerIsTheList
<1>1. ScanInit => ScanInv
  BY ScanBegins
<1>2. ScanInv /\ [ScanNext]_scanVars => ScanInv'
  BY ScanInductive
<1>3. ScanInv => AnswerIsTheList
  BY DEF ScanInv
<1> QED
  BY <1>1, <1>2, <1>3, PTL DEF ScanSpec

\* A list that fits the budget and stays as it is, at a provider that answers and
\* honours the request, is never refused (the checks of collectChainPages and of the
\* paged queries: order, length, total, details, repetition).
THEOREM NoFalseRefusalInvariant == ScanSpec => []NoFalseRefusal
<1>1. ScanInit => ScanInv
  BY ScanBegins
<1>2. ScanInv /\ [ScanNext]_scanVars => ScanInv'
  BY ScanInductive
<1>3. ScanInv => NoFalseRefusal
  <2> SUFFICES ASSUME ScanInv, scan.answer = "error", scan.server = "good", Cardinality(past) = 1
               PROVE  \/ scan.cause \in {"invalid", "unavailable"}
                      \/ scan.cause = "budget" /\ Len(live) >= Count * scan.budget.maxPages
                      \/ scan.cause = "missing" /\ live = <<>>
    BY DEF NoFalseRefusal
  <2>1. IsFiniteSet(past) /\ live \in past
    BY DEF ScanInv, ListsOK
  <2>2. \E l : past = {l}
    BY <2>1, FS_Singleton
  <2>3. Still
    BY <2>1, <2>2 DEF Still
  <2> QED
    BY <2>3 DEF ScanInv, StillOK
<1> QED
  BY <1>1, <1>2, <1>3, PTL DEF ScanSpec
=============================================================================
