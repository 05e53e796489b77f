------------------------ MODULE GovernedTransferProofs ------------------------
(***************************************************************************)
(* Theorems about GovernedTransfer, for any calls, requirements, evidence  *)
(* and deadline.  They rest on three things: what a call asked for is what *)
(* its job holds and what it posts, a completed job never changes again,   *)
(* and a call that has not created its job has none.                       *)
(***************************************************************************)
EXTENDS GovernedTransfer, TLAPS

-----------------------------------------------------------------------------
(* Types.                                                                  *)

PCs == {"idle", "network", "prepare", "preflight", "create", "first", "poll", "result",
        "submit", "done"}
Causes == {"none", "network", "prepare", "preflight", "create", "createLost", "pollFailed",
           "deadline", "jobFailed", "noHash", "evidence", "refused", "hashMismatch", "submitLost"}

Asked == (UNION {Requests[c] : c \in Callers}) \cup {NoRequest}
Selected == Selections \cup {NoSelection}
Bodies == {Build(r, sel) : r \in Asked, sel \in Selected} \cup {NoBody}
Exts == {<<r.policy.ext>> : r \in Asked} \cup {<<>>}

CallType == [pc : PCs, req : Asked, sel : Selected, body : Bodies,
             answer : {"none", "ok", "error"}, cause : Causes]
JobType == [status : Statuses, kind : {"raw", "transfer"}, body : Bodies, ext : Exts,
            evidence : Evidence \cup {NoEvidence}]

TypeOK ==
  /\ call \in [Callers -> CallType]
  /\ job \in [Callers -> JobType]
  /\ poll \in [Callers -> [status : Statuses, waited : Nat]]
  /\ chain \subseteq [by : Callers, body : Bodies]

-----------------------------------------------------------------------------
(* The inductive invariant.                                                *)

HasJob(c) == job[c].status # "none"

\* Where a call can be before its job exists, and where it can end without one.
Before == {"idle", "network", "prepare", "preflight", "create"}
BeforeCauses == {"network", "prepare", "preflight", "create"}

\* Where a job can be once a read of it was good.
UnderWay == {"BROADCASTING", "CONFIRMING", "COMPLETED", "FAILED"}

\* A call that is under way has no answer; one that ended before its job has none.
Course(c) ==
  /\ call[c].pc # "done" => call[c].answer = "none" /\ call[c].cause = "none"
  /\ call[c].pc \in Before \/ call[c].cause \in BeforeCauses => ~HasJob(c)
  /\ call[c].answer = "error" /\ call[c].cause = "none" => ~HasJob(c)
  /\ call[c].pc \in {"first", "poll", "result", "submit"} => HasJob(c)

\* The job is the one the call asked for, and a read that was final stays true.
Faithful(c) ==
  /\ HasJob(c) => /\ job[c].body = call[c].body
                  /\ job[c].kind = Kind(c)
                  /\ job[c].ext = ExternalId(c)
  /\ poll[c].status = "COMPLETED" => job[c].status = "COMPLETED"
  /\ call[c].pc = "result" => job[c].status \in UnderWay
  /\ call[c].cause = "jobFailed" => job[c].status = "FAILED"

\* What a governed call has passed by the time it creates its job.
Passed(c) ==
  /\ call[c].pc = "preflight" =>
       call[c].sel \in Selections /\ call[c].body = Build(call[c].req, call[c].sel)
  /\ Governed(c) =>
       /\ call[c].pc \notin {"idle", "done"} \/ HasJob(c) => Kind(c) = "raw"
       /\ call[c].pc = "create" \/ HasJob(c) => Within(call[c].req, call[c].body)
  /\ call[c].cause = "preflight" =>
       ~WellFormed(Policy(c)) \/ ~Within(call[c].req, call[c].body) \/ ~NetworksMatch(call[c].req)

\* Signed by Fireblocks over the body's hash, and authorized.
Vouched(c) ==
  /\ job[c].status = "COMPLETED"
  /\ job[c].evidence.content = "hash"
  /\ Authorized(Policy(c), job[c].evidence)

\* Only a raw job is posted, and a governed one only when vouched for.
Posting(c) ==
  /\ call[c].pc = "submit" => Kind(c) = "raw" /\ (Governed(c) => Vouched(c))
  /\ call[c].cause \in {"evidence", "refused"} => Kind(c) = "raw"

\* A body on the ledger is that of its call, which has said so or lost the answer.
OnChain(p) ==
  /\ HasJob(p.by) /\ call[p.by].pc = "done" /\ Kind(p.by) = "raw"
  /\ p.body = call[p.by].body
  /\ Governed(p.by) => Vouched(p.by)
  /\ call[p.by].answer = "ok" \/ call[p.by].cause \in {"hashMismatch", "submitLost"}

Answered(c) ==
  call[c].answer = "ok" =>
    IF Kind(c) = "raw" THEN [by |-> c, body |-> call[c].body] \in chain
    ELSE job[c].status \in UnderWay

\* Jobs of two calls never share an external id.
OneJobPerId ==
  \A c, d \in Callers : job[c].ext # <<>> /\ job[c].ext = job[d].ext => c = d

CallOK(c) == Course(c) /\ Faithful(c) /\ Passed(c) /\ Posting(c) /\ Answered(c)

IInv ==
  /\ TypeOK
  /\ \A c \in Callers : CallOK(c)
  /\ \A p \in chain : OnChain(p)
  /\ OneJobPerId

-----------------------------------------------------------------------------
(* Types are kept.                                                         *)

\* The ends of a step of a call.
LEMMA GotoType ==
  ASSUME TypeOK, NEW c \in Callers, NEW pc \in PCs, Goto(c, pc)
  PROVE  call' \in [Callers -> CallType]
BY DEF TypeOK, CallType, Goto

LEMMA FailType ==
  ASSUME TypeOK, NEW c \in Callers, NEW cause \in Causes, Fail(c, cause)
  PROVE  call' \in [Callers -> CallType]
<1>1. [call[c] EXCEPT !.pc = "done", !.answer = "error", !.cause = cause] \in CallType
  <2>1. call[c] \in CallType
    BY DEF TypeOK
  <2> QED
    BY <2>1 DEF CallType, PCs
<1>2. call' = [call EXCEPT ![c] = [call[c] EXCEPT !.pc = "done", !.answer = "error", !.cause = cause]]
  BY DEF Fail
<1> QED
  BY <1>1, <1>2 DEF TypeOK

LEMMA SucceedType ==
  ASSUME TypeOK, NEW c \in Callers, Succeed(c)
  PROVE  call' \in [Callers -> CallType]
<1>1. [call[c] EXCEPT !.pc = "done", !.answer = "ok"] \in CallType
  <2>1. call[c] \in CallType
    BY DEF TypeOK
  <2> QED
    BY <2>1 DEF CallType, PCs
<1>2. call' = [call EXCEPT ![c] = [call[c] EXCEPT !.pc = "done", !.answer = "ok"]]
  BY DEF Succeed
<1> QED
  BY <1>1, <1>2 DEF TypeOK

LEMMA InitType == Init => TypeOK
<1> SUFFICES ASSUME Init PROVE TypeOK
  OBVIOUS
<1>1. call \in [Callers -> CallType]
  <2>1. NoRequest \in Asked
    BY DEF Asked
  <2>2. NoSelection \in Selected
    BY DEF Selected
  <2>3. NoBody \in Bodies
    BY DEF Bodies
  <2> QED
    BY <2>1, <2>2, <2>3 DEF Init, CallType, PCs, Causes
<1>2. job \in [Callers -> JobType]
  BY DEF Init, JobsInit, NoJob, JobType, Statuses, Bodies, Exts
<1>3. poll \in [Callers -> [status : Statuses, waited : Nat]] /\ chain = {}
  BY DEF Init, JobsInit, Statuses
<1> QED
  BY <1>1, <1>2, <1>3 DEF TypeOK

LEMMA StartType ==
  ASSUME TypeOK, NEW c \in Callers, Start(c)
  PROVE  TypeOK'
<1>1. PICK r \in Requests[c] :
        call' = [call EXCEPT ![c].req = r,
          ![c].pc = IF r.provider = "iagon" THEN (IF r.governed THEN "done" ELSE "create")
                    ELSE IF r.governed THEN "network" ELSE "prepare",
          ![c].answer = IF r.provider = "iagon" /\ r.governed THEN "error" ELSE @]
  BY DEF Start
<1>2. r \in Asked
  BY DEF Asked
<1>3. PICK pc \in PCs, answer \in {"none", "ok", "error"} :
        call' = [call EXCEPT ![c].req = r, ![c].pc = pc, ![c].answer = answer]
  <2>1. (IF r.provider = "iagon" THEN (IF r.governed THEN "done" ELSE "create")
         ELSE IF r.governed THEN "network" ELSE "prepare") \in PCs
    BY DEF PCs
  <2>2. (IF r.provider = "iagon" /\ r.governed THEN "error" ELSE call[c].answer)
           \in {"none", "ok", "error"}
    BY DEF TypeOK, CallType
  <2> QED
    BY <1>1, <2>1, <2>2
<1>4. call' \in [Callers -> CallType]
  <2>1. [call[c] EXCEPT !.req = r, !.pc = pc, !.answer = answer] \in CallType
    <3>1. call[c] \in CallType
      BY DEF TypeOK
    <3> QED
      BY <3>1, <1>2 DEF CallType
  <2>2. call' = [call EXCEPT ![c] = [call[c] EXCEPT !.req = r, !.pc = pc, !.answer = answer]]
    BY <1>3
  <2> QED
    BY <2>1, <2>2 DEF TypeOK
<1> QED
  BY <1>4 DEF Start, fireblocks, TypeOK

LEMMA PrepareType ==
  ASSUME TypeOK, NEW c \in Callers, Prepare(c)
  PROVE  TypeOK'
<1>1. ASSUME NEW sel \in Selections,
             call' = [call EXCEPT ![c].sel = sel, ![c].body = Build(call[c].req, sel),
                        ![c].pc = IF Governed(c) THEN "preflight" ELSE "create"]
      PROVE  call' \in [Callers -> CallType]
  <2>1. call[c].req \in Asked /\ sel \in Selected
    BY DEF TypeOK, CallType, Selected
  <2>2. Build(call[c].req, sel) \in Bodies
    BY <2>1 DEF Bodies
  <2>3. (IF Governed(c) THEN "preflight" ELSE "create") \in PCs
    BY DEF PCs
  <2> DEFINE next == [call[c] EXCEPT !.sel = sel, !.body = Build(call[c].req, sel),
                        !.pc = IF Governed(c) THEN "preflight" ELSE "create"]
  <2>4. next \in CallType
    <3>1. call[c] \in CallType
      BY DEF TypeOK
    <3> QED
      BY <3>1, <2>1, <2>2, <2>3 DEF CallType
  <2>5. call' = [call EXCEPT ![c] = next]
    BY <1>1
  <2> QED
    BY <2>4, <2>5 DEF TypeOK
<1>2. Fail(c, "prepare") => call' \in [Callers -> CallType]
  BY FailType DEF Causes
<1> QED
  BY <1>1, <1>2 DEF Prepare, fireblocks, TypeOK

LEMMA ExtType ==
  ASSUME TypeOK, NEW c \in Callers
  PROVE  ExternalId(c) \in Exts
BY DEF TypeOK, CallType, ExternalId, Exts, Policy

LEMMA CreateType ==
  ASSUME TypeOK, NEW c \in Callers, CreateJob(c)
  PROVE  TypeOK'
<1>1. call' \in [Callers -> CallType]
  BY GotoType, FailType DEF CreateJob, PCs, Causes
<1>2. job' \in [Callers -> JobType]
  <2>1. Kind(c) \in {"raw", "transfer"} /\ call[c].body \in Bodies /\ "SUBMITTED" \in Statuses
    BY DEF Kind, TypeOK, CallType, Statuses
  <2>2. [status |-> "SUBMITTED", kind |-> Kind(c), body |-> call[c].body, ext |-> ExternalId(c),
         evidence |-> NoEvidence] \in JobType
    BY <2>1, ExtType DEF JobType
  <2> QED
    BY <2>2 DEF CreateJob, Create, TypeOK
<1> QED
  BY <1>1, <1>2 DEF CreateJob, TypeOK

LEMMA PollType ==
  ASSUME TypeOK, NEW c \in Callers, ReadFirst(c) \/ Poll(c)
  PROVE  TypeOK'
<1>1. call' \in [Callers -> CallType]
  <2>1. CASE ReadFirst(c)
    BY <2>1, GotoType, FailType DEF ReadFirst, PCs, Causes
  <2>2. CASE Poll(c)
    <3>1. UNCHANGED call \/ Goto(c, "result") \/ \E cause \in Causes : Fail(c, cause)
      BY <2>2 DEF Poll, Causes
    <3> QED
      BY <3>1, GotoType, FailType DEF PCs, TypeOK
  <2> QED
    BY <2>1, <2>2
<1>2. poll' \in [Callers -> [status : Statuses, waited : Nat]]
  <2>1. job[c].status \in Statuses /\ poll[c].waited \in Nat
    BY DEF TypeOK, JobType
  <2>2. poll' = poll \/ \E n \in Nat : poll' = [poll EXCEPT ![c] = [status |-> job[c].status, waited |-> n]]
    BY <2>1 DEF ReadFirst, Poll, FirstRead, Read, Waited
  <2> QED
    BY <2>1, <2>2 DEF TypeOK
<1> QED
  BY <1>1, <1>2 DEF ReadFirst, Poll, TypeOK

LEMMA OtherType ==
  ASSUME TypeOK, NEW c \in Callers,
         CheckNetwork(c) \/ Preflight(c) \/ NativeResult(c) \/ CheckEvidence(c)
  PROVE  TypeOK'
<1>1. (\E pc \in PCs : Goto(c, pc)) \/ (\E cause \in Causes : Fail(c, cause)) \/ Succeed(c)
  BY DEF CheckNetwork, Preflight, NativeResult, CheckEvidence, PCs, Causes
<1>2. call' \in [Callers -> CallType]
  BY <1>1, GotoType, FailType, SucceedType
<1> QED
  BY <1>2 DEF CheckNetwork, Preflight, NativeResult, CheckEvidence, fireblocks, TypeOK

LEMMA SubmitType ==
  ASSUME TypeOK, NEW c \in Callers, Submit(c)
  PROVE  TypeOK'
<1>1. (\E cause \in Causes : Fail(c, cause)) \/ Succeed(c)
  BY DEF Submit, Causes
<1>2. call' \in [Callers -> CallType]
  BY <1>1, FailType, SucceedType
<1>3. [by |-> c, body |-> call[c].body] \in [by : Callers, body : Bodies]
  BY DEF TypeOK, CallType
<1> QED
  BY <1>2, <1>3 DEF Submit, fireblocks, TypeOK

\* Where a job's step leads.
LEMMA MovesType ==
  ASSUME NEW j, NEW s \in Moves(j)
  PROVE  /\ s \in Statuses \ {"none", "SUBMITTED"}
         /\ j.status \in {"SUBMITTED", "PENDING", "BROADCASTING", "CONFIRMING"}
         /\ j.status \in {"BROADCASTING", "CONFIRMING"} => s \in {"CONFIRMING", "COMPLETED", "FAILED"}
<1>1. CASE j.status = "SUBMITTED"
  BY <1>1 DEF Moves, Statuses
<1>2. CASE j.status = "PENDING"
  BY <1>2 DEF Moves, Statuses
<1>3. CASE j.status = "BROADCASTING"
  BY <1>3 DEF Moves, Statuses
<1>4. CASE j.status = "CONFIRMING"
  BY <1>4 DEF Moves, Statuses
<1>5. CASE j.status \notin {"SUBMITTED", "PENDING", "BROADCASTING", "CONFIRMING"}
  BY <1>5 DEF Moves
<1> QED
  BY <1>1, <1>2, <1>3, <1>4, <1>5

LEMMA JobMovesType ==
  ASSUME TypeOK, NEW c \in Callers, JobMoves(c)
  PROVE  TypeOK'
<1>1. PICK s \in Moves(job[c]), e \in Evidence :
        job' = [job EXCEPT ![c].status = s,
                  ![c].evidence = IF s = "COMPLETED" /\ job[c].kind = "raw" THEN e ELSE @]
  BY DEF JobMoves, Progress
<1>2. s \in Statuses
  BY MovesType
<1>3. (IF s = "COMPLETED" /\ job[c].kind = "raw" THEN e ELSE job[c].evidence)
        \in Evidence \cup {NoEvidence}
  BY DEF TypeOK, JobType
<1>4. job' \in [Callers -> JobType]
  <2> DEFINE next == [job[c] EXCEPT !.status = s,
                !.evidence = IF s = "COMPLETED" /\ job[c].kind = "raw" THEN e ELSE job[c].evidence]
  <2>1. next \in JobType
    <3>1. job[c] \in JobType
      BY DEF TypeOK
    <3> QED
      BY <3>1, <1>2, <1>3 DEF JobType
  <2>2. job' = [job EXCEPT ![c] = next]
    BY <1>1
  <2> QED
    BY <2>1, <2>2 DEF TypeOK
<1> QED
  BY <1>4 DEF JobMoves, Progress, TypeOK

LEMMA TypeKept ==
  ASSUME TypeOK, [Next]_vars
  PROVE  TypeOK'
<1>1. CASE UNCHANGED vars
  BY <1>1 DEF vars, TypeOK
<1>2. ASSUME NEW c \in Callers, Start(c) \/ Step(c) \/ JobMoves(c)
      PROVE  TypeOK'
  BY <1>2, StartType, PrepareType, CreateType, PollType, OtherType, SubmitType, JobMovesType
  DEF Step
<1> QED
  BY <1>1, <1>2 DEF Next

-----------------------------------------------------------------------------
(* The invariant is inductive.                                             *)

\* What a step leaves alone stays as it was.
LEMMA OthersKept ==
  ASSUME NEW d \in Callers, CallOK(d), chain \subseteq chain',
         call'[d] = call[d], job'[d] = job[d], poll'[d] = poll[d]
  PROVE  CallOK(d)'
<1> USE DEF HasJob, Kind, Governed, Policy, ExternalId
<1>1. Course(d)' /\ Faithful(d)'
  BY DEF CallOK, Course, Faithful
<1>2. Passed(d)'
  BY DEF CallOK, Passed
<1>3. Posting(d)' /\ Answered(d)'
  BY DEF CallOK, Posting, Vouched, Answered
<1> QED
  BY <1>1, <1>2, <1>3 DEF CallOK

LEMMA ChainKept ==
  ASSUME NEW p, OnChain(p), call'[p.by] = call[p.by], job'[p.by] = job[p.by]
  PROVE  OnChain(p)'
BY DEF OnChain, Vouched, HasJob, Kind, Governed, Policy

\* A step of one call that has not ended: what is left to show is its own part.
LEMMA OneCallSteps ==
  ASSUME IInv, TypeOK', NEW c \in Callers, call[c].pc # "done",
         \A d \in Callers \ {c} :
           call'[d] = call[d] /\ job'[d] = job[d] /\ poll'[d] = poll[d],
         chain \subseteq chain', \A p \in chain' \ chain : OnChain(p)',
         CallOK(c)', OneJobPerId'
  PROVE  IInv'
<1>1. \A d \in Callers \ {c} : CallOK(d)'
  BY OthersKept DEF IInv
<1>2. ASSUME NEW p \in chain PROVE OnChain(p)'
  <2>1. OnChain(p) /\ p.by \in Callers
    BY DEF IInv, TypeOK
  <2>2. p.by # c
    BY <2>1 DEF OnChain
  <2> QED
    BY <2>1, <2>2, ChainKept
<1> QED
  BY <1>1, <1>2 DEF IInv

\* Most steps leave the jobs and the ledger alone.
LEMMA OnlyTheCall ==
  ASSUME IInv, TypeOK', NEW c \in Callers, call[c].pc # "done",
         \A d \in Callers \ {c} : call'[d] = call[d],
         UNCHANGED <<job, poll, chain>>, CallOK(c)'
  PROVE  IInv'
<1>1. OneJobPerId'
  BY DEF IInv, OneJobPerId
<1> QED
  BY <1>1, OneCallSteps

\* What the ends of a step do to the call and to nothing else.
LEMMA GotoEffect ==
  ASSUME TypeOK, NEW c \in Callers, NEW pc, Goto(c, pc)
  PROVE  /\ call'[c] = [call[c] EXCEPT !.pc = pc]
         /\ call[c] \in CallType
         /\ \A d \in Callers \ {c} : call'[d] = call[d]
BY DEF TypeOK, Goto

LEMMA FailEffect ==
  ASSUME TypeOK, NEW c \in Callers, NEW cause, Fail(c, cause)
  PROVE  /\ call'[c] = [call[c] EXCEPT !.pc = "done", !.answer = "error", !.cause = cause]
         /\ call[c] \in CallType
         /\ \A d \in Callers \ {c} : call'[d] = call[d]
BY DEF TypeOK, Fail

LEMMA SucceedEffect ==
  ASSUME TypeOK, NEW c \in Callers, Succeed(c)
  PROVE  /\ call'[c] = [call[c] EXCEPT !.pc = "done", !.answer = "ok"]
         /\ call[c] \in CallType
         /\ \A d \in Callers \ {c} : call'[d] = call[d]
BY DEF TypeOK, Succeed

\* A failure, for a cause the call's state allows.
LEMMA Failed ==
  ASSUME IInv, NEW c \in Callers, NEW cause \in Causes \ {"none", "preflight"}, Fail(c, cause),
         call[c].pc # "done", job'[c] = job[c], chain' = chain,
         poll'[c] = poll[c] \/ poll'[c].status = job[c].status,
         cause \in BeforeCauses => ~HasJob(c),
         cause = "jobFailed" => job[c].status = "FAILED",
         cause \in {"evidence", "refused"} => Kind(c) = "raw"
  PROVE  CallOK(c)'
<1>1. /\ call'[c] = [call[c] EXCEPT !.pc = "done", !.answer = "error", !.cause = cause]
      /\ call[c] \in CallType
  BY FailEffect DEF IInv
<1>2. /\ call'[c].pc = "done" /\ call'[c].answer = "error" /\ call'[c].cause = cause
      /\ call'[c].req = call[c].req /\ call'[c].body = call[c].body
  BY <1>1 DEF CallType
<1>3. CallOK(c)
  BY DEF IInv
<1> USE <1>2, <1>3 DEF HasJob, Kind, Governed, Policy, ExternalId, CallOK
<1>4. Course(c)' /\ Faithful(c)'
  BY DEF Course, Faithful, Before
<1>5. Passed(c)'
  BY DEF Passed
<1>6. Posting(c)' /\ Answered(c)'
  BY DEF Posting, Answered
<1> QED
  BY <1>4, <1>5, <1>6

-----------------------------------------------------------------------------
(* One lemma per action.                                                   *)

LEMMA StartStep ==
  ASSUME IInv, NEW c \in Callers, Start(c)
  PROVE  IInv'
<1>1. TypeOK' /\ CallOK(c) /\ call[c] \in CallType /\ call[c].pc = "idle"
  BY StartType DEF IInv, Start, TypeOK
<1>2. PICK r \in Requests[c] :
        /\ call'[c].req = r /\ call'[c].cause = call[c].cause
        /\ call'[c].pc = IF r.provider = "iagon" THEN (IF r.governed THEN "done" ELSE "create")
                         ELSE IF r.governed THEN "network" ELSE "prepare"
        /\ call'[c].answer = IF r.provider = "iagon" /\ r.governed THEN "error" ELSE call[c].answer
        /\ \A d \in Callers \ {c} : call'[d] = call[d]
  BY <1>1 DEF Start, IInv, TypeOK, CallType
<1>3. UNCHANGED <<job, poll, chain>>
  BY DEF Start, fireblocks
<1>4. CallOK(c)'
  <2>1. ~HasJob(c) /\ call[c].answer = "none" /\ call[c].cause = "none"
    BY <1>1 DEF CallOK, Course, Before
  <2>2. \/ /\ call'[c].pc = "done" /\ call'[c].answer = "error"
        \/ /\ call'[c].pc = "create" /\ ~r.governed /\ call'[c].answer = "none"
        \/ /\ call'[c].pc \in {"network", "prepare"} /\ r.provider # "iagon"
           /\ call'[c].answer = "none"
    <3>1. CASE r.provider = "iagon" /\ r.governed
      BY <1>2, <2>1, <3>1
    <3>2. CASE r.provider = "iagon" /\ ~r.governed
      BY <1>2, <2>1, <3>2
    <3>3. CASE r.provider # "iagon"
      BY <1>2, <2>1, <3>3
    <3> QED
      BY <3>1, <3>2, <3>3
  <2>7. call'[c].cause = "none" /\ call'[c].req = r /\ ~HasJob(c)' /\ job'[c] = job[c] /\ poll'[c] = poll[c]
    BY <1>2, <1>3, <2>1 DEF HasJob
  <2> USE <2>2, <2>7 DEF CallOK, Kind, Governed, Policy, ExternalId
  <2>3. Course(c)'
    BY DEF Course, BeforeCauses
  <2>4. Faithful(c)'
    BY <1>1 DEF Faithful, HasJob
  <2>5. Passed(c)'
    BY DEF Passed
  <2>6. Posting(c)' /\ Answered(c)'
    BY DEF Posting, Answered
  <2> QED
    BY <2>3, <2>4, <2>5, <2>6
<1> QED
  BY <1>1, <1>2, <1>3, <1>4, OnlyTheCall

LEMMA CheckNetworkStep ==
  ASSUME IInv, NEW c \in Callers, CheckNetwork(c)
  PROVE  IInv'
<1>1. TypeOK' /\ TypeOK /\ CallOK(c) /\ call[c].pc = "network" /\ UNCHANGED <<job, poll, chain>>
  BY OtherType DEF IInv, CheckNetwork, fireblocks
<1>2. CASE Goto(c, "prepare")
  <2>1. /\ call'[c] = [call[c] EXCEPT !.pc = "prepare"] /\ call[c] \in CallType
        /\ \A d \in Callers \ {c} : call'[d] = call[d]
    BY <1>1, <1>2, GotoEffect
  <2>2. /\ call'[c].pc = "prepare" /\ call'[c].req = call[c].req /\ call'[c].body = call[c].body
        /\ call'[c].answer = call[c].answer /\ call'[c].cause = call[c].cause
    BY <2>1 DEF CallType
  <2> USE <1>1, <2>2 DEF CallOK, HasJob, Kind, Governed, Policy, ExternalId
  <2>3. Course(c)' /\ Faithful(c)'
    BY DEF Course, Faithful, Before
  <2>4. Passed(c)'
    BY DEF Passed
  <2>5. Posting(c)' /\ Answered(c)'
    BY DEF Posting, Answered
  <2> QED
    BY <2>1, <2>3, <2>4, <2>5, OnlyTheCall
<1>3. CASE Fail(c, "network")
  <2>1. ~HasJob(c) /\ "network" \in Causes \ {"none", "preflight"}
    BY <1>1 DEF CallOK, Course, Before, Causes
  <2>2. CallOK(c)'
    BY <1>1, <1>3, <2>1, Failed
  <2> QED
    BY <1>1, <1>3, <2>2, FailEffect, OnlyTheCall
<1> QED
  BY <1>2, <1>3 DEF CheckNetwork

LEMMA PrepareStep ==
  ASSUME IInv, NEW c \in Callers, Prepare(c)
  PROVE  IInv'
<1>1. TypeOK' /\ TypeOK /\ CallOK(c) /\ call[c] \in CallType /\ call[c].pc = "prepare"
      /\ UNCHANGED <<job, poll, chain>>
  BY PrepareType DEF IInv, TypeOK, Prepare, fireblocks
<1>2. ~HasJob(c) /\ call[c].answer = "none" /\ call[c].cause = "none"
  BY <1>1 DEF CallOK, Course, Before
<1>3. ASSUME NEW sel \in Selections,
             call' = [call EXCEPT ![c].sel = sel, ![c].body = Build(call[c].req, sel),
                        ![c].pc = IF Governed(c) THEN "preflight" ELSE "create"]
      PROVE  IInv'
  <2>1. /\ call'[c].pc = (IF Governed(c) THEN "preflight" ELSE "create")
        /\ call'[c].req = call[c].req /\ call'[c].sel = sel
        /\ call'[c].body = Build(call[c].req, sel)
        /\ call'[c].answer = "none" /\ call'[c].cause = "none"
        /\ \A d \in Callers \ {c} : call'[d] = call[d]
    BY <1>1, <1>2, <1>3 DEF CallType, TypeOK
  <2> USE <1>1, <1>2, <2>1 DEF CallOK, HasJob, Kind, Governed, Policy, ExternalId
  <2>2. Course(c)' /\ Faithful(c)'
    BY DEF Course, Faithful
  <2>3. Passed(c)'
    BY DEF Passed
  <2>4. Posting(c)' /\ Answered(c)'
    BY DEF Posting, Answered
  <2> QED
    BY <2>2, <2>3, <2>4, OnlyTheCall
<1>4. CASE Fail(c, "prepare")
  <2>1. "prepare" \in Causes \ {"none", "preflight"}
    BY DEF Causes
  <2>2. CallOK(c)'
    BY <1>1, <1>2, <1>4, <2>1, Failed
  <2> QED
    BY <1>1, <1>4, <2>2, FailEffect, OnlyTheCall
<1> QED
  BY <1>3, <1>4 DEF Prepare

\* The preflight's recomputation agrees with what was built, for every request and
\* every selection: only the requirements and the network can fail.
LEMMA BuiltMatches ==
  ASSUME NEW req \in Asked, NEW sel \in Selections
  PROVE  LET body == Build(req, sel) IN
         /\ InputsMatch(body, sel) /\ OutputsMatch(body, req, sel)
         /\ AssetsPreserved(body, sel) /\ ValueConserved(body, req, sel)
<1> DEFINE body == Build(req, sel)
<1>1. req.amount \in Nat /\ sel.ada \in Nat /\ sel.fee \in Nat
  BY Amounts DEF Asked, NoRequest
<1>2. /\ body.inputs = sel.utxos /\ body.fee = sel.fee
      /\ Len(body.outputs) = 2
      /\ body.outputs[1] = [addr |-> req.recipient, ada |-> req.amount, assets |-> {}]
      /\ body.outputs[2] = [addr |-> Sender, ada |-> sel.ada - req.amount - sel.fee,
                            assets |-> sel.assets]
  BY DEF Build
<1>3. sel.ada = req.amount + sel.fee + (sel.ada - req.amount - sel.fee)
  BY <1>1
<1> HIDE DEF body
<1>4. InputsMatch(body, sel)
  BY <1>2 DEF InputsMatch
<1>5. OutputsMatch(body, req, sel) /\ AssetsPreserved(body, sel)
  BY <1>2 DEF OutputsMatch, AssetsPreserved
<1>6. ValueConserved(body, req, sel)
  BY <1>2, <1>3 DEF ValueConserved
<1> QED
  BY <1>4, <1>5, <1>6 DEF body

\* So what the preflight says of a built body is what the requirements say of it.
LEMMA PreflightIsWithin ==
  ASSUME NEW req \in Asked, NEW sel \in Selections
  PROVE  LET body == Build(req, sel) IN
         /\ PreflightPasses(req, sel, body) => Within(req, body)
         /\ ~PreflightPasses(req, sel, body) =>
              ~WellFormed(req.policy) \/ ~Within(req, body) \/ ~NetworksMatch(req)
<1> DEFINE body == Build(req, sel)
<1>1. /\ body.fee = sel.fee
      /\ body.outputs[1].addr = req.recipient /\ body.outputs[1].ada = req.amount
  BY DEF Build
<1>2. /\ InputsMatch(body, sel) /\ OutputsMatch(body, req, sel)
      /\ AssetsPreserved(body, sel) /\ ValueConserved(body, req, sel)
  BY BuiltMatches
<1> HIDE DEF body
<1>3. Within(req, body) /\ WellFormed(req.policy) /\ NetworksMatch(req)
        => PreflightPasses(req, sel, body)
  BY <1>1, <1>2 DEF PreflightPasses, Within
<1>4. PreflightPasses(req, sel, body) => Within(req, body)
  BY <1>1 DEF PreflightPasses, Within, NetworksMatch
<1> QED
  BY <1>3, <1>4 DEF body

LEMMA PreflightStep ==
  ASSUME IInv, NEW c \in Callers, Preflight(c)
  PROVE  IInv'
<1>1. TypeOK' /\ TypeOK /\ CallOK(c) /\ call[c] \in CallType /\ call[c].pc = "preflight"
      /\ UNCHANGED <<job, poll, chain>>
  BY OtherType DEF IInv, TypeOK, Preflight, fireblocks
<1>2. ~HasJob(c) /\ call[c].answer = "none" /\ call[c].cause = "none"
  BY <1>1 DEF CallOK, Course, Before
<1>3. call[c].req \in Asked /\ call[c].sel \in Selections /\ call[c].body = Build(call[c].req, call[c].sel)
  BY <1>1 DEF CallOK, Passed, CallType
<1>4. CASE PreflightPasses(call[c].req, call[c].sel, call[c].body)
  <2>1. Within(call[c].req, call[c].body) /\ Goto(c, "create")
    BY <1>3, <1>4, PreflightIsWithin DEF Preflight
  <2>2. /\ call'[c] = [call[c] EXCEPT !.pc = "create"]
        /\ \A d \in Callers \ {c} : call'[d] = call[d]
    BY <1>1, <2>1, GotoEffect
  <2>3. /\ call'[c].pc = "create" /\ call'[c].req = call[c].req /\ call'[c].body = call[c].body
        /\ call'[c].answer = "none" /\ call'[c].cause = "none"
    BY <1>1, <1>2, <2>2 DEF CallType
  <2> USE <1>1, <1>2, <2>3 DEF CallOK, HasJob, Kind, Governed, Policy, ExternalId
  <2>4. Course(c)' /\ Faithful(c)'
    BY DEF Course, Faithful
  <2>5. Passed(c)'
    <3>1. Within(call[c].req, call[c].body)'
      BY <2>1 DEF Within
    <3> QED
      BY <3>1 DEF Passed
  <2>6. Posting(c)' /\ Answered(c)'
    BY DEF Posting, Answered
  <2> QED
    BY <2>2, <2>4, <2>5, <2>6, OnlyTheCall
<1>5. CASE ~PreflightPasses(call[c].req, call[c].sel, call[c].body)
  <2>1. ~WellFormed(Policy(c)) \/ ~Within(call[c].req, call[c].body) \/ ~NetworksMatch(call[c].req)
    BY <1>3, <1>5, PreflightIsWithin DEF Policy
  <2>2. /\ call'[c] = [call[c] EXCEPT !.pc = "done", !.answer = "error", !.cause = "preflight"]
        /\ \A d \in Callers \ {c} : call'[d] = call[d]
    BY <1>1, <1>5, FailEffect DEF Preflight
  <2>3. /\ call'[c].pc = "done" /\ call'[c].req = call[c].req /\ call'[c].body = call[c].body
        /\ call'[c].answer = "error" /\ call'[c].cause = "preflight"
    BY <1>1, <2>2 DEF CallType
  <2> USE <1>1, <1>2, <2>3 DEF CallOK, HasJob, Kind, Governed, Policy, ExternalId
  <2>4. Course(c)' /\ Faithful(c)'
    BY DEF Course, Faithful
  <2>5. Passed(c)'
    BY <2>1 DEF Passed
  <2>6. Posting(c)' /\ Answered(c)'
    BY DEF Posting, Answered
  <2> QED
    BY <2>2, <2>4, <2>5, <2>6, OnlyTheCall
<1> QED
  BY <1>4, <1>5

LEMMA CreateStep ==
  ASSUME IInv, NEW c \in Callers, CreateJob(c)
  PROVE  IInv'
<1>1. TypeOK' /\ TypeOK /\ CallOK(c) /\ call[c] \in CallType /\ call[c].pc = "create"
      /\ UNCHANGED <<poll, chain>>
  BY CreateType DEF IInv, TypeOK, CreateJob
<1>2. ~HasJob(c) /\ call[c].answer = "none" /\ call[c].cause = "none"
  BY <1>1 DEF CallOK, Course, Before
<1>3. ASSUME Creatable(ExternalId(c)), Create(c, Kind(c), call[c].body, ExternalId(c)),
             Goto(c, "first") \/ Fail(c, "createLost")
      PROVE  IInv'
  <2>1. /\ job'[c].status = "SUBMITTED" /\ job'[c].kind = Kind(c)
        /\ job'[c].body = call[c].body /\ job'[c].ext = ExternalId(c)
        /\ \A d \in Callers \ {c} : job'[d] = job[d]
    BY <1>1, <1>3 DEF Create, TypeOK
  <2>2. /\ \/ call'[c] = [call[c] EXCEPT !.pc = "first"]
           \/ call'[c] = [call[c] EXCEPT !.pc = "done", !.answer = "error", !.cause = "createLost"]
        /\ \A d \in Callers \ {c} : call'[d] = call[d]
    BY <1>1, <1>3, GotoEffect, FailEffect
  <2>3. /\ call'[c].req = call[c].req /\ call'[c].body = call[c].body
        /\ \/ call'[c].pc = "first" /\ call'[c].answer = "none" /\ call'[c].cause = "none"
           \/ call'[c].pc = "done" /\ call'[c].answer = "error" /\ call'[c].cause = "createLost"
    BY <1>1, <1>2, <2>2 DEF CallType
  <2>4. CallOK(c)'
    <3>1. poll[c].status # "COMPLETED"
      BY <1>1, <1>2 DEF CallOK, Faithful, HasJob
    <3> USE <1>1, <1>2, <2>1, <2>3, <3>1 DEF CallOK, HasJob, Kind, Governed, Policy, ExternalId
    <3>2. Course(c)'
      BY DEF Course, Before, BeforeCauses
    <3>3. Faithful(c)'
      BY DEF Faithful
    <3>4. Passed(c)'
      <4>1. Governed(c) => Kind(c) = "raw" /\ Within(call[c].req, call[c].body)
        BY DEF Passed
      <4> QED
        BY <4>1 DEF Passed, Within
    <3>5. Posting(c)' /\ Answered(c)'
      BY DEF Posting, Answered
    <3> QED
      BY <3>2, <3>3, <3>4, <3>5
  <2>5. OneJobPerId'
    <3>1. ExternalId(c) = <<>> \/ \A d \in Callers : job[d].ext # ExternalId(c)
      BY <1>3 DEF Creatable
    <3> QED
      BY <2>1, <3>1 DEF OneJobPerId, IInv
  <2> QED
    BY <1>1, <2>1, <2>2, <2>4, <2>5, OneCallSteps
<1>4. CASE Fail(c, "create") /\ UNCHANGED job
  <2>1. "create" \in Causes \ {"none", "preflight"}
    BY DEF Causes
  <2>2. CallOK(c)'
    BY <1>1, <1>2, <1>4, <2>1, Failed
  <2> QED
    BY <1>1, <1>4, <2>2, FailEffect, OnlyTheCall
<1> QED
  BY <1>3, <1>4 DEF CreateJob

\* A read of the job's status, and what the call makes of it.
LEMMA PollStep ==
  ASSUME IInv, NEW c \in Callers, ReadFirst(c) \/ Poll(c)
  PROVE  IInv'
<1>1. TypeOK' /\ TypeOK /\ CallOK(c) /\ call[c] \in CallType
      /\ call[c].pc \in {"first", "poll"} /\ UNCHANGED <<job, chain>>
  BY PollType DEF IInv, TypeOK, ReadFirst, Poll
<1>2. HasJob(c) /\ call[c].answer = "none" /\ call[c].cause = "none"
  BY <1>1 DEF CallOK, Course
<1>3. poll'[c] = poll[c] \/ poll'[c].status = job[c].status
  BY <1>1 DEF ReadFirst, Poll, FirstRead, Read, TypeOK
<1>4. \A d \in Callers \ {c} : poll'[d] = poll[d]
  BY <1>1 DEF ReadFirst, Poll, FirstRead, Read, TypeOK
<1>5. OneJobPerId'
  BY <1>1 DEF IInv, OneJobPerId
<1>6. \/ UNCHANGED call \/ Goto(c, "poll")
      \/ Goto(c, "result") /\ job[c].status \in Finished
      \/ Fail(c, "pollFailed") \/ Fail(c, "deadline")
      \/ Fail(c, "jobFailed") /\ job[c].status \in Failing
  BY DEF ReadFirst, Poll
<1>7. ASSUME NEW pc \in {"first", "poll", "result"}, call'[c] = [call[c] EXCEPT !.pc = pc],
             pc = "result" => job[c].status \in Finished
      PROVE  CallOK(c)'
  <2>1. /\ call'[c].pc = pc /\ call'[c].req = call[c].req /\ call'[c].body = call[c].body
        /\ call'[c].answer = "none" /\ call'[c].cause = "none"
    BY <1>1, <1>2, <1>7 DEF CallType
  <2> USE <1>1, <1>2, <1>3, <1>7, <2>1 DEF CallOK, HasJob, Kind, Governed, Policy, ExternalId
  <2>2. Course(c)' /\ Faithful(c)'
    BY DEF Course, Faithful, Before, BeforeCauses, Finished, UnderWay
  <2>3. Passed(c)'
    BY DEF Passed
  <2>4. Posting(c)' /\ Answered(c)'
    BY DEF Posting, Answered
  <2> QED
    BY <2>2, <2>3, <2>4
<1>8. CASE UNCHANGED call
  <2>1. call'[c] = [call[c] EXCEPT !.pc = call[c].pc]
    BY <1>1, <1>8 DEF CallType
  <2>2. CallOK(c)'
    BY <1>1, <1>7, <2>1
  <2> QED
    BY <1>1, <1>4, <1>5, <1>8, <2>2, OneCallSteps
<1>9. ASSUME NEW pc \in {"poll", "result"}, Goto(c, pc), pc = "result" => job[c].status \in Finished
      PROVE  IInv'
  <2>1. /\ call'[c] = [call[c] EXCEPT !.pc = pc] /\ \A d \in Callers \ {c} : call'[d] = call[d]
    BY <1>1, <1>9, GotoEffect
  <2>2. CallOK(c)'
    BY <1>7, <1>9, <2>1
  <2> QED
    BY <1>1, <1>4, <1>5, <2>1, <2>2, OneCallSteps
<1>10. ASSUME NEW cause \in {"pollFailed", "deadline", "jobFailed"}, Fail(c, cause),
              cause = "jobFailed" => job[c].status \in Failing
       PROVE  IInv'
  <2>1. cause \in Causes \ {"none", "preflight"} /\ cause \notin BeforeCauses
        /\ cause \notin {"evidence", "refused"}
    BY <1>10 DEF Causes, BeforeCauses
  <2>2. cause = "jobFailed" => job[c].status = "FAILED"
    BY <1>10 DEF Failing
  <2>3. CallOK(c)'
    BY <1>1, <1>3, <1>10, <2>1, <2>2, Failed
  <2> QED
    BY <1>1, <1>4, <1>5, <1>10, <2>3, FailEffect, OneCallSteps
<1> QED
  BY <1>6, <1>8, <1>9, <1>10

LEMMA NativeResultStep ==
  ASSUME IInv, NEW c \in Callers, NativeResult(c)
  PROVE  IInv'
<1>1. TypeOK' /\ TypeOK /\ CallOK(c) /\ call[c] \in CallType
      /\ call[c].pc = "result" /\ Kind(c) = "transfer" /\ UNCHANGED <<job, poll, chain>>
  BY OtherType DEF IInv, TypeOK, NativeResult, fireblocks
<1>2. HasJob(c) /\ call[c].answer = "none" /\ call[c].cause = "none" /\ job[c].status \in UnderWay
  BY <1>1 DEF CallOK, Course, Faithful
<1>3. CASE Succeed(c)
  <2>1. /\ call'[c] = [call[c] EXCEPT !.pc = "done", !.answer = "ok"]
        /\ \A d \in Callers \ {c} : call'[d] = call[d]
    BY <1>1, <1>3, SucceedEffect
  <2>2. /\ call'[c].pc = "done" /\ call'[c].req = call[c].req /\ call'[c].body = call[c].body
        /\ call'[c].answer = "ok" /\ call'[c].cause = "none"
    BY <1>1, <1>2, <2>1 DEF CallType
  <2> USE <1>1, <1>2, <2>2 DEF CallOK, HasJob, Kind, Governed, Policy, ExternalId
  <2>3. Course(c)' /\ Faithful(c)'
    BY DEF Course, Faithful, Before, BeforeCauses
  <2>4. Passed(c)'
    BY DEF Passed
  <2>5. Posting(c)' /\ Answered(c)'
    BY DEF Posting, Answered
  <2> QED
    BY <2>1, <2>3, <2>4, <2>5, OnlyTheCall
<1>4. CASE Fail(c, "noHash")
  <2>1. "noHash" \in Causes \ {"none", "preflight"} /\ "noHash" \notin BeforeCauses
    BY DEF Causes, BeforeCauses
  <2>2. CallOK(c)'
    BY <1>1, <1>4, <2>1, Failed
  <2> QED
    BY <1>1, <1>4, <2>2, FailEffect, OnlyTheCall
<1> QED
  BY <1>3, <1>4 DEF NativeResult

\* What the evidence check lets through is vouched for.
LEMMA CheckEvidenceStep ==
  ASSUME IInv, NEW c \in Callers, CheckEvidence(c)
  PROVE  IInv'
<1>1. TypeOK' /\ TypeOK /\ CallOK(c) /\ call[c] \in CallType
      /\ call[c].pc = "result" /\ Kind(c) = "raw" /\ UNCHANGED <<job, poll, chain>>
  BY OtherType DEF IInv, TypeOK, CheckEvidence, fireblocks
<1>2. HasJob(c) /\ call[c].answer = "none" /\ call[c].cause = "none"
  BY <1>1 DEF CallOK, Course
<1>3. CASE Goto(c, "submit") /\ Correlated(c, job[c].evidence)
             /\ (Governed(c) => Authorized(Policy(c), job[c].evidence))
  <2>1. Governed(c) => Vouched(c)
    BY <1>1, <1>3 DEF Correlated, Vouched, CallOK, Faithful
  <2>2. /\ call'[c] = [call[c] EXCEPT !.pc = "submit"]
        /\ \A d \in Callers \ {c} : call'[d] = call[d]
    BY <1>1, <1>3, GotoEffect
  <2>3. /\ call'[c].pc = "submit" /\ call'[c].req = call[c].req /\ call'[c].body = call[c].body
        /\ call'[c].answer = "none" /\ call'[c].cause = "none"
    BY <1>1, <1>2, <2>2 DEF CallType
  <2> USE <1>1, <1>2, <2>3 DEF CallOK, HasJob, Kind, Governed, Policy, ExternalId
  <2>4. Course(c)' /\ Faithful(c)'
    BY DEF Course, Faithful, Before, BeforeCauses
  <2>5. Passed(c)'
    BY DEF Passed
  <2>6. Posting(c)' /\ Answered(c)'
    BY <2>1 DEF Posting, Answered, Vouched
  <2> QED
    BY <2>2, <2>4, <2>5, <2>6, OnlyTheCall
<1>4. CASE Fail(c, "evidence")
  <2>1. "evidence" \in Causes \ {"none", "preflight"} /\ "evidence" \notin BeforeCauses
    BY DEF Causes, BeforeCauses
  <2>2. CallOK(c)'
    BY <1>1, <1>4, <2>1, Failed
  <2> QED
    BY <1>1, <1>4, <2>2, FailEffect, OnlyTheCall
<1> QED
  BY <1>3, <1>4 DEF CheckEvidence

LEMMA SubmitStep ==
  ASSUME IInv, NEW c \in Callers, Submit(c)
  PROVE  IInv'
<1>1. TypeOK' /\ TypeOK /\ CallOK(c) /\ call[c] \in CallType
      /\ call[c].pc = "submit" /\ UNCHANGED <<job, poll>> /\ chain \subseteq chain'
  BY SubmitType DEF IInv, TypeOK, Submit, fireblocks
<1>2. HasJob(c) /\ call[c].answer = "none" /\ call[c].cause = "none"
      /\ Kind(c) = "raw" /\ (Governed(c) => Vouched(c))
  BY <1>1 DEF CallOK, Course, Posting
<1>3. OneJobPerId'
  BY <1>1 DEF IInv, OneJobPerId
<1>4. ASSUME chain' = chain \cup {[by |-> c, body |-> call[c].body]},
             Succeed(c) \/ Fail(c, "hashMismatch") \/ Fail(c, "submitLost")
      PROVE  IInv'
  <2>1. /\ \/ call'[c] = [call[c] EXCEPT !.pc = "done", !.answer = "ok"]
           \/ \E cause \in {"hashMismatch", "submitLost"} :
                call'[c] = [call[c] EXCEPT !.pc = "done", !.answer = "error", !.cause = cause]
        /\ \A d \in Callers \ {c} : call'[d] = call[d]
    BY <1>1, <1>4, SucceedEffect, FailEffect
  <2>2. /\ call'[c].pc = "done" /\ call'[c].req = call[c].req /\ call'[c].body = call[c].body
        /\ \/ call'[c].answer = "ok" /\ call'[c].cause = "none"
           \/ call'[c].answer = "error" /\ call'[c].cause \in {"hashMismatch", "submitLost"}
    BY <1>1, <1>2, <2>1 DEF CallType
  <2>3. CallOK(c)'
    <3> USE <1>1, <1>2, <1>4, <2>2 DEF CallOK, HasJob, Kind, Governed, Policy, ExternalId
    <3>1. Course(c)' /\ Faithful(c)'
      BY DEF Course, Faithful, Before, BeforeCauses
    <3>2. Passed(c)'
      BY DEF Passed
    <3>3. Posting(c)' /\ Answered(c)'
      BY DEF Posting, Answered
    <3> QED
      BY <3>1, <3>2, <3>3
  <2>4. ASSUME NEW p \in chain' \ chain PROVE OnChain(p)'
    <3>1. p.by = c /\ p.body = call[c].body
      BY <1>4
    <3> QED
      BY <1>1, <1>2, <2>2, <3>1 DEF OnChain, HasJob, Kind, Governed, Policy, Vouched
  <2> QED
    BY <1>1, <1>3, <2>1, <2>3, <2>4, OneCallSteps
<1>5. CASE chain' = chain /\ Fail(c, "refused")
  <2>1. "refused" \in Causes \ {"none", "preflight"} /\ "refused" \notin BeforeCauses
    BY DEF Causes, BeforeCauses
  <2>2. CallOK(c)'
    BY <1>1, <1>2, <1>5, <2>1, Failed
  <2> QED
    BY <1>1, <1>5, <2>2, FailEffect, OnlyTheCall
<1> QED
  BY <1>4, <1>5 DEF Submit

\* A job moves on by itself, and a completed one no more.
LEMMA JobMovesStep ==
  ASSUME IInv, NEW c \in Callers, JobMoves(c)
  PROVE  IInv'
<1>1. TypeOK' /\ TypeOK /\ CallOK(c) /\ UNCHANGED <<poll, call, chain>>
  BY JobMovesType DEF IInv, JobMoves, Progress
<1>2. PICK s \in Moves(job[c]), e \in Evidence :
        job' = [job EXCEPT ![c].status = s,
                  ![c].evidence = IF s = "COMPLETED" /\ job[c].kind = "raw" THEN e ELSE @]
  BY DEF JobMoves, Progress
<1>3. /\ job'[c].status = s /\ job'[c].body = job[c].body /\ job'[c].kind = job[c].kind
      /\ job'[c].ext = job[c].ext
      /\ \A d \in Callers \ {c} : job'[d] = job[d]
  BY <1>1, <1>2 DEF TypeOK, JobType
<1>4. /\ s \in Statuses \ {"none", "SUBMITTED"}
      /\ job[c].status \in {"SUBMITTED", "PENDING", "BROADCASTING", "CONFIRMING"}
      /\ job[c].status \in {"BROADCASTING", "CONFIRMING"} => s \in {"CONFIRMING", "COMPLETED", "FAILED"}
  BY MovesType
<1>5. CallOK(c)'
  <2> USE <1>1, <1>3, <1>4 DEF CallOK, HasJob, Kind, Governed, Policy, ExternalId
  <2>1. Course(c)' /\ Faithful(c)'
    BY DEF Course, Faithful, UnderWay
  <2>2. Passed(c)'
    BY DEF Passed, Within
  <2>3. Posting(c)' /\ Answered(c)'
    BY DEF Posting, Vouched, Answered, UnderWay
  <2> QED
    BY <2>1, <2>2, <2>3
<1>6. \A d \in Callers \ {c} : CallOK(d)'
  BY <1>1, <1>3, OthersKept DEF IInv
<1>7. ASSUME NEW p \in chain PROVE OnChain(p)'
  <2>1. OnChain(p) /\ p.by \in Callers
    BY DEF IInv, TypeOK
  <2>2. CASE p.by = c
    BY <1>1, <1>3, <1>4, <2>1, <2>2 DEF OnChain, HasJob, Kind, Governed, Policy, Vouched
  <2>3. CASE p.by # c
    BY <1>1, <1>3, <2>1, <2>3, ChainKept
  <2> QED
    BY <2>2, <2>3
<1>8. OneJobPerId'
  BY <1>3 DEF IInv, OneJobPerId
<1> QED
  BY <1>1, <1>5, <1>6, <1>7, <1>8 DEF IInv

\* The invariant is inductive.
LEMMA Inductive ==
  /\ Init => IInv
  /\ IInv /\ [Next]_vars => IInv'
<1>1. Init => IInv
  <2> SUFFICES ASSUME Init PROVE IInv
    OBVIOUS
  <2>1. ASSUME NEW c \in Callers PROVE CallOK(c)
    <3>1. /\ ~HasJob(c) /\ call[c].pc = "idle" /\ call[c].answer = "none" /\ call[c].cause = "none"
          /\ poll[c].status = "none" /\ ~Governed(c)
      BY DEF Init, JobsInit, NoJob, HasJob, Governed, NoRequest
    <3>2. Course(c) /\ Faithful(c)
      BY <3>1 DEF Course, Faithful, BeforeCauses
    <3>3. Passed(c) /\ Posting(c) /\ Answered(c)
      BY <3>1 DEF Passed, Posting, Answered
    <3> QED
      BY <3>2, <3>3 DEF CallOK
  <2>2. OneJobPerId
    BY DEF Init, JobsInit, NoJob, OneJobPerId
  <2> QED
    BY InitType, <2>1, <2>2 DEF Init, IInv
<1>2. IInv /\ UNCHANGED vars => IInv'
  <2> SUFFICES ASSUME IInv, UNCHANGED vars PROVE IInv'
    OBVIOUS
  <2>1. TypeOK' /\ OneJobPerId'
    BY DEF IInv, TypeOK, OneJobPerId, vars
  <2>2. \A c \in Callers : CallOK(c)'
    BY OthersKept DEF IInv, vars
  <2>3. \A p \in chain : OnChain(p)'
    BY ChainKept DEF IInv, vars
  <2> QED
    BY <2>1, <2>2, <2>3 DEF IInv, vars
<1>3. ASSUME IInv, NEW c \in Callers, Start(c) \/ Step(c) \/ JobMoves(c)
      PROVE  IInv'
  BY <1>3, StartStep, CheckNetworkStep, PrepareStep, PreflightStep, CreateStep, PollStep,
     NativeResultStep, CheckEvidenceStep, SubmitStep, JobMovesStep
  DEF Step
<1> QED
  BY <1>1, <1>2, <1>3 DEF Next

-----------------------------------------------------------------------------
(* Theorems.                                                               *)

\* The types are invariant.
THEOREM TypeCorrect == Spec => []TypeOK
<1>1. IInv => TypeOK
  BY DEF IInv
<1> QED
  BY <1>1, Inductive, PTL DEF Spec

\* Fireblocks is asked to sign a governed body only within its requirements, and a
\* governed transfer is paid only with the approvals and by the signers they name.
THEOREM OnlyAsAuthorizedInvariant == Spec => []OnlyAsAuthorized
<1>1. ASSUME IInv, NEW c \in Callers, Governed(c), job[c].status # "none"
      PROVE  Within(call[c].req, job[c].body)
  BY <1>1 DEF IInv, CallOK, Faithful, Passed, HasJob
<1>2. ASSUME IInv, NEW p \in chain, Governed(p.by)
      PROVE  LET e == job[p.by].evidence
                 approvers == {u \in UNION {DOMAIN e.groups[i].users : i \in DOMAIN e.groups} :
                                 \E i \in DOMAIN e.groups :
                                   u \in DOMAIN e.groups[i].users /\ e.groups[i].users[u] = "APPROVED"}
             IN /\ Within(call[p.by].req, p.body)
                /\ job[p.by].body = p.body /\ e.content = "hash"
                /\ Cardinality(approvers) >= Policy(p.by).minApprovals
                /\ Cardinality(e.signedBy) >= Policy(p.by).minSigners
                /\ \A s \in e.signedBy : \E i \in DOMAIN Policy(p.by).signers :
                     Policy(p.by).signers[i] = s
  <2> DEFINE e == job[p.by].evidence
             approvers == {u \in UNION {DOMAIN e.groups[i].users : i \in DOMAIN e.groups} :
                             \E i \in DOMAIN e.groups :
                               u \in DOMAIN e.groups[i].users /\ e.groups[i].users[u] = "APPROVED"}
  <2>1. p.by \in Callers /\ CallOK(p.by) /\ OnChain(p)
    BY <1>2 DEF IInv, TypeOK
  <2>2. job[p.by].body = p.body /\ Within(call[p.by].req, p.body)
    BY <1>2, <2>1 DEF CallOK, OnChain, Faithful, Passed
  <2>3. e.content = "hash" /\ Authorized(Policy(p.by), e)
    BY <1>2, <2>1 DEF OnChain, Vouched
  <2>4. approvers = UNION {Approved(e.groups[i]) : i \in DOMAIN e.groups}
    BY DEF Approved
  <2>5. Cardinality(approvers) >= Policy(p.by).minApprovals
    BY <2>3, <2>4 DEF Authorized
  <2>6. /\ Cardinality(e.signedBy) >= Policy(p.by).minSigners
        /\ e.signedBy \subseteq Range(Policy(p.by).signers)
    BY <2>3 DEF Authorized
  <2>7. \A s \in e.signedBy : \E i \in DOMAIN Policy(p.by).signers : Policy(p.by).signers[i] = s
    BY <2>6 DEF Range
  <2> QED
    BY <2>2, <2>3, <2>5, <2>6, <2>7
<1>3. IInv => OnlyAsAuthorized
  BY <1>1, <1>2 DEF OnlyAsAuthorized, SignedOnlyAfterPreflight, PaidAsAuthorized
<1> QED
  BY <1>3, Inductive, PTL DEF Spec

\* The preflight never refuses what the SDK itself built within the requirements.
THEOREM PreflightRefusesRequestsOnlyInvariant == Spec => []PreflightRefusesRequestsOnly
<1>1. IInv => PreflightRefusesRequestsOnly
  BY DEF IInv, CallOK, Passed, PreflightRefusesRequestsOnly
<1> QED
  BY <1>1, Inductive, PTL DEF Spec

\* Two bodies on the ledger never share a governed external id.
THEOREM OncePerExternalIdInvariant == Spec => []OncePerExternalId
<1>1. ASSUME IInv, NEW p \in chain, NEW q \in chain, Governed(p.by), Governed(q.by),
             Policy(p.by).ext = Policy(q.by).ext
      PROVE  p.by = q.by
  <2>1. p.by \in Callers /\ q.by \in Callers /\ HasJob(p.by) /\ HasJob(q.by)
    BY <1>1 DEF IInv, TypeOK, OnChain
  <2>2. job[p.by].ext = <<Policy(p.by).ext>> /\ job[q.by].ext = <<Policy(q.by).ext>>
    BY <1>1, <2>1 DEF IInv, CallOK, Faithful, ExternalId
  <2>3. job[p.by].ext = job[q.by].ext /\ job[p.by].ext # <<>>
    BY <1>1, <2>2
  <2> QED
    BY <1>1, <2>1, <2>3 DEF IInv, OneJobPerId
<1>2. IInv => OncePerExternalId
  BY <1>1 DEF OncePerExternalId
<1> QED
  BY <1>2, Inductive, PTL DEF Spec

\* A success is under way, and an error that pays is one of the few that leave the
\* outcome open.
THEOREM AnswersTellOfPaymentInvariant == Spec => []AnswersTellOfPayment
<1>1. IInv => AnsweredIsUnderWay
  BY DEF IInv, CallOK, Answered, AnsweredIsUnderWay, UnderWay
<1>2. ASSUME IInv, NEW c \in Callers, call[c].answer = "error", Pays(c) \/ \E p \in chain : p.by = c
      PROVE  call[c].cause \in {"createLost", "pollFailed", "deadline", "noHash", "submitLost",
                                "hashMismatch"}
  <2>1. CallOK(c) /\ call[c].cause \in Causes
    BY <1>2 DEF IInv, TypeOK, CallType
  <2>2. CASE Pays(c)
    <3>1. HasJob(c) /\ Kind(c) # "raw" /\ job[c].status # "FAILED"
      BY <2>1, <2>2 DEF Pays, HasJob, CallOK, Faithful
    <3> QED
      BY <1>2, <2>1, <3>1 DEF CallOK, Course, Faithful, Posting, Causes, BeforeCauses
  <2>3. CASE \E p \in chain : p.by = c
    BY <1>2, <2>3 DEF IInv, OnChain
  <2> QED
    BY <1>2, <2>2, <2>3
<1>3. IInv => AnswersTellOfPayment
  BY <1>1, <1>2 DEF AnswersTellOfPayment, ErrorsThatPay
<1> QED
  BY <1>3, Inductive, PTL DEF Spec
===============================================================================
