------------------------ MODULE ConsolidationProofs ------------------------
(***************************************************************************)
(* Theorems about Consolidation, for any calls, wallets and limits.        *)
(* They rest on where a body's UTxOs are: each batch spends UTxOs of a     *)
(* list that names none twice, so it merges at least two, and a body that  *)
(* a call has posted is reported as done, is still under way, or the call  *)
(* says that it does not know.  The first part is about lists without      *)
(* repetition, which the loop cuts into batches.                           *)
(***************************************************************************)
EXTENDS Consolidation, FiniteSetTheorems, TLAPS

-----------------------------------------------------------------------------
\* Lists without repetition

\* A list in which every UTxO has one place.
Injective(list) == list \in Seq(Range(list)) /\ IsInjective(list)

\* A list's places.
LEMMA Places ==
  ASSUME NEW list, list \in Seq(Range(list))
  PROVE  /\ Len(list) \in Nat /\ DOMAIN list = 1..Len(list)
         /\ IsFiniteSet(DOMAIN list)
         /\ Range(list) = {list[i] : i \in 1..Len(list)}
<1>1. Len(list) \in Nat /\ DOMAIN list = 1..Len(list)
  OBVIOUS
<1>2. IsFiniteSet(1..Len(list))
  BY <1>1, FS_Interval
<1> QED
  BY <1>1, <1>2 DEF Range

\* Leaving out a set of UTxOs keeps the others, each at one place: the k-th
\* place kept is the one with k places kept up to it.
LEMMA WithoutKeeps ==
  ASSUME NEW list, Injective(list), NEW S
  PROVE  Injective(Without(list, S)) /\ Range(Without(list, S)) = Range(list) \ S
<1> DEFINE kept == {i \in DOMAIN list : list[i] \notin S}
           upTo(i) == {j \in kept : j <= i}
           n == Cardinality(kept)
           Nth(k) == CHOOSE i \in kept : Cardinality({j \in kept : j <= i}) = k
           rank == [i \in kept |-> Cardinality(upTo(i))]
           out == [k \in 1..n |-> list[Nth(k)]]
<1>1. /\ DOMAIN list = 1..Len(list) /\ Len(list) \in Nat /\ IsFiniteSet(DOMAIN list)
      /\ kept \in SUBSET DOMAIN list
  BY Places DEF Injective
<1>2. IsFiniteSet(kept) /\ n \in Nat
  BY <1>1, FS_Subset, FS_CardinalityType
<1>3. Without(list, S) = out
  BY DEF Without
<1>4. ASSUME NEW i \in kept
      PROVE  upTo(i) \in SUBSET kept /\ IsFiniteSet(upTo(i)) /\ rank[i] \in 1..n
  <2>1. upTo(i) \in SUBSET kept /\ i \in upTo(i)
    BY <1>1
  <2>2. IsFiniteSet(upTo(i)) /\ Cardinality(upTo(i)) <= n
        /\ Cardinality(upTo(i)) \in Nat
    <3> HIDE DEF upTo
    <3>1. IsFiniteSet(upTo(i)) /\ Cardinality(upTo(i)) <= n
      BY <2>1, <1>2, FS_Subset
    <3> QED
      BY <3>1, FS_CardinalityType
  <2>3. Cardinality(upTo(i)) # 0
    <3> HIDE DEF upTo
    <3> QED
      BY <2>1, <2>2, FS_EmptySet
  <2>4. rank[i] = Cardinality(upTo(i))
    OBVIOUS
  <2> HIDE DEF upTo, rank
  <2> QED
    BY <1>2, <2>1, <2>2, <2>3, <2>4
<1>5. ASSUME NEW i \in kept, NEW k \in kept, i < k PROVE rank[i] # rank[k]
  <2>1. upTo(i) \in SUBSET upTo(k) /\ k \in upTo(k) /\ k \notin upTo(i)
    BY <1>1, <1>5
  <2>2. IsFiniteSet(upTo(k))
    BY <1>4
  <2>3. Cardinality(upTo(i)) # Cardinality(upTo(k))
    <3> HIDE DEF upTo
    <3> QED
      BY <2>1, <2>2, FS_Subset
  <2> QED
    BY <2>3
<1>6. rank \in Injection(kept, 1..n)
  <2>1. rank \in [kept -> 1..n]
    BY <1>4
  <2>2. ASSUME NEW i \in kept, NEW k \in kept, rank[i] = rank[k] PROVE i = k
    <3>1. i \in Nat /\ k \in Nat
      BY <1>1
    <3> HIDE DEF rank
    <3> QED
      BY <1>5, <2>2, <3>1
  <2>3. DOMAIN rank = kept
    OBVIOUS
  <2> HIDE DEF rank
  <2> QED
    BY <2>1, <2>2, <2>3 DEF Injection, IsInjective
<1>7. rank \in Surjection(kept, 1..n)
  <2>1. IsFiniteSet(1..n) /\ Cardinality(1..n) = n
    BY <1>2, FS_Interval
  <2> HIDE DEF rank
  <2> QED
    BY <1>6, <2>1, FS_Injection
<1>8. ASSUME NEW k \in 1..n PROVE Nth(k) \in kept /\ rank[Nth(k)] = k
  <2>1. \E i \in kept : rank[i] = k
    <3> HIDE DEF rank
    <3> QED
      BY <1>7 DEF Surjection
  <2>2. \E i \in kept : Cardinality({j \in kept : j <= i}) = k
    BY <2>1
  <2>3. Nth(k) \in kept /\ Cardinality({j \in kept : j <= Nth(k)}) = k
    BY <2>2
  <2> HIDE DEF kept, Nth
  <2> QED
    BY <2>3
<1> HIDE DEF rank, Nth
<1>9. ASSUME NEW i \in kept PROVE rank[i] \in 1..n /\ Nth(rank[i]) = i
  <2>1. rank[i] \in 1..n
    BY <1>4
  <2>2. Nth(rank[i]) \in kept /\ rank[Nth(rank[i])] = rank[i]
    BY <1>8, <2>1
  <2> QED
    BY <1>6, <2>1, <2>2 DEF Injection, IsInjective
<1> HIDE DEF n
<1>10. DOMAIN out = 1..n /\ \A k \in 1..n : out[k] = list[Nth(k)]
  OBVIOUS
<1> HIDE DEF out
<1>11. Range(out) = Range(list) \ S
  <2>1. ASSUME NEW k \in DOMAIN out PROVE out[k] \in Range(list) \ S
    BY <1>8, <1>10 DEF Range
  <2>2. ASSUME NEW u \in Range(list) \ S PROVE \E k \in DOMAIN out : out[k] = u
    <3>1. PICK i \in DOMAIN list : list[i] = u
      BY DEF Range
    <3>2. i \in kept
      BY <3>1
    <3> QED
      BY <1>9, <1>10, <3>1, <3>2
  <2> QED
    BY <2>1, <2>2 DEF Range
<1>12. out \in Seq(Range(out))
  <2>1. out = [k \in 1..n |-> out[k]] /\ \A k \in 1..n : out[k] \in Range(out)
    BY <1>10 DEF Range, out
  <2> QED
    BY <2>1, <1>2
<1>13. IsInjective(out)
  <2> SUFFICES ASSUME NEW k \in 1..n, NEW l \in 1..n, out[k] = out[l] PROVE k = l
    BY <1>10 DEF IsInjective
  <2>1. Nth(k) \in DOMAIN list /\ Nth(l) \in DOMAIN list
        /\ list[Nth(k)] = list[Nth(l)]
    BY <1>8, <1>10
  <2>2. Nth(k) = Nth(l)
    BY <2>1 DEF Injective, IsInjective
  <2> QED
    BY <1>8, <2>2
<1> QED
  BY <1>3, <1>11, <1>12, <1>13 DEF Injective

\* One more at the end of a list.
LEMMA AppendRange ==
  ASSUME NEW list, list \in Seq(Range(list)), NEW u
  PROVE  LET out == Append(list, u) IN
         /\ Range(out) = Range(list) \cup {u} /\ out \in Seq(Range(out))
         /\ DOMAIN out = 1..(Len(list) + 1) /\ out[Len(list) + 1] = u
         /\ \A i \in 1..Len(list) : out[i] = list[i]
<1> DEFINE out == Append(list, u)
           n == Len(list)
<1>1. n \in Nat /\ DOMAIN list = 1..n
  BY Places
<1>2. /\ out \in Seq(Range(list) \cup {u}) /\ DOMAIN out = 1..(n + 1)
      /\ \A i \in 1..n : out[i] = list[i]
      /\ out[n + 1] = u
  <2>1. list \in Seq(Range(list) \cup {u})
    BY <1>1
  <2> QED
    BY <2>1
<1> HIDE DEF out
<1>3. Range(out) = Range(list) \cup {u}
  <2>1. \A i \in 1..(n + 1) : i \in 1..n \/ i = n + 1
    BY <1>1
  <2>2. \A i \in 1..n : i \in 1..(n + 1)
    BY <1>1
  <2>3. n + 1 \in 1..(n + 1)
    BY <1>1
  <2> HIDE DEF n
  <2> QED
    BY <1>1, <1>2, <2>1, <2>2, <2>3 DEF Range
<1> QED
  BY <1>2, <1>3 DEF out

\* One more that was not there.
LEMMA AppendKeeps ==
  ASSUME NEW list, Injective(list), NEW u, u \notin Range(list)
  PROVE  Injective(Append(list, u)) /\ Range(Append(list, u)) = Range(list) \cup {u}
<1> DEFINE out == Append(list, u)
           n == Len(list)
<1>1. n \in Nat /\ DOMAIN list = 1..n
  BY Places DEF Injective
<1>2. /\ Range(out) = Range(list) \cup {u} /\ out \in Seq(Range(out))
      /\ DOMAIN out = 1..(n + 1) /\ out[n + 1] = u
      /\ \A i \in 1..n : out[i] = list[i]
  BY AppendRange DEF Injective
<1> HIDE DEF out
<1>3. IsInjective(out)
  <2> SUFFICES ASSUME NEW i \in 1..(n + 1), NEW k \in 1..(n + 1), out[i] = out[k]
               PROVE  i = k
    BY <1>2 DEF IsInjective
  <2>1. \A j \in 1..n : out[j] \in Range(list)
    BY <1>1, <1>2 DEF Range
  <2>2. CASE i \in 1..n /\ k \in 1..n
    BY <1>1, <1>2, <2>2 DEF Injective, IsInjective
  <2>3. CASE i = n + 1 \/ k = n + 1
    BY <1>1, <1>2, <2>1, <2>3
  <2> QED
    BY <1>1, <2>2, <2>3
<1> QED
  BY <1>2, <1>3 DEF Injective, out

\* Two are two.
LEMMA Pair ==
  ASSUME NEW x, NEW y, x # y
  PROVE  Cardinality({x, y}) = 2
<1>1. IsFiniteSet({x}) /\ Cardinality({x}) = 1
  BY FS_Singleton
<1>2. Cardinality({x} \cup {y}) =
        IF y \in {x} THEN Cardinality({x}) ELSE Cardinality({x}) + 1
  BY <1>1, FS_AddElement
<1>3. {x, y} = {x} \cup {y} /\ y \notin {x}
  OBVIOUS
<1> QED
  BY <1>1, <1>2, <1>3

\* The first two or more of a list without repetition are several UTxOs.
LEMMA FirstMerges ==
  ASSUME NEW list, Injective(list), Len(list) >= 2, NEW n \in Nat, n >= 2
  PROVE  Cardinality(Range(First(list, n))) >= 2
<1> DEFINE m == IF Len(list) < n THEN Len(list) ELSE n
           out == SubSeq(list, 1, m)
<1>1. Len(list) \in Nat /\ DOMAIN list = 1..Len(list)
  BY Places DEF Injective
<1>2. m \in 2..Len(list)
  BY <1>1
<1>3. /\ out \in Seq(Range(list)) /\ DOMAIN out = 1..m
      /\ \A i \in 1..m : out[i] = list[i]
  BY <1>1, <1>2 DEF Injective
<1> HIDE DEF out, m
<1>4. 1 \in 1..m /\ 2 \in 1..m /\ m \in Nat
  BY <1>1, <1>2
<1>5. out[1] \in Range(out) /\ out[2] \in Range(out)
  BY <1>3, <1>4 DEF Range
<1>6. out[1] # out[2]
  <2>1. 1 \in DOMAIN list /\ 2 \in DOMAIN list
    BY <1>1
  <2>2. list[1] # list[2]
    BY <2>1 DEF Injective, IsInjective
  <2> QED
    BY <1>3, <1>4, <2>2
<1>7. IsFiniteSet(Range(out))
  <2>1. out \in Surjection(1..m, Range(out))
    <3>1. out = [i \in 1..m |-> out[i]]
      BY <1>3
    <3> QED
      BY <1>3, <3>1 DEF Surjection, Range
  <2>2. IsFiniteSet(1..m)
    BY <1>4, FS_Interval
  <2> QED
    BY <2>1, <2>2, FS_Surjection
<1>8. Cardinality({out[1], out[2]}) = 2
  BY <1>6, Pair
<1>9. Cardinality({out[1], out[2]}) <= Cardinality(Range(out))
      /\ Cardinality(Range(out)) \in Nat
  BY <1>5, <1>7, FS_Subset, FS_CardinalityType
<1> QED
  BY <1>8, <1>9 DEF First, out, m

\* A list without repetition is as long as its UTxOs are many.
LEMMA InjectiveSize ==
  ASSUME NEW list, list \in Seq(Range(list)), IsInjective(list)
  PROVE  Cardinality(Range(list)) = Len(list)
<1>1. Len(list) \in Nat /\ DOMAIN list = 1..Len(list)
  BY Places
<1>2. list \in Bijection(1..Len(list), Range(list))
  BY <1>1 DEF Bijection, Injection, Surjection, Range
<1>3. IsFiniteSet(1..Len(list)) /\ Cardinality(1..Len(list)) = Len(list)
  BY <1>1, FS_Interval
<1>4. ExistsBijection(1..Len(list), Range(list))
  BY <1>2 DEF ExistsBijection
<1> QED
  BY <1>3, <1>4, FS_Bijection

-----------------------------------------------------------------------------
\* The inductive invariant

Merges(from) == Cardinality(from) >= 2
Whole(b) == Merges(b.from) /\ Balanced(b)

Early == {"idle", "read", "build", "sign"}
Asked == {"posting", "lookup"}
Ended == {"final", "done"}

\* The address lists each UTxO once: payments, and the outputs of the
\* consolidations on the chain.  What these spent, all of it older, is not
\* listed again, and what the mempool spends is listed and spent once.
Ledger ==
  /\ Injective(utxos)
  /\ \A u \in Range(utxos) : u.from = {} \/ u \in chain
  /\ \A t \in chain : t.from \cap Range(utxos) = {}
  /\ \A t \in chain : \A u \in t.from : u.from = {} \/ u \in chain
  /\ \A t \in mempool : t.from # {} /\ t.from \subseteq Range(utxos)
  /\ \A t, s \in mempool : t # s => t.from \cap s.from = {}

\* What a call holds at each point: a request, several inputs, a body.
IsCall(r) ==
  r = [pc |-> r.pc, req |-> r.req, inputs |-> r.inputs, posted |-> r.posted,
       done |-> r.done, body |-> r.body, partial |-> r.partial,
       cause |-> r.cause, answer |-> r.answer, lost |-> r.lost]
Holds(r) ==
  /\ IsCall(r) /\ r.pc \in Early \cup Asked \cup Ended
  /\ r.done \in Seq(Range(r.done))
  /\ r.pc \in {"read", "build", "sign"} \cup Asked => r.req \in Requests
  /\ r.pc = "build" => Merges(r.inputs)
  /\ r.pc \in {"sign"} \cup Asked => Whole(r.body)

\* How its report stands to what it posted: until it is asked about, a body
\* is posted only to be reported; one at most is not.  An error before the
\* final read has nothing to report.
Counted(r) ==
  /\ r.pc = "idle" => r.done = <<>>
  /\ r.pc \in Early => r.posted \subseteq Range(r.done)
  /\ r.pc \in Asked => r.posted \subseteq Range(r.done) \cup {r.body}
  /\ \E b : r.posted \subseteq Range(r.done) \cup {b}
  /\ r.pc \notin Ended => r.partial = "none"
  /\ r.pc = "done" /\ r.answer = "error" /\ r.cause # "read" =>
       r.done = <<>> /\ r.partial = "none"
  /\ r.lost \/ IsInjective(r.done)
  /\ r.pc = "lookup" => r.lost

CallsOK ==
  /\ call = [c \in Calls |-> call[c]]
  /\ \A c \in Calls : Holds(call[c]) /\ Counted(call[c])

OnWire(w) == /\ w = [by |-> w.by, body |-> w.body] /\ w.by \in Calls
             /\ w.body \in call[w.by].posted /\ Whole(w.body)

\* What is reported is accepted, what is accepted was posted by some call, and
\* if a POST under way was accepted before, another call posted it.
Posts ==
  /\ \A w \in wire : OnWire(w)
  /\ \A c \in Calls : Range(call[c].done) \subseteq Accepted
  /\ \A b \in Accepted : \E c \in Calls : b \in call[c].posted
  /\ \A w \in wire : w.body \in Accepted /\ w.body \notin Range(call[w.by].done) =>
       \E d \in Calls \ {w.by} : w.body \in call[d].posted

\* The bodies only this call posted, that are accepted or may still be, and
\* that it does not report.
Open(c) == {b \in call[c].posted \ Range(call[c].done) :
              /\ b \in Accepted \/ [by |-> c, body |-> b] \in wire
              /\ \A d \in Calls \ {c} : b \notin call[d].posted}

\* A call that ends with one says that its fate is unknown.
Tells(r) == /\ r.pc = "final" => r.partial = "unknown"
            /\ r.pc = "done" => r.partial = "unknown" \/ r.cause = "unknown"
Closed == \A c \in Calls : Open(c) = {} \/ Tells(call[c])

Inv == /\ Ledger /\ Injective(shown.list) /\ EveryBatchMerges
       /\ CallsOK /\ Posts /\ Closed

-----------------------------------------------------------------------------
\* What the calls' small steps do

\* The end of a call.
LEMMA ReturnIs ==
  ASSUME NEW r, IsCall(r), NEW a, NEW k
  PROVE  LET s == Return(r, a, k) IN
         /\ IsCall(s) /\ s.pc = "done" /\ s.answer = a /\ s.cause = k
         /\ s.posted = r.posted /\ s.done = r.done /\ s.partial = r.partial
         /\ s.lost = r.lost
<1> DEFINE s == Return(r, a, k)
<1>1. s = [r EXCEPT !.pc = "done", !.answer = a, !.cause = k, !.inputs = {},
                    !.body = Idle.body]
  BY DEF Return
<1>2. s = [pc |-> "done", req |-> r.req, inputs |-> {}, posted |-> r.posted,
           done |-> r.done, body |-> Idle.body, partial |-> r.partial,
           cause |-> k, answer |-> a, lost |-> r.lost]
  BY <1>1 DEF IsCall
<1> HIDE DEF s
<1> QED
  BY <1>2 DEF IsCall, s

\* A batch that fails.
LEMMA StopIs ==
  ASSUME NEW r, IsCall(r), NEW k
  PROVE  LET s == Stop(r, k) IN
         /\ IsCall(s) /\ s.posted = r.posted /\ s.done = r.done /\ s.lost = r.lost
         /\ r.done = <<>> => /\ s.pc = "done" /\ s.answer = "error" /\ s.cause = k
                             /\ s.partial = r.partial
         /\ r.done # <<>> => s.pc = "final" /\ s.partial = k
<1>1. CASE r.done = <<>>
  BY <1>1, ReturnIs DEF Stop
<1>2. CASE r.done # <<>>
  <2> DEFINE s == Stop(r, k)
  <2>0. s = [r EXCEPT !.pc = "final", !.partial = k]
    BY <1>2 DEF Stop
  <2> HIDE DEF s
  <2>1. s = [pc |-> "final", req |-> r.req, inputs |-> r.inputs, posted |-> r.posted,
             done |-> r.done, body |-> r.body, partial |-> k,
             cause |-> r.cause, answer |-> r.answer, lost |-> r.lost]
    BY <2>0 DEF IsCall
  <2> QED
    BY <1>2, <2>1 DEF IsCall, s
<1> QED
  BY <1>1, <1>2

\* A batch that succeeds.
LEMMA SucceedIs ==
  ASSUME NEW r, IsCall(r)
  PROVE  LET s == Succeed(r) IN
         /\ IsCall(s) /\ s.pc \in {"read", "final", "done"}
         /\ s.posted = r.posted /\ s.done = Append(r.done, r.body)
         /\ s.lost = r.lost /\ s.partial = r.partial /\ s.req = r.req
         /\ s.pc = "done" => s.answer = "ok"
<1> DEFINE done == Append(r.done, r.body)
<1>1. CASE ~r.req.batched
  <2> DEFINE q == [r EXCEPT !.done = done]
  <2>1. PICK p : p = q
    OBVIOUS
  <2>2. Succeed(r) = Return(p, "ok", "none")
    BY <1>1, <2>1 DEF Succeed
  <2>3. p = [r EXCEPT !.done = done]
    BY <2>1
  <2> HIDE DEF q, done
  <2>4. p = [pc |-> r.pc, req |-> r.req, inputs |-> r.inputs, posted |-> r.posted,
             done |-> done, body |-> r.body, partial |-> r.partial,
             cause |-> r.cause, answer |-> r.answer, lost |-> r.lost]
    BY <2>3 DEF IsCall
  <2>5. IsCall(p)
    BY <2>4 DEF IsCall
  <2>6. Return(p, "ok", "none").req = p.req
    BY <2>4 DEF Return
  <2>7. /\ IsCall(Return(p, "ok", "none"))
        /\ Return(p, "ok", "none").pc = "done"
        /\ Return(p, "ok", "none").answer = "ok"
        /\ Return(p, "ok", "none").posted = p.posted
        /\ Return(p, "ok", "none").done = p.done
        /\ Return(p, "ok", "none").partial = p.partial
        /\ Return(p, "ok", "none").lost = p.lost
    BY <2>5, ReturnIs
  <2>8. /\ p.posted = r.posted /\ p.done = done /\ p.partial = r.partial
        /\ p.lost = r.lost /\ p.req = r.req
    BY <2>4
  <2> QED
    BY <2>2, <2>6, <2>7, <2>8 DEF done
<1>2. CASE r.req.batched
  <2> DEFINE pc == IF Len(done) = r.req.max THEN "final" ELSE "read"
             s == Succeed(r)
  <2>1. s = [r EXCEPT !.done = done, !.pc = pc]
    BY <1>2 DEF Succeed
  <2>2. pc \in {"read", "final"}
    OBVIOUS
  <2> HIDE DEF s, done, pc
  <2>3. s = [pc |-> pc, req |-> r.req, inputs |-> r.inputs, posted |-> r.posted,
             done |-> done, body |-> r.body, partial |-> r.partial,
             cause |-> r.cause, answer |-> r.answer, lost |-> r.lost]
    BY <2>1 DEF IsCall
  <2> QED
    BY <2>2, <2>3 DEF IsCall, done, s
<1> QED
  BY <1>1, <1>2

\* The calls' other updates.
Asking(r, x) == [r EXCEPT !.req = x]
At(r, x) == [r EXCEPT !.pc = x]
Building(r, x) == [r EXCEPT !.pc = "build", !.inputs = x]
Signing(r, x) == [r EXCEPT !.pc = "sign", !.body = x, !.inputs = {}]
Posting(r, x) == [r EXCEPT !.pc = "posting", !.posted = x]
LookingUp(r) == [r EXCEPT !.pc = "lookup", !.lost = TRUE]

\* What they leave alone.
KeepsReport(s, r) == /\ IsCall(s) /\ s.done = r.done /\ s.partial = r.partial
                     /\ s.cause = r.cause /\ s.answer = r.answer

\* They change what they name, and no report.
LEMMA UpdateIs ==
  ASSUME NEW r, IsCall(r), NEW x
  PROVE  /\ LET s == Asking(r, x) IN
            /\ KeepsReport(s, r) /\ s.pc = r.pc /\ s.req = x
            /\ s.posted = r.posted /\ s.lost = r.lost
         /\ LET s == At(r, x) IN
            /\ KeepsReport(s, r) /\ s.pc = x /\ s.req = r.req
            /\ s.posted = r.posted /\ s.lost = r.lost
         /\ LET s == Building(r, x) IN
            /\ KeepsReport(s, r) /\ s.req = r.req /\ s.pc = "build"
            /\ s.inputs = x /\ s.posted = r.posted /\ s.lost = r.lost
         /\ LET s == Signing(r, x) IN
            /\ KeepsReport(s, r) /\ s.req = r.req /\ s.pc = "sign"
            /\ s.body = x /\ s.posted = r.posted /\ s.lost = r.lost
         /\ LET s == Posting(r, x) IN
            /\ KeepsReport(s, r) /\ s.req = r.req /\ s.pc = "posting"
            /\ s.body = r.body /\ s.posted = x /\ s.lost = r.lost
         /\ LET s == LookingUp(r) IN
            /\ KeepsReport(s, r) /\ s.req = r.req /\ s.pc = "lookup"
            /\ s.body = r.body /\ s.posted = r.posted /\ s.lost
<1> DEFINE All(pc, req, inputs, posted, body, lost) ==
             [pc |-> pc, req |-> req, inputs |-> inputs, posted |-> posted,
              done |-> r.done, body |-> body, partial |-> r.partial,
              cause |-> r.cause, answer |-> r.answer, lost |-> lost]
<1>1. ASSUME NEW s, s = Asking(r, x)
     PROVE  s = All(r.pc, x, r.inputs, r.posted, r.body, r.lost)
  BY <1>1 DEF IsCall, Asking
<1>2. ASSUME NEW s, s = At(r, x)
     PROVE  s = All(x, r.req, r.inputs, r.posted, r.body, r.lost)
  BY <1>2 DEF IsCall, At
<1>3. ASSUME NEW s, s = Building(r, x)
     PROVE  s = All("build", r.req, x, r.posted, r.body, r.lost)
  BY <1>3 DEF IsCall, Building
<1>4. ASSUME NEW s, s = Signing(r, x)
     PROVE  s = All("sign", r.req, {}, r.posted, x, r.lost)
  BY <1>4 DEF IsCall, Signing
<1>5. ASSUME NEW s, s = Posting(r, x)
     PROVE  s = All("posting", r.req, r.inputs, x, r.body, r.lost)
  BY <1>5 DEF IsCall, Posting
<1>6. ASSUME NEW s, s = LookingUp(r)
     PROVE  s = All("lookup", r.req, r.inputs, r.posted, r.body, TRUE)
  BY <1>6 DEF IsCall, LookingUp
<1> QED
  BY <1>1, <1>2, <1>3, <1>4, <1>5, <1>6 DEF KeepsReport, IsCall

\* A step of one call that leaves the network alone keeps the invariant if
\* the call's part of it holds after the step, its report has grown only by
\* what was accepted, and it ends with an open body only if it says so.
LEMMA CallMoves ==
  ASSUME Inv, NEW c \in Calls, NEW s,
         UNCHANGED <<netVars, wire>>, call' = [call EXCEPT ![c] = s],
         Holds(s), Counted(s), s.posted = call[c].posted,
         Range(call[c].done) \subseteq Range(s.done),
         Range(s.done) \subseteq Accepted,
         Open(c) \ Range(s.done) = {} \/ Tells(s)
  PROVE  Inv'
<1>1. call'[c] = s /\ \A d \in Calls \ {c} : call'[d] = call[d]
  BY DEF Inv, CallsOK
<1>2. call' = [d \in Calls |-> call'[d]]
  BY DEF Inv, CallsOK
<1>3. /\ UNCHANGED <<utxos, mempool, chain, shown, wire>>
      /\ Accepted' = Accepted
  BY DEF netVars, Accepted
<1>4. Ledger' /\ Injective(shown.list)' /\ EveryBatchMerges'
  BY <1>3 DEF Inv, Ledger, EveryBatchMerges
<1>5. CallsOK'
  BY <1>1, <1>2 DEF Inv, CallsOK
<1>6. /\ \A d \in Calls : call'[d].posted = call[d].posted
      /\ \A d \in Calls : Range(call[d].done) \subseteq Range(call'[d].done)
  BY <1>1
<1>7. Posts'
  <2>1. \A w \in wire : OnWire(w)'
    BY <1>6 DEF Inv, Posts, OnWire
  <2>2. \A d \in Calls : Range(call'[d].done) \subseteq Accepted
    BY <1>1 DEF Inv, Posts
  <2> QED
    BY <1>3, <1>6, <2>1, <2>2 DEF Inv, Posts, OnWire
<1>8. Closed'
  <2> SUFFICES ASSUME NEW d \in Calls PROVE Open(d)' = {} \/ Tells(call'[d])
    BY DEF Closed
  <2>1. Open(d)' = Open(d) \ Range(call'[d].done)
    BY <1>3, <1>6 DEF Open
  <2>2. CASE d = c
    BY <1>1, <2>1, <2>2
  <2>3. CASE d # c
    BY <1>1, <2>1, <2>3 DEF Inv, Closed
  <2> QED
    BY <2>2, <2>3
<1> QED
  BY <1>4, <1>5, <1>7, <1>8 DEF Inv

-----------------------------------------------------------------------------
\* The calls' steps

\* A call that reports all it posted has nothing open.
LEMMA NothingOpen ==
  ASSUME NEW c \in Calls, call[c].posted \subseteq Range(call[c].done)
  PROVE  Open(c) = {}
  BY DEF Open

\* A batch that fails ends the call with what was done before.
LEMMA StopHolds ==
  ASSUME NEW r, Holds(r), Counted(r), r.pc \notin Ended, NEW k
  PROVE  LET s == Stop(r, k) IN
         /\ Holds(s) /\ Counted(s) /\ s.posted = r.posted /\ s.done = r.done
         /\ k = "unknown" => Tells(s)
<1> DEFINE s == Stop(r, k)
<1>1. /\ IsCall(s) /\ s.posted = r.posted /\ s.done = r.done /\ s.lost = r.lost
      /\ r.done = <<>> => /\ s.pc = "done" /\ s.answer = "error" /\ s.cause = k
                          /\ s.partial = r.partial
      /\ r.done # <<>> => s.pc = "final" /\ s.partial = k
  BY StopIs DEF Holds
<1> HIDE DEF s
<1>2. Holds(s)
  BY <1>1 DEF Holds, Ended, Early, Asked
<1>3. Counted(s)
  <2>1. r.partial = "none" /\ (r.lost \/ IsInjective(r.done))
        /\ \E b : r.posted \subseteq Range(r.done) \cup {b}
    BY DEF Counted
  <2>2. s.pc \in Ended /\ s.pc # "idle" /\ s.pc # "lookup" /\ s.pc \notin Early
        /\ s.pc \notin Asked
    BY <1>1 DEF Ended, Early, Asked
  <2> QED
    BY <1>1, <2>1, <2>2 DEF Counted
<1>4. k = "unknown" => Tells(s)
  BY <1>1 DEF Tells
<1> QED
  BY <1>1, <1>2, <1>3, <1>4 DEF s

\* It fails before or without an answer.
LEMMA StopStep ==
  ASSUME Inv, NEW c \in Calls, NEW k, call[c].pc \notin Ended,
         UNCHANGED <<netVars, wire>>, call' = [call EXCEPT ![c] = Stop(call[c], k)],
         Open(c) = {} \/ k = "unknown"
  PROVE  Inv'
<1> DEFINE r == call[c]
           s == Stop(r, k)
<1>1. Holds(r) /\ Counted(r) /\ Range(r.done) \subseteq Accepted
  BY DEF Inv, CallsOK, Posts
<1>2. /\ Holds(s) /\ Counted(s) /\ s.posted = r.posted /\ s.done = r.done
      /\ k = "unknown" => Tells(s)
  BY <1>1, StopHolds
<1>3. call' = [call EXCEPT ![c] = s]
  OBVIOUS
<1> HIDE DEF s
<1> QED
  BY <1>1, <1>2, <1>3, CallMoves

\* The first read.
LEMMA StartStep == ASSUME Inv, NEW c \in Calls, Start(c) PROVE Inv'
<1> DEFINE q == call[c]
           list == First(Without(shown.list, locked), MaxInputs)
<1>1. PICK req \in Requests :
        LET r == [q EXCEPT !.req = req] IN
        call' = [call EXCEPT ![c] =
          IF TooFew(list, req) THEN Return(r, "error", "insufficient")
          ELSE IF req.batched THEN [r EXCEPT !.pc = "read"]
          ELSE [r EXCEPT !.pc = "build", !.inputs = Range(list)]]
  BY DEF Start, Set
<1>2. q.pc = "idle" /\ UNCHANGED <<netVars, wire>>
  BY DEF Start
<1>3. IsCall(q) /\ Holds(q) /\ Counted(q)
  BY DEF Inv, CallsOK, Holds
<1>4. q.done = <<>> /\ q.posted = {} /\ q.partial = "none"
  <2>1. q.done = <<>> /\ q.posted \subseteq Range(q.done) /\ q.partial = "none"
    BY <1>2, <1>3 DEF Counted, Early, Ended
  <2>2. Range(<<>>) = {}
    BY DEF Range
  <2> QED
    BY <2>1, <2>2
<1>5. PICK p : p = Asking(q, req)
  OBVIOUS
<1>6. KeepsReport(p, q) /\ p.req = req /\ p.posted = q.posted /\ p.lost = q.lost
  BY <1>3, <1>5, UpdateIs
<1>7. \E s :
        /\ call' = [call EXCEPT ![c] = s]
        /\ \/ s = Return(p, "error", "insufficient")
           \/ s = At(p, "read")
           \/ /\ s = Building(p, Range(list))
              /\ ~TooFew(list, req)
  <2> HIDE DEF q, list
  <2> QED
    BY <1>1, <1>5 DEF Asking, At, Building
<1>8. ~TooFew(list, req) => Merges(Range(list))
  <2> SUFFICES ASSUME ~TooFew(list, req) PROVE Merges(Range(list))
    OBVIOUS
  <2> DEFINE L == Without(shown.list, locked)
  <2>1. Injective(L)
    BY WithoutKeeps DEF Inv
  <2>2. req.min \in Nat /\ req.min >= 2 /\ MaxInputs \in Nat /\ MaxInputs >= 2
    BY RequestTypes, Limits
  <2> HIDE DEF L
  <2>3. Len(L) \in Nat /\ L \in Seq(Range(L))
    BY <2>1, Places DEF Injective
  <2>4. Len(First(L, MaxInputs)) = IF Len(L) < MaxInputs THEN Len(L) ELSE MaxInputs
    BY <2>2, <2>3 DEF First
  <2>5. ~(Len(First(L, MaxInputs)) < req.min)
    BY DEF TooFew, L
  <2>6. Len(L) >= 2
    BY <2>2, <2>3, <2>4, <2>5
  <2> QED
    BY <2>1, <2>2, <2>6, FirstMerges DEF Merges, L
<1>9. PICK s :
        /\ call' = [call EXCEPT ![c] = s]
        /\ \/ s = Return(p, "error", "insufficient")
           \/ s = At(p, "read")
           \/ /\ s = Building(p, Range(list))
              /\ ~TooFew(list, req)
  BY <1>7
<1> HIDE DEF list
<1>10. /\ IsCall(s) /\ s.pc \in {"read", "build", "done"}
       /\ s.posted = {} /\ s.done = <<>> /\ s.partial = "none" /\ s.lost = q.lost
       /\ s.pc \in {"read", "build"} => s.req \in Requests
       /\ s.pc = "build" => Merges(s.inputs)
  <2>1. IsCall(p) /\ p.posted = {} /\ p.done = <<>> /\ p.partial = "none"
        /\ p.lost = q.lost /\ p.req \in Requests
    BY <1>4, <1>6 DEF KeepsReport
  <2>2. CASE s = Return(p, "error", "insufficient")
    BY <2>1, <2>2, ReturnIs
  <2>3. CASE s = At(p, "read")
    <3>1. KeepsReport(s, p) /\ s.pc = "read" /\ s.req = p.req
          /\ s.posted = p.posted /\ s.lost = p.lost
      BY <2>1, <2>3, UpdateIs
    <3> QED
      BY <2>1, <3>1 DEF KeepsReport
  <2>4. CASE s = Building(p, Range(list))
             /\ ~TooFew(list, req)
    <3>1. KeepsReport(s, p) /\ s.req = p.req /\ s.pc = "build"
          /\ s.inputs = Range(list) /\ s.posted = p.posted /\ s.lost = p.lost
      BY <2>1, <2>4, UpdateIs
    <3> QED
      BY <1>8, <2>1, <2>4, <3>1 DEF KeepsReport
  <2> QED
    BY <1>9, <2>2, <2>3, <2>4
<1>11. Holds(s)
  BY <1>10 DEF Holds, Early, Asked, Ended
<1>12. Counted(s)
  <2>1. IsInjective(<<>>)
    BY DEF IsInjective
  <2> QED
    BY <1>10, <2>1 DEF Counted, Early, Asked, Ended
<1>13. Range(s.done) = Range(q.done) /\ Range(s.done) \subseteq Accepted
       /\ Open(c) = {} /\ s.posted = q.posted
  BY <1>4, <1>10, NothingOpen DEF Inv, Posts
<1> QED
  BY <1>2, <1>9, <1>11, <1>12, <1>13, CallMoves

\* The read of a batch.
LEMMA ReadBatchStep == ASSUME Inv, NEW c \in Calls, ReadBatch(c) PROVE Inv'
<1> DEFINE r == call[c]
<1>1. /\ r.pc = "read" /\ UNCHANGED <<netVars, wire>>
      /\ call' = [call EXCEPT ![c] =
           IF ~TooFew(shown.list, r.req)
           THEN [r EXCEPT !.pc = "build",
                          !.inputs = Range(First(shown.list, r.req.size))]
           ELSE IF r.done = <<>> THEN Return(r, "error", "insufficient")
           ELSE [r EXCEPT !.pc = "final"]]
  BY DEF ReadBatch, Set
<1>2. IsCall(r) /\ Holds(r) /\ Counted(r) /\ Range(r.done) \subseteq Accepted
  BY DEF Inv, CallsOK, Posts, Holds
<1>3. r.posted \subseteq Range(r.done) /\ r.partial = "none"
      /\ (r.lost \/ IsInjective(r.done)) /\ r.req \in Requests
      /\ r.done \in Seq(Range(r.done))
  BY <1>1, <1>2 DEF Counted, Holds, Early, Ended
<1>4. Open(c) = {}
  BY <1>3, NothingOpen
<1>5. CASE TooFew(shown.list, r.req) /\ r.done = <<>>
  <2>1. Stop(r, "insufficient") = Return(r, "error", "insufficient")
    BY <1>5 DEF Stop
  <2>2. call' = [call EXCEPT ![c] = Stop(r, "insufficient")]
    BY <1>1, <1>5, <2>1
  <2>3. r.pc \notin Ended
    BY <1>1 DEF Ended
  <2> QED
    BY <1>1, <1>4, <2>2, <2>3, StopStep
<1>6. CASE ~(TooFew(shown.list, r.req) /\ r.done = <<>>)
  <2>3. ~TooFew(shown.list, r.req) => Merges(Range(First(shown.list, r.req.size)))
    <3>1. r.req.min \in Nat /\ r.req.min >= 2 /\ r.req.size \in Nat /\ r.req.size >= 2
      BY <1>3, RequestTypes
    <3>2. Len(shown.list) \in Nat
      BY Places DEF Inv, Injective
    <3> QED
      BY <3>1, <3>2, FirstMerges DEF Inv, TooFew, Merges
  <2>4. \E s :
          /\ call' = [call EXCEPT ![c] = s]
          /\ \/ s = At(r, "final")
             \/ \E x : s = Building(r, x) /\ Merges(x)
    <3> HIDE DEF r
    <3> QED
      BY <1>1, <1>6, <2>3 DEF At, Building
  <2>5. PICK s :
          /\ call' = [call EXCEPT ![c] = s]
          /\ \/ s = At(r, "final")
             \/ \E x : s = Building(r, x) /\ Merges(x)
    BY <2>4
  <2>6. /\ IsCall(s) /\ s.pc \in {"build", "final"} /\ s.posted = r.posted
        /\ s.done = r.done /\ s.partial = r.partial /\ s.lost = r.lost
        /\ s.pc = "build" => Merges(s.inputs) /\ s.req = r.req
    <3>1. CASE s = At(r, "final")
      BY <1>2, <3>1, UpdateIs DEF KeepsReport
    <3>2. ASSUME NEW x, s = Building(r, x), Merges(x)
          PROVE  KeepsReport(s, r) /\ s.req = r.req /\ s.pc = "build" /\ s.inputs = x
                   /\ s.posted = r.posted /\ s.lost = r.lost
      BY <1>2, <3>2, UpdateIs
    <3> QED
      BY <2>5, <3>1, <3>2 DEF KeepsReport
  <2>7. Holds(s)
    BY <1>3, <2>6 DEF Holds, Early, Asked, Ended
  <2>8. Counted(s)
    BY <1>3, <2>6 DEF Counted, Early, Asked, Ended
  <2> QED
    BY <1>1, <1>2, <1>4, <2>5, <2>6, <2>7, <2>8, CallMoves
<1> QED
  BY <1>5, <1>6

\* What the invariant says of one call.
LEMMA CallFacts ==
  ASSUME Inv, NEW c \in Calls
  PROVE  /\ IsCall(call[c]) /\ Holds(call[c]) /\ Counted(call[c])
         /\ Range(call[c].done) \subseteq Accepted
         /\ Open(c) = {} \/ Tells(call[c])
  BY DEF Inv, CallsOK, Posts, Closed, Holds

\* A call ends: it was early, or had its report ready.
LEMMA ReturnStep ==
  ASSUME Inv, NEW c \in Calls, NEW a, NEW k,
         UNCHANGED <<netVars, wire>>,
         call' = [call EXCEPT ![c] = Return(call[c], a, k)],
         call[c].pc \in Early \cup {"final"}, a = "error" => k = "read"
  PROVE  Inv'
<1> DEFINE r == call[c]
           s == Return(r, a, k)
<1>1. IsCall(r) /\ Holds(r) /\ Counted(r) /\ Range(r.done) \subseteq Accepted
      /\ (Open(c) = {} \/ Tells(r))
  BY CallFacts
<1>2. /\ IsCall(s) /\ s.pc = "done" /\ s.answer = a /\ s.cause = k
      /\ s.posted = r.posted /\ s.done = r.done /\ s.partial = r.partial
      /\ s.lost = r.lost
  BY <1>1, ReturnIs
<1>3. call' = [call EXCEPT ![c] = s] /\ r.pc \in Early \cup {"final"}
  OBVIOUS
<1> HIDE DEF s
<1>4. Holds(s)
  BY <1>1, <1>2 DEF Holds, Ended, Early, Asked
<1>5. Counted(s)
  <2> HIDE DEF r
  <2> QED
    BY <1>1, <1>2 DEF Counted, Ended, Early, Asked
<1>6. Open(c) = {} \/ Tells(s)
  <2>1. CASE r.pc \in Early
    BY <1>1, <2>1, NothingOpen DEF Counted
  <2>2. CASE r.pc = "final"
    BY <1>1, <1>2, <2>2 DEF Tells
  <2> QED
    BY <1>3, <2>1, <2>2
<1> QED
  BY <1>1, <1>2, <1>3, <1>4, <1>5, <1>6, CallMoves

\* A list that cannot be read ends the call.
LEMMA ReadFailsStep == ASSUME Inv, NEW c \in Calls, ReadFails(c) PROVE Inv'
  BY ReturnStep DEF ReadFails, Set, Early

\* The report says what was done.
LEMMA FinalStep == ASSUME Inv, NEW c \in Calls, Final(c) PROVE Inv'
  BY ReturnStep DEF Final, Set

\* A body that is large enough is what its inputs hold less the fee.
LEMMA OutputBalanced ==
  ASSUME NEW from, ~(Output(from).ada < MinUtxo)
  PROVE  Balanced(Output(from))
<1>1. PICK held, fee : held = Lovelace(from) /\ fee = Fee(from)
  OBVIOUS
<1>2. /\ Output(from).from = from /\ Output(from).tokens = Assets(from)
      /\ Output(from).ada = IF held > fee THEN held - fee ELSE 0
  BY <1>1 DEF Output
<1>3. Output(from).ada # 0
  BY Limits
<1>4. Output(from).ada = held - fee
  BY <1>2, <1>3
<1> QED
  BY <1>1, <1>2, <1>4 DEF Balanced

\* The body of a batch is built over its inputs.
LEMMA BuildStep == ASSUME Inv, NEW c \in Calls, Build(c) PROVE Inv'
<1> DEFINE r == call[c]
           body == Output(r.inputs)
<1>1. /\ r.pc = "build" /\ UNCHANGED <<netVars, wire>>
      /\ call' = [call EXCEPT ![c] = IF body.ada < MinUtxo THEN Stop(r, "minimum")
                                     ELSE Signing(r, body)]
  BY DEF Build, Set, Signing
<1>2. IsCall(r) /\ Holds(r) /\ Counted(r) /\ Range(r.done) \subseteq Accepted
  BY CallFacts
<1>3. /\ r.posted \subseteq Range(r.done) /\ r.partial = "none"
      /\ r.lost \/ IsInjective(r.done)
      /\ Merges(r.inputs) /\ r.done \in Seq(Range(r.done)) /\ r.req \in Requests
  BY <1>1, <1>2 DEF Counted, Holds, Early, Ended
<1>4. Open(c) = {} /\ r.pc \notin Ended
  BY <1>1, <1>3, NothingOpen DEF Ended
<1>5. CASE body.ada < MinUtxo
  <2>1. call' = [call EXCEPT ![c] = Stop(r, "minimum")]
    BY <1>1, <1>5
  <2> QED
    BY <1>1, <1>4, <2>1, StopStep
<1>6. CASE ~(body.ada < MinUtxo)
  <2> DEFINE s == Signing(r, body)
  <2>1. call' = [call EXCEPT ![c] = s]
    BY <1>1, <1>6
  <2>2. body.from = r.inputs
    BY DEF Output
  <2>3. /\ IsCall(s) /\ s.pc = "sign" /\ s.body = body /\ s.req = r.req
        /\ s.posted = r.posted /\ s.done = r.done /\ s.partial = r.partial /\ s.lost = r.lost
    BY <1>2, UpdateIs DEF KeepsReport
  <2>4. Whole(body)
    BY <1>3, <1>6, <2>2, OutputBalanced DEF Whole
  <2> HIDE DEF s, body
  <2>5. Holds(s)
    BY <1>3, <2>3, <2>4 DEF Holds, Early, Asked, Ended
  <2>6. Counted(s)
    BY <1>3, <2>3 DEF Counted, Early, Asked, Ended
  <2> QED
    BY <1>1, <1>2, <1>4, <2>1, <2>3, <2>5, <2>6, CallMoves
<1> QED
  BY <1>5, <1>6

\* Building or signing fails.
LEMMA BuildOrSignFailsStep ==
  ASSUME Inv, NEW c \in Calls, BuildOrSignFails(c) PROVE Inv'
<1>1. Open(c) = {} /\ call[c].pc \notin Ended
  BY CallFacts, NothingOpen DEF BuildOrSignFails, Counted, Early, Ended
<1> QED
  BY <1>1, StopStep DEF BuildOrSignFails, Set

\* No answer came.
LEMMA AnswerLostStep == ASSUME Inv, NEW c \in Calls, AnswerLost(c) PROVE Inv'
<1> DEFINE r == call[c]
           s == LookingUp(r)
<1>1. /\ r.pc = "posting" /\ UNCHANGED <<netVars, wire>>
      /\ call' = [call EXCEPT ![c] = s]
  BY DEF AnswerLost, Set, LookingUp
<1>2. IsCall(r) /\ Holds(r) /\ Counted(r) /\ Range(r.done) \subseteq Accepted
  BY CallFacts
<1>3. /\ IsCall(s) /\ s.pc = "lookup" /\ s.body = r.body /\ s.req = r.req
      /\ s.posted = r.posted
      /\ s.done = r.done /\ s.partial = r.partial /\ s.lost
  BY <1>2, UpdateIs DEF KeepsReport
<1> HIDE DEF s
<1>4. Holds(s)
  BY <1>1, <1>2, <1>3 DEF Holds, Early, Asked, Ended
<1>5. Counted(s)
  BY <1>1, <1>2, <1>3 DEF Counted, Early, Asked, Ended
<1>6. Tells(s)
  BY <1>3 DEF Tells
<1> QED
  BY <1>1, <1>2, <1>3, <1>4, <1>5, <1>6, CallMoves

\* A batch that succeeds is reported, whatever was open before.
LEMMA SucceedHolds ==
  ASSUME NEW r, Holds(r), Counted(r), r.pc \in Asked,
         r.lost \/ r.body \notin Range(r.done)
  PROVE  LET s == Succeed(r) IN
         /\ Holds(s) /\ Counted(s) /\ s.posted = r.posted
         /\ Range(s.done) = Range(r.done) \cup {r.body}
         /\ s.posted \subseteq Range(s.done)
<1> DEFINE s == Succeed(r)
<1>1. /\ IsCall(s) /\ s.pc \in {"read", "final", "done"}
      /\ s.posted = r.posted /\ s.done = Append(r.done, r.body)
      /\ s.lost = r.lost /\ s.partial = r.partial /\ s.req = r.req
      /\ s.pc = "done" => s.answer = "ok"
  BY SucceedIs DEF Holds
<1> HIDE DEF s
<1>2. r.done \in Seq(Range(r.done)) /\ r.partial = "none"
      /\ r.posted \subseteq Range(r.done) \cup {r.body}
      /\ (r.lost \/ IsInjective(r.done))
  BY DEF Holds, Counted, Asked, Ended
<1>3. /\ Range(s.done) = Range(r.done) \cup {r.body}
      /\ s.done \in Seq(Range(s.done))
  BY <1>1, <1>2, AppendRange
<1>4. s.lost \/ IsInjective(s.done)
  <2> SUFFICES ASSUME ~s.lost PROVE IsInjective(s.done)
    OBVIOUS
  <2>1. Injective(r.done) /\ r.body \notin Range(r.done)
    BY <1>1, <1>2 DEF Injective
  <2> QED
    BY <1>1, <2>1, AppendKeeps DEF Injective
<1>5. Holds(s)
  BY <1>1, <1>3 DEF Holds, Early, Asked, Ended
<1>6. Counted(s)
  <2>1. s.posted \subseteq Range(s.done) \cup {r.body}
    BY <1>1, <1>2, <1>3
  <2> QED
    BY <1>1, <1>2, <1>3, <1>4, <2>1 DEF Counted, Early, Asked, Ended
<1> QED
  BY <1>1, <1>2, <1>3, <1>5, <1>6 DEF s

\* The lookup finds the body on the chain, or the call ends not knowing.
LEMMA LookupStep == ASSUME Inv, NEW c \in Calls, Lookup(c) PROVE Inv'
<1> DEFINE r == call[c]
           s == Succeed(r)
<1>1. r.pc = "lookup" /\ UNCHANGED <<netVars, wire>> /\ r.pc \notin Ended
      /\ r.pc \in Asked
  BY DEF Lookup, Ended, Asked
<1>2. CASE r.body \in chain /\ call' = [call EXCEPT ![c] = s]
  <2>1. Holds(r) /\ Counted(r) /\ Range(r.done) \subseteq Accepted
    BY CallFacts
  <2>2. /\ Holds(s) /\ Counted(s) /\ s.posted = r.posted
        /\ Range(s.done) = Range(r.done) \cup {r.body}
        /\ s.posted \subseteq Range(s.done)
    BY <1>1, <2>1, SucceedHolds DEF Counted
  <2>3. r.body \in Accepted
    BY <1>2 DEF Accepted
  <2>4. Open(c) \ Range(s.done) = {}
    BY <2>2 DEF Open
  <2>5. call' = [call EXCEPT ![c] = s]
    BY <1>2
  <2> HIDE DEF s
  <2>6. Range(r.done) \subseteq Range(s.done) /\ Range(s.done) \subseteq Accepted
    BY <2>1, <2>2, <2>3
  <2> QED
    BY <1>1, <2>2, <2>4, <2>5, <2>6, CallMoves
<1>3. CASE call' = [call EXCEPT ![c] = Stop(r, "unknown")]
  BY <1>1, <1>3, StopStep
<1> QED
  BY <1>2, <1>3 DEF Lookup, Set

\* A body is posted.  If it was accepted before, its own earlier POST of it is
\* reported, so another call posted it.
LEMMA PostStep == ASSUME Inv, NEW c \in Calls, Post(c) PROVE Inv'
<1> DEFINE r == call[c]
           s == Posting(r, r.posted \cup {r.body})
<1>0. PICK p : p = [by |-> c, body |-> r.body]
  OBVIOUS
<1>1. /\ r.pc = "sign" /\ UNCHANGED netVars
      /\ call' = [call EXCEPT ![c] = s] /\ wire' = wire \cup {p}
  BY <1>0 DEF Post, Set, Posting
<1>2. IsCall(r) /\ Holds(r) /\ Counted(r) /\ Range(r.done) \subseteq Accepted
  BY CallFacts
<1>3. /\ r.posted \subseteq Range(r.done) /\ r.partial = "none"
      /\ (r.lost \/ IsInjective(r.done))
      /\ Whole(r.body) /\ r.done \in Seq(Range(r.done)) /\ r.req \in Requests
  BY <1>1, <1>2 DEF Counted, Holds, Early, Ended
<1>4. /\ IsCall(s) /\ s.pc = "posting" /\ s.body = r.body /\ s.req = r.req
      /\ s.posted = r.posted \cup {r.body} /\ s.done = r.done
      /\ s.partial = r.partial /\ s.lost = r.lost
  BY <1>2, UpdateIs DEF KeepsReport
<1> HIDE DEF s
<1>5. Holds(s)
  BY <1>3, <1>4 DEF Holds, Early, Asked, Ended
<1>6. Counted(s)
  <2>1. s.posted \subseteq Range(s.done) \cup {r.body}
    BY <1>3, <1>4
  <2> QED
    BY <1>3, <1>4, <2>1 DEF Counted, Early, Asked, Ended
<1>7. call'[c] = s /\ \A d \in Calls \ {c} : call'[d] = call[d]
  BY <1>1 DEF Inv, CallsOK
<1>8. call' = [d \in Calls |-> call'[d]]
  BY <1>1 DEF Inv, CallsOK
<1>9. UNCHANGED <<utxos, mempool, chain, shown>> /\ Accepted' = Accepted
  BY <1>1 DEF netVars, Accepted
<1>10. Ledger' /\ Injective(shown.list)' /\ EveryBatchMerges'
  BY <1>9 DEF Inv, Ledger, EveryBatchMerges
<1>11. CallsOK'
  BY <1>5, <1>6, <1>7, <1>8 DEF Inv, CallsOK
<1>12. /\ \A d \in Calls : call[d].posted \subseteq call'[d].posted
       /\ \A d \in Calls : call'[d].done = call[d].done
       /\ r.body \in call'[c].posted
  BY <1>4, <1>7
<1>13. Posts'
  <2>1. \A w \in wire' : OnWire(w)'
    <3>1. \A w \in wire : OnWire(w)'
      BY <1>12 DEF Inv, Posts, OnWire
    <3>2. OnWire(p)'
      BY <1>0, <1>3, <1>12 DEF OnWire
    <3> QED
      BY <1>1, <3>1, <3>2
  <2>2. p.body \in Accepted /\ p.body \notin Range(r.done) =>
          \E d \in Calls \ {c} : p.body \in call[d].posted
    BY <1>0, <1>3 DEF Inv, Posts
  <2>3. p.by = c /\ p.body = r.body
    BY <1>0
  <2>4. \A w \in wire' : w.body \in Accepted /\ w.body \notin Range(call[w.by].done) =>
          \E d \in Calls \ {w.by} : w.body \in call[d].posted
    BY <1>1, <2>2, <2>3 DEF Inv, Posts
  <2>5. \A w \in wire' : w.by \in Calls
    BY <2>1 DEF OnWire
  <2>6. \A w \in wire' : w.body \in Accepted /\ w.body \notin Range(call'[w.by].done) =>
          \E d \in Calls \ {w.by} : w.body \in call'[d].posted
    BY <1>12, <2>4, <2>5
  <2>7. /\ \A d \in Calls : Range(call'[d].done) \subseteq Accepted
        /\ \A b \in Accepted : \E d \in Calls : b \in call'[d].posted
    BY <1>12 DEF Inv, Posts
  <2> QED
    BY <1>9, <2>1, <2>6, <2>7 DEF Posts
<1>14. Closed'
  <2> SUFFICES ASSUME NEW d \in Calls PROVE Open(d)' = {} \/ Tells(call'[d])
    BY DEF Closed
  <2>1. CASE d = c
    BY <1>4, <1>7, <2>1 DEF Tells
  <2>2. CASE d # c
    <3>1. Open(d)' \subseteq Open(d)
      <4>1. \A b : [by |-> d, body |-> b] \in wire' => [by |-> d, body |-> b] \in wire
        BY <1>0, <1>1, <2>2
      <4>2. call'[d] = call[d]
        BY <1>7, <2>2
      <4> QED
        BY <1>9, <1>12, <4>1, <4>2 DEF Open
    <3> QED
      BY <1>7, <2>2, <3>1 DEF Inv, Closed
  <2> QED
    BY <2>1, <2>2
<1> QED
  BY <1>10, <1>11, <1>13, <1>14 DEF Inv

-----------------------------------------------------------------------------
\* The node's and the chain's steps

\* A set of two or more is not empty.
LEMMA MergesSome == ASSUME NEW S, Merges(S) PROVE S # {}
  BY FS_EmptySet DEF Merges

\* A POST is processed.  A body that is accepted already is not taken again,
\* its inputs are spent.  A body that is refused and yet accepted was posted
\* by another call.
LEMMA ProcessStep ==
  ASSUME Inv, NEW w \in wire, NEW heard \in BOOLEAN, Process(w, heard)
  PROVE  Inv'
<1> DEFINE taken == Available(w.body) /\ Balanced(w.body)
<1>0. PICK c, b : c = w.by /\ b = w.body
  OBVIOUS
<1>1. /\ wire' = wire \ {w} /\ UNCHANGED <<utxos, chain, shown>>
      /\ mempool' = IF taken THEN mempool \cup {b} ELSE mempool
      /\ heard => call[c].pc = "posting" /\ call[c].body = b
      /\ call' = IF heard THEN [call EXCEPT ![c] = IF taken THEN Succeed(call[c])
                                                   ELSE Stop(call[c], "refused")]
                 ELSE call
  BY <1>0 DEF Process
<1>2. /\ c \in Calls /\ b \in call[c].posted /\ Merges(b.from) /\ b.from # {}
      /\ w = [by |-> c, body |-> b]
  BY <1>0, MergesSome DEF Inv, Posts, OnWire, Whole
<1>3. taken => b.from \subseteq Range(utxos) /\ b.from \cap InFlight = {}
  BY <1>0 DEF Available
<1> HIDE DEF taken
<1>4. taken => b \notin Accepted
  <2>1. taken => b \notin chain
    BY <1>2, <1>3 DEF Inv, Ledger
  <2>2. taken => b \notin mempool
    BY <1>2, <1>3 DEF InFlight
  <2> QED
    BY <2>1, <2>2 DEF Accepted
<1>5. Accepted' = IF taken THEN Accepted \cup {b} ELSE Accepted
  BY <1>1 DEF Accepted
<1>6. Ledger'
  <2>1. taken => \A t \in mempool : t.from \cap b.from = {}
    BY <1>3 DEF InFlight
  <2> QED
    BY <1>1, <1>2, <1>3, <2>1 DEF Inv, Ledger
<1>7. Injective(shown.list)' /\ EveryBatchMerges'
  BY <1>1, <1>2, <1>5 DEF Inv, EveryBatchMerges, Merges
<1>8. /\ Holds(call[c]) /\ Counted(call[c]) /\ Range(call[c].done) \subseteq Accepted
  BY <1>2, CallFacts
<1>9. PICK s : s = call'[c]
  OBVIOUS
<1>10. /\ call' = [d \in Calls |-> call'[d]]
       /\ \A d \in Calls \ {c} : call'[d] = call[d]
       /\ heard => s = IF taken THEN Succeed(call[c]) ELSE Stop(call[c], "refused")
       /\ ~heard => s = call[c]
  BY <1>1, <1>2, <1>9 DEF Inv, CallsOK
<1>11. /\ Holds(s) /\ Counted(s) /\ s.posted = call[c].posted
       /\ Range(call[c].done) \subseteq Range(s.done)
       /\ Range(s.done) \subseteq Accepted'
       /\ heard /\ taken => s.posted \subseteq Range(s.done)
       /\ heard /\ ~taken => s.done = call[c].done
                              /\ call[c].posted \subseteq Range(call[c].done) \cup {b}
  <2>1. CASE ~heard
    BY <1>5, <1>8, <1>10, <2>1
  <2>2. CASE heard /\ taken
    <3>1. call[c].pc \in Asked /\ call[c].body = b /\ b \notin Range(call[c].done)
      BY <1>1, <1>4, <1>8, <2>2 DEF Asked
    <3>2. s = Succeed(call[c])
      BY <1>10, <2>2
    <3>3. /\ Holds(s) /\ Counted(s) /\ s.posted = call[c].posted
          /\ Range(s.done) = Range(call[c].done) \cup {b}
          /\ s.posted \subseteq Range(s.done)
      BY <1>8, <3>1, <3>2, SucceedHolds
    <3> QED
      BY <1>5, <1>8, <2>2, <3>3
  <2>3. CASE heard /\ ~taken
    <3>1. /\ call[c].pc \notin Ended
          /\ call[c].posted \subseteq Range(call[c].done) \cup {b}
      BY <1>1, <1>8, <2>3 DEF Counted, Asked, Ended
    <3>2. s = Stop(call[c], "refused")
      BY <1>10, <2>3
    <3>3. Holds(s) /\ Counted(s) /\ s.posted = call[c].posted /\ s.done = call[c].done
      BY <1>8, <3>1, <3>2, StopHolds
    <3> QED
      BY <1>5, <1>8, <2>3, <3>1, <3>3
  <2> QED
    BY <2>1, <2>2, <2>3
<1>12. CallsOK'
  BY <1>9, <1>10, <1>11 DEF Inv, CallsOK
<1>13. /\ \A d \in Calls : call'[d].posted = call[d].posted
       /\ \A d \in Calls : Range(call[d].done) \subseteq Range(call'[d].done)
       /\ \A d \in Calls : Range(call'[d].done) \subseteq Accepted'
  <2>1. \A d \in Calls : Range(call[d].done) \subseteq Accepted'
    BY <1>5 DEF Inv, Posts
  <2> QED
    BY <1>9, <1>10, <1>11, <2>1
<1>14. Posts'
  <2>1. \A v \in wire' : OnWire(v)'
    BY <1>1, <1>13 DEF Inv, Posts, OnWire
  <2>2. \A x \in Accepted' : \E d \in Calls : x \in call'[d].posted
    BY <1>2, <1>5, <1>13 DEF Inv, Posts
  <2>3. ASSUME NEW v \in wire', v.body \in Accepted',
               v.body \notin Range(call'[v.by].done)
        PROVE  \E d \in Calls \ {v.by} : v.body \in call'[d].posted
    <3>1. v \in wire /\ v # w /\ OnWire(v)
      BY <1>1 DEF Inv, Posts
    <3>2. v.body \notin Range(call[v.by].done)
      BY <1>13, <2>3, <3>1 DEF OnWire
    <3>3. CASE v.body \in Accepted
      BY <1>13, <3>1, <3>2, <3>3 DEF Inv, Posts
    <3>4. CASE v.body = b
      <4>1. v.by # c
        BY <1>2, <3>1, <3>4 DEF OnWire
      <4> QED
        BY <1>2, <1>13, <3>4, <4>1
    <3> QED
      BY <1>5, <2>3, <3>3, <3>4
  <2> QED
    BY <1>13, <2>1, <2>2, <2>3 DEF Posts
<1>15. Closed'
  <2> SUFFICES ASSUME NEW d \in Calls PROVE Open(d)' = {} \/ Tells(call'[d])
    BY DEF Closed
  <2>1. Open(d)' \subseteq Open(d)
    <3> SUFFICES ASSUME NEW x \in Open(d)' PROVE x \in Open(d)
      OBVIOUS
    <3>1. /\ x \in call'[d].posted \ Range(call'[d].done)
          /\ x \in Accepted' \/ [by |-> d, body |-> x] \in wire'
          /\ \A e \in Calls \ {d} : x \notin call'[e].posted
      BY DEF Open
    <3>2. /\ x \in call[d].posted \ Range(call[d].done)
          /\ \A e \in Calls \ {d} : x \notin call[e].posted
      BY <1>13, <3>1
    <3>3. x \in Accepted \/ [by |-> d, body |-> x] \in wire
      <4>1. CASE x \in Accepted' /\ x \notin Accepted
        <5>1. x = b
          BY <1>5, <4>1
        <5>2. d = c
          BY <1>2, <3>2, <5>1
        <5> QED
          BY <1>2, <5>1, <5>2
      <4> QED
        BY <1>1, <3>1, <4>1
    <3> QED
      BY <3>2, <3>3 DEF Open
  <2>2. CASE d # c \/ ~heard
    <3>1. call'[d] = call[d]
      BY <1>9, <1>10, <2>2
    <3> QED
      BY <2>1, <3>1 DEF Inv, Closed
  <2>3. CASE d = c /\ heard /\ taken
    BY <1>9, <1>11, <2>3 DEF Open
  <2>4. CASE d = c /\ heard /\ ~taken
    <3> SUFFICES ASSUME NEW x \in Open(c)' PROVE FALSE
      BY <2>4
    <3>1. /\ x \in s.posted \ Range(s.done)
          /\ x \in Accepted \/ [by |-> c, body |-> x] \in wire'
          /\ \A e \in Calls \ {c} : x \notin call[e].posted
      BY <1>5, <1>9, <1>13, <2>4 DEF Open
    <3>2. x = b /\ b \notin Range(call[c].done)
      BY <1>11, <2>4, <3>1
    <3>3. b \in Accepted
      BY <1>1, <1>2, <3>1, <3>2
    <3>4. \E e \in Calls \ {c} : b \in call[e].posted
      BY <1>0, <3>2, <3>3 DEF Inv, Posts
    <3> QED
      BY <3>1, <3>2, <3>4
  <2> QED
    BY <2>2, <2>3, <2>4
<1> QED
  BY <1>6, <1>7, <1>12, <1>14, <1>15 DEF Inv

\* What is left when the calls, the wire and what is accepted are as before.
LEMMA CallsKept ==
  ASSUME Inv, UNCHANGED <<call, wire>>, Accepted' = Accepted
  PROVE  CallsOK' /\ Posts' /\ Closed'
<1>1. CallsOK'
  BY DEF Inv, CallsOK
<1>2. Posts'
  <2>1. \A w \in wire : OnWire(w)' = OnWire(w)
    BY DEF OnWire
  <2> QED
    BY <2>1 DEF Inv, Posts
<1>3. Closed'
  <2>1. \A c \in Calls : Open(c)' = Open(c)
    BY DEF Open
  <2> QED
    BY <2>1 DEF Inv, Closed
<1> QED
  BY <1>1, <1>2, <1>3

\* A block.  The output it adds was not listed before: what spends something
\* is listed only when it is on the chain.
LEMMA BlockStep == ASSUME Inv, Block PROVE Inv'
<1>1. UNCHANGED <<shown, locked, wire, call>>
  BY DEF Block
<1>2. CASE \E t \in mempool :
             /\ utxos' = Append(Without(utxos, t.from), t)
             /\ mempool' = mempool \ {t} /\ chain' = chain \cup {t}
  <2>1. PICK t \in mempool :
             /\ utxos' = Append(Without(utxos, t.from), t)
             /\ mempool' = mempool \ {t} /\ chain' = chain \cup {t}
    BY <1>2
  <2>2. t.from # {} /\ t.from \subseteq Range(utxos) /\ t \notin chain
    BY DEF Inv, Ledger
  <2>3. t \notin Range(utxos)
    BY <2>2 DEF Inv, Ledger
  <2> DEFINE left == Without(utxos, t.from)
  <2>4. Injective(left) /\ Range(left) = Range(utxos) \ t.from
    BY WithoutKeeps DEF Inv, Ledger
  <2>5. Injective(utxos') /\ Range(utxos') = (Range(utxos) \ t.from) \cup {t}
    <3> HIDE DEF left
    <3>1. t \notin Range(left)
      BY <2>3, <2>4
    <3>2. Injective(Append(left, t)) /\ Range(Append(left, t)) = Range(left) \cup {t}
      BY <2>4, <3>1, AppendKeeps
    <3> QED
      BY <2>1, <2>4, <3>2 DEF left
  <2> HIDE DEF left
  <2>6. Accepted' = Accepted
    BY <2>1 DEF Accepted
  <2>7. Ledger'
    <3>1. \A u \in Range(utxos') : u.from = {} \/ u \in chain'
      BY <2>1, <2>5 DEF Inv, Ledger
    <3>2. ASSUME NEW x \in chain' PROVE x.from \cap Range(utxos') = {}
      <4>1. t \notin x.from
        BY <2>1, <2>2, <2>3 DEF Inv, Ledger
      <4>2. x.from \cap (Range(utxos) \ t.from) = {}
        BY <2>1 DEF Inv, Ledger
      <4> QED
        BY <2>5, <4>1, <4>2
    <3>3. \A x \in chain' : \A u \in x.from : u.from = {} \/ u \in chain'
      BY <2>1, <2>2 DEF Inv, Ledger
    <3>4. \A x \in mempool' : x.from # {} /\ x.from \subseteq Range(utxos')
      BY <2>1, <2>5 DEF Inv, Ledger
    <3>5. \A x, y \in mempool' : x # y => x.from \cap y.from = {}
      BY <2>1 DEF Inv, Ledger
    <3> QED
      BY <2>5, <3>1, <3>2, <3>3, <3>4, <3>5 DEF Ledger
  <2> QED
    BY <1>1, <2>6, <2>7, CallsKept DEF Inv, EveryBatchMerges
<1>3. CASE /\ \E u \in Incoming \ Range(utxos) :
                (\A t \in mempool \cup chain : u \notin t.from) /\ utxos' = Append(utxos, u)
           /\ UNCHANGED <<mempool, chain>>
  <2>1. PICK u \in Incoming \ Range(utxos) :
               (\A t \in mempool \cup chain : u \notin t.from) /\ utxos' = Append(utxos, u)
    BY <1>3
  <2>2. Injective(utxos') /\ Range(utxos') = Range(utxos) \cup {u}
    BY <2>1, AppendKeeps DEF Inv, Ledger
  <2>3. u.from = {}
    BY Payments
  <2>4. Ledger'
    BY <1>3, <2>1, <2>2, <2>3 DEF Inv, Ledger
  <2>5. Accepted' = Accepted
    BY <1>3 DEF Accepted
  <2> QED
    BY <1>1, <2>4, <2>5, CallsKept DEF Inv, EveryBatchMerges
<1>4. CASE /\ locked \cap InFlight = {}
           /\ utxos' = Without(utxos, locked)
           /\ UNCHANGED <<mempool, chain>>
  <2>1. Injective(utxos') /\ Range(utxos') = Range(utxos) \ locked
    BY <1>4, WithoutKeeps DEF Inv, Ledger
  <2>2. \A t \in mempool : t.from \cap locked = {}
    BY <1>4 DEF InFlight
  <2>3. Ledger'
    BY <1>4, <2>1, <2>2 DEF Inv, Ledger
  <2>4. Accepted' = Accepted
    BY <1>4 DEF Accepted
  <2> QED
    BY <1>1, <2>3, <2>4, CallsKept DEF Inv, EveryBatchMerges
<1> QED
  BY <1>2, <1>3, <1>4 DEF Block

\* The provider catches up.
LEMMA IndexStep == ASSUME Inv, Index PROVE Inv'
<1>1. UNCHANGED <<utxos, mempool, chain, wire, call>> /\ shown'.list = utxos
  BY DEF Index
<1>2. Accepted' = Accepted /\ Ledger' /\ Injective(shown.list)'
  BY <1>1 DEF Inv, Ledger, Accepted
<1> QED
  BY <1>1, <1>2, CallsKept DEF Inv, EveryBatchMerges

-----------------------------------------------------------------------------
\* The invariant throughout

\* The first states.
LEMMA InitOK == Init => Inv
<1> SUFFICES ASSUME Init PROVE Inv
  OBVIOUS
<1>1. Injective(utxos) /\ \A u \in Range(utxos) : u.from = {}
  BY Payments DEF Init, Injective
<1>2. Ledger /\ Injective(shown.list) /\ EveryBatchMerges
  BY <1>1 DEF Init, Ledger, EveryBatchMerges, Accepted
<1> DEFINE none == Idle
<1>3. /\ IsCall(none) /\ none.pc = "idle" /\ none.done = <<>> /\ none.posted = {}
      /\ none.partial = "none"
  BY DEF Idle, IsCall
<1>4. Range(<<>>) = {} /\ <<>> \in Seq({}) /\ IsInjective(<<>>)
  BY DEF Range, IsInjective
<1>5. \A c \in Calls : call[c] = none
  BY DEF Init
<1>6. call = [c \in Calls |-> call[c]]
  BY DEF Init
<1> HIDE DEF none
<1>7. Holds(none) /\ Counted(none)
  BY <1>3, <1>4 DEF Holds, Counted, Early, Asked, Ended
<1>8. CallsOK
  BY <1>5, <1>6, <1>7 DEF CallsOK
<1>9. Posts
  BY <1>3, <1>4, <1>5 DEF Init, Posts, Accepted
<1>10. Closed
  BY <1>3, <1>5 DEF Closed, Open
<1> QED
  BY <1>2, <1>8, <1>9, <1>10 DEF Inv

\* Every step keeps it.
LEMMA Inductive == Inv /\ [Next]_vars => Inv'
<1> SUFFICES ASSUME Inv, [Next]_vars PROVE Inv'
  OBVIOUS
<1>1. CASE Environment
  BY <1>1, ProcessStep, BlockStep, IndexStep DEF Environment
<1>2. ASSUME NEW c \in Calls, Step(c) PROVE Inv'
  BY <1>2, StartStep, ReadBatchStep, ReadFailsStep, BuildStep, BuildOrSignFailsStep,
     PostStep, AnswerLostStep, LookupStep, FinalStep DEF Step
<1>3. CASE UNCHANGED vars
  <2>1. UNCHANGED <<utxos, mempool, chain, shown, wire, call>> /\ Accepted' = Accepted
    BY <1>3 DEF vars, Accepted
  <2> QED
    BY <2>1, CallsKept DEF Inv, Ledger, EveryBatchMerges
<1> QED
  BY <1>1, <1>2, <1>3 DEF Next

\* So it always holds.
LEMMA Invariant == Spec => []Inv
  BY InitOK, Inductive, PTL DEF Spec

-----------------------------------------------------------------------------
\* However many calls, batches and lost answers there are, no consolidation
\* the node takes has fewer than two inputs (consolidateUtxos and its two
\* paths).
THEOREM EveryBatchMergesInvariant == Spec => []EveryBatchMerges
<1>1. Inv => EveryBatchMerges
  BY DEF Inv
<1> QED
  BY Invariant, <1>1, PTL

\* What the invariant makes of the report.
LEMMA ReportsFollow == Inv => ReportsTellWhatWasDone
<1> SUFFICES ASSUME Inv, NEW c \in Calls, call[c].pc = "done"
             PROVE  LET r == call[c] IN
               /\ Range(r.done) \subseteq Accepted
               /\ Took(c) \subseteq Range(r.done) \/ r.cause = "unknown"
                    \/ r.partial = "unknown"
               /\ Cardinality(Took(c) \ Range(r.done)) <= 1
               /\ (r.answer = "error" /\ Took(c) # {}) => r.cause \in {"unknown", "read"}
               /\ Cardinality(Range(r.done)) < Len(r.done) => r.lost
  BY DEF ReportsTellWhatWasDone
<1> DEFINE r == call[c]
<1>1. /\ Holds(r) /\ Counted(r) /\ Range(r.done) \subseteq Accepted
      /\ Open(c) = {} \/ Tells(r)
  BY CallFacts
<1>2. Took(c) \subseteq Range(r.done) \cup Open(c)
  BY DEF Took, Open
<1>3. Open(c) # {} => r.partial = "unknown" \/ r.cause = "unknown"
  BY <1>1 DEF Tells
<1>4. Cardinality(Took(c) \ Range(r.done)) <= 1
  <2>1. PICK b : r.posted \subseteq Range(r.done) \cup {b}
    BY <1>1 DEF Counted
  <2>2. Took(c) \ Range(r.done) \in SUBSET {b}
    BY <2>1 DEF Took
  <2>3. IsFiniteSet({b}) /\ Cardinality({b}) = 1
    BY FS_Singleton
  <2> QED
    BY <2>2, <2>3, FS_Subset
<1>5. (r.answer = "error" /\ Took(c) # {}) => r.cause \in {"unknown", "read"}
  <2> SUFFICES ASSUME r.answer = "error", Took(c) # {}, r.cause # "read"
               PROVE  r.cause = "unknown"
    OBVIOUS
  <2>1. r.done = <<>> /\ r.partial = "none"
    BY <1>1 DEF Counted
  <2>2. Range(r.done) = {}
    BY <2>1 DEF Range
  <2> QED
    BY <1>2, <1>3, <2>1, <2>2
<1>6. Cardinality(Range(r.done)) < Len(r.done) => r.lost
  <2> SUFFICES ASSUME ~r.lost PROVE Cardinality(Range(r.done)) = Len(r.done)
    BY <1>1, Places DEF Holds
  <2>1. r.done \in Seq(Range(r.done)) /\ IsInjective(r.done)
    BY <1>1 DEF Holds, Counted
  <2> QED
    BY <2>1, InjectiveSize
<1> QED
  BY <1>1, <1>2, <1>3, <1>4, <1>5, <1>6

\* However many calls run on one address, however far behind the provider is
\* and whichever answers are lost, a finished consolidation reports what it
\* did: only what was taken, all of it but at most one batch of which it says
\* that it does not know, and no batch twice unless an answer was lost
\* (consolidateBatched's batches and partialError).
THEOREM ReportsTellWhatWasDoneInvariant == Spec => []ReportsTellWhatWasDone
  BY Invariant, ReportsFollow, PTL

\* The node refuses a batch only because one of its inputs is spent or under way,
\* whatever the calls, the provider's lag and the lost answers (the body of
\* consolidateUtxos keeps value and tokens, and is never below the minimum).
THEOREM RefusedOnlyAsStaleHolds == Spec => RefusedOnlyAsStale
<1>1. Inv /\ [Next]_vars =>
        [\A w \in wire, heard \in BOOLEAN :
           Process(w, heard) /\ mempool' = mempool => ~Available(w.body)]_vars
  <2> SUFFICES ASSUME Inv, NEW w \in wire, NEW heard \in BOOLEAN, Process(w, heard),
                      mempool' = mempool, Available(w.body)
               PROVE  FALSE
    OBVIOUS
  <2>1. Balanced(w.body) /\ w.body.from # {}
    BY MergesSome DEF Inv, Posts, OnWire, Whole
  <2>2. w.body \in mempool
    BY <2>1 DEF Process
  <2>3. w.body.from \subseteq InFlight
    BY <2>2 DEF InFlight
  <2> QED
    BY <2>1, <2>3 DEF Available
<1> QED
  BY Invariant, <1>1, PTL DEF Spec, RefusedOnlyAsStale

=============================================================================
