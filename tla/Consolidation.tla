--------------------------- MODULE Consolidation ---------------------------
(***************************************************************************)
(* consolidateUtxos, in one transaction or in batches, by several callers  *)
(* of one address.  Each batch reads the UTxO list anew from a provider    *)
(* that is behind the chain, while earlier batches, the other caller, a    *)
(* transfer and incoming payments change it.                               *)
(*                                                                         *)
(* A consolidation has one output, back to the address, so a transaction   *)
(* and the UTxO it makes are one record: what it spends, its time to live  *)
(* and what its output holds.  Two bodies that agree in these are the same *)
(* transaction, as their hash is.                                          *)
(***************************************************************************)
EXTENDS Naturals, Sequences, FiniteSets, SequencesExt, FiniteSetsExt

CONSTANTS
  Calls,       \* concurrent calls
  Requests,    \* [batched, size, max, min]
  Wallets,     \* the lists of UTxOs the address may start with
  Incoming,    \* payments that may arrive
  MaxInputs,   \* MAX_TX_INPUTS
  MinUtxo,     \* MIN_UTXO_BASE_LOVELACE
  MaxTip       \* blocks

ASSUME Limits == MaxInputs \in Nat \ {0, 1} /\ MinUtxo \in Nat \ {0} /\ MaxTip \in Nat
\* The API takes a minimum and a batch size of two or more; what is not the
\* output of a consolidation spends nothing the calls know of.
ASSUME RequestTypes ==
  \A r \in Requests : r.batched \in BOOLEAN /\ {r.size, r.max, r.min} \subseteq Nat \ {0}
                        /\ r.size >= 2 /\ r.min >= 2
ASSUME Payments ==
  /\ \A u \in Incoming : u.from = {}
  /\ \A w \in Wallets : /\ w \in Seq(Range(w)) /\ IsInjective(w)
                        /\ \A u \in Range(w) : u.from = {}

VARIABLES
  utxos,     \* the address, oldest first
  mempool,   \* transactions the node has taken
  chain,     \* consolidations in a block
  tip,       \* the current slot
  shown,     \* what the provider answers: [list, tip]
  locked,    \* the UTxO a transfer has locked, if there is one
  wire,      \* POSTs under way: [by, body]
  call       \* per call: [pc, req, inputs, body, posted, done, partial, cause, answer, lost]

netVars == <<utxos, mempool, chain, tip, shown, locked>>
vars == <<utxos, mempool, chain, tip, shown, locked, wire, call>>

Fee(from) == 1 + Cardinality(from)
Lovelace(set) == MapThenSumSet(LAMBDA u : u.ada, set)
Assets(set) == MapThenSumSet(LAMBDA u : u.tokens, set)
\* A list without the UTxOs of a set.
Without(list, S) ==
  LET kept == {i \in DOMAIN list : list[i] \notin S}
      Nth(k) == CHOOSE i \in kept : Cardinality({j \in kept : j <= i}) = k
  IN  [k \in 1..Cardinality(kept) |-> list[Nth(k)]]
First(list, n) == SubSeq(list, 1, IF Len(list) < n THEN Len(list) ELSE n)

\* The body over some inputs: everything but the fee, and every token.
OutputWithoutFee(from) == [from |-> from, ttl |-> shown.tip, ada |-> Lovelace(from), tokens |-> Assets(from)]
Output(from) ==
  [from |-> from, ttl |-> shown.tip, tokens |-> Assets(from),
   ada |-> IF Lovelace(from) > Fee(from) THEN Lovelace(from) - Fee(from) ELSE 0]

-----------------------------------------------------------------------------
(* The node, the chain and the provider.                                   *)

InFlight == UNION {t.from : t \in mempool}
Available(t) == t.from \subseteq Range(utxos) /\ t.from \cap InFlight = {}
Balanced(t) == /\ ~(t.ada < MinUtxo) /\ t.ada = Lovelace(t.from) - Fee(t.from)
               /\ t.tokens = Assets(t.from)

\* A block: with a consolidation, with a payment that arrives, with the transfer
\* that spends what it locked, or empty.
Block ==
  /\ tip < MaxTip /\ tip' = tip + 1
  /\ \/ \E t \in mempool :
          /\ utxos' = Append(Without(utxos, t.from), t)
          /\ mempool' = mempool \ {t} /\ chain' = chain \cup {t}
     \/ /\ \E u \in Incoming \ Range(utxos) :
            (\A t \in mempool \cup chain : u \notin t.from) /\ utxos' = Append(utxos, u)
        /\ UNCHANGED <<mempool, chain>>
     \/ /\ locked \cap InFlight = {}
        /\ utxos' = Without(utxos, locked)
        /\ UNCHANGED <<mempool, chain>>
  /\ UNCHANGED <<shown, locked, wire, call>>

Index ==
  /\ shown' = [list |-> utxos, tip |-> tip]
  /\ UNCHANGED <<utxos, mempool, chain, tip, locked, wire, call>>

-----------------------------------------------------------------------------
(* The calls.                                                              *)

Set(c, r) == call' = [call EXCEPT ![c] = r]

Idle == [pc |-> "idle", req |-> CHOOSE r \in Requests : TRUE, inputs |-> {}, posted |-> {}, done |-> <<>>,
         body |-> [from |-> {}, ttl |-> 0, ada |-> 0, tokens |-> 0],
         partial |-> "none", cause |-> "none", answer |-> "none", lost |-> FALSE]

Return(r, answer, cause) ==
  [r EXCEPT !.pc = "done", !.answer = answer, !.cause = cause, !.inputs = {},
            !.body = Idle.body]

\* A batch fails: the earlier ones are reported with it, if there are any.
StopSilently(r, cause) ==
  IF r.done = <<>> THEN Return(r, "error", cause) ELSE [r EXCEPT !.pc = "final"]
Stop(r, cause) ==
  IF r.done = <<>> THEN Return(r, "error", cause)
  ELSE [r EXCEPT !.pc = "final", !.partial = cause]

\* A batch succeeds: the last one, or the only one, ends the call.
Succeed(r) ==
  LET done == Append(r.done, r.body) IN
  IF ~r.req.batched THEN Return([r EXCEPT !.done = done], "ok", "none")
  ELSE [r EXCEPT !.done = done, !.pc = IF Len(done) = r.req.max THEN "final" ELSE "read"]

TooFewWhenEmpty(list, req) == list = <<>>
TooFew(list, req) == Len(list) < req.min

\* The first read leaves out what is locked, and decides.
Start(c) ==
  /\ call[c].pc = "idle"
  /\ \E req \in Requests :
       LET list == First(Without(shown.list, locked), MaxInputs)
           r == [call[c] EXCEPT !.req = req] IN
       Set(c, IF TooFew(list, req) THEN Return(r, "error", "insufficient")
              ELSE IF req.batched THEN [r EXCEPT !.pc = "read"]
              ELSE [r EXCEPT !.pc = "build", !.inputs = Range(list)])
  /\ UNCHANGED <<netVars, wire>>

\* Each batch reads the list again, locked or not.
ReadBatch(c) ==
  /\ call[c].pc = "read"
  /\ LET r == call[c] IN
       Set(c, IF ~TooFew(shown.list, r.req)
              THEN [r EXCEPT !.pc = "build", !.inputs = Range(First(shown.list, r.req.size))]
              ELSE IF r.done = <<>> THEN Return(r, "error", "insufficient") ELSE [r EXCEPT !.pc = "final"])
  /\ UNCHANGED <<netVars, wire>>

\* A list that cannot be read fails the call, whatever it has done.
ReadFails(c) ==
  /\ call[c].pc \in {"idle", "read", "final"}
  /\ Set(c, Return(call[c], "error", "read"))
  /\ UNCHANGED <<netVars, wire>>

Build(c) ==
  /\ call[c].pc = "build"
  /\ LET body == Output(call[c].inputs) IN
       Set(c, IF body.ada < MinUtxo THEN Stop(call[c], "minimum")
              ELSE [call[c] EXCEPT !.pc = "sign", !.body = body, !.inputs = {}])
  /\ UNCHANGED <<netVars, wire>>

BuildOrSignFails(c) ==
  /\ call[c].pc \in {"build", "sign"}
  /\ Set(c, Stop(call[c], "unsigned"))
  /\ UNCHANGED <<netVars, wire>>

Post(c) ==
  /\ call[c].pc = "sign"
  /\ Set(c, [call[c] EXCEPT !.pc = "posting", !.posted = @ \cup {call[c].body}])
  /\ wire' = wire \cup {[by |-> c, body |-> call[c].body]}
  /\ UNCHANGED netVars

\* A POST reaches the node, which takes it or refuses it, and the answer gets back
\* or is lost.  A POST that is lost stays on the wire.
Process(w, heard) ==
  /\ w \in wire
  /\ wire' = wire \ {w}
  /\ LET taken == Available(w.body) /\ Balanced(w.body)
         r == call[w.by] IN
       /\ mempool' = IF taken THEN mempool \cup {w.body} ELSE mempool
       /\ heard => r.pc = "posting" /\ r.body = w.body
       /\ call' = IF heard THEN [call EXCEPT ![w.by] = IF taken THEN Succeed(r) ELSE Stop(r, "refused")]
                  ELSE call
  /\ UNCHANGED <<utxos, chain, tip, shown, locked>>

AnswerLost(c) ==
  /\ call[c].pc = "posting"
  /\ Set(c, [call[c] EXCEPT !.pc = "lookup", !.lost = TRUE])
  /\ UNCHANGED <<netVars, wire>>

\* The lookup by hash finds what is on the chain, or not yet.
Lookup(c) ==
  /\ call[c].pc = "lookup"
  /\ \/ call[c].body \in chain /\ Set(c, Succeed(call[c]))
     \/ Set(c, Stop(call[c], "unknown"))
  /\ UNCHANGED <<netVars, wire>>

\* The report, with the UTxOs as they are listed now.
Final(c) ==
  /\ call[c].pc = "final"
  /\ Set(c, Return(call[c], "ok", "none"))
  /\ UNCHANGED <<netVars, wire>>

Init ==
  /\ utxos \in Wallets /\ shown = [list |-> utxos, tip |-> 0]
  /\ mempool = {} /\ chain = {} /\ tip = 0 /\ wire = {}
  /\ locked \in {{}} \cup {{u} : u \in Range(utxos)}
  /\ call = [c \in Calls |-> Idle]

Step(c) ==
  \/ Start(c) \/ ReadBatch(c) \/ ReadFails(c) \/ Build(c) \/ BuildOrSignFails(c)
  \/ Post(c) \/ AnswerLost(c) \/ Lookup(c) \/ Final(c)
Environment ==
  \/ \E w \in wire, heard \in BOOLEAN : Process(w, heard)
  \/ Block \/ Index
Next == Environment \/ \E c \in Calls : Step(c)
Spec == Init /\ [][Next]_vars

-----------------------------------------------------------------------------
(* Properties.                                                             *)

Accepted == mempool \cup chain
\* What a call has put on the ledger, and no other call as well.
Took(c) == {b \in call[c].posted \cap Accepted : \A d \in Calls \ {c} : b \notin call[d].posted}

\* What a call answers is what it did.  Every batch it reports was taken.  One it
\* does not report is at most the last, and then its answer was lost; a full
\* success reports all.  An error that leaves transactions behind had an answer
\* lost or a list that could not be read.  A batch is only counted twice when the
\* answer to its second POST was lost.
ReportsTellWhatWasDone ==
  \A c \in Calls : LET r == call[c] IN r.pc = "done" =>
    /\ Range(r.done) \subseteq Accepted
    /\ Took(c) \subseteq Range(r.done) \/ r.cause = "unknown" \/ r.partial = "unknown"
    /\ Cardinality(Took(c) \ Range(r.done)) <= 1
    /\ (r.answer = "error" /\ Took(c) # {}) => r.cause \in {"unknown", "read"}
    /\ Cardinality(Range(r.done)) < Len(r.done) => r.lost

\* A transaction the node takes merges several UTxOs into one: no batch pays a
\* fee to leave the address as it was.
EveryBatchMerges == \A t \in Accepted : Cardinality(t.from) >= 2

\* The node refuses a batch only because an input is gone or under way: value and
\* tokens are whole in every body.
RefusedOnlyAsStale ==
  [][\A w \in wire, heard \in BOOLEAN : Process(w, heard) /\ mempool' = mempool => ~Available(w.body)]_vars
=============================================================================
