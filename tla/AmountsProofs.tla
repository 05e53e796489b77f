---------------------------- MODULE AmountsProofs ----------------------------
(***************************************************************************)
(* Theorems about amounts: what is selected and paid for (CoinSelection)   *)
(* and what a vault is said to hold (VaultReports).  The two share no      *)
(* state, but the facts about sums over finite sets, which are reached     *)
(* through a smallest set without them.                                    *)
(*                                                                         *)
(* Inv of CoinSelection is about numbers: the types, the limit on inputs,  *)
(* and that the fee loop is never left undecided.  The last rests on what  *)
(* the loop's fee can be after one round: the body's fee with a narrow or  *)
(* with a wide change, and these differ by no more than the tolerance.     *)
(* Selecting is about what the inputs hold: tokens stay put, and no        *)
(* payment is refused that some UTxOs could make: an amount grows with the *)
(* set, and a UTxO always brings more lovelace than its policies set       *)
(* aside.  Given headroom in the fee estimate, what Selecting covers is    *)
(* then built.                                                             *)
(*                                                                         *)
(* ReportInv of VaultReports says when each address was read.  Histories   *)
(* follow by counting what is newer than a transaction, balances by        *)
(* comparing sums address by address.                                      *)
(***************************************************************************)
EXTENDS CoinSelection, VaultReports, FiniteSetTheorems, SequenceTheorems, WellFoundedInduction, TLAPS

\* The constants are the numbers and sets they are meant to be.
LEMMA Constants ==
  /\ MaxInputs \in Nat /\ MaxIterations \in Nat /\ MaxIterations >= 3
  /\ Tolerance \in Nat /\ InitialFee \in Nat /\ FeeLimit \in Nat
  /\ FeeBase \in Nat /\ FeePerInput \in Nat /\ FeePerPolicy \in Nat
  /\ FeeWide \in Nat /\ FeeWide <= Tolerance
  /\ IsFiniteSet(Utxo) /\ IsFiniteSet(Asset)
  BY SetsAssumption, LimitsAssumption, FeeAssumption

\* The wallet's domain stays within the UTxOs; the loop's counter below its
\* limit while it runs.
WalletOK == DOMAIN wallet \subseteq Utxo

\* What the fee loop knows of its fee (convergeTransactionFee): after a round
\* it is the fee of the narrow or of the wide body, after two of the wide
\* one, and two rounds are all that can fail to fit.
FeeKnown ==
  phase = "build" =>
    /\ iteration <= 2
    /\ iteration >= 1 => fee \in {NarrowFee, NarrowFee + FeeWide}
    /\ iteration = 2 => fee = NarrowFee + FeeWide

\* Before the loop starts, no round has been counted.
NotStarted == phase \in {"tokens", "ada", "refused"} => iteration = 0

Inv == TypeOK /\ WalletOK /\ InputsBounded /\ NotStarted /\ FeeKnown
       /\ FeeConverges

-----------------------------------------------------------------------------
\* The fee of the body without its change's width is a number, whatever the
\* change carries.
LEMMA NarrowFeeType ==
  ASSUME selected \in SUBSET Utxo
  PROVE  NarrowFee \in Nat
<1>1. IsFiniteSet(selected) /\ Cardinality(selected) \in Nat
  BY Constants, FS_Subset, FS_CardinalityType
<1> DEFINE P == ChangePolicies \union Wanted
<1>2. P \in SUBSET Asset
  BY DEF ChangePolicies, Wanted
<1>3. IsFiniteSet(P) /\ Cardinality(P) \in Nat
  BY <1>2, Constants, FS_Subset, FS_CardinalityType
<1>4. FeePerInput * Cardinality(selected) \in Nat
  BY <1>1, Constants
<1>5. FeePerPolicy * Cardinality(P) \in Nat
  BY <1>3, Constants
<1> QED
  BY <1>4, <1>5, Constants DEF NarrowFee

\* The needed fee is that of the narrow or of the wide body.
LEMMA NeededFeeCases ==
  ASSUME NarrowFee \in Nat
  PROVE  NeededFee \in {NarrowFee, NarrowFee + FeeWide} /\ NeededFee \in Nat
  BY Constants DEF NeededFee

\* The loop does not touch what the body's fee depends on.
LEMMA NarrowFeeKept ==
  ASSUME UNCHANGED <<wallet, req, selected>>
  PROVE  NarrowFee' = NarrowFee
<1>1. \A a \in Asset : Tokens(selected, a)' = Tokens(selected, a)
  BY DEF Tokens
<1>2. ChangePolicies' = ChangePolicies
  BY <1>1 DEF ChangePolicies
<1>3. Wanted' = Wanted
  BY DEF Wanted
<1> QED
  BY <1>2, <1>3 DEF NarrowFee

-----------------------------------------------------------------------------
\* The first states.
LEMMA Start == Init => Inv
<1> SUFFICES ASSUME Init PROVE Inv
  OBVIOUS
<1>1. TypeOK
  BY Constants DEF Init, TypeOK
<1>2. WalletOK
  BY DEF Init, WalletOK
<1>3. InputsBounded
  BY Constants, FS_EmptySet DEF Init, InputsBounded
<1>4. NotStarted /\ FeeKnown /\ FeeConverges
  BY DEF Init, NotStarted, FeeKnown, FeeConverges
<1> QED
  BY <1>1, <1>2, <1>3, <1>4 DEF Inv

\* Taking one more input.
LEMMA TakeStep == Inv /\ Take => Inv'
<1> SUFFICES ASSUME Inv, Take PROVE Inv'
  OBVIOUS
<1>1. PICK u \in Left : selected' = selected \union {u}
  BY DEF Take
<1>2. u \in Utxo
  BY <1>1 DEF Left, Eligible, Inv, WalletOK
<1>3. IsFiniteSet(selected) /\ Cardinality(selected) \in Nat
  BY Constants, FS_Subset, FS_CardinalityType DEF Inv, TypeOK
<1>4. Cardinality(selected) < MaxInputs
  BY <1>3, Constants DEF Take, Stops, AtCap
<1>5. InputsBounded'
  <2>1. Cardinality(selected \union {u}) =
          IF u \in selected THEN Cardinality(selected)
          ELSE Cardinality(selected) + 1
    BY <1>3, FS_AddElement
  <2> QED
    BY <2>1, <1>1, <1>3, <1>4, Constants DEF InputsBounded
<1>6. TypeOK'
  BY <1>1, <1>2 DEF Inv, TypeOK, Take
<1>7. WalletOK' /\ NotStarted' /\ FeeKnown' /\ FeeConverges'
  BY DEF Inv, WalletOK, NotStarted, FeeKnown, FeeConverges, Take
<1> QED
  BY <1>5, <1>6, <1>7 DEF Inv

\* The end of the first phase.
LEMMA SupplementStep == Inv /\ Supplement => Inv'
<1> SUFFICES ASSUME Inv, Supplement PROVE Inv'
  OBVIOUS
<1>1. \/ phase' = "refused" /\ reason' = "tokens" /\ picked' = picked
      \/ phase' = "ada" /\ picked' = selected /\ reason' = reason
  BY DEF Supplement, Refuse
<1>2. UNCHANGED <<wallet, req, selected, fee, iteration>> /\ phase = "tokens"
  BY DEF Supplement
<1>3. TypeOK'
  BY <1>1, <1>2 DEF Inv, TypeOK
<1>4. WalletOK' /\ NotStarted' /\ FeeKnown' /\ FeeConverges'
  BY <1>1, <1>2 DEF Inv, WalletOK, NotStarted, FeeKnown, FeeConverges
<1>5. InputsBounded'
  BY <1>2 DEF Inv, InputsBounded
<1> QED
  BY <1>3, <1>4, <1>5 DEF Inv

\* The balance checks.
LEMMA CheckStep == Inv /\ Check => Inv'
<1> SUFFICES ASSUME Inv, Check PROVE Inv'
  OBVIOUS
<1>1. \/ phase' = "refused" /\ reason' \in {"cap", "balance"}
      \/ phase' = "build" /\ reason' = reason
  BY DEF Check, Refuse
<1>2. /\ UNCHANGED <<wallet, req, selected, picked, fee, iteration>>
      /\ phase = "ada"
  BY DEF Check
<1>3. TypeOK'
  BY <1>1, <1>2 DEF Inv, TypeOK
<1>4. WalletOK' /\ NotStarted' /\ FeeKnown' /\ FeeConverges'
  BY <1>1, <1>2 DEF Inv, WalletOK, NotStarted, FeeKnown, FeeConverges
<1>5. InputsBounded'
  BY <1>2 DEF Inv, InputsBounded
<1> QED
  BY <1>3, <1>4, <1>5 DEF Inv

\* A round of the fee loop.  If it goes on, the new fee is what the body of
\* the old one asks for; if the old fee was such a fee too, it was the narrow
\* one, or it would have fitted.
LEMMA IterateStep == Inv /\ Iterate => Inv'
<1> SUFFICES ASSUME Inv, Iterate PROVE Inv'
  OBVIOUS
<1>1. UNCHANGED <<wallet, req, selected, picked>> /\ phase = "build"
  BY DEF Iterate
<1>2. NarrowFee' = NarrowFee /\ NarrowFee \in Nat
  BY <1>1, NarrowFeeKept, NarrowFeeType DEF Inv, TypeOK
<1>3. NeededFee \in {NarrowFee, NarrowFee + FeeWide} /\ NeededFee \in Nat
  BY <1>2, NeededFeeCases
<1>4. WalletOK' /\ InputsBounded'
  BY <1>1 DEF Inv, WalletOK, InputsBounded
<1>5. CASE UNCHANGED <<fee, iteration>>
  <2>1. \/ phase' = "failed" /\ reason' \in {"outputs", "limit"}
        \/ phase' = "built" /\ reason' = reason
    BY <1>2, <1>3, <1>5 DEF Iterate, Fail, Inv, TypeOK
  <2>2. TypeOK'
    BY <2>1, <1>1, <1>5 DEF Inv, TypeOK
  <2>3. NotStarted' /\ FeeKnown' /\ FeeConverges'
    BY <2>1, <1>1, <1>5 DEF Inv, NotStarted, FeeKnown, FeeConverges
  <2> QED
    BY <2>2, <2>3, <1>4 DEF Inv
<1>6. CASE ~Fits /\ fee' = NeededFee /\ iteration' = iteration + 1
           /\ IF iteration + 1 = MaxIterations THEN Fail("diverged")
              ELSE UNCHANGED <<phase, reason>>
  <2>1. iteration \in Nat /\ fee \in Nat /\ iteration <= 2
    BY <1>1 DEF Inv, TypeOK, FeeKnown
  <2>2. ~(fee >= NeededFee /\ fee - NeededFee <= Tolerance)
    BY <1>6 DEF Fits
  <2>3. iteration >= 1 =>
          fee = NarrowFee /\ NeededFee = NarrowFee + FeeWide
    <3> SUFFICES ASSUME iteration >= 1
                 PROVE  fee = NarrowFee /\ NeededFee = NarrowFee + FeeWide
      OBVIOUS
    <3>1. fee \in {NarrowFee, NarrowFee + FeeWide}
      BY <1>1 DEF Inv, FeeKnown
    <3> QED
      BY <3>1, <2>2, <1>2, <1>3, Constants
  <2>4. iteration # 2
    <3> SUFFICES ASSUME iteration = 2 PROVE FALSE
      OBVIOUS
    <3>1. fee = NarrowFee + FeeWide
      BY <1>1 DEF Inv, FeeKnown
    <3> QED
      BY <3>1, <2>2, <1>2, <1>3, Constants
  <2>5. iteration + 1 # MaxIterations /\ iteration + 1 <= 2
    BY <2>1, <2>4, Constants
  <2>6. UNCHANGED <<phase, reason>>
    BY <2>5, <1>6
  <2>7. TypeOK'
    BY <2>1, <2>5, <2>6, <1>1, <1>3, <1>6, Constants DEF Inv, TypeOK
  <2>8. FeeKnown'
    <3>1. iteration' \in 1..2
      BY <2>1, <2>5, <1>6
    <3>2. fee' \in {NarrowFee', NarrowFee' + FeeWide}
      BY <1>2, <1>3, <1>6
    <3>3. iteration' = 2 => fee' = NarrowFee' + FeeWide
      BY <2>1, <2>3, <1>2, <1>6
    <3> QED
      BY <3>1, <3>2, <3>3 DEF FeeKnown
  <2>9. NotStarted' /\ FeeConverges'
    BY <2>6, <1>1 DEF Inv, NotStarted, FeeConverges
  <2> QED
    BY <2>7, <2>8, <2>9, <1>4 DEF Inv
<1> QED
  BY <1>5, <1>6 DEF Iterate

\* The invariant holds throughout.
LEMMA Invariant == Spec => []Inv
<1>1. Inv /\ [Next]_vars => Inv'
  <2> SUFFICES ASSUME Inv, [Next]_vars PROVE Inv'
    OBVIOUS
  <2>1. CASE Next
    BY <2>1, TakeStep, SupplementStep, CheckStep, IterateStep DEF Next
  <2>2. CASE UNCHANGED vars
    <3>1. NarrowFee' = NarrowFee
      BY <2>2, NarrowFeeKept DEF vars
    <3> QED
      BY <2>2, <3>1 DEF vars, Inv, TypeOK, WalletOK, InputsBounded,
                        NotStarted, FeeKnown, FeeConverges
  <2> QED
    BY <2>1, <2>2
<1> QED
  BY Start, <1>1, PTL DEF Spec

-----------------------------------------------------------------------------
\* The variables of a selection and of the fee loop keep their types, and a
\* transfer that ends without a body says why.
THEOREM TypeCorrect == Spec => []TypeOK
<1>1. Inv => TypeOK
  BY DEF Inv
<1> QED
  BY Invariant, <1>1, PTL

\* For every wallet and every limit, no selection exceeds MAX_TX_INPUTS, though
\* two phases add to it (cardano.ts, the three fetchAndSelectUtxos).
THEOREM InputsBoundedInvariant == Spec => []InputsBounded
<1>1. Inv => InputsBounded
  BY DEF Inv
<1> QED
  BY Invariant, <1>1, PTL

\* For every wallet, request and fee schedule in which a wider change costs no
\* more than TX_FEE_TOLERANCE, convergeTransactionFee ends decided: its "did
\* not converge" error is never thrown.
THEOREM FeeConvergesInvariant == Spec => []FeeConverges
<1>1. Inv => FeeConverges
  BY DEF Inv
<1> QED
  BY Invariant, <1>1, PTL

-----------------------------------------------------------------------------
\* Sums over finite sets.  The library defines them through a table of the
\* sums of all subsets, each of a summand and the rest.

SumStep(f, s, iter) ==
  IF s = {} THEN 0 ELSE LET x == CHOOSE x \in s : TRUE IN f[x] + iter[s \ {x}]
IsSum(f, S, iter) == iter = [s \in SUBSET S |-> SumStep(f, s, iter)]
SumOn(f, S) == (CHOOSE iter : IsSum(f, S, iter))[S]

\* Among the subsets of a finite set that are bad in some way, one has no bad
\* subset of its own.  The lemmas below reach all finite sets through it.
LEMMA SmallestSet ==
  ASSUME NEW S, IsFiniteSet(S), NEW B \in SUBSET (SUBSET S), B # {}
  PROVE  \E U \in B : \A V \in B : V \subseteq U => V = U
<1>1. FiniteSubsetsOf(S) = SUBSET S
  BY FS_FiniteSubsetsOfFinite
<1>2. IsWellFoundedOn(StrictSubsetOrdering(S), SUBSET S)
  BY <1>1, FS_StrictSubsetOrderingWellFounded
<1>3. PICK U \in B : \A V \in B : <<V, U>> \notin StrictSubsetOrdering(S)
  BY <1>2, WFMin
<1> QED
  BY <1>3 DEF StrictSubsetOrdering

\* Two tables of the sums of f agree where both have an entry.
LEMMA SumUnique ==
  ASSUME NEW f, NEW S, NEW T, NEW g, NEW h, IsSum(f, S, g), IsSum(f, T, h), 
         NEW s, s \subseteq S, s \subseteq T, IsFiniteSet(s)
  PROVE  g[s] = h[s]
<1> DEFINE B == {u \in SUBSET s : g[u] # h[u]}
<1> SUFFICES ASSUME B # {} PROVE FALSE
  OBVIOUS
<1>1. PICK u \in B : \A v \in B : v \subseteq u => v = u
  <2>1. B \in SUBSET (SUBSET s)
    OBVIOUS
  <2> HIDE DEF B
  <2> QED
    BY <2>1, SmallestSet
<1>2. u \subseteq S /\ u \subseteq T /\ g[u] # h[u]
  BY <1>1
<1>3. g[u] = SumStep(f, u, g) /\ h[u] = SumStep(f, u, h)
  BY <1>2 DEF IsSum
<1>4. CASE u = {}
  BY <1>2, <1>3, <1>4 DEF SumStep
<1>5. CASE u # {}
  <2> DEFINE x == CHOOSE x \in u : TRUE
  <2>1. x \in u
    BY <1>5
  <2>2. u \ {x} \in SUBSET s /\ u \ {x} \subseteq u /\ u \ {x} # u
    BY <1>1, <2>1
  <2>3. g[u \ {x}] = h[u \ {x}]
    BY <1>1, <2>2
  <2> QED
    BY <1>2, <1>3, <1>5, <2>3 DEF SumStep
<1> QED
  BY <1>4, <1>5

\* The sums of f over the subsets of a finite set have a table.
LEMMA SumExists ==
  ASSUME NEW f, NEW S, IsFiniteSet(S)
  PROVE  \E g : IsSum(f, S, g)
<1> DEFINE B == {u \in SUBSET S : ~\E g : IsSum(f, u, g)}
<1> SUFFICES ASSUME B # {} PROVE FALSE
  OBVIOUS
<1>1. PICK U \in B : \A v \in B : v \subseteq U => v = U
  <2>1. B \in SUBSET (SUBSET S)
    OBVIOUS
  <2> HIDE DEF B
  <2> QED
    BY <2>1, SmallestSet
<1>2. IsFiniteSet(U) /\ ~\E g : IsSum(f, U, g)
  BY <1>1, FS_Subset
<1> DEFINE val(s) == (CHOOSE g : IsSum(f, s, g))[s]
           iter == [s \in SUBSET U |-> IF s = {} THEN 0
                       ELSE LET x == CHOOSE x \in s : TRUE IN f[x] + val(s \ {x})]
<1>3. ASSUME NEW s \in SUBSET U, s # U PROVE iter[s] = val(s)
  <2> DEFINE g == CHOOSE g : IsSum(f, s, g)
             x == CHOOSE x \in s : TRUE
  <2>1. IsSum(f, s, g)
    <3>1. \E h : IsSum(f, s, h)
      BY <1>1, <1>3
    <3> QED
      BY <3>1
  <2>2. g[s] = SumStep(f, s, g)
    BY <2>1 DEF IsSum
  <2>3. CASE s = {}
    BY <2>2, <2>3 DEF SumStep
  <2>4. CASE s # {}
    <3>1. x \in s /\ s \ {x} \in SUBSET U /\ s \ {x} # U
      BY <2>4
    <3> DEFINE h == CHOOSE h : IsSum(f, s \ {x}, h)
    <3>2. IsSum(f, s \ {x}, h)
      <4>1. \E h1 : IsSum(f, s \ {x}, h1)
        BY <1>1, <3>1
      <4> QED
        BY <4>1
    <3>3. IsFiniteSet(s \ {x})
      BY <1>2, <3>1, FS_Subset
    <3>4. g[s \ {x}] = h[s \ {x}]
      <4> HIDE DEF g, h, x
      <4> QED
        BY <2>1, <3>2, <3>3, SumUnique
    <3>5. g[s] = f[x] + g[s \ {x}]
      BY <2>2, <2>4 DEF SumStep
    <3>6. iter[s] = f[x] + val(s \ {x})
      BY <2>4
    <3> QED
      BY <3>4, <3>5, <3>6
  <2> QED
    BY <2>3, <2>4
<1>4. IsSum(f, U, iter)
  <2>1. ASSUME NEW s \in SUBSET U PROVE iter[s] = SumStep(f, s, iter)
    <3>1. CASE s = {}
      BY <3>1 DEF SumStep
    <3>2. CASE s # {}
      <4> DEFINE x == CHOOSE x \in s : TRUE
      <4>1. x \in s /\ s \ {x} \in SUBSET U /\ s \ {x} # U
        BY <3>2
      <4>2. iter[s \ {x}] = val(s \ {x})
        BY <1>3, <4>1
      <4>3. iter[s] = f[x] + val(s \ {x})
        BY <3>2
      <4> HIDE DEF iter
      <4> QED
        BY <3>2, <4>2, <4>3 DEF SumStep
    <3> QED
      BY <3>1, <3>2
  <2> QED
    BY <2>1 DEF IsSum
<1> QED
  BY <1>2, <1>4

\* A sum is its chosen summand and the sum of the others.
LEMMA SumOnIs ==
  ASSUME NEW f, NEW S, IsFiniteSet(S)
  PROVE  /\ S = {} => SumOn(f, S) = 0
         /\ S # {} => LET x == CHOOSE x \in S : TRUE
                      IN  SumOn(f, S) = f[x] + SumOn(f, S \ {x})
<1> DEFINE g == CHOOSE iter : IsSum(f, S, iter)
           x == CHOOSE x \in S : TRUE
           h == CHOOSE iter : IsSum(f, S \ {x}, iter)
<1>1. IsSum(f, S, g)
  BY SumExists
<1>2. g[S] = SumStep(f, S, g)
  BY <1>1 DEF IsSum
<1>3. CASE S = {}
  BY <1>2, <1>3 DEF SumOn, SumStep
<1>4. CASE S # {}
  <2>1. x \in S
    BY <1>4
  <2>2. IsFiniteSet(S \ {x})
    BY FS_RemoveElement
  <2>3. IsSum(f, S \ {x}, h)
    BY <2>2, SumExists
  <2>4. g[S \ {x}] = h[S \ {x}]
    <3> HIDE DEF g, h, x
    <3> QED
      BY <1>1, <2>2, <2>3, SumUnique
  <2> QED
    BY <1>2, <1>4, <2>4 DEF SumOn, SumStep
<1> QED
  BY <1>3, <1>4

\* Sums of numbers are numbers, and one more summand adds its value.
LEMMA SumAdds ==
  ASSUME NEW S, IsFiniteSet(S), NEW f, \A u \in S : f[u] \in Int
  PROVE  /\ SumOn(f, S) \in Int
         /\ \A y \in S : SumOn(f, S) = SumOn(f, S \ {y}) + f[y]
<1> DEFINE Good(T) == /\ SumOn(f, T) \in Int
                      /\ \A y \in T : SumOn(f, T) = SumOn(f, T \ {y}) + f[y]
           B == {T \in SUBSET S : ~Good(T)}
<1> SUFFICES ASSUME B # {} PROVE FALSE
  OBVIOUS
<1>1. PICK T \in B : \A V \in B : V \subseteq T => V = T
  <2>1. B \in SUBSET (SUBSET S)
    OBVIOUS
  <2> HIDE DEF B
  <2> QED
    BY <2>1, SmallestSet
<1>2. /\ T \in SUBSET S /\ IsFiniteSet(T) /\ ~Good(T)
      /\ \A V \in SUBSET T : V # T => Good(V) /\ IsFiniteSet(V)
  BY <1>1, FS_Subset
<1>3. CASE T = {}
  <2>1. SumOn(f, T) = 0
    BY <1>2, <1>3, SumOnIs
  <2> QED
    BY <1>2, <1>3, <2>1
<1>4. CASE T # {}
  <2> DEFINE x == CHOOSE x \in T : TRUE
  <2>1. x \in T /\ f[x] \in Int
    BY <1>2, <1>4
  <2>2. SumOn(f, T) = f[x] + SumOn(f, T \ {x})
    BY <1>2, <1>4, SumOnIs
  <2> HIDE DEF x
  <2>3. Good(T \ {x})
    BY <1>2, <2>1
  <2>4. ASSUME NEW y \in T PROVE SumOn(f, T) = SumOn(f, T \ {y}) + f[y]
    <3>1. CASE y = x
      BY <2>1, <2>2, <2>3, <3>1
    <3>2. CASE y # x
      <4>1. Good(T \ {y}) /\ Good((T \ {x}) \ {y})
        BY <1>2, <2>1
      <4>2. (T \ {y}) \ {x} = (T \ {x}) \ {y}
        OBVIOUS
      <4>3. /\ SumOn(f, T \ {x}) = SumOn(f, (T \ {x}) \ {y}) + f[y]
            /\ SumOn(f, T \ {y}) = SumOn(f, (T \ {x}) \ {y}) + f[x]
        BY <2>1, <2>3, <3>2, <4>1, <4>2
      <4>4. SumOn(f, (T \ {x}) \ {y}) \in Int /\ f[y] \in Int
        BY <1>2, <4>1
      <4> QED
        BY <2>1, <2>2, <4>3, <4>4
    <3> QED
      BY <3>1, <3>2
  <2> QED
    BY <1>2, <2>1, <2>2, <2>3, <2>4
<1> QED
  BY <1>3, <1>4

\* A sum looks only at the summands.
LEMMA SumCongruent ==
  ASSUME NEW S, IsFiniteSet(S), NEW f, NEW g, \A u \in S : f[u] = g[u]
  PROVE  SumOn(f, S) = SumOn(g, S)
<1> DEFINE B == {T \in SUBSET S : SumOn(f, T) # SumOn(g, T)}
<1> SUFFICES ASSUME B # {} PROVE FALSE
  OBVIOUS
<1>1. PICK T \in B : \A V \in B : V \subseteq T => V = T
  <2>1. B \in SUBSET (SUBSET S)
    OBVIOUS
  <2> HIDE DEF B
  <2> QED
    BY <2>1, SmallestSet
<1>2. T \in SUBSET S /\ IsFiniteSet(T) /\ SumOn(f, T) # SumOn(g, T)
  BY <1>1, FS_Subset
<1>3. CASE T = {}
  BY <1>2, <1>3, SumOnIs
<1>4. CASE T # {}
  <2> DEFINE x == CHOOSE x \in T : TRUE
  <2>1. x \in T /\ f[x] = g[x]
    BY <1>2, <1>4
  <2>2. SumOn(f, T \ {x}) = SumOn(g, T \ {x})
    BY <1>1, <1>2, <2>1
  <2>3. /\ SumOn(f, T) = f[x] + SumOn(f, T \ {x})
        /\ SumOn(g, T) = g[x] + SumOn(g, T \ {x})
    BY <1>2, <1>4, SumOnIs
  <2> QED
    BY <1>2, <2>1, <2>2, <2>3
<1> QED
  BY <1>3, <1>4

\* A sum is no larger than another of which every summand it lacks is not
\* negative, every one it has besides is not positive, and the common ones
\* are no smaller.
LEMMA SumGrows ==
  ASSUME NEW X, IsFiniteSet(X), NEW S \in SUBSET X, NEW T \in SUBSET X,
         NEW f, NEW g, \A u \in X : f[u] \in Int /\ g[u] \in Int,
         \A u \in S \ T : f[u] <= 0, \A u \in T \ S : g[u] >= 0,
         \A u \in S \cap T : f[u] <= g[u]
  PROVE  SumOn(f, S) <= SumOn(g, T)
<1> DEFINE B == {U \in SUBSET X : ~(SumOn(f, S \cap U) <= SumOn(g, T \cap U))}
<1> SUFFICES ASSUME B # {} PROVE FALSE
  <2>1. S \cap X = S /\ T \cap X = T
    OBVIOUS
  <2> QED
    BY <2>1
<1>1. PICK U \in B : \A V \in B : V \subseteq U => V = U
  <2>1. B \in SUBSET (SUBSET X)
    OBVIOUS
  <2> HIDE DEF B
  <2> QED
    BY <2>1, SmallestSet
<1>2. /\ U \in SUBSET X
      /\ ~(SumOn(f, S \cap U) <= SumOn(g, T \cap U))
  BY <1>1
<1>3. ASSUME NEW V \in SUBSET X
      PROVE  IsFiniteSet(S \cap V) /\ IsFiniteSet(T \cap V)
  BY FS_Subset
<1>4. CASE U = {}
  <2>1. S \cap U = {} /\ T \cap U = {}
    BY <1>4
  <2>2. SumOn(f, S \cap U) = 0 /\ SumOn(g, T \cap U) = 0
    BY <1>2, <1>3, <2>1, SumOnIs
  <2> QED
    BY <1>2, <2>2
<1>5. CASE U # {}
  <2>1. PICK x \in U : TRUE
    BY <1>5
  <2> DEFINE V == U \ {x}
             A == S \cap V
             C == T \cap V
  <2>2. SumOn(f, A) <= SumOn(g, C)
    <3>1. V \in SUBSET X /\ V \notin B
      BY <1>1, <1>2, <2>1
    <3> QED
      BY <3>1
  <2>3. SumOn(f, A) \in Int /\ SumOn(g, C) \in Int
    BY <1>2, <1>3, SumAdds
  <2>4. x \in S => SumOn(f, S \cap U) = SumOn(f, A) + f[x]
    <3>1. (S \cap U) \ {x} = A
      OBVIOUS
    <3> HIDE DEF A
    <3> QED
      BY <1>2, <1>3, <2>1, <3>1, SumAdds
  <2>5. x \in T => SumOn(g, T \cap U) = SumOn(g, C) + g[x]
    <3>1. (T \cap U) \ {x} = C
      OBVIOUS
    <3> HIDE DEF C
    <3> QED
      BY <1>2, <1>3, <2>1, <3>1, SumAdds
  <2>6. /\ x \notin S => SumOn(f, S \cap U) = SumOn(f, A)
        /\ x \notin T => SumOn(g, T \cap U) = SumOn(g, C)
    <3>1. /\ x \notin S => S \cap U = A
          /\ x \notin T => T \cap U = C
      OBVIOUS
    <3> QED
      BY <3>1
  <2>7. f[x] \in Int /\ g[x] \in Int
    BY <1>2, <2>1
  <2> HIDE DEF A, C
  <2>8. CASE x \in S /\ x \in T
    BY <1>2, <2>2, <2>3, <2>4, <2>5, <2>7, <2>8
  <2>9. CASE x \in S /\ x \notin T
    <3>1. f[x] <= 0
      BY <2>9
    <3> QED
      BY <1>2, <2>2, <2>3, <2>4, <2>6, <2>7, <2>9, <3>1
  <2>10. CASE x \notin S /\ x \in T
    <3>1. g[x] >= 0
      BY <2>10
    <3> QED
      BY <1>2, <2>2, <2>3, <2>5, <2>6, <2>7, <2>10, <3>1
  <2>11. CASE x \notin S /\ x \notin T
    BY <1>2, <2>2, <2>6, <2>11
  <2> QED
    BY <2>8, <2>9, <2>10, <2>11
<1> QED
  BY <1>4, <1>5

\* The library's sum is such a sum.
LEMMA SumFunctionIs ==
  ASSUME NEW f
  PROVE  SumFunction(f) = SumOn(f, DOMAIN f)
  BY DEF SumFunction, SumFunctionOnSet, FoldFunction, FoldFunctionOnSet,
         MapThenFoldSet, SumOn, IsSum, SumStep

\* The sum of two tables is the sum of their sums.
LEMMA SumPlus ==
  ASSUME NEW S, IsFiniteSet(S), NEW f, NEW g, NEW h,
         \A u \in S : f[u] \in Int /\ g[u] \in Int /\ h[u] = f[u] + g[u]
  PROVE  SumOn(h, S) = SumOn(f, S) + SumOn(g, S)
<1> DEFINE B == {T \in SUBSET S : SumOn(h, T) # SumOn(f, T) + SumOn(g, T)}
<1> SUFFICES ASSUME B # {} PROVE FALSE
  OBVIOUS
<1>1. PICK T \in B : \A V \in B : V \subseteq T => V = T
  <2>1. B \in SUBSET (SUBSET S)
    OBVIOUS
  <2> HIDE DEF B
  <2> QED
    BY <2>1, SmallestSet
<1>2. /\ T \in SUBSET S /\ IsFiniteSet(T)
      /\ SumOn(h, T) # SumOn(f, T) + SumOn(g, T)
  BY <1>1, FS_Subset
<1>3. CASE T = {}
  <2>1. SumOn(h, T) = 0 /\ SumOn(f, T) = 0 /\ SumOn(g, T) = 0
    BY <1>2, <1>3, SumOnIs
  <2> QED
    BY <1>2, <2>1
<1>4. CASE T # {}
  <2>1. PICK x \in T : TRUE
    BY <1>4
  <2>2. T \ {x} \in SUBSET S /\ IsFiniteSet(T \ {x}) /\ T \ {x} # T
    BY <1>2, <2>1, FS_Subset
  <2>3. SumOn(h, T \ {x}) = SumOn(f, T \ {x}) + SumOn(g, T \ {x})
    BY <1>1, <2>2
  <2>4. f[x] \in Int /\ g[x] \in Int /\ h[x] = f[x] + g[x]
    BY <1>2, <2>1
  <2>5. /\ \A u \in T : f[u] \in Int
        /\ \A u \in T : g[u] \in Int
        /\ \A u \in T : h[u] \in Int
    BY <1>2
  <2>6. SumOn(f, T) = SumOn(f, T \ {x}) + f[x]
    BY <1>2, <2>1, <2>5, SumAdds
  <2>7. SumOn(g, T) = SumOn(g, T \ {x}) + g[x]
    BY <1>2, <2>1, <2>5, SumAdds
  <2>8. SumOn(h, T) = SumOn(h, T \ {x}) + h[x]
    BY <1>2, <2>1, <2>5, SumAdds
  <2>9. SumOn(f, T \ {x}) \in Int /\ SumOn(g, T \ {x}) \in Int
    BY <2>2, <2>5, SumAdds
  <2> QED
    BY <1>2, <2>3, <2>4, <2>6, <2>7, <2>8, <2>9
<1> QED
  BY <1>3, <1>4

\* The library's sum of a table over a finite set.
LEMMA SumOfTable ==
  ASSUME NEW S, IsFiniteSet(S), NEW f, DOMAIN f = S, \A u \in S : f[u] \in Int
  PROVE  SumFunction(f) = SumOn(f, S) /\ SumFunction(f) \in Int
BY SumFunctionIs, SumAdds

-----------------------------------------------------------------------------
\* Amounts of the wallet's UTxOs

\* The wallet holds what the ledger allows, and the inputs are from it.
WalletKnown ==
  /\ wallet \in [DOMAIN wallet -> UtxoValue]
  /\ DOMAIN wallet \subseteq Utxo
  /\ selected \subseteq DOMAIN wallet

\* A UTxO of the wallet holds amounts, and lovelace for its policies.
LEMMA WalletValues ==
  ASSUME WalletKnown, NEW u \in DOMAIN wallet
  PROVE  /\ wallet[u].ada \in Nat
         /\ \A a \in Asset : wallet[u].tok[a] \in Nat
         /\ wallet[u].ada >= Cardinality(Policies({u})) * MinPerPolicy
<1>1. wallet[u] \in UtxoValue
  BY DEF WalletKnown
<1>2. /\ wallet[u].ada \in Nat
      /\ \A a \in Asset : wallet[u].tok[a] \in Nat
  BY <1>1, SetsAssumption DEF UtxoValue
<1> DEFINE P == {a \in Asset : wallet[u].tok[a] > 0}
<1>3. Policies({u}) = P
  BY DEF Policies
<1>4. Cardinality(P) \in 0..Cardinality(Asset)
  <2>1. P \in SUBSET Asset
    OBVIOUS
  <2> HIDE DEF P
  <2> QED
    BY <2>1, Constants, FS_Subset, FS_CardinalityType
<1>5. wallet[u].ada >= ProtoMin(Cardinality(P))
  BY <1>1 DEF UtxoValue
<1>6. ProtoMin(Cardinality(P)) >= Cardinality(P) * MinPerPolicy
  BY <1>4, MinimaAssumption
<1>7. ProtoMin(Cardinality(P)) \in Int /\ Cardinality(P) * MinPerPolicy \in Int
  BY <1>4, MinimaAssumption DEF ProtoMin
<1> QED
  BY <1>2, <1>3, <1>5, <1>6, <1>7

AdaOf    == [u \in DOMAIN wallet |-> wallet[u].ada]
TokOf(a) == [u \in DOMAIN wallet |-> wallet[u].tok[a]]

\* The subsets of the wallet are finite.
LEMMA WalletFinite ==
  ASSUME WalletKnown, NEW S \in SUBSET DOMAIN wallet
  PROVE  IsFiniteSet(S) /\ Cardinality(S) \in Nat
  BY Constants, FS_Subset, FS_CardinalityType DEF WalletKnown

\* The policies of a set of UTxOs can be counted.
LEMMA PoliciesFinite ==
  ASSUME NEW S
  PROVE  /\ IsFiniteSet(Policies(S))
         /\ Cardinality(Policies(S)) \in 0..Cardinality(Asset)
<1>1. Policies(S) \in SUBSET Asset
  BY DEF Policies
<1> QED
  BY <1>1, Constants, FS_Subset, FS_CardinalityType

\* The model's amounts are sums over the wallet.
LEMMA AmountsAre ==
  ASSUME WalletKnown, NEW S \in SUBSET DOMAIN wallet
  PROVE  /\ Ada(S) = SumOn(AdaOf, S)
         /\ \A a \in Asset : Tokens(S, a) = SumOn(TokOf(a), S)
<1>1. IsFiniteSet(S)
  BY WalletFinite
<1>2. Ada(S) = SumOn(AdaOf, S)
  <2> DEFINE f == [u \in S |-> wallet[u].ada]
  <2>1. Ada(S) = SumOn(f, S)
    BY SumFunctionIs DEF Ada
  <2>2. \A u \in S : f[u] = AdaOf[u]
    BY DEF AdaOf
  <2> HIDE DEF f
  <2> QED
    BY <1>1, <2>1, <2>2, SumCongruent
<1>3. ASSUME NEW a \in Asset PROVE Tokens(S, a) = SumOn(TokOf(a), S)
  <2> DEFINE f == [u \in S |-> wallet[u].tok[a]]
             g == TokOf(a)
  <2>1. Tokens(S, a) = SumOn(f, S)
    BY SumFunctionIs DEF Tokens
  <2>2. \A u \in S : f[u] = g[u]
    BY DEF TokOf
  <2> HIDE DEF f, g
  <2>3. SumOn(f, S) = SumOn(g, S)
    BY <1>1, <2>2, SumCongruent
  <2> QED
    BY <2>1, <2>3 DEF g
<1> QED
  BY <1>2, <1>3

\* An amount is a number, and one UTxO more adds its lovelace.
LEMMA AmountsAdd ==
  ASSUME WalletKnown, NEW S \in SUBSET DOMAIN wallet
  PROVE  /\ Ada(S) \in Int
         /\ \A a \in Asset : Tokens(S, a) \in Int
         /\ \A u \in S : Ada(S) = Ada(S \ {u}) + wallet[u].ada
<1>1. IsFiniteSet(S)
  BY WalletFinite
<1>2. \A u \in S : AdaOf[u] = wallet[u].ada /\ AdaOf[u] \in Int
  <2>1. \A u \in DOMAIN wallet : wallet[u].ada \in Nat
    BY WalletValues
  <2> QED
    BY <2>1 DEF AdaOf
<1>3. SumOn(AdaOf, S) \in Int
  BY <1>1, <1>2, SumAdds
<1>4. \A u \in S : SumOn(AdaOf, S) = SumOn(AdaOf, S \ {u}) + AdaOf[u]
  BY <1>1, <1>2, SumAdds
<1>5. \A u \in S : Ada(S \ {u}) = SumOn(AdaOf, S \ {u})
  BY AmountsAre
<1>6. Ada(S) = SumOn(AdaOf, S)
  BY AmountsAre
<1>7. ASSUME NEW a \in Asset PROVE Tokens(S, a) \in Int
  <2> DEFINE g == TokOf(a)
  <2>1. \A u \in S : g[u] \in Int
    <3>1. \A u \in DOMAIN wallet : wallet[u].tok[a] \in Nat
      BY WalletValues
    <3> QED
      BY <3>1 DEF TokOf
  <2> HIDE DEF g
  <2>2. SumOn(g, S) \in Int
    BY <1>1, <2>1, SumAdds
  <2> QED
    BY <2>2, AmountsAre DEF g
<1> QED
  BY <1>2, <1>3, <1>4, <1>5, <1>6, <1>7

\* No UTxOs hold more of a token than a set with every one that has it.
LEMMA TokensGrow ==
  ASSUME WalletKnown, NEW S \in SUBSET DOMAIN wallet,
         NEW T \in SUBSET DOMAIN wallet, NEW a \in Asset,
         \A u \in S \ T : ~(wallet[u].tok[a] > 0)
  PROVE  Tokens(S, a) <= Tokens(T, a)
<1> DEFINE g == TokOf(a)
<1>1. \A u \in DOMAIN wallet :
        g[u] \in Int /\ g[u] >= 0 /\ g[u] = wallet[u].tok[a]
  <2>1. \A u \in DOMAIN wallet : wallet[u].tok[a] \in Nat
    BY WalletValues
  <2> QED
    BY <2>1 DEF TokOf
<1>2. \A u \in S \ T : g[u] <= 0
  BY <1>1
<1>3. IsFiniteSet(DOMAIN wallet)
  BY WalletFinite
<1>4. \A u \in T \ S : g[u] >= 0
  BY <1>1
<1>5. \A u \in S \cap T : g[u] <= g[u]
  BY <1>1
<1> HIDE DEF g
<1>6. SumOn(g, S) <= SumOn(g, T)
  BY <1>1, <1>2, <1>3, <1>4, <1>5, SumGrows
<1> QED
  BY <1>6, AmountsAre DEF g

\* Counting: a multiple of the size of a union.
LEMMA UnionCost ==
  ASSUME NEW A, NEW C, IsFiniteSet(A), IsFiniteSet(C), NEW k \in Nat
  PROVE  /\ Cardinality(A \union C) * k \in Nat
         /\ Cardinality(A) * k \in Nat /\ Cardinality(C) * k \in Nat
         /\ Cardinality(A \union C) * k <= Cardinality(A) * k + Cardinality(C) * k
<1> DEFINE n == Cardinality(A \union C)
           m == Cardinality(A)
           l == Cardinality(C)
<1>1. n \in Nat /\ m \in Nat /\ l \in Nat /\ n <= m + l
  <2>1. IsFiniteSet(A \union C)
    BY FS_Union
  <2>2. n = m + l - Cardinality(A \cap C)
    BY FS_Union
  <2>3. Cardinality(A \cap C) \in Nat
    BY FS_Intersection, FS_CardinalityType
  <2>4. n \in Nat /\ m \in Nat /\ l \in Nat
    BY <2>1, FS_CardinalityType
  <2> HIDE DEF n, m, l
  <2> QED
    BY <2>2, <2>3, <2>4
<1> HIDE DEF n, m, l
<1>2. n * k \in Nat /\ m * k \in Nat /\ l * k \in Nat
  BY <1>1
<1>3. n * k <= (m + l) * k
  BY <1>1
<1>4. (m + l) * k = m * k + l * k
  BY <1>1
<1> QED
  BY <1>2, <1>3, <1>4 DEF n, m, l

\* What UTxOs hold beyond the minimum of their policies does not shrink when
\* more are added: each brings what its own policies set aside.
LEMMA NetAdaGrows ==
  ASSUME WalletKnown, NEW T \in SUBSET DOMAIN wallet, NEW S \in SUBSET T
  PROVE  Ada(T) - Cardinality(Policies(T)) * MinPerPolicy >=
           Ada(S) - Cardinality(Policies(S)) * MinPerPolicy
<1> DEFINE Net(V) == Ada(V) - Cardinality(Policies(V)) * MinPerPolicy
           B == {U \in SUBSET T : ~(Net(S \union U) >= Net(S))}
<1>1. MinPerPolicy \in Nat
  BY MinimaAssumption
<1>2. ASSUME NEW V \in SUBSET T
      PROVE  Ada(V) \in Int /\ Net(V) \in Int
                 /\ Cardinality(Policies(V)) * MinPerPolicy \in Nat
  BY <1>1, AmountsAdd, PoliciesFinite
<1> SUFFICES ASSUME B # {} PROVE FALSE
  <2>1. S \union T = T /\ T \in SUBSET T
    OBVIOUS
  <2>2. Net(S \union T) >= Net(S)
    BY <2>1
  <2> QED
    BY <2>1, <2>2
<1>3. IsFiniteSet(T)
  BY WalletFinite
<1>4. PICK U \in B : \A V \in B : V \subseteq U => V = U
  <2>1. B \in SUBSET (SUBSET T)
    OBVIOUS
  <2> HIDE DEF B
  <2> QED
    BY <1>3, <2>1, SmallestSet
<1>5. U \in SUBSET T /\ ~(Net(S \union U) >= Net(S))
  BY <1>4
<1>6. U # {}
  <2>1. S \union {} = S /\ Net(S) \in Int
    BY <1>2
  <2> HIDE DEF Net
  <2> QED
    BY <1>5, <2>1
<1>7. PICK x \in U : TRUE
  BY <1>6
<1> DEFINE V == S \union (U \ {x})
<1>8. V \in SUBSET T /\ S \union U \in SUBSET T
  BY <1>5
<1>9. Net(V) >= Net(S)
  <2>1. U \ {x} \in SUBSET T /\ U \ {x} \notin B
    BY <1>4, <1>5, <1>7
  <2> HIDE DEF Net
  <2> QED
    BY <2>1
<1>10. CASE x \in V
  <2>1. V = S \union U
    BY <1>7, <1>10
  <2> HIDE DEF Net, V
  <2> QED
    BY <1>5, <1>9, <2>1
<1>11. CASE x \notin V
  <2>1. (S \union U) \ {x} = V /\ x \in S \union U
    BY <1>7, <1>11
  <2>2. x \in DOMAIN wallet /\ S \union U \in SUBSET DOMAIN wallet
    BY <1>5, <1>7
  <2>3. Ada(S \union U) = Ada(V) + wallet[x].ada
    BY <2>1, <2>2, AmountsAdd
  <2>4. Policies(S \union U) = Policies(V) \union Policies({x})
    <3>1. S \union U = V \union {x}
      BY <2>1
    <3> HIDE DEF V
    <3> QED
      BY <3>1 DEF Policies
  <2>5. /\ wallet[x].ada \in Nat
        /\ wallet[x].ada >= Cardinality(Policies({x})) * MinPerPolicy
    BY <2>2, WalletValues
  <2>6. /\ Cardinality(Policies(S \union U)) * MinPerPolicy <=
             Cardinality(Policies(V)) * MinPerPolicy
               + Cardinality(Policies({x})) * MinPerPolicy
        /\ Cardinality(Policies({x})) * MinPerPolicy \in Nat
    BY <2>4, <1>1, UnionCost, PoliciesFinite
  <2>7. /\ Ada(V) \in Int /\ Net(V) \in Int /\ Net(S) \in Int
        /\ Ada(S \union U) \in Int /\ Net(S \union U) \in Int
        /\ Cardinality(Policies(V)) * MinPerPolicy \in Nat
        /\ Cardinality(Policies(S \union U)) * MinPerPolicy \in Nat
    BY <1>2, <1>8
  <2>8. Net(S \union U) >= Net(V)
    <3> HIDE DEF V
    <3> QED
      BY <2>3, <2>5, <2>6, <2>7
  <2> HIDE DEF Net, V
  <2> QED
    BY <1>5, <1>9, <2>7, <2>8
<1> QED
  BY <1>10, <1>11

\* Nothing holds nothing.
LEMMA NoTokens ==
  ASSUME WalletKnown, NEW a \in Asset
  PROVE  Tokens({}, a) = 0
<1>1. {} \in SUBSET DOMAIN wallet /\ IsFiniteSet({})
  BY FS_EmptySet
<1>2. Tokens({}, a) = SumOn(TokOf(a), {})
  BY <1>1, AmountsAre
<1> QED
  BY <1>1, <1>2, SumOnIs

-----------------------------------------------------------------------------
\* What the selection knows

\* The UTxOs with a wanted token, and those with no token at all.
Holders      == {u \in DOMAIN wallet : Policies({u}) \cap Wanted # {}}
AdaOnlyUtxos == {u \in DOMAIN wallet : AdaOnly(u)}

\* After the first phase of a token transfer the tokens are there; of one
\* token there may be too few, but then no UTxO with it was left out for
\* another reason than the limit on inputs.
TokensFound ==
  phase = "ada" /\ ~TokensEnough(selected) =>
    req.kind = "cnt" /\ (AtCap \/ Holders \subseteq selected)

\* An ADA transfer takes the UTxOs without tokens first, and stops among them
\* only when it has them all, has enough, or has no room.
AdaApart ==
  req.kind = "ada" =>
    /\ phase = "tokens" => selected \subseteq AdaOnlyUtxos
    /\ phase = "ada" /\ selected \subseteq AdaOnlyUtxos =>
         selected = AdaOnlyUtxos \/ AtCap \/ Ada(selected) >= Goal

Selecting == /\ req \in Request /\ WalletKnown /\ TokensFound /\ AdaApart
             /\ TokensStayPut /\ NoFalseRefusal

\* A transfer's kind, and what its kind says of the tokens it wants.
LEMMA Kinds ==
  ASSUME req \in Request
  PROVE  /\ req.kind \in {"cnt", "ada", "multi"} /\ req.amount \in Nat
         /\ \A a \in Asset : req.want[a] \in Nat
         /\ req.kind = "ada" => Wanted = {}
         /\ req.kind = "cnt" => Wanted # {}
<1>1. req \in [kind : {"cnt", "ada", "multi"}, want : [Asset -> Nat], amount : Nat]
  BY RequestAssumption
<1>2. req.kind = "ada" => \A a \in Asset : req.want[a] = 0
  BY RequestAssumption
<1>3. req.kind = "cnt" => \E a \in Asset : req.want[a] > 0
  BY RequestAssumption
<1> QED
  BY <1>1, <1>2, <1>3 DEF Wanted

\* The planned lovelace and the minima are numbers.
LEMMA GoalNumbers ==
  ASSUME req \in Request
  PROVE  /\ Planned \in Nat /\ EstimatedFee \in Nat /\ MinBase \in Nat
         /\ req.kind = "ada" => Planned = req.amount
         /\ req.kind = "multi" => Planned >= req.amount
         /\ \A S : /\ MinUtxo(Cardinality(Policies(S))) \in Nat
                   /\ Cardinality(Policies(S)) * MinPerPolicy \in Nat
<1>1. \A n \in Nat : MinUtxo(n) \in Nat /\ n * MinPerPolicy \in Nat
  BY MinimaAssumption DEF MinUtxo
<1>2. Cardinality(Wanted) \in Nat
  <2>1. Wanted \in SUBSET Asset
    BY DEF Wanted
  <2> QED
    BY <2>1, Constants, FS_Subset, FS_CardinalityType
<1>3. req.kind = "cnt" => Planned = MinUtxo(1)
  BY DEF Planned
<1>4. req.kind = "ada" => Planned = req.amount
  BY DEF Planned
<1>5. req.kind = "multi" => Planned = Larger(req.amount, MinUtxo(Cardinality(Wanted)))
  BY DEF Planned
<1>6. \A S : Cardinality(Policies(S)) \in Nat
  BY PoliciesFinite
<1> QED
  BY <1>1, <1>2, <1>3, <1>4, <1>5, <1>6, Kinds, MinimaAssumption DEF Larger

\* What only the wallet and the request decide.
LEMMA CoversKept ==
  ASSUME UNCHANGED <<wallet, req>>
  PROVE  /\ Wanted' = Wanted /\ Holders' = Holders
         /\ AdaOnlyUtxos' = AdaOnlyUtxos
         /\ \A S : Covers(S)' = Covers(S)
         /\ Covers(AdaOnlyUtxos)' = Covers(AdaOnlyUtxos)
<1>1. Wanted' = Wanted
  BY DEF Wanted
<1>2. \A S : Policies(S)' = Policies(S) /\ Ada(S)' = Ada(S)
  BY DEF Policies, Ada
<1>3. \A S, a : Tokens(S, a)' = Tokens(S, a)
  BY DEF Tokens
<1>4. \A S : TokensEnough(S)' = TokensEnough(S)
  BY <1>1, <1>3 DEF TokensEnough
<1>5. Planned' = Planned
  BY <1>1 DEF Planned
<1>6. \A S : Covers(S)' = Covers(S)
  BY <1>2, <1>4, <1>5 DEF Covers
<1>7. Holders' = Holders
  BY <1>1 DEF Holders, Policies
<1>8. AdaOnlyUtxos' = AdaOnlyUtxos
  BY DEF AdaOnlyUtxos, AdaOnly, Policies
<1>9. Covers(AdaOnlyUtxos)' = Covers(AdaOnlyUtxos)
  BY <1>1, <1>5, <1>8 DEF Covers, TokensEnough, Tokens, Ada, Policies
<1> QED
  BY <1>1, <1>6, <1>7, <1>8, <1>9

\* What the inputs decide as well.
LEMMA SelectedKept ==
  ASSUME UNCHANGED <<wallet, req, selected>>
  PROVE  /\ TokensEnough(selected)' = TokensEnough(selected)
         /\ Ada(selected)' = Ada(selected)
         /\ AtCap' = AtCap
         /\ req.kind = "ada" => Goal' = Goal
         /\ WalletKnown' = WalletKnown
         /\ TokensStayPut' = TokensStayPut
<1>1. TokensEnough(selected)' = TokensEnough(selected)
  BY DEF TokensEnough, Tokens, Wanted
<1>2. Ada(selected)' = Ada(selected) /\ AtCap' = AtCap
  BY DEF Ada, AtCap
<1>3. req.kind = "ada" => Goal' = Goal
  BY DEF Goal, Planned, Counted, Policies, Wanted
<1>4. WalletKnown' = WalletKnown
  BY DEF WalletKnown
<1>5. TokensStayPut' = TokensStayPut
  <2>1. (\E u \in selected : ~AdaOnly(u))' = (\E u \in selected : ~AdaOnly(u))
    BY DEF AdaOnly, Policies
  <2> QED
    BY <2>1, CoversKept DEF TokensStayPut, AdaOnlyUtxos
<1> QED
  BY <1>1, <1>2, <1>3, <1>4, <1>5

\* If the inputs have every UTxO with a wanted token and yet too few of
\* them, no UTxOs have enough.
LEMMA HoldersDecide ==
  ASSUME req \in Request, WalletKnown,
         NEW T \in SUBSET DOMAIN wallet, Holders \subseteq T,
         NEW S \in SUBSET DOMAIN wallet, TokensEnough(S)
  PROVE  TokensEnough(T)
<1> SUFFICES ASSUME NEW a \in Wanted PROVE Tokens(T, a) >= req.want[a]
  BY DEF TokensEnough
<1>1. a \in Asset
  BY DEF Wanted
<1>2. \A u \in S \ T : ~(wallet[u].tok[a] > 0)
  <2> SUFFICES ASSUME NEW u \in S \ T, wallet[u].tok[a] > 0 PROVE FALSE
    OBVIOUS
  <2>1. a \in Policies({u}) \cap Wanted
    BY <1>1 DEF Policies
  <2>2. u \in Holders
    BY <2>1 DEF Holders
  <2> QED
    BY <2>2
<1>3. Tokens(S, a) <= Tokens(T, a)
  BY <1>1, <1>2, TokensGrow
<1>4. Tokens(S, a) >= req.want[a]
  BY DEF TokensEnough
<1>5. Tokens(S, a) \in Int /\ Tokens(T, a) \in Int /\ req.want[a] \in Int
  <2>1. Tokens(S, a) \in Int
    BY <1>1, AmountsAdd
  <2>2. Tokens(T, a) \in Int
    BY <1>1, AmountsAdd
  <2>3. req.want[a] \in Nat
    BY <1>1, Kinds
  <2> QED
    BY <2>1, <2>2, <2>3
<1> QED
  BY <1>3, <1>4, <1>5

\* More inputs have no fewer tokens.
LEMMA TokensEnoughGrows ==
  ASSUME req \in Request, WalletKnown,
         NEW T \in SUBSET DOMAIN wallet, NEW S \in SUBSET T, TokensEnough(S)
  PROVE  TokensEnough(T)
<1> SUFFICES ASSUME NEW a \in Wanted PROVE Tokens(T, a) >= req.want[a]
  BY DEF TokensEnough
<1>1. a \in Asset /\ S \in SUBSET DOMAIN wallet
  BY DEF Wanted
<1>2. Tokens(S, a) <= Tokens(T, a)
  BY <1>1, TokensGrow
<1>3. Tokens(S, a) >= req.want[a]
  BY DEF TokensEnough
<1>4. Tokens(S, a) \in Int /\ Tokens(T, a) \in Int /\ req.want[a] \in Int
  <2>1. Tokens(S, a) \in Int
    BY <1>1, AmountsAdd
  <2>2. Tokens(T, a) \in Int
    BY <1>1, AmountsAdd
  <2>3. req.want[a] \in Nat
    BY <1>1, Kinds
  <2> QED
    BY <2>1, <2>2, <2>3
<1> QED
  BY <1>2, <1>3, <1>4

\* If all of the wallet's lovelace does not reach the measure, no part does.
LEMMA WholeWalletDecides ==
  ASSUME req \in Request, WalletKnown,
         NEW S \in SUBSET DOMAIN wallet, Covers(S)
  PROVE  Ada(DOMAIN wallet) >=
           Planned + EstimatedFee + MinUtxo(Cardinality(Policies(DOMAIN wallet)))
<1> DEFINE W == DOMAIN wallet
           w == Cardinality(Policies(W)) * MinPerPolicy
           s == Cardinality(Policies(S)) * MinPerPolicy
<1>1. Ada(W) - w >= Ada(S) - s
  BY NetAdaGrows
<1>2. Ada(S) >= Planned + EstimatedFee + (MinBase + s)
  BY DEF Covers, MinUtxo
<1>3. Ada(W) \in Int /\ Ada(S) \in Int
  BY AmountsAdd
<1>4. w \in Nat /\ s \in Nat /\ Planned \in Nat /\ EstimatedFee \in Nat
      /\ MinBase \in Nat
  BY GoalNumbers
<1>5. MinUtxo(Cardinality(Policies(W))) = MinBase + w
  BY DEF MinUtxo
<1> HIDE DEF w, s, W
<1>6. Ada(W) >= Planned + EstimatedFee + (MinBase + w)
  BY <1>1, <1>2, <1>3, <1>4
<1> QED
  BY <1>5, <1>6 DEF W

\* The first states.
LEMMA SelectingStart == Init => Selecting
<1> SUFFICES ASSUME Init PROVE Selecting
  OBVIOUS
<1>1. PICK S \in SUBSET Utxo : wallet \in [S -> UtxoValue]
  BY DEF Init
<1>2. WalletKnown
  BY <1>1 DEF Init, WalletKnown
<1>3. req \in Request /\ TokensFound /\ AdaApart /\ TokensStayPut /\ NoFalseRefusal
  BY DEF Init, TokensFound, AdaApart, TokensStayPut, NoFalseRefusal
<1> QED
  BY <1>2, <1>3 DEF Selecting

\* Taking one more input.  An ADA transfer that takes its first UTxO with
\* tokens has all those without, and they do not reach its goal.
LEMMA SelectingTake == Selecting /\ Take => Selecting'
<1> SUFFICES ASSUME Selecting, Take PROVE Selecting'
  OBVIOUS
<1>1. PICK u \in Left : selected' = selected \union {u}
  BY DEF Take
<1>2. /\ UNCHANGED <<wallet, req, phase>> /\ phase \in {"tokens", "ada"}
      /\ ~Enough /\ ~AtCap
  BY DEF Take, Stops
<1>3. /\ u \in DOMAIN wallet /\ u \notin selected
      /\ phase = "tokens" /\ req.kind = "ada" => u \in AdaOnlyUtxos
  BY <1>1 DEF Left, Eligible, AdaOnlyUtxos
<1>4. req \in Request /\ WalletKnown
  BY DEF Selecting
<1> DEFINE T == selected \union {u}
<1>5. T \in SUBSET DOMAIN wallet /\ selected \in SUBSET T
  BY <1>3, <1>4 DEF WalletKnown
<1>6. WalletKnown'
  BY <1>1, <1>2, <1>4, <1>5 DEF WalletKnown
<1>7. /\ Holders' = Holders /\ AdaOnlyUtxos' = AdaOnlyUtxos
      /\ Covers(AdaOnlyUtxos)' = Covers(AdaOnlyUtxos)
  BY <1>2, CoversKept
<1>8. TokensEnough(selected)' = TokensEnough(T)
  BY <1>1, <1>2 DEF TokensEnough, Tokens, Wanted
<1>9. TokensFound'
  <2>1. CASE TokensEnough(selected)
    <3>1. TokensEnough(T)
      <4> HIDE DEF T
      <4> QED
        BY <2>1, <1>4, <1>5, TokensEnoughGrows
    <3> QED
      BY <3>1, <1>8 DEF TokensFound
  <2>2. CASE ~TokensEnough(selected) /\ phase = "ada"
    <3>1. req.kind = "cnt" /\ Holders \subseteq selected
      BY <2>2, <1>2 DEF Selecting, TokensFound
    <3> QED
      BY <3>1, <1>1, <1>2, <1>7 DEF TokensFound
  <2>3. CASE phase # "ada"
    BY <2>3, <1>2 DEF TokensFound
  <2> QED
    BY <2>1, <2>2, <2>3
<1>10. CASE req.kind # "ada"
  <2>1. AdaApart' /\ TokensStayPut'
    BY <1>2, <1>10 DEF AdaApart, TokensStayPut
  <2>2. NoFalseRefusal'
    BY <1>2 DEF NoFalseRefusal
  <2> QED
    BY <1>2, <1>4, <1>6, <1>9, <2>1, <2>2 DEF Selecting
<1>11. CASE req.kind = "ada"
  <2>1. ~(phase = "ada" /\ Ada(selected) >= Goal)
    BY <1>2, <1>11, Kinds, <1>4 DEF Enough
  <2>2. phase = "ada" /\ selected \subseteq AdaOnlyUtxos =>
          selected = AdaOnlyUtxos /\ ~Covers(AdaOnlyUtxos)
    <3> SUFFICES ASSUME phase = "ada", selected \subseteq AdaOnlyUtxos
                 PROVE  selected = AdaOnlyUtxos /\ ~Covers(AdaOnlyUtxos)
      OBVIOUS
    <3>1. selected = AdaOnlyUtxos
      BY <1>2, <1>11, <2>1 DEF Selecting, AdaApart
    <3>2. Goal = Planned + EstimatedFee + MinUtxo(Cardinality(Policies(selected)))
      BY <1>11 DEF Goal, Counted
    <3>3. ~(Ada(selected) >=
              Planned + EstimatedFee + MinUtxo(Cardinality(Policies(selected))))
      BY <2>1, <3>2
    <3> QED
      BY <3>1, <3>3 DEF Covers
  <2>3. AdaApart'
    <3>1. phase = "tokens" => T \subseteq AdaOnlyUtxos
      BY <1>3, <1>11 DEF Selecting, AdaApart
    <3>2. phase = "ada" => ~(T \subseteq AdaOnlyUtxos)
      BY <1>3, <2>2
    <3> QED
      BY <3>1, <3>2, <1>1, <1>2, <1>7 DEF AdaApart
  <2>4. TokensStayPut'
    <3> SUFFICES ASSUME (\E v \in selected : ~AdaOnly(v))'
                 PROVE  ~Covers(AdaOnlyUtxos)
      BY <1>7 DEF TokensStayPut, AdaOnlyUtxos
    <3>1. PICK v \in T : ~AdaOnly(v)
      BY <1>1, <1>2 DEF AdaOnly, Policies
    <3>2. CASE v \in selected
      BY <3>1, <3>2, <1>11 DEF Selecting, TokensStayPut, AdaOnlyUtxos
    <3>3. CASE selected \subseteq AdaOnlyUtxos
      <4>1. v = u /\ u \notin AdaOnlyUtxos
        BY <3>1, <3>3 DEF AdaOnlyUtxos
      <4>2. phase = "ada"
        BY <4>1, <1>2, <1>3, <1>11
      <4> QED
        BY <3>3, <4>2, <2>2
    <3>4. CASE ~(selected \subseteq AdaOnlyUtxos)
      <4>1. \E w \in selected : ~AdaOnly(w)
        BY <3>4, <1>4 DEF AdaOnlyUtxos, WalletKnown
      <4> QED
        BY <4>1, <1>11 DEF Selecting, TokensStayPut, AdaOnlyUtxos
    <3> QED
      BY <3>3, <3>4
  <2>5. NoFalseRefusal'
    BY <1>2 DEF NoFalseRefusal
  <2> QED
    BY <1>2, <1>4, <1>6, <1>9, <2>3, <2>4, <2>5 DEF Selecting
<1> QED
  BY <1>10, <1>11

\* The end of the first phase.  It refuses only tokens the wallet has not got.
LEMMA SelectingSupplement == Selecting /\ Supplement => Selecting'
<1> SUFFICES ASSUME Selecting, Supplement PROVE Selecting'
  OBVIOUS
<1>1. UNCHANGED <<wallet, req, selected>> /\ phase = "tokens" /\ Stops
  BY DEF Supplement
<1>2. req \in Request /\ WalletKnown /\ selected \in SUBSET DOMAIN wallet
  BY DEF Selecting, WalletKnown
<1>3. req' \in Request /\ WalletKnown' /\ TokensStayPut'
  BY <1>1, <1>2, SelectedKept DEF Selecting
<1>4. req.kind # "ada" => Eligible = Holders
  BY <1>1 DEF Eligible, Holders
<1>5. req.kind = "ada" => Eligible = AdaOnlyUtxos
  BY <1>1 DEF Eligible, AdaOnlyUtxos
<1>6. CASE phase' = "refused"
  <2>1. IF req.kind = "multi" THEN ~TokensEnough(selected)
        ELSE req.kind = "cnt" /\ Eligible = {}
    BY <1>6 DEF Supplement
  <2>2. ~AtCap => \A S \in SUBSET DOMAIN wallet : ~Covers(S)
    <3> SUFFICES ASSUME ~AtCap, NEW S \in SUBSET DOMAIN wallet, TokensEnough(S)
                 PROVE  FALSE
      BY DEF Covers
    <3>1. CASE req.kind = "multi"
      <4>1. ~TokensEnough(selected) /\ ~Enough
        BY <2>1, <3>1, <1>1 DEF Enough
      <4>2. Holders \subseteq selected
        BY <1>1, <1>4, <3>1, <4>1 DEF Stops, Left
      <4> QED
        BY <1>2, <4>1, <4>2, HoldersDecide
    <3>2. CASE req.kind = "cnt" /\ Eligible = {}
      <4>1. Holders \subseteq {} /\ {} \in SUBSET DOMAIN wallet
        BY <1>4, <3>2
      <4>2. TokensEnough({})
        BY <1>2, <4>1, HoldersDecide
      <4>3. PICK a \in Wanted : TRUE
        BY <1>2, <3>2, Kinds
      <4>4. a \in Asset /\ req.want[a] > 0 /\ req.want[a] \in Nat
        BY <1>2, Kinds DEF Wanted
      <4>5. Tokens({}, a) >= req.want[a]
        BY <4>2, <4>3 DEF TokensEnough
      <4>6. Tokens({}, a) = 0
        BY <1>2, <4>4, NoTokens
      <4> QED
        BY <4>4, <4>5, <4>6
    <3> QED
      BY <2>1, <3>1, <3>2
  <2>3. NoFalseRefusal'
    BY <1>1, <2>2, SelectedKept, CoversKept DEF NoFalseRefusal
  <2>4. TokensFound' /\ AdaApart'
    BY <1>6 DEF TokensFound, AdaApart
  <2> QED
    BY <1>3, <2>3, <2>4 DEF Selecting
<1>7. CASE phase' = "ada"
  <2>1. IF req.kind = "multi" THEN TokensEnough(selected)
        ELSE req.kind = "cnt" => Eligible # {}
    BY <1>7 DEF Supplement, Refuse
  <2>2. TokensEnough(selected) \/
          (req.kind = "cnt" /\ (AtCap \/ Holders \subseteq selected))
    <3>1. CASE req.kind = "ada"
      BY <1>2, <3>1, Kinds DEF TokensEnough
    <3>2. CASE req.kind = "cnt"
      BY <1>1, <1>4, <3>2 DEF Stops, Enough, Left
    <3>3. CASE req.kind = "multi"
      BY <2>1, <3>3
    <3> QED
      BY <1>2, <3>1, <3>2, <3>3, Kinds
  <2>3. TokensFound'
    BY <1>1, <2>2, SelectedKept, CoversKept DEF TokensFound
  <2>4. req.kind = "ada" =>
          selected = AdaOnlyUtxos \/ AtCap \/ Ada(selected) >= Goal
    <3> SUFFICES ASSUME req.kind = "ada", ~AtCap, ~(Ada(selected) >= Goal)
                 PROVE  selected = AdaOnlyUtxos
      OBVIOUS
    <3>1. Left = {}
      BY <1>1 DEF Stops, Enough
    <3>2. selected \subseteq AdaOnlyUtxos
      BY <1>1 DEF Selecting, AdaApart
    <3> QED
      BY <1>5, <3>1, <3>2 DEF Left
  <2>5. AdaApart'
    BY <1>1, <1>7, <2>4, SelectedKept, CoversKept DEF AdaApart
  <2>6. NoFalseRefusal'
    BY <1>7 DEF NoFalseRefusal
  <2> QED
    BY <1>3, <2>3, <2>5, <2>6 DEF Selecting
<1> QED
  BY <1>6, <1>7 DEF Supplement, Refuse

\* The balance checks.  With room to spare, the selection stopped because it
\* had its goal, which passes them, or all of the wallet.
LEMMA SelectingCheck == Selecting /\ Check => Selecting'
<1> SUFFICES ASSUME Selecting, Check PROVE Selecting'
  OBVIOUS
<1>1. UNCHANGED <<wallet, req, selected>> /\ phase = "ada" /\ Stops
  BY DEF Check
<1>2. req \in Request /\ WalletKnown /\ selected \in SUBSET DOMAIN wallet
  BY DEF Selecting, WalletKnown
<1>3. req' \in Request /\ WalletKnown' /\ TokensStayPut'
  BY <1>1, <1>2, SelectedKept DEF Selecting
<1>4. phase' \in {"refused", "build"}
  BY DEF Check, Refuse
<1>5. TokensFound' /\ AdaApart'
  BY <1>4 DEF TokensFound, AdaApart
<1>6. phase' = "refused" /\ ~AtCap =>
        \A S \in SUBSET DOMAIN wallet : ~Covers(S)
  <2> SUFFICES ASSUME phase' = "refused", ~AtCap,
                      NEW S \in SUBSET DOMAIN wallet, Covers(S)
               PROVE  FALSE
    OBVIOUS
  <2>1. BalanceFails
    BY DEF Check, CapFails
  <2>2. TokensEnough(selected)
    <3> SUFFICES ASSUME ~TokensEnough(selected) PROVE FALSE
      OBVIOUS
    <3>1. Holders \subseteq selected
      BY <1>1 DEF Selecting, TokensFound
    <3>2. TokensEnough(S)
      BY DEF Covers
    <3> QED
      BY <1>2, <3>1, <3>2, HoldersDecide
  <2> DEFINE P == MinUtxo(Cardinality(Policies(selected)))
             M == Planned + EstimatedFee + P
  <2>3. /\ P \in Nat /\ Planned \in Nat /\ EstimatedFee \in Nat
        /\ Ada(selected) \in Int /\ req.amount \in Nat
        /\ req.kind = "multi" => Planned >= req.amount
    BY <1>2, GoalNumbers, AmountsAdd, Kinds
  <2>4. Ada(selected) < M
    <3>1. req.kind = "cnt" => Ada(selected) < Planned + EstimatedFee
      BY <2>1, <2>2 DEF BalanceFails
    <3>2. req.kind = "ada" => Ada(selected) < M
      BY <2>1, <2>2 DEF BalanceFails, Goal, Counted
    <3>3. req.kind = "multi" =>
            Ada(selected) < (IF req.amount = 0 THEN Planned ELSE req.amount)
                              + EstimatedFee + P
      BY <2>1, <2>2 DEF BalanceFails
    <3> HIDE DEF P
    <3> QED
      BY <1>2, <2>3, <3>1, <3>2, <3>3, Kinds
  <2>5. Left # {}
    <3> SUFFICES ASSUME Left = {} PROVE FALSE
      OBVIOUS
    <3>1. selected = DOMAIN wallet
      BY <1>1, <1>2 DEF Left, Eligible
    <3>2. Ada(selected) >= M
      BY <1>2, <3>1, WholeWalletDecides
    <3> HIDE DEF P
    <3> QED
      BY <2>3, <2>4, <3>2
  <2>6. Ada(selected) >= Goal
    BY <1>1, <2>5 DEF Stops, Enough
  <2>7. req.kind # "cnt"
    <3> SUFFICES ASSUME req.kind = "cnt" PROVE FALSE
      OBVIOUS
    <3>1. Ada(selected) < Planned + EstimatedFee
      BY <2>1, <2>2 DEF BalanceFails
    <3>2. MinUtxo(Cardinality(Policies(picked))) \in Nat
      BY <1>2, GoalNumbers
    <3>3. Goal = Planned + EstimatedFee + MinUtxo(Cardinality(Policies(picked)))
      BY DEF Goal, Counted
    <3> QED
      BY <2>3, <2>6, <3>1, <3>2, <3>3
  <2>8. Goal = M
    BY <2>7 DEF Goal, Counted
  <2> HIDE DEF P
  <2> QED
    BY <2>3, <2>4, <2>6, <2>8
<1>7. NoFalseRefusal'
  BY <1>1, <1>6, SelectedKept, CoversKept DEF NoFalseRefusal
<1> QED
  BY <1>3, <1>5, <1>7 DEF Selecting

\* The fee loop does not select.
LEMMA SelectingIterate == Selecting /\ Iterate => Selecting'
<1> SUFFICES ASSUME Selecting, Iterate PROVE Selecting'
  OBVIOUS
<1>1. UNCHANGED <<wallet, req, selected>> /\ phase = "build"
  BY DEF Iterate
<1>2. phase' \in {"build", "built", "failed"}
  BY <1>1 DEF Iterate, Fail
<1>3. req' \in Request /\ WalletKnown' /\ TokensStayPut'
  BY <1>1, SelectedKept DEF Selecting
<1>4. TokensFound' /\ AdaApart' /\ NoFalseRefusal'
  BY <1>2 DEF TokensFound, AdaApart, NoFalseRefusal
<1> QED
  BY <1>3, <1>4 DEF Selecting

\* The selection's invariant holds throughout.
LEMMA SelectingInvariant == Spec => []Selecting
<1>1. Selecting /\ [Next]_vars => Selecting'
  <2> SUFFICES ASSUME Selecting, [Next]_vars PROVE Selecting'
    OBVIOUS
  <2>1. CASE Next
    BY <2>1, SelectingTake, SelectingSupplement, SelectingCheck, SelectingIterate
       DEF Next
  <2>2. CASE UNCHANGED vars
    <3>1. UNCHANGED <<wallet, req, selected>> /\ phase' = phase
      BY <2>2 DEF vars
    <3>2. req' \in Request /\ WalletKnown' /\ TokensStayPut'
      BY <3>1, SelectedKept DEF Selecting
    <3>3. TokensFound' /\ AdaApart' /\ NoFalseRefusal'
      BY <3>1, SelectedKept, CoversKept
         DEF Selecting, TokensFound, AdaApart, NoFalseRefusal
    <3> QED
      BY <3>2, <3>3 DEF Selecting
  <2> QED
    BY <2>1, <2>2
<1> QED
  BY SelectingStart, <1>1, PTL DEF Spec

-----------------------------------------------------------------------------
\* What the estimates are worth

\* The fee of a body with every input and every policy it may have.
LargestFee ==
  FeeBase + FeePerInput * MaxInputs + FeePerPolicy * Cardinality(Asset) + FeeWide

\* What the ledger's minimum for so many policies exceeds the SDK's by.
Short(n) ==
  IF ProtoMin(n) > MinUtxo(n) THEN ProtoMin(n) - MinUtxo(n) ELSE 0

\* ESTIMATED_MAX_FEE has room for the largest fee the loop may try and for
\* what the SDK's two minima, the recipient's and the change's, fall short.
Headroom ==
  \A n, m \in 0..Cardinality(Asset) :
    Larger(InitialFee, LargestFee) + Short(n) + Short(m) <= EstimatedFee

\* The loop tries no fee above the largest.
FeeBounded == fee <= Larger(InitialFee, LargestFee)

\* The largest fee is a number.
LEMMA LargestFeeType == LargestFee \in Nat
<1>1. Cardinality(Asset) \in Nat
  BY Constants, FS_CardinalityType
<1>2. /\ FeePerInput * MaxInputs \in Nat
      /\ FeePerPolicy * Cardinality(Asset) \in Nat
  BY <1>1, Constants
<1> QED
  BY <1>2, Constants DEF LargestFee

\* The change carries no policy the inputs do not have.
LEMMA ChangeSmaller ==
  ASSUME req \in Request, WalletKnown
  PROVE  ChangePolicies \subseteq Policies(selected)
<1> SUFFICES ASSUME NEW a \in Asset, Tokens(selected, a) > req.want[a],
                    a \notin Policies(selected)
             PROVE  FALSE
  BY DEF ChangePolicies
<1>1. \A u \in selected \ {} : ~(wallet[u].tok[a] > 0)
  BY DEF Policies
<1>2. selected \in SUBSET DOMAIN wallet /\ {} \in SUBSET DOMAIN wallet
  BY DEF WalletKnown
<1>3. Tokens(selected, a) <= Tokens({}, a)
  BY <1>1, <1>2, TokensGrow
<1>4. Tokens({}, a) = 0
  BY NoTokens
<1>5. Tokens(selected, a) \in Int
  BY <1>2, AmountsAdd
<1>6. req.want[a] \in Nat
  BY Kinds
<1> QED
  BY <1>3, <1>4, <1>5, <1>6

\* The body's fee is within the largest.
LEMMA NeededFeeBounded ==
  ASSUME TypeOK, InputsBounded
  PROVE  NeededFee <= LargestFee
<1> DEFINE i == Cardinality(selected)
           P == ChangePolicies \union Wanted
           c == Cardinality(P)
           k == Cardinality(Asset)
<1>1. i \in Nat /\ i <= MaxInputs
  BY Constants, FS_Subset, FS_CardinalityType DEF TypeOK, InputsBounded
<1>2. P \in SUBSET Asset
  BY DEF ChangePolicies, Wanted
<1>3. c \in Nat /\ c <= k /\ k \in Nat
  <2> HIDE DEF P
  <2> QED
    BY <1>2, Constants, FS_Subset, FS_CardinalityType
<1>4. NeededFee = FeeBase + FeePerInput * i + FeePerPolicy * c
                    + (IF Change >= WideChange THEN FeeWide ELSE 0)
  BY DEF NeededFee, NarrowFee
<1> HIDE DEF i, c, k
<1>5. /\ FeePerInput * i \in Nat /\ FeePerInput * MaxInputs \in Nat
      /\ FeePerInput * i <= FeePerInput * MaxInputs
  BY <1>1, Constants
<1>6. /\ FeePerPolicy * c \in Nat /\ FeePerPolicy * k \in Nat
      /\ FeePerPolicy * c <= FeePerPolicy * k
  BY <1>3, Constants
<1> QED
  BY <1>4, <1>5, <1>6, Constants DEF LargestFee, k

\* Inputs that reach the SDK's measure leave both outputs their minimum.
LEMMA OutputsFit ==
  ASSUME Headroom, TypeOK, WalletKnown, FeeBounded, Covers(selected)
  PROVE  OutputsValid
<1> DEFINE n == Cardinality(Wanted)
           m == Cardinality(Policies(selected))
           c == Cardinality(ChangePolicies)
           F == Larger(InitialFee, LargestFee)
<1>1. req \in Request
  BY DEF TypeOK
<1>2. n \in 0..Cardinality(Asset) /\ n \in Nat
  <2>1. Wanted \in SUBSET Asset
    BY DEF Wanted
  <2> QED
    BY <2>1, Constants, FS_Subset, FS_CardinalityType
<1>3. m \in 0..Cardinality(Asset) /\ m \in Nat
  BY PoliciesFinite
<1>4. c \in Nat /\ c <= m
  <2>1. ChangePolicies \subseteq Policies(selected)
    BY <1>1, ChangeSmaller
  <2> QED
    BY <2>1, PoliciesFinite, FS_Subset, FS_CardinalityType
<1>5. ASSUME NEW k \in Nat
      PROVE  /\ MinUtxo(k) \in Nat /\ ProtoMin(k) \in Nat /\ Short(k) \in Nat
             /\ ProtoMin(k) <= MinUtxo(k) + Short(k)
  <2>1. k * MinPerPolicy \in Nat /\ k * ProtoPerPolicy \in Nat
    BY MinimaAssumption
  <2>2. MinUtxo(k) \in Nat /\ ProtoMin(k) \in Nat
    BY <2>1, MinimaAssumption DEF MinUtxo, ProtoMin
  <2> QED
    BY <2>2 DEF Short
<1>6. ProtoMin(c) <= ProtoMin(m)
  <2>1. /\ c * ProtoPerPolicy <= m * ProtoPerPolicy
        /\ c * ProtoPerPolicy \in Nat /\ m * ProtoPerPolicy \in Nat
    BY <1>3, <1>4, MinimaAssumption
  <2> QED
    BY <2>1, MinimaAssumption DEF ProtoMin
<1>7. F + Short(n) + Short(m) <= EstimatedFee
  BY <1>2, <1>3 DEF Headroom
<1>8. F \in Nat
  BY LargestFeeType, Constants DEF Larger
<1>9. /\ Ada(selected) \in Int
      /\ Ada(selected) >= Planned + EstimatedFee + MinUtxo(m)
  <2>1. selected \in SUBSET DOMAIN wallet
    BY DEF WalletKnown
  <2> QED
    BY <2>1, AmountsAdd DEF Covers
<1>10. Planned \in Nat /\ EstimatedFee \in Nat /\ req.amount \in Nat
  BY <1>1, GoalNumbers, Kinds
<1>11. fee \in Nat /\ fee <= F
  BY DEF TypeOK, FeeBounded
<1>12. /\ Recipient \in Nat
       /\ ProtoMin(n) <= Recipient
       /\ Recipient <= Planned + Short(n)
  <2>1. CASE req.kind = "cnt"
    <3>1. n = 1
      <4>1. PICK a \in Asset :
              req.want[a] > 0 /\ \A b \in Asset \ {a} : req.want[b] = 0
        BY <1>1, <2>1, RequestAssumption
      <4>2. Wanted = {a}
        BY <4>1 DEF Wanted
      <4> QED
        BY <4>2, FS_Singleton
    <3>2. Recipient = Larger(Planned, ProtoMin(n)) /\ Planned = MinUtxo(1)
      BY <2>1 DEF Recipient, Planned
    <3> HIDE DEF n
    <3> QED
      BY <1>2, <1>5, <1>10, <3>1, <3>2 DEF Larger
  <2>2. CASE req.kind = "ada"
    <3>1. n = 0
      BY <1>1, <2>2, Kinds, FS_EmptySet
    <3>2. Recipient = req.amount /\ Planned = req.amount /\ req.amount >= MinBase
      BY <1>1, <2>2, GoalNumbers, RequestAssumption DEF Recipient
    <3>3. ProtoMin(0) <= MinBase
      BY MinimaAssumption DEF ProtoMin
    <3> HIDE DEF n
    <3> QED
      BY <1>2, <1>5, <1>10, <3>1, <3>2, <3>3, MinimaAssumption
  <2>3. CASE req.kind = "multi"
    <3>1. /\ Recipient = Larger(req.amount, ProtoMin(n))
          /\ Planned = Larger(req.amount, MinUtxo(n))
      BY <2>3 DEF Recipient, Planned
    <3> HIDE DEF n
    <3> QED
      BY <1>2, <1>5, <1>10, <3>1 DEF Larger
  <2> QED
    BY <1>1, <2>1, <2>2, <2>3, Kinds
<1>13. MinUtxo(m) \in Nat /\ Short(m) \in Nat /\ Short(n) \in Nat
       /\ ProtoMin(m) \in Nat /\ ProtoMin(c) \in Nat
       /\ ProtoMin(m) <= MinUtxo(m) + Short(m)
  BY <1>2, <1>3, <1>4, <1>5
<1> HIDE DEF n, m, c, F
<1>14. Ada(selected) - Recipient - fee >= ProtoMin(c)
  BY <1>6, <1>7, <1>8, <1>9, <1>10, <1>11, <1>12, <1>13
<1> QED
  BY <1>12, <1>14 DEF OutputsValid, Change, n, c

\* What the fee loop keeps of covered selections.
Building == Inv /\ Selecting /\ FeeBounded /\ CoveredIsBuilt

\* Given the headroom, no step ends a covered selection for its outputs.
LEMMA BuildingStep ==
  ASSUME Headroom, Building, Inv', Selecting', [Next]_vars
  PROVE  Building'
<1>1. TypeOK /\ InputsBounded /\ WalletKnown /\ req \in Request
  BY DEF Building, Inv, Selecting
<1>2. CASE Take \/ Supplement \/ Check
  <2>1. UNCHANGED fee /\ phase \in {"tokens", "ada"}
    BY <1>2 DEF Take, Supplement, Check
  <2>2. reason' # "outputs"
    <3>1. reason = "none"
      BY <1>1, <2>1 DEF TypeOK
    <3> QED
      BY <1>2, <3>1 DEF Take, Supplement, Check, Refuse
  <2> QED
    BY <2>1, <2>2 DEF Building, FeeBounded, CoveredIsBuilt
<1>3. CASE Iterate
  <2>1. UNCHANGED <<wallet, req, selected>> /\ phase = "build"
    BY <1>3 DEF Iterate
  <2>2. FeeBounded'
    <3>1. fee' = fee \/ fee' = NeededFee
      BY <1>3 DEF Iterate
    <3>2. NeededFee <= LargestFee
      BY <1>1, NeededFeeBounded
    <3>3. NeededFee \in Nat
      BY <1>1, NarrowFeeType, NeededFeeCases DEF TypeOK
    <3>4. NeededFee <= Larger(InitialFee, LargestFee)
      BY <3>2, <3>3, LargestFeeType, Constants DEF Larger
    <3> QED
      BY <3>1, <3>4 DEF FeeBounded, Building
  <2>3. CoveredIsBuilt'
    <3> SUFFICES ASSUME Covers(selected)', reason' = "outputs" PROVE FALSE
      BY DEF CoveredIsBuilt
    <3>1. Covers(selected)
      BY <2>1 DEF Covers, TokensEnough, Tokens, Wanted, Ada, Planned, Policies
    <3>2. OutputsValid
      BY <1>1, <3>1, OutputsFit DEF Building
    <3>3. reason # "outputs"
      BY <3>1 DEF Building, CoveredIsBuilt
    <3> QED
      BY <1>3, <3>2, <3>3 DEF Iterate, Fail
  <2> QED
    BY <2>2, <2>3 DEF Building
<1>4. CASE UNCHANGED vars
  <2>1. UNCHANGED <<wallet, req, selected, fee, reason>>
    BY <1>4 DEF vars
  <2>2. Covers(selected)' = Covers(selected)
    BY <2>1 DEF Covers, TokensEnough, Tokens, Wanted, Ada, Planned, Policies
  <2> QED
    BY <2>1, <2>2 DEF Building, FeeBounded, CoveredIsBuilt
<1> QED
  BY <1>2, <1>3, <1>4 DEF Next

-----------------------------------------------------------------------------
\* For every wallet, limit and request: an ADA transfer spends UTxOs with
\* tokens only when those without could not have paid it
\* (fetchAndSelectUtxosForAda).
THEOREM TokensStayPutInvariant == Spec => []TokensStayPut
<1>1. Selecting => TokensStayPut
  BY DEF Selecting
<1> QED
  BY SelectingInvariant, <1>1, PTL

\* For every wallet of outputs the ledger allows: a transfer refused for its
\* balance with inputs to spare could not have been paid from any UTxOs of
\* the wallet, by the measure the SDK itself applies (the three selections of
\* cardano.ts and their callers' checks).
THEOREM NoFalseRefusalInvariant == Spec => []NoFalseRefusal
<1>1. Selecting => NoFalseRefusal
  BY DEF Selecting
<1> QED
  BY SelectingInvariant, <1>1, PTL

\* Where ESTIMATED_MAX_FEE has room for the largest fee and for what the SDK's
\* minima fall short of the ledger's, a selection that reached the SDK's
\* measure is never refused for an output below its minimum.
THEOREM CoveredIsBuiltInvariant ==
  ASSUME Headroom
  PROVE  Spec => []CoveredIsBuilt
<1>1. Init => FeeBounded /\ CoveredIsBuilt
  <2>1. InitialFee <= Larger(InitialFee, LargestFee)
    BY LargestFeeType, Constants DEF Larger
  <2> QED
    BY <2>1 DEF Init, FeeBounded, CoveredIsBuilt
<1>2. Init /\ Inv /\ Selecting => Building
  BY <1>1 DEF Building
<1>3. Building /\ Inv' /\ Selecting' /\ [Next]_vars => Building'
  BY BuildingStep
<1>4. Building => CoveredIsBuilt
  BY DEF Building
<1> QED
  BY <1>2, <1>3, <1>4, Invariant, SelectingInvariant, PTL DEF Spec

-----------------------------------------------------------------------------
\* Reports: what is read

\* A report that was opened is about a vault, a question and an order that there are;
\* each of its addresses was read, if at all, between its start and now, or answered
\* without data, and only a balance goes on without one.
Opened == report.pc = "reading" \/ report.answer = "ok"
ReportInv ==
  /\ height \in 0..Len(Chain)
  /\ report = [pc |-> report.pc, ask |-> report.ask, vault |-> report.vault,
               order |-> report.order, got |-> report.got, from |-> report.from, answer |-> report.answer]
  /\ report.pc = "idle" => report.answer = "none"
  /\ Opened =>
       /\ report.vault \in Vaults /\ report.ask \in Asked /\ report.from \in 0..height
       /\ report.order \in Orders
       /\ report.got \in [Read(report.vault, report.ask.kind) ->
                          {Unread, Unreadable, Blank} \cup report.from..height]
       /\ \A a \in DOMAIN report.got :
            /\ report.got[a] = Unreadable => report.ask.kind \in Balances
            /\ report.answer = "ok" => report.got[a] # Unread

\* Reading an address, or finding it unreadable, keeps the report in order.
LEMMA ReadingKept ==
  ASSUME ReportInv, report.pc = "reading", NEW a \in DOMAIN report.got, report.got[a] = Unread,
         NEW at \in {Unreadable, Blank} \cup {height}, at = Unreadable => report.ask.kind \in Balances,
         report' = Finish([report EXCEPT !.got[a] = at]), UNCHANGED height
  PROVE  ReportInv'
<1>1. PICK o : o = report
  OBVIOUS
<1> DEFINE got == [o.got EXCEPT ![a] = at]
           r == [pc |-> "reading", ask |-> o.ask, vault |-> o.vault, order |-> o.order, got |-> got,
                 from |-> o.from, answer |-> o.answer]
           kinds == {Unread, Unreadable, Blank} \cup o.from..height
<1>2. /\ o = [pc |-> o.pc, ask |-> o.ask, vault |-> o.vault, order |-> o.order, got |-> o.got,
              from |-> o.from, answer |-> o.answer]
      /\ o.pc = "reading" /\ a \in DOMAIN o.got
      /\ o.vault \in Vaults /\ o.ask \in Asked /\ o.from \in 0..height /\ o.order \in Orders
      /\ o.got \in [Read(o.vault, o.ask.kind) -> kinds]
      /\ \A b \in DOMAIN o.got : o.got[b] = Unreadable => o.ask.kind \in Balances
  BY <1>1 DEF ReportInv, Opened
<1>3. [o EXCEPT !.got[a] = at] = r
  BY <1>2
<1>4. height \in 0..Len(Chain) /\ Len(Chain) \in Nat
  BY ChainAssumption DEF ReportInv
<1>5. at \in kinds
  BY <1>2, <1>4
<1>6. got \in [Read(o.vault, o.ask.kind) -> kinds]
  BY <1>2, <1>5
<1>7. \A b \in DOMAIN got : got[b] = Unreadable => o.ask.kind \in Balances
  BY <1>1, <1>2
<1>8. report' = Finish(r)
  BY <1>1, <1>3
<1> DEFINE Kept(pc, answer) ==
             [pc |-> pc, ask |-> o.ask, vault |-> o.vault, order |-> o.order, got |-> got,
              from |-> o.from, answer |-> answer]
<1>9. ASSUME NEW pc, NEW answer, report' = Kept(pc, answer), pc # "idle",
             answer = "ok" => \A b \in DOMAIN got : got[b] # Unread
      PROVE  ReportInv'
  <2> HIDE DEF got
  <2>1. /\ report'.pc = pc /\ report'.ask = o.ask /\ report'.vault = o.vault
        /\ report'.order = o.order /\ report'.got = got /\ report'.from = o.from
        /\ report'.answer = answer
    BY <1>9
  <2>2. report' = [pc |-> report'.pc, ask |-> report'.ask, vault |-> report'.vault,
                   order |-> report'.order, got |-> report'.got, from |-> report'.from,
                   answer |-> report'.answer]
    BY <1>9, <2>1
  <2>3. (height \in 0..Len(Chain))' /\ height' = height
    BY <1>4
  <2>4. /\ report'.vault \in Vaults /\ report'.ask \in Asked /\ report'.from \in 0..height'
        /\ report'.order \in Orders /\ report'.pc # "idle"
    BY <1>2, <1>9, <2>1, <2>3
  <2>5. report'.got \in [Read(report'.vault, report'.ask.kind) ->
                         {Unread, Unreadable, Blank} \cup report'.from..height']
    BY <1>6, <2>1, <2>3
  <2>6. \A b \in DOMAIN report'.got :
          /\ report'.got[b] = Unreadable => report'.ask.kind \in Balances
          /\ report'.answer = "ok" => report'.got[b] # Unread
    BY <1>7, <1>9, <2>1
  <2> QED
    BY <2>2, <2>3, <2>4, <2>5, <2>6 DEF ReportInv
<1>10. CASE \A b \in DOMAIN got : got[b] # Unread
  <2>1. report' = Kept("done", "ok")
    <3> HIDE DEF got
    <3> QED
      BY <1>8, <1>10 DEF Finish
  <2> HIDE DEF got, Kept
  <2> QED
    BY <1>9, <1>10, <2>1
<1>11. CASE ~\A b \in DOMAIN got : got[b] # Unread
  <2>1. report' = Kept("reading", o.answer)
    <3> HIDE DEF got
    <3> QED
      BY <1>8, <1>11 DEF Finish
  <2>2. o.answer # "ok"
    BY <1>1, <1>2 DEF ReportInv, Opened
  <2> HIDE DEF got, Kept
  <2> QED
    BY <1>9, <2>1, <2>2
<1> QED
  BY <1>10, <1>11

\* Every step of a report, and of the chain, keeps it in order.
LEMMA ReportInductive == ReportInit => ReportInv
  BY ChainAssumption DEF ReportInit, ReportInv, Opened

LEMMA ReportStepKept == ReportInv /\ [ReportNext]_reportVars => ReportInv'
<1> SUFFICES ASSUME ReportInv, [ReportNext]_reportVars PROVE ReportInv'
  OBVIOUS
<1>1. CASE Advance
  <2>1. /\ report' = report /\ height' = height + 1 /\ height < Len(Chain)
        /\ height \in 0..Len(Chain) /\ Len(Chain) \in Nat
    BY <1>1, ChainAssumption DEF Advance, ReportInv
  <2>2. height' \in 0..Len(Chain) /\ (Opened' <=> Opened)
    BY <2>1 DEF Opened
  <2>3. ASSUME Opened
        PROVE  /\ report.from \in 0..height'
               /\ report.got \in [Read(report.vault, report.ask.kind) ->
                                  {Unread, Unreadable, Blank} \cup report.from..height']
    <3>1. /\ report.from \in 0..height
          /\ report.got \in [Read(report.vault, report.ask.kind) ->
                             {Unread, Unreadable, Blank} \cup report.from..height]
      BY <2>3 DEF ReportInv
    <3>2. report.from..height \subseteq report.from..height'
      BY <2>1, <3>1
    <3> QED
      BY <2>1, <3>1, <3>2
  <2> QED
    BY <2>1, <2>2, <2>3 DEF ReportInv
<1>2. CASE List
  <2>1. PICK vault \in Vaults, ask \in Asked, order \in Orders :
          LET of == Read(vault, ask.kind) IN
          report' = [pc |-> IF of = {} THEN "done" ELSE "reading", ask |-> ask, vault |-> vault,
                     order |-> order, from |-> height, answer |-> IF of = {} THEN "ok" ELSE "none",
                     got |-> [a \in of |-> Unread]]
    BY <1>2 DEF List
  <2>2. height' = height /\ height \in 0..Len(Chain) /\ Len(Chain) \in Nat
    BY <1>2, ChainAssumption DEF List, ReportInv
  <2> DEFINE of == Read(vault, ask.kind)
  <2> DEFINE got == [a \in of |-> Unread]
  <2>3. /\ got \in [of -> {Unread, Unreadable, Blank} \cup height..height]
        /\ DOMAIN got = of /\ \A a \in of : got[a] = Unread
    OBVIOUS
  <2>4. PICK pc \in {"done", "reading"}, answer \in {"ok", "none"} :
          /\ report' = [pc |-> pc, ask |-> ask, vault |-> vault, order |-> order, from |-> height,
                        answer |-> answer, got |-> got]
          /\ answer = "ok" => of = {}
    BY <2>1
  <2>5. Unread # Unreadable
    BY DEF Unread, Unreadable
  <2>6. of = Read(vault, ask.kind)
    OBVIOUS
  <2> HIDE DEF of, got
  <2>7. /\ report'.pc = pc /\ report'.ask = ask /\ report'.vault = vault
        /\ report'.from = height /\ report'.answer = answer /\ report'.got = got
        /\ report'.order = order
    BY <2>4
  <2>8. report' = [pc |-> report'.pc, ask |-> report'.ask, vault |-> report'.vault,
                   order |-> report'.order, got |-> report'.got, from |-> report'.from, answer |-> report'.answer]
    BY <2>4, <2>7
  <2>9. \A a \in DOMAIN got : got[a] # Unreadable /\ answer # "ok"
    BY <2>3, <2>4, <2>5
  <2>10. report'.got \in [Read(report'.vault, report'.ask.kind) ->
                          {Unread, Unreadable, Blank} \cup report'.from..height']
    <3>1. got \in [Read(vault, ask.kind) -> {Unread, Unreadable, Blank} \cup height..height']
      BY <2>2, <2>3, <2>6
    <3> QED
      BY <2>7, <3>1
  <2>11. report'.from \in 0..height'
    BY <2>2, <2>7
  <2>12. report'.vault \in Vaults /\ report'.ask \in Asked /\ report'.pc # "idle"
         /\ report'.order \in Orders
    BY <2>4, <2>7
  <2>13. \A a \in DOMAIN report'.got :
           /\ report'.got[a] = Unreadable => report'.ask.kind \in Balances
           /\ report'.answer = "ok" => report'.got[a] # Unread
    BY <2>7, <2>9
  <2>14. (height \in 0..Len(Chain))'
    BY <2>2
  <2> QED
    BY <2>8, <2>10, <2>11, <2>12, <2>13, <2>14 DEF ReportInv
<1>3. CASE ListFails
  <2>1. PICK o : o = report
    OBVIOUS
  <2>2. /\ o = [pc |-> o.pc, ask |-> o.ask, vault |-> o.vault, order |-> o.order, got |-> o.got,
                from |-> o.from, answer |-> o.answer]
        /\ height' = height /\ report' = [o EXCEPT !.pc = "done", !.answer = "error"]
    BY <1>3, <2>1 DEF ListFails, ReportInv
  <2>3. report' = [pc |-> "done", ask |-> o.ask, vault |-> o.vault, order |-> o.order, got |-> o.got,
                   from |-> o.from, answer |-> "error"]
    BY <2>2
  <2> QED
    BY <2>2, <2>3 DEF ReportInv, Opened
<1>4. ASSUME NEW a \in DOMAIN report.got, ReadAddress(a) PROVE ReportInv'
  <2>1. height # Unreadable
    BY ChainAssumption DEF ReportInv, Unreadable
  <2>2. /\ report.pc = "reading" /\ report.got[a] = Unread
        /\ report' = Finish([report EXCEPT !.got[a] = height]) /\ UNCHANGED height
    BY <1>4 DEF ReadAddress
  <2> QED
    BY <2>1, <2>2, ReadingKept
<1>5. ASSUME NEW a \in DOMAIN report.got, ReadBlank(a) PROVE ReportInv'
  <2>1. Blank # Unreadable
    BY DEF Blank, Unreadable
  <2>2. /\ report.pc = "reading" /\ report.got[a] = Unread
        /\ report' = Finish([report EXCEPT !.got[a] = Blank]) /\ UNCHANGED height
    BY <1>5 DEF ReadBlank
  <2> QED
    BY <2>1, <2>2, ReadingKept
<1>6. ASSUME NEW a \in DOMAIN report.got, ReadFails(a) PROVE ReportInv'
  <2>1. CASE Tolerates(report.ask.kind)
    <3>1. /\ report.pc = "reading" /\ report.got[a] = Unread
          /\ report' = Finish([report EXCEPT !.got[a] = Unreadable]) /\ UNCHANGED height
          /\ report.ask.kind \in Balances
      BY <1>6, <2>1 DEF ReadFails, Tolerates
    <3> QED
      BY <3>1, ReadingKept
  <2>2. CASE ~Tolerates(report.ask.kind)
    <3>1. PICK o : o = report
      OBVIOUS
    <3>2. /\ o = [pc |-> o.pc, ask |-> o.ask, vault |-> o.vault, order |-> o.order, got |-> o.got,
                  from |-> o.from, answer |-> o.answer]
          /\ height' = height /\ report' = [o EXCEPT !.pc = "done", !.answer = "error"]
      BY <1>6, <2>2, <3>1 DEF ReadFails, ReportInv
    <3>3. report' = [pc |-> "done", ask |-> o.ask, vault |-> o.vault, order |-> o.order, got |-> o.got,
                     from |-> o.from, answer |-> "error"]
      BY <3>2
    <3> QED
      BY <3>2, <3>3 DEF ReportInv, Opened
  <2> QED
    BY <2>1, <2>2
<1>7. CASE UNCHANGED reportVars
  BY <1>7 DEF reportVars, ReportInv, Opened
<1> QED
  BY <1>1, <1>2, <1>3, <1>4, <1>5, <1>6, <1>7 DEF ReportNext, ReportStep

\* The invariant holds throughout.
LEMMA ReportInvariant == ReportSpec => []ReportInv
  BY ReportInductive, ReportStepKept, PTL DEF ReportSpec

-----------------------------------------------------------------------------
\* Reports: transactions in order

\* How many of the set are newer.
Newer(S, x) == {y \in S : y > x}

\* The fewer are newer, the newer it is.
LEMMA NewerCounts ==
  ASSUME NEW S \in SUBSET Int, IsFiniteSet(S), NEW x \in S, NEW y \in S, x < y
  PROVE  /\ Cardinality(Newer(S, x)) \in Nat /\ Cardinality(Newer(S, y)) \in Nat
         /\ Cardinality(Newer(S, y)) < Cardinality(Newer(S, x))
<1>1. Newer(S, x) \in SUBSET S /\ Newer(S, y) \in SUBSET Newer(S, x)
  <2>1. \A z \in S : z > y => z > x
    OBVIOUS
  <2> QED
    BY <2>1 DEF Newer
<1>2. Newer(S, y) # Newer(S, x)
  BY DEF Newer
<1>3. IsFiniteSet(Newer(S, x)) /\ IsFiniteSet(Newer(S, y))
  BY <1>1, FS_Subset
<1>4. Cardinality(Newer(S, x)) \in Nat /\ Cardinality(Newer(S, y)) \in Nat
  BY <1>3, FS_CardinalityType
<1>5. /\ Cardinality(Newer(S, y)) <= Cardinality(Newer(S, x))
      /\ Cardinality(Newer(S, y)) # Cardinality(Newer(S, x))
  BY <1>1, <1>2, <1>3, FS_Subset
<1> QED
  BY <1>4, <1>5

\* How many of the set come before one in an order, which tells two apart by rank.
Before(S, rank, x) == {y \in S : rank[y] < rank[x]}
Ranks(S, rank) ==
  /\ \A x \in S : rank[x] \in Int
  /\ \A x, y \in S : rank[x] = rank[y] => x = y

\* ListedBy lists each element of the set once, at the place that the number of those
\* before it says.
LEMMA ListedIs ==
  ASSUME NEW S, IsFiniteSet(S), NEW rank, Ranks(S, rank)
  PROVE  LET s == ListedBy(S, rank)
             n == Cardinality(S)
         IN  /\ n \in Nat /\ s \in [1..n -> S] /\ s \in Seq(S) /\ Len(s) = n
             /\ \A i \in 1..n : Cardinality(Before(S, rank, s[i])) = i - 1
             /\ \A x \in S : /\ Cardinality(Before(S, rank, x)) + 1 \in 1..n
                             /\ s[Cardinality(Before(S, rank, x)) + 1] = x
<1> DEFINE n == Cardinality(S)
           s == ListedBy(S, rank)
           B(x) == Before(S, rank, x)
           place == [x \in S |-> Cardinality(B(x)) + 1]
<1>1. n \in Nat
  BY FS_CardinalityType
<1>2. ASSUME NEW x \in S PROVE Cardinality(B(x)) \in 0..(n - 1)
  <2>1. B(x) \in SUBSET S /\ x \notin B(x)
    BY DEF Before, Ranks
  <2> HIDE DEF B
  <2>2. Cardinality(B(x)) \in Nat /\ IsFiniteSet(B(x))
    BY <2>1, FS_Subset, FS_CardinalityType
  <2>3. Cardinality(B(x)) <= n /\ Cardinality(B(x)) # n
    BY <2>1, FS_Subset
  <2> QED
    BY <1>1, <2>2, <2>3
<1>3. \A x, y \in S : x # y => Cardinality(B(x)) # Cardinality(B(y))
  <2>1. ASSUME NEW x \in S, NEW y \in S, rank[x] < rank[y]
        PROVE  Cardinality(B(x)) # Cardinality(B(y))
    <3>1. B(x) \in SUBSET B(y) /\ B(x) # B(y) /\ B(y) \in SUBSET S
      <4>1. \A z \in S : rank[z] \in Int
        BY DEF Ranks
      <4>2. x \in B(y) /\ x \notin B(x)
        BY <2>1, <4>1 DEF Before
      <4>3. \A z \in S : rank[z] < rank[x] => rank[z] < rank[y]
        BY <2>1, <4>1
      <4> QED
        BY <4>2, <4>3 DEF Before
    <3> HIDE DEF B
    <3>2. IsFiniteSet(B(y))
      BY <3>1, FS_Subset
    <3> QED
      BY <3>1, <3>2, FS_Subset
  <2>2. \A x, y \in S : x # y => rank[x] < rank[y] \/ rank[y] < rank[x]
    BY DEF Ranks
  <2> HIDE DEF B
  <2> QED
    BY <2>1, <2>2
<1> HIDE DEF B
<1>4. place \in Injection(S, 1..n)
  <2>1. place \in [S -> 1..n]
    BY <1>1, <1>2
  <2>2. \A x, y \in S : place[x] = place[y] => x = y
    BY <1>2, <1>3
  <2> HIDE DEF place
  <2> QED
    BY <2>1, <2>2 DEF Injection, IsInjective
<1>5. place \in Surjection(S, 1..n)
  <2>1. IsFiniteSet(1..n) /\ Cardinality(1..n) = n
    BY <1>1, FS_Interval
  <2> HIDE DEF place
  <2> QED
    BY <1>4, <2>1, FS_Injection
<1>6. ASSUME NEW i \in 1..n PROVE s[i] \in S /\ Cardinality(B(s[i])) = i - 1
  <2>1. \E x \in S : place[x] = i
    <3> HIDE DEF place
    <3> QED
      BY <1>5 DEF Surjection
  <2>2. \E x \in S : Cardinality(B(x)) = i - 1
    BY <1>1, <1>2, <2>1
  <2>3. s[i] = CHOOSE x \in S : Cardinality(B(x)) = i - 1
    BY DEF ListedBy, Before, B
  <2> QED
    BY <2>2, <2>3
<1>7. s \in [1..n -> S]
  BY <1>6 DEF ListedBy
<1>8. s \in Seq(S) /\ Len(s) = n
  BY <1>1, <1>7
<1> HIDE DEF s
<1>9. ASSUME NEW x \in S
      PROVE  Cardinality(B(x)) + 1 \in 1..n /\ s[Cardinality(B(x)) + 1] = x
  <2> DEFINE i == Cardinality(B(x)) + 1
  <2>1. i \in 1..n
    BY <1>1, <1>2
  <2>2. s[i] \in S /\ Cardinality(B(s[i])) = i - 1
    BY <1>6, <2>1
  <2>3. Cardinality(B(s[i])) = Cardinality(B(x))
    BY <1>1, <1>2, <2>2
  <2> QED
    BY <1>3, <2>1, <2>2, <2>3
<1> QED
  BY <1>1, <1>6, <1>7, <1>8, <1>9 DEF s, B

\* In the order of the newest, those before a transaction are the newer ones.
LEMMA NewestRanks ==
  ASSUME NEW S \in SUBSET (1..Len(Chain))
  PROVE  Ranks(S, Newest) /\ S \in SUBSET Int /\ \A x \in S : Before(S, Newest, x) = Newer(S, x)
<1>1. \A x \in S : x \in Int /\ Newest[x] = -x
  BY ChainAssumption DEF Newest
<1>2. ASSUME NEW x \in S PROVE Before(S, Newest, x) = Newer(S, x)
  <2>1. \A y \in S : Newest[y] < Newest[x] <=> y > x
    BY <1>1
  <2> QED
    BY <2>1 DEF Before, Newer
<1> QED
  BY <1>1, <1>2 DEF Ranks

\* NewestFirst lists each element of the set once, each before the older ones,
\* at the place that the number of newer ones says.
LEMMA NewestFirstIs ==
  ASSUME NEW S \in SUBSET (1..Len(Chain)), IsFiniteSet(S)
  PROVE  LET s == NewestFirst(S)
             n == Cardinality(S)
         IN  /\ n \in Nat /\ s \in [1..n -> S] /\ s \in Seq(S) /\ Len(s) = n
             /\ \A i, j \in 1..n : i < j => s[i] > s[j]
             /\ \A i \in 1..n : Cardinality(Newer(S, s[i])) = i - 1
             /\ \A x \in S : /\ Cardinality(Newer(S, x)) + 1 \in 1..n
                             /\ s[Cardinality(Newer(S, x)) + 1] = x
<1> DEFINE n == Cardinality(S)
           s == NewestFirst(S)
<1>1. /\ Ranks(S, Newest) /\ S \in SUBSET Int
      /\ \A x \in S : Before(S, Newest, x) = Newer(S, x)
  BY NewestRanks
<1>2. /\ n \in Nat /\ s \in [1..n -> S] /\ s \in Seq(S) /\ Len(s) = n
      /\ \A i \in 1..n : Cardinality(Before(S, Newest, s[i])) = i - 1
      /\ \A x \in S : /\ Cardinality(Before(S, Newest, x)) + 1 \in 1..n
                      /\ s[Cardinality(Before(S, Newest, x)) + 1] = x
  BY <1>1, ListedIs DEF NewestFirst
<1> HIDE DEF s, n
<1>3. /\ \A i \in 1..n : s[i] \in S /\ Cardinality(Newer(S, s[i])) = i - 1
      /\ \A x \in S : /\ Cardinality(Newer(S, x)) + 1 \in 1..n
                      /\ s[Cardinality(Newer(S, x)) + 1] = x
  BY <1>1, <1>2
<1>4. ASSUME NEW i \in 1..n, NEW j \in 1..n, i < j PROVE s[i] > s[j]
  <2>1. s[i] \in Int /\ s[j] \in Int
    BY <1>1, <1>3
  <2>2. CASE s[i] = s[j]
    BY <1>2, <1>3, <1>4, <2>2
  <2>3. CASE s[i] < s[j]
    <3>1. /\ Cardinality(Newer(S, s[i])) = i - 1 /\ Cardinality(Newer(S, s[j])) = j - 1
          /\ s[i] \in S /\ s[j] \in S
      BY <1>3
    <3>2. Cardinality(Newer(S, s[j])) < Cardinality(Newer(S, s[i]))
      BY <1>1, <2>3, <3>1, NewerCounts
    <3> QED
      BY <1>2, <1>4, <3>1, <3>2
  <2> QED
    BY <2>1, <2>2, <2>3
<1> QED
  BY <1>2, <1>3, <1>4 DEF s, n

\* Where a cut ends, and what is cut out of a list.
ClipEnd(s, offset, limit) ==
  IF offset + limit > Len(s) THEN Len(s) ELSE offset + limit

LEMMA ClipIs ==
  ASSUME NEW T, NEW s \in Seq(T), NEW offset \in Nat, NEW limit \in Nat
  PROVE  /\ Clip(s, offset, limit) \in Seq(T)
         /\ Len(Clip(s, offset, limit)) =
              IF offset < ClipEnd(s, offset, limit) THEN ClipEnd(s, offset, limit) - offset ELSE 0
         /\ \A x : x \in Range(Clip(s, offset, limit)) <=>
                     \E i \in (offset + 1)..ClipEnd(s, offset, limit) : x = s[i]
<1> DEFINE to == ClipEnd(s, offset, limit)
           part == Clip(s, offset, limit)
<1>1. Len(s) \in Nat /\ to \in Nat /\ to <= Len(s) /\ \A i \in 1..Len(s) : s[i] \in T
  BY DEF ClipEnd
<1>2. part = SubSeq(s, offset + 1, to)
  BY DEF Clip, ClipEnd
<1> HIDE DEF to, part
<1>3. \A i \in (offset + 1)..to : s[i] \in T
  BY <1>1
<1>4. /\ part \in Seq(T)
      /\ Len(part) = IF offset + 1 <= to THEN to - (offset + 1) + 1 ELSE 0
      /\ \A i \in 1..(to - (offset + 1) + 1) : part[i] = s[i + (offset + 1) - 1]
  <2>1. offset + 1 \in Int /\ to \in Int
    BY <1>1
  <2>2. /\ part \in Seq(T)
        /\ Len(part) = IF offset + 1 <= to THEN to - (offset + 1) + 1 ELSE 0
        /\ \A i \in 1..(to - (offset + 1) + 1) : part[i] = s[(offset + 1) + i - 1]
    BY ONLY <1>2, <1>3, <2>1, SubSeqProperties
  <2> QED
    BY <1>1, <2>2
<1>5. /\ Len(part) = IF offset < to THEN to - offset ELSE 0
      /\ \A i \in 1..(to - offset) : part[i] = s[offset + i]
  BY <1>1, <1>4
<1>6. Range(part) = {part[i] : i \in 1..Len(part)}
  BY <1>4 DEF Range
<1>7. ASSUME NEW x PROVE x \in Range(part) <=> \E i \in (offset + 1)..to : x = s[i]
  <2>1. ASSUME NEW i \in 1..Len(part), x = part[i]
        PROVE  \E k \in (offset + 1)..to : x = s[k]
    <3>1. offset + i \in (offset + 1)..to /\ i \in 1..(to - offset)
      BY <1>1, <1>5
    <3> QED
      BY <1>5, <2>1, <3>1
  <2>2. ASSUME NEW k \in (offset + 1)..to, x = s[k]
        PROVE  \E i \in 1..Len(part) : x = part[i]
    <3>1. k - offset \in 1..Len(part) /\ k - offset \in 1..(to - offset)
      BY <1>1, <1>5
    <3>2. offset + (k - offset) = k
      BY <1>1
    <3> QED
      BY <1>5, <2>2, <3>1, <3>2
  <2> QED
    BY <1>6, <2>1, <2>2
<1> QED
  BY <1>4, <1>5, <1>7 DEF to, part

\* The first page of a set of transactions: those that fewer than its limit are
\* newer than, each once, and as many as the limit if one is left out.
LEMMA FirstPageIs ==
  ASSUME NEW S \in SUBSET (1..Len(Chain)), IsFiniteSet(S), NEW limit \in Nat
  PROVE  LET part == Clip(NewestFirst(S), 0, limit)
         IN  /\ Range(part) = {x \in S : Cardinality(Newer(S, x)) < limit}
             /\ IsFiniteSet(Range(part)) /\ Cardinality(Range(part)) = Len(part)
             /\ Range(part) # S => Len(part) = limit
<1> DEFINE s == NewestFirst(S)
           n == Cardinality(S)
           to == IF limit > n THEN n ELSE limit
           part == Clip(s, 0, limit)
<1>1. /\ n \in Nat /\ s \in [1..n -> S] /\ s \in Seq(S) /\ Len(s) = n
      /\ \A i, j \in 1..n : i < j => s[i] > s[j]
      /\ \A i \in 1..n : Cardinality(Newer(S, s[i])) = i - 1
      /\ \A x \in S : /\ Cardinality(Newer(S, x)) + 1 \in 1..n
                      /\ s[Cardinality(Newer(S, x)) + 1] = x
  BY NewestFirstIs
<1>0. S \in SUBSET Int
  BY ChainAssumption
<1> HIDE DEF s, n
<1>2. /\ to \in 0..n /\ 1..to \subseteq 1..n
      /\ limit > n => to = n
      /\ ~(limit > n) => to = limit
  BY <1>1
<1> HIDE DEF to
<1>3. /\ Len(part) = to /\ part \in Seq(S)
      /\ \A x : x \in Range(part) <=> \E i \in 1..to : x = s[i]
  <2>1. ClipEnd(s, 0, limit) = to
    BY <1>1, <1>2 DEF ClipEnd
  <2>2. s \in Seq(S) /\ 0 \in Nat /\ limit \in Nat
    BY <1>1
  <2>3. /\ part \in Seq(S)
        /\ Len(part) = IF 0 < ClipEnd(s, 0, limit) THEN ClipEnd(s, 0, limit) - 0 ELSE 0
        /\ \A x : x \in Range(part) <=> \E i \in (0 + 1)..ClipEnd(s, 0, limit) : x = s[i]
    BY ONLY <2>2, ClipIs, Zenon
  <2> HIDE DEF part
  <2> QED
    BY <1>2, <2>1, <2>3
<1> HIDE DEF part
<1>4. Range(part) = {x \in S : Cardinality(Newer(S, x)) < limit}
  <2>1. ASSUME NEW i \in 1..to PROVE s[i] \in S /\ Cardinality(Newer(S, s[i])) < limit
    <3>1. i \in 1..n /\ to <= limit
      BY <1>1, <1>2
    <3>2. s[i] \in S /\ Cardinality(Newer(S, s[i])) = i - 1
      BY <1>1, <3>1
    <3> QED
      BY <1>2, <3>1, <3>2
  <2>2. ASSUME NEW x \in S, Cardinality(Newer(S, x)) < limit PROVE \E i \in 1..to : x = s[i]
    <3>1. Cardinality(Newer(S, x)) + 1 \in 1..to
      BY <1>1, <1>2, <2>2
    <3> QED
      BY <1>1, <3>1
  <2>3. \A x : x \in Range(part) <=> x \in S /\ Cardinality(Newer(S, x)) < limit
    <3> TAKE x
    <3>1. ASSUME x \in Range(part) PROVE x \in S /\ Cardinality(Newer(S, x)) < limit
      <4>1. PICK i \in 1..to : x = s[i]
        BY <1>3, <3>1
      <4> QED
        BY <2>1, <4>1
    <3> QED
      BY <1>3, <2>2, <3>1
  <2> QED
    BY <2>3
<1>5. IsFiniteSet(Range(part)) /\ Cardinality(Range(part)) = to
  <2> DEFINE f == [i \in 1..to |-> s[i]]
  <2>1. f \in Surjection(1..to, Range(part))
    BY <1>3 DEF Surjection
  <2>2. f \in Injection(1..to, Range(part))
    <3>1. f \in [1..to -> Range(part)]
      BY <1>3
    <3>2. \A i, j \in 1..to : f[i] = f[j] => i = j
      <4> SUFFICES ASSUME NEW i \in 1..to, NEW j \in 1..to, i < j PROVE s[i] # s[j]
        BY <1>2
      <4>1. i \in 1..n /\ j \in 1..n
        BY <1>2
      <4>2. s[i] \in Int /\ s[j] \in Int
        BY <1>0, <1>1, <4>1
      <4>3. s[i] > s[j]
        BY <1>1, <4>1
      <4> QED
        BY <4>2, <4>3
    <3> HIDE DEF f
    <3> QED
      BY <3>1, <3>2 DEF Injection, IsInjective
  <2>3. IsFiniteSet(1..to) /\ Cardinality(1..to) = to
    BY <1>2, FS_Interval
  <2> HIDE DEF f
  <2>4. ExistsBijection(1..to, Range(part))
    BY <2>1, <2>2 DEF ExistsBijection, Bijection
  <2> QED
    BY <2>3, <2>4, FS_Bijection
<1>6. ASSUME Range(part) # S PROVE to = limit
  <2>1. PICK x \in S : x \notin Range(part)
    BY <1>4, <1>6
  <2>2. Cardinality(Newer(S, x)) + 1 \in 1..n /\ ~(Cardinality(Newer(S, x)) < limit)
    BY <1>1, <1>4, <2>1
  <2> QED
    BY <1>1, <1>2, <2>2
<1> QED
  BY <1>3, <1>4, <1>5, <1>6 DEF part, s

-----------------------------------------------------------------------------
\* Reports: histories

\* What is known of an answered report.
LEMMA AnswerKnown ==
  ASSUME ReportInv, report.pc = "done", report.answer = "ok"
  PROVE  /\ Len(Chain) \in Nat /\ height \in 0..Len(Chain) /\ report.from \in 0..height
         /\ report.vault \in Vaults /\ report.ask \in Asked /\ report.order \in Orders
         /\ report.ask.limit \in Nat /\ report.ask.offset \in Nat
         /\ DOMAIN report.got = Read(report.vault, report.ask.kind)
         /\ IsFiniteSet(DOMAIN report.got) /\ IsFiniteSet(Answering)
         /\ Answering \subseteq DOMAIN report.got
         /\ \A a \in DOMAIN report.got : /\ a \in Answering => report.got[a] \in report.from..height
                                         /\ a \notin Answering => report.got[a] \in {Unreadable, Blank}
                                         /\ \E b \in report.vault : a = b.address
         /\ report.ask.kind \notin Balances =>
              \A a \in DOMAIN report.got : a \notin Answering => report.got[a] = Blank
<1>1. /\ Len(Chain) \in Nat /\ height \in 0..Len(Chain) /\ report.from \in 0..height
      /\ report.vault \in Vaults /\ report.ask \in Asked /\ report.order \in Orders
      /\ report.got \in [Read(report.vault, report.ask.kind) ->
                         {Unread, Unreadable, Blank} \cup report.from..height]
      /\ \A a \in DOMAIN report.got :
           /\ report.got[a] = Unreadable => report.ask.kind \in Balances
           /\ report.got[a] # Unread
  BY ChainAssumption DEF ReportInv, Opened
<1>2. report.ask.limit \in Nat /\ report.ask.offset \in Nat
  BY <1>1, AskedAssumption
<1>3. \A a \in DOMAIN report.got : report.got[a] \in {Unreadable, Blank} \cup report.from..height
  BY <1>1
<1>4. /\ ~(Unreadable >= 0) /\ ~(Blank >= 0)
      /\ \A h \in report.from..height : h >= 0 /\ h # Unreadable /\ h # Blank
  BY <1>1 DEF Unreadable, Blank
<1>5. \A a \in DOMAIN report.got : /\ a \in Answering => report.got[a] \in report.from..height
                                   /\ a \notin Answering => report.got[a] \in {Unreadable, Blank}
  BY <1>3, <1>4 DEF Answering, Known
<1>6. \A a \in DOMAIN report.got : \E b \in report.vault : a = b.address
  BY <1>1 DEF Read
<1>7. IsFiniteSet(DOMAIN report.got)
  <2> DEFINE D == {b \in report.vault : report.ask.kind \in Histories \/ b.base}
             f == [b \in D |-> b.address]
  <2>1. IsFiniteSet(D)
    BY <1>1, VaultAssumption, FS_Subset
  <2>2. f \in Surjection(D, DOMAIN report.got)
    BY <1>1 DEF Surjection, Read
  <2> HIDE DEF D, f
  <2> QED
    BY <2>1, <2>2, FS_Surjection
<1>8. Answering \subseteq DOMAIN report.got
  BY DEF Answering, Known
<1>9. IsFiniteSet(Answering)
  BY <1>7, <1>8, FS_Subset
<1>10. report.ask.kind \notin Balances =>
         \A a \in DOMAIN report.got : a \notin Answering => report.got[a] = Blank
  BY <1>1, <1>5
<1> QED
  BY <1>1, <1>2, <1>5, <1>6, <1>7, <1>8, <1>9, <1>10

\* The transactions of an address that had happened when it was read, and how many
\* of them the provider was asked for.
Seen(a) == {i \in 1..report.got[a] : a \in Chain[i].touches}
AskedFor == IF report.ask.limit = 0 THEN PageSize ELSE report.ask.limit
AllParts == UNION {Range(Parts[a]) : a \in Answering}

\* The parts that a flat history is merged from.
LEMMA PartsAre ==
  ASSUME ReportInv, report.pc = "done", report.answer = "ok"
  PROVE  /\ AskedFor \in Nat
         /\ \A a \in Answering : /\ Seen(a) \in SUBSET (1..height) /\ IsFiniteSet(Seen(a))
                                 /\ Parts[a] = Clip(ListedBy(Seen(a), report.order), report.ask.offset, AskedFor)
                                 /\ Range(Parts[a]) \subseteq Seen(a)
         /\ AllParts \subseteq 1..height /\ AllParts \in SUBSET (1..Len(Chain))
         /\ AllParts \in SUBSET Int /\ IsFiniteSet(AllParts)
<1>1. AskedFor \in Nat
  BY AnswerKnown, AskedAssumption DEF AskedFor
<1>2. ASSUME NEW a \in Answering
      PROVE  /\ Seen(a) \in SUBSET Int /\ IsFiniteSet(Seen(a)) /\ Seen(a) \subseteq 1..height
             /\ Parts[a] = Clip(ListedBy(Seen(a), report.order), report.ask.offset, AskedFor)
             /\ Range(Parts[a]) \subseteq Seen(a)
  <2>1. report.got[a] \in 0..height /\ height \in Nat
    BY AnswerKnown
  <2>2. Seen(a) \subseteq 1..height /\ Seen(a) \in SUBSET Int
    BY <2>1 DEF Seen
  <2>3. IsFiniteSet(Seen(a))
    <3>1. IsFiniteSet(1..height)
      BY <2>1, FS_Interval
    <3> QED
      BY <2>2, <3>1, FS_Subset
  <2>4. Parts[a] = Clip(ListedBy(Seen(a), report.order), report.ask.offset, AskedFor)
    BY DEF Parts, PartOf, History, Seen, AskedFor
  <2> DEFINE s == ListedBy(Seen(a), report.order)
  <2>5. s \in Seq(Seen(a))
    <3>1. Ranks(Seen(a), report.order)
      <4>1. Seen(a) \subseteq 1..Len(Chain) /\ report.order \in Orders
        BY <2>1, <2>2, AnswerKnown
      <4> QED
        BY <4>1, OrderAssumption DEF Ranks
    <3> QED
      BY <2>3, <3>1, ListedIs
  <2>6. Clip(s, report.ask.offset, AskedFor) \in Seq(Seen(a))
    <3>1. report.ask.offset \in Nat
      BY AnswerKnown
    <3> HIDE DEF s
    <3> QED
      BY <1>1, <2>5, <3>1, ClipIs
  <2>7. Range(Parts[a]) \subseteq Seen(a)
    <3> HIDE DEF s
    <3>1. Parts[a] \in Seq(Seen(a))
      BY <2>4, <2>6 DEF s
    <3> QED
      BY <3>1 DEF Range
  <2> QED
    BY <2>2, <2>3, <2>4, <2>7
<1>3. AllParts \subseteq 1..height
  <2> SUFFICES ASSUME NEW x \in AllParts PROVE x \in 1..height
    OBVIOUS
  <2>1. PICK a \in Answering : x \in Range(Parts[a])
    BY DEF AllParts
  <2> QED
    BY <1>2, <2>1
<1>4. height \in Nat
  BY AnswerKnown
<1>5. AllParts \in SUBSET Int /\ AllParts \in SUBSET (1..Len(Chain))
  BY <1>3, <1>4, AnswerKnown
<1>6. IsFiniteSet(AllParts)
  <2>1. IsFiniteSet(1..height)
    BY <1>4, FS_Interval
  <2> QED
    BY <1>3, <2>1, FS_Subset
<1> QED
  BY <1>1, <1>2, <1>3, <1>5, <1>6

\* A history or UTxO listing that is answered had an answer from every address.
LEMMA NothingLeftOutHolds == ReportInv => NothingLeftOut
<1> SUFFICES ASSUME ReportInv, Answered(Histories \cup {"utxos"})
             PROVE  Answering \cup Blanks = Read(report.vault, report.ask.kind)
  BY DEF NothingLeftOut
<1>1. report.ask.kind \notin Balances /\ report.pc = "done" /\ report.answer = "ok"
  BY DEF Answered, Histories, Balances
<1>2. /\ Answering \subseteq DOMAIN report.got
      /\ \A a \in DOMAIN report.got : a \notin Answering => report.got[a] = Blank
      /\ DOMAIN report.got = Read(report.vault, report.ask.kind)
  BY <1>1, AnswerKnown
<1> QED
  BY <1>2 DEF Blanks

\* A transaction newer than one on the first page is among the newest of its address,
\* else these would push the other off the page.
LEMMA FirstPageHolds == ReportInv => FirstPageHasNoGap
<1> SUFFICES ASSUME ReportInv, Answered({"flat"}), report.order = Newest,
                    report.ask.offset = 0, report.ask.limit > 0
             PROVE  /\ Cardinality(Range(Page)) = Len(Page)
                    /\ \A i \in Range(Page), j \in 1..report.from :
                         (j > i /\ Chain[j].touches \cap Answering # {}) => j \in Range(Page)
  BY DEF FirstPageHasNoGap
<1> DEFINE limit == report.ask.limit
<1>1. /\ report.pc = "done" /\ report.answer = "ok" /\ limit \in Nat
      /\ AskedFor = limit /\ Limit = limit
  BY AnswerKnown DEF Answered, AskedFor, Limit
<1>2. Merged = NewestFirst(AllParts)
  BY DEF Merged, AllParts
<1>3. Page = Clip(NewestFirst(AllParts), 0, limit)
  BY <1>1, <1>2 DEF Page
<1>4. AllParts \in SUBSET Int /\ AllParts \in SUBSET (1..Len(Chain)) /\ IsFiniteSet(AllParts)
  BY <1>1, PartsAre
<1>5. /\ Range(Page) = {x \in AllParts : Cardinality(Newer(AllParts, x)) < limit}
      /\ Cardinality(Range(Page)) = Len(Page)
  <2> HIDE DEF limit
  <2> QED
    BY <1>1, <1>3, <1>4, FirstPageIs
<1>6. ASSUME NEW i \in Range(Page), NEW j \in 1..report.from,
             j > i, Chain[j].touches \cap Answering # {}
      PROVE  j \in Range(Page)
  <2>1. i \in AllParts /\ Cardinality(Newer(AllParts, i)) < limit
    BY <1>5
  <2>2. PICK a \in Answering : a \in Chain[j].touches
    BY <1>6
  <2>3. /\ Seen(a) \in SUBSET (1..Len(Chain)) /\ Seen(a) \in SUBSET Int /\ IsFiniteSet(Seen(a))
        /\ Parts[a] = Clip(NewestFirst(Seen(a)), 0, limit)
    <3>1. height \in 0..Len(Chain) /\ Len(Chain) \in Nat
      BY <1>1, AnswerKnown
    <3>2. Seen(a) \in SUBSET (1..height) /\ IsFiniteSet(Seen(a))
      BY <1>1, PartsAre
    <3>3. Parts[a] = Clip(ListedBy(Seen(a), Newest), 0, limit)
      BY <1>1, PartsAre
    <3> QED
      BY <3>1, <3>2, <3>3 DEF NewestFirst
  <2>4. j \in Seen(a)
    BY <1>1, <2>2, AnswerKnown DEF Seen
  <2> DEFINE part == Range(Parts[a])
  <2>5. /\ part = {x \in Seen(a) : Cardinality(Newer(Seen(a), x)) < limit}
        /\ IsFiniteSet(part)
        /\ part # Seen(a) => Cardinality(part) = limit
    <3> HIDE DEF limit
    <3> DEFINE S == Seen(a)
    <3>1. S \in SUBSET (1..Len(Chain)) /\ IsFiniteSet(S) /\ limit \in Nat
      BY <1>1, <2>3
    <3> HIDE DEF S
    <3>2. LET page == Clip(NewestFirst(S), 0, limit)
          IN  /\ Range(page) = {x \in S : Cardinality(Newer(S, x)) < limit}
              /\ IsFiniteSet(Range(page)) /\ Cardinality(Range(page)) = Len(page)
              /\ Range(page) # S => Len(page) = limit
      BY ONLY <3>1, FirstPageIs
    <3> QED
      BY <2>3, <3>2 DEF S
  <2>6. part \subseteq AllParts
    BY DEF AllParts
  <2>7. i \in Int /\ j \in Int
    BY <1>4, <2>1, <2>3, <2>4
  <2>8. j \in part
    <3> SUFFICES ASSUME j \notin part PROVE FALSE
      OBVIOUS
    <3>1. ASSUME NEW x \in part PROVE x \in Newer(AllParts, i)
      <4>1. /\ x \in Seen(a) /\ x \in Int
            /\ Cardinality(Newer(Seen(a), x)) < limit
            /\ ~(Cardinality(Newer(Seen(a), j)) < limit)
        BY <2>3, <2>4, <2>5
      <4>2. ~(x < j)
        <5> SUFFICES ASSUME x < j PROVE FALSE
          OBVIOUS
        <5>1. /\ Cardinality(Newer(Seen(a), x)) \in Nat /\ Cardinality(Newer(Seen(a), j)) \in Nat
              /\ Cardinality(Newer(Seen(a), j)) < Cardinality(Newer(Seen(a), x))
          BY <2>3, <2>4, <4>1, NewerCounts
        <5> QED
          BY <1>1, <4>1, <5>1
      <4>3. x > i
        BY <1>6, <2>7, <4>1, <4>2
      <4> QED
        BY <2>6, <4>3 DEF Newer
    <3>2. part \in SUBSET Newer(AllParts, i)
      BY <3>1
    <3>3. Newer(AllParts, i) \in SUBSET AllParts
      BY DEF Newer
    <3>4. IsFiniteSet(Newer(AllParts, i))
      BY <1>4, <3>3, FS_Subset
    <3>5. Cardinality(part) <= Cardinality(Newer(AllParts, i))
      BY <3>2, <3>4, FS_Subset
    <3>6. Cardinality(Newer(AllParts, i)) \in Nat
      BY <3>4, FS_CardinalityType
    <3>7. Cardinality(part) = limit
      BY <2>4, <2>5
    <3> QED
      BY <1>1, <2>1, <3>5, <3>6, <3>7
  <2>9. j \in AllParts
    BY <2>6, <2>8
  <2>10. /\ Cardinality(Newer(AllParts, i)) \in Nat /\ Cardinality(Newer(AllParts, j)) \in Nat
         /\ Cardinality(Newer(AllParts, j)) < Cardinality(Newer(AllParts, i))
    BY <1>4, <1>6, <2>1, <2>7, <2>9, NewerCounts
  <2> QED
    BY <1>1, <1>5, <2>1, <2>9, <2>10
<1> QED
  BY <1>5, <1>6

\* The transaction after the last one of the page is older than all of them.
LEMMA MoreHolds == ReportInv => MoreMeansMore
<1> SUFFICES ASSUME ReportInv, Answered({"flat"}), HasMore
             PROVE  \E j \in 1..height :
                      j \notin Range(Page) /\ Chain[j].touches \cap Answering # {}
                      /\ \A i \in Range(Page) : j < i
  BY DEF MoreMeansMore
<1> DEFINE n == Cardinality(AllParts)
           offset == report.ask.offset
<1>1. /\ report.pc = "done" /\ report.answer = "ok" /\ offset \in Nat
      /\ report.ask.limit \in Nat /\ report.ask.kind = "flat"
  BY AnswerKnown DEF Answered
<1>2. Merged = NewestFirst(AllParts)
  BY DEF Merged, AllParts
<1>3. /\ AllParts \in SUBSET Int /\ AllParts \in SUBSET (1..Len(Chain))
      /\ IsFiniteSet(AllParts) /\ AllParts \subseteq 1..height
  BY <1>1, PartsAre
<1>4. /\ n \in Nat /\ Merged \in [1..n -> AllParts] /\ Merged \in Seq(AllParts) /\ Len(Merged) = n
      /\ \A i, j \in 1..n : i < j => Merged[i] > Merged[j]
  BY <1>2, <1>3, NewestFirstIs
<1>5. Fetched = n /\ offset + Limit < n
  BY <1>1, <1>4 DEF Fetched, HasMore
<1>6. Limit \in Nat
  BY <1>1, <1>4, <1>5 DEF Limit
<1> DEFINE j == Merged[offset + Limit + 1]
<1>7. offset + Limit + 1 \in 1..n
  BY <1>1, <1>4, <1>5, <1>6
<1>8. j \in AllParts
  BY <1>4, <1>7
<1>9. ASSUME NEW i \in Range(Page) PROVE j < i /\ i \in Int
  <2>1. Page = Clip(Merged, offset, Limit)
    BY DEF Page
  <2> HIDE DEF offset, n
  <2>2. PICK k \in (offset + 1)..ClipEnd(Merged, offset, Limit) : i = Merged[k]
    <3>1. Merged \in Seq(AllParts) /\ offset \in Nat /\ Limit \in Nat
      BY <1>1, <1>4, <1>6
    <3>2. \A x : x \in Range(Clip(Merged, offset, Limit)) <=>
                   \E k \in (offset + 1)..ClipEnd(Merged, offset, Limit) : x = Merged[k]
      BY ONLY <3>1, ClipIs, Zenon
    <3> QED
      BY <2>1, <3>2
  <2>3. ClipEnd(Merged, offset, Limit) = offset + Limit
    BY <1>1, <1>4, <1>5, <1>6 DEF ClipEnd
  <2>4. k \in 1..n /\ k < offset + Limit + 1
    BY <1>1, <1>4, <1>6, <1>7, <2>2, <2>3
  <2>5. Merged[k] > j /\ Merged[k] \in Int /\ j \in Int
    BY <1>3, <1>4, <1>7, <1>8, <2>4
  <2> QED
    BY <2>2, <2>5
<1> HIDE DEF j
<1>10. j \notin Range(Page)
  BY <1>9
<1>11. Chain[j].touches \cap Answering # {}
  <2>1. PICK a \in Answering : j \in Range(Parts[a])
    BY <1>8 DEF AllParts
  <2>2. j \in Seen(a)
    BY <1>1, <2>1, PartsAre
  <2> QED
    BY <2>2 DEF Seen
<1> QED
  BY <1>3, <1>8, <1>9, <1>10, <1>11

\* What a vault's history is worth (fetchAllVaultHistory, getUtxosByVaultAccountId): no
\* address that failed is left out, a first page has no gap when the provider lists the
\* newest first, and more is announced only where there is more, in any order.
THEOREM HistoriesAreWholeInvariant == ReportSpec => []HistoriesAreWhole
<1>1. ReportInv => HistoriesAreWhole
  BY NothingLeftOutHolds, FirstPageHolds, MoreHolds DEF HistoriesAreWhole
<1> QED
  BY <1>1, ReportInvariant, PTL

-----------------------------------------------------------------------------
\* Reports: balances

\* What a transaction does to a unit of an address, and how much it moves.
Effect(a, u) == [i \in 1..Len(Chain) |-> Chain[i].effect[a][u]]
Size(a, u) == [i \in 1..Len(Chain) |->
  LET e == Chain[i].effect[a][u] IN IF e < 0 THEN -e ELSE e]

\* Amounts of an address of a vault are numbers: what it held at a height, and
\* what moved between two.
LEMMA AmountsOfAddress ==
  ASSUME NEW vault \in Vaults, NEW b \in vault, NEW u \in Units,
         NEW h \in 0..Len(Chain), NEW g \in 0..h
  PROVE  /\ Value(b.address, h)[u] = SumOn(Effect(b.address, u), 1..h)
         /\ Value(b.address, h)[u] \in Int /\ Value(b.address, h)[u] >= 0
         /\ Moved(b.address, u, g, h) = SumOn(Size(b.address, u), (g + 1)..h)
         /\ Moved(b.address, u, g, h) \in Int
<1> DEFINE a == b.address
           e == [i \in 1..h |-> Chain[i].effect[a][u]]
           m == [i \in (g + 1)..h |-> LET x == Chain[i].effect[a][u] IN IF x < 0 THEN -x ELSE x]
<1>1. /\ Len(Chain) \in Nat /\ h \in Nat /\ h <= Len(Chain) /\ g \in Nat
      /\ \A i \in 1..Len(Chain) : Chain[i].effect[a][u] \in Int
      /\ Value(a, h)[u] >= 0
  BY ChainAssumption
<1>2. /\ IsFiniteSet(1..h) /\ IsFiniteSet((g + 1)..h)
      /\ 1..h \subseteq 1..Len(Chain) /\ (g + 1)..h \subseteq 1..Len(Chain)
  <2>1. 1 \in Int /\ h \in Int /\ g + 1 \in Int
    BY <1>1
  <2>2. IsFiniteSet(1..h) /\ IsFiniteSet((g + 1)..h)
    BY ONLY <2>1, FS_Interval
  <2> QED
    BY <1>1, <2>2
<1>3. /\ DOMAIN e = 1..h /\ \A i \in 1..h : e[i] \in Int /\ e[i] = Effect(a, u)[i]
      /\ DOMAIN m = (g + 1)..h
      /\ \A i \in (g + 1)..h : m[i] \in Int /\ m[i] = Size(a, u)[i]
  BY <1>1, <1>2 DEF Effect, Size
<1>4. Value(a, h)[u] = SumFunction(e) /\ Moved(a, u, g, h) = SumFunction(m)
  BY DEF Value, Moved
<1> HIDE DEF e, m, a
<1>5. /\ SumFunction(e) = SumOn(e, 1..h) /\ SumFunction(e) \in Int
      /\ SumFunction(m) = SumOn(m, (g + 1)..h) /\ SumFunction(m) \in Int
  BY <1>2, <1>3, SumOfTable
<1>6. SumOn(e, 1..h) = SumOn(Effect(a, u), 1..h)
  BY <1>2, <1>3, SumCongruent
<1>7. SumOn(m, (g + 1)..h) = SumOn(Size(a, u), (g + 1)..h)
  BY <1>2, <1>3, SumCongruent
<1> QED
  BY <1>1, <1>4, <1>5, <1>6, <1>7 DEF a

\* What an address held when it was read differs from what it holds now by no more
\* than what moved since the start.
LEMMA HeldWithinWhatMoved ==
  ASSUME NEW vault \in Vaults, NEW b \in vault, NEW u \in Units,
         NEW h \in 0..Len(Chain), NEW from \in 0..h, NEW g \in from..h
  PROVE  /\ Value(b.address, g)[u] <= Value(b.address, h)[u] + Moved(b.address, u, from, h)
         /\ Value(b.address, h)[u] <= Value(b.address, g)[u] + Moved(b.address, u, from, h)
<1> DEFINE a == b.address
           e == Effect(a, u)
           m == Size(a, u)
           early == [i \in 1..h |-> IF i <= g THEN e[i] ELSE 0]
           late == [i \in 1..h |-> IF i > from THEN m[i] ELSE 0]
           now == [i \in 1..h |-> e[i] + late[i]]
           then == [i \in 1..h |-> early[i] + late[i]]
<1>1. /\ Len(Chain) \in Nat /\ h \in Nat /\ h <= Len(Chain) /\ from \in Nat /\ from <= g
      /\ g \in Nat /\ g <= h /\ g \in 0..Len(Chain)
      /\ \A i \in 1..Len(Chain) : Chain[i].effect[a][u] \in Int
  BY ChainAssumption
<1>2. /\ Value(a, g)[u] = SumOn(e, 1..g) /\ Value(a, h)[u] = SumOn(e, 1..h)
      /\ Value(a, g)[u] \in Int /\ Value(a, h)[u] \in Int
      /\ Moved(a, u, from, h) = SumOn(m, (from + 1)..h) /\ Moved(a, u, from, h) \in Int
  BY <1>1, AmountsOfAddress
<1>3. IsFiniteSet(1..h) /\ 1..g \in SUBSET (1..h) /\ (from + 1)..h \in SUBSET (1..h)
  <2>1. IsFiniteSet(1..h)
    BY <1>1, FS_Interval
  <2>2. 1..g \in SUBSET (1..h) /\ (from + 1)..h \in SUBSET (1..h)
    BY <1>1
  <2> QED
    BY <2>1, <2>2
<1>4. \A i \in 1..h : /\ e[i] \in Int /\ m[i] \in Int /\ m[i] >= 0
                      /\ e[i] <= m[i] /\ -e[i] <= m[i]
  <2> TAKE i \in 1..h
  <2>1. i \in 1..Len(Chain)
    BY <1>1
  <2>2. Chain[i].effect[a][u] \in Int
    BY <1>1, <2>1
  <2>3. /\ e[i] = Chain[i].effect[a][u]
        /\ m[i] = IF Chain[i].effect[a][u] < 0 THEN -Chain[i].effect[a][u]
                  ELSE Chain[i].effect[a][u]
    BY <2>1 DEF Effect, Size
  <2> HIDE DEF a, e, m
  <2> QED
    BY <2>2, <2>3
<1> HIDE DEF a, e, m
<1>5. \A i \in 1..h : /\ early[i] \in Int /\ late[i] \in Int
                      /\ now[i] \in Int /\ now[i] = e[i] + late[i]
                      /\ then[i] \in Int /\ then[i] = early[i] + late[i]
  BY <1>4
<1>6. SumOn(early, 1..h) = SumOn(e, 1..g)
  <2>1. SumOn(early, 1..h) <= SumOn(e, 1..g) /\ SumOn(e, 1..g) <= SumOn(early, 1..h)
    <3>1. /\ \A i \in 1..h : early[i] \in Int /\ e[i] \in Int
          /\ \A i \in 1..h \ 1..g : early[i] = 0
          /\ \A i \in 1..g : early[i] = e[i] /\ e[i] \in Int
      BY <1>1, <1>4
    <3>2. (1..h) \ (1..g) = 1..h \ 1..g /\ (1..g) \ (1..h) = {} /\ (1..h) \cap (1..g) = 1..g
          /\ (1..g) \cap (1..h) = 1..g
      BY <1>3
    <3> HIDE DEF early
    <3>3. SumOn(early, 1..h) <= SumOn(e, 1..g)
      BY <1>3, <3>1, <3>2, SumGrows
    <3>4. SumOn(e, 1..g) <= SumOn(early, 1..h)
      BY <1>3, <3>1, <3>2, SumGrows
    <3> QED
      BY <3>3, <3>4
  <2>2. SumOn(early, 1..h) \in Int
    <3> HIDE DEF early
    <3> QED
      BY <1>3, <1>5, SumAdds
  <2> QED
    BY <1>2, <2>1, <2>2
<1>7. SumOn(late, 1..h) = SumOn(m, (from + 1)..h)
  <2>1. /\ \A i \in 1..h : late[i] \in Int /\ m[i] \in Int
        /\ \A i \in (1..h) \ ((from + 1)..h) : late[i] = 0
        /\ \A i \in (from + 1)..h : late[i] = m[i] /\ m[i] \in Int
    BY <1>1, <1>3, <1>4
  <2>2. /\ ((from + 1)..h) \ (1..h) = {} /\ (1..h) \cap ((from + 1)..h) = (from + 1)..h
        /\ ((from + 1)..h) \cap (1..h) = (from + 1)..h
    BY <1>3
  <2> HIDE DEF late
  <2>3. SumOn(late, 1..h) <= SumOn(m, (from + 1)..h)
    BY <1>3, <2>1, <2>2, SumGrows
  <2>4. SumOn(m, (from + 1)..h) <= SumOn(late, 1..h)
    BY <1>3, <2>1, <2>2, SumGrows
  <2>5. SumOn(late, 1..h) \in Int
    BY <1>3, <1>5, SumAdds
  <2> QED
    BY <1>2, <2>3, <2>4, <2>5
<1>8. \A i \in 1..h : early[i] <= now[i] /\ e[i] <= then[i]
  BY <1>1, <1>4
<1> HIDE DEF early, late, now, then
<1>9. SumOn(now, 1..h) = SumOn(e, 1..h) + SumOn(late, 1..h)
  BY <1>3, <1>4, <1>5, SumPlus
<1>10. SumOn(then, 1..h) = SumOn(early, 1..h) + SumOn(late, 1..h)
  BY <1>3, <1>5, SumPlus
<1>11. /\ 1..h \in SUBSET (1..h) /\ (1..h) \ (1..h) = {} /\ (1..h) \cap (1..h) = 1..h
  OBVIOUS
<1>12. SumOn(early, 1..h) <= SumOn(now, 1..h)
  BY <1>3, <1>5, <1>8, <1>11, SumGrows
<1>13. SumOn(e, 1..h) <= SumOn(then, 1..h)
  BY <1>3, <1>4, <1>5, <1>8, <1>11, SumGrows
<1> QED
  BY <1>2, <1>6, <1>7, <1>9, <1>10, <1>12, <1>13 DEF a

\* What each address of an answered balance held of a unit when it was read, holds
\* now, and what moved in between.
HeldOf(u) == [a \in Answering |-> Value(a, report.got[a])[u]]
NowOf(u) == [a \in Answering |-> Value(a, height)[u]]
MovedOf(u) == [a \in Answering |-> Moved(a, u, report.from, height)]

\* These are numbers, within each other.
LEMMA HoldingsAre ==
  ASSUME ReportInv, report.pc = "done", report.answer = "ok", NEW u \in Units, NEW a \in Answering
  PROVE  /\ HeldOf(u)[a] \in Int /\ HeldOf(u)[a] >= 0
         /\ NowOf(u)[a] \in Int /\ MovedOf(u)[a] \in Int
         /\ HeldOf(u)[a] <= NowOf(u)[a] + MovedOf(u)[a]
         /\ NowOf(u)[a] <= HeldOf(u)[a] + MovedOf(u)[a]
<1>1. /\ Len(Chain) \in Nat /\ height \in 0..Len(Chain) /\ report.from \in 0..height
      /\ report.vault \in Vaults /\ report.got[a] \in report.from..height
      /\ \E b \in report.vault : a = b.address
  BY AnswerKnown
<1>2. PICK b \in report.vault : a = b.address
  BY <1>1
<1>3. /\ report.got[a] \in 0..Len(Chain) /\ 0 \in 0..report.got[a]
  BY <1>1
<1>4. Value(a, report.got[a])[u] \in Int /\ Value(a, report.got[a])[u] >= 0
  BY <1>1, <1>2, <1>3, AmountsOfAddress
<1>5. Value(a, height)[u] \in Int /\ Moved(a, u, report.from, height) \in Int
  BY <1>1, <1>2, AmountsOfAddress
<1>6. /\ Value(a, report.got[a])[u] <= Value(a, height)[u] + Moved(a, u, report.from, height)
      /\ Value(a, height)[u] <= Value(a, report.got[a])[u] + Moved(a, u, report.from, height)
  BY <1>1, <1>2, HeldWithinWhatMoved
<1> QED
  BY <1>4, <1>5, <1>6 DEF HeldOf, NowOf, MovedOf

\* A vault's total of a unit is the sum over the addresses that could be read.
LEMMA ByTokenIs ==
  ASSUME ReportInv, report.pc = "done", report.answer = "ok", NEW u \in Units
  PROVE  /\ ByToken(report.got)[u] = SumFunction(HeldOf(u))
         /\ ByToken(report.got)[u] = SumOn(HeldOf(u), Answering)
         /\ ByToken(report.got)[u] \in Int /\ ByToken(report.got)[u] >= 0
<1>1. ByToken(report.got)[u] = SumFunction(HeldOf(u))
  <2> DEFINE held == [a \in Known(report.got) |-> Value(a, report.got[a])]
  <2>1. [a \in DOMAIN held |-> held[a][u]] = HeldOf(u)
    BY DEF HeldOf, Answering
  <2>2. ByToken(report.got) = Total(held)
    BY DEF ByToken
  <2> HIDE DEF held
  <2> QED
    BY <2>1, <2>2 DEF Total
<1>2. IsFiniteSet(Answering)
  BY AnswerKnown
<1>3. \A a \in Answering : HeldOf(u)[a] \in Int /\ HeldOf(u)[a] >= 0
  BY HoldingsAre
<1>4. DOMAIN HeldOf(u) = Answering
  BY DEF HeldOf
<1>5. SumFunction(HeldOf(u)) = SumOn(HeldOf(u), Answering) /\ SumFunction(HeldOf(u)) \in Int
  BY <1>2, <1>3, <1>4, SumOfTable
<1>6. SumOn(HeldOf(u), Answering) >= 0
  <2>1. /\ {} \in SUBSET Answering /\ Answering \in SUBSET Answering
        /\ {} \ Answering = {} /\ Answering \ {} = Answering /\ {} \cap Answering = {}
    OBVIOUS
  <2>2. SumOn(HeldOf(u), {}) <= SumOn(HeldOf(u), Answering)
    BY <1>2, <1>3, <2>1, SumGrows
  <2>3. SumOn(HeldOf(u), {}) = 0
    BY FS_EmptySet, SumOnIs
  <2> QED
    BY <1>5, <2>2, <2>3
<1> QED
  BY <1>1, <1>5, <1>6

\* The addresses that could not be read add nothing to the total by address, and
\* each unit has one place in the grouping by policy.
LEMMA GroupingsHold == ReportInv => GroupingsAgree
<1> SUFFICES ASSUME ReportInv, Answered(Balances)
             PROVE  LET t == ByToken(report.got) a == ByAddress(report.got) p == ByPolicy(report.got) IN
                    /\ a.total = t /\ p.lovelace = t[Lovelace]
                    /\ \A u \in Units \ {Lovelace} : p.policies[u[1]][u[2]] = t[u]
                    /\ \A u \in Units : t[u] >= 0
  BY DEF GroupingsAgree
<1>1. report.pc = "done" /\ report.answer = "ok"
  BY DEF Answered
<1> DEFINE got == report.got
<1>2. ByAddress(got).total = ByToken(got)
  <2>1. ASSUME NEW u \in Units PROVE Total(Lines(got))[u] = ByToken(got)[u]
    <3> DEFINE f == [a \in DOMAIN Lines(got) |-> Lines(got)[a][u]]
    <3>1. DOMAIN f = DOMAIN got /\ IsFiniteSet(DOMAIN got) /\ Answering \in SUBSET DOMAIN got
      BY <1>1, AnswerKnown DEF Lines
    <3>2. \A a \in Answering : f[a] = HeldOf(u)[a]
      BY <1>1, <3>1, AnswerKnown DEF Lines, HeldOf, Answering, Known
    <3>3. \A a \in DOMAIN got \ Answering : f[a] = 0
      BY <1>1, AnswerKnown DEF Lines, NoValue, Unreadable, Blank
    <3>4. \A a \in DOMAIN got : f[a] \in Int
      BY <1>1, <3>2, <3>3, HoldingsAre
    <3> HIDE DEF f
    <3>5. SumFunction(f) = SumOn(f, DOMAIN got) /\ SumFunction(f) \in Int
      BY <3>1, <3>4, SumOfTable
    <3>6. SumOn(f, Answering) = ByToken(got)[u] /\ ByToken(got)[u] \in Int
      <4>1. SumOn(f, Answering) = SumOn(HeldOf(u), Answering)
        BY <1>1, <3>2, AnswerKnown, SumCongruent
      <4> QED
        BY <1>1, <4>1, ByTokenIs
    <3>7. SumOn(f, DOMAIN got) = SumOn(f, Answering)
      <4>1. /\ DOMAIN got \in SUBSET DOMAIN got /\ Answering \ DOMAIN got = {}
            /\ \A a \in DOMAIN got \ Answering : f[a] <= 0 /\ f[a] >= 0
            /\ \A a \in DOMAIN got \cap Answering : f[a] <= f[a]
            /\ \A a \in Answering \cap DOMAIN got : f[a] <= f[a]
        BY <3>1, <3>3, <3>4
      <4>2. SumOn(f, DOMAIN got) <= SumOn(f, Answering)
        BY <3>1, <3>4, <4>1, SumGrows
      <4>3. SumOn(f, Answering) <= SumOn(f, DOMAIN got)
        BY <3>1, <3>4, <4>1, SumGrows
      <4> QED
        BY <3>5, <3>6, <4>2, <4>3
    <3>8. Total(Lines(got))[u] = SumFunction(f)
      BY DEF Total, f
    <3> QED
      BY <3>5, <3>6, <3>7, <3>8
  <2>2. /\ Total(Lines(got)) = [u \in Units |-> Total(Lines(got))[u]]
        /\ ByToken(got) = [u \in Units |-> ByToken(got)[u]]
    BY DEF ByToken, Total
  <2>3. Total(Lines(got)) = ByToken(got)
    BY <2>1, <2>2
  <2> QED
    BY <2>3 DEF ByAddress
<1>3. ASSUME NEW u \in Units \ {Lovelace}
      PROVE  ByPolicy(got).policies[u[1]][u[2]] = ByToken(got)[u]
  <2>1. u = <<u[1], u[2]>> /\ u[1] # ""
    BY UnitAssumption
  <2>2. u[1] \in PolicyIds /\ u[2] \in {v[2] : v \in {w \in Units : w[1] = u[1]}}
    BY <2>1 DEF PolicyIds
  <2>3. ByPolicy(got).policies[u[1]][u[2]] =
          SumFunction([a \in Known(got) |-> Value(a, got[a])[<<u[1], u[2]>>]])
    BY <2>2 DEF ByPolicy
  <2>4. [a \in Known(got) |-> Value(a, got[a])[<<u[1], u[2]>>]] = HeldOf(u)
    BY <2>1 DEF HeldOf, Answering
  <2> QED
    BY <1>1, <2>3, <2>4, ByTokenIs
<1>4. ByPolicy(got).lovelace = ByToken(got)[Lovelace]
  <2>1. ByPolicy(got).lovelace = SumFunction(HeldOf(Lovelace))
    BY DEF ByPolicy, HeldOf, Answering
  <2>2. Lovelace \in Units
    BY UnitAssumption
  <2> QED
    BY <1>1, <2>1, <2>2, ByTokenIs
<1>5. \A u \in Units : ByToken(got)[u] >= 0
  BY <1>1, ByTokenIs
<1> QED
  BY <1>2, <1>3, <1>4, <1>5

\* A total is off by no more than its addresses are.
LEMMA TotalHolds == ReportInv => TotalWithinWhatMoved
<1> SUFFICES ASSUME ReportInv, Answered(Balances), NEW u \in Units
             PROVE  ByToken(report.got)[u] - SumFunction(NowOf(u))
                      \in (-SumFunction(MovedOf(u)))..SumFunction(MovedOf(u))
  BY DEF TotalWithinWhatMoved, NowOf, MovedOf
<1> DEFINE S == Answering
           held == HeldOf(u)
           now == NowOf(u)
           moved == MovedOf(u)
           above == [a \in S |-> now[a] + moved[a]]
           below == [a \in S |-> held[a] + moved[a]]
<1>1. report.pc = "done" /\ report.answer = "ok" /\ IsFiniteSet(S)
  BY AnswerKnown DEF Answered
<1>2. \A a \in S : /\ held[a] \in Int /\ now[a] \in Int /\ moved[a] \in Int
                   /\ held[a] <= now[a] + moved[a] /\ now[a] <= held[a] + moved[a]
  BY <1>1, HoldingsAre
<1>3. \A a \in S : /\ above[a] \in Int /\ above[a] = now[a] + moved[a] /\ held[a] <= above[a]
                   /\ below[a] \in Int /\ below[a] = held[a] + moved[a] /\ now[a] <= below[a]
  BY <1>2
<1>4. DOMAIN now = S /\ DOMAIN moved = S
  BY DEF NowOf, MovedOf
<1>5. ByToken(report.got)[u] = SumOn(held, S) /\ ByToken(report.got)[u] \in Int
  BY <1>1, ByTokenIs
<1> HIDE DEF S, held, now, moved, above, below
<1>6. /\ SumFunction(now) = SumOn(now, S) /\ SumFunction(now) \in Int
      /\ SumFunction(moved) = SumOn(moved, S) /\ SumFunction(moved) \in Int
  BY <1>1, <1>2, <1>4, SumOfTable
<1>7. SumOn(above, S) = SumOn(now, S) + SumOn(moved, S)
  BY <1>1, <1>2, <1>3, SumPlus
<1>8. SumOn(below, S) = SumOn(held, S) + SumOn(moved, S)
  BY <1>1, <1>2, <1>3, SumPlus
<1>9. S \in SUBSET S /\ S \ S = {} /\ S \cap S = S
  OBVIOUS
<1>10. SumOn(held, S) <= SumOn(above, S)
  BY <1>1, <1>2, <1>3, <1>9, SumGrows
<1>11. SumOn(now, S) <= SumOn(below, S)
  BY <1>1, <1>2, <1>3, <1>9, SumGrows
<1> QED
  BY <1>5, <1>6, <1>7, <1>8, <1>10, <1>11 DEF now, moved

\* What a vault's balance is worth (getVaultBalance): its groupings agree, and it is
\* wrong by no more than what moved while it was read.
THEOREM BalancesAreRightInvariant == ReportSpec => []BalancesAreRight
<1>1. ReportInv => BalancesAreRight
  BY GroupingsHold, TotalHolds DEF BalancesAreRight
<1> QED
  BY <1>1, ReportInvariant, PTL
=============================================================================
