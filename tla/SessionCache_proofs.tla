------------------------- MODULE SessionCache_proofs -------------------------
(***************************************************************************)
(* Write generations do their work for any number of ids and fills, any    *)
(* capacity, and with sweeps: a fill that still matches its token is one   *)
(* whose slot was left alone, and a fill that was overtaken only refreshes *)
(* what is shown.                                                          *)
(***************************************************************************)
EXTENDS SessionCache, FiniteSetTheorems, TLAPS

(***************************************************************************)
(* OwnersAreUndisturbed follows from an order: tokens and generations      *)
(* never exceed the counter, and a disturbed fill's token is below its     *)
(* slot's current generation.                                              *)
(***************************************************************************)

\* The part of the state that numbers the slots.
NumbersOK ==
    /\ writeSeq \in Nat /\ aged \subseteq Ids
    /\ generation \in [Ids -> Nat \cup {Unset}]
    /\ filling \subseteq Fills /\ disturbed \subseteq Fills
    /\ fillId \in [Fills -> Ids] /\ fillToken \in [Fills -> Nat]

Bounded ==
    /\ \A i \in Ids : CurrentGeneration(i) <= writeSeq
    /\ \A f \in Fills : fillToken[f] <= writeSeq

DisturbedFallBehind ==
    \A f \in filling \cap disturbed : fillToken[f] < CurrentGeneration(fillId[f])

IInv == NumbersOK /\ Bounded /\ DisturbedFallBehind

\* What every operation but a new fill does to the numbers: the counter grows
\* by at least one if a slot is disturbed, and each slot keeps its generation,
\* takes the counter's new value, or is pruned.
Renumber(D) ==
    /\ writeSeq' \in Nat /\ writeSeq' >= writeSeq
    /\ aged' \subseteq Ids
    /\ generation' \in [Ids -> Nat \cup {Unset}]
    /\ \A i \in Ids : generation'[i] \in {generation[i], writeSeq', Unset}
    /\ \A i \in D \cap Ids : writeSeq' > writeSeq /\ generation'[i] \in {writeSeq', Unset}
    /\ filling' \subseteq filling /\ fillId' = fillId /\ fillToken' = fillToken
    /\ Disturb(D)

\* Such a step keeps the order between tokens, generations and the counter.
LEMMA RenumberInv == ASSUME IInv, NEW D, Renumber(D) PROVE IInv'
<1> USE SizeOK DEF IInv, NumbersOK, Renumber
<1>1. NumbersOK'
  BY DEF Disturb
<1>2. \A i \in Ids :
        /\ CurrentGeneration(i)' <= writeSeq'
        /\ CurrentGeneration(i) <= CurrentGeneration(i)'
        /\ i \in D => CurrentGeneration(i)' = writeSeq'
  BY DEF CurrentGeneration, Bounded
<1>3. Bounded'
  BY <1>2 DEF Bounded
<1>4. DisturbedFallBehind'
  <2> SUFFICES ASSUME NEW f \in filling', f \in disturbed'
               PROVE  fillToken[f] < CurrentGeneration(fillId[f])'
    BY DEF DisturbedFallBehind
  <2>1. CASE f \in disturbed
    BY <1>2, <2>1 DEF DisturbedFallBehind, CurrentGeneration
  <2>2. CASE f \notin disturbed
    BY <1>2, <2>2 DEF Disturb, Bounded
  <2>3. QED  BY <2>1, <2>2
<1>5. QED  BY <1>1, <1>3, <1>4

\* A new fill takes the counter's next value, which is above all tokens.
LEMMA BeginFillInv ==
    ASSUME IInv, NEW f \in Fills, NEW i \in Ids, BeginFill(f, i)
    PROVE  IInv'
<1> USE SizeOK DEF IInv, NumbersOK, BeginFill
<1>1. NumbersOK'
  OBVIOUS
<1>2. \A j \in Ids : /\ CurrentGeneration(j)' <= writeSeq'
                     /\ CurrentGeneration(j) <= CurrentGeneration(j)'
  BY DEF CurrentGeneration, Bounded
<1>3. CurrentGeneration(i)' = writeSeq + 1
  BY DEF CurrentGeneration
<1>4. Bounded'
  BY <1>2 DEF Bounded
<1>5. DisturbedFallBehind'
  <2> SUFFICES ASSUME NEW g \in filling', g \in disturbed'
               PROVE  fillToken'[g] < CurrentGeneration(fillId[g])'
    BY DEF DisturbedFallBehind
  <2>1. g # f /\ g \in filling /\ fillToken'[g] = fillToken[g] /\ fillId'[g] = fillId[g]
    OBVIOUS
  <2>2. CASE g \in disturbed
    BY <1>2, <2>1, <2>2 DEF DisturbedFallBehind, CurrentGeneration
  <2>3. CASE g \notin disturbed
    BY <1>3, <2>1, <2>3 DEF Bounded
  <2>4. QED  BY <2>2, <2>3
<1>6. QED  BY <1>1, <1>4, <1>5

\* A set of at most one element.
LEMMA SmallCardinality ==
    ASSUME NEW S, S = {} \/ \E v : S = {v}
    PROVE  Cardinality(S) \in Nat /\ (S # {} => Cardinality(S) = 1)
<1>1. CASE S = {}
  BY <1>1, FS_EmptySet
<1>2. CASE \E v : S = {v}
  <2>1. PICK v : S = {v}
    BY <1>2
  <2>2. Cardinality({v}) = 1
    BY FS_Singleton
  <2>3. QED  BY <2>1, <2>2
<1>3. QED  BY <1>1, <1>2

\* set renumbers the slot it fills, if it advances, and the one it evicts.
LEMMA PutRenumbers ==
    ASSUME IInv, NEW i \in Ids, NEW s, NEW dirty \in BOOLEAN, NEW advance \in BOOLEAN,
           Put(i, s, dirty, advance),
           filling' \subseteq filling, fillId' = fillId, fillToken' = fillToken
    PROVE  \E D : Renumber(D)
<1> DEFINE gone == IF ~Cached(i) /\ Len(order) >= MaxSize THEN {Head(order)} ELSE {}
           D == gone \cup (IF advance THEN {i} ELSE {})
<1>1. gone = {} \/ \E v : gone = {v}
  OBVIOUS
<1>2. Cardinality(gone) \in Nat /\ (gone # {} => Cardinality(gone) = 1)
  BY <1>1, SmallCardinality
<1>3. /\ writeSeq' = writeSeq + Cardinality(gone) + (IF advance THEN 1 ELSE 0)
      /\ generation' = [j \in Ids |-> IF j = i /\ advance THEN writeSeq'
                                      ELSE IF j \in gone THEN Unset ELSE generation[j]]
      /\ aged' = aged \ (gone \cup {i})
      /\ Disturb(D)
  BY DEF Put
<1>4. writeSeq' \in Nat /\ writeSeq' >= writeSeq /\ (D # {} => writeSeq' > writeSeq)
  <2> HIDE DEF gone
  <2>1. CASE advance
    BY <1>2, <1>3, <2>1 DEF IInv, NumbersOK
  <2>2. CASE ~advance
    BY <1>2, <1>3, <2>2 DEF IInv, NumbersOK
  <2>3. QED  BY <2>1, <2>2
<1> HIDE DEF gone
<1>5. Renumber(D)
  BY <1>3, <1>4 DEF Renumber, IInv, NumbersOK
<1>6. QED  BY <1>5

\* invalidate renumbers its slot.
LEMMA InvalidateRenumbers ==
    ASSUME IInv, NEW i \in Ids, Invalidate(i),
           filling' \subseteq filling, fillId' = fillId, fillToken' = fillToken
    PROVE  Renumber({i})
  BY DEF IInv, NumbersOK, Invalidate, Remove, Renumber

\* So does a sweep, for all the slots it empties.
LEMMA SweepRenumbers ==
    ASSUME IInv, Cleanup \/ Clear
    PROVE  \E D : Renumber(D)
<1>1. CASE Cleanup
  <2>1. IsFiniteSet(aged)
    BY FS_Subset, SizeOK DEF IInv, NumbersOK
  <2>2. Cardinality(aged) \in Nat /\ (aged # {} => Cardinality(aged) > 0)
    BY <2>1, FS_CardinalityType, FS_EmptySet
  <2>3. Renumber(aged)
    BY <1>1, <2>2 DEF Cleanup, Remove, Renumber, IInv, NumbersOK, Fresh
  <2>4. QED  BY <2>3
<1>2. CASE Clear
  <2>1. Renumber(Ids)
    BY <1>2 DEF Clear, Remove, Renumber, IInv, NumbersOK
  <2>2. QED  BY <2>1
<1>3. QED  BY <1>1, <1>2

\* A fill that ends without touching a slot.
LEMMA UndisturbedInv ==
    ASSUME IInv, UNCHANGED <<slotVars, disturbed>>,
           filling' \subseteq filling, fillId' = fillId, fillToken' = fillToken
    PROVE  IInv'
  BY DEF slotVars, IInv, NumbersOK, Bounded, DisturbedFallBehind, CurrentGeneration

\* The numbers are in order at the start, and every step keeps them so.
LEMMA InitInv == ASSUME Init PROVE IInv
BY SizeOK DEF Init, IInv, NumbersOK, Bounded, DisturbedFallBehind, CurrentGeneration

LEMMA NextInv == ASSUME IInv, [Next]_vars PROVE IInv'
<1>1. ASSUME NEW i \in Ids, NEW s, NEW dirty \in BOOLEAN, Set(i, s, dirty)
      PROVE  IInv'
  BY <1>1, PutRenumbers, RenumberInv DEF Set, fillVars
<1>2. ASSUME NEW i \in Ids, Drop(i)
      PROVE  IInv'
  BY <1>2, InvalidateRenumbers, RenumberInv DEF Drop, fillVars
<1>3. ASSUME NEW f \in Fills, NEW s, FillFound(f, s)
      PROVE  IInv'
  <2> DEFINE i == fillId[f]
  <2>1. i \in Ids
    BY DEF IInv, NumbersOK
  <2>2. filling' \subseteq filling /\ fillId' = fillId /\ fillToken' = fillToken
    BY <1>3 DEF FillFound, EndFill
  <2>3. CASE Put(i, s, FALSE, TRUE) \/ Put(i, s, FALSE, FALSE)
    BY <2>1, <2>2, <2>3, PutRenumbers, RenumberInv
  <2>4. CASE UNCHANGED <<slotVars, disturbed>>
    BY <2>2, <2>4, UndisturbedInv
  <2>5. QED  BY <1>3, <2>3, <2>4 DEF FillFound
<1>4. ASSUME NEW f \in Fills, FillMissing(f)
      PROVE  IInv'
  <2>1. fillId[f] \in Ids
    BY DEF IInv, NumbersOK
  <2>2. filling' \subseteq filling /\ fillId' = fillId /\ fillToken' = fillToken
    BY <1>4 DEF FillMissing, EndFill
  <2>3. CASE Invalidate(fillId[f])
    BY <2>1, <2>2, <2>3, InvalidateRenumbers, RenumberInv
  <2>4. CASE UNCHANGED <<slotVars, disturbed>>
    BY <2>2, <2>4, UndisturbedInv
  <2>5. QED  BY <1>4, <2>3, <2>4 DEF FillMissing
<1>5. ASSUME NEW f \in Fills, NEW i \in Ids, BeginFill(f, i)
      PROVE  IInv'
  BY <1>5, BeginFillInv
<1>6. CASE Cleanup \/ Clear
  BY <1>6, SweepRenumbers, RenumberInv
<1>7. CASE (\E i \in Ids : Hit(i) \/ Touch(i) \/ Age(i)) \/ FlushTouches
  BY <1>7 DEF Hit, Touch, Age, FlushTouches, fillVars, IInv, NumbersOK, Bounded,
              DisturbedFallBehind, CurrentGeneration
<1>8. CASE UNCHANGED vars
  BY <1>8 DEF vars, slotVars, fillVars, IInv, NumbersOK, Bounded,
              DisturbedFallBehind, CurrentGeneration
<1>9. QED  BY <1>1, <1>2, <1>3, <1>4, <1>5, <1>6, <1>7, <1>8 DEF Next

\* A fill that still owns its slot was not disturbed.
LEMMA OwnersKnown == ASSUME IInv PROVE OwnersAreUndisturbed
BY DEF IInv, NumbersOK, DisturbedFallBehind, OwnersAreUndisturbed, Owns, CurrentGeneration

\* Only an undisturbed fill still owns its slot: a token never equals a later
\* generation of its id, nor the counter that a pruned generation reads back as.
THEOREM OwnersUndisturbed == Spec => []OwnersAreUndisturbed
<1>1. Init => IInv  BY InitInv
<1>2. IInv /\ [Next]_vars => IInv'  BY NextInv
<1>3. IInv => OwnersAreUndisturbed  BY OwnersKnown
<1>4. QED  BY <1>1, <1>2, <1>3, PTL DEF Spec

\* A fill that ends leaves the map as it is, or stores its record, or empties its slot.
LEMMA EndsFill ==
    ASSUME [Next]_vars, NEW f \in filling, f \notin filling'
    PROVE  FillMissing(f) \/ \E s \in Sessions : FillFound(f, s)
<1>1. CASE \E g \in Fills : FillMissing(g) \/ \E s \in Sessions : FillFound(g, s)
  <2>1. PICK g \in Fills : FillMissing(g) \/ \E s \in Sessions : FillFound(g, s)  BY <1>1
  <2>2. filling' = filling \ {g}  BY <2>1 DEF FillMissing, FillFound, EndFill
  <2>3. f = g  BY <2>2
  <2>4. QED  BY <2>1, <2>3
<1>2. CASE \E g \in Fills, i \in Ids : BeginFill(g, i)  BY <1>2 DEF BeginFill
<1>3. CASE \E i \in Ids : \/ Hit(i) \/ Touch(i) \/ Drop(i) \/ Age(i)
                         \/ \E s \in Sessions, dirty \in BOOLEAN : Set(i, s, dirty)
  BY <1>3 DEF Hit, Touch, Drop, Age, Set, fillVars
<1>4. CASE FlushTouches \/ Cleanup \/ Clear \/ UNCHANGED vars
  BY <1>4 DEF FlushTouches, Cleanup, Clear, fillVars, vars
<1>5. QED  BY <1>1, <1>2, <1>3, <1>4 DEF Next

\* A fill that was disturbed stores nothing, or a later revision over the record of the
\* same incarnation: it does not own its slot any more (sessionCache.ts 116-130).
THEOREM LateFillsStoreLittle == Spec => LateFillsDefer
<1>1. Init => IInv  BY InitInv
<1>2. IInv /\ [Next]_vars => IInv'  BY NextInv
<1> DEFINE Defers == \A f \in filling \cap disturbed :
             f \notin filling' =>
               \/ entry' = entry
               \/ /\ Cached(fillId[f]) /\ entry'[fillId[f]] # NoSession
                  /\ Supersedes(entry'[fillId[f]], entry[fillId[f]])
                  /\ \A i \in Ids \ {fillId[f]} : entry'[i] = entry[i]
<1>3. IInv /\ [Next]_vars => [Defers]_vars
  <2> SUFFICES ASSUME IInv, [Next]_vars, NEW f \in filling \cap disturbed, f \notin filling'
               PROVE  \/ entry' = entry
                      \/ /\ Cached(fillId[f]) /\ entry'[fillId[f]] # NoSession
                         /\ Supersedes(entry'[fillId[f]], entry[fillId[f]])
                         /\ \A i \in Ids \ {fillId[f]} : entry'[i] = entry[i]
    OBVIOUS
  <2>1. ~Owns(f) /\ fillId[f] \in Ids  BY OwnersKnown DEF OwnersAreUndisturbed, IInv, NumbersOK
  <2>2. CASE FillMissing(f)  BY <2>1, <2>2 DEF FillMissing, slotVars
  <2>3. CASE \E s \in Sessions : FillFound(f, s)
    <3>1. PICK s \in Sessions : FillFound(f, s)  BY <2>3
    <3>2. CASE Cached(fillId[f]) /\ Supersedes(s, entry[fillId[f]]) /\ Put(fillId[f], s, FALSE, FALSE)
      <4>1. entry' = [j \in Ids |-> IF j = fillId[f] THEN s ELSE entry[j]]
        BY <3>2, Zenon DEF Put
      <4>2. QED  BY <2>1, <3>2, <4>1, SizeOK
    <3>3. CASE UNCHANGED <<slotVars, disturbed>>  BY <3>3 DEF slotVars
    <3>4. QED  BY <2>1, <3>1, <3>2, <3>3 DEF FillFound
  <2>4. QED  BY <2>2, <2>3, EndsFill
<1>4. QED  BY <1>1, <1>2, <1>3, PTL DEF Spec, LateFillsDefer
=============================================================================
