---------------------------- MODULE SessionCache ----------------------------
(***************************************************************************)
(* The cache of one server instance (src/server/core/sessionCache.ts): an  *)
(* insertion-ordered map of bounded size, per-id write generations drawn   *)
(* from one counter, and asynchronous fills that claim a generation before *)
(* their await and publish after it.                                       *)
(*                                                                         *)
(* The users of the cache are free: any sequence of its operations may     *)
(* happen, with any record as the result of a fill.                        *)
(***************************************************************************)
EXTENDS Integers, Sequences, FiniteSets

CONSTANTS
    Ids, Fills,
    Births, Revs, \* the incarnations and revisions of the records in play
    MaxSize,      \* 1000 in the code
    Sweeping,     \* whether cleanup() and clear() are called at all
    MaxSeq,       \* bound: the counter stops here
    NoSession, Unset

Sessions == [created : Births, rev : Revs]

ASSUME SizeOK ==
    /\ MaxSize \in Nat \ {0} /\ MaxSeq \in Nat /\ Unset \notin Nat
    /\ IsFiniteSet(Ids) /\ NoSession \notin Sessions

VARIABLES
    entry,      \* id -> cached record
    order,      \* the cached ids, least recently used first
    aged,       \* entries past the cache lifetime
    touchQueue, \* ids whose keepalive is deferred
    generation, \* id -> write generation, Unset when pruned
    writeSeq,
    filling,    \* the fills whose fetch is still awaited
    fillId, fillToken,
    disturbed,  \* history: fills whose slot was set, invalidated, evicted, expired
                \* or claimed by a newer fill since they began
    swept       \* history: fills during which a sweep pruned generations

slotVars == <<entry, order, aged, touchQueue, generation, writeSeq>>
fillVars == <<filling, fillId, fillToken, swept>>
vars     == <<slotVars, fillVars, disturbed>>

TypeOK ==
    /\ entry \in [Ids -> Sessions \cup {NoSession}]
    /\ order \in Seq(Ids)
    /\ aged \subseteq Ids /\ touchQueue \subseteq Ids
    /\ generation \in [Ids -> Nat \cup {Unset}]
    /\ writeSeq \in Nat
    /\ filling \subseteq Fills /\ disturbed \subseteq Fills /\ swept \subseteq Fills
    /\ fillId \in [Fills -> Ids]
    /\ fillToken \in [Fills -> Nat]

Init ==
    /\ entry = [i \in Ids |-> NoSession] /\ order = <<>>
    /\ aged = {} /\ touchQueue = {}
    /\ generation = [i \in Ids |-> Unset] /\ writeSeq = 0
    /\ filling = {} /\ disturbed = {} /\ swept = {}
    /\ fillId \in [Fills -> Ids]
    /\ fillToken = [f \in Fills |-> 0]

Cached(i) == entry[i] # NoSession
Fresh(i)  == Cached(i) /\ i \notin aged

Without(ids) == SelectSeq(order, LAMBDA j : j \notin ids)

\* A pruned generation reads back as the counter.
CurrentGeneration(i) == IF generation[i] = Unset THEN writeSeq ELSE generation[i]
\* Mutant of Owns: a fill publishes as long as the slot has any generation.
Owns_Claimed(f) == generation[fillId[f]] # Unset

Owns(f) == CurrentGeneration(fillId[f]) = fillToken[f]

\* The fills of id i are disturbed (history).
Disturb(ids) == disturbed' = disturbed \cup {f \in filling : fillId[f] \in ids}
-----------------------------------------------------------------------------
\* delete from the map and bump the generation of each of ids, in turn.
Remove(ids) ==
    /\ entry' = [i \in Ids |-> IF i \in ids THEN NoSession ELSE entry[i]]
    /\ order' = Without(ids)
    /\ aged' = aged \ ids
    /\ touchQueue' = touchQueue \ ids

\* set: store s for i as the most recent entry; a new entry of a full cache
\* evicts the least recent one, whose generation is bumped, then pruned.
Put(i, s, dirty, advance) ==
    LET full == ~Cached(i) /\ Len(order) >= MaxSize
        gone == IF full THEN {Head(order)} ELSE {}
        seq  == writeSeq + Cardinality(gone) + (IF advance THEN 1 ELSE 0)
    IN  /\ entry' = [j \in Ids |-> IF j = i THEN s ELSE IF j \in gone THEN NoSession ELSE entry[j]]
        /\ order' = Append(Without(gone \cup {i}), i)
        /\ aged' = aged \ (gone \cup {i})
        /\ touchQueue' = (touchQueue \ gone) \cup (IF dirty THEN {i} ELSE {})
        /\ writeSeq' = seq
        /\ generation' = [j \in Ids |-> IF j = i /\ advance THEN seq
                                        ELSE IF j \in gone THEN Unset ELSE generation[j]]
        /\ Disturb(gone \cup (IF advance THEN {i} ELSE {}))

\* get and getFresh on a fresh entry: it becomes the most recent one.
Hit(i) ==
    /\ Fresh(i)
    /\ order' = Append(Without({i}), i)
    /\ UNCHANGED <<entry, aged, touchQueue, generation, writeSeq, fillVars, disturbed>>

\* touch: refresh the entry and defer the keepalive.
Touch(i) ==
    /\ Cached(i)
    /\ order' = Append(Without({i}), i)
    /\ aged' = aged \ {i}
    /\ touchQueue' = touchQueue \cup {i}
    /\ UNCHANGED <<entry, generation, writeSeq, fillVars, disturbed>>

FlushTouches ==
    /\ touchQueue # {}
    /\ touchQueue' = {}
    /\ UNCHANGED <<entry, order, aged, generation, writeSeq, fillVars, disturbed>>

\* beginFill, by a get that missed or any other fill.
BeginFill(f, i) ==
    /\ f \notin filling
    /\ writeSeq' = writeSeq + 1
    /\ generation' = [generation EXCEPT ![i] = writeSeq']
    /\ filling' = filling \cup {f}
    /\ fillId' = [fillId EXCEPT ![f] = i]
    /\ fillToken' = [fillToken EXCEPT ![f] = writeSeq']
    /\ disturbed' = (disturbed \ {f}) \cup {g \in filling : fillId[g] = i}
    /\ swept' = swept \ {f}
    /\ UNCHANGED <<entry, order, aged, touchQueue>>

EndFill(f) ==
    /\ f \in filling
    /\ filling' = filling \ {f}
    /\ UNCHANGED <<fillId, fillToken, swept>>

Supersedes(s, t) == s.created = t.created /\ s.rev > t.rev

\* replaceStaleFill
FillFound(f, s) ==
    LET i == fillId[f] IN
    /\ EndFill(f)
    /\ \/ Owns(f) /\ Put(i, s, FALSE, TRUE)
       \/ ~Owns(f) /\ Cached(i) /\ Supersedes(s, entry[i]) /\ Put(i, s, FALSE, FALSE)
       \/ /\ ~Owns(f) /\ ~(Cached(i) /\ Supersedes(s, entry[i]))
          /\ UNCHANGED <<slotVars, disturbed>>

\* Mutant of Invalidate: the slot keeps its generation.
Invalidate_Quiet(i) ==
    /\ Remove({i})
    /\ Disturb({i})
    /\ UNCHANGED <<writeSeq, generation>>

\* invalidate, and getFresh on an entry that aged
Invalidate(i) ==
    /\ Remove({i})
    /\ writeSeq' = writeSeq + 1
    /\ generation' = [generation EXCEPT ![i] = writeSeq']
    /\ Disturb({i})

\* invalidateStaleFill
FillMissing(f) ==
    /\ EndFill(f)
    /\ \/ Owns(f) /\ Invalidate(fillId[f])
       \/ ~Owns(f) /\ UNCHANGED <<slotVars, disturbed>>

Set(i, s, dirty) == Put(i, s, dirty, TRUE) /\ UNCHANGED fillVars

Drop(i) == Invalidate(i) /\ UNCHANGED fillVars

Age(i) ==
    /\ Fresh(i)
    /\ aged' = aged \cup {i}
    /\ UNCHANGED <<entry, order, touchQueue, generation, writeSeq, fillVars, disturbed>>

\* cleanup: drop the aged entries, then prune the generations of all ids that
\* are not cached.
Cleanup ==
    LET kept == {i \in Ids : Fresh(i)} IN
    /\ Sweeping
    /\ Remove(aged)
    /\ writeSeq' = writeSeq + Cardinality(aged)
    /\ generation' = [i \in Ids |-> IF i \in kept THEN generation[i] ELSE Unset]
    /\ Disturb(aged)
    /\ swept' = swept \cup filling
    /\ UNCHANGED <<filling, fillId, fillToken>>

\* Mutant of Clear: the counter stays.
Clear_Quiet ==
    /\ Sweeping
    /\ Remove(Ids)
    /\ generation' = [i \in Ids |-> Unset]
    /\ Disturb(Ids)
    /\ swept' = swept \cup filling
    /\ UNCHANGED <<writeSeq, filling, fillId, fillToken>>

Clear ==
    /\ Sweeping
    /\ Remove(Ids)
    /\ writeSeq' = writeSeq + 1
    /\ generation' = [i \in Ids |-> Unset]
    /\ Disturb(Ids)
    /\ swept' = swept \cup filling
    /\ UNCHANGED <<filling, fillId, fillToken>>

Next ==
    /\ writeSeq < MaxSeq
    /\ \/ \E i \in Ids :
            \/ Hit(i) \/ Touch(i) \/ Drop(i) \/ Age(i)
            \/ \E s \in Sessions, dirty \in BOOLEAN : Set(i, s, dirty)
            \/ \E f \in Fills : BeginFill(f, i)
       \/ \E f \in Fills : FillMissing(f) \/ \E s \in Sessions : FillFound(f, s)
       \/ FlushTouches \/ Cleanup \/ Clear

Spec == Init /\ [][Next]_vars
-----------------------------------------------------------------------------
\* A fill still owns its slot only if nothing happened to the slot during its
\* await: no token ever collides with a later generation, in particular not
\* through an evicted, swept or cleared id, whose missing generation reads back
\* as the counter (sessionCache.ts 40-46, 106-130).
OwnersAreUndisturbed == \A f \in filling : Owns(f) => f \notin disturbed

\* A fill that was disturbed never repopulates an emptied slot, and replaces an
\* entry only with a later revision of the same incarnation (sessionCache.ts
\* 116-130).
LateFillsDefer ==
    [][\A f \in filling \cap disturbed :
          f \notin filling' =>
              \/ entry' = entry
              \/ /\ Cached(fillId[f]) /\ entry'[fillId[f]] # NoSession
                 /\ Supersedes(entry'[fillId[f]], entry[fillId[f]])
                 /\ \A i \in Ids \ {fillId[f]} : entry'[i] = entry[i]]_vars

\* sessionCache.ts:261-264 says of cleanup() that a fill still running for a
\* pruned id "will see a mismatch and drop".
PrunedFillsDrop == \A f \in filling \cap swept : generation[fillId[f]] = Unset => ~Owns(f)
-----------------------------------------------------------------------------
\* The slots as SlotOps describes them, and their steps.
Slot == INSTANCE SlotOps WITH Capacity <- MaxSize, NoOwner <- Unset

Owner(i) == IF \E f \in filling : fillId[f] = i /\ Owns(f)
            THEN CHOOSE f \in filling : fillId[f] = i /\ Owns(f)
            ELSE Unset

Slots == [sess |-> entry, aged |-> aged, owner |-> [i \in Ids |-> Owner(i)]]

\* The slots after a sweep that finds no fill running.
SweptSlots(D) == [sess  |-> [i \in Ids |-> IF i \in D THEN NoSession ELSE entry[i]],
                  aged  |-> aged \ D,
                  owner |-> [i \in Ids |-> Unset]]

\* Every step of the cache, but a sweep over running fills and what follows it,
\* is an operation of SlotOps on the slots, the view that module SessionStore has
\* of it: a generation stands for the fill that owns it (sessionCache.ts 40-46,
\* 106-130, 145-176).
StepsAreSlotOps ==
    [][filling \cap swept = {} /\ (filling \cap swept)' = {} =>
       \/ filling = {} /\ \E D \in SUBSET Ids : Slots' = SweptSlots(D)
       \/ \E i \in Ids : Slots' \in {Slot!Dropped(Slots, i), [Slots EXCEPT !.aged = @ \ {i}],
                                     [Slots EXCEPT !.aged = @ \cup {i}]}
       \/ \E i \in Ids, s \in Sessions : Slots' \in Slot!Puts(Slots, i, s)
       \/ \E i \in Ids, f \in Fills : Slots' = Slot!BeginFill(Slots, i, f)
       \/ \E f \in filling :
            \/ \E s \in Sessions : Slots' \in Slot!FillPuts(Slots, fillId[f], s, f)
            \/ Slots' = Slot!FillMiss(Slots, fillId[f], f)]_Slots
=============================================================================
