------------------------------- MODULE SlotOps -------------------------------
(***************************************************************************)
(* The per-instance session cache (src/server/core/sessionCache.ts) as a   *)
(* value and operators on it, for the modules that hold one cache per      *)
(* instance.                                                               *)
(*                                                                         *)
(* The code numbers every claim on a slot (a "write generation") and only  *)
(* ever compares a slot's number with the token an asynchronous fill was   *)
(* given.  Here a slot names the fill whose token is still current, its    *)
(* owner; module SessionCache keeps the numbers and shows that the two     *)
(* views agree.                                                            *)
(*                                                                         *)
(*   sess[i]   the cached record of session i, or NoSession                *)
(*   aged      the entries older than the 30 s cache lifetime              *)
(*   owner[i]  the fill that may still publish into slot i, or NoOwner     *)
(***************************************************************************)
EXTENDS Integers, FiniteSets

CONSTANTS
    Ids,        \* session ids
    Capacity,   \* maxSize of a cache
    NoSession,  \* no record
    NoOwner     \* no fill owns the slot

EmptyCache ==
    [sess |-> [i \in Ids |-> NoSession], aged |-> {}, owner |-> [i \in Ids |-> NoOwner]]

CachedIds(c) == {i \in Ids : c.sess[i] # NoSession}

\* A cached entry that get and getFresh may answer from.
Fresh(c, i) == c.sess[i] # NoSession /\ i \notin c.aged

\* Mutant of Supersedes: any record of the incarnation replaces the cached one.
Supersedes_AnyRevision(s, t) == s.created = t.created

\* The same incarnation at a strictly greater revision.
Supersedes(s, t) == s.created = t.created /\ s.rev > t.rev

\* Mutant of Dropped: the entry goes, the running fill still owns the slot.
Dropped_KeepsOwner(c, i) == [c EXCEPT !.sess[i] = NoSession, !.aged = @ \ {i}]

\* invalidate: the slot is emptied and no running fill owns it any more.
Dropped(c, i) ==
    [c EXCEPT !.sess[i] = NoSession, !.aged = @ \ {i}, !.owner[i] = NoOwner]

BeginFill(c, i, f) == [c EXCEPT !.owner[i] = f]

\* set: the possible caches after record s is stored for i.  A full cache
\* first evicts another entry; which one depends on recency, so any may go.
Puts(c, i, s) ==
    LET full == i \notin CachedIds(c) /\ Cardinality(CachedIds(c)) >= Capacity
        room == IF full THEN {Dropped(c, v) : v \in CachedIds(c)} ELSE {c}
    IN  {[d EXCEPT !.sess[i] = s, !.aged = @ \ {i}, !.owner[i] = NoOwner] : d \in room}

\* replaceStaleFill: the owner publishes; a fill that lost the slot publishes
\* only over an older record of the same incarnation, and leaves the owner be.
FillPuts(c, i, s, f) ==
    IF c.owner[i] = f
    THEN Puts(c, i, s)
    ELSE IF c.sess[i] # NoSession /\ Supersedes(s, c.sess[i])
         THEN {[c EXCEPT !.sess[i] = s, !.aged = @ \ {i}]}
         ELSE {c}

\* invalidateStaleFill: an authoritative miss empties the slot it still owns.
FillMiss(c, i, f) == IF c.owner[i] = f THEN Dropped(c, i) ELSE c
=============================================================================
