------------------------- MODULE SessionStore_proofs -------------------------
(***************************************************************************)
(* Proofs about the session store, for any number of instances, sessions,  *)
(* calls, attempts and connection losses: type correctness, no mutation    *)
(* whose call reported success is lost, commits stay in their incarnation, *)
(* caches show only what was stored, a token is consumed once, and, as     *)
(* long as commands are not sent twice, the store implements the register  *)
(* of SessionRegister.                                                     *)
(***************************************************************************)
EXTENDS SessionStoreImpl, TLAPS

(***************************************************************************)
(* The cache operators yield caches.                                       *)
(***************************************************************************)

\* invalidate and beginFill keep a cache a cache.
LEMMA DroppedType ==
    ASSUME NEW c \in CacheState, NEW i \in Ids, NEW f \in Calls
    PROVE  /\ Dropped(c, i) \in CacheState
           /\ BeginFill(c, i, f) \in CacheState
           /\ FillMiss(c, i, f) \in CacheState
  BY DEF CacheState, Dropped, BeginFill, FillMiss

\* set yields caches, whichever entry it evicts.
LEMMA PutsType ==
    ASSUME NEW c \in CacheState, NEW i \in Ids, NEW s \in Record
    PROVE  Puts(c, i, s) \subseteq CacheState
<1> DEFINE Room == IF i \notin CachedIds(c) /\ Cardinality(CachedIds(c)) >= Capacity
                   THEN {Dropped(c, v) : v \in CachedIds(c)} ELSE {c}
<1>1. \A v \in Ids : Dropped(c, v) \in CacheState
  BY DEF CacheState, Dropped
<1>2. CachedIds(c) \subseteq Ids
  BY DEF CachedIds
<1>3. Room \subseteq CacheState
  <2>1. CASE i \notin CachedIds(c) /\ Cardinality(CachedIds(c)) >= Capacity
    BY <1>1, <1>2, <2>1
  <2>2. CASE ~(i \notin CachedIds(c) /\ Cardinality(CachedIds(c)) >= Capacity)
    BY <2>2
  <2>3. QED  BY <2>1, <2>2
<1>4. \A d \in CacheState :
        [d EXCEPT !.sess[i] = s, !.aged = @ \ {i}, !.owner[i] = NoOwner] \in CacheState
  BY DEF CacheState
<1>5. QED  BY <1>3, <1>4 DEF Puts

\* So does replaceStaleFill.
LEMMA FillsType ==
    ASSUME NEW c \in CacheState, NEW i \in Ids, NEW s \in Record, NEW f \in Calls
    PROVE  FillPuts(c, i, s, f) \subseteq CacheState
<1>1. [c EXCEPT !.sess[i] = s, !.aged = @ \ {i}] \in CacheState
  BY DEF CacheState
<1>2. QED  BY <1>1, PutsType DEF FillPuts

\* Installing a cache on an instance preserves the types of cache and shown.
LEMMA SetCacheType ==
    ASSUME TypeOK, NEW n \in Nodes, NEW c \in CacheState, SetCache(n, c)
    PROVE  cache' \in [Nodes -> CacheState] /\ shown' \in [Nodes -> [Ids -> Nat]]
<1>1. cache' \in [Nodes -> CacheState]
  BY DEF TypeOK, SetCache
<1>2. \A i \in Ids : c.sess[i] # NoSession => c.sess[i].ver \in Nat
  BY DEF CacheState, Record
<1>3. shown' \in [Nodes -> [Ids -> Nat]]
  BY <1>2 DEF TypeOK, SetCache
<1>4. QED  BY <1>1, <1>3

(***************************************************************************)
(* Type correctness                                                        *)
(***************************************************************************)

\* The part of the state that a call's own bookkeeping changes.
CallTypeOK ==
    /\ pc \in [Calls -> Phases]
    /\ wire \in [Calls -> {"off", "sent", "executed", "rejected"}]
    /\ ahead \in [Calls -> SUBSET Calls]
    /\ reply \in [Calls -> Record \cup {NoSession}]

\* Sending a command and moving to a local step keep a call well typed.
LEMMA SendType ==
    ASSUME TypeOK, NEW p \in Calls, NEW c \in Phases, Send(p, c) \/ Proceed(p, c)
    PROVE  CallTypeOK'
<1>1. pc' \in [Calls -> Phases]
  BY DEF TypeOK, Send, Proceed
<1>2. wire' \in [Calls -> {"off", "sent", "executed", "rejected"}]
  BY DEF TypeOK, Send, Proceed
<1>3. ahead' \in [Calls -> SUBSET Calls]
  <2>1. \A q \in Calls : ahead[q] \ {p} \in SUBSET Calls
    BY DEF TypeOK
  <2>2. InFlight(Home[p]) \ {p} \in SUBSET Calls
    BY DEF InFlight
  <2>3. CASE Send(p, c)
    BY <2>1, <2>2, <2>3 DEF Send
  <2>4. CASE Proceed(p, c)
    BY <2>1, <2>4 DEF Proceed
  <2>5. QED  BY <2>3, <2>4
<1>4. reply' \in [Calls -> Record \cup {NoSession}]
  BY DEF TypeOK, Send, Proceed
<1>5. QED  BY <1>1, <1>2, <1>3, <1>4 DEF CallTypeOK

\* Starting a call keeps every variable well typed.
LEMMA StartType == ASSUME TypeOK, NEW p \in Calls, Start(p) PROVE TypeOK'
<1> USE ConstantsOK
<1>1. Slots(p) \in CacheState /\ Target[p] \in Ids /\ Home[p] \in Nodes
  BY DEF Slots, TypeOK
<1>2. PICK o \in AllOps : Begin(p, o)
  BY DEF Start, GetHit, GetMiss, GetStrict, UpdateAtomic, Consume, Delete, TouchHit, TouchMiss, AllOps
<1>3. op' \in [Calls -> AllOps]
  BY <1>2 DEF Begin, TypeOK
<1>4. CallTypeOK'
  <2>1. CASE GetHit(p) \/ UpdateAtomic(p)
    BY <2>1, SendType DEF GetHit, UpdateAtomic, Phases
  <2>2. CASE GetMiss(p) \/ GetStrict(p)
    BY <2>2, SendType DEF GetMiss, GetStrict, Phases, Commands
  <2>3. CASE Consume(p) \/ Delete(p)
    BY <2>3, SendType DEF Consume, Delete, Phases, Commands
  <2>4. CASE TouchHit(p) \/ TouchMiss(p)
    BY <2>4, SendType DEF TouchHit, TouchMiss, Phases, Commands
  <2>5. QED  BY <2>1, <2>2, <2>3, <2>4 DEF Start
<1>5. cache' \in [Nodes -> CacheState] /\ shown' \in [Nodes -> [Ids -> Nat]]
  <2>1. KeepCache \/ \E c \in CacheState : SetCache(Home[p], c)
    BY <1>1, DroppedType DEF Start, GetHit, GetMiss, GetStrict, UpdateAtomic, Consume, Delete, TouchHit, TouchMiss
  <2>2. QED  BY <1>1, <2>1, SetCacheType DEF KeepCache, TypeOK
<1>6. QED  BY <1>2, <1>3, <1>4, <1>5 DEF Begin, TypeOK, CallTypeOK

\* An executed command keeps its call well typed.
LEMMA ExecutedType ==
    ASSUME TypeOK, NEW p \in Calls, NEW r \in Record \cup {NoSession}, Executed(p, r)
    PROVE  /\ CallTypeOK'
           /\ UNCHANGED <<cache, op, pc, snap, tries, resends, failures, acked, shown>>
  BY DEF TypeOK, CallTypeOK, Executed, callVars

\* A write keeps the record of its id a record.
LEMMA WriteType ==
    ASSUME TypeOK, NEW p \in Calls, NEW r \in Record, Write(p, r)
    PROVE  /\ store' \in [Ids -> Record \cup {NoSession}]
           /\ writes' \in [Ids -> Nat]
           /\ CallTypeOK'
           /\ UNCHANGED <<cache, op, pc, snap, tries, resends, failures, acked, shown>>
<1> DEFINE w == [r EXCEPT !.ver = writes[Target[p]] + 1]
<1>1. Target[p] \in Ids
  BY ConstantsOK
<1>2. writes[Target[p]] + 1 \in Nat
  BY <1>1 DEF TypeOK
<1>3. w \in Record
  BY <1>2 DEF Record
<1>4. /\ store' = [store EXCEPT ![Target[p]] = w]
      /\ writes' = [writes EXCEPT ![Target[p]] = writes[Target[p]] + 1]
      /\ Executed(p, w)
  BY DEF Write
<1> HIDE DEF w
<1>5. store' \in [Ids -> Record \cup {NoSession}] /\ writes' \in [Ids -> Nat]
  BY <1>2, <1>3, <1>4 DEF TypeOK
<1>6. QED  BY <1>3, <1>4, <1>5, ExecutedType

\* The record that a CAS or a TAKE writes.
LEMMA MutatedType ==
    ASSUME NEW p \in Calls, NEW r \in Record,
           NEW w \in {[r EXCEPT !.rev = @ + 1, !.log = @ \cup {p}],
                      [r EXCEPT !.rev = @ + 1, !.tok = FALSE, !.log = @ \cup {p}]}
    PROVE  /\ w \in Record /\ r.created \in Births
           /\ w.created = r.created /\ w.rev > r.rev /\ w.log = r.log \cup {p}
<1>1. r.rev \in Nat /\ r.rev + 1 \in Nat /\ r.log \cup {p} \in SUBSET Calls /\ FALSE \in BOOLEAN
  BY DEF Record
<1>2. w \in Record
  BY <1>1 DEF Record
<1>3. w.created = r.created /\ w.rev = r.rev + 1 /\ w.log = r.log \cup {p}
  BY DEF Record
<1>4. QED  BY <1>1, <1>2, <1>3 DEF Record

\* Numbering a record as a write changes nothing else.
LEMMA NumberedType ==
    ASSUME NEW r \in Record, NEW v \in Nat
    PROVE  LET w == [r EXCEPT !.ver = v]
           IN  w \in Record /\ w.created = r.created /\ w.rev = r.rev /\ w.log = r.log
  BY DEF Record

\* An update has read the record it drafts from; a stored session is answered.
Held ==
    \A p \in Calls :
        /\ pc[p] \in {"draft", "CAS"} => snap[p] # NoSession
        /\ pc[p] = "SET" /\ wire[p] = "executed" => reply[p] # NoSession

\* So does executing its command ...
LEMMA ExecType == ASSUME TypeOK, Held, NEW p \in Calls, Exec(p) PROVE TypeOK'
<1>1. Target[p] \in Ids /\ Home[p] \in Nodes /\ store[Target[p]] \in Record \cup {NoSession}
  BY ConstantsOK DEF TypeOK
<1>2. CASE ExecRead(p)
  BY <1>1, <1>2, ExecutedType DEF ExecRead, TypeOK, CallTypeOK
<1>3. ASSUME NEW r \in Record, Write(p, r), UNCHANGED buried,
             took' = took \/ took' = took \cup {<<Target[p], r.created, p>>}
      PROVE  TypeOK'
  <2>1. took' \subseteq Ids \X Births \X Calls
    <3>1. <<Target[p], r.created, p>> \in Ids \X Births \X Calls
      BY <1>1, <1>3 DEF Record
    <3>2. took \subseteq Ids \X Births \X Calls
      BY DEF TypeOK
    <3>3. QED  BY <1>3, <3>1, <3>2
  <2>2. QED  BY <1>3, <2>1, WriteType DEF TypeOK, CallTypeOK
<1>4. ASSUME Refused(p), UNCHANGED buried
      PROVE  TypeOK'
  BY <1>4, ExecutedType DEF Refused, TypeOK, CallTypeOK
<1>5. CASE ExecCas(p)
  <2> DEFINE w == [snap[p] EXCEPT !.rev = @ + 1, !.log = @ \cup {p}]
  <2>1. snap[p] \in Record
    BY <1>5 DEF ExecCas, NextToRun, TypeOK, Held
  <2>2. w \in Record /\ w.created = snap[p].created
    BY <2>1, MutatedType
  <2>3. \/ Write(p, w) /\ took' = took \cup {<<Target[p], snap[p].created, p>>}
        \/ Refused(p)
    BY <1>5 DEF ExecCas
  <2>4. UNCHANGED buried
    BY <1>5 DEF ExecCas
  <2>5. QED  BY <1>3, <1>4, <2>2, <2>3, <2>4
<1>6. CASE ExecTake(p)
  <2> DEFINE s == store[Target[p]]
             w == [s EXCEPT !.rev = @ + 1, !.tok = FALSE, !.log = @ \cup {p}]
  <2>1. \/ s # NoSession /\ Write(p, w) /\ took' = took \cup {<<Target[p], s.created, p>>}
        \/ Refused(p)
    BY <1>6 DEF ExecTake, HoldsToken
  <2>2. s # NoSession => w \in Record /\ w.created = s.created
    BY <1>1, MutatedType
  <2>3. UNCHANGED buried
    BY <1>6 DEF ExecTake
  <2>4. QED  BY <1>3, <1>4, <2>1, <2>2, <2>3
<1>7. CASE ExecDel(p)
  <2>1. store' \in [Ids -> Record \cup {NoSession}] /\ buried' \in [Nodes -> [Ids -> Nat]]
    BY <1>1, <1>7 DEF ExecDel, TypeOK
  <2>2. QED  BY <1>7, <2>1, ExecutedType DEF ExecDel, TypeOK, CallTypeOK
<1>8. CASE ExecSet(p)
  <2>1. [FirstRecord EXCEPT !.created = p] \in Record
    BY DEF FirstRecord, Record, Births
  <2>2. QED  BY <1>3, <1>8, <2>1 DEF ExecSet
<1>9. QED  BY <1>2, <1>5, <1>6, <1>7, <1>8 DEF Exec

\* ... and running its continuation.
LEMMA ResumeType == ASSUME TypeOK, Held, NEW p \in Calls, Resume(p) PROVE TypeOK'
<1>1. Slots(p) \in CacheState /\ Target[p] \in Ids /\ Home[p] \in Nodes
  BY ConstantsOK DEF Slots, TypeOK
<1>2. CallTypeOK'
  <2>1. \A c \in Phases : Send(p, c) \/ Proceed(p, c) => CallTypeOK'
    BY SendType
  <2>2. CASE GetNotFound(p) \/ Attempt(p) \/ SubmitDraft(p) \/ TouchFound(p)
    BY <2>1, <2>2 DEF GetNotFound, Attempt, SubmitDraft, TouchFound, Phases, Commands
  <2>3. CASE GetFound(p) \/ SetDone(p) \/ ReadFound(p) \/ ReadNotFound(p)
    BY <2>1, <2>3 DEF GetFound, SetDone, ReadFound, ReadNotFound, Phases
  <2>4. CASE CasCommitted(p) \/ CasConflict(p) \/ TakeDone(p) \/ DelDone(p)
    BY <2>1, <2>4 DEF CasCommitted, CasConflict, TakeDone, DelDone, Phases
  <2>5. CASE TouchNotFound(p) \/ LoadDone(p) \/ RevalidateDone(p) \/ GiveUp(p)
    BY <2>1, <2>5 DEF TouchNotFound, LoadDone, RevalidateDone, GiveUp, Phases
  <2>6. QED  BY <2>2, <2>3, <2>4, <2>5 DEF Resume
<1>3. cache' \in [Nodes -> CacheState] /\ shown' \in [Nodes -> [Ids -> Nat]]
  <2>1. \A c \in CacheState : SetCache(Home[p], c) =>
           cache' \in [Nodes -> CacheState] /\ shown' \in [Nodes -> [Ids -> Nat]]
    BY <1>1, SetCacheType
  <2>2. KeepCache => cache' \in [Nodes -> CacheState] /\ shown' \in [Nodes -> [Ids -> Nat]]
    BY DEF KeepCache, TypeOK
  <2>3. reply[p] # NoSession => reply[p] \in Record
    BY DEF TypeOK
  <2>4. ASSUME reply[p] # NoSession, Publish(p)
        PROVE  cache' \in [Nodes -> CacheState] /\ shown' \in [Nodes -> [Ids -> Nat]]
    BY <1>1, <2>1, <2>3, <2>4, FillsType DEF Publish
  <2>5. PublishMiss(p) => cache' \in [Nodes -> CacheState] /\ shown' \in [Nodes -> [Ids -> Nat]]
    BY <1>1, <2>1, DroppedType DEF PublishMiss
  <2>6. CASE GetFound(p) \/ GetNotFound(p) \/ ReadFound(p) \/ ReadNotFound(p)
    BY <2>2, <2>4, <2>5, <2>6 DEF GetFound, GetNotFound, ReadFound, ReadNotFound, Found
  <2>7. CASE SetDone(p)
    BY <1>1, <2>1, <2>3, <2>7, PutsType DEF SetDone, Answered, Held
  <2>8. CASE Attempt(p) \/ SubmitDraft(p)
    BY <1>1, <2>1, <2>2, <2>8, DroppedType DEF Attempt, SubmitDraft
  <2>9. CASE CasCommitted(p) \/ CasConflict(p) \/ TakeDone(p) \/ DelDone(p) \/ GiveUp(p)
    BY <2>2, <2>4, <2>9 DEF CasCommitted, CasConflict, TakeDone, DelDone, GiveUp, Found
  <2>10. CASE TouchFound(p) \/ TouchNotFound(p) \/ LoadDone(p) \/ RevalidateDone(p)
    BY <2>2, <2>4, <2>5, <2>10 DEF TouchFound, TouchNotFound, LoadDone, RevalidateDone, Found
  <2>11. QED  BY <2>6, <2>7, <2>8, <2>9, <2>10 DEF Resume
<1>4. /\ snap' \in [Calls -> Record \cup {NoSession}]
      /\ tries' \in [Calls -> Nat]
      /\ acked' \subseteq Ids \X Births \X Calls
      /\ LeaveStore
  <2>1. \/ LeaveStore /\ UNCHANGED <<snap, acked>> /\ (UNCHANGED tries \/ tries' = [tries EXCEPT ![p] = @ + 1])
        \/ LeaveStore /\ UNCHANGED <<tries, acked>> /\ snap' = [snap EXCEPT ![p] = reply[p]]
        \/ LeaveStore /\ UNCHANGED <<snap, tries>> /\ reply[p] # NoSession /\ Acknowledge(p)
    BY DEF Resume, GetFound, GetNotFound, SetDone, Attempt, ReadFound, ReadNotFound, SubmitDraft,
           CasCommitted, CasConflict, TakeDone, DelDone, TouchFound, TouchNotFound, LoadDone,
           RevalidateDone, GiveUp, Found
  <2>2. reply[p] # NoSession => reply[p].created \in Births
    BY DEF TypeOK, Record
  <2>3. reply[p] # NoSession /\ Acknowledge(p) => acked' \subseteq Ids \X Births \X Calls
    BY <1>1, <2>2 DEF Acknowledge, TypeOK
  <2>4. snap' \in [Calls -> Record \cup {NoSession}]
    BY <2>1 DEF TypeOK, Acknowledge
  <2>5. tries' \in [Calls -> Nat]
    <3>1. tries' = tries \/ tries' = [tries EXCEPT ![p] = @ + 1]
      BY <2>1
    <3>2. tries \in [Calls -> Nat]
      BY DEF TypeOK
    <3>3. QED  BY <3>1, <3>2
  <2>6. acked' \subseteq Ids \X Births \X Calls
    BY <2>1, <2>3 DEF TypeOK
  <2>7. QED  BY <2>1, <2>4, <2>5, <2>6
<1>5. QED  BY <1>2, <1>3, <1>4 DEF TypeOK, CallTypeOK, LeaveStore

\* Commands and answers in flight respect Held.
LEMMA HeldStep == ASSUME TypeOK, Held, [Next]_vars PROVE Held'
<1> SUFFICES ASSUME NEW q \in Calls
             PROVE  /\ pc'[q] \in {"draft", "CAS"} => snap'[q] # NoSession
                    /\ pc'[q] = "SET" /\ wire'[q] = "executed" => reply'[q] # NoSession
  BY DEF Held
<1>1. ASSUME NEW p \in Calls, Start(p)
      PROVE  /\ pc'[q] \in {"draft", "CAS"} => snap'[q] # NoSession
             /\ pc'[q] = "SET" /\ wire'[q] = "executed" => reply'[q] # NoSession
  <2>1. snap' = snap /\ \E c \in Phases \ {"draft", "CAS", "SET"} : Send(p, c) \/ Proceed(p, c)
    <3>1. CASE GetHit(p) \/ UpdateAtomic(p)
      BY <3>1 DEF GetHit, UpdateAtomic, Begin, Phases
    <3>2. CASE GetMiss(p) \/ GetStrict(p)
      BY <3>2 DEF GetMiss, GetStrict, Begin, Phases, Commands
    <3>3. CASE Consume(p) \/ Delete(p)
      BY <3>3 DEF Consume, Delete, Begin, Phases, Commands
    <3>4. CASE TouchHit(p) \/ TouchMiss(p)
      BY <3>4 DEF TouchHit, TouchMiss, Begin, Phases, Commands
    <3>5. QED  BY <1>1, <3>1, <3>2, <3>3, <3>4 DEF Start
  <2>2. QED  BY <2>1 DEF Send, Proceed, Held, TypeOK
<1>2. ASSUME NEW p \in Calls, Exec(p)
      PROVE  /\ pc'[q] \in {"draft", "CAS"} => snap'[q] # NoSession
             /\ pc'[q] = "SET" /\ wire'[q] = "executed" => reply'[q] # NoSession
  <2>1. /\ pc' = pc /\ snap' = snap
        /\ wire' = [wire EXCEPT ![p] = "executed"]
        /\ q # p => reply'[q] = reply[q]
        /\ pc[p] = "SET" => reply'[p] # NoSession
    <3>1. CASE ExecSet(p)
      <4> DEFINE w == [[FirstRecord EXCEPT !.created = p] EXCEPT !.ver = writes[Target[p]] + 1]
      <4>1. w \in Record
        <5>1. Target[p] \in Ids /\ writes[Target[p]] + 1 \in Nat
          BY ConstantsOK DEF TypeOK
        <5>2. [FirstRecord EXCEPT !.created = p] \in Record
          BY DEF FirstRecord, Record, Births
        <5>3. QED  BY <5>1, <5>2 DEF Record
      <4>2. Executed(p, w)
        BY <3>1 DEF ExecSet, Write
      <4>3. QED  BY <4>1, <4>2, NoSessionOK DEF Executed, callVars, TypeOK
    <3>2. CASE ExecRead(p) \/ ExecCas(p) \/ ExecTake(p) \/ ExecDel(p)
      BY <3>2 DEF ExecRead, ExecCas, ExecTake, ExecDel, NextToRun, Write, Refused, Executed, callVars, TypeOK
    <3>3. QED  BY <1>2, <3>1, <3>2 DEF Exec
  <2>2. QED  BY <2>1 DEF Held, TypeOK
<1>3. ASSUME NEW p \in Calls, Resume(p)
      PROVE  /\ pc'[q] \in {"draft", "CAS"} => snap'[q] # NoSession
             /\ pc'[q] = "SET" /\ wire'[q] = "executed" => reply'[q] # NoSession
  <2>1. CASE SubmitDraft(p)
    BY <2>1 DEF SubmitDraft, Send, LeaveStore, Held, TypeOK
  <2>2. CASE ReadFound(p)
    BY <2>2 DEF ReadFound, Found, Proceed, LeaveStore, Held, TypeOK
  <2>3. CASE snap' = snap /\ \E c \in Phases \ {"draft", "CAS"} : Send(p, c) \/ Proceed(p, c)
    BY <2>3 DEF Send, Proceed, Held, TypeOK
  <2>4. CASE GetNotFound(p) \/ Attempt(p) \/ TouchFound(p)
    BY <2>3, <2>4 DEF GetNotFound, Attempt, TouchFound, Phases, Commands
  <2>5. CASE GetFound(p) \/ SetDone(p) \/ ReadNotFound(p) \/ GiveUp(p)
    BY <2>3, <2>5 DEF GetFound, SetDone, ReadNotFound, GiveUp, Phases
  <2>6. CASE CasCommitted(p) \/ CasConflict(p) \/ TakeDone(p) \/ DelDone(p)
    BY <2>3, <2>6 DEF CasCommitted, CasConflict, TakeDone, DelDone, Phases
  <2>7. CASE TouchNotFound(p) \/ LoadDone(p) \/ RevalidateDone(p)
    BY <2>3, <2>7 DEF TouchNotFound, LoadDone, RevalidateDone, Phases
  <2>8. QED  BY <1>3, <2>1, <2>2, <2>4, <2>5, <2>6, <2>7 DEF Resume
<1>4. CASE \E n \in Nodes, i \in Ids : Age(n, i)
  BY <1>4 DEF Age, Held, callVars, wireVars
<1>5. CASE \E i \in Ids : Expire(i)
  BY <1>5 DEF Expire, Held, callVars, wireVars
<1>6. CASE \E n \in Nodes : Resend(n) \/ Reject(n)
  BY <1>6 DEF Resend, Reject, Held, TypeOK, callVars
<1>7. CASE UNCHANGED vars
  BY <1>7 DEF vars, callVars, wireVars, Held
<1>8. QED  BY <1>1, <1>2, <1>3, <1>4, <1>5, <1>6, <1>7 DEF Next

\* The initial states are well typed and have nothing in flight.
LEMMA InitType == ASSUME Init PROVE TypeOK /\ Held
<1>1. FirstRecord \in Record
  BY DEF FirstRecord, Record, Births
<1>2. EmptyCache \in CacheState
  BY DEF EmptyCache, CacheState
<1>3. QED  BY <1>1, <1>2 DEF Init, TypeOK, Held, AllOps, Phases

\* Types are preserved by every step.
LEMMA TypeStep == ASSUME TypeOK, Held, [Next]_vars PROVE TypeOK'
<1>1. CASE \E p \in Calls : Start(p) \/ Exec(p) \/ Resume(p)
  BY <1>1, StartType, ExecType, ResumeType
<1>2. ASSUME NEW n \in Nodes, NEW i \in Ids, Age(n, i) PROVE TypeOK'
  <2>1. [cache[n] EXCEPT !.aged = @ \cup {i}] \in CacheState
    <3>1. cache[n] \in CacheState
      BY DEF TypeOK
    <3>2. QED  BY <3>1 DEF CacheState
  <2>2. cache' = [cache EXCEPT ![n] = [cache[n] EXCEPT !.aged = @ \cup {i}]]
    BY <1>2 DEF Age
  <2>3. QED  BY <1>2, <2>1, <2>2 DEF Age, TypeOK, callVars, wireVars, history
<1>3. CASE \E i \in Ids : Expire(i)
  BY <1>3 DEF Expire, TypeOK, callVars, wireVars, history
<1>4. CASE \E n \in Nodes : Resend(n) \/ Reject(n)
  BY <1>4 DEF Resend, Reject, TypeOK, callVars, history
<1>5. CASE UNCHANGED vars
  BY <1>5 DEF vars, TypeOK, callVars, wireVars, history
<1>6. QED  BY <1>1, <1>2, <1>3, <1>4, <1>5 DEF Next

\* The types hold throughout, together with Held.
THEOREM TypeCorrect == Spec => []TypeOK
<1>1. Init => TypeOK /\ Held
  BY InitType
<1>2. TypeOK /\ Held /\ [Next]_vars => TypeOK' /\ Held'
  BY TypeStep, HeldStep
<1>3. QED  BY <1>1, <1>2, PTL DEF Spec

(***************************************************************************)
(* No lost update                                                          *)
(*                                                                         *)
(* NoLostUpdate is not inductive: an acknowledged mutation survives the    *)
(* next commit only because that commit was drafted from the very record   *)
(* it replaces.  So every record a call holds is related to the stored     *)
(* one (Behind), an answered commit carries its mutation (Committed), and  *)
(* a session that createSession has not stored yet is unheard of (Births). *)
(***************************************************************************)

\* r, a record of some id, is an earlier state of, or equal to, the stored
\* record s of that id, if they are of the same incarnation.
Behind(r, s) ==
    r # NoSession /\ s # NoSession /\ r.created = s.created =>
        r.rev <= s.rev /\ r.log \subseteq s.log /\ (r.rev = s.rev => r = s)

HeldBehind ==
    \A p \in Calls : Behind(snap[p], store[Target[p]]) /\ Behind(reply[p], store[Target[p]])

Committed ==
    \A p \in Calls :
        pc[p] \in {"CAS", "TAKE"} /\ wire[p] = "executed" /\ reply[p] # NoSession
            => p \in reply[p].log

\* Call p has not stored a session.
Unborn(p) == pc[p] # "done" /\ (pc[p] = "SET" => wire[p] = "sent")

NotFrom(r, p) == r # NoSession => r.created # p

UnbornUnknown ==
    \A p \in Calls : Unborn(p) =>
        /\ \A i \in Ids : NotFrom(store[i], p)
        /\ \A q \in Calls : NotFrom(snap[q], p) /\ NotFrom(reply[q], p)
        /\ \A t \in acked : t[2] # p

IInv == TypeOK /\ Held /\ HeldBehind /\ Committed /\ UnbornUnknown /\ NoLostUpdate

\* A step that leaves the store alone: calls keep, copy or forget the records
\* they hold, acknowledge only answered commits, and nobody's creation is undone.
Quiet ==
    /\ store' = store
    /\ \A q \in Calls :
         /\ snap'[q] \in {snap[q], reply[q]}
         /\ reply'[q] \in {reply[q], NoSession}
         /\ wire'[q] = "executed" => wire[q] = "executed" /\ pc'[q] = pc[q]
         /\ Unborn(q)' => Unborn(q)
    /\ \A t \in acked' \ acked : \E q \in Calls :
         /\ pc[q] \in {"CAS", "TAKE"} /\ wire[q] = "executed" /\ reply[q] # NoSession
         /\ t = <<Target[q], reply[q].created, q>>

\* A step that writes no record and reports only executed mutations preserves
\* the invariant.
LEMMA QuietInv ==
    ASSUME IInv, Quiet
    PROVE  HeldBehind' /\ Committed' /\ UnbornUnknown' /\ NoLostUpdate'
<1>1. HeldBehind'
  BY DEF IInv, Quiet, HeldBehind, Behind
<1>2. Committed'
  BY DEF IInv, Quiet, Committed
<1>3. UnbornUnknown'
  BY DEF IInv, Quiet, UnbornUnknown, NotFrom
<1>4. NoLostUpdate'
  <2> SUFFICES ASSUME NEW t \in acked', store[t[1]] # NoSession, store[t[1]].created = t[2]
               PROVE  t[3] \in store[t[1]].log
    BY DEF NoLostUpdate, Quiet
  <2>1. CASE t \in acked
    BY <2>1 DEF IInv, NoLostUpdate
  <2>2. CASE t \notin acked
    <3>1. PICK q \in Calls :
            /\ pc[q] \in {"CAS", "TAKE"} /\ wire[q] = "executed" /\ reply[q] # NoSession
            /\ t = <<Target[q], reply[q].created, q>>
      BY <2>2 DEF Quiet
    <3>2. q \in reply[q].log /\ reply[q].log \subseteq store[Target[q]].log
      BY <3>1 DEF IInv, Committed, HeldBehind, Behind
    <3>3. QED  BY <3>1, <3>2
  <2>3. QED  BY <2>1, <2>2
<1>5. QED  BY <1>1, <1>2, <1>3, <1>4

\* What an executed command leaves to its call.
LEMMA ExecutedFrame ==
    ASSUME TypeOK, NEW p \in Calls, NEW r, Executed(p, r)
    PROVE  /\ pc' = pc /\ snap' = snap /\ acked' = acked
           /\ reply'[p] = r
           /\ \A q \in Calls \ {p} : reply'[q] = reply[q] /\ wire'[q] = wire[q]
  BY DEF Executed, TypeOK, callVars

\* An answer that copies the stored record, or none, preserves the invariant.
LEMMA ReadInv ==
    ASSUME IInv, NEW p \in Calls, NEW r \in {NoSession, store[Target[p]]}, Executed(p, r),
           pc[p] \in {"CAS", "TAKE"} => r = NoSession, pc[p] # "SET",
           \A i \in Ids : store'[i] \in {store[i], NoSession}
    PROVE  HeldBehind' /\ Committed' /\ UnbornUnknown' /\ NoLostUpdate'
<1> USE ConstantsOK, ExecutedFrame DEF IInv
<1>1. HeldBehind'
  <2> SUFFICES ASSUME NEW q \in Calls
               PROVE  /\ Behind(snap[q], store'[Target[q]])
                      /\ Behind(reply'[q], store'[Target[q]])
    BY DEF HeldBehind
  <2>1. Target[q] \in Ids
    OBVIOUS
  <2>2. \A h : Behind(h, store[Target[q]]) => Behind(h, store'[Target[q]])
    BY <2>1 DEF Behind
  <2>3. \A s \in Record \cup {NoSession} : Behind(s, s) /\ Behind(NoSession, s)
    BY DEF Behind, Record
  <2>4. CASE q = p
    BY <2>1, <2>2, <2>3, <2>4 DEF HeldBehind, TypeOK
  <2>5. CASE q # p
    BY <2>2, <2>5 DEF HeldBehind
  <2>6. QED  BY <2>4, <2>5
<1>2. Committed'
  BY DEF Committed
<1>3. UnbornUnknown'
  BY DEF UnbornUnknown, NotFrom, Unborn
<1>4. NoLostUpdate'
  <2>1. \A t \in acked : t[1] \in Ids
    BY DEF TypeOK
  <2>2. acked' = acked
    OBVIOUS
  <2>3. QED  BY <2>1, <2>2 DEF NoLostUpdate
<1>5. QED  BY <1>1, <1>2, <1>3, <1>4

\* Writing w to p's session preserves the invariant if w is a new incarnation
\* of p's, or the stored record with p's mutation at the next revision.
LEMMA WriteInv ==
    ASSUME IInv, NEW p \in Calls, NEW w \in Record, Executed(p, w),
           store' = [store EXCEPT ![Target[p]] = w],
           \/ pc[p] = "SET" /\ wire[p] = "sent" /\ w.created = p
           \/ /\ pc[p] \in {"CAS", "TAKE"} /\ store[Target[p]] # NoSession
              /\ w.created = store[Target[p]].created
              /\ w.rev > store[Target[p]].rev
              /\ w.log = store[Target[p]].log \cup {p}
    PROVE  HeldBehind' /\ Committed' /\ UnbornUnknown' /\ NoLostUpdate'
<1> USE ExecutedFrame DEF IInv
<1>1. Target \in [Calls -> Ids] /\ store'[Target[p]] = w
      /\ \A i \in Ids \ {Target[p]} : store'[i] = store[i]
  BY ConstantsOK DEF TypeOK
<1>2. pc[p] = "SET" => Unborn(p)
  BY DEF Unborn
<1>3. \A h \in Record \cup {NoSession} :
        Behind(h, store[Target[p]]) /\ (pc[p] = "SET" => NotFrom(h, p)) => Behind(h, w)
  <2> SUFFICES ASSUME NEW h \in Record, Behind(h, store[Target[p]]),
                      pc[p] = "SET" => NotFrom(h, p)
               PROVE  Behind(h, w)
    BY DEF Behind
  <2>1. CASE pc[p] = "SET"
    BY <2>1, NoSessionOK DEF Behind, NotFrom
  <2>2. CASE pc[p] # "SET"
    <3>1. store[Target[p]] \in Record
      BY <1>1, <2>2 DEF TypeOK
    <3>2. QED  BY <2>2, <3>1, NoSessionOK DEF Behind, Record
  <2>3. QED  BY <2>1, <2>2
<1>4. HeldBehind'
  <2> SUFFICES ASSUME NEW q \in Calls
               PROVE  /\ Behind(snap[q], store'[Target[q]])
                      /\ Behind(reply'[q], store'[Target[q]])
    BY DEF HeldBehind
  <2>1. snap[q] \in Record \cup {NoSession} /\ reply[q] \in Record \cup {NoSession}
    BY DEF TypeOK
  <2>2. pc[p] = "SET" => NotFrom(snap[q], p) /\ NotFrom(reply[q], p)
    BY <1>2 DEF UnbornUnknown
  <2>3. Behind(snap[q], store[Target[q]]) /\ Behind(reply[q], store[Target[q]])
    BY DEF HeldBehind
  <2>4. Behind(snap[q], store'[Target[q]]) /\ Behind(reply[q], store'[Target[q]])
    BY <1>1, <1>3, <2>1, <2>2, <2>3
  <2>5. Behind(w, w)
    BY DEF Behind, Record
  <2>6. QED  BY <1>1, <2>4, <2>5
<1>5. Committed'
  BY DEF Committed
<1>6. UnbornUnknown'
  <2> SUFFICES ASSUME NEW q \in Calls, Unborn(q)'
               PROVE  /\ \A i \in Ids : NotFrom(store'[i], q)
                      /\ \A h \in Calls : NotFrom(snap[h], q) /\ NotFrom(reply'[h], q)
                      /\ \A t \in acked : t[2] # q
    BY DEF UnbornUnknown
  <2>1. Unborn(q)
    BY DEF Unborn, TypeOK
  <2>2. q = p => pc[p] # "SET"
    BY DEF Unborn, Executed, TypeOK
  <2>3. NotFrom(w, q)
    BY <1>1, <2>1, <2>2 DEF UnbornUnknown, NotFrom
  <2>4. QED  BY <1>1, <2>1, <2>3 DEF UnbornUnknown
<1>7. NoLostUpdate'
  <2> SUFFICES ASSUME NEW t \in acked, store'[t[1]].created = t[2], store'[t[1]] # NoSession
               PROVE  t[3] \in store'[t[1]].log
    BY DEF NoLostUpdate
  <2>1. t[1] \in Ids
    BY DEF TypeOK
  <2>2. CASE t[1] # Target[p]
    BY <1>1, <2>1, <2>2 DEF NoLostUpdate
  <2>3. CASE t[1] = Target[p]
    BY <1>1, <1>2, <2>3 DEF NoLostUpdate, UnbornUnknown
  <2>4. QED  BY <2>2, <2>3
<1>8. QED  BY <1>4, <1>5, <1>6, <1>7

\* Starting and resuming calls are quiet steps.
LEMMA StartQuiet == ASSUME TypeOK, NEW p \in Calls, Start(p) PROVE Quiet
<1>1. \E o \in AllOps : Begin(p, o)
  BY ConstantsOK DEF Start, GetHit, GetMiss, GetStrict, UpdateAtomic, Consume, Delete, TouchHit, TouchMiss, AllOps
<1>2. \E c \in Phases : Send(p, c) \/ Proceed(p, c)
  <2>1. CASE GetHit(p) \/ UpdateAtomic(p)
    BY <2>1 DEF GetHit, UpdateAtomic, Phases
  <2>2. CASE GetMiss(p) \/ GetStrict(p)
    BY <2>2 DEF GetMiss, GetStrict, Phases, Commands
  <2>3. CASE Consume(p) \/ Delete(p)
    BY <2>3 DEF Consume, Delete, Phases, Commands
  <2>4. CASE TouchHit(p) \/ TouchMiss(p)
    BY <2>4 DEF TouchHit, TouchMiss, Phases, Commands
  <2>5. QED  BY <2>1, <2>2, <2>3, <2>4 DEF Start
<1>3. QED  BY <1>1, <1>2 DEF Begin, Send, Proceed, Quiet, Unborn, TypeOK

\* A continuation reports success only on an executed CAS or TAKE.
LEMMA ResumeQuiet == ASSUME TypeOK, NEW p \in Calls, Resume(p) PROVE Quiet
<1>1. \/ UNCHANGED acked
      \/ Acknowledge(p) /\ (Found(p, "CAS") \/ Found(p, "TAKE"))
  BY DEF Resume, GetFound, GetNotFound, SetDone, Attempt, ReadFound, ReadNotFound, SubmitDraft,
         CasCommitted, CasConflict, TakeDone, DelDone, TouchFound, TouchNotFound, LoadDone,
         RevalidateDone, GiveUp
<1>2. store' = store /\ (snap' = snap \/ snap' = [snap EXCEPT ![p] = reply[p]])
  BY DEF Resume, GetFound, GetNotFound, SetDone, Attempt, ReadFound, ReadNotFound, SubmitDraft,
         CasCommitted, CasConflict, TakeDone, DelDone, TouchFound, TouchNotFound, LoadDone,
         RevalidateDone, GiveUp, LeaveStore
<1>3. \E c \in Phases : Send(p, c) \/ Proceed(p, c)
  <2>1. CASE GetNotFound(p) \/ Attempt(p) \/ SubmitDraft(p) \/ TouchFound(p)
    BY <2>1 DEF GetNotFound, Attempt, SubmitDraft, TouchFound, Phases, Commands
  <2>2. CASE GetFound(p) \/ SetDone(p) \/ ReadFound(p) \/ ReadNotFound(p)
    BY <2>2 DEF GetFound, SetDone, ReadFound, ReadNotFound, Phases
  <2>3. CASE CasCommitted(p) \/ CasConflict(p) \/ TakeDone(p) \/ DelDone(p)
    BY <2>3 DEF CasCommitted, CasConflict, TakeDone, DelDone, Phases
  <2>4. CASE TouchNotFound(p) \/ LoadDone(p) \/ RevalidateDone(p) \/ GiveUp(p)
    BY <2>4 DEF TouchNotFound, LoadDone, RevalidateDone, GiveUp, Phases
  <2>5. QED  BY <2>1, <2>2, <2>3, <2>4 DEF Resume
<1>4. Unborn(p) \/ pc'[p] = "done"
  <2>1. CASE pc[p] = "SET"
    BY <2>1 DEF Resume, GetFound, GetNotFound, SetDone, Attempt, ReadFound, ReadNotFound, SubmitDraft,
         CasCommitted, CasConflict, TakeDone, DelDone, TouchFound, TouchNotFound, LoadDone,
         RevalidateDone, GiveUp, Found, NotFound, Rejected, Answered, Proceed, TypeOK
  <2>2. CASE pc[p] # "SET"
    BY <2>2 DEF Unborn, Resume, GetFound, GetNotFound, SetDone, Attempt, ReadFound, ReadNotFound, SubmitDraft,
         CasCommitted, CasConflict, TakeDone, DelDone, TouchFound, TouchNotFound, LoadDone,
         RevalidateDone, GiveUp, Found, NotFound, Rejected, Answered
  <2>3. QED  BY <2>1, <2>2
<1>5. \A q \in Calls : Unborn(q)' => Unborn(q)
  BY <1>3, <1>4 DEF Send, Proceed, Unborn, TypeOK
<1>6. QED  BY <1>1, <1>2, <1>3, <1>5 DEF Send, Proceed, Quiet, Acknowledge, Found, Answered, TypeOK

\* So is the loss of a connection: a SET is resent only if it was not executed.
LEMMA ConnectionQuiet ==
    ASSUME TypeOK, NEW n \in Nodes, Resend(n) \/ Reject(n)
    PROVE  Quiet
  BY DEF Resend, Reject, InFlight, Quiet, Unborn, TypeOK, callVars, history

\* A record that expires takes its incarnation out of the invariant's reach.
LEMMA ExpireInv ==
    ASSUME IInv, NEW i \in Ids, Expire(i)
    PROVE  HeldBehind' /\ Committed' /\ UnbornUnknown' /\ NoLostUpdate'
<1>1. \A j \in Ids : store'[j] \in {store[j], NoSession}
  BY DEF Expire, IInv, TypeOK
<1>2. UNCHANGED <<pc, wire, snap, reply, acked>>
  BY DEF Expire, callVars, wireVars, history
<1>3. HeldBehind'
  BY <1>1, <1>2, ConstantsOK DEF IInv, HeldBehind, Behind
<1>4. Committed'
  BY <1>2 DEF IInv, Committed
<1>5. UnbornUnknown'
  BY <1>1, <1>2 DEF IInv, UnbornUnknown, NotFrom, Unborn
<1>6. NoLostUpdate'
  BY <1>1, <1>2 DEF IInv, NoLostUpdate, TypeOK
<1>7. QED  BY <1>3, <1>4, <1>5, <1>6

\* Executing a command reads, removes, or writes as WriteInv allows.
LEMMA ExecInv ==
    ASSUME IInv, NEW p \in Calls, Exec(p)
    PROVE  HeldBehind' /\ Committed' /\ UnbornUnknown' /\ NoLostUpdate'
<1> DEFINE cur == store[Target[p]]
<1>1. Target[p] \in Ids /\ TypeOK /\ Held
  BY ConstantsOK DEF IInv
<1>2. \A i \in Ids : store[i] \in {store[i], NoSession}
  OBVIOUS
<1>3. ASSUME Refused(p), pc[p] # "SET"
      PROVE  HeldBehind' /\ Committed' /\ UnbornUnknown' /\ NoLostUpdate'
  BY <1>2, <1>3, ReadInv DEF Refused
<1>4. ASSUME NEW r \in Record, Write(p, r), r.created = cur.created, cur # NoSession,
             r.rev > cur.rev, r.log = cur.log \cup {p}, pc[p] \in {"CAS", "TAKE"}
      PROVE  HeldBehind' /\ Committed' /\ UnbornUnknown' /\ NoLostUpdate'
  <2> DEFINE w == [r EXCEPT !.ver = writes[Target[p]] + 1]
  <2>1. w \in Record /\ w.created = r.created /\ w.rev = r.rev /\ w.log = r.log
    <3>1. writes[Target[p]] + 1 \in Nat
      BY <1>1 DEF TypeOK
    <3>2. QED  BY <3>1, NumberedType
  <2>2. Executed(p, w) /\ store' = [store EXCEPT ![Target[p]] = w]
    BY <1>4 DEF Write
  <2> HIDE DEF w
  <2>3. QED  BY <1>4, <2>1, <2>2, WriteInv
<1>5. CASE ExecRead(p)
  <2>1. pc[p] \notin {"CAS", "TAKE", "SET"} /\ Executed(p, cur) /\ store' = store
    BY <1>5 DEF ExecRead, NextToRun
  <2>2. QED  BY <1>2, <2>1, ReadInv
<1>6. CASE ExecCas(p)
  <2> DEFINE w == [snap[p] EXCEPT !.rev = @ + 1, !.log = @ \cup {p}]
  <2>1. pc[p] = "CAS" /\ snap[p] \in Record
    BY <1>1, <1>6 DEF ExecCas, NextToRun, Held, TypeOK
  <2>2. CASE CasMatches(cur, snap[p]) /\ Write(p, w)
    <3>1. cur = snap[p] /\ cur # NoSession
      BY <2>1, <2>2, NoSessionOK DEF CasMatches, IInv, HeldBehind, Behind
    <3>2. /\ w \in Record /\ w.created = snap[p].created
          /\ w.rev > snap[p].rev /\ w.log = snap[p].log \cup {p}
      BY <2>1, MutatedType
    <3>3. QED  BY <1>4, <2>1, <2>2, <3>1, <3>2
  <2>3. CASE Refused(p)
    BY <1>3, <2>1, <2>3
  <2>4. QED  BY <1>6, <2>2, <2>3 DEF ExecCas
<1>7. CASE ExecTake(p)
  <2> DEFINE w == [cur EXCEPT !.rev = @ + 1, !.tok = FALSE, !.log = @ \cup {p}]
  <2>1. pc[p] = "TAKE"
    BY <1>7 DEF ExecTake, NextToRun
  <2>2. CASE HoldsToken(cur) /\ Write(p, w)
    <3>1. cur \in Record /\ cur # NoSession
      BY <1>1, <2>2 DEF HoldsToken, TypeOK
    <3>2. w \in Record /\ w.created = cur.created /\ w.rev > cur.rev /\ w.log = cur.log \cup {p}
      BY <3>1, MutatedType
    <3>3. QED  BY <1>4, <2>1, <2>2, <3>1, <3>2
  <2>3. CASE Refused(p)
    BY <1>3, <2>1, <2>3
  <2>4. QED  BY <1>7, <2>2, <2>3 DEF ExecTake
<1>8. CASE ExecDel(p)
  <2>1. /\ pc[p] = "DEL" /\ Executed(p, NoSession)
        /\ \A i \in Ids : store'[i] \in {store[i], NoSession}
    BY <1>1, <1>8 DEF ExecDel, NextToRun, TypeOK
  <2>2. QED  BY <2>1, ReadInv
<1>9. CASE ExecSet(p)
  <2> DEFINE w == [[FirstRecord EXCEPT !.created = p] EXCEPT !.ver = writes[Target[p]] + 1]
  <2>1. w \in Record /\ w.created = p
    <3>1. [FirstRecord EXCEPT !.created = p] \in Record
      BY DEF FirstRecord, Record, Births
    <3>2. writes[Target[p]] + 1 \in Nat
      BY <1>1 DEF TypeOK
    <3>3. QED  BY <3>1, <3>2 DEF Record, FirstRecord
  <2>2. Executed(p, w) /\ store' = [store EXCEPT ![Target[p]] = w] /\ pc[p] = "SET" /\ wire[p] = "sent"
    BY <1>9 DEF ExecSet, Write, NextToRun
  <2> HIDE DEF w
  <2>3. QED  BY <2>1, <2>2, WriteInv
<1>10. QED  BY <1>5, <1>6, <1>7, <1>8, <1>9 DEF Exec

\* The invariant holds initially ...
LEMMA InvInit == ASSUME Init PROVE IInv
<1>1. HeldBehind /\ Committed /\ UnbornUnknown /\ NoLostUpdate
  BY ConstantsOK DEF Init, HeldBehind, Behind, Committed, UnbornUnknown, NotFrom, NoLostUpdate, FirstRecord
<1>2. QED  BY <1>1, InitType DEF IInv

\* ... and every step preserves it.
LEMMA InvStep == ASSUME IInv, [Next]_vars PROVE IInv'
<1> SUFFICES HeldBehind' /\ Committed' /\ UnbornUnknown' /\ NoLostUpdate'
  BY TypeStep, HeldStep DEF IInv
<1>1. TypeOK /\ Held
  BY DEF IInv
<1>2. ASSUME NEW p \in Calls, Start(p) \/ Resume(p)
      PROVE  Quiet
  BY <1>1, <1>2, StartQuiet, ResumeQuiet
<1>3. ASSUME NEW p \in Calls, Exec(p)
      PROVE  HeldBehind' /\ Committed' /\ UnbornUnknown' /\ NoLostUpdate'
  BY <1>3, ExecInv
<1>4. ASSUME NEW n \in Nodes, NEW i \in Ids, Age(n, i)
      PROVE  Quiet
  BY <1>4 DEF Age, Quiet, Unborn, callVars, wireVars, history
<1>5. ASSUME NEW i \in Ids, Expire(i)
      PROVE  HeldBehind' /\ Committed' /\ UnbornUnknown' /\ NoLostUpdate'
  BY <1>5, ExpireInv
<1>6. ASSUME NEW n \in Nodes, Resend(n) \/ Reject(n)
      PROVE  Quiet
  BY <1>1, <1>6, ConnectionQuiet
<1>7. ASSUME UNCHANGED vars
      PROVE  Quiet
  BY <1>7 DEF vars, Quiet, Unborn, callVars, wireVars, history
<1>8. QED  BY <1>2, <1>3, <1>4, <1>5, <1>6, <1>7, QuietInv DEF Next

\* Acknowledged mutations are never lost.
THEOREM NoUpdateLost == Spec => []NoLostUpdate
<1>1. IInv => NoLostUpdate
  BY DEF IInv
<1>2. QED  BY <1>1, InvInit, InvStep, PTL DEF Spec
-----------------------------------------------------------------------------
(***************************************************************************)
(* The invariant IInv relates what the calls hold to what is stored.       *)
(* The same holds of what the caches hold (Mirrored)                       *)
(* and, of the history, that what was acknowledged was applied (Applied),  *)
(* by the call whose operation says so (Fits), and that an incarnation     *)
(* whose token was taken has it no more (TokenGone).                       *)
(***************************************************************************)
Mirrored ==
    /\ \A n \in Nodes, i \in Ids : Behind(cache[n].sess[i], store[i])
    /\ \A p \in Calls : Unborn(p) =>
          /\ \A n \in Nodes, i \in Ids : NotFrom(cache[n].sess[i], p)
          /\ \A t \in took : t[2] # p

Applied ==
    /\ acked \subseteq took
    /\ \A p \in Calls :
          pc[p] \in {"CAS", "TAKE"} /\ wire[p] = "executed" /\ reply[p] # NoSession
              => <<Target[p], reply[p].created, p>> \in took

Fits ==
    /\ \A p \in Calls :
          /\ pc[p] \in {"attempt", "draft", "CAS"} => op[p] = "updateAtomic"
          /\ pc[p] = "TAKE" => op[p] = "consume"
    /\ \A t \in took : pc[t[3]] # "idle"

Taken(t) == op[t[3]] = "consume"

TokenGone ==
    \A t \in took : Taken(t) /\ store[t[1]] # NoSession /\ store[t[1]].created = t[2]
                        => ~store[t[1]].tok

OneTaker == \A s, t \in took : Taken(s) /\ Taken(t) /\ s[1] = t[1] /\ s[2] = t[2] => s = t

Shadows == Mirrored /\ Applied /\ Fits /\ TokenGone /\ OneTaker

(***************************************************************************)
(* Steps that leave the store alone                                        *)
(***************************************************************************)

\* Every slot of the cache d of instance n is one of c's, empty, or what call p was answered.
Shows(c, d, p) ==
    \A i \in Ids : \/ d.sess[i] = c.sess[i]
                   \/ d.sess[i] = NoSession
                   \/ i = Target[p] /\ d.sess[i] = reply[p]

\* Such a step changes the caches in no other way.
Reflects(p) ==
    \A n \in Nodes : Shows(cache[n], cache'[n], p)

\* The operations on a cache show nothing else.
LEMMA SlotsShow ==
    ASSUME NEW c \in CacheState, NEW p \in Calls, NEW f \in Calls
    PROVE  /\ Shows(c, c, p)
           /\ Shows(c, BeginFill(c, Target[p], f), p)
           /\ Shows(c, Dropped(c, Target[p]), p)
           /\ Shows(c, BeginFill(Dropped(c, Target[p]), Target[p], f), p)
           /\ Shows(c, FillMiss(c, Target[p], f), p)
  BY ConstantsOK DEF Shows, CacheState, BeginFill, Dropped, FillMiss

\* Neither does storing the answer, whichever entry is evicted for it.
LEMMA PutsShow ==
    ASSUME NEW c \in CacheState, NEW p \in Calls, NEW d \in Puts(c, Target[p], reply[p])
    PROVE  Shows(c, d, p)
<1> DEFINE Room == IF Target[p] \notin CachedIds(c) /\ Cardinality(CachedIds(c)) >= Capacity
                   THEN {Dropped(c, v) : v \in CachedIds(c)} ELSE {c}
<1>1. Target[p] \in Ids
  BY ConstantsOK
<1>2. PICK e \in Room : d = [e EXCEPT !.sess[Target[p]] = reply[p], !.aged = @ \ {Target[p]},
                                      !.owner[Target[p]] = NoOwner]
  BY DEF Puts
<1>3. e \in CacheState /\ \A i \in Ids : e.sess[i] \in {c.sess[i], NoSession}
  <2>1. CASE e = c
    BY <2>1
  <2>2. ASSUME NEW v \in Ids, e = Dropped(c, v)
        PROVE  e \in CacheState /\ \A i \in Ids : e.sess[i] \in {c.sess[i], NoSession}
    BY <2>2 DEF Dropped, CacheState
  <2>3. e = c \/ \E v \in Ids : e = Dropped(c, v)
    <3>1. CASE Target[p] \notin CachedIds(c) /\ Cardinality(CachedIds(c)) >= Capacity
      BY <3>1 DEF CachedIds
    <3>2. CASE ~(Target[p] \notin CachedIds(c) /\ Cardinality(CachedIds(c)) >= Capacity)
      BY <3>2
    <3>3. QED  BY <3>1, <3>2
  <2>4. QED  BY <2>1, <2>2, <2>3
<1> HIDE DEF Room
<1>4. QED  BY <1>1, <1>2, <1>3 DEF Shows, CacheState

LEMMA FillsShow ==
    ASSUME NEW c \in CacheState, NEW p \in Calls, NEW d \in FillPuts(c, Target[p], reply[p], p)
    PROVE  Shows(c, d, p)
<1>1. Target[p] \in Ids
  BY ConstantsOK
<1>2. CASE d \in Puts(c, Target[p], reply[p])
  BY <1>2, PutsShow
<1>3. CASE d \in {c, [c EXCEPT !.sess[Target[p]] = reply[p], !.aged = @ \ {Target[p]}]}
  BY <1>1, <1>3 DEF Shows, CacheState
<1>4. QED  BY <1>2, <1>3 DEF FillPuts

\* Installing such a cache on p's instance is such a step.
LEMMA SetCacheReflects ==
    ASSUME TypeOK, NEW p \in Calls, NEW d,
           KeepCache \/ (SetCache(Home[p], d) /\ Shows(Slots(p), d, p))
    PROVE  Reflects(p)
<1>1. Home[p] \in Nodes /\ \A n \in Nodes : Shows(cache[n], cache[n], p)
  BY ConstantsOK DEF Shows
<1>2. CASE KeepCache
  BY <1>1, <1>2 DEF KeepCache, Reflects
<1>3. CASE SetCache(Home[p], d) /\ Shows(Slots(p), d, p)
  BY <1>1, <1>3 DEF SetCache, Slots, Reflects, TypeOK
<1>4. QED  BY <1>2, <1>3

\* The operation of a call is given when it begins, and its commands fit it.
Orderly ==
    /\ \A q \in Calls : /\ op'[q] # op[q] => pc[q] = "idle"
                        /\ pc'[q] = "idle" => pc[q] = "idle"
                        /\ pc'[q] \in {"attempt", "draft", "CAS"} => op'[q] = "updateAtomic"
                        /\ pc'[q] = "TAKE" => op'[q] = "consume"
    /\ took' = took

\* A step that writes no record and shows none but p's answer preserves the invariant.
LEMMA QuietShadows ==
    ASSUME IInv, Shadows, Quiet, Orderly, NEW p \in Calls, Reflects(p)
    PROVE  Shadows'
<1> USE DEF IInv, Shadows
<1>1. Mirrored'
  <2>1. \A i \in Ids, n \in Nodes : Behind(cache'[n].sess[i], store[i])
    BY DEF Mirrored, Reflects, Shows, HeldBehind, Behind
  <2>2. ASSUME NEW q \in Calls, Unborn(q)
        PROVE  \A n \in Nodes, i \in Ids : NotFrom(cache'[n].sess[i], q)
    BY <2>2 DEF Mirrored, Reflects, Shows, UnbornUnknown, NotFrom
  <2>3. QED  BY <2>1, <2>2 DEF Quiet, Orderly, Mirrored
<1>2. Applied'
  BY DEF Applied, Quiet, Orderly
<1>3. Fits'
  <2>1. \A t \in took : t[3] \in Calls
    BY DEF TypeOK
  <2>2. QED  BY <2>1 DEF Fits, Orderly
<1>4. \A t \in took : Taken(t)' = Taken(t)
  BY DEF Fits, Orderly, Taken, TypeOK
<1>5. TokenGone' /\ OneTaker'
  BY <1>4 DEF TokenGone, OneTaker, Quiet, Orderly
<1>6. QED  BY <1>1, <1>2, <1>3, <1>5

\* Starting a call is such a step ...
LEMMA StartShadows ==
    ASSUME IInv, Shadows, NEW p \in Calls, Start(p)
    PROVE  Shadows'
<1>1. TypeOK /\ Slots(p) \in CacheState
  BY ConstantsOK DEF IInv, TypeOK, Slots
<1>2. Reflects(p)
  <2>1. CASE GetHit(p) \/ UpdateAtomic(p)
    BY <1>1, <2>1, SetCacheReflects DEF GetHit, UpdateAtomic
  <2>2. CASE GetMiss(p) \/ GetStrict(p)
    BY <1>1, <2>2, SetCacheReflects, SlotsShow DEF GetMiss, GetStrict
  <2>3. CASE Consume(p) \/ Delete(p)
    BY <1>1, <2>3, SetCacheReflects, SlotsShow DEF Consume, Delete
  <2>4. CASE TouchHit(p) \/ TouchMiss(p)
    BY <1>1, <2>4, SetCacheReflects, SlotsShow DEF TouchHit, TouchMiss
  <2>5. QED  BY <2>1, <2>2, <2>3, <2>4 DEF Start
<1>3. Orderly
  <2>1. CASE GetHit(p) \/ UpdateAtomic(p)
    BY <1>1, <2>1 DEF GetHit, UpdateAtomic, Begin, Proceed, Orderly, TypeOK, Shadows, Fits
  <2>2. CASE GetMiss(p) \/ GetStrict(p)
    BY <1>1, <2>2 DEF GetMiss, GetStrict, Begin, Send, Orderly, TypeOK, Shadows, Fits
  <2>3. CASE Consume(p) \/ Delete(p)
    BY <1>1, <2>3 DEF Consume, Delete, Begin, Send, Orderly, TypeOK, Shadows, Fits
  <2>4. CASE TouchHit(p) \/ TouchMiss(p)
    BY <1>1, <2>4 DEF TouchHit, TouchMiss, Begin, Send, Proceed, Orderly, TypeOK, Shadows, Fits
  <2>5. QED  BY <2>1, <2>2, <2>3, <2>4 DEF Start
<1>4. QED  BY <1>1, <1>2, <1>3, StartQuiet, QuietShadows

\* ... and so is its continuation, whose answer is all that it puts into the cache.
LEMMA ResumeShadows ==
    ASSUME IInv, Shadows, NEW p \in Calls, Resume(p)
    PROVE  Shadows'
<1>1. TypeOK /\ Slots(p) \in CacheState
  BY ConstantsOK DEF IInv, TypeOK, Slots
<1>2. /\ Publish(p) => Reflects(p)
      /\ PublishMiss(p) => Reflects(p)
      /\ KeepCache => Reflects(p)
  BY <1>1, SetCacheReflects, FillsShow, SlotsShow DEF Publish, PublishMiss
<1>3. Reflects(p)
  <2>1. CASE GetFound(p) \/ GetNotFound(p) \/ ReadFound(p) \/ ReadNotFound(p)
    BY <1>2, <2>1 DEF GetFound, GetNotFound, ReadFound, ReadNotFound
  <2>2. CASE SetDone(p)
    BY <1>1, <2>2, SetCacheReflects, PutsShow DEF SetDone
  <2>3. CASE Attempt(p) \/ SubmitDraft(p)
    BY <1>1, <1>2, <2>3, SetCacheReflects, SlotsShow DEF Attempt, SubmitDraft
  <2>4. CASE CasCommitted(p) \/ CasConflict(p) \/ TakeDone(p) \/ DelDone(p)
    BY <1>2, <2>4 DEF CasCommitted, CasConflict, TakeDone, DelDone
  <2>5. CASE TouchFound(p) \/ TouchNotFound(p) \/ LoadDone(p) \/ RevalidateDone(p) \/ GiveUp(p)
    BY <1>2, <2>5 DEF TouchFound, TouchNotFound, LoadDone, RevalidateDone, GiveUp
  <2>6. QED  BY <2>1, <2>2, <2>3, <2>4, <2>5 DEF Resume
<1>4. Orderly
  <2>1. op' = op /\ took' = took
    BY DEF Resume, GetFound, GetNotFound, SetDone, Attempt, ReadFound, ReadNotFound, SubmitDraft,
         CasCommitted, CasConflict, TakeDone, DelDone, TouchFound, TouchNotFound, LoadDone,
         RevalidateDone, GiveUp, LeaveStore
  <2> DEFINE Fit(c) == c \notin {"idle", "TAKE"} /\ (c \in {"attempt", "draft", "CAS"} => op[p] = "updateAtomic")
  <2>2. ASSUME NEW c, Send(p, c) \/ Proceed(p, c), Fit(c)
        PROVE  Orderly
    <3>1. pc' = [pc EXCEPT ![p] = c]
      BY <2>2 DEF Send, Proceed
    <3>2. \A q \in Calls : pc'[q] = IF q = p THEN c ELSE pc[q]
      BY <1>1, <3>1 DEF TypeOK
    <3>3. Fits
      BY DEF Shadows
    <3>4. c # "idle" /\ c # "TAKE" /\ (c \in {"attempt", "draft", "CAS"} => op[p] = "updateAtomic")
      BY <2>2 DEF Fit
    <3>5. \A q \in Calls \ {p} : pc'[q] = pc[q]
      BY <3>2
    <3>6. pc'[p] = c
      BY <3>2
    <3>7. \A q \in Calls : op'[q] = op[q]
      BY <2>1
    <3>8. QED  BY <2>1, <3>3, <3>4, <3>5, <3>6, <3>7 DEF Orderly, Fits
  <2>3. CASE GetFound(p) \/ GetNotFound(p) \/ SetDone(p) \/ Attempt(p)
    BY <2>2, <2>3 DEF GetFound, GetNotFound, SetDone, Attempt
  <2>4. CASE ReadFound(p) \/ ReadNotFound(p) \/ TakeDone(p) \/ DelDone(p) \/ CasCommitted(p)
    BY <2>2, <2>4 DEF ReadFound, ReadNotFound, TakeDone, DelDone, CasCommitted
  <2>5. CASE SubmitDraft(p) \/ CasConflict(p)
    <3>1. op[p] = "updateAtomic"
      BY <2>5 DEF SubmitDraft, CasConflict, NotFound, Answered, Shadows, Fits
    <3>2. QED  BY <2>2, <2>5, <3>1 DEF SubmitDraft, CasConflict
  <2>6. CASE TouchFound(p) \/ TouchNotFound(p) \/ LoadDone(p) \/ RevalidateDone(p) \/ GiveUp(p)
    BY <2>2, <2>6 DEF TouchFound, TouchNotFound, LoadDone, RevalidateDone, GiveUp
  <2>7. QED  BY <2>3, <2>4, <2>5, <2>6 DEF Resume
<1>5. QED  BY <1>1, <1>3, <1>4, ResumeQuiet, QuietShadows

(***************************************************************************)
(* Steps that change the store                                             *)
(***************************************************************************)

\* Nothing but what the stored records do changes in such a step.
Frame(p) ==
    /\ UNCHANGED <<pc, op, snap, acked, cache>>
    /\ \A q \in Calls \ {p} : UNCHANGED <<wire[q], reply[q]>>
    /\ wire'[p] \in {wire[p], "executed"}

LEMMA ExecFrame ==
    ASSUME TypeOK, NEW p \in Calls, NEW r, Executed(p, r)
    PROVE  Frame(p) /\ reply'[p] = r
  BY DEF Executed, callVars, TypeOK, Frame

\* A record that stays or goes preserves the invariant, unless a commit is answered.
LEMMA RemovalShadows ==
    ASSUME IInv, Shadows, NEW p \in Calls, Frame(p),
           \A i \in Ids : store'[i] \in {store[i], NoSession},
           took' = took,
           pc[p] \in {"CAS", "TAKE"} => reply'[p] = NoSession \/ UNCHANGED <<wire[p], reply[p]>>,
           pc[p] = "SET" => wire'[p] = wire[p]
    PROVE  Shadows'
<1> USE DEF IInv, Shadows, Frame
<1>1. \A q \in Calls : Unborn(q)' => Unborn(q)
  BY DEF Unborn
<1>2. Mirrored'
  BY <1>1 DEF Mirrored, Behind
<1>3. Applied'
  BY DEF Applied
<1>4. Fits'
  BY DEF Fits
<1>5. \A t \in took : t[1] \in Ids /\ Taken(t)' = Taken(t)
  BY DEF TypeOK, Taken
<1>6. TokenGone' /\ OneTaker'
  BY <1>5 DEF TokenGone, OneTaker
<1>7. QED  BY <1>2, <1>3, <1>4, <1>6

\* A record that the write w of p's session replaces is one it follows.
LEMMA Follows ==
    ASSUME TypeOK, NEW p \in Calls, NEW w \in Record, NEW h \in Record \cup {NoSession},
           Behind(h, store[Target[p]]),
           \/ NotFrom(h, p) /\ w.created = p
           \/ /\ store[Target[p]] # NoSession
              /\ w.created = store[Target[p]].created
              /\ w.rev > store[Target[p]].rev
              /\ store[Target[p]].log \subseteq w.log
    PROVE  Behind(h, w)
<1>1. store[Target[p]] \in Record \cup {NoSession}
  BY ConstantsOK DEF TypeOK
<1>2. CASE h = NoSession
  BY <1>2 DEF Behind
<1>3. CASE h # NoSession /\ NotFrom(h, p) /\ w.created = p
  BY <1>3 DEF Behind, NotFrom
<1>4. CASE /\ h # NoSession /\ store[Target[p]] # NoSession
           /\ w.created = store[Target[p]].created
           /\ w.rev > store[Target[p]].rev
           /\ store[Target[p]].log \subseteq w.log
  BY <1>1, <1>4 DEF Behind, Record
<1>5. QED  BY <1>2, <1>3, <1>4

\* A new session, or a mutation of the stored one, keeps what the caches hold behind it.
LEMMA WriteMirrored ==
    ASSUME IInv, Shadows, NEW p \in Calls, NEW w \in Record, Frame(p),
           store' = [store EXCEPT ![Target[p]] = w],
           \/ pc[p] = "SET" /\ wire[p] = "sent" /\ wire'[p] = "executed" /\ w.created = p /\ took' = took
           \/ /\ pc[p] \in {"CAS", "TAKE"} /\ store[Target[p]] # NoSession
              /\ w.created = store[Target[p]].created
              /\ w.rev > store[Target[p]].rev
              /\ store[Target[p]].log \subseteq w.log
              /\ took' = took \cup {<<Target[p], w.created, p>>}
    PROVE  Mirrored'
<1> USE DEF IInv, Shadows, Frame
<1>1. /\ Target[p] \in Ids /\ store'[Target[p]] = w
      /\ \A i \in Ids \ {Target[p]} : store'[i] = store[i]
  BY ConstantsOK DEF TypeOK
<1>2. \A n \in Nodes, i \in Ids : cache[n].sess[i] \in Record \cup {NoSession}
  BY DEF TypeOK, CacheState
<1>3. pc[p] = "SET" /\ wire[p] = "sent" => Unborn(p)
  BY DEF Unborn
<1>4. ASSUME NEW n \in Nodes, NEW i \in Ids
      PROVE  Behind(cache[n].sess[i], store'[i])
  <2>1. Behind(cache[n].sess[i], store[i])
    BY DEF Mirrored
  <2>2. CASE i # Target[p]
    BY <1>1, <2>1, <2>2
  <2>3. CASE i = Target[p]
    <3>1. pc[p] = "SET" /\ wire[p] = "sent" => NotFrom(cache[n].sess[i], p)
      BY <1>3 DEF Mirrored
    <3>2. QED  BY <1>1, <1>2, <2>1, <2>3, <3>1, Follows
  <2>4. QED  BY <2>2, <2>3
<1>5. ASSUME NEW q \in Calls, Unborn(q)'
      PROVE  /\ \A n \in Nodes, i \in Ids : NotFrom(cache[n].sess[i], q)
             /\ \A t \in took' : t[2] # q
  <2>1. Unborn(q) /\ (pc[p] = "SET" /\ wire'[p] = "executed" => q # p)
    BY <1>5 DEF Unborn
  <2>2. w.created # q \/ pc[p] = "SET"
    BY <1>1, <2>1 DEF UnbornUnknown, NotFrom
  <2>3. QED  BY <2>1, <2>2 DEF Mirrored
<1>6. QED  BY <1>4, <1>5 DEF Mirrored

\* A mutation of the stored record, applied by p, preserves the invariant if it takes a
\* token only when there is one and gives none back.
LEMMA MutationShadows ==
    ASSUME IInv, Shadows, NEW p \in Calls, NEW w \in Record, Executed(p, w),
           store' = [store EXCEPT ![Target[p]] = w],
           pc[p] \in {"CAS", "TAKE"}, store[Target[p]] # NoSession,
           w.created = store[Target[p]].created, w.rev > store[Target[p]].rev,
           store[Target[p]].log \subseteq w.log,
           took' = took \cup {<<Target[p], w.created, p>>},
           w.tok => store[Target[p]].tok,
           op[p] = "consume" => store[Target[p]].tok /\ ~w.tok
    PROVE  Shadows'
<1> DEFINE new == <<Target[p], w.created, p>>
<1>1. Frame(p) /\ reply'[p] = w
  BY ExecFrame DEF IInv
<1>2. Mirrored'
  BY <1>1, WriteMirrored
<1> USE DEF IInv, Shadows, Frame
<1>3. /\ Target[p] \in Ids /\ store'[Target[p]] = w
      /\ \A i \in Ids \ {Target[p]} : store'[i] = store[i]
  BY ConstantsOK DEF TypeOK
<1>4. Applied'
  BY <1>1 DEF Applied
<1>5. Fits'
  BY <1>1 DEF Fits
<1>6. \A t \in took : t[1] \in Ids /\ t[3] \in Calls
  BY DEF TypeOK
<1>7. \A t \in took \cup {new} : Taken(t)' = Taken(t)
  BY <1>1 DEF Taken
<1>8. Taken(new) <=> op[p] = "consume"
  BY DEF Taken
<1>9. TokenGone'
  <2> SUFFICES ASSUME NEW t \in took \cup {new}, Taken(t),
                      store'[t[1]] # NoSession, store'[t[1]].created = t[2]
               PROVE  ~store'[t[1]].tok
    BY <1>7 DEF TokenGone
  <2>1. CASE t = new
    BY <1>3, <1>8, <2>1
  <2>2. CASE t \in took /\ t[1] # Target[p]
    BY <1>3, <1>6, <2>2 DEF TokenGone
  <2>3. CASE t \in took /\ t[1] = Target[p]
    BY <1>3, <2>3 DEF TokenGone
  <2>4. QED  BY <2>1, <2>2, <2>3
<1>10. OneTaker'
  <2>1. \A t \in took : Taken(t) /\ t[1] = Target[p] /\ t[2] = w.created => op[p] # "consume"
    BY DEF TokenGone
  <2>2. QED  BY <1>7, <1>8, <2>1 DEF OneTaker
<1>11. QED  BY <1>2, <1>4, <1>5, <1>9, <1>10

\* Executing a command is one of these steps.
LEMMA ExecShadows ==
    ASSUME IInv, Shadows, NEW p \in Calls, Exec(p)
    PROVE  Shadows'
<1> DEFINE cur == store[Target[p]]
<1>1. Target[p] \in Ids /\ TypeOK /\ Held
  BY ConstantsOK DEF IInv
<1>2. ASSUME Executed(p, NoSession), \A i \in Ids : store'[i] \in {store[i], NoSession},
             took' = took, pc[p] # "SET"
      PROVE  Shadows'
  BY <1>1, <1>2, ExecFrame, RemovalShadows
<1>3. ASSUME NEW r \in Record, Write(p, r), pc[p] \in {"CAS", "TAKE"}, cur # NoSession,
             r.created = cur.created, r.rev > cur.rev, r.log = cur.log \cup {p},
             took' = took \cup {<<Target[p], cur.created, p>>},
             r.tok => cur.tok, op[p] = "consume" => cur.tok /\ ~r.tok
      PROVE  Shadows'
  <2> DEFINE w == [r EXCEPT !.ver = writes[Target[p]] + 1]
  <2>1. w \in Record /\ w.created = r.created /\ w.rev = r.rev /\ w.log = r.log /\ w.tok = r.tok
    <3>1. writes[Target[p]] + 1 \in Nat
      BY <1>1 DEF TypeOK
    <3>2. QED  BY <3>1 DEF Record
  <2>2. Executed(p, w) /\ store' = [store EXCEPT ![Target[p]] = w]
    BY <1>3 DEF Write
  <2> HIDE DEF w
  <2>3. QED  BY <1>3, <2>1, <2>2, MutationShadows
<1>4. CASE ExecRead(p)
  <2>1. pc[p] \notin {"CAS", "TAKE", "SET"} /\ Executed(p, cur) /\ store' = store /\ took' = took
    BY <1>4 DEF ExecRead, NextToRun
  <2>2. QED  BY <1>1, <2>1, ExecFrame, RemovalShadows
<1>5. CASE ExecCas(p)
  <2> DEFINE w == [snap[p] EXCEPT !.rev = @ + 1, !.log = @ \cup {p}]
  <2>1. pc[p] = "CAS" /\ snap[p] \in Record /\ op[p] = "updateAtomic"
    BY <1>1, <1>5 DEF ExecCas, NextToRun, Held, TypeOK, Shadows, Fits
  <2>2. CASE CasMatches(cur, snap[p]) /\ Write(p, w) /\ took' = took \cup {<<Target[p], snap[p].created, p>>}
    <3>1. cur = snap[p] /\ cur # NoSession
      BY <2>1, <2>2, NoSessionOK DEF CasMatches, IInv, HeldBehind, Behind
    <3>2. w \in Record /\ w.created = snap[p].created /\ w.rev > snap[p].rev /\ w.log = snap[p].log \cup {p}
      BY <2>1, MutatedType
    <3>3. w.tok = snap[p].tok
      BY <2>1 DEF Record
    <3> HIDE DEF w
    <3>4. QED  BY <1>3, <2>1, <2>2, <3>1, <3>2, <3>3
  <2>3. CASE Refused(p)
    BY <1>2, <2>1, <2>3 DEF Refused
  <2>4. QED  BY <1>5, <2>2, <2>3 DEF ExecCas
<1>6. CASE ExecTake(p)
  <2> DEFINE w == [cur EXCEPT !.rev = @ + 1, !.tok = FALSE, !.log = @ \cup {p}]
  <2>1. pc[p] = "TAKE"
    BY <1>6 DEF ExecTake, NextToRun
  <2>2. CASE HoldsToken(cur) /\ Write(p, w) /\ took' = took \cup {<<Target[p], cur.created, p>>}
    <3>1. cur \in Record /\ cur # NoSession /\ cur.tok
      BY <1>1, <2>2 DEF HoldsToken, TypeOK
    <3>2. w \in Record /\ w.created = cur.created /\ w.rev > cur.rev /\ w.log = cur.log \cup {p}
      BY <3>1, MutatedType
    <3>3. w.tok = FALSE
      BY <3>1 DEF Record
    <3> HIDE DEF w
    <3>4. QED  BY <1>3, <2>1, <2>2, <3>1, <3>2, <3>3
  <2>3. CASE Refused(p)
    BY <1>2, <2>1, <2>3 DEF Refused
  <2>4. QED  BY <1>6, <2>2, <2>3 DEF ExecTake
<1>7. CASE ExecDel(p)
  <2>1. /\ pc[p] = "DEL" /\ Executed(p, NoSession) /\ took' = took
        /\ \A i \in Ids : store'[i] \in {store[i], NoSession}
    BY <1>1, <1>7 DEF ExecDel, NextToRun, TypeOK
  <2>2. QED  BY <1>2, <2>1
<1>8. CASE ExecSet(p)
  <2> DEFINE w == [[FirstRecord EXCEPT !.created = p] EXCEPT !.ver = writes[Target[p]] + 1]
  <2>1. w \in Record /\ w.created = p
    <3>1. [FirstRecord EXCEPT !.created = p] \in Record
      BY DEF FirstRecord, Record, Births
    <3>2. writes[Target[p]] + 1 \in Nat
      BY <1>1 DEF TypeOK
    <3>3. QED  BY <3>1, <3>2 DEF Record, FirstRecord
  <2>2. /\ Executed(p, w) /\ store' = [store EXCEPT ![Target[p]] = w]
        /\ pc[p] = "SET" /\ wire[p] = "sent" /\ took' = took
    BY <1>8 DEF ExecSet, Write, NextToRun
  <2> HIDE DEF w
  <2>3. Frame(p) /\ reply'[p] = w /\ wire'[p] = "executed"
    <3>1. wire' = [wire EXCEPT ![p] = "executed"]
      BY <2>2 DEF Executed
    <3>2. QED  BY <1>1, <2>2, <3>1, ExecFrame DEF TypeOK
  <2>4. Mirrored'
    BY <2>1, <2>2, <2>3, WriteMirrored
  <2>5. Applied' /\ Fits'
    BY <2>2, <2>3 DEF Applied, Fits, Shadows, Frame
  <2>6. Unborn(p)
    BY <2>2 DEF Unborn
  <2>7. \A t \in took : t[1] \in Ids /\ t[2] # p /\ Taken(t)' = Taken(t)
    BY <1>1, <2>3, <2>6 DEF Shadows, Mirrored, TypeOK, Taken, Frame
  <2>8. \A i \in Ids : store'[i] = store[i] \/ store'[i].created = p
    BY <1>1, <2>1, <2>2 DEF TypeOK
  <2>9. TokenGone'
    BY <2>2, <2>7, <2>8 DEF TokenGone, Shadows
  <2>10. OneTaker'
    BY <2>2, <2>7 DEF OneTaker, Shadows
  <2>11. QED  BY <2>4, <2>5, <2>9, <2>10 DEF Shadows
<1>9. QED  BY <1>4, <1>5, <1>6, <1>7, <1>8 DEF Exec

\* Ageing entries, expiring records and lost connections are such steps too.
LEMMA WorldShadows ==
    ASSUME IInv, Shadows,
           \/ \E n \in Nodes, i \in Ids : Age(n, i)
           \/ \E i \in Ids : Expire(i)
           \/ \E n \in Nodes : Resend(n) \/ Reject(n)
           \/ UNCHANGED vars
    PROVE  Shadows'
<1>1. UNCHANGED <<op, pc, snap, reply, took, acked>>
  BY DEF Age, Expire, Resend, Reject, vars, callVars, wireVars, history
<1>2. \A i \in Ids : store'[i] \in {store[i], NoSession}
  BY DEF Age, Expire, Resend, Reject, vars, IInv, TypeOK
<1>3. \A n \in Nodes, i \in Ids : cache'[n].sess[i] = cache[n].sess[i]
  <2>1. CASE \E n \in Nodes, i \in Ids : Age(n, i)
    BY <2>1 DEF Age, IInv, TypeOK, CacheState
  <2>2. CASE cache' = cache
    BY <2>2
  <2>3. QED  BY <2>1, <2>2 DEF Expire, Resend, Reject, vars
<1>4. \A q \in Calls : /\ Unborn(q)' => Unborn(q)
                       /\ wire'[q] = "executed" => wire[q] = "executed"
  BY DEF Age, Expire, Resend, Reject, vars, wireVars, callVars, Unborn, InFlight, IInv, TypeOK
<1>5. Mirrored'
  BY <1>1, <1>2, <1>3, <1>4 DEF Shadows, Mirrored, Behind, NotFrom
<1>6. Applied' /\ Fits'
  BY <1>1, <1>4 DEF Shadows, Applied, Fits
<1>7. \A t \in took : t[1] \in Ids /\ Taken(t)' = Taken(t)
  BY <1>1 DEF IInv, TypeOK, Taken
<1>8. TokenGone' /\ OneTaker'
  BY <1>1, <1>2, <1>7 DEF Shadows, TokenGone, OneTaker
<1>9. QED  BY <1>5, <1>6, <1>8 DEF Shadows

LEMMA ShadowsInit == ASSUME Init PROVE Shadows
  BY ConstantsOK DEF Init, Shadows, Mirrored, Behind, NotFrom, EmptyCache, Applied, Fits, TokenGone, OneTaker

LEMMA ShadowsStep == ASSUME IInv, Shadows, [Next]_vars PROVE Shadows'
  BY StartShadows, ExecShadows, ResumeShadows, WorldShadows DEF Next

\* IInv and Shadows hold throughout.
LEMMA Invariants == Spec => [](IInv /\ Shadows)
  BY InvInit, InvStep, ShadowsInit, ShadowsStep, PTL DEF Spec

(***************************************************************************)
(* What follows                                                            *)
(***************************************************************************)

\* No instance ever answers from its cache what was not stored.
THEOREM CachesShowOnlyCommitted == Spec => []CacheShowsCommitted
<1>1. Shadows => CacheShowsCommitted
  BY DEF Shadows, Mirrored, Behind, CacheShowsCommitted
<1>2. QED  BY <1>1, Invariants, PTL

\* A one-shot token is handed to one caller, whatever is resent or rejected.
THEOREM TokenOnce == Spec => []TokenConsumedOnce
<1>1. Shadows => TokenConsumedOnce
  BY DEF Shadows, Applied, OneTaker, Taken, TokenConsumedOnce
<1>2. QED  BY <1>1, Invariants, PTL

\* No commit reaches another incarnation than the one it was drafted from.
THEOREM CommitsStayHome == Spec => NoCrossIncarnation
<1> DEFINE Continues == \A i \in Ids :
          store'[i] # NoSession =>
              \/ store'[i].log = {}
              \/ store[i] # NoSession /\ store'[i].created = store[i].created
<1>1. IInv /\ [Next]_vars => [Continues]_store
  <2> SUFFICES ASSUME IInv, [Next]_vars, store' # store
               PROVE  Continues
    OBVIOUS
  <2>1. TypeOK /\ Held
    BY DEF IInv
  <2>2. CASE \E p \in Calls : Start(p) \/ Resume(p)
    BY <2>1, <2>2, StartQuiet, ResumeQuiet DEF Quiet
  <2>3. ASSUME NEW p \in Calls, Exec(p)
        PROVE  Continues
    <3>1. Target[p] \in Ids
      BY ConstantsOK
    <3>2. ASSUME NEW r \in Record, Write(p, r),
                 r.log = {} \/ (store[Target[p]] # NoSession /\ r.created = store[Target[p]].created)
          PROVE  Continues
      <4> DEFINE w == [r EXCEPT !.ver = writes[Target[p]] + 1]
      <4>1. w.created = r.created /\ w.log = r.log /\ store' = [store EXCEPT ![Target[p]] = w]
        BY <3>2 DEF Write, Record
      <4> HIDE DEF w
      <4>2. QED  BY <2>1, <3>1, <3>2, <4>1 DEF TypeOK
    <3>3. CASE ExecRead(p)
      BY <3>3 DEF ExecRead
    <3>4. CASE ExecCas(p)
      <4>1. snap[p] \in Record
        BY <2>1, <3>4 DEF ExecCas, NextToRun, Held, TypeOK
      <4>2. QED  BY <3>2, <3>4, <4>1, MutatedType DEF ExecCas, CasMatches, Refused
    <3>5. CASE ExecTake(p)
      <4>1. HoldsToken(store[Target[p]]) => store[Target[p]] \in Record
        BY <2>1, <3>1 DEF HoldsToken, TypeOK
      <4>2. QED  BY <3>2, <3>5, <4>1, MutatedType DEF ExecTake, HoldsToken, Refused
    <3>6. CASE ExecDel(p)
      BY <2>1, <3>6 DEF ExecDel, TypeOK
    <3>7. CASE ExecSet(p)
      <4>1. [FirstRecord EXCEPT !.created = p] \in Record /\ [FirstRecord EXCEPT !.created = p].log = {}
        BY DEF FirstRecord, Record, Births
      <4>2. QED  BY <3>2, <3>7, <4>1 DEF ExecSet
    <3>8. QED  BY <2>3, <3>3, <3>4, <3>5, <3>6, <3>7 DEF Exec
  <2>4. CASE \E i \in Ids : Expire(i)
    BY <2>1, <2>4 DEF Expire, TypeOK
  <2>5. QED  BY <2>2, <2>3, <2>4 DEF Next, Age, Resend, Reject, vars
<1>2. QED  BY <1>1, InvInit, InvStep, PTL DEF Spec, NoCrossIncarnation

(***************************************************************************)
(* The refinement                                                          *)
(*                                                                         *)
(* It holds as long as no command is sent twice: an update whose commit is *)
(* resent is refused by its own revision, starts over and is applied again *)
(* (sessions.ts 445-461), which no register does.                          *)
(***************************************************************************)

\* A call whose operation took effect waits for that answer, or has returned.
Once ==
    \A t \in took :
        \/ pc[t[3]] = "done"
        \/ /\ pc[t[3]] \in {"CAS", "TAKE"}
           /\ wire[t[3]] = "rejected" \/ (wire[t[3]] = "executed" /\ reply[t[3]] # NoSession)

LEMMA OnceStep ==
    ASSUME MaxResends = 0, IInv, Shadows, Once, [Next]_vars
    PROVE  Once'
<1> USE DEF IInv
<1>1. \A t \in took : t[3] \in Calls
  BY DEF TypeOK
<1>2. ASSUME NEW p \in Calls, Start(p)
      PROVE  Once'
  <2>1. pc[p] = "idle" /\ took' = took
    BY <1>2 DEF Start, Begin, GetHit, GetMiss, GetStrict, UpdateAtomic, Consume, Delete, TouchHit, TouchMiss
  <2>2. \E c : Send(p, c) \/ Proceed(p, c)
    BY <1>2 DEF Start, GetHit, GetMiss, GetStrict, UpdateAtomic, Consume, Delete, TouchHit, TouchMiss
  <2>3. \A q \in Calls \ {p} : pc'[q] = pc[q] /\ wire'[q] = wire[q] /\ reply'[q] = reply[q]
    BY <2>2 DEF Send, Proceed, TypeOK
  <2>4. QED  BY <1>1, <2>1, <2>3 DEF Once
<1>3. ASSUME NEW p \in Calls, Exec(p)
      PROVE  Once'
  <2>1. PICK r : Executed(p, r)
    BY <1>3 DEF Exec, ExecRead, ExecCas, ExecTake, ExecDel, ExecSet, Write, Refused
  <2>2. wire[p] = "sent"
    BY <1>3 DEF Exec, ExecRead, ExecCas, ExecTake, ExecDel, ExecSet, NextToRun
  <2>3. \/ took' = took
        \/ \E x, c : took' = took \cup {<<x, c, p>>} /\ pc[p] \in {"CAS", "TAKE"} /\ reply'[p] # NoSession
    <3>1. CASE ExecRead(p) \/ ExecDel(p) \/ ExecSet(p)
      BY <3>1 DEF ExecRead, ExecDel, ExecSet
    <3>2. ASSUME NEW s \in Record, Write(p, s)
          PROVE  reply'[p] # NoSession
      <4> DEFINE w == [s EXCEPT !.ver = writes[Target[p]] + 1]
      <4>1. writes[Target[p]] + 1 \in Nat
        BY ConstantsOK DEF TypeOK
      <4>2. w \in Record /\ Executed(p, w)
        BY <3>2, <4>1, NumberedType DEF Write
      <4> HIDE DEF w
      <4>3. QED  BY <4>2, NoSessionOK, ExecFrame
    <3>3. CASE ExecCas(p)
      <4>1. snap[p] \in Record
        BY <3>3 DEF ExecCas, NextToRun, Held, TypeOK
      <4>2. QED  BY <3>2, <3>3, <4>1, MutatedType DEF ExecCas, NextToRun, Refused
    <3>4. CASE ExecTake(p)
      <4>1. HoldsToken(store[Target[p]]) => store[Target[p]] \in Record
        BY ConstantsOK DEF HoldsToken, TypeOK
      <4>2. QED  BY <3>2, <3>4, <4>1, MutatedType DEF ExecTake, NextToRun, Refused
    <3>5. QED  BY <1>3, <3>1, <3>3, <3>4 DEF Exec
  <2>4. Frame(p) /\ wire'[p] = "executed"
    BY <2>1, ExecFrame DEF Executed, TypeOK
  <2>5. \A t \in took : t[3] # p \/ pc[p] = "done"
    BY <2>2 DEF Once
  <2>6. QED  BY <1>1, <2>3, <2>4, <2>5 DEF Once, Frame
<1>4. ASSUME NEW p \in Calls, Resume(p)
      PROVE  Once'
  <2>1. took' = took /\ \E c : Send(p, c) \/ Proceed(p, c)
    BY <1>4 DEF Resume, GetFound, GetNotFound, SetDone, Attempt, ReadFound, ReadNotFound, SubmitDraft,
         CasCommitted, CasConflict, TakeDone, DelDone, TouchFound, TouchNotFound, LoadDone,
         RevalidateDone, GiveUp, LeaveStore
  <2>2. \A q \in Calls \ {p} : pc'[q] = pc[q] /\ wire'[q] = wire[q] /\ reply'[q] = reply[q]
    BY <2>1 DEF Send, Proceed, TypeOK
  <2>3. ASSUME \/ pc[p] = "done"
               \/ /\ pc[p] \in {"CAS", "TAKE"}
                  /\ wire[p] = "rejected" \/ (wire[p] = "executed" /\ reply[p] # NoSession)
        PROVE  pc'[p] = "done"
    <3>1. CasCommitted(p) \/ TakeDone(p) \/ GiveUp(p)
      BY <1>4, <2>3 DEF Resume, GetFound, GetNotFound, SetDone, Attempt, ReadFound, ReadNotFound, SubmitDraft,
           CasConflict, DelDone, TouchFound, TouchNotFound, LoadDone, RevalidateDone, Found, NotFound, Answered, Rejected
    <3>2. QED  BY <3>1 DEF CasCommitted, TakeDone, GiveUp, Proceed, TypeOK
  <2>4. QED  BY <1>1, <2>1, <2>2, <2>3 DEF Once
<1>5. CASE \/ \E n \in Nodes, i \in Ids : Age(n, i)
           \/ \E i \in Ids : Expire(i)
           \/ UNCHANGED vars
  BY <1>5 DEF Age, Expire, vars, callVars, wireVars, history, Once
<1>6. ASSUME NEW n \in Nodes, Resend(n) \/ Reject(n)
      PROVE  Once'
  <2>1. Reject(n)
    BY <1>6 DEF Resend, TypeOK
  <2>2. \A q \in Calls : wire'[q] = wire[q] \/ wire'[q] = "rejected"
    BY <2>1 DEF Reject
  <2>3. QED  BY <1>1, <2>1, <2>2 DEF Reject, callVars, history, Once
<1>7. QED  BY <1>2, <1>3, <1>4, <1>5, <1>6 DEF Next

\* The register's state when the store holds s.
Contents(s) == [i \in Ids |-> IF s[i] = NoSession THEN NoSession ELSE Content(s[i])]

\* A stored record is a record of the register.
LEMMA ContentType ==
    ASSUME NEW r \in Record
    PROVE  /\ Content(r) # NoSession
           /\ Content(r).created = r.created /\ Content(r).log = r.log /\ Content(r).tok = r.tok
  BY NoContentOK DEF Content, Record

\* A mutation that p writes is an operation of the register.
LEMMA MutationApplies ==
    ASSUME TypeOK, NEW p \in Calls, NEW w \in Record, NEW consume \in BOOLEAN,
           store' = [store EXCEPT ![Target[p]] = w], store[Target[p]] # NoSession,
           w.created = store[Target[p]].created, w.log = store[Target[p]].log \cup {p},
           w.tok = (store[Target[p]].tok /\ ~consume), consume => store[Target[p]].tok,
           took' = took \cup {<<Target[p], w.created, p>>}, acked' = acked,
           \A t \in took : t[3] # p
    PROVE  Register!RegNext
<1> DEFINE i == Target[p]  reg == Contents(store)
<1>1. i \in Ids /\ store[i] \in Record
  BY ConstantsOK DEF TypeOK
<1>2. reg[i] = Content(store[i]) /\ reg[i] # NoSession
  BY <1>1, ContentType, NoSessionOK DEF Contents
<1>3. Contents(store)' = [reg EXCEPT ![i] = Content(w)]
  BY <1>1, NoSessionOK DEF Contents, TypeOK
<1>4. Content(w) = [created |-> reg[i].created, log |-> reg[i].log \cup {p},
                    tok |-> reg[i].tok /\ ~consume]
  BY <1>1, <1>2, ContentType DEF Content
<1>5. Contents(store)' = [reg EXCEPT ![i] = [created |-> @.created, log |-> @.log \cup {p},
                                             tok |-> @.tok /\ ~consume]]
  BY <1>3, <1>4
<1>6. Register!Apply(p, i, consume)
  BY <1>1, <1>2, <1>5, ContentType DEF Register!Apply, Contents
<1>7. QED  BY <1>1, <1>6 DEF Register!RegNext

\* Nothing that the register shows changes, but that one operation is reported.
LEMMA QuietReports ==
    ASSUME Shadows, store' = store, took' = took,
           acked' = acked \/ \E t \in took : acked' = acked \cup {t}
    PROVE  [Register!RegNext]_(Register!regVars)
<1>1. Contents(store)' = Contents(store)
  BY DEF Contents
<1>2. CASE acked' = acked
  BY <1>1, <1>2 DEF Register!regVars, Contents
<1>3. ASSUME NEW t \in took, acked' = acked \cup {t}, acked' # acked
      PROVE  Register!RegNext
  <2>1. Register!Report(t)
    BY <1>1, <1>3 DEF Register!Report, Contents
  <2>2. QED  BY <2>1 DEF Register!RegNext
<1>4. QED  BY <1>2, <1>3

\* A record that goes is removed from the register.
LEMMA GoneRemoves ==
    ASSUME TypeOK, NEW i \in Ids, store' = [store EXCEPT ![i] = NoSession],
           took' = took, acked' = acked
    PROVE  [Register!RegNext]_(Register!regVars)
<1>1. Contents(store)' = [Contents(store) EXCEPT ![i] = NoSession]
  BY DEF Contents, TypeOK
<1>2. CASE store[i] = NoSession
  <2>1. store' = store
    BY <1>2 DEF TypeOK
  <2>2. QED  BY <2>1 DEF Register!regVars
<1>3. CASE store[i] # NoSession
  <2>1. Contents(store)[i] # NoSession
    BY <1>3, ContentType DEF Contents, TypeOK
  <2>2. Register!Remove(i)
    BY <1>1, <2>1 DEF Register!Remove, Contents
  <2>3. QED  BY <2>2 DEF Register!RegNext
<1>4. QED  BY <1>2, <1>3

\* A session that p stores is created in the register.
LEMMA SetCreates ==
    ASSUME IInv, Shadows, NEW p \in Calls, Unborn(p), NEW w \in Record,
           w.created = p, w.log = {}, w.tok = TRUE,
           store' = [store EXCEPT ![Target[p]] = w], took' = took, acked' = acked
    PROVE  Register!RegNext
<1> DEFINE i == Target[p]
<1>1. i \in Ids /\ TypeOK
  BY ConstantsOK DEF IInv
<1>2. Content(w) = [created |-> p, log |-> {}, tok |-> TRUE]
  BY DEF Content
<1>3. Contents(store)' = [Contents(store) EXCEPT ![i] = Content(w)]
  BY <1>1, NoSessionOK DEF Contents, TypeOK
<1>4. \A t \in took : t[2] # p
  BY DEF Shadows, Mirrored
<1>5. ASSUME NEW j \in Ids, Contents(store)[j] # NoSession
      PROVE  Contents(store)[j].created # p
  <2>1. store[j] # NoSession /\ store[j] \in Record /\ Contents(store)[j] = Content(store[j])
    BY <1>1, <1>5 DEF Contents, TypeOK
  <2>2. store[j].created # p
    BY <2>1 DEF IInv, UnbornUnknown, NotFrom
  <2>3. QED  BY <2>1, <2>2, ContentType
<1>6. Register!Create(p, i)
  BY <1>2, <1>3, <1>4, <1>5 DEF Register!Create, Contents
<1>7. QED  BY <1>1, <1>6 DEF Register!RegNext

\* Executing a command is one operation of the register, or none.
LEMMA ExecRegisters ==
    ASSUME IInv, Shadows, Once, NEW p \in Calls, Exec(p)
    PROVE  [Register!RegNext]_(Register!regVars)
<1> DEFINE cur == store[Target[p]]
<1>1. Target[p] \in Ids /\ TypeOK /\ Held
  BY ConstantsOK DEF IInv
<1>2. acked' = acked
  BY <1>1, ExecFrame DEF Exec, ExecRead, ExecCas, ExecTake, ExecDel, ExecSet, Write, Refused, Frame
<1>3. CASE store' = store /\ took' = took
  BY <1>2, <1>3, QuietReports
<1>4. pc[p] \in {"CAS", "TAKE"} /\ wire[p] = "sent" => \A t \in took : t[3] # p
  BY DEF Once
<1>5. ASSUME NEW r \in Record, Write(p, r)
      PROVE  LET w == [r EXCEPT !.ver = writes[Target[p]] + 1]
             IN  /\ w \in Record /\ w.created = r.created /\ w.log = r.log /\ w.tok = r.tok
                 /\ store' = [store EXCEPT ![Target[p]] = w]
  <2>1. writes[Target[p]] + 1 \in Nat
    BY <1>1 DEF TypeOK
  <2>2. QED  BY <1>5, <2>1 DEF Write, Record
<1>6. CASE ExecRead(p)
  BY <1>3, <1>6 DEF ExecRead
<1>7. CASE ExecCas(p)
  <2> DEFINE r == [snap[p] EXCEPT !.rev = @ + 1, !.log = @ \cup {p}]
             w == [r EXCEPT !.ver = writes[Target[p]] + 1]
  <2>1. pc[p] = "CAS" /\ wire[p] = "sent" /\ snap[p] \in Record
    BY <1>1, <1>7 DEF ExecCas, NextToRun, Held, TypeOK
  <2>2. CASE CasMatches(cur, snap[p]) /\ Write(p, r) /\ took' = took \cup {<<Target[p], snap[p].created, p>>}
    <3>1. cur = snap[p] /\ cur # NoSession
      BY <2>1, <2>2, NoSessionOK DEF CasMatches, IInv, HeldBehind, Behind
    <3>2. r \in Record /\ r.created = snap[p].created /\ r.log = snap[p].log \cup {p}
      BY <2>1, MutatedType
    <3>3. r.tok = snap[p].tok
      BY <2>1 DEF Record
    <3> HIDE DEF r
    <3>4. /\ w \in Record /\ w.created = cur.created /\ w.log = cur.log \cup {p} /\ w.tok = cur.tok
          /\ store' = [store EXCEPT ![Target[p]] = w]
      BY <1>5, <2>2, <3>1, <3>2, <3>3
    <3>5. took' = took \cup {<<Target[p], w.created, p>>}
      BY <2>2, <3>1, <3>4
    <3>6. w.tok = (cur.tok /\ ~FALSE) /\ (FALSE => cur.tok)
      BY <3>1, <3>4, <2>1 DEF Record
    <3> HIDE DEF w
    <3>7. QED  BY <1>1, <1>2, <1>4, <2>1, <3>1, <3>4, <3>5, <3>6, MutationApplies
  <2>3. QED  BY <1>3, <1>7, <2>2 DEF ExecCas, Refused
<1>8. CASE ExecTake(p)
  <2> DEFINE r == [cur EXCEPT !.rev = @ + 1, !.tok = FALSE, !.log = @ \cup {p}]
             w == [r EXCEPT !.ver = writes[Target[p]] + 1]
  <2>1. pc[p] = "TAKE" /\ wire[p] = "sent"
    BY <1>8 DEF ExecTake, NextToRun
  <2>2. CASE HoldsToken(cur) /\ Write(p, r) /\ took' = took \cup {<<Target[p], cur.created, p>>}
    <3>1. cur \in Record /\ cur # NoSession /\ cur.tok
      BY <1>1, <2>2 DEF HoldsToken, TypeOK
    <3>2. r \in Record /\ r.created = cur.created /\ r.log = cur.log \cup {p}
      BY <3>1, MutatedType
    <3>3. r.tok = FALSE
      BY <3>1 DEF Record
    <3> HIDE DEF r
    <3>4. /\ w \in Record /\ w.created = cur.created /\ w.log = cur.log \cup {p} /\ w.tok = FALSE
          /\ store' = [store EXCEPT ![Target[p]] = w]
      BY <1>5, <2>2, <3>1, <3>2, <3>3
    <3>5. took' = took \cup {<<Target[p], w.created, p>>}
      BY <2>2, <3>1, <3>4
    <3> HIDE DEF w
    <3>6. w.tok = (cur.tok /\ ~TRUE) /\ (TRUE => cur.tok)
      <4>1. (cur.tok /\ ~TRUE) = FALSE
        OBVIOUS
      <4>2. QED  BY <3>1, <3>4, <4>1, Zenon
    <3>7. QED  BY <1>1, <1>2, <1>4, <2>1, <3>1, <3>4, <3>5, <3>6, MutationApplies
  <2>3. QED  BY <1>3, <1>8, <2>2 DEF ExecTake, Refused
<1>9. CASE ExecDel(p)
  BY <1>1, <1>2, <1>9, GoneRemoves DEF ExecDel
<1>10. CASE ExecSet(p)
  <2> DEFINE r == [FirstRecord EXCEPT !.created = p]
             w == [r EXCEPT !.ver = writes[Target[p]] + 1]
  <2>1. r \in Record /\ r.created = p /\ r.log = {} /\ r.tok = TRUE
    BY DEF FirstRecord, Record, Births
  <2>2. Write(p, r) /\ took' = took /\ Unborn(p)
    BY <1>10 DEF ExecSet, NextToRun, Unborn
  <2> HIDE DEF r
  <2>3. /\ w \in Record /\ w.created = p /\ w.log = {} /\ w.tok = TRUE
        /\ store' = [store EXCEPT ![Target[p]] = w]
    BY <1>5, <2>1, <2>2
  <2> HIDE DEF w
  <2>4. QED  BY <1>2, <2>2, <2>3, SetCreates
<1>11. QED  BY <1>6, <1>7, <1>8, <1>9, <1>10 DEF Exec

\* So is every other step.
LEMMA StepRegisters ==
    ASSUME IInv, Shadows, Once, [Next]_vars
    PROVE  [Register!RegNext]_(Register!regVars)
<1>1. ASSUME NEW p \in Calls, Start(p)
      PROVE  store' = store /\ took' = took /\ acked' = acked
  BY <1>1 DEF Start, Begin, GetHit, GetMiss, GetStrict, UpdateAtomic, Consume, Delete, TouchHit, TouchMiss
<1>2. ASSUME NEW p \in Calls, Resume(p)
      PROVE  store' = store /\ took' = took /\ (acked' = acked \/ \E t \in took : acked' = acked \cup {t})
  <2>1. /\ LeaveStore
        /\ \/ UNCHANGED acked
           \/ Acknowledge(p) /\ (Found(p, "CAS") \/ Found(p, "TAKE"))
    BY <1>2 DEF Resume, GetFound, GetNotFound, SetDone, Attempt, ReadFound, ReadNotFound, SubmitDraft,
         CasCommitted, CasConflict, TakeDone, DelDone, TouchFound, TouchNotFound, LoadDone,
         RevalidateDone, GiveUp
  <2>2. QED  BY <2>1 DEF LeaveStore, Acknowledge, Found, Answered, Shadows, Applied
<1>3. ASSUME NEW i \in Ids, Expire(i)
      PROVE  [Register!RegNext]_(Register!regVars)
  BY <1>3, GoneRemoves DEF Expire, IInv, history
<1>4. CASE \/ \E n \in Nodes, i \in Ids : Age(n, i)
           \/ \E n \in Nodes : Resend(n) \/ Reject(n)
           \/ UNCHANGED vars
  BY <1>4, QuietReports DEF Age, Resend, Reject, vars, history
<1>5. QED  BY <1>1, <1>2, <1>3, <1>4, QuietReports, ExecRegisters DEF Next

\* The store implements the register of its sessions.
THEOREM StoreImplementsRegister == ASSUME MaxResends = 0 PROVE Spec => ImplementsRegister
<1>1. Init => Register!RegInit /\ Once
  <2> SUFFICES ASSUME Init
               PROVE  Register!RegInit /\ Once
    OBVIOUS
  <2>1. Content(FirstRecord) \in [created : Births \ Calls, log : {{}}, tok : {TRUE}]
    BY ConstantsOK DEF Content, FirstRecord, Births
  <2>2. \A i \in Ids : store[i] = NoSession \/ store[i] = FirstRecord
    BY DEF Init
  <2>3. Contents(store) \in [Ids -> {NoSession} \cup [created : Births \ Calls, log : {{}}, tok : {TRUE}]]
    BY <2>1, <2>2 DEF Contents
  <2>4. took = {} /\ acked = {}
    BY DEF Init
  <2>5. QED  BY <2>3, <2>4 DEF Register!RegInit, Contents, Once
<1>2. IInv /\ Shadows /\ Once /\ [Next]_vars => [Register!RegNext]_(Register!regVars) /\ Once'
  BY StepRegisters, OnceStep
<1>3. QED  BY <1>1, <1>2, Invariants, PTL DEF Spec, ImplementsRegister, Register!RegSpec
-----------------------------------------------------------------------------
(***************************************************************************)
(* Proofs about the order in which the caches of SessionStore show the     *)
(* writes of a session, for any number of instances, sessions, calls,      *)
(* lost connections and resent commands: a cache never goes back to an     *)
(* older write, nor shows again what a delete of its instance ended.       *)
(*                                                                         *)
(* The inductive invariant.  Writes of a session are numbered; a record    *)
(* carries the number of the write that made it.  What protects a cache is *)
(* that an answer executed later is never older (InOrder), that the fill   *)
(* which owns a slot has only a LOAD or a SET behind it (Claims), neither  *)
(* of which can resume before it and leave it the slot, and that an owner's *)
(* answer is therefore never older than what the slot has shown (Current). *)
(* Everyone else publishes only a higher revision of the incarnation that  *)
(* is cached, which is a later write (Ranked).                             *)
(***************************************************************************)

Flying(p) == wire[p] \in {"sent", "executed"}

\* Commands of one connection are executed in the order they were sent.
Wires ==
    \A p, q \in Calls :
        /\ q \in ahead[p] => q # p /\ Home[q] = Home[p]
        /\ q \in ahead[p] /\ wire[p] = "executed" => wire[q] # "sent"
        /\ p # q /\ Home[p] = Home[q] /\ Flying(p) /\ Flying(q) => p \in ahead[q] \/ q \in ahead[p]

\* The store holds the newest write, and no cache or delete is ahead of it.
Numbered ==
    /\ \A i \in Ids : store[i] # NoSession => store[i].ver = writes[i]
    /\ \A n \in Nodes, i \in Ids :
          /\ shown[n][i] <= writes[i] /\ buried[n][i] <= writes[i] + 1
          /\ store[i] # NoSession => store[i].ver >= buried[n][i]
    /\ \A p \in Calls : reply[p] # NoSession => reply[p].ver <= writes[Target[p]]

InOrder ==
    \A p, q \in Calls :
        /\ q \in ahead[p] /\ Target[p] = Target[q]
        /\ wire[p] = "executed" /\ wire[q] = "executed"
        /\ reply[p] # NoSession /\ reply[q] # NoSession
        => reply[q].ver <= reply[p].ver

\* The records of session i that the store, a call or a cache has.
Known(i) ==
    {store[i]} \cup {reply[q] : q \in {c \in Calls : Target[c] = i}}
               \cup {cache[n].sess[i] : n \in Nodes}

Ranked ==
    \A i \in Ids : \A a, b \in Known(i) :
        a # NoSession /\ b # NoSession /\ a.created = b.created /\ a.rev > b.rev
            => a.ver >= b.ver

Owns(p) == Slots(p).owner[Target[p]] = p

Claims ==
    \A p, q \in Calls :
        p \in ahead[q] /\ Target[p] = Target[q] /\ Owns(p) => pc[q] \in {"LOAD", "SET"}

Current ==
    \A p \in Calls :
        wire[p] = "executed" /\ reply[p] # NoSession /\ (Owns(p) \/ pc[p] = "SET")
            => /\ reply[p].ver >= shown[Home[p]][Target[p]]
               /\ reply[p].ver >= buried[Home[p]][Target[p]]

\* While a delete is on its way its slot is empty, and whoever might fill it
\* was sent after the delete.
EndsAlone ==
    \A d \in Calls : pc[d] = "DEL" /\ Flying(d) =>
        /\ Slots(d).sess[Target[d]] = NoSession
        /\ \A q \in Calls :
              /\ q # d /\ Home[q] = Home[d] /\ Target[q] = Target[d]
              /\ Flying(q) /\ (Owns(q) \/ pc[q] = "SET")
              => d \in ahead[q]

\* A cache shows the newest of what it has shown, and nothing a delete ended.
Latest ==
    \A n \in Nodes, i \in Ids :
        cache[n].sess[i] # NoSession =>
            cache[n].sess[i].ver = shown[n][i] /\ cache[n].sess[i].ver >= buried[n][i]

Order == Wires /\ Numbered /\ InOrder /\ Ranked /\ Claims /\ Current /\ EndsAlone /\ Latest
-----------------------------------------------------------------------------
(***************************************************************************)
(* What a call does to its instance's cache                                *)
(***************************************************************************)

\* Call p may put its answer into cache c, which becomes d: as the slot's
\* owner or a new session's creator, who leave the slot without an owner, or
\* over an older revision of the same incarnation.
Puttable(c, d, p) ==
    /\ d.sess[Target[p]] = reply[p] /\ reply[p] # NoSession /\ Answered(p, pc[p])
    /\ \/ (c.owner[Target[p]] = p \/ pc[p] = "SET") /\ d.owner[Target[p]] = NoOwner
       \/ /\ pc[p] # "SET" /\ c.sess[Target[p]] # NoSession
          /\ Supersedes(reply[p], c.sess[Target[p]])

\* Call p turns cache c into d.
SlotStep(c, d, p) ==
    \A i \in Ids :
        /\ d.owner[i] \in {c.owner[i], NoOwner} \/ (i = Target[p] /\ d.owner[i] = p)
        /\ d.sess[i] \in {c.sess[i], NoSession} \/ (i = Target[p] /\ Puttable(c, d, p))

\* The operations on a slot that publish nothing.
LEMMA SlotSteps ==
    ASSUME NEW c \in CacheState, NEW p \in Calls
    PROVE  LET i == Target[p] IN
           /\ SlotStep(c, c, p)
           /\ SlotStep(c, BeginFill(c, i, p), p) /\ BeginFill(c, i, p).owner[i] = p
           /\ SlotStep(c, Dropped(c, i), p) /\ Dropped(c, i).owner[i] = NoOwner
           /\ Dropped(c, i).sess[i] = NoSession
           /\ SlotStep(c, BeginFill(Dropped(c, i), i, p), p)
           /\ BeginFill(Dropped(c, i), i, p).owner[i] = p
           /\ SlotStep(c, FillMiss(c, i, p), p)
  BY ConstantsOK DEF SlotStep, CacheState, BeginFill, Dropped, FillMiss

\* Storing the answer, by the slot's owner or a new session's creator.
LEMMA PutsStep ==
    ASSUME NEW c \in CacheState, NEW p \in Calls, NEW d \in Puts(c, Target[p], reply[p]),
           c.owner[Target[p]] = p \/ pc[p] = "SET", reply[p] # NoSession, Answered(p, pc[p])
    PROVE  SlotStep(c, d, p)
<1> DEFINE Room == IF Target[p] \notin CachedIds(c) /\ Cardinality(CachedIds(c)) >= Capacity
                   THEN {Dropped(c, v) : v \in CachedIds(c)} ELSE {c}
<1>1. Target[p] \in Ids
  BY ConstantsOK
<1>2. PICK e \in Room : d = [e EXCEPT !.sess[Target[p]] = reply[p], !.aged = @ \ {Target[p]},
                                      !.owner[Target[p]] = NoOwner]
  BY DEF Puts
<1>3. /\ e \in CacheState
      /\ \A i \in Ids : e.sess[i] \in {c.sess[i], NoSession} /\ e.owner[i] \in {c.owner[i], NoOwner}
  <2>1. CASE e = c
    BY <2>1
  <2>2. ASSUME NEW v \in Ids, e = Dropped(c, v)
        PROVE  /\ e \in CacheState
               /\ \A i \in Ids : e.sess[i] \in {c.sess[i], NoSession} /\ e.owner[i] \in {c.owner[i], NoOwner}
    BY <2>2 DEF Dropped, CacheState
  <2>3. e = c \/ \E v \in Ids : e = Dropped(c, v)
    <3>1. CASE Target[p] \notin CachedIds(c) /\ Cardinality(CachedIds(c)) >= Capacity
      BY <3>1 DEF CachedIds
    <3>2. CASE ~(Target[p] \notin CachedIds(c) /\ Cardinality(CachedIds(c)) >= Capacity)
      BY <3>2
    <3>3. QED  BY <3>1, <3>2
  <2>4. QED  BY <2>1, <2>2, <2>3
<1> HIDE DEF Room
<1>4. d.sess[Target[p]] = reply[p] /\ d.owner[Target[p]] = NoOwner
  BY <1>1, <1>2, <1>3 DEF CacheState
<1>5. \A i \in Ids \ {Target[p]} : d.sess[i] = e.sess[i] /\ d.owner[i] = e.owner[i]
  BY <1>1, <1>2, <1>3 DEF CacheState
<1>6. Puttable(c, d, p)
  BY <1>4 DEF Puttable
<1>7. QED  BY <1>3, <1>4, <1>5, <1>6 DEF SlotStep

\* replaceStaleFill.
LEMMA FillsStep ==
    ASSUME NEW c \in CacheState, NEW p \in Calls, NEW d \in FillPuts(c, Target[p], reply[p], p),
           pc[p] # "SET", reply[p] # NoSession, Answered(p, pc[p])
    PROVE  SlotStep(c, d, p)
<1>1. Target[p] \in Ids
  BY ConstantsOK
<1>2. CASE c.owner[Target[p]] = p
  BY <1>2, PutsStep DEF FillPuts
<1>3. CASE d = c
  BY <1>3, SlotSteps
<1>4. CASE /\ c.sess[Target[p]] # NoSession /\ Supersedes(reply[p], c.sess[Target[p]])
           /\ d = [c EXCEPT !.sess[Target[p]] = reply[p], !.aged = @ \ {Target[p]}]
  <2>1. d.sess[Target[p]] = reply[p] /\ d.owner = c.owner
    BY <1>1, <1>4 DEF CacheState
  <2>2. \A i \in Ids \ {Target[p]} : d.sess[i] = c.sess[i]
    BY <1>1, <1>4 DEF CacheState
  <2>3. Puttable(c, d, p)
    BY <1>4, <2>1 DEF Puttable
  <2>4. QED  BY <2>1, <2>2, <2>3 DEF SlotStep
<1>5. QED  BY <1>2, <1>3, <1>4 DEF FillPuts

(***************************************************************************)
(* What a step of a call does                                              *)
(***************************************************************************)

\* Slot i of instance n is as it was or empty, or shows p's answer.
Holds(n, i, p) ==
    \/ cache'[n].sess[i] \in {cache[n].sess[i], NoSession} /\ shown'[n][i] = shown[n][i]
    \/ /\ n = Home[p] /\ i = Target[p] /\ Puttable(cache[n], cache'[n], p)
       /\ shown'[n][i] = IF reply[p].ver > shown[n][i] THEN reply[p].ver ELSE shown[n][i]

Owners(p) ==
    \A n \in Nodes, i \in Ids :
        \/ cache'[n].owner[i] \in {cache[n].owner[i], NoOwner}
        \/ n = Home[p] /\ i = Target[p] /\ cache'[n].owner[i] = p

\* Installing such a cache on p's instance.
LEMMA CacheSteps ==
    ASSUME TypeOK, Latest, NEW p \in Calls, NEW d \in CacheState,
           KeepCache \/ (SetCache(Home[p], d) /\ SlotStep(Slots(p), d, p))
    PROVE  /\ Owners(p)
           /\ \A n \in Nodes, i \in Ids : Holds(n, i, p)
<1>1. CASE KeepCache
  BY <1>1 DEF KeepCache, Owners, Holds
<1>2. CASE SetCache(Home[p], d) /\ SlotStep(Slots(p), d, p)
  <2>1. /\ Home[p] \in Nodes /\ cache'[Home[p]] = d
        /\ \A n \in Nodes \ {Home[p]} : cache'[n] = cache[n] /\ shown'[n] = shown[n]
    BY <1>2, ConstantsOK DEF SetCache, TypeOK
  <2>2. \A i \in Ids : shown'[Home[p]][i] =
            IF d.sess[i] # NoSession /\ d.sess[i].ver > shown[Home[p]][i]
            THEN d.sess[i].ver ELSE shown[Home[p]][i]
    BY <1>2, <2>1 DEF SetCache, TypeOK
  <2>3. Owners(p)
    BY <1>2, <2>1 DEF Owners, SlotStep, Slots
  <2>4. ASSUME NEW i \in Ids
        PROVE  Holds(Home[p], i, p)
    <3>1. shown[Home[p]][i] \in Nat
      BY <2>1 DEF TypeOK
    <3>2. CASE d.sess[i] = NoSession
      BY <2>1, <2>2, <3>2 DEF Holds
    <3>3. CASE d.sess[i] = cache[Home[p]].sess[i] /\ d.sess[i] # NoSession
      <4>1. d.sess[i].ver = shown[Home[p]][i]
        BY <2>1, <3>3 DEF Latest
      <4>2. shown'[Home[p]][i] = shown[Home[p]][i]
        BY <2>2, <4>1
      <4>3. QED  BY <2>1, <3>3, <4>2 DEF Holds
    <3>4. CASE i = Target[p] /\ Puttable(cache[Home[p]], d, p)
      BY <2>1, <2>2, <3>4 DEF Holds, Puttable
    <3>5. QED  BY <1>2, <3>2, <3>3, <3>4 DEF SlotStep, Slots
  <2>5. ASSUME NEW n \in Nodes \ {Home[p]}, NEW i \in Ids
        PROVE  Holds(n, i, p)
    BY <2>1, <2>5 DEF Holds
  <2>6. QED  BY <2>3, <2>4, <2>5
<1>3. QED  BY <1>1, <1>2

\* A delete is sent into an empty slot, of a session that nobody is storing.
DeletesAlone(p) ==
    /\ cache'[Home[p]].sess[Target[p]] = NoSession
    /\ cache'[Home[p]].owner[Target[p]] = NoOwner
    /\ \A q \in Calls : Target[q] = Target[p] => pc[q] # "SET"

\* A command goes behind what is on its way.  But for the LOAD of a touch and
\* the SET of a new session its call takes the slot, or leaves it to nobody.
Sends(p) ==
    /\ wire'[p] = "sent" /\ ahead'[p] = InFlight(Home[p]) \ {p}
    /\ \/ pc'[p] \in {"LOAD", "SET"}
       \/ cache'[Home[p]].owner[Target[p]] \in {p, NoOwner}
    /\ pc'[p] = "DEL" => DeletesAlone(p)

\* One step of call p on its instance.
Turn(p) ==
    /\ UNCHANGED <<store, writes, buried>>
    /\ Owners(p) /\ \A n \in Nodes, i \in Ids : Holds(n, i, p)
    /\ \A q \in Calls \ {p} : /\ UNCHANGED <<pc[q], wire[q], reply[q]>>
                             /\ ahead'[q] = ahead[q] \ {p}
    /\ reply'[p] = NoSession
    /\ (wire'[p] = "off" /\ ahead'[p] = {}) \/ Sends(p)

LEMMA TurnBy ==
    ASSUME TypeOK, Latest, UNCHANGED <<store, writes, buried>>,
           NEW p \in Calls, NEW d \in CacheState, NEW c \in Phases,
           KeepCache \/ (SetCache(Home[p], d) /\ SlotStep(Slots(p), d, p)),
           \/ Proceed(p, c)
           \/ /\ Send(p, c)
              /\ \/ c \in {"LOAD", "SET"}
                 \/ SetCache(Home[p], d) /\ d.owner[Target[p]] \in {p, NoOwner}
              /\ c = "DEL" => /\ SetCache(Home[p], d)
                             /\ d.sess[Target[p]] = NoSession /\ d.owner[Target[p]] = NoOwner
                             /\ \A q \in Calls : Target[q] = Target[p] => pc[q] # "SET"
    PROVE  Turn(p)
<1>1. Owners(p) /\ \A n \in Nodes, i \in Ids : Holds(n, i, p)
  BY CacheSteps
<1>2. /\ \A q \in Calls \ {p} : /\ pc'[q] = pc[q] /\ wire'[q] = wire[q] /\ reply'[q] = reply[q]
                               /\ ahead'[q] = ahead[q] \ {p}
      /\ reply'[p] = NoSession /\ pc'[p] = c
  BY DEF Proceed, Send, TypeOK
<1>3. SetCache(Home[p], d) => cache'[Home[p]] = d
  BY ConstantsOK DEF SetCache, TypeOK
<1>4. CASE Proceed(p, c)
  <2>1. wire'[p] = "off" /\ ahead'[p] = {}
    BY <1>4 DEF Proceed, TypeOK
  <2>2. QED  BY <1>1, <1>2, <2>1 DEF Turn
<1>5. CASE Send(p, c)
  <2>1. wire'[p] = "sent" /\ ahead'[p] = InFlight(Home[p]) \ {p}
    BY <1>5 DEF Send, TypeOK
  <2>2. \/ c \in {"LOAD", "SET"}
        \/ SetCache(Home[p], d) /\ d.owner[Target[p]] \in {p, NoOwner}
    <3>1. ~Proceed(p, c)
      BY <2>1 DEF Proceed, TypeOK
    <3>2. QED  BY <3>1
  <2>3. c = "DEL" => DeletesAlone(p)
    <3>1. ~Proceed(p, c)
      BY <2>1 DEF Proceed, TypeOK
    <3>2. QED  BY <3>1, <1>3 DEF DeletesAlone
  <2>4. Sends(p)
    BY <1>2, <1>3, <2>1, <2>2, <2>3 DEF Sends
  <2>5. QED  BY <1>1, <1>2, <2>4 DEF Turn
<1>6. QED  BY <1>4, <1>5

\* Starting a call is such a step ...
LEMMA StartTurn == ASSUME TypeOK, Latest, NEW p \in Calls, Start(p) PROVE Turn(p)
<1> DEFINE c == Slots(p)
           i == Target[p]
<1>1. c \in CacheState /\ i \in Ids /\ Home[p] \in Nodes
  BY ConstantsOK DEF Slots, TypeOK
<1>2. /\ BeginFill(c, i, p) \in CacheState
      /\ Dropped(c, i) \in CacheState
      /\ BeginFill(Dropped(c, i), i, p) \in CacheState
  BY <1>1, DroppedType
<1>3. UNCHANGED <<store, writes, buried>>
  BY DEF Start, GetHit, GetMiss, GetStrict, UpdateAtomic, Consume, Delete, TouchHit, TouchMiss, Begin
<1>4. CASE GetHit(p) \/ UpdateAtomic(p)
  <2>1. KeepCache /\ \E s \in Phases : Proceed(p, s)
    BY <1>4 DEF GetHit, UpdateAtomic, Phases
  <2>2. QED  BY <1>1, <1>3, <2>1, TurnBy
<1>5. CASE GetMiss(p) \/ GetStrict(p)
  <2>1. SetCache(Home[p], BeginFill(c, i, p)) /\ \E s \in Phases \ {"DEL"} : Send(p, s)
    BY <1>5 DEF GetMiss, GetStrict, Phases, Commands
  <2>2. QED  BY <1>1, <1>2, <1>3, <2>1, SlotSteps, TurnBy
<1>6. CASE Consume(p) \/ TouchMiss(p)
  <2>1. SetCache(Home[p], BeginFill(Dropped(c, i), i, p)) /\ \E s \in Phases \ {"DEL"} : Send(p, s)
    BY <1>6 DEF Consume, TouchMiss, Phases, Commands
  <2>2. QED  BY <1>1, <1>2, <1>3, <2>1, SlotSteps, TurnBy
<1>7. CASE Delete(p)
  <2>1. /\ SetCache(Home[p], Dropped(c, i)) /\ Send(p, "DEL") /\ "DEL" \in Phases
        /\ \A q \in Calls : Target[q] = i => pc[q] # "SET"
    BY <1>7 DEF Delete, Phases, Commands
  <2>2. QED  BY <1>1, <1>2, <1>3, <2>1, SlotSteps, TurnBy
<1>8. CASE TouchHit(p)
  <2>1. \/ KeepCache /\ Proceed(p, "done") /\ "done" \in Phases
        \/ SetCache(Home[p], BeginFill(c, i, p)) /\ Send(p, "REVALIDATE") /\ "REVALIDATE" \in Phases
    BY <1>8 DEF TouchHit, Phases, Commands
  <2>2. CASE KeepCache /\ Proceed(p, "done") /\ "done" \in Phases
    BY <1>1, <1>3, <2>2, TurnBy
  <2>3. CASE SetCache(Home[p], BeginFill(c, i, p)) /\ Send(p, "REVALIDATE") /\ "REVALIDATE" \in Phases
    BY <1>1, <1>2, <1>3, <2>3, SlotSteps, TurnBy
  <2>4. QED  BY <2>1, <2>2, <2>3
<1>9. QED  BY <1>4, <1>5, <1>6, <1>7, <1>8 DEF Start

\* ... and so is continuing one.
LEMMA ResumeTurn == ASSUME TypeOK, Held, Latest, NEW p \in Calls, Resume(p) PROVE Turn(p)
<1> DEFINE c == Slots(p)
           i == Target[p]
<1>1. c \in CacheState /\ i \in Ids /\ Home[p] \in Nodes /\ reply[p] \in Record \cup {NoSession}
  BY ConstantsOK DEF Slots, TypeOK
<1>2. /\ BeginFill(c, i, p) \in CacheState
      /\ Dropped(c, i) \in CacheState
      /\ BeginFill(Dropped(c, i), i, p) \in CacheState
      /\ FillMiss(c, i, p) \in CacheState
  BY <1>1, DroppedType
<1>3. UNCHANGED <<store, writes, buried>>
  BY DEF Resume, GetFound, GetNotFound, SetDone, Attempt, ReadFound, ReadNotFound, SubmitDraft,
         CasCommitted, CasConflict, TakeDone, DelDone, TouchFound, TouchNotFound, LoadDone,
         RevalidateDone, GiveUp, LeaveStore
<1>4. ASSUME NEW s \in Phases, Proceed(p, s) \/ (Send(p, s) /\ s \in {"LOAD", "SET"}),
             NEW d \in CacheState, KeepCache \/ (SetCache(Home[p], d) /\ SlotStep(c, d, p))
      PROVE  Turn(p)
  <2>1. s \in {"LOAD", "SET"} => s # "DEL"
    OBVIOUS
  <2>2. QED  BY <1>3, <1>4, <2>1, TurnBy
<1>5. ASSUME NEW s \in Phases, Proceed(p, s) \/ (Send(p, s) /\ s \in {"LOAD", "SET"}),
             \/ KeepCache
             \/ PublishMiss(p)
             \/ Publish(p) /\ Found(p, pc[p]) /\ pc[p] # "SET"
      PROVE  Turn(p)
  <2>1. CASE KeepCache
    BY <1>1, <1>4, <1>5, <2>1
  <2>2. CASE PublishMiss(p)
    BY <1>1, <1>2, <1>4, <1>5, <2>2, SlotSteps DEF PublishMiss
  <2>3. CASE Publish(p) /\ Found(p, pc[p]) /\ pc[p] # "SET"
    <3>1. PICK d \in FillPuts(c, i, reply[p], p) : SetCache(Home[p], d)
      BY <2>3 DEF Publish
    <3>2. d \in CacheState
      BY <1>1, <2>3, <3>1, FillsType DEF Found
    <3>3. SlotStep(c, d, p)
      BY <1>1, <2>3, <3>1, FillsStep DEF Found
    <3>4. QED  BY <1>4, <1>5, <3>1, <3>2, <3>3
  <2>4. QED  BY <1>5, <2>1, <2>2, <2>3
<1>6. "done" \in Phases /\ "draft" \in Phases /\ "attempt" \in Phases /\ "SET" \in Phases
      /\ "LOAD" \in Phases /\ "READ" \in Phases /\ "CAS" \in Phases
  BY DEF Phases, Commands
<1>7. CASE GetFound(p) \/ GetNotFound(p)
  BY <1>5, <1>6, <1>7 DEF GetFound, GetNotFound, Found, Answered
<1>8. CASE SetDone(p)
  <2>1. PICK d \in Puts(c, i, reply[p]) : SetCache(Home[p], d)
    BY <1>8 DEF SetDone
  <2>2. Answered(p, pc[p]) /\ pc[p] = "SET" /\ reply[p] # NoSession
    BY <1>8 DEF SetDone, Answered, Held
  <2>3. d \in CacheState
    BY <1>1, <2>1, <2>2, PutsType
  <2>4. SlotStep(c, d, p)
    BY <1>1, <2>1, <2>2, PutsStep
  <2>5. QED  BY <1>4, <1>6, <1>8, <2>1, <2>3, <2>4 DEF SetDone
<1>9. CASE Attempt(p)
  <2>1. CASE KeepCache /\ Proceed(p, "done")
    BY <1>5, <1>6, <2>1
  <2>2. CASE SetCache(Home[p], BeginFill(c, i, p)) /\ Send(p, "READ")
    BY <1>1, <1>2, <1>3, <1>6, <2>2, SlotSteps, TurnBy
  <2>3. QED  BY <1>9, <2>1, <2>2 DEF Attempt
<1>10. CASE SubmitDraft(p)
  <2>1. SetCache(Home[p], BeginFill(Dropped(c, i), i, p)) /\ Send(p, "CAS")
    BY <1>10 DEF SubmitDraft
  <2>2. QED  BY <1>1, <1>2, <1>3, <1>6, <2>1, SlotSteps, TurnBy
<1>11. CASE ReadFound(p) \/ ReadNotFound(p)
  BY <1>5, <1>6, <1>11 DEF ReadFound, ReadNotFound, Found, Answered
<1>12. CASE CasCommitted(p) \/ CasConflict(p)
  BY <1>5, <1>6, <1>12 DEF CasCommitted, CasConflict, Found, Answered
<1>13. CASE TakeDone(p) \/ DelDone(p) \/ GiveUp(p)
  BY <1>5, <1>6, <1>13 DEF TakeDone, DelDone, GiveUp, Found, Answered
<1>14. CASE TouchFound(p) \/ TouchNotFound(p)
  BY <1>5, <1>6, <1>14 DEF TouchFound, TouchNotFound, Found, Answered
<1>15. CASE LoadDone(p) \/ RevalidateDone(p)
  BY <1>5, <1>6, <1>15 DEF LoadDone, RevalidateDone, Found, Answered
<1>16. QED  BY <1>7, <1>8, <1>9, <1>10, <1>11, <1>12, <1>13, <1>14, <1>15 DEF Resume
-----------------------------------------------------------------------------
(***************************************************************************)
(* Such a step preserves the invariant                                     *)
(***************************************************************************)

LEMMA TurnWires == ASSUME TypeOK, Wires, NEW p \in Calls, Turn(p) PROVE Wires'
<1>1. \A q \in Calls : p \notin ahead'[q]
  BY DEF Turn, Sends
<1>2. wire'[p] \in {"off", "sent"}
  BY DEF Turn, Sends
<1>3. \A q, r \in Calls : q # p /\ r \in ahead'[q] => r \in ahead[q] /\ r # p
  BY DEF Turn
<1>4. ASSUME NEW q \in Calls, NEW r \in Calls, r \in ahead'[q]
      PROVE  r # q /\ Home[r] = Home[q]
  <2>1. CASE q = p
    BY <1>4, <2>1 DEF Turn, Sends, InFlight
  <2>2. CASE q # p
    BY <1>3, <1>4, <2>2 DEF Wires
  <2>3. QED  BY <2>1, <2>2
<1>5. ASSUME NEW q \in Calls, NEW r \in Calls, r \in ahead'[q], wire'[q] = "executed"
      PROVE  wire'[r] # "sent"
  BY <1>2, <1>3, <1>5 DEF Wires, Turn
<1>6. ASSUME NEW q \in Calls, NEW r \in Calls, q # r, Home[q] = Home[r], Flying(q)', Flying(r)'
      PROVE  q \in ahead'[r] \/ r \in ahead'[q]
  <2>1. CASE q = p
    <3>1. Flying(r) /\ ahead'[p] = InFlight(Home[p]) \ {p}
      BY <1>6, <2>1 DEF Turn, Sends, Flying
    <3>2. QED  BY <1>6, <2>1, <3>1 DEF InFlight, Flying
  <2>2. CASE r = p
    <3>1. Flying(q) /\ ahead'[p] = InFlight(Home[p]) \ {p}
      BY <1>6, <2>2 DEF Turn, Sends, Flying
    <3>2. QED  BY <1>6, <2>2, <3>1 DEF InFlight, Flying
  <2>3. CASE q # p /\ r # p
    BY <1>6, <2>3 DEF Turn, Wires, Flying
  <2>4. QED  BY <2>1, <2>2, <2>3
<1>7. QED  BY <1>4, <1>5, <1>6 DEF Wires

\* What other calls know of their own commands.
LEMMA Others ==
    ASSUME NEW p \in Calls, Turn(p), NEW q \in Calls, wire'[q] = "executed"
    PROVE  /\ q # p /\ UNCHANGED <<pc[q], wire[q], reply[q]>> /\ ahead'[q] = ahead[q] \ {p}
  BY DEF Turn, Sends

LEMMA TurnNumbered == ASSUME TypeOK, Numbered, NEW p \in Calls, Turn(p) PROVE Numbered'
<1>1. \A q \in Calls : reply'[q] \in {reply[q], NoSession}
  BY DEF Turn
<1>2. ASSUME NEW n \in Nodes, NEW i \in Ids
      PROVE  shown'[n][i] <= writes[i]
  <2>1. shown'[n][i] \in {shown[n][i]} \/ (i = Target[p] /\ reply[p] # NoSession /\ shown'[n][i] = reply[p].ver)
    BY DEF Turn, Holds, Puttable
  <2>2. QED  BY <2>1 DEF Numbered
<1>3. QED  BY <1>1, <1>2 DEF Numbered, Turn

LEMMA TurnInOrder == ASSUME InOrder, NEW p \in Calls, Turn(p) PROVE InOrder'
<1> SUFFICES ASSUME NEW q \in Calls, NEW r \in Calls, r \in ahead'[q], Target[q] = Target[r],
                    wire'[q] = "executed", wire'[r] = "executed",
                    reply'[q] # NoSession, reply'[r] # NoSession
             PROVE  reply'[r].ver <= reply'[q].ver
  BY DEF InOrder
<1>1. /\ r \in ahead[q] /\ wire[q] = "executed" /\ wire[r] = "executed"
      /\ reply'[q] = reply[q] /\ reply'[r] = reply[r]
  BY Others
<1>2. QED  BY <1>1 DEF InOrder

LEMMA KnownType == ASSUME TypeOK, NEW i \in Ids PROVE Known(i) \subseteq Record \cup {NoSession}
<1>1. \A n \in Nodes : cache[n].sess[i] \in Record \cup {NoSession}
  BY DEF TypeOK, CacheState
<1>2. QED  BY <1>1 DEF TypeOK, Known

\* A step after which nothing is known but what was, and a record w that no
\* record of its incarnation is newer than, keeps the known records ranked.
LEMMA KnownRanked ==
    ASSUME TypeOK, Ranked, NEW w \in Record \cup {NoSession},
           \A i \in Ids : \A a \in Known(i)' : a \in Known(i) \cup {NoSession} \/ a = w,
           \A i \in Ids : w # NoSession /\ w \in Known(i)' => w \in Known(i) \/
               \A a \in Known(i) : a # NoSession /\ a.created = w.created => a.rev <= w.rev /\ a.ver <= w.ver
    PROVE  Ranked'
<1> SUFFICES ASSUME NEW i \in Ids, NEW a \in Known(i)', NEW b \in Known(i)',
                    a # NoSession, b # NoSession, a.created = b.created, a.rev > b.rev
             PROVE  a.ver >= b.ver
  BY DEF Ranked
<1>1. a \in Record /\ b \in Record
  BY KnownType
<1>2. a.rev \in Nat /\ b.rev \in Nat /\ a.ver \in Nat /\ b.ver \in Nat
  BY <1>1 DEF Record
<1>3. CASE a \in Known(i) /\ b \in Known(i)
  BY <1>3 DEF Ranked
<1>4. CASE a = w /\ b = w
  BY <1>2, <1>4
<1>5. CASE a = w /\ a \notin Known(i) /\ b \in Known(i)
  <2>1. b.ver <= w.ver
    BY <1>5
  <2>2. QED  BY <1>2, <1>5, <2>1
<1>6. CASE b = w /\ b \notin Known(i) /\ a \in Known(i)
  <2>1. a.rev <= w.rev
    BY <1>6
  <2>2. QED  BY <1>2, <1>6, <2>1
<1>7. QED  BY <1>3, <1>4, <1>5, <1>6

LEMMA TurnRanked == ASSUME TypeOK, Ranked, NEW p \in Calls, Turn(p) PROVE Ranked'
<1>1. ASSUME NEW i \in Ids, NEW a \in Known(i)'
      PROVE  a \in Known(i) \cup {NoSession}
  <2>1. CASE a = store'[i]
    BY <2>1 DEF Known, Turn
  <2>2. ASSUME NEW q \in Calls, Target[q] = i, a = reply'[q]
        PROVE  a \in Known(i) \cup {NoSession}
    BY <2>2 DEF Known, Turn
  <2>3. ASSUME NEW n \in Nodes, a = cache'[n].sess[i]
        PROVE  a \in Known(i) \cup {NoSession}
    <3>1. a \in {cache[n].sess[i], NoSession} \/ (i = Target[p] /\ a = reply[p])
      BY <2>3 DEF Turn, Holds, Puttable
    <3>2. QED  BY <3>1 DEF Known
  <2>4. QED  BY <2>1, <2>2, <2>3 DEF Known
<1>2. QED  BY <1>1, KnownRanked

LEMMA TurnClaims == ASSUME TypeOK, Claims, NEW p \in Calls, Turn(p) PROVE Claims'
<1> SUFFICES ASSUME NEW q \in Calls, NEW r \in Calls, q \in ahead'[r], Target[q] = Target[r], Owns(q)'
             PROVE  pc'[r] \in {"LOAD", "SET"}
  BY DEF Claims
<1>1. q # p
  BY DEF Turn, Sends
<1>2. q # NoOwner /\ Home[q] \in Nodes /\ Target[q] \in Ids
  BY ConstantsOK
<1>3. Owns(q)
  BY <1>1, <1>2 DEF Owns, Slots, Turn, Owners
<1>4. CASE r # p
  BY <1>3, <1>4 DEF Turn, Claims
<1>5. CASE r = p
  <2>1. Home[q] = Home[p] /\ Sends(p)
    BY <1>5 DEF Turn, Sends, InFlight
  <2>2. cache'[Home[p]].owner[Target[p]] = q
    BY <1>5, <2>1 DEF Owns, Slots
  <2>3. QED  BY <1>1, <1>2, <1>5, <2>1, <2>2 DEF Sends
<1>6. QED  BY <1>4, <1>5

\* What p puts into a slot is not newer than the answer of any other call that
\* owns the slot afterwards, or is still storing a session into it.
LEMMA PutsNoNewer ==
    ASSUME TypeOK, Wires, InOrder, Claims, NEW p \in Calls, Turn(p),
           NEW f \in Calls, f # p, wire[f] = "executed", reply[f] # NoSession,
           Home[f] = Home[p], Target[f] = Target[p],
           Owns(f)' \/ pc[f] = "SET",
           Puttable(Slots(p), Slots(p)', p)
    PROVE  reply[p].ver <= reply[f].ver
<1>1. wire[p] = "executed" /\ reply[p] # NoSession /\ \A q \in ahead[p] : Overtakes(pc[p], pc[q])
  BY DEF Puttable, Answered
<1>2. CASE p \in ahead[f]
  BY <1>1, <1>2 DEF InOrder
<1>3. CASE f \in ahead[p]
  <2>1. pc[p] \notin Deep /\ pc[f] \in Deep \cup {"TAKE"}
    BY <1>1, <1>3 DEF Overtakes
  <2>2. Owns(f)'
    BY <2>1 DEF Deep
  <2>3. f # NoOwner /\ Home[f] \in Nodes /\ Target[f] \in Ids
    BY ConstantsOK
  <2>4. Owns(f)
    BY <2>2, <2>3 DEF Owns, Slots, Turn, Owners
  <2>5. pc[p] = "SET"
    BY <1>3, <2>1, <2>4 DEF Claims, Deep
  <2>6. cache'[Home[p]].owner[Target[p]] = NoOwner
    BY <2>5 DEF Puttable, Slots
  <2>7. QED  BY <2>2, <2>3, <2>6 DEF Owns, Slots
<1>4. QED  BY <1>1, <1>2, <1>3 DEF Wires, Flying

LEMMA TurnCurrent ==
    ASSUME TypeOK, Wires, InOrder, Claims, Current, NEW p \in Calls, Turn(p)
    PROVE  Current'
<1> SUFFICES ASSUME NEW f \in Calls, wire'[f] = "executed", reply'[f] # NoSession,
                    Owns(f)' \/ pc'[f] = "SET"
             PROVE  /\ reply'[f].ver >= shown'[Home[f]][Target[f]]
                    /\ reply'[f].ver >= buried'[Home[f]][Target[f]]
  BY DEF Current
<1>1. f # p /\ pc'[f] = pc[f] /\ wire[f] = "executed" /\ reply'[f] = reply[f]
  BY Others
<1>2. f # NoOwner /\ Home[f] \in Nodes /\ Target[f] \in Ids
  BY ConstantsOK
<1>3. Owns(f) \/ pc[f] = "SET"
  BY <1>1, <1>2 DEF Owns, Slots, Turn, Owners
<1>4. /\ reply[f].ver >= shown[Home[f]][Target[f]]
      /\ reply[f].ver >= buried[Home[f]][Target[f]]
  BY <1>1, <1>3 DEF Current
<1>5. CASE shown'[Home[f]][Target[f]] = shown[Home[f]][Target[f]]
  BY <1>1, <1>4, <1>5 DEF Turn
<1>6. CASE shown'[Home[f]][Target[f]] # shown[Home[f]][Target[f]]
  <2>1. /\ Home[f] = Home[p] /\ Target[f] = Target[p]
        /\ Puttable(Slots(p), Slots(p)', p)
        /\ shown'[Home[f]][Target[f]] = reply[p].ver
    BY <1>2, <1>6 DEF Turn, Holds, Slots
  <2>2. reply[p].ver <= reply[f].ver
    BY <1>1, <2>1, PutsNoNewer
  <2>3. reply[p].ver \in Nat /\ reply[f].ver \in Nat
    BY <1>1, <2>1 DEF Puttable, TypeOK, Record
  <2>4. QED  BY <1>1, <1>4, <2>1, <2>2, <2>3 DEF Turn
<1>7. QED  BY <1>5, <1>6

LEMMA TurnEndsAlone ==
    ASSUME TypeOK, Wires, EndsAlone, NEW p \in Calls, Turn(p)
    PROVE  EndsAlone'
<1> SUFFICES ASSUME NEW d \in Calls, pc'[d] = "DEL", Flying(d)'
             PROVE  /\ Slots(d)'.sess[Target[d]] = NoSession
                    /\ \A q \in Calls :
                          /\ q # d /\ Home[q] = Home[d] /\ Target[q] = Target[d]
                          /\ Flying(q)' /\ (Owns(q)' \/ pc'[q] = "SET")
                          => d \in ahead'[q]
  BY DEF EndsAlone
<1>1. Home \in [Calls -> Nodes] /\ Target \in [Calls -> Ids] /\ NoOwner \notin Calls
  BY ConstantsOK
<1>2. CASE d = p
  <2>1. DeletesAlone(p)
    BY <1>2 DEF Turn, Sends, Flying
  <2>2. \A q \in Calls : Home[q] = Home[p] /\ Target[q] = Target[p] => ~Owns(q)'
    BY <1>1, <2>1 DEF DeletesAlone, Owns, Slots
  <2>3. \A q \in Calls : q # p /\ Target[q] = Target[p] => pc'[q] # "SET"
    BY <2>1 DEF DeletesAlone, Turn
  <2>4. QED  BY <1>2, <2>1, <2>2, <2>3 DEF DeletesAlone, Slots
<1>3. CASE d # p
  <2>1. pc[d] = "DEL" /\ Flying(d)
    BY <1>3 DEF Turn, Flying
  <2>2. Slots(d).sess[Target[d]] = NoSession
    BY <2>1 DEF EndsAlone
  <2>3. ~(Home[p] = Home[d] /\ Target[p] = Target[d] /\ Puttable(Slots(p), Slots(p)', p))
    <3>1. SUFFICES ASSUME Home[p] = Home[d], Target[p] = Target[d], Puttable(Slots(p), Slots(p)', p)
                   PROVE  FALSE
      OBVIOUS
    <3>2. Flying(p) /\ d \notin ahead[p]
      BY <2>1, <3>1 DEF Puttable, Answered, Overtakes, Deep, Flying
    <3>3. Slots(p).sess[Target[p]] = NoSession
      BY <2>2, <3>1 DEF Slots
    <3>4. Owns(p) \/ pc[p] = "SET"
      BY <3>1, <3>3 DEF Puttable, Owns
    <3>5. QED  BY <1>3, <2>1, <3>1, <3>2, <3>4 DEF EndsAlone
  <2>4. Slots(d)'.sess[Target[d]] = NoSession
    <3>1. Holds(Home[d], Target[d], p)
      BY <1>1 DEF Turn
    <3>2. cache[Home[d]].sess[Target[d]] = NoSession
      BY <2>2 DEF Slots
    <3>3. QED  BY <2>3, <3>1, <3>2 DEF Holds, Slots
  <2>5. ASSUME NEW q \in Calls, q # d, Home[q] = Home[d], Target[q] = Target[d],
               Flying(q)', Owns(q)' \/ pc'[q] = "SET"
        PROVE  d \in ahead'[q]
    <3>1. CASE q = p
      BY <1>3, <2>1, <2>5, <3>1 DEF Turn, Sends, Flying, InFlight
    <3>2. CASE q # p
      <4>1. Owns(q) \/ pc[q] = "SET"
        BY <1>1, <2>5, <3>2 DEF Owns, Slots, Turn, Owners
      <4>2. Flying(q)
        BY <2>5, <3>2 DEF Turn, Flying
      <4>3. d \in ahead[q]
        BY <2>1, <2>5, <4>1, <4>2 DEF EndsAlone
      <4>4. QED  BY <1>3, <3>2, <4>3 DEF Turn
    <3>3. QED  BY <3>1, <3>2
  <2>6. QED  BY <2>4, <2>5
<1>4. QED  BY <1>2, <1>3

LEMMA TurnLatest ==
    ASSUME TypeOK, Ranked, Current, Latest, NEW p \in Calls, Turn(p)
    PROVE  Latest'
<1> SUFFICES ASSUME NEW n \in Nodes, NEW i \in Ids, cache'[n].sess[i] # NoSession
             PROVE  /\ cache'[n].sess[i].ver = shown'[n][i]
                    /\ cache'[n].sess[i].ver >= buried[n][i]
  BY DEF Latest, Turn
<1>1. CASE cache'[n].sess[i] \in {cache[n].sess[i], NoSession} /\ shown'[n][i] = shown[n][i]
  BY <1>1 DEF Latest
<1>2. CASE /\ n = Home[p] /\ i = Target[p] /\ Puttable(cache[n], cache'[n], p)
           /\ shown'[n][i] = IF reply[p].ver > shown[n][i] THEN reply[p].ver ELSE shown[n][i]
  <2>1. cache'[n].sess[i] = reply[p] /\ reply[p] # NoSession /\ wire[p] = "executed"
    BY <1>2 DEF Puttable, Answered
  <2>2. reply[p] \in Record /\ reply[p].ver \in Nat /\ shown[n][i] \in Nat /\ buried[n][i] \in Nat
    BY <2>1 DEF TypeOK, Record
  <2>3. reply[p].ver >= shown[n][i] /\ reply[p].ver >= buried[n][i]
    <3>1. CASE cache[n].owner[i] = p \/ pc[p] = "SET"
      BY <1>2, <2>1, <3>1 DEF Current, Owns, Slots
    <3>2. CASE cache[n].sess[i] # NoSession /\ Supersedes(reply[p], cache[n].sess[i])
      <4>1. reply[p] \in Known(i) /\ cache[n].sess[i] \in Known(i)
        BY <1>2 DEF Known
      <4>2. reply[p].ver >= cache[n].sess[i].ver
        BY <2>1, <3>2, <4>1 DEF Ranked, Supersedes
      <4>3. cache[n].sess[i].ver = shown[n][i] /\ cache[n].sess[i].ver >= buried[n][i]
        BY <3>2 DEF Latest
      <4>4. QED  BY <2>2, <4>2, <4>3
    <3>3. QED  BY <1>2, <3>1, <3>2 DEF Puttable
  <2>4. QED  BY <1>2, <2>1, <2>2, <2>3
<1>3. QED  BY <1>1, <1>2 DEF Turn, Holds

LEMMA TurnOrder == ASSUME TypeOK, Order, NEW p \in Calls, Turn(p) PROVE Order'
  BY TurnWires, TurnNumbered, TurnInOrder, TurnRanked, TurnClaims, TurnCurrent, TurnEndsAlone, TurnLatest
     DEF Order
-----------------------------------------------------------------------------
(***************************************************************************)
(* Executing a command                                                     *)
(***************************************************************************)

\* Valkey executes p's command: nothing else changes but store, writes, buried.
Ran(p) ==
    /\ UNCHANGED <<pc, cache, ahead, shown>>
    /\ wire[p] = "sent" /\ \A q \in ahead[p] : wire[q] # "sent"
    /\ wire'[p] = "executed"
    /\ \A q \in Calls \ {p} : UNCHANGED <<wire[q], reply[q]>>

\* It answers what is stored, or nothing, ...
Reads(p) ==
    /\ UNCHANGED <<store, writes, buried>>
    /\ reply'[p] \in {store[Target[p]], NoSession}

\* ... or stores its answer, the newest record of its incarnation, ...
Stores(p) ==
    /\ reply'[p] \in Record
    /\ store' = [store EXCEPT ![Target[p]] = reply'[p]]
    /\ writes' = [writes EXCEPT ![Target[p]] = @ + 1]
    /\ reply'[p].ver = writes[Target[p]] + 1
    /\ UNCHANGED buried
    /\ \A a \in Known(Target[p]) :
          a # NoSession /\ a.created = reply'[p].created => a.rev <= reply'[p].rev

\* ... or removes the record.
Removes(p) ==
    /\ pc[p] = "DEL"
    /\ reply'[p] = NoSession
    /\ store' = [store EXCEPT ![Target[p]] = NoSession]
    /\ buried' = [buried EXCEPT ![Home[p]][Target[p]] = writes[Target[p]] + 1]
    /\ UNCHANGED writes

LEMMA RanBy ==
    ASSUME TypeOK, NEW p \in Calls, NEW r, Executed(p, r),
           wire[p] = "sent", \A q \in ahead[p] : wire[q] # "sent"
    PROVE  Ran(p) /\ reply'[p] = r
  BY DEF TypeOK, Executed, Ran, callVars

\* A mutation of the stored record is newer than what anyone knows of it.
LEMMA NewestMutation ==
    ASSUME IInv, Shadows, NEW p \in Calls, store[Target[p]] # NoSession,
           NEW w \in Record, w.created = store[Target[p]].created, w.rev > store[Target[p]].rev,
           NEW a \in Known(Target[p]), a # NoSession, a.created = w.created
    PROVE  a.rev <= w.rev
<1>1. TypeOK /\ Target[p] \in Ids
  BY ConstantsOK DEF IInv
<1>2. a \in Record /\ store[Target[p]] \in Record
  BY <1>1, KnownType DEF TypeOK
<1>3. Behind(a, store[Target[p]])
  <2>1. CASE a = store[Target[p]]
    BY <1>2, <2>1 DEF Behind, Record
  <2>2. ASSUME NEW q \in Calls, Target[q] = Target[p], a = reply[q]
        PROVE  Behind(a, store[Target[p]])
    BY <2>2 DEF IInv, HeldBehind
  <2>3. ASSUME NEW n \in Nodes, a = cache[n].sess[Target[p]]
        PROVE  Behind(a, store[Target[p]])
    BY <1>1, <2>3 DEF Shadows, Mirrored
  <2>4. QED  BY <2>1, <2>2, <2>3 DEF Known
<1>4. a.rev <= store[Target[p]].rev
  BY <1>3 DEF Behind
<1>5. QED  BY <1>2, <1>4 DEF Record

\* Nobody knows a session that p has not stored.
LEMMA NewestBirth ==
    ASSUME IInv, Shadows, NEW p \in Calls, Unborn(p), NEW a \in Known(Target[p]), a # NoSession
    PROVE  a.created # p
<1>1. Target[p] \in Ids
  BY ConstantsOK
<1>2. QED  BY <1>1 DEF Known, IInv, UnbornUnknown, Shadows, Mirrored, NotFrom

LEMMA ExecRan ==
    ASSUME IInv, Shadows, NEW p \in Calls, Exec(p)
    PROVE  Ran(p) /\ (Reads(p) \/ Stores(p) \/ Removes(p))
<1> DEFINE i == Target[p]
           cur == store[i]
<1>1. TypeOK /\ Held /\ i \in Ids /\ writes[i] + 1 \in Nat
  BY ConstantsOK DEF IInv, TypeOK
<1>2. wire[p] = "sent" /\ \A q \in ahead[p] : wire[q] # "sent"
  BY DEF Exec, ExecRead, ExecCas, ExecTake, ExecDel, ExecSet, NextToRun
<1>3. ASSUME Refused(p), UNCHANGED buried
      PROVE  Ran(p) /\ Reads(p)
  BY <1>1, <1>2, <1>3, RanBy DEF Refused, Reads
<1>4. ASSUME NEW r \in Record, Write(p, r), UNCHANGED buried,
             \/ Unborn(p) /\ r.created = p
             \/ cur # NoSession /\ r.created = cur.created /\ r.rev > cur.rev
      PROVE  Ran(p) /\ Stores(p)
  <2> DEFINE w == [r EXCEPT !.ver = writes[i] + 1]
  <2>1. w \in Record /\ w.created = r.created /\ w.rev = r.rev /\ w.ver = writes[i] + 1
    BY <1>1 DEF Record
  <2>2. /\ Executed(p, w) /\ store' = [store EXCEPT ![i] = w]
        /\ writes' = [writes EXCEPT ![i] = @ + 1]
    BY <1>4 DEF Write
  <2> HIDE DEF w
  <2>3. Ran(p) /\ reply'[p] = w
    BY <1>1, <1>2, <2>2, RanBy
  <2>4. ASSUME NEW a \in Known(i), a # NoSession, a.created = w.created
        PROVE  a.rev <= w.rev
    BY <1>4, <2>1, <2>4, NewestMutation, NewestBirth
  <2>5. QED  BY <1>4, <2>1, <2>2, <2>3, <2>4 DEF Stores
<1>5. CASE ExecRead(p)
  <2>1. Executed(p, cur) /\ UNCHANGED <<store, writes, buried>>
    BY <1>5 DEF ExecRead
  <2>2. QED  BY <1>1, <1>2, <2>1, RanBy DEF Reads
<1>6. CASE ExecCas(p)
  <2> DEFINE w == [snap[p] EXCEPT !.rev = @ + 1, !.log = @ \cup {p}]
  <2>1. snap[p] \in Record /\ UNCHANGED buried
    BY <1>1, <1>6 DEF ExecCas, NextToRun, Held, TypeOK
  <2>2. CASE CasMatches(cur, snap[p]) /\ Write(p, w)
    <3>1. cur = snap[p] /\ cur # NoSession
      BY <2>1, <2>2, NoSessionOK DEF CasMatches, IInv, HeldBehind, Behind
    <3>2. w \in Record /\ w.created = snap[p].created /\ w.rev > snap[p].rev
      BY <2>1, MutatedType
    <3> HIDE DEF w
    <3>3. QED  BY <1>4, <2>1, <2>2, <3>1, <3>2
  <2>3. CASE Refused(p)
    BY <1>3, <2>1, <2>3
  <2>4. QED  BY <1>6, <2>2, <2>3 DEF ExecCas
<1>7. CASE ExecTake(p)
  <2> DEFINE w == [cur EXCEPT !.rev = @ + 1, !.tok = FALSE, !.log = @ \cup {p}]
  <2>1. CASE HoldsToken(cur) /\ Write(p, w)
    <3>1. cur \in Record /\ cur # NoSession
      BY <1>1, <2>1 DEF HoldsToken, TypeOK
    <3>2. w \in Record /\ w.created = cur.created /\ w.rev > cur.rev
      BY <3>1, MutatedType
    <3> HIDE DEF w
    <3>3. QED  BY <1>4, <1>7, <2>1, <3>1, <3>2 DEF ExecTake
  <2>2. CASE Refused(p)
    BY <1>3, <1>7, <2>2 DEF ExecTake
  <2>3. QED  BY <1>7, <2>1, <2>2 DEF ExecTake
<1>8. CASE ExecDel(p)
  <2>1. Executed(p, NoSession) /\ pc[p] = "DEL"
    BY <1>8 DEF ExecDel, NextToRun
  <2>2. QED  BY <1>1, <1>2, <1>8, <2>1, RanBy DEF ExecDel, Removes
<1>9. CASE ExecSet(p)
  <2> DEFINE r == [FirstRecord EXCEPT !.created = p]
  <2>1. r \in Record /\ r.created = p
    BY DEF FirstRecord, Record, Births
  <2>2. Write(p, r) /\ Unborn(p) /\ UNCHANGED buried
    BY <1>9 DEF ExecSet, NextToRun, Unborn
  <2> HIDE DEF r
  <2>3. QED  BY <1>4, <2>1, <2>2
<1>10. QED  BY <1>5, <1>6, <1>7, <1>8, <1>9 DEF Exec

\* An executed command's answer is as new as any the store has given.
LEMMA RanNewest ==
    ASSUME TypeOK, Numbered, NEW p \in Calls, Reads(p) \/ Stores(p) \/ Removes(p)
    PROVE  /\ reply'[p] # NoSession => reply'[p].ver = writes'[Target[p]]
           /\ \A i \in Ids : writes'[i] \in Nat /\ writes'[i] >= writes[i]
<1>1. Target[p] \in Ids /\ \A i \in Ids : writes[i] \in Nat
  BY ConstantsOK DEF TypeOK
<1>2. CASE Reads(p)
  BY <1>1, <1>2 DEF Reads, Numbered
<1>3. CASE Stores(p)
  <2>1. \A i \in Ids : writes'[i] = IF i = Target[p] THEN writes[i] + 1 ELSE writes[i]
    BY <1>1, <1>3 DEF Stores, TypeOK
  <2>2. QED  BY <1>1, <1>3, <2>1 DEF Stores
<1>4. CASE Removes(p)
  BY <1>1, <1>4 DEF Removes
<1>5. QED  BY <1>2, <1>3, <1>4

LEMMA RanNumbered ==
    ASSUME TypeOK, Numbered, NEW p \in Calls, Ran(p), Reads(p) \/ Stores(p) \/ Removes(p)
    PROVE  Numbered'
<1> USE DEF Numbered
<1>1. /\ Target[p] \in Ids /\ Home[p] \in Nodes
      /\ \A i \in Ids : writes[i] \in Nat
      /\ \A n \in Nodes, i \in Ids : shown[n][i] \in Nat /\ buried[n][i] \in Nat
  BY ConstantsOK DEF TypeOK
<1>2. ASSUME NEW i \in Ids, store'[i] # NoSession
      PROVE  store'[i].ver = writes'[i]
  <2>1. CASE Reads(p)
    BY <1>2, <2>1 DEF Reads
  <2>2. CASE Stores(p)
    BY <1>1, <1>2, <2>2 DEF Stores, TypeOK
  <2>3. CASE Removes(p)
    BY <1>1, <1>2, <2>3 DEF Removes, TypeOK
  <2>4. QED  BY <2>1, <2>2, <2>3
<1>3. ASSUME NEW n \in Nodes, NEW i \in Ids
      PROVE  /\ shown'[n][i] <= writes'[i] /\ buried'[n][i] <= writes'[i] + 1
             /\ store'[i] # NoSession => store'[i].ver >= buried'[n][i]
  <2>1. shown'[n][i] <= writes'[i]
    BY <1>1, RanNewest DEF Ran
  <2>2. CASE Reads(p)
    BY <2>1, <2>2 DEF Reads
  <2>3. CASE Stores(p)
    <3>1. writes'[i] = (IF i = Target[p] THEN writes[i] + 1 ELSE writes[i]) /\ buried' = buried
      BY <1>1, <2>3 DEF Stores, TypeOK
    <3>2. i # Target[p] => store'[i] = store[i]
      BY <1>1, <2>3 DEF Stores, TypeOK
    <3>3. store'[i] # NoSession => store'[i].ver >= buried[n][i]
      BY <1>1, <1>2, <3>1, <3>2
    <3>4. QED  BY <1>1, <2>1, <3>1, <3>3
  <2>4. CASE Removes(p)
    <3>1. buried'[n][i] = IF n = Home[p] /\ i = Target[p] THEN writes[i] + 1 ELSE buried[n][i]
      BY <1>1, <2>4 DEF Removes, TypeOK
    <3>2. store'[i] = IF i = Target[p] THEN NoSession ELSE store[i]
      BY <1>1, <2>4 DEF Removes, TypeOK
    <3>3. QED  BY <1>1, <2>1, <2>4, <3>1, <3>2 DEF Removes
  <2>5. QED  BY <2>2, <2>3, <2>4
<1>4. ASSUME NEW q \in Calls, reply'[q] # NoSession
      PROVE  reply'[q].ver <= writes'[Target[q]]
  <2>1. Target[q] \in Ids
    BY ConstantsOK
  <2>2. CASE q = p
    BY <1>1, <1>4, <2>2, RanNewest
  <2>3. CASE q # p
    <3>1. reply'[q] = reply[q] /\ reply[q].ver \in Nat
      BY <1>4, <2>3 DEF Ran, TypeOK, Record
    <3>2. QED  BY <1>1, <1>4, <2>1, <3>1, RanNewest
  <2>4. QED  BY <2>2, <2>3
<1>5. QED  BY <1>2, <1>3, <1>4

LEMMA RanWires == ASSUME Wires, NEW p \in Calls, Ran(p) PROVE Wires'
<1>1. \A q \in Calls : Flying(q)' = Flying(q)
  BY DEF Ran, Flying
<1>2. \A q, r \in Calls : r \in ahead[q] /\ wire'[q] = "executed" => wire'[r] # "sent"
  BY DEF Wires, Ran
<1>3. QED  BY <1>1, <1>2 DEF Wires, Ran

LEMMA RanInOrder ==
    ASSUME TypeOK, Wires, Numbered, InOrder, NEW p \in Calls, Ran(p),
           Reads(p) \/ Stores(p) \/ Removes(p)
    PROVE  InOrder'
<1> SUFFICES ASSUME NEW q \in Calls, NEW r \in Calls, r \in ahead[q], Target[q] = Target[r],
                    wire'[q] = "executed", wire'[r] = "executed",
                    reply'[q] # NoSession, reply'[r] # NoSession
             PROVE  reply'[r].ver <= reply'[q].ver
  BY DEF InOrder, Ran
<1>1. CASE q = p
  <2>1. r # p /\ reply'[r] = reply[r] /\ Target[r] \in Ids
    BY <1>1, ConstantsOK DEF Wires, Ran
  <2>2. reply[r].ver <= writes[Target[r]] /\ reply[r].ver \in Nat /\ writes[Target[r]] \in Nat
    BY <2>1 DEF Numbered, TypeOK, Record
  <2>3. QED  BY <1>1, <2>1, <2>2, RanNewest
<1>2. CASE q # p
  BY <1>2 DEF InOrder, Wires, Ran
<1>3. QED  BY <1>1, <1>2

LEMMA RanRanked ==
    ASSUME TypeOK, TypeOK', Numbered, Ranked, NEW p \in Calls, Ran(p),
           Reads(p) \/ Stores(p) \/ Removes(p), Latest
    PROVE  Ranked'
<1>1. Target[p] \in Ids /\ reply'[p] \in Record \cup {NoSession}
  BY ConstantsOK DEF TypeOK
<1>2. ASSUME NEW i \in Ids, NEW a \in Known(i)'
      PROVE  a \in Known(i) \cup {NoSession} \/ a = reply'[p]
  <2>1. CASE a = store'[i]
    BY <1>1, <2>1 DEF Known, Reads, Stores, Removes, TypeOK
  <2>2. ASSUME NEW q \in Calls, Target[q] = i, a = reply'[q]
        PROVE  a \in Known(i) \/ a = reply'[p]
    BY <2>2 DEF Known, Ran
  <2>3. ASSUME NEW n \in Nodes, a = cache'[n].sess[i]
        PROVE  a \in Known(i)
    BY <2>3 DEF Known, Ran
  <2>4. QED  BY <2>1, <2>2, <2>3 DEF Known
<1>3. ASSUME NEW i \in Ids, NEW a \in Known(i), a # NoSession
      PROVE  a.ver <= writes[i]
  <2>1. CASE a = store[i]
    BY <1>3, <2>1 DEF Numbered, TypeOK
  <2>2. ASSUME NEW q \in Calls, Target[q] = i, a = reply[q]
        PROVE  a.ver <= writes[i]
    BY <1>3, <2>2 DEF Numbered
  <2>3. ASSUME NEW n \in Nodes, a = cache[n].sess[i]
        PROVE  a.ver <= writes[i]
    BY <1>3, <2>3 DEF Numbered, Latest
  <2>4. QED  BY <2>1, <2>2, <2>3 DEF Known
<1>4. ASSUME NEW i \in Ids, reply'[p] # NoSession, reply'[p] \in Known(i)'
      PROVE  reply'[p] \in Known(i) \/
               \A a \in Known(i) : a # NoSession /\ a.created = reply'[p].created
                   => a.rev <= reply'[p].rev /\ a.ver <= reply'[p].ver
  <2>1. CASE Reads(p)
    <3>1. i = Target[p] => reply'[p] \in Known(i)
      BY <1>4, <2>1 DEF Reads, Known
    <3>2. i # Target[p] => Known(i)' \subseteq Known(i)
      BY <2>1 DEF Reads, Known, Ran
    <3>3. QED  BY <1>4, <3>1, <3>2
  <2>2. CASE Stores(p)
    <3>1. CASE i = Target[p]
      <4>1. \A a \in Known(i) : a # NoSession => a.ver \in Nat /\ a.ver <= writes[i]
        BY <1>3, KnownType DEF Record
      <4>2. QED  BY <2>2, <3>1, <4>1 DEF Stores, TypeOK
    <3>2. CASE i # Target[p]
      <4>1. Known(i)' \subseteq Known(i)
        BY <1>1, <2>2, <3>2 DEF Stores, Known, Ran, TypeOK
      <4>2. QED  BY <1>4, <4>1
    <3>3. QED  BY <3>1, <3>2
  <2>3. CASE Removes(p)
    BY <1>4, <2>3 DEF Removes
  <2>4. QED  BY <2>1, <2>2, <2>3
<1>5. QED  BY <1>1, <1>2, <1>4, KnownRanked

LEMMA RanCurrent ==
    ASSUME TypeOK, Wires, Numbered, Current, EndsAlone, NEW p \in Calls, Ran(p),
           Reads(p) \/ Stores(p) \/ Removes(p)
    PROVE  Current'
<1> SUFFICES ASSUME NEW f \in Calls, wire'[f] = "executed", reply'[f] # NoSession,
                    Owns(f) \/ pc[f] = "SET"
             PROVE  /\ reply'[f].ver >= shown[Home[f]][Target[f]]
                    /\ reply'[f].ver >= buried'[Home[f]][Target[f]]
  BY DEF Current, Ran, Owns, Slots
<1>1. Home \in [Calls -> Nodes] /\ Target \in [Calls -> Ids]
  BY ConstantsOK
<1>2. CASE f = p
  <2>1. reply'[p].ver = writes'[Target[p]] /\ writes'[Target[p]] \in Nat
    BY <1>1, <1>2, RanNewest
  <2>2. shown[Home[p]][Target[p]] <= writes'[Target[p]]
    BY <1>1, RanNumbered DEF Numbered, Ran
  <2>3. buried'[Home[p]][Target[p]] <= writes'[Target[p]]
    <3>1. CASE Reads(p)
      BY <1>1, <1>2, <2>1, <3>1 DEF Reads, Numbered
    <3>2. CASE Stores(p)
      BY <1>1, <3>2 DEF Stores, Numbered, TypeOK
    <3>3. CASE Removes(p)
      BY <1>2, <3>3 DEF Removes
    <3>4. QED  BY <3>1, <3>2, <3>3
  <2>4. buried'[Home[p]][Target[p]] \in Nat /\ shown[Home[p]][Target[p]] \in Nat
    BY <1>1, <1>2 DEF TypeOK, Reads, Stores, Removes
  <2>5. QED  BY <1>2, <2>1, <2>2, <2>3, <2>4
<1>3. CASE f # p
  <2>1. wire[f] = "executed" /\ reply'[f] = reply[f]
    BY <1>3 DEF Ran
  <2>2. /\ reply[f].ver >= shown[Home[f]][Target[f]]
        /\ reply[f].ver >= buried[Home[f]][Target[f]]
    BY <2>1 DEF Current
  <2>3. buried'[Home[f]][Target[f]] = buried[Home[f]][Target[f]]
    <3>1. CASE ~Removes(p)
      BY <3>1 DEF Reads, Stores
    <3>2. CASE Removes(p) /\ ~(Home[f] = Home[p] /\ Target[f] = Target[p])
      BY <1>1, <3>2 DEF Removes, TypeOK
    <3>3. CASE Removes(p) /\ Home[f] = Home[p] /\ Target[f] = Target[p]
      <4>1. Flying(p) /\ Flying(f) /\ pc[p] = "DEL"
        BY <2>1, <3>3 DEF Flying, Ran, Removes
      <4>2. p \in ahead[f]
        BY <1>3, <3>3, <4>1 DEF EndsAlone
      <4>3. QED  BY <2>1, <4>2 DEF Wires, Ran
    <3>4. QED  BY <3>1, <3>2, <3>3
  <2>4. QED  BY <2>1, <2>2, <2>3
<1>4. QED  BY <1>2, <1>3

LEMMA RanLatest ==
    ASSUME TypeOK, Latest, EndsAlone, NEW p \in Calls, Ran(p),
           Reads(p) \/ Stores(p) \/ Removes(p)
    PROVE  Latest'
<1> SUFFICES ASSUME NEW n \in Nodes, NEW i \in Ids, cache[n].sess[i] # NoSession
             PROVE  /\ cache[n].sess[i].ver = shown[n][i]
                    /\ cache[n].sess[i].ver >= buried'[n][i]
  BY DEF Latest, Ran
<1>1. Home[p] \in Nodes /\ Target[p] \in Ids
  BY ConstantsOK
<1>2. buried'[n][i] = buried[n][i]
  <2>1. CASE ~Removes(p)
    BY <2>1 DEF Reads, Stores
  <2>2. CASE Removes(p) /\ ~(n = Home[p] /\ i = Target[p])
    BY <1>1, <2>2 DEF Removes, TypeOK
  <2>3. CASE Removes(p) /\ n = Home[p] /\ i = Target[p]
    <3>1. Slots(p).sess[Target[p]] = NoSession
      BY <2>3 DEF EndsAlone, Removes, Flying, Ran
    <3>2. QED  BY <2>3, <3>1 DEF Slots
  <2>4. QED  BY <2>1, <2>2, <2>3
<1>3. QED  BY <1>2 DEF Latest

LEMMA RanOrder ==
    ASSUME TypeOK, TypeOK', Order, NEW p \in Calls, Ran(p), Reads(p) \/ Stores(p) \/ Removes(p)
    PROVE  Order'
<1>1. \A q \in Calls : Flying(q)' = Flying(q) /\ Owns(q)' = Owns(q) /\ Slots(q)' = Slots(q)
  BY DEF Ran, Flying, Owns, Slots
<1>2. Claims'
  BY <1>1 DEF Order, Claims, Ran
<1>3. EndsAlone'
  BY <1>1 DEF Order, EndsAlone, Ran
<1>4. QED  BY <1>2, <1>3, RanWires, RanNumbered, RanInOrder, RanRanked, RanCurrent, RanLatest DEF Order
-----------------------------------------------------------------------------
(***************************************************************************)
(* Time, the network, and the theorems                                     *)
(***************************************************************************)

\* Nothing happens but that entries age and records go.
Idles ==
    /\ UNCHANGED <<pc, wire, ahead, reply, shown, buried, writes>>
    /\ \A i \in Ids : store'[i] \in {store[i], NoSession}
    /\ \A n \in Nodes : cache'[n].sess = cache[n].sess /\ cache'[n].owner = cache[n].owner

LEMMA AgeIdles == ASSUME TypeOK, NEW n \in Nodes, NEW i \in Ids, Age(n, i) PROVE Idles
<1>1. cache \in [Nodes -> CacheState] /\ cache' = [cache EXCEPT ![n].aged = @ \cup {i}]
  BY DEF Age, TypeOK
<1>2. \A m \in Nodes \ {n} : cache'[m] = cache[m]
  BY <1>1
<1>3. cache'[n] = [cache[n] EXCEPT !.aged = @ \cup {i}] /\ cache[n] \in CacheState
  BY <1>1
<1>4. cache'[n].sess = cache[n].sess /\ cache'[n].owner = cache[n].owner
  BY <1>3 DEF CacheState
<1>5. UNCHANGED <<pc, wire, ahead, reply, shown, buried, writes, store>>
  BY DEF Age, callVars, wireVars, history
<1>6. QED  BY <1>2, <1>4, <1>5 DEF Idles

LEMMA ExpireIdles == ASSUME TypeOK, NEW i \in Ids, Expire(i) PROVE Idles
  BY DEF Expire, Idles, TypeOK, callVars, wireVars, history

LEMMA IdleOrder == ASSUME TypeOK, Order, Idles PROVE Order'
<1>1. UNCHANGED <<pc, wire, ahead, reply, shown, buried, writes>>
  BY DEF Idles
<1>2. \A i \in Ids : store'[i] \in {store[i], NoSession}
  BY DEF Idles
<1>3. \A n \in Nodes : cache'[n].sess = cache[n].sess /\ cache'[n].owner = cache[n].owner
  BY DEF Idles
<1>4. \A q \in Calls : /\ Home[q] \in Nodes /\ Flying(q)' = Flying(q) /\ Owns(q)' = Owns(q)
                       /\ Slots(q)'.sess = Slots(q).sess
  BY <1>1, <1>3, ConstantsOK DEF Flying, Owns, Slots
<1>5. Ranked'
  <2>1. \A i \in Ids : Known(i)' \subseteq Known(i) \cup {NoSession}
    BY <1>1, <1>2, <1>3 DEF Known
  <2>2. QED  BY <2>1 DEF Order, Ranked
<1>6. Wires' /\ InOrder' /\ Claims'
  BY <1>1, <1>4 DEF Order, Wires, InOrder, Claims
<1>7. Numbered'
  BY <1>1, <1>2 DEF Order, Numbered
<1>8. Current' /\ EndsAlone'
  BY <1>1, <1>4 DEF Order, Current, EndsAlone
<1>9. Latest'
  BY <1>1, <1>3 DEF Order, Latest
<1>10. QED  BY <1>5, <1>6, <1>7, <1>8, <1>9 DEF Order

\* A connection is lost.
LEMMA ConnectionOrder ==
    ASSUME TypeOK, Order, NEW n \in Nodes, Resend(n) \/ Reject(n)
    PROVE  Order'
<1>1. UNCHANGED <<pc, ahead, reply, shown, buried, writes, store, cache>>
  BY DEF Resend, Reject, callVars, history
<1>2. \A q \in Calls : wire'[q] = wire[q] \/ (Home[q] = n /\ Flying(q) /\ wire'[q] \in {"sent", "rejected"})
  BY DEF Resend, Reject, InFlight, Flying
<1>3. \A q \in Calls : Home[q] = n => wire'[q] # "executed"
  BY DEF Resend, Reject, InFlight, TypeOK
<1>4. \A q \in Calls : /\ Owns(q)' = Owns(q) /\ Slots(q)' = Slots(q) /\ (Flying(q)' => Flying(q))
                       /\ (wire'[q] = "executed" => wire[q] = "executed")
  BY <1>1, <1>2 DEF Flying, Owns, Slots
<1>5. Wires'
  <2>1. ASSUME NEW p \in Calls, NEW q \in ahead[p], wire'[p] = "executed"
        PROVE  wire'[q] # "sent"
    <3>1. q \in Calls /\ Home[p] # n /\ Home[q] = Home[p] /\ wire[p] = "executed"
      BY <1>3, <1>4, <2>1 DEF Order, Wires, TypeOK
    <3>2. QED  BY <1>2, <3>1 DEF Order, Wires
  <2>2. QED  BY <1>1, <1>4, <2>1 DEF Order, Wires
<1>6. Numbered' /\ Latest'
  BY <1>1 DEF Order, Numbered, Latest
<1>7. InOrder' /\ Claims'
  BY <1>1, <1>4 DEF Order, InOrder, Claims
<1>8. Ranked'
  BY <1>1 DEF Order, Ranked, Known
<1>9. Current' /\ EndsAlone'
  BY <1>1, <1>4 DEF Order, Current, EndsAlone
<1>10. QED  BY <1>5, <1>6, <1>7, <1>8, <1>9 DEF Order

LEMMA OrderInit == ASSUME Init PROVE Order
<1>1. Wires /\ InOrder /\ Claims /\ Current /\ EndsAlone
  BY DEF Init, Wires, InOrder, Claims, Current, EndsAlone, Flying
<1>2. Numbered
  BY DEF Init, Numbered, FirstRecord
<1>3. Latest
  BY DEF Init, Latest, EmptyCache
<1>4. Ranked
  <2>1. \A i \in Ids : Known(i) \subseteq {NoSession, FirstRecord}
    BY DEF Init, Known, EmptyCache
  <2>2. FirstRecord.rev = 0
    BY DEF FirstRecord
  <2>3. QED  BY <2>1, <2>2 DEF Ranked
<1>5. QED  BY <1>1, <1>2, <1>3, <1>4 DEF Order

LEMMA OrderStep == ASSUME IInv, Shadows, Order, [Next]_vars PROVE Order'
<1>1. TypeOK /\ Held /\ Latest /\ TypeOK'
  BY TypeStep DEF IInv, Order
<1>2. ASSUME NEW p \in Calls, Start(p) \/ Resume(p)
      PROVE  Order'
  BY <1>1, <1>2, StartTurn, ResumeTurn, TurnOrder
<1>3. ASSUME NEW p \in Calls, Exec(p)
      PROVE  Order'
  BY <1>1, <1>3, ExecRan, RanOrder
<1>4. ASSUME NEW n \in Nodes, NEW i \in Ids, Age(n, i)
      PROVE  Order'
  BY <1>1, <1>4, AgeIdles, IdleOrder
<1>5. ASSUME NEW i \in Ids, Expire(i)
      PROVE  Order'
  BY <1>1, <1>5, ExpireIdles, IdleOrder
<1>6. ASSUME UNCHANGED vars
      PROVE  Order'
  <2>1. Idles
    BY <1>6 DEF vars, Idles, callVars, wireVars, history
  <2>2. QED  BY <1>1, <2>1, IdleOrder
<1>7. ASSUME NEW n \in Nodes, Resend(n) \/ Reject(n)
      PROVE  Order'
  BY <1>1, <1>7, ConnectionOrder
<1>8. QED  BY <1>2, <1>3, <1>4, <1>5, <1>6, <1>7 DEF Next

LEMMA OrderAlways == Spec => []Order
  BY OrderInit, OrderStep, Invariants, PTL DEF Spec

\* A cache never goes back to an older write of a session than one it has
\* shown, whatever order fills, commits and evictions complete in.
THEOREM NeverRollsBack == Spec => []CacheNeverRollsBack
<1>1. ASSUME TypeOK, Order
      PROVE  CacheNeverRollsBack
  BY <1>1 DEF TypeOK, Order, Latest, CacheNeverRollsBack
<1>2. TypeOK /\ Order => CacheNeverRollsBack
  BY <1>1
<1>3. QED  BY <1>2, OrderAlways, TypeCorrect, PTL

\* Nor does it show again a session that a delete of its instance ended.
THEOREM EndedStaysEnded == Spec => []NoResurrection
<1>1. Order => NoResurrection
  BY DEF Order, Latest, NoResurrection
<1>2. QED  BY <1>1, OrderAlways, PTL
=============================================================================
