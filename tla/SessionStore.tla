---------------------------- MODULE SessionStore ----------------------------
(***************************************************************************)
(* The Valkey-backed session store (src/server/core/sessions.ts and        *)
(* valkeyStore.ts) on several server instances: one shared store, one      *)
(* cache and one Valkey connection per instance, and calls of the          *)
(* SessionStore interface running concurrently on them.                    *)
(*                                                                         *)
(* A call is one invocation by a route or socket handler; it runs once.    *)
(* Between two of its steps any other call may run, exactly where the code *)
(* awaits.  A call's current command travels down its instance's single    *)
(* connection: Valkey executes the commands of a connection in the order   *)
(* they were sent, and the continuation of the awaiting call runs later.   *)
(***************************************************************************)
EXTENDS SlotOps

CONSTANTS
    Nodes,        \* server instances sharing the Valkey store
    Calls,        \* invocations of the store interface
    Ops,          \* the operations the calls of an instance of the model use
    Home,         \* the instance a call runs on
    Target,       \* the session id a call is about
    Origin,       \* the incarnation of a session that exists at the start
    MaxAttempts,  \* updateAtomic's retry budget (12 in the code)
    MaxResends,   \* bound: connection losses with commands resent
    MaxFailures   \* bound: connection losses with commands rejected

AllOps == {"get", "getStrict", "updateAtomic", "consume", "delete", "create", "touch"}

ASSUME ConstantsOK ==
    /\ Home \in [Calls -> Nodes] /\ Target \in [Calls -> Ids]
    /\ Ops \subseteq AllOps
    /\ Origin \notin Calls /\ NoOwner \notin Calls
    /\ MaxAttempts \in Nat /\ MaxResends \in Nat /\ MaxFailures \in Nat

VARIABLES
    store,    \* the record Valkey holds for each session id
    cache,    \* the cache of each instance
    op,       \* what each call was asked
    pc,       \* the command a call waits for, or where it stands between two
    wire,     \* whether that command is on its way, executed, or rejected
    ahead,    \* the commands of the same connection sent before it
    snap,     \* the record an updateAtomic attempt read
    reply,    \* what Valkey answered
    tries,    \* updateAtomic attempts made
    resends, failures,
    writes,   \* history: writes executed per session id
    took,     \* history: <<id, incarnation, call>> of each write that took effect
    acked,    \* history: those of them whose call reported success
    shown,    \* history: the newest write an instance's cache has held, per id
    buried    \* history: per instance and id, the writes its deletes ended

callVars == <<op, pc, snap, tries>>
wireVars == <<wire, ahead, reply>>
history  == <<writes, took, acked, shown, buried>>
vars     == <<store, cache, callVars, wireVars, resends, failures, history>>

\* An incarnation is named by the createSession call that made it: `created`
\* is a timestamp the code compares for equality only.
Births == Calls \cup {Origin}

\* log: the calls whose mutation the data contains; tok: a one-shot token is
\* still in the data; ver (history): this is the ver-th write of its id.
Record == [created : Births, rev : Nat, log : SUBSET Calls, tok : BOOLEAN, ver : Nat]

ASSUME NoSessionOK == NoSession \notin Record

FirstRecord == [created |-> Origin, rev |-> 0, log |-> {}, tok |-> TRUE, ver |-> 0]

CacheState == [sess  : [Ids -> Record \cup {NoSession}],
               aged  : SUBSET Ids,
               owner : [Ids -> Calls \cup {NoOwner}]]

\* Commands whose answer a call awaits; the other values of pc are local.
Commands == {"GET", "READ", "CAS", "TAKE", "DEL", "SET", "TOUCH", "LOAD", "REVALIDATE"}
Phases   == Commands \cup {"idle", "attempt", "draft", "done"}

TypeOK ==
    /\ store \in [Ids -> Record \cup {NoSession}]
    /\ cache \in [Nodes -> CacheState]
    /\ op \in [Calls -> AllOps]
    /\ pc \in [Calls -> Phases]
    /\ wire \in [Calls -> {"off", "sent", "executed", "rejected"}]
    /\ ahead \in [Calls -> SUBSET Calls]
    /\ snap \in [Calls -> Record \cup {NoSession}]
    /\ reply \in [Calls -> Record \cup {NoSession}]
    /\ tries \in [Calls -> Nat]
    /\ resends \in Nat /\ failures \in Nat
    /\ writes \in [Ids -> Nat]
    /\ took \subseteq Ids \X Births \X Calls
    /\ acked \subseteq Ids \X Births \X Calls
    /\ shown \in [Nodes -> [Ids -> Nat]]
    /\ buried \in [Nodes -> [Ids -> Nat]]

Init ==
    /\ store \in [Ids -> {NoSession, FirstRecord}]
    /\ cache = [n \in Nodes |-> EmptyCache]
    /\ op = [p \in Calls |-> "get"]
    /\ pc = [p \in Calls |-> "idle"]
    /\ wire = [p \in Calls |-> "off"] /\ ahead = [p \in Calls |-> {}]
    /\ snap = [p \in Calls |-> NoSession] /\ reply = [p \in Calls |-> NoSession]
    /\ tries = [p \in Calls |-> 0]
    /\ resends = 0 /\ failures = 0
    /\ writes = [i \in Ids |-> 0]
    /\ took = {} /\ acked = {}
    /\ shown = [n \in Nodes |-> [i \in Ids |-> 0]]
    /\ buried = [n \in Nodes |-> [i \in Ids |-> 0]]
-----------------------------------------------------------------------------
(* The connection of an instance                                           *)

InFlight(n) == {q \in Calls : Home[q] = n /\ wire[q] \in {"sent", "executed"}}

\* Call p hands command c to its connection, behind what is there already.
Send(p, c) ==
    /\ pc' = [pc EXCEPT ![p] = c]
    /\ wire' = [wire EXCEPT ![p] = "sent"]
    /\ ahead' = [q \in Calls |-> IF q = p THEN InFlight(Home[p]) \ {p} ELSE ahead[q] \ {p}]
    /\ reply' = [reply EXCEPT ![p] = NoSession]

\* Call p continues at the local step c, with no command of its own in flight.
Proceed(p, c) ==
    /\ pc' = [pc EXCEPT ![p] = c]
    /\ wire' = [wire EXCEPT ![p] = "off"]
    /\ ahead' = [q \in Calls |-> IF q = p THEN {} ELSE ahead[q] \ {p}]
    /\ reply' = [reply EXCEPT ![p] = NoSession]

\* The commands whose answer passes through two more awaits than the others'
\* before it reaches the cache; a TAKE's passes through one more or none.
Deep == {"GET", "LOAD", "REVALIDATE"}

\* Answers that arrive together resume their calls in the order of their await
\* chains' depth: that of a c may overtake that of a d sent before it.
Overtakes(c, d) == c \notin Deep /\ d \in Deep \cup {"TAKE"}

\* The continuation of p's command may run.
Answered(p, c) ==
    /\ pc[p] = c
    /\ wire[p] = "executed"
    /\ \A q \in ahead[p] : Overtakes(c, pc[q])

Found(p, c)    == Answered(p, c) /\ reply[p] # NoSession
NotFound(p, c) == Answered(p, c) /\ reply[p] = NoSession
Rejected(p, c) == pc[p] = c /\ wire[p] = "rejected"

\* The cache of instance n becomes c.
SetCache(n, c) ==
    /\ cache' = [cache EXCEPT ![n] = c]
    /\ shown' = [shown EXCEPT ![n] = [i \in Ids |->
                    IF c.sess[i] # NoSession /\ c.sess[i].ver > @[i] THEN c.sess[i].ver ELSE @[i]]]

KeepCache == UNCHANGED <<cache, shown>>

Slots(p) == cache[Home[p]]
-----------------------------------------------------------------------------
(* Calls, up to their first await                                          *)

Begin(p, o) ==
    /\ pc[p] = "idle" /\ o \in Ops
    /\ op' = [op EXCEPT ![p] = o]
    /\ UNCHANGED <<store, snap, tries, resends, failures, writes, took, acked, buried>>

\* get, and the availability probe of createSession: answered by a fresh entry ...
GetHit(p) ==
    /\ \E o \in {"get", "create"} : Begin(p, o)
    /\ Fresh(Slots(p), Target[p])
    /\ Proceed(p, "done")
    /\ KeepCache

\* ... or by a fill.
GetMiss(p) ==
    /\ \E o \in {"get", "create"} : Begin(p, o)
    /\ ~Fresh(Slots(p), Target[p])
    /\ SetCache(Home[p], BeginFill(Slots(p), Target[p], p))
    /\ Send(p, "GET")

GetStrict(p) ==
    /\ Begin(p, "getStrict")
    /\ SetCache(Home[p], BeginFill(Slots(p), Target[p], p))
    /\ Send(p, "READ")

UpdateAtomic(p) ==
    /\ Begin(p, "updateAtomic")
    /\ Proceed(p, "attempt")
    /\ KeepCache

Consume(p) ==
    /\ Begin(p, "consume")
    /\ SetCache(Home[p], BeginFill(Dropped(Slots(p), Target[p]), Target[p], p))
    /\ Send(p, "TAKE")

\* Whoever ends a session has its id: not while createSession still stores it.
Delete(p) ==
    /\ \A q \in Calls : Target[q] = Target[p] => pc[q] # "SET"
    /\ Begin(p, "delete")
    /\ SetCache(Home[p], Dropped(Slots(p), Target[p]))
    /\ Send(p, "DEL")

\* touch answered by a fresh entry; every 5 s it also re-reads the record.
TouchHit(p) ==
    /\ Begin(p, "touch")
    /\ Fresh(Slots(p), Target[p])
    /\ \/ Proceed(p, "done") /\ KeepCache
       \/ SetCache(Home[p], BeginFill(Slots(p), Target[p], p)) /\ Send(p, "REVALIDATE")

\* touch of a slot that is empty, or that getFresh empties because it aged.
TouchMiss(p) ==
    /\ Begin(p, "touch")
    /\ ~Fresh(Slots(p), Target[p])
    /\ SetCache(Home[p], BeginFill(Dropped(Slots(p), Target[p]), Target[p], p))
    /\ Send(p, "TOUCH")

Start(p) ==
    \/ GetHit(p) \/ GetMiss(p) \/ GetStrict(p) \/ UpdateAtomic(p)
    \/ Consume(p) \/ Delete(p) \/ TouchHit(p) \/ TouchMiss(p)
-----------------------------------------------------------------------------
(* Valkey executes the commands; EVAL scripts run alone                    *)

NextToRun(p, c) == pc[p] = c /\ wire[p] = "sent" /\ \A q \in ahead[p] : wire[q] # "sent"

Executed(p, r) ==
    /\ wire' = [wire EXCEPT ![p] = "executed"]
    /\ reply' = [reply EXCEPT ![p] = r]
    /\ UNCHANGED <<cache, callVars, ahead, resends, failures, acked, shown>>

\* GET, and the keepalive script, which leaves the data as it is.
ExecRead(p) ==
    /\ \E c \in {"GET", "READ", "LOAD", "REVALIDATE", "TOUCH"} : NextToRun(p, c)
    /\ Executed(p, store[Target[p]])
    /\ UNCHANGED <<store, writes, took, buried>>

\* Valkey stores r, the outcome of call p, as the next write of its id.
Write(p, r) ==
    LET w == [r EXCEPT !.ver = writes[Target[p]] + 1]
    IN  /\ store' = [store EXCEPT ![Target[p]] = w]
        /\ writes' = [writes EXCEPT ![Target[p]] = @ + 1]
        /\ Executed(p, w)

Refused(p) == Executed(p, NoSession) /\ UNCHANGED <<store, writes, took>>

\* Mutants of CasMatches: one of the two comparisons is missing.
CasMatches_AnyRevision(cur, exp) == cur # NoSession /\ cur.created = exp.created
CasMatches_AnyBirth(cur, exp)    == cur # NoSession /\ cur.rev = exp.rev

\* The stored record is still the one the caller read.
CasMatches(cur, exp) == cur # NoSession /\ cur.rev = exp.rev /\ cur.created = exp.created

ExecCas(p) ==
    LET s == snap[p]
        w == [s EXCEPT !.rev = @ + 1, !.log = @ \cup {p}]
    IN  /\ NextToRun(p, "CAS")
        /\ \/ /\ CasMatches(store[Target[p]], s)
              /\ Write(p, w)
              /\ took' = took \cup {<<Target[p], s.created, p>>}
           \/ ~CasMatches(store[Target[p]], s) /\ Refused(p)
        /\ UNCHANGED buried

\* Mutant of HoldsToken: the script does not look for the token.
HoldsToken_Unchecked(cur) == cur # NoSession

HoldsToken(cur) == cur # NoSession /\ cur.tok

ExecTake(p) ==
    LET s == store[Target[p]]
        w == [s EXCEPT !.rev = @ + 1, !.tok = FALSE, !.log = @ \cup {p}]
    IN  /\ NextToRun(p, "TAKE")
        /\ \/ /\ HoldsToken(s)
              /\ Write(p, w)
              /\ took' = took \cup {<<Target[p], s.created, p>>}
           \/ ~HoldsToken(s) /\ Refused(p)
        /\ UNCHANGED buried

ExecDel(p) ==
    /\ NextToRun(p, "DEL")
    /\ store' = [store EXCEPT ![Target[p]] = NoSession]
    /\ buried' = [buried EXCEPT ![Home[p]][Target[p]] = writes[Target[p]] + 1]
    /\ Executed(p, NoSession)
    /\ UNCHANGED <<writes, took>>

ExecSet(p) ==
    /\ NextToRun(p, "SET")
    /\ Write(p, [FirstRecord EXCEPT !.created = p])
    /\ UNCHANGED <<took, buried>>

Exec(p) == ExecRead(p) \/ ExecCas(p) \/ ExecTake(p) \/ ExecDel(p) \/ ExecSet(p)
-----------------------------------------------------------------------------
(* The calls' continuations                                                *)

\* What no continuation changes.
LeaveStore == UNCHANGED <<store, op, resends, failures, writes, took, buried>>

\* replaceStaleFill and invalidateStaleFill of p's slot.
Publish(p) ==
    \E c \in FillPuts(Slots(p), Target[p], reply[p], p) : SetCache(Home[p], c)
PublishMiss(p) == SetCache(Home[p], FillMiss(Slots(p), Target[p], p))

\* The call reported its mutation done.
Acknowledge(p) == acked' = acked \cup {<<Target[p], reply[p].created, p>>}

\* get, or a probe that found the id taken.
GetFound(p) ==
    /\ Found(p, "GET")
    /\ Publish(p)
    /\ Proceed(p, "done")
    /\ LeaveStore /\ UNCHANGED <<snap, tries, acked>>

\* A failed read counts as a miss.  The probe then takes the id as free.
GetNotFound(p) ==
    /\ NotFound(p, "GET") \/ Rejected(p, "GET")
    /\ PublishMiss(p)
    /\ \/ op[p] = "get" /\ Proceed(p, "done")
       \/ op[p] = "create" /\ Send(p, "SET")
    /\ LeaveStore /\ UNCHANGED <<snap, tries, acked>>

SetDone(p) ==
    /\ Answered(p, "SET")
    /\ \E c \in Puts(Slots(p), Target[p], reply[p]) : SetCache(Home[p], c)
    /\ Proceed(p, "done")
    /\ LeaveStore /\ UNCHANGED <<snap, tries, acked>>

\* One attempt of updateAtomic: read strictly ...
Attempt(p) ==
    /\ pc[p] = "attempt"
    /\ \/ /\ tries[p] < MaxAttempts
          /\ tries' = [tries EXCEPT ![p] = @ + 1]
          /\ SetCache(Home[p], BeginFill(Slots(p), Target[p], p))
          /\ Send(p, "READ")
       \/ /\ tries[p] = MaxAttempts
          /\ Proceed(p, "done")
          /\ KeepCache /\ UNCHANGED tries
    /\ LeaveStore /\ UNCHANGED <<snap, acked>>

ReadFound(p) ==
    /\ Found(p, "READ")
    /\ Publish(p)
    /\ \/ op[p] = "getStrict" /\ Proceed(p, "done") /\ UNCHANGED snap
       \/ /\ op[p] = "updateAtomic" /\ Proceed(p, "draft")
          /\ snap' = [snap EXCEPT ![p] = reply[p]]
    /\ LeaveStore /\ UNCHANGED <<tries, acked>>

ReadNotFound(p) ==
    /\ NotFound(p, "READ")
    /\ PublishMiss(p)
    /\ Proceed(p, "done")
    /\ LeaveStore /\ UNCHANGED <<snap, tries, acked>>

\* Mutant of SubmitDraft: the cached object itself is mutated and kept.
SubmitDraft_InPlace(p) ==
    /\ pc[p] = "draft"
    /\ SetCache(Home[p], [Slots(p) EXCEPT
           !.sess[Target[p]] = IF @ = NoSession THEN @ ELSE [@ EXCEPT !.log = @ \cup {p}],
           !.owner[Target[p]] = p])
    /\ Send(p, "CAS")
    /\ LeaveStore /\ UNCHANGED <<snap, tries, acked>>

\* ... mutate a copy and submit it ...
SubmitDraft(p) ==
    /\ pc[p] = "draft"
    /\ SetCache(Home[p], BeginFill(Dropped(Slots(p), Target[p]), Target[p], p))
    /\ Send(p, "CAS")
    /\ LeaveStore /\ UNCHANGED <<snap, tries, acked>>

\* ... and report success, or start over after a conflict.
CasCommitted(p) ==
    /\ Found(p, "CAS")
    /\ Publish(p)
    /\ Acknowledge(p)
    /\ Proceed(p, "done")
    /\ LeaveStore /\ UNCHANGED <<snap, tries>>

CasConflict(p) ==
    /\ NotFound(p, "CAS")
    /\ Proceed(p, "attempt")
    /\ KeepCache /\ LeaveStore /\ UNCHANGED <<snap, tries, acked>>

TakeDone(p) ==
    /\ \/ Found(p, "TAKE") /\ Publish(p) /\ Acknowledge(p)
       \/ NotFound(p, "TAKE") /\ KeepCache /\ UNCHANGED acked
    /\ Proceed(p, "done")
    /\ LeaveStore /\ UNCHANGED <<snap, tries>>

DelDone(p) ==
    /\ Answered(p, "DEL")
    /\ Proceed(p, "done")
    /\ KeepCache /\ LeaveStore /\ UNCHANGED <<snap, tries, acked>>

\* A cold touch loads the record it just refreshed.
TouchFound(p) ==
    /\ Found(p, "TOUCH")
    /\ Send(p, "LOAD")
    /\ KeepCache /\ LeaveStore /\ UNCHANGED <<snap, tries, acked>>

TouchNotFound(p) ==
    /\ NotFound(p, "TOUCH") \/ Rejected(p, "TOUCH")
    /\ PublishMiss(p)
    /\ Proceed(p, "done")
    /\ LeaveStore /\ UNCHANGED <<snap, tries, acked>>

LoadDone(p) ==
    /\ \/ Found(p, "LOAD") /\ Publish(p)
       \/ (NotFound(p, "LOAD") \/ Rejected(p, "LOAD")) /\ KeepCache
    /\ Proceed(p, "done")
    /\ LeaveStore /\ UNCHANGED <<snap, tries, acked>>

RevalidateDone(p) ==
    /\ \/ Found(p, "REVALIDATE") /\ Publish(p)
       \/ (NotFound(p, "REVALIDATE") \/ Rejected(p, "REVALIDATE")) /\ PublishMiss(p)
    /\ Proceed(p, "done")
    /\ LeaveStore /\ UNCHANGED <<snap, tries, acked>>

\* Mutant of GiveUp: a rejected strict read is not passed on.
GiveUp_DropsReads(p) ==
    /\ \E c \in {"CAS", "TAKE", "DEL", "SET"} : Rejected(p, c)
    /\ Proceed(p, "done")
    /\ KeepCache /\ LeaveStore /\ UNCHANGED <<snap, tries, acked>>

\* The remaining commands throw to the caller (or answer false) when rejected.
GiveUp(p) ==
    /\ \E c \in {"READ", "CAS", "TAKE", "DEL", "SET"} : Rejected(p, c)
    /\ Proceed(p, "done")
    /\ KeepCache /\ LeaveStore /\ UNCHANGED <<snap, tries, acked>>

Resume(p) ==
    \/ GetFound(p) \/ GetNotFound(p) \/ SetDone(p)
    \/ Attempt(p) \/ ReadFound(p) \/ ReadNotFound(p)
    \/ SubmitDraft(p) \/ CasCommitted(p) \/ CasConflict(p)
    \/ TakeDone(p) \/ DelDone(p)
    \/ TouchFound(p) \/ TouchNotFound(p) \/ LoadDone(p) \/ RevalidateDone(p)
    \/ GiveUp(p)
-----------------------------------------------------------------------------
(* Time and the network                                                    *)

\* An entry of an instance's cache passes its 30 s lifetime.
Age(n, i) ==
    /\ Fresh(cache[n], i)
    /\ cache' = [cache EXCEPT ![n].aged = @ \cup {i}]
    /\ UNCHANGED <<store, callVars, wireVars, resends, failures, history>>

\* Valkey drops a record whose time to live ran out.
Expire(i) ==
    /\ store[i] # NoSession
    /\ store' = [store EXCEPT ![i] = NoSession]
    /\ UNCHANGED <<cache, callVars, wireVars, resends, failures, history>>

\* The connection of n is lost and re-established: the client sends every
\* unanswered command again, in order, whether or not it was executed.  (The
\* SET of a new session is repeatable, nobody has its id yet: left out.)
Resend(n) ==
    /\ resends < MaxResends
    /\ \E q \in InFlight(n) : wire[q] = "executed"
    /\ \A q \in InFlight(n) : wire[q] = "executed" => pc[q] # "SET"
    /\ wire' = [q \in Calls |-> IF q \in InFlight(n) THEN "sent" ELSE wire[q]]
    /\ resends' = resends + 1
    /\ UNCHANGED <<store, cache, callVars, ahead, reply, failures, history>>

\* The connection of n stays down past maxRetriesPerRequest: every unanswered
\* command is rejected, executed or not.
Reject(n) ==
    /\ failures < MaxFailures
    /\ InFlight(n) # {}
    /\ wire' = [q \in Calls |-> IF q \in InFlight(n) THEN "rejected" ELSE wire[q]]
    /\ failures' = failures + 1
    /\ UNCHANGED <<store, cache, callVars, ahead, reply, resends, history>>

Next ==
    \/ \E p \in Calls : Start(p) \/ Exec(p) \/ Resume(p)
    \/ \E n \in Nodes, i \in Ids : Age(n, i)
    \/ \E i \in Ids : Expire(i)
    \/ \E n \in Nodes : Resend(n) \/ Reject(n)

Spec == Init /\ [][Next]_vars

\* Valkey answers what it is sent (or the client gives up), and the event loop
\* runs every continuation; nobody has to start a call.
Fairness == \A p \in Calls : WF_vars(Exec(p)) /\ WF_vars(Resume(p))

FairSpec == Spec /\ Fairness
-----------------------------------------------------------------------------
(* What the store promises                                                 *)

\* A mutation whose call reported success stays in the record for as long as
\* its incarnation of the session lives: no concurrent updateAtomic or consume,
\* on any instance, overwrites it (sessions.ts 439-461, valkeyStore.ts 175-185).
NoLostUpdate ==
    \A t \in acked :
        store[t[1]] # NoSession /\ store[t[1]].created = t[2] => t[3] \in store[t[1]].log

\* A commit only ever continues the incarnation that is live.  One drafted from
\* a session that was deleted, or deleted and re-created at the same revision,
\* between the strict read and the commit neither overwrites the new session nor
\* brings the old one back (sessions.ts 449-455, valkeyStore.ts 171-182).
NoCrossIncarnation ==
    [][\A i \in Ids :
          store'[i] # NoSession =>
              \/ store'[i].log = {}
              \/ store[i] # NoSession /\ store'[i].created = store[i].created]_store

\* A one-shot token of an incarnation is handed to at most one caller, even
\* with updates writing whole records around it (valkeyStore.ts 230-281).
TokenConsumedOnce ==
    \A s, t \in acked :
        op[s[3]] = "consume" /\ op[t[3]] = "consume" /\ s[1] = t[1] /\ s[2] = t[2] => s = t

\* Whatever order fills, commits, invalidations and evictions complete in, an
\* instance's cache never goes back to an older write of a session than one it
\* has shown before (sessionCache.ts 99-130).
CacheNeverRollsBack ==
    \A n \in Nodes, i \in Ids :
        cache[n].sess[i] # NoSession => cache[n].sess[i].ver >= shown[n][i]

\* Once an instance's delete of a session was executed, the instance's cache
\* never shows that session again: a fill that was on its way does not
\* repopulate the slot (sessionCache.ts 211-220).
NoResurrection ==
    \A n \in Nodes, i \in Ids :
        cache[n].sess[i] # NoSession => cache[n].sess[i].ver >= buried[n][i]

\* The cache shows only what was stored: a cached mutation of the incarnation
\* that is live is in the store, never a draft or a refused commit.
CacheShowsCommitted ==
    \A n \in Nodes, i \in Ids :
        LET c == cache[n].sess[i] IN
        c # NoSession /\ store[i] # NoSession /\ c.created = store[i].created
            => c.rev <= store[i].rev /\ c.log \subseteq store[i].log

\* Every call is answered, or fails: no conflict, lost connection or lost slot
\* leaves a request waiting (updateAtomic gives up after its last attempt).
CallsReturn == \A p \in Calls : (pc[p] # "idle") ~> (pc[p] = "done")

\* A consume that took the token is not refused: sessions.ts:488 says of the
\* strict variant that a backend failure rejects instead of answering "already
\* consumed".
NoFalseRefusal ==
    \A p \in Calls :
        NotFound(p, "TAKE") => \A t \in took : t[3] # p
=============================================================================
