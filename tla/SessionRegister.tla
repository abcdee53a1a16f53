-------------------------- MODULE SessionRegister ---------------------------
(***************************************************************************)
(* What the atomic operations of the session store promise, without        *)
(* caches, connections or retries: a register per session id, in which     *)
(* each call takes effect at most once, at a single instant, on the        *)
(* incarnation that is live at that instant, and reports success only      *)
(* after it did.                                                           *)
(***************************************************************************)
EXTENDS FiniteSets

CONSTANTS Ids, Calls, Births, NoSession

VARIABLES
    reg,    \* the live incarnation of each id: who made it, the calls applied
            \* to it, and whether its one-shot token is still there
    took,   \* <<id, incarnation, call>> for every call that took effect
    acked   \* those that reported success

regVars == <<reg, took, acked>>

RegRecord == [created : Births, log : SUBSET Calls, tok : BOOLEAN]

RegInit ==
    /\ reg \in [Ids -> {NoSession} \cup [created : Births \ Calls, log : {{}}, tok : {TRUE}]]
    /\ took = {} /\ acked = {}

\* Call p mutates session i; a consume also takes the token, which must be there.
Apply(p, i, consume) ==
    /\ reg[i] # NoSession
    /\ \A t \in took : t[3] # p
    /\ consume => reg[i].tok
    /\ reg' = [reg EXCEPT ![i] = [created |-> @.created, log |-> @.log \cup {p},
                                   tok |-> @.tok /\ ~consume]]
    /\ took' = took \cup {<<i, reg[i].created, p>>}
    /\ UNCHANGED acked

Report(t) == t \in took \ acked /\ acked' = acked \cup {t} /\ UNCHANGED <<reg, took>>

\* createSession: an incarnation nobody has used before.
Create(p, i) ==
    /\ \A t \in took : t[2] # p
    /\ \A j \in Ids : reg[j] # NoSession => reg[j].created # p
    /\ reg' = [reg EXCEPT ![i] = [created |-> p, log |-> {}, tok |-> TRUE]]
    /\ UNCHANGED <<took, acked>>

\* Deleted, or past its time to live.
Remove(i) ==
    /\ reg[i] # NoSession
    /\ reg' = [reg EXCEPT ![i] = NoSession]
    /\ UNCHANGED <<took, acked>>

RegNext ==
    \/ \E p \in Calls, i \in Ids :
          Create(p, i) \/ \E consume \in BOOLEAN : Apply(p, i, consume)
    \/ \E t \in took : Report(t)
    \/ \E i \in Ids : Remove(i)

RegSpec == RegInit /\ [][RegNext]_regVars
=============================================================================
