-------------------------- MODULE SessionStoreImpl --------------------------
(***************************************************************************)
(* The session store implements the register of SessionRegister: what the  *)
(* store holds, without revisions, is the register's content.              *)
(***************************************************************************)
EXTENDS SessionStore

Content(r) == [created |-> r.created, log |-> r.log, tok |-> r.tok]

ASSUME NoContentOK == NoSession \notin [created : Births, log : SUBSET Calls, tok : BOOLEAN]

Register == INSTANCE SessionRegister
    WITH reg <- [i \in Ids |-> IF store[i] = NoSession THEN NoSession ELSE Content(store[i])]

\* Every step of the instances, their caches, retries and connections is one
\* operation of the register or none: updateAtomic and consume take effect at
\* most once, atomically, on the live incarnation, and only then report success
\* (sessions.ts 412-493).
ImplementsRegister == Register!RegSpec
=============================================================================
