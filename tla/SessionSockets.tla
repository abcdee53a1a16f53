--------------------------- MODULE SessionSockets ---------------------------
(***************************************************************************)
(* The sockets of one session, from the hook that opens them in a page     *)
(* (src/client/src/hooks/useResilientWebSocket.ts) to the router that      *)
(* admits them (src/server/core/wsRouter.ts), and the end of the session   *)
(* (DELETE in src/server/core/sessions.ts), which is announced to the      *)
(* sockets of all instances over Valkey and sends their pages away.        *)
(*                                                                         *)
(* A page's sockets are numbered in the order it opened them.  Each has    *)
(* two ends, with frames and a close on the way from the server to the     *)
(* browser; the network may break it without either end being told.        *)
(***************************************************************************)
EXTENDS Naturals, Sequences

CONSTANTS
    Nodes, Pages,
    Scenes,       \* the situations to start from
    MaxSockets    \* bound: the sockets a page opens

\* Whether Valkey is configured; whether the activity's handler notes the session of a
\* socket without reading it, before or after; whether a refusal stops the page's
\* reconnects; how often the session is deleted, pages are rendered anew and connections,
\* reads or broadcasts fail.
Scene == [valkey : BOOLEAN, notes : {"unread", "before", "after"}, terminal : BOOLEAN,
          ends : Nat, renders : Nat, faults : Nat]

ASSUME ConstantsOK == Scenes \subseteq Scene /\ MaxSockets \in Nat

Numbers == 1..MaxSockets

VARIABLES
    scene,
    live,      \* the session is in the store
    job,       \* where the deletion stands on an instance, or "idle"
    bus,       \* instances the announcement is on its way to
    socks,     \* the sockets of a page
    cur,       \* socketRef: the socket the page goes by, or 0
    torn,      \* manuallyDisconnectedSocketRef, or 0
    manual,    \* pages that disconnected (manualCloseRef)
    timer,     \* pages with a reconnect timer
    shown,     \* what a page was last told of its connection
    page,      \* where the page is
    ends, renders, faults,
    due        \* history: sockets that were on the session when its end was announced, to be told

server == <<live, job, bus>>
hook   == <<cur, torn, manual, timer, shown>>
counts == <<ends, renders, faults>>
vars   == <<scene, server, socks, hook, page, counts, due>>

\* The browser's end, the server's end, the instance, and whether the socket carries the
\* session's id, was cut, was refused for good, and has session-ended on its way.
Socket == [st : {"connecting", "open", "closing", "closed"},
           sv : {"none", "looking", "found", "on", "off"},
           node : Nodes, named : BOOLEAN, cut : BOOLEAN, refused : BOOLEAN,
           coming : BOOLEAN]

TypeOK ==
    /\ scene \in Scenes
    /\ live \in BOOLEAN /\ bus \subseteq Nodes
    /\ job \in [Nodes -> {"idle", "publish", "delete"}]
    /\ socks \in [Pages -> Seq(Socket)]
    /\ cur \in [Pages -> 0..MaxSockets] /\ torn \in [Pages -> 0..MaxSockets]
    /\ \A p \in Pages : /\ Len(socks[p]) \in cur[p]..MaxSockets
                         /\ torn[p] # 0 => p \in manual
    /\ manual \subseteq Pages /\ timer \subseteq Pages
    /\ shown \in [Pages -> {"nothing", "open", "closed"}]
    /\ page \in [Pages -> {"away", "activity", "leaving", "ended"}]
    /\ ends \in Nat /\ renders \in Nat /\ faults \in Nat
    /\ due \subseteq Pages \X Numbers

Init ==
    /\ scene \in Scenes
    /\ live = TRUE /\ bus = {} /\ job = [n \in Nodes |-> "idle"]
    /\ socks = [p \in Pages |-> <<>>]
    /\ cur = [p \in Pages |-> 0] /\ torn = [p \in Pages |-> 0]
    /\ manual = {} /\ timer = {}
    /\ shown = [p \in Pages |-> "nothing"] /\ page = [p \in Pages |-> "away"]
    /\ ends = 0 /\ renders = 0 /\ faults = 0 /\ due = {}
-----------------------------------------------------------------------------
(* The page and its hook                                                   *)

Sock(p, k) == socks[p][k]
Has(p, k)  == k \in 1..Len(socks[p])

\* close() of the browser; nothing happens to a socket that has closed.
Closed(s) == IF s.st = "closed" THEN s ELSE [s EXCEPT !.st = "closing"]

NewSocket(n) == [st |-> "connecting", sv |-> "none", node |-> n, named |-> FALSE,
                 cut |-> FALSE, refused |-> FALSE, coming |-> FALSE]

\* The sockets ss of a page that goes by the k-th closes it and opens a new one.
Opening(ss, k, n) ==
    Append([i \in DOMAIN ss |-> IF i = k THEN Closed(ss[i]) ELSE ss[i]], NewSocket(n))

\* Mutant of Connect: the timer of a reconnect keeps running.
Connect_KeepsTimer(p, t) ==
    /\ Len(socks[p]) < MaxSockets
    /\ \E n \in Nodes : socks' = [socks EXCEPT ![p] = Opening(@, cur[p], n)]
    /\ cur' = [cur EXCEPT ![p] = Len(socks[p]) + 1]
    /\ torn' = [torn EXCEPT ![p] = 0]
    /\ manual' = manual \ {p}
    /\ timer' = t

\* connect(), of a page with the timers t.
Connect(p, t) ==
    /\ Len(socks[p]) < MaxSockets
    /\ \E n \in Nodes : socks' = [socks EXCEPT ![p] = Opening(@, cur[p], n)]
    /\ cur' = [cur EXCEPT ![p] = Len(socks[p]) + 1]
    /\ torn' = [torn EXCEPT ![p] = 0]
    /\ manual' = manual \ {p}
    /\ timer' = t \ {p}

\* disconnect()
Disconnect(p) ==
    /\ manual' = manual \cup {p}
    /\ timer' = timer \ {p}
    /\ torn' = IF cur[p] # 0 THEN [torn EXCEPT ![p] = cur[p]] ELSE torn
    /\ socks' = IF cur[p] # 0 THEN [socks EXCEPT ![p][cur[p]] = Closed(@)] ELSE socks
    /\ cur' = [cur EXCEPT ![p] = 0]

\* The page of an activity is opened.
Mount(p) ==
    /\ page[p] = "away" /\ page' = [page EXCEPT ![p] = "activity"]
    /\ Connect(p, timer)
    /\ UNCHANGED <<scene, server, shown, counts, due>>

\* It is rendered with another address: its effect is cleaned up, to run again.
Cleanup(p) ==
    /\ page[p] = "activity" /\ p \notin manual /\ Len(socks[p]) < MaxSockets
    /\ renders < scene.renders /\ renders' = renders + 1
    /\ Disconnect(p)
    /\ UNCHANGED <<scene, server, shown, page, ends, faults, due>>
Rerun(p) ==
    /\ page[p] = "activity" /\ p \in manual
    /\ Connect(p, timer)
    /\ UNCHANGED <<scene, server, shown, page, counts, due>>

\* The page connects anew without disconnecting.
ConnectAgain(p) ==
    /\ page[p] = "activity" /\ p \notin manual
    /\ renders < scene.renders /\ renders' = renders + 1
    /\ Connect(p, timer)
    /\ UNCHANGED <<scene, server, shown, page, ends, faults, due>>

\* The page is taken down after it has navigated away.
Unmount(p) ==
    /\ page[p] = "leaving" /\ page' = [page EXCEPT ![p] = "ended"]
    /\ Disconnect(p)
    /\ UNCHANGED <<scene, server, shown, counts, due>>

TimerFires(p) ==
    /\ p \in timer
    /\ Connect(p, timer \ {p})
    /\ UNCHANGED <<scene, server, shown, page, counts, due>>

\* The browser is told that the upgrade succeeded: onopen.
Opened(p, k) ==
    /\ Has(p, k) /\ Sock(p, k).st = "connecting" /\ Sock(p, k).sv # "none" /\ ~Sock(p, k).cut
    /\ IF cur[p] = k
       THEN socks' = [socks EXCEPT ![p][k].st = "open"] /\ shown' = [shown EXCEPT ![p] = "open"]
       ELSE socks' = [socks EXCEPT ![p][k].st = "closing"] /\ UNCHANGED shown
    /\ UNCHANGED <<scene, server, cur, torn, manual, timer, page, counts, due>>

\* Mutant of Listens: the first socket keeps the listener.
Listens_First(p, k) == k = 1

\* The listener is moved to every new socket.
Listens(p, k) == k = Len(socks[p])

\* session-ended arrives, and the listener leaves the page.
Message(p, k) ==
    /\ Has(p, k) /\ Sock(p, k).st = "open" /\ ~Sock(p, k).cut /\ Sock(p, k).coming
    /\ socks' = [socks EXCEPT ![p][k].coming = FALSE]
    /\ page' = IF Listens(p, k) /\ page[p] = "activity"
               THEN [page EXCEPT ![p] = "leaving"] ELSE page
    /\ UNCHANGED <<scene, server, hook, counts, due>>

\* The browser's end closes: it was asked to, the server closed and the frames it had
\* sent were read, or the browser gave a cut connection up.
Closes(s) ==
    \/ s.st = "closing"
    \/ s.st \in {"connecting", "open"} /\ (s.cut \/ (s.sv = "off" /\ ~s.coming))

\* Mutant of Concerns: every close is delivered.
Concerns_Any(p, k) == TRUE

\* onclose concerns the page: its socket closed, or the one it disconnected.
Concerns(p, k) == cur[p] = k \/ torn[p] = k

\* Mutant of Retries: the close of the current socket ends it.
Retries_Never(p, k) == FALSE

\* The page tries again: the close was not its own doing, nor a refusal for good.
Retries(p, k) == /\ p \notin manual /\ cur[p] = k
                 /\ ~(scene.terminal /\ Sock(p, k).refused)

\* onclose
CloseEvent(p, k) ==
    /\ Has(p, k) /\ Closes(Sock(p, k))
    /\ socks' = [socks EXCEPT ![p][k].st = "closed"]
    /\ IF Concerns(p, k)
       THEN /\ shown' = [shown EXCEPT ![p] = "closed"]
            /\ cur' = [cur EXCEPT ![p] = IF @ = k THEN 0 ELSE @]
            /\ torn' = [torn EXCEPT ![p] = IF @ = k THEN 0 ELSE @]
            /\ timer' = IF Retries(p, k) THEN timer \cup {p} ELSE timer
       ELSE UNCHANGED <<shown, cur, torn, timer>>
    /\ UNCHANGED <<scene, server, manual, page, counts, due>>
-----------------------------------------------------------------------------
(* The router and the handlers of an instance                              *)

Mistake == faults < scene.faults /\ faults' = faults + 1

\* The sockets the server counts among its clients.
Served == {"looking", "found", "on"}

\* A deleted session may still be in the cache of another instance.
MayFind == live \/ scene.valkey
MayMiss == ~live

\* The upgrade, and the handler up to its first await.
Upgrade(p, k) ==
    /\ Has(p, k) /\ Sock(p, k).st = "connecting" /\ Sock(p, k).sv = "none" /\ ~Sock(p, k).cut
    /\ socks' = [socks EXCEPT ![p][k] =
                   [@ EXCEPT !.sv = IF scene.notes = "unread" THEN "on" ELSE "looking",
                             !.named = scene.notes # "after"]]
    /\ UNCHANGED <<scene, server, hook, page, counts, due>>

\* The handler reads the session, and closes the socket (1008) when there is none.
Lookup(p, k) ==
    /\ Has(p, k) /\ Sock(p, k).sv = "looking"
    /\ \/ /\ MayFind
          /\ socks' = [socks EXCEPT ![p][k].sv = "found"]
       \/ /\ MayMiss
          /\ socks' = [socks EXCEPT ![p][k] = [@ EXCEPT !.sv = "off", !.refused = TRUE]]
    /\ UNCHANGED <<scene, server, hook, page, counts, due>>

\* The read fails: get() takes that for a missing session, getStrict() throws, and the
\* socket is closed with a code that lets the page retry.
LookupFails(p, k) ==
    /\ Has(p, k) /\ Sock(p, k).sv = "looking"
    /\ Mistake
    /\ \E strict \in BOOLEAN :
          socks' = [socks EXCEPT ![p][k] = [@ EXCEPT !.sv = "off", !.refused = ~strict]]
    /\ UNCHANGED <<scene, server, hook, page, ends, renders, due>>

\* The handler goes on with the session it has read, and admits the socket.
Admit(p, k) ==
    /\ Has(p, k) /\ Sock(p, k).sv = "found"
    /\ socks' = [socks EXCEPT ![p][k] = [@ EXCEPT !.sv = "on", !.named = TRUE]]
    /\ UNCHANGED <<scene, server, hook, page, counts, due>>

\* The server's end hears that the browser closed.
ServerClosed(p, k) ==
    /\ Has(p, k) /\ Sock(p, k).sv \in Served /\ ~Sock(p, k).cut
    /\ Sock(p, k).st \in {"closing", "closed"}
    /\ socks' = [socks EXCEPT ![p][k].sv = "off"]
    /\ UNCHANGED <<scene, server, hook, page, counts, due>>

\* Two heartbeats of instance n: a socket that did not answer the first is terminated;
\* a page answers within the interval unless its connection is cut.
Heartbeat(n) ==
    /\ \E p \in Pages, k \in Numbers :
          Has(p, k) /\ Sock(p, k).node = n /\ Sock(p, k).sv \in Served /\ Sock(p, k).cut
    /\ socks' = [p \in Pages |-> [k \in DOMAIN socks[p] |->
                   IF Sock(p, k).node = n /\ Sock(p, k).cut
                   THEN [Sock(p, k) EXCEPT !.sv = "off", !.coming = FALSE] ELSE Sock(p, k)]]
    /\ UNCHANGED <<scene, server, hook, page, counts, due>>

\* A connection is cut.
Cut(p, k) ==
    /\ Has(p, k) /\ Sock(p, k).st # "closed" /\ ~Sock(p, k).cut
    /\ Mistake
    /\ socks' = [socks EXCEPT ![p][k].cut = TRUE]
    /\ UNCHANGED <<scene, server, hook, page, ends, renders, due>>
-----------------------------------------------------------------------------
(* The end of the session                                                  *)

\* The sockets that carry the session's id and are open.
IsOn(p, k) == Has(p, k) /\ Sock(p, k).named /\ Sock(p, k).sv \in Served
OnSession == {pk \in Pages \X Numbers : IsOn(pk[1], pk[2])}

\* DELETE reads the session first, from the cache if it can.
Delete(n) ==
    /\ job[n] = "idle" /\ ends < scene.ends /\ ends' = ends + 1
    /\ MayFind
    /\ job' = [job EXCEPT ![n] = "publish"]
    /\ UNCHANGED <<scene, live, bus, socks, hook, page, renders, faults, due>>

\* The announcement, which an instance misses whose subscription is interrupted. The
\* store without Valkey has a publishBroadcast that does nothing.
Publish(n) ==
    /\ job[n] = "publish" /\ job' = [job EXCEPT ![n] = "delete"]
    /\ IF scene.valkey
       THEN \/ bus' = Nodes /\ due' = due \cup OnSession /\ UNCHANGED faults
            \/ /\ \E k \in Nodes : bus' = bus \cup (Nodes \ {k})
               /\ Mistake /\ UNCHANGED due
       ELSE due' = due \cup OnSession /\ UNCHANGED <<bus, faults>>
    /\ UNCHANGED <<scene, live, socks, hook, page, ends, renders>>

\* Then the record is deleted; the failure of it is not reported.
Remove(n) ==
    /\ job[n] = "delete" /\ job' = [job EXCEPT ![n] = "idle"]
    /\ \/ live' = FALSE /\ UNCHANGED faults
       \/ Mistake /\ UNCHANGED live
    /\ UNCHANGED <<scene, bus, socks, hook, page, ends, renders, due>>

\* Mutant of Announced: sockets are told only while they are being admitted.
Announced_New(s, n) ==
    IF s.node = n /\ s.named /\ s.sv = "looking"
    THEN [s EXCEPT !.coming = TRUE] ELSE s

\* An open socket of instance n is sent session-ended.
Announced(s, n) ==
    IF s.node = n /\ s.named /\ s.sv \in Served
    THEN [s EXCEPT !.coming = TRUE] ELSE s

Hear(n) ==
    /\ n \in bus /\ bus' = bus \ {n}
    /\ socks' = [p \in Pages |-> [k \in DOMAIN socks[p] |-> Announced(Sock(p, k), n)]]
    /\ due' = {pk \in due : ~socks'[pk[1]][pk[2]].coming}
    /\ UNCHANGED <<scene, live, job, hook, page, counts>>
-----------------------------------------------------------------------------
Browser(p) ==
    \/ Mount(p) \/ Rerun(p) \/ Unmount(p) \/ TimerFires(p)
    \/ \E k \in Numbers : Opened(p, k) \/ Message(p, k) \/ CloseEvent(p, k)
Router(p) ==
    \E k \in Numbers : Upgrade(p, k) \/ Lookup(p, k) \/ Admit(p, k) \/ ServerClosed(p, k)
Ends(n)   == Publish(n) \/ Remove(n) \/ Hear(n)

Next ==
    \/ \E p \in Pages : \/ Browser(p) \/ Router(p) \/ Cleanup(p) \/ ConnectAgain(p)
                        \/ \E k \in Numbers : Cut(p, k) \/ LookupFails(p, k)
    \/ \E n \in Nodes : Ends(n) \/ Delete(n) \/ Heartbeat(n)

Spec == Init /\ [][Next]_vars

\* A browser and an instance take their steps; nobody has to end the session.
FairSpec ==
    /\ Spec
    /\ \A p \in Pages : WF_vars(Browser(p)) /\ WF_vars(Router(p))
    /\ \A n \in Nodes : WF_vars(Ends(n))
-----------------------------------------------------------------------------
(* Properties                                                              *)

\* A page is never told that it is disconnected while its socket is open, the close of
\* a socket it has replaced not being taken for that of its successor; and a page that
\* was told of a connection has one, is opening the next, or is still to be told of the
\* close of the one it tore down (the comments of onclose in useResilientWebSocket.ts).
ShownIsTrue ==
    \A p \in Pages :
        /\ cur[p] # 0 /\ Sock(p, cur[p]).st = "open" => shown[p] = "open"
        /\ shown[p] = "open" =>
              \E k \in {cur[p], torn[p]} \ {0} : Sock(p, k).st # "closed"

\* A page has at most one connection in use, which is the one it goes by, and a
\* reconnect is due only while it has none.
OneConnection ==
    \A p \in Pages :
        /\ \A k \in 1..Len(socks[p]) : Sock(p, k).st \in {"connecting", "open"} => cur[p] = k
        /\ p \in timer => cur[p] = 0 /\ p \notin manual

\* Whoever was on the session when its end was announced is sent the announcement, on
\* every instance, or the connection is closed (ARCHITECTURE.md: to all connected
\* clients).
EndIsAnnounced ==
    bus = {} => \A pk \in due : Sock(pk[1], pk[2]).sv = "off"

\* A page whose connection was on the session when its end was announced leaves, unless
\* the connection was lost or replaced.
EndIsSeen ==
    \A p \in Pages, k \in Numbers :
        <<p, k>> \in due ~> page[p] = "ended" \/ k # Len(socks[p]) \/ Sock(p, k).cut

\* A page of a session that lives comes back from every loss, until it is refused for good.
ComesBack ==
    \A p \in Pages :
        <>[](live /\ page[p] = "activity" /\ Len(socks[p]) \in 1..(MaxSockets - 1)
             /\ ~(scene.terminal /\ \E k \in 1..Len(socks[p]) : Sock(p, k).refused)) =>
            []<>(cur[p] # 0 /\ Sock(p, cur[p]).st = "open" /\ Sock(p, cur[p]).sv = "on")
=============================================================================
