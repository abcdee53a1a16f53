--------------------------- MODULE MCSessionStore ---------------------------
(* Instances of SessionStore for TLC. *)
EXTENDS SessionStoreImpl, TLC

CONSTANTS n1, n2, i1, c1, c2, c3

\* Two calls, one per instance.
Home2   == c1 :> n1 @@ c2 :> n2
Target2 == c1 :> i1 @@ c2 :> i1

\* Three calls about one session: c1 and c3 on n1, c2 on its peer.
Home3   == c1 :> n1 @@ c2 :> n2 @@ c3 :> n1
Target3 == c1 :> i1 @@ c2 :> i1 @@ c3 :> i1

\* Calls on the same instance about the same session are interchangeable.
SameNode == Permutations({c1, c3})
=============================================================================
