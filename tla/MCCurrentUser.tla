--------------------------- MODULE MCCurrentUser ---------------------------
(* Instances of CurrentUser for TLC.                                        *)
EXTENDS CurrentUser

\* A session with a refresh service that expires, and one without either.
TwoKinds == {[refreshable |-> TRUE, expiresAt |-> 1], [refreshable |-> FALSE, expiresAt |-> 0]}

\* An earlier visit left nothing, its logout, or its session.
Visited == {Nothing, DATA} \cup {Session(1, kind) : kind \in TwoKinds}
=============================================================================
