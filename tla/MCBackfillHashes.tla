-------------------------- MODULE MCBackfillHashes --------------------------
(***************************************************************************)
(* Three ApiToken rows covering the cases of the loop body: a legacy row   *)
(* with neither hash, a row whose token is hashed but whose refresh token  *)
(* is not, and a row without a refresh token.  Two users, one with         *)
(* organizations in two regions and one with none.                         *)
(***************************************************************************)
EXTENDS BackfillHashes

CONSTANTS u1, u2, a, b, c, r1, r2

MCTokenIds == {1, 2, 3}

MCUsers == {u1, u2}

MCSecrets == {a, b, c}

MCInitTokens ==
    (1 :> [token |-> a, refresh |-> b, hashed |-> NULL, hashedRefresh |-> NULL, user |-> u1])
 @@ (2 :> [token |-> c, refresh |-> a, hashed |-> Sha256(c), hashedRefresh |-> NULL, user |-> u2])
 @@ (3 :> [token |-> b, refresh |-> NULL, hashed |-> NULL, hashedRefresh |-> NULL, user |-> u1])

MCUserRegions == (u1 :> {r1, r2}) @@ (u2 :> {})

=============================================================================
