--------------------------- MODULE BackfillHashes ---------------------------
(***************************************************************************)
(* Migration 0726_apitoken_backfill_hashes: backfill_hash_values walks     *)
(* every ApiToken by id, stores the sha256 of token and of refresh_token   *)
(* that are missing, saves the two hash columns (update_fields), and for  *)
(* each region of the token's user creates a ControlOutbox entry so that  *)
(* the regions replicate the change.                                       *)
(*                                                                         *)
(* The migration is post-deployment: the application keeps running, and   *)
(* refreshes (token and refresh_token replaced, hashes written with them)  *)
(* and deletes tokens meanwhile.  The migration runs in one transaction    *)
(* (Django's atomic migrations): rows it has saved stay locked against     *)
(* the application until it ends, and a failure rolls all its writes back. *)
(* A row read by the loop is a snapshot: the row may change before the     *)
(* save.  A save with update_fields of a row that no longer exists raises *)
(* and fails the migration, which the operator then runs again.            *)
(***************************************************************************)
EXTENDS Integers, FiniteSets, TLC

CONSTANTS
    TokenIds,       \* ids of the ApiToken rows
    Users,          \* user ids
    Secrets,        \* token and refresh_token strings
    InitTokens,     \* the ApiToken table when the migration starts
    UserRegions,    \* user -> regions of the user's organizations
    Monolith,       \* SiloMode.get_current_mode() == SiloMode.MONOLITH
    MonolithRegion, \* settings.SENTRY_MONOLITH_REGION
    ImportOutcomes, \* TRUE: the silo imports raise ImportError; FALSE: they succeed
    MaxRefresh,     \* token refreshes by the application
    MaxDelete,      \* token deletions by the application
    NULL

ASSUME IsFiniteSet(TokenIds) /\ TokenIds \subseteq Nat
ASSUME Monolith \in BOOLEAN /\ ImportOutcomes \subseteq BOOLEAN

\* hashlib.sha256(s.encode()).hexdigest(), injective on the secrets.
Sha256(s) == <<"sha256", s>>

Row == [token : Secrets, refresh : Secrets \cup {NULL},
        hashed : {Sha256(s) : s \in Secrets} \cup {NULL},
        hashedRefresh : {Sha256(s) : s \in Secrets} \cup {NULL},
        user : Users]

VARIABLES
    tokens,     \* id -> row, or NULL once deleted
    outbox,     \* ControlOutbox entries [user, token, region]
    mig,        \* "start" | "iterating" | "done" | "failed" | "skipped"
    cursor,     \* ids below cursor have been processed by this attempt
    snap,       \* the row the loop holds, [id, row], or NULL
    undo,       \* id -> hash columns before this attempt saved the row
    outbox0,    \* outbox when this attempt began, restored on rollback
    refreshes,  \* refreshes done by the application
    deletes     \* deletions done by the application

vars == <<tokens, outbox, mig, cursor, snap, undo, outbox0, refreshes, deletes>>

Live == {i \in TokenIds : tokens[i] # NULL}

\* find_regions_for_user
FindRegionsForUser(u) == IF Monolith THEN {MonolithRegion} ELSE UserRegions[u]

(***************************************************************************)
(* The loop body on the snapshot r of row id: the hashes to compute, and   *)
(* whether to save.                                                        *)
(***************************************************************************)
NewHashed(r) == IF r.hashed = NULL THEN Sha256(r.token) ELSE NULL

NewHashedRefresh(r) == IF r.refresh # NULL THEN Sha256(r.refresh) ELSE NULL

\* Variant that saves only when a refresh token hash was computed.
ShouldSaveRefreshOnly(r) == NewHashedRefresh(r) # NULL

\* if hashed_token or hashed_refresh_token
ShouldSave(r) == NewHashed(r) # NULL \/ NewHashedRefresh(r) # NULL

\* Variant that stores the secrets themselves in the hash columns.
SavedPlain(cur, r) ==
    [cur EXCEPT !.hashed = IF r.hashed = NULL THEN r.token ELSE r.hashed,
                !.hashedRefresh = IF r.refresh # NULL THEN r.refresh ELSE r.hashedRefresh]

\* api_token.save(update_fields=["hashed_token", "hashed_refresh_token"]):
\* the model instance writes both attributes as they are on the snapshot.
Saved(cur, r) ==
    [cur EXCEPT !.hashed = IF NewHashed(r) # NULL THEN NewHashed(r) ELSE r.hashed,
                !.hashedRefresh = IF NewHashedRefresh(r) # NULL
                                    THEN NewHashedRefresh(r) ELSE r.hashedRefresh]

\* RangeQuerySetWrapper continues after the last id it yielded.
NextCursor(id) == id + 1

OutboxesFor(id, r) ==
    {[user |-> r.user, token |-> id, region |-> g] : g \in FindRegionsForUser(r.user)}

-----------------------------------------------------------------------------
TypeOK ==
    /\ tokens \in [TokenIds -> Row \cup {NULL}]
    /\ mig \in {"start", "iterating", "done", "failed", "skipped"}
    /\ snap = NULL \/ (snap.id \in TokenIds /\ snap.row \in Row)
    /\ DOMAIN undo \subseteq TokenIds

Init ==
    /\ tokens = InitTokens
    /\ outbox = {}
    /\ mig = "start"
    /\ cursor = 0
    /\ snap = NULL
    /\ undo = <<>>
    /\ outbox0 = {}
    /\ refreshes = 0
    /\ deletes = 0

\* The silo imports raise ImportError: logged, and the function returns,
\* so the migration is recorded as applied with nothing backfilled.
ImportFailure ==
    /\ mig = "start"
    /\ TRUE \in ImportOutcomes
    /\ mig' = "skipped"
    /\ UNCHANGED <<tokens, outbox, cursor, snap, undo, outbox0, refreshes, deletes>>

ImportSuccess ==
    /\ mig = "start"
    /\ FALSE \in ImportOutcomes
    /\ mig' = "iterating"
    /\ cursor' = 0
    /\ undo' = <<>>
    /\ outbox0' = outbox
    /\ UNCHANGED <<tokens, outbox, snap, refreshes, deletes>>

\* RangeQuerySetWrapper yields the live row with the next id.
ReadRow ==
    /\ mig = "iterating"
    /\ snap = NULL
    /\ \E i \in Live :
         /\ i >= cursor
         /\ \A j \in Live : j >= cursor => i <= j
         /\ snap' = [id |-> i, row |-> tokens[i]]
    /\ UNCHANGED <<tokens, outbox, mig, cursor, undo, outbox0, refreshes, deletes>>

\* No row is left: the transaction commits.
Commit ==
    /\ mig = "iterating"
    /\ snap = NULL
    /\ \A i \in Live : i < cursor
    /\ mig' = "done"
    /\ UNCHANGED <<tokens, outbox, cursor, snap, undo, outbox0, refreshes, deletes>>

\* The loop body: hash, save and create the outboxes, or skip the row.
ProcessRow ==
    /\ mig = "iterating"
    /\ snap # NULL
    /\ tokens[snap.id] # NULL \/ ~ShouldSave(snap.row)
    /\ LET id == snap.id
           r  == snap.row
       IN  IF ShouldSave(r)
             THEN /\ tokens' = [tokens EXCEPT ![id] = Saved(@, r)]
                  /\ undo' = IF id \in DOMAIN undo THEN undo
                             ELSE (id :> [hashed |-> tokens[id].hashed,
                                          hashedRefresh |-> tokens[id].hashedRefresh]) @@ undo
                  /\ outbox' = outbox \cup OutboxesFor(id, r)
             ELSE UNCHANGED <<tokens, undo, outbox>>
    /\ cursor' = NextCursor(snap.id)
    /\ snap' = NULL
    /\ UNCHANGED <<mig, outbox0, refreshes, deletes>>

\* The save finds no row (deleted since the read): the migration raises
\* and its transaction rolls back.
SaveFails ==
    /\ mig = "iterating"
    /\ snap # NULL
    /\ tokens[snap.id] = NULL
    /\ ShouldSave(snap.row)
    /\ tokens' = [i \in TokenIds |->
                    IF i \in DOMAIN undo /\ tokens[i] # NULL
                      THEN [tokens[i] EXCEPT !.hashed = undo[i].hashed,
                                             !.hashedRefresh = undo[i].hashedRefresh]
                      ELSE tokens[i]]
    /\ outbox' = outbox0
    /\ mig' = "failed"
    /\ snap' = NULL
    /\ UNCHANGED <<cursor, undo, outbox0, refreshes, deletes>>

\* The operator runs the failed migration again.
Rerun ==
    /\ mig = "failed"
    /\ mig' = "start"
    /\ UNCHANGED <<tokens, outbox, cursor, snap, undo, outbox0, refreshes, deletes>>

\* Rows the migration has saved are locked until its transaction ends.
Unlocked(i) == mig = "iterating" => i \notin DOMAIN undo

\* The application refreshes a token; the new code writes both hashes.
RefreshToken ==
    /\ refreshes < MaxRefresh
    /\ \E i \in Live, t \in Secrets, rt \in Secrets :
         /\ Unlocked(i)
         /\ t # tokens[i].token
         /\ tokens' = [tokens EXCEPT ![i] = [@ EXCEPT !.token = t, !.refresh = rt,
                                                      !.hashed = Sha256(t),
                                                      !.hashedRefresh = Sha256(rt)]]
    /\ refreshes' = refreshes + 1
    /\ UNCHANGED <<outbox, mig, cursor, snap, undo, outbox0, deletes>>

\* The application deletes a token.
DeleteToken ==
    /\ deletes < MaxDelete
    /\ \E i \in Live :
         /\ Unlocked(i)
         /\ tokens' = [tokens EXCEPT ![i] = NULL]
    /\ deletes' = deletes + 1
    /\ UNCHANGED <<outbox, mig, cursor, snap, undo, outbox0, refreshes>>

Migration == ImportFailure \/ ImportSuccess \/ ReadRow \/ ProcessRow \/ Commit
                \/ SaveFails \/ Rerun

App == RefreshToken \/ DeleteToken

Next == Migration \/ App

Spec == Init /\ [][Next]_vars

-----------------------------------------------------------------------------
(***************************************************************************)
(* Every stored hash is the hash of the secret stored beside it: a token   *)
(* found through hashed_token / hashed_refresh_token is the token that     *)
(* was issued.  The loop saves hashes computed from the row it read       *)
(* (api_token.save(update_fields=...)), so an application refresh of the   *)
(* row between the read and the save is at stake here.                     *)
(***************************************************************************)
HashesMatchTokens ==
    \A i \in Live :
        /\ tokens[i].hashed \in {NULL, Sha256(tokens[i].token)}
        /\ tokens[i].hashedRefresh = NULL
           \/ (tokens[i].refresh # NULL /\ tokens[i].hashedRefresh = Sha256(tokens[i].refresh))

(***************************************************************************)
(* When backfill_hash_values has run to the end, no live token lacks its   *)
(* hashed_token, and every row the loop saved has a ControlOutbox entry   *)
(* for each region of its user, whatever the application refreshed or     *)
(* deleted meanwhile and however many attempts failed and were rolled     *)
(* back before.                                                            *)
(***************************************************************************)
BackfillComplete ==
    mig = "done" =>
        \A i \in Live :
            /\ tokens[i].hashed # NULL
            /\ i \in DOMAIN undo => OutboxesFor(i, tokens[i]) \subseteq outbox

=============================================================================
