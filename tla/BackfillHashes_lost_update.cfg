\* A refresh by the application between the read and the save of a row.
CONSTANTS
    NULL = NULL
    u1 = u1
    u2 = u2
    a = a
    b = b
    c = c
    r1 = r1
    r2 = r2
    MonolithRegion = r1
    TokenIds <- MCTokenIds
    Users <- MCUsers
    Secrets <- MCSecrets
    InitTokens <- MCInitTokens
    UserRegions <- MCUserRegions
    Monolith = FALSE
    ImportOutcomes = {TRUE, FALSE}
    MaxRefresh = 1
    MaxDelete = 1
SPECIFICATION Spec
INVARIANT HashesMatchTokens
\* The migration stops once it has committed and the application has used
\* its budget of refreshes and deletes.
CHECK_DEADLOCK FALSE
