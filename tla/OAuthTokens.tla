----------------------------- MODULE OAuthTokens -----------------------------
(***************************************************************************)
(* The OAuth server: clients and their dynamic registration, the consent   *)
(* of the user, and the codes and tokens that fosite keeps in the store of *)
(* storage_pgx.go.  Every statement is a transaction of its own, and the   *)
(* requests of browsers and clients run between each other's statements.   *)
(* A code and all tokens that come from it are a family, the request_id.   *)
(***************************************************************************)
EXTENDS Naturals, FiniteSets

CONSTANTS
    Calls,        \* requests; each names the code, nonce, client or tokens it makes
    Families,     \* families there are already, each with a token of its name
    SeedClients,
    Nobody,
    Users, Scopes,
    Requests,     \* Requests[c]: what c may ask for
    SeedRows,     \* what the tables hold of the families there are
    SeedConsents,
    ClientRows,   \* the rows of SeedClients
    DcrMax,       \* dcrMaxClients
    MaxFaults

Ids == Calls \cup Families
Clients == Calls \cup SeedClients

InfoRequests == [op : {"info", "authorize"}, who : Users, client : Clients, scopes : SUBSET Scopes,
                 bootstrap : BOOLEAN]
ConfirmRequests == [op : {"confirm"}, who : Users, client : Clients, scopes : SUBSET Scopes,
                    of : Calls, approve : BOOLEAN]
TokenRequests == [op : {"exchange", "refresh", "revoke"}, of : Ids]
ClientRequests == [op : {"seed", "delete"}, client : SeedClients, suppress : BOOLEAN]
PlainRequests == [op : {"register", "prune"}]

AllRequests == InfoRequests \cup ConfirmRequests \cup TokenRequests
                 \cup ClientRequests \cup PlainRequests

\* What a code stands for, and what a nonce was shown for.
Grants == [who : Users \cup {Nobody}, client : Clients, scopes : SUBSET Scopes,
           bootstrap : BOOLEAN]
Rows == [grant : Grants, code : {"none", "active", "spent"}, pkce : BOOLEAN,
         access : BOOLEAN, refresh : {"none", "active", "inactive"}]
OAuthClients == [there : BOOLEAN, deleted : BOOLEAN, suppressed : BOOLEAN,
                 via : {"dcr", "env_seed"}, expired : BOOLEAN]

ASSUME CallsAreNew == Calls \cap (Families \cup SeedClients) = {} /\ Nobody \notin Users
ASSUME SomeClient == SeedClients # {}
ASSUME RequestTypes == Requests \in [Calls -> SUBSET AllRequests]
ASSUME SeedTypes == /\ SeedRows \in [Families -> Rows]
                    /\ SeedConsents \in [Users -> [Clients -> SUBSET Scopes]]
                    /\ ClientRows \in [SeedClients -> OAuthClients]
\* The tables at the start are those that this code has left.
ASSUME SeedsConsented ==
    \A f \in Families : SeedRows[f].code # "none" =>
        LET g == SeedRows[f].grant
        IN  g.who \in Users /\ (g.bootstrap \/ g.scopes \subseteq SeedConsents[g.who][g.client])
ASSUME SeedsUnused ==
    \A f \in Families : SeedRows[f].code = "active" =>
        ~SeedRows[f].access /\ SeedRows[f].refresh = "none"
ASSUME SeedsBounded ==
    /\ IsFiniteSet(Clients)
    /\ Cardinality({k \in SeedClients : LET row == ClientRows[k]
                                       IN  row.there /\ ~row.deleted /\ row.via = "dcr"}) <= DcrMax
ASSUME Bounds == DcrMax \in Nat /\ MaxFaults \in Nat

VARIABLES
    clients,   \* oauth_clients
    consents,  \* oauth_consents: the scopes a user has granted a client
    nonces,    \* the server's consentNonces; those that are not there are not live
    grant,     \* request_id: what the family stands for
    code,      \* oauth_authorize_codes
    pkce,      \* oauth_pkce_requests
    access,    \* oauth_access_tokens: whether the row is there
    refresh,   \* oauth_refresh_tokens
    family,    \* the request_id of a call's tokens
    pc, req,
    crowded,   \* history: the calls that met another one on their family or at registration
    faults

tokens == <<code, pkce, access, refresh>>
vars == <<clients, consents, nonces, grant, tokens, family, pc, req, crowded, faults>>

NoClient == [there |-> FALSE, deleted |-> FALSE, suppressed |-> FALSE, via |-> "dcr",
             expired |-> FALSE]
NoGrant == [who |-> Nobody, client |-> CHOOSE k \in SeedClients : TRUE, scopes |-> {},
            bootstrap |-> FALSE]
NoRequest == [op |-> "none"]

Ended == {"accepted", "refused", "replayed", "failed"}
Running == {"client", "has_consent", "nonce", "consent", "new_code", "new_pkce",
            "code", "pkce", "pkce_delete", "code_again", "invalidate", "token",
            "rotate", "rotate_access", "access", "refresh",
            "forget", "kill_refresh", "kill_access",
            "seed", "upsert", "delete", "mode", "count", "prune", "recount", "insert"}
PCs == {"idle"} \cup Running \cup Ended

Goto(c, l) == pc' = [pc EXCEPT ![c] = l]
Answer(c, l) == /\ Goto(c, l)
                /\ UNCHANGED <<clients, consents, nonces, grant, tokens, family, req, crowded, faults>>
At(c, l) == pc[c] = l

Init ==
    /\ clients = [k \in Clients |-> IF k \in SeedClients THEN ClientRows[k] ELSE NoClient]
    /\ consents = SeedConsents
    /\ nonces = [c \in Calls |-> NoGrant]
    /\ grant = [f \in Ids |-> IF f \in Families THEN SeedRows[f].grant ELSE NoGrant]
    /\ code = [f \in Ids |-> IF f \in Families THEN SeedRows[f].code ELSE "none"]
    /\ pkce = [f \in Ids |-> f \in Families /\ SeedRows[f].pkce]
    /\ access = [t \in Ids |-> t \in Families /\ SeedRows[t].access]
    /\ refresh = [t \in Ids |-> IF t \in Families THEN SeedRows[t].refresh ELSE "none"]
    /\ family = [x \in Ids |-> x]
    /\ pc = [c \in Calls |-> "idle"]
    /\ req = [c \in Calls |-> NoRequest]
    /\ crowded = {}
    /\ faults = 0

-----------------------------------------------------------------------------
\* Mutant: every handler starts at a statement of its name.
FirstStepByName(op) == op

FirstStep(op) ==
    IF op \in {"info", "authorize", "confirm"} THEN "client"
    ELSE IF op = "exchange" THEN "code"
    ELSE IF op \in {"refresh", "revoke"} THEN "token"
    ELSE IF op = "register" THEN "mode" ELSE op

\* A code, a token or a nonce is sent by who has been given it.
Given(x) == x \in Families \cup {d \in Calls : pc[d] = "accepted"}

OfFamily(r) == r.op \in {"exchange", "refresh", "revoke"}

\* Other calls that run on what r is about.
Meets(c, r) ==
    {d \in Calls \ {c} :
        /\ pc[d] \in Running
        /\ \/ OfFamily(r) /\ OfFamily(req[d]) /\ family[d] = family[r.of]
           \/ r.op = "register" /\ req[d].op = "register"}

Submit(c) ==
    /\ pc[c] = "idle"
    /\ \E r \in Requests[c] :
         /\ OfFamily(r) \/ r.op = "confirm" => Given(r.of)
         /\ req' = [req EXCEPT ![c] = r]
         /\ family' = [family EXCEPT ![c] = IF OfFamily(r) THEN family[r.of] ELSE c]
         /\ crowded' = crowded \cup Meets(c, r) \cup (IF Meets(c, r) = {} THEN {} ELSE {c})
         /\ Goto(c, FirstStep(r.op))
    /\ UNCHANGED <<clients, consents, nonces, grant, tokens, faults>>

\* GetClient.
Live(k) == clients[k].there /\ ~clients[k].deleted /\ ~clients[k].expired

-----------------------------------------------------------------------------
(* Consent and codes.                                                      *)
GrantOf(r) == [who |-> r.who, client |-> r.client, scopes |-> r.scopes,
               bootstrap |-> r.op = "authorize" /\ r.bootstrap]

\* NewAuthorizeRequest.  The consent page gets its nonce at once.
ReadClient(c) ==
    /\ At(c, "client")
    /\ IF ~Live(req[c].client) THEN Goto(c, "refused") /\ UNCHANGED nonces
       ELSE IF req[c].op = "info"
       THEN Goto(c, "accepted") /\ nonces' = [nonces EXCEPT ![c] = GrantOf(req[c])]
       ELSE /\ Goto(c, IF req[c].op = "confirm" THEN "nonce"
                       ELSE IF req[c].bootstrap THEN "new_code" ELSE "has_consent")
            /\ UNCHANGED nonces
    /\ UNCHANGED <<clients, consents, grant, tokens, family, req, crowded, faults>>

HasConsent(c) ==
    /\ At(c, "has_consent")
    /\ Answer(c, IF req[c].scopes \subseteq consents[req[c].who][req[c].client]
                 THEN "new_code" ELSE "refused")

\* Mutant: the nonce is looked up and not deleted.
NonceKept(n) == nonces

NonceUsed(n) == [nonces EXCEPT ![n] = NoGrant]

\* consumeConsentNonce: deleted first, then compared with what is confirmed.
ConsumeNonce(c) ==
    /\ At(c, "nonce")
    /\ LET shown == nonces[req[c].of]
       IN  Goto(c, IF shown # GrantOf(req[c]) \/ ~req[c].approve THEN "refused" ELSE "consent")
    /\ nonces' = NonceUsed(req[c].of)
    /\ UNCHANGED <<clients, consents, grant, tokens, family, req, crowded, faults>>

\* Mutant: the upsert stores the scopes of this request.
ConsentReplaced(had, scopes) == scopes

ConsentExtended(had, scopes) == had \cup scopes

GrantConsent(c) ==
    /\ At(c, "consent")
    /\ consents' = [consents EXCEPT ![req[c].who][req[c].client] =
                                       ConsentExtended(@, req[c].scopes)]
    /\ Goto(c, "new_code")
    /\ UNCHANGED <<clients, nonces, grant, tokens, family, req, crowded, faults>>

CreateCode(c) ==
    /\ At(c, "new_code")
    /\ code' = [code EXCEPT ![c] = "active"]
    /\ grant' = [grant EXCEPT ![c] = GrantOf(req[c])]
    /\ Goto(c, "new_pkce")
    /\ UNCHANGED <<clients, consents, nonces, pkce, access, refresh, family, req, crowded, faults>>

CreatePKCE(c) ==
    /\ At(c, "new_pkce")
    /\ pkce' = [pkce EXCEPT ![c] = TRUE]
    /\ Goto(c, "accepted")
    /\ UNCHANGED <<clients, consents, nonces, grant, code, access, refresh, family, req, crowded, faults>>

-----------------------------------------------------------------------------
(* The token endpoint, as fosite calls the store.                          *)

\* The family of c, and the tokens of a family.
Fam(c) == family[c]
Of(f) == {t \in Ids : family[t] = f}

\* getStoredRequest gives the row only with its client.
ClientOf(c) == grant[Fam(c)].client

CodeRow(c) == IF ~Live(ClientOf(c)) THEN "none" ELSE code[Fam(c)]

GetCode(c) ==
    /\ At(c, "code")
    /\ Answer(c, IF CodeRow(c) = "active" THEN "pkce"
                 ELSE IF CodeRow(c) = "spent" THEN "kill_access" ELSE "refused")

GetPKCE(c) ==
    /\ At(c, "pkce")
    /\ Answer(c, IF pkce[Fam(c)] /\ Live(ClientOf(c)) THEN "pkce_delete" ELSE "refused")

DeletePKCE(c) ==
    /\ At(c, "pkce_delete")
    /\ pkce' = [pkce EXCEPT ![Fam(c)] = FALSE]
    /\ Goto(c, "code_again")
    /\ UNCHANGED <<clients, consents, nonces, grant, code, access, refresh, family, req, crowded, faults>>

GetCodeAgain(c) ==
    /\ At(c, "code_again")
    /\ Answer(c, IF CodeRow(c) = "active" THEN "invalidate" ELSE "refused")

InvalidateCode(c) ==
    /\ At(c, "invalidate")
    /\ code' = [code EXCEPT ![Fam(c)] = "spent"]
    /\ Goto(c, "access")
    /\ UNCHANGED <<clients, consents, nonces, grant, pkce, access, refresh, family, req, crowded, faults>>

\* The refresh token of req[c].of, to refresh or to revoke.
GetRefreshToken(c) ==
    /\ At(c, "token")
    /\ LET row == IF Live(ClientOf(c)) THEN refresh[req[c].of] ELSE "none"
       IN  Answer(c, IF row = "active" THEN (IF req[c].op = "refresh" THEN "rotate" ELSE "kill_refresh")
                     ELSE IF row = "inactive" /\ req[c].op = "refresh" THEN "forget"
                     ELSE "refused")

\* UPDATE oauth_refresh_tokens SET active = false WHERE request_id = f.
Deactivated(f) ==
    [t \in Ids |-> IF family[t] = f /\ refresh[t] = "active" THEN "inactive" ELSE refresh[t]]

\* Mutant: RotateRefreshToken leaves the refresh tokens to expire.
RotatedAccessOnly(f) == refresh

Rotated(f) == Deactivated(f)

Rotate(c) ==
    /\ At(c, "rotate")
    /\ refresh' = Rotated(Fam(c))
    /\ Goto(c, "rotate_access")
    /\ UNCHANGED <<clients, consents, nonces, grant, code, pkce, access, family, req, crowded, faults>>

\* Mutant: the DELETE looks for the token of that hash.
WithoutAccessToken(f) == [t \in Ids |-> access[t] /\ t # f]

WithoutAccess(f) == [t \in Ids |-> access[t] /\ family[t] # f]

RotateAccess(c) ==
    /\ At(c, "rotate_access")
    /\ access' = WithoutAccess(Fam(c))
    /\ Goto(c, "access")
    /\ UNCHANGED <<clients, consents, nonces, grant, code, pkce, refresh, family, req, crowded, faults>>

CreateAccessToken(c) ==
    /\ At(c, "access")
    /\ access' = [access EXCEPT ![c] = TRUE]
    /\ Goto(c, "refresh")
    /\ UNCHANGED <<clients, consents, nonces, grant, code, pkce, refresh, family, req, crowded, faults>>

CreateRefreshToken(c) ==
    /\ At(c, "refresh")
    /\ refresh' = [refresh EXCEPT ![c] = "active"]
    /\ Goto(c, "accepted")
    /\ UNCHANGED <<clients, consents, nonces, grant, code, pkce, access, family, req, crowded, faults>>

-----------------------------------------------------------------------------
(* What ends a family: a code or a refresh token sent again, a revocation. *)
DeleteRefreshToken(c) ==
    /\ At(c, "forget")
    /\ refresh' = [refresh EXCEPT ![req[c].of] = "none"]
    /\ Goto(c, "kill_refresh")
    /\ UNCHANGED <<clients, consents, nonces, grant, code, pkce, access, family, req, crowded, faults>>

RevokeRefreshToken(c) ==
    /\ At(c, "kill_refresh")
    /\ refresh' = Deactivated(Fam(c))
    /\ Goto(c, IF req[c].op = "exchange" THEN "replayed" ELSE "kill_access")
    /\ UNCHANGED <<clients, consents, nonces, grant, code, pkce, access, family, req, crowded, faults>>

RevokeAccessToken(c) ==
    /\ At(c, "kill_access")
    /\ access' = WithoutAccess(Fam(c))
    /\ Goto(c, IF req[c].op = "exchange" THEN "kill_refresh"
               ELSE IF req[c].op = "refresh" THEN "replayed" ELSE "accepted")
    /\ UNCHANGED <<clients, consents, nonces, grant, code, pkce, refresh, family, req, crowded, faults>>

-----------------------------------------------------------------------------
(* Clients.                                                                *)
PutClient(k, row) == clients' = [clients EXCEPT ![k] = row]
OnlyClients(c, l) ==
    /\ Goto(c, l)
    /\ UNCHANGED <<consents, nonces, grant, tokens, family, req, crowded, faults>>

\* The server starts: a client an administrator has deleted for good stays so.
SeedSuppressed(c) ==
    /\ At(c, "seed")
    /\ LET k == clients[req[c].client]
       IN  Answer(c, IF k.deleted /\ k.suppressed THEN "prune" ELSE "upsert")

UpsertSeed(c) ==
    /\ At(c, "upsert")
    /\ PutClient(req[c].client, [there |-> TRUE, deleted |-> FALSE, suppressed |-> FALSE,
                                 via |-> "env_seed", expired |-> FALSE])
    /\ OnlyClients(c, "prune")

DeleteClient(c) ==
    /\ At(c, "delete")
    /\ LET k == req[c].client
       IN  IF clients[k].there /\ ~clients[k].deleted
           THEN /\ PutClient(k, [clients[k] EXCEPT !.deleted = TRUE, !.suppressed = req[c].suppress])
                /\ OnlyClients(c, "accepted")
           ELSE Answer(c, "refused")

DcrClients == {k \in Clients : clients[k].there /\ ~clients[k].deleted /\ clients[k].via = "dcr"}

\* The mode and the limit per address may refuse the registration.
MayRegister(c) == At(c, "mode") /\ \E l \in {"count", "refused"} : Answer(c, l)

\* Mutant: one more client than the limit.
HasCapacityAtMax == Cardinality(DcrClients) <= DcrMax

HasCapacity == Cardinality(DcrClients) < DcrMax

CountClients(c) == At(c, "count") /\ Answer(c, IF HasCapacity THEN "insert" ELSE "prune")
CountAgain(c) == At(c, "recount") /\ Answer(c, IF HasCapacity THEN "insert" ELSE "refused")

\* PruneDCRClients, of a registration, of a start and of the daily ticker.
Prune(c) ==
    /\ At(c, "prune")
    /\ clients' = [k \in Clients |->
                     IF k \in DcrClients /\ clients[k].expired
                     THEN [clients[k] EXCEPT !.deleted = TRUE] ELSE clients[k]]
    /\ OnlyClients(c, IF req[c].op = "register" THEN "recount" ELSE "accepted")

InsertClient(c) ==
    /\ At(c, "insert")
    /\ PutClient(c, [NoClient EXCEPT !.there = TRUE])
    /\ OnlyClients(c, "accepted")

-----------------------------------------------------------------------------
\* A statement fails or the request is cancelled: nothing is undone.
Fault(c) ==
    /\ pc[c] \in Running
    /\ faults < MaxFaults
    /\ faults' = faults + 1
    /\ Goto(c, "failed")
    /\ UNCHANGED <<clients, consents, nonces, grant, tokens, family, req, crowded>>

\* The server dies; the nonces were in its memory.
Restart ==
    /\ faults < MaxFaults
    /\ faults' = faults + 1
    /\ nonces' = [c \in Calls |-> NoGrant]
    /\ pc' = [c \in Calls |-> IF pc[c] \in Running THEN "failed" ELSE pc[c]]
    /\ UNCHANGED <<clients, consents, grant, tokens, family, req, crowded>>

\* expires_at passes, 90 days after a client has registered.
Expire(k) ==
    /\ k \in DcrClients /\ ~clients[k].expired
    /\ clients' = [clients EXCEPT ![k].expired = TRUE]
    /\ UNCHANGED <<consents, nonces, grant, tokens, family, pc, req, crowded, faults>>

\* The five minutes of a nonce pass.
ExpireNonce(c) ==
    /\ nonces[c] # NoGrant
    /\ nonces' = [nonces EXCEPT ![c] = NoGrant]
    /\ UNCHANGED <<clients, consents, grant, tokens, family, pc, req, crowded, faults>>

Step(c) ==
    \/ ReadClient(c) \/ HasConsent(c) \/ ConsumeNonce(c) \/ GrantConsent(c)
    \/ CreateCode(c) \/ CreatePKCE(c)
    \/ GetCode(c) \/ GetPKCE(c) \/ DeletePKCE(c) \/ GetCodeAgain(c) \/ InvalidateCode(c)
    \/ GetRefreshToken(c) \/ Rotate(c) \/ RotateAccess(c)
    \/ CreateAccessToken(c) \/ CreateRefreshToken(c)
    \/ DeleteRefreshToken(c) \/ RevokeRefreshToken(c) \/ RevokeAccessToken(c)
    \/ SeedSuppressed(c) \/ UpsertSeed(c) \/ DeleteClient(c)
    \/ MayRegister(c) \/ CountClients(c) \/ CountAgain(c) \/ Prune(c) \/ InsertClient(c)

Next ==
    \/ \E c \in Calls : Submit(c) \/ Step(c) \/ Fault(c) \/ ExpireNonce(c)
    \/ Restart
    \/ \E k \in Clients : Expire(k)

Spec == Init /\ [][Next]_vars

-----------------------------------------------------------------------------
\* The tables and the handlers' variables have their types.
TypeOK ==
    /\ clients \in [Clients -> OAuthClients]
    /\ consents \in [Users -> [Clients -> SUBSET Scopes]]
    /\ nonces \in [Calls -> Grants]
    /\ grant \in [Ids -> Grants]
    /\ code \in [Ids -> {"none", "active", "spent"}]
    /\ pkce \in [Ids -> BOOLEAN]
    /\ access \in [Ids -> BOOLEAN]
    /\ refresh \in [Ids -> {"none", "active", "inactive"}]
    /\ family \in [Ids -> Ids]
    /\ pc \in [Calls -> PCs]
    /\ req \in [Calls -> AllRequests \cup {NoRequest}]
    /\ crowded \in SUBSET Calls
    /\ faults \in 0 .. MaxFaults

\* TokenVerifier: the token's row and its client are there.
Verified(t) == access[t] /\ Live(grant[family[t]].client)

\* Whatever a code or a token may be used for, its user has consented to it,
\* by this or by an earlier confirmation, except the operator's own browser
\* (fosite.go:433); no later consent takes that back.
ScopesConsented ==
    \A f \in Ids :
        code[f] # "none" =>
            grant[f].bootstrap \/ grant[f].scopes \subseteq consents[grant[f].who][grant[f].client]

\* "consent nonce is invalid or already used" (consent.go:240): of the
\* confirmations that send a nonce, however they overlap, one at most goes on,
\* and it confirms what the page was shown for.
Confirms(c) ==
    req[c].op = "confirm" /\ pc[c] \in {"consent", "new_code", "new_pkce", "accepted"}
NonceConfirmsOnce ==
    \A c, d \in Calls :
        Confirms(c) =>
            /\ Confirms(d) /\ req[c].of = req[d].of => c = d
            /\ LET shown == req[req[c].of]
               IN  /\ shown.op = "info" /\ shown.who = req[c].who
                   /\ shown.client = req[c].client /\ shown.scopes = req[c].scopes

\* c has revoked its family, or has sent a code or a refresh token that had
\* been used, and no other call on the family ran meanwhile.
Ends(c) ==
    /\ OfFamily(req[c]) /\ c \notin crowded
    /\ pc[c] = "replayed" \/ (req[c].op = "revoke" /\ pc[c] = "accepted")

\* A family that has ended is dead for good: none of its tokens verifies or can
\* be refreshed, whatever is sent afterwards.  Requests that overlap the end are
\* excepted, because the code has no transaction around fosite's calls.
EndedFamilyStaysDead ==
    \A c \in Calls : Ends(c) =>
        \A t \in Of(Fam(c)) : ~Verified(t) /\ refresh[t] # "active"

\* A family has one refresh token that works, and as many only as requests that
\* overlapped.
OneActiveRefresh ==
    \A t, u \in Ids :
        /\ t # u /\ family[t] = family[u]
        /\ refresh[t] = "active" /\ refresh[u] = "active"
        => {t, u} \subseteq crowded

\* No more clients register than the limit (dcr.go:107), but for registrations
\* that overlapped.
DcrBounded ==
    \/ Cardinality(DcrClients) <= DcrMax
    \/ \E c \in crowded \cap DcrClients : req[c].op = "register"

=============================================================================
