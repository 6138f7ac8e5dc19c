------------------------- MODULE OAuthTokens_proofs -------------------------
(***************************************************************************)
(* What overlapping requests of browsers, clients and administrators keep  *)
(* true, for any requests, families, users, scopes and clients.            *)
(***************************************************************************)
EXTENDS OAuthTokens, FiniteSetTheorems, TLAPS

FamilyOps == {"exchange", "refresh", "revoke"}

\* What a call asks for when it is at a statement.
Asks(c) ==
    /\ req[c] \in AllRequests \/ (pc[c] = "idle" /\ req[c] = NoRequest)
    /\ pc[c] = "client" => req[c].op \in {"info", "authorize", "confirm"}
    /\ pc[c] = "has_consent" => req[c].op = "authorize"
    /\ pc[c] \in {"nonce", "consent"} => req[c].op = "confirm"
    /\ pc[c] \in {"new_code", "new_pkce"} => req[c].op \in {"authorize", "confirm"}
    /\ pc[c] \in {"code", "pkce", "pkce_delete", "code_again", "invalidate"} =>
         req[c].op = "exchange"
    /\ pc[c] \in {"pkce", "pkce_delete", "code_again", "invalidate"} => code[family[c]] # "none"
    /\ pc[c] = "token" => req[c].op \in {"refresh", "revoke"}
    /\ pc[c] \in {"rotate", "rotate_access", "forget"} => req[c].op = "refresh"
    /\ pc[c] \in {"access", "refresh"} => req[c].op \in {"exchange", "refresh"}
    /\ pc[c] \in {"kill_refresh", "kill_access"} => req[c].op \in FamilyOps
    /\ pc[c] \in {"seed", "upsert"} => req[c].op = "seed"
    /\ pc[c] = "delete" => req[c].op = "delete"
    /\ pc[c] \in {"mode", "count", "recount", "insert"} => req[c].op = "register"
    /\ pc[c] = "prune" => req[c].op \in {"seed", "register", "prune"}

\* A call is of the family it was sent something of, whose code has been given
\* to a client, or of its own.
FamilyOf(c) ==
    /\ ~OfFamily(req[c]) => family[c] = c
    /\ OfFamily(req[c]) /\ family[c] \notin Families =>
         /\ family[c] \in Calls /\ pc[family[c]] = "accepted" /\ ~OfFamily(req[family[c]])

\* What bears a call's name was made by that call.
Makes(c) ==
    /\ refresh[c] # "none" => pc[c] = "accepted" /\ req[c].op \in {"exchange", "refresh"}
    /\ access[c] => /\ pc[c] \in {"refresh", "accepted", "failed"}
                    /\ req[c].op \in {"exchange", "refresh"}
    /\ code[c] # "none" => /\ pc[c] \in {"new_pkce", "accepted", "failed"}
                           /\ req[c].op \in {"authorize", "confirm"}
    /\ clients[c].there => pc[c] = "accepted" /\ req[c].op = "register"

Shape ==
    /\ TypeOK
    /\ \A c \in Calls : Asks(c) /\ FamilyOf(c) /\ Makes(c)
    /\ \A f \in Families : family[f] = f

-----------------------------------------------------------------------------
LEMMA RequestType ==
  ASSUME NEW r \in AllRequests
  PROVE  /\ r.op \in {"info", "authorize", "confirm", "exchange", "refresh", "revoke", "seed",
                      "delete", "register", "prune"}
         /\ r.op \in {"info", "authorize", "confirm"} =>
              /\ r.who \in Users /\ r.client \in Clients /\ r.scopes \in SUBSET Scopes
              /\ GrantOf(r) \in Grants /\ GrantOf(r) # NoGrant
         /\ r.op \in {"info", "authorize"} => r.bootstrap \in BOOLEAN
         /\ r.op = "confirm" => r.of \in Calls /\ r.approve \in BOOLEAN
         /\ OfFamily(r) => r.of \in Ids
         /\ r.op \in {"seed", "delete"} => r.client \in SeedClients /\ r.suppress \in BOOLEAN
         /\ OfFamily(r) <=> r.op \in FamilyOps
  BY CallsAreNew DEF AllRequests, InfoRequests, ConfirmRequests, TokenRequests, ClientRequests,
         PlainRequests, OfFamily, FamilyOps, GrantOf, Grants, NoGrant, Ids

LEMMA NoRows ==
  /\ NoGrant \in Grants /\ NoClient \in OAuthClients /\ ~NoClient.there
  /\ ~OfFamily(NoRequest) /\ NoRequest.op = "none"
  BY SomeClient DEF NoGrant, Grants, Clients, NoClient, OAuthClients, OfFamily, NoRequest

LEMMA InitShape == Init => Shape
  <1> SUFFICES ASSUME Init PROVE Shape
    OBVIOUS
  <1>1. clients \in [Clients -> OAuthClients] /\ consents \in [Users -> [Clients -> SUBSET Scopes]]
    BY SeedTypes, NoRows DEF Init, Clients
  <1>2. grant \in [Ids -> Grants] /\ code \in [Ids -> {"none", "active", "spent"}]
    BY SeedTypes, NoRows DEF Init, Rows
  <1>3. /\ pkce \in [Ids -> BOOLEAN] /\ access \in [Ids -> BOOLEAN]
        /\ refresh \in [Ids -> {"none", "active", "inactive"}]
    BY SeedTypes DEF Init, Rows
  <1>4. TypeOK
    BY <1>1, <1>2, <1>3, NoRows, Bounds DEF Init, TypeOK, PCs
  <1>5. ASSUME NEW c \in Calls PROVE Asks(c) /\ FamilyOf(c) /\ Makes(c)
    <2>1. c \notin Families /\ c \notin SeedClients /\ c \in Ids /\ c \in Clients
      BY CallsAreNew DEF Ids, Clients
    <2>2. pc[c] = "idle" /\ req[c] = NoRequest /\ family[c] = c
      BY <2>1 DEF Init
    <2>3. refresh[c] = "none" /\ ~access[c] /\ code[c] = "none" /\ ~clients[c].there
      BY <2>1, NoRows DEF Init
    <2> QED
      BY <2>2, <2>3, NoRows DEF Asks, FamilyOf, Makes
  <1>6. \A f \in Families : family[f] = f
    BY DEF Init, Ids
  <1> QED
    BY <1>4, <1>5, <1>6 DEF Shape

-----------------------------------------------------------------------------
\* A statement of c's makes nothing of another call's.
LEMMA ShapeMoves ==
  ASSUME Shape, NEW c \in Calls, NEW l \in PCs \ {"idle"}, Goto(c, l), pc[c] \in Running,
         UNCHANGED <<req, family>>, TypeOK', Asks(c)', Makes(c)',
         \A f \in Ids : code[f] # "none" => code'[f] # "none",
         \A d \in Calls \ {c} : /\ refresh'[d] # "none" => refresh[d] # "none"
                                /\ access'[d] => access[d]
                                /\ code'[d] # "none" => code[d] # "none"
                                /\ clients'[d].there => clients[d].there
  PROVE  Shape'
  <1>1. /\ pc'[c] = l /\ \A d \in Calls \ {c} : pc'[d] = pc[d]
        /\ pc[c] # "accepted"
    BY DEF Shape, TypeOK, Goto, Running
  <1>2. ASSUME NEW d \in Calls PROVE Asks(d)' /\ Makes(d)'
    <2>1. CASE d = c
      BY <2>1
    <2>2. CASE d # c
      <3>1. family[d] \in Ids
        BY DEF Shape, TypeOK, Ids
      <3>2. Asks(d)'
        BY <1>1, <2>2, <3>1 DEF Shape, Asks
      <3>3. Makes(d)'
        BY <1>1, <2>2 DEF Shape, Makes
      <3> QED
        BY <3>2, <3>3
    <2> QED
      BY <2>1, <2>2
  <1>3. \A d \in Calls : FamilyOf(d)'
    BY <1>1 DEF Shape, FamilyOf
  <1> QED
    BY <1>2, <1>3 DEF Shape

\* ... and when it only reads, none of its own.
LEMMA ShapeAnswers ==
  ASSUME Shape, NEW c \in Calls, NEW l \in PCs \ {"idle"}, Goto(c, l),
         pc[c] \in Running \ {"refresh", "new_pkce"},
         UNCHANGED <<req, family>>, TypeOK', Asks(c)',
         \A f \in Ids : code[f] # "none" => code'[f] # "none",
         \A d \in Calls : /\ refresh'[d] # "none" => refresh[d] # "none"
                          /\ access'[d] => access[d]
                          /\ code'[d] # "none" => code[d] # "none"
                          /\ clients'[d].there => clients[d].there
  PROVE  Shape'
  <1>1. ~access[c] /\ refresh[c] = "none" /\ code[c] = "none" /\ ~clients[c].there
    BY DEF Shape, Makes, Running
  <1>2. Makes(c)'
    BY <1>1 DEF Makes
  <1> QED
    BY <1>2, ShapeMoves

LEMMA AnswerType ==
  ASSUME Shape, NEW c \in Calls, NEW l \in PCs, Answer(c, l)
  PROVE  TypeOK'
  BY DEF Shape, TypeOK, Answer, Goto, tokens

LEMMA AnswerShape ==
  ASSUME Shape, NEW c \in Calls,
         \/ HasConsent(c) \/ GetCode(c) \/ GetPKCE(c) \/ GetCodeAgain(c) \/ GetRefreshToken(c)
         \/ SeedSuppressed(c) \/ MayRegister(c) \/ CountClients(c) \/ CountAgain(c)
  PROVE  Shape'
  <1>1. PICK l \in PCs \ {"idle"} :
           /\ Answer(c, l) /\ pc[c] \in Running \ {"refresh", "new_pkce"}
           /\ pc[c] = "has_consent" => l \in {"new_code", "refused"}
           /\ pc[c] = "code" => /\ l \in {"pkce", "kill_access", "refused"}
                                /\ l = "pkce" => code[family[c]] # "none"
           /\ pc[c] = "pkce" => l \in {"pkce_delete", "refused"}
           /\ pc[c] = "code_again" => l \in {"invalidate", "refused"}
           /\ pc[c] = "token" => /\ l \in {"rotate", "kill_refresh", "forget", "refused"}
                                 /\ l \in {"rotate", "forget"} => req[c].op = "refresh"
           /\ pc[c] = "seed" => l \in {"prune", "upsert"}
           /\ pc[c] = "mode" => l \in {"count", "refused"}
           /\ pc[c] = "count" => l \in {"insert", "prune"}
           /\ pc[c] = "recount" => l \in {"insert", "refused"}
           /\ pc[c] \in {"has_consent", "code", "pkce", "code_again", "token", "seed", "mode",
                         "count", "recount"}
    BY DEF CodeRow, Fam, HasConsent, GetCode, GetPKCE, GetCodeAgain, GetRefreshToken, SeedSuppressed, MayRegister,
           CountClients, CountAgain, At, PCs, Running, Ended
  <1>2. pc'[c] = l
    BY <1>1 DEF Shape, TypeOK, Answer, Goto
  <1>3. Asks(c)'
    <2>1. Asks(c) /\ req' = req /\ code' = code /\ family' = family
      BY <1>1 DEF Shape, Answer, tokens
    <2> QED
      BY <1>1, <1>2, <2>1 DEF Asks, FamilyOps
  <1> QED
    BY <1>1, <1>3, AnswerType, ShapeAnswers DEF Answer, tokens

LEMMA ConsentShape ==
  ASSUME Shape, NEW c \in Calls,
         ReadClient(c) \/ ConsumeNonce(c) \/ GrantConsent(c) \/ CreateCode(c) \/ CreatePKCE(c)
  PROVE  Shape'
  <1>0. /\ TypeOK /\ Asks(c) /\ FamilyOf(c) /\ Makes(c) /\ pc[c] \in PCs /\ c \in Ids
        /\ req[c] \in AllRequests \/ req[c] = NoRequest
    BY DEF Shape, Asks, TypeOK, Ids
  <1>1. CASE ReadClient(c)
    <2>1. PICK l \in {"refused", "accepted", "nonce", "new_code", "has_consent"} :
             /\ Goto(c, l)
             /\ l = "nonce" => req[c].op = "confirm"
             /\ l \in {"new_code", "has_consent"} => req[c].op \notin {"info", "confirm"}
      BY <1>1 DEF ReadClient
    <2>2. /\ pc[c] = "client" /\ req[c] \in AllRequests
          /\ req[c].op \in {"info", "authorize", "confirm"} /\ GrantOf(req[c]) \in Grants
      BY <1>0, <1>1, RequestType, NoRows DEF ReadClient, At, Asks
    <2>3. TypeOK'
      BY <1>1, <2>1, <2>2, <1>0 DEF TypeOK, ReadClient, Goto, tokens, PCs, Running, Ended
    <2>4. pc'[c] = l
      BY <1>0, <2>1 DEF TypeOK, Goto
    <2>5. Asks(c)'
      BY <2>1, <2>2, <2>4, <1>0, <1>1 DEF Asks, ReadClient, FamilyOps
    <2> QED
      BY <1>1, <2>1, <2>2, <2>3, <2>5, ShapeAnswers DEF ReadClient, tokens, PCs, Running, Ended
  <1>2. CASE ConsumeNonce(c)
    <2>1. PICK l \in {"refused", "consent"} : Goto(c, l)
      BY <1>2 DEF ConsumeNonce
    <2>2. pc[c] = "nonce" /\ req[c] \in AllRequests /\ req[c].op = "confirm" /\ req[c].of \in Calls
      BY <1>0, <1>2, RequestType, NoRows DEF ConsumeNonce, At, Asks
    <2>3. TypeOK'
      BY <1>2, <2>1, <2>2, <1>0, NoRows DEF TypeOK, ConsumeNonce, NonceUsed, Goto, tokens, PCs, Running, Ended
    <2>4. pc'[c] = l
      BY <1>0, <2>1 DEF TypeOK, Goto
    <2>5. Asks(c)'
      BY <2>1, <2>2, <2>4, <1>0, <1>2 DEF Asks, ConsumeNonce, FamilyOps
    <2> QED
      BY <1>2, <2>1, <2>2, <2>3, <2>5, ShapeAnswers DEF ConsumeNonce, tokens, PCs, Running, Ended
  <1>3. CASE GrantConsent(c)
    <2>1. Goto(c, "new_code")
      BY <1>3 DEF GrantConsent
    <2>2. /\ pc[c] = "consent" /\ req[c] \in AllRequests /\ req[c].op = "confirm"
          /\ req[c].who \in Users /\ req[c].client \in Clients /\ req[c].scopes \in SUBSET Scopes
      BY <1>0, <1>3, RequestType, NoRows DEF GrantConsent, At, Asks
    <2>3. consents' \in [Users -> [Clients -> SUBSET Scopes]]
      BY <1>3, <2>2, <1>0 DEF GrantConsent, TypeOK, ConsentExtended
    <2>4. TypeOK'
      BY <1>3, <2>1, <2>3, <1>0 DEF TypeOK, GrantConsent, Goto, tokens, PCs, Running, Ended
    <2>5. pc'[c] = "new_code"
      BY <1>0, <2>1 DEF TypeOK, Goto
    <2>6. Asks(c)'
      BY <2>2, <2>5, <1>0, <1>3 DEF Asks, GrantConsent, FamilyOps
    <2> QED
      BY <1>3, <2>1, <2>2, <2>4, <2>6, ShapeAnswers DEF GrantConsent, tokens, PCs, Running, Ended
  <1>4. CASE CreateCode(c)
    <2>1. Goto(c, "new_pkce")
      BY <1>4 DEF CreateCode
    <2>2. /\ pc[c] = "new_code" /\ req[c] \in AllRequests /\ req[c].op \in {"authorize", "confirm"}
          /\ GrantOf(req[c]) \in Grants
      BY <1>0, <1>4, RequestType, NoRows DEF CreateCode, At, Asks
    <2>3. TypeOK'
      BY <1>4, <2>1, <2>2, <1>0 DEF TypeOK, CreateCode, Goto, tokens, PCs, Running, Ended
    <2>4. /\ pc'[c] = "new_pkce" /\ code'[c] = "active"
          /\ \A f \in Ids \ {c} : code'[f] = code[f]
      BY <1>0, <1>4, <2>1 DEF TypeOK, Goto, CreateCode
    <2>5. Asks(c)'
      BY <2>2, <2>4, <1>0, <1>4 DEF Asks, CreateCode, FamilyOps
    <2>6. Makes(c)'
      BY <2>2, <2>4, <1>0, <1>4 DEF Makes, CreateCode
    <2> QED
      BY <1>4, <2>1, <2>2, <2>3, <2>4, <2>5, <2>6, ShapeMoves
      DEF CreateCode, tokens, PCs, Running, Ended, Ids
  <1>5. CASE CreatePKCE(c)
    <2>1. Goto(c, "accepted")
      BY <1>5 DEF CreatePKCE
    <2>2. /\ pc[c] = "new_pkce" /\ req[c] \in AllRequests /\ req[c].op \in {"authorize", "confirm"}
      BY <1>0, <1>5, RequestType, NoRows DEF CreatePKCE, At, Asks
    <2>3. TypeOK'
      BY <1>5, <2>1, <2>2, <1>0 DEF TypeOK, CreatePKCE, Goto, tokens, PCs, Running, Ended
    <2>4. pc'[c] = "accepted"
      BY <1>0, <2>1 DEF TypeOK, Goto
    <2>5. Asks(c)'
      BY <2>2, <2>4, <1>0, <1>5 DEF Asks, CreatePKCE, FamilyOps
    <2>6. Makes(c)'
      BY <2>2, <2>4, <1>0, <1>5 DEF Makes, CreatePKCE
    <2> QED
      BY <1>5, <2>1, <2>2, <2>3, <2>5, <2>6, ShapeMoves
      DEF CreatePKCE, tokens, PCs, Running, Ended
  <1> QED
    BY <1>1, <1>2, <1>3, <1>4, <1>5

LEMMA CodeShape ==
  ASSUME Shape, NEW c \in Calls, DeletePKCE(c) \/ InvalidateCode(c)
  PROVE  Shape'
  <1>0. /\ TypeOK /\ Asks(c) /\ pc[c] \in PCs /\ family[c] \in Ids
    BY DEF Shape, TypeOK, Ids
  <1>1. CASE DeletePKCE(c)
    <2>1. Goto(c, "code_again") /\ pc[c] = "pkce_delete"
      BY <1>1 DEF DeletePKCE, At
    <2>2. TypeOK'
      BY <1>1, <2>1, <1>0 DEF TypeOK, DeletePKCE, Goto, tokens, PCs, Running, Ended, Fam
    <2>3. pc'[c] = "code_again"
      BY <1>0, <2>1 DEF TypeOK, Goto
    <2>4. Asks(c)'
      BY <2>1, <2>3, <1>0, <1>1 DEF Asks, DeletePKCE, FamilyOps
    <2> QED
      BY <1>1, <2>1, <2>2, <2>4, ShapeAnswers DEF DeletePKCE, PCs, Running, Ended
  <1>2. CASE InvalidateCode(c)
    <2>1. Goto(c, "access") /\ pc[c] = "invalidate" /\ code[family[c]] # "none"
      BY <1>0, <1>2 DEF InvalidateCode, At, Asks
    <2>2. TypeOK'
      BY <1>2, <2>1, <1>0 DEF TypeOK, InvalidateCode, Goto, tokens, PCs, Running, Ended, Fam
    <2>3. pc'[c] = "access" /\ \A f \in Ids : code[f] # "none" <=> code'[f] # "none"
      BY <1>0, <1>2, <2>1 DEF TypeOK, Goto, InvalidateCode, Fam
    <2>4. Asks(c)'
      BY <2>1, <2>3, <1>0, <1>2 DEF Asks, InvalidateCode, FamilyOps
    <2> QED
      BY <1>2, <2>1, <2>2, <2>3, <2>4, ShapeAnswers DEF InvalidateCode, PCs, Running, Ended, Ids
  <1> QED
    BY <1>1, <1>2

LEMMA TokenShape ==
  ASSUME Shape, NEW c \in Calls,
         \/ Rotate(c) \/ RotateAccess(c) \/ CreateAccessToken(c) \/ CreateRefreshToken(c)
         \/ DeleteRefreshToken(c) \/ RevokeRefreshToken(c) \/ RevokeAccessToken(c)
  PROVE  Shape'
  <1>0. /\ TypeOK /\ Asks(c) /\ Makes(c) /\ pc[c] \in PCs /\ family[c] \in Ids /\ c \in Ids
        /\ pc[c] \in {"forget", "kill_refresh", "kill_access", "rotate"} => req[c].op \in FamilyOps
    BY DEF Shape, TypeOK, Ids, Asks, FamilyOps
  <1>1. PICK l \in {"rotate_access", "access", "refresh", "accepted", "kill_refresh", "kill_access",
                    "replayed"} :
           /\ Goto(c, l)
           /\ pc[c] = "rotate" => l = "rotate_access"
           /\ pc[c] = "rotate_access" => l = "access"
           /\ pc[c] = "access" => l = "refresh"
           /\ pc[c] = "refresh" => l = "accepted"
           /\ pc[c] = "forget" => l = "kill_refresh"
           /\ pc[c] \in {"kill_refresh", "kill_access"} =>
                l \in {"replayed", "kill_access", "kill_refresh", "accepted"}
           /\ pc[c] \in {"rotate", "rotate_access", "access", "refresh", "forget", "kill_refresh",
                         "kill_access"}
    BY DEF Rotate, RotateAccess, CreateAccessToken, CreateRefreshToken, DeleteRefreshToken,
           RevokeRefreshToken, RevokeAccessToken, At
  <1>2. /\ UNCHANGED <<clients, consents, nonces, grant, code, pkce, family, req, crowded, faults>>
        /\ pc'[c] = l
    BY <1>0, <1>1 DEF TypeOK, Goto, Rotate, RotateAccess, CreateAccessToken, CreateRefreshToken,
       DeleteRefreshToken, RevokeRefreshToken, RevokeAccessToken
  <1>3. Asks(c)'
    BY <1>0, <1>1, <1>2 DEF Asks, FamilyOps
  <1>4. ASSUME access' \in [Ids -> BOOLEAN], refresh' \in [Ids -> {"none", "active", "inactive"}]
        PROVE  TypeOK'
    BY <1>0, <1>1, <1>2, <1>4 DEF TypeOK, Goto, PCs, Running, Ended
  <1>5. CASE CreateAccessToken(c)
    <2>1. /\ pc[c] = "access" /\ access'[c] /\ \A d \in Ids \ {c} : access'[d] = access[d]
          /\ access' \in [Ids -> BOOLEAN] /\ refresh' = refresh
      BY <1>0, <1>5 DEF TypeOK, CreateAccessToken, At
    <2>2. TypeOK'
      BY <2>1, <1>0, <1>4 DEF TypeOK
    <2>3. Makes(c)'
      BY <2>1, <1>0, <1>1, <1>2 DEF Makes, Asks
    <2> QED
      BY <1>1, <1>2, <1>3, <2>1, <2>2, <2>3, ShapeMoves DEF PCs, Running, Ended, Ids
  <1>6. CASE CreateRefreshToken(c)
    <2>1. /\ pc[c] = "refresh" /\ refresh'[c] = "active" /\ access' = access
          /\ \A d \in Ids \ {c} : refresh'[d] = refresh[d]
          /\ refresh' \in [Ids -> {"none", "active", "inactive"}]
      BY <1>0, <1>6 DEF TypeOK, CreateRefreshToken, At
    <2>2. TypeOK'
      BY <2>1, <1>0, <1>4 DEF TypeOK
    <2>3. Makes(c)'
      BY <2>1, <1>0, <1>1, <1>2 DEF Makes, Asks
    <2> QED
      BY <1>1, <1>2, <1>3, <2>1, <2>2, <2>3, ShapeMoves DEF PCs, Running, Ended, Ids
  <1>7. CASE Rotate(c) \/ RotateAccess(c) \/ DeleteRefreshToken(c) \/ RevokeRefreshToken(c)
             \/ RevokeAccessToken(c)
    <2>1. /\ access' \in [Ids -> BOOLEAN] /\ refresh' \in [Ids -> {"none", "active", "inactive"}]
      BY <1>0, <1>7 DEF TypeOK, Rotate, RotateAccess, DeleteRefreshToken, RevokeRefreshToken,
         RevokeAccessToken, Rotated, Deactivated, WithoutAccess
    <2>2. /\ pc[c] \in {"rotate", "rotate_access", "forget", "kill_refresh", "kill_access"}
          /\ \A d \in Ids : /\ refresh'[d] # "none" => refresh[d] # "none"
                            /\ access'[d] => access[d]
      BY <1>0, <1>7 DEF TypeOK, Rotate, RotateAccess, DeleteRefreshToken, RevokeRefreshToken,
         RevokeAccessToken, Rotated, Deactivated, WithoutAccess, At
    <2>3. TypeOK'
      BY <2>1, <1>4
    <2> QED
      BY <1>1, <1>2, <1>3, <2>2, <2>3, ShapeAnswers DEF PCs, Running, Ended, Ids
  <1> QED
    BY <1>5, <1>6, <1>7

LEMMA ClientShape ==
  ASSUME Shape, NEW c \in Calls,
         UpsertSeed(c) \/ DeleteClient(c) \/ Prune(c) \/ InsertClient(c)
  PROVE  Shape'
  <1>0. /\ TypeOK /\ Asks(c) /\ Makes(c) /\ pc[c] \in PCs /\ c \in Clients
        /\ clients \in [Clients -> OAuthClients]
        /\ req[c] \in AllRequests \/ req[c] = NoRequest
    BY DEF Shape, Asks, TypeOK, Clients
  <1>1. ASSUME NEW l \in PCs, OnlyClients(c, l), clients' \in [Clients -> OAuthClients]
        PROVE  TypeOK' /\ pc'[c] = l
    BY <1>0, <1>1 DEF TypeOK, OnlyClients, Goto, tokens
  <1>2. CASE UpsertSeed(c)
    <2>1. /\ pc[c] = "upsert" /\ req[c] \in AllRequests /\ req[c].op = "seed"
          /\ req[c].client \in SeedClients
      BY <1>0, <1>2, RequestType, NoRows DEF UpsertSeed, At, Asks
    <2>2. clients' \in [Clients -> OAuthClients]
      BY <1>0, <1>2, <2>1 DEF UpsertSeed, PutClient, OAuthClients
    <2>3. \A d \in Calls : clients'[d] = clients[d]
      BY <1>0, <1>2, <2>1, CallsAreNew DEF UpsertSeed, PutClient, Clients
    <2>4. OnlyClients(c, "prune") /\ "prune" \in PCs \ {"idle"}
      BY <1>2 DEF UpsertSeed, PCs, Running
    <2>5. TypeOK' /\ pc'[c] = "prune"
      BY <2>2, <2>4, <1>1
    <2>6. Asks(c)'
      BY <1>0, <2>1, <2>4, <2>5 DEF Asks, OnlyClients, tokens
    <2> QED
      BY <2>1, <2>3, <2>4, <2>5, <2>6, ShapeAnswers DEF OnlyClients, tokens, Running
  <1>3. CASE DeleteClient(c)
    <2>1. /\ pc[c] = "delete" /\ req[c] \in AllRequests /\ req[c].op = "delete"
          /\ req[c].client \in SeedClients /\ req[c].suppress \in BOOLEAN
      BY <1>0, <1>3, RequestType, NoRows DEF DeleteClient, At, Asks
    <2>2. PICK l \in {"accepted", "refused"} : OnlyClients(c, l)
      BY <1>3 DEF DeleteClient, OnlyClients, Answer
    <2>3. clients' \in [Clients -> OAuthClients]
      <3>1. req[c].client \in Clients /\ clients[req[c].client] \in OAuthClients
        BY <1>0, <2>1 DEF Clients
      <3>2. [clients[req[c].client] EXCEPT !.deleted = TRUE, !.suppressed = req[c].suppress]
              \in OAuthClients
        BY <3>1, <2>1 DEF OAuthClients
      <3> QED
        BY <1>0, <1>3, <3>1, <3>2 DEF DeleteClient, PutClient, Answer
    <2>4. \A d \in Calls : clients'[d] = clients[d]
      BY <1>0, <1>3, <2>1, CallsAreNew DEF DeleteClient, PutClient, Clients, Answer
    <2>5. TypeOK' /\ pc'[c] = l /\ l \in PCs \ {"idle"}
      BY <2>2, <2>3, <1>1 DEF PCs, Running, Ended
    <2>6. Asks(c)'
      BY <1>0, <2>1, <2>2, <2>5 DEF Asks, OnlyClients, tokens
    <2> QED
      BY <2>1, <2>2, <2>4, <2>5, <2>6, ShapeAnswers DEF OnlyClients, tokens, Running
  <1>4. CASE Prune(c)
    <2>1. /\ pc[c] = "prune" /\ req[c].op \in {"seed", "register", "prune"}
          /\ req[c] \in AllRequests
      BY <1>0, <1>4 DEF Prune, At, Asks
    <2>2. PICK l \in {"accepted", "recount"} :
             OnlyClients(c, l) /\ (l = "recount" => req[c].op = "register")
      BY <1>4 DEF Prune
    <2>3. clients' \in [Clients -> OAuthClients]
      <3>1. \A k \in Clients : clients[k] \in OAuthClients
        BY <1>0
      <3>2. \A k \in Clients : [clients[k] EXCEPT !.deleted = TRUE] \in OAuthClients
        BY <3>1 DEF OAuthClients
      <3> QED
        BY <1>4, <3>1, <3>2 DEF Prune
    <2>4. \A d \in Calls : clients'[d].there = clients[d].there
      <3>1. \A k \in Clients : clients[k] \in OAuthClients
        BY <1>0
      <3>2. \A k \in Clients : [clients[k] EXCEPT !.deleted = TRUE].there = clients[k].there
        BY <3>1 DEF OAuthClients
      <3> QED
        BY <1>4, <3>2 DEF Prune, Clients
    <2>5. TypeOK' /\ pc'[c] = l /\ l \in PCs \ {"idle"}
      BY <2>2, <2>3, <1>1 DEF PCs, Running, Ended
    <2>6. Asks(c)'
      BY <1>0, <2>1, <2>2, <2>5 DEF Asks, OnlyClients, tokens
    <2> QED
      BY <2>1, <2>2, <2>4, <2>5, <2>6, ShapeAnswers DEF OnlyClients, tokens, Running
  <1>5. CASE InsertClient(c)
    <2>1. pc[c] = "insert" /\ req[c].op = "register" /\ req[c] \in AllRequests
      BY <1>0, <1>5 DEF InsertClient, At, Asks
    <2>2. /\ clients' \in [Clients -> OAuthClients]
          /\ \A d \in Calls \ {c} : clients'[d] = clients[d]
      <3>1. [NoClient EXCEPT !.there = TRUE] \in OAuthClients
        BY NoRows DEF OAuthClients
      <3> QED
        BY <1>0, <1>5, <3>1 DEF InsertClient, PutClient
    <2>3. OnlyClients(c, "accepted") /\ "accepted" \in PCs \ {"idle"}
      BY <1>5 DEF InsertClient, PCs, Ended
    <2>4. TypeOK' /\ pc'[c] = "accepted"
      BY <2>2, <2>3, <1>1
    <2>5. Asks(c)' /\ Makes(c)'
      BY <1>0, <2>1, <2>3, <2>4 DEF Asks, Makes, OnlyClients, tokens
    <2> QED
      BY <2>1, <2>2, <2>3, <2>4, <2>5, ShapeMoves DEF OnlyClients, tokens, Running
  <1> QED
    BY <1>2, <1>3, <1>4, <1>5

LEMMA StepShape ==
  ASSUME Shape, NEW c \in Calls, Step(c)
  PROVE  Shape'
  BY AnswerShape, ConsentShape, CodeShape, TokenShape, ClientShape DEF Step

LEMMA SubmitShape ==
  ASSUME Shape, NEW c \in Calls, Submit(c)
  PROVE  Shape'
  <1>0. /\ TypeOK /\ Asks(c) /\ FamilyOf(c) /\ Makes(c) /\ c \in Ids /\ pc[c] = "idle"
        /\ c \notin Families
    BY CallsAreNew DEF Shape, Ids, Submit
  <1>1. PICK r \in Requests[c] :
           /\ OfFamily(r) \/ r.op = "confirm" => Given(r.of)
           /\ req' = [req EXCEPT ![c] = r]
           /\ family' = [family EXCEPT ![c] = IF OfFamily(r) THEN family[r.of] ELSE c]
           /\ crowded' = crowded \cup Meets(c, r) \cup (IF Meets(c, r) = {} THEN {} ELSE {c})
           /\ Goto(c, FirstStep(r.op))
    BY DEF Submit
  <1>2. /\ r \in AllRequests
        /\ OfFamily(r) => r.of \in Ids
        /\ OfFamily(r) <=> r.op \in FamilyOps
        /\ r.op \in {"info", "authorize", "confirm", "exchange", "refresh", "revoke", "seed",
                     "delete", "register", "prune"}
    <2>1. r \in AllRequests
      BY RequestTypes
    <2> QED
      BY <2>1, RequestType
  <1>3. FirstStep(r.op) \in PCs \ {"idle", "accepted", "failed", "replayed"}
    BY <1>2 DEF FirstStep, PCs, Running
  <1>4. /\ pc' \in [Calls -> PCs] /\ pc'[c] = FirstStep(r.op)
        /\ req'[c] = r /\ family'[c] = IF OfFamily(r) THEN family[r.of] ELSE c
    BY <1>0, <1>1, <1>3 DEF TypeOK, Goto
  <1>5. \A d \in Calls \ {c} : pc'[d] = pc[d] /\ req'[d] = req[d] /\ family'[d] = family[d]
    BY <1>0, <1>1 DEF TypeOK, Goto
  <1>6. UNCHANGED <<clients, consents, nonces, grant, code, pkce, access, refresh, faults>>
    BY DEF Submit, tokens
  <1>7. TypeOK'
    <2>1. req' \in [Calls -> AllRequests \cup {NoRequest}]
      BY <1>0, <1>1, <1>2 DEF TypeOK
    <2>3. (IF OfFamily(r) THEN family[r.of] ELSE c) \in Ids /\ family \in [Ids -> Ids]
      BY <1>0, <1>2 DEF TypeOK
    <2>4. family' \in [Ids -> Ids]
      BY <1>1, <2>3
    <2>2. crowded' \in SUBSET Calls
      BY <1>0, <1>1 DEF TypeOK, Meets
    <2> QED
      BY <1>0, <1>4, <1>6, <2>1, <2>2, <2>4 DEF TypeOK
  <1>8. Asks(c)' /\ Makes(c)'
    <2>1. Makes(c)'
      BY <1>0, <1>6 DEF Makes
    <2>2. Asks(c)'
      <3>1. req'[c] \in AllRequests /\ req'[c].op = r.op
        BY <1>2, <1>4
      <3>2. CASE r.op \in {"info", "authorize", "confirm"}
        <4>1. pc'[c] = "client"
          BY <3>2, <1>4 DEF FirstStep
        <4> QED
          BY <3>1, <3>2, <4>1 DEF Asks
      <3>3. CASE r.op \in FamilyOps
        <4>1. /\ r.op = "exchange" => pc'[c] = "code"
              /\ r.op \in {"refresh", "revoke"} => pc'[c] = "token"
          BY <3>3, <1>4 DEF FirstStep, FamilyOps
        <4> QED
          BY <3>1, <3>3, <4>1 DEF Asks, FamilyOps
      <3>4. CASE r.op \in {"seed", "delete", "register", "prune"}
        <4>1. /\ r.op = "register" => pc'[c] = "mode"
              /\ r.op # "register" => pc'[c] = r.op
          BY <3>4, <1>4 DEF FirstStep
        <4> QED
          BY <3>1, <3>4, <4>1 DEF Asks
      <3> QED
        BY <1>2, <3>2, <3>3, <3>4 DEF FamilyOps
    <2> QED
      BY <2>1, <2>2
  <1>9. FamilyOf(c)'
    <2>1. CASE ~OfFamily(r)
      BY <2>1, <1>4 DEF FamilyOf
    <2>2. CASE OfFamily(r)
      <3>1. CASE r.of \in Families
        BY <3>1, <2>2, <1>4 DEF Shape, FamilyOf
      <3>2. CASE r.of \notin Families
        <4>1. r.of \in Calls /\ pc[r.of] = "accepted" /\ r.of # c
          BY <3>2, <2>2, <1>0, <1>1 DEF Given
        <4>2. FamilyOf(r.of)
          BY <4>1 DEF Shape
        <4>3. family[r.of] \in Families
                \/ (/\ family[r.of] \in Calls \ {c} /\ pc[family[r.of]] = "accepted"
                     /\ ~OfFamily(req[family[r.of]]))
          BY <4>1, <4>2, <1>0 DEF FamilyOf
        <4> QED
          BY <4>3, <2>2, <1>4, <1>5 DEF FamilyOf
      <3> QED
        BY <3>1, <3>2
    <2> QED
      BY <2>1, <2>2
  <1>10. ASSUME NEW d \in Calls \ {c} PROVE Asks(d)' /\ Makes(d)' /\ FamilyOf(d)'
    <2>1. Asks(d) /\ Makes(d) /\ FamilyOf(d)
      BY DEF Shape
    <2>2. Asks(d)' /\ Makes(d)'
      BY <2>1, <1>5, <1>6 DEF Asks, Makes
    <2>3. FamilyOf(d)'
      BY <2>1, <1>0, <1>5 DEF FamilyOf
    <2> QED
      BY <2>2, <2>3
  <1>11. \A f \in Families : family'[f] = f
    BY <1>0, <1>1 DEF Shape, TypeOK
  <1> QED
    BY <1>7, <1>8, <1>9, <1>10, <1>11 DEF Shape

LEMMA FaultShape ==
  ASSUME Shape, NEW c \in Calls, Fault(c)
  PROVE  Shape'
  <1>1. /\ Goto(c, "failed") /\ pc[c] \in Running /\ TypeOK /\ Asks(c) /\ Makes(c) /\ pc[c] # "idle"
        /\ UNCHANGED <<clients, consents, nonces, grant, code, pkce, access, refresh, family, req, crowded>>
    BY DEF Shape, Fault, tokens, Running
  <1>2. faults' \in 0 .. MaxFaults
    BY Bounds, <1>1 DEF TypeOK, Fault
  <1>3. TypeOK' /\ pc'[c] = "failed"
    BY <1>1, <1>2 DEF TypeOK, Goto, PCs, Ended
  <1>4. Asks(c)' /\ Makes(c)'
    BY <1>1, <1>3 DEF Asks, Makes, Running
  <1> QED
    BY <1>1, <1>3, <1>4, ShapeMoves DEF PCs, Ended

LEMMA EnvironmentShape ==
  ASSUME Shape, \/ Restart \/ \E k \in Clients : Expire(k)
                \/ \E c \in Calls : ExpireNonce(c)
                \/ UNCHANGED vars
  PROVE  Shape'
  <1>0. TypeOK /\ clients \in [Clients -> OAuthClients]
    BY DEF Shape, TypeOK
  <1>1. /\ \A k \in Clients : clients'[k].there => clients[k].there
        /\ clients' \in [Clients -> OAuthClients]
    <2>1. CASE \E k \in Clients : Expire(k)
      <3>1. PICK k \in Clients : clients' = [clients EXCEPT ![k].expired = TRUE]
        BY <2>1 DEF Expire
      <3>2. [clients[k] EXCEPT !.expired = TRUE] \in OAuthClients
        BY <1>0 DEF OAuthClients
      <3>3. [clients[k] EXCEPT !.expired = TRUE].there = clients[k].there
        BY <1>0 DEF OAuthClients
      <3> QED
        BY <1>0, <3>1, <3>2, <3>3
    <2>2. CASE Restart \/ (\E c \in Calls : ExpireNonce(c)) \/ UNCHANGED vars
      <3>1. clients' = clients
        BY <2>2 DEF Restart, ExpireNonce, vars
      <3> QED
        BY <1>0, <3>1
    <2> QED
      BY <2>1, <2>2
  <1>2. /\ UNCHANGED <<consents, grant, code, pkce, access, refresh, family, req, crowded>>
        /\ nonces' \in [Calls -> Grants]
    BY <1>0, NoRows DEF TypeOK, Restart, Expire, ExpireNonce, vars, tokens
  <1>3. faults' \in 0 .. MaxFaults
    <2>1. CASE Restart
      BY <2>1, <1>0, Bounds DEF TypeOK, Restart
    <2>2. CASE ~Restart
      BY <2>2, <1>0 DEF TypeOK, Expire, ExpireNonce, vars
    <2> QED
      BY <2>1, <2>2
  <1>4. /\ pc' \in [Calls -> PCs]
        /\ \A c \in Calls : pc'[c] = pc[c] \/ (pc'[c] = "failed" /\ pc[c] \in Running)
    BY <1>0 DEF TypeOK, Restart, Expire, ExpireNonce, vars, PCs, Ended
  <1>5. TypeOK'
    BY <1>0, <1>1, <1>2, <1>3, <1>4 DEF TypeOK
  <1>6. ASSUME NEW c \in Calls PROVE Asks(c)' /\ FamilyOf(c)' /\ Makes(c)'
    <2>1. Asks(c) /\ FamilyOf(c) /\ Makes(c) /\ c \in Clients
      BY DEF Shape, Clients
    <2>2. pc'[c] = pc[c] \/ (pc'[c] = "failed" /\ pc[c] \in Running)
      BY <1>4
    <2>3. Asks(c)'
      BY <2>1, <2>2, <1>2 DEF Asks, Running
    <2>4. Makes(c)'
      BY <2>1, <2>2, <1>1, <1>2 DEF Makes, Running
    <2>5. FamilyOf(c)'
      BY <2>1, <1>2, <1>4 DEF FamilyOf, Running
    <2> QED
      BY <2>3, <2>4, <2>5
  <1> QED
    BY <1>2, <1>5, <1>6 DEF Shape

LEMMA NextShape == Shape /\ [Next]_vars => Shape'
  BY StepShape, SubmitShape, FaultShape, EnvironmentShape DEF Next

\* The tables and the handlers keep their types.
THEOREM TokensTypeCorrect == Spec => []TypeOK
  <1>1. Shape => TypeOK
    BY DEF Shape
  <1> QED
    BY <1>1, InitShape, NextShape, PTL DEF Spec

-----------------------------------------------------------------------------
\* What a statement of c's may write, and where it may leave c.
LEMMA StepWrites ==
  ASSUME Shape, NEW c \in Calls, Step(c)
  PROVE  /\ UNCHANGED <<req, family, crowded, faults>>
         /\ pc[c] \in Running
         /\ \A d \in Calls \ {c} : pc'[d] = pc[d]
         /\ UNCHANGED nonces \/ ReadClient(c) \/ ConsumeNonce(c)
         /\ UNCHANGED consents \/ GrantConsent(c)
         /\ UNCHANGED <<code, grant>> \/ CreateCode(c) \/ InvalidateCode(c)
         /\ UNCHANGED access \/ RotateAccess(c) \/ CreateAccessToken(c) \/ RevokeAccessToken(c)
         /\ \/ UNCHANGED refresh
            \/ Rotate(c) \/ CreateRefreshToken(c) \/ DeleteRefreshToken(c) \/ RevokeRefreshToken(c)
         /\ UNCHANGED clients \/ UpsertSeed(c) \/ DeleteClient(c) \/ Prune(c) \/ InsertClient(c)
  <1>0. pc \in [Calls -> PCs]
    BY DEF Shape, TypeOK
  <1>1. CASE \/ ReadClient(c) \/ HasConsent(c) \/ ConsumeNonce(c) \/ GrantConsent(c)
             \/ CreateCode(c) \/ CreatePKCE(c)
    BY <1>0, <1>1 DEF ReadClient, HasConsent, ConsumeNonce, GrantConsent, CreateCode, CreatePKCE,
       Answer, Goto, At, Running, tokens
  <1>2. CASE \/ GetCode(c) \/ GetPKCE(c) \/ DeletePKCE(c) \/ GetCodeAgain(c) \/ InvalidateCode(c)
             \/ GetRefreshToken(c)
    BY <1>0, <1>2 DEF GetCode, GetPKCE, DeletePKCE, GetCodeAgain, InvalidateCode, GetRefreshToken,
       Answer, Goto, At, Running, tokens
  <1>3. CASE \/ Rotate(c) \/ RotateAccess(c) \/ CreateAccessToken(c) \/ CreateRefreshToken(c)
             \/ DeleteRefreshToken(c) \/ RevokeRefreshToken(c) \/ RevokeAccessToken(c)
    BY <1>0, <1>3 DEF Rotate, RotateAccess, CreateAccessToken, CreateRefreshToken,
       DeleteRefreshToken, RevokeRefreshToken, RevokeAccessToken, Goto, At, Running
  <1>4. CASE \/ SeedSuppressed(c) \/ UpsertSeed(c) \/ DeleteClient(c)
             \/ MayRegister(c) \/ CountClients(c) \/ CountAgain(c) \/ Prune(c) \/ InsertClient(c)
    BY <1>0, <1>4 DEF SeedSuppressed, UpsertSeed, DeleteClient, MayRegister, CountClients, CountAgain,
       Prune, InsertClient, OnlyClients, Answer, Goto, At, Running, tokens
  <1> QED
    BY <1>1, <1>2, <1>3, <1>4 DEF Step

\* Where the statements of a confirmation and of an authorization lead.
LEMMA StepAsks ==
  ASSUME Shape, NEW c \in Calls, Step(c)
  PROVE  /\ pc'[c] = "consent" => ConsumeNonce(c)
         /\ pc'[c] = "new_code" => ReadClient(c) \/ HasConsent(c) \/ GrantConsent(c)
         /\ pc'[c] = "new_pkce" => pc[c] = "new_code"
         /\ pc'[c] = "accepted" /\ req[c].op = "confirm" => pc[c] = "new_pkce"
         /\ req[c].op = "confirm" /\ pc[c] = "client" => pc'[c] \notin {"new_code", "accepted"}
  <1>0. pc \in [Calls -> PCs] /\ Asks(c)
    BY DEF Shape, TypeOK
  <1>1. CASE \/ ReadClient(c) \/ HasConsent(c) \/ ConsumeNonce(c) \/ GrantConsent(c)
             \/ CreateCode(c) \/ CreatePKCE(c)
    BY <1>0, <1>1 DEF ReadClient, HasConsent, ConsumeNonce, GrantConsent, CreateCode, CreatePKCE,
       Answer, Goto, At
  <1>2. CASE \/ GetCode(c) \/ GetPKCE(c) \/ DeletePKCE(c) \/ GetCodeAgain(c) \/ InvalidateCode(c)
             \/ GetRefreshToken(c)
    BY <1>0, <1>2 DEF GetCode, GetPKCE, DeletePKCE, GetCodeAgain, InvalidateCode, GetRefreshToken,
       Answer, Goto, At
  <1>3. CASE \/ Rotate(c) \/ RotateAccess(c) \/ CreateAccessToken(c) \/ CreateRefreshToken(c)
             \/ DeleteRefreshToken(c) \/ RevokeRefreshToken(c) \/ RevokeAccessToken(c)
    BY <1>0, <1>3 DEF Rotate, RotateAccess, CreateAccessToken, CreateRefreshToken,
       DeleteRefreshToken, RevokeRefreshToken, RevokeAccessToken, Goto, At, Asks, FamilyOps
  <1>4. CASE \/ SeedSuppressed(c) \/ UpsertSeed(c) \/ DeleteClient(c)
             \/ MayRegister(c) \/ CountClients(c) \/ CountAgain(c) \/ Prune(c) \/ InsertClient(c)
    BY <1>0, <1>4 DEF SeedSuppressed, UpsertSeed, DeleteClient, MayRegister, CountClients, CountAgain,
       Prune, InsertClient, OnlyClients, Answer, Goto, At, Asks
  <1> QED
    BY <1>1, <1>2, <1>3, <1>4 DEF Step

\* What moves without a statement: a call comes in, ends, or loses a nonce.
Outside(c) == Submit(c) \/ Fault(c) \/ ExpireNonce(c)
Elsewhere == Restart \/ (\E k \in Clients : Expire(k)) \/ UNCHANGED vars

LEMMA OutsideWrites ==
  ASSUME Shape, (\E c \in Calls : Outside(c)) \/ Elsewhere
  PROVE  /\ UNCHANGED <<consents, grant, code, access, refresh>>
         /\ \A d \in Calls :
              \/ pc'[d] = pc[d] /\ req'[d] = req[d] /\ family'[d] = family[d]
              \/ /\ pc[d] \in Running /\ pc'[d] = "failed"
                 /\ req'[d] = req[d] /\ family'[d] = family[d]
              \/ /\ pc[d] = "idle"
                 /\ pc'[d] \in {"client", "code", "token", "mode", "seed", "delete", "prune"}
         /\ \A d \in Calls : nonces'[d] \in {nonces[d], NoGrant}
         /\ crowded \subseteq crowded'
  <1>0. /\ pc \in [Calls -> PCs] /\ req \in [Calls -> AllRequests \cup {NoRequest}]
        /\ nonces \in [Calls -> Grants] /\ family \in [Ids -> Ids]
    BY DEF Shape, TypeOK
  <1>1. ASSUME NEW c \in Calls, Submit(c)
        PROVE  pc'[c] \in {"client", "code", "token", "mode", "seed", "delete", "prune"}
    <2>1. PICK r \in Requests[c] : Goto(c, FirstStep(r.op))
      BY <1>1 DEF Submit
    <2>2. r \in AllRequests
      BY RequestTypes
    <2>3. r.op \in {"info", "authorize", "confirm", "exchange", "refresh", "revoke", "seed",
                   "delete", "register", "prune"}
      BY <2>2, RequestType
    <2> QED
      BY <1>0, <2>1, <2>3 DEF Goto, FirstStep
  <1>2. CASE \E c \in Calls : Submit(c)
    <2>1. PICK c \in Calls : Submit(c)
      BY <1>2
    <2> QED
      <3>1. /\ UNCHANGED <<consents, grant, code, access, refresh, nonces>>
            /\ crowded \subseteq crowded' /\ pc[c] = "idle"
        BY <2>1 DEF Submit, tokens
      <3>2. \A d \in Calls \ {c} : pc'[d] = pc[d] /\ req'[d] = req[d]
        BY <1>0, <2>1 DEF Submit, Goto
      <3>3. \A d \in Calls \ {c} : family'[d] = family[d]
        BY <1>0, <2>1 DEF Submit, Ids
      <3>4. pc'[c] \in {"client", "code", "token", "mode", "seed", "delete", "prune"}
        BY <1>1, <2>1
      <3> QED
        BY <3>1, <3>2, <3>3, <3>4
  <1>3. CASE (\E c \in Calls : Fault(c) \/ ExpireNonce(c)) \/ Elsewhere
    BY <1>0, <1>3 DEF Fault, ExpireNonce, Elsewhere, Restart, Expire, vars, tokens, Goto, Ids
  <1> QED
    BY <1>2, <1>3 DEF Outside

-----------------------------------------------------------------------------
\* Consents only grow, so a code keeps what it was issued under.
Consented(g) == g.bootstrap \/ g.scopes \subseteq consents[g.who][g.client]

ConsentInv ==
    /\ \A f \in Ids : code[f] # "none" => grant[f].who \in Users /\ Consented(grant[f])
    /\ \A c \in Calls : pc[c] = "new_code" => Consented(GrantOf(req[c]))

LEMMA InitConsent == Init => ConsentInv
  <1> SUFFICES ASSUME Init PROVE ConsentInv
    OBVIOUS
  <1>1. ASSUME NEW f \in Ids, code[f] # "none" PROVE grant[f].who \in Users /\ Consented(grant[f])
    <2>1. f \in Families /\ SeedRows[f].code # "none" /\ grant[f] = SeedRows[f].grant
          /\ consents = SeedConsents
      BY <1>1 DEF Init
    <2> QED
      BY <2>1, SeedsConsented DEF Consented
  <1> QED
    BY <1>1 DEF ConsentInv, Init

LEMMA ConsentsGrow ==
  ASSUME Shape, Next \/ UNCHANGED vars
  PROVE  \A u \in Users : \A k \in Clients : consents[u][k] \subseteq consents'[u][k]
  <1>1. ASSUME NEW c \in Calls, Step(c)
        PROVE  \A u \in Users : \A k \in Clients : consents[u][k] \subseteq consents'[u][k]
    <2>1. CASE GrantConsent(c)
      BY <2>1 DEF GrantConsent, ConsentExtended, Shape, TypeOK
    <2> QED
      BY <2>1, <1>1, StepWrites
  <1> QED
    BY <1>1, OutsideWrites DEF Next, Outside, Elsewhere

LEMMA NextConsent ==
  ASSUME Shape, Shape', ConsentInv, Next \/ UNCHANGED vars
  PROVE  ConsentInv'
  <1>0. /\ TypeOK /\ \A c \in Calls : Asks(c) /\ c \in Ids
        /\ \A u \in Users : \A k \in Clients : consents[u][k] \subseteq consents'[u][k]
    BY ConsentsGrow DEF Shape, Ids
  <1>1. ASSUME NEW g \in Grants, g.who \in Users, Consented(g) PROVE Consented(g)'
    BY <1>0, <1>1 DEF Consented, Grants
  <1>2. ASSUME NEW c \in Calls, pc[c] = "new_code"
        PROVE  GrantOf(req[c]) \in Grants /\ GrantOf(req[c]).who \in Users
    BY <1>0, <1>2, RequestType DEF Asks, GrantOf
  <1>3. ASSUME NEW f \in Ids, code[f] # "none", grant'[f] = grant[f]
        PROVE  grant'[f].who \in Users /\ Consented(grant[f])'
    <2>1. grant[f] \in Grants /\ grant[f].who \in Users /\ Consented(grant[f])
      BY <1>0, <1>3 DEF TypeOK, ConsentInv
    <2> QED
      BY <2>1, <1>1, <1>3
  <1>4. ASSUME NEW c \in Calls, Step(c) PROVE ConsentInv'
    <2>1. UNCHANGED req /\ \A d \in Calls \ {c} : pc'[d] = pc[d]
      BY <1>4, StepWrites
    <2>2. ASSUME NEW d \in Calls, pc'[d] = "new_code", pc[d] = "new_code"
          PROVE  Consented(GrantOf(req[d]))'
      <3>1. Consented(GrantOf(req[d]))
        BY <2>2 DEF ConsentInv
      <3>2. Consented(GrantOf(req[d]))' <=>
              (GrantOf(req[d]).bootstrap
                 \/ GrantOf(req[d]).scopes \subseteq consents'[GrantOf(req[d]).who][GrantOf(req[d]).client])
        BY <2>1 DEF Consented, GrantOf
      <3> QED
        BY <3>1, <3>2, <1>2, <2>2, <1>0 DEF Consented, Grants
    <2>3. ASSUME pc'[c] = "new_code" PROVE Consented(GrantOf(req[c]))'
      <3>1. CASE ReadClient(c)
        <4>1. req[c].op = "authorize" /\ req[c].bootstrap
          BY <3>1, <2>3, <1>0 DEF ReadClient, At, Asks, TypeOK, Goto
        <4> QED
          BY <4>1, <2>1 DEF Consented, GrantOf
      <3>2. CASE HasConsent(c)
        <4>1. req[c].scopes \subseteq consents[req[c].who][req[c].client] /\ UNCHANGED consents
          BY <3>2, <2>3, <1>0 DEF HasConsent, Answer, TypeOK, Goto
        <4> QED
          BY <4>1, <2>1 DEF Consented, GrantOf
      <3>3. CASE GrantConsent(c)
        <4>1. req[c] \in AllRequests /\ req[c].who \in Users /\ req[c].client \in Clients
          BY <3>3, <1>0, RequestType, NoRows DEF GrantConsent, At, Asks
        <4>2. req[c].scopes \subseteq consents'[req[c].who][req[c].client]
          BY <4>1, <3>3, <1>0 DEF GrantConsent, ConsentExtended, TypeOK
        <4> QED
          BY <4>2, <2>1 DEF Consented, GrantOf
      <3> QED
        BY <3>1, <3>2, <3>3, <2>3, <1>4, StepAsks
    <2>4. \A d \in Calls : pc'[d] = "new_code" => Consented(GrantOf(req[d]))'
      BY <2>1, <2>2, <2>3
    <2>5. ASSUME NEW f \in Ids, code'[f] # "none"
          PROVE  grant'[f].who \in Users /\ Consented(grant[f])'
      <3>1. CASE CreateCode(c)
        <4>1. CASE f = c
          <5>1. pc[c] = "new_code" /\ grant'[c] = GrantOf(req[c])
            BY <3>1, <1>0 DEF CreateCode, At, TypeOK
          <5>2. Consented(GrantOf(req[c])) /\ GrantOf(req[c]) \in Grants /\ GrantOf(req[c]).who \in Users
            BY <5>1, <1>2 DEF ConsentInv
          <5>3. Consented(GrantOf(req[c])) <=> Consented(grant'[c])
            BY <5>1
          <5>4. grant'[c] \in Grants /\ grant'[c].who \in Users /\ UNCHANGED consents
            BY <5>1, <5>2, <3>1 DEF CreateCode
          <5> QED
            BY <4>1, <5>2, <5>3, <5>4 DEF Consented
        <4>2. CASE f # c
          BY <4>2, <3>1, <2>5, <1>0, <1>3 DEF CreateCode, TypeOK
        <4> QED
          BY <4>1, <4>2
      <3>2. CASE InvalidateCode(c)
        <4>1. code[f] # "none" /\ grant' = grant
          BY <3>2, <2>5, <1>0 DEF InvalidateCode, TypeOK, Fam, At, Asks
        <4> QED
          BY <4>1, <1>3
      <3>3. CASE UNCHANGED <<code, grant>>
        BY <3>3, <2>5, <1>3
      <3> QED
        BY <3>1, <3>2, <3>3, <1>4, StepWrites
    <2> QED
      BY <2>4, <2>5 DEF ConsentInv
  <1>5. CASE (\E c \in Calls : Outside(c)) \/ Elsewhere
    <2>1. UNCHANGED <<consents, grant, code>>
      BY <1>5, OutsideWrites
    <2>2. \A d \in Calls : pc'[d] = "new_code" => pc[d] = "new_code" /\ req'[d] = req[d]
      BY <1>5, OutsideWrites
    <2> QED
      BY <2>1, <2>2 DEF ConsentInv, Consented, GrantOf
  <1> QED
    BY <1>4, <1>5 DEF Next, Outside, Elsewhere

\* A code is issued for what its user has consented to.
THEOREM CodesAreConsented == Spec => []ScopesConsented
  <1>1. ConsentInv => ScopesConsented
    BY DEF ConsentInv, ScopesConsented, Consented
  <1>2. Init => Shape /\ ConsentInv
    BY InitShape, InitConsent
  <1>3. Shape /\ ConsentInv /\ [Next]_vars => Shape' /\ ConsentInv'
    BY NextShape, NextConsent
  <1> QED
    BY <1>1, <1>2, <1>3, PTL DEF Spec

-----------------------------------------------------------------------------
\* A live nonce is of a page that was shown, and nothing has confirmed it; what
\* has confirmed one says what its page was shown for.
Shown(r) ==
    /\ pc[r.of] = "accepted" /\ req[r.of].op = "info"
    /\ req[r.of].who = r.who /\ req[r.of].client = r.client /\ req[r.of].scopes = r.scopes

NonceInv ==
    /\ \A n \in Calls : nonces[n] # NoGrant =>
         /\ pc[n] = "accepted" /\ req[n].op = "info" /\ nonces[n] = GrantOf(req[n])
         /\ \A c \in Calls : Confirms(c) => req[c].of # n
    /\ \A c \in Calls : Confirms(c) => Shown(req[c])
    /\ \A c, d \in Calls : Confirms(c) /\ Confirms(d) /\ req[c].of = req[d].of => c = d

LEMMA NextNonce ==
  ASSUME Shape, NonceInv, Next \/ UNCHANGED vars
  PROVE  NonceInv'
  <1>0. /\ TypeOK /\ \A c \in Calls : Asks(c)
        /\ pc \in [Calls -> PCs] /\ nonces \in [Calls -> Grants]
    BY DEF Shape, TypeOK
  <1>1. ASSUME NEW c \in Calls, Confirms(c) PROVE req[c].of \in Calls /\ req[c] \in AllRequests
    BY <1>0, <1>1, RequestType, NoRows DEF Confirms, Asks
  \* When the calls that go on are fewer, and the nonces too.
  <1>2. ASSUME \A c \in Calls : Confirms(c)' => Confirms(c) /\ req'[c] = req[c],
               \A n \in Calls : nonces'[n] \in {nonces[n], NoGrant},
               \A n \in Calls : pc[n] = "accepted" => pc'[n] = "accepted" /\ req'[n] = req[n]
        PROVE  NonceInv'
    <2>1. \A n \in Calls : nonces'[n] # NoGrant =>
            /\ pc'[n] = "accepted" /\ req'[n].op = "info" /\ nonces'[n] = GrantOf(req'[n])
            /\ \A c \in Calls : Confirms(c)' => req'[c].of # n
      BY <1>2 DEF NonceInv
    <2>2. ASSUME NEW c \in Calls, Confirms(c)' PROVE Shown(req[c])'
      <3>1. Confirms(c) /\ req'[c] = req[c] /\ Shown(req[c]) /\ req[c].of \in Calls
        BY <1>1, <1>2, <2>2 DEF NonceInv
      <3>2. pc'[req[c].of] = "accepted" /\ req'[req[c].of] = req[req[c].of]
        BY <3>1, <1>2 DEF Shown
      <3> QED
        BY <3>1, <3>2 DEF Shown
    <2>3. \A c, d \in Calls : Confirms(c)' /\ Confirms(d)' /\ req'[c].of = req'[d].of => c = d
      BY <1>2 DEF NonceInv
    <2> QED
      BY <2>1, <2>2, <2>3 DEF NonceInv
  <1>3. ASSUME NEW c \in Calls, Step(c) PROVE NonceInv'
    <2>1. /\ UNCHANGED req /\ pc[c] \in Running /\ pc[c] # "accepted"
          /\ \A d \in Calls \ {c} : pc'[d] = pc[d]
      BY <1>3, StepWrites DEF Running
    <2>2. \A d \in Calls \ {c} : Confirms(d)' <=> Confirms(d)
      BY <2>1 DEF Confirms
    <2>3. CASE ConsumeNonce(c)
      <3>0. /\ pc[c] = "nonce" /\ req[c].of \in Calls /\ req[c] \in AllRequests /\ req[c].op = "confirm"
            /\ nonces' = [nonces EXCEPT ![req[c].of] = NoGrant]
        BY <2>3, <1>0, RequestType, NoRows DEF ConsumeNonce, NonceUsed, At, Asks
      <3> DEFINE n == req[c].of
      <3>1. CASE pc'[c] # "consent"
        <4>1. pc'[c] = "refused"
          BY <3>1, <2>3, <1>0 DEF ConsumeNonce, Goto
        <4>2. ~Confirms(c)'
          BY <4>1 DEF Confirms
        <4> QED
          BY <4>2, <3>0, <2>1, <2>2, <1>0, <1>2
      <3>2. CASE pc'[c] = "consent"
        <4>1. nonces[n] = GrantOf(req[c]) /\ GrantOf(req[c]) # NoGrant
          BY <3>2, <3>0, <2>3, <1>0, RequestType DEF ConsumeNonce, Goto
        <4>2. /\ pc[n] = "accepted" /\ req[n].op = "info" /\ GrantOf(req[c]) = GrantOf(req[n])
              /\ \A d \in Calls : Confirms(d) => req[d].of # n
          BY <4>1, <3>0 DEF NonceInv
        <4>3. req[n].who = req[c].who /\ req[n].client = req[c].client /\ req[n].scopes = req[c].scopes
          BY <4>2 DEF GrantOf
        <4>4. Shown(req[c])' /\ Confirms(c)'
          BY <4>2, <4>3, <3>0, <3>2, <2>1 DEF Shown, Confirms
        <4>5. ASSUME NEW d \in Calls \ {c}, Confirms(d)' PROVE Shown(req[d])' /\ req'[d].of # n
          <5>1. Confirms(d) /\ Shown(req[d]) /\ req[d].of # n /\ req[d].of \in Calls
            BY <4>2, <4>5, <2>2, <1>1 DEF NonceInv
          <5> QED
            BY <5>1, <2>1 DEF Shown
        <4>6. ASSUME NEW m \in Calls, nonces'[m] # NoGrant
              PROVE  /\ pc'[m] = "accepted" /\ req'[m].op = "info" /\ nonces'[m] = GrantOf(req'[m])
                     /\ \A d \in Calls : Confirms(d)' => req'[d].of # m
          <5>1. m # n /\ nonces'[m] = nonces[m]
            BY <4>6, <3>0, <1>0
          <5>2. /\ pc[m] = "accepted" /\ req[m].op = "info" /\ nonces[m] = GrantOf(req[m])
                /\ \A d \in Calls : Confirms(d) => req[d].of # m
            BY <5>1, <4>6 DEF NonceInv
          <5> QED
            BY <5>1, <5>2, <2>1, <2>2, <3>0
        <4>7. ASSUME NEW d \in Calls, NEW e \in Calls, Confirms(d)', Confirms(e)',
                     req'[d].of = req'[e].of
              PROVE  d = e
          <5>1. CASE d = c \/ e = c
            BY <5>1, <4>5, <4>7, <2>1
          <5>2. CASE d # c /\ e # c
            BY <5>2, <4>7, <2>1, <2>2 DEF NonceInv
          <5> QED
            BY <5>1, <5>2
        <4> QED
          BY <4>4, <4>5, <4>6, <4>7 DEF NonceInv
      <3> QED
        BY <3>1, <3>2
    <2>4. CASE ~ConsumeNonce(c)
      <3>1. Confirms(c)' => Confirms(c)
        <4> SUFFICES ASSUME Confirms(c)' PROVE Confirms(c)
          OBVIOUS
        <4>1. req[c].op = "confirm" /\ pc'[c] \in {"new_code", "new_pkce", "accepted"}
          BY <2>1, <2>4, <1>3, StepAsks DEF Confirms
        <4>2. pc'[c] = "new_code" => ~ReadClient(c) /\ ~HasConsent(c)
          BY <4>1, <1>0, <1>3, StepAsks DEF ReadClient, HasConsent, At, Asks
        <4>3. pc'[c] = "new_code" => pc[c] = "consent"
          BY <4>2, <1>3, StepAsks DEF GrantConsent, At
        <4> QED
          BY <4>1, <4>3, <1>3, StepAsks DEF Confirms
      <3>2. CASE UNCHANGED nonces
        BY <3>1, <3>2, <2>1, <2>2, <1>2
      <3>3. CASE ReadClient(c)
        <4>1. CASE UNCHANGED nonces
          BY <4>1, <3>1, <2>1, <2>2, <1>2
        <4>2. CASE nonces' # nonces
          <5>1. /\ pc[c] = "client" /\ req[c].op = "info" /\ pc'[c] = "accepted"
                /\ nonces'[c] = GrantOf(req[c])
                /\ \A m \in Calls \ {c} : nonces'[m] = nonces[m]
            BY <4>2, <3>3, <1>0 DEF ReadClient, At, Goto
          <5>2. ~Confirms(c)'
            BY <5>1, <2>1 DEF Confirms
          <5>3. ASSUME NEW d \in Calls, Confirms(d)' PROVE Confirms(d) /\ Shown(req[d])' /\ req'[d].of # c
            <6>1. d # c /\ Confirms(d) /\ Shown(req[d]) /\ req[d].of \in Calls
              BY <5>2, <5>3, <2>2, <1>1 DEF NonceInv
            <6>2. req[d].of # c
              BY <6>1, <5>1 DEF Shown
            <6> QED
              BY <6>1, <6>2, <2>1 DEF Shown
          <5>4. ASSUME NEW m \in Calls, nonces'[m] # NoGrant
                PROVE  /\ pc'[m] = "accepted" /\ req'[m].op = "info" /\ nonces'[m] = GrantOf(req'[m])
                       /\ \A d \in Calls : Confirms(d)' => req'[d].of # m
            <6>1. CASE m = c
              BY <6>1, <5>1, <5>3, <2>1
            <6>2. CASE m # c
              BY <6>2, <5>1, <5>3, <5>4, <2>1 DEF NonceInv
            <6> QED
              BY <6>1, <6>2
          <5> QED
            BY <5>3, <5>4, <2>1 DEF NonceInv
        <4> QED
          BY <4>1, <4>2
      <3> QED
        BY <3>2, <3>3, <2>4, <1>3, StepWrites
    <2> QED
      BY <2>3, <2>4
  <1>4. CASE (\E c \in Calls : Outside(c)) \/ Elsewhere
    <2>1. \A c \in Calls : Confirms(c)' => Confirms(c) /\ req'[c] = req[c]
      BY <1>4, OutsideWrites DEF Confirms
    <2>2. \A n \in Calls : pc[n] = "accepted" => pc'[n] = "accepted" /\ req'[n] = req[n]
      BY <1>4, OutsideWrites DEF Running
    <2>3. \A n \in Calls : nonces'[n] \in {nonces[n], NoGrant}
      BY <1>4, OutsideWrites
    <2> QED
      BY <2>1, <2>2, <2>3, <1>2
  <1> QED
    BY <1>3, <1>4 DEF Next, Outside, Elsewhere

\* One confirmation of those that send a nonce goes on, and as it was shown.
THEOREM NoncesConfirmOnce == Spec => []NonceConfirmsOnce
  <1>1. NonceInv => NonceConfirmsOnce
    BY DEF NonceInv, NonceConfirmsOnce, Shown
  <1>2. Init => Shape /\ NonceInv
    BY InitShape DEF Init, NonceInv, Confirms
  <1>3. Shape /\ NonceInv /\ [Next]_vars => Shape' /\ NonceInv'
    BY NextShape, NextNonce
  <1> QED
    BY <1>1, <1>2, <1>3, PTL DEF Spec

-----------------------------------------------------------------------------
\* Families.  The token endpoint makes tokens between these statements ...
Making == {"invalidate", "rotate", "rotate_access", "access", "refresh"}
\* ... and a call at one of these has found the code used or a token.
Past == {"rotate", "rotate_access", "access", "refresh", "forget", "kill_refresh", "kill_access"}

Works(c) == pc[c] \in Running /\ OfFamily(req[c])

\* What a call sends is of its family.
Sent(c) ==
    OfFamily(req[c]) =>
        /\ req[c].of \in Ids /\ family[req[c].of] = family[c]
        /\ req[c].of \in Families \/ pc[req[c].of] = "accepted"

Overlap ==
    \A c, d \in Calls :
        c # d /\ Works(c) /\ Works(d) /\ family[c] = family[d] => c \in crowded

\* A family has no tokens before its code is used.
CodeFirst ==
    \A t \in Ids : code[family[t]] = "active" => refresh[t] = "none" /\ ~access[t]

PastCode == \A c \in Calls : pc[c] \in Past => code[family[c]] # "active"

\* When a refresh token is about to be made, those that work are of calls that
\* came between.
Alone ==
    \A c \in Calls : \A t \in Ids :
        /\ pc[c] \in {"invalidate", "rotate_access", "access", "refresh"}
        /\ family[t] = family[c] /\ refresh[t] = "active"
        => c \in crowded /\ t \in crowded

NoRefresh(f) == \A t \in Ids : family[t] = f => refresh[t] # "active"
NoAccess(f) == \A t \in Ids : family[t] = f => ~access[t]

\* What the end of a family has done so far, and that nobody is about to undo it.
Ending(c) ==
    /\ OfFamily(req[c]) /\ pc[c] = "kill_access" /\ req[c].op # "exchange" => NoRefresh(family[c])
    /\ OfFamily(req[c]) /\ pc[c] = "kill_refresh" /\ req[c].op = "exchange" => NoAccess(family[c])
    /\ Ends(c) => /\ NoRefresh(family[c]) /\ NoAccess(family[c]) /\ code[family[c]] # "active"
                  /\ \A d \in Calls : family[d] = family[c] => pc[d] \notin Making

FamilyInv ==
    /\ \A c \in Calls : Sent(c)
    /\ Overlap /\ CodeFirst /\ PastCode /\ Alone
    /\ OneActiveRefresh
    /\ \A c \in Calls \ crowded : Ending(c)

LEMMA InitFamily == Init => FamilyInv
  <1> SUFFICES ASSUME Init PROVE FamilyInv
    OBVIOUS
  <1>1. \A c \in Calls : pc[c] = "idle" /\ req[c] = NoRequest /\ ~OfFamily(req[c])
    BY NoRows DEF Init
  <1>2. \A t \in Ids : family[t] = t
    BY DEF Init
  <1>3. CodeFirst
    <2> SUFFICES ASSUME NEW t \in Ids, code[t] = "active" PROVE refresh[t] = "none" /\ ~access[t]
      BY <1>2 DEF CodeFirst
    <2>1. t \in Families /\ SeedRows[t].code = "active"
      BY DEF Init
    <2> QED
      BY <2>1, SeedsUnused DEF Init
  <1>4. OneActiveRefresh
    BY <1>2 DEF OneActiveRefresh
  <1>5. \A c \in Calls : Sent(c) /\ Ending(c)
    BY <1>1 DEF Sent, Ending, Ends
  <1>6. Overlap /\ PastCode /\ Alone
    BY <1>1 DEF Overlap, Works, Running, PastCode, Past, Alone
  <1> QED
    BY <1>3, <1>4, <1>5, <1>6 DEF FamilyInv

\* What a statement changes of the tokens and codes.
LEMMA StepTokens ==
  ASSUME Shape, NEW c \in Calls, Step(c)
  PROVE  /\ \A t \in Ids : refresh'[t] = "active" =>
              refresh[t] = "active" \/ (t = c /\ pc[c] = "refresh")
         /\ \A t \in Ids : refresh[t] = "none" =>
              refresh'[t] = "none" \/ (t = c /\ pc[c] = "refresh")
         /\ \A t \in Ids : access'[t] => access[t] \/ (t = c /\ pc[c] = "access")
         /\ \A f \in Ids : code'[f] = "active" =>
              code[f] = "active" \/ (f = c /\ pc[c] = "new_code")
  <1>0. /\ code \in [Ids -> {"none", "active", "spent"}] /\ access \in [Ids -> BOOLEAN]
        /\ refresh \in [Ids -> {"none", "active", "inactive"}] /\ c \in Ids
        /\ family \in [Ids -> Ids]
    BY DEF Shape, TypeOK, Ids
  <1>1. /\ \A t \in Ids : refresh'[t] = "active" =>
              refresh[t] = "active" \/ (t = c /\ pc[c] = "refresh")
        /\ \A t \in Ids : refresh[t] = "none" =>
              refresh'[t] = "none" \/ (t = c /\ pc[c] = "refresh")
    <2>1. CASE \/ Rotate(c) \/ CreateRefreshToken(c) \/ DeleteRefreshToken(c)
               \/ RevokeRefreshToken(c)
      BY <1>0, <2>1 DEF Rotate, CreateRefreshToken, DeleteRefreshToken, RevokeRefreshToken, Rotated,
         Deactivated, At
    <2> QED
      BY <2>1, StepWrites
  <1>2. \A t \in Ids : access'[t] => access[t] \/ (t = c /\ pc[c] = "access")
    <2>1. CASE RotateAccess(c) \/ CreateAccessToken(c) \/ RevokeAccessToken(c)
      BY <1>0, <2>1 DEF RotateAccess, CreateAccessToken, RevokeAccessToken, WithoutAccess, At
    <2> QED
      BY <2>1, StepWrites
  <1>3. \A f \in Ids : code'[f] = "active" =>
          code[f] = "active" \/ (f = c /\ pc[c] = "new_code")
    <2>1. CASE CreateCode(c) \/ InvalidateCode(c)
      BY <1>0, <2>1 DEF CreateCode, InvalidateCode, Fam, At
    <2> QED
      BY <2>1, StepWrites
  <1> QED
    BY <1>1, <1>2, <1>3

\* Where the statements of the token endpoint lead.
LEMMA StepLeads ==
  ASSUME Shape, NEW c \in Calls, Step(c)
  PROVE  /\ pc'[c] = "invalidate" => pc[c] = "code_again" /\ code[family[c]] = "active"
         /\ pc'[c] = "rotate" => pc[c] = "token" /\ refresh[req[c].of] = "active"
         /\ pc'[c] = "rotate_access" => Rotate(c)
         /\ pc'[c] = "access" => InvalidateCode(c) \/ RotateAccess(c)
         /\ pc'[c] = "refresh" => CreateAccessToken(c)
         /\ pc'[c] = "forget" => pc[c] = "token" /\ refresh[req[c].of] # "none"
         /\ pc'[c] = "kill_refresh" =>
              \/ pc[c] = "token" /\ refresh[req[c].of] # "none" /\ req[c].op = "revoke"
              \/ DeleteRefreshToken(c) /\ req[c].op = "refresh"
              \/ RevokeAccessToken(c) /\ req[c].op = "exchange"
         /\ pc'[c] = "kill_access" =>
              \/ pc[c] = "code" /\ code[family[c]] = "spent" /\ req[c].op = "exchange"
              \/ RevokeRefreshToken(c) /\ req[c].op # "exchange"
         /\ pc'[c] = "replayed" =>
              \/ RevokeRefreshToken(c) /\ req[c].op = "exchange"
              \/ RevokeAccessToken(c) /\ req[c].op = "refresh"
         /\ pc'[c] = "accepted" /\ req[c].op = "revoke" => RevokeAccessToken(c)
  <1>0. pc \in [Calls -> PCs] /\ Asks(c)
    BY DEF Shape, TypeOK
  <1>1. CASE \/ ReadClient(c) \/ HasConsent(c) \/ ConsumeNonce(c) \/ GrantConsent(c)
             \/ CreateCode(c) \/ CreatePKCE(c)
    BY <1>0, <1>1 DEF ReadClient, HasConsent, ConsumeNonce, GrantConsent, CreateCode, CreatePKCE,
       Answer, Goto, At, Asks
  <1>2. CASE \/ GetCode(c) \/ GetPKCE(c) \/ DeletePKCE(c) \/ GetCodeAgain(c)
             \/ InvalidateCode(c) \/ GetRefreshToken(c)
    BY <1>0, <1>2 DEF GetCode, GetPKCE, DeletePKCE, GetCodeAgain, InvalidateCode, GetRefreshToken,
       Answer, Goto, At, Asks, CodeRow, Fam
  <1>3. CASE \/ Rotate(c) \/ RotateAccess(c) \/ CreateAccessToken(c) \/ CreateRefreshToken(c)
             \/ DeleteRefreshToken(c) \/ RevokeRefreshToken(c) \/ RevokeAccessToken(c)
    BY <1>0, <1>3 DEF Rotate, RotateAccess, CreateAccessToken, CreateRefreshToken,
       DeleteRefreshToken, RevokeRefreshToken, RevokeAccessToken, Goto, At, Asks, FamilyOps
  <1>4. CASE \/ SeedSuppressed(c) \/ UpsertSeed(c) \/ DeleteClient(c)
             \/ MayRegister(c) \/ CountClients(c) \/ CountAgain(c) \/ Prune(c) \/ InsertClient(c)
    BY <1>0, <1>4 DEF SeedSuppressed, UpsertSeed, DeleteClient, MayRegister, CountClients, CountAgain,
       Prune, InsertClient, OnlyClients, Answer, Goto, At, Asks
  <1> QED
    BY <1>1, <1>2, <1>3, <1>4 DEF Step

\* No code is issued for a family that a call works on.
LEMMA FamilyIsIssued ==
  ASSUME Shape, NEW c \in Calls, pc[c] = "new_code", NEW d \in Calls, d # c
  PROVE  family[d] # c
  BY CallsAreNew DEF Shape, FamilyOf

\* The families of tokens that are there stay what they are.
LEMMA OutsideFamilies ==
  ASSUME Shape, Shape', (\E c \in Calls : Outside(c)) \/ Elsewhere,
         NEW t \in Ids, refresh[t] # "none" \/ access[t]
  PROVE  family'[t] = family[t]
  <1>1. CASE t \in Families
    BY <1>1 DEF Shape
  <1>2. CASE t \in Calls
    BY <1>2, OutsideWrites DEF Shape, Makes
  <1> QED
    BY <1>1, <1>2 DEF Ids

LEMMA NextSent ==
  ASSUME Shape, FamilyInv, Next \/ UNCHANGED vars
  PROVE  (\A c \in Calls : Sent(c)) ' /\ Overlap'
  <1>0. /\ pc \in [Calls -> PCs] /\ req \in [Calls -> AllRequests \cup {NoRequest}]
        /\ family \in [Ids -> Ids] /\ Calls \subseteq Ids
        /\ \A c \in Calls : Sent(c)
    BY DEF Shape, TypeOK, Ids, FamilyInv
  <1>1. CASE \E c \in Calls : Step(c)
    <2>1. PICK c \in Calls : Step(c)
      BY <1>1
    <2>2. /\ UNCHANGED <<req, family, crowded>> /\ pc[c] \in Running /\ pc[c] # "accepted"
          /\ \A d \in Calls \ {c} : pc'[d] = pc[d]
      BY <2>1, StepWrites DEF Running
    <2>3. \A d \in Calls : Sent(d)'
      BY <1>0, <2>2, CallsAreNew DEF Sent, Ids
    <2>4. \A d \in Calls : Works(d)' => Works(d)
      BY <2>2 DEF Works
    <2> QED
      BY <2>2, <2>3, <2>4 DEF FamilyInv, Overlap
  <1>2. CASE \E c \in Calls : Submit(c)
    <2>1. PICK c \in Calls : Submit(c)
      BY <1>2
    <2>2. PICK r \in Requests[c] :
             /\ OfFamily(r) \/ r.op = "confirm" => Given(r.of)
             /\ req' = [req EXCEPT ![c] = r]
             /\ family' = [family EXCEPT ![c] = IF OfFamily(r) THEN family[r.of] ELSE c]
             /\ crowded' = crowded \cup Meets(c, r) \cup (IF Meets(c, r) = {} THEN {} ELSE {c})
             /\ Goto(c, FirstStep(r.op))
      BY <2>1 DEF Submit
    <2>3. /\ r \in AllRequests /\ pc[c] = "idle" /\ c \notin Families
      BY <2>1, RequestTypes, CallsAreNew DEF Submit
    <2>4. OfFamily(r) => r.of \in Ids /\ r.of # c /\ (r.of \in Families \/ pc[r.of] = "accepted")
      BY <2>2, <2>3, RequestType DEF Given
    <2>5. /\ req'[c] = r /\ family'[c] = IF OfFamily(r) THEN family[r.of] ELSE c
      BY <1>0, <2>2
    <2>6. /\ \A d \in Calls \ {c} : pc'[d] = pc[d] /\ req'[d] = req[d]
          /\ \A x \in Ids \ {c} : family'[x] = family[x]
      BY <1>0, <2>2 DEF Goto
    <2>7. Sent(c)'
      <3>1. OfFamily(r) => family'[r.of] = family[r.of]
                           /\ (r.of \in Families \/ pc'[r.of] = "accepted")
        BY <2>4, <2>6 DEF Ids
      <3> QED
        BY <2>4, <2>5, <3>1 DEF Sent
    <2>8. ASSUME NEW d \in Calls \ {c} PROVE Sent(d)'
      <3> SUFFICES ASSUME OfFamily(req[d]) PROVE Sent(d)'
        BY <2>6 DEF Sent
      <3>1. /\ req[d].of \in Ids \ {c} /\ family[req[d].of] = family[d]
            /\ req[d].of \in Families \/ pc[req[d].of] = "accepted"
        BY <1>0, <2>3 DEF Sent
      <3>2. req[d].of \in Families \/ pc'[req[d].of] = "accepted"
        BY <3>1, <2>6 DEF Ids
      <3> QED
        BY <1>0, <2>6, <3>1, <3>2 DEF Sent
    <2>9. ASSUME NEW d \in Calls, NEW e \in Calls, d # e, Works(d)', Works(e)',
                 family'[d] = family'[e]
          PROVE  d \in crowded'
      <3>1. CASE d = c
        <4>1. e \in Meets(c, r)
          BY <3>1, <2>5, <2>6, <2>9, <1>0 DEF Works, Meets
        <4> QED
          BY <4>1, <3>1, <2>2
      <3>2. CASE e = c
        <4>1. d \in Meets(c, r)
          BY <3>2, <2>5, <2>6, <2>9, <1>0 DEF Works, Meets
        <4> QED
          BY <4>1, <3>2, <2>2
      <3>3. CASE d # c /\ e # c
        <4>1. Works(d) /\ Works(e) /\ family[d] = family[e]
          BY <3>3, <2>6, <2>9, <1>0 DEF Works
        <4> QED
          BY <4>1, <2>2, <2>9 DEF FamilyInv, Overlap
      <3> QED
        BY <3>1, <3>2, <3>3
    <2> QED
      BY <2>7, <2>8, <2>9 DEF Overlap
  <1>3. CASE (\E c \in Calls : Fault(c) \/ ExpireNonce(c)) \/ Elsewhere
    <2>1. /\ UNCHANGED <<req, family, crowded>>
          /\ \A d \in Calls : pc'[d] = pc[d] \/ (pc[d] \in Running /\ pc'[d] = "failed")
      BY <1>0, <1>3 DEF Fault, ExpireNonce, Elsewhere, Restart, Expire, vars, tokens, Goto
    <2>2. \A d \in Calls : Works(d)' => Works(d)
      BY <2>1 DEF Works, Running
    <2>3. \A d \in Calls : Sent(d)'
      BY <1>0, <2>1, CallsAreNew DEF Sent, Ids, Running
    <2> QED
      BY <2>1, <2>2, <2>3 DEF FamilyInv, Overlap
  <1> QED
    BY <1>1, <1>2, <1>3 DEF Next, Elsewhere

\* What a step outside of the statements leaves alone.
LEMMA OutsideTokens ==
  ASSUME Shape, Shape', FamilyInv, (\E c \in Calls : Outside(c)) \/ Elsewhere
  PROVE  CodeFirst' /\ PastCode' /\ Alone' /\ OneActiveRefresh'
         /\ \A c \in Calls \ crowded' : Ending(c)'
  <1>0. /\ UNCHANGED <<code, access, refresh>> /\ crowded \subseteq crowded'
        /\ family \in [Ids -> Ids] /\ Calls \subseteq Ids
        /\ refresh \in [Ids -> {"none", "active", "inactive"}]
    BY OutsideWrites DEF Shape, TypeOK, Ids
  <1>1. ASSUME NEW c \in Calls, pc'[c] \in Past \cup Making \cup {"accepted", "replayed"}
        PROVE  pc'[c] = pc[c] /\ req'[c] = req[c] /\ family'[c] = family[c]
    BY <1>1, OutsideWrites DEF Past, Making
  <1>2. \A t \in Ids : refresh[t] # "none" \/ access[t] => family'[t] = family[t]
    BY OutsideFamilies
  <1>3. CodeFirst'
    BY <1>0, <1>2 DEF CodeFirst, FamilyInv
  <1>4. PastCode'
    BY <1>0, <1>1 DEF PastCode, FamilyInv
  <1>5. Alone'
    <2> SUFFICES ASSUME NEW c \in Calls, NEW t \in Ids,
                        pc'[c] \in {"invalidate", "rotate_access", "access", "refresh"},
                        family'[t] = family'[c], refresh'[t] = "active"
                 PROVE  c \in crowded' /\ t \in crowded'
      BY DEF Alone
    <2>1. pc'[c] = pc[c] /\ family[c] = family[t] /\ refresh[t] = "active"
      BY <1>0, <1>1, <1>2 DEF Making
    <2> QED
      BY <1>0, <2>1 DEF Alone, FamilyInv
  <1>6. OneActiveRefresh'
    <2> SUFFICES ASSUME NEW t \in Ids, NEW u \in Ids, t # u, family'[t] = family'[u],
                        refresh'[t] = "active", refresh'[u] = "active"
                 PROVE  {t, u} \subseteq crowded'
      BY DEF OneActiveRefresh
    <2>1. family[t] = family[u]
      BY <1>0, <1>2
    <2> QED
      BY <1>0, <2>1 DEF OneActiveRefresh, FamilyInv
  <1>7. ASSUME NEW c \in Calls \ crowded', pc'[c] \in Past \cup {"accepted", "replayed"}
        PROVE  Ending(c)'
    <2>1. /\ pc'[c] = pc[c] /\ req'[c] = req[c] /\ family'[c] = family[c] /\ c \notin crowded
      BY <1>0, <1>1, <1>7
    <2>2. /\ Ending(c)
          /\ Ends(c)' => Ends(c)
      BY <1>7, <2>1 DEF FamilyInv, Ends
    <2>3. /\ NoRefresh(family[c]) => NoRefresh(family[c])'
          /\ NoAccess(family[c]) => NoAccess(family[c])'
      BY <1>0, <1>2, <2>1 DEF NoRefresh, NoAccess
    <2>4. ASSUME NEW d \in Calls, family'[d] = family'[c], Ends(c) PROVE pc'[d] \notin Making
      BY <2>1, <2>2, <2>4, <1>1 DEF Ending
    <2> QED
      BY <2>1, <2>2, <2>3, <2>4, <1>0 DEF Ending
  <1>8. ASSUME NEW c \in Calls \ crowded', pc'[c] \notin Past \cup {"accepted", "replayed"}
        PROVE  Ending(c)'
    BY <1>8 DEF Ending, Ends, Past
  <1> QED
    BY <1>3, <1>4, <1>5, <1>6, <1>7, <1>8

LEMMA StepCodeFirst ==
  ASSUME Shape, FamilyInv, NEW c \in Calls, Step(c)
  PROVE  CodeFirst' /\ PastCode'
  <1>0. /\ code \in [Ids -> {"none", "active", "spent"}]
        /\ family \in [Ids -> Ids] /\ Calls \subseteq Ids /\ c \in Ids
        /\ UNCHANGED <<req, family>> /\ \A d \in Calls \ {c} : pc'[d] = pc[d]
        /\ \A d \in Calls : Asks(d) /\ Makes(d)
    BY StepWrites DEF Shape, TypeOK, Ids
  <1>1. ASSUME NEW t \in Ids, code'[family[t]] = "active"
        PROVE  refresh'[t] = "none" /\ ~access'[t]
    <2>1. CASE code[family[t]] = "active"
      <3>1. refresh[t] = "none" /\ ~access[t]
        BY <2>1 DEF FamilyInv, CodeFirst
      <3>2. ~(t = c /\ pc[c] \in {"refresh", "access"})
        BY <2>1 DEF FamilyInv, PastCode, Past
      <3> QED
        BY <3>1, <3>2, StepTokens
    <2>2. CASE code[family[t]] # "active"
      <3>1. family[t] = c /\ pc[c] = "new_code"
        BY <2>2, <1>0, <1>1, StepTokens
      <3>2. t = c
        BY <3>1, FamilyIsIssued, CallsAreNew DEF Shape, Ids
      <3>3. refresh[t] = "none" /\ ~access[t]
        BY <3>1, <3>2, <1>0 DEF Makes
      <3> QED
        BY <3>1, <3>2, <3>3, StepTokens
    <2> QED
      BY <2>1, <2>2
  <1>2. ASSUME NEW d \in Calls \ {c}, pc'[d] \in Past PROVE code'[family[d]] # "active"
    <2>1. pc[d] \in Past /\ code[family[d]] # "active" /\ family[d] \in Ids
      BY <1>0, <1>2 DEF FamilyInv, PastCode
    <2>2. ~(family[d] = c /\ pc[c] = "new_code")
      BY FamilyIsIssued
    <2> QED
      BY <2>1, <2>2, StepTokens
  <1>3. ASSUME pc'[c] \in Past PROVE code'[family[c]] # "active"
    <2>0. family[c] \in Ids /\ Sent(c)
      BY <1>0 DEF FamilyInv
    <2>1. CASE InvalidateCode(c)
      BY <2>1, <1>0, <2>0 DEF InvalidateCode, Fam
    <2>2. CASE ~InvalidateCode(c)
      <3>1. \/ pc[c] \in Past
            \/ pc[c] = "code" /\ code[family[c]] = "spent"
            \/ pc[c] = "token" /\ refresh[req[c].of] # "none"
        BY <2>2, <1>3, StepLeads DEF Past, Rotate, RotateAccess, CreateAccessToken,
           DeleteRefreshToken, RevokeRefreshToken, RevokeAccessToken, At
      <3>2. CASE pc[c] = "token" /\ refresh[req[c].of] # "none"
        <4>1. OfFamily(req[c])
          BY <3>2, <1>0 DEF Asks, OfFamily
        <4>2. req[c].of \in Ids /\ family[req[c].of] = family[c]
          BY <4>1, <2>0 DEF Sent
        <4> QED
          BY <3>2, <4>2, <2>0, StepTokens DEF FamilyInv, CodeFirst
      <3>3. CASE pc[c] \in Past \/ (pc[c] = "code" /\ code[family[c]] = "spent")
        BY <3>3, <2>0, StepTokens DEF FamilyInv, PastCode, Past
      <3> QED
        BY <3>1, <3>2, <3>3
    <2> QED
      BY <2>1, <2>2
  <1> QED
    BY <1>0, <1>1, <1>2, <1>3 DEF CodeFirst, PastCode

\* A call that makes a token works on its family, and so does one that ends it.
LEMMA Workers ==
  ASSUME Shape, FamilyInv, NEW c \in Calls, NEW d \in Calls, c # d, family[c] = family[d],
         pc[c] \in Past \cup Making, pc[d] \in Past \cup Making
  PROVE  c \in crowded /\ d \in crowded
  <1>1. Works(c) /\ Works(d)
    BY DEF Shape, Asks, Works, OfFamily, FamilyOps, Past, Making, Running
  <1> QED
    BY <1>1 DEF FamilyInv, Overlap

LEMMA StepAlone ==
  ASSUME Shape, FamilyInv, NEW c \in Calls, Step(c)
  PROVE  Alone' /\ OneActiveRefresh'
  <1>0. /\ family \in [Ids -> Ids] /\ Calls \subseteq Ids /\ c \in Ids
        /\ refresh \in [Ids -> {"none", "active", "inactive"}]
        /\ UNCHANGED <<req, family, crowded>> /\ \A d \in Calls \ {c} : pc'[d] = pc[d]
    BY StepWrites DEF Shape, TypeOK, Ids
  <1>1. ASSUME NEW d \in Calls \ {c}, NEW t \in Ids,
               pc[d] \in {"invalidate", "rotate_access", "access", "refresh"},
               family[t] = family[d], refresh'[t] = "active"
        PROVE  d \in crowded /\ t \in crowded
    <2>1. CASE refresh[t] = "active"
      BY <1>1, <2>1 DEF FamilyInv, Alone
    <2>2. CASE refresh[t] # "active"
      <3>1. t = c /\ pc[c] = "refresh"
        BY <1>1, <2>2, StepTokens
      <3> QED
        BY <3>1, <1>1, Workers DEF Making
    <2> QED
      BY <2>1, <2>2
  <1>2. ASSUME NEW t \in Ids,
               pc'[c] \in {"invalidate", "rotate_access", "access", "refresh"},
               family[t] = family[c], refresh'[t] = "active"
        PROVE  c \in crowded /\ t \in crowded
    <2>1. refresh[t] = "active" /\ pc[c] # "refresh"
      <3>1. pc[c] # "refresh"
        BY <1>2, StepLeads DEF InvalidateCode, Rotate, RotateAccess, CreateAccessToken, At
      <3> QED
        BY <3>1, <1>2, StepTokens
    <2>2. CASE pc'[c] = "invalidate"
      BY <2>1, <2>2, <1>2, StepLeads DEF FamilyInv, CodeFirst
    <2>3. CASE pc'[c] = "rotate_access"
      <3>1. refresh' = Deactivated(family[c])
        BY <2>3, StepLeads DEF Rotate, Rotated, Fam
      <3>2. refresh'[t] # "active"
        BY <3>1, <1>2, <1>0 DEF Deactivated
      <3> QED
        BY <3>2, <1>2
    <2>4. CASE pc'[c] \in {"access", "refresh"}
      <3>1. pc[c] \in {"invalidate", "rotate_access", "access"}
        BY <2>4, StepLeads DEF InvalidateCode, RotateAccess, CreateAccessToken, At
      <3> QED
        BY <3>1, <2>1, <1>2 DEF FamilyInv, Alone
    <2> QED
      BY <2>2, <2>3, <2>4, <1>2
  <1>3. Alone'
    BY <1>0, <1>1, <1>2 DEF Alone
  <1>4. ASSUME NEW t \in Ids, NEW u \in Ids, t # u, family[t] = family[u],
               refresh'[t] = "active", refresh'[u] = "active"
        PROVE  t \in crowded /\ u \in crowded
    <2>1. CASE refresh[t] = "active" /\ refresh[u] = "active"
      BY <1>4, <2>1 DEF FamilyInv, OneActiveRefresh
    <2>2. ASSUME NEW v \in Ids, v # c, pc[c] = "refresh", family[v] = family[c], refresh[v] = "active"
          PROVE  v \in crowded /\ c \in crowded
      BY <2>2 DEF FamilyInv, Alone
    <2>3. CASE refresh[t] # "active"
      BY <1>4, <2>2, <2>3, StepTokens
    <2>4. CASE refresh[u] # "active"
      BY <1>4, <2>2, <2>4, StepTokens
    <2> QED
      BY <2>1, <2>3, <2>4
  <1> QED
    BY <1>0, <1>3, <1>4 DEF OneActiveRefresh

\* A statement of c's ends c's family, when nobody else is at work on it.
LEMMA OwnEnding ==
  ASSUME Shape, FamilyInv, NEW c \in Calls \ crowded, Step(c)
  PROVE  Ending(c)'
  <1>0. /\ family \in [Ids -> Ids] /\ Calls \subseteq Ids /\ c \in Ids /\ Ending(c) /\ Asks(c)
        /\ refresh \in [Ids -> {"none", "active", "inactive"}] /\ access \in [Ids -> BOOLEAN]
        /\ UNCHANGED <<req, family, crowded>> /\ \A d \in Calls \ {c} : pc'[d] = pc[d]
    BY StepWrites DEF Shape, TypeOK, Ids, FamilyInv
  <1>1. RevokeRefreshToken(c) => NoRefresh(family[c])' /\ access' = access
    BY <1>0 DEF RevokeRefreshToken, Deactivated, NoRefresh, Fam
  <1>2. RevokeAccessToken(c) => NoAccess(family[c])' /\ refresh' = refresh
    BY <1>0 DEF RevokeAccessToken, WithoutAccess, NoAccess, Fam
  <1>3. OfFamily(req[c]) /\ pc'[c] = "kill_access" /\ req[c].op # "exchange" => NoRefresh(family[c])'
    BY <1>1, StepLeads
  <1>4. OfFamily(req[c]) /\ pc'[c] = "kill_refresh" /\ req[c].op = "exchange" => NoAccess(family[c])'
    BY <1>2, StepLeads
  <1>5. ASSUME Ends(c)'
        PROVE  /\ NoRefresh(family[c])' /\ NoAccess(family[c])' /\ code'[family[c]] # "active"
               /\ \A d \in Calls : family[d] = family[c] => pc'[d] \notin Making
    <2>1. /\ OfFamily(req[c])
          /\ pc'[c] = "replayed" \/ (req[c].op = "revoke" /\ pc'[c] = "accepted")
      BY <1>0, <1>5 DEF Ends
    <2>2. \/ RevokeRefreshToken(c) /\ req[c].op = "exchange"
          \/ RevokeAccessToken(c) /\ req[c].op # "exchange"
      BY <2>1, StepLeads
    <2>3. /\ pc[c] = "kill_refresh" /\ req[c].op = "exchange" => NoAccess(family[c])
          /\ pc[c] = "kill_access" /\ req[c].op # "exchange" => NoRefresh(family[c])
      BY <2>1, <1>0 DEF Ending
    <2>4. NoRefresh(family[c])' /\ NoAccess(family[c])'
      <3>1. CASE RevokeRefreshToken(c) /\ req[c].op = "exchange"
        <4>1. NoAccess(family[c])
          BY <3>1, <2>3 DEF RevokeRefreshToken, At
        <4> QED
          BY <4>1, <3>1, <1>0, <1>1 DEF NoAccess
      <3>2. CASE RevokeAccessToken(c) /\ req[c].op # "exchange"
        <4>1. NoRefresh(family[c])
          BY <3>2, <2>3 DEF RevokeAccessToken, At
        <4> QED
          BY <4>1, <3>2, <1>0, <1>2 DEF NoRefresh
      <3> QED
        BY <2>2, <3>1, <3>2
    <2>5. pc[c] \in Past
      BY <2>2 DEF RevokeRefreshToken, RevokeAccessToken, At, Past
    <2>6. code'[family[c]] # "active"
      <3>1. code[family[c]] # "active" /\ family[c] \in Ids
        BY <2>5, <1>0 DEF FamilyInv, PastCode
      <3> QED
        BY <3>1, <2>5, StepTokens DEF Past
    <2>7. ASSUME NEW d \in Calls, family[d] = family[c] PROVE pc'[d] \notin Making
      <3>1. CASE d = c
        BY <3>1, <2>1 DEF Making
      <3>2. CASE d # c
        BY <3>2, <2>5, <2>7, <1>0, Workers
      <3> QED
        BY <3>1, <3>2
    <2> QED
      BY <2>4, <2>6, <2>7
  <1> QED
    BY <1>0, <1>3, <1>4, <1>5 DEF Ending

\* ... and no statement of another call's brings it back.
LEMMA OthersEnding ==
  ASSUME Shape, FamilyInv, NEW c \in Calls, Step(c), NEW d \in Calls \ crowded, d # c
  PROVE  Ending(d)'
  <1>0. /\ family \in [Ids -> Ids] /\ Calls \subseteq Ids /\ c \in Ids /\ Ending(d)
        /\ UNCHANGED <<req, family, crowded>> /\ \A e \in Calls \ {c} : pc'[e] = pc[e]
    BY StepWrites DEF Shape, TypeOK, Ids, FamilyInv
  <1>1. ASSUME NEW t \in Ids, family[t] = family[d], pc[d] \in Past \/ Ends(d)
        PROVE  /\ refresh'[t] = "active" => refresh[t] = "active"
               /\ access'[t] => access[t]
    <2>1. ~(family[c] = family[d] /\ pc[c] \in Making)
      <3>1. CASE pc[d] \in Past
        BY <3>1, Workers
      <3>2. CASE Ends(d)
        BY <3>2, <1>0 DEF Ending
      <3> QED
        BY <1>1, <3>1, <3>2
    <2> QED
      BY <1>1, <2>1, StepTokens DEF Making
  <1>2. /\ (pc[d] \in Past \/ Ends(d)) /\ NoRefresh(family[d]) => NoRefresh(family[d])'
        /\ (pc[d] \in Past \/ Ends(d)) /\ NoAccess(family[d]) => NoAccess(family[d])'
    BY <1>0, <1>1 DEF NoRefresh, NoAccess
  <1>3. ASSUME Ends(d) PROVE code'[family[d]] # "active"
    <2>1. code[family[d]] # "active" /\ family[d] \in Ids /\ ~(family[d] = c /\ pc[c] = "new_code")
      BY <1>0, <1>3, FamilyIsIssued DEF Ending
    <2> QED
      BY <2>1, StepTokens
  <1>4. ASSUME Ends(d), NEW e \in Calls, family[e] = family[d] PROVE pc'[e] \notin Making
    <2>1. CASE e # c
      BY <2>1, <1>0, <1>4 DEF Ending
    <2>2. CASE e = c
      <3>1. pc[c] \notin Making /\ code[family[c]] # "active" /\ NoRefresh(family[c])
        BY <2>2, <1>0, <1>4 DEF Ending
      <3> SUFFICES ASSUME pc'[c] \in Making PROVE FALSE
        BY <2>2
      <3>2. pc'[c] = "rotate" /\ pc[c] = "token" /\ refresh[req[c].of] = "active"
        BY <3>1, StepLeads DEF Making, Rotate, InvalidateCode, RotateAccess, CreateAccessToken, At
      <3>3. OfFamily(req[c]) /\ Sent(c)
        BY <3>2 DEF Shape, Asks, OfFamily, FamilyInv
      <3>4. req[c].of \in Ids /\ family[req[c].of] = family[c]
        BY <3>3 DEF Sent
      <3> QED
        BY <3>1, <3>2, <3>4 DEF NoRefresh
    <2> QED
      BY <2>1, <2>2
  <1>5. Ends(d)' <=> Ends(d)
    BY <1>0 DEF Ends
  <1>6. Ends(d) => NoRefresh(family[d])' /\ NoAccess(family[d])'
    BY <1>0, <1>2 DEF Ending
  <1>7. /\ OfFamily(req[d]) /\ pc[d] = "kill_access" /\ req[d].op # "exchange" => NoRefresh(family[d])'
        /\ OfFamily(req[d]) /\ pc[d] = "kill_refresh" /\ req[d].op = "exchange" => NoAccess(family[d])'
    BY <1>0, <1>2 DEF Ending, Past
  <1> QED
    BY <1>0, <1>3, <1>4, <1>5, <1>6, <1>7 DEF Ending

LEMMA NextFamily ==
  ASSUME Shape, Shape', FamilyInv, Next \/ UNCHANGED vars
  PROVE  FamilyInv'
  <1>1. CASE \E c \in Calls : Step(c)
    <2>1. PICK c \in Calls : Step(c)
      BY <1>1
    <2>2. \A d \in Calls \ crowded' : Ending(d)'
      <3> SUFFICES ASSUME NEW d \in Calls \ crowded' PROVE Ending(d)'
        OBVIOUS
      <3>1. d \notin crowded
        BY <2>1, StepWrites
      <3> QED
        BY <2>1, <3>1, OwnEnding, OthersEnding
    <2> QED
      BY <2>1, <2>2, NextSent, StepCodeFirst, StepAlone DEF FamilyInv
  <1>2. CASE (\E c \in Calls : Outside(c)) \/ Elsewhere
    BY <1>2, NextSent, OutsideTokens DEF FamilyInv
  <1> QED
    BY <1>1, <1>2 DEF Next, Outside, Elsewhere

LEMMA FamiliesInvariant == Spec => [](Shape /\ FamilyInv)
  <1>1. Init => Shape /\ FamilyInv
    BY InitShape, InitFamily
  <1>2. Shape /\ FamilyInv /\ [Next]_vars => (Shape /\ FamilyInv)'
    BY NextShape, NextFamily
  <1> QED
    BY <1>1, <1>2, PTL DEF Spec

\* Of the refresh tokens of a family one works, unless requests overlapped.
THEOREM RefreshTokensRotate == Spec => []OneActiveRefresh
  <1>1. FamilyInv => OneActiveRefresh
    BY DEF FamilyInv
  <1> QED
    BY <1>1, FamiliesInvariant, PTL

\* A family that was revoked, or whose code or token was sent again, is dead.
THEOREM EndedFamiliesStayDead == Spec => []EndedFamilyStaysDead
  <1>1. Shape /\ FamilyInv => EndedFamilyStaysDead
    <2> SUFFICES ASSUME Shape, FamilyInv, NEW c \in Calls, Ends(c), NEW t \in Of(Fam(c))
                 PROVE  ~Verified(t) /\ refresh[t] # "active"
      BY DEF EndedFamilyStaysDead
    <2>1. t \in Ids /\ family[t] = family[c]
      BY DEF Of, Fam
    <2>2. NoRefresh(family[c]) /\ NoAccess(family[c])
      BY DEF Ends, FamilyInv, Ending
    <2> QED
      BY <2>1, <2>2 DEF NoRefresh, NoAccess, Verified
  <1> QED
    BY <1>1, FamiliesInvariant, PTL

-----------------------------------------------------------------------------
\* Codes.  A call has made the code its own ...
Redeems(c) == req[c].op = "exchange" /\ pc[c] \in {"access", "refresh", "accepted"}
\* ... or has found it unused and is about to.
Redeeming(c) == pc[c] \in {"pkce", "pkce_delete", "code_again", "invalidate"}

\* A code is exchanged for tokens once, but by calls that overlapped: GetCode and
\* InvalidateCode are two transactions (storage_pgx.go), with PKCE between them.
CodeExchangedOnce ==
    \A c, d \in Calls :
        c # d /\ Redeems(c) /\ Redeems(d) /\ family[c] = family[d] => {c, d} \subseteq crowded

RedeemInv ==
    /\ \A c \in Calls : Redeems(c) => code[family[c]] = "spent"
    /\ \A c, d \in Calls :
         c # d /\ Redeems(c) /\ Redeeming(d) /\ family[c] = family[d] => {c, d} \subseteq crowded
    /\ CodeExchangedOnce

\* A code that has been used stays so, and how calls come to it.
LEMMA StepRedeems ==
  ASSUME Shape, NEW c \in Calls, Step(c)
  PROVE  /\ \A f \in Ids : code[f] = "spent" => code'[f] = "spent"
         /\ Redeeming(c)' => Redeeming(c) \/ code[family[c]] = "active"
         /\ Redeems(c)' => Redeems(c) \/ InvalidateCode(c)
  <1>0. /\ pc \in [Calls -> PCs] /\ Asks(c) /\ Makes(c) /\ c \in Ids
        /\ code \in [Ids -> {"none", "active", "spent"}]
    BY DEF Shape, TypeOK, Ids
  <1>1. \A f \in Ids : code[f] = "spent" => code'[f] = "spent"
    <2>1. CASE CreateCode(c) \/ InvalidateCode(c)
      BY <1>0, <2>1 DEF CreateCode, InvalidateCode, Makes, At
    <2> QED
      BY <2>1, StepWrites
  <1>2. CASE \/ ReadClient(c) \/ HasConsent(c) \/ ConsumeNonce(c) \/ GrantConsent(c)
             \/ CreateCode(c) \/ CreatePKCE(c)
    BY <1>0, <1>1, <1>2 DEF ReadClient, HasConsent, ConsumeNonce, GrantConsent, CreateCode,
       CreatePKCE, Answer, Goto, At, Asks, Redeems, Redeeming
  <1>3. CASE \/ GetCode(c) \/ GetPKCE(c) \/ DeletePKCE(c) \/ GetCodeAgain(c) \/ InvalidateCode(c)
             \/ GetRefreshToken(c)
    BY <1>0, <1>1, <1>3 DEF GetCode, GetPKCE, DeletePKCE, GetCodeAgain, InvalidateCode,
       GetRefreshToken, CodeRow, Fam, Answer, Goto, At, Redeems, Redeeming
  <1>4. CASE \/ Rotate(c) \/ RotateAccess(c) \/ CreateAccessToken(c) \/ CreateRefreshToken(c)
             \/ DeleteRefreshToken(c) \/ RevokeRefreshToken(c) \/ RevokeAccessToken(c)
    BY <1>0, <1>1, <1>4 DEF Rotate, RotateAccess, CreateAccessToken, CreateRefreshToken,
       DeleteRefreshToken, RevokeRefreshToken, RevokeAccessToken, Goto, At, Asks, Redeems, Redeeming
  <1>5. CASE \/ SeedSuppressed(c) \/ UpsertSeed(c) \/ DeleteClient(c)
             \/ MayRegister(c) \/ CountClients(c) \/ CountAgain(c) \/ Prune(c) \/ InsertClient(c)
    BY <1>0, <1>1, <1>5 DEF SeedSuppressed, UpsertSeed, DeleteClient, MayRegister, CountClients,
       CountAgain, Prune, InsertClient, OnlyClients, Answer, Goto, At, Asks, Redeems, Redeeming
  <1> QED
    BY <1>2, <1>3, <1>4, <1>5 DEF Step

LEMMA StepRedeemInv ==
  ASSUME Shape, FamilyInv, RedeemInv, NEW c \in Calls, Step(c)
  PROVE  RedeemInv'
  <1>0. /\ UNCHANGED <<req, family, crowded>> /\ \A d \in Calls \ {c} : pc'[d] = pc[d]
        /\ code \in [Ids -> {"none", "active", "spent"}]
        /\ \A d \in Calls : family[d] \in Ids
    BY StepWrites DEF Shape, TypeOK, Ids
  <1>1. \A d \in Calls \ {c} : Redeems(d)' = Redeems(d) /\ Redeeming(d)' = Redeeming(d)
    BY <1>0 DEF Redeems, Redeeming
  <1>2. InvalidateCode(c) => Redeeming(c) /\ code'[family[c]] = "spent"
    BY <1>0 DEF InvalidateCode, Fam, At, Redeeming
  <1>3. ASSUME NEW d \in Calls, Redeems(d)' PROVE code'[family[d]] = "spent"
    BY <1>0, <1>1, <1>2, <1>3, StepRedeems DEF RedeemInv
  <1>4. ASSUME NEW d \in Calls, d # c, family[d] = family[c], InvalidateCode(c),
               Redeems(d) \/ Redeeming(d)
        PROVE  {c, d} \subseteq crowded
    <2>1. CASE Redeems(d)
      BY <1>2, <1>4, <2>1 DEF RedeemInv
    <2>2. CASE Redeeming(d)
      <3>1. Works(c) /\ Works(d)
        BY <1>2, <1>4, <2>2 DEF Shape, Asks, Works, OfFamily, Redeeming, Running
      <3> QED
        BY <1>4, <3>1 DEF FamilyInv, Overlap
    <2> QED
      BY <1>4, <2>1, <2>2
  <1>5. ASSUME NEW d \in Calls, d # c, family[d] = family[c], Redeems(d), Redeeming(c)'
        PROVE  {c, d} \subseteq crowded
    <2>1. Redeeming(c)
      BY <1>5, StepRedeems DEF RedeemInv
    <2> QED
      BY <1>5, <2>1 DEF RedeemInv
  <1>6. ASSUME NEW d \in Calls, NEW e \in Calls, d # e, family[d] = family[e],
               Redeems(d)', Redeems(e)' \/ Redeeming(e)'
        PROVE  {d, e} \subseteq crowded
    <2>1. CASE d = c
      <3>1. Redeems(c) \/ InvalidateCode(c)
        BY <1>6, <2>1, StepRedeems
      <3> QED
        BY <1>1, <1>4, <1>6, <2>1, <3>1 DEF RedeemInv, CodeExchangedOnce
    <2>2. CASE e = c /\ Redeems(e)'
      <3>1. Redeems(c) \/ InvalidateCode(c)
        BY <2>2, StepRedeems
      <3> QED
        BY <1>1, <1>4, <1>6, <2>2, <3>1 DEF RedeemInv, CodeExchangedOnce
    <2>3. CASE e = c /\ Redeeming(e)'
      BY <1>1, <1>5, <1>6, <2>3
    <2>4. CASE d # c /\ e # c
      BY <1>1, <1>6, <2>4 DEF RedeemInv, CodeExchangedOnce
    <2> QED
      BY <1>6, <2>1, <2>2, <2>3, <2>4
  <1> QED
    BY <1>0, <1>3, <1>6 DEF RedeemInv, CodeExchangedOnce

LEMMA NextRedeem ==
  ASSUME Shape, FamilyInv, RedeemInv, Next \/ UNCHANGED vars
  PROVE  RedeemInv'
  <1>1. CASE \E c \in Calls : Step(c)
    BY <1>1, StepRedeemInv
  <1>2. CASE (\E c \in Calls : Outside(c)) \/ Elsewhere
    <2>1. UNCHANGED code /\ crowded \subseteq crowded'
      BY <1>2, OutsideWrites
    <2>2. ASSUME NEW c \in Calls, Redeems(c)' \/ Redeeming(c)'
          PROVE  /\ Redeems(c)' = Redeems(c) /\ Redeeming(c)' = Redeeming(c)
                 /\ family'[c] = family[c]
      BY <1>2, <2>2, OutsideWrites DEF Redeems, Redeeming
    <2> QED
      BY <2>1, <2>2 DEF RedeemInv, CodeExchangedOnce
  <1> QED
    BY <1>1, <1>2 DEF Next, Outside, Elsewhere

\* However often a code is sent, two calls get tokens for it only if they ran at
\* the same time.
THEOREM CodesRedeemOnce == Spec => []CodeExchangedOnce
  <1>1. Init => RedeemInv
    BY NoRows DEF Init, RedeemInv, CodeExchangedOnce, Redeems
  <1>2. Shape /\ FamilyInv /\ RedeemInv /\ [Next]_vars => RedeemInv'
    BY NextRedeem
  <1>3. RedeemInv => CodeExchangedOnce
    BY DEF RedeemInv
  <1> QED
    BY <1>1, <1>2, <1>3, FamiliesInvariant, PTL DEF Spec

-----------------------------------------------------------------------------
\* Registrations.
Registers(c) == pc[c] \in Running /\ req[c].op = "register"

RegisterInv ==
    /\ \A c, d \in Calls : c # d /\ Registers(c) /\ Registers(d) => c \in crowded
    /\ \A c \in Calls \ crowded : pc[c] = "insert" => HasCapacity
    /\ Cardinality(DcrClients \ crowded) <= DcrMax

LEMMA FewerClients ==
  ASSUME NEW S, NEW T, S \subseteq T, IsFiniteSet(T)
  PROVE  /\ IsFiniteSet(S) /\ Cardinality(S) \in Nat /\ Cardinality(T) \in Nat
         /\ Cardinality(S) <= Cardinality(T)
  BY FS_Subset, FS_CardinalityType

LEMMA DcrClientsFinite == IsFiniteSet(DcrClients) /\ IsFiniteSet(DcrClients \ crowded)
  <1>1. DcrClients \subseteq Clients /\ DcrClients \ crowded \subseteq Clients
    BY DEF DcrClients
  <1> QED
    BY <1>1, FewerClients, SeedsBounded

LEMMA InitRegister == Init => RegisterInv
  <1> SUFFICES ASSUME Init PROVE RegisterInv
    OBVIOUS
  <1>1. DcrClients \ crowded = {k \in SeedClients : LET row == ClientRows[k]
                                                IN  row.there /\ ~row.deleted /\ row.via = "dcr"}
    BY NoRows DEF Init, DcrClients, Clients
  <1>2. \A c \in Calls : pc[c] = "idle"
    BY DEF Init
  <1> QED
    BY <1>1, <1>2, SeedsBounded DEF RegisterInv, Registers, Running

LEMMA NextRegister ==
  ASSUME Shape, RegisterInv, Next \/ UNCHANGED vars
  PROVE  RegisterInv'
  <1>0. /\ pc \in [Calls -> PCs] /\ req \in [Calls -> AllRequests \cup {NoRequest}]
        /\ clients \in [Clients -> OAuthClients] /\ Calls \subseteq Clients
        /\ DcrMax \in Nat /\ \A c \in Calls : Asks(c)
    BY Bounds DEF Shape, TypeOK, Clients
  \* No more clients than before.
  <1>1. ASSUME DcrClients' \subseteq DcrClients, crowded \subseteq crowded'
        PROVE  /\ Cardinality(DcrClients \ crowded)' <= DcrMax
               /\ HasCapacity => HasCapacity'
    <2>1. /\ Cardinality(DcrClients') <= Cardinality(DcrClients)
          /\ Cardinality(DcrClients') \in Nat /\ Cardinality(DcrClients) \in Nat
      BY <1>1, FewerClients, DcrClientsFinite
    <2>2. DcrClients' \ crowded' \subseteq DcrClients \ crowded
      BY <1>1
    <2>3. /\ Cardinality(DcrClients' \ crowded') <= Cardinality(DcrClients \ crowded)
          /\ Cardinality(DcrClients' \ crowded') \in Nat /\ Cardinality(DcrClients \ crowded) \in Nat
      BY <2>2, FewerClients, DcrClientsFinite
    <2>4. Cardinality(DcrClients' \ crowded') <= DcrMax
      BY <2>3, <1>0 DEF RegisterInv
    <2>5. HasCapacity => HasCapacity'
      BY <2>1, <1>0 DEF HasCapacity
    <2> QED
      BY <2>4, <2>5
  <1>2. CASE \E c \in Calls : Step(c)
    <2>1. PICK c \in Calls : Step(c)
      BY <1>2
    <2>2. /\ UNCHANGED <<req, crowded>> /\ pc[c] \in Running
          /\ \A d \in Calls \ {c} : pc'[d] = pc[d]
      BY <2>1, StepWrites
    <2>3. \A d, e \in Calls : d # e /\ Registers(d)' /\ Registers(e)' => d \in crowded'
      <3>1. \A d \in Calls : Registers(d)' => Registers(d)
        BY <2>2 DEF Registers
      <3> QED
        BY <2>2, <3>1 DEF RegisterInv
    <2>4. CASE InsertClient(c)
      <3>1. /\ pc[c] = "insert" /\ pc'[c] = "accepted" /\ Registers(c)
            /\ DcrClients' \subseteq DcrClients \cup {c}
        BY <2>4, <1>0 DEF InsertClient, OnlyClients, Goto, At, PutClient, DcrClients, Asks, Registers,
           Running
      <3>2. ASSUME NEW d \in Calls \ crowded PROVE pc'[d] # "insert"
        BY <3>1, <3>2, <2>2, <1>0 DEF RegisterInv, Registers, Asks, Running
      <3>3. CASE c \in crowded
        <4>1. DcrClients' \ crowded' \subseteq DcrClients \ crowded
          BY <3>1, <3>3, <2>2
        <4>2. /\ Cardinality(DcrClients' \ crowded') <= Cardinality(DcrClients \ crowded)
              /\ Cardinality(DcrClients' \ crowded') \in Nat
              /\ Cardinality(DcrClients \ crowded) \in Nat
          BY <4>1, FewerClients, DcrClientsFinite
        <4>3. Cardinality(DcrClients' \ crowded') <= DcrMax
          BY <4>2, <1>0 DEF RegisterInv
        <4> QED
          BY <4>3, <3>2, <2>2, <2>3 DEF RegisterInv
      <3>4. CASE c \notin crowded
        <4>1. Cardinality(DcrClients) < DcrMax
          BY <3>1, <3>4 DEF RegisterInv, HasCapacity
        <4>2. /\ IsFiniteSet(DcrClients \cup {c}) /\ Cardinality(DcrClients) \in Nat
              /\ Cardinality(DcrClients \cup {c}) <= Cardinality(DcrClients) + 1
          <5>1. IsFiniteSet(DcrClients)
            BY DcrClientsFinite
          <5>2. Cardinality(DcrClients) \in Nat
            BY <5>1, FS_CardinalityType
          <5>3. /\ IsFiniteSet(DcrClients \cup {c})
                /\ Cardinality(DcrClients \cup {c}) =
                     IF c \in DcrClients THEN Cardinality(DcrClients) ELSE Cardinality(DcrClients) + 1
            BY <5>1, FS_AddElement
          <5> QED
            BY <5>2, <5>3
        <4>3. DcrClients' \ crowded' \subseteq DcrClients \cup {c}
          BY <3>1
        <4>4. /\ Cardinality(DcrClients' \ crowded') <= Cardinality(DcrClients \cup {c})
              /\ Cardinality(DcrClients' \ crowded') \in Nat
              /\ Cardinality(DcrClients \cup {c}) \in Nat
          BY <4>2, <4>3, FewerClients
        <4>5. Cardinality(DcrClients' \ crowded') <= DcrMax
          BY <4>1, <4>2, <4>4, <1>0
        <4> QED
          BY <4>5, <3>2, <2>2, <2>3 DEF RegisterInv
      <3> QED
        BY <3>3, <3>4
    <2>5. CASE ~InsertClient(c)
      <3>1. DcrClients' \subseteq DcrClients
        <4>1. CASE UpsertSeed(c)
          BY <4>1, <1>0 DEF UpsertSeed, PutClient, DcrClients
        <4>2. CASE DeleteClient(c)
          <5> DEFINE k == req[c].client
          <5>1. \/ clients' = clients
                \/ clients' = [clients EXCEPT ![k] =
                                 [clients[k] EXCEPT !.deleted = TRUE, !.suppressed = req[c].suppress]]
            BY <4>2 DEF DeleteClient, PutClient, Answer
          <5>2. \A j \in Clients : clients'[j] = clients[j] \/ clients'[j].deleted
            <6>1. CASE clients' = clients
              BY <6>1
            <6>2. CASE clients' = [clients EXCEPT ![k] =
                                     [clients[k] EXCEPT !.deleted = TRUE, !.suppressed = req[c].suppress]]
              <7> TAKE j \in Clients
              <7>1. clients \in [Clients -> OAuthClients]
                BY <1>0
              <7>2. CASE j # k
                BY <6>2, <7>1, <7>2
              <7>3. CASE j = k
                <8>1. clients'[j] =
                        [clients[k] EXCEPT !.deleted = TRUE, !.suppressed = req[c].suppress]
                  BY <6>2, <7>1, <7>3
                <8> QED
                  BY <7>1, <7>3, <8>1 DEF OAuthClients
              <7> QED
                BY <7>2, <7>3
            <6> QED
              BY <5>1, <6>1, <6>2
          <5> QED
            BY <5>2 DEF DcrClients
        <4>3. CASE Prune(c)
          <5>1. \A k \in Clients : clients'[k] = clients[k] \/ clients'[k].deleted
            BY <4>3, <1>0 DEF Prune, OAuthClients
          <5> QED
            BY <5>1 DEF DcrClients
        <4>4. CASE UNCHANGED clients
          BY <4>4 DEF DcrClients
        <4> QED
          BY <2>1, <2>5, <4>1, <4>2, <4>3, <4>4, StepWrites
      <3>2. Cardinality(DcrClients \ crowded)' <= DcrMax /\ (HasCapacity => HasCapacity')
        BY <3>1, <2>2, <1>1
      <3>3. pc'[c] = "insert" => HasCapacity
        <4>1. CASE \/ ReadClient(c) \/ HasConsent(c) \/ ConsumeNonce(c) \/ GrantConsent(c)
                   \/ CreateCode(c) \/ CreatePKCE(c)
          BY <1>0, <4>1 DEF ReadClient, HasConsent, ConsumeNonce, GrantConsent, CreateCode, CreatePKCE,
             Answer, Goto, At
        <4>2. CASE \/ GetCode(c) \/ GetPKCE(c) \/ DeletePKCE(c) \/ GetCodeAgain(c)
                   \/ InvalidateCode(c) \/ GetRefreshToken(c)
          BY <1>0, <4>2 DEF GetCode, GetPKCE, DeletePKCE, GetCodeAgain, InvalidateCode,
             GetRefreshToken, Answer, Goto, At
        <4>3. CASE \/ Rotate(c) \/ RotateAccess(c) \/ CreateAccessToken(c) \/ CreateRefreshToken(c)
                   \/ DeleteRefreshToken(c) \/ RevokeRefreshToken(c) \/ RevokeAccessToken(c)
          BY <1>0, <4>3 DEF Rotate, RotateAccess, CreateAccessToken, CreateRefreshToken,
             DeleteRefreshToken, RevokeRefreshToken, RevokeAccessToken, Goto, At
        <4>4. CASE \/ SeedSuppressed(c) \/ UpsertSeed(c) \/ DeleteClient(c)
                   \/ MayRegister(c) \/ CountClients(c) \/ CountAgain(c) \/ Prune(c)
          BY <1>0, <4>4 DEF SeedSuppressed, UpsertSeed, DeleteClient, MayRegister, CountClients,
             CountAgain, Prune, OnlyClients, Answer, Goto, At
        <4> QED
          BY <2>1, <2>5, <4>1, <4>2, <4>3, <4>4 DEF Step
      <3>4. \A d \in Calls \ crowded : pc'[d] = "insert" => HasCapacity
        BY <2>2, <3>3 DEF RegisterInv
      <3> QED
        BY <3>2, <3>4, <2>2, <2>3 DEF RegisterInv
    <2> QED
      BY <2>4, <2>5
  <1>3. CASE (\E c \in Calls : Outside(c)) \/ Elsewhere
    <2>1. DcrClients' = DcrClients
      <3>1. \A k \in Clients : /\ clients'[k].there = clients[k].there
                              /\ clients'[k].deleted = clients[k].deleted
                              /\ clients'[k].via = clients[k].via
        BY <1>0, <1>3 DEF Outside, Elsewhere, Submit, Fault, ExpireNonce, Restart, Expire, vars,
           OAuthClients
      <3> QED
        BY <3>1 DEF DcrClients
    <2>2. crowded \subseteq crowded' /\ \A d \in Calls : pc'[d] = "insert" => pc[d] = "insert"
      BY <1>3, OutsideWrites
    <2>3. Cardinality(DcrClients \ crowded)' <= DcrMax /\ (HasCapacity => HasCapacity')
      BY <2>1, <2>2, <1>1
    <2>4. \A d \in Calls \ crowded' : pc'[d] = "insert" => HasCapacity'
      BY <2>2, <2>3 DEF RegisterInv
    <2>5. CASE \E c \in Calls : Submit(c)
      <3>1. PICK c \in Calls : Submit(c)
        BY <2>5
      <3>2. PICK r \in Requests[c] :
               /\ req' = [req EXCEPT ![c] = r]
               /\ crowded' = crowded \cup Meets(c, r) \cup (IF Meets(c, r) = {} THEN {} ELSE {c})
               /\ Goto(c, FirstStep(r.op))
        BY <3>1 DEF Submit
      <3>3. /\ req'[c] = r
            /\ \A d \in Calls \ {c} : pc'[d] = pc[d] /\ req'[d] = req[d]
        BY <1>0, <3>2 DEF Goto
      <3>4. ASSUME NEW d \in Calls, NEW e \in Calls, d # e, Registers(d)', Registers(e)'
            PROVE  d \in crowded'
        <4>1. CASE d = c
          <5>1. e \in Meets(c, r)
            BY <4>1, <3>3, <3>4 DEF Registers, Meets
          <5> QED
            BY <5>1, <4>1, <3>2
        <4>2. CASE e = c
          <5>1. d \in Meets(c, r)
            BY <4>2, <3>3, <3>4 DEF Registers, Meets
          <5> QED
            BY <5>1, <3>2
        <4>3. CASE d # c /\ e # c
          BY <4>3, <3>2, <3>3, <3>4 DEF RegisterInv, Registers
        <4> QED
          BY <4>1, <4>2, <4>3
      <3> QED
        BY <3>4, <2>3, <2>4 DEF RegisterInv
    <2>6. CASE (\E c \in Calls : Fault(c) \/ ExpireNonce(c)) \/ Elsewhere
      <3>1. /\ UNCHANGED <<req, crowded>>
            /\ \A d \in Calls : pc'[d] = pc[d] \/ pc'[d] = "failed"
        BY <1>0, <2>6 DEF Fault, ExpireNonce, Elsewhere, Restart, Expire, vars, tokens, Goto
      <3>2. \A d \in Calls : Registers(d)' => Registers(d)
        BY <3>1 DEF Registers, Running
      <3> QED
        BY <3>1, <3>2, <2>3, <2>4 DEF RegisterInv
    <2> QED
      BY <2>5, <2>6, <1>3 DEF Outside
  <1> QED
    BY <1>2, <1>3 DEF Next, Outside, Elsewhere

\* Registrations that do not overlap keep to the limit.
THEOREM RegistrationsAreBounded == Spec => []DcrBounded
  <1>1. Shape /\ RegisterInv => DcrBounded
    <2> SUFFICES ASSUME Shape, RegisterInv,
                        \A c \in crowded \cap DcrClients : req[c].op # "register"
                 PROVE  Cardinality(DcrClients) <= DcrMax
      BY DEF DcrBounded
    <2>1. \A c \in crowded : c \in Calls
      BY DEF Shape, TypeOK
    <2>2. \A c \in Calls : c \in DcrClients => req[c].op = "register"
      BY DEF Shape, Makes, DcrClients
    <2>3. DcrClients \ crowded = DcrClients
      BY <2>1, <2>2
    <2> QED
      BY <2>3 DEF RegisterInv
  <1>2. Init => Shape /\ RegisterInv
    BY InitShape, InitRegister
  <1>3. Shape /\ RegisterInv /\ [Next]_vars => Shape' /\ RegisterInv'
    BY NextShape, NextRegister
  <1> QED
    BY <1>1, <1>2, <1>3, PTL DEF Spec

=============================================================================
