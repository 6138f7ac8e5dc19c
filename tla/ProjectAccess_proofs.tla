------------------------ MODULE ProjectAccess_proofs ------------------------
(***************************************************************************)
(* What overlapping invites, members and changes of visibility keep true,  *)
(* for any calls, users, artifacts, requests and seeds.                    *)
(***************************************************************************)
EXTENDS ProjectAccess, FiniteSetTheorems, TLAPS

OfInvite == {"join", "revoke", "extend"}
OfArtifact == {"set_artifact", "patch"}

\* What a call asks for when it is at a statement.
Asks(c) ==
    /\ pc[c] # "idle" => req[c] \in AllRequests
    /\ pc[c] = "insert" => req[c].op = "issue"
    /\ pc[c] = "lookup" => req[c].op = "issue"
    /\ pc[c] = "audit" => \/ req[c].op = "extend"
                          \/ req[c].op = "issue" /\ req[c].permanent
    /\ pc[c] = "set_all" => req[c].op = "set_all"
    /\ pc[c] = "cap" => req[c].op \in {"set_artifact", "set_all"}
    /\ pc[c] \in {"gate", "exchange", "ensure"} => req[c].op \in {"signup", "boot"}
    /\ pc[c] = "snapshot" => req[c].op \in OfArtifact
    /\ pc[c] = "count" => req[c].op = "remove"
    /\ pc[c] = "lock_project" => req[c].op = "patch"

\* What it has read of the rows it has locked is what they hold, and has passed
\* its checks.
Reads(c) ==
    /\ pc[c] = "write" /\ req[c].op \in OfInvite =>
         LET inv == invites[req[c].of]
         IN  seen[c].invite = inv /\ inv.there /\ ~Refuses(c, inv)
    /\ pc[c] \in {"lock_project", "write"} /\ req[c].op \in OfArtifact =>
         seen[c].tier = tier[req[c].of]
    /\ pc[c] = "write" /\ req[c].op \in OfArtifact => seen[c].tier # req[c].tier
    /\ Do(c, "patch", "write") => Allowed(project, req[c].tier)

\* An invite comes with its call, which makes it once and then looks it up.
Issues(c) ==
    /\ invites[c].there => pc[c] \in {"lookup", "audit"} \cup Ended /\ req[c].op = "issue"
    /\ pc[c] = "lookup" => invites[c].there

LocksApart == \A c, d \in Calls : c # d => Held(c) \cap Held(d) = {}

UsedIsThere == \A i \in Invites : invites[i].used => invites[i].there

IInv ==
    /\ TypeOK
    /\ \A c \in Calls : Asks(c) /\ Reads(c) /\ Issues(c)
    /\ LocksApart
    /\ UsedIsThere
    /\ InviteSettledOnce
    /\ JoinedInTime
    /\ HistoryIsComplete

-----------------------------------------------------------------------------
LEMMA RequestType ==
  ASSUME NEW r \in AllRequests
  PROVE  /\ r.op \in {"issue", "join", "revoke", "extend", "remove", "signup", "boot",
                      "set_project", "set_artifact", "patch", "set_all"}
         /\ r.who \in Users
         /\ r.op = "issue" => /\ r.role \in {"viewer", "editor"} /\ r.permanent \in BOOLEAN
                              /\ r.expires \in Nat
         /\ r.op \in OfInvite => r.of \in Invites
         /\ r.op = "extend" => r.permanent \in BOOLEAN
         /\ r.op = "remove" => r.of \in Users
         /\ r.op \in OfArtifact \cup {"set_project", "set_all"} => r.tier \in Tiers
         /\ r.op \in OfArtifact => r.of \in Artifacts
  BY DEF AllRequests, IssueRequests, InviteRequests, ExtendRequests, RemoveRequests, OwnerRequests,
         ProjectRequests, ArtifactRequests, BulkRequests, OfInvite, OfArtifact

LEMMA NoRows == NoInvite \in InviteRows /\ Nothing \in Seen /\ ~NoInvite.there /\ ~NoInvite.used
  BY DEF NoInvite, Nothing, InviteRows, Seen, Tiers

LEMMA InitInv == Init => IInv
  <1> SUFFICES ASSUME Init PROVE IInv
    OBVIOUS
  <1>1. invites \in [Invites -> InviteRows]
    BY SeedTypes, NoRows DEF Init
  <1>2. \A i \in Invites : ~invites[i].used
    BY SeedTypes, NoRows DEF Init
  <1>3. \A c \in Calls : ~invites[c].there
    BY CallsAreNew, NoRows DEF Init, Invites
  <1>4. revisions \in [Artifacts -> Seq([from : Tiers, to : Tiers])]
        /\ \A a \in Artifacts : revisions[a] = <<>> /\ tier[a] = SeedTiers[a]
    BY DEF Init
  <1>5. TypeOK
    BY <1>1, <1>4, SeedTypes, Bounds, NoRows DEF Init, TypeOK, PCs
  <1>6. \A c \in Calls : Asks(c) /\ Reads(c) /\ Issues(c)
    BY <1>3 DEF Init, Asks, Reads, Issues, Do
  <1>7. LocksApart
    BY DEF Init, LocksApart, Held
  <1>8. UsedIsThere /\ InviteSettledOnce /\ JoinedInTime
    BY <1>2 DEF Init, UsedIsThere, InviteSettledOnce, JoinedInTime, Settles
  <1>9. HistoryIsComplete
    BY <1>4 DEF HistoryIsComplete
  <1> QED
    BY <1>5, <1>6, <1>7, <1>8, <1>9 DEF IInv

-----------------------------------------------------------------------------
\* Who is about to write has its row to itself.
LEMMA WritersApart ==
  ASSUME LocksApart, NEW c \in Calls, NEW d \in Calls, c # d,
         pc[c] \in {"count", "lock_project", "write"}, pc[d] \in {"count", "lock_project", "write"}
  PROVE  /\ RowOf(req[c]) # RowOf(req[d])
         /\ Do(d, "patch", "write") => RowOf(req[c]) # TheProject
         /\ req[c].op \in OfInvite /\ req[d].op \in OfInvite => req[c].of # req[d].of
         /\ req[c].op \in OfArtifact /\ req[d].op \in OfArtifact => req[c].of # req[d].of
  <1>1. RowOf(req[c]) \in Held(c) /\ RowOf(req[d]) \in Held(d)
    BY DEF Held
  <1>2. Do(d, "patch", "write") => TheProject \in Held(d)
    BY DEF Held, Do
  <1>3. Held(c) \cap Held(d) = {}
    BY DEF LocksApart
  <1> QED
    BY <1>1, <1>2, <1>3 DEF RowOf, OfInvite, OfArtifact

LEMMA LocksKept ==
  ASSUME LocksApart, NEW c \in Calls,
         \A d \in Calls \ {c} : pc'[d] = pc[d] /\ req'[d] = req[d],
         \A row \in Held(c)' : row \in Held(c) \/ Free(c, row)
  PROVE  LocksApart'
  <1>1. \A d \in Calls \ {c} : Held(d)' = Held(d)
    BY DEF Held, Do
  <1>2. \A d \in Calls \ {c} : Held(c)' \cap Held(d)' = {}
    BY <1>1 DEF LocksApart, Free
  <1> QED
    BY <1>1, <1>2 DEF LocksApart

\* A step of c's that writes neither invites nor visibility.
LEMMA OneMoves ==
  ASSUME IInv, NEW c \in Calls, TypeOK',
         UNCHANGED <<invites, project, tier, revisions>>,
         \A d \in Calls \ {c} :
             pc'[d] = pc[d] /\ req'[d] = req[d] /\ at'[d] = at[d] /\ seen'[d] = seen[d],
         Asks(c)', Reads(c)', Issues(c)',
         \A row \in Held(c)' : row \in Held(c) \/ Free(c, row),
         pc[c] # "accepted", pc'[c] = "accepted" => req'[c].op \notin {"join", "revoke"}
  PROVE  IInv'
  <1>1. \A d \in Calls : Asks(d)' /\ Reads(d)' /\ Issues(d)'
    BY DEF IInv, Asks, Reads, Issues, Do, Refuses, Inactive
  <1>2. LocksApart'
    BY LocksKept DEF IInv
  <1>3. \A d \in Calls, i \in Invites : Settles(d, i)' <=> Settles(d, i)
    BY DEF Settles
  <1>4. InviteSettledOnce' /\ UsedIsThere'
    BY <1>3 DEF IInv, InviteSettledOnce, UsedIsThere
  <1>5. JoinedInTime'
    <2> SUFFICES ASSUME NEW d \in Calls, NEW i \in Invites, Settles(d, i)', req'[d].op = "join"
                 PROVE  invites[i].permanent \/ at'[d] < invites[i].expires
      BY DEF JoinedInTime
    <2>1. Settles(d, i) /\ d # c
      BY <1>3 DEF Settles
    <2> QED
      BY <2>1 DEF IInv, JoinedInTime
  <1>6. HistoryIsComplete'
    BY DEF IInv, HistoryIsComplete
  <1> QED
    BY <1>1, <1>2, <1>4, <1>5, <1>6 DEF IInv

\* ... and that answers or goes on.
LEMMA OneAnswers ==
  ASSUME IInv, NEW c \in Calls, NEW l \in PCs \ {"idle"}, Answer(c, l),
         pc[c] \notin {"idle"} \cup Ended, l # "lookup",
         pc[c] \in {"lookup", "audit"} => l \in {"audit"} \cup Ended,
         Asks(c)', Reads(c)',
         \A row \in Held(c)' : row \in Held(c) \/ Free(c, row),
         l = "accepted" => req[c].op \notin {"join", "revoke"}
  PROVE  IInv'
  <1>1. TypeOK'
    BY DEF IInv, TypeOK, Answer, Goto, data
  <1>2. /\ UNCHANGED <<invites, project, tier, revisions, req>> /\ pc'[c] = l
        /\ \A d \in Calls \ {c} :
             pc'[d] = pc[d] /\ req'[d] = req[d] /\ at'[d] = at[d] /\ seen'[d] = seen[d]
    BY DEF IInv, TypeOK, Answer, Goto, data
  <1>3. Issues(c)'
    BY <1>2 DEF IInv, Issues
  <1>4. pc[c] # "accepted"
    BY DEF Ended
  <1> QED
    BY <1>1, <1>2, <1>3, <1>4, OneMoves

\* Before the transaction nothing is locked and nothing has been read.
LEMMA OneGoesOn ==
  ASSUME IInv, NEW c \in Calls, NEW l \in PCs \ {"idle"}, Answer(c, l),
         pc[c] \notin {"idle"} \cup Ended, l # "lookup",
         pc[c] \in {"lookup", "audit"} => l \in {"audit"} \cup Ended,
         l \notin {"count", "lock_project", "write"}, Asks(c)',
         l = "accepted" => req[c].op \notin {"join", "revoke"}
  PROVE  IInv'
  <1>1. pc'[c] = l
    BY DEF IInv, TypeOK, Answer, Goto
  <1>2. Reads(c)' /\ Held(c)' = {}
    BY <1>1 DEF Reads, Held, Do
  <1> QED
    BY <1>2, OneAnswers

LEMMA AsksHere ==
  ASSUME IInv, NEW c \in Calls, pc[c] # "idle"
  PROVE  Asks(c) /\ Reads(c) /\ Issues(c) /\ req[c] \in AllRequests
  BY DEF IInv, Asks

LEMMA SubmitInv ==
  ASSUME IInv, NEW c \in Calls, Submit(c)
  PROVE  IInv'
  <1>1. PICK r \in Requests[c] :
           /\ pc[c] = "idle" /\ req' = [req EXCEPT ![c] = r] /\ Goto(c, FirstStep(r.op))
           /\ at' = [at EXCEPT ![c] = now] /\ UNCHANGED <<data, now, seen, faults>>
    BY DEF Submit
  <1>2. r \in AllRequests
    BY RequestTypes
  <1>3. FirstStep(r.op) \in {"lock", "gate", "ensure", "authorize"}
    BY DEF FirstStep
  <1>4. /\ req'[c] = r /\ pc'[c] = FirstStep(r.op)
        /\ \A d \in Calls \ {c} :
             pc'[d] = pc[d] /\ req'[d] = req[d] /\ at'[d] = at[d] /\ seen'[d] = seen[d]
    BY <1>1 DEF IInv, TypeOK, Goto
  <1>5. TypeOK'
    <2>1. pc' \in [Calls -> PCs]
      BY <1>1, <1>3 DEF IInv, TypeOK, Goto, PCs, Outside, Inside
    <2>2. at' \in [Calls -> Nat] /\ req' \in [Calls -> AllRequests \cup {NoRequest}]
      BY <1>1, <1>2, Bounds DEF IInv, TypeOK
    <2> QED
      BY <1>1, <2>1, <2>2 DEF IInv, TypeOK, data
  <1>6. Asks(c)' /\ Reads(c)' /\ Held(c)' = {}
    BY <1>2, <1>3, <1>4 DEF Asks, Reads, Held, Do, FirstStep
  <1>7. Issues(c)'
    BY <1>1, <1>3, <1>4 DEF IInv, Issues, Ended, data
  <1> QED
    BY <1>1, <1>3, <1>4, <1>5, <1>6, <1>7, OneMoves DEF data

LEMMA AuthorizeInv ==
  ASSUME IInv, NEW c \in Calls, Authorize(c)
  PROVE  IInv'
  <1> DEFINE l == IF Permitted(req[c]) THEN AfterAuthorize(req[c].op) ELSE "refused"
  <1>1. /\ pc[c] = "authorize" /\ Goto(c, l) /\ at' = [at EXCEPT ![c] = now]
        /\ UNCHANGED <<data, now, req, seen, faults>>
    BY DEF Authorize
  <1>2. l \in {"insert", "cap", "set_all", "snapshot", "lock", "refused"}
    BY DEF AfterAuthorize
  <1>3. /\ pc'[c] = l
        /\ \A d \in Calls \ {c} :
             pc'[d] = pc[d] /\ req'[d] = req[d] /\ at'[d] = at[d] /\ seen'[d] = seen[d]
    BY <1>1 DEF IInv, TypeOK, Goto
  <1>4. TypeOK'
    <2>1. pc' \in [Calls -> PCs]
      BY <1>1, <1>2 DEF IInv, TypeOK, Goto, PCs, Outside, Inside, Ended
    <2>2. at' \in [Calls -> Nat]
      BY <1>1, Bounds DEF IInv, TypeOK
    <2> QED
      BY <1>1, <2>1, <2>2 DEF IInv, TypeOK, data
  <1>5. Asks(c)' /\ Reads(c)' /\ Held(c)' = {}
    BY <1>1, <1>2, <1>3, AsksHere DEF Asks, Reads, Held, Do, AfterAuthorize, OfArtifact
  <1>6. Issues(c)'
    BY <1>1, <1>2, <1>3 DEF IInv, Issues, Ended, data
  <1> QED
    BY <1>1, <1>2, <1>3, <1>4, <1>5, <1>6, OneMoves DEF data

LEMMA OutsideInv ==
  ASSUME IInv, NEW c \in Calls,
         CheckCap(c) \/ FirstOwnerGate(c) \/ Exchange(c) \/ Lookup(c) \/ Audit(c) \/ SetAll(c)
  PROVE  IInv'
  <1>1. pc[c] \in {"cap", "gate", "exchange", "lookup", "audit", "set_all"}
    BY DEF CheckCap, FirstOwnerGate, Exchange, Lookup, Audit, SetAll
  <1>2. Asks(c)
    BY <1>1, AsksHere
  <1>3. PICK l \in {"refused", "set_all", "snapshot", "exchange", "ensure", "audit", "failed",
                    "accepted"} :
           /\ Answer(c, l)
           /\ l \in {"set_all", "snapshot"} =>
                pc[c] = "cap" /\ (l = "set_all" <=> req[c].op = "set_all")
           /\ l \in {"exchange", "ensure"} => pc[c] \in {"gate", "exchange"}
           /\ pc[c] \in {"lookup", "audit"} => l \in {"refused", "audit", "accepted"}
           /\ l = "audit" => pc[c] = "lookup" /\ req[c].permanent
           /\ l = "accepted" => pc[c] \in {"lookup", "audit", "set_all"}
    BY DEF CheckCap, FirstOwnerGate, Exchange, Lookup, Audit, SetAll
  <1>4. pc'[c] = l /\ req' = req
    BY <1>3 DEF IInv, TypeOK, Answer, Goto
  <1>5. Asks(c)'
    BY <1>1, <1>2, <1>3, <1>4 DEF Asks, OfArtifact
  <1>6. l = "accepted" => req[c].op \notin {"join", "revoke"}
    BY <1>2, <1>3 DEF Asks
  <1>7. /\ pc[c] \notin {"idle"} \cup Ended /\ l \in PCs \ {"idle"} /\ l # "lookup"
        /\ pc[c] \in {"lookup", "audit"} => l \in {"audit"} \cup Ended
    BY <1>1, <1>3 DEF Ended, PCs, Outside, Inside
  <1> QED
    BY <1>3, <1>5, <1>6, <1>7, OneGoesOn

\* Who is added or removed matters to nobody else.
LEMMA MembersInv ==
  ASSUME IInv, NEW c \in Calls, EnsureOwner(c) \/ Remove(c)
  PROVE  IInv'
  <1>1. /\ pc[c] \in {"ensure", "write"} /\ Goto(c, "accepted")
        /\ UNCHANGED <<invites, project, tier, revisions, now, req, at, seen, faults>>
        /\ req[c].op \notin {"join", "revoke"}
    BY AsksHere DEF EnsureOwner, Remove, Do, Asks
  <1>2. role' \in [Users -> Roles]
    <2>1. req[c].who \in Users
      BY <1>1, AsksHere, RequestType
    <2> QED
      BY <2>1 DEF IInv, TypeOK, EnsureOwner, Remove, Roles
  <1>3. TypeOK'
    BY <1>1, <1>2 DEF IInv, TypeOK, Goto, PCs, Ended
  <1>4. /\ pc'[c] = "accepted"
        /\ \A d \in Calls \ {c} :
             pc'[d] = pc[d] /\ req'[d] = req[d] /\ at'[d] = at[d] /\ seen'[d] = seen[d]
    BY <1>1 DEF IInv, TypeOK, Goto
  <1>5. Asks(c)' /\ Reads(c)' /\ Held(c)' = {} /\ Issues(c)'
    BY <1>1, <1>4, AsksHere DEF Asks, Reads, Held, Do, Issues, Ended
  <1> QED
    BY <1>1, <1>3, <1>4, <1>5, OneMoves

LEMMA SnapshotInv ==
  ASSUME IInv, NEW c \in Calls, Snapshot(c)
  PROVE  IInv'
  <1>1. /\ pc[c] = "snapshot" /\ req[c].op \in OfArtifact /\ req[c].of \in Artifacts
        /\ Asks(c) /\ Issues(c)
    BY AsksHere, RequestType DEF Snapshot, Asks
  <1>2. Len(revisions[req[c].of]) \in Nat
    BY <1>1 DEF IInv, TypeOK
  <1>3. seen' \in [Calls -> Seen]
    <2>1. [seen[c] EXCEPT !.last = Len(revisions[req[c].of])] \in Seen
      BY <1>2 DEF IInv, TypeOK, Seen
    <2> QED
      BY <2>1 DEF IInv, TypeOK, Snapshot
  <1>4. TypeOK'
    BY <1>3 DEF IInv, TypeOK, Snapshot, Goto, PCs, Inside, data
  <1>5. /\ pc'[c] = "lock"
        /\ \A d \in Calls \ {c} :
             pc'[d] = pc[d] /\ req'[d] = req[d] /\ at'[d] = at[d] /\ seen'[d] = seen[d]
    BY DEF IInv, TypeOK, Snapshot, Goto
  <1>6. Asks(c)' /\ Reads(c)' /\ Held(c)' = {} /\ Issues(c)'
    BY <1>1, <1>5 DEF Asks, Reads, Held, Do, Issues, Ended, Snapshot, data
  <1> QED
    BY <1>1, <1>4, <1>5, <1>6, OneMoves DEF Snapshot, data

LEMMA LockInviteInv ==
  ASSUME IInv, NEW c \in Calls, LockInvite(c)
  PROVE  IInv'
  <1> DEFINE inv == invites[req[c].of]
             l == IF ~inv.there \/ Refuses(c, inv) THEN "refused" ELSE "write"
  <1>1. /\ pc[c] = "lock" /\ req[c].op \in OfInvite /\ req[c].of \in Invites
        /\ Asks(c) /\ Issues(c)
    BY AsksHere, RequestType DEF LockInvite, OfInvite
  <1>2. /\ seen' = [seen EXCEPT ![c] = [seen[c] EXCEPT !.invite = inv]] /\ Goto(c, l)
        /\ UNCHANGED <<data, now, req, at, faults>> /\ Free(c, RowOf(req[c]))
    BY DEF LockInvite, RowIsFree
  <1>3. seen' \in [Calls -> Seen]
    <2>1. [seen[c] EXCEPT !.invite = inv] \in Seen
      BY <1>1 DEF IInv, TypeOK, Seen
    <2> QED
      BY <1>2, <2>1 DEF IInv, TypeOK
  <1>4. TypeOK'
    BY <1>2, <1>3 DEF IInv, TypeOK, Goto, PCs, Inside, Ended, data
  <1>5. /\ pc'[c] = l /\ l \in {"refused", "write"} /\ seen'[c].invite = inv
        /\ \A d \in Calls \ {c} :
             pc'[d] = pc[d] /\ req'[d] = req[d] /\ at'[d] = at[d] /\ seen'[d] = seen[d]
    BY <1>2 DEF IInv, TypeOK, Seen, Goto
  <1>6. Asks(c)' /\ Issues(c)'
    <2>1. Asks(c)'
      BY <1>1, <1>2, <1>5 DEF Asks
    <2>2. Issues(c)'
      BY <1>1, <1>2, <1>5 DEF Issues, Ended, data
    <2> QED
      BY <2>1, <2>2
  <1>7. Reads(c)'
    <2> DEFINE r == Refuses(c, invites[req[c].of])
    <2>1. r' <=> r
      BY <1>2 DEF Refuses, Inactive, data
    <2>2. l = "write" => inv.there /\ ~r
      OBVIOUS
    <2>3. req[c].op \notin OfArtifact /\ req[c].op # "patch"
      BY <1>1 DEF OfInvite, OfArtifact
    <2>4. req' = req /\ invites' = invites
      BY <1>2 DEF data
    <2> HIDE DEF r
    <2>5. pc'[c] = "write" =>
            /\ seen'[c].invite = invites'[req'[c].of]
            /\ invites'[req'[c].of].there /\ ~r'
      BY <1>5, <2>1, <2>2, <2>4
    <2> QED
      BY <2>3, <2>4, <2>5, <1>5 DEF Reads, Do, r
  <1>8. \A row \in Held(c)' : Free(c, row)
    BY <1>1, <1>2, <1>5 DEF Held, Do, OfInvite
  <1>9. UNCHANGED <<invites, project, tier, revisions>>
    BY <1>2 DEF data
  <1> QED
    BY <1>1, <1>4, <1>5, <1>6, <1>7, <1>8, <1>9, OneMoves

LEMMA LockOtherInv ==
  ASSUME IInv, NEW c \in Calls, LockMember(c) \/ CountOwners(c) \/ LockProject(c)
  PROVE  IInv'
  <1>1. /\ pc[c] \in {"lock", "count"} /\ req[c].op \in {"remove", "set_project"}
        /\ Asks(c)
    BY AsksHere DEF LockMember, CountOwners, LockProject, Do, Asks
  <1>2. PICK l \in {"refused", "count", "write", "accepted"} :
           /\ Answer(c, l)
           /\ l = "count" => req[c].op = "remove"
           /\ l \in {"count", "write"} => pc[c] = "count" \/ Free(c, RowOf(req[c]))
    BY DEF LockMember, CountOwners, LockProject, RowIsFree, Do
  <1>3. pc'[c] = l /\ req' = req
    BY <1>2 DEF IInv, TypeOK, Answer, Goto
  <1>4. Asks(c)' /\ Reads(c)'
    BY <1>1, <1>2, <1>3 DEF Asks, Reads, Do, OfInvite, OfArtifact
  <1>5. \A row \in Held(c)' : row \in Held(c) \/ Free(c, row)
    BY <1>1, <1>2, <1>3 DEF Held, Do
  <1>6. l \in PCs \ {"idle"} /\ l # "lookup" /\ pc[c] \notin {"idle", "lookup", "audit"} \cup Ended
    BY <1>1 DEF PCs, Inside, Ended
  <1> QED
    BY <1>1, <1>2, <1>4, <1>5, <1>6, OneAnswers

LEMMA LockArtifactInv ==
  ASSUME IInv, NEW c \in Calls, LockArtifact(c)
  PROVE  IInv'
  <1> DEFINE a == req[c].of
             l == IF req[c].op = "patch" THEN "lock_project"
                  ELSE IF tier[a] = req[c].tier THEN "accepted" ELSE "write"
  <1>1. /\ pc[c] = "lock" /\ req[c].op \in OfArtifact /\ a \in Artifacts
        /\ Asks(c) /\ Issues(c)
    BY AsksHere, RequestType DEF LockArtifact, OfArtifact
  <1>2. /\ seen' = [seen EXCEPT ![c] = [seen[c] EXCEPT !.tier = tier[a]]] /\ Goto(c, l)
        /\ UNCHANGED <<data, now, req, at, faults>> /\ Free(c, RowOf(req[c]))
    BY DEF LockArtifact, RowIsFree
  <1>3. seen' \in [Calls -> Seen]
    <2>1. [seen[c] EXCEPT !.tier = tier[a]] \in Seen
      BY <1>1 DEF IInv, TypeOK, Seen
    <2> QED
      BY <1>2, <2>1 DEF IInv, TypeOK
  <1>4. TypeOK'
    BY <1>2, <1>3 DEF IInv, TypeOK, Goto, PCs, Inside, Ended, data
  <1>5. /\ pc'[c] = l /\ l \in {"lock_project", "accepted", "write"} /\ seen'[c].tier = tier[a]
        /\ \A d \in Calls \ {c} :
             pc'[d] = pc[d] /\ req'[d] = req[d] /\ at'[d] = at[d] /\ seen'[d] = seen[d]
    BY <1>2 DEF IInv, TypeOK, Seen, Goto
  <1>6. Asks(c)' /\ Issues(c)'
    BY <1>1, <1>2, <1>5 DEF Asks, Issues, Ended, data
  <1>7. Reads(c)'
    BY <1>1, <1>2, <1>5 DEF Reads, Do, OfInvite, OfArtifact, data
  <1>8. \A row \in Held(c)' : Free(c, row)
    BY <1>1, <1>2, <1>5 DEF Held, Do, OfArtifact
  <1>9. UNCHANGED <<invites, project, tier, revisions>> /\ req' = req
    BY <1>2 DEF data
  <1> QED
    BY <1>1, <1>4, <1>5, <1>6, <1>7, <1>8, <1>9, OneMoves DEF OfArtifact

LEMMA LockProjectTooInv ==
  ASSUME IInv, NEW c \in Calls, LockProjectToo(c)
  PROVE  IInv'
  <1>1. pc[c] = "lock_project" /\ req[c].op = "patch" /\ Asks(c) /\ Reads(c)
    BY AsksHere DEF LockProjectToo, Asks
  <1>2. PICK l \in {"refused", "accepted", "write"} :
           /\ Answer(c, l) /\ Free(c, TheProject)
           /\ l = "write" => Allowed(project, req[c].tier) /\ seen[c].tier # req[c].tier
    BY DEF LockProjectToo
  <1>3. pc'[c] = l /\ UNCHANGED <<data, req, seen>>
    BY <1>2 DEF IInv, TypeOK, Answer, Goto
  <1>4. Asks(c)' /\ Reads(c)'
    BY <1>1, <1>2, <1>3 DEF Asks, Reads, Do, OfInvite, OfArtifact, data
  <1>5. \A row \in Held(c)' : row \in Held(c) \/ Free(c, row)
    BY <1>1, <1>2, <1>3 DEF Held, Do
  <1>6. l \in PCs \ {"idle"} /\ l # "lookup" /\ pc[c] \notin {"idle", "lookup", "audit"} \cup Ended
    BY <1>1 DEF PCs, Inside, Ended
  <1> QED
    BY <1>1, <1>2, <1>4, <1>5, <1>6, OneAnswers

LEMMA FaultInv ==
  ASSUME IInv, NEW c \in Calls, Fault(c)
  PROVE  IInv'
  <1>1. /\ pc[c] \in Outside \cup Inside /\ Goto(c, "failed")
        /\ UNCHANGED <<data, now, req, at, seen>>
    BY DEF Fault
  <1>2. TypeOK'
    <2>1. faults' \in 0 .. MaxFaults
      BY Bounds DEF Fault, IInv, TypeOK
    <2> QED
      BY <1>1, <2>1 DEF IInv, TypeOK, Goto, PCs, Ended, data
  <1>3. /\ pc'[c] = "failed" /\ pc[c] \notin {"idle", "accepted"}
        /\ \A d \in Calls \ {c} :
             pc'[d] = pc[d] /\ req'[d] = req[d] /\ at'[d] = at[d] /\ seen'[d] = seen[d]
    BY <1>1 DEF IInv, TypeOK, Goto, Outside, Inside
  <1>4. Asks(c)' /\ Reads(c)' /\ Held(c)' = {} /\ Issues(c)'
    BY <1>1, <1>3, AsksHere DEF Asks, Reads, Held, Do, Issues, Ended, data
  <1> QED
    BY <1>1, <1>2, <1>3, <1>4, OneMoves DEF data

LEMMA TickInv == ASSUME IInv, Tick PROVE IInv'
  <1>1. TypeOK'
    <2>1. now' \in 0 .. MaxTime
      BY Bounds DEF Tick, IInv, TypeOK
    <2> QED
      BY <2>1 DEF Tick, IInv, TypeOK, data
  <1>2. UNCHANGED <<data, pc, req, at, seen>>
    BY DEF Tick
  <1> QED
    BY <1>1, <1>2 DEF IInv, Asks, Reads, Issues, Do, Refuses, Inactive, LocksApart, Held,
                      UsedIsThere, InviteSettledOnce, JoinedInTime, Settles, HistoryIsComplete, data

-----------------------------------------------------------------------------
\* A statement that writes an invite: the last one of c's transaction, or the
\* INSERT.
LEMMA InviteWritten ==
  ASSUME IInv, NEW c \in Calls, NEW i \in Invites, NEW inv \in InviteRows,
         NEW l \in {"accepted", "lookup", "audit"}, pc[c] \in {"insert", "write"},
         invites' = [invites EXCEPT ![i] = inv], role' \in [Users -> Roles], Goto(c, l),
         UNCHANGED <<project, tier, revisions, now, req, at, seen, faults>>,
         inv.there, ~invites[i].used,
         pc[c] = "insert" => i = c /\ req[c].op = "issue" /\ ~inv.used,
         pc[c] = "write" => req[c].op \in OfInvite /\ req[c].of = i,
         inv.used <=> (l = "accepted" /\ req[c].op \in {"join", "revoke"}),
         l = "lookup" => i = c /\ req[c].op = "issue", l = "audit" => req[c].op = "extend",
         l = "accepted" /\ req[c].op = "join" => inv.permanent \/ at[c] < inv.expires
  PROVE  IInv'
  <1>1. TypeOK'
    BY DEF IInv, TypeOK, Goto, PCs, Outside, Ended
  <1>2. /\ pc'[c] = l /\ \A d \in Calls \ {c} : pc'[d] = pc[d]
        /\ invites'[i] = inv /\ \A j \in Invites \ {i} : invites'[j] = invites[j]
    BY DEF IInv, TypeOK, Goto
  <1>3. Asks(c) /\ Reads(c) /\ Issues(c) /\ req[c] \in AllRequests
    BY AsksHere
  <1>4. pc[c] = "write" => invites[i].there
    BY <1>3 DEF Reads
  <1>5. ASSUME NEW d \in Calls PROVE Issues(d)'
    <2>1. Issues(d) /\ d \in Invites
      BY DEF IInv, Invites
    <2>2. CASE d = i
      BY <1>2, <1>4, <2>1, <2>2 DEF Issues, Ended
    <2>3. CASE d # i
      BY <1>2, <2>1, <2>3 DEF Issues, Ended
    <2> QED
      BY <2>2, <2>3
  <1>6. ASSUME NEW d \in Calls PROVE Asks(d)'
    <2>1. Asks(d)
      BY DEF IInv
    <2> QED
      BY <1>2, <1>3, <2>1 DEF Asks
  <1>7. ASSUME NEW d \in Calls PROVE Reads(d)'
    <2>1. CASE d = c
      BY <1>2, <2>1 DEF Reads, Do
    <2>2. CASE d # c /\ pc[d] = "write" /\ req[d].op \in OfInvite
      <3>1. req[d].of # i /\ req[d].of \in Invites /\ Reads(d)
        <4>1. Reads(d) /\ invites[req[d].of].there /\ req[d].of \in Invites
          BY <2>2, AsksHere, RequestType DEF Reads
        <4>2. CASE pc[c] = "insert"
          <5>1. ~invites[c].there
            BY <1>3, <4>2 DEF Issues, Ended
          <5> QED
            BY <4>1, <4>2, <5>1
        <4>3. CASE pc[c] = "write"
          BY <2>2, <4>1, <4>3, WritersApart DEF IInv
        <4> QED
          BY <4>1, <4>2, <4>3
      <3> QED
        BY <1>2, <2>2, <3>1 DEF Reads, Refuses, Inactive, Do, OfInvite, OfArtifact
    <2>3. CASE d # c /\ ~(pc[d] = "write" /\ req[d].op \in OfInvite)
      BY <1>2, <2>3 DEF IInv, Reads, Do
    <2> QED
      BY <2>1, <2>2, <2>3
  <1>8. LocksApart'
    <2>1. Held(c)' = {}
      BY <1>2 DEF Held
    <2> QED
      BY <1>2, <2>1, LocksKept DEF IInv
  <1>9. UsedIsThere'
    BY <1>2 DEF IInv, UsedIsThere
  <1>10. \A d \in Calls, j \in Invites :
            Settles(d, j)' <=> Settles(d, j) \/ (d = c /\ j = i /\ inv.used)
    BY <1>2, <1>3 DEF Settles, Asks
  <1>11. InviteSettledOnce'
    <2>1. \A d \in Calls : ~Settles(d, i)
      BY DEF IInv, InviteSettledOnce
    <2>2. \A j \in Invites : invites'[j].used <=> invites[j].used \/ (j = i /\ inv.used)
      BY <1>2
    <2> QED
      BY <1>10, <2>1, <2>2 DEF IInv, InviteSettledOnce
  <1>12. JoinedInTime'
    <2>1. \A d \in Calls : ~Settles(d, i)
      BY DEF IInv, InviteSettledOnce
    <2> SUFFICES ASSUME NEW d \in Calls, NEW j \in Invites, Settles(d, j)', req[d].op = "join"
                 PROVE  invites'[j].permanent \/ at[d] < invites'[j].expires
      BY DEF JoinedInTime
    <2>2. CASE Settles(d, j)
      BY <1>2, <2>1, <2>2 DEF IInv, JoinedInTime
    <2>3. CASE d = c /\ j = i /\ inv.used
      BY <1>2, <2>3
    <2> QED
      BY <1>10, <2>2, <2>3
  <1>13. HistoryIsComplete'
    BY DEF IInv, HistoryIsComplete
  <1> QED
    BY <1>1, <1>5, <1>6, <1>7, <1>8, <1>9, <1>11, <1>12, <1>13 DEF IInv

LEMMA IssueInv ==
  ASSUME IInv, NEW c \in Calls, Issue(c)
  PROVE  IInv'
  <1> DEFINE inv == [there |-> TRUE, used |-> FALSE, role |-> req[c].role,
                     permanent |-> req[c].permanent, expires |-> at[c] + req[c].expires]
  <1>1. pc[c] = "insert" /\ req[c].op = "issue" /\ req[c] \in AllRequests /\ Issues(c)
    BY AsksHere DEF Issue, Asks
  <1>2. inv \in InviteRows
    BY <1>1, RequestType DEF InviteRows, IInv, TypeOK
  <1>3. c \in Invites /\ ~invites[c].used
    BY <1>1 DEF Invites, IInv, UsedIsThere, Issues, Ended
  <1>4. invites' = [invites EXCEPT ![c] = inv] /\ Goto(c, "lookup") /\ role' \in [Users -> Roles]
    BY DEF Issue, IInv, TypeOK
  <1>5. UNCHANGED <<project, tier, revisions, now, req, at, seen, faults>>
    BY DEF Issue
  <1> QED
    BY <1>1, <1>2, <1>3, <1>4, <1>5, InviteWritten

LEMMA AdmitInv ==
  ASSUME IInv, NEW c \in Calls, Admit(c)
  PROVE  IInv'
  <1> DEFINE i == req[c].of
             inv == [invites[i] EXCEPT !.used = TRUE]
  <1>1. /\ pc[c] = "write" /\ req[c].op = "join" /\ i \in Invites /\ req[c].who \in Users
        /\ seen[c].invite = invites[i] /\ invites[i].there /\ ~Inactive(invites[i], at[c])
    BY AsksHere, RequestType DEF Admit, Do, OfInvite, Reads, Refuses
  <1>2. invites[i] \in InviteRows /\ at[c] \in Nat
    BY <1>1 DEF IInv, TypeOK
  <1>3. inv \in InviteRows /\ inv.used /\ inv.there /\ ~invites[i].used
        /\ (inv.permanent \/ at[c] < inv.expires)
    <2>1. ~invites[i].used /\ (invites[i].permanent \/ at[c] < invites[i].expires)
      BY <1>1, <1>2 DEF InviteRows, Inactive
    <2>2. /\ inv \in InviteRows /\ inv.used /\ inv.there = invites[i].there
          /\ inv.permanent = invites[i].permanent /\ inv.expires = invites[i].expires
      BY <1>2 DEF InviteRows
    <2> QED
      BY <1>1, <2>1, <2>2
  <1>4. role' \in [Users -> Roles]
    BY <1>1, <1>2 DEF Admit, IInv, TypeOK, InviteRows, Roles
  <1>5. /\ invites' = [invites EXCEPT ![i] = inv] /\ Goto(c, "accepted")
        /\ UNCHANGED <<project, tier, revisions, now, req, at, seen, faults>>
    BY DEF Admit
  <1> QED
    BY <1>1, <1>3, <1>4, <1>5, InviteWritten DEF OfInvite

LEMMA RevokeInv ==
  ASSUME IInv, NEW c \in Calls, Revoke(c)
  PROVE  IInv'
  <1> DEFINE i == req[c].of
             inv == [invites[i] EXCEPT !.used = TRUE]
  <1>1. /\ pc[c] = "write" /\ req[c].op = "revoke" /\ i \in Invites
        /\ invites[i].there /\ ~invites[i].used
    BY AsksHere, RequestType DEF Revoke, Do, OfInvite, Reads, Refuses
  <1>2. inv \in InviteRows /\ inv.used /\ inv.there
    BY <1>1 DEF InviteRows, IInv, TypeOK
  <1>3. /\ invites' = [invites EXCEPT ![i] = inv] /\ Goto(c, "accepted")
        /\ UNCHANGED <<project, tier, revisions, now, req, at, seen, faults>>
        /\ role' \in [Users -> Roles]
    BY DEF Revoke, IInv, TypeOK
  <1> QED
    BY <1>1, <1>2, <1>3, InviteWritten DEF OfInvite

\* What an extension makes of an invite that is still good.
LEMMA ExtendedType ==
  ASSUME NEW inv \in InviteRows, NEW t \in Nat, NEW permanent \in BOOLEAN,
         inv.permanent => permanent
  PROVE  /\ Extended(inv, t, permanent) \in InviteRows
         /\ inv.permanent => Extended(inv, t, permanent).permanent
         /\ Extended(inv, t, permanent).expires >= inv.expires
         /\ Extended(inv, t, permanent).there = inv.there
         /\ Extended(inv, t, permanent).used = inv.used
  <1>1. CASE permanent
    <2>1. Extended(inv, t, permanent) = [inv EXCEPT !.permanent = TRUE]
      BY <1>1 DEF Extended
    <2>2. inv.expires \in Nat /\ inv.permanent \in BOOLEAN
      BY DEF InviteRows
    <2>3. [inv EXCEPT !.permanent = TRUE] \in InviteRows
      BY DEF InviteRows
    <2>4. LET x == [inv EXCEPT !.permanent = TRUE]
          IN  /\ x.permanent /\ x.expires = inv.expires /\ x.there = inv.there
              /\ x.used = inv.used
      BY DEF InviteRows
    <2>5. inv.expires >= inv.expires
      BY <2>2
    <2> QED
      BY <2>1, <2>3, <2>4, <2>5
  <1>2. CASE ~permanent
    <2> DEFINE from == IF inv.expires > t THEN inv.expires ELSE t
    <2>1. from \in Nat /\ from >= inv.expires /\ inv.expires \in Nat
      BY DEF InviteRows
    <2>2. Extended(inv, t, permanent) = [inv EXCEPT !.expires = from + Extension]
      BY <1>2 DEF Extended
    <2> HIDE DEF from
    <2>3. from + Extension \in Nat /\ from + Extension >= inv.expires
      BY <2>1, Bounds
    <2> QED
      BY <1>2, <2>2, <2>3 DEF InviteRows
  <1> QED
    BY <1>1, <1>2

LEMMA ExtendWrites ==
  ASSUME IInv, NEW c \in Calls, Extend(c)
  PROVE  LET i == req[c].of
             old == invites[i]
             next == Extended(old, at[c], req[c].permanent)
         IN  /\ pc[c] = "write" /\ req[c].op = "extend" /\ i \in Invites
             /\ old \in InviteRows /\ old.there /\ ~old.used /\ req[c].permanent \in BOOLEAN
             /\ old.permanent => req[c].permanent
             /\ at[c] \in Nat
             /\ invites' = [invites EXCEPT ![i] = next]
  <1> DEFINE i == req[c].of
             old == invites[i]
             next == Extended(old, at[c], req[c].permanent)
  <1>1. /\ pc[c] = "write" /\ req[c].op = "extend" /\ i \in Invites
        /\ req[c].permanent \in BOOLEAN
        /\ seen[c].invite = old /\ old.there /\ ~Inactive(old, at[c])
        /\ ~(old.permanent /\ ~req[c].permanent)
    BY AsksHere, RequestType DEF Extend, Do, OfInvite, Reads, Refuses
  <1>2. old \in InviteRows /\ at[c] \in Nat /\ ~old.used
    BY <1>1 DEF IInv, TypeOK, Inactive
  <1>3. next = [[old EXCEPT !.permanent = next.permanent] EXCEPT !.expires = next.expires]
    BY <1>1, <1>2, Bounds DEF Extended, InviteRows
  <1>4. invites' = [[invites EXCEPT ![i] = [old EXCEPT !.permanent = next.permanent]]
                      EXCEPT ![i] = [[old EXCEPT !.permanent = next.permanent]
                                        EXCEPT !.expires = next.expires]]
    BY <1>1 DEF Extend, IInv, TypeOK
  <1>5. invites' = [invites EXCEPT ![i] = next]
    BY <1>1, <1>3, <1>4 DEF IInv, TypeOK
  <1> QED
    BY <1>1, <1>2, <1>5

LEMMA ExtendInv ==
  ASSUME IInv, NEW c \in Calls, Extend(c)
  PROVE  IInv'
  <1> DEFINE i == req[c].of
             inv == Extended(invites[i], at[c], req[c].permanent)
  <1>1. /\ pc[c] = "write" /\ req[c].op = "extend" /\ i \in Invites
        /\ inv \in InviteRows /\ inv.there /\ ~inv.used /\ ~invites[i].used
        /\ invites' = [invites EXCEPT ![i] = inv]
    BY ExtendWrites, ExtendedType
  <1>2. /\ Goto(c, "audit") /\ role' \in [Users -> Roles]
        /\ UNCHANGED <<project, tier, revisions, now, req, at, seen, faults>>
    BY DEF Extend, IInv, TypeOK
  <1> HIDE DEF inv
  <1> QED
    BY <1>1, <1>2, InviteWritten DEF OfInvite

-----------------------------------------------------------------------------
\* A statement that ends a transaction on visibility leaves invites alone.
LEMMA InvitesKept ==
  ASSUME IInv, NEW c \in Calls, invites' = invites, NEW l \in {"accepted", "failed"},
         pc[c] = "write", req[c].op \notin {"join", "revoke"}, Goto(c, l),
         UNCHANGED <<req, at, seen>>
  PROVE  /\ \A d \in Calls : Asks(d)' /\ Issues(d)'
         /\ LocksApart' /\ UsedIsThere' /\ InviteSettledOnce' /\ JoinedInTime'
  <1>1. pc'[c] = l /\ \A d \in Calls \ {c} : pc'[d] = pc[d]
    BY DEF IInv, TypeOK, Goto
  <1>2. \A d \in Calls : Asks(d)' /\ Issues(d)'
    BY <1>1 DEF IInv, Asks, Issues, Ended
  <1>3. LocksApart'
    <2>1. Held(c)' = {}
      BY <1>1 DEF Held
    <2> QED
      BY <1>1, <2>1, LocksKept DEF IInv
  <1>4. \A d \in Calls, j \in Invites : Settles(d, j)' <=> Settles(d, j)
    BY <1>1 DEF Settles
  <1> QED
    BY <1>2, <1>3, <1>4 DEF IInv, UsedIsThere, InviteSettledOnce, JoinedInTime

LEMMA SetProjectInv ==
  ASSUME IInv, NEW c \in Calls, SetProject(c)
  PROVE  IInv'
  <1>1. /\ pc[c] = "write" /\ req[c].op = "set_project" /\ req[c].tier \in Tiers
        /\ project' = req[c].tier /\ Goto(c, "accepted")
        /\ UNCHANGED <<role, invites, tier, revisions, now, req, at, seen, faults>>
    BY AsksHere, RequestType DEF SetProject, Do
  <1>2. pc'[c] = "accepted" /\ \A d \in Calls \ {c} : pc'[d] = pc[d]
    BY <1>1 DEF IInv, TypeOK, Goto
  <1>3. TypeOK'
    BY <1>1 DEF IInv, TypeOK, Goto, PCs, Ended
  <1>4. ASSUME NEW d \in Calls PROVE Reads(d)'
    <2>1. CASE d = c
      BY <1>2, <2>1 DEF Reads, Do
    <2>2. CASE d # c
      <3>1. ~Do(d, "patch", "write")
        <4>1. RowOf(req[c]) = TheProject
          BY <1>1 DEF RowOf
        <4> QED
          BY <1>1, <2>2, <4>1, WritersApart DEF IInv, Do
      <3> QED
        BY <1>1, <1>2, <2>2, <3>1 DEF IInv, Reads, Do, Refuses, Inactive
    <2> QED
      BY <2>1, <2>2
  <1>5. HistoryIsComplete'
    BY <1>1 DEF IInv, HistoryIsComplete
  <1> QED
    BY <1>1, <1>3, <1>4, <1>5, InvitesKept DEF IInv

\* One more revision, from where the last one led to.
LEMMA HistoryGrows ==
  ASSUME NEW S, NEW r \in Seq(S), NEW e \in S, NEW seed, e.from # e.to,
         \A n \in 1 .. Len(r) : r[n].from # r[n].to,
         \A n \in 1 .. Len(r) - 1 : r[n].to = r[n + 1].from,
         r = <<>> => e.from = seed,
         r # <<>> => r[1].from = seed /\ r[Len(r)].to = e.from,
         NEW s, s = Append(r, e)
  PROVE  /\ \A n \in 1 .. Len(s) : s[n].from # s[n].to
         /\ \A n \in 1 .. Len(s) - 1 : s[n].to = s[n + 1].from
         /\ s # <<>> /\ s[1].from = seed /\ s[Len(s)].to = e.to
  <1>1. /\ Len(s) = Len(r) + 1 /\ Len(r) \in Nat
        /\ s[Len(r) + 1] = e
        /\ \A n \in 1 .. Len(r) : s[n] = r[n]
        /\ s # <<>>
    OBVIOUS
  <1>2. r # <<>> <=> Len(r) > 0
    OBVIOUS
  <1>3. \A n \in 1 .. Len(s) : s[n].from # s[n].to
    <2> SUFFICES ASSUME NEW n \in 1 .. Len(s) PROVE s[n].from # s[n].to
      OBVIOUS
    <2>1. CASE n = Len(r) + 1
      BY <1>1, <2>1
    <2>2. CASE n # Len(r) + 1
      <3>1. n \in 1 .. Len(r)
        BY <1>1, <2>2
      <3> QED
        BY <1>1, <3>1
    <2> QED
      BY <2>1, <2>2
  <1>4. \A n \in 1 .. Len(s) - 1 : s[n].to = s[n + 1].from
    <2> SUFFICES ASSUME NEW n \in 1 .. Len(s) - 1 PROVE s[n].to = s[n + 1].from
      OBVIOUS
    <2>1. CASE n = Len(r)
      <3>1. s[n] = r[n] /\ r # <<>> /\ s[n + 1] = e
        BY <1>1, <1>2, <2>1
      <3> QED
        BY <2>1, <3>1
    <2>2. CASE n # Len(r)
      <3>1. n \in 1 .. Len(r) - 1
        BY <1>1, <2>2
      <3>2. s[n] = r[n] /\ s[n + 1] = r[n + 1]
        BY <1>1, <3>1
      <3> QED
        BY <3>1, <3>2
    <2> QED
      BY <2>1, <2>2
  <1>5. s[1].from = seed
    <2>1. CASE r = <<>>
      BY <1>1, <1>2, <2>1
    <2>2. CASE r # <<>>
      <3>1. s[1] = r[1]
        BY <1>1, <1>2, <2>2
      <3> QED
        BY <2>2, <3>1
    <2> QED
      BY <2>1, <2>2
  <1> QED
    BY <1>1, <1>3, <1>4, <1>5

LEMMA SetArtifactInv ==
  ASSUME IInv, NEW c \in Calls, SetArtifact(c)
  PROVE  IInv'
  <1> DEFINE a == req[c].of
             r == revisions[a]
             written == [from |-> seen[c].tier, to |-> req[c].tier]
  <1>1. /\ pc[c] = "write" /\ req[c].op \in OfArtifact /\ a \in Artifacts /\ req[c].tier \in Tiers
        /\ seen[c].tier = tier[a] /\ seen[c].tier # req[c].tier
        /\ UNCHANGED <<role, invites, project, now, req, at, seen, faults>>
    BY AsksHere, RequestType DEF SetArtifact, OfArtifact, Reads
  <1>2. tier[a] \in Tiers /\ r \in Seq([from : Tiers, to : Tiers])
    BY <1>1 DEF IInv, TypeOK
  <1>3. CASE Len(r) = seen[c].last
    <2>1. /\ revisions' = [revisions EXCEPT ![a] = Append(r, written)]
          /\ tier' = [tier EXCEPT ![a] = req[c].tier] /\ Goto(c, "accepted")
      BY <1>3 DEF SetArtifact
    <2>2. Append(r, written) \in Seq([from : Tiers, to : Tiers])
      <3>1. written \in [from : Tiers, to : Tiers]
        BY <1>1, <1>2
      <3> HIDE DEF written
      <3> QED
        BY <1>2, <3>1
    <2>3. TypeOK'
      <3> HIDE DEF written, r
      <3>1. revisions' \in [Artifacts -> Seq([from : Tiers, to : Tiers])]
        BY <1>1, <2>1, <2>2 DEF IInv, TypeOK
      <3>2. tier' \in [Artifacts -> Tiers] /\ pc' \in [Calls -> PCs]
        BY <1>1, <2>1 DEF IInv, TypeOK, Goto, PCs, Ended
      <3> QED
        BY <1>1, <3>1, <3>2 DEF IInv, TypeOK
    <2>4. pc'[c] = "accepted" /\ \A d \in Calls \ {c} : pc'[d] = pc[d]
      BY <2>1 DEF IInv, TypeOK, Goto
    <2>5. ASSUME NEW d \in Calls PROVE Reads(d)'
      <3>1. CASE d = c
        BY <2>4, <3>1 DEF Reads, Do
      <3>2. CASE d # c
        <4>1. pc[d] \in {"lock_project", "write"} /\ req[d].op \in OfArtifact =>
                 tier'[req[d].of] = tier[req[d].of]
          <5>1. pc[d] \in {"lock_project", "write"} /\ req[d].op \in OfArtifact => req[d].of # a
            BY <1>1, <3>2, WritersApart DEF IInv
          <5>2. pc[d] \in {"lock_project", "write"} /\ req[d].op \in OfArtifact =>
                   req[d].of \in Artifacts
            BY AsksHere, RequestType
          <5> QED
            BY <2>1, <5>1, <5>2 DEF IInv, TypeOK
        <4>2. Reads(d)
          BY DEF IInv
        <4> QED
          BY <1>1, <2>4, <3>2, <4>1, <4>2 DEF Reads, Do, Refuses, Inactive
      <3> QED
        BY <3>1, <3>2
    <2>6. HistoryIsComplete'
      <3>1. ASSUME NEW b \in Artifacts, b # a
            PROVE  revisions'[b] = revisions[b] /\ tier'[b] = tier[b]
        BY <2>1, <3>1 DEF IInv, TypeOK
      <3>2. revisions'[a] = Append(r, written) /\ tier'[a] = req[c].tier
        BY <1>1, <2>1 DEF IInv, TypeOK
      <3>3. /\ \A n \in 1 .. Len(r) : r[n].from # r[n].to
            /\ \A n \in 1 .. Len(r) - 1 : r[n].to = r[n + 1].from
            /\ r = <<>> => tier[a] = SeedTiers[a]
            /\ r # <<>> => r[1].from = SeedTiers[a] /\ r[Len(r)].to = tier[a]
        BY <1>1 DEF IInv, HistoryIsComplete
      <3>4. /\ written \in [from : Tiers, to : Tiers]
            /\ written.from = tier[a] /\ written.to = req[c].tier /\ written.from # written.to
        BY <1>1, <1>2
      <3> DEFINE s == Append(r, written)
      <3> HIDE DEF s, written, r
      <3>5. /\ \A n \in 1 .. Len(s) : s[n].from # s[n].to
            /\ \A n \in 1 .. Len(s) - 1 : s[n].to = s[n + 1].from
            /\ s # <<>> /\ s[1].from = SeedTiers[a] /\ s[Len(s)].to = req[c].tier
        <4>1. /\ r \in Seq([from : Tiers, to : Tiers]) /\ s = Append(r, written)
              /\ r = <<>> => written.from = SeedTiers[a]
              /\ r # <<>> => r[1].from = SeedTiers[a] /\ r[Len(r)].to = written.from
          BY <1>2, <3>3, <3>4 DEF s
        <4>2. s[Len(s)].to = written.to /\ s[1].from = SeedTiers[a] /\ s # <<>>
          BY <3>3, <3>4, <4>1, HistoryGrows
        <4>3. /\ \A n \in 1 .. Len(s) : s[n].from # s[n].to
              /\ \A n \in 1 .. Len(s) - 1 : s[n].to = s[n + 1].from
          BY <3>3, <3>4, <4>1, HistoryGrows
        <4> QED
          BY <3>4, <4>2, <4>3
      <3>6. revisions'[a] = s
        BY <3>2 DEF s
      <3> SUFFICES ASSUME NEW b \in Artifacts
                   PROVE  LET x == revisions'[b]
                          IN  /\ \A n \in 1 .. Len(x) : x[n].from # x[n].to
                              /\ \A n \in 1 .. Len(x) - 1 : x[n].to = x[n + 1].from
                              /\ x = <<>> => tier'[b] = SeedTiers[b]
                              /\ x # <<>> => x[1].from = SeedTiers[b] /\ x[Len(x)].to = tier'[b]
        BY DEF HistoryIsComplete
      <3>7. CASE b = a
        BY <3>2, <3>5, <3>6, <3>7
      <3>8. CASE b # a
        BY <3>1, <3>8 DEF IInv, HistoryIsComplete
      <3> QED
        BY <3>7, <3>8
    <2> QED
      BY <1>1, <2>1, <2>3, <2>5, <2>6, InvitesKept DEF IInv, OfArtifact
  <1>4. CASE Len(r) # seen[c].last
    <2>1. UNCHANGED <<revisions, tier>> /\ Goto(c, "failed")
      BY <1>4 DEF SetArtifact
    <2>2. TypeOK'
      BY <1>1, <2>1 DEF IInv, TypeOK, Goto, PCs, Ended
    <2>3. pc'[c] = "failed" /\ \A d \in Calls \ {c} : pc'[d] = pc[d]
      BY <2>1 DEF IInv, TypeOK, Goto
    <2>4. \A d \in Calls : Reads(d)'
      BY <1>1, <2>1, <2>3 DEF IInv, Reads, Do, Refuses, Inactive
    <2>5. HistoryIsComplete'
      BY <2>1 DEF IInv, HistoryIsComplete
    <2> QED
      BY <1>1, <2>1, <2>2, <2>4, <2>5, InvitesKept DEF IInv, OfArtifact
  <1> QED
    BY <1>3, <1>4

LEMMA StepInv == IInv /\ [Next]_vars => IInv'
  <1> SUFFICES ASSUME IInv, [Next]_vars PROVE IInv'
    OBVIOUS
  <1>1. CASE UNCHANGED vars
    <2>1. UNCHANGED <<role, invites, project, tier, revisions, now, pc, req, at, seen, faults>>
      BY <1>1 DEF vars, data
    <2>2. TypeOK' /\ HistoryIsComplete'
      BY <2>1 DEF IInv, TypeOK, HistoryIsComplete
    <2>3. \A c \in Calls : Asks(c)' /\ Reads(c)' /\ Issues(c)'
      BY <2>1 DEF IInv, Asks, Reads, Issues, Do, Refuses, Inactive
    <2>4. LocksApart'
      BY <2>1 DEF IInv, LocksApart, Held, Do
    <2>5. UsedIsThere' /\ InviteSettledOnce' /\ JoinedInTime'
      BY <2>1 DEF IInv, UsedIsThere, InviteSettledOnce, JoinedInTime, Settles
    <2> QED
      BY <2>2, <2>3, <2>4, <2>5 DEF IInv
  <1> QED
    BY <1>1, TickInv, SubmitInv, FaultInv, AuthorizeInv, OutsideInv, MembersInv, IssueInv,
       SnapshotInv, LockInviteInv, LockOtherInv, LockArtifactInv, LockProjectTooInv, AdmitInv,
       RevokeInv, ExtendInv, SetProjectInv, SetArtifactInv
    DEF Next, Step

LEMMA AccessInvariant == Spec => []IInv
  BY InitInv, StepInv, PTL DEF Spec

-----------------------------------------------------------------------------
\* The tables and the variables of all handlers keep their types.
THEOREM AccessTypeCorrect == Spec => []TypeOK
  BY AccessInvariant, PTL DEF IInv

\* Of all joins and revocations of an invite one succeeds, and only then is the
\* invite used up.
THEOREM InvitesSettleOnce == Spec => []InviteSettledOnce
  BY AccessInvariant, PTL DEF IInv

\* Nobody joins with an invite that had expired when the request came.
THEOREM JoinsAreInTime == Spec => []JoinedInTime
  BY AccessInvariant, PTL DEF IInv

\* The revisions of an artifact tell every change of its visibility.
THEOREM HistoryCompletes == Spec => []HistoryIsComplete
  BY AccessInvariant, PTL DEF IInv

\* Who writes a PATCH has the project's row locked since its check.
THEOREM PatchIsCapped == Spec => PatchKeepsCap
  <1>1. ASSUME IInv, Next, NEW c \in Calls, Do(c, "patch", "write"), pc'[c] = "accepted"
        PROVE  Allowed(project', tier'[req[c].of])
    <2>1. Allowed(project, req[c].tier) /\ req[c].of \in Artifacts
      BY <1>1, AsksHere, RequestType DEF Do, Reads, OfArtifact
    <2>2. SetArtifact(c)
      <3>1. \A d \in Calls \ {c} : ~(Submit(d) \/ Step(d) \/ Fault(d))
        BY <1>1
        DEF Do, IInv, TypeOK, Goto, Answer, Submit, Fault, Step, Authorize, CheckCap,
            FirstOwnerGate, Exchange, EnsureOwner, Issue, Lookup, Audit, SetAll, Snapshot,
            LockInvite, LockMember, CountOwners, LockProject, LockArtifact, LockProjectToo,
            Admit, Revoke, Extend, Remove, SetProject, SetArtifact
      <3>2. ~Tick /\ ~Submit(c) /\ ~Fault(c)
        BY <1>1 DEF Do, Tick, Submit, Fault, IInv, TypeOK, Goto
      <3>3. Step(c)
        BY <1>1, <3>1, <3>2 DEF Next
      <3>4. pc[c] = "write" /\ req[c].op = "patch"
        BY <1>1 DEF Do
      <3> QED
        BY <3>3, <3>4
        DEF Step, Do, Authorize, CheckCap, FirstOwnerGate, Exchange, EnsureOwner, Issue, Lookup,
            Audit, SetAll, Snapshot, LockInvite, LockMember, CountOwners, LockProject, LockArtifact,
            LockProjectToo, Admit, Revoke, Extend, Remove, SetProject
    <2>3. tier' = [tier EXCEPT ![req[c].of] = req[c].tier] /\ project' = project
      BY <1>1, <2>2 DEF SetArtifact, Goto, IInv, TypeOK
    <2>4. tier'[req[c].of] = req[c].tier
      BY <1>1, <2>1, <2>3 DEF IInv, TypeOK
    <2> QED
      BY <2>1, <2>3, <2>4
  <1>2. IInv /\ [Next]_vars =>
          [\A c \in Calls :
             Do(c, "patch", "write") /\ pc'[c] = "accepted" =>
                 Allowed(project', tier'[req[c].of])]_vars
    BY <1>1
  <1> QED
    BY <1>2, AccessInvariant, PTL DEF Spec, PatchKeepsCap

\* No step takes back an extension or the permanence of an invite, or changes
\* one that is used up.
THEOREM ExtensionsStay == Spec => ExtensionsAreKept
  <1> DEFINE Kept(i) == invites[i].there =>
                          /\ invites[i].permanent => invites'[i].permanent
                          /\ invites'[i].expires >= invites[i].expires
                          /\ invites[i].used => invites'[i] = invites[i]
  <1>0. ASSUME IInv, NEW i \in Invites PROVE invites[i].expires >= invites[i].expires
    <2>1. invites[i].expires \in Nat
      BY <1>0 DEF IInv, TypeOK, InviteRows
    <2> QED
      BY <2>1
  <1>1. ASSUME IInv, NEW i \in Invites, invites'[i] = invites[i] PROVE Kept(i)
    BY <1>0, <1>1
  <1>2. ASSUME IInv, NEW c \in Calls, Issue(c), NEW i \in Invites PROVE Kept(i)
    <2>1. ~invites[c].there
      BY <1>2, AsksHere DEF Issue, Issues, Ended
    <2>2. i # c => invites'[i] = invites[i]
      BY <1>2 DEF Issue, IInv, TypeOK
    <2> QED
      BY <1>1, <1>2, <2>1, <2>2
  <1>3. ASSUME IInv, NEW c \in Calls, Admit(c) \/ Revoke(c), NEW i \in Invites PROVE Kept(i)
    <2>1. invites' = [invites EXCEPT ![req[c].of] = [invites[req[c].of] EXCEPT !.used = TRUE]]
      BY <1>3 DEF Admit, Revoke
    <2>2. ~invites[req[c].of].used
      BY <1>3, AsksHere DEF Admit, Revoke, Do, Reads, Refuses, Inactive, OfInvite
    <2>3. CASE i # req[c].of
      BY <1>1, <1>3, <2>1, <2>3 DEF IInv, TypeOK
    <2>4. CASE i = req[c].of
      <3>1. /\ invites'[i].permanent = invites[i].permanent
            /\ invites'[i].expires = invites[i].expires
        BY <1>3, <2>1, <2>4 DEF IInv, TypeOK, InviteRows
      <3> QED
        BY <1>0, <1>3, <2>2, <2>4, <3>1
    <2> QED
      BY <2>3, <2>4
  <1>4. ASSUME IInv, NEW c \in Calls, Extend(c), NEW i \in Invites PROVE Kept(i)
    <2> DEFINE next == Extended(invites[req[c].of], at[c], req[c].permanent)
    <2>1. /\ req[c].of \in Invites /\ invites' = [invites EXCEPT ![req[c].of] = next]
          /\ ~invites[req[c].of].used
          /\ invites[req[c].of].permanent => next.permanent
          /\ next.expires >= invites[req[c].of].expires
      BY <1>4, ExtendWrites, ExtendedType
    <2> HIDE DEF next
    <2>2. CASE i # req[c].of
      BY <1>1, <1>4, <2>1, <2>2 DEF IInv, TypeOK
    <2>3. CASE i = req[c].of
      <3>1. invites'[i] = next
        BY <1>4, <2>1, <2>3 DEF IInv, TypeOK
      <3> QED
        BY <2>1, <2>3, <3>1
    <2> QED
      BY <2>2, <2>3
  <1>5. ASSUME IInv, Next, NEW i \in Invites PROVE Kept(i)
    <2>1. invites' = invites \/ \E c \in Calls : Issue(c) \/ Admit(c) \/ Revoke(c) \/ Extend(c)
      BY <1>5, ZenonT(60)
      DEF Next, Step, Tick, Submit, Fault, Answer, Authorize, CheckCap, FirstOwnerGate, Exchange,
          EnsureOwner, Lookup, Audit, SetAll, Snapshot, LockInvite, LockMember, CountOwners,
          LockProject, LockArtifact, LockProjectToo, Remove, SetProject, SetArtifact, data
    <2>2. CASE invites' = invites
      BY <1>1, <1>5, <2>2
    <2> QED
      BY <1>2, <1>3, <1>4, <1>5, <2>1, <2>2, ZenonT(60)
  <1>6. IInv /\ [Next]_vars => [\A i \in Invites : Kept(i)]_vars
    BY <1>5
  <1> QED
    BY <1>6, AccessInvariant, PTL DEF Spec, ExtensionsAreKept

-----------------------------------------------------------------------------
(* The handlers do what AccessTables promises.                             *)

\* A call that has not come asks for nothing; a project is not set to what it is.
Fresh == \A c \in Calls : pc[c] = "idle" => req[c] = NoRequest
SetsAnew == \A c \in Calls : Do(c, "set_project", "write") => project # req[c].tier

\* A step of c's is no step of another's.
LEMMA OneCall ==
  ASSUME IInv, NEW c \in Calls, Step(c) \/ Fault(c)
  PROVE  /\ pc[c] # "idle" /\ req' = req
         /\ \A d \in Calls \ {c} : pc'[d] = pc[d]
  BY DEF Step, Fault, Answer, Goto, Do, Authorize, CheckCap, FirstOwnerGate, Exchange,
     EnsureOwner, Issue, Lookup, Audit, SetAll, Snapshot, LockInvite, LockMember, CountOwners,
     LockProject, LockArtifact, LockProjectToo, Admit, Revoke, Extend, Remove, SetProject,
     SetArtifact, IInv, TypeOK, Outside, Inside

LEMMA FreshKept ==
  ASSUME IInv, Fresh, [Next]_vars
  PROVE  Fresh'
  <1>1. ASSUME NEW c \in Calls, Submit(c) PROVE Fresh'
    <2>1. PICK r \in Requests[c] : req' = [req EXCEPT ![c] = r] /\ Goto(c, FirstStep(r.op))
      BY <1>1 DEF Submit
    <2>2. pc'[c] # "idle" /\ \A d \in Calls \ {c} : pc'[d] = pc[d] /\ req'[d] = req[d]
      BY <2>1 DEF IInv, TypeOK, Goto, FirstStep
    <2> QED
      BY <2>2 DEF Fresh
  <1>2. ASSUME NEW c \in Calls, Step(c) \/ Fault(c) PROVE Fresh'
    <2>1. pc'[c] # "idle"
      BY <1>2 DEF Step, Fault, Answer, Goto, Do, Authorize, CheckCap, FirstOwnerGate, Exchange,
         EnsureOwner, Issue, Lookup, Audit, SetAll, Snapshot, LockInvite, LockMember, CountOwners,
         LockProject, LockArtifact, LockProjectToo, Admit, Revoke, Extend, Remove, SetProject,
         SetArtifact, IInv, TypeOK, AfterAuthorize
    <2> QED
      BY <1>2, <2>1, OneCall DEF Fresh
  <1>3. ASSUME UNCHANGED vars \/ Tick PROVE Fresh'
    BY <1>3 DEF Fresh, vars, Tick
  <1> QED
    BY <1>1, <1>2, <1>3 DEF Next

\* Who sets the project holds its row since it compared.
LEMMA SetsAnewKept ==
  ASSUME IInv, SetsAnew, [Next]_vars
  PROVE  SetsAnew'
  <1>1. ASSUME NEW c \in Calls, Submit(c) PROVE SetsAnew'
    <2>1. PICK r \in Requests[c] : req' = [req EXCEPT ![c] = r] /\ Goto(c, FirstStep(r.op))
      BY <1>1 DEF Submit
    <2>2. /\ pc'[c] # "write" /\ \A d \in Calls \ {c} : pc'[d] = pc[d] /\ req'[d] = req[d]
          /\ project' = project
      BY <1>1, <2>1 DEF IInv, TypeOK, Goto, FirstStep, Submit, data
    <2> QED
      BY <2>2 DEF SetsAnew, Do
  <1>2. ASSUME NEW c \in Calls, SetProject(c) PROVE SetsAnew'
    <2>1. /\ pc[c] = "write" /\ req[c].op = "set_project" /\ pc'[c] = "accepted"
          /\ req' = req /\ \A d \in Calls \ {c} : pc'[d] = pc[d]
      BY <1>2 DEF SetProject, Do, Goto, IInv, TypeOK
    <2>2. ASSUME NEW d \in Calls \ {c} PROVE ~Do(d, "set_project", "write")
      BY <2>1, WritersApart DEF IInv, Do, RowOf
    <2> QED
      BY <2>1, <2>2 DEF SetsAnew, Do
  <1>3. ASSUME NEW c \in Calls, Step(c) \/ Fault(c), ~SetProject(c) PROVE SetsAnew'
    <2>1. project' = project
      BY <1>3 DEF data, Step, Fault, Answer, Authorize, CheckCap, FirstOwnerGate, Exchange,
         EnsureOwner, Issue, Lookup, Audit, SetAll, Snapshot, LockInvite, LockMember, CountOwners,
         LockProject, LockArtifact, LockProjectToo, Admit, Revoke, Extend, Remove, SetArtifact
    <2>2. pc'[c] = "write" /\ req[c].op = "set_project" => project # req[c].tier
      BY <1>3, AsksHere DEF Step, Fault, Answer, Goto, Do, Authorize, CheckCap, FirstOwnerGate,
         Exchange, EnsureOwner, Issue, Lookup, Audit, SetAll, Snapshot, LockInvite, LockMember,
         CountOwners, LockProject, LockArtifact, LockProjectToo, Admit, Revoke, Extend, Remove,
         SetArtifact, IInv, TypeOK, AfterAuthorize, Asks
    <2> QED
      BY <1>3, <2>1, <2>2, OneCall DEF SetsAnew, Do
  <1>4. ASSUME UNCHANGED vars \/ Tick PROVE SetsAnew'
    BY <1>4 DEF SetsAnew, Do, vars, Tick, data
  <1> QED
    BY <1>1, <1>2, <1>3, <1>4 DEF Next

RInv == IInv /\ Fresh /\ SetsAnew

LEMMA Refining == Spec => []RInv
  <1>1. Init => Fresh /\ SetsAnew
    BY DEF Init, Fresh, SetsAnew, Do
  <1>2. RInv /\ [Next]_vars => RInv'
    BY StepInv, FreshKept, SetsAnewKept DEF RInv
  <1> QED
    BY InitInv, <1>1, <1>2, PTL DEF Spec, RInv

-----------------------------------------------------------------------------
LEMMA StatusMoves ==
  ASSUME IInv, NEW c \in Calls, NEW l, Goto(c, l)
  PROVE  /\ [d \in Calls |-> Status(pc[d])]' =
              [[d \in Calls |-> Status(pc[d])] EXCEPT ![c] = Status(l)]
         /\ [d \in Calls |-> Status(pc[d])][c] = Status(pc[c])
  BY DEF IInv, TypeOK, Goto

\* A call that goes on is where it was for its caller; one that ends without
\* having written is told so.
LEMMA GoesOn ==
  ASSUME RInv, NEW c \in Calls, NEW l, Goto(c, l), Status(l) = Status(pc[c]),
         UNCHANGED <<data, now, req, at>>
  PROVE  UNCHANGED Tables!vars
  BY StatusMoves DEF RInv, Tables!vars, Tables!tables, data, IInv, TypeOK, Goto

LEMMA Fails ==
  ASSUME RInv, NEW c \in Calls, NEW l \in {"refused", "failed"}, Goto(c, l),
         pc[c] \notin {"idle"} \cup Ended,
         UNCHANGED <<data, now, req>>, at' = at \/ at' = [at EXCEPT ![c] = now]
  PROVE  Tables!Fail(c)
  <1>1. req[c].op # "none"
    BY AsksHere, RequestType DEF RInv
  <1>2. Status(pc[c]) \in {"open", "applied"} /\ Status(l) = "failed"
    BY DEF Status, Ended
  <1>3. \E t \in {at[c], now} : at' = [at EXCEPT ![c] = t]
    BY DEF RInv, IInv, TypeOK
  <1>4. /\ [d \in Calls |-> Status(pc[d])]' =
              [[d \in Calls |-> Status(pc[d])] EXCEPT ![c] = "failed"]
        /\ [d \in Calls |-> Status(pc[d])][c] \in {"open", "applied"}
    <2>1. IInv
      BY DEF RInv
    <2> QED
      BY <1>2, <2>1, StatusMoves
  <1> QED
    BY <1>1, <1>3, <1>4, Zenon DEF Tables!Fail, Tables!tables, data

LEMMA SubmitAsks ==
  ASSUME RInv, NEW c \in Calls, Submit(c)
  PROVE  Tables!Ask(c)
  <1>1. PICK r \in Requests[c] :
           /\ pc[c] = "idle" /\ req' = [req EXCEPT ![c] = r] /\ Goto(c, FirstStep(r.op))
           /\ at' = [at EXCEPT ![c] = now] /\ UNCHANGED <<data, now>>
    BY DEF Submit
  <1>2. req[c].op = "none"
    BY <1>1 DEF RInv, Fresh, NoRequest
  <1>3. Status(FirstStep(r.op)) = "open" /\ Status(pc[c]) = "open"
    BY <1>1 DEF FirstStep, Status
  <1>4. UNCHANGED [d \in Calls |-> Status(pc[d])]
    <2>1. IInv /\ Goto(c, FirstStep(r.op))
      BY <1>1 DEF RInv
    <2>2. [d \in Calls |-> Status(pc[d])]' =
            [[d \in Calls |-> Status(pc[d])] EXCEPT ![c] = Status(FirstStep(r.op))]
      BY <2>1, StatusMoves
    <2> QED
      BY <2>2, <1>3
  <1>5. [d \in Calls |-> Status(pc[d])][c] = "open"
    BY <1>3
  <1> QED
    BY <1>1, <1>2, <1>4, <1>5 DEF Tables!Ask, Tables!tables, data

LEMMA AuthorizeAsks ==
  ASSUME RInv, NEW c \in Calls, Authorize(c)
  PROVE  Tables!Ask(c) \/ Tables!Fail(c)
  <1>1. /\ pc[c] = "authorize" /\ at' = [at EXCEPT ![c] = now]
        /\ UNCHANGED <<data, now, req, seen, faults>>
    BY DEF Authorize
  <1>2. CASE Permitted(req[c])
    <2>1. Goto(c, AfterAuthorize(req[c].op))
      BY <1>2 DEF Authorize
    <2>2. Status(AfterAuthorize(req[c].op)) = "open" /\ Status(pc[c]) = "open"
      BY <1>1 DEF Status, AfterAuthorize
    <2>3. UNCHANGED [d \in Calls |-> Status(pc[d])]
      <3>1. IInv
        BY DEF RInv
      <3>2. [d \in Calls |-> Status(pc[d])]' =
              [[d \in Calls |-> Status(pc[d])] EXCEPT ![c] = Status(AfterAuthorize(req[c].op))]
        BY <2>1, <3>1, StatusMoves
      <3> QED
        BY <2>2, <3>2
    <2>4. [d \in Calls |-> Status(pc[d])][c] = "open"
      BY <2>2
    <2>5. req[c].op # "none"
      BY <1>1, AsksHere, RequestType DEF RInv
    <2> QED
      BY <1>1, <2>3, <2>4, <2>5 DEF Tables!Ask, Tables!tables, data
  <1>3. CASE ~Permitted(req[c])
    <2>1. Goto(c, "refused")
      BY <1>3 DEF Authorize
    <2> QED
      BY <1>1, <2>1, Fails DEF Ended
  <1> QED
    BY <1>2, <1>3

\* Where a call goes on when it has had its effect.
AfterEffect(r) ==
    IF r.op = "issue" THEN "lookup" ELSE IF r.op = "extend" THEN "audit" ELSE "accepted"

\* What writes takes effect for its caller in the same step.
LEMMA Applied ==
  ASSUME RInv, NEW c \in Calls, pc[c] \notin {"idle", "lookup", "audit"} \cup Ended,
         \/ Tables!Issue(c, req[c], at[c]) \/ Tables!Join(req[c], at[c])
         \/ Tables!Revoke(req[c]) \/ Tables!Extend(req[c], at[c]) \/ Tables!Remove(req[c])
         \/ Tables!OwnFirst(req[c]) \/ Tables!SetProject(req[c]) \/ Tables!SetArtifact(req[c])
         \/ Tables!Already(req[c]),
         Goto(c, AfterEffect(req[c])),
         UNCHANGED <<now, req, at>>
  PROVE  Tables!Next
  <1>1. Status(pc[c]) = "open"
    BY DEF Status, Ended
  <1>2. [d \in Calls |-> Status(pc[d])]' =
           [[d \in Calls |-> Status(pc[d])] EXCEPT
              ![c] = IF Tables!AnsweredLater(req[c]) THEN "applied" ELSE "accepted"]
    <2>1. Status(AfterEffect(req[c])) =
            IF Tables!AnsweredLater(req[c]) THEN "applied" ELSE "accepted"
      BY DEF Status, AfterEffect, Tables!AnsweredLater
    <2>2. IInv
      BY DEF RInv
    <2> QED
      BY <2>1, <2>2, StatusMoves
  <1>3. [d \in Calls |-> Status(pc[d])][c] = "open"
    BY <1>1
  <1>4. Tables!Apply(c, req[c], at[c])
    BY <1>2, <1>3, Zenon DEF Tables!Apply
  <1> QED
    BY <1>4 DEF Tables!Next

\* A call that finds done what it asked for.
LEMMA FoundThere ==
  ASSUME RInv, NEW c \in Calls, pc[c] \notin {"idle", "lookup", "audit"} \cup Ended,
         Answer(c, "accepted"), req[c].op \notin {"issue", "extend"},
         \/ req[c].op \in {"signup", "boot"} /\ role[req[c].who] # "none"
         \/ req[c].op = "set_project" /\ project = req[c].tier
         \/ Tables!Fits(req[c]) /\ tier[req[c].of] = req[c].tier
         \/ /\ req[c].op = "set_all"
            /\ ~req[c].confirm \/ \A a \in Artifacts : tier[a] = req[c].tier
  PROVE  Tables!Next
  <1>1. Tables!Already(req[c])
    BY Zenon DEF Tables!Already, Answer, data, Tables!tables
  <1>2. Goto(c, AfterEffect(req[c]))
    BY DEF Answer, AfterEffect
  <1>3. UNCHANGED <<now, req, at>>
    BY DEF Answer
  <1> QED
    BY <1>1, <1>2, <1>3, Applied

LEMMA IssueApplies ==
  ASSUME RInv, NEW c \in Calls, Issue(c)
  PROVE  Tables!Next
  <1>1. req[c].op = "issue" /\ pc[c] = "insert" /\ ~invites[c].there
    BY AsksHere DEF RInv, Issue, Asks, Issues, Ended
  <1>2. Tables!Issue(c, req[c], at[c])
    BY <1>1 DEF Issue, Tables!Issue
  <1>3. Goto(c, AfterEffect(req[c])) /\ UNCHANGED <<now, req, at>>
    BY <1>1 DEF Issue, AfterEffect
  <1> QED
    BY <1>1, <1>2, <1>3, Applied DEF Ended

LEMMA AdmitApplies ==
  ASSUME RInv, NEW c \in Calls, Admit(c)
  PROVE  Tables!Next
  <1> DEFINE inv == invites[req[c].of]
  <1>1. /\ pc[c] = "write" /\ req[c].op = "join" /\ inv \in InviteRows /\ at[c] \in Nat
        /\ seen[c].invite = inv /\ inv.there /\ ~Inactive(inv, at[c])
    BY AsksHere, RequestType DEF RInv, Admit, Do, Reads, OfInvite, Refuses, IInv, TypeOK
  <1>2. Tables!Usable(inv, at[c])
    BY <1>1 DEF Tables!Usable, Tables!Unused, Inactive, InviteRows
  <1>3. Tables!Join(req[c], at[c])
    BY <1>1, <1>2 DEF Admit, Tables!Join
  <1>4. Goto(c, AfterEffect(req[c])) /\ UNCHANGED <<now, req, at>>
    BY <1>1 DEF Admit, AfterEffect
  <1> QED
    BY <1>1, <1>3, <1>4, Applied DEF Ended

LEMMA RevokeApplies ==
  ASSUME RInv, NEW c \in Calls, Revoke(c)
  PROVE  Tables!Next
  <1>1. /\ pc[c] = "write" /\ req[c].op = "revoke"
        /\ invites[req[c].of].there /\ ~invites[req[c].of].used
    BY AsksHere DEF RInv, Revoke, Do, Reads, OfInvite, Refuses
  <1>2. Tables!Revoke(req[c])
    BY <1>1 DEF Revoke, Tables!Revoke, Tables!Unused
  <1>3. Goto(c, AfterEffect(req[c])) /\ UNCHANGED <<now, req, at>>
    BY <1>1 DEF Revoke, AfterEffect
  <1> QED
    BY <1>1, <1>2, <1>3, Applied DEF Ended

LEMMA ExtendApplies ==
  ASSUME RInv, NEW c \in Calls, Extend(c)
  PROVE  Tables!Next
  <1> DEFINE i == req[c].of
             old == invites[i]
             next == Extended(old, at[c], req[c].permanent)
  <1>1. /\ pc[c] = "write" /\ req[c].op = "extend" /\ old \in InviteRows /\ at[c] \in Nat
        /\ old.there /\ (old.permanent => req[c].permanent)
        /\ invites' = [invites EXCEPT ![i] = next]
    BY ExtendWrites DEF RInv
  <1>2. ~Inactive(old, at[c])
    BY <1>1, AsksHere DEF RInv, Reads, OfInvite, Refuses
  <1>3. Tables!Usable(old, at[c])
    BY <1>1, <1>2 DEF Tables!Usable, Tables!Unused, Inactive, InviteRows
  <1>4. next = IF req[c].permanent THEN [old EXCEPT !.permanent = TRUE]
               ELSE [old EXCEPT !.expires = Tables!Later(old.expires, at[c]) + Extension]
    BY DEF Extended, Tables!Later
  <1>5. UNCHANGED <<role, project, tier, revisions, now, req, at>> /\ Goto(c, "audit")
    BY DEF Extend
  <1>6. Tables!Extend(req[c], at[c])
    <2> HIDE DEF next
    <2> QED
      BY <1>1, <1>3, <1>4, <1>5 DEF Tables!Extend
  <1>7. Goto(c, AfterEffect(req[c]))
    BY <1>1, <1>5 DEF AfterEffect
  <1> QED
    BY <1>1, <1>5, <1>6, <1>7, Applied DEF Ended

LEMMA EnsureOwnerApplies ==
  ASSUME RInv, NEW c \in Calls, EnsureOwner(c)
  PROVE  Tables!Next
  <1>1. /\ pc[c] = "ensure" /\ req[c].op \in {"signup", "boot"} /\ req[c].who \in Users
        /\ UNCHANGED <<invites, project, tier, revisions, now, req, at, seen, faults>>
        /\ Goto(c, "accepted")
    BY AsksHere, RequestType DEF RInv, EnsureOwner, Asks
  <1>2. Goto(c, AfterEffect(req[c]))
    BY <1>1 DEF AfterEffect
  <1>3. CASE role[req[c].who] = "none"
    <2>1. Tables!OwnFirst(req[c])
      BY <1>1, <1>3 DEF EnsureOwner, Tables!OwnFirst
    <2> QED
      BY <1>1, <1>2, <2>1, Applied DEF Ended
  <1>4. CASE role[req[c].who] # "none"
    <2>1. role' = role
      BY <1>1, <1>4 DEF EnsureOwner, RInv, IInv, TypeOK
    <2>2. Answer(c, "accepted")
      BY <1>1, <2>1 DEF Answer, data
    <2> QED
      BY <1>1, <1>4, <2>2, FoundThere DEF Ended
  <1> QED
    BY <1>3, <1>4

LEMMA RemoveApplies ==
  ASSUME RInv, NEW c \in Calls, Remove(c)
  PROVE  Tables!Next
  <1>1. /\ pc[c] = "write" /\ req[c].op = "remove" /\ Tables!Remove(req[c])
        /\ UNCHANGED <<now, req, at>> /\ Goto(c, "accepted")
    BY DEF Remove, Do, Tables!Remove
  <1>2. Goto(c, AfterEffect(req[c]))
    BY <1>1 DEF AfterEffect
  <1> QED
    BY <1>1, <1>2, Applied DEF Ended

LEMMA SetProjectApplies ==
  ASSUME RInv, NEW c \in Calls, SetProject(c)
  PROVE  Tables!Next
  <1>1. /\ pc[c] = "write" /\ req[c].op = "set_project" /\ project # req[c].tier
        /\ UNCHANGED <<now, req, at>> /\ Goto(c, "accepted")
    BY DEF SetProject, Do, RInv, SetsAnew
  <1>2. Tables!SetProject(req[c])
    BY <1>1 DEF SetProject, Tables!SetProject
  <1>3. Goto(c, AfterEffect(req[c]))
    BY <1>1 DEF AfterEffect
  <1> QED
    BY <1>1, <1>2, <1>3, Applied DEF Ended

\* The tiers that are not broader than the project's.
LEMMA AllowedIsWithin ==
  ASSUME NEW p \in Tiers, NEW t \in Tiers, Allowed(p, t)
  PROVE  t \in Tables!Within[p]
  BY DEF Tiers, Allowed, Rank, Tables!Within

LEMMA SetArtifactApplies ==
  ASSUME RInv, NEW c \in Calls, SetArtifact(c)
  PROVE  Tables!Next
  <1>1. /\ pc[c] = "write" /\ req[c].op \in OfArtifact /\ req[c].tier \in Tiers
        /\ seen[c].tier = tier[req[c].of] /\ seen[c].tier # req[c].tier
        /\ req[c].op = "patch" => Allowed(project, req[c].tier)
        /\ UNCHANGED <<role, invites, project, now, req, at, seen, faults>>
    BY AsksHere, RequestType DEF RInv, SetArtifact, OfArtifact, Reads, Do
  <1>2. CASE Len(revisions[req[c].of]) = seen[c].last
    <2>1. Tables!Fits(req[c])
      BY <1>1, AllowedIsWithin DEF RInv, IInv, TypeOK, Tables!Fits, OfArtifact
    <2>2. Tables!SetArtifact(req[c])
      BY <1>1, <1>2, <2>1 DEF SetArtifact, Tables!SetArtifact
    <2>3. Goto(c, AfterEffect(req[c]))
      BY <1>1, <1>2 DEF SetArtifact, AfterEffect, OfArtifact
    <2> QED
      BY <1>1, <2>2, <2>3, Applied DEF Ended
  <1>3. CASE Len(revisions[req[c].of]) # seen[c].last
    <2>1. Goto(c, "failed") /\ UNCHANGED <<data, now, req>> /\ at' = at
      BY <1>1, <1>3 DEF SetArtifact, data
    <2> QED
      BY <1>1, <2>1, Fails DEF Ended, Tables!Next
  <1> QED
    BY <1>2, <1>3

-----------------------------------------------------------------------------
\* The statements that write nothing.
LEMMA ReadingsApply ==
  ASSUME RInv, NEW c \in Calls,
         \/ CheckCap(c) \/ FirstOwnerGate(c) \/ Exchange(c) \/ Snapshot(c) \/ LockInvite(c)
         \/ LockMember(c) \/ CountOwners(c)
  PROVE  [Tables!Next]_Tables!vars
  <1>1. pc[c] \in {"cap", "gate", "exchange", "snapshot", "lock", "count"}
    BY DEF CheckCap, FirstOwnerGate, Exchange, Snapshot, LockInvite, LockMember, CountOwners, Do
  <1>2. PICK l \in {"set_all", "snapshot", "exchange", "ensure", "lock", "count", "write",
                     "refused"} :
           Goto(c, l) /\ UNCHANGED <<data, now, req, at>>
    BY DEF CheckCap, FirstOwnerGate, Exchange, Snapshot, LockInvite, LockMember, CountOwners, Answer
  <1>3. CASE l = "refused"
    BY <1>1, <1>2, <1>3, Fails DEF Ended, Tables!Next
  <1>4. CASE l # "refused"
    <2>1. Status(l) = Status(pc[c])
      BY <1>1, <1>4 DEF Status
    <2> QED
      BY <1>2, <2>1, GoesOn
  <1> QED
    BY <1>3, <1>4

\* A call that had its effect and is told so.
LEMMA Answered ==
  ASSUME RInv, NEW c \in Calls, Status(pc[c]) = "applied", Goto(c, "accepted"),
         UNCHANGED <<data, now, req, at>>,
         req[c].op = "issue" /\ ~req[c].permanent => Tables!Usable(invites[c], now)
  PROVE  Tables!Next
  <1>1. IInv /\ Status("accepted") = "accepted"
    BY DEF RInv, Status
  <1>2. /\ [d \in Calls |-> Status(pc[d])]' =
              [[d \in Calls |-> Status(pc[d])] EXCEPT ![c] = "accepted"]
        /\ [d \in Calls |-> Status(pc[d])][c] = "applied"
    BY <1>1, StatusMoves
  <1>3. Tables!Succeed(c)
    BY <1>2, Zenon DEF Tables!Succeed, Tables!tables, data
  <1> QED
    BY <1>3 DEF Tables!Next

\* What is handed out can be used at that moment.
LEMMA LookupApplies ==
  ASSUME RInv, NEW c \in Calls, Lookup(c)
  PROVE  [Tables!Next]_Tables!vars
  <1>1. /\ pc[c] = "lookup" /\ req[c].op = "issue" /\ invites[c].there
        /\ UNCHANGED <<data, now, req, at>>
    BY AsksHere DEF RInv, Lookup, Answer, Asks, Issues
  <1>2. Status(pc[c]) = "applied" /\ Status("audit") = "applied"
    BY <1>1 DEF Status
  <1>3. CASE Inactive(invites[c], now)
    <2>1. Goto(c, "refused")
      BY <1>3 DEF Lookup, Answer
    <2> QED
      BY <1>1, <2>1, Fails DEF Ended, Tables!Next
  <1>4. CASE ~Inactive(invites[c], now) /\ req[c].permanent
    <2>1. Goto(c, "audit")
      BY <1>4 DEF Lookup, Answer
    <2> QED
      BY <1>1, <1>2, <2>1, GoesOn
  <1>5. CASE ~Inactive(invites[c], now) /\ ~req[c].permanent
    <2>1. Goto(c, "accepted")
      BY <1>5 DEF Lookup, Answer
    <2>2. invites[c] \in InviteRows /\ now \in Nat
      BY Bounds DEF RInv, IInv, TypeOK, Invites
    <2>3. Tables!Usable(invites[c], now)
      BY <1>1, <1>5, <2>2 DEF Inactive, InviteRows, Tables!Usable, Tables!Unused
    <2> QED
      BY <1>1, <1>2, <2>1, <2>3, Answered
  <1> QED
    BY <1>3, <1>4, <1>5

LEMMA AuditApplies ==
  ASSUME RInv, NEW c \in Calls, Audit(c)
  PROVE  Tables!Next
  <1>1. pc[c] = "audit" /\ Goto(c, "accepted") /\ UNCHANGED <<data, now, req, at>>
    BY DEF Audit, Answer
  <1>2. Status(pc[c]) = "applied" /\ Status("accepted") = "accepted"
    BY <1>1 DEF Status
  <1>3. req[c].op = "issue" => req[c].permanent
    BY <1>1, AsksHere DEF RInv, Asks
  <1> QED
    BY <1>1, <1>2, <1>3, Answered

LEMMA SetAllApplies ==
  ASSUME RInv, NEW c \in Calls, SetAll(c)
  PROVE  Tables!Next
  <1> DEFINE others == {a \in Artifacts : tier[a] # req[c].tier}
  <1>1. pc[c] = "set_all" /\ req[c].op = "set_all"
    BY AsksHere DEF RInv, SetAll, Asks
  <1>2. CASE req[c].confirm /\ others # {}
    <2>1. Goto(c, "failed") /\ UNCHANGED <<data, now, req, at>>
      BY <1>2 DEF SetAll, Answer
    <2> QED
      BY <1>1, <2>1, Fails DEF Ended, Tables!Next
  <1>3. CASE ~(req[c].confirm /\ others # {})
    <2>1. Answer(c, "accepted") /\ (~req[c].confirm \/ \A a \in Artifacts : tier[a] = req[c].tier)
      BY <1>3 DEF SetAll
    <2> QED
      BY <1>1, <2>1, FoundThere DEF Ended
  <1> QED
    BY <1>2, <1>3

LEMMA LocksApply ==
  ASSUME RInv, NEW c \in Calls, LockProject(c) \/ LockArtifact(c) \/ LockProjectToo(c)
  PROVE  [Tables!Next]_Tables!vars
  <1>1. pc[c] \in {"lock", "lock_project"}
    BY DEF LockProject, LockArtifact, LockProjectToo, Do
  <1>2. CASE LockProject(c)
    <2>1. req[c].op = "set_project"
      BY <1>2 DEF LockProject, Do
    <2>2. CASE project = req[c].tier
      BY <1>1, <1>2, <2>1, <2>2, FoundThere DEF LockProject, Ended
    <2>3. CASE project # req[c].tier
      <3>1. Goto(c, "write") /\ UNCHANGED <<data, now, req, at>>
        BY <1>2, <2>3 DEF LockProject, Answer
      <3>2. Status("write") = Status(pc[c])
        BY <1>1 DEF Status
      <3> QED
        BY <3>1, <3>2, GoesOn
    <2> QED
      BY <2>2, <2>3
  <1>3. CASE LockArtifact(c)
    <2>1. req[c].op \in OfArtifact /\ UNCHANGED <<data, now, req, at>>
      BY <1>3 DEF LockArtifact, OfArtifact
    <2>2. CASE req[c].op = "set_artifact" /\ tier[req[c].of] = req[c].tier
      <3>1. Tables!Fits(req[c])
        BY <2>2 DEF Tables!Fits
      <3>2. Goto(c, "accepted") /\ Tables!Already(req[c])
        BY <1>3, <2>1, <2>2, <3>1 DEF LockArtifact, Tables!Already, Tables!tables, data
      <3>3. Goto(c, AfterEffect(req[c]))
        BY <2>2, <3>2 DEF AfterEffect
      <3> QED
        BY <1>1, <2>1, <3>2, <3>3, Applied DEF Ended
    <2>3. CASE ~(req[c].op = "set_artifact" /\ tier[req[c].of] = req[c].tier)
      <3>1. PICK l \in {"lock_project", "write"} : Goto(c, l)
        BY <1>3, <2>1, <2>3 DEF LockArtifact, OfArtifact
      <3>2. Status(l) = Status(pc[c])
        BY <1>1 DEF Status
      <3> QED
        BY <2>1, <3>1, <3>2, GoesOn
    <2> QED
      BY <2>2, <2>3
  <1>4. CASE LockProjectToo(c)
    <2>1. /\ pc[c] = "lock_project" /\ req[c].op = "patch" /\ req[c].tier \in Tiers
          /\ seen[c].tier = tier[req[c].of]
      BY <1>4, AsksHere, RequestType DEF RInv, LockProjectToo, Asks, Reads, OfArtifact
    <2>2. CASE ~Allowed(project, req[c].tier)
      <3>1. Goto(c, "refused") /\ UNCHANGED <<data, now, req, at>>
        BY <1>4, <2>2 DEF LockProjectToo, Answer
      <3> QED
        BY <2>1, <3>1, Fails DEF Ended, Tables!Next
    <2>3. CASE Allowed(project, req[c].tier) /\ seen[c].tier = req[c].tier
      <3>1. Tables!Fits(req[c])
        BY <2>1, <2>3, AllowedIsWithin DEF RInv, IInv, TypeOK, Tables!Fits
      <3>2. Answer(c, "accepted")
        BY <1>4, <2>3 DEF LockProjectToo
      <3> QED
        BY <2>1, <2>3, <3>1, <3>2, FoundThere DEF Ended
    <2>4. CASE Allowed(project, req[c].tier) /\ seen[c].tier # req[c].tier
      <3>1. Goto(c, "write") /\ UNCHANGED <<data, now, req, at>>
        BY <1>4, <2>4 DEF LockProjectToo, Answer
      <3>2. Status("write") = Status(pc[c])
        BY <2>1 DEF Status
      <3> QED
        BY <3>1, <3>2, GoesOn
    <2> QED
      BY <2>2, <2>3, <2>4
  <1> QED
    BY <1>2, <1>3, <1>4

LEMMA FaultFails ==
  ASSUME RInv, NEW c \in Calls, Fault(c)
  PROVE  Tables!Next
  <1>1. /\ pc[c] \notin {"idle"} \cup Ended /\ Goto(c, "failed")
        /\ UNCHANGED <<data, now, req>> /\ at' = at
    BY DEF Fault, Outside, Inside, Ended
  <1> QED
    BY <1>1, Fails DEF Tables!Next

LEMMA TablesStep == RInv /\ [Next]_vars => [Tables!Next]_Tables!vars
  <1> SUFFICES ASSUME RInv, [Next]_vars PROVE [Tables!Next]_Tables!vars
    OBVIOUS
  <1>1. CASE UNCHANGED vars
    BY <1>1 DEF vars, data, Tables!vars, Tables!tables
  <1>2. CASE Tick
    <2>1. Tables!Tick
      BY <1>2 DEF Tick, Tables!Tick, Tables!tables, data
    <2> QED
      BY <2>1 DEF Tables!Next
  <1>3. ASSUME NEW c \in Calls, Submit(c) \/ Step(c) \/ Fault(c)
        PROVE  [Tables!Next]_Tables!vars
    <2>1. CASE Submit(c) \/ Authorize(c)
      BY <2>1, SubmitAsks, AuthorizeAsks DEF Tables!Next
    <2>2. CASE ~(Submit(c) \/ Authorize(c))
      BY <1>3, <2>2, ReadingsApply, EnsureOwnerApplies, IssueApplies, LookupApplies, AuditApplies,
         SetAllApplies, LocksApply, AdmitApplies, RevokeApplies, ExtendApplies, RemoveApplies,
         SetProjectApplies, SetArtifactApplies, FaultFails
      DEF Step
    <2> QED
      BY <2>1, <2>2
  <1> QED
    BY <1>1, <1>2, <1>3 DEF Next

\* Whatever overlaps, breaks off or was read too early: to its caller each call
\* looks as if it had run alone at one instant; one that fails has changed
\* nothing, or has issued or extended an invite and failed at what follows.
THEOREM AccessImplements == Spec => ImplementsAccess
  <1>1. Init => Tables!Init
    BY DEF Init, Tables!Init, Invites, NoInvite, NoRequest, Status, Tables!Unissued
  <1> QED
    BY <1>1, TablesStep, Refining, PTL DEF Spec, ImplementsAccess, Tables!Spec

-----------------------------------------------------------------------------
(* Nobody waits in a circle.                                               *)

\* The rows a call needs for its next statement.
Wants(c) ==
    IF pc[c] \in {"ensure", "insert", "audit", "lock_project"} THEN {TheProject}
    ELSE IF pc[c] = "set_all" /\ req[c].confirm
    THEN {<<"artifact", a>> : a \in {a \in Artifacts : tier[a] # req[c].tier}}
    ELSE IF pc[c] = "lock" /\ ~(req[c].op = "remove" /\ role[req[c].of] = "none")
    THEN {RowOf(req[c])}
    ELSE IF Do(c, "join", "write") THEN {<<"member", req[c].who>>, TheProject}
    ELSE IF pc[c] = "write" /\ req[c].op \in OfArtifact THEN {TheProject}
    ELSE {}

WaitsFor(c, d) == c # d /\ Wants(c) \cap Held(d) # {}

\* Among any calls there is one that waits for none of them.
NoCircle == \A S \in SUBSET Calls : S # {} => \E c \in S : \A d \in S : ~WaitsFor(c, d)

\* The order in which rows are locked: an invite before a member, an artifact
\* before the project.
Level(c) ==
    IF Held(c) = {} THEN 0
    ELSE IF TheProject \in Held(c) THEN 3
    ELSE IF req[c].op \in OfInvite THEN 1 ELSE 2

\* Wants is what the statements wait for: a call whose row another has locked
\* takes no step.
LEMMA WaitersStay ==
  ASSUME IInv, NEW c \in Calls, Step(c), NEW d \in Calls
  PROVE  ~WaitsFor(c, d)
  <1>1. \A row \in Wants(c) : Free(c, row)
    BY AsksHere DEF Wants, Free, Step, Do, Authorize, CheckCap, FirstOwnerGate, Exchange,
       EnsureOwner, Issue, Lookup, Audit, SetAll, Snapshot, LockInvite, LockMember, CountOwners,
       LockProject, LockArtifact, LockProjectToo, Admit, Revoke, Extend, Remove, SetProject,
       SetArtifact, RowIsFree, OfArtifact, Asks
  <1>2. c # d => \A row \in Wants(c) : row \notin Held(d)
    BY <1>1 DEF Free
  <1>3. c # d => Wants(c) \cap Held(d) = {}
    BY <1>2
  <1> QED
    BY <1>3, ZenonT(60) DEF WaitsFor

LEMMA WaitsClimb ==
  ASSUME IInv, NEW c \in Calls, NEW d \in Calls, WaitsFor(c, d)
  PROVE  Level(c) < Level(d)
  <1>1. PICK row \in Wants(c) : row \in Held(d)
    BY DEF WaitsFor
  <1>2. c # d /\ Held(c) \cap Held(d) = {} /\ Held(d) # {}
    BY <1>1 DEF WaitsFor, IInv, LocksApart
  <1>3. Level(d) \in {1, 2, 3}
    BY <1>2 DEF Level
  <1>4. CASE Held(c) = {}
    BY <1>3, <1>4 DEF Level
  <1>5. CASE Held(c) # {}
    <2>1. /\ pc[c] \in {"count", "lock_project", "write"}
          /\ pc[d] \in {"count", "lock_project", "write"}
      BY <1>2, <1>5 DEF Held
    <2>2. \/ pc[c] = "lock_project" /\ req[c].op = "patch"
          \/ pc[c] = "write" /\ req[c].op \in {"join"} \cup OfArtifact
      BY <1>1, <2>1, AsksHere DEF Wants, Do, Asks
    <2>3. TheProject \notin Held(c)
      BY <1>1, <1>2, <2>2 DEF Wants, Held, Do, OfArtifact, RowOf, TheProject
    <2>4. CASE row = TheProject
      <3>1. Level(d) = 3
        BY <1>1, <1>2, <2>4 DEF Level
      <3>2. Level(c) \in {1, 2}
        BY <1>5, <2>3 DEF Level
      <3> QED
        BY <3>1, <3>2
    <2>5. CASE row # TheProject
      <3>1. Do(c, "join", "write") /\ row = <<"member", req[c].who>>
        BY <1>1, <2>2, <2>5 DEF Wants, Do, OfArtifact
      <3>2. row = RowOf(req[d])
        BY <1>1, <2>5 DEF Held
      <3>3. req[d].op \notin OfInvite
        BY <3>1, <3>2 DEF RowOf, OfInvite
      <3>4. Level(d) \in {2, 3}
        BY <1>2, <3>3 DEF Level
      <3>5. Level(c) = 1
        BY <1>5, <2>3, <3>1 DEF Level, Do, OfInvite
      <3> QED
        BY <3>4, <3>5
    <2> QED
      BY <2>4, <2>5
  <1> QED
    BY <1>4, <1>5

\* Rows are locked in one order: of any calls that wait, however many, one waits
\* for none of the others, so locks alone never stop them all.
THEOREM AccessNeverDeadlocks == Spec => []NoCircle
  <1>1. IInv => NoCircle
    <2> SUFFICES ASSUME IInv, NEW S \in SUBSET Calls, S # {}
                 PROVE  \E c \in S : \A d \in S : ~WaitsFor(c, d)
      BY DEF NoCircle
    <2>1. \A c \in S : Level(c) \in {0, 1, 2, 3}
      BY DEF Level
    <2>2. PICK c \in S : \A d \in S : Level(d) <= Level(c)
      <3>1. CASE \E c \in S : Level(c) = 3
        BY <2>1, <3>1
      <3>2. CASE (\A c \in S : Level(c) # 3) /\ \E c \in S : Level(c) = 2
        BY <2>1, <3>2
      <3>3. CASE (\A c \in S : Level(c) \notin {2, 3}) /\ \E c \in S : Level(c) = 1
        BY <2>1, <3>3
      <3>4. CASE \A c \in S : Level(c) \notin {1, 2, 3}
        BY <2>1, <3>4
      <3> QED
        BY <3>1, <3>2, <3>3, <3>4
    <2>3. ASSUME NEW d \in S PROVE ~WaitsFor(c, d)
      <3>1. Level(d) <= Level(c) /\ Level(c) \in Nat /\ Level(d) \in Nat
        BY <2>1, <2>2
      <3> QED
        BY <3>1, WaitsClimb
    <2> QED
      BY <2>3
  <1> QED
    BY <1>1, AccessInvariant, PTL

-----------------------------------------------------------------------------
(* Owners.  The count of owners locks no row, so removals can race.         *)

IsOwner(u) == role[u] = "owner"

\* c has counted the owners and is about to remove one.
Counted(c) == Do(c, "remove", "write") /\ IsOwner(req[c].of)

\* An owner is lost only to a removal, while no other removal of an owner stands
\* between its count and its commit; no owner joins as something less.
OneRemoval ==
    (\E u \in Users : IsOwner(u) /\ ~IsOwner(u)') =>
        \E c \in Calls : Remove(c) /\ \A d \in Calls \ {c} : ~Counted(d)
OneAtATime == [][OneRemoval]_vars

OwnerInv ==
    \A c \in Calls :
        /\ req[c].op = "remove" /\ pc[c] \in {"count", "write"} => role[req[c].of] # "none"
        /\ Counted(c) => \E u \in Users \ {req[c].of} : IsOwner(u)

LEMMA CountIsTwo ==
  ASSUME NEW S, S \subseteq Users, ~(Cardinality(S) <= 1), NEW u
  PROVE  \E v \in S : v # u
  <1> SUFFICES ASSUME S \subseteq {u} PROVE FALSE
    OBVIOUS
  <1>1. IsFiniteSet({u}) /\ Cardinality({u}) = 1
    BY FS_Singleton
  <1>2. Cardinality(S) <= Cardinality({u})
    BY <1>1, FS_Subset
  <1> QED
    BY <1>1, <1>2

\* What a step of c's writes of the members, and how c comes to its count.
LEMMA MembersWritten ==
  ASSUME IInv, NEW c \in Calls, Step(c) \/ Fault(c), ~Remove(c), ~Admit(c), ~EnsureOwner(c)
  PROVE  /\ role' = role
         /\ req[c].op = "remove" /\ pc'[c] \in {"count", "write"} =>
              \/ CountOwners(c)
              \/ /\ LockMember(c) /\ role[req[c].of] # "none"
                 /\ pc'[c] = "write" => ~IsOwner(req[c].of)
  <1>1. role' = role
    BY DEF data, Step, Fault, Answer, Authorize, CheckCap, FirstOwnerGate, Exchange, Issue, Lookup,
       Audit, SetAll, Snapshot, LockInvite, LockMember, CountOwners, LockProject, LockArtifact,
       LockProjectToo, Revoke, Extend, SetProject, SetArtifact
  <1>2. ASSUME req[c].op = "remove", pc'[c] \in {"count", "write"}, ~CountOwners(c)
        PROVE  LockMember(c)
    BY <1>2, AsksHere DEF Step, Fault, Answer, Goto, Do, Authorize, CheckCap, FirstOwnerGate,
       Exchange, Issue, Lookup, Audit, SetAll, Snapshot, LockInvite, LockProject, LockArtifact,
       LockProjectToo, Revoke, Extend, SetProject, SetArtifact, IInv, TypeOK, AfterAuthorize, Asks,
       OfArtifact
  <1>3. ASSUME LockMember(c), pc'[c] \in {"count", "write"}
        PROVE  role[req[c].of] # "none" /\ (pc'[c] = "write" => ~IsOwner(req[c].of))
    BY <1>3 DEF LockMember, Answer, Goto, IInv, TypeOK, IsOwner
  <1> QED
    BY <1>1, <1>2, <1>3

LEMMA OwnerStep ==
  ASSUME IInv, OwnerInv, OneRemoval, NEW c \in Calls, Step(c) \/ Fault(c)
  PROVE  /\ OwnerInv'
         /\ (\E u \in Users : IsOwner(u)) => \E u \in Users : IsOwner(u)'
  <1>0. /\ role \in [Users -> Roles] /\ pc \in [Calls -> PCs] /\ req' = req
        /\ \A d \in Calls \ {c} : pc'[d] = pc[d]
        /\ \A d \in Calls : req[d].op = "remove" /\ pc[d] # "idle" => req[d].of \in Users
    BY OneCall, AsksHere, RequestType DEF IInv, TypeOK
  <1>1. ASSUME \E u \in Users : IsOwner(u) /\ ~IsOwner(u)'
        PROVE  Remove(c) /\ \A d \in Calls \ {c} : ~Counted(d)
    <2>1. PICK e \in Calls : Remove(e) /\ \A d \in Calls \ {e} : ~Counted(d)
      BY <1>1 DEF OneRemoval
    <2>2. pc[e] = "write" /\ pc'[e] = "accepted"
      BY <1>0, <2>1 DEF Remove, Do, Goto
    <2> QED
      BY <1>0, <2>1, <2>2
  <1>2. CASE Remove(c)
    <2>1. /\ pc[c] = "write" /\ req[c].op = "remove" /\ pc'[c] = "accepted"
          /\ role' = [role EXCEPT ![req[c].of] = "none"] /\ req[c].of \in Users
      BY <1>0, <1>2 DEF Remove, Do, Goto
    <2>2. ASSUME NEW d \in Calls \ {c}, req[d].op = "remove", pc[d] \in {"count", "write"}
          PROVE  req[d].of # req[c].of /\ req[d].of \in Users
      BY <1>0, <2>1, <2>2, WritersApart DEF IInv, RowOf
    <2>3. ASSUME NEW d \in Calls \ {c}, Counted(d)'
          PROVE  \E u \in Users \ {req[d].of} : IsOwner(u)'
      <3>1. Counted(d)
        BY <1>0, <2>1, <2>2, <2>3 DEF Counted, Do, IsOwner
      <3>2. ~IsOwner(req[c].of)
        BY <1>0, <1>1, <2>1, <3>1 DEF IsOwner
      <3>3. PICK u \in Users \ {req[d].of} : IsOwner(u)
        BY <3>1 DEF OwnerInv
      <3> QED
        BY <1>0, <2>1, <3>2, <3>3 DEF IsOwner
    <2>4. OwnerInv'
      BY <1>0, <2>1, <2>2, <2>3 DEF OwnerInv, Counted, Do
    <2>5. ASSUME NEW u \in Users, IsOwner(u) PROVE \E v \in Users : IsOwner(v)'
      <3>1. CASE Counted(c)
        <4>1. PICK v \in Users \ {req[c].of} : IsOwner(v)
          BY <3>1 DEF OwnerInv
        <4> QED
          BY <1>0, <2>1, <4>1 DEF IsOwner
      <3>2. CASE ~Counted(c)
        <4>1. u # req[c].of
          BY <2>1, <2>5, <3>2 DEF Counted, Do
        <4> QED
          BY <1>0, <2>1, <2>5, <4>1 DEF IsOwner
      <3> QED
        BY <3>1, <3>2
    <2> QED
      BY <2>4, <2>5
  <1>3. CASE ~Remove(c)
    <2>1. \A u \in Users : IsOwner(u) => IsOwner(u)'
      BY <1>1, <1>3
    <2>2. ASSUME NEW d \in Calls, req[d].op = "remove", pc'[d] \in {"count", "write"}
          PROVE  /\ role'[req[d].of] # "none"
                 /\ Counted(d)' => \E u \in Users \ {req[d].of} : IsOwner(u)
      <3>1. CASE EnsureOwner(c) \/ Admit(c)
        <4>1. pc'[c] = "accepted"
          BY <1>0, <3>1 DEF EnsureOwner, Admit, Do, Goto
        <4>2. d # c /\ pc[d] \in {"count", "write"} /\ role[req[d].of] # "none"
              /\ req[d].of \in Users
          BY <1>0, <2>2, <4>1 DEF OwnerInv
        <4>3. /\ role'[req[d].of] # "none"
              /\ IsOwner(req[d].of)' => IsOwner(req[d].of)
          <5>1. CASE EnsureOwner(c)
            BY <1>0, <4>2, <5>1 DEF EnsureOwner, IsOwner
          <5>2. CASE Admit(c)
            <6>1. seen[c].invite.role \in {"viewer", "editor"}
              BY DEF IInv, TypeOK, Seen, InviteRows
            <6> QED
              BY <1>0, <4>2, <5>2, <6>1 DEF Admit, IsOwner
          <5> QED
            BY <3>1, <5>1, <5>2
        <4> QED
          BY <1>0, <4>2, <4>3 DEF OwnerInv, Counted, Do
      <3>2. CASE ~EnsureOwner(c) /\ ~Admit(c)
        <4>1. role' = role
          BY <1>3, <3>2, MembersWritten
        <4>2. CASE d # c
          BY <1>0, <2>2, <4>1, <4>2 DEF OwnerInv, Counted, Do, IsOwner
        <4>3. CASE d = c /\ CountOwners(c)
          <5>1. /\ pc[c] = "count" /\ role[req[c].of] # "none"
                /\ ~(Cardinality({u \in Users : role[u] = "owner"}) <= 1)
            BY <1>0, <2>2, <4>3 DEF CountOwners, Answer, Goto, OwnerInv
          <5>2. \E v \in {u \in Users : role[u] = "owner"} : v # req[c].of
            BY <5>1, CountIsTwo
          <5> QED
            BY <4>1, <4>3, <5>1, <5>2 DEF IsOwner
        <4>4. CASE d = c /\ ~CountOwners(c)
          BY <1>0, <1>3, <2>2, <3>2, <4>1, <4>4, MembersWritten DEF Counted, Do, IsOwner
        <4> QED
          BY <4>2, <4>3, <4>4
      <3> QED
        BY <3>1, <3>2
    <2>3. OwnerInv'
      BY <1>0, <2>1, <2>2 DEF OwnerInv, Counted, Do
    <2> QED
      BY <2>1, <2>3
  <1> QED
    BY <1>2, <1>3

LEMMA OwnerNext ==
  ASSUME IInv, OwnerInv, [Next]_vars, [OneRemoval]_vars
  PROVE  /\ OwnerInv'
         /\ (\E u \in Users : IsOwner(u)) => \E u \in Users : IsOwner(u)'
  <1>1. ASSUME NEW c \in Calls, Submit(c)
        PROVE  role' = role /\ OwnerInv'
    <2>1. PICK r \in Requests[c] : req' = [req EXCEPT ![c] = r] /\ Goto(c, FirstStep(r.op))
      BY <1>1 DEF Submit
    <2>2. /\ pc'[c] \notin {"count", "write"} /\ role' = role
          /\ \A d \in Calls \ {c} : pc'[d] = pc[d] /\ req'[d] = req[d]
      BY <1>1, <2>1 DEF IInv, TypeOK, Goto, FirstStep, Submit, data
    <2> QED
      BY <2>2 DEF OwnerInv, Counted, Do, IsOwner
  <1>2. ASSUME UNCHANGED vars \/ Tick PROVE role' = role /\ OwnerInv'
    BY <1>2 DEF OwnerInv, Counted, Do, IsOwner, vars, Tick, data
  <1>3. ASSUME NEW c \in Calls, Step(c) \/ Fault(c)
        PROVE  /\ OwnerInv'
               /\ (\E u \in Users : IsOwner(u)) => \E u \in Users : IsOwner(u)'
    <2>1. CASE OneRemoval
      BY <1>3, <2>1, OwnerStep
    <2>2. CASE UNCHANGED vars
      BY <1>2, <2>2 DEF IsOwner
    <2> QED
      BY <2>1, <2>2
  <1> QED
    BY <1>1, <1>2, <1>3 DEF Next, IsOwner

\* The race of two removals, which last_owner_race finds, is the only one: when
\* no removal of an owner commits between the count and the commit of another,
\* and no owner joins as viewer or editor, a project with an owner keeps one.
THEOREM OwnersSurviveOneAtATime == Spec /\ OneAtATime => ProjectKeepsOwner
  <1>1. Init => OwnerInv
    BY DEF Init, OwnerInv, Counted, Do
  <1>2. IInv /\ OwnerInv /\ [Next]_vars /\ [OneRemoval]_vars => OwnerInv'
    BY OwnerNext
  <1>3. IInv /\ OwnerInv /\ [Next]_vars /\ [OneRemoval]_vars =>
          [(\E u \in Users : role[u] = "owner") => \E u \in Users : role'[u] = "owner"]_vars
    BY OwnerNext DEF IsOwner
  <1> QED
    BY <1>1, <1>2, <1>3, AccessInvariant, PTL DEF Spec, OneAtATime, ProjectKeepsOwner

=============================================================================
