---------------------------- MODULE ProjectAccess ----------------------------
(***************************************************************************)
(* Who belongs to a project and who sees its artifacts: invites, members,  *)
(* the first owner, and the visibility of the project and of its artifacts *)
(* (the HTTP API, the GitHub callback, project.set_visibility and          *)
(* artifact.set_visibility).                                               *)
(*                                                                         *)
(* A call reads its caller's role before its transaction.  The transaction *)
(* (READ COMMITTED) locks a row with FOR UPDATE: it waits for the one that *)
(* holds the row and then reads the row again, but not what a subquery of  *)
(* the same statement has counted.  What it writes is visible at COMMIT,   *)
(* which is its last step here.  INSERTs that refer to the project wait    *)
(* for the one that has the project's row locked.                          *)
(***************************************************************************)
EXTENDS Integers, FiniteSets, Sequences

CONSTANTS
    Calls,      \* a call that issues an invite makes the invite of its name
    Seeds,      \* invites there are already
    Users,
    Loopback,   \* the users whose principal is the loopback one
    Artifacts,
    Requests,   \* Requests[c]: what c may ask for
    SeedRoles,  \* the members the project may have
    SeedInvites, SeedProject, SeedTiers,
    Extension,  \* how far an extension moves the expiry
    MaxTime, MaxFaults

Invites == Calls \cup Seeds
Roles == {"none", "viewer", "editor", "owner"}
Tiers == {"public", "org", "private"}

IssueRequests == [op : {"issue"}, who : Users, role : {"viewer", "editor"},
                  permanent : BOOLEAN, expires : Nat]
InviteRequests == [op : {"join", "revoke"}, who : Users, of : Invites]
ExtendRequests == [op : {"extend"}, who : Users, of : Invites, permanent : BOOLEAN]
RemoveRequests == [op : {"remove"}, who : Users, of : Users]
OwnerRequests == [op : {"signup", "boot"}, who : Users]
ProjectRequests == [op : {"set_project"}, who : Users, tier : Tiers]
ArtifactRequests == [op : {"set_artifact", "patch"}, who : Users, of : Artifacts, tier : Tiers]
BulkRequests == [op : {"set_all"}, who : Users, tier : Tiers, confirm : BOOLEAN]

AllRequests ==
    IssueRequests \cup InviteRequests \cup ExtendRequests \cup RemoveRequests
      \cup OwnerRequests \cup ProjectRequests \cup ArtifactRequests \cup BulkRequests

\* A row of invite_tokens: used is consumed_at, which a join and a revocation
\* set alike; a permanent one has no expires_at.
InviteRows == [there : BOOLEAN, used : BOOLEAN, role : {"viewer", "editor"},
               permanent : BOOLEAN, expires : Nat]

ASSUME CallsAreNew == Calls \cap Seeds = {}
ASSUME LoopbackUsers == Loopback \subseteq Users /\ IsFiniteSet(Users)
ASSUME RequestTypes == Requests \in [Calls -> SUBSET AllRequests]
ASSUME SeedTypes ==
    /\ SeedRoles \subseteq [Users -> Roles]
    /\ SeedInvites \in [Seeds -> InviteRows]
    /\ \A s \in Seeds : SeedInvites[s].there /\ ~SeedInvites[s].used
    /\ SeedProject \in Tiers /\ SeedTiers \in [Artifacts -> Tiers]
ASSUME Bounds == Extension \in Nat /\ MaxTime \in Nat /\ MaxFaults \in Nat

VARIABLES
    role,       \* project_members
    invites,    \* invite_tokens
    project,    \* projects.visibility
    tier,       \* artifacts.visibility
    revisions,  \* the visibility_change revisions of an artifact
    now,
    pc,         \* the statement a call runs next, or how it ended
    req,        \* what it asks for
    at,         \* the time it asks at
    seen,       \* the invite, the tier and the last revision it has read
    faults

data == <<role, invites, project, tier, revisions>>
vars == <<data, now, pc, req, at, seen, faults>>

NoInvite == [there |-> FALSE, used |-> FALSE, role |-> "viewer",
             permanent |-> FALSE, expires |-> 0]
NoRequest == [op |-> "none"]
Nothing == [invite |-> NoInvite, tier |-> "private", last |-> 0]
Seen == [invite : InviteRows, tier : Tiers, last : Nat]

Ended == {"accepted", "refused", "failed"}
Outside == {"authorize", "cap", "gate", "exchange", "ensure", "insert", "lookup", "audit", "set_all"}
Inside == {"snapshot", "lock", "count", "lock_project", "write"}
PCs == {"idle"} \cup Outside \cup Inside \cup Ended

Goto(c, l) == pc' = [pc EXCEPT ![c] = l]
Answer(c, l) == Goto(c, l) /\ UNCHANGED <<data, now, req, at, seen, faults>>
Do(c, op, l) == pc[c] = l /\ req[c].op = op

Init ==
    /\ role \in SeedRoles
    /\ invites = [i \in Invites |-> IF i \in Seeds THEN SeedInvites[i] ELSE NoInvite]
    /\ project = SeedProject
    /\ tier = SeedTiers
    /\ revisions = [a \in Artifacts |-> <<>>]
    /\ now = 0
    /\ pc = [c \in Calls |-> "idle"]
    /\ req = [c \in Calls |-> NoRequest]
    /\ at = [c \in Calls |-> 0]
    /\ seen = [c \in Calls |-> Nothing]
    /\ faults = 0

-----------------------------------------------------------------------------
(* Rows and locks.                                                         *)
TheProject == <<"project">>

RowOf(r) ==
    IF r.op \in {"join", "revoke", "extend"} THEN <<"invite", r.of>>
    ELSE IF r.op = "remove" THEN <<"member", r.of>>
    ELSE IF r.op = "set_project" THEN TheProject
    ELSE <<"artifact", r.of>>

\* Mutant: handlers that return early do not roll back.
HeldUntilDone(c) ==
    IF \/ pc[c] \in {"count", "lock_project", "write"}
       \/ pc[c] = "refused" /\ req[c].op \in {"join", "revoke", "extend", "remove"}
    THEN {RowOf(req[c])} ELSE {}

\* Mutant: the PATCH locks FOR UPDATE OF the artifact.
HeldOfArtifact(c) ==
    IF pc[c] \in {"count", "lock_project", "write"} THEN {RowOf(req[c])} ELSE {}

\* The rows c has locked; the PATCH locks the artifact and then the project it
\* is joined with.
Held(c) ==
    IF pc[c] \in {"count", "lock_project", "write"}
    THEN {RowOf(req[c])} \cup (IF Do(c, "patch", "write") THEN {TheProject} ELSE {})
    ELSE {}

Free(c, row) == \A d \in Calls \ {c} : row \notin Held(d)

-----------------------------------------------------------------------------
(* Before the transaction.                                                 *)
FirstStep(op) ==
    IF op = "join" THEN "lock"
    ELSE IF op = "signup" THEN "gate"
    ELSE IF op = "boot" THEN "ensure" ELSE "authorize"

\* Only who has been sent the invite can accept it.
Handed(i) == i \in Seeds \cup {d \in Calls : pc[d] = "accepted" /\ req[d].op = "issue"}

Submit(c) ==
    /\ pc[c] = "idle"
    /\ \E r \in Requests[c] :
         /\ r.op = "join" => Handed(r.of)
         /\ req' = [req EXCEPT ![c] = r]
         /\ Goto(c, FirstStep(r.op))
    /\ at' = [at EXCEPT ![c] = now]
    /\ UNCHANGED <<data, now, seen, faults>>

\* ResolveProject.
RoleOf(u) == IF u \in Loopback THEN "owner" ELSE role[u]

Permitted(r) ==
    \/ RoleOf(r.who) = "owner"
    \/ r.op = "remove" /\ r.of = r.who /\ RoleOf(r.who) # "none"

AfterAuthorize(op) ==
    IF op = "issue" THEN "insert"
    ELSE IF op \in {"set_artifact", "set_all"} THEN "cap"
    ELSE IF op = "patch" THEN "snapshot" ELSE "lock"

Authorize(c) ==
    /\ pc[c] = "authorize"
    /\ Goto(c, IF Permitted(req[c]) THEN AfterAuthorize(req[c].op) ELSE "refused")
    /\ at' = [at EXCEPT ![c] = now]
    /\ UNCHANGED <<data, now, req, seen, faults>>

Rank == [public |-> 0, org |-> 1, private |-> 2]
Allowed(container, t) == Rank[t] >= Rank[container]

\* artifact.set_visibility reads the project's visibility through the pool.
CheckCap(c) ==
    /\ pc[c] = "cap"
    /\ Answer(c, IF ~Allowed(project, req[c].tier) THEN "refused"
                 ELSE IF req[c].op = "set_all" THEN "set_all" ELSE "snapshot")

\* The GitHub callback's gate, and then GitHub's answer.
FirstOwnerGate(c) ==
    /\ pc[c] = "gate"
    /\ Answer(c, IF \E u \in Users : role[u] = "owner" THEN "refused" ELSE "exchange")

Exchange(c) == pc[c] = "exchange" /\ Answer(c, "ensure")

\* EnsureDefaultProjectOwnerMembership.
EnsureOwner(c) ==
    /\ pc[c] = "ensure"
    /\ Free(c, TheProject)
    /\ role' = [role EXCEPT ![req[c].who] = IF @ = "none" THEN "owner" ELSE @]
    /\ Goto(c, "accepted")
    /\ UNCHANGED <<invites, project, tier, revisions, now, req, at, seen, faults>>

\* Mutant: an invite is good until its expiry, inclusive.
InactiveAfter(inv, t) == inv.used \/ (~inv.permanent /\ t > inv.expires)

Inactive(inv, t) == inv.used \/ (~inv.permanent /\ t >= inv.expires)

\* The INSERT of an invite, which stays whatever becomes of the call.
Issue(c) ==
    /\ pc[c] = "insert"
    /\ Free(c, TheProject)
    /\ invites' = [invites EXCEPT ![c] =
                     [there |-> TRUE, used |-> FALSE, role |-> req[c].role,
                      permanent |-> req[c].permanent, expires |-> at[c] + req[c].expires]]
    /\ Goto(c, "lookup")
    /\ UNCHANGED <<role, project, tier, revisions, now, req, at, seen, faults>>

\* Issue reads its invite again, without a lock and by a clock of its own: one
\* that has been revoked or has expired meanwhile is not handed out.
Lookup(c) ==
    /\ pc[c] = "lookup"
    /\ Answer(c, IF Inactive(invites[c], now) THEN "refused"
                 ELSE IF req[c].permanent THEN "audit" ELSE "accepted")

\* The audit event of a permanent invite and of an extension, by itself.
Audit(c) ==
    /\ pc[c] = "audit"
    /\ Free(c, TheProject)
    /\ Answer(c, "accepted")

\* setVisibilityBulk.  recordVisibilityChange runs on the connection that the
\* rows of the locking SELECT are still read from: any row there is, it fails.
SetAll(c) ==
    LET others == {a \in Artifacts : tier[a] # req[c].tier}
    IN  /\ pc[c] = "set_all"
        /\ req[c].confirm => \A a \in others : Free(c, <<"artifact", a>>)
        /\ Answer(c, IF req[c].confirm /\ others # {} THEN "failed" ELSE "accepted")

-----------------------------------------------------------------------------
(* The transactions.                                                       *)

\* The subquery of the locking SELECT: what the statement's snapshot shows.
Snapshot(c) ==
    /\ pc[c] = "snapshot"
    /\ seen' = [seen EXCEPT ![c].last = Len(revisions[req[c].of])]
    /\ Goto(c, "lock")
    /\ UNCHANGED <<data, now, req, at, faults>>

\* Mutant: load without FOR UPDATE.
FreeUnlessInvite(c) ==
    req[c].op \in {"join", "revoke", "extend"} \/ Free(c, RowOf(req[c]))

RowIsFree(c) == Free(c, RowOf(req[c]))

\* Mutant: an expired invite is extended too.
RefusesUsed(c, inv) ==
    \/ req[c].op = "join" /\ Inactive(inv, at[c])
    \/ req[c].op = "extend" /\ (inv.used \/ (inv.permanent /\ ~req[c].permanent))
    \/ req[c].op = "revoke" /\ inv.used

\* What the handler answers without writing.
Refuses(c, inv) ==
    \/ req[c].op = "join" /\ Inactive(inv, at[c])
    \/ req[c].op = "extend" /\ (Inactive(inv, at[c]) \/ (inv.permanent /\ ~req[c].permanent))
    \/ req[c].op = "revoke" /\ inv.used

LockInvite(c) ==
    /\ pc[c] = "lock" /\ req[c].op \in {"join", "revoke", "extend"}
    /\ RowIsFree(c)
    /\ LET inv == invites[req[c].of]
       IN  /\ seen' = [seen EXCEPT ![c].invite = inv]
           /\ Goto(c, IF ~inv.there \/ Refuses(c, inv) THEN "refused" ELSE "write")
    /\ UNCHANGED <<data, now, req, at, faults>>

LockMember(c) ==
    /\ Do(c, "remove", "lock")
    /\ IF role[req[c].of] = "none" THEN Answer(c, "refused")
       ELSE /\ RowIsFree(c)
            /\ Answer(c, IF role[req[c].of] = "owner" THEN "count" ELSE "write")

\* The count locks no row.
CountOwners(c) ==
    /\ pc[c] = "count"
    /\ Answer(c, IF Cardinality({u \in Users : role[u] = "owner"}) <= 1
                 THEN "refused" ELSE "write")

LockProject(c) ==
    /\ Do(c, "set_project", "lock")
    /\ RowIsFree(c)
    /\ Answer(c, IF project = req[c].tier THEN "accepted" ELSE "write")

\* Mutant: the head is updated before the revision's transaction.
LockArtifactAndUpdate(c) ==
    /\ pc[c] = "lock" /\ req[c].op \in {"set_artifact", "patch"}
    /\ RowIsFree(c)
    /\ seen' = [seen EXCEPT ![c].tier = tier[req[c].of]]
    /\ tier' = [tier EXCEPT ![req[c].of] = IF req[c].op = "patch" THEN @ ELSE req[c].tier]
    /\ Goto(c, IF req[c].op = "patch" THEN "lock_project"
               ELSE IF tier[req[c].of] = req[c].tier THEN "accepted" ELSE "write")
    /\ UNCHANGED <<role, invites, project, revisions, now, req, at, faults>>

LockArtifact(c) ==
    /\ pc[c] = "lock" /\ req[c].op \in {"set_artifact", "patch"}
    /\ RowIsFree(c)
    /\ seen' = [seen EXCEPT ![c].tier = tier[req[c].of]]
    /\ Goto(c, IF req[c].op = "patch" THEN "lock_project"
               ELSE IF tier[req[c].of] = req[c].tier THEN "accepted" ELSE "write")
    /\ UNCHANGED <<data, now, req, at, faults>>

LockProjectToo(c) ==
    /\ pc[c] = "lock_project"
    /\ Free(c, TheProject)
    /\ Answer(c, IF ~Allowed(project, req[c].tier) THEN "refused"
                 ELSE IF seen[c].tier = req[c].tier THEN "accepted" ELSE "write")

-----------------------------------------------------------------------------
\* The membership's upsert waits for who is about to remove the member.
Admit(c) ==
    /\ Do(c, "join", "write")
    /\ Free(c, <<"member", req[c].who>>) /\ Free(c, TheProject)
    /\ invites' = [invites EXCEPT ![req[c].of].used = TRUE]
    /\ role' = [role EXCEPT ![req[c].who] = seen[c].invite.role]
    /\ Goto(c, "accepted")
    /\ UNCHANGED <<project, tier, revisions, now, req, at, seen, faults>>

Revoke(c) ==
    /\ Do(c, "revoke", "write")
    /\ invites' = [invites EXCEPT ![req[c].of].used = TRUE]
    /\ Goto(c, "accepted")
    /\ UNCHANGED <<role, project, tier, revisions, now, req, at, seen, faults>>

\* Mutant: the extension is subtracted.
ExtendedBackwards(inv, t, permanent) ==
    IF permanent THEN [inv EXCEPT !.permanent = TRUE]
    ELSE [inv EXCEPT !.expires = t - Extension]

Extended(inv, t, permanent) ==
    IF permanent THEN [inv EXCEPT !.permanent = TRUE]
    ELSE [inv EXCEPT !.expires = (IF inv.expires > t THEN inv.expires ELSE t) + Extension]

Extend(c) ==
    /\ Do(c, "extend", "write")
    /\ LET next == Extended(seen[c].invite, at[c], req[c].permanent)
       IN  invites' = [invites EXCEPT ![req[c].of].permanent = next.permanent,
                                      ![req[c].of].expires = next.expires]
    /\ Goto(c, "audit")
    /\ UNCHANGED <<role, project, tier, revisions, now, req, at, seen, faults>>

Remove(c) ==
    /\ Do(c, "remove", "write")
    /\ role' = [role EXCEPT ![req[c].of] = "none"]
    /\ Goto(c, "accepted")
    /\ UNCHANGED <<invites, project, tier, revisions, now, req, at, seen, faults>>

SetProject(c) ==
    /\ Do(c, "set_project", "write")
    /\ project' = req[c].tier
    /\ Goto(c, "accepted")
    /\ UNCHANGED <<role, invites, tier, revisions, now, req, at, seen, faults>>

\* The revision, the head and the event; the number of the revision may be taken.
SetArtifact(c) ==
    LET a == req[c].of
    IN  /\ pc[c] = "write" /\ req[c].op \in {"set_artifact", "patch"}
        /\ Free(c, TheProject)
        /\ IF Len(revisions[a]) = seen[c].last
           THEN /\ revisions' = [revisions EXCEPT ![a] =
                                   Append(@, [from |-> seen[c].tier, to |-> req[c].tier])]
                /\ tier' = [tier EXCEPT ![a] = req[c].tier]
                /\ Goto(c, "accepted")
           ELSE Goto(c, "failed") /\ UNCHANGED <<revisions, tier>>
        /\ UNCHANGED <<role, invites, project, now, req, at, seen, faults>>

-----------------------------------------------------------------------------
\* The next statement fails, or the server dies before it: a transaction that is
\* open is undone, and what has been committed stays.
Fault(c) ==
    /\ pc[c] \in Outside \cup Inside
    /\ faults < MaxFaults
    /\ faults' = faults + 1
    /\ Goto(c, "failed")
    /\ UNCHANGED <<data, now, req, at, seen>>

Tick ==
    /\ now < MaxTime
    /\ now' = now + 1
    /\ UNCHANGED <<data, pc, req, at, seen, faults>>

Step(c) ==
    \/ Authorize(c) \/ CheckCap(c) \/ FirstOwnerGate(c) \/ Exchange(c) \/ EnsureOwner(c)
    \/ Issue(c) \/ Lookup(c) \/ Audit(c) \/ SetAll(c) \/ Snapshot(c)
    \/ LockInvite(c) \/ LockMember(c) \/ CountOwners(c)
    \/ LockProject(c) \/ LockArtifact(c) \/ LockProjectToo(c)
    \/ Admit(c) \/ Revoke(c) \/ Extend(c) \/ Remove(c) \/ SetProject(c) \/ SetArtifact(c)

Next == Tick \/ \E c \in Calls : Submit(c) \/ Step(c) \/ Fault(c)

Spec == Init /\ [][Next]_vars

\* The server does not stop while a handler can go on, and PostgreSQL wakes the
\* one that waits.
FairSpec == Spec /\ WF_vars(\E c \in Calls : Step(c))

-----------------------------------------------------------------------------
\* The tables and the handlers' variables have their types.
TypeOK ==
    /\ role \in [Users -> Roles]
    /\ invites \in [Invites -> InviteRows]
    /\ project \in Tiers
    /\ tier \in [Artifacts -> Tiers]
    /\ revisions \in [Artifacts -> Seq([from : Tiers, to : Tiers])]
    /\ now \in 0 .. MaxTime
    /\ pc \in [Calls -> PCs]
    /\ req \in [Calls -> AllRequests \cup {NoRequest}]
    /\ at \in [Calls -> Nat]
    /\ seen \in [Calls -> Seen]
    /\ faults \in 0 .. MaxFaults

Settles(c, i) ==
    pc[c] = "accepted" /\ req[c].op \in {"join", "revoke"} /\ req[c].of = i

\* "the same lookup path that rejects already-consumed tokens also rejects
\* revoked ones" (invites.go:423): of the joins and revocations of an invite, at
\* once or one after the other, exactly one succeeds, and the invite is used up
\* exactly when one has; one that breaks off leaves it usable.
InviteSettledOnce ==
    \A i \in Invites :
        /\ \A c, d \in Calls : Settles(c, i) /\ Settles(d, i) => c = d
        /\ invites[i].used <=> \E c \in Calls : Settles(c, i)

\* "Already-permanent invites cannot be shortened" (invites.go:352): whatever
\* overlaps, no step takes back an extension that was granted, and an invite
\* that is used up is extended no more.
ExtensionsAreKept ==
    [][\A i \in Invites :
          invites[i].there =>
            /\ invites[i].permanent => invites'[i].permanent
            /\ invites'[i].expires >= invites[i].expires
            /\ invites[i].used => invites'[i] = invites[i]]_vars

\* Whoever accepts did so in time, even if the lock came late: the expiry the
\* invite ends up with is after the time of the request.
JoinedInTime ==
    \A c \in Calls : \A i \in Invites :
        Settles(c, i) /\ req[c].op = "join" =>
            invites[i].permanent \/ at[c] < invites[i].expires

\* The HTTP PATCH never makes an artifact broader than its project is at that
\* moment, whoever changes the project meanwhile (artifact_visibility.go:146).
PatchKeepsCap ==
    [][\A c \in Calls :
          Do(c, "patch", "write") /\ pc'[c] = "accepted" =>
              Allowed(project', tier'[req[c].of])]_vars

\* The revisions tell the whole history of an artifact's visibility: each leads
\* from the tier the one before led to, none to the tier it came from, and the
\* last to the tier there is (artifact_set_visibility.go:341).
HistoryIsComplete ==
    \A a \in Artifacts :
        LET r == revisions[a]
        IN  /\ \A n \in 1 .. Len(r) : r[n].from # r[n].to
            /\ \A n \in 1 .. Len(r) - 1 : r[n].to = r[n + 1].from
            /\ r = <<>> => tier[a] = SeedTiers[a]
            /\ r # <<>> => r[1].from = SeedTiers[a] /\ r[Len(r)].to = tier[a]

\* Every call ends: those that wait for a row never wait for each other.
EveryCallEnds == <>[](\A c \in Calls : pc[c] \in {"idle"} \cup Ended)

\* What the caller of a call that has come this far can know of it.
Status(l) ==
    IF l = "accepted" THEN "accepted"
    ELSE IF l \in {"lookup", "audit"} THEN "applied"
    ELSE IF l \in {"refused", "failed"} THEN "failed" ELSE "open"

\* Whoever is told of success has had its effect once, at one instant, on the
\* rows as they were then and at the time the call went by; what was read
\* before the locks does not show.  A call that fails has changed nothing,
\* unless what it issued or extended was to be looked up or recorded in the
\* audit log afterwards (invites.go:101, members.go:269): that stays.
Tables == INSTANCE AccessTables
    WITH role <- role, invites <- invites, project <- project, tier <- tier,
         revisions <- revisions, now <- now, req <- req, at <- at,
         status <- [c \in Calls |-> Status(pc[c])]
ImplementsAccess == Tables!Spec

\* "a concurrent owner removal cannot fool both checks into seeing 2 owners"
\* (members.go:133): removals leave a project with an owner its owner.
ProjectKeepsOwner ==
    [][(\E u \in Users : role[u] = "owner") => \E u \in Users : role'[u] = "owner"]_vars

\* "the operator re-runs with confirm=true to actually apply"
\* (artifact_set_visibility.go:59): without an error of the database, a
\* confirmed call is not lost.
BulkApplies ==
    \A c \in Calls : req[c].op = "set_all" /\ pc[c] = "failed" => faults > 0

=============================================================================
