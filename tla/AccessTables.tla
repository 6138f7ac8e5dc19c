----------------------------- MODULE AccessTables -----------------------------
(***************************************************************************)
(* What the handlers of invites, members and visibility promise to those   *)
(* who call them: a call that is told it has succeeded has had its effect  *)
(* once, at one instant, on the rows as they were then, or has found there *)
(* what it asked for; one that has failed has changed nothing.  Only the   *)
(* issue and the extension of an invite have something left to do once     *)
(* they have taken effect, and may fail then with the effect in place.     *)
(* There is no row read early, no lock and no rollback here: ProjectAccess *)
(* is the code, and implements this.                                       *)
(*                                                                         *)
(* Not promised, because a handler decides it before it holds the row:     *)
(* that the caller is still allowed to ask, that the project keeps an      *)
(* owner, and that artifact.set_visibility stays within the project's cap. *)
(***************************************************************************)
EXTENDS Integers, Sequences

CONSTANTS Calls, Seeds, Artifacts, Requests,
          SeedRoles, SeedInvites, SeedProject, SeedTiers, Extension, MaxTime

VARIABLES role, invites, project, tier, revisions, now,
          req, at,    \* what a call asks for, and the time it goes by
          status      \* what its caller can know of it

tables == <<role, invites, project, tier, revisions>>
vars == <<tables, now, req, at, status>>

Unissued == [there |-> FALSE, used |-> FALSE, role |-> "viewer",
             permanent |-> FALSE, expires |-> 0]

Init ==
    /\ role \in SeedRoles
    /\ invites = [i \in Calls \cup Seeds |-> IF i \in Seeds THEN SeedInvites[i] ELSE Unissued]
    /\ project = SeedProject
    /\ tier = SeedTiers
    /\ revisions = [a \in Artifacts |-> <<>>]
    /\ now = 0
    /\ req = [c \in Calls |-> [op |-> "none"]]
    /\ at = [c \in Calls |-> 0]
    /\ status = [c \in Calls |-> "open"]

Unused(inv) == inv.there /\ ~inv.used
Usable(inv, t) == Unused(inv) /\ (inv.permanent \/ t < inv.expires)
Later(s, t) == IF s > t THEN s ELSE t

\* What an artifact of a project may be.
Within == [public |-> {"public", "org", "private"}, org |-> {"org", "private"},
           private |-> {"private"}]

-----------------------------------------------------------------------------
\* The call's own invite, once.
Issue(c, r, t) ==
    /\ r.op = "issue" /\ ~invites[c].there
    /\ invites' = [invites EXCEPT ![c] = [there |-> TRUE, used |-> FALSE, role |-> r.role,
                                          permanent |-> r.permanent, expires |-> t + r.expires]]
    /\ UNCHANGED <<role, project, tier, revisions>>

\* The invite is used up and its user becomes what it offers, together.
Join(r, t) ==
    /\ r.op = "join" /\ Usable(invites[r.of], t)
    /\ invites' = [invites EXCEPT ![r.of].used = TRUE]
    /\ role' = [role EXCEPT ![r.who] = invites[r.of].role]
    /\ UNCHANGED <<project, tier, revisions>>

\* Also of an invite that has expired.
Revoke(r) ==
    /\ r.op = "revoke" /\ Unused(invites[r.of])
    /\ invites' = [invites EXCEPT ![r.of].used = TRUE]
    /\ UNCHANGED <<role, project, tier, revisions>>

\* From the expiry there is, or from the time of the request if that is later.
Extend(r, t) ==
    LET inv == invites[r.of]
    IN  /\ r.op = "extend" /\ Usable(inv, t) /\ (inv.permanent => r.permanent)
        /\ invites' = [invites EXCEPT ![r.of] =
                         IF r.permanent THEN [inv EXCEPT !.permanent = TRUE]
                         ELSE [inv EXCEPT !.expires = Later(inv.expires, t) + Extension]]
        /\ UNCHANGED <<role, project, tier, revisions>>

Remove(r) ==
    /\ r.op = "remove"
    /\ role' = [role EXCEPT ![r.of] = "none"]
    /\ UNCHANGED <<invites, project, tier, revisions>>

OwnFirst(r) ==
    /\ r.op \in {"signup", "boot"} /\ role[r.who] = "none"
    /\ role' = [role EXCEPT ![r.who] = "owner"]
    /\ UNCHANGED <<invites, project, tier, revisions>>

SetProject(r) ==
    /\ r.op = "set_project" /\ project # r.tier
    /\ project' = r.tier
    /\ UNCHANGED <<role, invites, tier, revisions>>

Fits(r) == r.op = "set_artifact" \/ (r.op = "patch" /\ r.tier \in Within[project])

\* One revision that says what changed, with the change.
SetArtifact(r) ==
    /\ Fits(r) /\ tier[r.of] # r.tier
    /\ tier' = [tier EXCEPT ![r.of] = r.tier]
    /\ revisions' = [revisions EXCEPT ![r.of] = Append(@, [from |-> tier[r.of], to |-> r.tier])]
    /\ UNCHANGED <<role, invites, project>>

\* What was asked for is there already, or was only to be looked at.
Already(r) ==
    /\ \/ r.op \in {"signup", "boot"} /\ role[r.who] # "none"
       \/ r.op = "set_project" /\ project = r.tier
       \/ Fits(r) /\ tier[r.of] = r.tier
       \/ r.op = "set_all" /\ (~r.confirm \/ \A a \in Artifacts : tier[a] = r.tier)
    /\ UNCHANGED tables

-----------------------------------------------------------------------------
\* A call comes, or goes by the time it is now.
Ask(c) ==
    /\ status[c] = "open"
    /\ \/ req[c].op = "none" /\ \E r \in Requests[c] : req' = [req EXCEPT ![c] = r]
       \/ req[c].op # "none" /\ UNCHANGED req
    /\ at' = [at EXCEPT ![c] = now]
    /\ UNCHANGED <<tables, now, status>>

\* The effect is not yet the answer: an invite that was issued is looked up
\* again, and a permanent one and an extension have an audit event.
AnsweredLater(r) == r.op \in {"issue", "extend"}

Apply(c, r, t) ==
    /\ status[c] = "open"
    /\ \/ Issue(c, r, t) \/ Join(r, t) \/ Revoke(r) \/ Extend(r, t) \/ Remove(r) \/ OwnFirst(r)
       \/ SetProject(r) \/ SetArtifact(r) \/ Already(r)
    /\ status' = [status EXCEPT ![c] = IF AnsweredLater(r) THEN "applied" ELSE "accepted"]
    /\ UNCHANGED <<now, req, at>>

\* Whoever is handed an invite without an audit event can use it at that moment.
Succeed(c) ==
    /\ status[c] = "applied"
    /\ req[c].op = "issue" /\ ~req[c].permanent => Usable(invites[c], now)
    /\ status' = [status EXCEPT ![c] = "accepted"]
    /\ UNCHANGED <<tables, now, req, at>>

\* An answer other than success; what has been applied stays.
Fail(c) ==
    /\ status[c] \in {"open", "applied"} /\ req[c].op # "none"
    /\ status' = [status EXCEPT ![c] = "failed"]
    /\ \E t \in {at[c], now} : at' = [at EXCEPT ![c] = t]
    /\ UNCHANGED <<tables, now, req>>

Tick ==
    /\ now < MaxTime /\ now' = now + 1
    /\ UNCHANGED <<tables, req, at, status>>

Next == Tick \/ \E c \in Calls : Ask(c) \/ Apply(c, req[c], at[c]) \/ Succeed(c) \/ Fail(c)

Spec == Init /\ [][Next]_vars

=============================================================================
