--------------------------- MODULE MCProjectAccess ---------------------------
(***************************************************************************)
(* Instances of ProjectAccess for TLC.                                     *)
(***************************************************************************)
EXTENDS ProjectAccess, TLC

CONSTANTS ann, bob, cy, c1, c2, c3, sent, doc

Invite(o, u, i) == [op |-> o, who |-> u, of |-> i]
Extending(i, p) == [op |-> "extend", who |-> ann, of |-> i, permanent |-> p]
Removing(u, v) == [op |-> "remove", who |-> u, of |-> v]
Owning(o, u) == [op |-> o, who |-> u]
Project(t) == [op |-> "set_project", who |-> ann, tier |-> t]
Artifact(o, t) == [op |-> o, who |-> ann, of |-> doc, tier |-> t]
All(t, b) == [op |-> "set_all", who |-> ann, tier |-> t, confirm |-> b]
Issuing(b) == [op |-> "issue", who |-> bob, role |-> "editor", permanent |-> b, expires |-> 1]

\* Two owners, or one owner and a viewer, or nobody yet.
Founders ==
    {[u \in Users |-> "none"]} \cup {[u \in Users |-> IF u = cy THEN "none" ELSE IF u = bob THEN r ELSE "owner"]
               : r \in {"owner", "viewer"}}

OneInvite == [i \in Seeds |-> [there |-> TRUE, used |-> FALSE, role |-> "viewer",
                               permanent |-> FALSE, expires |-> 1]]
OneDoc == [a \in Artifacts |-> "org"]

\* Each call meets the others at the invite, the members, the project and the
\* artifact.
MeetingRequests ==
    c1 :> {Invite("join", cy, sent), Extending(sent, FALSE), Removing(ann, bob),
           Project("private"), Issuing(TRUE), Issuing(FALSE), Artifact("patch", "public")}
 @@ c2 :> {Invite("join", bob, sent), Extending(sent, TRUE), Removing(bob, ann),
           Invite("join", cy, c1), Owning("signup", cy),
           Artifact("set_artifact", "private"), All("public", TRUE)}
 @@ c3 :> {Invite("revoke", ann, sent), Removing(ann, ann), Invite("revoke", bob, c1),
           Owning("boot", cy), Artifact("patch", "public"), All("private", FALSE)}

RemoveRequestsOnly ==
    c1 :> {Removing(ann, bob), Removing(ann, ann)}
 @@ c2 :> {Removing(bob, ann), Removing(bob, bob)} @@ c3 :> {Removing(ann, bob)}

BulkRequestsOnly ==
    c1 :> {All("private", TRUE), All("private", FALSE)}
 @@ c2 :> {Artifact("set_artifact", "private")} @@ c3 :> {}

=============================================================================
