---------------------------- MODULE TaskArtifact ----------------------------
(***************************************************************************)
(* The data a Task artifact carries, and what each tool makes of it.       *)
(*                                                                         *)
(* A body is reduced to its acceptance checklist: the marker of every      *)
(* checkbox, or NoBox where the body has no such checkbox.  task_meta is   *)
(* reduced to status and assignee, of which "" is an absent JSON key.      *)
(* `life' is the row status: active is published or stale.                 *)
(*                                                                         *)
(* Everything here is a pure operator: the concurrent module               *)
(* ArtifactRevisions and its specification RevisionLog share it.           *)
(***************************************************************************)
EXTENDS Naturals

CONSTANTS Artifacts,   \* the artifacts.id values of one project
          Items,       \* positions a checkbox can have in a body
          Agents,      \* assignee values
          Areas        \* areas of the project that accept artifacts

ASSUME NonEmpty == Artifacts # {} /\ Items # {} /\ Areas # {}

-----------------------------------------------------------------------------
(* Bodies and the checkbox algorithms of checkbox.go.                      *)

Open == "[ ]"
Done == "[x]"
Partial == "[~]"
Deferred == "[-]"
NoBox == "none"

Markers == {Open, Done, Partial, Deferred}
Bodies == [Items -> Markers \cup {NoBox}]

HasBoxes(body) == \E i \in Items : body[i] # NoBox

\* countAcceptanceResolution: [~] and [-] are judgment calls that count as
\* resolved; only [ ] does not.
Resolved(body) == \A i \in Items : body[i] # Open

MarkUncheckedAsDone(body) ==
    [i \in Items |-> IF body[i] = Open THEN Done ELSE body[i]]

-----------------------------------------------------------------------------
(* task_meta.                                                              *)

Statuses == {"open", "claimed_done", "blocked", "cancelled"}
TaskMetas == [status : Statuses \cup {""}, assignee : Agents \cup {""}]

\* A field of a task_meta argument is Keep when the caller did not send it and
\* "" when the caller sent an explicit clear.
Keep == "keep"
MetaPatches == [status : Statuses \cup {"", Keep}, assignee : Agents \cup {"", Keep}]
NoPatch == [status |-> Keep, assignee |-> Keep]

\* jsonb_strip_nulls(task_meta || patch): the meta_patch writers merge.
Merge(meta, patch) ==
    [status   |-> IF patch.status = Keep THEN meta.status ELSE patch.status,
     assignee |-> IF patch.assignee = Keep THEN meta.assignee ELSE patch.assignee]

\* Mutant: an unset field is stored as it came.
TaskMetaToJSONRaw(patch) == patch

\* COALESCE($8, task_meta) over taskMetaToJSON: the body writers replace the
\* whole object, so a field the caller did not send is gone.
TaskMetaToJSON(patch) == Merge([status |-> "", assignee |-> ""], patch)

Claimed(meta) == [meta EXCEPT !.status = "claimed_done"]

\* Mutant: the status check is gone.
ShouldAutoClaimAnyStatus(meta, body) == HasBoxes(body) /\ Resolved(body)

ShouldAutoClaimDone(meta, body) ==
    /\ meta.status \in {"", "open"}
    /\ HasBoxes(body)
    /\ Resolved(body)

-----------------------------------------------------------------------------
(* The artifacts row, and the requests that write it.                      *)

Heads == [body : Bodies, meta : TaskMetas, area : Areas,
          life : {"active", "superseded"}]

\* artifact.propose with update_of.  `patched' says the caller sent a
\* body_patch (or an acceptance shape) instead of a whole body_markdown;
\* `body' is then the body the patch materialises to.
BodyRequests ==
    [op : {"body"}, art : Artifacts, ver : Nat, body : Bodies,
     patched : BOOLEAN, meta : MetaPatches, dry : BOOLEAN]
\* task.acceptance_transition, and the acceptance shapes of artifact.propose.
AcceptRequests ==
    [op : {"accept"}, art : Artifacts, ver : Nat, item : Items, marker : Markers]
\* artifact.propose shape=meta_patch, task.assign and task.bulk_assign.
MetaRequests ==
    [op : {"meta"}, art : Artifacts, ver : Nat, meta : MetaPatches, dry : BOOLEAN]
\* The HTTP task-meta and task-assign routes; ver = 0 is useCurrentHead.
HttpRequests ==
    [op : {"http"}, art : Artifacts, ver : Nat, meta : MetaPatches]
\* task.claim_done, which takes no expected_version.
ClaimRequests == [op : {"claim"}, art : Artifacts]
\* artifact.set_area of one artifact; ver = 0 is no expected_version.
AreaRequests == [op : {"area"}, art : Artifacts, ver : Nat, area : Areas]
\* The reconcile sweep that pindoc.ping runs over the whole project.
SweepRequests == [op : {"sweep"}]
\* supersede_of of a create, which updates the target row and writes no
\* revision for it.
SupersedeRequests == [op : {"supersede"}, art : Artifacts]

AllRequests == BodyRequests \cup AcceptRequests \cup MetaRequests
               \cup HttpRequests \cup ClaimRequests \cup AreaRequests
               \cup SweepRequests \cup SupersedeRequests

Targets(q) == IF q.op = "sweep" THEN Artifacts ELSE {q.art}

DryRun(q) == q.op \in {"body", "meta"} /\ q.dry

-----------------------------------------------------------------------------
(* What an accepted request writes.  `seen' is the row the handler read    *)
(* before its transaction, `row' the row its UPDATE finds.                 *)

NewBody(q, seen) ==
    IF q.op = "body" THEN q.body
    ELSE IF q.op = "accept" THEN [seen.body EXCEPT ![q.item] = q.marker]
    ELSE IF q.op = "claim" THEN MarkUncheckedAsDone(seen.body)
    ELSE seen.body

AutoClaims(q, seen) ==
    q.op \in {"body", "accept"} /\ ShouldAutoClaimDone(seen.meta, NewBody(q, seen))

\* The automatic claim takes precedence over a task_meta that was sent along.
NewMeta(q, seen, row) ==
    IF q.op \in {"claim", "sweep"} \/ AutoClaims(q, seen) THEN Claimed(row.meta)
    ELSE IF q.op = "body" /\ q.meta # NoPatch THEN TaskMetaToJSON(q.meta)
    ELSE IF q.op \in {"meta", "http"} THEN Merge(row.meta, q.meta)
    ELSE row.meta

\* Mutant: claim_done never writes the body column.
WritesBodyNotOnClaim(q, seen) == q.op \in {"body", "accept"}

\* claim_done writes the body column only when it toggled a checkbox.
WritesBody(q, seen) ==
    \/ q.op \in {"body", "accept"}
    \/ q.op = "claim" /\ NewBody(q, seen) # seen.body

NewHead(q, seen, row) ==
    [body  |-> IF WritesBody(q, seen) THEN NewBody(q, seen) ELSE row.body,
     meta  |-> NewMeta(q, seen, row),
     area  |-> IF q.op = "area" THEN q.area ELSE row.area,
     life  |-> IF q.op = "supersede" THEN "superseded" ELSE row.life]

-----------------------------------------------------------------------------
(* The revision row.  A meta_patch row stores NULL for the body, except    *)
(* the one the reconcile sweep writes.  `by' is the request behind it.     *)

NullBody == [i \in Items |-> "null"]

Revision(q, seen, who) ==
    [shape |-> IF q.op \in {"body", "claim"} THEN "body_patch"
               ELSE IF q.op = "accept" THEN "acceptance_transition"
               ELSE "meta_patch",
     body  |-> IF q.op \in {"meta", "http", "area"} THEN NullBody
               ELSE NewBody(q, seen),
     by    |-> who]

RevisionsBy(S) ==
    [shape : {"body_patch", "acceptance_transition", "meta_patch"},
     body  : Bodies \cup {NullBody}, by : S]

-----------------------------------------------------------------------------
(* The gates of each handler, over the row and revision number it read.    *)

\* Mutant: expected_version is not compared.
VersionIgnored(q, rev) == TRUE

VersionAgrees(q, rev) ==
    /\ q.op \in {"body", "accept", "meta"} => q.ver = rev
    /\ q.op \in {"http", "area"} => q.ver \in {0, rev}

\* The preflight gate on task_meta.status = claimed_done reads body_markdown,
\* which a patched body leaves empty, so it only ever fires for a whole body.
ClaimGate(q) ==
    (q.meta.status = "claimed_done" /\ ~q.patched) => Resolved(q.body)

\* NO_CHANGES: an identical body is an update only with a task_meta.
BodyAdmits(q, row) == ClaimGate(q) /\ (q.body # row.body \/ q.meta # NoPatch)

AcceptAdmits(q, row) == row.body[q.item] \notin {NoBox, q.marker}

\* META_PATCH_EMPTY; a status is reserved for the transition tools.
MetaAdmits(q) == q.meta.status = Keep /\ q.meta # NoPatch

HttpAdmits(q, row) ==
    /\ q.meta # NoPatch
    /\ q.meta.status = "claimed_done" => Resolved(row.body)

ClaimAdmits(row) == row.meta.status \notin {"claimed_done", "cancelled"}

AreaAdmits(q, row) == row.life = "active" /\ row.area # q.area

SweepCandidate(row) ==
    row.meta.status = "open" /\ HasBoxes(row.body) /\ Resolved(row.body)

Admits(q, row) ==
    /\ q.op = "body"   => BodyAdmits(q, row)
    /\ q.op = "accept" => AcceptAdmits(q, row)
    /\ q.op = "meta"   => MetaAdmits(q)
    /\ q.op = "http"   => HttpAdmits(q, row)
    /\ q.op = "claim"  => ClaimAdmits(row)
    /\ q.op = "area"   => AreaAdmits(q, row)
    /\ q.op = "sweep"  => SweepCandidate(row)

=============================================================================
