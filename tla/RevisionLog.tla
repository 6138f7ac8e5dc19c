----------------------------- MODULE RevisionLog -----------------------------
(***************************************************************************)
(* What the artifact store promises its clients: every accepted request    *)
(* happens at one instant, against the row it finds at that instant, and   *)
(* adds exactly one revision, the next one.  There is no request in        *)
(* flight, no stale read, no lock and no rollback here: ArtifactRevisions  *)
(* is the code, and is shown to implement this.                            *)
(***************************************************************************)
EXTENDS TaskArtifact

CONSTANTS Callers,   \* the identities of the requests' senders
          Requests   \* what they may ask

VARIABLES head,      \* the artifacts table
          revs       \* artifact_revisions: revision_number -> row, per artifact

vars == <<head, revs>>

\* max(revision_number); migration 0017 leaves no artifact without a revision.
Latest(log) == CHOOSE n \in DOMAIN log : \A m \in DOMAIN log : m <= n

Extend(log, n, r) == [m \in DOMAIN log \cup {n} |-> IF m = n THEN r ELSE log[m]]

\* What the create path leaves behind: the artifacts row and revision 1.
InitialLog(row) ==
    [n \in {1} |-> [shape |-> "body_patch", body |-> row.body, by |-> "create"]]

Init ==
    /\ head \in [Artifacts -> {row \in Heads : row.life = "active"}]
    /\ revs = [a \in Artifacts |-> InitialLog(head[a])]

\* Request q of caller who takes effect on the artifacts of S: one artifact,
\* except for the sweep, which closes any number of tasks in one transaction.
Accept(who, q, S) ==
    /\ ~DryRun(q)
    /\ \A a \in S : VersionAgrees(q, Latest(revs[a])) /\ Admits(q, head[a])
    /\ head' = [a \in Artifacts |->
                  IF a \in S THEN NewHead(q, head[a], head[a]) ELSE head[a]]
    /\ revs' = [a \in Artifacts |->
                  IF a \in S /\ q.op # "supersede"
                  THEN Extend(revs[a], Latest(revs[a]) + 1, Revision(q, head[a], who))
                  ELSE revs[a]]

Next == \E who \in Callers, q \in Requests : \E S \in SUBSET Targets(q) : Accept(who, q, S)

Spec == Init /\ [][Next]_vars

=============================================================================
