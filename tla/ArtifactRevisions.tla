-------------------------- MODULE ArtifactRevisions --------------------------
(***************************************************************************)
(* The writers of an artifact: artifact.propose updates, meta_patch, the   *)
(* HTTP task-meta route, task.acceptance_transition, task.claim_done,      *)
(* artifact.set_area, the reconcile sweep and supersede_of.                *)
(*                                                                         *)
(* Each is a handler that runs concurrently with the others, one SQL       *)
(* statement at a time, in READ COMMITTED transactions.  All but set_area  *)
(* read the artifact and max(revision_number) BEFORE the transaction and   *)
(* then write revision max + 1 and a row computed from that read, so what  *)
(* protects them is only UNIQUE (artifact_id, revision_number).            *)
(*                                                                         *)
(* What PostgreSQL contributes, and is modelled from how the code uses it: *)
(*  - an INSERT of a key another transaction has inserted and not yet      *)
(*    committed waits for that transaction, and fails if it commits;       *)
(*  - the revision's foreign key takes KEY SHARE on the artifacts row      *)
(*    after the key is in the index, so it waits for a FOR UPDATE lock;    *)
(*  - an UPDATE waits for the row's other updaters and FOR UPDATE lockers, *)
(*    then works on the newest committed row;                              *)
(*  - SELECT ... FOR UPDATE waits for all three; the row it returns is the *)
(*    newest one, its max(revision_number) subselect is as of the          *)
(*    statement's start, and it returns no row if the one it waited for    *)
(*    no longer joins with the area it had found;                          *)
(*  - a commit or rollback publishes or drops everything at once.          *)
(***************************************************************************)
EXTENDS TaskArtifact, FiniteSets

CONSTANTS Callers,        \* one request each
          Requests,       \* what they may ask
          InitialTasks,   \* the artifacts rows there may be at the start
          MaxTries        \* bound on how often a caller sends its request

ASSUME RequestsAreRequests == Requests \subseteq AllRequests
ASSUME InitialTasksAreRows ==
    /\ InitialTasks \subseteq {row \in Heads : row.life = "active"}
    /\ InitialTasks # {}
ASSUME MaxTriesIsPositive == MaxTries \in Nat \ {0}
ASSUME CreatorIsNoCaller == "create" \notin Callers

VARIABLES
    head,    \* committed artifacts rows
    revs,    \* committed artifact_revisions: number -> row, per artifact
    req,     \* the request a caller sent
    pc,      \* the statement its handler runs next
    seen,    \* what the handler read: artifact -> [rev, row]
    todo,    \* the sweep's candidates it has not come to
    at,      \* the artifact its current statement is about
    ins,     \* artifacts it has inserted a revision of, uncommitted
    rows,    \* its uncommitted artifacts rows: artifact -> row
    share,   \* artifacts whose row it holds KEY SHARE on
    excl,    \* artifacts whose row it holds FOR UPDATE on
    reply,   \* what the caller was told
    tries    \* how often the caller sent the request

table == <<head, revs>>
writes == <<ins, rows, share, excl>>
vars == <<head, revs, req, pc, seen, todo, at, ins, rows, share, excl, reply, tries>>

PCs == {"idle", "select", "lock", "lock_area", "next", "attach", "insert", "fk", "update",
        "area_fk", "finish", "replied"}

NoRequest == [op |-> "none"]
Empty == [a \in {} |-> a]   \* the function with no argument

Snapshots == [rev : Nat, row : Heads]
PartialFcn(f, S, T) == DOMAIN f \subseteq S /\ f \in [DOMAIN f -> T]

Latest(log) == CHOOSE n \in DOMAIN log : \A m \in DOMAIN log : m <= n
Extend(log, n, r) == [m \in DOMAIN log \cup {n} |-> IF m = n THEN r ELSE log[m]]
Bind(f, a, v) == [b \in DOMAIN f \cup {a} |-> IF b = a THEN v ELSE f[b]]

InitialLog(row) ==
    [n \in {1} |-> [shape |-> "body_patch", body |-> row.body, by |-> "create"]]

Init ==
    /\ head \in [Artifacts -> InitialTasks]
    /\ revs = [a \in Artifacts |-> InitialLog(head[a])]
    /\ req = [c \in Callers |-> NoRequest]
    /\ pc = [c \in Callers |-> "idle"]
    /\ seen = [c \in Callers |-> Empty]
    /\ todo = [c \in Callers |-> {}]
    /\ at = [c \in Callers |-> CHOOSE a \in Artifacts : TRUE]
    /\ ins = [c \in Callers |-> {}]
    /\ rows = [c \in Callers |-> Empty]
    /\ share = [c \in Callers |-> {}]
    /\ excl = [c \in Callers |-> {}]
    /\ reply = [c \in Callers |-> "none"]
    /\ tries = [c \in Callers |-> 0]

-----------------------------------------------------------------------------
Goto(c, l) == pc' = [pc EXCEPT ![c] = l]

\* Mutant: a handler that returns early does not roll back.
AnswerOnly(c, r) ==
    /\ Goto(c, "replied")
    /\ reply' = [reply EXCEPT ![c] = r]
    /\ UNCHANGED <<seen, todo, req, at, tries, writes>>

\* The end of a handler: its transaction, if any, is over.
Answer(c, r) ==
    /\ Goto(c, "replied")
    /\ reply' = [reply EXCEPT ![c] = r]
    /\ seen' = [seen EXCEPT ![c] = Empty]
    /\ todo' = [todo EXCEPT ![c] = {}]
    /\ ins' = [ins EXCEPT ![c] = {}]
    /\ rows' = [rows EXCEPT ![c] = Empty]
    /\ share' = [share EXCEPT ![c] = {}]
    /\ excl' = [excl EXCEPT ![c] = {}]
    /\ UNCHANGED <<req, at, tries>>

\* Mutants: a retry skips the number it lost; the number is read in the
\* transaction that writes it.
NewRevPerTry(c, a) == seen[c][a].rev + tries[c]
NewRevInTx(c, a) == Latest(revs[a]) + 1

NewRev(c, a) == seen[c][a].rev + 1

\* Mutants: no unique index; SELECT without FOR UPDATE.
KeyTakenNever(c, a) == {}
RowExclusiveNever(c, a) == {}

\* The waits between transactions.
KeyTaken(c, a) ==
    {d \in Callers \ {c} : a \in ins[d] /\ NewRev(d, a) = NewRev(c, a)}
RowUpdated(c, a) == {d \in Callers \ {c} : a \in DOMAIN rows[d]}
RowExclusive(c, a) == {d \in Callers \ {c} : a \in excl[d]}
RowShared(c, a) == {d \in Callers \ {c} : a \in share[d]}

\* set_area's FOR UPDATE names no table, so it locks the joined areas row, the
\* area the artifact is in; its UPDATE then takes KEY SHARE on the target area.
AreaLocked == {"insert", "fk", "update", "area_fk", "finish"}
AreaExclusive(c, x) ==
    {d \in Callers \ {c} : /\ req[d].op = "area" /\ pc[d] \in AreaLocked
                           /\ seen[d][at[d]].row.area = x}
AreaShared(c, x) ==
    {d \in Callers \ {c} : req[d].op = "area" /\ pc[d] = "finish" /\ req[d].area = x}

WaitsFor(c) ==
    LET a == at[c]
    IN  IF pc[c] = "insert" THEN KeyTaken(c, a)
        ELSE IF pc[c] \in {"attach", "fk"} THEN RowExclusive(c, a)
        ELSE IF pc[c] = "update" THEN RowUpdated(c, a) \cup RowExclusive(c, a)
        ELSE IF pc[c] = "lock"
             THEN RowUpdated(c, a) \cup RowExclusive(c, a) \cup RowShared(c, a)
        ELSE IF pc[c] = "lock_area"
             THEN LET x == seen[c][a].row.area
                  IN  AreaExclusive(c, x) \cup AreaShared(c, x)
        ELSE IF pc[c] = "area_fk" THEN AreaExclusive(c, req[c].area)
        ELSE {}

Granted(c) == WaitsFor(c) = {}

-----------------------------------------------------------------------------
\* A caller sends its request.  It has just read the artifact, so the
\* expected_version it passes is the current one (or none, where none will do).
Submit(c) ==
    /\ pc[c] = "idle"
    /\ \E q \in Requests :
         /\ \A a \in Targets(q) : VersionAgrees(q, Latest(revs[a]))
         /\ req' = [req EXCEPT ![c] = q]
    /\ Goto(c, "select")
    /\ tries' = [tries EXCEPT ![c] = 1]
    /\ UNCHANGED <<table, seen, todo, at, writes, reply>>

\* A caller of claim_done may send evidence and pins, stored before the revision.
FirstWrites(q) ==
    IF q.op = "supersede" THEN {"update"}
    ELSE IF q.op = "claim" THEN {"attach", "insert"}
    ELSE {"insert"}

Snapshot(a) == [rev |-> Latest(revs[a]), row |-> head[a]]

\* The SELECT before the transaction, and every check made on what it returns.
Select(c) ==
    LET q == req[c]
        s == Snapshot(q.art)
    IN  /\ pc[c] = "select" /\ q.op \notin {"sweep", "area"}
        /\ \/ /\ VersionAgrees(q, s.rev) /\ Admits(q, s.row)
              /\ \E l \in FirstWrites(q) : Goto(c, l)
              /\ seen' = [seen EXCEPT ![c] = Bind(Empty, q.art, s)]
              /\ at' = [at EXCEPT ![c] = q.art]
              /\ UNCHANGED <<req, todo, writes, reply, tries>>
           \/ /\ ~(VersionAgrees(q, s.rev) /\ Admits(q, s.row))
              /\ Answer(c, "not_ready")
        /\ UNCHANGED table

\* A check on the text of the body that the model does not see: the Outcome
\* section of claim_done, a body_patch anchor, a checkbox label, a link.
ContentGate(c) ==
    /\ pc[c] = "select" /\ req[c].op \in {"body", "accept", "claim"}
    /\ Answer(c, "not_ready")
    /\ UNCHANGED table

\* The sweep's SELECT: the open Tasks whose checklist is complete.
SelectCandidates(c) ==
    LET complete == {a \in Artifacts : SweepCandidate(head[a]) /\ head[a].life = "active"}
    IN  /\ pc[c] = "select" /\ req[c].op = "sweep"
        /\ \/ /\ complete # {}
              /\ seen' = [seen EXCEPT ![c] = [a \in complete |-> Snapshot(a)]]
              /\ todo' = [todo EXCEPT ![c] = complete]
              /\ Goto(c, "next")
              /\ UNCHANGED <<req, at, writes, reply, tries>>
           \/ complete = {} /\ Answer(c, "accepted")
        /\ UNCHANGED table

\* The sweep's loop over the candidates it found.
NextCandidate(c) ==
    /\ pc[c] = "next"
    /\ \/ \E a \in todo[c] :
            /\ at' = [at EXCEPT ![c] = a]
            /\ todo' = [todo EXCEPT ![c] = @ \ {a}]
            /\ Goto(c, "update")
       \/ todo[c] = {} /\ Goto(c, "finish") /\ UNCHANGED <<at, todo>>
    /\ UNCHANGED <<table, req, seen, writes, reply, tries>>

\* set_area begins its SELECT ... FOR UPDATE, which fixes the snapshot its
\* max(revision_number) subselect is evaluated in.
LockStatement(c) ==
    LET q == req[c]
    IN  /\ pc[c] = "select" /\ q.op = "area"
        /\ seen' = [seen EXCEPT ![c] = Bind(Empty, q.art, Snapshot(q.art))]
        /\ at' = [at EXCEPT ![c] = q.art]
        /\ Goto(c, "lock")
        /\ UNCHANGED <<table, req, todo, writes, reply, tries>>

\* The lock on the artifacts row is granted.
LockRow(c) ==
    /\ pc[c] = "lock" /\ Granted(c)
    /\ excl' = [excl EXCEPT ![c] = {at[c]}]
    /\ Goto(c, "lock_area")
    /\ UNCHANGED <<table, req, seen, todo, at, ins, rows, share, reply, tries>>

\* So is the one on the areas row, and the statement returns: the row is the
\* newest, the revision number is not.  Without a row it is ARTIFACT_NOT_FOUND.
LockArea(c) ==
    LET q == req[c]
        a == at[c]
        s == [rev |-> seen[c][a].rev, row |-> head[a]]
        admitted == /\ seen[c][a].row.area = head[a].area
                    /\ VersionAgrees(q, s.rev) /\ Admits(q, s.row)
    IN  /\ pc[c] = "lock_area" /\ Granted(c)
        /\ \/ /\ admitted
              /\ seen' = [seen EXCEPT ![c] = Bind(Empty, a, s)]
              /\ Goto(c, "insert")
              /\ UNCHANGED <<req, todo, at, writes, reply, tries>>
           \/ ~admitted /\ Answer(c, "not_ready")
        /\ UNCHANGED table

-----------------------------------------------------------------------------
\* claim_done INSERTs the artifact_edges and artifact_pins of its evidence, whose
\* foreign keys take KEY SHARE on the artifact before there is a revision.
AttachEvidence(c) ==
    /\ pc[c] = "attach" /\ Granted(c)
    /\ share' = [share EXCEPT ![c] = @ \cup {at[c]}]
    /\ Goto(c, "insert")
    /\ UNCHANGED <<table, req, seen, todo, at, ins, rows, excl, reply, tries>>

\* INSERT INTO artifact_revisions: the unique key.
InsertRevision(c) ==
    LET a == at[c]
    IN  /\ pc[c] = "insert" /\ Granted(c)
        /\ \/ /\ NewRev(c, a) \notin DOMAIN revs[a]
              /\ ins' = [ins EXCEPT ![c] = @ \cup {a}]
              /\ Goto(c, "fk")
              /\ UNCHANGED <<req, seen, todo, at, rows, share, excl, reply, tries>>
           \/ NewRev(c, a) \in DOMAIN revs[a] /\ Answer(c, "failed")
        /\ UNCHANGED table

\* The same statement's foreign key check.
ForeignKeyCheck(c) ==
    /\ pc[c] = "fk" /\ Granted(c)
    /\ share' = [share EXCEPT ![c] = @ \cup {at[c]}]
    /\ Goto(c, IF req[c].op = "sweep" THEN "next" ELSE "update")
    /\ UNCHANGED <<table, req, seen, todo, at, ins, rows, excl, reply, tries>>

\* UPDATE artifacts.  Only the sweep repeats a check in its WHERE clause.
UpdateHead(c) ==
    LET a == at[c]
        q == req[c]
        skipped == q.op = "sweep" /\ head[a].meta.status # "open"
    IN  /\ pc[c] = "update" /\ Granted(c)
        /\ rows' = [rows EXCEPT ![c] =
                      IF skipped THEN @
                      ELSE Bind(@, a, NewHead(q, seen[c][a].row, head[a]))]
        /\ Goto(c, IF skipped THEN "next"
                   ELSE IF q.op = "sweep" THEN "insert"
                   ELSE IF q.op = "area" THEN "area_fk" ELSE "finish")
        /\ UNCHANGED <<table, req, seen, todo, at, ins, share, excl, reply, tries>>

\* The foreign key of the new area_id.
AreaForeignKey(c) ==
    /\ pc[c] = "area_fk" /\ Granted(c)
    /\ Goto(c, "finish")
    /\ UNCHANGED <<table, req, seen, todo, at, writes, reply, tries>>

\* COMMIT.  The caller may be told or, if the connection goes at that moment,
\* be told of an error that did not happen.
Commit(c) ==
    /\ pc[c] = "finish" /\ ~DryRun(req[c])
    /\ head' = [a \in Artifacts |-> IF a \in DOMAIN rows[c] THEN rows[c][a] ELSE head[a]]
    /\ revs' = [a \in Artifacts |->
                  IF a \in ins[c]
                  THEN Extend(revs[a], NewRev(c, a), Revision(req[c], seen[c][a].row, c))
                  ELSE revs[a]]
    /\ \E r \in {"accepted", "failed"} : Answer(c, r)

\* dry_run=true ends in a ROLLBACK and an accepted reply.
RollbackDryRun(c) ==
    /\ pc[c] = "finish" /\ DryRun(req[c])
    /\ Answer(c, "accepted")
    /\ UNCHANGED table

\* Any statement of a handler may fail (the embedder, the events insert, the
\* connection, a cancelled context): the deferred Rollback drops its writes.
Fail(c) ==
    /\ pc[c] \in PCs \ {"idle", "replied"}
    /\ Answer(c, "failed")
    /\ UNCHANGED table

\* PostgreSQL breaks a cycle of waiting transactions by failing one of them.
Deadlocked(c) ==
    \E D \in SUBSET Callers : c \in D /\ \A d \in D : WaitsFor(d) \cap D # {}

DeadlockVictim(c) ==
    /\ Deadlocked(c)
    /\ Answer(c, "failed")
    /\ UNCHANGED table

\* A caller that was told of a failure sends the same request again.
Retry(c) ==
    /\ pc[c] = "replied" /\ reply[c] = "failed" /\ tries[c] < MaxTries
    /\ Goto(c, "select")
    /\ reply' = [reply EXCEPT ![c] = "none"]
    /\ tries' = [tries EXCEPT ![c] = @ + 1]
    /\ UNCHANGED <<table, req, seen, todo, at, writes>>

-----------------------------------------------------------------------------
\* What a handler does of itself.
Progress(c) ==
    \/ Select(c) \/ SelectCandidates(c) \/ NextCandidate(c)
    \/ LockStatement(c) \/ LockRow(c) \/ LockArea(c)
    \/ AttachEvidence(c) \/ InsertRevision(c) \/ ForeignKeyCheck(c)
    \/ UpdateHead(c) \/ AreaForeignKey(c)
    \/ Commit(c) \/ RollbackDryRun(c) \/ DeadlockVictim(c)

Next == \E c \in Callers :
            Submit(c) \/ Progress(c) \/ ContentGate(c) \/ Fail(c) \/ Retry(c)

Spec == Init /\ [][Next]_vars

\* A handler that can go on does, and the deadlock detector runs.
FairSpec == Spec /\ \A c \in Callers : WF_vars(Progress(c))

-----------------------------------------------------------------------------
Rows == RevisionsBy(Callers \cup {"create"})

\* Every variable holds what its comment says, whatever the interleaving: in
\* particular every committed revision row is one a handler could have written.
TypeOK ==
    /\ head \in [Artifacts -> Heads]
    /\ DOMAIN revs = Artifacts
    /\ \A a \in Artifacts : PartialFcn(revs[a], Nat \ {0}, Rows)
    /\ req \in [Callers -> Requests \cup {NoRequest}]
    /\ pc \in [Callers -> PCs]
    /\ DOMAIN seen = Callers
    /\ \A c \in Callers : PartialFcn(seen[c], Artifacts, Snapshots)
    /\ todo \in [Callers -> SUBSET Artifacts]
    /\ at \in [Callers -> Artifacts]
    /\ ins \in [Callers -> SUBSET Artifacts]
    /\ DOMAIN rows = Callers
    /\ \A c \in Callers : PartialFcn(rows[c], Artifacts, Heads)
    /\ share \in [Callers -> SUBSET Artifacts]
    /\ excl \in [Callers -> SUBSET Artifacts]
    /\ reply \in [Callers -> {"none", "accepted", "not_ready", "failed"}]
    /\ tries \in [Callers -> 0 .. MaxTries]

\* The revision numbers of an artifact are 1, 2, ..., n with no gap, although
\* each writer computes its own from a read made before its transaction.
RevisionsContiguous ==
    \A a \in Artifacts : DOMAIN revs[a] = 1 .. Latest(revs[a])

BodyRevisions(a) == {n \in DOMAIN revs[a] : revs[a][n].body # NullBody}

\* The body a reader sees is the one of the newest revision that has a body:
\* head and history never drift apart, though meta_patch rows store none and
\* claim_done writes the body column only when it changed it.
HeadIsNewestBody ==
    \A a \in Artifacts : \E n \in BodyRevisions(a) :
        /\ \A m \in BodyRevisions(a) : m <= n
        /\ revs[a][n].body = head[a].body

Versioned(q) == q.op \in {"body", "accept", "meta"} \/ (q.op = "http" /\ q.ver # 0)

\* A request that carries expected_version is applied at most once however
\* often its caller sends it, also when the reply to a commit was lost.
RetryAppliesOnce ==
    \A a \in Artifacts : \A m, n \in DOMAIN revs[a] :
        (/\ revs[a][m].by = revs[a][n].by /\ revs[a][m].by \in Callers
         /\ Versioned(req[revs[a][m].by])) => m = n

\* An accepted reply to a request that is not a dry run is a promise: what the
\* caller was told is committed stays in the history of its artifact.
AcceptedIsRecorded ==
    \A c \in Callers :
        (/\ reply[c] = "accepted" /\ req[c].op \notin {"sweep", "supersede"}
         /\ ~DryRun(req[c]))
            => \E n \in DOMAIN revs[req[c].art] : revs[req[c].art][n].by = c

\* No revision is ever changed or removed.
HistoryIsAppendOnly ==
    [][\A a \in Artifacts : \A n \in DOMAIN revs[a] :
          n \in DOMAIN revs'[a] /\ revs'[a][n] = revs[a][n]]_vars

\* The request whose transaction is committing.
Committing(c) == pc[c] = "finish" /\ pc'[c] = "replied"

BecomesDone(a) ==
    head[a].meta.status # "claimed_done" /\ head'[a].meta.status = "claimed_done"

SendsStatus(q, s) == q.op \in {"body", "http"} /\ q.meta.status = s

\* A Task becomes claimed_done only with every acceptance checkbox resolved in
\* the body it has at that moment, although the sweep, the HTTP route and the
\* automatic claim decide on a body they read earlier.  The exception is a
\* task_meta sent along with a patched body, which the gate does not see.
DoneMeansResolved ==
    [][\A a \in Artifacts : BecomesDone(a) =>
          \/ Resolved(head'[a].body)
          \/ \E c \in Callers : /\ Committing(c) /\ req[c].op = "body"
                                /\ req[c].patched /\ SendsStatus(req[c], "claimed_done")]_vars

\* A cancelled Task comes to claimed_done only when a caller asks for that
\* status by name: claim_done, which has no expected_version, the automatic
\* claim and the sweep never undo a cancellation that raced with them.
CancelledStaysCancelled ==
    [][\A a \in Artifacts : (head[a].meta.status = "cancelled" /\ BecomesDone(a)) =>
          \E c \in Callers : Committing(c) /\ SendsStatus(req[c], "claimed_done")]_vars

\* set_area never moves an artifact that is no longer active.
SupersededStaysInArea ==
    [][\A a \in Artifacts :
          head[a].life = "superseded" => head'[a].area = head[a].area]_vars

\* Every request is answered: neither a lock wait nor a deadlock, between the
\* sweep or set_area and the other writers, keeps a caller waiting for ever.
EveryRequestAnswered ==
    \A c \in Callers : (pc[c] = "select") ~> (pc[c] = "replied")

-----------------------------------------------------------------------------
\* The handlers implement the sequential log of RevisionLog: each commit takes
\* effect as if its request had been checked and applied, all at once, on the
\* rows it finds.  This is what "no lost update" means here.
Log == INSTANCE RevisionLog WITH head <- head, revs <- revs
ImplementsLog == Log!Spec

-----------------------------------------------------------------------------
(* What comments and tool descriptions of the code say, and the code does  *)
(* not do.                                                                 *)

\* "claimed_done requires acceptance checkboxes to be 100% checked": no
\* request takes a Task to claimed_done over an unresolved checkbox.
ClaimedDoneIsGated ==
    [][\A a \in Artifacts : BecomesDone(a) => Resolved(head'[a].body)]_vars

=============================================================================
