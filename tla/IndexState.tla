----------------------------- MODULE IndexState -----------------------------
(***************************************************************************)
(* The search index of an artifact: its rows in artifact_chunks and its    *)
(* row in artifact_index_state.  Two kinds of process refresh it: the      *)
(* writers of a body, inside the transaction that writes the artifact, and *)
(* pindoc-reembed, one transaction per artifact, from a plan it loaded     *)
(* when it started.  Nothing locks the index as a whole: what keeps two    *)
(* refreshes apart are the row locks of the DELETE, the UNIQUE             *)
(* (artifact_id, kind, chunk_index) of the INSERTs and the primary key of  *)
(* the state row.                                                          *)
(*                                                                         *)
(* PostgreSQL, READ COMMITTED, as the code uses it: a DELETE works on the  *)
(* rows there were when the statement started, waits for whoever deletes   *)
(* them too, and skips those that are gone by then; an INSERT of a key     *)
(* waits for a transaction that has inserted or deleted that key and       *)
(* fails if a row with it is left; an upsert waits for the row's other     *)
(* writers and works on the newest one.                                    *)
(***************************************************************************)
EXTENDS Integers

CONSTANTS
    Artifacts,
    Contents,       \* a title and a body: equal hashes are equal contents
    BodyChunks,     \* content -> number of its body chunks
    ServerModels,   \* what the servers may have for an embedder
    ReembedModel,   \* the embedder pindoc-reembed is run with
    NoModel,        \* no embedder
    Writers,        \* requests that write artifacts
    Reembeds,       \* pindoc-reembed processes
    MaxRev,         \* bound on the revisions of an artifact
    MaxAttempts,    \* where the model's attempt_count stops counting
    MaxFaults       \* bound on provider failures, crashes and lost connections

Models == (ServerModels \ {NoModel}) \cup {ReembedModel}
Procs == Writers \cup Reembeds

ASSUME SomeArtifact == Artifacts # {} /\ Contents # {}
ASSUME ChunkCounts == BodyChunks \in [Contents -> Nat]
ASSUME ReembedHasModel == ReembedModel # NoModel
ASSUME ProcsDiffer == Writers \cap Reembeds = {}
ASSUME Bounds == MaxRev \in Nat /\ MaxAttempts \in Nat \ {0} /\ MaxFaults \in Nat

VARIABLES
    head,     \* artifacts: the content
    rev,      \* artifact_revisions: the newest revision_number
    chunks,   \* artifact_chunks, committed
    state,    \* artifact_index_state, committed
    plan,     \* what a pindoc-reembed run has not come to
    pc,       \* the statement a process runs next
    work,     \* the RefreshInput of its transaction, and the embedder
    doomed,   \* the chunks its DELETE has found
    del,      \* the chunks it has deleted, uncommitted
    ins,      \* how many chunks it has inserted, uncommitted
    outcome,  \* the status it will record
    count,    \* the attempt_count it has recorded, uncommitted
    faults    \* how many faults there were

tables == <<head, rev, chunks, state>>
tx == <<work, doomed, del, ins, outcome, count>>
vars == <<head, rev, chunks, state, plan, pc, work, doomed, del, ins, outcome, count, faults>>

\* Chunk 0 is the title's: replace inserts it first.
Row(c, m, k) == [key |-> k, of |-> c, model |-> m]
Chunks(c, m) == {Row(c, m, k) : k \in 0 .. BodyChunks[c]}
Rows == [key : Nat, of : Contents, model : Models]

NoState == [status |-> "none"]
States == [status : {"unknown", "indexed", "failed"}, rev : Nat, of : Contents,
           model : Models \cup {NoModel}, attempts : 0 .. MaxAttempts]
Inputs == [art : Artifacts, rev : Nat, of : Contents, model : Models \cup {NoModel}]
NoInput == [art |-> CHOOSE a \in Artifacts : TRUE, rev |-> 0,
            of |-> CHOOSE c \in Contents : TRUE, model |-> NoModel]

PCs == {"idle", "prepare", "delete", "deleting", "insert", "record", "commit"}
InTx(p) == pc[p] # "idle"
Art(p) == work[p].art
Others(p) == {q \in Procs \ {p} : InTx(q) /\ Art(q) = Art(p)}

\* Mutant: the backfill writes a status the column does not have.
BackfilledStale(c) ==
    [status |-> "stale", rev |-> 1, of |-> c, model |-> NoModel, attempts |-> 0]

\* Artifacts from before migration 0069 are backfilled as unknown; an artifact
\* made by pindoc-seed or with its project has no state row.
Backfilled(c) ==
    [status |-> "unknown", rev |-> 1, of |-> c, model |-> NoModel, attempts |-> 0]

Init ==
    /\ head \in [Artifacts -> Contents]
    /\ rev = [a \in Artifacts |-> 1]
    /\ chunks \in [Artifacts -> {{}} \cup {Chunks(c, ReembedModel) : c \in Contents}]
    /\ \E B \in SUBSET Artifacts :
         state = [a \in Artifacts |-> IF a \in B THEN Backfilled(head[a]) ELSE NoState]
    /\ plan = [r \in Reembeds |-> {}]
    /\ pc = [p \in Procs |-> "idle"]
    /\ work = [p \in Procs |-> NoInput]
    /\ doomed = [p \in Procs |-> {}]
    /\ del = [p \in Procs |-> {}]
    /\ ins = [p \in Procs |-> 0]
    /\ outcome = [p \in Procs |-> "unknown"]
    /\ count = [p \in Procs |-> 0]
    /\ faults = 0

-----------------------------------------------------------------------------
(* indexstate.Classify: the effective state under embedder m.              *)
Classify(a, m) ==
    IF state[a] = NoState THEN "unknown"
    ELSE IF state[a].status # "indexed" THEN state[a].status
    ELSE IF state[a].of # head[a] \/ state[a].model # m THEN "stale"
    ELSE "indexed"

Goto(p, l) == pc' = [pc EXCEPT ![p] = l]

Begin(p, input) == work' = [work EXCEPT ![p] = input]

\* A request with new title or body, or one that repeats them, holds the
\* artifacts row from its UPDATE to its commit, and so does a metadata write.
RowFree(a) == \A w \in Writers : InTx(w) => Art(w) # a

Write(w) ==
    /\ ~InTx(w)
    /\ \E a \in Artifacts, c \in Contents, m \in ServerModels :
         /\ RowFree(a)
         /\ rev[a] < MaxRev
         /\ Begin(w, [art |-> a, rev |-> rev[a] + 1, of |-> c, model |-> m])
         /\ Goto(w, IF m = NoModel THEN "record" ELSE "prepare")
    /\ UNCHANGED <<tables, plan, doomed, del, ins, outcome, count, faults>>

\* meta_patch, set_area, the sweep: a revision that leaves title and body alone
\* refreshes nothing.
MetaWrite ==
    /\ \E a \in Artifacts :
         /\ RowFree(a)
         /\ rev[a] < MaxRev
         /\ rev' = [rev EXCEPT ![a] = @ + 1]
    /\ UNCHANGED <<head, chunks, state, plan, pc, tx, faults>>

Modes == {"all", "needs-refresh", "failed", "stale", "unknown", "indexed"}

\* Mutant: artifacts that were never indexed do not need a refresh.
MatchesStateModeKnown(mode, effective) ==
    \/ mode = "all" \/ effective = mode
    \/ mode = "needs-refresh" /\ effective \notin {"indexed", "unknown"}

MatchesStateMode(mode, effective) ==
    \/ mode = "all" \/ effective = mode
    \/ mode = "needs-refresh" /\ effective # "indexed"

\* One query reads all artifacts; -dry-run ends here and -only drops some.
LoadPlans(r, mode) ==
    /\ ~InTx(r) /\ plan[r] = {}
    /\ plan' = [plan EXCEPT ![r] =
                  {[art |-> a, rev |-> rev[a], of |-> head[a], model |-> ReembedModel] :
                      a \in {b \in Artifacts :
                               MatchesStateMode(mode, Classify(b, ReembedModel))}}]
    /\ UNCHANGED <<tables, pc, tx, faults>>

ReembedOne(r) ==
    /\ ~InTx(r)
    /\ \E input \in plan[r] :
         /\ Begin(r, input)
         /\ plan' = [plan EXCEPT ![r] = @ \ {input}]
    /\ Goto(r, "prepare")
    /\ UNCHANGED <<tables, doomed, del, ins, outcome, count, faults>>

-----------------------------------------------------------------------------
(* indexstate.Refresh, in the transaction of its caller.                   *)
Embedded(p) ==
    /\ pc[p] = "prepare"
    /\ outcome' = [outcome EXCEPT ![p] = "indexed"]
    /\ Goto(p, "delete")
    /\ UNCHANGED <<tables, plan, work, doomed, del, ins, count, faults>>

\* Mutant: the old chunks are purged before the provider is asked.
ProviderFailsAfterPurge(p) ==
    /\ pc[p] = "prepare" /\ faults < MaxFaults
    /\ faults' = faults + 1
    /\ outcome' = [outcome EXCEPT ![p] = "failed"]
    /\ del' = [del EXCEPT ![p] = chunks[Art(p)]]
    /\ Goto(p, "record")
    /\ UNCHANGED <<tables, plan, work, doomed, ins, count>>

ProviderFails(p) ==
    /\ pc[p] = "prepare" /\ faults < MaxFaults
    /\ faults' = faults + 1
    /\ outcome' = [outcome EXCEPT ![p] = "failed"]
    /\ Goto(p, "record")
    /\ UNCHANGED <<tables, plan, work, doomed, del, ins, count>>

Delete(p) ==
    /\ pc[p] = "delete"
    /\ doomed' = [doomed EXCEPT ![p] = chunks[Art(p)]]
    /\ Goto(p, "deleting")
    /\ UNCHANGED <<tables, plan, work, del, ins, outcome, count, faults>>

Deleted(p) ==
    /\ pc[p] = "deleting"
    /\ \A q \in Others(p) : del[q] \cap doomed[p] = {}
    /\ del' = [del EXCEPT ![p] = doomed[p]]
    /\ doomed' = [doomed EXCEPT ![p] = {}]
    /\ Goto(p, "insert")
    /\ UNCHANGED <<tables, plan, work, ins, outcome, count, faults>>

\* Mutant: chunks have no unique key.
NoKeyLeft(p, k) == {}

\* The committed rows that have chunk k's key, but for those p has deleted.
KeyLeft(p, k) == {row \in chunks[Art(p)] \ del[p] : row.key = k}

\* Nobody else has inserted chunk k's key, or deleted a row that has it.
KeySettled(p, k) ==
    \A q \in Others(p) : ins[q] <= k /\ \A row \in del[q] : row.key # k

InsertChunk(p) ==
    /\ pc[p] = "insert"
    /\ KeySettled(p, ins[p]) /\ KeyLeft(p, ins[p]) = {}
    /\ ins' = [ins EXCEPT ![p] = @ + 1]
    /\ Goto(p, IF ins[p] = BodyChunks[work[p].of] THEN "record" ELSE "insert")
    /\ UNCHANGED <<tables, plan, work, doomed, del, outcome, count, faults>>

StateRowHolders(p) == {q \in Others(p) : pc[q] = "commit"}

NextCount(a) ==
    LET n == IF state[a] = NoState THEN 0 ELSE state[a].attempts
    IN  IF n < MaxAttempts THEN n + 1 ELSE n

Record(p) ==
    /\ pc[p] = "record"
    /\ StateRowHolders(p) = {}
    /\ count' = [count EXCEPT ![p] =
                    IF outcome[p] # "unknown" THEN NextCount(Art(p))
                    ELSE IF state[Art(p)] = NoState THEN 0
                    ELSE state[Art(p)].attempts]
    /\ Goto(p, "commit")
    /\ UNCHANGED <<tables, plan, work, doomed, del, ins, outcome, faults>>

-----------------------------------------------------------------------------
\* The end of p's transaction; `gone' is what its commit deletes for good.
EndTx(p, gone) ==
    /\ Goto(p, "idle")
    /\ doomed' = [q \in Procs |-> IF q = p THEN {}
                                  ELSE IF q \in Others(p) THEN doomed[q] \ gone
                                  ELSE doomed[q]]
    /\ del' = [del EXCEPT ![p] = {}]
    /\ ins' = [ins EXCEPT ![p] = 0]
    /\ work' = [work EXCEPT ![p] = NoInput]
    /\ outcome' = [outcome EXCEPT ![p] = "unknown"]
    /\ count' = [count EXCEPT ![p] = 0]

\* Mutant: the upsert takes the count from EXCLUDED, as it does other columns.
RecordedAsInserted(p) ==
    [status |-> outcome[p], rev |-> work[p].rev, of |-> work[p].of,
     model |-> work[p].model, attempts |-> IF outcome[p] = "unknown" THEN count[p] ELSE 1]

Recorded(p) ==
    [status |-> outcome[p], rev |-> work[p].rev, of |-> work[p].of,
     model |-> work[p].model, attempts |-> count[p]]

Inserted(p) == {Row(work[p].of, work[p].model, k) : k \in 0 .. ins[p] - 1}

Commit(p) ==
    /\ pc[p] = "commit"
    /\ head' = IF p \in Writers THEN [head EXCEPT ![Art(p)] = work[p].of] ELSE head
    /\ rev' = IF p \in Writers THEN [rev EXCEPT ![Art(p)] = work[p].rev] ELSE rev
    /\ chunks' = [chunks EXCEPT ![Art(p)] = (@ \ del[p]) \cup Inserted(p)]
    /\ state' = [state EXCEPT ![Art(p)] = Recorded(p)]
    /\ EndTx(p, del[p])
    /\ UNCHANGED <<plan, faults>>

\* The INSERT meets a chunk it could not delete: the caller gets the error and
\* rolls back, the writer's artifact with it; pindoc-reembed goes on.
ChunkKeyTaken(p) ==
    /\ pc[p] = "insert"
    /\ KeySettled(p, ins[p]) /\ KeyLeft(p, ins[p]) # {}
    /\ EndTx(p, {})
    /\ UNCHANGED <<tables, plan, faults>>

\* A database error, a cancelled request, or the end of the process, which
\* loses the rest of the plan.
Fault(p) ==
    /\ InTx(p) \/ (p \in Reembeds /\ plan[p] # {})
    /\ faults < MaxFaults
    /\ faults' = faults + 1
    /\ EndTx(p, {})
    /\ \/ UNCHANGED plan
       \/ (p \in Reembeds /\ plan' = [plan EXCEPT ![p] = {}])
    /\ UNCHANGED tables

-----------------------------------------------------------------------------
Step(p) ==
    \/ Embedded(p) \/ ProviderFails(p) \/ Delete(p) \/ Deleted(p)
    \/ InsertChunk(p) \/ ChunkKeyTaken(p) \/ Record(p) \/ Commit(p)

Next ==
    \/ MetaWrite
    \/ \E w \in Writers : Write(w)
    \/ \E r \in Reembeds : ReembedOne(r) \/ \E mode \in Modes : LoadPlans(r, mode)
    \/ \E p \in Procs : Step(p) \/ Fault(p)

Spec == Init /\ [][Next]_vars

\* Transactions go on, PostgreSQL wakes those that wait, and the operator runs
\* pindoc-reembed -state needs-refresh again and again.
Fairness ==
    /\ \A p \in Procs : WF_vars(Step(p))
    /\ \A r \in Reembeds : WF_vars(ReembedOne(r)) /\ WF_vars(LoadPlans(r, "needs-refresh"))

FairSpec == Spec /\ Fairness

-----------------------------------------------------------------------------
\* The tables hold rows of their columns' types, and every transaction is at a
\* statement of Refresh with the input it was given.
TypeOK ==
    /\ head \in [Artifacts -> Contents]
    /\ rev \in [Artifacts -> Nat]
    /\ chunks \in [Artifacts -> SUBSET Rows]
    /\ state \in [Artifacts -> States \cup {NoState}]
    /\ plan \in [Reembeds -> SUBSET {i \in Inputs : i.model = ReembedModel}]
    /\ pc \in [Procs -> PCs]
    /\ work \in [Procs -> Inputs]
    /\ doomed \in [Procs -> SUBSET Rows]
    /\ del \in [Procs -> SUBSET Rows]
    /\ ins \in [Procs -> Nat]
    /\ outcome \in [Procs -> {"unknown", "indexed", "failed"}]
    /\ count \in [Procs -> 0 .. MaxAttempts]
    /\ faults \in 0 .. MaxFaults

\* An artifact whose state row says indexed has exactly the chunks of the
\* content and embedder the row names, whoever refreshed it at the same time:
\* replace's DELETE, INSERTs and upsert, refresh.go:185, are not a mixture.
IndexedIsExact ==
    \A a \in Artifacts :
        state[a] # NoState /\ state[a].status = "indexed" =>
            chunks[a] = Chunks(state[a].of, state[a].model)

\* "A provider failure therefore records a retryable failed state while leaving
\* the last known-good chunks intact" (refresh.go:50): chunks are only ever
\* replaced by a complete set, in the commit that says they are indexed.
ChunksOnlyReplaced ==
    [][\A a \in Artifacts :
         chunks'[a] # chunks[a] =>
            /\ state'[a].status = "indexed"
            /\ chunks'[a] = Chunks(state'[a].of, state'[a].model)]_vars

\* attempt_count counts every committed attempt, the failed ones too, when
\* attempts overlap: the upsert adds to the row it finds (refresh.go:222).
AttemptsCounted ==
    [][\A a \in Artifacts :
         state'[a] # state[a] /\ state'[a].status # "unknown" =>
            state'[a].attempts = NextCount(a)]_vars

\* "A later pindoc-reembed run can recover it" (state.go:67): once the requests
\* and the faults end, every artifact becomes and stays indexed.
Recovers == <>[](\A a \in Artifacts : Classify(a, ReembedModel) = "indexed")

\* "Preview and repair only rows that need work" (docs/27): a refresh of the
\* content an artifact has does not turn a good index stale.
RepairNeverSpoils ==
    [][\A a \in Artifacts :
         Classify(a, ReembedModel) = "indexed" /\ head'[a] = head[a] =>
            Classify(a, ReembedModel)' # "stale"]_vars

=============================================================================
