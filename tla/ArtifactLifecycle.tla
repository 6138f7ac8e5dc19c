-------------------------- MODULE ArtifactLifecycle --------------------------
(***************************************************************************)
(* How artifacts come to be, are replaced and are reviewed: propose        *)
(* without update_of (create, and create with supersede_of), the review    *)
(* inbox of the HTTP API, and the update that promotes an artifact to      *)
(* settled, which sends it to the inbox again.  Everything before a        *)
(* handler's transaction is read from the committed tables or from the     *)
(* receipt store of the server; the transaction decides on what was read.  *)
(*                                                                         *)
(* PostgreSQL, READ COMMITTED: the INSERT of a slug that a transaction has *)
(* inserted waits for it; one of a slug that is there fails and leaves the *)
(* transaction aborted, every further statement of which fails; an UPDATE  *)
(* waits for the row's lock and then tests again the condition on the row  *)
(* it updates, but no condition of a subquery that found the row.          *)
(***************************************************************************)
EXTENDS Integers, FiniteSets

CONSTANTS
    Calls,           \* calls of the tools and of the API; a create makes the row it names
    Seeds,           \* artifacts there are already
    NoArtifact,
    Slugs, Titles, Authors,
    Receipts,        \* search receipts the server has issued
    OneUse,          \* those of project.create, good for one create
    NoReceipt,
    Requests,        \* what the calls may ask for
    SeedRows,        \* the rows the seeds may have
    ExemptionLimit,  \* receipts.exemption_limit
    MaxFaults        \* bound on errors and restarts

Artifacts == Calls \cup Seeds

CreateRequests ==
    [op : {"create"}, slug : Slugs, title : Titles, author : Authors,
     settled : BOOLEAN, receipt : Receipts \cup {NoReceipt}]
SupersedeRequests ==
    [op : {"supersede"}, slug : Slugs, title : Titles, author : Authors,
     settled : BOOLEAN, of : Slugs]
ReviewRequests == [op : {"review"}, of : Slugs, decision : {"approve", "reject"}]
SettleRequests == [op : {"settle"}, of : Slugs, author : Authors]

ReviewStates == {"auto_published", "pending_review", "approved", "rejected"}
Statuses == {"none", "published", "superseded", "archived"}

\* A row of artifacts; `none' is the status of the row that is not there, and
\* born orders the rows by the commits that made them.
Rows == [slug : Slugs, title : Titles, author : Authors, settled : BOOLEAN,
         status : Statuses, review : ReviewStates,
         superseded_by : Artifacts \cup {NoArtifact}, born : Nat]

ASSUME CallsAreNew == Calls \cap Seeds = {} /\ NoArtifact \notin Artifacts
ASSUME OneUseReceipts == OneUse \subseteq Receipts /\ NoReceipt \notin Receipts
ASSUME SomeOfEach == Slugs # {} /\ Titles # {} /\ Authors # {}
ASSUME RequestTypes ==
    Requests \subseteq CreateRequests \cup SupersedeRequests \cup ReviewRequests
                       \cup SettleRequests
ASSUME SeedTypes ==
    SeedRows \subseteq {r \in Rows : /\ r.status = "published"
                                     /\ r.review \in {"auto_published", "pending_review"}
                                     /\ r.superseded_by = NoArtifact /\ r.born = 0}
ASSUME Bounds == ExemptionLimit \in Nat /\ MaxFaults \in Nat

ASSUME SomeRequest == Requests # {}

VARIABLES
    rows,      \* artifacts, committed
    receipts,  \* the receipt store: what Verify accepts
    pc,        \* the statement a call runs next, or how it ended
    req,       \* what it asks for
    draft,     \* the row its transaction has inserted, uncommitted
    target,    \* the row it has found to act on
    seen,      \* whether the artifact an update has read is settled
    clock,     \* how many transactions that made a row have committed
    faults

vars == <<rows, receipts, pc, req, draft, target, seen, clock, faults>>

NoRow == [slug |-> CHOOSE s \in Slugs : TRUE, title |-> CHOOSE t \in Titles : TRUE,
          author |-> CHOOSE w \in Authors : TRUE, settled |-> FALSE, status |-> "none",
          review |-> "auto_published", superseded_by |-> NoArtifact, born |-> 0]
NoRequest == [op |-> "none"]

\* `accepted': the transaction has committed, whether or not the caller hears so.
Ended == {"accepted", "refused", "failed", "slug_failed"}
BeforeTx == {"receipt", "resolve", "title", "insert", "find", "read"}
InTx == {"aborted", "bookkeep", "decide", "promote", "commit"}
PCs == {"idle"} \cup BeforeTx \cup InTx \cup Ended

Makes(c) == req[c].op \in {"create", "supersede"}
There(a) == rows[a].status # "none"
Named(s) == {a \in Artifacts : There(a) /\ rows[a].slug = s}
Goto(c, l) == pc' = [pc EXCEPT ![c] = l]

Init ==
    /\ \E given \in [Seeds -> SeedRows] :
         /\ \A a, b \in Seeds : a # b => given[a].slug # given[b].slug
         /\ rows = [a \in Artifacts |-> IF a \in Seeds THEN given[a] ELSE NoRow]
    /\ receipts = Receipts
    /\ pc = [c \in Calls |-> "idle"]
    /\ req = [c \in Calls |-> NoRequest]
    /\ draft = [c \in Calls |-> NoRow]
    /\ target = [c \in Calls |-> NoArtifact]
    /\ seen = [c \in Calls |-> FALSE]
    /\ clock = 0
    /\ faults = 0

-----------------------------------------------------------------------------
(* Before the transaction.                                                 *)
FirstStep(op) ==
    IF op = "create" THEN "receipt"
    ELSE IF op = "supersede" THEN "resolve"
    ELSE IF op = "review" THEN "find" ELSE "read"

Submit(c) ==
    /\ pc[c] = "idle"
    /\ \E r \in Requests : req' = [req EXCEPT ![c] = r] /\ Goto(c, FirstStep(r.op))
    /\ UNCHANGED <<rows, receipts, draft, target, seen, clock, faults>>

\* The author's first artifacts of an area need no receipt.
Exempt(c) ==
    LET live == {a \in Artifacts : There(a) /\ rows[a].status # "archived"}
    IN  /\ Cardinality(live) < ExemptionLimit
        /\ \A a \in live : rows[a].author = req[c].author

\* Mutant: Verify leaves a one-use receipt in the store.
ConsumedNever(r) == receipts

\* What Verify leaves in the store, under its mutex.
Consumed(r) == receipts \ ({r} \cap OneUse)

VerifyReceipt(c) ==
    /\ pc[c] = "receipt"
    /\ IF req[c].receipt = NoReceipt
       THEN Goto(c, IF Exempt(c) THEN "title" ELSE "refused") /\ UNCHANGED receipts
       ELSE IF req[c].receipt \in receipts
       THEN Goto(c, "title") /\ receipts' = Consumed(req[c].receipt)
       ELSE Goto(c, "refused") /\ UNCHANGED receipts
    /\ UNCHANGED <<rows, req, draft, target, seen, clock, faults>>

\* A lookup by slug: c goes on to l with the row `found', or is refused.
Lookup(c, found, l) ==
    /\ IF found = {}
       THEN Goto(c, "refused") /\ UNCHANGED target
       ELSE Goto(c, l) /\ \E a \in found : target' = [target EXCEPT ![c] = a]
    /\ UNCHANGED <<rows, receipts, req, draft, clock, faults>>

ResolveSupersede(c) ==
    /\ pc[c] = "resolve"
    /\ Lookup(c, {a \in Named(req[c].of) : rows[a].status # "archived"}, "insert")
    /\ UNCHANGED seen

TitleTaken(t) ==
    \E a \in Artifacts : /\ There(a) /\ rows[a].title = t
                         /\ rows[a].status \notin {"archived", "superseded"}

TitleCheck(c) ==
    /\ pc[c] = "title"
    /\ Goto(c, IF TitleTaken(req[c].title) THEN "refused" ELSE "insert")
    /\ UNCHANGED <<rows, receipts, req, draft, target, seen, clock, faults>>

\* The subquery of the inbox's UPDATE.
FindPending(c) ==
    /\ pc[c] = "find"
    /\ Lookup(c, {a \in Named(req[c].of) : /\ rows[a].review = "pending_review"
                                           /\ rows[a].status # "archived"}, "decide")
    /\ UNCHANGED seen

ReadHead(c) ==
    /\ pc[c] = "read"
    /\ Lookup(c, Named(req[c].of), "promote")
    /\ seen' = [seen EXCEPT ![c] = \E a \in Named(req[c].of) : rows[a].settled]

-----------------------------------------------------------------------------
(* The transactions.                                                       *)

\* c's transaction has written the row of a.
Holds(c, a) == pc[c] = "commit" /\ target[c] = a
RowFree(a) == \A d \in Calls : ~Holds(d, a)

\* Nobody has inserted the slug and not ended yet.
SlugSettled(c, s) ==
    \A d \in Calls \ {c} : draft[d].status # "none" => draft[d].slug # s

\* Mutant: the column gets the kind of the event that is recorded with it.
ReviewEventFor(mode, sensitive) ==
    IF mode = "confirm" /\ sensitive THEN "review_required" ELSE "auto_published"

\* policy.ReviewStateFor, in either mode of sensitive_ops.
ReviewStateFor(mode, sensitive) ==
    IF mode = "confirm" /\ sensitive THEN "pending_review" ELSE "auto_published"

Inserted(c, mode) ==
    [slug |-> req[c].slug, title |-> req[c].title, author |-> req[c].author,
     settled |-> req[c].settled, status |-> "published",
     review |-> ReviewStateFor(mode, req[c].op = "supersede" \/ req[c].settled),
     superseded_by |-> NoArtifact, born |-> 0]

Insert(c) ==
    /\ pc[c] = "insert"
    /\ SlugSettled(c, req[c].slug) /\ Named(req[c].slug) = {}
    /\ \E mode \in {"auto", "confirm"} : draft' = [draft EXCEPT ![c] = Inserted(c, mode)]
    /\ Goto(c, IF req[c].op = "supersede" THEN "bookkeep" ELSE "commit")
    /\ UNCHANGED <<rows, receipts, req, target, seen, clock, faults>>

SlugTaken(c) ==
    /\ pc[c] = "insert"
    /\ SlugSettled(c, req[c].slug) /\ Named(req[c].slug) # {}
    /\ Goto(c, "aborted")
    /\ UNCHANGED <<rows, receipts, req, draft, target, seen, clock, faults>>

\* The next attempt's INSERT, in the aborted transaction, is no unique
\* violation: the handler returns the error.
InsertAgain(c) ==
    /\ pc[c] = "aborted"
    /\ Goto(c, "slug_failed")
    /\ UNCHANGED <<rows, receipts, req, draft, target, seen, clock, faults>>

\* Mutant: the target is updated through the pool instead of the transaction.
SupersedeOutsideTx(c) ==
    /\ pc[c] = "bookkeep"
    /\ RowFree(target[c])
    /\ rows' = [rows EXCEPT ![target[c]].status = "superseded",
                            ![target[c]].superseded_by = c]
    /\ Goto(c, "commit")
    /\ UNCHANGED <<receipts, req, draft, target, seen, clock, faults>>

Supersede(c) ==
    /\ pc[c] = "bookkeep"
    /\ RowFree(target[c])
    /\ Goto(c, "commit")
    /\ UNCHANGED <<rows, receipts, req, draft, target, seen, clock, faults>>

Decide(c) ==
    /\ pc[c] = "decide"
    /\ RowFree(target[c])
    /\ Goto(c, "commit")
    /\ UNCHANGED <<rows, receipts, req, draft, target, seen, clock, faults>>

\* Mutant: the revision gets the next number there is when it is inserted.
PromoteUnnumbered(c) ==
    /\ pc[c] = "promote"
    /\ RowFree(target[c])
    /\ Goto(c, "commit")
    /\ UNCHANGED <<rows, receipts, req, draft, target, seen, clock, faults>>

\* The update's revision number is taken if another promotion came first.  Of
\* updates that find the artifact settled the revisions are not told apart.
Promote(c) ==
    /\ pc[c] = "promote"
    /\ RowFree(target[c])
    /\ Goto(c, IF rows[target[c]].settled = seen[c] THEN "commit" ELSE "failed")
    /\ UNCHANGED <<rows, receipts, req, draft, target, seen, clock, faults>>

-----------------------------------------------------------------------------
\* Mutant: the bookkeeping sets the status only.
SupersededByNobody(row, c) == [row EXCEPT !.status = "superseded"]

Superseded(row, c) == [row EXCEPT !.status = "superseded", !.superseded_by = c]

Decided(row, decision) ==
    IF decision = "approve"
    THEN [row EXCEPT !.review = "approved", !.status = "published"]
    ELSE [row EXCEPT !.review = "rejected", !.status = "archived"]

\* Mutant: the update writes the review state it computed, whatever there is.
PromotedAnyway(row, review, author) ==
    [row EXCEPT !.settled = TRUE, !.author = author, !.review = review]

Promoted(row, review, author) ==
    [row EXCEPT !.settled = TRUE, !.author = author,
                !.review = IF review = "pending_review" THEN review ELSE @]

CommitCreate(c) ==
    /\ pc[c] = "commit" /\ Makes(c)
    /\ clock' = clock + 1
    /\ rows' = [a \in Artifacts |->
                  IF a = c THEN [draft[c] EXCEPT !.born = clock + 1]
                  ELSE IF a = target[c] THEN Superseded(rows[a], c)
                  ELSE rows[a]]
    /\ draft' = [draft EXCEPT ![c] = NoRow]
    /\ Goto(c, "accepted")
    /\ UNCHANGED <<receipts, req, target, seen, faults>>

CommitReview(c) ==
    /\ pc[c] = "commit" /\ req[c].op = "review"
    /\ rows' = [rows EXCEPT ![target[c]] = Decided(@, req[c].decision)]
    /\ Goto(c, "accepted")
    /\ UNCHANGED <<receipts, req, draft, target, seen, clock, faults>>

CommitUpdate(c) ==
    /\ pc[c] = "commit" /\ req[c].op = "settle"
    /\ \E mode \in {"auto", "confirm"} :
         rows' = [rows EXCEPT ![target[c]] =
                      Promoted(@, ReviewStateFor(mode, ~seen[c]), req[c].author)]
    /\ Goto(c, "accepted")
    /\ UNCHANGED <<receipts, req, draft, target, seen, clock, faults>>

-----------------------------------------------------------------------------
\* Mutant: an early return leaves the transaction open.
LeftOpen(c, l) == Goto(c, l) /\ UNCHANGED draft

\* The deferred Rollback of a handler that returns early.
Rollback(c, l) ==
    /\ draft' = [draft EXCEPT ![c] = NoRow]
    /\ Goto(c, l)

\* The gates of a create whose data is not modelled (preflight, area, links,
\* active Tasks, semantic overlap, visibility cap, relates_to), and dry_run.
Refuse(c) ==
    /\ pc[c] \in (BeforeTx \cup InTx) \ {"aborted"} /\ Makes(c)
    /\ Rollback(c, "refused")
    /\ UNCHANGED <<rows, receipts, req, target, seen, clock, faults>>

\* A statement fails, or the request is cancelled.
Fault(c) ==
    /\ pc[c] \in BeforeTx \cup InTx
    /\ faults < MaxFaults
    /\ faults' = faults + 1
    /\ Rollback(c, "failed")
    /\ UNCHANGED <<rows, receipts, req, target, seen, clock>>

\* Receipts live in the server's memory only.
Restart ==
    /\ faults < MaxFaults
    /\ faults' = faults + 1
    /\ receipts' = {}
    /\ draft' = [c \in Calls |-> NoRow]
    /\ pc' = [c \in Calls |-> IF pc[c] \in BeforeTx \cup InTx THEN "failed" ELSE pc[c]]
    /\ UNCHANGED <<rows, req, target, seen, clock>>

\* The TTL passes: Verify refuses the receipt, and sweep drops it.
Expire(r) ==
    /\ r \in receipts
    /\ receipts' = receipts \ {r}
    /\ UNCHANGED <<rows, pc, req, draft, target, seen, clock, faults>>

-----------------------------------------------------------------------------
Step(c) ==
    \/ VerifyReceipt(c) \/ ResolveSupersede(c) \/ TitleCheck(c)
    \/ FindPending(c) \/ ReadHead(c)
    \/ Insert(c) \/ SlugTaken(c) \/ InsertAgain(c)
    \/ Supersede(c) \/ Decide(c) \/ Promote(c)
    \/ CommitCreate(c) \/ CommitReview(c) \/ CommitUpdate(c)

Next ==
    \/ \E c \in Calls : Submit(c) \/ Step(c) \/ Refuse(c) \/ Fault(c)
    \/ Restart
    \/ \E r \in Receipts : Expire(r)

Spec == Init /\ [][Next]_vars

\* The server does not stop while a handler can go on, and PostgreSQL wakes the
\* one that waits.
FairSpec == Spec /\ WF_vars(\E c \in Calls : Step(c))

-----------------------------------------------------------------------------
\* The tables, the store and the handlers' variables have their types.
TypeOK ==
    /\ rows \in [Artifacts -> Rows]
    /\ receipts \in SUBSET Receipts
    /\ pc \in [Calls -> PCs]
    /\ req \in [Calls -> Requests \cup {NoRequest}]
    /\ draft \in [Calls -> Rows]
    /\ target \in [Calls -> Artifacts \cup {NoArtifact}]
    /\ seen \in [Calls -> BOOLEAN]
    /\ clock \in Nat
    /\ faults \in 0 .. MaxFaults

\* A receipt of project.create "is consumed by the first successful Verify"
\* (receipts.go:88): of the creates that send it, at once or one after the
\* other, before or after a failure, at most one makes an artifact.
OneUseReceiptAdmitsOneCreate ==
    \A r \in OneUse : \A c, d \in Calls :
        /\ There(c) /\ req[c].op = "create" /\ req[c].receipt = r
        /\ There(d) /\ req[d].op = "create" /\ req[d].receipt = r
        => c = d

\* The row, its first revision and the supersede bookkeeping are one
\* transaction (artifact_propose.go:1031): a call that is not accepted leaves
\* no artifact and no artifact that it superseded, whenever it broke off.
AllOrNothing ==
    \A c \in Calls :
        IF pc[c] = "accepted" /\ Makes(c) THEN There(c)
        ELSE ~There(c) /\ \A a \in Artifacts : rows[a].superseded_by # c

\* superseded_by leads from every superseded artifact, by whatever calls
\* superseded it, to a successor that was made after it: a reader who follows
\* it never goes in a circle (artifact_propose.go:1141).
SupersessionMovesForward ==
    \A a \in Artifacts :
        /\ rows[a].status = "superseded" => rows[a].superseded_by # NoArtifact
        /\ rows[a].superseded_by # NoArtifact =>
             /\ There(rows[a].superseded_by)
             /\ rows[a].born < rows[rows[a].superseded_by].born

\* What the inbox decided and what the reader shows agree, after any races of
\* reviewers, superseders and updates: a rejected artifact is not published,
\* and an artifact in the archive was rejected, or promoted since.
ReviewMatchesStatus ==
    \A a \in Artifacts :
        /\ There(a) /\ rows[a].review = "rejected" =>
             rows[a].status \in {"archived", "superseded"}
        /\ rows[a].status = "archived" => rows[a].review \in {"rejected", "pending_review"}

\* What the caller of a handler can know of a call by the statement it is at.
Status(l) ==
    IF l = "accepted" THEN "accepted"
    ELSE IF l \in Ended THEN "failed" ELSE "open"

\* Whoever is told of success has had its effect once, whole and at one instant,
\* on the rows as they were then; no slug is given twice, nothing read before a
\* transaction shows, and a call that is refused, fails or dies has changed nothing.
Catalog == INSTANCE ArtifactCatalog WITH status <- [c \in Calls |-> Status(pc[c])]
ImplementsCatalog == Catalog!Spec

\* Every call ends: those that wait for a slug or a row never wait for each
\* other, and a handler that returns early leaves nothing locked.
EveryCallEnds == <>[](\A c \in Calls : pc[c] \in {"idle"} \cup Ended)

\* "Retry on unique-constraint violation with a -N suffix until we settle"
\* (artifact_propose.go:998): a taken slug alone does not fail a create, as long
\* as one of the ten slugs of the loop is free.  No artifact of the model has a
\* slug with a suffix.
SlugRetrySettles == \A c \in Calls : pc[c] # "slug_failed"

=============================================================================
