----------------------- MODULE ArtifactLifecycle_proofs -----------------------
(***************************************************************************)
(* What overlapping creates, supersedes, reviews and promotions keep true, *)
(* for any calls, seeds, receipts and requests.                            *)
(***************************************************************************)
EXTENDS ArtifactLifecycle, TLAPS

\* What a call asks for and has found when it is at a statement.
AtRightStep(c) ==
    /\ pc[c] # "idle" => req[c] \in Requests
    /\ pc[c] \in {"receipt", "title"} => req[c].op = "create"
    /\ pc[c] \in {"resolve", "bookkeep"} => req[c].op = "supersede"
    /\ pc[c] \in {"insert", "aborted"} => Makes(c)
    /\ pc[c] \in {"find", "decide"} => req[c].op = "review"
    /\ pc[c] \in {"read", "promote"} => req[c].op = "settle"

HasTarget(c) ==
    /\ pc[c] = "idle" \/ req[c].op = "create" => target[c] = NoArtifact
    /\ pc[c] \in {"insert", "bookkeep", "decide", "promote", "commit"} /\ req[c].op # "create" =>
          target[c] \in Artifacts /\ There(target[c])

HasDraft(c) ==
    pc[c] = "bookkeep" \/ (pc[c] = "commit" /\ Makes(c)) =>
        /\ draft[c].status = "published"
        /\ draft[c].review \in {"auto_published", "pending_review"}
        /\ draft[c].superseded_by = NoArtifact

Local(c) == AtRightStep(c) /\ HasTarget(c) /\ HasDraft(c)

\* c sent r, Verify accepted it, and c is not given up.
Uses(c, r) ==
    /\ pc[c] \in {"title", "insert", "aborted", "commit", "accepted", "slug_failed"}
    /\ req[c].op = "create" /\ req[c].receipt = r

ReceiptsOnce ==
    \A r \in OneUse : \A c \in Calls :
        Uses(c, r) => r \notin receipts /\ \A d \in Calls : Uses(d, r) => c = d

BornBefore == \A a \in Artifacts : rows[a].born <= clock

IInv ==
    /\ TypeOK
    /\ \A c \in Calls : Local(c)
    /\ AllOrNothing
    /\ ReceiptsOnce
    /\ BornBefore
    /\ SupersessionMovesForward
    /\ ReviewMatchesStatus

-----------------------------------------------------------------------------
LEMMA NoRowType == NoRow \in Rows /\ NoRow.status = "none"
                                  /\ NoRow.superseded_by = NoArtifact /\ NoRow.born = 0
  BY SomeOfEach DEF NoRow, Rows, Statuses, ReviewStates

LEMMA RequestType ==
    ASSUME NEW r \in Requests
    PROVE  /\ r.op \in {"create", "supersede", "review", "settle"}
           /\ r # NoRequest
           /\ r.op \in {"create", "supersede"} =>
                r.slug \in Slugs /\ r.title \in Titles /\ r.author \in Authors
                                 /\ r.settled \in BOOLEAN
           /\ r.op = "settle" => r.author \in Authors
  BY RequestTypes DEF CreateRequests, SupersedeRequests, ReviewRequests, SettleRequests, NoRequest

LEMMA InitInv == Init => IInv
  <1> SUFFICES ASSUME Init PROVE IInv
    OBVIOUS
  <1>1. PICK given \in [Seeds -> SeedRows] :
           rows = [a \in Artifacts |-> IF a \in Seeds THEN given[a] ELSE NoRow]
    BY DEF Init
  <1>2. \A a \in Artifacts : /\ rows[a] \in Rows
                             /\ rows[a].superseded_by = NoArtifact /\ rows[a].born = 0
                             /\ rows[a].status \in {"none", "published"}
                             /\ rows[a].review # "rejected"
    <2> SUFFICES ASSUME NEW a \in Artifacts
                 PROVE  /\ rows[a] \in Rows
                        /\ rows[a].superseded_by = NoArtifact /\ rows[a].born = 0
                        /\ rows[a].status \in {"none", "published"}
                        /\ rows[a].review # "rejected"
      OBVIOUS
    <2>1. CASE a \in Seeds
      <3>1. rows[a] = given[a] /\ given[a] \in SeedRows
        BY <1>1, <2>1
      <3> QED
        BY <3>1, SeedTypes
    <2>2. CASE a \notin Seeds
      <3>1. rows[a] = NoRow
        BY <1>1, <2>2
      <3> QED
        BY <3>1, NoRowType DEF NoRow
    <2> QED
      BY <2>1, <2>2
  <1>3. \A c \in Calls : ~There(c)
    BY <1>1, CallsAreNew, NoRowType DEF There, Artifacts
  <1>4. TypeOK
    <2>1. rows \in [Artifacts -> Rows]
      BY <1>1, <1>2
    <2> QED
      BY <2>1, Bounds, NoRowType DEF Init, TypeOK, PCs
  <1>5. \A c \in Calls : Local(c)
    BY DEF Init, Local, AtRightStep, HasTarget, HasDraft
  <1>6. AllOrNothing
    BY <1>2, <1>3, CallsAreNew DEF AllOrNothing, Init, Artifacts
  <1>7. ReceiptsOnce /\ BornBefore
    BY <1>2 DEF ReceiptsOnce, Uses, BornBefore, Init
  <1>8. SupersessionMovesForward /\ ReviewMatchesStatus
    BY <1>2 DEF SupersessionMovesForward, ReviewMatchesStatus
  <1> QED
    BY <1>4, <1>5, <1>6, <1>7, <1>8 DEF IInv

-----------------------------------------------------------------------------
\* A step of c's that writes no table.
LEMMA OneMoves ==
    ASSUME IInv, NEW c \in Calls, TypeOK',
           UNCHANGED <<rows, clock>>, receipts' \subseteq receipts,
           \A d \in Calls \ {c} :
               pc'[d] = pc[d] /\ req'[d] = req[d] /\ draft'[d] = draft[d] /\ target'[d] = target[d],
           Local(c)', pc[c] # "accepted", pc'[c] # "accepted",
           \A r \in OneUse : Uses(c, r)' => Uses(c, r) \/ (r \in receipts /\ r \notin receipts')
    PROVE  IInv'
  <1>1. \A d \in Calls : Local(d)'
    BY DEF IInv, Local, AtRightStep, HasTarget, HasDraft, Makes, There
  <1>2. AllOrNothing'
    BY DEF IInv, AllOrNothing, Makes, There
  <1>3. ReceiptsOnce'
    <2>1. \A d \in Calls, r \in OneUse : d # c => (Uses(d, r)' <=> Uses(d, r))
      BY DEF Uses
    <2> QED
      BY <2>1 DEF IInv, ReceiptsOnce
  <1>4. BornBefore' /\ SupersessionMovesForward' /\ ReviewMatchesStatus'
    BY DEF IInv, BornBefore, SupersessionMovesForward, ReviewMatchesStatus, There
  <1> QED
    BY <1>1, <1>2, <1>3, <1>4 DEF IInv

\* ... and that only goes on to another statement.
LEMMA OneGoesOn ==
    ASSUME IInv, NEW c \in Calls, NEW l \in PCs, Goto(c, l),
           UNCHANGED <<rows, receipts, req, draft, target, seen, clock, faults>>,
           Local(c)', pc[c] # "accepted", l # "accepted",
           \A r \in OneUse : Uses(c, r)' => Uses(c, r)
    PROVE  IInv'
  <1>1. TypeOK'
    BY DEF IInv, TypeOK, Goto
  <1>2. pc' = [pc EXCEPT ![c] = l] /\ pc \in [Calls -> PCs]
    BY DEF IInv, TypeOK, Goto
  <1> QED
    BY <1>1, <1>2, OneMoves

LEMMA SubmitInv == ASSUME IInv, NEW c \in Calls, Submit(c) PROVE IInv'
  <1>1. PICK r \in Requests : req' = [req EXCEPT ![c] = r] /\ Goto(c, FirstStep(r.op))
    BY DEF Submit
  <1>2. r.op \in {"create", "supersede", "review", "settle"}
    BY RequestType
  <1>3. FirstStep(r.op) \in {"receipt", "resolve", "find", "read"}
    BY DEF FirstStep
  <1>4. TypeOK'
    BY <1>1, <1>3 DEF IInv, TypeOK, Submit, Goto, PCs, BeforeTx
  <1>5. pc \in [Calls -> PCs] /\ req \in [Calls -> Requests \cup {NoRequest}]
    BY DEF IInv, TypeOK
  <1>6. pc'[c] = FirstStep(r.op) /\ req'[c] = r /\ target'[c] = NoArtifact
    BY <1>1, <1>5 DEF Goto, Submit, IInv, Local, HasTarget
  <1>7. Local(c)'
    BY <1>2, <1>6 DEF Local, AtRightStep, HasTarget, HasDraft, FirstStep
  <1> QED
    BY <1>1, <1>3, <1>4, <1>5, <1>6, <1>7, OneMoves DEF Submit, Goto, Uses

LEMMA VerifyReceiptInv == ASSUME IInv, NEW c \in Calls, VerifyReceipt(c) PROVE IInv'
  <1>1. pc \in [Calls -> PCs] /\ receipts \subseteq Receipts
    BY DEF IInv, TypeOK
  <1>2. req[c] \in Requests /\ req[c].op = "create" /\ pc[c] = "receipt" /\ target[c] = NoArtifact
    BY DEF IInv, Local, AtRightStep, HasTarget, VerifyReceipt
  <1>3. PICK l \in {"title", "refused"} : Goto(c, l)
    BY DEF VerifyReceipt
  <1>4. pc' = [pc EXCEPT ![c] = l]
    BY <1>3 DEF Goto
  <1>5. receipts' \subseteq receipts
    BY DEF VerifyReceipt, Consumed
  <1>6. TypeOK'
    BY <1>1, <1>4, <1>5 DEF IInv, TypeOK, VerifyReceipt, PCs, BeforeTx, Ended
  <1>7. Local(c)'
    BY <1>1, <1>2, <1>4 DEF Local, AtRightStep, HasTarget, HasDraft, VerifyReceipt
  <1>8. ASSUME NEW r \in OneUse, Uses(c, r)' PROVE r \in receipts /\ r \notin receipts'
    <2>1. l = "title" /\ req[c].receipt = r
      BY <1>1, <1>4, <1>8 DEF Uses, VerifyReceipt
    <2>2. r # NoReceipt
      BY OneUseReceipts
    <2>3. r \in receipts /\ receipts' = Consumed(r)
      BY <1>1, <1>2, <1>4, <2>1, <2>2 DEF VerifyReceipt, Goto
    <2> QED
      BY <2>3 DEF Consumed
  <1> QED
    BY <1>1, <1>2, <1>4, <1>5, <1>6, <1>7, <1>8, OneMoves DEF VerifyReceipt

LEMMA LookupInv ==
    ASSUME IInv, NEW c \in Calls, NEW found, NEW l \in {"insert", "decide", "promote"},
           found \subseteq {a \in Artifacts : There(a)}, Lookup(c, found, l),
           seen' \in [Calls -> BOOLEAN], req[c] \in Requests, req[c].op # "create",
           pc[c] \in {"resolve", "find", "read"},
           l = "insert" => req[c].op = "supersede",
           l = "decide" => req[c].op = "review",
           l = "promote" => req[c].op = "settle"
    PROVE  IInv'
  <1>1. pc \in [Calls -> PCs] /\ target \in [Calls -> Artifacts \cup {NoArtifact}]
    BY DEF IInv, TypeOK
  <1>2. /\ \A d \in Calls \ {c} : target'[d] = target[d] /\ pc'[d] = pc[d]
        /\ target' \in [Calls -> Artifacts \cup {NoArtifact}]
        /\ pc'[c] = "refused" \/ (pc'[c] = l /\ target'[c] \in found)
        /\ pc' \in [Calls -> PCs]
    <2>1. CASE found = {}
      BY <1>1, <2>1 DEF Lookup, Goto, PCs, Ended
    <2>2. CASE found # {}
      <3>1. PICK a \in found : target' = [target EXCEPT ![c] = a]
        BY <2>2 DEF Lookup
      <3> QED
        BY <1>1, <2>2, <3>1 DEF Lookup, Goto, PCs, BeforeTx, InTx
    <2> QED
      BY <2>1, <2>2
  <1>3. TypeOK'
    BY <1>2 DEF IInv, TypeOK, Lookup
  <1>4. Local(c)'
    BY <1>2 DEF Lookup, Local, AtRightStep, HasTarget, HasDraft, There, Makes
  <1>5. receipts' \subseteq receipts /\ UNCHANGED <<rows, clock, req, draft>>
    BY DEF Lookup
  <1>6. \A r \in OneUse : ~Uses(c, r)'
    BY <1>5 DEF Uses
  <1> QED
    BY <1>2, <1>3, <1>4, <1>5, <1>6, OneMoves

LEMMA FindsInv ==
    ASSUME IInv, NEW c \in Calls, ResolveSupersede(c) \/ FindPending(c) \/ ReadHead(c)
    PROVE  IInv'
  <1>1. seen \in [Calls -> BOOLEAN]
    BY DEF IInv, TypeOK
  <1>2. Local(c)
    BY DEF IInv
  <1>3. CASE ResolveSupersede(c)
    <2>1. req[c] \in Requests /\ req[c].op = "supersede"
      BY <1>2, <1>3 DEF Local, AtRightStep, ResolveSupersede
    <2> QED
      BY <1>1, <1>3, <2>1, LookupInv DEF ResolveSupersede, Named
  <1>4. CASE FindPending(c)
    <2>1. req[c] \in Requests /\ req[c].op = "review"
      BY <1>2, <1>4 DEF Local, AtRightStep, FindPending
    <2> QED
      BY <1>1, <1>4, <2>1, LookupInv DEF FindPending, Named
  <1>5. CASE ReadHead(c)
    <2>1. req[c] \in Requests /\ req[c].op = "settle"
      BY <1>2, <1>5 DEF Local, AtRightStep, ReadHead
    <2>2. seen' \in [Calls -> BOOLEAN]
      BY <1>1, <1>5 DEF ReadHead
    <2>3. Lookup(c, Named(req[c].of), "promote")
      BY <1>5 DEF ReadHead
    <2>4. Named(req[c].of) \subseteq {a \in Artifacts : There(a)}
      BY DEF Named
    <2> QED
      BY <1>5, <2>1, <2>2, <2>3, <2>4, LookupInv DEF ReadHead
  <1> QED
    BY <1>3, <1>4, <1>5

LEMMA InsertInv == ASSUME IInv, NEW c \in Calls, Insert(c) PROVE IInv'
  <1>1. pc \in [Calls -> PCs] /\ draft \in [Calls -> Rows] /\ Local(c)
    BY DEF IInv, TypeOK
  <1>2. req[c] \in Requests /\ req[c].op \in {"create", "supersede"} /\ pc[c] = "insert"
    BY <1>1 DEF Local, AtRightStep, Makes, Insert
  <1>3. PICK mode \in {"auto", "confirm"} : draft' = [draft EXCEPT ![c] = Inserted(c, mode)]
    BY DEF Insert
  <1>4. /\ Inserted(c, mode) \in Rows
        /\ Inserted(c, mode).status = "published"
        /\ Inserted(c, mode).review \in {"auto_published", "pending_review"}
        /\ Inserted(c, mode).superseded_by = NoArtifact
    BY <1>2, RequestType DEF Inserted, Rows, Statuses, ReviewStates, ReviewStateFor
  <1>5. /\ draft' \in [Calls -> Rows] /\ draft'[c] = Inserted(c, mode)
        /\ pc'[c] = IF req[c].op = "supersede" THEN "bookkeep" ELSE "commit"
        /\ \A d \in Calls \ {c} : pc'[d] = pc[d] /\ draft'[d] = draft[d]
        /\ pc' \in [Calls -> PCs]
    BY <1>1, <1>3, <1>4 DEF Insert, Goto, PCs, InTx
  <1>6. TypeOK'
    BY <1>5 DEF IInv, TypeOK, Insert
  <1>7. Local(c)'
    BY <1>1, <1>2, <1>4, <1>5 DEF Local, AtRightStep, HasTarget, HasDraft, Makes, There, Insert
  <1>8. \A r \in OneUse : Uses(c, r)' => Uses(c, r)
    BY <1>2 DEF Uses, Insert
  <1> QED
    BY <1>2, <1>5, <1>6, <1>7, <1>8, OneMoves DEF Insert

\* The steps that only look whether they can go on.
LEMMA GoesOnInv ==
    ASSUME IInv, NEW c \in Calls,
           TitleCheck(c) \/ SlugTaken(c) \/ InsertAgain(c) \/ Supersede(c) \/ Decide(c) \/ Promote(c)
    PROVE  IInv'
  <1>1. pc \in [Calls -> PCs] /\ Local(c)
    BY DEF IInv, TypeOK
  <1> DEFINE Moves(l) ==
                 /\ pc' = [pc EXCEPT ![c] = l]
                 /\ UNCHANGED <<rows, receipts, req, draft, target, seen, clock, faults>>
  <1>2. CASE TitleCheck(c)
    <2>1. PICK l \in {"refused", "insert"} : Moves(l)
      BY <1>2 DEF TitleCheck, Goto
    <2>2. pc[c] = "title" /\ req[c].op = "create"
      BY <1>1, <1>2 DEF TitleCheck, Local, AtRightStep
    <2>3. Local(c)'
      BY <1>1, <2>1, <2>2 DEF Local, AtRightStep, HasTarget, HasDraft, Makes, There
    <2>4. \A r \in OneUse : Uses(c, r)' => Uses(c, r)
      BY <2>1, <2>2 DEF Uses
    <2> QED
      BY <2>1, <2>2, <2>3, <2>4, OneGoesOn DEF Goto, PCs, BeforeTx, Ended
  <1>3. CASE SlugTaken(c) \/ InsertAgain(c)
    <2>1. PICK l \in {"aborted", "slug_failed"} : Moves(l) /\ (l = "aborted" => pc[c] = "insert")
      BY <1>3 DEF SlugTaken, InsertAgain, Goto
    <2>2. pc[c] \in {"insert", "aborted"}
      BY <1>3 DEF SlugTaken, InsertAgain
    <2>3. Local(c)'
      BY <1>1, <2>1, <2>2 DEF Local, AtRightStep, HasTarget, HasDraft, Makes, There
    <2>4. \A r \in OneUse : Uses(c, r)' => Uses(c, r)
      BY <2>1, <2>2 DEF Uses
    <2> QED
      BY <2>1, <2>2, <2>3, <2>4, OneGoesOn DEF Goto, PCs, InTx, Ended
  <1>4. CASE Supersede(c) \/ Decide(c) \/ Promote(c)
    <2>1. PICK l \in {"commit", "failed"} : Moves(l)
      BY <1>4 DEF Supersede, Decide, Promote, Goto
    <2>2. pc[c] \in {"bookkeep", "decide", "promote"} /\ req[c].op # "create"
      BY <1>1, <1>4 DEF Supersede, Decide, Promote, Local, AtRightStep
    <2>3. pc[c] # "bookkeep" => ~Makes(c)
      BY <1>1, <2>2 DEF Makes, Local, AtRightStep
    <2>4. Local(c)'
      BY <1>1, <2>1, <2>2, <2>3 DEF Local, AtRightStep, HasTarget, HasDraft, Makes, There
    <2>5. \A r \in OneUse : ~Uses(c, r)'
      BY <2>1, <2>2 DEF Uses
    <2> QED
      BY <2>1, <2>2, <2>4, <2>5, OneGoesOn DEF Goto, PCs, InTx, Ended
  <1> QED
    BY <1>2, <1>3, <1>4

\* A call that is given up.
LEMMA GivenUpInv ==
    ASSUME IInv, NEW c \in Calls, Refuse(c) \/ Fault(c)
    PROVE  IInv'
  <1>1. pc \in [Calls -> PCs] /\ draft \in [Calls -> Rows] /\ Local(c) /\ faults \in 0 .. MaxFaults
    BY DEF IInv, TypeOK
  <1>2. pc[c] \in BeforeTx \cup InTx
    BY DEF Refuse, Fault
  <1>3. PICK l \in {"refused", "failed"} : Rollback(c, l)
    BY DEF Refuse, Fault
  <1>4. /\ pc' = [pc EXCEPT ![c] = l] /\ draft' = [draft EXCEPT ![c] = NoRow]
        /\ UNCHANGED <<rows, receipts, req, target, seen, clock>>
    BY <1>3 DEF Rollback, Goto, Refuse, Fault
  <1>5. faults' \in 0 .. MaxFaults
    BY <1>1, Bounds DEF Refuse, Fault
  <1>6. TypeOK'
    BY <1>1, <1>4, <1>5, NoRowType DEF IInv, TypeOK, PCs, Ended
  <1>7. req[c] \in Requests
    BY <1>1, <1>2 DEF Local, AtRightStep, BeforeTx, InTx
  <1>8. Local(c)'
    BY <1>1, <1>2, <1>4, <1>7 DEF Local, AtRightStep, HasTarget, HasDraft, BeforeTx, InTx
  <1>9. \A r \in OneUse : ~Uses(c, r)'
    BY <1>1, <1>4 DEF Uses
  <1>10. pc[c] # "accepted" /\ pc'[c] # "accepted"
    BY <1>1, <1>2, <1>4 DEF BeforeTx, InTx
  <1> QED
    BY <1>1, <1>4, <1>6, <1>8, <1>9, <1>10, OneMoves

LEMMA RestartInv == ASSUME IInv, Restart PROVE IInv'
  <1>1. pc \in [Calls -> PCs] /\ faults \in 0 .. MaxFaults
    BY DEF IInv, TypeOK
  <1>2. \A c \in Calls : pc'[c] = (IF pc[c] \in BeforeTx \cup InTx THEN "failed" ELSE pc[c])
    BY DEF Restart
  <1>3. UNCHANGED <<rows, req, target, seen, clock>> /\ receipts' = {}
    BY DEF Restart
  <1>4. TypeOK'
    <2>1. faults' \in 0 .. MaxFaults
      BY <1>1, Bounds DEF Restart
    <2>2. pc' \in [Calls -> PCs]
      BY <1>1 DEF Restart, PCs, Ended
    <2>3. draft' \in [Calls -> Rows]
      BY NoRowType DEF Restart
    <2> QED
      BY <1>3, <2>1, <2>2, <2>3 DEF IInv, TypeOK
  <1>5. ASSUME NEW c \in Calls PROVE Local(c)'
    <2>1. Local(c)
      BY DEF IInv
    <2>2. pc'[c] \in {"idle", "failed"} \cup Ended
      BY <1>1, <1>2 DEF PCs
    <2>3. pc'[c] = "idle" <=> pc[c] = "idle"
      BY <1>1, <1>2 DEF BeforeTx, InTx
    <2> QED
      BY <1>3, <2>1, <2>2, <2>3 DEF Local, AtRightStep, HasTarget, HasDraft, Ended
  <1>6. AllOrNothing'
    BY <1>2, <1>3 DEF IInv, AllOrNothing, Makes, There, BeforeTx, InTx
  <1>7. ReceiptsOnce'
    <2>1. \A c \in Calls, r \in OneUse : Uses(c, r)' => Uses(c, r)
      BY <1>2, <1>3 DEF Uses, BeforeTx, InTx
    <2> QED
      BY <1>3, <2>1 DEF IInv, ReceiptsOnce
  <1>8. BornBefore' /\ SupersessionMovesForward' /\ ReviewMatchesStatus'
    BY <1>3 DEF IInv, BornBefore, SupersessionMovesForward, ReviewMatchesStatus, There
  <1> QED
    BY <1>4, <1>5, <1>6, <1>7, <1>8 DEF IInv

LEMMA ExpireInv == ASSUME IInv, NEW r \in Receipts, Expire(r) PROVE IInv'
  <1>1. UNCHANGED <<rows, pc, req, draft, target, seen, clock, faults>> /\ receipts' \subseteq receipts
    BY DEF Expire
  <1>2. TypeOK' /\ \A c \in Calls : Local(c)'
    BY <1>1 DEF IInv, TypeOK, Local, AtRightStep, HasTarget, HasDraft, Makes, There
  <1>3. AllOrNothing' /\ ReceiptsOnce' /\ BornBefore'
    BY <1>1 DEF IInv, AllOrNothing, ReceiptsOnce, Uses, BornBefore, Makes, There
  <1>4. SupersessionMovesForward' /\ ReviewMatchesStatus'
    BY <1>1 DEF IInv, SupersessionMovesForward, ReviewMatchesStatus, There
  <1> QED
    BY <1>2, <1>3, <1>4 DEF IInv

-----------------------------------------------------------------------------
\* A commit that rewrites an artifact's status and review state.
LEMMA RewriteInv ==
    ASSUME IInv, NEW c \in Calls, NEW row \in Rows,
           pc[c] = "commit", ~Makes(c), Goto(c, "accepted"),
           rows' = [rows EXCEPT ![target[c]] = row],
           UNCHANGED <<receipts, req, draft, target, seen, clock, faults>>,
           row.status # "none", row.born = rows[target[c]].born,
           row.superseded_by = rows[target[c]].superseded_by,
           row.status = "superseded" => rows[target[c]].status = "superseded",
           row.review = "rejected" => row.status \in {"archived", "superseded"},
           row.status = "archived" => row.review \in {"rejected", "pending_review"}
    PROVE  IInv'
  <1>1. pc \in [Calls -> PCs] /\ rows \in [Artifacts -> Rows]
    BY DEF IInv, TypeOK
  <1>2. target[c] \in Artifacts /\ There(target[c])
    BY DEF IInv, Local, HasTarget, Makes
  <1>3. /\ rows'[target[c]] = row
        /\ \A a \in Artifacts \ {target[c]} : rows'[a] = rows[a]
        /\ rows' \in [Artifacts -> Rows]
    BY <1>1, <1>2
  <1>4. /\ pc'[c] = "accepted" /\ \A d \in Calls \ {c} : pc'[d] = pc[d]
        /\ pc' \in [Calls -> PCs]
    BY <1>1 DEF Goto, PCs, Ended
  <1>5. \A a \in Artifacts : /\ There(a)' <=> There(a)
                             /\ rows'[a].born = rows[a].born
                             /\ rows'[a].superseded_by = rows[a].superseded_by
    BY <1>2, <1>3 DEF There
  <1>6. TypeOK'
    BY <1>3, <1>4 DEF IInv, TypeOK
  <1>7. \A d \in Calls : Local(d)'
    BY <1>4, <1>5 DEF IInv, Local, AtRightStep, HasTarget, HasDraft, Makes
  <1>8. AllOrNothing'
    BY <1>4, <1>5 DEF IInv, AllOrNothing, Makes, Artifacts
  <1>9. ReceiptsOnce'
    <2>1. \A d \in Calls, r \in OneUse : Uses(d, r)' => Uses(d, r)
      BY <1>4 DEF Uses, Makes
    <2> QED
      BY <2>1 DEF IInv, ReceiptsOnce
  <1>10. BornBefore'
    BY <1>5 DEF IInv, BornBefore
  <1>11. SupersessionMovesForward'
    <2>1. ASSUME NEW a \in Artifacts
          PROVE  rows'[a].status = "superseded" => rows'[a].superseded_by # NoArtifact
      <3>1. rows'[a].status = "superseded" => rows[a].status = "superseded"
        BY <1>3
      <3> QED
        BY <1>5, <3>1 DEF IInv, SupersessionMovesForward
    <2>2. ASSUME NEW a \in Artifacts, NEW b \in Artifacts, rows'[a].superseded_by = b
          PROVE  rows'[b].status # "none" /\ rows'[a].born < rows'[b].born
      <3>1. rows[a].superseded_by = b
        BY <1>5, <2>2
      <3>2. There(b) /\ rows[a].born < rows[b].born
        BY <3>1, CallsAreNew DEF IInv, SupersessionMovesForward
      <3> QED
        BY <1>5, <3>2 DEF There
    <2>3. \A a \in Artifacts : rows'[a].superseded_by \in Artifacts \cup {NoArtifact}
      BY <1>3 DEF Rows
    <2> QED
      BY <2>1, <2>2, <2>3 DEF SupersessionMovesForward, There
  <1>12. ReviewMatchesStatus'
    BY <1>3 DEF IInv, ReviewMatchesStatus, There
  <1> QED
    BY <1>6, <1>7, <1>8, <1>9, <1>10, <1>11, <1>12 DEF IInv

LEMMA CommitReviewInv == ASSUME IInv, NEW c \in Calls, CommitReview(c) PROVE IInv'
  <1> DEFINE old == rows[target[c]]
             row == Decided(old, req[c].decision)
  <1>1. rows \in [Artifacts -> Rows] /\ pc[c] = "commit" /\ ~Makes(c)
    BY DEF IInv, TypeOK, CommitReview, Makes
  <1>2. target[c] \in Artifacts
    BY <1>1 DEF IInv, Local, HasTarget, Makes
  <1>3. old \in Rows
    BY <1>1, <1>2
  <1>4. /\ row \in Rows /\ row.born = old.born /\ row.superseded_by = old.superseded_by
        /\ \/ row.status = "published" /\ row.review = "approved"
           \/ row.status = "archived" /\ row.review = "rejected"
    BY <1>3 DEF Decided, Rows, Statuses, ReviewStates
  <1>5. rows' = [rows EXCEPT ![target[c]] = row]
    BY DEF CommitReview
  <1> HIDE DEF row
  <1> QED
    BY <1>1, <1>4, <1>5, RewriteInv DEF CommitReview

LEMMA CommitUpdateInv == ASSUME IInv, NEW c \in Calls, CommitUpdate(c) PROVE IInv'
  <1>1. PICK mode \in {"auto", "confirm"} :
           rows' = [rows EXCEPT ![target[c]] =
                        Promoted(@, ReviewStateFor(mode, ~seen[c]), req[c].author)]
    BY DEF CommitUpdate
  <1> DEFINE old == rows[target[c]]
             row == Promoted(old, ReviewStateFor(mode, ~seen[c]), req[c].author)
  <1>2. rows \in [Artifacts -> Rows] /\ pc[c] = "commit" /\ ~Makes(c)
    BY DEF IInv, TypeOK, CommitUpdate, Makes
  <1>3. target[c] \in Artifacts /\ There(target[c])
    BY <1>2 DEF IInv, Local, HasTarget, Makes, CommitUpdate
  <1>4. old \in Rows /\ req[c].author \in Authors
    <2>1. req[c] \in Requests /\ req[c].op = "settle"
      BY <1>2 DEF IInv, Local, AtRightStep, CommitUpdate
    <2> QED
      BY <1>2, <1>3, <2>1, RequestType
  <1>5. /\ row \in Rows /\ row.born = old.born /\ row.superseded_by = old.superseded_by
        /\ row.status = old.status /\ row.review \in {"pending_review", old.review}
    BY <1>4 DEF Promoted, ReviewStateFor, Rows, ReviewStates
  <1>6. /\ old.review = "rejected" => old.status \in {"archived", "superseded"}
        /\ old.status = "archived" => old.review \in {"rejected", "pending_review"}
        /\ old.status # "none"
    BY <1>3 DEF IInv, ReviewMatchesStatus, There
  <1>7. rows' = [rows EXCEPT ![target[c]] = row]
    BY <1>1
  <1>8. row.review = "rejected" => row.status \in {"archived", "superseded"}
    BY <1>5, <1>6
  <1>9. row.status = "archived" => row.review \in {"rejected", "pending_review"}
    BY <1>5, <1>6
  <1> HIDE DEF row
  <1> QED
    BY <1>2, <1>5, <1>6, <1>7, <1>8, <1>9, RewriteInv DEF CommitUpdate

\* The commit of a create: its row, and the one that it supersedes.
LEMMA CommitCreateInv == ASSUME IInv, NEW c \in Calls, CommitCreate(c) PROVE IInv'
  <1> DEFINE t == target[c]
             fresh == [draft[c] EXCEPT !.born = clock + 1]
  <1>1. /\ pc \in [Calls -> PCs] /\ rows \in [Artifacts -> Rows] /\ draft \in [Calls -> Rows]
        /\ clock \in Nat /\ Local(c) /\ c \in Artifacts
    BY DEF IInv, TypeOK, Artifacts
  <1>2. pc[c] = "commit" /\ Makes(c) /\ clock' = clock + 1
    BY DEF CommitCreate
  <1>3. ~There(c) /\ \A a \in Artifacts : rows[a].superseded_by # c
    BY <1>2 DEF IInv, AllOrNothing
  <1>4. t # c /\ (t \in Artifacts => There(t))
    <2>1. CASE req[c].op = "create"
      BY <1>1, <2>1, CallsAreNew DEF Local, HasTarget
    <2>2. CASE req[c].op = "supersede"
      BY <1>1, <1>2, <1>3, <2>2 DEF Local, HasTarget
    <2> QED
      BY <1>2, <2>1, <2>2 DEF Makes
  <1>5. /\ fresh \in Rows /\ fresh.status = "published" /\ fresh.born = clock + 1
        /\ fresh.review \in {"auto_published", "pending_review"} /\ fresh.superseded_by = NoArtifact
    <2>1. draft[c] \in Rows
      BY <1>1
    <2>2. /\ draft[c].status = "published" /\ draft[c].superseded_by = NoArtifact
          /\ draft[c].review \in {"auto_published", "pending_review"}
      BY <1>1, <1>2 DEF Local, HasDraft
    <2> QED
      BY <1>1, <2>1, <2>2 DEF Rows
  <1>6. ASSUME NEW a \in Artifacts
        PROVE  /\ Superseded(rows[a], c) \in Rows
               /\ Superseded(rows[a], c).status = "superseded"
               /\ Superseded(rows[a], c).superseded_by = c
               /\ Superseded(rows[a], c).born = rows[a].born
               /\ Superseded(rows[a], c).slug = rows[a].slug
    <2>1. rows[a] \in Rows
      BY <1>1
    <2> QED
      BY <1>1, <2>1 DEF Superseded, Rows, Statuses
  <1>7. rows' = [a \in Artifacts |-> IF a = c THEN fresh
                                     ELSE IF a = t THEN Superseded(rows[a], c) ELSE rows[a]]
    BY DEF CommitCreate
  <1> HIDE DEF t, fresh
  <1>8. /\ rows' \in [Artifacts -> Rows]
        /\ rows'[c] = fresh
        /\ t \in Artifacts => rows'[t] = Superseded(rows[t], c)
        /\ \A a \in Artifacts \ {c, t} : rows'[a] = rows[a]
    BY <1>1, <1>4, <1>5, <1>6, <1>7
  <1>9. \A a \in Artifacts : There(a)' <=> There(a) \/ a = c
    BY <1>4, <1>5, <1>6, <1>8 DEF There
  <1>10. \A a \in Artifacts \ {c} : rows'[a].born = rows[a].born
    BY <1>6, <1>8
  <1>11. /\ pc' \in [Calls -> PCs] /\ pc'[c] = "accepted"
         /\ draft' \in [Calls -> Rows]
         /\ \A d \in Calls \ {c} : pc'[d] = pc[d] /\ draft'[d] = draft[d]
         /\ UNCHANGED <<receipts, req, target, seen, faults>>
    BY <1>1, NoRowType DEF CommitCreate, Goto, PCs, Ended
  <1>12. TypeOK'
    BY <1>1, <1>2, <1>8, <1>11 DEF IInv, TypeOK
  <1>13. ASSUME NEW d \in Calls PROVE Local(d)'
    <2>1. Local(d)
      BY DEF IInv
    <2>2. CASE d = c
      BY <1>2, <1>11, <2>1, <2>2 DEF Local, AtRightStep, HasTarget, HasDraft, Makes
    <2>3. CASE d # c
      BY <1>9, <1>11, <2>1, <2>3 DEF Local, AtRightStep, HasTarget, HasDraft, Makes
    <2> QED
      BY <2>2, <2>3
  <1>14. AllOrNothing'
    <2>1. CASE ~There(c)
      <3>1. Makes(c)' /\ There(c)'
        BY <1>1, <1>2, <1>9, <1>11 DEF Makes
      <3>2. ASSUME NEW d \in Calls, d # c, ~(pc[d] = "accepted" /\ Makes(d))
            PROVE  ~There(d)' /\ \A a \in Artifacts : rows'[a].superseded_by # d
        <4>1. d \in Artifacts /\ ~There(d) /\ \A a \in Artifacts : rows[a].superseded_by # d
          BY <3>2 DEF IInv, AllOrNothing, Artifacts
        <4>2. d # NoArtifact
          BY <4>1, CallsAreNew
        <4> QED
          BY <1>5, <1>6, <1>8, <1>9, <3>2, <4>1, <4>2
      <3>3. ASSUME NEW d \in Calls, d # c, pc[d] = "accepted", Makes(d)
            PROVE  There(d)'
        BY <1>9, <3>3 DEF IInv, AllOrNothing, Artifacts
      <3> QED
        BY <1>11, <3>1, <3>2, <3>3 DEF AllOrNothing, Makes, There
    <2> QED
      BY <1>3, <2>1
  <1>15. ReceiptsOnce'
    <2>1. \A d \in Calls, r \in OneUse : Uses(d, r)' => Uses(d, r)
      BY <1>2, <1>11 DEF Uses
    <2> QED
      BY <1>11, <2>1 DEF IInv, ReceiptsOnce
  <1>16. BornBefore'
    BY <1>1, <1>2, <1>5, <1>8, <1>10 DEF IInv, BornBefore, Rows
  <1>17. SupersessionMovesForward'
    <2>1. ASSUME NEW a \in Artifacts
          PROVE  rows'[a].status = "superseded" => rows'[a].superseded_by # NoArtifact
      BY <1>1, <1>5, <1>6, <1>8, CallsAreNew DEF IInv, SupersessionMovesForward
    <2>2. ASSUME NEW a \in Artifacts, NEW b \in Artifacts, rows'[a].superseded_by = b
          PROVE  rows'[b].status # "none" /\ rows'[a].born < rows'[b].born
      <3>1. a # c
        BY <1>5, <1>8, <2>2, CallsAreNew
      <3>2. CASE a = t
        <4>1. b = c
          BY <1>6, <1>8, <2>2, <3>2
        <4>2. rows[a].born \in Nat /\ rows[a].born <= clock
          BY <1>1 DEF IInv, BornBefore, Rows
        <4> QED
          BY <1>1, <1>5, <1>8, <1>10, <3>1, <4>1, <4>2
      <3>3. CASE a # t
        <4>1. rows[a].superseded_by = b
          BY <1>8, <2>2, <3>1, <3>3
        <4>2. There(b) /\ rows[a].born < rows[b].born /\ b # c
          BY <1>3, <4>1, CallsAreNew DEF IInv, SupersessionMovesForward
        <4> QED
          BY <1>9, <1>10, <3>1, <4>2 DEF There
      <3> QED
        BY <3>2, <3>3
    <2>3. \A a \in Artifacts : rows'[a].superseded_by \in Artifacts \cup {NoArtifact}
      BY <1>8 DEF Rows
    <2> QED
      BY <2>1, <2>2, <2>3 DEF SupersessionMovesForward, There
  <1>18. ReviewMatchesStatus'
    BY <1>5, <1>6, <1>8 DEF IInv, ReviewMatchesStatus, There
  <1> QED
    BY <1>12, <1>13, <1>14, <1>15, <1>16, <1>17, <1>18 DEF IInv

LEMMA NextInv == IInv /\ [Next]_vars => IInv'
  <1> SUFFICES ASSUME IInv, [Next]_vars PROVE IInv'
    OBVIOUS
  <1>1. ASSUME NEW c \in Calls, Step(c) PROVE IInv'
    BY <1>1, VerifyReceiptInv, FindsInv, InsertInv, GoesOnInv, CommitCreateInv,
       CommitReviewInv, CommitUpdateInv DEF Step
  <1>2. ASSUME NEW c \in Calls, Submit(c) \/ Refuse(c) \/ Fault(c) PROVE IInv'
    BY <1>2, SubmitInv, GivenUpInv
  <1>3. CASE Restart
    BY <1>3, RestartInv
  <1>4. ASSUME NEW r \in Receipts, Expire(r) PROVE IInv'
    BY <1>4, ExpireInv
  <1>5. CASE UNCHANGED vars
    <2>1. TypeOK' /\ \A c \in Calls : Local(c)'
      BY <1>5 DEF vars, IInv, TypeOK, Local, AtRightStep, HasTarget, HasDraft, Makes, There
    <2>2. AllOrNothing' /\ ReceiptsOnce' /\ BornBefore'
      BY <1>5 DEF vars, IInv, AllOrNothing, ReceiptsOnce, Uses, BornBefore, Makes, There
    <2>3. SupersessionMovesForward' /\ ReviewMatchesStatus'
      BY <1>5 DEF vars, IInv, SupersessionMovesForward, ReviewMatchesStatus, There
    <2> QED
      BY <2>1, <2>2, <2>3 DEF IInv
  <1> QED
    BY <1>1, <1>2, <1>3, <1>4, <1>5 DEF Next

-----------------------------------------------------------------------------
\* The inductive invariant: the tables, the store and the handlers' variables
\* have their types and agree with one another whatever calls overlap, fail or
\* are cut off by a restart.
THEOREM LifecycleInvariant == Spec => []IInv
  BY InitInv, NextInv, PTL DEF Spec

\* The tables, the store and the handlers' variables have their types.
THEOREM LifecycleTypeCorrect == Spec => []TypeOK
  BY LifecycleInvariant, PTL DEF IInv

\* A one-use receipt admits at most one create: Verify takes it out of the store
\* when it accepts it, so that of all calls not given up one uses it.
THEOREM ReceiptAdmitsOneCreate == Spec => []OneUseReceiptAdmitsOneCreate
  <1>1. IInv => OneUseReceiptAdmitsOneCreate
    <2> SUFFICES ASSUME IInv, NEW r \in OneUse, NEW c \in Calls, NEW d \in Calls,
                        There(c), req[c].op = "create", req[c].receipt = r,
                        There(d), req[d].op = "create", req[d].receipt = r
                 PROVE  c = d
      BY DEF OneUseReceiptAdmitsOneCreate
    <2>1. pc[c] = "accepted" /\ pc[d] = "accepted"
      BY DEF IInv, AllOrNothing
    <2>2. Uses(c, r) /\ Uses(d, r)
      BY <2>1 DEF Uses
    <2> QED
      BY <2>2 DEF IInv, ReceiptsOnce
  <1> QED
    BY <1>1, LifecycleInvariant, PTL

\* A create leaves its row and its supersession when it is accepted, and neither
\* when it is not.
THEOREM CreatesAreAllOrNothing == Spec => []AllOrNothing
  BY LifecycleInvariant, PTL DEF IInv

\* Every successor was made later: superseded_by never closes a circle.
THEOREM SupersessionIsAcyclic == Spec => []SupersessionMovesForward
  BY LifecycleInvariant, PTL DEF IInv

\* No race of reviewers, superseders and promotions leaves a rejected artifact
\* published, or one in the archive that nobody rejected.
THEOREM ReviewAgreesWithStatus == Spec => []ReviewMatchesStatus
  BY LifecycleInvariant, PTL DEF IInv

-----------------------------------------------------------------------------
(* Nobody waits in a circle, and nobody who has ended is waited for.       *)

\* Only a transaction that is open has an uncommitted row.
DraftsAreOpen ==
    \A c \in Calls : draft[c].status # "none" => pc[c] \in {"bookkeep", "commit"} /\ Makes(c)

\* c's INSERT meets the slug that d has inserted, or its UPDATE the row that d
\* has written.
WaitsForSlug(c, d) ==
    pc[c] = "insert" /\ c # d /\ draft[d].status # "none" /\ draft[d].slug = req[c].slug
WaitsForRow(c, d) == pc[c] \in {"bookkeep", "decide", "promote"} /\ Holds(d, target[c])
WaitsFor(c, d) == WaitsForSlug(c, d) \/ WaitsForRow(c, d)

\* Among any calls there is one that waits for none of them, and a call that has
\* ended is waited for by none.
NoCircle ==
    /\ \A S \in SUBSET Calls : S # {} => \E c \in S : \A d \in S : ~WaitsFor(c, d)
    /\ \A c, d \in Calls : WaitsFor(c, d) => pc[d] \in InTx

\* A slug is inserted before a row is updated.
Level(c) == IF pc[c] = "commit" THEN 2 ELSE IF pc[c] = "bookkeep" THEN 1 ELSE 0

\* A call that waits takes no step of its own.
LEMMA WaitersStay ==
  ASSUME NEW c \in Calls, Step(c), NEW d \in Calls
  PROVE  ~WaitsFor(c, d)
  BY DEF WaitsFor, WaitsForSlug, WaitsForRow, Step, VerifyReceipt, ResolveSupersede, TitleCheck,
     FindPending, ReadHead, Insert, SlugTaken, InsertAgain, Supersede, Decide, Promote,
     CommitCreate, CommitReview, CommitUpdate, SlugSettled, RowFree

\* What a step does to the drafts.
LEMMA DraftsMove ==
  ASSUME IInv, DraftsAreOpen, NEW c \in Calls, Submit(c) \/ Step(c) \/ Refuse(c) \/ Fault(c)
  PROVE  DraftsAreOpen'
  <1>1. \A d \in Calls \ {c} : pc'[d] = pc[d] /\ draft'[d] = draft[d] /\ req'[d] = req[d]
    BY DEF IInv, TypeOK, Submit, Step, Refuse, Fault, Rollback, Goto, Lookup, VerifyReceipt,
       ResolveSupersede, TitleCheck, FindPending, ReadHead, Insert, SlugTaken, InsertAgain,
       Supersede, Decide, Promote, CommitCreate, CommitReview, CommitUpdate
  <1>2. draft[c].status # "none" => pc[c] \in {"bookkeep", "commit"} /\ Makes(c)
    BY DEF DraftsAreOpen
  <1>3. CASE Refuse(c) \/ Fault(c) \/ CommitCreate(c)
    <2>1. draft'[c] = NoRow
      BY <1>3 DEF IInv, TypeOK, Refuse, Fault, Rollback, CommitCreate
    <2> QED
      BY <1>1, <2>1, NoRowType DEF DraftsAreOpen, Makes
  <1>4. CASE Insert(c)
    <2>1. pc'[c] \in {"bookkeep", "commit"} /\ req' = req /\ Makes(c)
      BY <1>4 DEF IInv, TypeOK, Insert, Goto, Local, AtRightStep
    <2> QED
      BY <1>1, <2>1 DEF DraftsAreOpen, Makes
  <1>5. CASE Supersede(c)
    <2>1. pc'[c] = "commit" /\ req' = req /\ Makes(c)
      BY <1>5 DEF IInv, TypeOK, Supersede, Goto, Local, AtRightStep, Makes
    <2> QED
      BY <1>1, <2>1 DEF DraftsAreOpen, Makes
  <1>6. CASE \/ Submit(c) \/ VerifyReceipt(c) \/ ResolveSupersede(c) \/ TitleCheck(c)
             \/ FindPending(c) \/ ReadHead(c) \/ SlugTaken(c) \/ InsertAgain(c) \/ Decide(c)
             \/ Promote(c)
    <2>1. draft' = draft /\ pc[c] \notin {"bookkeep", "commit"}
      BY <1>6 DEF Submit, VerifyReceipt, ResolveSupersede, TitleCheck, FindPending, ReadHead,
         SlugTaken, InsertAgain, Decide, Promote, Lookup
    <2> QED
      BY <1>1, <1>2, <2>1 DEF DraftsAreOpen, Makes
  <1>7. CASE CommitReview(c) \/ CommitUpdate(c)
    <2>1. draft' = draft /\ pc[c] = "commit" /\ ~Makes(c)
      BY <1>7 DEF CommitReview, CommitUpdate, Makes
    <2>2. draft[c].status = "none"
      BY <1>2, <2>1
    <2> QED
      BY <1>1, <2>1, <2>2 DEF DraftsAreOpen, Makes
  <1> QED
    BY <1>3, <1>4, <1>5, <1>6, <1>7 DEF Step

LEMMA DraftsOpen == Spec => [](IInv /\ DraftsAreOpen)
  <1>1. Init => DraftsAreOpen
    BY NoRowType DEF Init, DraftsAreOpen
  <1>2. IInv /\ DraftsAreOpen /\ [Next]_vars => (IInv /\ DraftsAreOpen)'
    <2> SUFFICES ASSUME IInv, DraftsAreOpen, [Next]_vars PROVE DraftsAreOpen'
      BY NextInv
    <2>1. CASE Restart
      BY <2>1, NoRowType DEF Restart, DraftsAreOpen
    <2>2. CASE UNCHANGED vars \/ \E r \in Receipts : Expire(r)
      BY <2>2 DEF vars, Expire, DraftsAreOpen, Makes
    <2> QED
      BY <2>1, <2>2, DraftsMove DEF Next
  <1> QED
    BY InitInv, <1>1, <1>2, PTL DEF Spec

LEMMA WaitsClimb ==
  ASSUME DraftsAreOpen, NEW c \in Calls, NEW d \in Calls, WaitsFor(c, d)
  PROVE  Level(c) < Level(d) /\ pc[d] \in InTx
  <1>1. CASE WaitsForSlug(c, d)
    BY <1>1 DEF WaitsForSlug, DraftsAreOpen, Level, InTx
  <1>2. CASE WaitsForRow(c, d)
    BY <1>2 DEF WaitsForRow, Holds, Level, InTx
  <1> QED
    BY <1>1, <1>2 DEF WaitsFor

\* Inserts wait for inserts and for commits, updates for commits, and a call
\* that has returned, early or not, has nothing left that another waits for.
THEOREM LifecycleNeverDeadlocks == Spec => []NoCircle
  <1>1. DraftsAreOpen => NoCircle
    <2> SUFFICES ASSUME DraftsAreOpen, NEW S \in SUBSET Calls, S # {}
                 PROVE  \E c \in S : \A d \in S : ~WaitsFor(c, d)
      BY WaitsClimb DEF NoCircle
    <2>1. \A c \in S : Level(c) \in {0, 1, 2}
      BY DEF Level
    <2>2. PICK c \in S : \A d \in S : Level(d) <= Level(c)
      <3>1. CASE \E c \in S : Level(c) = 2
        BY <2>1, <3>1
      <3>2. CASE (\A c \in S : Level(c) # 2) /\ \E c \in S : Level(c) = 1
        BY <2>1, <3>2
      <3>3. CASE \A c \in S : Level(c) \notin {1, 2}
        BY <2>1, <3>3
      <3> QED
        BY <3>1, <3>2, <3>3
    <2>3. ASSUME NEW d \in S PROVE ~WaitsFor(c, d)
      <3>1. Level(d) <= Level(c) /\ Level(c) \in Nat /\ Level(d) \in Nat
        BY <2>1, <2>2
      <3> QED
        BY <3>1, WaitsClimb
    <2> QED
      BY <2>3
  <1> QED
    BY <1>1, DraftsOpen, PTL

-----------------------------------------------------------------------------
(* The catalogue that its callers see.                                     *)

\* c's transaction has inserted its row.
Drafting(c) == pc[c] \in {"bookkeep", "commit"} /\ Makes(c)

DraftFits(c) ==
    Drafting(c) => /\ \E mode \in {"auto", "confirm"} : draft[c] = Inserted(c, mode)
                   /\ Named(req[c].slug) = {}

\* What a call has found by its slug keeps that slug, and what an update has
\* read before it locked the row is still so.
TargetFits(c) ==
    /\ pc[c] \in {"insert", "bookkeep", "decide", "promote", "commit"} /\ req[c].op # "create" =>
          target[c] \in Named(req[c].of)
    /\ pc[c] = "commit" /\ req[c].op = "settle" => rows[target[c]].settled = seen[c]

AskedOnce(c) == pc[c] = "idle" => req[c] = NoRequest

Fits(c) == DraftFits(c) /\ TargetFits(c) /\ AskedOnce(c)

\* Open transactions have inserted different slugs and written different rows.
Apart ==
    \A c, d \in Calls : c # d =>
        /\ Drafting(c) /\ Drafting(d) => req[c].slug # req[d].slug
        /\ \A a \in Artifacts : ~(Holds(c, a) /\ Holds(d, a))

CatalogInv ==
    /\ IInv
    /\ DraftsAreOpen
    /\ \A c \in Calls : Fits(c)
    /\ Apart

LEMMA OthersStay ==
  ASSUME IInv, NEW c \in Calls, Submit(c) \/ Step(c) \/ Refuse(c) \/ Fault(c),
         NEW d \in Calls \ {c}
  PROVE  /\ pc'[d] = pc[d] /\ req'[d] = req[d] /\ draft'[d] = draft[d]
         /\ target'[d] = target[d] /\ seen'[d] = seen[d]
  BY DEF IInv, TypeOK, Submit, Step, Refuse, Fault, Rollback, Goto, Lookup, VerifyReceipt,
     ResolveSupersede, TitleCheck, FindPending, ReadHead, Insert, SlugTaken, InsertAgain,
     Supersede, Decide, Promote, CommitCreate, CommitReview, CommitUpdate

\* A step of c's that writes no row.
LEMMA QuietFits ==
  ASSUME CatalogInv, NEW c \in Calls, UNCHANGED rows,
         Submit(c) \/ Step(c) \/ Refuse(c) \/ Fault(c), Fits(c)',
         Drafting(c)' => \A d \in Calls \ {c} : Drafting(d) => req[d].slug # req'[c].slug,
         \A a \in Artifacts : Holds(c, a)' => RowFree(a)
  PROVE  (\A d \in Calls : Fits(d)') /\ Apart'
  <1>1. IInv /\ Apart /\ \A d \in Calls : Fits(d)
    BY DEF CatalogInv
  <1>2. \A d \in Calls \ {c} : /\ pc'[d] = pc[d] /\ req'[d] = req[d] /\ draft'[d] = draft[d]
                               /\ target'[d] = target[d] /\ seen'[d] = seen[d]
    BY <1>1, OthersStay
  <1>3. \A x : Named(x)' = Named(x)
    BY DEF Named, There
  <1>4. ASSUME NEW d \in Calls \ {c} PROVE Fits(d)' /\ (Drafting(d)' <=> Drafting(d))
                                        /\ \A a : Holds(d, a)' <=> Holds(d, a)
    <2>1. Drafting(d)' <=> Drafting(d)
      BY <1>2 DEF Drafting, Makes
    <2>2. DraftFits(d)' /\ AskedOnce(d)'
      BY <1>1, <1>2, <1>3, <2>1 DEF Fits, DraftFits, AskedOnce, Inserted
    <2>3. TargetFits(d)'
      BY <1>1, <1>2, <1>3 DEF Fits, TargetFits
    <2> QED
      BY <1>2, <2>1, <2>2, <2>3 DEF Fits, Holds
  <1>5. Apart'
    BY <1>1, <1>2, <1>4 DEF Apart, RowFree
  <1> QED
    BY <1>4, <1>5

\* The commit of c: an artifact keeps its slug, and only what c has locked is
\* settled.
LEMMA CommitFits ==
  ASSUME CatalogInv, NEW c \in Calls, CommitCreate(c) \/ CommitReview(c) \/ CommitUpdate(c),
         \A a \in Artifacts : There(a) => There(a)' /\ rows'[a].slug = rows[a].slug,
         \A a \in Artifacts : There(a)' /\ ~There(a) =>
                                 Drafting(c) /\ rows'[a].slug = req[c].slug,
         \A a \in Artifacts : There(a) /\ a # target[c] => rows'[a].settled = rows[a].settled
  PROVE  (\A d \in Calls : Fits(d)') /\ Apart'
  <1>1. IInv /\ Apart /\ \A d \in Calls : Fits(d)
    BY DEF CatalogInv
  <1>2. \A d \in Calls \ {c} : /\ pc'[d] = pc[d] /\ req'[d] = req[d] /\ draft'[d] = draft[d]
                               /\ target'[d] = target[d] /\ seen'[d] = seen[d]
    BY <1>1, OthersStay DEF Step
  <1>3. pc[c] = "commit" /\ pc'[c] = "accepted" /\ UNCHANGED <<req, target, seen>>
    BY <1>1 DEF IInv, TypeOK, CommitCreate, CommitReview, CommitUpdate, Goto
  <1>4. Fits(c)' /\ ~Drafting(c)' /\ \A a : ~Holds(c, a)'
    BY <1>3 DEF Fits, DraftFits, TargetFits, AskedOnce, Drafting, Holds
  <1>5. \A x : Named(x) \subseteq Named(x)'
    BY DEF Named
  <1>6. ASSUME NEW d \in Calls \ {c} PROVE Fits(d)' /\ (Drafting(d)' <=> Drafting(d))
                                        /\ \A a : Holds(d, a)' <=> Holds(d, a)
    <2>1. Drafting(d)' <=> Drafting(d)
      BY <1>2 DEF Drafting, Makes
    <2>2. Drafting(d) => Named(req[d].slug)' = Named(req[d].slug)
      <3>1. Drafting(d) /\ Drafting(c) => req[d].slug # req[c].slug
        BY <1>1 DEF Apart
      <3> QED
        BY <1>3, <3>1 DEF Named
    <2>3. DraftFits(d)' /\ AskedOnce(d)'
      BY <1>1, <1>2, <1>3, <2>1, <2>2 DEF Fits, DraftFits, AskedOnce, Inserted
    <2>4. TargetFits(d)'
      <3>1. TargetFits(d)
        BY <1>1 DEF Fits
      <3>2. ASSUME pc[d] = "commit", req[d].op = "settle"
            PROVE  rows'[target[d]].settled = seen[d]
        <4>1. target[d] \in Artifacts /\ There(target[d])
          BY <3>1, <3>2 DEF TargetFits, Named
        <4>2. target[d] # target[c]
          BY <1>1, <1>3, <3>2, <4>1 DEF Apart, Holds
        <4> QED
          BY <3>1, <3>2, <4>1, <4>2 DEF TargetFits
      <3> QED
        BY <1>2, <1>3, <1>5, <3>1, <3>2 DEF TargetFits
    <2> QED
      BY <1>2, <2>1, <2>3, <2>4 DEF Fits, Holds
  <1>7. Apart'
    BY <1>1, <1>3, <1>4, <1>6 DEF Apart
  <1> QED
    BY <1>4, <1>6, <1>7

\* Steps that go on to no transaction, and those by which a call ends without
\* having changed anything.
LEMMA BeforeFits ==
  ASSUME CatalogInv, NEW c \in Calls,
         \/ Submit(c) \/ VerifyReceipt(c) \/ ResolveSupersede(c) \/ TitleCheck(c)
         \/ FindPending(c) \/ ReadHead(c) \/ SlugTaken(c) \/ InsertAgain(c)
         \/ Refuse(c) \/ Fault(c)
  PROVE  (\A d \in Calls : Fits(d)') /\ Apart'
  <1>1. IInv /\ Fits(c) /\ UNCHANGED rows
    BY DEF CatalogInv, Submit, VerifyReceipt, ResolveSupersede, TitleCheck, FindPending, ReadHead,
       SlugTaken, InsertAgain, Refuse, Fault, Lookup
  <1>2. pc \in [Calls -> PCs] /\ target \in [Calls -> Artifacts \cup {NoArtifact}] /\ Local(c)
    BY <1>1 DEF IInv, TypeOK
  <1>3. pc'[c] \in BeforeTx \cup {"aborted", "decide", "promote"} \cup Ended
    BY <1>2 DEF Submit, VerifyReceipt, ResolveSupersede, TitleCheck, FindPending, ReadHead,
       SlugTaken, InsertAgain, Refuse, Fault, Lookup, Rollback, Goto, FirstStep, BeforeTx, Ended
  <1>4. ~Drafting(c)' /\ \A a : ~Holds(c, a)'
    BY <1>3 DEF Drafting, Holds, BeforeTx, Ended
  <1>5. TargetFits(c)'
    <2>1. CASE ResolveSupersede(c) \/ FindPending(c) \/ ReadHead(c)
      <3>1. PICK found \in SUBSET Named(req[c].of), l \in {"insert", "decide", "promote"} :
               Lookup(c, found, l)
        BY <2>1 DEF ResolveSupersede, FindPending, ReadHead
      <3>2. \/ pc'[c] = "refused"
            \/ pc'[c] = l /\ target'[c] \in found
        BY <1>2, <3>1 DEF Lookup, Goto
      <3>3. req'[c] = req[c] /\ pc'[c] # "commit" /\ Named(req[c].of)' = Named(req[c].of)
        BY <1>1, <1>3, <3>1 DEF Lookup, Named, There, BeforeTx, Ended
      <3> QED
        BY <3>2, <3>3 DEF TargetFits
    <2>2. CASE TitleCheck(c)
      <3>1. req'[c].op = "create"
        BY <1>2, <2>2 DEF TitleCheck, Local, AtRightStep
      <3> QED
        BY <1>3, <3>1 DEF TargetFits, BeforeTx, Ended
    <2>3. CASE \/ Submit(c) \/ VerifyReceipt(c) \/ SlugTaken(c) \/ InsertAgain(c)
               \/ Refuse(c) \/ Fault(c)
      <3>1. pc'[c] \in {"receipt", "resolve", "title", "find", "read", "aborted"} \cup Ended
        BY <1>2, <2>3 DEF Submit, VerifyReceipt, SlugTaken, InsertAgain, Refuse, Fault, Rollback,
           Goto, FirstStep, Ended
      <3> QED
        BY <3>1 DEF TargetFits, Ended
    <2> QED
      BY <2>1, <2>2, <2>3
  <1>6. pc'[c] # "idle"
    BY <1>3 DEF BeforeTx, Ended
  <1>7. Fits(c)'
    BY <1>4, <1>5, <1>6 DEF Fits, DraftFits, AskedOnce
  <1> QED
    BY <1>1, <1>4, <1>7, QuietFits DEF Step

LEMMA InsertFits ==
  ASSUME CatalogInv, NEW c \in Calls, Insert(c)
  PROVE  (\A d \in Calls : Fits(d)') /\ Apart'
  <1>1. /\ IInv /\ DraftsAreOpen /\ Fits(c) /\ Local(c)
        /\ UNCHANGED <<rows, req, target>> /\ pc[c] = "insert"
    BY DEF CatalogInv, IInv, Insert
  <1>2. pc \in [Calls -> PCs] /\ draft \in [Calls -> Rows]
    BY <1>1 DEF IInv, TypeOK
  <1>3. /\ pc'[c] = IF req[c].op = "supersede" THEN "bookkeep" ELSE "commit"
        /\ \E mode \in {"auto", "confirm"} : draft'[c] = Inserted(c, mode)
    BY <1>2 DEF Insert, Goto
  <1>4. Makes(c) /\ Makes(c)' /\ req[c].op \in {"create", "supersede"}
    BY <1>1 DEF Local, AtRightStep, Makes
  <1>5. \A mode : Inserted(c, mode)' = Inserted(c, mode)
    BY <1>1 DEF Inserted
  <1>6. Named(req[c].slug) = {} /\ Named(req[c].slug)' = {}
    BY <1>1 DEF Insert, Named, There
  <1>7. DraftFits(c)' /\ AskedOnce(c)'
    BY <1>1, <1>3, <1>5, <1>6 DEF DraftFits, AskedOnce, Inserted
  <1>8. TargetFits(c)'
    <2>1. \A x : Named(x)' = Named(x)
      BY <1>1 DEF Named, There
    <2> QED
      BY <1>1, <1>4, <2>1 DEF Fits, TargetFits
  <1>9. ASSUME NEW d \in Calls \ {c}, Drafting(d) PROVE req[d].slug # req[c].slug
    <2>1. Local(d) /\ Fits(d)
      BY <1>1 DEF CatalogInv, IInv
    <2>2. draft[d].status # "none"
      BY <1>9, <2>1 DEF Local, HasDraft, Drafting
    <2>3. draft[d].slug # req[c].slug
      BY <2>2 DEF Insert, SlugSettled
    <2> QED
      BY <1>9, <2>1, <2>3 DEF Fits, DraftFits, Inserted
  <1>10. \A a \in Artifacts : ~Holds(c, a)'
    BY <1>1, <1>3, <1>4, CallsAreNew DEF Holds, Local, HasTarget
  <1> QED
    BY <1>1, <1>7, <1>8, <1>9, <1>10, QuietFits DEF Fits, Step

\* The statement that locks the row.
LEMMA LockFits ==
  ASSUME CatalogInv, NEW c \in Calls, Supersede(c) \/ Decide(c) \/ Promote(c)
  PROVE  (\A d \in Calls : Fits(d)') /\ Apart'
  <1>1. /\ IInv /\ Fits(c) /\ Local(c) /\ Apart /\ UNCHANGED <<rows, req, draft, target, seen>>
        /\ RowFree(target[c]) /\ pc[c] \in {"bookkeep", "decide", "promote"}
    BY DEF CatalogInv, IInv, Supersede, Decide, Promote
  <1>2. pc \in [Calls -> PCs]
    BY <1>1 DEF IInv, TypeOK
  <1>3. pc'[c] \in {"commit", "failed"}
    BY <1>2 DEF Supersede, Decide, Promote, Goto
  <1>4. Drafting(c)' => Drafting(c)
    <2>1. Makes(c) => pc[c] = "bookkeep"
      BY <1>1 DEF Local, AtRightStep, Makes
    <2> QED
      BY <1>1, <2>1 DEF Drafting, Makes
  <1>5. \A x : Named(x)' = Named(x)
    BY <1>1 DEF Named, There
  <1>6. DraftFits(c)' /\ AskedOnce(c)'
    BY <1>1, <1>3, <1>4, <1>5 DEF Fits, DraftFits, AskedOnce, Inserted
  <1>7. TargetFits(c)'
    <2>1. ASSUME pc'[c] = "commit", req[c].op = "settle"
          PROVE  rows[target[c]].settled = seen[c]
      <3>1. Promote(c)
        BY <1>1, <2>1 DEF Supersede, Decide, Promote, Local, AtRightStep
      <3> QED
        BY <1>2, <2>1, <3>1 DEF Promote, Goto
    <2> QED
      BY <1>1, <1>3, <1>5, <2>1 DEF Fits, TargetFits
  <1>8. \A d \in Calls \ {c} : Drafting(c)' /\ Drafting(d) => req[d].slug # req'[c].slug
    BY <1>1, <1>4 DEF Apart
  <1>9. \A a \in Artifacts : Holds(c, a)' => RowFree(a)
    BY <1>1 DEF Holds
  <1> QED
    BY <1>1, <1>6, <1>7, <1>8, <1>9, QuietFits DEF Fits, Step

LEMMA CommitCreateFits ==
  ASSUME CatalogInv, NEW c \in Calls, CommitCreate(c)
  PROVE  (\A d \in Calls : Fits(d)') /\ Apart'
  <1>1. /\ IInv /\ Fits(c) /\ Local(c) /\ pc[c] = "commit" /\ Makes(c) /\ Drafting(c)
        /\ c \in Artifacts
    BY DEF CatalogInv, IInv, CommitCreate, Drafting, Artifacts
  <1>2. rows \in [Artifacts -> Rows] /\ draft \in [Calls -> Rows] /\ clock \in Nat
    BY <1>1 DEF IInv, TypeOK
  <1>3. draft[c].status = "published" /\ draft[c].slug = req[c].slug
    BY <1>1 DEF Local, HasDraft, Fits, DraftFits, Inserted
  <1>4. /\ rows'[c].slug = req[c].slug /\ rows'[c].status = "published"
        /\ \A a \in Artifacts \ {c} :
              /\ rows'[a].slug = rows[a].slug /\ rows'[a].settled = rows[a].settled
              /\ (There(a)' <=> There(a)) \/ (a = target[c] /\ There(a)')
    <2>1. rows'[c] = [draft[c] EXCEPT !.born = clock + 1] /\ draft[c] \in Rows
      BY <1>1, <1>2 DEF CommitCreate
    <2>2. ASSUME NEW a \in Artifacts \ {c}
          PROVE  /\ rows'[a].slug = rows[a].slug /\ rows'[a].settled = rows[a].settled
                 /\ (There(a)' <=> There(a)) \/ (a = target[c] /\ There(a)')
      <3>1. rows[a] \in Rows /\ rows'[a] = IF a = target[c] THEN Superseded(rows[a], c) ELSE rows[a]
        BY <1>2 DEF CommitCreate
      <3> QED
        BY <3>1 DEF Superseded, Rows, There
    <2> QED
      BY <1>3, <2>1, <2>2 DEF Rows
  <1>5. ~There(c)
    BY <1>1 DEF IInv, AllOrNothing
  <1>6. target[c] \in Artifacts => There(target[c])
    <2>1. CASE req[c].op = "create"
      BY <1>1, <2>1, CallsAreNew DEF Local, HasTarget
    <2>2. CASE req[c].op = "supersede"
      BY <1>1, <2>2 DEF Local, HasTarget
    <2> QED
      BY <1>1, <2>1, <2>2 DEF Makes
  <1> QED
    BY <1>1, <1>4, <1>5, <1>6, CommitFits DEF There

LEMMA CommitRestFits ==
  ASSUME CatalogInv, NEW c \in Calls, CommitReview(c) \/ CommitUpdate(c)
  PROVE  (\A d \in Calls : Fits(d)') /\ Apart'
  <1>1. IInv /\ Local(c) /\ pc[c] = "commit"
    BY DEF CatalogInv, IInv, CommitReview, CommitUpdate
  <1>2. rows \in [Artifacts -> Rows]
    BY <1>1 DEF IInv, TypeOK
  <1>3. target[c] \in Artifacts /\ There(target[c])
    BY <1>1 DEF CommitReview, CommitUpdate, Local, HasTarget
  <1>4. PICK row : rows' = [rows EXCEPT ![target[c]] = row] /\ row.slug = rows[target[c]].slug
                                                          /\ row.status # "none"
    <2>1. rows[target[c]] \in Rows /\ rows[target[c]].status # "none"
      BY <1>2, <1>3 DEF There
    <2>2. CASE CommitReview(c)
      <3>1. /\ Decided(rows[target[c]], req[c].decision).slug = rows[target[c]].slug
            /\ Decided(rows[target[c]], req[c].decision).status # "none"
        BY <2>1 DEF Decided, Rows
      <3> QED
        BY <2>2, <3>1 DEF CommitReview
    <2>3. CASE CommitUpdate(c)
      <3>1. PICK mode : rows' = [rows EXCEPT ![target[c]] =
                                    Promoted(@, ReviewStateFor(mode, ~seen[c]), req[c].author)]
        BY <2>3 DEF CommitUpdate
      <3>2. \A v, w : /\ Promoted(rows[target[c]], v, w).slug = rows[target[c]].slug
                      /\ Promoted(rows[target[c]], v, w).status # "none"
        BY <2>1 DEF Promoted, Rows
      <3> DEFINE row == Promoted(rows[target[c]], ReviewStateFor(mode, ~seen[c]), req[c].author)
      <3>3. rows' = [rows EXCEPT ![target[c]] = row]
        BY <3>1
      <3>4. row.slug = rows[target[c]].slug /\ row.status # "none"
        BY <3>2
      <3> QED
        BY <3>3, <3>4
    <2> QED
      BY <2>2, <2>3
  <1>5. \A a \in Artifacts : /\ rows'[a].slug = rows[a].slug /\ (There(a)' <=> There(a))
                             /\ a # target[c] => rows'[a].settled = rows[a].settled
    BY <1>2, <1>3, <1>4 DEF There
  <1>6. /\ \A a \in Artifacts : There(a) => There(a)' /\ rows'[a].slug = rows[a].slug
        /\ \A a \in Artifacts : There(a)' /\ ~There(a) =>
                                Drafting(c) /\ rows'[a].slug = req[c].slug
        /\ \A a \in Artifacts : There(a) /\ a # target[c] => rows'[a].settled = rows[a].settled
    BY <1>5
  <1> QED
    BY <1>6, CommitFits

LEMMA RestartFits ==
  ASSUME CatalogInv, Restart
  PROVE  (\A d \in Calls : Fits(d)') /\ Apart'
  <1>1. UNCHANGED <<rows, req, target, seen>> /\ pc \in [Calls -> PCs]
    BY DEF CatalogInv, IInv, TypeOK, Restart
  <1>2. \A d \in Calls : /\ pc'[d] \in {"idle"} \cup Ended
                         /\ pc'[d] = "idle" => pc[d] = "idle"
    BY <1>1 DEF Restart, PCs, Ended
  <1>3. ASSUME NEW d \in Calls PROVE ~Drafting(d)' /\ \A a \in Artifacts : ~Holds(d, a)'
    <2>1. pc'[d] \notin {"bookkeep", "commit"}
      BY <1>2 DEF Ended
    <2> QED
      BY <2>1 DEF Drafting, Holds
  <1>4. ASSUME NEW d \in Calls PROVE Fits(d)'
    <2>1. AskedOnce(d)
      BY DEF CatalogInv, Fits
    <2>2. pc'[d] \notin {"insert", "bookkeep", "decide", "promote", "commit"}
      BY <1>2 DEF Ended
    <2>3. pc'[d] = "idle" => req'[d] = NoRequest
      BY <1>1, <1>2, <2>1 DEF AskedOnce
    <2> QED
      BY <1>3, <2>2, <2>3 DEF Fits, DraftFits, TargetFits, AskedOnce
  <1> QED
    BY <1>3, <1>4 DEF Apart

LEMMA CatalogInvariant == Spec => []CatalogInv
  <1>1. Init => (\A c \in Calls : Fits(c)) /\ Apart
    BY DEF Init, Fits, DraftFits, TargetFits, AskedOnce, Drafting, Apart, Holds
  <1>2. CatalogInv /\ [Next]_vars => ((\A c \in Calls : Fits(c)) /\ Apart)'
    <2> SUFFICES ASSUME CatalogInv, [Next]_vars PROVE (\A c \in Calls : Fits(c)') /\ Apart'
      OBVIOUS
    <2>1. ASSUME NEW c \in Calls, Submit(c) \/ Step(c) \/ Refuse(c) \/ Fault(c)
          PROVE  (\A d \in Calls : Fits(d)') /\ Apart'
      BY <2>1, BeforeFits, InsertFits, LockFits, CommitCreateFits, CommitRestFits DEF Step
    <2>2. CASE UNCHANGED vars \/ \E r \in Receipts : Expire(r)
      <3>1. UNCHANGED <<rows, pc, req, draft, target, seen>>
        BY <2>2 DEF vars, Expire
      <3>2. (\A c \in Calls : Fits(c)) /\ Apart
        BY DEF CatalogInv
      <3> QED
        BY <3>1, <3>2 DEF Fits, DraftFits, TargetFits, AskedOnce, Drafting, Makes, Inserted,
           Named, There, Apart, Holds
    <2> QED
      BY <2>1, <2>2, RestartFits DEF Next
  <1>3. IInv /\ DraftsAreOpen /\ (\A c \in Calls : Fits(c)) /\ Apart <=> CatalogInv
    BY DEF CatalogInv
  <1>4. Spec => [](IInv /\ DraftsAreOpen)
    BY DraftsOpen
  <1> QED
    BY <1>1, <1>2, <1>3, <1>4, PTL DEF Spec

-----------------------------------------------------------------------------
(* Every step of the handlers is a step of the catalogue, or shows nothing. *)

StatusOf == [c \in Calls |-> Status(pc[c])]

LEMMA OneStatus ==
  ASSUME IInv, NEW c \in Calls, Submit(c) \/ Step(c) \/ Refuse(c) \/ Fault(c)
  PROVE  StatusOf' = [StatusOf EXCEPT ![c] = Status(pc'[c])]
  BY OthersStay DEF StatusOf

\* The steps that look, insert or lock: nobody sees them.
LEMMA ShowsNothing ==
  ASSUME IInv, NEW c \in Calls, UNCHANGED <<rows, clock, req>>,
         Submit(c) \/ Step(c) \/ Refuse(c) \/ Fault(c),
         Status(pc'[c]) = Status(pc[c])
  PROVE  [Catalog!Next]_Catalog!vars
  <1>1. StatusOf' = StatusOf
    BY OneStatus DEF StatusOf
  <1> QED
    BY <1>1 DEF Catalog!vars, StatusOf

\* The steps by which a call ends that has changed nothing.
LEMMA ShowsFailure ==
  ASSUME IInv, NEW c \in Calls, UNCHANGED <<rows, clock, req>>,
         Submit(c) \/ Step(c) \/ Refuse(c) \/ Fault(c),
         Status(pc[c]) = "open", Status(pc'[c]) = "failed", req[c].op # "none"
  PROVE  [Catalog!Next]_Catalog!vars
  <1>1. StatusOf' = [d \in Calls |-> IF d \in {c} THEN "failed" ELSE StatusOf[d]]
    BY OneStatus DEF StatusOf
  <1>2. Catalog!Fail({c})
    BY <1>1 DEF Catalog!Fail, StatusOf
  <1> QED
    BY <1>2 DEF Catalog!Next

LEMMA HasRequest ==
  ASSUME IInv, NEW c \in Calls, pc[c] # "idle"
  PROVE  req[c] \in Requests /\ req[c].op \in {"create", "supersede", "review", "settle"}
  BY RequestType DEF IInv, Local, AtRightStep

LEMMA SubmitShows ==
  ASSUME CatalogInv, NEW c \in Calls, Submit(c)
  PROVE  [Catalog!Next]_Catalog!vars
  <1>1. IInv /\ req[c] = NoRequest /\ pc[c] = "idle" /\ UNCHANGED <<rows, clock>>
    BY DEF CatalogInv, Fits, AskedOnce, Submit
  <1>2. PICK r \in Requests : req' = [req EXCEPT ![c] = r] /\ Goto(c, FirstStep(r.op))
    BY DEF Submit
  <1>3. pc'[c] \in {"receipt", "resolve", "find", "read"}
    BY <1>1, <1>2 DEF IInv, TypeOK, Goto, FirstStep
  <1>4. StatusOf' = StatusOf
    BY <1>1, <1>3, OneStatus DEF StatusOf, Status, Ended
  <1>5. StatusOf[c] = "open" /\ req[c].op = "none"
    BY <1>1 DEF StatusOf, Status, Ended, NoRequest
  <1>6. Catalog!Ask(c)
    BY <1>1, <1>2, <1>4, <1>5 DEF Catalog!Ask, StatusOf
  <1> QED
    BY <1>6 DEF Catalog!Next

LEMMA QuietShows ==
  ASSUME CatalogInv, NEW c \in Calls,
         \/ VerifyReceipt(c) \/ ResolveSupersede(c) \/ TitleCheck(c) \/ FindPending(c)
         \/ ReadHead(c) \/ Insert(c) \/ SlugTaken(c) \/ InsertAgain(c) \/ Supersede(c)
         \/ Decide(c) \/ Promote(c) \/ Refuse(c) \/ Fault(c)
  PROVE  [Catalog!Next]_Catalog!vars
  <1>1. IInv /\ UNCHANGED <<rows, clock, req>> /\ pc[c] \in BeforeTx \cup InTx
    BY DEF CatalogInv, VerifyReceipt, ResolveSupersede, TitleCheck, FindPending, ReadHead,
       Insert, SlugTaken, InsertAgain, Supersede, Decide, Promote, Refuse, Fault, Lookup,
       BeforeTx, InTx
  <1>2. pc'[c] \in (PCs \ {"idle", "accepted"})
    BY <1>1 DEF IInv, TypeOK, VerifyReceipt, ResolveSupersede, TitleCheck, FindPending, ReadHead,
       Insert, SlugTaken, InsertAgain, Supersede, Decide, Promote, Refuse, Fault, Lookup,
       Rollback, Goto, PCs, BeforeTx, InTx, Ended
  <1>3. Status(pc[c]) = "open" /\ Status(pc'[c]) \in {"open", "failed"}
    BY <1>1, <1>2 DEF Status, BeforeTx, InTx, Ended
  <1>4. req[c].op # "none"
    BY <1>1, HasRequest DEF BeforeTx, InTx
  <1> QED
    BY <1>1, <1>3, <1>4, ShowsNothing, ShowsFailure DEF Step

LEMMA RestartShows ==
  ASSUME CatalogInv, Restart
  PROVE  [Catalog!Next]_Catalog!vars
  <1> DEFINE S == {c \in Calls : pc[c] \in BeforeTx \cup InTx}
  <1>1. IInv /\ UNCHANGED <<rows, clock, req>>
        /\ pc' = [c \in Calls |-> IF pc[c] \in BeforeTx \cup InTx THEN "failed" ELSE pc[c]]
    BY DEF CatalogInv, Restart
  <1>2. ASSUME NEW c \in S PROVE StatusOf[c] = "open" /\ req[c].op # "none"
    BY <1>1, <1>2, HasRequest DEF StatusOf, Status, BeforeTx, InTx, Ended
  <1>3. StatusOf' = [c \in Calls |-> IF c \in S THEN "failed" ELSE StatusOf[c]]
    BY <1>1 DEF StatusOf, Status, Ended
  <1>4. Catalog!Fail(S)
    BY <1>1, <1>2, <1>3 DEF Catalog!Fail, StatusOf
  <1> QED
    BY <1>4 DEF Catalog!Next

\* A transaction commits: the call's effect shows, at once.
LEMMA Commits ==
  ASSUME CatalogInv, NEW c \in Calls, pc[c] = "commit", Goto(c, "accepted"), UNCHANGED req,
         CommitCreate(c) \/ CommitReview(c) \/ CommitUpdate(c),
         \/ Catalog!Create(c, req[c]) \/ Catalog!Replace(c, req[c])
         \/ Catalog!Decide(req[c]) \/ Catalog!Settle(req[c])
  PROVE  [Catalog!Next]_Catalog!vars
  <1>1. IInv
    BY DEF CatalogInv
  <1>2. pc'[c] = "accepted"
    BY <1>1 DEF IInv, TypeOK, Goto
  <1>3. StatusOf[c] = "open" /\ StatusOf' = [StatusOf EXCEPT ![c] = "accepted"]
    BY <1>1, <1>2, OneStatus DEF StatusOf, Status, Ended, Step
  <1>4. Catalog!Apply(c, req[c])
    BY <1>3 DEF Catalog!Apply, StatusOf
  <1> QED
    BY <1>4 DEF Catalog!Next

LEMMA SameNames == \A x : Catalog!Named(x) = Named(x)
  BY DEF Catalog!Named, Catalog!Artifacts, Named, There, Artifacts

LEMMA CommitReviewShows ==
  ASSUME CatalogInv, NEW c \in Calls, CommitReview(c)
  PROVE  [Catalog!Next]_Catalog!vars
  <1>1. /\ IInv /\ pc[c] = "commit" /\ req[c].op = "review" /\ UNCHANGED <<req, clock>>
        /\ Goto(c, "accepted")
    BY DEF CatalogInv, CommitReview
  <1>2. target[c] \in Named(req[c].of) /\ target[c] \in Artifacts
    BY <1>1 DEF CatalogInv, Fits, TargetFits, Named
  <1>3. rows \in [Artifacts -> Rows]
    BY <1>1 DEF IInv, TypeOK
  <1>4. rows' = [rows EXCEPT
           ![target[c]].review = IF req[c].decision = "approve" THEN "approved" ELSE "rejected",
           ![target[c]].status = IF req[c].decision = "approve" THEN "published" ELSE "archived"]
    <2>1. rows' = [rows EXCEPT ![target[c]] = Decided(rows[target[c]], req[c].decision)]
      BY DEF CommitReview
    <2>2. rows[target[c]] \in Rows
      BY <1>2, <1>3
    <2> QED
      BY <1>2, <1>3, <2>1, <2>2 DEF Decided, Rows
  <1>5. Catalog!Decide(req[c])
    BY <1>1, <1>2, <1>4, SameNames DEF Catalog!Decide
  <1> QED
    BY <1>1, <1>5, Commits

LEMMA CommitUpdateShows ==
  ASSUME CatalogInv, NEW c \in Calls, CommitUpdate(c)
  PROVE  [Catalog!Next]_Catalog!vars
  <1>1. /\ IInv /\ pc[c] = "commit" /\ req[c].op = "settle" /\ UNCHANGED <<req, clock>>
        /\ Goto(c, "accepted")
    BY DEF CatalogInv, CommitUpdate
  <1>2. target[c] \in Named(req[c].of) /\ target[c] \in Artifacts
        /\ rows[target[c]].settled = seen[c]
    BY <1>1 DEF CatalogInv, Fits, TargetFits, Named
  <1>3. rows \in [Artifacts -> Rows] /\ seen \in [Calls -> BOOLEAN]
    BY <1>1 DEF IInv, TypeOK
  <1>4. PICK mode \in {"auto", "confirm"} :
           rows' = [rows EXCEPT ![target[c]] =
                        Promoted(@, ReviewStateFor(mode, ~seen[c]), req[c].author)]
    BY DEF CommitUpdate
  <1> DEFINE row == rows[target[c]]
             given == ReviewStateFor(mode, ~seen[c])
             review == IF given = "pending_review" THEN given ELSE row.review
  <1>5. given = "pending_review" => ~row.settled
    BY <1>2 DEF ReviewStateFor
  <1>6. review \in {row.review} \cup (IF row.settled THEN {} ELSE {"pending_review"})
    BY <1>5
  <1>7. rows' = [rows EXCEPT ![target[c]].settled = TRUE, ![target[c]].author = req[c].author,
                             ![target[c]].review = review]
    <2>1. row \in Rows
      BY <1>2, <1>3
    <2>2. Promoted(row, given, req[c].author) =
             [row EXCEPT !.settled = TRUE, !.author = req[c].author, !.review = review]
      BY <2>1 DEF Promoted, Rows
    <2> QED
      BY <1>2, <1>3, <1>4, <2>1, <2>2
  <1>8. Catalog!Settle(req[c])
    BY <1>1, <1>2, <1>6, <1>7, SameNames DEF Catalog!Settle
  <1> QED
    BY <1>1, <1>8, Commits

LEMMA CommitCreateShows ==
  ASSUME CatalogInv, NEW c \in Calls, CommitCreate(c)
  PROVE  [Catalog!Next]_Catalog!vars
  <1>1. /\ IInv /\ Local(c) /\ Fits(c) /\ pc[c] = "commit" /\ Makes(c) /\ Drafting(c)
        /\ UNCHANGED req /\ Goto(c, "accepted") /\ clock' = clock + 1 /\ c \in Artifacts
    BY DEF CatalogInv, IInv, CommitCreate, Drafting, Artifacts
  <1>2. rows \in [Artifacts -> Rows] /\ draft \in [Calls -> Rows]
    BY <1>1 DEF IInv, TypeOK
  <1>3. Named(req[c].slug) = {}
    BY <1>1 DEF Fits, DraftFits
  <1>4. PICK mode \in {"auto", "confirm"} : draft[c] = Inserted(c, mode)
    BY <1>1 DEF Fits, DraftFits
  <1> DEFINE review == ReviewStateFor(mode, req[c].op = "supersede" \/ req[c].settled)
             fresh == Catalog!New(req[c], review)
  <1>5. [draft[c] EXCEPT !.born = clock + 1] = fresh
    BY <1>4 DEF Inserted, Catalog!New
  <1>6. review \in Catalog!Reviews(req[c].op = "supersede" \/ req[c].settled)
    BY DEF Catalog!Reviews, ReviewStateFor
  <1>7. rows' = [a \in Artifacts |-> IF a = c THEN fresh
                                     ELSE IF a = target[c] THEN Superseded(rows[a], c)
                                     ELSE rows[a]]
    BY <1>5 DEF CommitCreate
  <1> HIDE DEF fresh, review
  <1>8. CASE req[c].op = "create"
    <2>1. target[c] \notin Artifacts
      BY <1>1, <1>8, CallsAreNew DEF Local, HasTarget
    <2>2. rows' = [rows EXCEPT ![c] = fresh]
      BY <1>1, <1>2, <1>7, <2>1
    <2>3. review \in Catalog!Reviews(req[c].settled)
      BY <1>6, <1>8 DEF review, Catalog!Reviews, ReviewStateFor
    <2>4. Catalog!Create(c, req[c])
      BY <1>1, <1>3, <1>8, <2>2, <2>3, SameNames DEF Catalog!Create, fresh
    <2> QED
      BY <1>1, <2>4, Commits
  <1>9. CASE req[c].op = "supersede"
    <2>1. target[c] \in Named(req[c].of)
      BY <1>1, <1>9 DEF Fits, TargetFits
    <2>2. target[c] \in Artifacts /\ target[c] # c
      BY <1>1, <2>1 DEF Named, IInv, AllOrNothing
    <2>3. rows' = [rows EXCEPT ![c] = fresh, ![target[c]].status = "superseded",
                               ![target[c]].superseded_by = c]
      BY <1>1, <1>2, <1>7, <2>2 DEF Superseded, Rows
    <2>4. review \in Catalog!Reviews(TRUE)
      BY <1>6, <1>9
    <2>5. Catalog!Replace(c, req[c])
      BY <1>1, <1>3, <1>9, <2>1, <2>3, <2>4, SameNames DEF Catalog!Replace, fresh
    <2> QED
      BY <1>1, <2>5, Commits
  <1> QED
    BY <1>1, <1>8, <1>9 DEF Makes

\* Whatever calls overlap, fail or are cut off, and however long ago they read
\* what they decide on, the tables change as the catalogue says: each accepted
\* call's effect whole and at one instant, no slug given twice, and nothing of
\* the calls that were refused, failed or died.
THEOREM LifecycleImplementsCatalog == Spec => ImplementsCatalog
  <1>1. Init => Catalog!Init
    BY DEF Init, Catalog!Init, Catalog!Artifacts, Artifacts, NoRequest, Status, Ended
  <1>2. CatalogInv /\ [Next]_vars => [Catalog!Next]_Catalog!vars
    <2> SUFFICES ASSUME CatalogInv, [Next]_vars PROVE [Catalog!Next]_Catalog!vars
      OBVIOUS
    <2>1. ASSUME NEW c \in Calls, Submit(c) \/ Step(c) \/ Refuse(c) \/ Fault(c)
          PROVE  [Catalog!Next]_Catalog!vars
      BY <2>1, SubmitShows, QuietShows, CommitCreateShows, CommitReviewShows, CommitUpdateShows
         DEF Step
    <2>2. CASE UNCHANGED vars \/ \E r \in Receipts : Expire(r)
      BY <2>2 DEF vars, Expire, Catalog!vars
    <2> QED
      BY <2>1, <2>2, RestartShows DEF Next
  <1> QED
    BY <1>1, <1>2, CatalogInvariant, PTL DEF Spec, ImplementsCatalog, Catalog!Spec

=============================================================================
