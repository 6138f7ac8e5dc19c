-------------------- MODULE ArtifactRevisions_refinement --------------------
(***************************************************************************)
(* The handlers implement RevisionLog: every commit is a request that is   *)
(* checked and applied, all at once, on the rows it finds.                 *)
(*                                                                         *)
(* The argument: whoever commits a revision read the newest one (Numbers), *)
(* only commits of revisions change the content of a row, so what it read  *)
(* before its transaction is the content it finds; and nobody else has an  *)
(* uncommitted UPDATE or a FOR UPDATE lock on the rows it updated.         *)
(***************************************************************************)
EXTENDS ArtifactRevisions_proofs

\* A read of the newest revision is a read of the content of the row.
ReadsFresh(c) ==
    \A a \in DOMAIN seen[c] :
        seen[c][a].rev = Latest(revs[a]) => SameContent(seen[c][a].row, head[a])

\* An uncommitted row is what the request makes of the committed one.
RowsCurrent(c) ==
    \A a \in DOMAIN rows[c] :
        /\ a \in DOMAIN seen[c]
        /\ rows[c][a] = NewHead(req[c], seen[c][a].row, head[a])

\* A row that set_area has locked stays as set_area read it.
LocksHold(c) ==
    \A a \in excl[c] :
        pc[c] # "lock_area" => a \in DOMAIN seen[c] /\ seen[c][a].row = head[a]

InTransaction == {"next", "attach", "insert", "fk", "update", "area_fk", "finish"}

\* Past the SELECT, the request passed its gates on what was read.
Checked(c) ==
    pc[c] \in InTransaction =>
        /\ req[c].op = "sweep" => \A a \in DOMAIN seen[c] : SweepCandidate(seen[c][a].row)
        /\ req[c].op # "sweep" =>
             /\ at[c] = req[c].art /\ at[c] \in DOMAIN seen[c]
             /\ VersionAgrees(req[c], seen[c][at[c]].rev)
             /\ Admits(req[c], seen[c][at[c]].row)
             /\ req[c].op = "area" => at[c] \in excl[c]

\* The revisions a request writes: supersede_of writes none.
Revised(c) == IF req[c].op = "supersede" THEN {} ELSE {at[c]}

\* What an open transaction has written, by the statement it is at.
Held(c) ==
    /\ pc[c] \notin InTransaction => DOMAIN rows[c] = {}
    /\ pc[c] \notin InTransaction \cup {"lock_area"} => excl[c] = {}
    /\ pc[c] = "lock_area" => excl[c] = {at[c]}
    /\ req[c].op # "sweep" =>
         /\ pc[c] \in {"attach", "insert"} =>
              ins[c] = {} /\ DOMAIN rows[c] = {} /\ req[c].op # "supersede"
         /\ pc[c] \in {"fk", "update"} => ins[c] = Revised(c) /\ DOMAIN rows[c] = {}
         /\ pc[c] \in {"area_fk", "finish"} =>
              ins[c] = Revised(c) /\ DOMAIN rows[c] = {at[c]}
         /\ pc[c] # "next"
    /\ req[c].op = "sweep" =>
         /\ pc[c] \in {"next", "update", "fk", "finish"} => ins[c] = DOMAIN rows[c]
         /\ pc[c] = "insert" => ins[c] \cup {at[c]} = DOMAIN rows[c]
         /\ pc[c] \notin {"lock", "attach", "area_fk"}

Own(c) == ReadsFresh(c) /\ RowsCurrent(c) /\ LocksHold(c) /\ Checked(c) /\ Held(c)

\* Two transactions never own the same row.
Owned(c) == DOMAIN rows[c] \cup excl[c]
Apart == \A c, d \in Callers : c # d => Owned(c) \cap Owned(d) = {}

Fresh == Numbers /\ (\A c \in Callers : Own(c)) /\ Apart

-----------------------------------------------------------------------------
(* The invariant is inductive.                                             *)

THEOREM FreshInit == Init => Fresh
<1> SUFFICES ASSUME Init
             PROVE  Fresh
  OBVIOUS
<1>1. \A c \in Callers : /\ DOMAIN seen[c] = {} /\ DOMAIN rows[c] = {} /\ excl[c] = {}
                         /\ ins[c] = {} /\ pc[c] = "idle"
  BY EmptyType DEF Init
<1>2. \A c \in Callers : Own(c)
  BY <1>1 DEF Own, ReadsFresh, RowsCurrent, LocksHold, Checked, Held, InTransaction
<1>3. Apart
  BY <1>1 DEF Apart, Owned
<1> QED BY <1>2, <1>3, NumbersInit DEF Fresh

\* What a step of c leaves alone.
OthersUnchanged(c) ==
    \A d \in Callers \ {c} :
        /\ seen'[d] = seen[d] /\ rows'[d] = rows[d] /\ ins'[d] = ins[d] /\ excl'[d] = excl[d]
        /\ req'[d] = req[d] /\ pc'[d] = pc[d] /\ at'[d] = at[d]

\* A step of c that writes no table concerns the invariant of c alone.
LEMMA LocalStep ==
    ASSUME Fresh, UNCHANGED table, NEW c \in Callers, OthersUnchanged(c), Numbers', Own(c)',
           \A d \in Callers \ {c} : Owned(c)' \cap Owned(d) = {}
    PROVE  Fresh'
<1>1. ASSUME NEW d \in Callers
      PROVE  Own(d)'
  <2>1. CASE d = c
    BY <2>1
  <2>2. CASE d # c
    <3>1. Own(d) /\ head' = head /\ revs' = revs
      BY DEF Fresh, table
    <3>2. /\ seen'[d] = seen[d] /\ rows'[d] = rows[d] /\ ins'[d] = ins[d] /\ excl'[d] = excl[d]
          /\ req'[d] = req[d] /\ pc'[d] = pc[d] /\ at'[d] = at[d]
      BY <2>2 DEF OthersUnchanged
    <3>3. ReadsFresh(d)' /\ RowsCurrent(d)' /\ LocksHold(d)'
      BY <3>1, <3>2 DEF Own, ReadsFresh, RowsCurrent, LocksHold
    <3>4. Checked(d)' /\ Held(d)'
      BY <3>1, <3>2 DEF Own, Checked, Held, Revised
    <3> QED BY <3>3, <3>4 DEF Own
  <2> QED BY <2>1, <2>2
<1>2. Apart'
  <2> SUFFICES ASSUME NEW d \in Callers, NEW e \in Callers, d # e
               PROVE  Owned(d)' \cap Owned(e)' = {}
    BY DEF Apart
  <2>1. \A f \in Callers \ {c} : Owned(f)' = Owned(f)
    BY DEF OthersUnchanged, Owned
  <2>2. CASE d # c /\ e # c
    BY <2>1, <2>2 DEF Fresh, Apart
  <2>3. CASE d = c \/ e = c
    BY <2>1, <2>3
  <2> QED BY <2>2, <2>3
<1> QED BY <1>1, <1>2 DEF Fresh

LEMMA AnswerKeepsFresh ==
    ASSUME Fresh, UNCHANGED table, NEW c \in Callers, pc[c] # "idle",
           NEW r \in {"accepted", "not_ready", "failed"}, Answer(c, r)
    PROVE  Fresh'
<1>1. Numbers'
  BY AnswerKeepsNumbers DEF Fresh
<1>2. OthersUnchanged(c)
  BY DEF Fresh, Numbers, TypeOK, Answer, Goto, OthersUnchanged
<1>3. /\ seen'[c] = Empty /\ rows'[c] = Empty /\ ins'[c] = {} /\ excl'[c] = {}
      /\ pc'[c] = "replied"
  BY DEF Fresh, Numbers, TypeOK, Answer, Goto
<1>4. DOMAIN seen'[c] = {} /\ DOMAIN rows'[c] = {}
  BY <1>3, EmptyType
<1>5. Own(c)' /\ Owned(c)' = {}
  BY <1>3, <1>4 DEF Own, ReadsFresh, RowsCurrent, LocksHold, Checked, Held, InTransaction, Owned
<1> QED BY <1>1, <1>2, <1>5, LocalStep

LEMMA SubmitKeepsFresh ==
    ASSUME Fresh, NEW c \in Callers, Submit(c)
    PROVE  Fresh'
<1>1. Numbers'
  BY ReadStepKeepsNumbers DEF Fresh
<1>2. UNCHANGED table /\ OthersUnchanged(c)
  BY DEF Fresh, Numbers, TypeOK, Submit, Goto, OthersUnchanged, writes
<1>3. /\ seen'[c] = seen[c] /\ rows'[c] = rows[c] /\ ins'[c] = ins[c] /\ excl'[c] = excl[c]
      /\ pc[c] = "idle" /\ pc'[c] = "select"
  BY DEF Fresh, Numbers, TypeOK, Submit, Goto, writes
<1>4. Own(c)
  BY DEF Fresh
<1>5. DOMAIN rows[c] = {} /\ excl[c] = {}
  BY <1>3, <1>4 DEF Own, Held, InTransaction
<1>6. Own(c)'
  <2>1. ReadsFresh(c)' /\ RowsCurrent(c)' /\ LocksHold(c)'
    BY <1>2, <1>3, <1>4, <1>5 DEF Own, ReadsFresh, RowsCurrent, LocksHold, table
  <2>2. Checked(c)' /\ Held(c)'
    BY <1>3, <1>5 DEF Checked, Held, InTransaction
  <2> QED BY <2>1, <2>2 DEF Own
<1>7. Owned(c)' = {}
  BY <1>3, <1>5 DEF Owned
<1> QED BY <1>1, <1>2, <1>6, <1>7, LocalStep

LEMMA RetryKeepsFresh ==
    ASSUME Fresh, NEW c \in Callers, Retry(c)
    PROVE  Fresh'
<1>1. Numbers'
  BY WriteStepKeepsNumbers DEF Fresh
<1>2. UNCHANGED table /\ OthersUnchanged(c)
  BY DEF Fresh, Numbers, TypeOK, Retry, Goto, OthersUnchanged, writes
<1>3. /\ seen'[c] = seen[c] /\ rows'[c] = rows[c] /\ ins'[c] = ins[c] /\ excl'[c] = excl[c]
      /\ pc[c] = "replied" /\ pc'[c] = "select"
  BY DEF Fresh, Numbers, TypeOK, Retry, Goto, writes
<1>4. Own(c)
  BY DEF Fresh
<1>5. DOMAIN rows[c] = {} /\ excl[c] = {}
  BY <1>3, <1>4 DEF Own, Held, InTransaction
<1>6. Own(c)'
  <2>1. ReadsFresh(c)' /\ RowsCurrent(c)' /\ LocksHold(c)'
    BY <1>2, <1>3, <1>4, <1>5 DEF Own, ReadsFresh, RowsCurrent, LocksHold, table
  <2>2. Checked(c)' /\ Held(c)'
    BY <1>3, <1>5 DEF Checked, Held, InTransaction
  <2> QED BY <2>1, <2>2 DEF Own
<1>7. Owned(c)' = {}
  BY <1>3, <1>5 DEF Owned
<1> QED BY <1>1, <1>2, <1>6, <1>7, LocalStep

LEMMA SelectKeepsFresh ==
    ASSUME Fresh, NEW c \in Callers, Select(c)
    PROVE  Fresh'
<1> DEFINE q == req[c]
           s == Snapshot(q.art)
<1>1. CASE Answer(c, "not_ready")
  BY <1>1, AnswerKeepsFresh DEF Select
<1>2. CASE /\ VersionAgrees(q, s.rev) /\ Admits(q, s.row)
           /\ \E l \in FirstWrites(q) : Goto(c, l)
           /\ seen' = [seen EXCEPT ![c] = Bind(Empty, q.art, s)]
           /\ at' = [at EXCEPT ![c] = q.art]
           /\ UNCHANGED <<req, todo, writes, reply, tries>>
  <2>1. Numbers'
    BY ReadStepKeepsNumbers DEF Fresh
  <2>2. UNCHANGED table /\ OthersUnchanged(c)
    BY <1>2 DEF Fresh, Numbers, TypeOK, Select, Goto, OthersUnchanged, writes
  <2>3. q \in Requests /\ q.art \in Artifacts /\ ins[c] = {} /\ q.op \notin {"sweep", "area"}
    BY RequestArt DEF Select, Fresh, Numbers, Positions
  <2>4. DOMAIN rows[c] = {} /\ excl[c] = {}
    BY DEF Select, Fresh, Own, Held, InTransaction
  <2>5. DOMAIN Bind(Empty, q.art, s) = {q.art} /\ Bind(Empty, q.art, s)[q.art] = s
    BY BindOne
  <2>6. /\ seen'[c] = Bind(Empty, q.art, s) /\ at'[c] = q.art /\ req'[c] = q
        /\ rows'[c] = rows[c] /\ ins'[c] = {} /\ excl'[c] = {}
        /\ pc'[c] \in FirstWrites(q)
    BY <1>2, <2>3, <2>4 DEF Fresh, Numbers, TypeOK, Goto, writes
  <2>7. s.row = head[q.art]
    BY <2>3, SnapshotType DEF Fresh, Numbers
  <2>8. s.row = head'[q.art]
    BY <2>2, <2>7 DEF table
  <2> HIDE DEF s
  <2>9. ReadsFresh(c)' /\ RowsCurrent(c)' /\ LocksHold(c)'
    BY <2>4, <2>5, <2>6, <2>8 DEF ReadsFresh, RowsCurrent, LocksHold, SameContent
  <2>10. Checked(c)'
    BY <1>2, <2>3, <2>5, <2>6 DEF Checked
  <2>11. Held(c)'
    BY <2>3, <2>4, <2>6 DEF Held, Revised, FirstWrites, InTransaction
  <2>12. Own(c)' /\ Owned(c)' = {}
    BY <2>4, <2>6, <2>9, <2>10, <2>11 DEF Own, Owned
  <2> QED BY <2>1, <2>2, <2>12, LocalStep
<1> QED BY <1>1, <1>2 DEF Select

LEMMA SelectCandidatesKeepsFresh ==
    ASSUME Fresh, NEW c \in Callers, SelectCandidates(c)
    PROVE  Fresh'
<1> DEFINE complete == {a \in Artifacts : SweepCandidate(head[a]) /\ head[a].life = "active"}
           f == [a \in complete |-> Snapshot(a)]
<1>1. CASE Answer(c, "accepted")
  BY <1>1, AnswerKeepsFresh DEF SelectCandidates
<1>2. CASE /\ seen' = [seen EXCEPT ![c] = f]
           /\ pc' = [pc EXCEPT ![c] = "next"]
           /\ UNCHANGED <<req, at, writes, reply, tries>>
  <2>1. Numbers'
    BY ReadStepKeepsNumbers DEF Fresh
  <2>2. UNCHANGED table /\ OthersUnchanged(c)
    BY <1>2 DEF Fresh, Numbers, TypeOK, SelectCandidates, OthersUnchanged, writes
  <2>3. ins[c] = {} /\ DOMAIN rows[c] = {} /\ excl[c] = {} /\ req[c].op = "sweep"
    BY DEF SelectCandidates, Fresh, Numbers, Positions, Own, Held, InTransaction
  <2>4. \A a \in DOMAIN f : /\ f[a].row = head[a] /\ f[a].row = head'[a]
                            /\ SweepCandidate(f[a].row)
    <3>1. \A a \in complete : /\ Snapshot(a).row = head[a] /\ head'[a] = head[a]
                              /\ SweepCandidate(head[a])
      BY <2>2, SnapshotType DEF Fresh, Numbers, table
    <3>2. DOMAIN f = complete /\ \A a \in complete : f[a] = Snapshot(a)
      OBVIOUS
    <3> HIDE DEF f, complete
    <3> QED BY <3>1, <3>2
  <2>5. /\ seen'[c] = f /\ rows'[c] = rows[c] /\ ins'[c] = {} /\ excl'[c] = {}
        /\ pc'[c] = "next" /\ req'[c] = req[c]
    BY <1>2, <2>3 DEF Fresh, Numbers, TypeOK, writes
  <2> HIDE DEF f
  <2>6. ReadsFresh(c)' /\ RowsCurrent(c)' /\ LocksHold(c)'
    BY <2>3, <2>4, <2>5 DEF ReadsFresh, RowsCurrent, LocksHold, SameContent
  <2>7. Checked(c)' /\ Held(c)'
    BY <2>3, <2>4, <2>5 DEF Checked, Held, InTransaction
  <2>8. Own(c)' /\ Owned(c)' = {}
    BY <2>3, <2>5, <2>6, <2>7 DEF Own, Owned
  <2> QED BY <2>1, <2>2, <2>8, LocalStep
<1> QED BY <1>1, <1>2 DEF SelectCandidates, Goto

LEMMA NextCandidateKeepsFresh ==
    ASSUME Fresh, NEW c \in Callers, NextCandidate(c)
    PROVE  Fresh'
<1>1. Numbers'
  BY ReadStepKeepsNumbers DEF Fresh
<1>2. UNCHANGED table /\ OthersUnchanged(c)
  BY DEF Fresh, Numbers, TypeOK, NextCandidate, Goto, OthersUnchanged, writes
<1>3. /\ seen'[c] = seen[c] /\ rows'[c] = rows[c] /\ ins'[c] = ins[c] /\ excl'[c] = excl[c]
      /\ req'[c] = req[c] /\ pc[c] = "next" /\ pc'[c] \in {"update", "finish"}
  BY DEF Fresh, Numbers, TypeOK, NextCandidate, Goto, writes
<1>4. Own(c) /\ req[c].op = "sweep"
  BY <1>3 DEF Fresh, Own, Held
<1>5. ReadsFresh(c)' /\ RowsCurrent(c)' /\ LocksHold(c)'
  BY <1>2, <1>3, <1>4 DEF Own, ReadsFresh, RowsCurrent, LocksHold, table
<1>6. Checked(c)' /\ Held(c)'
  BY <1>3, <1>4 DEF Own, Checked, Held, InTransaction
<1>7. Own(c)' /\ Owned(c)' = Owned(c)
  BY <1>3, <1>5, <1>6 DEF Own, Owned
<1> QED BY <1>1, <1>2, <1>7, LocalStep DEF Fresh, Apart

LEMMA LockStatementKeepsFresh ==
    ASSUME Fresh, NEW c \in Callers, LockStatement(c)
    PROVE  Fresh'
<1> DEFINE a == req[c].art
           f == Bind(Empty, a, Snapshot(a))
<1>1. Numbers'
  BY ReadStepKeepsNumbers DEF Fresh
<1>2. UNCHANGED table /\ OthersUnchanged(c)
  BY DEF Fresh, Numbers, TypeOK, LockStatement, Goto, OthersUnchanged, writes
<1>3. a \in Artifacts /\ req[c].op = "area" /\ DOMAIN rows[c] = {} /\ excl[c] = {}
  BY RequestArt DEF LockStatement, Fresh, Numbers, Positions, Own, Held, InTransaction
<1>4. /\ seen'[c] = f /\ rows'[c] = rows[c] /\ ins'[c] = ins[c] /\ excl'[c] = {}
      /\ pc'[c] = "lock" /\ req'[c] = req[c]
  BY <1>3 DEF Fresh, Numbers, TypeOK, LockStatement, Goto, writes
<1>5. DOMAIN f = {a} /\ f[a].row = head'[a]
  <2>1. DOMAIN f = {a} /\ f[a] = Snapshot(a)
    BY BindOne
  <2>2. Snapshot(a).row = head[a] /\ head' = head
    BY <1>2, <1>3, SnapshotType DEF Fresh, Numbers, table
  <2> QED BY <2>1, <2>2
<1> HIDE DEF f
<1>6. ReadsFresh(c)' /\ RowsCurrent(c)' /\ LocksHold(c)'
  BY <1>3, <1>4, <1>5 DEF ReadsFresh, RowsCurrent, LocksHold, SameContent
<1>7. Checked(c)' /\ Held(c)'
  BY <1>3, <1>4 DEF Checked, Held, InTransaction
<1>8. Own(c)' /\ Owned(c)' = {}
  BY <1>3, <1>4, <1>6, <1>7 DEF Own, Owned
<1> QED BY <1>1, <1>2, <1>8, LocalStep

LEMMA LockRowKeepsFresh ==
    ASSUME Fresh, NEW c \in Callers, LockRow(c)
    PROVE  Fresh'
<1> DEFINE a == at[c]
<1>1. Numbers'
  BY ReadStepKeepsNumbers DEF Fresh
<1>2. UNCHANGED table /\ OthersUnchanged(c)
  BY DEF Fresh, Numbers, TypeOK, LockRow, Goto, OthersUnchanged
<1>3. /\ seen'[c] = seen[c] /\ rows'[c] = rows[c] /\ ins'[c] = ins[c] /\ excl'[c] = {a}
      /\ req'[c] = req[c] /\ at'[c] = a /\ pc[c] = "lock" /\ pc'[c] = "lock_area"
  BY DEF Fresh, Numbers, TypeOK, LockRow, Goto
<1>4. Own(c) /\ DOMAIN rows[c] = {} /\ req[c].op = "area"
  BY <1>3 DEF Fresh, Numbers, Positions, Own, Held, InTransaction
<1>5. ReadsFresh(c)' /\ RowsCurrent(c)' /\ LocksHold(c)'
  BY <1>2, <1>3, <1>4 DEF Own, ReadsFresh, RowsCurrent, LocksHold, table
<1>6. Checked(c)' /\ Held(c)'
  BY <1>3, <1>4 DEF Checked, Held, InTransaction
<1>7. Own(c)' /\ Owned(c)' = {a}
  BY <1>3, <1>4, <1>5, <1>6 DEF Own, Owned
<1>8. \A d \in Callers \ {c} : a \notin Owned(d)
  BY <1>3 DEF LockRow, Granted, WaitsFor, RowUpdated, RowExclusive, Owned
<1> QED BY <1>1, <1>2, <1>7, <1>8, LocalStep

LEMMA LockAreaKeepsFresh ==
    ASSUME Fresh, NEW c \in Callers, LockArea(c)
    PROVE  Fresh'
<1> DEFINE q == req[c]
           a == at[c]
           s == [rev |-> seen[c][a].rev, row |-> head[a]]
           f == Bind(Empty, a, s)
<1>1. CASE Answer(c, "not_ready")
  BY <1>1, AnswerKeepsFresh DEF LockArea
<1>2. CASE /\ VersionAgrees(q, s.rev) /\ Admits(q, s.row)
           /\ seen' = [seen EXCEPT ![c] = f]
           /\ pc' = [pc EXCEPT ![c] = "insert"]
           /\ UNCHANGED <<req, todo, at, writes, reply, tries>>
  <2>1. Numbers'
    BY ReadStepKeepsNumbers DEF Fresh
  <2>2. UNCHANGED table /\ OthersUnchanged(c)
    BY <1>2 DEF Fresh, Numbers, TypeOK, LockArea, OthersUnchanged, writes
  <2>3. /\ a \in Artifacts /\ q.op = "area" /\ a = q.art /\ ins[c] = {}
        /\ DOMAIN rows[c] = {} /\ pc[c] = "lock_area" /\ excl[c] = {a}
    BY RequestArt DEF LockArea, Fresh, Numbers, Positions, Own, Held, InTransaction
  <2>4. \A d \in Callers \ {c} : a \notin Owned(d)
    BY <2>3 DEF Fresh, Apart, Owned
  <2>5. /\ seen'[c] = f /\ rows'[c] = rows[c] /\ ins'[c] = {} /\ excl'[c] = {a}
        /\ pc'[c] = "insert" /\ req'[c] = q /\ at'[c] = a
    BY <1>2, <2>3 DEF Fresh, Numbers, TypeOK, writes
  <2>6. DOMAIN f = {a} /\ f[a] = s
    BY BindOne
  <2>7. s.row = head'[a]
    BY <2>2 DEF table
  <2> HIDE DEF f, s
  <2>8. ReadsFresh(c)' /\ RowsCurrent(c)' /\ LocksHold(c)'
    BY <2>3, <2>5, <2>6, <2>7 DEF ReadsFresh, RowsCurrent, LocksHold, SameContent
  <2>9. Checked(c)' /\ Held(c)'
    BY <1>2, <2>3, <2>5, <2>6 DEF Checked, Held, InTransaction
  <2>10. Own(c)' /\ Owned(c)' = {a}
    BY <2>3, <2>5, <2>8, <2>9 DEF Own, Owned
  <2> QED BY <2>1, <2>2, <2>4, <2>10, LocalStep
<1> QED BY <1>1, <1>2 DEF LockArea, Goto

LEMMA AttachEvidenceKeepsFresh ==
    ASSUME Fresh, NEW c \in Callers, AttachEvidence(c)
    PROVE  Fresh'
<1>1. Numbers'
  BY WriteStepKeepsNumbers DEF Fresh
<1>2. UNCHANGED table /\ OthersUnchanged(c)
  BY DEF Fresh, Numbers, TypeOK, AttachEvidence, Goto, OthersUnchanged
<1>3. /\ seen'[c] = seen[c] /\ rows'[c] = rows[c] /\ ins'[c] = ins[c] /\ excl'[c] = excl[c]
      /\ req'[c] = req[c] /\ at'[c] = at[c] /\ pc[c] = "attach" /\ pc'[c] = "insert"
  BY DEF Fresh, Numbers, TypeOK, AttachEvidence, Goto
<1>4. Own(c)
  BY DEF Fresh
<1>5. ReadsFresh(c)' /\ RowsCurrent(c)' /\ LocksHold(c)'
  BY <1>2, <1>3, <1>4 DEF Own, ReadsFresh, RowsCurrent, LocksHold, table
<1>6. Checked(c)' /\ Held(c)'
  BY <1>3, <1>4 DEF Own, Checked, Held, InTransaction
<1>7. Own(c)' /\ Owned(c)' = Owned(c)
  BY <1>3, <1>5, <1>6 DEF Own, Owned
<1> QED BY <1>1, <1>2, <1>7, LocalStep DEF Fresh, Apart

LEMMA InsertRevisionKeepsFresh ==
    ASSUME Fresh, NEW c \in Callers, InsertRevision(c)
    PROVE  Fresh'
<1>1. CASE Answer(c, "failed")
  BY <1>1, AnswerKeepsFresh DEF InsertRevision
<1>2. CASE /\ ins' = [ins EXCEPT ![c] = @ \cup {at[c]}]
           /\ pc' = [pc EXCEPT ![c] = "fk"]
           /\ UNCHANGED <<req, seen, todo, at, rows, share, excl, reply, tries>>
  <2>1. Numbers'
    BY WriteStepKeepsNumbers DEF Fresh
  <2>2. UNCHANGED table /\ OthersUnchanged(c)
    BY <1>2 DEF Fresh, Numbers, TypeOK, InsertRevision, OthersUnchanged
  <2>3. /\ seen'[c] = seen[c] /\ rows'[c] = rows[c] /\ excl'[c] = excl[c]
        /\ ins'[c] = ins[c] \cup {at[c]}
        /\ req'[c] = req[c] /\ at'[c] = at[c] /\ pc[c] = "insert" /\ pc'[c] = "fk"
    BY <1>2 DEF Fresh, Numbers, TypeOK, InsertRevision
  <2>4. Own(c)
    BY DEF Fresh
  <2>5. ReadsFresh(c)' /\ RowsCurrent(c)' /\ LocksHold(c)'
    BY <2>2, <2>3, <2>4 DEF Own, ReadsFresh, RowsCurrent, LocksHold, table
  <2>6. Checked(c)' /\ Held(c)'
    BY <2>3, <2>4 DEF Own, Checked, Held, Revised, InTransaction
  <2>7. Own(c)' /\ Owned(c)' = Owned(c)
    BY <2>3, <2>5, <2>6 DEF Own, Owned
  <2> QED BY <2>1, <2>2, <2>7, LocalStep DEF Fresh, Apart
<1> QED BY <1>1, <1>2 DEF InsertRevision, Goto

LEMMA ForeignKeyCheckKeepsFresh ==
    ASSUME Fresh, NEW c \in Callers, ForeignKeyCheck(c)
    PROVE  Fresh'
<1>1. Numbers'
  BY WriteStepKeepsNumbers DEF Fresh
<1>2. UNCHANGED table /\ OthersUnchanged(c)
  BY DEF Fresh, Numbers, TypeOK, ForeignKeyCheck, Goto, OthersUnchanged
<1>3. /\ seen'[c] = seen[c] /\ rows'[c] = rows[c] /\ ins'[c] = ins[c] /\ excl'[c] = excl[c]
      /\ req'[c] = req[c] /\ at'[c] = at[c] /\ pc[c] = "fk"
      /\ pc'[c] = IF req[c].op = "sweep" THEN "next" ELSE "update"
  BY DEF Fresh, Numbers, TypeOK, ForeignKeyCheck, Goto
<1>4. Own(c)
  BY DEF Fresh
<1>5. ReadsFresh(c)' /\ RowsCurrent(c)' /\ LocksHold(c)'
  BY <1>2, <1>3, <1>4 DEF Own, ReadsFresh, RowsCurrent, LocksHold, table
<1>6. Checked(c)' /\ Held(c)'
  BY <1>3, <1>4 DEF Own, Checked, Held, Revised, InTransaction
<1>7. Own(c)' /\ Owned(c)' = Owned(c)
  BY <1>3, <1>5, <1>6 DEF Own, Owned
<1> QED BY <1>1, <1>2, <1>7, LocalStep DEF Fresh, Apart

LEMMA UpdateHeadKeepsFresh ==
    ASSUME Fresh, NEW c \in Callers, UpdateHead(c)
    PROVE  Fresh'
<1> DEFINE a == at[c]
           q == req[c]
           row == NewHead(q, seen[c][a].row, head[a])
           f == Bind(rows[c], a, row)
<1>1. Numbers'
  BY WriteStepKeepsNumbers DEF Fresh
<1>2. UNCHANGED table /\ OthersUnchanged(c)
  BY DEF Fresh, Numbers, TypeOK, UpdateHead, Goto, OthersUnchanged
<1>3. /\ seen'[c] = seen[c] /\ excl'[c] = excl[c] /\ ins'[c] = ins[c]
      /\ req'[c] = q /\ at'[c] = a /\ pc[c] = "update"
      /\ \/ q.op = "sweep" /\ rows'[c] = rows[c] /\ pc'[c] = "next"
         \/ rows'[c] = f /\ pc'[c] = IF q.op = "sweep" THEN "insert"
                                          ELSE IF q.op = "area" THEN "area_fk" ELSE "finish"
  <2> HIDE DEF row
  <2> QED BY DEF Fresh, Numbers, TypeOK, UpdateHead, Goto, row
<1>4. Own(c) /\ a \in DOMAIN seen[c] /\ a \in Artifacts
  BY <1>3 DEF Fresh, Numbers, TypeOK, Positions
<1>5. \A d \in Callers \ {c} : a \notin Owned(d)
  BY <1>3 DEF UpdateHead, Granted, WaitsFor, RowUpdated, RowExclusive, Owned
<1>6. /\ DOMAIN f = DOMAIN rows[c] \cup {a} /\ f[a] = row
      /\ \A b \in DOMAIN rows[c] \ {a} : f[b] = rows[c][b]
  <2> HIDE DEF row
  <2> QED BY DEF Bind
<1>7. head' = head /\ revs' = revs
  BY <1>2 DEF table
<1>8. RowsCurrent(c)'
  <2> HIDE DEF f
  <2>1. CASE rows'[c] = rows[c]
    BY <1>3, <1>4, <1>7, <2>1 DEF Own, RowsCurrent
  <2>2. CASE rows'[c] = f
    BY <1>3, <1>4, <1>6, <1>7, <2>2 DEF Own, RowsCurrent
  <2> QED BY <1>3, <2>1, <2>2
<1> HIDE DEF f, row
<1>9. ReadsFresh(c)' /\ LocksHold(c)'
  BY <1>3, <1>4, <1>7 DEF Own, ReadsFresh, LocksHold
<1>10. Checked(c)' /\ Held(c)'
  BY <1>3, <1>4, <1>6 DEF Own, Checked, Held, Revised, InTransaction
<1>11. Own(c)' /\ Owned(c)' \subseteq Owned(c) \cup {a}
  BY <1>3, <1>6, <1>8, <1>9, <1>10 DEF Own, Owned
<1>12. \A d \in Callers \ {c} : Owned(c)' \cap Owned(d) = {}
  BY <1>5, <1>11 DEF Fresh, Apart
<1> QED BY <1>1, <1>2, <1>11, <1>12, LocalStep

LEMMA AreaForeignKeyKeepsFresh ==
    ASSUME Fresh, NEW c \in Callers, AreaForeignKey(c)
    PROVE  Fresh'
<1>1. Numbers'
  BY WriteStepKeepsNumbers DEF Fresh
<1>2. UNCHANGED table /\ OthersUnchanged(c)
  BY DEF Fresh, Numbers, TypeOK, AreaForeignKey, Goto, OthersUnchanged, writes
<1>3. /\ seen'[c] = seen[c] /\ rows'[c] = rows[c] /\ ins'[c] = ins[c] /\ excl'[c] = excl[c]
      /\ req'[c] = req[c] /\ at'[c] = at[c] /\ pc[c] = "area_fk" /\ pc'[c] = "finish"
  BY DEF Fresh, Numbers, TypeOK, AreaForeignKey, Goto, writes
<1>4. Own(c)
  BY DEF Fresh
<1>5. ReadsFresh(c)' /\ RowsCurrent(c)' /\ LocksHold(c)'
  BY <1>2, <1>3, <1>4 DEF Own, ReadsFresh, RowsCurrent, LocksHold, table
<1>6. Checked(c)' /\ Held(c)'
  BY <1>3, <1>4 DEF Own, Checked, Held, Revised, InTransaction
<1>7. Own(c)' /\ Owned(c)' = Owned(c)
  BY <1>3, <1>5, <1>6 DEF Own, Owned
<1> QED BY <1>1, <1>2, <1>7, LocalStep DEF Fresh, Apart

\* Only a revision changes the content of a row: supersede_of writes none and
\* leaves body, task_meta and area alone.
LEMMA SupersedeKeepsContent ==
    ASSUME NEW q, q.op = "supersede", NEW seenRow, NEW row
    PROVE  SameContent(row, NewHead(q, seenRow, row))
BY DEF SameContent, NewHead, WritesBody, NewMeta, AutoClaims

\* What a commit makes of the row of one artifact.
LEMMA CommittedRow ==
    ASSUME Fresh, NEW c \in Callers, Commit(c), NEW a \in Artifacts
    PROVE  /\ pc[c] = "finish" /\ req[c] \in Requests
           /\ head'[a] = IF a \in DOMAIN rows[c]
                         THEN NewHead(req[c], seen[c][a].row, head[a]) ELSE head[a]
           /\ a \in ins[c] => a \in DOMAIN rows[c]
           /\ (a \in DOMAIN rows[c] /\ a \notin ins[c]) => req[c].op = "supersede"
<1>1. pc[c] = "finish" /\ req[c] \in Requests
  BY DEF Commit, Fresh, Numbers, Positions
<1>2. Own(c)
  BY DEF Fresh
<1>3. head'[a] = IF a \in DOMAIN rows[c] THEN rows[c][a] ELSE head[a]
  BY DEF Commit
<1>4. a \in DOMAIN rows[c] => rows[c][a] = NewHead(req[c], seen[c][a].row, head[a])
  BY <1>2 DEF Own, RowsCurrent
<1>5. /\ a \in ins[c] => a \in DOMAIN rows[c]
      /\ (a \in DOMAIN rows[c] /\ a \notin ins[c]) => req[c].op = "supersede"
  BY <1>1, <1>2 DEF Own, Held, Revised
<1> QED BY <1>1, <1>3, <1>4, <1>5

LEMMA CommitKeepsFresh ==
    ASSUME Fresh, NEW c \in Callers, Commit(c)
    PROVE  Fresh'
<1>1. Numbers'
  BY CommitKeepsNumbers DEF Fresh
<1> PICK r \in {"accepted", "failed"} : Answer(c, r)
  BY DEF Commit
<1>2. OthersUnchanged(c)
  BY DEF Fresh, Numbers, TypeOK, Answer, Goto, OthersUnchanged
<1>3. /\ seen'[c] = Empty /\ rows'[c] = Empty /\ ins'[c] = {} /\ excl'[c] = {}
      /\ pc'[c] = "replied"
  BY DEF Fresh, Numbers, TypeOK, Answer, Goto
<1>4. DOMAIN seen'[c] = {} /\ DOMAIN rows'[c] = {} /\ Owned(c)' = {}
  BY <1>3, EmptyType DEF Owned
<1>5. Own(c)'
  BY <1>3, <1>4 DEF Own, ReadsFresh, RowsCurrent, LocksHold, Checked, Held, InTransaction
<1>6. ASSUME NEW d \in Callers \ {c}
      PROVE  Own(d)'
  <2>1. /\ seen'[d] = seen[d] /\ rows'[d] = rows[d] /\ ins'[d] = ins[d] /\ excl'[d] = excl[d]
        /\ req'[d] = req[d] /\ pc'[d] = pc[d] /\ at'[d] = at[d]
    BY <1>2 DEF OthersUnchanged
  <2>2. Own(d) /\ DOMAIN seen[d] \subseteq Artifacts
    BY DEF Fresh, Numbers, TypeOK, PartialFcn
  <2>3. \A a \in Owned(d) : a \in Artifacts => head'[a] = head[a]
    <3>1. Owned(d) \cap DOMAIN rows[c] = {}
      BY DEF Fresh, Apart, Owned
    <3> QED BY <3>1, CommittedRow
  <2>4. ReadsFresh(d)'
    <3> SUFFICES ASSUME NEW a \in DOMAIN seen'[d], seen'[d][a].rev = Latest(revs'[a])
                 PROVE  SameContent(seen'[d][a].row, head'[a])
      BY DEF ReadsFresh
    <3>1. a \in DOMAIN seen[d] /\ a \in Artifacts /\ seen'[d][a] = seen[d][a]
      BY <2>1, <2>2
    <3>2. seen[d][a].rev \in 1 .. Latest(revs[a]) /\ IsLog(revs[a])
      BY <3>1 DEF Fresh, Numbers, ReadsAreBounded
    <3>3. a \notin ins[c]
      <4>1. CASE a \in ins[c]
        <5>1. Latest(revs'[a]) = Latest(revs[a]) + 1
          BY <3>1, <3>2, <4>1, CommittedLog, ExtendLog DEF Fresh
        <5> QED BY <3>1, <3>2, <5>1 DEF IsLog
      <4> QED BY <4>1
    <3>4. revs'[a] = revs[a]
      BY <3>1, <3>3, CommittedLog DEF Fresh
    <3>5. SameContent(seen[d][a].row, head[a])
      BY <2>2, <3>1, <3>4 DEF Own, ReadsFresh
    <3>6. SameContent(head[a], head'[a])
      <4>1. CASE a \in DOMAIN rows[c]
        BY <3>1, <3>3, <4>1, CommittedRow, SupersedeKeepsContent
      <4>2. CASE a \notin DOMAIN rows[c]
        BY <3>1, <4>2, CommittedRow DEF SameContent
      <4> QED BY <4>1, <4>2
    <3> QED BY <3>1, <3>5, <3>6 DEF SameContent
  <2>5. RowsCurrent(d)'
    BY <2>1, <2>2, <2>3 DEF Own, RowsCurrent, Owned
  <2>6. LocksHold(d)'
    BY <2>1, <2>2, <2>3 DEF Own, LocksHold, Owned
  <2>7. Checked(d)' /\ Held(d)'
    BY <2>1, <2>2 DEF Own, Checked, Held, Revised
  <2> QED BY <2>4, <2>5, <2>6, <2>7 DEF Own
<1>7. Apart'
  <2> SUFFICES ASSUME NEW d \in Callers, NEW e \in Callers, d # e
               PROVE  Owned(d)' \cap Owned(e)' = {}
    BY DEF Apart
  <2>1. \A f \in Callers \ {c} : Owned(f)' = Owned(f)
    BY <1>2 DEF OthersUnchanged, Owned
  <2>2. CASE d # c /\ e # c
    BY <2>1, <2>2 DEF Fresh, Apart
  <2> QED BY <1>4, <2>2
<1> QED BY <1>1, <1>5, <1>6, <1>7 DEF Fresh

THEOREM FreshNext == Fresh /\ [Next]_vars => Fresh'
<1> SUFFICES ASSUME Fresh, [Next]_vars
             PROVE  Fresh'
  OBVIOUS
<1>1. CASE UNCHANGED vars
  <2>1. Numbers'
    BY NumbersNext DEF Fresh
  <2>2. UNCHANGED <<head, revs, req, pc, seen, at, ins, rows, excl>>
    BY <1>1 DEF vars
  <2>3. (\A c \in Callers : Own(c))' /\ Apart'
    BY <2>2 DEF Fresh, Own, ReadsFresh, RowsCurrent, LocksHold, Checked, Held, Revised,
       Apart, Owned
  <2> QED BY <2>1, <2>3 DEF Fresh
<1>2. CASE Next
  <2> PICK c \in Callers : Submit(c) \/ Progress(c) \/ ContentGate(c) \/ Fail(c) \/ Retry(c)
    BY <1>2 DEF Next
  <2>1. CASE Submit(c) \/ Retry(c)
    BY <2>1, SubmitKeepsFresh, RetryKeepsFresh
  <2>2. CASE ContentGate(c) \/ Fail(c) \/ RollbackDryRun(c) \/ DeadlockVictim(c)
    <3>1. pc[c] # "idle" /\ UNCHANGED table
      BY <2>2 DEF ContentGate, Fail, RollbackDryRun, DeadlockVictim, Deadlocked, WaitsFor
    <3>2. \E r \in {"accepted", "not_ready", "failed"} : Answer(c, r)
      BY <2>2 DEF ContentGate, Fail, RollbackDryRun, DeadlockVictim
    <3> QED BY <3>1, <3>2, AnswerKeepsFresh
  <2>3. CASE Commit(c)
    BY <2>3, CommitKeepsFresh
  <2> QED BY <2>1, <2>2, <2>3, SelectKeepsFresh, SelectCandidatesKeepsFresh,
             NextCandidateKeepsFresh, LockStatementKeepsFresh, LockRowKeepsFresh,
             AttachEvidenceKeepsFresh, InsertRevisionKeepsFresh, ForeignKeyCheckKeepsFresh,
             UpdateHeadKeepsFresh, AreaForeignKeyKeepsFresh, LockAreaKeepsFresh DEF Progress
<1> QED BY <1>1, <1>2

THEOREM FreshInvariant == Spec => []Fresh
BY FreshInit, FreshNext, PTL DEF Spec

-----------------------------------------------------------------------------
(* The refinement.                                                         *)

\* RevisionLog reads the operators of TaskArtifact as this module does.
LEMMA SameBodies ==
    /\ \A body : /\ Log!Resolved(body) <=> Resolved(body)
                 /\ Log!HasBoxes(body) <=> HasBoxes(body)
                 /\ Log!MarkUncheckedAsDone(body) = MarkUncheckedAsDone(body)
    /\ \A meta : Log!Claimed(meta) = Claimed(meta)
    /\ \A meta, patch : Log!Merge(meta, patch) = Merge(meta, patch)
    /\ \A patch : Log!TaskMetaToJSON(patch) = TaskMetaToJSON(patch)
    /\ Log!Keep = Keep /\ Log!NoBox = NoBox /\ Log!NoPatch = NoPatch /\ Log!NullBody = NullBody
<1>1. Log!Keep = Keep /\ Log!NoBox = NoBox /\ Log!Open = Open /\ Log!Done = Done
  BY DEF Log!Keep, Keep, Log!NoBox, NoBox, Log!Open, Open, Log!Done, Done
<1>2. \A body : /\ Log!Resolved(body) <=> Resolved(body)
                /\ Log!HasBoxes(body) <=> HasBoxes(body)
                /\ Log!MarkUncheckedAsDone(body) = MarkUncheckedAsDone(body)
  BY <1>1 DEF Log!Resolved, Resolved, Log!HasBoxes, HasBoxes, Log!MarkUncheckedAsDone,
     MarkUncheckedAsDone
<1>3. \A meta : Log!Claimed(meta) = Claimed(meta)
  BY DEF Log!Claimed, Claimed
<1>4. \A meta, patch : Log!Merge(meta, patch) = Merge(meta, patch)
  BY <1>1 DEF Log!Merge, Merge
<1>5. \A patch : Log!TaskMetaToJSON(patch) = TaskMetaToJSON(patch)
  BY <1>4 DEF Log!TaskMetaToJSON, TaskMetaToJSON
<1>6. Log!NoPatch = NoPatch
  BY <1>1 DEF Log!NoPatch, NoPatch
<1>7. Log!NullBody = NullBody
  BY DEF Log!NullBody, NullBody
<1> QED BY <1>1, <1>2, <1>3, <1>4, <1>5, <1>6, <1>7

LEMMA SameGates ==
    ASSUME NEW q, NEW row, NEW rev
    PROVE  /\ Log!VersionAgrees(q, rev) <=> VersionAgrees(q, rev)
           /\ Log!Admits(q, row) <=> Admits(q, row)
           /\ Log!Targets(q) = Targets(q)
           /\ Log!DryRun(q) <=> DryRun(q)
<1>1. Log!VersionAgrees(q, rev) <=> VersionAgrees(q, rev)
  BY DEF Log!VersionAgrees, VersionAgrees
<1>2. Log!SweepCandidate(row) <=> SweepCandidate(row)
  BY SameBodies DEF Log!SweepCandidate, SweepCandidate
<1>3. Log!ClaimGate(q) <=> ClaimGate(q)
  BY SameBodies DEF Log!ClaimGate, ClaimGate
<1>4. Log!Admits(q, row) <=> Admits(q, row)
  <2>1. /\ Log!BodyAdmits(q, row) <=> BodyAdmits(q, row)
        /\ Log!AcceptAdmits(q, row) <=> AcceptAdmits(q, row)
        /\ Log!MetaAdmits(q) <=> MetaAdmits(q)
        /\ Log!HttpAdmits(q, row) <=> HttpAdmits(q, row)
    BY <1>3, SameBodies DEF Log!BodyAdmits, BodyAdmits, Log!AcceptAdmits, AcceptAdmits,
       Log!MetaAdmits, MetaAdmits, Log!HttpAdmits, HttpAdmits
  <2>2. /\ Log!ClaimAdmits(row) <=> ClaimAdmits(row)
        /\ Log!AreaAdmits(q, row) <=> AreaAdmits(q, row)
    BY DEF Log!ClaimAdmits, ClaimAdmits, Log!AreaAdmits, AreaAdmits
  <2> QED BY <1>2, <2>1, <2>2 DEF Log!Admits, Admits
<1>5. Log!Targets(q) = Targets(q)
  BY DEF Log!Targets, Targets
<1>6. Log!DryRun(q) <=> DryRun(q)
  BY DEF Log!DryRun, DryRun
<1> QED BY <1>1, <1>4, <1>5, <1>6

LEMMA SameEffects ==
    ASSUME NEW q, NEW read, NEW row, NEW who
    PROVE  /\ Log!NewHead(q, read, row) = NewHead(q, read, row)
           /\ Log!Revision(q, read, who) = Revision(q, read, who)
<1>1. Log!NewBody(q, read) = NewBody(q, read)
  BY SameBodies DEF Log!NewBody, NewBody
<1>2. Log!AutoClaims(q, read) <=> AutoClaims(q, read)
  BY <1>1, SameBodies DEF Log!AutoClaims, AutoClaims, Log!ShouldAutoClaimDone,
     ShouldAutoClaimDone
<1>3. Log!NewMeta(q, read, row) = NewMeta(q, read, row)
  BY <1>2, SameBodies DEF Log!NewMeta, NewMeta
<1>4. Log!WritesBody(q, read) <=> WritesBody(q, read)
  BY <1>1 DEF Log!WritesBody, WritesBody
<1>5. Log!NewHead(q, read, row) = NewHead(q, read, row)
  BY <1>1, <1>3, <1>4 DEF Log!NewHead, NewHead
<1>6. Log!Revision(q, read, who) = Revision(q, read, who)
  BY <1>1, SameBodies DEF Log!Revision, Revision
<1> QED BY <1>5, <1>6

LEMMA SameLogs ==
    /\ \A log : Log!Latest(log) = Latest(log)
    /\ \A log, n, r : Log!Extend(log, n, r) = Extend(log, n, r)
    /\ \A row : Log!InitialLog(row) = InitialLog(row)
    /\ Log!Heads = Heads
<1>1. Log!Heads = Heads
  BY DEF Log!Heads, Heads, Log!Bodies, Bodies, Log!Markers, Markers, Log!Open, Open, Log!Done,
     Done, Log!Partial, Partial, Log!Deferred, Deferred, Log!NoBox, NoBox, Log!TaskMetas,
     TaskMetas, Log!Statuses, Statuses
<1> QED BY <1>1 DEF Log!Latest, Latest, Log!Extend, Extend, Log!InitialLog, InitialLog

\* On a row it commits, a request passes its gates and does what it would do if
\* it read the row now.
LEMMA CommitIsAtomic ==
    ASSUME Fresh, NEW c \in Callers, Commit(c), NEW a \in DOMAIN rows[c]
    PROVE  /\ a \in Artifacts /\ a \in Targets(req[c])
           /\ VersionAgrees(req[c], Latest(revs[a])) /\ Admits(req[c], head[a])
           /\ NewHead(req[c], seen[c][a].row, head[a]) = NewHead(req[c], head[a], head[a])
           /\ a \in ins[c] => Revision(req[c], seen[c][a].row, c) = Revision(req[c], head[a], c)
           /\ a \in ins[c] <=> req[c].op # "supersede"
<1> DEFINE q == req[c]
           read == seen[c][a].row
<1>1. a \in Artifacts
  BY DEF Fresh, Numbers, TypeOK, PartialFcn
<1>2. Own(c) /\ pc[c] = "finish" /\ q \in Requests
  BY <1>1, CommittedRow DEF Fresh
<1>3. a \in DOMAIN seen[c]
  BY <1>2 DEF Own, RowsCurrent
<1>4. q.op # "sweep" => a = at[c] /\ a = q.art
  BY <1>2 DEF Own, Held, Checked, InTransaction
<1>5. a \in ins[c] <=> q.op # "supersede"
  BY <1>2, <1>4 DEF Own, Held, Revised
<1>6. a \in Targets(q)
  BY <1>1, <1>4 DEF Targets
<1>7. q.op # "sweep" => /\ VersionAgrees(q, seen[c][a].rev) /\ Admits(q, read)
                        /\ q.op = "area" => a \in excl[c]
  BY <1>2, <1>4 DEF Own, Checked, InTransaction
<1>8. q.op = "sweep" => SweepCandidate(read)
  BY <1>2, <1>3 DEF Own, Checked, InTransaction
<1>9. CASE q.op = "supersede"
  <2>1. VersionAgrees(q, Latest(revs[a])) /\ Admits(q, head[a])
    BY <1>9 DEF VersionAgrees, Admits
  <2>2. NewHead(q, read, head[a]) = NewHead(q, head[a], head[a])
    BY <1>9 DEF NewHead, WritesBody, NewMeta, AutoClaims
  <2> QED BY <1>1, <1>5, <1>6, <1>9, <2>1, <2>2
<1>10. CASE q.op # "supersede"
  <2>1. seen[c][a].rev = Latest(revs[a])
    BY <1>5, <1>10 DEF Fresh, Numbers, InsertsAreLatest
  <2>2. SameContent(read, head[a])
    BY <1>2, <1>3, <2>1 DEF Own, ReadsFresh
  <2>3. VersionAgrees(q, Latest(revs[a]))
    <3>1. CASE q.op = "sweep"
      BY <3>1 DEF VersionAgrees
    <3> QED BY <1>7, <2>1, <3>1
  <2>4. Admits(q, head[a])
    <3>1. CASE q.op = "sweep"
      <4>1. SweepCandidate(head[a])
        BY <1>8, <2>2, <3>1 DEF SweepCandidate, SameContent
      <4> QED BY <3>1, <4>1 DEF Admits
    <3>2. CASE q.op = "area"
      <4>1. read = head[a]
        BY <1>2, <1>7, <3>2 DEF Own, LocksHold
      <4> QED BY <1>7, <3>2, <4>1
    <3>3. CASE q.op \notin {"sweep", "area"}
      BY <1>7, <2>2, <3>3, FreshReadAdmits
    <3> QED BY <3>1, <3>2, <3>3
  <2>5. /\ NewHead(q, read, head[a]) = NewHead(q, head[a], head[a])
        /\ Revision(q, read, c) = Revision(q, head[a], c)
    BY <2>2, FreshReadDecides
  <2> QED BY <1>1, <1>5, <1>6, <2>3, <2>4, <2>5
<1> QED BY <1>9, <1>10

LEMMA CommitIsAccept ==
    ASSUME Fresh, NEW c \in Callers, Commit(c)
    PROVE  Log!Accept(c, req[c], DOMAIN rows[c])
<1> DEFINE q == req[c]
           S == DOMAIN rows[c]
<1>1. ~Log!DryRun(q)
  BY SameGates DEF Commit
<1>2. \A a \in S : Log!VersionAgrees(q, Log!Latest(revs[a])) /\ Log!Admits(q, head[a])
  BY CommitIsAtomic, SameGates, SameLogs
<1>3. head' = [a \in Artifacts |->
                 IF a \in S THEN Log!NewHead(q, head[a], head[a]) ELSE head[a]]
  <2>1. \A a \in Artifacts : head'[a] = IF a \in S THEN Log!NewHead(q, head[a], head[a])
                                        ELSE head[a]
    BY CommittedRow, CommitIsAtomic, SameEffects
  <2>2. head' = [a \in Artifacts |-> head'[a]]
    BY DEF Commit
  <2> QED BY <2>1, <2>2
<1>4. revs' = [a \in Artifacts |->
                 IF a \in S /\ q.op # "supersede"
                 THEN Log!Extend(revs[a], Log!Latest(revs[a]) + 1, Log!Revision(q, head[a], c))
                 ELSE revs[a]]
  <2>1. ASSUME NEW a \in Artifacts
        PROVE  revs'[a] = IF a \in S /\ q.op # "supersede"
                          THEN Log!Extend(revs[a], Log!Latest(revs[a]) + 1,
                                          Log!Revision(q, head[a], c))
                          ELSE revs[a]
    <3>1. a \in ins[c] <=> (a \in S /\ q.op # "supersede")
      BY CommittedRow, CommitIsAtomic
    <3>2. CASE a \in ins[c]
      <4>1. revs'[a] = Extend(revs[a], Latest(revs[a]) + 1, Revision(q, seen[c][a].row, c))
        BY <3>2, CommittedLog DEF Fresh
      <4>2. Revision(q, seen[c][a].row, c) = Revision(q, head[a], c)
        BY <3>1, <3>2, CommitIsAtomic
      <4> QED BY <3>1, <3>2, <4>1, <4>2, SameEffects, SameLogs
    <3>3. CASE a \notin ins[c]
      BY <3>1, <3>3, CommittedLog DEF Fresh
    <3> QED BY <3>2, <3>3
  <2>2. revs' = [a \in Artifacts |-> revs'[a]]
    BY DEF Commit
  <2> QED BY <2>1, <2>2
<1> QED BY <1>1, <1>2, <1>3, <1>4 DEF Log!Accept

\* The tables change when a transaction commits.
LEMMA OnlyCommits ==
    ASSUME [Next]_vars
    PROVE  UNCHANGED table \/ \E c \in Callers : Commit(c)
<1>1. ASSUME NEW c \in Callers,
             \/ Select(c) \/ SelectCandidates(c) \/ NextCandidate(c) \/ LockStatement(c)
             \/ LockRow(c) \/ LockArea(c) \/ AttachEvidence(c)
      PROVE  UNCHANGED table
  BY <1>1 DEF Select, SelectCandidates, NextCandidate, LockStatement, LockRow, LockArea,
     AttachEvidence
<1>2. ASSUME NEW c \in Callers,
             \/ InsertRevision(c) \/ ForeignKeyCheck(c) \/ UpdateHead(c) \/ AreaForeignKey(c)
             \/ RollbackDryRun(c) \/ DeadlockVictim(c)
      PROVE  UNCHANGED table
  BY <1>2 DEF InsertRevision, ForeignKeyCheck, UpdateHead, AreaForeignKey, RollbackDryRun,
     DeadlockVictim
<1>3. ASSUME NEW c \in Callers, Submit(c) \/ ContentGate(c) \/ Fail(c) \/ Retry(c)
      PROVE  UNCHANGED table
  BY <1>3 DEF Submit, ContentGate, Fail, Retry
<1>4. CASE UNCHANGED vars
  BY <1>4 DEF vars, table
<1> QED BY <1>1, <1>2, <1>3, <1>4 DEF Next, Progress

LEMMA StepIsLogStep == Fresh /\ [Next]_vars => [Log!Next]_Log!vars
<1> SUFFICES ASSUME Fresh, [Next]_vars
             PROVE  [Log!Next]_Log!vars
  OBVIOUS
<1>1. CASE UNCHANGED table
  BY <1>1 DEF table, Log!vars
<1>2. CASE \E c \in Callers : Commit(c)
  <2>1. PICK c \in Callers : Commit(c)
    BY <1>2
  <2>2. Log!Accept(c, req[c], DOMAIN rows[c])
    BY <2>1, CommitIsAccept
  <2>3. req[c] \in Requests
    BY <2>1 DEF Commit, Fresh, Numbers, Positions
  <2>4. DOMAIN rows[c] \in SUBSET Log!Targets(req[c])
    <3>1. DOMAIN rows[c] \subseteq Targets(req[c])
      BY <2>1, CommitIsAtomic
    <3> QED BY <3>1, SameGates
  <2> QED BY <2>2, <2>3, <2>4 DEF Log!Next
<1>3. UNCHANGED table \/ \E c \in Callers : Commit(c)
  BY OnlyCommits
<1> QED BY <1>1, <1>2, <1>3

LEMMA InitIsLogInit == Init => Log!Init
<1> SUFFICES ASSUME Init
             PROVE  Log!Init
  OBVIOUS
<1>1. head \in [Artifacts -> {row \in Log!Heads : row.life = "active"}]
  BY InitialTasksAreRows, SameLogs DEF Init
<1>2. revs = [a \in Artifacts |-> Log!InitialLog(head[a])]
  BY SameLogs DEF Init
<1> QED BY <1>1, <1>2 DEF Log!Init

\* The concurrent handlers, with their stale reads, retries and rollbacks, do
\* to the tables what requests applied one at a time would do.
THEOREM Refinement == Spec => ImplementsLog
BY InitIsLogInit, StepIsLogStep, FreshInvariant, PTL DEF Spec, ImplementsLog, Log!Spec

-----------------------------------------------------------------------------
(* What follows for the tables.                                            *)

\* A step changes the row of an artifact only when a request commits it, and
\* then it is what the request makes of the row it finds.
LEMMA RowStep ==
    ASSUME Fresh, [Next]_vars, NEW a \in Artifacts, head'[a] # head[a]
    PROVE  \E c \in Callers :
             /\ Commit(c) /\ Committing(c) /\ a \in DOMAIN rows[c]
             /\ head'[a] = NewHead(req[c], head[a], head[a])
             /\ Admits(req[c], head[a]) /\ req[c] \in AllRequests
             /\ head[a] \in Heads
<1>1. \/ UNCHANGED table
      \/ \E c \in Callers : Commit(c)
  BY OnlyCommits
<1>2. PICK c \in Callers : Commit(c)
  BY <1>1 DEF table
<1>3. a \in DOMAIN rows[c] /\ head'[a] = NewHead(req[c], seen[c][a].row, head[a])
  BY <1>2, CommittedRow
<1>4. head'[a] = NewHead(req[c], head[a], head[a]) /\ Admits(req[c], head[a])
  BY <1>2, <1>3, CommitIsAtomic
<1>5. Committing(c)
  BY <1>2 DEF Committing, Commit, Answer, Goto, Fresh, Numbers, TypeOK
<1>6. req[c] \in AllRequests /\ head[a] \in Heads
  BY <1>2, CommittedRow, RequestsAreRequests DEF Fresh, Numbers, TypeOK
<1> QED BY <1>2, <1>3, <1>4, <1>5, <1>6

\* What a request can do to the status of a Task.
LEMMA StatusStep ==
    ASSUME NEW q \in AllRequests, NEW row \in Heads, Admits(q, row),
           row.meta.status # "claimed_done",
           NewHead(q, row, row).meta.status = "claimed_done"
    PROVE  /\ \/ Resolved(NewHead(q, row, row).body)
              \/ q.op = "body" /\ q.patched /\ q.meta.status = "claimed_done"
           /\ row.meta.status = "cancelled" =>
                q.op \in {"body", "http"} /\ q.meta.status = "claimed_done"
<1> DEFINE body == NewHead(q, row, row).body
           status == NewHead(q, row, row).meta.status
<1>1. status = NewMeta(q, row, row).status /\ row.body \in Bodies
  BY DEF NewHead, Heads
<1>2. body = IF WritesBody(q, row) THEN NewBody(q, row) ELSE row.body
  BY DEF NewHead
<1>3. CASE q.op = "claim"
  <2>1. Resolved(MarkUncheckedAsDone(row.body))
    BY <1>1 DEF Resolved, MarkUncheckedAsDone, Bodies, Open, Done
  <2>2. body = MarkUncheckedAsDone(row.body)
    BY <1>2, <1>3 DEF WritesBody, NewBody
  <2>3. row.meta.status # "cancelled"
    BY <1>3 DEF Admits, ClaimAdmits
  <2> QED BY <2>1, <2>2, <2>3
<1>4. CASE q.op = "sweep"
  <2>1. Resolved(row.body) /\ row.meta.status = "open"
    BY <1>4 DEF Admits, SweepCandidate
  <2>2. body = row.body
    BY <1>2, <1>4 DEF WritesBody
  <2> QED BY <2>1, <2>2
<1>5. CASE AutoClaims(q, row)
  <2>1. Resolved(NewBody(q, row)) /\ row.meta.status \in {"", "open"}
    BY <1>5 DEF AutoClaims, ShouldAutoClaimDone
  <2>2. body = NewBody(q, row)
    BY <1>2, <1>5 DEF AutoClaims, WritesBody
  <2> QED BY <2>1, <2>2
<1>6. CASE q.op \notin {"claim", "sweep"} /\ ~AutoClaims(q, row)
  <2>1. CASE q.op = "body" /\ q.meta # NoPatch
    <3>1. NewMeta(q, row, row).status = TaskMetaToJSON(q.meta).status
      BY <1>6, <2>1 DEF NewMeta
    <3>2. q.meta.status = "claimed_done"
      BY <1>1, <3>1 DEF TaskMetaToJSON, Merge
    <3>3. q.patched \/ Resolved(q.body)
      BY <2>1, <3>2 DEF Admits, BodyAdmits, ClaimGate
    <3>4. body = q.body
      BY <1>2, <2>1 DEF WritesBody, NewBody
    <3>5. q.patched \in BOOLEAN
      BY <2>1 DEF AllRequests, BodyRequests, AcceptRequests, MetaRequests, HttpRequests,
         ClaimRequests, AreaRequests, SweepRequests, SupersedeRequests
    <3> QED BY <2>1, <3>2, <3>3, <3>4, <3>5
  <2>2. CASE q.op \in {"meta", "http"}
    <3>1. NewMeta(q, row, row).status = Merge(row.meta, q.meta).status
      BY <1>6, <2>2 DEF NewMeta
    <3>2. q.meta.status = "claimed_done"
      BY <1>1, <3>1 DEF Merge
    <3>3. q.op = "http" /\ Resolved(row.body)
      BY <2>2, <3>2 DEF Admits, MetaAdmits, HttpAdmits, Keep
    <3>4. body = row.body
      BY <1>2, <2>2 DEF WritesBody
    <3> QED BY <3>2, <3>3, <3>4
  <2>3. CASE ~(q.op = "body" /\ q.meta # NoPatch) /\ q.op \notin {"meta", "http"}
    <3>1. NewMeta(q, row, row) = row.meta
      BY <1>6, <2>3 DEF NewMeta
    <3> QED BY <1>1, <3>1
  <2> QED BY <2>1, <2>2, <2>3
<1> QED BY <1>3, <1>4, <1>5, <1>6

\* A Task comes to claimed_done only over a body without an open checkbox,
\* save through the gate that a patched body escapes.
THEOREM DoneIsResolved == Spec => DoneMeansResolved
<1> DEFINE A == \A a \in Artifacts : BecomesDone(a) =>
          \/ Resolved(head'[a].body)
          \/ \E c \in Callers : /\ Committing(c) /\ req[c].op = "body"
                                /\ req[c].patched /\ SendsStatus(req[c], "claimed_done")
<1>1. Fresh /\ [Next]_vars => [A]_vars
  <2> SUFFICES ASSUME Fresh, [Next]_vars, NEW a \in Artifacts, BecomesDone(a)
               PROVE  \/ Resolved(head'[a].body)
                      \/ \E c \in Callers :
                           /\ Committing(c) /\ req[c].op = "body"
                           /\ req[c].patched /\ SendsStatus(req[c], "claimed_done")
    OBVIOUS
  <2>1. head'[a] # head[a]
    BY DEF BecomesDone
  <2>2. PICK c \in Callers :
             /\ Committing(c) /\ head'[a] = NewHead(req[c], head[a], head[a])
             /\ Admits(req[c], head[a]) /\ req[c] \in AllRequests /\ head[a] \in Heads
    BY <2>1, RowStep
  <2>3. \/ Resolved(head'[a].body)
        \/ req[c].op = "body" /\ req[c].patched /\ req[c].meta.status = "claimed_done"
    BY <2>2, StatusStep DEF BecomesDone
  <2> QED BY <2>2, <2>3 DEF SendsStatus
<1> QED BY <1>1, FreshInvariant, PTL DEF Spec, DoneMeansResolved

\* A cancelled Task comes to claimed_done only when its caller names the status.
THEOREM CancelledIsKept == Spec => CancelledStaysCancelled
<1> DEFINE A == \A a \in Artifacts : (head[a].meta.status = "cancelled" /\ BecomesDone(a)) =>
          \E c \in Callers : Committing(c) /\ SendsStatus(req[c], "claimed_done")
<1>1. Fresh /\ [Next]_vars => [A]_vars
  <2> SUFFICES ASSUME Fresh, [Next]_vars, NEW a \in Artifacts,
                      head[a].meta.status = "cancelled", BecomesDone(a)
               PROVE  \E c \in Callers : Committing(c) /\ SendsStatus(req[c], "claimed_done")
    OBVIOUS
  <2>1. head'[a] # head[a]
    BY DEF BecomesDone
  <2>2. PICK c \in Callers :
             /\ Committing(c) /\ head'[a] = NewHead(req[c], head[a], head[a])
             /\ Admits(req[c], head[a]) /\ req[c] \in AllRequests /\ head[a] \in Heads
    BY <2>1, RowStep
  <2>3. req[c].op \in {"body", "http"} /\ req[c].meta.status = "claimed_done"
    BY <2>2, StatusStep DEF BecomesDone
  <2> QED BY <2>2, <2>3 DEF SendsStatus
<1> QED BY <1>1, FreshInvariant, PTL DEF Spec, CancelledStaysCancelled

\* set_area never moves an artifact that was superseded before it committed.
THEOREM SupersededIsKept == Spec => SupersededStaysInArea
<1> DEFINE A == \A a \in Artifacts :
                  head[a].life = "superseded" => head'[a].area = head[a].area
<1>1. Fresh /\ [Next]_vars => [A]_vars
  <2> SUFFICES ASSUME Fresh, [Next]_vars, NEW a \in Artifacts, head[a].life = "superseded",
                      head'[a] # head[a]
               PROVE  head'[a].area = head[a].area
    OBVIOUS
  <2>1. PICK c \in Callers : /\ head'[a] = NewHead(req[c], head[a], head[a])
                             /\ Admits(req[c], head[a])
    BY RowStep
  <2>2. req[c].op # "area"
    BY <2>1 DEF Admits, AreaAdmits
  <2> QED BY <2>1, <2>2 DEF NewHead
<1> QED BY <1>1, FreshInvariant, PTL DEF Spec, SupersededStaysInArea

-----------------------------------------------------------------------------
(* What follows for the history.                                           *)

\* A step changes the row or the log of an artifact only when a request commits
\* there, with at most one revision, the next one, of what it found.
LEMMA LogStep ==
    ASSUME Fresh, [Next]_vars, NEW a \in Artifacts
    PROVE  \/ head'[a] = head[a] /\ revs'[a] = revs[a]
           \/ \E c \in Callers :
                /\ Commit(c) /\ req[c] \in AllRequests
                /\ VersionAgrees(req[c], Latest(revs[a]))
                /\ head'[a] = NewHead(req[c], head[a], head[a])
                /\ \/ req[c].op = "supersede" /\ revs'[a] = revs[a]
                   \/ /\ req[c].op # "supersede"
                      /\ revs'[a] = Extend(revs[a], Latest(revs[a]) + 1,
                                           Revision(req[c], head[a], c))
<1>1. UNCHANGED table \/ \E c \in Callers : Commit(c)
  BY OnlyCommits
<1>2. CASE UNCHANGED table
  BY <1>2 DEF table
<1>3. ASSUME NEW c \in Callers, Commit(c)
      PROVE  \/ head'[a] = head[a] /\ revs'[a] = revs[a]
             \/ /\ req[c] \in AllRequests
                /\ VersionAgrees(req[c], Latest(revs[a]))
                /\ head'[a] = NewHead(req[c], head[a], head[a])
                /\ \/ req[c].op = "supersede" /\ revs'[a] = revs[a]
                   \/ /\ req[c].op # "supersede"
                      /\ revs'[a] = Extend(revs[a], Latest(revs[a]) + 1,
                                           Revision(req[c], head[a], c))
  <2>1. Numbers
    BY DEF Fresh
  <2>2. CASE a \notin DOMAIN rows[c]
    <3>1. head'[a] = head[a] /\ a \notin ins[c]
      BY <1>3, <2>2, CommittedRow
    <3> QED BY <1>3, <2>1, <3>1, CommittedLog
  <2>3. CASE a \in DOMAIN rows[c]
    <3>1. /\ req[c] \in AllRequests
          /\ head'[a] = NewHead(req[c], seen[c][a].row, head[a])
      BY <1>3, <2>3, CommittedRow, RequestsAreRequests
    <3>2. /\ VersionAgrees(req[c], Latest(revs[a]))
          /\ NewHead(req[c], seen[c][a].row, head[a]) = NewHead(req[c], head[a], head[a])
          /\ a \in ins[c] <=> req[c].op # "supersede"
          /\ a \in ins[c] => Revision(req[c], seen[c][a].row, c) = Revision(req[c], head[a], c)
      BY <1>3, <2>3, CommitIsAtomic
    <3>3. /\ a \notin ins[c] => revs'[a] = revs[a]
          /\ a \in ins[c] => revs'[a] = Extend(revs[a], Latest(revs[a]) + 1,
                                               Revision(req[c], seen[c][a].row, c))
      BY <1>3, <2>1, CommittedLog
    <3> QED BY <3>1, <3>2, <3>3
  <2> QED BY <2>2, <2>3
<1> QED BY <1>1, <1>2, <1>3

\* A revision has the body its request leaves in the row, or none if the
\* request leaves the body alone.
LEMMA RevisionBody ==
    ASSUME NEW q, NEW row, NEW who
    PROVE  /\ q.op = "supersede" => NewHead(q, row, row).body = row.body
           /\ q.op # "supersede" =>
                \/ Revision(q, row, who).body = NewHead(q, row, row).body
                \/ /\ Revision(q, row, who).body = NullBody
                   /\ NewHead(q, row, row).body = row.body
<1>1. NewHead(q, row, row).body = IF WritesBody(q, row) THEN NewBody(q, row) ELSE row.body
  BY DEF NewHead
<1>2. Revision(q, row, who).body =
        IF q.op \in {"meta", "http", "area"} THEN NullBody ELSE NewBody(q, row)
  BY DEF Revision
<1> QED BY <1>1, <1>2 DEF WritesBody, NewBody

LEMMA NullIsNoBody == NullBody \notin Bodies
<1>1. PICK i \in Items : TRUE
  BY NonEmpty
<1> QED BY <1>1 DEF NullBody, Bodies, Markers, Open, Done, Partial, Deferred, NoBox

\* The newest revision with a body holds `body'.
NewestBody(log, body) ==
    \E n \in DOMAIN log :
        /\ log[n].body # NullBody /\ log[n].body = body
        /\ \A m \in DOMAIN log : log[m].body # NullBody => m <= n

LEMMA NewestBodyExtend ==
    ASSUME NEW log, IsLog(log), NEW r, NEW old, NEW new, NewestBody(log, old),
           \/ r.body = new /\ new # NullBody
           \/ r.body = NullBody /\ new = old
    PROVE  NewestBody(Extend(log, Latest(log) + 1, r), new)
<1> DEFINE l == Latest(log)
           ext == Extend(log, l + 1, r)
<1>1. /\ l \in Nat \ {0} /\ DOMAIN log = 1 .. l /\ DOMAIN ext = 1 .. (l + 1)
      /\ ext[l + 1] = r /\ \A n \in DOMAIN log : ext[n] = log[n]
  BY ExtendLog DEF IsLog
<1> HIDE DEF l, ext
<1>2. CASE r.body = new /\ new # NullBody
  <2>1. l + 1 \in DOMAIN ext /\ \A m \in DOMAIN ext : m <= l + 1
    BY <1>1
  <2> QED BY <1>1, <1>2, <2>1 DEF NewestBody, l, ext
<1>3. CASE r.body = NullBody /\ new = old
  <2>1. PICK n \in DOMAIN log :
             /\ log[n].body # NullBody /\ log[n].body = old
             /\ \A m \in DOMAIN log : log[m].body # NullBody => m <= n
    BY DEF NewestBody
  <2>2. n \in DOMAIN ext /\ ext[n] = log[n]
    BY <1>1, <2>1
  <2>3. ASSUME NEW m \in DOMAIN ext, ext[m].body # NullBody
        PROVE  m <= n
    <3>1. m \in DOMAIN log \/ m = l + 1
      BY <1>1
    <3> QED BY <1>1, <1>3, <2>1, <2>3, <3>1
  <2> QED BY <1>3, <2>1, <2>2, <2>3 DEF NewestBody, l, ext
<1> QED BY <1>2, <1>3

LEMMA HeadIsNewestBodyAs ==
    HeadIsNewestBody <=> \A a \in Artifacts : NewestBody(revs[a], head[a].body)
BY DEF HeadIsNewestBody, BodyRevisions, NewestBody

LEMMA HeadBodyStep ==
    ASSUME Fresh, Fresh', [Next]_vars, NEW a \in Artifacts, NewestBody(revs[a], head[a].body)
    PROVE  NewestBody(revs[a], head[a].body)'
<1>1. CASE head'[a] = head[a] /\ revs'[a] = revs[a]
  BY <1>1 DEF NewestBody
<1>2. ASSUME NEW c \in Callers, NEW q, q = req[c],
             head'[a] = NewHead(q, head[a], head[a]),
             \/ q.op = "supersede" /\ revs'[a] = revs[a]
             \/ /\ q.op # "supersede"
                /\ revs'[a] = Extend(revs[a], Latest(revs[a]) + 1, Revision(q, head[a], c))
      PROVE  NewestBody(revs'[a], head'[a].body)
  <2>1. CASE q.op = "supersede" /\ revs'[a] = revs[a]
    <3>1. head'[a].body = head[a].body
      BY <1>2, <2>1, RevisionBody
    <3> QED BY <2>1, <3>1
  <2>2. CASE /\ q.op # "supersede"
             /\ revs'[a] = Extend(revs[a], Latest(revs[a]) + 1, Revision(q, head[a], c))
    <3>1. IsLog(revs[a])
      BY DEF Fresh, Numbers
    <3>2. head'[a].body # NullBody
      BY NullIsNoBody DEF Fresh, Numbers, TypeOK, Heads
    <3>3. \/ Revision(q, head[a], c).body = head'[a].body
          \/ Revision(q, head[a], c).body = NullBody /\ head'[a].body = head[a].body
      BY <1>2, <2>2, RevisionBody
    <3> QED BY <2>2, <3>1, <3>2, <3>3, NewestBodyExtend
  <2> QED BY <1>2, <2>1, <2>2
<1> QED BY <1>1, <1>2, LogStep DEF NewestBody

\* The body a reader sees is that of the newest revision that stores one.
THEOREM HeadIsNewest == Spec => []HeadIsNewestBody
<1> DEFINE I == \A a \in Artifacts : NewestBody(revs[a], head[a].body)
<1>1. Init => I
  <2> SUFFICES ASSUME Init, NEW a \in Artifacts
               PROVE  NewestBody(revs[a], head[a].body)
    OBVIOUS
  <2>1. head[a] \in Heads /\ revs[a] = InitialLog(head[a])
    BY InitialTasksAreRows DEF Init
  <2>2. DOMAIN revs[a] = {1} /\ revs[a][1].body = head[a].body
    BY <2>1 DEF InitialLog
  <2>3. head[a].body # NullBody
    BY <2>1, NullIsNoBody DEF Heads
  <2> QED BY <2>2, <2>3 DEF NewestBody
<1>2. Fresh /\ Fresh' /\ I /\ [Next]_vars => I'
  BY HeadBodyStep
<1>3. I => HeadIsNewestBody
  BY HeadIsNewestBodyAs
<1> QED BY <1>1, <1>2, <1>3, FreshInvariant, PTL DEF Spec

-----------------------------------------------------------------------------
(* Whose revisions they are.                                               *)

\* A revision is its caller's, who has sent a request; one with an expected
\* version can only have become the version after it.
Attributed ==
    \A a \in Artifacts : \A n \in DOMAIN revs[a] :
        revs[a][n].by \in Callers =>
            /\ pc[revs[a][n].by] # "idle"
            /\ Versioned(req[revs[a][n].by]) => n = req[revs[a][n].by].ver + 1

Promised == \A c \in Callers : reply[c] = "accepted" => pc[c] # "idle"

History == Attributed /\ Promised /\ AcceptedIsRecorded

\* A request stays the one that was sent, and what makes a reply an accepted
\* one is a commit, save for dry runs and the sweep.
LEMMA CallerStep ==
    ASSUME Fresh, [Next]_vars, NEW d \in Callers
    PROVE  /\ pc[d] # "idle" => req'[d] = req[d] /\ pc'[d] # "idle"
           /\ reply'[d] = "accepted" =>
                \/ reply[d] = "accepted"
                \/ /\ pc[d] # "idle"
                   /\ DryRun(req[d]) \/ req[d].op = "sweep" \/ Commit(d)
<1> DEFINE Keeps == /\ pc[d] # "idle" => req'[d] = req[d] /\ pc'[d] # "idle"
                    /\ reply'[d] = "accepted" =>
                         \/ reply[d] = "accepted"
                         \/ /\ pc[d] # "idle"
                            /\ DryRun(req[d]) \/ req[d].op = "sweep" \/ Commit(d)
<1>1. ASSUME UNCHANGED vars
      PROVE  Keeps
  BY <1>1 DEF vars
<1>2. ASSUME NEW c \in Callers, Submit(c)
      PROVE  Keeps
  BY <1>2 DEF Fresh, Numbers, TypeOK, Submit, Goto
<1>3. ASSUME NEW c \in Callers, NEW r \in {"accepted", "not_ready", "failed"}, Answer(c, r),
             pc[c] # "idle",
             r = "accepted" => DryRun(req[c]) \/ req[c].op = "sweep" \/ Commit(c)
      PROVE  Keeps
  BY <1>3 DEF Fresh, Numbers, TypeOK, Answer, Goto
<1>4. ASSUME NEW c \in Callers, NEW l \in PCs \ {"idle"}, Goto(c, l), req' = req,
             reply' = reply \/ reply' = [reply EXCEPT ![c] = "none"]
      PROVE  Keeps
  BY <1>4 DEF Fresh, Numbers, TypeOK, Goto
<1>5. ASSUME NEW c \in Callers, Progress(c) \/ ContentGate(c) \/ Fail(c) \/ Retry(c)
      PROVE  \/ \E r \in {"accepted", "not_ready", "failed"} :
                  /\ Answer(c, r) /\ pc[c] # "idle"
                  /\ r = "accepted" => DryRun(req[c]) \/ req[c].op = "sweep" \/ Commit(c)
             \/ \E l \in PCs \ {"idle"} :
                  /\ Goto(c, l) /\ req' = req
                  /\ reply' = reply \/ reply' = [reply EXCEPT ![c] = "none"]
  <2> DEFINE Answered ==
               \E r \in {"accepted", "not_ready", "failed"} :
                  /\ Answer(c, r) /\ pc[c] # "idle"
                  /\ r = "accepted" => DryRun(req[c]) \/ req[c].op = "sweep" \/ Commit(c)
             Went ==
               \E l \in PCs \ {"idle"} :
                  /\ Goto(c, l) /\ req' = req
                  /\ reply' = reply \/ reply' = [reply EXCEPT ![c] = "none"]
  <2>1. CASE Select(c)
    BY <2>1 DEF Select, FirstWrites, PCs
  <2>2. CASE SelectCandidates(c)
    BY <2>2 DEF SelectCandidates, PCs
  <2>3. CASE NextCandidate(c) \/ LockStatement(c) \/ LockRow(c) \/ AttachEvidence(c)
    BY <2>3 DEF NextCandidate, LockStatement, LockRow, AttachEvidence, PCs
  <2>4. CASE LockArea(c)
    BY <2>4 DEF LockArea, PCs
  <2>5. CASE InsertRevision(c)
    BY <2>5 DEF InsertRevision, PCs
  <2>6. CASE ForeignKeyCheck(c) \/ AreaForeignKey(c)
    BY <2>6 DEF ForeignKeyCheck, AreaForeignKey, PCs
  <2>7. CASE UpdateHead(c)
    BY <2>7 DEF UpdateHead, PCs
  <2>8. CASE Commit(c)
    <3>1. PICK r \in {"accepted", "failed"} : Answer(c, r)
      BY <2>8 DEF Commit
    <3>2. pc[c] # "idle"
      BY <2>8 DEF Commit
    <3> QED BY <2>8, <3>1, <3>2
  <2>9. CASE RollbackDryRun(c)
    BY <2>9 DEF RollbackDryRun
  <2>10. CASE DeadlockVictim(c)
    <3>1. PICK D \in SUBSET Callers : c \in D /\ \A d1 \in D : WaitsFor(d1) \cap D # {}
      BY <2>10 DEF DeadlockVictim, Deadlocked
    <3>2. WaitsFor(c) # {}
      BY <3>1
    <3>3. pc[c] # "idle"
      BY <3>2 DEF WaitsFor
    <3> QED BY <2>10, <3>3 DEF DeadlockVictim
  <2>11. CASE ContentGate(c)
    BY <2>11 DEF ContentGate
  <2>12. CASE Fail(c)
    BY <2>12 DEF Fail
  <2>13. CASE Retry(c)
    BY <2>13 DEF Retry, PCs
  <2> QED BY <1>5, <2>1, <2>2, <2>3, <2>4, <2>5, <2>6, <2>7, <2>8, <2>9, <2>10, <2>11,
             <2>12, <2>13 DEF Progress
<1> HIDE DEF Keeps
<1>6. ASSUME NEW c \in Callers, Progress(c) \/ ContentGate(c) \/ Fail(c) \/ Retry(c)
      PROVE  Keeps
  BY <1>3, <1>4, <1>5, <1>6, Zenon
<1>7. Keeps
  BY <1>1, <1>2, <1>6 DEF Next
<1> QED BY <1>7 DEF Keeps

\* A commit of anything but the sweep and supersede_of leaves a revision.
LEMMA CommitRecords ==
    ASSUME Fresh, NEW c \in Callers, Commit(c), req[c].op \notin {"sweep", "supersede"}
    PROVE  \E n \in DOMAIN revs'[req[c].art] : revs'[req[c].art][n].by = c
<1> DEFINE a == req[c].art
<1>1. pc[c] = "finish" /\ req[c] \in Requests /\ Own(c) /\ Numbers
  BY DEF Commit, Fresh, Numbers, Positions
<1>2. a \in Artifacts
  BY <1>1, RequestArt
<1>3. a \in ins[c]
  BY <1>1 DEF Own, Checked, Held, Revised, InTransaction
<1>4. revs'[a] = Extend(revs[a], Latest(revs[a]) + 1, Revision(req[c], seen[c][a].row, c))
  BY <1>1, <1>2, <1>3, CommittedLog
<1>5. IsLog(revs[a])
  BY <1>1, <1>2 DEF Numbers
<1>6. /\ Latest(revs[a]) + 1 \in DOMAIN revs'[a]
      /\ revs'[a][Latest(revs[a]) + 1] = Revision(req[c], seen[c][a].row, c)
  BY <1>4, <1>5, ExtendLog DEF IsLog
<1> QED BY <1>6 DEF Revision

LEMMA HistoryStep == Fresh /\ History /\ [Next]_vars => History'
<1> SUFFICES ASSUME Fresh, History, [Next]_vars
             PROVE  History'
  OBVIOUS
<1>1. \A d \in Callers :
        /\ pc[d] # "idle" => req'[d] = req[d] /\ pc'[d] # "idle"
        /\ reply'[d] = "accepted" =>
             \/ reply[d] = "accepted"
             \/ /\ pc[d] # "idle"
                /\ DryRun(req[d]) \/ req[d].op = "sweep" \/ Commit(d)
  BY CallerStep
<1>2. Attributed'
  <2> SUFFICES ASSUME NEW a \in Artifacts, NEW n \in DOMAIN revs'[a], NEW d \in Callers,
                      revs'[a][n].by = d
               PROVE  pc'[d] # "idle" /\ (Versioned(req'[d]) => n = req'[d].ver + 1)
    BY DEF Attributed, Versioned
  <2>1. CASE n \in DOMAIN revs[a] /\ revs'[a][n] = revs[a][n]
    <3>1. pc[d] # "idle" /\ (Versioned(req[d]) => n = req[d].ver + 1)
      BY <2>1 DEF History, Attributed
    <3>2. pc'[d] # "idle" /\ req'[d] = req[d]
      BY <1>1, <3>1
    <3> QED BY <3>1, <3>2
  <2>2. CASE ~(n \in DOMAIN revs[a] /\ revs'[a][n] = revs[a][n])
    <3>1. PICK c \in Callers :
               /\ Commit(c) /\ VersionAgrees(req[c], Latest(revs[a]))
               /\ revs'[a] = Extend(revs[a], Latest(revs[a]) + 1, Revision(req[c], head[a], c))
      BY <2>2, LogStep
    <3>2. IsLog(revs[a])
      BY DEF Fresh, Numbers
    <3>3. /\ DOMAIN revs'[a] = 1 .. (Latest(revs[a]) + 1) /\ Latest(revs[a]) \in Nat
          /\ DOMAIN revs[a] = 1 .. Latest(revs[a])
          /\ revs'[a][Latest(revs[a]) + 1] = Revision(req[c], head[a], c)
          /\ \A m \in DOMAIN revs[a] : revs'[a][m] = revs[a][m]
      BY <3>1, <3>2, ExtendLog DEF IsLog
    <3>4. n = Latest(revs[a]) + 1
      BY <2>2, <3>3
    <3>5. c = d
      BY <3>3, <3>4 DEF Revision
    <3>6. pc[d] # "idle"
      BY <3>1, <3>5 DEF Commit
    <3>7. Versioned(req[d]) => n = req[d].ver + 1
      BY <3>1, <3>4, <3>5 DEF Versioned, VersionAgrees
    <3> QED BY <1>1, <3>6, <3>7
  <2> QED BY <2>1, <2>2
<1>3. Promised'
  BY <1>1 DEF History, Promised
<1>4. AcceptedIsRecorded'
  <2> SUFFICES ASSUME NEW c \in Callers, reply'[c] = "accepted",
                      req'[c].op \notin {"sweep", "supersede"}, ~DryRun(req'[c])
               PROVE  \E n \in DOMAIN revs'[req'[c].art] : revs'[req'[c].art][n].by = c
    BY DEF AcceptedIsRecorded, DryRun
  <2>1. pc[c] # "idle" /\ req'[c] = req[c]
    BY <1>1 DEF History, Promised
  <2>2. CASE Commit(c)
    BY <2>1, <2>2, CommitRecords
  <2>3. CASE reply[c] = "accepted"
    <3>1. PICK n \in DOMAIN revs[req[c].art] : revs[req[c].art][n].by = c
      BY <2>1, <2>3 DEF History, AcceptedIsRecorded
    <3>2. req[c].art \in Artifacts
      BY <2>1, RequestArt DEF Fresh, Numbers, Positions
    <3>3. n \in DOMAIN revs'[req[c].art] /\ revs'[req[c].art][n] = revs[req[c].art][n]
      <4>1. IsLog(revs[req[c].art])
        BY <3>2 DEF Fresh, Numbers
      <4> QED BY <3>2, <4>1, LogStep, ExtendLog
    <3> QED BY <2>1, <3>1, <3>3
  <2> QED BY <1>1, <2>1, <2>2, <2>3
<1> QED BY <1>2, <1>3, <1>4 DEF History

LEMMA HistoryInit == Init => History
<1> SUFFICES ASSUME Init
             PROVE  History
  OBVIOUS
<1>1. \A a \in Artifacts : \A n \in DOMAIN revs[a] : revs[a][n].by = "create"
  BY DEF Init, InitialLog
<1>2. \A c \in Callers : reply[c] = "none"
  BY DEF Init
<1> QED BY <1>1, <1>2, CreatorIsNoCaller DEF History, Attributed, Promised, AcceptedIsRecorded

LEMMA HistoryInvariant == Spec => []History
BY HistoryInit, HistoryStep, FreshInvariant, PTL DEF Spec

\* However often a request with expected_version is sent, it is applied once.
THEOREM RetriesApplyOnce == Spec => []RetryAppliesOnce
<1>1. History => RetryAppliesOnce
  BY DEF History, Attributed, RetryAppliesOnce
<1> QED BY <1>1, HistoryInvariant, PTL

\* What a caller was told is committed stays in the history.
THEOREM AcceptedStaysRecorded == Spec => []AcceptedIsRecorded
<1>1. History => AcceptedIsRecorded
  BY DEF History
<1> QED BY <1>1, HistoryInvariant, PTL

=============================================================================
