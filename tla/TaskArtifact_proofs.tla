------------------------ MODULE TaskArtifact_proofs ------------------------
(***************************************************************************)
(* Facts about the operators of TaskArtifact: what the writers store is    *)
(* well formed, and depends on what was read only through body, status     *)
(* and assignee.                                                           *)
(***************************************************************************)
EXTENDS TaskArtifact, TLAPS

\* Ticking the open boxes of a body leaves a body.
LEMMA MarkedBodyType ==
    ASSUME NEW body \in Bodies
    PROVE  MarkUncheckedAsDone(body) \in Bodies
BY DEF Bodies, MarkUncheckedAsDone, Markers, Open, Done

\* Merging a patch into a task_meta leaves a task_meta: no Keep sentinel is
\* ever stored.
LEMMA MergeType ==
    ASSUME NEW meta \in TaskMetas, NEW patch \in MetaPatches
    PROVE  Merge(meta, patch) \in TaskMetas
BY DEF TaskMetas, MetaPatches, Merge

LEMMA ClaimedType ==
    ASSUME NEW meta \in TaskMetas
    PROVE  Claimed(meta) \in TaskMetas
BY DEF TaskMetas, Claimed, Statuses

LEMMA TaskMetaToJSONType ==
    ASSUME NEW patch \in MetaPatches
    PROVE  TaskMetaToJSON(patch) \in TaskMetas
<1>1. [status |-> "", assignee |-> ""] \in TaskMetas
  BY DEF TaskMetas
<1> QED BY <1>1, MergeType DEF TaskMetaToJSON

LEMMA NewBodyType ==
    ASSUME NEW q \in AllRequests, NEW seen \in Heads
    PROVE  NewBody(q, seen) \in Bodies
<1>1. CASE q.op = "body"
  BY <1>1 DEF NewBody, AllRequests, BodyRequests, AcceptRequests, MetaRequests, HttpRequests,
     ClaimRequests, AreaRequests, SweepRequests, SupersedeRequests
<1>2. CASE q.op = "accept"
  <2>1. q.marker \in Markers
    BY <1>2 DEF AllRequests, BodyRequests, AcceptRequests, MetaRequests, HttpRequests,
       ClaimRequests, AreaRequests, SweepRequests, SupersedeRequests
  <2> QED BY <1>2, <2>1 DEF NewBody, Heads, Bodies
<1>3. CASE q.op = "claim"
  BY <1>3, MarkedBodyType DEF NewBody, Heads
<1>4. CASE q.op \notin {"body", "accept", "claim"}
  BY <1>4 DEF NewBody, Heads
<1> QED BY <1>1, <1>2, <1>3, <1>4

LEMMA NewMetaType ==
    ASSUME NEW q \in AllRequests, NEW seen \in Heads, NEW row \in Heads
    PROVE  NewMeta(q, seen, row) \in TaskMetas
<1>1. row.meta \in TaskMetas
  BY DEF Heads
<1>2. q.op \in {"body", "meta", "http"} => q.meta \in MetaPatches
  BY DEF AllRequests, BodyRequests, AcceptRequests, MetaRequests, HttpRequests,
     ClaimRequests, AreaRequests, SweepRequests, SupersedeRequests
<1>3. CASE q.op \in {"claim", "sweep"} \/ AutoClaims(q, seen)
  BY <1>1, <1>3, ClaimedType DEF NewMeta
<1>4. CASE ~(q.op \in {"claim", "sweep"} \/ AutoClaims(q, seen))
  <2>1. CASE q.op = "body" /\ q.meta # NoPatch
    BY <1>2, <1>4, <2>1, TaskMetaToJSONType DEF NewMeta
  <2>2. CASE q.op \in {"meta", "http"}
    BY <1>1, <1>2, <1>4, <2>2, MergeType DEF NewMeta
  <2>3. CASE ~(q.op = "body" /\ q.meta # NoPatch) /\ q.op \notin {"meta", "http"}
    BY <1>1, <1>4, <2>3 DEF NewMeta
  <2> QED BY <2>1, <2>2, <2>3
<1> QED BY <1>3, <1>4

\* The row an UPDATE writes is a row.
LEMMA NewHeadType ==
    ASSUME NEW q \in AllRequests, NEW seen \in Heads, NEW row \in Heads
    PROVE  NewHead(q, seen, row) \in Heads
<1>1. q.op = "area" => q.area \in Areas
  BY DEF AllRequests, BodyRequests, AcceptRequests, MetaRequests, HttpRequests,
     ClaimRequests, AreaRequests, SweepRequests, SupersedeRequests
<1>2. NewBody(q, seen) \in Bodies /\ NewMeta(q, seen, row) \in TaskMetas
  BY NewBodyType, NewMetaType
<1> QED BY <1>1, <1>2 DEF NewHead, Heads

\* The revision a handler inserts is a revision row.
LEMMA RevisionType ==
    ASSUME NEW q \in AllRequests, NEW seen \in Heads, NEW S, NEW who \in S
    PROVE  Revision(q, seen, who) \in RevisionsBy(S)
<1>1. NewBody(q, seen) \in Bodies
  BY NewBodyType
<1> QED BY <1>1 DEF Revision, RevisionsBy

-----------------------------------------------------------------------------
\* The rows agree on everything but the lifecycle status.
SameContent(r, s) == r.body = s.body /\ r.meta = s.meta /\ r.area = s.area

\* A handler that read the content of the row computes what it would compute
\* from the row itself.
LEMMA FreshReadDecides ==
    ASSUME NEW q, NEW seen, NEW row, SameContent(seen, row), NEW who
    PROVE  /\ NewBody(q, seen) = NewBody(q, row)
           /\ NewHead(q, seen, row) = NewHead(q, row, row)
           /\ Revision(q, seen, who) = Revision(q, row, who)
<1>1. NewBody(q, seen) = NewBody(q, row)
  BY DEF NewBody, SameContent
<1>2. NewMeta(q, seen, row) = NewMeta(q, row, row)
  BY <1>1 DEF NewMeta, AutoClaims, SameContent
<1>3. WritesBody(q, seen) = WritesBody(q, row)
  BY <1>1 DEF WritesBody, SameContent
<1> QED BY <1>1, <1>2, <1>3 DEF NewHead, Revision

\* Only set_area looks at the lifecycle status.
LEMMA FreshReadAdmits ==
    ASSUME NEW q, NEW seen, NEW row, SameContent(seen, row), q.op # "area"
    PROVE  Admits(q, seen) = Admits(q, row)
BY DEF Admits, BodyAdmits, AcceptAdmits, MetaAdmits, HttpAdmits, ClaimAdmits, SweepCandidate,
   SameContent

=============================================================================
