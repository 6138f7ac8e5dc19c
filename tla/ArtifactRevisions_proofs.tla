----------------------- MODULE ArtifactRevisions_proofs -----------------------
(***************************************************************************)
(* The safety of the revision log, for every set of artifacts, callers and *)
(* requests.                                                               *)
(***************************************************************************)
EXTENDS ArtifactRevisions, TaskArtifact_proofs

-----------------------------------------------------------------------------
(* Logs: functions over 1 .. n.                                            *)

IsLog(log) == Latest(log) \in Nat \ {0} /\ DOMAIN log = 1 .. Latest(log)

\* The newest number of a log without gaps is its length.
LEMMA LatestOfLog ==
    ASSUME NEW n \in Nat \ {0}, NEW log, DOMAIN log = 1 .. n
    PROVE  Latest(log) = n
<1> DEFINE Newest(m) == m \in DOMAIN log /\ \A k \in DOMAIN log : k <= m
<1>1. Newest(n)
  OBVIOUS
<1>2. \A m : Newest(m) => m = n
  OBVIOUS
<1> QED BY <1>1, <1>2 DEF Latest

LEMMA InitialLogIsLog ==
    ASSUME NEW row \in Heads
    PROVE  /\ IsLog(InitialLog(row)) /\ Latest(InitialLog(row)) = 1
           /\ PartialFcn(InitialLog(row), Nat \ {0}, Rows)
<1>1. DOMAIN InitialLog(row) = 1 .. 1
  BY DEF InitialLog
<1>2. Latest(InitialLog(row)) = 1
  <2>1. 1 \in Nat \ {0}
    OBVIOUS
  <2> QED BY <1>1, <2>1, LatestOfLog, Zenon
<1>3. [shape |-> "body_patch", body |-> row.body, by |-> "create"] \in Rows
  BY DEF Rows, RevisionsBy, Heads
<1> QED BY <1>1, <1>2, <1>3 DEF IsLog, PartialFcn, InitialLog

\* Adding revision Latest + 1 leaves a log one longer, the rest unchanged.
LEMMA ExtendLog ==
    ASSUME NEW log, IsLog(log), NEW r
    PROVE  LET new == Extend(log, Latest(log) + 1, r)
           IN  /\ IsLog(new) /\ Latest(new) = Latest(log) + 1
               /\ new[Latest(log) + 1] = r
               /\ \A n \in DOMAIN log : n \in DOMAIN new /\ new[n] = log[n]
<1> DEFINE new == Extend(log, Latest(log) + 1, r)
<1>1. Latest(log) + 1 \in Nat \ {0} /\ DOMAIN new = 1 .. (Latest(log) + 1)
  BY DEF IsLog, Extend
<1>2. Latest(new) = Latest(log) + 1
  BY <1>1, LatestOfLog
<1>3. new[Latest(log) + 1] = r /\ \A n \in DOMAIN log : n \in DOMAIN new /\ new[n] = log[n]
  BY DEF IsLog, Extend
<1> QED BY <1>1, <1>2, <1>3 DEF IsLog

LEMMA ExtendType ==
    ASSUME NEW log, NEW S, NEW T, PartialFcn(log, S, T), NEW n \in S, NEW r \in T
    PROVE  PartialFcn(Extend(log, n, r), S, T)
BY DEF PartialFcn, Extend

LEMMA BindType ==
    ASSUME NEW f, NEW S, NEW T, PartialFcn(f, S, T), NEW a \in S, NEW v \in T
    PROVE  PartialFcn(Bind(f, a, v), S, T)
BY DEF PartialFcn, Bind

LEMMA EmptyType ==
    ASSUME NEW S, NEW T
    PROVE  PartialFcn(Empty, S, T) /\ DOMAIN Empty = {}
BY DEF PartialFcn, Empty

-----------------------------------------------------------------------------
(* The numbers: what UNIQUE (artifact_id, revision_number) buys.           *)

\* No handler has read a revision that does not exist.
ReadsAreBounded ==
    \A c \in Callers : \A a \in DOMAIN seen[c] : seen[c][a].rev \in 1 .. Latest(revs[a])

\* Whoever holds an uncommitted revision read the newest one, which is still
\* the newest, and is alone with it.
InsertsAreLatest ==
    \A c \in Callers : \A a \in ins[c] :
        a \in DOMAIN seen[c] /\ seen[c][a].rev = Latest(revs[a])
InsertsAreExclusive ==
    \A c, d \in Callers : \A a \in Artifacts : (a \in ins[c] /\ a \in ins[d]) => c = d

\* Where a handler is says what it holds.
Positions ==
    \A c \in Callers :
        /\ pc[c] \in {"idle", "select", "lock", "lock_area", "replied"} => ins[c] = {} /\ todo[c] = {}
        /\ pc[c] \in {"lock", "lock_area", "attach", "insert", "fk", "update"} => at[c] \in DOMAIN seen[c]
        /\ pc[c] \in {"lock", "lock_area"} => req[c].op = "area" /\ at[c] = req[c].art
        /\ pc[c] # "idle" => req[c] \in Requests
        /\ todo[c] \subseteq DOMAIN seen[c]

Numbers ==
    /\ TypeOK
    /\ \A a \in Artifacts : IsLog(revs[a])
    /\ ReadsAreBounded
    /\ InsertsAreLatest
    /\ InsertsAreExclusive
    /\ Positions

LEMMA RequestArt ==
    ASSUME NEW q \in Requests, q.op # "sweep"
    PROVE  q.art \in Artifacts
BY RequestsAreRequests DEF AllRequests, BodyRequests, AcceptRequests, MetaRequests,
   HttpRequests, ClaimRequests, AreaRequests, SweepRequests, SupersedeRequests

LEMMA SnapshotType ==
    ASSUME TypeOK, NEW a \in Artifacts, IsLog(revs[a])
    PROVE  /\ Snapshot(a) \in Snapshots
           /\ Snapshot(a).rev = Latest(revs[a]) /\ Snapshot(a).row = head[a]
           /\ Snapshot(a).rev \in 1 .. Latest(revs[a])
BY DEF TypeOK, Snapshot, Snapshots, IsLog

THEOREM NumbersInit == Init => Numbers
<1> SUFFICES ASSUME Init
             PROVE  Numbers
  OBVIOUS
<1>1. \A a \in Artifacts : head[a] \in Heads /\ revs[a] = InitialLog(head[a])
  BY InitialTasksAreRows DEF Init
<1>2. \A a \in Artifacts : IsLog(revs[a]) /\ PartialFcn(revs[a], Nat \ {0}, Rows)
  BY <1>1, InitialLogIsLog
<1>3. \A c \in Callers : seen[c] = Empty /\ rows[c] = Empty
  BY DEF Init
<1>4. \A c \in Callers : /\ PartialFcn(seen[c], Artifacts, Snapshots)
                         /\ PartialFcn(rows[c], Artifacts, Heads)
                         /\ DOMAIN seen[c] = {}
  BY <1>3, EmptyType
<1>5. (CHOOSE a \in Artifacts : TRUE) \in Artifacts
  BY NonEmpty
<1>6. TypeOK
  <2>1. head \in [Artifacts -> Heads]
    BY InitialTasksAreRows DEF Init
  <2>2. DOMAIN revs = Artifacts /\ DOMAIN seen = Callers /\ DOMAIN rows = Callers
    BY DEF Init
  <2>3. req \in [Callers -> Requests \cup {NoRequest}] /\ pc \in [Callers -> PCs]
    BY DEF Init, PCs
  <2>4. /\ todo \in [Callers -> SUBSET Artifacts] /\ ins \in [Callers -> SUBSET Artifacts]
        /\ share \in [Callers -> SUBSET Artifacts] /\ excl \in [Callers -> SUBSET Artifacts]
    BY DEF Init
  <2>5. at \in [Callers -> Artifacts]
    BY <1>5 DEF Init
  <2>6. /\ reply \in [Callers -> {"none", "accepted", "not_ready", "failed"}]
        /\ tries \in [Callers -> 0 .. MaxTries]
    BY MaxTriesIsPositive DEF Init
  <2> QED BY <1>2, <1>4, <2>1, <2>2, <2>3, <2>4, <2>5, <2>6 DEF TypeOK
<1>7. ReadsAreBounded /\ InsertsAreLatest /\ InsertsAreExclusive /\ Positions
  BY <1>4 DEF Init, ReadsAreBounded, InsertsAreLatest, InsertsAreExclusive, Positions
<1> QED BY <1>2, <1>6, <1>7 DEF Numbers

\* Answering drops everything the handler holds.
LEMMA AnswerKeepsNumbers ==
    ASSUME Numbers, UNCHANGED table, NEW c \in Callers, pc[c] # "idle",
           NEW r \in {"accepted", "not_ready", "failed"}, Answer(c, r)
    PROVE  Numbers'
<1> USE DEF Answer, Goto
<1>1. \A d \in Callers : /\ d = c => /\ seen'[d] = Empty /\ rows'[d] = Empty /\ ins'[d] = {}
                                     /\ todo'[d] = {} /\ pc'[d] = "replied"
                         /\ d # c => /\ seen'[d] = seen[d] /\ rows'[d] = rows[d]
                                     /\ ins'[d] = ins[d] /\ todo'[d] = todo[d]
                                     /\ pc'[d] = pc[d]
  BY DEF Numbers, TypeOK
<1>2. \A d \in Callers : /\ PartialFcn(seen'[d], Artifacts, Snapshots)
                         /\ PartialFcn(rows'[d], Artifacts, Heads)
                         /\ d = c => DOMAIN seen'[d] = {}
  BY <1>1, EmptyType DEF Numbers, TypeOK
<1>3. TypeOK'
  BY <1>2 DEF Numbers, TypeOK, PCs, table
<1>4. (\A a \in Artifacts : IsLog(revs[a]))' /\ ReadsAreBounded'
  BY <1>1, <1>2 DEF Numbers, ReadsAreBounded, table
<1>5. InsertsAreLatest' /\ InsertsAreExclusive'
  BY <1>1 DEF Numbers, InsertsAreLatest, InsertsAreExclusive, table
<1>6. Positions'
  BY <1>1, <1>2 DEF Numbers, Positions
<1> QED BY <1>3, <1>4, <1>5, <1>6 DEF Numbers

\* A step that leaves the tables, the reads and the inserts alone only has to
\* keep the types and the positions.
LEMMA TablesUnchanged ==
    ASSUME Numbers, UNCHANGED <<table, seen, ins>>
    PROVE  (/\ \A a \in Artifacts : IsLog(revs[a])
            /\ ReadsAreBounded /\ InsertsAreLatest /\ InsertsAreExclusive)'
BY DEF Numbers, ReadsAreBounded, InsertsAreLatest, InsertsAreExclusive, table

\* A handler that reads the artifact anew, before it has inserted anything.
LEMMA ReadingKeepsNumbers ==
    ASSUME Numbers, UNCHANGED <<table, ins>>, NEW c \in Callers, ins[c] = {},
           NEW f, PartialFcn(f, Artifacts, Snapshots),
           \A a \in DOMAIN f : f[a].rev \in 1 .. Latest(revs[a]),
           seen' = [seen EXCEPT ![c] = f]
    PROVE  /\ (/\ \A a \in Artifacts : IsLog(revs[a])
               /\ ReadsAreBounded /\ InsertsAreLatest /\ InsertsAreExclusive)'
           /\ DOMAIN seen' = Callers
           /\ \A d \in Callers : PartialFcn(seen'[d], Artifacts, Snapshots)
<1>1. \A d \in Callers : seen'[d] = IF d = c THEN f ELSE seen[d]
  BY DEF Numbers, TypeOK
<1>2. DOMAIN seen' = Callers
  BY DEF Numbers, TypeOK
<1>3. \A d \in Callers : PartialFcn(seen'[d], Artifacts, Snapshots)
  BY <1>1 DEF Numbers, TypeOK
<1>4. (\A a \in Artifacts : IsLog(revs[a]))' /\ ReadsAreBounded'
  BY <1>1 DEF Numbers, ReadsAreBounded, table
<1>5. InsertsAreLatest' /\ InsertsAreExclusive'
  BY <1>1 DEF Numbers, InsertsAreLatest, InsertsAreExclusive, table
<1> QED BY <1>2, <1>3, <1>4, <1>5

LEMMA BindOne ==
    ASSUME NEW a, NEW v
    PROVE  DOMAIN Bind(Empty, a, v) = {a} /\ Bind(Empty, a, v)[a] = v
BY DEF Bind, Empty

\* The steps before the first write.
LEMMA ReadStepKeepsNumbers ==
    ASSUME Numbers, NEW c \in Callers,
           \/ Submit(c) \/ Select(c) \/ ContentGate(c) \/ SelectCandidates(c)
           \/ NextCandidate(c) \/ LockStatement(c) \/ LockRow(c) \/ LockArea(c)
    PROVE  Numbers'
<1> USE DEF Goto
<1>1. CASE Submit(c)
  <2>1. TypeOK'
    BY <1>1, MaxTriesIsPositive DEF Submit, Numbers, TypeOK, PCs, table, writes
  <2>2. Positions'
    BY <1>1 DEF Submit, Numbers, TypeOK, Positions, writes
  <2> QED BY <1>1, <2>1, <2>2, TablesUnchanged DEF Submit, writes, Numbers
<1>2. CASE Select(c)
  <2> DEFINE q == req[c]
             s == Snapshot(q.art)
  <2>1. q \in Requests /\ q.art \in Artifacts /\ ins[c] = {} /\ pc[c] # "idle"
    BY <1>2, RequestArt DEF Select, Numbers, Positions
  <2>2. CASE Answer(c, "not_ready")
    BY <1>2, <2>1, <2>2, AnswerKeepsNumbers DEF Select
  <2>3. CASE /\ \E l \in FirstWrites(q) : Goto(c, l)
             /\ seen' = [seen EXCEPT ![c] = Bind(Empty, q.art, s)]
             /\ at' = [at EXCEPT ![c] = q.art]
             /\ UNCHANGED <<req, todo, writes, reply, tries>>
    <3>1. s \in Snapshots /\ s.rev \in 1 .. Latest(revs[q.art])
      BY <2>1, SnapshotType DEF Numbers
    <3>2. PartialFcn(Bind(Empty, q.art, s), Artifacts, Snapshots)
      BY <2>1, <3>1, EmptyType, BindType
    <3>3. /\ \A a \in DOMAIN Bind(Empty, q.art, s) :
                Bind(Empty, q.art, s)[a].rev \in 1 .. Latest(revs[a])
          /\ DOMAIN Bind(Empty, q.art, s) = {q.art}
      <4>1. DOMAIN Bind(Empty, q.art, s) = {q.art} /\ Bind(Empty, q.art, s)[q.art] = s
        BY BindOne
      <4> HIDE DEF s
      <4> QED BY <3>1, <4>1
    <3>4. UNCHANGED <<table, ins>>
      BY <1>2, <2>3 DEF Select, writes
    <3>5. /\ (/\ \A a \in Artifacts : IsLog(revs[a])
              /\ ReadsAreBounded /\ InsertsAreLatest /\ InsertsAreExclusive)'
          /\ DOMAIN seen' = Callers
          /\ \A d \in Callers : PartialFcn(seen'[d], Artifacts, Snapshots)
      BY <2>1, <2>3, <3>2, <3>3, <3>4, ReadingKeepsNumbers
    <3>6. TypeOK'
      BY <2>1, <2>3, <3>4, <3>5 DEF Numbers, TypeOK, PCs, FirstWrites, table, writes
    <3>7. Positions'
      <4>1. todo[c] = {} /\ at'[c] = q.art /\ DOMAIN seen'[c] = {q.art}
        BY <1>2, <2>3, <3>3 DEF Select, Numbers, TypeOK, Positions
      <4> QED BY <2>1, <2>3, <4>1 DEF Numbers, TypeOK, Positions, FirstWrites, writes
    <3> QED BY <3>5, <3>6, <3>7 DEF Numbers
  <2> QED BY <1>2, <2>2, <2>3 DEF Select
<1>3. CASE ContentGate(c)
  BY <1>3, AnswerKeepsNumbers DEF ContentGate
<1>4. CASE SelectCandidates(c)
  <2> DEFINE complete == {a \in Artifacts : SweepCandidate(head[a]) /\ head[a].life = "active"}
             f == [a \in complete |-> Snapshot(a)]
  <2>1. ins[c] = {} /\ pc[c] # "idle" /\ UNCHANGED table
    BY <1>4 DEF SelectCandidates, Numbers, Positions
  <2>2. CASE Answer(c, "accepted")
    BY <2>1, <2>2, AnswerKeepsNumbers
  <2>3. CASE /\ seen' = [seen EXCEPT ![c] = f]
             /\ todo' = [todo EXCEPT ![c] = complete]
             /\ pc' = [pc EXCEPT ![c] = "next"]
             /\ UNCHANGED <<req, at, writes, reply, tries>>
    <3>1. \A a \in complete : Snapshot(a) \in Snapshots /\ Snapshot(a).rev \in 1 .. Latest(revs[a])
      BY SnapshotType DEF Numbers
    <3>2. DOMAIN f = complete /\ \A a \in complete : f[a] = Snapshot(a)
      OBVIOUS
    <3>3. PartialFcn(f, Artifacts, Snapshots)
      BY <3>1 DEF PartialFcn
    <3>4. UNCHANGED <<table, ins>>
      BY <2>1, <2>3 DEF writes
    <3> HIDE DEF f
    <3>5. /\ (/\ \A a \in Artifacts : IsLog(revs[a])
              /\ ReadsAreBounded /\ InsertsAreLatest /\ InsertsAreExclusive)'
          /\ DOMAIN seen' = Callers
          /\ \A d \in Callers : PartialFcn(seen'[d], Artifacts, Snapshots)
      BY <2>1, <2>3, <3>1, <3>2, <3>3, <3>4, ReadingKeepsNumbers
    <3>6. TypeOK'
      BY <2>1, <2>3, <3>4, <3>5 DEF Numbers, TypeOK, PCs, table, writes
    <3>7. Positions'
      <4>1. DOMAIN seen'[c] = complete /\ todo'[c] = complete
        BY <2>3, <3>2 DEF Numbers, TypeOK
      <4> HIDE DEF complete
      <4> QED BY <2>1, <2>3, <4>1 DEF Numbers, TypeOK, Positions, writes
    <3> QED BY <3>5, <3>6, <3>7 DEF Numbers
  <2> QED BY <1>4, <2>2, <2>3 DEF SelectCandidates
<1>5. CASE NextCandidate(c)
  <2>1. TypeOK'
    BY <1>5 DEF NextCandidate, Numbers, TypeOK, PCs, table, writes
  <2>2. Positions'
    BY <1>5 DEF NextCandidate, Numbers, TypeOK, Positions, writes
  <2> QED BY <1>5, <2>1, <2>2, TablesUnchanged DEF NextCandidate, writes, Numbers
<1>6. CASE LockStatement(c)
  <2> DEFINE q == req[c]
             s == Snapshot(q.art)
             f == Bind(Empty, q.art, s)
  <2>1. q \in Requests /\ q.art \in Artifacts /\ ins[c] = {} /\ q.op = "area"
    BY <1>6, RequestArt DEF LockStatement, Numbers, Positions
  <2>2. s \in Snapshots /\ s.rev \in 1 .. Latest(revs[q.art])
    BY <2>1, SnapshotType DEF Numbers
  <2>3. PartialFcn(f, Artifacts, Snapshots)
    BY <2>1, <2>2, EmptyType, BindType
  <2>4. DOMAIN f = {q.art} /\ f[q.art] = s
    BY BindOne
  <2>5. /\ UNCHANGED <<table, ins>>
        /\ seen' = [seen EXCEPT ![c] = f]
    BY <1>6 DEF LockStatement, writes
  <2> HIDE DEF f, s
  <2>6. /\ (/\ \A a \in Artifacts : IsLog(revs[a])
            /\ ReadsAreBounded /\ InsertsAreLatest /\ InsertsAreExclusive)'
        /\ DOMAIN seen' = Callers
        /\ \A d \in Callers : PartialFcn(seen'[d], Artifacts, Snapshots)
    BY <2>1, <2>2, <2>3, <2>4, <2>5, ReadingKeepsNumbers
  <2>7. TypeOK'
    BY <1>6, <2>1, <2>5, <2>6 DEF LockStatement, Numbers, TypeOK, PCs, table, writes
  <2>8. Positions'
    BY <1>6, <2>1, <2>4, <2>5 DEF LockStatement, Numbers, TypeOK, Positions, writes
  <2> QED BY <2>6, <2>7, <2>8 DEF Numbers
<1>7. CASE LockRow(c)
  <2>1. TypeOK'
    BY <1>7 DEF LockRow, Numbers, TypeOK, PCs, table
  <2>2. Positions'
    BY <1>7 DEF LockRow, Numbers, TypeOK, Positions
  <2> QED BY <1>7, <2>1, <2>2, TablesUnchanged DEF LockRow, Numbers
<1>8. CASE LockArea(c)
  <2> DEFINE q == req[c]
             a == at[c]
             s == [rev |-> seen[c][a].rev, row |-> head[a]]
             f == Bind(Empty, a, s)
  <2>1. q \in Requests /\ a \in Artifacts /\ ins[c] = {} /\ q.op = "area" /\ a \in DOMAIN seen[c]
    BY <1>8, RequestArt DEF LockArea, Numbers, Positions
  <2>2. CASE Answer(c, "not_ready")
    BY <1>8, <2>2, AnswerKeepsNumbers DEF LockArea
  <2>3. CASE /\ seen' = [seen EXCEPT ![c] = f]
             /\ pc' = [pc EXCEPT ![c] = "insert"]
             /\ UNCHANGED <<req, todo, at, writes, reply, tries>>
    <3>1. seen[c][a] \in Snapshots /\ seen[c][a].rev \in 1 .. Latest(revs[a])
      BY <2>1 DEF Numbers, TypeOK, PartialFcn, ReadsAreBounded
    <3>2. s \in Snapshots /\ s.rev \in 1 .. Latest(revs[a])
      BY <2>1, <3>1 DEF Numbers, TypeOK, Snapshots
    <3>3. PartialFcn(f, Artifacts, Snapshots)
      BY <2>1, <3>2, EmptyType, BindType
    <3>4. DOMAIN f = {a} /\ f[a] = s
      BY BindOne
    <3>5. UNCHANGED <<table, ins>>
      BY <1>8, <2>3 DEF LockArea, writes
    <3> HIDE DEF f, s
    <3>6. /\ (/\ \A b \in Artifacts : IsLog(revs[b])
              /\ ReadsAreBounded /\ InsertsAreLatest /\ InsertsAreExclusive)'
          /\ DOMAIN seen' = Callers
          /\ \A d \in Callers : PartialFcn(seen'[d], Artifacts, Snapshots)
      BY <2>1, <2>3, <3>2, <3>3, <3>4, <3>5, ReadingKeepsNumbers
    <3>7. TypeOK'
      BY <2>1, <2>3, <3>5, <3>6 DEF Numbers, TypeOK, PCs, table, writes
    <3>8. Positions'
      BY <1>8, <2>1, <2>3, <3>4 DEF LockArea, Numbers, TypeOK, Positions, writes
    <3> QED BY <3>6, <3>7, <3>8 DEF Numbers
  <2> QED BY <1>8, <2>2, <2>3 DEF LockArea
<1> QED BY <1>1, <1>2, <1>3, <1>4, <1>5, <1>6, <1>7, <1>8

\* The writes of an open transaction.
LEMMA WriteStepKeepsNumbers ==
    ASSUME Numbers, NEW c \in Callers,
           \/ AttachEvidence(c) \/ InsertRevision(c) \/ ForeignKeyCheck(c)
           \/ UpdateHead(c) \/ AreaForeignKey(c) \/ Retry(c)
    PROVE  Numbers'
<1> USE DEF Goto
<1>1. CASE AttachEvidence(c)
  <2>1. TypeOK'
    BY <1>1 DEF AttachEvidence, Numbers, TypeOK, PCs, table
  <2>2. Positions'
    BY <1>1 DEF AttachEvidence, Numbers, TypeOK, Positions
  <2> QED BY <1>1, <2>1, <2>2, TablesUnchanged DEF AttachEvidence, Numbers
<1>2. CASE InsertRevision(c)
  <2> DEFINE a == at[c]
  <2>1. CASE Answer(c, "failed")
    BY <1>2, <2>1, AnswerKeepsNumbers DEF InsertRevision
  <2>2. CASE /\ NewRev(c, a) \notin DOMAIN revs[a]
             /\ ins' = [ins EXCEPT ![c] = @ \cup {a}]
             /\ pc' = [pc EXCEPT ![c] = "fk"]
             /\ UNCHANGED <<req, seen, todo, at, rows, share, excl, reply, tries>>
    <3>1. a \in Artifacts /\ a \in DOMAIN seen[c] /\ KeyTaken(c, a) = {} /\ pc[c] = "insert"
      BY <1>2 DEF InsertRevision, Granted, WaitsFor, Numbers, TypeOK, Positions
    <3>2. seen[c][a].rev = Latest(revs[a])
      BY <2>2, <3>1 DEF Numbers, ReadsAreBounded, IsLog, NewRev
    <3>3. \A d \in Callers \ {c} : a \notin ins[d]
      BY <3>1, <3>2 DEF Numbers, InsertsAreLatest, KeyTaken, NewRev
    <3>4. \A d \in Callers : ins'[d] = IF d = c THEN ins[c] \cup {a} ELSE ins[d]
      BY <2>2 DEF Numbers, TypeOK
    <3>5. UNCHANGED table
      BY <1>2 DEF InsertRevision
    <3>6. TypeOK'
      BY <2>2, <3>1, <3>5 DEF Numbers, TypeOK, PCs, table
    <3>7. (\A b \in Artifacts : IsLog(revs[b]))' /\ ReadsAreBounded' /\ InsertsAreLatest'
      BY <2>2, <3>1, <3>2, <3>4, <3>5 DEF Numbers, ReadsAreBounded, InsertsAreLatest, table
    <3>8. InsertsAreExclusive'
      BY <3>3, <3>4 DEF Numbers, InsertsAreExclusive
    <3>9. Positions'
      BY <2>2, <3>1 DEF Numbers, TypeOK, Positions
    <3> QED BY <3>6, <3>7, <3>8, <3>9 DEF Numbers
  <2> QED BY <1>2, <2>1, <2>2 DEF InsertRevision
<1>3. CASE ForeignKeyCheck(c)
  <2>1. TypeOK'
    BY <1>3 DEF ForeignKeyCheck, Numbers, TypeOK, PCs, table
  <2>2. Positions'
    BY <1>3 DEF ForeignKeyCheck, Numbers, TypeOK, Positions
  <2> QED BY <1>3, <2>1, <2>2, TablesUnchanged DEF ForeignKeyCheck, Numbers
<1>4. CASE UpdateHead(c)
  <2> DEFINE a == at[c]
             row == NewHead(req[c], seen[c][a].row, head[a])
  <2>1. /\ a \in Artifacts /\ a \in DOMAIN seen[c]
        /\ req[c] \in Requests /\ pc[c] = "update"
    BY <1>4 DEF UpdateHead, Numbers, TypeOK, Positions
  <2>2. row \in Heads
    <3>1. seen[c][a].row \in Heads /\ head[a] \in Heads /\ req[c] \in AllRequests
      BY <2>1, RequestsAreRequests DEF Numbers, TypeOK, PartialFcn, Snapshots
    <3> QED BY <3>1, NewHeadType
  <2>3. PartialFcn(Bind(rows[c], a, row), Artifacts, Heads)
    BY <2>1, <2>2, BindType DEF Numbers, TypeOK
  <2>4. /\ UNCHANGED <<table, req, seen, todo, at, ins, share, excl, reply, tries>>
        /\ \E f : /\ PartialFcn(f, Artifacts, Heads)
                  /\ rows' = [rows EXCEPT ![c] = f]
        /\ \E l \in {"next", "insert", "area_fk", "finish"} : pc' = [pc EXCEPT ![c] = l]
    <3> HIDE DEF row
    <3>1. CASE rows' = [rows EXCEPT ![c] = Bind(rows[c], a, row)]
      BY <1>4, <2>3, <3>1 DEF UpdateHead
    <3>2. CASE rows' = [rows EXCEPT ![c] = rows[c]]
      BY <1>4, <3>2 DEF UpdateHead, Numbers, TypeOK
    <3> QED BY <1>4, <3>1, <3>2 DEF UpdateHead, row
  <2>5. DOMAIN rows' = Callers /\ \A d \in Callers : PartialFcn(rows'[d], Artifacts, Heads)
    BY <2>4 DEF Numbers, TypeOK
  <2>6. TypeOK'
    BY <2>4, <2>5 DEF Numbers, TypeOK, PCs, table
  <2>7. Positions'
    BY <2>1, <2>4 DEF Numbers, TypeOK, Positions
  <2> QED BY <2>4, <2>6, <2>7, TablesUnchanged DEF Numbers
<1>6. CASE AreaForeignKey(c)
  <2>1. TypeOK'
    BY <1>6 DEF AreaForeignKey, Numbers, TypeOK, PCs, table, writes
  <2>2. Positions'
    BY <1>6 DEF AreaForeignKey, Numbers, TypeOK, Positions, writes
  <2> QED BY <1>6, <2>1, <2>2, TablesUnchanged DEF AreaForeignKey, writes, Numbers
<1>5. CASE Retry(c)
  <2>1. TypeOK'
    BY <1>5, MaxTriesIsPositive DEF Retry, Numbers, TypeOK, PCs, table, writes
  <2>2. Positions'
    BY <1>5 DEF Retry, Numbers, TypeOK, Positions, writes
  <2> QED BY <1>5, <2>1, <2>2, TablesUnchanged DEF Retry, writes, Numbers
<1> QED BY <1>1, <1>2, <1>3, <1>4, <1>5, <1>6

\* What a commit makes of the log of one artifact.
LEMMA CommittedLog ==
    ASSUME Numbers, NEW c \in Callers, Commit(c), NEW a \in Artifacts
    PROVE  /\ IsLog(revs'[a]) /\ Latest(revs[a]) <= Latest(revs'[a])
           /\ a \notin ins[c] => revs'[a] = revs[a]
           /\ a \in ins[c] => /\ NewRev(c, a) = Latest(revs[a]) + 1
                              /\ revs'[a] = Extend(revs[a], Latest(revs[a]) + 1,
                                                   Revision(req[c], seen[c][a].row, c))
           /\ PartialFcn(revs'[a], Nat \ {0}, Rows)
           /\ \A n \in DOMAIN revs[a] : n \in DOMAIN revs'[a] /\ revs'[a][n] = revs[a][n]
<1>1. IsLog(revs[a]) /\ PartialFcn(revs[a], Nat \ {0}, Rows)
  BY DEF Numbers, TypeOK
<1>2. CASE a \notin ins[c]
  BY <1>1, <1>2 DEF Commit, IsLog
<1>3. CASE a \in ins[c]
  <2> DEFINE r == Revision(req[c], seen[c][a].row, c)
  <2>1. a \in DOMAIN seen[c] /\ NewRev(c, a) = Latest(revs[a]) + 1
    BY <1>3 DEF Numbers, InsertsAreLatest, NewRev
  <2>2. revs'[a] = Extend(revs[a], Latest(revs[a]) + 1, r)
    BY <1>3, <2>1 DEF Commit
  <2>3. r \in Rows
    <3>1. pc[c] = "finish" /\ req[c] \in AllRequests
      BY RequestsAreRequests DEF Commit, Numbers, Positions
    <3>2. seen[c][a].row \in Heads
      BY <2>1 DEF Numbers, TypeOK, PartialFcn, Snapshots
    <3> QED BY <3>1, <3>2, RevisionType DEF Rows
  <2>4. Latest(revs[a]) + 1 \in Nat \ {0}
    BY <1>1 DEF IsLog
  <2> HIDE DEF r
  <2>5. PartialFcn(revs'[a], Nat \ {0}, Rows)
    BY <1>1, <2>2, <2>3, <2>4, ExtendType
  <2>6. /\ IsLog(revs'[a]) /\ Latest(revs'[a]) = Latest(revs[a]) + 1
        /\ \A n \in DOMAIN revs[a] : n \in DOMAIN revs'[a] /\ revs'[a][n] = revs[a][n]
    BY <1>1, <2>2, ExtendLog
  <2> QED BY <1>1, <1>3, <2>1, <2>2, <2>5, <2>6 DEF IsLog, r
<1> QED BY <1>2, <1>3

LEMMA CommitKeepsNumbers ==
    ASSUME Numbers, NEW c \in Callers, Commit(c)
    PROVE  Numbers'
<1> PICK r \in {"accepted", "failed"} : Answer(c, r)
  BY DEF Commit
<1> USE DEF Goto, Answer
<1>1. \A d \in Callers : /\ d = c => /\ seen'[d] = Empty /\ rows'[d] = Empty /\ ins'[d] = {}
                                     /\ todo'[d] = {} /\ pc'[d] = "replied"
                         /\ d # c => /\ seen'[d] = seen[d] /\ rows'[d] = rows[d]
                                     /\ ins'[d] = ins[d] /\ todo'[d] = todo[d]
                                     /\ pc'[d] = pc[d]
  BY DEF Numbers, TypeOK
<1>2. \A d \in Callers : /\ PartialFcn(seen'[d], Artifacts, Snapshots)
                         /\ PartialFcn(rows'[d], Artifacts, Heads)
                         /\ d = c => DOMAIN seen'[d] = {}
  BY <1>1, EmptyType DEF Numbers, TypeOK
<1>3. head' \in [Artifacts -> Heads]
  BY DEF Commit, Numbers, TypeOK, PartialFcn
<1>4. TypeOK'
  <2>1. DOMAIN revs' = Artifacts /\ \A a \in Artifacts : PartialFcn(revs'[a], Nat \ {0}, Rows)
    BY CommittedLog DEF Commit
  <2> QED BY <1>2, <1>3, <2>1 DEF Commit, Numbers, TypeOK, PCs
<1>5. (\A a \in Artifacts : IsLog(revs[a]))'
  BY CommittedLog
<1>6. ReadsAreBounded'
  <2> SUFFICES ASSUME NEW d \in Callers, NEW a \in DOMAIN seen'[d]
               PROVE  seen'[d][a].rev \in 1 .. Latest(revs'[a])
    BY DEF ReadsAreBounded
  <2>1. d # c /\ seen'[d] = seen[d] /\ a \in Artifacts
    BY <1>1, <1>2 DEF PartialFcn
  <2>2. seen[d][a].rev \in 1 .. Latest(revs[a])
    BY <2>1 DEF Numbers, ReadsAreBounded
  <2>3. Latest(revs[a]) <= Latest(revs'[a]) /\ IsLog(revs[a]) /\ IsLog(revs'[a])
    BY <2>1, CommittedLog DEF Numbers
  <2> QED BY <2>1, <2>2, <2>3 DEF IsLog
<1>7. InsertsAreLatest'
  <2> SUFFICES ASSUME NEW d \in Callers, NEW a \in ins'[d]
               PROVE  a \in DOMAIN seen'[d] /\ seen'[d][a].rev = Latest(revs'[a])
    BY DEF InsertsAreLatest
  <2>1. d # c /\ seen'[d] = seen[d] /\ a \in ins[d] /\ a \in Artifacts
    BY <1>1 DEF Numbers, TypeOK
  <2>2. a \notin ins[c]
    BY <2>1 DEF Numbers, InsertsAreExclusive
  <2> QED BY <2>1, <2>2, CommittedLog DEF Numbers, InsertsAreLatest
<1>8. InsertsAreExclusive' /\ Positions'
  BY <1>1, <1>2 DEF Commit, Numbers, InsertsAreExclusive, Positions
<1> QED BY <1>4, <1>5, <1>6, <1>7, <1>8 DEF Numbers

\* The numbers are kept by every step.
THEOREM NumbersNext == Numbers /\ [Next]_vars => Numbers'
<1> SUFFICES ASSUME Numbers, [Next]_vars
             PROVE  Numbers'
  OBVIOUS
<1>1. CASE UNCHANGED vars
  BY <1>1 DEF vars, table, writes, Numbers, TypeOK, ReadsAreBounded, InsertsAreLatest,
              InsertsAreExclusive, Positions
<1>2. CASE Next
  <2> PICK c \in Callers : Submit(c) \/ Progress(c) \/ ContentGate(c) \/ Fail(c) \/ Retry(c)
    BY <1>2 DEF Next
  <2>1. CASE Submit(c) \/ ContentGate(c) \/ Retry(c)
    BY <2>1, ReadStepKeepsNumbers, WriteStepKeepsNumbers
  <2>2. CASE Fail(c)
    BY <2>2, AnswerKeepsNumbers DEF Fail
  <2>3. CASE Progress(c)
    <3>1. CASE RollbackDryRun(c)
      BY <3>1, AnswerKeepsNumbers DEF RollbackDryRun
    <3>2. CASE DeadlockVictim(c)
      <4>1. pc[c] # "idle"
        BY <3>2 DEF DeadlockVictim, Deadlocked, WaitsFor
      <4> QED BY <3>2, <4>1, AnswerKeepsNumbers DEF DeadlockVictim
    <3> QED BY <2>3, <3>1, <3>2, ReadStepKeepsNumbers, WriteStepKeepsNumbers,
               CommitKeepsNumbers DEF Progress
  <2> QED BY <2>1, <2>2, <2>3
<1> QED BY <1>1, <1>2

THEOREM NumbersInvariant == Spec => []Numbers
BY NumbersInit, NumbersNext, PTL DEF Spec

\* Every variable holds what its comment says, whatever the interleaving of
\* the handlers.
THEOREM TypeCorrect == Spec => []TypeOK
<1>1. Numbers => TypeOK
  BY DEF Numbers
<1> QED BY <1>1, NumbersInvariant, PTL

\* The revision numbers of an artifact never have a gap.
THEOREM Contiguous == Spec => []RevisionsContiguous
<1>1. Numbers => RevisionsContiguous
  BY DEF Numbers, IsLog, RevisionsContiguous
<1> QED BY <1>1, NumbersInvariant, PTL

\* No step changes or removes a revision.
THEOREM AppendOnly == Spec => HistoryIsAppendOnly
<1> DEFINE Kept == \A a \in Artifacts : \A n \in DOMAIN revs[a] :
                      n \in DOMAIN revs'[a] /\ revs'[a][n] = revs[a][n]
<1>1. Numbers /\ [Next]_vars => [Kept]_vars
  <2> SUFFICES ASSUME Numbers, Next
               PROVE  Kept
    OBVIOUS
  <2>1. PICK c \in Callers : Submit(c) \/ Progress(c) \/ ContentGate(c) \/ Fail(c) \/ Retry(c)
    BY DEF Next
  <2>2. CASE Commit(c)
    BY <2>2, CommittedLog
  <2>3. CASE UNCHANGED table
    BY <2>3 DEF table
  <2>4. Commit(c) \/ UNCHANGED table
    BY <2>1 DEF Progress, Submit, ContentGate, Fail, Retry, Select, SelectCandidates,
       NextCandidate, LockStatement, LockRow, LockArea, AttachEvidence, InsertRevision,
       ForeignKeyCheck, UpdateHead, AreaForeignKey, RollbackDryRun, DeadlockVictim
  <2> QED BY <2>2, <2>3, <2>4
<1> QED BY <1>1, NumbersInvariant, PTL DEF Spec, HistoryIsAppendOnly

=============================================================================
