--------------------------- MODULE IndexState_proofs ---------------------------
(***************************************************************************)
(* Two refreshes of an index that overlap in any way do not mix: for any   *)
(* artifacts, contents, embedders, writers and pindoc-reembed processes.   *)
(***************************************************************************)
EXTENDS IndexState, TLAPS

\* What a transaction has done when it is at a statement.
Local(p) ==
    /\ pc[p] \in {"idle", "prepare", "delete"} => doomed[p] = {} /\ del[p] = {} /\ ins[p] = 0
    /\ pc[p] = "deleting" => del[p] = {} /\ ins[p] = 0
    /\ pc[p] # "deleting" => doomed[p] = {}
    /\ pc[p] \in {"prepare", "delete", "deleting", "insert"} => work[p].model \in Models
    /\ pc[p] \in {"idle", "prepare"} => outcome[p] = "unknown"
    /\ pc[p] \in {"delete", "deleting", "insert"} => outcome[p] = "indexed"
    /\ pc[p] = "insert" => ins[p] <= BodyChunks[work[p].of]
    /\ pc[p] \in {"record", "commit"} =>
          IF outcome[p] = "indexed"
          THEN work[p].model \in Models /\ ins[p] = BodyChunks[work[p].of] + 1
          ELSE del[p] = {} /\ ins[p] = 0
    /\ pc[p] = "commit" /\ outcome[p] # "unknown" => count[p] = NextCount(Art(p))

\* A DELETE finds, and deletes, all chunks there are or none; only a
\* transaction that has deleted them all inserts.
Found(p) ==
    InTx(p) =>
        /\ doomed[p] \in {{}, chunks[Art(p)]}
        /\ del[p] \in {{}, chunks[Art(p)]}
        /\ ins[p] # 0 => del[p] = chunks[Art(p)]

\* What the locks of two transactions on one artifact keep apart.
Apart(p, q) ==
    InTx(p) /\ q \in Others(p) =>
        /\ del[p] = {} \/ del[q] = {}
        /\ ins[p] = 0 \/ ins[q] = 0
        /\ pc[p] # "commit" \/ pc[q] # "commit"

\* An artifact's chunks are those of one content from one embedder.
ChunksWhole ==
    \A a \in Artifacts :
        chunks[a] = {} \/ \E c \in Contents, m \in Models : chunks[a] = Chunks(c, m)

IInv ==
    /\ TypeOK
    /\ ChunksWhole
    /\ IndexedIsExact
    /\ \A p \in Procs : Local(p) /\ Found(p)
    /\ \A p, q \in Procs : Apart(p, q)

-----------------------------------------------------------------------------
LEMMA ChunksType ==
    ASSUME NEW c \in Contents, NEW m \in Models
    PROVE  /\ Chunks(c, m) \in SUBSET Rows
           /\ Row(c, m, 0) \in Chunks(c, m)
  <1>1. BodyChunks[c] \in Nat
    BY ChunkCounts
  <1> QED
    BY <1>1 DEF Chunks, Row, Rows

LEMMA NoInputType == NoInput \in Inputs
  BY SomeArtifact DEF NoInput, Inputs

LEMMA NextCountType ==
    ASSUME TypeOK, NEW a \in Artifacts
    PROVE  NextCount(a) \in 0 .. MaxAttempts
  <1>1. state[a] \in States \cup {NoState}
    BY DEF TypeOK
  <1>2. MaxAttempts \in Nat /\ MaxAttempts > 0
    BY Bounds
  <1>3. CASE state[a] = NoState
    BY <1>2, <1>3 DEF NextCount
  <1>4. CASE state[a] \in States
    BY <1>2, <1>4 DEF NextCount, States, NoState
  <1> QED
    BY <1>1, <1>3, <1>4

LEMMA InitInv == Init => IInv
  <1> SUFFICES ASSUME Init PROVE IInv
    OBVIOUS
  <1>1. ReembedModel \in Models
    BY DEF Models
  <1>2. \A a \in Artifacts :
           chunks[a] = {} \/ \E c \in Contents : chunks[a] = Chunks(c, ReembedModel)
    BY DEF Init
  <1>3. \A a \in Artifacts : chunks[a] \in SUBSET Rows
    BY <1>1, <1>2, ChunksType
  <1>4. \A c \in Contents : Backfilled(c) \in States
    BY Bounds DEF Backfilled, States
  <1>5. state \in [Artifacts -> States \cup {NoState}]
    BY <1>4 DEF Init
  <1>6. \A a \in Artifacts : state[a] = NoState \/ state[a].status = "unknown"
    <2>1. PICK B \in SUBSET Artifacts :
            state = [a \in Artifacts |-> IF a \in B THEN Backfilled(head[a]) ELSE NoState]
      BY DEF Init
    <2> QED
      BY <2>1 DEF Backfilled
  <1>7. TypeOK
    <2>1. chunks \in [Artifacts -> SUBSET Rows]
      BY <1>3 DEF Init
    <2>2. 0 \in 0 .. MaxAttempts /\ 0 \in 0 .. MaxFaults
      BY Bounds
    <2> QED
      BY <2>1, <2>2, <1>5, NoInputType DEF Init, TypeOK, PCs
  <1>8. ChunksWhole
    BY <1>1, <1>2 DEF ChunksWhole
  <1>9. IndexedIsExact
    BY <1>6 DEF IndexedIsExact
  <1> QED
    BY <1>7, <1>8, <1>9 DEF IInv, Init, Local, Found, Apart, Others, InTx

-----------------------------------------------------------------------------
\* A step of p's transaction that touches no table.
LEMMA OneMoves ==
    ASSUME IInv, NEW p \in Procs, TypeOK',
           UNCHANGED <<head, chunks, state>>,
           \A q \in Procs \ {p} :
               /\ pc'[q] = pc[q] /\ work'[q] = work[q] /\ doomed'[q] = doomed[q]
               /\ del'[q] = del[q] /\ ins'[q] = ins[q] /\ outcome'[q] = outcome[q]
               /\ count'[q] = count[q],
           Local(p)', Found(p)', \A q \in Procs \ {p} : Apart(p, q)'
    PROVE  IInv'
  <1>1. ChunksWhole' /\ IndexedIsExact'
    BY DEF IInv, ChunksWhole, IndexedIsExact
  <1>2. ASSUME NEW q \in Procs PROVE Local(q)' /\ Found(q)'
    <2>1. CASE q = p
      BY <2>1
    <2>2. CASE q # p
      <3>1. Local(q) /\ Found(q)
        BY DEF IInv
      <3>2. Local(q)'
        BY <2>2, <3>1 DEF Local, Art, NextCount
      <3>3. Found(q)'
        BY <2>2, <3>1 DEF Found, InTx, Art
      <3> QED
        BY <3>2, <3>3
    <2> QED
      BY <2>1, <2>2
  <1>3. ASSUME NEW q \in Procs, NEW r \in Procs PROVE Apart(q, r)'
    <2>1. CASE q = p /\ r # p
      BY <2>1
    <2>2. CASE r = p /\ q # p
      <3>1. Apart(p, q)'
        BY <2>2
      <3> QED
        BY <2>2, <3>1 DEF Apart, Others, InTx, Art
    <2>3. CASE q = r
      BY <2>3 DEF Apart, Others
    <2>4. CASE q # p /\ r # p
      <3>1. Apart(q, r)
        BY DEF IInv
      <3> QED
        BY <2>4, <3>1 DEF Apart, Others, InTx, Art
    <2> QED
      BY <2>1, <2>2, <2>3, <2>4
  <1> QED
    BY <1>1, <1>2, <1>3 DEF IInv

LEMMA WriteInv == ASSUME IInv, NEW w \in Writers, Write(w) PROVE IInv'
  <1> w \in Procs
    BY DEF Procs
  <1>1. PICK a \in Artifacts, c \in Contents, m \in ServerModels :
          /\ rev[a] < MaxRev
          /\ Begin(w, [art |-> a, rev |-> rev[a] + 1, of |-> c, model |-> m])
          /\ Goto(w, IF m = NoModel THEN "record" ELSE "prepare")
    BY DEF Write
  <1>2. m # NoModel => m \in Models
    BY DEF Models
  <1>3. [art |-> a, rev |-> rev[a] + 1, of |-> c, model |-> m] \in Inputs
    BY <1>2 DEF IInv, TypeOK, Inputs
  <1>4. TypeOK'
    BY <1>1, <1>3 DEF IInv, TypeOK, Write, Goto, Begin, PCs, tables
  <1>5. /\ doomed[w] = {} /\ del[w] = {} /\ ins[w] = 0 /\ outcome[w] = "unknown"
        /\ pc[w] = "idle"
    BY DEF IInv, Local, Write, InTx
  <1>6. /\ pc'[w] = IF m = NoModel THEN "record" ELSE "prepare"
        /\ work'[w] = [art |-> a, rev |-> rev[a] + 1, of |-> c, model |-> m]
        /\ UNCHANGED <<doomed, del, ins, outcome, count, head, chunks, state>>
        /\ \A q \in Procs \ {w} : pc'[q] = pc[q] /\ work'[q] = work[q]
    BY <1>1 DEF IInv, TypeOK, Write, Goto, Begin, tables
  <1>7. Local(w)'
    BY <1>2, <1>5, <1>6 DEF Local
  <1>8. Found(w)'
    BY <1>5, <1>6 DEF Found
  <1>9. \A q \in Procs \ {w} : Apart(w, q)'
    BY <1>5, <1>6 DEF Apart
  <1> QED
    BY <1>4, <1>6, <1>7, <1>8, <1>9, OneMoves

LEMMA MetaWriteInv == ASSUME IInv, MetaWrite PROVE IInv'
  <1>1. UNCHANGED <<head, chunks, state, pc, work, doomed, del, ins, outcome, count>>
    BY DEF MetaWrite, tx
  <1>2. TypeOK'
    BY DEF IInv, TypeOK, MetaWrite, tx
  <1> QED
    BY <1>1, <1>2 DEF IInv, ChunksWhole, IndexedIsExact, Local, Found, Apart, Others,
                      InTx, Art, NextCount

LEMMA LoadPlansInv ==
    ASSUME IInv, NEW r \in Reembeds, NEW mode \in Modes, LoadPlans(r, mode) PROVE IInv'
  <1>1. UNCHANGED <<head, chunks, state, pc, work, doomed, del, ins, outcome, count>>
    BY DEF LoadPlans, tx, tables
  <1>2. TypeOK'
    <2>1. \A a \in Artifacts :
            [art |-> a, rev |-> rev[a], of |-> head[a], model |-> ReembedModel]
              \in {i \in Inputs : i.model = ReembedModel}
      BY DEF IInv, TypeOK, Inputs, Models
    <2>2. plan' \in [Reembeds -> SUBSET {i \in Inputs : i.model = ReembedModel}]
      BY <2>1 DEF IInv, TypeOK, LoadPlans
    <2> QED
      BY <2>2 DEF IInv, TypeOK, LoadPlans, tx, tables
  <1> QED
    BY <1>1, <1>2 DEF IInv, ChunksWhole, IndexedIsExact, Local, Found, Apart, Others,
                      InTx, Art, NextCount

LEMMA ReembedOneInv == ASSUME IInv, NEW r \in Reembeds, ReembedOne(r) PROVE IInv'
  <1> r \in Procs
    BY DEF Procs
  <1>1. PICK input \in plan[r] :
          Begin(r, input) /\ plan' = [plan EXCEPT ![r] = @ \ {input}]
    BY DEF ReembedOne
  <1>2. input \in Inputs /\ input.model = ReembedModel /\ input.model \in Models
    BY DEF IInv, TypeOK, Models
  <1>3. TypeOK'
    BY <1>1, <1>2 DEF IInv, TypeOK, ReembedOne, Goto, Begin, PCs, tables
  <1>4. /\ doomed[r] = {} /\ del[r] = {} /\ ins[r] = 0 /\ outcome[r] = "unknown"
        /\ pc[r] = "idle"
    BY DEF IInv, Local, ReembedOne, InTx
  <1>5. /\ pc'[r] = "prepare" /\ work'[r] = input
        /\ UNCHANGED <<doomed, del, ins, outcome, count, head, chunks, state>>
        /\ \A q \in Procs \ {r} : pc'[q] = pc[q] /\ work'[q] = work[q]
    BY <1>1 DEF IInv, TypeOK, ReembedOne, Goto, Begin, tables
  <1>6. Local(r)'
    BY <1>2, <1>4, <1>5 DEF Local
  <1>7. Found(r)' /\ \A q \in Procs \ {r} : Apart(r, q)'
    BY <1>4, <1>5 DEF Found, Apart
  <1> QED
    BY <1>3, <1>5, <1>6, <1>7, OneMoves

LEMMA EmbeddedInv == ASSUME IInv, NEW p \in Procs, Embedded(p) PROVE IInv'
  <1>1. TypeOK'
    BY DEF IInv, TypeOK, Embedded, Goto, PCs, tables
  <1>2. /\ pc[p] = "prepare" /\ pc'[p] = "delete" /\ outcome'[p] = "indexed"
        /\ UNCHANGED <<work, doomed, del, ins, count, head, chunks, state>>
        /\ \A q \in Procs \ {p} : pc'[q] = pc[q] /\ outcome'[q] = outcome[q]
    BY DEF IInv, TypeOK, Embedded, Goto, tables
  <1>3. Local(p) /\ Found(p)
    BY DEF IInv
  <1>4. Local(p)' /\ Found(p)' /\ \A q \in Procs \ {p} : Apart(p, q)'
    BY <1>2, <1>3 DEF Local, Found, Apart
  <1> QED
    BY <1>1, <1>2, <1>4, OneMoves

LEMMA ProviderFailsInv == ASSUME IInv, NEW p \in Procs, ProviderFails(p) PROVE IInv'
  <1>1. TypeOK'
    BY Bounds DEF IInv, TypeOK, ProviderFails, Goto, PCs, tables
  <1>2. /\ pc[p] = "prepare" /\ pc'[p] = "record" /\ outcome'[p] = "failed"
        /\ UNCHANGED <<work, doomed, del, ins, count, head, chunks, state>>
        /\ \A q \in Procs \ {p} : pc'[q] = pc[q] /\ outcome'[q] = outcome[q]
    BY DEF IInv, TypeOK, ProviderFails, Goto, tables
  <1>3. Local(p) /\ Found(p)
    BY DEF IInv
  <1>4. Local(p)' /\ Found(p)' /\ \A q \in Procs \ {p} : Apart(p, q)'
    BY <1>2, <1>3 DEF Local, Found, Apart
  <1> QED
    BY <1>1, <1>2, <1>4, OneMoves

LEMMA DeleteInv == ASSUME IInv, NEW p \in Procs, Delete(p) PROVE IInv'
  <1> Art(p) \in Artifacts
    BY DEF IInv, TypeOK, Art, Inputs
  <1>1. TypeOK'
    BY DEF IInv, TypeOK, Delete, Goto, PCs, tables
  <1>2. /\ pc[p] = "delete" /\ pc'[p] = "deleting" /\ doomed'[p] = chunks[Art(p)]
        /\ UNCHANGED <<work, outcome, del, ins, count, head, chunks, state>>
        /\ \A q \in Procs \ {p} : pc'[q] = pc[q] /\ doomed'[q] = doomed[q]
    BY DEF IInv, TypeOK, Delete, Goto, tables
  <1>3. Local(p) /\ Found(p)
    BY DEF IInv
  <1>4. Local(p)' /\ Found(p)' /\ \A q \in Procs \ {p} : Apart(p, q)'
    BY <1>2, <1>3 DEF Local, Found, Apart, Art
  <1> QED
    BY <1>1, <1>2, <1>4, OneMoves

LEMMA DeletedInv == ASSUME IInv, NEW p \in Procs, Deleted(p) PROVE IInv'
  <1>1. TypeOK'
    BY DEF IInv, TypeOK, Deleted, Goto, PCs, tables
  <1>2. /\ pc[p] = "deleting" /\ pc'[p] = "insert"
        /\ doomed'[p] = {} /\ del'[p] = doomed[p]
        /\ UNCHANGED <<work, outcome, ins, count, head, chunks, state>>
        /\ \A q \in Procs \ {p} :
              pc'[q] = pc[q] /\ doomed'[q] = doomed[q] /\ del'[q] = del[q]
    BY DEF IInv, TypeOK, Deleted, Goto, tables
  <1>3. Local(p) /\ Found(p)
    BY DEF IInv
  <1>4. Local(p)'
    <2>1. BodyChunks[work[p].of] \in Nat
      BY ChunkCounts DEF IInv, TypeOK, Inputs
    <2> QED
      BY <1>2, <1>3, <2>1 DEF Local
  <1>5. Found(p)'
    BY <1>2, <1>3 DEF Found, Local, InTx, Art
  <1>6. ASSUME NEW q \in Procs \ {p} PROVE Apart(p, q)'
    <2>1. Found(q)
      BY DEF IInv
    <2>2. q \in Others(p) => del[q] \cap doomed[p] = {}
      BY DEF Deleted
    <2> QED
      BY <1>2, <1>3, <2>1, <2>2 DEF Apart, Found, Local, Others, InTx, Art
  <1> QED
    BY <1>1, <1>2, <1>4, <1>5, <1>6, OneMoves

LEMMA InsertChunkInv == ASSUME IInv, NEW p \in Procs, InsertChunk(p) PROVE IInv'
  <1> DEFINE a == Art(p)
             k == ins[p]
             n == BodyChunks[work[p].of]
  <1>0. a \in Artifacts /\ k \in Nat /\ n \in Nat
    BY ChunkCounts DEF IInv, TypeOK, Inputs, Art
  <1>1. TypeOK'
    BY DEF IInv, TypeOK, InsertChunk, Goto, PCs, tables
  <1>2. /\ pc[p] = "insert" /\ pc'[p] = (IF k = n THEN "record" ELSE "insert")
        /\ ins'[p] = k + 1
        /\ UNCHANGED <<work, outcome, doomed, del, count, head, chunks, state>>
        /\ \A q \in Procs \ {p} : pc'[q] = pc[q] /\ ins'[q] = ins[q]
    BY DEF IInv, TypeOK, InsertChunk, Goto, tables
  <1>3. Local(p) /\ Found(p)
    BY DEF IInv
  <1>4. Local(p)'
    BY <1>0, <1>2, <1>3 DEF Local
  <1>5. k = 0 => del[p] = chunks[a]
    <2> SUFFICES ASSUME k = 0, del[p] # chunks[a] PROVE FALSE
      OBVIOUS
    <2>1. del[p] = {} /\ chunks[a] # {}
      BY <1>2, <1>3 DEF Found, InTx
    <2>2. PICK c \in Contents, m \in Models : chunks[a] = Chunks(c, m)
      BY <1>0, <2>1 DEF IInv, ChunksWhole
    <2>3. Row(c, m, 0) \in chunks[a] \ del[p] /\ Row(c, m, 0).key = 0
      BY <2>1, <2>2, ChunksType DEF Row
    <2> QED
      BY <2>3 DEF InsertChunk, KeyLeft
  <1>6. Found(p)'
    BY <1>0, <1>2, <1>3, <1>5 DEF Found, InTx, Art
  <1>7. ASSUME NEW q \in Procs \ {p} PROVE Apart(p, q)'
    <2>1. Apart(p, q) /\ ins[q] \in Nat
      BY DEF IInv, TypeOK
    <2>2. q \in Others(p) /\ k = 0 => ins[q] = 0
      BY <2>1 DEF InsertChunk, KeySettled
    <2> QED
      BY <1>0, <1>2, <2>1, <2>2 DEF Apart, Others, InTx, Art
  <1> QED
    BY <1>1, <1>2, <1>4, <1>6, <1>7, OneMoves

LEMMA RecordInv == ASSUME IInv, NEW p \in Procs, Record(p) PROVE IInv'
  <1>0. Art(p) \in Artifacts
    BY DEF IInv, TypeOK, Inputs, Art
  <1> DEFINE n == IF outcome[p] # "unknown" THEN NextCount(Art(p))
                  ELSE IF state[Art(p)] = NoState THEN 0
                  ELSE state[Art(p)].attempts
  <1>1. n \in 0 .. MaxAttempts
    <2>1. NextCount(Art(p)) \in 0 .. MaxAttempts
      BY <1>0, NextCountType DEF IInv
    <2>2. state[Art(p)] \in States \cup {NoState}
      BY <1>0 DEF IInv, TypeOK
    <2>3. 0 \in 0 .. MaxAttempts
      BY Bounds
    <2> QED
      BY <2>1, <2>2, <2>3 DEF States
  <1>2. TypeOK'
    BY <1>1 DEF IInv, TypeOK, Record, Goto, PCs, tables
  <1>3. /\ pc[p] = "record" /\ pc'[p] = "commit" /\ count'[p] = n
        /\ UNCHANGED <<work, outcome, doomed, del, ins, head, chunks, state>>
        /\ \A q \in Procs \ {p} : pc'[q] = pc[q] /\ count'[q] = count[q]
    BY DEF IInv, TypeOK, Record, Goto, tables
  <1>4. Local(p) /\ Found(p)
    BY DEF IInv
  <1>5. Local(p)'
    BY <1>3, <1>4 DEF Local, Art, NextCount
  <1>6. Found(p)'
    BY <1>3, <1>4 DEF Found, InTx, Art
  <1>7. ASSUME NEW q \in Procs \ {p} PROVE Apart(p, q)'
    <2>1. Apart(p, q)
      BY DEF IInv
    <2>2. q \in Others(p) => pc[q] # "commit"
      BY DEF Record, StateRowHolders
    <2> QED
      BY <1>3, <2>1, <2>2 DEF Apart, Others, InTx, Art
  <1> QED
    BY <1>2, <1>3, <1>5, <1>6, <1>7, OneMoves

\* A transaction that is rolled back leaves everything as if it had not been.
LEMMA RollbackInv ==
    ASSUME IInv, NEW p \in Procs, EndTx(p, {}), UNCHANGED tables, faults' \in 0 .. MaxFaults,
           plan' \in [Reembeds -> SUBSET {i \in Inputs : i.model = ReembedModel}]
    PROVE  IInv'
  <1>1. TypeOK'
    BY Bounds, NoInputType DEF IInv, TypeOK, EndTx, Goto, PCs, tables
  <1>2. /\ pc'[p] = "idle" /\ doomed'[p] = {} /\ del'[p] = {} /\ ins'[p] = 0
        /\ outcome'[p] = "unknown"
        /\ UNCHANGED <<head, chunks, state>>
        /\ \A q \in Procs \ {p} :
               /\ pc'[q] = pc[q] /\ work'[q] = work[q] /\ doomed'[q] = doomed[q]
               /\ del'[q] = del[q] /\ ins'[q] = ins[q] /\ outcome'[q] = outcome[q]
               /\ count'[q] = count[q]
    BY DEF IInv, TypeOK, EndTx, Goto, tables
  <1>3. Local(p)' /\ Found(p)' /\ \A q \in Procs \ {p} : Apart(p, q)'
    BY <1>2 DEF Local, Found, Apart
  <1> QED
    BY <1>1, <1>2, <1>3, OneMoves

LEMMA ChunkKeyTakenInv == ASSUME IInv, NEW p \in Procs, ChunkKeyTaken(p) PROVE IInv'
  BY RollbackInv DEF IInv, TypeOK, ChunkKeyTaken

LEMMA FaultInv == ASSUME IInv, NEW p \in Procs, Fault(p) PROVE IInv'
  <1>1. faults' \in 0 .. MaxFaults
    BY Bounds DEF IInv, TypeOK, Fault
  <1>2. plan' \in [Reembeds -> SUBSET {i \in Inputs : i.model = ReembedModel}]
    BY DEF IInv, TypeOK, Fault
  <1> QED
    BY <1>1, <1>2, RollbackInv DEF Fault

-----------------------------------------------------------------------------
\* What p's commit does to the chunks: all of them are replaced, or none.
LEMMA CommitChunks ==
    ASSUME IInv, NEW p \in Procs, Commit(p)
    PROVE  /\ Art(p) \in Artifacts
           /\ chunks' = [chunks EXCEPT ![Art(p)] =
                           IF outcome[p] = "indexed"
                           THEN Chunks(work[p].of, work[p].model) ELSE @]
           /\ state' = [state EXCEPT ![Art(p)] = Recorded(p)]
           /\ Recorded(p) \in States
           /\ outcome[p] = "indexed" =>
                 /\ work[p].model \in Models /\ work[p].of \in Contents
                 /\ del[p] = chunks[Art(p)] /\ ins[p] # 0
           /\ outcome[p] # "indexed" => del[p] = {}
  <1> DEFINE c == work[p].of
             m == work[p].model
  <1>1. Art(p) \in Artifacts /\ c \in Contents /\ BodyChunks[c] \in Nat
    BY ChunkCounts DEF IInv, TypeOK, Inputs, Art
  <1>2. Local(p) /\ Found(p) /\ pc[p] = "commit" /\ InTx(p)
    BY DEF IInv, Commit, InTx
  <1>3. outcome[p] = "indexed" =>
          m \in Models /\ ins[p] = BodyChunks[c] + 1 /\ del[p] = chunks[Art(p)]
    BY <1>1, <1>2 DEF Local, Found
  <1>4. outcome[p] # "indexed" => del[p] = {} /\ ins[p] = 0
    BY <1>2 DEF Local
  <1>5. outcome[p] = "indexed" => (chunks[Art(p)] \ del[p]) \cup Inserted(p) = Chunks(c, m)
    <2> SUFFICES ASSUME outcome[p] = "indexed"
                 PROVE  (chunks[Art(p)] \ del[p]) \cup Inserted(p) = Chunks(c, m)
      OBVIOUS
    <2>1. 0 .. ins[p] - 1 = 0 .. BodyChunks[c]
      BY <1>1, <1>3
    <2>2. Inserted(p) = Chunks(c, m)
      BY <2>1 DEF Inserted, Chunks
    <2> QED
      BY <1>3, <2>2
  <1>6. outcome[p] # "indexed" => (chunks[Art(p)] \ del[p]) \cup Inserted(p) = chunks[Art(p)]
    BY <1>4 DEF Inserted
  <1>7. chunks' = [chunks EXCEPT ![Art(p)] =
                     IF outcome[p] = "indexed" THEN Chunks(c, m) ELSE @]
    BY <1>5, <1>6 DEF Commit
  <1>8. Recorded(p) \in States
    BY DEF IInv, TypeOK, Recorded, States, Inputs
  <1>9. state' = [state EXCEPT ![Art(p)] = Recorded(p)]
    BY DEF Commit
  <1>10. outcome[p] = "indexed" =>
           m \in Models /\ c \in Contents /\ del[p] = chunks[Art(p)] /\ ins[p] # 0
    BY <1>1, <1>3
  <1> QED
    BY <1>1, <1>4, <1>7, <1>8, <1>9, <1>10

LEMMA CommitType == ASSUME IInv, NEW p \in Procs, Commit(p) PROVE TypeOK'
  <1>1. /\ work[p].of \in Contents /\ work[p].rev \in Nat /\ Art(p) \in Artifacts
    BY DEF IInv, TypeOK, Inputs, Art
  <1>2. head' \in [Artifacts -> Contents] /\ rev' \in [Artifacts -> Nat]
    BY <1>1 DEF IInv, TypeOK, Commit
  <1>3. chunks' \in [Artifacts -> SUBSET Rows]
    BY CommitChunks, ChunksType DEF IInv, TypeOK
  <1>4. state' \in [Artifacts -> States \cup {NoState}]
    BY CommitChunks DEF IInv, TypeOK
  <1>5. /\ pc' \in [Procs -> PCs] /\ work' \in [Procs -> Inputs]
        /\ doomed' \in [Procs -> SUBSET Rows] /\ del' \in [Procs -> SUBSET Rows]
        /\ ins' \in [Procs -> Nat] /\ outcome' \in [Procs -> {"unknown", "indexed", "failed"}]
        /\ count' \in [Procs -> 0 .. MaxAttempts]
    BY Bounds, NoInputType DEF IInv, TypeOK, Commit, EndTx, Goto, PCs
  <1> QED
    BY <1>2, <1>3, <1>4, <1>5 DEF IInv, TypeOK, Commit

LEMMA CommitInv == ASSUME IInv, NEW p \in Procs, Commit(p) PROVE IInv'
  <1> DEFINE a == Art(p)
  <1>1. TypeOK'
    BY CommitType
  <1>2. chunks \in [Artifacts -> SUBSET Rows] /\ state \in [Artifacts -> States \cup {NoState}]
    BY DEF IInv, TypeOK
  <1>3. /\ outcome[p] # "indexed" => chunks'[a] = chunks[a]
        /\ outcome[p] = "indexed" => chunks'[a] = Chunks(work[p].of, work[p].model)
        /\ \A b \in Artifacts \ {a} : chunks'[b] = chunks[b] /\ state'[b] = state[b]
        /\ state'[a] = Recorded(p)
    BY <1>2, CommitChunks
  <1>4. ChunksWhole'
    BY <1>3, CommitChunks DEF IInv, ChunksWhole
  <1>5. IndexedIsExact'
    BY <1>3, CommitChunks DEF IInv, IndexedIsExact, Recorded
  <1>6. /\ pc'[p] = "idle" /\ doomed'[p] = {} /\ del'[p] = {} /\ ins'[p] = 0
        /\ outcome'[p] = "unknown"
        /\ \A q \in Procs \ {p} :
               /\ pc'[q] = pc[q] /\ work'[q] = work[q]
               /\ doomed'[q] = IF q \in Others(p) THEN doomed[q] \ del[p] ELSE doomed[q]
               /\ del'[q] = del[q] /\ ins'[q] = ins[q] /\ outcome'[q] = outcome[q]
               /\ count'[q] = count[q]
    BY DEF IInv, TypeOK, Commit, EndTx, Goto
  <1>7. ASSUME NEW q \in Procs, q # p PROVE Local(q)' /\ Found(q)'
    <2>1. Local(q) /\ Found(q) /\ Apart(p, q) /\ InTx(p) /\ pc[p] = "commit"
      BY DEF IInv, Commit, InTx
    <2>2. InTx(q) => Art(q) \in Artifacts
      BY DEF IInv, TypeOK, Inputs, Art
    <2>3. CASE q \in Others(p)
      <3>1. pc[q] # "commit" /\ InTx(q) /\ Art(q) = a
        BY <2>1, <2>3 DEF Apart, Others
      <3>2. Local(q)'
        BY <1>6, <1>7, <2>1, <2>3, <3>1 DEF Local, InTx, Art
      <3>3. CASE outcome[p] # "indexed"
        <4>1. doomed'[q] = doomed[q] /\ chunks'[a] = chunks[a]
          <5>1. chunks'[a] = chunks[a]
            BY <1>3, <3>3
          <5>2. del[p] = {}
            BY <3>3, CommitChunks
          <5> QED
            BY <1>6, <1>7, <5>1, <5>2
        <4> QED
          BY <1>6, <1>7, <2>1, <3>1, <4>1, <3>2 DEF Found, InTx, Art
      <3>4. CASE outcome[p] = "indexed"
        <4>1. del[p] = chunks[a] /\ ins[p] # 0
          BY <3>4, CommitChunks
        <4>2. doomed'[q] = {} /\ del[q] = {} /\ ins[q] = 0
          BY <1>6, <1>7, <2>1, <2>3, <3>1, <4>1 DEF Found, Apart
        <4> QED
          BY <1>6, <1>7, <3>1, <3>2, <4>2 DEF Found, InTx, Art
      <3> QED
        BY <3>3, <3>4
    <2>4. CASE q \notin Others(p)
      <3>1. InTx(q) => Art(q) \in Artifacts \ {a}
        BY <1>7, <2>2, <2>4 DEF Others
      <3>0. InTx(q) => state'[Art(q)] = state[Art(q)] /\ work'[q] = work[q]
        BY <1>3, <1>6, <1>7, <3>1
      <3>. pc[q] = "commit" => InTx(q)
        BY DEF InTx
      <3>4. /\ pc'[q] = pc[q] /\ work'[q] = work[q] /\ del'[q] = del[q]
            /\ ins'[q] = ins[q] /\ outcome'[q] = outcome[q] /\ count'[q] = count[q]
            /\ doomed'[q] = doomed[q]
        BY <1>6, <1>7, <2>4
      <3>5. pc[q] = "commit" => NextCount(Art(q))' = NextCount(Art(q))
        BY <3>0, <3>4 DEF NextCount, Art
      <3>2. Local(q)'
        BY <2>1, <3>4, <3>5 DEF Local
      <3>3. Found(q)'
        BY <1>3, <1>6, <1>7, <2>1, <2>4, <3>1 DEF Found, InTx, Art
      <3> QED
        BY <3>2, <3>3
    <2> QED
      BY <2>3, <2>4
  <1>8. Local(p)' /\ Found(p)'
    BY <1>6 DEF Local, Found, InTx
  <1>9. ASSUME NEW q \in Procs, NEW r \in Procs PROVE Apart(q, r)'
    <2>1. CASE q = p \/ r = p
      BY <1>6, <2>1 DEF Apart, Others, InTx
    <2>2. CASE q # p /\ r # p
      <3>1. Apart(q, r)
        BY DEF IInv
      <3> QED
        BY <1>6, <2>2, <3>1 DEF Apart, Others, InTx, Art
    <2> QED
      BY <2>1, <2>2
  <1>10. \A q \in Procs : Local(q)' /\ Found(q)'
    BY <1>7, <1>8
  <1> QED
    BY <1>1, <1>4, <1>5, <1>9, <1>10 DEF IInv

-----------------------------------------------------------------------------
LEMMA StepInv == IInv /\ [Next]_vars => IInv'
  <1> SUFFICES ASSUME IInv, [Next]_vars PROVE IInv'
    OBVIOUS
  <1>1. CASE UNCHANGED vars
    BY <1>1 DEF vars, IInv, TypeOK, ChunksWhole, IndexedIsExact, Local, Found, Apart,
                Others, InTx, Art, NextCount
  <1>2. CASE MetaWrite
    BY <1>2, MetaWriteInv
  <1>3. ASSUME NEW w \in Writers, Write(w) PROVE IInv'
    BY <1>3, WriteInv
  <1>4. ASSUME NEW r \in Reembeds, ReembedOne(r) PROVE IInv'
    BY <1>4, ReembedOneInv
  <1>5. ASSUME NEW r \in Reembeds, NEW mode \in Modes, LoadPlans(r, mode) PROVE IInv'
    BY <1>5, LoadPlansInv
  <1>6. ASSUME NEW p \in Procs, Step(p) PROVE IInv'
    BY <1>6, EmbeddedInv, ProviderFailsInv, DeleteInv, DeletedInv, InsertChunkInv,
       ChunkKeyTakenInv, RecordInv, CommitInv DEF Step
  <1>7. ASSUME NEW p \in Procs, Fault(p) PROVE IInv'
    BY <1>7, FaultInv
  <1> QED
    BY <1>1, <1>2, <1>3, <1>4, <1>5, <1>6, <1>7 DEF Next

\* The invariant the theorems below rest on.
THEOREM IndexInvariant == Spec => []IInv
  BY InitInv, StepInv, PTL DEF Spec

\* Every table of the index keeps its type, however refreshes overlap.
THEOREM IndexTypeCorrect == Spec => []TypeOK
  <1>1. IInv => TypeOK
    BY DEF IInv
  <1> QED
    BY <1>1, IndexInvariant, PTL

\* An index that says indexed has exactly the chunks of the content and the
\* embedder its state row names (refresh.go:185), for any number of writers,
\* pindoc-reembed processes, artifacts, contents and chunks.
THEOREM IndexIsExact == Spec => []IndexedIsExact
  <1>1. IInv => IndexedIsExact
    BY DEF IInv
  <1> QED
    BY <1>1, IndexInvariant, PTL

-----------------------------------------------------------------------------
LEMMA OnlyCommitPublishes ==
    ASSUME [Next]_vars, \A p \in Procs : ~Commit(p)
    PROVE  UNCHANGED <<chunks, state>>
  BY DEF Next, Step, vars, tables, Write, MetaWrite, ReembedOne, LoadPlans, Embedded,
         ProviderFails, Delete, Deleted, InsertChunk, ChunkKeyTaken, Record, Fault

LEMMA StepReplacesWhole ==
    ASSUME IInv, [Next]_vars, NEW a \in Artifacts, chunks'[a] # chunks[a]
    PROVE  /\ state'[a].status = "indexed"
           /\ chunks'[a] = Chunks(state'[a].of, state'[a].model)
  <1>1. PICK p \in Procs : Commit(p)
    BY OnlyCommitPublishes
  <1>2. chunks \in [Artifacts -> SUBSET Rows] /\ state \in [Artifacts -> States \cup {NoState}]
    BY DEF IInv, TypeOK
  <1>3. a = Art(p) /\ outcome[p] = "indexed"
    BY <1>1, <1>2, CommitChunks
  <1>4. chunks'[a] = Chunks(work[p].of, work[p].model) /\ state'[a] = Recorded(p)
    BY <1>1, <1>2, <1>3, CommitChunks
  <1> QED
    BY <1>3, <1>4 DEF Recorded

LEMMA StepCountsAttempt ==
    ASSUME IInv, [Next]_vars, NEW a \in Artifacts, state'[a] # state[a],
           state'[a].status # "unknown"
    PROVE  state'[a].attempts = NextCount(a)
  <1>1. PICK p \in Procs : Commit(p)
    BY OnlyCommitPublishes
  <1>2. state \in [Artifacts -> States \cup {NoState}]
    BY DEF IInv, TypeOK
  <1>3. a = Art(p) /\ state'[a] = Recorded(p)
    BY <1>1, <1>2, CommitChunks
  <1>4. count[p] = NextCount(Art(p))
    BY <1>1, <1>3 DEF IInv, Local, Commit, Recorded
  <1> QED
    BY <1>3, <1>4 DEF Recorded

\* Chunks change only in the commit that records them as indexed, and then to a
\* complete set: a failed or unknown attempt leaves the old ones (refresh.go:50).
THEOREM ChunksAreOnlyReplaced == Spec => ChunksOnlyReplaced
  <1>1. IInv /\ [Next]_vars =>
          [\A a \in Artifacts :
             chunks'[a] # chunks[a] =>
                /\ state'[a].status = "indexed"
                /\ chunks'[a] = Chunks(state'[a].of, state'[a].model)]_vars
    BY StepReplacesWhole
  <1> QED
    BY <1>1, IndexInvariant, PTL DEF Spec, ChunksOnlyReplaced

\* Overlapping attempts are all counted: the upsert's attempt_count + 1
\* (refresh.go:222) loses none.
THEOREM AttemptsAreCounted == Spec => AttemptsCounted
  <1>1. IInv /\ [Next]_vars =>
          [\A a \in Artifacts :
             state'[a] # state[a] /\ state'[a].status # "unknown" =>
                state'[a].attempts = NextCount(a)]_vars
    BY StepCountsAttempt
  <1> QED
    BY <1>1, IndexInvariant, PTL DEF Spec, AttemptsCounted

-----------------------------------------------------------------------------
(* Refreshes of one artifact wait for each other, but never in a circle.   *)

\* What q has done that p's statement waits for the end of.
WaitsFor(p, q) ==
    /\ q \in Others(p)
    /\ \/ pc[p] = "deleting" /\ del[q] \cap doomed[p] # {}
       \/ pc[p] = "insert" /\ (ins[q] > ins[p] \/ \E row \in del[q] : row.key = ins[p])
       \/ pc[p] = "record" /\ pc[q] = "commit"

\* Among any processes there is one that waits for none of them.
NoCircle == \A S \in SUBSET Procs : S # {} => \E p \in S : \A q \in S : ~WaitsFor(p, q)

\* p has deleted or inserted chunks.
Active(p) == del[p] # {} \/ ins[p] # 0

Level(p) ==
    IF pc[p] = "commit" THEN 3 ELSE IF pc[p] = "record" THEN 2
    ELSE IF pc[p] = "insert" /\ Active(p) THEN 1 ELSE 0

\* A transaction that waits takes no step but one that ends it from outside.
LEMMA WaitersStay ==
  ASSUME IInv, NEW p \in Procs, Step(p), NEW q \in Procs
  PROVE  ~WaitsFor(p, q)
  <1>1. ins[p] \in Nat /\ ins[q] \in Nat
    BY DEF IInv, TypeOK
  <1> QED
    BY <1>1 DEF WaitsFor, Step, Embedded, ProviderFails, Delete, Deleted, InsertChunk,
       ChunkKeyTaken, Record, Commit, KeySettled, StateRowHolders

\* Whoever has touched the chunks has them to itself: the others have neither
\* deleted nor inserted any.
LEMMA ActiveAlone ==
  ASSUME IInv, NEW p \in Procs, NEW q \in Others(p), InTx(p), Active(p)
  PROVE  ~Active(q)
  <1>1. q \in Procs /\ InTx(q) /\ Art(q) = Art(p)
    BY DEF Others
  <1>2. /\ del[p] = {} \/ del[q] = {}
        /\ ins[p] = 0 \/ ins[q] = 0
    BY <1>1 DEF IInv, Apart
  <1>3. /\ del[p] \in {{}, chunks[Art(p)]} /\ (ins[p] # 0 => del[p] = chunks[Art(p)])
        /\ del[q] \in {{}, chunks[Art(p)]} /\ (ins[q] # 0 => del[q] = chunks[Art(p)])
    BY <1>1 DEF IInv, Found
  <1> QED
    BY <1>2, <1>3 DEF Active

LEMMA WaitsClimb ==
  ASSUME IInv, NEW p \in Procs, NEW q \in Procs, WaitsFor(p, q)
  PROVE  Level(p) < Level(q)
  <1>1. q \in Others(p) /\ p \in Others(q) /\ InTx(p) /\ InTx(q)
    BY DEF WaitsFor, Others, InTx
  <1>2. CASE pc[p] = "record"
    BY <1>2 DEF WaitsFor, Level
  <1>3. CASE pc[p] # "record"
    <2>1. Active(q)
      <3>1. ins[p] \in Nat /\ ins[q] \in Nat
        BY DEF IInv, TypeOK
      <3> QED
        BY <1>3, <3>1 DEF WaitsFor, Active
    <2>2. ~Active(p)
      BY <1>1, <2>1, ActiveAlone
    <2>3. pc[q] \in {"insert", "record", "commit"}
      BY <1>1, <2>1 DEF Active, IInv, Local, TypeOK, PCs
    <2>4. pc[p] \in {"deleting", "insert"}
      BY <1>3 DEF WaitsFor
    <2> QED
      BY <2>1, <2>2, <2>3, <2>4 DEF Level
  <1> QED
    BY <1>2, <1>3

\* However the servers' requests and the pindoc-reembed processes overlap on an
\* artifact, a transaction that is waited for can go on.
THEOREM RefreshesNeverDeadlock == Spec => []NoCircle
  <1>1. IInv => NoCircle
    <2> SUFFICES ASSUME IInv, NEW S \in SUBSET Procs, S # {}
                 PROVE  \E p \in S : \A q \in S : ~WaitsFor(p, q)
      BY DEF NoCircle
    <2>1. \A p \in S : Level(p) \in {0, 1, 2, 3}
      BY DEF Level
    <2>2. PICK p \in S : \A q \in S : Level(q) <= Level(p)
      <3>1. CASE \E p \in S : Level(p) = 3
        BY <2>1, <3>1
      <3>2. CASE (\A p \in S : Level(p) # 3) /\ \E p \in S : Level(p) = 2
        BY <2>1, <3>2
      <3>3. CASE (\A p \in S : Level(p) \notin {2, 3}) /\ \E p \in S : Level(p) = 1
        BY <2>1, <3>3
      <3>4. CASE \A p \in S : Level(p) \notin {1, 2, 3}
        BY <2>1, <3>4
      <3> QED
        BY <3>1, <3>2, <3>3, <3>4
    <2>3. ASSUME NEW q \in S PROVE ~WaitsFor(p, q)
      <3>1. Level(q) <= Level(p) /\ Level(p) \in Nat /\ Level(q) \in Nat
        BY <2>1, <2>2
      <3> QED
        BY <3>1, WaitsClimb
    <2> QED
      BY <2>3
  <1> QED
    BY <1>1, IndexInvariant, PTL

=============================================================================
