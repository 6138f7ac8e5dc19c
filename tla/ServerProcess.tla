---------------------------- MODULE ServerProcess ----------------------------
(***************************************************************************)
(* pindoc-server from boot to exit, with other servers on one database: it *)
(* migrates the schema, starts telemetry, records the version of its tools *)
(* and serves until a signal or the end of its stdio.  The parts meet in   *)
(* the database: what a server's telemetry writes is what the next one may *)
(* take for the former version.  A binary knows its migrations and version.*)
(***************************************************************************)
EXTENDS Naturals, FiniteSets, FiniteSetsExt

CONSTANTS
    Servers, Binaries,
    Builds,          \* Builds[p]: the binaries p may be started from
    LastMigration,   \* migrations are numbered in the order of their names
    Sums,            \* checksums
    Versions,        \* toolset versions
    None, Blank,     \* no row; a row with no checksum
    Manifest,        \* Manifest[b][m]: the checksum b has for m, None when b lacks it
    Version,         \* Version[b]
    SeedLedger,      \* schema_migrations at the start
    SeedStored,      \* what mcp_runtime_state may hold
    SeedVersion,     \* toolset_version of the newest row of mcp_tool_calls at the start
    BufferSize, BatchSize,
    MaxStarts, MaxCalls, MaxFaults

Migrations == 1 .. LastMigration
Entries == 1 .. MaxCalls   \* telemetry entries in the order of their started_at

ASSUME NoneIsNone == None \notin Servers \cup Binaries \cup Sums \cup Versions \cup {Blank} /\ Blank \notin Sums
ASSUME BinaryTypes == /\ Builds \in [Servers -> SUBSET Binaries]
                      /\ Manifest \in [Binaries -> [Migrations -> Sums \cup {None}]]
                      /\ Version \in [Binaries -> Versions]
ASSUME SeedTypes == /\ SeedLedger \in [Migrations -> Sums \cup {None, Blank}]
                    /\ SeedVersion \in Versions \cup {None} /\ SeedStored \subseteq Versions \cup {None}
ASSUME Bounds == /\ LastMigration \in Nat /\ BufferSize \in Nat \ {0} /\ BatchSize \in Nat \ {0}
                 /\ MaxStarts \in Nat /\ MaxCalls \in Nat /\ MaxFaults \in Nat

VARIABLES
    ledger,     \* schema_migrations, committed
    applied,    \* how often the Up block of a migration has been committed
    lock,       \* the session that holds the advisory lock
    stored,     \* mcp_runtime_state.toolset_version, committed
    rowLock,    \* the transaction that holds its row or its key
    rows,       \* mcp_tool_calls: the version of an entry's row
    pc, bin, seen, next, previous,
    notice,
    cancelled,  \* ctx is done
    flusher, writing,
    where,      \* the channel or the batch an entry is in; history: whether ctx was done then
    starts, faults

db == <<ledger, applied, lock, stored, rowLock>>
boot == <<bin, seen, next, previous>>
telemetry == <<rows, flusher, writing, where>>
vars == <<db, boot, telemetry, pc, notice, cancelled, starts, faults>>

Booting == {"lock", "read", "migrate", "record", "version", "last_call", "insert", "save"}
PCs == {"down", "serving", "closing"} \cup Booting
Places == [at : {"none", "queued", "buffered", "left", "gone"}, by : Servers \cup {None},
           late : BOOLEAN]
At(place) == [at |-> place, by |-> None, late |-> FALSE]

NotRead == [m \in Migrations |-> None]

Init ==
    /\ ledger = SeedLedger
    /\ applied = [m \in Migrations |-> IF SeedLedger[m] = None THEN 0 ELSE 1]
    /\ lock = None /\ rowLock = None
    /\ stored \in SeedStored
    /\ rows = [e \in Entries |-> None]
    /\ pc = [p \in Servers |-> "down"]
    /\ bin = [p \in Servers |-> None]
    /\ seen = [p \in Servers |-> NotRead]
    /\ next = [p \in Servers |-> 1]
    /\ previous = [p \in Servers |-> None]
    /\ notice = [p \in Servers |-> "none"]
    /\ cancelled = [p \in Servers |-> FALSE]
    /\ flusher = [p \in Servers |-> "off"]
    /\ writing = [p \in Servers |-> FALSE]
    /\ where = [e \in Entries |-> At("none")]
    /\ starts = 0 /\ faults = 0

Goto(p, l) == pc' = [pc EXCEPT ![p] = l]
Queued(p) == {e \in Entries : where[e].at = "queued" /\ where[e].by = p}
Buffered(p) == {e \in Entries : where[e].at = "buffered" /\ where[e].by = p}

Held(p) == Queued(p) \cup Buffered(p)

\* The process is gone: its session's locks and its transaction end with it.
Down(p) ==
    /\ Goto(p, "down")
    /\ lock' = IF lock = p THEN None ELSE lock
    /\ rowLock' = IF rowLock = p THEN None ELSE rowLock
    /\ flusher' = [flusher EXCEPT ![p] = "off"]
    /\ writing' = [writing EXCEPT ![p] = FALSE]
    /\ bin' = [bin EXCEPT ![p] = None]
    /\ seen' = [seen EXCEPT ![p] = NotRead]
    /\ next' = [next EXCEPT ![p] = 1]
    /\ previous' = [previous EXCEPT ![p] = None]
    /\ notice' = [notice EXCEPT ![p] = "none"]
    /\ cancelled' = [cancelled EXCEPT ![p] = FALSE]
    /\ UNCHANGED <<ledger, applied, stored, rows, starts>>

\* os.Exit, a panic or a kill: what telemetry held is lost.
Gone(p) ==
    /\ Down(p)
    /\ where' = [e \in Entries |-> IF e \in Held(p) THEN At("gone") ELSE where[e]]

Start(p) ==
    /\ pc[p] = "down" /\ starts < MaxStarts
    /\ starts' = starts + 1
    /\ \E b \in Builds[p] : bin' = [bin EXCEPT ![p] = b]
    /\ Goto(p, "lock")
    /\ UNCHANGED <<db, telemetry, seen, next, previous, notice, cancelled, faults>>

-----------------------------------------------------------------------------
(* Migrate.  CREATE TABLE IF NOT EXISTS schema_migrations and its column   *)
(* change nothing here; a statement that fails is the end of the process.  *)
Migrating == <<stored, rowLock, telemetry, bin, previous, notice, cancelled, starts, faults>>

AcquireLock(p) ==
    /\ pc[p] = "lock" /\ lock = None
    /\ lock' = p
    /\ Goto(p, "read")
    /\ UNCHANGED <<ledger, applied, seen, next, Migrating>>

ReadLedger(p) ==
    /\ pc[p] = "read"
    /\ seen' = [seen EXCEPT ![p] = ledger]
    /\ Goto(p, "migrate")
    /\ UNCHANGED <<ledger, applied, lock, next, Migrating>>

\* The checksum p has for the next migration, and the one it has read.
Known(p) == Manifest[bin[p]][next[p]]
Read(p) == seen[p][next[p]]

AtNext(p) == pc[p] = "migrate" /\ next[p] <= LastMigration
Advance(p) == next' = [next EXCEPT ![p] = next[p] + 1]

\* Mutant: a migration that is there is not looked at again.
ChecksumIgnored(p) == FALSE

Mismatch(p) == Known(p) # None /\ Read(p) \notin {None, Blank, Known(p)}

Skip(p) ==
    /\ AtNext(p)
    /\ Known(p) = None \/ (Read(p) \notin {None, Blank} /\ ~Mismatch(p))
    /\ Advance(p)
    /\ UNCHANGED <<db, seen, pc, bin, previous, telemetry, notice, cancelled, starts, faults>>

Backfill(p) ==
    /\ AtNext(p)
    /\ Known(p) # None /\ Read(p) = Blank
    /\ ledger' = [ledger EXCEPT ![next[p]] = IF @ = Blank THEN Known(p) ELSE @]
    /\ Advance(p)
    /\ UNCHANGED <<applied, lock, seen, pc, Migrating>>

\* main: os.Exit(1).
Refuse(p) ==
    /\ AtNext(p)
    /\ Mismatch(p)
    /\ Gone(p)
    /\ UNCHANGED faults

\* tx.Exec(up): nothing of it is there before the commit.
RunUp(p) ==
    /\ AtNext(p)
    /\ Known(p) # None /\ Read(p) = None
    /\ Goto(p, "record")
    /\ UNCHANGED <<ledger, applied, lock, seen, next, Migrating>>

\* The INSERT and the COMMIT.
RecordMigration(p) ==
    /\ pc[p] = "record"
    /\ IF ledger[next[p]] # None
       THEN Gone(p) /\ UNCHANGED faults
       ELSE /\ ledger' = [ledger EXCEPT ![next[p]] = Known(p)]
            /\ applied' = [applied EXCEPT ![next[p]] = @ + 1]
            /\ Advance(p)
            /\ Goto(p, "migrate")
            /\ UNCHANGED <<lock, seen, Migrating>>

\* Mutant: the connection goes back to the pool with the lock.
StillLocked == lock

Unlocked == None

\* The deferred unlock; then telemetry.New.
FinishMigrate(p) ==
    /\ pc[p] = "migrate" /\ next[p] > LastMigration
    /\ lock' = Unlocked
    /\ flusher' = [flusher EXCEPT ![p] = "run"]
    /\ Goto(p, "version")
    /\ seen' = [seen EXCEPT ![p] = NotRead]
    /\ next' = [next EXCEPT ![p] = 1]
    /\ UNCHANGED <<ledger, applied, stored, rowLock, bin, previous, rows, writing, where,
                   notice, cancelled, starts, faults>>

-----------------------------------------------------------------------------
(* recordToolsetVersion, one transaction.                                  *)
Recording == <<ledger, applied, lock, bin, seen, next, telemetry, cancelled, starts, faults>>

\* Mutant: SELECT without FOR UPDATE.
RowNeverLocked == TRUE

RowFree == rowLock = None

SelectVersion(p) ==
    /\ pc[p] = "version"
    /\ IF stored = None
       THEN Goto(p, "last_call") /\ UNCHANGED <<rowLock, previous>>
       ELSE /\ RowFree
            /\ rowLock' = p
            /\ previous' = [previous EXCEPT ![p] = stored]
            /\ Goto(p, "save")
    /\ UNCHANGED <<stored, notice, Recording>>

InTable == {e \in Entries : rows[e] # None}

\* Mutant: the id of the newest call.
LastCallId == IF InTable = {} THEN SeedVersion ELSE Max(InTable)

\* lastTelemetryToolsetVersion.
LastCallVersion == IF InTable = {} THEN SeedVersion ELSE rows[Max(InTable)]

ReadLastCall(p) ==
    /\ pc[p] = "last_call"
    /\ previous' = [previous EXCEPT ![p] = LastCallVersion]
    /\ Goto(p, "insert")
    /\ UNCHANGED <<stored, rowLock, notice, Recording>>

\* The INSERT waits for one that has not committed.  When the key is there the
\* version is not recorded, and the server goes on without a notice.
InsertVersion(p) ==
    /\ pc[p] = "insert" /\ rowLock = None
    /\ IF stored # None THEN Goto(p, "serving") /\ UNCHANGED rowLock
       ELSE Goto(p, "save") /\ rowLock' = p
    /\ UNCHANGED <<stored, previous, notice, Recording>>

Current(p) == Version[bin[p]]
ShouldNotify(p) == previous[p] # None /\ previous[p] # Current(p)

SaveVersion(p) ==
    /\ pc[p] = "save"
    /\ stored' = Current(p)
    /\ rowLock' = None
    /\ notice' = [notice EXCEPT ![p] = IF ShouldNotify(p) THEN "pending" ELSE "none"]
    /\ previous' = [previous EXCEPT ![p] = None]
    /\ Goto(p, "serving")
    /\ UNCHANGED Recording

\* A statement of it fails.  Whether a COMMIT has is not known.
RecordingFails(p) ==
    /\ pc[p] \in {"version", "last_call", "insert", "save"}
    /\ faults < MaxFaults
    /\ faults' = faults + 1
    /\ stored' \in IF pc[p] = "save" THEN {stored, Current(p)} ELSE {stored}
    /\ rowLock' = IF rowLock = p THEN None ELSE rowLock
    /\ Goto(p, "serving")
    /\ UNCHANGED <<ledger, applied, lock, boot, telemetry, notice, cancelled, starts>>

-----------------------------------------------------------------------------
(* Serving.                                                                *)
OnlyServing == <<db, boot, rows, flusher, writing, starts, faults>>

\* A round of the notifier's watch that finds an initialized session.
Announce(p) ==
    /\ pc[p] = "serving" /\ notice[p] = "pending"
    /\ notice' = [notice EXCEPT ![p] = "none"]
    /\ UNCHANGED <<OnlyServing, pc, cancelled, where>>

New == {e \in Entries : where[e] = At("none")}

\* Record, at the end of a tool call: an entry that finds no room is dropped.
Record(p) ==
    /\ pc[p] = "serving" /\ New # {}
    /\ where' = [where EXCEPT ![Min(New)] =
                     IF Cardinality(Queued(p)) < BufferSize
                     THEN [at |-> "queued", by |-> p, late |-> cancelled[p]] ELSE At("gone")]
    /\ UNCHANGED <<OnlyServing, pc, notice, cancelled>>

\* A call that outlives the shutdown sends on the closed channel: a panic.
RecordAfterClose(p) ==
    /\ pc[p] = "closing"
    /\ Gone(p)
    /\ UNCHANGED faults

\* SIGTERM: ctx is done.
Cancel(p) ==
    /\ pc[p] = "serving" /\ ~cancelled[p]
    /\ cancelled' = [cancelled EXCEPT ![p] = TRUE]
    /\ UNCHANGED <<OnlyServing, pc, notice, where>>

\* The transport has returned, after a signal or at the end of stdio: Close.
Close(p) ==
    /\ pc[p] = "serving"
    /\ Goto(p, "closing")
    /\ UNCHANGED <<OnlyServing, notice, cancelled, where>>

Exit(p) ==
    /\ pc[p] = "closing" /\ flusher[p] = "done"
    /\ Down(p)
    /\ where' = [e \in Entries |-> IF e \in Held(p) THEN [where[e] EXCEPT !.at = "left", !.by = None]
                                    ELSE where[e]]
    /\ UNCHANGED faults

-----------------------------------------------------------------------------
(* runFlusher.                                                             *)
OnlyFlusher == <<db, boot, pc, notice, cancelled, starts>>

Take(p) ==
    /\ flusher[p] \in {"run", "drain"} /\ ~writing[p] /\ Queued(p) # {}
    /\ where' = [where EXCEPT ![Min(Queued(p))].at = "buffered"]
    /\ writing' = [writing EXCEPT ![p] = Cardinality(Buffered(p)) + 1 >= BatchSize]
    /\ UNCHANGED <<OnlyFlusher, rows, flusher, faults>>

Tick(p) ==
    /\ flusher[p] = "run" /\ ~writing[p] /\ Buffered(p) # {}
    /\ writing' = [writing EXCEPT ![p] = TRUE]
    /\ UNCHANGED <<OnlyFlusher, rows, flusher, where, faults>>

SeeCancel(p) ==
    /\ flusher[p] = "run" /\ ~writing[p] /\ cancelled[p]
    /\ flusher' = [flusher EXCEPT ![p] = "drain"]
    /\ UNCHANGED <<OnlyFlusher, rows, writing, where, faults>>

\* Mutant: ctx.Done writes the batch and returns.
DrainedAtOnce(p) == flusher[p] = "drain" \/ Queued(p) = {}

Drained(p) == Queued(p) = {}

\* The channel is closed, or empty and ctx done: the last batch.
FinishFlusher(p) ==
    /\ ~writing[p] /\ Drained(p)
    /\ flusher[p] = "drain" \/ (flusher[p] = "run" /\ pc[p] = "closing")
    /\ flusher' = [flusher EXCEPT ![p] = IF Buffered(p) = {} THEN "done" ELSE "last"]
    /\ writing' = [writing EXCEPT ![p] = Buffered(p) # {}]
    /\ UNCHANGED <<OnlyFlusher, rows, where, faults>>

\* writeBatch, in a context of its own; a batch that fails is not tried again,
\* and may have reached the table.
EndBatch(p) ==
    /\ where' = [e \in Entries |-> IF e \in Buffered(p) THEN At("gone") ELSE where[e]]
    /\ writing' = [writing EXCEPT ![p] = FALSE]
    /\ flusher' = [flusher EXCEPT ![p] = IF @ = "last" THEN "done" ELSE @]
Inserted(p) == [e \in Entries |-> IF e \in Buffered(p) THEN Current(p) ELSE rows[e]]

WriteBatch(p) ==
    /\ writing[p]
    /\ EndBatch(p)
    /\ rows' = Inserted(p)
    /\ UNCHANGED <<OnlyFlusher, faults>>

WriteFails(p) ==
    /\ writing[p] /\ faults < MaxFaults
    /\ faults' = faults + 1
    /\ EndBatch(p)
    /\ rows' \in {rows, Inserted(p)}
    /\ UNCHANGED OnlyFlusher

-----------------------------------------------------------------------------
\* The process is killed, or a statement of Migrate fails.
Die(p) ==
    /\ pc[p] # "down" /\ faults < MaxFaults
    /\ faults' = faults + 1
    /\ Gone(p)

Boot(p) ==
    \/ AcquireLock(p) \/ ReadLedger(p) \/ Skip(p) \/ Backfill(p) \/ Refuse(p)
    \/ RunUp(p) \/ RecordMigration(p) \/ FinishMigrate(p)
    \/ SelectVersion(p) \/ ReadLastCall(p) \/ InsertVersion(p) \/ SaveVersion(p)

Serve(p) ==
    \/ Announce(p) \/ Record(p) \/ RecordAfterClose(p) \/ Cancel(p) \/ Close(p)

Flush(p) ==
    \/ Take(p) \/ Tick(p) \/ SeeCancel(p) \/ FinishFlusher(p) \/ WriteBatch(p) \/ WriteFails(p)

Next == \E p \in Servers :
    Start(p) \/ Boot(p) \/ RecordingFails(p) \/ Serve(p) \/ Flush(p) \/ Exit(p) \/ Die(p)

Spec == Init /\ [][Next]_vars

\* Go schedules the goroutines, and PostgreSQL wakes who waits for a lock.
FairSpec == Spec /\ \A p \in Servers : WF_vars(Boot(p)) /\ WF_vars(Flush(p) \/ Exit(p))

-----------------------------------------------------------------------------
\* The tables, the locks and the processes' variables have their types.
TypeOK ==
    /\ ledger \in [Migrations -> Sums \cup {None, Blank}]
    /\ applied \in [Migrations -> Nat]
    /\ lock \in Servers \cup {None} /\ rowLock \in Servers \cup {None}
    /\ stored \in Versions \cup {None}
    /\ rows \in [Entries -> Versions \cup {None}]
    /\ pc \in [Servers -> PCs]
    /\ bin \in [Servers -> Binaries \cup {None}]
    /\ seen \in [Servers -> [Migrations -> Sums \cup {None, Blank}]]
    /\ next \in [Servers -> 1 .. LastMigration + 1]
    /\ previous \in [Servers -> Versions \cup {None}]
    /\ notice \in [Servers -> {"none", "pending"}]
    /\ cancelled \in [Servers -> BOOLEAN]
    /\ flusher \in [Servers -> {"off", "run", "drain", "last", "done"}]
    /\ writing \in [Servers -> BOOLEAN]
    /\ where \in [Entries -> Places]
    /\ starts \in 0 .. MaxStarts /\ faults \in 0 .. MaxFaults

\* "applies every unapplied .sql file ... It tracks applied migrations"
\* (migrate.go:16): however servers start together or die, a migration has run
\* as often as the ledger says, and a server works only on a database that has
\* all its migrations, as its binary knows them.
Migrated(p) == pc[p] \in {"version", "last_call", "insert", "save", "serving", "closing"}
SchemaIsMigrated ==
    /\ \A m \in Migrations : applied[m] = IF ledger[m] = None THEN 0 ELSE 1
    /\ \A p \in Servers : Migrated(p) =>
         \A m \in Migrations :
             Manifest[bin[p]][m] # None => ledger[m] = Manifest[bin[p]][m]

\* A notice answers a change of the stored version and is the only one for it,
\* although all servers look for the change when they start.  Nor does one
\* announce a version that was there before (0048_mcp_runtime_state.sql:4).
ChangeNoticedOnce ==
    [][\A p \in Servers :
          notice[p] = "none" /\ notice'[p] # "none" =>
            /\ stored' = Current(p)
            /\ stored # Current(p)
            /\ stored # None => previous[p] = stored
            /\ \A q \in Servers \ {p} : notice'[q] = notice[q]]_vars

\* "Call before process exit", "blocks until outstanding entries have been
\* flushed" (telemetry.go:164): a server that exits leaves no entry behind that
\* was accepted before ctx was done.  One that was accepted later it may.
EarlierCallsAreFlushed == \A e \in Entries : where[e].at = "left" => where[e].late

\* A boot ends in a server that serves or has refused, whoever held the locks
\* and died, and Close ends whatever the flusher was doing.
EveryPhaseEnds ==
    \A p \in Servers :
        pc[p] \in Booting \cup {"closing"} ~> pc[p] \in {"serving", "down"}

=============================================================================
