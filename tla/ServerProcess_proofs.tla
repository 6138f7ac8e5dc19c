------------------------ MODULE ServerProcess_proofs ------------------------
(***************************************************************************)
(* What servers that boot, serve and stop on one database keep true, for   *)
(* any servers, binaries, migrations, versions and bounds.                 *)
(***************************************************************************)
EXTENDS ServerProcess, FiniteSetTheorems, TLAPS

\* Where p stands in Migrate, and what the ledger then is for it.
LedgerOf(p) ==
    /\ pc[p] # "down" => bin[p] \in Binaries
    /\ pc[p] \in {"down", "lock", "read"} => next[p] = 1
    /\ pc[p] \in {"read", "migrate", "record"} => lock = p
    /\ pc[p] \in {"migrate", "record"} =>
         /\ \A m \in Migrations : m >= next[p] => seen[p][m] = ledger[m]
         /\ \A m \in Migrations :
              m < next[p] /\ Manifest[bin[p]][m] # None => ledger[m] = Manifest[bin[p]][m]
    /\ pc[p] = "record" =>
         next[p] \in Migrations /\ Known(p) # None /\ ledger[next[p]] = None
    /\ Migrated(p) =>
         \A m \in Migrations : Manifest[bin[p]][m] # None => ledger[m] = Manifest[bin[p]][m]

LedgerInv ==
    /\ \A m \in Migrations : applied[m] = IF ledger[m] = None THEN 0 ELSE 1
    /\ \A p \in Servers : LedgerOf(p)

\* Who is about to save a version has the row, as it has read it.
VersionInv ==
    \A p \in Servers :
        pc[p] = "save" => rowLock = p /\ (stored # None => previous[p] = stored)

\* A flusher that has seen the end has only late entries before it.
FlusherOf(p) ==
    /\ pc[p] = "down" => flusher[p] = "off" /\ ~writing[p]
    /\ flusher[p] = "drain" => cancelled[p]
    /\ flusher[p] \in {"last", "done"} =>
         /\ cancelled[p] \/ pc[p] = "closing"
         /\ \A e \in Queued(p) : where[e].late
    /\ flusher[p] = "done" => Buffered(p) = {}

FlusherInv ==
    /\ \A p \in Servers : FlusherOf(p)
    /\ EarlierCallsAreFlushed

IInv == TypeOK /\ LedgerInv /\ VersionInv /\ FlusherInv

-----------------------------------------------------------------------------
\* Intervals that shrink are well-founded: a set of naturals has a least element.
LEMMA MinIsLeast ==
  ASSUME NEW S, S \subseteq Nat, S # {}
  PROVE  Min(S) \in S /\ \A y \in S : Min(S) =< y
  <1> DEFINE upto(x) == 0 .. x
             T == {upto(x) : x \in S}
  <1>1. T \subseteq FiniteSubsetsOf(Nat)
    <2> SUFFICES ASSUME NEW x \in S PROVE upto(x) \in FiniteSubsetsOf(Nat)
      OBVIOUS
    <2>1. IsFiniteSet(0 .. x)
      BY FS_Interval
    <2> QED
      BY <2>1 DEF FiniteSubsetsOf
  <1>2. T # {}
    OBVIOUS
  <1>3. IsWellFoundedOn(StrictSubsetOrdering(Nat), FiniteSubsetsOf(Nat))
    BY FS_StrictSubsetOrderingWellFounded
  <1>4. PICK least \in T : \A t \in T : ~(<<t, least>> \in StrictSubsetOrdering(Nat))
    <2> HIDE DEF T
    <2> QED
      BY <1>1, <1>2, <1>3, WFMin
  <1>5. PICK x \in S : least = upto(x)
    OBVIOUS
  <1>6. ASSUME NEW y \in S, y < x PROVE FALSE
    <2>1. upto(y) \in T /\ upto(y) \subseteq upto(x) /\ x \in upto(x) /\ x \notin upto(y)
      BY <1>6
    <2>2. <<upto(y), upto(x)>> \in StrictSubsetOrdering(Nat)
      BY <2>1 DEF StrictSubsetOrdering
    <2> QED
      BY <1>4, <1>5, <2>1, <2>2
  <1>7. \A y \in S : x =< y
    BY <1>6
  <1> QED
    BY <1>7 DEF Min

\* A bounded set of naturals has a greatest one: count down from the bound.
LEMMA MaxIsElement ==
  ASSUME NEW n \in Nat, NEW S, S \subseteq 1 .. n, S # {}
  PROVE  Max(S) \in S
  <1> DEFINE T == {n - x : x \in S}
  <1>1. T \subseteq Nat /\ T # {}
    <2> SUFFICES ASSUME NEW x \in S PROVE n - x \in Nat
      OBVIOUS
    <2> QED
      OBVIOUS
  <1>2. Min(T) \in T /\ \A t \in T : Min(T) =< t
    <2> HIDE DEF T
    <2> QED
      BY <1>1, MinIsLeast
  <1>3. PICK x \in S : n - x = Min(T)
    BY <1>2
  <1>4. \A y \in S : x >= y
    <2> SUFFICES ASSUME NEW y \in S PROVE x >= y
      OBVIOUS
    <2>1. n - x =< n - y
      BY <1>2, <1>3
    <2>2. x \in 1 .. n /\ y \in 1 .. n
      OBVIOUS
    <2> QED
      BY <2>1, <2>2
  <1> QED
    BY <1>4 DEF Max

-----------------------------------------------------------------------------
LEMMA NoEntry == At("none") \in Places /\ At("gone") \in Places
  BY DEF At, Places

LEMMA InitTypeOK == Init => TypeOK
  <1> SUFFICES ASSUME Init PROVE TypeOK
    OBVIOUS
  <1>1. ledger \in [Migrations -> Sums \cup {None, Blank}] /\ applied \in [Migrations -> Nat]
    BY SeedTypes DEF Init
  <1>2. stored \in Versions \cup {None} /\ rows \in [Entries -> Versions \cup {None}]
    BY SeedTypes DEF Init
  <1>3. seen \in [Servers -> [Migrations -> Sums \cup {None, Blank}]]
    BY DEF Init, NotRead
  <1>4. next \in [Servers -> 1 .. LastMigration + 1]
    BY Bounds DEF Init
  <1>5. where \in [Entries -> Places]
    BY NoEntry DEF Init
  <1> QED
    BY <1>1, <1>2, <1>3, <1>4, <1>5, Bounds DEF Init, TypeOK, PCs

\* What a binary knows has its type.
LEMMA KnownType ==
  ASSUME TypeOK, LedgerInv, NEW p \in Servers, pc[p] # "down"
  PROVE  /\ bin[p] \in Binaries /\ Current(p) \in Versions /\ Current(p) # None
         /\ next[p] \in Migrations => Known(p) \in Sums \cup {None}
         /\ \A m \in Migrations : Manifest[bin[p]][m] \in Sums \cup {None}
  <1>1. bin[p] \in Binaries
    BY DEF LedgerInv, LedgerOf
  <1> QED
    BY <1>1, BinaryTypes, NoneIsNone DEF Current, Known

LEMMA GoneType ==
  ASSUME TypeOK, NEW p \in Servers, Down(p), where' \in [Entries -> Places],
         faults' \in 0 .. MaxFaults
  PROVE  TypeOK'
  <1>1. NotRead \in [Migrations -> Sums \cup {None, Blank}]
    BY DEF NotRead
  <1> QED
    BY <1>1, Bounds DEF TypeOK, Down, Goto, PCs

LEMMA GoneEntries ==
  ASSUME TypeOK, NEW p \in Servers, Gone(p)
  PROVE  where' \in [Entries -> Places]
  BY NoEntry DEF TypeOK, Gone

LEMMA BootType ==
  ASSUME TypeOK, LedgerInv, NEW p \in Servers, Boot(p)
  PROVE  TypeOK'
  <1>1. CASE AcquireLock(p)
    BY <1>1 DEF TypeOK, AcquireLock, Goto, Migrating, telemetry, PCs, Booting
  <1>2. CASE ReadLedger(p)
    BY <1>2 DEF TypeOK, ReadLedger, Goto, Migrating, telemetry, PCs, Booting
  <1>3. CASE Skip(p)
    BY <1>3, Bounds DEF TypeOK, Skip, AtNext, Advance, db, telemetry
  <1>4. CASE Backfill(p)
    <2>1. next[p] \in Migrations /\ Known(p) \in Sums \cup {None} /\ pc[p] # "down"
      BY <1>4, Bounds, KnownType DEF TypeOK, Backfill, AtNext, Migrations
    <2> QED
      BY <1>4, <2>1, Bounds DEF TypeOK, Backfill, AtNext, Advance, Migrating, telemetry, Migrations
  <1>5. CASE Refuse(p)
    BY <1>5, GoneType, GoneEntries DEF Refuse, Gone, TypeOK
  <1>6. CASE RunUp(p)
    BY <1>6 DEF TypeOK, RunUp, Goto, Migrating, telemetry, PCs, Booting
  <1>7. CASE RecordMigration(p)
    <2>1. CASE ledger[next[p]] # None
      BY <1>7, <2>1, GoneType, GoneEntries DEF RecordMigration, Gone, TypeOK
    <2>2. CASE ledger[next[p]] = None
      <3>1. next[p] \in Migrations /\ Known(p) \in Sums \cup {None}
        BY <1>7, KnownType DEF RecordMigration, LedgerInv, LedgerOf
      <3>2. /\ ledger' = [ledger EXCEPT ![next[p]] = Known(p)]
            /\ applied' = [applied EXCEPT ![next[p]] = @ + 1]
            /\ next' = [next EXCEPT ![p] = next[p] + 1]
            /\ pc' = [pc EXCEPT ![p] = "migrate"]
            /\ UNCHANGED <<lock, seen, Migrating>>
        BY <1>7, <2>2 DEF RecordMigration, Advance, Goto
      <3>3. ledger' \in [Migrations -> Sums \cup {None, Blank}]
        BY <3>1, <3>2 DEF TypeOK
      <3>4. applied' \in [Migrations -> Nat]
        BY <3>1, <3>2 DEF TypeOK
      <3>5. next' \in [Servers -> 1 .. LastMigration + 1]
        BY <3>1, <3>2, Bounds DEF TypeOK, Migrations
      <3> QED
        BY <3>2, <3>3, <3>4, <3>5 DEF TypeOK, Migrating, telemetry, PCs, Booting
    <2> QED
      BY <2>1, <2>2
  <1>8. CASE FinishMigrate(p)
    <2>1. NotRead \in [Migrations -> Sums \cup {None, Blank}] /\ 1 \in 1 .. LastMigration + 1
      BY Bounds DEF NotRead
    <2> QED
      BY <1>8, <2>1 DEF TypeOK, FinishMigrate, Unlocked, Goto, PCs, Booting
  <1>9. CASE SelectVersion(p)
    BY <1>9 DEF TypeOK, SelectVersion, Goto, Recording, telemetry, PCs, Booting
  <1>10. CASE ReadLastCall(p)
    <2>1. LastCallVersion \in Versions \cup {None}
      <3>1. CASE InTable = {}
        BY <3>1, SeedTypes DEF LastCallVersion
      <3>2. CASE InTable # {}
        <4>1. Max(InTable) \in Entries
          BY <3>2, Bounds, MaxIsElement DEF InTable, Entries
        <4> QED
          BY <3>2, <4>1 DEF LastCallVersion, TypeOK
      <3> QED
        BY <3>1, <3>2
    <2> QED
      BY <1>10, <2>1 DEF TypeOK, ReadLastCall, Goto, Recording, telemetry, PCs, Booting
  <1>11. CASE InsertVersion(p)
    BY <1>11 DEF TypeOK, InsertVersion, Goto, Recording, telemetry, PCs, Booting
  <1>12. CASE SaveVersion(p)
    <2>1. Current(p) \in Versions
      BY <1>12, KnownType DEF SaveVersion
    <2> QED
      BY <1>12, <2>1 DEF TypeOK, SaveVersion, Goto, Recording, telemetry, PCs, Booting
  <1> QED
    BY <1>1, <1>2, <1>3, <1>4, <1>5, <1>6, <1>7, <1>8, <1>9, <1>10, <1>11, <1>12 DEF Boot

LEMMA ServeType ==
  ASSUME TypeOK, NEW p \in Servers, Serve(p)
  PROVE  TypeOK'
  <1> USE DEF db, boot
  <1>1. CASE Announce(p)
    BY <1>1 DEF TypeOK, Announce, OnlyServing
  <1>2. CASE Record(p)
    <2>1. [at |-> "queued", by |-> p, late |-> cancelled[p]] \in Places
      BY DEF TypeOK, Places
    <2> QED
      BY <1>2, <2>1, NoEntry DEF TypeOK, Record, OnlyServing
  <1>3. CASE RecordAfterClose(p)
    BY <1>3, GoneType, GoneEntries DEF RecordAfterClose, Gone, TypeOK
  <1>4. CASE Cancel(p)
    BY <1>4 DEF TypeOK, Cancel, OnlyServing
  <1>5. CASE Close(p)
    BY <1>5 DEF TypeOK, Close, Goto, PCs, OnlyServing
  <1> QED
    BY <1>1, <1>2, <1>3, <1>4, <1>5 DEF Serve

LEMMA FlushType ==
  ASSUME TypeOK, LedgerInv, FlusherInv, NEW p \in Servers, Flush(p)
  PROVE  TypeOK'
  <1> USE DEF OnlyFlusher, db, boot
  <1>1. CASE Take(p)
    <2>1. ASSUME NEW n \in Entries PROVE [where[n] EXCEPT !.at = "buffered"] \in Places
      <3>1. where[n] \in Places
        BY DEF TypeOK
      <3> QED
        BY <3>1 DEF Places
    <2>2. where' \in [Entries -> Places]
      BY <1>1, <2>1 DEF TypeOK, Take
    <2>3. writing' \in [Servers -> BOOLEAN]
      BY <1>1 DEF TypeOK, Take
    <2> QED
      BY <1>1, <2>2, <2>3 DEF TypeOK, Take
  <1>2. CASE Tick(p)
    BY <1>2 DEF TypeOK, Tick
  <1>3. CASE SeeCancel(p)
    BY <1>3 DEF TypeOK, SeeCancel
  <1>4. CASE FinishFlusher(p)
    BY <1>4 DEF TypeOK, FinishFlusher
  <1>5. CASE WriteBatch(p) \/ WriteFails(p)
    <2>1. Current(p) \in Versions
      BY <1>5, KnownType DEF WriteBatch, WriteFails, FlusherInv, FlusherOf
    <2>2. Inserted(p) \in [Entries -> Versions \cup {None}]
      BY <2>1 DEF TypeOK, Inserted
    <2>3. rows' \in [Entries -> Versions \cup {None}]
      BY <1>5, <2>2 DEF TypeOK, WriteBatch, WriteFails
    <2>4. where' \in [Entries -> Places]
      <3>1. where' = [e \in Entries |-> IF e \in Buffered(p) THEN At("gone") ELSE where[e]]
        BY <1>5 DEF WriteBatch, WriteFails, EndBatch
      <3> QED
        BY <3>1, NoEntry DEF TypeOK
    <2>5. faults' \in 0 .. MaxFaults
      BY <1>5, Bounds DEF TypeOK, WriteBatch, WriteFails
    <2> QED
      BY <1>5, <2>3, <2>4, <2>5 DEF TypeOK, WriteBatch, WriteFails, EndBatch
  <1> QED
    BY <1>1, <1>2, <1>3, <1>4, <1>5 DEF Flush

LEMMA StepType ==
  ASSUME TypeOK, LedgerInv, FlusherInv, [Next]_vars
  PROVE  TypeOK'
  <1>1. ASSUME NEW p \in Servers, Start(p) PROVE TypeOK'
    <2>1. bin' \in [Servers -> Binaries \cup {None}]
      <3>1. PICK b \in Builds[p] : bin' = [bin EXCEPT ![p] = b]
        BY <1>1 DEF Start
      <3>2. b \in Binaries
        BY <3>1, BinaryTypes
      <3> QED
        BY <3>1, <3>2 DEF TypeOK
    <2>2. starts' \in 0 .. MaxStarts
      BY <1>1, Bounds DEF TypeOK, Start
    <2> QED
      BY <1>1, <2>1, <2>2 DEF TypeOK, Start, Goto, db, telemetry, PCs, Booting
  <1>2. ASSUME NEW p \in Servers, RecordingFails(p) PROVE TypeOK'
    <2>1. Current(p) \in Versions
      BY <1>2, KnownType DEF RecordingFails
    <2> QED
      BY <1>2, <2>1, Bounds DEF TypeOK, RecordingFails, Goto, boot, telemetry, PCs
  <1>3. ASSUME NEW p \in Servers, Exit(p) PROVE TypeOK'
    <2>1. where' \in [Entries -> Places]
      <3>1. ASSUME NEW e \in Entries PROVE [where[e] EXCEPT !.at = "left", !.by = None] \in Places
        <4>1. where[e] \in Places
          BY DEF TypeOK
        <4> QED
          BY <4>1 DEF Places
      <3>2. \A e \in Entries : where[e] \in Places
        BY DEF TypeOK
      <3> QED
        BY <1>3, <3>1, <3>2 DEF Exit
    <2> QED
      BY <1>3, <2>1, GoneType DEF Exit, TypeOK
  <1>4. ASSUME NEW p \in Servers, Die(p) PROVE TypeOK'
    BY <1>4, Bounds, GoneType, GoneEntries DEF Die, Gone, TypeOK
  <1>5. CASE UNCHANGED vars
    BY <1>5 DEF TypeOK, vars, db, boot, telemetry
  <1> QED
    BY <1>1, <1>2, <1>3, <1>4, <1>5, BootType, ServeType, FlushType DEF Next

-----------------------------------------------------------------------------
\* A step of p's leaves the other servers what they have: it writes the ledger
\* only with the lock, and no checksum that is there.
LEMMA LedgerFrame ==
  ASSUME TypeOK, LedgerInv, NEW p \in Servers,
         \A q \in Servers \ {p} :
             pc'[q] = pc[q] /\ bin'[q] = bin[q] /\ seen'[q] = seen[q] /\ next'[q] = next[q],
         ledger' = ledger \/ lock = p,
         \A m \in Migrations : ledger'[m] = ledger[m] \/ ledger[m] \in {None, Blank},
         lock' = lock \/ lock \in {None, p},
         LedgerOf(p)',
         \A m \in Migrations : applied'[m] = IF ledger'[m] = None THEN 0 ELSE 1
  PROVE  LedgerInv'
  <1> SUFFICES ASSUME NEW q \in Servers, q # p PROVE LedgerOf(q)'
    BY DEF LedgerInv
  <1>1. LedgerOf(q)
    BY DEF LedgerInv
  <1>2. CASE pc[q] \in {"read", "migrate", "record"}
    <2>1. lock' = q /\ ledger' = ledger
      BY <1>1, <1>2, NoneIsNone DEF LedgerOf
    <2> QED
      BY <1>1, <1>2, <2>1 DEF LedgerOf, Known, Migrated
  <1>3. CASE Migrated(q)
    <2>1. bin[q] \in Binaries /\ Manifest[bin[q]] \in [Migrations -> Sums \cup {None}]
      BY <1>1, <1>3, BinaryTypes DEF LedgerOf, Migrated
    <2>2. \A m \in Migrations :
             Manifest[bin[q]][m] # None => Manifest[bin[q]][m] \notin {None, Blank}
      BY <2>1, NoneIsNone
    <2> QED
      BY <1>1, <1>3, <2>2 DEF LedgerOf, Migrated
  <1>4. CASE pc[q] \in {"down", "lock"}
    BY <1>1, <1>4 DEF LedgerOf, Migrated
  <1> QED
    BY <1>2, <1>3, <1>4 DEF TypeOK, PCs, Booting, Migrated

\* A server that has its schema goes on, or a telemetry step.
LEMMA LedgerKept ==
  ASSUME TypeOK, LedgerInv, NEW p \in Servers,
         UNCHANGED <<ledger, applied, lock, bin, seen, next>>,
         \A q \in Servers \ {p} : pc'[q] = pc[q],
         pc'[p] = pc[p] \/ (Migrated(p) /\ Migrated(p)')
  PROVE  LedgerInv'
  <1>1. LedgerOf(p)'
    BY DEF LedgerInv, LedgerOf, Known, Migrated
  <1> QED
    BY <1>1, LedgerFrame DEF LedgerInv

LEMMA LedgerDown ==
  ASSUME TypeOK, LedgerInv, NEW p \in Servers, Down(p)
  PROVE  LedgerInv'
  <1>1. LedgerOf(p)'
    BY DEF Down, Goto, TypeOK, LedgerOf, Migrated
  <1>2. \A q \in Servers \ {p} :
           pc'[q] = pc[q] /\ bin'[q] = bin[q] /\ seen'[q] = seen[q] /\ next'[q] = next[q]
    BY DEF Down, Goto, TypeOK
  <1>3. ledger' = ledger /\ applied' = applied /\ (lock' = lock \/ lock = p)
    BY DEF Down
  <1> QED
    BY <1>1, <1>2, <1>3, LedgerFrame DEF LedgerInv

LEMMA LedgerBoot ==
  ASSUME TypeOK, LedgerInv, NEW p \in Servers, Boot(p)
  PROVE  LedgerInv'
  <1> DEFINE Others == \A q \in Servers \ {p} :
                 pc'[q] = pc[q] /\ bin'[q] = bin[q] /\ seen'[q] = seen[q] /\ next'[q] = next[q]
  <1>1. CASE AcquireLock(p)
    <2>1. LedgerOf(p)'
      BY <1>1 DEF AcquireLock, Goto, Migrating, LedgerInv, LedgerOf, TypeOK, Migrated
    <2>2. Others /\ ledger' = ledger /\ applied' = applied /\ lock = None
      BY <1>1 DEF AcquireLock, Goto, Migrating, TypeOK
    <2> QED
      BY <2>1, <2>2, LedgerFrame DEF LedgerInv
  <1>2. CASE ReadLedger(p)
    <2>1. LedgerOf(p)'
      BY <1>2 DEF ReadLedger, Goto, Migrating, LedgerInv, LedgerOf, TypeOK, Migrated, Migrations
    <2>2. Others /\ ledger' = ledger /\ applied' = applied /\ lock' = lock
      BY <1>2 DEF ReadLedger, Goto, Migrating, TypeOK
    <2> QED
      BY <2>1, <2>2, LedgerFrame DEF LedgerInv
  <1>3. CASE Skip(p)
    <2>1. LedgerOf(p) /\ seen[p][next[p]] = ledger[next[p]] /\ next[p] \in Migrations
      BY <1>3 DEF Skip, AtNext, LedgerInv, LedgerOf, TypeOK, Migrations
    <2>2. Known(p) = None \/ ledger[next[p]] = Known(p)
      BY <1>3, <2>1 DEF Skip, Mismatch, Read
    <2>3. UNCHANGED <<ledger, applied, lock, pc, bin, seen>> /\ next' = [next EXCEPT ![p] = next[p] + 1]
      BY <1>3 DEF Skip, Advance, db
    <2>4. LedgerOf(p)'
      BY <1>3, <2>1, <2>2, <2>3 DEF Skip, AtNext, LedgerOf, TypeOK, Migrated, Known, Migrations
    <2> QED
      BY <2>3, <2>4, LedgerFrame DEF LedgerInv, TypeOK
  <1>4. CASE Backfill(p)
    <2>1. LedgerOf(p) /\ ledger[next[p]] = Blank /\ next[p] \in Migrations /\ lock = p
      BY <1>4 DEF Backfill, AtNext, Read, LedgerInv, LedgerOf, TypeOK, Migrations
    <2>2. /\ UNCHANGED <<applied, lock, pc, bin, seen>>
          /\ ledger' = [ledger EXCEPT ![next[p]] = Known(p)]
          /\ next' = [next EXCEPT ![p] = next[p] + 1]
          /\ pc[p] = "migrate" /\ Known(p) # None
      BY <1>4, <2>1 DEF Backfill, AtNext, Advance, Migrating
    <2>3. LedgerOf(p)'
      <3>1. pc'[p] = "migrate" /\ next'[p] = next[p] + 1 /\ next[p] \in Nat
        BY <2>1, <2>2 DEF TypeOK, Migrations
      <3>2. ledger'[next[p]] = Manifest[bin[p]][next[p]]
        BY <2>1, <2>2 DEF TypeOK, Known
      <3>3. \A m \in Migrations : m # next[p] => ledger'[m] = ledger[m]
        BY <2>1, <2>2 DEF TypeOK
      <3>4. \A m \in Migrations : m >= next'[p] => seen[p][m] = ledger'[m]
        BY <2>1, <2>2, <3>1, <3>3 DEF LedgerOf, Migrations
      <3>5. \A m \in Migrations :
               m < next'[p] /\ Manifest[bin[p]][m] # None => ledger'[m] = Manifest[bin[p]][m]
        BY <2>1, <2>2, <3>1, <3>2, <3>3 DEF LedgerOf, Migrations
      <3> QED
        BY <2>1, <2>2, <3>1, <3>4, <3>5 DEF LedgerOf, Migrated
    <2>4. \A m \in Migrations : applied'[m] = IF ledger'[m] = None THEN 0 ELSE 1
      BY <2>1, <2>2, NoneIsNone DEF LedgerInv, TypeOK
    <2> QED
      BY <2>1, <2>2, <2>3, <2>4, LedgerFrame DEF TypeOK
  <1>5. CASE Refuse(p)
    BY <1>5, LedgerDown DEF Refuse, Gone
  <1>6. CASE RunUp(p)
    <2>1. LedgerOf(p)'
      BY <1>6 DEF RunUp, AtNext, Read, Goto, Migrating, LedgerInv, LedgerOf, TypeOK, Migrated,
                  Known, Migrations
    <2> QED
      BY <1>6, <2>1, LedgerFrame DEF RunUp, Goto, Migrating, LedgerInv, TypeOK
  <1>7. CASE RecordMigration(p)
    <2>1. LedgerOf(p) /\ ledger[next[p]] = None /\ next[p] \in Migrations /\ lock = p
      BY <1>7 DEF RecordMigration, LedgerInv, LedgerOf
    <2>2. /\ UNCHANGED <<lock, bin, seen>>
          /\ ledger' = [ledger EXCEPT ![next[p]] = Known(p)]
          /\ applied' = [applied EXCEPT ![next[p]] = @ + 1]
          /\ next' = [next EXCEPT ![p] = next[p] + 1]
          /\ pc' = [pc EXCEPT ![p] = "migrate"]
          /\ pc[p] = "record" /\ Known(p) # None
      BY <1>7, <2>1 DEF RecordMigration, Advance, Goto, Migrating, LedgerOf
    <2>3. LedgerOf(p)'
      <3>1. pc'[p] = "migrate" /\ next'[p] = next[p] + 1 /\ next[p] \in Nat
        BY <2>1, <2>2 DEF TypeOK, Migrations
      <3>2. ledger'[next[p]] = Manifest[bin[p]][next[p]]
        BY <2>1, <2>2 DEF TypeOK, Known
      <3>3. \A m \in Migrations : m # next[p] => ledger'[m] = ledger[m]
        BY <2>1, <2>2 DEF TypeOK
      <3>4. \A m \in Migrations : m >= next'[p] => seen[p][m] = ledger'[m]
        BY <2>1, <2>2, <3>1, <3>3 DEF LedgerOf, Migrations
      <3>5. \A m \in Migrations :
               m < next'[p] /\ Manifest[bin[p]][m] # None => ledger'[m] = Manifest[bin[p]][m]
        BY <2>1, <2>2, <3>1, <3>2, <3>3 DEF LedgerOf, Migrations
      <3> QED
        BY <2>1, <2>2, <3>1, <3>4, <3>5 DEF LedgerOf, Migrated
    <2>4. \A m \in Migrations : applied'[m] = IF ledger'[m] = None THEN 0 ELSE 1
      BY <2>1, <2>2 DEF LedgerInv, TypeOK
    <2> QED
      BY <2>1, <2>2, <2>3, <2>4, LedgerFrame DEF TypeOK
  <1>8. CASE FinishMigrate(p)
    <2>1. LedgerOf(p) /\ lock = p
      BY <1>8 DEF FinishMigrate, LedgerInv, LedgerOf
    <2>2. /\ UNCHANGED <<ledger, applied, bin>> /\ lock' = None
          /\ pc' = [pc EXCEPT ![p] = "version"] /\ pc[p] = "migrate" /\ next[p] > LastMigration
      BY <1>8 DEF FinishMigrate, Unlocked, Goto
    <2>3. LedgerOf(p)'
      BY <2>1, <2>2, Bounds DEF LedgerOf, TypeOK, Migrated, Migrations
    <2>4. Others
      BY <1>8 DEF FinishMigrate, Goto, TypeOK
    <2> QED
      BY <2>1, <2>2, <2>3, <2>4, LedgerFrame DEF LedgerInv
  <1>9. CASE SelectVersion(p) \/ ReadLastCall(p) \/ InsertVersion(p) \/ SaveVersion(p)
    <2>1. UNCHANGED <<ledger, applied, lock, bin, seen, next>> /\ Migrated(p)
      BY <1>9 DEF SelectVersion, ReadLastCall, InsertVersion, SaveVersion, Recording, Migrated
    <2>2. Migrated(p)' /\ \A q \in Servers \ {p} : pc'[q] = pc[q]
      BY <1>9 DEF SelectVersion, ReadLastCall, InsertVersion, SaveVersion, Goto, Migrated, TypeOK
    <2> QED
      BY <2>1, <2>2, LedgerKept
  <1> QED
    BY <1>1, <1>2, <1>3, <1>4, <1>5, <1>6, <1>7, <1>8, <1>9 DEF Boot

LEMMA LedgerStep ==
  ASSUME TypeOK, LedgerInv, [Next]_vars
  PROVE  LedgerInv'
  <1>1. ASSUME NEW p \in Servers, Start(p) PROVE LedgerInv'
    <2>1. LedgerOf(p)'
      <3>1. bin'[p] \in Binaries
        BY <1>1, BinaryTypes DEF Start, TypeOK
      <3>2. pc'[p] = "lock" /\ next'[p] = 1
        BY <1>1 DEF Start, Goto, TypeOK, LedgerInv, LedgerOf
      <3> QED
        BY <3>1, <3>2 DEF LedgerOf, Migrated
    <2>2. \A q \in Servers \ {p} :
             pc'[q] = pc[q] /\ bin'[q] = bin[q] /\ seen'[q] = seen[q] /\ next'[q] = next[q]
      BY <1>1 DEF Start, Goto, TypeOK
    <2>3. UNCHANGED <<ledger, applied, lock>>
      BY <1>1 DEF Start, db
    <2> QED
      BY <2>1, <2>2, <2>3, LedgerFrame DEF LedgerInv
  <1>2. ASSUME NEW p \in Servers, RecordingFails(p) PROVE LedgerInv'
    <2>1. UNCHANGED <<ledger, applied, lock, bin, seen, next>> /\ Migrated(p)
      BY <1>2 DEF RecordingFails, boot, Migrated
    <2>2. Migrated(p)' /\ \A q \in Servers \ {p} : pc'[q] = pc[q]
      BY <1>2 DEF RecordingFails, Goto, Migrated, TypeOK
    <2> QED
      BY <2>1, <2>2, LedgerKept
  <1>3. ASSUME NEW p \in Servers, Serve(p) PROVE LedgerInv'
    <2>1. CASE RecordAfterClose(p)
      BY <2>1, LedgerDown DEF RecordAfterClose, Gone
    <2>2. CASE Announce(p) \/ Record(p) \/ Cancel(p) \/ Close(p)
      <3>1. UNCHANGED <<ledger, applied, lock, bin, seen, next>> /\ Migrated(p)
        BY <2>2 DEF Announce, Record, Cancel, Close, OnlyServing, db, boot, Migrated
      <3>2. Migrated(p)' /\ \A q \in Servers \ {p} : pc'[q] = pc[q]
        BY <2>2 DEF Announce, Record, Cancel, Close, Goto, Migrated, TypeOK
      <3> QED
        BY <3>1, <3>2, LedgerKept
    <2> QED
      BY <1>3, <2>1, <2>2 DEF Serve
  <1>4. ASSUME NEW p \in Servers, Flush(p) PROVE LedgerInv'
    <2>1. UNCHANGED <<ledger, applied, lock, bin, seen, next, pc>>
      BY <1>4 DEF Flush, Take, Tick, SeeCancel, FinishFlusher, WriteBatch, WriteFails, OnlyFlusher,
                  db, boot
    <2> QED
      BY <2>1, LedgerKept
  <1>5. ASSUME NEW p \in Servers, Exit(p) \/ Die(p) PROVE LedgerInv'
    BY <1>5, LedgerDown DEF Exit, Die, Gone
  <1>6. CASE UNCHANGED vars
    BY <1>6 DEF vars, db, boot, LedgerInv, LedgerOf, Known, Migrated
  <1> QED
    BY <1>1, <1>2, <1>3, <1>4, <1>5, <1>6, LedgerBoot DEF Next

-----------------------------------------------------------------------------
\* Only who has the row of mcp_runtime_state writes it.
LEMMA VersionFrame ==
  ASSUME VersionInv, NEW p \in Servers,
         \A q \in Servers \ {p} : pc'[q] = pc[q] /\ previous'[q] = previous[q],
         rowLock' = rowLock \/ rowLock \in {None, p},
         stored' = stored \/ rowLock = p,
         pc'[p] = "save" => rowLock' = p /\ (stored' # None => previous'[p] = stored')
  PROVE  VersionInv'
  BY NoneIsNone DEF VersionInv

LEMMA VersionDown ==
  ASSUME TypeOK, VersionInv, NEW p \in Servers, Down(p)
  PROVE  VersionInv'
  <1>1. /\ \A q \in Servers \ {p} : pc'[q] = pc[q] /\ previous'[q] = previous[q]
        /\ pc'[p] = "down" /\ stored' = stored /\ (rowLock' = rowLock \/ rowLock = p)
    BY DEF Down, Goto, TypeOK
  <1> QED
    BY <1>1, VersionFrame

LEMMA VersionStep ==
  ASSUME TypeOK, VersionInv, [Next]_vars
  PROVE  VersionInv'
  <1>1. ASSUME NEW p \in Servers, Refuse(p) \/ RecordAfterClose(p) \/ Exit(p) \/ Die(p)
        PROVE  VersionInv'
    BY <1>1, VersionDown DEF Refuse, RecordAfterClose, Exit, Die, Gone
  <1>2. ASSUME NEW p \in Servers, RecordMigration(p) PROVE VersionInv'
    <2>1. CASE ledger[next[p]] # None
      BY <1>2, <2>1, VersionDown DEF RecordMigration, Gone
    <2>2. CASE ledger[next[p]] = None
      <3>1. /\ UNCHANGED <<rowLock, stored, previous>> /\ pc'[p] = "migrate"
            /\ \A q \in Servers \ {p} : pc'[q] = pc[q]
        BY <1>2, <2>2 DEF RecordMigration, Migrating, Goto, TypeOK
      <3> QED
        BY <3>1, VersionFrame
    <2> QED
      BY <2>1, <2>2
  <1>3. ASSUME NEW p \in Servers,
               Start(p) \/ AcquireLock(p) \/ ReadLedger(p) \/ RunUp(p) \/ FinishMigrate(p)
        PROVE  VersionInv'
    <2>1. /\ UNCHANGED <<rowLock, stored, previous>> /\ pc'[p] # "save"
          /\ \A q \in Servers \ {p} : pc'[q] = pc[q]
      BY <1>3 DEF Start, AcquireLock, ReadLedger, RunUp, FinishMigrate, Migrating, db, Goto, TypeOK
    <2> QED
      BY <2>1, VersionFrame
  <1>4. ASSUME NEW p \in Servers,
               Skip(p) \/ Backfill(p) \/ Flush(p) \/ Announce(p) \/ Record(p) \/ Cancel(p)
        PROVE  VersionInv'
    <2>1. UNCHANGED <<pc, rowLock, stored, previous>>
      BY <1>4 DEF Skip, Backfill, Migrating, Flush, Take, Tick, SeeCancel, FinishFlusher, WriteBatch,
                  WriteFails, OnlyFlusher, Announce, Record, Cancel, OnlyServing, db, boot
    <2> QED
      BY <2>1 DEF VersionInv
  <1>5. ASSUME NEW p \in Servers, Close(p) PROVE VersionInv'
    <2>1. /\ UNCHANGED <<rowLock, stored, previous>> /\ pc'[p] = "closing"
          /\ \A q \in Servers \ {p} : pc'[q] = pc[q]
      BY <1>5 DEF Close, OnlyServing, db, boot, Goto, TypeOK
    <2> QED
      BY <2>1, VersionFrame
  <1>6. ASSUME NEW p \in Servers, SelectVersion(p) PROVE VersionInv'
    <2>1. /\ stored' = stored /\ (rowLock \in {None, p} \/ rowLock' = rowLock)
          /\ \A q \in Servers \ {p} : pc'[q] = pc[q] /\ previous'[q] = previous[q]
          /\ pc'[p] = "save" => rowLock' = p /\ previous'[p] = stored
      BY <1>6 DEF SelectVersion, RowFree, Goto, TypeOK
    <2>2. stored' = stored
      BY <1>6 DEF SelectVersion
    <2> QED
      BY <2>1, <2>2, VersionFrame
  <1>7. ASSUME NEW p \in Servers, ReadLastCall(p) PROVE VersionInv'
    <2>1. /\ UNCHANGED <<rowLock, stored>> /\ pc'[p] = "insert"
          /\ \A q \in Servers \ {p} : pc'[q] = pc[q] /\ previous'[q] = previous[q]
      BY <1>7 DEF ReadLastCall, Goto, TypeOK
    <2> QED
      BY <2>1, VersionFrame
  <1>8. ASSUME NEW p \in Servers, InsertVersion(p) PROVE VersionInv'
    <2>1. /\ UNCHANGED <<stored, previous>> /\ rowLock = None
          /\ \A q \in Servers \ {p} : pc'[q] = pc[q]
          /\ pc'[p] = "save" => rowLock' = p /\ stored = None
      BY <1>8 DEF InsertVersion, Goto, TypeOK
    <2> QED
      BY <2>1, VersionFrame
  <1>9. ASSUME NEW p \in Servers, SaveVersion(p) \/ RecordingFails(p) PROVE VersionInv'
    <2>1. /\ stored' = stored \/ rowLock = p
          /\ rowLock' = rowLock \/ rowLock = p
          /\ pc'[p] = "serving"
          /\ \A q \in Servers \ {p} : pc'[q] = pc[q] /\ previous'[q] = previous[q]
      BY <1>9 DEF SaveVersion, RecordingFails, VersionInv, boot, Goto, TypeOK
    <2> QED
      BY <2>1, VersionFrame
  <1>10. CASE UNCHANGED vars
    BY <1>10 DEF vars, db, boot, VersionInv
  <1> QED
    BY <1>1, <1>2, <1>3, <1>4, <1>5, <1>6, <1>7, <1>8, <1>9, <1>10 DEF Next, Boot, Serve

-----------------------------------------------------------------------------
\* A step of p's moves no entry of another server's.
LEMMA FlusherFrame ==
  ASSUME TypeOK, FlusherInv, NEW p \in Servers,
         \A q \in Servers \ {p} :
             pc'[q] = pc[q] /\ cancelled'[q] = cancelled[q] /\ flusher'[q] = flusher[q]
               /\ writing'[q] = writing[q],
         \A e \in Entries :
             \/ where'[e] = where[e]
             \/ /\ where[e].by \in {None, p} /\ where'[e].by \in {None, p}
                /\ where'[e].at = "left" => where'[e].late,
         FlusherOf(p)'
  PROVE  FlusherInv'
  <1>1. EarlierCallsAreFlushed'
    BY DEF FlusherInv, EarlierCallsAreFlushed
  <1>2. ASSUME NEW q \in Servers, q # p PROVE FlusherOf(q)'
    <2>1. q # None
      BY NoneIsNone
    <2>2. \A e \in Entries : where'[e] = where[e] \/ (where[e].by # q /\ where'[e].by # q)
      BY <1>2, <2>1
    <2>3. Queued(q)' = Queued(q) /\ Buffered(q)' = Buffered(q)
      BY <2>2 DEF Queued, Buffered
    <2>4. \A e \in Queued(q) : where'[e] = where[e]
      BY <2>2 DEF Queued
    <2> QED
      BY <1>2, <2>3, <2>4 DEF FlusherInv, FlusherOf
  <1> QED
    BY <1>1, <1>2 DEF FlusherInv

LEMMA FlusherDown ==
  ASSUME TypeOK, FlusherInv, NEW p \in Servers, Down(p),
         \A e \in Entries :
             \/ where'[e] = where[e]
             \/ /\ where[e].by \in {None, p} /\ where'[e].by \in {None, p}
                /\ where'[e].at = "left" => where'[e].late
  PROVE  FlusherInv'
  <1>1. FlusherOf(p)'
    BY DEF Down, Goto, TypeOK, FlusherOf
  <1>2. \A q \in Servers \ {p} :
           pc'[q] = pc[q] /\ cancelled'[q] = cancelled[q] /\ flusher'[q] = flusher[q]
             /\ writing'[q] = writing[q]
    BY DEF Down, Goto, TypeOK
  <1> QED
    BY <1>1, <1>2, FlusherFrame

LEMMA FlusherGone ==
  ASSUME TypeOK, FlusherInv, NEW p \in Servers, Gone(p)
  PROVE  FlusherInv'
  BY FlusherDown DEF Gone, Held, Queued, Buffered, At

\* Booting: there is no telemetry, or it starts.
LEMMA FlusherBoots ==
  ASSUME TypeOK, FlusherInv, NEW p \in Servers,
         UNCHANGED <<where, writing, cancelled>>,
         flusher' = flusher \/ (flusher' = [flusher EXCEPT ![p] = "run"] /\ pc'[p] # "down"),
         pc' = pc \/ \E l \in PCs \ {"down"} : Goto(p, l) /\ pc[p] # "closing"
  PROVE  FlusherInv'
  <1>1. FlusherOf(p)'
    BY DEF FlusherInv, FlusherOf, Goto, TypeOK, Queued, Buffered
  <1> QED
    BY <1>1, FlusherFrame DEF Goto, TypeOK

LEMMA FlusherBoot ==
  ASSUME TypeOK, FlusherInv, NEW p \in Servers, Boot(p) \/ Start(p) \/ RecordingFails(p)
  PROVE  FlusherInv'
  <1>1. CASE Refuse(p)
    BY <1>1, FlusherGone DEF Refuse
  <1>2. CASE RecordMigration(p)
    <2>1. CASE ledger[next[p]] # None
      BY <1>2, <2>1, FlusherGone DEF RecordMigration
    <2>2. CASE ledger[next[p]] = None
      <3>1. UNCHANGED <<where, writing, cancelled, flusher>> /\ Goto(p, "migrate") /\ pc[p] = "record"
        BY <1>2, <2>2 DEF RecordMigration, Migrating, telemetry
      <3> QED
        BY <3>1, FlusherBoots DEF PCs, Booting
    <2> QED
      BY <2>1, <2>2
  <1>3. CASE FinishMigrate(p)
    <2>1. /\ UNCHANGED <<where, writing, cancelled>> /\ Goto(p, "version") /\ pc[p] = "migrate"
          /\ flusher' = [flusher EXCEPT ![p] = "run"]
      BY <1>3 DEF FinishMigrate
    <2>2. pc'[p] = "version"
      BY <2>1 DEF Goto, TypeOK
    <2> QED
      BY <2>1, <2>2, FlusherBoots DEF PCs, Booting
  <1>4. CASE Skip(p) \/ Backfill(p)
    <2>1. UNCHANGED <<where, writing, cancelled, flusher, pc>>
      BY <1>4 DEF Skip, Backfill, Migrating, telemetry
    <2> QED
      BY <2>1, FlusherBoots
  <1>5. CASE AcquireLock(p) \/ ReadLedger(p) \/ RunUp(p) \/ Start(p)
    <2>1. /\ UNCHANGED <<where, writing, cancelled, flusher>> /\ pc[p] # "closing"
          /\ \E l \in {"read", "migrate", "record", "lock"} : Goto(p, l)
      BY <1>5 DEF AcquireLock, ReadLedger, RunUp, AtNext, Start, Migrating, telemetry
    <2> QED
      BY <2>1, FlusherBoots DEF PCs, Booting
  <1>6. CASE SelectVersion(p) \/ ReadLastCall(p) \/ InsertVersion(p) \/ SaveVersion(p)
               \/ RecordingFails(p)
    <2>1. /\ UNCHANGED <<where, writing, cancelled, flusher>> /\ pc[p] # "closing"
          /\ \E l \in {"last_call", "insert", "save", "serving"} : Goto(p, l)
      BY <1>6 DEF SelectVersion, ReadLastCall, InsertVersion, SaveVersion, RecordingFails, Recording,
                  telemetry
    <2> QED
      BY <2>1, FlusherBoots DEF PCs, Booting
  <1> QED
    BY <1>1, <1>2, <1>3, <1>4, <1>5, <1>6 DEF Boot

LEMMA FlusherServes ==
  ASSUME TypeOK, FlusherInv, NEW p \in Servers, Serve(p)
  PROVE  FlusherInv'
  <1>0. FlusherOf(p)
    BY DEF FlusherInv
  <1>1. CASE Announce(p)
    BY <1>1 DEF Announce, OnlyServing, FlusherInv, FlusherOf, Queued, Buffered, EarlierCallsAreFlushed
  <1>2. CASE Record(p)
    <2> DEFINE n == Min(New)
    <2>1. n \in Entries /\ where[n] = At("none")
      BY <1>2, Bounds, MinIsLeast DEF Record, New, Entries
    <2>2. UNCHANGED <<pc, cancelled, flusher, writing>> /\ pc[p] = "serving"
      BY <1>2 DEF Record, OnlyServing
    <2>3. /\ \A e \in Entries : e # n => where'[e] = where[e]
          /\ \/ where'[n] = At("gone")
             \/ where'[n] = [at |-> "queued", by |-> p, late |-> cancelled[p]]
      BY <1>2, <2>1 DEF Record, TypeOK
    <2>4. FlusherOf(p)'
      BY <1>0, <2>1, <2>2, <2>3, NoneIsNone DEF FlusherOf, Queued, Buffered, At
    <2> QED
      BY <2>1, <2>2, <2>3, <2>4, FlusherFrame DEF At
  <1>3. CASE RecordAfterClose(p)
    BY <1>3, FlusherGone DEF RecordAfterClose
  <1>4. CASE Cancel(p)
    <2>1. /\ UNCHANGED <<pc, where, flusher, writing>> /\ cancelled' = [cancelled EXCEPT ![p] = TRUE]
      BY <1>4 DEF Cancel, OnlyServing
    <2>2. FlusherOf(p)'
      BY <1>0, <2>1 DEF FlusherOf, Queued, Buffered, TypeOK
    <2> QED
      BY <2>1, <2>2, FlusherFrame DEF TypeOK
  <1>5. CASE Close(p)
    <2>1. UNCHANGED <<cancelled, where, flusher, writing>> /\ pc' = [pc EXCEPT ![p] = "closing"]
      BY <1>5 DEF Close, Goto, OnlyServing
    <2>2. FlusherOf(p)'
      BY <1>0, <2>1 DEF FlusherOf, Queued, Buffered, TypeOK
    <2> QED
      BY <2>1, <2>2, FlusherFrame DEF TypeOK
  <1> QED
    BY <1>1, <1>2, <1>3, <1>4, <1>5 DEF Serve

LEMMA FlusherFlushes ==
  ASSUME TypeOK, FlusherInv, NEW p \in Servers, Flush(p)
  PROVE  FlusherInv'
  <1>0. FlusherOf(p) /\ pc' = pc /\ cancelled' = cancelled
    BY DEF FlusherInv, Flush, Take, Tick, SeeCancel, FinishFlusher, WriteBatch, WriteFails, OnlyFlusher
  <1>1. CASE Take(p)
    <2> DEFINE n == Min(Queued(p))
    <2>1. n \in Queued(p)
      BY <1>1, Bounds, MinIsLeast DEF Take, Queued, Entries
    <2>2. /\ where' = [where EXCEPT ![n] = [where[n] EXCEPT !.at = "buffered"]]
          /\ flusher' = flusher /\ flusher[p] \in {"run", "drain"} /\ pc[p] # "down"
          /\ \A q \in Servers \ {p} : writing'[q] = writing[q]
      BY <1>0, <1>1 DEF Take, TypeOK, FlusherOf
    <2>3. FlusherOf(p)'
      BY <1>0, <2>2 DEF FlusherOf
    <2>4. \A e \in Entries :
             \/ where'[e] = where[e]
             \/ where[e].by = p /\ where'[e].by = p /\ where'[e].at = "buffered"
      BY <2>1, <2>2 DEF Queued, TypeOK, Places
    <2> QED
      BY <1>0, <2>2, <2>3, <2>4, FlusherFrame
  <1>2. CASE Tick(p) \/ SeeCancel(p)
    <2>1. /\ where' = where /\ flusher[p] = "run"
          /\ \A q \in Servers \ {p} : flusher'[q] = flusher[q] /\ writing'[q] = writing[q]
          /\ flusher'[p] \in {"run", "drain"} /\ (flusher'[p] = "drain" => cancelled[p])
      BY <1>2 DEF Tick, SeeCancel, TypeOK
    <2>2. FlusherOf(p)'
      BY <1>0, <2>1 DEF FlusherOf
    <2> QED
      BY <1>0, <2>1, <2>2, FlusherFrame
  <1>3. CASE FinishFlusher(p)
    <2>1. /\ where' = where /\ flusher[p] \in {"run", "drain"} /\ Queued(p) = {}
          /\ flusher[p] = "drain" \/ pc[p] = "closing"
          /\ \A q \in Servers \ {p} : flusher'[q] = flusher[q] /\ writing'[q] = writing[q]
          /\ flusher'[p] = IF Buffered(p) = {} THEN "done" ELSE "last"
      BY <1>3 DEF FinishFlusher, Drained, TypeOK
    <2>2. Queued(p)' = Queued(p) /\ Buffered(p)' = Buffered(p)
      BY <2>1 DEF Queued, Buffered
    <2>3. FlusherOf(p)'
      BY <1>0, <2>1, <2>2 DEF FlusherOf
    <2> QED
      BY <1>0, <2>1, <2>3, FlusherFrame
  <1>4. CASE WriteBatch(p) \/ WriteFails(p)
    <2>1. /\ where' = [e \in Entries |-> IF e \in Buffered(p) THEN At("gone") ELSE where[e]]
          /\ writing' = [writing EXCEPT ![p] = FALSE] /\ writing[p]
          /\ flusher' = [flusher EXCEPT ![p] = IF @ = "last" THEN "done" ELSE @]
      BY <1>4 DEF WriteBatch, WriteFails, EndBatch
    <2>2. Buffered(p)' = {} /\ Queued(p)' = Queued(p) /\ \A e \in Queued(p) : where'[e] = where[e]
      BY <2>1 DEF Buffered, Queued, At
    <2>3. FlusherOf(p)'
      BY <1>0, <2>1, <2>2 DEF FlusherOf, TypeOK
    <2>4. \A e \in Entries : where'[e] = where[e] \/ (where[e].by = p /\ where'[e] = At("gone"))
      BY <2>1 DEF Buffered
    <2> QED
      BY <1>0, <2>1, <2>3, <2>4, FlusherFrame DEF TypeOK, At
  <1> QED
    BY <1>1, <1>2, <1>3, <1>4 DEF Flush

LEMMA FlusherStep ==
  ASSUME TypeOK, FlusherInv, [Next]_vars
  PROVE  FlusherInv'
  <1>1. ASSUME NEW p \in Servers, Exit(p) PROVE FlusherInv'
    <2>1. \A e \in Held(p) : where[e].late /\ where[e].by = p
      BY <1>1 DEF Exit, Held, FlusherInv, FlusherOf, Queued, Buffered
    <2>2. \A e \in Entries :
             \/ where'[e] = where[e]
             \/ where[e].by = p /\ where'[e].by = None /\ where'[e].late
      <3>1. ASSUME NEW e \in Entries
            PROVE  /\ [where[e] EXCEPT !.at = "left", !.by = None].by = None
                   /\ [where[e] EXCEPT !.at = "left", !.by = None].late = where[e].late
        <4>1. where[e] \in Places
          BY DEF TypeOK
        <4> QED
          BY <4>1 DEF Places
      <3> QED
        BY <1>1, <2>1, <3>1 DEF Exit
    <2> QED
      BY <1>1, <2>2, FlusherDown DEF Exit
  <1>2. ASSUME NEW p \in Servers, Die(p) PROVE FlusherInv'
    BY <1>2, FlusherGone DEF Die
  <1>3. CASE UNCHANGED vars
    BY <1>3 DEF vars, db, boot, telemetry, FlusherInv, FlusherOf, Queued, Buffered,
                EarlierCallsAreFlushed
  <1> QED
    BY <1>1, <1>2, <1>3, FlusherBoot, FlusherServes, FlusherFlushes DEF Next

-----------------------------------------------------------------------------
LEMMA InitInv == Init => IInv
  <1> SUFFICES ASSUME Init PROVE IInv
    OBVIOUS
  <1>1. LedgerInv
    BY DEF Init, LedgerInv, LedgerOf, Migrated
  <1>2. VersionInv
    BY DEF Init, VersionInv
  <1>3. FlusherInv
    BY DEF Init, FlusherInv, FlusherOf, Queued, Buffered, EarlierCallsAreFlushed, At
  <1> QED
    BY <1>1, <1>2, <1>3, InitTypeOK DEF IInv

LEMMA StepInv == IInv /\ [Next]_vars => IInv'
  BY StepType, LedgerStep, VersionStep, FlusherStep DEF IInv

LEMMA ServerInvariant == Spec => []IInv
  BY InitInv, StepInv, PTL DEF Spec

\* The tables, locks and variables of all servers keep their types.
THEOREM ServerTypeCorrect == Spec => []TypeOK
  BY ServerInvariant, PTL DEF IInv

\* Whatever servers boot together or die in the middle, a migration runs as
\* often as the ledger says, and who serves has the schema of its binary.
THEOREM SchemaMigrated == Spec => []SchemaIsMigrated
  <1>1. IInv => SchemaIsMigrated
    BY DEF IInv, LedgerInv, LedgerOf, SchemaIsMigrated
  <1> QED
    BY <1>1, ServerInvariant, PTL

\* Before a clean exit telemetry has written, or given up, all it took while
\* the server was not told to stop.
THEOREM EarlierCallsFlushed == Spec => []EarlierCallsAreFlushed
  BY ServerInvariant, PTL DEF IInv, FlusherInv

LEMMA NoticeStep ==
  ASSUME TypeOK, LedgerInv, VersionInv, [Next]_vars, NEW p \in Servers,
         notice[p] = "none", notice'[p] # "none"
  PROVE  /\ stored' = Current(p) /\ stored # Current(p)
         /\ stored # None => previous[p] = stored
         /\ \A q \in Servers \ {p} : notice'[q] = notice[q]
  <1>1. SaveVersion(p)
    <2>1. notice' # notice
      OBVIOUS
    <2>2. PICK q \in Servers :
             Start(q) \/ Boot(q) \/ RecordingFails(q) \/ Serve(q) \/ Flush(q) \/ Exit(q) \/ Die(q)
      BY <2>1 DEF Next, vars
    <2>3. ~Down(q)
      BY DEF Down, TypeOK
    <2>4. ~Start(q) /\ ~RecordingFails(q)
      BY <2>1 DEF Start, RecordingFails
    <2>5. ~Serve(q)
      BY <2>1, <2>3 DEF Serve, Announce, Record, RecordAfterClose, Gone, Cancel, Close, TypeOK
    <2>6. ~Flush(q)
      BY <2>1 DEF Flush, Take, Tick, SeeCancel, FinishFlusher, WriteBatch, WriteFails, OnlyFlusher
    <2>7. ~Exit(q) /\ ~Die(q)
      BY <2>3 DEF Exit, Die, Gone
    <2>8. Boot(q) => SaveVersion(q)
      BY <2>1, <2>3
      DEF Boot, AcquireLock, ReadLedger, Skip, Backfill, Refuse, RunUp, RecordMigration, FinishMigrate,
          SelectVersion, ReadLastCall, InsertVersion, Gone, Migrating
    <2>9. SaveVersion(q) => q = p
      BY DEF SaveVersion, TypeOK
    <2> QED
      BY <2>2, <2>4, <2>5, <2>6, <2>7, <2>8, <2>9
  <1>2. previous[p] # None /\ previous[p] # Current(p) /\ stored' = Current(p)
    BY <1>1 DEF SaveVersion, ShouldNotify, TypeOK
  <1>3. (stored # None => previous[p] = stored) /\ Current(p) # None
    BY <1>1, KnownType DEF SaveVersion, VersionInv
  <1>4. \A q \in Servers \ {p} : notice'[q] = notice[q]
    BY <1>1 DEF SaveVersion, TypeOK
  <1>5. stored # Current(p)
    BY <1>2, <1>3
  <1> QED
    BY <1>2, <1>3, <1>4, <1>5

\* Of all servers that find the same change of the toolset's version, one
\* announces it, and it has stored what it announces.
THEOREM NoticedOnce == Spec => ChangeNoticedOnce
  <1>1. IInv /\ [Next]_vars =>
          [\A p \in Servers :
             notice[p] = "none" /\ notice'[p] # "none" =>
               /\ stored' = Current(p)
               /\ stored # Current(p)
               /\ stored # None => previous[p] = stored
               /\ \A q \in Servers \ {p} : notice'[q] = notice[q]]_vars
    BY NoticeStep DEF IInv
  <1> QED
    BY <1>1, ServerInvariant, PTL DEF Spec, ChangeNoticedOnce

-----------------------------------------------------------------------------
(* Locks: who holds one is between the statement that took it and the one   *)
(* that gives it back, and waits for none.                                  *)

LocksHeld ==
    /\ lock # None => pc[lock] \in {"read", "migrate", "record"}
    /\ rowLock # None => pc[rowLock] = "save"

\* q has the lock p's statement needs.
WaitsFor(p, q) ==
    \/ pc[p] = "lock" /\ lock = q
    \/ rowLock = q /\ (pc[p] = "insert" \/ (pc[p] = "version" /\ stored # None))

HoldersGoOn ==
    \A p, q, r \in Servers :
        WaitsFor(p, q) => pc[q] \in {"read", "migrate", "record", "save"} /\ ~WaitsFor(q, r)

\* A server that waits takes no step of its boot.
LEMMA WaitersStay ==
  ASSUME NEW p \in Servers, NEW q \in Servers, Boot(p)
  PROVE  ~WaitsFor(p, q)
  BY NoneIsNone DEF WaitsFor, Boot, AcquireLock, ReadLedger, Skip, Backfill, Refuse, AtNext, RunUp,
     RecordMigration, FinishMigrate, SelectVersion, RowFree, ReadLastCall, InsertVersion, SaveVersion

LEMMA LocksFrame ==
  ASSUME TypeOK, LocksHeld, NEW p \in Servers,
         \A q \in Servers \ {p} : pc'[q] = pc[q],
         lock' \in {lock, None, p}, rowLock' \in {rowLock, None, p},
         lock' = p => pc'[p] \in {"read", "migrate", "record"},
         rowLock' = p => pc'[p] = "save"
  PROVE  LocksHeld'
  BY DEF LocksHeld, TypeOK

LEMMA LocksDown ==
  ASSUME TypeOK, LocksHeld, NEW p \in Servers, Down(p)
  PROVE  LocksHeld'
  <1>1. /\ \A q \in Servers \ {p} : pc'[q] = pc[q]
        /\ lock' \in {lock, None} /\ lock' # p /\ rowLock' \in {rowLock, None} /\ rowLock' # p
    BY NoneIsNone DEF Down, Goto, TypeOK
  <1> QED
    BY <1>1, LocksFrame

LEMMA LocksStep ==
  ASSUME TypeOK, LocksHeld, [Next]_vars
  PROVE  LocksHeld'
  <1>0. pc \in [Servers -> PCs] /\ None \notin Servers
    BY NoneIsNone DEF TypeOK
  <1>1. ASSUME NEW p \in Servers, Refuse(p) \/ RecordAfterClose(p) \/ Exit(p) \/ Die(p)
        PROVE  LocksHeld'
    BY <1>1, LocksDown DEF Refuse, RecordAfterClose, Exit, Die, Gone
  <1>2. ASSUME NEW p \in Servers, RecordMigration(p) PROVE LocksHeld'
    <2>1. CASE ledger[next[p]] # None
      BY <1>2, <2>1, LocksDown DEF RecordMigration, Gone
    <2>2. CASE ledger[next[p]] = None
      <3>1. /\ UNCHANGED <<lock, rowLock>> /\ pc[p] = "record" /\ pc'[p] = "migrate"
            /\ \A q \in Servers \ {p} : pc'[q] = pc[q]
        BY <1>0, <1>2, <2>2 DEF RecordMigration, Migrating, Goto
      <3> QED
        BY <1>0, <3>1, LocksFrame DEF LocksHeld
    <2> QED
      BY <2>1, <2>2
  <1>3. ASSUME NEW p \in Servers, AcquireLock(p) \/ ReadLedger(p) \/ RunUp(p) \/ FinishMigrate(p)
        PROVE  LocksHeld'
    <2>1. /\ rowLock' = rowLock /\ pc[p] # "save" /\ lock' \in {lock, None, p}
          /\ pc'[p] \in {"read", "migrate", "record"} \/ lock' = None
          /\ \A q \in Servers \ {p} : pc'[q] = pc[q]
      BY <1>0, <1>3 DEF AcquireLock, ReadLedger, RunUp, FinishMigrate, Unlocked, AtNext, Migrating,
         Goto
    <2> QED
      BY <1>0, <2>1, LocksFrame DEF LocksHeld
  <1>4. ASSUME NEW p \in Servers,
               Skip(p) \/ Backfill(p) \/ Flush(p) \/ Announce(p) \/ Record(p) \/ Cancel(p)
        PROVE  LocksHeld'
    <2>1. UNCHANGED <<pc, lock, rowLock>>
      BY <1>4 DEF Skip, Backfill, Migrating, Flush, Take, Tick, SeeCancel, FinishFlusher, WriteBatch,
                  WriteFails, OnlyFlusher, Announce, Record, Cancel, OnlyServing, db, boot
    <2> QED
      BY <2>1 DEF LocksHeld
  <1>5. ASSUME NEW p \in Servers, Start(p) \/ Close(p) \/ ReadLastCall(p) PROVE LocksHeld'
    <2>1. /\ UNCHANGED <<lock, rowLock>> /\ pc[p] \in {"down", "serving", "last_call"}
          /\ \A q \in Servers \ {p} : pc'[q] = pc[q]
      BY <1>0, <1>5 DEF Start, Close, ReadLastCall, Recording, OnlyServing, db, Goto
    <2> QED
      BY <1>0, <2>1, LocksFrame DEF LocksHeld
  <1>6. ASSUME NEW p \in Servers,
               SelectVersion(p) \/ InsertVersion(p) \/ SaveVersion(p) \/ RecordingFails(p)
        PROVE  LocksHeld'
    <2>1. /\ lock' = lock /\ pc[p] \in {"version", "last_call", "insert", "save"}
          /\ \A q \in Servers \ {p} : pc'[q] = pc[q]
      BY <1>0, <1>6 DEF SelectVersion, InsertVersion, SaveVersion, RecordingFails, Recording, Goto
    <2>2. /\ rowLock' \in {rowLock, None, p}
          /\ rowLock' = p => pc'[p] = "save" \/ (rowLock = p /\ pc[p] # "save")
      BY <1>0, <1>6 DEF SelectVersion, RowFree, InsertVersion, SaveVersion, RecordingFails, Goto
    <2> QED
      BY <1>0, <2>1, <2>2, LocksFrame DEF LocksHeld
  <1>7. CASE UNCHANGED vars
    BY <1>7 DEF vars, db, LocksHeld
  <1> QED
    BY <1>1, <1>2, <1>3, <1>4, <1>5, <1>6, <1>7 DEF Next, Boot, Serve

\* However servers boot together, die or are stopped, a lock is never left with a
\* server that is down, serves or waits: whoever waits for one gets its turn.
THEOREM LocksComeBack == Spec => []HoldersGoOn
  <1>1. Init => LocksHeld
    BY DEF Init, LocksHeld
  <1>2. IInv /\ LocksHeld /\ [Next]_vars => LocksHeld'
    BY LocksStep DEF IInv
  <1>3. LocksHeld => HoldersGoOn
    <2> SUFFICES ASSUME LocksHeld, NEW p \in Servers, NEW q \in Servers, NEW r \in Servers,
                        WaitsFor(p, q)
                 PROVE  pc[q] \in {"read", "migrate", "record", "save"} /\ ~WaitsFor(q, r)
      BY DEF HoldersGoOn
    <2> QED
      BY NoneIsNone DEF LocksHeld, WaitsFor
  <1> QED
    BY <1>1, <1>2, <1>3, ServerInvariant, PTL DEF Spec

=============================================================================
