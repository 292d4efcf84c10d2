------------------------------ MODULE SqlStore -----------------------------
(***************************************************************************)
(* The SQL op stores (server/storage/sqlite.ts, postgres.ts) under several *)
(* server instances: the conditional and the plain write of a row and its  *)
(* op-log entry, the reservation of op ids and its retention sweep, and    *)
(* the lock that runCompaction takes around moving the cutoff.             *)
(*                                                                         *)
(* A query of bun:sqlite returns in the turn that asked; one of Postgres   *)
(* is a round trip, so other instances act between any two of them.  An    *)
(* op's number is its HLC, and the clock counts in the same unit.          *)
(***************************************************************************)
EXTENDS Naturals, FiniteSets

CONSTANTS
  Hosts,       \* server instances
  StoreOps,    \* the ops clients send
  StoreRows,
  Merged,      \* rows of queries whose conflict option is an object: applyOpIf
  Dialects,    \* the databases: "sqlite", "postgres"
  PoolConns,   \* connections an instance's Postgres client picks from
  LockTtl,     \* sqlite: how old a lock row is when it may be taken over (60 s)
  Retention,   \* OP_ID_RETENTION_MS
  WriteAttempts, \* MAX_WRITE_ATTEMPTS
  StoreBounds  \* [sends, ticks, crashes, faults, sweeps |-> ...]: how often each happens

ASSUME SqlStoreAssumption ==
  /\ StoreOps \subseteq Nat \ {0} /\ Merged \subseteq StoreRows
  /\ Dialects \subseteq {"sqlite", "postgres"} /\ PoolConns # {}
  /\ {LockTtl, Retention} \subseteq Nat /\ WriteAttempts \in Nat \ {0}
  /\ \A b \in StoreBounds : \A k \in {"sends", "ticks", "crashes", "faults", "sweeps"} : b[k] \in Nat

VARIABLES
  dialect,
  schema,    \* host -> whether its ensureSchema has run, or failed for good
  tableRows, \* row -> [hlc, edits]: 0 and nothing when there is no row
  opLog,     \* the entries: [row, hlc]
  reserved,  \* op -> when its id was stored; 0 when it is not
  lock,      \* the advisory lock or the lock row: [at, by, conn, deep], at = 0 when free
  cut,       \* the compaction cutoff: the stored one, and the one each host knows
  clock,
  opOf,      \* op -> what its client made it: the same at every retry
  doing,     \* host -> the batch it works on
  sweeping,  \* host -> how far its runCompaction is
  storeLeft, \* what is left of the bounds
  made,      \* history: row -> what every write that was accepted amounts to
  freshAt,   \* history: op -> when it was last answered fresh
  again,     \* history: ops that were answered fresh more than once
  gone,      \* history: entries that were deleted
  orphan,    \* history: the lock is that of a host that died, or unlocked elsewhere
  overran   \* history: a compaction outlived its lock

workVars  == <<opOf, doing>>
lockVars  == <<lock, cut, sweeping, orphan, overran>>
tableVars == <<tableRows, opLog, reserved>>
storeVars == <<dialect, schema, tableVars, lockVars, clock, workVars, storeLeft, made, freshAt,
               again, gone>>

NoRow    == [hlc |-> 0, edits |-> {}]
RowState == [hlc : {0} \cup StoreOps, edits : SUBSET StoreOps]
FreeLock == [at |-> 0, by |-> "nobody", conn |-> 0, deep |-> 0]
Nothing  == [ops |-> {}, stage |-> "idle", read |-> [r \in StoreRows |-> NoRow], lost |-> 0]
Unsent   == [row |-> "none", kind |-> "none"]
NotSweeping     == [stage |-> "no", conn |-> 0, to |-> 0]
RowOf(o) == opOf[o].row
SpendStore(k) == storeLeft[k] > 0 /\ storeLeft' = [storeLeft EXCEPT ![k] = @ - 1]

Batches == [ops : SUBSET StoreOps, stage : {"idle", "prefetch", "read", "write"},
            read : [StoreRows -> RowState], lost : 0..WriteAttempts - 1]
Sweeps  == [stage : {"no", "aim", "store", "delete", "unlock"}, conn : PoolConns \cup {0}, to : Nat]

StoreTypeOK ==
  /\ dialect \in Dialects
  /\ schema \in [Hosts -> {"none", "ready", "broken"}]
  /\ tableRows \in [StoreRows -> RowState] /\ made \in [StoreRows -> RowState]
  /\ opLog \subseteq [row : StoreRows, hlc : StoreOps] /\ gone \subseteq [row : StoreRows, hlc : StoreOps]
  /\ reserved \in [StoreOps -> Nat] /\ freshAt \in [StoreOps -> Nat] /\ again \subseteq StoreOps
  /\ lock \in [at : Nat, by : Hosts \cup {"nobody"}, conn : PoolConns \cup {0}, deep : Nat]
  /\ cut \in [stored : Nat, known : [Hosts -> Nat]]
  /\ opOf \in [StoreOps -> {Unsent} \cup [row : StoreRows, kind : {"put", "delete"}]]
  /\ doing \in [Hosts -> Batches] /\ \A h \in Hosts : doing[h].stage = "idle" <=> doing[h].ops = {}
  /\ sweeping \in [Hosts -> Sweeps]
  /\ clock \in Nat /\ {orphan, overran} \subseteq BOOLEAN

StoreInit ==
  /\ dialect \in Dialects
  /\ schema = [h \in Hosts |-> IF dialect = "sqlite" THEN "ready" ELSE "none"]
  /\ tableRows = [r \in StoreRows |-> NoRow] /\ made = tableRows
  /\ opLog = {} /\ gone = {} /\ again = {}
  /\ reserved = [o \in StoreOps |-> 0] /\ freshAt = reserved
  /\ lock = FreeLock /\ cut = [stored |-> 0, known |-> [h \in Hosts |-> 0]]
  /\ clock = 1
  /\ opOf = [o \in StoreOps |-> Unsent]
  /\ doing = [h \in Hosts |-> Nothing] /\ sweeping = [h \in Hosts |-> NotSweeping]
  /\ storeLeft \in StoreBounds
  /\ orphan = FALSE /\ overran = FALSE

-----------------------------------------------------------------------------
(* The schema.                                                             *)

\* ensureSchema, on the first call of an instance: createSqliteStorage has made the
\* tables before it returns; the promise of Postgres's is kept, also when it rejects.
EnsureSchema(h) ==
  /\ schema[h] = "none"
  /\ \/ schema' = [schema EXCEPT ![h] = "ready"] /\ UNCHANGED storeLeft
     \/ schema' = [schema EXCEPT ![h] = "broken"] /\ SpendStore("faults")
  /\ UNCHANGED <<dialect, tableVars, lockVars, clock, workVars, made, freshAt, again, gone>>

-----------------------------------------------------------------------------
(* A batch of ops (prefetchBatch, processConsistentOp).                    *)

\* A client sends ops, or sends them again, to some instance: they were stamped before.
Send(h, ops) ==
  /\ schema[h] = "ready" /\ doing[h].stage = "idle" /\ SpendStore("sends")
  /\ \A o \in ops : o <= clock + 1
  /\ opOf' \in [StoreOps -> {Unsent} \cup [row : StoreRows, kind : {"put", "delete"}]]
  /\ \A o \in StoreOps :
       IF o \in ops THEN opOf'[o] # Unsent /\ (opOf[o] = Unsent \/ opOf'[o] = opOf[o])
                    ELSE opOf'[o] = opOf[o]
  /\ doing' = [doing EXCEPT ![h] = [Nothing EXCEPT !.stage = "prefetch", !.ops = ops]]
  /\ UNCHANGED <<dialect, schema, tableVars, lockVars, clock, made, freshAt, again, gone>>

Kept(at) == at # 0 /\ at >= (IF clock > Retention THEN clock - Retention ELSE 0)

\* INSERT ... ON CONFLICT (op_id) DO NOTHING: the ids that were not there.
FreshOf(ops) == {o \in ops : reserved[o] = 0}

\* The retention sweep, which one call in a hundred makes.
SweptIds(r) == [o \in StoreOps |-> IF Kept(r[o]) THEN r[o] ELSE 0]

\* reserveOps, and then getRowsByIds for the fresh ones: the rows the batch starts from.
ReserveOps(h) ==
  /\ doing[h].stage = "prefetch"
  /\ LET fresh  == FreshOf(doing[h].ops)
         stored == [o \in StoreOps |-> IF o \in fresh THEN clock ELSE reserved[o]]
     IN /\ reserved' \in {stored, SweptIds(stored)}
        /\ freshAt' = [o \in StoreOps |-> IF o \in fresh THEN clock ELSE freshAt[o]]
        /\ again' = again \cup {o \in fresh : freshAt[o] # 0}
        /\ doing' = [doing EXCEPT ![h] = [@ EXCEPT !.ops = fresh,
                                                   !.stage = IF fresh = {} THEN "idle" ELSE "read"]]
  /\ UNCHANGED <<dialect, schema, tableRows, opLog, lockVars, clock, opOf, storeLeft, made, gone>>

HasRead(h, rows) == [doing EXCEPT ![h] = [@ EXCEPT !.read = rows, !.stage = "write"]]

\* getRowsByIds of the whole batch; the rows of a batch are written only by its own
\* instance's ops and by other instances.
ReadRows(h) ==
  /\ doing[h].stage = "read" /\ doing[h].lost = 0
  /\ doing' = HasRead(h, [r \in StoreRows |->
                            IF \E o \in doing[h].ops : RowOf(o) = r THEN tableRows[r] ELSE NoRow])
  /\ UNCHANGED <<dialect, schema, tableVars, lockVars, clock, opOf, storeLeft, made, freshAt, again, gone>>

\* A batch is worked through in the order its client stamped it.
IsNext(h, o) == o \in doing[h].ops /\ \A q \in doing[h].ops : o <= q

\* getRow again, after a lost race.
ReadRowAgain(h) ==
  /\ doing[h].stage = "read" /\ doing[h].lost > 0
  /\ \E o \in doing[h].ops :
       /\ IsNext(h, o)
       /\ doing' = HasRead(h, [doing[h].read EXCEPT ![RowOf(o)] = tableRows[RowOf(o)]])
  /\ UNCHANGED <<dialect, schema, tableVars, lockVars, clock, opOf, storeLeft, made, freshAt, again, gone>>

\* processOp: a put merges, a delete wins when it is newer than the row it read; a
\* query without a merge policy takes whatever is newer.
Overwrites(o, was) == was.hlc = 0 \/ o > was.hlc \/ (opOf[o].kind = "put" /\ RowOf(o) \in Merged)
Became(o, was) ==
  IF opOf[o].kind = "delete" THEN NoRow
  ELSE [hlc |-> o, edits |-> {o} \cup (IF RowOf(o) \in Merged THEN was.edits ELSE {})]

\* The op is done with, and the batch keeps what it wrote (recordBatchWrite).
OpDone(h, o, left) ==
  [doing EXCEPT ![h] = [ops |-> @.ops \ {o}, stage |-> IF @.ops = {o} THEN "idle" ELSE "write",
                        read |-> [@.read EXCEPT ![RowOf(o)] = left], lost |-> 0]]

\* The row and its entry, in one transaction or one statement.
ApplyOp(o, was) ==
  /\ tableRows' = [tableRows EXCEPT ![RowOf(o)] = Became(o, was)]
  /\ opLog' = opLog \cup {[row |-> RowOf(o), hlc |-> o]}
  /\ made' = [made EXCEPT ![RowOf(o)] = Became(o, made[RowOf(o)])]

\* mutant: the row's hlc is not compared
WonAnyway(o, was) == TRUE

\* applyOpIf's condition.  Postgres deletes `WHERE hlc = $7`: no row is equal to a
\* missing one, and a delete of none finds none to return.
Won(o, was) ==
  /\ tableRows[RowOf(o)].hlc = was.hlc
  /\ dialect = "postgres" /\ opOf[o].kind = "delete" => was.hlc # 0

WriteRow(h, o) ==
  /\ doing[h].stage = "write" /\ IsNext(h, o)
  /\ LET was == doing[h].read[RowOf(o)]
     IN \/ /\ ~Overwrites(o, was)
           /\ doing' = OpDone(h, o, was)
           /\ UNCHANGED <<tableRows, opLog, made>>
        \/ /\ Overwrites(o, was) /\ (RowOf(o) \in Merged => Won(o, was))
           /\ ApplyOp(o, was) /\ doing' = OpDone(h, o, Became(o, was))
        \/ /\ Overwrites(o, was) /\ RowOf(o) \in Merged /\ ~Won(o, was)
           /\ doing' = IF doing[h].lost + 1 = WriteAttempts THEN OpDone(h, o, was)
                       ELSE [doing EXCEPT ![h] = [@ EXCEPT !.lost = doing[h].lost + 1, !.stage = "read"]]
           /\ UNCHANGED <<tableRows, opLog, made>>
  /\ UNCHANGED <<dialect, schema, reserved, lockVars, clock, opOf, storeLeft, freshAt, again, gone>>

-----------------------------------------------------------------------------
(* The lock and what runCompaction does under it.                          *)

\* tryLock.  sqlite: a row with the time, taken over when it is too old.  Postgres: a
\* lock of the session, which the connection that holds it is given once more.
MayLock(h, c) ==
  \/ lock.at = 0
  \/ dialect = "sqlite" /\ lock.at + LockTtl < clock
  \/ dialect = "postgres" /\ lock.by = h /\ lock.conn = c

TryLock(h, c) ==
  /\ schema[h] = "ready" /\ sweeping[h].stage = "no" /\ SpendStore("sweeps")
  /\ IF MayLock(h, c)
     THEN /\ lock' = [at |-> clock, by |-> h, conn |-> c,
                      deep |-> IF dialect = "sqlite" THEN 1 ELSE lock.deep + 1]
          /\ orphan' = FALSE
          /\ sweeping' = [sweeping EXCEPT ![h] = [stage |-> "aim", conn |-> c, to |-> 0]]
     ELSE UNCHANGED <<lock, orphan, sweeping>>
  /\ UNCHANGED <<dialect, schema, tableVars, cut, overran, clock, workVars, made, freshAt, again, gone>>

\* ensureCutoffLoaded reads the stored cutoff once in the life of an instance.
Known(h) == IF cut.known[h] = 0 THEN cut.stored ELSE cut.known[h]

\* A cutoff above the one known, kept in memory at once.  sqlite has it stored in the
\* same turn.
Aim(h) ==
  /\ sweeping[h].stage = "aim"
  /\ IF clock <= Known(h)
     THEN /\ sweeping' = [sweeping EXCEPT ![h].stage = "unlock"]
          /\ cut' = [cut EXCEPT !.known[h] = Known(h)]
     ELSE /\ sweeping' = [sweeping EXCEPT ![h].to = clock,
                            ![h].stage = IF dialect = "sqlite" THEN "delete" ELSE "store"]
          /\ cut' = [cut EXCEPT !.known[h] = clock,
                                !.stored = IF dialect = "sqlite" THEN clock ELSE @]
  /\ UNCHANGED <<dialect, schema, tableVars, lock, orphan, overran, clock, workVars, storeLeft,
                 made, freshAt, again, gone>>

\* setMeta.
StoreCutoff(h) ==
  /\ sweeping[h].stage = "store"
  /\ cut' = [cut EXCEPT !.stored = sweeping[h].to]
  /\ sweeping' = [sweeping EXCEPT ![h].stage = "delete"]
  /\ UNCHANGED <<dialect, schema, tableVars, lock, orphan, overran, clock, workVars, storeLeft,
                 made, freshAt, again, gone>>

OpsBefore(at) == {e \in opLog : e.hlc < at}

\* deleteOpsBefore.
DeleteOpsBefore(h) ==
  /\ sweeping[h].stage = "delete"
  /\ opLog' = opLog \ OpsBefore(sweeping[h].to)
  /\ gone' = gone \cup OpsBefore(sweeping[h].to)
  /\ sweeping' = [sweeping EXCEPT ![h].stage = "unlock"]
  /\ UNCHANGED <<dialect, schema, tableRows, reserved, lock, cut, orphan, overran, clock, workVars,
                 storeLeft, made, freshAt, again>>

\* unlock.  sqlite deletes the row, whoever wrote it; Postgres lets go once of a lock of
\* the connection it is asked on, and of no other's.
Unlocked(h, c) ==
  IF dialect = "sqlite" THEN FreeLock
  ELSE IF lock.by # h \/ lock.conn # c THEN lock
  ELSE IF lock.deep = 1 THEN FreeLock ELSE [lock EXCEPT !.deep = @ - 1]

Unlock(h, c) ==
  /\ sweeping[h].stage = "unlock"
  /\ lock' = Unlocked(h, c) /\ orphan' = (lock'.at # 0)
  /\ sweeping' = [sweeping EXCEPT ![h] = NotSweeping]
  /\ UNCHANGED <<dialect, schema, tableVars, cut, overran, clock, workVars, storeLeft, made,
                 freshAt, again, gone>>

-----------------------------------------------------------------------------
\* Time passes; a compaction may take longer than its lock lasts.
Tick ==
  /\ SpendStore("ticks") /\ clock' = clock + 1
  /\ overran' = (overran \/ /\ dialect = "sqlite" /\ lock.at # 0 /\ lock.at + LockTtl < clock + 1
                            /\ \E h \in Hosts : sweeping[h].stage # "no")
  /\ UNCHANGED <<dialect, schema, tableVars, lock, cut, sweeping, orphan, workVars, made, freshAt, again,
                 gone>>

\* An instance dies, with the Postgres session of its connections, and is started again.
StoreCrash(h) ==
  /\ SpendStore("crashes")
  /\ doing' = [doing EXCEPT ![h] = Nothing] /\ sweeping' = [sweeping EXCEPT ![h] = NotSweeping]
  /\ schema' = [schema EXCEPT ![h] = IF dialect = "sqlite" THEN "ready" ELSE "none"]
  /\ cut' = [cut EXCEPT !.known[h] = 0]
  /\ lock' = IF dialect = "postgres" /\ lock.by = h THEN FreeLock ELSE lock
  /\ orphan' = (lock'.at # 0 /\ (orphan \/ (sweeping[h].stage # "no" /\ lock.by = h)))
  /\ UNCHANGED <<dialect, tableVars, overran, clock, opOf, made, freshAt, again, gone>>

StoreNext ==
  \/ \E h \in Hosts :
       \/ EnsureSchema(h) \/ ReserveOps(h) \/ ReadRows(h) \/ ReadRowAgain(h)
       \/ (\E o \in doing[h].ops : WriteRow(h, o))
       \/ (\E ops \in (SUBSET StoreOps) \ {{}} : Send(h, ops))
       \/ (\E c \in PoolConns : TryLock(h, c) \/ Unlock(h, c))
       \/ Aim(h) \/ StoreCutoff(h) \/ DeleteOpsBefore(h) \/ StoreCrash(h)
  \/ Tick

StoreSpec == StoreInit /\ [][StoreNext]_storeVars

-----------------------------------------------------------------------------
\* A row of a merging query is what its accepted writes amount to, one after the
\* other, whichever instances they came through: none is decided on a row that
\* another has replaced since (applyOpIf, MAX_WRITE_ATTEMPTS).  The condition is on the
\* HLC alone, so it takes that each names one write: no op of the row is made twice.
EditsSurvive ==
  \A r \in Merged : (\A o \in again : RowOf(o) # r) => tableRows[r] = made[r]

\* An op id is answered fresh a second time only when the first answer is older than
\* the retention (reserveOps and its sweep), however often and wherever it is retried.
FreshOncePerRetention ==
  [][\A o \in StoreOps : freshAt[o] # 0 /\ freshAt'[o] # freshAt[o] => clock > freshAt[o] + Retention]_storeVars

\* What is in a table is told of by the log or is below the stored cutoff, and so is
\* every entry that was deleted, whoever compacts: a client older than the cutoff is
\* refused rather than left short (applyOp, runCompaction under the lock).
LogTellsOfRows ==
  /\ \A r \in StoreRows : tableRows[r].hlc # 0 =>
       \/ [row |-> r, hlc |-> tableRows[r].hlc] \in opLog
       \/ tableRows[r].hlc < cut.stored
  /\ \A e \in gone : e.hlc < cut.stored

\* Two instances compact at once only after a compaction outlived its lock.
OneCompactor ==
  ~overran => Cardinality({h \in Hosts : sweeping[h].stage # "no"}) <= 1

\* When nobody compacts, whoever tries next gets the lock, unless a dead holder's row
\* still has time to run or a pool unlocked on another connection than it locked on.
LockComesBack ==
  (\A h \in Hosts : sweeping[h].stage = "no") => lock.at = 0 \/ orphan

\* The SQL stores: a merged row keeps the edits of both instances, the log tells
\* of every row, one instance at a time compacts, its lock comes back, and an op
\* id is taken for a new one once in a retention.
\* Each as stated above.
StoreHolds ==
  [](StoreTypeOK /\ EditsSurvive /\ LogTellsOfRows /\ OneCompactor /\ LockComesBack)
  /\ FreshOncePerRetention
=============================================================================
