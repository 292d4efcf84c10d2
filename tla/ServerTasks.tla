---------------------------- MODULE ServerTasks ----------------------------
(***************************************************************************)
(* What an application runs on its server beside the sync protocol         *)
(* (server/server.ts, typed-server.ts, handler.ts): work under             *)
(* server.lock and tryLock, write groups under server.tx, and requests of  *)
(* the REST handler, which go through applyServerOp.  All of them share    *)
(* one database handle, and every await lets the others go on.             *)
(*                                                                         *)
(* A row is the set of the tasks that wrote to it: the application's in    *)
(* `data', the sync layer's in `mirror', what subscribers hold in `seen'.  *)
(***************************************************************************)
EXTENDS Naturals, FiniteSets

CONSTANTS
  Tasks,      \* calls of lock, tryLock, tx and requests
  DataTables,
  TaskKeys,   \* lock keys
  IdemKeys,   \* Idempotency-Key headers
  TaskKinds   \* what the callers may ask for: functions from a caller to kinds of task

ASSUME ServerTasksAssumption ==
  TaskKinds \subseteq [Tasks -> SUBSET {"lock", "tryLock", "atomic", "bare", "rest"}]

NoTask == "none"
ASSUME NoTaskAssumption == NoTask \notin Tasks

VARIABLES
  job,      \* task -> [kind, stage, on: its lock key, tables left to write or notify, ...]
  waitsOn,  \* task -> the call whose promise its lock call is chained to
  chain,    \* lockChains: key -> the last call chained to it
  data, mirror, seen,
  begun,    \* the transaction open on the handle: [by, before]
  usedKeys, \* Idempotency-Keys reserveOpId has stored
  shut,     \* server.close() was called
  kinds,
  dirty,    \* history: tables a broadcast read in a transaction that was rolled back
  unsaid    \* history: tables a non-atomic group wrote before it threw

lockState == <<waitsOn, chain>>
rowState  == <<data, mirror, seen, begun, dirty, unsaid>>
taskVars  == <<job, lockState, rowState, usedKeys, shut, kinds>>

NotYet == [kind |-> "none", stage |-> "new", on |-> "none", left |-> {}, wrote |-> {}, was |-> {}]
NoTx   == [by |-> NoTask, before |-> [t \in DataTables |-> {}]]
Ended  == {"resolved", "rejected", "replayed", "skipped"}

TasksTypeOK ==
  /\ \A c \in Tasks :
       /\ job[c].kind \in {"none", "lock", "tryLock", "atomic", "bare", "rest"}
       /\ job[c].left \subseteq DataTables /\ job[c].wrote \subseteq DataTables
       /\ job[c].stage \in Ended \cup
            {"new", "queued", "running", "begin", "body", "commit", "rollback", "notify", "read",
             "execute", "log"}
       /\ job[c].stage = "notify" => job[c].left # {} \/ job[c].kind # "rest"
  /\ waitsOn \in [Tasks -> Tasks \cup {NoTask}] /\ chain \in [TaskKeys -> Tasks \cup {NoTask}]
  /\ \A k \in TaskKeys : chain[k] # NoTask => job[chain[k]].stage \in {"queued", "running"}
  /\ {data, mirror, seen} \subseteq [DataTables -> SUBSET Tasks]
  /\ begun.by # NoTask => job[begun.by].stage \in {"body", "commit", "rollback"}
  /\ usedKeys \subseteq IdemKeys /\ shut \in BOOLEAN
  /\ dirty \subseteq DataTables /\ unsaid \subseteq DataTables

TasksInit ==
  /\ job = [c \in Tasks |-> NotYet]
  /\ waitsOn = [c \in Tasks |-> NoTask] /\ chain = [k \in TaskKeys |-> NoTask]
  /\ data = [t \in DataTables |-> {}] /\ mirror = data /\ seen = data
  /\ begun = NoTx /\ usedKeys = {} /\ shut = FALSE
  /\ kinds \in TaskKinds
  /\ dirty = {} /\ unsaid = {}

Is(c, kind, stage) == job[c].kind = kind /\ job[c].stage = stage
Starts(c, kind, stage) ==
  /\ job[c].stage = "new" /\ kind \in kinds[c]
  /\ job' = [job EXCEPT ![c] = [NotYet EXCEPT !.kind = kind, !.stage = stage]]
Moves(c, stage) == job' = [job EXCEPT ![c].stage = stage]

-----------------------------------------------------------------------------
(* server.lock and server.tryLock.                                         *)

\* The call is chained to the last one of its key, if that is still there.
Chained(c, k) ==
  /\ waitsOn' = [waitsOn EXCEPT ![c] = chain[k]]
  /\ chain' = [chain EXCEPT ![k] = c]

CallLock(c, k) ==
  /\ job[c].stage = "new" /\ "lock" \in kinds[c]
  /\ job' = [job EXCEPT ![c] = [NotYet EXCEPT !.kind = "lock", !.stage = "queued", !.on = k]]
  /\ Chained(c, k)
  /\ UNCHANGED <<rowState, usedKeys, shut, kinds>>

\* A tick of server.interval that takes the lock if nobody has it: `null' otherwise.
TickTryLock(c, k) ==
  /\ ~shut /\ job[c].stage = "new" /\ "tryLock" \in kinds[c]
  /\ IF chain[k] = NoTask
     THEN /\ job' = [job EXCEPT ![c] = [NotYet EXCEPT !.kind = "tryLock", !.stage = "queued", !.on = k]]
          /\ Chained(c, k)
     ELSE /\ job' = [job EXCEPT ![c] = [NotYet EXCEPT !.kind = "tryLock", !.stage = "skipped"]]
          /\ UNCHANGED lockState
  /\ UNCHANGED <<rowState, usedKeys, shut, kinds>>

\* fn runs when the call before it has settled, either way.
RunLocked(c) ==
  /\ job[c].stage = "queued"
  /\ waitsOn[c] # NoTask => job[waitsOn[c]].stage \in Ended
  /\ Moves(c, "running")
  /\ UNCHANGED <<lockState, rowState, usedKeys, shut, kinds>>

\* mutant: whoever settles takes the entry of its key away
Forgets(c) == [chain EXCEPT ![job[c].on] = NoTask]

\* The entry goes with the call that is still the last of its chain.
LeavesChain(c) == [chain EXCEPT ![job[c].on] = IF @ = c THEN NoTask ELSE @]

EndLocked(c) ==
  /\ job[c].stage = "running"
  /\ \E end \in {"resolved", "rejected"} : Moves(c, end)
  /\ chain' = LeavesChain(c)
  /\ UNCHANGED <<waitsOn, rowState, usedKeys, shut, kinds>>

-----------------------------------------------------------------------------
(* server.tx.                                                              *)

CallTx(c, kind) ==
  /\ kind \in {"atomic", "bare"}
  /\ Starts(c, kind, IF kind = "atomic" THEN "begin" ELSE "body")
  /\ UNCHANGED <<lockState, rowState, usedKeys, shut, kinds>>

\* BEGIN on the shared handle: it fails when a transaction is open there, and then
\* the call rejects with nothing to roll back.
Begin(c) ==
  /\ Is(c, "atomic", "begin")
  /\ IF begun.by = NoTask
     THEN begun' = [by |-> c, before |-> data] /\ Moves(c, "body")
     ELSE UNCHANGED begun /\ Moves(c, "rejected")
  /\ UNCHANGED <<lockState, data, mirror, seen, dirty, unsaid, usedKeys, shut, kinds>>

\* A write of the body, which the proxy notes the table of.
BodyWrites(c, t) ==
  /\ job[c].stage = "body" /\ t \notin job[c].wrote
  /\ data' = [data EXCEPT ![t] = @ \cup {c}]
  /\ job' = [job EXCEPT ![c].wrote = @ \cup {t}, ![c].left = @ \cup {t}]
  /\ UNCHANGED <<lockState, mirror, seen, begun, dirty, unsaid, usedKeys, shut, kinds>>

BodyEnds(c) ==
  /\ job[c].stage = "body"
  /\ Moves(c, IF job[c].kind = "atomic" THEN "commit" ELSE "notify")
  /\ UNCHANGED <<lockState, rowState, usedKeys, shut, kinds>>

\* The body throws: a group that is not atomic keeps what it wrote and says nothing.
BodyThrows(c) ==
  /\ job[c].stage = "body"
  /\ IF job[c].kind = "atomic"
     THEN Moves(c, "rollback") /\ UNCHANGED unsaid
     ELSE Moves(c, "rejected") /\ unsaid' = unsaid \cup job[c].wrote
  /\ UNCHANGED <<lockState, data, mirror, seen, begun, dirty, usedKeys, shut, kinds>>

\* COMMIT, which may fail as any statement.
Commit(c) ==
  \/ begun' = NoTx /\ Moves(c, "notify")
  \/ UNCHANGED begun /\ Moves(c, "rollback")

TxCommits(c) ==
  /\ Is(c, "atomic", "commit") /\ Commit(c)
  /\ UNCHANGED <<lockState, data, mirror, seen, dirty, unsaid, usedKeys, shut, kinds>>

\* ROLLBACK takes back what anyone wrote through the handle since BEGIN.
TxRollsBack(c) ==
  /\ Is(c, "atomic", "rollback")
  /\ data' = begun.before /\ begun' = NoTx /\ Moves(c, "rejected")
  /\ dirty' = dirty \cup {t \in DataTables : seen[t] \ begun.before[t] # {}}
  /\ UNCHANGED <<lockState, mirror, seen, unsaid, usedKeys, shut, kinds>>

Remaining(left, t) == left \ {t}

\* notifyChange of a touched table: its subscribers are sent what its query finds.
Notify(c, t) ==
  /\ job[c].stage = "notify" /\ t \in job[c].left
  /\ seen' = [seen EXCEPT ![t] = data[t]]
  /\ dirty' = dirty \ {t} /\ unsaid' = unsaid \ {t}
  /\ job' = [job EXCEPT ![c].left = Remaining(@, t),
                        ![c].stage = IF Remaining(job[c].left, t) = {} THEN "resolved" ELSE @]
  /\ UNCHANGED <<lockState, data, mirror, begun, usedKeys, shut, kinds>>

\* A group that wrote nothing has nobody to tell.
NothingToTell(c) ==
  /\ job[c].stage = "notify" /\ job[c].left = {}
  /\ Moves(c, "resolved")
  /\ UNCHANGED <<lockState, rowState, usedKeys, shut, kinds>>

-----------------------------------------------------------------------------
(* The REST handler.                                                       *)

KeyTaken(key) == usedKeys \cup ({key} \cap IdemKeys)

\* A mutating request for a row of table t: with an Idempotency-Key that is already
\* stored it is answered `replayed' at once.
Request(c, t, key) ==
  /\ job[c].stage = "new" /\ "rest" \in kinds[c]
  /\ job' = [job EXCEPT ![c] =
       [NotYet EXCEPT !.kind = "rest", !.on = key, !.left = {t},
                      !.stage = IF key \in usedKeys THEN "replayed" ELSE "read"]]
  /\ usedKeys' = KeyTaken(key)
  /\ UNCHANGED <<lockState, rowState, shut, kinds>>

\* applyServerOp reads the row before the request's mutate runs ...
ReadsMirror(c) ==
  /\ Is(c, "rest", "read")
  /\ \E t \in job[c].left : job' = [job EXCEPT ![c].stage = "execute", ![c].was = mirror[t]]
  /\ UNCHANGED <<lockState, rowState, usedKeys, shut, kinds>>

\* ... and nothing of the sync layer is written when that throws: the answer is 500.
Executes(c) ==
  /\ Is(c, "rest", "execute")
  /\ \/ /\ \E t \in job[c].left : data' = [data EXCEPT ![t] = @ \cup {c}]
        /\ job' = [job EXCEPT ![c].stage = "log", ![c].wrote = job[c].left]
     \/ UNCHANGED data /\ Moves(c, "rejected")
  /\ UNCHANGED <<lockState, mirror, seen, begun, dirty, unsaid, usedKeys, shut, kinds>>

\* applyOp writes the row that was decided from the one read, then the broadcast is made.
LogsRow(c) ==
  /\ Is(c, "rest", "log")
  /\ \E t \in job[c].left : mirror' = [mirror EXCEPT ![t] = job[c].was \cup {c}]
  /\ Moves(c, "notify")
  /\ UNCHANGED <<lockState, data, seen, begun, dirty, unsaid, usedKeys, shut, kinds>>

\* close() clears the timers: no tick starts any more, what runs goes on.
ShutDown ==
  /\ ~shut /\ (\E c \in Tasks : "tryLock" \in kinds[c]) /\ shut' = TRUE
  /\ UNCHANGED <<job, lockState, rowState, usedKeys, kinds>>

TasksNext ==
  \/ \E c \in Tasks :
       \/ \E k \in TaskKeys : CallLock(c, k) \/ TickTryLock(c, k)
       \/ RunLocked(c) \/ EndLocked(c)
       \/ CallTx(c, "atomic") \/ CallTx(c, "bare")
       \/ Begin(c) \/ BodyEnds(c) \/ BodyThrows(c) \/ TxCommits(c) \/ TxRollsBack(c)
       \/ NothingToTell(c)
       \/ (\E t \in DataTables : BodyWrites(c, t) \/ Notify(c, t))
       \/ (\E t \in DataTables, key \in IdemKeys \cup {"none"} : Request(c, t, key))
       \/ ReadsMirror(c) \/ Executes(c) \/ LogsRow(c)
  \/ ShutDown

TasksSpec == TasksInit /\ [][TasksNext]_taskVars

-----------------------------------------------------------------------------
\* Under one key one function runs at a time, and what tryLock starts waits for
\* nobody, however calls come, settle and fail (lock, tryLock, lockChains).
LockAlone ==
  /\ \A c, d \in Tasks :
       job[c].stage = "running" /\ job[d].stage = "running" /\ job[c].on = job[d].on => c = d
  /\ \A c \in Tasks : Is(c, "tryLock", "queued") =>
       waitsOn[c] = NoTask \/ job[waitsOn[c]].stage \in Ended

\* An atomic group that was committed stays whole, one that rejected left nothing,
\* whatever else goes through the handle meanwhile (tx, TxAtomicAdapter).
TxAllOrNothing ==
  \A c \in Tasks : job[c].kind = "atomic" =>
    /\ job[c].stage \in {"notify", "resolved"} => \A t \in job[c].wrote : c \in data[t]
    /\ job[c].stage = "rejected" => \A t \in DataTables : c \notin data[t]

\* When every task has ended subscribers hold what the tables hold, but for a table
\* a broadcast read inside a transaction that was rolled back, and one a non-atomic
\* group wrote before it threw (tx, applyServerOp, notifyChange).
SettledIsShown ==
  (\A c \in Tasks : job[c].stage \in Ended \cup {"new"}) =>
    \A t \in DataTables : seen[t] = data[t] \/ t \in dirty \cup unsaid

CarriedOut(c) == job[c].kind = "rest" /\ job[c].stage # "replayed" /\ job[c].on \in IdemKeys

\* Of the requests with one Idempotency-Key one is carried out (reserveOpId).
KeyedOnce == \A c, d \in Tasks : CarriedOut(c) /\ CarriedOut(d) /\ job[c].on = job[d].on => c = d

\* The application's own work: a locked task runs alone, an atomic transaction
\* leaves all of its writes or none, what it wrote is broadcast, and a keyed
\* request runs once.
\* Each as stated above.
TasksInv == TasksTypeOK /\ LockAlone /\ TxAllOrNothing /\ SettledIsShown /\ KeyedOnce
=============================================================================
