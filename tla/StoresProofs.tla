---------------------------- MODULE StoresProofs ----------------------------
(***************************************************************************)
(* Theorems about the server's own work, its windows and its SQL stores:   *)
(* ServerTasks, CatchUp, Windows and SqlStore.                             *)
(*                                                                         *)
(* ServerTasks, for any number of tasks, tables, lock keys and             *)
(* Idempotency-Keys, and whatever kinds of work the callers ask for.       *)
(*                                                                         *)
(* CatchUp: a client that was away, has come back and has been told        *)
(* everything shows every write the log could tell it of; an accepted      *)
(* write is in the log or on its way there; what was swept lies below the  *)
(* stored cutoff.  For any writes, tables, paths and buffer capacity, and  *)
(* any number of crashes, lost links, failed storage writes and            *)
(* compactions: catchUpLeft bounds a behaviour's mishaps, CatchUpBounds is *)
(* any set.                                                                *)
(*                                                                         *)
(* Windows: a windowed subscription that is quiet shows its window of the  *)
(* table and the total the server counts.  For any finite set of rows, any *)
(* window and page size, any number of broadcasts at once, and any number  *)
(* of writes, requests and lost frames.                                    *)
(*                                                                         *)
(* SqlStore: a merged row is what its accepted writes amount to, and one   *)
(* instance at a time compacts.  For any instances, ops, rows, pools and   *)
(* times, and any number of retries, crashes and compactions.              *)
(***************************************************************************)
EXTENDS CatchUp, ServerTasks, Windows, SqlStore, FiniteSetTheorems, SequenceTheorems, TLAPS

-----------------------------------------------------------------------------
(* ServerTasks.                                                            *)

\* The stages work of each kind goes through.
Suits(kind, stage) ==
  \/ kind = "none" /\ stage = "new"
  \/ kind = "lock" /\ stage \in {"queued", "running", "resolved", "rejected"}
  \/ kind = "tryLock" /\ stage \in {"queued", "running", "resolved", "rejected", "skipped"}
  \/ /\ kind = "atomic"
     /\ stage \in {"begin", "body", "commit", "rollback", "notify", "resolved", "rejected"}
  \/ kind = "bare" /\ stage \in {"body", "notify", "resolved", "rejected"}
  \/ /\ kind = "rest"
     /\ stage \in {"read", "execute", "log", "notify", "resolved", "rejected", "replayed"}

AllStages == Ended \cup {"new", "queued", "running", "begin", "body", "commit", "rollback", "notify",
                         "read", "execute", "log"}

Jobs ==
  [kind : {"none", "lock", "tryLock", "atomic", "bare", "rest"}, stage : AllStages,
   on : TaskKeys \cup IdemKeys \cup {"none"},
   left : SUBSET DataTables, wrote : SUBSET DataTables, was : SUBSET Tasks]

Rows == [DataTables -> SUBSET Tasks]

\* Every variable is of its type, and a job is at a stage of its kind.
Typed ==
  /\ job \in [Tasks -> Jobs]
  /\ waitsOn \in [Tasks -> Tasks \cup {NoTask}] /\ chain \in [TaskKeys -> Tasks \cup {NoTask}]
  /\ data \in Rows /\ mirror \in Rows /\ seen \in Rows
  /\ begun \in [by : Tasks \cup {NoTask}, before : Rows]
  /\ usedKeys \subseteq IdemKeys /\ shut \in BOOLEAN
  /\ dirty \subseteq DataTables /\ unsaid \subseteq DataTables

Staged ==
  \A c \in Tasks :
    /\ Suits(job[c].kind, job[c].stage)
    /\ job[c].stage \in {"queued", "running"} => job[c].on \in TaskKeys
    /\ Is(c, "rest", "read") \/ Is(c, "rest", "execute") \/ Is(c, "rest", "log")
         \/ Is(c, "rest", "notify") => \E t \in DataTables : job[c].left = {t}
    /\ job[c].stage = "begin" => job[c].left = {} /\ job[c].wrote = {}
    /\ job[c].stage = "body" => job[c].left = job[c].wrote

\* The calls under a lock key that have not settled stand in a line: each waits for the
\* one before it, only the first may run, and the entry of the key is the last of them.
InLine(c, k) == job[c].stage \in {"queued", "running"} /\ job[c].on = k

Line(k, n, q) ==
  /\ \A i, j \in 1..n : q[i] = q[j] => i = j
  /\ \A c \in Tasks : InLine(c, k) <=> \E i \in 1..n : q[i] = c
  /\ chain[k] = IF n = 0 THEN NoTask ELSE q[n]
  /\ \A i \in 2..n : waitsOn[q[i]] = q[i-1] /\ job[q[i]].stage = "queued"
  /\ n > 0 => waitsOn[q[1]] = NoTask \/ job[waitsOn[q[1]]].stage \in Ended

Lines == \A k \in TaskKeys : \E n \in Nat : \E q \in [1..n -> Tasks] : Line(k, n, q)

TriesWaitForNobody == \A c \in Tasks : Is(c, "tryLock", "queued") => waitsOn[c] = NoTask

\* The transaction on the handle is that of the one atomic group between BEGIN and its
\* end; what was committed is in the rows it would go back to, what was not is not.
InTx == {"body", "commit", "rollback"}

OneTransaction ==
  \A c \in Tasks :
    /\ begun.by = c <=> job[c].kind = "atomic" /\ job[c].stage \in InTx
    /\ job[c].kind = "atomic" /\ job[c].stage \in {"body", "commit", "notify", "resolved"} =>
         \A t \in job[c].wrote : c \in data[t]
    /\ job[c].kind = "atomic" /\ job[c].stage \in {"notify", "resolved"} /\ begun.by # NoTask =>
         \A t \in job[c].wrote : c \in begun.before[t]
    /\ job[c].stage = "new" \/ Is(c, "atomic", "begin") \/ Is(c, "atomic", "rejected") =>
         \A t \in DataTables : c \notin data[t]
    /\ job[c].stage = "new" \/ (job[c].kind = "atomic" /\ job[c].stage \notin {"notify", "resolved"}) =>
         \A t \in DataTables : c \notin begun.before[t]

\* Somebody has yet to broadcast table t.
Owes(c, t) ==
  /\ t \in job[c].left
  /\ job[c].stage \in {"body", "commit", "rollback", "log", "notify"}

\* What subscribers hold is what the table holds or somebody still has to say it, also
\* after a rollback of the open transaction.
TablesShown ==
  \A t \in DataTables :
    /\ \/ seen[t] = data[t] \/ t \in dirty \cup unsaid
       \/ \E c \in Tasks : Owes(c, t)
    /\ begun.by # NoTask =>
         /\ begun.before[t] \subseteq data[t]
         /\ \/ seen[t] = begun.before[t] \/ seen[t] \ begun.before[t] # {} \/ t \in dirty \cup unsaid
            \/ \E c \in Tasks : c # begun.by /\ Owes(c, t)

\* The key of a request that was carried out is stored, and it was the first with it.
Keys ==
  /\ \A c \in Tasks : CarriedOut(c) => job[c].on \in usedKeys
  /\ KeyedOnce

TasksIInv == Typed /\ Staged /\ Lines /\ TriesWaitForNobody /\ OneTransaction /\ TablesShown /\ Keys

-----------------------------------------------------------------------------
(* It holds at first.                                                      *)

\* A caller that has called nothing has a job all the same.
LEMMA NotYetJob == NotYet \in Jobs
  BY DEF NotYet, Jobs, AllStages

\* The invariant holds at the start.
LEMMA TasksInitIInv == TasksInit => TasksIInv
<1> SUFFICES ASSUME TasksInit PROVE TasksIInv
  OBVIOUS
<1> USE NoTaskAssumption
<1>1. \A c \in Tasks : job[c] = NotYet
  BY DEF TasksInit
<1>2. Typed
  BY NotYetJob DEF TasksInit, Typed, Rows, NoTx
<1>3. Staged
  BY <1>1 DEF Staged, Suits, Is, NotYet
<1>4. Lines
  <2> SUFFICES ASSUME NEW k \in TaskKeys PROVE \E n \in Nat : \E q \in [1..n -> Tasks] : Line(k, n, q)
    BY DEF Lines
  <2> DEFINE q == [i \in 1..0 |-> NoTask]
  <2>1. q \in [1..0 -> Tasks]
    OBVIOUS
  <2>2. Line(k, 0, q)
    BY <1>1 DEF Line, InLine, NotYet, TasksInit
  <2> QED BY <2>1, <2>2
<1>5. TriesWaitForNobody
  BY <1>1 DEF TriesWaitForNobody, Is, NotYet
<1>6. OneTransaction
  BY <1>1 DEF OneTransaction, Is, NotYet, TasksInit, NoTx
<1>7. TablesShown
  BY DEF TablesShown, TasksInit, NoTx
<1>8. Keys
  BY <1>1 DEF Keys, KeyedOnce, CarriedOut, NotYet
<1> QED BY <1>2, <1>3, <1>4, <1>5, <1>6, <1>7, <1>8 DEF TasksIInv

-----------------------------------------------------------------------------
(* Every step keeps the types and the stages.                              *)

\* A job a step may leave behind.
Good(r) ==
  /\ r \in Jobs /\ Suits(r.kind, r.stage)
  /\ r.stage \in {"queued", "running"} => r.on \in TaskKeys
  /\ r.kind = "rest" /\ r.stage \in {"read", "execute", "log", "notify"} =>
       \E t \in DataTables : r.left = {t}
  /\ r.stage = "begin" => r.left = {} /\ r.wrote = {}
  /\ r.stage = "body" => r.left = r.wrote

\* The jobs there are.
LEMMA JobsGood ==
  ASSUME Typed, Staged, NEW c \in Tasks
  PROVE  Good(job[c])
  BY DEF Typed, Staged, Good, Is

\* Putting a good job in the place of one keeps every job good.
LEMMA OneJob ==
  ASSUME Typed, Staged, NEW c \in Tasks, NEW r, Good(r), job' = [job EXCEPT ![c] = r]
  PROVE  job' \in [Tasks -> Jobs] /\ Staged'
<1>1. \A d \in Tasks : job'[d] = IF d = c THEN r ELSE job[d]
  BY DEF Typed
<1> QED BY <1>1 DEF Typed, Staged, Is, Good

\* Moving on to another stage of its kind, from one where it is not on a row.
LEMMA MovesGood ==
  ASSUME Typed, Staged, NEW c \in Tasks, NEW stage \in AllStages, Suits(job[c].kind, stage),
         job[c].stage # "new",
         stage \in {"queued", "running"} => job[c].stage \in {"queued", "running"},
         job[c].kind = "rest" /\ stage \in {"read", "execute", "log", "notify"} =>
           job[c].stage \in {"read", "execute", "log", "notify"},
         stage # "begin", stage = "body" => job[c].left = job[c].wrote, Moves(c, stage)
  PROVE  job' \in [Tasks -> Jobs] /\ Staged'
<1> DEFINE r == [job[c] EXCEPT !.stage = stage]
<1>1. Good(job[c]) /\ job[c] \in Jobs
  BY JobsGood DEF Typed
<1>2. Good(r)
  BY <1>1 DEF Good, Jobs
<1>3. job' = [job EXCEPT ![c] = r]
  BY DEF Moves, Typed
<1> HIDE DEF r
<1> QED BY <1>2, <1>3, OneJob

\* A job with some of its fields changed.
LEMMA JobChanged ==
  ASSUME NEW j \in Jobs, NEW stage \in AllStages, NEW left \in SUBSET DataTables,
         NEW wrote \in SUBSET DataTables, NEW was \in SUBSET Tasks
  PROVE  /\ [j EXCEPT !.left = left, !.stage = stage] \in Jobs
         /\ [j EXCEPT !.stage = stage, !.was = was] \in Jobs
         /\ [j EXCEPT !.stage = stage, !.wrote = wrote] \in Jobs
  BY DEF Jobs

\* A job that has written to one more table.
LEMMA JobWrote ==
  ASSUME NEW j \in Jobs, NEW left \in SUBSET DataTables, NEW wrote \in SUBSET DataTables
  PROVE  [j EXCEPT !.wrote = wrote, !.left = left] \in Jobs
  BY DEF Jobs

\* The other variables.
RestTyped ==
  /\ waitsOn \in [Tasks -> Tasks \cup {NoTask}] /\ chain \in [TaskKeys -> Tasks \cup {NoTask}]
  /\ data \in Rows /\ mirror \in Rows /\ seen \in Rows
  /\ begun \in [by : Tasks \cup {NoTask}, before : Rows]
  /\ usedKeys \subseteq IdemKeys /\ shut \in BOOLEAN
  /\ dirty \subseteq DataTables /\ unsaid \subseteq DataTables

\* Every step keeps the types of everything but the jobs.
LEMMA RestStep == Typed /\ Staged /\ TasksNext => RestTyped'
<1> SUFFICES ASSUME Typed, Staged, TasksNext PROVE RestTyped'
  OBVIOUS
<1> USE DEF Typed, RestTyped, lockState, rowState
<1>1. ASSUME NEW c \in Tasks, NEW k \in TaskKeys, CallLock(c, k) \/ TickTryLock(c, k) PROVE RestTyped'
  BY <1>1 DEF CallLock, TickTryLock, Chained
<1>2. ASSUME NEW c \in Tasks, RunLocked(c) \/ EndLocked(c) PROVE RestTyped'
  BY <1>2 DEF RunLocked, EndLocked, LeavesChain
<1>3. ASSUME NEW c \in Tasks, CallTx(c, "atomic") \/ CallTx(c, "bare") PROVE RestTyped'
  BY <1>3 DEF CallTx
<1>4. ASSUME NEW c \in Tasks, Begin(c) PROVE RestTyped'
  BY <1>4 DEF Begin
<1>5. ASSUME NEW c \in Tasks, BodyEnds(c) \/ NothingToTell(c) \/ ReadsMirror(c) PROVE RestTyped'
  BY <1>5 DEF BodyEnds, NothingToTell, ReadsMirror
<1>6. ASSUME NEW c \in Tasks, BodyThrows(c) PROVE RestTyped'
  BY <1>6 DEF BodyThrows, Jobs
<1>7. ASSUME NEW c \in Tasks, TxCommits(c) PROVE RestTyped'
  BY <1>7 DEF TxCommits, Commit, NoTx, Rows
<1>8. ASSUME NEW c \in Tasks, TxRollsBack(c) PROVE RestTyped'
  BY <1>8 DEF TxRollsBack, NoTx, Rows
<1>9. ASSUME NEW c \in Tasks, NEW t \in DataTables, BodyWrites(c, t) PROVE RestTyped'
  BY <1>9 DEF BodyWrites, Rows
<1>10. ASSUME NEW c \in Tasks, NEW t \in DataTables, Notify(c, t) PROVE RestTyped'
  BY <1>10 DEF Notify, Rows
<1>11. ASSUME NEW c \in Tasks, NEW t \in DataTables, NEW key, Request(c, t, key) PROVE RestTyped'
  BY <1>11 DEF Request, KeyTaken
<1>12. ASSUME NEW c \in Tasks, Executes(c) PROVE RestTyped'
  BY <1>12 DEF Executes, Rows
<1>13. ASSUME NEW c \in Tasks, LogsRow(c) PROVE RestTyped'
  BY <1>13 DEF LogsRow, Jobs, Rows
<1>14. CASE ShutDown
  BY <1>14 DEF ShutDown
<1> QED BY <1>1, <1>2, <1>3, <1>4, <1>5, <1>6, <1>7, <1>8, <1>9, <1>10, <1>11, <1>12, <1>13, <1>14
        DEF TasksNext

\* Every step leaves each caller with a job at a stage its kind has.
LEMMA JobStep == Typed /\ Staged /\ TasksNext => job' \in [Tasks -> Jobs] /\ Staged'
<1> SUFFICES ASSUME Typed, Staged, TasksNext PROVE job' \in [Tasks -> Jobs] /\ Staged'
  OBVIOUS
<1> DEFINE Holds == job' \in [Tasks -> Jobs] /\ Staged'
<1>0. \A c \in Tasks : job[c] \in Jobs /\ Good(job[c])
  BY JobsGood DEF Typed
<1>1. ASSUME NEW c \in Tasks, NEW k \in TaskKeys, CallLock(c, k) \/ TickTryLock(c, k) PROVE Holds
  <2>1. PICK r : Good(r) /\ job' = [job EXCEPT ![c] = r]
    BY <1>1, NotYetJob DEF CallLock, TickTryLock, Good, Suits, NotYet, Jobs, AllStages, Ended
  <2> QED BY <2>1, OneJob
<1>2. ASSUME NEW c \in Tasks, RunLocked(c) PROVE Holds
  BY <1>2, <1>0, MovesGood DEF RunLocked, AllStages, Suits, Good
<1>3. ASSUME NEW c \in Tasks, EndLocked(c) PROVE Holds
  BY <1>3, <1>0, MovesGood DEF EndLocked, AllStages, Suits, Good, Ended
<1>4. ASSUME NEW c \in Tasks, CallTx(c, "atomic") \/ CallTx(c, "bare") PROVE Holds
  <2>1. PICK r : Good(r) /\ job' = [job EXCEPT ![c] = r]
    BY <1>4, NotYetJob DEF CallTx, Starts, Good, Suits, NotYet, Jobs, AllStages, Ended
  <2> QED BY <2>1, OneJob
<1>5. ASSUME NEW c \in Tasks, Begin(c) PROVE Holds
  BY <1>5, <1>0, MovesGood DEF Begin, Is, AllStages, Suits, Good, Ended
<1>6. ASSUME NEW c \in Tasks, NEW t \in DataTables, BodyWrites(c, t) PROVE Holds
  <2> DEFINE r == [job[c] EXCEPT !.wrote = @ \cup {t}, !.left = @ \cup {t}]
  <2>1. job' = [job EXCEPT ![c] = r]
    BY <1>6, <1>0 DEF BodyWrites, Typed, Jobs
  <2>2. job[c] \in Jobs /\ Good(job[c]) /\ job[c].stage = "body"
    BY <1>6, <1>0 DEF BodyWrites
  <2>4. job[c].wrote \cup {t} \in SUBSET DataTables /\ job[c].left \cup {t} \in SUBSET DataTables
    BY <2>2 DEF Jobs
  <2>5. r \in Jobs
    BY <2>2, <2>4, JobWrote DEF Jobs
  <2>6. r.kind = job[c].kind /\ r.stage = "body"
        /\ r.left = job[c].left \cup {t} /\ r.wrote = job[c].wrote \cup {t}
    BY <2>2 DEF Jobs
  <2>3. Good(r)
    BY <2>2, <2>5, <2>6 DEF Good, Suits
  <2> HIDE DEF r
  <2> QED BY <2>1, <2>3, OneJob
<1>7. ASSUME NEW c \in Tasks, BodyEnds(c) PROVE Holds
  BY <1>7, <1>0, MovesGood DEF BodyEnds, AllStages, Suits, Good
<1>8. ASSUME NEW c \in Tasks, BodyThrows(c) PROVE Holds
  BY <1>8, <1>0, MovesGood DEF BodyThrows, AllStages, Suits, Good, Ended
<1>9. ASSUME NEW c \in Tasks, TxCommits(c) PROVE Holds
  BY <1>9, <1>0, MovesGood DEF TxCommits, Commit, Is, AllStages, Suits, Good
<1>10. ASSUME NEW c \in Tasks, TxRollsBack(c) PROVE Holds
  BY <1>10, <1>0, MovesGood DEF TxRollsBack, Is, AllStages, Suits, Good, Ended
<1>11. ASSUME NEW c \in Tasks, NothingToTell(c) PROVE Holds
  BY <1>11, <1>0, MovesGood DEF NothingToTell, AllStages, Suits, Good, Ended
<1>12. ASSUME NEW c \in Tasks, NEW t \in DataTables, Notify(c, t) PROVE Holds
  <2> DEFINE left == job[c].left \ {t}
             r == [job[c] EXCEPT !.left = left, !.stage = IF left = {} THEN "resolved" ELSE @]
  <2>1. job' = [job EXCEPT ![c] = r]
    BY <1>12, <1>0 DEF Notify, Remaining, Typed, Jobs
  <2>2. job[c].kind = "rest" => left = {}
    BY <1>12, <1>0 DEF Notify, Good
  <2>10. job[c] \in Jobs /\ job[c].stage = "notify"
    BY <1>12, <1>0 DEF Notify
  <2>11. left \in SUBSET DataTables /\ {"resolved", "notify"} \subseteq AllStages
    BY <2>10 DEF Jobs, AllStages, Ended
  <2>12. r = [job[c] EXCEPT !.left = left, !.stage = IF left = {} THEN "resolved" ELSE "notify"]
    BY <2>10 DEF Jobs
  <2>13. r \in Jobs
    BY <2>10, <2>11, <2>12, JobChanged
  <2>3. r \in Jobs /\ r.kind = job[c].kind /\ r.stage = IF left = {} THEN "resolved" ELSE "notify"
    BY <2>10, <2>13 DEF Jobs
  <2> HIDE DEF r, left
  <2>4. Suits(job[c].kind, "notify")
    BY <1>12, <1>0 DEF Notify, Good
  <2>5. Good(r)
    BY <2>2, <2>3, <2>4 DEF Good, Suits
  <2> QED BY <2>1, <2>5, OneJob
<1>13. ASSUME NEW c \in Tasks, NEW t \in DataTables, NEW key \in IdemKeys \cup {"none"},
              Request(c, t, key) PROVE Holds
  <2> DEFINE r == [NotYet EXCEPT !.kind = "rest", !.on = key, !.left = {t},
                                 !.stage = IF key \in usedKeys THEN "replayed" ELSE "read"]
  <2>1. job' = [job EXCEPT ![c] = r]
    BY <1>13 DEF Request
  <2>2. r \in Jobs /\ r.kind = "rest" /\ r.stage \in {"replayed", "read"} /\ r.left = {t}
    BY DEF NotYet, Jobs, AllStages, Ended
  <2> HIDE DEF r
  <2>3. Good(r)
    BY <2>2 DEF Good, Suits
  <2> QED BY <2>1, <2>3, OneJob
<1>14. ASSUME NEW c \in Tasks, ReadsMirror(c) PROVE Holds
  <2>1. PICK t \in job[c].left : job' = [job EXCEPT ![c].stage = "execute", ![c].was = mirror[t]]
    BY <1>14 DEF ReadsMirror
  <2> DEFINE r == [job[c] EXCEPT !.stage = "execute", !.was = mirror[t]]
  <2>2. job' = [job EXCEPT ![c] = r]
    BY <2>1, <1>0 DEF Typed, Jobs
  <2>3. mirror[t] \subseteq Tasks
    BY <1>0, <2>1 DEF Typed, Rows, Jobs
  <2>10. job[c] \in Jobs /\ job[c].kind = "rest" /\ "execute" \in AllStages
    BY <1>14, <1>0 DEF ReadsMirror, Is, AllStages
  <2>11. r \in Jobs
    BY <2>10, <2>3, JobChanged
  <2>4. r \in Jobs /\ r.kind = "rest" /\ r.stage = "execute" /\ r.left = job[c].left
    BY <2>10, <2>11 DEF Jobs
  <2> HIDE DEF r
  <2>5. Good(r)
    BY <1>14, <1>0, <2>4 DEF ReadsMirror, Is, Good, Suits
  <2> QED BY <2>2, <2>5, OneJob
<1>15. ASSUME NEW c \in Tasks, Executes(c) PROVE Holds
  <2>1. CASE Moves(c, "rejected")
    BY <1>15, <1>0, <2>1, MovesGood DEF Executes, Is, AllStages, Suits, Good, Ended
  <2>2. CASE job' = [job EXCEPT ![c].stage = "log", ![c].wrote = job[c].left]
    <3> DEFINE r == [job[c] EXCEPT !.stage = "log", !.wrote = job[c].left]
    <3>1. job' = [job EXCEPT ![c] = r]
      BY <2>2, <1>0 DEF Typed, Jobs
    <3>10. job[c] \in Jobs /\ job[c].kind = "rest" /\ "log" \in AllStages
      BY <1>15, <1>0 DEF Executes, Is, AllStages
    <3>11. job[c].left \in SUBSET DataTables
      BY <3>10 DEF Jobs
    <3>12. r \in Jobs
      BY <3>10, <3>11, JobChanged
    <3>2. r \in Jobs /\ r.kind = "rest" /\ r.stage = "log" /\ r.left = job[c].left
      BY <3>10, <3>12 DEF Jobs
    <3> HIDE DEF r
    <3>3. Good(r)
      BY <1>15, <1>0, <3>2 DEF Executes, Is, Good, Suits
    <3> QED BY <3>1, <3>3, OneJob
  <2> QED BY <1>15, <2>1, <2>2 DEF Executes
<1>16. ASSUME NEW c \in Tasks, LogsRow(c) PROVE Holds
  BY <1>16, <1>0, MovesGood DEF LogsRow, Is, AllStages, Suits, Good
<1>17. CASE ShutDown
  BY <1>17, <1>0 DEF ShutDown, Typed, Staged, Is
<1> QED BY <1>1, <1>2, <1>3, <1>4, <1>5, <1>6, <1>7, <1>8, <1>9, <1>10, <1>11, <1>12, <1>13, <1>14,
           <1>15, <1>16, <1>17 DEF TasksNext

\* So every step keeps the types.
LEMMA TypedStep == Typed /\ Staged /\ TasksNext => Typed' /\ Staged'
  BY RestStep, JobStep DEF RestTyped, Typed

-----------------------------------------------------------------------------
(* Every step keeps the lines under the lock keys.                         *)

\* A step that leaves those in the line of a key alone, and ends no one's end.
LEMMA LineKept ==
  ASSUME Typed, NEW k \in TaskKeys, NEW n \in Nat, NEW q \in [1..n -> Tasks], Line(k, n, q),
         chain'[k] = chain[k],
         \A d \in Tasks : InLine(d, k) => job'[d] = job[d] /\ waitsOn'[d] = waitsOn[d],
         \A d \in Tasks : InLine(d, k)' => InLine(d, k),
         \A d \in Tasks : job[d].stage \in Ended => job'[d].stage \in Ended
  PROVE  Line(k, n, q)'
<1>1. \A d \in Tasks : InLine(d, k)' <=> InLine(d, k)
  BY DEF InLine
<1>2. \A i \in 1..n : q[i] \in Tasks /\ InLine(q[i], k)
  BY DEF Line
<1>3. \A i \in 2..n : waitsOn'[q[i]] = q[i-1] /\ job'[q[i]].stage = "queued"
  BY SMTT(30), <1>2 DEF Line
<1>4. n > 0 => waitsOn'[q[1]] = NoTask \/ job'[waitsOn'[q[1]]].stage \in Ended
  BY <1>2 DEF Line, Typed
<1> QED BY <1>1, <1>3, <1>4 DEF Line

\* So does a step that leaves the locks and everyone in line alone.
LEMMA LinesRest ==
  ASSUME Typed, Lines, UNCHANGED lockState,
         \A d \in Tasks : job[d].stage \in {"queued", "running"} => job'[d] = job[d],
         \A d \in Tasks : job'[d].stage \in {"queued", "running"} => job'[d] = job[d],
         \A d \in Tasks : job[d].stage \in Ended => job'[d].stage \in Ended
  PROVE  Lines'
<1> SUFFICES ASSUME NEW k \in TaskKeys
             PROVE  \E n \in Nat : \E q \in [1..n -> Tasks] : Line(k, n, q)'
  BY DEF Lines
<1>1. PICK n \in Nat : \E q \in [1..n -> Tasks] : Line(k, n, q)
  BY DEF Lines
<1>2. PICK q \in [1..n -> Tasks] : Line(k, n, q)
  BY <1>1
<1>3. Line(k, n, q)'
  BY <1>2, LineKept DEF InLine, lockState
<1> QED BY <1>3

\* A call goes to the end of the line of its key.
LEMMA LinesJoin ==
  ASSUME Typed, Lines, NEW c \in Tasks, NEW k \in TaskKeys, job[c].stage = "new", Chained(c, k),
         NEW r, r.stage = "queued", r.on = k, job' = [job EXCEPT ![c] = r]
  PROVE  Lines'
<1> SUFFICES ASSUME NEW l \in TaskKeys
             PROVE  \E n \in Nat : \E q \in [1..n -> Tasks] : Line(l, n, q)'
  BY DEF Lines
<1>1. PICK n \in Nat : \E q \in [1..n -> Tasks] : Line(l, n, q)
  BY DEF Lines
<1>2. PICK q \in [1..n -> Tasks] : Line(l, n, q)
  BY <1>1
<1>3. \A d \in Tasks : job'[d] = IF d = c THEN r ELSE job[d]
  BY DEF Typed
<1>4. \A d \in Tasks : waitsOn'[d] = IF d = c THEN chain[k] ELSE waitsOn[d]
  BY DEF Typed, Chained
<1>5. CASE l # k
  BY <1>5, <1>2, <1>3, <1>4, LineKept DEF Chained, Typed, InLine, Ended
<1>6. CASE l = k
  <2> DEFINE p == [i \in 1..n+1 |-> IF i <= n THEN q[i] ELSE c]
  <2>1. p \in [1..n+1 -> Tasks]
    OBVIOUS
  <2>2. \A i \in 1..n : q[i] \in Tasks /\ q[i] # c /\ InLine(q[i], k)
    BY <1>2, <1>6 DEF Line, InLine
  <2>3. \A i, j \in 1..n+1 : p[i] = p[j] => i = j
    BY <1>2, <1>6, <2>2 DEF Line
  <2>4. \A d \in Tasks : InLine(d, k)' <=> d = c \/ InLine(d, k)
    BY <1>3 DEF InLine
  <2>5. \A d \in Tasks : InLine(d, k)' <=> \E i \in 1..n+1 : p[i] = d
    <3>1. ASSUME NEW d \in Tasks, InLine(d, k)' PROVE \E i \in 1..n+1 : p[i] = d
      <4>1. CASE d = c
        BY <4>1
      <4>2. CASE d # c
        <5>1. PICK i \in 1..n : q[i] = d
          BY <3>1, <4>2, <2>4, <1>2, <1>6 DEF Line
        <5>2. i \in 1..n+1 /\ p[i] = d
          BY <5>1
        <5> QED BY <5>2
      <4> QED BY <4>1, <4>2
    <3>2. ASSUME NEW d \in Tasks, NEW i \in 1..n+1, p[i] = d PROVE InLine(d, k)'
      BY <3>2, <2>2, <2>4
    <3> QED BY <3>1, <3>2
  <2>6. chain'[k] = p[n+1]
    BY DEF Chained, Typed
  <2>7. ASSUME NEW i \in 2..n+1 PROVE waitsOn'[p[i]] = p[i-1] /\ job'[p[i]].stage = "queued"
    <3>1. CASE i \in 2..n
      <4>1. p[i] = q[i] /\ p[i-1] = q[i-1] /\ i \in 1..n
        BY <3>1
      <4>2. waitsOn[q[i]] = q[i-1] /\ job[q[i]].stage = "queued"
        BY <3>1, <1>2, <1>6 DEF Line
      <4> QED BY <4>1, <4>2, <2>2, <1>3, <1>4
    <3>2. CASE i = n+1
      BY <3>2, <1>2, <1>3, <1>4, <1>6 DEF Line
    <3> QED BY <3>1, <3>2
  <2>8. waitsOn'[p[1]] = NoTask \/ job'[waitsOn'[p[1]]].stage \in Ended
    <3>1. CASE n = 0
      BY <3>1, <1>2, <1>4, <1>6 DEF Line
    <3>2. CASE n > 0
      BY <3>2, <2>2, <1>4, <1>2, <1>3, <1>6 DEF Typed, Line, Ended
    <3> QED BY <3>1, <3>2
  <2> HIDE DEF p
  <2>9. Line(k, n+1, p)'
    BY <2>3, <2>5, <2>6, <2>7, <2>8 DEF Line
  <2> QED BY <1>6, <2>1, <2>9
<1> QED BY <1>5, <1>6

\* Only the first of a line can be let go on, and it runs.
LEMMA LinesRun ==
  ASSUME Typed, Lines, NEW c \in Tasks, RunLocked(c), job[c].on \in TaskKeys
  PROVE  Lines'
<1> SUFFICES ASSUME NEW l \in TaskKeys
             PROVE  \E n \in Nat : \E q \in [1..n -> Tasks] : Line(l, n, q)'
  BY DEF Lines
<1> USE NoTaskAssumption
<1>1. PICK n \in Nat : \E q \in [1..n -> Tasks] : Line(l, n, q)
  BY DEF Lines
<1>2. PICK q \in [1..n -> Tasks] : Line(l, n, q)
  BY <1>1
<1>3. \A d \in Tasks : d # c => job'[d] = job[d]
  BY DEF RunLocked, Moves, Typed
<1>4. job'[c].stage = "running" /\ job'[c].on = job[c].on /\ job[c].stage = "queued"
  BY DEF RunLocked, Moves, Typed, Jobs
<1>5. CASE l # job[c].on
  BY <1>2, <1>3, <1>4, <1>5, LineKept DEF RunLocked, lockState, InLine, Ended
<1>6. CASE l = job[c].on
  <2>1. \A d \in Tasks : InLine(d, l)' <=> InLine(d, l)
    BY <1>3, <1>4 DEF InLine
  <2>2. \A i \in 1..n : q[i] \in Tasks /\ InLine(q[i], l)
    BY <1>2 DEF Line
  <2>3. PICK j \in 1..n : q[j] = c
    BY <1>2, <1>4, <1>6 DEF Line, InLine
  <2>4. j = 1
    <3> SUFFICES ASSUME j # 1 PROVE FALSE
      OBVIOUS
    <3>1. j \in 2..n /\ j-1 \in 1..n
      OBVIOUS
    <3>2. waitsOn[c] = q[j-1] /\ InLine(q[j-1], l) /\ q[j-1] \in Tasks
      BY <1>2, <2>2, <2>3, <3>1 DEF Line
    <3> QED BY <3>2 DEF RunLocked, InLine, Ended
  <2>5. \A i \in 2..n : waitsOn'[q[i]] = q[i-1] /\ job'[q[i]].stage = "queued"
    <3> SUFFICES ASSUME NEW i \in 2..n PROVE waitsOn'[q[i]] = q[i-1] /\ job'[q[i]].stage = "queued"
      OBVIOUS
    <3>1. q[i] # c /\ q[i] \in Tasks
      BY <1>2, <2>2, <2>3, <2>4 DEF Line
    <3> QED BY <1>2, <1>3, <3>1 DEF Line, RunLocked, lockState
  <2>6. n > 0 => waitsOn'[q[1]] = NoTask \/ job'[waitsOn'[q[1]]].stage \in Ended
    <3> SUFFICES ASSUME n > 0, waitsOn[q[1]] # NoTask PROVE job'[waitsOn[q[1]]].stage \in Ended
      BY DEF RunLocked, lockState
    <3>1. q[1] \in Tasks
      BY <2>2
    <3>2. waitsOn[q[1]] \in Tasks
      BY <3>1 DEF Typed
    <3>3. job[waitsOn[q[1]]].stage \in Ended
      BY <1>2 DEF Line
    <3> QED BY <1>3, <1>4, <3>2, <3>3 DEF Ended
  <2>7. Line(l, n, q)'
    BY <1>2, <2>1, <2>5, <2>6 DEF Line, RunLocked, lockState
  <2> QED BY <2>7
<1> QED BY <1>5, <1>6

\* Who settles was the first of its line, which goes on without it.
LEMMA LinesEnd ==
  ASSUME Typed, Lines, NEW c \in Tasks, EndLocked(c), job[c].on \in TaskKeys
  PROVE  Lines'
<1> SUFFICES ASSUME NEW l \in TaskKeys
             PROVE  \E n \in Nat : \E q \in [1..n -> Tasks] : Line(l, n, q)'
  BY DEF Lines
<1> USE NoTaskAssumption
<1>1. PICK n \in Nat : \E q \in [1..n -> Tasks] : Line(l, n, q)
  BY DEF Lines
<1>2. PICK q \in [1..n -> Tasks] : Line(l, n, q)
  BY <1>1
<1>3. \A d \in Tasks : d # c => job'[d] = job[d]
  BY DEF EndLocked, Moves, Typed
<1>4. job'[c].stage \in Ended /\ job[c].stage = "running"
  BY DEF EndLocked, Moves, Typed, Jobs, Ended
<1>5. CASE l # job[c].on
  BY <1>5, <1>2, <1>3, <1>4, LineKept DEF EndLocked, LeavesChain, Typed, InLine, Ended
<1>6. CASE l = job[c].on
  <2> DEFINE p == [i \in 1..n-1 |-> q[i+1]]
  <2>1. \A d \in Tasks : InLine(d, l)' <=> InLine(d, l) /\ d # c
    BY <1>3, <1>4 DEF InLine, Ended
  <2>2. \A i \in 1..n : q[i] \in Tasks /\ InLine(q[i], l)
    BY <1>2 DEF Line
  <2>3. PICK j \in 1..n : q[j] = c
    BY <1>2, <1>4, <1>6 DEF Line, InLine
  <2>4. j = 1
    <3> SUFFICES ASSUME j # 1 PROVE FALSE
      OBVIOUS
    <3>1. job[q[j]].stage = "queued"
      BY <1>2 DEF Line
    <3> QED BY <1>4, <2>3, <3>1
  <2>5. n-1 \in Nat /\ p \in [1..n-1 -> Tasks]
    OBVIOUS
  <2>6. \A i \in 1..n-1 : p[i] = q[i+1] /\ i+1 \in 2..n /\ i+1 \in 1..n
    OBVIOUS
  <2>7. chain'[l] = IF n-1 = 0 THEN NoTask ELSE p[n-1]
    BY <1>2, <1>6, <2>3, <2>4 DEF Line, EndLocked, LeavesChain, Typed
  <2>8. \A i, m \in 1..n-1 : p[i] = p[m] => i = m
    BY <1>2 DEF Line
  <2>9. \A d \in Tasks : InLine(d, l)' <=> \E i \in 1..n-1 : p[i] = d
    <3>1. ASSUME NEW d \in Tasks, InLine(d, l)' PROVE \E i \in 1..n-1 : p[i] = d
      <4>1. PICK i \in 1..n : q[i] = d
        BY <3>1, <2>1, <1>2 DEF Line
      <4>2. i # 1
        BY <4>1, <3>1, <2>1, <2>3, <2>4
      <4>3. i-1 \in 1..n-1 /\ p[i-1] = d
        BY <4>1, <4>2
      <4> QED BY <4>3
    <3>2. ASSUME NEW d \in Tasks, NEW i \in 1..n-1, p[i] = d PROVE InLine(d, l)'
      BY <3>2, <2>2, <2>6, <2>3, <2>4, <1>2, <2>1 DEF Line
    <3> QED BY <3>1, <3>2
  <2>10. \A i \in 2..n-1 : waitsOn'[p[i]] = p[i-1] /\ job'[p[i]].stage = "queued"
    <3> SUFFICES ASSUME NEW i \in 2..n-1 PROVE waitsOn'[p[i]] = p[i-1] /\ job'[p[i]].stage = "queued"
      OBVIOUS
    <3>1. p[i] = q[i+1] /\ p[i-1] = q[i] /\ i+1 \in 2..n /\ i+1 \in 1..n
      OBVIOUS
    <3>2. waitsOn[q[i+1]] = q[i] /\ job[q[i+1]].stage = "queued" /\ q[i+1] # c /\ q[i+1] \in Tasks
      <4>1. (i+1)-1 = i /\ q[i+1] \in Tasks
        BY <3>1, <2>2
      <4>2. waitsOn[q[i+1]] = q[(i+1)-1] /\ job[q[i+1]].stage = "queued"
        BY <3>1, <1>2 DEF Line
      <4> QED BY <4>1, <4>2, <1>4
    <3> QED BY <1>3, <3>1, <3>2 DEF EndLocked
  <2>11. n-1 > 0 => waitsOn'[p[1]] = NoTask \/ job'[waitsOn'[p[1]]].stage \in Ended
    <3> SUFFICES ASSUME n-1 > 0 PROVE job'[waitsOn'[p[1]]].stage \in Ended
      OBVIOUS
    <3>1. p[1] = q[2] /\ waitsOn[q[2]] = q[1]
      BY <1>2 DEF Line
    <3> QED BY <1>4, <2>3, <2>4, <3>1 DEF EndLocked
  <2> HIDE DEF p
  <2>12. Line(l, n-1, p)'
    BY <2>7, <2>8, <2>9, <2>10, <2>11 DEF Line
  <2> QED BY <2>5, <2>12
<1> QED BY <1>5, <1>6

\* What is not a call under a lock leaves the locks, and everyone else's job, alone.
LockFree(c) ==
  \/ CallTx(c, "atomic") \/ CallTx(c, "bare")
  \/ Begin(c) \/ BodyEnds(c) \/ BodyThrows(c) \/ TxCommits(c) \/ TxRollsBack(c)
  \/ NothingToTell(c)
  \/ (\E t \in DataTables : BodyWrites(c, t) \/ Notify(c, t))
  \/ (\E t \in DataTables, key \in IdemKeys \cup {"none"} : Request(c, t, key))
  \/ ReadsMirror(c) \/ Executes(c) \/ LogsRow(c)

\* It is the step of one caller, that is not under a lock before or after.
LEMMA UnlockedMoves ==
  ASSUME Typed, Staged, NEW c \in Tasks, LockFree(c)
  PROVE  /\ \A d \in Tasks : d # c => job'[d] = job[d]
         /\ job[c].stage \notin Ended \cup {"queued", "running"}
         /\ job'[c].stage \notin {"queued", "running"}
         /\ UNCHANGED lockState
<1> USE DEF Typed, Jobs, Ended, Is, Moves
<1>1. CASE CallTx(c, "atomic") \/ CallTx(c, "bare")
  BY ZenonT(40), <1>1 DEF CallTx, Starts, NotYet
<1>2. CASE Begin(c) \/ BodyEnds(c) \/ BodyThrows(c)
  BY <1>2 DEF Begin, BodyEnds, BodyThrows
<1>3. CASE TxCommits(c) \/ TxRollsBack(c) \/ NothingToTell(c)
  BY <1>3 DEF TxCommits, Commit, TxRollsBack, NothingToTell
<1>4. ASSUME NEW t \in DataTables, BodyWrites(c, t) \/ Notify(c, t)
      PROVE  /\ \A d \in Tasks : d # c => job'[d] = job[d]
             /\ job[c].stage \notin Ended \cup {"queued", "running"}
             /\ job'[c].stage \notin {"queued", "running"}
             /\ UNCHANGED lockState
  BY <1>4 DEF BodyWrites, Notify
<1>5. ASSUME NEW t \in DataTables, NEW key, Request(c, t, key)
      PROVE  /\ \A d \in Tasks : d # c => job'[d] = job[d]
             /\ job[c].stage \notin Ended \cup {"queued", "running"}
             /\ job'[c].stage \notin {"queued", "running"}
             /\ UNCHANGED lockState
  BY <1>5 DEF Request, NotYet
<1>6. CASE ReadsMirror(c) \/ Executes(c) \/ LogsRow(c)
  BY <1>6 DEF ReadsMirror, Executes, LogsRow
<1> QED BY <1>1, <1>2, <1>3, <1>4, <1>5, <1>6 DEF LockFree

\* A call joins its line, runs as the first of it or leaves it, and nothing else touches it.
LEMMA LinesStep ==
  Typed /\ Staged /\ Lines /\ TriesWaitForNobody /\ TasksNext => Lines' /\ TriesWaitForNobody'
<1> SUFFICES ASSUME Typed, Staged, Lines, TriesWaitForNobody, TasksNext
             PROVE  Lines' /\ TriesWaitForNobody'
  OBVIOUS
<1> DEFINE Holds == Lines' /\ TriesWaitForNobody'
<1>1. ASSUME NEW c \in Tasks, NEW k \in TaskKeys, CallLock(c, k) PROVE Holds
  <2> DEFINE r == [NotYet EXCEPT !.kind = "lock", !.stage = "queued", !.on = k]
  <2>1. r.stage = "queued" /\ r.on = k /\ r.kind = "lock"
    BY DEF NotYet
  <2>2. job' = [job EXCEPT ![c] = r] /\ job[c].stage = "new" /\ Chained(c, k)
    BY <1>1 DEF CallLock
  <2> HIDE DEF r
  <2>3. Lines'
    BY <2>1, <2>2, LinesJoin
  <2>4. TriesWaitForNobody'
    BY <2>1, <2>2 DEF TriesWaitForNobody, Is, Chained, Typed
  <2> QED BY <2>3, <2>4
<1>2. ASSUME NEW c \in Tasks, NEW k \in TaskKeys, TickTryLock(c, k) PROVE Holds
  <2>1. CASE chain[k] = NoTask
    <3> DEFINE r == [NotYet EXCEPT !.kind = "tryLock", !.stage = "queued", !.on = k]
    <3>1. r.stage = "queued" /\ r.on = k /\ r.kind = "tryLock"
      BY DEF NotYet
    <3>2. job' = [job EXCEPT ![c] = r] /\ job[c].stage = "new" /\ Chained(c, k)
      BY <1>2, <2>1 DEF TickTryLock
    <3> HIDE DEF r
    <3>3. Lines'
      BY <3>1, <3>2, LinesJoin
    <3>4. TriesWaitForNobody'
      BY <2>1, <3>1, <3>2 DEF TriesWaitForNobody, Is, Chained, Typed
    <3> QED BY <3>3, <3>4
  <2>2. CASE chain[k] # NoTask
    <3> DEFINE r == [NotYet EXCEPT !.kind = "tryLock", !.stage = "skipped"]
    <3>1. r.stage = "skipped"
      BY DEF NotYet
    <3>2. job' = [job EXCEPT ![c] = r] /\ job[c].stage = "new" /\ UNCHANGED lockState
      BY <1>2, <2>2 DEF TickTryLock
    <3> HIDE DEF r
    <3>3. \A d \in Tasks : job'[d] = IF d = c THEN r ELSE job[d]
      BY <3>2 DEF Typed
    <3>4. Lines'
      BY <3>1, <3>2, <3>3, LinesRest DEF Ended
    <3>5. TriesWaitForNobody'
      BY <3>1, <3>2, <3>3 DEF TriesWaitForNobody, Is, lockState
    <3> QED BY <3>4, <3>5
  <2> QED BY <2>1, <2>2
<1>3. ASSUME NEW c \in Tasks, RunLocked(c) \/ EndLocked(c) PROVE Holds
  <2>1. job[c].on \in TaskKeys
    BY <1>3 DEF RunLocked, EndLocked, Staged
  <2>2. TriesWaitForNobody'
    BY <1>3 DEF RunLocked, EndLocked, Moves, TriesWaitForNobody, Is, lockState, Typed, Jobs
  <2> QED BY <1>3, <2>1, <2>2, LinesRun, LinesEnd
<1>4. ASSUME NEW c \in Tasks, LockFree(c) PROVE Holds
  BY <1>4, UnlockedMoves, LinesRest DEF TriesWaitForNobody, Is, lockState
<1>5. CASE ShutDown
  BY <1>5, LinesRest DEF ShutDown, TriesWaitForNobody, Is, lockState
<1> QED BY <1>1, <1>2, <1>3, <1>4, <1>5 DEF TasksNext, LockFree

\* One of the line runs.
LEMMA LinesRunAlone ==
  ASSUME Typed, Staged, Lines, TriesWaitForNobody PROVE LockAlone
<1>1. ASSUME NEW c \in Tasks, NEW d \in Tasks, job[c].stage = "running", job[d].stage = "running",
             job[c].on = job[d].on
      PROVE  c = d
  <2> DEFINE k == job[c].on
  <2>1. k \in TaskKeys /\ InLine(c, k) /\ InLine(d, k)
    BY <1>1 DEF Staged, InLine
  <2> HIDE DEF k
  <2>2. PICK n \in Nat : \E q \in [1..n -> Tasks] : Line(k, n, q)
    BY <2>1 DEF Lines
  <2>3. PICK q \in [1..n -> Tasks] : Line(k, n, q)
    BY <2>2
  <2>4. PICK i \in 1..n : q[i] = c
    BY <2>1, <2>3 DEF Line
  <2>5. PICK j \in 1..n : q[j] = d
    BY <2>1, <2>3 DEF Line
  <2>6. \A m \in 2..n : job[q[m]].stage = "queued"
    BY <2>3 DEF Line
  <2>7. i = 1 /\ j = 1
    BY <1>1, <2>4, <2>5, <2>6
  <2> QED BY <2>4, <2>5, <2>7
<1> QED BY <1>1 DEF LockAlone, TriesWaitForNobody, Is

-----------------------------------------------------------------------------
(* Every step keeps what the transaction on the handle stands for.         *)

\* Who is not of an atomic group, before or after, is of no account to a step that
\* leaves the tables and the transaction alone.
LEMMA HandleRest ==
  ASSUME Typed, Staged, OneTransaction, UNCHANGED <<data, begun>>, NEW c \in Tasks,
         \A d \in Tasks : d # c => job'[d] = job[d],
         job'[c].kind # "atomic", job[c].kind # "atomic", Staged', job'[c].kind # "none"
  PROVE  OneTransaction'
  BY NoTaskAssumption DEF OneTransaction, Is, Staged, Suits, InTx

\* Every step keeps the one database handle with whoever has a transaction open (server.tx).
LEMMA HandleStep == Typed /\ Staged /\ OneTransaction /\ TasksNext => OneTransaction'
<1> SUFFICES ASSUME Typed, Staged, OneTransaction, TasksNext PROVE OneTransaction'
  OBVIOUS
<1> USE NoTaskAssumption
<1>0. Staged'
  BY TypedStep
<1>1. ASSUME NEW c \in Tasks, NEW k \in TaskKeys, CallLock(c, k) \/ TickTryLock(c, k) PROVE OneTransaction'
  <2>1. job[c].kind # "atomic" /\ UNCHANGED <<data, begun>>
    BY <1>1 DEF CallLock, TickTryLock, Staged, Suits, rowState
  <2>2. job'[c].kind \in {"lock", "tryLock"} /\ \A d \in Tasks : d # c => job'[d] = job[d]
    <3>1. CASE CallLock(c, k)
      BY <3>1 DEF CallLock, Typed, NotYet
    <3>2. CASE TickTryLock(c, k) /\ chain[k] = NoTask
      <4>1. job' = [job EXCEPT ![c] = [NotYet EXCEPT !.kind = "tryLock", !.stage = "queued", !.on = k]]
        BY <3>2 DEF TickTryLock
      <4> QED BY <4>1 DEF Typed, NotYet
    <3>3. CASE TickTryLock(c, k) /\ chain[k] # NoTask
      <4>1. job' = [job EXCEPT ![c] = [NotYet EXCEPT !.kind = "tryLock", !.stage = "skipped"]]
        BY <3>3 DEF TickTryLock
      <4> QED BY <4>1 DEF Typed, NotYet
    <3> QED BY <1>1, <3>1, <3>2, <3>3
  <2> QED BY <1>0, <2>1, <2>2, HandleRest
<1>2. ASSUME NEW c \in Tasks, RunLocked(c) \/ EndLocked(c) PROVE OneTransaction'
  BY <1>2, <1>0, HandleRest DEF RunLocked, EndLocked, Staged, Suits, rowState, Moves, Typed, Jobs
<1>3. ASSUME NEW c \in Tasks, CallTx(c, "atomic") PROVE OneTransaction'
  BY <1>3 DEF CallTx, Starts, NotYet, OneTransaction, Is, Typed, Staged, Suits, rowState, InTx
<1>4. ASSUME NEW c \in Tasks, CallTx(c, "bare") PROVE OneTransaction'
  BY <1>4, <1>0, HandleRest DEF CallTx, Starts, Staged, Suits, rowState, Typed, NotYet
<1>5. ASSUME NEW c \in Tasks, Begin(c) PROVE OneTransaction'
  <2>1. job[c].kind = "atomic" /\ job[c].stage = "begin" /\ UNCHANGED data
    BY <1>5 DEF Begin, Is
  <2>2. CASE begun.by = NoTask
    <3>1. begun' = [by |-> c, before |-> data] /\ Moves(c, "body")
      BY <1>5, <2>2 DEF Begin
    <3>2. job[c].wrote = {} /\ \A t \in DataTables : c \notin data[t]
      BY <2>1 DEF Staged, OneTransaction, Is
    <3>3. job'[c].kind = "atomic" /\ job'[c].stage = "body" /\ job'[c].wrote = {}
      BY <2>1, <3>1, <3>2 DEF Moves, Typed, Jobs
    <3>4. \A d \in Tasks : d # c => job'[d] = job[d]
      BY <3>1 DEF Moves, Typed
    <3>5. begun'.by = c /\ begun'.before = data /\ data' = data
      BY <2>1, <3>1
    <3>6. \A d \in Tasks : job[d].wrote \subseteq DataTables
      BY DEF Typed, Jobs
    <3>7. \A d \in Tasks : d # c => ~(job[d].kind = "atomic" /\ job[d].stage \in InTx)
      BY <2>2 DEF OneTransaction
    <3>8. \A d \in Tasks : job[d].stage = "new" \/ (job[d].kind = "atomic" /\ job[d].stage \notin InTx
                                              /\ job[d].stage \notin {"notify", "resolved"}) =>
            \A t \in DataTables : d \notin data[t]
      BY DEF OneTransaction, Is, Staged, Suits, InTx
    <3> QED BY <3>2, <3>3, <3>4, <3>5, <3>6, <3>7, <3>8 DEF OneTransaction, Is, InTx
  <2>3. CASE begun.by # NoTask
    BY <1>5, <2>3, <2>1 DEF Begin, Moves, OneTransaction, Is, Typed, Jobs, InTx
  <2> QED BY <2>2, <2>3
<1>6. ASSUME NEW c \in Tasks, NEW t \in DataTables, BodyWrites(c, t) PROVE OneTransaction'
  BY <1>6 DEF BodyWrites, OneTransaction, Is, Typed, Jobs, Rows, InTx
<1>7. ASSUME NEW c \in Tasks, BodyEnds(c) \/ BodyThrows(c) PROVE OneTransaction'
  BY <1>7 DEF BodyEnds, BodyThrows, Moves, OneTransaction, Is, Typed, Jobs, InTx, rowState
<1>8. ASSUME NEW c \in Tasks, TxCommits(c) PROVE OneTransaction'
  BY <1>8 DEF TxCommits, Commit, NoTx, Moves, OneTransaction, Is, Typed, Jobs, InTx
<1>9. ASSUME NEW c \in Tasks, TxRollsBack(c) PROVE OneTransaction'
  BY <1>9 DEF TxRollsBack, NoTx, Moves, OneTransaction, Is, Typed, Jobs, Rows, InTx
<1>10. ASSUME NEW c \in Tasks, NothingToTell(c) PROVE OneTransaction'
  BY <1>10 DEF NothingToTell, Moves, OneTransaction, Is, Typed, Jobs, InTx, rowState
<1>11. ASSUME NEW c \in Tasks, NEW t \in DataTables, Notify(c, t) PROVE OneTransaction'
  BY <1>11 DEF Notify, OneTransaction, Is, Typed, Jobs, InTx
<1>12. ASSUME NEW c \in Tasks, NEW t \in DataTables, NEW key, Request(c, t, key) PROVE OneTransaction'
  BY <1>12, <1>0, HandleRest DEF Request, Staged, Suits, rowState, Typed, NotYet
<1>13. ASSUME NEW c \in Tasks, ReadsMirror(c) \/ LogsRow(c) PROVE OneTransaction'
  BY <1>13, <1>0, HandleRest DEF ReadsMirror, LogsRow, Is, rowState, Moves, Typed, Jobs
<1>14. ASSUME NEW c \in Tasks, Executes(c) PROVE OneTransaction'
  <2>1. CASE UNCHANGED data /\ Moves(c, "rejected")
    BY <1>14, <2>1, <1>0, HandleRest DEF Executes, Is, Moves, Typed, Jobs
  <2>2. ASSUME NEW t \in job[c].left, data' = [data EXCEPT ![t] = @ \cup {c}],
               job' = [job EXCEPT ![c].stage = "log", ![c].wrote = job[c].left]
        PROVE  OneTransaction'
    <3>1. job[c].kind = "rest" /\ UNCHANGED begun /\ t \in DataTables
      BY <1>14 DEF Executes, Is, Typed, Jobs
    <3>2. job'[c].kind = "rest" /\ \A d \in Tasks : d # c => job'[d] = job[d]
      BY <2>2, <3>1 DEF Typed, Jobs
    <3>3. \A u \in DataTables, d \in Tasks : d # c => (d \in data'[u] <=> d \in data[u])
      BY <2>2, <3>1 DEF Typed, Rows
    <3>4. \A d \in Tasks : job[d].wrote \subseteq DataTables
      BY DEF Typed, Jobs
    <3>5. job'[c].stage # "new" /\ begun.by # c
      BY <1>0, <3>1, <3>2 DEF Staged, Suits, OneTransaction
    <3> QED BY <3>1, <3>2, <3>3, <3>4, <3>5 DEF OneTransaction, Is, InTx
  <2> QED BY <1>14, <2>1, <2>2 DEF Executes
<1>15. CASE ShutDown
  BY <1>15 DEF ShutDown, OneTransaction, Is, rowState
<1> QED BY <1>1, <1>2, <1>3, <1>4, <1>5, <1>6, <1>7, <1>8, <1>9, <1>10, <1>11, <1>12, <1>13, <1>14,
           <1>15 DEF TasksNext

\* What the transaction stands for is that groups are all or nothing.
LEMMA HandleWhole ==
  ASSUME Typed, OneTransaction PROVE TxAllOrNothing
  BY DEF TxAllOrNothing, OneTransaction, Is, Typed, Jobs

-----------------------------------------------------------------------------
(* Every step keeps what is shown, or owed, to subscribers.                *)

ShownOf(t) ==
  /\ \/ seen[t] = data[t] \/ t \in dirty \cup unsaid
     \/ \E c \in Tasks : Owes(c, t)
  /\ begun.by # NoTask =>
       /\ begun.before[t] \subseteq data[t]
       /\ \/ seen[t] = begun.before[t] \/ seen[t] \ begun.before[t] # {} \/ t \in dirty \cup unsaid
          \/ \E c \in Tasks : c # begun.by /\ Owes(c, t)

\* A step of one task that leaves the rows alone and owes what it owed.
LEMMA ShownRest ==
  ASSUME Typed, TablesShown, NEW c \in Tasks, UNCHANGED rowState,
         \A d \in Tasks : d # c => job'[d] = job[d],
         \A t \in DataTables : Owes(c, t) => Owes(c, t)'
  PROVE  TablesShown'
<1>1. \A d \in Tasks, t \in DataTables : Owes(d, t) => Owes(d, t)'
  BY DEF Owes
<1> QED BY <1>1 DEF TablesShown, rowState

\* Every step that changes a row leaves someone who owes its table a broadcast (notifyChange).
LEMMA ShownStep == Typed /\ Staged /\ OneTransaction /\ TablesShown /\ TasksNext => TablesShown'
<1> SUFFICES ASSUME Typed, Staged, OneTransaction, TablesShown, TasksNext PROVE TablesShown'
  OBVIOUS
<1> USE NoTaskAssumption
<1>0. \A c \in Tasks : job[c] \in Jobs /\ job[c].left \subseteq DataTables
  BY DEF Typed, Jobs
<1>1. ASSUME NEW c \in Tasks, NEW k \in TaskKeys, CallLock(c, k) \/ TickTryLock(c, k) PROVE TablesShown'
  <2>1. job[c].stage = "new" /\ UNCHANGED rowState
    BY <1>1 DEF CallLock, TickTryLock
  <2>2. \A d \in Tasks : d # c => job'[d] = job[d]
    <3>1. CASE CallLock(c, k)
      BY <3>1 DEF CallLock, Typed
    <3>2. CASE TickTryLock(c, k) /\ chain[k] = NoTask
      BY <3>2 DEF TickTryLock, Typed
    <3>3. CASE TickTryLock(c, k) /\ chain[k] # NoTask
      BY <3>3 DEF TickTryLock, Typed
    <3> QED BY <1>1, <3>1, <3>2, <3>3
  <2>3. \A t \in DataTables : ~Owes(c, t)
    BY <2>1 DEF Owes
  <2> QED BY <2>1, <2>2, <2>3, ShownRest
<1>2. ASSUME NEW c \in Tasks, RunLocked(c) \/ EndLocked(c) PROVE TablesShown'
  BY <1>2, ShownRest DEF RunLocked, EndLocked, Moves, Typed, Owes
<1>3. ASSUME NEW c \in Tasks, CallTx(c, "atomic") \/ CallTx(c, "bare") PROVE TablesShown'
  BY <1>3, ShownRest DEF CallTx, Starts, Typed, Owes
<1>4. ASSUME NEW c \in Tasks, Begin(c) PROVE TablesShown'
  <2>1. job[c].stage = "begin" /\ UNCHANGED <<data, seen, dirty, unsaid>>
    BY <1>4 DEF Begin, Is
  <2>2. \A d \in Tasks : d # c => job'[d] = job[d]
    BY <1>4 DEF Begin, Moves, Typed
  <2>3. \A d \in Tasks, t \in DataTables : Owes(d, t) => d # c /\ Owes(d, t)'
    BY <2>1, <2>2 DEF Owes
  <2>4. CASE begun.by = NoTask
    BY <1>4, <2>4, <2>1, <2>3 DEF Begin, TablesShown
  <2>5. CASE begun.by # NoTask
    BY <1>4, <2>5, <2>1, <2>3 DEF Begin, TablesShown
  <2> QED BY <2>4, <2>5
<1>5. ASSUME NEW c \in Tasks, NEW t \in DataTables, BodyWrites(c, t) PROVE TablesShown'
  <2>1. UNCHANGED <<seen, dirty, unsaid, begun>>
    BY <1>5 DEF BodyWrites
  <2>2. \A u \in DataTables : data'[u] = IF u = t THEN data[u] \cup {c} ELSE data[u]
    BY <1>5 DEF BodyWrites, Typed, Rows
  <2>3. \A d \in Tasks, u \in DataTables : Owes(d, u) => Owes(d, u)'
    BY <1>5, <1>0 DEF BodyWrites, Owes, Typed, Jobs
  <2>4. Owes(c, t)'
    BY <1>5, <1>0 DEF BodyWrites, Owes, Typed, Jobs
  <2> QED BY <2>1, <2>2, <2>3, <2>4 DEF TablesShown
<1>6. ASSUME NEW c \in Tasks, BodyEnds(c) PROVE TablesShown'
  BY <1>6, <1>0, ShownRest DEF BodyEnds, Moves, Typed, Jobs, Owes
<1>7. ASSUME NEW c \in Tasks, BodyThrows(c) PROVE TablesShown'
  <2>1. job[c].stage = "body" /\ job[c].left = job[c].wrote /\ UNCHANGED <<data, seen, begun, dirty>>
    BY <1>7 DEF BodyThrows, Staged
  <2>2. \A d \in Tasks : d # c => job'[d] = job[d]
    BY <1>7 DEF BodyThrows, Moves, Typed
  <2>3. CASE job[c].kind = "atomic"
    <3>1. job'[c].left = job[c].left /\ job'[c].stage = "rollback" /\ UNCHANGED unsaid
      BY <1>7, <1>0, <2>3 DEF BodyThrows, Moves, Typed, Jobs
    <3>2. \A d \in Tasks, t \in DataTables : Owes(d, t) => Owes(d, t)'
      BY <2>2, <3>1 DEF Owes
    <3> QED BY <2>1, <3>1, <3>2 DEF TablesShown
  <2>4. CASE job[c].kind # "atomic"
    BY <1>7, <2>1, <2>4, <2>2 DEF BodyThrows, Owes, TablesShown
  <2> QED BY <2>3, <2>4
<1>8. ASSUME NEW c \in Tasks, TxCommits(c) PROVE TablesShown'
  <2>1. job[c].stage = "commit" /\ UNCHANGED <<data, seen, dirty, unsaid>>
    BY <1>8 DEF TxCommits, Is
  <2>2. \A d \in Tasks : d # c => job'[d] = job[d]
    BY <1>8 DEF TxCommits, Commit, Moves, Typed
  <2>3. job'[c].left = job[c].left /\ job'[c].stage \in {"notify", "rollback"}
    BY <1>8, <1>0 DEF TxCommits, Commit, Moves, Typed, Jobs
  <2>4. \A d \in Tasks, t \in DataTables : Owes(d, t) => Owes(d, t)'
    BY <2>2, <2>3 DEF Owes
  <2>5. begun' = begun \/ begun'.by = NoTask
    BY <1>8 DEF TxCommits, Commit, NoTx
  <2> QED BY <2>1, <2>4, <2>5 DEF TablesShown
<1>9. ASSUME NEW c \in Tasks, TxRollsBack(c) PROVE TablesShown'
  <2>1. begun.by = c /\ c # NoTask
    BY <1>9 DEF TxRollsBack, Is, OneTransaction, InTx
  <2>2. \A d \in Tasks : d # c => job'[d] = job[d]
    BY <1>9 DEF TxRollsBack, Moves, Typed
  <2>3. \A d \in Tasks, t \in DataTables : d # c /\ Owes(d, t) => Owes(d, t)'
    BY <2>2 DEF Owes
  <2>4. /\ data' = begun.before /\ begun'.by = NoTask /\ UNCHANGED <<seen, unsaid>>
        /\ dirty' = dirty \cup {t \in DataTables : seen[t] \ begun.before[t] # {}}
    BY <1>9 DEF TxRollsBack, NoTx
  <2> QED BY <2>1, <2>3, <2>4 DEF TablesShown
<1>10. ASSUME NEW c \in Tasks, NothingToTell(c) PROVE TablesShown'
  BY <1>10, ShownRest DEF NothingToTell, Moves, Typed, Owes
<1>11. ASSUME NEW c \in Tasks, NEW t \in DataTables, Notify(c, t) PROVE TablesShown'
  <2>1. UNCHANGED <<data, begun>> /\ dirty' = dirty \ {t} /\ unsaid' = unsaid \ {t}
    BY <1>11 DEF Notify
  <2>2. \A u \in DataTables : seen'[u] = IF u = t THEN data[t] ELSE seen[u]
    BY <1>11 DEF Notify, Typed, Rows
  <2>3. \A d \in Tasks : d # c => job'[d] = job[d]
    BY <1>11 DEF Notify, Typed
  <2>4. \A u \in DataTables : u # t /\ Owes(c, u) => Owes(c, u)'
    <3> SUFFICES ASSUME NEW u \in DataTables, u # t, Owes(c, u) PROVE Owes(c, u)'
      OBVIOUS
    <3>1. u \in Remaining(job[c].left, t) /\ job[c].stage = "notify"
      BY <1>11 DEF Notify, Owes, Remaining
    <3>2. job'[c].left = Remaining(job[c].left, t) /\ job'[c].stage = "notify"
      BY <1>11, <1>0, <3>1 DEF Notify, Typed, Jobs
    <3> QED BY <3>1, <3>2 DEF Owes
  <2>5. \A d \in Tasks, u \in DataTables : u # t /\ Owes(d, u) => Owes(d, u)'
    BY <2>3, <2>4 DEF Owes
  <2>6. \A u \in DataTables : u # t => (u \in dirty \cup unsaid <=> u \in dirty' \cup unsaid')
    BY <2>1
  <2>7. ASSUME NEW u \in DataTables, u # t PROVE ShownOf(u)'
    BY <2>1, <2>2, <2>5, <2>6, <2>7 DEF TablesShown, ShownOf
  <2>8. ShownOf(t)'
    BY <2>1, <2>2 DEF TablesShown, ShownOf
  <2> QED BY <2>7, <2>8 DEF TablesShown, ShownOf
<1>12. ASSUME NEW c \in Tasks, NEW t \in DataTables, NEW key, Request(c, t, key) PROVE TablesShown'
  BY <1>12, ShownRest DEF Request, Typed, Owes
<1>13. ASSUME NEW c \in Tasks, ReadsMirror(c) PROVE TablesShown'
  BY <1>13, ShownRest DEF ReadsMirror, Is, Typed, Owes
<1>14. ASSUME NEW c \in Tasks, Executes(c) PROVE TablesShown'
  <2>1. job[c].kind = "rest" /\ job[c].stage = "execute" /\ UNCHANGED <<seen, begun, dirty, unsaid>>
    BY <1>14 DEF Executes, Is
  <2>2. \A d \in Tasks : d # c => job'[d] = job[d]
    BY <1>14 DEF Executes, Moves, Typed
  <2>3. \A d \in Tasks, t \in DataTables : Owes(d, t) => Owes(d, t)'
    BY <2>1, <2>2 DEF Owes
  <2>4. CASE UNCHANGED data
    BY <2>1, <2>3, <2>4 DEF TablesShown
  <2>5. ASSUME NEW t \in job[c].left, data' = [data EXCEPT ![t] = @ \cup {c}],
               job' = [job EXCEPT ![c].stage = "log", ![c].wrote = job[c].left]
        PROVE  TablesShown'
    BY <2>5, <1>0, <2>1, <2>3 DEF Typed, Jobs, Owes, Rows, TablesShown
  <2> QED BY <1>14, <2>4, <2>5 DEF Executes
<1>15. ASSUME NEW c \in Tasks, LogsRow(c) PROVE TablesShown'
  BY <1>15, <1>0 DEF LogsRow, Is, Moves, Typed, Jobs, Owes, TablesShown
<1>16. CASE ShutDown
  BY <1>16 DEF ShutDown, TablesShown, Owes, rowState
<1> QED BY <1>1, <1>2, <1>3, <1>4, <1>5, <1>6, <1>7, <1>8, <1>9, <1>10, <1>11, <1>12, <1>13, <1>14,
           <1>15, <1>16 DEF TasksNext

\* With everyone at an end nobody owes anything.
LEMMA ShownSettled ==
  ASSUME TablesShown PROVE SettledIsShown
  BY DEF SettledIsShown, TablesShown, Owes, Ended

-----------------------------------------------------------------------------
(* Every step keeps the Idempotency-Keys.                                  *)

\* A step that leaves the requests to be carried out as they are.
LEMMA KeysRest ==
  ASSUME Keys, usedKeys \subseteq usedKeys',
         \A d \in Tasks : CarriedOut(d)' => CarriedOut(d) /\ job'[d].on = job[d].on
  PROVE  Keys'
  BY DEF Keys, KeyedOnce

\* Every step leaves at most one request carried out per Idempotency-Key (runOp).
LEMMA KeysStep == Typed /\ Staged /\ Keys /\ TasksNext => Keys'
<1> SUFFICES ASSUME Typed, Staged, Keys, TasksNext PROVE Keys'
  OBVIOUS
<1>1. ASSUME NEW c \in Tasks, NEW k \in TaskKeys, CallLock(c, k) \/ TickTryLock(c, k) PROVE Keys'
  <2>1. usedKeys' = usedKeys
    BY <1>1 DEF CallLock, TickTryLock
  <2>2. job'[c].kind \in {"lock", "tryLock"} /\ \A d \in Tasks : d # c => job'[d] = job[d]
    <3>1. CASE CallLock(c, k)
      BY <3>1 DEF CallLock, Typed, NotYet
    <3>2. CASE TickTryLock(c, k) /\ chain[k] = NoTask
      BY <3>2 DEF TickTryLock, Typed, NotYet
    <3>3. CASE TickTryLock(c, k) /\ chain[k] # NoTask
      BY <3>3 DEF TickTryLock, Typed, NotYet
    <3> QED BY <1>1, <3>1, <3>2, <3>3
  <2> QED BY <2>1, <2>2, KeysRest DEF CarriedOut
<1>2. ASSUME NEW c \in Tasks, RunLocked(c) \/ EndLocked(c) PROVE Keys'
  BY SMTT(30), <1>2, KeysRest DEF RunLocked, EndLocked, Moves, CarriedOut, Typed, Jobs, Staged, Suits
<1>3. ASSUME NEW c \in Tasks, CallTx(c, "atomic") \/ CallTx(c, "bare") PROVE Keys'
  BY ZenonT(40), <1>3, KeysRest DEF CallTx, Starts, NotYet, CarriedOut, Typed
<1>4. ASSUME NEW c \in Tasks, Begin(c) \/ BodyEnds(c) \/ BodyThrows(c) PROVE Keys'
  BY <1>4, KeysRest DEF Begin, BodyEnds, BodyThrows, Moves, CarriedOut, Is, Typed, Jobs
<1>5. ASSUME NEW c \in Tasks, TxCommits(c) \/ TxRollsBack(c) \/ NothingToTell(c) PROVE Keys'
  BY <1>5, KeysRest DEF TxCommits, Commit, TxRollsBack, NothingToTell, Moves, CarriedOut, Is, Typed, Jobs
<1>6. ASSUME NEW c \in Tasks, NEW t \in DataTables, BodyWrites(c, t) \/ Notify(c, t) PROVE Keys'
  BY <1>6, KeysRest DEF BodyWrites, Notify, CarriedOut, Typed, Jobs
<1>7. ASSUME NEW c \in Tasks, NEW t \in DataTables, NEW key \in IdemKeys \cup {"none"},
             Request(c, t, key)
      PROVE  Keys'
  <2> DEFINE r == [NotYet EXCEPT !.kind = "rest", !.on = key, !.left = {t},
                                 !.stage = IF key \in usedKeys THEN "replayed" ELSE "read"]
  <2>1. job' = [job EXCEPT ![c] = r]
    BY <1>7 DEF Request
  <2>2. r.kind = "rest" /\ r.on = key /\ r.stage = IF key \in usedKeys THEN "replayed" ELSE "read"
    BY DEF NotYet
  <2> HIDE DEF r
  <2>3. \A d \in Tasks : job'[d] = IF d = c THEN r ELSE job[d]
    BY <2>1 DEF Typed
  <2>4. usedKeys' = usedKeys \cup ({key} \cap IdemKeys)
    BY <1>7 DEF Request, KeyTaken
  <2> QED BY <2>2, <2>3, <2>4 DEF Keys, KeyedOnce, CarriedOut
<1>8. ASSUME NEW c \in Tasks, ReadsMirror(c) \/ LogsRow(c) PROVE Keys'
  BY <1>8, KeysRest DEF ReadsMirror, LogsRow, Moves, CarriedOut, Is, Typed, Jobs
<1>9. ASSUME NEW c \in Tasks, Executes(c) PROVE Keys'
  BY <1>9, KeysRest DEF Executes, Moves, CarriedOut, Is, Typed, Jobs
<1>10. CASE ShutDown
  BY <1>10, KeysRest DEF ShutDown, CarriedOut
<1> QED BY <1>1, <1>2, <1>3, <1>4, <1>5, <1>6, <1>7, <1>8, <1>9, <1>10 DEF TasksNext

-----------------------------------------------------------------------------
(* The theorems.                                                           *)

\* Every step keeps the whole of the invariant.
LEMMA TasksIInvStep == TasksIInv /\ [TasksNext]_taskVars => TasksIInv'
<1> SUFFICES ASSUME TasksIInv, [TasksNext]_taskVars PROVE TasksIInv'
  OBVIOUS
<1>1. CASE TasksNext
  BY <1>1, TypedStep, LinesStep, HandleStep, ShownStep, KeysStep DEF TasksIInv
<1>2. CASE UNCHANGED taskVars
  <2>1. Typed' /\ Staged'
    BY <1>2 DEF taskVars, lockState, rowState, TasksIInv, Typed, Staged, Is
  <2>2. Lines' /\ TriesWaitForNobody'
    BY <1>2, LinesRest DEF taskVars, lockState, TasksIInv, TriesWaitForNobody, Is
  <2>3. OneTransaction'
    BY <1>2 DEF taskVars, lockState, rowState, TasksIInv, OneTransaction, Is
  <2>4. TablesShown'
    BY <1>2 DEF taskVars, lockState, rowState, TasksIInv, TablesShown, Owes
  <2>5. Keys'
    BY <1>2, KeysRest DEF taskVars, lockState, rowState, TasksIInv, CarriedOut
  <2> QED BY <2>1, <2>2, <2>3, <2>4, <2>5 DEF TasksIInv
<1> QED BY <1>1, <1>2

\* Where it holds so does the type invariant.
LEMMA TasksIInvTyped ==
  ASSUME TasksIInv PROVE TasksTypeOK
<1>1. \A c \in Tasks : job[c] \in Jobs
  BY DEF TasksIInv, Typed
<1>2. \A c \in Tasks : job[c].stage = "notify" => job[c].left # {} \/ job[c].kind # "rest"
  BY DEF TasksIInv, Staged, Is
<1>3. \A k \in TaskKeys : chain[k] # NoTask => job[chain[k]].stage \in {"queued", "running"}
  <2> SUFFICES ASSUME NEW k \in TaskKeys, chain[k] # NoTask
               PROVE  job[chain[k]].stage \in {"queued", "running"}
    OBVIOUS
  <2>1. PICK n \in Nat : \E q \in [1..n -> Tasks] : Line(k, n, q)
    BY DEF TasksIInv, Lines
  <2>2. PICK q \in [1..n -> Tasks] : Line(k, n, q)
    BY <2>1
  <2>3. n # 0 /\ chain[k] = q[n]
    BY <2>2 DEF Line
  <2>4. n \in 1..n /\ q[n] \in Tasks
    BY <2>3
  <2>5. InLine(q[n], k)
    BY <2>2, <2>4 DEF Line
  <2> QED BY <2>3, <2>5 DEF InLine
<1>4. begun.by # NoTask => job[begun.by].stage \in {"body", "commit", "rollback"}
  BY DEF TasksIInv, Typed, OneTransaction, InTx
<1> QED BY <1>1, <1>2, <1>3, <1>4 DEF TasksTypeOK, TasksIInv, Typed, Jobs, AllStages, Rows

\* Whatever the application's tasks do, and in whatever order their awaits return, work
\* under one lock key runs alone, an atomic group leaves all of its writes or none, what was
\* written is broadcast, and one request of an Idempotency-Key is carried out
\* (server.lock, tryLock and tx, the REST handler, applyServerOp).
THEOREM TasksAlwaysHold == TasksSpec => []TasksInv
<1>1. TasksIInv => TasksInv
  BY TasksIInvTyped, LinesRunAlone, HandleWhole, ShownSettled DEF TasksIInv, TasksInv, Keys
<1> QED BY TasksInitIInv, TasksIInvStep, <1>1, PTL DEF TasksSpec

-----------------------------------------------------------------------------
(* CatchUp.                                                                *)

Done(w)   == work[w].stage = "done"
InLog      == oplog \cup swept
Buffered  == Waiting \cup flushing.batch

\* HLCs: a write that has started has one of its own, none that is under way has
\* that of a watermark, and none is ahead of the clock.
HlcsAreNew ==
  /\ \A w \in LogWrites :
       IF work[w].stage = "new" THEN At(w) = 0 ELSE 0 < At(w) /\ At(w) <= now /\ At(w) # since
  /\ \A w \in LogWrites : work[w].stage = "stamped" => At(w) # mark
  /\ \A w, x \in LogWrites : w # x /\ At(w) = At(x) => At(w) = 0
  /\ since <= now /\ mark <= now

\* Where a write is: what is logged, buffered or swept has been applied, and what has
\* been applied is in one of these places, was lost, or waits to be logged by another
\* instance.
WritesArePlaced ==
  /\ view \subseteq appDb
  /\ \A w \in InLog \cup Buffered : Done(w) /\ w \in appDb
  /\ \A w \in appDb : \/ w \in InLog \cup lost \cup Buffered
                      \/ work[w].stage = "stamped" /\ work[w].path = "away"
  /\ \A w \in LogWrites : Done(w) => w \in InLog \cup lost \cup Buffered
  /\ ~flushing.on => flushing.batch = {}

\* What the client is doing.
ClientInv ==
  /\ asked # "nothing" => linked
  /\ asked = "nothing" /\ linked => since > 0

\* Cutoffs only grow; the one in memory is not ahead of the stored one; no write that
\* the server stamps and that is under way is below that of the compaction under way.
CutoffsGrow ==
  /\ sweep.by = "nobody" => sweep.at = 0
  /\ sweep.at <= cutoff.stored /\ cutoff.mem <= cutoff.stored /\ cutoff.stored <= now
  /\ ~cutoff.loaded => cutoff.mem = 0
  /\ \A w \in LogWrites :
       work[w].stage = "stamped" /\ work[w].path # "consistent" => At(w) >= sweep.at

\* What was swept is below the stored cutoff, and below the one in memory unless this
\* instance has not heard of it.
SweptIsKnown ==
  /\ \A w \in swept : At(w) < cutoff.stored
  /\ \A w \in swept \ unseen : cutoff.loaded => At(w) < cutoff.mem
  /\ unseen \subseteq swept

\* What the log cannot tell the client of.
Exempt(w) ==
  w \in late \cup unflushed \cup unseen \cup lost \/ (work[w].path = "away" /\ ~polling)

\* The client has yet to read what it lacks.
Unread == ~linked \/ asked \in {"flush", "read", "snapshot"}

\* A write the client lacks will be told to it: by its next resume, being newer than
\* its watermark, once logged; or else by a broadcast that is due, or by the poll.  One
\* that is still in the buffer when the client has read is older than its watermark.
ToldLater(w) ==
  /\ w \in InLog =>
       /\ At(w) > since /\ asked # "complete"
       /\ \/ Unread
          \/ TableOf[w] \in due
          \/ polling /\ w \in oplog /\ At(w) > mark /\ At(w) >= sweep.at
  /\ w \in Buffered /\ ~Unread /\ asked = "nothing" => At(w) < since

NothingForgotten == \A w \in appDb \ view : Exempt(w) \/ ToldLater(w)

LogInv ==
  CatchUpTypeOK /\ HlcsAreNew /\ WritesArePlaced /\ ClientInv /\ CutoffsGrow /\ SweptIsKnown
    /\ NothingForgotten

-----------------------------------------------------------------------------
(* Types.                                                                  *)

\* A mishap uses up some of the budget.
LEMMA Spent ==
  ASSUME CatchUpTypeOK, NEW b \in {"writes", "cuts", "crashes", "failures", "sweeps"}, SpendCatchUp(b)
  PROVE  catchUpLeft' \in [{"writes", "cuts", "crashes", "failures", "sweeps", "mishaps"} -> Nat]
<1>1. /\ catchUpLeft \in [{"writes", "cuts", "crashes", "failures", "sweeps", "mishaps"} -> Nat]
      /\ catchUpLeft[b] > 0 /\ catchUpLeft["mishaps"] > 0
      /\ catchUpLeft' = [catchUpLeft EXCEPT ![b] = @ - 1, !["mishaps"] = @ - 1]
  BY DEF CatchUpTypeOK, SpendCatchUp
<1>2. /\ catchUpLeft[b] - 1 \in Nat /\ catchUpLeft["mishaps"] - 1 \in Nat
      /\ b # "mishaps"
  BY <1>1
<1> QED BY <1>1, <1>2

\* A write that is applied changes its stage, and no other write.
LEMMA AppliedWork ==
  ASSUME CatchUpTypeOK, NEW w \in LogWrites, NEW path, Applied(w, path)
  PROVE  /\ work' \in [LogWrites -> [path : Paths, at : Nat, stage : {"new", "stamped", "done"}]]
         /\ work[w].stage = "stamped" /\ work[w].path = path /\ work'[w].stage = "done"
         /\ \A x \in LogWrites : work'[x].at = work[x].at /\ work'[x].path = work[x].path
         /\ \A x \in LogWrites \ {w} : work'[x] = work[x]
         /\ appDb' = appDb \cup {w}
<1>1. /\ work \in [LogWrites -> [path : Paths, at : Nat, stage : {"new", "stamped", "done"}]]
      /\ work' = [work EXCEPT ![w].stage = "done"]
      /\ work[w].stage = "stamped" /\ work[w].path = path /\ appDb' = appDb \cup {w}
  BY DEF Applied, CatchUpTypeOK
<1>2. /\ work[w] \in [path : Paths, at : Nat, stage : {"new", "stamped", "done"}]
      /\ work'[w] = [work[w] EXCEPT !.stage = "done"]
      /\ \A x \in LogWrites \ {w} : work'[x] = work[x]
      /\ DOMAIN work' = LogWrites
  BY <1>1
<1>3. /\ work'[w].at = work[w].at /\ work'[w].path = work[w].path /\ work'[w].stage = "done"
      /\ work'[w] \in [path : Paths, at : Nat, stage : {"new", "stamped", "done"}]
  BY <1>2
<1> QED BY <1>1, <1>2, <1>3

\* The tables are the ones the writes are of.
LEMMA TablesAreHere ==
  ASSUME CatchUpAssumption
  PROVE  /\ \A w \in LogWrites : TableOf[w] \in TablesHere
         /\ TableOrder \in Seq(TablesHere)
BY DEF CatchUpAssumption, TablesHere

\* Every variable keeps its type.
LEMMA TypeNext ==
  ASSUME CatchUpAssumption, CatchUpTypeOK, [CatchUpNext]_catchUpVars
  PROVE  CatchUpTypeOK'
<1> USE DEF logVars, sweepVars, clientVars, pastVars
<1>1. ASSUME NEW w \in LogWrites, Stamp(w)
      PROVE  CatchUpTypeOK'
  <2>1. PICK path \in Paths, at \in Nat :
          /\ work' = [work EXCEPT ![w] = [path |-> path, at |-> at, stage |-> "stamped"]]
          /\ now' \in Nat
    <3>1. PathsOf[w] \subseteq Paths
      BY DEF CatchUpAssumption
    <3>2. PICK path \in PathsOf[w] :
            \E at \in IF path = "consistent" THEN {OldHlc, now + 1} ELSE {now + 1} :
              /\ at \notin Used
              /\ work' = [work EXCEPT ![w] = [path |-> path, at |-> at, stage |-> "stamped"]]
              /\ now' = IF at > now THEN at ELSE now
      BY <1>1 DEF Stamp
    <3>3. PICK at \in IF path = "consistent" THEN {OldHlc, now + 1} ELSE {now + 1} :
            /\ at \notin Used
            /\ work' = [work EXCEPT ![w] = [path |-> path, at |-> at, stage |-> "stamped"]]
            /\ now' = IF at > now THEN at ELSE now
      BY <3>2
    <3>4. now \in Nat /\ at \in Nat
      BY <3>3 DEF CatchUpTypeOK, OldHlc
    <3> QED BY <3>1, <3>2, <3>3, <3>4
  <2>2. work' \in [LogWrites -> [path : Paths, at : Nat, stage : {"new", "stamped", "done"}]]
    BY <2>1 DEF CatchUpTypeOK
  <2> QED BY <1>1, <2>1, <2>2 DEF Stamp, CatchUpTypeOK
<1>2. ASSUME NEW w \in LogWrites, WriteEager(w)
      PROVE  CatchUpTypeOK'
  <2>1. /\ buffers' \in [TablesHere -> SUBSET LogWrites]
        /\ \A t \in TablesHere : \A x \in buffers'[t] : TableOf[x] = t
    BY SMTT(30), TablesAreHere, <1>2 DEF CatchUpTypeOK, WriteEager
  <2>2. /\ work' \in [LogWrites -> [path : Paths, at : Nat, stage : {"new", "stamped", "done"}]]
        /\ appDb' = appDb \cup {w}
    BY <1>2, AppliedWork DEF WriteEager
  <2> QED BY <1>2, <2>1, <2>2 DEF WriteEager, Shown, CatchUpTypeOK
<1>3. ASSUME NEW w \in LogWrites, WriteEagerFull(w)
      PROVE  CatchUpTypeOK'
  <2>1. /\ work' \in [LogWrites -> [path : Paths, at : Nat, stage : {"new", "stamped", "done"}]]
        /\ appDb' = appDb \cup {w}
    BY <1>3, AppliedWork DEF WriteEagerFull
  <2> QED BY <1>3, <2>1, Spent DEF WriteEagerFull, Shown, Logged, CatchUpTypeOK
<1>4. ASSUME NEW w \in LogWrites, WriteDurable(w)
      PROVE  CatchUpTypeOK'
  <2>1. /\ work' \in [LogWrites -> [path : Paths, at : Nat, stage : {"new", "stamped", "done"}]]
        /\ appDb' = appDb \cup {w}
    BY <1>4, AppliedWork DEF WriteDurable
  <2> QED BY <1>4, <2>1 DEF WriteDurable, Shown, Logged, CatchUpTypeOK
<1>5. ASSUME NEW w \in LogWrites, WriteThenBroadcast(w)
      PROVE  CatchUpTypeOK'
  <2>1. /\ work' \in [LogWrites -> [path : Paths, at : Nat, stage : {"new", "stamped", "done"}]]
        /\ appDb' = appDb \cup {w}
    BY <1>5, AppliedWork DEF WriteThenBroadcast
  <2> QED BY <1>5, <2>1, TablesAreHere DEF WriteThenBroadcast, Logged, CatchUpTypeOK
<1>6. ASSUME NEW w \in LogWrites, WriteAway(w) \/ LogAway(w)
      PROVE  CatchUpTypeOK'
  <2>1. /\ work' \in [LogWrites -> [path : Paths, at : Nat, stage : {"new", "stamped", "done"}]]
        /\ appDb' = appDb \cup {w}
    BY <1>6, AppliedWork DEF WriteAway, LogAway, CatchUpTypeOK
  <2> QED BY <1>6, <2>1 DEF WriteAway, LogAway, Logged, CatchUpTypeOK
<1>7. ASSUME NEW t \in TablesHere, BroadcastTable(t)
      PROVE  CatchUpTypeOK'
  BY <1>7 DEF BroadcastTable, Shown, OfTables, CatchUpTypeOK
<1>8. ASSUME FlushTick \/ Reconnect
      PROVE  CatchUpTypeOK'
  <2>1. flushing' \in [on : BOOLEAN, rest : Seq(TablesHere), batch : SUBSET LogWrites]
    <3>1. flushing \in [on : BOOLEAN, rest : Seq(TablesHere), batch : SUBSET LogWrites]
      BY DEF CatchUpTypeOK
    <3>2. [on |-> TRUE, rest |-> TableOrder, batch |-> {}] \in
            [on : BOOLEAN, rest : Seq(TablesHere), batch : SUBSET LogWrites]
      BY TablesAreHere
    <3>3. flushing' = FlushFrom(flushing)
      BY <1>8 DEF FlushTick, Reconnect
    <3> QED BY <3>1, <3>2, <3>3 DEF FlushFrom
  <2>2. CASE FlushTick
    BY <2>1, <2>2 DEF FlushTick, CatchUpTypeOK
  <2>3. CASE Reconnect
    BY <2>1, <2>3 DEF Reconnect, CatchUpTypeOK
  <2> QED BY <1>8, <2>2, <2>3
<1>9. ASSUME FlushTakes
      PROVE  CatchUpTypeOK'
  <2>1. Head(flushing.rest) \in TablesHere /\ Tail(flushing.rest) \in Seq(TablesHere)
    BY <1>9 DEF FlushTakes, CatchUpTypeOK
  <2> QED BY <1>9, <2>1 DEF FlushTakes, CatchUpTypeOK
<1>10. ASSUME FlushWrites
       PROVE  CatchUpTypeOK'
  <2>1. PICK failed \in SUBSET flushing.batch :
          /\ catchUpLeft' = catchUpLeft \/ SpendCatchUp("failures")
          /\ Logged(flushing.batch \ failed)
          /\ buffers' = [t \in TablesHere |-> buffers[t] \cup OfTables(failed, {t})]
    BY <1>10 DEF FlushWrites
  <2>2. flushing \in [on : BOOLEAN, rest : Seq(TablesHere), batch : SUBSET LogWrites]
    BY DEF CatchUpTypeOK
  <2>3. /\ buffers' \in [TablesHere -> SUBSET LogWrites]
        /\ \A t \in TablesHere : \A x \in buffers'[t] : TableOf[x] = t
    BY <2>1, <2>2 DEF OfTables, CatchUpTypeOK
  <2>4. flushing' \in [on : BOOLEAN, rest : Seq(TablesHere), batch : SUBSET LogWrites]
    BY <1>10, <2>2 DEF FlushWrites
  <2>5. oplog' \subseteq LogWrites /\ late' \subseteq LogWrites
    BY <2>1, <2>2 DEF Logged, CatchUpTypeOK
  <2>6. catchUpLeft' \in [{"writes", "cuts", "crashes", "failures", "sweeps", "mishaps"} -> Nat]
    BY <2>1, Spent DEF CatchUpTypeOK
  <2> QED BY <1>10, <2>3, <2>4, <2>5, <2>6 DEF FlushWrites, CatchUpTypeOK
<1>11. ASSUME FlushEnds
       PROVE  CatchUpTypeOK'
  BY <1>11 DEF FlushEnds, NotFlushing, CatchUpTypeOK
<1>12. ASSUME CrashHere
       PROVE  CatchUpTypeOK'
  <2>1. work' \in [LogWrites -> [path : Paths, at : Nat, stage : {"new", "stamped", "done"}]]
    <3>1. \A w \in LogWrites : /\ work[w] \in [path : Paths, at : Nat, stage : {"new", "stamped", "done"}]
                               /\ [work[w] EXCEPT !.stage = "done"] \in
                                    [path : Paths, at : Nat, stage : {"new", "stamped", "done"}]
      <4> SUFFICES ASSUME NEW w \in LogWrites
                   PROVE  /\ work[w] \in [path : Paths, at : Nat, stage : {"new", "stamped", "done"}]
                          /\ [work[w] EXCEPT !.stage = "done"] \in
                                 [path : Paths, at : Nat, stage : {"new", "stamped", "done"}]
        OBVIOUS
      <4>1. work[w] \in [path : Paths, at : Nat, stage : {"new", "stamped", "done"}]
        BY DEF CatchUpTypeOK
      <4> QED BY <4>1
    <3> QED BY <1>12, <3>1 DEF CrashHere
  <2>4. lost' \subseteq LogWrites
    BY <1>12 DEF Waiting, CatchUpTypeOK, CrashHere
  <2>5. buffers' \in [TablesHere -> SUBSET LogWrites] /\ \A t \in TablesHere : buffers'[t] = {}
    BY <1>12 DEF CrashHere
  <2>2. /\ unseen' \subseteq LogWrites
        /\ cutoff' \in [mem : Nat, loaded : BOOLEAN, stored : Nat]
        /\ sweep' \in [by : {"nobody", "here", "away"}, at : Nat]
    BY <1>12 DEF CrashHere, CatchUpTypeOK
  <2>3. catchUpLeft' \in [{"writes", "cuts", "crashes", "failures", "sweeps", "mishaps"} -> Nat]
    BY <1>12, Spent DEF CrashHere
  <2>6. flushing' \in [on : BOOLEAN, rest : Seq(TablesHere), batch : SUBSET LogWrites]
    BY <1>12, TablesAreHere DEF CrashHere, NotFlushing
  <2> QED BY <1>12, <2>1, <2>2, <2>3, <2>4, <2>5, <2>6 DEF CrashHere, CatchUpTypeOK
<1>13. ASSUME Cut
       PROVE  CatchUpTypeOK'
  BY <1>13, Spent DEF Cut, CatchUpTypeOK
<1>14. ASSUME ResumeReads
       PROVE  CatchUpTypeOK'
  <2>1. cutoff' \in [mem : Nat, loaded : BOOLEAN, stored : Nat]
    BY <1>14 DEF ResumeReads, CutoffLoaded, CatchUpTypeOK
  <2>2. view' \subseteq LogWrites /\ unflushed' \subseteq LogWrites
    <3>1. Waiting \subseteq LogWrites
      BY DEF Waiting, CatchUpTypeOK
    <3> QED BY <1>14, <3>1 DEF ResumeReads, OfTables, CatchUpTypeOK
  <2>3. since' \in Nat /\ asked' \in {"nothing", "flush", "read", "complete", "snapshot"}
    BY <1>14 DEF ResumeReads, CatchUpTypeOK
  <2> QED BY <1>14, <2>1, <2>2, <2>3 DEF ResumeReads, CatchUpTypeOK
<1>15. ASSUME BootstrapReads \/ Completes
       PROVE  CatchUpTypeOK'
  <2>1. CASE BootstrapReads
    BY <2>1 DEF BootstrapReads, CatchUpTypeOK
  <2>2. CASE Completes
    <3>1. now' \in Nat /\ since' \in Nat
      BY <2>2 DEF Completes, CatchUpTypeOK
    <3> QED BY <2>2, <3>1 DEF Completes, CatchUpTypeOK
  <2> QED BY <1>15, <2>1, <2>2
<1>16. ASSUME PollTick
       PROVE  CatchUpTypeOK'
  <2>1. mark' \in Nat
    <3>1. PICK w \in oplog : mark' = At(w)
      BY <1>16 DEF PollTick
    <3>2. w \in LogWrites
      BY <3>1 DEF CatchUpTypeOK
    <3> QED BY <3>1, <3>2 DEF At, CatchUpTypeOK
  <2>2. due' \subseteq TablesHere /\ late' \subseteq LogWrites
    <3>1. oplog \subseteq LogWrites /\ due \subseteq TablesHere /\ late \subseteq LogWrites
      BY DEF CatchUpTypeOK
    <3>2. ChangedSince(mark) \subseteq TablesHere
      BY <3>1, TablesAreHere, Zenon DEF ChangedSince
    <3> QED BY <1>16, <3>1, <3>2 DEF PollTick
  <2> QED BY <1>16, <2>1, <2>2 DEF PollTick, CatchUpTypeOK
<1>17. ASSUME NEW by \in {"here", "away"}, CutoffMoves(by)
       PROVE  CatchUpTypeOK'
  <2>1. PICK at \in OldHlc + 1 .. now :
          /\ sweep' = [by |-> by, at |-> at]
          /\ cutoff' = [(IF by = "here" THEN [CutoffLoaded EXCEPT !.mem = at] ELSE cutoff) EXCEPT !.stored = at]
    BY <1>17 DEF CutoffMoves
  <2>2. at \in Nat
    BY <2>1 DEF CatchUpTypeOK, OldHlc
  <2>3. cutoff' \in [mem : Nat, loaded : BOOLEAN, stored : Nat]
    BY <2>1, <2>2 DEF CutoffLoaded, CatchUpTypeOK
  <2> QED BY <1>17, Spent, <2>1, <2>2, <2>3 DEF CutoffMoves, CatchUpTypeOK
<1>18. ASSUME SweepDeletes
       PROVE  CatchUpTypeOK'
  BY <1>18 DEF SweepDeletes, CatchUpTypeOK
<1>19. CASE UNCHANGED catchUpVars
  BY <1>19 DEF catchUpVars, Waiting, CatchUpTypeOK
<1> QED BY <1>1, <1>2, <1>3, <1>4, <1>5, <1>6, <1>7, <1>8, <1>9, <1>10, <1>11, <1>12, <1>13, <1>14,
           <1>15, <1>16, <1>17, <1>18, <1>19 DEF CatchUpNext, WriteStep

-----------------------------------------------------------------------------
(* What the steps do.                                                      *)

\* The sets are of writes, the watermarks and HLCs are numbers.
LEMMA SetsAndNumbers ==
  ASSUME CatchUpTypeOK
  PROVE  /\ appDb \subseteq LogWrites /\ view \subseteq LogWrites
         /\ InLog \subseteq LogWrites /\ Buffered \subseteq LogWrites
         /\ lost \subseteq LogWrites /\ unseen \subseteq LogWrites
         /\ \A x \in LogWrites : At(x) \in Nat
         /\ now \in Nat /\ since \in Nat /\ mark \in Nat
         /\ sweep.at \in Nat /\ cutoff.mem \in Nat /\ cutoff.stored \in Nat
         /\ cutoff = [mem |-> cutoff.mem, loaded |-> cutoff.loaded, stored |-> cutoff.stored]
<1>1. Waiting \subseteq LogWrites /\ flushing.batch \subseteq LogWrites
  BY DEF CatchUpTypeOK, Waiting
<1>2. \A x \in LogWrites : At(x) \in Nat
  BY DEF CatchUpTypeOK, At
<1> QED BY <1>1, <1>2 DEF CatchUpTypeOK, InLog, Buffered

\* But for a write that starts, none changes its HLC or its path, and a stage that
\* changes is that of a write under way, which is done.
LEMMA HlcStays ==
  ASSUME CatchUpTypeOK, [CatchUpNext]_catchUpVars, \A w \in LogWrites : ~Stamp(w),
         NEW x \in LogWrites
  PROVE  /\ work'[x].at = work[x].at /\ work'[x].path = work[x].path
         /\ \/ work'[x].stage = work[x].stage
            \/ work[x].stage = "stamped" /\ work'[x].stage = "done"
<1> DEFINE Goal == /\ work'[x].at = work[x].at /\ work'[x].path = work[x].path
                   /\ \/ work'[x].stage = work[x].stage
                      \/ work[x].stage = "stamped" /\ work'[x].stage = "done"
<1>1. ASSUME NEW w \in LogWrites, NEW path, Applied(w, path)
      PROVE  Goal
  BY <1>1, AppliedWork
<1>2. ASSUME work' = work
      PROVE  Goal
  BY <1>2
<1>3. ASSUME CrashHere
      PROVE  Goal
  BY <1>3 DEF CrashHere, CatchUpTypeOK
<1> HIDE DEF Goal
<1>4. ASSUME NEW w \in LogWrites, WriteStep(w)
      PROVE  Goal
  BY <1>4, <1>1, <1>2
     DEF WriteStep, WriteEager, WriteEagerFull, WriteDurable, WriteThenBroadcast, WriteAway, LogAway
<1>5. ASSUME UNCHANGED catchUpVars
      PROVE  Goal
  BY <1>2, <1>5 DEF catchUpVars, logVars
<1>6. ASSUME CatchUpNext
      PROVE  Goal
  BY <1>2, <1>3, <1>4, <1>6
     DEF CatchUpNext, BroadcastTable, FlushTick, FlushTakes, FlushWrites, FlushEnds, Reconnect, Cut,
         ResumeReads, BootstrapReads, Completes, PollTick, CutoffMoves, SweepDeletes, logVars
<1>7. Goal
  BY <1>5, <1>6
<1> QED BY <1>7 DEF Goal

\* What waits in the buffer, as the buffers change.
LEMMA WaitingIn ==
  ASSUME CatchUpAssumption, CatchUpTypeOK, NEW x
  PROVE  x \in Waiting <=> x \in LogWrites /\ x \in buffers[TableOf[x]]
<1>1. /\ buffers \in [TablesHere -> SUBSET LogWrites]
      /\ \A t \in TablesHere : \A w \in buffers[t] : TableOf[w] = t
      /\ \A w \in LogWrites : TableOf[w] \in TablesHere
  BY TablesAreHere DEF CatchUpTypeOK
<1>2. ASSUME x \in Waiting
      PROVE  x \in LogWrites /\ x \in buffers[TableOf[x]]
  <2>1. PICK t \in TablesHere : x \in buffers[t]
    BY <1>2 DEF Waiting
  <2> QED BY <1>1, <2>1
<1>3. ASSUME x \in LogWrites, x \in buffers[TableOf[x]]
      PROVE  x \in Waiting
  BY <1>1, <1>3 DEF Waiting
<1> QED BY <1>2, <1>3

\* A step that leaves the buffers and the flush alone.
LEMMA BufferedStays ==
  ASSUME buffers' = buffers, flushing'.batch = flushing.batch
  PROVE  Buffered' = Buffered
BY DEF Buffered, Waiting

\* An eager write that found room waits.
LEMMA EagerWaits ==
  ASSUME CatchUpAssumption, CatchUpTypeOK, NEW w \in LogWrites, WriteEager(w)
  PROVE  Buffered' = Buffered \cup {w}
<1>1. /\ buffers' = [buffers EXCEPT ![TableOf[w]] = @ \cup {w}] /\ flushing' = flushing
      /\ TableOf[w] \in TablesHere /\ buffers \in [TablesHere -> SUBSET LogWrites]
  BY TablesAreHere DEF WriteEager, CatchUpTypeOK
<1>2. Waiting' = Waiting \cup {w}
  BY <1>1 DEF Waiting
<1> QED BY <1>1, <1>2 DEF Buffered

\* A flush that takes a table's writes holds them.
LEMMA FlushHolds ==
  ASSUME CatchUpAssumption, CatchUpTypeOK, FlushTakes
  PROVE  Buffered' = Buffered
<1> DEFINE t == Head(flushing.rest)
<1>1. /\ buffers' = [buffers EXCEPT ![t] = {}] /\ flushing'.batch = buffers[t]
      /\ flushing.batch = {} /\ t \in TablesHere /\ buffers \in [TablesHere -> SUBSET LogWrites]
  BY DEF FlushTakes, CatchUpTypeOK
<1> HIDE DEF t
<1>2. Waiting = Waiting' \cup buffers[t]
  BY <1>1 DEF Waiting
<1> QED BY <1>1, <1>2 DEF Buffered

\* A flush writes what it took, but for what failed, which waits again.
LEMMA FlushPutsBack ==
  ASSUME CatchUpAssumption, CatchUpTypeOK, FlushWrites
  PROVE  \E failed \in SUBSET flushing.batch :
           /\ Logged(flushing.batch \ failed)
           /\ Buffered' = Waiting \cup failed
<1>1. PICK failed \in SUBSET flushing.batch :
        /\ Logged(flushing.batch \ failed)
        /\ buffers' = [t \in TablesHere |-> buffers[t] \cup OfTables(failed, {t})]
  BY DEF FlushWrites
<1>2. flushing'.batch = {} /\ failed \subseteq LogWrites
  BY DEF FlushWrites, CatchUpTypeOK
<1>3. Waiting' = Waiting \cup failed
  <2>1. ASSUME NEW x \in Waiting'
        PROVE  x \in Waiting \cup failed
    <3>1. PICK t \in TablesHere : x \in buffers'[t]
      BY <2>1 DEF Waiting
    <3> QED BY <1>1, <3>1 DEF Waiting, OfTables
  <2>2. ASSUME NEW x \in Waiting
        PROVE  x \in Waiting'
    <3>1. PICK t \in TablesHere : x \in buffers[t]
      BY <2>2 DEF Waiting
    <3> QED BY <1>1, <3>1 DEF Waiting
  <2>3. ASSUME NEW x \in failed
        PROVE  x \in Waiting'
    BY <1>2, <2>3, TablesAreHere, <1>1 DEF OfTables, Waiting
  <2> QED BY <2>1, <2>2, <2>3
<1> QED BY <1>1, <1>2, <1>3 DEF Buffered

-----------------------------------------------------------------------------
(* Each part of the invariant is kept by every step.                       *)

\* An HLC that is used is no other write's, and none under way has a watermark's.
LEMMA HlcsNext ==
  ASSUME CatchUpAssumption, LogInv, [CatchUpNext]_catchUpVars
  PROVE  HlcsAreNew'
<1>1. CatchUpTypeOK /\ HlcsAreNew /\ WritesArePlaced
  BY DEF LogInv
<1>2. /\ now \in Nat /\ since \in Nat /\ mark \in Nat
      /\ \A x \in LogWrites : At(x) \in Nat
      /\ since <= now /\ mark <= now
  BY <1>1, SetsAndNumbers DEF HlcsAreNew
<1>3. ASSUME NEW w \in LogWrites, Stamp(w)
      PROVE  HlcsAreNew'
  <2>1. PICK path \in PathsOf[w] :
          \E at \in IF path = "consistent" THEN {OldHlc, now + 1} ELSE {now + 1} :
            /\ at \notin Used
            /\ work' = [work EXCEPT ![w] = [path |-> path, at |-> at, stage |-> "stamped"]]
            /\ now' = IF at > now THEN at ELSE now
    BY <1>3 DEF Stamp
  <2>2. PICK at \in IF path = "consistent" THEN {OldHlc, now + 1} ELSE {now + 1} :
          /\ at \notin Used
          /\ work' = [work EXCEPT ![w] = [path |-> path, at |-> at, stage |-> "stamped"]]
          /\ now' = IF at > now THEN at ELSE now
    BY <2>1
  <2>3. at \in Nat /\ 0 < at /\ at <= now' /\ now <= now' /\ now' \in Nat
    BY <1>2, <2>2 DEF OldHlc
  <2>4. /\ since' = since /\ mark' = mark /\ at # since /\ at # mark
        /\ \A x \in LogWrites : at # At(x)
    BY <1>3, <2>2 DEF Stamp, Used, clientVars
  <2>5. /\ work'[w] = [path |-> path, at |-> at, stage |-> "stamped"]
        /\ \A x \in LogWrites \ {w} : work'[x] = work[x]
    BY <1>1, <2>2 DEF CatchUpTypeOK
  <2>6. \A x \in LogWrites :
          IF work'[x].stage = "new" THEN work'[x].at = 0
          ELSE 0 < work'[x].at /\ work'[x].at <= now' /\ work'[x].at # since'
    BY SMTT(30), <1>1, <1>2, <2>3, <2>4, <2>5 DEF HlcsAreNew, At
  <2>7. \A x \in LogWrites : work'[x].stage = "stamped" => work'[x].at # mark'
    BY <1>1, <2>4, <2>5 DEF HlcsAreNew, At
  <2>8. \A x, y \in LogWrites : x # y /\ work'[x].at = work'[y].at => work'[x].at = 0
    BY <1>1, <2>4, <2>5 DEF HlcsAreNew, At
  <2>9. since' <= now' /\ mark' <= now'
    BY <1>2, <2>3, <2>4
  <2> QED BY <2>6, <2>7, <2>8, <2>9 DEF HlcsAreNew, At
<1>4. ASSUME \A w \in LogWrites : ~Stamp(w)
      PROVE  HlcsAreNew'
  <2>1. \A x \in LogWrites :
          /\ work'[x].at = work[x].at
          /\ \/ work'[x].stage = work[x].stage
             \/ work[x].stage = "stamped" /\ work'[x].stage = "done"
    BY <1>1, <1>4, HlcStays
  <2>2. ASSUME now' \in Nat, since' \in Nat, mark' \in Nat, now <= now', since' <= now', mark' <= now',
               \/ since' = since \/ since' = 0 \/ since' > now,
               \/ mark' = mark \/ mark' = 0 \/ \E v \in LogWrites : Done(v) /\ mark' = At(v)
        PROVE  HlcsAreNew'
    <3>1. \A x \in LogWrites :
            IF work'[x].stage = "new" THEN work'[x].at = 0
            ELSE 0 < work'[x].at /\ work'[x].at <= now' /\ work'[x].at # since'
      <4> SUFFICES ASSUME NEW x \in LogWrites
                   PROVE  IF work'[x].stage = "new" THEN work'[x].at = 0
                          ELSE 0 < work'[x].at /\ work'[x].at <= now' /\ work'[x].at # since'
        OBVIOUS
      <4>1. IF work[x].stage = "new" THEN At(x) = 0
            ELSE 0 < At(x) /\ At(x) <= now /\ At(x) # since
        BY <1>1 DEF HlcsAreNew
      <4>2. At(x) \in Nat /\ work'[x].at = At(x)
        BY <1>2, <2>1 DEF At
      <4>3. work'[x].stage = "new" <=> work[x].stage = "new"
        BY <2>1
      <4> QED BY <1>2, <2>2, <4>1, <4>2, <4>3
    <3>2. ASSUME NEW x \in LogWrites, work'[x].stage = "stamped"
          PROVE  work'[x].at # mark'
      <4>1. work[x].stage = "stamped" /\ work'[x].at = At(x) /\ At(x) > 0 /\ At(x) # mark
        BY <1>1, <1>2, <2>1, <3>2 DEF HlcsAreNew, At
      <4>2. ASSUME NEW v \in LogWrites, Done(v), mark' = At(v)
            PROVE  At(x) # mark'
        BY <1>1, <1>2, <4>1, <4>2 DEF HlcsAreNew, Done
      <4> QED BY <1>2, <2>2, <4>1, <4>2
    <3>3. \A x, y \in LogWrites : x # y /\ work'[x].at = work'[y].at => work'[x].at = 0
      <4> SUFFICES ASSUME NEW x \in LogWrites, NEW y \in LogWrites, x # y, work'[x].at = work'[y].at
                   PROVE  work'[x].at = 0
        OBVIOUS
      <4>1. At(x) = work'[x].at /\ At(y) = work'[y].at
        BY <2>1 DEF At
      <4> QED BY <1>1, <4>1 DEF HlcsAreNew
    <3> QED BY <2>2, <3>1, <3>2, <3>3 DEF HlcsAreNew, At
  <2>3. ASSUME now' = now, since' = since, mark' = mark
        PROVE  HlcsAreNew'
    BY <1>2, <2>2, <2>3
  <2>4. ASSUME NEW w \in LogWrites, WriteStep(w)
        PROVE  HlcsAreNew'
    BY <1>4, <2>3, <2>4
       DEF WriteStep, WriteEager, WriteEagerFull, WriteDurable, WriteThenBroadcast, WriteAway,
           LogAway, clientVars
  <2>5. ASSUME NEW t \in TablesHere, BroadcastTable(t)
        PROVE  HlcsAreNew'
    BY <2>3, <2>5 DEF BroadcastTable
  <2>6. ASSUME FlushTick \/ FlushTakes \/ FlushWrites \/ FlushEnds
        PROVE  HlcsAreNew'
    BY <2>3, <2>6 DEF FlushTick, FlushTakes, FlushWrites, FlushEnds, clientVars
  <2>7. CASE CrashHere
    BY <1>2, <2>2, <2>7 DEF CrashHere
  <2>8. ASSUME Reconnect \/ Cut \/ BootstrapReads
        PROVE  HlcsAreNew'
    BY <2>3, <2>8 DEF Reconnect, Cut, BootstrapReads, logVars, sweepVars
  <2>9. CASE ResumeReads
    BY <2>9, <1>2, <2>2 DEF ResumeReads, logVars
  <2>10. CASE Completes
    BY <2>10, <1>2, <2>2 DEF Completes
  <2>11. CASE PollTick
    <3>1. PICK v \in oplog : mark' = At(v)
      BY <2>11 DEF PollTick
    <3>2. v \in LogWrites /\ Done(v)
      BY <1>1, <3>1, SetsAndNumbers DEF WritesArePlaced, InLog
    <3>3. At(v) <= now
      BY <1>1, <3>2 DEF HlcsAreNew, Done
    <3> QED BY <1>2, <2>2, <2>11, <3>1, <3>2, <3>3 DEF PollTick, clientVars
  <2>12. ASSUME SweepDeletes \/ \E by \in {"here", "away"} : CutoffMoves(by)
         PROVE  HlcsAreNew'
    BY <2>3, <2>12 DEF SweepDeletes, CutoffMoves, logVars, clientVars
  <2>13. CASE UNCHANGED catchUpVars
    BY <2>3, <2>13 DEF catchUpVars, logVars, clientVars
  <2> QED BY <2>4, <2>5, <2>6, <2>7, <2>8, <2>9, <2>10, <2>11, <2>12, <2>13 DEF CatchUpNext
<1> QED BY <1>3, <1>4

\* Every write stays in its place, or moves to the next: a write that is done is in the
\* log, swept, buffered or lost, and nothing is in the log that was not applied.
LEMMA PlacedNext ==
  ASSUME CatchUpAssumption, LogInv, [CatchUpNext]_catchUpVars
  PROVE  WritesArePlaced'
<1>1. CatchUpTypeOK /\ HlcsAreNew /\ WritesArePlaced
  BY DEF LogInv
<1> DEFINE Placed == InLog \cup lost \cup Buffered
<1>2. ASSUME \A w \in LogWrites : ~Stamp(w),
             view' \subseteq appDb', appDb \subseteq appDb',
             \A x \in InLog' \cup Buffered' :
               x \in InLog \cup Buffered \/ (work'[x].stage = "done" /\ x \in appDb'),
             \A x \in appDb' : \/ x \in appDb \cup Placed'
                               \/ work'[x].stage = "stamped" /\ work'[x].path = "away",
             Placed \subseteq Placed',
             \A x \in LogWrites : work'[x].stage = "done" => work[x].stage = "done" \/ x \in Placed',
             ~flushing'.on => flushing'.batch = {}
      PROVE  WritesArePlaced'
  <2>1. \A x \in LogWrites :
          /\ work'[x].path = work[x].path
          /\ \/ work'[x].stage = work[x].stage
             \/ work[x].stage = "stamped" /\ work'[x].stage = "done"
    BY <1>1, <1>2, HlcStays
  <2>2. InLog \subseteq LogWrites /\ Buffered \subseteq LogWrites /\ appDb \subseteq LogWrites
    BY <1>1, SetsAndNumbers
  <2>3. ASSUME NEW x \in InLog' \cup Buffered'
        PROVE  work'[x].stage = "done" /\ x \in appDb'
    <3>1. CASE x \in InLog \cup Buffered
      BY <1>1, <1>2, <2>1, <2>2, <3>1 DEF WritesArePlaced, Done
    <3> QED BY <1>2, <3>1
  <2>4. \A x \in LogWrites : work'[x].stage = "done" => x \in Placed'
    BY <1>1, <1>2 DEF WritesArePlaced, Done
  <2>5. ASSUME NEW x \in appDb'
        PROVE  x \in Placed' \/ (work'[x].stage = "stamped" /\ work'[x].path = "away")
    <3>1. ASSUME x \in appDb, x \notin Placed'
          PROVE  work'[x].stage = "stamped" /\ work'[x].path = "away"
      BY <1>1, <1>2, <2>1, <2>2, <2>4, <3>1 DEF WritesArePlaced
    <3> QED BY <1>2, <3>1
  <2> QED BY <1>2, <2>3, <2>4, <2>5 DEF WritesArePlaced, Done
<1>3. /\ InLog \subseteq LogWrites /\ Buffered \subseteq LogWrites
      /\ view \subseteq appDb /\ (~flushing.on => flushing.batch = {})
      /\ appDb \subseteq LogWrites
  BY <1>1, SetsAndNumbers DEF WritesArePlaced
<1>4. ASSUME NEW w \in LogWrites, Stamp(w)
      PROVE  WritesArePlaced'
  BY <1>4, <1>1, BufferedStays, <1>3
     DEF Stamp, clientVars, pastVars, CatchUpTypeOK, InLog, WritesArePlaced, Done
<1>5. ASSUME \A w \in LogWrites : ~Stamp(w)
      PROVE  WritesArePlaced'
  \* A write that is applied and placed.
  <2>1. ASSUME NEW w \in LogWrites, NEW path, Applied(w, path), flushing' = flushing,
               view' \subseteq view \cup {w}, InLog \subseteq InLog', lost \subseteq lost',
               InLog' \cup Buffered' \subseteq InLog \cup Buffered \cup {w},
               Buffered \subseteq Buffered', w \in Placed'
        PROVE  WritesArePlaced'
    <3>1. /\ appDb' = appDb \cup {w} /\ work'[w].stage = "done"
          /\ \A x \in LogWrites \ {w} : work'[x] = work[x]
      BY <1>1, <2>1, AppliedWork
    <3> QED BY <1>2, <1>3, <1>5, <2>1, <3>1
  \* A step that applies nothing and moves nothing.
  <2>2. ASSUME work' = work, appDb' = appDb, view' \subseteq appDb, InLog' = InLog, lost' = lost,
               Buffered' = Buffered, ~flushing'.on => flushing'.batch = {}
        PROVE  WritesArePlaced'
    BY <1>2, <1>3, <1>5, <2>2
  <2>3. ASSUME NEW w \in LogWrites, WriteStep(w)
        PROVE  WritesArePlaced'
    <3>1. CASE WriteEager(w)
      BY <1>1, <3>1, EagerWaits, <2>1 DEF WriteEager, Shown, InLog, pastVars
    <3>2. CASE WriteEagerFull(w)
      BY <3>2, BufferedStays, <2>1 DEF WriteEagerFull, Shown, Logged, InLog
    <3>3. CASE WriteDurable(w)
      BY <3>3, BufferedStays, <2>1 DEF WriteDurable, Shown, Logged, InLog
    <3>4. ASSUME WriteThenBroadcast(w) \/ LogAway(w)
          PROVE  WritesArePlaced'
      <4>1. PICK path : Applied(w, path)
        BY <3>4 DEF WriteThenBroadcast, LogAway
      <4>2. /\ flushing' = flushing /\ buffers' = buffers
            /\ view' = view /\ swept' = swept /\ lost' = lost /\ oplog' = oplog \cup {w}
        BY <3>4 DEF WriteThenBroadcast, LogAway, Logged, clientVars
      <4>3. Buffered' = Buffered
        BY <4>2, BufferedStays
      <4> QED BY <2>1, <4>1, <4>2, <4>3 DEF InLog
    <3>5. CASE WriteAway(w)
      BY <3>5, BufferedStays, <1>2, <1>3, <1>5 DEF WriteAway, clientVars, pastVars, InLog
    <3> QED BY <1>5, <2>3, <3>1, <3>2, <3>3, <3>4, <3>5 DEF WriteStep
  <2>4. ASSUME NEW t \in TablesHere, BroadcastTable(t)
        PROVE  WritesArePlaced'
    BY <1>3, <2>4, BufferedStays, <2>2 DEF BroadcastTable, Shown, OfTables, pastVars, InLog
  <2>5. ASSUME FlushTick \/ FlushEnds \/ Reconnect
        PROVE  WritesArePlaced'
    <3>1. /\ work' = work /\ appDb' = appDb /\ buffers' = buffers /\ view' = view
          /\ oplog' = oplog /\ swept' = swept /\ lost' = lost
      BY <2>5 DEF FlushTick, FlushEnds, Reconnect, pastVars, clientVars
    <3>2. flushing'.batch = flushing.batch /\ (~flushing'.on => flushing'.batch = {})
      <4>1. ASSUME flushing' = FlushFrom(flushing)
            PROVE  flushing'.batch = flushing.batch /\ (~flushing'.on => flushing'.batch = {})
        <5>1. CASE flushing.on
          BY <4>1, <5>1 DEF FlushFrom
        <5>2. CASE ~flushing.on
          BY <1>3, <4>1, <5>2 DEF FlushFrom
        <5> QED BY <5>1, <5>2
      <4>2. CASE FlushEnds
        BY <4>2 DEF FlushEnds, NotFlushing
      <4> QED BY <2>5, <4>1, <4>2 DEF FlushTick, Reconnect
    <3>3. Buffered' = Buffered /\ InLog' = InLog
      BY <3>1, <3>2, BufferedStays DEF InLog
    <3> QED BY <1>3, <2>2, <3>1, <3>2, <3>3
  <2>6. CASE FlushTakes
    BY <2>6, <1>1, FlushHolds, <1>3, <2>2 DEF FlushTakes, pastVars, clientVars, InLog
  <2>7. CASE FlushWrites
    <3>1. PICK failed \in SUBSET flushing.batch :
            /\ Logged(flushing.batch \ failed)
            /\ Buffered' = Waiting \cup failed
      BY <1>1, <2>7, FlushPutsBack
    <3>2. /\ work' = work /\ appDb' = appDb /\ view' = view /\ flushing'.batch = {}
          /\ swept' = swept /\ lost' = lost /\ oplog' = oplog \cup (flushing.batch \ failed)
      BY <2>7, <3>1 DEF FlushWrites, clientVars, Logged
    <3>3. InLog' \cup Buffered' = InLog \cup Buffered
      BY <3>1, <3>2 DEF InLog, Buffered
    <3> QED BY <1>2, <1>3, <1>5, <3>2, <3>3
  <2>8. CASE CrashHere
    BY <2>8, <1>2, <1>3, <1>5 DEF CrashHere, Buffered, Waiting, NotFlushing, InLog
  <2>9. ASSUME Cut \/ Completes \/ PollTick \/ \E by \in {"here", "away"} : CutoffMoves(by)
        PROVE  WritesArePlaced'
    BY <2>9, BufferedStays, <1>3, <2>2
       DEF Cut, Completes, PollTick, CutoffMoves, logVars, pastVars, clientVars, InLog
  <2>10. ASSUME ResumeReads \/ BootstrapReads
         PROVE  WritesArePlaced'
    BY <2>10, <1>3, BufferedStays, <2>2
       DEF ResumeReads, BootstrapReads, logVars, pastVars, OfTables, InLog
  <2>11. CASE SweepDeletes
    BY <2>11, BufferedStays, <1>3, <2>2 DEF SweepDeletes, clientVars, InLog
  <2>12. CASE UNCHANGED catchUpVars
    BY <2>12, BufferedStays, <1>3, <2>2 DEF catchUpVars, logVars, pastVars, clientVars, InLog
  <2> QED BY <2>3, <2>4, <2>5, <2>6, <2>7, <2>8, <2>9, <2>10, <2>11, <2>12 DEF CatchUpNext
<1> QED BY <1>4, <1>5

\* A client that asks is connected; one that is connected and asks nothing has a
\* watermark.
LEMMA ClientNext ==
  ASSUME CatchUpAssumption, LogInv, [CatchUpNext]_catchUpVars
  PROVE  ClientInv'
<1>1. CatchUpTypeOK /\ ClientInv
  BY DEF LogInv
<1>2. now \in Nat /\ since \in Nat
  BY <1>1, SetsAndNumbers
<1>3. ASSUME linked' = linked, asked' = asked, since' = since
      PROVE  ClientInv'
  BY <1>1, <1>3 DEF ClientInv
<1>4. ASSUME NEW w \in LogWrites, WriteStep(w)
      PROVE  ClientInv'
  BY <1>3, <1>4
     DEF WriteStep, Stamp, WriteEager, WriteEagerFull, WriteDurable, WriteThenBroadcast, WriteAway,
         LogAway, clientVars
<1>5. ASSUME NEW t \in TablesHere, BroadcastTable(t)
      PROVE  ClientInv'
  BY <1>3, <1>5 DEF BroadcastTable
<1>6. CASE FlushEnds
  BY <1>1, <1>6 DEF FlushEnds, ClientInv
<1>7. CASE CrashHere
  BY <1>7 DEF CrashHere, ClientInv
<1>8. ASSUME Reconnect \/ Cut
      PROVE  ClientInv'
  BY <1>8 DEF Reconnect, Cut, ClientInv
<1>9. CASE ResumeReads
  BY <1>9, <1>1 DEF ResumeReads, ClientInv
<1>10. CASE BootstrapReads
  BY <1>10, <1>1 DEF BootstrapReads, ClientInv
<1>11. CASE Completes
  BY <1>11, <1>2 DEF Completes, ClientInv
<1>12. ASSUME \/ FlushTick \/ FlushTakes \/ FlushWrites \/ PollTick \/ SweepDeletes
              \/ \E by \in {"here", "away"} : CutoffMoves(by)
       PROVE  ClientInv'
  BY <1>3, <1>12 DEF FlushTick, FlushTakes, FlushWrites, PollTick, SweepDeletes, CutoffMoves, clientVars
<1>13. CASE UNCHANGED catchUpVars
  BY <1>3, <1>13 DEF catchUpVars, clientVars
<1> QED BY <1>4, <1>5, <1>6, <1>7, <1>8, <1>9, <1>10, <1>11, <1>12, <1>13 DEF CatchUpNext

\* Cutoffs grow, and pass nothing that this server or another has yet to log.
LEMMA CutoffsNext ==
  ASSUME CatchUpAssumption, LogInv, [CatchUpNext]_catchUpVars
  PROVE  CutoffsGrow'
<1>1. CatchUpTypeOK /\ HlcsAreNew /\ CutoffsGrow
  BY DEF LogInv
<1>2. /\ now \in Nat /\ sweep.at \in Nat /\ cutoff.mem \in Nat /\ cutoff.stored \in Nat
      /\ \A x \in LogWrites : At(x) \in Nat
      /\ sweep.at <= cutoff.stored /\ cutoff.mem <= cutoff.stored /\ cutoff.stored <= now
  BY <1>1, SetsAndNumbers DEF CutoffsGrow
<1>3. ASSUME NEW w \in LogWrites, Stamp(w)
      PROVE  CutoffsGrow'
  <2>1. PICK path \in PathsOf[w] :
          \E at \in IF path = "consistent" THEN {OldHlc, now + 1} ELSE {now + 1} :
            /\ at \notin Used
            /\ work' = [work EXCEPT ![w] = [path |-> path, at |-> at, stage |-> "stamped"]]
            /\ now' = IF at > now THEN at ELSE now
    BY <1>3 DEF Stamp
  <2>2. PICK at \in IF path = "consistent" THEN {OldHlc, now + 1} ELSE {now + 1} :
          /\ work' = [work EXCEPT ![w] = [path |-> path, at |-> at, stage |-> "stamped"]]
          /\ now' = IF at > now THEN at ELSE now
    BY <2>1
  <2>3. now' \in Nat /\ now <= now' /\ sweep' = sweep /\ cutoff' = cutoff
    BY <1>2, <1>3, <2>2 DEF Stamp, sweepVars, OldHlc
  <2>4. /\ work'[w] = [path |-> path, at |-> at, stage |-> "stamped"]
        /\ \A x \in LogWrites \ {w} : work'[x] = work[x]
    BY <1>1, <2>2 DEF CatchUpTypeOK
  <2>5. path # "consistent" => at >= sweep.at
    BY <1>2, <2>2
  <2>6. \A x \in LogWrites :
          work'[x].stage = "stamped" /\ work'[x].path # "consistent" => work'[x].at >= sweep.at
    BY <1>1, <2>4, <2>5 DEF CutoffsGrow, At
  <2> QED BY <1>1, <1>2, <2>3, <2>6 DEF CutoffsGrow, At
<1>4. ASSUME \A w \in LogWrites : ~Stamp(w)
      PROVE  CutoffsGrow'
  <2>1. \A x \in LogWrites :
          /\ work'[x].at = work[x].at /\ work'[x].path = work[x].path
          /\ work'[x].stage = "stamped" => work[x].stage = "stamped"
    BY <1>1, <1>4, HlcStays
  <2>2. ASSUME now' \in Nat, now <= now', sweep' = sweep \/ (sweep'.at = 0),
               cutoff'.stored = cutoff.stored,
               cutoff'.mem \in Nat, cutoff'.mem <= cutoff.stored,
               cutoff'.loaded \/ cutoff'.mem = 0
        PROVE  CutoffsGrow'
    BY <1>1, <1>2, <2>1, <2>2 DEF CutoffsGrow, At
  <2>3. ASSUME now' = now, sweep' = sweep, cutoff' = cutoff
        PROVE  CutoffsGrow'
    BY <1>1, <1>2, <2>2, <2>3 DEF CutoffsGrow
  <2>4. ASSUME NEW w \in LogWrites, WriteStep(w)
        PROVE  CutoffsGrow'
    BY <1>4, <2>3, <2>4
       DEF WriteStep, WriteEager, WriteEagerFull, WriteDurable, WriteThenBroadcast, WriteAway,
           LogAway, sweepVars
  <2>5. ASSUME NEW t \in TablesHere, BroadcastTable(t)
        PROVE  CutoffsGrow'
    BY <2>3, <2>5 DEF BroadcastTable, sweepVars
  <2>6. ASSUME FlushTick \/ FlushTakes \/ FlushWrites \/ FlushEnds
        PROVE  CutoffsGrow'
    BY <2>3, <2>6 DEF FlushTick, FlushTakes, FlushWrites, FlushEnds, sweepVars
  <2>7. CASE CrashHere
    BY <2>7, <1>1, SetsAndNumbers, <1>2, <2>2 DEF CrashHere
  <2>8. ASSUME Reconnect \/ Cut \/ BootstrapReads \/ PollTick
        PROVE  CutoffsGrow'
    BY <2>3, <2>8 DEF Reconnect, Cut, BootstrapReads, PollTick, logVars, sweepVars
  <2>9. CASE ResumeReads
    BY <2>9, <1>1, SetsAndNumbers, <1>2, <2>2 DEF ResumeReads, logVars, CutoffLoaded
  <2>10. CASE Completes
    BY <2>10, <1>1, <1>2, <2>2 DEF Completes, sweepVars, CutoffsGrow
  <2>11. ASSUME NEW by \in {"here", "away"}, CutoffMoves(by)
         PROVE  CutoffsGrow'
    <3>1. PICK at \in OldHlc + 1 .. now :
            /\ OldEnough(at) /\ at >= cutoff.stored
            /\ by = "here" => at > CutoffLoaded.mem
            /\ sweep' = [by |-> by, at |-> at]
            /\ cutoff' = [(IF by = "here" THEN [CutoffLoaded EXCEPT !.mem = at] ELSE cutoff)
                            EXCEPT !.stored = at]
      BY <2>11 DEF CutoffMoves
    <3>2. at \in Nat /\ at <= now
      BY <1>2, <3>1 DEF OldHlc
    <3>3. sweep'.by # "nobody" /\ sweep'.at = at /\ now' = now
      BY <2>11, <3>1 DEF CutoffMoves, logVars
    <3>4. /\ cutoff'.stored = at
          /\ \/ cutoff'.mem = at /\ cutoff'.loaded
             \/ cutoff'.mem = cutoff.mem /\ cutoff'.loaded = cutoff.loaded
      BY <1>1, <3>1, SetsAndNumbers DEF CutoffLoaded
    <3>5. \A x \in LogWrites : work'[x].stage = "stamped" => work'[x].at >= at
      BY <2>1, <3>1 DEF OldEnough, At
    <3> QED BY <1>1, <1>2, <3>1, <3>2, <3>3, <3>4, <3>5 DEF CutoffsGrow, At
  <2>12. CASE SweepDeletes
    BY <2>12, <1>1, <1>2, <2>2 DEF SweepDeletes, CutoffsGrow
  <2>13. CASE UNCHANGED catchUpVars
    BY <2>3, <2>13 DEF catchUpVars, logVars, sweepVars
  <2> QED BY <2>4, <2>5, <2>6, <2>7, <2>8, <2>9, <2>10, <2>11, <2>12, <2>13 DEF CatchUpNext
<1> QED BY <1>3, <1>4

\* What is swept is below the stored cutoff, and below the one this instance knows,
\* unless another instance swept it below one it has not heard of.
LEMMA SweptNext ==
  ASSUME CatchUpAssumption, LogInv, [CatchUpNext]_catchUpVars
  PROVE  SweptIsKnown'
<1>1. CatchUpTypeOK /\ WritesArePlaced /\ CutoffsGrow /\ SweptIsKnown
  BY DEF LogInv
<1>2. /\ sweep.at \in Nat /\ cutoff.mem \in Nat /\ cutoff.stored \in Nat
      /\ \A x \in LogWrites : At(x) \in Nat
      /\ sweep.at <= cutoff.stored /\ cutoff.mem <= cutoff.stored
      /\ swept \subseteq LogWrites /\ oplog \subseteq LogWrites
  BY <1>1, SetsAndNumbers DEF CutoffsGrow, InLog
<1>3. \A x \in swept : work'[x].at = At(x)
  <2>1. CASE \A w \in LogWrites : ~Stamp(w)
    BY <1>1, <1>2, <2>1, HlcStays DEF At
  <2>2. ASSUME NEW w \in LogWrites, Stamp(w)
        PROVE  \A x \in swept : work'[x].at = At(x)
    BY <1>1, <2>2, <1>2 DEF Stamp, WritesArePlaced, InLog, Done, CatchUpTypeOK, At
  <2> QED BY <2>1, <2>2
\* Nothing is swept, and the cutoff does not fall.
<1>4. ASSUME swept' = swept, unseen' = unseen \/ (unseen' \subseteq unseen /\ ~cutoff'.loaded),
             cutoff'.stored \in Nat, cutoff'.stored >= cutoff.stored,
             cutoff'.loaded => \/ cutoff.loaded /\ cutoff'.mem = cutoff.mem
                               \/ cutoff'.mem \in Nat /\ cutoff'.mem >= cutoff.stored
      PROVE  SweptIsKnown'
  <2>1. ASSUME NEW w \in swept'
        PROVE  work'[w].at < cutoff'.stored
    BY <1>2, <1>3, <1>4, <2>1, <1>1 DEF SweptIsKnown
  <2>2. ASSUME NEW w \in swept' \ unseen', cutoff'.loaded
        PROVE  work'[w].at < cutoff'.mem
    BY <1>2, <1>3, <1>4, <2>2, <1>1 DEF SweptIsKnown
  <2>3. unseen' \subseteq swept'
    BY <1>1, <1>4 DEF SweptIsKnown
  <2> QED BY <2>1, <2>2, <2>3 DEF SweptIsKnown, At
<1>5. ASSUME swept' = swept, unseen' = unseen, cutoff' = cutoff
      PROVE  SweptIsKnown'
  BY <1>2, <1>4, <1>5
<1>6. ASSUME NEW w \in LogWrites, WriteStep(w)
      PROVE  SweptIsKnown'
  BY <1>5, <1>6
     DEF WriteStep, Stamp, WriteEager, WriteEagerFull, WriteDurable, WriteThenBroadcast, WriteAway,
         LogAway, sweepVars, pastVars
<1>7. ASSUME NEW t \in TablesHere, BroadcastTable(t)
      PROVE  SweptIsKnown'
  BY <1>5, <1>7 DEF BroadcastTable, sweepVars, pastVars
<1>8. ASSUME FlushTick \/ FlushTakes \/ FlushWrites \/ FlushEnds
      PROVE  SweptIsKnown'
  BY <1>5, <1>8 DEF FlushTick, FlushTakes, FlushWrites, FlushEnds, sweepVars, pastVars
<1>9. CASE CrashHere
  BY <1>9, <1>1, SetsAndNumbers, <1>2, <1>4 DEF CrashHere
<1>10. ASSUME Reconnect \/ Cut \/ BootstrapReads \/ Completes \/ PollTick
       PROVE  SweptIsKnown'
  BY <1>5, <1>10 DEF Reconnect, Cut, BootstrapReads, Completes, PollTick, sweepVars, pastVars
<1>11. CASE ResumeReads
  BY <1>11, <1>1, SetsAndNumbers, <1>2, <1>4 DEF ResumeReads, CutoffLoaded
<1>12. ASSUME NEW by \in {"here", "away"}, CutoffMoves(by)
       PROVE  SweptIsKnown'
  <2>1. PICK at \in OldHlc + 1 .. now :
          /\ OldEnough(at) /\ at >= cutoff.stored
          /\ by = "here" => at > CutoffLoaded.mem
          /\ sweep' = [by |-> by, at |-> at]
          /\ cutoff' = [(IF by = "here" THEN [CutoffLoaded EXCEPT !.mem = at] ELSE cutoff)
                          EXCEPT !.stored = at]
    BY <1>12 DEF CutoffMoves
  <2>2. at \in Nat
    BY <1>1, <2>1, SetsAndNumbers DEF OldHlc
  <2>3. /\ cutoff'.stored = at
        /\ \/ cutoff'.mem = at
           \/ cutoff'.mem = cutoff.mem /\ cutoff'.loaded = cutoff.loaded
    BY <1>1, <2>1, SetsAndNumbers DEF CutoffLoaded
  <2>4. swept' = swept /\ unseen' = unseen
    BY <1>12 DEF CutoffMoves, pastVars
  <2> QED BY <1>4, <2>1, <2>2, <2>3, <2>4
<1>13. CASE SweepDeletes
  <2> DEFINE below == {w \in oplog : At(w) < sweep.at}
  <2>1. /\ swept' = swept \cup below /\ cutoff' = cutoff /\ work' = work
        /\ unseen' = unseen \cup (IF cutoff.loaded /\ cutoff.mem < sweep.at THEN below ELSE {})
    BY <1>13 DEF SweepDeletes
  <2>2. \A w \in below : At(w) < cutoff.stored
    BY <1>2
  <2>3. \A w \in below \ unseen' : cutoff.loaded => At(w) < cutoff.mem
    BY <1>2, <2>1
  <2>4. unseen' \subseteq swept'
    BY <1>1, <2>1 DEF SweptIsKnown
  <2> HIDE DEF below
  <2>5. /\ \A w \in swept' : work'[w].at < cutoff'.stored
        /\ \A w \in swept' \ unseen' : cutoff'.loaded => work'[w].at < cutoff'.mem
    BY <1>1, <2>1, <2>2, <2>3 DEF SweptIsKnown, At
  <2> QED BY <2>4, <2>5 DEF SweptIsKnown, At
<1>14. CASE UNCHANGED catchUpVars
  BY <1>5, <1>14 DEF catchUpVars, sweepVars, pastVars
<1> QED BY <1>6, <1>7, <1>8, <1>9, <1>10, <1>11, <1>12, <1>13, <1>14 DEF CatchUpNext

\* What the log could not tell the client of stays so: no step takes a write from these
\* sets but a crash, which lets go of those that a restarted instance can tell of.
LEMMA ExemptStays ==
  ASSUME NEW x, Exempt(x), late \subseteq late', unflushed \subseteq unflushed',
         lost \subseteq lost', unseen \subseteq unseen', polling' = polling,
         work'[x].path = work[x].path
  PROVE  Exempt(x)'
BY DEF Exempt

\* A write that would be told still will be, when nothing has become of it, of the
\* client or of the poll.
LEMMA StillTold ==
  ASSUME NEW x, ToldLater(x), work'[x].at = work[x].at,
         since' = since, asked' = asked, linked' = linked, mark' = mark, polling' = polling,
         sweep' = sweep, due \subseteq due', x \in oplog => x \in oplog',
         x \in InLog' => x \in InLog, x \in Buffered' => x \in Buffered
  PROVE  ToldLater(x)'
BY DEF ToldLater, Unread, At

\* A client that has yet to read will be told what is newer than its watermark.
LEMMA ToldOnReading ==
  ASSUME NEW x, Unread', asked' # "complete", x \in InLog' => At(x)' > since'
  PROVE  ToldLater(x)'
BY DEF ToldLater

\* A write that was just logged is one the log could not tell of, or is above both
\* watermarks, and the client is not between its rows and its watermark.
LEMMA LoggedIsAbove ==
  ASSUME LogInv, NEW ws, Logged(ws), NEW x \in ws, x \in LogWrites, work[x].stage # "new"
  PROVE  \/ x \in late'
         \/ /\ At(x) > since /\ At(x) >= mark /\ asked # "complete"
            /\ work[x].stage = "stamped" => At(x) > mark
<1>1. At(x) \in Nat /\ since \in Nat /\ mark \in Nat /\ At(x) # since
  BY SetsAndNumbers DEF LogInv, HlcsAreNew
<1>2. work[x].stage = "stamped" => At(x) # mark
  BY DEF LogInv, HlcsAreNew
<1>3. x \in late' \/ ~(At(x) < since \/ At(x) < mark \/ asked = "complete")
  BY DEF Logged
<1> QED BY <1>1, <1>2, <1>3

\* The step of a write: the write itself, and the others.
LEMMA WriteTold ==
  ASSUME CatchUpAssumption, LogInv, NEW w \in LogWrites, WriteStep(w),
         [CatchUpNext]_catchUpVars
  PROVE  NothingForgotten'
<1>1. /\ CatchUpTypeOK /\ HlcsAreNew /\ WritesArePlaced /\ CutoffsGrow /\ NothingForgotten
      /\ appDb \subseteq LogWrites
  BY SetsAndNumbers DEF LogInv
\* The others.
<1>2. /\ appDb' \subseteq appDb \cup {w} /\ view \subseteq view'
      /\ late \subseteq late' /\ unflushed' = unflushed /\ lost \subseteq lost' /\ unseen' = unseen
      /\ swept' = swept /\ polling' = polling /\ linked' = linked /\ asked' = asked
      /\ since' = since /\ mark' = mark /\ sweep' = sweep /\ due \subseteq due'
      /\ oplog \subseteq oplog' /\ oplog' \subseteq oplog \cup {w}
  BY DEF WriteStep, Stamp, WriteEager, WriteEagerFull, WriteDurable, WriteThenBroadcast, WriteAway,
         LogAway, Applied, Shown, Logged, sweepVars, clientVars, pastVars
<1>3. InLog' \subseteq InLog \cup {w}
  BY <1>2 DEF InLog
<1>4. Buffered' \subseteq Buffered \cup {w}
  <2>1. CASE WriteEager(w)
    BY <1>1, <2>1, EagerWaits
  <2>2. ASSUME ~WriteEager(w)
        PROVE  buffers' = buffers /\ flushing' = flushing
    BY <2>2 DEF WriteStep, Stamp, WriteEagerFull, WriteDurable, WriteThenBroadcast, WriteAway, LogAway
  <2> QED BY <2>1, <2>2, BufferedStays
<1>5. \A x \in LogWrites \ {w} : work'[x] = work[x]
  <2>1. CASE Stamp(w)
    BY <1>1, <2>1 DEF Stamp, CatchUpTypeOK
  <2>2. ASSUME NEW path, Applied(w, path)
        PROVE  \A x \in LogWrites \ {w} : work'[x] = work[x]
    BY <1>1, <2>2, AppliedWork
  <2>3. CASE work' = work
    BY <2>3
  <2> QED BY <2>1, <2>2, <2>3
          DEF WriteStep, WriteEager, WriteEagerFull, WriteDurable, WriteThenBroadcast, WriteAway,
              LogAway
<1>6. ASSUME NEW x \in (appDb' \ view') \ {w}
      PROVE  Exempt(x)' \/ ToldLater(x)'
  <2>1. x \in appDb \ view /\ x \in LogWrites /\ work'[x] = work[x]
    BY <1>1, <1>2, <1>5, <1>6
  <2>2. CASE Exempt(x)
    BY <1>2, <2>1, <2>2, ExemptStays
  <2>3. CASE ToldLater(x)
    BY <1>3, <1>6, <1>4, <1>2, <2>1, <2>3, StillTold
  <2> QED BY <1>1, <2>1, <2>2, <2>3 DEF NothingForgotten
\* The write itself.
<1>7. ASSUME w \in appDb' \ view'
      PROVE  Exempt(w)' \/ ToldLater(w)'
  <2>1. ASSUME w \notin InLog', w \notin Buffered'
        PROVE  ToldLater(w)'
    BY <2>1 DEF ToldLater
  <2>2. CASE Stamp(w)
    BY <1>1, <2>2, <1>2, BufferedStays, <2>1 DEF Stamp, WritesArePlaced, Done, InLog
  <2>3. CASE WriteAway(w)
    BY <1>1, <2>3, <1>2, BufferedStays, <2>1 DEF WriteAway, WritesArePlaced, Done, InLog
  <2>4. ASSUME NEW path, Applied(w, path)
        PROVE  /\ work[w].stage = "stamped" /\ work[w].path = path
               /\ w \notin InLog /\ w \notin Buffered
               /\ work'[w].at = work[w].at /\ work'[w].path = work[w].path
    BY <1>1, <2>4, AppliedWork DEF WritesArePlaced, Done
  <2>5. CASE WriteEager(w)
    BY <1>7, <2>4, <2>5, <1>2 DEF WriteEager, Shown, ToldLater, Unread, InLog
  <2>6. ASSUME NEW path, Applied(w, path), Logged({w}), buffers' = buffers, flushing' = flushing,
               \/ ~linked \/ TableOf[w] \in due' \/ path = "away"
        PROVE  Exempt(w)' \/ ToldLater(w)'
    <3>1. /\ work[w].stage = "stamped" /\ work[w].path = path
          /\ w \notin InLog /\ w \notin Buffered
          /\ work'[w].at = work[w].at /\ work'[w].path = work[w].path
      BY <2>4, <2>6
    <3>2. \/ w \in late'
          \/ At(w) > since /\ At(w) > mark /\ asked # "complete"
      BY <2>6, <3>1, LoggedIsAbove
    <3>3. CASE w \in late'
      BY <3>3 DEF Exempt
    <3>4. ASSUME At(w) > since, At(w) > mark, asked # "complete"
          PROVE  Exempt(w)' \/ ToldLater(w)'
      <4>1. w \in oplog' /\ w \notin Buffered'
        BY <2>6, <3>1, BufferedStays DEF Logged
      <4>2. CASE path = "away" /\ ~polling
        BY <1>2, <3>1, <4>2 DEF Exempt
      <4>3. CASE path = "away" /\ polling
        BY <1>1, <3>1, <4>3, <1>2, <3>4, <4>1 DEF CutoffsGrow, ToldLater, At
      <4>4. CASE ~linked \/ TableOf[w] \in due'
        BY <1>2, <3>1, <3>4, <4>1, <4>4 DEF ToldLater, Unread, At
      <4> QED BY <2>6, <4>2, <4>3, <4>4
    <3> QED BY <3>2, <3>3, <3>4
  <2>7. CASE WriteEagerFull(w)
    <3>1. CASE Logged({w})
      BY <1>7, <2>7, <2>6, <3>1 DEF WriteEagerFull, Shown
    <3>2. CASE w \in lost'
      BY <3>2 DEF Exempt
    <3> QED BY <2>7, <3>1, <3>2 DEF WriteEagerFull
  <2>8. CASE WriteDurable(w)
    BY <1>7, <2>8, <2>6 DEF WriteDurable, Shown
  <2>9. CASE WriteThenBroadcast(w)
    <3>1. PICK path : Applied(w, path)
      BY <2>9 DEF WriteThenBroadcast
    <3>2. /\ buffers' = buffers /\ flushing' = flushing /\ TableOf[w] \in due' /\ Logged({w})
      BY <2>9 DEF WriteThenBroadcast
    <3> QED BY <2>6, <3>1, <3>2
  <2>10. CASE LogAway(w)
    BY <2>10, <2>6 DEF LogAway
  <2> QED BY <2>2, <2>3, <2>5, <2>7, <2>8, <2>9, <2>10 DEF WriteStep
<1> QED BY <1>6, <1>7 DEF NothingForgotten

\* Nothing is forgotten: the steps of the buffer, the client, the poll and compaction.
LEMMA ToldNext ==
  ASSUME CatchUpAssumption, LogInv, [CatchUpNext]_catchUpVars
  PROVE  NothingForgotten'
<1>1. /\ CatchUpTypeOK /\ HlcsAreNew /\ WritesArePlaced /\ ClientInv /\ CutoffsGrow /\ SweptIsKnown
      /\ NothingForgotten
  BY DEF LogInv
<1>2. /\ appDb \subseteq LogWrites /\ InLog \subseteq LogWrites /\ Buffered \subseteq LogWrites
      /\ \A x \in LogWrites : At(x) \in Nat
      /\ now \in Nat /\ since \in Nat /\ mark \in Nat
      /\ sweep.at \in Nat /\ cutoff.mem \in Nat /\ cutoff.stored \in Nat
  BY <1>1, SetsAndNumbers
<1>3. ASSUME NEW w \in LogWrites, WriteStep(w)
      PROVE  NothingForgotten'
  BY <1>3, WriteTold
<1>4. ASSUME \A w \in LogWrites : ~WriteStep(w)
      PROVE  NothingForgotten'
  <2>1. \A x \in LogWrites : work'[x].at = work[x].at /\ work'[x].path = work[x].path
    BY <1>1, <1>4, HlcStays DEF WriteStep
  <2>2. \A x \in appDb \ view : Exempt(x) \/ ToldLater(x)
    BY <1>1 DEF NothingForgotten
  \* A step that changes neither the client, nor the log, nor the poll, nor what waits.
  <2>3. ASSUME late \subseteq late', unflushed' = unflushed, lost' = lost, unseen' = unseen,
               polling' = polling, since' = since, asked' = asked, linked' = linked, mark' = mark,
               sweep' = sweep, due' = due, InLog' = InLog, oplog' = oplog, Buffered' = Buffered,
               appDb' = appDb, view' = view
        PROVE  NothingForgotten'
    <3>1. ASSUME NEW x \in appDb' \ view'
          PROVE  Exempt(x)' \/ ToldLater(x)'
      <4>1. x \in appDb \ view /\ work'[x].at = work[x].at /\ work'[x].path = work[x].path
        BY <1>2, <2>1, <2>3, <3>1
      <4>2. CASE Exempt(x)
        BY <2>3, <4>1, <4>2, ExemptStays
      <4>3. CASE ToldLater(x)
        BY <2>3, <4>1, <4>3, StillTold
      <4> QED BY <2>2, <4>1, <4>2, <4>3
    <3> QED BY <3>1 DEF NothingForgotten
  \* A step after which the client has yet to read, what it read before being above its
  \* watermark.
  <2>4. ASSUME Unread', asked' # "complete", since' = since \/ since' = 0,
               late \subseteq late', unflushed' = unflushed, lost \subseteq lost',
               unseen' = unseen, polling' = polling, InLog' = InLog, appDb' = appDb, view' = view
        PROVE  NothingForgotten'
    <3>1. ASSUME NEW x \in appDb' \ view'
          PROVE  Exempt(x)' \/ ToldLater(x)'
      <4>1. x \in appDb \ view /\ work'[x].at = work[x].at /\ work'[x].path = work[x].path
        BY <1>2, <2>1, <2>4, <3>1
      <4>2. CASE Exempt(x)
        BY <2>4, <4>1, <4>2, ExemptStays
      <4>3. CASE ToldLater(x)
        <5>1. ASSUME x \in InLog'
              PROVE  At(x)' > since'
          BY <1>2, <2>4, <4>1, <4>3, <5>1 DEF ToldLater, At
        <5> QED BY <2>4, <5>1, ToldOnReading
      <4> QED BY <2>2, <4>1, <4>2, <4>3
    <3> QED BY <3>1 DEF NothingForgotten
  <2>5. ASSUME NEW t \in TablesHere, BroadcastTable(t)
        PROVE  NothingForgotten'
    <3>1. /\ late' = late /\ unflushed' = unflushed /\ lost' = lost /\ unseen' = unseen
          /\ polling' = polling /\ since' = since /\ asked' = asked /\ linked' = linked
          /\ mark' = mark /\ sweep' = sweep /\ oplog' = oplog /\ swept' = swept
          /\ buffers' = buffers /\ flushing' = flushing /\ appDb' = appDb /\ due' = due \ {t}
          /\ view' = IF linked THEN view \cup {x \in appDb : TableOf[x] = t} ELSE view
      BY <2>5 DEF BroadcastTable, Shown, OfTables, sweepVars, pastVars
    <3>2. InLog' = InLog /\ Buffered' = Buffered
      BY <3>1, BufferedStays DEF InLog
    <3>3. ASSUME NEW x \in appDb' \ view'
          PROVE  Exempt(x)' \/ ToldLater(x)'
      <4>1. /\ x \in appDb \ view /\ work'[x].at = work[x].at /\ work'[x].path = work[x].path
            /\ ~linked \/ TableOf[x] # t
        BY <1>2, <2>1, <3>1, <3>3
      <4>2. CASE Exempt(x)
        BY <3>1, <4>1, <4>2, ExemptStays
      <4>3. CASE ToldLater(x)
        BY <3>1, <3>2, <4>1, <4>3 DEF ToldLater, Unread, At
      <4> QED BY <2>2, <4>1, <4>2, <4>3
    <3> QED BY <3>3 DEF NothingForgotten
  <2>6. CASE FlushTick
    BY <2>6, <1>1, BufferedStays, <2>3
       DEF FlushTick, sweepVars, pastVars, clientVars, FlushFrom, WritesArePlaced, InLog
  <2>7. CASE FlushTakes
    BY <2>7, <1>1, FlushHolds, <2>3 DEF FlushTakes, sweepVars, pastVars, clientVars, InLog
  <2>8. CASE FlushWrites
    <3>1. PICK failed \in SUBSET flushing.batch :
            /\ Logged(flushing.batch \ failed)
            /\ Buffered' = Waiting \cup failed
      BY <1>1, <2>8, FlushPutsBack
    <3>2. /\ unflushed' = unflushed /\ lost' = lost /\ unseen' = unseen /\ swept' = swept
          /\ polling' = polling /\ since' = since /\ asked' = asked /\ linked' = linked
          /\ mark' = mark /\ sweep' = sweep /\ due' = due /\ appDb' = appDb /\ view' = view
          /\ late \subseteq late' /\ oplog' = oplog \cup (flushing.batch \ failed)
      BY <2>8, <3>1 DEF FlushWrites, Logged, sweepVars, clientVars
    <3>3. Buffered' \subseteq Buffered /\ flushing.batch \subseteq Buffered
      BY <3>1 DEF Buffered
    <3>4. ASSUME NEW x \in appDb' \ view'
          PROVE  Exempt(x)' \/ ToldLater(x)'
      <4>1. x \in appDb \ view /\ work'[x].at = work[x].at /\ work'[x].path = work[x].path
        BY <1>2, <2>1, <3>2, <3>4
      <4>2. CASE Exempt(x)
        BY <3>2, <4>1, <4>2, ExemptStays
      \* One that is written now: when the client has read, it is below its watermark.
      <4>3. ASSUME ToldLater(x), x \in flushing.batch \ failed
            PROVE  Exempt(x)' \/ ToldLater(x)'
        <5>1. x \in LogWrites /\ work[x].stage # "new" /\ x \in Buffered
          BY <1>1, <1>2, <3>3, <4>3 DEF WritesArePlaced, Done
        <5>2. x \in late' \/ (At(x) > since /\ asked # "complete")
          BY <3>1, <4>3, <5>1, LoggedIsAbove
        <5>3. CASE x \in late'
          BY <5>3 DEF Exempt
        <5>4. ASSUME At(x) > since, asked # "complete"
              PROVE  ToldLater(x)'
          <6>1. Unread
            <7>1. SUFFICES ASSUME ~Unread
                           PROVE  FALSE
              OBVIOUS
            <7>2. asked = "nothing"
              BY <1>1, <5>4, <7>1 DEF Unread, CatchUpTypeOK
            <7>3. At(x) < since
              BY <4>3, <5>1, <7>1, <7>2 DEF ToldLater
            <7> QED BY <1>2, <5>1, <5>4, <7>3
          <6> QED BY <3>2, <4>1, <5>4, <6>1, ToldOnReading DEF Unread, At
        <5> QED BY <5>2, <5>3, <5>4
      <4>4. ASSUME ToldLater(x), x \notin flushing.batch \ failed
            PROVE  ToldLater(x)'
        BY <3>2, <4>4, <3>3, <4>1, StillTold DEF InLog
      <4> QED BY <2>2, <4>1, <4>2, <4>3, <4>4
    <3> QED BY <3>4 DEF NothingForgotten
  <2>9. CASE FlushEnds
    <3>1. /\ late' = late /\ unflushed' = unflushed /\ lost' = lost /\ unseen' = unseen
          /\ polling' = polling /\ since' = since /\ linked' = linked
          /\ mark' = mark /\ sweep' = sweep /\ oplog' = oplog /\ swept' = swept /\ due' = due
          /\ buffers' = buffers /\ appDb' = appDb /\ view' = view
          /\ asked' = (IF asked = "flush" THEN "read" ELSE asked)
          /\ flushing'.batch = flushing.batch
      BY <2>9 DEF FlushEnds, NotFlushing, sweepVars, pastVars
    <3>2. InLog' = InLog /\ Buffered' = Buffered
      BY <3>1, BufferedStays DEF InLog
    <3>3. CASE asked = "flush"
      BY <3>1, <3>3, <2>4, <3>2 DEF Unread
    <3>4. CASE asked # "flush"
      BY <2>3, <3>1, <3>2, <3>4
    <3> QED BY <3>3, <3>4
  <2>10. CASE CrashHere
    <3>1. /\ late' = late /\ unflushed' = unflushed /\ unseen' = {x \in unseen : At(x) < since}
          /\ polling' = polling /\ since' = since /\ linked' = FALSE /\ asked' = "nothing"
          /\ oplog' = oplog /\ swept' = swept /\ appDb' = appDb /\ view' = view
          /\ lost \subseteq lost'
      BY <2>10 DEF CrashHere
    <3>2. InLog' = InLog /\ Unread' /\ asked' # "complete"
      BY <3>1 DEF InLog, Unread
    <3>3. ASSUME NEW x \in appDb' \ view'
          PROVE  Exempt(x)' \/ ToldLater(x)'
      <4>1. x \in appDb \ view /\ work'[x].at = work[x].at /\ work'[x].path = work[x].path
        BY <1>2, <2>1, <3>1, <3>3
      <4>2. x \in LogWrites
        BY <1>2, <4>1
      <4>3. CASE x \in unseen /\ x \notin unseen'
        <5>1. At(x) # since /\ ~(At(x) < since)
          BY <1>1, <4>3, <3>1, <4>2 DEF SweptIsKnown, WritesArePlaced, InLog, HlcsAreNew, Done
        <5>2. At(x)' > since'
          BY <1>2, <3>1, <4>1, <4>2, <5>1 DEF At
        <5> QED BY <3>2, <5>2, ToldOnReading
      <4>4. ASSUME Exempt(x), x \in unseen => x \in unseen'
            PROVE  Exempt(x)'
        BY <3>1, <4>1, <4>4 DEF Exempt
      <4>5. CASE ToldLater(x)
        BY <3>1, <3>2, <4>1, <4>5, ToldOnReading DEF ToldLater, At
      <4> QED BY <2>2, <4>1, <4>3, <4>4, <4>5
    <3> QED BY <3>3 DEF NothingForgotten
  <2>11. ASSUME Reconnect \/ Cut
         PROVE  NothingForgotten'
    BY <2>11, <2>4 DEF Reconnect, Cut, pastVars, logVars, InLog, Unread
  <2>12. CASE ResumeReads
    <3>1. /\ late' = late /\ lost' = lost /\ unseen' = unseen /\ swept' = swept /\ mark' = mark
          /\ polling' = polling /\ linked' = linked /\ oplog' = oplog /\ appDb' = appDb
          /\ unflushed \subseteq unflushed' /\ since > 0 /\ cutoff' = CutoffLoaded
      BY <2>12 DEF ResumeReads, logVars
    <3>2. CASE TooOld(cutoff'.mem)
      BY <2>12, <3>2, <3>1, <2>4 DEF ResumeReads, InLog, Unread
    <3>3. ASSUME ~TooOld(cutoff'.mem)
          PROVE  NothingForgotten'
      <4>1. /\ view' = (view \ OfTables(view, SentOnResume)) \cup OfTables(appDb, SentOnResume)
            /\ asked' = "complete" /\ since' = since
        BY <2>12, <3>3 DEF ResumeReads
      <4>2. ASSUME NEW x \in appDb' \ view'
            PROVE  Exempt(x)' \/ ToldLater(x)'
        <5>1. /\ x \in appDb \ view /\ work'[x].at = work[x].at /\ work'[x].path = work[x].path
              /\ x \in LogWrites /\ TableOf[x] \notin SentOnResume
          BY <1>2, <2>1, <3>1, <4>1, <4>2 DEF OfTables
        <5>2. CASE Exempt(x)
          BY <3>1, <5>1, <5>2, ExemptStays
        <5>3. ASSUME ~Exempt(x), ToldLater(x)
              PROVE  ToldLater(x)'
          \* Its entry is in the log, and its table was sent; or it was swept, and the
          \* client told that it has been away too long.
          <6>1. x \notin InLog'
            <7>1. SUFFICES ASSUME x \in InLog
                           PROVE  FALSE
              BY <3>1 DEF InLog
            <7>2. At(x) > since
              BY <5>3, <7>1 DEF ToldLater
            <7>3. CASE x \in oplog
              <8>1. TableOf[x] \in ChangedSince(since)
                BY <7>2, <7>3 DEF ChangedSince
              <8> QED BY <5>1, <8>1 DEF SentOnResume
            <7>4. CASE x \in swept
              <8>1. /\ At(x) < cutoff.stored /\ (cutoff.loaded => At(x) < cutoff.mem)
                BY <1>1, <5>3, <7>4 DEF SweptIsKnown, Exempt
              <8>2. At(x) < cutoff'.mem /\ cutoff'.mem \in Nat
                BY <1>1, <1>2, <3>1, <8>1, SetsAndNumbers DEF CutoffLoaded
              <8> QED BY <1>2, <3>1, <3>3, <5>1, <7>2, <8>2 DEF TooOld
            <7> QED BY <7>1, <7>3, <7>4 DEF InLog
          <6> QED BY <4>1, <6>1 DEF ToldLater
        <5> QED BY <2>2, <5>1, <5>2, <5>3
      <4> QED BY <4>2 DEF NothingForgotten
    <3> QED BY <3>2, <3>3
  <2>13. CASE BootstrapReads
    BY <2>13 DEF BootstrapReads, logVars, NothingForgotten
  <2>14. CASE Completes
    <3>1. /\ late' = late /\ unflushed' = unflushed /\ lost' = lost /\ unseen' = unseen
          /\ polling' = polling /\ oplog' = oplog /\ swept' = swept /\ appDb' = appDb
          /\ view' = view /\ buffers' = buffers /\ flushing' = flushing
          /\ asked = "complete" /\ since' = now + 1
      BY <2>14 DEF Completes, pastVars
    <3>2. InLog' = InLog /\ Buffered' = Buffered
      BY <3>1, BufferedStays DEF InLog
    <3>3. ASSUME NEW x \in appDb' \ view'
          PROVE  Exempt(x)' \/ ToldLater(x)'
      <4>1. /\ x \in appDb \ view /\ work'[x].at = work[x].at /\ work'[x].path = work[x].path
            /\ x \in LogWrites
        BY <1>2, <2>1, <3>1, <3>3
      <4>2. CASE Exempt(x)
        BY <3>1, <4>1, <4>2, ExemptStays
      <4>3. ASSUME ToldLater(x)
            PROVE  ToldLater(x)'
        <5>1. x \notin InLog
          BY <3>1, <4>3 DEF ToldLater
        <5>2. At(x)' < since'
          BY <1>1, <1>2, <4>1, <3>1 DEF HlcsAreNew, At
        <5> QED BY <3>2, <5>1, <5>2 DEF ToldLater
      <4> QED BY <2>2, <4>1, <4>2, <4>3
    <3> QED BY <3>3 DEF NothingForgotten
  <2>15. CASE PollTick
    <3>1. /\ unflushed' = unflushed /\ lost' = lost /\ unseen' = unseen /\ sweep' = sweep
          /\ polling' = polling /\ oplog' = oplog /\ swept' = swept /\ appDb' = appDb
          /\ view' = view /\ buffers' = buffers /\ flushing' = flushing
          /\ since' = since /\ asked' = asked /\ linked' = linked
          /\ due' = (IF mark = 0 THEN due ELSE due \cup ChangedSince(mark))
          /\ late' = IF mark = 0 THEN late \cup oplog ELSE late
      BY <2>15 DEF PollTick, clientVars, sweepVars
    <3>2. InLog' = InLog /\ Buffered' = Buffered
      BY <3>1, BufferedStays DEF InLog
    <3>3. ASSUME NEW x \in appDb' \ view'
          PROVE  Exempt(x)' \/ ToldLater(x)'
      <4>1. x \in appDb \ view /\ work'[x].at = work[x].at /\ work'[x].path = work[x].path
        BY <1>2, <2>1, <3>1, <3>3
      <4>2. late \subseteq late'
        BY <3>1
      <4>3. CASE Exempt(x)
        BY <3>1, <4>1, <4>2, <4>3, ExemptStays
      <4>4. CASE x \in oplog /\ mark = 0
        BY <3>1, <4>4 DEF Exempt
      \* What the poll has passed is due.
      <4>5. ASSUME ToldLater(x), ~(x \in oplog /\ mark = 0)
            PROVE  ToldLater(x)'
        BY <3>1, <4>5, <3>2, <4>1 DEF ChangedSince, ToldLater, Unread, At
      <4> QED BY <2>2, <4>1, <4>3, <4>4, <4>5
    <3> QED BY <3>3 DEF NothingForgotten
  <2>16. ASSUME NEW by \in {"here", "away"}, CutoffMoves(by)
         PROVE  NothingForgotten'
    <3>1. PICK at \in OldHlc + 1 .. now : OldEnough(at) /\ sweep' = [by |-> by, at |-> at]
      BY <2>16 DEF CutoffMoves
    <3>2. at \in Nat /\ sweep'.at = at /\ (polling => at <= mark)
      BY <1>2, <3>1 DEF OldEnough, OldHlc
    <3>3. /\ late' = late /\ unflushed' = unflushed /\ lost' = lost /\ unseen' = unseen
          /\ polling' = polling /\ oplog' = oplog /\ swept' = swept /\ appDb' = appDb
          /\ view' = view /\ buffers' = buffers /\ flushing' = flushing /\ due' = due
          /\ since' = since /\ asked' = asked /\ linked' = linked /\ mark' = mark
      BY <2>16 DEF CutoffMoves, clientVars, logVars, pastVars
    <3>4. InLog' = InLog /\ Buffered' = Buffered
      BY <3>3, BufferedStays DEF InLog
    <3>5. ASSUME NEW x \in appDb' \ view'
          PROVE  Exempt(x)' \/ ToldLater(x)'
      <4>1. /\ x \in appDb \ view /\ work'[x].at = work[x].at /\ work'[x].path = work[x].path
            /\ At(x) \in Nat
        BY <1>2, <2>1, <3>3, <3>5
      <4>2. CASE Exempt(x)
        BY <3>3, <4>1, <4>2, ExemptStays
      <4>3. ASSUME ToldLater(x)
            PROVE  ToldLater(x)'
        BY <1>2, <3>2, <4>1, <3>3, <3>4, <4>3 DEF ToldLater, Unread, At
      <4> QED BY <2>2, <4>1, <4>2, <4>3
    <3> QED BY <3>5 DEF NothingForgotten
  <2>17. CASE SweepDeletes
    <3> DEFINE below == {w \in oplog : At(w) < sweep.at}
    <3>1. /\ late' = late /\ unflushed' = unflushed /\ lost' = lost /\ unseen \subseteq unseen'
          /\ polling' = polling /\ appDb' = appDb /\ sweep'.at = 0
          /\ view' = view /\ buffers' = buffers /\ flushing' = flushing /\ due' = due
          /\ since' = since /\ asked' = asked /\ linked' = linked /\ mark' = mark
          /\ oplog' = oplog \ below /\ swept' = swept \cup below
      BY <2>17 DEF SweepDeletes, clientVars
    <3>2. InLog' = InLog /\ Buffered' = Buffered
      BY <3>1, BufferedStays DEF InLog
    <3>3. ASSUME NEW x \in appDb' \ view'
          PROVE  Exempt(x)' \/ ToldLater(x)'
      <4>1. /\ x \in appDb \ view /\ work'[x].at = work[x].at /\ work'[x].path = work[x].path
            /\ At(x) \in Nat
        BY <1>2, <2>1, <3>1, <3>3
      <4>2. CASE Exempt(x)
        BY <3>1, <4>1, <4>2, ExemptStays
      <4>3. ASSUME ToldLater(x)
            PROVE  ToldLater(x)'
        <5>1. x \in oplog /\ At(x) >= sweep.at => x \in oplog'
          BY <1>2, <3>1, <4>1
        <5>2. At(x) >= sweep'.at
          BY <3>1, <4>1
        <5> HIDE DEF below
        <5> QED BY <3>1, <3>2, <4>1, <4>3, <5>1, <5>2 DEF ToldLater, Unread, At
      <4> QED BY <2>2, <4>1, <4>2, <4>3
    <3> QED BY <3>3 DEF NothingForgotten
  <2>18. CASE UNCHANGED catchUpVars
    BY <2>18, BufferedStays, <2>3 DEF catchUpVars, clientVars, logVars, pastVars, sweepVars, InLog
  <2> QED BY <1>4, <2>5, <2>6, <2>7, <2>8, <2>9, <2>10, <2>11, <2>12, <2>13, <2>14, <2>15, <2>16, <2>17,
             <2>18 DEF CatchUpNext
<1> QED BY <1>3, <1>4

-----------------------------------------------------------------------------
(* The theorem.                                                            *)

\* The server starts with no write, and the client with none.
LEMMA LogStarts ==
  ASSUME CatchUpAssumption, CatchUpInit
  PROVE  LogInv
<1>1. /\ InLog = {} /\ Buffered = {} /\ appDb = {} /\ swept = {}
  BY DEF CatchUpInit, InLog, Buffered, Waiting, NotFlushing
<1>2. catchUpLeft \in [{"writes", "cuts", "crashes", "failures", "sweeps", "mishaps"} -> Nat]
  BY DEF CatchUpInit, CatchUpAssumption
<1>3. flushing \in [on : BOOLEAN, rest : Seq(TablesHere), batch : SUBSET LogWrites]
  BY DEF CatchUpInit, NotFlushing
<1>4. CatchUpTypeOK
  <2>1. work \in [LogWrites -> [path : Paths, at : Nat, stage : {"new", "stamped", "done"}]]
    BY DEF CatchUpInit, Paths
  <2>2. /\ buffers \in [TablesHere -> SUBSET LogWrites]
        /\ \A t \in TablesHere : \A w \in buffers[t] : TableOf[w] = t
    BY DEF CatchUpInit
  <2>3. /\ cutoff \in [mem : Nat, loaded : BOOLEAN, stored : Nat]
        /\ sweep \in [by : {"nobody", "here", "away"}, at : Nat]
    BY DEF CatchUpInit
  <2>4. now \in Nat /\ since \in Nat /\ mark \in Nat
    BY DEF CatchUpInit, OldHlc
  <2>5. /\ appDb \subseteq LogWrites /\ oplog \subseteq LogWrites /\ view \subseteq LogWrites
        /\ late \subseteq LogWrites /\ unflushed \subseteq LogWrites /\ swept \subseteq LogWrites
        /\ unseen \subseteq LogWrites /\ lost \subseteq LogWrites /\ due \subseteq TablesHere
    BY DEF CatchUpInit
  <2>6. /\ polling \in BOOLEAN /\ linked \in BOOLEAN
        /\ asked \in {"nothing", "flush", "read", "complete", "snapshot"}
    BY DEF CatchUpInit
  <2> QED BY <1>2, <1>3, <2>1, <2>2, <2>3, <2>4, <2>5, <2>6 DEF CatchUpTypeOK
<1>5. HlcsAreNew
  BY DEF CatchUpInit, HlcsAreNew, At, OldHlc
<1>6. WritesArePlaced
  BY <1>1 DEF CatchUpInit, WritesArePlaced, Done, NotFlushing
<1>7. ClientInv /\ SweptIsKnown /\ NothingForgotten
  BY DEF CatchUpInit, ClientInv, SweptIsKnown, NothingForgotten
<1>8. CutoffsGrow
  BY DEF CatchUpInit, CutoffsGrow, OldHlc
<1> QED BY <1>4, <1>5, <1>6, <1>7, <1>8 DEF LogInv

\* The invariant says what the run checks: with everything delivered, the client has
\* read, nothing is due and the poll has seen the head of the log.
LEMMA LogImplies ==
  ASSUME CatchUpAssumption, LogInv
  PROVE  CatchUpInv
<1>1. CatchUpTypeOK /\ WritesArePlaced /\ SweptIsKnown /\ NothingForgotten /\ ClientInv
  BY DEF LogInv
<1>2. appDb \subseteq LogWrites /\ mark \in Nat /\ \A x \in LogWrites : At(x) \in Nat
  BY <1>1, SetsAndNumbers
<1>3. CaughtUp
  <2>1. SUFFICES ASSUME AllDelivered, NEW w \in appDb \ view, ~Exempt(w)
                 PROVE  FALSE
    BY DEF CaughtUp, Exempt
  <2>2. w \in InLog
    BY <1>1, <2>1, <1>2 DEF AllDelivered, Buffered, WritesArePlaced, Exempt
  <2>3. ToldLater(w)
    BY <1>1, <2>1 DEF NothingForgotten
  <2>4. w \in oplog /\ At(w) > mark /\ polling
    BY <2>1, <2>2, <2>3 DEF ToldLater, AllDelivered, Unread
  <2> QED BY <1>2, <2>1, <2>4 DEF AllDelivered
<1>4. AcceptedIsLogged
  BY <1>1 DEF AcceptedIsLogged, WritesArePlaced, Done, InLog, Buffered
<1>5. SweptIsBelowCutoff
  BY <1>1 DEF SweptIsBelowCutoff, SweptIsKnown
<1> QED BY <1>1, <1>3, <1>4, <1>5 DEF CatchUpInv

\* Clients that were away (handleResume, handleBootstrap, pollRemoteChanges, the eager
\* buffer's flush, runCompaction): whoever came back and was told everything shows every
\* write the log could tell it of, no accepted write drops out of the log's sight, and
\* what was swept is below the stored cutoff, whatever crashes, cuts and failures.
THEOREM CatchingUpForgetsNothing == CatchUpSpec => []CatchUpInv
<1> USE CatchUpAssumption
<1>1. CatchUpInit => LogInv
  BY LogStarts
<1>2. LogInv /\ [CatchUpNext]_catchUpVars => LogInv'
  <2>1. SUFFICES ASSUME LogInv, [CatchUpNext]_catchUpVars
                 PROVE  LogInv'
    OBVIOUS
  <2>2. CatchUpTypeOK
    BY <2>1 DEF LogInv
  <2> QED BY <2>1, <2>2, TypeNext, HlcsNext, PlacedNext, ClientNext, CutoffsNext, SweptNext, ToldNext
          DEF LogInv
<1>3. LogInv => CatchUpInv
  BY LogImplies
<1> QED BY <1>1, <1>2, <1>3, PTL DEF CatchUpSpec

-----------------------------------------------------------------------------
(* Windows.                                                                *)

WindowFrames ==
  [kind : {"snapshot", "count", "append", "delta"}, rows : SUBSET Ranks, gone : SUBSET Ranks, total : Nat]
QueriesOf(stages) ==
  [at : stages, rows : SUBSET Ranks, total : Nat, counted : BOOLEAN, saw : (SUBSET Ranks) \X Nat]
Fans   == QueriesOf({"idle", "queried", "sent"})
Duties == QueriesOf({"idle", "bootstrap", "more"})
Subs   == [limit : Nat, loaded : Nat, total : Nat, ready : BOOLEAN]

\* What each variable may hold.
WindowShape ==
  /\ table \in SUBSET Ranks /\ shown \in SUBSET Ranks /\ lastSent \in SUBSET Ranks
  /\ sub \in Subs /\ fan \in [Fanouts -> Fans] /\ duty \in Duties
  /\ requests \in Seq({"bootstrap", "more"}) /\ page \in Seq(WindowFrames)
  /\ totalShown \in Nat /\ behind \in BOOLEAN

\* A total comes without rows, and with a snapshot nothing is gone.
CountAndSnapshot(m) ==
  /\ m.kind = "count" => m.rows = {} /\ m.gone = {}
  /\ m.kind = "snapshot" => m.gone = {}
Framed(p)   == \A k \in DOMAIN p : CountAndSnapshot(p[k])
FramesSound == Framed(page)

\* A frame tells of a row, and what.
Says(m, r)  == m.kind = "snapshot" \/ r \in m.rows \cup m.gone
Gives(m, r) == r \in m.rows \ m.gone

\* The row, and the total, that a client which shows s and t will show after the frames p.
ShowsAfter(p, s, r) ==
  \/ r \in s /\ \A k \in DOMAIN p : ~ Says(p[k], r)
  \/ \E k \in DOMAIN p : Says(p[k], r) /\ Gives(p[k], r) /\ \A j \in DOMAIN p : j > k => ~ Says(p[j], r)
CountsAfter(p, t, n) ==
  \/ n = t /\ \A k \in DOMAIN p : p[k].total = Unknown
  \/ \E k \in DOMAIN p : /\ p[k].total # Unknown /\ n = p[k].total
                         /\ \A j \in DOMAIN p : j > k => p[j].total = Unknown

\* One broadcast at a time is between its difference and its commit.
OneSends == \A f, g \in Fanouts : fan[f].at = "sent" /\ fan[g].at = "sent" => f = g

\* The client will show what the cache says, or what a broadcast has just sent.
RowsFollow ==
  /\ \A f \in Fanouts : fan[f].at = "sent" => \A r \in Ranks : ShowsAfter(page, shown, r) <=> r \in fan[f].rows
  /\ (\A f \in Fanouts : fan[f].at # "sent") => \A r \in Ranks : ShowsAfter(page, shown, r) <=> r \in lastSent

\* And the total that is on record, or about to be.
CountFollows ==
  /\ \A f \in Fanouts : fan[f].at = "sent" => CountsAfter(page, totalShown, Counted(f))
  /\ (\A f \in Fanouts : fan[f].at # "sent") => CountsAfter(page, totalShown, sub.total)

\* What a query has found is the window of the table it saw; and there is a total.
QueriesAre ==
  /\ \A f \in Fanouts : fan[f].at # "idle" =>
       /\ fan[f].rows = Top(fan[f].saw[1], fan[f].saw[2]) /\ fan[f].saw[2] <= sub.limit
       /\ fan[f].total # Unknown
  /\ duty.at = "bootstrap" => duty.rows = Top(duty.saw[1], duty.saw[2])
  /\ duty.at = "more" => duty.rows = Top(duty.saw[1], duty.saw[2] + PageSize)
  /\ duty.at # "idle" => duty.total # Unknown

\* The cache is the window, unless a write has come since.
CacheIsTop == sub.ready /\ ~ behind => lastSent = Top(table, sub.limit)

WindowsIInv ==
  /\ WindowShape /\ FramesSound /\ OneSends /\ QueriesAre /\ CacheIsTop /\ granted = sub.limit
  /\ excuses \cap {"overlap", "page"} = {} => RowsFollow
  /\ excuses \cap {"overlap", "count"} = {} => CountFollows

\* What a window may hold; and a window of a window that is no smaller is the window.
LEMMA TopIs ==
  ASSUME NEW S \in SUBSET Ranks, NEW n \in Nat, NEW m \in Nat, n <= m
  PROVE  Top(S, n) \in SUBSET Ranks /\ Top(Top(S, n), m) = Top(S, n)
<1>1. Top(S, n) \subseteq S
  BY DEF Top
<1>2. ASSUME NEW r \in Top(S, n) PROVE r \in Top(Top(S, n), m)
  <2> DEFINE below == {q \in S : q < r}
             less  == {q \in Top(S, n) : q < r}
  <2>1. IsFiniteSet(below) /\ less \subseteq below
    BY FS_Subset, WindowAssumption, <1>1
  <2>2. Cardinality(below) < n
    BY <1>2 DEF Top
  <2>3. Cardinality(less) <= Cardinality(below) /\ Cardinality(less) \in Nat /\ Cardinality(below) \in Nat
    BY <2>1, FS_Subset, FS_CardinalityType
  <2>4. Cardinality(less) < m
    BY <2>2, <2>3
  <2> QED BY <2>4, <1>2 DEF Top
<1>3. Top(Top(S, n), m) \subseteq Top(S, n)
  BY DEF Top
<1> QED BY <1>1, <1>2, <1>3

\* There are never so many rows as to be taken for no total.
LEMMA TotalIs ==
  ASSUME NEW S \in SUBSET Ranks
  PROVE  Cardinality(S) \in Nat /\ Cardinality(S) # Unknown /\ Unknown \in Nat
<1>1. IsFiniteSet(Ranks) /\ IsFiniteSet(S) /\ Cardinality(S) <= Cardinality(Ranks)
  BY FS_Subset, WindowAssumption
<1>2. Cardinality(S) \in Nat /\ Cardinality(Ranks) \in Nat
  BY <1>1, FS_CardinalityType
<1> QED BY <1>1, <1>2 DEF Unknown

\* One more frame.
LEMMA OneFrameMore ==
  ASSUME NEW p \in Seq(WindowFrames), NEW s, NEW t, NEW m \in WindowFrames, NEW q, q = Append(p, m)
  PROVE  /\ q \in Seq(WindowFrames)
         /\ \A r : IF Says(m, r) THEN ShowsAfter(q, s, r) <=> Gives(m, r)
                                ELSE ShowsAfter(q, s, r) <=> ShowsAfter(p, s, r)
         /\ \A n : IF m.total # Unknown THEN CountsAfter(q, t, n) <=> n = m.total
                                         ELSE CountsAfter(q, t, n) <=> CountsAfter(p, t, n)
<1>1. /\ q \in Seq(WindowFrames) /\ Len(p) \in Nat
      /\ DOMAIN p = 1..Len(p) /\ DOMAIN q = 1..Len(p) + 1
      /\ q[Len(p) + 1] = m /\ \A k \in 1..Len(p) : q[k] = p[k]
  OBVIOUS
<1>2. ASSUME NEW r PROVE IF Says(m, r) THEN ShowsAfter(q, s, r) <=> Gives(m, r)
                                     ELSE ShowsAfter(q, s, r) <=> ShowsAfter(p, s, r)
  <2>1. CASE Says(m, r)
    BY <1>1, <2>1 DEF ShowsAfter
  <2>2. CASE ~ Says(m, r)
    <3>1. \A k \in DOMAIN p : k \in DOMAIN q /\ q[k] = p[k]
      BY <1>1
    <3>2. \A k \in DOMAIN q : k \in DOMAIN p \/ q[k] = m
      BY <1>1
    <3> HIDE DEF Says, Gives
    <3>3. ShowsAfter(p, s, r) => ShowsAfter(q, s, r)
      BY <2>2, <3>1, <3>2 DEF ShowsAfter
    <3>4. ShowsAfter(q, s, r) => ShowsAfter(p, s, r)
      BY <2>2, <3>1, <3>2 DEF ShowsAfter
    <3> QED BY <2>2, <3>3, <3>4
  <2> QED BY <2>1, <2>2
<1>3. ASSUME NEW n PROVE IF m.total # Unknown THEN CountsAfter(q, t, n) <=> n = m.total
                                             ELSE CountsAfter(q, t, n) <=> CountsAfter(p, t, n)
  <2>1. CASE m.total # Unknown
    BY <1>1, <2>1 DEF CountsAfter
  <2>2. CASE m.total = Unknown
    BY <1>1, <2>2 DEF CountsAfter
  <2> QED BY <2>1, <2>2
<1> QED BY <1>1, <1>2, <1>3

\* One frame that has been displayed.
LEMMA OneFrameLess ==
  ASSUME NEW p \in Seq(WindowFrames), p # <<>>, NEW s, NEW s2, NEW t, NEW t2,
         \A r \in Ranks : r \in s2 <=> IF Says(Head(p), r) THEN Gives(Head(p), r) ELSE r \in s,
         t2 = IF Head(p).total # Unknown THEN Head(p).total ELSE t
  PROVE  /\ Tail(p) \in Seq(WindowFrames)
         /\ \A r \in Ranks : ShowsAfter(Tail(p), s2, r) <=> ShowsAfter(p, s, r)
         /\ \A n : CountsAfter(Tail(p), t2, n) <=> CountsAfter(p, t, n)
<1> PICK q : q = Tail(p)
  OBVIOUS
<1>1. /\ q \in Seq(WindowFrames) /\ Len(p) \in Nat \ {0} /\ Head(p) = p[1]
      /\ DOMAIN p = 1..Len(p) /\ DOMAIN q = 1..Len(p) - 1
      /\ \A k \in 1..Len(p) - 1 : q[k] = p[k + 1]
  BY HeadTailProperties, EmptySeq
<1>2. /\ 1 \in DOMAIN p
      /\ \A k \in DOMAIN q : k + 1 \in DOMAIN p /\ q[k] = p[k + 1] /\ k \in Nat /\ k >= 1
      /\ \A k \in DOMAIN p : k \in Nat /\ k >= 1 /\ (k # 1 => k - 1 \in DOMAIN q /\ q[k - 1] = p[k])
  BY <1>1
<1>3. ASSUME NEW r \in Ranks PROVE ShowsAfter(q, s2, r) <=> ShowsAfter(p, s, r)
  <2> PICK S : S = {k \in DOMAIN p : Says(p[k], r)}
    OBVIOUS
  <2>1. (\E k \in DOMAIN q : Says(q[k], r)) <=> \E k \in DOMAIN p : k # 1 /\ Says(p[k], r)
    <3> HIDE DEF Says
    <3>1. ASSUME NEW k \in DOMAIN q, Says(q[k], r) PROVE \E j \in DOMAIN p : j # 1 /\ Says(p[j], r)
      BY <3>1, <1>2
    <3>2. ASSUME NEW j \in DOMAIN p, j # 1, Says(p[j], r) PROVE \E k \in DOMAIN q : Says(q[k], r)
      BY <3>2, <1>2
    <3> QED BY <3>1, <3>2
  <2>2. ASSUME ShowsAfter(q, s2, r) PROVE ShowsAfter(p, s, r)
    <3>1. CASE r \in s2 /\ \A k \in DOMAIN q : ~ Says(q[k], r)
      BY <3>1, <2>1, <1>2, <1>1 DEF ShowsAfter
    <3>2. CASE \E k \in DOMAIN q : Says(q[k], r) /\ Gives(q[k], r) /\ \A j \in DOMAIN q : j > k => ~ Says(q[j], r)
      <4> PICK k \in DOMAIN q : Says(q[k], r) /\ Gives(q[k], r) /\ \A j \in DOMAIN q : j > k => ~ Says(q[j], r)
        BY <3>2
      <4> HIDE DEF Says, Gives
      <4>1. k + 1 \in DOMAIN p /\ Says(p[k + 1], r) /\ Gives(p[k + 1], r)
        BY <1>2
      <4>2. ASSUME NEW j \in DOMAIN p, j > k + 1 PROVE ~ Says(p[j], r)
        <5>1. j \in Nat /\ k \in Nat /\ j # 1
          BY <4>2, <1>2
        <5>2. j - 1 \in DOMAIN q /\ q[j - 1] = p[j] /\ j - 1 > k
          BY <4>2, <5>1, <1>2
        <5> QED BY <5>2
      <4> QED BY <4>1, <4>2 DEF ShowsAfter
    <3> QED BY <2>2, <3>1, <3>2 DEF ShowsAfter
  <2>3. ASSUME ShowsAfter(p, s, r) PROVE ShowsAfter(q, s2, r)
    <3>1. CASE r \in s /\ \A k \in DOMAIN p : ~ Says(p[k], r)
      BY <3>1, <2>1, <1>1, <1>2 DEF ShowsAfter
    <3>2. CASE \E k \in DOMAIN p : Says(p[k], r) /\ Gives(p[k], r) /\ \A j \in DOMAIN p : j > k => ~ Says(p[j], r)
      <4> PICK k \in DOMAIN p : Says(p[k], r) /\ Gives(p[k], r) /\ \A j \in DOMAIN p : j > k => ~ Says(p[j], r)
        BY <3>2
      <4>1. CASE k = 1
        BY <4>1, <1>2, <2>1, <1>1 DEF ShowsAfter
      <4>2. CASE k # 1
        <5> HIDE DEF Says, Gives
        <5>1. k - 1 \in DOMAIN q /\ Says(q[k - 1], r) /\ Gives(q[k - 1], r)
          BY <4>2, <1>2
        <5>2. ASSUME NEW j \in DOMAIN q, j > k - 1 PROVE ~ Says(q[j], r)
          BY <5>2, <1>2
        <5> QED BY <5>1, <5>2 DEF ShowsAfter
      <4> QED BY <4>1, <4>2
    <3> QED BY <2>3, <3>1, <3>2 DEF ShowsAfter
  <2> QED BY <2>2, <2>3
<1>4. ASSUME NEW n PROVE CountsAfter(q, t2, n) <=> CountsAfter(p, t, n)
  <2>1. (\A k \in DOMAIN q : q[k].total = Unknown) <=> \A k \in DOMAIN p : k # 1 => p[k].total = Unknown
    <3>1. ASSUME \A k \in DOMAIN q : q[k].total = Unknown, NEW j \in DOMAIN p, j # 1 PROVE p[j].total = Unknown
      BY <3>1, <1>2
    <3>2. ASSUME \A k \in DOMAIN p : k # 1 => p[k].total = Unknown, NEW k \in DOMAIN q PROVE q[k].total = Unknown
      BY <1>2, <3>2
    <3> QED BY <3>1, <3>2
  <2>2. ASSUME CountsAfter(q, t2, n) PROVE CountsAfter(p, t, n)
    <3>1. CASE n = t2 /\ \A k \in DOMAIN q : q[k].total = Unknown
      BY <3>1, <2>1, <1>2, <1>1 DEF CountsAfter
    <3>2. CASE \E k \in DOMAIN q : /\ q[k].total # Unknown /\ n = q[k].total
                                   /\ \A j \in DOMAIN q : j > k => q[j].total = Unknown
      <4> PICK k \in DOMAIN q : /\ q[k].total # Unknown /\ n = q[k].total
                                /\ \A j \in DOMAIN q : j > k => q[j].total = Unknown
        BY <3>2
      <4>1. k + 1 \in DOMAIN p /\ p[k + 1].total # Unknown /\ n = p[k + 1].total
        BY <1>2
      <4>2. ASSUME NEW j \in DOMAIN p, j > k + 1 PROVE p[j].total = Unknown
        <5>1. j \in Nat /\ k \in Nat /\ j # 1
          BY <4>2, <1>2
        <5>2. j - 1 \in DOMAIN q /\ q[j - 1] = p[j] /\ j - 1 > k
          BY <4>2, <5>1, <1>2
        <5> QED BY <5>2
      <4> QED BY <4>1, <4>2 DEF CountsAfter
    <3> QED BY <2>2, <3>1, <3>2 DEF CountsAfter
  <2>3. ASSUME CountsAfter(p, t, n) PROVE CountsAfter(q, t2, n)
    <3>1. CASE n = t /\ \A k \in DOMAIN p : p[k].total = Unknown
      BY <3>1, <2>1, <1>1, <1>2 DEF CountsAfter
    <3>2. CASE \E k \in DOMAIN p : /\ p[k].total # Unknown /\ n = p[k].total
                                   /\ \A j \in DOMAIN p : j > k => p[j].total = Unknown
      <4> PICK k \in DOMAIN p : /\ p[k].total # Unknown /\ n = p[k].total
                                /\ \A j \in DOMAIN p : j > k => p[j].total = Unknown
        BY <3>2
      <4>1. CASE k = 1
        BY <4>1, <1>2, <2>1, <1>1 DEF CountsAfter
      <4>2. CASE k # 1
        <5>1. k - 1 \in DOMAIN q /\ q[k - 1].total # Unknown /\ n = q[k - 1].total
          BY <4>2, <1>2
        <5>2. ASSUME NEW j \in DOMAIN q, j > k - 1 PROVE q[j].total = Unknown
          BY <5>2, <1>2
        <5> QED BY <5>1, <5>2 DEF CountsAfter
      <4> QED BY <4>1, <4>2
    <3> QED BY <2>3, <3>1, <3>2 DEF CountsAfter
  <2> QED BY <2>2, <2>3
<1> QED BY <1>1, <1>3, <1>4

\* A frame that may be missing.
LEMMA MaybeOneMore ==
  ASSUME NEW p \in Seq(WindowFrames), NEW s, NEW t, NEW m \in WindowFrames, NEW bare \in BOOLEAN,
         NEW q, q = IF bare THEN p ELSE Append(p, m)
  PROVE  /\ q \in Seq(WindowFrames)
         /\ Framed(p) /\ CountAndSnapshot(m) => Framed(q)
         /\ \A r : IF ~ bare /\ Says(m, r) THEN ShowsAfter(q, s, r) <=> Gives(m, r)
                   ELSE ShowsAfter(q, s, r) <=> ShowsAfter(p, s, r)
         /\ \A n : IF ~ bare /\ m.total # Unknown THEN CountsAfter(q, t, n) <=> n = m.total
                   ELSE CountsAfter(q, t, n) <=> CountsAfter(p, t, n)
<1>1. CASE bare
  <2>1. q = p
    BY <1>1
  <2> QED BY <1>1, <2>1
<1>2. CASE ~ bare
  <2>1. q = Append(p, m)
    BY <1>2
  <2>2. /\ q \in Seq(WindowFrames)
        /\ \A r : IF Says(m, r) THEN ShowsAfter(q, s, r) <=> Gives(m, r)
                  ELSE ShowsAfter(q, s, r) <=> ShowsAfter(p, s, r)
        /\ \A n : IF m.total # Unknown THEN CountsAfter(q, t, n) <=> n = m.total
                  ELSE CountsAfter(q, t, n) <=> CountsAfter(p, t, n)
    BY <2>1, OneFrameMore, Zenon
  <2>3. ASSUME Framed(p), CountAndSnapshot(m) PROVE Framed(q)
    BY <2>1, <2>3 DEF Framed
  <2> QED BY <1>2, <2>2, <2>3
<1> QED BY <1>1, <1>2

\* A page, and then a total, of which each may be missing.
LEMMA FramesAdded ==
  ASSUME WindowShape, FramesSound, NEW bare \in BOOLEAN, NEW same \in BOOLEAN,
         NEW m \in WindowFrames, NEW n \in WindowFrames, CountAndSnapshot(m), CountAndSnapshot(n),
         m.total = Unknown, n.kind = "count", n.total # Unknown,
         NEW a, bare => a = <<>>, ~ bare => a = <<m>>, NEW b, same => b = <<>>, ~ same => b = <<n>>,
         page' = page \o a \o b, shown' = shown, totalShown' = totalShown
  PROVE  /\ page' \in Seq(WindowFrames) /\ FramesSound'
         /\ \A r : IF ~ bare /\ Says(m, r) THEN ShowsAfter(page', shown', r) <=> Gives(m, r)
                   ELSE ShowsAfter(page', shown', r) <=> ShowsAfter(page, shown, r)
         /\ \A t : IF same THEN CountsAfter(page', totalShown', t) <=> CountsAfter(page, totalShown, t)
                   ELSE CountsAfter(page', totalShown', t) <=> t = n.total
<1>1. page \in Seq(WindowFrames) /\ Framed(page)
  BY DEF WindowShape, FramesSound
<1> PICK mid : mid = IF bare THEN page ELSE Append(page, m)
  OBVIOUS
<1> PICK q : q = IF same THEN mid ELSE Append(mid, n)
  OBVIOUS
<1>2. /\ mid \in Seq(WindowFrames)
      /\ Framed(page) /\ CountAndSnapshot(m) => Framed(mid)
      /\ \A r : IF ~ bare /\ Says(m, r) THEN ShowsAfter(mid, shown, r) <=> Gives(m, r)
                ELSE ShowsAfter(mid, shown, r) <=> ShowsAfter(page, shown, r)
      /\ \A t : IF ~ bare /\ m.total # Unknown THEN CountsAfter(mid, totalShown, t) <=> t = m.total
                ELSE CountsAfter(mid, totalShown, t) <=> CountsAfter(page, totalShown, t)
  BY <1>1, MaybeOneMore, Zenon
<1>3. /\ q \in Seq(WindowFrames)
      /\ Framed(mid) /\ CountAndSnapshot(n) => Framed(q)
      /\ \A r : IF ~ same /\ Says(n, r) THEN ShowsAfter(q, shown, r) <=> Gives(n, r)
                ELSE ShowsAfter(q, shown, r) <=> ShowsAfter(mid, shown, r)
      /\ \A t : IF ~ same /\ n.total # Unknown THEN CountsAfter(q, totalShown, t) <=> t = n.total
                ELSE CountsAfter(q, totalShown, t) <=> CountsAfter(mid, totalShown, t)
  <2>1. mid \in Seq(WindowFrames)
    BY <1>2
  <2> HIDE <1>2
  <2> QED BY <2>1, MaybeOneMore, Zenon
<1>4. page' = q
  <2>1. mid = page \o (IF bare THEN <<>> ELSE <<m>>)
    <3>1. CASE bare
      BY <1>1, <3>1
    <3>2. CASE ~ bare
      BY <1>1, <3>2
    <3> QED BY <3>1, <3>2
  <2>2. q = mid \o (IF same THEN <<>> ELSE <<n>>)
    <3>1. CASE same
      BY <1>2, <3>1
    <3>2. CASE ~ same
      BY <1>2, <3>2
    <3> QED BY <3>1, <3>2
  <2> QED BY <2>1, <2>2
<1>5. \A r : ~ Says(n, r)
  BY DEF Says, CountAndSnapshot
<1>6. /\ \A r : ShowsAfter(page', shown', r) <=> ShowsAfter(q, shown, r)
      /\ \A t : CountsAfter(page', totalShown', t) <=> CountsAfter(q, totalShown, t)
      /\ FramesSound' <=> Framed(q)
  BY <1>4 DEF FramesSound
<1>7. page' \in Seq(WindowFrames) /\ FramesSound'
  BY <1>1, <1>2, <1>3, <1>4, <1>6
<1>8. ASSUME NEW r PROVE IF ~ bare /\ Says(m, r) THEN ShowsAfter(page', shown', r) <=> Gives(m, r)
                         ELSE ShowsAfter(page', shown', r) <=> ShowsAfter(page, shown, r)
  BY <1>2, <1>3, <1>5, <1>6
<1>9. ASSUME NEW t PROVE IF same THEN CountsAfter(page', totalShown', t) <=> CountsAfter(page, totalShown, t)
                         ELSE CountsAfter(page', totalShown', t) <=> t = n.total
  BY <1>2, <1>3, <1>6
<1> QED BY <1>7, <1>8, <1>9

\* With nothing sent or displayed, and the cache and its broadcasts as they were, both follow.
LEMMA FollowStill ==
  ASSUME UNCHANGED <<page, shown, totalShown>>,
         \A f \in Fanouts : fan'[f].at = "sent" <=> fan[f].at = "sent",
         \A f \in Fanouts : fan[f].at = "sent" => fan'[f] = fan[f]
  PROVE  /\ RowsFollow /\ UNCHANGED lastSent => RowsFollow'
         /\ CountFollows /\ UNCHANGED sub => CountFollows'
<1>1. \A r : ShowsAfter(page', shown', r) <=> ShowsAfter(page, shown, r)
  BY DEF ShowsAfter
<1>2. \A n : CountsAfter(page', totalShown', n) <=> CountsAfter(page, totalShown, n)
  BY DEF CountsAfter, Unknown
<1>3. RowsFollow /\ UNCHANGED lastSent => RowsFollow'
  BY <1>1 DEF RowsFollow
<1>4. CountFollows /\ UNCHANGED sub => CountFollows'
  BY <1>2 DEF CountFollows, Counted
<1> QED BY <1>3, <1>4

\* A write leaves the cache behind.
LEMMA ChangeKeeps == ASSUME WindowsIInv, NEW r \in Ranks, Change(r) PROVE WindowsIInv'
<1> USE DEF WindowsIInv
<1>1. UNCHANGED <<granted, sub, lastSent, fan, duty, requests, page, shown, totalShown, excuses>> /\ behind' = TRUE
  BY DEF Change
<1>2. table' \in SUBSET Ranks
  BY DEF Change, WindowShape
<1>3. WindowShape' /\ FramesSound' /\ OneSends' /\ QueriesAre' /\ CacheIsTop'
  BY <1>1, <1>2 DEF FramesSound, Framed, CountAndSnapshot, WindowShape, OneSends, QueriesAre, CacheIsTop, Top, Unknown
<1> QED BY <1>1, <1>3, FollowStill

\* A request is queued.
LEMMA AskKeeps == ASSUME WindowsIInv, NEW what \in {"bootstrap", "more"}, Ask(what) PROVE WindowsIInv'
<1> USE DEF WindowsIInv
<1>1. /\ UNCHANGED <<granted, table, sub, lastSent, fan, duty, page, shown, totalShown, behind, excuses>>
      /\ requests' \in Seq({"bootstrap", "more"})
  BY DEF Ask, WindowShape
<1>3. WindowShape' /\ FramesSound' /\ OneSends' /\ QueriesAre' /\ CacheIsTop'
  BY <1>1 DEF FramesSound, Framed, CountAndSnapshot, WindowShape, OneSends, QueriesAre, CacheIsTop, Top, Unknown
<1> QED BY <1>1, <1>3, FollowStill

\* A frame is displayed: what the client will show after the rest of them is what it was.
LEMMA DisplayKeeps == ASSUME WindowsIInv, Display PROVE WindowsIInv'
<1> USE DEF WindowsIInv
<1>1. /\ UNCHANGED <<granted, table, sub, lastSent, fan, duty, requests, behind, excuses>>
      /\ page # <<>> /\ page' = Tail(page) /\ page \in Seq(WindowFrames)
  BY DEF Display, WindowShape
<1> PICK m : m = Head(page)
  OBVIOUS
<1>2. m \in WindowFrames
  BY <1>1, HeadTailProperties
<1>3. /\ m.kind = "snapshot" => shown' = m.rows
      /\ m.kind = "count" => shown' = shown
      /\ m.kind \in {"append", "delta"} => shown' = (shown \cup m.rows) \ m.gone
      /\ totalShown' = IF m.total = Unknown THEN totalShown ELSE m.total
  BY DEF Display
<1>4. shown' \in SUBSET Ranks /\ totalShown' \in Nat
  BY <1>2, <1>3 DEF WindowFrames, WindowShape
<1>5. CountAndSnapshot(m)
  BY <1>1 DEF FramesSound, Framed
<1> PICK s2 : s2 = shown'
  OBVIOUS
<1> PICK t2 : t2 = totalShown'
  OBVIOUS
<1> PICK q : q = Tail(page)
  OBVIOUS
<1>6. \A r \in Ranks : r \in s2 <=> IF Says(m, r) THEN Gives(m, r) ELSE r \in shown
  BY <1>2, <1>3, <1>5 DEF WindowFrames, Says, Gives, CountAndSnapshot
<1>7. /\ q \in Seq(WindowFrames)
      /\ \A r \in Ranks : ShowsAfter(q, s2, r) <=> ShowsAfter(page, shown, r)
      /\ \A n : CountsAfter(q, t2, n) <=> CountsAfter(page, totalShown, n)
  BY SMTT(30), <1>1, <1>3, <1>6, OneFrameLess
<1>8. /\ \A r \in Ranks : ShowsAfter(page', shown', r) <=> ShowsAfter(page, shown, r)
      /\ \A n : CountsAfter(page', totalShown', n) <=> CountsAfter(page, totalShown, n)
  BY <1>1, <1>7 DEF ShowsAfter
<1>9. WindowShape' /\ OneSends' /\ QueriesAre' /\ CacheIsTop'
  BY <1>1, <1>4, <1>7 DEF WindowShape, OneSends, QueriesAre, CacheIsTop, Top, Unknown
<1>10. FramesSound'
  BY <1>1, HeadTailProperties DEF FramesSound, Framed, CountAndSnapshot
<1>11. RowsFollow => RowsFollow'
  BY <1>1, <1>8 DEF RowsFollow
<1>12. CountFollows => CountFollows'
  BY <1>1, <1>8 DEF CountFollows, Counted
<1> QED BY <1>1, <1>9, <1>10, <1>11, <1>12

\* What Top yields of what it is asked.
LEMMA TopIn == \A S \in SUBSET Ranks : \A n : Top(S, n) \in SUBSET Ranks
  BY DEF Top

\* What the sub and the fans are made of.
LEMMA ShapeIs ==
  ASSUME WindowShape
  PROVE  /\ sub.limit \in Nat /\ sub.total \in Nat /\ PageSize \in Nat \ {0}
         /\ \A f \in Fanouts : /\ fan[f].rows \in SUBSET Ranks /\ fan[f].total \in Nat
                               /\ fan[f].at \in {"idle", "queried", "sent"}
                               /\ fan[f].saw[1] \in SUBSET Ranks /\ fan[f].saw[2] \in Nat
         /\ duty.rows \in SUBSET Ranks /\ duty.total \in Nat /\ duty.at \in {"idle", "bootstrap", "more"}
         /\ duty.saw[1] \in SUBSET Ranks /\ duty.saw[2] \in Nat
<1>1. sub.limit \in Nat /\ sub.total \in Nat /\ PageSize \in Nat \ {0}
  BY WindowAssumption DEF WindowShape, Subs
<1>2. \A q \in Fans : /\ q.rows \in SUBSET Ranks /\ q.total \in Nat /\ q.at \in {"idle", "queried", "sent"}
                      /\ q.saw[1] \in SUBSET Ranks /\ q.saw[2] \in Nat
  BY DEF Fans, QueriesOf
<1>3. \A q \in Duties : /\ q.rows \in SUBSET Ranks /\ q.total \in Nat /\ q.at \in {"idle", "bootstrap", "more"}
                        /\ q.saw[1] \in SUBSET Ranks /\ q.saw[2] \in Nat
  BY DEF Duties, QueriesOf
<1> QED BY <1>1, <1>2, <1>3 DEF WindowShape

\* A frame of the client's is taken up: its query sees the table.
LEMMA HandleKeeps == ASSUME WindowsIInv, Handle PROVE WindowsIInv'
<1> USE DEF WindowsIInv
<1>1. /\ UNCHANGED <<granted, table, owed, sub, lastSent, fan, page, shown, totalShown, behind, excuses, windowLeft>>
      /\ requests # <<>> /\ requests \in Seq({"bootstrap", "more"}) /\ requests' = Tail(requests)
  BY DEF Handle, WindowShape
<1> PICK what : what = Head(requests)
  OBVIOUS
<1>2. what \in {"bootstrap", "more"} /\ requests' \in Seq({"bootstrap", "more"})
  BY <1>1, HeadTailProperties
<1>3. duty' = [at |-> what, rows |-> Top(table, IF what = "bootstrap" THEN sub.limit ELSE LimitAfter),
               total |-> Cardinality(table), counted |-> FALSE, saw |-> <<table, sub.limit>>]
  BY DEF Handle, Rest
<1>4. /\ duty'.at = what /\ duty'.saw[1] = table /\ duty'.saw[2] = sub.limit /\ duty'.total = Cardinality(table)
      /\ what = "bootstrap" => duty'.rows = Top(table, sub.limit)
      /\ what = "more" => duty'.rows = Top(table, sub.limit + PageSize)
  BY <1>3 DEF LimitAfter
<1>5. Cardinality(table) \in Nat /\ Cardinality(table) # Unknown
  BY TotalIs DEF WindowShape
<1>6. duty' \in Duties
  BY ShapeIs, TopIn, <1>2, <1>3, <1>5 DEF WindowShape, Duties, QueriesOf
<1>7. WindowShape' /\ FramesSound' /\ OneSends' /\ CacheIsTop'
  BY <1>1, <1>2, <1>6 DEF WindowShape, FramesSound, OneSends, CacheIsTop, Top
<1>8. QueriesAre'
  BY <1>1, <1>2, <1>4, <1>5 DEF QueriesAre, Top, Unknown
<1> QED BY <1>1, <1>7, <1>8, FollowStill

\* A broadcast runs its query.
LEMMA QueryKeeps == ASSUME WindowsIInv, NEW f \in Fanouts, Query(f) PROVE WindowsIInv'
<1> USE DEF WindowsIInv
<1>1. /\ UNCHANGED <<granted, table, sub, lastSent, duty, requests, page, shown, totalShown, behind, excuses,
                     windowLeft>>
      /\ fan[f].at = "idle"
  BY DEF Query
<1>2. CASE ~ sub.ready
  BY <1>2, <1>1, FollowStill
     DEF Query, WindowShape, FramesSound, OneSends, CacheIsTop, QueriesAre, Top, Unknown
<1>3. CASE sub.ready
  <2> PICK q : q = [Rest EXCEPT !.at = "queried", !.rows = Top(table, sub.limit),
                               !.total = Cardinality(table), !.saw = <<table, sub.limit>>]
    OBVIOUS
  <2>1. fan' = [fan EXCEPT ![f] = q]
    BY <1>3 DEF Query
  <2>2. /\ q.at = "queried" /\ q.saw[1] = table /\ q.saw[2] = sub.limit /\ q.total = Cardinality(table)
        /\ q.rows = Top(table, sub.limit)
    BY DEF Rest
  <2>3. sub.limit \in Nat /\ table \in SUBSET Ranks /\ Cardinality(table) \in Nat /\ Cardinality(table) # Unknown
    BY ShapeIs, TotalIs DEF WindowShape
  <2>4. q \in Fans
    BY <2>3, TopIn DEF Fans, QueriesOf, Rest
  <2>5. /\ fan' \in [Fanouts -> Fans] /\ fan'[f] = q
        /\ \A g \in Fanouts : g # f => fan'[g] = fan[g]
    BY <2>1, <2>4 DEF WindowShape
  <2>6. WindowShape' /\ FramesSound' /\ CacheIsTop'
    BY <1>1, <2>5 DEF WindowShape, FramesSound, CacheIsTop, Top
  <2>7. OneSends'
    <3>1. \A g \in Fanouts : fan'[g].at = "sent" => fan[g].at = "sent"
      <4>1. ASSUME NEW g \in Fanouts, g # f PROVE fan'[g] = fan[g]
        BY <4>1, <2>5
      <4>2. fan'[f].at = "queried"
        BY <2>2, <2>5
      <4> QED BY <4>1, <4>2
    <3> QED BY <3>1 DEF OneSends
  <2>8. QueriesAre'
    <3>1. \A g \in Fanouts : fan'[g].at # "idle" =>
          /\ fan'[g].rows = Top(fan'[g].saw[1], fan'[g].saw[2]) /\ fan'[g].saw[2] <= sub.limit
          /\ fan'[g].total # Unknown
      <4>1. ASSUME NEW g \in Fanouts, g # f PROVE fan'[g] = fan[g]
        BY <4>1, <2>5
      <4>2. fan'[f].rows = Top(fan'[f].saw[1], fan'[f].saw[2]) /\ fan'[f].saw[2] <= sub.limit
        BY <2>2, <2>3, <2>5
      <4>3. fan'[f].total # Unknown
        BY <2>2, <2>3, <2>5
      <4> QED BY <4>1, <4>2, <4>3 DEF QueriesAre
    <3>2. /\ duty.at = "bootstrap" => duty.rows = Top(duty.saw[1], duty.saw[2])
          /\ duty.at = "more" => duty.rows = Top(duty.saw[1], duty.saw[2] + PageSize)
          /\ duty.at # "idle" => duty.total # Unknown
      BY DEF QueriesAre
    <3> QED BY <1>1, <3>1, <3>2 DEF QueriesAre, Top, Unknown
  <2>9. /\ \A g \in Fanouts : fan'[g].at = "sent" <=> fan[g].at = "sent"
        /\ \A g \in Fanouts : fan[g].at = "sent" => fan'[g] = fan[g]
    BY <1>1, <2>2, <2>5
  <2> QED BY <1>1, <2>6, <2>7, <2>8, <2>9, FollowStill
<1> QED BY <1>2, <1>3

\* A broadcast that has sent puts what it sent in the cache.
LEMMA CommitWindowKeeps == ASSUME WindowsIInv, NEW f \in Fanouts, CommitWindow(f) PROVE WindowsIInv'
<1> USE DEF WindowsIInv
<1>1. /\ UNCHANGED <<granted, table, owed, duty, requests, page, shown, totalShown, excuses, windowLeft>>
      /\ fan[f].at = "sent" /\ lastSent' = fan[f].rows /\ sub' = [sub EXCEPT !.total = Counted(f)]
      /\ behind' = Stale(fan[f]) /\ fan' = [fan EXCEPT ![f] = Rest]
  BY DEF CommitWindow
<1>2. Rest \in Fans /\ Rest.at = "idle"
  BY DEF Rest, Fans, QueriesOf
<1>3. /\ fan' \in [Fanouts -> Fans] /\ fan'[f] = Rest
      /\ \A g \in Fanouts : g # f => fan'[g] = fan[g]
  BY <1>1, <1>2 DEF WindowShape
<1>4. Counted(f) \in Nat
  BY ShapeIs DEF Counted
<1>5. /\ sub' \in Subs /\ sub'.limit = sub.limit /\ sub'.total = Counted(f) /\ sub'.ready = sub.ready
  BY <1>1, <1>4 DEF WindowShape, Subs
<1>6. WindowShape' /\ FramesSound'
  BY ShapeIs, <1>1, <1>3, <1>5 DEF Stale, WindowShape, FramesSound
<1>7. \A g \in Fanouts : fan'[g].at # "sent"
  BY <1>1, <1>2, <1>3 DEF OneSends
<1>8. OneSends'
  BY <1>7 DEF OneSends
<1>9. QueriesAre'
  BY ZenonT(40), <1>2, <1>3, <1>5, <1>1 DEF QueriesAre, Top, Unknown
<1>10. CacheIsTop'
  <2>1. ASSUME ~ behind' PROVE lastSent' = Top(table, sub.limit)
    <3>1. fan[f].saw = <<table, sub.limit>>
      BY <1>1, <2>1 DEF Stale
    <3>2. fan[f].saw[1] = table /\ fan[f].saw[2] = sub.limit
      BY <3>1
    <3>3. fan[f].rows = Top(fan[f].saw[1], fan[f].saw[2])
      BY <1>1 DEF QueriesAre
    <3> QED BY <1>1, <3>2, <3>3
  <2> QED BY <1>1, <1>5, <2>1 DEF CacheIsTop, Top
<1>11. UNCHANGED <<page, shown, totalShown>>
  BY <1>1
<1>12. RowsFollow => RowsFollow'
  BY <1>1, <1>7, <1>11 DEF RowsFollow
<1>13. CountFollows => CountFollows'
  BY <1>1, <1>5, <1>7 DEF CountFollows
<1> QED BY <1>1, <1>5, <1>6, <1>8, <1>9, <1>10, <1>12, <1>13

\* A broadcast or a handler at rest.
LEMMA RestIs == Rest \in Fans /\ Rest \in Duties /\ Rest.at = "idle"
<1>1. <<{}, 0>> \in (SUBSET Ranks) \X Nat
  OBVIOUS
<1> QED BY <1>1 DEF Rest, Fans, Duties, QueriesOf

\* The broadcasts under way are those there were, and the window is no smaller.
LEMMA QueriesStill ==
  ASSUME QueriesAre, WindowShape, UNCHANGED fan, duty' = Rest, sub.limit <= sub'.limit, sub'.limit \in Nat
  PROVE  QueriesAre'
<1>1. \A f \in Fanouts : fan'[f].at # "idle" =>
        /\ fan'[f].rows = Top(fan'[f].saw[1], fan'[f].saw[2]) /\ fan'[f].saw[2] <= sub'.limit
        /\ fan'[f].total # Unknown
  <2> TAKE f \in Fanouts
  <2>1. fan[f].saw[2] \in Nat /\ sub.limit \in Nat
    BY ShapeIs
  <2>2. fan[f].at # "idle" =>
          /\ fan[f].rows = Top(fan[f].saw[1], fan[f].saw[2]) /\ fan[f].saw[2] <= sub.limit
          /\ fan[f].total # Unknown
    BY DEF QueriesAre
  <2>3. fan[f].saw[2] <= sub.limit => fan[f].saw[2] <= sub'.limit
    BY <2>1
  <2> QED BY <2>2, <2>3
<1>2. duty'.at = "idle"
  BY RestIs
<1> QED BY <1>1, <1>2 DEF QueriesAre, Top, Unknown

\* A frame that is sent on its own.
LEMMA FrameSent ==
  ASSUME WindowShape, FramesSound, NEW m \in WindowFrames, CountAndSnapshot(m), page' = Append(page, m),
         UNCHANGED <<shown, totalShown>>
  PROVE  /\ page' \in Seq(WindowFrames) /\ FramesSound'
         /\ \A r : IF Says(m, r) THEN ShowsAfter(page', shown', r) <=> Gives(m, r)
                   ELSE ShowsAfter(page', shown', r) <=> ShowsAfter(page, shown, r)
         /\ \A n : IF m.total # Unknown THEN CountsAfter(page', totalShown', n) <=> n = m.total
                   ELSE CountsAfter(page', totalShown', n) <=> CountsAfter(page, totalShown, n)
<1>1. page \in Seq(WindowFrames)
  BY DEF WindowShape
<1> PICK q : q = Append(page, m)
  OBVIOUS
<1>2. /\ q \in Seq(WindowFrames)
      /\ \A r : IF Says(m, r) THEN ShowsAfter(q, shown, r) <=> Gives(m, r)
                ELSE ShowsAfter(q, shown, r) <=> ShowsAfter(page, shown, r)
      /\ \A n : IF m.total # Unknown THEN CountsAfter(q, totalShown, n) <=> n = m.total
                ELSE CountsAfter(q, totalShown, n) <=> CountsAfter(page, totalShown, n)
  BY <1>1, OneFrameMore, Zenon
<1>3. Framed(q)
  BY <1>1 DEF FramesSound, Framed
<1>4. page' = q
  OBVIOUS
<1> QED BY <1>2, <1>3, <1>4 DEF FramesSound

\* A snapshot answers the bootstrap, or is lost.
LEMMA BootstrappedKeeps == ASSUME WindowsIInv, Bootstrapped PROVE WindowsIInv'
<1> USE DEF WindowsIInv
<1>1. /\ UNCHANGED <<granted, table, owed, fan, requests, shown, totalShown>>
      /\ duty.at = "bootstrap" /\ duty' = Rest
  BY DEF Bootstrapped
<1>2. /\ duty.rows \in SUBSET Ranks /\ duty.total \in Nat /\ duty.total # Unknown
      /\ duty.rows = Top(duty.saw[1], duty.saw[2])
      /\ sub.limit \in Nat /\ sub.total \in Nat
  BY <1>1, ShapeIs DEF QueriesAre
<1>3. Cardinality(duty.rows) \in Nat
  BY <1>2, TotalIs
<1>4. OneSends'
  BY <1>1 DEF OneSends
<1>5. CASE /\ page' = Append(page, Frame("snapshot", duty.rows, {}, duty.total))
           /\ lastSent' = duty.rows
           /\ sub' = [sub EXCEPT !.loaded = Cardinality(duty.rows), !.total = duty.total, !.ready = TRUE]
           /\ excuses' = excuses \cup Overlap
           /\ behind' = Stale(duty)
  <2> PICK m : m = Frame("snapshot", duty.rows, {}, duty.total)
    OBVIOUS
  <2>1. /\ m \in WindowFrames /\ CountAndSnapshot(m) /\ \A r : Says(m, r) /\ (Gives(m, r) <=> r \in duty.rows)
        /\ m.total = duty.total
    BY <1>2 DEF Frame, WindowFrames, CountAndSnapshot, Says, Gives
  <2>2. /\ page' \in Seq(WindowFrames) /\ FramesSound'
        /\ \A r : ShowsAfter(page', shown', r) <=> r \in duty.rows
        /\ \A n : CountsAfter(page', totalShown', n) <=> n = duty.total
    BY <1>5, <1>1, <2>1, FrameSent, <1>2
  <2>3. /\ sub' \in Subs /\ sub'.limit = sub.limit /\ sub'.total = duty.total /\ sub'.ready
    BY <1>2, <1>3, <1>5 DEF WindowShape, Subs
  <2>4. behind' \in BOOLEAN
    BY <1>5 DEF Stale
  <2>5. WindowShape'
    BY <1>1, <1>2, <1>5, <2>2, <2>3, <2>4, RestIs DEF WindowShape
  <2>6. QueriesAre'
    BY <1>1, <1>2, <2>3, QueriesStill
  <2>7. CacheIsTop'
    <3>1. ASSUME ~ behind' PROVE duty.rows = Top(table, sub.limit)
      <4>1. duty.saw = <<table, sub.limit>>
        BY <1>5, <3>1 DEF Stale
      <4>2. duty.saw[1] = table /\ duty.saw[2] = sub.limit
        BY <4>1
      <4> QED BY <1>2, <4>2
    <3> QED BY <1>1, <1>5, <2>3, <3>1 DEF CacheIsTop, Top
  <2>8. excuses' \cap {"overlap"} = {} => \A f \in Fanouts : fan'[f].at # "sent"
    BY <1>1, <1>5 DEF Overlap, Sending
  <2>9. excuses' \cap {"overlap", "page"} = {} => RowsFollow'
    <3>1. ASSUME \A f \in Fanouts : fan'[f].at # "sent" PROVE RowsFollow'
      BY <1>5, <2>2, <3>1 DEF RowsFollow
    <3> QED BY <2>8, <3>1
  <2>10. excuses' \cap {"overlap", "count"} = {} => CountFollows'
    <3>1. ASSUME \A f \in Fanouts : fan'[f].at # "sent" PROVE CountFollows'
      BY <2>2, <2>3, <3>1 DEF CountFollows
    <3> QED BY <2>8, <3>1
  <2> QED BY <1>1, <1>4, <2>2, <2>3, <2>5, <2>6, <2>7, <2>9, <2>10
<1>6. CASE /\ sub' = [sub EXCEPT !.loaded = Cardinality(duty.rows), !.total = duty.total]
           /\ excuses' = excuses \cup {"count"}
           /\ UNCHANGED <<page, lastSent, behind>>
  <2>1. /\ sub' \in Subs /\ sub'.limit = sub.limit /\ sub'.ready = sub.ready
    BY <1>2, <1>3, <1>6 DEF WindowShape, Subs
  <2>2. WindowShape' /\ FramesSound'
    BY <1>1, <1>6, <2>1, RestIs DEF WindowShape, FramesSound
  <2>3. QueriesAre'
    BY <1>1, <1>2, <2>1, QueriesStill
  <2>4. CacheIsTop'
    BY <1>1, <1>6, <2>1 DEF CacheIsTop, Top
  <2>5. RowsFollow => RowsFollow'
    BY <1>1, <1>6, FollowStill
  <2> QED BY <1>1, <1>4, <1>6, <2>1, <2>2, <2>3, <2>4, <2>5
<1> QED BY <1>5, <1>6 DEF Bootstrapped

\* More rows of the window, or none of them.
LEMMA MoreLoadedKeeps == ASSUME WindowsIInv, MoreLoaded PROVE WindowsIInv'
<1> USE DEF WindowsIInv
<1>1. /\ UNCHANGED <<table, owed, fan, requests, shown, totalShown>>
      /\ duty.at = "more" /\ duty' = Rest
  BY DEF MoreLoaded
<1>2. /\ duty.rows \in SUBSET Ranks /\ duty.total \in Nat /\ duty.total # Unknown
      /\ duty.rows = Top(duty.saw[1], duty.saw[2] + PageSize)
      /\ sub.limit \in Nat /\ sub.total \in Nat /\ PageSize \in Nat \ {0} /\ Unknown \in Nat
  BY <1>1, ShapeIs, TotalIs DEF QueriesAre, WindowShape
<1>3. Cardinality(duty.rows) \in Nat
  BY <1>2, TotalIs
<1>4. OneSends'
  BY <1>1 DEF OneSends
<1>13. PICK m : m = Frame("append", NewRows, {}, Unknown)
  OBVIOUS
<1>0. PICK n : n = Frame("count", {}, {}, duty.total)
  OBVIOUS
<1>5. /\ m \in WindowFrames /\ CountAndSnapshot(m) /\ m.total = Unknown
      /\ \A r : (Says(m, r) <=> r \in NewRows) /\ (Gives(m, r) <=> r \in NewRows)
  BY <1>2, <1>13 DEF NewRows, Frame, WindowFrames, CountAndSnapshot, Says, Gives
<1>6. /\ n \in WindowFrames /\ CountAndSnapshot(n) /\ n.kind = "count" /\ n.rows = {} /\ n.gone = {}
      /\ n.total = duty.total /\ n.total # Unknown
  BY <1>0, <1>2 DEF Frame, WindowFrames, CountAndSnapshot
<1>11. PICK same \in BOOLEAN : same <=> duty.total = sub.total
  OBVIOUS
<1>12. PICK b : (same => b = <<>>) /\ (~ same => b = <<n>>)
  OBVIOUS
<1>7. CountFrame(duty.total) = b
  BY <1>0, <1>11, <1>12 DEF CountFrame
<1>9. CASE /\ page' = page \o (IF NewRows = {} THEN <<>> ELSE <<Frame("append", NewRows, {}, Unknown)>>)
                          \o CountFrame(duty.total)
           /\ lastSent' = duty.rows
           /\ granted' = granted + PageSize
           /\ sub' = [sub EXCEPT !.loaded = Cardinality(duty.rows), !.limit = LimitAfter, !.total = duty.total]
           /\ excuses' = excuses \cup Overlap
                \cup (IF (duty.rows \ NewRows) \subseteq lastSent
                         /\ lastSent \subseteq duty.rows THEN {} ELSE {"page"})
           /\ behind' = Stale(duty)
  <2>0. PICK bare \in BOOLEAN : bare <=> NewRows = {}
    OBVIOUS
  <2>12. PICK a : (bare => a = <<>>) /\ (~ bare => a = <<m>>)
    OBVIOUS
  <2>1. page' = page \o a \o b
    BY <1>7, <1>9, <1>13, <2>0, <2>12
  <2>2. /\ page' \in Seq(WindowFrames) /\ FramesSound'
        /\ \A r : IF ~ bare /\ Says(m, r) THEN ShowsAfter(page', shown', r) <=> Gives(m, r)
                  ELSE ShowsAfter(page', shown', r) <=> ShowsAfter(page, shown, r)
        /\ \A t : IF same THEN CountsAfter(page', totalShown', t) <=> CountsAfter(page, totalShown, t)
                  ELSE CountsAfter(page', totalShown', t) <=> t = n.total
    <3>1. /\ WindowShape /\ FramesSound /\ shown' = shown /\ totalShown' = totalShown
          /\ m \in WindowFrames /\ n \in WindowFrames /\ CountAndSnapshot(m) /\ CountAndSnapshot(n)
          /\ m.total = Unknown /\ n.kind = "count" /\ n.total # Unknown
          /\ (bare => a = <<>>) /\ (~ bare => a = <<m>>) /\ (same => b = <<>>) /\ (~ same => b = <<n>>)
          /\ page' = page \o a \o b
      BY <1>1, <1>5, <1>6, <1>12, <2>1, <2>12
    <3> HIDE DEF WindowsIInv
    <3> QED BY <3>1, FramesAdded
  <2>4. /\ sub' \in Subs /\ sub'.limit = sub.limit + PageSize /\ sub'.total = duty.total
        /\ sub'.ready = sub.ready
    <3>1. LimitAfter \in Nat
      BY <1>2 DEF LimitAfter
    <3> QED BY <1>2, <1>3, <1>9, <3>1 DEF WindowShape, Subs, LimitAfter
  <2>5. behind' \in BOOLEAN
    BY <1>9 DEF Stale
  <2>6. WindowShape'
    BY <1>1, <1>2, <1>9, <2>2, <2>4, <2>5, RestIs DEF WindowShape
  <2>7. QueriesAre'
    BY <1>2, <2>4, <1>1, QueriesStill
  <2>8. CacheIsTop'
    <3>1. ASSUME ~ behind' PROVE duty.rows = Top(table, sub.limit + PageSize)
      <4>1. duty.saw = <<table, sub.limit>>
        BY <1>9, <3>1 DEF Stale
      <4>2. duty.saw[1] = table /\ duty.saw[2] = sub.limit
        BY <4>1
      <4> QED BY <1>2, <4>2
    <3> QED BY <1>1, <1>9, <2>4, <3>1 DEF CacheIsTop, Top
  <2>9. excuses' \cap {"overlap"} = {} =>
          excuses \cap {"overlap"} = {} /\ \A f \in Fanouts : fan'[f].at # "sent" /\ fan[f].at # "sent"
    BY <1>1, <1>9 DEF Overlap, Sending
  <2>10. ASSUME excuses' \cap {"overlap", "page"} = {} PROVE RowsFollow'
    BY <1>9, <2>9, <2>10, <1>5, <2>0, <2>2 DEF RowsFollow, NewRows
  <2>11. ASSUME excuses' \cap {"overlap", "count"} = {} PROVE CountFollows'
    BY <1>9, <2>9, <2>11, <1>6, <1>11, <2>2, <2>4 DEF CountFollows
  <2> QED BY <1>1, <1>4, <1>9, <2>2, <2>4, <2>6, <2>7, <2>8, <2>10, <2>11
<1>10. CASE /\ page' = page \o CountFrame(duty.total)
            /\ sub' = [sub EXCEPT !.total = duty.total]
            /\ excuses' = excuses \cup Overlap
            /\ UNCHANGED <<lastSent, granted, behind>>
  <2>0. PICK bare \in BOOLEAN : bare
    OBVIOUS
  <2>12. PICK a : (bare => a = <<>>) /\ (~ bare => a = <<m>>)
    OBVIOUS
  <2>1. page' = page \o a \o b
    BY <1>7, <1>10, <2>0, <2>12 DEF WindowShape
  <2>2. /\ page' \in Seq(WindowFrames) /\ FramesSound'
        /\ \A r : IF ~ bare /\ Says(m, r) THEN ShowsAfter(page', shown', r) <=> Gives(m, r)
                  ELSE ShowsAfter(page', shown', r) <=> ShowsAfter(page, shown, r)
        /\ \A t : IF same THEN CountsAfter(page', totalShown', t) <=> CountsAfter(page, totalShown, t)
                  ELSE CountsAfter(page', totalShown', t) <=> t = n.total
    <3>1. /\ WindowShape /\ FramesSound /\ shown' = shown /\ totalShown' = totalShown
          /\ m \in WindowFrames /\ n \in WindowFrames /\ CountAndSnapshot(m) /\ CountAndSnapshot(n)
          /\ m.total = Unknown /\ n.kind = "count" /\ n.total # Unknown
          /\ (bare => a = <<>>) /\ (~ bare => a = <<m>>) /\ (same => b = <<>>) /\ (~ same => b = <<n>>)
          /\ page' = page \o a \o b
      BY <1>1, <1>5, <1>6, <1>12, <2>1, <2>12
    <3> HIDE DEF WindowsIInv
    <3> QED BY <3>1, FramesAdded
  <2>4. /\ sub' \in Subs /\ sub'.limit = sub.limit /\ sub'.total = duty.total /\ sub'.ready = sub.ready
    BY <1>2, <1>10 DEF WindowShape, Subs
  <2>5. WindowShape'
    BY <1>1, <1>10, <2>2, <2>4, RestIs DEF WindowShape
  <2>6. QueriesAre'
    BY <1>1, <1>2, <2>4, QueriesStill
  <2>7. CacheIsTop'
    BY <1>1, <1>10, <2>4 DEF CacheIsTop, Top
  <2>8. excuses' \cap {"overlap"} = {} => \A f \in Fanouts : fan'[f].at # "sent" /\ fan[f].at # "sent"
    BY <1>1, <1>10 DEF Overlap, Sending
  <2>9. ASSUME excuses' \cap {"overlap", "page"} = {} PROVE RowsFollow'
    BY <1>10, <2>8, <2>9, <2>0, <2>2 DEF RowsFollow
  <2>10. ASSUME excuses' \cap {"overlap", "count"} = {} PROVE CountFollows'
    BY <1>10, <2>8, <2>10, <1>6, <1>11, <2>2, <2>4 DEF CountFollows
  <2> QED BY <1>1, <1>4, <1>10, <2>2, <2>4, <2>5, <2>6, <2>7, <2>9, <2>10
<1> QED BY <1>9, <1>10 DEF MoreLoaded

\* A broadcast sends the difference, or loses it.
LEMMA SendDiffKeeps == ASSUME WindowsIInv, NEW f \in Fanouts, SendDiff(f) PROVE WindowsIInv'
<1> USE DEF WindowsIInv
<1>1. /\ UNCHANGED <<granted, table, owed, lastSent, duty, requests, shown, totalShown, behind, excuses>>
      /\ fan[f].at = "queried" /\ \A g \in Fanouts : fan[g].at # "sent"
  BY DEF SendDiff, Locked, Sending
<1>0. PICK rows : rows = Entitled(f)
  OBVIOUS
<1>2. rows = fan[f].rows /\ rows \in SUBSET Ranks
  BY <1>1, ShapeIs, TopIs, <1>0 DEF QueriesAre, Entitled
<1>3. /\ lastSent \in SUBSET Ranks /\ fan \in [Fanouts -> Fans] /\ fan[f] \in Fans /\ duty \in Duties
      /\ fan[f].total \in Nat /\ fan[f].total # Unknown /\ sub.limit \in Nat /\ sub.total \in Nat
      /\ Unknown \in Nat
  BY <1>1, ShapeIs, TotalIs DEF WindowShape, QueriesAre
<1>4. PICK ins : ins = rows \ lastSent
  OBVIOUS
<1>5. PICK del : del = lastSent \ rows
  OBVIOUS
<1>6. CASE /\ page' = page \o (IF ins \cup del = {} THEN <<>>
                               ELSE <<Frame("delta", ins, del, Unknown)>>)
                           \o CountFrame(fan[f].total)
           /\ fan' = [fan EXCEPT ![f].at = "sent", ![f].rows = rows,
                                 ![f].counted = (fan[f].total # sub.total)]
           /\ UNCHANGED <<sub, windowLeft>>
  <2>1. PICK m : m = Frame("delta", ins, del, Unknown)
    OBVIOUS
  <2>2. PICK n : n = Frame("count", {}, {}, fan[f].total)
    OBVIOUS
  <2>3. PICK bare \in BOOLEAN : bare <=> ins \cup del = {}
    OBVIOUS
  <2>4. PICK same \in BOOLEAN : same <=> fan[f].total = sub.total
    OBVIOUS
  <2>5. PICK a : (bare => a = <<>>) /\ (~ bare => a = <<m>>)
    OBVIOUS
  <2>6. PICK b : (same => b = <<>>) /\ (~ same => b = <<n>>)
    OBVIOUS
  <2>7. /\ m \in WindowFrames /\ CountAndSnapshot(m) /\ m.total = Unknown
        /\ \A r : (Says(m, r) <=> r \in ins \cup del) /\ (Gives(m, r) <=> r \in ins)
    BY <1>2, <1>3, <1>4, <1>5, <2>1 DEF Frame, WindowFrames, CountAndSnapshot, Says, Gives
  <2>8. /\ n \in WindowFrames /\ CountAndSnapshot(n) /\ n.kind = "count" /\ n.total = fan[f].total
        /\ n.total # Unknown
    BY <1>3, <2>2 DEF Frame, WindowFrames, CountAndSnapshot
  <2>9. page' = page \o a \o b
    BY <1>6, <2>1, <2>2, <2>3, <2>4, <2>5, <2>6 DEF CountFrame
  <2>10. /\ page' \in Seq(WindowFrames) /\ FramesSound'
         /\ \A r : IF ~ bare /\ Says(m, r) THEN ShowsAfter(page', shown', r) <=> Gives(m, r)
                   ELSE ShowsAfter(page', shown', r) <=> ShowsAfter(page, shown, r)
         /\ \A t : IF same THEN CountsAfter(page', totalShown', t) <=> CountsAfter(page, totalShown, t)
                   ELSE CountsAfter(page', totalShown', t) <=> t = n.total
    <3>1. /\ WindowShape /\ FramesSound /\ shown' = shown /\ totalShown' = totalShown
          /\ m \in WindowFrames /\ n \in WindowFrames /\ CountAndSnapshot(m) /\ CountAndSnapshot(n)
          /\ m.total = Unknown /\ n.kind = "count" /\ n.total # Unknown
          /\ (bare => a = <<>>) /\ (~ bare => a = <<m>>) /\ (same => b = <<>>) /\ (~ same => b = <<n>>)
          /\ page' = page \o a \o b
      BY <1>1, <2>5, <2>6, <2>7, <2>8, <2>9
    <3> HIDE DEF WindowsIInv
    <3> QED BY <3>1, FramesAdded
  <2>11. PICK q : q = [fan[f] EXCEPT !.at = "sent", !.rows = rows, !.counted = (fan[f].total # sub.total)]
    OBVIOUS
  <2>12. /\ q \in Fans /\ q.at = "sent" /\ q.rows = rows /\ q.saw = fan[f].saw /\ q.total = fan[f].total
         /\ q.counted <=> fan[f].total # sub.total
    BY <1>2, <1>3, <2>11 DEF Fans, QueriesOf
  <2>13. /\ fan' \in [Fanouts -> Fans] /\ fan'[f] = q
         /\ \A g \in Fanouts : g # f => fan'[g] = fan[g]
    BY <1>6, <2>11, <1>3, <2>12
  <2>14. WindowShape' /\ CacheIsTop'
    BY <1>1, <1>6, <2>10, <2>13 DEF WindowShape, CacheIsTop, Top
  <2>15. \A g \in Fanouts : fan'[g].at = "sent" => g = f
    BY <1>1, <2>13
  <2>16. OneSends'
    BY <2>15 DEF OneSends
  <2>17. QueriesAre'
    BY ZenonT(40), <1>1, <1>2, <2>12, <2>13, <1>6 DEF QueriesAre, Top, Unknown
  <2>18. ASSUME RowsFollow PROVE RowsFollow'
    <3>1. \A r \in Ranks : ShowsAfter(page, shown, r) <=> r \in lastSent
      BY <1>1, <2>18 DEF RowsFollow
    <3>2. \A r \in Ranks : ShowsAfter(page', shown', r) <=> r \in rows
      <4> TAKE r \in Ranks
      <4>1. CASE r \in ins \cup del
        BY <1>4, <1>5, <2>3, <2>7, <2>10, <4>1
      <4>2. CASE r \notin ins \cup del
        BY <1>4, <1>5, <2>7, <2>10, <3>1, <4>2
      <4> QED BY <4>1, <4>2
    <3>3. \A g \in Fanouts : fan'[g].at = "sent" => fan'[g].rows = rows
      BY <2>12, <2>13, <2>15
    <3>4. ~ \A g \in Fanouts : fan'[g].at # "sent"
      BY <2>12, <2>13
    <3> QED BY <3>2, <3>3, <3>4 DEF RowsFollow
  <2>19. ASSUME CountFollows PROVE CountFollows'
    <3>1. CountsAfter(page, totalShown, sub.total)
      BY <1>1, <2>19 DEF CountFollows
    <3>2. CountsAfter(page', totalShown', fan[f].total)
      <4>1. CASE same
        BY <2>4, <2>10, <3>1, <4>1
      <4>2. CASE ~ same
        BY <2>8, <2>10, <4>2
      <4> QED BY <4>1, <4>2
    <3>3. \A g \in Fanouts : fan'[g].at = "sent" => Counted(g)' = fan[f].total
      BY <1>6, <2>12, <2>13, <2>15 DEF Counted
    <3>4. ~ \A g \in Fanouts : fan'[g].at # "sent"
      BY <2>12, <2>13
    <3> QED BY <3>2, <3>3, <3>4 DEF CountFollows
  <2> QED BY <1>1, <1>6, <2>10, <2>14, <2>16, <2>17, <2>18, <2>19
<1>7. CASE /\ fan' = [fan EXCEPT ![f] = Rest]
           /\ sub' = [sub EXCEPT !.total = AfterDrop(f)]
           /\ UNCHANGED page
  <2>1. sub' = sub
    BY <1>7 DEF AfterDrop, WindowShape, Subs
  <2>2. /\ fan' \in [Fanouts -> Fans] /\ fan'[f].at = "idle"
        /\ \A g \in Fanouts : g # f => fan'[g] = fan[g]
    BY <1>3, <1>7, RestIs
  <2>3. WindowShape' /\ CacheIsTop' /\ FramesSound'
    BY <1>1, <1>7, <2>1, <2>2 DEF WindowShape, CacheIsTop, FramesSound, Top
  <2>4. \A g \in Fanouts : fan'[g].at # "sent"
    BY <1>1, <2>2
  <2>5. OneSends'
    BY <2>4 DEF OneSends
  <2>6. QueriesAre'
    BY <2>2, <1>1, <2>1 DEF QueriesAre, Top, Unknown
  <2>7. /\ \A g \in Fanouts : fan'[g].at = "sent" <=> fan[g].at = "sent"
        /\ \A g \in Fanouts : fan[g].at = "sent" => fan'[g] = fan[g]
    BY <1>1, <2>4
  <2> QED BY <1>1, <1>7, <2>1, <2>3, <2>5, <2>6, <2>7, FollowStill
<1>8. /\ ins = Entitled(f) \ lastSent /\ del = lastSent \ Entitled(f)
  BY <1>0, <1>4, <1>5
<1> QED BY <1>0, <1>6, <1>7, <1>8 DEF SendDiff

\* At first nothing is under way.
LEMMA WindowsStarts == ASSUME WindowsInit PROVE WindowsIInv
<1>1. Cardinality(Ranks) \in Nat /\ First \subseteq Ranks /\ WindowSize \in Nat /\ Unknown \in Nat
  BY WindowAssumption, FS_CardinalityType DEF Unknown
<1>2. WindowShape
  <2>1. <<"bootstrap">> \in Seq({"bootstrap", "more"}) /\ <<>> \in Seq(WindowFrames)
    OBVIOUS
  <2> QED BY <1>1, <2>1, RestIs DEF WindowsInit, WindowShape, Subs
<1>3. DOMAIN page = {} /\ (\A f \in Fanouts : fan[f].at = "idle") /\ duty.at = "idle"
  BY RestIs DEF WindowsInit
<1>4. FramesSound /\ OneSends /\ QueriesAre
  BY <1>3 DEF FramesSound, Framed, OneSends, QueriesAre
<1>5. CacheIsTop /\ granted = sub.limit
  BY DEF WindowsInit, CacheIsTop
<1>6. RowsFollow
  BY <1>3 DEF RowsFollow, ShowsAfter, WindowsInit
<1>7. CountFollows
  BY <1>3 DEF CountFollows, CountsAfter, WindowsInit
<1> QED BY <1>2, <1>4, <1>5, <1>6, <1>7 DEF WindowsIInv

\* Every step keeps the invariant.
LEMMA WindowsStep == ASSUME WindowsIInv, [WindowsNext]_windowVars PROVE WindowsIInv'
<1>1. CASE UNCHANGED windowVars
  <2>1. UNCHANGED windowVars
    BY <1>1
  <2>2. WindowShape' /\ FramesSound' /\ OneSends' /\ QueriesAre' /\ CacheIsTop' /\ granted' = sub'.limit
    BY <2>1 DEF windowVars, WindowsIInv, WindowShape, FramesSound, OneSends, QueriesAre, CacheIsTop, Top, Unknown
  <2>3. (RowsFollow => RowsFollow') /\ (CountFollows => CountFollows')
    BY <2>1, FollowStill DEF windowVars
  <2>4. excuses' = excuses
    BY <2>1 DEF windowVars
  <2> QED BY <2>2, <2>3, <2>4 DEF WindowsIInv
<1>2. CASE WindowsNext
  BY <1>2, ChangeKeeps, AskKeeps, DisplayKeeps, HandleKeeps, BootstrappedKeeps, MoreLoadedKeeps, QueryKeeps,
     SendDiffKeeps, CommitWindowKeeps DEF WindowsNext
<1> QED BY <1>1, <1>2

\* The invariant gives the properties.
LEMMA WindowsHolds == ASSUME WindowsIInv PROVE WindowsInv
<1> USE DEF WindowsIInv
<1>1. WindowsTypeOK
  <2> PICK S : S = {f \in Fanouts : fan[f].at = "sent"}
    OBVIOUS
  <2>1. \A f, g \in S : f = g
    BY DEF OneSends
  <2>2. Cardinality(S) <= 1
    <3>1. CASE S = {}
      BY <3>1, FS_EmptySet
    <3>2. CASE S # {}
      <4>1. PICK f : f \in S
        BY <3>2
      <4>2. S = {f}
        BY <2>1, <4>1
      <4>3. Cardinality(S) = 1
        BY <4>2, FS_Singleton
      <4> QED BY <4>3
    <3> QED BY <3>1, <3>2
  <2> QED BY <2>2 DEF WindowsTypeOK, WindowShape, Subs
<1>2. ASSUME Settled PROVE DOMAIN page = {} /\ \A f \in Fanouts : fan[f].at # "sent"
  BY <1>2, RestIs DEF Settled
<1>3. WindowIsShown
  <2> SUFFICES ASSUME Settled, sub.ready, ~ behind, excuses \cap {"overlap", "page"} = {}
               PROVE  shown = Top(table, granted)
    BY DEF WindowIsShown
  <2>1. \A r \in Ranks : ShowsAfter(page, shown, r) <=> r \in lastSent
    BY <1>2 DEF RowsFollow
  <2>2. \A r \in Ranks : r \in shown <=> r \in lastSent
    BY <1>2, <2>1 DEF ShowsAfter
  <2>3. lastSent = Top(table, granted)
    BY DEF CacheIsTop
  <2>4. shown \subseteq Ranks /\ lastSent \subseteq Ranks
    BY DEF WindowShape
  <2> QED BY <2>2, <2>3, <2>4
<1>4. TotalIsShown
  <2> SUFFICES ASSUME Settled, sub.ready, excuses \cap {"overlap", "count"} = {}
               PROVE  totalShown = sub.total
    BY DEF TotalIsShown
  <2>1. CountsAfter(page, totalShown, sub.total)
    BY <1>2 DEF CountFollows
  <2> QED BY <1>2, <2>1 DEF CountsAfter
<1> QED BY <1>1, <1>3, <1>4 DEF WindowsInv

\* A windowed subscription that is quiet shows the rows it is entitled to and the total the server
\* counts (handleLoadMore, sendToSubscriber, commitGroup).
THEOREM WindowsAlwaysHold == WindowsSpec => []WindowsInv
<1>1. WindowsInit => WindowsIInv
  BY WindowsStarts
<1>2. WindowsIInv /\ [WindowsNext]_windowVars => WindowsIInv'
  BY WindowsStep
<1>3. WindowsIInv => WindowsInv
  BY WindowsHolds
<1> QED BY <1>1, <1>2, <1>3, PTL DEF WindowsSpec

-----------------------------------------------------------------------------
(* SqlStore.                                                               *)

\* An op that a batch has claimed.
Claims(h, o) == doing[h].stage \in {"read", "write"} /\ o \in doing[h].ops

\* What is read of row r is nothing, or what an op on it left that was answered fresh.
Written(v, r, of, fresh) ==
  IF v.hlc = 0 THEN v = NoRow ELSE of[v.hlc].row = r /\ of[v.hlc] # Unsent /\ fresh[v.hlc] # 0

\* The ops under way were made, and so were those answered twice.
OpsAreMade ==
  /\ \A h \in Hosts : \A o \in doing[h].ops : opOf[o] # Unsent
  /\ \A o \in again : opOf[o] # Unsent

\* An id that is stored is stored as of its last answer; one that was swept was old.
IdsAreKept ==
  \A o \in StoreOps : /\ reserved[o] # 0 => reserved[o] = freshAt[o]
                      /\ freshAt[o] # 0 /\ reserved[o] = 0 => clock > freshAt[o] + Retention

\* Rows, and the copies that batches have read.
CopiesAreWritten ==
  \A r \in StoreRows : /\ Written(tableRows[r], r, opOf, freshAt)
                        /\ \A h \in Hosts : Written(doing[h].read[r], r, opOf, freshAt)

\* No op of the row has been made twice.
Sure(r) == \A o \in again : RowOf(o) # r

\* A copy with the HLC of the row is the row.
CopiesAgree ==
  \A r \in StoreRows : Sure(r) =>
    \A h \in Hosts : doing[h].read[r].hlc = tableRows[r].hlc => doing[h].read[r] = tableRows[r]

\* An op that was answered fresh once is claimed by one batch, and until that has made
\* it no row and no copy carries its HLC.
ClaimedByOne ==
  \A h \in Hosts : \A o \in StoreOps : Claims(h, o) =>
    /\ freshAt[o] # 0
    /\ o \notin again =>
         /\ \A g \in Hosts : Claims(g, o) => g = h
         /\ \A r \in StoreRows : tableRows[r].hlc # o
         /\ \A g \in Hosts : \A r \in StoreRows : doing[g].read[r].hlc # o

\* The stored cutoff is of the past, and no entry is deleted that it does not cover.
CutIsStored ==
  /\ clock # 0 /\ cut.stored <= clock
  /\ \A h \in Hosts :
       /\ sweeping[h].to <= clock
       /\ sweeping[h].stage = "store" => dialect = "postgres" /\ cut.stored <= sweeping[h].to
       /\ sweeping[h].stage = "delete" => sweeping[h].to <= cut.stored

\* Who compacts holds the lock, in sqlite as long as it has not run out.
SweeperHolds ==
  /\ dialect = "postgres" \/ (dialect = "sqlite" /\ ~ overran) =>
       \A h \in Hosts : sweeping[h].stage # "no" => lock.by = h /\ lock.at # 0
  /\ dialect = "sqlite" /\ ~ overran =>
       \A h \in Hosts : sweeping[h].stage # "no" => ~ lock.at + LockTtl < clock

\* The lock is of somebody who compacts, or it is nobody's any more.
LockIsOf ==
  lock.at # 0 => /\ lock.by \in Hosts /\ lock.deep # 0
                 /\ orphan \/ sweeping[lock.by].stage # "no"

BatchesHold == /\ OpsAreMade /\ IdsAreKept /\ CopiesAreWritten /\ CopiesAgree /\ ClaimedByOne
               /\ EditsSurvive
SweepsHold  == CutIsStored /\ SweeperHolds /\ LockIsOf
StoreIInv   == StoreTypeOK /\ BatchesHold /\ SweepsHold /\ LogTellsOfRows

\* What the assumptions come to.
LEMMA StoreConstants ==
  /\ StoreOps \subseteq Nat \ {0} /\ Merged \subseteq StoreRows /\ Dialects \subseteq {"sqlite", "postgres"}
  /\ LockTtl \in Nat /\ Retention \in Nat /\ WriteAttempts \in Nat \ {0}
  /\ 0 \in 0..WriteAttempts - 1 /\ NoRow \in RowState /\ NoRow.hlc = 0
<1>1. StoreOps \subseteq Nat \ {0} /\ Merged \subseteq StoreRows /\ Dialects \subseteq {"sqlite", "postgres"}
  BY SqlStoreAssumption
<1>2. LockTtl \in Nat /\ Retention \in Nat /\ WriteAttempts \in Nat \ {0}
  BY SqlStoreAssumption
<1>3. NoRow \in RowState /\ NoRow.hlc = 0
  BY DEF NoRow, RowState
<1> QED BY <1>1, <1>2, <1>3

\* What concerns the batches holds as long as nothing of theirs changes.
LEMMA BatchesStill ==
  ASSUME BatchesHold, UNCHANGED <<opOf, doing, again, reserved, freshAt, clock, tableRows, made>>
  PROVE  BatchesHold'
<1>1. OpsAreMade' /\ IdsAreKept'
  BY DEF BatchesHold, OpsAreMade, IdsAreKept
<1>2. CopiesAreWritten'
  BY DEF BatchesHold, CopiesAreWritten
<1>3. CopiesAgree'
  BY DEF BatchesHold, CopiesAgree, Sure, RowOf
<1>4. ClaimedByOne'
  BY DEF BatchesHold, ClaimedByOne, Claims
<1>5. EditsSurvive'
  BY DEF BatchesHold, EditsSurvive, RowOf
<1> QED BY <1>1, <1>2, <1>3, <1>4, <1>5 DEF BatchesHold

\* And what concerns compaction.
LEMMA SweepsStill ==
  ASSUME SweepsHold, UNCHANGED <<dialect, clock, lock, cut, sweeping, orphan, overran>>
  PROVE  SweepsHold'
<1>1. CutIsStored'
  BY DEF SweepsHold, CutIsStored
<1>2. SweeperHolds'
  BY DEF SweepsHold, SweeperHolds
<1>3. LockIsOf'
  BY DEF SweepsHold, LockIsOf
<1> QED BY <1>1, <1>2, <1>3 DEF SweepsHold

\* A batch that claims no more than before and reads the rows as they are.
LEMMA BatchReads ==
  ASSUME StoreTypeOK, BatchesHold, NEW h \in Hosts, NEW b \in Batches, doing' = [doing EXCEPT ![h] = b],
         UNCHANGED <<opOf, again, reserved, freshAt, clock, tableRows, made>>,
         b.ops \subseteq doing[h].ops,
         b.stage \in {"read", "write"} => doing[h].stage \in {"read", "write"} \/ b.ops = {},
         \A r \in StoreRows : b.read[r] = NoRow \/ b.read[r] = tableRows[r] \/ b.read[r] = doing[h].read[r]
  PROVE  BatchesHold'
<1>1. /\ doing \in [Hosts -> Batches] /\ doing' \in [Hosts -> Batches] /\ doing'[h] = b
      /\ \A g \in Hosts : g # h => doing'[g] = doing[g]
  BY DEF StoreTypeOK
<1>2. OpsAreMade'
  BY <1>1 DEF BatchesHold, OpsAreMade
<1>3. IdsAreKept'
  BY DEF BatchesHold, IdsAreKept
<1>4. CopiesAreWritten'
  <2>1. ASSUME NEW r \in StoreRows, NEW g \in Hosts PROVE Written(doing'[g].read[r], r, opOf, freshAt)
    BY StoreConstants, <1>1 DEF Written, BatchesHold, CopiesAreWritten
  <2> QED BY <2>1 DEF BatchesHold, CopiesAreWritten
<1>5. CopiesAgree'
  <2>1. ASSUME NEW r \in StoreRows, Sure(r), NEW g \in Hosts, doing'[g].read[r].hlc = tableRows[r].hlc
        PROVE  doing'[g].read[r] = tableRows[r]
    BY <2>1, StoreConstants, <1>1 DEF BatchesHold, CopiesAgree, CopiesAreWritten, Written
  <2> QED BY <2>1 DEF CopiesAgree, Sure, RowOf
<1>6. ClaimedByOne'
  <2>1. ASSUME NEW g \in Hosts, NEW o \in StoreOps, Claims(g, o)' PROVE Claims(g, o)
    BY <1>1, <2>1 DEF Claims
  <2>2. ASSUME NEW g \in Hosts, NEW o \in StoreOps, Claims(g, o)'
        PROVE  /\ freshAt[o] # 0
               /\ o \notin again =>
                    /\ \A q \in Hosts : Claims(q, o)' => q = g
                    /\ \A r \in StoreRows : tableRows[r].hlc # o
                    /\ \A q \in Hosts : \A r \in StoreRows : doing'[q].read[r].hlc # o
    BY <2>1, <2>2, StoreConstants, <1>1 DEF BatchesHold, ClaimedByOne
  <2> QED BY <2>2 DEF ClaimedByOne
<1>7. EditsSurvive'
  BY DEF BatchesHold, EditsSurvive, RowOf
<1> QED BY <1>2, <1>3, <1>4, <1>5, <1>6, <1>7 DEF BatchesHold

\* The log tells of rows that nobody has touched.
LEMMA LogStill ==
  ASSUME LogTellsOfRows, UNCHANGED <<tableRows, opLog, cut, gone>>
  PROVE  LogTellsOfRows'
  BY DEF LogTellsOfRows

\* What a batch is made of.
LEMMA BatchIs ==
  ASSUME StoreTypeOK, NEW h \in Hosts
  PROVE  /\ doing[h] \in Batches /\ doing[h].ops \subseteq StoreOps
         /\ doing[h].read \in [StoreRows -> RowState] /\ doing[h].lost \in 0..WriteAttempts - 1
         /\ doing[h].stage = "idle" <=> doing[h].ops = {}
         /\ tableRows \in [StoreRows -> RowState]
  BY DEF StoreTypeOK, Batches

\* An op that was made is on a row.
LEMMA RowOfIs ==
  ASSUME StoreTypeOK, NEW o \in StoreOps, opOf[o] # Unsent
  PROVE  RowOf(o) \in StoreRows /\ opOf[o].kind \in {"put", "delete"}
<1>1. opOf[o] \in {Unsent} \cup [row : StoreRows, kind : {"put", "delete"}]
  BY DEF StoreTypeOK
<1> QED BY <1>1 DEF RowOf

\* A batch arrives: of ops that were made before, or now.
LEMMA SendKeeps ==
  ASSUME StoreIInv, NEW h \in Hosts, NEW ops \in (SUBSET StoreOps) \ {{}}, Send(h, ops)
  PROVE  StoreIInv'
<1> USE DEF StoreIInv
<1>1. /\ UNCHANGED <<dialect, schema, tableVars, lockVars, clock, made, freshAt, again, gone>>
      /\ doing[h].stage = "idle"
      /\ opOf' \in [StoreOps -> {Unsent} \cup [row : StoreRows, kind : {"put", "delete"}]]
      /\ \A o \in StoreOps : IF o \in ops THEN opOf'[o] # Unsent /\ (opOf[o] = Unsent \/ opOf'[o] = opOf[o])
                             ELSE opOf'[o] = opOf[o]
  BY DEF Send
<1>0. ops \subseteq StoreOps /\ ops # {}
  OBVIOUS
<1> PICK b : b = [Nothing EXCEPT !.stage = "prefetch", !.ops = ops]
  OBVIOUS
<1>2. doing' = [doing EXCEPT ![h] = b]
  BY DEF Send
<1>3. b \in Batches /\ b.stage = "prefetch" /\ b.ops = ops /\ \A r \in StoreRows : b.read[r] = NoRow
  BY <1>0, StoreConstants DEF Nothing, Batches
<1>4. /\ doing \in [Hosts -> Batches] /\ doing' \in [Hosts -> Batches] /\ doing'[h] = b
      /\ \A g \in Hosts : g # h => doing'[g] = doing[g]
  BY <1>2, <1>3 DEF StoreTypeOK
<1>5. StoreTypeOK'
  BY ZenonT(40), <1>0, <1>1, <1>3, <1>4 DEF StoreTypeOK, tableVars, lockVars
<1>6. \A o \in StoreOps : opOf[o] # Unsent => opOf'[o] = opOf[o]
  BY <1>1
<1>7. OpsAreMade'
  BY ZenonT(40), <1>0, <1>1, <1>3, <1>4, <1>6 DEF BatchesHold, OpsAreMade, StoreTypeOK, Batches
<1>8. IdsAreKept'
  BY <1>1 DEF BatchesHold, IdsAreKept, tableVars
<1>9. CopiesAreWritten'
  <2>1. ASSUME NEW v \in RowState, NEW r \in StoreRows, Written(v, r, opOf, freshAt) PROVE Written(v, r, opOf', freshAt)
    BY <1>6, <2>1 DEF Written, RowState
  <2>2. ASSUME NEW r \in StoreRows, NEW g \in Hosts PROVE Written(doing'[g].read[r], r, opOf', freshAt)
    <3>1. Written(NoRow, r, opOf', freshAt)
      BY StoreConstants DEF Written
    <3>2. doing[g].read[r] \in RowState /\ Written(doing[g].read[r], r, opOf, freshAt)
      BY BatchIs DEF BatchesHold, CopiesAreWritten
    <3> QED BY <1>3, <1>4, <2>1, <3>1, <3>2
  <2>3. ASSUME NEW r \in StoreRows PROVE Written(tableRows[r], r, opOf', freshAt)
    BY <2>1 DEF BatchesHold, CopiesAreWritten, StoreTypeOK
  <2>4. UNCHANGED <<tableRows, freshAt>>
    BY <1>1 DEF tableVars
  <2> QED BY <2>2, <2>3, <2>4 DEF CopiesAreWritten
<1>10. \A o \in again : o \in StoreOps /\ opOf'[o] = opOf[o]
  BY <1>6 DEF BatchesHold, OpsAreMade, StoreTypeOK
<1>11. CopiesAgree'
  <2>1. ASSUME NEW r \in StoreRows, Sure(r), NEW g \in Hosts, doing'[g].read[r].hlc = tableRows[r].hlc
        PROVE  doing'[g].read[r] = tableRows[r]
    <3>1. doing[g].read[r].hlc = tableRows[r].hlc => doing[g].read[r] = tableRows[r]
      BY <2>1 DEF BatchesHold, CopiesAgree
    <3>2. tableRows[r].hlc = 0 => tableRows[r] = NoRow
      BY DEF BatchesHold, CopiesAreWritten, Written
    <3> QED BY ZenonT(40), <1>3, <1>4, <2>1, <3>1, <3>2, StoreConstants
  <2> QED BY <1>1, <1>10, <2>1 DEF CopiesAgree, Sure, RowOf, tableVars
<1>12. ClaimedByOne'
  <2>1. ASSUME NEW g \in Hosts, NEW o \in StoreOps, Claims(g, o)' PROVE Claims(g, o)
    BY <1>3, <1>4, <2>1 DEF Claims
  <2>2. ASSUME NEW g \in Hosts, NEW o \in StoreOps, Claims(g, o)'
        PROVE  /\ freshAt[o] # 0
               /\ o \notin again =>
                    /\ \A q \in Hosts : Claims(q, o)' => q = g
                    /\ \A r \in StoreRows : tableRows[r].hlc # o
                    /\ \A q \in Hosts : \A r \in StoreRows : doing'[q].read[r].hlc # o
    <3>1. /\ freshAt[o] # 0
          /\ o \notin again =>
                    /\ \A q \in Hosts : Claims(q, o) => q = g
                    /\ \A r \in StoreRows : tableRows[r].hlc # o
                    /\ \A q \in Hosts : \A r \in StoreRows : doing[q].read[r].hlc # o
      BY <2>1, <2>2 DEF BatchesHold, ClaimedByOne
    <3>2. NoRow.hlc # o
      BY StoreConstants
    <3>3. \A r \in StoreRows : doing'[h].read[r].hlc # o
      BY <1>3, <1>4, <3>2
    <3>4. o \notin again => \A q \in Hosts : \A r \in StoreRows : doing'[q].read[r].hlc # o
      BY <1>4, <3>1, <3>3
    <3> QED BY <2>1, <3>1, <3>4
  <2> QED BY <1>1, <2>2 DEF ClaimedByOne, tableVars
<1>13. EditsSurvive'
  BY <1>1, <1>10 DEF BatchesHold, EditsSurvive, RowOf, tableVars
<1>14. SweepsHold' /\ LogTellsOfRows'
  BY <1>1, SweepsStill, LogStill DEF lockVars, tableVars
<1> QED BY <1>5, <1>7, <1>8, <1>9, <1>11, <1>12, <1>13, <1>14 DEF BatchesHold

\* Reading the rows of a batch.
LEMMA ReadRowsKeeps == ASSUME StoreIInv, NEW h \in Hosts, ReadRows(h) PROVE StoreIInv'
<1> USE DEF StoreIInv
<1>1. /\ UNCHANGED <<dialect, schema, tableVars, lockVars, clock, opOf, storeLeft, made, freshAt, again, gone>>
      /\ doing[h].stage = "read"
  BY DEF ReadRows
<1> PICK copies : copies = [r \in StoreRows |-> IF \E o \in doing[h].ops : RowOf(o) = r THEN tableRows[r] ELSE NoRow]
  OBVIOUS
<1> PICK b : b = [doing[h] EXCEPT !.read = copies, !.stage = "write"]
  OBVIOUS
<1>2. doing' = [doing EXCEPT ![h] = b]
  BY DEF ReadRows, HasRead
<1>3. /\ b \in Batches /\ b.stage = "write" /\ b.ops = doing[h].ops
      /\ \A r \in StoreRows : b.read[r] = NoRow \/ b.read[r] = tableRows[r]
  BY BatchIs, StoreConstants DEF Batches
<1>4. StoreTypeOK'
  <2>1. /\ doing' \in [Hosts -> Batches] /\ doing'[h] = b
        /\ \A g \in Hosts : g # h => doing'[g] = doing[g]
    BY <1>2, <1>3 DEF StoreTypeOK
  <2>2. \A g \in Hosts : doing'[g].stage = "idle" <=> doing'[g].ops = {}
    <3>1. b.ops # {}
      BY <1>1, <1>3, BatchIs
    <3> QED BY <1>3, <2>1, <3>1 DEF StoreTypeOK
  <2> QED BY <1>1, <2>1, <2>2 DEF StoreTypeOK, tableVars, lockVars
<1>5. BatchesHold'
  BY <1>1, <1>2, <1>3, BatchReads DEF tableVars
<1>6. SweepsHold' /\ LogTellsOfRows'
  BY <1>1, SweepsStill, LogStill DEF lockVars, tableVars
<1> QED BY <1>4, <1>5, <1>6

\* Reading one again.
LEMMA ReadRowAgainKeeps == ASSUME StoreIInv, NEW h \in Hosts, ReadRowAgain(h) PROVE StoreIInv'
<1> USE DEF StoreIInv
<1>1. /\ UNCHANGED <<dialect, schema, tableVars, lockVars, clock, opOf, storeLeft, made, freshAt, again, gone>>
      /\ doing[h].stage = "read"
  BY DEF ReadRowAgain
<1>0. PICK o \in doing[h].ops :
        doing' = HasRead(h, [doing[h].read EXCEPT ![RowOf(o)] = tableRows[RowOf(o)]])
  BY DEF ReadRowAgain
<1> PICK copies : copies = [doing[h].read EXCEPT ![RowOf(o)] = tableRows[RowOf(o)]]
  OBVIOUS
<1> PICK b : b = [doing[h] EXCEPT !.read = copies, !.stage = "write"]
  OBVIOUS
<1>2. doing' = [doing EXCEPT ![h] = b]
  BY <1>0 DEF HasRead
<1>3. /\ b \in Batches /\ b.stage = "write" /\ b.ops = doing[h].ops
      /\ \A r \in StoreRows : b.read[r] = tableRows[r] \/ b.read[r] = doing[h].read[r]
  BY BatchIs, RowOfIs DEF BatchesHold, OpsAreMade, Batches
<1>4. StoreTypeOK'
  <2>1. /\ doing' \in [Hosts -> Batches] /\ doing'[h] = b
        /\ \A g \in Hosts : g # h => doing'[g] = doing[g]
    BY <1>2, <1>3 DEF StoreTypeOK
  <2>2. \A g \in Hosts : doing'[g].stage = "idle" <=> doing'[g].ops = {}
    <3>1. b.ops # {}
      BY <1>1, <1>3, BatchIs
    <3> QED BY <1>3, <2>1, <3>1 DEF StoreTypeOK
  <2> QED BY <1>1, <2>1, <2>2 DEF StoreTypeOK, tableVars, lockVars
<1>5. BatchesHold'
  BY <1>1, <1>2, <1>3, BatchReads DEF tableVars
<1>6. SweepsHold' /\ LogTellsOfRows'
  BY <1>1, SweepsStill, LogStill DEF lockVars, tableVars
<1> QED BY <1>4, <1>5, <1>6

\* The ids that are answered fresh are stored, and old ones perhaps swept.
LEMMA ReserveKeeps == ASSUME StoreIInv, NEW h \in Hosts, ReserveOps(h) PROVE StoreIInv'
<1> USE DEF StoreIInv
<1> PICK fresh : fresh = FreshOf(doing[h].ops)
  OBVIOUS
<1> PICK stored : stored = [o \in StoreOps |-> IF o \in fresh THEN clock ELSE reserved[o]]
  OBVIOUS
<1> PICK b : b = [doing[h] EXCEPT !.ops = fresh, !.stage = IF fresh = {} THEN "idle" ELSE "read"]
  OBVIOUS
<1>1. /\ UNCHANGED <<dialect, schema, tableRows, opLog, lockVars, clock, opOf, storeLeft, made, gone>>
      /\ doing[h].stage = "prefetch"
      /\ reserved' = stored \/ reserved' = SweptIds(stored)
      /\ freshAt' = [o \in StoreOps |-> IF o \in fresh THEN clock ELSE freshAt[o]]
      /\ again' = again \cup {o \in fresh : freshAt[o] # 0}
      /\ doing' = [doing EXCEPT ![h] = b]
  BY DEF ReserveOps
<1>2. fresh \subseteq doing[h].ops /\ fresh \subseteq StoreOps /\ \A o \in fresh : reserved[o] = 0
  BY BatchIs DEF FreshOf
<1>3. /\ b \in Batches /\ b.ops = fresh /\ b.stage = (IF fresh = {} THEN "idle" ELSE "read")
      /\ b.read = doing[h].read
  BY <1>2, BatchIs DEF Batches
<1>4. /\ doing \in [Hosts -> Batches] /\ doing' \in [Hosts -> Batches] /\ doing'[h] = b
      /\ \A g \in Hosts : g # h => doing'[g] = doing[g]
      /\ \A g \in Hosts : doing'[g].read = doing[g].read
  BY <1>1, <1>3 DEF StoreTypeOK
<1>5. clock \in Nat \ {0} /\ Retention \in Nat /\ reserved \in [StoreOps -> Nat] /\ freshAt \in [StoreOps -> Nat]
      /\ again \subseteq StoreOps
  BY StoreConstants DEF StoreTypeOK, SweepsHold, CutIsStored
<1>6. \A o \in StoreOps : \/ reserved'[o] = stored[o]
                          \/ reserved'[o] = 0 /\ (stored[o] = 0 \/ clock > stored[o] + Retention)
  <2>1. CASE reserved' = stored
    BY <2>1
  <2>2. CASE reserved' = SweptIds(stored)
    <3> TAKE o \in StoreOps
    <3>1. reserved'[o] = IF Kept(stored[o]) THEN stored[o] ELSE 0
      BY <2>2 DEF SweptIds
    <3>2. stored[o] \in Nat
      BY <1>5
    <3>3. ~ Kept(stored[o]) => stored[o] = 0 \/ clock > stored[o] + Retention
      BY <1>5, <3>2 DEF Kept
    <3> QED BY <3>1, <3>3
  <2> QED BY <1>1, <2>1, <2>2
<1>7. StoreTypeOK'
  <2>1. \A g \in Hosts : doing'[g].stage = "idle" <=> doing'[g].ops = {}
    BY <1>3, <1>4, BatchIs
  <2>2. reserved' \in [StoreOps -> Nat]
    BY <1>5, <1>1 DEF SweptIds
  <2>3. freshAt' \in [StoreOps -> Nat] /\ again' \subseteq StoreOps
    BY <1>1, <1>2, <1>5
  <2> QED BY <1>1, <1>4, <2>1, <2>2, <2>3 DEF StoreTypeOK, lockVars
<1>8. OpsAreMade'
  BY <1>2, <1>3, <1>4, <1>1 DEF BatchesHold, OpsAreMade
<1>9. IdsAreKept'
  <2> SUFFICES ASSUME NEW o \in StoreOps
               PROVE  /\ reserved'[o] # 0 => reserved'[o] = freshAt'[o]
                      /\ freshAt'[o] # 0 /\ reserved'[o] = 0 => clock > freshAt'[o] + Retention
    BY <1>1 DEF IdsAreKept
  <2>1. /\ reserved[o] # 0 => reserved[o] = freshAt[o]
        /\ freshAt[o] # 0 /\ reserved[o] = 0 => clock > freshAt[o] + Retention
    BY DEF BatchesHold, IdsAreKept
  <2>2. CASE o \in fresh
    BY <1>1, <2>2, <1>5, <1>6
  <2>3. CASE o \notin fresh
    BY <1>1, <2>3, <1>6, <2>1
  <2> QED BY <2>2, <2>3
<1>10. \A o \in StoreOps : freshAt[o] # 0 => freshAt'[o] # 0
  BY <1>1, <1>5
<1>11. CopiesAreWritten'
  <2>1. ASSUME NEW v \in RowState, NEW r \in StoreRows, Written(v, r, opOf, freshAt) PROVE Written(v, r, opOf, freshAt')
    BY <1>10, <2>1 DEF Written, RowState
  <2>2. ASSUME NEW r \in StoreRows, NEW g \in Hosts PROVE Written(doing'[g].read[r], r, opOf, freshAt')
    BY BatchIs, <1>4, <2>1 DEF BatchesHold, CopiesAreWritten
  <2>3. ASSUME NEW r \in StoreRows PROVE Written(tableRows[r], r, opOf, freshAt')
    BY <2>1 DEF BatchesHold, CopiesAreWritten, StoreTypeOK
  <2> QED BY <1>1, <2>2, <2>3 DEF CopiesAreWritten
<1>12. CopiesAgree'
  <2>1. \A r \in StoreRows : Sure(r)' => Sure(r)
    BY <1>1 DEF Sure, RowOf
  <2>2. ASSUME NEW r \in StoreRows, Sure(r), NEW g \in Hosts, doing'[g].read[r].hlc = tableRows[r].hlc
        PROVE  doing'[g].read[r] = tableRows[r]
    BY <1>4, <2>2 DEF BatchesHold, CopiesAgree
  <2> QED BY <1>1, <2>1, <2>2 DEF CopiesAgree
<1>13. ClaimedByOne'
  <2>1. ASSUME NEW g \in Hosts, NEW o \in StoreOps, Claims(g, o)'
        PROVE  (g = h /\ o \in fresh) \/ (g # h /\ Claims(g, o))
    BY <1>3, <1>4, <2>1 DEF Claims
  <2>2. \A g \in Hosts : \A o \in StoreOps : Claims(g, o) =>
          /\ freshAt[o] # 0
          /\ o \notin again =>
               /\ \A q \in Hosts : Claims(q, o) => q = g
               /\ \A r \in StoreRows : tableRows[r].hlc # o
               /\ \A q \in Hosts : \A r \in StoreRows : doing[q].read[r].hlc # o
    BY DEF BatchesHold, ClaimedByOne
  <2>3. ASSUME NEW v \in RowState, NEW r \in StoreRows, NEW o \in StoreOps, Written(v, r, opOf, freshAt), freshAt[o] = 0
        PROVE  v.hlc # o
    BY <2>3, StoreConstants DEF Written
  <2>4. ASSUME NEW g \in Hosts, NEW o \in StoreOps, Claims(g, o)'
        PROVE  /\ freshAt'[o] # 0
               /\ o \notin again' =>
                    /\ \A q \in Hosts : Claims(q, o)' => q = g
                    /\ \A r \in StoreRows : tableRows[r].hlc # o
                    /\ \A q \in Hosts : \A r \in StoreRows : doing'[q].read[r].hlc # o
    <3>1. CASE g = h /\ o \in fresh
      <4>1. freshAt'[o] # 0
        BY <1>1, <1>5, <3>1
      <4>2. ASSUME o \notin again' PROVE freshAt[o] = 0
        BY <1>1, <3>1, <4>2
      <4>3. ASSUME o \notin again', NEW q \in Hosts, Claims(q, o)' PROVE q = g
        BY <2>1, <2>2, <3>1, <4>2, <4>3
      <4>4. ASSUME o \notin again', NEW r \in StoreRows PROVE tableRows[r].hlc # o
        BY <2>3, <4>2, <4>4 DEF BatchesHold, CopiesAreWritten, StoreTypeOK
      <4>5. ASSUME o \notin again', NEW r \in StoreRows, NEW q \in Hosts PROVE doing'[q].read[r].hlc # o
        BY BatchIs, <1>4, <2>3, <4>2, <4>5 DEF BatchesHold, CopiesAreWritten
      <4> QED BY <4>1, <4>3, <4>4, <4>5
    <3>2. CASE g # h /\ Claims(g, o)
      <4>1. freshAt[o] # 0 /\ freshAt'[o] # 0
        BY <1>10, <2>2, <3>2
      <4>2. o \in fresh => o \in again'
        BY <1>1, <4>1
      <4>3. o \notin again' => o \notin again
        BY <1>1
      <4>4. ASSUME o \notin again', NEW q \in Hosts, Claims(q, o)' PROVE q = g
        BY <2>1, <2>2, <3>2, <4>2, <4>3, <4>4
      <4> QED BY <1>4, <2>2, <3>2, <4>1, <4>3, <4>4
    <3> QED BY <2>1, <2>4, <3>1, <3>2
  <2> QED BY <1>1, <2>4 DEF ClaimedByOne
<1>14. EditsSurvive'
  BY <1>1 DEF BatchesHold, EditsSurvive, RowOf
<1>15. SweepsHold' /\ LogTellsOfRows'
  BY <1>1, SweepsStill, LogStill DEF lockVars
<1> QED BY <1>7, <1>8, <1>9, <1>11, <1>12, <1>13, <1>14, <1>15 DEF BatchesHold

\* What an op makes of a row.
LEMMA BecameIs ==
  ASSUME StoreTypeOK, NEW o \in StoreOps, NEW was \in RowState
  PROVE  /\ Became(o, was) \in RowState
         /\ Became(o, was) = NoRow \/ Became(o, was).hlc = o
<1>1. was.edits \in SUBSET StoreOps
  BY DEF RowState
<1>2. CASE opOf[o].kind = "delete"
  BY <1>2, StoreConstants DEF Became
<1>3. CASE opOf[o].kind # "delete"
  BY <1>1, <1>3 DEF Became, RowState
<1> QED BY <1>2, <1>3

\* The batch that is done with an op.
DoneBatch(h, o, left) ==
  [ops |-> doing[h].ops \ {o}, stage |-> IF doing[h].ops = {o} THEN "idle" ELSE "write",
   read |-> [doing[h].read EXCEPT ![RowOf(o)] = left], lost |-> 0]

\* It is what it was otherwise.
LEMMA OpDoneIs ==
  ASSUME StoreTypeOK, NEW h \in Hosts, NEW o \in doing[h].ops, opOf[o] # Unsent, NEW left \in RowState,
         doing[h].stage = "write", NEW b, b = DoneBatch(h, o, left)
  PROVE  /\ b \in Batches /\ OpDone(h, o, left) = [doing EXCEPT ![h] = b]
         /\ b.ops = doing[h].ops \ {o} /\ (b.stage = "idle" <=> b.ops = {}) /\ b.stage \in {"idle", "write"}
         /\ \A r \in StoreRows : r # RowOf(o) => b.read[r] = doing[h].read[r]
         /\ b.read[RowOf(o)] = left
<1>1. o \in StoreOps /\ RowOf(o) \in StoreRows
  BY BatchIs, RowOfIs
<1> PICK copies : copies = [doing[h].read EXCEPT ![RowOf(o)] = left]
  OBVIOUS
<1>2. /\ copies \in [StoreRows -> RowState] /\ copies[RowOf(o)] = left
      /\ \A r \in StoreRows : r # RowOf(o) => copies[r] = doing[h].read[r]
  BY <1>1, BatchIs
<1> PICK stage : stage = IF doing[h].ops = {o} THEN "idle" ELSE "write"
  OBVIOUS
<1>6. b = [ops |-> doing[h].ops \ {o}, stage |-> stage, read |-> copies, lost |-> 0]
  BY DEF DoneBatch
<1>3. b \in Batches /\ b.ops = doing[h].ops \ {o} /\ b.stage = stage /\ b.read = copies
  BY <1>2, <1>6, BatchIs, StoreConstants DEF Batches
<1>4. OpDone(h, o, left) = [doing EXCEPT ![h] = b]
  BY DEF OpDone, DoneBatch
<1>5. stage \in {"idle", "write"} /\ (stage = "idle" <=> doing[h].ops \ {o} = {})
  OBVIOUS
<1> QED BY <1>2, <1>3, <1>4, <1>5

\* One batch changes, and is idle just when it has no ops.
LEMMA OneBatch ==
  ASSUME StoreTypeOK, NEW h \in Hosts, NEW b \in Batches, b.stage = "idle" <=> b.ops = {},
         doing' = [doing EXCEPT ![h] = b]
  PROVE  /\ doing' \in [Hosts -> Batches] /\ doing'[h] = b
         /\ \A g \in Hosts : g # h => doing'[g] = doing[g]
         /\ \A g \in Hosts : doing'[g].stage = "idle" <=> doing'[g].ops = {}
<1>1. /\ doing' \in [Hosts -> Batches] /\ doing'[h] = b
      /\ \A g \in Hosts : g # h => doing'[g] = doing[g]
  BY DEF StoreTypeOK
<1>2. \A g \in Hosts : doing'[g].stage = "idle" <=> doing'[g].ops = {}
  BY <1>1 DEF StoreTypeOK
<1> QED BY <1>1, <1>2

\* An op is decided on: it writes, or it does not, or it lost a race.
LEMMA WriteRowKeeps ==
  ASSUME StoreIInv, NEW h \in Hosts, NEW o \in doing[h].ops, WriteRow(h, o)
  PROVE  StoreIInv'
<1> USE DEF StoreIInv
<1> PICK r0 : r0 = RowOf(o)
  OBVIOUS
<1> PICK was : was = doing[h].read[r0]
  OBVIOUS
<1>1. /\ UNCHANGED <<dialect, schema, reserved, lockVars, clock, opOf, storeLeft, freshAt, again, gone>>
      /\ doing[h].stage = "write"
  BY DEF WriteRow
<1>2. /\ o \in StoreOps /\ opOf[o] # Unsent /\ r0 \in StoreRows /\ was \in RowState /\ o # 0
      /\ doing \in [Hosts -> Batches] /\ tableRows \in [StoreRows -> RowState] /\ made \in [StoreRows -> RowState]
  BY BatchIs, RowOfIs, StoreConstants DEF BatchesHold, OpsAreMade, StoreTypeOK
<1>3. \/ doing' = OpDone(h, o, was) /\ UNCHANGED <<tableRows, opLog, made>>
      \/ doing' = [doing EXCEPT ![h] = [@ EXCEPT !.lost = doing[h].lost + 1, !.stage = "read"]]
         /\ UNCHANGED <<tableRows, opLog, made>> /\ doing[h].lost + 1 # WriteAttempts
      \/ ApplyOp(o, was) /\ doing' = OpDone(h, o, Became(o, was)) /\ (r0 \in Merged => Won(o, was))
  BY DEF WriteRow
<1>4. CASE doing' = OpDone(h, o, was) /\ UNCHANGED <<tableRows, opLog, made>>
  <2>7. PICK b : b = DoneBatch(h, o, was)
    OBVIOUS
  <2>1. /\ b \in Batches /\ OpDone(h, o, was) = [doing EXCEPT ![h] = b]
        /\ b.ops = doing[h].ops \ {o} /\ (b.stage = "idle" <=> b.ops = {}) /\ b.stage \in {"idle", "write"}
        /\ \A r \in StoreRows : r # r0 => b.read[r] = doing[h].read[r]
        /\ b.read[r0] = was
    <3>1. StoreTypeOK /\ opOf[o] # Unsent /\ was \in RowState /\ doing[h].stage = "write"
      BY <1>1, <1>2
    <3>2. /\ b \in Batches /\ OpDone(h, o, was) = [doing EXCEPT ![h] = b]
          /\ b.ops = doing[h].ops \ {o} /\ (b.stage = "idle" <=> b.ops = {}) /\ b.stage \in {"idle", "write"}
          /\ \A r \in StoreRows : r # RowOf(o) => b.read[r] = doing[h].read[r]
          /\ b.read[RowOf(o)] = was
      BY <3>1, <2>7, OpDoneIs
    <3>3. RowOf(o) = r0
      OBVIOUS
    <3> QED BY <3>2, <3>3
  <2>2. doing' = [doing EXCEPT ![h] = b]
    BY <1>4, <2>1
  <2>3. BatchesHold'
    <3>1. b.ops \subseteq doing[h].ops /\ \A r \in StoreRows : b.read[r] = doing[h].read[r]
      BY <2>1
    <3>2. StoreTypeOK /\ BatchesHold /\ b \in Batches
          /\ (b.stage \in {"read", "write"} => doing[h].stage \in {"read", "write"} \/ b.ops = {})
          /\ UNCHANGED <<opOf, again, reserved, freshAt, clock, tableRows, made>>
      BY <1>1, <1>4, <2>1
    <3> QED BY <2>2, <3>1, <3>2, BatchReads
  <2>4. StoreTypeOK'
    BY <2>1, <2>2, OneBatch, <1>1, <1>4 DEF StoreTypeOK, lockVars
  <2>5. SweepsHold' /\ LogTellsOfRows'
    BY <1>1, <1>4, SweepsStill, LogStill DEF lockVars
  <2> QED BY <2>3, <2>4, <2>5
<1>5. CASE /\ doing' = [doing EXCEPT ![h] = [@ EXCEPT !.lost = doing[h].lost + 1, !.stage = "read"]]
           /\ UNCHANGED <<tableRows, opLog, made>> /\ doing[h].lost + 1 # WriteAttempts
  <2> PICK b : b = [doing[h] EXCEPT !.lost = doing[h].lost + 1, !.stage = "read"]
    OBVIOUS
  <2>2. doing' = [doing EXCEPT ![h] = b]
    BY <1>5
  <2>1. b \in Batches /\ b.ops = doing[h].ops /\ b.stage = "read" /\ b.read = doing[h].read
    <3>1. doing[h].lost + 1 \in 0..WriteAttempts - 1
      BY <1>5, BatchIs, StoreConstants
    <3> QED BY <3>1, BatchIs DEF Batches
  <2>3. BatchesHold'
    BY <1>1, <1>5, <2>1, <2>2, BatchReads
  <2>4. StoreTypeOK'
    <3>1. doing' \in [Hosts -> Batches] /\ \A g \in Hosts : doing'[g].stage = "idle" <=> doing'[g].ops = {}
      BY <2>1, <2>2, OneBatch
    <3> QED BY <1>1, <1>5, <3>1 DEF StoreTypeOK, lockVars
  <2>5. SweepsHold' /\ LogTellsOfRows'
    BY <1>1, <1>5, SweepsStill, LogStill DEF lockVars
  <2> QED BY <2>3, <2>4, <2>5
<1>6. CASE ApplyOp(o, was) /\ doing' = OpDone(h, o, Became(o, was)) /\ (r0 \in Merged => Won(o, was))
  <2> PICK v : v = Became(o, was)
    OBVIOUS
  <2>0. PICK entry : entry = [row |-> r0, hlc |-> o]
    OBVIOUS
  <2>1. /\ tableRows' = [tableRows EXCEPT ![r0] = v] /\ opLog' = opLog \cup {entry}
        /\ made' = [made EXCEPT ![r0] = Became(o, made[r0])]
    BY <1>6, <2>0 DEF ApplyOp
  <2>2. v \in RowState /\ (v = NoRow \/ v.hlc = o)
    BY <1>2, BecameIs
  <2>21. PICK b : b = DoneBatch(h, o, v)
    OBVIOUS
  <2>3. /\ b \in Batches /\ OpDone(h, o, v) = [doing EXCEPT ![h] = b]
        /\ b.ops = doing[h].ops \ {o} /\ (b.stage = "idle" <=> b.ops = {}) /\ b.stage \in {"idle", "write"}
        /\ \A r \in StoreRows : r # r0 => b.read[r] = doing[h].read[r]
        /\ b.read[r0] = v
    <3>1. StoreTypeOK /\ opOf[o] # Unsent /\ v \in RowState /\ doing[h].stage = "write"
      BY <1>1, <2>2, <1>2
    <3>2. /\ b \in Batches /\ OpDone(h, o, v) = [doing EXCEPT ![h] = b]
          /\ b.ops = doing[h].ops \ {o} /\ (b.stage = "idle" <=> b.ops = {}) /\ b.stage \in {"idle", "write"}
          /\ \A r \in StoreRows : r # RowOf(o) => b.read[r] = doing[h].read[r]
          /\ b.read[RowOf(o)] = v
      BY <3>1, <2>21, OpDoneIs
    <3>3. RowOf(o) = r0
      OBVIOUS
    <3> QED BY <3>2, <3>3
  <2>4. doing' = [doing EXCEPT ![h] = b]
    BY <1>6, <2>3
  <2>5. /\ doing' \in [Hosts -> Batches] /\ doing'[h] = b
        /\ \A g \in Hosts : g # h => doing'[g] = doing[g]
        /\ \A g \in Hosts : doing'[g].stage = "idle" <=> doing'[g].ops = {}
    BY <2>3, <2>4, OneBatch
  <2>6. \A r \in StoreRows : r # r0 => tableRows'[r] = tableRows[r] /\ made'[r] = made[r]
    BY <1>2, <2>1
  <2>7. tableRows'[r0] = v /\ made'[r0] = Became(o, made[r0])
    BY <1>2, <2>1
  <2>8. StoreTypeOK'
    <3>1. tableRows' \in [StoreRows -> RowState]
      BY <1>2, <2>1, <2>2
    <3>2. made' \in [StoreRows -> RowState]
      BY <1>2, BecameIs, <2>1
    <3>3. opLog' \subseteq [row : StoreRows, hlc : StoreOps]
      BY <1>2, <2>0, <2>1 DEF StoreTypeOK
    <3> QED BY <1>1, <2>5, <3>1, <3>2, <3>3 DEF StoreTypeOK, lockVars
  <2>9. OpsAreMade'
    BY <1>1, <2>3, <2>5 DEF BatchesHold, OpsAreMade
  <2>10. IdsAreKept'
    BY <1>1 DEF BatchesHold, IdsAreKept
  <2>11. Claims(h, o)
    BY <1>1 DEF Claims
  <2>12. /\ freshAt[o] # 0
         /\ o \notin again =>
              /\ \A q \in Hosts : Claims(q, o) => q = h
              /\ \A r \in StoreRows : tableRows[r].hlc # o
              /\ \A q \in Hosts : \A r \in StoreRows : doing[q].read[r].hlc # o
    BY <1>2, <2>11 DEF BatchesHold, ClaimedByOne
  <2>13. \A g \in Hosts : \A r \in StoreRows : doing'[g].read[r] = IF g = h /\ r = r0 THEN v ELSE doing[g].read[r]
    BY <2>3, <2>5
  <2>14. CopiesAreWritten'
    <3>1. Written(v, r0, opOf, freshAt)
      BY <1>2, <2>2, <2>12, StoreConstants DEF Written, RowOf
    <3>2. ASSUME NEW r \in StoreRows, NEW g \in Hosts PROVE Written(doing'[g].read[r], r, opOf, freshAt)
      BY <2>13, <3>1 DEF BatchesHold, CopiesAreWritten
    <3>3. ASSUME NEW r \in StoreRows PROVE Written(tableRows'[r], r, opOf, freshAt)
      BY <2>6, <2>7, <3>1 DEF BatchesHold, CopiesAreWritten
    <3> QED BY <1>1, <3>2, <3>3 DEF CopiesAreWritten
  <2>15. ASSUME NEW r \in StoreRows, Sure(r), NEW g \in Hosts, doing'[g].read[r].hlc = tableRows'[r].hlc
         PROVE  doing'[g].read[r] = tableRows'[r]
    <3>1. CASE r # r0
      BY <2>6, <2>13, <2>15, <3>1 DEF BatchesHold, CopiesAgree
    <3>2. CASE r = r0 /\ g = h
      BY <2>7, <2>13, <3>2
    <3>3. CASE r = r0 /\ g # h
      BY <2>15, <3>3, <2>7, <2>12, <2>13, <2>2, StoreConstants
         DEF Sure, BatchesHold, CopiesAreWritten, Written
    <3> QED BY <3>1, <3>2, <3>3
  <2>16. CopiesAgree'
    BY <1>1, <2>15 DEF CopiesAgree, Sure, RowOf
  <2>17. ClaimedByOne'
    <3>1. ASSUME NEW g \in Hosts, NEW q \in StoreOps, Claims(g, q)' PROVE Claims(g, q) /\ (g = h => q # o)
      BY <1>1, <2>3, <2>5, <3>1 DEF Claims
    <3>2. ASSUME NEW g \in Hosts, NEW q \in StoreOps, Claims(g, q)'
          PROVE  /\ freshAt[q] # 0
                 /\ q \notin again =>
                      /\ \A k \in Hosts : Claims(k, q)' => k = g
                      /\ \A r \in StoreRows : tableRows'[r].hlc # q
                      /\ \A k \in Hosts : \A r \in StoreRows : doing'[k].read[r].hlc # q
      <4>1. /\ freshAt[q] # 0
            /\ q \notin again =>
                      /\ \A k \in Hosts : Claims(k, q) => k = g
                      /\ \A r \in StoreRows : tableRows[r].hlc # q
                      /\ \A k \in Hosts : \A r \in StoreRows : doing[k].read[r].hlc # q
        BY <3>1, <3>2 DEF BatchesHold, ClaimedByOne
      <4>2. q \notin again => q # o
        BY <2>12, <3>1, <3>2
      <4>3. q \notin again => v.hlc # q
        BY <2>2, <4>2, StoreConstants
      <4>4. q \notin again => \A r \in StoreRows : tableRows'[r].hlc # q
        BY <2>6, <2>7, <4>1, <4>3
      <4>5. q \notin again => \A k \in Hosts : \A r \in StoreRows : doing'[k].read[r].hlc # q
        BY <2>13, <4>1, <4>3
      <4>6. q \notin again => \A k \in Hosts : Claims(k, q)' => k = g
        BY <3>1, <4>1
      <4> QED BY <4>1, <4>4, <4>5, <4>6
    <3> QED BY <1>1, <3>2 DEF ClaimedByOne
  <2>18. EditsSurvive'
    <3>1. ASSUME NEW r \in Merged, Sure(r) PROVE tableRows'[r] = made'[r]
      <4>1. r \in StoreRows /\ tableRows[r] = made[r]
        BY <3>1, StoreConstants DEF BatchesHold, EditsSurvive, Sure
      <4>2. CASE r # r0
        BY <2>6, <4>1, <4>2
      <4>3. CASE r = r0
        BY <1>6, <3>1, <4>3, <4>1, <2>7 DEF Won, BatchesHold, CopiesAgree
      <4> QED BY <4>2, <4>3
    <3> QED BY <1>1, <3>1 DEF EditsSurvive, Sure, RowOf
  <2>19. LogTellsOfRows'
    <3>1. ASSUME NEW r \in StoreRows, tableRows'[r].hlc # 0
          PROVE  [row |-> r, hlc |-> tableRows'[r].hlc] \in opLog' \/ tableRows'[r].hlc < cut.stored
      <4>1. CASE r # r0
        BY <2>1, <2>6, <3>1, <4>1 DEF LogTellsOfRows
      <4>2. CASE r = r0
        BY <2>2, <2>7, <3>1, <4>2, StoreConstants, <2>0, <2>1
      <4> QED BY <4>1, <4>2
    <3> QED BY <1>1, <3>1 DEF LogTellsOfRows, lockVars
  <2>20. SweepsHold'
    BY <1>1, SweepsStill DEF lockVars
  <2> QED BY <2>8, <2>9, <2>10, <2>14, <2>16, <2>17, <2>18, <2>19, <2>20 DEF BatchesHold
<1> QED BY <1>3, <1>4, <1>5, <1>6

\* What compaction is made of.
LEMMA SweepIs ==
  ASSUME StoreTypeOK
  PROVE  /\ dialect \in {"sqlite", "postgres"} /\ clock \in Nat /\ cut.stored \in Nat
         /\ sweeping \in [Hosts -> Sweeps] /\ \A h \in Hosts : sweeping[h].to \in Nat
         /\ lock.at \in Nat /\ lock.deep \in Nat
  BY StoreConstants DEF StoreTypeOK, Sweeps

\* HLCs are numbers.
LEMMA HlcsAre == ASSUME StoreTypeOK PROVE \A r \in StoreRows : tableRows[r].hlc \in Nat
<1>1. \A v \in RowState : v.hlc \in Nat
  <2> TAKE v \in RowState
  <2>1. v.hlc \in {0} \cup StoreOps
    BY DEF RowState
  <2>2. \A o \in StoreOps : o \in Nat
    BY StoreConstants
  <2> QED BY <2>1, <2>2
<1>2. \A r \in StoreRows : tableRows[r] \in RowState
  BY DEF StoreTypeOK
<1> QED BY <1>1, <1>2

\* A host's schema is there, or is broken.
LEMMA EnsureSchemaKeeps == ASSUME StoreIInv, NEW h \in Hosts, EnsureSchema(h) PROVE StoreIInv'
<1>1. UNCHANGED <<dialect, tableVars, lockVars, clock, workVars, made, freshAt, again, gone>>
  BY DEF EnsureSchema
<1>2. schema' \in [Hosts -> {"none", "ready", "broken"}]
  BY DEF EnsureSchema, StoreIInv, StoreTypeOK
<1>3. StoreTypeOK'
  BY <1>1, <1>2 DEF StoreIInv, StoreTypeOK, tableVars, lockVars, workVars
<1>4. BatchesHold'
  BY <1>1, BatchesStill DEF StoreIInv, tableVars, workVars
<1>5. SweepsHold' /\ LogTellsOfRows'
  BY <1>1, SweepsStill, LogStill DEF StoreIInv, tableVars, lockVars
<1> QED BY <1>3, <1>4, <1>5 DEF StoreIInv

\* The lock is taken, taken over, or taken once more; or not at all.
LEMMA TryLockKeeps ==
  ASSUME StoreIInv, NEW h \in Hosts, NEW c \in PoolConns, TryLock(h, c) PROVE StoreIInv'
<1> USE DEF StoreIInv
<1>1. UNCHANGED <<dialect, schema, tableVars, cut, overran, clock, workVars, made, freshAt, again, gone>>
  BY DEF TryLock
<1>2. BatchesHold'
  BY <1>1, BatchesStill DEF tableVars, workVars
<1>3. LogTellsOfRows'
  BY <1>1, LogStill DEF tableVars
<1>4. CASE UNCHANGED <<lock, orphan, sweeping>>
  BY <1>1, <1>4, SweepsStill, <1>2, <1>3 DEF StoreTypeOK, tableVars, workVars
<1>5. CASE MayLock(h, c)
  <2>1. /\ lock' = [at |-> clock, by |-> h, conn |-> c, deep |-> IF dialect = "sqlite" THEN 1 ELSE lock.deep + 1]
        /\ orphan' = FALSE
        /\ sweeping' = [sweeping EXCEPT ![h] = [stage |-> "aim", conn |-> c, to |-> 0]]
        /\ sweeping[h].stage = "no"
    BY <1>5 DEF TryLock
  <2>2. /\ lock'.at = clock /\ lock'.by = h /\ lock'.conn = c /\ lock'.deep \in Nat \ {0}
        /\ lock' = [at |-> clock, by |-> h, conn |-> c, deep |-> lock'.deep]
    BY <2>1, SweepIs
  <2>3. /\ sweeping' \in [Hosts -> Sweeps] /\ sweeping'[h] = [stage |-> "aim", conn |-> c, to |-> 0]
        /\ \A g \in Hosts : g # h => sweeping'[g] = sweeping[g]
    BY <2>1, SweepIs DEF Sweeps
  <2>4. StoreTypeOK'
    BY <1>1, <2>1, <2>2, <2>3, SweepIs DEF StoreTypeOK, tableVars, workVars
  <2>5. CutIsStored'
    BY <1>1, <2>3, SweepIs DEF SweepsHold, CutIsStored
  <2>6. ASSUME dialect = "postgres" \/ (dialect = "sqlite" /\ ~ overran), NEW g \in Hosts, g # h
        PROVE  sweeping[g].stage = "no"
    BY <2>6, <1>5, SweepIs DEF SweepsHold, SweeperHolds, MayLock
  <2>7. SweeperHolds'
    BY SweepIs, StoreConstants, <1>1, <2>2, <2>3, <2>6 DEF SweepsHold, CutIsStored, SweeperHolds
  <2>8. LockIsOf'
    BY <2>2, <2>3 DEF LockIsOf
  <2> QED BY <1>2, <1>3, <2>4, <2>5, <2>7, <2>8 DEF SweepsHold
<1> QED BY <1>4, <1>5 DEF TryLock

\* A cutoff is aimed at; sqlite has it stored at once.
LEMMA AimKeeps == ASSUME StoreIInv, NEW h \in Hosts, Aim(h) PROVE StoreIInv'
<1> USE DEF StoreIInv
<1>1. /\ UNCHANGED <<dialect, schema, tableVars, lock, orphan, overran, clock, workVars, storeLeft, made, freshAt, again, gone>>
      /\ sweeping[h].stage = "aim"
  BY DEF Aim
<1>2. BatchesHold'
  BY <1>1, BatchesStill DEF tableVars, workVars
<1>0. /\ cut \in [stored : Nat, known : [Hosts -> Nat]] /\ Known(h) \in Nat /\ clock \in Nat
  BY DEF Known, StoreTypeOK
<1>3. /\ cut' \in [stored : Nat, known : [Hosts -> Nat]]
      /\ cut'.stored = cut.stored \/ cut'.stored = clock
      /\ dialect # "sqlite" => cut'.stored = cut.stored
  <2>1. CASE clock <= Known(h)
    BY <2>1, <1>0 DEF Aim
  <2>2. CASE ~ clock <= Known(h)
    <3>1. cut' = [cut EXCEPT !.known[h] = clock, !.stored = IF dialect = "sqlite" THEN clock ELSE @]
      BY <2>2 DEF Aim
    <3>2. CASE dialect = "sqlite"
      BY <1>0, <3>1, <3>2
    <3>3. CASE dialect # "sqlite"
      BY <1>0, <3>1, <3>3
    <3> QED BY <3>2, <3>3
  <2> QED BY <2>1, <2>2
<1>4. \/ sweeping' = [sweeping EXCEPT ![h].stage = "unlock"]
      \/ /\ sweeping' = [sweeping EXCEPT ![h].to = clock, ![h].stage = IF dialect = "sqlite" THEN "delete" ELSE "store"]
         /\ dialect = "sqlite" => cut'.stored = clock
  BY <1>0 DEF Aim
<1>5. /\ sweeping' \in [Hosts -> Sweeps] /\ \A g \in Hosts : g # h => sweeping'[g] = sweeping[g]
      /\ \/ sweeping'[h].stage = "unlock" /\ sweeping'[h].to = sweeping[h].to
         \/ /\ sweeping'[h].to = clock
            /\ \/ dialect = "sqlite" /\ sweeping'[h].stage = "delete" /\ cut'.stored = clock
               \/ dialect # "sqlite" /\ sweeping'[h].stage = "store"
  BY <1>0, <1>4, SweepIs DEF Sweeps
<1>6. StoreTypeOK'
  BY <1>1, <1>3, <1>5 DEF StoreTypeOK, tableVars, workVars
<1>7. CutIsStored'
  <2>1. cut.stored <= clock /\ cut.stored <= cut'.stored /\ cut'.stored <= clock
    BY <1>0, <1>3, SweepIs DEF SweepsHold, CutIsStored
  <2>2. ASSUME NEW g \in Hosts
        PROVE  /\ sweeping'[g].to <= clock
               /\ sweeping'[g].stage = "store" => dialect = "postgres" /\ cut'.stored <= sweeping'[g].to
               /\ sweeping'[g].stage = "delete" => sweeping'[g].to <= cut'.stored
    <3>1. /\ sweeping[g].to <= clock /\ sweeping[g].to \in Nat
          /\ sweeping[g].stage = "store" => dialect = "postgres" /\ cut.stored <= sweeping[g].to
          /\ sweeping[g].stage = "delete" => sweeping[g].to <= cut.stored
      BY SweepIs DEF SweepsHold, CutIsStored
    <3>2. CASE g # h
      BY <1>3, <1>5, <2>1, <3>1, <3>2, SweepIs
    <3>3. CASE g = h
      BY <1>3, <1>5, <2>1, <3>1, <3>3, SweepIs
    <3> QED BY <3>2, <3>3
  <2> QED BY <1>1, <2>1, <2>2 DEF SweepsHold, CutIsStored
<1>8. SweeperHolds' /\ LockIsOf'
  BY <1>1, <1>5 DEF SweepsHold, SweeperHolds, LockIsOf
<1>9. LogTellsOfRows'
  <2>1. cut.stored <= cut'.stored
    BY <1>0, <1>3, SweepIs DEF SweepsHold, CutIsStored
  <2>2. \A n \in Nat : n < cut.stored => n < cut'.stored
    BY <1>3, <2>1, SweepIs
  <2>3. \A r \in StoreRows : tableRows[r].hlc \in Nat
    BY HlcsAre
  <2>4. \A e \in gone : e.hlc \in Nat
    BY StoreConstants DEF StoreTypeOK
  <2> QED BY <1>1, <2>2, <2>3, <2>4 DEF LogTellsOfRows, tableVars
<1> QED BY <1>2, <1>6, <1>7, <1>8, <1>9 DEF SweepsHold

\* Postgres has the cutoff stored a round trip later: nobody else compacts meanwhile.
LEMMA StoreCutoffKeeps == ASSUME StoreIInv, NEW h \in Hosts, StoreCutoff(h) PROVE StoreIInv'
<1> USE DEF StoreIInv
<1>1. /\ UNCHANGED <<dialect, schema, tableVars, lock, orphan, overran, clock, workVars, storeLeft, made, freshAt, again, gone>>
      /\ sweeping[h].stage = "store"
      /\ cut' = [cut EXCEPT !.stored = sweeping[h].to]
      /\ sweeping' = [sweeping EXCEPT ![h].stage = "delete"]
  BY DEF StoreCutoff
<1>2. BatchesHold'
  BY <1>1, BatchesStill DEF tableVars, workVars
<1>3. /\ cut' \in [stored : Nat, known : [Hosts -> Nat]] /\ cut'.stored = sweeping[h].to
      /\ cut.stored \in Nat /\ sweeping[h].to \in Nat
  BY <1>1, SweepIs DEF StoreTypeOK
<1>4. dialect = "postgres" /\ cut.stored <= cut'.stored /\ cut'.stored <= clock
  BY <1>1, <1>3 DEF SweepsHold, CutIsStored
<1>5. /\ sweeping' \in [Hosts -> Sweeps] /\ \A g \in Hosts : g # h => sweeping'[g] = sweeping[g]
      /\ sweeping'[h].stage = "delete" /\ sweeping'[h].to = sweeping[h].to
  BY <1>1, SweepIs DEF Sweeps
<1>6. StoreTypeOK'
  BY <1>1, <1>3, <1>5 DEF StoreTypeOK, tableVars, workVars
<1>7. \A g \in Hosts : g # h => sweeping[g].stage = "no"
  BY <1>1, <1>4 DEF SweepsHold, SweeperHolds
<1>8. CutIsStored'
  BY <1>1, <1>3, <1>4, <1>5, <1>7, SweepIs DEF SweepsHold, CutIsStored
<1>9. SweeperHolds' /\ LockIsOf'
  BY <1>1, <1>5 DEF SweepsHold, SweeperHolds, LockIsOf
<1>10. LogTellsOfRows'
  BY <1>3, <1>4, HlcsAre, StoreConstants, <1>1 DEF StoreTypeOK, LogTellsOfRows, tableVars
<1> QED BY <1>2, <1>6, <1>8, <1>9, <1>10 DEF SweepsHold

\* Entries below the cutoff are deleted.
LEMMA DeleteOpsBeforeKeeps == ASSUME StoreIInv, NEW h \in Hosts, DeleteOpsBefore(h) PROVE StoreIInv'
<1> USE DEF StoreIInv
<1>1. /\ UNCHANGED <<dialect, schema, tableRows, reserved, lock, cut, orphan, overran, clock, workVars, storeLeft, made, freshAt, again>>
      /\ sweeping[h].stage = "delete"
      /\ opLog' = opLog \ OpsBefore(sweeping[h].to) /\ gone' = gone \cup OpsBefore(sweeping[h].to)
      /\ sweeping' = [sweeping EXCEPT ![h].stage = "unlock"]
  BY DEF DeleteOpsBefore
<1>2. BatchesHold'
  BY <1>1, BatchesStill DEF workVars
<1>5. /\ sweeping' \in [Hosts -> Sweeps] /\ \A g \in Hosts : g # h => sweeping'[g] = sweeping[g]
      /\ sweeping'[h].stage = "unlock" /\ sweeping'[h].to = sweeping[h].to
  BY <1>1, SweepIs DEF Sweeps
<1>6. StoreTypeOK'
  BY <1>1, <1>5 DEF StoreTypeOK, OpsBefore, workVars
<1>7. CutIsStored'
  BY <1>1, <1>5 DEF SweepsHold, CutIsStored
<1>8. SweeperHolds' /\ LockIsOf'
  BY <1>1, <1>5 DEF SweepsHold, SweeperHolds, LockIsOf
<1>9. LogTellsOfRows'
  <2>1. \A e \in opLog : e \in opLog' \/ e.hlc < sweeping[h].to
    BY <1>1 DEF OpsBefore
  <2>2. \A n \in Nat : n < sweeping[h].to => n < cut.stored
    BY <1>1, SweepIs DEF SweepsHold, CutIsStored
  <2>3. \A r \in StoreRows : tableRows[r].hlc \in Nat
    BY HlcsAre
  <2>4. \A e \in opLog : e.hlc \in Nat
    BY StoreConstants DEF StoreTypeOK
  <2>5. ASSUME NEW r \in StoreRows, tableRows[r].hlc # 0
        PROVE  [row |-> r, hlc |-> tableRows[r].hlc] \in opLog' \/ tableRows[r].hlc < cut.stored
    BY <2>1, <2>2, <2>3, <2>5 DEF LogTellsOfRows
  <2>6. \A e \in gone' : e.hlc < cut.stored
    BY <1>1, <2>2, <2>4 DEF LogTellsOfRows, OpsBefore
  <2> QED BY <1>1, <2>5, <2>6 DEF LogTellsOfRows
<1> QED BY <1>2, <1>6, <1>7, <1>8, <1>9 DEF SweepsHold

\* The lock is given back, or once of several times.
LEMMA UnlockKeeps ==
  ASSUME StoreIInv, NEW h \in Hosts, NEW c \in PoolConns, Unlock(h, c) PROVE StoreIInv'
<1> USE DEF StoreIInv
<1>1. /\ UNCHANGED <<dialect, schema, tableVars, cut, overran, clock, workVars, storeLeft, made, freshAt, again, gone>>
      /\ sweeping[h].stage = "unlock"
      /\ lock' = Unlocked(h, c) /\ orphan' = (lock'.at # 0)
      /\ sweeping' = [sweeping EXCEPT ![h] = NotSweeping]
  BY DEF Unlock
<1>2. BatchesHold'
  BY <1>1, BatchesStill DEF tableVars, workVars
<1>3. LogTellsOfRows'
  BY <1>1, LogStill DEF tableVars
<1>4. /\ sweeping' \in [Hosts -> Sweeps] /\ \A g \in Hosts : g # h => sweeping'[g] = sweeping[g]
      /\ sweeping'[h].stage = "no" /\ sweeping'[h].to = 0
  BY <1>1, SweepIs DEF Sweeps, NotSweeping
<1>5. dialect = "postgres" => lock.by = h /\ lock.at # 0 /\ lock.deep # 0
  BY <1>1 DEF SweepsHold, SweeperHolds, LockIsOf
<1>6. \/ lock' = FreeLock
      \/ lock' = lock
      \/ lock' = [lock EXCEPT !.deep = lock.deep - 1] /\ lock.deep - 1 \in Nat \ {0}
  BY <1>1, <1>5, SweepIs DEF Unlocked
<1>7. /\ lock' \in [at : Nat, by : Hosts \cup {"nobody"}, conn : PoolConns \cup {0}, deep : Nat]
      /\ lock'.at # 0 => lock'.by = lock.by /\ lock'.at = lock.at /\ (lock.deep # 0 => lock'.deep # 0)
  BY <1>6 DEF StoreTypeOK, FreeLock
<1>8. StoreTypeOK'
  BY <1>1, <1>4, <1>7 DEF StoreTypeOK, tableVars, workVars
<1>9. CutIsStored'
  BY <1>1, <1>4, SweepIs DEF SweepsHold, CutIsStored
<1>10. SweeperHolds'
  BY <1>1, <1>4 DEF SweepsHold, SweeperHolds
<1>11. LockIsOf'
  BY <1>1, <1>7 DEF SweepsHold, LockIsOf
<1> QED BY <1>2, <1>3, <1>8, <1>9, <1>10, <1>11 DEF SweepsHold

\* Time passes.
LEMMA StoreTickKeeps == ASSUME StoreIInv, Tick PROVE StoreIInv'
<1> USE DEF StoreIInv
<1>1. /\ UNCHANGED <<dialect, schema, tableVars, lock, cut, sweeping, orphan, workVars, made, freshAt, again, gone>>
      /\ clock' = clock + 1 /\ clock \in Nat
      /\ overran' = (overran \/ /\ dialect = "sqlite" /\ lock.at # 0 /\ lock.at + LockTtl < clock + 1
                                /\ \E h \in Hosts : sweeping[h].stage # "no")
  BY DEF Tick, StoreTypeOK
<1>2. StoreTypeOK'
  BY <1>1 DEF StoreTypeOK, tableVars, workVars
<1>3. OpsAreMade' /\ CopiesAreWritten'
  BY <1>1 DEF BatchesHold, OpsAreMade, CopiesAreWritten, tableVars, workVars
<1>4. CopiesAgree' /\ EditsSurvive'
  BY <1>1 DEF BatchesHold, CopiesAgree, EditsSurvive, Sure, RowOf, tableVars, workVars
<1>5. ClaimedByOne'
  BY <1>1 DEF BatchesHold, ClaimedByOne, Claims, tableVars, workVars
<1>6. IdsAreKept'
  BY <1>1, StoreConstants DEF StoreTypeOK, BatchesHold, IdsAreKept, tableVars
<1>7. CutIsStored'
  BY <1>1, SweepIs DEF SweepsHold, CutIsStored
<1>8. SweeperHolds'
  <2>1. ~ overran' => ~ overran
    BY <1>1
  <2>2. dialect = "postgres" \/ (dialect = "sqlite" /\ ~ overran') =>
          \A h \in Hosts : sweeping[h].stage # "no" => lock.by = h /\ lock.at # 0
    BY <2>1 DEF SweepsHold, SweeperHolds
  <2>3. ASSUME dialect = "sqlite", ~ overran', NEW h \in Hosts, sweeping[h].stage # "no"
        PROVE  ~ lock.at + LockTtl < clock + 1
    BY <1>1, <2>2, <2>3
  <2> QED BY <1>1, <2>2, <2>3 DEF SweeperHolds
<1>9. LockIsOf' /\ LogTellsOfRows'
  BY <1>1 DEF SweepsHold, LockIsOf, LogTellsOfRows, tableVars
<1> QED BY <1>2, <1>3, <1>4, <1>5, <1>6, <1>7, <1>8, <1>9 DEF BatchesHold, SweepsHold

\* An instance dies, and its batch, its compaction and its session with it.
LEMMA StoreCrashKeeps == ASSUME StoreIInv, NEW h \in Hosts, StoreCrash(h) PROVE StoreIInv'
<1> USE DEF StoreIInv
<1>1. /\ UNCHANGED <<dialect, tableVars, overran, clock, opOf, made, freshAt, again, gone>>
      /\ doing' = [doing EXCEPT ![h] = Nothing] /\ sweeping' = [sweeping EXCEPT ![h] = NotSweeping]
      /\ schema' = [schema EXCEPT ![h] = IF dialect = "sqlite" THEN "ready" ELSE "none"]
      /\ cut' = [cut EXCEPT !.known[h] = 0]
      /\ lock' = IF dialect = "postgres" /\ lock.by = h THEN FreeLock ELSE lock
      /\ orphan' = (lock'.at # 0 /\ (orphan \/ (sweeping[h].stage # "no" /\ lock.by = h)))
  BY DEF StoreCrash
<1>2. Nothing \in Batches /\ Nothing.ops = {} /\ Nothing.stage = "idle" /\ \A r \in StoreRows : Nothing.read[r] = NoRow
  BY StoreConstants DEF Nothing, Batches
<1>3. BatchesHold'
  BY <1>1, <1>2, BatchReads DEF tableVars
<1>4. /\ cut' \in [stored : Nat, known : [Hosts -> Nat]] /\ cut'.stored = cut.stored
  BY <1>1 DEF StoreTypeOK
<1>5. /\ sweeping' \in [Hosts -> Sweeps] /\ \A g \in Hosts : g # h => sweeping'[g] = sweeping[g]
      /\ sweeping'[h].stage = "no" /\ sweeping'[h].to = 0
  BY <1>1, SweepIs DEF Sweeps, NotSweeping
<1>6. /\ lock' \in [at : Nat, by : Hosts \cup {"nobody"}, conn : PoolConns \cup {0}, deep : Nat]
      /\ lock'.at # 0 => lock' = lock
  BY <1>1 DEF StoreTypeOK, FreeLock
<1>7. schema' \in [Hosts -> {"none", "ready", "broken"}]
  BY <1>1 DEF StoreTypeOK
<1>8. StoreTypeOK'
  BY <1>1, <1>2, OneBatch, <1>4, <1>5, <1>6, <1>7 DEF StoreTypeOK, tableVars
<1>9. CutIsStored'
  BY <1>1, <1>4, <1>5, SweepIs DEF SweepsHold, CutIsStored
<1>10. SweeperHolds'
  <2>1. ASSUME NEW g \in Hosts, g # h, lock.by = g PROVE lock' = lock
    BY <1>1, <2>1
  <2> QED BY <1>1, <1>5, <2>1 DEF SweepsHold, SweeperHolds
<1>11. LockIsOf'
  <2>1. ASSUME lock'.at # 0 PROVE lock' = lock /\ lock.by \in Hosts /\ lock.deep # 0 /\ (orphan' \/ sweeping'[lock.by].stage # "no")
    <3>1. lock' = lock /\ lock.by \in Hosts /\ lock.deep # 0 /\ (orphan \/ sweeping[lock.by].stage # "no")
      BY <1>6, <2>1 DEF SweepsHold, LockIsOf
    <3>2. CASE orphan
      BY <1>1, <2>1, <3>1, <3>2
    <3>3. CASE lock.by = h /\ sweeping[h].stage # "no"
      BY <1>1, <2>1, <3>1, <3>3
    <3>4. CASE lock.by # h /\ sweeping[lock.by].stage # "no"
      BY <1>5, <3>1, <3>4
    <3> QED BY <3>1, <3>2, <3>3, <3>4
  <2> QED BY <2>1 DEF LockIsOf
<1>12. LogTellsOfRows'
  BY <1>1, <1>4 DEF LogTellsOfRows, tableVars
<1> QED BY <1>3, <1>8, <1>9, <1>10, <1>11, <1>12 DEF SweepsHold

\* The states an instance starts from.
LEMMA StoreStarts == StoreInit => StoreIInv
<1> SUFFICES ASSUME StoreInit PROVE StoreIInv
  OBVIOUS
<1>1. Nothing \in Batches /\ Nothing.ops = {} /\ Nothing.stage = "idle" /\ \A r \in StoreRows : Nothing.read[r] = NoRow
  BY StoreConstants DEF Nothing, Batches
<1>2. NotSweeping \in Sweeps /\ NotSweeping.stage = "no" /\ NotSweeping.to = 0
  BY DEF NotSweeping, Sweeps
<1>3. FreeLock \in [at : Nat, by : Hosts \cup {"nobody"}, conn : PoolConns \cup {0}, deep : Nat] /\ FreeLock.at = 0
  BY DEF FreeLock
<1>4. StoreTypeOK
  BY <1>1, <1>2, <1>3, StoreConstants DEF StoreInit, StoreTypeOK
<1>5. OpsAreMade /\ IdsAreKept
  BY <1>1 DEF StoreInit, OpsAreMade, IdsAreKept
<1>6. \A r \in StoreRows : tableRows[r] = NoRow /\ made[r] = NoRow /\ \A h \in Hosts : doing[h].read[r] = NoRow
  BY <1>1 DEF StoreInit
<1>7. CopiesAreWritten /\ CopiesAgree
  BY <1>6, StoreConstants DEF CopiesAreWritten, CopiesAgree, Written
<1>8. ClaimedByOne
  BY <1>1 DEF StoreInit, ClaimedByOne, Claims
<1>9. EditsSurvive
  BY <1>6, StoreConstants DEF EditsSurvive
<1>10. SweepsHold
  BY <1>2, <1>3 DEF StoreInit, SweepsHold, CutIsStored, SweeperHolds, LockIsOf
<1>11. LogTellsOfRows
  BY <1>6, StoreConstants DEF StoreInit, LogTellsOfRows
<1> QED BY <1>4, <1>5, <1>7, <1>8, <1>9, <1>10, <1>11 DEF StoreIInv, BatchesHold

\* No step breaks it.
LEMMA StoreStep == StoreIInv /\ [StoreNext]_storeVars => StoreIInv'
<1> SUFFICES ASSUME StoreIInv, [StoreNext]_storeVars PROVE StoreIInv'
  OBVIOUS
<1>1. CASE UNCHANGED storeVars
  BY <1>1, BatchesStill, SweepsStill, LogStill
     DEF StoreIInv, StoreTypeOK, storeVars, tableVars, lockVars, workVars
<1>2. CASE Tick
  BY <1>2, StoreTickKeeps
<1>3. ASSUME NEW h \in Hosts, EnsureSchema(h) \/ ReserveOps(h) \/ ReadRows(h) \/ ReadRowAgain(h) PROVE StoreIInv'
  BY <1>3, EnsureSchemaKeeps, ReserveKeeps, ReadRowsKeeps, ReadRowAgainKeeps
<1>4. ASSUME NEW h \in Hosts, NEW o \in doing[h].ops, WriteRow(h, o) PROVE StoreIInv'
  BY <1>4, WriteRowKeeps
<1>5. ASSUME NEW h \in Hosts, NEW ops \in (SUBSET StoreOps) \ {{}}, Send(h, ops) PROVE StoreIInv'
  BY <1>5, SendKeeps
<1>6. ASSUME NEW h \in Hosts, NEW c \in PoolConns, TryLock(h, c) \/ Unlock(h, c) PROVE StoreIInv'
  BY <1>6, TryLockKeeps, UnlockKeeps
<1>7. ASSUME NEW h \in Hosts, Aim(h) \/ StoreCutoff(h) \/ DeleteOpsBefore(h) \/ StoreCrash(h) PROVE StoreIInv'
  BY <1>7, AimKeeps, StoreCutoffKeeps, DeleteOpsBeforeKeeps, StoreCrashKeeps
<1> QED BY <1>1, <1>2, <1>3, <1>4, <1>5, <1>6, <1>7 DEF StoreNext

\* One instance compacts at a time, for it holds the lock.
LEMMA OneHolds == StoreIInv => OneCompactor
<1> SUFFICES ASSUME StoreIInv, ~ overran PROVE Cardinality({h \in Hosts : sweeping[h].stage # "no"}) <= 1
  BY DEF OneCompactor
<1> PICK S : S = {h \in Hosts : sweeping[h].stage # "no"}
  OBVIOUS
<1>1. \A h \in S : h = lock.by
  BY SweepIs DEF StoreIInv, SweepsHold, SweeperHolds
<1>2. S = {} \/ S = {lock.by}
  BY <1>1
<1>3. Cardinality(S) = 0 \/ Cardinality(S) = 1
  BY <1>2, FS_EmptySet, FS_Singleton
<1> QED BY <1>3

\* An op that is answered fresh once more was swept, so its last answer is old.
LEMMA FreshIsOld ==
  StoreIInv /\ [StoreNext]_storeVars =>
    [\A o \in StoreOps : freshAt[o] # 0 /\ freshAt'[o] # freshAt[o] => clock > freshAt[o] + Retention]_storeVars
<1> SUFFICES ASSUME StoreIInv, StoreNext, NEW o \in StoreOps, freshAt[o] # 0, freshAt'[o] # freshAt[o]
             PROVE  clock > freshAt[o] + Retention
  OBVIOUS
<1>1. PICK h \in Hosts : ReserveOps(h)
  BY DEF StoreNext, EnsureSchema, Send, ReadRows, ReadRowAgain, WriteRow, TryLock, Aim, StoreCutoff,
         DeleteOpsBefore, Unlock, Tick, StoreCrash
<1>2. o \in FreshOf(doing[h].ops)
  BY <1>1 DEF ReserveOps
<1>3. reserved[o] = 0
  BY <1>2 DEF FreshOf
<1> QED BY <1>3 DEF StoreIInv, BatchesHold, IdsAreKept

\* The SQL stores, for every number of instances, ops, rows and connections: a merged
\* row is what its accepted writes amount to unless one of its ops was made twice, the
\* log or the cutoff tells of every row and of every entry that is gone, one instance
\* compacts at a time, the lock comes back, and an id is answered fresh once in a
\* retention (sqlite.ts, postgres.ts, op-processor.ts, compaction.ts).
THEOREM StoreAlwaysHolds == StoreSpec => StoreHolds
<1>1. StoreInit => StoreIInv
  BY StoreStarts
<1>2. StoreIInv /\ [StoreNext]_storeVars => StoreIInv'
  BY StoreStep
<1>3. StoreIInv => StoreTypeOK /\ EditsSurvive /\ LogTellsOfRows /\ OneCompactor /\ LockComesBack
  BY OneHolds DEF StoreIInv, BatchesHold, SweepsHold, LockIsOf, LockComesBack
<1>4. StoreIInv /\ [StoreNext]_storeVars =>
        [\A o \in StoreOps : freshAt[o] # 0 /\ freshAt'[o] # freshAt[o] => clock > freshAt[o] + Retention]_storeVars
  BY FreshIsOld
<1> QED BY <1>1, <1>2, <1>3, <1>4, PTL DEF StoreSpec, StoreHolds, FreshOncePerRetention
=============================================================================
