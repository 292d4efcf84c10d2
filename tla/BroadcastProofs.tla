---------------------------- MODULE BroadcastProofs ----------------------------
(***************************************************************************)
(* Theorems about Broadcast: what the server believes of the clients that  *)
(* only read is what they hold or are about to, and once everything is     *)
(* delivered they show the database.                                       *)
(*                                                                         *)
(* They are about broadcasts whose query results come back in the order    *)
(* of their stamps (InOrder), whose failed sends send nothing (~Partial),  *)
(* and clients that have bootstrapped (Bootstraps = 0): without each of    *)
(* these TLC finds a reader that ends up showing something else than the   *)
(* database.  Clients, rows, values, writes and lost sends are any, and so *)
(* is the order in which messages are handled.                             *)
(***************************************************************************)
EXTENDS Broadcast, FiniteSetTheorems, TLAPS

-----------------------------------------------------------------------------
(* The inductive invariant.                                                *)

\* A client's message as the server handles it, when nobody bootstraps.
Calls == {Idle} \cup [stage : {"mutated"}, op : Ops]
           \cup [stage : {"query"}, op : Ops, stamp : Nat]
           \cup [stage : {"result", "fanout"}, op : Ops, stamp : Nat, rows : Table]

\* A delete tells no value, the others do.
Deltas == {m \in [type : {"delta"}, op : Kinds, row : Rows, v : Content, hlc : Nat] :
             m.op = "delete" <=> m.v = NoRow}

\* What the server keeps, and what it is sent.
ServerTypes ==
  /\ db \in Table /\ clock \in Nat /\ bootstraps = 0
  /\ srv \in [Clients -> Calls]
  /\ cache \in [Clients -> Table]
  /\ lock \in [Clients -> Seq(Clients)]
  /\ sending \in [Clients -> BOOLEAN] /\ missed \in [Clients -> BOOLEAN]
  /\ up \in [Clients -> Seq(Ops)]
  /\ DOMAIN local = Clients /\ DOMAIN net = Clients

\* A column of a row is never newer than the row.
Rowed == {held \in Held : held.clock <= held.hlc}

\* A reader sends nothing and receives deltas only.
ReaderTypes ==
  \A c \in Readers :
    /\ srv[c] = Idle /\ up[c] = << >>
    /\ local[c] \in [Rows -> Rowed]
    /\ net[c] \in Seq(Deltas)

Stamped(d) == srv[d].stage \in {"query", "result", "fanout"}
Unread(d)  == srv[d].stage \in {"query", "result"}       \* not told to anybody yet

\* Stamps are handed out once, and broadcasts pass the stages in their order.
StampOrder ==
  /\ \A d \in Clients : Stamped(d) => srv[d].stamp <= 2 * clock
  /\ \A d, e \in Clients :
       d # e /\ Stamped(d) /\ Stamped(e) =>
         /\ srv[d].stamp # srv[e].stamp
         /\ Stage(e, "query") /\ ~Stage(d, "query") => srv[d].stamp < srv[e].stamp
         /\ Stage(e, "result") /\ Stage(d, "fanout") => srv[d].stamp < srv[e].stamp

\* Those that wait for a critical section are in its queue in that order too.
QueueOrder ==
  \A c \in Clients :
    /\ sending[c] => lock[c] # << >>
    /\ \A i \in DOMAIN lock[c] : Stage(lock[c][i], "fanout")
    /\ \A i, j \in DOMAIN lock[c] : i < j => srv[lock[c][i]].stamp < srv[lock[c][j]].stamp

\* What client c has been told of, or is about to be.
Heard(c) == {local[c][r].hlc : r \in Rows} \cup {net[c][j].hlc : j \in DOMAIN net[c]}

\* A broadcast that is still to be told to a reader is newer than all that.
NewsIsNew ==
  \A c \in Readers : \A h \in Heard(c) :
    /\ h <= 2 * clock
    /\ \A d \in Clients : Unread(d) => h < srv[d].stamp
    /\ \A i \in DOMAIN lock[c] : i > 1 \/ ~sending[c] => h < srv[lock[c][i]].stamp

\* Every write is read again after it.
AllRead == \A d \in Clients : ~Stage(d, "mutated") /\ ~Stage(d, "query")

\* Then the last of the broadcasts that are on their way to a reader, or what
\* the server believes of it when there is none, is the database.
LastIsDb ==
  AllRead =>
    /\ \A d \in Clients :
         Stage(d, "result") /\ (\A e \in Clients : Stage(e, "result") => srv[e].stamp <= srv[d].stamp)
           => srv[d].rows = db
    /\ \A c \in Readers :
         (\A d \in Clients : ~Stage(d, "result")) =>
           IF lock[c] = << >> THEN missed[c] \/ cache[c] = db
           ELSE srv[lock[c][Len(lock[c])]].rows = db

ReadersInv ==
  ServerTypes /\ ReaderTypes /\ StampOrder /\ QueueOrder /\ NewsIsNew
    /\ CacheIsWhatReadersHold /\ LastIsDb

-----------------------------------------------------------------------------
(* Types.                                                                  *)

\* What a call is, by its stage.
LEMMA CallForms ==
  ASSUME NEW t \in Calls
  PROVE  /\ t.stage \in {"idle", "mutated", "query", "result", "fanout"}
         /\ t.stage = "idle" => t = Idle
         /\ t.stage = "mutated" => t \in [stage : {"mutated"}, op : Ops]
         /\ t.stage = "query" => t \in [stage : {"query"}, op : Ops, stamp : Nat]
         /\ t.stage \in {"result", "fanout"} =>
              t \in [stage : {"result", "fanout"}, op : Ops, stamp : Nat, rows : Table]
BY DEF Calls, Idle

\* Nobody asks for a bootstrap, so the server handles none.
LEMMA NoBootstrap ==
  ASSUME ServerTypes, NEW c \in Clients
  PROVE  /\ ~AskBootstrap(c) /\ ~ReadSnapshot(c) /\ ~SendSnapshot(c) /\ ~CommitSnapshot(c)
<1>1. ~AskBootstrap(c)
  BY DEF AskBootstrap, ServerTypes
<1>2. ~ReadSnapshot(c)
  <2> SUFFICES ASSUME ReadSnapshot(c) PROVE FALSE
    OBVIOUS
  <2>1. up[c] \in Seq(Ops) /\ up[c] # << >> /\ Head(up[c]) = Bootstrap
    BY DEF ReadSnapshot, Starts, ServerTypes
  <2>2. Head(up[c]) \in Ops
    BY <2>1
  <2> QED BY <2>1, <2>2 DEF Ops, Bootstrap, Kinds
<1>3. srv[c].stage \in {"idle", "mutated", "query", "result", "fanout"}
  BY CallForms DEF ServerTypes
<1> QED BY <1>1, <1>2, <1>3 DEF SendSnapshot, CommitSnapshot, Stage

\* A reader does nothing of its own, and receives deltas only.
LEMMA ReaderActs ==
  ASSUME ReaderTypes, NEW c \in Readers
  PROVE  /\ ~Write(c) /\ ~ReceiveSnapshot(c) /\ ~ReceiveAck(c) /\ ~ReceiveReject(c)
         /\ ~Decide(c) /\ ~Settle(c) /\ ~ReadDb(c) /\ ~FanOut(c) /\ ~Acknowledge(c)
<1>1. srv[c].stage = "idle" /\ up[c] = << >>
  BY DEF ReaderTypes, Idle
<1>2. net[c] # << >> => Head(net[c]).type = "delta"
  <2>1. net[c] # << >> => Head(net[c]) \in Deltas
    BY DEF ReaderTypes
  <2> QED BY <2>1 DEF Deltas
<1>3. ~Write(c)
  BY DEF Write, Readers
<1> QED BY <1>1, <1>2, <1>3 DEF ReceiveSnapshot, ReceiveAck, ReceiveReject, Deliver, Decide, Starts,
       Settle, ReadDb, FanOut, Acknowledge, Stage

\* Ops are what is queued.
LEMMA HeadOp ==
  ASSUME ServerTypes, NEW c \in Clients, up[c] # << >>
  PROVE  Head(up[c]) \in Ops /\ Tail(up[c]) \in Seq(Ops)
BY DEF ServerTypes

\* The first broadcast waiting for a client's section is one that fans out.
LEMMA HeadResult ==
  ASSUME ServerTypes, QueueOrder, NEW c \in Clients, lock[c] # << >>
  PROVE  /\ Head(lock[c]) \in Clients /\ Head(lock[c]) = lock[c][1] /\ 1 \in DOMAIN lock[c]
         /\ Stage(Head(lock[c]), "fanout")
         /\ Result(c) \in Table /\ Stamp(c) \in Nat
<1>1. /\ Head(lock[c]) \in Clients /\ Head(lock[c]) = lock[c][1] /\ 1 \in DOMAIN lock[c]
  BY DEF ServerTypes
<1>2. Stage(Head(lock[c]), "fanout")
  BY <1>1 DEF QueueOrder
<1>3. srv[Head(lock[c])] \in [stage : {"result", "fanout"}, op : Ops, stamp : Nat, rows : Table]
  BY <1>1, <1>2, CallForms DEF ServerTypes, Stage
<1> QED BY <1>1, <1>2, <1>3 DEF Result, Stamp

\* What the server keeps has its type after every step.
LEMMA ServerTypesNext ==
  ASSUME BroadcastAssumption, ServerTypes, ReaderTypes, QueueOrder, [Next]_vars
  PROVE  ServerTypes'
<1> USE DEF server, client, budget, vars
<1>1. ASSUME NEW c \in Clients, Write(c)
      PROVE  ServerTypes'
  <2>1. PICK r \in Mine[c], v \in Content, hlc \in NextHlc(c) :
          LET held == local[c][r]
              op   == [kind |-> IF v = NoRow THEN "delete" ELSE IF Visible(held) THEN "update" ELSE "insert",
                       row |-> r, v |-> v, hlc |-> hlc]
          IN  /\ v # held.v
              /\ pending' = [pending EXCEPT ![c] = Append(@, [op |-> op, pre |-> Shown(held)])]
              /\ local' = [local EXCEPT ![c][r] = Optimistic(@, op)]
              /\ up' = [up EXCEPT ![c] = Append(@, op)]
    BY <1>1, Zenon DEF Write
  <2> DEFINE kind == IF v = NoRow THEN "delete" ELSE IF Visible(local[c][r]) THEN "update" ELSE "insert"
  <2>2. r \in Rows /\ hlc \in Nat
    BY BroadcastAssumption DEF BroadcastAssumption, NextHlc, ServerTypes
  <2>3. [kind |-> kind, row |-> r, v |-> v, hlc |-> hlc] \in Ops
    BY <2>2 DEF Ops, Kinds
  <2>4. up' \in [Clients -> Seq(Ops)]
    <3> HIDE DEF kind
    <3>1. up' = [up EXCEPT ![c] = Append(@, [kind |-> kind, row |-> r, v |-> v, hlc |-> hlc])]
      BY <2>1 DEF kind
    <3> QED BY <2>3, <3>1 DEF ServerTypes
  <2>5. DOMAIN local' = Clients
    BY <2>1 DEF ServerTypes
  <2> QED BY <1>1, <2>4, <2>5 DEF Write, ServerTypes
<1>2. ASSUME NEW c \in Clients, Receive(c)
      PROVE  ServerTypes'
  <2>1. /\ UNCHANGED <<server, up, budget>>
        /\ DOMAIN net' = Clients /\ DOMAIN local' = Clients
    BY <1>2 DEF Receive, ReceiveDelta, ReceiveSnapshot, ReceiveAck, ReceiveReject, Deliver, ServerTypes
  <2> QED BY <2>1 DEF ServerTypes
<1>3. ASSUME NEW c \in Clients, Decide(c)
      PROVE  ServerTypes'
  <2> DEFINE op == Head(up[c])
  <2>1. op \in Ops /\ Tail(up[c]) \in Seq(Ops)
    BY <1>3, HeadOp DEF Decide, Starts
  <2>2. clock' \in Nat
    <3>1. op.hlc \in Nat
      BY <2>1 DEF Ops
    <3>2. op.hlc \div 2 \in Nat
      BY <3>1
    <3> QED BY <1>3, <3>2 DEF Decide, AtLeast, ServerTypes
  <2>3. up' \in [Clients -> Seq(Ops)]
    BY <1>3, <2>1 DEF Decide, ServerTypes
  <2>4. db' \in Table /\ srv' \in [Clients -> Calls]
    <3>1. op.row \in Rows /\ op.v \in Content /\ [stage |-> "mutated", op |-> op] \in Calls
      BY <2>1 DEF Ops, Calls
    <3>2. \/ db' = db /\ srv' = srv
          \/ /\ db' = [db EXCEPT ![op.row] = op.v]
             /\ srv' = [srv EXCEPT ![c] = [stage |-> "mutated", op |-> op]]
      BY <1>3 DEF Decide
    <3>3. PICK row \in Rows, v \in Content, call \in Calls :
             \/ db' = db /\ srv' = srv
             \/ db' = [db EXCEPT ![row] = v] /\ srv' = [srv EXCEPT ![c] = call]
      BY <3>1, <3>2
    <3>4. db' \in Table
      <4>1. db \in [Rows -> Content]
        BY DEF ServerTypes, Table
      <4>2. CASE db' = [db EXCEPT ![row] = v]
        BY <4>1, <4>2, <3>3 DEF Table
      <4> QED BY <3>3, <4>1, <4>2 DEF Table
    <3>5. srv' \in [Clients -> Calls]
      BY <3>3 DEF ServerTypes
    <3> QED BY <3>4, <3>5
  <2>5. DOMAIN net' = Clients
    BY <1>3 DEF Decide, ServerTypes
  <2> QED BY <1>3, <2>2, <2>3, <2>4, <2>5 DEF Decide, ServerTypes
<1>4. ASSUME NEW c \in Clients, Settle(c)
      PROVE  ServerTypes'
  <2>1. srv[c].op \in Ops
    BY <1>4, CallForms DEF Settle, Stage, ServerTypes
  <2>2. clock' \in Nat /\ 2 * clock' \in Nat
    BY <1>4 DEF Settle, ServerTypes
  <2>3. srv' \in [Clients -> Calls]
    BY <1>4, <2>1, <2>2 DEF Settle, ServerTypes, Calls
  <2>4. HeldByWriter(c, srv[c].op) \in Table
    BY <2>1 DEF HeldByWriter, ServerTypes, Table, Ops
  <2>5. cache' \in [Clients -> Table]
    BY <1>4, <2>4 DEF Settle, ServerTypes
  <2> QED BY <1>4, <2>2, <2>3, <2>5 DEF Settle, ServerTypes
<1>5. ASSUME NEW c \in Clients, ReadDb(c)
      PROVE  ServerTypes'
  <2>1. srv[c].op \in Ops /\ srv[c].stamp \in Nat
    BY <1>5, CallForms DEF ReadDb, Stage, ServerTypes
  <2>2. srv' \in [Clients -> Calls]
    BY <1>5, <2>1 DEF ReadDb, ServerTypes, Calls
  <2> QED BY <1>5, <2>2 DEF ReadDb, ServerTypes
<1>6. ASSUME NEW c \in Clients, FanOut(c)
      PROVE  ServerTypes'
  <2>1. srv[c] \in [stage : {"result", "fanout"}, op : Ops, stamp : Nat, rows : Table]
    BY <1>6, CallForms DEF FanOut, Stage, ServerTypes
  <2>2. srv' \in [Clients -> Calls]
    BY <1>6, <2>1 DEF FanOut, ServerTypes, Calls
  <2>3. lock' \in [Clients -> Seq(Clients)]
    BY <1>6 DEF FanOut, ServerTypes
  <2> QED BY <1>6, <2>2, <2>3 DEF FanOut, ServerTypes
<1>7. ASSUME NEW c \in Clients, Acknowledge(c)
      PROVE  ServerTypes'
  BY <1>7 DEF Acknowledge, ServerTypes, Calls
<1>8. ASSUME NEW c \in Clients, NothingNew(c) \/ SendDeltas(c) \/ SendFails(c)
      PROVE  ServerTypes'
  <2>1. UNCHANGED <<db, clock, bootstraps, srv, cache, up, local>> /\ DOMAIN net' = Clients
    BY <1>8 DEF NothingNew, SendDeltas, SendFails, ServerTypes
  <2>2. sending' \in [Clients -> BOOLEAN] /\ missed' \in [Clients -> BOOLEAN]
    BY <1>8 DEF NothingNew, SendDeltas, SendFails, ServerTypes
  <2>3. lock' \in [Clients -> Seq(Clients)]
    <3>1. CASE lock' = lock
      BY <3>1 DEF ServerTypes
    <3>2. CASE Leave(c) /\ lock[c] # << >>
      BY <3>2 DEF Leave, ServerTypes
    <3> QED BY <1>8, <3>1, <3>2 DEF NothingNew, SendDeltas, SendFails, Sectioned
  <2> QED BY <2>1, <2>2, <2>3 DEF ServerTypes
<1>9. ASSUME NEW c \in Clients, Commit(c)
      PROVE  ServerTypes'
  <2>1. lock[c] # << >>
    BY <1>9 DEF Commit, QueueOrder
  <2>2. Result(c) \in Table
    BY <2>1, HeadResult
  <2> QED BY <1>9, <2>1, <2>2 DEF Commit, Leave, ServerTypes
<1>10. CASE UNCHANGED vars
  BY <1>10 DEF ServerTypes
<1> QED BY <1>1, <1>2, <1>3, <1>4, <1>5, <1>6, <1>7, <1>8, <1>9, <1>10, NoBootstrap
      DEF Next, Handle, Section

-----------------------------------------------------------------------------
(* What the steps do to the broadcasts, and to what a client is told.      *)

Others(c) == \A d \in Clients \ {c} : srv'[d] = srv[d]

\* No broadcast moves.
Stays == srv' = srv /\ db' = db /\ clock' \in Nat /\ clock <= clock'

\* The op of client c is written to the database.
Mutates(c) ==
  /\ Others(c) /\ lock' = lock /\ clock' \in Nat /\ clock <= clock'
  /\ Stage(c, "idle") /\ srv'[c].stage = "mutated"

\* Its broadcast is stamped.
Stamps(c) ==
  /\ Others(c) /\ lock' = lock /\ db' = db /\ clock' = clock + 1
  /\ Stage(c, "mutated") /\ srv'[c].stage = "query" /\ srv'[c].stamp = 2 * clock'

\* Its query reads the database, after those with an earlier stamp.
Reads(c) ==
  /\ Others(c) /\ lock' = lock /\ db' = db /\ clock' = clock
  /\ Stage(c, "query") /\ \A d \in Clients : Stage(d, "query") => srv[c].stamp <= srv[d].stamp
  /\ srv'[c].stage = "result" /\ srv'[c].stamp = srv[c].stamp /\ srv'[c].rows = db

\* It is queued for the other clients, after those with an earlier stamp.
Fans(c) ==
  /\ Others(c) /\ db' = db /\ clock' = clock
  /\ lock' = [d \in Clients |-> IF d = c THEN lock[d] ELSE Append(lock[d], c)]
  /\ Stage(c, "result") /\ \A d \in Clients : Unread(d) => srv[c].stamp <= srv[d].stamp
  /\ srv'[c].stage = "fanout" /\ srv'[c].stamp = srv[c].stamp /\ srv'[c].rows = srv[c].rows

\* It waits for nobody's section any more.
Ends(c) ==
  /\ Others(c) /\ lock' = lock /\ db' = db /\ clock' = clock
  /\ Stage(c, "fanout") /\ \A d \in Clients : \A i \in DOMAIN lock[d] : lock[d][i] # c
  /\ srv'[c].stage = "idle"

\* What a step does to the broadcasts, to the section of a client and to a
\* reader.
Effect ==
  \/ Stays /\ lock' = lock /\ sending' = sending
  \/ Stays /\ \E c \in Clients : Section(c)
  \/ \E c \in Clients : (Mutates(c) \/ Stamps(c) \/ Reads(c) \/ Fans(c) \/ Ends(c)) /\ sending' = sending

\* Its result is in, and nothing but the queues changes.
LEMMA FanOutFans ==
  ASSUME InOrder, ServerTypes, NEW c \in Clients, FanOut(c)
  PROVE  Fans(c) /\ sending' = sending
<1>1. srv[c] \in [stage : {"result", "fanout"}, op : Ops, stamp : Nat, rows : Table]
  BY CallForms DEF FanOut, Stage, ServerTypes
<1>2. /\ srv'[c].stage = "fanout" /\ srv'[c].stamp = srv[c].stamp /\ srv'[c].rows = srv[c].rows
      /\ Others(c)
  BY <1>1 DEF FanOut, Others, ServerTypes
<1> QED BY <1>2 DEF FanOut, First, Fans, Unread

\* Every step is one of these.
LEMMA StepEffects ==
  ASSUME InOrder, ServerTypes, ReaderTypes, [Next]_vars
  PROVE  Effect
<1> USE DEF server, client, budget, vars
<1>1. ASSUME NEW c \in Clients, Write(c) \/ Receive(c)
      PROVE  Stays /\ lock' = lock /\ sending' = sending
  BY <1>1 DEF Write, Receive, ReceiveDelta, ReceiveSnapshot, ReceiveAck, ReceiveReject, Deliver,
              Stays, ServerTypes
<1>2. ASSUME NEW c \in Clients, Decide(c)
      PROVE  (Stays \/ Mutates(c)) /\ lock' = lock /\ sending' = sending
  <2>1. clock' \in Nat /\ clock <= clock'
    <3>1. Head(up[c]) \in Ops
      BY <1>2, HeadOp DEF Decide, Starts
    <3>2. Head(up[c]).hlc \in Nat
      BY <3>1 DEF Ops
    <3>3. Head(up[c]).hlc \div 2 \in Nat
      BY <3>2
    <3> QED BY <1>2, <3>3 DEF Decide, AtLeast, ServerTypes
  <2>2. \/ srv' = srv /\ db' = db
        \/ srv' = [srv EXCEPT ![c] = [stage |-> "mutated", op |-> Head(up[c])]]
    BY <1>2 DEF Decide
  <2>3. Stage(c, "idle")
    BY <1>2 DEF Decide, Starts, Stage, Idle
  <2> QED BY <1>2, <2>1, <2>2, <2>3 DEF Decide, Stays, Mutates, Others, ServerTypes
<1>3. ASSUME NEW c \in Clients, Settle(c)
      PROVE  Stamps(c) /\ sending' = sending
  BY <1>3 DEF Settle, Stamps, Others, ServerTypes
<1>4. ASSUME NEW c \in Clients, ReadDb(c)
      PROVE  Reads(c) /\ sending' = sending
  BY <1>4 DEF ReadDb, First, Reads, Others, Stage, ServerTypes
<1>5. ASSUME NEW c \in Clients, FanOut(c)
      PROVE  Fans(c) /\ sending' = sending
  BY <1>5, FanOutFans
<1>6. ASSUME NEW c \in Clients, Acknowledge(c)
      PROVE  Ends(c) /\ sending' = sending
  <2>1. Others(c) /\ srv'[c].stage = "idle"
    BY <1>6 DEF Acknowledge, Others, Idle, ServerTypes
  <2> QED BY <1>6, <2>1 DEF Acknowledge, Ends, Elements
<1>7. ASSUME NEW c \in Clients, Section(c)
      PROVE  Stays
  BY <1>7 DEF Section, NothingNew, SendDeltas, SendFails, Commit, Stays, ServerTypes
<1>8. ASSUME UNCHANGED vars
      PROVE  Stays /\ lock' = lock /\ sending' = sending
  BY <1>8 DEF Stays, ServerTypes
<1> QED BY <1>1, <1>2, <1>3, <1>4, <1>5, <1>6, <1>7, <1>8, NoBootstrap DEF Effect, Next, Handle

\* Stamps stay numbers and stay in their order.
LEMMA StampOrderNext ==
  ASSUME ServerTypes, StampOrder, Effect
  PROVE  StampOrder'
<1> USE DEF Stamped, Stage
<1>0. /\ clock \in Nat
      /\ \A d \in Clients : Stamped(d) => srv[d].stamp \in Nat
  BY CallForms DEF ServerTypes
<1>1. ASSUME Stays
      PROVE  StampOrder'
  BY <1>0, <1>1 DEF Stays, StampOrder
<1>2. ASSUME NEW c \in Clients, Mutates(c) \/ Ends(c)
      PROVE  StampOrder'
  <2>1. clock' \in Nat /\ clock <= clock' /\ ~Stamped(c)'
    BY <1>0, <1>2 DEF Mutates, Ends
  <2>2. \A d \in Clients \ {c} : srv'[d] = srv[d]
    BY <1>2 DEF Mutates, Ends, Others
  <2> QED BY <1>0, <2>1, <2>2 DEF StampOrder
<1>3. ASSUME NEW c \in Clients, Stamps(c)
      PROVE  StampOrder'
  <2>1. \A d \in Clients \ {c} : srv'[d] = srv[d]
    BY <1>3 DEF Stamps, Others
  <2>2. \A d \in Clients \ {c} : Stamped(d) => srv[d].stamp < srv'[c].stamp
    BY <1>0, <1>3 DEF Stamps, StampOrder
  <2> QED BY <1>0, <1>3, <2>1, <2>2 DEF Stamps, StampOrder
<1>4. ASSUME NEW c \in Clients, Reads(c)
      PROVE  StampOrder'
  <2>1. \A d \in Clients \ {c} : srv'[d] = srv[d]
    BY <1>4 DEF Reads, Others
  <2>2. \A d \in Clients \ {c} : Stage(d, "query") => srv[c].stamp < srv[d].stamp
    BY <1>0, <1>4 DEF Reads, StampOrder
  <2>3. \A d \in Clients \ {c} : Stage(d, "fanout") => srv[d].stamp < srv[c].stamp
    BY <1>0, <1>4 DEF Reads, StampOrder
  <2> QED BY <1>0, <1>4, <2>1, <2>2, <2>3 DEF Reads, StampOrder
<1>5. ASSUME NEW c \in Clients, Fans(c)
      PROVE  StampOrder'
  <2>1. \A d \in Clients \ {c} : srv'[d] = srv[d]
    BY <1>5 DEF Fans, Others
  <2>2. \A d \in Clients \ {c} : Unread(d) => srv[c].stamp < srv[d].stamp
    BY <1>0, <1>5 DEF Fans, StampOrder, Unread
  <2> QED BY <1>0, <1>5, <2>1, <2>2 DEF Fans, StampOrder, Unread
<1> QED BY <1>1, <1>2, <1>3, <1>4, <1>5 DEF Effect

\* The first broadcast leaves the queue of a section; the others keep their
\* places.
LEMMA Left ==
  ASSUME ServerTypes, NEW c \in Clients, lock[c] # << >>, Leave(c)
  PROVE  /\ \A d \in Clients \ {c} : lock'[d] = lock[d]
         /\ lock'[c] = Tail(lock[c]) /\ Len(lock'[c]) = Len(lock[c]) - 1
         /\ Len(lock[c]) \in Nat /\ DOMAIN lock[c] = 1 .. Len(lock[c])
         /\ DOMAIN lock'[c] = 1 .. Len(lock[c]) - 1
         /\ \A i \in DOMAIN lock'[c] : lock'[c][i] = lock[c][i + 1] /\ i + 1 \in DOMAIN lock[c]
         /\ lock'[c] # << >> => lock'[c][Len(lock'[c])] = lock[c][Len(lock[c])]
<1>1. /\ \A d \in Clients \ {c} : lock'[d] = lock[d]
      /\ lock'[c] = Tail(lock[c])
  BY DEF Leave, ServerTypes
<1>2. lock[c] \in Seq(Clients)
  BY DEF ServerTypes
<1>3. /\ Len(lock'[c]) = Len(lock[c]) - 1
      /\ Len(lock[c]) \in Nat /\ DOMAIN lock[c] = 1 .. Len(lock[c])
      /\ DOMAIN lock'[c] = 1 .. Len(lock[c]) - 1
      /\ \A i \in 1 .. Len(lock[c]) - 1 : lock'[c][i] = lock[c][i + 1]
  BY <1>1, <1>2
<1>4. lock'[c] # << >> => Len(lock[c]) - 1 \in DOMAIN lock'[c]
  BY <1>1, <1>2, <1>3
<1> QED BY <1>1, <1>3, <1>4

\* The queues of the sections stay in the order of the stamps.
LEMMA QueueOrderNext ==
  ASSUME ServerTypes, StampOrder, QueueOrder, Effect
  PROVE  QueueOrder'
<1> USE DEF Stage
<1>0. \A c \in Clients : \A i \in DOMAIN lock[c] : lock[c][i] \in Clients
  BY DEF ServerTypes
<1>1. ASSUME Stays, lock' = lock, sending' = sending
      PROVE  QueueOrder'
  BY <1>1 DEF Stays, QueueOrder
<1>2. ASSUME Stays, NEW c \in Clients, NothingNew(c) \/ SendFails(c) \/ Commit(c)
      PROVE  QueueOrder'
  <2>1. /\ lock[c] # << >> /\ Leave(c) /\ ~sending'[c]
        /\ \A d \in Clients \ {c} : sending'[d] = sending[d]
    BY <1>2 DEF NothingNew, SendFails, Commit, Sectioned, QueueOrder, ServerTypes
  <2>2. srv' = srv
    BY <1>2 DEF Stays
  <2>3. \A i, j \in DOMAIN lock'[c] : i < j => i + 1 < j + 1
    BY <2>1, Left
  <2> QED BY SMTT(30), <2>1, <2>2, <2>3, Left DEF QueueOrder
<1>3. ASSUME Stays, NEW c \in Clients, SendDeltas(c)
      PROVE  QueueOrder'
  <2>1. srv' = srv /\ lock' = lock /\ lock[c] # << >>
    BY <1>3 DEF Stays, SendDeltas, Sectioned
  <2>2. \A d \in Clients \ {c} : sending'[d] = sending[d]
    BY <1>3 DEF SendDeltas, ServerTypes
  <2> QED BY <2>1, <2>2 DEF QueueOrder
<1>4. ASSUME NEW c \in Clients, Mutates(c) \/ Stamps(c) \/ Reads(c) \/ Ends(c), sending' = sending
      PROVE  QueueOrder'
  <2>1. /\ lock' = lock /\ \A d \in Clients \ {c} : srv'[d] = srv[d]
        /\ \A d \in Clients : \A i \in DOMAIN lock[d] : lock[d][i] # c
    BY <1>4 DEF Mutates, Stamps, Reads, Ends, Others, QueueOrder
  <2>2. \A d \in Clients : \A i \in DOMAIN lock[d] : srv'[lock[d][i]] = srv[lock[d][i]]
    BY <1>0, <2>1
  <2> QED BY <1>4, <2>1, <2>2 DEF QueueOrder
<1>5. ASSUME NEW c \in Clients, Fans(c), sending' = sending
      PROVE  QueueOrder'
  <2>1. /\ \A d \in Clients \ {c} : srv'[d] = srv[d]
        /\ lock' = [d \in Clients |-> IF d = c THEN lock[d] ELSE Append(lock[d], c)]
        /\ srv'[c].stage = "fanout" /\ srv'[c].stamp = srv[c].stamp
        /\ Stage(c, "result")
    BY <1>5 DEF Fans, Others
  <2>2. \A d \in Clients : \A i \in DOMAIN lock[d] :
          /\ srv'[lock[d][i]] = srv[lock[d][i]] /\ srv[lock[d][i]].stamp < srv[c].stamp
    BY <1>0, <2>1 DEF QueueOrder, StampOrder, Stamped
  <2>3. ASSUME NEW d \in Clients
        PROVE  /\ sending'[d] => lock'[d] # << >>
               /\ \A i \in DOMAIN lock'[d] : srv'[lock'[d][i]].stage = "fanout"
               /\ \A i, j \in DOMAIN lock'[d] :
                    i < j => srv'[lock'[d][i]].stamp < srv'[lock'[d][j]].stamp
    <3>1. lock[d] \in Seq(Clients)
      BY DEF ServerTypes
    <3>2. CASE d = c
      BY <1>5, <2>1, <2>2, <3>2 DEF QueueOrder
    <3>3. CASE d # c
      <4>1. /\ DOMAIN lock[d] = 1 .. Len(lock[d]) /\ DOMAIN lock'[d] = 1 .. Len(lock[d]) + 1
            /\ Len(lock[d]) \in Nat /\ lock'[d][Len(lock[d]) + 1] = c
            /\ \A i \in DOMAIN lock[d] : lock'[d][i] = lock[d][i]
        BY <2>1, <3>1, <3>3
      <4>2. lock'[d] # << >>
        BY <4>1
      <4> QED BY SMTT(30), <2>1, <2>2, <4>1, <4>2 DEF QueueOrder
    <3> QED BY <3>2, <3>3
  <2> QED BY <2>3 DEF QueueOrder
<1> QED BY <1>1, <1>2, <1>3, <1>4, <1>5 DEF Effect, Section

\* A broadcast that nobody was told of keeps its stamp, or has a fresh one; one
\* that waits for a section stays as it is.
LEMMA StampsStay ==
  ASSUME ServerTypes, QueueOrder, Effect
  PROVE  /\ clock \in Nat /\ clock' \in Nat /\ clock <= clock'
         /\ \A d \in Clients :
              Unread(d)' => \/ Unread(d) /\ srv'[d].stamp = srv[d].stamp
                            \/ srv'[d].stamp \in Nat /\ 2 * clock < srv'[d].stamp
         /\ \A c \in Clients : \A i \in DOMAIN lock[c] :
              lock[c][i] \in Clients /\ srv'[lock[c][i]] = srv[lock[c][i]]
<1> USE DEF Stage, Unread
<1>0. clock \in Nat /\ \A c \in Clients : \A i \in DOMAIN lock[c] : lock[c][i] \in Clients
  BY DEF ServerTypes
<1>1. CASE Stays
  BY <1>0, <1>1 DEF Stays
<1>2. ASSUME NEW c \in Clients, Mutates(c) \/ Stamps(c) \/ Reads(c) \/ Fans(c) \/ Ends(c)
      PROVE  /\ clock' \in Nat /\ clock <= clock'
             /\ \A d \in Clients :
                  Unread(d)' => \/ Unread(d) /\ srv'[d].stamp = srv[d].stamp
                                \/ srv'[d].stamp \in Nat /\ 2 * clock < srv'[d].stamp
             /\ \A d \in Clients : \A i \in DOMAIN lock[d] : srv'[lock[d][i]] = srv[lock[d][i]]
  <2>1. \A d \in Clients \ {c} : srv'[d] = srv[d]
    BY <1>2 DEF Mutates, Stamps, Reads, Fans, Ends, Others
  <2>2. \A d \in Clients : \A i \in DOMAIN lock[d] : lock[d][i] # c
    BY <1>2 DEF Mutates, Stamps, Reads, Fans, Ends, QueueOrder
  <2>3. clock' \in Nat /\ clock <= clock'
    BY <1>0, <1>2 DEF Mutates, Stamps, Reads, Fans, Ends
  <2>4. Unread(c)' => \/ Unread(c) /\ srv'[c].stamp = srv[c].stamp
                      \/ srv'[c].stamp \in Nat /\ 2 * clock < srv'[c].stamp
    BY <1>0, <1>2 DEF Mutates, Stamps, Reads, Fans, Ends
  <2> QED BY <1>0, <2>1, <2>2, <2>3, <2>4
<1> QED BY <1>0, <1>1, <1>2 DEF Effect

\* A step leaves what reader c is told alone, but for the queue of its section.
Apart(c) ==
  /\ sending'[c] = sending[c] /\ missed'[c] = missed[c] /\ cache'[c] = cache[c]
  /\ local'[c] = local[c] /\ net'[c] = net[c]

\* What a step does to a reader.
LEMMA ReaderSteps ==
  ASSUME InOrder, ServerTypes, ReaderTypes, [Next]_vars, NEW c \in Readers
  PROVE  \/ Apart(c) /\ lock'[c] = lock[c]
         \/ Apart(c) /\ \E d \in Clients \ {c} : Fans(d)
         \/ ReceiveDelta(c)
         \/ Section(c)
<1> USE DEF server, client, budget, vars
<1>0. c \in Clients
  BY DEF Readers
<1>1. ASSUME NEW d \in Clients \ {c}, Write(d) \/ Receive(d)
      PROVE  Apart(c) /\ lock'[c] = lock[c]
  <2>1. CASE Write(d)
    BY <1>0, <1>1, <2>1 DEF Write, Apart, ServerTypes
  <2>2. CASE Receive(d)
    BY <1>0, <1>1, <2>2 DEF Receive, ReceiveDelta, ReceiveSnapshot, ReceiveAck, ReceiveReject, Deliver,
         Apart, ServerTypes
  <2> QED BY <1>1, <2>1, <2>2
<1>2. ASSUME NEW d \in Clients \ {c}, Decide(d) \/ Settle(d) \/ ReadDb(d) \/ Acknowledge(d)
      PROVE  Apart(c) /\ lock'[c] = lock[c]
  BY <1>0, <1>2 DEF Decide, Settle, ReadDb, Acknowledge, Apart, ServerTypes
<1>3. ASSUME NEW d \in Clients \ {c}, FanOut(d)
      PROVE  Apart(c) /\ Fans(d)
  BY <1>0, <1>3, FanOutFans DEF FanOut, Apart
<1>4. ASSUME NEW d \in Clients \ {c}, Section(d)
      PROVE  Apart(c) /\ lock'[c] = lock[c]
  <2>2. CASE NothingNew(d)
    BY <1>0, <2>2 DEF NothingNew, Leave, Apart, ServerTypes
  <2>3. CASE SendDeltas(d)
    BY <1>0, <2>3 DEF SendDeltas, Apart, ServerTypes
  <2>4. CASE SendFails(d)
    BY <1>0, <2>4 DEF SendFails, Leave, Apart, ServerTypes
  <2>5. CASE Commit(d)
    BY <1>0, <2>5 DEF Commit, Leave, Apart, ServerTypes
  <2> QED BY <1>4, <2>2, <2>3, <2>4, <2>5 DEF Section
<1>5. CASE UNCHANGED vars
  BY <1>5 DEF Apart
<1> QED BY <1>0, <1>1, <1>2, <1>3, <1>4, <1>5, NoBootstrap, ReaderActs DEF Next, Handle, Receive

-----------------------------------------------------------------------------
(* The frames of a broadcast.                                              *)

\* SetToSeq lists every element of a finite set once.
LEMMA SeqOfSet ==
  ASSUME NEW S, IsFiniteSet(S)
  PROVE  /\ SetToSeq(S) \in Seq(S)
         /\ \A x \in S : \E j \in DOMAIN SetToSeq(S) : SetToSeq(S)[j] = x
         /\ \A j, k \in DOMAIN SetToSeq(S) : SetToSeq(S)[j] = SetToSeq(S)[k] => j = k
<1> DEFINE n == Cardinality(S)
           D == 1 .. n
           s == SetToSeq(S)
<1>1. n \in Nat /\ ExistsBijection(D, S)
  BY FS_CardinalityType
<1>2. \E f \in [D -> S] : IsInjective(f)
  BY <1>1 DEF ExistsBijection, Bijection, Injection
<1>3. s \in [D -> S] /\ IsInjective(s)
  BY <1>2, Zenon DEF SetToSeq
<1>4. s \in Injection(D, S)
  BY <1>3 DEF Injection
<1>5. Cardinality(D) = n
  <2>1. Cardinality(1 .. n) = IF 1 > n THEN 0 ELSE n - 1 + 1
    BY <1>1, FS_Interval
  <2> QED BY <1>1, <2>1
<1>6. s \in Surjection(D, S)
  <2> HIDE DEF D, s, n
  <2>1. Cardinality(D) = Cardinality(S)
    BY <1>5 DEF n
  <2> QED BY <1>4, <2>1, FS_Injection
<1>7. \A x \in S : \E j \in D : s[j] = x
  BY <1>6 DEF Surjection
<1> HIDE DEF s
<1>8. s \in Seq(S) /\ DOMAIN s = D
  BY <1>1, <1>3
<1>9. \A j, k \in DOMAIN s : s[j] = s[k] => j = k
  BY <1>3 DEF IsInjective
<1> QED BY <1>7, <1>8, <1>9 DEF s

\* A broadcast sends a client one frame for each row that is not as the server
\* believes the client holds it.
LEMMA Frames ==
  ASSUME BroadcastAssumption, ServerTypes, QueueOrder, NEW c \in Clients, lock[c] # << >>
  PROVE  LET s == SetToSeq(Diff(c))
         IN  /\ s \in Seq(Deltas)
             /\ \A j \in DOMAIN s :
                  /\ s[j].type = "delta" /\ s[j].row \in Rows
                  /\ s[j].hlc = Stamp(c) /\ s[j].v = Result(c)[s[j].row]
             /\ \A r \in Rows : cache[c][r] # Result(c)[r] => \E j \in DOMAIN s : s[j].row = r
             /\ \A j, k \in DOMAIN s : s[j].row = s[k].row => j = k
<1> DEFINE frame(r) ==
      [type |-> "delta",
       op   |-> IF cache[c][r] = NoRow THEN "insert" ELSE IF Result(c)[r] = NoRow THEN "delete" ELSE "update",
       row  |-> r, v |-> Result(c)[r], hlc |-> Stamp(c)]
<1>1. Result(c) \in Table /\ Stamp(c) \in Nat /\ cache[c] \in Table
  BY HeadResult DEF ServerTypes
<1>2. Diff(c) = {frame(r) : r \in {x \in Rows : cache[c][x] # Result(c)[x]}}
  BY DEF Diff
<1>3. ASSUME NEW r \in Rows, cache[c][r] # Result(c)[r]
      PROVE  frame(r) \in Deltas
  <2>1. Result(c)[r] \in Content /\ cache[c][r] \in Content
    BY <1>1, <1>3 DEF Table
  <2> QED BY <1>1, <1>3, <2>1 DEF Deltas, Kinds
<1>4. \A m \in Diff(c) : /\ m \in Deltas /\ m.type = "delta" /\ m.row \in Rows /\ m = frame(m.row)
                         /\ m.hlc = Stamp(c) /\ m.v = Result(c)[m.row]
  BY <1>2, <1>3
<1>5. \A r \in Rows : cache[c][r] # Result(c)[r] => \E m \in Diff(c) : m.row = r
  <2> SUFFICES ASSUME NEW r \in Rows, cache[c][r] # Result(c)[r]
               PROVE  \E m \in Diff(c) : m.row = r
    OBVIOUS
  <2>1. frame(r) \in Diff(c) /\ frame(r).row = r
    BY <1>2
  <2> QED BY <2>1
<1> HIDE DEF frame
<1>6. IsFiniteSet(Diff(c))
  <2> DEFINE f == [m \in Diff(c) |-> m.row]
  <2>1. f \in Injection(Diff(c), Rows)
    BY <1>4 DEF Injection, IsInjective
  <2>2. IsFiniteSet(Rows)
    BY DEF BroadcastAssumption
  <2> HIDE DEF f
  <2> QED BY <2>1, <2>2, FS_Injection
<1> DEFINE s == SetToSeq(Diff(c))
<1>7. /\ s \in Seq(Diff(c))
      /\ \A x \in Diff(c) : \E j \in DOMAIN s : s[j] = x
      /\ \A j, k \in DOMAIN s : s[j] = s[k] => j = k
  BY <1>6, SeqOfSet
<1> HIDE DEF s
<1>8. \A j \in DOMAIN s : s[j] \in Diff(c)
  BY <1>7
<1>9. s \in Seq(Deltas)
  BY <1>4, <1>7, <1>8
<1>10. \A j \in DOMAIN s : /\ s[j].type = "delta" /\ s[j].row \in Rows /\ s[j] = frame(s[j].row)
                           /\ s[j].hlc = Stamp(c) /\ s[j].v = Result(c)[s[j].row]
  BY <1>4, <1>8
<1>11. \A j, k \in DOMAIN s : s[j].row = s[k].row => j = k
  BY <1>7, <1>10
<1>12. \A r \in Rows : cache[c][r] # Result(c)[r] => \E j \in DOMAIN s : s[j].row = r
  BY <1>5, <1>7
<1> QED BY <1>9, <1>10, <1>11, <1>12 DEF s

\* A frame that is newer than the row it meets is what the reader then shows.
LEMMA NewerApplies ==
  ASSUME NEW held \in Rowed, NEW m \in Deltas, held.hlc < m.hlc
  PROVE  /\ ApplyDelta(held, m) \in Rowed
         /\ ApplyDelta(held, m).v = m.v /\ ApplyDelta(held, m).hlc = m.hlc
<1>1. /\ held.hlc \in Nat /\ held.clock \in Nat /\ held.clock <= held.hlc
      /\ m.hlc \in Nat /\ m.v \in Content /\ (m.op = "delete" <=> m.v = NoRow)
  BY DEF Rowed, Held, Deltas
<1>2. CASE m.op = "delete"
  <2>1. ApplyDelta(held, m) = [v |-> NoRow, hlc |-> m.hlc, clock |-> 0]
    BY <1>1, <1>2 DEF ApplyDelta
  <2> QED BY <1>1, <1>2, <2>1 DEF Rowed, Held
<1>3. CASE m.op # "delete"
  <2>1. m.v \in Vals
    BY <1>1, <1>3 DEF Content
  <2>2. PICK k \in {0, m.hlc} : ApplyDelta(held, m) = [v |-> m.v, hlc |-> m.hlc, clock |-> k]
    BY <1>1, <1>3 DEF ApplyDelta, AtLeast
  <2> QED BY <1>1, <2>1, <2>2 DEF Rowed, Held
<1> QED BY <1>2, <1>3

-----------------------------------------------------------------------------
(* Each part of the invariant is kept.                                     *)

\* A reader receives a frame that is newer than its row.
LEMMA Received ==
  ASSUME ServerTypes, ReaderTypes, CacheIsWhatReadersHold, NEW c \in Readers, ReceiveDelta(c)
  PROVE  LET m == net[c][1]
         IN  /\ c \in Clients /\ UNCHANGED server
             /\ m \in Deltas /\ m.row \in Rows /\ m.type = "delta"
             /\ 1 \in DOMAIN net[c] /\ Len(net[c]) \in Nat /\ DOMAIN net[c] = 1 .. Len(net[c])
             /\ local[c][m.row].hlc < m.hlc
             /\ \A r \in Rows : local'[c][r] = IF r = m.row THEN ApplyDelta(local[c][r], m) ELSE local[c][r]
             /\ local'[c] \in [Rows -> Rowed]
             /\ local'[c][m.row].v = m.v /\ local'[c][m.row].hlc = m.hlc
             /\ net'[c] \in Seq(Deltas) /\ DOMAIN net'[c] = 1 .. Len(net[c]) - 1
             /\ \A j \in 1 .. Len(net[c]) - 1 : net'[c][j] = net[c][j + 1]
<1> DEFINE m == net[c][1]
<1>0. c \in Clients
  BY DEF Readers
<1>1. net[c] \in Seq(Deltas) /\ net[c] # << >> /\ Head(net[c]) = m /\ net'[c] = Tail(net[c])
  BY <1>0 DEF ReceiveDelta, Deliver, ReaderTypes, ServerTypes
<1>2. /\ 1 \in DOMAIN net[c] /\ Len(net[c]) \in Nat /\ DOMAIN net[c] = 1 .. Len(net[c])
      /\ net'[c] \in Seq(Deltas) /\ DOMAIN net'[c] = 1 .. Len(net[c]) - 1
      /\ \A j \in 1 .. Len(net[c]) - 1 : net'[c][j] = net[c][j + 1]
  BY <1>1
<1>3. m \in Deltas
  BY <1>1, <1>2
<1>4. m.row \in Rows /\ m.type = "delta"
  BY <1>3 DEF Deltas
<1>5. local[c][m.row].hlc < m.hlc
  <2>1. 1 \in Coming(c, m.row)
    BY <1>2, <1>4 DEF Coming
  <2> QED BY <1>4, <2>1 DEF CacheIsWhatReadersHold
<1>6. local' = [local EXCEPT ![c][m.row] = ApplyDelta(@, m)] /\ UNCHANGED server
  BY <1>1 DEF ReceiveDelta, Deliver
<1>7. local[c] \in [Rows -> Rowed] /\ local[c][m.row] \in Rowed
  BY <1>4 DEF ReaderTypes
<1> HIDE DEF m
<1>8. /\ ApplyDelta(local[c][m.row], m) \in Rowed
      /\ ApplyDelta(local[c][m.row], m).v = m.v /\ ApplyDelta(local[c][m.row], m).hlc = m.hlc
  BY <1>3, <1>5, <1>7, NewerApplies
<1>9. local'[c] = [local[c] EXCEPT ![m.row] = ApplyDelta(@, m)]
  BY <1>0, <1>6 DEF ServerTypes
<1>10. /\ local'[c] \in [Rows -> Rowed]
       /\ \A r \in Rows : local'[c][r] = IF r = m.row THEN ApplyDelta(local[c][r], m) ELSE local[c][r]
  BY <1>4, <1>7, <1>8, <1>9
<1> QED BY <1>0, <1>2, <1>3, <1>4, <1>5, <1>6, <1>8, <1>10 DEF m

\* A broadcast's frames join those on the way to the client.
LEMMA Sent ==
  ASSUME BroadcastAssumption, ServerTypes, ReaderTypes, QueueOrder, NEW c \in Readers, SendDeltas(c)
  PROVE  LET s == SetToSeq(Diff(c))
             n == Len(net[c])
         IN  /\ lock[c] # << >> /\ ~sending[c] /\ sending'[c]
             /\ UNCHANGED <<local, lock, srv, clock, cache>>
             /\ n \in Nat /\ DOMAIN net[c] = 1 .. n /\ Len(s) \in Nat /\ DOMAIN s = 1 .. Len(s)
             /\ net'[c] \in Seq(Deltas) /\ DOMAIN net'[c] = 1 .. n + Len(s)
             /\ \A j \in 1 .. n : net'[c][j] = net[c][j]
             /\ \A k \in 1 .. Len(s) : n + k \in DOMAIN net'[c] /\ net'[c][n + k] = s[k]
             /\ \A j \in DOMAIN net'[c] : j \in 1 .. n \/ \E k \in 1 .. Len(s) : j = n + k
<1> DEFINE s == SetToSeq(Diff(c))
<1>0. c \in Clients
  BY DEF Readers
<1>1. /\ lock[c] # << >> /\ ~sending[c] /\ sending'[c] /\ UNCHANGED <<local, lock, srv, clock, cache>>
      /\ net'[c] = net[c] \o s
  BY <1>0 DEF SendDeltas, Sectioned, client, ServerTypes
<1>2. s \in Seq(Deltas)
  BY <1>0, <1>1, Frames
<1>3. net[c] \in Seq(Deltas)
  BY DEF ReaderTypes
<1> HIDE DEF s
<1>4. /\ net'[c] \in Seq(Deltas) /\ Len(net'[c]) = Len(net[c]) + Len(s)
      /\ Len(net[c]) \in Nat /\ DOMAIN net[c] = 1 .. Len(net[c])
      /\ Len(s) \in Nat /\ DOMAIN s = 1 .. Len(s)
  BY <1>1, <1>2, <1>3
<1>5. DOMAIN net'[c] = 1 .. Len(net[c]) + Len(s)
  BY <1>4
<1>6. \A j \in 1 .. Len(net[c]) : net'[c][j] = net[c][j]
  BY <1>1, <1>2, <1>3, <1>4
<1>7. \A k \in 1 .. Len(s) : Len(net[c]) + k \in DOMAIN net'[c] /\ net'[c][Len(net[c]) + k] = s[k]
  BY <1>1, <1>2, <1>3, <1>4, <1>5
<1>8. \A j \in DOMAIN net'[c] : j \in 1 .. Len(net[c]) \/ \E k \in 1 .. Len(s) : j = Len(net[c]) + k
  <2> SUFFICES ASSUME NEW j \in DOMAIN net'[c], j \notin 1 .. Len(net[c])
               PROVE  \E k \in 1 .. Len(s) : j = Len(net[c]) + k
    OBVIOUS
  <2>1. j - Len(net[c]) \in 1 .. Len(s) /\ j = Len(net[c]) + (j - Len(net[c]))
    BY <1>4, <1>5
  <2> QED BY <2>1
<1> QED BY <1>1, <1>4, <1>5, <1>6, <1>7, <1>8 DEF s

\* A section that sends nothing leaves the frames on their way as they are.
LEMMA Unsent ==
  ASSUME ~Partial, ServerTypes, ReaderTypes, QueueOrder, NEW c \in Readers,
         NothingNew(c) \/ SendFails(c) \/ Commit(c)
  PROVE  /\ c \in Clients /\ lock[c] # << >> /\ Leave(c) /\ ~sending'[c]
         /\ net'[c] = net[c] /\ local' = local /\ srv' = srv /\ clock' = clock /\ db' = db
         /\ ~Commit(c) => ~sending[c] /\ cache' = cache
         /\ Commit(c) => cache'[c] = Result(c) /\ ~missed'[c]
         /\ SendFails(c) => missed'[c]
<1>0. c \in Clients
  BY DEF Readers
<1>1. CASE NothingNew(c)
  BY <1>0, <1>1 DEF NothingNew, Sectioned, client, ServerTypes, Commit, SendFails
<1>2. CASE Commit(c)
  BY <1>0, <1>2 DEF Commit, Sectioned, client, ServerTypes, QueueOrder, SendFails
<1>3. CASE SendFails(c)
  <2>1. PICK n \in 0 .. 0 : net' = [net EXCEPT ![c] = @ \o SubSeq(SetToSeq(Diff(c)), 1, n)]
    BY <1>3 DEF SendFails
  <2>2. SubSeq(SetToSeq(Diff(c)), 1, n) = << >>
    BY <2>1
  <2>3. net[c] \in Seq(Deltas)
    BY DEF ReaderTypes
  <2>4. net[c] \o << >> = net[c]
    BY <2>3
  <2>5. net'[c] = net[c]
    BY <1>0, <2>1, <2>2, <2>4 DEF ServerTypes
  <2> QED BY <1>0, <1>3, <2>5 DEF SendFails, Sectioned, client, ServerTypes, Commit
<1> QED BY <1>1, <1>2, <1>3

\* A reader keeps sending nothing and receiving deltas only.
LEMMA ReaderTypesNext ==
  ASSUME BroadcastAssumption, InOrder, ~Partial, ServerTypes, ReaderTypes, QueueOrder,
         CacheIsWhatReadersHold, [Next]_vars
  PROVE  ReaderTypes'
<1> SUFFICES ASSUME NEW c \in Readers
             PROVE  (srv[c] = Idle /\ up[c] = << >> /\ local[c] \in [Rows -> Rowed] /\ net[c] \in Seq(Deltas))'
  BY DEF ReaderTypes, Readers
<1>0. c \in Clients
  BY DEF Readers
<1>1. srv'[c] = srv[c] /\ up'[c] = up[c]
  <2> USE DEF server, client, budget, vars
  <2>1. ASSUME NEW d \in Clients \ {c}, Write(d) \/ Handle(d)
        PROVE  srv'[c] = srv[c] /\ up'[c] = up[c]
    <3>1. CASE Write(d)
      BY <1>0, <2>1, <3>1 DEF Write, ServerTypes
    <3>2. CASE Decide(d)
      BY <1>0, <2>1, <3>2 DEF Decide, ServerTypes
    <3>3. CASE Settle(d) \/ ReadDb(d) \/ FanOut(d) \/ Acknowledge(d)
      BY <1>0, <2>1, <3>3 DEF Settle, ReadDb, FanOut, Acknowledge, ServerTypes
    <3> QED BY <2>1, <3>1, <3>2, <3>3, NoBootstrap DEF Handle
  <2>2. ASSUME NEW d \in Clients, Receive(d) \/ Section(d)
        PROVE  srv'[c] = srv[c] /\ up'[c] = up[c]
    BY <2>2 DEF Receive, ReceiveDelta, ReceiveSnapshot, ReceiveAck, ReceiveReject, Deliver,
       Section, NothingNew, SendDeltas, SendFails, Commit
  <2>3. CASE UNCHANGED vars
    BY <2>3
  <2> QED BY <1>0, <2>1, <2>2, <2>3, NoBootstrap, ReaderActs DEF Next, Handle
<1>2. local'[c] \in [Rows -> Rowed] /\ net'[c] \in Seq(Deltas)
  <2>1. CASE Apart(c)
    BY <2>1 DEF Apart, ReaderTypes
  <2>2. CASE ReceiveDelta(c)
    BY <2>2, Received
  <2>3. CASE SendDeltas(c)
    BY <2>3, Sent DEF ReaderTypes
  <2>4. CASE NothingNew(c) \/ SendFails(c) \/ Commit(c)
    BY <2>4, Unsent DEF ReaderTypes
  <2> QED BY <2>1, <2>2, <2>3, <2>4, ReaderSteps DEF Section
<1> QED BY <1>1, <1>2 DEF ReaderTypes

\* What a reader was told of is still older than what it is to be told.
LEMMA NewsIsNewNext ==
  ASSUME BroadcastAssumption, InOrder, ~Partial, ServerTypes, ReaderTypes, StampOrder, QueueOrder, NewsIsNew,
         CacheIsWhatReadersHold, Effect, [Next]_vars
  PROVE  NewsIsNew'
<1> SUFFICES ASSUME NEW c \in Readers, NEW h \in Heard(c)'
             PROVE  /\ h <= 2 * clock'
                    /\ \A d \in Clients : Unread(d)' => h < srv'[d].stamp
                    /\ \A i \in DOMAIN lock'[c] : i > 1 \/ ~sending'[c] => h < srv'[lock'[c][i]].stamp
  BY DEF NewsIsNew, Readers
<1>0. /\ c \in Clients
      /\ \A k \in Heard(c) : k \in Nat
  <2>1. local[c] \in [Rows -> Rowed] /\ net[c] \in Seq(Deltas)
    BY DEF ReaderTypes
  <2> QED BY <2>1 DEF Readers, Heard, Rowed, Held, Deltas
<1>1. /\ clock \in Nat /\ clock' \in Nat /\ clock <= clock'
      /\ \A d \in Clients : Unread(d) => srv[d].stamp \in Nat
      /\ \A i \in DOMAIN lock[c] : srv[lock[c][i]].stamp \in Nat
  <2>1. \A d \in Clients : srv[d].stage \in {"query", "result", "fanout"} => srv[d].stamp \in Nat
    BY CallForms DEF ServerTypes
  <2>2. \A i \in DOMAIN lock[c] : srv[lock[c][i]].stage = "fanout"
    BY <1>0 DEF QueueOrder, Stage
  <2> QED BY <1>0, <2>1, <2>2, StampsStay DEF Unread
<1>2. ASSUME h \in Heard(c)
      PROVE  /\ h \in Nat /\ h <= 2 * clock'
             /\ \A d \in Clients : Unread(d)' => h < srv'[d].stamp
             /\ \A i \in DOMAIN lock[c] : i > 1 \/ ~sending[c] =>
                  h < srv[lock[c][i]].stamp /\ h < srv'[lock[c][i]].stamp
  <2>1. h \in Nat /\ h <= 2 * clock /\ \A d \in Clients : Unread(d) => h < srv[d].stamp
    BY <1>0, <1>2 DEF NewsIsNew
  <2>2. h <= 2 * clock'
    BY <1>1, <2>1
  <2>3. \A d \in Clients : Unread(d)' => h < srv'[d].stamp
    BY <1>1, <2>1, StampsStay
  <2>4. \A i \in DOMAIN lock[c] : i > 1 \/ ~sending[c] =>
          h < srv[lock[c][i]].stamp /\ h < srv'[lock[c][i]].stamp
    BY <1>0, <1>2, StampsStay DEF NewsIsNew
  <2> QED BY <2>1, <2>2, <2>3, <2>4
<1>3. ASSUME Apart(c), lock'[c] = lock[c]
      PROVE  h \in Heard(c) /\ \A i \in DOMAIN lock'[c] : i > 1 \/ ~sending'[c] => h < srv'[lock'[c][i]].stamp
  <2>1. h \in Heard(c)
    BY <1>3 DEF Apart, Heard
  <2> QED BY <1>2, <1>3, <2>1 DEF Apart
<1>4. ASSUME Apart(c), NEW d \in Clients \ {c}, Fans(d)
      PROVE  h \in Heard(c) /\ \A i \in DOMAIN lock'[c] : i > 1 \/ ~sending'[c] => h < srv'[lock'[c][i]].stamp
  <2>1. h \in Heard(c)
    BY <1>4 DEF Apart, Heard
  <2>2. lock'[c] = Append(lock[c], d) /\ lock[c] \in Seq(Clients) /\ sending'[c] = sending[c]
    BY <1>0, <1>4 DEF Apart, Fans, ServerTypes
  <2>3. /\ DOMAIN lock'[c] = 1 .. Len(lock[c]) + 1 /\ DOMAIN lock[c] = 1 .. Len(lock[c])
        /\ Len(lock[c]) \in Nat
        /\ \A i \in DOMAIN lock[c] : lock'[c][i] = lock[c][i]
        /\ lock'[c][Len(lock[c]) + 1] = d
    BY <2>2
  <2>4. h < srv'[d].stamp
    BY <2>1, <1>4 DEF Fans, Unread, Stage, NewsIsNew
  <2> QED BY <1>2, <2>1, <2>2, <2>3, <2>4
<1>5. ASSUME ReceiveDelta(c)
      PROVE  h \in Heard(c) /\ \A i \in DOMAIN lock'[c] : i > 1 \/ ~sending'[c] => h < srv'[lock'[c][i]].stamp
  <2> DEFINE m == net[c][1]
  <2>1. h \in Heard(c)
    <3>1. /\ \A r \in Rows : local'[c][r] = IF r = m.row THEN ApplyDelta(local[c][r], m) ELSE local[c][r]
          /\ m.row \in Rows /\ local'[c][m.row].hlc = m.hlc
          /\ 1 \in DOMAIN net[c] /\ Len(net[c]) \in Nat /\ DOMAIN net[c] = 1 .. Len(net[c])
          /\ DOMAIN net'[c] = 1 .. Len(net[c]) - 1
          /\ \A j \in 1 .. Len(net[c]) - 1 : net'[c][j] = net[c][j + 1]
      BY <1>5, Received
    <3> HIDE DEF m
    <3>2. m.hlc \in Heard(c)
      BY <3>1 DEF Heard, m
    <3>3. \A r \in Rows : local'[c][r].hlc \in Heard(c)
      BY <3>1, <3>2 DEF Heard
    <3>4. \A j \in DOMAIN net'[c] : net'[c][j].hlc \in Heard(c)
      <4>1. \A j \in DOMAIN net'[c] : j + 1 \in DOMAIN net[c] /\ net'[c][j] = net[c][j + 1]
        BY <3>1
      <4> QED BY <4>1 DEF Heard
    <3> QED BY <3>3, <3>4 DEF Heard
  <2>2. lock' = lock /\ sending' = sending
    BY <1>5, Received DEF server
  <2> QED BY <1>2, <2>1, <2>2
<1>6. ASSUME NothingNew(c) \/ SendFails(c) \/ Commit(c)
      PROVE  h \in Heard(c) /\ \A i \in DOMAIN lock'[c] : i > 1 \/ ~sending'[c] => h < srv'[lock'[c][i]].stamp
  <2>1. h \in Heard(c)
    BY <1>6, Unsent DEF Heard
  <2>2. \A i \in DOMAIN lock'[c] : /\ lock'[c][i] = lock[c][i + 1] /\ i + 1 \in DOMAIN lock[c]
                                   /\ i + 1 > 1
    BY <1>0, <1>6, Unsent, Left
  <2> QED BY <1>2, <2>1, <2>2
<1>7. ASSUME SendDeltas(c)
      PROVE  /\ h <= 2 * clock'
             /\ \A d \in Clients : Unread(d)' => h < srv'[d].stamp
             /\ \A i \in DOMAIN lock'[c] : i > 1 \/ ~sending'[c] => h < srv'[lock'[c][i]].stamp
  <2>1. lock[c] # << >> /\ ~sending[c] /\ sending'[c] /\ UNCHANGED <<local, lock, srv, clock>>
    BY <1>7, Sent
  <2>2. CASE h \in Heard(c)
    BY <1>2, <2>1, <2>2
  <2>3. CASE h = Stamp(c)
    <3>1. /\ Head(lock[c]) \in Clients /\ Head(lock[c]) = lock[c][1] /\ 1 \in DOMAIN lock[c]
          /\ Stage(Head(lock[c]), "fanout") /\ Stamp(c) \in Nat
      BY <1>0, <2>1, HeadResult
    <3>2. h <= 2 * clock
      BY <2>3, <3>1 DEF StampOrder, Stamped, Stage, Stamp
    <3>3. \A d \in Clients : Unread(d) => h < srv[d].stamp
      BY <2>3, <3>1 DEF StampOrder, Stamped, Unread, Stage, Stamp
    <3>4. \A i \in DOMAIN lock[c] : i > 1 => h < srv[lock[c][i]].stamp
      BY <1>0, <2>3, <3>1 DEF QueueOrder, Stamp
    <3> QED BY <2>1, <3>2, <3>3, <3>4 DEF Unread
  <2>4. h \in Heard(c) \/ h = Stamp(c)
    <3>1. PICK k : \/ k \in Rows /\ h = local'[c][k].hlc
                   \/ k \in DOMAIN net'[c] /\ h = net'[c][k].hlc
      BY DEF Heard
    <3>2. CASE k \in Rows /\ h = local'[c][k].hlc
      BY <2>1, <3>2 DEF Heard
    <3>3. CASE k \in DOMAIN net'[c] /\ h = net'[c][k].hlc
      <4>1. CASE k \in 1 .. Len(net[c])
        BY ZenonT(40), <1>7, <3>3, <4>1, Sent DEF Heard
      <4>2. CASE \E i \in 1 .. Len(SetToSeq(Diff(c))) : k = Len(net[c]) + i
        <5> DEFINE s == SetToSeq(Diff(c))
        <5>1. PICK i \in 1 .. Len(s) : k = Len(net[c]) + i
          BY <4>2
        <5>2. net'[c][k] = s[i] /\ DOMAIN s = 1 .. Len(s)
          BY <1>7, <5>1, Sent
        <5>3. s[i].hlc = Stamp(c)
          BY <1>0, <2>1, <5>2, Frames
        <5> QED BY <3>3, <5>2, <5>3
      <4> QED BY <1>7, <3>3, <4>1, <4>2, Sent
    <3> QED BY <3>1, <3>2, <3>3
  <2> QED BY <2>2, <2>3, <2>4
<1> QED BY <1>2, <1>3, <1>4, <1>5, <1>6, <1>7, ReaderSteps DEF Section

\* What the server believes of a row of a reader.
Believed(c, r) == (IF sending[c] THEN Result(c) ELSE cache[c])[r]

\* What CacheIsWhatReadersHold says of one row of one client.
RowAgrees(c, r) ==
  /\ Coming(c, r) = {} => local[c][r].v = Believed(c, r)
  /\ \A j \in Coming(c, r) :
       /\ local[c][r].hlc < net[c][j].hlc
       /\ \A k \in Coming(c, r) : k < j => net[c][k].hlc < net[c][j].hlc
       /\ (\A k \in Coming(c, r) : k <= j) => net[c][j].v = Believed(c, r)

\* The server's belief of a reader's row stays true.
LEMMA CacheNext ==
  ASSUME BroadcastAssumption, InOrder, ~Partial, ServerTypes, ReaderTypes, StampOrder, QueueOrder, NewsIsNew,
         CacheIsWhatReadersHold, Effect, [Next]_vars
  PROVE  CacheIsWhatReadersHold'
<1> SUFFICES ASSUME NEW c \in Readers, NEW r \in Rows
             PROVE  RowAgrees(c, r)'
  BY DEF CacheIsWhatReadersHold, RowAgrees, Believed, Readers
<1>0. c \in Clients
  BY DEF Readers
<1>1. RowAgrees(c, r)
  BY DEF CacheIsWhatReadersHold, RowAgrees, Believed
<1>2. ASSUME Apart(c), lock'[c] = lock[c] \/ \E d \in Clients \ {c} : Fans(d)
      PROVE  RowAgrees(c, r)'
  <2>1. Coming(c, r)' = Coming(c, r)
    BY <1>2 DEF Apart, Coming
  <2>2. sending[c] => Head(lock'[c]) = lock[c][1] /\ Head(lock[c]) = lock[c][1] /\ 1 \in DOMAIN lock[c]
    <3> SUFFICES ASSUME sending[c]
                 PROVE  Head(lock'[c]) = lock[c][1] /\ Head(lock[c]) = lock[c][1] /\ 1 \in DOMAIN lock[c]
      OBVIOUS
    <3>1. lock[c] \in Seq(Clients) /\ lock[c] # << >>
      BY <1>0 DEF QueueOrder, ServerTypes
    <3>2. ASSUME NEW d \in Clients \ {c}, lock'[c] = Append(lock[c], d)
          PROVE  Head(lock'[c]) = lock[c][1]
      <4>1. Head(lock'[c]) = lock'[c][1] /\ lock'[c][1] = lock[c][1]
        BY <3>1, <3>2
      <4> QED BY <4>1
    <3> QED BY <1>0, <1>2, <3>1, <3>2 DEF Fans
  <2>3. sending[c] => Result(c)' = Result(c)
    BY <1>0, <2>2, StampsStay DEF Result
  <2>4. Believed(c, r)' = Believed(c, r)
    BY <1>2, <2>3 DEF Apart, Believed
  <2> QED BY <1>1, <1>2, <2>1, <2>4 DEF Apart, RowAgrees
<1>3. ASSUME ReceiveDelta(c)
      PROVE  RowAgrees(c, r)'
  <2> DEFINE m == net[c][1]
  <2>1. /\ 1 \in DOMAIN net[c] /\ Len(net[c]) \in Nat /\ DOMAIN net[c] = 1 .. Len(net[c])
        /\ DOMAIN net'[c] = 1 .. Len(net[c]) - 1
        /\ \A j \in 1 .. Len(net[c]) - 1 : net'[c][j] = net[c][j + 1]
        /\ m.type = "delta" /\ m.row \in Rows
        /\ local'[c][m.row].v = m.v /\ local'[c][m.row].hlc = m.hlc
        /\ r # m.row => local'[c][r] = local[c][r]
    BY <1>3, Received
  <2>2. Believed(c, r)' = Believed(c, r)
    BY <1>3, Received DEF server, Believed, Result
  <2>3. /\ Coming(c, r)' \subseteq 1 .. Len(net[c]) - 1 /\ Coming(c, r) \subseteq 1 .. Len(net[c])
        /\ \A j \in 1 .. Len(net[c]) - 1 : j \in Coming(c, r)' <=> j + 1 \in Coming(c, r)
    <3>1. \A j \in 1 .. Len(net[c]) - 1 : j + 1 \in DOMAIN net[c] /\ net'[c][j] = net[c][j + 1]
      BY <2>1
    <3> HIDE DEF m
    <3> QED BY <2>1, <3>1 DEF Coming
  <2>4. \A j \in Coming(c, r) : j \in Nat /\ (j = 1 \/ j - 1 \in Coming(c, r)')
    <3>1. \A j \in 1 .. Len(net[c]) : j = 1 \/ (j - 1 \in 1 .. Len(net[c]) - 1 /\ (j - 1) + 1 = j)
      BY <2>1
    <3> QED BY <2>3, <3>1
  <2>5. \A j \in Coming(c, r)' : j \in Nat /\ j + 1 \in Coming(c, r) /\ net'[c][j] = net[c][j + 1]
    BY <2>1, <2>3
  <2> HIDE DEF m
  <2>6. ASSUME NEW j \in Coming(c, r)'
        PROVE  /\ \A k \in Coming(c, r)' : k < j => net'[c][k].hlc < net'[c][j].hlc
               /\ (\A k \in Coming(c, r)' : k <= j) => net'[c][j].v = Believed(c, r)'
    <3>1. \A k \in Coming(c, r)' : k < j => net'[c][k].hlc < net'[c][j].hlc
      BY <1>1, <2>5 DEF RowAgrees
    <3>2. (\A k \in Coming(c, r)' : k <= j) => \A k \in Coming(c, r) : k <= j + 1
      BY <2>4, <2>5
    <3> QED BY <1>1, <2>2, <2>5, <3>1, <3>2 DEF RowAgrees
  <2>7. CASE r = m.row
    <3>1. 1 \in Coming(c, r)
      BY <2>1, <2>7 DEF Coming, m
    <3>2. Coming(c, r)' = {} => local'[c][r].v = Believed(c, r)'
      <4>1. Coming(c, r)' = {} => \A k \in Coming(c, r) : k <= 1
        BY <2>4
      <4> QED BY <1>1, <2>1, <2>2, <2>7, <3>1, <4>1 DEF RowAgrees, m
    <3>3. \A j \in Coming(c, r)' : local'[c][r].hlc < net'[c][j].hlc
      <4>1. \A j \in Coming(c, r)' : 1 < j + 1
        BY <2>1, <2>3
      <4> QED BY <1>1, <2>1, <2>5, <2>7, <3>1, <4>1 DEF RowAgrees, m
    <3> QED BY <2>6, <3>2, <3>3 DEF RowAgrees
  <2>8. CASE r # m.row
    <3>1. 1 \notin Coming(c, r)
      BY <2>8 DEF Coming, m
    <3>2. Coming(c, r)' = {} => local'[c][r].v = Believed(c, r)'
      <4>1. Coming(c, r)' = {} => Coming(c, r) = {}
        BY <2>4, <3>1
      <4> QED BY <1>1, <2>1, <2>2, <2>8, <4>1 DEF RowAgrees
    <3>3. \A j \in Coming(c, r)' : local'[c][r].hlc < net'[c][j].hlc
      BY <1>1, <2>1, <2>5, <2>8 DEF RowAgrees
    <3> QED BY <2>6, <3>2, <3>3 DEF RowAgrees
  <2> QED BY <2>7, <2>8
<1>4. ASSUME NothingNew(c) \/ SendFails(c) \/ Commit(c)
      PROVE  RowAgrees(c, r)'
  <2>1. local' = local /\ net'[c] = net[c] /\ ~sending'[c]
    BY <1>4, Unsent
  <2>2. Coming(c, r)' = Coming(c, r)
    BY <2>1 DEF Coming
  <2>3. Believed(c, r)' = Believed(c, r)
    BY <1>4, <2>1, Unsent DEF Believed, Commit
  <2> QED BY <1>1, <2>1, <2>2, <2>3 DEF RowAgrees
<1>5. ASSUME SendDeltas(c)
      PROVE  RowAgrees(c, r)'
  <2> DEFINE s == SetToSeq(Diff(c))
             n == Len(net[c])
  <2>1. /\ lock[c] # << >> /\ ~sending[c] /\ sending'[c] /\ UNCHANGED <<local, lock, srv, clock, cache>>
        /\ n \in Nat /\ DOMAIN net[c] = 1 .. n /\ Len(s) \in Nat /\ DOMAIN s = 1 .. Len(s)
        /\ \A j \in 1 .. n : net'[c][j] = net[c][j]
        /\ \A k \in 1 .. Len(s) : n + k \in DOMAIN net'[c] /\ net'[c][n + k] = s[k]
        /\ \A j \in DOMAIN net'[c] : j \in 1 .. n \/ \E k \in 1 .. Len(s) : j = n + k
        /\ DOMAIN net'[c] = 1 .. n + Len(s)
    BY <1>5, Sent
  <2>2. /\ \A j \in DOMAIN s : /\ s[j].type = "delta" /\ s[j].row \in Rows
                               /\ s[j].hlc = Stamp(c) /\ s[j].v = Result(c)[s[j].row]
        /\ cache[c][r] # Result(c)[r] => \E j \in DOMAIN s : s[j].row = r
        /\ \A j, k \in DOMAIN s : s[j].row = s[k].row => j = k
    BY ZenonT(40), <1>0, <2>1, Frames
  <2>3. /\ Believed(c, r) = cache[c][r] /\ Believed(c, r)' = Result(c)[r]
    BY <2>1 DEF Believed, Result
  <2>4. \A h \in Heard(c) : h < Stamp(c)
    <3>1. 1 \in DOMAIN lock[c] /\ Head(lock[c]) = lock[c][1]
      BY <1>0, <2>1, HeadResult
    <3> QED BY <2>1, <3>1 DEF NewsIsNew, Stamp
  <2>5. local[c][r].hlc \in Heard(c) /\ \A j \in DOMAIN net[c] : net[c][j].hlc \in Heard(c)
    BY DEF Heard
  <2> HIDE DEF s, n
  <2>6. /\ \A j \in Coming(c, r) : j \in 1 .. n /\ j \in Coming(c, r)'
        /\ \A j \in Coming(c, r)' : j \in 1 .. n => j \in Coming(c, r)
    BY SMTT(30), <2>1 DEF Coming
  <2>7. CASE \E k \in DOMAIN s : s[k].row = r
    <3>1. PICK k \in DOMAIN s : s[k].row = r
      BY <2>7
    <3>2. n + k \in Coming(c, r)' /\ net'[c][n + k] = s[k]
      BY <2>1, <2>2, <3>1 DEF Coming
    <3>3. \A j \in Coming(c, r)' : j \in Coming(c, r) \/ j = n + k
      <4> SUFFICES ASSUME NEW j \in Coming(c, r)', j \notin 1 .. n
                   PROVE  j = n + k
        BY <2>6
      <4>1. PICK i \in 1 .. Len(s) : j = n + i
        BY <2>1 DEF Coming
      <4>2. s[i].row = r
        BY <2>1, <4>1 DEF Coming
      <4> QED BY <2>1, <2>2, <3>1, <4>1, <4>2
    <3>4. /\ net'[c][n + k].hlc = Stamp(c) /\ net'[c][n + k].v = Result(c)[r]
      BY <2>2, <3>1, <3>2
    <3>5. \A j \in Coming(c, r) : /\ net'[c][j] = net[c][j] /\ j < n + k
                                  /\ net[c][j].hlc < Stamp(c)
      BY <2>1, <2>4, <2>5, <2>6, <3>1
    <3>6. k \in Nat
      BY <2>1, <3>1
    <3>7. ASSUME NEW j \in Coming(c, r)'
          PROVE  /\ local'[c][r].hlc < net'[c][j].hlc
                 /\ \A i \in Coming(c, r)' : i < j => net'[c][i].hlc < net'[c][j].hlc
                 /\ (\A i \in Coming(c, r)' : i <= j) => net'[c][j].v = Believed(c, r)'
      <4>1. CASE j = n + k
        <5>1. local'[c][r].hlc < net'[c][j].hlc
          BY <2>1, <2>4, <2>5, <3>4, <4>1
        <5>2. \A i \in Coming(c, r)' : i < j => i \in Coming(c, r)
          BY <2>1, <3>3, <3>6, <4>1
        <5>3. \A i \in Coming(c, r)' : i < j => net'[c][i].hlc < net'[c][j].hlc
          BY <3>4, <3>5, <4>1, <5>2
        <5> QED BY <2>3, <3>4, <4>1, <5>1, <5>3
      <4>2. CASE j # n + k
        <5>1. j \in Coming(c, r) /\ j < n + k
          BY <3>3, <3>5, <4>2
        <5>2. \A i \in Coming(c, r)' : i < j => i \in Coming(c, r)
          BY <2>1, <2>6, <3>3, <3>6, <5>1
        <5>3. ~(\A i \in Coming(c, r)' : i <= j)
          BY <2>1, <2>6, <3>2, <3>6, <5>1
        <5> QED BY <1>1, <2>1, <3>5, <5>1, <5>2, <5>3 DEF RowAgrees
      <4> QED BY <4>1, <4>2
    <3> QED BY <3>2, <3>7 DEF RowAgrees
  <2>8. CASE ~\E k \in DOMAIN s : s[k].row = r
    <3>1. \A j \in Coming(c, r)' : j \in Coming(c, r)
      <4> SUFFICES ASSUME NEW j \in Coming(c, r)', j \notin 1 .. n
                   PROVE  FALSE
        BY <2>6
      <4>1. PICK i \in 1 .. Len(s) : j = n + i
        BY <2>1 DEF Coming
      <4> QED BY <2>1, <2>8, <4>1 DEF Coming
    <3>2. Believed(c, r)' = Believed(c, r)
      BY <2>2, <2>3, <2>8
    <3>3. \A j \in Coming(c, r) : net'[c][j] = net[c][j]
      BY <2>1, <2>6
    <3> QED BY <1>1, <2>1, <2>6, <3>1, <3>2, <3>3 DEF RowAgrees
  <2> QED BY <2>7, <2>8
<1> QED BY <1>2, <1>3, <1>4, <1>5, ReaderSteps DEF Section

\* The last broadcast on its way to a reader still carries the database.
LEMMA LastIsDbNext ==
  ASSUME BroadcastAssumption, InOrder, ~Partial, ServerTypes, ReaderTypes, StampOrder, QueueOrder, LastIsDb,
         Effect, [Next]_vars
  PROVE  LastIsDb'
<1> USE DEF Stage
<1> DEFINE Newest(d) == \A e \in Clients : Stage(e, "result") => srv[e].stamp <= srv[d].stamp
<1> SUFFICES ASSUME AllRead'
             PROVE  /\ \A d \in Clients : Stage(d, "result")' /\ Newest(d)' => srv'[d].rows = db'
                    /\ \A c \in Readers :
                         (\A d \in Clients : ~Stage(d, "result")') =>
                           IF lock'[c] = << >> THEN missed'[c] \/ cache'[c] = db'
                           ELSE srv'[lock'[c][Len(lock'[c])]].rows = db'
  BY DEF LastIsDb, Readers
<1>0. \A d \in Clients : Stamped(d) => srv[d].stamp \in Nat
  BY CallForms DEF ServerTypes, Stamped
<1>1. ~(\E d \in Clients : Mutates(d) \/ Stamps(d))
  BY DEF Mutates, Stamps, AllRead
<1>2. ASSUME NEW d \in Clients, Stage(d, "result")', Newest(d)'
      PROVE  srv'[d].rows = db'
  <2>1. CASE Stays
    BY <1>2, <2>1 DEF Stays, AllRead, LastIsDb
  <2>2. ASSUME NEW c \in Clients, Reads(c)
        PROVE  srv'[d].rows = db'
    <3>1. CASE d = c
      BY <2>2, <3>1 DEF Reads
    <3>2. CASE d # c
      <4>1. /\ srv'[d] = srv[d] /\ srv'[c].stamp = srv[c].stamp /\ srv'[c].stage = "result"
            /\ Stage(c, "query")
        BY <2>2, <3>2 DEF Reads, Others
      <4>2. srv[d].stamp < srv[c].stamp
        BY <1>2, <3>2, <4>1 DEF StampOrder, Stamped
      <4>3. srv[c].stamp <= srv[d].stamp
        BY <1>2, <4>1
      <4> QED BY <1>0, <1>2, <4>1, <4>2, <4>3 DEF Stamped
    <3> QED BY <3>1, <3>2
  <2>3. ASSUME NEW c \in Clients, Fans(c)
        PROVE  srv'[d].rows = db'
    <3>1. d # c /\ srv'[d] = srv[d] /\ \A e \in Clients \ {c} : srv'[e] = srv[e]
      BY <1>2, <2>3 DEF Fans, Others
    <3>2. srv[c].stamp <= srv[d].stamp
      BY <1>2, <2>3, <3>1 DEF Fans, Unread
    <3>3. Stage(d, "result") /\ Newest(d)
      BY <1>2, <3>1, <3>2
    <3>4. AllRead
      BY <2>3, <3>1 DEF Fans, AllRead
    <3> QED BY <2>3, <3>1, <3>3, <3>4 DEF Fans, LastIsDb
  <2>4. ASSUME NEW c \in Clients, Ends(c)
        PROVE  srv'[d].rows = db'
    <3>1. d # c /\ \A e \in Clients \ {c} : srv'[e] = srv[e]
      BY <1>2, <2>4 DEF Ends, Others
    <3>2. Stage(d, "result") /\ Newest(d) /\ AllRead
      BY <1>2, <2>4, <3>1 DEF Ends, AllRead
    <3> QED BY <2>4, <3>1, <3>2 DEF Ends, LastIsDb
  <2> QED BY <1>1, <2>1, <2>2, <2>3, <2>4 DEF Effect
<1>3. ASSUME NEW c \in Readers, \A d \in Clients : ~Stage(d, "result")'
      PROVE  IF lock'[c] = << >> THEN missed'[c] \/ cache'[c] = db'
             ELSE srv'[lock'[c][Len(lock'[c])]].rows = db'
  <2>0. c \in Clients /\ lock[c] \in Seq(Clients)
    BY DEF Readers, ServerTypes
  <2> DEFINE last == lock[c][Len(lock[c])]
  <2>1. lock[c] # << >> => srv'[last] = srv[last]
    <3>1. lock[c] # << >> => Len(lock[c]) \in DOMAIN lock[c]
      BY <2>0
    <3> QED BY <2>0, <3>1, StampsStay
  <2>2. ~\E d \in Clients : Reads(d)
    BY <1>3 DEF Reads
  <2>3. ASSUME NEW d \in Clients, Fans(d), d # c, Apart(c)
        PROVE  lock'[c] # << >> /\ srv'[lock'[c][Len(lock'[c])]].rows = db'
    <3>1. lock'[c] # << >> /\ lock'[c][Len(lock'[c])] = d
      <4>1. lock'[c] = Append(lock[c], d)
        BY <2>0, <2>3 DEF Fans
      <4> QED BY <2>0, <4>1
    <3>2. \A e \in Clients \ {d} : srv'[e] = srv[e]
      BY <2>3 DEF Fans, Others
    <3>3. AllRead /\ Stage(d, "result")
      BY <2>3, <3>2 DEF Fans, AllRead
    <3>4. \A e \in Clients : Stage(e, "result") => e = d
      BY <1>3, <3>2
    <3>5. Newest(d)
      BY <1>0, <3>3, <3>4 DEF Stamped
    <3> QED BY <2>3, <3>1, <3>3, <3>5 DEF Fans, LastIsDb
  <2>4. ASSUME ~\E d \in Clients : Fans(d)
        PROVE  /\ db' = db
               /\ IF lock[c] = << >> THEN missed[c] \/ cache[c] = db ELSE srv[last].rows = db
    <3>1. AllRead /\ db' = db /\ \A d \in Clients : ~Stage(d, "result")
      <4>1. CASE Stays
        BY <1>3, <4>1 DEF Stays, AllRead
      <4>2. ASSUME NEW d \in Clients, Ends(d)
            PROVE  AllRead /\ db' = db /\ \A e \in Clients : ~Stage(e, "result")
        <5>1. \A e \in Clients \ {d} : srv'[e] = srv[e]
          BY <4>2 DEF Ends, Others
        <5> QED BY <1>3, <4>2, <5>1 DEF Ends, AllRead
      <4> QED BY <1>1, <2>2, <2>4, <4>1, <4>2 DEF Effect
    <3> QED BY <3>1 DEF LastIsDb
  <2>5. ASSUME Apart(c), lock'[c] = lock[c], ~\E d \in Clients : Fans(d)
        PROVE  IF lock'[c] = << >> THEN missed'[c] \/ cache'[c] = db'
               ELSE srv'[lock'[c][Len(lock'[c])]].rows = db'
    BY <2>1, <2>4, <2>5 DEF Apart
  <2>6. ASSUME ReceiveDelta(c) \/ SendDeltas(c), ~\E d \in Clients : Fans(d)
        PROVE  IF lock'[c] = << >> THEN missed'[c] \/ cache'[c] = db'
               ELSE srv'[lock'[c][Len(lock'[c])]].rows = db'
    <3>1. lock' = lock /\ missed' = missed /\ cache' = cache
      BY <2>6 DEF ReceiveDelta, Deliver, SendDeltas, server
    <3> QED BY <2>1, <2>4, <2>6, <3>1
  <2>7. ASSUME NothingNew(c) \/ SendFails(c) \/ Commit(c), ~\E d \in Clients : Fans(d)
        PROVE  IF lock'[c] = << >> THEN missed'[c] \/ cache'[c] = db'
               ELSE srv'[lock'[c][Len(lock'[c])]].rows = db'
    <3>1. lock[c] # << >> /\ Leave(c)
      BY <2>7, Unsent
    <3>2. CASE lock'[c] # << >>
      <4>1. lock'[c][Len(lock'[c])] = last
        BY <2>0, <3>1, <3>2, Left
      <4> QED BY <2>1, <2>4, <2>7, <3>1, <3>2, <4>1
    <3>3. CASE lock'[c] = << >>
      <4>1. Len(lock[c]) = 1 /\ Head(lock[c]) = last
        <5>1. Len(lock'[c]) = Len(lock[c]) - 1 /\ Len(lock[c]) \in Nat
          BY <2>0, <3>1, Left
        <5>2. Len(lock[c]) = 1
          BY <3>3, <5>1
        <5> QED BY <2>0, <3>1, <5>2
      <4>2. Result(c) = db /\ db' = db /\ cache[c] \in Table /\ Result(c) \in Table
        BY <2>0, <2>4, <2>7, <3>1, <4>1, HeadResult DEF Result, ServerTypes
      <4>3. missed'[c] \/ cache'[c] = db'
        <5>1. CASE SendFails(c)
          BY <5>1, Unsent
        <5>2. CASE Commit(c)
          BY <4>2, <5>2, Unsent
        <5>3. CASE NothingNew(c)
          <6>1. \A r \in Rows : cache[c][r] = Result(c)[r]
            BY <5>3 DEF NothingNew, Diff
          <6>2. cache[c] = Result(c)
            BY <4>2, <6>1 DEF Table
          <6>3. cache' = cache
            BY <5>3 DEF NothingNew
          <6> QED BY <4>2, <6>2, <6>3
        <5> QED BY <2>7, <5>1, <5>2, <5>3
      <4> QED BY <3>3, <4>3
    <3> QED BY <3>2, <3>3
  <2>8. ASSUME NEW d \in Clients, Fans(d)
        PROVE  d # c /\ Apart(c)
    <3>1. srv[c].stage = "idle"
      BY DEF ReaderTypes, Idle
    <3>2. srv'[d] # srv[d]
      BY <2>8 DEF Fans
    <3>3. ~ReceiveDelta(c) /\ ~Section(c)
      BY <3>2 DEF ReceiveDelta, Deliver, server, Section, NothingNew, SendDeltas, SendFails, Commit
    <3> QED BY <2>8, <3>1, <3>3, ReaderSteps DEF Fans
  <2> QED BY <2>3, <2>5, <2>6, <2>7, <2>8, ReaderSteps DEF Section
<1> QED BY <1>2, <1>3

-----------------------------------------------------------------------------
(* The theorems.                                                           *)

\* Every client has bootstrapped: what it holds is the database.
LEMMA InitReaders ==
  ASSUME BroadcastAssumption, Bootstraps = 0, Init
  PROVE  ReadersInv
<1> USE DEF Init
<1>1. db \in Table
  <2>1. PICK there \in There :
          db = [r \in Rows |-> IF r \in there THEN CHOOSE v \in Vals : TRUE ELSE NoRow]
    OBVIOUS
  <2>2. (CHOOSE v \in Vals : TRUE) \in Content
    BY BroadcastAssumption DEF BroadcastAssumption, Content
  <2> QED BY <2>1, <2>2 DEF Table, Content
<1>2. ServerTypes
  BY <1>1 DEF ServerTypes, Calls
<1>3. ASSUME NEW c \in Readers
      PROVE  /\ c \in Clients /\ local[c] = Snapped(db, 2) /\ net[c] = << >> /\ lock[c] = << >>
             /\ \A r \in Rows : local[c][r] \in Rowed /\ local[c][r].v = db[r] /\ local[c][r].hlc \in {0, 2}
  <2>1. c \in Clients /\ local[c] = Snapped(db, 2) /\ net[c] = << >> /\ lock[c] = << >>
    BY DEF Readers
  <2>2. \A r \in Rows : db[r] \in Content
    BY <1>1 DEF Table
  <2> QED BY <2>1, <2>2 DEF Snapped, Absent, Rowed, Held, Content
<1>4. ReaderTypes
  <2>1. \A c \in Readers : local[c] \in [Rows -> Rowed]
    BY <1>3 DEF Snapped
  <2> QED BY <1>3, <2>1 DEF ReaderTypes
<1>5. StampOrder /\ QueueOrder
  BY DEF StampOrder, QueueOrder, Stamped, Stage, Idle
<1>6. NewsIsNew
  <2>1. \A c \in Readers : \A h \in Heard(c) : h \in {0, 2}
    BY <1>3 DEF Heard
  <2> QED BY <1>3, <2>1 DEF NewsIsNew, Unread, Idle, Readers
<1>7. CacheIsWhatReadersHold
  BY <1>3 DEF CacheIsWhatReadersHold, Coming
<1>8. LastIsDb
  BY <1>3 DEF LastIsDb, Stage, Idle
<1> QED BY <1>2, <1>4, <1>5, <1>6, <1>7, <1>8 DEF ReadersInv

\* The invariant is inductive.
LEMMA ReadersInvNext ==
  ASSUME BroadcastAssumption, InOrder, ~Partial, ReadersInv, [Next]_vars
  PROVE  ReadersInv'
<1>1. Effect
  BY StepEffects DEF ReadersInv
<1> QED BY <1>1, ServerTypesNext, ReaderTypesNext, StampOrderNext, QueueOrderNext, NewsIsNewNext,
          CacheNext, LastIsDbNext DEF ReadersInv

\* Readers show the database once everything is delivered, because the server
\* is never wrong about what they hold.
LEMMA QuietReadersShowDb ==
  ASSUME ReadersInv
  PROVE  ReadersConverge
<1> SUFFICES ASSUME Quiet, NEW c \in Readers
             PROVE  missed[c] \/ View(c) = db
  BY DEF ReadersConverge
<1>1. /\ c \in Clients /\ lock[c] = << >> /\ net[c] = << >> /\ \A d \in Clients : srv[d] = Idle
  BY DEF Quiet, Readers
<1>2. missed[c] \/ cache[c] = db
  BY <1>1 DEF ReadersInv, LastIsDb, AllRead, Stage, Idle
<1>3. ~sending[c]
  BY <1>1 DEF ReadersInv, QueueOrder
<1>4. \A r \in Rows : local[c][r].v = cache[c][r]
  BY <1>1, <1>3 DEF ReadersInv, CacheIsWhatReadersHold, Coming
<1>5. cache[c] \in Table
  BY <1>1 DEF ReadersInv, ServerTypes
<1>6. View(c) = cache[c]
  BY <1>4, <1>5 DEF View, Table
<1> QED BY <1>2, <1>6

\* README.md:352 "edits in one appear in the other": however broadcasts,
\* messages and sends of any number of clients overlap, the cached result the
\* server diffs a reader against (result-cache.ts, broadcast-engine.ts) is what
\* the reader holds or is being told, no frame it is sent is refused as stale
\* (applyDelta), and when everything has been delivered it shows the database,
\* unless the last send to it failed.
THEOREM ReadersAlwaysAgree ==
  ASSUME InOrder, ~Partial, Bootstraps = 0
  PROVE  Spec => []ReadersAgree
<1>1. Init => ReadersInv
  BY BroadcastAssumption, InitReaders
<1>2. ReadersInv /\ [Next]_vars => ReadersInv'
  BY BroadcastAssumption, ReadersInvNext
<1>3. ReadersInv => ReadersAgree
  BY QuietReadersShowDb DEF ReadersAgree, ReadersInv
<1> QED BY <1>1, <1>2, <1>3, PTL DEF Spec
=============================================================================
