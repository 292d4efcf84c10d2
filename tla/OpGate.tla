------------------------------- MODULE OpGate -------------------------------
(***************************************************************************)
(* What an op passes on its way in (server/handler.ts handleOps, server/   *)
(* op-processor.ts): the memory of op ids a server without storage keeps   *)
(* (server/replay-detector.ts), the order of checks of the consistent path *)
(* (server/pipeline.ts) and of the eager one, the fixed-window rate        *)
(* limiter (server/enforcement.ts), the batches a message holds, and the   *)
(* client that sends again what it got no answer for.                      *)
(*                                                                         *)
(* Conflict resolution and what a write does to its row are OpProcessor's; *)
(* here a write is an op id that was written.                              *)
(***************************************************************************)
EXTENDS Integers, Sequences, FiniteSets, SequencesExt

CONSTANTS
    Senders,        \* clients
    GateOps,        \* op -> [table, batch, size, late]: batch NoBatch or its
                    \* name, size what the client says the batch holds, late
                    \* an HLC too far ahead
    EagerTables,    \* tables whose ops take the eager path
    Writable,       \* tables whose query has a mutate
    NoBatch,
    MaxBatch,       \* maxBatchSize
    Spans,          \* window -> its length: [second |-> _, minute |-> _]
    MemoryLimit,    \* MAX_ENTRIES of the replay detector
    MemorySpan,     \* TTL_MS of the replay detector
    LastTick,       \* time ends here
    GateBounds      \* records [scripts, limits, stored, races, refusals, losses]:
                    \* scripts gives each sender the groups of ops it submits,
                    \* in order; with storage the ids are kept there

ASSUME GateConstants ==
    /\ {MaxBatch, MemoryLimit, MemorySpan, LastTick} \subseteq Nat
    /\ MemoryLimit >= 2
    /\ \A b \in GateBounds : {b.races, b.refusals, b.losses} \subseteq Nat

VARIABLES
    tick,        \* Date.now
    buckets,     \* <<window, key>> -> [count, resetAt]
    remembered,  \* op ids the detector knows, oldest insertion first, each
                 \* with the time it was last seen
    handling,    \* sender -> the message its handler works on, or NoMessage
    outbox,      \* sender -> ops without an answer
    inFlight,    \* sender -> ops it waits for an answer to
    ahead,       \* sender -> groups of its script not yet submitted
    mutated,     \* writes made, in order: [op, at]
    refusedOps,  \* ops the server refused at least once
    reservations,\* ids taken for fresh, in order: [op, at]
    gateLeft

gateVars == <<tick, buckets, remembered, handling, outbox, inFlight, ahead, mutated,
              refusedOps, reservations, gateLeft>>

NoMessage == [ops |-> <<>>, fresh |-> {}, failed |-> {}, accepted |-> {}, rejected |-> {},
              again |-> FALSE, unheard |-> FALSE, idle |-> TRUE]
Keys == {<<s>> : s \in Senders} \cup
        {<<s, GateOps[o].table>> : s \in Senders, o \in DOMAIN GateOps}
Windowed == (DOMAIN Spans) \X Keys

-----------------------------------------------------------------------------
(* The rate limiter. A bucket past its reset counts as none. *)

LimitOf(w, key) ==
    IF Len(key) = 1 THEN gateLeft.limits[w] ELSE gateLeft.limits.table
\* A table's limit is per second.
Limited(w, key) == LimitOf(w, key) > 0 /\ (Len(key) = 1 \/ w = "second")
KeysOf(s, o) == {<<s>>, <<s, GateOps[o].table>>}
CheckBucket(w, key) ==
    Limited(w, key) => ~(tick < buckets[<<w, key>>].resetAt
                         /\ buckets[<<w, key>>].count >= LimitOf(w, key))
RateOk(s, o) == \A w \in DOMAIN Spans, key \in KeysOf(s, o) : CheckBucket(w, key)

RecordBucket(w, key, bucket) ==
    IF ~Limited(w, key) THEN bucket
    ELSE IF tick >= bucket.resetAt THEN [count |-> 1, resetAt |-> tick + Spans[w]]
    ELSE [bucket EXCEPT !.count = @ + 1]
Recorded(s, o) ==
    [k \in Windowed |-> IF k[2] \in KeysOf(s, o)
                        THEN RecordBucket(k[1], k[2], buckets[k]) ELSE buckets[k]]

-----------------------------------------------------------------------------
(* The replay detector. *)

IdsOf(memory) == {memory[i].id : i \in DOMAIN memory}

\* mutant: the memory is emptied when it is full
ForgetAll(memory) == IF gateLeft.stored \/ Len(memory) < MemoryLimit THEN memory ELSE <<>>

\* Room is made by dropping what expired, else the older half.
Forget(memory) ==
    IF gateLeft.stored \/ Len(memory) < MemoryLimit THEN memory
    ELSE LET swept == SelectSeq(memory, LAMBDA e : e.at >= tick - MemorySpan)
         IN  IF Len(swept) < MemoryLimit THEN swept
             ELSE SubSeq(swept, (MemoryLimit + 1) \div 2 + 1, Len(swept))

\* A known id is only marked seen: it keeps its place.
Reserve(known, id) ==
    IF id \in IdsOf(known.memory)
    THEN [known EXCEPT !.memory =
            ReplaceAll(@, SelectSeq(@, LAMBDA e : e.id = id)[1], [id |-> id, at |-> tick])]
    ELSE [memory |-> Append(Forget(known.memory), [id |-> id, at |-> tick]),
          fresh |-> Append(known.fresh, id)]

\* prefetchBatch: every op of a message that can be applied is reserved before
\* the first is handled.
Served(o) == GateOps[o].table \in Writable
ReserveAll(ops) ==
    FoldLeft(Reserve, [memory |-> remembered, fresh |-> <<>>], SelectSeq(ops, Served))

-----------------------------------------------------------------------------

GateInit ==
    /\ tick = 1
    /\ buckets = [k \in Windowed |-> [count |-> 0, resetAt |-> 0]]
    /\ remembered = <<>>
    /\ handling = [s \in Senders |-> NoMessage]
    /\ outbox = [s \in Senders |-> <<>>]
    /\ inFlight = [s \in Senders |-> {}]
    /\ mutated = <<>>
    /\ refusedOps = {}
    /\ reservations = <<>>
    /\ gateLeft \in GateBounds
    /\ ahead = gateLeft.scripts

Spends(what) == gateLeft[what] > 0 /\ gateLeft' = [gateLeft EXCEPT ![what] = @ - 1]

TickPasses ==
    /\ tick < LastTick
    /\ tick' = tick + 1
    /\ UNCHANGED <<buckets, remembered, handling, outbox, inFlight, ahead, mutated,
                   refusedOps, reservations, gateLeft>>

\* A client's next op, or a batch of them, joins its queue.
SubmitOps(s) ==
    /\ ahead[s] # <<>>
    /\ outbox' = [outbox EXCEPT ![s] = @ \o Head(ahead[s])]
    /\ ahead' = [ahead EXCEPT ![s] = Tail(@)]
    /\ UNCHANGED <<tick, buckets, remembered, handling, inFlight, mutated, refusedOps,
                   reservations, gateLeft>>

\* push: what is queued and not in flight goes in one message; the server,
\* which handles one message of a client at a time, reserves its ids.
PushOps(s) ==
    LET message == SelectSeq(outbox[s], LAMBDA o : o \notin inFlight[s])
        known == ReserveAll(message)
    IN  /\ message # <<>> /\ handling[s].idle
        /\ inFlight' = [inFlight EXCEPT ![s] = @ \cup ToSet(message)]
        /\ remembered' = known.memory
        /\ reservations' = reservations \o
            [i \in DOMAIN known.fresh |-> [op |-> known.fresh[i], at |-> tick]]
        /\ handling' = [handling EXCEPT ![s] =
            [NoMessage EXCEPT !.ops = message, !.fresh = ToSet(known.fresh), !.idle = FALSE]]
        /\ UNCHANGED <<tick, buckets, outbox, ahead, mutated, refusedOps, gateLeft>>

\* The handler's answer to its first op, and what it still has to handle.
Refuses(m) ==
    [m EXCEPT !.ops = Tail(@), !.rejected = @ \cup {Head(m.ops)}, !.again = FALSE,
              !.failed = @ \cup ({GateOps[Head(m.ops)].batch} \ {NoBatch})]
Accepts(m) ==
    [m EXCEPT !.ops = Tail(@), !.accepted = @ \cup {Head(m.ops)}, !.again = FALSE]

Handles(s, m) == handling' = [handling EXCEPT ![s] = m]
Quiet == UNCHANGED <<tick, remembered, outbox, inFlight, ahead, reservations>>

\* What needs no look at the op: its batch failed earlier in the message, its
\* query takes no writes, or its id is known.
Doomed(m) == GateOps[Head(m.ops)].batch \in m.failed \/ ~Served(Head(m.ops))
Settles(m) == IF Doomed(m) THEN Refuses(m) ELSE Accepts(m)

PassOver(s) ==
    LET m == handling[s]
    IN  /\ m.ops # <<>> /\ ~m.again
        /\ Doomed(m) \/ Head(m.ops) \notin m.fresh
        /\ Handles(s, Settles(m))
        /\ refusedOps' = refusedOps \cup Settles(m).rejected
        /\ UNCHANGED <<buckets, mutated, gateLeft>> /\ Quiet

\* An op that is due: its turn came, its batch did not fail and it is fresh,
\* or its write lost a race and is tried again.
Due(s) ==
    LET m == handling[s]
    IN  /\ m.ops # <<>>
        /\ m.again \/ (~Doomed(m) /\ Head(m.ops) \in m.fresh)

\* What the checks refuse. The consistent path asks the rate limiter before
\* it looks at the batch size, the eager path after.
EagerOp(o) == GateOps[o].table \in EagerTables
TooLarge(o) == GateOps[o].size > MaxBatch
Charged(s, o) == ~GateOps[o].late /\ RateOk(s, o) /\ ~(EagerOp(o) /\ TooLarge(o))
Passes(s, o) == Charged(s, o) /\ ~TooLarge(o)

RefuseAtGate(s) ==
    LET o == Head(handling[s].ops)
    IN  /\ Due(s) /\ ~Passes(s, o)
        /\ Handles(s, Refuses(handling[s]))
        /\ refusedOps' = refusedOps \cup {o}
        /\ buckets' = IF Charged(s, o) THEN Recorded(s, o) ELSE buckets
        /\ UNCHANGED <<mutated, gateLeft>> /\ Quiet

\* authorize or mutate throws.
RefuseInside(s) ==
    LET o == Head(handling[s].ops)
    IN  /\ Due(s) /\ Passes(s, o)
        /\ Spends("refusals")
        /\ Handles(s, Refuses(handling[s]))
        /\ refusedOps' = refusedOps \cup {o}
        /\ buckets' = Recorded(s, o)
        /\ UNCHANGED mutated /\ Quiet

WriteOp(s) ==
    LET o == Head(handling[s].ops)
    IN  /\ Due(s) /\ Passes(s, o)
        /\ buckets' = Recorded(s, o)
        /\ mutated' = Append(mutated, [op |-> o, at |-> tick, by |-> s])
        /\ \/ /\ Handles(s, Accepts(handling[s]))
              /\ UNCHANGED gateLeft
           \* applyOpIf finds the row changed: the attempt is made again.
           \/ /\ ~EagerOp(o)
              /\ Spends("races")
              /\ Handles(s, [handling[s] EXCEPT !.again = TRUE])
        /\ UNCHANGED refusedOps /\ Quiet

\* Acks and rejects go out when the whole message is handled. A client that
\* went away meanwhile never hears them.
AnswerMessage(s) ==
    LET m == handling[s]
        told == IF m.unheard THEN {} ELSE m.accepted \cup m.rejected
    IN  /\ ~m.idle /\ m.ops = <<>>
        /\ handling' = [handling EXCEPT ![s] = NoMessage]
        /\ outbox' = [outbox EXCEPT ![s] = SelectSeq(@, LAMBDA o : o \notin told)]
        /\ inFlight' = [inFlight EXCEPT ![s] = @ \ told]
        /\ UNCHANGED <<tick, buckets, remembered, ahead, mutated, refusedOps, reservations,
                       gateLeft>>

\* The connection drops: nothing is in flight any more, and the client sends
\* everything unanswered again.
LoseLink(s) ==
    /\ inFlight[s] # {}
    /\ Spends("losses")
    /\ inFlight' = [inFlight EXCEPT ![s] = {}]
    /\ handling' = [handling EXCEPT ![s].unheard = TRUE]
    /\ UNCHANGED <<tick, buckets, remembered, outbox, ahead, mutated, refusedOps,
                   reservations>>

GateNext ==
    \/ TickPasses
    \/ \E s \in Senders :
        \/ SubmitOps(s) \/ PushOps(s) \/ PassOver(s) \/ RefuseAtGate(s) \/ RefuseInside(s)
        \/ WriteOp(s) \/ AnswerMessage(s) \/ LoseLink(s)

GateSpec == GateInit /\ [][GateNext]_gateVars

-----------------------------------------------------------------------------

WritesOf(o) == {i \in DOMAIN mutated : mutated[i].op = o}

\* The detector never holds more ids than it may, each once; what is in
\* flight was queued.
GateTypeOK ==
    /\ gateLeft.stored \/ Len(remembered) <= MemoryLimit
    /\ Cardinality(IdsOf(remembered)) = Len(remembered)
    /\ \A s \in Senders : inFlight[s] \subseteq ToSet(outbox[s])

\* What a client sends again is written again only when the detector, short
\* of room, dropped the id after taking more than half a memory of newer ones
\* or after it had not been seen for the detector's span.
Takings(o) == {i \in DOMAIN reservations : reservations[i].op = o}
WrittenOnce ==
    \A o \in DOMAIN GateOps : Cardinality(Takings(o)) > 1 =>
        \E i, j \in Takings(o) :
            \/ i < j /\ j - i - 1 > MemoryLimit \div 2
            \/ reservations[j].at - reservations[i].at > MemorySpan

\* A fixed window lets at most twice its limit through in any span of its
\* length, whatever path and table the ops take.
InSpan(s, w, from) ==
    Cardinality({i \in DOMAIN mutated :
        mutated[i].by = s /\ from <= mutated[i].at /\ mutated[i].at < from + Spans[w]})
RateHolds ==
    \A s \in Senders, w \in DOMAIN Spans, from \in 1 .. tick :
        gateLeft.limits[w] > 0 => InSpan(s, w, from) <= 2 * gateLeft.limits[w]

\* Once an op of a batch is refused, none that follows it in the batch is
\* written: what a batch leaves behind is a prefix of it.
BatchIsPrefix ==
    \A s \in Senders : \A g \in ToSet(gateLeft.scripts[s]) : \A i, j \in DOMAIN g :
        (i < j /\ GateOps[g[i]].batch # NoBatch /\ WritesOf(g[j]) # {}) => WritesOf(g[i]) # {}

\* While the detector has forgotten no id that was sent again, what is refused
\* has written nothing: a client that reverts a refused op is right to. (A
\* write that lost its race is charged and checked again on every attempt:
\* where limits or refusals meet races this does not hold.)
RefusedWroteNothing ==
    (\A o \in DOMAIN GateOps : Cardinality(Takings(o)) <= 1) =>
        \A o \in refusedOps : WritesOf(o) = {}

\* What an op passes before it is written: it is written once, no more of them
\* in a span than the rate allows, of a batch a prefix, and of a refused op
\* nothing.
\* Each as stated above.
GateInv == GateTypeOK /\ WrittenOnce /\ RateHolds /\ BatchIsPrefix /\ RefusedWroteNothing
=============================================================================
