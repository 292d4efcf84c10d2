------------------------------ MODULE Delivery ------------------------------
(*************************************************************************)
(* What `send` means over each transport: the event stream with its      *)
(* replay buffer and the replies collected for a POST                    *)
(* (src/transport/sse.ts), the polled queue (polling.ts) and the socket  *)
(* (ws.ts, bun-ws.ts), against the result cache that the broadcast       *)
(* engine commits when a send resolves.                                  *)
(*                                                                       *)
(* One client.  Every frame carries the changes of one table since the   *)
(* version the cache holds for it, so a frame that failed is made up for *)
(* by the table's next one.  Frames are numbered in the order of their   *)
(* sends.                                                                *)
(*************************************************************************)
EXTENDS Naturals, Sequences, FiniteSets, SequencesExt

CONSTANTS Tables,
          Carriers,      \* transports to consider
          BufferSize,    \* replayBufferSize, and polling's maxQueueLen
          DelivBound     \* bounds, per carrier: [frames, cuts, posts, refusals]

ASSUME DelivAssumption ==
  /\ Carriers \subseteq {"ws", "sse", "polling", "serverless"}
  /\ BufferSize \in Nat \ {0}
  /\ \A w \in Carriers : \A k \in DOMAIN DelivBound[w] : DelivBound[w][k] \in Nat

VARIABLES
  carrier,
  live,        \* the server writes to a stream or a socket
  hears,       \* the client's end of it is open
  frames,      \* every frame sent: [table, from], its number its place
  cachedTo,    \* per table: the last frame committed to the result cache
  travelling,  \* frames in the stream, or in a poll's answer
  buffered,    \* sse: replay buffer, [id, delivered]; polling: the queue
  got,         \* frames the client received, in order
  evicted,     \* history: frames dropped by a full buffer or queue
  postings,    \* serverless: POSTs being handled
  sink,        \* serverless: the POST whose replies are collected, 0 for none
  answers,     \* serverless: per POST, the replies collected for it
  crossed,     \* history: POSTs overlapped
  afresh,      \* history: a stream was reopened that had received nothing
  replied,     \* history: frames that were replies to an open POST
  delivLeft

delivVars == <<carrier, live, hears, frames, cachedTo, travelling, buffered, got, evicted,
               postings, sink, answers, crossed, afresh, replied, delivLeft>>

DelivInit ==
  /\ carrier \in Carriers
  /\ live = (carrier # "serverless") /\ hears = live
  /\ frames = <<>> /\ cachedTo = [t \in Tables |-> 0]
  /\ travelling = <<>> /\ buffered = <<>> /\ got = <<>> /\ evicted = {}
  /\ postings = {} /\ sink = 0 /\ answers = <<>> /\ crossed = FALSE /\ afresh = FALSE /\ replied = {}
  /\ delivLeft = DelivBound[carrier]

Pay(k) == delivLeft[k] > 0 /\ delivLeft' = [delivLeft EXCEPT ![k] = @ - 1]

\* Mutant: the cache is committed whether or not the frame went out.
CommittedAnyway(t, id, resolved) == cachedTo' = [cachedTo EXCEPT ![t] = id]

\* commit: the cache takes what was sent, if the send resolved.
Committed(t, id, resolved) ==
  cachedTo' = IF resolved THEN [cachedTo EXCEPT ![t] = id] ELSE cachedTo

\* Oldest first out; what goes is lost unless the stream had it.
Overflowing(buf) == Len(buf) > BufferSize
Trimmed(buf)     == IF Overflowing(buf) THEN Tail(buf) ELSE buf
Lost(buf)        == IF Overflowing(buf) /\ ~Head(buf).delivered THEN {Head(buf).id} ELSE {}

\* A socket: handed over, or refused because it is not open or has too much to
\* send.  One that is half open takes what nobody will get.
SendSocket(t, id) ==
  \/ /\ travelling' = IF hears THEN Append(travelling, id) ELSE travelling
     /\ Committed(t, id, TRUE)
     /\ UNCHANGED delivLeft
  \/ /\ Committed(t, id, FALSE)
     /\ IF hears THEN Pay("refusals") ELSE UNCHANGED delivLeft
     /\ UNCHANGED travelling

\* An event stream: streamed if there is one, kept for replay either way; the
\* send fails if the frame that made room for it had never been streamed.
SendStream(t, id) ==
  LET buf == Append(buffered, [id |-> id, delivered |-> live])
  IN /\ buffered' = Trimmed(buf)
     /\ evicted' = evicted \cup (IF Overflowing(buf) THEN {Head(buf).id} ELSE {})
     /\ travelling' = IF live /\ hears THEN Append(travelling, id) ELSE travelling
     /\ Committed(t, id, Lost(buf) = {})
     /\ UNCHANGED delivLeft

\* Polling: queued, and the send fails if the oldest had to go.
SendPolled(t, id) ==
  LET buf == Append(buffered, [id |-> id, delivered |-> FALSE])
  IN /\ buffered' = Trimmed(buf)
     /\ evicted' = evicted \cup Lost(buf)
     /\ Committed(t, id, ~Overflowing(buf))
     /\ UNCHANGED <<travelling, delivLeft>>

\* sendToSubscriber: the table changed, and its changes since the cache go out.
Broadcast(t) ==
  LET id == Len(frames) + 1
  IN /\ id <= DelivBound[carrier].frames
     /\ live \/ (carrier = "serverless" /\ sink = 0)
     /\ frames' = Append(frames, [table |-> t, from |-> cachedTo[t]])
     /\ CASE carrier = "ws"      -> SendSocket(t, id) /\ UNCHANGED <<buffered, evicted>>
          [] carrier = "polling" -> SendPolled(t, id)
          [] OTHER               -> SendStream(t, id)
     /\ UNCHANGED <<carrier, live, hears, got, postings, sink, answers, crossed, afresh, replied>>

\* A frame arrives, or an answer to a poll with all that was queued.
Arrives ==
  /\ travelling # <<>> /\ hears
  /\ got' = Append(got, Head(travelling))
  /\ travelling' = Tail(travelling)
  /\ UNCHANGED <<carrier, live, hears, frames, cachedTo, buffered, evicted, postings, sink,
                 answers, crossed, afresh, replied, delivLeft>>

Poll ==
  /\ carrier = "polling" /\ live /\ hears /\ buffered # <<>> /\ travelling = <<>>
  /\ travelling' = [k \in DOMAIN buffered |-> buffered[k].id]
  /\ buffered' = <<>>
  /\ UNCHANGED <<carrier, live, hears, frames, cachedTo, got, evicted, postings, sink, answers,
                 crossed, afresh, replied, delivLeft>>

\* The connection breaks: what was in it is gone, and the server writes on.  A
\* poll whose answer is lost takes with it what it took from the queue.
Cut ==
  /\ carrier \in {"ws", "sse"} \/ (carrier = "polling" /\ travelling # <<>>)
  /\ hears /\ Pay("cuts")
  /\ hears' = FALSE /\ travelling' = <<>>
  /\ UNCHANGED <<carrier, live, frames, cachedTo, buffered, got, evicted, postings, sink,
                 answers, crossed, afresh, replied>>

\* The server notices: the handler forgets the session and with it the cache.
Noticed ==
  /\ live /\ ~hears /\ carrier # "polling"
  /\ live' = FALSE
  /\ cachedTo' = [t \in Tables |-> 0]
  /\ UNCHANGED <<carrier, hears, frames, travelling, buffered, got, evicted, postings, sink,
                 answers, crossed, afresh, replied, delivLeft>>

\* A failed poll is a disconnect to the client, which says hello and subscribes
\* again: the cache starts from the rows that sends.
Resubscribe ==
  /\ carrier = "polling" /\ ~hears
  /\ hears' = TRUE
  /\ cachedTo' = [t \in Tables |-> 0]
  /\ UNCHANGED <<carrier, live, frames, travelling, buffered, got, evicted, postings, sink,
                 answers, crossed, afresh, replied, delivLeft>>

LastEventId == IF got = <<>> THEN 0 ELSE Last(got)

\* Where in the buffer, which is in the order of ids, the newer ones start.
NewerFrom ==
  CHOOSE p \in 1..Len(buffered) + 1 : \A k \in DOMAIN buffered : k >= p <=> buffered[k].id > LastEventId

\* What a stream that comes back with Last-Event-ID is sent again; without one,
\* nothing is.
Replay == IF LastEventId = 0 THEN <<>> ELSE SubSeq(buffered, NewerFrom, Len(buffered))

\* The browser opens the stream again before the server noticed.
Reopen ==
  /\ carrier = "sse" /\ ~hears
  /\ hears' = TRUE /\ live' = TRUE
  /\ afresh' = (afresh \/ LastEventId = 0)
  /\ travelling' = [k \in DOMAIN Replay |-> Replay[k].id]
  /\ buffered' = [k \in DOMAIN buffered |->
                    IF LastEventId # 0 /\ buffered[k].id > LastEventId
                    THEN [buffered[k] EXCEPT !.delivered = TRUE] ELSE buffered[k]]
  /\ UNCHANGED <<carrier, frames, cachedTo, got, evicted, postings, sink, answers, crossed, replied,
                 delivLeft>>

---------------------------------------------------------------------------
\* Serverless: replies go back in the POST that caused them.

PostArrives ==
  /\ carrier = "serverless" /\ Pay("posts")
  /\ LET n == Len(answers) + 1
     IN /\ postings' = postings \cup {n}
        /\ sink' = n
        /\ answers' = Append(answers, <<>>)
  /\ crossed' = (crossed \/ postings # {})
  /\ UNCHANGED <<carrier, live, hears, frames, cachedTo, travelling, buffered, got, evicted,
                 afresh, replied>>

\* The handler replies to a client that has a POST open: into the sink, which is
\* the latest POST's, or else onto the stream, which this process has not got.
Reply(t) ==
  LET id == Len(frames) + 1
  IN /\ postings # {} /\ id <= DelivBound[carrier].frames
     /\ frames' = Append(frames, [table |-> t, from |-> cachedTo[t]])
     /\ Committed(t, id, TRUE)
     /\ replied' = replied \cup {id}
     /\ IF sink # 0 THEN /\ answers' = [answers EXCEPT ![sink] = Append(@, id)]
                         /\ UNCHANGED buffered
        ELSE /\ buffered' = Trimmed(Append(buffered, [id |-> id, delivered |-> FALSE]))
             /\ UNCHANGED answers
     /\ UNCHANGED <<carrier, live, hears, travelling, got, evicted, postings, sink,
                    crossed, afresh, delivLeft>>

\* The replies of the POST, and the end of the collecting, its own or another's.
Answered(n) == answers[n]

PostOver(n) ==
  /\ n \in postings
  /\ postings' = postings \ {n}
  /\ sink' = 0
  /\ got' = got \o Answered(n)
  /\ answers' = [answers EXCEPT ![n] = <<>>]
  /\ UNCHANGED <<carrier, live, hears, frames, cachedTo, travelling, buffered, evicted,
                 crossed, afresh, replied, delivLeft>>

---------------------------------------------------------------------------
DelivNext ==
  \/ \E t \in Tables : Broadcast(t)
  \/ Arrives \/ Poll \/ Cut \/ Noticed \/ Resubscribe \/ Reopen
  \/ PostArrives \/ (\E t \in Tables : Reply(t)) \/ \E n \in DOMAIN answers : PostOver(n)

DelivSpec == DelivInit /\ [][DelivNext]_delivVars

---------------------------------------------------------------------------
DelivTypeOK ==
  /\ \A t \in Tables : cachedTo[t] \in 0..Len(frames)
  /\ Len(buffered) <= BufferSize
  /\ \A k \in DOMAIN got : got[k] \in DOMAIN frames
  /\ sink = 0 \/ sink \in DOMAIN answers

\* Frame m carries the changes of frame n.
Carries(m, n) == frames[m].table = frames[n].table /\ frames[m].from < n /\ m >= n

\* The client has frame m, or it is on its way.
Lands(m) ==
  \/ Contains(got, m) \/ Contains(travelling, m)
  \/ carrier = "polling" /\ \E k \in DOMAIN buffered : buffered[k].id = m

\* While a connection holds, the client has or is about to get everything the
\* result cache says it has: a frame whose send failed is in the table's next
\* one, and what a broken stream swallowed is sent again when it reopens.  Not
\* so the frames a full buffer or queue threw out: their own sends resolved, and
\* the failure is charged to another frame.
CacheHasLanded ==
  (live /\ hears /\ ~afresh) =>
    \A n \in DOMAIN frames :
      n <= cachedTo[frames[n].table] =>
        \E m \in DOMAIN frames : Carries(m, n) /\ (Lands(m) \/ m \in evicted)

\* A reply to a POST comes back with it, unless another POST of the client
\* overlapped and took the collecting away.
RepliesReturn ==
  ~crossed => \A n \in replied : Contains(got, n) \/ \E p \in postings : Contains(answers[p], n)

\* Over an event stream, reopened any number of times, frames come in the order
\* they were sent, none twice, and none is left out that the buffer had not
\* dropped.
StreamInOrder ==
  carrier = "sse" =>
    \A k \in 2..Len(got) :
      got[k] > got[k-1] /\ \A n \in got[k-1] + 1..got[k] - 1 : n \in evicted

\* A frame the server counts as delivered has reached the client or waits for
\* it, a reply returns on the exchange that asked, and a stream that resumes
\* goes on in order.
\* Each as stated above.
DelivInv == DelivTypeOK /\ CacheHasLanded /\ RepliesReturn /\ StreamInOrder
=============================================================================
