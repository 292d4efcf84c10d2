------------------------------ MODULE Windows ------------------------------
(*************************************************************************)
(* A windowed subscription: bootstrap, load_more and the broadcasts of   *)
(* src/server/handler.ts and src/server/broadcast-engine.ts, and the     *)
(* pages and totals the client of src/client/sync-client.ts ends up      *)
(* with.                                                                 *)
(*                                                                       *)
(* One client, one query whose rows are ordered by number.  The handlers *)
(* of the client's frames run one at a time, but not under the lock that *)
(* the broadcasts to it share.  A write is another client's, and each    *)
(* starts a broadcast.                                                   *)
(*************************************************************************)
EXTENDS Naturals, Sequences, FiniteSets, FiniteSetsExt

CONSTANTS Ranks,        \* the rows there can be, numbers in query order
          First,        \* the rows there are at first
          WindowSize,   \* the window the client declares
          PageSize,     \* what it asks for with each load_more
          Fanouts,      \* broadcasts that may be under way at once
          WindowBound   \* bounds: [writes, asks, drops]

ASSUME WindowAssumption ==
  /\ Ranks \subseteq Nat /\ IsFiniteSet(Ranks) /\ First \subseteq Ranks
  /\ WindowSize \in Nat \ {0} /\ PageSize \in Nat \ {0}
  /\ \A k \in DOMAIN WindowBound : WindowBound[k] \in Nat

VARIABLES
  table,      \* the rows of the query
  owed,       \* writes whose broadcast has not begun
  sub,        \* the subscription: [limit, loaded, total, ready]
  lastSent,   \* the result cache
  fan,        \* each broadcast: [at, rows, total, counted, saw]
  duty,       \* the handler of the client's frame, likewise
  requests,      \* frames of the client on their way
  page,       \* frames to the client on their way
  shown,      \* the rows the client holds
  totalShown, \* totalCounts
  granted,    \* history: the window with all the pages granted
  behind,     \* history: no clean query since the last write
  excuses,    \* history: the races named in the README that have happened
  windowLeft

windowVars == <<table, owed, sub, lastSent, fan, duty, requests, page, shown, totalShown,
                granted, behind, excuses, windowLeft>>

Unknown == Cardinality(Ranks) + 1   \* no total yet
Rest == [at |-> "idle", rows |-> {}, total |-> 0, counted |-> FALSE, saw |-> <<{}, 0>>]

\* The first n rows of the query.
Top(S, n) == {r \in S : Cardinality({q \in S : q < r}) < n}

WindowsInit ==
  /\ table = First /\ owed = 0
  /\ sub = [limit |-> WindowSize, loaded |-> 0, total |-> Unknown, ready |-> FALSE]
  /\ lastSent = {} /\ fan = [f \in Fanouts |-> Rest] /\ duty = Rest
  /\ requests = <<"bootstrap">> /\ page = <<>> /\ shown = {} /\ totalShown = Unknown
  /\ granted = WindowSize /\ behind = FALSE /\ excuses = {} /\ windowLeft = WindowBound

\* The query was made before a write, or for a window that has since grown.
Stale(q) == q.saw # <<table, sub.limit>>

Take(k) == windowLeft[k] > 0 /\ windowLeft' = [windowLeft EXCEPT ![k] = @ - 1]

---------------------------------------------------------------------------
(* The table and the client.                                               *)

\* Another client inserts or deletes a row.
Change(r) ==
  /\ Take("writes")
  /\ table' = IF r \in table THEN table \ {r} ELSE table \cup {r}
  /\ owed' = owed + 1 /\ behind' = TRUE
  /\ UNCHANGED <<granted, sub, lastSent, fan, duty, requests, page, shown, totalShown, excuses>>

\* bootstrap() again (another table was synced), or loadMore().
Ask(what) ==
  /\ Take("asks")
  /\ requests' = Append(requests, what)
  /\ UNCHANGED <<granted, table, owed, sub, lastSent, fan, duty, page, shown, totalShown, behind, excuses>>

\* handleMessage: snapshot, delta, count_changed.
Display ==
  /\ page # <<>>
  /\ LET m == Head(page)
     IN /\ shown' = CASE m.kind = "snapshot" -> m.rows
                      [] m.kind = "count"    -> shown
                      [] OTHER               -> (shown \cup m.rows) \ m.gone
        /\ totalShown' = IF m.total = Unknown THEN totalShown ELSE m.total
  /\ page' = Tail(page)
  /\ UNCHANGED <<granted, table, owed, sub, lastSent, fan, duty, requests, behind, excuses, windowLeft>>

Frame(kind, rows, gone, total) == [kind |-> kind, rows |-> rows, gone |-> gone, total |-> total]

---------------------------------------------------------------------------
(* handleBootstrap and handleLoadMore.                                     *)

\* Mutant: the window grows from what is loaded.
LimitFromLoaded == sub.loaded + PageSize

\* Asking for more widens the window, however little was there.
LimitAfter == sub.limit + PageSize

\* The query, and the total with it.
Handle ==
  /\ duty.at = "idle" /\ requests # <<>>
  /\ duty' = [Rest EXCEPT !.at = Head(requests), !.total = Cardinality(table),
              !.rows = Top(table, IF Head(requests) = "bootstrap" THEN sub.limit ELSE LimitAfter),
              !.saw = <<table, sub.limit>>]
  /\ requests' = Tail(requests)
  /\ UNCHANGED <<granted, table, owed, sub, lastSent, fan, page, shown, totalShown, behind, excuses,
                 windowLeft>>

Sending == \E f \in Fanouts : fan[f].at = "sent"

\* The handlers do not take the lock: the cache they set is overwritten by a
\* broadcast that has sent and not yet committed.
Overlap == IF Sending THEN {"overlap"} ELSE {}

\* A snapshot: the cache follows if it was sent.  The total is noted either way.
Bootstrapped ==
  /\ duty.at = "bootstrap"
  /\ \/ /\ page' = Append(page, Frame("snapshot", duty.rows, {}, duty.total))
        /\ lastSent' = duty.rows
        /\ sub' = [sub EXCEPT !.loaded = Cardinality(duty.rows), !.total = duty.total,
                              !.ready = TRUE]
        /\ excuses' = excuses \cup Overlap
        /\ behind' = Stale(duty)
        /\ UNCHANGED windowLeft
     \/ /\ Take("drops")
        /\ sub' = [sub EXCEPT !.loaded = Cardinality(duty.rows), !.total = duty.total]
        /\ excuses' = excuses \cup {"count"}
        /\ UNCHANGED <<page, lastSent, behind>>
  /\ duty' = Rest
  /\ UNCHANGED <<granted, table, owed, fan, requests, shown, totalShown>>

\* The page is what lies beyond the rows loaded before, by position: a row that
\* has since come in among those is in the cache and was never sent.
NewRows == duty.rows \ Top(duty.rows, sub.loaded)

CountFrame(total) == IF total = sub.total THEN <<>> ELSE <<Frame("count", {}, {}, total)>>

MoreLoaded ==
  /\ duty.at = "more"
  /\ \/ /\ page' = page \o (IF NewRows = {} THEN <<>> ELSE <<Frame("append", NewRows, {}, Unknown)>>)
                        \o CountFrame(duty.total)
        /\ lastSent' = duty.rows
        /\ granted' = granted + PageSize
        /\ sub' = [sub EXCEPT !.loaded = Cardinality(duty.rows), !.limit = LimitAfter,
                              !.total = duty.total]
        /\ excuses' = excuses \cup Overlap
             \cup (IF (duty.rows \ NewRows) \subseteq lastSent
                      /\ lastSent \subseteq duty.rows THEN {} ELSE {"page"})
        /\ behind' = Stale(duty)
        /\ UNCHANGED windowLeft
     \/ /\ Take("drops") /\ NewRows # {}
        /\ page' = page \o CountFrame(duty.total)
        /\ sub' = [sub EXCEPT !.total = duty.total]
        /\ excuses' = excuses \cup Overlap
        /\ UNCHANGED <<lastSent, granted, behind>>
  /\ duty' = Rest
  /\ UNCHANGED <<table, owed, fan, requests, shown, totalShown>>

---------------------------------------------------------------------------
(* broadcastGroup and sendToSubscriber.                                    *)

\* A subscriber that has not bootstrapped is passed over; otherwise the query
\* is run, capped at the window of now.
Query(f) ==
  /\ owed > 0 /\ fan[f].at = "idle"
  /\ owed' = owed - 1
  /\ fan' = IF ~ sub.ready THEN fan
            ELSE [fan EXCEPT ![f] = [Rest EXCEPT !.at = "queried", !.rows = Top(table, sub.limit),
                                   !.total = Cardinality(table), !.saw = <<table, sub.limit>>]]
  /\ UNCHANGED <<granted, table, sub, lastSent, duty, requests, page, shown, totalShown, behind, excuses,
                 windowLeft>>

\* Mutant: what the subscriber holds, instead of what it may.
HoldsOnly(f) == Top(fan[f].rows, sub.loaded)

\* What the subscriber is entitled to.
Entitled(f) == Top(fan[f].rows, sub.limit)

\* A send that failed leaves the record as it was.
AfterDrop(f) == sub.total

\* withLock: from the difference to the commit.
Locked(f) == Sending

\* The difference to the cache.
SendDiff(f) ==
  /\ fan[f].at = "queried" /\ ~ Locked(f)
  /\ LET rows == Entitled(f)
         ins == rows \ lastSent
         del == lastSent \ rows
     IN \/ /\ page' = page \o (IF ins \cup del = {} THEN <<>>
                               ELSE <<Frame("delta", ins, del, Unknown)>>)
                           \o CountFrame(fan[f].total)
           /\ fan' = [fan EXCEPT ![f].at = "sent", ![f].rows = rows,
                                  ![f].counted = (fan[f].total # sub.total)]
           /\ UNCHANGED <<sub, windowLeft>>
        \/ /\ Take("drops") /\ (ins \cup del # {} \/ fan[f].total # sub.total)
           /\ fan' = [fan EXCEPT ![f] = Rest]
           /\ sub' = [sub EXCEPT !.total = AfterDrop(f)]
           /\ UNCHANGED page
  /\ UNCHANGED <<granted, table, owed, lastSent, duty, requests, shown, totalShown, behind, excuses>>

\* The total goes on record if it was sent.
Counted(f) == IF fan[f].counted THEN fan[f].total ELSE sub.total

CommitWindow(f) ==
  /\ fan[f].at = "sent"
  /\ lastSent' = fan[f].rows
  /\ sub' = [sub EXCEPT !.total = Counted(f)]
  /\ behind' = Stale(fan[f])
  /\ fan' = [fan EXCEPT ![f] = Rest]
  /\ UNCHANGED <<granted, table, owed, duty, requests, page, shown, totalShown, excuses, windowLeft>>

---------------------------------------------------------------------------
WindowsNext ==
  \/ \E r \in Ranks : Change(r)
  \/ \E what \in {"bootstrap", "more"} : Ask(what)
  \/ Display \/ Handle \/ Bootstrapped \/ MoreLoaded
  \/ \E f \in Fanouts : Query(f) \/ SendDiff(f) \/ CommitWindow(f)

WindowsSpec == WindowsInit /\ [][WindowsNext]_windowVars

---------------------------------------------------------------------------
WindowsTypeOK ==
  /\ table \subseteq Ranks /\ shown \subseteq Ranks /\ lastSent \subseteq Ranks
  /\ sub.limit \in Nat /\ sub.ready \in BOOLEAN
  /\ Cardinality({f \in Fanouts : fan[f].at = "sent"}) <= 1

Settled == owed = 0 /\ duty = Rest /\ requests = <<>> /\ page = <<>> /\ \A f \in Fanouts : fan[f] = Rest

\* Once all is quiet the client holds its window of the table, unless the last
\* write reached it by no query, or one of the races happened in which a handler
\* and a broadcast set the cache for each other (handler.ts, handleLoadMore:
\* "asking for 20 more when only 5 of 50 arrived must widen the entitlement";
\* broadcast-engine.ts: "Slicing to loadedCount strands a client").
WindowIsShown ==
  Settled /\ sub.ready /\ ~ behind /\ excuses \cap {"overlap", "page"} = {}
    => shown = Top(table, granted)

\* The client shows the total the server believes it shows (count_changed).
TotalIsShown ==
  Settled /\ sub.ready /\ excuses \cap {"overlap", "count"} = {} => totalShown = sub.total

\* A windowed subscription that is quiet shows the rows it is entitled to and
\* the total the server counts.
\* Each as stated above.
WindowsInv == WindowsTypeOK /\ WindowIsShown /\ TotalIsShown
=============================================================================
