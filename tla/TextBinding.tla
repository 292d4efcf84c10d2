----------------------------- MODULE TextBinding -----------------------------
(*************************************************************************)
(* Collaborative text: one text column of one row, typed into by several *)
(* clients at once (client/text.ts), merged by the server                *)
(* (server/conflict.ts resolveText) with the three-way merge of          *)
(* core/text.ts.                                                         *)
(*                                                                       *)
(* A text is a sequence of characters that are told apart by who typed   *)
(* them, so that a character lost, kept or applied twice can be seen.    *)
(* The shortest edit script between two such texts is fixed by the       *)
(* characters they share, which is how Diff finds it.  The caret, and    *)
(* patches of long values, are left out.                                 *)
(*************************************************************************)
EXTENDS Integers, Sequences, FiniteSets, SequencesExt

CONSTANTS
    Writers,     \* the clients; each has one binding
    SeedText,    \* how many characters the row holds at first
    SeenLimit,   \* TEXT_SEEN_LIMIT: the writers a row remembers
    MaxRetries,  \* MAX_RETRIES of a binding
    TextBounds   \* how often each thing happens: a set of records [types,
                 \* erases, removes, refusals, denials, cuts, leaves, closes]

ASSUME TextConstants ==
    /\ IsFiniteSet(Writers) /\ "seed" \notin Writers
    /\ {SeedText, MaxRetries} \subseteq Nat /\ SeenLimit \in Nat \ {0}

VARIABLES
    bindings,   \* writer -> its TextBinding's fields, and whether it was
                \* refused since it last took the row
    heldRow,    \* writer -> the row in its store, or NoTextRow
    textOps,     \* writer -> ops of its queue the server has not handled
    textRow,    \* the row in the server's table
    rowTold,       \* writer -> the row as its result cache has it, or NoTextRow
    textFrames,     \* writer -> textFrames on their way to it
    typedBy,      \* writer -> how many characters it has typed
    erasedChars,     \* characters someone deleted, or whose writer gave them up
    besideRemove, \* characters typed while a remove waited to be sent
    textLeft    \* what may still happen

textVars == <<bindings, heldRow, textOps, textRow, rowTold, textFrames, typedBy, erasedChars,
              besideRemove, textLeft>>

-----------------------------------------------------------------------------
(* core/text.ts *)

NoTextRow == [kind |-> "gone"]
RowAfter(text, seen, deleted) ==
    [kind |-> "row", text |-> text, seen |-> seen, deleted |-> deleted]

PlaceOf(text, char) == CHOOSE i \in DOMAIN text : text[i] = char
CharsOf(text) == ToSet(text)

\* The longest run of characters two texts have in the same order.
SameOrder(a, b, chars) == \A x, y \in chars :
    PlaceOf(a, x) < PlaceOf(a, y) => PlaceOf(b, x) < PlaceOf(b, y)
MostShared(a, b, common) ==
    IF SameOrder(a, b, common) THEN common
    ELSE CHOOSE S \in SUBSET common :
            /\ SameOrder(a, b, S)
            /\ \A T \in SUBSET common : SameOrder(a, b, T) => Cardinality(T) <= Cardinality(S)
Anchors(a, b) ==
    SetToSortSeq(MostShared(a, b, CharsOf(a) \cap CharsOf(b)),
                 LAMBDA x, y : PlaceOf(a, x) < PlaceOf(a, y))

\* Hunks: between two anchors, what a has there is replaced by what b has.
GapStart(text, anchors, k) == IF k = 0 THEN 0 ELSE PlaceOf(text, anchors[k])
GapEnd(text, anchors, k) ==
    IF k = Len(anchors) THEN Len(text) ELSE PlaceOf(text, anchors[k + 1]) - 1
HunkAt(a, b, anchors, k) ==
    [from |-> GapStart(a, anchors, k), to |-> GapEnd(a, anchors, k),
     ins |-> SubSeq(b, GapStart(b, anchors, k) + 1, GapEnd(b, anchors, k))]
HunksBetween(a, b, anchors) ==
    SelectSeq([k \in 1 .. Len(anchors) + 1 |-> HunkAt(a, b, anchors, k - 1)],
              LAMBDA h : h.from # h.to \/ h.ins # <<>>)
Diff(a, b) == HunksBetween(a, b, Anchors(a, b))

ApplyHunks(text, hunks) ==
    LET From[i \in 1 .. Len(hunks) + 1, pos \in 0 .. Len(text)] ==
            IF i > Len(hunks) THEN SubSeq(text, pos + 1, Len(text))
            ELSE SubSeq(text, pos + 1, hunks[i].from) \o hunks[i].ins
                    \o From[i + 1, hunks[i].to]
    IN  From[1, 0]

HunksTouch(x, y) == x.from = y.from \/ (x.from < y.to /\ y.from < x.to)
LesserOf(i, j) == IF i <= j THEN i ELSE j
GreaterOf(i, j) == IF i >= j THEN i ELSE j

\* Hunks that touch delete both ranges and keep both inserts, ours first.
Weave(base, A, B) ==
    LET From[i \in 1 .. Len(A) + 1, j \in 1 .. Len(B) + 1, pos \in 0 .. Len(base)] ==
            IF i > Len(A) /\ j > Len(B) THEN SubSeq(base, pos + 1, Len(base))
            ELSE IF i <= Len(A) /\ j <= Len(B) /\ HunksTouch(A[i], B[j])
            THEN SubSeq(base, pos + 1, LesserOf(A[i].from, B[j].from)) \o A[i].ins
                    \o (IF A[i].ins = B[j].ins THEN <<>> ELSE B[j].ins)
                    \o From[i + 1, j + 1, GreaterOf(A[i].to, B[j].to)]
            ELSE IF j > Len(B) \/ (i <= Len(A) /\ A[i].from <= B[j].from)
            THEN SubSeq(base, pos + 1, A[i].from) \o A[i].ins \o From[i + 1, j, A[i].to]
            ELSE SubSeq(base, pos + 1, B[j].from) \o B[j].ins \o From[i, j + 1, B[j].to]
    IN  From[1, 1, 0]

Merge3(base, ours, theirs) ==
    IF ours = theirs \/ theirs = base THEN ours
    ELSE IF ours = base THEN theirs
    ELSE Weave(base, Diff(base, ours), Diff(base, theirs))

-----------------------------------------------------------------------------
(* server/conflict.ts *)

\* `_seen`: the latest write of each writer the text includes, oldest dropped.
SeenAfter(seen, edit) ==
    LET later == Append(SelectSeq(seen, LAMBDA s : s.who # edit.who),
                        [who |-> edit.who, n |-> edit.n])
    IN  SubSeq(later, GreaterOf(1, Len(later) - SeenLimit + 1), Len(later))

SeenOf(row, w) ==
    LET mine == {i \in DOMAIN row.seen : row.seen[i].who = w}
    IN  IF mine = {} THEN 0 ELSE row.seen[CHOOSE i \in mine : TRUE].n

ResolveText(row, edit) ==
    LET merged == Merge3(ApplyHunks(edit.value, edit.back), row.text, edit.value)
        seen == SeenAfter(row.seen, edit)
    IN  IF edit.remove
        THEN RowAfter(row.text, seen, row.deleted \/ row.text = edit.base)
        ELSE RowAfter(merged, seen, FALSE)

-----------------------------------------------------------------------------
(* client/text.ts *)

NewBinding ==
    [shadow |-> <<>>, local |-> <<>>, sent |-> <<>>, flight |-> 0, opId |-> 0,
     retries |-> 0, writes |-> 0, exists |-> FALSE, removing |-> FALSE,
     timer |-> FALSE, open |-> TRUE, denied |-> FALSE]

ScheduleFlush(b) == IF b.open THEN [b EXCEPT !.timer = TRUE] ELSE b
FlushTyping(b) == IF b.local # b.shadow THEN ScheduleFlush(b) ELSE b
FlushRest(b) == IF b.local # b.shadow \/ b.removing THEN ScheduleFlush(b) ELSE b

\* The first row: what was typed before it goes on top.
FirstRow(b, server) ==
    [b EXCEPT !.exists = TRUE, !.shadow = server,
              !.local = IF b.local = b.shadow THEN server ELSE Merge3(b.shadow, server, @)]

\* The row has the write that was in flight.
FlightOver(b) == [b EXCEPT !.flight = 0, !.retries = 0]

\* What the server's text has that `from` had not goes into the local text.
TakeText(b, from, server) ==
    [b EXCEPT !.opId = 0, !.denied = FALSE, !.shadow = server,
              !.local = IF server # b.shadow \/ from # server
                        THEN Merge3(from, server, @) ELSE @]

\* mutant: a write that came back is merged as if it had not been sent
TwicePump(b, row, w) ==
    IF row = NoTextRow THEN [b EXCEPT !.exists = FALSE, !.flight = 0]
    ELSE IF ~b.exists THEN FlushTyping(FirstRow(b, row.text))
    ELSE IF b.flight = 0 THEN TakeText(b, b.shadow, row.text)
    ELSE IF SeenOf(row, w) < b.flight THEN b
    ELSE FlushRest(TakeText(FlightOver(b), b.shadow, row.text))

\* What the binding makes of the store's row.
PumpRow(b, row, w) ==
    IF row = NoTextRow THEN [b EXCEPT !.exists = FALSE, !.flight = 0]
    ELSE IF ~b.exists THEN FlushTyping(FirstRow(b, row.text))
    ELSE IF b.flight = 0 THEN TakeText(b, b.shadow, row.text)
    ELSE IF SeenOf(row, w) < b.flight THEN b
    ELSE FlushRest(TakeText(FlightOver(b), b.sent, row.text))

\* flush: nothing while a write is in flight; a remove goes before an edit.
MayFlush(b) == b.flight = 0 /\ b.exists /\ (b.removing \/ b.local # b.shadow)
Flushed(b) ==
    [b EXCEPT !.removing = FALSE, !.writes = @ + 1, !.flight = b.writes + 1,
              !.opId = b.writes + 1, !.sent = b.local]
EditOf(b, w) ==
    [who |-> w, n |-> b.writes + 1, remove |-> b.removing, base |-> b.shadow,
     value |-> IF b.removing THEN <<>> ELSE b.local,
     back |-> IF b.removing THEN <<>> ELSE Diff(b.local, b.shadow)]

\* The server refused the write: try again later, or go back to its text.
EditRejected(b, retryable) ==
    LET freed == [b EXCEPT !.flight = 0, !.opId = 0]
    IN  IF retryable /\ b.retries < MaxRetries
        THEN ScheduleFlush([freed EXCEPT !.retries = @ + 1])
        ELSE [freed EXCEPT !.retries = 0, !.local = b.shadow, !.denied = TRUE]

-----------------------------------------------------------------------------

SeedChars == [i \in 1 .. SeedText |-> <<"seed", i>>]

TextInit ==
    /\ bindings = [w \in Writers |-> NewBinding]
    /\ heldRow = [w \in Writers |-> NoTextRow]
    /\ textOps = [w \in Writers |-> <<>>]
    /\ textRow = RowAfter(SeedChars, <<>>, FALSE)
    /\ rowTold = [w \in Writers |-> NoTextRow]
    /\ textFrames = [w \in Writers |-> <<>>]
    /\ typedBy = [w \in Writers |-> 0]
    /\ erasedChars = {}
    /\ besideRemove = {}
    /\ textLeft \in TextBounds

TextUses(what) == textLeft[what] > 0 /\ textLeft' = [textLeft EXCEPT ![what] = @ - 1]
SetsBinding(w, b) == bindings' = [bindings EXCEPT ![w] = b]

\* set: the user, looking at an open binding, types a character anywhere.
TypeIn(w) ==
    /\ bindings[w].open
    /\ TextUses("types")
    /\ typedBy' = [typedBy EXCEPT ![w] = @ + 1]
    /\ \E at \in 0 .. Len(bindings[w].local) :
        LET next == InsertAt(bindings[w].local, at + 1, <<w, typedBy[w] + 1>>)
        IN  SetsBinding(w, ScheduleFlush([bindings[w] EXCEPT !.local = next]))
    /\ besideRemove' = IF bindings[w].removing
                       THEN besideRemove \cup {<<w, typedBy[w] + 1>>} ELSE besideRemove
    /\ UNCHANGED <<heldRow, textOps, textRow, rowTold, textFrames, erasedChars>>

\* set: the user deletes a run of characters.
EraseRun(w) ==
    /\ bindings[w].open
    /\ TextUses("erases")
    /\ \E i \in DOMAIN bindings[w].local : \E j \in i .. Len(bindings[w].local) :
        LET text == bindings[w].local
        IN  /\ SetsBinding(w, ScheduleFlush([bindings[w] EXCEPT
                    !.local = SubSeq(text, 1, i - 1) \o SubSeq(text, j + 1, Len(text))]))
            /\ erasedChars' = erasedChars \cup CharsOf(SubSeq(text, i, j))
    /\ UNCHANGED <<heldRow, textOps, textRow, rowTold, textFrames, typedBy, besideRemove>>

\* remove: the local text goes back to the server's.
RemoveRow(w) ==
    /\ bindings[w].open
    /\ TextUses("removes")
    /\ SetsBinding(w, ScheduleFlush([bindings[w] EXCEPT !.removing = TRUE, !.local = bindings[w].shadow]))
    /\ erasedChars' = erasedChars \cup (CharsOf(bindings[w].local) \ CharsOf(bindings[w].shadow))
    /\ UNCHANGED <<heldRow, textOps, textRow, rowTold, textFrames, typedBy, besideRemove>>

\* The flush timer fires.
FlushDue(w) ==
    LET b == [bindings[w] EXCEPT !.timer = FALSE]
    IN  /\ bindings[w].timer
        /\ SetsBinding(w, IF MayFlush(b) THEN Flushed(b) ELSE b)
        /\ textOps' = IF MayFlush(b)
                     THEN [textOps EXCEPT ![w] = Append(@, EditOf(b, w))] ELSE textOps
        /\ UNCHANGED <<heldRow, textRow, rowTold, textFrames, typedBy, erasedChars, textLeft, besideRemove>>

\* close sends what may be sent now, and stops listening.
CloseBinding(w) ==
    LET b == bindings[w]
        shut == [(IF MayFlush(b) THEN Flushed(b) ELSE b) EXCEPT !.open = FALSE, !.timer = FALSE]
    IN  /\ b.open
        /\ TextUses("closes")
        /\ SetsBinding(w, shut)
        /\ textOps' = IF MayFlush(b) THEN [textOps EXCEPT ![w] = Append(@, EditOf(b, w))] ELSE textOps
        /\ UNCHANGED <<heldRow, textRow, rowTold, textFrames, typedBy, erasedChars, besideRemove>>

\* open again: follow the row from what the store holds.
ReopenBinding(w) ==
    /\ ~bindings[w].open
    /\ SetsBinding(w, PumpRow([bindings[w] EXCEPT !.open = TRUE], heldRow[w], w))
    /\ UNCHANGED <<heldRow, textOps, textRow, rowTold, textFrames, typedBy, erasedChars, textLeft, besideRemove>>

\* The server merges the first op of a client's queue under the row's lock.
MergeAtServer(w) ==
    /\ textOps[w] # <<>>
    /\ textRow' = ResolveText(textRow, Head(textOps[w]))
    /\ textOps' = [textOps EXCEPT ![w] = Tail(@)]
    /\ UNCHANGED <<bindings, heldRow, rowTold, textFrames, typedBy, erasedChars, textLeft, besideRemove>>

\* The server refuses it: it is overloaded or limits its rate, or for good.
RefuseEdit(w) ==
    /\ textOps[w] # <<>>
    /\ \E again \in BOOLEAN :
        /\ TextUses(IF again THEN "refusals" ELSE "denials")
        /\ textFrames' = [textFrames EXCEPT ![w] =
            Append(@, [kind |-> "reject", n |-> Head(textOps[w]).n, again |-> again])]
    /\ textOps' = [textOps EXCEPT ![w] = Tail(@)]
    /\ UNCHANGED <<bindings, heldRow, textRow, rowTold, typedBy, erasedChars, besideRemove>>

\* A broadcast finds that a client's cached row is not the table's.
TellRow(w) ==
    /\ rowTold[w] # textRow
    /\ rowTold' = [rowTold EXCEPT ![w] = textRow]
    /\ textFrames' = [textFrames EXCEPT ![w] = Append(@, textRow)]
    /\ UNCHANGED <<bindings, heldRow, textOps, textRow, typedBy, erasedChars, textLeft, besideRemove>>

\* The row leaves the client's window, or its query's result.
RowLeaves(w) ==
    /\ rowTold[w] # NoTextRow
    /\ TextUses("leaves")
    /\ rowTold' = [rowTold EXCEPT ![w] = NoTextRow]
    /\ textFrames' = [textFrames EXCEPT ![w] = Append(@, NoTextRow)]
    /\ UNCHANGED <<bindings, heldRow, textOps, textRow, typedBy, erasedChars, besideRemove>>

\* A frame changes the store's row and its listeners are called, or it tells
\* the write's binding that the write was refused.
TakeFrame(w) ==
    LET f == Head(textFrames[w])
        b == bindings[w]
        mine == b.open /\ b.opId = f.n
    IN  /\ textFrames[w] # <<>>
        /\ textFrames' = [textFrames EXCEPT ![w] = Tail(@)]
        /\ \/ /\ f.kind # "reject"
              /\ heldRow' = [heldRow EXCEPT ![w] = f]
              /\ SetsBinding(w, IF b.open THEN PumpRow(b, f, w) ELSE b)
              /\ erasedChars' = erasedChars
           \/ /\ f.kind = "reject"
              /\ LET after == IF mine THEN EditRejected(b, f.again) ELSE b
                 IN  /\ SetsBinding(w, after)
                     /\ erasedChars' = erasedChars \cup (CharsOf(b.local) \ CharsOf(after.local))
              /\ heldRow' = heldRow
        /\ UNCHANGED <<textOps, textRow, rowTold, typedBy, textLeft, besideRemove>>

\* The connection drops: textFrames on their way are lost, ops stay in the queue,
\* and the resume after it has the row sent again.
CutLine(w) ==
    /\ TextUses("cuts")
    /\ textFrames' = [textFrames EXCEPT ![w] = <<>>]
    /\ rowTold' = [rowTold EXCEPT ![w] = NoTextRow]
    /\ UNCHANGED <<bindings, heldRow, textOps, textRow, typedBy, erasedChars, besideRemove>>

TextNext == \E w \in Writers :
    \/ TypeIn(w) \/ EraseRun(w) \/ RemoveRow(w) \/ FlushDue(w) \/ CloseBinding(w) \/ ReopenBinding(w)
    \/ MergeAtServer(w) \/ RefuseEdit(w) \/ TellRow(w) \/ RowLeaves(w) \/ TakeFrame(w) \/ CutLine(w)

TextSpec == TextInit /\ [][TextNext]_textVars

-----------------------------------------------------------------------------

CharsTyped == {<<w, i>> : w \in Writers, i \in 1 .. 9} \cup CharsOf(SeedChars)

\* Every text is a sequence of characters that were typed; a write in flight
\* was numbered by its binding.
TextTypeOK ==
    /\ \A w \in Writers :
        /\ \A text \in {bindings[w].shadow, bindings[w].local, bindings[w].sent} :
            CharsOf(text) \subseteq CharsTyped
        /\ bindings[w].flight \in 0 .. bindings[w].writes
        /\ bindings[w].retries \in 0 .. MaxRetries
    /\ Len(textRow.seen) <= SeenLimit

\* No keystroke is applied twice, neither in the row nor in what a user sees:
\* a write coming back is not merged into the typing it came from.
NothingTwice ==
    \A text \in {textRow.text} \cup {bindings[w].local : w \in Writers} :
        Cardinality(CharsOf(text)) = Len(text)

\* What someone typed stays in front of them, and is in the row once their
\* write landed, until somebody deletes it or the write is refused for good.
NothingTypedLost ==
    \A w \in Writers : \A i \in 1 .. typedBy[w] :
        \/ <<w, i>> \in erasedChars \cup besideRemove
        \/ <<w, i>> \in CharsOf(bindings[w].local)

\* When every timer has fired, every write is merged and every frame arrived,
\* all bindings show the row's text: no binding waits for what will not come.
TextAtRest ==
    \A w \in Writers :
        /\ ~bindings[w].timer /\ bindings[w].open
        /\ textOps[w] = <<>> /\ textFrames[w] = <<>> /\ rowTold[w] = textRow
BindingsMeet ==
    TextAtRest => \A w \in Writers :
        LET b == bindings[w]
        IN  /\ b.flight = 0
            /\ b.local = b.shadow
            /\ b.shadow = textRow.text \/ b.denied

\* Two people typing in one text: no insertion is applied twice or lost, and
\* when all is quiet both see the same.
\* Each as stated above.
TextInv == TextTypeOK /\ NothingTwice /\ NothingTypedLost /\ BindingsMeet
=============================================================================
