------------------------------ MODULE HtmxViews -----------------------------
(***************************************************************************)
(* The htmx adapter (htmx/sync.ts, htmx/router.ts): elements whose content *)
(* is a `reflect:` read of local rows.  A read binds the element it is     *)
(* swapped into to its action; a change of the table marks it dirty and a  *)
(* zero timer re-renders every element bound to it, through htmx.  htmx    *)
(* itself is outside: it asks the adapter in the turn of the request and   *)
(* swaps the answers into the page later, in the order they were given.    *)
(***************************************************************************)
EXTENDS Naturals, Sequences, FiniteSets

CONSTANTS
  Targets,    \* elements answers are swapped into
  Filters,    \* the collection reads: `reflect:todos?filter=...`
  HtmxBounds  \* [reads, changes, removals |-> ...]: how often each happens

Unbound == "unbound"

ASSUME HtmxAssumption ==
  /\ IsFiniteSet(Targets) /\ Unbound \notin Filters
  /\ \A b \in HtmxBounds : \A k \in {"reads", "changes", "removals"} : b[k] \in Nat

VARIABLES
  rowNow,   \* the row: version 0 when there is none, and whether it is done
  boundTo,  \* target -> the action of the last read swapped into it
  onPage,   \* the targets that are in the document
  markup,   \* target -> what its content was rendered from
  box,      \* target -> [checked, touched]: the checkbox in it as the user sees it
  flushing, \* the table is dirty and the zero timer runs
  swaps,    \* answers htmx has not swapped in yet
  open,     \* install() was called and close() was not
  budget    \* what is left of the behaviour's bounds

htmxVars == <<rowNow, boundTo, onPage, markup, box, flushing, swaps, open, budget>>

OneRow == "row"                       \* the action `reflect:todos/<rowId>`
Verbs == {"GET", "POST", "PUT", "PATCH", "DELETE"}
Reads == Filters \cup {OneRow}
Use1(k) == budget[k] > 0 /\ budget' = [budget EXCEPT ![k] = @ - 1]
NoMarkup == [from |-> Unbound, version |-> 0]

HtmxInit ==
  /\ rowNow = [version |-> 0, there |-> FALSE, done |-> FALSE]
  /\ boundTo = [t \in Targets |-> Unbound] /\ onPage = Targets
  /\ markup = [t \in Targets |-> NoMarkup]
  /\ box = [t \in Targets |-> [checked |-> FALSE, touched |-> FALSE]]
  /\ flushing = FALSE /\ swaps = <<>> /\ open = TRUE
  /\ budget \in HtmxBounds

\* serve() of a read: it records the binding and renders the rows there are; a
\* row that is missing answers 204, which swaps nothing.
Answer(t, a, live) == [into |-> t, from |-> a, row |-> rowNow, live |-> live]
Answered(a) == a # OneRow \/ rowNow.there

Read(t, a) ==
  /\ open /\ t \in onPage /\ Use1("reads")
  /\ boundTo' = [boundTo EXCEPT ![t] = a]
  /\ swaps' = IF Answered(a) THEN Append(swaps, Answer(t, a, FALSE)) ELSE swaps
  /\ UNCHANGED <<rowNow, onPage, markup, box, flushing, open>>

\* mutant: a change that finds a re-render under way is left to it
RenderUnlessBusy == IF open /\ swaps = <<>> THEN flushing' = TRUE ELSE UNCHANGED flushing
\* scheduleRender(), called by the store whenever the table changes: one timer for
\* however many changes of a turn.
ScheduleRender == IF open THEN flushing' = TRUE ELSE UNCHANGED flushing
Becomes(there, done) ==
  /\ rowNow' = [version |-> rowNow.version + 1, there |-> there, done |-> done]
  /\ ScheduleRender

\* resolveOperation: what a request of a verb is, to the collection or to a row.
\* Anything else is an error status, which htmx does not swap.
Kind(verb, toRow) ==
  CASE verb = "POST" /\ ~toRow -> "insert"
    [] verb \in {"PUT", "PATCH"} /\ toRow -> "update"
    [] verb = "DELETE" /\ toRow -> "remove"
    [] verb = "GET" -> "read"
    [] OTHER -> "error"
After(kind, done) ==
  CASE kind = "insert" -> [there |-> TRUE, done |-> done]
    [] kind = "update" /\ rowNow.there -> [there |-> TRUE, done |-> done]
    [] OTHER -> [there |-> FALSE, done |-> FALSE]

\* serve() of a write, which answers 204, or a peer's op of the same kind.
FormWrite(verb, toRow, done) ==
  LET kind == Kind(verb, toRow) now == After(kind, done)
  IN /\ kind \in {"insert", "update", "remove"} /\ Use1("changes")
     /\ now # [there |-> rowNow.there, done |-> rowNow.done]
     /\ Becomes(now.there, now.done)
     /\ UNCHANGED <<boundTo, onPage, markup, box, swaps, open>>

\* The user clicks the checkbox: from now on the content attribute does not drive
\* it, and the click writes what it shows.
Click(t) ==
  /\ open /\ t \in onPage /\ markup[t].version > 0 /\ rowNow.there /\ Use1("changes")
  /\ box' = [box EXCEPT ![t] = [checked |-> ~@.checked, touched |-> TRUE]]
  /\ Becomes(TRUE, ~box[t].checked)
  /\ UNCHANGED <<boundTo, onPage, markup, swaps, open>>

\* The flush: every bound element that is still in the document is read again with
\* the action its binding remembers; the others lose their binding.  Elements are
\* read in the order they were bound, which is not kept here: any order will do.
OnPageBound == {t \in onPage : boundTo[t] # Unbound}
Rendered == {Answer(t, boundTo[t], TRUE) : t \in {u \in OnPageBound : Answered(boundTo[u])}}
Renders ==
  {as \in [1..Cardinality(Rendered) -> Rendered] : \A r \in Rendered : \E i \in DOMAIN as : as[i] = r}
Forgotten == [t \in Targets |-> IF t \in onPage THEN boundTo[t] ELSE Unbound]
Flush ==
  /\ flushing /\ flushing' = FALSE
  /\ \E as \in Renders : swaps' = swaps \o as
  /\ boundTo' = Forgotten
  /\ UNCHANGED <<rowNow, onPage, markup, box, open, budget>>

\* refresh(): the same at once, on the app's word.
Refresh ==
  /\ open /\ ~flushing /\ OnPageBound # {} /\ Use1("reads")
  /\ \E as \in Renders : swaps' = swaps \o as
  /\ boundTo' = Forgotten
  /\ UNCHANGED <<rowNow, onPage, markup, box, flushing, open>>

\* resyncToggles(): after a re-render the store caused, the control's property is
\* set from the attribute, whoever touched it.
Resynced(b, done) == [b EXCEPT !.checked = done]

\* htmx swaps an answer in.  Its morph leaves the property of a touched control.
Swap ==
  /\ swaps # <<>> /\ swaps' = Tail(swaps)
  /\ LET s == Head(swaps) t == s.into
         morphed == IF box[t].touched THEN box[t] ELSE [box[t] EXCEPT !.checked = s.row.done]
     IN IF t \in onPage
        THEN /\ markup' = [markup EXCEPT ![t] = [from |-> s.from, version |-> s.row.version]]
             /\ box' = [box EXCEPT ![t] = IF s.live THEN Resynced(morphed, s.row.done) ELSE morphed]
        ELSE UNCHANGED <<markup, box>>
  /\ UNCHANGED <<rowNow, boundTo, onPage, flushing, open, budget>>

\* Some other swap takes an element out of the document.
Leaves(t) ==
  /\ t \in onPage /\ Use1("removals")
  /\ onPage' = onPage \ {t}
  /\ UNCHANGED <<rowNow, boundTo, markup, box, flushing, swaps, open>>

\* close(): the timer is cleared, the listener and every binding dropped.
CloseHtmx ==
  /\ open /\ Use1("removals") /\ open' = FALSE
  /\ flushing' = FALSE
  /\ boundTo' = [t \in Targets |-> Unbound]
  /\ UNCHANGED <<rowNow, onPage, markup, box, swaps>>

HtmxNext ==
  \/ \E t \in Targets : Click(t) \/ Leaves(t) \/ \E a \in Reads : Read(t, a)
  \/ \E verb \in Verbs, toRow, done \in BOOLEAN : FormWrite(verb, toRow, done)
  \/ Flush \/ Refresh \/ Swap \/ CloseHtmx

HtmxSpec == HtmxInit /\ [][HtmxNext]_htmxVars

-----------------------------------------------------------------------------
Still == ~flushing /\ swaps = <<>>

HtmxTypeOK ==
  /\ rowNow.version \in Nat /\ rowNow.there \in BOOLEAN /\ (rowNow.done => rowNow.there)
  /\ boundTo \in [Targets -> Reads \cup {Unbound}] /\ onPage \subseteq Targets
  /\ ~open => ~flushing /\ OnPageBound = {}
  /\ \A t \in Targets : markup[t].version <= rowNow.version

\* htmx/sync.ts "the most recent read wins and re-renders alone": once nothing is
\* on its way, every bound element in the document shows the rows as they are now,
\* under the action last read into it; one row's view keeps its markup when the
\* row is gone.
ViewsAreCurrent ==
  Still => \A t \in OnPageBound : boundTo[t] # OneRow \/ rowNow.there =>
             markup[t] = [from |-> boundTo[t], version |-> rowNow.version]

\* resyncToggles: "the box stays ticked while the rest of the row renders as open"
\* never lasts: once nothing is on its way, a checkbox shows what the row says,
\* whoever clicked it before.
BoxesTellTheRow ==
  Still => \A t \in OnPageBound : rowNow.there => box[t].checked = rowNow.done

\* A rendered view that is quiet is the one of the rows now, and its boxes tell
\* what the row says.
\* Each as stated above.
HtmxInv == HtmxTypeOK /\ ViewsAreCurrent /\ BoxesTellTheRow
=============================================================================
