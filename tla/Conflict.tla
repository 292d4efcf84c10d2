------------------------------ MODULE Conflict ------------------------------
(***************************************************************************)
(* Conflict resolution, src/server/conflict.ts: how an incoming op meets   *)
(* the mirrored row.  A policy is a function from the op and the row as    *)
(* read (with its row HLC and its per-column clocks) to a verdict, the row *)
(* to write and its clocks.                                                *)
(*                                                                         *)
(* The value of a column is abstracted to the set of edits it reflects:    *)
(* an op writes the value {op}, a resolver that merges content returns the *)
(* union, and the empty set stands for a column the row does not have.     *)
(* HLCs are natural numbers, 0 standing for null; two ops never share one. *)
(***************************************************************************)
EXTENDS Naturals

CONSTANTS Cols,      \* the columns of a row
          Edits,     \* the ops that may write them
          NoRow      \* null

\* The row's own clock is kept among those of its columns, under a name the
\* code takes no column to have.
RowClock  == "_row"

ASSUME ConflictAssumption == NoRow \notin [Cols -> SUBSET Edits] /\ RowClock \notin Cols

Data      == [Cols -> SUBSET Edits]
Clocks    == [Cols \cup {RowClock} -> Nat]
Kinds     == {"insert", "update", "delete"}

Existing  == [row : Data \cup {NoRow}, hlc : Nat, clocks : Clocks]
Incoming  == [kind : Kinds, payload : Data \cup {NoRow}, hlc : Nat]
Verdict   == [accepted : BOOLEAN, row : Data \cup {NoRow}, clocks : Clocks]

Missing == [row |-> NoRow, hlc |-> 0, clocks |-> [c \in Cols \cup {RowClock} |-> 0]]

\* The columns an op's payload names.
Touched(in) == IF in.payload = NoRow THEN {} ELSE {c \in Cols : in.payload[c] # {}}

\* { ...row, ...payload }
Overlay(row, in) == [c \in Cols |-> IF c \in Touched(in) THEN in.payload[c] ELSE row[c]]

Stamped(clocks, cols, hlc) ==
  [c \in Cols \cup {RowClock} |-> IF c \in cols THEN hlc ELSE clocks[c]]

BuildColClocks(in) == Stamped(Missing.clocks, Touched(in) \cup {RowClock}, in.hlc)

Accept(row, clocks) == [accepted |-> TRUE, row |-> row, clocks |-> clocks]
Reject(existing) == [accepted |-> FALSE, row |-> existing.row, clocks |-> existing.clocks]

\* No row to conflict with: the payload becomes the row.
Unopposed(in) == Accept(IF in.kind = "delete" THEN NoRow ELSE in.payload, BuildColClocks(in))

\* Mutant: a tie, or an older op, wins too.
ResolveLwwAlways(in, existing) ==
  IF existing.row = NoRow \/ existing.hlc = 0 THEN Unopposed(in)
  ELSE Accept(CASE in.kind = "delete" -> NoRow
                [] in.kind = "update" -> Overlay(existing.row, in)
                [] in.kind = "insert" -> in.payload,
              Stamped(existing.clocks, Touched(in) \cup {RowClock}, in.hlc))

\* The newer HLC wins the row; an update keeps the columns it does not name.
ResolveLww(in, existing) ==
  IF existing.row = NoRow \/ existing.hlc = 0 THEN Unopposed(in)
  ELSE IF in.hlc <= existing.hlc THEN Reject(existing)
  ELSE Accept(CASE in.kind = "delete" -> NoRow
                [] in.kind = "update" -> Overlay(existing.row, in)
                [] in.kind = "insert" -> in.payload,
              Stamped(existing.clocks, Touched(in) \cup {RowClock}, in.hlc))

\* Mutant: the op is compared with the row's clock, not with each column's.
ResolveMergeByRow(in, existing) ==
  LET won == {c \in Touched(in) : in.hlc > existing.clocks[RowClock]}
  IN  IF existing.row = NoRow \/ existing.hlc = 0 THEN Unopposed(in)
      ELSE IF in.kind = "delete"
      THEN IF in.hlc > existing.hlc
           THEN Accept(NoRow, Stamped(existing.clocks, {RowClock}, in.hlc))
           ELSE Reject(existing)
      ELSE IF won = {} THEN Reject(existing)
      ELSE Accept([c \in Cols |-> IF c \in won THEN in.payload[c] ELSE existing.row[c]],
                  Stamped(existing.clocks, won \cup {RowClock}, in.hlc))

\* Each named column goes to the newer HLC; a delete is decided by the row's.
ResolveMerge(in, existing) ==
  LET won == {c \in Touched(in) : in.hlc > existing.clocks[c]}
      row == IF in.hlc > existing.clocks[RowClock] THEN {RowClock} ELSE {}
  IN  IF existing.row = NoRow \/ existing.hlc = 0 THEN Unopposed(in)
      ELSE IF in.kind = "delete"
      THEN IF in.hlc > existing.hlc
           THEN Accept(NoRow, Stamped(existing.clocks, {RowClock}, in.hlc))
           ELSE Reject(existing)
      ELSE IF won = {} THEN Reject(existing)
      ELSE Accept([c \in Cols |-> IF c \in won THEN in.payload[c] ELSE existing.row[c]],
                  Stamped(existing.clocks, won \cup row, in.hlc))

\* Mutant: a second write replaces the first.
ResolveServerReplaces(in, existing) == Unopposed(in)

\* The first write stays.
ResolveServer(in, existing) ==
  IF existing.row = NoRow THEN Unopposed(in) ELSE Reject(existing)

\* A resolver supplied by the application, standing for those that merge by
\* content: the row keeps what it has and gains what the op brings.
UnionResolver(in, existing) ==
  [c \in Cols |-> existing.row[c] \cup (IF c \in Touched(in) THEN in.payload[c] ELSE {})]

\* The resolver decides; only the columns it changed are stamped.
ResolveCustom(in, existing) ==
  IF existing.row = NoRow THEN Unopposed(in)
  ELSE LET row     == UnionResolver(in, existing)
           changed == {c \in Cols : row[c] # existing.row[c]}
       IN  Accept(row, Stamped(existing.clocks,
                               IF changed = {} THEN {} ELSE changed \cup {RowClock}, in.hlc))

Policies == {"lww", "merge", "server", "custom"}

ResolveConflict(policy, in, existing) ==
  CASE policy = "lww"    -> ResolveLww(in, existing)
    [] policy = "merge"  -> ResolveMerge(in, existing)
    [] policy = "server" -> ResolveServer(in, existing)
    [] policy = "custom" -> ResolveCustom(in, existing)
=============================================================================
