--------------------------- MODULE MCOpProcessor ---------------------------
(***************************************************************************)
(* Instances of OpProcessor for TLC.  Five ops on a row of two columns,    *)
(* whose HLCs are not in the order they are likely to arrive in, the like  *)
(* on a row of another policy, and a row that two clients create.          *)
(***************************************************************************)
EXTENDS OpProcessor, TLC

Edit(row, kind, cols, hlc, b) == [row |-> row, kind |-> kind, cols |-> cols, hlc |-> hlc, batch |-> b]

MCOp ==
  [o \in {"ins", "title", "body", "both", "del"} |->
    CASE o = "ins"   -> Edit("r", "insert", {"title", "body"}, 1, NoBatch)
      [] o = "title" -> Edit("r", "update", {"title"}, 4, "b1")
      [] o = "body"  -> Edit("r", "update", {"body"}, 2, "b1")
      [] o = "both"  -> Edit("r", "update", {"title", "body"}, 3, NoBatch)
      [] o = "del"   -> Edit("r", "delete", {}, 5, NoBatch)]

MCOps == DOMAIN MCOp

\* Three rows on one instance: the ops above on r, the delete older than the
\* last update; the same without the delete on m; two inserts of s.
ManyRowOp ==
  [MCOp EXCEPT !["del"].hlc = 3, !["both"].hlc = 5]
    @@ "m_ins"   :> Edit("m", "insert", {"title", "body"}, 6, NoBatch)
    @@ "m_title" :> Edit("m", "update", {"title"}, 9, "b2")
    @@ "m_body"  :> Edit("m", "update", {"body"}, 7, "b2")
    @@ "m_both"  :> Edit("m", "update", {"title", "body"}, 8, NoBatch)
    @@ "s_1"     :> Edit("s", "insert", {"title"}, 10, NoBatch)
    @@ "s_2"     :> Edit("s", "insert", {"title"}, 11, NoBatch)
ManyRowOps == DOMAIN ManyRowOp

LwwRow    == [r \in {"r"} |-> "lww"]
MergeRow  == [r \in {"r"} |-> "merge"]
CustomRow == [r \in {"r"} |-> "custom"]
ThreePolicies == "r" :> "lww" @@ "m" :> "merge" @@ "s" :> "server"

Handled(i, ops) == [inst |-> i, ops |-> ops]

\* Three clients that write r, and three that write m and s.
LwwRequests == {"q1", "q2", "q3"}
ManyRows ==
  "q1" :> Handled(1, <<"ins", "title">>) @@ "q2" :> Handled(1, <<"body", "both">>)
    @@ "q3" :> Handled(1, <<"del">>)
    @@ "p1" :> Handled(1, <<"m_ins", "s_1">>) @@ "p2" :> Handled(1, <<"m_title", "m_body">>)
    @@ "p3" :> Handled(1, <<"m_both", "s_2">>)
ManyRequests == DOMAIN ManyRows

\* Rows do not wait for each other, so the two groups are run one at a time.
OneGroup ==
  \/ \A q \in LwwRequests : pc[q] = "idle"
  \/ \A q \in Requests \ LwwRequests : pc[q] = "idle"

\* Two instances, one of which also gets an op of the other's again, twice.
TwoInstances ==
  "q1" :> Handled(1, <<"ins", "title">>) @@ "q2" :> Handled(2, <<"body">>)
    @@ "q3" :> Handled(2, <<"title", "both", "title">>)

\* The same, with nothing but the op sent again in the third message.
SentAgain == [TwoInstances EXCEPT !["q3"].ops = <<"title", "title">>]

RequestNames == {"q1", "q2", "q3"}
=============================================================================
