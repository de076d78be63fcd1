-------------------------- MODULE MsgBaseRefinement --------------------------
(* The message base implements MessageBoards: the shelf of a board is what a *)
(* reader who steps through its index is shown.                              *)
EXTENDS MsgBase

Known(b) == {i \in RecNums : idx[b][i].id # 0}

(* A record as a reader sees it.                                           *)
Shown(b, i) ==
  LET r == idx[b][i]
  IN  [text |-> Body(b, r), parent |-> r.parent, root |-> r.root,
       live |-> ~r.dele]

shelf == [b \in Boards |-> [i \in 1..Cardinality(Known(b)) |-> Shown(b, i)]]

Texts == {[j \in 1..len |-> tag] : len \in Lens, tag \in 1..MaxPosts}

Abstract == INSTANCE MessageBoards WITH
  Boards <- Boards,
  Limit  <- Limit,
  Texts  <- Texts,
  shelf  <- shelf

(* Every write of the message base adds one whole message at the end of the *)
(* list, removes one from view, or is invisible to a reader; text, number   *)
(* and thread of a message never change once it can be seen.                *)
ImplementsMessageBoards == Abstract!Spec

=============================================================================
