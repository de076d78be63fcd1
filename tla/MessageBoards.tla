----------------------------- MODULE MessageBoards -----------------------------
(* What the message base promises a caller: each board is a growing list of  *)
(* messages.  A message keeps its number, text and place in its thread for   *)
(* ever; it can only be removed from view.  The number of visible messages   *)
(* of a board never passes the board's limit.                                *)
EXTENDS Integers, FiniteSets, Sequences

CONSTANTS Boards, Limit, Texts

VARIABLE shelf     \* [board -> sequence of messages]

Visible(b) == {i \in DOMAIN shelf[b] : shelf[b][i].live}

Init == shelf = [b \in Boards |-> << >>]

(* A new message, or a reply to one that is still known (a message that was *)
(* just removed can still be replied to by who is reading it).              *)
Post(b, parent, text) ==
  LET number == Len(shelf[b]) + 1
  IN  /\ Cardinality(Visible(b)) < Limit
      /\ parent \in {0} \cup DOMAIN shelf[b]
      /\ shelf' = [shelf EXCEPT ![b] = Append(@,
           [text   |-> text,
            parent |-> parent,
            root   |-> IF parent = 0 THEN number ELSE shelf[b][parent].root,
            live   |-> TRUE])]

Remove(b, i) ==
  /\ i \in Visible(b)
  /\ shelf' = [shelf EXCEPT ![b][i].live = FALSE]

Next ==
  \E b \in Boards :
    \/ \E parent \in {0} \cup DOMAIN shelf[b], text \in Texts :
         Post(b, parent, text)
    \/ \E i \in DOMAIN shelf[b] : Remove(b, i)

Spec == Init /\ [][Next]_shelf

=============================================================================
