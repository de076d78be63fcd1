------------------------------ MODULE MCMsgBase ------------------------------
(* The message base on small boards.  PruneBatch and MaxPerBoard are scaled *)
(* down so that pruning and the hard ceiling are reached in a few posts.    *)
EXTENDS MsgBaseRefinement

=============================================================================
