--------------------------- MODULE MCOnftBridge -----------------------------
(***************************************************************************)
(* Instances of OnftBridge for TLC: the recipients that are sent to are a  *)
(* parameter, and a payload repeats no id (Send refuses the others).  The  *)
(* messages from home and those back to it have bounds of their own.       *)
(***************************************************************************)
EXTENDS OnftBridge, TLC

CONSTANTS
  Recipient,
  Outward,   \* bound: messages sent from home along each path
  Back       \* bound: messages sent along each other path

DistinctIds == {ids \in Batch : NoRepeat([ids |-> ids])}

MCPayload == [to : Recipient, ids : DistinctIds]

MCMaxNonce == [q \in Path |-> IF q[1] = Home THEN Outward ELSE Back]

\* No property of the run that uses it tells one token from another.
TokenSymmetry == Permutations(Token)

=============================================================================
