--------------------------- MODULE MCRagnarokMint ---------------------------
(***************************************************************************)
(* RagnarokMint for TLC: one user owns old tokens in two collections, or   *)
(* chips, and others get them by transfers only.                           *)
(***************************************************************************)
EXTENDS RagnarokMint, TLC

CONSTANTS alice, bob

\* As many copies of an id as the number says, or none.
None(ids) == [id \in ids |-> 0]
Copies(ids) == alice :> [id \in ids |-> id] @@ bob :> None(ids)
Single(ids) == alice :> [None(ids) EXCEPT ![1] = 1] @@ bob :> None(ids)
Nothing(ids) == [u \in User |-> None(ids)]

OldTokensOrChips ==
  {[old |-> [r \in Ronin |->
               IF r = FirstRonin THEN Copies(OldId) ELSE Single(OldId)],
    chips |-> Nothing(Chip)],
   [old |-> [r \in Ronin |-> Nothing(OldId)], chips |-> Copies(Chip)]}

=============================================================================
