----------------------------- MODULE OmniToken ------------------------------
(***************************************************************************)
(* What the bridge promises about each token: it exists once.  It is held  *)
(* by one account on one chain, or it is on its way to one recipient on    *)
(* one chain, where it arrives as addressed, or it is out of circulation   *)
(* for good.  A promise about a token may end (the implementation says     *)
(* when, by the domain it gives to `place'), but not begin again.          *)
(***************************************************************************)
CONSTANTS Chain, Home, Token, User, NoOne

VARIABLE place  \* where the tokens are about which the promise holds

HeldBy(c, u)    == [status |-> "held", chain |-> c, who |-> u]
TransitTo(c, r) == [status |-> "transit", chain |-> c, who |-> r]
Gone            == [status |-> "gone", chain |-> Home, who |-> NoOne]

\* Where a token may be after one step, several of which move at once when a
\* batch is sent or a message with a batch arrives.
MayMove(from, to) ==
  \/ to = from
  \/ /\ from.status = "held"                      \* a transfer on its chain
     /\ to \in {HeldBy(from.chain, u) : u \in User}
  \/ /\ from.status = "held"                      \* a send, perhaps delivered at once
     /\ to.status \in {"held", "transit"}
     /\ to.chain \in Chain \ {from.chain}
  \/ /\ from.status = "transit"                   \* an arrival, as addressed
     /\ to = HeldBy(from.chain, from.who)
     /\ to.who \in User
  \/ /\ from.status \in {"held", "transit"}       \* given to the bridge, or dropped
     /\ to = Gone

Init == place \in [Token -> {HeldBy(Home, u) : u \in User}]

Next == /\ DOMAIN place' \subseteq DOMAIN place
        /\ \A t \in DOMAIN place' : MayMove(place[t], place'[t])

Spec == Init /\ [][Next]_place
=============================================================================
