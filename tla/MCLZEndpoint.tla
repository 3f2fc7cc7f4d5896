--------------------------- MODULE MCLZEndpoint -----------------------------
(***************************************************************************)
(* An instance of LZEndpointOrder for TLC.                                 *)
(***************************************************************************)
EXTENDS LZEndpointOrder

CONSTANT Messages  \* bound: messages sent along each path

MCMaxNonce == [q \in Path |-> Messages]

=============================================================================
