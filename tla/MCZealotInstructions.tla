------------------------ MODULE MCZealotInstructions ------------------------
(***************************************************************************)
(* ZealotAdmin, LzReceiveAccounts and MessageFees for TLC: what the        *)
(* instructions of zealot_nft ask of those who call them, the signatures,  *)
(* the accounts of an inbound message and the fee of an outbound one.  The *)
(* three share no state, so a behaviour is about one of them and the       *)
(* others stay in one of their initial states.                             *)
(*                                                                         *)
(* Integers are narrow: a u8 has five values, the u64 of a rate holds a    *)
(* thousand but not ten thousand, the u64 of an amount twenty.  The        *)
(* endpoint's numbers of accounts are those of lz_receive_types.rs:34;     *)
(* options have up to two gas amounts; composed messages are empty, at the *)
(* limit and beyond it.                                                    *)
(***************************************************************************)
EXTENDS ZealotAdmin, LzReceiveAccounts, MessageFees

VARIABLE about

Mints ==
  {[decimals |-> 4, closable |-> FALSE, freezable |-> FALSE],
   [decimals |-> 1, closable |-> FALSE, freezable |-> TRUE],
   [decimals |-> 1, closable |-> TRUE, freezable |-> FALSE]}

EpochFees ==
  {[transfer_fee_basis_points |-> r, maximum_fee |-> MaxU64] : r \in {0, 2500, 5000}}

Messages ==
  [nonce : {1, 2}, to : {"alice", "bob"}, amount_sd : {0, 3}, compose : BOOLEAN]

EnforcedOptions == {<< >>, <<2>>, <<2, 5>>}
ExtraOptions == {<< >>, <<1>>}
ComposedLengths == {0, MAX_MSG_SIZE, MAX_MSG_SIZE + 1}

InstructionsInit ==
  /\ Init
  /\ AccountsInit
  /\ FeesInit
  /\ about \in {"admin", "accounts", "fees"}
  /\ about # "admin" => mint.decimals = 4 /\ handedOver
  /\ about # "accounts" => adapter /\ fee.transfer_fee_basis_points = 0
  /\ about # "fees" => price = 1

InstructionsNext ==
  \/ about = "admin" /\ Next /\ UNCHANGED <<about, accountsVars, feesVars>>
  \/ about = "accounts" /\ AccountsNext /\ UNCHANGED <<about, vars, feesVars>>
  \/ about = "fees" /\ FeesNext /\ UNCHANGED <<about, vars, accountsVars>>

InstructionsSpec ==
  InstructionsInit
    /\ [][InstructionsNext]_<<about, vars, accountsVars, feesVars>>

=============================================================================
