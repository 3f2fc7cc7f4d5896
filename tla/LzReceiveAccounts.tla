------------------------- MODULE LzReceiveAccounts --------------------------
(***************************************************************************)
(* A Solana transaction names all its accounts beforehand.  An executor    *)
(* asks lz_receive_types which accounts a message needs and submits        *)
(* lz_receive with them, as they are, in a later transaction.  The list    *)
(* must agree with what lz_receive declares and slices, and the list of a  *)
(* composed message holds an address derived from the amount after the     *)
(* fee, which may be stale when the transaction runs.                      *)
(*                                                                         *)
(* An account is a key with its rights; keys are tuples of what they are   *)
(* derived from.  One message is pending at a time.                        *)
(***************************************************************************)
EXTENDS TransferFee, Sequences

CONSTANTS
  Fee,        \* the fees of the epochs
  Message,    \* [nonce, to, amount_sd, compose]: messages that are verified
  NoMessage,
  ClearLen,   \* Clear::MIN_ACCOUNTS_LEN (external)
  ComposeLen  \* accounts of send_compose (external)

ASSUME AccountsAssumption ==
  /\ Fee \subseteq TransferFees
  /\ NoMessage \notin Message
  /\ ClearLen \in Nat \ {0} /\ ComposeLen \in Nat \ {0}

VARIABLES
  adapter, \* ONftConfig.ext is Adapter, not Native
  fee,     \* the mint's fee in this epoch
  pending, \* the message that is verified and not cleared
  list     \* the accounts the executor holds, of whatever message and epoch

accountsVars == <<adapter, fee, pending, list>>

-----------------------------------------------------------------------------
Account(key, signer, writable) ==
  [pubkey |-> key, is_signer |-> signer, is_writable |-> writable]
ReadOnly(key) == Account(key, FALSE, FALSE)
Writable(key) == Account(key, FALSE, TRUE)

\* An optional account that is not given is the program's own key.
EscrowAccount == IF adapter THEN Writable(<<"escrow">>) ELSE ReadOnly(<<"program">>)

\* The amount after the fee of this moment, which the composed message names.
Received(m) ==
  IF adapter THEN PostFeeAmount(fee, m.amount_sd * Ld2sdRate)
  ELSE m.amount_sd * Ld2sdRate

\* (The mutant derives the address from the amount before the fee.)
ComposedGross(m) == m.amount_sd * Ld2sdRate
Composed(m) == Received(m)

\* External: the endpoint's accounts for clearing this message ...
ClearAccounts(m) ==
  [i \in 1 .. ClearLen |-> Writable(<<"clear", m.nonce, i>>)]

\* ... and for queueing what it composes.
ComposeAccounts(m, amount) ==
  IF m.compose
  THEN [i \in 1 .. ComposeLen |-> Writable(<<"compose", m.nonce, amount, i>>)]
  ELSE << >>

\* The accounts 0..9 of lz_receive_types.  (The mutant lists wallet and
\* token account the other way round.)
LeadingSwapped(m) ==
  << Account(<<"payer">>, TRUE, TRUE), Writable(<<"peer">>),
     ReadOnly(<<"config">>), EscrowAccount, Writable(<<"token_dest", m.to>>),
     ReadOnly(<<"wallet", m.to>>), Writable(<<"mint">>),
     ReadOnly(<<"token_program">>), ReadOnly(<<"ata_program">>),
     ReadOnly(<<"system_program">>) >>
Leading(m) ==
  << Account(<<"payer">>, TRUE, TRUE), Writable(<<"peer">>),
     ReadOnly(<<"config">>), EscrowAccount, ReadOnly(<<"wallet", m.to>>),
     Writable(<<"token_dest", m.to>>), Writable(<<"mint">>),
     ReadOnly(<<"token_program">>), ReadOnly(<<"ata_program">>),
     ReadOnly(<<"system_program">>) >>

\* Accounts 10 and 11, which lz_receive does not declare.
EventAccounts == << ReadOnly(<<"event_authority">>), ReadOnly(<<"program">>) >>

LzReceiveTypes(m) ==
  Leading(m) \o EventAccounts \o ClearAccounts(m)
    \o ComposeAccounts(m, Composed(m))

-----------------------------------------------------------------------------
\* The accounts that struct LzReceive declares: who they have to be, and
\* whether they have to be signer or writable.
Declared(m) ==
  << Account(<<"payer">>, TRUE, TRUE), Writable(<<"peer">>),
     ReadOnly(<<"config">>),
     IF adapter THEN Writable(<<"escrow">>) ELSE ReadOnly(<<"program">>),
     ReadOnly(<<"wallet", m.to>>), Writable(<<"token_dest", m.to>>),
     Writable(<<"mint">>), ReadOnly(<<"token_program">>),
     ReadOnly(<<"ata_program">>), ReadOnly(<<"system_program">>) >>

Satisfies(account, declared) ==
  /\ account.pubkey = declared.pubkey
  /\ declared.is_signer => account.is_signer
  /\ declared.is_writable => account.is_writable

DeclaredFit(accounts, m) ==
  /\ Len(accounts) >= Len(Declared(m))
  /\ \A i \in DOMAIN Declared(m) : Satisfies(accounts[i], Declared(m)[i])

Remaining(accounts, m) ==
  SubSeq(accounts, Len(Declared(m)) + 1, Len(accounts))

\* remaining_accounts[0..Clear::MIN_ACCOUNTS_LEN] and what follows it.
ForClear(accounts, m) == SubSeq(Remaining(accounts, m), 1, ClearLen)
ForCompose(accounts, m) ==
  SubSeq(Remaining(accounts, m), ClearLen + 1, Len(Remaining(accounts, m)))

\* The calls into the endpoint take the accounts they are derived from only.
Accepted(accounts, m) ==
  /\ DeclaredFit(accounts, m)
  /\ Len(Remaining(accounts, m)) >= ClearLen
  /\ ForClear(accounts, m) = ClearAccounts(m)
  /\ m.compose => ForCompose(accounts, m) = ComposeAccounts(m, Received(m))

-----------------------------------------------------------------------------
AccountsInit ==
  /\ adapter \in BOOLEAN
  /\ fee \in Fee
  /\ pending = NoMessage
  /\ list = << >>

\* External: the endpoint has verified a message.
Verify(m) ==
  /\ pending = NoMessage
  /\ pending' = m
  /\ UNCHANGED <<adapter, fee, list>>

NewEpoch(f) == fee' = f /\ UNCHANGED <<adapter, pending, list>>

List ==
  /\ pending # NoMessage
  /\ list # LzReceiveTypes(pending)
  /\ list' = LzReceiveTypes(pending)
  /\ UNCHANGED <<adapter, fee, pending>>

\* lz_receive with given accounts; a transaction that fails changes nothing.
LzReceive(accounts) ==
  /\ pending # NoMessage
  /\ Accepted(accounts, pending)
  /\ pending' = NoMessage
  /\ UNCHANGED <<adapter, fee, list>>

\* What the executor submits is the list itself.  A caller of another kind,
\* one that knows the program, leaves the two event accounts out; nothing in
\* the code does.
Trimmed(accounts) ==
  IF Len(accounts) < 12 THEN accounts
  ELSE SubSeq(accounts, 1, 10) \o SubSeq(accounts, 13, Len(accounts))

AccountsNext ==
  \/ \E m \in Message : Verify(m)
  \/ \E f \in Fee : NewEpoch(f)
  \/ List
  \/ \E accounts \in {list, Trimmed(list)} : LzReceive(accounts)

AccountsSpec == AccountsInit /\ [][AccountsNext]_accountsVars

-----------------------------------------------------------------------------
AccountsTypeOK ==
  /\ adapter \in BOOLEAN
  /\ fee \in Fee
  /\ pending \in Message \cup {NoMessage}
  /\ list # << >> => Len(list) - 12 - ClearLen \in {0, ComposeLen}

(***************************************************************************)
(* lz_receive_types and struct LzReceive are written down in two files and *)
(* have to agree on ten accounts, their order and their rights, for both   *)
(* kinds of configuration and whatever the fee is at either moment.  The   *)
(* comment at lz_receive_types.rs:33-35 says that the accounts for clear   *)
(* follow at once, which is where lz_receive.rs:70 slices them; but the    *)
(* list has the two event accounts in between, so it is never accepted as  *)
(* it is returned, and always without these two.                           *)
(***************************************************************************)
AccountsFit ==
  pending # NoMessage =>
    LET accounts == LzReceiveTypes(pending)
    IN  /\ DeclaredFit(accounts, pending)
        /\ Accepted(Trimmed(accounts), pending)
        /\ ~ Accepted(accounts, pending)

=============================================================================
