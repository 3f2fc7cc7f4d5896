----------------------------- MODULE LimitedOft -----------------------------
(***************************************************************************)
(* SolanaOft with the rate limiter of RateLimiter on its peer: send takes  *)
(* the amount it charges from the bucket before it locks or burns, and     *)
(* lz_receive refills the bucket with what it credited.  Both are one      *)
(* transaction, so a bucket that refuses or overflows undoes the transfer. *)
(***************************************************************************)
EXTENDS SolanaOft

CONSTANTS
  Capacity, RefillRate, NoLimiter, NotGiven, MaxTime, MaxReceived \* see RateLimiter

VARIABLES
  now, limiter, windowStart, sent, received, \* see RateLimiter
  abroadAtStart                              \* history: abroad at windowStart

limiterVars == <<now, limiter, windowStart, sent, received>>
vars == <<oftVars, limiterVars, abroadAtStart>>

RL == INSTANCE RateLimiter WITH Amount <- Amounts, Rate <- RefillRate

ASSUME LimiterAssumption ==
  /\ Capacity \subseteq Amounts
  /\ RefillRate \subseteq Amounts
  /\ NotGiven \notin Nat
  /\ NoLimiter \notin RL!Limiter

ReceivedLd(m) == PostFeeAmountLd(fee, Sd2ld(m.amount_sd))

-----------------------------------------------------------------------------
LimitedInit == Init /\ RL!Init /\ abroadAtStart = 0

LimitedSend(u, a, min) ==
  /\ Send(u, a, min)
  /\ RL!Limited => RL!Send(AmountSentLd(fee, a))
  /\ ~ RL!Limited => UNCHANGED limiterVars
  /\ UNCHANGED abroadAtStart

\* (The mutant refills twice what was credited.)
RefillTwice(m) ==
  /\ RL!Limited => RL!Receive(2 * ReceivedLd(m))
  /\ ~ RL!Limited => UNCHANGED limiterVars
Refill(m) ==
  /\ RL!Limited => RL!Receive(ReceivedLd(m))
  /\ ~ RL!Limited => UNCHANGED limiterVars

LimitedReceive(m) ==
  /\ LzReceive(m)
  /\ Refill(m)
  /\ UNCHANGED abroadAtStart

\* set_rate_limit and the clock; a new setting begins a new window.
Configure ==
  /\ \/ RL!Disable
     \/ RL!StartWindow
     \/ \E c \in Capacity \cup {NotGiven}, r \in RefillRate \cup {NotGiven} :
          RL!SetRateLimit(c, r)
  /\ abroadAtStart' = abroad
  /\ UNCHANGED oftVars

Tick == RL!Tick /\ UNCHANGED <<oftVars, abroadAtStart>>

\* The actions that do not ask the limiter.
Unlimited ==
  /\ \/ \E m \in outbox : ReceiveRemote(m)
     \/ \E p \in Peer, u \in User, sd \in 1 .. MaxU64, c \in BOOLEAN :
          SendRemote(p, u, sd, c)
     \/ \E m \in inbox : LzReceiveAsNft(m)
     \/ \E u \in User, a \in Amount : MintTo(u, a)
     \/ RemoveMintAuthority
     \/ \E p \in Peer : SetPeer(p)
     \/ \E f \in Fee : NewEpoch(f)
  /\ UNCHANGED <<limiterVars, abroadAtStart>>

LimitedNext ==
  \/ \E u \in User, a \in Amount, min \in QuotedMinimum : LimitedSend(u, a, min)
  \/ \E m \in inbox : LimitedReceive(m)
  \/ Configure
  \/ Tick
  \/ Unlimited

LimitedSpec == LimitedInit /\ [][LimitedNext]_vars

-----------------------------------------------------------------------------
LimitedTypeOK ==
  /\ TypeOK
  /\ RL!TypeOK
  /\ abroadAtStart \in Nat

(***************************************************************************)
(* What the limiter is worth to the escrow: since any moment, under one    *)
(* setting, what the program owes abroad has grown by no more than the     *)
(* capacity and what the refill grants in the time (twice the rate, see    *)
(* RateLimiter!Earned).  Receives refill the bucket by what they return,   *)
(* so going back and forth gains nothing, in spite of fees and dust.       *)
(***************************************************************************)
NetOutflowBound ==
  RL!Limited =>
    Ld2sdRate * abroad <=
      Ld2sdRate * abroadAtStart + limiter.capacity
        + 2 * ((now - windowStart) * limiter.refill_per_second)

(***************************************************************************)
(* The price of the limiter: a receive that the escrow could pay is held   *)
(* up only when its refill does not fit a u64, which only time or the      *)
(* amount itself can bring about, never a send or an empty bucket.         *)
(***************************************************************************)
Held(m) == RL!Limited /\ ~ RL!RefillFits(limiter, ReceivedLd(m))

HeldUpByOverflow ==
  \A m \in inbox : ~ Held(m) /\ m \in inbox' /\ Held(m)'
    => Tick \/ Configure \/ \E f \in Fee : NewEpoch(f)

HeldOnlyByOverflow == [][HeldUpByOverflow]_vars

=============================================================================
