---------------------------- MODULE RateLimiter -----------------------------
(***************************************************************************)
(* The token bucket that a peer of the Solana program may carry            *)
(* (state/peer.rs), with the three instructions that use it: send takes    *)
(* from it what leaves the chain, lz_receive puts back what arrives, and   *)
(* set_rate_limit configures it.                                           *)
(*                                                                         *)
(* The build checks overflow, so an addition or multiplication that does   *)
(* not fit a u64 aborts the transaction like an error does: the action is  *)
(* not enabled.  The rest of the instructions is not modelled here.        *)
(***************************************************************************)
EXTENDS Integers

CONSTANTS
  MaxU64,       \* the largest u64
  Amount,       \* amounts that are sent and received
  Capacity,     \* capacities the admin sets
  Rate,         \* refill rates the admin sets
  NoLimiter,    \* rate_limiter = None
  NotGiven,     \* a parameter of set_rate_limit that is None
  MaxTime,      \* bound: seconds the clock may run
  MaxReceived   \* bound: total received in one window

ASSUME WidthAssumption ==
  /\ MaxU64 \in Nat
  /\ Amount \subseteq 0 .. MaxU64
  /\ Capacity \subseteq 0 .. MaxU64
  /\ Rate \subseteq 0 .. MaxU64
  /\ NotGiven \notin Nat

U64 == 0 .. MaxU64
Limiter == [capacity : U64, tokens : U64, refill_per_second : U64,
            last_refill_time : Nat]

ASSUME NoLimiterAssumption == NoLimiter \notin Limiter

VARIABLES
  now,          \* Clock::get()?.unix_timestamp
  limiter,      \* peer.rate_limiter
  windowStart,  \* history: a moment from which ...
  sent,         \* history: ... what was sent ...
  received      \* history: ... and received is counted, under one setting

vars == <<now, limiter, windowStart, sent, received>>

Limited == limiter # NoLimiter

-----------------------------------------------------------------------------
Elapsed(r) == IF now > r.last_refill_time THEN now - r.last_refill_time ELSE 0

\* elapsed * refill_per_second is added twice, by two consecutive statements.
Earned(r) == 2 * (Elapsed(r) * r.refill_per_second)

\* No intermediate result of refill(extra) exceeds a u64; the last addition
\* saturates.  (A mutant saturates everywhere, another one nowhere.)
Saturates(r, extra) == TRUE
Unsaturated(r, extra) == r.tokens + extra + Earned(r) <= MaxU64
RefillFits(r, extra) == extra + Earned(r) <= MaxU64

\* The saturating addition changes nothing under the minimum with a u64.
Uncapped(r, n) == n
Capped(r, n) == IF n < r.capacity THEN n ELSE r.capacity

\* (The mutant forgets the refill time.)
RefilledTokens(r, extra) ==
  [r EXCEPT !.tokens = Capped(r, r.tokens + extra + Earned(r))]
Refilled(r, extra) ==
  [r EXCEPT !.tokens = Capped(r, r.tokens + extra + Earned(r)),
            !.last_refill_time = now]

WithCapacity(r, c) ==
  [r EXCEPT !.capacity = c, !.tokens = c, !.last_refill_time = now]

\* set_rate refills at the old rate first (a mutant does not).
WithRateOnly(r, n) == [r EXCEPT !.refill_per_second = n]
WithRate(r, n) == [Refilled(r, 0) EXCEPT !.refill_per_second = n]

DefaultLimiter == [capacity |-> 0, tokens |-> 0, refill_per_second |-> 0,
                   last_refill_time |-> 0]

-----------------------------------------------------------------------------
Init ==
  /\ now = 0
  /\ limiter = NoLimiter
  /\ windowStart = 0
  /\ sent = 0
  /\ received = 0

Tick ==
  /\ now < MaxTime
  /\ now' = now + 1
  /\ UNCHANGED <<limiter, windowStart, sent, received>>

\* Observation may start at any moment.
OpenWindow == windowStart' = now /\ sent' = 0 /\ received' = 0

StartWindow == OpenWindow /\ UNCHANGED <<now, limiter>>

\* send: try_consume(amount) or RateLimitExceeded.
Send(a) ==
  /\ Limited
  /\ RefillFits(limiter, 0)
  /\ a <= Refilled(limiter, 0).tokens
  /\ limiter' = [Refilled(limiter, 0) EXCEPT !.tokens = @ - a]
  /\ sent' = sent + a
  /\ UNCHANGED <<now, windowStart, received>>

\* lz_receive: refill(amount), after the tokens were credited.
Receive(a) ==
  /\ Limited
  /\ received + a <= MaxReceived
  /\ RefillFits(limiter, a)
  /\ limiter' = Refilled(limiter, a)
  /\ received' = received + a
  /\ UNCHANGED <<now, windowStart, sent>>

Disable ==
  /\ limiter' = NoLimiter
  /\ OpenWindow
  /\ UNCHANGED now

\* set_rate_limit with enabled: the capacity first, then the rate.
SetRateLimit(c, n) ==
  LET old == IF Limited THEN limiter ELSE DefaultLimiter
      new == IF c = NotGiven THEN old ELSE WithCapacity(old, c)
  IN  /\ n # NotGiven => RefillFits(new, 0)
      /\ limiter' = IF n = NotGiven THEN new ELSE WithRate(new, n)
      /\ OpenWindow
      /\ UNCHANGED now

Next ==
  \/ Tick
  \/ StartWindow
  \/ \E a \in Amount : Send(a)
  \/ \E a \in Amount : Receive(a)
  \/ Disable
  \/ \E c \in Capacity \cup {NotGiven}, n \in Rate \cup {NotGiven} : SetRateLimit(c, n)

Spec == Init /\ [][Next]_vars

-----------------------------------------------------------------------------
TypeOK ==
  /\ now \in Nat
  /\ limiter \in Limiter \cup {NoLimiter}
  /\ windowStart \in Nat
  /\ sent \in Nat
  /\ received \in Nat

(***************************************************************************)
(* What the limiter is for: from any moment on, as long as the setting     *)
(* stays, no more leaves the chain than the capacity, what the refill      *)
(* grants in that time (twice the rate per second, see Earned) and what    *)
(* came in.  Bursts of sends and receives at any instants cannot beat it.  *)
(***************************************************************************)
WindowBound ==
  Limited =>
    sent <= limiter.capacity + received
              + 2 * ((now - windowStart) * limiter.refill_per_second)

(***************************************************************************)
(* peer.rs:15 and set_rate_limit.rs:44 call the rate refill_per_second:    *)
(* with it, a second is worth that many tokens.                            *)
(***************************************************************************)
RefillPerSecond ==
  Limited =>
    sent <= limiter.capacity + received
              + (now - windowStart) * limiter.refill_per_second

\* What could be sent at this moment.
Available == Capped(limiter, limiter.tokens + Earned(limiter))

(***************************************************************************)
(* A new rate is not retroactive: set_rate_limit without a capacity leaves *)
(* what can be sent at this moment as it is, however long ago the limiter  *)
(* was last refilled.                                                      *)
(***************************************************************************)
NewRateKeepsAvailable ==
  \A n \in Rate : Limited /\ SetRateLimit(NotGiven, n) => Available' = Available

RateNotRetroactive == [][NewRateKeepsAvailable]_vars

(***************************************************************************)
(* A refill that no longer fits a u64 fails every send, every receive and  *)
(* every change of the rate; waiting makes it worse.  Nothing passes until *)
(* the admin sets a capacity, which restarts the refill time, or removes   *)
(* the limiter.                                                            *)
(***************************************************************************)
Overflowing == Limited /\ Earned(limiter) > MaxU64

OverflowStays ==
  Overflowing =>
    \/ Overflowing' /\ limiter' = limiter
    \/ limiter' = NoLimiter
    \/ \E c \in Capacity, n \in Rate \cup {NotGiven} : SetRateLimit(c, n)

OverflowNeedsReset == [][OverflowStays]_vars

=============================================================================
