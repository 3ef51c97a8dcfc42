---------------------------- MODULE RateLimiter ----------------------------
(***************************************************************************)
(* FixedWindowRateLimiter (serving/security.py).  Only requests that carry  *)
(* the configured API key reach it, so there is one digest and one window.  *)
(*                                                                         *)
(* Time is counted in ticks, PerSecond of them in a second, so that the     *)
(* truncation to whole seconds in Retry-After is part of the model.  The    *)
(* clock is time.monotonic(), read once per call; nothing suspends between  *)
(* the reading and the update of the window.                                *)
(***************************************************************************)
EXTENDS Naturals, Sequences

CONSTANTS
  MaxRequests,  \* max_requests
  Window,       \* window_seconds, in ticks
  PerSecond,    \* ticks in a second
  MaxTime       \* bound: ticks the clock runs

ASSUME LimitAssumption ==
  /\ MaxRequests \in Nat \ {0} /\ Window \in Nat \ {0}
  /\ PerSecond \in Nat \ {0} /\ MaxTime \in Nat

VARIABLES
  now,         \* time.monotonic()
  open,        \* self._windows has an entry
  startedAt,   \* its started_at
  count,       \* its count
  admitted,    \* history: when each admitted request came, in order
  retryAt      \* when the client that was refused last is told to come back

window == <<now, open, startedAt, count, admitted, retryAt>>

LimiterInit ==
  /\ now = 0 /\ open = FALSE /\ startedAt = 0 /\ count = 0
  /\ admitted = <<>>
  /\ retryAt = 0

(* Faulty variant: the window is measured in another unit than the clock.   *)
Expired_WrongUnit == ~open \/ now - startedAt >= Window \div PerSecond

Expired == ~open \/ now - startedAt >= Window

Admit == admitted' = Append(admitted, now)

(* No window, or the window is over: a new one opens with this request.     *)
AllowNewWindow ==
  /\ Expired
  /\ open' = TRUE /\ startedAt' = now /\ count' = 1
  /\ Admit
  /\ UNCHANGED <<now, retryAt>>

AllowCounted ==
  /\ ~Expired /\ count < MaxRequests
  /\ count' = count + 1
  /\ Admit
  /\ UNCHANGED <<now, open, startedAt, retryAt>>

(* Faulty variant: the remaining time is truncated and not rounded up.      *)
RetryAfter_Truncated == (Window - (now - startedAt)) \div PerSecond

(* max(int(window_seconds - (now - started_at)) + 1, 1), in seconds: the    *)
(* remaining time is positive, so the first operand is the maximum.         *)
RetryAfter == (Window - (now - startedAt)) \div PerSecond + 1

Refuse ==
  /\ ~Expired /\ count >= MaxRequests
  /\ retryAt' = now + RetryAfter * PerSecond
  /\ UNCHANGED <<now, open, startedAt, count, admitted>>

Tick ==
  /\ now < MaxTime
  /\ now' = now + 1
  /\ UNCHANGED <<open, startedAt, count, admitted, retryAt>>

LimiterNext == AllowNewWindow \/ AllowCounted \/ Refuse \/ Tick

LimiterSpec == LimiterInit /\ [][LimiterNext]_window

-----------------------------------------------------------------------------

(* A burst is bounded however requests are timed against the windows: any   *)
(* Window consecutive ticks meet at most two windows, so they admit at most *)
(* twice max_requests, and one request more takes a full window.            *)
BurstIsBounded ==
  \A i \in DOMAIN admitted :
    LET j == i + 2 * MaxRequests IN
    j \in DOMAIN admitted => admitted[i] + Window <= admitted[j]

(* allow: "a conservative Retry-After".  A client that comes back when it   *)
(* was told to finds the window that refused it over, although the header   *)
(* is a whole number of seconds, and waits at most a second too long.       *)
RetryAfterIsConservative ==
  [][retryAt' # retryAt =>
       /\ startedAt + Window <= retryAt'
       /\ retryAt' <= startedAt + Window + PerSecond]_window

=============================================================================
