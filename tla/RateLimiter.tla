---------------------------- MODULE RateLimiter ----------------------------
(***************************************************************************)
(* InMemoryRateLimiter and the handlers that ask it.  check has no await   *)
(* and holds a lock: it is one step, and so are the two checks of a login. *)
(***************************************************************************)
EXTENDS Integers, FiniteSets, FiniteSetsExt, Sequences

CONSTANTS
  Buckets,     \* the keys: a purpose with an address, an e-mail address or a member
  Limits,      \* max_requests of each key
  Handlers,    \* the keys that a handler checks, in this order
  Window,      \* window_seconds, in ticks
  Second,      \* ticks in a second: retry_after is rounded up to seconds
  MaxGranted,  \* bound: requests let through
  MaxClock     \* bound: ticks

ASSUME LimiterAssumption ==
  /\ Limits \in [Buckets -> Nat \ {0}]
  /\ \A keys \in Handlers : keys \in Seq(Buckets)
  /\ {Window, Second} \subseteq Nat \ {0}
  /\ {MaxGranted, MaxClock} \subseteq Nat

VARIABLES
  granted,   \* the times at which each key was let through, since the process began
  stamps,    \* _requests: those of them that are still in the list, by their index
  refusal,   \* each key's last refusal: when, for how long, and what had been granted
  clock      \* time.time()

limiterVars == <<granted, stamps, refusal, clock>>

NotRefused == [at |-> 0, retry |-> 0, after |-> -1]

LimiterInit ==
  /\ granted = [k \in Buckets |-> << >>]
  /\ stamps = [k \in Buckets |-> {}]
  /\ refusal = [k \in Buckets |-> NotRefused]
  /\ clock = 0

-----------------------------------------------------------------------------
\* Mutant of Valid: a tick of the window is lost.
ValidShort(k) == {i \in stamps[k] : granted[k][i] > clock - Window + 1}

\* valid_timestamps
Valid(k) == {i \in stamps[k] : granted[k][i] > clock - Window}

Full(k) == Cardinality(Valid(k)) >= Limits[k]

Ceil(ticks) == (ticks + Second - 1) \div Second

\* Mutant of RetryAfter: counted from the newest request.
RetryAfterNewest(k) == Max({1, Ceil(granted[k][Max(Valid(k))] + Window - clock)})

\* retry_after, from the oldest request that counts.
RetryAfter(k) == Max({1, Ceil(granted[k][Min(Valid(k))] + Window - clock)})

\* A handler stops at the first key that is full.  The keys before it count the request,
\* although it is refused; the list of the full key is not cleaned up.
Ask(keys) ==
  LET full == {n \in DOMAIN keys : Full(keys[n])}
      counted == {keys[n] : n \in {m \in DOMAIN keys : \A f \in full : m < f}}
  IN  /\ granted' = [k \in Buckets |->
                       IF k \in counted THEN Append(granted[k], clock) ELSE granted[k]]
      /\ stamps' = [k \in Buckets |->
                      IF k \in counted THEN Valid(k) \cup {Len(granted[k]) + 1} ELSE stamps[k]]
      /\ refusal' = [k \in Buckets |->
                       IF full # {} /\ k = keys[Min(full)]
                       THEN [at |-> clock, retry |-> RetryAfter(k), after |-> Len(granted[k])]
                       ELSE refusal[k]]
      /\ UNCHANGED clock

Elapse ==
  /\ clock < MaxClock
  /\ clock' = clock + 1
  /\ UNCHANGED <<granted, stamps, refusal>>

LimiterNext ==
  \/ Elapse
  \/ \E keys \in Handlers :
       /\ \A n \in DOMAIN keys : Len(granted[keys[n]]) < MaxGranted
       /\ Ask(keys)

LimiterSpec == LimiterInit /\ [][LimiterNext]_limiterVars

-----------------------------------------------------------------------------
LimiterTypeOK ==
  /\ granted \in [Buckets -> Seq(0 .. MaxClock)]
  /\ \A k \in Buckets : stamps[k] \subseteq DOMAIN granted[k]
  /\ refusal \in [Buckets -> [at : 0 .. MaxClock, retry : 0 .. Window, after : -1 .. MaxGranted]]
  /\ clock \in 0 .. MaxClock

\* The list is cleaned when a request is let through, and only then; all the same, of any
\* Limits + 1 requests let through, the first and the last are a whole window apart.
NeverMoreThanLimit ==
  \A k \in Buckets : \A i \in DOMAIN granted[k] :
    i > Limits[k] => granted[k][i] - granted[k][i - Limits[k]] >= Window

\* retry_after is right to the second: if nothing else is let through meanwhile, the key is
\* free when it is over, and it is not free a second before.
RetryAfterIsExact ==
  \A k \in Buckets :
    LET r == refusal[k]
        over == r.at + r.retry * Second
    IN  r.after = Len(granted[k]) =>
          /\ clock >= over => ~ Full(k)
          /\ clock < over - Second => Full(k)

=============================================================================
