----------------------------- MODULE RestClient -----------------------------
(***************************************************************************)
(* The REST client of venues/kalshi under concurrent callers, as           *)
(* market_discovery.discover_active_markets uses it: one caller per        *)
(* series, each walking the pages of /markets (pagination.py) with         *)
(* KalshiReadOnlyClient (client.py) under one shared pacing policy         *)
(* (rate_limit.py).                                                        *)
(*                                                                         *)
(* A caller goes through                                                   *)
(*   queued   waiting for the walk semaphore of discovery                  *)
(*   asking   at rate_policy.acquire                                       *)
(*   lining   holding a permit, waiting for the policy's lock              *)
(*   rereading holding the bucket's lock between its two clock readings    *)
(*   pacing   asleep in acquire, holding the policy's lock                 *)
(*   flight   its request sent, unanswered                                 *)
(*   backoff  asleep between two attempts                                  *)
(*   done     its walk over, whole or not                                  *)
(*                                                                         *)
(* Time is counted in ticks.  Nothing holds an absolute time: what the     *)
(* code compares are the time left to sleep, the time since the last       *)
(* start and the time since the last refill, and each saturates where the  *)
(* comparisons stop telling values apart, so the clock needs no bound.     *)
(***************************************************************************)
EXTENDS Integers, FiniteSets

CONSTANTS
    Callers,        \* the series being walked, one task each
    Walks,          \* discover_active_markets' concurrency
    Permits,        \* ConservativePolicy's max_concurrency
    MinInterval,    \* ConservativePolicy's min_interval_s, in ticks
    Capacity, Rate, \* the discovered bucket: its burst and its tokens per tick
    Cost,           \* the token cost of the endpoint
    MaxAttempts,    \* RetryPolicy.max_attempts
    MaxDelay,       \* RetryPolicy.max_delay_s, in ticks
    MaxPages,       \* paginate's max_pages
    MaxCancels      \* bound: callers cancelled from outside

ASSUME ClientAssumption ==
    /\ {Walks, Permits, Rate, Capacity, Cost, MaxAttempts, MaxPages} \subseteq Nat \ {0}
    /\ {MinInterval, MaxDelay, MaxCancels} \subseteq Nat
    /\ Cost <= Capacity             \* TokenBucket._validate refuses any other

VARIABLES
    policy,      \* "conservative" (anonymous) or "bucket" (limits discovered)
    permits,     \* the semaphore's value
    holder,      \* the caller inside `async with self._lock`, or "nobody"
    sinceStart,  \* ticks since _last_start_ns, saturated; -1 while it is 0
    tokens,      \* TokenBucket._tokens
    sinceRefill, \* ticks since _last_refill_ns, saturated
    venueTokens, \* ghost: the venue's own bucket, which no client code touches
    unspent,     \* ghost: a request was let through without spending
    caller,      \* what each task is doing
    cancels      \* callers cancelled so far

bucketVars == <<tokens, sinceRefill, venueTokens, unspent>>
policyVars == <<policy, permits, holder, sinceStart, bucketVars>>
vars == <<policyVars, caller, cancels>>

\* The venue's bucket after one more request; how far it is overdrawn is not
\* counted.
Withdrawn == IF venueTokens >= Cost THEN venueTokens - Cost ELSE -1

Min2(a, b) == IF a <= b THEN a ELSE b

At(c) == caller[c].at
Walking == {c \in Callers : At(c) \notin {"queued", "done"}}

-----------------------------------------------------------------------------
(* What the venue may answer, as _send and its helpers classify it.  *)

\* errors.classify_http_error, the httpx exceptions of _send, and _decode.
Failures == {"auth", "forbidden", "not_found", "client", "schema",
             "rate_limit", "server", "timeout", "transport"}

\* RetryPolicy.is_retryable, for a GET.
Retryable == {"rate_limit", "server", "timeout", "transport"}

\* The cursor of a page: none, one not seen before, or one seen before.
Cursors == {"none", "fresh", "seen"}

\* RetryPolicy.delay_for: a Retry-After is capped, a computed backoff is
\* capped and spread, so what is left is some delay up to the cap.
Delays == 0..MaxDelay

-----------------------------------------------------------------------------
Init ==
    /\ policy \in {"conservative", "bucket"}
    /\ permits = Permits
    /\ holder = "nobody"
    /\ sinceStart = -1
    /\ tokens = Capacity
    /\ sinceRefill = 0
    /\ venueTokens = Capacity
    /\ unspent = FALSE
    /\ caller = [c \in Callers |-> [at |-> "queued", attempt |-> 0, left |-> 0,
                                    pages |-> 0, batch |-> "none"]]
    /\ cancels = 0

Go(c, at) == caller' = [caller EXCEPT ![c].at = at]

\* async with semaphore (discovery): the walk asks for its first page.
StartWalk(c) ==
    /\ At(c) = "queued"
    /\ Cardinality(Walking) < Walks
    /\ caller' = [caller EXCEPT ![c].at = "asking", ![c].attempt = 1]
    /\ UNCHANGED <<policyVars, cancels>>

\* ConservativePolicy.acquire, up to its lock.
TakePermit(c) ==
    /\ At(c) = "asking" /\ policy = "conservative"
    /\ permits > 0
    /\ permits' = permits - 1
    /\ Go(c, "lining")
    /\ UNCHANGED <<policy, holder, sinceStart, bucketVars, cancels>>

\* The time since the last start that ConservativePolicy still has to wait.
Remaining == IF sinceStart = -1 THEN 0 ELSE MinInterval - sinceStart

\* ConservativePolicy.acquire under its lock: start, or sleep holding it.
PaceStart(c) ==
    /\ At(c) = "lining" /\ holder = "nobody"
    /\ Remaining <= 0
    /\ sinceStart' = 0
    /\ Go(c, "flight")
    /\ UNCHANGED <<policy, permits, holder, bucketVars, cancels>>

PaceSleep(c) ==
    /\ At(c) = "lining" /\ holder = "nobody"
    /\ Remaining > 0
    /\ holder' = c
    /\ caller' = [caller EXCEPT ![c].at = "pacing", ![c].left = Remaining]
    /\ UNCHANGED <<policy, permits, sinceStart, bucketVars, cancels>>

\* A mutant of Refilled: idling is not capped at the bucket's capacity.
MutUncapped == tokens + sinceRefill * Rate

\* TokenBucket._refill, as a value: the tokens after refilling to now.
Refilled == Min2(Capacity, tokens + sinceRefill * Rate)

Spend(have) ==
    /\ tokens' = have - Cost
    /\ venueTokens' = Withdrawn
    /\ sinceRefill' = 0
    /\ UNCHANGED unspent

\* TokenBucket.try_consume by the holder of the lock, who is then granted.
Consume(c) ==
    /\ policy = "bucket"
    /\ At(c) = "asking" /\ holder = "nobody"
    /\ Refilled >= Cost
    /\ Spend(Refilled)
    /\ Go(c, "flight")
    /\ UNCHANGED <<policy, permits, holder, sinceStart, cancels>>

\* try_consume finds too few tokens; acquire goes on to wait_time_s, which
\* reads the clock again.
FindTooFew(c) ==
    /\ policy = "bucket"
    /\ At(c) = "asking" /\ holder = "nobody"
    /\ Refilled < Cost
    /\ tokens' = Refilled
    /\ sinceRefill' = 0
    /\ holder' = c
    /\ Go(c, "rereading")
    /\ UNCHANGED <<policy, permits, sinceStart, venueTokens, unspent, cancels>>

\* wait_time_s still finds too few: sleep for the deficit, holding the lock.
SleepForDeficit(c) ==
    /\ At(c) = "rereading"
    /\ Refilled < Cost
    /\ tokens' = Refilled
    /\ sinceRefill' = 0
    /\ caller' = [caller EXCEPT ![c].at = "pacing",
                                ![c].left = (Cost - Refilled + Rate - 1) \div Rate]
    /\ UNCHANGED <<policy, permits, holder, sinceStart, venueTokens, unspent, cancels>>

\* wait_time_s finds enough, because the clock moved: acquire returns and the
\* request goes out, but nothing was taken from the bucket.
ReturnUnspent(c) ==
    /\ At(c) = "rereading"
    /\ Refilled >= Cost
    /\ tokens' = Refilled
    /\ sinceRefill' = 0
    /\ venueTokens' = Withdrawn
    /\ unspent' = TRUE
    /\ holder' = "nobody"
    /\ Go(c, "flight")
    /\ UNCHANGED <<policy, permits, sinceStart, cancels>>

\* The sleep in acquire ends, no earlier than asked.  ConservativePolicy
\* starts; the bucket's loop tries again and finds what it slept for.
WakePaced(c) ==
    /\ At(c) = "pacing" /\ caller[c].left = 0
    /\ \/ /\ policy = "conservative"
          /\ sinceStart' = 0
          /\ holder' = "nobody"
          /\ Go(c, "flight")
          /\ UNCHANGED bucketVars
       \/ /\ policy = "bucket" /\ Refilled >= Cost
          /\ Spend(Refilled)
          /\ holder' = "nobody"
          /\ Go(c, "flight")
          /\ UNCHANGED sinceStart
    /\ UNCHANGED <<policy, permits, cancels>>

\* rate_policy.release: a permit back, or nothing to do.
Release(p) == IF policy = "conservative" THEN p + 1 ELSE p

\* A mutant of AfterRequest: the release in the finally is missing.
MutNoRelease(p) == p

\* The permits after an answered or cancelled request: the finally of _send.
AfterRequest(p) == Release(p)

\* A page arrives.  paginate_pages yields it, stops when the venue hands back
\* no cursor, and refuses a repeated cursor or one page too many; markets_for
\* answers with the collected list or, on an exception, with an empty one.
ReceivePage(c, cursor) ==
    LET pages == caller[c].pages + 1 IN
    /\ At(c) = "flight"
    /\ cursor = "seen" => pages > 1
    /\ permits' = AfterRequest(permits)
    /\ caller' =
        [caller EXCEPT ![c] =
            CASE cursor = "none" -> [@ EXCEPT !.at = "done", !.pages = pages, !.batch = "whole"]
              [] cursor = "seen" \/ (cursor = "fresh" /\ pages >= MaxPages) ->
                     [@ EXCEPT !.at = "done", !.pages = 0, !.batch = "empty"]
              [] OTHER -> [@ EXCEPT !.at = "asking", !.pages = pages, !.attempt = 1]]
    /\ UNCHANGED <<policy, holder, sinceStart, bucketVars, cancels>>

\* What a walk whose request failed for good becomes: markets_for drops the
\* pages it had.
Abandoned(w) == [w EXCEPT !.at = "done", !.pages = 0, !.batch = "empty"]

\* The attempt fails.  _send releases in its finally, then raises or sleeps.
FailAttempt(c, failure, delay) ==
    /\ At(c) = "flight"
    /\ permits' = AfterRequest(permits)
    /\ caller' =
        [caller EXCEPT ![c] =
            IF failure \in Retryable /\ @.attempt < MaxAttempts
            THEN [@ EXCEPT !.at = "backoff", !.left = delay]
            ELSE Abandoned(@)]
    /\ UNCHANGED <<policy, holder, sinceStart, bucketVars, cancels>>

\* The backoff of _send ends and the next attempt asks the policy again.
Retry(c) ==
    /\ At(c) = "backoff" /\ caller[c].left = 0
    /\ caller' = [caller EXCEPT ![c].at = "asking", ![c].attempt = @ + 1]
    /\ UNCHANGED <<policyVars, cancels>>

\* A caller is cancelled at one of its awaits.  The lock and the walk
\* semaphore are context managers and the request's permit is in a finally,
\* but acquire itself is outside that try: a permit taken and not yet used
\* is not given back.
Cancel(c) ==
    /\ At(c) \notin {"done", "rereading"}
    /\ cancels < MaxCancels
    /\ cancels' = cancels + 1
    /\ permits' = IF At(c) = "flight" THEN AfterRequest(permits) ELSE permits
    /\ holder' = IF holder = c THEN "nobody" ELSE holder
    /\ caller' = [caller EXCEPT ![c] = [@ EXCEPT !.at = "done", !.pages = 0,
                                                  !.batch = "cancelled", !.left = 0]]
    /\ UNCHANGED <<policy, sinceStart, bucketVars>>

\* The clock moves one tick: at any moment, between acquire's two readings too.
Tick ==
    /\ sinceStart' = IF sinceStart = -1 THEN -1 ELSE Min2(MinInterval, sinceStart + 1)
    /\ sinceRefill' = Min2(Capacity, sinceRefill + 1)
    /\ venueTokens' = Min2(Capacity, venueTokens + Rate)
    /\ caller' = [c \in Callers |-> [caller[c] EXCEPT !.left = IF @ > 0 THEN @ - 1 ELSE 0]]
    /\ UNCHANGED <<policy, permits, holder, tokens, unspent, cancels>>

Respond(c) ==
    \/ \E cursor \in Cursors : ReceivePage(c, cursor)
    \/ \E failure \in Failures, delay \in Delays : FailAttempt(c, failure, delay)

Run(c) ==
    \/ StartWalk(c) \/ TakePermit(c) \/ PaceStart(c) \/ PaceSleep(c)
    \/ Consume(c) \/ FindTooFew(c) \/ SleepForDeficit(c) \/ ReturnUnspent(c)
    \/ WakePaced(c) \/ Retry(c) \/ Respond(c)

Next == Tick \/ (\E c \in Callers : Run(c) \/ Cancel(c))

\* asyncio runs every ready task and fires every timer, httpx answers every
\* request (with a timeout if with nothing else), and time passes.
Fairness == WF_vars(Tick) /\ \A c \in Callers : WF_vars(Run(c))

Spec == Init /\ [][Next]_vars /\ Fairness

-----------------------------------------------------------------------------

\* What the code does hold to: while no request was let through unspent, the
\* client's tokens are within the venue's, however often callers, ticks and
\* refills interleave, so the bucket is not overdrawn.
SpentBucketIsNotOverdrawn ==
    ~unspent => /\ venueTokens >= 0
                /\ policy = "bucket" => Refilled <= venueTokens

\* Every walk comes to an end, although attempts fail and a cancelled caller
\* may keep a permit for ever, as long as fewer are lost than there are.
EveryWalkEnds == \A c \in Callers : <>(At(c) = "done")

=============================================================================
