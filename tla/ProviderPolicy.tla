--------------------------- MODULE ProviderPolicy ---------------------------
(***************************************************************************)
(* providers/policy.py and http_transport.py: what every provider adapter  *)
(* makes of an answer, a failure and a cached value.  Times are in half    *)
(* seconds.                                                                *)
(***************************************************************************)
EXTENDS Integers, Sequences

ResultStatuses == {"success", "partial", "unavailable", "unsupported", "invalid_request",
                   "timeout", "rate_limited", "provider_error", "stale", "cancelled",
                   "forecast_not_yet_available"}

NoDataStatuses == ResultStatuses \ {"success", "partial", "stale"}

\* In percent.
Completeness(status) ==
    CASE status \in {"success", "stale"} -> 100
      [] status = "partial" -> 50
      [] OTHER -> 0

\* A failed call keeps a data mode that suggests data.
DataModeOfFailureLive(status) == IF status = "stale" THEN "cached" ELSE "live"

\* No adapter computes an estimate of its own.
DataMode(status) ==
    CASE status = "stale" -> "cached"
      [] status \in NoDataStatuses -> "unavailable"
      [] OTHER -> "live"

ClassifyHttpStatus(code) ==
    CASE code \in 200..299 -> "success"
      [] code \in {400, 422} -> "invalid_request"
      [] code = 404 -> "unsupported"
      [] code \in {408, 504} -> "timeout"
      [] code = 429 -> "rate_limited"
      [] OTHER -> "provider_error"

NoHint == -1    \* no Retry-After header

\* Retry-After is obeyed without the cap.
BackoffUncapped(attempt, policy, retryAfter) ==
    IF retryAfter # NoHint THEN retryAfter ELSE policy.base * 2^attempt

\* attempt is 0 for the first retry.
Backoff(attempt, policy, retryAfter) ==
    LET wanted == IF retryAfter # NoHint THEN retryAfter ELSE policy.base * 2^attempt
    IN  IF wanted < policy.cap THEN wanted ELSE policy.cap

\* RetryPolicy and TimeoutPolicy, with the defaults and with the SerpApi values.
DefaultPolicy == [retries |-> 2, base |-> 1, cap |-> 16, timeout |-> 20]
SerpApiPolicy == [retries |-> 1, base |-> 2, cap |-> 10, timeout |-> 50]

\* What HttpTransport.get can come back with: a TransportError (code 0), or a
\* response with its status code, its Retry-After and its body.
Replies(bodies) ==
    [code : {0, 400, 404, 503}, hint : {NoHint}, body : {"none"}]
        \cup [code : {429}, hint : {NoHint, 3, 99}, body : {"none"}]
        \cup [code : {200}, hint : {NoHint}, body : bodies]

ReplyStatus(r) == IF r.code = 0 THEN "timeout" ELSE ClassifyHttpStatus(r.code)

Retryable == {"timeout", "rate_limited", "provider_error"}

\* One round of _request_with_retries: a 2xx answer is returned, a status that a
\* retry cannot help or that exhausts the budget ends the request, any other
\* waits for the next attempt.
Verdict(policy, attempt, r) ==
    CASE ReplyStatus(r) = "success" -> "answered"
      [] ReplyStatus(r) # "success" /\ (ReplyStatus(r) \notin Retryable \/ attempt = policy.retries) -> "failed"
      [] OTHER -> "waits"

\* A cached value is never too old.
CacheStatusNeverStale(entry, now) == IF entry.ttl = 0 THEN "miss" ELSE "hit"

\* A cache entry is [value, stored, ttl]; ttl 0 stands for no entry.
CacheStatus(entry, now) ==
    CASE entry.ttl = 0 -> "miss"
      [] entry.ttl # 0 /\ now - entry.stored > entry.ttl -> "stale"
      [] OTHER -> "hit"

\* Decimal arithmetic, to the nearest minor unit, halves up.
RoundHalfUp(n, d) == (2 * n + d) \div (2 * d)

\* convert_minor_units: with a quote of rate/100 in its own direction, or against it.
\* The code rounds 1/rate to 28 digits first, which could tell only at an exact half.
Convert(amount, rate, direct) ==
    IF direct THEN RoundHalfUp(amount * rate, 100) ELSE RoundHalfUp(amount * 100, rate)
=============================================================================
