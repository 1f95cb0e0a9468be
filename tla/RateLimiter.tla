----------------------------- MODULE RateLimiter -----------------------------
(***************************************************************************)
(* TenantRateLimiter (middleware/rate-limit.middleware.ts): a fixed window *)
(* per tenant that starts with the first request after the last one ended. *)
(* checkRateLimit runs without an await, so a call of it is one step of    *)
(* whoever calls it; here it is a function of the bucket and the time.     *)
(***************************************************************************)
EXTENDS Integers

CONSTANT WindowMs  \* length of a window, 1000 in the code

ASSUME WindowAssumption == WindowMs \in Nat \ {0}

Bucket == [count : Nat, resetTime : Nat]

\* A tenant without a bucket is like one whose window ended at time 0.
NoBucket == [count |-> 0, resetTime |-> 0]

Expired(bucket, now) == now >= bucket.resetTime

\* The bucket after a request at time `now`.
NextBucket(bucket, now) ==
  IF Expired(bucket, now)
  THEN [count |-> 1, resetTime |-> now + WindowMs]
  ELSE [bucket EXCEPT !.count = @ + 1]

\* Is that request admitted?  The first of a window always is, whatever the limit.
Allowed(bucket, limit, now) == Expired(bucket, now) \/ bucket.count + 1 <= limit

-----------------------------------------------------------------------------
(* What the limit amounts to.  A window admits Quota(limit), and since the *)
(* next one may begin as soon as it ends, a stretch of WindowMs that       *)
(* straddles the two sees all but the first of one and all of the other:   *)
(* nearly twice what a window that slides would admit.                     *)

Quota(limit) == IF limit = 0 THEN 1 ELSE limit
Straddle(limit) == 2 * Quota(limit) - 1
=============================================================================
