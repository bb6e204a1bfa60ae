------------------------------- MODULE Requests -------------------------------
(***************************************************************************)
(* A request of the app on its way in and out: the limiter of its address,  *)
(* the signature of what Telegram handed the app, the account, the limiter  *)
(* of the user, then the handler; whatever is raised on the way becomes one *)
(* envelope, and the app reads the envelope back.                           *)
(*                                                                         *)
(* Both limiters are one class: a table of the times a key was let in,      *)
(* ordered by when the key was last seen, bounded in keys.  It lives in     *)
(* memory, so a restart empties it.  Requests interleave wherever the guard *)
(* waits for the database.                                                  *)
(***************************************************************************)
EXTENDS Integers, SequencesExt

CONSTANTS
    Scenarios,   \* records [senders, raises, requests, restarts]
    IpLimit, UserLimit,  \* hits of a window
    Window,      \* its length, in clock steps
    MaxKeys,     \* keys a limiter remembers
    MaxAge,      \* INIT_DATA_MAX_AGE in clock steps
    MaxTime      \* bound on the clock

VARIABLES
    scenario,
    now,
    ip, user,   \* the two limiters: sequences of <<key, times>>
    flight,     \* the requests the guard or a handler is in the middle of
    active,     \* the users with an active account
    let,        \* every time an address was let in, and what was forgotten
    promise,    \* when an address that was refused was told to come back
    seen        \* the last answer, as it was raised and as it was read

vars == <<scenario, now, ip, user, flight, active, let, promise, seen>>

Addresses == {"home", "office", "cafe"}
Null == "null"

\* What a sender hands over: who signed it, when, for whom, and its shape.
Payload == [shape : {"pairs", "newline", "repeated", "empty"},
            hash : {"right", "wrong", "short", "none"},
            authDate : Int, date : {"number", "word", "none"},
            user : {"ann", "bob", "none", "broken"}]

\* The reason verifyInitData answers, in the order it looks.
verifyInitData(p, at) ==
    CASE p.shape # "pairs"       -> "malformed"
      [] p.hash = "none"         -> "hash_missing"
      [] p.hash = "short"        -> "hash_malformed"
      [] p.hash = "wrong"        -> "signature_mismatch"
      [] p.date = "none"         -> "auth_date_missing"
      [] p.date = "word"         -> "auth_date_malformed"
      [] at - p.authDate > MaxAge -> "expired"
      [] p.user = "none"         -> "user_missing"
      [] p.user = "broken"       -> "user_malformed"
      [] OTHER                   -> "ok"

-----------------------------------------------------------------------------
(* SlidingWindowRateLimiter.                                               *)

\* The place of a key in the table, if it has one.
Of(table, key) == {i \in DOMAIN table : table[i][1] = key}
WindowOf(table, key) ==
    IF Of(table, key) = {} THEN << >> ELSE table[CHOOSE i \in Of(table, key) : TRUE][2]
\* The times come in the order of the clock: those past the window are a prefix.
Past(times, at) ==
    CHOOSE k \in 0..Len(times) : \A i \in DOMAIN times : times[i] <= at - Window <=> i <= k
Live(times, at) == SubSeq(times, Past(times, at) + 1, Len(times))
PreviousShort(times, at) == Live(times, at + 1)
Previous(times, at) == Live(times, at)

Without(table, key) ==
    IF Of(table, key) = {} THEN table
    ELSE RemoveAt(table, CHOOSE i \in Of(table, key) : TRUE)
touch(table, key, times) == Append(Without(table, key), <<key, times>>)

IsOver(times, at) == times = << >> \/ times[Len(times)] <= at - Window
evictDead(table, at) ==
    IF Len(table) <= MaxKeys THEN table
    ELSE SelectSeq(table, LAMBDA e : ~IsOver(e[2], at))
\* One key too many: the oldest that is already out of its window, or the
\* oldest of all.
evict(table, at) ==
    LET dead == {i \in DOMAIN table : IsOver(table[i][2], at)}
        out == IF dead = {} THEN 1 ELSE CHOOSE i \in dead : \A j \in dead : i <= j
    IN IF Len(table) <= MaxKeys THEN table ELSE RemoveAt(table, out)

RetryAfter(window, at) ==
    LET oldest == IF window = << >> THEN at ELSE window[1]
        wait == oldest + Window - at
    IN IF wait < 1 THEN 1 ELSE wait

consume(table, key, limit, at) ==
    LET window == Previous(WindowOf(table, key), at) IN
    IF Len(window) >= limit
      THEN [allowed |-> FALSE, retry |-> RetryAfter(window, at),
            table |-> touch(table, key, window)]
      ELSE [allowed |-> TRUE, retry |-> 0,
            table |-> evict(touch(table, key, Append(window, at)), at)]

-----------------------------------------------------------------------------
(* What is raised, the envelope it becomes, and what the app makes of it.   *)

Codes == {"validation_failed", "unauthorized", "forbidden", "not_found", "conflict",
          "domain_rule", "consent_required", "rate_limited", "unavailable",
          "internal"}
API_ERROR_STATUS(code) ==
    CASE code = "validation_failed" -> 400 [] code = "unauthorized" -> 401
      [] code = "forbidden" -> 403 [] code = "not_found" -> 404
      [] code = "conflict" -> 409 [] code = "domain_rule" -> 422
      [] code = "consent_required" -> 428 [] code = "rate_limited" -> 429
      [] code = "unavailable" -> 503 [] code = "internal" -> 500

codeForStatus(status) ==
    CASE status \in {400, 413, 415, 422} -> "validation_failed"
      [] status = 401 -> "unauthorized" [] status = 403 -> "forbidden"
      [] status = 404 -> "not_found"    [] status = 409 -> "conflict"
      [] status = 429 -> "rate_limited" [] status = 503 -> "unavailable"
      [] OTHER -> "internal"

ApiError(code, details) == [type |-> "api", code |-> code, details |-> details]
Exceptions ==
    {ApiError("conflict", "version"), ApiError("not_found", Null),
     ApiError("consent_required", "scope"), ApiError("validation_failed", "fields"),
     [type |-> "zod"], [type |-> "rule"],
     [type |-> "http", status |-> 404], [type |-> "http", status |-> 400],
     [type |-> "parser", status |-> 413, expose |-> TRUE],
     [type |-> "parser", status |-> 500, expose |-> FALSE], [type |-> "error"]}

buildEnvelope(code, details) == [code |-> code, details |-> details]

translate(e) ==
    CASE e.type = "api" -> buildEnvelope(e.code, e.details)
      [] e.type = "zod" -> buildEnvelope("internal", Null)
      [] e.type = "rule" -> buildEnvelope("domain_rule", "rule")
      [] e.type = "http" -> buildEnvelope(codeForStatus(e.status), Null)
      [] e.type = "parser" /\ e.expose -> buildEnvelope(codeForStatus(e.status), Null)
      [] OTHER -> buildEnvelope("internal", Null)

\* The body may be the envelope, or something a proxy wrote in its place.
toRequestError(torn, body, status) ==
    IF torn
      THEN [code |-> IF status = 401 THEN "unauthorized" ELSE "internal",
            details |-> Null]
      ELSE body

Reply(torn, e) ==
    LET envelope == translate(e)
    IN [kind |-> "error", raised |-> envelope.code,
        read |-> toRequestError(torn, envelope, API_ERROR_STATUS(envelope.code))]

-----------------------------------------------------------------------------
Init ==
    /\ scenario \in Scenarios
    /\ now = 0
    /\ ip = << >> /\ user = << >>
    /\ flight = [left |-> scenario.requests, restarts |-> scenario.restarts,
                 open |-> {}]
    /\ active = {"ann", "bob"}
    /\ let = [a \in Addresses |-> << >>]
    /\ promise = [a \in Addresses |-> 0]
    /\ seen = [kind |-> "none"]

Answered(e) == seen' = Reply(FALSE, e)

\* The limiter of the address and the signature: no wait between the two.
Arrive(s) ==
    LET d == consume(ip, s.address, IpLimit, now)
        reason == IF s.header = "tma" THEN verifyInitData(s.payload, now)
                                      ELSE "authorization_missing"
    IN /\ flight.left > 0 /\ \A f \in flight.open : f.sender # s
       /\ ip' = d.table
       /\ let' = [a \in Addresses |->
                    IF \A i \in DOMAIN d.table : d.table[i][1] # a THEN << >>
                    ELSE IF a = s.address /\ d.allowed THEN Append(let[a], now)
                    ELSE let[a]]
       /\ promise' = [promise EXCEPT ![s.address] =
                        IF d.allowed THEN 0 ELSE now + d.retry]
       /\ IF d.allowed /\ reason = "ok"
            THEN /\ flight' = [flight EXCEPT !.left = @ - 1,
                                 !.open = @ \cup {[sender |-> s, pc |-> "account"]}]
                 /\ UNCHANGED seen
            ELSE /\ flight' = [flight EXCEPT !.left = @ - 1]
                 /\ Answered(IF d.allowed THEN ApiError("unauthorized", Null)
                             ELSE ApiError("rate_limited", "retry"))
       /\ UNCHANGED <<scenario, now, user, active>>

\* The account as it is now, its settings row, then the limiter of the user.
Admit(f, settings) ==
    LET s == f.sender
        d == consume(user, s.payload.user, UserLimit, now)
        known == s.payload.user \in active
    IN /\ f.pc = "account"
       /\ IF known /\ settings THEN user' = d.table ELSE UNCHANGED user
       /\ IF known /\ settings /\ d.allowed
            THEN /\ flight' = [flight EXCEPT !.open =
                        (@ \ {f}) \cup {[sender |-> s, pc |-> "handler"]}]
                 /\ UNCHANGED seen
            ELSE /\ flight' = [flight EXCEPT !.open = @ \ {f}]
                 /\ Answered(IF ~known THEN ApiError("unauthorized", Null)
                                ELSE IF ~settings THEN ApiError("unavailable", Null)
                                ELSE ApiError("rate_limited", "retry"))
       /\ UNCHANGED <<scenario, now, ip, active, let, promise>>

Outcomes == IF scenario.raises THEN Exceptions ELSE {[type |-> "data"]}

\* The handler answers, or raises; the answer arrives whole or torn.
Handle(f, e, torn) ==
    /\ f.pc = "handler"
    /\ flight' = [flight EXCEPT !.open = @ \ {f}]
    /\ seen' = IF e.type = "data" THEN [kind |-> "data"] ELSE Reply(torn, e)
    /\ UNCHANGED <<scenario, now, ip, user, active, let, promise>>

Disable(u) ==
    /\ u \in active /\ flight.restarts > 0
    /\ active' = active \ {u}
    /\ UNCHANGED <<scenario, now, ip, user, flight, let, promise, seen>>

Tick ==
    /\ now < MaxTime
    /\ now' = now + 1
    /\ UNCHANGED <<scenario, ip, user, flight, active, let, promise, seen>>

Restart ==
    /\ flight.restarts > 0
    /\ ip' = << >> /\ user' = << >>
    /\ flight' = [flight EXCEPT !.restarts = @ - 1, !.open = {}]
    /\ let' = [a \in Addresses |-> << >>]
    /\ promise' = [a \in Addresses |-> 0]
    /\ UNCHANGED <<scenario, now, active, seen>>

Next ==
    \/ \E s \in scenario.senders : Arrive(s)
    \/ \E f \in flight.open :
         \/ \E settings \in BOOLEAN : Admit(f, settings)
         \/ \E e \in Outcomes, torn \in BOOLEAN : Handle(f, e, torn)
    \/ \E u \in active : Disable(u)
    \/ Tick \/ Restart

Spec == Init /\ [][Next]_vars

-----------------------------------------------------------------------------
TypeOK ==
    /\ scenario \in Scenarios /\ now \in 0..MaxTime
    /\ Len(ip) <= MaxKeys /\ Len(user) <= MaxKeys
    /\ \A s \in scenario.senders : s.payload \in Payload
    /\ \A i, j \in DOMAIN ip : ip[i][1] = ip[j][1] => i = j

\* An address the table remembers was let in at most its limit in any window,
\* whatever other addresses did to the table in between; and one that was
\* refused and comes back when it was told to is let in, however often it
\* hammered meanwhile.  An address the table forgot starts over: that is the
\* price of the bound.  [SlidingWindowRateLimiter.consume, evict]
LimitsAreKept ==
    \A a \in Addresses :
        /\ \A i \in DOMAIN let[a] :
             Cardinality({j \in DOMAIN let[a] : /\ let[a][i] - Window < let[a][j]
                                               /\ let[a][j] <= let[a][i]}) <= IpLimit
        /\ promise[a] # 0 /\ now >= promise[a]
             => consume(ip, a, IpLimit, now).allowed

\* The app reads the code that was raised, or no code in particular: a torn or
\* foreign body never turns one refusal into another that a screen would act
\* on.  [ApiExceptionFilter.translate, toRequestError]
AnswersAreHonest ==
    seen.kind = "error" => seen.read.code \in {seen.raised, "internal"}
=============================================================================
