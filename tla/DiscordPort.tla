----------------------------- MODULE DiscordPort -----------------------------
(***************************************************************************)
(* DiscordWebhookNotificationPort: one message at a time is posted to a    *)
(* webhook, in a few attempts and within a total time, with the waits the  *)
(* server asks for, until close() cancels whatever is under way.           *)
(*                                                                         *)
(* Times are relative to the present: how long this send has taken, and    *)
(* how long it is to a timer.  A callback may run up to Lag late, as the   *)
(* engine may be busy.                                                     *)
(***************************************************************************)
EXTENDS Integers, FiniteSets

CONSTANTS
  Budget,       \* totalBudgetMs
  Timeout,      \* requestTimeoutMs
  MaxRequests,  \* maxAttempts
  BaseDelay,    \* of the wait before the first retry
  MaxJitter,
  Delays,       \* what the server may ask for in a header or body
  Lag,
  MaxSends,     \* bound: messages
  NoDelay       \* a delay that is absent or unreadable

ASSUME PortAssumption ==
  /\ {Budget, Timeout, MaxRequests, BaseDelay} \subseteq Nat \ {0}
  /\ {MaxJitter, Lag, MaxSends} \subseteq Nat
  /\ Delays \subseteq Nat /\ NoDelay \notin Nat

VARIABLES
  point,      \* what the send waits for, "idle" outside of one
  attempts, elapsed,
  timer,      \* time to the timer of the wait, attempt or body; late below 0
  allowedIn,  \* time to #nextAllowedAt
  closed,
  result,     \* of the last send
  sends,
  taken,      \* the server took the request under way
  posted,     \* for checking: requests of this message that the server took
  askedIn     \* for checking: time for which the server asked for silence

sendVars == <<point, attempts, elapsed, timer, result>>
portVars == <<sendVars, allowedIn, closed, sends, taken, posted, askedIn>>

PortInit ==
  /\ point = "idle" /\ attempts = 0 /\ elapsed = 0 /\ timer = 0
  /\ allowedIn = 0 /\ closed = FALSE /\ result = "none"
  /\ sends = 0 /\ taken = FALSE /\ posted = 0 /\ askedIn = 0

----------------------------------------------------------------------------
(* The parts of send.  e is the time it has taken, n the attempts made.    *)

Lesser(a, b) == IF a < b THEN a ELSE b

Returns(r) ==
  /\ result' = r /\ point' = "idle"
  /\ UNCHANGED <<elapsed, attempts, timer>>

\* Seeded fault: an attempt has its whole time, whatever is left in total.
BeginsUnbounded(n, e) ==
  /\ point' = "attempt" /\ attempts' = n + 1 /\ elapsed' = e
  /\ timer' = Timeout
  /\ UNCHANGED result

Begins(n, e) ==
  /\ point' = "attempt" /\ attempts' = n + 1 /\ elapsed' = e
  /\ timer' = Lesser(Timeout, Budget - e)
  /\ UNCHANGED result

\* The head of the loop.  A send that falls out of it returns as if delivered.
Loop(n, e) ==
  \/ n >= MaxRequests /\ Returns("sent")
  \/ n < MaxRequests /\ e >= Budget /\ Returns("timeout")
  \/ n < MaxRequests /\ e < Budget /\ Begins(n, e)

\* waitWithinBudget, and the head of the loop after it.
WaitThenLoop(delay, n, e) ==
  \/ delay = 0 /\ Loop(n, e)
  \/ delay > Budget - e /\ delay # 0 /\ Returns("timeout")
  \/ /\ delay \in 1..(Budget - e)
     /\ point' = "wait" /\ timer' = delay
     /\ attempts' = n /\ elapsed' = e
     /\ UNCHANGED result

\* waitForRetry
Backoff(n) == BaseDelay * 2^(n - 1)

RetriesOr(failure) ==
  IF attempts >= MaxRequests THEN Returns(failure)
  ELSE \E jitter \in 0..MaxJitter :
         WaitThenLoop(Backoff(attempts) + jitter, attempts, elapsed)

\* Seeded fault: the last attempt is followed by a wait, too.
LimitedOnAnyAttempt(delay) ==
  IF elapsed >= Budget THEN Returns("timeout")
  ELSE IF delay = NoDelay THEN Returns("rate_limited")
  ELSE WaitThenLoop(delay, attempts, elapsed)

\* What follows when the wait asked for by a 429 is known, or is not.
Limited(delay) ==
  IF elapsed >= Budget THEN Returns("timeout")
  ELSE IF delay = NoDelay \/ attempts >= MaxRequests THEN Returns("rate_limited")
  ELSE WaitThenLoop(delay, attempts, elapsed)

----------------------------------------------------------------------------
(* The callers                                                             *)

\* Seeded fault: what the last answer asked for is forgotten.
SendsAtOnce ==
  /\ point = "idle" /\ ~closed /\ sends < MaxSends
  /\ sends' = sends + 1 /\ posted' = 0 /\ taken' = FALSE
  /\ WaitThenLoop(0, 0, 0)
  /\ UNCHANGED <<allowedIn, closed, askedIn>>

\* A send on a closed port is rejected at once and has no action.
SendMessage ==
  /\ point = "idle" /\ ~closed /\ sends < MaxSends
  /\ sends' = sends + 1 /\ posted' = 0 /\ taken' = FALSE
  /\ WaitThenLoop(allowedIn, 0, 0)
  /\ UNCHANGED <<allowedIn, closed, askedIn>>

\* Whatever is waited for is aborted.
Close ==
  /\ ~closed /\ closed' = TRUE
  /\ timer' = Lesser(timer, 0)
  /\ UNCHANGED <<point, attempts, elapsed, result, allowedIn, sends, taken, posted, askedIn>>

----------------------------------------------------------------------------
(* The attempt under way                                                   *)

Attempting == point = "attempt" /\ ~closed

\* The server takes the message, whether or not its answer comes in time.
ServerTakes ==
  /\ point = "attempt" /\ ~taken
  /\ taken' = TRUE /\ posted' = posted + 1
  /\ UNCHANGED <<sendVars, allowedIn, closed, sends, askedIn>>

\* An answer in time, and time left.
Answered == Attempting /\ timer > 0 /\ elapsed < Budget

NextRequest == taken' = (taken /\ point' # "attempt")

\* recordRateLimit: Reset-After when no request remains of the limit.
Records(reset) ==
  /\ allowedIn' = IF reset = NoDelay THEN allowedIn ELSE reset
  /\ askedIn' = IF reset = NoDelay THEN askedIn ELSE reset

\* 2xx
Succeeds(reset) ==
  /\ Answered /\ taken
  /\ Returns("sent") /\ Records(reset)
  /\ UNCHANGED <<closed, sends, taken, posted>>

\* The wait counts for the send that was told, not for the next message.
Asks(delay) ==
  askedIn' = IF point' = "idle" \/ delay = NoDelay THEN 0 ELSE delay

\* 429 with a header.
LimitedByHeader(delay) ==
  /\ Answered /\ ~taken
  /\ Limited(delay) /\ Asks(delay)
  /\ NextRequest /\ UNCHANGED <<allowedIn, closed, sends, posted>>

\* 429 without one: the body is read, in the time that is left.
LimitedByBody ==
  /\ Answered /\ ~taken
  /\ point' = "body" /\ timer' = Budget - elapsed
  /\ UNCHANGED <<attempts, elapsed, result, allowedIn, closed, sends, taken, posted, askedIn>>

BodyRead(delay) ==
  /\ point = "body" /\ ~closed
  /\ delay # NoDelay => timer > 0
  /\ Limited(delay) /\ Asks(delay)
  /\ NextRequest /\ UNCHANGED <<allowedIn, closed, sends, posted>>

\* 500, 502, 503, 504; a failed fetch; an answer that is late, or none.
RetryableError ==
  /\ \/ Answered /\ RetriesOr("server_error")
     \/ Attempting /\ RetriesOr("network")
     \/ Attempting /\ timer <= 0 /\ RetriesOr("timeout")
  /\ NextRequest /\ UNCHANGED <<allowedIn, closed, sends, posted, askedIn>>

\* Any other status.
Rejected ==
  /\ Answered /\ ~taken
  /\ Returns("rejected")
  /\ UNCHANGED <<allowedIn, closed, sends, taken, posted, askedIn>>

WaitEnds ==
  /\ point = "wait" /\ ~closed /\ timer <= 0
  /\ Loop(attempts, elapsed)
  /\ NextRequest /\ UNCHANGED <<allowedIn, closed, sends, posted, askedIn>>

\* After close() a send ends as cancelled, whatever it is resumed with.
Cancelled ==
  /\ point # "idle" /\ closed
  /\ Returns("cancelled")
  /\ UNCHANGED <<allowedIn, closed, sends, taken, posted, askedIn>>

Less(t) == IF t > 0 THEN t - 1 ELSE 0

PortTick ==
  /\ IF point = "idle" THEN allowedIn > 0 /\ UNCHANGED <<elapsed, timer>>
     ELSE timer > -Lag /\ elapsed' = elapsed + 1 /\ timer' = timer - 1
  /\ allowedIn' = Less(allowedIn) /\ askedIn' = Less(askedIn)
  /\ UNCHANGED <<point, attempts, result, closed, sends, taken, posted>>

PortNext ==
  \/ SendMessage \/ Close
  \/ ServerTakes \/ RetryableError \/ Rejected \/ LimitedByBody
  \/ \E d \in Delays \union {NoDelay} : Succeeds(d) \/ LimitedByHeader(d) \/ BodyRead(d)
  \/ WaitEnds \/ Cancelled
  \/ PortTick

PortSpec == PortInit /\ [][PortNext]_portVars

----------------------------------------------------------------------------
(* Properties                                                              *)

Results == {"none", "sent", "timeout", "rate_limited", "server_error", "network",
            "rejected", "cancelled"}

\* The variables have their types.
PortTypeOK ==
  /\ point \in {"idle", "wait", "attempt", "body"}
  /\ attempts \in 0..MaxRequests /\ elapsed \in Nat /\ timer \in Int
  /\ allowedIn \in Nat /\ askedIn \in Nat
  /\ {closed, taken} \subseteq BOOLEAN
  /\ result \in Results /\ sends \in 0..MaxSends /\ posted \in 0..MaxRequests

\* A send ends within its total time, however the attempts, the waits before
\* and between them and the reading of bodies follow each other; only the last
\* callback may be late.  The lease of the outbox is chosen by this.
EndsInTime == elapsed <= Budget + Lag

\* A send that returns without an error has its message with the server: the
\* loop never runs out of attempts.  The dispatcher marks it delivered.
ResolvedIsPosted == result = "sent" /\ point = "idle" => posted > 0

\* A request goes out, the first of a send or the next.
Requests == point' = "attempt" /\ (point # "attempt" \/ attempts' # attempts)

\* No request is made in the time for which the server asked for silence: in
\* an answer to the same message, or in the answer that took the one before.
RespectsWait == [][Requests => askedIn = 0]_sendVars
=============================================================================
