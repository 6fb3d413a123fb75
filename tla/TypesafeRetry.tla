--------------------------- MODULE TypesafeRetry ---------------------------
(***************************************************************************)
(* One call of the classifier (typesafe_c.c): the worker that finds a key, *)
(* puts the request in a temporary file, posts it with curl up to four     *)
(* times and hands back whatever body is in the body file at the end.      *)
(* Times are milliseconds.  The response's text is the attempt that wrote  *)
(* it.                                                                     *)
(***************************************************************************)
EXTENDS Integers, FiniteSets

CONSTANTS Statuses,  \* the HTTP statuses the service answers with
          HintMs,    \* values of retry-after-ms, NoHint among them
          HintS      \* values of retry-after, NoHint among them

NoHint == -1

ASSUME TypesafeAssumption ==
  /\ Statuses \subseteq 100..599
  /\ HintMs \subseteq Int
  /\ HintS \subseteq Int

VARIABLES stage,    \* what the worker does next
          attempt,  \* the attempt being made, 1 for the first
          status,   \* curl's last http_code, 0 when there was no answer
          hint,     \* the headers in the header file
          body,     \* the attempt whose response is in the body file, or 0
          slept,    \* how long the worker has waited between attempts
          files,    \* its temporary files on disk
          reply     \* what the call returns
vars == <<stage, attempt, status, hint, body, slept, files, reply>>

MAX_ATTEMPTS == 4
MAX_WAIT_MS  == 30000

Hints == [ms : HintMs, s : HintS]

\* The statuses retried: those of the SDK, not only the two the service's
\* contract names.
RetryableByContract == {429, 529}
Retryable == {408, 429} \union 500..599

\* What the call returns: an error of its own, an empty object, or the body
\* an attempt left behind.
Failed(why) == [from |-> 0, why |-> why]
Body(n)     == [from |-> n, why |-> "body"]
Pending     == Failed("pending")

Init == /\ stage = "key"
        /\ attempt = 1
        /\ status = 0
        /\ hint = [ms |-> NoHint, s |-> NoHint]
        /\ body = 0
        /\ slept = 0
        /\ files = {}
        /\ reply = Pending

Return(r) == stage' = "done" /\ reply' = r
Calm == UNCHANGED <<attempt, status, hint, body, slept>>

\* The key from the environment or from the file, if there is one.
FindKey ==
  /\ stage = "key"
  /\ Calm /\ UNCHANGED files
  /\ \/ stage' = "payload" /\ UNCHANGED reply
     \/ Return(Failed("missing key"))

WritePayload ==
  /\ stage = "payload"
  /\ Calm
  /\ \/ stage' = "temp" /\ files' = {"payload"} /\ UNCHANGED reply
     \/ Return(Failed("no temp file")) /\ UNCHANGED files

\* The header and the body file: when either cannot be made only the payload
\* is removed, and the other one stays.
MakeTemps ==
  /\ stage = "temp"
  /\ Calm
  /\ \E made \in SUBSET {"header", "body"} :
       IF made = {"header", "body"}
       THEN stage' = "post" /\ files' = files \union made /\ UNCHANGED reply
       ELSE Return(Failed("empty")) /\ files' = (files \union made) \ {"payload"}

\* What follows an attempt: another one while the status is worth it.
AfterPostForever(code) == IF code \in Retryable THEN "wait" ELSE "collect"
AfterPostAny(code) == IF attempt # MAX_ATTEMPTS THEN "wait" ELSE "collect"
AfterPost(code) ==
  IF code \in Retryable /\ attempt # MAX_ATTEMPTS THEN "wait" ELSE "collect"

\* One run of curl.  An answer rewrites the header file; its body replaces the
\* body file, leaves it empty, or, when the connection breaks behind the
\* headers, leaves the earlier one.  Without an answer neither is touched.
Post ==
  /\ stage = "post"
  /\ \/ /\ \E code \in Statuses, h \in Hints, b \in {0, attempt, body} :
              status' = code /\ hint' = h /\ body' = b
     \/ status' = 0 /\ UNCHANGED <<hint, body>>
  /\ stage' = AfterPost(status')
  /\ UNCHANGED <<attempt, slept, files, reply>>

\* 500L << attempt, for each attempt; behind the fourth nobody waits.
Backoff == <<500, 1000, 2000, 4000>>

\* classify_retry_wait_ms: retry-after-ms, else retry-after when positive,
\* else half a second doubled with every retry; never above the cap.  With no
\* cap the server's number is taken as it is.
WaitMsUncapped(h, retry) ==
  IF h.ms >= 0 THEN h.ms
  ELSE IF h.s > 0 THEN h.s * 1000
  ELSE Backoff[retry + 1]

Capped(ms) == IF ms > MAX_WAIT_MS THEN MAX_WAIT_MS ELSE ms

WaitMs(h, retry) == Capped(WaitMsUncapped(h, retry))

\* The jitter takes off up to a quarter: rand() % (wait / 4 + 1), of which
\* the two ends and the middle stand for all.
JitterAny(wait) == {0, wait}
Jitter(wait) == {0, wait \div 8, wait \div 4}

NextAttemptSame(n) == n
NextAttempt(n) == n + 1

Wait ==
  /\ stage = "wait"
  /\ \E off \in Jitter(WaitMs(hint, attempt - 1)) :
       slept' = slept + WaitMs(hint, attempt - 1) - off
  /\ attempt' = NextAttempt(attempt)
  /\ stage' = "post"
  /\ UNCHANGED <<status, hint, body, files, reply>>

RemovedPayload == {"payload"}
Removed == {"header", "body", "payload"}

\* The body file is read and the temporary files go, whatever the status.
Collect ==
  /\ stage = "collect"
  /\ Return(IF body = 0 THEN Failed("empty") ELSE Body(body))
  /\ files' = files \ Removed
  /\ Calm

Next == FindKey \/ WritePayload \/ MakeTemps \/ Post \/ Wait \/ Collect

Spec     == Init /\ [][Next]_vars
\* curl ends by itself: nothing in the code limits how long it may take.
FairSpec == Spec /\ WF_vars(Next)

-----------------------------------------------------------------------------
(* Properties.                                                             *)

\* Attempts are numbered 1 to 4, the body file holds the response of an
\* attempt already made, and only the three temporary files are left behind.
TypeOK ==
  /\ stage \in {"key", "payload", "temp", "post", "wait", "collect", "done"}
  /\ attempt \in 1..MAX_ATTEMPTS
  /\ status \in Statuses \union {0}
  /\ hint.ms \in HintMs \union {NoHint} /\ hint.s \in HintS \union {NoHint}
  /\ body \in 0..attempt
  /\ slept \in Nat
  /\ files \subseteq {"header", "body", "payload"}
  /\ reply.from \in 0..attempt

\* A stray header cannot stall the loop: all the waits of a call together
\* are at most three times the cap, whatever the service asks for.
WaitIsBounded == slept <= (attempt - 1) * MAX_WAIT_MS

\* A caller is made to wait as long as the answer it got asked for: between
\* three quarters of it and all of it, up to the cap, and never by the header
\* of an earlier answer.
WaitServesHint ==
  [][attempt' # attempt =>
       LET due == Capped(IF hint.ms >= 0 THEN hint.ms ELSE hint.s * 1000)
       IN  hint.ms >= 0 \/ hint.s > 0 =>
             /\ 4 * (slept' - slept) >= 3 * due
             /\ slept' - slept <= due]_vars

\* A call that ends on a timeout, a rate limit or an error of the service has
\* made all four attempts.
BusyIsRetried ==
  stage = "done" /\ (status \in {408, 429} \/ status >= 500) => attempt = MAX_ATTEMPTS

\* However a call ends, with a body, with an empty one or before it had a key,
\* the file with the request is gone by then, and so are the header and the
\* body file unless one of them could not be made (MakeTemps, which then leaves
\* the other one).
NoFileLeft ==
  [][stage # "done" /\ stage' = "done" =>
       "payload" \notin files' /\ (stage # "temp" => files' = {})]_vars

\* Every call returns.
Returns == <>(stage = "done")
=============================================================================
