------------------------ MODULE TypesafeRetryProofs ------------------------
(***************************************************************************)
(* Theorems about one call of the classifier, for every set of statuses    *)
(* and of retry headers.  The invariants follow from one inductive         *)
(* invariant: TypeOK and the bound on the waits, with what each stage      *)
(* knows of the last status.                                               *)
(***************************************************************************)
EXTENDS TypesafeRetry, TLAPS

\* Before curl runs there is no status, a pause is only taken between
\* attempts, and a worker that collects after a busy answer has no
\* attempt left.
StageKnows ==
  /\ stage = "wait" => attempt < MAX_ATTEMPTS
  /\ stage \in {"key", "payload", "temp"} => status = 0
  /\ stage = "collect" /\ status \in Retryable => attempt = MAX_ATTEMPTS

\* Nothing is on disk before the request is written, and nothing but the
\* request before curl has its two files.
FilesKnown ==
  /\ stage \in {"key", "payload"} => files = {}
  /\ stage = "temp" => files = {"payload"}

\* The reply is the body of an attempt only when the call is over.
ReplyKnows == reply.why = "body" => stage = "done"

CallInv == /\ TypeOK
           /\ WaitIsBounded
           /\ BusyIsRetried
           /\ FilesKnown
           /\ StageKnows
           /\ ReplyKnows

-----------------------------------------------------------------------------
(* The wait.                                                               *)

\* No pause is longer than the cap.
LEMMA CappedBounds ==
  ASSUME NEW ms \in Nat
  PROVE  Capped(ms) \in 0..MAX_WAIT_MS
BY SMTT(30) DEF Capped, MAX_WAIT_MS

\* The pause asked for is a number of milliseconds, at most the cap
\* (classify_retry_wait_ms).
LEMMA WaitMsBounds ==
  ASSUME NEW h, h.ms \in Int, h.s \in Int, NEW retry \in 0..2
  PROVE  WaitMs(h, retry) \in 0..MAX_WAIT_MS
<1>1. Backoff[retry + 1] \in Nat
  BY DEF Backoff
<1>2. WaitMsUncapped(h, retry) \in Nat
  BY <1>1 DEF WaitMsUncapped
<1> QED
  BY <1>2, CappedBounds, Zenon DEF WaitMs

\* The jitter takes at most a quarter off.
LEMMA JitterBounds ==
  ASSUME NEW wait \in Nat, NEW off \in Jitter(wait)
  PROVE  off \in Nat /\ 4 * off <= wait
BY DEF Jitter

\* A header's value is a number, or absent.
LEMMA HintIsInt == TypeOK => hint.ms \in Int /\ hint.s \in Int
<1> SUFFICES ASSUME TypeOK PROVE hint.ms \in Int /\ hint.s \in Int
  OBVIOUS
<1>1. NoHint \in Int
  BY DEF NoHint
<1>2. HintMs \subseteq Int /\ HintS \subseteq Int
  BY TypesafeAssumption
<1>3. hint.ms \in HintMs \union {NoHint} /\ hint.s \in HintS \union {NoHint}
  BY DEF TypeOK
<1> QED
  BY <1>1, <1>2, <1>3, Zenon

\* What an error of the worker's own is made of.
LEMMA FailedFields == \A why : Failed(why).from = 0 /\ Failed(why).why = why
  BY DEF Failed

-----------------------------------------------------------------------------
(* The inductive invariant.                                                *)

\* The first state: nothing posted, nothing slept, nothing on disk.
LEMMA InitInv == Init => CallInv
<1> SUFFICES ASSUME Init PROVE CallInv
  OBVIOUS
<1>1. reply.from = 0 /\ reply.why = "pending"
  BY DEF Init, Pending, Failed
<1>2. TypeOK
  BY <1>1 DEF Init, TypeOK, Pending, Failed, NoHint, MAX_ATTEMPTS
<1>3. WaitIsBounded
  BY DEF Init, WaitIsBounded, MAX_WAIT_MS
<1>4. BusyIsRetried /\ FilesKnown /\ StageKnows /\ ReplyKnows
  BY <1>1 DEF Init, BusyIsRetried, FilesKnown, StageKnows, ReplyKnows
<1> QED
  BY <1>2, <1>3, <1>4 DEF CallInv

\* The steps before curl: a key, a payload, the temporary files; each may end
\* the call with an error of the worker's own.
LEMMA SetupInv ==
  ASSUME CallInv, FindKey \/ WritePayload \/ MakeTemps
  PROVE  CallInv'
<1>1. UNCHANGED <<attempt, status, hint, body, slept>>
  BY DEF FindKey, WritePayload, MakeTemps, Calm
<1>2. /\ stage \in {"key", "payload", "temp"}
      /\ stage' \in {"payload", "temp", "post", "done"}
  BY DEF FindKey, WritePayload, MakeTemps, Return
<1>3. status = 0
  BY <1>2 DEF CallInv, StageKnows
<1>4. reply' = reply \/ (reply'.from = 0 /\ reply'.why # "body")
  <2>1. \/ reply' = reply
        \/ \E why \in {"missing key", "no temp file", "empty"} : reply' = Failed(why)
    BY DEF FindKey, WritePayload, MakeTemps, Return
  <2> QED
    BY <2>1, FailedFields
<1>5. files' \subseteq {"header", "body", "payload"}
  BY DEF FindKey, WritePayload, MakeTemps, CallInv, TypeOK
<1>6. reply.why # "body"
  BY <1>2 DEF CallInv, ReplyKnows
<1>7. reply'.why # "body" /\ reply'.from \in 0..attempt
  BY <1>4, <1>6 DEF CallInv, TypeOK, MAX_ATTEMPTS
<1>8. TypeOK'
  BY <1>1, <1>2, <1>5, <1>7 DEF CallInv, TypeOK
<1>9. (WaitIsBounded /\ BusyIsRetried)'
  BY <1>1, <1>3 DEF CallInv, WaitIsBounded, BusyIsRetried
<1>10. (StageKnows /\ ReplyKnows)'
  BY <1>1, <1>2, <1>3, <1>7 DEF StageKnows, ReplyKnows
<1>11. FilesKnown'
  BY DEF FindKey, WritePayload, MakeTemps, Return, CallInv, FilesKnown
<1> QED
  BY <1>8, <1>9, <1>10, <1>11 DEF CallInv

\* One run of curl: the status decides whether there is another.
LEMMA PostInv ==
  ASSUME CallInv, Post
  PROVE  CallInv'
<1>1. UNCHANGED <<attempt, slept, files, reply>> /\ stage = "post"
  BY DEF Post
<1>2. status' \in Statuses \union {0} /\ body' \in 0..attempt
  BY DEF Post, CallInv, TypeOK, MAX_ATTEMPTS
<1>3. hint'.ms \in HintMs \union {NoHint} /\ hint'.s \in HintS \union {NoHint}
  BY DEF Post, CallInv, TypeOK, Hints
<1>4. stage' = IF status' \in Retryable /\ attempt # MAX_ATTEMPTS
               THEN "wait" ELSE "collect"
  BY DEF Post, AfterPost
<1>5. reply.why # "body"
  BY <1>1 DEF CallInv, ReplyKnows
<1>6. TypeOK'
  BY <1>1, <1>2, <1>3, <1>4 DEF CallInv, TypeOK
<1>7. (WaitIsBounded /\ BusyIsRetried /\ FilesKnown /\ ReplyKnows)'
  BY <1>1, <1>4, <1>5 DEF CallInv, WaitIsBounded, BusyIsRetried, FilesKnown, ReplyKnows
<1>8. StageKnows'
  BY <1>1, <1>4 DEF CallInv, TypeOK, StageKnows, MAX_ATTEMPTS
<1> QED
  BY <1>6, <1>7, <1>8 DEF CallInv

\* A pause: at most one cap more, and one attempt more.
LEMMA WaitInv ==
  ASSUME CallInv, Wait
  PROVE  CallInv'
<1>1. UNCHANGED <<status, hint, body, files, reply>> /\ stage = "wait" /\ stage' = "post"
  BY DEF Wait
<1>2. attempt' = attempt + 1 /\ attempt \in 1..3
  BY <1>1 DEF Wait, NextAttempt, CallInv, TypeOK, StageKnows, MAX_ATTEMPTS
<1>3. hint.ms \in Int /\ hint.s \in Int
  BY HintIsInt DEF CallInv
<1> DEFINE due == WaitMs(hint, attempt - 1)
<1>4. due \in 0..MAX_WAIT_MS
  BY <1>2, <1>3, WaitMsBounds
<1>5. \E off \in Jitter(due) : slept' = slept + due - off
  BY DEF Wait
<1>6. slept' \in slept..(slept + MAX_WAIT_MS)
  <2> HIDE DEF due
  <2>1. due \in Nat
    BY <1>4 DEF MAX_WAIT_MS
  <2>2. PICK off \in Jitter(due) : slept' = slept + due - off
    BY <1>5
  <2>3. off \in Nat /\ 4 * off <= due
    BY <2>1, <2>2, JitterBounds, Zenon
  <2> QED
    BY <1>4, <2>1, <2>2, <2>3 DEF CallInv, TypeOK, MAX_WAIT_MS
<1>7. slept' \in Nat /\ slept' <= slept + MAX_WAIT_MS
  BY <1>6 DEF CallInv, TypeOK, MAX_WAIT_MS
<1>8. reply.from \in 0..attempt' /\ body \in 0..attempt'
  BY <1>2 DEF CallInv, TypeOK
<1>9. TypeOK'
  BY <1>1, <1>2, <1>7, <1>8 DEF CallInv, TypeOK, MAX_ATTEMPTS
<1>10. WaitIsBounded'
  BY <1>2, <1>7 DEF CallInv, TypeOK, WaitIsBounded, MAX_WAIT_MS
<1>11. (BusyIsRetried /\ FilesKnown /\ StageKnows /\ ReplyKnows)'
  BY <1>1 DEF CallInv, BusyIsRetried, FilesKnown, StageKnows, ReplyKnows
<1> QED
  BY <1>9, <1>10, <1>11 DEF CallInv

\* The end of a call that reached curl: the files go, the body is handed over.
LEMMA CollectInv ==
  ASSUME CallInv, Collect
  PROVE  CallInv'
<1>1. UNCHANGED <<attempt, status, hint, body, slept>> /\ stage = "collect" /\ stage' = "done"
  BY DEF Collect, Calm, Return
<1>2. files' = {}
  BY DEF Collect, Removed, CallInv, TypeOK
<1>3. reply'.from \in 0..attempt
  BY DEF Collect, Return, Failed, Body, CallInv, TypeOK, MAX_ATTEMPTS
<1>4. TypeOK'
  BY <1>1, <1>2, <1>3 DEF CallInv, TypeOK
<1>5. (WaitIsBounded /\ FilesKnown /\ StageKnows /\ ReplyKnows)'
  BY <1>1, <1>2 DEF CallInv, WaitIsBounded, FilesKnown, StageKnows, ReplyKnows
<1>6. status \in 0..599
  BY TypesafeAssumption DEF CallInv, TypeOK
<1>7. BusyIsRetried'
  BY <1>1, <1>6 DEF CallInv, StageKnows, BusyIsRetried, Retryable
<1> QED
  BY <1>4, <1>5, <1>7 DEF CallInv

\* Every step keeps the invariant, a stuttering one too.
LEMMA StepInv == CallInv /\ [Next]_vars => CallInv'
<1> SUFFICES ASSUME CallInv, [Next]_vars PROVE CallInv'
  OBVIOUS
<1>1. CASE FindKey \/ WritePayload \/ MakeTemps
  BY <1>1, SetupInv
<1>2. CASE Post
  BY <1>2, PostInv
<1>3. CASE Wait
  BY <1>3, WaitInv
<1>4. CASE Collect
  BY <1>4, CollectInv
<1>5. CASE UNCHANGED vars
  BY <1>5 DEF vars, CallInv, TypeOK, WaitIsBounded, BusyIsRetried, FilesKnown,
              StageKnows, ReplyKnows
<1> QED
  BY <1>1, <1>2, <1>3, <1>4, <1>5 DEF Next

\* The invariant holds of every call, whatever the service answers.
THEOREM CallInvariant == Spec => []CallInv
  BY InitInv, StepInv, PTL DEF Spec

-----------------------------------------------------------------------------
(* The properties.                                                         *)

\* Attempts stay within four and the reply is of an attempt that was made.
THEOREM TypeCorrect == Spec => []TypeOK
  BY CallInvariant, PTL DEF CallInv

\* However long the service asks the worker to wait, a call sleeps at most
\* three times the cap in all.
THEOREM WaitingIsBounded == Spec => []WaitIsBounded
  BY CallInvariant, PTL DEF CallInv

\* No call gives up on a busy service before its fourth attempt.
THEOREM BusyServiceIsRetried == Spec => []BusyIsRetried
  BY CallInvariant, PTL DEF CallInv

\* However a call ends, its request is gone, and every other temporary file too
\* unless one of them could not be made.
THEOREM FilesAreRemoved == Spec => NoFileLeft
<1>1. CallInv /\ [Next]_vars =>
        [stage # "done" /\ stage' = "done" =>
           "payload" \notin files' /\ (stage # "temp" => files' = {})]_vars
  <2> SUFFICES ASSUME CallInv, Next, stage # "done", stage' = "done"
               PROVE  "payload" \notin files' /\ (stage # "temp" => files' = {})
    BY DEF vars
  <2>1. CASE FindKey \/ WritePayload
    BY <2>1 DEF FindKey, WritePayload, CallInv, FilesKnown
  <2>2. CASE MakeTemps
    BY <2>2 DEF MakeTemps
  <2>3. CASE Collect
    BY <2>3 DEF Collect, Removed, CallInv, TypeOK
  <2>4. CASE Post \/ Wait
    BY <2>4 DEF Post, AfterPost, Wait
  <2> QED
    BY <2>1, <2>2, <2>3, <2>4 DEF Next
<1> QED
  BY <1>1, CallInvariant, PTL DEF Spec, NoFileLeft

\* A pause is as long as the last answer asked for, less at most a quarter,
\* and no longer than the cap.
LEMMA PauseServesHint ==
  ASSUME CallInv, Wait, hint.ms >= 0 \/ hint.s > 0
  PROVE  LET due == Capped(IF hint.ms >= 0 THEN hint.ms ELSE hint.s * 1000)
         IN  4 * (slept' - slept) >= 3 * due /\ slept' - slept <= due
<1> DEFINE due == WaitMs(hint, attempt - 1)
<1>1. attempt \in 1..3
  BY DEF Wait, CallInv, TypeOK, StageKnows, MAX_ATTEMPTS
<1>2. hint.ms \in Int /\ hint.s \in Int
  BY HintIsInt DEF CallInv
<1>3. due \in 0..MAX_WAIT_MS
  BY <1>1, <1>2, WaitMsBounds
<1>4. \E off \in Jitter(due) : slept' = slept + due - off
  BY DEF Wait
<1>6. WaitMsUncapped(hint, attempt - 1) = IF hint.ms >= 0 THEN hint.ms ELSE hint.s * 1000
  BY <1>2 DEF WaitMsUncapped
<1>7. due = Capped(IF hint.ms >= 0 THEN hint.ms ELSE hint.s * 1000)
  BY <1>6, ZenonT(40) DEF WaitMs
<1>8. 4 * (slept' - slept) >= 3 * due /\ slept' - slept <= due
  <2> HIDE DEF due
  <2>1. due \in Nat
    BY <1>3 DEF MAX_WAIT_MS
  <2>2. PICK off \in Jitter(due) : slept' = slept + due - off
    BY <1>4
  <2>3. off \in Nat /\ 4 * off <= due
    BY <2>1, <2>2, JitterBounds, Zenon
  <2> QED
    BY <2>1, <2>2, <2>3 DEF CallInv, TypeOK
<1> HIDE DEF due
<1> QED
  BY <1>7, <1>8

\* The wait before a retry serves the headers of the answer it retries.
THEOREM WaitsServeHints == Spec => WaitServesHint
<1>1. CallInv /\ [Next]_vars =>
        [attempt' # attempt =>
           LET due == Capped(IF hint.ms >= 0 THEN hint.ms ELSE hint.s * 1000)
           IN  hint.ms >= 0 \/ hint.s > 0 =>
                 /\ 4 * (slept' - slept) >= 3 * due
                 /\ slept' - slept <= due]_vars
  <2> SUFFICES ASSUME CallInv, Next, attempt' # attempt, hint.ms >= 0 \/ hint.s > 0
               PROVE  LET due == Capped(IF hint.ms >= 0 THEN hint.ms ELSE hint.s * 1000)
                      IN  4 * (slept' - slept) >= 3 * due /\ slept' - slept <= due
    OBVIOUS
  <2>1. Wait
    BY DEF Next, FindKey, WritePayload, MakeTemps, Post, Collect, Calm
  <2> QED
    BY <2>1, PauseServesHint
<1> QED
  BY <1>1, CallInvariant, PTL DEF Spec, WaitServesHint

-----------------------------------------------------------------------------
(* Every call is bounded: what remains of the proof that it returns is     *)
(* that its worker is never stuck, which is ENABLED.                       *)

\* Each attempt left is a wait and a run of curl; before them three steps.
StageSteps ==
  IF stage = "key" THEN 5
  ELSE IF stage = "payload" THEN 4
  ELSE IF stage = "temp" THEN 3
  ELSE IF stage = "post" THEN 2
  ELSE IF stage = "done" THEN 0
  ELSE 1
CallLeft == 2 * (MAX_ATTEMPTS - attempt) + StageSteps

\* A stage is at most five steps from the end of its attempt.
LEMMA StagesSteps == StageSteps \in 0..5 /\ StageSteps' \in 0..5
  BY DEF StageSteps

\* Each step of the worker, whatever curl and the service do, leaves fewer.
LEMMA CallDescends == CallInv /\ Next => CallLeft' < CallLeft
<1> SUFFICES ASSUME CallInv, Next PROVE CallLeft' < CallLeft
  OBVIOUS
<1>1. attempt \in Int
  BY DEF CallInv, TypeOK, MAX_ATTEMPTS
<1>2. ASSUME attempt' = attempt, StageSteps' < StageSteps PROVE CallLeft' < CallLeft
  <2> DEFINE a == StageSteps   b == StageSteps'   n == attempt
  <2>1. n \in Int /\ a \in 0..5 /\ b \in 0..5 /\ b < a
    BY <1>1, <1>2, StagesSteps
  <2>2. CallLeft = 2 * (4 - n) + a /\ CallLeft' = 2 * (4 - n) + b
    BY <1>2 DEF CallLeft, MAX_ATTEMPTS
  <2> HIDE DEF a, b, n
  <2> QED
    BY <2>1, <2>2
<1>3. CASE FindKey
  <2>1. attempt' = attempt /\ stage = "key" /\ stage' \in {"payload", "done"}
    BY <1>3 DEF FindKey, Calm, Return
  <2> QED
    BY <1>2, <2>1 DEF StageSteps
<1>4. CASE WritePayload
  <2>1. attempt' = attempt /\ stage = "payload" /\ stage' \in {"temp", "done"}
    BY <1>4 DEF WritePayload, Calm, Return
  <2> QED
    BY <1>2, <2>1 DEF StageSteps
<1>5. CASE MakeTemps
  <2>1. attempt' = attempt /\ stage = "temp" /\ stage' \in {"post", "done"}
    BY <1>5 DEF MakeTemps, Calm, Return
  <2> QED
    BY <1>2, <2>1 DEF StageSteps
<1>6. CASE Post
  <2>1. attempt' = attempt /\ stage = "post" /\ stage' \in {"wait", "collect"}
    BY <1>6 DEF Post, AfterPost
  <2> QED
    BY <1>2, <2>1 DEF StageSteps
<1>7. CASE Wait
  <2>1. stage = "wait" /\ stage' = "post" /\ attempt' = attempt + 1
    BY <1>7 DEF Wait, NextAttempt
  <2>2. StageSteps = 1 /\ StageSteps' = 2
    BY <2>1 DEF StageSteps
  <2> QED
    BY <1>1, <2>1, <2>2 DEF CallLeft, MAX_ATTEMPTS
<1>8. CASE Collect
  <2>1. attempt' = attempt /\ stage = "collect" /\ stage' = "done"
    BY <1>8 DEF Collect, Calm, Return
  <2> QED
    BY <1>2, <2>1 DEF StageSteps
<1> QED
  BY <1>3, <1>4, <1>5, <1>6, <1>7, <1>8 DEF Next

\* What is left is a number: the attempts made are at most four.
LEMMA CallLeftIs == CallInv => CallLeft \in 0..11
<1> SUFFICES ASSUME CallInv PROVE CallLeft \in 0..11
  OBVIOUS
<1>1. attempt \in 1..4
  BY DEF CallInv, TypeOK, MAX_ATTEMPTS
<1> QED
  BY <1>1, StagesSteps DEF CallLeft, MAX_ATTEMPTS

\* And so is what a step leaves.
LEMMA CallLeftStays == CallInv /\ Next => CallLeft \in Int /\ CallLeft' \in Int
<1> SUFFICES ASSUME CallInv, Next PROVE CallLeft \in Int /\ CallLeft' \in Int
  OBVIOUS
<1>1. attempt \in Int /\ attempt' \in {attempt, attempt + 1}
  <2>1. attempt \in Int
    BY DEF CallInv, TypeOK, MAX_ATTEMPTS
  <2>2. attempt' = attempt \/ attempt' = attempt + 1
    BY DEF Next, FindKey, WritePayload, MakeTemps, Post, Wait, Collect, Calm, NextAttempt
  <2> QED
    BY <2>1, <2>2
<1> QED
  BY <1>1, StagesSteps DEF CallLeft, MAX_ATTEMPTS

\* A call has at most eleven steps, whatever the service answers and asks it to
\* wait (typesafe_call_worker's loop).
THEOREM CallsAreBounded ==
  Spec => /\ [](CallLeft \in 0..11)
          /\ [][CallLeft' < CallLeft]_vars
<1>1. CallInv /\ [Next]_vars => [CallLeft' < CallLeft]_vars
  BY CallDescends
<1> QED
  BY <1>1, CallLeftIs, CallInvariant, PTL DEF Spec
=============================================================================
