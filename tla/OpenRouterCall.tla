--------------------------- MODULE OpenRouterCall ---------------------------
(***************************************************************************)
(* One call of the generation model (openrouter_c.c): find a key, put the  *)
(* request in a temporary file, post it once, take what curl printed.      *)
(* There is no retry, and nobody looks at curl's status: whatever came     *)
(* before the end is the reply.                                            *)
(***************************************************************************)
EXTENDS Extract

VARIABLES gstage,   \* what the worker does next
          request,  \* the temporary request file: "none", "whole" or "empty"
          raw       \* what the call returns, as tokens
generateVars == <<gstage, request, raw>>

OpenRouterInit == gstage = "key" /\ request = "none" /\ raw = <<>>

\* The bodies that are the worker's own: an error object, an empty object.
ErrorBody   == <<Mark("{"), Str("error"), Mark(":"), Str("why"), Mark("}")>>
EmptyObject == <<Mark("{"), Mark("}")>>

GReturn(json) == gstage' = "done" /\ raw' = json

\* The environment's key counts before the file's; a placeholder is no key,
\* and one in the environment hides the file's.
KeyKinds == {"", "YOUR_OPENROUTER_API_KEY", "key"}
openrouter_key(env, file) == IF env # "" THEN env ELSE file

FindModelKey ==
  /\ gstage = "key"
  /\ UNCHANGED request
  /\ \E env, file \in KeyKinds :
       IF openrouter_key(env, file) = "key"
       THEN gstage' = "temp" /\ UNCHANGED raw
       ELSE GReturn(ErrorBody)

\* mkstemp, then the payload with its fallback models; a file that cannot be
\* opened as a stream stays empty and is posted all the same.
WriteRequest ==
  /\ gstage = "temp"
  /\ \/ /\ gstage' = "post"
        /\ request' \in {"whole", "empty"}
        /\ UNCHANGED raw
     \/ GReturn(ErrorBody) /\ UNCHANGED request

\* What curl prints: the service's answer, cut where the connection broke, or
\* nothing.  Bodies(r) are the answers to request r, cuts included.
UnlinkedNever(r) == r
Unlinked(r) == "none"
PostRequest(Bodies) ==
  /\ gstage = "post"
  /\ \E json \in Bodies : GReturn(IF json = <<>> THEN EmptyObject ELSE json)
  /\ request' = Unlinked(request)
=============================================================================
