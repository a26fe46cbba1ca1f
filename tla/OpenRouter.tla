------------------------------ MODULE OpenRouter ------------------------------
(***************************************************************************)
(* One semantic model call through OpenRouter (reasoning/openrouter.py,    *)
(* OpenRouterProvider._generate).  A call is at most two rounds: the first *)
(* asks for API-enforced structured output (except for the free router,    *)
(* which never does), the second is the JSON fallback.  A round is at most *)
(* MaxRetries + 1 HTTP requests.                                           *)
(*                                                                         *)
(* A reply is what one request came to: an HTTP response, described by its *)
(* status and by what its body says, or a transport failure.  What an      *)
(* error object says is its code and at most one hint (a marker in its     *)
(* message, or its error_type).                                            *)
(***************************************************************************)
EXTENDS Naturals

CONSTANTS MaxRetries,   \* retries of a request within one round
          Replies,      \* the replies the service may give
          NoReply       \* the value of "last" before the first request

Hints == {"none", "structured_output", "authentication", "payment_required",
          "rate_limit_exceeded", "timeout", "model not found", "provider_overloaded"}

\* "oversized": above MAX_OPENROUTER_RESPONSE_BYTES.  "no_answer": no choice,
\* an empty completion or one that does not fit the response model.  "error":
\* an error object of the envelope or of its first choice; its code may be 0
\* (absent) and may differ from the HTTP status.
Bodies == {"answer", "no_answer", "error", "oversized", "not_json", "not_object",
           "timeout", "network_error"}

Reply == [status : Nat, body : Bodies, code : Nat, hint : Hints]

ASSUME RetriesAreBounded == MaxRetries \in 0..5
ASSUME RepliesAreReplies == Replies \subseteq Reply
ASSUME NoReplyIsNoReply  == NoReply \notin Reply

VARIABLES
  key,        \* whether an API key is configured
  form,       \* how the prompt asks for its answer
  round,      \* 1, or 2 after the fallback
  tries,      \* requests sent in this round
  requests,   \* requests sent in this call
  last,       \* the last reply
  outcome     \* what the call came to

vars == <<key, form, round, tries, requests, last, outcome>>

Categories == {"model_not_found", "model_unavailable", "structured_output_unsupported",
               "rate_limited", "quota_exceeded", "authentication_failed",
               "provider_unavailable", "response_invalid", "timeout", "network_error"}

TypeOK == /\ key \in BOOLEAN
          /\ form \in {"structured", "json"}
          /\ round \in 1..2
          /\ tries \in 0..(MaxRetries + 1)
          /\ requests \in Nat
          /\ last \in Reply \cup {NoReply}
          /\ outcome \in Categories \cup {"pending", "answered", "crashed"}

Init == /\ key \in BOOLEAN
        /\ form \in {"structured", "json"}
        /\ round = 1
        /\ tries = 0
        /\ requests = 0
        /\ last = NoReply
        /\ outcome = "pending"

-------------------------------------------------------------------------------
(* What a reply means.                                                     *)

RetryableStatuses == {408, 429, 500, 502, 503, 504}

TransportFailed(r) == r.body \in {"timeout", "network_error"}

Transient(r) == TransportFailed(r) \/ r.status \in RetryableStatuses

\* _classify_error is a list of rules, and the first that applies decides.
Rules(status, hint) ==
  << <<hint = "structured_output",                              "structured_output_unsupported">>,
     <<hint = "authentication" \/ status = 401,                 "authentication_failed">>,
     <<hint = "payment_required" \/ status = 402,               "quota_exceeded">>,
     <<hint = "rate_limit_exceeded" \/ status = 429,            "rate_limited">>,
     <<hint = "timeout" \/ status \in {408, 504},               "timeout">>,
     <<hint = "model not found" \/ status = 404,                "model_not_found">>,
     <<hint = "provider_overloaded" \/ status = 502,            "model_unavailable">>,
     <<status >= 500,                                           "provider_unavailable">>,
     <<status \in {400, 403, 422},                              "response_invalid">>,
     <<TRUE,                                                    "provider_unavailable">> >>

Classified(status, hint) ==
  LET rules == Rules(status, hint)
      first == CHOOSE i \in DOMAIN rules : /\ rules[i][1]
                                           /\ \A j \in 1..(i - 1) : ~rules[j][1]
  IN rules[first][2]

\* What a reply comes to when it is not sent again: the answer, or the
\* category of the ProviderError.  An error object counts under any status.
Verdict(r) ==
  CASE TransportFailed(r)                             -> r.body
    [] r.body \in {"oversized", "not_object"}         -> "response_invalid"
    [] r.body = "error"                               -> Classified(IF r.code = 0 THEN r.status
                                                                    ELSE r.code, r.hint)
    [] r.body = "not_json" /\ r.status < 400          -> "response_invalid"
    [] r.body = "not_json" /\ r.status >= 400         -> Classified(r.status, "none")
    [] r.body \in {"answer", "no_answer"} /\ r.status >= 400 -> Classified(r.status, "none")
    [] r.body = "no_answer" /\ r.status < 400         -> "response_invalid"
    [] r.body = "answer" /\ r.status < 400            -> "answered"

FallbackCategories == {"structured_output_unsupported", "response_invalid"}

-------------------------------------------------------------------------------
(* The call.                                                               *)

Finish(category) == outcome' = category

\* Mutation: without a key the call waits for one.
NoKeyWaiting == /\ outcome = "pending"
                /\ ~key
                /\ UNCHANGED vars

NoKey == /\ outcome = "pending"
         /\ ~key
         /\ Finish("authentication_failed")
         /\ UNCHANGED <<key, form, round, tries, requests, last>>

\* Mutation: the first failure of a round counts as its first retry.
ResentTooFew(r) == Transient(r) /\ tries + 1 < MaxRetries

\* Mutation: one retry too many.
ResentOnceMore(r) == Transient(r) /\ tries <= MaxRetries

\* The retry loop sends the request again.
Resent(r) == Transient(r) /\ tries < MaxRetries

\* The first round's failure is one the JSON fallback may cure.
Curable(r) == round = 1 /\ Verdict(r) \in FallbackCategories

\* One request is sent and r is its reply.  What the retry loop, the decoding
\* and the fallback make of it is one of the three actions below.
Send(r) == /\ outcome = "pending"
           /\ key
           /\ requests' = requests + 1
           /\ last' = r

Retry(r) == /\ Send(r)
            /\ Resent(r)
            /\ tries' = tries + 1
            /\ UNCHANGED <<key, form, round, outcome>>

\* Mutation: the fallback is tried for every failure.
FallBackAlways(r) == /\ Send(r)
                     /\ ~Resent(r)
                     /\ round = 1 /\ Verdict(r) # "answered"
                     /\ round' = 2
                     /\ form' = "json"
                     /\ tries' = 0
                     /\ UNCHANGED <<key, outcome>>

\* Mutation: the round is not counted.
FallBackUncounted(r) == /\ Send(r)
                        /\ ~Resent(r)
                        /\ Curable(r)
                        /\ form' = "json"
                        /\ tries' = 0
                        /\ UNCHANGED <<key, round, outcome>>

FallBack(r) == /\ Send(r)
               /\ ~Resent(r)
               /\ Curable(r)
               /\ round' = 2
               /\ form' = "json"
               /\ tries' = 0
               /\ UNCHANGED <<key, outcome>>

Conclude(r) == /\ Send(r)
               /\ ~Resent(r)
               /\ ~Curable(r)
               /\ tries' = tries + 1
               /\ Finish(Verdict(r))
               /\ UNCHANGED <<key, form, round>>

\* What the retry loop does not catch: an HTTP protocol error that is not an
\* OSError (a body cut short), or a Retry-After of "nan" given to sleep.
Break == /\ outcome = "pending"
         /\ key
         /\ requests' = requests + 1
         /\ tries' = tries + 1
         /\ Finish("crashed")
         /\ UNCHANGED <<key, form, round, last>>

Next == \/ NoKey
        \/ \E r \in Replies : Retry(r) \/ FallBack(r) \/ Conclude(r)
        \/ Break

\* Each request has a timeout.
Fairness == WF_vars(Next)

Spec == Init /\ [][Next]_vars /\ Fairness

-------------------------------------------------------------------------------
(* Properties.                                                             *)

\* However the service misbehaves, a call costs at most two rounds of requests,
\* and one that needed no fallback at most one round: retries of a round and
\* the fallback add up, they do not multiply.
RequestsAreBounded == requests <= round * (MaxRetries + 1)

\* No request follows an answer, a refused key, an exhausted quota or an
\* unknown model, unless the HTTP status itself said that it is transient.
Quiet == requests' # requests /\ last # NoReply /\ ~Transient(last) =>
           Verdict(last) \in FallbackCategories

QuietAfterVerdict == [][Quiet]_vars

\* A network failure or a transient status is reported only when the round has
\* used all its retries.
TransientFailuresAreRetried ==
  outcome \in Categories /\ last # NoReply /\ Transient(last) => tries = MaxRetries + 1

\* A call ends in "unsupported" or "invalid" only after the JSON fallback was
\* tried.
InvalidOnlyAfterFallback ==
  outcome \in FallbackCategories => round = 2 /\ form = "json"

\* Nothing is given up that could still be cured, by the retries of a round or
\* by the fallback (CHANGELOG 1.1.3: "Retry one schema-invalid completion with
\* the bounded JSON fallback prompt before returning response_invalid").
CurableIsCured == TransientFailuresAreRetried /\ InvalidOnlyAfterFallback

\* Every call ends.
EveryCallEnds == <>(outcome # "pending")
=============================================================================
