----------------------------- MODULE MCOpenRouter -----------------------------
(***************************************************************************)
(* Replies of every kind: the completions, unreadable bodies and bare      *)
(* statuses of each status class, error objects with their codes and hints *)
(* under a success, a client error and a transient status, and the two     *)
(* transport failures.                                                     *)
(***************************************************************************)
EXTENDS OpenRouter

Statuses == {200, 400, 401, 402, 404, 408, 418, 429, 500, 502, 503, 504}

Plain == [status : Statuses,
          body   : {"answer", "no_answer", "oversized", "not_json", "not_object"},
          code   : {0},
          hint   : {"none"}]

Errors == [status : {200, 400, 503}, body : {"error"}, code : {0, 400, 401, 402, 429, 504}, hint : Hints]

Failures == [status : {0}, body : {"timeout", "network_error"}, code : {0}, hint : {"none"}]

AllReplies == Plain \cup Errors \cup Failures
===============================================================================
