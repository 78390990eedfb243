------------------------------ MODULE Grizzly -------------------------------
(***************************************************************************)
(* How GrizzlyClient.request (app/grizzly/client.py) reads an answer of    *)
(* Grizzly, and what its two callers make of the result: confirm_buy of    *)
(* the answer to getNumberV2, poll_orders of the answer to getStatusV2.    *)
(*                                                                         *)
(* Of an answer only what the client looks at is kept: whether there is    *)
(* one, whether its body is JSON or text, the word a text starts with or   *)
(* the status a JSON object carries, and which of the fields are there.    *)
(***************************************************************************)
EXTENDS Integers

\* A text is split at its colons: "id" and "phone" say whether the second and
\* third part exist, "code" whether something follows STATUS_OK.
Answer == [kind  : {"lost", "http5", "http4", "text", "json"},
           word  : {"ACCESS_NUMBER", "STATUS_OK", "STATUS_WAIT_CODE", "STATUS_CANCEL",
                    "NO_ACTIVATION", "ok", "other", "none"},
           id    : BOOLEAN, phone : BOOLEAN, code : BOOLEAN]

\* A defect: a server error is an error like any other.
Unknown_Timeout(a) == a.kind = "lost"

\* No answer, or an HTTP status that does not say whether Grizzly acted.
Unknown(a) == a.kind \in {"lost", "http5"}

\* raise_for_status, or parts[2] of a body that ends too early.
Raises(a) ==
  \/ a.kind = "http4"
  \/ a.kind = "text" /\ a.word = "ACCESS_NUMBER" /\ ~a.phone

\* result.get('activation_id'): in JSON only together with the phone number.
HasNumber(a) ==
  IF a.kind = "json" THEN a.id /\ a.phone
  ELSE a.kind = "text" /\ a.word = "ACCESS_NUMBER"

\* A defect: sms.code of a JSON object is not looked for.
HasCode_TextOnly(a) == a.kind = "text" /\ a.word = "STATUS_OK" /\ a.code

\* result.get('otp'): a JSON object that repeats the number hides the code.
HasCode(a) ==
  IF a.kind = "json" THEN a.code /\ ~HasNumber(a)
  ELSE a.kind = "text" /\ a.word = "STATUS_OK" /\ a.code

\* result.get('status') = 'ok'.
SaysOk(a) ==
  \/ HasNumber(a) \/ HasCode(a)
  \/ a.word = "ok" /\ a.kind = "json"
  \/ a.word = "STATUS_OK" /\ a.kind = "text"

\* A defect: only one of the two words is known.
SaysCancelled_OneWord(a) == a.kind = "text" /\ a.word = "STATUS_CANCEL"

\* result.get('raw') in ('STATUS_CANCEL', 'NO_ACTIVATION').
SaysCancelled(a) == a.kind = "text" /\ a.word \in {"STATUS_CANCEL", "NO_ACTIVATION"}

-----------------------------------------------------------------------------
(* The callers.  "keyless": the result is ok, but result['activation_id']   *)
(* raises.                                                                  *)

Replies == {"ok", "unknown", "error", "keyless"}

BuyerReads(a) ==
  CASE Unknown(a) -> "unknown"
    [] ~Unknown(a) /\ (Raises(a) \/ ~SaysOk(a)) -> "error"
    [] ~Unknown(a) /\ ~Raises(a) /\ SaysOk(a) /\ HasNumber(a) -> "ok"
    [] OTHER -> "keyless"

Answers == {"otp", "cancel", "other"}

\* A result that was not raised as an exception.
WorkerReads(a) ==
  CASE HasCode(a) -> "otp"
    [] ~HasCode(a) /\ SaysCancelled(a) -> "cancel"
    [] OTHER -> "other"

-----------------------------------------------------------------------------
(* Grizzly itself, as far as the code relies on it: 4xx, an error text and  *)
(* an error object mean that no number was allocated.                       *)

\* What may come back after getNumberV2: "none", no number was allocated;
\* "active", one was, and its answer is whole if it arrives; "stray", one was,
\* and the answer arrives without the number.
NumberAnswers(got) ==
  {a \in Answer :
     CASE got = "none" ->
            \/ a.kind \in {"lost", "http5", "http4"}
            \/ a.kind = "text" /\ a.word = "other"
            \/ a.kind = "json" /\ a.word \in {"other", "none"} /\ ~a.id /\ ~a.phone /\ ~a.code
       [] got = "active" ->
            \/ a.kind \in {"lost", "http5"}
            \/ a.kind = "text" /\ a.word = "ACCESS_NUMBER" /\ a.id /\ a.phone
            \/ a.kind = "json" /\ a.id /\ a.phone
       [] got = "stray" ->
            \/ a.kind = "text" /\ a.word = "ACCESS_NUMBER" /\ ~a.phone
            \/ a.kind = "json" /\ a.word \in {"ok", "none"} /\ ~(a.id /\ a.phone)
       [] OTHER -> FALSE}

\* How getStatusV2 reports a code and a cancellation: as a text, as JSON, or
\* as JSON that repeats the number ("echo").
Forms == {"text", "json", "echo"}

Formed(a, form) ==
  CASE form = "text" -> a.kind = "text"
    [] form = "json" -> a.kind = "json" /\ ~a.id /\ ~a.phone
    [] OTHER -> a.kind = "json" /\ a.id /\ a.phone

CodeAnswers(forms) ==
  {a \in Answer : /\ \E form \in forms : Formed(a, form)
                  /\ a.code /\ (a.kind = "text" => a.word = "STATUS_OK")}

CancelAnswers(forms) ==
  {a \in Answer : /\ \E form \in forms : Formed(a, form)
                  /\ ~a.code /\ a.word \in {"STATUS_CANCEL", "NO_ACTIVATION"}}
=============================================================================
