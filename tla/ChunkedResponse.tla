--------------------------- MODULE ChunkedResponse ---------------------------
(***************************************************************************)
(* What the client of the ejdb2 HTTP gateway sees of the answer to one     *)
(* request, whatever the handler: either status responses and nothing      *)
(* else, or a chunked 200 whose reassembled body only ever grows along the *)
(* body the request calls for, and whose terminating chunk comes only once *)
(* that whole body has arrived.  A stream may also stop short without its  *)
(* terminator (the peer left, or the server hit an error after the         *)
(* headers): the client can tell it is incomplete.                         *)
(*                                                                         *)
(* JbrQuery and JbrHttp implement this specification under the mapping    *)
(* JbrQuery!ClientView.                                                    *)
(***************************************************************************)
EXTENDS Sequences, SequencesExt

CONSTANT Items   \* what a body is made of

VARIABLES
  body,   \* the body the current request calls for
  got,    \* the body the client has reassembled so far
  state   \* "wait", "status", "stream", "done"

cvars == <<body, got, state>>

Init == body = <<>> /\ got = <<>> /\ state = "wait"

\* A new request: nothing received yet, or answered at once by a status.
Request ==
  /\ body' \in Seq(Items)
  /\ got' = <<>>
  /\ state' \in {"wait", "status"}

\* A status response to a request that has had no answer yet.
Status ==
  /\ state = "wait"
  /\ state' = "status"
  /\ UNCHANGED <<body, got>>

\* The headers and some chunks, or more chunks, possibly with the
\* terminator: what arrives extends what arrived and stays a prefix of the
\* body, and the terminator follows the whole body.
Send ==
  /\ state \in {"wait", "stream"}
  /\ IsPrefix(got, got') /\ IsPrefix(got', body)
  /\ state' \in {"stream", "done"}
  /\ state' = "done" => got' = body
  /\ UNCHANGED body

Next == Request \/ Status \/ Send

Spec == Init /\ [][Next]_cvars

====
