------------------------------ MODULE JbrHttp -------------------------------
(***************************************************************************)
(* The HTTP request path of the ejdb2 gateway (src/src/jbr/jbr.c):         *)
(* _jbr_on_http_request parses method and path with _jbr_fill_ctx, applies *)
(* the X-Access-Token gate, and dispatches to _jbr_on_get, _jbr_on_post,   *)
(* _jbr_on_put, _jbr_on_patch, _jbr_on_delete or to the query endpoint,    *)
(* which is the component JbrQuery and is instantiated here with the same  *)
(* variables.  Requests are served one at a time to completion by the     *)
(* event-loop thread.  The database is out of scope: each call of it       *)
(* returns any of the outcomes the handler distinguishes.                  *)
(*                                                                         *)
(* A path is a sequence of one-character strings.  strtoll is modelled by  *)
(* what it does, with LLongMax standing for LLONG_MAX.                     *)
(***************************************************************************)
EXTENDS Integers, Sequences, SequencesExt, Functions, TLC

CONSTANTS
  Docs, DocSize, ExplainSize, SepSize, CrlfSize, ChunkSize, MaxDocs, NULL,
  Paths,          \* request paths the client sends
  CollMax,        \* EJDB_COLLECTION_NAME_MAX_LEN
  NumBufSize,     \* JBNUMBUF_SIZE
  LLongMax,       \* LLONG_MAX, the saturation value of strtoll
  NoToken         \* EJDB_HTTP.access_token == NULL

VARIABLES
  pc, req, result, cursor, execRc, wbuf, explain, dataSent, broken, wire,
  calls, mutated,
  http,      \* the EJDB_HTTP options: access token configured, read_anon
  handler    \* the handler _jbr_on_http_request dispatched req to, or "none"

vars == <<pc, req, result, cursor, execRc, wbuf, explain, dataSent, broken,
          wire, calls, mutated, http, handler>>

Q == INSTANCE JbrQuery

OK == Q!OK
Resp(code) == Q!Resp(code)

\* Methods _jbr_fill_ctx maps to jbr_method_t; any other method is rejected.
Methods == {"GET", "HEAD", "PUT", "POST", "PATCH", "DELETE"}

\* X-Access-Token as the request carries it: absent, the configured token,
\* another value, or sent twice (facil.io then stores an array, not a string).
TokenHeaders == {"absent", "match", "other", "multi"}

\* Request bodies of the document handlers, as jbl_from_json classifies them.
DocBodies == {"empty", "json", "badJson"}

Requests ==
  {r \in [method : Methods \cup {"OPTIONS"}, path : Paths, token : TokenHeaders,
          body : DocBodies \cup Q!QueryBodies, hints : Q!Hints] :
     /\ r.body \in (IF r.path = <<"/">> THEN Q!QueryBodies ELSE DocBodies)
     /\ r.method \notin {"POST", "PUT", "PATCH"} => r.body = "empty"
     /\ (r.path # <<"/">> \/ r.method # "POST") => r.hints = "absent"}

HttpConfigs ==
  {[token |-> NoToken, readAnon |-> FALSE]} \cup
  [token : {"tok"}, readAnon : BOOLEAN]

-----------------------------------------------------------------------------
(* strtoll(nbuf, &eptr, 10) on a string without leading white space.       *)

Digits == {"0", "1", "2", "3", "4", "5", "6", "7", "8", "9"}
DigitValue == [c \in Digits |-> CHOOSE v \in 0..9 :
                  <<"0","1","2","3","4","5","6","7","8","9">>[v + 1] = c]

\* Length of the run of digits at the start of t.
DigitRun(t) ==
  CHOOSE n \in 0..Len(t) : /\ \A i \in 1..n : t[i] \in Digits
                           /\ n < Len(t) => t[n + 1] \notin Digits

\* The value strtoll returns and the number of characters it consumed
\* (eptr - nbuf): an optional sign, then digits, saturating at the limits.
StrToLL(s) ==
  LET signed == Len(s) > 0 /\ s[1] \in {"+", "-"}
      neg    == signed /\ s[1] = "-"
      t      == IF signed THEN Tail(s) ELSE s
      n      == DigitRun(t)
      v      == FoldLeft(LAMBDA acc, c : 10 * acc + DigitValue[c], 0, SubSeq(t, 1, n))
  IN IF n = 0 THEN [val |-> 0, end |-> 0]
     ELSE [val |-> IF neg THEN (IF v > LLongMax + 1 THEN -LLongMax - 1 ELSE -v)
                          ELSE (IF v > LLongMax THEN LLongMax ELSE v),
           end |-> (IF signed THEN 1 ELSE 0) + n]

-----------------------------------------------------------------------------
(* _jbr_fill_ctx                                                           *)

Fail(m) == [ok |-> FALSE, method |-> m, coll |-> NULL, id |-> 0]

\* The `finish:` label: accept only when collection_len <= the maximum.
Finish(m, coll, id) ==
  IF Len(coll) <= CollMax THEN [ok |-> TRUE, method |-> m, coll |-> coll, id |-> id]
  ELSE Fail(m)

\* The request context _jbr_fill_ctx fills from method and path, and whether
\* it accepts them.  coll is NULL when the path names no collection.
FillCtx(m, p) ==
  LET slashes == {i \in 2..Len(p) : p[i] = "/"}
      c       == CHOOSE i \in slashes : \A j \in slashes : i <= j
      coll    == SubSeq(p, 2, c - 1)
      num     == SubSeq(p, c + 1, Len(p))
      n       == StrToLL(num)
  IN CASE m \notin Methods -> Fail(m)
       [] p = <<"/">> -> [ok |-> TRUE, method |-> m, coll |-> NULL, id |-> 0]
       [] Len(p) < 2 -> Fail(m)
       [] slashes = {} ->
            IF m \in {"GET", "HEAD", "PUT", "DELETE", "PATCH"} THEN Fail(m)
            ELSE Finish(m, Tail(p), 0)
       [] Len(num) < 1 -> Finish(m, coll, 0)
       [] Len(num) > NumBufSize - 1 -> Fail(m)
       [] n.end # Len(num) \/ n.val < 1 \/ m = "POST" -> Fail(m)
       [] OTHER -> Finish(m, coll, n.val)

-----------------------------------------------------------------------------
(* Mutated variants of the definitions below.                              *)

\* The gate letting any header-less POST through in anonymous-read mode.
AnonEligibleAnyPost(ctx) == ctx.method \in {"GET", "HEAD", "POST"}

-----------------------------------------------------------------------------
(* The token gate of _jbr_on_http_request.                                 *)

\* Requests a header-less client may make in anonymous-read mode: GET, HEAD
\* and POST to "/" (a query).
AnonEligible(ctx) ==
  \/ ctx.method \in {"GET", "HEAD"}
  \/ ctx.method = "POST" /\ ctx.coll = NULL

\* The status the gate answers with (0: proceed) and rctx.read_anon.
Gate(ctx, token) ==
  CASE http.token = NoToken -> [status |-> 0, anon |-> FALSE]
    [] token = "absent" ->
         IF http.readAnon /\ AnonEligible(ctx) THEN [status |-> 0, anon |-> TRUE]
         ELSE [status |-> 401, anon |-> FALSE]
    [] token = "multi" -> [status |-> 400, anon |-> FALSE]
    [] token = "other" -> [status |-> 403, anon |-> FALSE]
    [] token = "match" -> [status |-> 0, anon |-> FALSE]

-----------------------------------------------------------------------------
(* The document handlers.  Each answers with the sequence of status        *)
(* responses it sends and tells whether it changed the database.           *)

\* The request completes without a query: the context is fresh and released.
Answer(codes, mut) ==
  /\ calls' = [i \in DOMAIN codes |-> Resp(codes[i])]
  /\ wire' = calls'
  /\ mutated' = mut
  /\ pc' = "idle"
  /\ Q!ResetRequest

\* Database outcomes after iwrc_strip_code.
DbRcs == {"ok", "notfound", "error"}

\* _jbr_on_get for GET and HEAD.  The HEAD branch tests req->method, the
\* facil.io method string, against the enum JBR_HEAD; they never compare
\* equal, so HEAD also prints the whole document into a buffer.
HeadBranch(r) == FALSE

OnGet(r) ==
  \E rc \in DbRcs, print \in {"ok", "error"} :
    CASE rc = "notfound" -> Answer(<<404>>, FALSE) /\ handler' = "get"
      [] rc = "error" -> Answer(<<500>>, FALSE) /\ handler' = "get"
      [] OTHER -> Answer(<<IF print = "ok" THEN 200 ELSE 500>>, FALSE)
                  /\ handler' = IF HeadBranch(r) THEN "getCount" ELSE "getPrint"

\* _jbr_on_post and _jbr_on_put: parse the body, then ejdb_put_new/ejdb_put.
OnStore(r, anon, name) ==
  /\ handler' = name
  /\ CASE anon -> Answer(<<403>>, FALSE)
       [] r.body = "empty" -> Answer(<<400>>, FALSE)
       [] r.body = "badJson" -> Answer(<<400>>, FALSE)
       [] OTHER -> \E ok \in BOOLEAN :
                     IF ok THEN Answer(<<200>>, TRUE) ELSE Answer(<<500>>, FALSE)

\* ejdb_patch outcomes: a JSON or patch error of the 400 list, not found,
\* another error; a body that is not JSON always fails with a parse error.
PatchRcs(r) == IF r.body = "badJson" THEN {"patchErr"}
               ELSE {"ok", "patchErr", "notfound", "error"}

\* _jbr_on_patch: a JSON or patch error is reported with 400 and, because
\* the switch only breaks, again with 500 by the `if (rc)` that follows.
PatchStatuses(rc) ==
  CASE rc = "ok" -> <<200>>
    [] rc = "patchErr" -> <<400, 500>>
    [] OTHER -> <<500>>

OnPatch(r, anon) ==
  /\ handler' = "patch"
  /\ CASE anon -> Answer(<<403>>, FALSE)
       [] r.body = "empty" -> Answer(<<400>>, FALSE)
       [] OTHER -> \E rc \in PatchRcs(r) : Answer(PatchStatuses(rc), rc = "ok")

\* _jbr_on_delete: ejdb_remove.
OnDelete(anon) ==
  /\ handler' = "delete"
  /\ CASE anon -> Answer(<<403>>, FALSE)
       [] OTHER -> \E rc \in DbRcs :
                     Answer(<<CASE rc = "ok" -> 200 [] rc = "notfound" -> 404
                                [] OTHER -> 500>>, rc = "ok")

\* The switch on rctx.method for a request naming a collection.
Handle(r, ctx, anon) ==
  CASE ctx.method \in {"GET", "HEAD"} -> OnGet(r)
    [] ctx.method = "POST" -> OnStore(r, anon, "post")
    [] ctx.method = "PUT" -> OnStore(r, anon, "put")
    [] ctx.method = "PATCH" -> OnPatch(r, anon)
    [] ctx.method = "DELETE" -> OnDelete(anon)

\* _jbr_on_http_request without the final http_send_error(req, 400) for a
\* request to "/" that is not a POST.
RouteRootSilently(r, ctx, anon) ==
  IF ctx.coll # NULL THEN Handle(r, ctx, anon) ELSE
  IF ctx.method = "POST" THEN Q!QueryStart(anon, r.body, r.hints) /\ handler' = "query"
  ELSE Answer(<<>>, FALSE) /\ handler' = "none"

\* After the gate: a collection goes to its handler, POST / to the query.
Route(r, ctx, anon) ==
  IF ctx.coll # NULL THEN Handle(r, ctx, anon) ELSE
  IF ctx.method = "POST" THEN Q!QueryStart(anon, r.body, r.hints) /\ handler' = "query"
  ELSE Answer(<<400>>, FALSE) /\ handler' = "none"

\* _jbr_on_http_request for a request r.
OnHttpRequest ==
  /\ pc = "idle"
  /\ \E r \in Requests :
       LET ctx == FillCtx(r.method, r.path)
           g   == Gate(ctx, r.token)
       IN /\ req' = r
          /\ CASE ~ctx.ok -> Answer(<<400>>, FALSE) /\ handler' = "none"
               [] g.status # 0 -> Answer(<<g.status>>, FALSE) /\ handler' = "none"
               [] OTHER -> Route(r, ctx, g.anon)
  /\ UNCHANGED http

QueryStep ==
  /\ Q!Visit \/ Q!ExecFail \/ Q!ExecReturn \/ Q!Disconnect
  /\ UNCHANGED <<http, handler>>

Init ==
  /\ Q!Init
  /\ http \in HttpConfigs
  /\ handler = "none"

Next == OnHttpRequest \/ QueryStep

Spec == Init /\ [][Next]_vars

-----------------------------------------------------------------------------
(* Properties.                                                             *)

Handlers == {"none", "get", "getPrint", "getCount", "post", "put", "patch",
             "delete", "query"}

TypeOK ==
  /\ Q!TypeOK
  /\ http \in HttpConfigs
  /\ handler \in Handlers
  /\ req = NULL \/ req \in Requests

\* The request presented the configured token, or no token is configured.
Authorized(r) == http.token = NoToken \/ r.token = "match"

\* No request without the access token changes the database: anonymous
\* read mode admits header-less GET, HEAD and POST /, and a query of such
\* a request must not carry an apply clause (gate, routing on the parsed
\* collection, and jql_has_apply in _jbr_on_query together).
NoAnonymousMutation == mutated => Authorized(req)

\* Spec 8, invariant 1: when a token is configured, a request reaches a
\* handler only with the exact token, or without the header in anonymous-
\* read mode as GET, HEAD or POST to "/".
AdmissionPolicy ==
  (handler # "none" /\ http.token # NoToken) =>
    \/ req.token = "match"
    \/ /\ req.token = "absent" /\ http.readAnon
       /\ \/ req.method \in {"GET", "HEAD"}
          \/ req.method = "POST" /\ req.path = <<"/">>

\* Every request _jbr_on_http_request returns from was answered: with a
\* status response, or with chunked headers and http_complete.
EveryRequestAnswered ==
  (pc = "idle" /\ req # NULL) =>
    \/ \E i \in DOMAIN calls : calls[i].k = "resp"
    \/ Contains(calls, Q!COMPLETE) /\ dataSent

\* The chunks _jbr_flush_chunk writes for a query never duplicate, drop or
\* reorder a frame and put the explain block first; a query that succeeds
\* on a non-empty result for a connected client delivers the whole body
\* and the terminating chunk (JbrQuery!ChunkedStreamFaithful).
ChunkedStreamFaithful == Q!ChunkedStreamFaithful

\* Spec 3 and 6.1, the client's view: every request is answered by status
\* responses alone, or by chunked headers and chunks that extend a prefix
\* of the body the query calls for, the terminating chunk only after all
\* of it, and no status after the headers -- step by step, across the
\* visitor's flushes, ejdb_exec failing, the peer leaving and the finish
\* block of _jbr_on_query (ChunkedResponse under JbrQuery!ClientView).
ResponseRefinesClientView == Q!ClientView!Spec

\* Spec 7 (propagation): every path calls the response writer exactly once,
\* so no request is answered with more than one status response.
AtMostOneResponse == Len(calls) <= 1

\* The number the digits of the id segment denote, without saturation.
DecimalValue(s) == FoldLeft(LAMBDA acc, c : 10 * acc + DigitValue[c], 0, s)

\* Spec 3, 4.2 and 8 (invariant 2): an operation on /{collection}/{id}
\* runs only for a collection of 1 to the maximum bytes and an id segment
\* that is a decimal number of at least 1, and with that number: an empty
\* or unparsable segment is rejected with 400, and an id that does not fit
\* must not reach a handler as some other number (strtoll saturates and
\* sets only errno).
IdIsTheNumberSent ==
  handler \in {"get", "getPrint", "getCount", "put", "patch", "delete"} =>
    LET ctx == FillCtx(req.method, req.path)
        num == SubSeq(req.path, Len(ctx.coll) + 3, Len(req.path))
    IN /\ 1 <= Len(ctx.coll) /\ Len(ctx.coll) <= CollMax
       /\ num # <<>> /\ \A i \in DOMAIN num : num[i] \in Digits
       /\ ctx.id = DecimalValue(num) /\ ctx.id >= 1

====
