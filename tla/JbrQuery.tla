------------------------------ MODULE JbrQuery ------------------------------
(***************************************************************************)
(* The query endpoint POST / of the ejdb2 HTTP gateway (src/src/jbr/jbr.c): *)
(* _jbr_on_query runs ejdb_exec, the database calls _jbr_query_visitor     *)
(* once per matched document, and the visitor appends the frame            *)
(* "\r\n<id>\t<json>" to the per-request buffer wbuf and calls             *)
(* _jbr_flush_chunk, which writes the chunked headers on its first call    *)
(* and a chunk whenever wbuf reaches JBR_HTTP_CHUNK_SIZE.                  *)
(*                                                                         *)
(* Bytes are abstracted to items: a document frame, the explain log, the   *)
(* separator line and the trailing CRLF, each with a size in abstract      *)
(* units, so that the chunk threshold is reached by a few items.  The      *)
(* client socket may be closed by the peer at any time (Disconnect); from  *)
(* then on every fio_write and http_write_headers fails.                   *)
(***************************************************************************)
EXTENDS Integers, Sequences, SequencesExt, Functions, TLC

CONSTANTS
  Docs,         \* documents a query can match (model values)
  DocSize,      \* DocSize[d]: size of the frame of d
  ExplainSize,  \* size of the explain log written by the query planner
  SepSize,      \* size of "--------------------"
  CrlfSize,     \* size of the trailing "\r\n"
  ChunkSize,    \* JBR_HTTP_CHUNK_SIZE
  MaxDocs,      \* bound on the number of documents a query matches
  NULL

ASSUME ChunkSize \in Nat \ {0} /\ MaxDocs \in Nat

EXPLAIN == "explain"
SEP     == "sep"
CRLF    == "crlf"
Items   == Docs \cup {EXPLAIN, SEP, CRLF}

ItemSize == DocSize @@ (EXPLAIN :> ExplainSize) @@ (SEP :> SepSize) @@ (CRLF :> CrlfSize)

BufSize(buf) == FoldLeft(LAMBDA acc, x : acc + ItemSize[x], 0, buf)

\* Result sets of ejdb_exec: each matched document is visited once, in order.
Results == {s \in BoundedSeq(Docs, MaxDocs) : IsInjective(s)}

\* iwrc values the query path distinguishes after iwrc_strip_code: 0, and
\* JBR_ERROR_SEND_RESPONSE, an error of ejdb_exec itself, IW_ERROR_ALLOC.
OK        == 0
SEND_ERR  == 1
DB_ERR    == 2
ALLOC_ERR == 3

\* Request inputs of the query path: the body as jql_create classifies it,
\* and the X-Hints header (absent, containing "explain", other, or sent twice).
QueryBodies == {"empty", "parseErr", "noColl", "read", "apply"}
Hints       == {"absent", "explain", "other", "multi"}

VARIABLES
  pc,        \* "idle" between requests, "exec" while ejdb_exec runs
  req,       \* the request being served
  result,    \* documents ejdb_exec will visit
  cursor,    \* index of the next document to visit
  execRc,    \* rc the visitor or the engine has made ejdb_exec return
  wbuf,      \* rctx->wbuf: NULL or a sequence of items
  explain,   \* rctx->explain != NULL
  dataSent,  \* rctx->data_sent
  broken,    \* the peer has closed the connection
  wire,      \* what reached the client: headers, chunks, end chunk, responses
  calls,     \* terminal writer calls: _jbr_http_send* and http_complete
  mutated    \* the database was modified while serving req

qvars == <<pc, req, result, cursor, execRc, wbuf, explain, dataSent, broken,
           wire, calls, mutated>>

\* Wire and writer events.
Resp(code) == [k |-> "resp", code |-> code]
HDR        == [k |-> "hdr"]
Chunk(b)   == [k |-> "chunk", data |-> b]
END        == [k |-> "end"]
COMPLETE   == [k |-> "complete"]

-----------------------------------------------------------------------------
(* Mutated variants of the definitions below; each is a plausible bug in   *)
(* the C code and must be caught by a property of the passing runs.        *)

\* _jbr_flush_chunk without iwxstr_clear(wbuf) after writing a chunk.
FlushNoClear(buf, finish) ==
  LET wantWrite == finish \/ BufSize(buf) >= ChunkSize
      hdr == IF dataSent THEN <<>> ELSE <<HDR>>
      chunk == IF buf = <<>> THEN <<>> ELSE <<Chunk(buf)>>
      end == IF finish THEN <<END>> ELSE <<>>
  IN CASE ~dataSent /\ broken -> [rc |-> SEND_ERR, buf |-> buf, sent |-> FALSE, out |-> <<>>]
       [] ~wantWrite -> [rc |-> OK, buf |-> buf, sent |-> TRUE, out |-> hdr]
       [] broken -> [rc |-> SEND_ERR, buf |-> buf, sent |-> TRUE, out |-> hdr]
       [] OTHER -> [rc |-> OK, buf |-> buf, sent |-> TRUE, out |-> hdr \o chunk \o end]

\* The finish block of _jbr_on_query reporting 500 without checking data_sent.
FinishIgnoresDataSent(rc, sent) ==
  IF rc # OK THEN Resp(500) ELSE IF sent THEN COMPLETE ELSE Resp(200)

\* JBR_RC_REPORT(rc, req, 500) with its arguments swapped: the iwrc as status.
FinishSwappedReport(rc, sent) ==
  IF rc # OK THEN (IF sent THEN COMPLETE ELSE Resp(rc))
  ELSE IF sent THEN COMPLETE ELSE Resp(200)

\* _jbr_on_query without the check `rctx->read_anon && jql_has_apply(q)`.
DeniedNoApplyCheck(readAnon, body) == FALSE

-----------------------------------------------------------------------------
(* Response writer.                                                        *)

\* _jbr_flush_chunk(rctx, finish) applied to the buffer buf: the new buffer,
\* data_sent, what reached the wire and the rc.  The first call writes the
\* chunked headers; a chunk is written when finish or buf >= ChunkSize; a
\* write on a closed connection fails and leaves the buffer as it was.
Flush(buf, finish) ==
  LET wantWrite == finish \/ BufSize(buf) >= ChunkSize
      hdr == IF dataSent THEN <<>> ELSE <<HDR>>
      chunk == IF buf = <<>> THEN <<>> ELSE <<Chunk(buf)>>
      end == IF finish THEN <<END>> ELSE <<>>
  IN CASE ~dataSent /\ broken -> [rc |-> SEND_ERR, buf |-> buf, sent |-> FALSE, out |-> <<>>]
       [] ~wantWrite -> [rc |-> OK, buf |-> buf, sent |-> TRUE, out |-> hdr]
       [] broken -> [rc |-> SEND_ERR, buf |-> buf, sent |-> TRUE, out |-> hdr]
       [] OTHER -> [rc |-> OK, buf |-> <<>>, sent |-> TRUE, out |-> hdr \o chunk \o end]

-----------------------------------------------------------------------------
(* _jbr_on_query up to ejdb_exec.                                          *)

\* The early return with 403: anonymous request whose query has an apply clause.
Denied(readAnon, body) == readAnon /\ body = "apply"

\* Statuses of the early returns of _jbr_on_query, in the order the code
\* checks them: empty body, jql_create failing with JQL_ERROR_QUERY_PARSE or
\* JQL_ERROR_NO_COLLECTION, anonymous apply, X-Hints sent more than once.
EarlyStatus(readAnon, body, hints) ==
  CASE body = "empty"           -> 400
    [] body \in {"parseErr", "noColl"} -> 400
    [] Denied(readAnon, body)   -> 403
    [] hints = "multi"          -> 400
    [] OTHER                    -> 0

\* A request answered without running a query: a fresh, released context.
ResetRequest ==
  /\ result' = <<>> /\ cursor' = 1 /\ execRc' = OK
  /\ wbuf' = NULL /\ explain' = FALSE /\ dataSent' = FALSE /\ broken' = FALSE

\* The part of _jbr_on_query before ejdb_exec, for a fresh request context.
\* An early return sends its status; otherwise the explain buffer is
\* allocated when X-Hints contains "explain" (its allocation may fail, which
\* goes to finish and reports 500) and ejdb_exec starts on some result set.
QueryStart(readAnon, body, hints) ==
  LET status == EarlyStatus(readAnon, body, hints) IN
  \/ /\ status # 0
     /\ ResetRequest /\ pc' = "idle" /\ mutated' = FALSE
     /\ calls' = <<Resp(status)>> /\ wire' = <<Resp(status)>>
  \/ /\ status = 0 /\ hints = "explain"
     /\ ResetRequest /\ pc' = "idle" /\ mutated' = FALSE
     /\ calls' = <<Resp(500)>> /\ wire' = <<Resp(500)>>
  \/ /\ status = 0
     /\ \E r \in Results :
          /\ pc' = "exec" /\ result' = r /\ cursor' = 1 /\ execRc' = OK
          /\ wbuf' = NULL /\ explain' = (hints = "explain")
          /\ dataSent' = FALSE /\ broken' = FALSE /\ mutated' = FALSE
          /\ calls' = <<>> /\ wire' = <<>>

-----------------------------------------------------------------------------
(* ejdb_exec and the visitor.                                              *)

\* _jbr_query_visitor on the next document: allocate wbuf if needed, move the
\* explain log and the separator into it and release the log, append the
\* frame, then _jbr_flush_chunk(rctx, false).  A non-zero rc stops ejdb_exec.
\* A query with an apply clause has updated the document before the visit.
Visit ==
  /\ pc = "exec" /\ execRc = OK /\ cursor <= Len(result)
  /\ LET buf == (IF wbuf = NULL THEN <<>> ELSE wbuf)
                \o (IF explain THEN <<EXPLAIN, SEP>> ELSE <<>>)
                \o <<result[cursor]>>
         f == Flush(buf, FALSE)
     IN /\ wbuf' = f.buf /\ dataSent' = f.sent /\ execRc' = f.rc
        /\ wire' = wire \o f.out
  /\ explain' = FALSE
  /\ cursor' = cursor + 1
  /\ mutated' = (mutated \/ req.body = "apply")
  /\ UNCHANGED <<pc, req, result, broken, calls>>

\* ejdb_exec fails on its own (storage error), or the visitor fails before
\* flushing (allocation of wbuf, printing the document): exec returns the rc.
ExecFail ==
  /\ pc = "exec" /\ execRc = OK /\ cursor <= Len(result)
  /\ execRc' \in {DB_ERR, ALLOC_ERR}
  /\ UNCHANGED <<pc, req, result, cursor, wbuf, explain, dataSent, broken,
                 wire, calls, mutated>>

\* The terminal call of the finish block of _jbr_on_query for rc, given
\* data_sent: once headers went out only http_complete may be called.
FinishCall(rc, sent) ==
  IF rc # OK THEN (IF sent THEN COMPLETE ELSE Resp(500))
  ELSE IF sent THEN COMPLETE ELSE Resp(200)

\* ejdb_exec has returned: on success with a buffer, append "\r\n" and
\* _jbr_flush_chunk(rctx, true); then the finish block: after data was sent
\* only http_complete, else a 500 or an empty 200; release explain and wbuf.
ExecReturn ==
  /\ pc = "exec" /\ (execRc # OK \/ cursor > Len(result))
  /\ LET f == IF execRc = OK /\ wbuf # NULL
                THEN Flush(wbuf \o <<CRLF>>, TRUE)
                ELSE [rc |-> execRc, buf |-> wbuf, sent |-> dataSent, out |-> <<>>]
         last == FinishCall(f.rc, f.sent)
     IN /\ dataSent' = f.sent
        /\ calls' = Append(calls, last)
        /\ wire' = wire \o f.out \o
                   (IF last.k = "resp" /\ ~broken THEN <<last>> ELSE <<>>)
  /\ pc' = "idle" /\ wbuf' = NULL /\ explain' = FALSE
  /\ UNCHANGED <<req, result, cursor, execRc, broken, mutated>>

\* The peer closes the connection while the query runs.
Disconnect ==
  /\ pc = "exec" /\ ~broken
  /\ broken' = TRUE
  /\ UNCHANGED <<pc, req, result, cursor, execRc, wbuf, explain, dataSent,
                 wire, calls, mutated>>

-----------------------------------------------------------------------------
(* A fresh connection: no request served yet.  JbrHttp routes each POST /  *)
(* to QueryStart and runs the remaining actions as QueryStep.              *)

Init ==
  /\ pc = "idle" /\ req = NULL /\ result = <<>> /\ cursor = 1 /\ execRc = OK
  /\ wbuf = NULL /\ explain = FALSE /\ dataSent = FALSE /\ broken = FALSE
  /\ wire = <<>> /\ calls = <<>> /\ mutated = FALSE

-----------------------------------------------------------------------------
(* Properties.                                                             *)

\* HTTP statuses the gateway answers with.
Statuses == {200, 400, 401, 403, 404, 500}

TypeOK ==
  /\ pc \in {"idle", "exec"}
  /\ result \in Results
  /\ cursor \in 1..(Len(result) + 1)
  /\ execRc \in {OK, SEND_ERR, DB_ERR, ALLOC_ERR}
  /\ wbuf = NULL \/ wbuf \in Seq(Items)
  /\ {explain, dataSent, broken, mutated} \subseteq BOOLEAN
  /\ \A i \in DOMAIN wire :
       \/ wire[i] \in {HDR, END} \cup {Resp(c) : c \in Statuses}
       \/ wire[i].k = "chunk" /\ wire[i].data \in Seq(Items)
  /\ \A i \in DOMAIN calls : calls[i] \in {COMPLETE} \cup {Resp(c) : c \in Statuses}

ChunkEvents == SelectSeq(wire, LAMBDA e : e.k = "chunk")

\* The body of the chunked response as the client reassembles it.
Delivered == FlattenSeq([i \in DOMAIN ChunkEvents |-> ChunkEvents[i].data])

\* What the query response body must be (spec 6.1): the explain block when
\* requested, one frame per matched document in result order, then "\r\n".
ExpectedStream ==
  (IF req.hints = "explain" THEN <<EXPLAIN, SEP>> ELSE <<>>) \o result \o <<CRLF>>

\* The chunks _jbr_flush_chunk writes, across all visitor calls and the final
\* flush, never duplicate, drop or reorder a frame, and put the explain block
\* first; when ejdb_exec succeeds on a non-empty result and the client stays
\* connected, the client receives the whole body and the terminating chunk.
ChunkedStreamFaithful ==
  req # NULL =>
    /\ IsPrefix(Delivered, ExpectedStream)
    /\ (pc = "idle" /\ Len(result) > 0 /\ execRc = OK /\ ~broken)
         => Delivered = ExpectedStream /\ Last(wire) = END

-----------------------------------------------------------------------------
(* The client's view of the response, mapped onto ChunkedResponse.        *)

\* A status response next to chunked headers is no state the client can
\* be in: "invalid" is outside ChunkedResponse's states.
ClientState ==
  LET hasResp == \E i \in DOMAIN wire : wire[i].k = "resp"
      hasHdr  == Contains(wire, HDR)
  IN CASE hasResp /\ hasHdr   -> "invalid"
       [] hasResp             -> "status"
       [] Contains(wire, END) -> "done"
       [] hasHdr              -> "stream"
       [] OTHER               -> "wait"

ClientView == INSTANCE ChunkedResponse
                WITH body <- IF req = NULL THEN <<>> ELSE ExpectedStream,
                     got <- Delivered, state <- ClientState

====
