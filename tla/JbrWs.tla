-------------------------------- MODULE JbrWs --------------------------------
(***************************************************************************)
(* One WebSocket connection of the ejdb2 gateway (src/src/jbr/jbr.c):      *)
(* _jbr_on_http_upgrade allocates the JBWCTX, applies the access token    *)
(* and asks facil.io to upgrade; _jbr_ws_on_open, _jbr_ws_on_message and   *)
(* _jbr_ws_on_close then run for the session.  Text frames are parsed by  *)
(* JbrWsParse and the resulting operation is recorded in `ops`.            *)
(*                                                                         *)
(* facil.io documents that on_close is called "once a websocket connection *)
(* is terminated or failed to be established" (uuid -1): OnCloseOnFailure  *)
(* says whether http_upgrade2ws calls it when the upgrade fails.           *)
(***************************************************************************)
EXTENDS Integers, Sequences, TLC

CONSTANTS
  Words, MaxWords, MaxKeyLen, CollMax, NumBufSize, IdBits, \* of the parser
  MaxMsgs,          \* frames per session
  OnCloseOnFailure, \* facil.io calls on_close when http_upgrade2ws fails
  NULL

\* The parser's operators; its one-message state is not used here.
P == INSTANCE JbrWsParse WITH msg <- NULL, out <- NULL

VARIABLES
  conf,     \* EJDB_HTTP: access token configured, read_anon
  req,      \* the upgrade request: path, protocol, token header
  resp,     \* HTTP status sent on the upgrade request, 0 if none
  session,  \* "none", "rejected", "open", "closing", "closed"
  wctx,     \* the JBWCTX: "none", "live", "freed"
  wfrees,   \* free() calls on the JBWCTX
  readAnon, \* wctx->read_anon
  ops,      \* operations dispatched by _jbr_ws_on_message
  nmsgs     \* frames received

vars == <<conf, req, resp, session, wctx, wfrees, readAnon, ops, nmsgs>>

Configs == {[token |-> FALSE, readAnon |-> FALSE],
            [token |-> TRUE, readAnon |-> FALSE],
            [token |-> TRUE, readAnon |-> TRUE]}

\* requested_protocol: its length and second byte.
Protocols == {[len |-> 9, second |-> "e"], [len |-> 9, second |-> "x"],
              [len |-> 3, second |-> "s"]}
Paths == {"/", "/c"}
TokenHeaders == {"absent", "match", "other", "multi"}
UpgradeRequests == [path : Paths, proto : Protocols, hdr : TokenHeaders]

\* The text frames: a whitespace-only or empty frame and every message of
\* the parser's words.
Frames == P!Messages \cup {<<>>}

FreeWctx == wctx' = "freed" /\ wfrees' = wfrees + 1

Init ==
  /\ conf \in Configs
  /\ req = NULL /\ resp = 0 /\ session = "none"
  /\ wctx = "none" /\ wfrees = 0 /\ readAnon = FALSE
  /\ ops = <<>> /\ nmsgs = 0

-----------------------------------------------------------------------------

\* hv.len != access_token_len || memcmp(...): the header's value differs
\* from the configured token.
TokenRejected403(r) == r.hdr = "other"

\* Mutant: the 403 path not freeing the JBWCTX.
GateNo403Free(r) ==
  CASE r.hdr = "absent" /\ ~conf.readAnon ->
         FreeWctx /\ resp' = 401 /\ UNCHANGED readAnon
    [] r.hdr \in {"absent", "multi"} ->
         FreeWctx /\ resp' = 400 /\ readAnon' = (r.hdr = "absent")
    [] TokenRejected403(r) ->
         resp' = 403 /\ wctx' = "live" /\ UNCHANGED <<readAnon, wfrees>>

\* The access-token block of _jbr_on_http_upgrade for a configured token,
\* on every request it rejects.  A missing header with read_anon sets
\* wctx->read_anon and falls through to fiobj_type_is(h, FIOBJ_T_STRING)
\* with h == 0, which is false: the same 400 as a repeated header.
Gate(r) ==
  CASE r.hdr = "absent" /\ ~conf.readAnon ->
         FreeWctx /\ resp' = 401 /\ UNCHANGED readAnon
    [] r.hdr \in {"absent", "multi"} ->
         FreeWctx /\ resp' = 400 /\ readAnon' = (r.hdr = "absent")
    [] TokenRejected403(r) ->
         FreeWctx /\ resp' = 403 /\ UNCHANGED readAnon

GateRejects(r) ==
  conf.token /\ (r.hdr \in {"absent", "multi"} \/ TokenRejected403(r))

\* _jbr_on_http_upgrade: path and protocol check, calloc of the JBWCTX
\* (which may fail), the token gate, and http_upgrade2ws, which may fail;
\* then facil.io may call on_close (freeing wctx) before the code frees
\* it and reports 500.  On success facil.io calls _jbr_ws_on_open.
OnHttpUpgrade ==
  /\ session = "none"
  /\ \E r \in UpgradeRequests :
       /\ req' = r /\ UNCHANGED <<ops, nmsgs>>
       /\ \/ /\ (r.path # "/" \/ r.proto.len # 9 \/ r.proto.second # "e")
             /\ resp' = 400 /\ session' = "rejected"
             /\ UNCHANGED <<wctx, wfrees, readAnon>>
          \/ /\ r.path = "/" /\ r.proto.len = 9 /\ r.proto.second = "e"
             /\ \/ resp' = 500 /\ session' = "rejected"
                   /\ UNCHANGED <<wctx, wfrees, readAnon>>
                \/ /\ GateRejects(r)
                   /\ Gate(r) /\ session' = "rejected"
                \/ /\ ~GateRejects(r)
                   /\ UNCHANGED readAnon
                   /\ \/ session' = "open" /\ resp' = 0
                         /\ wctx' = "live" /\ UNCHANGED wfrees
                      \/ session' = "rejected" /\ resp' = 500
                         /\ wctx' = "freed"
                         /\ wfrees' = IF OnCloseOnFailure THEN 2 ELSE 1
  /\ UNCHANGED conf

\* _jbr_ws_on_message: a binary frame closes the connection, an empty one
\* is ignored, a text frame is parsed and its operation dispatched.
OnMessage ==
  /\ session = "open" /\ nmsgs < MaxMsgs
  /\ nmsgs' = nmsgs + 1
  /\ \/ session' = "closing" /\ UNCHANGED ops
     \/ \E f \in Frames :
          /\ ops' = IF f = <<>> THEN ops ELSE Append(ops, P!WsParse(f))
          /\ UNCHANGED session
  /\ UNCHANGED <<conf, req, resp, wctx, wfrees, readAnon>>

\* The connection ends (peer close, or after websocket_close): facil.io
\* calls _jbr_ws_on_close, which frees the JBWCTX.
OnClose ==
  /\ session \in {"open", "closing"}
  /\ session' = "closed"
  /\ FreeWctx
  /\ UNCHANGED <<conf, req, resp, readAnon, ops, nmsgs>>

\* The connection is over.
Ended ==
  /\ session \in {"rejected", "closed"}
  /\ UNCHANGED vars

Next == OnHttpUpgrade \/ OnMessage \/ OnClose \/ Ended

Spec == Init /\ [][Next]_vars

-----------------------------------------------------------------------------
(* Properties                                                              *)

\* Every way a connection ends -- a rejected upgrade on any path, a failed
\* http_upgrade2ws, a closed session -- leaves no JBWCTX allocated.
WctxReleased == session \in {"rejected", "closed"} => wctx # "live"

\* The JBWCTX is freed at most once, whichever of the code and facil.io's
\* on_close frees it.
WctxFreedOnce == wfrees <= 1

\* With read_anon set, an upgrade of "/" to "websocket" without a token
\* header opens an anonymous session (as the HTTP gate admits anonymous
\* reads) unless allocation or the upgrade itself fails.
AnonymousUpgradeAdmitted ==
  (session = "rejected" /\ conf.token /\ conf.readAnon
     /\ req.hdr = "absent" /\ req.path = "/"
     /\ req.proto.len = 9 /\ req.proto.second = "e")
    => resp = 500

====
