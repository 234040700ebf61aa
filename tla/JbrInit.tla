------------------------------- MODULE JbrInit -------------------------------
(***************************************************************************)
(* The one-shot initialisation of the ejdb2 gateway (src/src/jbr/jbr.c):   *)
(* jbr_init, which threads opening databases may call concurrently, and    *)
(* _jbr_ecodefn, the error-message function it registers with iwlog.       *)
(*                                                                         *)
(* jbr_init compare-and-swaps _jbr_initialized from 0 to 1, then stores    *)
(* the four header-name hashes the request handlers look headers up by,    *)
(* then registers _jbr_ecodefn.  A caller that loses the CAS returns 0 at  *)
(* once.  The four stores are one step here: the properties only tell set  *)
(* hashes from unset ones.                                                 *)
(***************************************************************************)
EXTENDS Integers, FiniteSets

CONSTANTS
  Callers,          \* threads calling jbr_init
  RegisterMayFail   \* iwlog_register_ecodefn may fail (its table is full)

\* The JBR error codes of jbr.h: an enum opened by _JBR_ERROR_START.
JBR_ERROR_START         == 1
JBR_ERROR_HTTP_LISTEN   == JBR_ERROR_START + 1
JBR_ERROR_SEND_RESPONSE == JBR_ERROR_START + 2
JBR_ERROR_WS_UPGRADE    == JBR_ERROR_START + 3
JBR_ERROR_END           == JBR_ERROR_START + 4
JbrErrors == {JBR_ERROR_HTTP_LISTEN, JBR_ERROR_SEND_RESPONSE, JBR_ERROR_WS_UPGRADE}

IW_ERROR_FAIL == 100

\* _jbr_ecodefn: the message of a JBR code, 0 (no message) for any other.
EcodeFn(ecode) ==
  IF ~(ecode > JBR_ERROR_START /\ ecode < JBR_ERROR_END) THEN 0
  ELSE CASE ecode = JBR_ERROR_HTTP_LISTEN   -> "listen"
         [] ecode = JBR_ERROR_SEND_RESPONSE -> "send"
         [] ecode = JBR_ERROR_WS_UPGRADE    -> "upgrade"
         [] OTHER                           -> 0

VARIABLES
  initialized,  \* _jbr_initialized
  hashes,       \* the k_header_*_hash globals: "unset" (0) or "set"
  registered,   \* _jbr_ecodefn is in iwlog's table
  pc,           \* pc[t]: "call", "hash", "register", "done"
  ret           \* ret[t]: what jbr_init returned to t

vars == <<initialized, hashes, registered, pc, ret>>

Init ==
  /\ initialized = 0 /\ hashes = "unset" /\ registered = FALSE
  /\ pc = [t \in Callers |-> "call"]
  /\ ret = [t \in Callers |-> 0]

\* __sync_bool_compare_and_swap(&_jbr_initialized, 0, 1): the winner goes
\* on, a loser returns 0.
Cas(t) ==
  /\ pc[t] = "call"
  /\ IF initialized = 0
       THEN initialized' = 1 /\ pc' = [pc EXCEPT ![t] = "hash"]
       ELSE pc' = [pc EXCEPT ![t] = "done"] /\ UNCHANGED initialized
  /\ UNCHANGED <<hashes, registered, ret>>

\* k_header_x_access_token_hash = fiobj_hash_string(...) and the other three.
StoreHashes(t) ==
  /\ pc[t] = "hash"
  /\ hashes' = "set" /\ pc' = [pc EXCEPT ![t] = "register"]
  /\ UNCHANGED <<initialized, registered, ret>>

\* return iwlog_register_ecodefn(_jbr_ecodefn): registered, or the error.
Register(t) ==
  /\ pc[t] = "register"
  /\ pc' = [pc EXCEPT ![t] = "done"]
  /\ \/ registered' = TRUE /\ UNCHANGED ret
     \/ RegisterMayFail /\ ret' = [ret EXCEPT ![t] = IW_ERROR_FAIL]
        /\ UNCHANGED registered
  /\ UNCHANGED <<initialized, hashes>>

\* Every caller has returned.
Returned == (\A t \in Callers : pc[t] = "done") /\ UNCHANGED vars

Next == Returned \/ \E t \in Callers : Cas(t) \/ StoreHashes(t) \/ Register(t)

Spec == Init /\ [][Next]_vars /\ \A t \in Callers : WF_vars(Cas(t) \/ StoreHashes(t) \/ Register(t))

-----------------------------------------------------------------------------
(* Properties                                                              *)

\* A caller jbr_init returned 0 to may go on to start a server: the header
\* hashes the request handlers look X-Access-Token, X-Hints, Content-Length
\* and Content-Type up by are computed, and every JBR error code is
\* explained by the registered _jbr_ecodefn.
ReadyWhenReturned ==
  \A t \in Callers :
    (pc[t] = "done" /\ ret[t] = 0) =>
      /\ hashes = "set"
      /\ registered
      /\ \A e \in JbrErrors : EcodeFn(e) # 0

====
