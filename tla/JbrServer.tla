------------------------------ MODULE JbrServer ------------------------------
(***************************************************************************)
(* What jbr_start and jbr_shutdown promise the database that embeds the    *)
(* gateway: one server struct is allocated, its listener starts serving,   *)
(* requests run only while it serves and the struct is live, and the      *)
(* struct is released only when the server no longer serves and no        *)
(* request is in progress.  The handle is published to the caller either  *)
(* before a blocking server runs, or once a non-blocking one has bound     *)
(* its listener; it never refers to a released struct.                     *)
(*                                                                         *)
(* JbrLifecycle implements this specification under the mapping           *)
(* JbrLifecycle!Server.                                                    *)
(***************************************************************************)

VARIABLES
  blocking,  \* the server runs on the caller's thread
  alloc,     \* the server struct: "none", "live", "freed"
  srv,       \* the listener: "idle", "serving", "stopped"
  pub,       \* the caller holds a handle to the live struct
  busy       \* a request is in progress

svars == <<blocking, alloc, srv, pub, busy>>

Init ==
  /\ blocking \in BOOLEAN
  /\ alloc = "none" /\ srv = "idle" /\ pub = FALSE /\ busy = FALSE

Alloc ==
  /\ alloc = "none" /\ alloc' = "live"
  /\ UNCHANGED <<blocking, srv, pub, busy>>

Listen ==
  /\ alloc = "live" /\ srv = "idle" /\ srv' = "serving"
  /\ UNCHANGED <<blocking, alloc, pub, busy>>

\* A blocking server is published before it runs; a non-blocking one only
\* after its listener was bound.
Publish ==
  /\ alloc = "live" /\ ~pub /\ pub'
  /\ IF blocking THEN srv = "idle" ELSE srv # "idle"
  /\ UNCHANGED <<blocking, alloc, srv, busy>>

Begin ==
  /\ alloc = "live" /\ srv = "serving" /\ ~busy /\ busy'
  /\ UNCHANGED <<blocking, alloc, srv, pub>>

End ==
  /\ busy /\ ~busy'
  /\ UNCHANGED <<blocking, alloc, srv, pub>>

Stop ==
  /\ srv = "serving" /\ srv' = "stopped"
  /\ UNCHANGED <<blocking, alloc, pub, busy>>

Release ==
  /\ alloc = "live" /\ srv # "serving" /\ ~busy
  /\ alloc' = "freed" /\ ~pub'
  /\ UNCHANGED <<blocking, srv, busy>>

Next == Alloc \/ Listen \/ Publish \/ Begin \/ End \/ Stop \/ Release

Spec == Init /\ [][Next]_svars

====
