# TLA+ models of the ejdb2 HTTP/WebSocket gateway

The repository's code is `src/src/jbr/jbr.c`, the HTTP and WebSocket gateway of
ejdb2. It is built on facil.io. `src/src/jblob/tests/jbl_test1.c` is a unit test
of the JSON library. This directory holds TLA+ models of the gateway, the TLC
configurations that check them, and `PROJECT.json`. `PROJECT.json` maps every
definition to the lines of `jbr.c` it models and lists the runs, the mutants,
the findings and the hazards.

## The system

| Part | Code | What it does |
|---|---|---|
| Request parser | `_jbr_fill_ctx` (492-573) | Method name to `jbr_method_t`. The path `/` or `/<coll>` or `/<coll>/<id>`, with the id read by `strtoll`. |
| Token gate | `_jbr_on_http_request` (575-606) | `X-Access-Token` must match when a token is configured. Without a header, `read_anon` admits GET, HEAD and POST `/`. |
| Dispatcher | `_jbr_on_http_request` (608-640) | Routes to a handler by method and whether a collection is named. |
| Document handlers | `_jbr_on_get/post/put/patch/delete` (334-490) | One database call each, then one response. |
| Query streaming | `_jbr_on_query`, `_jbr_query_visitor`, `_jbr_flush_chunk` (165-332) | Parses a JQL query. Refuses `apply` to anonymous readers. Streams each visited document into a buffer that is flushed as HTTP chunks (the headers go on the first flush), then finishes the stream or reports an error. |
| Server lifecycle | `jbr_start`, `_jbr_start_thread`, `_jbr_on_pre_start`, `jbr_shutdown`, `_jbr_release` (647-652, 881-977) | Allocates the `JBR`. In non-blocking mode it spawns a worker and waits on a two-party barrier for the listen outcome; in blocking mode it serves on the calling thread. Shutdown CASes `terminated`, stops the reactor, joins the worker and frees the `JBR`. |
| WebSocket session | `_jbr_on_http_upgrade`, `_jbr_ws_on_message` (715-877) | Token check on upgrade, then a line parser `<key> <cmd> <coll> <id> <json>` dispatching to operations that are still empty stubs. |
| Error registry | `_jbr_ecodefn`, `jbr_init` (979-1003) | Message table. |

How the parts interact:
- Requests run inside the reactor that `fio_start(.threads = -1, ...)`
  starts on the worker, or on the caller in blocking mode (line 908). It
  runs a pool of threads, one per core, so requests may overlap. Each request
  has its own `JBRCTX` on its stack, and a request touches no shared state
  except the `JBR` it reads. `JbrHttp` therefore checks one request at a
  time, and `JbrLifecycle` keeps one request in progress, which is enough to
  put a request next to the free of the `JBR`.
- Each request reads the `JBR` through `req->udata`, and this is where the
  lifecycle and the request paths meet. A request in progress while the `JBR`
  is freed is a use after free (the `RequestBegin`/`RequestEnd` steps of
  `JbrLifecycle`).
- Inside a query, the parser's context (`read_anon`, the collection) decides
  which early error the query handler returns.

## Modules

### JbrQuery (POST `/`)

**Data abstraction.**
- The written data is a sequence of items: a document, the explain block,
  the separator and the final CRLF. Each item has an abstract size, and
  `ChunkSize` stands for `JBR_HTTP_CHUNK_SIZE`.
- The results `ejdb_exec` visits are any injective sequence of at most
  `MaxDocs` documents.
- The peer may close the socket at any time (`broken`). After that, every
  `fio_write` and `http_write_headers` fails.
- `wire` is what the peer receives. `calls` is the sequence of response calls
  the handler makes.

**Actions.**
- `QueryStart` covers the code from the body read up to `ejdb_exec`: the
  early 400 and 403 answers, the failing allocation of the explain buffer, and
  the start of execution.
- `Visit` is one visitor call: the explain block is prepended once, the
  document is appended, and `Flush(buf, FALSE)` follows.
- `ExecFail` is `ejdb_exec` failing after zero or more visits.
- `ExecReturn` is the final CRLF with `Flush(buf, TRUE)`, then the `finish:`
  block (`FinishCall`) and the release of the buffers.
- `Disconnect` is the peer closing the socket.

**Driven by `JbrHttp`.** The module has no `Next` of its own. `JbrHttp`
runs `QueryStart` when a POST `/` passes the gate, and the other actions
while the query is in progress.

### ChunkedResponse (what a client of a query sees)

An abstract specification of one response as the client reads it. The
server owes a body, the sequence of items a query produces. It first waits,
then answers either with a single status response, or with a stream whose
received part is always a prefix of the body. The stream ends only once the
whole body has arrived. `JbrQuery!ClientView` maps the detailed model onto
it:
- `body` is the expected stream (explain block, documents, CRLF);
- `got` is what the wire delivered;
- `state` is read from the wire: no headers yet, a plain response, headers
  sent, or the `0\r\n\r\n` terminator received. Headers followed by a
  second response map to `invalid`, which no step of the abstract spec
  allows.

### JbrHttp (parser, gate, dispatcher, handlers)

This module composes `JbrQuery` through `Q == INSTANCE JbrQuery`.

**Parser inputs.**
- `FillCtx(m, p)` translates `_jbr_fill_ctx` over paths given as tuples of
  one-character segments.
- `StrToLL` models `strtoll`: an optional sign, the leading digit run, and
  saturation at `LLongMax`. The id is usable only if the digits end exactly
  at the end of the path.
- `LLongMax` is scaled down to 7 in the MC model, so that the saturation is
  reachable with three digits. TLC integers cannot hold 2^63 - 1.

**Gate and handlers.**
- `Gate` is the token check.
- Each handler picks its response from the possible database outcomes.
- `HeadBranch` is the `req->method == JBR_HEAD` test at line 467. It is
  always false, because `req->method` is a FIOBJ and not the enum.

**Mutation.** `mutated` records that a request changed the database: a
successful POST, PUT, PATCH or DELETE, or a query with `apply` that visited a
document.

### JbrLifecycle (start and shutdown)

**Threads.**
- The starter, which calls `jbr_start`.
- The worker, created by `pthread_create`.
- `Closers`: threads that hold the published handle and call `jbr_shutdown`,
  each at most `MaxCalls` times.

**Steps.**
- Every label is one atomic step: one shared read or write, one barrier
  operation, or one facil.io call.
- `_jbr_release` takes three steps (read `*pjbr`, free it, zero it), because
  another thread may run between them.
- The `JBR` is memory that is `none`, `live` or `freed`.
- `Free` counts the frees. `Touch` records an access made after a free.

**The reactor.**
- The reactor runs `idle` → `running` → `stopping` → `stopped`.
- Requests (`RequestBegin`/`RequestEnd`) read the `JBR` while the reactor
  runs.
- `SignalStop` is facil.io's own SIGINT/SIGTERM handling.
- `fio_stop` has no effect on a reactor that has not started yet. facil.io's
  `fio_start` marks the reactor active itself.

### JbrServer (what start and shutdown promise)

An abstract specification of the server's contract with the embedding
database. The struct is allocated once. The listener goes from `idle` to
`serving` to `stopped`. Requests run only while it serves and the struct is
live. The struct is released only when nothing serves and no request is in
progress. The handle is published before a blocking server runs, or after a
non-blocking one has bound its listener. `JbrLifecycle!Server` is the
refinement mapping: `srv` is read from the reactor state, `pub` is a
non-NULL handle to a live `JBR`, and `busy` is a request in progress.

### JbrInit (`jbr_init` and `_jbr_ecodefn`)

- `Cas` is the `__sync_bool_compare_and_swap` on `_jbr_initialized`. The
  winner goes on, and a loser returns 0 at once.
- `StoreHashes` stores the four header-name hashes as one step.
- `Register` is `iwlog_register_ecodefn`. When `RegisterMayFail` holds it
  may fail, and the flag stays set.
- `EcodeFn` translates `_jbr_ecodefn`: a range check, then the message of
  each JBR code. The code values come from `jbr.h`, which is not under
  `src/`, so they are marked spec-modelled.

### JbrWsParse (the text-frame parser)

- A message is a sequence of tokens. A word is a tuple of one-character
  strings. `WS` is one run of whitespace, which is how the code's `isspace()`
  loops see it.
- `WsParse` translates `_jbr_ws_on_message` from the whitespace skip to the
  dispatch. Its parts:
  - the key check against `JBR_MAX_KEY_LEN` (`KeyFits`);
  - the `strncmp` chain (`CmdOf`);
  - the collection word (`CollFrame`);
  - the id, read as the leading digit run of at most `JBNUMBUF_SIZE - 1`
    characters (`DigitRun`), passed through `iwatoi` with wrapping at
    `IdBits` bits (`IWAtoI`), and checked for `id < 1` (`IdFrame`).
- The result is the operation that the message would be dispatched to. The
  operation functions themselves are empty stubs.
- `SpecFrame` is the frame grammar of the protocol, written as a reference
  definition. `WellFormed` picks out the frames that every reading of the
  grammar agrees on.
- The model has one variable for the message and one for the parse result.

### JbrWs (one WebSocket connection)

- `OnHttpUpgrade` is `_jbr_on_http_upgrade`. It covers:
  - the path and protocol check;
  - the `calloc` failure;
  - the token gate (`Gate`);
  - `http_upgrade2ws` succeeding (facil.io then calls `_jbr_ws_on_open`) or
    failing.
- `OnMessage` is one frame. A binary frame closes the session. An empty frame
  is ignored. A text frame is parsed by `JbrWsParse` (`P!WsParse`).
- `OnClose` is `_jbr_ws_on_close`, which frees the `JBWCTX`.
- `wfrees` counts the frees of the `JBWCTX`.
- `OnCloseOnFailure` is TRUE in the configs. facil.io 0.7's
  `http_upgrade2ws` calls `on_close(-1, udata)` when the upgrade fails; its
  `websocket_settings_s` documentation says on_close runs when a connection
  "failed to be established". That code is outside this repository, so the
  constant names the assumption.

## Runs

| Run | Kind | What it shows |
|---|---|---|
| `http_gateway` | pass | Over every method, path, token header and configuration, and every result set, exec failure and disconnect of a query, six properties hold. The gate admits exactly the policy (`AdmissionPolicy`). Anonymous readers never mutate (`NoAnonymousMutation`). Every request gets an answer (`EveryRequestAnswered`). The query's chunks are its documents in visit order with the explain block first, and a successful query delivers all of them and the terminator (`ChunkedStreamFaithful`). The client's view of every response implements `ChunkedResponse` (`ResponseRefinesClientView`). |
| `patch_double_response` | violation | A bad PATCH body gives 400 and then 500 (lines 349-369). |
| `id_parse` | violation | Paths with an empty collection (`//1`), an empty id (`/c/`, id 0) or an id beyond `LLONG_MAX` (`/c/9` with `LLongMax = 7`) reach a document handler with an id other than the number sent (lines 554, 565, 572). |
| `lifecycle` | pass | With one closer calling `jbr_shutdown` twice, and in both start modes, six properties hold. The `JBR` is freed at most once (`NoDoubleFree`) and never touched after the free (`NoUseAfterFree`). `jbr_start` returns exactly when the listen outcome is known (`StartSeesListenOutcome`). A non-blocking start and every shutdown call return (`NonBlockingStartReturns`, `ShutdownReturns`, liveness). Every step keeps the `JbrServer` contract (`ImplementsServer`). |
| `concurrent_shutdown` | violation | Two closers: the CAS loser frees the `JBR` while the winner stops the reactor, and both free it (line 974). |
| `blocking_shutdown` | violation | In blocking mode a shutdown from another thread frees the `JBR` while `jbr_start` still uses it (lines 952-957). |
| `ws_parse` | pass | On every frame of up to five words that the protocol grammar reads one way, the parser dispatches exactly the operation, key, collection, id and body the grammar gives, and drops the frames the grammar rejects (`WsAgreesWithGrammar`). |
| `ws_mutation_sent` | violation | `k s c 7x` is dispatched as `set` with id 7: commands are matched by prefix (line 755), and the id is the leading digit run of its word (lines 793-801). |
| `ws_session` | pass | Over every configuration, upgrade request, upgrade outcome and sequence of two frames, every way a connection ends leaves no `JBWCTX` allocated (`WctxReleased`). |
| `ws_anon_upgrade` | violation | With `read_anon`, every anonymous upgrade is rejected with 400 (line 857). |
| `ws_failed_upgrade_free` | violation | A failed `http_upgrade2ws` frees the `JBWCTX` twice: once in facil.io's `on_close` and once at line 874. |
| `init_race` | violation | Two threads call `jbr_init`. The CAS loser returns 0 while the winner has not yet stored the header hashes or registered the error messages (line 996). The model also lets the registration fail, after which every later call returns 0 with nothing registered (line 1003). |

Every property of a passing run has a mutant in `PROJECT.json`. The mutant
replaces a mapped definition with a plausible bug of that code, and TLC then
finds the property violated.

## Bounds

**Query (checked inside `http_gateway`).**
- Three documents of sizes 1 and 2, against a chunk size of 3. Both "buffer
  below the size" and "at or over it" then happen, in either visit order.
- The explain block appears with and without documents.

**HTTP.**
- Ten paths: root, collection, good id, empty id, empty collection, a
  collection that is too long, negative, trailing garbage, over-long, and
  overflowing.
- All six methods, four token-header shapes, and three access
  configurations.

**Lifecycle.**
- One closer with two calls covers a repeated shutdown.
- Two closers are the smallest case of concurrent shutdown.
- One JBR, because `jbr_start` is called once per database.

**Init.** Two callers, the smallest case of a concurrent `jbr_init`, with
the registration allowed to fail.

**WebSocket.**
- The parser is checked over nine words with up to five words per message,
  with or without leading and trailing whitespace. The words are: a key or
  collection (`c`), a command prefix (`s`), the four keywords, and three id
  words (`7`, `77`, `7x`).
- `JBR_MAX_KEY_LEN` and the collection limit are both 1, so `set` as a key
  and as a collection is over-long.
- `JBNUMBUF_SIZE` is 3, so `77` fills the buffer. With `IdBits = 6`, `77`
  overflows and wraps to 13.
- The session model uses three words, three access configurations, six path
  and protocol combinations, four token-header shapes, and two frames per
  session.

## Fairness

`JbrLifecycle` assumes weak fairness for each thread's own steps. The OS
schedules every runnable thread, and a request in progress ends. These are
not fair:
- clients sending requests;
- signals;
- a closer deciding to call `jbr_shutdown`.

`JbrHttp` and `JbrWs` check only safety. `JbrInit` states weak fairness for
each caller, but its only run checks an invariant.

## Not modelled (yet)

- **WebSocket byte-level writes.** The parser writes `data[len] = '\0'` one
  byte past the received message (lines 807, 814, 823), and `add` does not
  terminate its JSON. Words abstract the bytes, so neither is modelled. The
  dispatched operations are empty stubs that only log.
- **Defects the models reach but no run checks.** An explain query with no
  results gets a plain 200 and loses its explain block (line 319). A failed
  listen leaves the `JBR` allocated and the worker unjoined, because
  `jbr_shutdown(pjbr)` sees `*pjbr == 0` (line 947). HEAD prints the
  document, because `req->method == JBR_HEAD` compares a FIOBJ with the enum
  (line 467). `PROJECT.json` lists the first two as hazards.
- **Two gateways in one process.** `fio_stop` and the PRE_START callback
  list belong to facil.io's process-wide reactor (line 968). With two
  databases serving HTTP, one shutdown would stop the other's reactor, and
  `fio_start` would run twice. The lifecycle model has one `JBR`, because
  what facil.io does then is outside this repository.
- **The JSON library test.** The library is not in this repository.
- **Out of scope.** facil.io's internals, the database (its outcomes are
  nondeterministic), and the byte-level JSON printing.

## Status

Every component of `jbr.c` is modelled: every function that changes state
is an action or a definition that an action uses. What is left out is
listed under "Not modelled" with the reason.

Hazards without a property:
- The listen-failure leak (line 947) and the lost explain block of an empty
  result (line 315). Both are defects of the code, so only a violation run
  could state them. Each of the twelve runs shows a different question, and
  no run is merged just to make room for these two.
- The one-byte overrun at line 807. Whether that byte is out of bounds
  depends on facil.io's message buffer.
- The shared reactor (line 968). It needs facil.io's behaviour with two
  `fio_start` calls in one process.

`BufferBounded` was dropped. It restated the size test of
`_jbr_flush_chunk`. A missed clear of the chunk buffer is still caught by
`ChunkedStreamFaithful` and by the refinement.
