------------------------------ MODULE MC_JbrHttp ------------------------------
EXTENDS JbrHttp

\* Frame sizes 1 and 2 against a chunk size of 3: d2 with any other
\* document reaches the threshold and d1 with d3 does not; the explain
\* block and its separator (2 units) with any document reach it.
MCDocSize == [d \in Docs |-> IF d = "d2" THEN 2 ELSE 1]

\* Paths covering every branch of _jbr_fill_ctx: the root, a collection, a
\* document, a trailing slash, an empty collection name, a name over the
\* maximum, a signed id, trailing bytes, an id over the buffer, an id that
\* overflows LLongMax.
MCPaths ==
  { <<"/">>, <<"/", "c">>, <<"/", "c", "/", "1">>, <<"/", "c", "/">>,
    <<"/", "/", "1">>, <<"/", "c", "c", "/", "1">>, <<"/", "c", "/", "-", "1">>,
    <<"/", "c", "/", "1", "c">>, <<"/", "c", "/", "1", "1", "1">>,
    <<"/", "c", "/", "9">> }
====
