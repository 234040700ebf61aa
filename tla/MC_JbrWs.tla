------------------------------- MODULE MC_JbrWs -------------------------------
EXTENDS JbrWs

\* A key and collection that fit, the command set and an id: enough for
\* queries, a dispatched set and dropped frames; the parser itself is
\* checked over a larger vocabulary by MC_JbrWsParse.
MCWords == {<<"c">>, <<"s","e","t">>, <<"7">>}
====
