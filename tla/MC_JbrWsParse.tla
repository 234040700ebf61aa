---------------------------- MODULE MC_JbrWsParse ----------------------------
EXTENDS JbrWsParse

\* A one-letter key and collection fit and the command words do not; the
\* prefix "s" of set; a valid id, an id that overflows the scaled int64_t,
\* and an id followed by garbage ("c" as an id gives no digits, id 0).
MCWords == {<<"c">>, <<"s">>, <<"s","e","t">>, <<"a","d","d">>,
            <<"d","e","l">>, <<"p","a","t","c","h">>, <<"7">>, <<"7","7">>,
            <<"7","x">>}
====
