------------------------------ MODULE MC_JbrInit ------------------------------
EXTENDS JbrInit

CONSTANTS t1, t2

\* Two threads opening databases at once.
MCCallers == {t1, t2}
====
