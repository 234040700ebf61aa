--------------------------- MODULE MC_JbrLifecycle ---------------------------
EXTENDS JbrLifecycle

CONSTANTS c1, c2

MCClosers == {c1}
MCTwoClosers == {c1, c2}
====
