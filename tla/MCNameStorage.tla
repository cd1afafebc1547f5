--------------------------- MODULE MCNameStorage ----------------------------
EXTENDS NameStorage
CONSTANTS n1, n2, p1
MCBegins == [p \in {p1} |-> {n1}]
MCAlike == [p \in {p1} |-> {n1, n2}]
=============================================================================
