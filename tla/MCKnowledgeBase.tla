--------------------------- MODULE MCKnowledgeBase ---------------------------
EXTENDS KnowledgeBase

\* 2 depends on 1, and 3, which has no evidence left, on 2; 3 may come to depend on 1
\* as well, and 4, which depends on nothing so far, on 2
MCEdges == {<<2, 1>>, <<3, 2>>}
MCNewEdges == {<<3, 1>>} \cup (Claims \cap {4}) \X {2}
=============================================================================
