---------------------------- MODULE MCServerTree ----------------------------
EXTENDS ServerTree
Triangle == {l \in Server \X Server : l[1] # l[2]}
=============================================================================
