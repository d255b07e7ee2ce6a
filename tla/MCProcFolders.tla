---------------------------- MODULE MCProcFolders ----------------------------
(* Two processes whose starts may fall into the same second.                *)
EXTENDS ProcFolders
TwoNames == [k \in {1, 2} |-> IF k = 1 THEN {"s1", "s2"} ELSE {"s2"}]
OneName == [k \in {1} |-> {"s1"}]
=============================================================================
