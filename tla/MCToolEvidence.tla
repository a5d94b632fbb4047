--------------------------- MODULE MCToolEvidence ---------------------------
(* ToolEvidence for TLC: a stay without a price, one without coordinates,    *)
(* and two that share a name.                                                *)
EXTENDS ToolEvidence

MCStays == {[id |-> "s1", name |-> "Pera", located |-> TRUE, price |-> NoPrice],
            [id |-> "s2", name |-> "Moda", located |-> TRUE, price |-> 1],
            [id |-> "s3", name |-> "Moda", located |-> FALSE, price |-> 2]}
=============================================================================
