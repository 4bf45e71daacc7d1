-------------------------- MODULE MCLocalClients --------------------------
(* LocalClients with four connections, two of them from one address.       *)
EXTENDS LocalClients

ThreeAddresses ==
  [c \in {"c1", "c2", "c3", "c4"} |->
     CASE c \in {"c1", "c2"} -> "i1" [] c = "c3" -> "i2" [] c = "c4" -> "i3"]
=============================================================================
