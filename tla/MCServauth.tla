----------------------------- MODULE MCServauth -----------------------------
(* Servauth for TLC: one question of each kind about a host, and one about *)
(* the address that has a name from the start.                             *)
EXTENDS Servauth
KindOfAll == [q \in Question |-> IF q = "f" THEN "forward" ELSE IF q \in {"r","z"} THEN "reverse"
                                 ELSE IF q = "i" THEN "auth" ELSE "proxy"]
AboutAll  == [q \in Question |-> IF q = "z" THEN "any" ELSE "host"]
=============================================================================
