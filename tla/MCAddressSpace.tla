--------------------------- MODULE MCAddressSpace ---------------------------
(* Instances of AddressSpace for TLC: a folder p under the root, with a     *)
(* cycle p -> q -> p and a node f of another namespace under q.             *)
EXTENDS AddressSpace

CONSTANTS root, p, q, f, x, y

PathsToMake == {<<x>>, <<y, x>>}

GraphNames == [n \in Nodes |-> CASE n = root -> y [] n = p -> y [] n = q -> x
                                 [] n = f -> x [] OTHER -> NoName]
GraphRefs == [n \in Nodes |-> CASE n = root -> {p} [] n = p -> {q}
                                [] n = q -> {f, p} [] OTHER -> {}]
=============================================================================
