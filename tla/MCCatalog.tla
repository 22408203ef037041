----------------------------- MODULE MCCatalog -----------------------------
(* Small instances of Catalog: everything, and one category.               *)
EXTENDS Catalog, TLC

CONSTANTS e1, e2, all, category, s1, s2, v1, v2, v3

Selected == [f \in Filters |-> IF f = all THEN Events ELSE {e1}]
=============================================================================
