----------------------------- MODULE MCCatalog -----------------------------
(***************************************************************************)
(* Model-checking instance of Catalog: two clients, of one user or of two, *)
(* that may overlap in every way.                                          *)
(***************************************************************************)
EXTENDS Catalog, TLC

Symmetry == Permutations(Users) \cup Permutations(Clients)
=============================================================================
