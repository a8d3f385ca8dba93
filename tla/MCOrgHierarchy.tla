--------------------------- MODULE MCOrgHierarchy ---------------------------
(* Small instances of OrgHierarchy for TLC.                                *)
EXTENDS OrgHierarchy, TLC

\* Ids and requests are interchangeable.
Symmetry == Permutations(Orgs) \cup Permutations(Updates)
=============================================================================
