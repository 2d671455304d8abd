---------------------------- MODULE MCAuditTrail ----------------------------
(* Two connections with three transactions altogether, and one entity; the   *)
(* deque is trimmed from two bundles to one.                                 *)
EXTENDS AuditTrail

CONSTANT x

MCItems == {x}

\* The first connection adds triples that the trimming takes for metadata, the
\* second one triples that it counts as content; both remove either.
MCDataKinds == <<{"unseen"}, {"data"}>>
=============================================================================
