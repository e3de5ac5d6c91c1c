---------------------------- MODULE MCTenantPool ----------------------------
(* Three goroutines, two tenants, and enough handles for a tenant to be opened again
   after CloseAll. *)
EXTENDS TenantPool

CONSTANTS o1, o2, h1, h2, p1, p2, p3

MCOrgs    == {o1, o2}
MCHandles == {h1, h2}
MCProcs   == {p1, p2, p3}
=============================================================================
