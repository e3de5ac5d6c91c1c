------------------------ MODULE MCTenantProvisioning ------------------------
(* The goroutine, two runs of the tool and two failures. *)
EXTENDS TenantProvisioning

MCTools == {"tool1", "tool2"}
=============================================================================
