------------------------------ MODULE MCMembership ------------------------------
(***************************************************************************)
(* Membership on small instances.                                          *)
(***************************************************************************)
EXTENDS Membership

\* The RPCs of orgmembers.go.
OrgRPCs == {"AddOrganizationMember", "UpdateOrganizationMemberRole",
            "UpdateOrganizationMemberStatus", "RemoveOrganizationMember",
            "RespondToOrganizationInvitation"}
================================================================================
