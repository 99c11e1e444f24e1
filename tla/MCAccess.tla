------------------------------ MODULE MCAccess ------------------------------
(***************************************************************************)
(* Sessions.tla, Permissions.tla, LeaderAccess.tla, TenantRow.tla and      *)
(* Leads.tla for TLC.  They share no state, so a behaviour is one of a     *)
(* single part.                                                            *)
(***************************************************************************)
EXTENDS Sessions, Permissions, LeaderAccess, TenantRow, Leads, TLC

VARIABLE part

vars == <<part, sessionVars, permissionsVars, leaderVars, tenantVars, leadVars>>

Catalogue == {<<"visits", "VIEW">>, <<"visits", "EDIT">>}
RoleOf == [m \in Members |-> CHOOSE r \in Roles : TRUE]
SeededRows == [o \in Owners |-> IF o \in Roles THEN Catalogue \X {"allow"}
                                ELSE {<<<<"visits", "EDIT">>, "deny">>}]
OneTenant == {Users}
InSmallLetters == [w \in Written |-> "ana"]
\* the requests of the parts have the same names: one permutation serves them all
Symmetry == Permutations(SessionJobs)

Init ==
    /\ part \in {"sessions", "permissions", "leaders", "tenants", "leads"}
    /\ SessionsInit /\ PermissionsInit /\ LeaderAccessInit /\ TenantRowInit /\ LeadsInit
    /\ part # "permissions" => allowed = [m \in Members |-> NullModules]

Next ==
    /\ UNCHANGED part
    /\ \/ /\ part = "sessions" /\ SessionsNext
          /\ UNCHANGED <<permissionsVars, leaderVars, tenantVars, leadVars>>
       \/ /\ part = "permissions" /\ PermissionsNext
          /\ UNCHANGED <<sessionVars, leaderVars, tenantVars, leadVars>>
       \/ /\ part = "leaders" /\ LeaderAccessNext
          /\ UNCHANGED <<sessionVars, permissionsVars, tenantVars, leadVars>>
       \/ /\ part = "tenants" /\ TenantRowNext
          /\ UNCHANGED <<sessionVars, permissionsVars, leaderVars, leadVars>>
       \/ /\ part = "leads" /\ LeadsNext
          /\ UNCHANGED <<sessionVars, permissionsVars, leaderVars, tenantVars>>

Spec == Init /\ [][Next]_vars

\* The variables of the five parts keep their types, with all of the inductive invariants of
\* the proofs, and toggleModule leaves every core module enabled.
AccessTypeOK ==
    /\ part = "sessions" => SessionsInv
    /\ part = "permissions" => PermissionsInv
    /\ part = "leaders" => LeaderInv
    /\ part = "tenants" => TenantInv
    /\ part = "leads" => LeadsInv

\* A user's row has what the requests asked of it (RowAsAsked), and so have a tenant's, with
\* its images and its users (TenantRowHolds), and a lead's (LeadsAgree).
RowsAreKept ==
    /\ part = "sessions" => RowAsAsked
    /\ part = "tenants" => TenantRowHolds
    /\ part = "leads" => LeadsAgree
=============================================================================
