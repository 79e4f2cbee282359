----------------------------- MODULE WebClient -----------------------------
(***************************************************************************)
(* The client of the web UI: which routes of the API each of its functions *)
(* calls, in order, and the status it takes for success.  Routes have the  *)
(* names of their handlers.  A function that looks an account up stops if  *)
(* that fails.                                                             *)
(***************************************************************************)
EXTENDS Naturals, Sequences

-----------------------------------------------------------------------------
(* The routes *)

RoleRoutes == {"GrantUserIsnAdminRole", "RevokeUserIsnAdminRole",
               "GrantUserSiteAdminRole", "RevokeUserSiteAdminRole"}
StatusRoutes == {"DisableAccount", "EnableAccount"}
SiteAdminRoutes == RoleRoutes \union
  {"TransferIsnOwnership", "GetSignalTypes", "CreateSignalType",
   "RegisterNewSignalTypeSchema", "GetSignalRoutingConfig",
   "UpdateSignalRoutingConfig", "DeleteSignalRoutingConfig"}
AdminRoutes == StatusRoutes \union
  {"GetUsers", "GetServiceAccounts", "GeneratePasswordResetLink"}
AccountRoutes == {"RegisterServiceAccount", "ReissueServiceAccountCredentials"}
\* With the role of an ISN admin, only the owner of the ISN.
OwnerRoutes == {"UpdateIsn", "AddSignalTypeToISN", "UpdateIsnSignalTypeStatus",
                "UpdateIsnAccountPermission"}
IsnRoutes == OwnerRoutes \union {"CreateIsn"}
MemberRoutes == {"SearchPrivateSignals"}
TokenRoutes == {"GetIsns", "UpdatePassword"}
OpenRoutes == {"RegisterUser", "SearchPublicSignals"}
Routes == SiteAdminRoutes \union AdminRoutes \union AccountRoutes
          \union IsnRoutes \union MemberRoutes \union TokenRoutes \union OpenRoutes

\* RequireRole.
AllowedRoles(route) ==
  IF route \in SiteAdminRoutes THEN {"siteadmin"}
  ELSE IF route \in AdminRoutes \union AccountRoutes \union IsnRoutes
  THEN {"siteadmin", "isnadmin"}
  ELSE {"siteadmin", "isnadmin", "member"}

\* Those that only read.
Reads == {"GetUsers", "GetServiceAccounts", "GetSignalTypes", "GetSignalRoutingConfig",
          "GetIsns", "SearchPrivateSignals", "SearchPublicSignals"}

Created == {"RegisterUser", "RegisterServiceAccount", "CreateIsn",
            "CreateSignalType", "RegisterNewSignalTypeSchema"}
NoContent == RoleRoutes \union
  {"UpdatePassword", "UpdateIsn", "AddSignalTypeToISN", "UpdateIsnSignalTypeStatus",
   "UpdateSignalRoutingConfig", "DeleteSignalRoutingConfig"}
StatusOf(route) ==
  IF route \in Created THEN 201 ELSE IF route \in NoContent THEN 204 ELSE 200

-----------------------------------------------------------------------------
(* One call, and the statuses the function goes on with *)

Try(route, ok) == <<[route |-> route, ok |-> ok]>>
Expect(route, status) == Try(route, {status})

(* Users *)
GetUsers == Expect("GetUsers", 200)
RegisterUser == Expect("RegisterUser", 201)
LookupUserByEmail == Expect("GetUsers", 200)
GeneratePasswordResetLink ==
  LookupUserByEmail \o Expect("GeneratePasswordResetLink", 200)
GrantAdminRole200 == LookupUserByEmail \o Expect("GrantUserIsnAdminRole", 200)
GrantAdminRole == LookupUserByEmail \o Expect("GrantUserIsnAdminRole", 204)
RevokeAdminRole == LookupUserByEmail \o Expect("RevokeUserIsnAdminRole", 204)
GrantSiteAdminRole == LookupUserByEmail \o Expect("GrantUserSiteAdminRole", 204)
RevokeSiteAdminRole == LookupUserByEmail \o Expect("RevokeUserSiteAdminRole", 204)
DisableAccount == Expect("DisableAccount", 200)
EnableAccount == Expect("EnableAccount", 200)
UpdatePassword == Expect("UpdatePassword", 204)

(* Service accounts *)
GetServiceAccounts == Expect("GetServiceAccounts", 200)
LookupServiceAccountByClientID == Expect("GetServiceAccounts", 200)
CreateServiceAccount == Expect("RegisterServiceAccount", 201)
ReissueServiceAccountCredentials == Expect("ReissueServiceAccountCredentials", 200)

(* ISNs *)
CreateIsn == Expect("CreateIsn", 201)
GetIsns == Expect("GetIsns", 200)
UpdateIsnStatus == Expect("UpdateIsn", 204)
Lookups == {LookupUserByEmail, LookupServiceAccountByClientID}
UpdateIsnAccounts == {l \o Expect("UpdateIsnAccountPermission", 200) : l \in Lookups}
TransferIsnOwnership == LookupUserByEmail \o Expect("TransferIsnOwnership", 200)

(* Signal types *)
CreateSignalType == Expect("CreateSignalType", 201)
RegisterNewSignalTypeSchema == Expect("RegisterNewSignalTypeSchema", 201)
UpdateIsnSignalTypeStatus == Expect("UpdateIsnSignalTypeStatus", 204)
GetSignalTypes == Expect("GetSignalTypes", 200)
AddSignalTypeToIsn == Expect("AddSignalTypeToISN", 204)

(* Routing: none configured (404) is not an error. *)
GetIsnRouting == Try("GetSignalRoutingConfig", {200, 404})
UpdateSignalRoutingConfig == Expect("UpdateSignalRoutingConfig", 204)
DeleteSignalRoutingConfig == Expect("DeleteSignalRoutingConfig", 204)

(* Signals *)
SearchSignals(visibility) ==
  Expect(IF visibility = "public" THEN "SearchPublicSignals" ELSE "SearchPrivateSignals", 200)
=============================================================================
