------------------------------ MODULE WebPages ------------------------------
(***************************************************************************)
(* The pages and actions of the web UI: who may ask for each, and what its *)
(* handler asks of the API, a set of the sequences of calls it may make.   *)
(* A handler answers with an alert at the first call that fails, and what  *)
(* the form lacks it says before it calls.  The alert stands as well for   *)
(* what a part of a page answers then: an empty 200 of the correlated      *)
(* signals, a bare 500 of the options of a form.                           *)
(***************************************************************************)
EXTENDS Naturals, Sequences

Client == INSTANCE WebClient

\* No call of the API: a form, or what the claims of the user say.
Static == {<<>>}

(* Start *)
LoginPage == Static
RegisterPage == Static
Register == {Client!RegisterUser}
DashboardPage == Static
IsnAdminDashboardPage == Static
AccessDeniedPage == Static

(* Users *)
SettingsPage == Static
UpdatePassword == {Client!UpdatePassword}
GeneratePasswordResetLinkPage == {Client!GetUsers}
GeneratePasswordResetLink == {Client!GeneratePasswordResetLink}
ManageIsnAdminRolesPage == {Client!GetUsers}
ManageAccountStatusPage == {Client!GetUsers \o Client!GetServiceAccounts}
ManageAccountStatus ==
  {l \o change : l \in Client!Lookups,
                 change \in {Client!DisableAccount, Client!EnableAccount}}
MangeSiteAdminRolesPage == {Client!GetUsers}
ManageAdminRoles == {Client!GrantAdminRole, Client!RevokeAdminRole}
ManageSiteAdminRoles == {Client!GrantSiteAdminRole, Client!RevokeSiteAdminRole}

(* Accounts of an ISN *)
ManageIsnAccountsPage == {Client!GetUsers \o Client!GetServiceAccounts}
ManageIsnAccounts == Client!UpdateIsnAccounts
TransferOwnershipPage == {Client!GetUsers}
TransferOwnership == {Client!TransferIsnOwnership}

(* ISNs *)
CreateIsnPage == Static
CreateIsn == {Client!CreateIsn}
ManageIsnStatusPage == Static
ManageIsnStatus == {Client!UpdateIsnStatus}

(* Service accounts *)
CreateServiceAccountsPage == Static
CreateServiceAccount == {Client!CreateServiceAccount}
ReissueServiceAccountCredentialsPage == {Client!GetServiceAccounts}
ReissueServiceAccountCredentials == {Client!ReissueServiceAccountCredentials}

(* Signal types *)
CreateSignalTypePage == Static
CreateSignalType == {Client!CreateSignalType}
RegisterNewSignalTypeSchemaPage == {Client!GetSignalTypes}
RegisterNewSignalTypeSchema == {Client!RegisterNewSignalTypeSchema}
AddSignalTypeToIsnPage == Static
AddSignalTypeToIsn == {Client!AddSignalTypeToIsn}
ManageIsnSignalTypesStatusPage == Static
ManageIsnSignalTypesStatus == {Client!UpdateIsnSignalTypeStatus}
ListSignalTypesPage == {Client!GetSignalTypes}

(* Routing; a configuration that was deleted is rendered again. *)
ManageSignalRoutingPage == {Client!GetSignalTypes}
RenderRoutingForm == Client!GetIsnRouting \o Client!GetIsns \o Client!GetSignalTypes
LoadSignalRoutingForm == Static \union {RenderRoutingForm}
SaveSignalRoutingConfig == {Client!UpdateSignalRoutingConfig}
DeleteSignalRoutingConfig == {Client!DeleteSignalRoutingConfig \o RenderRoutingForm}
AddRoutingRow == {Client!GetIsns}
RemoveRoutingRow == Static

(* Signals *)
SearchSignalsPage == Static
SearchSignals == {Client!SearchSignals(v) : v \in {"public", "private"}}
GetLatestCorrelatedSignals == {Client!SearchSignals("private")}

(* Options of a form: of all signal types, or of those in the claims *)
APISignalTypeSlugs == {Client!GetSignalTypes}
APISignalTypeVersions == Static \union {Client!GetSignalTypes}
TokenSignalTypeSlugs == Static
TokenSignalTypeVersions == Static
ToggleSkipValidation == Static
ToggleSkipReadme == Static

-----------------------------------------------------------------------------
(* The groups of routes, by the middleware of each *)

PublicPages ==
  [HomePage |-> Static, LoginPage |-> LoginPage, RegisterPage |-> RegisterPage,
   Register |-> Register]

OpenPages ==
  [DashboardPage |-> DashboardPage, SettingsPage |-> SettingsPage,
   UpdatePassword |-> UpdatePassword, AccessDeniedPage |-> AccessDeniedPage,
   APISignalTypeSlugs |-> APISignalTypeSlugs,
   APISignalTypeVersions |-> APISignalTypeVersions,
   TokenSignalTypeSlugs |-> TokenSignalTypeSlugs,
   TokenSignalTypeVersions |-> TokenSignalTypeVersions,
   ToggleSkipValidation |-> ToggleSkipValidation, ToggleSkipReadme |-> ToggleSkipReadme]

MemberPages ==
  [SearchSignalsPage |-> SearchSignalsPage, SearchSignals |-> SearchSignals,
   GetLatestCorrelatedSignals |-> GetLatestCorrelatedSignals]

AdminPages ==
  [IsnAdminDashboardPage |-> IsnAdminDashboardPage,
   GeneratePasswordResetLinkPage |-> GeneratePasswordResetLinkPage,
   GeneratePasswordResetLink |-> GeneratePasswordResetLink,
   CreateIsnPage |-> CreateIsnPage, CreateIsn |-> CreateIsn,
   ManageIsnStatusPage |-> ManageIsnStatusPage, ManageIsnStatus |-> ManageIsnStatus,
   CreateServiceAccountsPage |-> CreateServiceAccountsPage,
   CreateServiceAccount |-> CreateServiceAccount,
   ReissueServiceAccountCredentialsPage |-> ReissueServiceAccountCredentialsPage,
   ReissueServiceAccountCredentials |-> ReissueServiceAccountCredentials,
   ManageAccountStatusPage |-> ManageAccountStatusPage,
   ManageAccountStatus |-> ManageAccountStatus]

IsnAdminPages ==
  [ListSignalTypesPage |-> ListSignalTypesPage,
   ManageIsnAccountsPage |-> ManageIsnAccountsPage, ManageIsnAccounts |-> ManageIsnAccounts,
   AddSignalTypeToIsnPage |-> AddSignalTypeToIsnPage,
   AddSignalTypeToIsn |-> AddSignalTypeToIsn,
   ManageIsnSignalTypesStatusPage |-> ManageIsnSignalTypesStatusPage,
   ManageIsnSignalTypesStatus |-> ManageIsnSignalTypesStatus]

SiteAdminPages ==
  [TransferOwnershipPage |-> TransferOwnershipPage, TransferOwnership |-> TransferOwnership,
   ManageIsnAdminRolesPage |-> ManageIsnAdminRolesPage, ManageAdminRoles |-> ManageAdminRoles,
   MangeSiteAdminRolesPage |-> MangeSiteAdminRolesPage,
   ManageSiteAdminRoles |-> ManageSiteAdminRoles,
   CreateSignalTypePage |-> CreateSignalTypePage, CreateSignalType |-> CreateSignalType,
   RegisterNewSignalTypeSchemaPage |-> RegisterNewSignalTypeSchemaPage,
   RegisterNewSignalTypeSchema |-> RegisterNewSignalTypeSchema,
   ManageSignalRoutingPage |-> ManageSignalRoutingPage,
   LoadSignalRoutingForm |-> LoadSignalRoutingForm,
   SaveSignalRoutingConfig |-> SaveSignalRoutingConfig,
   DeleteSignalRoutingConfig |-> DeleteSignalRoutingConfig,
   AddRoutingRow |-> AddRoutingRow, RemoveRoutingRow |-> RemoveRoutingRow]

Pages == DOMAIN PublicPages \union DOMAIN OpenPages \union DOMAIN MemberPages \union DOMAIN AdminPages
         \union DOMAIN IsnAdminPages \union DOMAIN SiteAdminPages

\* The middleware of the group, for a user with these claims: a role, the ISNs
\* it may use and those it may administer.
Admits(page, claims) ==
  \/ page \in DOMAIN PublicPages \union DOMAIN OpenPages
  \/ page \in DOMAIN MemberPages /\ claims.perms # {}
  \/ page \in DOMAIN AdminPages /\ claims.role \in {"isnadmin", "siteadmin"}
  \/ page \in DOMAIN IsnAdminPages /\ claims.administers # {}
  \/ page \in DOMAIN SiteAdminPages /\ claims.role = "siteadmin"

CallsOf(page) ==
  IF page \in DOMAIN PublicPages THEN PublicPages[page]
  ELSE IF page \in DOMAIN OpenPages THEN OpenPages[page]
  ELSE IF page \in DOMAIN MemberPages THEN MemberPages[page]
  ELSE IF page \in DOMAIN AdminPages THEN AdminPages[page]
  ELSE IF page \in DOMAIN IsnAdminPages THEN IsnAdminPages[page]
  ELSE SiteAdminPages[page]

\* The ISNs a form of the page lists: those it may administer, or may use.
AllIsns(page, claims) == claims.perms
IsnOptions(page, claims) ==
  IF page \in DOMAIN MemberPages THEN claims.perms ELSE claims.administers
=============================================================================
