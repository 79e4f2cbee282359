----------------------------- MODULE WebUi_proofs -----------------------------
(***************************************************************************)
(* For any users, ISNs, tabs and requests: the types of WebUi, that the    *)
(* API refuses no change the UI offers but to an owner that lost the ISN,  *)
(* and that the answer of a page is true.                                  *)
(***************************************************************************)
EXTENDS WebUi, SequenceTheorems, TLAPS

-----------------------------------------------------------------------------
(* The calls of the pages *)

\* A call that changes something has one status for success, the one the API gives.
Calls == {c \in [route: Client!Routes, ok: SUBSET Nat] :
            c.route \in Client!Reads \/ c.ok = {Client!StatusOf(c.route)}}
ReadCalls == {c \in Calls : c.route \in Client!Reads}
OpenCalls == {c \in Calls : c.route \in Client!OpenRoutes}
\* A call that reads, or that the API grants to each of these roles.
CallsFor(roles) ==
  {c \in Calls : c.route \in Client!Reads \/ roles \subseteq Client!AllowedRoles(c.route)}

LEMMA ReadCall ==
  ASSUME NEW route \in Client!Reads, NEW ok \in SUBSET Nat
  PROVE  Client!Try(route, ok) \in Seq(ReadCalls)
<1>1. route \in Client!Routes
  BY DEF Client!Reads, Client!Routes, Client!AdminRoutes, Client!SiteAdminRoutes,
         Client!MemberRoutes, Client!TokenRoutes, Client!OpenRoutes
<1>2. PICK c : c = [route |-> route, ok |-> ok]
  OBVIOUS
<1>3. c \in ReadCalls
  BY <1>1, <1>2 DEF ReadCalls, Calls
<1> QED
  BY <1>2, <1>3 DEF Client!Try

LEMMA OpenCall ==
  ASSUME NEW route \in Client!OpenRoutes, NEW status \in Nat, status = Client!StatusOf(route)
  PROVE  Client!Expect(route, status) \in Seq(OpenCalls)
<1>1. route \in Client!Routes
  BY DEF Client!Routes
<1>2. PICK c : c = [route |-> route, ok |-> {status}]
  OBVIOUS
<1>3. c \in OpenCalls
  BY <1>1, <1>2 DEF OpenCalls, Calls
<1> QED
  BY <1>2, <1>3 DEF Client!Expect, Client!Try

LEMMA ChangeCall ==
  ASSUME NEW route \in Client!Routes, NEW status \in Nat, status = Client!StatusOf(route),
         NEW roles, roles \subseteq Client!AllowedRoles(route)
  PROVE  Client!Expect(route, status) \in Seq(CallsFor(roles))
<1>1. PICK c : c = [route |-> route, ok |-> {status}]
  OBVIOUS
<1>2. c \in CallsFor(roles)
  BY <1>1 DEF CallsFor, Calls
<1> QED
  BY <1>1, <1>2 DEF Client!Expect, Client!Try

LEMMA ReadsForAll ==
  ASSUME NEW roles
  PROVE  Seq(ReadCalls) \subseteq Seq(CallsFor(roles))
<1>1. ReadCalls \subseteq CallsFor(roles)
  BY DEF ReadCalls, CallsFor
<1> QED
  BY <1>1

\* Calls one after the other.
LEMMA BothCalls ==
  ASSUME NEW S, NEW s \in Seq(S), NEW t \in Seq(S)
  PROVE  s \o t \in Seq(S)
BY ConcatProperties

-----------------------------------------------------------------------------
(* The functions of the client *)

\* The lists and the lookups.
LEMMA Lists ==
  /\ Client!GetUsers \in Seq(ReadCalls) /\ Client!GetServiceAccounts \in Seq(ReadCalls)
  /\ Client!LookupUserByEmail \in Seq(ReadCalls)
  /\ Client!LookupServiceAccountByClientID \in Seq(ReadCalls)
  /\ Client!GetIsns \in Seq(ReadCalls) /\ Client!GetSignalTypes \in Seq(ReadCalls)
  /\ Client!GetIsnRouting \in Seq(ReadCalls)
  /\ Client!SearchSignals("private") \in Seq(ReadCalls)
  /\ Client!SearchSignals("public") \in Seq(ReadCalls)
<1>1. /\ "GetUsers" \in Client!Reads /\ "GetServiceAccounts" \in Client!Reads
      /\ "GetIsns" \in Client!Reads /\ "GetSignalTypes" \in Client!Reads
      /\ "GetSignalRoutingConfig" \in Client!Reads
      /\ "SearchPrivateSignals" \in Client!Reads /\ "SearchPublicSignals" \in Client!Reads
  BY DEF Client!Reads
<1>2. {200} \in SUBSET Nat /\ {200, 404} \in SUBSET Nat
  OBVIOUS
<1> QED
  BY <1>1, <1>2, ReadCall
     DEF Client!GetUsers, Client!GetServiceAccounts, Client!LookupUserByEmail,
         Client!LookupServiceAccountByClientID, Client!GetIsns, Client!GetSignalTypes,
         Client!GetIsnRouting, Client!SearchSignals, Client!Expect

\* What the roles of the API allow.
LEMMA RolesAllowed ==
  /\ \A r \in Client!SiteAdminRoutes : r \in Client!Routes /\ Client!AllowedRoles(r) = {"siteadmin"}
  /\ \A r \in Client!AdminRoutes \union Client!AccountRoutes \union Client!IsnRoutes :
       r \in Client!Routes /\ {"siteadmin", "isnadmin"} \subseteq Client!AllowedRoles(r)
  /\ "UpdatePassword" \in Client!Routes /\ Roles \subseteq Client!AllowedRoles("UpdatePassword")
<1>1. \A r \in Client!AdminRoutes \union Client!AccountRoutes \union Client!IsnRoutes :
        r \notin Client!SiteAdminRoutes
  BY DEF Client!AdminRoutes, Client!AccountRoutes, Client!IsnRoutes, Client!OwnerRoutes,
         Client!StatusRoutes, Client!SiteAdminRoutes, Client!RoleRoutes
<1>2. "UpdatePassword" \in Client!Routes
      /\ "UpdatePassword" \notin Client!SiteAdminRoutes \union Client!AdminRoutes
           \union Client!AccountRoutes \union Client!IsnRoutes
  BY DEF Client!AdminRoutes, Client!AccountRoutes, Client!IsnRoutes, Client!OwnerRoutes,
         Client!StatusRoutes, Client!SiteAdminRoutes, Client!RoleRoutes, Client!Routes,
         Client!TokenRoutes
<1> QED
  BY <1>1, <1>2 DEF Client!AllowedRoles, Client!Routes, Roles

LEMMA StatusesMatch ==
  /\ \A r \in Client!RoleRoutes : Client!StatusOf(r) = 204
  /\ \A r \in Client!StatusRoutes : Client!StatusOf(r) = 200
  /\ \A r \in {"GeneratePasswordResetLink", "ReissueServiceAccountCredentials",
               "UpdateIsnAccountPermission", "TransferIsnOwnership"} : Client!StatusOf(r) = 200
  /\ \A r \in {"RegisterUser", "RegisterServiceAccount", "CreateIsn", "CreateSignalType",
               "RegisterNewSignalTypeSchema"} : Client!StatusOf(r) = 201
  /\ \A r \in {"UpdatePassword", "UpdateIsn", "AddSignalTypeToISN", "UpdateIsnSignalTypeStatus",
               "UpdateSignalRoutingConfig", "DeleteSignalRoutingConfig"} : Client!StatusOf(r) = 204
BY DEF Client!StatusOf, Client!Created, Client!NoContent, Client!RoleRoutes, Client!StatusRoutes

Site == {"siteadmin"}
Admins == {"siteadmin", "isnadmin"}

\* Those for site admins, for admins, and for all.
LEMMA SiteCalls ==
  /\ Client!GrantAdminRole \in Seq(CallsFor(Site))
  /\ Client!RevokeAdminRole \in Seq(CallsFor(Site))
  /\ Client!GrantSiteAdminRole \in Seq(CallsFor(Site))
  /\ Client!RevokeSiteAdminRole \in Seq(CallsFor(Site))
  /\ Client!TransferIsnOwnership \in Seq(CallsFor(Site))
  /\ Client!CreateSignalType \in Seq(CallsFor(Site))
  /\ Client!RegisterNewSignalTypeSchema \in Seq(CallsFor(Site))
  /\ Client!UpdateSignalRoutingConfig \in Seq(CallsFor(Site))
  /\ Client!DeleteSignalRoutingConfig \in Seq(CallsFor(Site))
<1>1. ASSUME NEW route \in Client!SiteAdminRoutes, NEW status \in Nat,
             status = Client!StatusOf(route)
      PROVE  Client!Expect(route, status) \in Seq(CallsFor(Site))
  BY <1>1, RolesAllowed, ChangeCall DEF Site
<1>2. Client!LookupUserByEmail \in Seq(CallsFor(Site))
  BY Lists, ReadsForAll
<1>3. /\ Client!RoleRoutes \subseteq Client!SiteAdminRoutes
      /\ {"TransferIsnOwnership", "CreateSignalType", "RegisterNewSignalTypeSchema",
          "UpdateSignalRoutingConfig", "DeleteSignalRoutingConfig"}
           \subseteq Client!SiteAdminRoutes
      /\ {"GrantUserIsnAdminRole", "RevokeUserIsnAdminRole", "GrantUserSiteAdminRole",
          "RevokeUserSiteAdminRole"} \subseteq Client!RoleRoutes
  BY DEF Client!SiteAdminRoutes, Client!RoleRoutes
<1>4. /\ Client!Expect("GrantUserIsnAdminRole", 204) \in Seq(CallsFor(Site))
      /\ Client!Expect("RevokeUserIsnAdminRole", 204) \in Seq(CallsFor(Site))
      /\ Client!Expect("GrantUserSiteAdminRole", 204) \in Seq(CallsFor(Site))
      /\ Client!Expect("RevokeUserSiteAdminRole", 204) \in Seq(CallsFor(Site))
      /\ Client!Expect("TransferIsnOwnership", 200) \in Seq(CallsFor(Site))
  BY <1>1, <1>3, StatusesMatch
<1>5. /\ Client!Expect("CreateSignalType", 201) \in Seq(CallsFor(Site))
      /\ Client!Expect("RegisterNewSignalTypeSchema", 201) \in Seq(CallsFor(Site))
      /\ Client!Expect("UpdateSignalRoutingConfig", 204) \in Seq(CallsFor(Site))
      /\ Client!Expect("DeleteSignalRoutingConfig", 204) \in Seq(CallsFor(Site))
  BY <1>1, <1>3, StatusesMatch
<1> QED
  BY <1>2, <1>4, <1>5, BothCalls
     DEF Client!GrantAdminRole, Client!RevokeAdminRole, Client!GrantSiteAdminRole,
         Client!RevokeSiteAdminRole, Client!TransferIsnOwnership, Client!CreateSignalType,
         Client!RegisterNewSignalTypeSchema, Client!UpdateSignalRoutingConfig,
         Client!DeleteSignalRoutingConfig

LEMMA AdminCalls ==
  /\ Client!GeneratePasswordResetLink \in Seq(CallsFor(Admins))
  /\ Client!DisableAccount \in Seq(CallsFor(Admins))
  /\ Client!EnableAccount \in Seq(CallsFor(Admins))
  /\ Client!CreateServiceAccount \in Seq(CallsFor(Admins))
  /\ Client!ReissueServiceAccountCredentials \in Seq(CallsFor(Admins))
  /\ Client!CreateIsn \in Seq(CallsFor(Admins))
  /\ Client!UpdateIsnStatus \in Seq(CallsFor(Admins))
  /\ Client!UpdateIsnSignalTypeStatus \in Seq(CallsFor(Admins))
  /\ Client!AddSignalTypeToIsn \in Seq(CallsFor(Admins))
  /\ Client!Expect("UpdateIsnAccountPermission", 200) \in Seq(CallsFor(Admins))
<1>1. ASSUME NEW route \in Client!AdminRoutes \union Client!AccountRoutes \union Client!IsnRoutes,
             NEW status \in Nat, status = Client!StatusOf(route)
      PROVE  Client!Expect(route, status) \in Seq(CallsFor(Admins))
  BY <1>1, RolesAllowed, ChangeCall DEF Admins
<1>2. Client!LookupUserByEmail \in Seq(CallsFor(Admins))
  BY Lists, ReadsForAll
<1>3. /\ {"DisableAccount", "EnableAccount", "GeneratePasswordResetLink",
          "RegisterServiceAccount", "ReissueServiceAccountCredentials", "CreateIsn",
          "UpdateIsn", "UpdateIsnSignalTypeStatus", "AddSignalTypeToISN",
          "UpdateIsnAccountPermission"}
           \subseteq Client!AdminRoutes \union Client!AccountRoutes \union Client!IsnRoutes
      /\ {"DisableAccount", "EnableAccount"} \subseteq Client!StatusRoutes
  BY DEF Client!AdminRoutes, Client!AccountRoutes, Client!IsnRoutes, Client!StatusRoutes,
         Client!OwnerRoutes
<1>4. /\ Client!Expect("GeneratePasswordResetLink", 200) \in Seq(CallsFor(Admins))
      /\ Client!Expect("DisableAccount", 200) \in Seq(CallsFor(Admins))
      /\ Client!Expect("EnableAccount", 200) \in Seq(CallsFor(Admins))
      /\ Client!Expect("RegisterServiceAccount", 201) \in Seq(CallsFor(Admins))
      /\ Client!Expect("ReissueServiceAccountCredentials", 200) \in Seq(CallsFor(Admins))
  BY <1>1, <1>3, StatusesMatch
<1>5. /\ Client!Expect("CreateIsn", 201) \in Seq(CallsFor(Admins))
      /\ Client!Expect("UpdateIsn", 204) \in Seq(CallsFor(Admins))
      /\ Client!Expect("UpdateIsnSignalTypeStatus", 204) \in Seq(CallsFor(Admins))
      /\ Client!Expect("AddSignalTypeToISN", 204) \in Seq(CallsFor(Admins))
      /\ Client!Expect("UpdateIsnAccountPermission", 200) \in Seq(CallsFor(Admins))
  BY <1>1, <1>3, StatusesMatch
<1> QED
  BY <1>2, <1>4, <1>5, BothCalls
     DEF Client!GeneratePasswordResetLink, Client!DisableAccount, Client!EnableAccount,
         Client!CreateServiceAccount, Client!ReissueServiceAccountCredentials,
         Client!CreateIsn, Client!UpdateIsnStatus, Client!UpdateIsnSignalTypeStatus,
         Client!AddSignalTypeToIsn

LEMMA OtherCalls ==
  /\ Client!UpdatePassword \in Seq(CallsFor(Roles))
  /\ Client!RegisterUser \in Seq(OpenCalls)
<1>1. Client!Expect("UpdatePassword", 204) \in Seq(CallsFor(Roles))
  BY RolesAllowed, StatusesMatch, ChangeCall
<1>2. Client!Expect("RegisterUser", 201) \in Seq(OpenCalls)
  BY StatusesMatch, OpenCall DEF Client!OpenRoutes
<1> QED
  BY <1>1, <1>2 DEF Client!UpdatePassword, Client!RegisterUser

-----------------------------------------------------------------------------
(* The groups of pages: what each calls, its group may *)

LEMMA StaticCalls == ASSUME NEW S PROVE Static \subseteq Seq(S)
BY DEF Static

LEMMA PublicGroup ==
  ASSUME NEW page \in DOMAIN PublicPages
  PROVE  PublicPages[page] \subseteq Seq(OpenCalls)
<1>1. /\ Static \subseteq Seq(OpenCalls) /\ LoginPage \subseteq Seq(OpenCalls)
      /\ RegisterPage \subseteq Seq(OpenCalls) /\ Register \subseteq Seq(OpenCalls)
  BY StaticCalls, OtherCalls DEF LoginPage, RegisterPage, Register
<1> QED
  BY <1>1 DEF PublicPages

LEMMA OpenGroup ==
  ASSUME NEW page \in DOMAIN OpenPages
  PROVE  OpenPages[page] \subseteq Seq(CallsFor(Roles))
<1>1. Static \subseteq Seq(CallsFor(Roles)) /\ {Client!GetSignalTypes} \subseteq Seq(CallsFor(Roles))
      /\ UpdatePassword \subseteq Seq(CallsFor(Roles))
  BY StaticCalls, Lists, ReadsForAll, OtherCalls DEF UpdatePassword
<1> QED
  BY <1>1 DEF OpenPages, DashboardPage, SettingsPage, AccessDeniedPage, APISignalTypeSlugs,
       APISignalTypeVersions, TokenSignalTypeSlugs, TokenSignalTypeVersions,
       ToggleSkipValidation, ToggleSkipReadme

LEMMA MemberGroup ==
  ASSUME NEW page \in DOMAIN MemberPages
  PROVE  MemberPages[page] \subseteq Seq(ReadCalls)
<1>1. Static \subseteq Seq(ReadCalls) /\ SearchSignals \subseteq Seq(ReadCalls)
      /\ {Client!SearchSignals("private")} \subseteq Seq(ReadCalls)
  BY StaticCalls, Lists DEF SearchSignals
<1> QED
  BY <1>1 DEF MemberPages, SearchSignalsPage, GetLatestCorrelatedSignals

LEMMA AdminGroup ==
  ASSUME NEW page \in DOMAIN AdminPages
  PROVE  AdminPages[page] \subseteq Seq(CallsFor(Admins))
<1>a. PICK S : S = Seq(CallsFor(Admins))
  OBVIOUS
<1>1. /\ Client!GetUsers \in S /\ Client!GetServiceAccounts \in S
      /\ Client!LookupUserByEmail \in S /\ Client!LookupServiceAccountByClientID \in S
  BY <1>a, Lists, ReadsForAll
<1>2. /\ Static \subseteq S /\ {Client!GetUsers} \subseteq S /\ {Client!GetServiceAccounts} \subseteq S
      /\ {Client!GetUsers \o Client!GetServiceAccounts} \subseteq S
  BY <1>a, <1>1, StaticCalls, BothCalls
<1>3. ManageAccountStatus \subseteq S
  <2>1. \A l \in Client!Lookups : l \in S
    BY <1>1 DEF Client!Lookups
  <2>2. \A l \in Client!Lookups, change \in {Client!DisableAccount, Client!EnableAccount} :
          l \o change \in S
    BY <1>a, <2>1, AdminCalls, BothCalls
  <2> QED
    <3> SUFFICES ASSUME NEW x \in ManageAccountStatus PROVE x \in S
      OBVIOUS
    <3>1. PICK l \in Client!Lookups, change \in {Client!DisableAccount, Client!EnableAccount} :
            x = l \o change
      BY DEF ManageAccountStatus
    <3> QED
      BY <2>2, <3>1
<1>4. /\ GeneratePasswordResetLink \subseteq S /\ CreateIsn \subseteq S /\ ManageIsnStatus \subseteq S
      /\ CreateServiceAccount \subseteq S /\ ReissueServiceAccountCredentials \subseteq S
  BY <1>a, AdminCalls DEF GeneratePasswordResetLink, CreateIsn, ManageIsnStatus,
                    CreateServiceAccount, ReissueServiceAccountCredentials
<1>5. /\ IsnAdminDashboardPage \subseteq S /\ CreateIsnPage \subseteq S
      /\ ManageIsnStatusPage \subseteq S /\ CreateServiceAccountsPage \subseteq S
  BY <1>2 DEF IsnAdminDashboardPage, CreateIsnPage, ManageIsnStatusPage, CreateServiceAccountsPage
<1>6. /\ GeneratePasswordResetLinkPage \subseteq S /\ ManageAccountStatusPage \subseteq S
      /\ ReissueServiceAccountCredentialsPage \subseteq S
  BY <1>2 DEF GeneratePasswordResetLinkPage, ReissueServiceAccountCredentialsPage,
              ManageAccountStatusPage
<1>7. AdminPages[page] \subseteq S
  BY <1>3, <1>4, <1>5, <1>6 DEF AdminPages
<1> QED
  BY <1>a, <1>7

LEMMA IsnAdminGroup ==
  ASSUME NEW page \in DOMAIN IsnAdminPages
  PROVE  IsnAdminPages[page] \subseteq Seq(CallsFor(Admins))
<1>a. PICK S : S = Seq(CallsFor(Admins))
  OBVIOUS
<1>1. /\ Client!GetUsers \in S /\ Client!GetServiceAccounts \in S /\ Client!GetSignalTypes \in S
      /\ Client!LookupUserByEmail \in S /\ Client!LookupServiceAccountByClientID \in S
  BY <1>a, Lists, ReadsForAll
<1>2. /\ Static \subseteq S /\ {Client!GetSignalTypes} \subseteq S
      /\ {Client!GetUsers \o Client!GetServiceAccounts} \subseteq S
  BY <1>a, <1>1, StaticCalls, BothCalls
<1>3. ManageIsnAccounts \subseteq S
  <2>1. \A l \in Client!Lookups : l \in S
    BY <1>1 DEF Client!Lookups
  <2>2. \A l \in Client!Lookups : l \o Client!Expect("UpdateIsnAccountPermission", 200) \in S
    BY <1>a, <2>1, AdminCalls, BothCalls
  <2> QED
    BY <2>2 DEF ManageIsnAccounts, Client!UpdateIsnAccounts
<1>4. AddSignalTypeToIsn \subseteq S /\ ManageIsnSignalTypesStatus \subseteq S
  BY <1>a, AdminCalls DEF AddSignalTypeToIsn, ManageIsnSignalTypesStatus
<1>5. /\ ListSignalTypesPage \subseteq S /\ ManageIsnAccountsPage \subseteq S
      /\ AddSignalTypeToIsnPage \subseteq S /\ ManageIsnSignalTypesStatusPage \subseteq S
  BY <1>2 DEF ListSignalTypesPage, ManageIsnAccountsPage, AddSignalTypeToIsnPage,
              ManageIsnSignalTypesStatusPage
<1>6. IsnAdminPages[page] \subseteq S
  BY <1>3, <1>4, <1>5 DEF IsnAdminPages
<1> QED
  BY <1>a, <1>6

LEMMA SiteAdminGroup ==
  ASSUME NEW page \in DOMAIN SiteAdminPages
  PROVE  SiteAdminPages[page] \subseteq Seq(CallsFor(Site))
<1> DEFINE S == Seq(CallsFor(Site))
<1>1. /\ Client!GetUsers \in S /\ Client!GetSignalTypes \in S /\ Client!GetIsns \in S
      /\ Client!GetIsnRouting \in S
  BY Lists, ReadsForAll
<1>2. RenderRoutingForm \in S
  BY <1>1, BothCalls DEF RenderRoutingForm
<1>3. /\ Static \subseteq S /\ {Client!GetUsers} \subseteq S /\ {Client!GetSignalTypes} \subseteq S
      /\ {Client!GetIsns} \subseteq S /\ {RenderRoutingForm} \subseteq S
      /\ {Client!DeleteSignalRoutingConfig \o RenderRoutingForm} \subseteq S
  BY <1>1, <1>2, StaticCalls, SiteCalls, BothCalls
<1>4. /\ TransferOwnership \subseteq S /\ ManageAdminRoles \subseteq S
      /\ ManageSiteAdminRoles \subseteq S /\ CreateSignalType \subseteq S
      /\ RegisterNewSignalTypeSchema \subseteq S /\ SaveSignalRoutingConfig \subseteq S
  BY SiteCalls DEF TransferOwnership, ManageAdminRoles, ManageSiteAdminRoles,
       CreateSignalType, RegisterNewSignalTypeSchema, SaveSignalRoutingConfig
<1>5. LoadSignalRoutingForm \subseteq S /\ DeleteSignalRoutingConfig \subseteq S
  BY <1>3 DEF LoadSignalRoutingForm, DeleteSignalRoutingConfig
<1> QED
  BY <1>3, <1>4, <1>5 DEF SiteAdminPages, TransferOwnershipPage, ManageIsnAdminRolesPage,
       MangeSiteAdminRolesPage, CreateSignalTypePage, RegisterNewSignalTypeSchemaPage,
       ManageSignalRoutingPage, AddRoutingRow, RemoveRoutingRow

-----------------------------------------------------------------------------
(* A page that lets the user in makes no call the API forbids *)

\* An ISN is there to administer for admins only.
Genuine(access) == access \in Claims /\ (access.administers # {} => access.role \in Admins)
\* What the API grants to the claims, with the ISN and the user chosen, but to an
\* owner that lost the ISN and of a reset link.
Allowed(access, isn, v) ==
  {c \in Calls : c.route \notin Client!Reads \union Client!OpenRoutes
                 => /\ Genuine(access) /\ access.role \in Client!AllowedRoles(c.route)
                    /\ c.route \in Client!OwnerRoutes => isn \in access.administers
                    /\ c.route \in Client!RoleRoutes => v # access.user
                    /\ c.route \in Changing => v \in Users}

LEMMA PagesInOneGroup ==
  ASSUME NEW page
  PROVE  /\ page \in DOMAIN OpenPages => page \notin DOMAIN MemberPages \union DOMAIN AdminPages
              \union DOMAIN IsnAdminPages \union DOMAIN SiteAdminPages
         /\ page \in DOMAIN MemberPages => page \notin DOMAIN AdminPages
              \union DOMAIN IsnAdminPages \union DOMAIN SiteAdminPages
         /\ page \in DOMAIN AdminPages => page \notin DOMAIN IsnAdminPages \union DOMAIN SiteAdminPages
         /\ page \in DOMAIN IsnAdminPages => page \notin DOMAIN SiteAdminPages
BY DEF OpenPages, MemberPages, AdminPages, IsnAdminPages, SiteAdminPages

LEMMA SeqOfMore ==
  ASSUME NEW S, NEW T, S \subseteq T
  PROVE  Seq(S) \subseteq Seq(T)
OBVIOUS

LEMMA FewerRoles ==
  ASSUME NEW roles, NEW role \in roles
  PROVE  Seq(CallsFor(roles)) \subseteq Seq(CallsFor({role}))
<1>1. CallsFor(roles) \subseteq CallsFor({role})
  BY DEF CallsFor
<1> QED
  BY <1>1, SeqOfMore, Zenon

LEMMA GroupCalls ==
  ASSUME NEW page \in Pages, page \notin DOMAIN PublicPages,
         NEW claims, Genuine(claims), Admits(page, claims), NEW calls \in CallsOf(page)
  PROVE  /\ calls \in Seq(CallsFor({claims.role}))
         /\ page \in DOMAIN MemberPages => calls \in Seq(ReadCalls)
<1>1. CASE page \in DOMAIN OpenPages
  <2>1. calls \in OpenPages[page] /\ page \notin DOMAIN MemberPages
    BY <1>1, PagesInOneGroup DEF CallsOf
  <2>2. claims.role \in Roles
    BY DEF Genuine, Claims
  <2> QED
    BY <1>1, <2>1, <2>2, OpenGroup, FewerRoles
<1>2. CASE page \in DOMAIN MemberPages
  <2>1. calls \in MemberPages[page]
    BY <1>2, PagesInOneGroup DEF CallsOf
  <2>2. calls \in Seq(ReadCalls)
    BY <1>2, <2>1, MemberGroup
  <2> QED
    BY <2>2, ReadsForAll
<1>3. CASE page \in DOMAIN AdminPages
  <2>1. calls \in AdminPages[page] /\ page \notin DOMAIN MemberPages
    BY <1>3, PagesInOneGroup DEF CallsOf
  <2>2. claims.role \in Admins
    BY <1>3, PagesInOneGroup DEF Admits, Admins
  <2> QED
    BY <1>3, <2>1, <2>2, AdminGroup, FewerRoles
<1>4. CASE page \in DOMAIN IsnAdminPages
  <2>1. calls \in IsnAdminPages[page] /\ page \notin DOMAIN MemberPages
    BY <1>4, PagesInOneGroup DEF CallsOf
  <2>2. claims.role \in Admins
    BY <1>4, PagesInOneGroup DEF Admits, Genuine
  <2> QED
    BY <1>4, <2>1, <2>2, IsnAdminGroup, FewerRoles
<1>5. CASE page \in DOMAIN SiteAdminPages
  <2>1. calls \in SiteAdminPages[page] /\ page \notin DOMAIN MemberPages
    BY <1>5, PagesInOneGroup DEF CallsOf
  <2>2. claims.role \in Site
    BY <1>5, PagesInOneGroup DEF Admits, Site
  <2> QED
    BY <1>5, <2>1, <2>2, SiteAdminGroup, FewerRoles
<1> QED
  BY <1>1, <1>2, <1>3, <1>4, <1>5 DEF Pages

LEMMA RoutesApart ==
  /\ Client!OwnerRoutes \intersect (Client!Reads \union Client!OpenRoutes) = {}
  /\ Client!MemberRoutes \subseteq Client!Reads
  /\ Client!MemberRoutes \intersect Client!OpenRoutes = {}
  /\ Client!RoleRoutes \intersect (Client!OwnerRoutes \union {"GeneratePasswordResetLink"}) = {}
  /\ "GeneratePasswordResetLink" \notin Client!OwnerRoutes
  /\ Changing \intersect (Client!Reads \union Client!OpenRoutes) = {}
BY DEF Client!OwnerRoutes, Client!Reads, Client!OpenRoutes, Client!MemberRoutes, Client!RoleRoutes,
       Client!StatusRoutes, Changing

LEMMA PageAllowed ==
  ASSUME NEW page \in Pages, page \notin DOMAIN PublicPages,
         NEW claims, Genuine(claims), Admits(page, claims), NEW calls \in CallsOf(page),
         NEW isn \in Chosen(page, claims, calls), NEW v \in ChosenUser(page, claims, calls)
  PROVE  /\ calls \in Seq(Allowed(claims, isn, v))
         /\ isn \in Isns \union {Null} /\ v \in Users \union {Null}
<1>1. /\ calls \in Seq(CallsFor({claims.role}))
      /\ page \in DOMAIN MemberPages => calls \in Seq(ReadCalls)
  BY GroupCalls
<1>2. isn \in Isns \union {Null} /\ v \in Users \union {Null}
  BY DEF Chosen, IsnOptions, Genuine, Claims, ChosenUser, UserOptions
<1>3. ASSUME NEW k \in 1..Len(calls)
      PROVE  calls[k] \in Allowed(claims, isn, v)
  <2>1. calls[k] \in CallsFor({claims.role})
    BY <1>1, <1>3
  <2>2. ASSUME calls[k].route \in Client!OwnerRoutes
        PROVE  isn \in claims.administers
    <3>1. IsnNeeded(calls)
      BY <1>1, <1>3, <2>2 DEF IsnNeeded
    <3>2. page \notin DOMAIN MemberPages
      <4> SUFFICES ASSUME page \in DOMAIN MemberPages PROVE FALSE
        OBVIOUS
      <4>1. calls[k] \in ReadCalls
        BY <1>1, <1>3
      <4> QED
        BY <2>2, <4>1, RoutesApart DEF ReadCalls
    <3> QED
      BY <3>1, <3>2 DEF Chosen, IsnOptions
  <2>3. ASSUME calls[k].route \in Client!RoleRoutes, calls[k].route \notin Client!Reads
        PROVE  v # claims.user
    <3>1. UserNeeded(calls)
      BY <1>1, <1>3, <2>3 DEF UserNeeded, Changing
    <3>2. page # "GeneratePasswordResetLink"
      <4> SUFFICES ASSUME page = "GeneratePasswordResetLink" PROVE FALSE
        OBVIOUS
      <4>1. calls \in AdminPages[page] /\ page \in DOMAIN AdminPages
        BY PagesInOneGroup DEF CallsOf, AdminPages
      <4>2. calls[k] \in CallsFor(Admins)
        BY <1>3, <4>1, AdminGroup
      <4> QED
        BY <2>3, <4>2, RolesAllowed DEF CallsFor, Admins, Client!SiteAdminRoutes
    <3> QED
      BY <3>1, <3>2 DEF ChosenUser, UserOptions
  <2>4. ASSUME calls[k].route \in Changing
        PROVE  v \in Users
    <3>1. UserNeeded(calls)
      BY <1>1, <1>3, <2>4 DEF UserNeeded
    <3> QED
      BY <3>1 DEF ChosenUser, UserOptions
  <2> QED
    BY <2>1, <2>2, <2>3, <2>4 DEF Allowed, CallsFor
<1>4. calls \in Seq(Allowed(claims, isn, v))
  BY <1>1, <1>3, SeqDef, LenProperties
<1> QED
  BY <1>2, <1>4

LEMMA PublicAllowed ==
  ASSUME NEW page \in DOMAIN PublicPages, NEW claims, NEW calls \in CallsOf(page),
         NEW isn \in Chosen(page, claims, calls), NEW v \in ChosenUser(page, claims, calls)
  PROVE  calls \in Seq(Allowed(claims, isn, v)) /\ isn = Null /\ v = Null
<1>1. calls \in Seq(OpenCalls)
  BY PublicGroup DEF CallsOf
<1>2. OpenCalls \subseteq Allowed(claims, isn, v)
  BY DEF OpenCalls, Allowed
<1>3. ~IsnNeeded(calls) /\ ~UserNeeded(calls)
  <2> SUFFICES ASSUME NEW k \in DOMAIN calls,
                      calls[k].route \in Client!OwnerRoutes \union Client!MemberRoutes
                        \union Changing \union {"GeneratePasswordResetLink"}
               PROVE  FALSE
    BY DEF IsnNeeded, UserNeeded
  <2>1. calls[k] \in OpenCalls
    BY <1>1
  <2> QED
    BY <2>1, RoutesApart DEF OpenCalls, Changing, Client!StatusRoutes, Client!RoleRoutes,
       Client!OpenRoutes
<1> QED
  BY <1>1, <1>2, <1>3 DEF Chosen, ChosenUser

-----------------------------------------------------------------------------
(* The invariant *)

CookieAccess == cookies.access = Null \/ Genuine(cookies.access)

\* A request has what its next step needs: tokens that are genuine, somebody to
\* issue them to, and calls that are allowed.
Ready(q) ==
  /\ q.access = Null \/ Genuine(q.access)
  /\ q.at = "session" => q.user \in Users /\ (q.kind # "login" => q.refresh \in RefreshTokens)
  /\ q.at \in {"mint", "rotate"} => q.user \in Users
  /\ q.at = "rotate" => Genuine(q.access)
  /\ q.at = "gate" => q.kind = "public" \/ Genuine(q.access)
  /\ q.at = "call" => q.calls # <<>> /\ q.calls \in Seq(Allowed(q.access, q.isn, q.user))
\* No change was gone past, and one was made unknown only if its answer was lost
\* or the API failed at it.
Honest(q) ==
  /\ "skipped" \notin q.off
  /\ "unknown" \in q.off => q.at = "reply" /\ q.status \in {0, 500}
Fit(q) == q \in Request /\ Ready(q) /\ Honest(q)

TablesOK ==
  /\ account \in [Users -> [active: BOOLEAN, role: Roles]]
  /\ owner \in [Isns -> Users]
  /\ pagesOf \in Tabs /\ changes \in 0..MaxChanges
BrowserOK ==
  /\ cookies \in [access: Claims \union {Null}, refresh: RefreshTokens \union {Null}]
  /\ CookieAccess /\ lost \in 0..MaxLost
RequestsOK ==
  /\ DOMAIN request = Requests /\ request = [r \in Requests |-> request[r]]
  /\ \A r \in Requests : request[r] # Null => Fit(request[r])
IInv == TablesOK /\ BrowserOK /\ RequestsOK

Statuses == {0, 200, 201, 204, 400, 401, 403, 404, 500}
Answers == {Null, "page", "alert", "login", "denied"}
AnyCalls == Seq([route: Client!Routes, ok: SUBSET Nat])
Offs == SUBSET {"skipped", "unknown"}

LEMMA RequestIs ==
  Request = [kind: Kinds, at: Steps, access: Claims \union {Null}, expired: BOOLEAN,
             refresh: RefreshTokens \union {Null}, new: BOOLEAN, user: Users \union {Null},
             isn: Isns \union {Null}, calls: AnyCalls, off: Offs, status: Statuses,
             answer: Answers]
BY Zenon DEF Request, Statuses, Answers, AnyCalls, Offs

LEMMA NewIsFit ==
  ASSUME NEW kind \in Kinds, NEW at \in Steps, NEW access \in Claims \union {Null},
         NEW refresh \in RefreshTokens \union {Null},
         NEW q, q = NewRequest(kind, at, access, refresh)
  PROVE  /\ q \in Request /\ Honest(q) /\ q.kind = kind /\ q.at = at
         /\ q.access = access /\ q.refresh = refresh
<1>1. PICK b \in BOOLEAN : b = FALSE
  BY Zenon
<1>2. PICK none : none = {}
  OBVIOUS
<1>3. PICK calls \in AnyCalls : calls = <<>>
  BY StaticCalls DEF AnyCalls, Static
<1>4. PICK x : x = [kind |-> kind, at |-> at, access |-> access, expired |-> b,
                    refresh |-> refresh, new |-> b, user |-> Null, isn |-> Null,
                    calls |-> calls, off |-> none, status |-> 200, answer |-> Null]
  OBVIOUS
<1>5. x = NewRequest(kind, at, access, refresh)
  BY <1>1, <1>2, <1>3, <1>4, Zenon DEF NewRequest
<1>6. /\ x \in Request /\ Honest(x) /\ x.kind = kind /\ x.at = at
      /\ x.access = access /\ x.refresh = refresh
  <2>1. none \in Offs /\ 200 \in Statuses /\ Null \in Answers
    BY <1>2 DEF Offs, Statuses, Answers
  <2> QED
    BY <1>2, <1>4, <2>1, RequestIs DEF Honest
<1> QED
  BY <1>5, <1>6, Zenon

\* The answer of a request there is.
LEMMA AnswerIsFit ==
  ASSUME NEW q \in Request, q.access = Null \/ Genuine(q.access), Honest(q),
         NEW a \in {Null, "page", "alert", "login", "denied"}
  PROVE  Fit(Answered(q, a))
<1>1. CASE q.new
  <2>1. PICK x : x = [q EXCEPT !.at = "reply", !.answer = a]
    OBVIOUS
  <2>2. /\ x \in Request /\ x.access = q.access /\ x.at = "reply" /\ x.off = q.off
        /\ x.status = q.status
    <3>1. "reply" \in Steps /\ a \in Answers
      BY DEF Steps, Answers
    <3> QED
      BY <2>1, <3>1, RequestIs
  <2>3. Answered(q, a) = x
    BY <1>1, <2>1 DEF Answered
  <2> QED
    BY <2>2, <2>3 DEF Fit, Ready, Honest
<1>2. CASE ~q.new
  <2>1. PICK n : n = NewRequest(q.kind, "reply", Null, Null)
    OBVIOUS
  <2>2. q.kind \in Kinds /\ "reply" \in Steps /\ a \in Answers
    BY RequestIs DEF Steps, Answers
  <2>3. n \in Request /\ Honest(n) /\ n.at = "reply" /\ n.access = Null
    <3>1. PICK none : none = Null
      OBVIOUS
    <3>2. none \in Claims \union {Null} /\ none \in RefreshTokens \union {Null}
      BY <3>1
    <3>3. PICK kind \in Kinds, at \in Steps : kind = q.kind /\ at = "reply"
      BY <2>2
    <3>4. n = NewRequest(kind, at, none, none)
      BY <2>1, <3>1, <3>3
    <3> QED
      BY <3>1, <3>2, <3>3, <3>4, NewIsFit
  <2>4. PICK x : x = [n EXCEPT !.answer = a]
    OBVIOUS
  <2>5. x \in Request /\ x.access = Null /\ x.at = "reply" /\ x.off = n.off /\ x.status = n.status
    BY <2>2, <2>3, <2>4, RequestIs
  <2>6. Answered(q, a) = x
    BY <1>2, <2>1, <2>4 DEF Answered
  <2> QED
    BY <2>3, <2>5, <2>6 DEF Fit, Ready, Honest
<1> QED
  BY <1>1, <1>2

\* One request changes.
LEMMA SetStep ==
  ASSUME RequestsOK, NEW r \in Requests, NEW q, q = Null \/ Fit(q), Set(r, q)
  PROVE  RequestsOK'
<1>1. request' = [request EXCEPT ![r] = q] /\ DOMAIN request = Requests
      /\ \A s \in Requests : request[s] # Null => Fit(request[s])
  BY DEF Set, RequestsOK
<1>2. /\ DOMAIN request' = Requests /\ request' = [s \in Requests |-> request'[s]]
      /\ \A s \in Requests : request'[s] = IF s = r THEN q ELSE request[s]
  BY <1>1
<1>3. ASSUME NEW s \in Requests, request'[s] # Null
      PROVE  Fit(request[s])'
  <2>1. Fit(request'[s])
    BY <1>1, <1>2, <1>3
  <2> QED
    BY <2>1 DEF Fit, Ready, Honest, Genuine, Allowed
<1> QED
  BY <1>2, <1>3 DEF RequestsOK

LEMMA EndedIsToken ==
  ASSUME NEW u, NEW t \in RefreshTokens
  PROVE  EndedToken(u, t) \in RefreshTokens
<1>1. PICK b \in BOOLEAN : b = FALSE
  BY Zenon
<1>2. [t EXCEPT !.live = b] \in RefreshTokens
  BY DEF RefreshTokens
<1>3. EndedToken(u, t) = t \/ EndedToken(u, t) = [t EXCEPT !.live = b]
  BY <1>1, Zenon DEF EndedToken
<1> QED
  BY <1>2, <1>3, Zenon

LEMMA EndedOrNone ==
  ASSUME NEW u, NEW t \in RefreshTokens \union {Null}
  PROVE  EndedToken(u, t) \in RefreshTokens \union {Null}
<1>1. CASE t \in RefreshTokens
  BY <1>1, EndedIsToken
<1>2. CASE t = Null
  BY <1>2 DEF EndedToken
<1> QED
  BY <1>1, <1>2

LEMMA EndedIsFit ==
  ASSUME NEW u, NEW q, q # Null, Fit(q)
  PROVE  Fit(EndedIn(q, u))
<1>1. PICK t : t = EndedToken(u, q.refresh)
  OBVIOUS
<1>2. PICK x : x = [q EXCEPT !.refresh = t]
  OBVIOUS
<1>3. q \in Request /\ q.refresh \in RefreshTokens \union {Null}
  BY RequestIs DEF Fit
<1>4. /\ t \in RefreshTokens \union {Null}
      /\ q.refresh \in RefreshTokens => t \in RefreshTokens
  BY <1>1, <1>3, EndedOrNone, EndedIsToken
<1>5. /\ x \in Request /\ x.access = q.access /\ x.at = q.at /\ x.kind = q.kind
      /\ x.user = q.user /\ x.calls = q.calls /\ x.isn = q.isn /\ x.off = q.off
      /\ x.status = q.status /\ x.refresh = t
  BY <1>2, <1>3, <1>4, RequestIs
<1>6. EndedIn(q, u) = x
  BY <1>1, <1>2 DEF EndedIn
<1> QED
  BY <1>4, <1>5, <1>6 DEF Fit, Ready, Honest

LEMMA EndThenStep ==
  ASSUME RequestsOK, BrowserOK, NEW u, NEW r \in Requests, NEW q, Fit(q), EndThen(u, r, q)
  PROVE  /\ RequestsOK'
         /\ cookies' \in [access: Claims \union {Null}, refresh: RefreshTokens \union {Null}]
         /\ CookieAccess'
<1>1. PICK t : t = EndedToken(u, cookies.refresh)
  OBVIOUS
<1>2. cookies' = [cookies EXCEPT !.refresh = t]
  BY <1>1 DEF EndThen
<1>3. t \in RefreshTokens \union {Null}
  BY <1>1, EndedOrNone DEF BrowserOK
<1>4. /\ cookies' \in [access: Claims \union {Null}, refresh: RefreshTokens \union {Null}]
      /\ cookies'.access = cookies.access
  BY <1>2, <1>3 DEF BrowserOK
<1>5. CookieAccess'
  BY <1>4 DEF BrowserOK, CookieAccess, Genuine
<1>6. /\ DOMAIN request' = Requests /\ request' = [s \in Requests |-> request'[s]]
      /\ \A s \in Requests : request'[s] = IF s = r THEN q ELSE EndedIn(request[s], u)
  BY DEF EndThen
<1>7. ASSUME NEW s \in Requests, request'[s] # Null
      PROVE  Fit(request[s])'
  <2>1. Fit(request'[s])
    <3>1. CASE s = r
      BY <1>6, <3>1
    <3>2. CASE s # r
      <4>1. request'[s] = EndedIn(request[s], u) /\ request[s] # Null
        BY <1>6, <1>7, <3>2 DEF EndedIn
      <4>2. Fit(request[s])
        BY <4>1 DEF RequestsOK
      <4> QED
        BY <4>1, <4>2, EndedIsFit
    <3> QED
      BY <3>1, <3>2
  <2> QED
    BY <2>1 DEF Fit, Ready, Honest, Genuine, Allowed
<1> QED
  BY <1>4, <1>5, <1>6, <1>7 DEF RequestsOK

-----------------------------------------------------------------------------
(* The steps of the browser *)

LEMMA RequestFacts ==
  ASSUME IInv, NEW r \in Requests, request[r] # Null
  PROVE  Fit(request[r]) /\ request[r] \in Request
BY DEF IInv, RequestsOK, Fit

LEMMA Still ==
  /\ IInv /\ UNCHANGED database => TablesOK'
  /\ IInv /\ UNCHANGED cookies /\ lost' \in 0..MaxLost => BrowserOK'
BY DEF IInv, TablesOK, BrowserOK, database, CookieAccess, Genuine

LEMMA SendPreserves ==
  ASSUME IInv, NEW r \in Requests, Send(r)
  PROVE  IInv'
<1>1. TablesOK' /\ BrowserOK'
  <2>1. UNCHANGED database /\ UNCHANGED cookies /\ lost' = lost
    BY DEF Send
  <2> QED
    BY <2>1, Still DEF IInv, BrowserOK
<1>2. PICK none : none = Null
  OBVIOUS
<1>3. /\ none \in Claims \union {Null} /\ none \in RefreshTokens \union {Null}
      /\ cookies.access \in Claims \union {Null} /\ cookies.refresh \in RefreshTokens \union {Null}
      /\ CookieAccess
  BY <1>2 DEF IInv, BrowserOK
<1>4. {"page", "public", "login", "logout"} \subseteq Kinds
      /\ {"auth", "gate", "session", "revoke"} \subseteq Steps
  BY DEF Kinds, Steps
<1>5. CASE Set(r, NewRequest("page", "auth", cookies.access, cookies.refresh))
  <2>1. PICK q : q = NewRequest("page", "auth", cookies.access, cookies.refresh)
    OBVIOUS
  <2>2. /\ q \in Request /\ Honest(q) /\ q.at = "auth" /\ q.access = cookies.access
    BY <1>3, <1>4, <2>1, NewIsFit
  <2>3. Fit(q)
    BY <1>3, <2>2 DEF Fit, Ready, CookieAccess
  <2> QED
    BY <1>1, <1>5, <2>1, <2>3, SetStep DEF IInv
<1>6. CASE Set(r, NewRequest("public", "gate", Null, Null))
  <2>1. PICK q : q = NewRequest("public", "gate", none, none)
    OBVIOUS
  <2>2. /\ q \in Request /\ Honest(q) /\ q.at = "gate" /\ q.access = none /\ q.kind = "public"
    <3>1. PICK kind \in Kinds, at \in Steps : kind = "public" /\ at = "gate"
      BY <1>4
    <3>2. q = NewRequest(kind, at, none, none)
      BY <2>1, <3>1
    <3>3. q \in Request /\ Honest(q) /\ q.at = at /\ q.access = none /\ q.kind = kind
      BY <1>3, <3>2, NewIsFit
    <3> QED
      BY <3>1, <3>3
  <2>3. Fit(q)
    BY <1>2, <2>2 DEF Fit, Ready
  <2> QED
    BY <1>1, <1>2, <1>6, <2>1, <2>3, SetStep DEF IInv
<1>7. CASE \E u \in Users :
             Set(r, [NewRequest("login", "session", Null, Null) EXCEPT !.user = u])
  <2>1. PICK u \in Users : Set(r, [NewRequest("login", "session", Null, Null) EXCEPT !.user = u])
    BY <1>7
  <2>2. PICK n : n = NewRequest("login", "session", none, none)
    OBVIOUS
  <2>3. /\ n \in Request /\ Honest(n) /\ n.at = "session" /\ n.access = none /\ n.kind = "login"
    BY <1>3, <1>4, <2>2, NewIsFit
  <2>4. PICK q : q = [n EXCEPT !.user = u]
    OBVIOUS
  <2>5. /\ q \in Request /\ q.at = "session" /\ q.access = none /\ q.kind = "login"
        /\ q.user = u /\ q.off = n.off /\ q.status = n.status
    BY <2>3, <2>4, RequestIs
  <2>6. Fit(q)
    BY <1>2, <2>3, <2>5 DEF Fit, Ready, Honest
  <2> QED
    BY <1>1, <1>2, <2>1, <2>2, <2>4, <2>6, SetStep DEF IInv
<1>8. CASE Set(r, NewRequest("logout", "revoke", Null, cookies.refresh))
  <2>1. PICK q : q = NewRequest("logout", "revoke", none, cookies.refresh)
    OBVIOUS
  <2>2. /\ q \in Request /\ Honest(q) /\ q.at = "revoke" /\ q.access = none
    BY <1>3, <1>4, <2>1, NewIsFit
  <2>3. Fit(q)
    BY <1>2, <2>2 DEF Fit, Ready
  <2> QED
    BY <1>1, <1>2, <1>8, <2>1, <2>3, SetStep DEF IInv
<1> QED
  BY <1>5, <1>6, <1>7, <1>8 DEF Send

LEMMA ReceivePreserves ==
  ASSUME IInv, NEW r \in Requests, Receive(r)
  PROVE  IInv'
<1>1. At(r, "reply") /\ Set(r, Null) /\ UNCHANGED <<database, lost>>
  BY DEF Receive
<1>2. TablesOK' /\ lost' = lost
  BY <1>1, Still
<1>3. RequestsOK'
  BY <1>1, SetStep DEF IInv
<1>4. Fit(request[r])
  BY <1>1, RequestFacts DEF At
<1>5. /\ request[r].access \in Claims \union {Null}
      /\ request[r].refresh \in RefreshTokens \union {Null}
      /\ request[r].access = Null \/ Genuine(request[r].access)
  BY <1>4, RequestIs DEF Fit, Ready
<1>6. PICK x : x = cookies'
  OBVIOUS
<1>7. /\ x \in [access: Claims \union {Null}, refresh: RefreshTokens \union {Null}]
      /\ x.access = Null \/ Genuine(x.access)
  <2>1. \/ cookies' = [access |-> Null, refresh |-> Null]
        \/ cookies' = [access |-> Null, refresh |-> request[r].refresh]
        \/ cookies' = [access |-> request[r].access, refresh |-> request[r].refresh]
        \/ cookies' = cookies
    BY DEF Receive, SetAuthCookies, ClearAuthCookies, NoCookies
  <2> QED
    BY <1>5, <1>6, <2>1 DEF IInv, BrowserOK, CookieAccess
<1>8. BrowserOK'
  <2>1. CookieAccess'
    BY <1>6, <1>7 DEF CookieAccess, Genuine
  <2> QED
    BY <1>2, <1>6, <1>7, <2>1 DEF IInv, BrowserOK
<1> QED
  BY <1>2, <1>3, <1>8 DEF IInv

LEMMA AbandonPreserves ==
  ASSUME IInv, NEW r \in Requests, Abandon(r)
  PROVE  IInv'
<1>1. /\ lost < MaxLost /\ lost' = lost + 1 /\ Set(r, Null)
      /\ UNCHANGED database /\ UNCHANGED cookies
  BY DEF Abandon
<1>2. lost' \in 0..MaxLost
  BY <1>1, BoundAssumption DEF IInv, BrowserOK
<1> QED
  BY <1>1, <1>2, Still, SetStep DEF IInv

LEMMA RequestsStay ==
  ASSUME IInv, UNCHANGED request
  PROVE  RequestsOK'
<1>1. ASSUME NEW s \in Requests, request'[s] # Null
      PROVE  Fit(request[s])'
  <2>1. Fit(request'[s])
    BY <1>1 DEF IInv, RequestsOK
  <2> QED
    BY <2>1 DEF Fit, Ready, Honest, Genuine, Allowed
<1> QED
  BY <1>1 DEF IInv, RequestsOK

LEMMA ExpireCookiePreserves ==
  ASSUME IInv, ExpireCookie
  PROVE  IInv'
<1>1. /\ cookies' = [cookies EXCEPT !.access = Null]
      /\ UNCHANGED database /\ UNCHANGED request /\ lost' = lost
  BY DEF ExpireCookie
<1>2. /\ cookies' \in [access: Claims \union {Null}, refresh: RefreshTokens \union {Null}]
      /\ cookies'.access = Null
  BY <1>1 DEF IInv, BrowserOK
<1>3. BrowserOK'
  BY <1>1, <1>2 DEF IInv, BrowserOK, CookieAccess
<1> QED
  BY <1>1, <1>3, Still, RequestsStay DEF IInv

LEMMA ExpireTokenPreserves ==
  ASSUME IInv, NEW r \in Requests, ExpireToken(r)
  PROVE  IInv'
<1>1. /\ request[r] # Null /\ Set(r, [request[r] EXCEPT !.expired = TRUE])
      /\ UNCHANGED database /\ UNCHANGED cookies /\ lost' = lost
  BY DEF ExpireToken
<1>2. PICK b \in BOOLEAN : b = TRUE
  BY Zenon
<1>3. PICK q : q = [request[r] EXCEPT !.expired = b]
  OBVIOUS
<1>4. Fit(request[r]) /\ request[r] \in Request
  BY <1>1, RequestFacts
<1>5. PICK p : p = request[r]
  OBVIOUS
<1>6. /\ q \in Request /\ q.access = p.access /\ q.at = p.at /\ q.kind = p.kind
      /\ q.user = p.user /\ q.calls = p.calls /\ q.isn = p.isn /\ q.off = p.off
      /\ q.status = p.status /\ q.refresh = p.refresh
  BY <1>3, <1>4, <1>5, RequestIs
<1>7. Fit(q)
  BY <1>4, <1>5, <1>6 DEF Fit, Ready, Honest
<1>8. Set(r, q)
  BY <1>1, <1>2, <1>3, Zenon
<1>9. lost' \in 0..MaxLost
  BY <1>1 DEF IInv, BrowserOK
<1> QED
  BY <1>1, <1>7, <1>8, <1>9, Still, SetStep DEF IInv

-----------------------------------------------------------------------------
(* Authentication *)

\* Steps that change the request alone.
LEMMA AloneStep ==
  ASSUME IInv, NEW r \in Requests, NEW q, q = Null \/ Fit(q), Set(r, q),
         UNCHANGED <<database, cookies, lost>>
  PROVE  IInv'
<1>1. UNCHANGED database /\ UNCHANGED cookies /\ lost' = lost
  OBVIOUS
<1>2. lost' \in 0..MaxLost
  BY <1>1 DEF IInv, BrowserOK
<1> QED
  BY <1>1, <1>2, Still, SetStep DEF IInv

\* An answer to request r.
LEMMA AnswerOf ==
  ASSUME IInv, NEW r \in Requests, request[r] # Null,
         NEW a \in {Null, "page", "alert", "login", "denied"}
  PROVE  Fit(Answered(request[r], a))
<1>1. Fit(request[r])
  BY RequestFacts
<1> QED
  BY <1>1, AnswerIsFit DEF Fit, Ready

LEMMA AnswerPreserves ==
  ASSUME IInv, NEW r \in Requests, request[r] # Null,
         NEW a \in {Null, "page", "alert", "login", "denied"},
         Answer(r, a), UNCHANGED <<database, cookies, lost>>
  PROVE  IInv'
<1>1. PICK q : q = Answered(request[r], a)
  OBVIOUS
<1>2. Fit(q)
  BY <1>1, AnswerOf
<1>3. Set(r, q)
  BY <1>1 DEF Answer
<1> QED
  BY <1>2, <1>3, AloneStep

LEMMA RequireAuthPreserves ==
  ASSUME IInv, NEW r \in Requests, RequireAuth(r)
  PROVE  IInv'
<1>1. PICK p : p = request[r]
  OBVIOUS
<1>2. /\ p # Null /\ UNCHANGED <<database, cookies, lost>>
      /\ Fit(p) /\ p \in Request
  BY <1>1, RequestFacts DEF RequireAuth, At
<1>3. CASE /\ p.access # Null
           /\ Set(r, [p EXCEPT !.at = "gate", !.refresh = Null])
  <2>1. PICK q : q = [p EXCEPT !.at = "gate", !.refresh = Null]
    OBVIOUS
  <2>2. "gate" \in Steps
    BY DEF Steps
  <2>3. /\ q \in Request /\ q.access = p.access /\ q.at = "gate" /\ q.off = p.off
        /\ q.status = p.status
    BY <1>2, <2>1, <2>2, RequestIs
  <2>4. p.at # "reply"
    BY <1>1 DEF RequireAuth, At
  <2>5. Fit(q)
    BY <1>2, <1>3, <2>3, <2>4 DEF Fit, Ready, Honest
  <2> QED
    BY <1>2, <1>3, <2>1, <2>5, AloneStep
<1>4. CASE Answer(r, "login")
  BY <1>1, <1>2, <1>4, AnswerPreserves
<1>5. CASE /\ p.refresh # Null
           /\ Set(r, [NewRequest("page", "session", Null, p.refresh)
                        EXCEPT !.user = p.refresh.user])
  <2>1. PICK none : none = Null
    OBVIOUS
  <2>2. PICK t \in RefreshTokens : t = p.refresh
    BY <1>2, <1>5, RequestIs
  <2>3. PICK u \in Users : u = t.user
    BY DEF RefreshTokens
  <2>4. PICK kind \in Kinds, at \in Steps : kind = "page" /\ at = "session"
    BY DEF Kinds, Steps
  <2>5. PICK n : n = NewRequest(kind, at, none, t)
    OBVIOUS
  <2>6. none \in Claims \union {Null} /\ t \in RefreshTokens \union {Null}
    BY <2>1
  <2>7. /\ n \in Request /\ Honest(n) /\ n.at = at /\ n.access = none /\ n.kind = kind
        /\ n.refresh = t
    BY <2>5, <2>6, NewIsFit
  <2>8. PICK q : q = [n EXCEPT !.user = u]
    OBVIOUS
  <2>9. /\ q \in Request /\ q.at = at /\ q.access = none /\ q.kind = kind /\ q.user = u
        /\ q.refresh = t /\ q.off = n.off /\ q.status = n.status
    BY <2>7, <2>8, RequestIs
  <2>10. Fit(q)
    BY <2>1, <2>4, <2>7, <2>9 DEF Fit, Ready, Honest
  <2>11. Set(r, q)
    BY <1>5, <2>1, <2>2, <2>3, <2>4, <2>5, <2>8
  <2> QED
    BY <1>2, <2>10, <2>11, AloneStep
<1> QED
  BY <1>1, <1>3, <1>4, <1>5 DEF RequireAuth, CheckAccessTokenStatus

LEMMA FailedPreserves ==
  ASSUME IInv, NEW r \in Requests, request[r] # Null, Failed(r),
         UNCHANGED <<database, cookies, lost>>
  PROVE  IInv'
<1>1. PICK a \in {Null, "page", "alert", "login", "denied"} : Answer(r, a)
  BY DEF Failed
<1> QED
  BY <1>1, AnswerPreserves

LEMMA CheckSessionPreserves ==
  ASSUME IInv, NEW r \in Requests, CheckSession(r)
  PROVE  IInv'
<1>1. PICK p : p = request[r]
  OBVIOUS
<1>2. /\ p # Null /\ p.at = "session" /\ UNCHANGED <<database, cookies, lost>>
      /\ Fit(p) /\ p \in Request
  BY <1>1, RequestFacts DEF CheckSession, At
<1>3. CASE Set(r, [p EXCEPT !.at = "mint", !.refresh = Null])
  <2>1. PICK q : q = [p EXCEPT !.at = "mint", !.refresh = Null]
    OBVIOUS
  <2>2. "mint" \in Steps
    BY DEF Steps
  <2>3. /\ q \in Request /\ q.access = p.access /\ q.at = "mint" /\ q.off = p.off
        /\ q.status = p.status /\ q.user = p.user
    BY <1>2, <2>1, <2>2, RequestIs
  <2>4. Fit(q)
    BY <1>2, <2>3 DEF Fit, Ready, Honest
  <2> QED
    BY <1>2, <1>3, <2>1, <2>4, AloneStep
<1>4. CASE Failed(r)
  BY <1>1, <1>2, <1>4, FailedPreserves
<1> QED
  BY <1>1, <1>3, <1>4 DEF CheckSession

\* The claims of a new token.
LEMMA ClaimsAreGenuine ==
  ASSUME TablesOK, NEW u \in Users
  PROVE  Genuine(ClaimsNow(u))
<1>1. PICK role \in Roles : role = account[u].role
  BY DEF TablesOK
<1>2. PICK owned : owned = IF role = "siteadmin" THEN Isns
                           ELSE IF role = "isnadmin" THEN {i \in Isns : owner[i] = u} ELSE {}
  OBVIOUS
<1>3. owned \subseteq Isns /\ (owned # {} => role \in Admins)
  BY <1>2 DEF Admins
<1>4. PICK perms : perms = IF role = "siteadmin" THEN Isns
                           ELSE owned \union {i \in Isns : <<u, i>> \in Members}
  OBVIOUS
<1>5. perms \subseteq Isns
  BY <1>3, <1>4
<1>6. PICK x : x = [user |-> u, role |-> role, administers |-> owned, perms |-> perms]
  OBVIOUS
<1>7. x \in Claims /\ x.role = role /\ x.administers = owned
  BY <1>3, <1>5, <1>6 DEF Claims
<1>8. ClaimsNow(u) = x
  BY <1>1, <1>2, <1>4, <1>6 DEF ClaimsNow
<1> QED
  BY <1>3, <1>7, <1>8 DEF Genuine

LEMMA MintPreserves ==
  ASSUME IInv, NEW r \in Requests, Mint(r)
  PROVE  IInv'
<1>1. PICK p : p = request[r]
  OBVIOUS
<1>2. /\ p # Null /\ p.at = "mint" /\ UNCHANGED <<database, cookies, lost>>
      /\ Fit(p) /\ p \in Request /\ p.user \in Users
  BY <1>1, RequestFacts DEF Mint, At, Fit, Ready
<1>3. CASE Set(r, [p EXCEPT !.at = "rotate", !.access = ClaimsNow(p.user)])
  <2>1. PICK claims : claims = ClaimsNow(p.user)
    OBVIOUS
  <2>2. Genuine(claims)
    BY <1>2, <2>1, ClaimsAreGenuine DEF IInv
  <2>3. PICK q : q = [p EXCEPT !.at = "rotate", !.access = claims]
    OBVIOUS
  <2>4. "rotate" \in Steps
    BY DEF Steps
  <2>5. /\ q \in Request /\ q.access = claims /\ q.at = "rotate" /\ q.off = p.off
        /\ q.status = p.status /\ q.user = p.user
    BY <1>2, <2>2, <2>3, <2>4, RequestIs DEF Genuine
  <2>6. Fit(q)
    BY <1>2, <2>2, <2>5 DEF Fit, Ready, Honest
  <2> QED
    BY <1>2, <1>3, <2>1, <2>3, <2>6, AloneStep
<1>4. CASE Failed(r)
  BY <1>1, <1>2, <1>4, FailedPreserves
<1> QED
  BY <1>1, <1>3, <1>4 DEF Mint

\* The tokens of a rotation, as the request goes on with them.
LEMMA IssuedIsFit ==
  ASSUME NEW p, Fit(p), p.at = "rotate"
  PROVE  /\ Issued(p) \in Request /\ Genuine(Issued(p).access) /\ Honest(Issued(p))
         /\ Fit(RefreshToken(p)) /\ Fit(Login(p))
<1>1. p \in Request /\ p.user \in Users /\ Genuine(p.access)
  BY DEF Fit, Ready
<1>2. PICK b \in BOOLEAN : b = TRUE
  BY Zenon
<1>3. PICK t : t = [user |-> p.user, live |-> b]
  OBVIOUS
<1>4. t \in RefreshTokens
  BY <1>1, <1>3 DEF RefreshTokens
<1>5. PICK none : none = Null
  OBVIOUS
<1>6. PICK q : q = [p EXCEPT !.user = none, !.new = b, !.refresh = t]
  OBVIOUS
<1>7. /\ q \in Request /\ q.access = p.access /\ q.at = "rotate" /\ q.off = p.off
      /\ q.status = p.status
  BY <1>1, <1>4, <1>5, <1>6, RequestIs
<1>8. Issued(p) = q
  BY <1>2, <1>3, <1>5, <1>6, Zenon DEF Issued
<1>9. Honest(q) /\ Genuine(q.access)
  BY <1>1, <1>7 DEF Honest, Fit
<1>10. Fit(Login(p))
  BY <1>7, <1>8, <1>9, AnswerIsFit DEF Login
<1>11. Fit(RefreshToken(p))
  <2>1. PICK x : x = [q EXCEPT !.at = "gate"]
    OBVIOUS
  <2>2. "gate" \in Steps
    BY DEF Steps
  <2>3. /\ x \in Request /\ x.access = q.access /\ x.at = "gate" /\ x.off = q.off
        /\ x.status = q.status
    BY <1>7, <2>1, <2>2, RequestIs
  <2>4. Fit(x)
    BY <1>7, <1>9, <2>3 DEF Fit, Ready, Honest
  <2> QED
    BY <1>8, <2>1, <2>4 DEF RefreshToken
<1> QED
  BY <1>7, <1>8, <1>9, <1>10, <1>11

LEMMA EndThenPreserves ==
  ASSUME IInv, NEW u, NEW r \in Requests, NEW q, Fit(q), EndThen(u, r, q),
         lost' \in 0..MaxLost, UNCHANGED database
  PROVE  IInv'
<1>1. RequestsOK /\ BrowserOK
  BY DEF IInv
<1>2. /\ RequestsOK' /\ CookieAccess'
      /\ cookies' \in [access: Claims \union {Null}, refresh: RefreshTokens \union {Null}]
  BY <1>1, EndThenStep
<1>3. BrowserOK'
  BY <1>2 DEF BrowserOK
<1> QED
  BY <1>2, <1>3, Still DEF IInv

LEMMA LostOK ==
  IInv => /\ lost \in 0..MaxLost
          /\ lost < MaxLost /\ lost' = lost + 1 => lost' \in 0..MaxLost
BY BoundAssumption DEF IInv, BrowserOK

LEMMA RotatePreserves ==
  ASSUME IInv, NEW r \in Requests, Rotate(r)
  PROVE  IInv'
<1>1. PICK p : p = request[r]
  OBVIOUS
<1>2. p # Null /\ p.at = "rotate" /\ UNCHANGED database /\ Fit(p)
  BY <1>1, RequestFacts DEF Rotate, At
<1>3. PICK alert \in {Null, "page", "alert", "login", "denied"} :
        alert = IF p.kind = "login" THEN "alert" ELSE "login"
  OBVIOUS
<1>4. PICK q : Fit(q) /\ EndThen(p.user, r, q) /\ lost' \in 0..MaxLost
  <2>1. CASE EndThen(p.user, r, IF p.kind = "login" THEN Login(p) ELSE RefreshToken(p))
             /\ lost' = lost
    <3>1. PICK q : q = IF p.kind = "login" THEN Login(p) ELSE RefreshToken(p)
      OBVIOUS
    <3>2. Fit(q)
      BY <1>2, <3>1, IssuedIsFit
    <3> QED
      BY <2>1, <3>1, <3>2, LostOK
  <2>2. CASE /\ lost < MaxLost /\ lost' = lost + 1
             /\ EndThen(p.user, r, Answered(p, alert))
    <3>1. PICK q : q = Answered(p, alert)
      OBVIOUS
    <3>2. Fit(q)
      BY <1>1, <1>2, <3>1, AnswerOf
    <3> QED
      BY <2>2, <3>1, <3>2, LostOK
  <2> QED
    BY <1>1, <1>3, <2>1, <2>2 DEF Rotate
<1> QED
  BY <1>2, <1>4, EndThenPreserves

LEMMA LogoutPreserves ==
  ASSUME IInv, NEW r \in Requests, Logout(r)
  PROVE  IInv'
<1>1. /\ request[r] # Null /\ UNCHANGED database
      /\ RevokeToken(r, request[r].refresh, Answered(request[r], "login"))
  BY DEF Logout, At
<1>2. PICK q : q = Answered(request[r], "login")
  OBVIOUS
<1>3. Fit(q)
  BY <1>1, <1>2, AnswerOf
<1>4. /\ (\E u : EndThen(u, r, q)) \/ (Set(r, q) /\ UNCHANGED cookies)
      /\ lost' = lost \/ (lost < MaxLost /\ lost' = lost + 1)
  BY <1>1, <1>2 DEF RevokeToken
<1>5. lost' \in 0..MaxLost
  BY <1>4, LostOK
<1> QED
  BY <1>1, <1>3, <1>4, <1>5, EndThenPreserves, Still, SetStep DEF IInv

-----------------------------------------------------------------------------
(* Pages and calls *)

LEMMA AllowedAreCalls ==
  ASSUME NEW access, NEW isn, NEW v
  PROVE  Seq(Allowed(access, isn, v)) \subseteq AnyCalls
<1>1. Allowed(access, isn, v) \subseteq [route: Client!Routes, ok: SUBSET Nat]
  BY DEF Allowed, Calls
<1> QED
  BY <1>1, SeqOfMore, Zenon DEF AnyCalls

LEMMA OpenPreserves ==
  ASSUME IInv, NEW r \in Requests, request[r] # Null, request[r].at = "gate",
         NEW calls, NEW isn \in Isns \union {Null}, NEW v \in Users \union {Null},
         calls \in Seq(Allowed(request[r].access, isn, v)), Open(r, calls, isn, v),
         UNCHANGED <<database, cookies, lost>>
  PROVE  IInv'
<1>1. PICK p : p = request[r]
  OBVIOUS
<1>2. Fit(p) /\ p \in Request /\ p.at = "gate" /\ calls \in Seq(Allowed(p.access, isn, v))
      /\ calls \in AnyCalls
  BY <1>1, RequestFacts, AllowedAreCalls
<1>3. "reply" \in Steps /\ "call" \in Steps /\ "page" \in Answers
  BY DEF Steps, Answers
<1>4. CASE calls = <<>>
  <2>1. PICK q : q = [p EXCEPT !.at = "reply", !.answer = "page"]
    OBVIOUS
  <2>2. /\ q \in Request /\ q.access = p.access /\ q.at = "reply" /\ q.off = p.off
        /\ q.status = p.status
    BY <1>2, <1>3, <2>1, RequestIs
  <2>3. Fit(q)
    BY <1>2, <2>2 DEF Fit, Ready, Honest
  <2>4. Set(r, q)
    BY <1>1, <1>4, <2>1 DEF Open
  <2> QED
    BY <2>3, <2>4, AloneStep
<1>5. CASE calls # <<>>
  <2>1. PICK q : q = [p EXCEPT !.at = "call", !.isn = isn, !.user = v, !.calls = calls]
    OBVIOUS
  <2>2. /\ q \in Request /\ q.access = p.access /\ q.at = "call" /\ q.off = p.off
        /\ q.status = p.status /\ q.isn = isn /\ q.user = v /\ q.calls = calls
    BY <1>2, <1>3, <2>1, RequestIs
  <2>3. Fit(q)
    BY <1>2, <1>5, <2>2 DEF Fit, Ready, Honest
  <2>4. Set(r, q)
    BY <1>1, <1>5, <2>1 DEF Open
  <2> QED
    BY <2>3, <2>4, AloneStep
<1> QED
  BY <1>4, <1>5

LEMMA GatePreserves ==
  ASSUME IInv, NEW r \in Requests, Gate(r)
  PROVE  IInv'
<1>1. PICK p : p = request[r]
  OBVIOUS
<1>2. p # Null /\ p.at = "gate" /\ UNCHANGED <<database, cookies, lost>> /\ Fit(p)
  BY <1>1, RequestFacts DEF Gate, At
<1>3. PICK page \in pagesOf[r] :
        /\ (page \in DOMAIN PublicPages) = (p.kind = "public")
        /\ IF page = "HomePage" THEN HomePage(r)
           ELSE IF ~Admits(page, p.access) THEN Answer(r, "denied")
           ELSE \E calls \in CallsOf(page) :
                  \/ Answer(r, "alert")
                  \/ \E i \in Chosen(page, p.access, calls),
                        v \in ChosenUser(page, p.access, calls) : Open(r, calls, i, v)
  BY <1>1 DEF Gate
<1>4. page \in Pages
  BY TabsAssumption DEF IInv, TablesOK
<1>5. ASSUME NEW a \in {Null, "page", "alert", "login", "denied"}, Answer(r, a)
      PROVE  IInv'
  BY <1>1, <1>2, <1>5, AnswerPreserves
<1>6. CASE HomePage(r)
  <2>1. PICK a \in {Null, "page", "alert", "login", "denied"} : Answer(r, a)
    BY <1>6 DEF HomePage
  <2> QED
    BY <1>5, <2>1
<1>7. ASSUME Admits(page, p.access), NEW calls \in CallsOf(page),
             NEW i \in Chosen(page, p.access, calls),
             NEW v \in ChosenUser(page, p.access, calls), Open(r, calls, i, v)
      PROVE  IInv'
  <2>1. /\ calls \in Seq(Allowed(p.access, i, v))
        /\ i \in Isns \union {Null} /\ v \in Users \union {Null}
    <3>1. CASE page \in DOMAIN PublicPages
      BY <1>7, <3>1, PublicAllowed
    <3>2. CASE page \notin DOMAIN PublicPages
      <4>1. Genuine(p.access)
        BY <1>2, <1>3, <3>2 DEF Fit, Ready
      <4> QED
        BY <1>4, <1>7, <3>2, <4>1, PageAllowed
    <3> QED
      BY <3>1, <3>2
  <2> QED
    BY <1>1, <1>2, <1>7, <2>1, OpenPreserves
<1> QED
  BY <1>3, <1>5, <1>6, <1>7

LEMMA EffectPreserves ==
  ASSUME TablesOK, NEW route, NEW v, Effect(route, v), route \in Changing => v \in Users
  PROVE  TablesOK'
<1>1. CASE UNCHANGED database
  BY <1>1 DEF TablesOK, database
<1>2. CASE /\ route \in Changing
           /\ changes < MaxChanges /\ changes' = changes + 1 /\ Change(route, v)
           /\ UNCHANGED pagesOf
  <2>0. v \in Users
    BY <1>2
  <2>1. changes' \in 0..MaxChanges /\ pagesOf' \in Tabs
    BY <1>2, BoundAssumption DEF TablesOK
  <2>2. \/ /\ account' = [account EXCEPT ![v].active = (route = "EnableAccount")]
           /\ UNCHANGED owner
        \/ /\ UNCHANGED owner
           /\ account' = [account EXCEPT ![v].role =
                IF route = "GrantUserIsnAdminRole" THEN "isnadmin"
                ELSE IF route = "GrantUserSiteAdminRole" THEN "siteadmin" ELSE "member"]
        \/ /\ UNCHANGED account
           /\ \E i \in Isns : owner[i] # v /\ owner' = [owner EXCEPT ![i] = v]
    BY <1>2 DEF Change
  <2>3. CASE account' = [account EXCEPT ![v].active = (route = "EnableAccount")]
             /\ UNCHANGED owner
    <3>1. PICK b \in BOOLEAN : b = (route = "EnableAccount")
      BY Zenon
    <3>2. account' = [account EXCEPT ![v].active = b]
      BY <2>3, <3>1, Zenon
    <3>3. account' \in [Users -> [active: BOOLEAN, role: Roles]]
      BY <3>2 DEF TablesOK
    <3> QED
      BY <2>1, <2>3, <3>3 DEF TablesOK
  <2>4. CASE /\ UNCHANGED owner
             /\ account' = [account EXCEPT ![v].role =
                  IF route = "GrantUserIsnAdminRole" THEN "isnadmin"
                  ELSE IF route = "GrantUserSiteAdminRole" THEN "siteadmin" ELSE "member"]
    <3>1. account' \in [Users -> [active: BOOLEAN, role: Roles]]
      BY <2>4 DEF TablesOK, Roles
    <3> QED
      BY <2>1, <2>4, <3>1 DEF TablesOK
  <2>5. CASE UNCHANGED account /\ \E i \in Isns : owner[i] # v /\ owner' = [owner EXCEPT ![i] = v]
    BY <2>0, <2>1, <2>5 DEF TablesOK
  <2> QED
    BY <2>2, <2>3, <2>4, <2>5
<1> QED
  BY <1>1, <1>2 DEF Effect

LEMMA ElsewherePreserves ==
  ASSUME IInv, Elsewhere
  PROVE  IInv'
<1>1. PICK route \in Changing, v \in Users : Effect(route, v)
  BY DEF Elsewhere
<1>2. UNCHANGED cookies /\ UNCHANGED request /\ lost' = lost
  BY DEF Elsewhere
<1> QED
  BY <1>1, <1>2, EffectPreserves, RequestsStay, Still, LostOK DEF IInv

\* The next call of a request.
LEMMA NextCall ==
  ASSUME NEW p, Fit(p), p.at = "call"
  PROVE  /\ p \in Request /\ p.calls # <<>> /\ p.calls \in Seq(Allowed(p.access, p.isn, p.user))
         /\ Head(p.calls) \in Allowed(p.access, p.isn, p.user)
         /\ Tail(p.calls) \in Seq(Allowed(p.access, p.isn, p.user))
<1>1. /\ p \in Request /\ p.calls # <<>> /\ p.calls \in Seq(Allowed(p.access, p.isn, p.user))
  BY DEF Fit, Ready
<1>2. PICK S : S = Allowed(p.access, p.isn, p.user)
  OBVIOUS
<1>3. p.calls \in Seq(S) /\ p.calls # <<>>
  BY <1>1, <1>2
<1>4. Head(p.calls) \in S /\ Tail(p.calls) \in Seq(S)
  BY <1>3, HeadTailProperties
<1> QED
  BY <1>1, <1>2, <1>4

\* What it is told is its status.
LEMMA ToldSets ==
  ASSUME NEW r, NEW status, NEW done, Told(r, status, done)
  PROVE  \E calls, off, isn, user, at, answer :
           Set(r, [request[r] EXCEPT !.status = status, !.calls = calls, !.off = off, !.isn = isn,
                                     !.user = user, !.at = at, !.answer = answer])
<1>1. PICK p, left : /\ p = request[r]
                     /\ left = IF status \in Head(p.calls).ok THEN Tail(p.calls) ELSE p.calls
  OBVIOUS
<1>2. PICK off : off = (p.off \union (IF /\ status \in Head(p.calls).ok /\ ~done
                                         /\ ~(Head(p.calls).route \in Client!Reads)
                                      THEN {"skipped"} ELSE {}))
                       \union (IF /\ ~(status \in Head(p.calls).ok) /\ done
                                  /\ ~(Head(p.calls).route \in Client!Reads)
                               THEN {"unknown"} ELSE {})
  OBVIOUS
<1>3. PICK isn, user : isn = (IF left = <<>> THEN Null ELSE p.isn)
                       /\ user = (IF left = <<>> THEN Null ELSE p.user)
  OBVIOUS
<1>4. PICK at : at = IF status \in Head(p.calls).ok /\ left # <<>> THEN "call" ELSE "reply"
  OBVIOUS
<1>5. PICK answer : answer = IF ~(status \in Head(p.calls).ok) THEN "alert"
                             ELSE IF left = <<>> THEN "page" ELSE Null
  OBVIOUS
<1>6. Set(r, [request[r] EXCEPT !.status = status, !.calls = left, !.off = off, !.isn = isn,
                                !.user = user, !.at = at, !.answer = answer])
  BY <1>1, <1>2, <1>3, <1>4, <1>5, Zenon DEF Told
<1> QED
  BY <1>6, Zenon

LEMMA ToldPreserves ==
  ASSUME IInv, NEW r \in Requests, At(r, "call"), NEW status \in Statuses, NEW done \in BOOLEAN,
         Told(r, status, done),
         Head(request[r].calls).route \notin Client!Reads
           => IF status \in Head(request[r].calls).ok THEN done ELSE done => status \in {0, 500}
  PROVE  RequestsOK'
<1>1. PICK p : p = request[r]
  OBVIOUS
<1>2. p # Null /\ p.at = "call" /\ Fit(p)
  BY <1>1, RequestFacts DEF At
<1>3. PICK h, S : h = Head(p.calls) /\ S = Seq(Allowed(p.access, p.isn, p.user))
  OBVIOUS
<1>4. p \in Request /\ p.calls # <<>> /\ p.calls \in S /\ Tail(p.calls) \in S
  BY <1>2, <1>3, NextCall
<1>5. PICK on \in BOOLEAN : on <=> status \in h.ok
  <2>1. CASE status \in h.ok
    BY <2>1, Zenon
  <2>2. CASE status \notin h.ok
    BY <2>2, Zenon
  <2> QED
    BY <2>1, <2>2
<1>6. PICK reads \in BOOLEAN : reads <=> h.route \in Client!Reads
  <2>1. CASE h.route \in Client!Reads
    BY <2>1, Zenon
  <2>2. CASE h.route \notin Client!Reads
    BY <2>2, Zenon
  <2> QED
    BY <2>1, <2>2
<1>7. PICK left : left = IF on THEN Tail(p.calls) ELSE p.calls
  OBVIOUS
<1>8. left \in S /\ left \in AnyCalls
  BY <1>3, <1>4, <1>7, AllowedAreCalls
<1>9. PICK off : off = (p.off \union (IF on /\ ~done /\ ~reads THEN {"skipped"} ELSE {}))
                        \union (IF ~on /\ done /\ ~reads THEN {"unknown"} ELSE {})
  OBVIOUS
<1>10. PICK isn : isn = IF left = <<>> THEN Null ELSE p.isn
  OBVIOUS
<1>10a. PICK user : user = IF left = <<>> THEN Null ELSE p.user
  OBVIOUS
<1>11. PICK at : at = IF on /\ left # <<>> THEN "call" ELSE "reply"
  OBVIOUS
<1>12. PICK answer : answer = IF ~on THEN "alert" ELSE IF left = <<>> THEN "page" ELSE Null
  OBVIOUS
<1>13. PICK q : q = [p EXCEPT !.status = status, !.calls = left, !.off = off, !.isn = isn,
                              !.user = user, !.at = at, !.answer = answer]
  OBVIOUS
<1>14. /\ off \in Offs /\ isn \in Isns \union {Null} /\ user \in Users \union {Null} /\ at \in Steps /\ answer \in Answers
  <2>1. off \in Offs
    BY <1>4, <1>9, RequestIs DEF Offs
  <2>2. isn \in Isns \union {Null} /\ user \in Users \union {Null}
    BY <1>4, <1>10, <1>10a, RequestIs
  <2>3. at \in Steps /\ answer \in Answers
    BY <1>11, <1>12 DEF Steps, Answers
  <2> QED
    BY <2>1, <2>2, <2>3
<1>15. /\ q \in Request /\ q.access = p.access /\ q.status = status /\ q.calls = left
       /\ q.off = off /\ q.isn = isn /\ q.user = user /\ q.at = at
  BY <1>4, <1>8, <1>13, <1>14, RequestIs
<1>16. "skipped" \notin off /\ ("unknown" \in off => ~on /\ status \in {0, 500})
  <2>1. /\ on /\ ~reads => done
        /\ ~on /\ ~reads /\ done => status \in {0, 500}
    BY <1>1, <1>3, <1>5, <1>6
  <2>2. p.off = {} \/ ("skipped" \notin p.off /\ "unknown" \notin p.off)
    BY <1>2 DEF Fit, Honest
  <2> QED
    BY <1>9, <2>1, <2>2
<1>17. Honest(q)
  BY <1>11, <1>15, <1>16 DEF Honest
<1>18. Ready(q)
  <2>1. at = "call" => left # <<>> /\ isn = p.isn /\ user = p.user
    BY <1>10, <1>10a, <1>11
  <2>2. p.access = Null \/ Genuine(p.access)
    BY <1>2 DEF Fit, Ready
  <2>3. at = "call" \/ at = "reply"
    BY <1>11
  <2> QED
    BY <1>3, <1>8, <1>15, <2>1, <2>2, <2>3 DEF Ready
<1>19. Set(r, q)
  <2>1. off = p.off \union (IF on /\ ~done /\ ~reads THEN {"skipped"} ELSE {})
                    \union (IF ~on /\ done /\ ~reads THEN {"unknown"} ELSE {})
    BY <1>9
  <2> QED
    BY <1>1, <1>3, <1>5, <1>6, <1>7, <1>10, <1>10a, <1>11, <1>12, <1>13, <2>1, Zenon DEF Told
<1> QED
  BY <1>15, <1>17, <1>18, <1>19, SetStep DEF IInv, Fit

\* What the API grants but for an owner that lost the ISN, and what a refusal says.
LEMMA VerdictIs ==
  ASSUME NEW r, NEW route
  PROVE  Verdict(r, route) \in {200, 401, 403}
BY DEF Verdict

\* A call that was made, its answer lost or not, and one the API refused.
Made(r, route) ==
  /\ Effect(route, request[r].user)
  /\ \/ Told(r, Client!StatusOf(route), TRUE) /\ UNCHANGED lost
     \/ Told(r, 500, TRUE) /\ UNCHANGED lost
     \/ lost < MaxLost /\ lost' = lost + 1 /\ Told(r, 0, TRUE)
Refused(r, status) == UNCHANGED <<database, lost>> /\ Told(r, status, FALSE)

LEMMA CallIs ==
  ASSUME NEW r, Call(r), NEW route, route = Head(request[r].calls).route
  PROVE  Made(r, route) \/ \E status \in {400, 404, 500, Verdict(r, route)} \ {200} : Refused(r, status)
<1>1. CASE Made(r, route)
  BY <1>1
<1>2. CASE \E status \in {400, 404, 500} : Refused(r, status)
  <2>1. PICK status \in {400, 404, 500} : Refused(r, status)
    BY <1>2
  <2> QED
    BY <2>1
<1>3. CASE Verdict(r, route) # 200 /\ Refused(r, Verdict(r, route))
  BY <1>3
<1>4. \/ /\ Effect(route, request[r].user)
         /\ \/ Told(r, Client!StatusOf(route), TRUE) /\ UNCHANGED lost
            \/ Told(r, 500, TRUE) /\ UNCHANGED lost
            \/ lost < MaxLost /\ lost' = lost + 1 /\ Told(r, 0, TRUE)
      \/ UNCHANGED <<database, lost>> /\ \E status \in {400, 404, 500} : Told(r, status, FALSE)
      \/ /\ Verdict(r, route) # 200 /\ UNCHANGED <<database, lost>>
         /\ Told(r, Verdict(r, route), FALSE)
  BY DEF Call
<1>5. \/ Made(r, route)
      \/ \E status \in {400, 404, 500} : Refused(r, status)
      \/ Verdict(r, route) # 200 /\ Refused(r, Verdict(r, route))
  BY <1>4, Zenon DEF Made, Refused
<1> QED
  BY <1>1, <1>2, <1>3, <1>5

LEMMA CallPreserves ==
  ASSUME IInv, NEW r \in Requests, Call(r)
  PROVE  IInv'
<1>1. PICK p : p = request[r]
  OBVIOUS
<1>2. /\ At(r, "call") /\ p # Null /\ p.at = "call" /\ UNCHANGED cookies /\ Fit(p)
  BY <1>1, RequestFacts DEF Call, At
<1>3. PICK h : h = Head(p.calls)
  OBVIOUS
<1>4. h.route \in Client!Reads \/ h.ok = {Client!StatusOf(h.route)}
  BY <1>2, <1>3, NextCall DEF Allowed, Calls
<1>5. PICK yes \in BOOLEAN, no \in BOOLEAN : yes = TRUE /\ no = FALSE
  BY Zenon
<1>6. ASSUME NEW status \in Statuses, Told(r, status, no), status \notin {200, 201, 204}
      PROVE  RequestsOK'
  <2>1. h.route \notin Client!Reads => status \notin h.ok
    BY <1>4, <1>6 DEF Client!StatusOf
  <2>2. ~no
    BY <1>5, Zenon
  <2> QED
    <3>1. h = Head(request[r].calls)
      BY <1>1, <1>3
    <3>2. Head(request[r].calls).route \notin Client!Reads
            => IF status \in Head(request[r].calls).ok THEN no ELSE no => status \in {0, 500}
      BY <2>1, <2>2, <3>1
    <3> QED
      BY <1>2, <1>6, <3>2, ToldPreserves, Zenon
<1>7. ASSUME NEW status \in Statuses, Told(r, status, yes),
             status \in {0, 500} \/ status = Client!StatusOf(h.route)
      PROVE  RequestsOK'
  <2>1. h.route \notin Client!Reads => status \in h.ok \/ status \in {0, 500}
    BY <1>4, <1>7
  <2>2. yes
    BY <1>5, Zenon
  <2> QED
    <3>1. h = Head(request[r].calls)
      BY <1>1, <1>3
    <3>2. Head(request[r].calls).route \notin Client!Reads
            => IF status \in Head(request[r].calls).ok THEN yes ELSE yes => status \in {0, 500}
      BY <2>1, <2>2, <3>1
    <3> QED
      BY <1>2, <1>7, <3>2, ToldPreserves, Zenon
<1>8. CASE Made(r, h.route)
  <2>1. TablesOK'
    <3>1. h.route \in Changing => p.user \in Users
      BY <1>2, <1>3, NextCall, RoutesApart DEF Allowed
    <3> QED
      BY <1>1, <1>8, <3>1, EffectPreserves DEF IInv, Made
  <2>2. lost' \in 0..MaxLost
    BY <1>8, LostOK DEF Made
  <2>3. Client!StatusOf(h.route) \in Statuses /\ {0, 500} \subseteq Statuses
    BY DEF Client!StatusOf, Statuses
  <2>4. Told(r, Client!StatusOf(h.route), yes) \/ Told(r, 500, yes) \/ Told(r, 0, yes)
    BY <1>5, <1>8, Zenon DEF Made
  <2>5. RequestsOK'
    BY <1>7, <2>3, <2>4
  <2> QED
    BY <1>2, <2>1, <2>2, <2>5, Still DEF IInv
<1>9. ASSUME NEW status \in {400, 401, 403, 404, 500}, Refused(r, status)
      PROVE  IInv'
  <2>1. Told(r, status, no)
    BY <1>5, <1>9, Zenon DEF Refused
  <2>2. RequestsOK'
    BY <1>6, <2>1 DEF Statuses
  <2>3. UNCHANGED database /\ lost' = lost
    BY <1>9 DEF Refused
  <2> QED
    BY <1>2, <2>2, <2>3, Still, LostOK DEF IInv
<1>10. \/ Made(r, h.route)
       \/ \E status \in {400, 404, 500, Verdict(r, h.route)} \ {200} : Refused(r, status)
  <2>1. h.route = Head(request[r].calls).route
    BY <1>1, <1>3
  <2> QED
    BY <2>1, CallIs
<1>11. {400, 404, 500, Verdict(r, h.route)} \ {200} \subseteq {400, 401, 403, 404, 500}
  BY VerdictIs
<1> QED
  BY <1>8, <1>9, <1>10, <1>11

-----------------------------------------------------------------------------

LEMMA InvariantInit == Init => IInv
<1> SUFFICES ASSUME Init PROVE IInv
  OBVIOUS
<1>1. TablesOK
  <2>1. PICK s \in Starts : /\ account = [u \in Users |-> [active |-> TRUE, role |-> s.role[u]]]
                            /\ owner = s.owner
    BY DEF Init
  <2>2. s.role \in [Users -> Roles] /\ s.owner \in [Isns -> Users]
    BY StartsAssumption
  <2>3. PICK b \in BOOLEAN : b = TRUE
    BY Zenon
  <2>4. account = [u \in Users |-> [active |-> b, role |-> s.role[u]]]
    BY <2>1, <2>3, Zenon
  <2>5. account \in [Users -> [active: BOOLEAN, role: Roles]]
    BY <2>2, <2>4
  <2> QED
    BY <2>1, <2>2, <2>5, BoundAssumption DEF TablesOK, Init
<1>2. BrowserOK
  BY BoundAssumption DEF Init, BrowserOK, NoCookies, CookieAccess
<1>3. RequestsOK
  BY DEF Init, RequestsOK
<1> QED
  BY <1>1, <1>2, <1>3 DEF IInv

LEMMA InvariantStep == IInv /\ [Next]_vars => IInv'
<1> SUFFICES ASSUME IInv, [Next]_vars PROVE IInv'
  OBVIOUS
<1>1. CASE UNCHANGED vars
  <2>1. UNCHANGED database /\ UNCHANGED cookies /\ UNCHANGED request /\ lost' = lost
    BY <1>1 DEF vars, database
  <2> QED
    BY <2>1, Still, LostOK, RequestsStay DEF IInv
<1>2. CASE \E r \in Requests : Send(r) \/ Step(r) \/ Abandon(r)
  BY <1>2, SendPreserves, AbandonPreserves, RequireAuthPreserves, CheckSessionPreserves,
     MintPreserves, RotatePreserves, LogoutPreserves, GatePreserves, CallPreserves,
     ReceivePreserves DEF Step
<1>3. CASE ExpireCookie \/ (\E r \in Requests : ExpireToken(r)) \/ Elsewhere
  BY <1>3, ExpireCookiePreserves, ExpireTokenPreserves, ElsewherePreserves
<1> QED
  BY <1>1, <1>2, <1>3 DEF Next

LEMMA InvariantHolds == Spec => []IInv
BY InvariantInit, InvariantStep, PTL DEF Spec

\* The variables have the values their declarations say.
THEOREM WebUiTypes == Spec => []TypeOK
<1>1. IInv => TypeOK
  <2> SUFFICES ASSUME IInv PROVE TypeOK
    OBVIOUS
  <2>1. ASSUME NEW r \in Requests, request[r] # Null
        PROVE  /\ DOMAIN request[r] = DOMAIN NewRequest("page", "auth", Null, Null)
               /\ request[r].access \in Claims \union {Null}
               /\ request[r].refresh \in RefreshTokens \union {Null}
               /\ request[r].kind \in Kinds /\ request[r].at \in Steps
               /\ At(r, "call") => request[r].calls # <<>>
    <3>1. Fit(request[r]) /\ request[r] \in Request
      BY <2>1, RequestFacts
    <3>2. DOMAIN request[r] = {"kind", "at", "access", "expired", "refresh", "new", "user", "isn",
                               "calls", "off", "status", "answer"}
      BY <3>1, RequestIs
    <3>3. DOMAIN NewRequest("page", "auth", Null, Null)
            = {"kind", "at", "access", "expired", "refresh", "new", "user", "isn",
               "calls", "off", "status", "answer"}
      BY DEF NewRequest
    <3>4. /\ request[r].access \in Claims \union {Null}
          /\ request[r].refresh \in RefreshTokens \union {Null}
          /\ request[r].kind \in Kinds /\ request[r].at \in Steps
      BY <3>1, RequestIs
    <3> QED
      BY <3>1, <3>2, <3>3, <3>4 DEF Fit, Ready, At
  <2> QED
    BY <2>1 DEF TypeOK, IInv, TablesOK, BrowserOK
<1> QED
  BY <1>1, InvariantHolds, PTL

\* What a page answers of its calls is true, unless an answer of the API was lost
\* or the API failed half way.
THEOREM AnswersAreTrue == Spec => []AnswerIsTrue
<1>1. IInv => AnswerIsTrue
  BY RequestFacts DEF AnswerIsTrue, Alert, At, Fit, Honest
<1> QED
  BY <1>1, InvariantHolds, PTL

\* The API refuses no change that the UI offers, but to an owner that lost the
\* ISN, and a reset link for another admin to an ISN admin.
THEOREM OffersAreAccepted == Spec => ActionsAccepted
<1> DEFINE Accepted ==
      \A r \in Requests : LET q == request[r] route == Head(q.calls).route IN
        Call(r) /\ request'[r].status = 403 /\ route \notin Client!Reads
        => \/ /\ route \in Client!OwnerRoutes
              /\ q.isn \in q.access.administers /\ owner[q.isn] # q.access.user
           \/ /\ route = "GeneratePasswordResetLink"
              /\ q.access.role = "isnadmin" /\ account[q.user].role # "member"
<1>1. ASSUME IInv, NEW r \in Requests, Call(r), request'[r].status = 403,
             Head(request[r].calls).route \notin Client!Reads
      PROVE  LET q == request[r] route == Head(q.calls).route IN
             \/ /\ route \in Client!OwnerRoutes
                /\ q.isn \in q.access.administers /\ owner[q.isn] # q.access.user
             \/ /\ route = "GeneratePasswordResetLink"
                /\ q.access.role = "isnadmin" /\ account[q.user].role # "member"
  <2>1. PICK p : p = request[r]
    OBVIOUS
  <2>2. At(r, "call") /\ p # Null /\ p.at = "call" /\ Fit(p)
    BY <1>1, <2>1, RequestFacts DEF Call, At
  <2>3. PICK h : h = Head(p.calls)
    OBVIOUS
  <2>4. h \in Allowed(p.access, p.isn, p.user) /\ p \in Request /\ h.route \notin Client!Reads
    BY <1>1, <2>1, <2>2, <2>3, NextCall
  <2>5. ASSUME NEW status, NEW done, Told(r, status, done)
        PROVE  request'[r].status = status
    <3>1. PICK x : request' = [request EXCEPT ![r] = x] /\ x.status = status
      <4>1. PICK calls, off, isn, user, at, answer :
              Set(r, [p EXCEPT !.status = status, !.calls = calls, !.off = off, !.isn = isn,
                               !.user = user, !.at = at, !.answer = answer])
        BY <2>1, <2>5, ToldSets
      <4>2. PICK x : x = [p EXCEPT !.status = status, !.calls = calls, !.off = off, !.isn = isn,
                                   !.user = user, !.at = at, !.answer = answer]
        OBVIOUS
      <4>3. x.status = status
        BY <2>4, <4>2, RequestIs
      <4> QED
        BY <4>1, <4>2, <4>3 DEF Set
    <3> QED
      BY <1>1, <3>1 DEF IInv, RequestsOK
  <2>6. Verdict(r, h.route) = 403
    <3>1. Client!StatusOf(h.route) # 403
      BY DEF Client!StatusOf
    <3>2. h.route = Head(request[r].calls).route
      BY <2>1, <2>3
    <3>3. CASE Made(r, h.route)
      <4>1. request'[r].status = Client!StatusOf(h.route) \/ request'[r].status \in {0, 500}
        BY <2>5, <3>3, Zenon DEF Made
      <4> QED
        BY <1>1, <3>1, <4>1
    <3>4. ASSUME NEW status \in {400, 404, 500, Verdict(r, h.route)}, Refused(r, status)
          PROVE  Verdict(r, h.route) = 403
      <4>1. request'[r].status = status
        BY <2>5, <3>4, Zenon DEF Refused
      <4> QED
        BY <1>1, <3>4, <4>1
    <3> QED
      BY <1>1, <3>2, <3>3, <3>4, CallIs
  <2>7. h.route \notin Client!OpenRoutes /\ h.route \notin Client!MemberRoutes
    BY <2>4, <2>6, RoutesApart DEF Verdict
  <2>8. /\ p.access.role \in Client!AllowedRoles(h.route)
        /\ h.route \in Client!OwnerRoutes => p.isn \in p.access.administers
        /\ h.route \in Client!RoleRoutes => p.user # p.access.user
    BY <2>4, <2>7 DEF Allowed
  <2>9. \/ /\ h.route \in Client!OwnerRoutes
           /\ p.isn = Null \/ owner[p.isn] # p.access.user
        \/ /\ h.route = "GeneratePasswordResetLink"
           /\ p.access.role = "isnadmin" /\ account[p.user].role # "member"
    BY <2>1, <2>6, <2>7, <2>8 DEF Verdict
  <2>10. h.route \in Client!OwnerRoutes => p.isn # Null
    <3>1. Genuine(p.access)
      BY <2>4, <2>7 DEF Allowed
    <3> QED
      BY <2>8, <3>1, NullAssumption DEF Genuine, Claims
  <2> QED
    BY <2>1, <2>3, <2>8, <2>9, <2>10
<1>2. IInv /\ [Next]_vars => [Accepted]_vars
  BY <1>1
<1> QED
  BY <1>2, InvariantHolds, PTL DEF ActionsAccepted, Spec
=============================================================================
