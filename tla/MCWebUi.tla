------------------------------ MODULE MCWebUi ------------------------------
(***************************************************************************)
(* Small instances of WebUi: two users of one browser, and an ISN one may  *)
(* own and the other use.                                                  *)
(***************************************************************************)
EXTENDS WebUi

CONSTANTS ann, bob, red, r1, r2

BobIn == {<<bob, red>>}

\* A site admin, and the admin of the ISN, or one who is none.
OneSiteAdmin ==
  {[role |-> [u \in Users |-> IF u = ann THEN "siteadmin" ELSE "isnadmin"],
    owner |-> [i \in Isns |-> bob]],
   [role |-> [u \in Users |-> IF u = ann THEN "siteadmin" ELSE "member"],
    owner |-> [i \in Isns |-> ann]]}

\* One request for any page, or two for the dashboard.
AnyPageOrTwoTabs ==
  {[r \in Requests |-> IF r = r1 THEN Pages ELSE {}],
   [r \in Requests |-> {"DashboardPage"}]}
TwoTabs == {[r \in Requests |-> {"DashboardPage"}]}
=============================================================================
