------------------------------ MODULE MCServices ------------------------------
(***************************************************************************)
(* Services on small instances.                                            *)
(***************************************************************************)
EXTENDS Services, TLC

Symmetry == Permutations(Calls) \cup Permutations(Three)

\* Roles: one built-in role with a module wildcard, one custom code, and
\* permission lists that grant a route or nothing.
MCSeeds == [code \in {"REGULAR_USER"} |-> {<<"client", "*">>}]
MCBodies == {{<<"client", "profile">>}}
MCRequired == {<<"client", "wallet">>}

\* Member: rewards that cross the first threshold and come back below it.
MCRewards == {100, -50}

\* Catalogue: every source of a domain, with a path, without one and without a
\* scheme, and the switches between them.
Full(parts) == [scheme |-> TRUE, slash |-> FALSE, parts |-> parts]
Bare(parts) == [scheme |-> FALSE, slash |-> FALSE, parts |-> parts]
MCSettings ==
  { [provider |-> "local", localBaseUrl |-> Full(<<"www", "static">>)],
    [provider |-> "oss", ossCdnDomain |-> Full(<<"cdn">>)],
    [provider |-> "oss", ossCdnDomain |-> Bare(<<>>), ossEndpoint |-> Bare(<<"endpoint">>)],
    [provider |-> "oss", ossEndpoint |-> Bare(<<>>), ossBucket |-> Bare(<<"bucket">>),
     ossRegion |-> Bare(<<"region">>)] }

\* Regions: two provinces, and a city of the one inserted first.
MCFile == << [code |-> "p", parent |-> "0"], [code |-> "q", parent |-> "0"],
             [code |-> "c", parent |-> "p"] >>

\* Couriers: a company that is listed twice, a row without a name, and another
\* company.
MCSheet == << "s", "", "z", "s" >>

\* Guards: roles that grant the wallet or nothing.
MCGrants == {{}, {"client:wallet"}}
=============================================================================
