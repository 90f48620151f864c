----------------------------- MODULE MCCatalogue -----------------------------
(***************************************************************************)
(* Catalogue on a small instance: storage settings with each source of a   *)
(* domain, with and without a scheme or a path, and switches between them. *)
(***************************************************************************)
EXTENDS Catalogue

\* Full URLs with the given parts, and texts without a scheme.
Full(parts) == [scheme |-> TRUE, slash |-> FALSE, parts |-> parts]
Bare(parts) == [scheme |-> FALSE, slash |-> FALSE, parts |-> parts]

MCSettings ==
  { [provider |-> "local", localBaseUrl |-> Full(<<"www", "static">>)],
    [provider |-> "oss", ossCdnDomain |-> Full(<<"cdn">>)],
    [provider |-> "oss", ossCdnDomain |-> Empty, ossEndpoint |-> Bare(<<"endpoint">>)],
    [provider |-> "oss", ossEndpoint |-> Empty, ossBucket |-> Bare(<<"bucket">>),
     ossRegion |-> Bare(<<"region">>)] }
==============================================================================
