----------------------------- MODULE MCGateway -----------------------------
(***************************************************************************)
(* A small instance of Gateway: processes that authenticate with values of  *)
(* API_TOKENS that are right, blank, or wrong in each of the ways the parser *)
(* distinguishes, a production and an open one, and every combination of    *)
(* the switches that a production process might be started with.  Roles and *)
(* the production environment are not spelled in lower case throughout.     *)
(***************************************************************************)
EXTENDS Gateway

MCLowered == [text \in {"APPROVER", "Analyst", "ADMIN", "Production"} |->
  CASE text = "APPROVER" -> "approver" [] text = "Analyst" -> "analyst"
    [] text = "ADMIN" -> "admin"       [] text = "Production" -> "production"]

MCApiTokens ==
  LET ann == <<"k1", "ann">>
      bob == <<"k2", "bob", "APPROVER">>
  IN {<<Nothing>>,                                  \* not set
      <<Nothing, Nothing>>,                         \* a lone comma: not blank
      <<<<"k1", "ann", "Analyst">>, bob>>, <<bob, Nothing>>,
      <<bob, <<"k1">>>>,                            \* no principal
      <<bob, <<"k1", "ann", "approver", "x">>>>,    \* too many fields
      <<bob, <<"", "ann">>>>, <<bob, <<"k1", "">>>>,
      <<bob, <<"k1", "ann", "ADMIN">>>>,            \* no such role
      <<ann, <<"k1", "bob", "approver">>>>}         \* the same token twice

MCSigned == <<<<"k1", "ann", "approver">>>>

MCConfigurations ==
  [environment : {"development"}, llm_provider : {"openai"}, api_key : {TRUE},
   auth_enabled : {TRUE}, api_tokens : MCApiTokens]
  \cup
  [environment : {"development"}, llm_provider : {"stub"}, api_key : {FALSE},
   auth_enabled : {FALSE}, api_tokens : {<<Nothing>>}]
  \cup
  [environment : {"Production"}, llm_provider : {"stub", "openai"}, api_key : BOOLEAN,
   auth_enabled : BOOLEAN, api_tokens : {<<Nothing>>, MCSigned}]

MCSymmetry == Permutations(Workers) \cup Permutations(Threads)
=============================================================================
