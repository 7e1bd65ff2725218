------------------------------- MODULE MCPages -------------------------------
(***************************************************************************)
(* Small instances of the settings and the export page for TLC.            *)
(***************************************************************************)
EXTENDS PagesProperties

CONSTANTS a1, a2

MCAddresses == {a1, a2}
MCOffers    == {{"default"}, {"one", "two"}}
MCBackends  == {"local_llm", "openai"}

MCCliSettings == {"local_llm.address", "openai.api_key"}
=============================================================================
