-------------------------- MODULE MCHostLifecycle --------------------------
(* The catalogue of runtime_ids.def, without the modules that would only   *)
(* repeat another's kind.                                                  *)
EXTENDS HostLifecycle

MCCatalogue == <<"executive", "rendering", "platform">>
=============================================================================
