-------------------------- MODULE MCServiceBorrow --------------------------
(* A threaded consumer uses every command; a pumped one, with its bounded  *)
(* lanes, creates windows and asks for their readiness.                    *)
EXTENDS ServiceBorrow

MCKinds == [threaded |-> {"create", "acquire", "ready"}, pumped |-> {"create", "ready"}]
=============================================================================
