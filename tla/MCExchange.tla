----------------------------- MODULE MCExchange -----------------------------
(* Three responses for one request, as when a handler completes its callback *)
(* twice and the chain fails it as well; two of them have an entity.         *)
EXTENDS Exchange

CONSTANTS ok, error, refused, null

MCResponses  == {ok, error, refused}
MCWithEntity == {ok, error}
=============================================================================
