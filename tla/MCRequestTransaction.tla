------------------------ MODULE MCRequestTransaction ------------------------
(* A streamed entity is closed by close() and by its stream: two tasks.      *)
EXTENDS RequestTransaction

CONSTANTS entity, channel

MCClosers == {entity, channel}
=============================================================================
