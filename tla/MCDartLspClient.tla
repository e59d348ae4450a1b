--------------------------- MODULE MCDartLspClient ---------------------------
(* One user thread beside the owner, whose leaving makes calls of its own, and *)
(* a server that may ask once, with the smallest queues and pipes.             *)
EXTENDS DartLspClient

CONSTANT c1
=============================================================================
