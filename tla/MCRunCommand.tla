----------------------------- MODULE MCRunCommand -----------------------------
(* A small instance of RunCommand for TLC.                                 *)
EXTENDS RunCommand

CONSTANTS pg, redis, missing   \* two drills, and a name that is no drill

MCDrill == {pg, redis}
MCRequests == {<<>>, <<redis>>, <<redis, pg, redis>>, <<pg, missing>>}
MCFormats == <<"json", "html">>
=============================================================================
