-------------------------------- MODULE MCLogger --------------------------------
(* Three resets in a row, or at once.  There is the report of an earlier   *)
(* one, and another host may give its id again.                            *)
EXTENDS Logger

CONSTANTS a, b, c

MCOldDirs  == {1}
MCOtherIds == {1}
=============================================================================
