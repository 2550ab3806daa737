------------------------------ MODULE MCLines ------------------------------
(* Lines on a small instance: one-letter commands and aliases, so that every *)
(* command with up to two arguments can be typed, and small arrays, so that  *)
(* they overflow.                                                            *)
EXTENDS Lines

MCTypable   == {" ", "/", "m", "h"}
MCHelp      == <<"h">>
MCPlugins   == <<"h", "m">>
MCMsg       == <<"m">>
MCSender    == <<"m", "m">>
MCPeer      == <<"h">>
MCOnline    == <<<<"m", "m">>, <<"h">>, <<"m">>, <<"/">>, <<"h", " ", "h">>>>
\* Every user name and password of up to three of these characters.
MCCredentials == UNION {[1..n -> {"m", "\\x01", "\\0"}] : n \in 0..3}
=============================================================================
