------------------------ MODULE MCShutdownController ------------------------
(* Two SSH sessions, enough for one to be running while the other is      *)
(* spawned or being cleaned up when a shutdown step happens, and one HTTP  *)
(* request, whose Director and proxied round trip race the web server's   *)
(* shutdown.                                                              *)
EXTENDS ShutdownController

CONSTANTS s1, s2, r1

MCSessions == {s1, s2}

MCRequests == {r1}

=============================================================================
