------------------------------ MODULE MCApiCall ------------------------------
(* A read and a write that compete for one connection per origin; the base *)
(* URL's origin, another port of its host, and its plaintext namesake.     *)
EXTENDS ApiCall
CONSTANTS get, put, home, port, clear

MCCalls == {get, put}
MCWrites == {put}
MCOrigins == {home, port, clear}
MCPlain == {clear}
=============================================================================
