------------------------- MODULE MCBackgroundCapture -------------------------
(* A page request that may be redirected to the URL of another one, and a mocked *)
(* request and a replay of its first URL.                                        *)
EXTENDS BackgroundCapture

CONSTANTS r1, r2, m1, p1, k1, k2

MCRequests == {r1, r2}
MCMocks == {m1}
MCReplays == {p1}
MCKeys == {k1, k2}
MCKeyOf == [x \in {r1, r2, m1, p1} |-> IF x = r2 THEN k2 ELSE k1]
MCRedirectTo == [r \in {r1} |-> k2]
===============================================================================
