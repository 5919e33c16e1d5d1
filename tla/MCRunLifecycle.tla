--------------------------- MODULE MCRunLifecycle ---------------------------
(* Instances of RunLifecycle for TLC. *)
EXTENDS RunLifecycle, TLC

CONSTANTS api, cli, q1, q2, q3, c1, r1, r2

\* The API process serves every HTTP request, a CLI invocation is its own.
MCHome == [q \in Request |-> IF q \in CliRequest THEN cli ELSE api]

\* HTTP requests are interchangeable, and so are runs; the CLI request is not one of them.
HttpSymmetry == Permutations(Request \ CliRequest) \union Permutations(Run)
=============================================================================
