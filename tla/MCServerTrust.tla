---------------------------- MODULE MCServerTrust ----------------------------
(* Small instances of ServerTrust: a fixture that, at lab phase 1, changes    *)
(* one of its two tools and drops the other.                                 *)
EXTENDS ServerTrust, TLC

CONSTANTS lookup, list, d0, d1, e0, o0, o1

MCListing == (o0 :> (lookup :> d0 @@ list :> e0))
             @@ (o1 :> (lookup :> d1 @@ list :> NoDefinition))
MCServes == (0 :> o0) @@ (1 :> o1)
Worsening == {<<o0, o1>>}

RequestSymmetry == Permutations(Request)
=============================================================================
