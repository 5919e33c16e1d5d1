--------------------------- MODULE MCResponseBound ---------------------------
(***************************************************************************)
(* Limits the policy loader accepts (256 bytes or more, 4096 by default),  *)
(* and texts that are over them by little and by much.                     *)
(***************************************************************************)
EXTENDS ResponseBound

MaxSize == 6000
Limits == {256, 257, 4096}
Digits(n) == IF n < 10 THEN 1 ELSE IF n < 100 THEN 2 ELSE IF n < 1000 THEN 3 ELSE 4

\* TRUNCATION_NOTICE has 60 bytes beside its two numbers.
NoticeLengths == [l \in Limits |-> [d \in 0..MaxSize |-> 60 + Digits(l) + Digits(d)]]

Cases ==
    {[lead |-> a, width |-> w, size |-> a + w * n, limit |-> l] :
        a \in 0..3, w \in 1..4, n \in {60, 64, 70, 80, 90, 100, 1023, 1024, 1032, 1100, 1257, 1364, 1365},
        l \in Limits}
OverTheLimit == {c \in Cases : c.size > c.limit /\ c.size <= MaxSize}
=============================================================================
