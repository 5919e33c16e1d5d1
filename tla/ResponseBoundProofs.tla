------------------------- MODULE ResponseBoundProofs -------------------------
(***************************************************************************)
(* What is returned is never above the limit, whatever the text, and a     *)
(* text of one-byte characters is always shown: the rounds run out only    *)
(* where a character may be cut in two.                                    *)
(***************************************************************************)
EXTENDS ResponseBound, TLAPS

\* A call of _fit_within_limit: the text is over the limit.
IsCall(c) ==
    /\ c.lead \in Nat /\ c.width \in Nat \ {0}
    /\ c.limit \in Nat /\ c.size \in Nat /\ c.size > c.limit
    /\ \A d \in 0..c.size : Notice[c.limit][d] \in Nat
Calls == \A c \in Case : IsCall(c)

-----------------------------------------------------------------------------
\* What is left of a text is no longer than what was kept of it.
LEMMA BodyIsWithin ==
    ASSUME NEW c, IsCall(c), NEW n \in Nat
    PROVE  Body(c, n) \in Nat /\ Body(c, n) <= n
<1>1. CASE n <= c.lead
  BY <1>1 DEF Body
<1>2. CASE n > c.lead
  <2> DEFINE x == n - c.lead
             q == x \div c.width
  <2>1. x \in Nat /\ c.width \in Nat \ {0} /\ c.lead \in Nat
    BY <1>2 DEF IsCall
  <2>2. q \in Nat /\ c.width * q <= x /\ c.width * q \in Nat
    <3> HIDE DEF x
    <3> QED BY <2>1
  <2>3. Body(c, n) = c.lead + c.width * q
    BY <1>2, <2>1 DEF Body
  <2> QED BY <2>1, <2>2, <2>3
<1> QED BY <1>1, <1>2 DEF IsCall

(***************************************************************************)
(* _fit_within_limit: "so the *total* is at most limit bytes", in every    *)
(* round and when all of them are used up.                                 *)
(***************************************************************************)
THEOREM ResponseIsBounded ==
    ASSUME Calls
    PROVE  Spec => []BoundIsKept
<1> DEFINE Inv == /\ case \in Case /\ keep \in 0..case.limit
                  /\ note.length \in Nat /\ BoundIsKept
<1>1. Init => Inv
  BY DEF Init, BoundIsKept, Calls, IsCall
<1>2. Inv /\ [Next]_vars => Inv'
  <2> SUFFICES ASSUME Inv, [Next]_vars PROVE Inv'
    OBVIOUS
  <2>0. IsCall(case) /\ Body(case, keep) \in Nat /\ Body(case, keep) <= keep
    BY BodyIsWithin DEF Calls, IsCall
  <2>1. NoteFor(keep).length \in Nat /\ Total(keep) = Body(case, keep) + NoteFor(keep).length
    BY <2>0 DEF NoteFor, Total, IsCall
  <2>2. CASE Fits
    <3>1. /\ case' = case /\ keep' = keep /\ note' = NoteFor(keep)
          /\ shown' = [body |-> Body(case, keep), note |-> NoteFor(keep).length]
          /\ Total(keep) <= case.limit
      BY <2>2 DEF Fits
    <3> QED BY <2>1, <3>1 DEF BoundIsKept
  <2>3. CASE Shrinks
    <3>1. case' = case /\ shown' = shown /\ note' = NoteFor(keep)
      BY <2>3 DEF Shrinks
    <3>2. keep' \in 0..case.limit
      BY <2>0, <2>1, <2>3 DEF Shrinks, IsCall
    <3> QED BY <2>1, <3>1, <3>2 DEF BoundIsKept
  <2>4. CASE GivesUp
    BY <2>0, <2>4 DEF GivesUp, BoundIsKept, IsCall
  <2>5. CASE UNCHANGED vars
    BY <2>5 DEF vars, BoundIsKept
  <2> QED BY <2>2, <2>3, <2>4, <2>5 DEF Next
<1>3. Inv => BoundIsKept
  OBVIOUS
<1> QED BY <1>1, <1>2, <1>3, PTL DEF Spec

(***************************************************************************)
(* Where a text is shown, the notice beside it says exactly how much of it *)
(* is missing.                                                             *)
(***************************************************************************)
THEOREM NoticeIsAccurate == Spec => []NoticeIsTrue
<1>1. Init => NoticeIsTrue
  BY DEF Init, NoticeIsTrue
<1>2. NoticeIsTrue /\ [Next]_vars => NoticeIsTrue'
  BY DEF NoticeIsTrue, Next, Fits, Shrinks, GivesUp, NoteFor, vars
<1> QED BY <1>1, <1>2, PTL DEF Spec

-----------------------------------------------------------------------------
(***************************************************************************)
(* A notice grows by at most one byte when the number in it grows by no    *)
(* more than a notice is long, and is much shorter than any limit that the *)
(* policy loader accepts (256 bytes).                                      *)
(***************************************************************************)
NoticeGrowsSlowly(longest) ==
    \A c \in Case :
        /\ longest \in Nat /\ longest < c.limit
        /\ \A d \in 0..c.size : Notice[c.limit][d] <= longest
        /\ \A d, e \in 0..c.size :
              d <= e /\ e <= d + longest + 1 =>
                 /\ Notice[c.limit][d] <= Notice[c.limit][e]
                 /\ Notice[c.limit][e] <= Notice[c.limit][d] + 1

\* No character can be cut in two.
Plain == \A c \in Case : c.width = 1

\* How much is kept in each round: all, the notice less, and one byte less again.
PlainRounds ==
    LET first == Notice[case.limit][case.size - case.limit]
    IN state = "fitting" =>
        \/ round = 0 /\ keep = case.limit
        \/ round = 1 /\ keep = case.limit - first
        \/ round = 2 /\ keep = case.limit - first - 1

LEMMA PlainBody ==
    ASSUME NEW c, IsCall(c), c.width = 1, NEW n \in Nat
    PROVE  Body(c, n) = n
BY DEF Body, IsCall

(***************************************************************************)
(* A text of one-byte characters never falls through the loop: the third   *)
(* round fits at the latest.                                               *)
(***************************************************************************)
THEOREM PlainTextIsShown ==
    ASSUME NEW longest, Calls, Plain, NoticeGrowsSlowly(longest)
    PROVE  Spec => []TextIsShown
<1> DEFINE Inv == case \in Case /\ keep \in Nat /\ PlainRounds /\ TextIsShown
<1>1. Init => Inv
  BY DEF Init, PlainRounds, TextIsShown, Calls, IsCall
<1>2. Inv /\ [Next]_vars => Inv'
  <2> SUFFICES ASSUME Inv, [Next]_vars PROVE Inv'
    OBVIOUS
  <2>0. /\ IsCall(case) /\ Body(case, keep) = keep
        /\ case.limit \in Nat /\ case.size \in Nat /\ case.size > case.limit
    BY PlainBody DEF Calls, Plain, IsCall
  <2>1. CASE Fits
    BY <2>1 DEF Fits, PlainRounds, TextIsShown
  <2>2. CASE Shrinks
    <3> DEFINE len(d) == Notice[case.limit][d]
               first == case.size - case.limit
    <3>1. /\ first \in Nat /\ len(first) \in Nat /\ len(first) <= longest
          /\ longest \in Nat /\ longest < case.limit
      BY <2>0 DEF NoticeGrowsSlowly, IsCall
    <3>2. keep <= case.limit
      BY <2>0, <2>2, <3>1 DEF PlainRounds, Shrinks
    <3>3. \A e \in 0..case.size : first <= e /\ e <= first + longest + 1 =>
              len(e) \in Nat /\ len(first) <= len(e) /\ len(e) <= len(first) + 1
      BY <2>0, <3>1 DEF NoticeGrowsSlowly, IsCall
    <3>4. /\ case' = case /\ state' = state /\ round' = round + 1
          /\ keep' \in Nat
          /\ keep + len(case.size - keep) > case.limit
          /\ keep' = IF keep - (keep + len(case.size - keep) - case.limit) < 0 THEN 0
                     ELSE keep - (keep + len(case.size - keep) - case.limit)
      <4>1. case.size - keep \in 0..case.size
        BY <2>0, <3>2
      <4>2. len(case.size - keep) \in Nat
        BY <2>0, <4>1 DEF IsCall
      <4>3. Total(keep) = keep + len(case.size - keep)
        BY <2>0 DEF Total, NoteFor
      <4> QED BY <2>0, <2>2, <4>2, <4>3 DEF Shrinks
    <3>5. CASE round = 0
      <4>1. keep = case.limit
        BY <2>2, <3>5 DEF Shrinks, PlainRounds
      <4>2. keep' = case.limit - len(first)
        BY <2>0, <3>1, <3>4, <4>1
      <4> QED BY <3>4, <3>5, <4>2 DEF PlainRounds, TextIsShown
    <3>6. CASE round = 1
      <4>1. keep = case.limit - len(first)
        BY <2>2, <3>6 DEF Shrinks, PlainRounds
      <4>2. case.size - keep = first + len(first)
        BY <2>0, <3>1, <4>1
      <4>3. /\ first + len(first) \in 0..case.size
            /\ len(first + len(first)) \in Nat
            /\ len(first + len(first)) <= len(first) + 1
        BY <2>0, <3>1, <3>3
      <4>4. keep' = case.limit - len(first) - 1
        BY <2>0, <3>1, <3>4, <4>1, <4>2, <4>3
      <4> QED BY <3>4, <3>6, <4>4 DEF PlainRounds, TextIsShown
    <3>7. CASE round = 2
      <4>1. keep = case.limit - len(first) - 1
        BY <2>2, <3>7 DEF Shrinks, PlainRounds
      <4>2. case.size - keep = first + len(first) + 1
        BY <2>0, <3>1, <4>1
      <4>3. /\ first + len(first) + 1 \in 0..case.size
            /\ len(first + len(first) + 1) \in Nat
            /\ len(first + len(first) + 1) <= len(first) + 1
        BY <2>0, <3>1, <3>3
      <4> QED BY <2>0, <3>1, <3>4, <4>1, <4>2, <4>3
    <3> QED BY <2>2, <3>5, <3>6, <3>7 DEF Shrinks, PlainRounds
  <2>3. CASE GivesUp
    BY <2>3 DEF GivesUp, PlainRounds, Rounds
  <2>4. CASE UNCHANGED vars
    BY <2>4 DEF vars, PlainRounds, TextIsShown
  <2> QED BY <2>1, <2>2, <2>3, <2>4 DEF Next
<1>3. Inv => TextIsShown
  OBVIOUS
<1> QED BY <1>1, <1>2, <1>3, PTL DEF Spec
=============================================================================
