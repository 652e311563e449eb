---------------------------- MODULE RunningTotals ----------------------------
(***************************************************************************)
(* What a reader of statistics can rely on when nobody stops for him: the   *)
(* totals only grow, and what he is told lies, field by field, between what *)
(* they were when he asked and what they are when he gets his answer.       *)
(***************************************************************************)
EXTENDS Naturals

CONSTANT Fields

VARIABLES now,     \* the totals of everything recorded so far
          asked,   \* what they were when the reading under way began
          answer   \* what it has told, before it is over

rtVars == <<now, asked, answer>>

Nothing      == [f \in Fields |-> 0]
AtMost(a, b) == \A f \in Fields : a[f] <= b[f]

Init == now = Nothing /\ asked = Nothing /\ answer = Nothing

Record == AtMost(now, now') /\ UNCHANGED <<asked, answer>>

Ask == asked' = now /\ UNCHANGED <<now, answer>>

Answer == /\ AtMost(asked, answer') /\ AtMost(answer', now)
          /\ UNCHANGED <<now, asked>>

Over == asked' = Nothing /\ answer' = Nothing /\ now' = now

Next == Record \/ Ask \/ Answer \/ Over

Spec == Init /\ [][Next]_rtVars
==============================================================================
