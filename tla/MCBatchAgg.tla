----------------------------- MODULE MCBatchAgg -----------------------------
(* Small instances of BatchAgg: up to seven events for two batch keys, and   *)
(* bodies that hold one or two of the larger ones.                           *)
EXTENDS BatchAgg

CONSTANTS e1, e2, e3, e4, e5, e6, e7

AllSeven == {e1, e2, e3, e4, e5, e6, e7}
FirstFour == {e1, e2, e3, e4}
FirstSix == FirstFour \cup {e5, e6}

\* Two pairs of destinations with one batch key each; no URL can be made of the
\* host of badURL.
ab == [host |-> <<"h">>, key |-> <<"k">>, dataset |-> <<"a", "_", "b">>]
b == [host |-> <<"h">>, key |-> <<"k", "_", "a">>, dataset |-> <<"b">>]
c == [host |-> <<"h">>, key |-> <<"%", "_", "k">>, dataset |-> <<"c">>]
badURL == [host |-> <<"h", "_", "%">>, key |-> <<"k">>, dataset |-> <<"c">>]

AllDests == {ab, b, c, badURL}
TwoKeys ==
  [e \in Events |->
     CASE e \in {e1, e3, e4} -> ab [] e = e2 -> b [] e = e6 -> badURL [] OTHER -> c]
DestA == {ab}
OneDest == [e \in Events |-> ab]
OneURL == {badURL}

\* e4 is larger than an event may be.  A body of 15 holds one of e1, e2 and e3, in
\* JSON e1 and e2 together, with a byte over the limit, and e5 with e6.
WideSizes ==
  [e \in Events |->
     CASE e = e1 -> 7 [] e = e2 -> 6 [] e = e3 -> 8 [] e = e4 -> 16 [] OTHER -> 5]
TinySizes == [e \in Events |-> 1]
LargeSizes == [e \in Events |-> 5]

Good == {"ok"}
Failing == {"ok", "neterr"}
AllRead == AllOutcomes \ {"unreadable"}
=============================================================================
