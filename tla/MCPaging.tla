------------------------------ MODULE MCPaging ------------------------------
(* An instance of AcsClient and Detection: a click date of one record, k1,  *)
(* and a conversion date of two, read one record a page.  k3 comes right    *)
(* after its click k1; k5 a while later, of another media and program, its  *)
(* affiliate the same.                                                      *)
EXTENDS MCIngestion, AcsClient, Detection

CONSTANTS k5, b3, m1, m2, p1, p2, x1, none

MCKeyOf == k1 :> b1 @@ k3 :> b2 @@ k5 :> b3
MCDayOf == b1 :> d1 @@ b2 :> d2 @@ b3 :> d2
MCOrder == k1 :> 0 @@ k5 :> 1 @@ k3 :> 2

MCClientOf == [b \in Bucket |-> x1]
MCMediaOf == [b \in Bucket |-> IF b = b2 THEN m1 ELSE m2]
MCProgramOf == [b \in Bucket |-> IF b = b2 THEN p1 ELSE p2]
MCAt == k1 :> 28 @@ k3 :> 10 @@ k5 :> 30
MCClickAt == k1 :> none @@ k3 :> 9 @@ k5 :> 5
MCLinks == {<<k1, k3>>}
MCAffiliateOf == [c \in Rec |-> x1]
MCRewardOf == [c \in Rec |-> IF c = k5 THEN 3 ELSE 2]
MCClickDay == [d \in {d2} |-> d1]

(* The first has all rules, the second those of spread for browsers, the   *)
(* third bursts and slow conversions outside of data centres.              *)
MCRuleSets ==
  { [conversions |-> 3, media |-> 2, programs |-> 2, burst |-> 2, window |-> 5,
     min |-> 2, max |-> 20, browserOnly |-> FALSE, excludeDatacenter |-> FALSE],
    [conversions |-> 4, media |-> 2, programs |-> 3, burst |-> 1, window |-> 0,
     min |-> none, max |-> none, browserOnly |-> TRUE, excludeDatacenter |-> FALSE],
    [conversions |-> 2, media |-> 3, programs |-> 3, burst |-> 1, window |-> 4,
     min |-> none, max |-> 24, browserOnly |-> FALSE, excludeDatacenter |-> TRUE] }
=============================================================================
