---------------------------- MODULE MCDemoHistory ----------------------------
EXTENDS DemoHistory, TLC

CONSTANTS c1, r1, r2, ebs, eip

MCDefaultDays == [d \in Detector |-> IF d = ebs THEN 1 ELSE 2]
MCDaysBefore == <<7, 4, 2>>
Symmetry == Permutations(Request)
===============================================================================
