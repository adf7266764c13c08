---- MODULE MCCalendar ----
(* A one-shot event and a series that ends after two firings. *)
EXTENDS Calendar

OneShot == [every |-> 0, count |-> 1]
Twice == [every |-> 3, count |-> 2]

AllRules == {OneShot, Twice}
====
