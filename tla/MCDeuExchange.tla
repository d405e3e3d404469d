---------------------------- MODULE MCDeuExchange ----------------------------
(* Small instances of DeuExchange.                                          *)
EXTENDS DeuExchange

CONSTANTS p1, p2, s1, s2, q1, c1

OnePublisher  == {p1}
TwoPublishers == {p1, p2}
OneSync  == {s1}
TwoSync  == {s1, s2}
OnePoll  == {q1}
OneCb    == {c1}
None     == {}
Zeroed   == {FALSE}
Recycled == {FALSE, TRUE}
==============================================================================
