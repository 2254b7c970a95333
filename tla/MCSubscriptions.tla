--------------------------- MODULE MCSubscriptions ---------------------------
(* Small instances of Subscriptions for TLC.                                 *)
EXTENDS Subscriptions

CONSTANTS k1, t1

OneKey == {k1}
OneTopic == {t1}
TopicOfOne == [k \in OneKey |-> t1]

=============================================================================
