---------------------------- MODULE MCPostgresBus ----------------------------
(* Small instances of PostgresBus for TLC.                                  *)
EXTENDS PostgresBus, TLC

CONSTANTS n1, n2

TwoNodes == {n1, n2}

\* n1 publishes, n2 listens and may lose its connection.
PublishFirst(k) == [n \in TwoNodes |-> IF n = n1 THEN k ELSE 0]
LoseSecond(k) == [n \in TwoNodes |-> IF n = n2 THEN k ELSE 0]
Publish1 == PublishFirst(1)
Lose2 == LoseSecond(2)

\* n1 calls a device that n2 holds.
CallFirst == PublishFirst(1)
HolderSecond == {n2}

=============================================================================
