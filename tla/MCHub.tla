-------------------------------- MODULE MCHub --------------------------------
(* Small instances of Hub for TLC.                                          *)
EXTENDS Hub, TLC

CONSTANTS c1, c2, c3, u1, u2, d1, r1, r2, k1, k2, s1

MCUserTopic == [u \in User |-> <<"user", u>>]
MCDeviceTopic == [p \in User \X Device |-> <<"device", p[1], p[2]>>]
MCTopic == Room \cup {<<"user", u>> : u \in User}
              \cup {<<"device", p[1], p[2]>> : p \in User \X Device}
\* Every topic hashes into one slot: collisions only cost a second authorize.
MCSlotOf == [t \in MCTopic |-> s1]

\* Connections are told apart only by what happens to them.
Symmetry == Permutations(Conn)
=============================================================================
