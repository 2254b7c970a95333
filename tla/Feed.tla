-------------------------------- MODULE Feed --------------------------------
(* What a channel subscription promises the code that reads it: nothing is    *)
(* persisted or replayed, but a reader that misses something is told.  Each   *)
(* reader follows one stream of published messages.  Between two notices the  *)
(* messages it is handed are consecutive; a jump, forward only, comes with a  *)
(* notice.                                                                    *)
EXTENDS Naturals

CONSTANT Reader

VARIABLES
    published,   \* published[r]: how many messages r's stream has had so far
    started,     \* the readers whose subscription has been acknowledged once
    at,          \* at[r]: the last message r has been handed or told about
    told         \* told[r]: flips with every notice of a gap

feedVars == <<published, started, at, told>>

FeedInit ==
    /\ published \in [Reader -> Nat]
    /\ started = {}
    /\ at = [r \in Reader |-> 0]
    /\ told = [r \in Reader |-> FALSE]

\* r is handed nothing.
Quiet(r) == at'[r] = at[r] /\ told'[r] = told[r]

\* r is handed the message after the last one it knows of.
Message(r) ==
    /\ r \in started
    /\ at'[r] = at[r] + 1
    /\ told'[r] = told[r]

\* r is told that it may have missed messages, and may be handed a later one.
Gap(r) ==
    /\ r \in started
    /\ at'[r] >= at[r]
    /\ told'[r] # told[r]

\* r's subscription is acknowledged for the first time: it reads from there on.
Start(r) ==
    /\ r \notin started
    /\ r \in started'
    /\ told'[r] = told[r]

FeedNext ==
    \A r \in Reader :
        /\ Quiet(r) \/ Message(r) \/ Gap(r) \/ Start(r)
        /\ r \in started => r \in started'
        /\ published'[r] >= published[r]
        /\ at'[r] <= published'[r]

FeedSpec == FeedInit /\ [][FeedNext]_feedVars

=============================================================================
