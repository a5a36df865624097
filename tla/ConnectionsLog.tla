--------------------------- MODULE ConnectionsLog ---------------------------
(***************************************************************************)
(* What the register of connections promises to those who show it: a list  *)
(* of connections with consecutive numbers, which grows at its end, loses  *)
(* only from its front and only what it has no room for, whose entries     *)
(* only move forward, and which may be emptied when it is long.            *)
(***************************************************************************)
EXTENDS Integers, Sequences

CONSTANTS
    Size,       \* what the list can hold
    CleanAbove  \* it may be emptied when it holds more

VARIABLES
    recent,     \* the connections, the oldest first
    untracked   \* number of those that are no longer listed

Consecutive(s) == \A i \in 1..(Len(s) - 1) : s[i + 1].id = s[i].id + 1

\* An entry is of the same connection, as far or further
Follows(new, old) ==
    /\ new.id = old.id
    /\ new.bytes >= old.bytes
    /\ old.closed => new.closed

Init == recent = <<>> /\ untracked = 0

\* Entries move forward, new ones come at the end, and those that leave at the
\* front, or find no room at all, are counted.
Advance ==
    LET gone == untracked' - untracked IN
    /\ gone >= 0 /\ Len(recent') <= Size
    /\ gone > 0 => Len(recent') = Size
    /\ Len(recent') >= Len(recent) - gone
    /\ \A i \in 1..Len(recent) : i > gone => Follows(recent'[i - gone], recent[i])
    /\ recent # <<>> => recent'[1].id = recent[1].id + gone
    /\ Consecutive(recent')

Clear ==
    /\ Len(recent) > CleanAbove
    /\ recent' = <<>> /\ untracked' = 0

Next == Advance \/ Clear

LogSpec == Init /\ [][Next]_<<recent, untracked>>
=============================================================================
