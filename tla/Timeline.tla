----------------------------- MODULE Timeline -----------------------------
(***************************************************************************)
(* What a session's history promises its user, abstractly: a line of       *)
(* workspace states and the one the user is at.  A tool call adds a state  *)
(* behind the present one (giving up what was ahead of it), moves the      *)
(* present, or forgets some states.  It never invents, alters or reorders  *)
(* a past state, and never forgets the first one.                          *)
(***************************************************************************)
EXTENDS Naturals, Sequences

CONSTANT States

VARIABLES
  line,  \* the workspace states, oldest first
  now    \* position of the present state

Init == line \in [1 .. 1 -> States] /\ now = 1

Add == /\ \E s \in States : line' = Append(SubSeq(line, 1, now), s)
       /\ now' = now + 1

Move == /\ now' \in 1 .. Len(line)
        /\ line' = line

\* kept[j] is the old position of the j-th state that is left.
Increasing(kept) == \A i, j \in DOMAIN kept : i < j => kept[i] < kept[j]

\* The present stays where it is if it is kept, else it is the next state kept.
Forget ==
  \E n \in 1 .. Len(line) : \E kept \in [1 .. n -> 1 .. Len(line)] :
    /\ Increasing(kept)
    /\ kept[1] = 1
    /\ line' = [j \in 1 .. n |-> line[kept[j]]]
    /\ now' \in 1 .. n
    /\ kept[now'] >= now
    /\ now' > 1 => kept[now' - 1] < now

Next == Add \/ Move \/ Forget

Spec == Init /\ [][Next]_<<line, now>>
=============================================================================
