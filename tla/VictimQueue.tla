---------------------------- MODULE VictimQueue ----------------------------
(***************************************************************************)
(* What conv_ftl.c expects of the priority queue of victim lines, and what *)
(* ConvFTL assumes of it: a set of lines with a number of valid pages      *)
(* each, whose smallest member can be taken out.                           *)
(***************************************************************************)
EXTENDS Naturals

CONSTANTS Lines, Pri

VARIABLES members,  \* the lines in the queue
          vpc,      \* line -> its number of valid pages while it is queued, else 0
          popped    \* the line taken out last

QueueInit == members = {} /\ vpc = [l \in Lines |-> 0] /\ popped = {}

Insert ==
  \E l \in Lines \ members :
    /\ members' = members \cup {l}
    /\ \E p \in Pri : vpc' = [vpc EXCEPT ![l] = p]
    /\ popped' = {}

ChangePriority ==
  \E l \in members, p \in Pri :
    vpc' = [vpc EXCEPT ![l] = p] /\ members' = members /\ popped' = {}

Pop ==
  \E l \in members :
    /\ \A m \in members : vpc[l] <= vpc[m]
    /\ members' = members \ {l} /\ vpc' = [vpc EXCEPT ![l] = 0] /\ popped' = {l}

Remove ==
  \E l \in members : members' = members \ {l} /\ vpc' = [vpc EXCEPT ![l] = 0] /\ popped' = {}

QueueNext == Insert \/ ChangePriority \/ Pop \/ Remove

QueueSpec == QueueInit /\ [][QueueNext]_<<members, vpc, popped>>
=============================================================================
