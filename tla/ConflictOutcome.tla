--------------------------- MODULE ConflictOutcome ---------------------------
(***************************************************************************)
(* What resolving a conflicted path promises of the index: a resolution    *)
(* either replaces the very conflict it was made for, in one step that     *)
(* touches nothing else, or it is refused and changes nothing.  Other git  *)
(* processes change the index meanwhile.                                   *)
(***************************************************************************)
EXTENDS Naturals

CONSTANTS Resolver, Conflict, Elsewhere

VARIABLES
    stage,    \* of the path: Conflict, the resolver that resolved it, or Elsewhere
    rest,     \* version of the other entries
    outcome   \* of every resolution

Init ==
    /\ stage = Conflict /\ rest = 0
    /\ outcome = [r \in Resolver |-> "working"]

Resolve(r) ==
    /\ outcome[r] = "working" /\ stage = Conflict
    /\ stage' = r
    /\ outcome' = [outcome EXCEPT ![r] = "resolved"]
    /\ UNCHANGED rest

Refuse(r) ==
    /\ outcome[r] = "working"
    /\ outcome' = [outcome EXCEPT ![r] = "failed"]
    /\ UNCHANGED <<stage, rest>>

ForeignUpdate ==
    /\ \/ stage' = Elsewhere /\ UNCHANGED rest
       \/ rest' = rest + 1 /\ UNCHANGED stage
    /\ UNCHANGED outcome

Next == ForeignUpdate \/ \E r \in Resolver : Resolve(r) \/ Refuse(r)

Spec == Init /\ [][Next]_<<stage, rest, outcome>>
=============================================================================
