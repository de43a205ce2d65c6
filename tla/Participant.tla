---------------------------- MODULE Participant ----------------------------
(***************************************************************************)
(* What one participant (payment, inventory or shipping) promises a saga,  *)
(* without commands, keys, receipts, locks, transactions or a provider: an *)
(* order's step takes effect at most once, is undone at most once, and     *)
(* nothing the participant has told is ever made untrue.                   *)
(***************************************************************************)

CONSTANT Orders

VARIABLES
  effect,   \* order -> how far its step has come
  told      \* order -> the definitive results given out

vars == <<effect, told>>

(* `void`: undone without ever having been done.                            *)
Effects == {"none", "void", "done", "undone", "final"}
Tellings == {"DONE", "REFUSED", "UNDONE", "FINAL"}

Follows ==
  [none   |-> {"none", "void", "done"},
   void   |-> {"void"},
   done   |-> {"done", "undone", "final"},
   undone |-> {"undone"},
   final  |-> {"final"}]

(* What may be told of a step that has come so far.                         *)
TrueOf ==
  [none   |-> {"REFUSED"},
   void   |-> {"REFUSED", "UNDONE"},
   done   |-> {"DONE"},
   undone |-> {"DONE", "UNDONE"},
   final  |-> {"DONE", "FINAL"}]

Init ==
  /\ effect = [o \in Orders |-> "none"]
  /\ told = [o \in Orders |-> {}]

(* The step moves on, unless it was refused, and results are given out that *)
(* are true of where it then stands.                                        *)
Step(o) ==
  /\ \E next \in Follows[effect[o]] :
       /\ next = "done" => "REFUSED" \notin told[o]
       /\ effect' = [effect EXCEPT ![o] = next]
  /\ \E results \in SUBSET TrueOf[effect'[o]] :
       told' = [told EXCEPT ![o] = @ \cup results]

Next == \E o \in Orders : Step(o)

Spec == Init /\ [][Next]_vars
=============================================================================
