--------------------------- MODULE ForeignLifecycle ---------------------------
(***************************************************************************)
(* What ClassObject's _constructor / _destructor pair and the native entry *)
(* points promise about the boxed instance of each foreign object (spec    *)
(* 4.4 and section 8), whatever the threads and the collector do:          *)
(*   - an instance is boxed once, by a constructor, into a new object;     *)
(*   - it is dropped at most once, and only when no native call holds it;  *)
(*   - a native call holds only objects whose instance is live.            *)
(* Runtime implements it under the mapping of RuntimeLifecycle.            *)
(***************************************************************************)
CONSTANT Objs

VARIABLES
    life,   \* life[o]: "none" (no instance yet), "live" (boxed), "dropped"
    held    \* the objects some native call holds as receiver or argument

lvars == <<life, held>>

Live == {o \in Objs : life[o] = "live"}

Init ==
    /\ life = [o \in Objs |-> "none"]
    /\ held = {}

\* A constructor boxes the instance of a new object; the constructor's call
\* ends with it, releasing the object arguments it held.
Alloc(o) ==
    /\ life[o] = "none"
    /\ life' = [life EXCEPT ![o] = "live"]
    /\ held' \subseteq held

\* The instance of an object no call holds is dropped.
Drop(o) ==
    /\ life[o] = "live"
    /\ o \notin held
    /\ life' = [life EXCEPT ![o] = "dropped"]
    /\ UNCHANGED held

\* Native calls start and end: what they hold are live instances.
Use ==
    /\ held' \subseteq Live
    /\ UNCHANGED life

Next == (\E o \in Objs : Alloc(o) \/ Drop(o)) \/ Use

Spec == Init /\ [][Next]_lvars
=============================================================================
