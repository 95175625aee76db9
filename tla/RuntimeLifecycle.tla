--------------------------- MODULE RuntimeLifecycle ---------------------------
(***************************************************************************)
(* The refinement mapping from Runtime to ForeignLifecycle: an object's    *)
(* life is the state of its box, and the held objects are those some call  *)
(* in progress holds (Held: the object arguments, and an instance method's *)
(* receiver).                                                              *)
(***************************************************************************)
EXTENDS Runtime

LifeOf == [o \in Objs |-> IF box[o] = "alloc" THEN "live"
                          ELSE IF box[o] = "freed" THEN "dropped" ELSE "none"]

HeldObjs == {o \in Objs : \E t \in Threads : InCall(t) /\ o \in Held(t)}

Lifecycle == INSTANCE ForeignLifecycle WITH life <- LifeOf, held <- HeldObjs

\* The boundary code keeps the lifecycle contract: every step of the entry
\* points, _constructor, _destructor and the collector is an allocation of
\* a new instance, a drop of an unheld live one, a change of what the calls
\* hold among live instances, or leaves both unchanged.
LifecycleSpec == Lifecycle!Spec
=============================================================================
