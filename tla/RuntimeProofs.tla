---------------------------- MODULE RuntimeProofs ----------------------------
(***************************************************************************)
(* Proofs about Runtime, the generated boundary code at call time, for     *)
(* every set of threads and objects: its type invariant, and that          *)
(* _constructor / _destructor manage each instance's box soundly: it is    *)
(* freed at most once (NoDoubleFree) and is allocated exactly while the    *)
(* object's storage is live (BoxOwnership); and that the boundary          *)
(* implements the ForeignLifecycle contract.                               *)
(***************************************************************************)
EXTENDS RuntimeLifecycle, TLAPS

USE RuntimeAssumption

LEMMA TypeInit == Init => TypeOK
<1> SUFFICES ASSUME Init PROVE TypeOK
    OBVIOUS
<1>1. Idle \in CallRec
    BY DEF Idle, CallRec, CallKinds, Hooks
<1>2. (CHOOSE t \in Threads : TRUE) \in Threads
    OBVIOUS
<1>3. hook \in Hooks
    BY DEF Init, Hooks
<1> QED
    BY <1>1, <1>2, <1>3 DEF Init, TypeOK

LEMMA TypeStep == TypeOK /\ [Next]_vars => TypeOK'
<1> SUFFICES ASSUME TypeOK, [Next]_vars PROVE TypeOK'
    OBVIOUS
<1>1. ASSUME NEW t \in Threads, NEW k \in CallKinds, NEW r \in Objs \cup {NoObj},
             NEW A \in SUBSET Objs, Enter(t, k, r, A)
      PROVE  TypeOK'
    <2>1. [pc |-> "in", kind |-> k, recv |-> r, args |-> A, hookAtEntry |-> hook] \in CallRec
        BY DEF TypeOK, CallRec
    <2> QED
        BY <1>1, <2>1 DEF Enter, TypeOK, Hooks
<1>2. ASSUME NEW t \in Threads, Return(t) \/ CtorErr(t)
      PROVE  TypeOK'
    <2>1. Idle \in CallRec
        BY DEF Idle, CallRec, CallKinds, Hooks
    <2> QED
        BY <1>2, <2>1 DEF Return, CtorErr, ExitHook, TypeOK, Hooks
<1>3. ASSUME NEW t \in Threads, CtorOk(t) PROVE TypeOK'
    <2>1. call[t].recv \in Objs \cup {NoObj}
        BY DEF TypeOK, CallRec
    <2>2. Idle \in CallRec
        BY DEF Idle, CallRec, CallKinds, Hooks
    <2> QED
        BY <1>3, <2>1, <2>2 DEF CtorOk, ExitHook, TypeOK, CallRec, Hooks
<1>4. ASSUME NEW t \in Threads, Panic(t) PROVE TypeOK'
    BY <1>4 DEF Panic, TypeOK
<1>5. ASSUME NEW o \in Objs, Destructor(o) PROVE TypeOK'
    BY <1>5 DEF Destructor, TypeOK
<1>6. CASE SetHostHook
    BY <1>6 DEF SetHostHook, TypeOK, Hooks
<1>7. CASE UNCHANGED vars
    BY <1>7 DEF vars, TypeOK
<1> QED
    BY <1>1, <1>2, <1>3, <1>4, <1>5, <1>6, <1>7 DEF Next

\* Runtime's variables stay in their types.
THEOREM TypeCorrect == Spec => []TypeOK
BY TypeInit, TypeStep, PTL DEF Spec

-----------------------------------------------------------------------------
\* NoDoubleFree and BoxOwnership are not inductive alone.  The destructor
\* frees when the pointer is non-null, so the pointer must be non-null only
\* while the box is allocated (and frees counts exactly the freed box); a
\* constructor allocates its receiver's box, so a constructor call in
\* progress must hold an object whose storage does not exist yet, and that
\* no other call holds.

\* The ownership state of one object.
Owned(o) ==
    /\ ptr[o] <=> box[o] = "alloc"
    /\ storage[o] = "live" <=> box[o] = "alloc"
    /\ storage[o] = "none" => box[o] = "none"
    /\ frees[o] = IF box[o] = "freed" THEN 1 ELSE 0

\* A constructor call in progress owns a receiver not yet allocated.
CtorPending(t) ==
    (InCall(t) /\ call[t].kind = "ctor") =>
        /\ call[t].recv \in Objs
        /\ storage[call[t].recv] = "none"
        /\ \A u \in Threads \ {t} : ~(InCall(u) /\ call[u].recv = call[t].recv)

IInv ==
    /\ TypeOK
    /\ \A o \in Objs : Owned(o)
    /\ \A t \in Threads : CtorPending(t)

LEMMA IInvInit == Init => IInv
BY TypeInit DEF Init, IInv, Owned, CtorPending, InCall, Idle

LEMMA IInvStep == IInv /\ [Next]_vars => IInv'
<1> SUFFICES ASSUME IInv, [Next]_vars PROVE IInv'
    OBVIOUS
<1>0. TypeOK'
    BY TypeStep DEF IInv
<1>1. ASSUME NEW t \in Threads, NEW k \in CallKinds, NEW r \in Objs \cup {NoObj},
             NEW A \in SUBSET Objs, Enter(t, k, r, A)
      PROVE  IInv'
    <2>1. \A o \in Objs : Owned(o)'
        BY <1>1 DEF Enter, IInv, Owned
    <2>2. ASSUME NEW u \in Threads PROVE CtorPending(u)'
        <3>1. CASE u = t
            BY <1>1, <3>1 DEF Enter, IInv, TypeOK, CtorPending, InCall
        <3>2. CASE u # t
            <4>1. call'[u] = call[u] /\ storage' = storage
                BY <1>1, <3>2 DEF Enter, IInv, TypeOK
            <4>2. ~InCall(t)
                BY <1>1 DEF Enter
            <4>3. InCall(u) /\ call[u].kind = "ctor" => call'[t].recv # call[u].recv
                BY <1>1, <4>2 DEF Enter, IInv, TypeOK, CtorPending, InCall, LiveOf
            <4> QED
                BY <1>1, <4>1, <4>3, <4>2 DEF Enter, IInv, TypeOK, CtorPending, InCall
        <3> QED
            BY <3>1, <3>2
    <2> QED
        BY <1>0, <2>1, <2>2 DEF IInv
<1>2. ASSUME NEW t \in Threads, Return(t) \/ CtorErr(t)
      PROVE  IInv'
    BY <1>0, <1>2 DEF Return, CtorErr, ExitHook, IInv, TypeOK, Owned, CtorPending,
                      InCall, Idle
<1>3. ASSUME NEW t \in Threads, CtorOk(t) PROVE IInv'
    <2> DEFINE o == call[t].recv
    <2>1. o \in Objs /\ storage[o] = "none" /\ box[o] = "none" /\ ~ptr[o] /\ frees[o] = 0
        BY <1>3 DEF CtorOk, IInv, CtorPending, InCall, Owned
    <2>2. \A p \in Objs : Owned(p)'
        BY <1>3, <2>1 DEF CtorOk, ExitHook, IInv, TypeOK, Owned
    <2>3. ASSUME NEW u \in Threads PROVE CtorPending(u)'
        <3>1. CASE u = t
            BY <1>3, <3>1 DEF CtorOk, IInv, TypeOK, CtorPending, InCall, Idle
        <3>2. CASE u # t
            BY <1>3, <3>2, <2>1 DEF CtorOk, IInv, TypeOK, CtorPending, InCall, Idle
        <3> QED
            BY <3>1, <3>2
    <2> QED
        BY <1>0, <2>2, <2>3 DEF IInv
<1>4. ASSUME NEW t \in Threads, Panic(t) PROVE IInv'
    BY <1>0, <1>4 DEF Panic, IInv, Owned, CtorPending, InCall
<1>5. ASSUME NEW o \in Objs, Destructor(o) PROVE IInv'
    <2>1. \A p \in Objs : Owned(p)'
        BY <1>5 DEF Destructor, IInv, TypeOK, Owned
    <2>2. \A u \in Threads : CtorPending(u)'
        BY <1>5 DEF Destructor, IInv, TypeOK, CtorPending, InCall
    <2> QED
        BY <1>0, <2>1, <2>2 DEF IInv
<1>6. CASE SetHostHook
    BY <1>0, <1>6 DEF SetHostHook, IInv, Owned, CtorPending, InCall
<1>7. CASE UNCHANGED vars
    BY <1>0, <1>7 DEF vars, IInv, Owned, CtorPending, InCall
<1> QED
    BY <1>1, <1>2, <1>3, <1>4, <1>5, <1>6, <1>7 DEF Next

LEMMA IInvOwnership == IInv => NoDoubleFree /\ BoxOwnership
BY DEF IInv, Owned, NoDoubleFree, BoxOwnership

\* _destructor drops each instance's box at most once, for any number of
\* threads, objects and finalizations (NoDoubleFree).
THEOREM DestructorFreesOnce == Spec => []NoDoubleFree
BY IInvInit, IInvStep, IInvOwnership, PTL DEF Spec

\* An object's storage is live exactly while its ForeignObject points to an
\* allocated box, for any interleaving of constructors, calls and
\* destructors (BoxOwnership).
THEOREM BoxOwned == Spec => []BoxOwnership
BY IInvInit, IInvStep, IInvOwnership, PTL DEF Spec
-----------------------------------------------------------------------------
\* The refinement needs the storage of every held object to be live: Enter
\* takes its objects from LiveOf, the collector finalizes only unreachable
\* objects, and nothing else ends a storage's life.

\* The objects a call in progress holds are objects with live storage.
HeldLive(t) == InCall(t) => \A o \in Held(t) : o \in Objs /\ storage[o] = "live"

HInv == \A t \in Threads : HeldLive(t)

LEMMA HInvInit == Init => HInv
BY DEF Init, HInv, HeldLive, InCall, Idle

LEMMA HInvStep == IInv /\ HInv /\ [Next]_vars => HInv'
<1> SUFFICES ASSUME IInv, HInv, [Next]_vars PROVE HInv'
    OBVIOUS
<1>1. ASSUME NEW t \in Threads, NEW k \in CallKinds, NEW r \in Objs \cup {NoObj},
             NEW A \in SUBSET Objs, Enter(t, k, r, A)
      PROVE  HInv'
    <2>1. HeldLive(t)'
        <3>1. Held(t)' \subseteq LiveOf(t)
            BY <1>1 DEF Enter, IInv, TypeOK, Held
        <3> QED
            BY <1>1, <3>1 DEF Enter, HeldLive, LiveOf
    <2>2. ASSUME NEW u \in Threads \ {t} PROVE HeldLive(u)'
        BY <1>1 DEF Enter, IInv, TypeOK, HInv, HeldLive, InCall, Held
    <2> QED
        BY <2>1, <2>2 DEF HInv
<1>2. ASSUME NEW t \in Threads, Return(t) \/ CtorErr(t) \/ CtorOk(t)
      PROVE  HInv'
    <2>1. HeldLive(t)'
        BY <1>2 DEF Return, CtorErr, CtorOk, IInv, TypeOK, HeldLive, InCall, Idle
    <2>2. ASSUME NEW u \in Threads \ {t} PROVE HeldLive(u)'
        <3>1. call'[u] = call[u]
            BY <1>2 DEF Return, CtorErr, CtorOk, IInv, TypeOK
        <3>2. \A o \in Objs : storage[o] = "live" => storage'[o] = "live"
            BY <1>2 DEF Return, CtorErr, CtorOk, IInv, TypeOK
        <3> QED
            BY <3>1, <3>2 DEF HInv, HeldLive, InCall, Held, IInv, TypeOK, CallRec
    <2> QED
        BY <2>1, <2>2 DEF HInv
<1>3. ASSUME NEW o \in Objs, Destructor(o) PROVE HInv'
    <2>1. \A u \in Threads : InCall(u) => o \notin Held(u)
        BY <1>3 DEF Destructor, Reachable, Held
    <2> QED
        BY <1>3, <2>1 DEF Destructor, IInv, TypeOK, HInv, HeldLive, InCall, Held, CallRec
<1>4. ASSUME NEW t \in Threads, Panic(t) PROVE HInv'
    BY <1>4 DEF Panic, HInv, HeldLive, InCall, Held
<1>5. CASE SetHostHook
    BY <1>5 DEF SetHostHook, HInv, HeldLive, InCall, Held
<1>6. CASE UNCHANGED vars
    BY <1>6 DEF vars, HInv, HeldLive, InCall, Held
<1> QED
    BY <1>1, <1>2, <1>3, <1>4, <1>5, <1>6 DEF Next

-----------------------------------------------------------------------------
(* Refinement: Runtime implements ForeignLifecycle under the mapping of     *)
(* RuntimeLifecycle.                                                       *)

LEMMA LifeInit == Init => Lifecycle!Init
BY DEF Init, Lifecycle!Init, LifeOf, HeldObjs, InCall, Idle

\* Each step of Runtime is a lifecycle step or leaves the lifecycle alone;
\* the invariants are used in both states of the step.
LEMMA LifeStep ==
    IInv /\ HInv /\ IInv' /\ HInv' /\ [Next]_vars => [Lifecycle!Next]_Lifecycle!lvars
<1> SUFFICES ASSUME IInv, HInv, IInv', HInv', [Next]_vars
             PROVE  [Lifecycle!Next]_Lifecycle!lvars
    OBVIOUS
<1>0. HeldObjs' \subseteq Lifecycle!Live'
    BY DEF IInv, HInv, HeldLive, Owned, HeldObjs, Lifecycle!Live, LifeOf
\* A step that leaves every box alone changes at most what the calls hold.
<1>u. ASSUME box' = box PROVE Lifecycle!Use
    <2>1. LifeOf' = LifeOf
        BY <1>u DEF LifeOf
    <2> QED
        BY <1>0, <2>1 DEF Lifecycle!Use, Lifecycle!Live
<1>1. ASSUME NEW t \in Threads, NEW k \in CallKinds, NEW r \in Objs \cup {NoObj},
             NEW A \in SUBSET Objs, Enter(t, k, r, A)
      PROVE  [Lifecycle!Next]_Lifecycle!lvars
    BY <1>1, <1>u DEF Enter, Lifecycle!Next
<1>2. ASSUME NEW t \in Threads, Return(t) \/ CtorErr(t) \/ Panic(t)
      PROVE  [Lifecycle!Next]_Lifecycle!lvars
    BY <1>2, <1>u DEF Return, CtorErr, Panic, Lifecycle!Next
<1>3. ASSUME NEW t \in Threads, CtorOk(t) PROVE [Lifecycle!Next]_Lifecycle!lvars
    <2> DEFINE o == call[t].recv
    <2>1. o \in Objs /\ box[o] = "none"
        BY <1>3 DEF CtorOk, IInv, CtorPending, InCall, Owned
    <2>2. LifeOf[o] = "none"
        BY <2>1 DEF LifeOf
    <2>3. LifeOf' = [LifeOf EXCEPT ![o] = "live"]
        BY <1>3, <2>1 DEF CtorOk, IInv, TypeOK, LifeOf
    <2>4. HeldObjs' \subseteq HeldObjs
        <3>1. ~InCall(t)'
            BY <1>3 DEF CtorOk, IInv, TypeOK, InCall, Idle
        <3>2. \A u \in Threads \ {t} : call'[u] = call[u]
            BY <1>3 DEF CtorOk, IInv, TypeOK
        <3> QED
            BY <3>1, <3>2 DEF HeldObjs, InCall, Held
    <2>5. Lifecycle!Alloc(o)
        BY <2>2, <2>3, <2>4 DEF Lifecycle!Alloc
    <2> QED
        BY <2>1, <2>5 DEF Lifecycle!Next
<1>4. ASSUME NEW o \in Objs, Destructor(o) PROVE [Lifecycle!Next]_Lifecycle!lvars
    <2>1. HeldObjs' = HeldObjs
        BY <1>4 DEF Destructor, HeldObjs, InCall, Held
    <2>2. CASE ptr[o]
        <3>1. LifeOf[o] = "live"
            BY <2>2 DEF IInv, Owned, LifeOf
        <3>2. o \notin HeldObjs
            BY <1>4 DEF Destructor, Reachable, HeldObjs, Held
        <3>3. LifeOf' = [LifeOf EXCEPT ![o] = "dropped"]
            <4>1. box' = [box EXCEPT ![o] = "freed"]
                BY <1>4, <2>2 DEF Destructor
            <4> QED
                BY <4>1 DEF IInv, TypeOK, LifeOf
        <3>4. Lifecycle!Drop(o)
            BY <2>1, <3>1, <3>2, <3>3 DEF Lifecycle!Drop
        <3> QED
            BY <3>4 DEF Lifecycle!Next
    <2>3. CASE ~ptr[o]
        <3>1. LifeOf' = LifeOf
            BY <1>4, <2>3 DEF Destructor, LifeOf
        <3> QED
            BY <2>1, <3>1 DEF Lifecycle!lvars
    <2> QED
        BY <2>2, <2>3
<1>5. CASE SetHostHook \/ UNCHANGED vars
    BY <1>5, <1>u DEF SetHostHook, vars, Lifecycle!Next
<1> QED
    BY <1>1, <1>2, <1>3, <1>4, <1>5 DEF Next

\* The boundary code keeps the lifecycle contract (LifecycleSpec) for every
\* set of threads and objects: each instance is boxed once into a new
\* object, dropped at most once and only when no call holds it, and every
\* object a call holds has a live instance.
THEOREM RuntimeImplementsLifecycle == Spec => LifecycleSpec
<1>1. Spec => [](IInv /\ HInv)
    BY IInvInit, IInvStep, HInvInit, HInvStep, PTL DEF Spec
<1> QED
    BY <1>1, LifeInit, LifeStep, PTL DEF Spec, LifecycleSpec, Lifecycle!Spec
=============================================================================
