------------------------------- MODULE Runtime -------------------------------
(***************************************************************************)
(* The generated boundary code at call time: the native entry points that  *)
(* gen_native_vm_fn emits for static and instance methods (lines 789-853), *)
(* the ClassObject pair _constructor / _destructor (lines 1408-1468), and  *)
(* the instance lookup of Slottable::get (lines 1394-1400) through which   *)
(* object parameters are read.                                             *)
(*                                                                         *)
(* A native call is three steps of its thread: entering (user data copied *)
(* out, Weak::upgrade, set_hook(no-op), borrow, receiver and class looked   *)
(* up), the marshaling function's outcome, and the exit (take_hook,         *)
(* user data written back).  The outcome is the one of MarshalOutcome: a   *)
(* normal return or script-level abort, or a panic.  The panic hook is     *)
(* process-wide, so the threads of the host that each run a VM share it.   *)
(* Each VM object is a foreign storage holding a ForeignObject whose       *)
(* pointer owns one boxed instance.                                        *)
(***************************************************************************)
EXTENDS Naturals, FiniteSets

CONSTANTS
    Threads,   \* host threads, each running its own VM
    Objs,      \* foreign objects (Wren instances of the class)
    NoObj      \* no receiver object (static methods)

ASSUME RuntimeAssumption == NoObj \notin Objs /\ Threads # {}

VARIABLES
    hook,      \* the process's panic hook: "host" (installed by the host), "default", "noop"
    process,   \* "running", or how a panic out of an extern "C" fn ended it
    printed,   \* a panic message reached the terminal during a native call
    call,      \* call[t]: the native call thread t is in
    storage,   \* storage[o]: the VM's foreign storage of o: "none", "live", "finalized"
    ptr,       \* ptr[o]: ForeignObject.object of o is non-null
    box,       \* box[o]: the boxed instance of o: "none", "alloc", "freed"
    frees,     \* frees[o]: how many times Box::from_raw dropped o's box
    owner      \* owner[o]: the thread whose VM holds o

vars == <<hook, process, printed, call, storage, ptr, box, frees, owner>>

Hooks     == {"host", "default", "noop"}
CallKinds == {"static", "instance", "ctor"}

Idle == [pc |-> "idle", kind |-> "static", recv |-> NoObj, args |-> {}, hookAtEntry |-> "default"]

CallRec == [pc : {"idle", "in"}, kind : CallKinds, recv : Objs \cup {NoObj},
            args : SUBSET Objs, hookAtEntry : Hooks]

InCall(t) == call[t].pc = "in"

\* An object is reachable while a call holds it in a slot.
Reachable(o) == \E t \in Threads : InCall(t) /\ (o = call[t].recv \/ o \in call[t].args)

\* The live objects of thread t's VM: those an argument slot can hold.  This
\* is the VM's guarantee (a slot never refers to a finalized object), not
\* a check of the generated code.
LiveOf(t) == {o \in Objs : storage[o] = "live" /\ owner[o] = t}

Init ==
    /\ hook \in {"host", "default"}
    /\ process = "running"
    /\ printed = FALSE
    /\ call = [t \in Threads |-> Idle]
    /\ storage = [o \in Objs |-> "none"]
    /\ ptr = [o \in Objs |-> FALSE]
    /\ box = [o \in Objs |-> "none"]
    /\ frees = [o \in Objs |-> 0]
    /\ owner = [o \in Objs |-> CHOOSE t \in Threads : TRUE]

-----------------------------------------------------------------------------
\* Mutant of Enter: _constructor initialises the foreign storage the slot
\* already holds (wrenGetSlotForeign for wrenSetSlotNewForeign), which may
\* be that of an object already finalized.
EnterCtorOnFinalized(t, k, r, A) ==
    /\ process = "running"
    /\ ~InCall(t)
    /\ A \subseteq LiveOf(t)
    /\ \/ k = "static" /\ r = NoObj
       \/ k = "instance" /\ r \in LiveOf(t)
       \/ /\ k = "ctor"
          /\ r \in Objs
          /\ storage[r] # "live"
          /\ ~\E u \in Threads : InCall(u) /\ call[u].recv = r
    /\ hook' = "noop"
    /\ call' = [call EXCEPT ![t] = [pc |-> "in", kind |-> k, recv |-> r, args |-> A,
                                    hookAtEntry |-> hook]]
    /\ UNCHANGED <<process, printed, storage, ptr, box, frees, owner>>

\* The entry of native_vm_f / _constructor up to the marshaling function:
\* read_unaligned of the UserData, Weak::upgrade, set_hook(Box::new(|_| {}))
\* (the hook it replaces is dropped), vm.borrow(); for an instance method
\* get_slot_foreign_mut(0) (the VM dispatches it on a live object of the
\* class); use_class_mut.  The object parameters are the live objects of
\* this VM that the argument slots hold (get_slot_object -> Slottable::get
\* -> get_slot_foreign(slot)).  A constructor's receiver is the object the
\* VM is allocating.
Enter(t, k, r, A) ==
    /\ process = "running"
    /\ ~InCall(t)
    /\ A \subseteq LiveOf(t)
    /\ \/ k = "static" /\ r = NoObj
       \/ k = "instance" /\ r \in LiveOf(t)
       \/ /\ k = "ctor"
          /\ r \in Objs
          /\ storage[r] = "none"
          /\ ~\E u \in Threads : InCall(u) /\ call[u].recv = r
    /\ hook' = "noop"
    /\ call' = [call EXCEPT ![t] = [pc |-> "in", kind |-> k, recv |-> r, args |-> A,
                                    hookAtEntry |-> hook]]
    /\ UNCHANGED <<process, printed, storage, ptr, box, frees, owner>>

\* `drop(take_hook())` then write_unaligned of the UserData: the hook left
\* installed is the default one.
ExitHook == hook' = "default"

\* A method's marshaling function returned (a value in slot 0, or a
\* script-level abort of the fiber).
Return(t) ==
    /\ process = "running"
    /\ InCall(t)
    /\ call[t].kind # "ctor"
    /\ ExitHook
    /\ call' = [call EXCEPT ![t] = Idle]
    /\ UNCHANGED <<process, printed, storage, ptr, box, frees, owner>>

\* create() returned Ok(object): wrenSetSlotNewForeign allocates the foreign
\* storage and ForeignObject { object: Box::into_raw(Box::new(object)) } is
\* written into it.
CtorOk(t) ==
    LET o == call[t].recv IN
    /\ process = "running"
    /\ InCall(t)
    /\ call[t].kind = "ctor"
    /\ storage' = [storage EXCEPT ![o] = "live"]
    /\ ptr' = [ptr EXCEPT ![o] = TRUE]
    /\ box' = [box EXCEPT ![o] = "alloc"]
    /\ owner' = [owner EXCEPT ![o] = t]
    /\ ExitHook
    /\ call' = [call EXCEPT ![t] = Idle]
    /\ UNCHANGED <<process, printed, frees>>

\* create() returned Err(msg): set_slot_string(0, msg); abort_fiber(0).  No
\* storage is allocated and no box is made.
CtorErr(t) ==
    /\ process = "running"
    /\ InCall(t)
    /\ call[t].kind = "ctor"
    /\ ExitHook
    /\ call' = [call EXCEPT ![t] = Idle]
    /\ UNCHANGED <<process, printed, storage, ptr, box, frees, owner>>

\* A panic inside the call (the class lookup, the method body, the return
\* conversion).  The hook installed
\* at that moment reports it unless it is the no-op one.  Nothing catches
\* the unwind (catch_unwind is imported in _constructor but never called):
\* it reaches the extern "C" boundary, where the build either aborts the
\* process (Rust >= 1.81) or unwinds into the C frames of the VM, which is
\* undefined behaviour.
Panic(t) ==
    /\ process = "running"
    /\ InCall(t)
    /\ process' \in {"aborted", "undefined"}
    /\ printed' = (printed \/ hook # "noop")
    /\ UNCHANGED <<hook, call, storage, ptr, box, frees, owner>>

\* Mutant of Destructor: the null pointer is not written back, so the
\* ForeignObject in VM storage keeps the freed pointer.
DestructorKeepPtr(o) ==
    /\ process = "running"
    /\ storage[o] \in {"live", "finalized"}
    /\ ~Reachable(o)
    /\ IF ptr[o] THEN /\ box' = [box EXCEPT ![o] = "freed"]
                      /\ frees' = [frees EXCEPT ![o] = frees[o] + 1]
                 ELSE UNCHANGED <<box, frees>>
    /\ storage' = [storage EXCEPT ![o] = "finalized"]
    /\ UNCHANGED <<hook, process, printed, call, ptr, owner>>

\* Mutant of Destructor: the pointer is nulled without Box::from_raw.
DestructorNoFree(o) ==
    /\ process = "running"
    /\ storage[o] \in {"live", "finalized"}
    /\ ~Reachable(o)
    /\ ptr' = [ptr EXCEPT ![o] = FALSE]
    /\ storage' = [storage EXCEPT ![o] = "finalized"]
    /\ UNCHANGED <<hook, process, printed, call, box, frees, owner>>

\* _destructor(data), called by the VM on an unreachable foreign object:
\* read_unaligned the ForeignObject; if its pointer is non-null, drop the
\* box; set the pointer to null and write_unaligned it back.  The VM may
\* hand the same storage to it again (spec section 8): the null pointer
\* makes that a no-op.
Destructor(o) ==
    /\ process = "running"
    /\ storage[o] \in {"live", "finalized"}
    /\ ~Reachable(o)
    /\ IF ptr[o] THEN /\ box' = [box EXCEPT ![o] = "freed"]
                      /\ frees' = [frees EXCEPT ![o] = frees[o] + 1]
                 ELSE UNCHANGED <<box, frees>>
    /\ ptr' = [ptr EXCEPT ![o] = FALSE]
    /\ storage' = [storage EXCEPT ![o] = "finalized"]
    /\ UNCHANGED <<hook, process, printed, call, owner>>

\* The host installs its own panic hook (std::panic::set_hook) between or
\* during VM calls of other threads.
SetHostHook ==
    /\ process = "running"
    /\ hook # "host"
    /\ hook' = "host"
    /\ UNCHANGED <<process, printed, call, storage, ptr, box, frees, owner>>

Next ==
    \/ \E t \in Threads :
          \/ \E k \in CallKinds, r \in Objs \cup {NoObj}, A \in SUBSET Objs : Enter(t, k, r, A)
          \/ Return(t) \/ CtorOk(t) \/ CtorErr(t) \/ Panic(t)
    \/ \E o \in Objs : Destructor(o)
    \/ SetHostHook

Spec == Init /\ [][Next]_vars

-----------------------------------------------------------------------------
(* Properties                                                              *)

TypeOK ==
    /\ hook \in Hooks
    /\ process \in {"running", "aborted", "undefined"}
    /\ printed \in BOOLEAN
    /\ call \in [Threads -> CallRec]
    /\ storage \in [Objs -> {"none", "live", "finalized"}]
    /\ ptr \in [Objs -> BOOLEAN]
    /\ box \in [Objs -> {"none", "alloc", "freed"}]
    /\ frees \in [Objs -> Nat]
    /\ owner \in [Objs -> Threads]

\* _destructor drops an instance's box at most once, however often the VM
\* finalizes the storage (the null written back makes a repeat a no-op).
NoDoubleFree == \A o \in Objs : frees[o] <= 1

\* Box ownership across _constructor and _destructor: an object's storage
\* is live exactly while its ForeignObject points to an allocated box, so
\* no live object points to a freed box, no finalized one keeps its box
\* alive (no leak), and a failed constructor leaves neither storage nor box.
BoxOwnership ==
    \A o \in Objs :
        /\ storage[o] = "live" <=> (ptr[o] /\ box[o] = "alloc")
        /\ box[o] = "alloc" => ptr[o]

\* The objects a native call holds: its object arguments and, for an
\* instance method, the receiver whose instance it borrows as &mut.
Held(t) == call[t].args \cup (IF call[t].kind = "instance" THEN {call[t].recv} ELSE {})

\* Spec 4.4 step 5, section 7 and section 8: a panic inside a native call
\* is caught at the boundary and the host process survives.
PanicContained == process = "running"

\* Spec 4.4 step 4: when a native call returns, the panic reporter that was
\* installed before the call is back in place (checked on calls during
\* which no other thread was inside a native call).
HookRestored ==
    [][\A t \in Threads :
          (/\ InCall(t) /\ ~InCall(t)'
           /\ \A u \in Threads \ {t} : ~InCall(u))
          => hook' = call[t].hookAtEntry]_vars

\* Spec 4.4 step 3: a panic inside a native call is not reported on the
\* terminal (the no-op hook is installed for the duration of the call).
SilentPanics == ~printed

\* Spec section 5: during an instance method the receiver's instance, held
\* as &mut by the wrapper, is not also reached through an object parameter.
NoMutableAlias ==
    \A t \in Threads :
        (InCall(t) /\ call[t].kind = "instance") => call[t].recv \notin call[t].args
=============================================================================
