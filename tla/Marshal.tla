------------------------------- MODULE Marshal -------------------------------
(***************************************************************************)
(* One call of the marshaling function that #[wren_impl] generates for a   *)
(* declared method (WrenImplValidFn::gen_vm_fn_body, gen_vm_fn and         *)
(* gen_vm_fn_constructor in src/ruwren-macros/src/lib.rs).                 *)
(*                                                                         *)
(* The generated body runs, in this order:                                 *)
(*   1. one InputSlot cursor per parameter position, in position order     *)
(*      (new::<T>(1, arity), then next::<T>(k, &prev));                    *)
(*   2. get_slot_value for every plain parameter, in position order;       *)
(*   3. get_slot_object for every object parameter, in position order;     *)
(*   4. the call, whose arguments are sorted back into declaration order;  *)
(*      an object argument's try_into converts Option<T> to itself, so its *)
(*      panic arm cannot run and is not modelled;                          *)
(*   5. non-constructor: WrenTo::to_vm(ret, vm, 0, 1); constructor: ret is *)
(*      returned to the caller.                                            *)
(* An extraction that yields None ends the call: a constructor returns     *)
(* Err(msg); any other method writes msg to slot 0 and aborts the fiber.   *)
(*                                                                         *)
(* Data is abstracted: a slot holds a value of Vals (extraction succeeds)  *)
(* or Mismatch (the slot does not hold the declared type); the message     *)
(* format!("failed to get value of type {} for slot {}") is the record of  *)
(* the parameter whose type it names and the slot index it names.          *)
(***************************************************************************)
EXTENDS WrenSlots, FiniteSets

VARIABLES
    fn,           \* the method descriptor: arity, kind of each position, constructor?
    slot,         \* the VM's slots 0..arity for this call
    ncalc,        \* number of InputSlot cursors built so far
    arg,          \* arg[p]: the value extracted for position p, or None
    invoked,      \* has the native method body been entered?
    callArgs,     \* the arguments the body received, in the order it received them
    ret,          \* the body's return value (constructor: the returned Result)
    status,       \* where the generated function is
    fiberAborted  \* has vm.abort_fiber(0) been called?

vars == <<fn, slot, ncalc, arg, invoked, callArgs, ret, status, fiberAborted>>

Status == {"extract", "called", "returned", "aborted", "panicked"}

n == fn.arity

PlainPositions  == {p \in Positions(n) : fn.kind[p] = "plain"}
ObjectPositions == {p \in Positions(n) : fn.kind[p] = "object"}

PendingPlain  == {p \in PlainPositions : arg[p] = None}
PendingObject == {p \in ObjectPositions : arg[p] = None}

\* `let slot_idx = idx + 1`: slot 0 is the receiver.
SlotOf(p) == p + 1

\* Mutant of ErrMsg: the message names the position, not the slot.
ErrMsgOffByOne(p) == [slot |-> p, param |-> p]

\* The message written on a failed extraction of position p.
ErrMsg(p) == [slot |-> SlotOf(p), param |-> p]

\* p is the least position of S: extraction walks a group in position order.
IsLeast(p, S) == p \in S /\ \A q \in S : p <= q

\* The number of positions of S below p.
RankIn(S, p) == Cardinality({q \in S : q < p})

\* The k-th smallest element of a finite set of positions (k >= 1).
KthOf(S, k) == CHOOSE p \in S : RankIn(S, p) = k - 1

\* The parameters of one kind as `args.iter().enumerate().partition(..)`
\* leaves them: in declaration order.
ParamSeq(S) == [j \in 1 .. Cardinality(S) |-> KthOf(S, j)]

\* `call_args`: the object parameters chained before the normal ones.
CallChain == ParamSeq(ObjectPositions) \o ParamSeq(PlainPositions)

\* `sort_by(|(a, _, _), (b, _, _)| a.cmp(b))` on distinct positions: the
\* i-th element of the result is the one with i - 1 smaller positions.
SortByPosition(s) ==
    LET keys == {s[j] : j \in 1 .. Len(s)}
    IN  [i \in 1 .. Len(s) |-> KthOf(keys, i)]

\* Mutant of CallOrder: the chain left as built (the sort_by dropped).
CallOrderUnsorted == CallChain

\* The positions in the order the call passes them.
CallOrder == SortByPosition(CallChain)

-----------------------------------------------------------------------------
Init ==
    /\ fn \in Descriptors
    /\ slot \in {s \in [0 .. fn.arity -> Vals \cup {Mismatch, Recv}] :
                    /\ s[0] = Recv
                    /\ \A i \in 1 .. fn.arity : s[i] # Recv}
    /\ ncalc = 0
    /\ arg = [p \in Positions(fn.arity) |-> None]
    /\ invoked = FALSE
    /\ callArgs = <<>>
    /\ ret = None
    /\ status = "extract"
    /\ fiberAborted = FALSE

\* Mutant of BuildCursor: one cursor too many (`<=` for `<`).
BuildCursorOffByOne ==
    /\ status = "extract"
    /\ ncalc <= n
    /\ ncalc' = ncalc + 1
    /\ UNCHANGED <<fn, slot, arg, invoked, callArgs, ret, status, fiberAborted>>

\* `let argK_calc = InputSlot::new::<T>(slot, arity)` for K = 0, and
\* `InputSlot::next::<T>(slot, &arg{K-1}_calc)` after it; the extractors
\* are sorted by position before they are emitted.
BuildCursor ==
    /\ status = "extract"
    /\ ncalc < n
    /\ ncalc' = ncalc + 1
    /\ UNCHANGED <<fn, slot, arg, invoked, callArgs, ret, status, fiberAborted>>

\* get_slot_value / get_slot_object returned Some(v).
ExtractOk(p) ==
    /\ slot[SlotOf(p)] \in Vals
    /\ arg' = [arg EXCEPT ![p] = slot[SlotOf(p)]]
    /\ UNCHANGED <<fn, slot, ncalc, invoked, callArgs, ret, status, fiberAborted>>

\* The let-else failure branch of a constructor: return Err(format!(...)).
ExtractFailCtor(p) ==
    /\ slot[SlotOf(p)] \notin Vals
    /\ fn.ctor
    /\ ret' = ErrMsg(p)
    /\ status' = "returned"
    /\ UNCHANGED <<fn, slot, ncalc, arg, invoked, callArgs, fiberAborted>>

\* Mutant of ExtractFailAbort: a failed object lookup is unwrapped (a
\* panic) instead of being reported as a script error.
ExtractFailAbortPanic(p) ==
    /\ slot[SlotOf(p)] \notin Vals
    /\ ~fn.ctor
    /\ IF fn.kind[p] = "object"
          THEN /\ status' = "panicked"
               /\ UNCHANGED <<slot, fiberAborted>>
          ELSE /\ slot' = [slot EXCEPT ![0] = ErrMsg(p)]
               /\ fiberAborted' = TRUE
               /\ status' = "aborted"
    /\ UNCHANGED <<fn, ncalc, arg, invoked, callArgs, ret>>

\* The let-else failure branch of any other method:
\* WrenTo::to_vm(format!(...), vm, 0, 1); vm.abort_fiber(0); return.
ExtractFailAbort(p) ==
    /\ slot[SlotOf(p)] \notin Vals
    /\ ~fn.ctor
    /\ slot' = [slot EXCEPT ![0] = ErrMsg(p)]
    /\ fiberAborted' = TRUE
    /\ status' = "aborted"
    /\ UNCHANGED <<fn, ncalc, arg, invoked, callArgs, ret>>

Extract(p) == ExtractOk(p) \/ ExtractFailCtor(p) \/ ExtractFailAbort(p)

\* The #normal_arg block: plain parameters first, in position order.
ExtractPlain(p) ==
    /\ status = "extract"
    /\ ncalc = n
    /\ IsLeast(p, PendingPlain)
    /\ Extract(p)

\* The #object_arg block, after every plain parameter.
ExtractObject(p) ==
    /\ status = "extract"
    /\ ncalc = n
    /\ PendingPlain = {}
    /\ IsLeast(p, PendingObject)
    /\ Extract(p)

ArgsReady ==
    /\ status = "extract"
    /\ ncalc = n
    /\ PendingPlain = {}
    /\ PendingObject = {}

\* `let ret = Class::name(self, args..)` or `Wrapper::name(self, args..)`:
\* the body runs with the arguments in CallOrder and returns r.  A
\* constructor's body returns Ok(instance) (a value) or its own Err.
Invoke ==
    /\ ArgsReady
    /\ invoked' = TRUE
    /\ callArgs' = [i \in 1 .. Len(CallOrder) |-> arg[CallOrder[i]]]
    /\ \/ /\ ~fn.ctor
          /\ \E r \in Vals : ret' = r
          /\ status' = "called"
       \/ /\ fn.ctor
          /\ \E r \in Vals \cup {UserErr} : ret' = r
          /\ status' = "returned"
    /\ UNCHANGED <<fn, slot, ncalc, arg, fiberAborted>>

\* The native method body panics.
BodyPanic ==
    /\ ArgsReady
    /\ invoked' = TRUE
    /\ callArgs' = [i \in 1 .. Len(CallOrder) |-> arg[CallOrder[i]]]
    /\ status' = "panicked"
    /\ UNCHANGED <<fn, slot, ncalc, arg, ret, fiberAborted>>

\* Mutant of WriteReturn: the slot and scratch arguments swapped
\* (to_vm(ret, vm, 1, 0)).
WriteReturnSwapped ==
    /\ status = "called"
    /\ slot' = [slot EXCEPT ![1] = ret]
    /\ status' = "returned"
    /\ UNCHANGED <<fn, ncalc, arg, invoked, callArgs, ret, fiberAborted>>

\* `ruwren::foreign_v2::WrenTo::to_vm(ret, vm, 0, 1)`: the result goes to
\* slot 0, with slot 1 as scratch.
WriteReturn ==
    /\ status = "called"
    /\ slot' = [slot EXCEPT ![0] = ret]
    /\ status' = "returned"
    /\ UNCHANGED <<fn, ncalc, arg, invoked, callArgs, ret, fiberAborted>>

\* to_vm of a #[wren_module] type: set_slot_new_foreign_scratch(..).unwrap()
\* fails and panics.
WriteReturnPanic ==
    /\ status = "called"
    /\ status' = "panicked"
    /\ UNCHANGED <<fn, slot, ncalc, arg, invoked, callArgs, ret, fiberAborted>>

Next ==
    \/ BuildCursor
    \/ \E p \in Positions(n) : ExtractPlain(p) \/ ExtractObject(p)
    \/ Invoke
    \/ BodyPanic
    \/ WriteReturn
    \/ WriteReturnPanic

Spec == Init /\ [][Next]_vars

Done == status \in {"returned", "aborted", "panicked"}

-----------------------------------------------------------------------------
(* Properties                                                              *)

TypeOK ==
    /\ fn \in Descriptors
    /\ slot \in [0 .. n -> SlotVal]
    /\ ncalc \in 0 .. n
    /\ arg \in [Positions(n) -> Vals \cup {None}]
    /\ invoked \in BOOLEAN
    /\ callArgs \in Seq(Vals)
    /\ ret \in Vals \cup Msg \cup {None, UserErr}
    /\ status \in Status
    /\ fiberAborted \in BOOLEAN

\* The native method receives its i-th argument from slot i, whatever the
\* mix of plain and object parameters: extraction runs in two groups
\* (plain, then object) and the call must put the arguments back in
\* declaration order (the sort_by on call_args in gen_vm_fn_body).
ArgsFromOwnSlots ==
    invoked => /\ Len(callArgs) = n
               /\ \A i \in 1 .. n : callArgs[i] = slot[i]

\* The script-level error that a failed extraction reports names a slot
\* that really holds a value of the wrong type, and the parameter whose
\* declared type it names is the one read from that slot; the method body
\* was never entered.  (Both the constructor's Err and the fiber abort.)
ErrorNamesFailingSlot ==
    LET m == IF fn.ctor THEN ret ELSE slot[0]
    IN  (status = "aborted" \/ (fn.ctor /\ ret \in Msg)) =>
            /\ m \in Msg
            /\ m.slot \in 1 .. n
            /\ slot[m.slot] = Mismatch
            /\ m.param = m.slot - 1
            /\ ~invoked

\* Script errors and programmer errors stay apart (spec section 7): a call
\* whose slots hold a value of the wrong type ends as a script-level error
\* (fiber abort or constructor Err); it never panics and never runs the
\* body.
MismatchIsScriptError ==
    (\E i \in 1 .. n : slot[i] = Mismatch) =>
        /\ ~invoked
        /\ status \in {"extract", "aborted", "returned"}

\* Spec section 4.3: extraction is "ordered strictly by position (not by
\* plain/object grouping)", so the error names the lowest failing slot.
ErrorNamesFirstFailingSlot ==
    (status = "aborted") =>
        \A i \in 1 .. n : slot[i] = Mismatch => slot[0].slot <= i

=============================================================================
