------------------------------ MODULE Resolution ------------------------------
(***************************************************************************)
(* Signature and role resolution of #[wren_impl]: WrenImplValidFn::        *)
(* try_from, WrenImplFn::validate_allocator, WrenObjectImpl::validate and  *)
(* the registration table built in wren_impl (function_decls).             *)
(*                                                                         *)
(* A declared function is a record: its wren_impl flags, the names listed  *)
(* in object(...), whether it has a self receiver, its typed inputs (name  *)
(* and type class) and the shape of its return type.  Types are reduced   *)
(* to what the checks compare:                                             *)
(*   input types   "class" (FooClass), "classRef" (&mut FooClass),         *)
(*                 "other";                                                *)
(*   return shapes "default" (no arrow), "unit" (-> ()), "infer" (-> _),   *)
(*                 "class" (-> FooClass), "instResult"                     *)
(*                 (-> Result<FooInstance, String>), "otherPath" (-> i32). *)
(* The macro expansion is one step from "pending" to its result: a        *)
(* registration table or the list of errors it reports.                    *)
(***************************************************************************)
EXTENDS Naturals, Sequences, SequencesExt

CONSTANTS
    Items,     \* the declared functions an impl block may contain
    MaxItems   \* the largest impl block considered

VARIABLES
    items,     \* the functions of the impl block, in source order
    result     \* [state |-> "pending"|"ok"|"err", table, errors]

vars == <<items, result>>

InputTys == {"class", "classRef", "other"}

Outputs == {"default", "unit", "infer", "class", "instResult", "otherPath"}

\* A declared function as the checks see it (names are identifiers).
FnDecl ==
    [allocator : BOOLEAN, constructor : BOOLEAN, getter : BOOLEAN, setter : BOOLEAN,
     ignore : BOOLEAN, instance : BOOLEAN, object : Seq(STRING), hasSelf : BOOLEAN,
     typed : Seq([name : STRING, ty : InputTys]), output : Outputs]

ASSUME ResolutionAssumption == MaxItems \in Nat \ {0} /\ Items \subseteq FnDecl

\* The receiver type of a function (try_from, lines 873-906): the Wrapper
\* for a self method flagged instance, the Class for another self method,
\* and otherwise the type of the first typed input.
ReceiverTy(it) ==
    IF it.hasSelf THEN IF it.instance THEN "wrapper" ELSE "class"
    ELSE it.typed[1].ty

\* `args`: sig.inputs with the receiver for a self method, or the inputs
\* after the first for a function whose receiver is its first argument.
ArgsLen(it) == IF it.hasSelf THEN 1 + Len(it.typed) ELSE Len(it.typed) - 1

\* The typed arguments after the receiver, in order; their 0-based
\* positions are the parameter positions of the generated code.
TypedArgs(it) == IF it.hasSelf THEN it.typed ELSE Tail(it.typed)

ArgNames(it) == {TypedArgs(it)[i].name : i \in 1 .. Len(TypedArgs(it))}

\* partition(): positions named in object(...) and the rest.
ObjectParams(it) ==
    {p \in 0 .. (Len(TypedArgs(it)) - 1) : TypedArgs(it)[p + 1].name \in ToSet(it.object)}
NormalParams(it) ==
    {p \in 0 .. (Len(TypedArgs(it)) - 1) : TypedArgs(it)[p + 1].name \notin ToSet(it.object)}

\* Mutant of Arity: the object parameters are not counted.
ArityPlainOnly(it) == Cardinality(NormalParams(it))

\* Mutant of Arity: the receiver is dropped from the typed inputs even
\* for a self method, whose receiver is not among them.
ArityMinusReceiver(it) == Len(it.typed) - 1

\* WrenImplValidFn::arity: normal_params.len() + object_params.len().
Arity(it) == Cardinality(NormalParams(it)) + Cardinality(ObjectParams(it))

\* Mutant of SetterOk: the argument count ignores the self receiver.
SetterOkNoSelf(it) == ArgsLen(it) = 1 /\ it.output \in {"default", "unit"}

\* The setter check: `args.len() == count` with count 2 for a self method
\* (args holds the receiver) and 1 otherwise, and a unit return.
SetterOk(it) ==
    /\ ArgsLen(it) = (IF it.hasSelf THEN 2 ELSE 1)
    /\ it.output \in {"default", "unit"}

\* The getter check: no argument besides the receiver.
GetterOk(it) == ArgsLen(it) = (IF it.hasSelf THEN 1 ELSE 0)

Error(kind, i) == [kind |-> kind, item |-> i]

ErrorKinds == {"no_receiver", "object_not_found", "setter", "getter",
               "allocator_params", "allocator_return", "constructor_return",
               "constructor_receiver", "allocator_count", "constructor_count"}

\* WrenImplValidFn::try_from for item i: a missing receiver returns at once;
\* otherwise one error per object(...) name with no matching argument, then
\* the setter check, then the getter check.
TryFromErrors(it, i) ==
    IF ~it.hasSelf /\ it.typed = <<>>
    THEN <<Error("no_receiver", i)>>
    ELSE LET missing == SelectSeq(it.object, LAMBDA nm : nm \notin ArgNames(it))
         IN  [k \in 1 .. Len(missing) |-> Error("object_not_found", i)]
             \o (IF it.setter /\ ~SetterOk(it) THEN <<Error("setter", i)>> ELSE <<>>)
             \o (IF it.getter /\ ~GetterOk(it) THEN <<Error("getter", i)>> ELSE <<>>)

\* WrenImplFn::validate_allocator: no inputs at all, and a return type that
\* is FooClass, `_` or absent (the last two are completed to FooClass).
AllocatorErrors(it, i) ==
    (IF it.hasSelf \/ it.typed # <<>> THEN <<Error("allocator_params", i)>> ELSE <<>>)
    \o (IF it.output \in {"default", "infer", "class"} THEN <<>>
        ELSE <<Error("allocator_return", i)>>)

\* The constructor branch of validate: try_from, then the return type
\* (absent or `_` is completed to Result<FooInstance, String>), then the
\* receiver, which must be FooClass or a reference to it.
CtorErrors(it, i) ==
    IF TryFromErrors(it, i) # <<>> THEN TryFromErrors(it, i)
    ELSE IF it.output \notin {"default", "infer", "instResult"}
         THEN <<Error("constructor_return", i)>>
    ELSE IF ReceiverTy(it) \notin {"class", "classRef"}
         THEN <<Error("constructor_receiver", i)>>
    ELSE <<>>

\* The indices of S in source order (the iter().filter() of validate).
IndicesWhere(S) == SelectSeq([k \in 1 .. Len(items) |-> k], LAMBDA k : k \in S)

\* The registration entry of a valid function (function_decls): is_static,
\* the signature kind (getter and setter checks win over new_function) and
\* the arity new_function is given.
Entry(it) ==
    [static |-> ~it.instance,
     kind   |-> IF it.getter THEN "getter" ELSE IF it.setter THEN "setter" ELSE "function",
     arity  |-> Arity(it)]

\* Mutant of TooMany: the count test `len() <= 1` written as `len() <= 2`.
TooManyOffByOne(s) == Len(s) > 2

\* The duplicate-role test of validate: `allocators.len() <= 1` fails.
TooMany(s) == Len(s) > 1

Rejected(errors) == [state |-> "err", table |-> <<>>, errors |-> errors]

\* WrenObjectImpl::validate followed by the table of wren_impl.
Validate ==
    LET allocs == IndicesWhere({k \in DOMAIN items : items[k].allocator})
        ctors  == IndicesWhere({k \in DOMAIN items : items[k].constructor})
        others == IndicesWhere({k \in DOMAIN items : ~items[k].ignore /\ ~items[k].constructor
                                                      /\ ~items[k].allocator})
    IN
    IF TooMany(allocs) THEN Rejected(<<Error("allocator_count", 0)>>)
    ELSE IF TooMany(ctors) THEN Rejected(<<Error("constructor_count", 0)>>)
    ELSE LET errors ==
                 (IF Len(allocs) = 1 THEN AllocatorErrors(items[allocs[1]], allocs[1]) ELSE <<>>)
                 \o (IF Len(ctors) = 1 THEN CtorErrors(items[ctors[1]], ctors[1]) ELSE <<>>)
                 \o FlattenSeq([k \in 1 .. Len(others) |->
                                  TryFromErrors(items[others[k]], others[k])])
         IN  IF errors # <<>> THEN Rejected(errors)
             ELSE [state |-> "ok", errors |-> <<>>,
                   table |-> [k \in 1 .. Len(others) |-> Entry(items[others[k]])]]

IsOk  == result.state = "ok"
IsErr == result.state = "err"

Init ==
    /\ items \in UNION {[1 .. m -> Items] : m \in 1 .. MaxItems}
    /\ result = [state |-> "pending", table |-> <<>>, errors |-> <<>>]

\* One expansion of #[wren_impl] over the impl block.
WrenImpl ==
    /\ result.state = "pending"
    /\ result' = Validate
    /\ UNCHANGED items

Next == WrenImpl

Spec == Init /\ [][Next]_vars

-----------------------------------------------------------------------------
(* Reference: the declaration rules of spec sections 3 and 4.2, stated on  *)
(* the declaration itself rather than on the code's checks.                *)

\* Parameters besides the receiver (self, or a first argument of the class).
ParamCount(it) == IF it.hasSelf THEN Len(it.typed) ELSE Len(it.typed) - 1

\* The roles are checked only on functions that are not ignored; the
\* allocator and constructor are always looked at.
IllFormed(it) ==
    \/ ~it.allocator /\ ~it.hasSelf /\ it.typed = <<>>
    \/ /\ ~it.allocator
       /\ \/ \E nm \in ToSet(it.object) :
                 ~\E k \in 1 .. Len(it.typed) :
                     /\ it.typed[k].name = nm
                     /\ (it.hasSelf \/ k > 1)
          \/ it.getter /\ ParamCount(it) # 0
          \/ it.setter /\ (ParamCount(it) # 1 \/ it.output \notin {"default", "unit"})
    \/ /\ it.constructor
       /\ \/ it.output \notin {"default", "infer", "instResult"}
          \/ it.hasSelf /\ it.instance
          \/ ~it.hasSelf /\ it.typed # <<>> /\ it.typed[1].ty = "other"
    \/ /\ it.allocator
       /\ \/ it.hasSelf \/ it.typed # <<>>
          \/ it.output \notin {"default", "infer", "class"}

Checked(it) == it.allocator \/ it.constructor \/ ~it.ignore

Count(P(_)) == Cardinality({k \in 1 .. Len(items) : P(items[k])})

\* The impl block is accepted exactly when it follows the rules: at most
\* one allocator and one constructor, and no checked function ill-formed.
AcceptsExactlyWellFormed ==
    result.state # "pending" =>
        (IsOk <=>
            /\ Count(LAMBDA it : it.allocator) <= 1
            /\ Count(LAMBDA it : it.constructor) <= 1
            /\ \A k \in 1 .. Len(items) : Checked(items[k]) => ~IllFormed(items[k]))

\* Every entry of the registration table describes its function as
\* declared: static unless flagged instance, a getter or setter with 0 or
\* 1 parameters, otherwise a function whose arity counts every parameter
\* besides the receiver, plain and object alike (spec section 8).
TableMatchesDeclarations ==
    IsOk =>
        LET fns == SelectSeq(items, LAMBDA it : Checked(it) /\ ~it.constructor /\ ~it.allocator)
        IN  /\ Len(result.table) = Len(fns)
            /\ \A k \in 1 .. Len(fns) :
                 /\ result.table[k].static = ~fns[k].instance
                 /\ result.table[k].kind = "getter" => ParamCount(fns[k]) = 0
                 /\ result.table[k].kind = "setter" => ParamCount(fns[k]) = 1
                 /\ result.table[k].arity = ParamCount(fns[k])

\* Spec 4.2 and section 7: validation failures are aggregated, "never
\* partial": every ill-formed function of a rejected block is named by an
\* error, whatever else is wrong with the block.
ErrorsBatched ==
    IsErr =>
        \A k \in 1 .. Len(items) :
            Checked(items[k]) /\ IllFormed(items[k]) =>
                \E e \in 1 .. Len(result.errors) : result.errors[e].item = k

TypeOK ==
    /\ items \in Seq(FnDecl)
    /\ result \in [state  : {"pending", "ok", "err"},
                   table  : Seq([static : BOOLEAN, kind : {"getter", "setter", "function"},
                                 arity : Nat]),
                   errors : Seq([kind : ErrorKinds, item : 0 .. MaxItems])]
=============================================================================
