# TLA+ models of ruwren-macros

This directory holds a verification development for `src/ruwren-macros/src/lib.rs`, the
procedural-macro crate of ruwren. The crate binds Rust types and methods to the Wren
scripting VM. It contains TLA+ modules, TLC configurations, and TLAPS proofs.

## 1. The system

The crate has three macros. The code they generate runs at two different times.

| Part (spec section) | Source (lib.rs) | What it does |
|---|---|---|
| Type split model (4.1) | 10-492 `generate_class`, `generate_instance`, `generate_wrapper`, `generate_enhancements`, `wren_object_derive` | `#[derive(WrenObject)]` splits `Foo` into `FooClass` (static fields), `FooInstance` (the other fields), a borrowed `FooWrapper` over both, and the `From`/`TryFrom` conversions. |
| Signature and role resolution (4.2) | 494-554, 864-1207 `WrenImplFnAttrs`, `WrenImplValidFn::try_from`, `validate_allocator`, `WrenObjectImpl::validate` | `#[wren_impl]` classifies each function: allocator, constructor, getter, setter, or plain static or instance. It derives the arity and the plain/object parameter split, and collects the errors. |
| Slot marshaling engine (4.3) | 565-768 `gen_vm_fn_body`, `gen_vm_fn`, `gen_vm_fn_constructor` | This is the generated `vm_f`. It builds the InputSlot cursor chain, extracts the plain parameters and then the object parameters, and either aborts the fiber or returns `Err` on a mismatch. It chains the call's arguments objects-first, sorts them back by position, calls the method, and writes the return value to slot 0. An object argument goes through `try_into()` from `Option<T>` to itself, whose panic arm cannot run. |
| Boundary adapter and lifecycle (4.4) | 777-860 `gen_native_vm_fn`; 1403-1486 `_constructor`, `_destructor` | The generated `extern "C"` entry points. They copy the `UserData` out of the VM, upgrade the `Weak` VM handle, install a silent panic hook, borrow the VM, run `vm_f`, call `take_hook`, and write the `UserData` back. `_constructor` boxes a new instance into foreign storage. `_destructor` frees the box once. |
| Registration and module publishing (4.4) | 1225-1510 `wren_impl`; 1515-1612 `wren_module` | Builds the `MethodPointer` table `{is_static, signature, pointer}`, the `ClassObject` and `V2Class` impls, `publish_module`, and a `WrenTo` impl per module type (its `to_vm` unwraps). |

How the parts interact:
- At expansion time, resolution decides which functions get marshaling code and which entries the registration table holds.
- At call time, the VM calls a native entry point, which calls the marshaling function, which calls the user's method.
- Constructors go through the same marshaling engine, but return `Result` to `_constructor` instead of writing slot 0.

One VM runs on one thread and serialises script execution, so no two calls into the same VM interleave. The panic hook is different: `set_hook` and `take_hook` change a process-wide hook, so the native calls of two host threads, each running its own VM, and the host's own `set_hook` do interleave on it. The hard behaviours are therefore these:
- the **order** of the steps inside one call: extraction order, the argument permutation, and where a failure is reported;
- **partial failure**: a panic at any of several points, with or without containment;
- the **lifecycle** of the hook, the user-data copy, and the instance box across a failure;
- **aliasing** of the receiver with an object argument;
- the **batching** of declaration errors at expansion time;
- the **process-wide panic hook** shared by threads;
- the **index arithmetic** of the type split's join (the `ci`/`ii` counters).

## 2. Modules

| Module | Models | State | Actions |
|---|---|---|---|
| `WrenSlots` | shared vocabulary | (constants) `Vals`, the sentinels `Mismatch`, `Recv`, `None`, `UserErr`, and `MaxArity` | `Descriptors` is the method descriptors: arity, kind of each position, and whether it is a constructor. `Msg` is the failure messages. |
| `Marshal` | one call of `vm_f` (565-768) | `fn`, `slot`, `ncalc` (cursors built), `arg`, `invoked`, `callArgs`, `ret`, `status`, `fiberAborted` | `BuildCursor`, `ExtractPlain(p)`, `ExtractObject(p)` (each `Extract`: `ExtractOk`, `ExtractFailCtor` or `ExtractFailAbort`), `Invoke` (arguments in `CallOrder`: the objects-first `CallChain` of `call_args`, 674-680, put through `SortByPosition`, the `sort_by` of 681), `BodyPanic`, `WriteReturn`, `WriteReturnPanic` (the `wren_module` `to_vm` unwrap, 1574) |
| `MarshalOutcome` | the contract of one call (spec 4.3, section 7) | `outcome` plus Marshal's visible variables | `ScriptError`, `Return`, `Panic`, each one atomic step |
| `MarshalRefinement` | the refinement mapping from Marshal to MarshalOutcome | `AbsOutcome` (the status once the call is done, else running); invoked, `callArgs` and `ret` are shown only once the call is done | `AbsSpec` |
| `MC_MarshalRefines` | TLC instance of `MarshalRefinement` | — | — |
| `Resolution` | expansion of `#[wren_impl]` (872-1207, table 1302-1327) | `items` (the impl block's functions), `result` (pending, or the table, or the errors) | `WrenImpl`: the whole `validate` together with the table. A macro expansion is one atomic step. |
| `MarshalProofs` | TLAPS proofs about Marshal | — | — |
| `Runtime` | the native entry points (789-854) and `_constructor`/`_destructor` (1403-1469) at call time, for several host threads | `hook` (process-wide: host, default or no-op), `process` (running, aborted, undefined), `printed`, `call[t]` (the call of thread t: kind, receiver, object arguments, hook at entry), and per object `storage`, `ptr` (ForeignObject pointer non-null), `box`, `frees`, `owner` | `Enter(t,k,r,A)` (user data copied, upgrade, `set_hook(no-op)`, borrow, receiver and class looked up); `Return(t)`, `CtorOk(t)`, `CtorErr(t)` (each ending with `ExitHook`: `drop(take_hook())`, write-back); `Panic(t)`; `Destructor(o)`; and, from the environment, `SetHostHook` |
| `ForeignLifecycle` | the contract of the boundary for each foreign object (spec 4.4, section 8) | `life[o]` (none, live, dropped), `held` (the objects calls hold) | `Alloc(o)`, `Drop(o)` (only when not held), `Use` (calls start and end; they hold only live instances) |
| `RuntimeLifecycle` | the refinement mapping from Runtime to ForeignLifecycle | `LifeOf` (the box's state), `HeldObjs` (the `Held` objects of the calls in progress) | `LifecycleSpec` |
| `RuntimeProofs` | TLAPS proofs about Runtime | — | — |
| `ResolutionProofs` | TLAPS proofs about Resolution's checks | — | — |
| `TypeSplit` | `#[derive(WrenObject)]`'s split and join (44-430), used by the default allocator/constructor (1257-1281) and by `Slottable::get` / `From<&FooWrapper>` | `src` (a struct: shape and fields with static flags and values), `cls`, `inst`, `back` | `IntoClass`, `IntoInstance`, `Join`; the generators `GenerateClass`, `GenerateInstance`, `GenerateEnhancements` are operators |

Abstraction choices:
- **Slot contents.** A slot holds a value of `Vals`, which means the declared type's conversion succeeds, or `Mismatch`, which means `get_slot_value`/`get_slot_object` returns `None`. What a value is does not matter to the generated code; only which slot it came from does.
- **Failure message.** The message `format!("failed to get value of type {} for slot {}")` is the record `[slot, param]`: the slot it names, and the parameter whose type it names.
- **Declarations.** In `Resolution`, a declaration is a record with:
  - its flags;
  - its `object(...)` names;
  - whether it has `self`;
  - its typed inputs, each a name and a type class: `FooClass`, `&mut FooClass`, or another type;
  - the shape of its return type: none, `()`, `_`, `FooClass`, `Result<FooInstance, String>`, or another path.

  These are exactly the distinctions that `try_from`, `validate_allocator` and `validate` test.
- **Runtime.** The marshaling function inside a native call is abstracted to its outcome, as in `MarshalOutcome`: a return (or fiber abort), a constructor `Ok`/`Err`, or a panic. The VM's garbage collector is the environment: it may finalize any object no call holds, and may finalize it again (spec section 8). A panic that reaches an `extern "C"` frame is a nondeterministic choice between abort (Rust 1.81 and later) and undefined behaviour (earlier compilers).
- **Type split.** A field name is the field's position, and a tuple index is 0-based as in `source.#idx`. An access to a tuple field that does not exist is the value `CompileError`, because the compiler rejects it.
- **Non-determinism.** The user's method body and the VM are external, so their results are nondeterministic choices: any value, a user `Err`, or a panic.

## 3. Properties and runs

| Run | cfg | Expect | Properties | What it shows |
|---|---|---|---|---|
| `marshal_core` | `MC_MarshalRefines.cfg` | pass | `TypeOK`, `ArgsFromOwnSlots`, `ErrorNamesFailingSlot`, `MismatchIsScriptError`, `AbsSpec` | For every descriptor up to arity 3 and every slot content: the body receives argument i from slot i, because the sort of the objects-first `call_args` chain undoes the grouping; an abort or constructor `Err` names a slot that really mismatches, with its own parameter, and the body is not run; a mismatch never becomes a panic. Marshal's steps map to MarshalOutcome's steps or to stutters, so the failure, return and panic paths are exactly those of the contract. |
| `marshal_first_failure` | `MC_Marshal_order.cfg` | violation | `ErrorNamesFirstFailingSlot` | Finding 1 (below). |
| `resolution_single` | `MC_Resolution_single.cfg` | pass | `TypeOK`, `AcceptsExactlyWellFormed`, `TableMatchesDeclarations` | For every single function up to two typed inputs, in every role, the macro accepts it exactly when it obeys the spec 3/4.2 rules. When accepted, the registered entry has the declared staticness, kind and arity. The arity counts object parameters and excludes the receiver. |
| `resolution_pairs` | `MC_Resolution_pairs.cfg` | pass | `AcceptsExactlyWellFormed` | The same rule for blocks of two functions, including duplicate allocators and constructors. |
| `resolution_batched` | `MC_Resolution_batched.cfg` | violation | `ErrorsBatched` | Finding 2 (below). |
| `runtime_lifecycle` | `MC_Runtime_lifecycle.cfg` | pass | `NoDoubleFree`, `BoxOwnership`, `LifecycleSpec` | For two threads and two objects, over any interleaving of constructors (Ok and Err), method calls, panics and repeated finalizations: each box is freed at most once and it is allocated exactly while its storage is live. Every step maps to a step of the `ForeignLifecycle` contract or leaves it unchanged. |
| `runtime_panic` | `MC_Runtime_panic.cfg` | violation | `PanicContained` | Finding 3. |
| `runtime_hook` | `MC_Runtime_hook.cfg` | violation | `HookRestored` | Finding 4. |
| `runtime_silent` | `MC_Runtime_silent.cfg` | violation | `SilentPanics` | Finding 5 (two threads). |
| `runtime_alias` | `MC_Runtime_alias.cfg` | violation | `NoMutableAlias` | Finding 6. |
| `typesplit_roundtrip` | `MC_TypeSplit_roundtrip.cfg` | pass | `RoundTrip` | For every shape, every pattern of static fields up to 3 fields and every value, `Foo -> (FooClass, FooInstance) -> Foo` gives every field back (spec section 8). |
| `typesplit_kind` | `MC_TypeSplit_kind.cfg` | violation | `KindPreserved` | Finding 7. |

How the reference conditions are written:
- `AcceptsExactlyWellFormed` and `TableMatchesDeclarations` compare the code's result with a reference definition, `IllFormed` and `ParamCount`. The reference is written from the rules, not from the code's checks. For example, it counts parameters after the receiver instead of `args.len()` with a receiver-dependent constant.
- Each property of each passing run has a mutant in `PROJECT.json`: a plausible bug in a mapped definition that TLC then catches:
  - the sort of `call_args` dropped;
  - the slot index off by one;
  - an unwrapped object lookup;
  - the setter count without `self`;
  - arity without the object parameters;
  - `len() <= 2` for the duplicate check;
  - the return written to the scratch slot;
  - one cursor too many;
  - `_destructor` not nulling the pointer (double free);
  - `_destructor` nulling without `Box::from_raw` (leak);
  - `_constructor` initialising a storage that was already finalized (the lifecycle contract);
  - the join indexing tuple fields by their source index instead of the `ci`/`ii` counters.

Bounds:
- **Marshal.**
  - `MaxArity = 3` allows every mix of plain and object positions, including object-before-plain, and two failing slots of different kinds.
  - Two values are enough to tell whether arguments are permuted.
- **Resolution.**
  - Single functions cover every role, `instance`, `self` or no `self`, 0-2 typed inputs of each type class, every return shape, and `object(...)` names that hit the first input, the second input, or none.
  - Pairs use a coarser input space, so that duplicates and cross-function effects stay within a few seconds.

- **Runtime.** Two objects cover a constructor on one while the other is live, an object passed as an argument to a call on another, and a receiver passed as its own argument. Two threads are used for the lifecycle, so that the objects held are the union over several calls in progress, and where the process-wide hook matters. Objects are symmetric.
- **TypeSplit.** Up to 3 fields gives every order of static and non-static fields in which a field's source index and its index within its half differ. Two values tell a swapped field from a right one.

Fairness:
- Every run checks safety under `Spec` and assumes no fairness. No liveness property is checked. The generated function is straight-line code with no loop and no wait, so that every call ends holds by the shape of the code and is not a question for the model.
- Deadlock checking is off in every run, with a reason in each cfg. A finished call, expansion or join is a real final state. In `Runtime`, a panic ends the process.

## 4. Findings

1. **Errors name a non-first slot** (`marshal_first_failure`).
   - The code: the generated body emits every `#normal_arg` extraction before any `#object_arg` extraction (lines 728-733). Suppose the object parameter at slot 1 and the plain parameter at slot 2 both mismatch. The fiber then aborts naming slot 2.
   - The spec: spec 4.3 says extraction is "ordered strictly by position (not by plain/object grouping)".
   - What still holds: the message always names *a* failing slot (`ErrorNamesFailingSlot`), and the arguments are still delivered in order (`ArgsFromOwnSlots`).
2. **Declaration errors are not batched** (`resolution_batched`).
   - The code: `validate` returns at once when it finds more than one allocator (line 1108) or more than one constructor (line 1123), so the errors of every other function are dropped.
   - The spec: spec 4.2 and section 7 say all failures are reported together, "never partial".
   - TLC's example: two constructors without a receiver report only the count error.

3. **Panics are not contained** (`runtime_panic`).
   - The code: the native wrappers (791, 819) and `_constructor` (1408) are `extern "C"` and call no `catch_unwind`. `ruwren::handle_panic` is imported as `catch_unwind` at 1411 and never used. A panic inside a call leaves the `extern "C"` frame.
   - The spec: spec 4.4 step 5 and sections 7-8 say the panic is contained and the process survives.
4. **The host's panic hook is lost** (`runtime_hook`).
   - The code: `set_hook` (800, 828, 1419) drops the previous hook, and `drop(take_hook())` (810, 847, 1444) leaves the default hook installed.
   - The spec: spec 4.4 says the previous reporter is restored.
5. **Panics are not silenced under concurrency** (`runtime_silent`).
   - The code: the hook is process-wide. Another thread's `set_hook`, or the `take_hook` at the end of another VM's native call, replaces the no-op hook during this call.
   - The spec: spec 4.4 step 3 says panics inside a call are silenced.
6. **Receiver aliased by an object argument** (`runtime_alias`).
   - The code: an instance method keeps `&mut` to its receiver (`get_slot_foreign_mut(0)`, 833-844). An object parameter of the same class is read through `Slottable::get` (1394-1400) from a slot that may hold the receiver itself.
   - The spec: spec section 5 names this aliasing as the hazard to prevent.
7. **Empty tuple structs** (`typesplit_kind`).
   - The code: for `struct Foo();`, `generate_enhancements` writes `Self` (line 406) as the body of `From<(&FooClass, &FooInstance)> for Foo`. For a tuple struct, `Self` in an expression names the constructor function, so the expansion does not type-check.
   - The spec: spec 4.1 says a type with no fields gets a unit class and instance and all conversions.

## 5. Proofs (TLAPS)

`MarshalProofs` proves five theorems for every value of the constants, under `SlotsAssumption` in `WrenSlots`. The assumption says:
- `MaxArity` is a natural number;
- the sentinels are distinct from the values and from each other;
- a failure message is neither a value, `None` nor `UserErr`. In the code the message is a `String` in the `Err` arm of the constructor's `Result`, or a string written to slot 0, while a value is the `Ok` arm or a converted return.

The theorems:
- **`TypeCorrect`: `Spec => []TypeOK`.**
  - `TypeOK` alone is not inductive. `WriteReturn` copies `ret` into slot 0, so the proof uses `TypeInv == TypeOK /\ (status = "called" => ret \in Vals)`.
  - Lemmas used: `DescriptorFacts`; `AllExtracted` (no pending position means every argument is a value); and `CallArgsType`.
  - The step lemma has one case per action.
- **`ArgsDelivered`: `Spec => []ArgsFromOwnSlots`.**
  - The inductive invariant `ArgsInv` states three things:
    - every extracted `arg[p]` equals `slot[p + 1]`;
    - slots 1..n are never written;
    - once the body is entered, extraction is over and `callArgs` is `arg` in `CallOrder`.
  - `CallOrderIsPositionOrder` shows that `CallOrder`, the objects-first chain of `call_args` sorted by position, is `0, 1, ..., n - 1` for every descriptor. The sort is modelled by rank: the i-th element of the result is the one with i - 1 smaller positions (`KthOf`). The lemmas it rests on are these:
    - `RankBounds`: in a finite set of naturals, an element's rank lies in `0 .. Cardinality(S) - 1` and grows with the element.
    - `KthOfFacts`: the rank is therefore an injection onto that interval, and so a bijection (`FS_Injection`). `KthOf(S, k)` is the unique element of rank `k - 1`, and every element is the `KthOf` of its own rank.
    - `ParamSeqFacts`: each half of the partition, listed in declaration order, is a sequence that lists its set without repetition.
    - `PositionRank`: in `0 .. n - 1` the rank of `p` is `p`.
  - The chain's length is the sum of the two halves, which is `n` (`FS_Union`), and its elements are exactly the positions (`ConcatProperties`). Sorting it therefore gives the positions in order.
  - The theorem follows from `TypeInv /\ ArgsInv` and `CallArgsInOrder`. A mutant that drops the sort leaves the chain objects-first, and TLC finds `ArgsFromOwnSlots` violated.
- **`ErrorsNameFailingSlot`: `Spec => []ErrorNamesFailingSlot`** and **`MismatchNeverPanics`: `Spec => []MismatchIsScriptError`.**
  - Neither is inductive alone. A message in `ret` or slot 0 names a failing slot only because slots 1..n never change and hold a value or `Mismatch`. A panic never follows a mismatch only because the body is entered only once every slot converted.
  - The inductive invariant `ErrInv` records, per status:
    - a message in `ret` satisfies `FailedAt`, the call is a constructor and the body never ran;
    - an aborted call has a `FailedAt` message in slot 0 and is not a constructor;
    - during extraction `callArgs` is empty and `ret` is `None`;
    - once the body is entered or a panic happened, every slot holds a value.
  - Lemmas used: `ErrMsgFacts` (the message of position `p` names slot `p + 1` and parameter `p`) and `ReadySlotsConvert` (once every argument is extracted, every slot holds a value, from `ArgsInv`).
  - `MarshalInv` proves `TypeInv /\ ArgsInv /\ ErrInv` together, with one case per action.
- **`Refinement`: `Spec => AbsSpec`.** Marshal implements `MarshalOutcome` under the mapping of `MarshalRefinement`.
  - The initial state maps to the abstract initial state (`RefInit`).
  - `RefStep` maps every step, given the three invariants:
    - `BuildCursor`, a successful extraction, and the non-constructor `Invoke` are stutters, because none of them changes what the mapping shows;
    - a failed extraction is `ScriptError` for slot `p + 1` (`ErrMsg(p) = FailureMsg(p + 1)`);
    - `BodyPanic` and `WriteReturnPanic` are `Panic`;
    - the constructor's `Invoke` and `WriteReturn` are `Return`.
  - Lemma used: `SortedArgsAreSlots` (once every argument is extracted, the sorted argument list is the list of the slots), from `ArgsInv`.

`RuntimeProofs` proves four theorems for every set of threads and objects, under `RuntimeAssumption` (`NoObj` is not an object and there is a thread):
- **`TypeCorrect`: `Spec => []TypeOK`.** `TypeOK` is inductive here. The step lemma has one case per action.
- **`DestructorFreesOnce`: `Spec => []NoDoubleFree`** and **`BoxOwned`: `Spec => []BoxOwnership`.**
  - Neither is inductive alone. `_destructor` frees whenever the pointer is non-null, so the invariant must tie the pointer to the box. `_constructor` allocates its receiver's box, so it must know that the receiver has no storage yet.
  - The inductive invariant `IInv` is `TypeOK` together with two parts:
    - `Owned(o)` for every object: the pointer is non-null iff the box is allocated iff the storage is live; no storage means no box; `frees` is 1 exactly when the box is freed.
    - `CtorPending(t)` for every thread: a constructor call in progress holds an object with no storage that no other call holds.
  - Both theorems follow from `IInv` (`IInvOwnership`).
- **`RuntimeImplementsLifecycle`: `Spec => LifecycleSpec`.** Runtime implements `ForeignLifecycle` under the mapping of `RuntimeLifecycle`.
  - `LifeInit`: no box exists and no call is in progress initially.
  - A second invariant, `HInv`, says that every object a call in progress holds is an object with live storage. `Enter` takes its objects from `LiveOf`, the collector finalizes only objects no call holds, and no other step ends a storage's life. These are guarantees of the VM, not checks of the generated code, so the project does not state "a held object has an allocated box" as a property of its own: beyond `BoxOwnership` it would only restate them. `HInv` is used here because the contract's `Use` step requires held objects to be live.
  - `LifeStep` assumes `IInv /\ HInv` in both states of the step:
    - `Enter`, `Return`, `CtorErr`, `Panic`, `SetHostHook` and stutters leave every box alone, so they are `Use` steps. What the calls hold afterwards is live, by `HInv` and `Owned` in the next state.
    - `CtorOk` is `Alloc` of its receiver. `CtorPending` and `Owned` say that the receiver has no box yet. Its call ends, so the held set can only shrink.
    - `Destructor` of an object with a non-null pointer is `Drop`. Its box is allocated by `Owned`, and no call holds it because the collector's guard says so. With a null pointer it leaves the lifecycle unchanged.
  - The theorem combines `Spec => [](IInv /\ HInv)` with the two lemmas.

`ResolutionProofs` proves two theorems about the operators of `Resolution`, for every declared function that gets past the receiver check (it has `self` or a first argument), whatever its number of inputs:
- **`ArityCountsParameters`: `Arity(it) = ParamCount(it)`.** `partition()` puts each typed argument after the receiver into exactly one of the normal and object groups. So the two counts add up to the number of those arguments (`FS_Interval`, `FS_Union`), which is the number of parameters besides the receiver (`TypedArgsLen`). This is the arity conjunct of `TableMatchesDeclarations`, for every function length; TLC checks it up to two typed inputs.
- **`AccessorChecksCountParameters`.** The setter check (`args.len()` is 2 with `self`, 1 without, and a unit return) holds exactly when there is one parameter besides the receiver. The getter check holds exactly when there is none.

Only model-checked:
- the invariants of `Resolution`'s runs and `TypeSplit`'s `RoundTrip`.

What stays with TLC for good:
- any liveness and `ENABLED` reasoning;
- induction over data, which the library's induction theorems need and which the provers cannot instantiate;
- anything that reaches a `RECURSIVE` operator.

No module of the project reaches a `RECURSIVE` operator. `Resolution`'s invariants need facts about `SelectSeq` (the `iter().filter()` of `validate`, and the functions the table is compared with) and about `FlattenSeq` (the errors of every function, concatenated). Both are recursive functions over the length of a sequence, so what they return for every input needs induction over data, which the provers here cannot do. The same holds for `TypeSplit`'s `RoundTrip`, which is about the `SelectSeq` of the valid fields and the `ci`/`ii` counters for every struct length. These stay model-checked. The two operator theorems above are the parts of `Resolution` that need no such induction.

No action property is proved on its own. `LifecycleSpec` is a step-by-step (action) property of the whole boundary, and it is proved. `HookRestored`, the other action property the project checks, is violated by the code.

## 6. Not modelled, and the plan

| Part | Status | Plan |
|---|---|---|
| Type split: `generate_wrapper`'s `Deref`/`DerefMut`, and the attribute-extraction failure in `wren_object_derive` (459-476) | not modelled | The wrapper only forwards field access. The failure path emits `compile_error!` together with the output. |
| The `UserData` copy (794, 822, 1414) | not modelled | A second drop of the copied `Weak` needs a panic that unwinds and a process that survives. `PanicContained` shows that the process does not survive. |
| Registration and `publish_module` | partly (table entries in `Resolution`) | Compose with `Runtime`: each registered pointer dispatches to the method with the registered arity. |
| Getter/setter renaming, syn parsing | not modelled | Naming only. A non-`fn` item hits `unimplemented!()` at expansion. |
| `println!` of the expansion (1510, 1610) | not modelled | Output only. |
| The ruwren crate (slots, fibers, foreign storage, the garbage collector) | not modelled | External to this repository. It is used only through the interface above. |
