--------------------------- MODULE ResolutionProofs ---------------------------
(***************************************************************************)
(* Proofs about the checks of #[wren_impl] that hold for every declared   *)
(* function, whatever the number of its inputs: the arity registered for  *)
(* it, and the argument counts of the setter and getter checks, agree     *)
(* with the parameters it declares besides its receiver.                  *)
(***************************************************************************)
EXTENDS Resolution, FiniteSetTheorems, SequenceTheorems, TLAPS

\* The typed arguments after the receiver are as many as the declared
\* parameters.
LEMMA TypedArgsLen ==
    ASSUME NEW it \in FnDecl, it.hasSelf \/ it.typed # <<>>
    PROVE  /\ TypedArgs(it) \in Seq([name : STRING, ty : InputTys])
           /\ Len(TypedArgs(it)) = ParamCount(it)
           /\ ParamCount(it) \in Nat
<1>1. it.typed \in Seq([name : STRING, ty : InputTys])
    BY DEF FnDecl
<1>2. CASE it.hasSelf
    BY <1>1, <1>2 DEF TypedArgs, ParamCount
<1>3. CASE ~it.hasSelf
    <2>1. it.typed # <<>>
        BY <1>3
    <2> QED
        BY <1>1, <1>3, <2>1, HeadTailProperties DEF TypedArgs, ParamCount
<1> QED
    BY <1>2, <1>3

\* WrenImplValidFn::arity (normal_params.len() + object_params.len()) is the
\* number of parameters besides the receiver, for every declaration that
\* gets past the receiver check: partition() puts each typed argument into
\* exactly one of the two groups (the numeric edge of lib.rs:553).
THEOREM ArityCountsParameters ==
    ASSUME NEW it \in FnDecl, it.hasSelf \/ it.typed # <<>>
    PROVE  Arity(it) = ParamCount(it)
<1> DEFINE L == Len(TypedArgs(it))
           P == 0 .. (L - 1)
<1>1. L = ParamCount(it) /\ L \in Nat
    BY TypedArgsLen
<1>2. NormalParams(it) \cup ObjectParams(it) = P
    BY DEF NormalParams, ObjectParams
<1>3. NormalParams(it) \cap ObjectParams(it) = {}
    BY DEF NormalParams, ObjectParams
<1>4. IsFiniteSet(P) /\ Cardinality(P) = L
    BY <1>1, FS_Interval
<1>5. IsFiniteSet(NormalParams(it)) /\ IsFiniteSet(ObjectParams(it))
    <2>1. NormalParams(it) \subseteq P /\ ObjectParams(it) \subseteq P
        BY DEF NormalParams, ObjectParams
    <2> QED
        BY <1>4, <2>1, FS_Subset
<1>6. Cardinality(P) = Cardinality(NormalParams(it)) + Cardinality(ObjectParams(it))
    <2>1. Cardinality(NormalParams(it) \cup ObjectParams(it))
            = Cardinality(NormalParams(it)) + Cardinality(ObjectParams(it))
              - Cardinality(NormalParams(it) \cap ObjectParams(it))
        BY <1>5, FS_Union
    <2>2. Cardinality(NormalParams(it) \cap ObjectParams(it)) = 0
        BY <1>3, FS_EmptySet
    <2>3. Cardinality(NormalParams(it)) \in Nat
        BY <1>5, FS_CardinalityType
    <2>4. Cardinality(ObjectParams(it)) \in Nat
        BY <1>5, FS_CardinalityType
    <2>5. Cardinality(P) = Cardinality(NormalParams(it) \cup ObjectParams(it))
        BY <1>2, Zenon
    <2> QED
        BY <2>1, <2>2, <2>3, <2>4, <2>5
<1> QED
    BY <1>1, <1>4, <1>6 DEF Arity

\* The setter and getter checks count `args`, which holds the self
\* receiver of a method and not the first-argument receiver of a static
\* function; with the count 2 or 1 (setter) and 1 or 0 (getter) chosen by
\* the receiver kind, they accept exactly one parameter (setter) and none
\* (getter) besides the receiver (the numeric edge of lib.rs:954).
THEOREM AccessorChecksCountParameters ==
    ASSUME NEW it \in FnDecl, it.hasSelf \/ it.typed # <<>>
    PROVE  /\ SetterOk(it) <=> ParamCount(it) = 1 /\ it.output \in {"default", "unit"}
           /\ GetterOk(it) <=> ParamCount(it) = 0
<1>1. it.typed \in Seq([name : STRING, ty : InputTys])
    BY DEF FnDecl
<1>2. ArgsLen(it) = IF it.hasSelf THEN ParamCount(it) + 1 ELSE ParamCount(it)
    BY <1>1 DEF ArgsLen, ParamCount
<1> QED
    BY <1>2, TypedArgsLen DEF SetterOk, GetterOk
=============================================================================
