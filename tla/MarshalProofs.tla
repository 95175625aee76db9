---------------------------- MODULE MarshalProofs ----------------------------
(***************************************************************************)
(* Proofs about Marshal, the generated marshaling function, for every      *)
(* value of the constants: its type invariant; that the native method     *)
(* receives argument i from slot i (ArgsFromOwnSlots); that a script error *)
(* names a failing slot and a mismatch never panics; and that Marshal      *)
(* implements the MarshalOutcome contract (Refinement).                    *)
(***************************************************************************)
EXTENDS MarshalRefinement, FiniteSetTheorems, SequenceTheorems, TLAPS

USE SlotsAssumption DEF n

\* What a descriptor drawn from Descriptors provides.
LEMMA DescriptorFacts ==
    ASSUME NEW d \in Descriptors
    PROVE  /\ d.arity \in 0 .. MaxArity
           /\ d.kind \in [Positions(d.arity) -> Kinds]
           /\ d.ctor \in BOOLEAN
BY DEF Descriptors

\* Every position is plain or object, so when neither group has a pending
\* position every argument has been extracted.
LEMMA AllExtracted ==
    ASSUME TypeOK, PendingPlain = {}, PendingObject = {}
    PROVE  \A p \in Positions(n) : arg[p] \in Vals
<1> SUFFICES ASSUME NEW p \in Positions(n) PROVE arg[p] \in Vals
    OBVIOUS
<1>1. fn.kind[p] \in Kinds
    BY DescriptorFacts DEF TypeOK
<1>2. arg[p] # None
    BY <1>1 DEF PendingPlain, PendingObject, PlainPositions, ObjectPositions, Kinds
<1> QED
    BY <1>2 DEF TypeOK

-----------------------------------------------------------------------------
(* The sort of call_args.  RankIn is a one-to-one map of a finite set of   *)
(* positions onto 0 .. Cardinality(S) - 1, so KthOf picks a unique element *)
(* for each k, and every element is picked for its own rank.               *)

\* Rank is bounded by the size of the set and strictly increasing.
LEMMA RankBounds ==
    ASSUME NEW S \in SUBSET Nat, IsFiniteSet(S)
    PROVE  /\ \A p \in S : RankIn(S, p) \in 0 .. Cardinality(S) - 1
           /\ \A p, q \in S : p < q => RankIn(S, p) < RankIn(S, q)
<1>1. ASSUME NEW p \in S PROVE RankIn(S, p) \in 0 .. Cardinality(S) - 1
    <2>1. {q \in S : q < p} \subseteq S \ {p}
        OBVIOUS
    <2>2. IsFiniteSet(S \ {p}) /\ Cardinality(S \ {p}) = Cardinality(S) - 1
        <3>1. IsFiniteSet(S \ {p})
              /\ Cardinality(S \ {p}) = IF p \in S THEN Cardinality(S) - 1
                                                    ELSE Cardinality(S)
            BY FS_RemoveElement, Zenon
        <3> QED
            BY <3>1
    <2>3. IsFiniteSet({q \in S : q < p})
          /\ Cardinality({q \in S : q < p}) <= Cardinality(S \ {p})
        BY <2>1, <2>2, FS_Subset
    <2>4. Cardinality({q \in S : q < p}) \in Nat
        BY <2>3, FS_CardinalityType
    <2> QED
        BY <2>2, <2>3, <2>4 DEF RankIn
<1>2. ASSUME NEW p \in S, NEW q \in S, p < q PROVE RankIn(S, p) < RankIn(S, q)
    <2> DEFINE Below(x) == {y \in S : y < x}
    <2>0. p \in Nat /\ q \in Nat /\ S \subseteq Nat
        OBVIOUS
    <2>1. Below(p) \subseteq Below(q) /\ p \in Below(q) /\ p \notin Below(p)
        <3>1. \A y \in S : y < p => y < q
            BY <1>2, <2>0
        <3>2. p < q /\ ~(p < p)
            BY <1>2, <2>0
        <3> QED
            BY <3>1, <3>2, Zenon DEF Below
    <2>2. IsFiniteSet(Below(q))
        BY FS_Subset DEF Below
    <2>3. Cardinality(Below(p)) <= Cardinality(Below(q))
          /\ (Cardinality(Below(q)) = Cardinality(Below(p)) => Below(q) = Below(p))
        BY <2>1, <2>2, FS_Subset
    <2>4. Cardinality(Below(p)) \in Nat /\ Cardinality(Below(q)) \in Nat
        BY <2>1, <2>2, FS_Subset, FS_CardinalityType
    <2> QED
        BY <2>1, <2>3, <2>4 DEF RankIn, Below
<1> QED
    BY <1>1, <1>2

\* KthOf(S, k) is the element of rank k - 1, and each element is the
\* KthOf of its own rank.
LEMMA KthOfFacts ==
    ASSUME NEW S \in SUBSET Nat, IsFiniteSet(S)
    PROVE  /\ \A k \in 1 .. Cardinality(S) :
                  KthOf(S, k) \in S /\ RankIn(S, KthOf(S, k)) = k - 1
           /\ \A p \in S : KthOf(S, RankIn(S, p) + 1) = p
<1> DEFINE T == 0 .. Cardinality(S) - 1
           f == [p \in S |-> RankIn(S, p)]
<1>0. Cardinality(S) \in Nat
    BY FS_CardinalityType
<1>1. \A p, q \in S : RankIn(S, p) = RankIn(S, q) => p = q
    <2> SUFFICES ASSUME NEW p \in S, NEW q \in S, p # q
                 PROVE  RankIn(S, p) # RankIn(S, q)
        OBVIOUS
    <2> QED
        BY RankBounds
<1>2. f \in Injection(S, T)
    BY <1>1, RankBounds DEF Injection, IsInjective, f, T
<1>3. IsFiniteSet(T) /\ Cardinality(T) = Cardinality(S)
    <2>1. 0 \in Int /\ Cardinality(S) - 1 \in Int
        BY <1>0
    <2>2. IsFiniteSet(0 .. Cardinality(S) - 1)
          /\ Cardinality(0 .. Cardinality(S) - 1)
                = IF 0 > Cardinality(S) - 1 THEN 0 ELSE Cardinality(S) - 1 - 0 + 1
        BY <2>1, FS_Interval, Zenon
    <2> QED
        BY <1>0, <2>2 DEF T
<1>4. f \in Surjection(S, T)
    BY <1>2, <1>3, FS_Injection
<1>5. \A k \in 1 .. Cardinality(S) : \E p \in S : RankIn(S, p) = k - 1
    <2>1. \A t \in T : \E p \in S : f[p] = t
        BY <1>4, Zenon DEF Surjection
    <2>2. \A t \in T : \E p \in S : RankIn(S, p) = t
        BY <2>1 DEF f
    <2> QED
        BY <1>0, <2>2 DEF T
<1>6. \A k \in 1 .. Cardinality(S) :
          KthOf(S, k) \in S /\ RankIn(S, KthOf(S, k)) = k - 1
    BY <1>5 DEF KthOf
<1>7. ASSUME NEW p \in S PROVE KthOf(S, RankIn(S, p) + 1) = p
    <2> DEFINE r == RankIn(S, p)
    <2>1. r + 1 \in 1 .. Cardinality(S) /\ (r + 1) - 1 = r
        BY <1>0, RankBounds
    <2>2. KthOf(S, r + 1) \in S /\ RankIn(S, KthOf(S, r + 1)) = (r + 1) - 1
        BY <2>1, <1>6, Zenon
    <2>3. RankIn(S, KthOf(S, r + 1)) = r /\ KthOf(S, r + 1) \in S
        BY <2>1, <2>2
    <2> QED
        BY <2>3, <1>1
<1> QED
    BY <1>6, <1>7

\* ParamSeq(S) lists S without repetition.
LEMMA ParamSeqFacts ==
    ASSUME NEW S \in SUBSET Nat, IsFiniteSet(S)
    PROVE  /\ ParamSeq(S) \in Seq(Nat)
           /\ Len(ParamSeq(S)) = Cardinality(S)
           /\ {ParamSeq(S)[j] : j \in 1 .. Len(ParamSeq(S))} = S
<1>0. Cardinality(S) \in Nat
    BY FS_CardinalityType
<1>1. \A j \in 1 .. Cardinality(S) : KthOf(S, j) \in S
    BY KthOfFacts
<1>2. ParamSeq(S) \in Seq(Nat) /\ Len(ParamSeq(S)) = Cardinality(S)
    <2>1. \A j \in 1 .. Cardinality(S) : KthOf(S, j) \in Nat
        BY <1>1, Zenon
    <2> QED
        BY <1>0, <2>1 DEF ParamSeq
<1>3. \A p \in S : \E j \in 1 .. Cardinality(S) : KthOf(S, j) = p
    BY <1>0, KthOfFacts, RankBounds
<1> QED
    BY <1>1, <1>2, <1>3 DEF ParamSeq

\* Each position has rank equal to itself among the positions 0 .. n - 1.
LEMMA PositionRank ==
    ASSUME NEW m \in Nat, NEW p \in 0 .. m - 1
    PROVE  RankIn(Positions(m), p) = p
<1>1. {q \in Positions(m) : q < p} = 0 .. p - 1
    BY DEF Positions
<1>2. IsFiniteSet(0 .. p - 1) /\ Cardinality(0 .. p - 1) = IF 0 > p - 1 THEN 0 ELSE p - 1 - 0 + 1
    <2>1. 0 \in Int /\ p - 1 \in Int
        OBVIOUS
    <2> QED
        BY <2>1, FS_Interval, Zenon
<1>3. Cardinality({q \in Positions(m) : q < p}) = Cardinality(0 .. p - 1)
    BY <1>1, Zenon
<1> QED
    BY <1>2, <1>3 DEF RankIn

\* The sort of the objects-first chain of call_args lists the positions in
\* declaration order, whatever the mix of plain and object parameters.
LEMMA CallOrderIsPositionOrder ==
    ASSUME fn \in Descriptors
    PROVE  CallOrder = [i \in 1 .. n |-> i - 1]
<1> DEFINE O == ObjectPositions
           P == PlainPositions
           A == ParamSeq(O)
           B == ParamSeq(P)
<1>0. n \in Nat /\ fn.kind \in [Positions(n) -> Kinds]
    BY DescriptorFacts
<1>1. /\ O \subseteq Positions(n) /\ P \subseteq Positions(n)
      /\ O \cap P = {} /\ O \cup P = Positions(n)
    BY <1>0 DEF ObjectPositions, PlainPositions, Kinds
<1>2. /\ Positions(n) \subseteq Nat
      /\ IsFiniteSet(Positions(n)) /\ Cardinality(Positions(n)) = n
    <2>1. 0 \in Int /\ n - 1 \in Int
        BY <1>0
    <2>2. IsFiniteSet(0 .. n - 1)
          /\ Cardinality(0 .. n - 1) = IF 0 > n - 1 THEN 0 ELSE n - 1 - 0 + 1
        BY <2>1, FS_Interval, Zenon
    <2> QED
        BY <1>0, <2>2 DEF Positions
<1>3. O \subseteq Nat /\ P \subseteq Nat /\ IsFiniteSet(O) /\ IsFiniteSet(P)
    BY <1>1, <1>2, FS_Subset
<1>4. /\ A \in Seq(Nat) /\ Len(A) = Cardinality(O) /\ {A[j] : j \in 1 .. Len(A)} = O
      /\ B \in Seq(Nat) /\ Len(B) = Cardinality(P) /\ {B[j] : j \in 1 .. Len(B)} = P
    BY <1>3, ParamSeqFacts
<1>5. Cardinality(O) + Cardinality(P) = n
    <2>1. Cardinality(O \cup P) = Cardinality(O) + Cardinality(P) - Cardinality(O \cap P)
        BY <1>3, FS_Union
    <2>2. Cardinality(O \cap P) = 0
        BY <1>1, FS_EmptySet
    <2>3. Cardinality(O \cup P) = n
        BY <1>1, <1>2, Zenon
    <2>4. Cardinality(O) \in Nat /\ Cardinality(P) \in Nat
        BY <1>3, FS_CardinalityType
    <2> QED
        BY <2>1, <2>2, <2>3, <2>4
<1>6. /\ Len(CallChain) = n
      /\ \A j \in 1 .. n : CallChain[j] = IF j <= Len(A) THEN A[j] ELSE B[j - Len(A)]
    <2>1. /\ A \o B \in Seq(Nat)
          /\ Len(A \o B) = Len(A) + Len(B)
          /\ \A j \in 1 .. Len(A) + Len(B) :
                (A \o B)[j] = IF j <= Len(A) THEN A[j] ELSE B[j - Len(A)]
        BY <1>4, ConcatProperties, Zenon
    <2> QED
        BY <1>4, <1>5, <2>1 DEF CallChain
<1>7. {CallChain[j] : j \in 1 .. Len(CallChain)} = Positions(n)
    <2>1. /\ \A j \in 1 .. Len(A) : A[j] \in O
          /\ \A j \in 1 .. Len(B) : B[j] \in P
          /\ \A p \in O : \E j \in 1 .. Len(A) : A[j] = p
          /\ \A p \in P : \E j \in 1 .. Len(B) : B[j] = p
        BY <1>4, Zenon
    <2>2. Len(A) \in Nat /\ Len(B) \in Nat /\ Len(A) + Len(B) = n
        BY <1>4, <1>5
    <2>3. \A j \in 1 .. n : CallChain[j] \in O \cup P
        <3> SUFFICES ASSUME NEW j \in 1 .. n PROVE CallChain[j] \in O \cup P
            OBVIOUS
        <3>1. CASE j <= Len(A)
            BY <3>1, <2>1, <2>2, <1>6
        <3>2. CASE ~(j <= Len(A))
            <4>1. j - Len(A) \in 1 .. Len(B) /\ CallChain[j] = B[j - Len(A)]
                BY <3>2, <2>2, <1>6
            <4> QED
                BY <4>1, <2>1
        <3> QED
            BY <3>1, <3>2
    <2>4. \A p \in O : \E j \in 1 .. n : CallChain[j] = p
        BY <2>1, <2>2, <1>6
    <2>5. \A p \in P : \E j \in 1 .. n : CallChain[j] = p
        <3> SUFFICES ASSUME NEW p \in P PROVE \E j \in 1 .. n : CallChain[j] = p
            OBVIOUS
        <3>1. PICK k \in 1 .. Len(B) : B[k] = p
            BY <2>1
        <3>2. Len(A) + k \in 1 .. n /\ CallChain[Len(A) + k] = B[k]
            BY <2>2, <1>6
        <3> QED
            BY <3>1, <3>2
    <2> QED
        BY <1>1, <1>6, <2>3, <2>4, <2>5
<1>8. \A i \in 1 .. n : KthOf(Positions(n), i) = i - 1
    <2> SUFFICES ASSUME NEW i \in 1 .. n PROVE KthOf(Positions(n), i) = i - 1
        OBVIOUS
    <2>1. RankIn(Positions(n), i - 1) = i - 1
        BY <1>0, PositionRank
    <2>2. \A p \in Positions(n) : KthOf(Positions(n), RankIn(Positions(n), p) + 1) = p
        BY <1>2, KthOfFacts, Zenon
    <2>3. KthOf(Positions(n), RankIn(Positions(n), i - 1) + 1) = i - 1
        <3>1. i - 1 \in Positions(n)
            BY <1>0 DEF Positions
        <3> QED
            BY <3>1, <2>2, Zenon
    <2> QED
        BY <2>1, <2>3
<1> QED
    BY <1>6, <1>7, <1>8 DEF CallOrder, SortByPosition

\* The arguments the call passes are the extracted ones in position order.
LEMMA CallArgsInOrder ==
    ASSUME fn \in Descriptors
    PROVE  [i \in 1 .. Len(CallOrder) |-> arg[CallOrder[i]]] = [i \in 1 .. n |-> arg[i - 1]]
<1>1. n \in Nat
    BY DescriptorFacts
<1>2. CallOrder = [i \in 1 .. n |-> i - 1]
    BY CallOrderIsPositionOrder
<1> QED
    BY <1>1, <1>2

\* The argument sequence the call builds is a sequence of values.
LEMMA CallArgsType ==
    ASSUME TypeOK, \A p \in Positions(n) : arg[p] \in Vals
    PROVE  /\ [i \in 1 .. n |-> arg[i - 1]] \in Seq(Vals)
           /\ Len([i \in 1 .. n |-> arg[i - 1]]) = n
<1>1. n \in Nat
    BY DescriptorFacts DEF TypeOK
<1>2. \A i \in 1 .. n : arg[i - 1] \in Vals
    BY <1>1 DEF Positions
<1> QED
    BY <1>1, <1>2

-----------------------------------------------------------------------------
\* TypeOK is not inductive alone: WriteReturn copies ret into slot 0, so a
\* pending return must already be a value.
TypeInv ==
    /\ TypeOK
    /\ status = "called" => ret \in Vals

LEMMA TypeInvInit == Init => TypeInv
<1> SUFFICES ASSUME Init PROVE TypeInv
    OBVIOUS
<1>1. fn \in Descriptors /\ fn.arity \in 0 .. MaxArity
    BY DescriptorFacts DEF Init
<1>2. slot \in [0 .. n -> SlotVal]
    BY DEF Init, SlotVal
<1>3. arg \in [Positions(n) -> Vals \cup {None}]
    BY DEF Init
<1>4. callArgs \in Seq(Vals)
    BY DEF Init
<1>5. ncalc \in 0 .. n
    BY <1>1 DEF Init
<1> QED
    BY <1>1, <1>2, <1>3, <1>4, <1>5 DEF Init, TypeInv, TypeOK, Status

LEMMA TypeInvStep == TypeInv /\ [Next]_vars => TypeInv'
<1> SUFFICES ASSUME TypeInv, [Next]_vars PROVE TypeInv'
    OBVIOUS
<1> USE DEF TypeInv
<1>0. n \in 0 .. MaxArity
    BY DescriptorFacts DEF TypeOK
<1>1. CASE BuildCursor
    BY <1>1, <1>0 DEF BuildCursor, TypeOK, n
<1>2. ASSUME NEW p \in Positions(n), ExtractPlain(p) \/ ExtractObject(p)
      PROVE  TypeInv'
    <2>1. Extract(p)
        BY <1>2 DEF ExtractPlain, ExtractObject
    <2>2. ErrMsg(p) \in Msg
        BY <1>0 DEF ErrMsg, SlotOf, Msg, Positions
    <2>3. CASE ExtractOk(p)
        BY <2>3, <1>0 DEF ExtractOk, TypeOK, n, SlotOf, Positions
    <2>4. CASE ExtractFailCtor(p)
        BY <2>4, <2>2 DEF ExtractFailCtor, TypeOK, Status
    <2>5. CASE ExtractFailAbort(p)
        BY <2>5, <2>2 DEF ExtractFailAbort, TypeOK, Status, SlotVal
    <2> QED
        BY <2>1, <2>3, <2>4, <2>5 DEF Extract
<1>3. CASE Invoke
    <2>1. \A p \in Positions(n) : arg[p] \in Vals
        BY <1>3, AllExtracted DEF Invoke, ArgsReady
    <2>2. callArgs' = [i \in 1 .. n |-> arg[i - 1]]
        BY <1>3, CallArgsInOrder DEF Invoke, TypeOK
    <2> QED
        BY <1>3, <2>1, <2>2, CallArgsType DEF Invoke, TypeOK, Status, n
<1>4. CASE BodyPanic
    <2>1. \A p \in Positions(n) : arg[p] \in Vals
        BY <1>4, AllExtracted DEF BodyPanic, ArgsReady
    <2>2. callArgs' = [i \in 1 .. n |-> arg[i - 1]]
        BY <1>4, CallArgsInOrder DEF BodyPanic, TypeOK
    <2> QED
        BY <1>4, <2>1, <2>2, CallArgsType DEF BodyPanic, TypeOK, Status, n
<1>5. CASE WriteReturn
    BY <1>5 DEF WriteReturn, TypeOK, Status, SlotVal, n
<1>6. CASE WriteReturnPanic
    BY <1>6 DEF WriteReturnPanic, TypeOK, Status, n
<1>7. CASE UNCHANGED vars
    BY <1>7 DEF vars, TypeOK, n
<1> QED
    BY <1>1, <1>2, <1>3, <1>4, <1>5, <1>6, <1>7 DEF Next

\* The type invariant of the generated function's state.
THEOREM TypeCorrect == Spec => []TypeOK
<1>1. TypeInv => TypeOK
    BY DEF TypeInv
<1> QED
    BY <1>1, TypeInvInit, TypeInvStep, PTL DEF Spec

-----------------------------------------------------------------------------
\* The strengthening of ArgsFromOwnSlots: an extracted argument equals its
\* slot (slots 1..n are never written), and once the body is entered the
\* extraction is over and callArgs is the sorted argument list.
ArgsInv ==
    /\ \A p \in Positions(n) : arg[p] \in Vals => arg[p] = slot[SlotOf(p)]
    /\ invoked => /\ status # "extract"
                  /\ callArgs = [i \in 1 .. n |-> arg[i - 1]]
                  /\ \A p \in Positions(n) : arg[p] \in Vals

LEMMA ArgsInvInit == Init => ArgsInv
BY DEF Init, ArgsInv

LEMMA ArgsInvStep == TypeInv /\ ArgsInv /\ [Next]_vars => ArgsInv'
<1> SUFFICES ASSUME TypeInv, ArgsInv, [Next]_vars PROVE ArgsInv'
    OBVIOUS
<1> USE DEF TypeInv, Positions, SlotOf
<1>0. n \in 0 .. MaxArity
    BY DescriptorFacts DEF TypeOK
<1>1. CASE BuildCursor
    BY <1>1 DEF BuildCursor, ArgsInv
<1>2. ASSUME NEW p \in Positions(n), ExtractPlain(p) \/ ExtractObject(p)
      PROVE  ArgsInv'
    <2>0. status = "extract" /\ Extract(p)
        BY <1>2 DEF ExtractPlain, ExtractObject
    <2>1. ~invoked
        BY <2>0 DEF ArgsInv
    <2>2. CASE ExtractOk(p)
        BY <2>1, <2>2, <1>0 DEF ExtractOk, ArgsInv, TypeOK, Positions
    <2>3. CASE ExtractFailCtor(p)
        BY <2>1, <2>3 DEF ExtractFailCtor, ArgsInv
    <2>4. CASE ExtractFailAbort(p)
        BY <2>1, <2>4, <1>0 DEF ExtractFailAbort, ArgsInv, TypeOK, SlotOf, Positions
    <2> QED
        BY <2>0, <2>2, <2>3, <2>4 DEF Extract
<1>3. CASE Invoke
    <2>1. \A p \in Positions(n) : arg[p] \in Vals
        BY <1>3, AllExtracted DEF Invoke, ArgsReady
    <2>2. callArgs' = [i \in 1 .. n |-> arg[i - 1]]
        BY <1>3, CallArgsInOrder DEF Invoke, TypeOK
    <2> QED
        BY <1>3, <2>1, <2>2 DEF Invoke, ArgsInv
<1>4. CASE BodyPanic
    <2>1. \A p \in Positions(n) : arg[p] \in Vals
        BY <1>4, AllExtracted DEF BodyPanic, ArgsReady
    <2>2. callArgs' = [i \in 1 .. n |-> arg[i - 1]]
        BY <1>4, CallArgsInOrder DEF BodyPanic, TypeOK
    <2> QED
        BY <1>4, <2>1, <2>2 DEF BodyPanic, ArgsInv
<1>5. CASE WriteReturn
    <2>1. \A p \in Positions(n) : slot'[SlotOf(p)] = slot[SlotOf(p)]
        BY <1>5, <1>0 DEF WriteReturn, TypeOK
    <2>2. UNCHANGED <<fn, arg, callArgs, invoked>> /\ status' # "extract"
        BY <1>5 DEF WriteReturn
    <2> QED
        BY <2>1, <2>2 DEF ArgsInv
<1>6. CASE WriteReturnPanic
    BY <1>6 DEF WriteReturnPanic, ArgsInv
<1>7. CASE UNCHANGED vars
    BY <1>7 DEF vars, ArgsInv
<1> QED
    BY <1>1, <1>2, <1>3, <1>4, <1>5, <1>6, <1>7 DEF Next

\* The native method receives its i-th argument from slot i, for every
\* method shape and every arity: the grouping of extraction into plain and
\* object passes is undone by the sort of call_args in gen_vm_fn_body.
THEOREM ArgsDelivered == Spec => []ArgsFromOwnSlots
<1>1. TypeInv /\ ArgsInv => ArgsFromOwnSlots
    <2> SUFFICES ASSUME TypeInv, ArgsInv, invoked
                 PROVE  /\ Len(callArgs) = n
                        /\ \A i \in 1 .. n : callArgs[i] = slot[i]
        BY DEF ArgsFromOwnSlots
    <2>0. n \in 0 .. MaxArity
        BY DescriptorFacts DEF TypeInv, TypeOK
    <2>1. callArgs = [i \in 1 .. n |-> arg[i - 1]]
        BY DEF ArgsInv
    <2>2. \A i \in 1 .. n : arg[i - 1] = slot[i]
        BY <2>0 DEF ArgsInv, SlotOf, Positions
    <2> QED
        BY <2>0, <2>1, <2>2
<1> QED
    BY <1>1, TypeInvInit, TypeInvStep, ArgsInvInit, ArgsInvStep, PTL DEF Spec

-----------------------------------------------------------------------------
\* Which slot a failure message names, and that it names it rightly: a slot
\* of the call holding a value of the wrong type, with the parameter read
\* from it.
FailedAt(m) ==
    /\ m \in Msg
    /\ m.slot \in 1 .. n
    /\ slot[m.slot] = Mismatch
    /\ m.param = m.slot - 1

\* The strengthening of ErrorNamesFailingSlot and MismatchIsScriptError:
\* slots 1..n hold what the VM passed (a value or a mismatch); a message in
\* ret or in slot 0 comes from the failure branch of an extraction, which
\* ends the call before the body; a pending return is a method's value;
\* and the body, a panic after extraction, or a pending return all mean
\* that every slot converted.
ErrInv ==
    /\ \A i \in 1 .. n : slot[i] \in Vals \cup {Mismatch}
    /\ ret \in Msg => FailedAt(ret) /\ fn.ctor /\ status = "returned" /\ ~invoked
    /\ status = "aborted" => FailedAt(slot[0]) /\ ~fn.ctor /\ ~invoked
    /\ status = "called" => ~fn.ctor /\ invoked
    /\ status = "extract" => callArgs = <<>> /\ ret = None
    /\ (invoked \/ status \in {"called", "panicked"}) => \A i \in 1 .. n : slot[i] \in Vals

\* A failure message of an extraction of position p names slot p + 1 and
\* the parameter p.
LEMMA ErrMsgFacts ==
    ASSUME TypeOK, NEW p \in Positions(n)
    PROVE  /\ ErrMsg(p) \in Msg
           /\ ErrMsg(p).slot = p + 1 /\ ErrMsg(p).slot \in 1 .. n
           /\ ErrMsg(p).param = ErrMsg(p).slot - 1
<1>1. n \in 0 .. MaxArity
    BY DescriptorFacts DEF TypeOK
<1> QED
    BY <1>1 DEF ErrMsg, SlotOf, Msg, Positions

\* Once every argument is extracted, every slot of the call converted.
LEMMA ReadySlotsConvert ==
    ASSUME TypeInv, ArgsInv, ArgsReady
    PROVE  \A i \in 1 .. n : slot[i] \in Vals
<1>0. n \in 0 .. MaxArity
    BY DescriptorFacts DEF TypeInv, TypeOK
<1>1. \A p \in Positions(n) : arg[p] \in Vals
    BY AllExtracted DEF ArgsReady, TypeInv
<1> SUFFICES ASSUME NEW i \in 1 .. n PROVE slot[i] \in Vals
    OBVIOUS
<1>2. i - 1 \in Positions(n) /\ SlotOf(i - 1) = i
    BY <1>0 DEF Positions, SlotOf
<1> QED
    BY <1>1, <1>2 DEF ArgsInv

LEMMA ErrInvInit == Init => ErrInv
<1> SUFFICES ASSUME Init PROVE ErrInv
    OBVIOUS
<1>1. \A i \in 1 .. n : slot[i] \in Vals \cup {Mismatch}
    BY DEF Init, n
<1> QED
    BY <1>1 DEF Init, ErrInv

LEMMA ErrInvStep == TypeInv /\ ArgsInv /\ ErrInv /\ [Next]_vars => ErrInv'
<1> SUFFICES ASSUME TypeInv, ArgsInv, ErrInv, [Next]_vars PROVE ErrInv'
    OBVIOUS
<1>0. n \in 0 .. MaxArity
    BY DescriptorFacts DEF TypeInv, TypeOK
<1>1. CASE BuildCursor
    BY <1>1 DEF BuildCursor, ErrInv, FailedAt, n
<1>2. ASSUME NEW p \in Positions(n), ExtractPlain(p) \/ ExtractObject(p)
      PROVE  ErrInv'
    <2>0. status = "extract" /\ Extract(p) /\ ~invoked /\ ret = None
        BY <1>2 DEF ExtractPlain, ExtractObject, ArgsInv, ErrInv
    <2>1. SlotOf(p) \in 1 .. n
        BY <1>0 DEF SlotOf, Positions
    <2>2. CASE ExtractOk(p)
        BY <2>0, <2>2 DEF ExtractOk, ErrInv, FailedAt, n
    <2>3. CASE ExtractFailCtor(p)
        <3>1. slot[SlotOf(p)] = Mismatch
            BY <2>1, <2>3 DEF ExtractFailCtor, ErrInv
        <3>2. FailedAt(ErrMsg(p))'
            BY <2>3, <3>1, ErrMsgFacts DEF ExtractFailCtor, TypeInv, FailedAt, SlotOf, n
        <3> QED
            BY <2>0, <2>3, <3>2 DEF ExtractFailCtor, ErrInv, n
    <2>4. CASE ExtractFailAbort(p)
        <3>1. slot[SlotOf(p)] = Mismatch
            BY <2>1, <2>4 DEF ExtractFailAbort, ErrInv
        <3>2. \A i \in 1 .. n : slot'[i] = slot[i]
            BY <2>4, <1>0 DEF ExtractFailAbort, TypeInv, TypeOK
        <3>5. slot'[0] = ErrMsg(p) /\ fn' = fn
            <4>1. 0 \in DOMAIN slot
                BY <1>0 DEF TypeInv, TypeOK
            <4> QED
                BY <2>4, <4>1 DEF ExtractFailAbort
        <3>6. /\ ErrMsg(p) \in Msg
              /\ ErrMsg(p).slot = SlotOf(p) /\ ErrMsg(p).slot \in 1 .. n
              /\ ErrMsg(p).param = ErrMsg(p).slot - 1
            BY ErrMsgFacts DEF TypeInv, SlotOf
        <3>3. FailedAt(slot[0])'
            BY <2>1, <3>1, <3>2, <3>5, <3>6 DEF FailedAt, n
        <3>4. ret \notin Msg
            BY <2>0, SlotsAssumption
        <3> QED
            BY <2>0, <2>4, <3>2, <3>3, <3>4 DEF ExtractFailAbort, ErrInv, n
    <2> QED
        BY <2>0, <2>2, <2>3, <2>4 DEF Extract
<1>3. CASE Invoke
    <2>1. \A i \in 1 .. n : slot[i] \in Vals
        BY <1>3, ReadySlotsConvert DEF Invoke
    <2>2. ret' \notin Msg
        BY <1>3, SlotsAssumption DEF Invoke
    <2> QED
        BY <1>3, <2>1, <2>2 DEF Invoke, ErrInv, n
<1>4. CASE BodyPanic
    <2>1. \A i \in 1 .. n : slot[i] \in Vals
        BY <1>4, ReadySlotsConvert DEF BodyPanic
    <2>2. ret = None
        BY <1>4 DEF BodyPanic, ArgsReady, ErrInv
    <2> QED
        BY <1>4, <2>1, <2>2, SlotsAssumption DEF BodyPanic, ErrInv, n
<1>5. CASE WriteReturn
    <2>1. invoked /\ ret \in Vals /\ \A i \in 1 .. n : slot[i] \in Vals
        BY <1>5 DEF WriteReturn, ErrInv, TypeInv
    <2>2. \A i \in 1 .. n : slot'[i] = slot[i]
        BY <1>5, <1>0 DEF WriteReturn, TypeInv, TypeOK
    <2>3. ret \notin Msg
        BY <2>1, SlotsAssumption
    <2> QED
        BY <1>5, <2>1, <2>2, <2>3 DEF WriteReturn, ErrInv, n
<1>6. CASE WriteReturnPanic
    <2>1. invoked /\ ret \in Vals
        BY <1>6 DEF WriteReturnPanic, ErrInv, TypeInv
    <2>2. ret \notin Msg
        BY <2>1, SlotsAssumption
    <2> QED
        BY <1>6, <2>1, <2>2 DEF WriteReturnPanic, ErrInv, n
<1>7. CASE UNCHANGED vars
    BY <1>7 DEF vars, ErrInv, FailedAt, n
<1> QED
    BY <1>1, <1>2, <1>3, <1>4, <1>5, <1>6, <1>7 DEF Next

\* The three invariants hold together in every reachable state.
LEMMA MarshalInv == Spec => [](TypeInv /\ ArgsInv /\ ErrInv)
BY TypeInvInit, TypeInvStep, ArgsInvInit, ArgsInvStep, ErrInvInit, ErrInvStep, PTL DEF Spec

\* A script-level error (a fiber abort, or a constructor's Err) names a
\* slot that really holds a value of the wrong type, with the parameter
\* read from that slot, and the method body never ran: for every method
\* shape and arity (ErrorNamesFailingSlot).
THEOREM ErrorsNameFailingSlot == Spec => []ErrorNamesFailingSlot
<1>1. ErrInv => ErrorNamesFailingSlot
    <2> SUFFICES ASSUME ErrInv,
                        status = "aborted" \/ (fn.ctor /\ ret \in Msg)
                 PROVE  LET m == IF fn.ctor THEN ret ELSE slot[0]
                        IN  /\ m \in Msg
                            /\ m.slot \in 1 .. n
                            /\ slot[m.slot] = Mismatch
                            /\ m.param = m.slot - 1
                            /\ ~invoked
        BY DEF ErrorNamesFailingSlot
    <2>1. CASE status = "aborted"
        BY <2>1 DEF ErrInv, FailedAt
    <2>2. CASE fn.ctor /\ ret \in Msg
        BY <2>2 DEF ErrInv, FailedAt
    <2> QED
        BY <2>1, <2>2
<1> QED
    BY <1>1, MarshalInv, PTL

\* A slot holding a value of the wrong type makes the call a script-level
\* error: the body never runs and the call never panics, whatever the
\* method's shape (MismatchIsScriptError).
THEOREM MismatchNeverPanics == Spec => []MismatchIsScriptError
<1>1. TypeInv /\ ErrInv => MismatchIsScriptError
    <2> SUFFICES ASSUME TypeInv, ErrInv, NEW i \in 1 .. n, slot[i] = Mismatch
                 PROVE  ~invoked /\ status \in {"extract", "aborted", "returned"}
        BY DEF MismatchIsScriptError
    <2>1. slot[i] \notin Vals
        BY SlotsAssumption
    <2>2. ~invoked /\ status \notin {"called", "panicked"}
        BY <2>1 DEF ErrInv
    <2> QED
        BY <2>2 DEF TypeInv, TypeOK, Status
<1> QED
    BY <1>1, MarshalInv, PTL

-----------------------------------------------------------------------------
(* Refinement: Marshal implements MarshalOutcome under the mapping of       *)
(* MarshalRefinement.                                                      *)

\* Once every argument is extracted, the sorted argument list is the list of
\* the call's slots, which is what the abstract call passes to the body.
LEMMA SortedArgsAreSlots ==
    ASSUME TypeInv, ArgsInv, \A p \in Positions(n) : arg[p] \in Vals
    PROVE  [i \in 1 .. n |-> arg[i - 1]] = Abs!ArgsOfSlots
<1>0. n \in 0 .. MaxArity
    BY DescriptorFacts DEF TypeInv, TypeOK
<1>1. \A i \in 1 .. n : arg[i - 1] = slot[i]
    BY <1>0 DEF ArgsInv, SlotOf, Positions
<1> QED
    BY <1>1 DEF Abs!ArgsOfSlots, Abs!n, n

LEMMA RefInit == Init => Abs!Init
BY DEF Init, Abs!Init, Abs!Descriptors, Descriptors, Abs!Positions, Positions, Abs!Kinds, Kinds,
       AbsOutcome, Done

\* One step of Marshal is one step of MarshalOutcome or a stutter of it.
LEMMA RefStep ==
    TypeInv /\ ArgsInv /\ ErrInv /\ [Next]_vars => [Abs!Next]_Abs!avars
<1> SUFFICES ASSUME TypeInv, ArgsInv, ErrInv, [Next]_vars
             PROVE  [Abs!Next]_Abs!avars
    OBVIOUS
<1>0. n \in 0 .. MaxArity
    BY DescriptorFacts DEF TypeInv, TypeOK
\* A step that keeps the status and every variable the abstraction shows is
\* a stutter.
<1>s. ASSUME UNCHANGED <<fn, slot, status, invoked, callArgs, ret, fiberAborted>>
      PROVE  UNCHANGED Abs!avars
    BY <1>s DEF Abs!avars, AbsOutcome, Done
<1>1. CASE BuildCursor
    BY <1>1, <1>s DEF BuildCursor
<1>2. ASSUME NEW p \in Positions(n), ExtractPlain(p) \/ ExtractObject(p)
      PROVE  [Abs!Next]_Abs!avars
    <2>0. status = "extract" /\ Extract(p) /\ ~invoked /\ ret = None /\ callArgs = <<>>
        BY <1>2 DEF ExtractPlain, ExtractObject, ArgsInv, ErrInv
    <2>1. SlotOf(p) \in 1 .. n /\ slot[SlotOf(p)] \in Vals \cup {Mismatch}
        BY <1>0 DEF SlotOf, Positions, ErrInv
    <2>2. ErrMsg(p) = Abs!FailureMsg(SlotOf(p))
        BY DEF ErrMsg, Abs!FailureMsg, SlotOf, Positions
    <2>3. CASE ExtractOk(p)
        BY <2>3, <1>s DEF ExtractOk
    <2>4. CASE ExtractFailCtor(p)
        <3>1. slot[SlotOf(p)] = Mismatch
            BY <2>1, <2>4 DEF ExtractFailCtor
        <3>2. Abs!ScriptError
            BY <2>0, <2>1, <2>2, <2>4, <3>1
               DEF ExtractFailCtor, Abs!ScriptError, AbsOutcome, Done, Abs!n, n
        <3> QED
            BY <3>2 DEF Abs!Next
    <2>5. CASE ExtractFailAbort(p)
        <3>1. slot[SlotOf(p)] = Mismatch
            BY <2>1, <2>5 DEF ExtractFailAbort
        <3>2. Abs!ScriptError
            BY <2>0, <2>1, <2>2, <2>5, <3>1
               DEF ExtractFailAbort, Abs!ScriptError, AbsOutcome, Done, Abs!n, n
        <3> QED
            BY <3>2 DEF Abs!Next
    <2> QED
        BY <2>0, <2>3, <2>4, <2>5 DEF Extract
<1>3. CASE Invoke
    <2>1. \A p \in Positions(n) : arg[p] \in Vals
        BY <1>3, AllExtracted DEF Invoke, ArgsReady, TypeInv
    <2>2. \A i \in 1 .. n : slot[i] \in Vals
        BY <1>3, ReadySlotsConvert DEF Invoke
    <2>3. callArgs' = Abs!ArgsOfSlots
        BY <1>3, <2>1, SortedArgsAreSlots, CallArgsInOrder DEF Invoke, TypeInv, TypeOK
    <2>4. status = "extract" /\ ~invoked /\ ret = None /\ callArgs = <<>>
        BY <1>3 DEF Invoke, ArgsReady, ArgsInv, ErrInv
    <2>5. CASE ~fn.ctor
        <3>1. status' = "called" /\ UNCHANGED <<fn, slot, fiberAborted>>
            BY <1>3, <2>5 DEF Invoke
        <3> QED
            BY <2>4, <3>1 DEF Abs!avars, AbsOutcome, Done
    <2>6. CASE fn.ctor
        <3>1. status' = "returned" /\ ret' \in Vals \cup {UserErr}
              /\ UNCHANGED <<fn, slot, fiberAborted>> /\ invoked'
            BY <1>3, <2>6 DEF Invoke
        <3>2. Abs!Return
            BY <2>2, <2>3, <2>4, <2>6, <3>1
               DEF Abs!Return, Abs!SlotsConvert, AbsOutcome, Done, Abs!n, n
        <3> QED
            BY <3>2 DEF Abs!Next
    <2> QED
        BY <2>5, <2>6
<1>4. CASE BodyPanic
    <2>1. \A p \in Positions(n) : arg[p] \in Vals
        BY <1>4, AllExtracted DEF BodyPanic, ArgsReady, TypeInv
    <2>2. \A i \in 1 .. n : slot[i] \in Vals
        BY <1>4, ReadySlotsConvert DEF BodyPanic
    <2>3. callArgs' = Abs!ArgsOfSlots
        BY <1>4, <2>1, SortedArgsAreSlots, CallArgsInOrder DEF BodyPanic, TypeInv, TypeOK
    <2>4. status = "extract" /\ ~invoked /\ ret = None
        BY <1>4 DEF BodyPanic, ArgsReady, ArgsInv, ErrInv
    <2>5. Abs!Panic
        BY <1>4, <2>2, <2>3, <2>4
           DEF BodyPanic, Abs!Panic, Abs!SlotsConvert, AbsOutcome, Done, Abs!n, n
    <2> QED
        BY <2>5 DEF Abs!Next
<1>5. CASE WriteReturn
    <2>1. invoked /\ ~fn.ctor /\ ret \in Vals /\ \A i \in 1 .. n : slot[i] \in Vals
        BY <1>5 DEF WriteReturn, ErrInv, TypeInv
    <2>2. \A p \in Positions(n) : arg[p] \in Vals
        BY <2>1 DEF ArgsInv
    <2>3. callArgs = Abs!ArgsOfSlots
        BY <2>1, <2>2, SortedArgsAreSlots DEF ArgsInv
    <2>4. Abs!Return
        BY <1>5, <2>1, <2>3
           DEF WriteReturn, Abs!Return, Abs!SlotsConvert, AbsOutcome, Done, Abs!n, n
    <2> QED
        BY <2>4 DEF Abs!Next
<1>6. CASE WriteReturnPanic
    <2>1. invoked /\ \A i \in 1 .. n : slot[i] \in Vals
        BY <1>6 DEF WriteReturnPanic, ErrInv
    <2>2. \A p \in Positions(n) : arg[p] \in Vals
        BY <2>1 DEF ArgsInv
    <2>3. callArgs = Abs!ArgsOfSlots
        BY <2>1, <2>2, SortedArgsAreSlots DEF ArgsInv
    <2>4. Abs!Panic
        BY <1>6, <2>1, <2>3
           DEF WriteReturnPanic, Abs!Panic, Abs!SlotsConvert, AbsOutcome, Done, Abs!n, n
    <2> QED
        BY <2>4 DEF Abs!Next
<1>7. CASE UNCHANGED vars
    BY <1>7, <1>s DEF vars
<1> QED
    BY <1>1, <1>2, <1>3, <1>4, <1>5, <1>6, <1>7 DEF Next

\* The generated marshaling function implements its contract (AbsSpec):
\* for every method shape and arity, every behaviour of the cursor chain,
\* the two extraction passes, the sorted call and the return is a
\* behaviour of MarshalOutcome, in which a call ends in one step as a
\* script error naming a failing slot, a return of the body's result
\* computed from the slots in order, or a panic.
THEOREM Refinement == Spec => AbsSpec
BY RefInit, RefStep, MarshalInv, PTL DEF Spec, AbsSpec, Abs!Spec

=============================================================================
