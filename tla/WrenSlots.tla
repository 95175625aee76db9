------------------------------ MODULE WrenSlots ------------------------------
(***************************************************************************)
(* The vocabulary shared by the call-level modules: the constants that     *)
(* abstract slot contents, the descriptor of a declared method (the parts  *)
(* of WrenImplValidFn that the generated code depends on) and the message  *)
(* a failed extraction writes.                                             *)
(***************************************************************************)
EXTENDS Naturals, Sequences

CONSTANTS
    Vals,       \* values a slot can hold that convert to the declared type
    Mismatch,   \* a slot value of the wrong type or shape
    Recv,       \* the receiver the VM passes in slot 0
    None,       \* Option::None / not yet extracted
    UserErr,    \* an Err(String) built by a constructor's own body
    MaxArity    \* largest number of non-receiver parameters considered


Kinds == {"plain", "object"}

Positions(n) == 0 .. (n - 1)

\* A method with n non-receiver parameters, each plain or object-typed;
\* ctor marks the constructor, whose generated function returns a Result.
Descriptors ==
    UNION { [arity : {n}, kind : [Positions(n) -> Kinds], ctor : BOOLEAN] :
            n \in 0 .. MaxArity }

\* The text of the failure message, reduced to what it names.
Msg == [slot : 0 .. MaxArity, param : 0 .. (MaxArity - 1)]

SlotVal == Vals \cup Msg \cup {Mismatch, Recv}

\* The sentinels are distinct from the values and from one another, and a
\* failure message is none of them: it is the Err(format!(..)) arm of the
\* constructor's Result and a String written to slot 0, while a value is
\* the Ok arm or a converted return.
ASSUME SlotsAssumption ==
    /\ MaxArity \in Nat
    /\ Mismatch \notin Vals /\ Recv \notin Vals /\ None \notin Vals
    /\ UserErr \notin Vals
    /\ Mismatch # Recv /\ Mismatch # None /\ Recv # None
    /\ UserErr # None
    /\ Vals \cap Msg = {}
    /\ None \notin Msg /\ UserErr \notin Msg

=============================================================================
