------------------------------- MODULE TypeSplit ------------------------------
(***************************************************************************)
(* The type split of derive(WrenObject) (lines 44-430, 439-492): a struct  *)
(* Foo is split into FooClass, holding the fields marked                   *)
(* #[wren(static_member)], and FooInstance, holding the others; both get    *)
(* From<Foo>, and Foo gets From<(&FooClass, &FooInstance)>, which clones    *)
(* every field back from the half that owns it.                            *)
(*                                                                         *)
(* A struct is its shape (Fields::Unit, Named or Unnamed) and its fields   *)
(* in declaration order, each with its static flag and a value.  A named   *)
(* field's name is its position; a tuple field is reached by its 0-based   *)
(* index, as `source.#idx` and `class.#idx` do.  A value of a generated    *)
(* type is its kind ("unit" for `struct X;`, "struct" for braces, "tuple"  *)
(* for parentheses) and its fields, a function from names or indices.      *)
(***************************************************************************)
EXTENDS Naturals, Sequences, FiniteSets

CONSTANTS
    Vals,        \* field values
    MaxFields,   \* the largest number of fields of a struct
    CompileError \* what an access to a tuple field that does not exist yields

ASSUME TypeSplitAssumption == MaxFields \in Nat /\ CompileError \notin Vals

VARIABLES
    src,   \* the struct being split: [shape, fields]
    cls,   \* the FooClass value made by From<Foo> (the default allocator)
    inst,  \* the FooInstance value made by From<Foo> (the default constructor)
    back   \* the Foo value made by From<(&FooClass, &FooInstance)>

vars == <<src, cls, inst, back>>

Shapes == {"unit", "named", "unnamed"}

Field == [static : BOOLEAN, val : Vals]

\* The structs of at most MaxFields fields; a unit struct has none.
Sources ==
    {[shape |-> "unit", fields |-> <<>>]} \cup
    UNION {[shape : {"named", "unnamed"}, fields : [1 .. k -> Field]] : k \in 0 .. MaxFields}

NoVal  == [kind |-> "none", fields |-> <<>>]
UnitOf == [kind |-> "unit", fields |-> <<>>]

\* Field k of a generated value; a tuple index past the last field does
\* not compile.
FieldOf(v, k) == IF k \in DOMAIN v.fields THEN v.fields[k] ELSE CompileError

\* The positions of the fields that go into the half (static or not), in
\* declaration order: field_data.iter().enumerate().filter_map(...).
Valid(s, static) == SelectSeq([i \in 1 .. Len(s.fields) |-> i], LAMBDA i : s.fields[i].static = static)

\* generate_class and generate_instance, with their From<Foo> impls: the
\* Unit struct gives a unit struct; a Named one a struct of the valid fields,
\* each moved by name; an Unnamed one a tuple struct of them, each moved
\* from `source.#src_idx`, or a unit struct when none is valid.
GenerateHalf(s, static) ==
    LET valid == Valid(s, static) IN
    CASE s.shape = "unit" -> UnitOf
      [] s.shape = "named" ->
            [kind |-> "struct",
             fields |-> [nm \in {valid[k] : k \in DOMAIN valid} |-> s.fields[nm].val]]
      [] s.shape = "unnamed" ->
            IF valid = <<>> THEN UnitOf
            ELSE [kind |-> "tuple",
                  fields |-> [k \in 0 .. Len(valid) - 1 |-> s.fields[valid[k + 1]].val]]

GenerateClass(s)    == GenerateHalf(s, TRUE)
GenerateInstance(s) == GenerateHalf(s, FALSE)

\* The scan counters of generate_enhancements before source field i:
\* ci counts the static fields before it, ii the others.
Ci(s, i) == Cardinality({j \in 1 .. i - 1 : s.fields[j].static})
Ii(s, i) == Cardinality({j \in 1 .. i - 1 : ~s.fields[j].static})

\* Mutant of GenerateEnhancements: the tuple index is the field's source
\* index (enumerate) instead of its index within its half.
GenerateEnhancementsEnumerate(s, c, n) ==
    CASE s.shape = "unit" -> UnitOf
      [] s.shape = "named" ->
            [kind |-> "struct",
             fields |-> [nm \in 1 .. Len(s.fields) |->
                            IF s.fields[nm].static THEN FieldOf(c, nm) ELSE FieldOf(n, nm)]]
      [] s.shape = "unnamed" ->
            IF s.fields = <<>> THEN UnitOf
            ELSE [kind |-> "tuple",
                  fields |-> [k \in 0 .. Len(s.fields) - 1 |->
                                 IF s.fields[k + 1].static THEN FieldOf(c, k)
                                 ELSE FieldOf(n, k)]]

\* generate_enhancements, From<(&FooClass, &FooInstance)> for Foo: Unit
\* gives `Self`; Named clones each field by name from class or inst; an
\* Unnamed struct with fields clones field i from `class.#ci` or `inst.#ii`
\* and bumps that counter; one with none gives `Self`.
GenerateEnhancements(s, c, n) ==
    CASE s.shape = "unit" -> UnitOf
      [] s.shape = "named" ->
            [kind |-> "struct",
             fields |-> [nm \in 1 .. Len(s.fields) |->
                            IF s.fields[nm].static THEN FieldOf(c, nm) ELSE FieldOf(n, nm)]]
      [] s.shape = "unnamed" ->
            IF s.fields = <<>> THEN UnitOf
            ELSE [kind |-> "tuple",
                  fields |-> [k \in 0 .. Len(s.fields) - 1 |->
                                 IF s.fields[k + 1].static THEN FieldOf(c, Ci(s, k + 1))
                                 ELSE FieldOf(n, Ii(s, k + 1))]]

Init ==
    /\ src \in Sources
    /\ cls = NoVal
    /\ inst = NoVal
    /\ back = NoVal

\* ___default_alloc: Foo::default().into() gives the class record.
IntoClass ==
    /\ cls = NoVal
    /\ cls' = GenerateClass(src)
    /\ UNCHANGED <<src, inst, back>>

\* ___default_constructor: Ok(Foo::default().into()) gives the instance.
IntoInstance ==
    /\ inst = NoVal
    /\ inst' = GenerateInstance(src)
    /\ UNCHANGED <<src, cls, back>>

\* Slottable::get (`(&*ctx, inst).into()`) and From<&FooWrapper> for Foo
\* materialise the logical object from the two halves.
Join ==
    /\ cls # NoVal /\ inst # NoVal /\ back = NoVal
    /\ back' = GenerateEnhancements(src, cls, inst)
    /\ UNCHANGED <<src, cls, inst>>

Next == IntoClass \/ IntoInstance \/ Join

Spec == Init /\ [][Next]_vars

-----------------------------------------------------------------------------
(* Properties                                                              *)

\* The value the struct denotes, as the user wrote it.
Denoted(s) ==
    CASE s.shape = "unit"    -> UnitOf
      [] s.shape = "named"   -> [kind |-> "struct", fields |-> [nm \in 1 .. Len(s.fields) |-> s.fields[nm].val]]
      [] s.shape = "unnamed" -> [kind |-> "tuple", fields |-> [k \in 0 .. Len(s.fields) - 1 |-> s.fields[k + 1].val]]

\* Spec section 8: Foo -> (FooClass, FooInstance) -> Foo gives every field
\* its original value, static fields through the class half and the others
\* through the instance half, whatever the order of static and non-static
\* fields (the ci / ii counters of generate_enhancements).
RoundTrip == back # NoVal => back.fields = Denoted(src).fields

\* Spec section 4.1 (edge cases): a type with no fields still gets every
\* conversion; the Foo that From<(&FooClass, &FooInstance)> builds is a
\* value of Foo's own kind.
KindPreserved == back # NoVal => back.kind = Denoted(src).kind
=============================================================================
