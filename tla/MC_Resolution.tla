----------------------------- MODULE MC_Resolution -----------------------------
(* Model-checking instances of Resolution.                                  *)
EXTENDS Resolution

\* Typed inputs named by position: "a", "b"; "z" names no input.
TypedSeqs(maxLen, tys) ==
    UNION {[1 .. m -> {[name |-> nm, ty |-> t] : nm \in {"a"}, t \in tys}] : m \in 0 .. maxLen}

Named(s) == [k \in 1 .. Len(s) |-> [s[k] EXCEPT !.name = IF k = 1 THEN "a" ELSE "b"]]

\* One role flag per function (plain, getter, setter, constructor,
\* allocator, or an ignored plain function).
Roles ==
    { [allocator |-> a, constructor |-> c, getter |-> g, setter |-> st, ignore |-> ig] :
      <<a, c, g, st, ig>> \in {<<FALSE, FALSE, FALSE, FALSE, FALSE>>,
                               <<FALSE, FALSE, TRUE, FALSE, FALSE>>,
                               <<FALSE, FALSE, FALSE, TRUE, FALSE>>,
                               <<FALSE, TRUE, FALSE, FALSE, FALSE>>,
                               <<TRUE, FALSE, FALSE, FALSE, FALSE>>,
                               <<FALSE, FALSE, FALSE, FALSE, TRUE>>} }

MkItems(maxLen, tys, objs, outs) ==
    { [allocator |-> r.allocator, constructor |-> r.constructor, getter |-> r.getter,
       setter |-> r.setter, ignore |-> r.ignore, instance |-> inst, object |-> ob,
       hasSelf |-> hs, typed |-> Named(ty), output |-> out] :
      r \in Roles, inst \in BOOLEAN, ob \in objs, hs \in BOOLEAN,
      ty \in TypedSeqs(maxLen, tys), out \in outs }

\* Every single function up to two typed inputs.
MC_AllItems ==
    MkItems(2, InputTys, {<<>>, <<"a">>, <<"b">>, <<"z">>}, Outputs)

\* Blocks of two functions over a coarser choice of inputs.
MC_PairItems ==
    MkItems(1, {"classRef", "other"}, {<<>>, <<"z">>}, {"default", "unit", "instResult", "otherPath"})
=============================================================================
