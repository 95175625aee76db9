--------------------------- MODULE MarshalOutcome ---------------------------
(***************************************************************************)
(* What a generated marshaling function promises its caller (spec 4.3 and  *)
(* section 7), as one step from the slots it was called with to its end:   *)
(*   - some slot holds a value of the wrong type: a script-level error     *)
(*     naming one such slot (a constructor returns it as Err; any other    *)
(*     method writes it to slot 0 and aborts the fiber); the body never    *)
(*     runs;                                                               *)
(*   - every slot converts: the body runs once with argument i taken from  *)
(*     slot i, and its result reaches slot 0 (a constructor returns it);   *)
(*   - or, every slot converting, a programmer error panics: the body      *)
(*     itself or the return conversion.                                    *)
(* Marshal implements it under MarshalRefinement (proved in MarshalProofs). *)
(***************************************************************************)
EXTENDS WrenSlots

VARIABLES fn, slot, outcome, invoked, callArgs, ret, fiberAborted

avars == <<fn, slot, outcome, invoked, callArgs, ret, fiberAborted>>

n == fn.arity

\* The message of a failed extraction of slot i, naming that slot and the
\* declared type of the parameter read from it.
FailureMsg(i) == [slot |-> i, param |-> i - 1]

SlotsConvert == \A i \in 1 .. n : slot[i] \in Vals

ArgsOfSlots == [i \in 1 .. n |-> slot[i]]

Init ==
    /\ fn \in Descriptors
    /\ slot \in {s \in [0 .. fn.arity -> Vals \cup {Mismatch, Recv}] :
                    /\ s[0] = Recv
                    /\ \A i \in 1 .. fn.arity : s[i] # Recv}
    /\ outcome = "running"
    /\ invoked = FALSE
    /\ callArgs = <<>>
    /\ ret = None
    /\ fiberAborted = FALSE

ScriptError ==
    /\ outcome = "running"
    /\ \E i \in 1 .. n :
          /\ slot[i] = Mismatch
          /\ \/ /\ fn.ctor
                /\ ret' = FailureMsg(i)
                /\ outcome' = "returned"
                /\ UNCHANGED <<slot, fiberAborted>>
             \/ /\ ~fn.ctor
                /\ slot' = [slot EXCEPT ![0] = FailureMsg(i)]
                /\ fiberAborted' = TRUE
                /\ outcome' = "aborted"
                /\ UNCHANGED ret
    /\ UNCHANGED <<fn, invoked, callArgs>>

Return ==
    /\ outcome = "running"
    /\ SlotsConvert
    /\ invoked' = TRUE
    /\ callArgs' = ArgsOfSlots
    /\ \/ /\ ~fn.ctor
          /\ \E r \in Vals : ret' = r /\ slot' = [slot EXCEPT ![0] = r]
       \/ /\ fn.ctor
          /\ \E r \in Vals \cup {UserErr} : ret' = r
          /\ UNCHANGED slot
    /\ outcome' = "returned"
    /\ UNCHANGED <<fn, fiberAborted>>

Panic ==
    /\ outcome = "running"
    /\ SlotsConvert
    /\ invoked' = TRUE
    /\ callArgs' = ArgsOfSlots
    /\ outcome' = "panicked"
    /\ UNCHANGED <<fn, slot, ret, fiberAborted>>

Next == ScriptError \/ Return \/ Panic

Spec == Init /\ [][Next]_avars
=============================================================================
