-------------------------- MODULE MarshalRefinement --------------------------
(***************************************************************************)
(* Marshal implements MarshalOutcome.  The generated function's internal   *)
(* steps (cursors, successful extractions, the body of a method before its *)
(* return is written) are stutters of the abstract call, and the step that *)
(* ends the call (a failed extraction, the return written, a constructor's *)
(* body returning, or a panic) is one abstract step.                       *)
(***************************************************************************)
EXTENDS Marshal

\* The abstract call has ended once Marshal reaches a final status.
AbsOutcome == IF Done THEN status ELSE "running"

Abs == INSTANCE MarshalOutcome
         WITH outcome <- AbsOutcome,
              invoked <- invoked /\ Done,
              callArgs <- IF Done THEN callArgs ELSE <<>>,
              ret <- IF status = "returned" THEN ret ELSE None

\* The generated function keeps the contract of MarshalOutcome: a mismatch
\* is a script error naming a failing slot, a full extraction runs the
\* body once with argument i from slot i and returns its result, and any
\* other end is a panic.
AbsSpec == Abs!Spec
=============================================================================
