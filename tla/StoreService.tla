----------------------------- MODULE StoreService -----------------------------
(***************************************************************************)
(* What a caller of SqlMgr/DBConnector.m may count on, and all of it: the  *)
(* operations run one at a time; an operation makes its statements take    *)
(* effect in their order, each at most once, until one fails, and none     *)
(* after that.  It ends when all took effect or one failed, or at once if  *)
(* the file does not open; its caller is told nothing.                     *)
(***************************************************************************)
EXTENDS Naturals, Sequences

CONSTANTS Op,         \* the operations
          Effects(_), \* the statements of an operation, in their order
          Null

VARIABLES op,     \* the operation that runs, or Null
          done,   \* its statements that have taken effect, in that order
          failed  \* whether the file did not open or a statement failed

Init == op = Null /\ done = <<>> /\ failed = FALSE

Begin(o) == op = Null /\ op' = o /\ done' = <<>> /\ failed' = FALSE

\* The file does not open.
Refuse == /\ op # Null /\ ~failed /\ done = <<>>
          /\ op' = Null /\ failed' = TRUE
          /\ UNCHANGED done

\* A statement is to come, and nothing has failed.
GoesOn == op # Null /\ ~failed /\ Len(done) < Len(Effects(op))

Effect == /\ GoesOn
          /\ done' = Append(done, Effects(op)[Len(done) + 1])
          /\ UNCHANGED <<op, failed>>

Fail == GoesOn /\ failed' = TRUE /\ UNCHANGED <<op, done>>

End == /\ op # Null /\ (failed \/ done = Effects(op))
       /\ op' = Null
       /\ UNCHANGED <<done, failed>>

Next == (\E o \in Op : Begin(o)) \/ Refuse \/ Effect \/ Fail \/ End
Spec == Init /\ [][Next]_<<op, done, failed>>
=============================================================================
