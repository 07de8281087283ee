------------------------------ MODULE AnswerOnce ------------------------------
(***************************************************************************)
(* What the twin is promised of the actuation loop: of the commands it has *)
(* given out only the last can be answered, it is answered at most once,   *)
(* and the answers arrive in the order in which they were given.  Bus,     *)
(* channels, publisher and actuator do not appear.                         *)
(***************************************************************************)
EXTENDS Sequences

CONSTANTS Commands, NoCommand

VARIABLES
  awaited,     \* the command whose answer would be taken
  answered,    \* every command that has been answered
  answers      \* answers the twin has not handled

vars == <<awaited, answered, answers>>

Init == awaited = NoCommand /\ answered = {} /\ answers = << >>

\* A command is handed over; the one awaited until now is given up.
Await ==
  /\ awaited' \in Commands \ (answered \union {awaited})
  /\ UNCHANGED <<answered, answers>>

\* The awaited command is answered, for good.
Answer ==
  /\ awaited # NoCommand
  /\ \E ack \in BOOLEAN :
       answers' = Append(answers, [command |-> awaited, ack |-> ack])
  /\ answered' = answered \union {awaited}
  /\ awaited' = NoCommand

Take ==
  /\ answers # << >>
  /\ answers' = Tail(answers)
  /\ UNCHANGED <<awaited, answered>>

\* A crash forgets what is awaited and what has not been handled.
Forget ==
  /\ awaited' = NoCommand /\ answers' = << >>
  /\ UNCHANGED answered

Next == Await \/ Answer \/ Take \/ Forget

Spec == Init /\ [][Next]_vars
=============================================================================
