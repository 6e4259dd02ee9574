------------------------------ MODULE InputQueue ------------------------------
(***************************************************************************)
(* What the input queue of the editor promises: characters are taken in    *)
(* the order in which the strings they are in were appended, each of them  *)
(* once, and the terminal is read only when there are none.                *)
(***************************************************************************)
EXTENDS Sequences, SequencesExt

VARIABLES queue,        \* the characters waiting
          taken         \* the last one taken: [char, from]

queueVars == <<queue, taken>>

QueueInit == queue = <<>>

Take ==
  /\ queue # <<>>
  /\ taken' = [char |-> Head(queue), from |-> "queue"]
  /\ queue' = Tail(queue)

ReadTerminal ==
  /\ queue = <<>>
  /\ taken'.from = "terminal"
  /\ UNCHANGED queue

AppendString == Len(queue') > Len(queue) /\ IsPrefix(queue, queue') /\ UNCHANGED taken

Flush == queue' = <<>> /\ UNCHANGED taken

QueueNext == Take \/ ReadTerminal \/ AppendString \/ Flush

QueueSpec == QueueInit /\ [][QueueNext]_queueVars
===============================================================================
