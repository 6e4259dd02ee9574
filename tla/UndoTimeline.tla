----------------------------- MODULE UndoTimeline -----------------------------
(***************************************************************************)
(* What undo and redo promise a user: the states the line went through,    *)
(* oldest first, and the place of the present one among them.  Undo and    *)
(* redo only move that place; they never change a state, and an edit       *)
(* forgets what was undone.  A state is a record with a field text.        *)
(***************************************************************************)
EXTENDS Integers, Sequences

CONSTANT Depth          \* states kept besides the present one

VARIABLES states,       \* the states of the line, oldest first
          now,          \* which of them is the present one
          slipped       \* typing has begun behind an undo and is not yet known to
                        \* whoever keeps the states

timelineVars == <<states, now>>

TimelineInit == Len(states) = 1 /\ now = 1

\* An edit: what was undone is forgotten, and the oldest state when there
\* are too many.
Change ==
  LET kept == SubSeq(states, 1, now)
      from == IF now > Depth THEN 2 ELSE 1
  IN /\ states' = Append(SubSeq(kept, from, now), states'[now'])
     /\ now' = Len(states')

\* The present state is another; the others stay.
Replaced == now' = now /\ states' = [states EXCEPT ![now] = states'[now]]

\* The text of the present state grows as typing goes on, which it only does
\* when nothing is undone; its cursor may move at any time.
Retouch ==
  /\ Replaced
  /\ now = Len(states) \/ states'[now].text = states[now].text

\* The promise is not kept: typing changes the present state and what was
\* undone stays.
Slip == slipped /\ Replaced

UndoStep == now > 1 /\ now' = now - 1 /\ UNCHANGED states
RedoStep == now < Len(states) /\ now' = now + 1 /\ UNCHANGED states

\* A new line, or the line started over: only its first state is left.
Restart == Len(states') = 1 /\ now' = 1

TimelineNext == Change \/ Retouch \/ Slip \/ UndoStep \/ RedoStep \/ Restart

TimelineSpec == TimelineInit /\ [][TimelineNext]_timelineVars
===============================================================================
