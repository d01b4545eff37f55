---------------------------- MODULE GazeSelector ----------------------------
(***************************************************************************)
(* GazeSelector of the satellite's behaviour/tracking.py: which detection   *)
(* the head follows.  Detections carry the identity of the result they are  *)
(* (its source, the source's generation and the result's number) and        *)
(* whether it is still fresh; how faces are chosen and the epochs that tell *)
(* a target from the next are not modelled.                                 *)
(***************************************************************************)
EXTENDS Naturals

CONSTANT None \* nothing seen, no identity

Sources == {"local", "remote"}

\* A source that has produced nothing names none: Detections().
Nothing == [identity |-> None, fresh |-> FALSE]
Sees(source, generation, sequence, fresh) ==
  [identity |-> [source |-> source, generation |-> generation,
                 sequence |-> sequence],
   fresh |-> fresh]

\* The state of a selector: _current and _watermarks.
Fresh == [current |-> Nothing, marks |-> [s \in Sources |-> None]]

\* Tuples of a generation and a number compare lexicographically.
Older(id, mark) ==
  /\ mark # None
  /\ \/ id.generation < mark.generation
     \/ id.generation = mark.generation /\ id.sequence < mark.sequence

Same(id, mark) == mark # None /\ ~Older(id, mark) /\ ~Older(mark, id)

\* What select keeps its directive for: a result of the past, or one shown
\* already; a source gone stale that is not the one followed, or is again.
Ignores(selector, seen) ==
  LET id == seen.identity
      mark == selector.marks[id.source]
      current == selector.current
  IN \/ Older(id, mark)
     \/ seen.fresh /\ Same(id, mark)
     \/ /\ ~seen.fresh /\ current # Nothing
        /\ ~current.fresh \/ current.identity.source # id.source

\* select: the selector after it was shown `seen`.
select(selector, seen) ==
  IF seen.identity = None \/ Ignores(selector, seen) THEN selector
  ELSE [current |-> seen,
        marks |-> IF ~seen.fresh THEN selector.marks
                  ELSE [selector.marks EXCEPT
                          ![seen.identity.source] = seen.identity]]
=============================================================================
