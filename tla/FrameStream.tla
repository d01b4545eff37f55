---------------------------- MODULE FrameStream ----------------------------
(***************************************************************************)
(* What a session promises about the frames sent on it, whatever tasks,    *)
(* events and failures the groundstation needs to keep the promise:        *)
(*                                                                         *)
(*   - frames are taken up in the order they were accepted, one at a time; *)
(*   - a frame that is never taken up was the oldest of Bound waiting      *)
(*     frames when one more came, or was waiting when the session ended;   *)
(*   - a frame taken up is answered by each agreed capability once, before *)
(*     the next frame is; one that is not an image gets one error instead; *)
(*   - nothing is answered, accepted or dropped once the session is over.  *)
(*                                                                         *)
(* GroundSession implements it.                                            *)
(***************************************************************************)
EXTENDS Naturals, Sequences

CONSTANTS
  Capabilities, \* every capability a client may name
  Bound         \* how many accepted frames may wait

VARIABLES
  agreed,   \* the capabilities that answer
  accepted, \* how many frames were accepted; they are numbered from 1
  dropped,  \* how many of them were dropped
  waiting,  \* the frames accepted and neither taken up nor dropped
  hand,     \* the frame taken up, 0 for none
  given,    \* the capabilities that have answered it
  out,      \* every answer, in the order given
  over      \* the session ended

vars == <<agreed, accepted, dropped, waiting, hand, given, out, over>>

Init ==
  /\ agreed = {} /\ accepted = 0 /\ dropped = 0 /\ waiting = <<>>
  /\ hand = 0 /\ given = {} /\ out = <<>> /\ over = FALSE

Agree ==
  /\ ~over /\ accepted = 0
  /\ agreed' \in SUBSET Capabilities
  /\ UNCHANGED <<accepted, dropped, waiting, hand, given, out, over>>

Accept ==
  /\ ~over
  /\ accepted' = accepted + 1
  /\ \/ /\ Len(waiting) < Bound
        /\ waiting' = Append(waiting, accepted + 1)
        /\ dropped' = dropped
     \/ /\ Len(waiting) = Bound
        /\ waiting' = Append(Tail(waiting), accepted + 1)
        /\ dropped' = dropped + 1
  /\ UNCHANGED <<agreed, hand, given, out, over>>

TakeUp ==
  /\ ~over /\ hand = 0 /\ waiting # <<>>
  /\ hand' = Head(waiting) /\ given' = {}
  /\ waiting' = Tail(waiting)
  /\ UNCHANGED <<agreed, accepted, dropped, out, over>>

Answer ==
  /\ ~over /\ hand # 0
  /\ \E c \in agreed \ given, kind \in {"result", "failed"} :
       /\ out' = Append(out, [frame |-> hand, by |-> c, kind |-> kind])
       /\ given' = given \cup {c}
  /\ UNCHANGED <<agreed, accepted, dropped, waiting, hand, over>>

Reject ==
  /\ ~over /\ hand # 0 /\ given = {}
  /\ out' = Append(out, [frame |-> hand, kind |-> "malformed"])
  /\ hand' = 0
  /\ UNCHANGED <<agreed, accepted, dropped, waiting, given, over>>

PutDown ==
  /\ ~over /\ hand # 0 /\ given = agreed
  /\ hand' = 0
  /\ UNCHANGED <<agreed, accepted, dropped, waiting, given, out, over>>

End ==
  /\ ~over /\ over' = TRUE
  /\ UNCHANGED <<agreed, accepted, dropped, waiting, hand, given, out>>

Next == Agree \/ Accept \/ TakeUp \/ Answer \/ Reject \/ PutDown \/ End

Spec == Init /\ [][Next]_vars
=============================================================================
