--------------------------- MODULE SessionClient ---------------------------
(***************************************************************************)
(* The client half of the robot link: SessionClient of                     *)
(* packages/reachy-session-client.  This module holds its state and what   *)
(* each of its operations does to it; RobotLink adds the tasks that call   *)
(* them.                                                                   *)
(*                                                                         *)
(* connect, aclose and the attempts of _reconnect run under one lock.  Of  *)
(* what they do under it only establishing a session is observable half    *)
(* done, so the lock is `est`: who is establishing, and the transport it   *)
(* has opened and not installed.  Closing a transport counts from the call *)
(* to its close(): the client has dropped every reference by then.         *)
(***************************************************************************)
EXTENDS Naturals, Sequences

CONSTANTS
  None,          \* no transport, no number
  MaxTransports, \* bound: connections opened
  MaxFrames      \* bound: frames sent on one connection

ASSUME SessionClientAssumption ==
  /\ None \notin Nat /\ None \notin {"session", "holder"}
  /\ MaxTransports \in Nat /\ MaxFrames \in Nat

VARIABLES
  status,       \* each transport: unused, open, dropped by the peer, closed
  got,          \* the sequence numbers the peer received on each
  transport,    \* _transport; the agreement is set and cleared with it
  sequence,     \* _sequence
  highest,      \* _highest_applied
  reconnections,\* stats.reconnections
  clientClosed, \* SessionClient._closed
  est           \* the lock, while its holder establishes a session

clientVars == <<status, got, transport, sequence, highest, reconnections,
                clientClosed, est>>

Transports == 1..MaxTransports \* in the order they are opened
Unlocked == [by |-> None, t |-> None]
Live(t) == status[t] \in {"open", "dropped"}

ClientTypeOK ==
  /\ status \in [Transports -> {"unused", "open", "dropped", "closed"}]
  /\ got \in [Transports -> Seq(0..MaxFrames)]
  /\ transport \in Transports \cup {None}
  /\ sequence \in 0..MaxFrames
  /\ highest \in (0..MaxFrames) \cup {None}
  /\ reconnections \in 0..MaxTransports
  /\ clientClosed \in BOOLEAN
  /\ est \in [by : {None, "session", "holder"}, t : Transports \cup {None}]

ClientInit ==
  /\ status = [t \in Transports |-> "unused"]
  /\ got = [t \in Transports |-> <<>>]
  /\ transport = None /\ sequence = 0 /\ highest = None
  /\ reconnections = 0 /\ clientClosed = FALSE /\ est = Unlocked

ClosedNow(t) == IF t = None THEN status ELSE [status EXCEPT ![t] = "closed"]

-----------------------------------------------------------------------------
(* connect.                                                                *)

\* A session is held already, and its agreement is the answer.
ConnectFindsSession ==
  /\ est = Unlocked /\ transport # None
  /\ UNCHANGED clientVars

\* The lock is taken and the client is no longer closed.
connect(by) ==
  /\ est = Unlocked /\ transport = None
  /\ clientClosed' = FALSE
  /\ est' = [by |-> by, t |-> None]
  /\ UNCHANGED <<status, got, transport, sequence, highest, reconnections>>

\* _establish: the transport opens.
Opens ==
  /\ est.by # None /\ est.t = None
  /\ \E t \in Transports :
       /\ status[t] = "unused"
       /\ \A u \in 1..(t - 1) : status[u] # "unused"
       /\ status' = [status EXCEPT ![t] = "open"]
       /\ est' = [est EXCEPT !.t = t]
  /\ UNCHANGED <<got, transport, sequence, highest, reconnections,
                 clientClosed>>

\* An attempt that fails keeps the connection it opened.
MutantLeaksAttempt(by) ==
  /\ est.by = by
  /\ est' = Unlocked
  /\ UNCHANGED <<status, got, transport, sequence, highest, reconnections,
                 clientClosed>>

\* _establish fails: nothing was opened, or negotiation failed and what was
\* opened is closed.  Also where a cancellation lands.
EstablishFails(by) ==
  /\ est.by = by
  /\ status' = ClosedNow(est.t)
  /\ est' = Unlocked
  /\ UNCHANGED <<got, transport, sequence, highest, reconnections,
                 clientClosed>>

\* _establish ends: the groundstation agreed, and both halves of the
\* sequence start over.
_establish(by, counted) ==
  /\ est.by = by /\ est.t # None /\ status[est.t] = "open"
  /\ transport' = est.t
  /\ sequence' = 0 /\ highest' = None
  /\ reconnections' = reconnections + counted
  /\ est' = Unlocked
  /\ UNCHANGED <<status, got, clientClosed>>

-----------------------------------------------------------------------------
(* aclose, _discard and the passes of _reconnect.                          *)

\* aclose sets the flag at once and then waits for the lock.
SetClosed ==
  /\ clientClosed' = TRUE
  /\ UNCHANGED <<status, got, transport, sequence, highest, reconnections,
                 est>>

\* The locked half of aclose, and _discard: the session is let go.
_discard ==
  /\ est = Unlocked
  /\ status' = ClosedNow(transport)
  /\ transport' = None
  /\ UNCHANGED <<got, sequence, highest, reconnections, clientClosed, est>>

\* _reconnect after a delay: closed, or connected by somebody else.
ReconnectYields ==
  /\ est = Unlocked
  /\ clientClosed \/ transport # None
  /\ UNCHANGED clientVars

\* A reconnection does not look whether another caller connected.
MutantTriesAnyway(by) ==
  /\ est = Unlocked /\ ~clientClosed
  /\ est' = [by |-> by, t |-> None]
  /\ UNCHANGED <<status, got, transport, sequence, highest, reconnections,
                 clientClosed>>

\* _reconnect after a delay: it tries.
ReconnectTries(by) ==
  /\ est = Unlocked
  /\ ~clientClosed /\ transport = None
  /\ est' = [by |-> by, t |-> None]
  /\ UNCHANGED <<status, got, transport, sequence, highest, reconnections,
                 clientClosed>>

-----------------------------------------------------------------------------
(* Frames and results.                                                     *)

\* submit_frame: the frame is written to the connection it was numbered for.
SendsFrame(t, number) ==
  /\ status[t] = "open"
  /\ got' = [got EXCEPT ![t] = Append(@, number)]
  /\ UNCHANGED <<status, transport, sequence, highest, reconnections,
                 clientClosed, est>>

\* A number is spent whichever session the frame was sent on.
MutantSpendsAlways(t) ==
  /\ sequence' = sequence + 1
  /\ UNCHANGED <<status, got, transport, highest, reconnections, clientClosed,
                 est>>

\* submit_frame after the write: the number is spent only if the client still
\* holds the session it was written to.
submit_frame(t) ==
  /\ sequence' = IF t = transport THEN sequence + 1 ELSE sequence
  /\ UNCHANGED <<status, got, transport, highest, reconnections, clientClosed,
                 est>>

\* _apply: a result older than the newest applied is superseded.
Superseded(number) == highest # None /\ number < highest
\* A result is applied without looking at its number.
MutantAppliesLate(number) ==
  /\ highest' = number
  /\ UNCHANGED <<status, got, transport, sequence, reconnections,
                 clientClosed, est>>

_apply(number) ==
  /\ ~Superseded(number)
  /\ highest' = number
  /\ UNCHANGED <<status, got, transport, sequence, reconnections,
                 clientClosed, est>>

\* The peer, or the network, drops a connection.
Drops ==
  /\ \E t \in Transports :
       status[t] = "open" /\ status' = [status EXCEPT ![t] = "dropped"]
  /\ UNCHANGED <<got, transport, sequence, highest, reconnections,
                 clientClosed, est>>

=============================================================================
