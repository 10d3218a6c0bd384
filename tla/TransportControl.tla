--------------------------- MODULE TransportControl ---------------------------
(***************************************************************************)
(* When the fault interposer (src/transport.cpp) comes to an end: its       *)
(* owner's start and stop, the accept loop and the two forwarder threads of *)
(* a connection, without what the frames hold, so that peers may go on      *)
(* sending for ever.  Transport has the frames and implements this module.  *)
(*                                                                          *)
(* tcp_send_all has no timeout: a send to a peer that does not read blocks, *)
(* until the peer reads or is gone.  The sockets' receive timeout is what   *)
(* ends a read from a silent peer.  Closing the listening socket wakes      *)
(* tcp_accept, as on Windows, the platform of the process layer.            *)
(***************************************************************************)
EXTENDS Naturals

CONSTANTS
  MaxWaiting,  \* bound: the listen backlog
  MaxQueued    \* bound: frames in a socket's receive buffer, by direction

Directions == {"C2S", "S2C"}
Other(d) == IF d = "C2S" THEN "S2C" ELSE "C2S"

ASSUME ControlAssumption == MaxWaiting \in Nat /\ MaxQueued \in [Directions -> Nat]

VARIABLES
  running,    \* running_
  stopping,   \* a caller is in stop(), joining accept_thread_
  acceptor,   \* accept_thread_: off, top, accept, serve, ended
  waiting,    \* clients in the listen backlog
  aborted,    \* the stop flag of the connection
  open,       \* whether the source peer of each direction is connected
  queued,     \* frames sent and not yet read, by direction
  pc          \* forward_frames of each direction

connVars == <<aborted, open, queued, pc>>
vars == <<running, stopping, acceptor, waiting, connVars>>

Everywhere(x) == [d \in Directions |-> x]

Init ==
  /\ running = FALSE /\ stopping = FALSE
  /\ acceptor = "off" /\ waiting = 0
  /\ aborted = FALSE
  /\ open = Everywhere(FALSE)
  /\ queued = Everywhere(0)
  /\ pc = Everywhere("top")

-----------------------------------------------------------------------------
(* The owner. *)
Start ==
  /\ ~running /\ ~stopping
  /\ running' = TRUE
  /\ acceptor' = "top"
  /\ UNCHANGED <<stopping, waiting, connVars>>

Stop ==
  /\ ~stopping /\ acceptor # "off"
  /\ running' = FALSE
  /\ stopping' = TRUE
  /\ waiting' = 0
  /\ UNCHANGED <<acceptor, connVars>>

StopJoins ==
  /\ stopping /\ acceptor = "ended"
  /\ stopping' = FALSE
  /\ acceptor' = "off"
  /\ UNCHANGED <<running, waiting, connVars>>

-----------------------------------------------------------------------------
(* accept_loop and run_connection. *)
LoopTop ==
  /\ acceptor = "top"
  /\ acceptor' = IF running THEN "accept" ELSE "ended"
  /\ UNCHANGED <<running, stopping, waiting, connVars>>

AcceptFails ==
  /\ acceptor = "accept" /\ ~running
  /\ acceptor' = "ended"
  /\ UNCHANGED <<running, stopping, waiting, connVars>>

TargetRefuses ==
  /\ acceptor = "accept" /\ waiting > 0
  /\ waiting' = waiting - 1
  /\ acceptor' = "top"
  /\ UNCHANGED <<running, stopping, connVars>>

Serve ==
  /\ acceptor = "accept" /\ waiting > 0
  /\ waiting' = waiting - 1
  /\ acceptor' = "serve"
  /\ aborted' = FALSE
  /\ open' = Everywhere(TRUE)
  /\ queued' = Everywhere(0)
  /\ pc' = Everywhere("top")
  /\ UNCHANGED <<running, stopping>>

Finish ==
  /\ acceptor = "serve"
  /\ \A d \in Directions : pc[d] = "done"
  /\ acceptor' = "top"
  /\ open' = Everywhere(FALSE)
  /\ UNCHANGED <<running, stopping, waiting, aborted, queued, pc>>

-----------------------------------------------------------------------------
(* forward_frames. *)
Goes(d, to) ==
  /\ pc' = [pc EXCEPT ![d] = to]
  /\ UNCHANGED <<running, stopping, acceptor, waiting, open>>

\* Mutant: the stop flag is not looked at.
CheckNothing(d) ==
  /\ acceptor = "serve" /\ pc[d] = "top"
  /\ Goes(d, "read")
  /\ UNCHANGED <<aborted, queued>>
\* The stop flag is all that is looked at before a read; running_ is not.
CheckAborted(d) ==
  /\ acceptor = "serve" /\ pc[d] = "top"
  /\ Goes(d, IF aborted THEN "done" ELSE "read")
  /\ UNCHANGED <<aborted, queued>>

\* A frame is read; it is dropped, held back, or its sends return.
Takes(d) == pc[d] = "read" /\ queued[d] > 0 /\ queued' = [queued EXCEPT ![d] = @ - 1]

TakeFrame(d) == Takes(d) /\ Goes(d, "count") /\ UNCHANGED aborted

\* TF_CLOSE and TF_HALF_CLOSE.
CloseFault(d) == Takes(d) /\ Goes(d, "count") /\ aborted' = TRUE

\* A send waits for the receiver, the source of the other direction, to read.
SendBlocks(d) == Takes(d) /\ Goes(d, "send") /\ UNCHANGED aborted

\* The receiver is gone: the send fails, which forward does not look at.
SendFails(d) ==
  /\ pc[d] = "send" /\ ~open[Other(d)]
  /\ Goes(d, "count")
  /\ UNCHANGED <<aborted, queued>>

CountUp(d) == pc[d] = "count" /\ Goes(d, "top") /\ UNCHANGED <<aborted, queued>>

\* Mutant: the sockets have no receive timeout.
ReadFailsWhenClosed(d) ==
  /\ pc[d] = "read" /\ queued[d] = 0 /\ ~open[d]
  /\ aborted' = TRUE
  /\ Goes(d, "done")
  /\ UNCHANGED queued
\* read_exact fails: the peer closed, or nothing came for 50 ms.
ReadFails(d) ==
  /\ pc[d] = "read" /\ queued[d] = 0
  /\ aborted' = TRUE
  /\ Goes(d, "done")
  /\ UNCHANGED queued

-----------------------------------------------------------------------------
(* The peers. *)
ClientConnects ==
  /\ running /\ waiting < MaxWaiting
  /\ waiting' = waiting + 1
  /\ UNCHANGED <<running, stopping, acceptor, connVars>>

PeerSends(d) ==
  /\ open[d] /\ queued[d] < MaxQueued[d]
  /\ queued' = [queued EXCEPT ![d] = @ + 1]
  /\ UNCHANGED <<running, stopping, acceptor, waiting, aborted, open, pc>>

PeerCloses(d) ==
  /\ open[d]
  /\ open' = [open EXCEPT ![d] = FALSE]
  /\ UNCHANGED <<running, stopping, acceptor, waiting, aborted, queued, pc>>

\* The receiver of a blocked send reads.
PeerReads(d) ==
  /\ pc[d] = "send" /\ open[Other(d)]
  /\ Goes(d, "count")
  /\ UNCHANGED <<aborted, queued>>

-----------------------------------------------------------------------------
AcceptorStep == LoopTop \/ AcceptFails \/ TargetRefuses \/ Serve \/ Finish

ForwarderStep(d) ==
  \/ CheckAborted(d)
  \/ TakeFrame(d) \/ CloseFault(d) \/ SendBlocks(d)
  \/ SendFails(d)
  \/ CountUp(d)
  \/ ReadFails(d)

PeerStep(d) == PeerSends(d) \/ PeerCloses(d) \/ PeerReads(d)

Next ==
  \/ Start \/ Stop \/ StopJoins
  \/ AcceptorStep
  \/ ClientConnects
  \/ \E d \in Directions : ForwarderStep(d) \/ PeerStep(d)

Spec == Init /\ [][Next]_vars

(* The interposer's threads run: a thread that can take a step, reads with *)
(* their 50 ms timeout and sends to a peer that is gone included, takes    *)
(* one.  Peers and the owner need not act.                                 *)
FairSpec ==
  /\ Spec
  /\ WF_vars(AcceptorStep)
  /\ WF_vars(StopJoins)
  /\ \A d \in Directions : WF_vars(ForwarderStep(d))

-----------------------------------------------------------------------------
(* Properties. *)

\* No peer leaves a forwarder in a send for ever.
SendsReturn == \A d \in Directions : []<>(pc[d] # "send")

\* The peer of one direction, at some time, has sent its last frame.
OneFallsSilent == \E d \in Directions : <>[][~PeerSends(d)]_vars

\* A connection whose stop flag is set, by either forwarder, is closed, however
\* long its peers go on sending, as long as sends return.
AbortEnds == SendsReturn => ((acceptor = "serve" /\ aborted) ~> acceptor # "serve")

\* stop() returns, also while a connection is being served, once one of its
\* peers falls silent for the receive timeout.  Forwarders look at the stop flag
\* of their connection and never at running_: between two peers that never
\* pause, or with a send that blocks for ever, stop() stays in its join.
StopReturns == SendsReturn /\ OneFallsSilent => (stopping ~> ~stopping)
=============================================================================
