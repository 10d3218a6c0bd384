------------------------------- MODULE Transport -------------------------------
(***************************************************************************)
(* The framed-TCP fault interposer (src/transport.cpp): start and stop,    *)
(* the accept loop that serves one connection at a time, and the two       *)
(* forwarder threads of a connection, one per direction, which share a     *)
(* stop flag and, without a lock, the connection's statistics.             *)
(*                                                                         *)
(* The peers are external: a client and a server that send whole,          *)
(* well-formed frames and close at any time.  A frame carries its serial   *)
(* number in its direction, which is not on the wire.                      *)
(*                                                                         *)
(* forward ignores the status of tcp_send_all and counts every call, so a  *)
(* send that failed is one that was handed on.  Here a send returns; in    *)
(* TransportControl, which this module implements, it may also block.      *)
(***************************************************************************)
EXTENDS Integers, SequencesExt

CONSTANTS
  Types,      \* message types
  AnyType,    \* message_type 0: any
  Payloads,   \* payloads the peers send, as sequences of bytes
  FaultMenu,  \* faults a campaign may enqueue
  Header,     \* Frame::HEADER
  MaxFaults,  \* bound: faults enqueued
  MaxSent,    \* bound: frames a peer sends on one connection, by direction
  MaxBoth,    \* bound: frames each peer sends on a connection on which both do
  MaxConns    \* bound: clients that connect

Directions == {"C2S", "S2C"}
Kinds == {"drop", "duplicate", "truncate", "corrupt", "reorder", "delay", "half_close", "close"}
Counters == {"forwarded", "faults"}
Byte == {0, 165}

ASSUME MenuAssumption ==
  \A f \in FaultMenu : /\ f.kind \in Kinds
                       /\ f.direction \in Directions
                       /\ f.type \in Types \cup {AnyType}
                       /\ f.at \in Nat
                       /\ f.offset \in Int
ASSUME PayloadAssumption == \A p \in Payloads : p \in Seq(Byte)
ASSUME BoundAssumption ==
  Header \in Nat /\ MaxFaults \in Nat /\ MaxConns \in Nat
  /\ MaxSent \in [Directions -> Nat] /\ MaxBoth \in Nat

VARIABLES
  running,    \* running_; server_fd_ is open exactly while it is set
  stopping,   \* a caller is in stop(), joining accept_thread_
  acceptor,   \* accept_thread_: off, top, accept, serve, ended
  faults,     \* faults_
  waiting,    \* clients in the listen backlog
  conns,      \* clients that have connected so far
  local,      \* local_faults of the connection being served
  aborted,    \* its stop flag
  open,       \* whether the source peer of each direction is connected
  inbuf,      \* frames sent and not yet read, by direction
  pump,       \* forward_frames of each direction
  stats,      \* the statistics of the connection
  published,  \* stats_
  read,       \* history: frames read on this connection
  sent,       \* history: for each frame read, the frames given to tcp_send_all
  handed      \* history: how many frames those are, by direction

connVars == <<local, aborted, open, inbuf, pump, stats, read, sent, handed>>
vars == <<running, stopping, acceptor, faults, waiting, conns, published, connVars>>

NoStats == [k \in Counters |-> 0]
NewPump == [pc |-> "top", seq |-> 0, pending |-> <<>>, loaded |-> NoStats, added |-> NoStats]

Init ==
  /\ running = FALSE
  /\ stopping = FALSE
  /\ acceptor = "off"
  /\ faults = <<>>
  /\ waiting = 0
  /\ conns = 0
  /\ local = <<>>
  /\ aborted = FALSE
  /\ open = [d \in Directions |-> FALSE]
  /\ inbuf = [d \in Directions |-> <<>>]
  /\ pump = [d \in Directions |-> NewPump]
  /\ stats = NoStats
  /\ published = NoStats
  /\ read = [d \in Directions |-> <<>>]
  /\ sent = [d \in Directions |-> <<>>]
  /\ handed = [d \in Directions |-> 0]

-----------------------------------------------------------------------------
(* The interposer's owner.                                                 *)

Start ==
  /\ ~running
  /\ ~stopping
  /\ running' = TRUE
  /\ acceptor' = "top"
  /\ UNCHANGED <<stopping, faults, waiting, conns, published, connVars>>

EnqueueFault(f) ==
  /\ Len(faults) < MaxFaults
  /\ faults' = Append(faults, f)
  /\ UNCHANGED <<running, stopping, acceptor, waiting, conns, published, connVars>>

(* stop: the flag, the listening socket with its backlog, then the join.   *)
Stop ==
  /\ ~stopping
  /\ acceptor # "off"
  /\ running' = FALSE
  /\ waiting' = 0
  /\ stopping' = TRUE
  /\ UNCHANGED <<acceptor, faults, conns, published, connVars>>

StopJoins ==
  /\ stopping
  /\ acceptor = "ended"
  /\ stopping' = FALSE
  /\ acceptor' = "off"
  /\ UNCHANGED <<running, faults, waiting, conns, published, connVars>>

-----------------------------------------------------------------------------
(* accept_loop and run_connection.                                         *)

LoopTop ==
  /\ acceptor = "top"
  /\ acceptor' = IF running THEN "accept" ELSE "ended"
  /\ UNCHANGED <<running, stopping, faults, waiting, conns, published, connVars>>

(* tcp_accept fails once stop has closed the socket.                       *)
AcceptFails ==
  /\ acceptor = "accept"
  /\ ~running
  /\ acceptor' = "ended"
  /\ UNCHANGED <<running, stopping, faults, waiting, conns, published, connVars>>

(* The target refuses the connection: the client is closed.                *)
TargetRefuses ==
  /\ acceptor = "accept"
  /\ waiting > 0
  /\ waiting' = waiting - 1
  /\ acceptor' = "top"
  /\ UNCHANGED <<running, stopping, faults, conns, published, connVars>>

(* A connection starts from a snapshot of the faults, with two forwarders. *)
Serve ==
  /\ acceptor = "accept"
  /\ waiting > 0
  /\ waiting' = waiting - 1
  /\ acceptor' = "serve"
  /\ local' = faults
  /\ aborted' = FALSE
  /\ open' = [d \in Directions |-> TRUE]
  /\ inbuf' = [d \in Directions |-> <<>>]
  /\ pump' = [d \in Directions |-> NewPump]
  /\ stats' = NoStats
  /\ read' = [d \in Directions |-> <<>>]
  /\ sent' = [d \in Directions |-> <<>>]
  /\ handed' = [d \in Directions |-> 0]
  /\ UNCHANGED <<running, stopping, faults, conns, published>>

(* Both forwarders joined: the sockets close and stats_ is replaced.       *)
Finish ==
  /\ acceptor = "serve"
  /\ \A d \in Directions : pump[d].pc = "done"
  /\ acceptor' = "top"
  /\ published' = stats
  /\ open' = [d \in Directions |-> FALSE]
  /\ UNCHANGED <<running, stopping, faults, waiting, conns, local, aborted, inbuf, pump,
                 stats, read, sent, handed>>

-----------------------------------------------------------------------------
(* forward_frames.                                                         *)

\* Mutant: the type is not compared once the sequence number is given.
TargetsBySequence(f, d, m) ==
  /\ f.direction = d
  /\ f.at # 0 \/ f.type \in {AnyType, m.type}
  /\ f.at \in {0, m.no}

Targets(f, d, m) ==
  /\ f.direction = d
  /\ f.type \in {AnyType, m.type}
  /\ f.at \in {0, m.no}

(* The first fault of the list that targets the frame, or none.            *)
Applied(fs, d, m) ==
  LET hits == {i \in DOMAIN fs : Targets(fs[i], d, m)}
  IN  IF hits = {} THEN <<>> ELSE <<fs[Min(hits)]>>

\* Mutant: the cut is not clamped to the header.
CutUnclamped(offset, size) == IF offset < 0 THEN size ELSE Min({offset, size})

(* TF_TRUNCATE: the cut is clamped to the header and to the frame; a       *)
(* negative offset is a huge size_t.  The length field is rewritten.       *)
Cut(offset, size) ==
  IF offset < 0 THEN size ELSE Min({Max({offset, Header}), size})

\* Mutant: the length field keeps its old value.
TruncatedKeepsLength(m, offset) ==
  [m EXCEPT !.payload = SubSeq(@, 1, Cut(offset, Header + Len(@)) - Header)]

Truncated(m, offset) ==
  LET n == Cut(offset, Header + Len(m.payload)) - Header
  IN  [type |-> m.type, len |-> n, payload |-> SubSeq(m.payload, 1, n), no |-> m.no]

(* TF_CORRUPT: one payload byte, b becomes b ^ 0xa5; the header is spared. *)
Corrupted(m, offset) ==
  [m EXCEPT !.payload = [i \in DOMAIN @ |-> IF Header + i - 1 = offset THEN 165 - @[i] ELSE @[i]]]

\* Mutant: the new frame overtakes the pending one, which is dropped.
ReorderForwardsNew(pending, m) == IF pending = <<>> THEN <<>> ELSE <<m>>

(* TF_REORDER: the frame waits in `pending` for the next frame that a      *)
(* reorder fault targets, and is forwarded in its place.                   *)
ReorderForwards(pending, m) == pending

\* Mutant: a frame read counts as a frame forwarded.
TreatCountsFrames(d, sends, pending, faulted) ==
  /\ sent' = [sent EXCEPT ![d] = Append(@, sends)]
  /\ handed' = [handed EXCEPT ![d] = @ + Len(sends)]
  /\ read' = [read EXCEPT ![d] = Append(@, Head(inbuf[d]))]
  /\ inbuf' = [inbuf EXCEPT ![d] = Tail(@)]
  /\ pump' = [pump EXCEPT ![d] =
       [pc |-> "count", seq |-> @.seq + 1, pending |-> pending, loaded |-> stats,
        added |-> [forwarded |-> 1, faults |-> faulted]]]
  /\ UNCHANGED <<running, stopping, acceptor, faults, waiting, conns, published, local, open, stats>>
(* The frame is read, numbered and treated; the counters to be incremented *)
(* are loaded.  They are stored back by CountUp, both increments of a      *)
(* duplicate together; the counters by kind go the way of `faults`.        *)
Treat(d, sends, pending, faulted) ==
  /\ sent' = [sent EXCEPT ![d] = Append(@, sends)]
  /\ handed' = [handed EXCEPT ![d] = @ + Len(sends)]
  /\ read' = [read EXCEPT ![d] = Append(@, Head(inbuf[d]))]
  /\ inbuf' = [inbuf EXCEPT ![d] = Tail(@)]
  /\ pump' = [pump EXCEPT ![d] =
       [pc |-> "count", seq |-> @.seq + 1, pending |-> pending, loaded |-> stats,
        added |-> [forwarded |-> Len(sends), faults |-> faulted]]]
  /\ UNCHANGED <<running, stopping, acceptor, faults, waiting, conns, published, local, open, stats>>

(* A frame no fault targets.                                               *)
ForwardFrame(d) ==
  LET m == Head(inbuf[d]) IN
  /\ pump[d].pc = "read"
  /\ inbuf[d] # <<>>
  /\ Applied(local, d, m) = <<>>
  /\ Treat(d, <<m>>, pump[d].pending, 0)
  /\ UNCHANGED aborted

(* A frame that a fault targets.                                           *)
FaultFrame(d, kind, sends, pending) ==
  /\ pump[d].pc = "read"
  /\ inbuf[d] # <<>>
  /\ Applied(local, d, Head(inbuf[d])) # <<>>
  /\ Applied(local, d, Head(inbuf[d]))[1].kind = kind
  /\ Treat(d, sends, pending, 1)

Drop(d) == FaultFrame(d, "drop", <<>>, pump[d].pending) /\ UNCHANGED aborted

Duplicate(d) ==
  LET m == Head(inbuf[d])
  IN  FaultFrame(d, "duplicate", <<m, m>>, pump[d].pending) /\ UNCHANGED aborted

Truncate(d) ==
  LET m == Head(inbuf[d])
  IN  FaultFrame(d, "truncate", <<Truncated(m, Applied(local, d, m)[1].offset)>>, pump[d].pending)
        /\ UNCHANGED aborted

Corrupt(d) ==
  LET m == Head(inbuf[d])
  IN  FaultFrame(d, "corrupt", <<Corrupted(m, Applied(local, d, m)[1].offset)>>, pump[d].pending)
        /\ UNCHANGED aborted

Reorder(d) ==
  LET m == Head(inbuf[d])
  IN  FaultFrame(d, "reorder", ReorderForwards(pump[d].pending, m), <<m>>) /\ UNCHANGED aborted

(* TF_DELAY: the thread sleeps 40 ms first.                                *)
Delay(d) == FaultFrame(d, "delay", <<Head(inbuf[d])>>, pump[d].pending) /\ UNCHANGED aborted

(* TF_CLOSE, and TF_HALF_CLOSE just the same.                              *)
Close(d) ==
  /\ \E kind \in {"close", "half_close"} : FaultFrame(d, kind, <<>>, pump[d].pending)
  /\ aborted' = TRUE

(* The counters are stored.  Nothing keeps the other forwarder from        *)
(* storing its own in between.                                             *)
CountUp(d) ==
  /\ pump[d].pc = "count"
  /\ stats' = [k \in Counters |->
       IF pump[d].added[k] > 0 THEN pump[d].loaded[k] + pump[d].added[k] ELSE stats[k]]
  /\ pump' = [pump EXCEPT ![d].pc = "top"]
  /\ UNCHANGED <<running, stopping, acceptor, faults, waiting, conns, published, local, aborted,
                 open, inbuf, read, sent, handed>>

(* The stop flag is looked at before each read.                            *)
CheckAborted(d) ==
  /\ acceptor = "serve"
  /\ pump[d].pc = "top"
  /\ pump' = [pump EXCEPT ![d].pc = IF aborted THEN "done" ELSE "read"]
  /\ UNCHANGED <<running, stopping, acceptor, faults, waiting, conns, published, local, aborted,
                 open, inbuf, stats, read, sent, handed>>

(* read_exact fails: the peer closed, or nothing came for 50 ms.           *)
ReadFails(d) ==
  /\ pump[d].pc = "read"
  /\ inbuf[d] = <<>>
  /\ aborted' = TRUE
  /\ pump' = [pump EXCEPT ![d].pc = "done"]
  /\ UNCHANGED <<running, stopping, acceptor, faults, waiting, conns, published, local, open,
                 inbuf, stats, read, sent, handed>>

-----------------------------------------------------------------------------
(* The peers.                                                              *)

ClientConnects ==
  /\ running
  /\ conns < MaxConns
  /\ conns' = conns + 1
  /\ waiting' = waiting + 1
  /\ UNCHANGED <<running, stopping, acceptor, faults, published, connVars>>

PeerSends(d, t, p) ==
  LET n == Len(read[d]) + Len(inbuf[d]) IN
  /\ open[d]
  /\ n < MaxSent[d]
  /\ \A e \in Directions \ {d} :
       Len(read[e]) + Len(inbuf[e]) # 0 =>
         n < MaxBoth /\ Len(read[e]) + Len(inbuf[e]) <= MaxBoth
  /\ inbuf' = [inbuf EXCEPT ![d] =
       Append(@, [type |-> t, len |-> Len(p), payload |-> p, no |-> n + 1])]
  /\ UNCHANGED <<running, stopping, acceptor, faults, waiting, conns, published, local, aborted,
                 open, pump, stats, read, sent, handed>>

PeerCloses(d) ==
  /\ open[d]
  /\ open' = [open EXCEPT ![d] = FALSE]
  /\ UNCHANGED <<running, stopping, acceptor, faults, waiting, conns, published, local, aborted,
                 inbuf, pump, stats, read, sent, handed>>

-----------------------------------------------------------------------------
AcceptorStep == LoopTop \/ AcceptFails \/ TargetRefuses \/ Serve \/ Finish

ForwarderStep(d) ==
  \/ CheckAborted(d)
  \/ ForwardFrame(d)
  \/ Drop(d)
  \/ Duplicate(d)
  \/ Truncate(d)
  \/ Corrupt(d)
  \/ Reorder(d)
  \/ Delay(d)
  \/ Close(d)
  \/ CountUp(d)
  \/ ReadFails(d)

OwnerStep == Start \/ (\E f \in FaultMenu : EnqueueFault(f)) \/ Stop \/ StopJoins

PeerStep ==
  \/ ClientConnects
  \/ \E d \in Directions :
       \/ PeerCloses(d)
       \/ \E t \in Types, p \in Payloads : PeerSends(d, t, p)

Next == AcceptorStep \/ (\E d \in Directions : ForwarderStep(d)) \/ OwnerStep \/ PeerStep

Spec == Init /\ [][Next]_vars

(* The interposer without what its frames hold.                            *)
Control == INSTANCE TransportControl
  WITH MaxWaiting <- MaxConns, MaxQueued <- MaxSent,
       queued <- [d \in Directions |-> Len(inbuf[d])],
       pc <- [d \in Directions |-> pump[d].pc]

(* The interposer takes the steps of TransportControl and no other: the    *)
(* faults of its list change what is sent, and nothing of when threads     *)
(* wait, go on and end.                                                    *)
ImplementsControl == Control!Spec

-----------------------------------------------------------------------------
(* Properties.                                                             *)

Frame == [type : Types, len : Nat, payload : Seq(Byte), no : Nat \ {0}]
PumpState == [pc : {"top", "read", "count", "done"}, seq : Nat, pending : Seq(Frame),
              loaded : [Counters -> Nat], added : [Counters -> Nat]]

(* The type of the interposer's state.                                     *)
TransportTypeOK ==
  /\ running \in BOOLEAN /\ stopping \in BOOLEAN /\ aborted \in BOOLEAN
  /\ acceptor \in {"off", "top", "accept", "serve", "ended"}
  /\ waiting \in Nat /\ conns \in Nat /\ waiting <= conns /\ conns <= MaxConns
  /\ faults \in Seq(FaultMenu) /\ local \in Seq(FaultMenu)
  /\ open \in [Directions -> BOOLEAN]
  /\ inbuf \in [Directions -> Seq(Frame)]
  /\ read \in [Directions -> Seq(Frame)]
  /\ sent \in [Directions -> Seq(Seq(Frame))]
  /\ handed \in [Directions -> Nat]
  /\ stats \in [Counters -> Nat] /\ published \in [Counters -> Nat]
  /\ pump \in [Directions -> PumpState]
  /\ \A d \in Directions : Len(pump[d].pending) <= 1

KindOf(fs, d, m) == IF Applied(fs, d, m) = <<>> THEN "none" ELSE Applied(fs, d, m)[1].kind

(* The frame a forwarder holds back when it comes to the i-th of the       *)
(* frames ms: the last before it that a reorder fault targets.             *)
HeldBack(fs, d, ms, i) ==
  LET held == {j \in 1 .. i - 1 : KindOf(fs, d, ms[j]) = "reorder"}
  IN  IF held = {} THEN <<>> ELSE <<ms[Max(held)]>>

(* What forward_frames does to the i-th of the frames ms, said without a   *)
(* state.                                                                  *)
Expected(fs, d, ms, i) ==
  LET kind == KindOf(fs, d, ms[i])
      offset == Applied(fs, d, ms[i])[1].offset
  IN  IF kind \in {"drop", "close", "half_close"} THEN <<>>
      ELSE IF kind = "reorder" THEN HeldBack(fs, d, ms, i)
      ELSE IF kind = "duplicate" THEN <<ms[i], ms[i]>>
      ELSE IF kind = "truncate" THEN <<Truncated(ms[i], offset)>>
      ELSE IF kind = "corrupt" THEN <<Corrupted(ms[i], offset)>>
      ELSE <<ms[i]>>

(* In each direction, whatever the other one does, the frames sent on are  *)
(* those the fault list prescribes for the frames read.                    *)
SentAsPrescribed ==
  \A d \in Directions :
    /\ Len(sent[d]) = Len(read[d])
    /\ \A i \in DOMAIN read[d] : sent[d][i] = Expected(local, d, read[d], i)

Untargeted(fs, d, m) ==
  \A i \in DOMAIN fs :
    \/ fs[i].direction # d
    \/ fs[i].type \notin {AnyType, m.type}
    \/ fs[i].at \notin {0, m.no}

(* "Unrelated traffic is never touched": a frame read that no fault of its *)
(* direction targets is sent on once, whole and in its place, and what is  *)
(* sent in the place of another frame is never such a frame.               *)
UnrelatedUntouched ==
  \A d \in Directions : \A i \in DOMAIN read[d] :
    IF Untargeted(local, d, read[d][i])
    THEN sent[d][i] = <<read[d][i]>>
    ELSE \A j \in DOMAIN sent[d][i] : ~Untargeted(local, d, sent[d][i][j])

(* The receiver stays in step with the stream: every frame sent on, cut    *)
(* ones included, has as many payload bytes as its header says.            *)
StaysInStep ==
  \A d \in Directions : \A i \in DOMAIN sent[d] : \A j \in DOMAIN sent[d][i] :
    sent[d][i][j].len = Len(sent[d][i][j].payload)

TotalSent == handed["C2S"] + handed["S2C"]

(* The statistics never claim more than happened, although the forwarders  *)
(* overwrite each other's counts.                                          *)
StatsNotExaggerated == stats["forwarded"] <= TotalSent

(* Why: what the forwarders still have to add, to the statistics or to the *)
(* values they loaded from them, was handed on already.                    *)
Owed(d) == IF pump[d].pc = "count" THEN pump[d].added["forwarded"] ELSE 0
StatsInv ==
  LET owed == Owed("C2S") + Owed("S2C") IN
  /\ stats["forwarded"] + owed <= TotalSent
  /\ \A d \in Directions :
       pump[d].pc = "count" => pump[d].loaded["forwarded"] + owed <= TotalSent

(* Why: a frame held back is one that was read, the last that was held.    *)
HeldInv == \A d \in Directions : pump[d].pending = HeldBack(local, d, read[d], Len(read[d]) + 1)

(* Why: the peers send whole frames, and only whole ones are passed on.    *)
WholeFrame == {m \in Frame : m.len = Len(m.payload)}
WholeInv ==
  \A d \in Directions : /\ inbuf[d] \in Seq(WholeFrame)
                         /\ read[d] \in Seq(WholeFrame)
                         /\ sent[d] \in Seq(Seq(WholeFrame))
                         /\ pump[d].pending \in Seq(WholeFrame)
=============================================================================
