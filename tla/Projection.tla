----------------------------- MODULE Projection -----------------------------
(***************************************************************************)
(* The presentation projection and the watch streams that follow it: the   *)
(* sequencer numbers every delta and keeps a bounded replay window, the    *)
(* projector applies it, a bounded broadcast ring fans it out, and every   *)
(* watching connection first drains a replay or a snapshot and then        *)
(* follows the ring.  An event replaces one slice of the snapshot; its     *)
(* value is identified with its sequence number.  A daemon restart begins  *)
(* a new epoch at sequence 0.                                              *)
(***************************************************************************)
EXTENDS Naturals, Sequences, FiniteSets

CONSTANTS
  Slices,          \* slices of the snapshot (desired, applied, observed, ...)
  Clients,         \* watching clients
  ReplayCapacity,  \* EventSequencer::replay_capacity
  LiveCapacity,    \* LIVE_BROADCAST_CAPACITY
  MaxSequence,     \* the largest event sequence (u64::MAX in the code)
  MaxEpoch         \* bound: daemon lifetimes

ASSUME ProjectionAssumption ==
  /\ ReplayCapacity \in Nat \ {0}
  /\ LiveCapacity \in Nat \ {0}
  /\ MaxSequence \in Nat
  /\ MaxEpoch \in Nat \ {0}

VARIABLES
  epoch,      \* daemon instance
  log,        \* history: the slice of every event of this epoch
  replay,     \* EventSequencer::replay
  projector,  \* StateProjector: cursor and slices
  stream,     \* stream[c]: the server side of c's watch connection
  client      \* client[c]: the cursor of the newest frame handed to c; history: the
              \* events of this epoch that c was told, and those it never will be

projectionVars == <<epoch, log, replay, projector, stream, client>>

Sequence == 0 .. MaxSequence
Snapshot == [Slices -> Sequence]
Event == [seq : Sequence, slice : Slices]
Frame == [kind : {"Event"}, event : Event] \cup [kind : {"Snapshot"}, cursor : Sequence, view : Snapshot]

Current == Len(log)
EmptyView == [s \in Slices |-> 0]
Closed == [phase |-> "closed", initial |-> << >>, pos |-> 0]

EventFrame(e) == [kind |-> "Event", event |-> e]
SnapshotFrame == [kind |-> "Snapshot", cursor |-> projector.cursor, view |-> projector.view]

ProjectionInit ==
  /\ epoch = 1
  /\ log = << >>
  /\ replay = << >>
  /\ projector = [cursor |-> 0, view |-> EmptyView]
  /\ stream = [c \in Clients |-> Closed]
  /\ client = [c \in Clients |-> [epoch |-> 0, cursor |-> 0, told |-> {}, lost |-> {}]]

(***************************************************************************)
(* Publishing                                                              *)
(***************************************************************************)

\* The oldest events are kept when the window is full.
CommitPublished_KeepsOldest(e) ==
  IF Len(replay) < ReplayCapacity THEN Append(replay, e) ELSE replay

CommitPublished(e) ==
  LET longer == Append(replay, e)
  IN  IF Len(longer) > ReplayCapacity THEN Tail(longer) ELSE longer

Applied(e) == [cursor |-> e.seq, view |-> [projector.view EXCEPT ![e.slice] = e.seq]]

\* try_publish, the live broadcast and the projector, under the service lock.
Publish(slice) ==
  /\ Current < MaxSequence
  /\ LET e == [seq |-> Current + 1, slice |-> slice]
     IN  /\ log' = Append(log, slice)
         /\ replay' = CommitPublished(e)
         /\ projector' = Applied(e)
  /\ UNCHANGED <<epoch, stream, client>>

\* The daemon ends, whatever it was doing, and a new one starts.
RestartDaemon ==
  /\ epoch < MaxEpoch
  /\ epoch' = epoch + 1
  /\ log' = << >>
  /\ replay' = << >>
  /\ projector' = [cursor |-> 0, view |-> EmptyView]
  /\ stream' = [c \in Clients |-> Closed]
  /\ client' = [c \in Clients |-> [client[c] EXCEPT !.told = {}, !.lost = {}]]

(***************************************************************************)
(* Opening a watch stream                                                  *)
(***************************************************************************)

\* A replay exists for the cursor: same epoch, not ahead, not before the window.
Replayable(at, seq) ==
  /\ at = epoch
  /\ seq <= Current
  /\ \/ seq = Current
     \/ replay # << >> /\ seq + 1 >= Head(replay).seq

\* lower_bound: the binary search ends between an event not past seq and one past it.
LowerBound(seq) ==
  CHOOSE i \in 0 .. Len(replay) :
    /\ i > 0 => replay[i].seq <= seq
    /\ i < Len(replay) => replay[i + 1].seq > seq

\* replay_after.
ReplayAfter(seq) == SubSeq(replay, LowerBound(seq) + 1, Len(replay))

EventFrames(events) == [i \in 1 .. Len(events) |-> EventFrame(events[i])]

\* The cursor of the request: the caller gives the one it holds, or none.
Resumes(c, cursorGiven) ==
  cursorGiven /\ client[c].epoch # 0 /\ Replayable(client[c].epoch, client[c].cursor)

\* watch_after: one lock of the service.
WatchAfter(c) ==
  /\ stream[c].phase = "closed"
  /\ \E cursorGiven \in BOOLEAN :
       LET frames == IF Resumes(c, cursorGiven) THEN EventFrames(ReplayAfter(client[c].cursor))
                     ELSE <<SnapshotFrame>>
       IN  stream' = [stream EXCEPT ![c] = [phase |-> "opened", initial |-> frames, pos |-> Current]]
  /\ UNCHANGED <<epoch, log, replay, projector, client>>

\* A receiver subscribed now sees the events published from now on.  What was
\* published since the initial frames were made is in neither.
Follow(c) ==
  /\ stream' = [stream EXCEPT ![c] = [phase |-> "live", initial |-> stream[c].initial, pos |-> Current]]
  /\ client' = [client EXCEPT ![c].lost = @ \cup (stream[c].pos + 1 .. Current)]

\* subscribe_live: a second lock of the service.
Subscribe(c) ==
  /\ stream[c].phase = "opened"
  /\ Follow(c)
  /\ UNCHANGED <<epoch, log, replay, projector>>

(***************************************************************************)
(* UdsWatchIter::next hands every frame on as it comes; what its caller    *)
(* makes of a jump in the cursors is the caller's affair.                  *)
(***************************************************************************)
CursorOf(frame) == IF frame.kind = "Snapshot" THEN frame.cursor ELSE frame.event.seq

\* The events a frame tells of.
Cover(frame) == IF frame.kind = "Snapshot" THEN 1 .. frame.cursor ELSE {frame.event.seq}

Received(k, frame) ==
  [epoch |-> epoch, cursor |-> CursorOf(frame),
   told |-> k.told \cup Cover(frame), lost |-> k.lost \ Cover(frame)]

(***************************************************************************)
(* WatchStream::poll_next                                                  *)
(***************************************************************************)
DeliverInitial(c) ==
  /\ stream[c].phase = "live"
  /\ stream[c].initial # << >>
  /\ client' = [client EXCEPT ![c] = Received(@, Head(stream[c].initial))]
  /\ stream' = [stream EXCEPT ![c].initial = Tail(@)]
  /\ UNCHANGED <<epoch, log, replay, projector>>

Lagged(c) == Current - stream[c].pos > LiveCapacity

DeliverLive(c) ==
  /\ stream[c].phase = "live"
  /\ stream[c].initial = << >>
  /\ stream[c].pos < Current
  /\ ~Lagged(c)
  /\ LET seq == stream[c].pos + 1
     IN  client' = [client EXCEPT ![c] = Received(@, EventFrame([seq |-> seq, slice |-> log[seq]]))]
  /\ stream' = [stream EXCEPT ![c].pos = @ + 1]
  /\ UNCHANGED <<epoch, log, replay, projector>>

\* A lagged receiver: fetch_snapshot, then resubscribe, each under its own lock.
FetchSnapshot(c) ==
  /\ stream[c].phase = "live"
  /\ stream[c].initial = << >>
  /\ Lagged(c)
  /\ stream' = [stream EXCEPT ![c] = [phase |-> "lagged", initial |-> <<SnapshotFrame>>, pos |-> Current]]
  /\ UNCHANGED <<epoch, log, replay, projector, client>>

Resubscribe(c) ==
  /\ stream[c].phase = "lagged"
  /\ Follow(c)
  /\ UNCHANGED <<epoch, log, replay, projector>>

\* The peer disconnects; it may come back with its cursor.
Disconnect(c) ==
  /\ stream[c].phase # "closed"
  /\ stream' = [stream EXCEPT ![c] = Closed]
  /\ UNCHANGED <<epoch, log, replay, projector, client>>

Serve(c) ==
  \/ WatchAfter(c) \/ Subscribe(c) \/ DeliverInitial(c) \/ DeliverLive(c)
  \/ FetchSnapshot(c) \/ Resubscribe(c)

ProjectionNext ==
  \/ \E slice \in Slices : Publish(slice)
  \/ \E c \in Clients : Serve(c)
  \/ \E c \in Clients : Disconnect(c)
  \/ RestartDaemon

ProjectionSpec == ProjectionInit /\ [][ProjectionNext]_projectionVars

\* The connection task is polled whenever it can make progress.
FairProjectionSpec == ProjectionSpec /\ \A c \in Clients : WF_projectionVars(Serve(c))

(***************************************************************************)
(* Properties                                                              *)
(***************************************************************************)

\* Types of the projection, the streams and the clients.
ProjectionTypeOK ==
  /\ epoch \in 1 .. MaxEpoch
  /\ log \in Seq(Slices)
  /\ replay \in Seq(Event)
  /\ projector \in [cursor : Sequence, view : Snapshot]
  /\ stream \in [Clients -> [phase : {"closed", "opened", "live", "lagged"},
                             initial : Seq(Frame), pos : Sequence]]
  /\ client \in [Clients -> [epoch : 0 .. MaxEpoch, cursor : Sequence,
                             told : SUBSET Sequence, lost : SUBSET Sequence]]

\* The last of the first n events of l to write slice s: one event, or none.
LastWrite(l, n, s) == {i \in 1 .. n : l[i] = s /\ \A j \in i + 1 .. n : l[j] # s}
ValueOf(writes) == IF writes = {} THEN 0 ELSE CHOOSE i \in writes : TRUE

\* The snapshot after n events: of a log, and of this epoch.
StateAfter(l, n) == [s \in Slices |-> ValueOf(LastWrite(l, n, s))]
StateAt(n) == StateAfter(log, n)

\* The projector has applied every published event exactly once, in order
\* (publish sends and receives on one thread).
ProjectorExact ==
  /\ projector.cursor = Current
  /\ projector.view = StateAt(Current)

\* The replay window is the contiguous tail of what was published, so that a
\* replay never skips an event (commit_published, replay_after).
ReplayExact ==
  /\ Len(replay) <= ReplayCapacity
  /\ Len(replay) <= Current
  /\ \A i \in DOMAIN replay :
       LET seq == Current - Len(replay) + i
       IN  replay[i] = [seq |-> seq, slice |-> log[seq]]

\* The invariant of the publishing side: the types, a projector level with the
\* log and a replay window that is its tail, across daemon restarts.
ProjectionInv == ProjectionTypeOK /\ ProjectorExact /\ ReplayExact

\* Nothing is skipped: of the events up to the cursor a caller holds it was told
\* every one, except those published between the two locks of an opening or of a
\* recovery from a lag; and a stream has in its frames or has told, with the same
\* exception, everything up to the position its live events follow.
Covered(q) == UNION {Cover(q[i]) : i \in DOMAIN q}
NothingSkipped ==
  \A c \in Clients :
    LET k == client[c]
    IN  /\ k.epoch <= epoch
        /\ k.epoch = epoch => k.cursor <= Current /\ 1 .. k.cursor \subseteq k.told \cup k.lost
        /\ stream[c].phase # "closed" =>
             1 .. stream[c].pos \subseteq k.told \cup k.lost \cup Covered(stream[c].initial)

\* Frames come in order and never twice: the waiting events of a replay are the ones
\* right after the caller's cursor, a snapshot waits alone and is not older than what
\* the caller holds, the live events follow both, and what the first frame of a new
\* daemon tells is its whole state.
StreamOrdered ==
  \A c \in Clients :
    LET k == client[c]
        q == stream[c].initial
    IN  /\ stream[c].phase # "closed" /\ k.epoch = epoch => k.cursor <= stream[c].pos
        /\ stream[c].phase # "closed" /\ k.epoch # epoch => q # << >>
        /\ \A i \in DOMAIN q :
             /\ CursorOf(q[i]) <= stream[c].pos
             /\ q[i].kind = "Event" => k.epoch = epoch /\ q[i].event.seq = k.cursor + i
             /\ q[i].kind = "Snapshot" => i = 1 /\ Len(q) = 1 /\ (k.epoch = epoch => k.cursor <= q[i].cursor)

\* A frame that waits to be delivered is of this epoch and tells what happened in
\* it, and a subscriber is not ahead of the publisher.
FrameExact(f) ==
  /\ CursorOf(f) <= Current
  /\ f.kind = "Snapshot" => f.view = StateAt(f.cursor)
  /\ f.kind = "Event" => f.event.seq > 0 /\ f.event.slice = log[f.event.seq]
StreamsKnow ==
  \A c \in Clients :
    /\ stream[c].pos <= Current
    /\ \A i \in DOMAIN stream[c].initial : FrameExact(stream[c].initial[i])

\* The invariant of watching: the replay window and the projector agree with the
\* log, every frame tells the truth of its position, frames come in order, and
\* nothing is skipped but what falls between the two locks.
WatchInv == ProjectionInv /\ NothingSkipped /\ StreamOrdered /\ StreamsKnow

\* The caller of a live stream is told every event, lag recovery included, unless it
\* disconnects or the event fell between the two locks: a slow watcher does not go
\* round for ever between a lag and a new subscription.
StreamTells ==
  \A c \in Clients, n \in 1 .. MaxSequence :
    (stream[c].phase = "live" /\ n <= Current)
      ~> (stream[c].phase = "closed" \/ n \in client[c].told \cup client[c].lost)
=============================================================================
