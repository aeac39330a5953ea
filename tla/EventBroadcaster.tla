--------------------------- MODULE EventBroadcaster ---------------------------
(***************************************************************************)
(* internal/sse: goroutines that broadcast events to the subscribers of a  *)
(* channel, and the event streams that subscribe, read and leave, over one *)
(* read-write lock.  A stream closes its Go channel after it has given the *)
(* lock back.  Go's lock lets no reader in while a writer waits.           *)
(***************************************************************************)
EXTENDS NullValue, Naturals, Sequences, FiniteSets

CONSTANTS
  Streams,
  Channels,      \* "user:...", "role:...", "outlet:..."
  Broadcasters,  \* goroutines that call Broadcast
  Buffer,        \* capacity of a subscriber's Go channel (8 in the code)
  MaxEvents      \* bound: events broadcast

ASSUME BroadcasterAssumption ==
  /\ Buffer \in Nat \ {0} /\ MaxEvents \in Nat
  /\ NULL \notin Streams \cup Channels
  /\ Streams \cap Broadcasters = {}

VARIABLES
  subs,      \* per channel, the streams registered
  buffer,    \* per stream and channel, the events not yet read
  closed,    \* per stream, the channels whose Go channel has been closed
  stream,    \* per stream: where it is and the channels left to handle there
  closing,   \* per stream, the channel removed under the lock but not yet closed
  broadcast, \* per broadcaster: where it is, its channel, event and receivers left
  writer,    \* who holds the lock for writing
  waiting,   \* who waits for that
  events     \* events broadcast so far

eventVars == <<subs, buffer, closed, stream, closing, broadcast, writer, waiting, events>>
lockVars == <<writer, waiting>>

Silent == [at |-> "idle", channel |-> NULL, event |-> 0, todo |-> {}]
Readers == {b \in Broadcasters : broadcast[b].at = "sending"}

\* The types, and no stream that has not connected or has gone is registered:
\* a connection that ends leaves nothing behind in the broadcaster's map.
EventTypeOK ==
  /\ subs \in [Channels -> SUBSET Streams]
  /\ buffer \in [Streams -> [Channels -> Seq(1..MaxEvents)]]
  /\ closed \in [Streams -> SUBSET Channels]
  /\ stream \in [Streams -> [at : {"off", "subscribing", "reading", "leaving", "gone"},
                             todo : SUBSET Channels]]
  /\ closing \in [Streams -> Channels \cup {NULL}]
  /\ broadcast \in [Broadcasters -> {Silent} \cup
       [at : {"locking", "sending"}, channel : Channels, event : 1..MaxEvents,
        todo : SUBSET Streams]]
  /\ writer \in Streams \cup {NULL}
  /\ waiting \in SUBSET Streams
  /\ events \in 0..MaxEvents
  /\ \A c \in Channels : \A s \in subs[c] : stream[s].at \notin {"off", "gone"}

EventInit ==
  /\ subs = [c \in Channels |-> {}]
  /\ buffer = [s \in Streams |-> [c \in Channels |-> <<>>]]
  /\ closed = [s \in Streams |-> {}]
  /\ stream = [s \in Streams |-> [at |-> "off", todo |-> {}]]
  /\ closing = [s \in Streams |-> NULL]
  /\ broadcast = [b \in Broadcasters |-> Silent]
  /\ writer = NULL /\ waiting = {}
  /\ events = 0

-----------------------------------------------------------------------------
\* Stream: identify says which channels, the loop subscribes to each.
Connect(s, channels) ==
  /\ stream[s].at = "off"
  /\ channels # {}
  /\ stream' = [stream EXCEPT ![s] = [at |-> "subscribing", todo |-> channels]]
  /\ UNCHANGED <<subs, buffer, closed, closing, broadcast, lockVars, events>>

\* Mutant: Unsubscribe closes the Go channel before it asks for the lock.
CloseThenWait(s) ==
  /\ stream[s].at \in {"subscribing", "leaving"} /\ stream[s].todo # {}
  /\ closing[s] = NULL
  /\ writer # s
  /\ s \notin waiting
  /\ waiting' = waiting \cup {s}
  /\ closed' = IF stream[s].at = "leaving"
               THEN [closed EXCEPT ![s] = @ \cup stream[s].todo] ELSE closed
  /\ UNCHANGED <<subs, buffer, stream, closing, broadcast, writer, events>>

\* b.mu.Lock() of Subscribe and of Unsubscribe.
WaitForLock(s) ==
  /\ stream[s].at \in {"subscribing", "leaving"} /\ stream[s].todo # {}
  /\ closing[s] = NULL
  /\ writer # s
  /\ waiting' = waiting \cup {s}
  /\ s \notin waiting
  /\ UNCHANGED <<subs, buffer, closed, stream, closing, broadcast, writer, events>>

Lock(s) ==
  /\ s \in waiting
  /\ writer = NULL /\ Readers = {}
  /\ writer' = s
  /\ waiting' = waiting \ {s}
  /\ UNCHANGED <<subs, buffer, closed, stream, closing, broadcast, events>>

\* The channel is registered; with the last one the stream begins to read.
Subscribe(s, c) ==
  /\ writer = s /\ stream[s].at = "subscribing" /\ c \in stream[s].todo
  /\ subs' = [subs EXCEPT ![c] = @ \cup {s}]
  /\ stream' = [stream EXCEPT ![s] =
       [at |-> IF stream[s].todo = {c} THEN "reading" ELSE "subscribing",
        todo |-> stream[s].todo \ {c}]]
  /\ writer' = NULL
  /\ UNCHANGED <<buffer, closed, closing, broadcast, waiting, events>>

\* A case of the select; the write to the client may take as long as it likes.
Receive(s, c) ==
  /\ stream[s].at = "reading"
  /\ buffer[s][c] # <<>>
  /\ buffer' = [buffer EXCEPT ![s][c] = Tail(@)]
  /\ UNCHANGED <<subs, closed, stream, closing, broadcast, lockVars, events>>

\* Mutant: the deferred function unsubscribes the first channel only.
LeaveFirst(s) ==
  /\ stream[s].at = "reading"
  /\ \E c \in {d \in Channels : s \in subs[d]} :
       stream' = [stream EXCEPT ![s] = [at |-> "leaving", todo |-> {c}]]
  /\ UNCHANGED <<subs, buffer, closed, closing, broadcast, lockVars, events>>

\* The client is gone; the deferred function unsubscribes channel by channel.
Leave(s) ==
  /\ stream[s].at = "reading"
  /\ stream' = [stream EXCEPT ![s] =
       [at |-> "leaving", todo |-> {c \in Channels : s \in subs[c]}]]
  /\ UNCHANGED <<subs, buffer, closed, closing, broadcast, lockVars, events>>

Unsubscribe(s, c) ==
  /\ writer = s /\ stream[s].at = "leaving" /\ c \in stream[s].todo
  /\ subs' = [subs EXCEPT ![c] = @ \ {s}]
  /\ closing' = [closing EXCEPT ![s] = c]
  /\ stream' = [stream EXCEPT ![s].todo = @ \ {c}]
  /\ writer' = NULL
  /\ UNCHANGED <<buffer, closed, broadcast, waiting, events>>

\* close(ch), after the lock was given back.
Close(s) ==
  /\ closing[s] # NULL
  /\ closed' = [closed EXCEPT ![s] = @ \cup {closing[s]}]
  /\ closing' = [closing EXCEPT ![s] = NULL]
  /\ stream' = [stream EXCEPT ![s].at = IF stream[s].todo = {} THEN "gone" ELSE @]
  /\ UNCHANGED <<subs, buffer, broadcast, lockVars, events>>

-----------------------------------------------------------------------------
Broadcast(b, c) ==
  /\ broadcast[b] = Silent
  /\ events < MaxEvents
  /\ events' = events + 1
  /\ broadcast' = [broadcast EXCEPT ![b] =
       [at |-> "locking", channel |-> c, event |-> events + 1, todo |-> {}]]
  /\ UNCHANGED <<subs, buffer, closed, stream, closing, lockVars>>

\* b.mu.RLock(); the channel's subscribers cannot change until RUnlock.
RLock(b) ==
  /\ broadcast[b].at = "locking"
  /\ writer = NULL /\ waiting = {}
  /\ broadcast' = [broadcast EXCEPT ![b].at = "sending",
                                    ![b].todo = subs[broadcast[b].channel]]
  /\ UNCHANGED <<subs, buffer, closed, stream, closing, lockVars, events>>

\* Mutant: the send waits for room instead of skipping a full buffer.
SendOrWait(b, s) ==
  LET c == broadcast[b].channel IN
  /\ broadcast[b].at = "sending" /\ s \in broadcast[b].todo
  /\ Len(buffer[s][c]) < Buffer
  /\ buffer' = [buffer EXCEPT ![s][c] = Append(@, broadcast[b].event)]
  /\ broadcast' = [broadcast EXCEPT ![b].todo = @ \ {s}]
  /\ UNCHANGED <<subs, closed, stream, closing, lockVars, events>>

\* The select with a default: a full buffer is skipped.
Send(b, s) ==
  LET c == broadcast[b].channel IN
  /\ broadcast[b].at = "sending" /\ s \in broadcast[b].todo
  /\ buffer' = IF Len(buffer[s][c]) < Buffer
               THEN [buffer EXCEPT ![s][c] = Append(@, broadcast[b].event)] ELSE buffer
  /\ broadcast' = [broadcast EXCEPT ![b].todo = @ \ {s}]
  /\ UNCHANGED <<subs, closed, stream, closing, lockVars, events>>

RUnlock(b) ==
  /\ broadcast[b].at = "sending" /\ broadcast[b].todo = {}
  /\ broadcast' = [broadcast EXCEPT ![b] = Silent]
  /\ UNCHANGED <<subs, buffer, closed, stream, closing, lockVars, events>>

StreamStep(s) ==
  \/ WaitForLock(s) \/ Lock(s) \/ Close(s)
  \/ \E c \in Channels : Subscribe(s, c) \/ Unsubscribe(s, c)

BroadcastStep(b) ==
  RLock(b) \/ RUnlock(b) \/ \E s \in Streams : Send(b, s)

EventNext ==
  \/ \E s \in Streams :
       \/ \E channels \in SUBSET Channels : Connect(s, channels)
       \/ Leave(s) \/ StreamStep(s)
       \/ \E c \in Channels : Receive(s, c)
  \/ \E b \in Broadcasters :
       \/ \E c \in Channels : Broadcast(b, c)
       \/ BroadcastStep(b)

EventSpec == EventInit /\ [][EventNext]_eventVars

\* The scheduler runs every goroutine that can run.  Clients need not read or
\* leave, nobody needs to broadcast.
EventFairness ==
  /\ \A s \in Streams : WF_eventVars(StreamStep(s))
  /\ \A b \in Broadcasters : WF_eventVars(BroadcastStep(b))

-----------------------------------------------------------------------------
\* A send on a closed Go channel panics: whatever leaves while a broadcast is
\* under way, no receiver it still has to send to has closed its channel.
NoSendOnClosed ==
  \A b \in Readers : \A s \in broadcast[b].todo : broadcast[b].channel \notin closed[s]

\* "subscribers with a full buffer are skipped, not blocked on": every broadcast
\* returns, also when no client reads and some leave.
BroadcastReturns ==
  \A b \in Broadcasters : broadcast[b] # Silent ~> broadcast[b] = Silent

\* Every client that leaves is removed everywhere and its Go channels closed.
LeaversGo ==
  \A s \in Streams : stream[s].at = "leaving" ~> stream[s].at = "gone"
=============================================================================
