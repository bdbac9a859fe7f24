------------------------------ MODULE WsStream ------------------------------
(***************************************************************************)
(* One WebSocket connection's outbound side (internal/ws/conn.go and       *)
(* subscribe.go): a console subscription with its replay, live lines       *)
(* pushed through a queue that drops its oldest, state messages through    *)
(* one that never drops, and the write loop that tells the client what it  *)
(* missed.  The source is the log reader's ring of the newest lines.       *)
(***************************************************************************)
EXTENDS Naturals, Sequences, SequencesExt

CONSTANTS
  MaxLine,       \* lines the source emits (bound)
  RingSize,      \* lines a late subscriber is replayed
  QueueDepth,    \* queueDepth, of each of the two queues
  MaxStates      \* state messages published (bound)

ASSUME WsStreamAssumption ==
  MaxLine \in Nat /\ RingSize \in Nat \ {0} /\ QueueDepth \in Nat \ {0} /\ MaxStates \in Nat

VARIABLES
  line,       \* sequence number of the newest line of the source
  sub,        \* c.subs[topic]: how far it is opened, and the lines of its replay
  lossy,      \* c.lossy: sequence numbers of lines
  lossless,   \* c.lossless: frames
  waiting,    \* writeLoop found the lossless queue empty and waits on both
  lastWritten,       \* writeLoop's last[topic]; 0 for none
  client,     \* what the client was sent since the acknowledgement or its replay
  states,     \* state messages published
  up          \* the connection is open

streamVars == <<line, sub, lossy, lossless, waiting, lastWritten, client, states, up>>

Unheld == [at |-> "none", replay |-> {}]
NewView == [from |-> 0, shown |-> {}, gaps |-> {}]
RingLines == {n \in 1..line : n + RingSize > line}

StreamInit ==
  /\ line = 0 /\ sub = Unheld /\ lossy = <<>> /\ lossless = <<>> /\ waiting = FALSE
  /\ lastWritten = 0 /\ client = NewView /\ states = 0 /\ up = TRUE

(* c.holds(topic).                                                         *)
holds == sub.at # "none"

(* pushLossless: a full queue closes the connection.                       *)
pushLossless(frame) ==
  \/ Len(lossless) < QueueDepth /\ lossless' = Append(lossless, frame) /\ UNCHANGED up
  \/ Len(lossless) = QueueDepth /\ up' = FALSE /\ UNCHANGED lossless

(* subscribe: the topic is registered first ...                            *)
StreamSubscribe ==
  /\ up /\ ~holds
  /\ sub' = [at |-> "registered", replay |-> {}]
  /\ UNCHANGED <<line, lossy, lossless, waiting, lastWritten, client, states, up>>

(* ... then, under sub.mu, its source is opened and the acknowledgement    *)
(* queued; live lines wait on sub.mu until the replay is queued too.       *)
OpenSource ==
  /\ up /\ sub.at = "registered"
  /\ sub' = [at |-> IF RingLines = {} THEN "open" ELSE "acked", replay |-> RingLines]
  /\ pushLossless([kind |-> "ack"])
  /\ UNCHANGED <<line, lossy, waiting, lastWritten, client, states>>

QueueReplay ==
  /\ up /\ sub.at = "acked"
  /\ sub' = [sub EXCEPT !.at = "open"]
  /\ pushLossless([kind |-> "replay", lines |-> sub.replay])
  /\ UNCHANGED <<line, lossy, waiting, lastWritten, client, states>>

(* drop: by the client's unsubscribe, or a recheck that lost the right.    *)
(* sub.end waits on sub.mu.                                                *)
StreamUnsubscribe ==
  /\ up /\ sub.at \in {"registered", "open"}
  /\ sub' = Unheld
  /\ UNCHANGED <<line, lossy, lossless, waiting, lastWritten, client, states, up>>

(* push of a lossy line: a full queue loses its oldest, or, stuck for too  *)
(* long, closes the connection.                                            *)
push(n) ==
  \/ lossy' = (IF Len(lossy) < QueueDepth THEN lossy ELSE Tail(lossy)) \o <<n>> /\ UNCHANGED up
  \/ Len(lossy) = QueueDepth /\ up' = FALSE /\ UNCHANGED lossy

(* sendLive, on the source's goroutine: a line past the replay is pushed.  *)
Emit ==
  /\ line < MaxLine /\ sub.at # "acked"
  /\ line' = line + 1
  /\ \/ up /\ sub.at = "open" /\ line + 1 \notin sub.replay /\ push(line + 1)
     \/ ~(up /\ sub.at = "open" /\ line + 1 \notin sub.replay) /\ UNCHANGED <<lossy, up>>
  /\ UNCHANGED <<sub, lossless, waiting, lastWritten, client, states>>

(* deliver of a state topic.                                               *)
PublishState ==
  /\ up /\ states < MaxStates
  /\ states' = states + 1
  /\ pushLossless([kind |-> "state"])
  /\ UNCHANGED <<line, sub, lossy, waiting, lastWritten, client>>

(* gapBefore: the lines between the last one written and this one.         *)
gapBefore(n) == IF lastWritten # 0 /\ n > lastWritten + 1 THEN (lastWritten + 1)..(n - 1) ELSE {}

\* A wrong version: the last number written is not moved to the replay.
WriteReplayKeepingLast(f) ==
  client' = [from |-> Min(f.lines), shown |-> f.lines, gaps |-> {}] /\ UNCHANGED lastWritten

(* writeFrame of a replay: the client starts over at its first line.       *)
WriteReplay(f) ==
  /\ client' = [from |-> Min(f.lines), shown |-> f.lines, gaps |-> {}]
  /\ lastWritten' = Max(f.lines)

(* writeLoop and writeFrame, the lossless queue first; what belongs to a   *)
(* lossy topic no longer held is discarded.                                *)
WriteLossless ==
  /\ up /\ lossless # <<>>
  /\ lossless' = Tail(lossless) /\ waiting' = FALSE
  /\ LET f == Head(lossless) IN
     \/ f.kind = "ack" /\ holds /\ client' = NewView /\ UNCHANGED lastWritten
     \/ f.kind = "replay" /\ holds /\ WriteReplay(f)
     \/ (f.kind = "state" \/ ~holds) /\ UNCHANGED <<client, lastWritten>>
  /\ UNCHANGED <<line, sub, lossy, states, up>>

(* writeLoop: nothing lossless was queued when it looked.                  *)
AwaitFrame ==
  /\ up /\ lossless = <<>> /\ ~waiting
  /\ waiting' = TRUE
  /\ UNCHANGED <<line, sub, lossy, lossless, lastWritten, client, states, up>>

WriteLossy ==
  /\ up /\ waiting /\ lossy # <<>>
  /\ lossy' = Tail(lossy) /\ waiting' = FALSE
  /\ LET n == Head(lossy) IN
     \/ /\ holds
        /\ client' = [from  |-> IF client.from = 0 THEN n ELSE client.from,
                      shown |-> client.shown \cup {n},
                      gaps  |-> client.gaps \cup gapBefore(n)]
        /\ lastWritten' = n
     \/ ~holds /\ UNCHANGED <<client, lastWritten>>
  /\ UNCHANGED <<line, sub, lossless, states, up>>

(* write or pingLoop: the client is gone.                                  *)
SocketFails ==
  /\ up /\ up' = FALSE
  /\ UNCHANGED <<line, sub, lossy, lossless, waiting, lastWritten, client, states>>

StreamNext ==
  \/ StreamSubscribe \/ OpenSource \/ QueueReplay \/ StreamUnsubscribe
  \/ Emit \/ PublishState \/ AwaitFrame \/ WriteLossless \/ WriteLossy \/ SocketFails

StreamSpec == StreamInit /\ [][StreamNext]_streamVars

----------------------------------------------------------------------------
(* Nothing is lost in silence: from the first line of its subscription to  *)
(* the newest it was sent, the client was sent every line or told that it  *)
(* missed it, through drops, a slow client, and lines queued before an     *)
(* unsubscribe and written after the next subscribe (conn.go: push,        *)
(* writeFrame, gapBefore).                                                 *)
NoSilentLoss ==
  \A b \in client.shown : \A n \in client.from..b : n \in client.shown \cup client.gaps
=============================================================================
