---------------------------- MODULE TerminalFlow ----------------------------
(***************************************************************************)
(* The data of one open terminal.  Output: the channel of the shell is     *)
(* read while it is not paused, chunks wait in a queue of bounded size and *)
(* go to the WebSocket while little of what it holds is unsent.  Input:    *)
(* messages wait while the channel is full.  The handlers of the channel   *)
(* are attached only after the opening has been audited; messages of the   *)
(* browser are taken before that.                                          *)
(*                                                                         *)
(* A chunk is sent and its callback runs in one step, and the microtask    *)
(* the callback queues with it.  What the StringDecoder holds back of a    *)
(* chunk counts as part of the next.  A chunk carries the place its bytes   *)
(* have in all that was queued, so that outputBytes and bufferedAmount are  *)
(* differences of places.  MaxOut and MaxIn bound the data.                 *)
(***************************************************************************)
EXTENDS Integers, Sequences, FiniteSets, SequencesExt

CONSTANTS High,      \* outputBufferBytes
          InHigh,    \* inputBufferBytes, a message counting one
          Window,    \* messages the channel takes before it is full
          Sizes,     \* of the chunks
          MaxOut, MaxIn

ASSUME FlowAssumption ==
  /\ {High, InHigh, Window, MaxOut, MaxIn} \subseteq Nat
  /\ High > 0 /\ Window > 0 /\ Sizes \subseteq Nat \ {0}

VARIABLES
  live,      \* "ready", or why the session was closed
  wired,     \* the handlers of the channel are attached
  out,       \* outputQueue, sending (pendingSends and bufferedAmount), paused,
             \* held (channel.pause() is in force), slow, closing, drainTimer,
             \* upto (the bytes queued so far)
  got,       \* history: the chunks sent
  made,      \* history: the chunks the channel has emitted
  dropped,   \* history: the chunks no queue took
  in,        \* inputQueue, what the channel holds, whether it is blocked
  typed,     \* history: the messages taken
  missed     \* history: the channel drained before anybody listened

fvars == <<live, wired, out, got, made, dropped, in, typed, missed>>

Low == High \div 2

Chunk == [id : 1 .. MaxOut, from : Nat, upto : Nat]

Size(c) == c.upto - c.from

\* What chunks that follow one another hold.
Bytes(s) == IF s = <<>> THEN 0 ELSE s[Len(s)].upto - s[1].from

-----------------------------------------------------------------------------
(* Output: the steps of flush *)

\* How many chunks go to the socket: each finds it below the low mark.
Moved(o) ==
  CHOOSE k \in 0 .. Len(o.queue) :
    /\ \A i \in 1 .. k : Bytes(o.sending) + Bytes(SubSeq(o.queue, 1, i - 1)) <= Low
    /\ k < Len(o.queue) => Bytes(o.sending) + Bytes(SubSeq(o.queue, 1, k)) > Low

\* resumeIfDrained
Resumed(o) ==
  IF ~ o.closing /\ o.queue = <<>> /\ Bytes(o.sending) <= Low
  THEN [o EXCEPT !.paused = FALSE, !.slow = FALSE,
                 !.held = IF o.paused THEN FALSE ELSE @]
  ELSE o

\* Faulty: the channel is not paused.
Flushed_Flowing(o) ==
  LET k == Moved(o)
      m == [o EXCEPT !.queue = SubSeq(@, k + 1, Len(@)),
                     !.sending = @ \o SubSeq(o.queue, 1, k)]
  IN IF m.queue # <<>>
     THEN [m EXCEPT !.paused = TRUE, !.slow = TRUE]
     ELSE Resumed(m)

\* flush: send what may be sent, then pause the channel or resume it.
Flushed(o) ==
  LET k == Moved(o)
      m == [o EXCEPT !.queue = SubSeq(@, k + 1, Len(@)),
                     !.sending = @ \o SubSeq(o.queue, 1, k)]
  IN IF m.queue # <<>>
     THEN [m EXCEPT !.paused = TRUE, !.slow = TRUE,
                    !.held = @ \/ ~ o.paused]
     ELSE Resumed(m)

\* finishChannelCloseIfDrained closes the session.
Drained(o) == o.closing /\ o.sending = <<>> /\ o.queue = <<>>

\* The output after a handler that ends in flush, and the session.
Settle(o) ==
  /\ out' = o
  /\ live' = IF Drained(o) THEN "channel_closed" ELSE live

\* onData
Data(size) ==
  LET chunk == [id |-> made + 1, from |-> out.upto, upto |-> out.upto + size] IN
  /\ live = "ready" /\ wired /\ ~ out.held /\ ~ out.closing
  /\ made < MaxOut
  /\ made' = made + 1
  /\ IF Bytes(out.queue) + size > High
     THEN /\ out' = [out EXCEPT !.paused = TRUE, !.held = TRUE, !.slow = TRUE]
          /\ dropped' = dropped \cup {chunk}
          /\ UNCHANGED live
     ELSE /\ Settle(Flushed([out EXCEPT !.queue = Append(@, chunk), !.upto = @ + size]))
          /\ UNCHANGED dropped
  /\ UNCHANGED <<wired, got, in, typed, missed>>

\* The socket has sent a chunk.
SendDone ==
  /\ out.sending # <<>>
  /\ got' = Append(got, Head(out.sending))
  /\ LET o == [out EXCEPT !.sending = Tail(@), !.slow = FALSE]
     IN IF live # "ready" THEN out' = o /\ UNCHANGED live
        ELSE IF Drained(o) THEN Settle(o)
        ELSE Settle(Flushed(Resumed(o)))
  /\ UNCHANGED <<wired, made, dropped, in, typed, missed>>

\* The interval that looks after a paused channel.
PollOutput ==
  /\ live = "ready" /\ wired
  /\ out.paused /\ Bytes(out.sending) <= Low
  /\ Settle(Resumed(Flushed(out)))
  /\ UNCHANGED <<wired, got, made, dropped, in, typed, missed>>

-----------------------------------------------------------------------------
(* Input *)

IdsOf(s) == [i \in DOMAIN s |-> s[i].id]

\* drainInput: messages are written until the channel says it is full; the
\* write that says so counts.
Written(i) ==
  LET k == CHOOSE n \in 0 .. Len(i.queue) :
             /\ n <= Window - i.held
             /\ n = Len(i.queue) \/ n = Window - i.held
  IN [i EXCEPT !.queue = SubSeq(@, k + 1, Len(@)), !.held = @ + k,
               !.blocked = k > 0 /\ i.held + k = Window]

\* An input message of the browser.
Input ==
  /\ live = "ready" /\ typed < MaxIn
  /\ typed' = typed + 1
  /\ LET i == [in EXCEPT !.queue = Append(@, typed + 1)]
     IN IF Len(i.queue) > InHigh
        THEN in' = i /\ live' = "input_overflow"
        ELSE /\ in' = IF i.blocked THEN i ELSE Written(i)
             /\ UNCHANGED live
  /\ UNCHANGED <<wired, out, got, made, dropped, missed>>

\* The channel takes a message to the host; when it is empty again after it was
\* full it emits `drain', heard or not.
ChannelTakes ==
  /\ in.held > 0
  /\ LET i == [in EXCEPT !.held = @ - 1, !.taken = @ + 1]
         empty == i.held = 0 /\ i.blocked
     IN /\ in' = IF empty /\ wired /\ live = "ready" THEN Written(i) ELSE i
        /\ missed' = (missed \/ (empty /\ ~ wired))
  /\ UNCHANGED <<live, wired, out, got, made, dropped, typed>>

-----------------------------------------------------------------------------
(* The session *)

\* The opening has been audited: the handlers of the channel are attached.
Attach ==
  /\ ~ wired
  /\ wired' = TRUE
  /\ UNCHANGED <<live, out, got, made, dropped, in, typed, missed>>

\* onClose of the channel: what is queued gets a short time to go out.
ChannelCloses ==
  /\ live = "ready" /\ wired /\ ~ out.closing
  /\ LET o == Flushed([out EXCEPT !.closing = TRUE, !.held = TRUE])
     IN Settle([o EXCEPT !.drainTimer = ~ Drained(o)])
  /\ UNCHANGED <<wired, got, made, dropped, in, typed, missed>>

Ends(reason) ==
  /\ live' = reason
  /\ UNCHANGED <<wired, out, got, made, dropped, in, typed, missed>>

DrainTimeout == live = "ready" /\ out.drainTimer /\ Ends("drain_timeout")
SlowConsumer == live = "ready" /\ out.slow /\ Ends("slow_consumer")
SendFails == live = "ready" /\ out.sending # <<>> /\ Ends("socket_error")

FInit ==
  /\ live = "ready" /\ wired = FALSE
  /\ out = [ queue |-> <<>>, sending |-> <<>>, paused |-> FALSE, held |-> FALSE,
             slow |-> FALSE, closing |-> FALSE, drainTimer |-> FALSE, upto |-> 0 ]
  /\ got = <<>> /\ made = 0 /\ dropped = {}
  /\ in = [queue |-> <<>>, held |-> 0, blocked |-> FALSE, taken |-> 0]
  /\ typed = 0 /\ missed = FALSE

FNext ==
  \/ \E size \in Sizes : Data(size)
  \/ SendDone \/ PollOutput \/ Input \/ ChannelTakes \/ Attach
  \/ ChannelCloses \/ DrainTimeout \/ SlowConsumer \/ SendFails

FSpec == FInit /\ [][FNext]_fvars

\* The audit returns, a socket that is not broken sends, the interval runs.
FFairSpec == FSpec /\ WF_fvars(Attach) /\ WF_fvars(SendDone) /\ WF_fvars(PollOutput)

-----------------------------------------------------------------------------
(* Properties *)

\* The state of the module stays what its declarations say.
FlowTypeOK ==
  /\ live \in { "ready", "channel_closed", "drain_timeout", "slow_consumer",
                "socket_error", "input_overflow" }
  /\ \A c \in ToSet(got \o out.sending \o out.queue) \cup dropped :
       c \in Chunk /\ Size(c) \in Sizes
  /\ {out.paused, out.held, out.slow, out.closing, out.drainTimer} \subseteq BOOLEAN
  /\ made \in 0 .. MaxOut /\ typed \in 0 .. MaxIn
  /\ in.held \in 0 .. Window /\ Len(in.queue) <= InHigh + 1
  /\ {wired, missed} \subseteq BOOLEAN

\* Everything the shell printed is sent, under way or queued, once and in
\* order, but for what was dropped.
OutputInOrder ==
  LET ids == IdsOf(got \o out.sending \o out.queue)
  IN /\ \A i, j \in DOMAIN ids : i < j => ids[i] < ids[j]
     /\ ToSet(ids) \cup { c.id : c \in dropped } = 1 .. made

\* The pause keeps the queue from overflowing: output is lost only when a single
\* chunk is larger than the whole buffer (onData).
OnlyOversizeIsDropped == \A c \in dropped : Size(c) > High

\* A slow browser costs bounded memory: the socket holds little more than the
\* low mark, the queue no more than the high one.
BuffersAreBounded ==
  /\ Bytes(out.queue) <= High
  /\ Bytes(out.sending) <= Low + High

\* A session closed because its channel was closed has sent all it had queued.
TailIsSent ==
  live = "channel_closed" => Len(got) + Cardinality(dropped) = made

\* Input waits only for a channel that will ask for more, unless it did so
\* before anybody listened.
BlockedInputIsAwaited ==
  live = "ready" /\ in.blocked => in.held > 0 \/ missed

\* Both directions as a whole: nothing lost, reordered, unbounded or waited for
\* in vain, but for the cases named.
FlowIsExact ==
  /\ FlowTypeOK
  /\ OutputInOrder /\ OnlyOversizeIsDropped /\ BuffersAreBounded
  /\ TailIsSent /\ BlockedInputIsAwaited

\* A paused channel is resumed or the session ends: neither the callbacks nor
\* the interval may leave it paused for ever.
PausedOutputResumes == out.held ~> (~ out.held \/ live # "ready")
=============================================================================
