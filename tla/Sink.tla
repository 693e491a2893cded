-------------------------------- MODULE Sink --------------------------------
(***************************************************************************)
(* Audit events on their way to a log service.  The batching sink appends  *)
(* and takes its buffer under a lock but sends without it, so batches      *)
(* overtake each other; what failed to go is put back.  The plain sinks    *)
(* beside it keep a bounded number of events or drop what fails.           *)
(***************************************************************************)
EXTENDS SequencesExt, FiniteSetsExt

CONSTANTS Events,      \* how many events are emitted
          batch_size, max_buffer,
          capacity,    \* of the in-memory sink
          LostReplies, Interruptions   \* bounds of the model: of unheard, of interrupted

ASSUME SinkAssumption ==
    /\ Events \in Nat /\ capacity \in Nat \ {0}
    /\ LostReplies \in Nat /\ Interruptions \in Nat
    /\ batch_size \in Nat \ {0} /\ max_buffer \in Nat /\ max_buffer >= batch_size

VARIABLES emitted,    \* events are numbered in the order of their timestamps
          _buffer, oldest_pending,
          sending,    \* batches that were taken and are not yet through
          delivered,  \* how often each event was accepted into the log
          overflowed, \* events that were trimmed
          dropped,    \* events of batches whose flush was cancelled, and did not go
          unheard, interrupted,   \* batches whose reply was lost; cancelled flushes
          kept,       \* what the in-memory sink and the stream have
          initialized \* whether the log stream was made

sink_vars ==
    <<emitted, _buffer, oldest_pending, sending, delivered, overflowed, dropped, unheard,
      interrupted, kept, initialized>>

Nothing == 0

-----------------------------------------------------------------------------
(* Each sink of a MultiSink has the event in turn, and one that fails does *)
(* not keep it from the next: the memory's oldest event gives way, and the *)
(* stream may drop this one.                                               *)
FanOut(e) ==
    \E streamed \in {{}, {e}} :
      kept' = [memory |-> LET all == Append(kept.memory, e)
                          IN SubSeq(all, Max({1, Len(all) - capacity + 1}), Len(all)),
               stream |-> kept.stream \cup streamed]

(* The buffer is flushed when it is full, or when its oldest event has     *)
(* waited long enough, which may be at any time.                           *)
emit ==
    /\ emitted < Events /\ emitted' = emitted + 1
    /\ FanOut(emitted')
    /\ \E overdue \in BOOLEAN, behind \in BOOLEAN :
         LET full == Append(_buffer, emitted')
             flushes == Len(full) >= batch_size \/ overdue
         IN IF flushes /\ ~behind
            THEN /\ sending' = sending \cup {full}
                 /\ _buffer' = <<>> /\ oldest_pending' = Nothing
            ELSE /\ _buffer' = full /\ UNCHANGED sending
                 /\ oldest_pending' = IF oldest_pending = Nothing THEN emitted' ELSE oldest_pending
    /\ UNCHANGED <<delivered, overflowed, dropped, unheard, interrupted, initialized>>

(* flush(), after an emit that decided so, by hand, or on closing. *)
flush ==
    /\ _buffer # <<>>
    /\ sending' = sending \cup {_buffer}
    /\ _buffer' = <<>> /\ oldest_pending' = Nothing
    /\ UNCHANGED <<emitted, delivered, overflowed, dropped, unheard, interrupted, kept,
                   initialized>>

(* put_log_events takes a batch. *)
Accept(batch) ==
    delivered' = [e \in 1 .. Events |-> delivered[e] + IF Contains(batch, e) THEN 1 ELSE 0]

(* The group and the stream are made before the first batch goes.          *)
Sent(batch) ==
    /\ sending' = sending \ {batch}
    /\ Accept(batch) /\ initialized' = TRUE
    /\ UNCHANGED <<emitted, _buffer, oldest_pending, overflowed, dropped, unheard, interrupted,
                   kept>>

(* Mutant: what was appended while the batch was out is forgotten. *)
SendFailsForgetful(batch) ==
    /\ sending' = sending \ {batch}
    /\ _buffer' = batch /\ oldest_pending' = Head(batch)
    /\ initialized' \in {initialized, TRUE}
    /\ UNCHANGED <<emitted, delivered, overflowed, dropped, unheard, interrupted, kept>>

(* The batch is sorted by time where it is, just before it goes. *)
InTimeOrder(batch) ==
    {sorted \in [DOMAIN batch -> ToSet(batch)] :
       /\ ToSet(sorted) = ToSet(batch)
       /\ \A i, j \in DOMAIN batch : i < j => sorted[i] < sorted[j]}

(* The call raises, before the sort or after it.  The log may have taken   *)
(* the batch and only the reply be lost, which the sink cannot tell.  The  *)
(* batch is put before what came since; too much of it, and the first are  *)
(* trimmed, which are the oldest only if no batch was overtaken.           *)
SendFails(batch) ==
    \E again \in {batch} \cup InTimeOrder(batch) :
      LET merged == again \o _buffer
          excess == Max({0, Len(merged) - max_buffer})
      IN /\ sending' = sending \ {batch}
         /\ _buffer' = SubSeq(merged, excess + 1, Len(merged))
         /\ overflowed' = overflowed \cup ToSet(SubSeq(merged, 1, excess))
         /\ oldest_pending' = Head(_buffer')
         /\ \/ initialized' \in {initialized, TRUE} /\ UNCHANGED <<delivered, unheard>>
            \/ /\ again \in InTimeOrder(batch) /\ unheard < LostReplies
               /\ Accept(batch) /\ unheard' = unheard + 1 /\ initialized' = TRUE
         /\ UNCHANGED <<emitted, dropped, interrupted, kept>>

(* Whoever awaits the flush is cancelled: that is no Exception, nothing is *)
(* put back.  The thread, if it has started, goes on, and may succeed.     *)
Cancelled(batch) ==
    /\ interrupted < Interruptions /\ interrupted' = interrupted + 1
    /\ sending' = sending \ {batch}
    /\ initialized' \in {initialized, TRUE}
    /\ \/ Accept(batch) /\ UNCHANGED dropped
       \/ dropped' = dropped \cup ToSet(batch) /\ UNCHANGED delivered
    /\ UNCHANGED <<emitted, _buffer, oldest_pending, overflowed, unheard, kept>>

-----------------------------------------------------------------------------
SinkInit ==
    /\ emitted = 0 /\ _buffer = <<>> /\ oldest_pending = Nothing /\ sending = {}
    /\ delivered = [e \in 1 .. Events |-> 0] /\ overflowed = {} /\ dropped = {}
    /\ unheard = 0 /\ interrupted = 0 /\ initialized = FALSE
    /\ kept = [memory |-> <<>>, stream |-> {}]

SinkStep ==
    \/ emit \/ flush
    \/ \E batch \in sending : Sent(batch) \/ SendFails(batch) \/ Cancelled(batch)

-----------------------------------------------------------------------------
(* "If a flush fails the events are re-buffered (capped at max_buffer)":    *)
(* between emitters, flushes that overtake each other and batches that     *)
(* fail, an event never waits twice, and it is in the log, waits or is out *)
(* in a batch, unless it was trimmed when more than max_buffer had         *)
(* gathered or was dropped with a cancelled flush; it is in the log more   *)
(* than once, or waits once more, only by as many replies as were lost;    *)
(* and whoever waits is known to wait.                                     *)
Whereabouts(e) ==
    (IF e \in overflowed THEN 1 ELSE 0) + (IF e \in dropped THEN 1 ELSE 0)
    + Cardinality({i \in DOMAIN _buffer : _buffer[i] = e})
    + Cardinality({batch \in sending : Contains(batch, e)})
LogsAreKept ==
    /\ \A e \in 1 .. emitted :
         Whereabouts(e) <= 1 /\ delivered[e] + Whereabouts(e) \in 1 .. 1 + unheard
    /\ (_buffer = <<>>) = (oldest_pending = Nothing)
    /\ overflowed # {} => emitted > max_buffer
=============================================================================
