------------------------------- MODULE LlmStream -------------------------------
(***************************************************************************)
(* A streamed answer of LLMService and whoever reads it.  When the network *)
(* fails before anything was read, the service pauses and begins another   *)
(* stream.  The reader may begin at any time, also during a pause, and may *)
(* never begin.  A stream is buffered: what it holds may be read after it  *)
(* broke.                                                                  *)
(***************************************************************************)
EXTENDS Integers, Sequences

CONSTANTS MaxRestarts    \* TRANSIENT_RETRY_WAITS_MS.length

ASSUME StreamAssumption == MaxRestarts \in Nat

VARIABLES streaming,     \* what the service waits for
          restarts,      \* streams begun anew
          sending,       \* streams that hold parts; they are charged
          reader,        \* the stream that is read, or NotReading
          readFrom,      \* history: streams whose parts were read
          beganPaused,   \* history: the reader began during a pause
          streamRows,    \* rows of token usage
          unsettled      \* history: the provider did not tell the usage

streamVars == <<streaming, restarts, sending, reader, readFrom, beganPaused, streamRows, unsettled>>

Streams == 0..MaxRestarts
NotReading == -1

StreamTypeOK ==
  /\ streaming \in {"open", "pause", "delivered", "rejected"}
  /\ restarts \in Streams /\ reader \in Streams \cup {NotReading}
  /\ sending \subseteq Streams /\ readFrom \subseteq Streams
  /\ streamRows \in Seq([tokens : 0..1, minimum : BOOLEAN])
  /\ {unsettled, beganPaused} \subseteq BOOLEAN

StreamInit ==
  /\ streaming = "open" /\ restarts = 0 /\ sending = {}
  /\ reader = NotReading /\ readFrom = {} /\ beganPaused = FALSE
  /\ streamRows = <<>> /\ unsettled = FALSE

-----------------------------------------------------------------------------
(* The provider and the reader. *)

SendParts ==
  /\ streaming = "open" /\ restarts \notin sending
  /\ sending' = sending \cup {restarts}
  /\ UNCHANGED <<streaming, restarts, reader, readFrom, beganPaused, streamRows, unsettled>>

\* The first pull takes the stream that is current.
BeginReading ==
  /\ reader = NotReading
  /\ reader' = restarts /\ beganPaused' = (streaming = "pause")
  /\ UNCHANGED <<streaming, restarts, sending, readFrom, streamRows, unsettled>>

ReadParts ==
  /\ reader \in sending \ readFrom
  /\ readFrom' = readFrom \cup {reader}
  /\ UNCHANGED <<streaming, restarts, sending, reader, beganPaused, streamRows, unsettled>>

-----------------------------------------------------------------------------
(* The service. *)

\* The usage of the stream that ended; a provider may not tell it, and a failed
\* one may not settle it in time.
Usage(n) == n = (IF restarts \in sending THEN 1 ELSE 0) \/ n = 0
Told(n) == unsettled' = (restarts \in sending /\ n = 0)

Deliver(n) ==
  /\ streaming = "open" /\ restarts \in sending
  /\ Usage(n) /\ Told(n)
  /\ streaming' = "delivered"
  /\ streamRows' = Append(streamRows, [tokens |-> n, minimum |-> n > 0])
  /\ UNCHANGED <<restarts, sending, reader, readFrom, beganPaused>>

\* Mutant: a stream that is being read begins anew.
MayBeginAnewReplaying == restarts < MaxRestarts

\* What was read cannot be taken back.
MayBeginAnew == reader = NotReading /\ restarts < MaxRestarts

\* The network fails.
Pause ==
  /\ streaming = "open" /\ MayBeginAnew
  /\ streaming' = "pause"
  /\ UNCHANGED <<restarts, sending, reader, readFrom, beganPaused, streamRows, unsettled>>

BeginAnew ==
  /\ streaming = "pause"
  /\ streaming' = "open" /\ restarts' = restarts + 1
  /\ UNCHANGED <<sending, reader, readFrom, beganPaused, streamRows, unsettled>>

\* Another error, the timer of the stream, or the network once more.
Reject(n) ==
  /\ streaming = "open"
  /\ Usage(n) /\ Told(n)
  /\ streaming' = "rejected"
  /\ streamRows' = IF n = 0 THEN streamRows ELSE Append(streamRows, [tokens |-> n, minimum |-> TRUE])
  /\ UNCHANGED <<restarts, sending, reader, readFrom, beganPaused>>

StreamNext ==
  \/ SendParts \/ BeginReading \/ ReadParts
  \/ Pause \/ BeginAnew
  \/ \E n \in 0..1 : Deliver(n) \/ Reject(n)

StreamSpec == StreamInit /\ [][StreamNext]_streamVars

-----------------------------------------------------------------------------
(* Properties. *)

\* Nothing is read twice: parts come from one stream, and that is the one whose
\* result is delivered, unless the reader began during a pause.
NeverReplayed ==
  /\ readFrom \subseteq {reader}
  /\ reader # NotReading /\ ~beganPaused /\ streaming # "delivered" => reader = restarts
  /\ reader < restarts /\ reader # NotReading => beganPaused

\* An answer has one row, a failure at most one, for the stream that ended; what
\* the streams before it had cost is not charged to anyone.
StreamCharged ==
  /\ streaming \in {"open", "pause"} => streamRows = <<>>
  /\ streaming = "delivered" => Len(streamRows) = 1
  /\ streaming = "rejected" => Len(streamRows) <= 1
  /\ streaming \in {"delivered", "rejected"} /\ restarts \in sending /\ ~unsettled
       => streamRows = <<[tokens |-> 1, minimum |-> TRUE]>>

StreamSound == StreamTypeOK /\ NeverReplayed /\ StreamCharged
=============================================================================
